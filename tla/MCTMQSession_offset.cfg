\* A client that also sends commit_offset, topics tmq_list_append rejects,
\* polls that return a message of an unknown type; writes of the write
\* pump may fail, closing the session beside the read loop, and binary
\* frames wait in the output channel for the write pump.
CONSTANTS
    Obj = {o1, o2}
    NoObj = NoObj
    WriteErrors = TRUE
    OutCap = 1
    Partitions = {1}
    MaxOffset = 2
    Types = {1, 2, 4}
    Interval = 1
    MaxPolls = 2
    MaxTime = 1
    MaxConsumers = 2
    AutoCommitArgs = {"false"}
    AppendCanFail = TRUE
    ClientCommitOffset = TRUE
    CommitCanFail = TRUE
SYMMETRY MCSymmetry
SPECIFICATION Spec
INVARIANT NoDanglingResult
CHECK_DEADLOCK FALSE
