\* A write of the write pump fails while the read loop still has frames
\* to handle; no topic is rejected, so only Close closes a consumer.
CONSTANTS
    Obj = {o1, o2}
    NoObj = NoObj
    WriteErrors = TRUE
    OutCap = 1
    Partitions = {1}
    MaxOffset = 2
    Types = {1}
    Interval = 1
    MaxPolls = 2
    MaxTime = 2
    MaxConsumers = 1
    AutoCommitArgs = {"false"}
    AppendCanFail = FALSE
    ClientCommitOffset = FALSE
    CommitCanFail = FALSE
SYMMETRY MCSymmetry
SPECIFICATION Spec
PROPERTY ConsumerCallsOnOpen
CHECK_DEADLOCK FALSE
