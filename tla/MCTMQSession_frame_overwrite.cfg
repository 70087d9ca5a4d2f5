\* A frame queued by WriteBinary still shares message.buffer when the next
\* fetch or fetch_raw on the same struct rewrites the buffer in place.
CONSTANTS
    Obj = {o1, o2}
    NoObj = NoObj
    WriteErrors = FALSE
    OutCap = 1
    Partitions = {1}
    Interval = 1
    MaxOffset = 2
    Types = {1}
    MaxPolls = 2
    MaxTime = 1
    MaxConsumers = 1
    AutoCommitArgs = {"false"}
    AppendCanFail = FALSE
    ClientCommitOffset = FALSE
    CommitCanFail = FALSE
SYMMETRY MCSymmetry
SPECIFICATION Spec
INVARIANT QueuedFramesIntact
CHECK_DEADLOCK FALSE
