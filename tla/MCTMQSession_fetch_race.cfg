\* The auto-release goroutine cleans a message between the lookup of a
\* fetch request and its native call.
CONSTANTS
    Obj = {o1, o2}
    NoObj = NoObj
    WriteErrors = FALSE
    OutCap = 1
    Partitions = {1}
    Interval = 1
    MaxOffset = 2
    Types = {1, 2}
    MaxPolls = 2
    MaxTime = 3
    MaxConsumers = 1
    AutoCommitArgs = {"true"}
    AppendCanFail = FALSE
    ClientCommitOffset = FALSE
    CommitCanFail = FALSE
SYMMETRY MCSymmetry
SPECIFICATION Spec
PROPERTY FetchReadsLookedUpResult
CHECK_DEADLOCK FALSE
