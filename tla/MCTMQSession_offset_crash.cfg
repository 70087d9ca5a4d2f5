\* Without the auto-release goroutine, a sequence of requests leaves an
\* index entry whose message is gone, and commit_offset dereferences nil.
CONSTANTS
    Obj = {o1, o2}
    NoObj = NoObj
    WriteErrors = FALSE
    OutCap = 1
    Partitions = {1}
    Interval = 1
    MaxOffset = 3
    Types = {1}
    MaxPolls = 3
    MaxTime = 1
    MaxConsumers = 1
    AutoCommitArgs = {"false"}
    AppendCanFail = FALSE
    ClientCommitOffset = TRUE
    CommitCanFail = FALSE
SYMMETRY MCSymmetry
SPECIFICATION Spec
INVARIANT CommitOffsetNeverCrashes
CHECK_DEADLOCK FALSE
