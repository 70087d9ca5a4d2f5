\* commit_offset, then unsubscribe: the struct is put in the pool twice and
\* two later polls share it, so the first result is never freed.
CONSTANTS
    Obj = {o1, o2}
    NoObj = NoObj
    WriteErrors = FALSE
    OutCap = 1
    Partitions = {1}
    Interval = 1
    MaxOffset = 3
    Types = {1}
    MaxPolls = 3
    MaxTime = 1
    MaxConsumers = 1
    AutoCommitArgs = {"false"}
    AppendCanFail = FALSE
    ClientCommitOffset = TRUE
    CommitCanFail = FALSE
SYMMETRY MCSymmetry
SPECIFICATION Spec
INVARIANT NoResultLeak
CHECK_DEADLOCK FALSE
