\* A failed subscribe with auto_commit "false", then a successful one
\* without auto_commit: the consumer auto-commits, no release timer runs.
CONSTANTS
    Obj = {o1, o2}
    NoObj = NoObj
    WriteErrors = FALSE
    OutCap = 1
    Partitions = {1}
    Interval = 1
    MaxOffset = 1
    Types = {1}
    MaxPolls = 1
    MaxTime = 1
    MaxConsumers = 1
    AutoCommitArgs = {"unset", "false"}
    AppendCanFail = FALSE
    ClientCommitOffset = FALSE
    CommitCanFail = FALSE
SYMMETRY MCSymmetry
SPECIFICATION Spec
INVARIANT AutoReleaseMatchesConsumer
CHECK_DEADLOCK FALSE
