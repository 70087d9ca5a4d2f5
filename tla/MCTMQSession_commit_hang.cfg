\* A client with auto_commit "true" whose commit tmq_commit_sync rejects:
\* commit returns still holding listLocker, and the auto-release
\* goroutine, scheduled fairly, waits for it for good.  No symmetry: the
\* run checks liveness.
CONSTANTS
    Obj = {o1, o2}
    NoObj = NoObj
    WriteErrors = FALSE
    OutCap = 0
    Partitions = {1}
    MaxOffset = 2
    Types = {1}
    Interval = 1
    MaxPolls = 2
    MaxTime = 3
    MaxConsumers = 1
    AutoCommitArgs = {"true"}
    AppendCanFail = FALSE
    ClientCommitOffset = FALSE
    CommitCanFail = TRUE
SPECIFICATION FairSpec
PROPERTY ExpiredEventuallyReleased
CHECK_DEADLOCK FALSE
