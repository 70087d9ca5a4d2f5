\* A client that never sends commit_offset, with the auto-release
\* goroutine running (auto_commit "true" or "false" on subscribe) and
\* scheduled fairly.  No symmetry: the run checks liveness.
CONSTANTS
    Obj = {o1, o2}
    NoObj = NoObj
    WriteErrors = FALSE
    OutCap = 0
    Partitions = {1}
    MaxOffset = 2
    Types = {1, 2}
    Interval = 1
    MaxPolls = 2
    MaxTime = 3
    MaxConsumers = 1
    AutoCommitArgs = {"true", "false"}
    AppendCanFail = FALSE
    ClientCommitOffset = FALSE
    CommitCanFail = FALSE
SPECIFICATION FairSpec
INVARIANT TypeOK
INVARIANT NoResultLeak
INVARIANT IndexResolves
 
PROPERTY CommitRemovesPrefix
PROPERTY SweepLeavesNoExpired
PROPERTY BufferRefinement
PROPERTY ExpiredEventuallyReleased
CHECK_DEADLOCK FALSE
