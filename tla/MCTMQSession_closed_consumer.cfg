\* A resubscribe with a topic tmq_list_append rejects closes t.consumer
\* but keeps it, and the next request calls into the closed consumer.
CONSTANTS
    Obj = {o1, o2}
    NoObj = NoObj
    WriteErrors = FALSE
    OutCap = 1
    Partitions = {1}
    Interval = 1
    MaxOffset = 1
    Types = {1}
    MaxPolls = 1
    MaxTime = 1
    MaxConsumers = 1
    AutoCommitArgs = {"true"}
    AppendCanFail = TRUE
    ClientCommitOffset = FALSE
    CommitCanFail = FALSE
SYMMETRY MCSymmetry
SPECIFICATION Spec
PROPERTY ConsumerCallsOnOpen
CHECK_DEADLOCK FALSE
