\* The handler returns on the first error while other goroutines still
\* wait for asyncLocker; the session is closed before they run.
CONSTANTS
    N = 2
    Results <- MCResults
    OffsetInvalid <- MCOffsetInvalid
    Op = "position"
    NoRes = NoRes
SPECIFICATION Spec
PROPERTY TasksCallOpenConsumer
CHECK_DEADLOCK FALSE
