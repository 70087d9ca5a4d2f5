\* A position request over three (topic, vgroup) pairs; every native call
\* may return an offset, the "no offset" value or an error.
CONSTANTS
    N = 3
    Results <- MCResults
    OffsetInvalid <- MCOffsetInvalid
    Op = "position"
    NoRes = NoRes
SPECIFICATION FairSpec
PROPERTY FanOutCompletes
PROPERTY FanOutRefinement
CHECK_DEADLOCK FALSE
