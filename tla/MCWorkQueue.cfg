CONSTANTS
    JobIds <- MCJobIds
    Kind <- MCKind
    Deps <- MCDeps
    LastFlushNum = 0
    WakeCap = 2
    Conn = c1
    Lossy = TRUE
    NoJob = NoJob
SPECIFICATION Spec
INVARIANT TypeOK
PROPERTY AcksRespectDeps EveryJobAcked
\* A session whose worker waits on an empty job channel is idle, not stuck:
\* the upstairs keeps it open with Ruok pings.  Stuck jobs are caught by
\* EveryJobAcked instead.
CHECK_DEADLOCK FALSE
