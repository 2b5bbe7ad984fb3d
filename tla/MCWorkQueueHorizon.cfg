\* Jobs whose ids lie above a flush but that complete before it.
CONSTANTS
    JobIds <- MCJobIdsHorizon
    Kind <- MCKindHorizon
    Deps <- MCDepsHorizon
    LastFlushNum = 0
    WakeCap = 2
    Conn = c1
    Lossy = FALSE
    NoJob = NoJob
SPECIFICATION Spec
PROPERTY EveryJobAcked
\* A session whose worker waits on an empty job channel is idle, not stuck.
CHECK_DEADLOCK FALSE
