\* A read-only node: two sessions of upstairs u1, the later of which evicts
\* the earlier; the first sends a read, a flush and an ExtentClose, the
\* second the read, whose id collides with the first session's.
CONSTANTS
    Conns = {c1, c2}
    c1 = c1
    c2 = c2
    c3 = c3
    Hello <- MCHelloReadOnly
    PromoteGen <- MCPromoteGen
    ReadOnly = TRUE
    JobIds <- MCJobIdsRepair
    Kind <- MCKindReadRepair
    Deps <- MCDepsRepair
    Load <- MCLoadRepairShortTakeover
    LastFlushNum = 0
    WakeCap = 1
    NoConn = NoConn
    NoJob = NoJob
SPECIFICATION Spec

INVARIANT NoFault RetiredAfterOwnAck WorkIsolation

\* The server stops doing anything once every connection has closed or is
\* idle (the upstairs keeps an idle one up with Ruok pings).
CHECK_DEADLOCK FALSE
