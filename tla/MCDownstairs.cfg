CONSTANTS
    Conns = {c1, c2}
    c1 = c1
    c2 = c2
    c3 = c3
    Hello <- MCHello
    PromoteGen <- MCPromoteGen
    ReadOnly = FALSE
    JobIds <- MCJobIds
    Kind <- MCKind
    Deps <- MCDeps
    Load <- MCLoad
    LastFlushNum = 0
    WakeCap = 1
    NoConn = NoConn
    NoJob = NoJob
SPECIFICATION Spec

INVARIANT TypeOK NoFault RetiredAfterOwnAck WorkIsolation

\* The server stops doing anything once every connection has closed or is
\* idle (the upstairs keeps an idle one up with Ruok pings).
CHECK_DEADLOCK FALSE
