\* A read-only node and one upstairs that sends a write and then a flush
\* (Write and WriteUnwritten reach add_work on a read-only node).
CONSTANTS
    Conns = {c1}
    c1 = c1
    c2 = c2
    c3 = c3
    Hello <- MCHelloReadOnly
    PromoteGen <- MCPromoteGen
    ReadOnly = TRUE
    JobIds <- MCJobIds
    Kind <- MCKind
    Deps <- MCDeps
    Load <- MCLoad
    LastFlushNum = 0
    WakeCap = 1
    NoConn = NoConn
    NoJob = NoJob
SPECIFICATION Spec

PROPERTY JobsAnswered

\* The server stops doing anything once every connection has closed or is
\* idle (the upstairs keeps an idle one up with Ruok pings).
CHECK_DEADLOCK FALSE
