CONSTANTS
    Callers = {a, b}
    MaxBlocks = 4
    Requests <- MCRequests
    MaxCalls = 2
    NoCaller = NoCaller
SPECIFICATION Spec
PROPERTY Linearizable
\* Each caller makes MaxCalls calls and then stops.
CHECK_DEADLOCK FALSE
