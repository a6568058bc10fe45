SPECIFICATION Spec
CONSTANTS
    Timeout = 4
    Ceiling = 5
    Budget = 2
    Stopped = 2
    GuardLast = 1
    Hold = 1
    Safety = 1
    Planned = 3
    CallTime = 1
    ConnectBy = 1
    Commands = 1
INVARIANTS PassComplete
