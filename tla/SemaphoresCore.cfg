SPECIFICATION SemSpec
CONSTANTS
    MaxPid = 3
    Priorities = {}
    Word = 8
    Third = {}
    Victims = {}
    Consoles = {}
    Readers = {}
    Faulty = {}
    SemIds = {1, 2}
    Values = {0, 1}
    MaxValue = 2
    MaxQueue = 3
    Sleepers = {1, 2, 3}
    Allocations = {TRUE}
    OpenBeforeWait = TRUE
INVARIANT
    NoLostWakeup
PROPERTY
    ImplementsCounting
