SPECIFICATION FairSpec
CONSTANTS
    MaxPid = 3
    Priorities = {1, 2}
    Word = 16
    Third = {2, 3}
    Victims = {1, 2, 3}
    Consoles = {1, 2, 3}
    Readers = {1}
    Faulty = {1}
PROPERTY BootReachesProcess
CHECK_DEADLOCK FALSE
