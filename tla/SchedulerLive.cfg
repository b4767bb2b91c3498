SPECIFICATION FairSpec
CONSTANTS
    MaxPid = 3
    Priorities = {1, 3}
    Word = 16
    Third = {}
    Victims = {1, 2, 3}
    Consoles = {1, 2, 3}
    Readers = {1}
    Faulty = {}
PROPERTIES
    ReadyRuns
