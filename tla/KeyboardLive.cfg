SPECIFICATION KbdFairSpec
CONSTANTS
    MaxPid = 2
    Priorities = {}
    Word = 8
    Third = {}
    Victims = {2}
    Consoles = {2}
    Readers = {}
    Faulty = {}
    SemIds = {2}
    Values = {1}
    MaxValue = 2
    MaxQueue = 3
    Sleepers = {}
    Allocations = {TRUE}
    OpenBeforeWait = FALSE
    BUFF_LEN = 1
    Bytes = 2
    Scancodes = {"ctrl", "c", "tab", "enter"}
    RawModes = {}
PROPERTIES
    KeyReachesReader
