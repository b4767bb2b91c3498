SPECIFICATION KbdSpec
CONSTANTS
    MaxPid = 3
    Priorities = {}
    Word = 8
    Third = {}
    Victims = {}
    Consoles = {2}
    Readers = {}
    Faulty = {}
    SemIds = {2}
    Values = {1}
    MaxValue = 2
    MaxQueue = 3
    Sleepers = {}
    Allocations = {TRUE}
    OpenBeforeWait = FALSE
    BUFF_LEN = 2
    Bytes = 2
    Scancodes = {"E0", "up", "back"}
    RawModes = {TRUE}
INVARIANTS
    OneReader
    KeysInOrder
    LineEdited
