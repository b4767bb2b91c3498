SPECIFICATION PipeSpec
CONSTANTS
    MaxPid = 3
    Priorities = {}
    Word = 8
    Third = {}
    Victims = {3}
    Consoles = {}
    Readers = {}
    Faulty = {}
    SemIds = {0, 1}
    writequeue = 0
    readqueue = 1
    Foreign = {2}
    Values = {1}
    MaxValue = 3
    MaxQueue = 3
    Sleepers = {}
    Allocations = {TRUE}
    OpenBeforeWait = FALSE
    PIPE_BUFFER = 2
    Index = 4
    ReadCounts = {1}
    WriteCounts = {3}
    Writers = {1, 2, 3}
    Garbage = {0, 3}
INVARIANTS
    NotFreedInside
    SleepingReaderFed
    SleepingWriterKnown
PROPERTIES
    ImplementsChannel
