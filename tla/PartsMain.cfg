SPECIFICATION PartSpec
CONSTANTS
    START_MM = 36
    MAX_SIZE = 228
    Word = 1024
    Wanted = {0, 1, 24, 33, 80, 1000, 1008, 1023}
    MAX_FD = 5
    Pids = {1, 2, 3}
    Pipes = {x1, x2}
    FifoIds = {1}
    MAX_FIFO = 1
    MaxRef = 4
    CHAR_WIDTH = 2
    CHAR_HEIGHT = 3
    width = 20
    height = 17
    Word16 = 64
    Prompts = {0, 3}
    MaxLine = 12
    Columns_ = 8
    Rows_ = 7
    MinX = 1
    MinY = 1
    FoodX = 2
    FoodY = 3
    Length = 3
    MAX_LENGTH = 4
    Word64 = 17
    MaxTurns = 3
    Word32 = 67108864
    Range_ <- MCRange
    Pieces <- MCPieces
    MaxPieces = 6
    Names <- MCNames
    Handlers = {10, 4194304}
    MaxCount = 6
    PipeEnds <- MCEnds
    Leftovers = {0, 1}
    TOTAL_PAIR_PROCESSES = 2
    SEM_ID = 5
    Increments = 2
    FirstPids = {4, 6}
SYMMETRY Symmetry
INVARIANTS
    PartTypeOK
    NoOverlap
    Coalesced
    PayloadFits
    HeldOpen
    NoLeak
    FrameBufferKept
    EchoMatchesLine
    LiveHeadsFree
    TimeTold
    ArgumentsArrive
    UpdatesKept
CHECK_DEADLOCK FALSE
