SPECIFICATION UserSpec
CONSTANTS
    MAX_PHILO_COUNT = 3
    DEFAULT_PHILO_COUNT = 2
    MaxTokens = 2
    MaxJob = 4
    Commands <- MCCommands
    Word = 8
INVARIANTS
    UserTypeOK
    NeighboursApart
    HungryIsTold
    StartsInPlace
    ConsoleOwned
    OneConsoleReader
PROPERTIES
    SomebodyEats
    ShellListens
CHECK_DEADLOCK FALSE
