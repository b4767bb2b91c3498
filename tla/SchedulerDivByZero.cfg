SPECIFICATION Spec
CONSTANTS
    MaxPid = 4
    Priorities = {1, 2}
    Word = 16
    Third = {2, 3}
    Victims = {1, 2, 3, 4}
    Consoles = {1, 2, 3, 4}
    Readers = {1}
    Faulty = {2, 3}
INVARIANT StaysUp
CHECK_DEADLOCK FALSE
