\* Two sessions register, log in and change passwords, with exits anywhere.
SPECIFICATION Spec
CONSTANTS
    s1 = s1
    s2 = s2
    Sessions = {s1, s2}
    Passwords = {"p", "q"}
    Salts = {"x", "y"}
    RegNames <- OwnNames
    Resets = FALSE
    MaxOps = 5
INVARIANTS TypeOK UniqueNames HomeForEach LoginRight
CHECK_DEADLOCK FALSE
