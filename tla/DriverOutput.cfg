SPECIFICATION Spec
CONSTANTS
    Byte <- MCByte
    Junk = Junk
    SB_CAP = 2
    VEC_CAP = 2
    Sources <- MCSources
    Newline = 2
    Files <- MCFiles
    Cases <- MCCases
CHECK_DEADLOCK FALSE
INVARIANT OutputWritten
