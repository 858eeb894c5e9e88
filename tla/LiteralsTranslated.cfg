SPECIFICATION Spec
CONSTANTS
    Byte <- MCByte
    Junk = Junk
    BLOCK_ALIGN = 2
    INIT_CAP = 4
    MAX_CAP = 8
    STR_CAP = 2
    SB_CAP = 2
    VEC_CAP = 2
    Works <- MCWorks
CHECK_DEADLOCK FALSE
INVARIANT StringsTranslated
