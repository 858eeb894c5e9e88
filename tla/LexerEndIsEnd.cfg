SPECIFICATION Spec
CONSTANTS
    Sources <- Strings
    SizeMod = 16
INVARIANT EndIsEnd
