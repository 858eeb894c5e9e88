SPECIFICATION Spec
CONSTANTS
    Sources <- Layouts
    SizeMod = 16
INVARIANT ColumnOfToken
