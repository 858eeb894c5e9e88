SPECIFICATION Spec
CONSTANTS
    Sources <- Files
    SizeMod = 16
INVARIANT TypeOK
INVARIANT SkippedIsLayout
INVARIANT LineColExact
INVARIANT LongestLexeme
INVARIANT ErrorReported
INVARIANT Overshoot
PROPERTY Progress
PROPERTY CallReturns
PROPERTY StreamSpec
