SPECIFICATION Spec
CONSTANTS
    Names <- MCNames
    Programs <- MCPrograms
CHECK_DEADLOCK FALSE
INVARIANT TypeOK
INVARIANT ErrorTypeReported
INVARIANT BindsLexically
INVARIANT BreaksInLoops
INVARIANT ProgramsDecided
INVARIANT SameBinding
INVARIANT Translated
PROPERTY Finishes
