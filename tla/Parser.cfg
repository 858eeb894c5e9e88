SPECIFICATION TreeSpec
CONSTANTS
    Inputs <- Units
INVARIANT TypeOK
INVARIANT WholeUnit
INVARIANT DiagsInOrder
INVARIANT AcceptsGrammar
INVARIANT TreeAsGrouped
PROPERTY QueueSpec
PROPERTY Terminates
CHECK_DEADLOCK FALSE
