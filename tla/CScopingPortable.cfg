SPECIFICATION Spec
CONSTANTS
    Names <- MCNames
    Programs <- MCPrograms
CHECK_DEADLOCK FALSE
INVARIANT PortableC
