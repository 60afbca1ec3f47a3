\* Tags of three bits: no expression loses any.
SPECIFICATION Spec
CONSTANTS
    TagBits = 3
    MaxVariants = 3
    Reprs <- MCReprs
    Expressions <- MCExpressions
INVARIANT
    TagsAreDiscriminants
