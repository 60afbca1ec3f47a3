SPECIFICATION Spec
CONSTANT
    Programs <- SilentPrograms
INVARIANT
    NoSilentClash
