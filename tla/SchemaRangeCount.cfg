\* Three declarations, a byte of two values, usize up to 15.
SPECIFICATION Spec
CONSTANTS
    a = a
    b = b
    c = c
    Declarations = {a, b, c}
    Root = a
    MaxUsize = 15
    ByteValues = 2
    Containers <- MCContainers
INVARIANT
    ValidIsAccepted
