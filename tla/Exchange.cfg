\* 4 byte values; a length is one byte, so 4 elements are too many.  The reader
\* has a smaller usize than the writer.
SPECIFICATION Spec
CONSTANTS
    Base = 4
    LenBytes = 1
    WideBytes = 2
    MaxUsize = 9
    Depth <- MCDepth
    Keys <- MCKeys
    Values <- MCValues
    Less <- MCLess
    Default <- MCDefault
    InitField <- MCInitField
    Samples <- MCSamples
    Foreign <- MCForeign
    MaxForeign = 5
    Trailing = 1
    MaxRoom = 5
    WriterMaxUsize = 15
    MaxKeys = 4
INVARIANTS
    TypeOK
    RoundTrip
    Agreement
    PrefixOnFailure
    LengthAgrees
    SelfDelimiting
    Canonical
    NormalForm
    SchemaDescribes
PROPERTY
    WritesPromised
