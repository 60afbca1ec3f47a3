\* Seven types; up to three members.
SPECIFICATION Spec
CONSTANT
    Programs <- MCPrograms
INVARIANTS
    TypeOK
    Exact
    NoFalseAlarm
    DepthBounded
    SchemaDecides
