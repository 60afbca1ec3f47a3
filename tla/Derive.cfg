\* Tags up to 3: a fifth variant, or a discriminant of 4, is one too many.
SPECIFICATION MacrosSpec
CONSTANTS
    Programs <- MCPrograms
    Depth <- MCDepth
    TagBits = 2
    Reprs <- MCReprs
    MaxVariants = 5
    Expressions <- MCExpressions
INVARIANTS
    TypeOK
    CountedTags
    VariantSurvives
    BoundsSuffice
    NoNeedlessBounds
    DerivesAgree
    NothingIgnored
    InnerStructsCompile
    NamesTellApart
