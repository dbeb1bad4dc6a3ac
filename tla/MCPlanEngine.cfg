CONSTANT
    Plans <- MCPlans
SPECIFICATION FairSpec
INVARIANTS
    TypeOK
    DependenciesFirst
    StrictSequence
    ResponseFaithful
    VerifiedHasOutput
PROPERTIES
    OrderedPlansTerminate
CHECK_DEADLOCK FALSE
