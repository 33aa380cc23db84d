CONSTANT Iterations = 20
SPECIFICATION FairSpec
INVARIANTS
    TypeOK
    NobodySpinsAlone
    FullMeasurement
PROPERTIES
    ImplementsLinkCall
