CONSTANTS
    Keys <- MCKeys
    Vals <- MCVals
    v1 = v1
    v2 = v2
    Fanout = 2
    Null = Null
SPECIFICATION Spec
INVARIANTS
    TypeOK
    WellFormed
    SizeMatches
    LookupCorrect
    IterationInOrder
PROPERTY
    MapRefinement
