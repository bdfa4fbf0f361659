SPECIFICATION Spec
CONSTANTS
    MaxTokens = 4
    Files <- MCFiles
INVARIANTS
    OnlyMarkersHideStatements
    FileTextPreserved
    PointsLocateTheirText
    SignalsNamePoints
    BodyIsFound
    LoadsUnlessNestedOrQuoted
    NoFalsePositives
    KeptIsCoveredUnlessExit
PROPERTIES
    ImplementsOriginal
