SPECIFICATION Spec
CONSTANTS
    SchemaVersion = "2.0"
    BadSignal = BadSignal
    NoFile = NoFile
    Situations <- MCSituations
INVARIANTS
    HTMLColoursEveryByteOnce
    LCOVAccountsForEveryHit
    ShowsTheRunsSource
