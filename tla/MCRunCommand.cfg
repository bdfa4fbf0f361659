SPECIFICATION Spec
CONSTANTS
    s1 = s1
    s2 = s2
    e1 = e1
    e2 = e2
    i1 = i1
    i2 = i2
    old = old
    OldPositions = {old, i1}
    SchemaVersion = "2.0"
    BadSignal = BadSignal
    Shards = {s1, s2}
    Merger = Merger
    Points <- MCPoints
    MaxTests <- MCMaxTests
    SignalSeqs <- MCSignalSeqs
    FailUnder = 50
    Absent = Absent
    Torn = Torn
INVARIANTS
    RunRecordsEveryHit
    MergedIsWhole
    ExitZeroIsEarned
    PositionsPartitioned
