SPECIFICATION Spec
CONSTANTS
    t1 = t1
    t2 = t2
    a = a
    b = b
    c = c
    NoTest = NoTest
    Tests <- MCTests
    Names = {n1, n2}
    Sources <- MCSources
    Dir <- MCDir
    ExplicitSources = FALSE
    SetupScripts = 1
    Cancellable = TRUE
INVARIANTS
    TimeoutMeansDeadline
