SPECIFICATION Spec
CONSTANTS
    Root <- MCRoot
    Trees <- MCTrees
    Locked <- MCLocked
    Kind <- MCKind
    Globs <- MCGlobs
    Listings <- MCListings
INVARIANTS
    KeysIdentifyFiles
    LoadsItsDirectoryInOrder
    PatternsKeepTheirOrder
