SPECIFICATION Spec
CONSTANTS
    MaxTokens = 1
    Files <- MCFiles
INVARIANTS
    Transparent
