SPECIFICATION Spec
CONSTANTS
    BufferSize = 2
    ErrorBufferSize = 1
    Window = 2
    Latency = 1
    Prompt = FALSE
    MaxSent = 3
    MaxErrors = 1
INVARIANT CloseNeverPanics
