SPECIFICATION Spec
CONSTANTS
    BufferSize = 2
    ErrorBufferSize = 1
    Window = 2
    Latency = 1
    Prompt = TRUE
    MaxSent = 3
    MaxErrors = 1
INVARIANTS
    TypeOK
    EverySignalAccountedFor
    CompleteWhenPrompt
PROPERTIES
    ImplementsStream
    ReturnsDrained
    CollectReturns
    CloseReturns
