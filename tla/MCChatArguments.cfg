SPECIFICATION Spec
CONSTANTS
    Config <- MCConfig
    Provider = {"", "ollama", "openrouter", "other"}
    Model = {"", "llama", "gpt", "claude"}
    MaxTurns = 2
    Pieces = 3
    MaxCalls = 2
    MaxDeltas = 1
INVARIANT NoCallDropped
