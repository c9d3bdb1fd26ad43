SPECIFICATION Spec
CONSTANTS
    Targets = {"anthropic", "gemini", "cohere", "ollama", "openai", "azure", "huggingface", "vertex",
               "bedrock", "fallback"}
    Chain <- MCChain
    MaxRetries = 1
    Request <- MCRequest
    MaxOpen = 2
    Contents <- MCContents
    PostErrors <- MCPostErrors
    ReadErrors <- MCReadErrors
INVARIANTS PostedFits OneAnswerPerID DoneHidesNoError NoNeedlessRestart
PROPERTIES StreamEnds
CHECK_DEADLOCK FALSE
