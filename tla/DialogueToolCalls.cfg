SPECIFICATION Spec
CONSTANTS
    Valid = {"openai", "anthropic", "gemini", "cohere", "azure", "bedrock", "vertex", "huggingface"}
    Default = "openai"
    Aliases <- MCAliases
    Models <- MCModels
    NoTools = {"small"}
    Options <- MCOptions
    Tools = {"f", "g"}
    agentWebSearchTool = "g"
INVARIANT ToolCallsReachFrontEnd
CHECK_DEADLOCK FALSE
