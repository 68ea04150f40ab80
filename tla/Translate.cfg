SPECIFICATION Spec
CONSTANTS
    Settings <- MCSettings
    OpenAITurns <- MCOpenAITurns
    AnthropicTurns <- MCAnthropicTurns
    MaxTurns = 4
INVARIANTS
    TypeOK
    Alternates
    AnswersStayResults
    FittingArriveOnce
    PromptComesFirst
\* A conversation of MaxTurns turns is not continued.
CHECK_DEADLOCK FALSE
