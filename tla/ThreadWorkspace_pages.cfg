SPECIFICATION SpecEither
CONSTANTS
    MaxTurns = 2
    MaxChunks = 1
    MaxPipe = 1
    MaxWire = 1
    MaxSubmits = 1
    MaxStops = 1
    MaxBreaks = 0
    QuietTurns = {}
    AskingTurns = {}
    Limit = 20
INVARIANTS
    TypeOKEither
    AnswerIsWhole
    CalmTextIsTrue
    CalmActiveIsTrue
    PlaceholderGoes
CHECK_DEADLOCK FALSE
