CONSTANTS
    k1 = k1
    k2 = k2
    Calls = {k1, k2}
    MaxRounds = 3
    MaxItems = 4
    MaxPerRound = 2
    MaxCalls = 2
    None = None
SPECIFICATION FairSpec
INVARIANTS
    TypeOK
    OrderedEvents
    ReportsAreTrue
    CompletionWins
    CompletionIsDurable
PROPERTIES
    ImplementsLedger
    CancellationIsPrompt
    TurnEnds
CHECK_DEADLOCK FALSE
