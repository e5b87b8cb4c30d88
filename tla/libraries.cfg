SPECIFICATION Spec
CONSTANTS
    Calls = {c1, c2, c3}
    MaxFailures = 2
    Timeout = 1
    HalfOpenMaxReqs = 1
    Hangs = 1
    MaxRetries = 3
    InitialDelay = 5
    MaxDelay = 10
    Multiplier = 2
    JitterPercent = 120
    SlackUsers = {u1}
    Callers = {g1, g2}
    TTL = 2
    FetchLimit = 1
    Horizon = 7
    Lower = {"a", "b"}
    Upper = {"A", "B"}
    Digits = {"1", "2"}
    LowerOf <- MCLowerOf
    Prefix <- MCPrefix
    Words <- MCWords
    Ports <- MCPorts
    MaxName = 9
    MaxUsername = 1
    MaxHost = 1
INVARIANTS
    CountMatchesState
    CancelStopsRetries
    WaitsBounded
    AnswersFresh
    NamesValid
    NamesParseBack
PROPERTIES
    BreakerRecovers
