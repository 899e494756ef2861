SPECIFICATION Spec
CONSTANTS
    Systems = {"widevine", "playready"}
    Data = {"d1", "d2"}
    Contents = {"c1", "c2"}
    MaxActivations = 2
    MaxFlows = 2
    MaxSessions = 2
    MaxExchanges = 2
    DataOf <- MCDataOf
    ContentOf <- MCContentOf
    Protections <- MCProtections
INVARIANTS
    SessionsSound
    CurrentSessionsKept
    FailureIsRemembered
CHECK_DEADLOCK FALSE
