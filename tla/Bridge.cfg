SPECIFICATION FairSpec
CONSTANTS
    Requests = {r1}
    Ids = {w1}
    Watcher = watcher
    Sessions = {s1}
    MaxRequests = 2
INVARIANTS BridgeTypesOK LockedMeansNoIdentities AnswersAccountedFor
PROPERTIES AvailableIsTrue FollowsWindows LocksWhenUnreachable ProxyCloses AnswersArrive
