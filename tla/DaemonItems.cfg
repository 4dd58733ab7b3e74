SPECIFICATION FairSpec
CONSTANTS
    i1 = i1
    i2 = i2
    k1 = k1
    k2 = k2
    NoItem = NoItem
    NoKey = NoKey
    NoCtx = NoCtx
    Items <- TwoItems
    ItemIds <- TwoItems
    ListsPrivate <- OneItem
    Keys <- TwoKeys
    Unloadable <- SecondKey
    Unsignable <- NoneOfThem
    Clients = {c1}
    SshClients = {}
    Authorizer = "polkit"
INVARIANTS RegisteredIsCached QuietLock
PROPERTIES ResponseIsTrue FailureKeepsKeys LoadEnds ImplementsStore
