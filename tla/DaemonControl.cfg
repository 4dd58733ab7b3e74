SPECIFICATION Spec
CONSTANTS
    i1 = i1
    i2 = i2
    k1 = k1
    k2 = k2
    NoItem = NoItem
    NoKey = NoKey
    NoCtx = NoCtx
    Items <- OneItem
    ItemIds <- OneItem
    ListsPrivate <- OneItem
    Keys <- TwoKeys
    Unloadable <- NoneOfThem
    Unsignable <- NoneOfThem
    Clients = {c1, c2}
    SshClients = {a1}
    Authorizer = "polkit"
SYMMETRY Symmetry
INVARIANTS TypeOK SignatureMatches KeysMatch UnlockedHasSession ContextIsLive
PROPERTIES LockedAgentRefuses
