SPECIFICATION Spec
CONSTANTS
    i1 = i1
    i2 = i2
    k1 = k1
    k2 = k2
    NoItem = NoItem
    NoKey = NoKey
    NoCtx = NoCtx
    Items <- OneItem
    ItemIds <- OneItem
    ListsPrivate <- NoneOfThem
    Keys <- TwoKeys
    Unloadable <- NoneOfThem
    Unsignable <- SecondKey
    Clients = {c1}
    SshClients = {a1}
    Authorizer = "deny"
SYMMETRY ClientSymmetry
INVARIANTS DeniedNeverSigns
PROPERTIES ImplementsStore

