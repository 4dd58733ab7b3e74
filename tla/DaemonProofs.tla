---------------------------- MODULE DaemonProofs ----------------------------
(***************************************************************************)
(* Theorems about Daemon, for any number of connections, items and keys.   *)
(***************************************************************************)
EXTENDS Daemon, TLAPS

USE DEF MaybeKey, MaybeItem

-----------------------------------------------------------------------------
(* Lemmas about the operators of the registry and of the provider *)

\* Clearing leaves an empty registry.
LEMMA ClearType == Clear => RegistryTypeOK'
  BY DEF Clear, RegistryTypeOK, NoIdentities, NoPrivateKeys

\* Adding keys to a well-typed registry gives a well-typed registry.
LEMMA AddKeysType ==
  ASSUME NEW ids \in [Keys -> MaybeItem], NEW privs \in [Keys -> MaybeKey],
         NEW done \in SUBSET Items, NEW list \in [Items -> MaybeKey],
         NEW material \in [Items -> MaybeKey],
         AddKeys(ids, privs, done, list, material)
  PROVE  RegistryTypeOK'
<1>1. \A k \in Keys : WithBlob(done, list, k) # {} => identities'[k] \in done
  BY SshKeysAssumption DEF AddKeys, WithBlob
<1>2. privateKeys' \in [Keys -> MaybeKey]
  BY <1>1 DEF AddKeys
<1> QED
  BY <1>2 DEF RegistryTypeOK, AddKeys

\* The empty listing is a function on the items.
LEMMA NoKeysType == NoKeys \in [Items -> MaybeKey]
  BY DEF NoKeys

\* Listings and caches are functions on the items.
LEMMA ListingType ==
  ASSUME NEW items \in [Items -> MaybeKey]
  PROVE  Listing(items) \in [Items -> MaybeKey]
  BY DEF Listing

LEMMA CacheAfterListType ==
  ASSUME NEW list \in [Items -> MaybeKey], NEW parsed,
         keyCache \in [Items -> MaybeKey]
  PROVE  CacheAfterList(list, parsed) \in [Items -> MaybeKey]
  BY DEF CacheAfterList

-----------------------------------------------------------------------------
(* Type correctness *)

\* The fields of a request after a response, or after bw has been started.
LEMMA RespondType ==
  ASSUME RequestTypeOK, NEW c \in Clients, stale' \in [Clients -> BOOLEAN],
         crossed' \in [Clients -> BOOLEAN],
         NEW r \in {"answered", "locked", "unlocked", "synced", "error"},
         Respond(c, r)
  PROVE  RequestTypeOK'
<1>1. /\ pc' \in [Clients -> {"closed", "idle", "prompt", "list", "get"}]
      /\ op' \in [Clients -> {"none", "unlock", "sync"}]
      /\ given' \in [Clients -> BOOLEAN]
      /\ reply' \in [Clients -> {"none", "answered", "locked", "unlocked",
                                 "synced", "error"}]
  BY DEF Respond, RequestTypeOK
<1>2. listed' \in [Clients -> [Items -> MaybeKey]]
  BY NoKeysType DEF Respond, RequestTypeOK
<1>3. pending' \in [Clients -> SUBSET Items] /\ fetching' \in [Clients -> MaybeItem]
  BY DEF Respond, RequestTypeOK
<1> QED
  BY <1>1, <1>2, <1>3 DEF RequestTypeOK

LEMMA StartListType ==
  ASSUME RequestTypeOK, NEW c \in Clients, NEW m \in {"unlock", "sync"},
         StartList(c, m)
  PROVE  RequestTypeOK'
  BY DEF StartList, RequestTypeOK

\* The provider after bw has been started, forgotten or left alone.
LEMMA BwType ==
  ASSUME ProviderTypeOK, NEW c \in Clients,
         StartBw(c) \/ EndBw(c) \/ UNCHANGED bwVars,
         vault' = vault, session' \in BOOLEAN, keyCache' \in [Items -> MaybeKey]
  PROVE  ProviderTypeOK'
<1>1. bw' \in [Clients -> {"none", "running", "answered"}]
  BY DEF StartBw, EndBw, bwVars, ProviderTypeOK
<1>2. answer' \in [Clients -> [Items -> MaybeKey]]
  BY NoKeysType DEF StartBw, EndBw, bwVars, ProviderTypeOK
<1> QED
  BY <1>1, <1>2 DEF ProviderTypeOK

\* The context a request publishes.
LEMMA RequestType ==
  ASSUME NEW c \in Clients, Request(c)
  PROVE  currentCtx' \in Clients \cup {NoCtx}
  BY DEF Request

\* What an unlock does once it is authorized.
LEMMA BeginUnlockType ==
  ASSUME TypeOK, NEW c \in Clients, NEW b \in BOOLEAN, BeginUnlock(c, b),
         vault' = vault, keyCache' = keyCache
  PROVE  RequestTypeOK' /\ ProviderTypeOK'
<1>1. CASE b /\ session' = TRUE /\ StartList(c, "unlock")
  <2>1. RequestTypeOK'
    BY <1>1, StartListType DEF TypeOK, ControlTypeOK
  <2>2. ProviderTypeOK'
    BY <1>1, BwType DEF StartList, TypeOK, ProviderTypeOK
  <2> QED
    BY <2>1, <2>2
<1>2. CASE session' = session /\ RespondAtOnce(c, "error")
  <2>1. stale' \in [Clients -> BOOLEAN] /\ crossed' \in [Clients -> BOOLEAN]
    BY <1>2 DEF RespondAtOnce, TypeOK, ControlTypeOK, RequestTypeOK
  <2>2. RequestTypeOK'
    BY <1>2, <2>1, RespondType DEF RespondAtOnce, TypeOK, ControlTypeOK
  <2>3. ProviderTypeOK'
    BY <1>2, BwType DEF RespondAtOnce, TypeOK, ProviderTypeOK
  <2> QED
    BY <2>2, <2>3
<1> QED
  BY <1>1, <1>2 DEF BeginUnlock

\* A request answered at once keeps every type the rest of the step keeps.
LEMMA RespondAtOnceType ==
  ASSUME TypeOK, NEW c \in Clients, NEW r \in {"answered", "synced", "error"},
         RespondAtOnce(c, r), UNCHANGED <<vault, session, keyCache>>
  PROVE  RequestTypeOK' /\ ProviderTypeOK'
<1>1. stale' \in [Clients -> BOOLEAN] /\ crossed' \in [Clients -> BOOLEAN]
  BY DEF RespondAtOnce, TypeOK, ControlTypeOK, RequestTypeOK
<1>2. RequestTypeOK'
  BY <1>1, RespondType DEF RespondAtOnce, TypeOK, ControlTypeOK
<1>3. ProviderTypeOK'
  BY BwType DEF RespondAtOnce, TypeOK, ProviderTypeOK
<1> QED
  BY <1>2, <1>3

LEMMA RespondAfterBwType ==
  ASSUME TypeOK, NEW c \in Clients, NEW r \in {"unlocked", "synced", "error"},
         RespondAfterBw(c, r), UNCHANGED <<vault, session>>,
         keyCache' \in [Items -> MaybeKey], crossed' \in [Clients -> BOOLEAN]
  PROVE  RequestTypeOK' /\ ProviderTypeOK'
<1>1. stale' \in [Clients -> BOOLEAN]
  BY DEF RespondAfterBw, TypeOK, ControlTypeOK, RequestTypeOK
<1>2. RequestTypeOK'
  BY <1>1, RespondType DEF RespondAfterBw, TypeOK, ControlTypeOK
<1>3. ProviderTypeOK'
  BY BwType DEF RespondAfterBw, TypeOK, ProviderTypeOK
<1> QED
  BY <1>2, <1>3

\* The control server's steps that leave the registry alone.
LEMMA QuietStepType ==
  ASSUME TypeOK, NEW c \in Clients,
         \/ Accept(c) \/ Close(c) \/ Query(c) \/ ReloadConfig(c)
         \/ UnlockRequest(c) \/ UnlockPromptAnswered(c) \/ SyncRequest(c)
         \/ BwFails(c)
  PROVE  RegistryTypeOK' /\ ProviderTypeOK' /\ ControlTypeOK'
<1>1. RegistryTypeOK'
  BY DEF Accept, Close, Query, ReloadConfig, UnlockRequest, UnlockPromptAnswered,
         SyncRequest, BwFails, registryVars, TypeOK, RegistryTypeOK
<1>2. CASE Accept(c)
  BY <1>1, <1>2 DEF Accept, providerVars, TypeOK, ProviderTypeOK, ControlTypeOK,
                    RequestTypeOK
<1>3. CASE Close(c)
  BY <1>1, <1>3 DEF Close, providerVars, TypeOK, ProviderTypeOK, ControlTypeOK,
                    RequestTypeOK
<1>4. CASE Query(c)
  <2>1. RequestTypeOK' /\ ProviderTypeOK'
    BY <1>4, RespondAtOnceType DEF Query, Request
  <2> QED
    BY <1>1, <1>4, <2>1, RequestType DEF Query, Request, TypeOK, ControlTypeOK
<1>5. CASE ReloadConfig(c)
  <2>1. RequestTypeOK' /\ ProviderTypeOK'
    BY <1>5, RespondAtOnceType DEF ReloadConfig, Request
  <2> QED
    BY <1>1, <1>5, <2>1, RequestType DEF ReloadConfig, Request, TypeOK, ControlTypeOK
<1>6. CASE UnlockRequest(c)
  <2>1. PICK b \in BOOLEAN :
          \/ BeginUnlock(c, b)
          \/ session' = session /\ RespondAtOnce(c, "error")
          \/ /\ pc' = [pc EXCEPT ![c] = "prompt"]
             /\ op' = [op EXCEPT ![c] = "unlock"]
             /\ given' = [given EXCEPT ![c] = b]
             /\ reply' = [reply EXCEPT ![c] = "none"]
             /\ UNCHANGED <<session, bwVars, listed, pending, fetching, stale, crossed>>
    BY <1>6 DEF UnlockRequest
  <2>2. UNCHANGED <<vault, keyCache, hasCtx, locked, requirePolkit, sinceLock>>
    BY <1>6 DEF UnlockRequest, Request
  <2>3. RequestTypeOK' /\ ProviderTypeOK'
    <3>1. CASE BeginUnlock(c, b)
      BY <2>2, <3>1, BeginUnlockType
    <3>2. CASE session' = session /\ RespondAtOnce(c, "error")
      BY <2>2, <3>2, RespondAtOnceType
    <3>3. CASE /\ pc' = [pc EXCEPT ![c] = "prompt"]
               /\ op' = [op EXCEPT ![c] = "unlock"]
               /\ given' = [given EXCEPT ![c] = b]
               /\ reply' = [reply EXCEPT ![c] = "none"]
               /\ UNCHANGED <<session, bwVars, listed, pending, fetching, stale, crossed>>
      <4>1. RequestTypeOK'
        BY <3>3 DEF TypeOK, ControlTypeOK, RequestTypeOK
      <4>2. ProviderTypeOK'
        BY <2>2, <3>3 DEF TypeOK, ProviderTypeOK, bwVars
      <4> QED
        BY <4>1, <4>2
    <3> QED
      BY <2>1, <3>1, <3>2, <3>3
  <2> QED
    BY <1>1, <1>6, <2>2, <2>3, RequestType DEF UnlockRequest, TypeOK, ControlTypeOK
<1>7. CASE UnlockPromptAnswered(c)
  <2>1. given[c] \in BOOLEAN
    BY DEF TypeOK, ControlTypeOK, RequestTypeOK
  <2>2. RequestTypeOK' /\ ProviderTypeOK'
    BY <1>7, <2>1, BeginUnlockType, RespondAtOnceType DEF UnlockPromptAnswered
  <2> QED
    BY <1>1, <1>7, <2>2 DEF UnlockPromptAnswered, TypeOK, ControlTypeOK
<1>8. CASE SyncRequest(c)
  <2>1. \/ StartList(c, "sync")
        \/ RespondAtOnce(c, IF locked THEN "error" ELSE "synced")
    BY <1>8 DEF SyncRequest
  <2>2. UNCHANGED <<vault, session, keyCache, hasCtx, locked, requirePolkit, sinceLock>>
    BY <1>8 DEF SyncRequest, Request
  <2>3. CASE StartList(c, "sync")
    <3>1. RequestTypeOK'
      BY <2>3, StartListType DEF TypeOK, ControlTypeOK
    <3>2. ProviderTypeOK'
      BY <2>2, <2>3, BwType DEF StartList, TypeOK, ProviderTypeOK
    <3> QED
      BY <1>1, <1>8, <2>2, <3>1, <3>2, RequestType
      DEF SyncRequest, TypeOK, ControlTypeOK
  <2>4. CASE RespondAtOnce(c, IF locked THEN "error" ELSE "synced")
    <3>1. RequestTypeOK' /\ ProviderTypeOK'
      BY <2>2, <2>4, RespondAtOnceType
    <3> QED
      BY <1>1, <1>8, <2>2, <3>1, RequestType DEF SyncRequest, TypeOK, ControlTypeOK
  <2> QED
    BY <2>1, <2>3, <2>4
<1>9. CASE BwFails(c)
  <2>1. crossed' \in [Clients -> BOOLEAN]
    BY <1>9 DEF BwFails, TypeOK, ControlTypeOK, RequestTypeOK
  <2>2. RequestTypeOK' /\ ProviderTypeOK'
    BY <1>9, <2>1, RespondAfterBwType DEF BwFails, LoadFails, TypeOK, ProviderTypeOK
  <2> QED
    BY <1>1, <1>9, <2>2 DEF BwFails, LoadFails, TypeOK, ControlTypeOK
<1> QED
  BY <1>2, <1>3, <1>4, <1>5, <1>6, <1>7, <1>8, <1>9

\* The two steps that lock.
LEMMA LockType ==
  ASSUME TypeOK, SleepLock \/ \E c \in Clients : LockRequest(c)
  PROVE  RegistryTypeOK' /\ ProviderTypeOK' /\ ControlTypeOK'
<1>1. RegistryTypeOK'
  BY ClearType DEF SleepLock, LockRequest, Lock
<1>2. ProviderTypeOK'
  BY NoKeysType DEF SleepLock, LockRequest, Lock, ProviderLock, Request, bwVars,
         TypeOK, ProviderTypeOK
<1>3. stale' \in [Clients -> BOOLEAN] /\ crossed' \in [Clients -> BOOLEAN]
  <2>1. \A c \in Clients : Loading(c) \in BOOLEAN
    BY DEF Loading
  <2>2. /\ stale' = [c \in Clients |-> Loading(c)]
        /\ crossed' = [c \in Clients |-> pc[c] = "get"]
    BY DEF SleepLock, LockRequest, Lock
  <2> QED
    BY <2>1, <2>2
<1>4. CASE SleepLock
  BY <1>1, <1>2, <1>3, <1>4 DEF SleepLock, Lock, TypeOK, ControlTypeOK, RequestTypeOK
<1>5. CASE \E c \in Clients : LockRequest(c)
  <2>1. PICK c \in Clients : LockRequest(c)
    BY <1>5
  <2>2. RequestTypeOK'
    BY <1>3, <2>1, RespondType DEF LockRequest, TypeOK, ControlTypeOK
  <2> QED
    BY <1>1, <1>2, <2>1, <2>2, RequestType
    DEF LockRequest, Lock, Request, TypeOK, ControlTypeOK
<1> QED
  BY <1>4, <1>5

\* The loop over the identities, from a cache and a registry of the right type.
LEMMA RunLoopType ==
  ASSUME TypeOK, NEW c \in Clients,
         NEW list \in [Items -> MaybeKey], NEW todo \in SUBSET Items,
         NEW first, NEW ids \in [Keys -> MaybeItem],
         NEW privs \in [Keys -> MaybeKey], keyCache' \in [Items -> MaybeKey],
         RunLoop(c, list, todo, first, ids, privs), LoadMarked(c),
         UNCHANGED <<vault, session, requirePolkit, currentCtx, hasCtx>>
  PROVE  RegistryTypeOK' /\ ProviderTypeOK' /\ ControlTypeOK'
<1>1. PICK done \in SUBSET todo :
        /\ AddKeys(ids, privs, done, list, keyCache')
        /\ \/ Loaded(c)
           \/ \E i \in todo : Fetch(c, list, todo \ done, i) \/ LoadFails(c)
  BY DEF RunLoop
<1>2. RegistryTypeOK'
  BY <1>1, AddKeysType
<1>3. sinceLock' \in {"nothing", "fresh", "stale"} /\ crossed' \in [Clients -> BOOLEAN]
  BY DEF LoadMarked, TypeOK, ControlTypeOK, RequestTypeOK
<1>4. CASE Loaded(c) \/ LoadFails(c)
  <2>1. PICK r \in {"unlocked", "synced", "error"} : RespondAfterBw(c, r)
    BY <1>4 DEF Loaded, LoadFails
  <2>2. RequestTypeOK' /\ ProviderTypeOK'
    BY <1>3, <2>1, RespondAfterBwType
  <2>3. locked' \in BOOLEAN
    BY <1>4 DEF Loaded, LoadFails, TypeOK, ControlTypeOK
  <2> QED
    BY <1>2, <1>3, <2>2, <2>3 DEF TypeOK, ControlTypeOK
<1>5. CASE \E i \in todo : Fetch(c, list, todo \ done, i)
  <2>1. RequestTypeOK'
    BY <1>3, <1>5 DEF Fetch, TypeOK, ControlTypeOK, RequestTypeOK
  <2>2. ProviderTypeOK'
    BY <1>5, BwType DEF Fetch, TypeOK, ProviderTypeOK
  <2> QED
    BY <1>2, <1>3, <1>5, <2>1, <2>2 DEF Fetch, TypeOK, ControlTypeOK
<1> QED
  BY <1>1, <1>4, <1>5

\* bw's answers.
LEMMA BwAnswerType ==
  ASSUME TypeOK, NEW c \in Clients, ListReturns(c) \/ ListBreaks(c) \/ GetReturns(c)
  PROVE  RegistryTypeOK' /\ ProviderTypeOK' /\ ControlTypeOK'
<1>1. CASE ListReturns(c)
  <2> DEFINE list == Listing(answer[c])
             ids == IF ClearsFirst(c) THEN NoIdentities ELSE identities
             privs == IF ClearsFirst(c) THEN NoPrivateKeys ELSE privateKeys
  <2>1. list \in [Items -> MaybeKey]
    BY ListingType DEF TypeOK, ProviderTypeOK
  <2>2. keyCache' \in [Items -> MaybeKey]
    BY <1>1, <2>1, CacheAfterListType DEF ListReturns, TypeOK, ProviderTypeOK
  <2>3. ids \in [Keys -> MaybeItem] /\ privs \in [Keys -> MaybeKey]
    BY DEF TypeOK, RegistryTypeOK, NoIdentities, NoPrivateKeys
  <2>4. ListedItems(list) \in SUBSET Items
    BY DEF ListedItems
  <2>5. RunLoop(c, list, ListedItems(list), {}, ids, privs)
    BY <1>1 DEF ListReturns
  <2>6. LoadMarked(c) /\ UNCHANGED <<vault, session, requirePolkit, currentCtx, hasCtx>>
    BY <1>1 DEF ListReturns
  <2> HIDE DEF list, ids, privs
  <2> QED
    BY <2>1, <2>2, <2>3, <2>4, <2>5, <2>6, RunLoopType
<1>2. CASE GetReturns(c)
  <2> DEFINE k == answer[c][fetching[c]]
  <2>1. CASE k = NoKey \/ k \in Unloadable
    <3>1. keyCache' \in [Items -> MaybeKey] /\ RegistryTypeOK'
      BY <1>2, <2>1, SshKeysAssumption
      DEF GetReturns, CacheAfterGet, registryVars, TypeOK, ProviderTypeOK,
          RegistryTypeOK
    <3>2. LoadFails(c) /\ LoadMarked(c)
          /\ UNCHANGED <<vault, session, requirePolkit, currentCtx, hasCtx>>
      BY <1>2, <2>1, SshKeysAssumption DEF GetReturns
    <3>3. crossed' \in [Clients -> BOOLEAN]
      BY <3>2 DEF LoadMarked, TypeOK, ControlTypeOK, RequestTypeOK
    <3>4. RequestTypeOK' /\ ProviderTypeOK'
      BY <3>1, <3>2, <3>3, RespondAfterBwType DEF LoadFails
    <3> QED
      BY <3>1, <3>2, <3>4 DEF LoadFails, LoadMarked, TypeOK, ControlTypeOK
  <2>2. CASE k \in Keys \ Unloadable
    <3>1. keyCache' \in [Items -> MaybeKey]
      BY <1>2, <2>2, SshKeysAssumption
      DEF GetReturns, CacheAfterGet, TypeOK, ProviderTypeOK
    <3>2. RunLoop(c, listed[c], pending[c], {fetching[c]}, identities, privateKeys)
      BY <1>2, <2>2, SshKeysAssumption DEF GetReturns
    <3>3. /\ listed[c] \in [Items -> MaybeKey]
          /\ pending[c] \in SUBSET Items
          /\ identities \in [Keys -> MaybeItem]
          /\ privateKeys \in [Keys -> MaybeKey]
      BY DEF TypeOK, ControlTypeOK, RequestTypeOK, RegistryTypeOK
    <3>4. LoadMarked(c) /\ UNCHANGED <<vault, session, requirePolkit, currentCtx, hasCtx>>
      BY <1>2 DEF GetReturns
    <3> QED
      BY <3>1, <3>2, <3>3, <3>4, RunLoopType
  <2> QED
    BY <1>2, <2>1, <2>2 DEF GetReturns
<1>3. CASE ListBreaks(c)
  <2>1. RegistryTypeOK' /\ crossed' \in [Clients -> BOOLEAN]
    BY <1>3 DEF ListBreaks, registryVars, TypeOK, RegistryTypeOK, ControlTypeOK,
                RequestTypeOK
  <2>2. keyCache' \in [Items -> MaybeKey]
    BY <1>3, ListingType, CacheAfterListType DEF ListBreaks, TypeOK, ProviderTypeOK
  <2>3. RequestTypeOK' /\ ProviderTypeOK'
    BY <1>3, <2>1, <2>2, RespondAfterBwType DEF ListBreaks, LoadFails
  <2>4. sinceLock' \in {"nothing", "cached", "fresh", "stale"}
    BY <1>3 DEF ListBreaks, TypeOK, ControlTypeOK
  <2> QED
    BY <1>3, <2>1, <2>3, <2>4 DEF ListBreaks, LoadFails, TypeOK, ControlTypeOK
<1> QED
  BY <1>1, <1>2, <1>3

\* The steps of the vault and of bw.
LEMMA ProviderStepType ==
  ASSUME TypeOK, ProviderStep
  PROVE  RegistryTypeOK' /\ ProviderTypeOK' /\ ControlTypeOK'
<1>1. RegistryTypeOK' /\ ControlTypeOK'
  BY DEF ProviderStep, registryVars, controlVars, requestVars, TypeOK,
         RegistryTypeOK, ControlTypeOK, RequestTypeOK
<1>2. ProviderTypeOK'
  BY DEF ProviderStep, EditVault, BwReads, TypeOK, ProviderTypeOK
<1> QED
  BY <1>1, <1>2

\* The agent server's steps; it only reads the registry.
LEMMA AgentType ==
  ASSUME TypeOK, AgentNext
  PROVE  AgentTypeOK' /\ UNCHANGED registryVars
<1>1. PICK a \in SshClients :
        \/ Connect(a) \/ Disconnect(a) \/ RequestIdentities(a) \/ Unsupported(a)
        \/ SignRequest(a) \/ SignPromptAnswered(a)
  BY DEF AgentNext
<1> USE DEF TypeOK, RegistryTypeOK, AgentTypeOK, Answer, Refuse
<1>2. CASE Connect(a)
  BY <1>2 DEF Connect
<1>3. CASE Disconnect(a)
  BY <1>3 DEF Disconnect
<1>4. CASE RequestIdentities(a)
  BY <1>4 DEF RequestIdentities
<1>5. CASE Unsupported(a)
  BY <1>5 DEF Unsupported
<1>6. CASE SignRequest(a)
  <2>1. PICK k \in Keys :
          \/ Refuse(a)
          \/ Answer(a, "signature", k, privateKeys[k])
          \/ /\ apc' = [apc EXCEPT ![a] = "prompt"]
             /\ asked' = [asked EXCEPT ![a] = k]
             /\ held' = [held EXCEPT ![a] = privateKeys[k]]
             /\ areply' = [areply EXCEPT ![a] = "none"]
    BY <1>6 DEF SignRequest, Sign
  <2>2. privateKeys[k] \in MaybeKey
    OBVIOUS
  <2> QED
    BY <1>6, <2>1, <2>2 DEF SignRequest
<1>7. CASE SignPromptAnswered(a)
  BY <1>7 DEF SignPromptAnswered, Sign
<1> QED
  BY <1>1, <1>2, <1>3, <1>4, <1>5, <1>6, <1>7

\* Every variable keeps its type in every behaviour of the daemon.
THEOREM TypeCorrect == Spec => []TypeOK
<1>1. Init => TypeOK
  <2> SUFFICES ASSUME Init PROVE TypeOK
    OBVIOUS
  <2>1. RegistryTypeOK
    BY DEF Init, RegistryInit, RegistryTypeOK, NoIdentities, NoPrivateKeys
  <2>2. ProviderTypeOK
    BY NoKeysType DEF Init, ProviderInit, ProviderTypeOK
  <2>3. ControlTypeOK
    BY NoKeysType DEF Init, ControlInit, RequiredAtStart, ControlTypeOK, RequestTypeOK
  <2>4. AgentTypeOK
    BY DEF Init, AgentInit, AgentTypeOK
  <2> QED
    BY <2>1, <2>2, <2>3, <2>4 DEF TypeOK
<1>2. TypeOK /\ [Next]_vars => TypeOK'
  <2> SUFFICES ASSUME TypeOK, [Next]_vars PROVE TypeOK'
    OBVIOUS
  <2>1. CASE ControlNext /\ UNCHANGED agentVars
    <3>1. RegistryTypeOK' /\ ProviderTypeOK' /\ ControlTypeOK'
      BY <2>1, QuietStepType, LockType, BwAnswerType, ProviderStepType
      DEF ControlNext, ControlRequest, BwEnds
    <3> QED
      BY <2>1, <3>1 DEF TypeOK, AgentTypeOK, agentVars
  <2>2. CASE AgentNext /\ UNCHANGED <<providerVars, controlVars>>
    <3>1. AgentTypeOK' /\ RegistryTypeOK'
      BY <2>2, AgentType DEF TypeOK, RegistryTypeOK, registryVars
    <3>2. ProviderTypeOK' /\ ControlTypeOK'
      BY <2>2 DEF TypeOK, ProviderTypeOK, ControlTypeOK, providerVars,
                  controlVars, requestVars, RequestTypeOK
    <3> QED
      BY <3>1, <3>2 DEF TypeOK
  <2>3. CASE UNCHANGED vars
    BY <2>3
    DEF vars, registryVars, providerVars, controlVars, requestVars, agentVars,
        TypeOK, RegistryTypeOK, ProviderTypeOK, ControlTypeOK, RequestTypeOK,
        AgentTypeOK
  <2> QED
    BY <2>1, <2>2, <2>3 DEF Next
<1> QED
  BY <1>1, <1>2, PTL DEF Spec

-----------------------------------------------------------------------------
(* What every step but a lock and a delivered load leaves alone *)

\* Only locks and the delivery of bw's answers touch the registry, the cache, the
\* flag and the ghost, and a listing that breaks off only the cache.
LEMMA OtherSteps ==
  ASSUME TypeOK, [Next]_vars
  PROVE  \/ Lock
         \/ \E c \in Clients : ListReturns(c) \/ GetReturns(c)
         \/ \E c \in Clients : ListBreaks(c) /\ UNCHANGED <<registryVars, locked>>
         \/ UNCHANGED <<registryVars, keyCache, locked, sinceLock>>
<1>1. CASE ControlNext /\ UNCHANGED agentVars
  <2>1. CASE SleepLock
    BY <1>1, <2>1 DEF SleepLock
  <2>2. CASE ProviderStep
    BY <2>2 DEF ProviderStep, EditVault, BwReads, controlVars
  <2>3. ASSUME NEW c \in Clients,
               ControlRequest(c) \/ UnlockPromptAnswered(c) \/ BwEnds(c)
        PROVE  \/ LockRequest(c) \/ ListReturns(c) \/ GetReturns(c)
               \/ ListBreaks(c) /\ UNCHANGED <<registryVars, locked>>
               \/ UNCHANGED <<registryVars, keyCache, locked, sinceLock>>
    BY <2>3 DEF ControlRequest, BwEnds, Accept, Close, Query, ReloadConfig,
       UnlockRequest, UnlockPromptAnswered, SyncRequest, ListBreaks, BwFails,
       LoadFails, providerVars
  <2>4. ASSUME NEW c \in Clients, LockRequest(c)
        PROVE  Lock
    BY <2>4 DEF LockRequest
  <2> QED
    BY <1>1, <2>1, <2>2, <2>3, <2>4 DEF ControlNext
<1>2. CASE AgentNext /\ UNCHANGED <<providerVars, controlVars>>
  BY <1>2, AgentType DEF providerVars, controlVars
<1>3. CASE UNCHANGED vars
  BY <1>3 DEF vars, providerVars, controlVars
<1> QED
  BY <1>1, <1>2, <1>3 DEF Next

-----------------------------------------------------------------------------
(* A lock stays complete until a load delivers its result *)

\* QuietLock: after lock(), and until a load delivers its result, no key is
\* offered or signable and the flag says locked; nor is one cached until then, or
\* until a listing comes back that broke off half way.  It is inductive.
THEOREM LockIsComplete == Spec => []QuietLock
<1>1. Init => QuietLock
  BY DEF Init, RegistryInit, ProviderInit, ControlInit, QuietLock, Offered, Signable,
         NoIdentities, NoPrivateKeys
<1>2. TypeOK /\ QuietLock /\ [Next]_vars => QuietLock'
  <2> SUFFICES ASSUME TypeOK, QuietLock, [Next]_vars PROVE QuietLock'
    OBVIOUS
  <2>1. CASE Lock
    BY <2>1 DEF Lock, Clear, ProviderLock, QuietLock, Offered, Signable,
                NoIdentities, NoPrivateKeys
  <2>2. CASE \E c \in Clients : ListReturns(c) \/ GetReturns(c)
    BY <2>2 DEF ListReturns, GetReturns, LoadMarked, QuietLock
  <2>3. CASE UNCHANGED <<registryVars, keyCache, locked, sinceLock>>
    BY <2>3 DEF registryVars, QuietLock, Offered, Signable
  <2>4. ASSUME NEW c \in Clients, ListBreaks(c), UNCHANGED <<registryVars, locked>>
        PROVE  QuietLock'
    <3>1. sinceLock' = "nothing" => sinceLock = "nothing" /\ keyCache' = keyCache
      <4>1. \A list : keyCache \in [Items -> MaybeKey] => CacheAfterList(list, {}) = keyCache
        BY DEF CacheAfterList
      <4> QED
        BY <2>4, <4>1 DEF ListBreaks, TypeOK, ProviderTypeOK
    <3>2. sinceLock' \in {"nothing", "cached"} => sinceLock \in {"nothing", "cached"}
      BY <2>4 DEF ListBreaks
    <3>3. UNCHANGED <<Offered, Signable, locked>>
      BY <2>4 DEF registryVars, Offered, Signable
    <3> QED
      BY <3>1, <3>2, <3>3 DEF QuietLock
  <2> QED
    BY <2>1, <2>2, <2>3, <2>4, OtherSteps
<1> QED
  BY <1>1, <1>2, TypeCorrect, PTL DEF Spec

-----------------------------------------------------------------------------
(* Every registered key can be reloaded from the provider's cache *)

\* A load only adds to the cache, and takes every key it registers from it.
LEMMA LoadUsesCache ==
  ASSUME TypeOK, NEW c \in Clients, ListReturns(c) \/ GetReturns(c)
  PROVE  /\ \A i \in Items : keyCache[i] # NoKey => keyCache'[i] # NoKey
         /\ \A k \in Keys :
               \/ identities'[k] \in Items /\ keyCache'[identities'[k]] # NoKey
               \/ identities'[k] = identities[k]
               \/ identities'[k] = NoItem
<1>0. ASSUME NEW list, NEW todo \in SUBSET Items, NEW first, NEW ids, NEW privs,
             RunLoop(c, list, todo, first, ids, privs)
      PROVE  \A k \in Keys :
               \/ identities'[k] \in Items /\ keyCache'[identities'[k]] # NoKey
               \/ identities'[k] = ids[k]
  <2>1. PICK done \in SUBSET todo :
          /\ \A i \in done : keyCache'[i] \in Keys \ Unloadable
          /\ AddKeys(ids, privs, done, list, keyCache')
    BY <1>0 DEF RunLoop
  <2> QED
    BY <2>1, SshKeysAssumption DEF AddKeys, WithBlob
<1>1. CASE ListReturns(c)
  <2>1. \A i \in Items : keyCache[i] # NoKey => keyCache'[i] # NoKey
    BY <1>1 DEF ListReturns, CacheAfterList, ListedItems
  <2>2. ListedItems(Listing(answer[c])) \in SUBSET Items
    BY DEF ListedItems
  <2>3. \A k \in Keys :
          \/ identities'[k] \in Items /\ keyCache'[identities'[k]] # NoKey
          \/ identities'[k] = (IF ClearsFirst(c) THEN NoIdentities ELSE identities)[k]
    BY <1>0, <1>1, <2>2 DEF ListReturns
  <2> QED
    BY <2>1, <2>3 DEF NoIdentities
<1>2. CASE GetReturns(c)
  <2>1. \A i \in Items : keyCache[i] # NoKey => keyCache'[i] # NoKey
    BY <1>2, SshKeysAssumption
    DEF GetReturns, CacheAfterGet, TypeOK, ProviderTypeOK
  <2>2. pending[c] \in SUBSET Items
    BY DEF TypeOK, ControlTypeOK, RequestTypeOK
  <2>3. \/ UNCHANGED registryVars
        \/ RunLoop(c, listed[c], pending[c], {fetching[c]}, identities, privateKeys)
    BY <1>2 DEF GetReturns
  <2> QED
    BY <1>0, <2>1, <2>2, <2>3 DEF registryVars
<1> QED
  BY <1>1, <1>2

\* RegisteredIsCached: what the agent serves came from items whose private key
\* the provider still caches.  It is inductive, given the types.
THEOREM RegistryWithinCache == Spec => []RegisteredIsCached
<1>1. Init => RegisteredIsCached
  BY DEF Init, RegistryInit, RegisteredIsCached, Offered, NoIdentities
<1>2. TypeOK /\ RegisteredIsCached /\ [Next]_vars => RegisteredIsCached'
  <2> SUFFICES ASSUME TypeOK, RegisteredIsCached, [Next]_vars
               PROVE  RegisteredIsCached'
    OBVIOUS
  <2>1. CASE Lock
    BY <2>1 DEF Lock, Clear, RegisteredIsCached, Offered, NoIdentities
  <2>2. CASE \E c \in Clients : ListReturns(c) \/ GetReturns(c)
    <3>1. \A k \in Offered : identities[k] \in Items
      BY DEF Offered, TypeOK, RegistryTypeOK
    <3> QED
      BY <2>2, <3>1, LoadUsesCache DEF RegisteredIsCached, Offered
  <2>3. CASE UNCHANGED <<registryVars, keyCache, locked, sinceLock>>
    BY <2>3 DEF registryVars, RegisteredIsCached, Offered
  <2>4. ASSUME NEW c \in Clients, ListBreaks(c), UNCHANGED <<registryVars, locked>>
        PROVE  RegisteredIsCached'
    <3>1. \A i \in Items : keyCache[i] # NoKey => keyCache'[i] # NoKey
      BY <2>4 DEF ListBreaks, CacheAfterList, ListedItems
    <3>2. \A k \in Offered : identities[k] \in Items
      BY DEF Offered, TypeOK, RegistryTypeOK
    <3> QED
      BY <2>4, <3>1, <3>2 DEF registryVars, RegisteredIsCached, Offered
  <2> QED
    BY <2>1, <2>2, <2>3, <2>4, OtherSteps
<1> QED
  BY <1>1, <1>2, TypeCorrect, PTL DEF Spec

-----------------------------------------------------------------------------
(* An unlocked daemon has its session *)

\* An unlock that no lock has overtaken runs bw with the stored session.
UnlockHoldsSession ==
  \A c \in Clients : Loading(c) /\ op[c] = "unlock" /\ ~stale[c] => session

\* The steps that change no flag store a session, or begin no unlock.
LEMMA OtherStepsSession ==
  ASSUME TypeOK, NEW c \in Clients,
         \/ Accept(c) \/ Close(c) \/ Query(c) \/ ReloadConfig(c)
         \/ UnlockRequest(c) \/ UnlockPromptAnswered(c) \/ SyncRequest(c)
         \/ ListBreaks(c) \/ BwFails(c)
  PROVE  /\ locked' = locked /\ (sinceLock' = "stale" <=> sinceLock = "stale")
         /\ \/ session' = TRUE
            \/ /\ session' = session
               /\ \A d \in Clients :
                     Loading(d)' /\ op'[d] = "unlock" =>
                        Loading(d) /\ op[d] = "unlock" /\ stale'[d] = stale[d]
<1> USE DEF TypeOK, ControlTypeOK, RequestTypeOK, Loading
<1>1. CASE Accept(c) \/ Close(c)
  BY <1>1 DEF Accept, Close, providerVars
<1>2. CASE Query(c) \/ ReloadConfig(c)
  BY <1>2 DEF Query, ReloadConfig, Respond, RespondAtOnce
<1>3. CASE UnlockRequest(c)
  BY <1>3 DEF UnlockRequest, BeginUnlock, Respond, RespondAtOnce
<1>4. CASE UnlockPromptAnswered(c)
  BY <1>4 DEF UnlockPromptAnswered, BeginUnlock, Respond, RespondAtOnce
<1>5. CASE SyncRequest(c)
  BY <1>5 DEF SyncRequest, StartList, Respond, RespondAtOnce
<1>6. CASE ListBreaks(c) \/ BwFails(c)
  BY <1>6 DEF ListBreaks, BwFails, LoadFails, Respond, RespondAfterBw
<1> QED
  BY <1>1, <1>2, <1>3, <1>4, <1>5, <1>6

\* A delivered load unlocks only at the end of an unlock.
LEMMA LoadSession ==
  ASSUME TypeOK, NEW c \in Clients, ListReturns(c) \/ GetReturns(c)
  PROVE  /\ session' = session
         /\ sinceLock' # "stale" => ~stale[c] /\ sinceLock # "stale"
         /\ locked' = locked \/ (Loading(c) /\ op[c] = "unlock")
         /\ \A d \in Clients :
               Loading(d)' /\ op'[d] = "unlock" =>
                  Loading(d) /\ op[d] = "unlock" /\ stale'[d] = stale[d]
<1>1. session' = session /\ Loading(c)
      /\ (sinceLock' # "stale" => ~stale[c] /\ sinceLock # "stale")
  BY DEF ListReturns, GetReturns, LoadMarked, Loading
<1>2. \/ Loaded(c) \/ LoadFails(c)
      \/ \E list, rest, i : Fetch(c, list, rest, i)
  BY DEF ListReturns, GetReturns, RunLoop
<1> USE DEF TypeOK, ControlTypeOK, RequestTypeOK, Loading
<1>3. CASE Loaded(c)
  BY <1>1, <1>3 DEF Loaded, Respond, RespondAfterBw
<1>4. CASE LoadFails(c)
  BY <1>1, <1>4 DEF LoadFails, Respond, RespondAfterBw
<1>5. CASE \E list, rest, i : Fetch(c, list, rest, i)
  BY <1>1, <1>5 DEF Fetch
<1> QED
  BY <1>1, <1>2, <1>3, <1>4, <1>5

\* UnlockedHasSession: an unlocked daemon has the session it was unlocked with,
\* unless a load that a lock overtook unlocked it.  Inductive together with
\* UnlockHoldsSession.
THEOREM SessionStaysWithUnlock == Spec => []UnlockedHasSession
<1> DEFINE IInv == UnlockedHasSession /\ UnlockHoldsSession
<1>1. Init => IInv
  BY DEF Init, ControlInit, UnlockedHasSession, UnlockHoldsSession, Loading
<1>2. TypeOK /\ IInv /\ [Next]_vars => IInv'
  <2> SUFFICES ASSUME TypeOK, IInv, [Next]_vars PROVE IInv'
    OBVIOUS
  <2>1. ASSUME NEW c \in Clients, ControlRequest(c) \/ UnlockPromptAnswered(c) \/ BwEnds(c)
        PROVE  IInv'
    <3>1. CASE LockRequest(c)
      <4>1. \A d \in Clients : Loading(d)' => stale'[d]
        BY <3>1 DEF LockRequest, Lock, Respond, Loading, TypeOK, ControlTypeOK,
                    RequestTypeOK
      <4> QED
        BY <3>1, <4>1 DEF LockRequest, Lock, UnlockedHasSession, UnlockHoldsSession
    <3>2. CASE ListReturns(c) \/ GetReturns(c)
      BY <3>2, LoadSession DEF UnlockedHasSession, UnlockHoldsSession
    <3>3. CASE ~(LockRequest(c) \/ ListReturns(c) \/ GetReturns(c))
      BY <2>1, <3>3, OtherStepsSession
      DEF ControlRequest, BwEnds, UnlockedHasSession, UnlockHoldsSession
    <3> QED
      BY <3>1, <3>2, <3>3
  <2>2. CASE SleepLock
    <3>1. \A d \in Clients : Loading(d)' => stale'[d]
      BY <2>2 DEF SleepLock, Lock, Loading
    <3> QED
      BY <2>2, <3>1 DEF SleepLock, Lock, UnlockedHasSession, UnlockHoldsSession
  <2>3. CASE UNCHANGED <<session, controlVars>>
    BY <2>3 DEF controlVars, requestVars, UnlockedHasSession, UnlockHoldsSession, Loading
  <2>4. ProviderStep => UNCHANGED <<session, controlVars>>
    BY DEF ProviderStep, EditVault, BwReads
  <2> QED
    BY <2>1, <2>2, <2>3, <2>4 DEF Next, ControlNext, vars, providerVars
<1> QED
  BY <1>1, <1>2, TypeCorrect, PTL DEF Spec

-----------------------------------------------------------------------------
(* The keys match, when listings carry the private keys *)

\* KeysMatch, one blob at a time.
KeyMatches(ids, privs, k) ==
  /\ ids[k] # NoItem <=> privs[k] # NoKey
  /\ privs[k] \in {NoKey, k}

LEMMA KeysMatchPointwise ==
  KeysMatch <=> \A k \in Keys : KeyMatches(identities, privateKeys, k)
<1>1. ASSUME KeysMatch, NEW k \in Keys
      PROVE  KeyMatches(identities, privateKeys, k)
  BY <1>1 DEF KeysMatch, KeyMatches, Offered, Signable
<1>2. ASSUME \A k \in Keys : KeyMatches(identities, privateKeys, k)
      PROVE  KeysMatch
  BY <1>2 DEF KeysMatch, KeyMatches, Offered, Signable
<1> QED
  BY <1>1, <1>2

\* No request fetches items one by one.
NoFetch == \A c \in Clients : pc[c] # "get"

\* Nothing but a delivered list makes a task fetch an item.
LEMMA OtherStepsNoFetch ==
  ASSUME TypeOK, NoFetch, [Next]_vars
  PROVE  \/ NoFetch'
         \/ \E c \in Clients : ListReturns(c)
<1> USE DEF NoFetch, TypeOK, ControlTypeOK, RequestTypeOK
<1>1. ASSUME NEW c \in Clients,
             \/ ControlRequest(c) \/ UnlockPromptAnswered(c)
             \/ ListBreaks(c) \/ BwFails(c)
      PROVE  NoFetch'
  <2>1. CASE Accept(c) \/ Close(c)
    BY <2>1 DEF Accept, Close
  <2>2. CASE Query(c) \/ LockRequest(c) \/ ReloadConfig(c)
    BY <2>2 DEF Query, LockRequest, ReloadConfig, Respond, RespondAtOnce
  <2>3. CASE UnlockRequest(c) \/ UnlockPromptAnswered(c)
    BY <2>3 DEF UnlockRequest, UnlockPromptAnswered, BeginUnlock, StartList,
                Respond, RespondAtOnce
  <2>4. CASE SyncRequest(c)
    BY <2>4 DEF SyncRequest, StartList, Respond, RespondAtOnce
  <2>5. CASE ListBreaks(c) \/ BwFails(c)
    BY <2>5 DEF ListBreaks, BwFails, LoadFails, Respond, RespondAfterBw
  <2> QED
    BY <1>1, <2>1, <2>2, <2>3, <2>4, <2>5 DEF ControlRequest
<1>2. ASSUME NEW c \in Clients PROVE ~GetReturns(c)
  BY DEF GetReturns
<1>3. SleepLock => NoFetch'
  BY DEF SleepLock
<1>4. UNCHANGED controlVars => NoFetch'
  BY DEF controlVars, requestVars
<1>5. ProviderStep => UNCHANGED controlVars
  BY DEF ProviderStep
<1> QED
  BY <1>1, <1>2, <1>3, <1>4, <1>5 DEF Next, ControlNext, BwEnds, vars

\* A delivered list keeps the keys matching, and finds every listed key cached.
LEMMA ListKeepsMatch ==
  ASSUME ItemIds \subseteq ListsPrivate, TypeOK, KeysMatch, NoFetch,
         NEW c \in Clients, ListReturns(c)
  PROVE  KeysMatch' /\ NoFetch'
<1> DEFINE list == Listing(answer[c])
           todo == ListedItems(list)
           ids == IF ClearsFirst(c) THEN NoIdentities ELSE identities
           privs == IF ClearsFirst(c) THEN NoPrivateKeys ELSE privateKeys
<1>1. \A i \in todo : keyCache'[i] = list[i] /\ list[i] # NoKey
  BY ProviderAssumption DEF ListReturns, CacheAfterList, ListedItems, Listing
<1>2. RunLoop(c, list, todo, {}, ids, privs)
  BY DEF ListReturns
<1>3. \A k \in Keys : KeyMatches(ids, privs, k)
  BY KeysMatchPointwise DEF KeyMatches, NoIdentities, NoPrivateKeys
<1>4. todo \in SUBSET Items
  BY DEF ListedItems
<1> HIDE DEF list, todo, ids, privs
<1>5. PICK done \in SUBSET todo :
        /\ AddKeys(ids, privs, done, list, keyCache')
        /\ \/ Loaded(c) \/ LoadFails(c)
           \/ \E i \in todo : keyCache'[i] = NoKey
  BY <1>2 DEF RunLoop
<1>6. \A k \in Keys : KeyMatches(identities', privateKeys', k)
  <2> SUFFICES ASSUME NEW k \in Keys PROVE KeyMatches(identities', privateKeys', k)
    OBVIOUS
  <2>1. CASE WithBlob(done, list, k) = {}
    <3>1. identities'[k] = ids[k] /\ privateKeys'[k] = privs[k]
      BY <1>5, <2>1 DEF AddKeys
    <3> QED
      BY <1>3, <3>1 DEF KeyMatches
  <2>2. CASE WithBlob(done, list, k) # {}
    <3>1. identities'[k] \in WithBlob(done, list, k)
      BY <1>5, <2>2 DEF AddKeys
    <3>2. privateKeys'[k] = keyCache'[identities'[k]]
      BY <1>5, <2>2 DEF AddKeys
    <3>3. identities'[k] \in todo /\ list[identities'[k]] = k
      BY <3>1 DEF WithBlob
    <3> QED
      BY <1>1, <1>4, <3>2, <3>3, SshKeysAssumption DEF KeyMatches
  <2> QED
    BY <2>1, <2>2
<1>7. KeysMatch'
  <2>1. Offered' = Signable'
    BY <1>6 DEF KeyMatches, Offered, Signable
  <2> QED
    BY <1>6, <2>1 DEF KeyMatches, KeysMatch, Signable
<1>8. Loaded(c) \/ LoadFails(c)
  BY <1>1, <1>5
<1>9. NoFetch'
  BY <1>8 DEF Loaded, LoadFails, Respond, RespondAfterBw, NoFetch, TypeOK, ControlTypeOK,
              RequestTypeOK
<1> QED
  BY <1>7, <1>9

\* KeysMatch is inductive together with NoFetch.
LEMMA KeysMatchInductive ==
  ASSUME ItemIds \subseteq ListsPrivate
  PROVE  Spec => [](KeysMatch /\ NoFetch)
<1>1. Init => KeysMatch /\ NoFetch
  BY DEF Init, RegistryInit, ControlInit, KeysMatch, NoFetch, Offered, Signable,
         NoIdentities, NoPrivateKeys
<1>2. TypeOK /\ (KeysMatch /\ NoFetch) /\ [Next]_vars => (KeysMatch /\ NoFetch)'
  <2> SUFFICES ASSUME TypeOK, KeysMatch, NoFetch, [Next]_vars
               PROVE  KeysMatch' /\ NoFetch'
    OBVIOUS
  <2>1. CASE \E c \in Clients : ListReturns(c)
    BY <2>1, ListKeepsMatch
  <2>2. CASE ~\E c \in Clients : ListReturns(c)
    <3>1. NoFetch'
      BY <2>2, OtherStepsNoFetch
    <3>2. ~\E c \in Clients : GetReturns(c)
      BY DEF GetReturns, NoFetch
    <3>3. Lock => KeysMatch'
      BY DEF Lock, Clear, KeysMatch, Offered, Signable, NoIdentities, NoPrivateKeys
    <3>4. UNCHANGED registryVars => KeysMatch'
      BY DEF registryVars, KeysMatch, Offered, Signable
    <3> QED
      BY <2>2, <3>1, <3>2, <3>3, <3>4, OtherSteps
  <2> QED
    BY <2>1, <2>2
<1> QED
  BY <1>1, <1>2, TypeCorrect, PTL DEF Spec

\* KeysMatch: offered and signable keys are the same, and each private key fits
\* its blob, if the listing of every configured item has its private key.
THEOREM KeysAlwaysMatch ==
  ASSUME ItemIds \subseteq ListsPrivate
  PROVE  Spec => []KeysMatch
  BY KeysMatchInductive, PTL

\* The private key a sign request holds is the one it asked for.
HeldIsAsked == \A a \in SshClients : held[a] = asked[a]

\* SignatureMatches: a signature verifies under the key the client asked for,
\* even if a lock or a sync replaced the registry while the user was asked.
THEOREM SignaturesMatch ==
  ASSUME ItemIds \subseteq ListsPrivate
  PROVE  Spec => []SignatureMatches
<1>1. Init => HeldIsAsked
  BY DEF Init, AgentInit, HeldIsAsked
<1>2. TypeOK /\ KeysMatch /\ HeldIsAsked /\ [Next]_vars => HeldIsAsked'
  <2> SUFFICES ASSUME TypeOK, KeysMatch, HeldIsAsked, [Next]_vars PROVE HeldIsAsked'
    OBVIOUS
  <2> USE DEF HeldIsAsked, TypeOK, AgentTypeOK
  <2>1. ASSUME NEW a \in SshClients, Connect(a) \/ Disconnect(a)
        PROVE  HeldIsAsked'
    BY <2>1 DEF Connect, Disconnect
  <2>2. ASSUME NEW a \in SshClients, RequestIdentities(a) \/ Unsupported(a)
        PROVE  HeldIsAsked'
    BY <2>2 DEF RequestIdentities, Unsupported, Answer, Refuse
  <2>3. ASSUME NEW a \in SshClients, SignRequest(a) PROVE HeldIsAsked'
    <3>1. \/ Refuse(a)
          \/ \E k \in Keys :
                /\ privateKeys[k] # NoKey
                /\ asked' = [asked EXCEPT ![a] = k]
                /\ held' = [held EXCEPT ![a] = privateKeys[k]]
      BY <2>3 DEF SignRequest, Sign, Answer
    <3>2. \A k \in Keys : privateKeys[k] # NoKey => privateKeys[k] = k
      BY DEF KeysMatch, Signable
    <3> QED
      BY <3>1, <3>2 DEF Refuse, Answer
  <2>4. ASSUME NEW a \in SshClients, SignPromptAnswered(a) PROVE HeldIsAsked'
    BY <2>4 DEF SignPromptAnswered, Sign, Answer, Refuse
  <2>5. UNCHANGED agentVars => HeldIsAsked'
    BY DEF agentVars
  <2> QED
    BY <2>1, <2>2, <2>3, <2>4, <2>5 DEF Next, AgentNext, vars
<1>3. HeldIsAsked => SignatureMatches
  BY DEF HeldIsAsked, SignatureMatches
<1>4. Spec => []KeysMatch
  BY KeysAlwaysMatch
<1> QED
  BY <1>1, <1>2, <1>3, <1>4, TypeCorrect, PTL DEF Spec

-----------------------------------------------------------------------------
(* Without the system bus *)

\* No sign request waits for a prompt that an authorizer without a user never
\* puts up, and a closed connection has no signature.
NoPromptIfDenied ==
  Authorizer = "deny" =>
    \A a \in SshClients : apc[a] # "prompt" /\ (apc[a] = "closed" => areply[a] = "none")

\* DeniedNeverSigns: if polkit is required and the system bus is unavailable, no
\* connection with a context gets a signature.  Inductive together with
\* NoPromptIfDenied.
THEOREM DenialHolds == Spec => []DeniedNeverSigns
<1> DEFINE IInv == DeniedNeverSigns /\ NoPromptIfDenied
<1>1. Init => IInv
  BY DEF Init, AgentInit, DeniedNeverSigns, NoPromptIfDenied
<1>2. TypeOK /\ IInv /\ [Next]_vars => IInv'
  <2> SUFFICES ASSUME TypeOK, IInv, [Next]_vars, Authorizer = "deny"
               PROVE  IInv'
    BY DEF DeniedNeverSigns, NoPromptIfDenied
  <2> USE DEF DeniedNeverSigns, NoPromptIfDenied, TypeOK, AgentTypeOK
  <2>1. ASSUME NEW a \in SshClients, Connect(a) \/ Disconnect(a)
        PROVE  IInv'
    BY <2>1 DEF Connect, Disconnect
  <2>2. ASSUME NEW a \in SshClients, RequestIdentities(a) \/ Unsupported(a)
        PROVE  IInv'
    BY <2>2 DEF RequestIdentities, Unsupported, Refuse, Answer
  <2>3. ASSUME NEW a \in SshClients, SignRequest(a)
        PROVE  IInv'
    <3>1. ~AnswersAtOnce(TRUE) /\ ~Prompts
      BY DEF AnswersAtOnce, Prompts
    <3> QED
      BY <2>3, <3>1 DEF SignRequest, Sign, Refuse, Answer
  <2>4. ASSUME NEW a \in SshClients, SignPromptAnswered(a)
        PROVE  FALSE
    BY <2>4 DEF SignPromptAnswered
  <2>5. UNCHANGED agentVars \/ AgentNext
    BY DEF Next, vars
  <2> QED
    BY <2>1, <2>2, <2>3, <2>4, <2>5 DEF AgentNext, agentVars
<1> QED
  BY <1>1, <1>2, TypeCorrect, PTL DEF Spec

-----------------------------------------------------------------------------
(* The published context *)

\* ContextIsLive: the context handlers see is that of an open connection.
THEOREM ContextStaysLive == Spec => []ContextIsLive
<1>1. Init => ContextIsLive
  BY DEF Init, ControlInit, ContextIsLive
<1>2. TypeOK /\ ContextIsLive /\ [Next]_vars => ContextIsLive'
  <2> SUFFICES ASSUME TypeOK, ContextIsLive, [Next]_vars PROVE ContextIsLive'
    OBVIOUS
  <2> USE ControlAssumption
  <2> USE DEF ContextIsLive, TypeOK, ControlTypeOK, RequestTypeOK
  <2>1. ASSUME NEW c \in Clients, Accept(c) \/ Close(c) PROVE ContextIsLive'
    BY <2>1 DEF Accept, Close
  <2>2. ASSUME NEW c \in Clients, Request(c), pc'[c] # "closed",
               \A d \in Clients : d # c => pc'[d] = pc[d]
        PROVE  ContextIsLive'
    BY <2>2 DEF Request
  <2>3. ASSUME NEW c \in Clients,
               \/ Query(c) \/ LockRequest(c) \/ ReloadConfig(c)
               \/ UnlockRequest(c) \/ SyncRequest(c)
        PROVE  /\ Request(c) /\ pc'[c] # "closed"
               /\ \A d \in Clients : d # c => pc'[d] = pc[d]
    BY <2>3 DEF Query, LockRequest, ReloadConfig, UnlockRequest, SyncRequest,
       BeginUnlock, StartList, Respond, RespondAtOnce
  <2>4. ASSUME NEW c \in Clients, UNCHANGED <<currentCtx, hasCtx>>, pc'[c] # "closed",
               \A d \in Clients : d # c => pc'[d] = pc[d]
        PROVE  ContextIsLive'
    BY <2>4
  <2>5. ASSUME NEW c \in Clients,
               UnlockPromptAnswered(c) \/ ListBreaks(c) \/ BwFails(c)
        PROVE  /\ UNCHANGED <<currentCtx, hasCtx>> /\ pc'[c] # "closed"
               /\ \A d \in Clients : d # c => pc'[d] = pc[d]
    BY <2>5 DEF UnlockPromptAnswered, ListBreaks, BwFails, LoadFails, BeginUnlock, StartList,
       Respond, RespondAtOnce, RespondAfterBw
  <2>6. ASSUME NEW c \in Clients, ListReturns(c) \/ GetReturns(c)
        PROVE  /\ UNCHANGED <<currentCtx, hasCtx>> /\ pc'[c] # "closed"
               /\ \A d \in Clients : d # c => pc'[d] = pc[d]
    <3>1. \/ Loaded(c) \/ LoadFails(c)
          \/ \E list, rest, i : Fetch(c, list, rest, i)
      BY <2>6 DEF ListReturns, GetReturns, RunLoop
    <3>2. CASE Loaded(c) \/ LoadFails(c)
      BY <2>6, <3>2 DEF ListReturns, GetReturns, Loaded, LoadFails, Respond,
                        RespondAfterBw
    <3>3. CASE \E list, rest, i : Fetch(c, list, rest, i)
      BY <2>6, <3>3 DEF ListReturns, GetReturns, Fetch
    <3> QED
      BY <3>1, <3>2, <3>3
  <2>7. SleepLock \/ ProviderStep \/ UNCHANGED controlVars => ContextIsLive'
    BY DEF SleepLock, ProviderStep, controlVars, requestVars
  <2> QED
    BY <2>1, <2>2, <2>3, <2>4, <2>5, <2>6, <2>7
    DEF Next, ControlNext, ControlRequest, BwEnds, vars
<1> QED
  BY <1>1, <1>2, TypeCorrect, PTL DEF Spec

-----------------------------------------------------------------------------
(* Action properties *)

\* LockedAgentRefuses: as long as no load has delivered since the last lock, a new
\* sign request is neither granted nor put to the user.  It follows from
\* QuietLock, for the request finds no private key.
THEOREM LockedMeansRefused == Spec => LockedAgentRefuses
<1> DEFINE Refuses ==
      \A a \in SshClients : sinceLock \in {"nothing", "cached"} /\ apc[a] = "idle" =>
        apc'[a] # "prompt" /\ (areply'[a] = "signature" => areply[a] = "signature")
<1>1. TypeOK /\ QuietLock /\ [Next]_vars => [Refuses]_vars
  <2> SUFFICES ASSUME TypeOK, QuietLock, [Next]_vars,
                      sinceLock \in {"nothing", "cached"},
                      NEW a \in SshClients, apc[a] = "idle"
               PROVE  apc'[a] # "prompt" /\ (areply'[a] = "signature" => areply[a] = "signature")
    OBVIOUS
  <2>1. \A k \in Keys : privateKeys[k] = NoKey
    BY DEF QuietLock, Signable
  <2>2. ASSUME NEW b \in SshClients, SignRequest(b) PROVE Refuse(b)
    BY <2>1, <2>2 DEF SignRequest
  <2>3. ~SignPromptAnswered(a)
    BY DEF SignPromptAnswered
  <2> USE DEF TypeOK, AgentTypeOK
  <2>4. ASSUME NEW b \in SshClients,
               Connect(b) \/ Disconnect(b) \/ RequestIdentities(b) \/ Unsupported(b)
               \/ Refuse(b)
        PROVE  apc'[a] # "prompt" /\ (areply'[a] = "signature" => areply[a] = "signature")
    BY <2>4 DEF Connect, Disconnect, RequestIdentities, Unsupported, Refuse, Answer
  <2>5. ASSUME NEW b \in SshClients, b # a, SignPromptAnswered(b)
        PROVE  apc'[a] = apc[a] /\ areply'[a] = areply[a]
    BY <2>5 DEF SignPromptAnswered, Sign, Refuse, Answer
  <2>6. UNCHANGED agentVars => apc' = apc /\ areply' = areply
    BY DEF agentVars
  <2> QED
    BY <2>2, <2>3, <2>4, <2>5, <2>6 DEF Next, AgentNext, vars
<1> QED
  BY <1>1, TypeCorrect, LockIsComplete, PTL DEF Spec, LockedAgentRefuses

\* A request in the middle of a load has not been answered.
NoReplyYet == \A c \in Clients : Loading(c) => reply[c] = "none"

\* A step of another task, or of none, leaves a task's place and reply alone,
\* and a task that comes to be loading has no reply.
LEMMA ReplySteps ==
  ASSUME TypeOK, [Next]_vars, NEW c \in Clients
  PROVE  \/ pc'[c] = pc[c] /\ reply'[c] = reply[c]
         \/ pc'[c] \in {"closed", "idle", "prompt"} /\ ~Loading(c)
         \/ pc'[c] = "list" /\ reply'[c] = "none" /\ pc[c] # "list"
         \/ pc'[c] = "get" /\ reply'[c] = reply[c] /\ Loading(c)
         \/ pc'[c] = "idle" /\ BwEnds(c)
<1> USE DEF TypeOK, ControlTypeOK, RequestTypeOK, Loading
<1>1. ASSUME NEW d \in Clients, ControlRequest(d) \/ UnlockPromptAnswered(d)
      PROVE  \/ pc'[c] = pc[c] /\ reply'[c] = reply[c]
             \/ pc'[c] \in {"closed", "idle", "prompt"} /\ ~Loading(c)
             \/ pc'[c] = "list" /\ reply'[c] = "none" /\ pc[c] # "list"
  <2>1. CASE Accept(d) \/ Close(d)
    BY <2>1 DEF Accept, Close
  <2>2. CASE Query(d) \/ LockRequest(d) \/ ReloadConfig(d)
    BY <2>2 DEF Query, LockRequest, ReloadConfig, Request, Respond, RespondAtOnce
  <2>3. CASE UnlockRequest(d)
    BY <2>3 DEF UnlockRequest, Request, BeginUnlock, StartList, Respond, RespondAtOnce
  <2>4. CASE UnlockPromptAnswered(d)
    BY <2>4 DEF UnlockPromptAnswered, BeginUnlock, StartList, Respond, RespondAtOnce
  <2>5. CASE SyncRequest(d)
    BY <2>5 DEF SyncRequest, Request, StartList, Respond, RespondAtOnce
  <2> QED
    BY <1>1, <2>1, <2>2, <2>3, <2>4, <2>5 DEF ControlRequest
<1>2. ASSUME NEW d \in Clients, BwEnds(d)
      PROVE  \/ pc'[c] = pc[c] /\ reply'[c] = reply[c]
             \/ pc'[c] = "get" /\ reply'[c] = reply[c] /\ Loading(c)
             \/ pc'[c] = "idle" /\ BwEnds(c)
  <2>1. \/ Loaded(d) \/ LoadFails(d)
        \/ \E list, rest, i : Fetch(d, list, rest, i)
    BY <1>2 DEF BwEnds, ListBreaks, BwFails, ListReturns, GetReturns, RunLoop
  <2>2. Loading(d)
    BY <1>2 DEF BwEnds, ListBreaks, BwFails, ListReturns, GetReturns, Loading
  <2>3. CASE Loaded(d) \/ LoadFails(d)
    <3>1. pc' = [pc EXCEPT ![d] = "idle"]
          /\ \E r : reply' = [reply EXCEPT ![d] = r]
      BY <2>3 DEF Loaded, LoadFails, Respond, RespondAfterBw
    <3> QED
      BY <1>2, <3>1
  <2>4. CASE \E list, rest, i : Fetch(d, list, rest, i)
    BY <2>2, <2>4 DEF Fetch
  <2> QED
    BY <2>1, <2>3, <2>4
<1>3. SleepLock \/ ProviderStep \/ UNCHANGED controlVars =>
        pc' = pc /\ reply' = reply
  BY DEF SleepLock, ProviderStep, controlVars, requestVars
<1> QED
  BY <1>1, <1>2, <1>3 DEF Next, ControlNext, vars

\* What a pass of the loop has registered when it ends or suspends: the keys of
\* the items it has gone through, on top of what was registered.
PassRegisters(c, list, todo, ids, privs) ==
  \E done \in SUBSET todo :
     /\ \A i \in done : list[i] \in Offered' \cap Signable'
     /\ \A k \in Keys : ids[k] # NoItem /\ privs[k] # NoKey =>
                           k \in Offered' \cap Signable'
     /\ \A k \in Offered' : ids[k] # NoItem \/ \E i \in done : list[i] = k
     /\ \/ done = todo /\ Loaded(c)
        \/ LoadFails(c)
        \/ \E i \in todo : Fetch(c, list, todo \ done, i)

LEMMA LoopLoads ==
  ASSUME NEW c \in Clients, NEW list \in [Items -> MaybeKey], NEW first, NEW ids,
         NEW privs, NEW todo \in SUBSET ListedItems(list),
         RunLoop(c, list, todo, first, ids, privs)
  PROVE  PassRegisters(c, list, todo, ids, privs)
<1>1. PICK done \in SUBSET todo :
        /\ \A i \in done : keyCache'[i] \in Keys \ Unloadable
        /\ AddKeys(ids, privs, done, list, keyCache')
        /\ \/ done = todo /\ Loaded(c)
           \/ LoadFails(c)
           \/ \E i \in todo : Fetch(c, list, todo \ done, i)
  BY DEF RunLoop
<1>2. todo \subseteq Items
  BY DEF ListedItems
<1>3. ASSUME NEW k \in Keys, WithBlob(done, list, k) # {}
      PROVE  k \in Offered' /\ k \in Signable'
  <2>1. identities'[k] \in done /\ privateKeys'[k] = keyCache'[identities'[k]]
    BY <1>1, <1>3 DEF AddKeys, WithBlob
  <2> QED
    BY <1>1, <1>2, <2>1, SshKeysAssumption DEF Offered, Signable
<1>4. ASSUME NEW k \in Keys, WithBlob(done, list, k) = {}
      PROVE  identities'[k] = ids[k] /\ privateKeys'[k] = privs[k]
  BY <1>1, <1>4 DEF AddKeys
<1>5. \A i \in done : list[i] \in Offered' \cap Signable'
  <2> SUFFICES ASSUME NEW i \in done PROVE list[i] \in Offered' \cap Signable'
    OBVIOUS
  <2>1. list[i] \in Keys
    BY DEF ListedItems
  <2>2. i \in WithBlob(done, list, list[i])
    BY DEF WithBlob
  <2> QED
    BY <1>3, <2>1, <2>2
<1>6. ASSUME NEW k \in Keys, ids[k] # NoItem, privs[k] # NoKey
      PROVE  k \in Offered' \cap Signable'
  BY <1>3, <1>4, <1>6 DEF Offered, Signable
<1>7. ASSUME NEW k \in Offered', ids[k] = NoItem
      PROVE  \E i \in done : list[i] = k
  <2>1. k \in Keys /\ identities'[k] # NoItem
    BY DEF Offered
  <2>2. WithBlob(done, list, k) # {}
    BY <1>4, <1>7, <2>1
  <2> QED
    BY <2>2 DEF WithBlob
<1> QED
  BY <1>1, <1>5, <1>6, <1>7 DEF PassRegisters

\* What holds between two fetches of a load that was not crossed: the items it is
\* done with have their keys registered, and after a sync no other key is.
FetchHolds(c) ==
  /\ pending[c] \subseteq ListedItems(listed[c])
  /\ \A i \in Items \ ItemIds : listed[c][i] = NoKey
  /\ ~crossed[c] =>
        /\ \A i \in ListedItems(listed[c]) \ pending[c] :
              listed[c][i] \in Offered \cap Signable
        /\ op[c] = "sync" => Offered \subseteq KeysListed(c)

FetchesHold == \A c \in Clients : pc[c] = "get" => FetchHolds(c)

\* Nothing but its own bw moves a task that fetches items, and whatever changes
\* the registry meanwhile marks it as crossed.
LEMMA FetchSteps ==
  ASSUME TypeOK, [Next]_vars, NEW c \in Clients, pc'[c] = "get"
  PROVE  \/ ListReturns(c) \/ GetReturns(c)
         \/ /\ pc[c] = "get"
            /\ listed'[c] = listed[c] /\ pending'[c] = pending[c] /\ op'[c] = op[c]
            /\ crossed'[c] \/ (crossed'[c] = crossed[c] /\ UNCHANGED registryVars)
<1> DEFINE Apart ==
             /\ pc[c] = "get"
             /\ listed'[c] = listed[c] /\ pending'[c] = pending[c] /\ op'[c] = op[c]
             /\ crossed'[c] \/ (crossed'[c] = crossed[c] /\ UNCHANGED registryVars)
<1> USE DEF TypeOK, ControlTypeOK, RequestTypeOK
<1>1. ASSUME NEW d \in Clients, ControlRequest(d) \/ UnlockPromptAnswered(d)
      PROVE  Apart
  <2>1. CASE Accept(d) \/ Close(d)
    BY <2>1 DEF Accept, Close
  <2>2. CASE Query(d) \/ ReloadConfig(d)
    BY <2>2 DEF Query, ReloadConfig, Request, Respond, RespondAtOnce
  <2>3. CASE LockRequest(d)
    BY <2>3 DEF LockRequest, Lock, Request, Respond
  <2>4. CASE UnlockRequest(d)
    BY <2>4 DEF UnlockRequest, Request, BeginUnlock, StartList, Respond, RespondAtOnce
  <2>5. CASE UnlockPromptAnswered(d)
    BY <2>5 DEF UnlockPromptAnswered, BeginUnlock, StartList, Respond, RespondAtOnce
  <2>6. CASE SyncRequest(d)
    BY <2>6 DEF SyncRequest, Request, StartList, Respond, RespondAtOnce
  <2> QED
    BY <1>1, <2>1, <2>2, <2>3, <2>4, <2>5, <2>6 DEF ControlRequest
<1>2. ASSUME NEW d \in Clients, ListBreaks(d) \/ BwFails(d)
      PROVE  Apart
  BY <1>2 DEF ListBreaks, BwFails, LoadFails, Respond, RespondAfterBw
<1>3. ASSUME NEW d \in Clients, d # c, ListReturns(d) \/ GetReturns(d)
      PROVE  Apart
  <2>1. \/ Loaded(d) \/ LoadFails(d)
        \/ \E list, rest, i : Fetch(d, list, rest, i)
    BY <1>3 DEF ListReturns, GetReturns, RunLoop
  <2>2. pc[c] = "get" => crossed'[c]
    BY <1>3 DEF ListReturns, GetReturns, LoadMarked
  <2>3. CASE Loaded(d) \/ LoadFails(d)
    BY <1>3, <2>2, <2>3 DEF Loaded, LoadFails, Respond, RespondAfterBw
  <2>4. CASE \E list, rest, i : Fetch(d, list, rest, i)
    BY <1>3, <2>2, <2>4 DEF Fetch
  <2> QED
    BY <2>1, <2>3, <2>4
<1>4. SleepLock => Apart
  BY DEF SleepLock, Lock
<1>5. UNCHANGED <<registryVars, controlVars>> => Apart
  BY DEF controlVars, requestVars
<1>6. AgentNext => UNCHANGED registryVars
  BY AgentType
<1> QED
  BY <1>1, <1>2, <1>3, <1>4, <1>5, <1>6
  DEF Next, ControlNext, BwEnds, ProviderStep, vars

\* A load that goes on to fetch an item leaves FetchHolds of itself.
LEMMA FetchEstablishes ==
  ASSUME TypeOK, NEW c \in Clients, pc'[c] = "get",
         pc[c] = "get" => FetchHolds(c),
         ListReturns(c) \/ GetReturns(c)
  PROVE  FetchHolds(c)'
<1> USE DEF TypeOK, ControlTypeOK, RequestTypeOK
<1>1. ASSUME NEW list \in [Items -> MaybeKey], NEW done, NEW todo, NEW i,
             Fetch(c, list, todo \ done, i)
      PROVE  /\ listed'[c] = list /\ pending'[c] = todo \ done /\ op'[c] = op[c]
             /\ KeysListed(c)' = {list[j] : j \in ItemIds} \ {NoKey}
  BY <1>1 DEF Fetch, KeysListed
<1>2. ASSUME Loaded(c) \/ LoadFails(c) PROVE FALSE
  BY <1>2 DEF Loaded, LoadFails, Respond, RespondAfterBw
<1>3. crossed'[c] = crossed[c]
  BY DEF ListReturns, GetReturns, LoadMarked
<1>4. CASE ListReturns(c)
  <2> DEFINE list == Listing(answer[c])
             todo == ListedItems(list)
             ids == IF ClearsFirst(c) THEN NoIdentities ELSE identities
             privs == IF ClearsFirst(c) THEN NoPrivateKeys ELSE privateKeys
  <2>1. list \in [Items -> MaybeKey] /\ \A i \in Items \ ItemIds : list[i] = NoKey
    BY ListingType DEF Listing, ProviderTypeOK
  <2>2. RunLoop(c, list, todo, {}, ids, privs)
    BY <1>4 DEF ListReturns
  <2>3. op[c] = "sync" => \A k \in Keys : ids[k] = NoItem
    BY DEF ClearsFirst, NoIdentities
  <2> HIDE DEF list, todo, ids, privs
  <2>4. PassRegisters(c, list, todo, ids, privs)
    BY <2>1, <2>2, LoopLoads DEF todo
  <2>5. PICK done \in SUBSET todo :
          /\ \A i \in done : list[i] \in Offered' \cap Signable'
          /\ \A k \in Offered' : ids[k] # NoItem \/ \E i \in done : list[i] = k
          /\ \E i \in todo : Fetch(c, list, todo \ done, i)
    BY <1>2, <2>4 DEF PassRegisters
  <2>6. /\ listed'[c] = list /\ pending'[c] = todo \ done /\ op'[c] = op[c]
        /\ KeysListed(c)' = {list[j] : j \in ItemIds} \ {NoKey}
    BY <1>1, <2>1, <2>5
  <2>7. ASSUME op[c] = "sync", NEW k \in Offered'
        PROVE  k \in {list[j] : j \in ItemIds} \ {NoKey}
    <3>1. k \in Keys
      BY DEF Offered
    <3>2. PICK i \in done : list[i] = k
      BY <2>3, <2>5, <2>7, <3>1
    <3> QED
      BY <2>1, <3>1, <3>2, SshKeysAssumption DEF ListedItems, todo
  <2> QED
    BY <2>1, <2>5, <2>6, <2>7 DEF FetchHolds, todo
<1>5. CASE GetReturns(c)
  <2> DEFINE list == listed[c]
             todo == pending[c]
  <2>1. pc[c] = "get" /\ FetchHolds(c)
    BY <1>5 DEF GetReturns
  <2>2. list \in [Items -> MaybeKey] /\ \A i \in Items \ ItemIds : list[i] = NoKey
    BY <2>1 DEF FetchHolds
  <2>3. RunLoop(c, list, todo, {fetching[c]}, identities, privateKeys)
    BY <1>2, <1>5 DEF GetReturns
  <2>4. todo \in SUBSET ListedItems(list)
    BY <2>1 DEF FetchHolds
  <2>5. KeysListed(c) = {list[j] : j \in ItemIds} \ {NoKey}
    BY <2>1 DEF KeysListed
  <2>6. ~crossed[c] =>
          /\ \A i \in ListedItems(list) \ todo : list[i] \in Offered \cap Signable
          /\ op[c] = "sync" => Offered \subseteq KeysListed(c)
    BY <2>1 DEF FetchHolds
  <2> HIDE DEF list, todo
  <2>7. PassRegisters(c, list, todo, identities, privateKeys)
    BY <2>2, <2>3, <2>4, LoopLoads
  <2>8. PICK done \in SUBSET todo :
          /\ \A i \in done : list[i] \in Offered' \cap Signable'
          /\ \A k \in Keys : identities[k] # NoItem /\ privateKeys[k] # NoKey =>
                                k \in Offered' \cap Signable'
          /\ \A k \in Offered' : identities[k] # NoItem \/ \E i \in done : list[i] = k
          /\ \E i \in todo : Fetch(c, list, todo \ done, i)
    BY <1>2, <2>7 DEF PassRegisters
  <2>9. /\ listed'[c] = list /\ pending'[c] = todo \ done /\ op'[c] = op[c]
        /\ KeysListed(c)' = {list[j] : j \in ItemIds} \ {NoKey}
    BY <1>1, <2>2, <2>8
  <2>10. ASSUME ~crossed[c], NEW i \in ListedItems(list) \ (todo \ done)
        PROVE  list[i] \in Offered' \cap Signable'
    <3>1. CASE i \in done
      BY <2>8, <3>1
    <3>2. CASE i \in ListedItems(list) \ todo
      BY <2>6, <2>8, <2>10, <3>2 DEF Offered, Signable
    <3> QED
      BY <3>1, <3>2
  <2>11. ASSUME ~crossed[c], op[c] = "sync", NEW k \in Offered'
        PROVE  k \in {list[j] : j \in ItemIds} \ {NoKey}
    <3>1. k \in Keys
      BY DEF Offered
    <3>2. CASE identities[k] # NoItem
      BY <2>5, <2>6, <2>11, <3>1, <3>2 DEF Offered
    <3>3. CASE \E i \in done : list[i] = k
      BY <2>2, <2>4, <3>1, <3>3, SshKeysAssumption DEF ListedItems
    <3> QED
      BY <2>8, <3>2, <3>3
  <2> QED
    BY <1>3, <2>2, <2>4, <2>8, <2>9, <2>10, <2>11 DEF FetchHolds
<1> QED
  BY <1>4, <1>5

\* FetchHolds is kept by every step.
LEMMA FetchesStayHeld ==
  ASSUME TypeOK, FetchesHold, [Next]_vars
  PROVE  FetchesHold'
<1> SUFFICES ASSUME NEW c \in Clients, pc'[c] = "get" PROVE FetchHolds(c)'
  BY DEF FetchesHold
<1>1. CASE ListReturns(c) \/ GetReturns(c)
  BY <1>1, FetchEstablishes DEF FetchesHold
<1>2. CASE /\ pc[c] = "get"
           /\ listed'[c] = listed[c] /\ pending'[c] = pending[c] /\ op'[c] = op[c]
           /\ crossed'[c] \/ (crossed'[c] = crossed[c] /\ UNCHANGED registryVars)
  <2>1. FetchHolds(c) /\ KeysListed(c)' = KeysListed(c)
    BY <1>2 DEF FetchesHold, KeysListed
  <2>2. UNCHANGED registryVars => Offered' = Offered /\ Signable' = Signable
    BY DEF registryVars, Offered, Signable
  <2> QED
    BY <1>2, <2>1, <2>2 DEF FetchHolds
<1> QED
  BY <1>1, <1>2, FetchSteps

\* ResponseIsTrue: whatever ran while bw listed the items, and as long as nothing
\* crossed the load while it fetched some of them one by one, a response of
\* success says what the registry and the flag then hold.
THEOREM ResponsesAreTrue == Spec => ResponseIsTrue
<1> DEFINE IInv == NoReplyYet /\ FetchesHold
           Truthful ==
             \A c \in Clients :
               Loading(c) /\ ~crossed[c] /\ reply'[c] \in {"unlocked", "synced"} =>
               LET keys == KeysListed(c)
               IN  /\ keys \subseteq Offered' \cap Signable'
                   /\ reply'[c] = "unlocked" => ~locked'
                   /\ reply'[c] = "synced" => Offered' = keys
<1>1. Init => IInv
  BY DEF Init, ControlInit, NoReplyYet, FetchesHold, Loading
<1>2. TypeOK /\ IInv /\ [Next]_vars => IInv'
  BY ReplySteps, FetchesStayHeld DEF NoReplyYet, Loading
<1>3. TypeOK /\ IInv /\ [Next]_vars => [Truthful]_vars
  <2> SUFFICES ASSUME TypeOK, IInv, [Next]_vars, NEW c \in Clients, Loading(c),
                      ~crossed[c], reply'[c] \in {"unlocked", "synced"}
               PROVE  /\ KeysListed(c) \subseteq Offered' \cap Signable'
                      /\ reply'[c] = "unlocked" => ~locked'
                      /\ reply'[c] = "synced" => Offered' = KeysListed(c)
    OBVIOUS
  <2> USE DEF TypeOK, ControlTypeOK, RequestTypeOK
  <2>1. reply[c] = "none"
    BY DEF NoReplyYet
  <2>2. BwEnds(c)
    BY <2>1, ReplySteps
  <2>3. ASSUME LoadFails(c) PROVE FALSE
    BY <2>3 DEF LoadFails, RespondAfterBw, Respond
  <2>4. ListReturns(c) \/ GetReturns(c)
    BY <2>2, <2>3 DEF BwEnds, ListBreaks, BwFails
  <2>5. ASSUME NEW list, NEW rest, NEW i, Fetch(c, list, rest, i) PROVE FALSE
    BY <2>1, <2>5 DEF Fetch
  <2>6. ASSUME Loaded(c)
        PROVE  /\ reply'[c] = "unlocked" => ~locked'
               /\ reply'[c] = "synced" => op[c] = "sync"
    BY <2>6 DEF Loaded, RespondAfterBw, Respond
  <2>7. CASE ListReturns(c)
    <3> DEFINE list == Listing(answer[c])
               todo == ListedItems(list)
               ids == IF ClearsFirst(c) THEN NoIdentities ELSE identities
               privs == IF ClearsFirst(c) THEN NoPrivateKeys ELSE privateKeys
    <3>1. list \in [Items -> MaybeKey] /\ todo = {i \in ItemIds : list[i] # NoKey}
      BY ProviderAssumption, ListingType DEF ListedItems, Listing, ProviderTypeOK
    <3>2. RunLoop(c, list, todo, {}, ids, privs)
      BY <2>7 DEF ListReturns
    <3>3. op[c] = "sync" => \A k \in Keys : ids[k] = NoItem
      BY DEF ClearsFirst, NoIdentities
    <3>4. KeysListed(c) = {list[i] : i \in todo}
      BY <2>7, <3>1 DEF ListReturns, KeysListed
    <3> HIDE DEF list, todo, ids, privs
    <3>5. PassRegisters(c, list, todo, ids, privs)
      BY <3>1, <3>2, LoopLoads DEF todo
    <3>6. /\ \A i \in todo : list[i] \in Offered' \cap Signable'
          /\ \A k \in Offered' : ids[k] # NoItem \/ \E i \in todo : list[i] = k
          /\ Loaded(c)
      BY <2>3, <2>5, <3>5 DEF PassRegisters
    <3>7. ASSUME reply'[c] = "synced", NEW k \in Offered'
          PROVE  k \in KeysListed(c)
      BY <2>6, <3>3, <3>4, <3>6, <3>7 DEF Offered
    <3> QED
      BY <2>6, <3>4, <3>6, <3>7
  <2>8. CASE GetReturns(c)
    <3> DEFINE list == listed[c]
               todo == pending[c]
    <3>1. pc[c] = "get" /\ FetchHolds(c)
      BY <2>8 DEF GetReturns, FetchesHold
    <3>2. list \in [Items -> MaybeKey] /\ todo \in SUBSET ListedItems(list)
      BY <3>1 DEF FetchHolds
    <3>3. KeysListed(c) = {list[i] : i \in ListedItems(list)}
      BY <3>1, <3>2, ProviderAssumption DEF FetchHolds, KeysListed, ListedItems
    <3>4. /\ \A i \in ListedItems(list) \ todo : list[i] \in Offered \cap Signable
          /\ op[c] = "sync" => Offered \subseteq KeysListed(c)
      BY <3>1 DEF FetchHolds
    <3>5. RunLoop(c, list, todo, {fetching[c]}, identities, privateKeys)
      BY <2>3, <2>8 DEF GetReturns
    <3> HIDE DEF list, todo
    <3>6. PassRegisters(c, list, todo, identities, privateKeys)
      BY <3>2, <3>5, LoopLoads
    <3>7. /\ \A i \in todo : list[i] \in Offered' \cap Signable'
          /\ \A k \in Keys : identities[k] # NoItem /\ privateKeys[k] # NoKey =>
                                k \in Offered' \cap Signable'
          /\ \A k \in Offered' : identities[k] # NoItem \/ \E i \in todo : list[i] = k
          /\ Loaded(c)
      BY <2>3, <2>5, <3>6 DEF PassRegisters
    <3>8. ASSUME NEW i \in ListedItems(list)
          PROVE  list[i] \in Offered' \cap Signable'
      <4>1. CASE i \in todo
        BY <3>7, <4>1
      <4>2. CASE i \notin todo
        BY <3>4, <3>7, <4>2 DEF Offered, Signable
      <4> QED
        BY <4>1, <4>2
    <3>9. ASSUME reply'[c] = "synced", NEW k \in Offered'
          PROVE  k \in KeysListed(c)
      <4>1. k \in Keys
        BY DEF Offered
      <4>2. CASE identities[k] # NoItem
        BY <2>6, <3>4, <3>7, <3>9, <4>1, <4>2 DEF Offered
      <4>3. CASE \E i \in todo : list[i] = k
        BY <3>2, <3>3, <4>3
      <4> QED
        BY <3>7, <4>2, <4>3
    <3> QED
      BY <2>6, <3>3, <3>7, <3>8, <3>9
  <2> QED
    BY <2>4, <2>7, <2>8
<1> QED
  BY <1>1, <1>2, <1>3, TypeCorrect, PTL DEF Spec, ResponseIsTrue
-----------------------------------------------------------------------------
\* A connection whose unlock is under way has no response yet.
UnlockUnanswered == \A c \in Clients : op[c] = "unlock" => reply[c] = "none"

\* A step changes what a connection was answered or is doing only by a response,
\* which ends the request, or by beginning one, which takes the response away.
LEMMA OpSteps ==
  ASSUME TypeOK, [Next]_vars, NEW c \in Clients
  PROVE  \/ op'[c] = op[c] /\ reply'[c] = reply[c]
         \/ op'[c] # "unlock"
         \/ reply'[c] = "none"
<1> USE DEF TypeOK, ControlTypeOK, RequestTypeOK
<1>1. ASSUME NEW d \in Clients, ControlRequest(d) \/ UnlockPromptAnswered(d)
      PROVE  \/ op'[c] = op[c] /\ reply'[c] = reply[c]
             \/ op'[c] # "unlock"
             \/ reply'[c] = "none"
  <2>1. CASE Accept(d) \/ Close(d)
    BY <2>1 DEF Accept, Close
  <2>2. CASE Query(d) \/ LockRequest(d) \/ ReloadConfig(d)
    BY <2>2 DEF Query, LockRequest, ReloadConfig, Respond, RespondAtOnce
  <2>3. CASE UnlockRequest(d)
    BY <2>3 DEF UnlockRequest, BeginUnlock, StartList, Respond, RespondAtOnce
  <2>4. CASE UnlockPromptAnswered(d)
    BY <2>4 DEF UnlockPromptAnswered, BeginUnlock, StartList, Respond, RespondAtOnce
  <2>5. CASE SyncRequest(d)
    BY <2>5 DEF SyncRequest, StartList, Respond, RespondAtOnce
  <2> QED
    BY <1>1, <2>1, <2>2, <2>3, <2>4, <2>5 DEF ControlRequest
<1>2. ASSUME NEW d \in Clients, BwEnds(d)
      PROVE  \/ op'[c] = op[c] /\ reply'[c] = reply[c]
             \/ op'[c] # "unlock"
  <2>1. \/ Loaded(d) \/ LoadFails(d)
        \/ \E list, rest, i : Fetch(d, list, rest, i)
    BY <1>2 DEF BwEnds, ListBreaks, BwFails, ListReturns, GetReturns, RunLoop
  <2>2. CASE Loaded(d) \/ LoadFails(d)
    BY <2>2 DEF Loaded, LoadFails, Respond, RespondAfterBw
  <2>3. CASE \E list, rest, i : Fetch(d, list, rest, i)
    BY <2>3 DEF Fetch
  <2> QED
    BY <2>1, <2>2, <2>3
<1>3. SleepLock \/ ProviderStep \/ UNCHANGED controlVars =>
        op' = op /\ reply' = reply
  BY DEF SleepLock, ProviderStep, controlVars, requestVars
<1> QED
  BY <1>1, <1>2, <1>3 DEF Next, ControlNext, vars

\* What a loop over items adds keeps every key the registry held.
LEMMA AddingKeeps ==
  ASSUME NEW loaded \in SUBSET Items, NEW list, NEW material, NEW privs,
         AddKeys(identities, privs, loaded, list, material)
  PROVE  Offered \subseteq Offered'
BY SshKeysAssumption DEF AddKeys, WithBlob, Offered

\* An unlock's end in an error leaves the flag, and the keys that were there.
LEMMA UnlockErrorKeeps ==
  ASSUME TypeOK, NEW c \in Clients, op[c] = "unlock", BwEnds(c), reply[c] = "none",
         reply'[c] = "error"
  PROVE  locked' = locked /\ Offered \subseteq Offered'
<1>1. CASE ListBreaks(c) \/ BwFails(c)
  BY <1>1 DEF ListBreaks, BwFails, LoadFails, registryVars, Offered
<1>2. ASSUME NEW list, NEW todo \in SUBSET Items, NEW first,
             RunLoop(c, list, todo, first, identities, privateKeys)
      PROVE  locked' = locked /\ Offered \subseteq Offered'
  <2>1. PICK done \in SUBSET todo :
          /\ AddKeys(identities, privateKeys, done, list, keyCache')
          /\ \/ Loaded(c) \/ LoadFails(c)
             \/ \E i \in todo \ done : Fetch(c, list, todo \ done, i)
    BY <1>2 DEF RunLoop
  <2>2. Offered \subseteq Offered'
    BY <2>1, AddingKeeps
  <2>3. ASSUME Loaded(c) PROVE FALSE
    BY <2>3 DEF Loaded, RespondAfterBw, Respond, TypeOK, ControlTypeOK, RequestTypeOK
  <2>4. locked' = locked
    BY <2>1, <2>3 DEF LoadFails, Fetch
  <2> QED
    BY <2>2, <2>4
<1>3. CASE ListReturns(c)
  <2>1. ~ClearsFirst(c)
    BY DEF ClearsFirst
  <2>2. ListedItems(Listing(answer[c])) \in SUBSET Items
    BY ProviderAssumption DEF ListedItems
  <2> QED
    BY <1>2, <1>3, <2>1, <2>2 DEF ListReturns
<1>4. CASE GetReturns(c)
  <2>1. pending[c] \in SUBSET Items
    BY DEF TypeOK, ControlTypeOK, RequestTypeOK
  <2>2. CASE RunLoop(c, listed[c], pending[c], {fetching[c]}, identities, privateKeys)
    BY <1>2, <2>1, <2>2
  <2>3. CASE LoadFails(c) /\ UNCHANGED registryVars
    BY <2>3 DEF LoadFails, registryVars, Offered
  <2> QED
    BY <1>4, <2>2, <2>3 DEF GetReturns, registryVars
<1> QED
  BY <1>1, <1>3, <1>4 DEF BwEnds

\* FailureKeepsKeys: an unlock that fails, at its prompt, in bw or half way
\* through its items, leaves the flag as it is and costs no key.
THEOREM UnlockFailsSafely == Spec => FailureKeepsKeys
<1> DEFINE Keeps ==
             \A c \in Clients : op[c] = "unlock" /\ reply'[c] = "error" =>
               locked' = locked /\ Offered \subseteq Offered'
<1>1. Init => UnlockUnanswered
  BY DEF Init, ControlInit, UnlockUnanswered
<1>2. TypeOK /\ UnlockUnanswered /\ [Next]_vars => UnlockUnanswered'
  BY OpSteps DEF UnlockUnanswered
<1>3. TypeOK /\ UnlockUnanswered /\ [Next]_vars => [Keeps]_vars
  <2> SUFFICES ASSUME TypeOK, UnlockUnanswered, [Next]_vars, NEW c \in Clients,
                      op[c] = "unlock", reply'[c] = "error"
               PROVE  locked' = locked /\ Offered \subseteq Offered'
    OBVIOUS
  <2>1. reply[c] = "none"
    BY DEF UnlockUnanswered
  <2>2. ASSUME NEW d \in Clients, ControlRequest(d) \/ UnlockPromptAnswered(d)
        PROVE  locked' = locked /\ Offered \subseteq Offered'
    <3>1. ASSUME LockRequest(d) PROVE reply'[c] # "error"
      BY <2>1, <3>1
      DEF LockRequest, Respond, TypeOK, ControlTypeOK, RequestTypeOK
    <3>2. locked' = locked /\ UNCHANGED registryVars
      BY <2>2, <3>1
      DEF ControlRequest, Accept, Close, Query, ReloadConfig, UnlockRequest,
          SyncRequest, UnlockPromptAnswered
    <3> QED
      BY <3>2 DEF registryVars, Offered
  <2>3. ASSUME NEW d \in Clients, BwEnds(d)
        PROVE  locked' = locked /\ Offered \subseteq Offered'
    <3>1. d = c
      <4> SUFFICES ASSUME d # c PROVE reply'[c] = reply[c]
        BY <2>1
      <4>1. \/ Loaded(d) \/ LoadFails(d)
            \/ \E list, rest, i : Fetch(d, list, rest, i)
        BY <2>3 DEF BwEnds, ListBreaks, BwFails, ListReturns, GetReturns, RunLoop
      <4> QED
        BY <4>1 DEF Loaded, LoadFails, RespondAfterBw, Respond, Fetch,
                    TypeOK, ControlTypeOK, RequestTypeOK
    <3> QED
      BY <2>1, <2>3, <3>1, UnlockErrorKeeps
  <2>4. SleepLock \/ ProviderStep \/ UNCHANGED controlVars => reply' = reply
    BY DEF SleepLock, ProviderStep, controlVars, requestVars
  <2> QED
    BY <2>1, <2>2, <2>3, <2>4 DEF Next, ControlNext, vars
<1> QED
  BY <1>1, <1>2, <1>3, TypeCorrect, PTL DEF Spec, FailureKeepsKeys
=============================================================================
