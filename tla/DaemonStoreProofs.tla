------------------------- MODULE DaemonStoreProofs -------------------------
(***************************************************************************)
(* The daemon implements KeyStore, for any number of connections, items    *)
(* and keys, wherever the private keys come from: every step of Daemon is  *)
(* a step of the store or leaves it as it is.                              *)
(***************************************************************************)
EXTENDS DaemonProofs

-----------------------------------------------------------------------------
(* The invariant of the refinement *)

StoreKeys == [Keys -> (Keys \ Unloadable) \cup {NoKey}]

\* The two dictionaries of the registry have the same blobs.
SameBlobs(ids, privs) == \A k \in Keys : ids[k] = NoItem <=> privs[k] = NoKey

\* The registry holds loadable keys under the blobs it offers, and a task that
\* waits for bw knows which request it waits for.
StoreInv ==
    /\ privateKeys \in StoreKeys
    /\ SameBlobs(identities, privateKeys)
    /\ \A c \in Clients : Loading(c) => op[c] # "none"

\* What the store is, in terms of the daemon.
StoreNow == [k \in Keys |-> IF k \in Offered THEN privateKeys[k] ELSE NoKey]
LoadNow == [c \in Clients |-> LoadOf(c)]
OutcomeNow == [a \in SshClients |-> OutcomeOf(a)]

StoreStep == [Store!Next]_(Store!storeVars)

\* Under the invariant the store is the dictionary of private keys, before and
\* after a step.
LEMMA StoreIsRegistry ==
  /\ StoreInv => StoreNow = privateKeys
  /\ StoreInv' => StoreNow' = privateKeys'
BY DEF StoreInv, StoreNow, StoreKeys, SameBlobs, Offered

-----------------------------------------------------------------------------
(* Loads *)

\* Adding loadable keys to a store gives a store, and takes no key away.
LEMMA AddingStores ==
  ASSUME NEW ids, NEW privs \in StoreKeys, SameBlobs(ids, privs),
         NEW done \in SUBSET Items, NEW list, NEW material,
         \A i \in done : material[i] \in Keys \ Unloadable,
         AddKeys(ids, privs, done, list, material)
  PROVE  /\ privateKeys' \in StoreKeys
         /\ SameBlobs(identities, privateKeys)'
         /\ \A k \in Keys : privateKeys'[k] = NoKey => privs[k] = NoKey
<1>1. ASSUME NEW k \in Keys, WithBlob(done, list, k) = {}
      PROVE  privateKeys'[k] = privs[k] /\ identities'[k] = ids[k]
  BY <1>1 DEF AddKeys
<1>2. ASSUME NEW k \in Keys, WithBlob(done, list, k) # {}
      PROVE  privateKeys'[k] \in Keys \ Unloadable /\ identities'[k] \in Items
  BY <1>2 DEF AddKeys, WithBlob
<1>3. privateKeys' \in StoreKeys
  <2>1. \A k \in Keys : privateKeys'[k] \in (Keys \ Unloadable) \cup {NoKey}
    BY <1>1, <1>2 DEF StoreKeys
  <2>2. privateKeys' = [k \in Keys |-> privateKeys'[k]]
    BY DEF AddKeys
  <2> QED
    BY <2>1, <2>2 DEF StoreKeys
<1>4. SameBlobs(identities, privateKeys)'
  BY <1>1, <1>2, SshKeysAssumption DEF SameBlobs
<1> QED
  BY <1>1, <1>2, <1>3, <1>4, SshKeysAssumption

\* The end of a request, in an answer or an error.
LEMMA EndIsEnd ==
  ASSUME TypeOK, StoreInv, NEW c \in Clients, Loading(c), Loaded(c) \/ LoadFails(c)
  PROVE  /\ LoadNow' = [LoadNow EXCEPT ![c] = "none"]
         /\ locked' = locked \/ (LoadNow[c] = "unlock" /\ locked' = FALSE)
         /\ \A d \in Clients : Loading(d)' => Loading(d) /\ op'[d] = op[d]
<1> USE DEF TypeOK, ControlTypeOK, RequestTypeOK, Loading
<1>1. pc' = [pc EXCEPT ![c] = "idle"] /\ op' = [op EXCEPT ![c] = "none"]
  BY DEF Loaded, LoadFails, RespondAfterBw, Respond
<1>2. LoadNow' = [LoadNow EXCEPT ![c] = "none"]
  BY <1>1 DEF LoadNow, LoadOf
<1>3. op[c] = "unlock" => LoadNow[c] = "unlock"
  BY DEF LoadNow, LoadOf
<1> QED
  BY <1>1, <1>2, <1>3 DEF Loaded, LoadFails

\* The loop goes on to an item it must fetch.
LEMMA FetchGoesOn ==
  ASSUME TypeOK, StoreInv, NEW c \in Clients, Loading(c),
         NEW list, NEW rest, NEW i, Fetch(c, list, rest, i)
  PROVE  /\ LoadNow' = [LoadNow EXCEPT ![c] = IF @ = "unlock" THEN @ ELSE "resync"]
         /\ locked' = locked
         /\ \A d \in Clients : Loading(d)' => Loading(d) /\ op'[d] = op[d]
<1> USE DEF TypeOK, ControlTypeOK, RequestTypeOK, Loading
<1>1. pc' = [pc EXCEPT ![c] = "get"] /\ op' = op /\ locked' = locked
  BY DEF Fetch
<1>2. op[c] \in {"unlock", "sync"}
  BY DEF StoreInv
<1>3. LoadNow' = [LoadNow EXCEPT ![c] = IF @ = "unlock" THEN @ ELSE "resync"]
  BY <1>1, <1>2 DEF LoadNow, LoadOf
<1> QED
  BY <1>1, <1>3

\* A run of the loop over the items delivers keys to the store.
LEMMA LoopDelivers ==
  ASSUME TypeOK, StoreInv, NEW c \in Clients, Loading(c), UNCHANGED agentVars,
         NEW ids, NEW privs \in StoreKeys, SameBlobs(ids, privs),
         LoadNow[c] # "sync" => \A k \in Keys : privs[k] = NoKey => privateKeys[k] = NoKey,
         NEW list, NEW todo \in SUBSET Items, NEW first,
         RunLoop(c, list, todo, first, ids, privs)
  PROVE  StoreInv' /\ Store!Load(c)
<1>1. PICK done \in SUBSET todo :
        /\ \A i \in done : keyCache'[i] \in Keys \ Unloadable
        /\ AddKeys(ids, privs, done, list, keyCache')
        /\ \/ Loaded(c) \/ LoadFails(c)
           \/ \E i \in todo \ done : Fetch(c, list, todo \ done, i)
  BY DEF RunLoop
<1>2. /\ privateKeys' \in StoreKeys
      /\ SameBlobs(identities, privateKeys)'
      /\ \A k \in Keys : privateKeys'[k] = NoKey => privs[k] = NoKey
  BY <1>1, AddingStores
<1>3. \A d \in Clients : Loading(d)' => op'[d] # "none"
  BY <1>1, EndIsEnd, FetchGoesOn DEF StoreInv
<1>4. StoreInv'
  BY <1>2, <1>3 DEF StoreInv, StoreKeys
<1>5. StoreNow = privateKeys /\ StoreNow' = privateKeys'
  BY <1>4, StoreIsRegistry
<1>6. Store!Deliver(c)
  BY <1>2, <1>5 DEF Store!Deliver, StoreNow, LoadNow, StoreKeys
<1>7. UNCHANGED <<asked, held, OutcomeNow>>
  BY DEF agentVars, OutcomeNow, OutcomeOf
<1>8. LoadNow[c] # "none"
  BY DEF StoreInv, LoadNow, LoadOf, Loading
<1>9. \/ Store!EndLoad(c)
      \/ /\ LoadNow' = [LoadNow EXCEPT ![c] = IF @ = "unlock" THEN @ ELSE "resync"]
         /\ locked' = locked
  BY <1>1, EndIsEnd, FetchGoesOn DEF Store!EndLoad, LoadNow
<1> QED
  BY <1>4, <1>6, <1>7, <1>8, <1>9 DEF Store!Load, LoadNow, OutcomeNow

\* What changes no variable of the store is a stutter.
LEMMA OtherStepStutters ==
  ASSUME StoreInv, UNCHANGED <<registryVars, locked, agentVars>>,
         UNCHANGED <<pc, op>>
  PROVE  StoreInv' /\ StoreStep
<1>1. UNCHANGED <<StoreNow, LoadNow, OutcomeNow, locked, asked, held>>
  BY DEF registryVars, agentVars, StoreNow, LoadNow, OutcomeNow, LoadOf, OutcomeOf, Offered
<1> QED
  BY <1>1 DEF StoreInv, StoreKeys, SameBlobs, Loading, registryVars, StoreStep, Store!storeVars,
              StoreNow, LoadNow, OutcomeNow

\* A load that fails leaves the keys and the flag.
LEMMA FailureIsLoad ==
  ASSUME TypeOK, StoreInv, NEW c \in Clients, Loading(c), LoadFails(c),
         UNCHANGED <<registryVars, agentVars>>
  PROVE  StoreInv' /\ Store!Load(c)
<1>1. /\ LoadNow' = [LoadNow EXCEPT ![c] = "none"] /\ locked' = locked
      /\ \A d \in Clients : Loading(d)' => Loading(d) /\ op'[d] = op[d]
  BY EndIsEnd DEF LoadFails
<1>2. StoreInv'
  BY <1>1 DEF StoreInv, StoreKeys, SameBlobs, registryVars
<1>3. UNCHANGED <<StoreNow, asked, held, OutcomeNow>>
  BY DEF registryVars, agentVars, StoreNow, OutcomeNow, OutcomeOf, Offered
<1>4. LoadNow[c] # "none"
  BY DEF StoreInv, LoadNow, LoadOf, Loading
<1>5. Store!EndLoad(c)
  BY <1>1 DEF Store!EndLoad, LoadNow
<1> QED
  BY <1>1, <1>2, <1>3, <1>4, <1>5 DEF Store!Load, LoadNow, OutcomeNow, StoreNow

LEMMA ListIsLoad ==
  ASSUME TypeOK, StoreInv, NEW c \in Clients, ListReturns(c), UNCHANGED agentVars
  PROVE  StoreInv' /\ Store!Load(c)
<1> DEFINE list == Listing(answer[c])
           ids == IF ClearsFirst(c) THEN NoIdentities ELSE identities
           privs == IF ClearsFirst(c) THEN NoPrivateKeys ELSE privateKeys
<1>1. /\ pc[c] = "list"
      /\ RunLoop(c, list, ListedItems(list), {}, ids, privs)
  BY DEF ListReturns
<1>2. privs \in StoreKeys /\ SameBlobs(ids, privs)
  BY DEF StoreInv, StoreKeys, SameBlobs, NoIdentities, NoPrivateKeys
<1>3. ListedItems(list) \in SUBSET Items
  BY DEF ListedItems
<1>4. LoadNow[c] = op[c]
  BY <1>1 DEF LoadNow, LoadOf
<1>5. LoadNow[c] # "sync" => \A k \in Keys : privs[k] = NoKey => privateKeys[k] = NoKey
  BY <1>4 DEF ClearsFirst
<1> HIDE DEF list, ids, privs
<1> QED
  BY <1>1, <1>2, <1>3, <1>5, LoopDelivers DEF Loading

LEMMA GetIsLoad ==
  ASSUME TypeOK, StoreInv, NEW c \in Clients, GetReturns(c), UNCHANGED agentVars
  PROVE  StoreInv' /\ Store!Load(c)
<1>1. pc[c] = "get" /\ Loading(c)
  BY DEF GetReturns, Loading
<1>2. CASE LoadFails(c) /\ UNCHANGED registryVars
  <2> QED
    BY <1>1, <1>2, FailureIsLoad
<1>3. CASE RunLoop(c, listed[c], pending[c], {fetching[c]}, identities, privateKeys)
  <2>1. pending[c] \in SUBSET Items
    BY DEF TypeOK, ControlTypeOK, RequestTypeOK
  <2> QED
    BY <1>1, <1>3, <2>1, LoopDelivers DEF StoreInv
<1> QED
  BY <1>2, <1>3 DEF GetReturns, registryVars

-----------------------------------------------------------------------------
(* Requests to the control server *)

\* A task that does not wait for bw goes elsewhere than to bw.
LEMMA RestIsStutter ==
  ASSUME TypeOK, StoreInv, NEW c \in Clients, ~Loading(c),
         UNCHANGED <<registryVars, locked, agentVars>>,
         NEW p \in {"closed", "idle", "prompt"}, pc' = [pc EXCEPT ![c] = p],
         NEW m, op' = [op EXCEPT ![c] = m]
  PROVE  StoreInv' /\ StoreStep
<1> USE DEF TypeOK, ControlTypeOK, RequestTypeOK, Loading
<1>1. LoadNow' = LoadNow
  BY DEF LoadNow, LoadOf
<1>2. UNCHANGED <<StoreNow, OutcomeNow, locked, asked, held>>
  BY DEF registryVars, agentVars, StoreNow, OutcomeNow, OutcomeOf, Offered
<1>3. StoreInv'
  BY DEF StoreInv, StoreKeys, SameBlobs, registryVars
<1> QED
  BY <1>1, <1>2, <1>3 DEF StoreStep, Store!storeVars, StoreNow, LoadNow, OutcomeNow

\* A task that starts bw starts a load.
LEMMA StartIsStart ==
  ASSUME TypeOK, StoreInv, NEW c \in Clients, ~Loading(c),
         UNCHANGED <<registryVars, locked, agentVars>>,
         NEW m \in {"unlock", "sync"}, StartList(c, m)
  PROVE  StoreInv' /\ StoreStep
<1> USE DEF TypeOK, ControlTypeOK, RequestTypeOK, Loading
<1>1. pc' = [pc EXCEPT ![c] = "list"] /\ op' = [op EXCEPT ![c] = m]
  BY DEF StartList
<1>2. LoadNow[c] = "none" /\ LoadNow' = [LoadNow EXCEPT ![c] = m]
  BY <1>1 DEF LoadNow, LoadOf
<1>3. UNCHANGED <<StoreNow, OutcomeNow, locked, asked, held>>
  BY DEF registryVars, agentVars, StoreNow, OutcomeNow, OutcomeOf, Offered
<1>4. StoreInv'
  BY <1>1 DEF StoreInv, StoreKeys, SameBlobs, registryVars
<1>5. Store!StartLoad(c)
  BY <1>2, <1>3 DEF Store!StartLoad, StoreNow, LoadNow, OutcomeNow
<1> QED
  BY <1>4, <1>5 DEF StoreStep, Store!Next

\* What an unlock does once it is authorized.
LEMMA BeginIsStart ==
  ASSUME TypeOK, StoreInv, NEW c \in Clients, ~Loading(c), NEW b, BeginUnlock(c, b),
         UNCHANGED <<registryVars, locked, agentVars>>
  PROVE  StoreInv' /\ StoreStep
<1>1. StartList(c, "unlock") \/ Respond(c, "error")
  BY DEF BeginUnlock, RespondAtOnce
<1> QED
  BY <1>1, RestIsStutter, StartIsStart DEF Respond

\* lock, as a request or before sleep, is the store's Lock.
LEMMA LockIsLock ==
  ASSUME StoreInv, Lock, UNCHANGED <<LoadNow, agentVars>>,
         \A c \in Clients : Loading(c)' => Loading(c) /\ op'[c] = op[c]
  PROVE  StoreInv' /\ StoreStep
<1>1. StoreInv'
  BY DEF StoreInv, StoreKeys, SameBlobs, Lock, Clear, NoIdentities, NoPrivateKeys
<1>2. StoreNow' = [k \in Keys |-> NoKey]
  BY <1>1, StoreIsRegistry DEF Lock, Clear, NoPrivateKeys
<1>3. UNCHANGED <<OutcomeNow, asked, held>>
  BY DEF agentVars, OutcomeNow, OutcomeOf
<1>4. Store!Lock
  BY <1>2, <1>3 DEF Store!Lock, Lock, StoreNow, LoadNow, OutcomeNow
<1> QED
  BY <1>1, <1>4 DEF StoreStep, Store!Next

LEMMA RequestsImplement ==
  ASSUME TypeOK, StoreInv, NEW c \in Clients, UNCHANGED agentVars,
         ControlRequest(c) \/ UnlockPromptAnswered(c)
  PROVE  StoreInv' /\ StoreStep
<1>1. ~Loading(c)
  BY DEF Loading, ControlRequest, Accept, Close, Query, LockRequest, ReloadConfig,
         UnlockRequest, SyncRequest, Request, UnlockPromptAnswered
<1>2. CASE Accept(c) \/ Close(c)
  <2>1. op' = [op EXCEPT ![c] = op[c]]
    BY <1>2 DEF Accept, Close, TypeOK, ControlTypeOK, RequestTypeOK
  <2> QED
    BY <1>1, <1>2, <2>1, RestIsStutter DEF Accept, Close
<1>3. CASE Query(c) \/ ReloadConfig(c)
  BY <1>1, <1>3, RestIsStutter DEF Query, ReloadConfig, RespondAtOnce, Respond
<1>4. CASE LockRequest(c)
  <2>1. pc[c] = "idle" /\ pc' = [pc EXCEPT ![c] = "idle"] /\ op' = [op EXCEPT ![c] = "none"]
    BY <1>4 DEF LockRequest, Request, Respond
  <2> USE DEF TypeOK, ControlTypeOK, RequestTypeOK, Loading
  <2>2. LoadNow' = LoadNow
    BY <2>1 DEF LoadNow, LoadOf
  <2>3. \A d \in Clients : Loading(d)' => Loading(d) /\ op'[d] = op[d]
    BY <2>1
  <2> QED
    BY <1>4, <2>2, <2>3, LockIsLock DEF LockRequest
<1>5. CASE UnlockRequest(c)
  <2>1. PICK b \in BOOLEAN :
          \/ BeginUnlock(c, b)
          \/ RespondAtOnce(c, "error")
          \/ /\ pc' = [pc EXCEPT ![c] = "prompt"]
             /\ op' = [op EXCEPT ![c] = "unlock"]
    BY <1>5 DEF UnlockRequest
  <2>2. UNCHANGED <<registryVars, locked>>
    BY <1>5 DEF UnlockRequest
  <2> QED
    BY <1>1, <2>1, <2>2, BeginIsStart, RestIsStutter DEF RespondAtOnce, Respond
<1>6. CASE UnlockPromptAnswered(c)
  BY <1>1, <1>6, BeginIsStart, RestIsStutter
  DEF UnlockPromptAnswered, RespondAtOnce, Respond
<1>7. CASE SyncRequest(c)
  <2>1. \/ StartList(c, "sync")
        \/ \E r : Respond(c, r)
    BY <1>7 DEF SyncRequest, RespondAtOnce
  <2> QED
    BY <1>1, <1>7, <2>1, StartIsStart, RestIsStutter DEF SyncRequest, Respond
<1> QED
  BY <1>2, <1>3, <1>4, <1>5, <1>6, <1>7 DEF ControlRequest

-----------------------------------------------------------------------------
(* Requests to the agent *)

\* An answer settles the request, and so does a prompt.
LEMMA AnswerIsSettle ==
  ASSUME TypeOK, NEW a \in SshClients, NEW r, NEW k, NEW p, Answer(a, r, k, p),
         UNCHANGED <<registryVars, controlVars>>
  PROVE  Store!Settle(a, k, p, IF r = "signature" THEN "signed" ELSE "none")
<1>1. OutcomeNow' = [OutcomeNow EXCEPT ![a] = IF r = "signature" THEN "signed" ELSE "none"]
  BY DEF OutcomeNow, OutcomeOf, Answer, TypeOK, AgentTypeOK
<1>2. UNCHANGED <<StoreNow, LoadNow, locked>>
  BY DEF registryVars, controlVars, requestVars, StoreNow, LoadNow, LoadOf, Offered
<1> QED
  BY <1>1, <1>2 DEF Store!Settle, Answer, StoreNow, LoadNow, OutcomeNow

LEMMA RefuseIsRefuse ==
  ASSUME TypeOK, NEW a \in SshClients, Refuse(a), UNCHANGED <<registryVars, controlVars>>
  PROVE  Store!Refuse(a)
BY AnswerIsSettle DEF Refuse, Store!Refuse

LEMMA SignRequestImplements ==
  ASSUME TypeOK, StoreInv, NEW a \in SshClients, SignRequest(a), UNCHANGED controlVars
  PROVE  Store!Ask(a) \/ Store!Refuse(a)
<1>1. UNCHANGED registryVars
  BY DEF SignRequest
<1>2. StoreNow = privateKeys
  BY StoreIsRegistry
<1>3. SUFFICES ASSUME ~Refuse(a) PROVE Store!Ask(a)
  BY <1>1, RefuseIsRefuse
<1>4. PICK k \in Keys :
        /\ privateKeys[k] # NoKey
        /\ \/ privateKeys[k] \notin Unsignable /\ Answer(a, "signature", k, privateKeys[k])
           \/ /\ apc' = [apc EXCEPT ![a] = "prompt"]
              /\ asked' = [asked EXCEPT ![a] = k]
              /\ held' = [held EXCEPT ![a] = privateKeys[k]]
  BY <1>3 DEF SignRequest, Sign
<1>5. CASE privateKeys[k] \notin Unsignable /\ Answer(a, "signature", k, privateKeys[k])
  <2>1. Store!Settle(a, k, privateKeys[k], "signed")
    BY <1>1, <1>5, AnswerIsSettle
  <2> QED
    BY <1>2, <1>4, <1>5, <2>1 DEF Store!Ask, StoreNow
<1>6. CASE /\ apc' = [apc EXCEPT ![a] = "prompt"]
           /\ asked' = [asked EXCEPT ![a] = k]
           /\ held' = [held EXCEPT ![a] = privateKeys[k]]
  <2>1. OutcomeNow' = [OutcomeNow EXCEPT ![a] = "asking"]
    <3>1. \A b \in SshClients : b # a => areply'[b] = areply[b]
      BY <1>3 DEF SignRequest, Sign, Answer, TypeOK, AgentTypeOK
    <3> QED
      BY <1>6, <3>1 DEF OutcomeNow, OutcomeOf, TypeOK, AgentTypeOK
  <2>2. UNCHANGED <<StoreNow, LoadNow, locked>>
    BY <1>1 DEF registryVars, controlVars, requestVars, StoreNow, LoadNow, LoadOf, Offered
  <2>3. Store!Settle(a, k, privateKeys[k], "asking")
    BY <1>6, <2>1, <2>2 DEF Store!Settle, StoreNow, LoadNow, OutcomeNow
  <2> QED
    BY <1>2, <1>4, <2>3 DEF Store!Ask, StoreNow
<1> QED
  BY <1>4, <1>5, <1>6

LEMMA AgentImplements ==
  ASSUME TypeOK, StoreInv, AgentNext, UNCHANGED controlVars
  PROVE  StoreInv' /\ StoreStep
<1>1. PICK a \in SshClients :
        \/ Connect(a) \/ Disconnect(a)
        \/ RequestIdentities(a) \/ Unsupported(a)
        \/ SignRequest(a) \/ SignPromptAnswered(a)
  BY DEF AgentNext
<1>2. UNCHANGED registryVars
  BY <1>1 DEF Connect, Disconnect, RequestIdentities, Unsupported, SignRequest,
              SignPromptAnswered
<1>3. StoreInv'
  BY <1>2 DEF registryVars, controlVars, requestVars, StoreInv, StoreKeys, SameBlobs, Loading
<1>4. UNCHANGED <<StoreNow, LoadNow, locked>>
  BY <1>2 DEF registryVars, controlVars, requestVars, StoreNow, LoadNow, LoadOf, Offered
<1>5. CASE Connect(a)
  <2>1. OutcomeNow' = OutcomeNow /\ UNCHANGED <<asked, held>>
    BY <1>5 DEF Connect, OutcomeNow, OutcomeOf, TypeOK, AgentTypeOK
  <2> QED
    BY <1>3, <1>4, <2>1 DEF StoreStep, Store!storeVars, StoreNow, LoadNow, OutcomeNow
<1>6. CASE Disconnect(a)
  <2>1. OutcomeNow' = [OutcomeNow EXCEPT ![a] = "none"]
    BY <1>6 DEF Disconnect, OutcomeNow, OutcomeOf, TypeOK, AgentTypeOK
  <2>2. Store!Refuse(a)
    BY <1>4, <1>6, <2>1
    DEF Disconnect, Store!Refuse, Store!Settle, StoreNow, LoadNow, OutcomeNow
  <2> QED
    BY <1>3, <2>2 DEF StoreStep, Store!Next
<1>7. CASE RequestIdentities(a) \/ Unsupported(a)
  <2>1. Store!Refuse(a)
    <3>1. CASE Answer(a, "identities", NoKey, NoKey)
      BY <1>2, <3>1, AnswerIsSettle DEF Store!Refuse
    <3> QED
      BY <1>2, <1>7, <3>1, RefuseIsRefuse DEF RequestIdentities, Unsupported
  <2> QED
    BY <1>3, <2>1 DEF StoreStep, Store!Next
<1>8. CASE SignRequest(a)
  BY <1>3, <1>8, SignRequestImplements DEF StoreStep, Store!Next
<1>9. CASE SignPromptAnswered(a)
  <2>1. CASE Refuse(a)
    BY <1>2, <1>3, <2>1, RefuseIsRefuse DEF StoreStep, Store!Next
  <2>2. CASE held[a] \notin Unsignable /\ Answer(a, "signature", asked[a], held[a])
    <3>1. Store!Settle(a, asked[a], held[a], "signed")
      BY <1>2, <2>2, AnswerIsSettle
    <3>2. OutcomeNow[a] = "asking"
      BY <1>9 DEF SignPromptAnswered, OutcomeNow, OutcomeOf
    <3>3. Store!Grant(a)
      BY <2>2, <3>1, <3>2 DEF Store!Grant, OutcomeNow
    <3> QED
      BY <1>3, <3>3 DEF StoreStep, Store!Next
  <2> QED
    BY <1>9, <2>1, <2>2 DEF SignPromptAnswered, Sign
<1> QED
  BY <1>1, <1>5, <1>6, <1>7, <1>8, <1>9

-----------------------------------------------------------------------------
\* ImplementsStore: whatever unlocks, syncs, locks, failures and prompts
\* interleave, those who use the daemon see one store of keys.
THEOREM DaemonImplementsStore == Spec => ImplementsStore
<1>1. Init => StoreInv /\ Store!Init
  <2> SUFFICES ASSUME Init PROVE StoreInv /\ Store!Init
    OBVIOUS
  <2> USE DEF Init, RegistryInit, ControlInit, AgentInit, NoIdentities, NoPrivateKeys
  <2>1. StoreInv
    BY DEF StoreInv, StoreKeys, SameBlobs, Loading
  <2>2. StoreNow = [k \in Keys |-> NoKey]
    BY <2>1, StoreIsRegistry
  <2>3. LoadNow = [c \in Clients |-> "none"] /\ OutcomeNow = [a \in SshClients |-> "none"]
    BY DEF LoadNow, LoadOf, OutcomeNow, OutcomeOf
  <2> QED
    BY <2>1, <2>2, <2>3 DEF Store!Init, StoreNow, LoadNow, OutcomeNow
<1>2. TypeOK /\ StoreInv /\ [Next]_vars => StoreInv' /\ StoreStep
  <2> SUFFICES ASSUME TypeOK, StoreInv, [Next]_vars PROVE StoreInv' /\ StoreStep
    OBVIOUS
  <2>1. ASSUME NEW c \in Clients, UNCHANGED agentVars,
               ControlRequest(c) \/ UnlockPromptAnswered(c)
        PROVE  StoreInv' /\ StoreStep
    BY <2>1, RequestsImplement
  <2>2. ASSUME NEW c \in Clients, UNCHANGED agentVars, BwEnds(c)
        PROVE  StoreInv' /\ StoreStep
    <3>1. StoreInv' /\ Store!Load(c)
      BY <2>2, ListIsLoad, GetIsLoad, FailureIsLoad DEF BwEnds, ListBreaks, BwFails, Loading
    <3> QED
      BY <3>1 DEF StoreStep, Store!Next
  <2>3. ASSUME SleepLock, UNCHANGED agentVars
        PROVE  StoreInv' /\ StoreStep
    <3>1. UNCHANGED LoadNow /\ UNCHANGED <<pc, op>>
      BY <2>3 DEF SleepLock, LoadNow, LoadOf
    <3> QED
      BY <2>3, <3>1, LockIsLock DEF SleepLock, Loading
  <2>4. ASSUME AgentNext, UNCHANGED controlVars
        PROVE  StoreInv' /\ StoreStep
    BY <2>4, AgentImplements
  <2>5. ASSUME (ProviderStep /\ UNCHANGED agentVars) \/ UNCHANGED vars
        PROVE  StoreInv' /\ StoreStep
    BY <2>5, OtherStepStutters DEF ProviderStep, vars, controlVars, requestVars
  <2> QED
    BY <2>1, <2>2, <2>3, <2>4, <2>5 DEF Next, ControlNext
<1> QED
  BY <1>1, <1>2, TypeCorrect, PTL DEF Spec, ImplementsStore, Store!Spec, StoreStep
=============================================================================
