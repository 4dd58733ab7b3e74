---------------------------- MODULE BridgeProofs ----------------------------
(***************************************************************************)
(* Proofs about WindowsBridge, for any number of connections, identities,  *)
(* sessions and requests: the types, the agreement of the lock state with  *)
(* the identities, what an answer claims, and when an answer of a proxied  *)
(* connection can be lost.                                                 *)
(***************************************************************************)
EXTENDS WindowsBridge, TLAPS

-----------------------------------------------------------------------------
\* The copy of the Windows agent's state.

\* TakeUp keeps the types of what it writes.
LEMMA TakeUpTypes ==
  ASSUME BridgeTypeOK, NEW t \in Tasks, TakeUp(t)
  PROVE  /\ winKeys' \in SUBSET Ids /\ relayUp' \in BOOLEAN
         /\ bridgeKeys' \in SUBSET Ids /\ locked' \in BOOLEAN
         /\ task' \in [Tasks -> {"idle", "asking", "answered", "ended"}]
         /\ answer' \in [Tasks -> SUBSET Ids] /\ shutdown' \in BOOLEAN
<1>1. locked' \in BOOLEAN
  BY Zenon DEF TakeUp
<1>2. QED
  BY <1>1 DEF BridgeTypeOK, TakeUp, windowsVars

\* A step of the state keeps its types.
LEMMA BridgeTypeStep == BridgeTypeOK /\ BridgeStateNext => BridgeTypeOK'
<1> SUFFICES ASSUME BridgeTypeOK, BridgeStateNext PROVE BridgeTypeOK'
  OBVIOUS
<1> Watcher \in Tasks /\ Requests \subseteq Tasks
  BY DEF Tasks
<1> USE DEF BridgeTypeOK
<1>1. CASE WindowsChanges
  BY <1>1 DEF WindowsChanges
<1>2. CASE RelayChanges
  <2>1. relayUp' \in BOOLEAN
    BY <1>2, Zenon DEF RelayChanges
  <2>2. QED
    BY <1>2, <2>1 DEF RelayChanges
<1>3. ASSUME NEW t \in Tasks, RelayAnswers(t) PROVE BridgeTypeOK'
  BY <1>3 DEF RelayAnswers, windowsVars
<1>4. ASSUME NEW t \in Tasks, RelayFails(t) PROVE BridgeTypeOK'
  BY <1>4 DEF RelayFails, windowsVars
<1>5. ASSUME NEW r \in Requests, BridgeQuery(r) PROVE BridgeTypeOK'
  BY <1>5 DEF BridgeQuery, Respond, windowsVars
<1>6. ASSUME NEW r \in Requests, BridgeLockRequest(r) PROVE BridgeTypeOK'
  BY <1>6 DEF BridgeLockRequest, BridgeLock, Respond, windowsVars
<1>7. ASSUME NEW r \in Requests, RefreshRequest(r) PROVE BridgeTypeOK'
  BY <1>7 DEF RefreshRequest, StartRelay, Respond, windowsVars
<1>8. ASSUME NEW r \in Requests, Refreshed(r) PROVE BridgeTypeOK'
  <2>1. reply' \in [Requests -> {"none", "answered", "locked", "available",
                                 "unavailable"}]
    BY <1>8 DEF Refreshed, Respond
  <2>2. TakeUp(r)
    BY <1>8 DEF Refreshed
  <2>3. QED
    BY <2>1, <2>2, TakeUpTypes
<1>9. CASE BridgeSleepLock
  BY <1>9 DEF BridgeSleepLock, BridgeLock, windowsVars
<1>10. CASE Poll
  BY <1>10 DEF Poll, StartRelay, windowsVars
<1>11. CASE Polled
  BY <1>11, TakeUpTypes DEF Polled
<1>12. CASE WatcherEnds
  BY <1>12 DEF WatcherEnds, windowsVars
<1>13. CASE SetShutdown
  BY <1>13 DEF SetShutdown, windowsVars
<1>14. QED
  BY <1>1, <1>2, <1>3, <1>4, <1>5, <1>6, <1>7, <1>8, <1>9, <1>10, <1>11, <1>12,
     <1>13
  DEF BridgeStateNext, RefreshStep

\* A step of a proxied connection keeps its types.
LEMMA ProxyTypeStep == ProxyTypeOK /\ ProxyNext => ProxyTypeOK'
<1> SUFFICES ASSUME ProxyTypeOK, NEW s \in Sessions,
                    \/ ClientSends(s) \/ ClientEnds(s)
                    \/ RelayReplies(s) \/ RelayExits(s)
                    \/ ProxyStart(s) \/ ProxyStep(s)
             PROVE  ProxyTypeOK'
  BY DEF ProxyNext
<1> USE ProxyAssumption DEF ProxyTypeOK, PumpStates, countVars
<1>1. CASE ClientSends(s)
  BY <1>1 DEF ClientSends
<1>2. CASE ClientEnds(s)
  BY <1>2 DEF ClientEnds
<1>3. CASE RelayReplies(s)
  BY <1>3 DEF RelayReplies
<1>4. CASE RelayExits(s)
  BY <1>4 DEF RelayExits
<1>5. CASE ProxyStart(s)
  BY <1>5 DEF ProxyStart
<1>6. CASE PumpIn(s)
  BY <1>6 DEF PumpIn
<1>7. CASE PumpOut(s)
  BY <1>7 DEF PumpOut
<1>8. CASE CancelPumps(s)
  <2>1. \A pump \in PumpStates : Cancelled(pump) \in PumpStates
    BY DEF Cancelled
  <2>2. QED
    BY <1>8, <2>1 DEF CancelPumps
<1>9. CASE ProxyEnd(s)
  BY <1>9 DEF ProxyEnd
<1>10. QED
  BY <1>1, <1>2, <1>3, <1>4, <1>5, <1>6, <1>7, <1>8, <1>9 DEF ProxyStep

\* BridgeTypesOK: every variable of the bridge keeps its type; no connection
\* passes on more than its client has written.
THEOREM BridgeTypeCorrect == Spec => []BridgeTypesOK
<1>1. Init => BridgeTypesOK
  <2>1. BridgeInit => BridgeTypeOK
    BY DEF BridgeInit, BridgeTypeOK
  <2>2. ProxyInit => ProxyTypeOK
    BY ProxyAssumption DEF ProxyInit, ProxyTypeOK, PumpStates
  <2>3. QED
    BY <2>1, <2>2 DEF Init, BridgeTypesOK
<1>2. BridgeTypesOK /\ [Next]_vars => BridgeTypesOK'
  <2>1. BridgeTypeOK /\ UNCHANGED bridgeVars => BridgeTypeOK'
    BY DEF BridgeTypeOK, bridgeVars, windowsVars
  <2>2. ProxyTypeOK /\ UNCHANGED proxyVars => ProxyTypeOK'
    BY DEF ProxyTypeOK, proxyVars, countVars
  <2>3. QED
    BY <2>1, <2>2, BridgeTypeStep, ProxyTypeStep DEF BridgeTypesOK, Next, vars
<1>3. QED
  BY <1>1, <1>2, PTL DEF Spec

-----------------------------------------------------------------------------
\* LockedMeansNoIdentities: the flag and the identities are one state, however
\* the refreshes of the requests and of the watcher and the locks interleave:
\* whoever writes the one writes the other in the same step.
THEOREM LockStateIsOne == Spec => []LockedMeansNoIdentities
<1>1. Init => LockedMeansNoIdentities
  BY DEF Init, BridgeInit, LockedMeansNoIdentities
<1>2. LockedMeansNoIdentities /\ [Next]_vars => LockedMeansNoIdentities'
  <2> SUFFICES ASSUME LockedMeansNoIdentities, [Next]_vars
               PROVE  LockedMeansNoIdentities'
    OBVIOUS
  <2> USE DEF LockedMeansNoIdentities
  <2>1. ASSUME NEW t, TakeUp(t) PROVE LockedMeansNoIdentities'
    BY <2>1 DEF TakeUp
  <2>2. CASE BridgeLock
    BY <2>2 DEF BridgeLock
  <2>3. CASE UNCHANGED <<bridgeKeys, locked>>
    BY <2>3
  <2>4. CASE BridgeStateNext
    <3>1. CASE \/ \E r \in Requests : Refreshed(r)
               \/ Polled
      BY <2>1, <3>1 DEF Refreshed, Polled
    <3>2. CASE \/ \E r \in Requests : BridgeLockRequest(r)
               \/ BridgeSleepLock
      BY <2>2, <3>2 DEF BridgeLockRequest, BridgeSleepLock
    <3>3. CASE \/ WindowsChanges \/ RelayChanges
               \/ \E t \in Tasks : RefreshStep(t)
               \/ \E r \in Requests : BridgeQuery(r) \/ RefreshRequest(r)
               \/ Poll \/ WatcherEnds \/ SetShutdown
      BY <2>3, <3>3
      DEF WindowsChanges, RelayChanges, RefreshStep, RelayAnswers, RelayFails,
          BridgeQuery, RefreshRequest, Poll, WatcherEnds, SetShutdown
    <3>4. QED
      BY <2>4, <3>1, <3>2, <3>3 DEF BridgeStateNext
  <2>5. QED
    BY <2>3, <2>4 DEF Next, vars, bridgeVars
<1>3. QED
  BY <1>1, <1>2, PTL DEF Spec

-----------------------------------------------------------------------------
\* AvailableIsTrue: the response to an unlock or sync says that keys are
\* available exactly when the step that writes it leaves the agent unlocked
\* with keys to list.
THEOREM AvailableAnswers == Spec => AvailableIsTrue
<1> DEFINE Told(r) ==
      task[r] = "answered" /\ task'[r] = "idle" =>
          (reply'[r] = "available") = (bridgeKeys' # {} /\ ~locked')
<1>1. BridgeTypesOK /\ [Next]_vars => \A r \in Requests : Told(r)
  <2> SUFFICES ASSUME BridgeTypesOK, [Next]_vars, NEW r \in Requests,
                      task[r] = "answered", task'[r] = "idle"
               PROVE  (reply'[r] = "available") <=> (bridgeKeys' # {} /\ ~locked')
    BY Zenon
  <2>1. /\ task \in [Tasks -> {"idle", "asking", "answered", "ended"}]
        /\ reply \in [Requests -> {"none", "answered", "locked", "available",
                                   "unavailable"}]
        /\ r \in Tasks /\ Watcher \in Tasks /\ r # Watcher
        /\ Requests \subseteq Tasks
    BY BridgeAssumption DEF BridgeTypesOK, BridgeTypeOK, Tasks
  <2>2. task # task'
    OBVIOUS
  <2>3. BridgeStateNext
    BY <2>2 DEF Next, vars, bridgeVars
  <2>4. CASE Refreshed(r)
    BY <2>1, <2>4 DEF Refreshed, TakeUp, Respond
  <2>5. ASSUME NEW t \in Tasks, t # r, TakeUp(t) PROVE FALSE
    BY <2>1, <2>5 DEF TakeUp
  <2>6. ASSUME NEW t \in Tasks, RelayAnswers(t) \/ RelayFails(t) \/ StartRelay(t)
        PROVE  FALSE
    BY <2>1, <2>6 DEF RelayAnswers, RelayFails, StartRelay
  <2>7. CASE WatcherEnds
    BY <2>1, <2>7 DEF WatcherEnds
  <2>8. QED
    BY <2>1, <2>2, <2>3, <2>4, <2>5, <2>6, <2>7
    DEF BridgeStateNext, WindowsChanges, RelayChanges, RefreshStep, BridgeQuery,
        BridgeLockRequest, BridgeSleepLock, BridgeLock, RefreshRequest, Refreshed,
        Poll, Polled, SetShutdown
<1>2. QED
  BY <1>1, BridgeTypeCorrect, PTL DEF Spec, AvailableIsTrue

-----------------------------------------------------------------------------
\* The proxied connections.

\* Why a pump of s is over: the client's when the client has shut its side, the
\* relay's when the relay has exited and all its answers are passed on, or the
\* client has left; and proxy_client goes on only when one of them is.
ProxyInv(s) ==
    /\ delivered[s] <= answered[s] /\ answered[s] <= taken[s] /\ taken[s] <= sent[s]
    /\ inPump[s] = "running" \/ outPump[s] = "running" => stage[s] = "pumping"
    /\ inPump[s] = "ended" => peer[s] # "open"
    /\ outPump[s] = "failed" => peer[s] = "gone"
    /\ outPump[s] = "ended" => relay[s] = "exited" /\ delivered[s] = answered[s]
    /\ stage[s] = "none" => relay[s] = "none" /\ delivered[s] = answered[s]
    /\ stage[s] = "ending" => WaitIsOver(s)
    /\ stage[s] = "closed" =>
          \/ WaitIsOver(s)
          \/ relay[s] \in {"none", "exited"} /\ delivered[s] = answered[s]

LEMMA ProxyInvStep ==
  ASSUME ProxyTypeOK, \A s \in Sessions : ProxyInv(s), ProxyNext
  PROVE  \A s \in Sessions : ProxyInv(s)'
<1> SUFFICES ASSUME NEW s \in Sessions, NEW p \in Sessions,
                    \/ ClientSends(p) \/ ClientEnds(p)
                    \/ RelayReplies(p) \/ RelayExits(p)
                    \/ ProxyStart(p) \/ ProxyStep(p)
             PROVE  ProxyInv(s)'
  BY DEF ProxyNext
<1> USE ProxyAssumption DEF ProxyTypeOK, ProxyInv, WaitIsOver, PumpOver, countVars
<1>1. CASE ClientSends(p)
  BY <1>1 DEF ClientSends
<1>2. CASE ClientEnds(p)
  BY <1>2 DEF ClientEnds
<1>3. CASE RelayReplies(p)
  BY <1>3 DEF RelayReplies
<1>4. CASE RelayExits(p)
  BY <1>4 DEF RelayExits
<1>5. CASE ProxyStart(p)
  BY <1>5 DEF ProxyStart
<1>6. CASE PumpIn(p)
  BY <1>6 DEF PumpIn
<1>7. CASE PumpOut(p)
  BY <1>7 DEF PumpOut
<1>8. CASE CancelPumps(p)
  BY <1>8 DEF CancelPumps, Cancelled
<1>9. CASE ProxyEnd(p)
  BY <1>9 DEF ProxyEnd
<1>10. QED
  BY <1>1, <1>2, <1>3, <1>4, <1>5, <1>6, <1>7, <1>8, <1>9 DEF ProxyStep

\* AnswersAccountedFor: no answer is passed on twice or before its request, and
\* one is lost at the end of a connection only if the client had shut its sending
\* side (also one that goes on reading) or left, or writing to the relay had
\* failed: nothing else cancels the pump that copies answers.
THEOREM NoAnswerLost == Spec => []AnswersAccountedFor
<1> DEFINE Inv == \A s \in Sessions : ProxyInv(s)
<1>1. Init => Inv
  BY DEF Init, ProxyInit, ProxyInv, WaitIsOver, PumpOver
<1>2. BridgeTypesOK /\ Inv /\ [Next]_vars => Inv'
  <2>1. Inv /\ UNCHANGED proxyVars => Inv'
    BY DEF ProxyInv, WaitIsOver, PumpOver, proxyVars, countVars
  <2>2. QED
    BY <2>1, ProxyInvStep DEF BridgeTypesOK, Next, vars
<1>3. BridgeTypesOK /\ Inv => AnswersAccountedFor
  BY ProxyAssumption
  DEF BridgeTypesOK, ProxyTypeOK, ProxyInv, WaitIsOver, PumpOver, AnswersAccountedFor
<1>4. QED
  BY <1>1, <1>2, <1>3, BridgeTypeCorrect, PTL DEF Spec
=============================================================================
