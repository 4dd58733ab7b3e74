----------------------------- MODULE BridgeState -----------------------------
(***************************************************************************)
(* control.py ControlServer in Windows bridge mode: the identities and the *)
(* lock state are a copy of what a Windows SSH agent offers, refreshed by  *)
(* every unlock and sync request and by a watcher that polls.  A refresh   *)
(* runs the relay program (windows_bridge.py _request) and suspends; the   *)
(* Windows agent's answer is taken up some steps after it was given, and   *)
(* other refreshes and lock() run meanwhile.                               *)
(***************************************************************************)
CONSTANTS
    Requests,  \* control connections
    Ids,       \* identities the Windows agent may offer
    Watcher    \* the task of auto_unlock_watcher

ASSUME BridgeAssumption == Watcher \notin Requests

Tasks == Requests \cup {Watcher}

VARIABLES
    winKeys,     \* external: what the Windows agent offers now
    relayUp,     \* external: the relay reaches it and answers within 5 seconds
    bridgeKeys,  \* _bridge_keys
    locked,      \* _locked
    task,        \* where each task is suspended
    answer,      \* the identities in the relay's answer to it
    reply,       \* the last response written to each connection
    shutdown     \* the shutdown event of _main_async is set

windowsVars == <<winKeys, relayUp>>
bridgeVars ==
    <<windowsVars, bridgeKeys, locked, task, answer, reply, shutdown>>

BridgeTypeOK ==
    /\ winKeys \in SUBSET Ids
    /\ relayUp \in BOOLEAN
    /\ bridgeKeys \in SUBSET Ids
    /\ locked \in BOOLEAN
    /\ task \in [Tasks -> {"idle", "asking", "answered", "ended"}]
    /\ answer \in [Tasks -> SUBSET Ids]
    /\ reply \in [Requests -> {"none", "answered", "locked", "available",
                               "unavailable"}]
    /\ shutdown \in BOOLEAN

BridgeInit ==
    /\ winKeys \in SUBSET Ids
    /\ relayUp \in BOOLEAN
    /\ bridgeKeys = {}
    /\ locked = TRUE
    /\ task = [t \in Tasks |-> "idle"]
    /\ answer = [t \in Tasks |-> {}]
    /\ reply = [r \in Requests |-> "none"]
    /\ shutdown = FALSE

-----------------------------------------------------------------------------
\* The Windows side.

\* The user locks, unlocks or edits the vault of the Windows app.
WindowsChanges ==
    /\ winKeys' \in SUBSET Ids
    /\ UNCHANGED <<relayUp, bridgeKeys, locked, task, answer, reply, shutdown>>

\* The relay program, the pipe or the Windows agent fails, or is back.
RelayChanges ==
    /\ relayUp' = ~relayUp
    /\ UNCHANGED <<winKeys, bridgeKeys, locked, task, answer, reply, shutdown>>

-----------------------------------------------------------------------------
\* refresh_windows_bridge_state, up to the relay's answer.

StartRelay(t) ==
    /\ task[t] = "idle"
    /\ task' = [task EXCEPT ![t] = "asking"]

\* The answer is on its way to the task; until it has been read and the relay
\* has ended the task stays suspended.
RelayAnswers(t) ==
    /\ task[t] = "asking"
    /\ relayUp
    /\ task' = [task EXCEPT ![t] = "answered"]
    /\ answer' = [answer EXCEPT ![t] = winKeys]
    /\ UNCHANGED <<windowsVars, bridgeKeys, locked, reply, shutdown>>

\* The relay cannot be started, exits or does not answer in time; or the
\* Windows agent is locked and answers with a failure.  All is "no identities".
RelayFails(t) ==
    /\ task[t] = "asking"
    /\ ~relayUp \/ winKeys = {}
    /\ task' = [task EXCEPT ![t] = "answered"]
    /\ answer' = [answer EXCEPT ![t] = {}]
    /\ UNCHANGED <<windowsVars, bridgeKeys, locked, reply, shutdown>>

\* Mutant: an empty answer leaves the identities as they were.
TakeUpNonEmpty(t) ==
    /\ task[t] = "answered"
    /\ bridgeKeys' = IF answer[t] = {} THEN bridgeKeys ELSE answer[t]
    /\ locked' = (bridgeKeys' = {})
    /\ task' = [task EXCEPT ![t] = "idle"]
    /\ answer' = [answer EXCEPT ![t] = {}]
    /\ UNCHANGED <<windowsVars, shutdown>>

\* The answer replaces what was known, whichever refresh asked last.
TakeUp(t) ==
    /\ task[t] = "answered"
    /\ bridgeKeys' = answer[t]
    /\ locked' = (answer[t] = {})
    /\ task' = [task EXCEPT ![t] = "idle"]
    /\ answer' = [answer EXCEPT ![t] = {}]
    /\ UNCHANGED <<windowsVars, shutdown>>

-----------------------------------------------------------------------------
\* The requests.

Respond(r, what) == reply' = [reply EXCEPT ![r] = what]

\* status and list_keys.
BridgeQuery(r) ==
    /\ task[r] = "idle"
    /\ Respond(r, "answered")
    /\ UNCHANGED <<windowsVars, bridgeKeys, locked, task, answer, shutdown>>

\* Mutant: only the flag is set.
BridgeLockFlag ==
    /\ bridgeKeys' = bridgeKeys
    /\ locked' = TRUE
    /\ UNCHANGED <<windowsVars, task, answer, shutdown>>

BridgeLock ==
    /\ bridgeKeys' = {}
    /\ locked' = TRUE
    /\ UNCHANGED <<windowsVars, task, answer, shutdown>>

BridgeLockRequest(r) ==
    /\ task[r] = "idle"
    /\ BridgeLock
    /\ Respond(r, "locked")

\* The system goes to sleep.
BridgeSleepLock == BridgeLock /\ UNCHANGED reply

\* unlock and sync only refresh.
RefreshRequest(r) ==
    /\ StartRelay(r)
    /\ Respond(r, "none")
    /\ UNCHANGED <<windowsVars, bridgeKeys, locked, answer, shutdown>>

\* Mutant: the response says what the state was before the refresh.
RefreshedStale(r) ==
    /\ TakeUp(r)
    /\ Respond(r, IF locked THEN "unavailable" ELSE "available")

\* They answer in the step that takes the refresh up.
Refreshed(r) ==
    /\ TakeUp(r)
    /\ Respond(r, IF locked' THEN "unavailable" ELSE "available")

-----------------------------------------------------------------------------
\* auto_unlock_watcher.

\* Mutant: the watcher polls only while the agent is locked.
PollWhileLocked ==
    /\ ~shutdown /\ locked
    /\ StartRelay(Watcher)
    /\ UNCHANGED <<windowsVars, bridgeKeys, locked, answer, reply, shutdown>>

\* The first round, or the interval has passed.
Poll ==
    /\ ~shutdown
    /\ StartRelay(Watcher)
    /\ UNCHANGED <<windowsVars, bridgeKeys, locked, answer, reply, shutdown>>

Polled == TakeUp(Watcher) /\ UNCHANGED reply

WatcherEnds ==
    /\ shutdown
    /\ task[Watcher] = "idle"
    /\ task' = [task EXCEPT ![Watcher] = "ended"]
    /\ UNCHANGED <<windowsVars, bridgeKeys, locked, answer, reply, shutdown>>

\* The agent server has ended.
SetShutdown ==
    /\ shutdown' = TRUE
    /\ UNCHANGED <<windowsVars, bridgeKeys, locked, task, answer, reply>>

-----------------------------------------------------------------------------
RefreshStep(t) == RelayAnswers(t) \/ RelayFails(t)

BridgeStateNext ==
    \/ WindowsChanges \/ RelayChanges
    \/ \E t \in Tasks : RefreshStep(t)
    \/ \E r \in Requests :
          BridgeQuery(r) \/ BridgeLockRequest(r) \/ RefreshRequest(r) \/ Refreshed(r)
    \/ BridgeSleepLock
    \/ Poll \/ Polled \/ WatcherEnds \/ SetShutdown
=============================================================================
