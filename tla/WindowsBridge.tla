---------------------------- MODULE WindowsBridge ----------------------------
(***************************************************************************)
(* The daemon in Windows bridge mode: the control server's copy of the     *)
(* Windows agent's state, and the proxied connections of SSH clients,      *)
(* which never look at that copy.                                          *)
(***************************************************************************)
EXTENDS BridgeState, BridgeProxy

vars == <<bridgeVars, proxyVars>>

Init == BridgeInit /\ ProxyInit

Next ==
    \/ BridgeStateNext /\ UNCHANGED proxyVars
    \/ ProxyNext /\ UNCHANGED bridgeVars

(***************************************************************************)
(* The relay is waited for 5 seconds at most, the interval between two     *)
(* polls passes, and the event loop resumes every task that can go on.     *)
(* Nothing is assumed of clients, of the relay or of the Windows side.     *)
(***************************************************************************)
Fairness ==
    /\ \A t \in Tasks : WF_vars(RefreshStep(t) /\ UNCHANGED proxyVars)
    /\ \A r \in Requests : WF_vars(Refreshed(r) /\ UNCHANGED proxyVars)
    /\ WF_vars((Poll \/ Polled \/ WatcherEnds) /\ UNCHANGED proxyVars)
    /\ \A s \in Sessions : WF_vars(ProxyStep(s) /\ UNCHANGED bridgeVars)

Spec == Init /\ [][Next]_vars
FairSpec == Spec /\ Fairness

-----------------------------------------------------------------------------
(* Properties *)

\* Every variable stays in its type.
BridgeTypesOK == BridgeTypeOK /\ ProxyTypeOK

\* What status says is one state: the agent is locked exactly when it has no
\* identity to list, whatever refreshes and locks overlap (control.py lock and
\* refresh_windows_bridge_state both write the pair).
LockedMeansNoIdentities == locked <=> bridgeKeys = {}

\* An unlock or sync says that the keys are available exactly when the agent is
\* left unlocked with keys to list (_handle_unlock, _handle_sync).
AvailableIsTrue ==
    [][\A r \in Requests : task[r] = "answered" /\ task'[r] = "idle" =>
         (reply'[r] = "available") = (bridgeKeys' # {} /\ ~locked')]_vars

\* When what the Windows agent offers stays as it is and can be asked for, the
\* daemon comes back to it again and again: neither an older answer taken up
\* last nor a lock request wins for good (README.md:128 "The daemon polls
\* automatically and switches between locked/unlocked").
FollowsWindows ==
    \A ids \in SUBSET Ids :
        [](~shutdown) /\ <>[](relayUp /\ winKeys = ids)
            => []<>(bridgeKeys = ids /\ (locked <=> ids = {}))

\* When the Windows agent stays out of reach the agent locks, and stays locked.
LocksWhenUnreachable == [](~shutdown) /\ <>[](~relayUp) => <>[]locked

\* Every answer the relay gives reaches a client that keeps its connection
\* open, whatever its relay does next and whichever pump ends first, unless
\* writing a later request to a dead relay fails.  It is all the code gives: a
\* client that shuts only its sending side and goes on reading ends the pump
\* towards the relay, and the one with its answers is cancelled
\* (windows_bridge.py:57-59, 78-84).
AnswersArrive ==
    \A s \in Sessions, n \in 1..MaxRequests :
        answered[s] >= n
            ~> delivered[s] >= n \/ peer[s] # "open" \/ inPump[s] = "failed"

\* What the counters of a connection say at every moment: no answer is passed on
\* twice or before its request was (proxy_client), and one is missing when the
\* connection is ended only if the client had shut its sending side or left, or
\* writing to the relay had failed.
AnswersAccountedFor ==
    \A s \in Sessions :
        /\ delivered[s] <= answered[s] /\ answered[s] <= taken[s] /\ taken[s] <= sent[s]
        /\ stage[s] \in {"ending", "closed"} /\ delivered[s] < answered[s]
              => peer[s] # "open" \/ inPump[s] = "failed"

\* A proxied connection is closed once its client has ended or its relay has
\* exited: the pump that would go on waiting does not keep it open.
ProxyCloses ==
    \A s \in Sessions :
        stage[s] = "pumping" /\ (peer[s] # "open" \/ relay[s] = "exited")
            ~> stage[s] = "closed"
=============================================================================
