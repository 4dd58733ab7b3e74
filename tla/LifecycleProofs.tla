--------------------------- MODULE LifecycleProofs ---------------------------
(***************************************************************************)
(* Proofs about Lifecycle, for any number of processes: the types, and     *)
(* what a process finds at its paths while it listens and leaves there     *)
(* when it has ended.                                                      *)
(***************************************************************************)
EXTENDS Lifecycle, TLAPS

\* Two processes that are alive at once overlap, both of them.
OverlapsSeen ==
    \A p, q \in Procs : p # q /\ Alive(p) /\ Alive(q) => overlapped[p]

\* A process that has ended by itself had both servers over, and a server that
\* is over has left its path.
ServersOver ==
    \A p \in Procs, n \in Names :
        /\ phase[p] = "ended" => serve[p][n] = "over"
        /\ serve[p][n] = "over" => sock[n] # p

\* A step that leaves the phases as they are leaves a process alive or not.
LEMMA AliveStays ==
  ASSUME NEW p \in Procs, phase' = phase
  PROVE  Alive(p)' <=> Alive(p)
BY DEF Alive

\* The type invariant is inductive as it stands.
LEMMA TypesStep == TypeOK /\ [Next]_vars => TypeOK'
<1> SUFFICES ASSUME TypeOK, [Next]_vars PROVE TypeOK'
  OBVIOUS
<1> USE DEF TypeOK
<1>1. CASE UNCHANGED vars
  BY <1>1 DEF vars
<1>2. ASSUME NEW p \in Procs, StartProcess(p) PROVE TypeOK'
  <2>1. overlapped' \in [Procs -> BOOLEAN]
    BY <1>2, Zenon DEF StartProcess
  <2>2. QED
    BY <1>2, <2>1 DEF StartProcess
<1>3. ASSUME NEW p \in Procs, AuthorizerReady(p) PROVE TypeOK'
  BY <1>3 DEF AuthorizerReady
<1>4. ASSUME NEW p \in Procs, Signal(p) PROVE TypeOK'
  BY <1>4 DEF Signal
<1>5. ASSUME NEW p \in Procs, Die(p) PROVE TypeOK'
  BY <1>5 DEF Die
<1>6. ASSUME NEW p \in Procs, End(p) PROVE TypeOK'
  BY <1>6 DEF End
<1>7. ASSUME NEW p \in Procs, NEW n \in Names, Listen(p, n) PROVE TypeOK'
  BY <1>7 DEF Listen
<1>8. ASSUME NEW p \in Procs, NEW n \in Names, ListenFails(p, n) PROVE TypeOK'
  <2>1. sock' \in [Names -> Procs \cup {NoProc}]
    <3>1. \A m \in Names : LeftAt(p, m) \subseteq Procs \cup {NoProc}
      BY DEF LeftAt
    <3>2. QED
      BY <1>8, <3>1 DEF ListenFails, Names
  <2>2. QED
    BY <1>8, <2>1 DEF ListenFails
<1>9. ASSUME NEW p \in Procs, NEW n \in Names, CloseServer(p, n) PROVE TypeOK'
  BY <1>9 DEF CloseServer
<1>10. ASSUME NEW p \in Procs, NEW n \in Names, ServerClosed(p, n) PROVE TypeOK'
  BY <1>10 DEF ServerClosed, NoConnection, Unlinked
<1>11. ASSUME NEW p \in Procs, NEW n \in Names, ClientConnects(p, n) PROVE TypeOK'
  BY <1>11 DEF ClientConnects
<1>12. ASSUME NEW p \in Procs, NEW n \in Names, ClientsLeave(p, n) PROVE TypeOK'
  BY <1>12 DEF ClientsLeave
<1>13. ASSUME NEW p \in Procs, NEW n \in Names, Prompt(p, n) \/ PromptAnswered(p, n)
       PROVE  TypeOK'
  <2>1. CASE Prompt(p, n)
    BY <2>1 DEF Prompt
  <2>2. CASE PromptAnswered(p, n)
    BY <2>2 DEF PromptAnswered
  <2>3. QED
    BY <1>13, <2>1, <2>2
<1>14. QED
  BY <1>1, <1>2, <1>3, <1>4, <1>5, <1>6, <1>7, <1>8, <1>9, <1>10, <1>11, <1>12, <1>13
  DEF Next, ProcessStep, ServeStep

\* TypeOK: every variable of the processes and the files they share keeps its
\* type, and only a running process has servers and only those connections.
THEOREM LifecycleTypeCorrect == Spec => []TypeOK
<1>1. Init => TypeOK
  BY DEF Init, TypeOK
<1>2. QED
  BY <1>1, TypesStep, PTL DEF Spec

-----------------------------------------------------------------------------
\* OverlapsSeen: processes overlap only from the start of one of them, and
\* StartProcess records it for both.
THEOREM OverlapRecorded == Spec => []OverlapsSeen
<1>1. Init => OverlapsSeen
  BY DEF Init, OverlapsSeen, Alive
<1>2. TypeOK /\ OverlapsSeen /\ [Next]_vars => OverlapsSeen'
  <2> SUFFICES ASSUME TypeOK, OverlapsSeen, [Next]_vars PROVE OverlapsSeen'
    OBVIOUS
  <2> USE DEF OverlapsSeen
  <2>1. ASSUME NEW p \in Procs, StartProcess(p) PROVE OverlapsSeen'
    <3> DEFINE others == {q \in Procs : Alive(q)}
    <3> SUFFICES ASSUME NEW q \in Procs, NEW r \in Procs, q # r,
                        Alive(q)', Alive(r)'
                 PROVE  overlapped'[q]
      OBVIOUS
    <3>1. \A s \in Procs \ {p} : Alive(s)' <=> Alive(s)
      BY <2>1 DEF StartProcess, Alive, TypeOK
    <3>2. overlapped'[q] = (overlapped[q] \/ q \in others
                            \/ (q = p /\ others # {}))
      BY <2>1, Zenon DEF StartProcess
    <3>3. CASE q = p
      BY <3>1, <3>2, <3>3
    <3>4. CASE q # p
      BY <3>1, <3>2, <3>4
    <3>5. QED
      BY <3>3, <3>4
  <2>2. ASSUME \A q \in Procs : Alive(q)' => Alive(q), UNCHANGED overlapped
        PROVE  OverlapsSeen'
    BY <2>2
  <2>3. ASSUME NEW p \in Procs, AuthorizerReady(p) PROVE OverlapsSeen'
    BY <2>2, <2>3 DEF AuthorizerReady, Alive, TypeOK
  <2>4. ASSUME NEW p \in Procs, Die(p) PROVE OverlapsSeen'
    BY <2>2, <2>4 DEF Die, Alive, TypeOK
  <2>5. ASSUME NEW p \in Procs, End(p) PROVE OverlapsSeen'
    BY <2>2, <2>5 DEF End, Alive, TypeOK
  <2>6. ASSUME NEW p \in Procs, NEW n \in Names, ListenFails(p, n)
        PROVE  OverlapsSeen'
    BY <2>2, <2>6 DEF ListenFails, Alive, TypeOK
  <2>7. ASSUME phase' = phase, UNCHANGED overlapped PROVE OverlapsSeen'
    BY <2>2, <2>7, AliveStays
  <2>8. QED
    BY <2>1, <2>3, <2>4, <2>5, <2>6, <2>7
    DEF Next, ProcessStep, ServeStep, Signal, Listen, CloseServer, ServerClosed,
        ClientConnects, ClientsLeave, Prompt, PromptAnswered, vars
<1>3. QED
  BY <1>1, <1>2, LifecycleTypeCorrect, PTL DEF Spec

-----------------------------------------------------------------------------
\* Reachable: a process that no other overlapped is reached at both paths while
\* it listens, whatever killed processes left there.  Only a process that runs
\* takes or removes a path, and with two that run the first is overlapped.
THEOREM AloneIsReachable == Spec => []Reachable
<1>1. Init => Reachable
  BY DEF Init, Reachable
<1>2. TypeOK /\ OverlapsSeen /\ OverlapsSeen' /\ Reachable /\ [Next]_vars => Reachable'
  <2> SUFFICES ASSUME TypeOK, OverlapsSeen, OverlapsSeen', Reachable, [Next]_vars,
                      NEW p \in Procs, NEW n \in Names,
                      serve'[p][n] = "listening", ~overlapped'[p]
               PROVE  sock'[n] = p
    BY DEF Reachable
  <2> USE DEF TypeOK, Reachable
  <2>1. ASSUME serve[p][n] = "listening", ~overlapped[p], sock' = sock
        PROVE  sock'[n] = p
    BY <2>1
  <2>2. ASSUME NEW q \in Procs, StartProcess(q) PROVE sock'[n] = p
    <3>1. overlapped[p] => overlapped'[p]
      BY <2>2, Zenon DEF StartProcess
    <3>2. QED
      BY <2>1, <2>2, <3>1 DEF StartProcess
  <2>3. ASSUME NEW q \in Procs, AuthorizerReady(q) \/ Signal(q) \/ Die(q) \/ End(q)
        PROVE  sock'[n] = p
    <3>1. UNCHANGED <<sock, overlapped>>
      BY <2>3 DEF AuthorizerReady, Signal, Die, End
    <3>2. serve[p][n] = "listening"
      <4>1. CASE Die(q)
        BY <4>1 DEF Die
      <4>2. CASE UNCHANGED serve
        BY <4>2
      <4>3. QED
        BY <2>3, <4>1, <4>2 DEF AuthorizerReady, Signal, End
    <3>3. QED
      BY <2>1, <3>1, <3>2
  <2>4. ASSUME NEW q \in Procs, NEW m \in Names,
               \/ CloseServer(q, m)
               \/ ClientConnects(q, m) \/ ClientsLeave(q, m)
               \/ Prompt(q, m) \/ PromptAnswered(q, m)
        PROVE  sock'[n] = p
    <3>1. UNCHANGED <<sock, overlapped>>
      BY <2>4 DEF CloseServer, ClientConnects, ClientsLeave, Prompt, PromptAnswered
    <3>2. serve[p][n] = "listening"
      <4>1. CASE CloseServer(q, m)
        BY <4>1 DEF CloseServer
      <4>2. CASE UNCHANGED serve
        BY <4>2
      <4>3. QED
        BY <2>4, <4>1, <4>2 DEF ClientConnects, ClientsLeave, Prompt, PromptAnswered
    <3>3. QED
      BY <2>1, <3>1, <3>2
  <2>5. ASSUME NEW q \in Procs, NEW m \in Names, Listen(q, m) PROVE sock'[n] = p
    <3>1. CASE q = p /\ m = n
      BY <2>5, <3>1 DEF Listen
    <3>2. CASE q # p
      <4>1. Alive(p) /\ Alive(q)
        BY <2>5, <3>2 DEF Listen, Alive
      <4>2. QED
        BY <2>5, <3>2, <4>1 DEF Listen, OverlapsSeen
    <3>3. CASE q = p /\ m # n
      BY <2>5, <3>3 DEF Listen
    <3>4. QED
      BY <3>1, <3>2, <3>3
  <2>6. ASSUME NEW q \in Procs, NEW m \in Names, ServerClosed(q, m)
        PROVE  sock'[n] = p
    <3>1. CASE q # p
      <4>1. Alive(p) /\ Alive(q)
        BY <2>6, <3>1 DEF ServerClosed, Alive
      <4>2. QED
        BY <2>6, <3>1, <4>1 DEF ServerClosed, OverlapsSeen
    <3>2. CASE q = p
      BY <2>6, <3>2 DEF ServerClosed, Unlinked
    <3>3. QED
      BY <3>1, <3>2
  <2>7. ASSUME NEW q \in Procs, NEW m \in Names, ListenFails(q, m)
        PROVE  sock'[n] = p
    <3>1. q # p
      BY <2>7 DEF ListenFails
    <3>2. Alive(p) /\ Alive(q) /\ ~overlapped[p]
      BY <2>7, <3>1 DEF ListenFails, Alive
    <3>3. QED
      BY <3>1, <3>2 DEF OverlapsSeen
  <2>8. CASE UNCHANGED vars
    BY <2>1, <2>8 DEF vars
  <2>9. QED
    BY <2>2, <2>3, <2>4, <2>5, <2>6, <2>7, <2>8 DEF Next, ProcessStep, ServeStep
<1>3. QED
  BY <1>1, <1>2, LifecycleTypeCorrect, OverlapRecorded, PTL DEF Spec

-----------------------------------------------------------------------------
\* ServersOver is inductive with the types.
LEMMA ServersOverStep == TypeOK /\ ServersOver /\ [Next]_vars => ServersOver'
<1> SUFFICES ASSUME TypeOK, ServersOver, [Next]_vars PROVE ServersOver'
  OBVIOUS
<1> USE LifecycleAssumption DEF TypeOK, ServersOver
<1>1. CASE UNCHANGED vars
  BY <1>1 DEF vars
<1>2. ASSUME NEW p \in Procs, StartProcess(p) PROVE ServersOver'
  BY <1>2 DEF StartProcess
<1>3. ASSUME NEW p \in Procs, AuthorizerReady(p) \/ Signal(p) PROVE ServersOver'
  BY <1>3 DEF AuthorizerReady, Signal
<1>4. ASSUME NEW p \in Procs, Die(p) PROVE ServersOver'
  BY <1>4 DEF Die, Alive
<1>5. ASSUME NEW p \in Procs, End(p) PROVE ServersOver'
  BY <1>5 DEF End
<1>6. ASSUME NEW p \in Procs, NEW n \in Names, Listen(p, n) PROVE ServersOver'
  BY <1>6 DEF Listen
<1>7. ASSUME NEW p \in Procs, NEW n \in Names, ListenFails(p, n) PROVE ServersOver'
  <2>1. \A m \in Names : sock'[m] \in {sock[m], NoProc, p}
    <3>1. \A m \in Names : LeftAt(p, m) \subseteq {sock[m], NoProc, p}
      BY DEF LeftAt
    <3>2. QED
      BY <1>7, <3>1 DEF ListenFails, Names
  <2>2. QED
    BY <1>7, <2>1 DEF ListenFails
<1>8. ASSUME NEW p \in Procs, NEW n \in Names, CloseServer(p, n) PROVE ServersOver'
  BY <1>8 DEF CloseServer
<1>9. ASSUME NEW p \in Procs, NEW n \in Names, ServerClosed(p, n) PROVE ServersOver'
  BY <1>9 DEF ServerClosed, Unlinked
<1>10. ASSUME NEW p \in Procs, NEW n \in Names,
              \/ ClientConnects(p, n) \/ ClientsLeave(p, n)
              \/ Prompt(p, n) \/ PromptAnswered(p, n)
       PROVE  ServersOver'
  BY <1>10 DEF ClientConnects, ClientsLeave, Prompt, PromptAnswered
<1>11. QED
  BY <1>1, <1>2, <1>3, <1>4, <1>5, <1>6, <1>7, <1>8, <1>9, <1>10
  DEF Next, ProcessStep, ServeStep

\* LeavesNothing: a process that ended at a signal has removed its pid file and
\* both its sockets, and no step of a later process brings them back.
THEOREM EndLeavesNothing == Spec => []LeavesNothing
<1> DEFINE PidGone == \A p \in Procs : phase[p] = "ended" => pidFile # p
<1>1. Init => ServersOver /\ PidGone
  BY LifecycleAssumption DEF Init, ServersOver
<1>2. TypeOK /\ PidGone /\ [Next]_vars => PidGone'
  <2> SUFFICES ASSUME TypeOK, PidGone, [Next]_vars PROVE PidGone'
    OBVIOUS
  <2> USE LifecycleAssumption DEF TypeOK
  <2>1. ASSUME NEW p \in Procs, StartProcess(p) PROVE PidGone'
    BY <2>1 DEF StartProcess
  <2>2. ASSUME NEW p \in Procs, AuthorizerReady(p) \/ Die(p) \/ End(p) PROVE PidGone'
    BY <2>2 DEF AuthorizerReady, Die, End
  <2>3. ASSUME NEW p \in Procs, NEW n \in Names, ListenFails(p, n) PROVE PidGone'
    BY <2>3 DEF ListenFails
  <2>4. CASE UNCHANGED <<phase, pidFile>>
    BY <2>4
  <2>5. QED
    BY <2>1, <2>2, <2>3, <2>4
    DEF Next, ProcessStep, ServeStep, Signal, Listen, CloseServer, ServerClosed,
        ClientConnects, ClientsLeave, Prompt, PromptAnswered, vars
<1>3. ServersOver /\ PidGone => LeavesNothing
  BY DEF ServersOver, LeavesNothing
<1>4. QED
  BY <1>1, <1>2, <1>3, ServersOverStep, LifecycleTypeCorrect, PTL DEF Spec
=============================================================================
