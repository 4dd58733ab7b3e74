---------------------------- MODULE DesktopProofs ----------------------------
(***************************************************************************)
(* Proofs about Desktop, for any choice of interfaces: the types, and the  *)
(* properties of the unlock command and of the tray that do not depend on  *)
(* fairness.                                                               *)
(***************************************************************************)
EXTENDS Desktop, SequenceTheorems, TLAPS

-----------------------------------------------------------------------------
(* The invariants *)

Busy == {"bw", "asking", "accepted", "stored", "died"}

\* Where a command can be: its window is there from Launch to Returns, and a
\* worker that is busy keeps the window on its loading page.
Places ==
    /\ page = "none" => idle = <<>>
    /\ page = "none" /\ ui # "direct" => worker = "none"
    /\ ui = "direct" => page = "none" /\ result = "none"
                        /\ worker \in {"none", "asking"}
    /\ ui # "gtk" => idle = <<>> /\ worker \notin {"failing", "stored", "died"}
    /\ worker \in Busy /\ ui # "direct" => page \in {"loading", "closed"}
    /\ worker = "failing" => page \in {"input", "loading", "closed"}
    /\ page = "success" => idle = <<>> /\ worker = "none"
    /\ page = "input" => worker \in {"none", "failing"}
    /\ parent # "none" => ui = "terminal"

\* What the queue holds: a page is queued only for a window that is loading (or
\* closed), the input page comes before the error alone, the success page last.
Queue ==
    \A i \in 1..Len(idle) :
        /\ idle[i] # "error" => page \in {"loading", "closed"}
        /\ idle[i] = "input" =>
              /\ worker \in {"none", "failing"}
              /\ \A j \in i+1..Len(idle) : idle[j] = "error"
        /\ idle[i] = "success" => i = Len(idle) /\ worker = "none"

\* A failed attempt has ended its worker, and its error is the last callback.
ErrorComes ==
    attempt = "failed" =>
        /\ worker = "none"
        /\ idle # <<>> => idle[Len(idle)] = "error"
        /\ idle = <<>> /\ page = "input" => error

\* The success page is shown for a session that is stored, and stays stored;
\* only the close handler that looked too early writes over it.
SessionShown ==
    /\ page = "success" => showed
    /\ showed => result = "session" /\ ~closing
                 /\ page \in {"success", "closed", "none"} /\ worker = "none"
    /\ ~closing /\ page # "closed" =>
          /\ worker = "stored" => result = "session"
          /\ \A i \in 1..Len(idle) : idle[i] = "success" => result = "session"
    /\ ui \in {"gtk", "tui"} /\ said # "nothing" =>
          page = "none" /\ (said = "failed" => result # "session")

\* A session is stored, and a worker goes on to store it, only once the daemon
\* has accepted it; the user is not asked for another password after that.
SessionAccepted ==
    /\ result = "session" \/ worker \in {"accepted", "stored"} => accepted
    /\ result = "session" =>
          /\ page # "input" /\ worker \in {"none", "stored"}
          /\ \A i \in 1..Len(idle) : idle[i] # "input"

CommandInv ==
    UnlockTypeOK /\ Places /\ Queue /\ ErrorComes /\ SessionShown /\ SessionAccepted

-----------------------------------------------------------------------------
\* What a callback more, and a callback less, make of the queue.

LEMMA Appended ==
  ASSUME NEW S, NEW q \in Seq(S), NEW x \in S
  PROVE  /\ Append(q, x) \in Seq(S)
         /\ Len(Append(q, x)) = Len(q) + 1 /\ Len(q) \in Nat
         /\ \A i \in 1..Len(q) : Append(q, x)[i] = q[i]
         /\ Append(q, x)[Len(q) + 1] = x
         /\ Append(q, x) # <<>>
BY AppendProperties

LEMMA Tailed ==
  ASSUME NEW S, NEW q \in Seq(S), q # <<>>
  PROVE  /\ Tail(q) \in Seq(S)
         /\ Len(Tail(q)) = Len(q) - 1 /\ Len(q) \in Nat /\ Len(q) >= 1
         /\ \A i \in 1..(Len(q) - 1) : Tail(q)[i] = q[i + 1]
         /\ Head(q) = q[1] /\ Head(q) \in S
         /\ Tail(q) = <<>> => Len(q) = 1
<1>1. Len(q) \in Nat /\ Len(q) >= 1
  BY EmptySeq
<1>2. Tail(q) \in Seq(S) /\ Len(Tail(q)) = Len(q) - 1
  BY HeadTailProperties
<1>3. \A i \in 1..(Len(q) - 1) : Tail(q)[i] = q[i + 1]
  OBVIOUS
<1>4. Head(q) = q[1] /\ Head(q) \in S
  BY <1>1
<1>5. ASSUME Tail(q) = <<>> PROVE Len(q) = 1
  <2>1. Len(<<>>) = 0
    BY EmptySeq
  <2>2. Len(Tail(q)) = 0
    BY <1>5, <2>1, Zenon
  <2>3. Len(q) - 1 = 0
    BY <1>2, <2>2, Zenon
  <2>4. QED
    BY <1>1, <2>3
<1>6. QED
  BY <1>1, <1>2, <1>3, <1>4, <1>5

-----------------------------------------------------------------------------
\* The command: CommandInv is inductive.

\* What the handlers of the worker's exceptions do to it.
LEMMA FailsStep ==
  ASSUME CommandInv, Fails, worker \in {"bw", "asking", "accepted"},
         ui # "direct",
         UNCHANGED <<ui, parent, closing, result, said, accepted, showed>>
  PROVE  CommandInv'
<1> USE DEF CommandInv
<1>1. CASE ui = "gtk"
  <2>1. /\ worker' = "failing" /\ idle' = Append(idle, "input")
        /\ UNCHANGED <<page, error, attempt>>
    BY <1>1 DEF Fails
  <2>2. /\ idle' \in Seq({"input", "error", "loading", "success"})
        /\ Len(idle') = Len(idle) + 1 /\ Len(idle) \in Nat
        /\ \A i \in 1..Len(idle) : idle'[i] = idle[i]
        /\ idle'[Len(idle) + 1] = "input"
        /\ idle' # <<>>
    BY <2>1, Appended DEF UnlockTypeOK
  <2>3. UnlockTypeOK'
    BY <2>1, <2>2 DEF UnlockTypeOK
  <2>4. Places'
    BY <1>1, <2>1 DEF UnlockTypeOK, Places, Busy
  <2>5. \A i \in 1..Len(idle) : idle[i] \notin {"input", "success"}
    BY DEF Queue
  <2>6. Queue'
    BY <1>1, <2>1, <2>2, <2>5 DEF UnlockTypeOK, Places, Queue, Busy
  <2>7. ErrorComes'
    BY <2>1 DEF ErrorComes
  <2>8. SessionShown'
    BY <1>1, <2>1, <2>2, <2>5 DEF UnlockTypeOK, Places, SessionShown, Busy
  <2>9. SessionAccepted'
    BY <2>1 DEF SessionAccepted
  <2>10. QED
    BY <2>3, <2>4, <2>6, <2>7, <2>8, <2>9
<1>2. CASE ui # "gtk"
  BY <1>2, EmptySeq
  DEF Fails, Page, UnlockTypeOK, Places, Busy, Queue, ErrorComes, SessionShown,
      SessionAccepted
<1>3. QED
  BY <1>1, <1>2


\* What a callback at the end of the queue does to it.
LEMMA AppendStep ==
  ASSUME CommandInv, NEW b \in {"error", "loading", "success"},
         idle' = Append(idle, b),
         \/ b = "loading" /\ BwUnlocks
         \/ b = "error" /\ Failed
         \/ b = "success" /\ ThreadEnds,
         ui = "gtk"
  PROVE  CommandInv'
<1> USE DEF CommandInv
<1>1. /\ idle' \in Seq({"input", "error", "loading", "success"})
      /\ Len(idle') = Len(idle) + 1 /\ Len(idle) \in Nat
      /\ \A i \in 1..Len(idle) : idle'[i] = idle[i]
      /\ idle'[Len(idle) + 1] = b
      /\ idle' # <<>>
  BY Appended DEF UnlockTypeOK
<1>2. UnlockTypeOK'
  BY <1>1 DEF BwUnlocks, Failed, ThreadEnds, UnlockTypeOK, Places, Busy
<1>3. Places'
  BY DEF BwUnlocks, Failed, ThreadEnds, UnlockTypeOK, Places, Busy
<1>4. Queue'
  <2>1. CASE b = "loading" /\ BwUnlocks
    BY <1>1, <2>1 DEF BwUnlocks, Places, Queue, Busy
  <2>2. CASE b = "error" /\ Failed
    BY <1>1, <2>2 DEF Failed, Places, Queue, Busy
  <2>3. CASE b = "success" /\ ThreadEnds
    BY <1>1, <2>3 DEF ThreadEnds, Places, Queue, Busy
  <2>4. QED
    BY <2>1, <2>2, <2>3
<1>5. ErrorComes'
  BY <1>1 DEF BwUnlocks, Failed, ThreadEnds, ErrorComes
<1>6. SessionShown'
  BY <1>1 DEF BwUnlocks, Failed, ThreadEnds, Places, SessionShown
<1>7. SessionAccepted'
  BY DEF BwUnlocks, Failed, ThreadEnds, SessionAccepted
<1>8. QED
  BY <1>2, <1>3, <1>4, <1>5, <1>6, <1>7

\* What the first callback does to it.
LEMMA RunIdleStep == CommandInv /\ RunIdle => CommandInv'
<1> SUFFICES ASSUME CommandInv, RunIdle PROVE CommandInv'
  OBVIOUS
<1> USE DEF CommandInv, RunIdle
<1>1. /\ idle' \in Seq({"input", "error", "loading", "success"})
      /\ Len(idle') = Len(idle) - 1 /\ Len(idle) \in Nat /\ Len(idle) >= 1
      /\ \A i \in 1..(Len(idle) - 1) : idle'[i] = idle[i + 1]
      /\ Head(idle) = idle[1]
      /\ Head(idle) \in {"input", "error", "loading", "success"}
      /\ idle' = <<>> => Len(idle) = 1
  BY Tailed DEF UnlockTypeOK
<1>2. ui = "gtk" /\ page # "success"
  BY DEF Places
<1>3. UnlockTypeOK'
  <2>1. error' \in BOOLEAN
    BY <1>1 DEF UnlockTypeOK
  <2>2. showed' \in BOOLEAN
    BY Zenon
  <2>3. page' = page \/ page' \in {"input", "loading", "success"}
    BY <1>1
  <2>4. worker = "bw" => page' \in {"loading", "closed"}
    BY <1>1 DEF Places, Queue, Busy
  <2>5. page' \notin {"none", "closed"}
    BY <2>3
  <2>6. UnlockTypeOK /\ ~closing
    OBVIOUS
  <2>7. /\ ui' = ui /\ parent' = parent /\ worker' = worker /\ closing' = closing
        /\ result' = result /\ said' = said /\ attempt' = attempt
        /\ accepted' = accepted
    OBVIOUS
  <2>8. page' \in {"none", "input", "loading", "success", "closed"}
    BY <2>3, <2>6 DEF UnlockTypeOK
  <2> HIDE DEF CommandInv, RunIdle
  <2>9. QED
    BY <1>1, <2>1, <2>2, <2>4, <2>6, <2>7, <2>8 DEF UnlockTypeOK
<1>4. Head(idle) = "success" =>
        idle' = <<>> /\ worker = "none" /\ result = "session"
  BY <1>1, EmptySeq DEF Queue, SessionShown
<1>5. Places'
  BY <1>1, <1>2, <1>4 DEF Places, Queue, Busy
<1>6. Queue'
  BY <1>1, <1>2 DEF Queue
<1>7. ErrorComes'
  BY <1>1 DEF ErrorComes
<1>8. SessionShown'
  <2>1. showed' <=> showed \/ page' = "success"
    OBVIOUS
  <2>2. ~showed
    BY <1>2 DEF SessionShown
  <2>3. page' = "success" => Head(idle) = "success"
    BY <1>2
  <2>4. /\ page' = "success" => showed'
        /\ showed' => result = "session" /\ ~closing
                     /\ page' \in {"success", "closed", "none"} /\ worker = "none"
    BY <1>4, <2>1, <2>2, <2>3
  <2>5. \A i \in 1..Len(idle') : idle'[i] = "success" => result = "session"
    BY <1>1 DEF SessionShown
  <2>6. QED
    BY <2>4, <2>5 DEF SessionShown
<1>9. SessionAccepted'
  BY DEF SessionAccepted
<1>10. QED
  BY <1>3, <1>5, <1>6, <1>7, <1>8, <1>9


\* Every step of the command, or of the user with it.
LEMMA CommandStep == CommandInv /\ (UnlockStep \/ Launch) => CommandInv'
<1> SUFFICES ASSUME CommandInv, UnlockStep \/ Launch PROVE CommandInv'
  OBVIOUS
<1> USE UnlockAssumption, EmptySeq
    DEF CommandInv, UnlockTypeOK, Places, Busy, Queue, ErrorComes, SessionShown,
        SessionAccepted
<1>1. CASE Launch
  BY <1>1 DEF Launch
<1>2. CASE Submit
  BY <1>2 DEF Submit
<1>3. CASE SubmitEmpty
  BY <1>3 DEF SubmitEmpty
<1>4. CASE Accepts
  BY <1>4 DEF Accepts
<1>5. CASE DirectAnswer
  BY <1>5 DEF DirectAnswer
<1>6. CASE Stores
  <2>1. ~showed /\ ui # "direct" /\ page \in {"loading", "closed"}
    BY <1>6 DEF Stores
  <2>2. showed' <=> page' = "success"
    BY <1>6, <2>1 DEF Stores
  <2>3. showed' \in BOOLEAN
    BY <1>6, Zenon DEF Stores
  <2>4. CASE ui = "gtk"
    BY <1>6, <2>1, <2>2, <2>3, <2>4 DEF Stores
  <2>5. CASE ui # "gtk"
    BY <1>6, <2>1, <2>2, <2>3, <2>5 DEF Stores, Page
  <2>6. QED
    BY <2>4, <2>5
<1>7. CASE CloseLooks
  BY <1>7 DEF CloseLooks
<1>8. CASE CloseCancels
  BY <1>8 DEF CloseCancels
<1>9. CASE CloseScreen
  BY <1>9 DEF CloseScreen
<1>10. CASE Returns
  BY <1>10 DEF Returns
<1>11. CASE TerminalEnds
  BY <1>11 DEF TerminalEnds
<1>12. CASE Checks
  BY <1>12 DEF Checks
<1>13. CASE BwFails \/ Refuses \/ KeysLost
  BY <1>13, FailsStep DEF BwFails, Refuses, KeysLost
<1>14. CASE BwTimesOut
  <2>1. CASE ui = "gtk"
    BY <1>14, <2>1 DEF BwTimesOut
  <2>2. CASE ui # "gtk"
    BY <1>14, <2>2, FailsStep DEF BwTimesOut
  <2>3. QED
    BY <2>1, <2>2
<1>15. CASE BwUnlocks
  <2>1. CASE ui = "gtk"
    BY <1>15, <2>1, AppendStep DEF BwUnlocks
  <2>2. CASE ui # "gtk"
    BY <1>15, <2>2 DEF BwUnlocks
  <2>3. QED
    BY <2>1, <2>2
<1>16. CASE Failed \/ ThreadEnds
  BY <1>16, AppendStep DEF Failed, ThreadEnds
<1>17. CASE RunIdle
  BY <1>17, RunIdleStep
<1>18. QED
  BY <1>1, <1>2, <1>3, <1>4, <1>5, <1>6, <1>7, <1>8, <1>9,
     <1>10, <1>11, <1>12, <1>13, <1>14, <1>15, <1>16, <1>17
  DEF UnlockStep, WorkerStep, LoopStep, UserStep, AskStep
-----------------------------------------------------------------------------
\* The tray: its type invariant needs the daemon's states, and that a poll or a
\* request runs only in a process.
TrayInv ==
    /\ daemon \in DaemonStates
    /\ TrayTypeOK
    /\ caller # "nobody" => tray = "on"

LEMMA TrayInvStep == TrayInv /\ [Next]_vars => TrayInv'
<1> SUFFICES ASSUME TrayInv, [Next]_vars PROVE TrayInv'
  OBVIOUS
<1> USE DEF TrayInv, TrayTypeOK, DaemonStates
<1>1. CASE UNCHANGED trayVars
  <2>1. daemon' \in DaemonStates
    BY <1>1
    DEF Next, vars, DaemonChanges, UnlockStep, AskStep, Accepts, Refuses,
        DirectAnswer, KeysLost, Stores, Checks, Answered, NobodyListens, NoLine,
        TrayStep, TrayStart, TrayPoll, PeriodicPoll, OneshotPoll, Status,
        StatusLost, Show, OnLock, OnSync, OnItemLost, OnQuit, RunUnlock,
        MenuUnlocks, OnUnlock
  <2>2. QED
    BY <1>1, <2>1 DEF trayVars
<1>2. CASE TrayStart \/ PeriodicPoll \/ OneshotPoll
  BY <1>2 DEF TrayStart, NoOtherTray, PeriodicPoll, OneshotPoll, Idle
<1>3. CASE Status
  BY <1>3 DEF Status, Answered, NobodyListens
<1>4. CASE StatusLost
  BY <1>4 DEF StatusLost, NoLine, TrayGone
<1>5. CASE Show
  BY <1>5 DEF Show
<1>6. CASE OnLock \/ OnSync \/ OnUnlock
  BY <1>6 DEF OnLock, OnSync, OnUnlock, Idle, Answered, NobodyListens
<1>7. CASE OnItemLost
  BY <1>7 DEF OnItemLost, NoLine, trayVars
<1>8. CASE OnQuit
  BY <1>8 DEF OnQuit, TrayGone
<1>9. QED
  BY <1>1, <1>2, <1>3, <1>4, <1>5, <1>6, <1>7, <1>8
  DEF Next, vars, TrayStep, TrayPoll, RunUnlock, MenuUnlocks

-----------------------------------------------------------------------------
\* The theorems.

\* CommandInv holds in every state, whatever the tray and the daemon do.
THEOREM CommandInvariant == Spec => []CommandInv
<1>1. Init => CommandInv
  <2> SUFFICES ASSUME UnlockInit PROVE CommandInv
    BY DEF Init
  <2> USE DEF UnlockInit
  <2>1. UnlockTypeOK
    BY EmptySeq DEF UnlockTypeOK
  <2>2. Len(idle) = 0
    BY EmptySeq
  <2>3. Places /\ ErrorComes /\ SessionAccepted
    BY DEF Places, Busy, ErrorComes, SessionAccepted
  <2>4. Queue /\ SessionShown
    BY <2>2 DEF Queue, SessionShown
  <2>5. QED
    BY <2>1, <2>3, <2>4 DEF CommandInv
<1>2. CommandInv /\ [Next]_vars => CommandInv'
  <2>1. CommandInv /\ UNCHANGED unlockVars => CommandInv'
    BY DEF CommandInv, UnlockTypeOK, Places, Busy, Queue, ErrorComes, SessionShown,
           SessionAccepted, unlockVars
  <2>2. QED
    BY <2>1, CommandStep DEF Next, RunUnlock, MenuUnlocks, vars
<1>3. QED
  BY <1>1, <1>2, PTL DEF Spec

\* TrayInv holds in every state, whatever the command and the daemon do.
THEOREM TrayInvariant == Spec => []TrayInv
<1>1. Init => TrayInv
  BY DEF Init, DaemonInit, TrayInit, TrayInv, TrayTypeOK, DaemonStates
<1>2. QED
  BY <1>1, TrayInvStep, PTL DEF Spec

\* TypeOK: the command and the tray keep their types; the worker waits for bw
\* only behind a loading page, and the tray's timer runs only in a process.
THEOREM DesktopTypeCorrect == Spec => []TypeOK
<1>1. CommandInv /\ TrayInv => TypeOK
  BY DEF CommandInv, TrayInv, TypeOK
<1>2. QED
  BY <1>1, CommandInvariant, TrayInvariant, PTL

\* ShownIsSaid: a command whose window has shown the success page does not
\* report a failure, whatever moment the window is closed at.
THEOREM SuccessShownIsSaid == Spec => []ShownIsSaid
<1>1. CommandInv => ShownIsSaid
  BY DEF CommandInv, SessionShown, ShownIsSaid
<1>2. QED
  BY <1>1, CommandInvariant, PTL

\* ErrorStays: the callback that resets the page never comes after the one that
\* shows the error of the last attempt.
THEOREM ErrorIsShown == Spec => []ErrorStays
<1>1. CommandInv => ErrorStays
  BY DEF CommandInv, ErrorComes, ErrorStays
<1>2. QED
  BY <1>1, CommandInvariant, PTL

\* SuccessIsTrue: the command reports success only for a session the daemon has
\* accepted, or, behind a terminal, when it finds the daemon unlocked.
THEOREM SuccessReported == Spec => SuccessIsTrue
<1>1. CommandInv /\ [Next]_vars =>
        (said # "unlocked" /\ said' = "unlocked" =>
           accepted' \/ (ui = "terminal" /\ daemon = "unlocked"))
  <2> SUFFICES ASSUME CommandInv, [Next]_vars,
                      said # "unlocked", said' = "unlocked"
               PROVE  accepted' \/ (ui = "terminal" /\ daemon = "unlocked")
    OBVIOUS
  <2>1. CASE DirectAnswer
    BY <2>1 DEF DirectAnswer
  <2>2. CASE Returns
    BY <2>2 DEF Returns, CommandInv, SessionAccepted
  <2>3. CASE Checks
    BY <2>3 DEF Checks, Answered, NobodyListens, NoLine, CommandInv, Places
  <2>4. CASE UNCHANGED said
    BY <2>4
  <2>5. CASE Launch
    BY <2>5 DEF Launch
  <2>6. CASE TerminalEnds
    BY <2>6 DEF TerminalEnds
  <2>7. QED
    BY <2>1, <2>2, <2>3, <2>4, <2>5, <2>6
    DEF Next, vars, unlockVars, UnlockStep, WorkerStep, LoopStep, UserStep, AskStep,
        Submit, SubmitEmpty, BwUnlocks, BwFails, BwTimesOut, Failed, ThreadEnds,
        RunIdle, CloseLooks, CloseCancels, CloseScreen, Accepts, Refuses,
        KeysLost, Stores, RunUnlock, MenuUnlocks
<1>2. QED
  BY <1>1, CommandInvariant, PTL DEF Spec, SuccessIsTrue
=============================================================================
