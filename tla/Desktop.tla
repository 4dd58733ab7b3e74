------------------------------- MODULE Desktop -------------------------------
(***************************************************************************)
(* The tray and the unlock command on one desktop with the daemon: the     *)
(* tray's menu starts the command, and both go by the daemon's state.      *)
(***************************************************************************)
EXTENDS UnlockCommand, Tray

vars == <<daemon, unlockVars, trayVars>>

Init == DaemonInit /\ UnlockInit /\ TrayInit

\* The user runs bwssh unlock.
RunUnlock == Launch /\ UNCHANGED <<daemon, trayVars>>

\* Unlock in the menu; a command that runs already is left alone.
MenuUnlocks == OnUnlock /\ (Launch \/ UNCHANGED unlockVars)

Next ==
    \/ DaemonChanges /\ UNCHANGED <<unlockVars, trayVars>>
    \/ UnlockStep /\ UNCHANGED trayVars
    \/ TrayStep /\ UNCHANGED unlockVars
    \/ RunUnlock \/ MenuUnlocks

(***************************************************************************)
(* bw has a timeout, threads and main loops go on, the tray's timer fires  *)
(* and the daemon answers requests for its status and its keys at once.    *)
(* Nothing is assumed of the user, nor of the time the daemon takes for an *)
(* unlock, which may wait for a prompt.                                    *)
(***************************************************************************)
Fairness ==
    /\ WF_vars(WorkerStep /\ UNCHANGED <<daemon, trayVars>>)
    /\ WF_vars(LoopStep /\ UNCHANGED <<daemon, trayVars>>)
    /\ WF_vars(Stores /\ UNCHANGED trayVars)
    /\ WF_vars(TrayPoll /\ UNCHANGED unlockVars)

Spec == Init /\ [][Next]_vars
FairSpec == Spec /\ Fairness

-----------------------------------------------------------------------------
(* Properties *)

TypeOK == UnlockTypeOK /\ TrayTypeOK

\* bwssh unlock reports success only when the daemon has accepted the session of
\* its last attempt,
\* or, behind a terminal, when the daemon is unlocked as it asks.
SuccessIsTrue ==
    [][said # "unlocked" /\ said' = "unlocked" =>
         accepted' \/ (ui = "terminal" /\ daemon = "unlocked")]_vars

\* A command whose window has shown the success page does not report a
\* cancellation, whenever the window is closed.
ShownIsSaid == ui \in {"gtk", "tui"} /\ said = "failed" => ~showed

\* The message of a failed attempt stays on the input page until the next one:
\* the callback that resets the page never comes after the one that shows it.
ErrorStays ==
    attempt = "failed" /\ idle = <<>> /\ page = "input" => error

\* The window leaves its loading page, or is waiting for the daemon, or its
\* thread has died of the error it does not handle.
LoadingEnds ==
    page = "loading" ~> page # "loading" \/ worker \in {"asking", "died"}

\* When the daemon stays as it is the tray comes to show it, unless it is
\* closed or its timer is lost.
TrayFollows ==
    \A s \in DaemonStates :
        <>[](daemon = s) => <>[](shown = s) \/ []<>(polling # "on")

-----------------------------------------------------------------------------
(* What a docstring says and the code does not do *)

\* ui/_graphical.py:456, of _run_bw_unlock: "TimeoutError: Command did not finish
\* in time."  The handler of that error leaves the loading page.
LoadingIsLeft == page = "loading" ~> page # "loading" \/ worker = "asking"
=============================================================================
