---------------------------- MODULE DesktopDaemon ----------------------------
(***************************************************************************)
(* The daemon as the programs of the desktop see it, and the exchange of   *)
(* one request with it (ControlClient.send_command of control.py), which   *)
(* has three ends: an answer; an OSError, as nobody listens; or no line at *)
(* all, as the daemon went down meanwhile, and then json.loads raises an   *)
(* error that is neither ControlError nor OSError.                         *)
(***************************************************************************)
VARIABLE daemon

DaemonStates == {"down", "locked", "unlocked"}

DaemonInit == daemon \in DaemonStates

\* It is started, stopped, locked or unlocked by others.
DaemonChanges ==
    /\ daemon' \in DaemonStates \ {daemon}
    /\ ~(daemon = "down" /\ daemon' = "unlocked")

NobodyListens == daemon = "down" /\ UNCHANGED daemon
NoLine == daemon # "down" /\ daemon' = "down"
Answered == daemon # "down" /\ UNCHANGED daemon
=============================================================================
