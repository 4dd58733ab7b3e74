-------------------------------- MODULE Tray --------------------------------
(***************************************************************************)
(* The tray icon (tray.py, and tray of cli.py, whose lock lets one run at  *)
(* a time).  Everything runs in the GTK main loop: a poll or a menu item   *)
(* blocks it until the daemon has answered.  An error that _do_poll does   *)
(* not handle ends the process when it comes from run(), and otherwise the *)
(* callback it comes from: GLib then removes the timer, as the callback    *)
(* has not returned True.                                                  *)
(***************************************************************************)
EXTENDS DesktopDaemon

VARIABLES
    tray,      \* the process
    polling,   \* the periodic timer
    oneshot,   \* a timer for one poll is set
    shown,     \* _connected and _locked, and so the icon and the menu
    answer,    \* what the poll or the request that runs has got
    caller     \* who called it

trayVars == <<tray, polling, oneshot, shown, answer, caller>>

TrayTypeOK ==
    /\ tray \in {"off", "on"}
    /\ polling \in {"none", "on", "lost"}
    /\ oneshot \in BOOLEAN
    /\ shown \in DaemonStates
    /\ answer \in DaemonStates \cup {"none"}
    /\ caller \in {"nobody", "run", "periodic", "oneshot", "menu"}
    /\ answer # "none" => caller # "nobody"
    /\ polling # "none" => tray = "on"

TrayInit ==
    /\ tray = "off" /\ polling = "none" /\ oneshot = FALSE
    /\ shown = "down"
    /\ answer = "none" /\ caller = "nobody"

Idle == tray = "on" /\ caller = "nobody"

\* The process ends; the next one starts afresh.
TrayGone ==
    /\ tray' = "off" /\ polling' = "none" /\ oneshot' = FALSE
    /\ shown' = "down"
    /\ answer' = "none" /\ caller' = "nobody"

-----------------------------------------------------------------------------
\* The lock on tray.lock, which a process holds until it ends.
NoOtherTray == tray = "off"

\* run() polls once before it sets the timer.
TrayStart ==
    /\ NoOtherTray
    /\ tray' = "on" /\ caller' = "run"
    /\ UNCHANGED <<daemon, polling, oneshot, shown, answer>>

PeriodicPoll ==
    /\ Idle /\ polling = "on"
    /\ caller' = "periodic"
    /\ UNCHANGED <<daemon, tray, polling, oneshot, shown, answer>>

OneshotPoll ==
    /\ Idle /\ oneshot
    /\ caller' = "oneshot"
    /\ oneshot' = FALSE
    /\ UNCHANGED <<daemon, tray, polling, shown, answer>>

\* Mutant: only a daemon that answers changes what is shown.
StatusKept ==
    /\ caller # "nobody" /\ answer = "none"
    /\ Answered \/ NobodyListens
    /\ answer' = IF daemon = "down" THEN shown ELSE daemon
    /\ UNCHANGED <<tray, polling, oneshot, shown, caller>>

\* _do_poll asks for the status; an OSError counts as a daemon that is down.
Status ==
    /\ caller # "nobody" /\ answer = "none"
    /\ Answered \/ NobodyListens
    /\ answer' = daemon
    /\ UNCHANGED <<tray, polling, oneshot, shown, caller>>

\* _do_poll, with an error that is not handled.
StatusLost ==
    /\ caller # "nobody" /\ answer = "none"
    /\ NoLine
    /\ \/ caller = "run" /\ TrayGone
       \/ /\ caller # "run"
          /\ polling' = IF caller = "periodic" THEN "lost" ELSE polling
          /\ caller' = "nobody"
          /\ UNCHANGED <<tray, oneshot, shown, answer>>

\* The icon and the menu follow the answer; the notification of a change is
\* optional, and its failure swallowed (tray.py:289, 330): it is left out.
Show ==
    /\ answer # "none"
    /\ shown' = answer
    /\ polling' = IF caller = "run" THEN "on" ELSE polling
    /\ answer' = "none" /\ caller' = "nobody"
    /\ UNCHANGED <<daemon, tray, oneshot>>

-----------------------------------------------------------------------------
\* The menu, built from what is shown; all but Quit.
MenuItems ==
    CASE shown = "down" -> {}
      [] shown = "locked" -> {"unlock"}
      [] shown = "unlocked" -> {"lock", "sync"}

\* The command that is started may fail to start, and the poll comes anyway.
OnUnlock ==
    /\ Idle /\ "unlock" \in MenuItems
    /\ oneshot' = TRUE
    /\ UNCHANGED <<daemon, tray, polling, shown, answer, caller>>

\* The request is answered or fails, and a poll follows.
OnLock ==
    /\ Idle /\ "lock" \in MenuItems
    /\ caller' = "menu"
    /\ daemon' = IF daemon = "down" THEN "down" ELSE "locked"
    /\ UNCHANGED <<tray, polling, oneshot, shown, answer>>

OnSync ==
    /\ Idle /\ "sync" \in MenuItems
    /\ caller' = "menu"
    /\ Answered \/ NobodyListens
    /\ UNCHANGED <<tray, polling, oneshot, shown, answer>>

\* An error of the request that is not handled: no poll follows.
OnItemLost ==
    /\ Idle /\ {"lock", "sync"} \cap MenuItems # {}
    /\ NoLine
    /\ UNCHANGED trayVars

OnQuit ==
    /\ Idle
    /\ TrayGone
    /\ UNCHANGED daemon

-----------------------------------------------------------------------------
TrayPoll == PeriodicPoll \/ OneshotPoll \/ Status \/ StatusLost \/ Show

TrayStep == TrayStart \/ TrayPoll \/ OnLock \/ OnSync \/ OnItemLost \/ OnQuit
=============================================================================
