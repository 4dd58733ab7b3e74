---------------------------- MODULE UnlockCommand ----------------------------
(***************************************************************************)
(* The command bwssh unlock (cli.py) with each of its interfaces           *)
(* (ui/_graphical.py, ui/_tui.py, ui/_terminal.py), or with a session it   *)
(* is given.  The graphical window works in a thread, which hands what it  *)
(* has to show to GLib's queue of idle callbacks and writes the result     *)
(* itself; the TUI works in the task it shows things from; the terminal    *)
(* interface runs a second bwssh unlock with the TUI in a terminal.  One   *)
(* command runs at a time.                                                 *)
(***************************************************************************)
EXTENDS Sequences, DesktopDaemon

CONSTANT Uis  \* interfaces that are available; "direct" is a given session

ASSUME UnlockAssumption == Uis \subseteq {"gtk", "tui", "terminal", "direct"}

VARIABLES
    ui,        \* the interface of the command
    parent,    \* the terminal interface: waiting for its terminal, or checking
    page,      \* what the window or the TUI shows
    error,     \* its error label is visible
    worker,    \* where the thread or the worker task is
    idle,      \* callbacks the thread has handed to the main loop
    closing,   \* the close handler has seen that there is no session yet
    result,    \* the UnlockResult
    said,      \* how the command ended
    attempt,   \* ghost: how the last password was received
    accepted,  \* ghost: the daemon has accepted the session of the last attempt
    showed     \* ghost: the success page was shown

unlockVars == <<ui, parent, page, error, worker, idle, closing, result, said,
                attempt, accepted, showed>>

UnlockTypeOK ==
    /\ ui \in Uis
    /\ parent \in {"none", "waiting", "checking"}
    /\ page \in {"none", "input", "loading", "success", "closed"}
    /\ worker \in {"none", "bw", "asking", "accepted", "stored", "failing", "died"}
    /\ idle \in Seq({"input", "error", "loading", "success"})
    /\ result \in {"none", "cancelled", "session"}
    /\ said \in {"nothing", "unlocked", "failed"}
    /\ attempt \in {"none", "running", "failed"}
    /\ error \in BOOLEAN /\ closing \in BOOLEAN
    /\ accepted \in BOOLEAN /\ showed \in BOOLEAN
    /\ closing => ui = "gtk" /\ page \notin {"none", "closed"}
    /\ worker = "bw" => page \in {"loading", "closed"}

UnlockInit ==
    /\ ui \in Uis
    /\ parent = "none" /\ page = "none" /\ worker = "none"
    /\ idle = <<>>
    /\ result = "none" /\ said = "nothing" /\ attempt = "none"
    /\ error = FALSE /\ closing = FALSE /\ accepted = FALSE /\ showed = FALSE

-----------------------------------------------------------------------------
\* The command starts, with the interface create_unlock_ui picks for it.
Launch ==
    /\ parent = "none" /\ page = "none" /\ worker = "none"
    /\ ui' \in Uis
    /\ parent' = IF ui' = "terminal" THEN "waiting" ELSE "none"
    /\ page' = IF ui' = "direct" THEN "none" ELSE "input"
    /\ worker' = IF ui' = "direct" THEN "asking" ELSE "none"
    /\ result' = "none" /\ said' = "nothing" /\ attempt' = "none"
    /\ error' = FALSE /\ accepted' = FALSE /\ showed' = FALSE
    /\ UNCHANGED <<idle, closing>>

\* _on_activate and on_input_submitted: the user confirms his password (nobody
\* types it while the thread goes from one statement to the next), ...
Submit ==
    /\ page = "input" /\ ~closing /\ worker = "none"
    /\ page' = "loading"
    /\ worker' = "bw"
    /\ attempt' = "running"
    /\ error' = IF ui = "gtk" THEN error ELSE FALSE
    /\ accepted' = FALSE
    /\ UNCHANGED <<ui, parent, idle, closing, result, said, showed>>

\* ... or an empty one.
SubmitEmpty ==
    /\ page = "input" /\ ~closing
    /\ error' = TRUE
    /\ UNCHANGED <<ui, parent, page, worker, idle, closing, result, said, attempt,
                   accepted, showed>>

-----------------------------------------------------------------------------
\* The worker.  A closed window stays closed.
Page(p) == IF page = "closed" THEN "closed" ELSE p

\* bw unlock has given a session, which goes to the daemon.
BwUnlocks ==
    /\ worker = "bw"
    /\ worker' = "asking"
    /\ idle' = IF ui = "gtk" THEN Append(idle, "loading") ELSE idle
    /\ UNCHANGED <<ui, parent, page, error, closing, result, said, attempt,
                   accepted, showed>>

\* The handlers of the worker's exceptions: back to the input page, then the
\* error.  The thread adds two callbacks, one after the other.
Fails ==
    IF ui = "gtk"
      THEN /\ worker' = "failing"
           /\ idle' = Append(idle, "input")
           /\ UNCHANGED <<page, error, attempt>>
      ELSE /\ worker' = "none"
           /\ page' = Page("input")
           /\ error' = TRUE
           /\ attempt' = "failed"
           /\ UNCHANGED idle

\* bw cannot be run, refuses the password or returns nothing.
BwFails ==
    /\ worker = "bw"
    /\ Fails
    /\ UNCHANGED <<ui, parent, closing, result, said, accepted, showed>>

\* bw does not end within 30 s.  The TUI handles the TimeoutError of wait_for;
\* subprocess.run raises TimeoutExpired, which is none of the exceptions the
\* thread handles.
BwTimesOut ==
    /\ worker = "bw"
    /\ IF ui = "gtk" THEN worker' = "died" /\ UNCHANGED <<page, error, attempt, idle>>
                     ELSE Fails
    /\ UNCHANGED <<ui, parent, closing, result, said, accepted, showed>>

\* Mutant: the error is queued, and shown, before the page.
FailedEarly ==
    /\ worker = "failing"
    /\ worker' = "none"
    /\ idle' = <<"error">> \o idle
    /\ attempt' = "failed"
    /\ UNCHANGED <<ui, parent, page, error, closing, result, said, accepted, showed>>

Failed ==
    /\ worker = "failing"
    /\ worker' = "none"
    /\ idle' = Append(idle, "error")
    /\ attempt' = "failed"
    /\ UNCHANGED <<ui, parent, page, error, closing, result, said, accepted, showed>>

\* The daemon's answer to the unlock: it has loaded the keys, ...
Accepts ==
    /\ worker = "asking" /\ ui # "direct" /\ daemon # "down"
    /\ daemon' = "unlocked"
    /\ worker' = "accepted"
    /\ accepted' = TRUE
    /\ UNCHANGED <<ui, parent, page, error, idle, closing, result, said, attempt,
                   showed>>

\* ... or it refuses, is not there, or goes down.
Refuses ==
    /\ worker = "asking" /\ ui # "direct"
    /\ Answered \/ NobodyListens \/ NoLine
    /\ Fails
    /\ UNCHANGED <<ui, parent, closing, result, said, accepted, showed>>

\* The same for a session the command was given: it ends with the answer.
DirectAnswer ==
    /\ worker = "asking" /\ ui = "direct"
    /\ \/ /\ daemon # "down" /\ daemon' = "unlocked"
          /\ accepted' = TRUE /\ said' = "unlocked"
       \/ /\ Answered \/ NobodyListens \/ NoLine
          /\ accepted' = FALSE /\ said' = "failed"
    /\ worker' = "none"
    /\ UNCHANGED <<ui, parent, page, error, idle, closing, result, attempt, showed>>

\* _send_session asks for the keys, too, and goes on without them when that
\* fails, except when the daemon goes down before it answers.
KeysLost ==
    /\ worker = "accepted"
    /\ NoLine
    /\ Fails
    /\ UNCHANGED <<ui, parent, closing, result, said, accepted, showed>>

\* Mutant: the result is stored by the callback that shows the page.
StoresLate ==
    /\ worker = "accepted"
    /\ UNCHANGED daemon
    /\ worker' = "stored"
    /\ page' = IF ui = "gtk" THEN page ELSE Page("success")
    /\ showed' = (showed \/ page' = "success")
    /\ UNCHANGED <<ui, parent, error, idle, closing, result, said, attempt, accepted>>

Stores ==
    /\ worker = "accepted"
    /\ UNCHANGED daemon
    /\ result' = "session"
    /\ IF ui = "gtk" THEN worker' = "stored" /\ UNCHANGED page
                     ELSE worker' = "none" /\ page' = Page("success")
    /\ showed' = (showed \/ page' = "success")
    /\ UNCHANGED <<ui, parent, error, idle, closing, said, attempt, accepted>>

\* Mutant: the success page is not queued.
ThreadForgets ==
    /\ worker = "stored"
    /\ worker' = "none"
    /\ UNCHANGED <<ui, parent, page, error, idle, closing, result, said, attempt,
                   accepted, showed>>

ThreadEnds ==
    /\ worker = "stored"
    /\ worker' = "none"
    /\ idle' = Append(idle, "success")
    /\ UNCHANGED <<ui, parent, page, error, closing, result, said, attempt,
                   accepted, showed>>

-----------------------------------------------------------------------------
\* The main loop runs a callback: _enter_input, _show_error, _enter_loading or
\* _show_success_page.
RunIdle ==
    /\ idle # <<>> /\ ~closing /\ page \notin {"none", "closed"}
    /\ idle' = Tail(idle)
    /\ page' = IF Head(idle) = "error" THEN page ELSE Head(idle)
    /\ error' = CASE Head(idle) = "input" -> FALSE
                  [] Head(idle) = "error" -> TRUE
                  [] OTHER -> error
    /\ showed' = (showed \/ page' = "success")
    /\ UNCHANGED <<ui, parent, worker, closing, result, said, attempt, accepted>>

\* _on_close_request looks for a session ...
CloseLooks ==
    /\ ui = "gtk" /\ page \notin {"none", "closed"} /\ ~closing
    /\ IF result = "session" THEN page' = "closed" /\ closing' = FALSE
                             ELSE page' = page /\ closing' = TRUE
    /\ UNCHANGED <<ui, parent, error, worker, idle, result, said, attempt,
                   accepted, showed>>

\* ... and stores a cancellation, whatever the thread has stored meanwhile.
CloseCancels ==
    /\ closing
    /\ result' = "cancelled"
    /\ page' = "closed"
    /\ closing' = FALSE
    /\ UNCHANGED <<ui, parent, error, worker, idle, said, attempt, accepted, showed>>

\* action_close_screen of the TUI.
CloseScreen ==
    /\ ui \in {"tui", "terminal"} /\ page \notin {"none", "closed"}
    /\ result' = IF page = "success" THEN result ELSE "cancelled"
    /\ page' = "closed"
    /\ UNCHANGED <<ui, parent, error, worker, idle, closing, said, attempt,
                   accepted, showed>>

\* Mutant: the worker outlives the window.
ReturnsAlone ==
    /\ page = "closed"
    /\ page' = "none" /\ idle' = <<>>
    /\ said' = IF ui = "terminal" THEN said
               ELSE IF result = "session" THEN "unlocked" ELSE "failed"
    /\ UNCHANGED <<ui, parent, error, worker, closing, result, attempt, accepted,
                   showed>>

\* run() returns what the result is then, and the worker ends with the process.
Returns ==
    /\ page = "closed"
    /\ page' = "none" /\ worker' = "none" /\ idle' = <<>>
    /\ said' = IF ui = "terminal" THEN said
               ELSE IF result = "session" THEN "unlocked" ELSE "failed"
    /\ UNCHANGED <<ui, parent, error, closing, result, attempt, accepted, showed>>

\* The terminal has ended, with an exit code that need not be its command's,
\* and a terminal that hands its window to a server ends at once.
TerminalEnds ==
    /\ parent = "waiting"
    /\ \/ parent' = "checking" /\ said' = said
       \/ parent' = "none" /\ said' = "failed"
    /\ UNCHANGED <<ui, page, error, worker, idle, closing, result, attempt,
                   accepted, showed>>

\* Mutant: a terminal that ends well is taken for a success.
ChecksNothing ==
    /\ parent = "checking"
    /\ UNCHANGED daemon
    /\ said' = "unlocked"
    /\ parent' = "none"
    /\ UNCHANGED <<ui, page, error, worker, idle, closing, result, attempt,
                   accepted, showed>>

\* _query_daemon_status.
Checks ==
    /\ parent = "checking"
    /\ Answered \/ NobodyListens \/ NoLine
    /\ said' = IF daemon' = "unlocked" THEN "unlocked" ELSE "failed"
    /\ parent' = "none"
    /\ UNCHANGED <<ui, page, error, worker, idle, closing, result, attempt,
                   accepted, showed>>

-----------------------------------------------------------------------------
\* Steps of the command that leave the daemon alone, and those that ask it.
WorkerStep == BwUnlocks \/ BwFails \/ BwTimesOut \/ Failed \/ ThreadEnds

LoopStep == RunIdle \/ CloseCancels \/ Returns

UserStep == Submit \/ SubmitEmpty \/ CloseLooks \/ CloseScreen \/ TerminalEnds

AskStep == Accepts \/ Refuses \/ DirectAnswer \/ KeysLost \/ Stores \/ Checks

UnlockStep ==
    \/ (WorkerStep \/ LoopStep \/ UserStep) /\ UNCHANGED daemon
    \/ AskStep
=============================================================================
