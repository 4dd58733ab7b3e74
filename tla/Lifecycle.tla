------------------------------ MODULE Lifecycle ------------------------------
(***************************************************************************)
(* Daemon processes from main_entry to their end (daemon.py, and serve and *)
(* shutdown of control.py) and the files they share.  A process serves two *)
(* sockets with a task each; at a signal each task closes its server,      *)
(* waits for the connections that are still open (Server.wait_closed,      *)
(* Python 3.12) and unlinks its path, whoever's socket it names by then.   *)
(* A connection is open until its handler ends: one that waits for the     *)
(* authorizer does not see its client leave.                               *)
(* The commands start and stop (cli.py) have no actions of their own:      *)
(* through systemd they are StartProcess, Signal and in the end Die; on    *)
(* their own start runs bwssh-agentd without --foreground, which           *)
(* main_entry refuses, and stop sends SIGTERM to the pid that status       *)
(* returns, which is Signal.                                               *)
(***************************************************************************)
CONSTANTS
    Procs,   \* processes of bwssh-agentd, each started once at most
    NoProc   \* a path that does not exist

ASSUME LifecycleAssumption == NoProc \notin Procs

Names == {"agent", "control"}

VARIABLES
    phase,      \* of each process
    serve,      \* where each of its two serve() tasks is
    conns,      \* whether a client of that server is connected
    prompts,    \* whether a handler of that server waits for the authorizer,
                \* be its client there or not
    signalled,  \* of each process, the servers whose shutdown event is set
    sock,       \* external: whose socket each path names
    pidFile,    \* external: whose number daemon.pid holds
    overlapped  \* ghost: another process was alive during this one's life

vars == <<phase, serve, conns, prompts, signalled, sock, pidFile, overlapped>>

Alive(p) == phase[p] \in {"starting", "running"}

TypeOK ==
    /\ phase \in [Procs -> {"none", "starting", "running", "ended", "failed",
                            "killed"}]
    /\ serve \in [Procs -> [Names -> {"none", "listening", "closing", "over"}]]
    /\ conns \in [Procs -> [Names -> BOOLEAN]]
    /\ prompts \in [Procs -> [Names -> BOOLEAN]]
    /\ signalled \in [Procs -> SUBSET Names]
    /\ sock \in [Names -> Procs \cup {NoProc}]
    /\ pidFile \in Procs \cup {NoProc}
    /\ overlapped \in [Procs -> BOOLEAN]
    /\ \A p \in Procs, n \in Names :
          /\ serve[p][n] \in {"listening", "closing"} => phase[p] = "running"
          /\ conns[p][n] \/ prompts[p][n] => serve[p][n] \in {"listening", "closing"}

Init ==
    /\ phase = [p \in Procs |-> "none"]
    /\ serve = [p \in Procs |-> [n \in Names |-> "none"]]
    /\ conns = [p \in Procs |-> [n \in Names |-> FALSE]]
    /\ prompts = [p \in Procs |-> [n \in Names |-> FALSE]]
    /\ signalled = [p \in Procs |-> {}]
    /\ sock = [n \in Names |-> NoProc]
    /\ pidFile = NoProc
    /\ overlapped = [p \in Procs |-> FALSE]

-----------------------------------------------------------------------------
\* main_entry

\* With --foreground: it writes its pid file before anything else.
StartProcess(p) ==
    LET others == {q \in Procs : Alive(q)}
    IN  /\ phase[p] = "none"
        /\ phase' = [phase EXCEPT ![p] = "starting"]
        /\ pidFile' = p
        /\ overlapped' = [q \in Procs |->
              overlapped[q] \/ q \in others \/ (q = p /\ others # {})]
        /\ UNCHANGED <<serve, conns, prompts, signalled, sock>>

\* The authorizer has been set up, or has failed: its connection to the system
\* bus is awaited without a timeout (platform/_linux.py:135).  From here on the
\* process handles signals, and its tasks have their shutdown events.
AuthorizerReady(p) ==
    /\ phase[p] = "starting"
    /\ phase' = [phase EXCEPT ![p] = "running"]
    /\ UNCHANGED <<serve, conns, prompts, signalled, sock, pidFile, overlapped>>

\* Mutant: one server is not told.
SignalAgentOnly(p) ==
    /\ phase[p] = "running"
    /\ signalled' = [signalled EXCEPT ![p] = {"agent"}]
    /\ UNCHANGED <<phase, serve, conns, prompts, sock, pidFile, overlapped>>

\* SIGTERM or SIGINT: _shutdown_handler sets both events.
Signal(p) ==
    /\ phase[p] = "running"
    /\ signalled' = [signalled EXCEPT ![p] = Names]
    /\ UNCHANGED <<phase, serve, conns, prompts, sock, pidFile, overlapped>>

\* The process is gone at once: SIGKILL, a crash, or a signal before it handles
\* them.  Nothing is cleaned up.
Die(p) ==
    /\ Alive(p)
    /\ phase' = [phase EXCEPT ![p] = "killed"]
    /\ serve' = [serve EXCEPT ![p] = [n \in Names |-> "none"]]
    /\ conns' = [conns EXCEPT ![p] = [n \in Names |-> FALSE]]
    /\ prompts' = [prompts EXCEPT ![p] = [n \in Names |-> FALSE]]
    /\ UNCHANGED <<signalled, sock, pidFile, overlapped>>

\* Mutant: the pid file stays.
EndKeepsPid(p) ==
    /\ phase[p] = "running"
    /\ \A n \in Names : serve[p][n] = "over"
    /\ phase' = [phase EXCEPT ![p] = "ended"]
    /\ UNCHANGED <<serve, conns, prompts, signalled, sock, pidFile, overlapped>>

\* Both servers are over, and main_entry's finally clause runs.
End(p) ==
    /\ phase[p] = "running"
    /\ \A n \in Names : serve[p][n] = "over"
    /\ phase' = [phase EXCEPT ![p] = "ended"]
    /\ pidFile' = NoProc
    /\ UNCHANGED <<serve, conns, prompts, signalled, sock, overlapped>>

-----------------------------------------------------------------------------
\* serve(), of either server

\* Mutant: a socket that is in the way is left there.
ListenKeeps(p, n) ==
    /\ phase[p] = "running" /\ serve[p][n] = "none"
    /\ serve' = [serve EXCEPT ![p][n] = "listening"]
    /\ sock' = [sock EXCEPT ![n] = IF @ = NoProc THEN p ELSE @]
    /\ UNCHANGED <<phase, conns, prompts, signalled, pidFile, overlapped>>

\* Mutant: it waits until the path is free.
ListenWhenFree(p, n) ==
    /\ phase[p] = "running" /\ serve[p][n] = "none" /\ sock[n] = NoProc
    /\ serve' = [serve EXCEPT ![p][n] = "listening"]
    /\ sock' = [sock EXCEPT ![n] = p]
    /\ UNCHANGED <<phase, conns, prompts, signalled, pidFile, overlapped>>

\* The path is taken from whoever had it.
Listen(p, n) ==
    /\ phase[p] = "running" /\ serve[p][n] = "none"
    /\ serve' = [serve EXCEPT ![p][n] = "listening"]
    /\ sock' = [sock EXCEPT ![n] = p]
    /\ UNCHANGED <<phase, conns, prompts, signalled, pidFile, overlapped>>

\* What is at the path of n when an exception ends p: a serve() that fails has
\* removed what was there or has not, or has bound its own socket and could not
\* set its mode; one that listens is abandoned with its loop, and its finally
\* clause runs or does not when the coroutine is destroyed.
LeftAt(p, n) ==
    {sock[n]} \cup (IF serve[p][n] \in {"none", "listening"} THEN {NoProc} ELSE {})
              \cup (IF serve[p][n] = "none" THEN {p} ELSE {})

\* A socket cannot be bound or its mode not be set: the exception ends the
\* process, which removes the pid file.
ListenFails(p, n) ==
    /\ phase[p] = "running" /\ serve[p][n] = "none"
    /\ phase' = [phase EXCEPT ![p] = "failed"]
    /\ serve' = [serve EXCEPT ![p] = [m \in Names |-> "none"]]
    /\ conns' = [conns EXCEPT ![p] = [m \in Names |-> FALSE]]
    /\ prompts' = [prompts EXCEPT ![p] = [m \in Names |-> FALSE]]
    /\ pidFile' = NoProc
    /\ \E a \in LeftAt(p, "agent"), c \in LeftAt(p, "control") :
          sock' = [m \in Names |-> IF m = "agent" THEN a ELSE c]
    /\ UNCHANGED <<signalled, overlapped>>

CloseServer(p, n) ==
    /\ n \in signalled[p]
    /\ serve[p][n] = "listening"
    /\ serve' = [serve EXCEPT ![p][n] = "closing"]
    /\ UNCHANGED <<phase, conns, prompts, signalled, sock, pidFile, overlapped>>

\* Mutant: the connections are not waited for.
NotAwaited(p, n) == TRUE

\* wait_closed returns when every handler has ended: the client of each has left,
\* and the check it may be suspended at has been answered.
NoConnection(p, n) == ~conns[p][n] /\ ~prompts[p][n]

\* The path is removed if it exists.
Unlinked(n) == [sock EXCEPT ![n] = NoProc]

ServerClosed(p, n) ==
    /\ serve[p][n] = "closing"
    /\ NoConnection(p, n)
    /\ serve' = [serve EXCEPT ![p][n] = "over"]
    /\ sock' = Unlinked(n)
    /\ UNCHANGED <<phase, conns, prompts, signalled, pidFile, overlapped>>

-----------------------------------------------------------------------------
\* Clients reach the process whose socket the path names, and keep their
\* connection as long as they like.

ClientConnects(p, n) ==
    /\ sock[n] = p /\ serve[p][n] = "listening"
    /\ conns' = [conns EXCEPT ![p][n] = TRUE]
    /\ UNCHANGED <<phase, serve, prompts, signalled, sock, pidFile, overlapped>>

\* A sign request or an unlock suspends its handler at the authorizer.
Prompt(p, n) ==
    /\ conns[p][n]
    /\ prompts' = [prompts EXCEPT ![p][n] = TRUE]
    /\ UNCHANGED <<phase, serve, conns, signalled, sock, pidFile, overlapped>>

\* Those who are asked answer, or the authorizer fails.
PromptAnswered(p, n) ==
    /\ prompts[p][n]
    /\ prompts' = [prompts EXCEPT ![p][n] = FALSE]
    /\ UNCHANGED <<phase, serve, conns, signalled, sock, pidFile, overlapped>>

\* The handlers that read see it and end; those that are suspended do not.
ClientsLeave(p, n) ==
    /\ conns[p][n]
    /\ conns' = [conns EXCEPT ![p][n] = FALSE]
    /\ UNCHANGED <<phase, serve, prompts, signalled, sock, pidFile, overlapped>>

-----------------------------------------------------------------------------
ServeStep(p, n) == Listen(p, n) \/ CloseServer(p, n) \/ ServerClosed(p, n)

ProcessStep(p) ==
    AuthorizerReady(p) \/ End(p) \/ \E n \in Names : ServeStep(p, n)

Next ==
    \E p \in Procs :
        \/ StartProcess(p) \/ ProcessStep(p) \/ Signal(p) \/ Die(p)
        \/ \E n \in Names :
              \/ ListenFails(p, n) \/ ClientConnects(p, n) \/ ClientsLeave(p, n)
              \/ Prompt(p, n) \/ PromptAnswered(p, n)

(***************************************************************************)
(* The event loop resumes what can go on.  Nothing bounds the set-up of    *)
(* the authorizer, a prompt or the stay of a client, so nothing is assumed *)
(* of them: a property that needs one says so.                             *)
(***************************************************************************)
Fairness ==
    /\ \A p \in Procs : WF_vars(End(p))
    /\ \A p \in Procs, n \in Names : WF_vars(ServeStep(p, n))

Spec == Init /\ [][Next]_vars
FairSpec == Spec /\ Fairness

-----------------------------------------------------------------------------
(* Properties *)

\* A process that was alone during its life can be reached at both paths as
\* long as it listens, whatever its killed predecessors left there
\* (_remove_stale_socket).
Reachable ==
    \A p \in Procs, n \in Names :
        serve[p][n] = "listening" /\ ~overlapped[p] => sock[n] = p

\* A process that ended at a signal has left none of its files.
LeavesNothing ==
    \A p \in Procs :
        phase[p] = "ended" => pidFile # p /\ \A n \in Names : sock[n] # p

\* The clients of p do not stay for ever, and its prompts are answered.
NobodyStays(p) ==
    \A n \in Names : []<>(~conns[p][n]) /\ []<>(~prompts[p][n])

\* A signal the process handles ends it, however it falls between the set-up of
\* the two servers, if its clients leave and the prompts they have left behind
\* are answered: wait_closed waits for both (daemon.py:242, control.py:369).
SignalledEnds ==
    \A p \in Procs : NobodyStays(p) => (signalled[p] # {} ~> ~Alive(p))

\* A process whose authorizer is set up comes to serve both sockets, whatever
\* earlier processes left there, unless it is signalled or ends before.
StartedServes ==
    \A p \in Procs :
        phase[p] = "running" ~>
            \/ \A n \in Names : serve[p][n] = "listening"
            \/ signalled[p] # {} \/ ~Alive(p)

=============================================================================
