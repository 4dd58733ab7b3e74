--------------------------- MODULE ApprovalPolicy ---------------------------
(***************************************************************************)
(* What an authorizer that remembers approvals promises (SPEC.md 4.3.4):   *)
(* a request is in the scope of its requester's connection, or in that of  *)
(* its key and the program that asks, and the user is asked about it       *)
(* exactly when he has not approved a request of that scope less than      *)
(* Lifetime seconds ago.  The scope follows from the request alone; how    *)
(* approvals are remembered, and under which keys, is not said here.       *)
(***************************************************************************)
EXTENDS Integers

CONSTANTS
    Requesters,     \* where requests come from, one at a time from each
    Prints,         \* the keys requests are about
    Programs,       \* the programs requesters run
    PerConnection,  \* an approval is good for its requester's connection
    NoPrint,        \* no request has been made
    Never,          \* the user has not approved yet
    Lifetime,       \* for how many seconds an approval is good
    MaxTime         \* bound of the clock

VARIABLES
    time,       \* seconds that have passed
    program,    \* what each requester runs
    request,    \* the key of the request each requester has not acted on
    waiting,    \* its user is being asked about it
    outcome,    \* the answer it got
    approvedAt  \* when the user last approved a request of each scope

policyVars == <<time, program, request, waiting, outcome, approvedAt>>

\* A requester stands for its connection.
PolicyScopes == Requesters \cup (Prints \X Programs)

\* The scope of a request of r about the key f.
ScopeOf(r, f) == IF PerConnection THEN r ELSE <<f, program[r]>>

Init ==
    /\ time = 0
    /\ program \in [Requesters -> Programs]
    /\ request = [r \in Requesters |-> NoPrint]
    /\ waiting = [r \in Requesters |-> FALSE]
    /\ outcome = [r \in Requesters |-> "none"]
    /\ approvedAt = [s \in PolicyScopes |-> Never]

Idle(r) == ~waiting[r] /\ outcome[r] = "none"

\* r opens a new connection: nothing has been approved on it.
Begin(r) ==
    /\ Idle(r)
    /\ \E p \in Programs : program' = [program EXCEPT ![r] = p]
    /\ approvedAt' = [approvedAt EXCEPT ![r] = Never]
    /\ UNCHANGED <<time, request, waiting, outcome>>

Covered(s) ==
    /\ approvedAt[s] # Never
    /\ time - approvedAt[s] < Lifetime

Ask(r, f) ==
    /\ Idle(r)
    /\ request' = [request EXCEPT ![r] = f]
    /\ \/ /\ Covered(ScopeOf(r, f))
          /\ outcome' = [outcome EXCEPT ![r] = "granted"]
          /\ waiting' = waiting
       \/ /\ ~Covered(ScopeOf(r, f))
          /\ waiting' = [waiting EXCEPT ![r] = TRUE]
          /\ outcome' = outcome
    /\ UNCHANGED <<time, program, approvedAt>>

Answer(r, o) ==
    /\ waiting[r]
    /\ waiting' = [waiting EXCEPT ![r] = FALSE]
    /\ outcome' = [outcome EXCEPT ![r] = o]
    /\ UNCHANGED <<time, program, request>>

Approve(r) ==
    /\ Answer(r, "granted")
    /\ approvedAt' = [approvedAt EXCEPT ![ScopeOf(r, request[r])] = time]

Deny(r) ==
    /\ Answer(r, "denied")
    /\ approvedAt' = approvedAt

\* The requester acts on its answer.
Act(r) ==
    /\ outcome[r] # "none"
    /\ outcome' = [outcome EXCEPT ![r] = "none"]
    /\ request' = [request EXCEPT ![r] = NoPrint]
    /\ UNCHANGED <<time, program, waiting, approvedAt>>

Tick ==
    /\ time < MaxTime
    /\ time' = time + 1
    /\ UNCHANGED <<program, request, waiting, outcome, approvedAt>>

Next ==
    \/ \E r \in Requesters :
          \/ Begin(r) \/ Approve(r) \/ Deny(r) \/ Act(r)
          \/ \E f \in Prints : Ask(r, f)
    \/ Tick

Spec == Init /\ [][Next]_policyVars
=============================================================================
