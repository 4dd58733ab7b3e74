------------------------- MODULE CachingAuthorizer -------------------------
(***************************************************************************)
(* polkit.py CachingAuthorizer in front of PolkitAuthorizer.  A check is   *)
(* answered from a cache, or suspends until polkit answers; checks of      *)
(* other connections run meanwhile.  The per-connection cache is keyed by  *)
(* id(connection_ctx), the address of an object that is freed when its     *)
(* connection ends; the ttl cache by fingerprint and program, with the     *)
(* wall clock's time of the approval.                                      *)
(* build_connection_context leaves is_forwarded False on every connection, *)
(* so the branch for forwarded ones is never taken.                        *)
(***************************************************************************)
EXTENDS Integers

CONSTANTS
    Conns,         \* connections of both servers, open or not
    Addresses,     \* where connection contexts can be allocated
    Prints,        \* fingerprints, among them the empty one of an unlock
    Programs,      \* exe_path of the peers
    NoAddress,     \* the connection is closed
    NoScope,       \* no check of the connection is suspended
    NoPrint,       \* the connection has no request under way
    Never,         \* no time is recorded
    Mode,          \* approval_mode
    Ttl,           \* approval_ttl_seconds
    MaxTime,       \* bound of the clocks
    ReusesMemory,  \* a freed context's address can be given to a new one
    ClockJumps     \* the wall clock can be set

\* What an approval is cached under.
Scopes == Addresses \cup (Prints \X Programs)

ASSUME CachingAssumption ==
    /\ Mode \in {"always", "per_connection", "ttl"}
    /\ Ttl \in Int /\ MaxTime \in Nat
    /\ NoAddress \notin Addresses
    /\ NoScope \notin Scopes
    /\ Never \notin Int
    /\ Conns \cap (Prints \X Programs) = {}
    /\ ReusesMemory \in BOOLEAN /\ ClockJumps \in BOOLEAN

VARIABLES
    now,        \* seconds that have passed
    wall,       \* what time.time() returns
    address,    \* of each connection's context
    used,       \* addresses that have held a context
    program,    \* exe_path of each connection's peer
    request,    \* ghost: the fingerprint of the request each connection makes
    asking,     \* what the suspended check of each connection is cached under
    outcome,    \* what its last check returned, until its handler has gone on
    connCache,  \* _per_connection_cache
    ttlCache,   \* _ttl_cache
    approvedAt  \* ghost: when the user last approved a request on each
                \* connection, and of each fingerprint and program

cachingVars == <<now, wall, address, used, program, request, asking, outcome,
                 connCache, ttlCache, approvedAt>>

TypeOK ==
    /\ now \in 0..MaxTime
    /\ wall \in 0..MaxTime
    /\ address \in [Conns -> Addresses \cup {NoAddress}]
    /\ used \in SUBSET Addresses
    /\ program \in [Conns -> Programs]
    /\ request \in [Conns -> Prints \cup {NoPrint}]
    /\ asking \in [Conns -> Scopes \cup {NoScope}]
    /\ outcome \in [Conns -> {"none", "granted", "denied"}]
    /\ connCache \in SUBSET Addresses
    /\ ttlCache \in [Prints \X Programs -> (0..MaxTime) \cup {Never}]
    /\ approvedAt \in [Conns \cup (Prints \X Programs) -> (0..MaxTime) \cup {Never}]

Init ==
    /\ now = 0
    /\ wall = 0
    /\ address = [c \in Conns |-> NoAddress]
    /\ used = {}
    /\ program \in [Conns -> Programs]
    /\ request = [c \in Conns |-> NoPrint]
    /\ asking = [c \in Conns |-> NoScope]
    /\ outcome = [c \in Conns |-> "none"]
    /\ connCache = {}
    /\ ttlCache = [k \in Prints \X Programs |-> Never]
    /\ approvedAt = [s \in Conns \cup (Prints \X Programs) |-> Never]

-----------------------------------------------------------------------------
Open(c) == address[c] # NoAddress
InUse == {address[c] : c \in Conns}
Free == Addresses \ (IF ReusesMemory THEN InUse ELSE used)

\* build_connection_context allocates the context of a new connection.
Connect(c) ==
    /\ ~Open(c)
    /\ \E a \in Free, p \in Programs :
          /\ address' = [address EXCEPT ![c] = a]
          /\ used' = used \cup {a}
          /\ program' = [program EXCEPT ![c] = p]
          /\ approvedAt' = [approvedAt EXCEPT ![c] = Never]
    /\ UNCHANGED <<now, wall, request, asking, outcome, connCache, ttlCache>>

\* The task of the connection ends, and its context is freed.
Disconnect(c) ==
    /\ Open(c)
    /\ asking[c] = NoScope
    /\ outcome[c] = "none"
    /\ address' = [address EXCEPT ![c] = NoAddress]
    /\ UNCHANGED <<now, wall, used, program, request, asking, outcome, connCache,
                   ttlCache, approvedAt>>

\* Mutant: the key lacks the program.
KeyOfPrint(c, f) == <<f, CHOOSE p \in Programs : TRUE>>

\* cache_key of _check_ttl; f is the fingerprint.
Key(c, f) == <<f, program[c]>>

\* Mutant: an approval is recorded under the fingerprint alone.
ScopeOfPrint(c, f) == IF Mode = "per_connection" THEN address[c] ELSE f

\* The local the check holds across its await: conn_id or cache_key.
Scope(c, f) == IF Mode = "per_connection" THEN address[c] ELSE Key(c, f)

\* Mutant: the last second counts too.
RecentInclusive(k) == ttlCache[k] # Never /\ wall - ttlCache[k] <= Ttl

Recent(k) == ttlCache[k] # Never /\ wall - ttlCache[k] < Ttl

\* check_authorization finds the approval in the cache of its mode.
Cached(c, f) ==
    \/ Mode = "per_connection" /\ address[c] \in connCache
    \/ Mode = "ttl" /\ Recent(Key(c, f))

\* _check_ttl deletes an entry it finds expired.
Expire(c, f) ==
    ttlCache' = IF Mode = "ttl" THEN [ttlCache EXCEPT ![Key(c, f)] = Never]
                                ELSE ttlCache

Check(c) ==
    /\ Open(c)
    /\ asking[c] = NoScope
    /\ outcome[c] = "none"
    /\ \E f \in Prints :
       /\ request' = [request EXCEPT ![c] = f]
       /\ \/ /\ Cached(c, f)
             /\ outcome' = [outcome EXCEPT ![c] = "granted"]
             /\ UNCHANGED <<asking, ttlCache>>
          \/ /\ ~Cached(c, f)
             /\ asking' = [asking EXCEPT ![c] = Scope(c, f)]
             /\ Expire(c, f)
             /\ outcome' = outcome
    /\ UNCHANGED <<now, wall, address, used, program, connCache, approvedAt>>

\* Ghost: what the user has approved when he approves the request of c.
Approval(c) == IF Mode = "per_connection" THEN c ELSE <<request[c], program[c]>>

\* polkit authorizes: the approval is recorded in the cache of the mode.
Approved(c) ==
    /\ asking[c] # NoScope
    /\ connCache' = IF Mode = "per_connection" THEN connCache \cup {asking[c]}
                                               ELSE connCache
    /\ ttlCache' = IF Mode = "ttl" THEN [ttlCache EXCEPT ![asking[c]] = wall]
                                   ELSE ttlCache
    /\ approvedAt' = [approvedAt EXCEPT ![Approval(c)] = now]
    /\ asking' = [asking EXCEPT ![c] = NoScope]
    /\ outcome' = [outcome EXCEPT ![c] = "granted"]
    /\ UNCHANGED <<now, wall, address, used, program, request>>

\* Mutant: the result is recorded before it is looked at.
RefusedCached(c) ==
    /\ asking[c] # NoScope
    /\ connCache' = IF Mode = "per_connection" THEN connCache \cup {asking[c]}
                                               ELSE connCache
    /\ asking' = [asking EXCEPT ![c] = NoScope]
    /\ outcome' = [outcome EXCEPT ![c] = "denied"]
    /\ UNCHANGED <<now, wall, address, used, program, request, ttlCache,
                   approvedAt>>

\* polkit refuses, or fails: PolkitAuthorizer turns every error into a refusal.
Refused(c) ==
    /\ asking[c] # NoScope
    /\ asking' = [asking EXCEPT ![c] = NoScope]
    /\ outcome' = [outcome EXCEPT ![c] = "denied"]
    /\ UNCHANGED <<now, wall, address, used, program, request, connCache,
                   ttlCache, approvedAt>>

\* The server's handler goes on with the answer.
GoOn(c) ==
    /\ outcome[c] # "none"
    /\ outcome' = [outcome EXCEPT ![c] = "none"]
    /\ request' = [request EXCEPT ![c] = NoPrint]
    /\ UNCHANGED <<now, wall, address, used, program, asking, connCache,
                   ttlCache, approvedAt>>

Tick ==
    /\ now < MaxTime /\ wall < MaxTime
    /\ now' = now + 1
    /\ wall' = wall + 1
    /\ UNCHANGED <<address, used, program, request, asking, outcome, connCache,
                   ttlCache, approvedAt>>

\* The wall clock is set, by hand or by a time service.
SetClock ==
    /\ ClockJumps
    /\ wall' \in 0..MaxTime
    /\ UNCHANGED <<now, address, used, program, request, asking, outcome,
                   connCache, ttlCache, approvedAt>>

Next ==
    \/ \E c \in Conns :
          \/ Connect(c) \/ Disconnect(c)
          \/ Check(c) \/ Approved(c) \/ Refused(c) \/ GoOn(c)
    \/ Tick \/ SetClock

Spec == Init /\ [][Next]_cachingVars

-----------------------------------------------------------------------------
(* Properties *)

\* For how long the mode lets an approval stand.
Lifetime == CASE Mode = "always" -> 0
              [] Mode = "per_connection" -> MaxTime + 1
              [] Mode = "ttl" -> Ttl

\* The caches implement the policy of SPEC.md 4.3.4: the user is asked exactly
\* when he has not approved a request on the same connection, or one of the same
\* fingerprint and program, within its lifetime, whatever checks are suspended
\* at the same time.  The policy takes the scope from the request, not from the
\* key the caches use.
Policy == INSTANCE ApprovalPolicy WITH
    Requesters <- Conns, PerConnection <- (Mode = "per_connection"),
    time <- now, waiting <- [c \in Conns |-> asking[c] # NoScope]

ImplementsPolicy == Policy!Spec

\* A check has been granted without the user being asked.
GrantedAtOnce(c) ==
    asking[c] = NoScope /\ outcome[c] = "none" /\ outcome'[c] = "granted"

\* SPEC.md:227 "authorize once per agent connection": an approval cached for a
\* connection was given on it.
ConnectionApproved ==
    [][\A c \in Conns : Mode = "per_connection" /\ GrantedAtOnce(c) =>
         approvedAt[c] # Never]_cachingVars
=============================================================================
