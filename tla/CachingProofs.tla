---------------------------- MODULE CachingProofs ----------------------------
(***************************************************************************)
(* CachingAuthorizer implements ApprovalPolicy, for any number of          *)
(* connections, keys and programs and any lifetime, if the wall clock is   *)
(* never set and, in per_connection mode, no address is used twice.  The   *)
(* policy takes a request's scope from its connection, fingerprint and     *)
(* program, so that the theorem is about what the caches are keyed by too. *)
(***************************************************************************)
EXTENDS CachingAuthorizer, TLAPS

\* The scopes are the addresses or the pairs, as the mode has it.
ModeScopes == IF Mode = "per_connection" THEN Addresses ELSE Prints \X Programs

LEMMA ScopeType ==
  ASSUME TypeOK, NEW c \in Conns, Open(c), NEW f \in Prints
  PROVE  Scope(c, f) \in ModeScopes /\ ModeScopes \subseteq Scopes
BY DEF TypeOK, Open, Scope, Key, ModeScopes, Scopes

-----------------------------------------------------------------------------
(* Type correctness *)

\* A check is asked about in a scope of its mode, for the request its connection
\* makes; a closed connection makes none.
AsksInMode ==
  \A c \in Conns :
    /\ asking[c] # NoScope =>
         /\ asking[c] \in ModeScopes
         /\ Open(c) /\ request[c] \in Prints /\ outcome[c] = "none"
    /\ outcome[c] # "none" => Open(c)

\* Every variable keeps its type, and every check its scope.
TypeInv == TypeOK /\ AsksInMode

LEMMA TypeInvariant == Spec => []TypeInv
<1> USE CachingAssumption
<1>1. Init => TypeInv
  BY DEF Init, TypeInv, TypeOK, AsksInMode
<1>2. TypeInv /\ [Next]_cachingVars => TypeInv'
  <2> SUFFICES ASSUME TypeInv, [Next]_cachingVars PROVE TypeInv'
    OBVIOUS
  <2> USE DEF TypeInv, AsksInMode
  <2>1. ASSUME NEW c \in Conns, Connect(c) PROVE TypeInv'
    BY <2>1 DEF Connect, Free, TypeOK, Open
  <2>2. ASSUME NEW c \in Conns, Disconnect(c) PROVE TypeInv'
    BY <2>2 DEF Disconnect, TypeOK, Open
  <2>3. ASSUME NEW c \in Conns, Check(c) PROVE TypeInv'
    <3>1. PICK f \in Prints :
         /\ request' = [request EXCEPT ![c] = f]
         /\ \/ /\ outcome' = [outcome EXCEPT ![c] = "granted"]
               /\ UNCHANGED <<asking, ttlCache>>
            \/ /\ asking' = [asking EXCEPT ![c] = Scope(c, f)]
               /\ Expire(c, f)
               /\ outcome' = outcome
      BY <2>3 DEF Check
    <3>2. /\ Open(c) /\ asking[c] = NoScope /\ outcome[c] = "none"
          /\ UNCHANGED <<now, wall, address, used, program, connCache, approvedAt>>
      BY <2>3 DEF Check
    <3>3. Scope(c, f) \in ModeScopes /\ ModeScopes \subseteq Scopes
      BY <3>2, ScopeType
    <3>4. ttlCache' \in [Prints \X Programs -> (0..MaxTime) \cup {Never}]
      BY <3>1 DEF Expire, TypeOK
    <3> QED
      BY <3>1, <3>2, <3>3, <3>4 DEF TypeOK, Open
  <2>4. ASSUME NEW c \in Conns, Approved(c) PROVE TypeInv'
    <3>1. asking[c] \in ModeScopes
      BY <2>4 DEF Approved
    <3>2. connCache' \in SUBSET Addresses
      BY <2>4, <3>1 DEF Approved, TypeOK, ModeScopes
    <3>3. ttlCache' \in [Prints \X Programs -> (0..MaxTime) \cup {Never}]
      BY <2>4, <3>1 DEF Approved, TypeOK, ModeScopes
    <3>4. Approval(c) \in Conns \cup (Prints \X Programs)
      BY <2>4 DEF Approved, Approval, TypeOK
    <3> QED
      BY <2>4, <3>2, <3>3, <3>4 DEF Approved, TypeOK, Open
  <2>5. ASSUME NEW c \in Conns, Refused(c) PROVE TypeInv'
    BY <2>5 DEF Refused, TypeOK, Open
  <2>6. ASSUME NEW c \in Conns, GoOn(c) PROVE TypeInv'
    BY <2>6 DEF GoOn, TypeOK, Open
  <2>7. CASE Tick
    BY <2>7 DEF Tick, TypeOK, Open
  <2>8. CASE SetClock
    BY <2>8 DEF SetClock, TypeOK, Open
  <2>9. CASE UNCHANGED cachingVars
    BY <2>9 DEF cachingVars, TypeOK, Open
  <2> QED
    BY <2>1, <2>2, <2>3, <2>4, <2>5, <2>6, <2>7, <2>8, <2>9 DEF Next
<1> QED
  BY <1>1, <1>2, PTL DEF Spec

\* TypeOK: every variable of the authorizer keeps its type.
THEOREM CachingTypeCorrect == Spec => []TypeOK
<1>1. TypeInv => TypeOK
  BY DEF TypeInv
<1> QED
  BY <1>1, TypeInvariant, PTL

-----------------------------------------------------------------------------
(* What the caches say of past approvals *)

\* Approvals are not of the future.
PastApprovals ==
  \A s \in Conns \cup (Prints \X Programs) : approvedAt[s] # Never => approvedAt[s] <= now

\* In per_connection mode the address of an open connection is cached when the
\* connection was approved; contexts have only been where used says, and no two
\* at one place.
ConnCacheExact ==
  Mode = "per_connection" =>
    /\ \A c \in Conns : Open(c) =>
         (address[c] \in connCache <=> approvedAt[c] # Never)
    /\ connCache \subseteq used
    /\ \A c \in Conns : Open(c) => address[c] \in used
    /\ \A c, d \in Conns : Open(c) /\ address[c] = address[d] => c = d
    /\ \A c \in Conns : asking[c] # NoScope => asking[c] = address[c]

\* In ttl mode an entry is the last approval of its pair, and a pair without one
\* was approved never, or too long ago; a suspended check will write the entry of
\* its own request.
TtlCacheExact ==
  Mode = "ttl" =>
    /\ \A c \in Conns : asking[c] # NoScope => asking[c] = <<request[c], program[c]>>
    /\ \A k \in Prints \X Programs :
         \/ ttlCache[k] # Never /\ ttlCache[k] = approvedAt[k]
         \/ /\ ttlCache[k] = Never
            /\ approvedAt[k] = Never \/ now - approvedAt[k] >= Ttl

CacheInv ==
  /\ wall = now
  /\ PastApprovals
  /\ ConnCacheExact
  /\ TtlCacheExact

-----------------------------------------------------------------------------
(* Each step keeps CacheInv and is a step of the policy, or none *)

PolicyStep == [Policy!Next]_Policy!policyVars

\* No step moves what the policy sees.
LEMMA PolicyStutters ==
  ASSUME UNCHANGED <<now, program, request, asking, outcome, approvedAt>>
  PROVE  PolicyStep
BY DEF PolicyStep, Policy!policyVars

\* A new connection begins at an address nothing is cached for.
LEMMA ConnectStep ==
  ASSUME TypeInv, CacheInv, Mode = "per_connection" => ~ReusesMemory,
         NEW c \in Conns, Connect(c)
  PROVE  CacheInv' /\ PolicyStep
<1> USE CachingAssumption DEF TypeInv, TypeOK
<1>1. PICK a \in Free, p \in Programs :
        /\ address' = [address EXCEPT ![c] = a]
        /\ used' = used \cup {a}
        /\ program' = [program EXCEPT ![c] = p]
        /\ approvedAt' = [approvedAt EXCEPT ![c] = Never]
  BY DEF Connect
<1>2. /\ UNCHANGED <<now, wall, request, asking, outcome, connCache, ttlCache>>
      /\ ~Open(c)
  BY DEF Connect
<1>3. a \in Addresses /\ c \notin Prints \X Programs
  BY DEF Free
<1>4. Mode = "per_connection" => a \notin used
  BY DEF Free
<1>5. asking[c] = NoScope /\ outcome[c] = "none"
  BY <1>2 DEF AsksInMode
<1>6. PastApprovals'
  BY <1>1, <1>2 DEF CacheInv, PastApprovals
<1>7. ConnCacheExact'
  BY <1>1, <1>2, <1>3, <1>4 DEF CacheInv, ConnCacheExact, AsksInMode, Open
<1>8. TtlCacheExact'
  BY <1>1, <1>2, <1>3, <1>5 DEF CacheInv, TtlCacheExact
<1>9. Policy!Begin(c)
  BY <1>1, <1>2, <1>5 DEF Policy!Begin, Policy!Idle
<1> QED
  BY <1>2, <1>3, <1>6, <1>7, <1>8, <1>9 DEF CacheInv, PolicyStep, Policy!Next

\* A check is answered at once exactly when the policy says it is covered.
LEMMA CachedIsCovered ==
  ASSUME TypeInv, CacheInv, NEW c \in Conns, Open(c), NEW f \in Prints
  PROVE  Cached(c, f) <=> Policy!Covered(Policy!ScopeOf(c, f))
<1> DEFINE s == Policy!ScopeOf(c, f)
<1> USE CachingAssumption
    DEF TypeInv, TypeOK, Cached, Policy!Covered, Policy!ScopeOf, Lifetime
<1>1. s \in Conns \cup (Prints \X Programs)
  OBVIOUS
<1>2. approvedAt[s] # Never => approvedAt[s] \in 0..MaxTime /\ approvedAt[s] <= now
  BY <1>1 DEF CacheInv, PastApprovals
<1>3. CASE Mode = "always"
  BY <1>2, <1>3
<1>4. CASE Mode = "per_connection"
  <2>1. address[c] \in connCache <=> approvedAt[c] # Never
    BY <1>4 DEF CacheInv, ConnCacheExact
  <2> QED
    BY <1>2, <1>4, <2>1
<1>5. CASE Mode = "ttl"
  <2>1. Key(c, f) \in Prints \X Programs
    BY DEF Key
  <2>2. \/ ttlCache[Key(c, f)] # Never /\ ttlCache[Key(c, f)] = approvedAt[Key(c, f)]
        \/ /\ ttlCache[Key(c, f)] = Never
           /\ \/ approvedAt[Key(c, f)] = Never
              \/ now - approvedAt[Key(c, f)] >= Ttl
    BY <1>5, <2>1 DEF CacheInv, TtlCacheExact
  <2>3. Cached(c, f) <=> Recent(Key(c, f))
    BY <1>5
  <2>4. s = Key(c, f) /\ Lifetime = Ttl
    BY <1>5 DEF Key
  <2>5. wall = now
    BY DEF CacheInv
  <2> QED
    BY <1>2, <2>2, <2>3, <2>4, <2>5 DEF Recent
<1> QED
  BY <1>3, <1>4, <1>5

LEMMA CheckStep ==
  ASSUME TypeInv, CacheInv, NEW c \in Conns, Check(c)
  PROVE  CacheInv' /\ PolicyStep
<1> USE CachingAssumption DEF TypeInv, TypeOK
<1>1. PICK f \in Prints :
        /\ request' = [request EXCEPT ![c] = f]
        /\ \/ /\ Cached(c, f)
              /\ outcome' = [outcome EXCEPT ![c] = "granted"]
              /\ UNCHANGED <<asking, ttlCache>>
           \/ /\ ~Cached(c, f)
              /\ asking' = [asking EXCEPT ![c] = Scope(c, f)]
              /\ Expire(c, f)
              /\ outcome' = outcome
  BY DEF Check
<1>2. /\ Open(c) /\ asking[c] = NoScope /\ outcome[c] = "none"
      /\ UNCHANGED <<now, wall, address, used, program, connCache, approvedAt>>
  BY DEF Check
<1>3. Scope(c, f) # NoScope
  BY <1>2, ScopeType
<1>4. Cached(c, f) <=> Policy!Covered(Policy!ScopeOf(c, f))
  BY <1>2, CachedIsCovered
<1>5. Policy!Ask(c, f)
  BY <1>1, <1>2, <1>3, <1>4 DEF Policy!Ask, Policy!Idle
<1>6. PastApprovals' /\ wall' = now'
  BY <1>2 DEF CacheInv, PastApprovals
<1>7. ConnCacheExact'
  BY <1>1, <1>2 DEF CacheInv, ConnCacheExact, Scope, Open
<1>8. TtlCacheExact'
  <2> SUFFICES ASSUME Mode = "ttl", NEW k \in Prints \X Programs
               PROVE  \/ ttlCache'[k] # Never /\ ttlCache'[k] = approvedAt[k]
                      \/ /\ ttlCache'[k] = Never
                         /\ approvedAt[k] = Never \/ now - approvedAt[k] >= Ttl
    BY <1>1, <1>2 DEF CacheInv, TtlCacheExact, Scope, Key
  <2>1. \/ ttlCache[k] # Never /\ ttlCache[k] = approvedAt[k]
        \/ /\ ttlCache[k] = Never
           /\ approvedAt[k] = Never \/ now - approvedAt[k] >= Ttl
    BY DEF CacheInv, TtlCacheExact
  <2>2. CASE ttlCache'[k] = ttlCache[k]
    BY <2>1, <2>2
  <2>3. CASE ttlCache'[k] # ttlCache[k]
    <3>1. ~Cached(c, f) /\ Expire(c, f) /\ Key(c, f) = k
      BY <1>1, <2>3 DEF Expire
    <3>2. ttlCache'[k] = Never
      BY <3>1 DEF Expire
    <3>3. ~Policy!Covered(k)
      BY <1>4, <3>1 DEF Policy!ScopeOf, Key
    <3>4. approvedAt[k] \in (0..MaxTime) \cup {Never}
      OBVIOUS
    <3> QED
      BY <3>2, <3>3, <3>4 DEF Policy!Covered, Lifetime
  <2> QED
    BY <2>2, <2>3
<1> QED
  BY <1>3, <1>5, <1>6, <1>7, <1>8 DEF CacheInv, PolicyStep, Policy!Next

\* An approval is recorded in the cache of the mode.
LEMMA ApprovedStep ==
  ASSUME TypeInv, CacheInv, NEW c \in Conns, Approved(c)
  PROVE  CacheInv' /\ PolicyStep
<1> USE CachingAssumption DEF TypeInv, TypeOK
<1>1. /\ asking[c] \in ModeScopes /\ Open(c)
      /\ Approval(c) \in Conns \cup (Prints \X Programs)
      /\ Approval(c) = Policy!ScopeOf(c, request[c])
  BY DEF Approved, AsksInMode, Approval, Policy!ScopeOf
<1>2. /\ asking[c] # NoScope
      /\ asking' = [asking EXCEPT ![c] = NoScope]
      /\ outcome' = [outcome EXCEPT ![c] = "granted"]
      /\ approvedAt' = [approvedAt EXCEPT ![Approval(c)] = now]
      /\ UNCHANGED <<now, wall, address, used, program, request>>
  BY DEF Approved
<1>3. Policy!Approve(c)
  BY <1>1, <1>2 DEF Policy!Approve, Policy!Answer
<1>4. PastApprovals' /\ wall' = now'
  BY <1>1, <1>2 DEF CacheInv, PastApprovals
<1>5. ConnCacheExact'
  <2> SUFFICES ASSUME Mode = "per_connection" PROVE ConnCacheExact'
    BY DEF ConnCacheExact
  <2>1. connCache' = connCache \cup {asking[c]}
    BY DEF Approved
  <2>2. asking[c] = address[c] /\ address[c] \in used
    BY <1>1, <1>2 DEF CacheInv, ConnCacheExact
  <2>3. Approval(c) = c
    BY DEF Approval
  <2>4. \A d \in Conns : Open(d) =>
          (address[d] \in connCache' <=> approvedAt'[d] # Never)
    BY <1>1, <1>2, <2>1, <2>2, <2>3 DEF CacheInv, ConnCacheExact
  <2> QED
    BY <1>2, <2>1, <2>2, <2>4 DEF CacheInv, ConnCacheExact, Open
<1>6. TtlCacheExact'
  <2> SUFFICES ASSUME Mode = "ttl" PROVE TtlCacheExact'
    BY DEF TtlCacheExact
  <2>1. ttlCache' = [ttlCache EXCEPT ![asking[c]] = wall]
    BY DEF Approved
  <2> QED
    BY <1>1, <1>2, <2>1 DEF CacheInv, TtlCacheExact, ModeScopes, Approval
<1> QED
  BY <1>3, <1>4, <1>5, <1>6 DEF CacheInv, PolicyStep, Policy!Next

\* The steps that touch no cache.
LEMMA OtherStep ==
  ASSUME TypeInv, CacheInv, ~ClockJumps,
         \/ \E c \in Conns : Disconnect(c) \/ Refused(c) \/ GoOn(c)
         \/ Tick \/ SetClock \/ UNCHANGED cachingVars
  PROVE  CacheInv' /\ PolicyStep
<1> USE CachingAssumption DEF TypeInv, TypeOK, CacheInv
<1>1. ASSUME NEW c \in Conns, Disconnect(c) PROVE CacheInv' /\ PolicyStep
  BY <1>1, PolicyStutters
  DEF Disconnect, PastApprovals, ConnCacheExact, TtlCacheExact, Open
<1>2. ASSUME NEW c \in Conns, Refused(c) PROVE CacheInv' /\ PolicyStep
  <2>1. Policy!Deny(c)
    BY <1>2 DEF Refused, Policy!Deny, Policy!Answer
  <2> QED
    BY <1>2, <2>1 DEF Refused, PastApprovals, ConnCacheExact, TtlCacheExact, Open,
                      PolicyStep, Policy!Next
<1>3. ASSUME NEW c \in Conns, GoOn(c) PROVE CacheInv' /\ PolicyStep
  <2>1. Policy!Act(c)
    BY <1>3 DEF GoOn, Policy!Act
  <2>2. asking[c] = NoScope
    BY <1>3 DEF GoOn, AsksInMode
  <2> QED
    BY <1>3, <2>1, <2>2 DEF GoOn, PastApprovals, ConnCacheExact, TtlCacheExact, Open,
                      PolicyStep, Policy!Next
<1>4. CASE Tick
  <2>1. Policy!Tick
    BY <1>4 DEF Tick, Policy!Tick
  <2>2. PastApprovals' /\ wall' = now'
    BY <1>4 DEF Tick, PastApprovals
  <2>3. ConnCacheExact'
    BY <1>4 DEF Tick, ConnCacheExact, Open
  <2>4. TtlCacheExact'
    <3>1. \A k \in Prints \X Programs : approvedAt[k] # Never => approvedAt[k] \in Int
      OBVIOUS
    <3> QED
      BY <1>4, <3>1 DEF Tick, TtlCacheExact
  <2> QED
    BY <2>1, <2>2, <2>3, <2>4 DEF PolicyStep, Policy!Next
<1>5. ~SetClock
  BY DEF SetClock
<1>6. CASE UNCHANGED cachingVars
  BY <1>6, PolicyStutters
  DEF cachingVars, PastApprovals, ConnCacheExact, TtlCacheExact, Open
<1> QED
  BY <1>1, <1>2, <1>3, <1>4, <1>5, <1>6

\* ImplementsPolicy: whatever checks and prompts interleave, the user is asked
\* exactly when he has not approved a request on the same connection, or one of
\* the same fingerprint and program, within its lifetime (SPEC.md 4.3.4), if nobody sets the clock and, in per_connection
\* mode, no context is allocated where another was.
THEOREM CachesImplementPolicy ==
  ASSUME ~ClockJumps, Mode = "per_connection" => ~ReusesMemory
  PROVE  Spec => ImplementsPolicy
<1>1. Init => CacheInv /\ Policy!Init
  BY CachingAssumption
  DEF Init, CacheInv, PastApprovals, ConnCacheExact, TtlCacheExact, Open,
      Policy!Init, Policy!PolicyScopes
<1>2. TypeInv /\ CacheInv /\ [Next]_cachingVars => CacheInv' /\ PolicyStep
  BY ConnectStep, CheckStep, ApprovedStep, OtherStep DEF Next
<1> QED
  BY <1>1, <1>2, TypeInvariant, PTL DEF Spec, ImplementsPolicy, Policy!Spec, PolicyStep
=============================================================================
