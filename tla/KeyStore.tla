------------------------------ MODULE KeyStore ------------------------------
(***************************************************************************)
(* What the daemon is to those who use it (SPEC.md 1.1 and 2): one store   *)
(* of keys.  Control clients lock it and load it, SSH clients ask it for   *)
(* signatures.  Vault, bw, session, cache, items, contexts and authorizers *)
(* are not said here, nor is what makes a load fail or a request refused.  *)
(***************************************************************************)
CONSTANTS
    Clients,     \* those who lock and load
    SshClients,  \* those who ask for signatures
    Keys,        \* key pairs, which also name their public halves
    NoKey,       \* no key
    Unloadable,  \* pairs that the store does not take
    Unsignable   \* pairs that it cannot sign with

VARIABLES
    store,    \* the private key under each public one, or NoKey
    locked,   \* what the store says of itself
    load,     \* what each client's load will do: "unlock" adds keys and ends
              \* with an unlocked store, "sync" replaces the keys, "resync" has
              \* replaced them and adds more; or "none"
    request,  \* the public key each SSH client has last asked about
    taken,    \* the private key that was under it then
    outcome   \* "none", "asking" or "signed"

storeVars == <<store, locked, load, request, taken, outcome>>

Init ==
    /\ store = [k \in Keys |-> NoKey]
    /\ locked = TRUE
    /\ load = [c \in Clients |-> "none"]
    /\ request = [a \in SshClients |-> NoKey]
    /\ taken = [a \in SshClients |-> NoKey]
    /\ outcome = [a \in SshClients |-> "none"]

\* Loads that are under way are not stopped.
Lock ==
    /\ store' = [k \in Keys |-> NoKey]
    /\ locked' = TRUE
    /\ UNCHANGED <<load, request, taken, outcome>>

StartLoad(c) ==
    /\ load[c] = "none"
    /\ \E kind \in {"unlock", "sync"} : load' = [load EXCEPT ![c] = kind]
    /\ UNCHANGED <<store, locked, request, taken, outcome>>

\* Keys arrive: a load takes none away but those a sync replaces.
Deliver(c) ==
    /\ store' \in [Keys -> (Keys \ Unloadable) \cup {NoKey}]
    /\ load[c] # "sync" =>
          \A k \in Keys : store'[k] = NoKey => store[k] = NoKey

\* A load ends, well or not; only an unlock that ends well unlocks.
EndLoad(c) ==
    /\ load' = [load EXCEPT ![c] = "none"]
    /\ locked' = locked \/ (load[c] = "unlock" /\ locked' = FALSE)

Load(c) ==
    /\ load[c] # "none"
    /\ \/ Deliver(c) /\ EndLoad(c)
       \/ /\ Deliver(c)
          /\ load' = [load EXCEPT ![c] = IF @ = "unlock" THEN @ ELSE "resync"]
          /\ locked' = locked
       \/ EndLoad(c) /\ locked' = locked /\ store' = store
    /\ UNCHANGED <<request, taken, outcome>>

Settle(a, k, p, result) ==
    /\ request' = [request EXCEPT ![a] = k]
    /\ taken' = [taken EXCEPT ![a] = p]
    /\ outcome' = [outcome EXCEPT ![a] = result]
    /\ UNCHANGED <<store, locked, load>>

\* The key a signature is made with is taken when it is asked for.
Ask(a) ==
    \E k \in Keys :
        /\ store[k] # NoKey
        /\ \/ Settle(a, k, store[k], "asking")
           \/ store[k] \notin Unsignable /\ Settle(a, k, store[k], "signed")

Grant(a) ==
    /\ outcome[a] = "asking"
    /\ taken[a] \notin Unsignable
    /\ Settle(a, request[a], taken[a], "signed")

Refuse(a) == Settle(a, NoKey, NoKey, "none")

Next ==
    \/ Lock
    \/ \E c \in Clients : StartLoad(c) \/ Load(c)
    \/ \E a \in SshClients : Ask(a) \/ Grant(a) \/ Refuse(a)

Spec == Init /\ [][Next]_storeVars
=============================================================================
