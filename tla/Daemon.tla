------------------------------- MODULE Daemon -------------------------------
(***************************************************************************)
(* The running daemon in its default mode: the control server and the      *)
(* agent server of one process, on one event loop, sharing the registry,   *)
(* the Bitwarden provider and the authorizer.  Signals, start and stop are *)
(* not part of this module.                                                *)
(***************************************************************************)
EXTENDS ControlServer, AgentServer

vars == <<registryVars, providerVars, controlVars, agentVars>>

Init == RegistryInit /\ ProviderInit /\ ControlInit /\ AgentInit

Next ==
    \/ ControlNext /\ UNCHANGED agentVars
    \/ AgentNext /\ UNCHANGED <<providerVars, controlVars>>

(***************************************************************************)
(* A bw that has been started ends: _run_bw kills it after 10 seconds and  *)
(* raises, and the event loop then resumes the waiting task.  Nothing in   *)
(* the code bounds how long the authorizer takes, nor makes a client send  *)
(* a request, so no fairness is assumed of either.                         *)
(***************************************************************************)
Fairness == \A c \in Clients : WF_vars(BwEnds(c) /\ UNCHANGED agentVars)

Spec == Init /\ [][Next]_vars
FairSpec == Spec /\ Fairness

-----------------------------------------------------------------------------
(* Invariants *)

\* Every variable stays in its type.
TypeOK == RegistryTypeOK /\ ProviderTypeOK /\ ControlTypeOK /\ AgentTypeOK

\* What the agent offers is what it can sign with, and each private key fits
\* the blob it is stored under, whatever unlocks, syncs and locks interleave
\* and however the vault changes meanwhile, provided that listings carry the
\* private keys.  Otherwise an item can get a new key between the listing and the
\* fetch, and is registered under the blob of the old one.
KeysMatch ==
    /\ Offered = Signable
    /\ \A k \in Signable : privateKeys[k] = k

\* A signature verifies under the key the client asked for (SPEC.md 1.1).
SignatureMatches ==
    \A a \in SshClients : areply[a] = "signature" => held[a] = asked[a]

\* From the end of lock() until some load delivers its result, the daemon has
\* no key to offer or to sign with and says it is locked; nor does it cache a
\* private key, unless a listing has come back that broke off at an item it could
\* not parse.  No other request, prompt or failure brings anything back.
QuietLock ==
    /\ sinceLock \in {"nothing", "cached"} =>
          locked /\ Offered = {} /\ Signable = {}
    /\ sinceLock = "nothing" => keyCache = NoKeys

\* A daemon that is unlocked can sync, for it still has the session it was
\* unlocked with; only a load that a lock overtook can leave it without.
UnlockedHasSession == sinceLock # "stale" => locked \/ session

\* A registered key can be reloaded without bw: the provider caches the private
\* key of every item the registry took a key from.
RegisteredIsCached == \A k \in Offered : keyCache[identities[k]] # NoKey

\* The context handlers see belongs to a connection that is still open, and
\* that has a context (control.py handle_client's finally clause).
ContextIsLive ==
    currentCtx # NoCtx => pc[currentCtx] # "closed" /\ hasCtx[currentCtx]

\* Without the system bus no connection that is known by its peer gets a
\* signature, whatever reload_config makes of require_polkit meanwhile.
DeniedNeverSigns ==
    Authorizer = "deny" =>
        \A a \in SshClients : areply[a] = "signature" => ~ahasCtx[a]

-----------------------------------------------------------------------------
(* Action properties *)

\* The result of c's bw is being taken up.
TakesUp(c) == bw[c] = "answered" /\ bw'[c] # "answered"

\* The keys of the identities c was listed.
KeysListed(c) ==
    LET list == IF pc[c] = "list" THEN Listing(answer[c]) ELSE listed[c]
    IN  {list[i] : i \in ItemIds} \ {NoKey}

\* The response to a load tells the truth when it is written: after an "unlocked"
\* the agent is unlocked and serves every listed key; after a "synced" it serves
\* those and no other.  That holds whatever ran while bw listed the items, and of
\* a load that then fetched items one by one if no lock and no other load reached
\* the registry in between; one that was crossed may have counted lost keys.
ResponseIsTrue ==
    [][\A c \in Clients :
         Loading(c) /\ ~crossed[c] /\ reply'[c] \in {"unlocked", "synced"} =>
         LET keys == KeysListed(c)
         IN  /\ keys \subseteq Offered' \cap Signable'
             /\ reply'[c] = "unlocked" => ~locked'
             /\ reply'[c] = "synced" => Offered' = keys]_vars

\* An unlock that fails, at its prompt, in bw or half way through its items,
\* leaves what status reports as locked and every key that was offered.  Of a
\* sync that is not so: it clears the registry before it loads (control.py:333).
FailureKeepsKeys ==
    [][\A c \in Clients : op[c] = "unlock" /\ reply'[c] = "error" =>
         locked' = locked /\ Offered \subseteq Offered']_vars

\* A locked daemon that no load has given keys since refuses every new sign
\* request, even when a listing that broke off has filled the provider's cache.
LockedAgentRefuses ==
    [][\A a \in SshClients : sinceLock \in {"nothing", "cached"} /\ apc[a] = "idle" =>
         apc'[a] # "prompt" /\ (areply'[a] = "signature" => areply[a] = "signature")]_vars

-----------------------------------------------------------------------------
(* What the daemon implements *)

\* What is left of each client's load, and what became of each sign request.
LoadOf(c) ==
    CASE pc[c] = "list" -> op[c]
      [] pc[c] = "get" -> IF op[c] = "sync" THEN "resync" ELSE op[c]
      [] OTHER -> "none"

OutcomeOf(a) ==
    IF apc[a] = "prompt" THEN "asking"
    ELSE IF areply[a] = "signature" THEN "signed" ELSE "none"

\* The daemon is one store of keys (SPEC.md 2.1): what list_identities offers is
\* what get_private_key answers for, keys come by loads and go by locks and syncs
\* alone, and a signature is made with the key found when it was asked for.
Store == INSTANCE KeyStore WITH
    store <- [k \in Keys |-> IF k \in Offered THEN privateKeys[k] ELSE NoKey],
    load <- [c \in Clients |-> LoadOf(c)],
    request <- asked, taken <- held,
    outcome <- [a \in SshClients |-> OutcomeOf(a)]

ImplementsStore == Store!Spec

-----------------------------------------------------------------------------
(* Liveness *)

\* A request that has started bw is answered, however many items it has to
\* fetch one by one and whatever the other tasks do.
LoadEnds == \A c \in Clients : Loading(c) ~> pc[c] = "idle"

-----------------------------------------------------------------------------
(* What the documentation and the comments say and the code does not do *)

\* README.md:143 "Keys are cleared when your laptop sleeps": a load that a lock
\* overtook does not bring keys back, nor unlock the agent.
LockStands ==
    [][\A c \in Clients : TakesUp(c) /\ stale[c] =>
         Signable' \subseteq Signable /\ (locked => locked')]_vars

=============================================================================
