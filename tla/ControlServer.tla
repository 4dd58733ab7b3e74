--------------------------- MODULE ControlServer ---------------------------
(***************************************************************************)
(* control.py ControlServer in its default mode (keys from the bw program, *)
(* no Windows bridge): one task per control connection, all on one event   *)
(* loop.  A task runs from one suspension to the next without interruption,*)
(* so an action is what a task does between two suspensions: waiting for   *)
(* the next line ("idle"), for the authorizer ("prompt"), for bw to list   *)
(* ("list") or to fetch one item ("get").                                  *)
(***************************************************************************)
EXTENDS KeyRegistry, BitwardenProvider, Authorizer

CONSTANT NoCtx  \* _current_conn_ctx is None

ASSUME ControlAssumption == NoCtx \notin Clients

VARIABLES
    locked,         \* _locked
    requirePolkit,  \* _config.auth.require_polkit, as last loaded
    currentCtx,     \* _current_conn_ctx, named by its connection
    hasCtx,         \* handle_client's conn_ctx is not None
    pc,             \* where each connection's task is suspended
    op,             \* the method it is in the middle of
    given,          \* that request carries a session_key
    listed,         \* its list of identities: item -> blob
    pending,        \* the items its loop has still to load
    fetching,       \* the item its loop waits for
    reply,          \* the last response written to the connection
    stale,          \* ghost: lock() has run since this task first started bw
    crossed,        \* ghost: while this task fetched items, a lock or the load
                    \* of another task has reached the registry
    sinceLock       \* ghost: what has been loaded since the last lock(): nothing,
                    \* cache entries of a listing that broke off, or keys, by a
                    \* load begun since ("fresh") or before ("stale")

requestVars == <<pc, op, given, listed, pending, fetching, reply, stale,
                 crossed>>
controlVars ==
    <<locked, requirePolkit, currentCtx, hasCtx, requestVars, sinceLock>>

Loading(c) == pc[c] \in {"list", "get"}

RequestTypeOK ==
    /\ pc \in [Clients -> {"closed", "idle", "prompt", "list", "get"}]
    /\ op \in [Clients -> {"none", "unlock", "sync"}]
    /\ given \in [Clients -> BOOLEAN]
    /\ listed \in [Clients -> [Items -> MaybeKey]]
    /\ pending \in [Clients -> SUBSET Items]
    /\ fetching \in [Clients -> MaybeItem]
    /\ reply \in [Clients -> {"none", "answered", "locked", "unlocked",
                              "synced", "error"}]
    /\ stale \in [Clients -> BOOLEAN]
    /\ crossed \in [Clients -> BOOLEAN]

ControlTypeOK ==
    /\ locked \in BOOLEAN
    /\ requirePolkit \in BOOLEAN
    /\ currentCtx \in Clients \cup {NoCtx}
    /\ hasCtx \in [Clients -> BOOLEAN]
    /\ RequestTypeOK
    /\ sinceLock \in {"nothing", "cached", "fresh", "stale"}

ControlInit ==
    /\ locked = TRUE
    /\ requirePolkit \in RequiredAtStart
    /\ currentCtx = NoCtx
    /\ hasCtx = [c \in Clients |-> FALSE]
    /\ pc = [c \in Clients |-> "closed"]
    /\ op = [c \in Clients |-> "none"]
    /\ given = [c \in Clients |-> FALSE]
    /\ listed = [c \in Clients |-> NoKeys]
    /\ pending = [c \in Clients |-> {}]
    /\ fetching = [c \in Clients |-> NoItem]
    /\ reply = [c \in Clients |-> "none"]
    /\ stale = [c \in Clients |-> FALSE]
    /\ crossed = [c \in Clients |-> FALSE]
    /\ sinceLock = "nothing"

-----------------------------------------------------------------------------
\* Connections.  build_connection_context can fail, which leaves no context.

Accept(c) ==
    /\ pc[c] = "closed"
    /\ pc' = [pc EXCEPT ![c] = "idle"]
    /\ \E b \in BOOLEAN : hasCtx' = [hasCtx EXCEPT ![c] = b]
    /\ UNCHANGED <<registryVars, providerVars, locked, requirePolkit, currentCtx,
                   op, given, listed, pending, fetching, reply, stale, crossed,
                   sinceLock>>

\* Mutant: the context outlives its connection.
CloseKeepsContext(c) ==
    /\ pc[c] = "idle"
    /\ pc' = [pc EXCEPT ![c] = "closed"]
    /\ hasCtx' = [hasCtx EXCEPT ![c] = FALSE]
    /\ reply' = [reply EXCEPT ![c] = "none"]
    /\ UNCHANGED <<registryVars, providerVars, locked, requirePolkit, currentCtx,
                   op, given, listed, pending, fetching, stale, crossed,
                   sinceLock>>

\* The finally clause of handle_client drops the context of any connection.
Close(c) ==
    /\ pc[c] = "idle"
    /\ pc' = [pc EXCEPT ![c] = "closed"]
    /\ hasCtx' = [hasCtx EXCEPT ![c] = FALSE]
    /\ reply' = [reply EXCEPT ![c] = "none"]
    /\ currentCtx' = NoCtx
    /\ UNCHANGED <<registryVars, providerVars, locked, requirePolkit,
                   op, given, listed, pending, fetching, stale, crossed,
                   sinceLock>>

\* A line has been read: handle_client publishes the connection's context.
Request(c) ==
    /\ pc[c] = "idle"
    /\ currentCtx' = IF hasCtx[c] THEN c ELSE NoCtx
    /\ UNCHANGED <<vault, hasCtx>>

\* The task waits for the next line, having written the response r.
Respond(c, r) ==
    /\ pc' = [pc EXCEPT ![c] = "idle"]
    /\ op' = [op EXCEPT ![c] = "none"]
    /\ given' = [given EXCEPT ![c] = FALSE]
    /\ listed' = [listed EXCEPT ![c] = NoKeys]
    /\ pending' = [pending EXCEPT ![c] = {}]
    /\ fetching' = [fetching EXCEPT ![c] = NoItem]
    /\ reply' = [reply EXCEPT ![c] = r]

\* A response that ends a request without having started bw.
RespondAtOnce(c, r) ==
    /\ Respond(c, r)
    /\ UNCHANGED <<bwVars, stale, crossed>>

\* A response of a task whose bw has ended.
RespondAfterBw(c, r) ==
    /\ Respond(c, r)
    /\ EndBw(c)
    /\ stale' = [stale EXCEPT ![c] = FALSE]

-----------------------------------------------------------------------------
\* Requests that are answered at once.

\* status, list_keys, and every line that names no method.
Query(c) ==
    /\ Request(c)
    /\ RespondAtOnce(c, "answered")
    /\ UNCHANGED <<registryVars, session, keyCache, locked, requirePolkit,
                   sinceLock>>

\* Mutant: the registry is left as it is.
LockKeepsRegistry ==
    /\ UNCHANGED registryVars
    /\ ProviderLock
    /\ locked' = TRUE
    /\ stale' = [c \in Clients |-> Loading(c)]
    /\ crossed' = [c \in Clients |-> pc[c] = "get"]
    /\ sinceLock' = "nothing"

\* ControlServer.lock, with AgentServer.lock and BitwardenProvider.lock.
Lock ==
    /\ Clear
    /\ ProviderLock
    /\ locked' = TRUE
    /\ stale' = [c \in Clients |-> Loading(c)]
    /\ crossed' = [c \in Clients |-> pc[c] = "get"]
    /\ sinceLock' = "nothing"

LockRequest(c) ==
    /\ Request(c)
    /\ Lock
    /\ Respond(c, "locked")
    /\ UNCHANGED <<bwVars, requirePolkit>>

\* The system goes to sleep: the watcher's callback locks the agent.
SleepLock ==
    /\ Lock
    /\ UNCHANGED <<vault, bwVars, requirePolkit, currentCtx, hasCtx, pc, op,
                   given, listed, pending, fetching, reply>>

\* reload_config; load_config raises on a file it cannot parse.
ReloadConfig(c) ==
    /\ Request(c)
    /\ \/ /\ requirePolkit' \in BOOLEAN
          /\ RespondAtOnce(c, "answered")
       \/ /\ requirePolkit' = requirePolkit
          /\ RespondAtOnce(c, "error")
    /\ UNCHANGED <<registryVars, session, keyCache, locked, sinceLock>>

-----------------------------------------------------------------------------
\* unlock and sync, up to the moment bw runs.

StartList(c, method) ==
    /\ pc' = [pc EXCEPT ![c] = "list"]
    /\ op' = [op EXCEPT ![c] = method]
    /\ given' = [given EXCEPT ![c] = FALSE]
    /\ reply' = [reply EXCEPT ![c] = "none"]
    /\ StartBw(c)
    /\ UNCHANGED <<listed, pending, fetching, stale, crossed>>

\* Mutant: the session is passed to bw but not stored.
BeginUnlockUnstored(c, withSession) ==
    /\ session' = session
    /\ \/ withSession /\ StartList(c, "unlock")
       \/ ~withSession /\ RespondAtOnce(c, "error")

\* _handle_unlock past the authorizer: the session is stored, then checked.
BeginUnlock(c, withSession) ==
    \/ /\ withSession
       /\ session' = TRUE
       /\ StartList(c, "unlock")
    \/ /\ ~withSession
       /\ session' = session
       /\ RespondAtOnce(c, "error")

UnlockIsGated(c) == hasCtx[c] /\ requirePolkit

UnlockRequest(c) ==
    /\ Request(c)
    /\ \E withSession \in BOOLEAN :
          \/ /\ ~UnlockIsGated(c) \/ AnswersAtOnce(TRUE)
             /\ BeginUnlock(c, withSession)
          \/ /\ UnlockIsGated(c) /\ AnswersAtOnce(FALSE)
             /\ session' = session
             /\ RespondAtOnce(c, "error")
          \/ /\ UnlockIsGated(c) /\ Prompts
             /\ pc' = [pc EXCEPT ![c] = "prompt"]
             /\ op' = [op EXCEPT ![c] = "unlock"]
             /\ given' = [given EXCEPT ![c] = withSession]
             /\ reply' = [reply EXCEPT ![c] = "none"]
             /\ UNCHANGED <<session, bwVars, listed, pending, fetching, stale, crossed>>
    /\ UNCHANGED <<registryVars, keyCache, locked, requirePolkit, sinceLock>>

\* The authorizer's answer; a refusal is an error whatever currentCtx now is.
UnlockPromptAnswered(c) ==
    /\ pc[c] = "prompt"
    /\ \/ BeginUnlock(c, given[c])
       \/ session' = session /\ RespondAtOnce(c, "error")
    /\ UNCHANGED <<registryVars, vault, keyCache, locked, requirePolkit,
                   currentCtx, hasCtx, sinceLock>>

\* _handle_sync: the request's session, or else the stored one.
SyncRequest(c) ==
    /\ Request(c)
    /\ \/ \E withSession \in BOOLEAN :
             /\ withSession \/ session
             /\ StartList(c, "sync")
       \/ /\ ~session
          /\ RespondAtOnce(c, IF locked THEN "error" ELSE "synced")
    /\ UNCHANGED <<registryVars, session, keyCache, locked, requirePolkit,
                   sinceLock>>

-----------------------------------------------------------------------------
\* unlock and sync, from bw's answer on.

\* Mutant: a sync unlocks, too.
LoadedUnlocks(c) ==
    /\ locked' = FALSE
    /\ RespondAfterBw(c, IF op[c] = "unlock" THEN "unlocked" ELSE "synced")

\* The end of the loop over the identities.
Loaded(c) ==
    \/ /\ op[c] = "unlock"
       /\ locked' = FALSE
       /\ RespondAfterBw(c, "unlocked")
    \/ /\ op[c] = "sync"
       /\ locked' = locked
       /\ RespondAfterBw(c, "synced")

\* get_private_key misses the cache for item i and starts bw again.
Fetch(c, list, rest, i) ==
    /\ StartBw(c)
    /\ pc' = [pc EXCEPT ![c] = "get"]
    /\ listed' = [listed EXCEPT ![c] = list]
    /\ pending' = [pending EXCEPT ![c] = rest]
    /\ fetching' = [fetching EXCEPT ![c] = i]
    /\ UNCHANGED <<locked, op, given, reply, stale>>

LoadFails(c) ==
    /\ locked' = locked
    /\ RespondAfterBw(c, "error")

(***************************************************************************)
(* The loop over the identities of list, from where it stands to its next  *)
(* suspension or its end.  todo are the items still to load, first those   *)
(* it must start with; the keys are added to ids and privs, what the       *)
(* registry holds by then.  It loads the items of done and then ends, or   *)
(* meets an item that is not cached, or a private key it cannot load.      *)
(***************************************************************************)
RunLoop(c, list, todo, first, ids, privs) ==
    \E done \in SUBSET todo :
        /\ first \subseteq done
        /\ \A i \in done : keyCache'[i] \in Keys \ Unloadable
        /\ AddKeys(ids, privs, done, list, keyCache')
        /\ \/ done = todo /\ Loaded(c)
           \/ \E i \in todo \ done :
                 \/ keyCache'[i] = NoKey /\ Fetch(c, list, todo \ done, i)
                 \/ keyCache'[i] \in Unloadable /\ LoadFails(c)

\* The ghosts' record of a load that reaches the registry.
LoadMarked(c) ==
    /\ sinceLock' = IF stale[c] \/ sinceLock = "stale" THEN "stale" ELSE "fresh"
    /\ crossed' = [d \in Clients |-> IF d = c THEN crossed[c] /\ pc'[c] = "get"
                                     ELSE pc[d] = "get"]

\* Mutants: a sync that does not clear, an unlock that does.
NeverClears(c) == FALSE
AlwaysClears(c) == TRUE

\* _handle_sync clears the registry once it has the listing; unlock does not.
ClearsFirst(c) == op[c] = "sync"

\* bw list items has ended well.
ListReturns(c) ==
    LET list == Listing(answer[c])
        ids == IF ClearsFirst(c) THEN NoIdentities ELSE identities
        privs == IF ClearsFirst(c) THEN NoPrivateKeys ELSE privateKeys
    IN  /\ pc[c] = "list"
        /\ bw[c] = "answered"
        /\ keyCache' = CacheAfterList(list, ListedItems(list))
        /\ RunLoop(c, list, ListedItems(list), {}, ids, privs)
        /\ LoadMarked(c)
        /\ UNCHANGED <<vault, session, requirePolkit, currentCtx, hasCtx>>

(***************************************************************************)
(* bw list items has ended well, but the entry of a configured item has no *)
(* public key, or one that cannot be parsed: list_identities raises, having*)
(* cached the private keys of the items it has parsed.                     *)
(***************************************************************************)
ListBreaks(c) ==
    LET list == Listing(answer[c])
    IN  /\ pc[c] = "list"
        /\ bw[c] = "answered"
        /\ \E broken \in ItemIds : \E parsed \in SUBSET (ListedItems(list) \ {broken}) :
              /\ keyCache' = CacheAfterList(list, parsed)
              /\ sinceLock' = IF sinceLock = "nothing" /\ parsed # {}
                              THEN "cached"
                              ELSE sinceLock
        /\ LoadFails(c)
        /\ crossed' = [crossed EXCEPT ![c] = FALSE]
        /\ UNCHANGED <<registryVars, vault, session, requirePolkit, currentCtx,
                       hasCtx>>

\* bw get item has ended well; it names no key if the item lost it meanwhile.
GetReturns(c) ==
    LET i == fetching[c]
        k == answer[c][i]
    IN  /\ pc[c] = "get"
        /\ bw[c] = "answered"
        /\ \/ /\ k = NoKey
              /\ LoadFails(c)
              /\ UNCHANGED <<registryVars, keyCache>>
           \/ /\ k \in Unloadable
              /\ keyCache' = CacheAfterGet(i, k)
              /\ LoadFails(c)
              /\ UNCHANGED registryVars
           \/ /\ k \in Keys \ Unloadable
              /\ keyCache' = CacheAfterGet(i, k)
              /\ RunLoop(c, listed[c], pending[c], {i}, identities, privateKeys)
        /\ LoadMarked(c)
        /\ UNCHANGED <<vault, session, requirePolkit, currentCtx, hasCtx>>

\* Mutant: no timeout, a bw that never answers is waited for.
BwFailsUntimed(c) ==
    /\ Loading(c)
    /\ bw[c] = "answered"
    /\ LoadFails(c)
    /\ crossed' = [crossed EXCEPT ![c] = FALSE]
    /\ UNCHANGED <<registryVars, vault, session, keyCache, requirePolkit,
                   currentCtx, hasCtx, sinceLock>>

\* bw exits with an error, prints no JSON, or is killed after 10 seconds.
BwFails(c) ==
    /\ Loading(c)
    /\ LoadFails(c)
    /\ crossed' = [crossed EXCEPT ![c] = FALSE]
    /\ UNCHANGED <<registryVars, vault, session, keyCache, requirePolkit,
                   currentCtx, hasCtx, sinceLock>>

-----------------------------------------------------------------------------
ControlRequest(c) ==
    \/ Accept(c) \/ Close(c)
    \/ Query(c) \/ LockRequest(c) \/ ReloadConfig(c)
    \/ UnlockRequest(c) \/ SyncRequest(c)

BwEnds(c) == ListReturns(c) \/ ListBreaks(c) \/ GetReturns(c) \/ BwFails(c)

ProviderStep ==
    /\ EditVault \/ \E c \in Clients : BwReads(c)
    /\ UNCHANGED <<registryVars, controlVars>>

ControlNext ==
    \/ \E c \in Clients :
          ControlRequest(c) \/ UnlockPromptAnswered(c) \/ BwEnds(c)
    \/ SleepLock
    \/ ProviderStep
=============================================================================
