------------------------- MODULE BitwardenProvider -------------------------
(***************************************************************************)
(* bitwarden.py BitwardenProvider.  A request of the control server runs   *)
(* the bw program and suspends until it ends; the vault can change, and    *)
(* any other request can run, between the start of bw, the moment it reads *)
(* the vault and the moment its answer is handed to the waiting task.      *)
(***************************************************************************)
EXTENDS SshKeys

CONSTANTS
    Clients,      \* connections of the control server, each runs one bw at most
    ItemIds,      \* the configured item_ids
    ListsPrivate  \* items whose entry in "bw list items" has a privateKey

ASSUME ProviderAssumption ==
    /\ ItemIds \subseteq Items
    /\ ListsPrivate \subseteq Items

VARIABLES
    vault,     \* external: the key pair each item holds
    session,   \* whether _session_key is set
    keyCache,  \* _private_key_cache: item -> private key
    bw,        \* the bw subprocess of each client's request
    answer     \* what that bw read from the vault

providerVars == <<vault, session, keyCache, bw, answer>>
bwVars == <<bw, answer>>

ProviderTypeOK ==
    /\ vault \in [Items -> MaybeKey]
    /\ session \in BOOLEAN
    /\ keyCache \in [Items -> MaybeKey]
    /\ bw \in [Clients -> {"none", "running", "answered"}]
    /\ answer \in [Clients -> [Items -> MaybeKey]]

ProviderInit ==
    /\ vault \in [Items -> MaybeKey]
    /\ session = FALSE
    /\ keyCache = NoKeys
    /\ bw = [c \in Clients |-> "none"]
    /\ answer = [c \in Clients |-> NoKeys]

\* The user adds, replaces or removes the key of an item.
EditVault ==
    /\ \E i \in Items, k \in MaybeKey : vault' = [vault EXCEPT ![i] = k]
    /\ UNCHANGED <<session, keyCache, bw, answer>>

\* bw reads the vault it was asked about; its answer is on the way.
BwReads(c) ==
    /\ bw[c] = "running"
    /\ bw' = [bw EXCEPT ![c] = "answered"]
    /\ answer' = [answer EXCEPT ![c] = vault]
    /\ UNCHANGED <<vault, session, keyCache>>

\* _run_bw starts the subprocess, and forgets it when it has ended.
StartBw(c) ==
    /\ bw' = [bw EXCEPT ![c] = "running"]
    /\ answer' = [answer EXCEPT ![c] = NoKeys]
EndBw(c) ==
    /\ bw' = [bw EXCEPT ![c] = "none"]
    /\ answer' = [answer EXCEPT ![c] = NoKeys]

\* list_identities goes through the configured items that hold an SSH key, ...
Listing(items) == [i \in Items |-> IF i \in ItemIds THEN items[i] ELSE NoKey]
ListedItems(listed) == {i \in Items : listed[i] # NoKey}

\* Mutant: the cache keeps the first private key it was given for an item.
CacheAfterListOnce(listed, parsed) ==
    [i \in Items |-> IF i \in parsed \cap ListsPrivate /\ keyCache[i] = NoKey
                     THEN listed[i]
                     ELSE keyCache[i]]

\* ... and caches the private key of each one it has parsed, when the listing
\* contains it; what is cached stays so if a later item cannot be parsed.
CacheAfterList(listed, parsed) ==
    [i \in Items |-> IF i \in parsed \cap ListsPrivate
                     THEN listed[i]
                     ELSE keyCache[i]]

\* get_private_key on a cache miss, with the key bw answered.
CacheAfterGet(i, k) == [keyCache EXCEPT ![i] = k]

\* Mutant: the private keys stay cached.
ProviderLockKeepsCache ==
    /\ session' = FALSE
    /\ keyCache' = keyCache

ProviderLock ==
    /\ session' = FALSE
    /\ keyCache' = NoKeys
=============================================================================
