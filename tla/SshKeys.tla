------------------------------ MODULE SshKeys ------------------------------
(***************************************************************************)
(* The values every component shares.  An item is a Bitwarden vault item,  *)
(* named by its identity_id.  A key is an SSH key pair: a public key blob  *)
(* is modelled by the pair it belongs to, and so is its private half, so   *)
(* that a private key fits a blob when the two are the same element.       *)
(***************************************************************************)
CONSTANTS
    Items,       \* vault items
    Keys,        \* key pairs
    NoItem,      \* stands for a blob no identity is stored under
    NoKey,       \* stands for a missing key
    Unloadable,  \* pairs whose private half load_private_key rejects
    Unsignable   \* pairs whose type sign_data has no branch for

ASSUME SshKeysAssumption ==
    /\ NoItem \notin Items
    /\ NoKey \notin Keys
    /\ Unloadable \subseteq Keys
    /\ Unsignable \subseteq Keys

\* What an item of the vault, a listing or the provider's cache holds.
MaybeKey == Keys \cup {NoKey}
MaybeItem == Items \cup {NoItem}

\* A listing of nothing, an empty cache, an empty vault.
NoKeys == [i \in Items |-> NoKey]
=============================================================================
