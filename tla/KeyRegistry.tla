---------------------------- MODULE KeyRegistry ----------------------------
(***************************************************************************)
(* keys.py KeyRegistry: the keys the daemon serves, in two dictionaries    *)
(* keyed by public key blob.  Both are total functions here, NoItem and    *)
(* NoKey standing for an absent entry.                                     *)
(***************************************************************************)
EXTENDS SshKeys

VARIABLES
    identities,  \* _identities: blob -> the item it was loaded from
    privateKeys  \* _private_keys: blob -> the private key to sign with

registryVars == <<identities, privateKeys>>

NoIdentities == [k \in Keys |-> NoItem]
NoPrivateKeys == [k \in Keys |-> NoKey]

RegistryTypeOK ==
    /\ identities \in [Keys -> MaybeItem]
    /\ privateKeys \in [Keys -> MaybeKey]

RegistryInit ==
    /\ identities = NoIdentities
    /\ privateKeys = NoPrivateKeys

\* The blobs list_identities offers, and those get_private_key answers for.
Offered == {k \in Keys : identities[k] # NoItem}
Signable == {k \in Keys : privateKeys[k] # NoKey}

\* Mutants: the dictionaries are mixed up, only the first is cleared.
ClearSwapped ==
    /\ identities' = NoPrivateKeys
    /\ privateKeys' = NoIdentities
ClearIdentities ==
    /\ identities' = NoIdentities
    /\ privateKeys' = privateKeys

Clear ==
    /\ identities' = NoIdentities
    /\ privateKeys' = NoPrivateKeys

(***************************************************************************)
(* add_key for each item of loaded, in an order left open, on top of the   *)
(* dictionaries ids and privs.  listed gives the blob of an item and       *)
(* material its private key; of two items with one blob the later wins.    *)
(***************************************************************************)
WithBlob(loaded, listed, k) == {i \in loaded : listed[i] = k}

AddKeys(ids, privs, loaded, listed, material) ==
    /\ identities' \in [Keys -> MaybeItem]
    /\ \A k \in Keys :
          \/ identities'[k] \in WithBlob(loaded, listed, k)
          \/ WithBlob(loaded, listed, k) = {} /\ identities'[k] = ids[k]
    /\ privateKeys' =
          [k \in Keys |-> IF WithBlob(loaded, listed, k) = {}
                          THEN privs[k]
                          ELSE material[identities'[k]]]
=============================================================================
