------------------------------ MODULE KVStore ------------------------------
(***************************************************************************)
(* The key-value stores the Vertix modules keep their state in (a          *)
(* core/store.KVStore per module).  A store, or the part of it under one   *)
(* key prefix, is a function whose domain is the set of keys present.      *)
(***************************************************************************)

\* The empty store: no key is present.
EmptyStore == [k \in {} |-> k]

\* store.Set(key, value): adds the key or overwrites what it held.
Put(store, key, value) ==
    [k \in DOMAIN store \cup {key} |-> IF k = key THEN value ELSE store[k]]

\* A store whose keys are in K and whose values are in V.
IsStore(store, K, V) ==
    /\ DOMAIN store \subseteq K
    /\ store \in [DOMAIN store -> V]

============================================================================
