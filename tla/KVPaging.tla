------------------------------- MODULE KVPaging -------------------------------
(***************************************************************************)
(* How the plugin's key-value store lists its keys a page at a time.       *)
(*                                                                         *)
(* Pages are cut by offset from the keys present at the moment of the      *)
(* call, in key order, so keys inserted or deleted between two calls shift *)
(* the rest (the reason for the recheck in rebuildIndex and for collecting *)
(* before deleting in runJob).                                             *)
(***************************************************************************)
EXTENDS Naturals, FiniteSets

\* The number of present keys listed before k.
Rank(present, pos, k) == Cardinality({j \in present : pos[j] < pos[k]})

\* KVStore.ListKeys(i, size).
KeysOnPage(present, pos, size, i) ==
    {k \in present : Rank(present, pos, k) \div size = i}

\* What a listing order is: no two keys share a position.
IsKeyOrder(pos, keys) ==
    /\ pos \in [keys -> Nat]
    /\ \A j, k \in keys : pos[j] = pos[k] => j = k
==============================================================================
