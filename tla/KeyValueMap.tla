---------------------------- MODULE KeyValueMap ----------------------------
(***************************************************************************)
(* What BTree.h promises its users (Set, RequestMap, the client library's *)
(* userData and endExist tables): a finite map from keys to values where  *)
(* insert adds a pair only for a key not yet present, remove deletes the  *)
(* pair of a present key, and every other call leaves the map alone.      *)
(***************************************************************************)
EXTENDS FiniteSets, TLC

CONSTANTS Keys, Vals

VARIABLE map

Init == map = <<>>

Add(k, v) ==
    /\ k \notin DOMAIN map
    /\ map' = map @@ (k :> v)

Delete(k) ==
    /\ k \in DOMAIN map
    /\ map' = [x \in DOMAIN map \ {k} |-> map[x]]

Next == \E k \in Keys : (\E v \in Vals : Add(k, v)) \/ Delete(k)

Spec == Init /\ [][Next]_map
============================================================================
