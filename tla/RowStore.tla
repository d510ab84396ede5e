------------------------------ MODULE RowStore ------------------------------
(***************************************************************************)
(* What a store promises (the interface Store of src/lib/store/types.ts    *)
(* with the durability of durability.ts): rows under keys, written whole   *)
(* and one at a time. A durable store keeps them; a file may be lost       *)
(* altogether, never in part.                                              *)
(***************************************************************************)
CONSTANTS Key, Row, Nothing
VARIABLES rows, durable

vars == <<rows, durable>>

Init == rows = [k \in Key |-> Nothing] /\ durable \in BOOLEAN

Put(k, r) == rows' = [rows EXCEPT ![k] = r] /\ UNCHANGED durable

Lose ==
  /\ ~durable
  /\ rows' = [k \in Key |-> Nothing]
  /\ UNCHANGED durable

Next == (\E k \in Key, r \in Row : Put(k, r)) \/ Lose

Spec == Init /\ [][Next]_vars
=============================================================================
