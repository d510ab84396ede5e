--------------------------- MODULE MCLedgerReplay ---------------------------
(***************************************************************************)
(* Instance of LedgerReplay: two burns of the same holder and amount, and  *)
(* publishers that draw one of four txids.                                 *)
(***************************************************************************)
EXTENDS LedgerReplay

CONSTANTS gold, sol, ann, home, here, near

Burned(sig) ==
  [sourceTx |-> sig, burnLocator |-> 0, mint |-> gold, amount |-> 1,
   destination |-> home, burnAuthority |-> ann, role |-> "owner"]

MCBurns == {Burned(1), Burned(2)}
=============================================================================
