------------------------------ MODULE MCLedger ------------------------------
(***************************************************************************)
(* Instance of Ledger: two burns of one mint to the same destination, one  *)
(* of another mint, and their failed, unfinalized, unsigned, redirected    *)
(* and doubled variants, replayed against seven Zcash feeds.               *)
(***************************************************************************)
EXTENDS Ledger

CONSTANTS gold, coal, sol, ann, bob, home, away, sapling, here, there, near,
          far

Memo(m, n, d) ==
  [network |-> near, mint |-> m, amount |-> n, destination |-> d]

Burn(sig, slot, m, n, who, d) ==
  [signature |-> sig, slot |-> slot, network |-> here, failed |-> FALSE,
   finalized |-> TRUE,
   burn |-> [locator |-> 0, mint |-> m, authority |-> who, amount |-> n],
   mint |-> m, mintEligible |-> TRUE,
   account |-> [mint |-> m, owner |-> ann, delegate |-> bob, delegated |-> 2,
                frozen |-> FALSE],
   signers |-> {who}, intents |-> <<Memo(m, n, d)>>]

one == Burn(1, 1, gold, 1, ann, home)
two == Burn(2, 1, gold, 2, bob, home)
other == Burn(3, 2, coal, 3, ann, away)

MCFeed ==
  {one, two, other,
   [one EXCEPT !.finalized = FALSE],
   [other EXCEPT !.failed = TRUE],
   [two EXCEPT !.burn.amount = 3],
   [one EXCEPT !.signature = 4, !.signers = {bob}],
   [one EXCEPT !.signature = 5, !.intents = Append(@, Memo(gold, 1, away))],
   [one EXCEPT !.signature = 6, !.intents = << >>],
   Burn(7, 2, gold, 1, ann, sapling),
   Burn(8, 2, sol, 1, ann, home),
   [two EXCEPT !.signature = 9, !.account.delegated = 1]}

Pub(tx, txid, depth, mentions) ==
  [txid |-> txid, network |-> near, height |-> txid, confirmations |-> depth,
   inBestChain |-> TRUE, payload |-> issuanceOf(tx),
   mentions |-> {issuanceOf(ty) : ty \in {tx} \cup mentions},
   pays |-> {issuanceOf(tx).destination}]

MCZcashFeeds ==
  {{},
   {Pub(one, 1, 1, {}), Pub(two, 2, 1, {}), Pub(other, 3, 1, {})},
   {Pub(one, 2, 2, {}), Pub(one, 1, 1, {}), Pub(two, 3, 0, {})},
   {Pub(one, 1, 0, {}), Pub(other, 2, 1, {one}), Pub(two, 3, 2, {})},
   {[Pub(two, 1, 1, {}) EXCEPT !.inBestChain = FALSE], Pub(two, 2, 1, {})},
   {[Pub(one, 1, 1, {}) EXCEPT !.pays = {away}],
    [Pub(two, 2, 1, {}) EXCEPT !.network = far], Pub(other, 3, 1, {})},
   {Pub(Burn(8, 2, sol, 1, ann, home), 1, 1, {}),
    Pub(Burn(7, 2, gold, 1, ann, sapling), 2, 1, {}), Pub(one, 3, 1, {})}}
=============================================================================
