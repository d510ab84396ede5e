---------------------------- MODULE Inscriptions ----------------------------
(***************************************************************************)
(* Which stamps count (src/lib/inscriptions.ts): the inscriptions observed *)
(* on Zcash, read in the canonical order, against the burns observed on    *)
(* Solana.  Zcash itself has no opinion, so anyone may inscribe anything.  *)
(*                                                                         *)
(* An inscription is [txid, height, script, outputs], its script named by  *)
(* a member of DOMAIN Script; a burn is [signature, err, mint, amountBase, *)
(* authority, memos], and is finalized when its signature is in a set.  A  *)
(* memo's text stands for the text without the blanks around it.           *)
(***************************************************************************)
EXTENDS Inscribe

CONSTANTS
  Script,            \* Script[s]: the bytes of the script named s
  Burns,             \* the burns observed on Solana, in order
  MinConfirmations,  \* what makes an inscription count
  AcceptProtocols    \* the protocol identifiers that are indexed

ASSUME InscriptionsAssumption ==
  /\ MinConfirmations \in Nat \ {0}
  /\ Len(Burns) \in Nat /\ DOMAIN Burns = 1 .. Len(Burns)
  /\ \A i \in DOMAIN Burns : Burns[i].amountBase \in Nat

Mints == {Burns[i].mint : i \in DOMAIN Burns}

canonicalOrder_txid(a, b) == a.txid < b.txid

canonicalOrder(a, b) == a.height < b.height \/ (a.height = b.height /\ a.txid < b.txid)

(* ------------------------------ one claim ------------------------------ *)

\* The burns of the transaction a stamp cites, and those of them that are of
\* the stamp's mint.
entries(stamp) ==
  IF stamp = NotAStamp THEN {} ELSE {i \in DOMAIN Burns : Burns[i].signature = stamp.burn}
cited(stamp) == {i \in entries(stamp) : Burns[i].mint = stamp.mint}

\* What each script carries, with the burns it cites, read once.
Carried == {LET stamp == decodeStamp(Script[s])
            IN [script |-> s, stamp |-> stamp, found |-> entries(stamp) # {},
                cited |-> cited(stamp)] : s \in DOMAIN Script}
carried(s) == CHOOSE read \in Carried : read.script = s

authorized(burn, to) == \E memo \in burn.memos : memo.text = to /\ burn.authority \in memo.signers

delivered(item, to) ==
  FoldLeft(LAMBDA sum, output : IF output.address = to THEN sum + output.zatoshis ELSE sum,
           0, item.outputs)

verdict_unclaimed(item, read, claimed, final, tip) ==
  LET stamp == read.stamp
      burn == Burns[Min(read.cited)]
  IN
  IF stamp = NotAStamp THEN "not_an_inscription"
  ELSE IF stamp.p \notin AcceptProtocols THEN "foreign_protocol"
  ELSE IF tip - item.height + 1 < MinConfirmations THEN "pending"
  ELSE IF read.cited = {} THEN "mint_mismatch"
  ELSE IF burn.signature \notin final THEN "burn_unconfirmed"
  ELSE IF burn.amountBase # stamp.amt THEN "amount_mismatch"
  ELSE IF ~authorized(burn, stamp.to) THEN "recipient_unauthorized"
  ELSE IF delivered(item, stamp.to) <= 0 THEN "not_delivered"
  ELSE "accepted"

verdict_unburied(item, read, claimed, final, tip) ==
  LET stamp == read.stamp
      burn == Burns[Min(read.cited)]
  IN
  IF stamp = NotAStamp THEN "not_an_inscription"
  ELSE IF stamp.p \notin AcceptProtocols THEN "foreign_protocol"
  ELSE IF read.cited = {} THEN "mint_mismatch"
  ELSE IF burn.signature \notin final THEN "burn_unconfirmed"
  ELSE IF burn.amountBase # stamp.amt THEN "amount_mismatch"
  ELSE IF ~authorized(burn, stamp.to) THEN "recipient_unauthorized"
  ELSE IF delivered(item, stamp.to) <= 0 THEN "not_delivered"
  ELSE IF stamp.burn \in claimed THEN "already_claimed"
  ELSE "accepted"

\* What becomes of an inscription, given what its script carries, by the first
\* check that it fails; claimed names the burns that have been claimed before.
verdict(item, read, claimed, final, tip) ==
  LET stamp == read.stamp
      burn == Burns[Min(read.cited)]
  IN
  IF stamp = NotAStamp THEN "not_an_inscription"
  ELSE IF stamp.p \notin AcceptProtocols THEN "foreign_protocol"
  ELSE IF tip - item.height + 1 < MinConfirmations THEN "pending"
  ELSE IF ~read.found THEN "burn_not_found"
  ELSE IF read.cited = {} THEN "mint_mismatch"
  ELSE IF burn.err THEN "burn_failed"
  ELSE IF burn.signature \notin final THEN "burn_unconfirmed"
  ELSE IF burn.amountBase # stamp.amt THEN "amount_mismatch"
  ELSE IF ~authorized(burn, stamp.to) THEN "recipient_unauthorized"
  ELSE IF delivered(item, stamp.to) <= 0 THEN "not_delivered"
  ELSE IF stamp.burn \in claimed THEN "already_claimed"
  ELSE "accepted"

(* ------------------------------- the set ------------------------------- *)

EmptySet == [accepted |-> {}, rejected |-> {}, pending |-> {}, claimedBurns |-> {},
             supplyByMint |-> [m \in Mints |-> 0]]

filed(set, item, stamp, reason) ==
  CASE reason = "accepted" ->
         [set EXCEPT !.accepted = @ \cup {item.txid}, !.claimedBurns = @ \cup {stamp.burn},
                     !.supplyByMint[stamp.mint] = @ + stamp.amt]
    [] reason = "pending" -> [set EXCEPT !.pending = @ \cup {item.txid}]
    [] OTHER -> [set EXCEPT !.rejected = @ \cup {[id |-> item.txid, reason |-> reason]}]

indexOne(set, item, read, final, tip) ==
  filed(set, item, read.stamp, verdict(item, read, set.claimedBurns, final, tip))

\* The one of them that the order puts last.
latest(items) == CHOOSE x \in items : \A y \in items : y = x \/ canonicalOrder(y, x)

\* All of them one after the other in the canonical order, which is total: no
\* two inscriptions have one txid, so nothing is left of the order they were
\* found in.
indexInscriptions(inscriptions, final, tip) ==
  LET index[items \in SUBSET inscriptions] ==
        IF items = {} THEN EmptySet
        ELSE LET item == latest(items)
             IN indexOne(index[items \ {item}], item, carried(item.script), final, tip)
  IN index[inscriptions]
=============================================================================
