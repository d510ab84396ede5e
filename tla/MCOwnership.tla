----------------------------- MODULE MCOwnership -----------------------------
(***************************************************************************)
(* Instance of Ownership: one issued stamp and one commitment without      *)
(* issuance, three addresses, and every input of up to MaxRecords records  *)
(* drawn from Templates, in every order.                                   *)
(***************************************************************************)
EXTENDS Ownership

CONSTANTS c1, x1, ann, bob, cy, k1, k2, cheap, dear, here, there, MaxRecords

MCOriginalRecipient == [c \in {c1} |-> ann]

Offer(seq, seller, buyer, price, signed) ==
  [stamp |-> c1, sequence |-> seq, seller |-> seller, buyer |-> buyer,
   price |-> price, hashLock |-> k1, signed |-> signed]

Auth(seq, from, to, offer, preimage, signed) ==
  [stamp |-> c1, sequence |-> seq, from |-> from, to |-> to, offer |-> offer,
   preimage |-> preimage, signed |-> signed]

toBob == Offer(1, ann, bob, cheap, TRUE)
toCy == Offer(1, ann, cy, dear, TRUE)
onward == Offer(2, bob, cy, dear, TRUE)
forged == Offer(1, ann, cy, cheap, FALSE)

giftToBob == Auth(1, ann, bob, None, None, TRUE)
soldToBob == Auth(1, ann, bob, toBob, k1, TRUE)
soldToCy == Auth(1, ann, cy, toBob, k1, TRUE)
wrongSecret == Auth(1, ann, bob, toBob, k2, TRUE)
forgedGift == Auth(1, ann, cy, None, None, FALSE)
resold == Auth(2, bob, cy, onward, k1, TRUE)
giftToCy == Auth(2, bob, cy, None, None, TRUE)
skipped == Auth(2, ann, bob, None, None, TRUE)
notMine == Auth(1, bob, cy, None, None, TRUE)

Rec(kind, artifact) ==
  [kind |-> kind, stamp |-> c1, sequence |-> artifact.sequence,
   artifact |-> artifact, network |-> here, inBestChain |-> TRUE,
   confirmations |-> 1]

Templates ==
  {Rec("offer", o) : o \in {toBob, toCy, onward, forged}} \cup
  {Rec("transfer", t) : t \in {giftToBob, soldToBob, soldToCy, wrongSecret,
                               forgedGift, resold, giftToCy, skipped,
                               notMine}} \cup
  {[Rec("offer", toCy) EXCEPT !.confirmations = 0],
   [Rec("transfer", giftToBob) EXCEPT !.inBestChain = FALSE],
   [Rec("offer", toBob) EXCEPT !.sequence = 2],
   [Rec("transfer", giftToBob) EXCEPT !.stamp = x1],
   [Rec("transfer", giftToBob) EXCEPT !.network = there]}

At(r, p) ==
  [kind |-> r.kind, stamp |-> r.stamp, sequence |-> r.sequence,
   artifact |-> r.artifact, place |-> p, network |-> r.network,
   inBestChain |-> r.inBestChain, confirmations |-> r.confirmations]

MCFeed == {At(r, p) : r \in Templates, p \in 1 .. MaxRecords}

Everything ==
  {toBob, toCy, onward, forged, giftToBob, soldToBob, soldToCy, wrongSecret,
   forgedGift, resold, giftToCy, skipped, notMine}

\* All artifacts published, or the sale's authorization withheld.
MCArtifacts == {Everything, Everything \ {soldToBob, onward}}

\* Two gifts of the same stamp at the same sequence.
giftToCyInstead == Auth(1, ann, cy, None, None, TRUE)
MCConflictFeed ==
  {At(Rec("transfer", t), p) : t \in {giftToBob, giftToCyInstead}, p \in 1 .. 2}
MCConflictArtifacts == {{giftToBob, giftToCyInstead}}
=============================================================================
