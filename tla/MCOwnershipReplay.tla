------------------------- MODULE MCOwnershipReplay -------------------------
(***************************************************************************)
(* Instance of OwnershipReplay: ann owns the stamp; she has signed an      *)
(* offer to bob, one to cy, the transfer that answers the first, and a     *)
(* gift to cy; bob has signed a gift of what he would receive.             *)
(***************************************************************************)
EXTENDS OwnershipReplay

CONSTANTS c1, ann, bob, cy, k1

MCOriginalRecipient == [c \in {c1} |-> ann]

Offer(buyer) ==
  [stamp |-> c1, sequence |-> 1, seller |-> ann, buyer |-> buyer, price |-> 1,
   hashLock |-> k1, signed |-> TRUE]

Auth(seq, from, to, offer) ==
  [stamp |-> c1, sequence |-> seq, from |-> from, to |-> to, offer |-> offer,
   preimage |-> IF offer = None THEN None ELSE k1, signed |-> TRUE]

giftToCy == Auth(1, ann, cy, None)
onward == Auth(2, bob, cy, None)
soldToBob == Auth(1, ann, bob, Offer(bob))

MCArtifact == {Offer(bob), Offer(cy), giftToCy, onward, soldToBob}
MCWithheld == {giftToCy, Offer(cy)}
MCWithheldGift == {giftToCy}
MCWithheldOffer == {Offer(cy)}
=============================================================================
