--------------------------- MODULE OwnershipRules ---------------------------
(***************************************************************************)
(* The stamp-exp/1 ownership rules of src/lib/protocol/ownership.ts: what  *)
(* one on-chain record does to the ownership state of the stamp it names.  *)
(* The module has no variables.  Ownership.tla runs these rules as the     *)
(* loop of resolveOwnership; OwnershipReplay.tla and Market.tla apply them *)
(* to a chain that changes.                                                *)
(*                                                                         *)
(* Abstractions: a record carries the artifact it commits to instead of    *)
(* its sha256 (the hash is taken to be injective), a hash lock is named by *)
(* the one secret that opens it, and the outcome of verifying a signature  *)
(* over the canonical preimage is the field "signed" of the artifact.  The  *)
(* place of a record is its position in the canonical order by height,     *)
(* txid and output index; it also identifies the record.                   *)
(***************************************************************************)
EXTENDS Naturals, Sequences

CONSTANTS
  Commitment,         \* stamp commitments that a record can name
  Issued,             \* those with an accepted issuance
  OriginalRecipient,  \* the address each of them was issued to
  Address,            \* owner addresses
  Secret,             \* hash-lock secrets
  Price,              \* offer prices
  None,               \* "none", null and undefined
  MaxSequence,        \* largest sequence a record can carry (u32 in the code)
  Network,            \* Zcash networks a publication can be on
  DestinationNetwork, \* the one this resolver serves
  MinConfirmations    \* confirmation depth

ASSUME OwnershipAssumption ==
  /\ Issued \subseteq Commitment
  /\ OriginalRecipient \in [Issued -> Address]
  /\ None \notin Address
  /\ MaxSequence \in Nat
  /\ MinConfirmations \in Nat
  /\ DestinationNetwork \in Network

Sequence == 0 .. MaxSequence

SettlementOffer ==
  [stamp : Commitment, sequence : Sequence, seller : Address, buyer : Address,
   price : Price, hashLock : Secret, signed : BOOLEAN]

\* An offer hash and a record must never be confused with "none".
ASSUME NoneIsNoOffer == None \notin SettlementOffer

TransferAuthorization ==
  [stamp : Commitment, sequence : Sequence, from : Address, to : Address,
   offer : SettlementOffer \cup {None}, preimage : Secret \cup {None},
   signed : BOOLEAN]

CanonicalRecord ==
     [kind : {"offer"}, stamp : Commitment, sequence : Sequence,
      artifact : SettlementOffer, place : Nat, network : Network,
      inBestChain : BOOLEAN, confirmations : Nat]
  \cup
     [kind : {"transfer"}, stamp : Commitment, sequence : Sequence,
      artifact : TransferAuthorization, place : Nat, network : Network,
      inBestChain : BOOLEAN, confirmations : Nat]

OwnershipEvent ==
  [sequence : Sequence, from : Address, to : Address, place : Nat,
   offer : SettlementOffer \cup {None}, price : Price \cup {None}]

StampOwnership ==
  [currentOwner : Address, sequence : Sequence,
   history : Seq(OwnershipEvent),
   boundOffers : [Sequence -> SettlementOffer \cup {None}]]

Sale ==
  [stamp : Commitment, sequence : Sequence, seller : Address,
   buyer : Address, price : Price, place : Nat]

-----------------------------------------------------------------------------

IssuedStamp(c) ==
  [currentOwner |-> OriginalRecipient[c], sequence |-> 0, history |-> << >>,
   boundOffers |-> [n \in Sequence |-> None]]

PendingReason ==
  {"awaiting_confirmations", "not_in_best_chain",
   "offer_artifact_unavailable", "authorization_unavailable"}

RejectReason ==
  {"unauthorized_transfer", "wrong_sequence", "conflicting_offer",
   "offer_mismatch", "hash_lock_unsatisfied", "unknown_stamp",
   "wrong_network"}

(* The tests the checks are made of.  Beside each stands the mistake that   *)
(* the mutation runs put in its place.                                     *)

nextInSequence_skips(s, r) == r.sequence > s.sequence
nextInSequence(s, r) == r.sequence = s.sequence + 1

ownerSigned_anyone(s, address, artifact) == artifact.signed
ownerSigned(s, address, artifact) ==
  address = s.currentOwner /\ artifact.signed

verifyHashLock_unchecked(lock, preimage) == TRUE
verifyHashLock(lock, preimage) == preimage # None /\ preimage = lock

alreadyBound_last(s, n) == FALSE
alreadyBound(s, n) == s.boundOffers[n] # None

paysOffer_anyBuyer(bound, auth) == auth.offer = bound
paysOffer(bound, auth) == auth.offer = bound /\ auth.to = bound.buyer

unavailable_transfersOnly(available, r) ==
  r.kind = "transfer" /\ r.artifact \notin available
unavailable(available, r) == r.artifact \notin available

awaiting_never(r) == FALSE
awaiting(r) == r.confirmations < MinConfirmations

inBestChain_ignored(r) == TRUE
inBestChain(r) == r.inBestChain

\* "bound", or why the offer record r does not bind its sequence of stamp s.
checkOffer(s, r) ==
  LET offer == r.artifact
  IN  IF offer.stamp # r.stamp \/ offer.sequence # r.sequence
        THEN "offer_mismatch"
      ELSE IF ~nextInSequence(s, r)
        THEN "wrong_sequence"
      ELSE IF ~ownerSigned(s, offer.seller, offer)
        THEN "unauthorized_transfer"
      ELSE IF alreadyBound(s, r.sequence)
        THEN "conflicting_offer"
      ELSE "bound"

\* The sale terms: how a transfer must answer the offer bound at its sequence.
checkTerms_giftPasses(bound, auth) ==
  IF auth.offer = None THEN "applied"
  ELSE IF bound = None \/ ~paysOffer(bound, auth) THEN "offer_mismatch"
  ELSE IF ~verifyHashLock(bound.hashLock, auth.preimage)
    THEN "hash_lock_unsatisfied"
  ELSE "applied"

checkTerms(bound, auth) ==
  IF bound = None
    THEN IF auth.offer = None THEN "applied" ELSE "offer_mismatch"
  ELSE IF ~paysOffer(bound, auth)
    THEN "offer_mismatch"
  ELSE IF ~verifyHashLock(bound.hashLock, auth.preimage)
    THEN "hash_lock_unsatisfied"
  ELSE "applied"

\* "applied", or why the transfer record r does not move stamp s.
checkTransfer(s, r) ==
  LET auth == r.artifact
  IN  IF auth.stamp # r.stamp \/ auth.sequence # r.sequence
        THEN "unauthorized_transfer"
      ELSE IF ~nextInSequence(s, r)
        THEN "wrong_sequence"
      ELSE IF ~ownerSigned(s, auth.from, auth)
        THEN "unauthorized_transfer"
      ELSE checkTerms(s.boundOffers[r.sequence], auth)

\* The verdict of the resolver on record r: stamps is the ownership state so
\* far, available the artifacts published next to the chain.
verdict(stamps, available, r) ==
  IF r.stamp \notin Issued
    THEN "unknown_stamp"
  ELSE IF r.network # DestinationNetwork
    THEN "wrong_network"
  ELSE IF ~inBestChain(r)
    THEN "not_in_best_chain"
  ELSE IF awaiting(r)
    THEN "awaiting_confirmations"
  ELSE IF unavailable(available, r)
    THEN IF r.kind = "offer" THEN "offer_artifact_unavailable"
                             ELSE "authorization_unavailable"
  ELSE IF r.kind = "offer"
    THEN checkOffer(stamps[r.stamp], r)
  ELSE checkTransfer(stamps[r.stamp], r)

\* Binding an offer and applying a transfer, to a stamp s they are valid for.
bindOffer_record(s, r) == [s EXCEPT !.boundOffers[r.sequence] = r]
bindOffer(s, r) == [s EXCEPT !.boundOffers[r.sequence] = r.artifact]

eventOf(s, r) ==
  LET bound == s.boundOffers[r.sequence]
  IN  [sequence |-> r.sequence, from |-> r.artifact.from,
       to |-> r.artifact.to, place |-> r.place, offer |-> r.artifact.offer,
       price |-> IF bound = None THEN None ELSE bound.price]

applyTransfer(s, r) ==
  [s EXCEPT !.history = Append(@, eventOf(s, r)),
            !.currentOwner = r.artifact.to,
            !.sequence = r.sequence]

saleOf_staleSequence(s, r) ==
  [stamp |-> r.stamp, sequence |-> s.sequence, seller |-> r.artifact.from,
   buyer |-> r.artifact.to, price |-> s.boundOffers[r.sequence].price,
   place |-> r.place]

saleOf(s, r) ==
  [stamp |-> r.stamp, sequence |-> r.sequence, seller |-> r.artifact.from,
   buyer |-> r.artifact.to, price |-> s.boundOffers[r.sequence].price,
   place |-> r.place]

-----------------------------------------------------------------------------

\* The ownership state after record r, and after all records of a sorted input.
\* (The choice from a singleton lets TLC compute each state once.)
applyRecord(stamps, available, r) ==
  LET result == verdict(stamps, available, r)
  IN  IF result = "bound"
        THEN [stamps EXCEPT ![r.stamp] = bindOffer(@, r)]
      ELSE IF result = "applied"
        THEN [stamps EXCEPT ![r.stamp] = applyTransfer(@, r)]
      ELSE stamps

resolveOwnership(records, available) ==
  LET after[i \in 0 .. Len(records)] ==
        IF i = 0 THEN [c \in Issued |-> IssuedStamp(c)]
        ELSE CHOOSE next \in {applyRecord(stamps, available, records[i]) :
                               stamps \in {after[i - 1]}} : TRUE
  IN  after[Len(records)]
=============================================================================
