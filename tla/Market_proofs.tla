---------------------------- MODULE Market_proofs ----------------------------
(***************************************************************************)
(* Proofs about ownership and the marketplace, for every set of stamps,    *)
(* addresses, records, artifacts and owners, every number of listings and  *)
(* every interleaving of their requests.  The first part is about the      *)
(* resolver and its replay: each rule preserves the state of the one stamp *)
(* it touches, and the theorems about the whole resolver rest on that.     *)
(* The second is about what a replay keeps when the chain grows or ages    *)
(* and a stored artifact is replaced, and when it delivers a stamp.  The   *)
(* third is the inductive invariant of the marketplace.                    *)
(***************************************************************************)
EXTENDS Market, Ownership, OwnershipReplay, WellFoundedInduction, TLAPS

\* What the rules preserve of one stamp.
StampInv(c, s) ==
  /\ Contiguous(s)
  /\ CustodyOf(c, s)
  /\ OfferKept(s)
  /\ GiftsUnbound(s)

IInv == TypeOK /\ \A c \in Issued : StampInv(c, stamps[c])

-----------------------------------------------------------------------------

\* What the two verdicts that change state say about the record and the stamp.
LEMMA BoundVerdict ==
  ASSUME NEW r \in CanonicalRecord, Verdict(r) = "bound"
  PROVE  /\ r.stamp \in Issued
         /\ r.kind = "offer"
         /\ checkOffer(stamps[r.stamp], r) = "bound"
<1>1. /\ r.stamp \in Issued
      /\ \/ r.kind = "offer" /\ checkOffer(stamps[r.stamp], r) = "bound"
         \/ checkTransfer(stamps[r.stamp], r) = "bound"
  BY DEF Verdict, verdict, inBestChain, awaiting, unavailable
<1>2. checkTransfer(stamps[r.stamp], r) # "bound"
  BY DEF checkTransfer, checkTerms
<1>. QED  BY <1>1, <1>2

LEMMA AppliedVerdict ==
  ASSUME NEW r \in CanonicalRecord, Verdict(r) = "applied"
  PROVE  /\ r.stamp \in Issued
         /\ r.kind = "transfer"
         /\ r.network = DestinationNetwork
         /\ r.inBestChain
         /\ r.artifact \in available
         /\ r.confirmations >= MinConfirmations
         /\ checkTransfer(stamps[r.stamp], r) = "applied"
<1>1. /\ r.stamp \in Issued
      /\ r.network = DestinationNetwork
      /\ r.inBestChain
      /\ r.artifact \in available
      /\ ~(r.confirmations < MinConfirmations)
      /\ \/ r.kind = "offer" /\ checkOffer(stamps[r.stamp], r) = "applied"
         \/ r.kind # "offer" /\ checkTransfer(stamps[r.stamp], r) = "applied"
  BY DEF Verdict, verdict, inBestChain, awaiting, unavailable
<1>2. checkOffer(stamps[r.stamp], r) # "applied"
  BY DEF checkOffer
<1>3. r.kind \in {"offer", "transfer"} /\ r.confirmations \in Nat
  BY DEF CanonicalRecord
<1>. QED  BY <1>1, <1>2, <1>3, OwnershipAssumption

-----------------------------------------------------------------------------

\* The state a stamp starts in is well formed and keeps the invariant.
LEMMA IssuedKeeps ==
  ASSUME NEW c \in Issued
  PROVE  IssuedStamp(c) \in StampOwnership /\ StampInv(c, IssuedStamp(c))
<1>1. 0 \in Sequence /\ OriginalRecipient[c] \in Address
  BY OwnershipAssumption DEF Sequence
<1>2. IssuedStamp(c) \in StampOwnership
  BY <1>1 DEF IssuedStamp, StampOwnership
<1>3. StampInv(c, IssuedStamp(c))
  BY <1>1 DEF IssuedStamp, StampInv, Contiguous, CustodyOf, OfferKept,
              GiftsUnbound
<1>. QED  BY <1>2, <1>3

\* Binding an offer keeps the stamp well formed and its history as it was.
LEMMA BindKeeps ==
  ASSUME NEW c \in Issued, NEW s \in StampOwnership,
         NEW r \in CanonicalRecord, r.kind = "offer",
         checkOffer(s, r) = "bound", StampInv(c, s)
  PROVE  bindOffer(s, r) \in StampOwnership /\ StampInv(c, bindOffer(s, r))
<1>. DEFINE o == r.artifact
            t == bindOffer(s, r)
<1>1. /\ o \in SettlementOffer /\ r.sequence \in Sequence
      /\ o.sequence = r.sequence /\ r.sequence = s.sequence + 1
      /\ o.seller = s.currentOwner /\ o.signed
      /\ s.boundOffers[r.sequence] = None
  BY DEF checkOffer, CanonicalRecord, nextInSequence, ownerSigned, alreadyBound
<1>2. /\ s.boundOffers \in [Sequence -> SettlementOffer \cup {None}]
      /\ s.sequence \in Sequence /\ s.history \in Seq(OwnershipEvent)
      /\ s.currentOwner \in Address
  BY DEF StampOwnership
<1>3. /\ t.currentOwner = s.currentOwner /\ t.sequence = s.sequence
      /\ t.history = s.history
      /\ t.boundOffers = [s.boundOffers EXCEPT ![r.sequence] = o]
      /\ t \in StampOwnership
  BY <1>1, <1>2 DEF bindOffer, StampOwnership
<1>4. \A n \in Sequence :
        t.boundOffers[n] = IF n = r.sequence THEN o ELSE s.boundOffers[n]
  BY <1>1, <1>2, <1>3
<1>5. Contiguous(t) /\ CustodyOf(c, t)
  BY <1>3 DEF StampInv, Contiguous, CustodyOf
<1>6. OfferKept(t)
  BY <1>1, <1>2, <1>3, <1>4, OwnershipAssumption
  DEF StampInv, OfferKept, Sequence
<1>7. GiftsUnbound(t)
  <2>1. SUFFICES ASSUME NEW i \in 1 .. Len(s.history),
                        s.history[i].offer = None
                 PROVE  t.boundOffers[i] = None
    BY <1>3 DEF GiftsUnbound
  <2>2. i \in Sequence /\ i # r.sequence
    BY <1>1, <1>2, OwnershipAssumption DEF StampInv, Contiguous, Sequence
  <2>. QED  BY <2>1, <2>2, <1>4 DEF StampInv, GiftsUnbound
<1>. QED  BY <1>3, <1>5, <1>6, <1>7 DEF StampInv

\* What a transfer that is applied satisfies, with or without a bound offer.
LEMMA AppliedFacts ==
  ASSUME NEW s \in StampOwnership,
         NEW r \in CanonicalRecord, r.kind = "transfer",
         checkTransfer(s, r) = "applied"
  PROVE  LET auth  == r.artifact
             bound == s.boundOffers[r.sequence]
         IN  /\ auth \in TransferAuthorization
             /\ r.sequence \in Sequence /\ r.sequence = s.sequence + 1
             /\ auth.stamp = r.stamp /\ auth.sequence = r.sequence
             /\ auth.from = s.currentOwner /\ auth.signed
             /\ auth.offer = bound
             /\ bound # None => /\ bound \in SettlementOffer
                                /\ auth.to = bound.buyer
                                /\ auth.preimage = bound.hashLock
<1>1. /\ r.artifact \in TransferAuthorization /\ r.sequence \in Sequence
      /\ r.sequence = s.sequence + 1
      /\ r.artifact.stamp = r.stamp /\ r.artifact.sequence = r.sequence
      /\ r.artifact.from = s.currentOwner /\ r.artifact.signed
      /\ checkTerms(s.boundOffers[r.sequence], r.artifact) = "applied"
  BY DEF checkTransfer, CanonicalRecord, nextInSequence, ownerSigned
<1>2. s.boundOffers[r.sequence] \in SettlementOffer \cup {None}
  BY <1>1 DEF StampOwnership
<1>. QED  BY <1>1, <1>2 DEF checkTerms, verifyHashLock, paysOffer

\* Applying a transfer extends the history by one event and keeps the rest.
LEMMA ApplyShape ==
  ASSUME NEW s \in StampOwnership,
         NEW r \in CanonicalRecord, r.kind = "transfer",
         checkTransfer(s, r) = "applied"
  PROVE  LET t == applyTransfer(s, r)
             e == eventOf(s, r)
         IN  /\ t \in StampOwnership /\ e \in OwnershipEvent
             /\ t.boundOffers = s.boundOffers
             /\ t.sequence = r.sequence /\ t.currentOwner = r.artifact.to
             /\ t.history = Append(s.history, e)
             /\ Len(t.history) = Len(s.history) + 1
             /\ t.history[Len(s.history) + 1] = e
             /\ \A i \in 1 .. Len(s.history) : t.history[i] = s.history[i]
<1>. DEFINE e == eventOf(s, r)
            t == applyTransfer(s, r)
<1>1. /\ r.artifact \in TransferAuthorization /\ r.sequence \in Sequence
      /\ r.place \in Nat
  BY AppliedFacts DEF CanonicalRecord
<1>2. /\ s.boundOffers[r.sequence] \in SettlementOffer \cup {None}
      /\ s.history \in Seq(OwnershipEvent)
  BY <1>1 DEF StampOwnership
<1>3. e \in OwnershipEvent
  BY <1>1, <1>2 DEF eventOf, OwnershipEvent, TransferAuthorization,
                    SettlementOffer
<1>4. /\ t.boundOffers = s.boundOffers
      /\ t.sequence = r.sequence /\ t.currentOwner = r.artifact.to
      /\ t.history = Append(s.history, e)
  BY DEF applyTransfer, StampOwnership
<1>5. t \in StampOwnership
  <2>1. /\ Append(s.history, e) \in Seq(OwnershipEvent)
        /\ r.artifact.to \in Address
    BY <1>1, <1>2, <1>3 DEF TransferAuthorization
  <2>. QED  BY <1>1, <1>3, <2>1 DEF applyTransfer, StampOwnership
<1>. HIDE DEF e, t
<1>6. /\ Len(t.history) = Len(s.history) + 1
      /\ t.history[Len(s.history) + 1] = e
      /\ \A i \in 1 .. Len(s.history) : t.history[i] = s.history[i]
  BY <1>2, <1>3, <1>4
<1>. QED  BY <1>3, <1>4, <1>5, <1>6 DEF e, t

\* Applying a transfer keeps the invariant of the stamp it moves.
LEMMA ApplyKeeps ==
  ASSUME NEW c \in Issued, NEW s \in StampOwnership,
         NEW r \in CanonicalRecord, r.kind = "transfer",
         checkTransfer(s, r) = "applied", StampInv(c, s)
  PROVE  StampInv(c, applyTransfer(s, r))
<1>. DEFINE e == eventOf(s, r)
            t == applyTransfer(s, r)
            bound == s.boundOffers[r.sequence]
            len == Len(s.history)
<1>1. /\ t.boundOffers = s.boundOffers
      /\ t.sequence = r.sequence /\ t.currentOwner = r.artifact.to
      /\ t.history = Append(s.history, e)
      /\ Len(t.history) = len + 1 /\ t.history[len + 1] = e
      /\ \A i \in 1 .. len : t.history[i] = s.history[i]
  BY ApplyShape
<1>2. /\ r.sequence \in Sequence /\ r.sequence = s.sequence + 1
      /\ r.artifact.from = s.currentOwner
      /\ r.artifact.offer = bound
      /\ bound # None => r.artifact.to = bound.buyer
  BY AppliedFacts
<1>3. /\ e.sequence = r.sequence /\ e.from = r.artifact.from
      /\ e.to = r.artifact.to /\ e.offer = r.artifact.offer
      /\ e.price = IF bound = None THEN None ELSE bound.price
  BY DEF eventOf
<1>4. s.sequence = len /\ len \in Nat /\ r.sequence = len + 1
      /\ s.history \in Seq(OwnershipEvent)
  BY <1>2 DEF StampInv, Contiguous, StampOwnership
<1>. HIDE DEF e, t
<1>5. Contiguous(t)
  BY <1>1, <1>2, <1>3, <1>4 DEF StampInv, Contiguous
<1>6. CustodyOf(c, t)
  <2>1. \A i \in 1 .. len + 1 :
          t.history[i].from = IF i = 1 THEN OriginalRecipient[c]
                                       ELSE t.history[i - 1].to
    <3>1. ASSUME NEW i \in 1 .. len
          PROVE  t.history[i].from = IF i = 1 THEN OriginalRecipient[c]
                                              ELSE t.history[i - 1].to
      <4>1. i = 1 \/ i - 1 \in 1 .. len
        BY <1>4
      <4>. QED  BY <1>1, <4>1 DEF StampInv, CustodyOf
    <3>2. t.history[len + 1].from = IF len + 1 = 1 THEN OriginalRecipient[c]
                                                   ELSE t.history[len].to
      <4>1. s.history = << >> <=> len = 0
        BY <1>4
      <4>2. len # 0 => t.history[len] = s.history[len]
        BY <1>1, <1>4
      <4>. QED  BY <1>1, <1>2, <1>3, <1>4, <4>1, <4>2
                DEF StampInv, CustodyOf
    <3>. QED  BY <1>4, <3>1, <3>2
  <2>2. t.history # << >>
    BY <1>1, <1>4
  <2>. QED  BY <1>1, <1>3, <2>1, <2>2 DEF CustodyOf
<1>7. OfferKept(t)
  <2>1. SUFFICES ASSUME NEW n \in Sequence, s.boundOffers[n] # None
                 PROVE  /\ n \in 1 .. t.sequence
                        /\ s.boundOffers[n].sequence = n
                        /\ s.boundOffers[n].signed
                        /\ t.history[n].offer = s.boundOffers[n]
                        /\ t.history[n].from = s.boundOffers[n].seller
                        /\ t.history[n].to = s.boundOffers[n].buyer
                        /\ t.history[n].price = s.boundOffers[n].price
    <3>. HIDE DEF bound, len
    <3>. QED  BY <1>1, <1>2, <1>4 DEF OfferKept
  <2>2. /\ n \in 1 .. s.sequence + 1
        /\ s.boundOffers[n].sequence = n /\ s.boundOffers[n].signed
        /\ n = s.sequence + 1 => s.boundOffers[n].seller = s.currentOwner
        /\ n <= s.sequence =>
             /\ s.history[n].offer = s.boundOffers[n]
             /\ s.history[n].from = s.boundOffers[n].seller
             /\ s.history[n].to = s.boundOffers[n].buyer
             /\ s.history[n].price = s.boundOffers[n].price
    BY <2>1 DEF StampInv, OfferKept
  <2>3. CASE n = len + 1
    BY <1>1, <1>2, <1>3, <1>4, <2>1, <2>2, <2>3
  <2>4. CASE n \in 1 .. len
    BY <1>1, <1>2, <1>4, <2>2, <2>4
  <2>. QED  BY <1>4, <2>2, <2>3, <2>4
<1>8. GiftsUnbound(t)
  BY <1>1, <1>2, <1>3, <1>4 DEF StampInv, GiftsUnbound
<1>. QED  BY <1>5, <1>6, <1>7, <1>8 DEF StampInv, t

-----------------------------------------------------------------------------

\* The three kinds of step: nothing, or one rule applied to one stamp.
Keeps(r) ==
  /\ Verdict(r) \notin {"bound", "applied"}
  /\ UNCHANGED <<stamps, sales>>

Binds(r) ==
  /\ Verdict(r) = "bound"
  /\ r.stamp \in Issued /\ r.kind = "offer"
  /\ checkOffer(stamps[r.stamp], r) = "bound"
  /\ stamps' = [stamps EXCEPT ![r.stamp] = bindOffer(@, r)]
  /\ UNCHANGED sales

Applies(r) ==
  /\ Verdict(r) = "applied"
  /\ r.stamp \in Issued /\ r.kind = "transfer"
  /\ checkTransfer(stamps[r.stamp], r) = "applied"
  /\ stamps' = [stamps EXCEPT ![r.stamp] = applyTransfer(@, r)]
  /\ sales' = IF stamps[r.stamp].boundOffers[r.sequence] = None
                THEN sales
                ELSE Append(sales, saleOf(stamps[r.stamp], r))

LEMMA StepShape ==
  ASSUME Next
  PROVE  \E r \in CanonicalRecord :
           r \in Feed /\ Iterate(r) /\ (Keeps(r) \/ Binds(r) \/ Applies(r))
<1>1. PICK r \in Feed : LeavePending(r) \/ Reject(r) \/ BindOffer(r)
                       \/ ApplyTransfer(r)
  BY DEF Next
<1>2. r \in CanonicalRecord
  BY InputAssumption
<1>3. CASE LeavePending(r) \/ Reject(r)
  BY <1>2, <1>3 DEF LeavePending, Reject, PendingReason, RejectReason, Keeps
<1>4. CASE BindOffer(r)
  BY <1>2, <1>4, BoundVerdict DEF BindOffer, Binds
<1>5. CASE ApplyTransfer(r)
  BY <1>2, <1>5, AppliedVerdict DEF ApplyTransfer, Applies
<1>. QED  BY <1>1, <1>3, <1>4, <1>5

\* The verdicts: every record is pending, rejected, bound or applied.
LEMMA VerdictType ==
  ASSUME NEW r \in CanonicalRecord
  PROVE  Verdict(r) \in PendingReason \cup RejectReason \cup {"bound", "applied"}
<1>1. checkOffer(stamps[r.stamp], r) \in RejectReason \cup {"bound"}
  BY DEF checkOffer, RejectReason
<1>2. checkTransfer(stamps[r.stamp], r) \in RejectReason \cup {"applied"}
  BY DEF checkTransfer, checkTerms, RejectReason
<1>3. \/ Verdict(r) \in PendingReason \cup RejectReason
      \/ Verdict(r) = checkOffer(stamps[r.stamp], r)
      \/ Verdict(r) = checkTransfer(stamps[r.stamp], r)
  BY DEF Verdict, verdict, PendingReason, RejectReason
<1>. QED  BY <1>1, <1>2, <1>3

LEMMA InitIInv == Init => IInv
<1>. SUFFICES ASSUME Init PROVE IInv
  OBVIOUS
<1>1. \A c \in Issued : /\ stamps[c] \in StampOwnership
                        /\ StampInv(c, stamps[c])
  BY IssuedKeeps DEF Init
<1>2. TypeOK
  BY <1>1 DEF Init, TypeOK
<1>. QED  BY <1>1, <1>2 DEF IInv

LEMMA NextIInv == IInv /\ [Next]_vars => IInv'
<1>. SUFFICES ASSUME IInv, [Next]_vars PROVE IInv'
  OBVIOUS
<1>1. CASE UNCHANGED vars
  BY <1>1 DEF IInv, TypeOK, vars
<1>2. CASE Next
  <2>1. PICK r \in CanonicalRecord :
          r \in Feed /\ Iterate(r) /\ (Keeps(r) \/ Binds(r) \/ Applies(r))
    BY <1>2, StepShape
  <2>2. /\ stamps \in [Issued -> StampOwnership]
        /\ \A c \in Issued : StampInv(c, stamps[c])
    BY DEF IInv, TypeOK
  <2>3. /\ stamps' \in [Issued -> StampOwnership]
        /\ \A c \in Issued : StampInv(c, stamps'[c])
    <3>1. CASE Keeps(r)
      BY <2>2, <3>1 DEF Keeps
    <3>2. CASE Binds(r)
      BY <2>2, <3>2, BindKeeps DEF Binds
    <3>3. CASE Applies(r)
      BY <2>2, <3>3, ApplyKeeps, ApplyShape DEF Applies
    <3>. QED  BY <2>1, <3>1, <3>2, <3>3
  <2>4. sales' \in Seq(Sale)
    <3>1. CASE UNCHANGED sales
      BY <3>1 DEF IInv, TypeOK
    <3>2. CASE Applies(r) /\ ~UNCHANGED sales
      <4>1. saleOf(stamps[r.stamp], r) \in Sale
        BY <2>2, <3>2, AppliedFacts
        DEF saleOf, Sale, TransferAuthorization, SettlementOffer,
            CanonicalRecord, Applies
      <4>. QED  BY <3>2, <4>1 DEF IInv, TypeOK, Applies
    <3>. QED  BY <2>1, <3>1, <3>2 DEF Keeps, Binds
  <2>5. /\ available' \in Artifacts /\ records' \in Seq(Feed)
        /\ outcome' \in Seq(PendingReason \cup RejectReason
                              \cup {"bound", "applied"})
        /\ Len(outcome') = Len(records')
    BY <2>1, VerdictType DEF IInv, TypeOK, Iterate
  <2>. QED  BY <2>3, <2>4, <2>5 DEF IInv, TypeOK
<1>. QED  BY <1>1, <1>2

\* For every set of stamps, records and artifacts the resolver's state is well
\* formed, and its inductive invariant holds after every record.
THEOREM Inductive == Spec => []IInv
<1>. QED  BY InitIInv, NextIInv, PTL DEF Spec

\* TypeOK holds of every input (resolveOwnership never builds a broken state).
THEOREM TypeCorrect == Spec => []TypeOK
<1>1. IInv => TypeOK
  BY DEF IInv
<1>. QED  BY <1>1, Inductive, PTL

\* Sequence numbers are gapless, custody is unbroken, and an offer bound at a
\* sequence is the only sale made there, to its buyer, at its price.
THEOREM OwnershipSound == Spec => [](Contiguity /\ Custody /\ NoDoubleSale)
<1>1. IInv => Contiguity /\ Custody /\ NoDoubleSale
  BY DEF IInv, StampInv, Contiguity, Custody, NoDoubleSale
<1>. QED  BY <1>1, Inductive, PTL

-----------------------------------------------------------------------------

\* What is bound or accepted is never undone by a later record.
LEMMA StepSettled == IInv /\ [Next]_vars => [Settled]_vars
<1>. SUFFICES ASSUME IInv, Next PROVE Settled
  OBVIOUS
<1>1. PICK r \in CanonicalRecord :
        r \in Feed /\ Iterate(r) /\ (Keeps(r) \/ Binds(r) \/ Applies(r))
  BY StepShape
<1>2. stamps \in [Issued -> StampOwnership]
  BY DEF IInv, TypeOK
<1>3. ASSUME NEW s \in StampOwnership PROVE Extends(s, s)
  BY DEF Extends, StampOwnership
<1>4. CASE Keeps(r)
  BY <1>2, <1>3, <1>4 DEF Keeps, Settled
<1>5. CASE Binds(r)
  <2>. DEFINE s == stamps[r.stamp]
  <2>1. /\ s \in StampOwnership /\ stamps'[r.stamp] = bindOffer(s, r)
        /\ r.sequence \in Sequence /\ s.boundOffers[r.sequence] = None
    BY <1>2, <1>5
    DEF Binds, checkOffer, CanonicalRecord, nextInSequence, alreadyBound
  <2>2. Extends(s, bindOffer(s, r))
    BY <2>1 DEF bindOffer, StampOwnership, Extends
  <2>. QED  BY <1>2, <1>3, <1>5, <2>1, <2>2 DEF Settled, Binds
<1>6. CASE Applies(r)
  <2>. DEFINE s == stamps[r.stamp]
  <2>1. s \in StampOwnership /\ stamps'[r.stamp] = applyTransfer(s, r)
    BY <1>2, <1>6 DEF Applies
  <2>2. Extends(s, applyTransfer(s, r))
    <3>1. Len(s.history) \in Nat
      BY <2>1 DEF StampOwnership
    <3>. QED  BY <1>6, <2>1, <3>1, ApplyShape DEF Applies, Extends
  <2>. QED  BY <1>2, <1>3, <1>6, <2>1, <2>2 DEF Settled, Applies
<1>. QED  BY <1>1, <1>4, <1>5, <1>6

\* No record, whatever it says, rewrites an accepted transfer or a bound offer.
THEOREM Stable == Spec => NothingUndone
<1>. QED  BY Inductive, StepSettled, PTL DEF Spec, NothingUndone

-----------------------------------------------------------------------------

\* The record behind the i-th event of stamp c, and the secret it reveals.
Backed(c, i) ==
  LET event == stamps[c].history[i]
  IN  \E j \in 1 .. Len(records) :
        /\ outcome[j] = "applied"
        /\ Evidence(records[j], c, i, event)
        /\ event.offer # None =>
             records[j].artifact.preimage = event.offer.hashLock

EvidenceInv ==
  \A c \in Issued : \A i \in 1 .. Len(stamps[c].history) : Backed(c, i)

LEMMA NextEvidence == IInv /\ EvidenceInv /\ [Next]_vars => EvidenceInv'
<1>. SUFFICES ASSUME IInv, EvidenceInv, [Next]_vars PROVE EvidenceInv'
  OBVIOUS
<1>1. CASE UNCHANGED vars
  BY <1>1 DEF EvidenceInv, Backed, Evidence, vars
<1>2. CASE Next
  <2>1. PICK r \in CanonicalRecord :
          r \in Feed /\ Iterate(r) /\ (Keeps(r) \/ Binds(r) \/ Applies(r))
    BY <1>2, StepShape
  <2>. PICK m : m = Len(records) + 1
    OBVIOUS
  <2>2. /\ stamps \in [Issued -> StampOwnership]
        /\ records \in Seq(Feed) /\ Len(outcome) = Len(records)
        /\ outcome \in Seq(PendingReason \cup RejectReason
                             \cup {"bound", "applied"})
    BY DEF IInv, TypeOK
  <2>3. /\ Len(records') = m /\ records'[m] = r /\ m \in Nat
        /\ outcome'[m] = Verdict(r)
        /\ \A j \in 1 .. Len(records) : /\ records'[j] = records[j]
                                        /\ outcome'[j] = outcome[j]
        /\ available' = available
    BY <2>1, <2>2 DEF Iterate
  <2>4. \A c \in Issued : \A i \in 1 .. Len(stamps[c].history) :
          stamps'[c].history[i] = stamps[c].history[i] => Backed(c, i)'
    <3>. SUFFICES ASSUME NEW c \in Issued,
                         NEW i \in 1 .. Len(stamps[c].history),
                         stamps'[c].history[i] = stamps[c].history[i]
                  PROVE  Backed(c, i)'
      OBVIOUS
    <3>1. PICK j \in 1 .. Len(records) :
            /\ outcome[j] = "applied"
            /\ Evidence(records[j], c, i, stamps[c].history[i])
            /\ stamps[c].history[i].offer # None =>
                 records[j].artifact.preimage
                   = stamps[c].history[i].offer.hashLock
      BY DEF EvidenceInv, Backed
    <3>2. j \in 1 .. Len(records')
      BY <2>2, <2>3
    <3>. QED  BY <2>3, <3>1, <3>2 DEF Backed, Evidence
  <2>5. CASE Keeps(r)
    BY <2>2, <2>4, <2>5 DEF Keeps, EvidenceInv
  <2>6. CASE Binds(r)
    <3>1. \A c \in Issued : stamps'[c].history = stamps[c].history
      BY <2>2, <2>6 DEF Binds, bindOffer, StampOwnership
    <3>. QED  BY <2>4, <3>1 DEF EvidenceInv
  <2>7. CASE Applies(r)
    <3>. PICK s, n, e : /\ s = stamps[r.stamp] /\ n = Len(s.history) + 1
                        /\ e = eventOf(s, r)
      OBVIOUS
    <3>1. /\ s \in StampOwnership /\ r.stamp \in Issued
          /\ r.kind = "transfer" /\ checkTransfer(s, r) = "applied"
          /\ stamps'[r.stamp] = applyTransfer(s, r)
          /\ \A c \in Issued : c # r.stamp => stamps'[c] = stamps[c]
      BY <2>2, <2>7 DEF Applies
    <3>2. s.sequence = Len(s.history) /\ Len(s.history) \in Nat
      BY <3>1 DEF IInv, StampInv, Contiguous, StampOwnership
    <3>3. /\ Len(stamps'[r.stamp].history) = n
          /\ stamps'[r.stamp].history[n] = e
          /\ \A i \in 1 .. Len(s.history) :
                stamps'[r.stamp].history[i] = s.history[i]
      BY <3>1, ApplyShape
    <3>4. n = r.sequence /\ n \in Nat
      BY <3>1, <3>2, AppliedFacts
    <3>5. Backed(r.stamp, n)'
      <4>1. Evidence(r, r.stamp, n, e)'
        <5>1. /\ r.network = DestinationNetwork /\ r.inBestChain
              /\ r.confirmations >= MinConfirmations
              /\ r.artifact \in available
          BY <2>7, AppliedVerdict DEF Applies
        <5>2. /\ r.artifact.stamp = r.stamp /\ r.artifact.sequence = n
              /\ r.artifact.signed
          BY <3>1, <3>4, AppliedFacts
        <5>. QED  BY <2>3, <3>1, <5>1, <5>2 DEF Evidence, eventOf
      <4>2. e.offer # None => r.artifact.preimage = e.offer.hashLock
        BY <3>1, AppliedFacts DEF eventOf
      <4>3. outcome'[m] = "applied" /\ m \in 1 .. Len(records')
        BY <2>2, <2>3, <2>7 DEF Applies
      <4>. QED  BY <2>3, <3>3, <4>1, <4>2, <4>3 DEF Backed
    <3>6. ASSUME NEW c \in Issued, NEW i \in 1 .. Len(stamps'[c].history)
          PROVE  Backed(c, i)'
      <4>1. CASE c = r.stamp /\ i = n
        BY <3>5, <4>1
      <4>2. CASE c = r.stamp /\ i # n
        <5>1. i \in 1 .. Len(s.history)
          BY <3>2, <3>3, <4>2
        <5>2. stamps'[c].history[i] = stamps[c].history[i]
          BY <3>3, <4>2, <5>1
        <5>. QED  BY <2>4, <4>2, <5>1, <5>2
      <4>3. CASE c # r.stamp
        BY <2>4, <3>1, <4>3
      <4>. QED  BY <4>1, <4>2, <4>3
    <3>. QED  BY <3>6 DEF EvidenceInv
  <2>. QED  BY <2>1, <2>5, <2>6, <2>7
<1>. QED  BY <1>1, <1>2

\* Every accepted transfer rests on a confirmed record and a published
\* authorization of the owner; every sale reveals the secret that pays the
\* seller.
THEOREM EveryTransferBacked == Spec => [](Authorized /\ SaleRevealsSecret)
<1>1. Init => EvidenceInv
  BY DEF Init, EvidenceInv, IssuedStamp
<1>2. EvidenceInv => Authorized /\ SaleRevealsSecret
  BY DEF EvidenceInv, Backed, Authorized, SaleRevealsSecret, Evidence
<1>. QED  BY <1>1, <1>2, NextEvidence, Inductive, PTL DEF Spec

-----------------------------------------------------------------------------

\* A step leaves what a stamp has behind it as it was.
Grows(s, t) ==
  /\ s.sequence <= t.sequence
  /\ \A i \in 1 .. s.sequence : /\ t.history[i] = s.history[i]
                               /\ t.boundOffers[i] = s.boundOffers[i]

LEMMA BindGrows ==
  ASSUME NEW s \in StampOwnership, NEW r \in CanonicalRecord,
         r.kind = "offer", checkOffer(s, r) = "bound"
  PROVE  /\ Grows(s, bindOffer(s, r))
         /\ bindOffer(s, r).sequence = s.sequence
<1>1. /\ r.sequence = s.sequence + 1 /\ r.sequence \in Sequence
      /\ s.sequence \in Sequence
      /\ s.boundOffers \in [Sequence -> SettlementOffer \cup {None}]
  BY DEF checkOffer, CanonicalRecord, StampOwnership, nextInSequence
<1>2. /\ bindOffer(s, r).history = s.history
      /\ bindOffer(s, r).sequence = s.sequence
      /\ bindOffer(s, r).boundOffers
           = [s.boundOffers EXCEPT ![r.sequence] = r.artifact]
  BY DEF bindOffer, StampOwnership
<1>3. \A i \in 1 .. s.sequence : i # r.sequence /\ i \in Sequence
  BY <1>1, OwnershipAssumption DEF Sequence
<1>4. s.sequence <= s.sequence
  BY <1>1, OwnershipAssumption DEF Sequence
<1>. QED  BY <1>1, <1>2, <1>3, <1>4 DEF Grows

LEMMA ApplyGrows ==
  ASSUME NEW s \in StampOwnership, NEW r \in CanonicalRecord,
         r.kind = "transfer", checkTransfer(s, r) = "applied",
         s.sequence = Len(s.history)
  PROVE  LET t == applyTransfer(s, r)
         IN  /\ Grows(s, t)
             /\ t.sequence = s.sequence + 1
             /\ r.sequence = s.sequence + 1
             /\ t.history[r.sequence] = eventOf(s, r)
             /\ t.boundOffers[r.sequence] = s.boundOffers[r.sequence]
<1>1. s.sequence \in Nat
  BY OwnershipAssumption DEF StampOwnership, Sequence
<1>. QED  BY <1>1, ApplyShape, AppliedFacts DEF Grows

\* The sales listed are the accepted transfers that paid a bound offer.
LEMMA NextSales == IInv /\ SalesAreOffers /\ [Next]_vars => SalesAreOffers'
<1>. SUFFICES ASSUME IInv, SalesAreOffers, [Next]_vars
              PROVE  SalesAreOffers'
  OBVIOUS
<1>1. CASE UNCHANGED vars
  BY <1>1 DEF SalesAreOffers, SalesMatched, SalesOnce, SalesListed, Matches, vars
<1>2. CASE Next
  <2>1. PICK r \in CanonicalRecord :
          r \in Feed /\ Iterate(r) /\ (Keeps(r) \/ Binds(r) \/ Applies(r))
    BY <1>2, StepShape
  <2>2. /\ stamps \in [Issued -> StampOwnership] /\ sales \in Seq(Sale)
        /\ \A c \in Issued : /\ stamps[c].sequence = Len(stamps[c].history)
                             /\ stamps[c].sequence \in Nat
    BY OwnershipAssumption
    DEF IInv, TypeOK, StampInv, Contiguous, StampOwnership, Sequence
  <2>3. ASSUME NEW s, NEW t, NEW sale, s.sequence \in Nat, t.sequence \in Nat,
               Grows(s, t), Matches(sale, s)
        PROVE  Matches(sale, t)
    BY <2>3 DEF Grows, Matches
  <2>4. CASE Keeps(r)
    BY <2>4 DEF Keeps, SalesAreOffers, SalesMatched, SalesOnce, SalesListed,
                Matches
  <2>5. CASE Binds(r)
    <3>1. \A c \in Issued : /\ stamps'[c].sequence = stamps[c].sequence
                           /\ Grows(stamps[c], stamps'[c])
      <4>1. ASSUME NEW c \in Issued, c # r.stamp
            PROVE  stamps'[c] = stamps[c] /\ Grows(stamps[c], stamps[c])
        BY <2>2, <2>5, <4>1 DEF Binds, Grows
      <4>2. stamps'[r.stamp] = bindOffer(stamps[r.stamp], r)
        BY <2>2, <2>5 DEF Binds
      <4>. QED  BY <2>2, <2>5, <4>1, <4>2, BindGrows DEF Binds
    <3>2. sales' = sales
      BY <2>5 DEF Binds
    <3>3. \A k \in 1 .. Len(sales) :
            /\ sales[k].stamp \in Issued
            /\ Matches(sales[k], stamps'[sales[k].stamp])
      BY <2>2, <2>3, <3>1 DEF SalesAreOffers, SalesMatched
    <3>4. \A c \in Issued : \A i \in 1 .. stamps'[c].sequence :
            stamps'[c].boundOffers[i] # None =>
              \E k \in 1 .. Len(sales) :
                sales[k].stamp = c /\ sales[k].sequence = i
      BY <3>1 DEF SalesAreOffers, SalesListed, Grows
    <3>5. SalesMatched'
      BY <3>2, <3>3 DEF SalesMatched, Matches
    <3>6. SalesOnce'
      BY <3>2 DEF SalesAreOffers, SalesOnce
    <3>7. SalesListed'
      BY <3>2, <3>4 DEF SalesListed
    <3>. QED  BY <3>5, <3>6, <3>7 DEF SalesAreOffers
  <2>6. CASE Applies(r)
    <3>. PICK s, t, n : /\ s = stamps[r.stamp] /\ t = applyTransfer(s, r)
                        /\ n = s.sequence + 1
      OBVIOUS
    <3>1. /\ s \in StampOwnership /\ r.stamp \in Issued
          /\ s.sequence = Len(s.history) /\ s.sequence \in Nat
          /\ r.kind = "transfer" /\ checkTransfer(s, r) = "applied"
          /\ stamps'[r.stamp] = t
          /\ \A c \in Issued : c # r.stamp => stamps'[c] = stamps[c]
      BY <2>2, <2>6 DEF Applies
    <3>2. /\ Grows(s, t) /\ t.sequence = n /\ r.sequence = n
          /\ t.history[n] = eventOf(s, r)
          /\ t.boundOffers[n] = s.boundOffers[n]
      BY <3>1, ApplyGrows
    <3>3. ASSUME NEW c \in Issued
          PROVE  /\ Grows(stamps[c], stamps'[c]) /\ stamps'[c].sequence \in Nat
                 /\ \A i \in 1 .. stamps'[c].sequence :
                      i \in 1 .. stamps[c].sequence \/ (c = r.stamp /\ i = n)
      <4>1. CASE c = r.stamp
        BY <3>1, <3>2, <4>1
      <4>2. CASE c # r.stamp
        BY <2>2, <3>1, <4>2 DEF Grows
      <4>. QED  BY <4>1, <4>2
    <3>4. \A k \in 1 .. Len(sales) :
            /\ sales[k].stamp \in Issued
            /\ Matches(sales[k], stamps'[sales[k].stamp])
      BY <2>2, <2>3, <3>3 DEF SalesAreOffers, SalesMatched
    <3>5. ASSUME NEW c \in Issued, NEW i \in 1 .. stamps[c].sequence,
                 stamps'[c].boundOffers[i] # None
          PROVE  \E k \in 1 .. Len(sales) :
                   sales[k].stamp = c /\ sales[k].sequence = i
      BY <3>3, <3>5 DEF SalesAreOffers, SalesListed, Grows
    <3>6. CASE s.boundOffers[n] = None
      <4>1. sales' = sales
        BY <2>6, <3>2, <3>6 DEF Applies
      <4>2. stamps'[r.stamp].boundOffers[n] = None
        BY <3>1, <3>2, <3>6
      <4>3. ASSUME NEW c \in Issued, NEW i \in 1 .. stamps'[c].sequence,
                   stamps'[c].boundOffers[i] # None
            PROVE  \E k \in 1 .. Len(sales) :
                     sales[k].stamp = c /\ sales[k].sequence = i
        BY <3>3, <3>5, <4>2, <4>3
      <4>4. SalesMatched'
        BY <3>4, <4>1 DEF SalesMatched, Matches
      <4>5. SalesOnce'
        BY <4>1 DEF SalesAreOffers, SalesOnce
      <4>6. SalesListed'
        BY <4>1, <4>3 DEF SalesListed
      <4>. QED  BY <4>4, <4>5, <4>6 DEF SalesAreOffers
    <3>7. CASE s.boundOffers[n] # None
      <4>. PICK m, new : m = Len(sales) + 1 /\ new = saleOf(s, r)
        OBVIOUS
      <4>1. /\ sales' = Append(sales, new)
            /\ new.stamp = r.stamp /\ new.sequence = n
            /\ new.seller = r.artifact.from /\ new.buyer = r.artifact.to
            /\ new.price = s.boundOffers[n].price
        BY <2>6, <3>2, <3>7 DEF Applies, saleOf
      <4>2. /\ m \in Nat /\ Len(sales') = m /\ sales'[m] = new
            /\ \A k \in 1 .. Len(sales) : sales'[k] = sales[k]
            /\ \A k \in 1 .. m : k = m \/ k \in 1 .. Len(sales)
            /\ 1 .. Len(sales) \subseteq 1 .. m /\ m \in 1 .. m
        BY <2>2, <4>1
      <4>3. Matches(new, t)
        <5>1. n \in 1 .. t.sequence
          BY <3>1, <3>2
        <5>2. /\ eventOf(s, r).from = new.seller
              /\ eventOf(s, r).to = new.buyer
              /\ eventOf(s, r).price = new.price
          BY <3>2, <3>7, <4>1 DEF eventOf
        <5>. QED  BY <3>2, <3>7, <4>1, <5>1, <5>2 DEF Matches
      <4>4. \A k \in 1 .. m : /\ sales'[k].stamp \in Issued
                             /\ Matches(sales'[k], stamps'[sales'[k].stamp])
        BY <3>1, <3>4, <4>1, <4>2, <4>3
      <4>5. \A k \in 1 .. Len(sales) :
              ~(sales[k].stamp = r.stamp /\ sales[k].sequence = n)
        BY <2>2, <3>1 DEF SalesAreOffers, SalesMatched, Matches
      <4>6. \A j, k \in 1 .. m :
              /\ sales'[j].stamp = sales'[k].stamp
              /\ sales'[j].sequence = sales'[k].sequence
              => j = k
        BY <4>1, <4>2, <4>5 DEF SalesAreOffers, SalesOnce
      <4>7. ASSUME NEW c \in Issued, NEW i \in 1 .. stamps'[c].sequence,
                   stamps'[c].boundOffers[i] # None
            PROVE  \E k \in 1 .. m :
                     sales'[k].stamp = c /\ sales'[k].sequence = i
        <5>1. CASE i \in 1 .. stamps[c].sequence
          BY <3>5, <4>2, <4>7, <5>1
        <5>2. CASE c = r.stamp /\ i = n
          BY <4>1, <4>2, <5>2
        <5>. QED  BY <3>3, <5>1, <5>2
      <4>8. SalesMatched'
        BY <4>2, <4>4 DEF SalesMatched, Matches
      <4>9. SalesOnce'
        BY <4>2, <4>6 DEF SalesOnce
      <4>10. SalesListed'
        BY <4>2, <4>7 DEF SalesListed
      <4>. QED  BY <4>8, <4>9, <4>10 DEF SalesAreOffers
    <3>. QED  BY <3>6, <3>7
  <2>. QED  BY <2>1, <2>4, <2>5, <2>6
<1>. QED  BY <1>1, <1>2

\* The sales reported are exactly the transfers that paid a bound offer.
THEOREM SalesSound == Spec => []SalesAreOffers
<1>1. Init => SalesAreOffers
  BY DEF Init, SalesAreOffers, SalesMatched, SalesOnce, SalesListed, IssuedStamp
<1>. QED  BY <1>1, NextSales, Inductive, PTL DEF Spec

-----------------------------------------------------------------------------

LEMMA RegisterInitially == Init => Register!RegisterInit
<1>. SUFFICES ASSUME Init PROVE Register!RegisterInit
  OBVIOUS
<1>1. \A c \in Issued : stamps[c] = IssuedStamp(c)
  BY DEF Init
<1>2. \A c \in Issued : /\ stamps[c].currentOwner = OriginalRecipient[c]
                        /\ stamps[c].sequence = 0
                        /\ reservedBuyer(stamps[c]) = None
  <2>. SUFFICES ASSUME NEW c \in Issued
                PROVE  /\ stamps[c].currentOwner = OriginalRecipient[c]
                       /\ stamps[c].sequence = 0
                       /\ reservedBuyer(stamps[c]) = None
    OBVIOUS
  <2>. DEFINE unbound == [n \in Sequence |-> None]
  <2>1. /\ stamps[c].currentOwner = OriginalRecipient[c]
        /\ stamps[c].sequence = 0
        /\ stamps[c].boundOffers = unbound
    <3>1. stamps[c] = [currentOwner |-> OriginalRecipient[c], sequence |-> 0,
                       history |-> << >>, boundOffers |-> unbound]
      BY <1>1 DEF IssuedStamp
    <3>. HIDE DEF unbound
    <3>. QED  BY <3>1
  <2>2. \A n \in Sequence : stamps[c].boundOffers[n] = None
    BY <2>1
  <2>. QED  BY <2>1, <2>2 DEF reservedBuyer
<1>. QED  BY <1>2, OwnershipAssumption DEF Register!RegisterInit

LEMMA RegisterStep ==
  IInv /\ [Next]_vars => [Register!RegisterNext]_(Register!registerVars)
<1>. SUFFICES ASSUME IInv, Next
              PROVE  [Register!RegisterNext]_(Register!registerVars)
  BY DEF vars, Register!registerVars
<1>1. PICK r \in CanonicalRecord :
        r \in Feed /\ Iterate(r) /\ (Keeps(r) \/ Binds(r) \/ Applies(r))
  BY StepShape
<1>2. stamps \in [Issued -> StampOwnership]
  BY DEF IInv, TypeOK
<1>3. CASE Keeps(r)
  BY <1>3 DEF Keeps, Register!registerVars
<1>4. CASE Binds(r)
  <2>. PICK c, s, t : c = r.stamp /\ s = stamps[c] /\ t = bindOffer(s, r)
    OBVIOUS
  <2>1. /\ c \in Issued /\ s \in StampOwnership
        /\ s.boundOffers \in [Sequence -> SettlementOffer \cup {None}]
        /\ r.artifact \in SettlementOffer /\ r.artifact.buyer \in Address
        /\ r.sequence \in Sequence /\ r.sequence = s.sequence + 1
        /\ s.boundOffers[r.sequence] = None
        /\ stamps' = [stamps EXCEPT ![c] = t]
    BY <1>2, <1>4
    DEF Binds, checkOffer, CanonicalRecord, SettlementOffer, StampOwnership,
        nextInSequence, alreadyBound
  <2>2. /\ t.currentOwner = s.currentOwner /\ t.sequence = s.sequence
        /\ t.boundOffers[r.sequence] = r.artifact
    BY <2>1 DEF bindOffer, StampOwnership
  <2>3. /\ reservedBuyer(s) = None
        /\ reservedBuyer(t) = r.artifact.buyer
    BY <2>1, <2>2, NoneIsNoOffer DEF reservedBuyer
  <2>4. Register!Reserve(c, r.artifact.buyer)
    BY <1>2, <2>1, <2>2, <2>3 DEF Register!Reserve
  <2>. QED  BY <2>1, <2>4 DEF Register!RegisterNext
<1>5. CASE Applies(r)
  <2>. PICK c, s, t : c = r.stamp /\ s = stamps[c] /\ t = applyTransfer(s, r)
    OBVIOUS
  <2>1. /\ c \in Issued /\ s \in StampOwnership /\ r.kind = "transfer"
        /\ checkTransfer(s, r) = "applied"
        /\ StampInv(c, s)
        /\ stamps' = [stamps EXCEPT ![c] = t]
    BY <1>2, <1>5 DEF Applies, IInv
  <2>2. /\ r.artifact.to \in Address
        /\ r.sequence \in Sequence /\ r.sequence = s.sequence + 1
        /\ s.boundOffers[r.sequence] # None =>
             r.artifact.to = s.boundOffers[r.sequence].buyer
    BY <2>1, AppliedFacts DEF TransferAuthorization
  <2>3. /\ t.currentOwner = r.artifact.to /\ t.sequence = s.sequence + 1
        /\ t.boundOffers = s.boundOffers
    BY <2>1, <2>2, ApplyShape
  <2>4. reservedBuyer(s) \in {None, r.artifact.to}
    BY <2>2 DEF reservedBuyer
  <2>5. reservedBuyer(t) = None
    <3>1. s.sequence \in Nat
      BY <2>1, OwnershipAssumption DEF StampOwnership, Sequence
    <3>2. s.sequence + 2 \in Sequence => s.boundOffers[s.sequence + 2] = None
      BY <2>1, <3>1 DEF StampInv, OfferKept
    <3>. QED  BY <2>3, <3>1, <3>2 DEF reservedBuyer
  <2>6. Register!HandOver(c, r.artifact.to)
    BY <1>2, <2>1, <2>3, <2>4, <2>5 DEF Register!HandOver
  <2>. QED  BY <2>1, <2>2, <2>6 DEF Register!RegisterNext
<1>. QED  BY <1>1, <1>3, <1>4, <1>5

\* Ownership resolution implements the register: one owner per stamp, and a
\* stamp promised to a buyer goes to nobody else.
THEOREM ImplementsRegister == Spec => IsARegister
<1>. QED  BY RegisterInitially, RegisterStep, Inductive, PTL
          DEF Spec, IsARegister, Register!RegisterSpec

\* Everything HistorySound says of the resolved history, together.
THEOREM HistoryIsSound == Spec => []HistorySound
<1>1. TypeOK /\ Contiguity /\ Custody /\ Authorized /\ SaleRevealsSecret /\ SalesAreOffers
        => HistorySound
  BY DEF HistorySound
<1>. QED
  BY <1>1, TypeCorrect, OwnershipSound, EveryTransferBacked, SalesSound, PTL
-----------------------------------------------------------------------------

(***************************************************************************)
(* Ownership over time (OwnershipReplay): resolveOwnership as the function *)
(* it is, run from scratch on two chains.  Replays(f, rs, av) says that    *)
(* f[i] is the ownership state after the first i records of rs.            *)
(***************************************************************************)

\* A set of natural numbers that is not empty has a least element.
LEMMA LeastNat ==
  ASSUME NEW T, T \subseteq Nat, T # {}
  PROVE  \E n \in T : \A m \in T : n <= m
<1>1. PICK n \in T : \A m \in T : <<m, n>> \notin OpToRel(<, Nat)
  BY WFMin, NatLessThanWellFounded, Zenon
<1>2. \A m \in T : ~ (m < n)
  <2>1. \A m \in T : <<m, n>> \in Nat \X Nat
    OBVIOUS
  <2>. QED  BY <1>1, <2>1, Zenon DEF OpToRel
<1>. QED  BY <1>2

\* A function given by its value at 0 and a step has a solution.
LEMMA Recursion ==
  ASSUME NEW X, NEW x \in X, NEW n \in Nat, NEW step \in [X \X (1 .. n) -> X]
  PROVE  \E g \in [0 .. n -> X] :
           g[0] = x /\ \A i \in 1 .. n : g[i] = step[<<g[i - 1], i>>]
<1>. DEFINE Solved(m) ==
              \E g \in [0 .. m -> X] :
                g[0] = x /\ \A i \in 1 .. m : g[i] = step[<<g[i - 1], i>>]
            Bad == {m \in 0 .. n : ~ Solved(m)}
<1>1. Solved(0)
  <2>1. PICK g : g = [i \in 0 .. 0 |-> x]
    OBVIOUS
  <2>2. g \in [0 .. 0 -> X] /\ g[0] = x /\ 1 .. 0 = {}
    BY <2>1
  <2>. QED  BY <2>2
<1>2. ASSUME NEW m \in 0 .. n, m # n, Solved(m) PROVE Solved(m + 1)
  <2>1. PICK g \in [0 .. m -> X] :
          g[0] = x /\ \A i \in 1 .. m : g[i] = step[<<g[i - 1], i>>]
    BY <1>2
  <2>2. PICK h : h = [i \in 0 .. m + 1 |->
                        IF i = m + 1 THEN step[<<g[m], m + 1>>] ELSE g[i]]
    OBVIOUS
  <2>3. m + 1 \in 1 .. n /\ g[m] \in X
    BY <1>2
  <2>4. step[<<g[m], m + 1>>] \in X
    BY <2>3
  <2>5. h \in [0 .. m + 1 -> X] /\ h[0] = x
    BY <2>1, <2>2, <2>4
  <2>6. ASSUME NEW i \in 1 .. m + 1 PROVE h[i] = step[<<h[i - 1], i>>]
    <3>1. i - 1 \in 0 .. m /\ i - 1 # m + 1 /\ h[i - 1] = g[i - 1]
      BY <2>2
    <3>2. CASE i = m + 1
      <4>1. i - 1 = m /\ i \in 0 .. m + 1
        BY <3>2
      <4>. QED  BY <2>2, <3>1, <3>2, <4>1
    <3>3. CASE i # m + 1
      <4>1. i \in 1 .. m /\ i \in 0 .. m + 1
        BY <3>3
      <4>2. h[i] = g[i]
        BY <2>2, <3>3, <4>1
      <4>. QED  BY <2>1, <3>1, <4>1, <4>2
    <3>. QED  BY <3>2, <3>3
  <2>. QED  BY <2>5, <2>6
<1>3. Bad = {}
  <2>. SUFFICES ASSUME Bad # {} PROVE FALSE
    OBVIOUS
  <2>. HIDE DEF Solved
  <2>0. Bad \subseteq Nat
    OBVIOUS
  <2>1. PICK m \in Bad : \A k \in Bad : m <= k
    <3>. HIDE DEF Bad
    <3>. QED  BY <2>0, LeastNat
  <2>2. m # 0 /\ m - 1 \in 0 .. n /\ m - 1 # n /\ m - 1 \notin Bad /\ (m - 1) + 1 = m
    BY <1>1, <2>1
  <2>. QED  BY <1>2, <2>1, <2>2
<1>4. Solved(n)
  <2>. HIDE DEF Solved
  <2>. QED  BY <1>3
<1>. QED  BY <1>4

\* What a record does to well-formed ownership: it stays well formed, and no
\* accepted transfer or bound offer is lost.
LEMMA BindShape ==
  ASSUME NEW s \in StampOwnership, NEW r \in CanonicalRecord,
         r.kind = "offer", checkOffer(s, r) = "bound"
  PROVE  bindOffer(s, r) \in StampOwnership /\ Extends(s, bindOffer(s, r))
<1>1. /\ r.artifact \in SettlementOffer /\ r.sequence \in Sequence
      /\ s.boundOffers[r.sequence] = None
  BY DEF checkOffer, CanonicalRecord, nextInSequence, alreadyBound
<1>2. bindOffer(s, r) \in StampOwnership
  BY <1>1 DEF bindOffer, StampOwnership
<1>3. Extends(s, bindOffer(s, r))
  BY <1>1 DEF bindOffer, StampOwnership, Extends
<1>. QED  BY <1>2, <1>3

LEMMA ApplyExtends ==
  ASSUME NEW s \in StampOwnership, NEW r \in CanonicalRecord,
         r.kind = "transfer", checkTransfer(s, r) = "applied"
  PROVE  applyTransfer(s, r) \in StampOwnership /\ Extends(s, applyTransfer(s, r))
<1>1. Len(s.history) \in Nat
  BY DEF StampOwnership
<1>. QED  BY <1>1, ApplyShape DEF Extends

LEMMA RecordExtends ==
  ASSUME NEW st \in [Issued -> StampOwnership], NEW av, NEW r \in CanonicalRecord
  PROVE  /\ applyRecord(st, av, r) \in [Issued -> StampOwnership]
         /\ \A c \in Issued : Extends(st[c], applyRecord(st, av, r)[c])
<1>. PICK v : v = verdict(st, av, r)
  OBVIOUS
<1>0. \A s \in StampOwnership : Extends(s, s)
  BY DEF Extends, StampOwnership
<1>1. CASE v = "bound"
  <2>1. r.stamp \in Issued /\ r.kind = "offer" /\ checkOffer(st[r.stamp], r) = "bound"
    <3>1. checkTransfer(st[r.stamp], r) # "bound"
      BY DEF checkTransfer, checkTerms
    <3>. QED  BY <1>1, <3>1 DEF verdict, inBestChain, awaiting, unavailable
  <2>2. applyRecord(st, av, r)
          = [st EXCEPT ![r.stamp] = bindOffer(st[r.stamp], r)]
    BY <1>1, <2>1 DEF applyRecord
  <2>3. /\ bindOffer(st[r.stamp], r) \in StampOwnership
        /\ Extends(st[r.stamp], bindOffer(st[r.stamp], r))
    BY <2>1, BindShape
  <2>. QED  BY <1>0, <2>1, <2>2, <2>3
<1>2. CASE v = "applied"
  <2>1. /\ r.stamp \in Issued /\ r.kind = "transfer"
        /\ checkTransfer(st[r.stamp], r) = "applied"
    <3>1. checkOffer(st[r.stamp], r) # "applied"
      BY DEF checkOffer
    <3>2. r.kind \in {"offer", "transfer"}
      BY DEF CanonicalRecord
    <3>. QED  BY <1>2, <3>1, <3>2 DEF verdict, inBestChain, awaiting, unavailable
  <2>2. applyRecord(st, av, r)
          = [st EXCEPT ![r.stamp] = applyTransfer(st[r.stamp], r)]
    BY <1>2, <2>1 DEF applyRecord
  <2>3. /\ applyTransfer(st[r.stamp], r) \in StampOwnership
        /\ Extends(st[r.stamp], applyTransfer(st[r.stamp], r))
    BY <2>1, ApplyExtends
  <2>. QED  BY <1>0, <2>1, <2>2, <2>3
<1>3. CASE v \notin {"bound", "applied"}
  BY <1>0, <1>3 DEF applyRecord
<1>. QED  BY <1>1, <1>2, <1>3

-----------------------------------------------------------------------------

Replays(f, rs, av) ==
  /\ f \in [0 .. Len(rs) -> [Issued -> StampOwnership]]
  /\ f[0] = [c \in Issued |-> IssuedStamp(c)]
  /\ \A i \in 1 .. Len(rs) : f[i] = applyRecord(f[i - 1], av, rs[i])

Typed(rs) == Len(rs) \in Nat /\ \A i \in 1 .. Len(rs) : rs[i] \in CanonicalRecord

\* resolveOwnership returns the last state of a replay.
LEMMA Resolved ==
  ASSUME NEW rs, Typed(rs), NEW av
  PROVE  \E f : Replays(f, rs, av) /\ resolveOwnership(rs, av) = f[Len(rs)]
<1>. DEFINE X == [Issued -> StampOwnership]
            n == Len(rs)
            start == [c \in Issued |-> IssuedStamp(c)]
            After(g, i) ==
              IF i = 0 THEN start
              ELSE CHOOSE next \in {applyRecord(stamps_, av, rs[i]) :
                                     stamps_ \in {g[i - 1]}} : TRUE
<1>1. n \in Nat /\ start \in X
  BY IssuedKeeps DEF Typed
<1>2. \A g, i : i # 0 => After(g, i) = applyRecord(g[i - 1], av, rs[i])
  OBVIOUS
<1>3. \E f \in [0 .. n -> X] :
        f[0] = start /\ \A i \in 1 .. n : f[i] = applyRecord(f[i - 1], av, rs[i])
  <2>1. PICK step : step = [y \in X \X (1 .. n) |-> applyRecord(y[1], av, rs[y[2]])]
    OBVIOUS
  <2>2. step \in [X \X (1 .. n) -> X]
    <3>1. \A y \in X \X (1 .. n) : applyRecord(y[1], av, rs[y[2]]) \in X
      BY RecordExtends DEF Typed
    <3>. QED  BY <2>1, <3>1
  <2>3. \E f \in [0 .. n -> X] :
          f[0] = start /\ \A i \in 1 .. n : f[i] = step[<<f[i - 1], i>>]
    <3>. HIDE DEF X, n, start
    <3>. QED  BY <1>1, <2>2, Recursion
  <2>4. PICK f \in [0 .. n -> X] :
          f[0] = start /\ \A i \in 1 .. n : f[i] = step[<<f[i - 1], i>>]
    BY <2>3
  <2>5. \A i \in 1 .. n : f[i - 1] \in X
    BY <1>1
  <2>6. \A i \in 1 .. n : f[i] = applyRecord(f[i - 1], av, rs[i])
    <3>. HIDE DEF X, n
    <3>. QED  BY <2>1, <2>4, <2>5
  <2>. QED  BY <2>4, <2>6
<1>4. PICK f \in [0 .. n -> X] :
        f[0] = start /\ \A i \in 1 .. n : f[i] = applyRecord(f[i - 1], av, rs[i])
  BY <1>3
<1>5. f = [i \in 0 .. n |-> After(f, i)]
  <2>1. \A i \in 0 .. n : f[i] = After(f, i)
    <3>. HIDE DEF X, start, n
    <3>. QED  BY <1>1, <1>4, <1>2
  <2>. HIDE DEF After, X, n
  <2>. QED  BY <2>1
<1>6. PICK h : h = CHOOSE g : g = [i \in 0 .. n |-> After(g, i)]
  OBVIOUS
<1>7. h = [i \in 0 .. n |-> After(h, i)]
  <2>. HIDE DEF After, X, n
  <2>. QED  BY <1>5, <1>6
<1>8. resolveOwnership(rs, av) = h[n]
  BY <1>6 DEF resolveOwnership
<1>9. Replays(h, rs, av)
  <2>1. h[0] = start /\ \A i \in 1 .. n : h[i] = applyRecord(h[i - 1], av, rs[i])
    <3>1. \A i \in 0 .. n : h[i] = After(h, i)
      <4>. HIDE DEF After, n
      <4>. QED  BY <1>7
    <3>. HIDE DEF n
    <3>. QED  BY <1>1, <1>2, <3>1
  <2>2. h \in [0 .. n -> X]
    <3>. DEFINE Bad == {i \in 0 .. n : h[i] \notin X}
    <3>1. Bad = {}
      <4>. SUFFICES ASSUME Bad # {} PROVE FALSE
        OBVIOUS
      <4>. HIDE DEF X, n, start
      <4>0. Bad \subseteq Nat
        BY <1>1
      <4>1. PICK m \in Bad : \A k \in Bad : m <= k
        <5>. HIDE DEF Bad
        <5>. QED  BY <4>0, LeastNat
      <4>2. m # 0 /\ m \in 1 .. n /\ m - 1 \in 0 .. n /\ m - 1 \notin Bad
        BY <1>1, <2>1, <4>1
      <4>3. h[m] = applyRecord(h[m - 1], av, rs[m]) /\ rs[m] \in CanonicalRecord
        BY <2>1, <4>2 DEF Typed, n
      <4>4. h[m - 1] \in X
        BY <4>2
      <4>5. h[m] \in X
        BY <4>3, <4>4, RecordExtends DEF X
      <4>. QED  BY <4>1, <4>5
    <3>2. \A i \in 0 .. n : h[i] \in X
      <4>. HIDE DEF X
      <4>. QED  BY <3>1
    <3>. HIDE DEF After, X, n
    <3>. QED  BY <1>7, <3>2
  <2>. QED  BY <2>1, <2>2 DEF Replays
<1>. QED  BY <1>8, <1>9

LEMMA ExtendsChain ==
  ASSUME NEW s \in StampOwnership, NEW t \in StampOwnership, NEW u \in StampOwnership,
         Extends(s, t), Extends(t, u)
  PROVE  Extends(s, u)
<1>1. /\ s.history \in Seq(OwnershipEvent) /\ t.history \in Seq(OwnershipEvent)
      /\ u.history \in Seq(OwnershipEvent)
  BY DEF StampOwnership
<1>2. PICK a \in Nat, b \in Nat, d \in Nat :
        a = Len(s.history) /\ b = Len(t.history) /\ d = Len(u.history)
  BY <1>1
<1>3. b >= a /\ d >= b
  BY <1>2 DEF Extends
<1>4. \A i \in 1 .. a : i \in 1 .. b
  BY <1>2, <1>3
<1>5. \A i \in 1 .. a : u.history[i] = s.history[i]
  BY <1>2, <1>4 DEF Extends
<1>6. \A n \in Sequence :
        s.boundOffers[n] # None => u.boundOffers[n] = s.boundOffers[n]
  BY DEF Extends
<1>7. d >= a
  BY <1>2, <1>3
<1>. QED  BY <1>2, <1>5, <1>6, <1>7 DEF Extends

\* Along a replay, what a stamp's ownership holds is never lost.
LEMMA ReplayExtends ==
  ASSUME NEW rs, Typed(rs), NEW av, NEW f, Replays(f, rs, av),
         NEW n \in 0 .. Len(rs), NEW c \in Issued
  PROVE  Extends(f[n][c], f[Len(rs)][c])
<1>. DEFINE X == [Issued -> StampOwnership]
            Bad == {m \in n .. Len(rs) : ~ Extends(f[n][c], f[m][c])}
<1>1. Len(rs) \in Nat /\ n \in Nat /\ n <= Len(rs)
  BY DEF Typed
<1>2. \A m \in 0 .. Len(rs) : f[m] \in X /\ f[m][c] \in StampOwnership
  BY DEF Replays
<1>3. Extends(f[n][c], f[n][c])
  <2>. PICK s \in StampOwnership : s = f[n][c]
    BY <1>2
  <2>1. Len(s.history) \in Nat
    BY DEF StampOwnership
  <2>2. Extends(s, s)
    BY <2>1 DEF Extends
  <2>. QED  BY <2>2
<1>4. Bad = {}
  <2>. SUFFICES ASSUME Bad # {} PROVE FALSE
    OBVIOUS
  <2>1. Bad \subseteq Nat
    BY <1>1
  <2>2. PICK m \in Bad : \A k \in Bad : m <= k
    <3>. HIDE DEF Bad
    <3>. QED  BY <2>1, LeastNat
  <2>3. /\ m \in 1 .. Len(rs) /\ m - 1 \in 0 .. Len(rs) /\ m \in 0 .. Len(rs)
        /\ m - 1 \in n .. Len(rs) /\ m - 1 \notin Bad
    BY <1>1, <1>3, <2>2
  <2>4. Extends(f[n][c], f[m - 1][c])
    BY <2>3
  <2>5. f[m] = applyRecord(f[m - 1], av, rs[m]) /\ rs[m] \in CanonicalRecord
    BY <2>3 DEF Replays, Typed
  <2>6. Extends(f[m - 1][c], f[m][c])
    BY <1>2, <2>3, <2>5, RecordExtends
  <2>7. Extends(f[n][c], f[m][c])
    BY <1>1, <1>2, <2>3, <2>4, <2>6, ExtendsChain
  <2>. QED  BY <2>2, <2>7
<1>5. Len(rs) \in n .. Len(rs)
  BY <1>1
<1>. QED  BY <1>4, <1>5

\* Two replays whose first n records have the same effect agree after them.
LEMMA ReplaySame ==
  ASSUME NEW rs, Typed(rs), NEW av, NEW f, Replays(f, rs, av),
         NEW qs, Typed(qs), NEW bv, NEW g, Replays(g, qs, bv),
         NEW n \in Nat, n <= Len(rs), n <= Len(qs),
         \A i \in 1 .. n : \A st \in [Issued -> StampOwnership] :
           applyRecord(st, av, rs[i]) = applyRecord(st, bv, qs[i])
  PROVE  f[n] = g[n]
<1>. DEFINE Bad == {m \in 0 .. n : f[m] # g[m]}
<1>1. Len(rs) \in Nat /\ Len(qs) \in Nat
  BY DEF Typed
<1>2. f[0] = g[0]
  BY DEF Replays
<1>3. Bad = {}
  <2>. SUFFICES ASSUME Bad # {} PROVE FALSE
    OBVIOUS
  <2>1. Bad \subseteq Nat
    OBVIOUS
  <2>2. PICK m \in Bad : \A k \in Bad : m <= k
    <3>. HIDE DEF Bad
    <3>. QED  BY <2>1, LeastNat
  <2>3. /\ m \in 1 .. n /\ m - 1 \in 0 .. n /\ m - 1 \notin Bad
        /\ m \in 1 .. Len(rs) /\ m \in 1 .. Len(qs) /\ m - 1 \in 0 .. Len(rs)
    BY <1>1, <1>2, <2>2
  <2>4. f[m - 1] = g[m - 1] /\ f[m - 1] \in [Issued -> StampOwnership]
    BY <2>3 DEF Replays
  <2>5. f[m] = applyRecord(f[m - 1], av, rs[m])
    BY <2>3 DEF Replays
  <2>6. g[m] = applyRecord(g[m - 1], bv, qs[m])
    BY <2>3 DEF Replays
  <2>7. f[m] = g[m]
    BY <2>3, <2>4, <2>5, <2>6
  <2>. QED  BY <2>2, <2>7
<1>. QED  BY <1>3

\* Records without effect at the end of a replay leave its result alone.
LEMMA ReplayRests ==
  ASSUME NEW rs, Typed(rs), NEW av, NEW f, Replays(f, rs, av),
         NEW n \in 0 .. Len(rs),
         \A i \in n + 1 .. Len(rs) : \A st \in [Issued -> StampOwnership] :
           applyRecord(st, av, rs[i]) = st
  PROVE  f[Len(rs)] = f[n]
<1>. DEFINE Bad == {m \in n .. Len(rs) : f[m] # f[n]}
<1>1. Len(rs) \in Nat /\ n \in Nat /\ n <= Len(rs)
  BY DEF Typed
<1>2. Bad = {}
  <2>. SUFFICES ASSUME Bad # {} PROVE FALSE
    OBVIOUS
  <2>1. Bad \subseteq Nat
    BY <1>1
  <2>2. PICK m \in Bad : \A k \in Bad : m <= k
    <3>. HIDE DEF Bad
    <3>. QED  BY <2>1, LeastNat
  <2>3. /\ m \in n + 1 .. Len(rs) /\ m - 1 \in n .. Len(rs) /\ m - 1 \notin Bad
        /\ m \in 1 .. Len(rs) /\ m - 1 \in 0 .. Len(rs)
    BY <1>1, <2>2
  <2>4. f[m - 1] = f[n] /\ f[m - 1] \in [Issued -> StampOwnership]
    BY <2>3 DEF Replays
  <2>5. f[m] = applyRecord(f[m - 1], av, rs[m])
    BY <2>3 DEF Replays
  <2>. QED  BY <2>2, <2>3, <2>4, <2>5
<1>3. Len(rs) \in n .. Len(rs)
  BY <1>1
<1>. QED  BY <1>2, <1>3

-----------------------------------------------------------------------------

\* The records of the chain are canonical, in order, at heights of the chain,
\* and whatever was not held back has been published with its record.
ChainSound ==
  /\ tip \in Nat /\ mined \in Seq(CanonicalRecord)
  /\ \A i \in 1 .. Len(mined) :
       /\ mined[i].place \in 1 .. tip
       /\ mined[i].artifact \in published \cup Withheld
  /\ \A i, j \in 1 .. Len(mined) : i < j => mined[i].place < mined[j].place

LEMMA RecordTyped ==
  ASSUME NEW artifact \in Artifact, NEW h \in Nat
  PROVE  /\ record(artifact, h) \in CanonicalRecord
         /\ record(artifact, h).place = h
         /\ record(artifact, h).artifact = artifact
<1>1. CASE artifact \in SettlementOffer
  <2>1. "seller" \in DOMAIN artifact
    BY <1>1 DEF SettlementOffer
  <2>2. artifact.stamp \in Commitment /\ artifact.sequence \in Sequence
    BY <1>1 DEF SettlementOffer
  <2>. QED  BY <1>1, <2>1, <2>2, OwnershipAssumption DEF record, CanonicalRecord
<1>2. CASE artifact \in TransferAuthorization
  <2>1. "seller" \notin DOMAIN artifact
    BY <1>2 DEF TransferAuthorization
  <2>2. artifact.stamp \in Commitment /\ artifact.sequence \in Sequence
    BY <1>2 DEF TransferAuthorization
  <2>. QED  BY <1>2, <2>1, <2>2, OwnershipAssumption DEF record, CanonicalRecord
<1>. QED  BY <1>1, <1>2, ReplayAssumption

LEMMA ChainInitially == ReplayInit => ChainSound
BY DEF ReplayInit, ChainSound

\* What every step does to the chain: it grows by a record, or keeps a prefix.
LEMMA ChainStep == ChainSound /\ [ReplayNext]_replayVars => ChainSound'
<1>. SUFFICES ASSUME ChainSound, [ReplayNext]_replayVars PROVE ChainSound'
  OBVIOUS
<1>1. CASE UNCHANGED replayVars
  BY <1>1 DEF replayVars, ChainSound
<1>2. CASE EmptyBlock
  BY <1>2 DEF EmptyBlock, ChainSound
<1>3. ASSUME NEW artifact \in Artifact, RecordBlock(artifact) PROVE ChainSound'
  <2>. PICK r \in CanonicalRecord :
         r = record(artifact, tip + 1) /\ r.place = tip + 1 /\ r.artifact = artifact
    BY RecordTyped DEF ChainSound
  <2>1. /\ tip' = tip + 1 /\ mined' = Append(mined, r)
        /\ published \subseteq published'
        /\ artifact \in published' \cup Withheld
    BY <1>3 DEF RecordBlock
  <2>2. mined' \in Seq(CanonicalRecord) /\ Len(mined') = Len(mined) + 1
        /\ Len(mined) \in Nat
    BY <2>1 DEF ChainSound
  <2>3. ASSUME NEW i \in 1 .. Len(mined')
        PROVE  \/ i \in 1 .. Len(mined) /\ mined'[i] = mined[i]
               \/ i = Len(mined) + 1 /\ mined'[i] = r
    BY <2>1, <2>2 DEF ChainSound
  <2>4. \A i \in 1 .. Len(mined') :
          mined'[i].place \in 1 .. tip' /\ mined'[i].artifact \in published' \cup Withheld
    BY <2>1, <2>3 DEF ChainSound
  <2>5. \A i, j \in 1 .. Len(mined') : i < j => mined'[i].place < mined'[j].place
    <3>. TAKE i, j \in 1 .. Len(mined')
    <3>. HAVE i < j
    <3>1. i \in 1 .. Len(mined) /\ mined'[i] = mined[i]
      BY <2>2, <2>3
    <3>2. mined[i].place \in 1 .. tip
      BY <3>1 DEF ChainSound
    <3>3. CASE j \in 1 .. Len(mined) /\ mined'[j] = mined[j]
      BY <3>1, <3>3 DEF ChainSound
    <3>4. CASE mined'[j] = r
      BY <3>1, <3>2, <3>4 DEF ChainSound
    <3>. QED  BY <2>3, <3>3, <3>4
  <2>. QED  BY <2>1, <2>2, <2>4, <2>5 DEF ChainSound
<1>4. ASSUME NEW artifact \in Withheld, Release(artifact) PROVE ChainSound'
  BY <1>4 DEF Release, ChainSound
<1>5. ASSUME NEW depth \in 1 .. MinConfirmations - 1, Reorg(depth) PROVE ChainSound'
  <2>1. PICK kept \in 0 .. Len(mined) : mined' = SubSeq(mined, 1, kept)
    BY <1>5 DEF Reorg
  <2>2. tip' = tip + 1 /\ published' = published
    BY <1>5 DEF Reorg
  <2>3. /\ mined' \in Seq(CanonicalRecord) /\ Len(mined') = kept
        /\ \A i \in 1 .. kept : mined'[i] = mined[i] /\ i \in 1 .. Len(mined)
    BY <2>1 DEF ChainSound
  <2>. QED  BY <2>2, <2>3 DEF ChainSound
<1>. QED  BY <1>1, <1>2, <1>3, <1>4, <1>5 DEF ReplayNext

\* A reported record is canonical, and says how deep its block lies.
LEMMA ReportedTyped ==
  ASSUME NEW r \in CanonicalRecord, NEW h \in Nat, r.place \in 1 .. h
  PROVE  /\ reported(r, h) \in CanonicalRecord
         /\ reported(r, h).confirmations = h - r.place + 1
         /\ h - r.place + 1 \in Nat
<1>1. h - r.place + 1 \in Nat
  OBVIOUS
<1>. QED  BY <1>1 DEF reported, CanonicalRecord

\* A record that is not deep enough, or whose artifact nobody has, does nothing.
LEMMA PendingDoesNothing ==
  ASSUME NEW st, NEW av, NEW r, awaiting(r) \/ unavailable(av, r)
  PROVE  applyRecord(st, av, r) = st
<1>1. verdict(st, av, r) \notin {"bound", "applied"}
  BY DEF verdict
<1>. QED  BY <1>1 DEF applyRecord

\* Apart from its depth, a deep enough record has its effect by what it says
\* and by whether its artifact can be fetched.
LEMMA SameEffect ==
  ASSUME NEW st \in [Issued -> StampOwnership], NEW av, NEW bv,
         NEW r \in CanonicalRecord, NEW h \in Nat, NEW k \in Nat,
         r.place \in 1 .. h, r.place \in 1 .. k,
         ~ awaiting(reported(r, h)), ~ awaiting(reported(r, k)),
         r.artifact \in av <=> r.artifact \in bv
  PROVE  applyRecord(st, av, reported(r, h)) = applyRecord(st, bv, reported(r, k))
<1>. PICK p \in CanonicalRecord, q \in CanonicalRecord :
       p = reported(r, h) /\ q = reported(r, k)
  BY ReportedTyped
<1>1. /\ p.kind = q.kind /\ p.stamp = q.stamp /\ p.sequence = q.sequence
      /\ p.artifact = q.artifact /\ p.artifact = r.artifact
      /\ p.place = q.place /\ p.network = q.network
      /\ p.inBestChain = q.inBestChain
  BY DEF reported, CanonicalRecord
<1>2. \A s : checkOffer(s, p) = checkOffer(s, q)
  BY <1>1 DEF checkOffer, nextInSequence, alreadyBound
<1>3. \A s : checkTransfer(s, p) = checkTransfer(s, q)
  BY <1>1 DEF checkTransfer, nextInSequence
<1>4. verdict(st, av, p) = verdict(st, bv, q)
  BY <1>1, <1>2, <1>3 DEF verdict, inBestChain, unavailable
<1>5. \A s : bindOffer(s, p) = bindOffer(s, q) /\ applyTransfer(s, p) = applyTransfer(s, q)
  BY <1>1 DEF bindOffer, applyTransfer, eventOf
<1>6. applyRecord(st, av, p) = applyRecord(st, bv, q)
  BY <1>1, <1>4, <1>5 DEF applyRecord
<1>. QED  BY <1>6

ReportedAt(rs, h) == [i \in 1 .. Len(rs) |-> reported(rs[i], h)]

\* The indexer's input is well formed, and its answer the end of a replay.
LEMMA IndexedReplays ==
  ASSUME NEW rs \in Seq(CanonicalRecord), NEW h \in Nat, NEW av,
         \A i \in 1 .. Len(rs) : rs[i].place \in 1 .. h
  PROVE  /\ Typed(ReportedAt(rs, h)) /\ Len(ReportedAt(rs, h)) = Len(rs)
         /\ \A i \in 1 .. Len(rs) : ReportedAt(rs, h)[i] = reported(rs[i], h)
         /\ \E f : /\ Replays(f, ReportedAt(rs, h), av)
                   /\ resolveOwnership(ReportedAt(rs, h), av) = f[Len(rs)]
<1>1. Len(rs) \in Nat /\ \A i \in 1 .. Len(rs) : rs[i] \in CanonicalRecord
  OBVIOUS
<1>2. Len(ReportedAt(rs, h)) = Len(rs)
  BY <1>1 DEF ReportedAt
<1>3. \A i \in 1 .. Len(rs) : ReportedAt(rs, h)[i] = reported(rs[i], h)
  BY <1>1 DEF ReportedAt
<1>4. Typed(ReportedAt(rs, h))
  BY <1>1, <1>2, <1>3, ReportedTyped DEF Typed
<1>5. \E f : /\ Replays(f, ReportedAt(rs, h), av)
             /\ resolveOwnership(ReportedAt(rs, h), av) = f[Len(ReportedAt(rs, h))]
  BY <1>4, Resolved, Zenon
<1>. QED  BY <1>2, <1>3, <1>4, <1>5

\* A younger record is less deep, and a record is one deeper under a new block.
LEMMA Depths ==
  ASSUME NEW h \in Nat, NEW a \in Nat, NEW b \in Nat, NEW d \in Nat
  PROVE  /\ a < b /\ h - a + 1 < d => h - b + 1 < d
         /\ ~ (h - a + 1 < d) => ~ ((h + 1) - a + 1 < d)
OBVIOUS

\* The records deep enough to count are the oldest ones.
LEMMA ConfirmedPrefix ==
  ASSUME ChainSound
  PROVE  \E n \in 0 .. Len(mined) :
           \A i \in 1 .. Len(mined) : i <= n <=> ~ awaiting(reported(mined[i], tip))
<1>. DEFINE Late(i) == tip - mined[i].place + 1 < MinConfirmations
            Bad == {i \in 1 .. Len(mined) : Late(i)}
<1>1. Len(mined) \in Nat /\ tip \in Nat /\ MinConfirmations \in Nat
  BY OwnershipAssumption DEF ChainSound
<1>2. \A i \in 1 .. Len(mined) : mined[i].place \in Nat /\ mined[i].place <= tip
  BY <1>1 DEF ChainSound
<1>3. \A i \in 1 .. Len(mined) : awaiting(reported(mined[i], tip)) <=> Late(i)
  BY <1>1, ReportedTyped DEF awaiting, ChainSound
<1>4. \A i, j \in 1 .. Len(mined) : i < j /\ Late(i) => Late(j)
  <2>. TAKE i, j \in 1 .. Len(mined)
  <2>. HAVE i < j /\ Late(i)
  <2>. PICK a \in Nat, b \in Nat : a = mined[i].place /\ b = mined[j].place
    BY <1>2
  <2>1. a < b
    BY DEF ChainSound
  <2>2. tip - a + 1 < MinConfirmations
    OBVIOUS
  <2>3. tip - b + 1 < MinConfirmations
    <3>. HIDE DEF Late
    <3>. QED  BY <1>1, <2>1, <2>2, Depths
  <2>. QED  BY <2>3
<1>5. CASE Bad = {}
  <2>. WITNESS Len(mined) \in 0 .. Len(mined)
  <2>. QED  BY <1>1, <1>3, <1>5
<1>6. CASE Bad # {}
  <2>1. Bad \subseteq Nat
    OBVIOUS
  <2>2. PICK m \in Bad : \A k \in Bad : m <= k
    <3>. HIDE DEF Bad
    <3>. QED  BY <1>6, <2>1, LeastNat
  <2>3. m \in 1 .. Len(mined) /\ Late(m) /\ m - 1 \in 0 .. Len(mined)
    BY <1>1, <2>2
  <2>4. ASSUME NEW i \in 1 .. Len(mined) PROVE i <= m - 1 <=> ~ Late(i)
    <3>1. i <= m - 1 => ~ Late(i)
      BY <2>2, <2>3
    <3>2. i = m => Late(i)
      BY <2>3
    <3>3. i > m => Late(i)
      BY <1>4, <2>3
    <3>. HIDE DEF Late
    <3>. QED  BY <2>3, <3>1, <3>2, <3>3
  <2>. HIDE DEF Late
  <2>. QED  BY <1>3, <2>3, <2>4
<1>. QED  BY <1>5, <1>6

\* The deep enough records are still there, as deep or deeper, when the chain
\* has gone on: a reorg is shallower than the confirmation depth.
LEMMA ConfirmedStay ==
  ASSUME ChainSound, [ReplayNext]_replayVars, tip' # tip,
         NEW i \in 1 .. Len(mined), ~ awaiting(reported(mined[i], tip))
  PROVE  /\ tip' = tip + 1
         /\ i \in 1 .. Len(mined') /\ mined'[i] = mined[i]
         /\ ~ awaiting(reported(mined[i], tip'))
         /\ mined[i].artifact \in published <=> mined[i].artifact \in published'
<1>0. /\ tip \in Nat /\ Len(mined) \in Nat /\ mined \in Seq(CanonicalRecord)
      /\ mined[i] \in CanonicalRecord
      /\ mined[i].place \in 1 .. tip
      /\ mined[i].artifact \in published \cup Withheld
      /\ MinConfirmations \in Nat \ {0}
  BY ReplayAssumption DEF ChainSound
<1>. PICK p \in Nat : p = mined[i].place /\ p <= tip /\ 1 <= p
  BY <1>0
<1>1. tip - p + 1 >= MinConfirmations
  <2>1. reported(mined[i], tip).confirmations = tip - p + 1
    BY <1>0, ReportedTyped
  <2>2. ~ (tip - p + 1 < MinConfirmations)
    BY <2>1 DEF awaiting
  <2>. QED  BY <1>0, <2>2
<1>2. tip' = tip + 1
  BY DEF ReplayNext, EmptyBlock, RecordBlock, Release, Reorg, replayVars
<1>3. ~ awaiting(reported(mined[i], tip'))
  <2>1. tip' \in Nat /\ mined[i].place \in 1 .. tip'
    BY <1>0, <1>2
  <2>2. reported(mined[i], tip').confirmations = tip' - p + 1
    BY <1>0, <2>1, ReportedTyped
  <2>3. ~ (tip - p + 1 < MinConfirmations)
    BY <1>0, <1>1
  <2>4. ~ (tip' - p + 1 < MinConfirmations)
    BY <1>0, <1>2, <2>3, Depths
  <2>. QED  BY <2>2, <2>4 DEF awaiting
<1>4. /\ i \in 1 .. Len(mined') /\ mined'[i] = mined[i]
      /\ mined[i].artifact \in published <=> mined[i].artifact \in published'
  <2>1. CASE EmptyBlock
    BY <2>1 DEF EmptyBlock
  <2>2. ASSUME NEW artifact \in Artifact, RecordBlock(artifact)
        PROVE  /\ i \in 1 .. Len(mined') /\ mined'[i] = mined[i]
               /\ mined[i].artifact \in published <=> mined[i].artifact \in published'
    <3>1. mined' = Append(mined, record(artifact, tip + 1))
      BY <2>2 DEF RecordBlock
    <3>2. record(artifact, tip + 1) \in CanonicalRecord
      BY <1>0, RecordTyped
    <3>3. i \in 1 .. Len(mined') /\ mined'[i] = mined[i]
      BY <1>0, <3>1, <3>2
    <3>4. mined[i].artifact \in published <=> mined[i].artifact \in published'
      BY <1>0, <2>2 DEF RecordBlock
    <3>. QED  BY <3>3, <3>4
  <2>3. ASSUME NEW depth \in 1 .. MinConfirmations - 1, Reorg(depth)
        PROVE  /\ i \in 1 .. Len(mined') /\ mined'[i] = mined[i]
               /\ mined[i].artifact \in published <=> mined[i].artifact \in published'
    <3>1. PICK kept \in 0 .. Len(mined) :
            /\ i <= kept <=> mined[i].place <= tip - depth
            /\ mined' = SubSeq(mined, 1, kept)
      BY <2>3 DEF Reorg
    <3>2. p <= tip - depth
      BY <1>0, <1>1
    <3>3. i <= kept
      BY <3>1, <3>2
    <3>4. i \in 1 .. Len(mined') /\ mined'[i] = mined[i]
      BY <1>0, <3>1, <3>3
    <3>. QED  BY <2>3, <3>4 DEF Reorg
  <2>. QED  BY <2>1, <2>2, <2>3 DEF ReplayNext, Release, replayVars
<1>. QED  BY <1>2, <1>3, <1>4

\* One more block, whatever it brings: the replay extends the one before it.
LEMMA BlockExtends ==
  ASSUME ChainSound, ChainSound', [ReplayNext]_replayVars, tip' # tip,
         NEW c \in Issued
  PROVE  /\ indexed[c] \in StampOwnership /\ indexed'[c] \in StampOwnership
         /\ Extends(indexed[c], indexed'[c])
<1>1. PICK f, rs : /\ Replays(f, rs, published)
                   /\ indexed = f[Len(mined)]
                   /\ Typed(rs) /\ Len(rs) = Len(mined) /\ Len(mined) \in Nat
                   /\ \A i \in 1 .. Len(mined) : rs[i] = reported(mined[i], tip)
  <2>1. /\ mined \in Seq(CanonicalRecord) /\ tip \in Nat
        /\ \A i \in 1 .. Len(mined) : mined[i].place \in 1 .. tip
    BY DEF ChainSound
  <2>2. indexed = resolveOwnership(ReportedAt(mined, tip), published)
    BY DEF indexed, ReportedAt
  <2>. QED  BY <2>1, <2>2, IndexedReplays
<1>2. \A i \in 1 .. Len(mined) : mined[i] \in CanonicalRecord
  BY DEF ChainSound
<1>3. PICK g, qs : /\ Replays(g, qs, published')
                   /\ indexed' = g[Len(mined')]
                   /\ Typed(qs) /\ Len(qs) = Len(mined') /\ Len(mined') \in Nat
                   /\ \A i \in 1 .. Len(mined') : qs[i] = reported(mined'[i], tip')
  <2>1. /\ mined' \in Seq(CanonicalRecord) /\ tip' \in Nat
        /\ \A i \in 1 .. Len(mined') : mined'[i].place \in 1 .. tip'
    BY DEF ChainSound
  <2>2. indexed' = resolveOwnership(ReportedAt(mined', tip'), published')
    BY DEF indexed, ReportedAt
  <2>. QED  BY <2>1, <2>2, IndexedReplays
<1>4. PICK n \in 0 .. Len(mined) :
        \A i \in 1 .. Len(mined) : i <= n <=> ~ awaiting(reported(mined[i], tip))
  BY ConfirmedPrefix
<1>5. ASSUME NEW i \in 1 .. n
      PROVE  /\ i \in 1 .. Len(mined) /\ i \in 1 .. Len(mined')
             /\ \A st \in [Issued -> StampOwnership] :
                  applyRecord(st, published, rs[i])
                    = applyRecord(st, published', qs[i])
  <2>1. i \in 1 .. Len(mined) /\ ~ awaiting(reported(mined[i], tip))
    BY <1>1, <1>4
  <2>2. /\ tip' = tip + 1
        /\ i \in 1 .. Len(mined') /\ mined'[i] = mined[i]
        /\ ~ awaiting(reported(mined[i], tip'))
        /\ mined[i].artifact \in published <=> mined[i].artifact \in published'
    BY <2>1, ConfirmedStay
  <2>3. /\ mined[i] \in CanonicalRecord /\ tip \in Nat /\ tip' \in Nat
        /\ mined[i].place \in 1 .. tip /\ mined[i].place \in 1 .. tip'
    BY <1>2, <2>1, <2>2 DEF ChainSound
  <2>4. rs[i] = reported(mined[i], tip) /\ qs[i] = reported(mined[i], tip')
    BY <1>1, <1>3, <2>1, <2>2
  <2>. QED  BY <2>1, <2>2, <2>3, <2>4, SameEffect
<1>6. n \in Nat /\ n <= Len(mined) /\ n <= Len(mined') /\ n \in 0 .. Len(mined')
  BY <1>1, <1>3, <1>4, <1>5
<1>7. f[n] = g[n]
  BY <1>1, <1>3, <1>5, <1>6, ReplaySame
<1>8. indexed = f[n]
  <2>1. \A i \in n + 1 .. Len(mined) : \A st \in [Issued -> StampOwnership] :
          applyRecord(st, published, rs[i]) = st
    BY <1>1, <1>4, PendingDoesNothing
  <2>. QED  BY <1>1, <1>4, <2>1, ReplayRests
<1>9. Extends(g[n][c], g[Len(mined')][c])
  BY <1>3, <1>6, ReplayExtends
<1>10. f[Len(mined)] \in [Issued -> StampOwnership]
       /\ g[Len(mined')] \in [Issued -> StampOwnership]
  BY <1>1, <1>3 DEF Replays
<1>. QED  BY <1>1, <1>3, <1>7, <1>8, <1>9, <1>10

\* However the chain goes on, it takes back neither an accepted transfer nor a
\* binding offer, although the indexer starts from nothing each time.
THEOREM AcceptedStaysFinal == ReplaySpec => AcceptedIsFinal
<1>1. ASSUME ChainSound, ChainSound', [ReplayNext]_replayVars, tip' # tip,
             NEW c \in Issued
      PROVE  IsPrefixOf(indexed[c].history, indexed'[c].history) /\ BindingKept(c)
  <2>. PICK s \in StampOwnership, t \in StampOwnership :
         s = indexed[c] /\ t = indexed'[c] /\ Extends(s, t)
    BY <1>1, BlockExtends
  <2>1. s.history \in Seq(OwnershipEvent) /\ t.history \in Seq(OwnershipEvent)
    BY DEF StampOwnership
  <2>2. IsPrefixOf(s.history, t.history)
    BY <2>1 DEF Extends, IsPrefixOf
  <2>3. BindingKept(c)
    BY DEF BindingKept, Extends
  <2>. QED  BY <2>2, <2>3
<1>2. ChainSound /\ ChainSound' /\ [ReplayNext]_replayVars
        => [tip' # tip =>
              \A c \in Issued :
                /\ IsPrefixOf(indexed[c].history, indexed'[c].history)
                /\ BindingKept(c)]_replayVars
  BY <1>1
<1>. QED
  BY <1>2, ChainInitially, ChainStep, PTL DEF ReplaySpec, AcceptedIsFinal

-----------------------------------------------------------------------------

\* resolvable does what its definition says: step by step, it takes over the
\* records whose artifact can be fetched.
LEMMA ResolvableSteps ==
  ASSUME ChainSound
  PROVE  /\ resolvable[0] = << >>
         /\ \A i \in 0 .. Len(mined) : resolvable[i] \in Seq(CanonicalRecord)
         /\ \A i \in 1 .. Len(mined) :
              resolvable[i] = IF mined[i].artifact \in published
                                THEN Append(resolvable[i - 1], mined[i])
                                ELSE resolvable[i - 1]
<1>. DEFINE X == Seq(CanonicalRecord)
            n == Len(mined)
            After(g, i) ==
              IF i = 0 THEN << >>
              ELSE IF mined[i].artifact \in published
                THEN Append(g[i - 1], mined[i]) ELSE g[i - 1]
<1>1. n \in Nat /\ << >> \in X /\ \A i \in 1 .. n : mined[i] \in CanonicalRecord
  BY DEF ChainSound
<1>2. \A g, i : i # 0 =>
        After(g, i) = IF mined[i].artifact \in published
                        THEN Append(g[i - 1], mined[i]) ELSE g[i - 1]
  OBVIOUS
<1>3. \E f \in [0 .. n -> X] : \A i \in 0 .. n : f[i] = After(f, i)
  <2>1. PICK step : step = [y \in X \X (1 .. n) |->
                              IF mined[y[2]].artifact \in published
                                THEN Append(y[1], mined[y[2]]) ELSE y[1]]
    OBVIOUS
  <2>2. step \in [X \X (1 .. n) -> X]
    <3>1. ASSUME NEW y \in X \X (1 .. n)
          PROVE  (IF mined[y[2]].artifact \in published
                    THEN Append(y[1], mined[y[2]]) ELSE y[1]) \in X
      <4>1. y[1] \in X /\ mined[y[2]] \in CanonicalRecord
        BY <1>1
      <4>. QED  BY <4>1
    <3>. HIDE DEF X
    <3>. QED  BY <2>1, <3>1
  <2>3. PICK f \in [0 .. n -> X] :
          f[0] = << >> /\ \A i \in 1 .. n : f[i] = step[<<f[i - 1], i>>]
    <3>1. PICK e \in X : e = << >>
      BY <1>1
    <3>. HIDE DEF X, n
    <3>2. \E f \in [0 .. n -> X] :
            f[0] = e /\ \A i \in 1 .. n : f[i] = step[<<f[i - 1], i>>]
      <4>1. n \in Nat
        BY <1>1
      <4>. QED  BY <2>2, <4>1, Recursion
    <3>. QED  BY <3>1, <3>2
  <2>4. \A i \in 1 .. n : f[i - 1] \in X
    <3>. HIDE DEF X
    <3>. QED  BY <1>1
  <2>5. \A i \in 1 .. n : f[i] = IF mined[i].artifact \in published
                                   THEN Append(f[i - 1], mined[i]) ELSE f[i - 1]
    <3>. HIDE DEF X, n
    <3>. QED  BY <2>1, <2>3, <2>4
  <2>6. ASSUME NEW i \in 0 .. n PROVE f[i] = After(f, i)
    <3>1. CASE i = 0
      BY <2>3, <3>1
    <3>2. CASE i \in 1 .. n
      <4>1. i # 0
        BY <3>2
      <4>2. f[i] = IF mined[i].artifact \in published
                     THEN Append(f[i - 1], mined[i]) ELSE f[i - 1]
        BY <2>5, <3>2
      <4>. HIDE DEF After, n
      <4>. QED  BY <1>2, <4>1, <4>2
    <3>3. i = 0 \/ i \in 1 .. n
      BY <1>1
    <3>. HIDE DEF After
    <3>. QED  BY <3>1, <3>2, <3>3
  <2>. HIDE DEF X, After, n
  <2>. QED  BY <2>6
<1>4. PICK f \in [0 .. n -> X] : \A i \in 0 .. n : f[i] = After(f, i)
  BY <1>3
<1>5. f = [i \in 0 .. n |-> After(f, i)]
  <2>. HIDE DEF After, X, n
  <2>. QED  BY <1>4
<1>6. resolvable = CHOOSE g : g = [i \in 0 .. n |-> After(g, i)]
  BY DEF resolvable
<1>7. resolvable = [i \in 0 .. n |-> After(resolvable, i)]
  <2>. HIDE DEF After, n
  <2>. QED  BY <1>5, <1>6
<1>8. \A i \in 0 .. n : resolvable[i] = After(resolvable, i)
  <2>. PICK h : h = resolvable
    OBVIOUS
  <2>1. h = [i \in 0 .. n |-> After(h, i)]
    <3>. HIDE DEF After, n
    <3>. QED  BY <1>7
  <2>2. \A i \in 0 .. n : h[i] = After(h, i)
    <3>. HIDE DEF After, n
    <3>. QED  BY <2>1
  <2>. HIDE DEF After, n
  <2>. QED  BY <2>2
<1>9. /\ resolvable[0] = << >>
      /\ \A i \in 1 .. n :
           resolvable[i] = IF mined[i].artifact \in published
                             THEN Append(resolvable[i - 1], mined[i])
                             ELSE resolvable[i - 1]
  <2>1. 0 \in 0 .. n /\ \A i \in 1 .. n : i \in 0 .. n /\ i # 0
    BY <1>1
  <2>. HIDE DEF n
  <2>. QED  BY <1>8, <2>1
<1>10. \A i \in 0 .. n : resolvable[i] \in X
  <2>. PICK h : h = resolvable
    OBVIOUS
  <2>. DEFINE Bad == {i \in 0 .. n : h[i] \notin X}
  <2>1. Bad = {}
    <3>. SUFFICES ASSUME Bad # {} PROVE FALSE
      OBVIOUS
    <3>1. Bad \subseteq Nat
      BY <1>1
    <3>2. PICK m \in Bad : \A k \in Bad : m <= k
      <4>. HIDE DEF Bad
      <4>. QED  BY <3>1, LeastNat
    <3>3. m \in 1 .. n /\ m - 1 \in 0 .. n /\ m - 1 \notin Bad
      <4>. HIDE DEF X
      <4>. QED  BY <1>1, <1>9, <3>2
    <3>4. PICK s \in X, r \in CanonicalRecord : s = h[m - 1] /\ r = mined[m]
      BY <1>1, <3>3
    <3>5. h[m] = Append(s, r) \/ h[m] = s
      BY <1>9, <3>3, <3>4
    <3>6. Append(s, r) \in X
      OBVIOUS
    <3>7. h[m] \in X
      BY <3>5, <3>6
    <3>. QED  BY <3>2, <3>7
  <2>. QED  BY <2>1
<1>. QED  BY <1>9, <1>10

\* What resolvable has taken over stays where it is.
LEMMA ResolvablePrefix ==
  ASSUME ChainSound, NEW i \in 0 .. Len(mined), NEW k \in 1 .. Len(resolvable[i])
  PROVE  /\ Len(resolvable[i]) <= Len(resolvable[Len(mined)])
         /\ resolvable[Len(mined)][k] = resolvable[i][k]
<1>. PICK h, n : h = resolvable /\ n = Len(mined) /\ n \in Nat
  BY DEF ChainSound
<1>1. /\ \A j \in 0 .. n : h[j] \in Seq(CanonicalRecord)
      /\ \A j \in 1 .. n : \/ h[j] = Append(h[j - 1], mined[j])
                           \/ h[j] = h[j - 1]
      /\ \A j \in 1 .. n : mined[j] \in CanonicalRecord
  <2>1. \A j \in 0 .. n : h[j] \in Seq(CanonicalRecord)
    BY ResolvableSteps
  <2>2. \A j \in 1 .. n : \/ h[j] = Append(h[j - 1], mined[j])
                          \/ h[j] = h[j - 1]
    <3>1. \A j \in 1 .. n :
            h[j] = IF mined[j].artifact \in published
                     THEN Append(h[j - 1], mined[j]) ELSE h[j - 1]
      BY ResolvableSteps
    <3>. QED  BY <3>1
  <2>3. \A j \in 1 .. n : mined[j] \in CanonicalRecord
    BY DEF ChainSound
  <2>. QED  BY <2>1, <2>2, <2>3
<1>. DEFINE Stays(j) == Len(h[i]) <= Len(h[j]) /\ h[j][k] = h[i][k]
            Bad == {j \in i .. n : ~ Stays(j)}
<1>2. Bad = {}
  <2>. SUFFICES ASSUME Bad # {} PROVE FALSE
    OBVIOUS
  <2>1. Bad \subseteq Nat
    OBVIOUS
  <2>2. PICK m \in Bad : \A j \in Bad : m <= j
    <3>. HIDE DEF Bad
    <3>. QED  BY <2>1, LeastNat
  <2>3. h[i] \in Seq(CanonicalRecord) /\ Stays(i)
    BY <1>1
  <2>4. m \in 1 .. n /\ m - 1 \in 0 .. n /\ m - 1 \in i .. n /\ m - 1 \notin Bad
    <3>. HIDE DEF Stays
    <3>. QED  BY <2>2, <2>3
  <2>5. Stays(m - 1)
    BY <2>4
  <2>6. PICK s \in Seq(CanonicalRecord), r \in CanonicalRecord, t \in Seq(CanonicalRecord) :
          s = h[m - 1] /\ r = mined[m] /\ t = h[m] /\ (t = Append(s, r) \/ t = s)
    <3>1. /\ h[m - 1] \in Seq(CanonicalRecord) /\ h[m] \in Seq(CanonicalRecord)
          /\ mined[m] \in CanonicalRecord
      BY <1>1, <2>4
    <3>2. h[m] = Append(h[m - 1], mined[m]) \/ h[m] = h[m - 1]
      BY <1>1, <2>4
    <3>. QED  BY <3>1, <3>2
  <2>7. PICK a \in Nat : a = Len(h[i]) /\ k \in 1 .. a
    BY <2>3
  <2>8. a <= Len(s) /\ s[k] = h[i][k]
    BY <2>5, <2>6, <2>7
  <2>9. a <= Len(t) /\ t[k] = h[i][k]
    <3>1. k \in 1 .. Len(s) /\ Len(s) \in Nat
      BY <2>7, <2>8
    <3>2. Append(s, r)[k] = s[k] /\ Len(Append(s, r)) = Len(s) + 1
      BY <3>1
    <3>3. CASE t = s
      BY <2>7, <2>8, <3>3
    <3>4. CASE t = Append(s, r)
      BY <2>7, <2>8, <3>1, <3>2, <3>4
    <3>. QED  BY <2>6, <3>3, <3>4
  <2>10. Stays(m)
    BY <2>6, <2>7, <2>9
  <2>. QED  BY <2>2, <2>10
<1>3. n \in i .. n
  OBVIOUS
<1>. QED  BY <1>2, <1>3

\* Ownership is what it would be without the records whose artifact is missing.
LEMMA NoEffect == ChainSound => UnresolvableHasNoEffect
<1>. SUFFICES ASSUME ChainSound PROVE UnresolvableHasNoEffect
  OBVIOUS
<1>. PICK fetched, h, n : /\ h = resolvable /\ n = Len(mined) /\ n \in Nat
                          /\ fetched = h[n]
  BY DEF ChainSound
<1>1. /\ h[0] = << >>
      /\ \A i \in 0 .. n : h[i] \in Seq(CanonicalRecord)
      /\ \A i \in 1 .. n :
           h[i] = IF mined[i].artifact \in published
                    THEN Append(h[i - 1], mined[i]) ELSE h[i - 1]
      /\ \A i \in 0 .. n : \A k \in 1 .. Len(h[i]) :
           Len(h[i]) <= Len(fetched) /\ fetched[k] = h[i][k]
  BY ResolvableSteps, ResolvablePrefix
<1>2. /\ mined \in Seq(CanonicalRecord) /\ tip \in Nat
      /\ \A i \in 1 .. n : mined[i].place \in 1 .. tip /\ mined[i] \in CanonicalRecord
  BY DEF ChainSound
<1>3. \A i \in 0 .. n : \A k \in 1 .. Len(h[i]) : h[i][k].place \in 1 .. tip
  <2>. DEFINE Placed(i) == \A k \in 1 .. Len(h[i]) : h[i][k].place \in 1 .. tip
              Bad == {i \in 0 .. n : ~ Placed(i)}
  <2>1. Bad = {}
    <3>. SUFFICES ASSUME Bad # {} PROVE FALSE
      OBVIOUS
    <3>1. Bad \subseteq Nat
      OBVIOUS
    <3>2. PICK m \in Bad : \A j \in Bad : m <= j
      <4>. HIDE DEF Bad
      <4>. QED  BY <3>1, LeastNat
    <3>3. Placed(0)
      BY <1>1
    <3>4. m \in 1 .. n /\ m - 1 \in 0 .. n /\ m - 1 \notin Bad
      <4>. HIDE DEF Placed
      <4>. QED  BY <3>2, <3>3
    <3>5. PICK s \in Seq(CanonicalRecord), r \in CanonicalRecord, t \in Seq(CanonicalRecord) :
            s = h[m - 1] /\ r = mined[m] /\ t = h[m] /\ (t = Append(s, r) \/ t = s)
      <4>1. /\ h[m - 1] \in Seq(CanonicalRecord) /\ h[m] \in Seq(CanonicalRecord)
            /\ mined[m] \in CanonicalRecord
        <5>1. m \in 0 .. n
          BY <3>4
        <5>. QED  BY <1>1, <1>2, <3>4, <5>1
      <4>2. h[m] = Append(h[m - 1], mined[m]) \/ h[m] = h[m - 1]
        BY <1>1, <3>4
      <4>. QED  BY <4>1, <4>2
    <3>6. r.place \in 1 .. tip /\ \A k \in 1 .. Len(s) : s[k].place \in 1 .. tip
      BY <1>2, <3>4, <3>5
    <3>7. ASSUME NEW k \in 1 .. Len(t) PROVE t[k].place \in 1 .. tip
      <4>1. CASE t = s
        BY <3>6, <4>1
      <4>2. CASE t = Append(s, r)
        <5>1. \/ k \in 1 .. Len(s) /\ t[k] = s[k]
              \/ t[k] = r
          BY <4>2
        <5>. QED  BY <3>6, <5>1
      <4>. QED  BY <3>5, <4>1, <4>2
    <3>8. Placed(m)
      BY <3>5, <3>7
    <3>. QED  BY <3>2, <3>8
  <2>. QED  BY <2>1
<1>4. fetched \in Seq(CanonicalRecord) /\ \A k \in 1 .. Len(fetched) :
        fetched[k].place \in 1 .. tip /\ fetched[k] \in CanonicalRecord
  BY <1>1, <1>3
<1>5. PICK f, rs : /\ Replays(f, rs, published) /\ indexed = f[n]
                   /\ Typed(rs) /\ Len(rs) = n
                   /\ \A i \in 1 .. n : rs[i] = reported(mined[i], tip)
  <2>1. indexed = resolveOwnership(ReportedAt(mined, tip), published)
    BY DEF indexed, ReportedAt
  <2>. QED  BY <1>2, <2>1, IndexedReplays
<1>6. PICK g, qs : /\ Replays(g, qs, published)
                   /\ resolveOwnership(qs, published) = g[Len(fetched)]
                   /\ qs = ReportedAt(fetched, tip)
                   /\ Typed(qs) /\ Len(qs) = Len(fetched)
                   /\ \A k \in 1 .. Len(fetched) : qs[k] = reported(fetched[k], tip)
  <2>1. \A k \in 1 .. Len(fetched) : fetched[k].place \in 1 .. tip
    BY <1>4
  <2>2. /\ Typed(ReportedAt(fetched, tip)) /\ Len(ReportedAt(fetched, tip)) = Len(fetched)
        /\ \A k \in 1 .. Len(fetched) :
             ReportedAt(fetched, tip)[k] = reported(fetched[k], tip)
        /\ \E g : /\ Replays(g, ReportedAt(fetched, tip), published)
                  /\ resolveOwnership(ReportedAt(fetched, tip), published)
                       = g[Len(fetched)]
    <3>1. fetched \in Seq(CanonicalRecord) /\ tip \in Nat
      BY <1>2, <1>4
    <3>2. Typed(ReportedAt(fetched, tip))
      BY <2>1, <3>1, IndexedReplays
    <3>3. Len(ReportedAt(fetched, tip)) = Len(fetched)
      BY <2>1, <3>1, IndexedReplays
    <3>4. \A k \in 1 .. Len(fetched) :
             ReportedAt(fetched, tip)[k] = reported(fetched[k], tip)
      BY <2>1, <3>1, IndexedReplays
    <3>5. \E g : /\ Replays(g, ReportedAt(fetched, tip), published)
                /\ resolveOwnership(ReportedAt(fetched, tip), published)
                       = g[Len(fetched)]
      BY <2>1, <3>1, IndexedReplays
    <3>. QED  BY <3>2, <3>3, <3>4, <3>5
  <2>. QED  BY <2>2
<1>. DEFINE Matched(i) == f[i] = g[Len(h[i])]
            Bad == {i \in 0 .. n : ~ Matched(i)}
<1>7. Matched(0)
  BY <1>1, <1>5, <1>6 DEF Replays
<1>8. ASSUME NEW m \in 1 .. n, Matched(m - 1) PROVE Matched(m)
  <2>1. m - 1 \in 0 .. n /\ m \in 0 .. n
    OBVIOUS
  <2>2. f[m] = applyRecord(f[m - 1], published, reported(mined[m], tip))
    BY <1>5 DEF Replays
  <2>3. CASE mined[m].artifact \in published
    <3>1. PICK s \in Seq(CanonicalRecord), r \in CanonicalRecord, t \in Seq(CanonicalRecord) :
            s = h[m - 1] /\ r = mined[m] /\ t = h[m] /\ t = Append(s, r)
      <4>1. /\ h[m - 1] \in Seq(CanonicalRecord) /\ h[m] \in Seq(CanonicalRecord)
            /\ mined[m] \in CanonicalRecord
        BY <1>1, <1>2, <2>1
      <4>2. h[m] = Append(h[m - 1], mined[m])
        BY <1>1, <2>3
      <4>. QED  BY <4>1, <4>2
    <3>2. PICK k : k = Len(t) /\ k \in 1 .. Len(t) /\ t[k] = r /\ k - 1 = Len(s)
      <4>1. /\ Len(s) \in Nat /\ Len(Append(s, r)) = Len(s) + 1
            /\ Append(s, r)[Len(s) + 1] = r
        OBVIOUS
      <4>2. /\ Len(t) = Len(s) + 1 /\ Len(t) \in 1 .. Len(t) /\ t[Len(t)] = r
            /\ Len(t) - 1 = Len(s)
        BY <3>1, <4>1
      <4>. QED  BY <4>2
    <3>3. k \in 1 .. Len(fetched) /\ fetched[k] = r
      <4>0. \A j \in 1 .. Len(h[m]) : Len(h[m]) <= Len(fetched) /\ fetched[j] = h[m][j]
        BY <1>1, <2>1
      <4>1. Len(t) <= Len(fetched) /\ fetched[k] = t[k]
        BY <3>1, <3>2, <4>0
      <4>2. Len(fetched) \in Nat
        BY <1>4
      <4>. QED  BY <3>2, <4>1, <4>2
    <3>4. g[k] = applyRecord(g[k - 1], published, reported(r, tip))
      BY <1>6, <3>3 DEF Replays
    <3>. QED  BY <1>8, <2>2, <3>1, <3>2, <3>4
  <2>4. CASE mined[m].artifact \notin published
    <3>1. h[m] = h[m - 1]
      BY <1>1, <2>4
    <3>2. reported(mined[m], tip).artifact = mined[m].artifact
      BY <1>2 DEF reported, CanonicalRecord
    <3>3. f[m] = f[m - 1]
      BY <2>2, <2>4, <3>2, PendingDoesNothing DEF unavailable
    <3>. QED  BY <1>8, <3>1, <3>3
  <2>. QED  BY <2>3, <2>4
<1>9. Bad = {}
  <2>. SUFFICES ASSUME Bad # {} PROVE FALSE
    OBVIOUS
  <2>1. Bad \subseteq Nat
    OBVIOUS
  <2>2. PICK m \in Bad : \A j \in Bad : m <= j
    <3>. HIDE DEF Bad
    <3>. QED  BY <2>1, LeastNat
  <2>. HIDE DEF Matched
  <2>3. m \in 1 .. n /\ m - 1 \in 0 .. n /\ m - 1 \notin Bad
    BY <1>7, <2>2
  <2>. QED  BY <1>8, <2>2, <2>3
<1>10. indexed = g[Len(fetched)]
  <2>1. Matched(n)
    <3>. HIDE DEF Matched
    <3>. QED  BY <1>9
  <2>. QED  BY <1>5, <2>1
<1>. QED
  BY <1>6, <1>10 DEF UnresolvableHasNoEffect, ReportedAt

\* Whatever is on the chain and whoever holds back what, a record that cannot be
\* resolved leaves ownership as it would be without it.
THEOREM UnresolvableIsNothing == ReplaySpec => []UnresolvableHasNoEffect
<1>. QED
  BY ChainInitially, ChainStep, NoEffect, PTL DEF ReplaySpec

-----------------------------------------------------------------------------
(* The marketplace: what replays keep.                                     *)

\* What holds at a and passes from one number to the next holds up to b.
LEMMA Steps ==
  ASSUME NEW S, NEW a \in Nat, NEW b \in Nat, a \in S,
         \A i \in a + 1 .. b : i - 1 \in S => i \in S
  PROVE  \A i \in a .. b : i \in S
<1>. DEFINE Bad == {i \in a .. b : i \notin S}
<1>. SUFFICES ASSUME Bad # {} PROVE FALSE
  OBVIOUS
<1>1. Bad \subseteq Nat
  OBVIOUS
<1>2. PICK m \in Bad : \A k \in Bad : m <= k
  <2>. HIDE DEF Bad
  <2>. QED  BY <1>1, LeastNat
<1>3. m \in a + 1 .. b /\ m - 1 \in a .. b /\ m - 1 \notin Bad
  BY <1>2
<1>. QED  BY <1>2, <1>3

-----------------------------------------------------------------------------
(* One record.                                                             *)

\* What a record that is deep enough makes of the stamp s that it names.
Outcome(s, av, r) ==
  IF r.network # DestinationNetwork \/ ~ r.inBestChain \/ r.artifact \notin av THEN s
  ELSE IF r.kind = "offer"
    THEN IF checkOffer(s, r) = "bound" THEN bindOffer(s, r) ELSE s
  ELSE IF checkTransfer(s, r) = "applied" THEN applyTransfer(s, r) ELSE s

\* What happens to a stamp depends on that stamp and the record alone.
LEMMA RecordIs ==
  ASSUME NEW st \in [Issued -> StampOwnership], NEW av,
         NEW r \in CanonicalRecord, NEW c \in Issued
  PROVE  applyRecord(st, av, r)[c] =
           IF r.stamp = c /\ ~ awaiting(r) THEN Outcome(st[c], av, r) ELSE st[c]
<1>. PICK v : v = verdict(st, av, r)
  OBVIOUS
<1>0. r.kind \in {"offer", "transfer"}
  BY DEF CanonicalRecord
<1>1. CASE v = "bound"
  <2>1. checkTransfer(st[r.stamp], r) # "bound"
    BY DEF checkTransfer, checkTerms
  <2>2. /\ r.stamp \in Issued /\ r.kind = "offer" /\ checkOffer(st[r.stamp], r) = "bound"
        /\ ~ awaiting(r) /\ r.artifact \in av
        /\ r.network = DestinationNetwork /\ r.inBestChain
    BY <1>1, <2>1 DEF verdict, inBestChain, unavailable
  <2>3. applyRecord(st, av, r) = [st EXCEPT ![r.stamp] = bindOffer(st[r.stamp], r)]
    BY <1>1, <2>2 DEF applyRecord
  <2>. QED  BY <2>2, <2>3 DEF Outcome
<1>2. CASE v = "applied"
  <2>1. checkOffer(st[r.stamp], r) # "applied"
    BY DEF checkOffer
  <2>2. /\ r.stamp \in Issued /\ r.kind = "transfer"
        /\ checkTransfer(st[r.stamp], r) = "applied"
        /\ ~ awaiting(r) /\ r.artifact \in av
        /\ r.network = DestinationNetwork /\ r.inBestChain
    BY <1>0, <1>2, <2>1 DEF verdict, inBestChain, unavailable
  <2>3. applyRecord(st, av, r) = [st EXCEPT ![r.stamp] = applyTransfer(st[r.stamp], r)]
    BY <1>2, <2>2 DEF applyRecord
  <2>. QED  BY <2>2, <2>3 DEF Outcome
<1>3. CASE v \notin {"bound", "applied"}
  <2>1. applyRecord(st, av, r) = st
    BY <1>3 DEF applyRecord
  <2>2. CASE r.stamp = c /\ ~ awaiting(r)
    <3>1. Outcome(st[c], av, r) = st[c]
      BY <1>0, <1>3, <2>2 DEF Outcome, verdict, inBestChain, unavailable
    <3>. QED  BY <2>1, <2>2, <3>1
  <2>. QED  BY <2>1, <2>2
<1>. QED  BY <1>1, <1>2, <1>3

\* A record changes the stamp it names, at the next sequence, when it is deep
\* enough and its artifact is there.
Does(s, t, r, c) ==
  /\ r.stamp = c /\ r.sequence = s.sequence + 1
  /\ \/ r.kind = "offer" /\ checkOffer(s, r) = "bound" /\ t = bindOffer(s, r)
     \/ r.kind = "transfer" /\ checkTransfer(s, r) = "applied" /\ t = applyTransfer(s, r)

LEMMA RecordDoes ==
  ASSUME NEW st \in [Issued -> StampOwnership], NEW av,
         NEW r \in CanonicalRecord, NEW c \in Issued
  PROVE  \/ applyRecord(st, av, r)[c] = st[c]
         \/ Does(st[c], applyRecord(st, av, r)[c], r, c)
<1>. PICK s \in StampOwnership : s = st[c]
  OBVIOUS
<1>1. Outcome(s, av, r) = s \/ r.stamp # c \/ Does(s, Outcome(s, av, r), r, c)
  <2>1. checkOffer(s, r) = "bound" => r.sequence = s.sequence + 1
    BY DEF checkOffer, nextInSequence
  <2>2. checkTransfer(s, r) = "applied" => r.sequence = s.sequence + 1
    BY DEF checkTransfer, nextInSequence
  <2>3. r.kind \in {"offer", "transfer"}
    BY DEF CanonicalRecord
  <2>. QED  BY <2>1, <2>2, <2>3 DEF Outcome, Does
<1>. QED  BY <1>1, RecordIs

\* Records that differ in their depth only.
Same(r, q) ==
  /\ r.kind = q.kind /\ r.stamp = q.stamp /\ r.sequence = q.sequence
  /\ r.artifact = q.artifact /\ r.place = q.place
  /\ r.network = q.network /\ r.inBestChain = q.inBestChain

LEMMA SameOutcome ==
  ASSUME NEW s, NEW av, NEW bv, NEW r, NEW q, Same(r, q),
         r.artifact \in av <=> r.artifact \in bv
  PROVE  Outcome(s, av, r) = Outcome(s, bv, q)
<1>1. /\ checkOffer(s, r) = checkOffer(s, q)
      /\ checkTransfer(s, r) = checkTransfer(s, q)
  BY DEF checkOffer, checkTransfer, nextInSequence, Same
<1>2. /\ bindOffer(s, r) = bindOffer(s, q)
      /\ applyTransfer(s, r) = applyTransfer(s, q)
  BY DEF bindOffer, applyTransfer, eventOf, Same
<1>. QED  BY <1>1, <1>2 DEF Outcome, Same

-----------------------------------------------------------------------------
(* Replays.                                                                *)

\* Every state of a replay is sound.
LEMMA ReplaySound ==
  ASSUME NEW rs, Typed(rs), NEW av, NEW f, Replays(f, rs, av), NEW c \in Issued
  PROVE  \A i \in 0 .. Len(rs) : f[i][c] \in StampOwnership /\ StampInv(c, f[i][c])
<1>. DEFINE S == {i \in 0 .. Len(rs) : StampInv(c, f[i][c])}
<1>1. Len(rs) \in Nat
  BY DEF Typed
<1>2. \A i \in 0 .. Len(rs) : f[i] \in [Issued -> StampOwnership]
  BY DEF Replays
<1>3. 0 \in S
  <2>1. f[0][c] = IssuedStamp(c)
    BY DEF Replays
  <2>2. StampInv(c, f[0][c])
    BY <2>1, IssuedKeeps
  <2>. QED  BY <1>1, <2>2
<1>4. ASSUME NEW i \in 0 + 1 .. Len(rs), i - 1 \in S PROVE i \in S
  <2>1. i \in 1 .. Len(rs) /\ i \in 0 .. Len(rs) /\ i - 1 \in 0 .. Len(rs)
    BY <1>1
  <2>2. f[i] = applyRecord(f[i - 1], av, rs[i]) /\ rs[i] \in CanonicalRecord
    BY <2>1 DEF Replays, Typed
  <2>. PICK s \in StampOwnership : s = f[i - 1][c]
    BY <1>2, <2>1
  <2>3. StampInv(c, s)
    BY <1>4
  <2>4. f[i][c] = s \/ Does(s, f[i][c], rs[i], c)
    BY <1>2, <2>1, <2>2, RecordDoes
  <2>5. CASE Does(s, f[i][c], rs[i], c)
    <3>1. StampInv(c, f[i][c])
      BY <2>2, <2>3, <2>5, BindKeeps, ApplyKeeps DEF Does
    <3>. QED  BY <2>1, <3>1
  <2>. QED  BY <2>1, <2>3, <2>4, <2>5
<1>5. \A i \in 0 .. Len(rs) : i \in S
  <2>. HIDE DEF S
  <2>. QED  BY <1>1, <1>3, <1>4, Steps
<1>. QED  BY <1>2, <1>5

\* A later state of a replay extends an earlier one.
LEMMA ReplayGoesOn ==
  ASSUME NEW rs, Typed(rs), NEW av, NEW f, Replays(f, rs, av), NEW c \in Issued,
         NEW a \in 0 .. Len(rs), NEW b \in a .. Len(rs)
  PROVE  Extends(f[a][c], f[b][c])
<1>. DEFINE S == {i \in a .. b : Extends(f[a][c], f[i][c])}
<1>1. Len(rs) \in Nat /\ a \in Nat /\ b \in Nat /\ a <= b /\ b <= Len(rs)
  BY DEF Typed
<1>2. \A i \in 0 .. Len(rs) : /\ f[i] \in [Issued -> StampOwnership]
                              /\ f[i][c] \in StampOwnership
  BY DEF Replays
<1>3. a \in S
  <2>1. \A s \in StampOwnership : Extends(s, s)
    BY DEF Extends, StampOwnership
  <2>. QED  BY <1>1, <1>2, <2>1
<1>4. ASSUME NEW i \in a + 1 .. b, i - 1 \in S PROVE i \in S
  <2>1. /\ i \in 1 .. Len(rs) /\ i \in 0 .. Len(rs) /\ i - 1 \in 0 .. Len(rs)
        /\ i \in a .. b
    BY <1>1
  <2>2. f[i] = applyRecord(f[i - 1], av, rs[i]) /\ rs[i] \in CanonicalRecord
    BY <2>1 DEF Replays, Typed
  <2>3. Extends(f[i - 1][c], f[i][c])
    BY <1>2, <2>1, <2>2, RecordExtends
  <2>4. Extends(f[a][c], f[i - 1][c])
    BY <1>4
  <2>5. Extends(f[a][c], f[i][c])
    BY <1>1, <1>2, <2>1, <2>3, <2>4, ExtendsChain
  <2>. QED  BY <2>1, <2>5
<1>5. \A i \in a .. b : i \in S
  <2>. HIDE DEF S
  <2>. QED  BY <1>1, <1>3, <1>4, Steps
<1>6. b \in a .. b
  BY <1>1
<1>. QED  BY <1>5, <1>6

\* A replay's events and bound offers come from records of their sequence.
LEMMA ReplayClaims ==
  ASSUME NEW rs, Typed(rs), NEW av, NEW f, Replays(f, rs, av), NEW c \in Issued,
         NEW a \in 0 .. Len(rs), NEW b \in a .. Len(rs)
  PROVE  /\ \A k \in Len(f[a][c].history) + 1 .. Len(f[b][c].history) :
              \E i \in a + 1 .. b : /\ rs[i].stamp = c /\ rs[i].sequence = k
                                    /\ f[b][c].history[k].place = rs[i].place
         /\ \A n \in Sequence :
              f[a][c].boundOffers[n] = None /\ f[b][c].boundOffers[n] # None =>
                \E i \in a + 1 .. b : rs[i].stamp = c /\ rs[i].sequence = n
<1>. DEFINE Events(m) ==
              \A k \in Len(f[a][c].history) + 1 .. Len(f[m][c].history) :
                \E i \in a + 1 .. m : /\ rs[i].stamp = c /\ rs[i].sequence = k
                                      /\ f[m][c].history[k].place = rs[i].place
            Offers(m) ==
              \A n \in Sequence :
                f[a][c].boundOffers[n] = None /\ f[m][c].boundOffers[n] # None =>
                  \E i \in a + 1 .. m : rs[i].stamp = c /\ rs[i].sequence = n
            S == {m \in a .. b : Events(m) /\ Offers(m)}
<1>1. Len(rs) \in Nat /\ a \in Nat /\ b \in Nat /\ a <= b /\ b <= Len(rs)
  BY DEF Typed
<1>2. \A i \in 0 .. Len(rs) : /\ f[i] \in [Issued -> StampOwnership]
                              /\ f[i][c] \in StampOwnership /\ Contiguous(f[i][c])
                              /\ Len(f[i][c].history) \in Nat
  <2>1. \A i \in 0 .. Len(rs) : f[i] \in [Issued -> StampOwnership]
    BY DEF Replays
  <2>2. \A s \in StampOwnership : Len(s.history) \in Nat
    BY DEF StampOwnership
  <2>3. \A i \in 0 .. Len(rs) : f[i][c] \in StampOwnership /\ Contiguous(f[i][c])
    BY ReplaySound DEF StampInv
  <2>. QED  BY <2>1, <2>2, <2>3
<1>3. a \in S
  <2>1. Events(a)
    BY <1>1, <1>2
  <2>2. Offers(a)
    OBVIOUS
  <2>. QED  BY <1>1, <2>1, <2>2
<1>4. ASSUME NEW m \in a + 1 .. b, m - 1 \in S PROVE m \in S
  <2>1. /\ m \in 1 .. Len(rs) /\ m \in 0 .. Len(rs) /\ m - 1 \in 0 .. Len(rs)
        /\ m \in a .. b
    BY <1>1
  <2>2. f[m] = applyRecord(f[m - 1], av, rs[m]) /\ rs[m] \in CanonicalRecord
    BY <2>1 DEF Replays, Typed
  <2>3. PICK s \in StampOwnership, t \in StampOwnership : s = f[m - 1][c] /\ t = f[m][c]
    BY <1>2, <2>1
  <2>4. Events(m - 1) /\ Offers(m - 1)
    BY <1>4
  <2>5. \A i \in a + 1 .. m - 1 : i \in a + 1 .. m
    BY <1>1
  <2>6. t = s \/ Does(s, t, rs[m], c)
    BY <1>2, <2>1, <2>2, <2>3, RecordDoes
  <2>7. /\ s.sequence = Len(s.history) /\ Len(s.history) \in Nat /\ Len(t.history) \in Nat
        /\ Len(f[a][c].history) \in Nat
    BY <1>1, <1>2, <2>1, <2>3 DEF Contiguous
  <2>8. CASE t = s
    <3>1. Events(m)
      BY <2>3, <2>4, <2>5, <2>8, SMTT(30)
    <3>2. Offers(m)
      BY <2>3, <2>4, <2>5, <2>8
    <3>. QED  BY <2>1, <3>1, <3>2
  <2>9. CASE /\ rs[m].stamp = c /\ rs[m].sequence = s.sequence + 1
             /\ rs[m].kind = "offer" /\ checkOffer(s, rs[m]) = "bound"
             /\ t = bindOffer(s, rs[m])
    <3>1. /\ t.history = s.history
          /\ t.boundOffers = [s.boundOffers EXCEPT ![rs[m].sequence] = rs[m].artifact]
      BY <2>9 DEF bindOffer, StampOwnership
    <3>2. Events(m)
      BY <2>3, <2>4, <2>5, <3>1
    <3>3. \A n \in Sequence : n # rs[m].sequence => t.boundOffers[n] = s.boundOffers[n]
      BY <3>1 DEF StampOwnership
    <3>4. m \in a + 1 .. m
      BY <1>1
    <3>5. Offers(m)
      BY <2>3, <2>4, <2>5, <2>9, <3>3, <3>4
    <3>. QED  BY <2>1, <3>2, <3>5
  <2>10. CASE /\ rs[m].stamp = c /\ rs[m].sequence = s.sequence + 1
              /\ rs[m].kind = "transfer" /\ checkTransfer(s, rs[m]) = "applied"
              /\ t = applyTransfer(s, rs[m])
    <3>1. /\ t.boundOffers = s.boundOffers /\ Len(t.history) = Len(s.history) + 1
          /\ t.history[Len(s.history) + 1] = eventOf(s, rs[m])
          /\ \A i \in 1 .. Len(s.history) : t.history[i] = s.history[i]
      BY <2>2, <2>10, ApplyShape
    <3>2. eventOf(s, rs[m]).place = rs[m].place
      BY DEF eventOf
    <3>3. m \in a + 1 .. m
      BY <1>1
    <3>4. Offers(m)
      BY <2>3, <2>4, <2>5, <3>1
    <3>5. ASSUME NEW k \in Len(f[a][c].history) + 1 .. Len(t.history)
          PROVE  \E i \in a + 1 .. m : /\ rs[i].stamp = c /\ rs[i].sequence = k
                                       /\ t.history[k].place = rs[i].place
      <4>1. CASE k = Len(s.history) + 1
        BY <2>7, <2>10, <3>1, <3>2, <3>3, <4>1
      <4>2. CASE k # Len(s.history) + 1
        <5>1. k \in Len(f[a][c].history) + 1 .. Len(s.history) /\ k \in 1 .. Len(s.history)
          <6>. PICK p \in Nat, q \in Nat : p = Len(f[a][c].history) /\ q = Len(s.history)
            BY <2>7
          <6>1. k \in p + 1 .. q + 1 /\ k # q + 1
            BY <3>1, <4>2
          <6>2. k \in p + 1 .. q /\ k \in 1 .. q
            <7>. HIDE DEF Events, Offers, S
            <7>. QED  BY <6>1, SMTT(30)
          <6>. QED  BY <6>2
        <5>2. t.history[k] = s.history[k]
          BY <3>1, <5>1
        <5>3. PICK i \in a + 1 .. m - 1 : /\ rs[i].stamp = c /\ rs[i].sequence = k
                                          /\ s.history[k].place = rs[i].place
          BY <2>3, <2>4, <5>1
        <5>. QED  BY <2>5, <5>2, <5>3
      <4>. QED  BY <4>1, <4>2
    <3>6. Events(m)
      BY <2>3, <3>5
    <3>. QED  BY <2>1, <3>4, <3>6
  <2>. HIDE DEF S, Events, Offers
  <2>. QED  BY <2>6, <2>8, <2>9, <2>10 DEF Does
<1>5. \A m \in a .. b : m \in S
  <2>. HIDE DEF S
  <2>. QED  BY <1>1, <1>3, <1>4, Steps
<1>6. Events(b) /\ Offers(b)
  <2>. HIDE DEF Events, Offers
  <2>. QED  BY <1>1, <1>5
<1>. QED  BY <1>6

\* The records of a chain, the older at least as deep as the younger.
Older(rs) ==
  /\ Typed(rs)
  /\ \A j, k \in 1 .. Len(rs) : j < k => rs[k].confirmations <= rs[j].confirmations

\* The records deep enough to count are the oldest ones, and the others have no
\* effect.
LEMMA OldestCount ==
  ASSUME NEW rs, Older(rs), NEW av, NEW f, Replays(f, rs, av)
  PROVE  \E m \in 0 .. Len(rs) :
           /\ \A i \in 1 .. Len(rs) : i <= m <=> ~ awaiting(rs[i])
           /\ f[Len(rs)] = f[m]
<1>. DEFINE Late == {i \in 1 .. Len(rs) : awaiting(rs[i])}
<1>1. Typed(rs) /\ Len(rs) \in Nat
  BY DEF Older, Typed
<1>2. \A i \in 1 .. Len(rs) : rs[i].confirmations \in Nat
  BY <1>1 DEF Typed, CanonicalRecord
<1>3. \E m \in 0 .. Len(rs) : \A i \in 1 .. Len(rs) : i <= m <=> ~ awaiting(rs[i])
  <2>1. CASE Late = {}
    <3>1. \A i \in 1 .. Len(rs) : ~ awaiting(rs[i])
      BY <2>1
    <3>. QED  BY <1>1, <3>1
  <2>2. CASE Late # {}
    <3>1. Late \subseteq Nat
      OBVIOUS
    <3>2. PICK n \in Late : \A k \in Late : n <= k
      <4>. HIDE DEF Late
      <4>. QED  BY <2>2, <3>1, LeastNat
    <3>3. n \in 1 .. Len(rs) /\ n - 1 \in 0 .. Len(rs)
      BY <1>1, <3>2
    <3>4. ASSUME NEW i \in 1 .. Len(rs) PROVE i <= n - 1 <=> ~ awaiting(rs[i])
      <4>1. CASE i <= n - 1
        <5>1. ~ (n <= i)
          BY <3>3, <4>1
        <5>. QED  BY <3>2, <4>1, <5>1
      <4>2. CASE i = n
        BY <3>2, <3>3, <4>2
      <4>3. CASE n < i
        <5>1. rs[i].confirmations <= rs[n].confirmations
          BY <3>3, <4>3 DEF Older
        <5>2. rs[n].confirmations < MinConfirmations
          BY <3>2 DEF awaiting
        <5>3. rs[i].confirmations < MinConfirmations
          BY <1>2, <3>3, <5>1, <5>2, OwnershipAssumption
        <5>. QED  BY <3>3, <4>3, <5>3 DEF awaiting
      <4>. QED  BY <3>3, <4>1, <4>2, <4>3
    <3>. QED  BY <3>3, <3>4
  <2>. QED  BY <2>1, <2>2
<1>4. PICK m \in 0 .. Len(rs) : \A i \in 1 .. Len(rs) : i <= m <=> ~ awaiting(rs[i])
  BY <1>3
<1>5. ASSUME NEW i \in m + 1 .. Len(rs), NEW st \in [Issued -> StampOwnership]
      PROVE  applyRecord(st, av, rs[i]) = st
  <2>1. i \in 1 .. Len(rs) /\ ~ (i <= m)
    BY <1>1
  <2>2. awaiting(rs[i])
    BY <1>4, <2>1
  <2>. QED  BY <2>2, PendingDoesNothing
<1>6. f[Len(rs)] = f[m]
  BY <1>1, <1>5, ReplayRests
<1>. QED  BY <1>4, <1>6

\* Chain qs is chain rs grown older, and longer.
Ages(rs, qs) ==
  /\ Len(rs) <= Len(qs)
  /\ \A i \in 1 .. Len(rs) : /\ Same(rs[i], qs[i])
                             /\ rs[i].confirmations <= qs[i].confirmations

\* Stamp states with the same transfers below sequence n.
Alike(s, t, n) ==
  \/ s = t
  \/ /\ n <= Len(s.history) + 1 /\ n <= Len(t.history) + 1
     /\ \A k \in 1 .. n - 1 : s.history[k] = t.history[k]

\* The artifacts of the records below sequence n of stamp c are in both sets or in
\* neither.
AgreeBelow(rs, c, n, av, bv) ==
  \A i \in 1 .. Len(rs) : rs[i].stamp = c /\ rs[i].sequence < n =>
    (rs[i].artifact \in av <=> rs[i].artifact \in bv)

\* The transfers of state s below sequence n are there in state t.
KeptTo(s, t, n) ==
  \A k \in 1 .. Len(s.history) : k < n =>
    k \in 1 .. Len(t.history) /\ t.history[k] = s.history[k]

\* Positions below n are positions of a sequence of length n - 1 or more.
LEMMA Below ==
  ASSUME NEW n \in Nat, NEW h \in Nat, n <= h + 1
  PROVE  \A k \in 1 .. n - 1 : k \in 1 .. h
OBVIOUS

\* When an artifact of sequence n or later comes or goes, the transfers below n
\* stay: on a grown chain, a replay with other artifacts has them too.
LEMMA KeptBelow ==
  ASSUME NEW rs, Older(rs), NEW qs, Typed(qs), Ages(rs, qs),
         NEW av, NEW bv, NEW c \in Issued, NEW n \in Nat, AgreeBelow(rs, c, n, av, bv),
         NEW f, Replays(f, rs, av), NEW g, Replays(g, qs, bv)
  PROVE  KeptTo(f[Len(rs)][c], g[Len(qs)][c], n)
<1>1. Typed(rs) /\ Len(rs) \in Nat /\ Len(qs) \in Nat /\ Len(rs) <= Len(qs)
  BY DEF Older, Typed, Ages
<1>2. PICK m \in 0 .. Len(rs) :
        /\ \A i \in 1 .. Len(rs) : i <= m <=> ~ awaiting(rs[i])
        /\ f[Len(rs)] = f[m]
  BY OldestCount
<1>3. \A i \in 0 .. m : /\ f[i] \in [Issued -> StampOwnership] /\ f[i][c] \in StampOwnership
                        /\ g[i] \in [Issued -> StampOwnership] /\ g[i][c] \in StampOwnership
                        /\ Contiguous(f[i][c]) /\ Contiguous(g[i][c])
  <2>1. \A i \in 0 .. m : i \in 0 .. Len(rs) /\ i \in 0 .. Len(qs)
    BY <1>1
  <2>2. \A i \in 0 .. m : /\ f[i] \in [Issued -> StampOwnership]
                          /\ g[i] \in [Issued -> StampOwnership]
    BY <2>1 DEF Replays
  <2>3. \A i \in 0 .. Len(rs) : Contiguous(f[i][c])
    BY <1>1, ReplaySound DEF StampInv
  <2>4. \A i \in 0 .. Len(qs) : Contiguous(g[i][c])
    BY ReplaySound DEF StampInv
  <2>. QED  BY <2>1, <2>2, <2>3, <2>4
<1>. DEFINE S == {i \in 0 .. m : Alike(f[i][c], g[i][c], n)}
<1>4. 0 \in S
  BY DEF Replays, Alike
<1>5. ASSUME NEW i \in 0 + 1 .. m, i - 1 \in S PROVE i \in S
  <2>1. /\ i \in 1 .. Len(rs) /\ i \in 1 .. Len(qs) /\ i - 1 \in 0 .. m /\ i \in 0 .. m
        /\ i <= m
    BY <1>1
  <2>2. PICK r \in CanonicalRecord, q \in CanonicalRecord : r = rs[i] /\ q = qs[i]
    BY <1>1, <2>1 DEF Typed
  <2>3. Same(r, q) /\ r.confirmations <= q.confirmations
    BY <2>1, <2>2 DEF Ages
  <2>4. ~ awaiting(r) /\ ~ awaiting(q)
    <3>1. ~ awaiting(r)
      BY <1>2, <2>1, <2>2
    <3>2. r.confirmations \in Nat /\ q.confirmations \in Nat
      BY DEF CanonicalRecord
    <3>. QED  BY <2>3, <3>1, <3>2, OwnershipAssumption DEF awaiting
  <2>5. PICK st \in [Issued -> StampOwnership], su \in [Issued -> StampOwnership] :
          st = f[i - 1] /\ su = g[i - 1]
    BY <1>3, <2>1
  <2>6. f[i] = applyRecord(st, av, r) /\ g[i] = applyRecord(su, bv, q)
    BY <2>1, <2>2, <2>5 DEF Replays
  <2>7. PICK s \in StampOwnership, t \in StampOwnership,
             s2 \in StampOwnership, t2 \in StampOwnership :
          s = st[c] /\ t = su[c] /\ s2 = f[i][c] /\ t2 = g[i][c]
    BY <1>3, <2>1
  <2>8. /\ s.sequence = Len(s.history) /\ t.sequence = Len(t.history)
        /\ Len(s.history) \in Nat /\ Len(t.history) \in Nat
        /\ Len(s2.history) \in Nat /\ Len(t2.history) \in Nat
    <3>1. Contiguous(s) /\ Contiguous(t)
      BY <1>3, <2>1, <2>5, <2>7
    <3>2. \A u \in StampOwnership : Len(u.history) \in Nat
      BY DEF StampOwnership
    <3>. QED  BY <3>1, <3>2 DEF Contiguous
  <2>9. Extends(s, s2) /\ Extends(t, t2)
    BY <2>6, <2>7, RecordExtends
  <2>10. Alike(s, t, n)
    BY <1>5, <2>5, <2>7
  <2>11. CASE /\ n <= Len(s.history) + 1 /\ n <= Len(t.history) + 1
              /\ \A k \in 1 .. n - 1 : s.history[k] = t.history[k]
    <3>1. /\ Len(s.history) <= Len(s2.history) /\ Len(t.history) <= Len(t2.history)
          /\ \A k \in 1 .. Len(s.history) : s2.history[k] = s.history[k]
          /\ \A k \in 1 .. Len(t.history) : t2.history[k] = t.history[k]
      BY <2>9 DEF Extends
    <3>2. n <= Len(s2.history) + 1 /\ n <= Len(t2.history) + 1
      BY <2>8, <2>11, <3>1, SMTT(30)
    <3>3. \A k \in 1 .. n - 1 : k \in 1 .. Len(s.history) /\ k \in 1 .. Len(t.history)
      BY <2>8, <2>11, Below
    <3>4. \A k \in 1 .. n - 1 : s2.history[k] = t2.history[k]
      BY <2>11, <3>1, <3>3
    <3>. QED  BY <2>1, <2>7, <3>2, <3>4 DEF Alike
  <2>12. CASE s = t
    <3>1. CASE r.stamp # c \/ (r.artifact \in av <=> r.artifact \in bv)
      <4>1. /\ s2 = IF r.stamp = c THEN Outcome(s, av, r) ELSE s
            /\ t2 = IF q.stamp = c THEN Outcome(t, bv, q) ELSE t
        BY <2>4, <2>6, <2>7, RecordIs
      <4>2. s2 = t2
        BY <2>3, <2>12, <3>1, <4>1, SameOutcome DEF Same
      <4>. QED  BY <2>1, <2>7, <4>2 DEF Alike
    <3>2. CASE ~ (r.stamp # c \/ (r.artifact \in av <=> r.artifact \in bv))
      <4>1. r.stamp = c /\ ~ (r.sequence < n) /\ r.sequence \in Nat /\ q.sequence = r.sequence
        BY <2>1, <2>2, <2>3, <3>2 DEF AgreeBelow, Same, CanonicalRecord, Sequence
      <4>2. s2 = s \/ Does(s, s2, r, c)
        BY <2>6, <2>7, RecordDoes
      <4>3. t2 = t \/ Does(t, t2, q, c)
        BY <2>6, <2>7, RecordDoes
      <4>4. CASE s2 = s /\ t2 = t
        BY <2>1, <2>7, <2>12, <4>4 DEF Alike
      <4>5. CASE ~ (s2 = s /\ t2 = t)
        <5>1. n <= Len(s.history) + 1
          BY <2>8, <2>12, <4>1, <4>2, <4>3, <4>5 DEF Does
        <5>2. /\ Len(s.history) <= Len(s2.history) /\ Len(s.history) <= Len(t2.history)
              /\ \A k \in 1 .. Len(s.history) :
                   s2.history[k] = s.history[k] /\ t2.history[k] = s.history[k]
          BY <2>9, <2>12 DEF Extends
        <5>3. n <= Len(s2.history) + 1 /\ n <= Len(t2.history) + 1
          BY <2>8, <5>1, <5>2
        <5>4. \A k \in 1 .. n - 1 : k \in 1 .. Len(s.history)
          BY <2>8, <5>1, Below
        <5>5. \A k \in 1 .. n - 1 : s2.history[k] = t2.history[k]
          BY <5>2, <5>4
        <5>. QED  BY <2>1, <2>7, <5>3, <5>5 DEF Alike
      <4>. QED  BY <4>4, <4>5
    <3>. QED  BY <3>1, <3>2
  <2>. QED  BY <2>10, <2>11, <2>12 DEF Alike
<1>6. m \in S
  <2>0. m \in Nat /\ m \in 0 .. m
    BY <1>1
  <2>1. \A i \in 0 .. m : i \in S
    <3>. HIDE DEF S
    <3>. QED  BY <1>4, <1>5, <2>0, Steps
  <2>. QED  BY <2>0, <2>1
<1>7. PICK s \in StampOwnership, t \in StampOwnership, u \in StampOwnership :
        s = f[Len(rs)][c] /\ t = g[m][c] /\ u = g[Len(qs)][c]
  <2>1. Len(qs) \in 0 .. Len(qs) /\ m \in 0 .. m
    BY <1>1
  <2>2. g[Len(qs)] \in [Issued -> StampOwnership]
    BY <2>1 DEF Replays
  <2>. QED  BY <1>2, <1>3, <2>1, <2>2
<1>8. Alike(s, t, n)
  BY <1>2, <1>6, <1>7
<1>9. Extends(t, u)
  <2>1. m \in 0 .. Len(qs) /\ Len(qs) \in m .. Len(qs)
    BY <1>1
  <2>. QED  BY <1>7, <2>1, ReplayGoesOn
<1>10. Len(s.history) \in Nat /\ Len(t.history) \in Nat /\ Len(u.history) \in Nat
  BY DEF StampOwnership
<1>11. ASSUME NEW k \in 1 .. Len(s.history), k < n
       PROVE  k \in 1 .. Len(u.history) /\ u.history[k] = s.history[k]
  <2>1. k \in 1 .. Len(t.history) /\ t.history[k] = s.history[k]
    <3>1. CASE s = t
      BY <3>1
    <3>2. CASE s # t
      <4>1. n <= Len(t.history) + 1 /\ \A i \in 1 .. n - 1 : s.history[i] = t.history[i]
        BY <1>8, <3>2 DEF Alike
      <4>2. k \in 1 .. n - 1
        BY <1>10, <1>11
      <4>3. \A i \in 1 .. n - 1 : i \in 1 .. Len(t.history)
        BY <1>10, <4>1, Below
      <4>. QED  BY <4>1, <4>2, <4>3
    <3>. QED  BY <3>1, <3>2
  <2>. QED  BY <1>9, <1>10, <2>1 DEF Extends
<1>. QED  BY <1>7, <1>11 DEF KeptTo

-----------------------------------------------------------------------------
(* What the buyer of a first offer holds.                                  *)

\* The record that pays an offer moves the stamp to its buyer, if nothing has.
LEMMA PaysBoundOffer ==
  ASSUME NEW c \in Issued, NEW s \in StampOwnership, StampInv(c, s),
         NEW n \in Sequence, NEW offer \in SettlementOffer, s.boundOffers[n] = offer,
         NEW av, NEW r \in CanonicalRecord, r.kind = "transfer", r.artifact \in av,
         r.stamp = c, r.sequence = n, r.network = DestinationNetwork, r.inBestChain,
         LET auth == r.artifact
         IN  /\ auth.stamp = c /\ auth.sequence = n /\ auth.signed
             /\ auth.from = offer.seller /\ auth.to = offer.buyer
             /\ auth.offer = offer /\ auth.preimage = offer.hashLock
             /\ auth.preimage # None
  PROVE  LET t == Outcome(s, av, r)
         IN  n \in 1 .. Len(t.history) /\ t.history[n].to = offer.buyer
<1>1. /\ n \in 1 .. s.sequence + 1
      /\ n = s.sequence + 1 => offer.seller = s.currentOwner
      /\ n <= s.sequence => s.history[n].to = offer.buyer
      /\ s.sequence = Len(s.history) /\ Len(s.history) \in Nat
  <2>1. offer # None
    BY NoneIsNoOffer
  <2>2. Len(s.history) \in Nat
    BY DEF StampOwnership
  <2>. QED  BY <2>1, <2>2 DEF StampInv, OfferKept, Contiguous
<1>2. CASE n = s.sequence + 1
  <2>1. checkTerms(offer, r.artifact) = "applied"
    BY NoneIsNoOffer DEF checkTerms, paysOffer, verifyHashLock
  <2>2. checkTransfer(s, r) = "applied"
    BY <1>1, <1>2, <2>1 DEF checkTransfer, nextInSequence, ownerSigned
  <2>3. Outcome(s, av, r) = applyTransfer(s, r)
    BY <2>2 DEF Outcome
  <2>4. /\ Len(applyTransfer(s, r).history) = Len(s.history) + 1
        /\ applyTransfer(s, r).history[Len(s.history) + 1] = eventOf(s, r)
    BY <2>2, ApplyShape
  <2>5. eventOf(s, r).to = offer.buyer
    BY DEF eventOf
  <2>. QED  BY <1>1, <1>2, <2>3, <2>4, <2>5
<1>3. CASE n # s.sequence + 1
  <2>1. r.sequence # s.sequence + 1
    BY <1>3
  <2>2. checkTransfer(s, r) # "applied"
    BY <2>1 DEF checkTransfer, nextInSequence
  <2>3. Outcome(s, av, r) = s
    BY <2>2 DEF Outcome
  <2>. QED  BY <1>1, <1>3, <2>3
<1>. QED  BY <1>2, <1>3

\* Two chains that differ in depth only, the second deep enough throughout, and
\* the artifacts of the first without or with one more.
Deepens(rs, qs, av, bv, auth) ==
  /\ Older(rs) /\ Typed(qs) /\ Len(rs) <= Len(qs)
  /\ \A i, k \in 1 .. Len(rs) : i < k => rs[i].place < rs[k].place
  /\ \A i \in 1 .. Len(rs) : Same(rs[i], qs[i])
  /\ \A i \in 1 .. Len(qs) : ~ awaiting(qs[i])
  /\ \A a : a # auth => (a \in av <=> a \in bv)
  /\ auth \in bv

\* Record j is the first about sequence n of stamp c, and offers it; the stamp is
\* the seller's at that sequence in the state s, by an older record.
OffersFirst(rs, j, c, n, offer, s) ==
  /\ offer \in SettlementOffer /\ offer.stamp = c /\ offer.sequence = n /\ offer.signed
  /\ rs[j].kind = "offer" /\ rs[j].artifact = offer
  /\ rs[j].stamp = c /\ rs[j].sequence = n
  /\ rs[j].network = DestinationNetwork /\ rs[j].inBestChain
  /\ \A i \in 1 .. j - 1 : ~ (rs[i].stamp = c /\ rs[i].sequence = n)
  /\ n = 1 => offer.seller = OriginalRecipient[c]
  /\ n # 1 => /\ n - 1 <= Len(s.history)
              /\ s.history[n - 1].to = offer.seller
              /\ s.history[n - 1].place < rs[j].place

\* What is bounded by n - 1 from both sides.
LEMMA Squeeze ==
  ASSUME NEW n \in Nat, NEW a \in Nat, NEW b \in Nat, n - 1 \in 1 .. a, a <= b, b < n
  PROVE  b = n - 1
OBVIOUS

\* Once all is deep enough, a first offer finds the stamp with its seller, at the
\* sequence before, and no other offer bound.
LEMMA BeforeFirst ==
  ASSUME NEW rs, NEW qs, NEW av, NEW bv, NEW auth, Deepens(rs, qs, av, bv, auth),
         NEW f, Replays(f, rs, av), NEW g, Replays(g, qs, bv),
         NEW c \in Issued, NEW n \in Sequence \ {0}, NEW j \in 1 .. Len(rs), NEW offer,
         OffersFirst(rs, j, c, n, offer, f[Len(rs)][c]),
         \A i \in 1 .. Len(rs) : rs[i].artifact = auth => rs[i].stamp = c /\ rs[i].sequence = n
  PROVE  /\ g[j - 1][c].sequence = n - 1
         /\ g[j - 1][c].currentOwner = offer.seller
         /\ g[j - 1][c].boundOffers[n] = None
<1>1. /\ Older(rs) /\ Typed(rs) /\ Typed(qs)
      /\ Len(rs) \in Nat /\ Len(qs) \in Nat /\ Len(rs) <= Len(qs)
      /\ j \in Nat /\ j - 1 \in 0 .. Len(rs) /\ j - 1 \in 0 .. Len(qs)
      /\ n \in Nat /\ n >= 1
  <2>1. Older(rs) /\ Typed(rs) /\ Typed(qs) /\ Len(rs) <= Len(qs)
    BY DEF Deepens, Older
  <2>2. Len(rs) \in Nat /\ Len(qs) \in Nat
    BY <2>1 DEF Typed
  <2>3. n \in Nat /\ n >= 1
    BY OwnershipAssumption DEF Sequence
  <2>. QED  BY <2>1, <2>2, <2>3
<1>2. PICK m \in 0 .. Len(rs) :
        /\ \A i \in 1 .. Len(rs) : i <= m <=> ~ awaiting(rs[i])
        /\ f[Len(rs)] = f[m]
  BY <1>1, OldestCount
<1>3. PICK p \in 0 .. j - 1 : p <= m /\ (p = m \/ (p = j - 1 /\ j <= m))
  <2>1. CASE m <= j - 1
    BY <1>1, <2>1
  <2>2. CASE ~ (m <= j - 1)
    BY <1>1, <2>2
  <2>. QED  BY <2>1, <2>2
<1>4. /\ p \in Nat /\ p \in 0 .. Len(rs) /\ p \in 0 .. Len(qs) /\ m \in p .. Len(rs)
      /\ m \in Nat /\ j - 1 \in p .. Len(qs)
  BY <1>1, <1>3
<1>5. f[p][c] = g[p][c]
  <2>. DEFINE S == {i \in 0 .. p : f[i][c] = g[i][c]}
  <2>1. 0 \in S
    BY <1>4 DEF Replays
  <2>2. ASSUME NEW i \in 0 + 1 .. p, i - 1 \in S PROVE i \in S
    <3>1. /\ i \in 1 .. Len(rs) /\ i \in 1 .. Len(qs) /\ i \in 1 .. j - 1 /\ i <= m
          /\ i - 1 \in 0 .. Len(rs) /\ i - 1 \in 0 .. Len(qs) /\ i \in 0 .. p
      BY <1>1, <1>3, <1>4
    <3>2. PICK r \in CanonicalRecord, q \in CanonicalRecord : r = rs[i] /\ q = qs[i]
      BY <1>1, <3>1 DEF Typed
    <3>3. Same(r, q) /\ ~ awaiting(r) /\ ~ awaiting(q)
      BY <1>2, <3>1, <3>2 DEF Deepens
    <3>4. r.stamp = c => r.artifact # auth \/ r.sequence = n
      BY <3>1, <3>2
    <3>5. r.stamp = c => (r.artifact \in av <=> r.artifact \in bv)
      BY <3>1, <3>2, <3>4 DEF Deepens, OffersFirst
    <3>6. /\ f[i] = applyRecord(f[i - 1], av, r) /\ f[i - 1] \in [Issued -> StampOwnership]
          /\ g[i] = applyRecord(g[i - 1], bv, q) /\ g[i - 1] \in [Issued -> StampOwnership]
      BY <3>1, <3>2 DEF Replays
    <3>7. f[i - 1][c] = g[i - 1][c]
      BY <2>2
    <3>8. /\ f[i][c] = IF r.stamp = c THEN Outcome(f[i - 1][c], av, r) ELSE f[i - 1][c]
          /\ g[i][c] = IF q.stamp = c THEN Outcome(g[i - 1][c], bv, q) ELSE g[i - 1][c]
      BY <3>3, <3>6, RecordIs
    <3>9. r.stamp = c => Outcome(g[i - 1][c], av, r) = Outcome(g[i - 1][c], bv, q)
      BY <3>3, <3>5, SameOutcome
    <3>10. f[i][c] = g[i][c]
      BY <3>3, <3>7, <3>8, <3>9 DEF Same
    <3>. QED  BY <3>1, <3>10
  <2>3. \A i \in 0 .. p : i \in S
    <3>. HIDE DEF S
    <3>. QED  BY <1>4, <2>1, <2>2, Steps
  <2>. QED  BY <1>4, <2>3
<1>6. PICK s \in StampOwnership, t \in StampOwnership, u \in StampOwnership :
        s = f[p][c] /\ t = f[m][c] /\ u = g[j - 1][c]
  BY <1>1, <1>4, ReplaySound
<1>7. /\ StampInv(c, u) /\ Contiguous(u) /\ CustodyOf(c, u)
      /\ Len(s.history) \in Nat /\ Len(t.history) \in Nat /\ Len(u.history) \in Nat
  <2>1. StampInv(c, u)
    BY <1>1, <1>6, ReplaySound
  <2>2. \A v \in StampOwnership : Len(v.history) \in Nat
    BY DEF StampOwnership
  <2>. QED  BY <2>1, <2>2 DEF StampInv
<1>8. Len(u.history) < n /\ u.boundOffers[n] = None
  <2>1. \A i \in 1 .. j - 1 : ~ (qs[i].stamp = c /\ qs[i].sequence = n)
    <3>1. \A i \in 1 .. j - 1 : i \in 1 .. Len(rs)
      BY <1>1
    <3>. QED  BY <3>1 DEF OffersFirst, Deepens, Same
  <2>2. g[0][c] = IssuedStamp(c)
    BY DEF Replays
  <2>3. Len(g[0][c].history) = 0 /\ g[0][c].boundOffers[n] = None
    BY <2>2 DEF IssuedStamp
  <2>4. 0 \in 0 .. Len(qs) /\ j - 1 \in 0 .. Len(qs) /\ 0 + 1 .. j - 1 = 1 .. j - 1
    BY <1>1
  <2>5. /\ \A k \in Len(g[0][c].history) + 1 .. Len(g[j - 1][c].history) :
             \E i \in 0 + 1 .. j - 1 : /\ qs[i].stamp = c /\ qs[i].sequence = k
                                       /\ g[j - 1][c].history[k].place = qs[i].place
        /\ \A k \in Sequence :
             g[0][c].boundOffers[k] = None /\ g[j - 1][c].boundOffers[k] # None =>
               \E i \in 0 + 1 .. j - 1 : qs[i].stamp = c /\ qs[i].sequence = k
    <3>1. PICK a \in 0 .. Len(qs), b \in 0 .. Len(qs) : a = 0 /\ b = j - 1 /\ b \in a .. Len(qs)
      BY <1>1, <2>4
    <3>2. /\ \A k \in Len(g[a][c].history) + 1 .. Len(g[b][c].history) :
               \E i \in a + 1 .. b : /\ qs[i].stamp = c /\ qs[i].sequence = k
                                     /\ g[b][c].history[k].place = qs[i].place
          /\ \A k \in Sequence :
               g[a][c].boundOffers[k] = None /\ g[b][c].boundOffers[k] # None =>
                 \E i \in a + 1 .. b : qs[i].stamp = c /\ qs[i].sequence = k
      <4>1. Typed(qs) /\ b \in a .. Len(qs)
        BY <1>1, <3>1
      <4>. QED  BY <4>1, ReplayClaims
    <3>. QED  BY <3>1, <3>2
  <2>6. u.boundOffers[n] = None
    BY <1>6, <2>1, <2>3, <2>4, <2>5
  <2>7. \A k \in 0 + 1 .. Len(u.history) : k # n
    <3>1. ASSUME NEW k \in 0 + 1 .. Len(u.history) PROVE k # n
      <4>1. k \in Len(g[0][c].history) + 1 .. Len(g[j - 1][c].history)
        BY <1>6, <2>3
      <4>2. PICK i \in 1 .. j - 1 : qs[i].stamp = c /\ qs[i].sequence = k
        BY <2>4, <2>5, <4>1
      <4>. QED  BY <2>1, <4>2
    <3>. QED  BY <3>1
  <2>8. Len(u.history) < n
    BY <1>1, <1>7, <2>7
  <2>. QED  BY <2>6, <2>8
<1>9. CASE n = 1
  <2>1. Len(u.history) = 0
    BY <1>7, <1>8, <1>9
  <2>2. u.history = << >>
    BY <2>1 DEF StampOwnership
  <2>. QED  BY <1>6, <1>7, <1>8, <1>9, <2>1, <2>2 DEF Contiguous, CustodyOf, OffersFirst
<1>10. CASE n # 1
  <2>1. /\ n - 1 \in 1 .. Len(t.history) /\ t.history[n - 1].to = offer.seller
        /\ t.history[n - 1].place < rs[j].place
    BY <1>1, <1>2, <1>6, <1>7, <1>10 DEF OffersFirst
  <2>2. n - 1 \in 1 .. Len(s.history)
    <3>1. CASE p = m
      BY <1>6, <2>1, <3>1
    <3>2. CASE p = j - 1 /\ j <= m
      <4>1. SUFFICES ASSUME ~ (n - 1 \in 1 .. Len(s.history)) PROVE FALSE
        OBVIOUS
      <4>2. n - 1 \in Len(s.history) + 1 .. Len(t.history)
        BY <1>7, <2>1, <4>1
      <4>3. PICK i \in p + 1 .. m : t.history[n - 1].place = rs[i].place
        <5>1. \A k \in Len(f[p][c].history) + 1 .. Len(f[m][c].history) :
                \E i \in p + 1 .. m : /\ rs[i].stamp = c /\ rs[i].sequence = k
                                      /\ f[m][c].history[k].place = rs[i].place
          BY <1>1, <1>4, ReplayClaims
        <5>. QED  BY <1>6, <4>2, <5>1
      <4>4. i \in 1 .. Len(rs) /\ (i = j \/ j < i)
        BY <1>1, <1>4, <3>2
      <4>5. rs[i].place \in Nat /\ rs[j].place \in Nat
        BY <1>1, <4>4 DEF Typed, CanonicalRecord
      <4>6. rs[j].place <= rs[i].place
        BY <4>4, <4>5 DEF Deepens
      <4>. QED  BY <2>1, <4>3, <4>5, <4>6
    <3>. QED  BY <1>3, <3>1, <3>2
  <2>3. t.history[n - 1] = s.history[n - 1]
    <3>1. Extends(s, t)
      BY <1>1, <1>4, <1>6, ReplayGoesOn
    <3>. QED  BY <2>2, <3>1 DEF Extends
  <2>4. Len(u.history) >= Len(s.history) /\ u.history[n - 1] = s.history[n - 1]
    <3>1. Extends(s, u)
      BY <1>1, <1>4, <1>5, <1>6, ReplayGoesOn
    <3>. QED  BY <2>2, <3>1 DEF Extends
  <2>5. Len(u.history) = n - 1
    <3>. PICK a \in Nat, b \in Nat : a = Len(s.history) /\ b = Len(u.history)
      BY <1>7
    <3>1. n \in Nat /\ b < n
      BY <1>1, <1>8
    <3>2. n - 1 \in 1 .. a
      BY <2>2
    <3>3. a <= b
      BY <2>4
    <3>4. b = n - 1
      BY <3>1, <3>2, <3>3, Squeeze
    <3>. QED  BY <3>4
  <2>6. u.history # << >>
    BY <2>2, <2>5
  <2>7. u.currentOwner = u.history[n - 1].to
    BY <1>7, <2>5, <2>6 DEF CustodyOf
  <2>8. u.sequence = n - 1
    BY <1>7, <2>5 DEF Contiguous
  <2>. QED  BY <1>6, <1>8, <2>1, <2>3, <2>4, <2>7, <2>8
<1>. QED  BY <1>9, <1>10

\* The authorization that answers a first offer delivers the stamp to its buyer.
LEMMA FirstIsDelivered ==
  ASSUME NEW rs, NEW qs, NEW av, NEW bv, NEW auth, Deepens(rs, qs, av, bv, auth),
         NEW f, Replays(f, rs, av), NEW g, Replays(g, qs, bv),
         NEW c \in Issued, NEW n \in Sequence \ {0}, NEW j \in 1 .. Len(rs), NEW offer,
         OffersFirst(rs, j, c, n, offer, f[Len(rs)][c]), offer \in bv,
         \A i \in 1 .. Len(rs) : rs[i].artifact = auth => rs[i].stamp = c /\ rs[i].sequence = n,
         NEW q \in j + 1 .. Len(qs), qs[q].kind = "transfer", qs[q].artifact = auth,
         qs[q].stamp = c, qs[q].sequence = n,
         qs[q].network = DestinationNetwork, qs[q].inBestChain,
         /\ auth.stamp = c /\ auth.sequence = n /\ auth.signed
         /\ auth.from = offer.seller /\ auth.to = offer.buyer
         /\ auth.offer = offer /\ auth.preimage = offer.hashLock
         /\ auth.preimage # None
  PROVE  /\ n \in 1 .. Len(g[Len(qs)][c].history)
         /\ g[Len(qs)][c].history[n].to = offer.buyer
<1>1. /\ Typed(qs) /\ Len(qs) \in Nat /\ n \in Sequence
      /\ j \in 1 .. Len(qs) /\ j - 1 \in 0 .. Len(qs) /\ j \in 0 .. Len(qs)
      /\ q \in 1 .. Len(qs) /\ q - 1 \in 0 .. Len(qs) /\ q \in 0 .. Len(qs)
      /\ q - 1 \in j .. Len(qs) /\ Len(qs) \in q .. Len(qs) /\ Len(qs) \in 0 .. Len(qs)
  <2>1. Typed(rs) /\ Typed(qs) /\ Len(rs) <= Len(qs)
    BY DEF Deepens, Older
  <2>2. Len(rs) \in Nat /\ Len(qs) \in Nat
    BY <2>1 DEF Typed
  <2>. QED  BY <2>1, <2>2
<1>2. PICK r \in CanonicalRecord, d \in CanonicalRecord : r = qs[j] /\ d = qs[q]
  BY <1>1 DEF Typed
<1>3. ~ awaiting(r) /\ ~ awaiting(d)
  BY <1>1, <1>2 DEF Deepens
<1>4. \A i \in 0 .. Len(qs) : /\ g[i] \in [Issued -> StampOwnership]
                              /\ g[i][c] \in StampOwnership /\ StampInv(c, g[i][c])
  <2>1. \A i \in 0 .. Len(qs) : g[i] \in [Issued -> StampOwnership]
    BY DEF Replays
  <2>. QED  BY <1>1, <2>1, ReplaySound
<1>5. PICK s \in StampOwnership, t \in StampOwnership, u \in StampOwnership,
           v \in StampOwnership, w \in StampOwnership :
        /\ s = g[j - 1][c] /\ t = g[j][c] /\ u = g[q - 1][c] /\ v = g[q][c]
        /\ w = g[Len(qs)][c]
  BY <1>1, <1>4
<1>6. t.boundOffers[n] = offer
  <2>1. s.sequence = n - 1 /\ s.currentOwner = offer.seller /\ s.boundOffers[n] = None
    BY <1>5, BeforeFirst
  <2>2. /\ r.kind = "offer" /\ r.artifact = offer /\ r.stamp = c /\ r.sequence = n
        /\ r.network = DestinationNetwork /\ r.inBestChain
        /\ offer.stamp = c /\ offer.sequence = n /\ offer.signed
    BY <1>2 DEF OffersFirst, Deepens, Same
  <2>3. n = s.sequence + 1
    BY <2>1, OwnershipAssumption DEF Sequence
  <2>4. checkOffer(s, r) = "bound"
    BY <2>1, <2>2, <2>3 DEF checkOffer, nextInSequence, ownerSigned, alreadyBound
  <2>5. Outcome(s, bv, r) = bindOffer(s, r)
    BY <2>2, <2>4 DEF Outcome
  <2>6. g[j] = applyRecord(g[j - 1], bv, r)
    BY <1>1, <1>2 DEF Replays
  <2>7. t = bindOffer(s, r)
    BY <1>1, <1>3, <1>4, <1>5, <2>2, <2>5, <2>6, RecordIs
  <2>. QED  BY <2>2, <2>7 DEF bindOffer, StampOwnership
<1>7. u.boundOffers[n] = offer /\ offer \in SettlementOffer
  <2>1. Extends(t, u)
    BY <1>1, <1>5, ReplayGoesOn
  <2>2. offer \in SettlementOffer /\ offer # None
    BY NoneIsNoOffer DEF OffersFirst
  <2>. QED  BY <1>1, <1>6, <2>1, <2>2 DEF Extends
<1>8. n \in 1 .. Len(v.history) /\ v.history[n].to = offer.buyer
  <2>1. g[q] = applyRecord(g[q - 1], bv, d)
    BY <1>1, <1>2 DEF Replays
  <2>2. v = Outcome(u, bv, d)
    BY <1>1, <1>2, <1>3, <1>4, <1>5, <2>1, RecordIs
  <2>3. auth \in bv /\ StampInv(c, u)
    BY <1>1, <1>4, <1>5 DEF Deepens
  <2>4. /\ d.kind = "transfer" /\ d.artifact = auth /\ d.stamp = c /\ d.sequence = n
        /\ d.network = DestinationNetwork /\ d.inBestChain
    BY <1>2
  <2>5. LET x == Outcome(u, bv, d)
        IN  n \in 1 .. Len(x.history) /\ x.history[n].to = offer.buyer
    <3>1. /\ auth.stamp = c /\ auth.sequence = n /\ auth.signed
          /\ auth.from = offer.seller /\ auth.to = offer.buyer
          /\ auth.offer = offer /\ auth.preimage = offer.hashLock
          /\ auth.preimage # None
      OBVIOUS
    <3>2. n \in Sequence
      BY <1>1
    <3>. QED  BY <1>7, <2>3, <2>4, <3>1, <3>2, PaysBoundOffer
  <2>. QED  BY <2>2, <2>5
<1>9. Extends(v, w)
  BY <1>1, <1>5, ReplayGoesOn
<1>10. Len(v.history) \in Nat /\ Len(w.history) \in Nat
  BY DEF StampOwnership
<1>11. Len(v.history) <= Len(w.history) /\ w.history[n] = v.history[n]
  BY <1>8, <1>9, <1>10 DEF Extends
<1>12. n \in 1 .. Len(w.history)
  <2>. PICK a \in Nat, b \in Nat : a = Len(v.history) /\ b = Len(w.history)
    BY <1>10
  <2>1. n \in 1 .. a /\ a <= b
    BY <1>8, <1>11
  <2>2. n \in 1 .. b
    BY <2>1
  <2>. QED  BY <2>2
<1>. QED  BY <1>5, <1>8, <1>11, <1>12

-----------------------------------------------------------------------------
(* The chain.                                                              *)

\* Records of the protocol, in the order of their blocks, each about what its
\* artifact is about, the older at least as deep as the younger.
Fits(rs, h) ==
  /\ rs \in Seq(CanonicalRecord)
  /\ \A j \in 1 .. Len(rs) :
       /\ rs[j].stamp = rs[j].artifact.stamp /\ rs[j].sequence = rs[j].artifact.sequence
       /\ rs[j].network = DestinationNetwork /\ rs[j].inBestChain
       /\ rs[j].place <= h /\ rs[j].confirmations <= ConfirmationCap
  /\ \A j, k \in 1 .. Len(rs) :
       j < k => /\ rs[j].place < rs[k].place
                /\ rs[k].confirmations <= rs[j].confirmations

ChainFits == height \in Nat /\ Fits(publications, height)

\* The lemmas about replays apply to such a chain.
LEMMA FitsOlder ==
  ASSUME NEW rs, NEW h, Fits(rs, h)
  PROVE  Older(rs) /\ Typed(rs)
BY DEF Fits, Older, Typed

\* The height may grow without a record.
LEMMA FitsLater ==
  ASSUME NEW rs, NEW h \in Nat, Fits(rs, h)
  PROVE  Fits(rs, h + 1)
<1>1. \A j \in 1 .. Len(rs) : rs[j].place \in Nat /\ rs[j].place <= h
  BY DEF Fits, CanonicalRecord
<1>2. \A j \in 1 .. Len(rs) : rs[j].place <= h + 1
  BY <1>1
<1>. QED  BY <1>2 DEF Fits

\* A tick only deepens the records.
LEMMA FitsTicked ==
  ASSUME NEW rs, NEW h \in Nat, Fits(rs, h)
  PROVE  /\ Fits(ticked(rs), h) /\ Ages(rs, ticked(rs)) /\ Len(ticked(rs)) = Len(rs)
         /\ \A j \in 1 .. Len(rs) : Same(rs[j], ticked(rs)[j])
<1>1. rs \in Seq(CanonicalRecord) /\ Len(rs) \in Nat /\ ConfirmationCap \in Nat
  BY MarketAssumption DEF Fits
<1>. DEFINE deeper(r) == [r EXCEPT !.confirmations = Least(r.confirmations + 1, ConfirmationCap)]
<1>2. ASSUME NEW r \in CanonicalRecord, r.confirmations <= ConfirmationCap
      PROVE  /\ deeper(r) \in CanonicalRecord /\ Same(r, deeper(r))
             /\ deeper(r).confirmations = Least(r.confirmations + 1, ConfirmationCap)
             /\ r.confirmations <= deeper(r).confirmations
             /\ deeper(r).confirmations <= ConfirmationCap
  <2>1. PICK n \in Nat : n = Least(r.confirmations + 1, ConfirmationCap)
    BY <1>1 DEF CanonicalRecord, Least
  <2>2. r.confirmations \in Nat
    BY DEF CanonicalRecord
  <2>3. r.confirmations <= n /\ n <= ConfirmationCap
    BY <1>1, <1>2, <2>1, <2>2 DEF Least
  <2>4. deeper(r) = [r EXCEPT !.confirmations = n]
    BY <2>1
  <2>5. deeper(r) \in CanonicalRecord /\ Same(r, deeper(r)) /\ deeper(r).confirmations = n
    BY <2>4 DEF CanonicalRecord, Same
  <2>. QED  BY <2>1, <2>3, <2>5
<1>3. Len(ticked(rs)) = Len(rs) /\ \A j \in 1 .. Len(rs) : ticked(rs)[j] = deeper(rs[j])
  BY <1>1 DEF ticked
<1>4. \A j \in 1 .. Len(rs) : rs[j] \in CanonicalRecord /\ rs[j].confirmations <= ConfirmationCap
  BY <1>1 DEF Fits
<1>. HIDE DEF deeper
<1>5. \A j \in 1 .. Len(rs) :
        /\ ticked(rs)[j] \in CanonicalRecord /\ Same(rs[j], ticked(rs)[j])
        /\ ticked(rs)[j].confirmations = Least(rs[j].confirmations + 1, ConfirmationCap)
        /\ rs[j].confirmations <= ticked(rs)[j].confirmations
        /\ ticked(rs)[j].confirmations <= ConfirmationCap
  BY <1>2, <1>3, <1>4
<1>6. ticked(rs) \in Seq(CanonicalRecord)
  BY <1>1, <1>5 DEF ticked
<1>7. ASSUME NEW j \in 1 .. Len(rs), NEW k \in 1 .. Len(rs), j < k
      PROVE  /\ ticked(rs)[j].place < ticked(rs)[k].place
             /\ ticked(rs)[k].confirmations <= ticked(rs)[j].confirmations
  <2>1. rs[j].place < rs[k].place /\ rs[k].confirmations <= rs[j].confirmations
    BY <1>7 DEF Fits
  <2>2. rs[j].confirmations \in Nat /\ rs[k].confirmations \in Nat
    BY <1>4 DEF CanonicalRecord
  <2>3. Least(rs[k].confirmations + 1, ConfirmationCap) <= Least(rs[j].confirmations + 1, ConfirmationCap)
    BY <1>1, <2>1, <2>2, SMTT(30) DEF Least
  <2>. QED  BY <1>5, <2>1, <2>3 DEF Same
<1>8. \A j \in 1 .. Len(rs) :
        /\ ticked(rs)[j].stamp = ticked(rs)[j].artifact.stamp
        /\ ticked(rs)[j].sequence = ticked(rs)[j].artifact.sequence
        /\ ticked(rs)[j].network = DestinationNetwork /\ ticked(rs)[j].inBestChain
        /\ ticked(rs)[j].place <= h
  BY <1>5 DEF Fits, Same
<1>9. Fits(ticked(rs), h)
  BY <1>3, <1>5, <1>6, <1>7, <1>8 DEF Fits
<1>10. Ages(rs, ticked(rs))
  BY <1>1, <1>3, <1>5 DEF Ages
<1>. QED  BY <1>3, <1>5, <1>9, <1>10

\* A record in a block of its own comes last.
LEMMA FitsAppended ==
  ASSUME NEW rs, NEW h \in Nat, Fits(rs, h), NEW r \in CanonicalRecord,
         r.stamp = r.artifact.stamp, r.sequence = r.artifact.sequence,
         r.network = DestinationNetwork, r.inBestChain, r.place = h + 1, r.confirmations = 0
  PROVE  /\ Fits(Append(rs, r), h + 1) /\ Len(Append(rs, r)) = Len(rs) + 1
         /\ \A j \in 1 .. Len(rs) : Append(rs, r)[j] = rs[j]
         /\ Append(rs, r)[Len(rs) + 1] = r
<1>1. rs \in Seq(CanonicalRecord) /\ Len(rs) \in Nat /\ ConfirmationCap \in Nat
  BY MarketAssumption DEF Fits
<1>2. PICK qs \in Seq(CanonicalRecord) : qs = Append(rs, r)
  <2>1. Append(rs, r) \in Seq(CanonicalRecord)
    BY <1>1
  <2>. QED  BY <2>1
<1>3. /\ Len(qs) = Len(rs) + 1 /\ qs[Len(rs) + 1] = r
      /\ \A j \in 1 .. Len(rs) : qs[j] = rs[j]
  BY <1>1, <1>2
<1>4. \A j \in 1 .. Len(rs) : /\ rs[j].place \in Nat /\ rs[j].place <= h
                              /\ rs[j].confirmations \in Nat
  BY <1>1 DEF Fits, CanonicalRecord
<1>5. \A j \in 1 .. Len(qs) : j \in 1 .. Len(rs) \/ j = Len(rs) + 1
  BY <1>1, <1>3
<1>6. ASSUME NEW j \in 1 .. Len(qs)
      PROVE  /\ qs[j].stamp = qs[j].artifact.stamp /\ qs[j].sequence = qs[j].artifact.sequence
             /\ qs[j].network = DestinationNetwork /\ qs[j].inBestChain
             /\ qs[j].place <= h + 1 /\ qs[j].confirmations <= ConfirmationCap
  <2>1. CASE j \in 1 .. Len(rs)
    <3>1. rs[j].place <= h + 1
      BY <1>4, <2>1
    <3>. QED  BY <1>3, <2>1, <3>1 DEF Fits
  <2>2. CASE j = Len(rs) + 1
    BY <1>1, <1>3, <2>2
  <2>. QED  BY <1>5, <2>1, <2>2
<1>7. ASSUME NEW j \in 1 .. Len(qs), NEW k \in 1 .. Len(qs), j < k
      PROVE  qs[j].place < qs[k].place /\ qs[k].confirmations <= qs[j].confirmations
  <2>1. j \in 1 .. Len(rs)
    BY <1>1, <1>3, <1>7
  <2>2. CASE k \in 1 .. Len(rs)
    BY <1>3, <1>7, <2>1, <2>2 DEF Fits
  <2>3. CASE k = Len(rs) + 1
    <3>1. rs[j].place < h + 1 /\ 0 <= rs[j].confirmations
      BY <1>4, <2>1
    <3>. QED  BY <1>3, <2>1, <2>3, <3>1
  <2>. QED  BY <1>5, <2>2, <2>3
<1>8. Fits(qs, h + 1)
  BY <1>6, <1>7 DEF Fits
<1>. QED  BY <1>2, <1>3, <1>8

\* The chain of the next state: the records so far, grown older, and at most one
\* more, of a block of its own.
Continues(rs, qs, h) ==
  /\ Fits(qs, h) /\ Ages(rs, qs) /\ Len(qs) \in Len(rs) .. Len(rs) + 1

\* A tick, and a state in which the chain rests, continue the chain.
LEMMA TicksOn ==
  ASSUME ChainFits, NEW h \in {height, height + 1}
  PROVE  /\ Continues(publications, ticked(publications), h)
         /\ Len(ticked(publications)) = Len(publications)
<1>1. Fits(publications, h) /\ h \in Nat /\ Len(publications) \in Nat
  <2>1. height \in Nat /\ Fits(publications, height)
    BY DEF ChainFits
  <2>2. Fits(publications, height + 1)
    BY <2>1, FitsLater
  <2>. QED  BY <2>1, <2>2 DEF Fits
<1>2. /\ Fits(ticked(publications), h) /\ Ages(publications, ticked(publications))
      /\ Len(ticked(publications)) = Len(publications)
  BY <1>1, FitsTicked
<1>. QED  BY <1>1, <1>2 DEF Continues

LEMMA RestsOn ==
  ASSUME ChainFits
  PROVE  Continues(publications, publications, height)
<1>1. Fits(publications, height) /\ Len(publications) \in Nat
  BY DEF ChainFits, Fits
<1>2. \A j \in 1 .. Len(publications) : publications[j].confirmations \in Nat
  BY <1>1 DEF Fits, CanonicalRecord
<1>. QED  BY <1>1, <1>2 DEF Continues, Ages, Same

\* The record that publication() makes of an artifact.
LEMMA PublicationFits ==
  ASSUME height \in Nat, NEW kind, NEW a,
         \/ kind = "offer" /\ a \in SettlementOffer
         \/ kind = "transfer" /\ a \in TransferAuthorization
  PROVE  LET r == publication(kind, a)
         IN  /\ r \in CanonicalRecord /\ r.kind = kind /\ r.artifact = a
             /\ r.stamp = a.stamp /\ r.sequence = a.sequence
             /\ r.network = DestinationNetwork /\ r.inBestChain
             /\ r.place = height + 1 /\ r.confirmations = 0
<1>1. a.stamp \in Commitment /\ a.sequence \in Sequence
  BY DEF SettlementOffer, TransferAuthorization
<1>2. kind = "offer" => publication(kind, a) \in CanonicalRecord
  BY <1>1, OwnershipAssumption DEF publication, CanonicalRecord, TransferAuthorization, SettlementOffer
<1>3. kind = "transfer" => publication(kind, a) \in CanonicalRecord
  BY <1>1, OwnershipAssumption DEF publication, CanonicalRecord, TransferAuthorization, SettlementOffer
<1>4. LET r == publication(kind, a)
      IN  /\ r.kind = kind /\ r.artifact = a
          /\ r.stamp = a.stamp /\ r.sequence = a.sequence
          /\ r.network = DestinationNetwork /\ r.inBestChain
          /\ r.place = height + 1 /\ r.confirmations = 0
  BY DEF publication
<1>. QED  BY <1>2, <1>3, <1>4

\* Publishing continues the chain by one record of the artifact.
LEMMA PublishesOn ==
  ASSUME ChainFits, NEW kind, NEW a, Publish(kind, a),
         \/ kind = "offer" /\ a \in SettlementOffer
         \/ kind = "transfer" /\ a \in TransferAuthorization
  PROVE  /\ height' = height + 1 /\ Continues(publications, publications', height')
         /\ Len(publications') = Len(publications) + 1
         /\ LET r == publications'[Len(publications) + 1]
            IN  r.kind = kind /\ r.artifact = a /\ r.place = height + 1
<1>1. height \in Nat /\ Fits(publications, height) /\ Len(publications) \in Nat
  BY DEF ChainFits, Fits
<1>2. PICK r \in CanonicalRecord :
        /\ r = publication(kind, a) /\ r.kind = kind /\ r.artifact = a
        /\ r.stamp = a.stamp /\ r.sequence = a.sequence
        /\ r.network = DestinationNetwork /\ r.inBestChain
        /\ r.place = height + 1 /\ r.confirmations = 0
  BY <1>1, PublicationFits
<1>3. PICK qs : qs = Append(publications, r)
  OBVIOUS
<1>4. /\ Fits(qs, height + 1) /\ Len(qs) = Len(publications) + 1
      /\ \A j \in 1 .. Len(publications) : qs[j] = publications[j]
      /\ qs[Len(publications) + 1] = r
  BY <1>1, <1>2, <1>3, FitsAppended
<1>5. publications' = ticked(qs) /\ height' = height + 1
  BY <1>2, <1>3 DEF Publish
<1>6. /\ Fits(ticked(qs), height + 1) /\ Ages(qs, ticked(qs)) /\ Len(ticked(qs)) = Len(qs)
      /\ \A j \in 1 .. Len(qs) : Same(qs[j], ticked(qs)[j])
  BY <1>1, <1>4, FitsTicked
<1>7. \A j \in 1 .. Len(publications) : j \in 1 .. Len(qs)
  BY <1>1, <1>4
<1>8. Ages(publications, ticked(qs))
  BY <1>1, <1>4, <1>6, <1>7 DEF Ages
<1>9. Len(publications) + 1 \in 1 .. Len(qs)
  BY <1>1, <1>4
<1>10. Same(r, ticked(qs)[Len(publications) + 1])
  BY <1>4, <1>6, <1>9
<1>. QED  BY <1>1, <1>2, <1>4, <1>5, <1>6, <1>8, <1>10 DEF Continues, Same

-----------------------------------------------------------------------------
(* The rows.                                                               *)

\* The artifacts that belong to listing i when its row is l.
OfferFor(i, l) ==
  [stamp |-> l.stamp, sequence |-> l.sequence, seller |-> l.seller,
   buyer |-> l.buyer, price |-> l.price, hashLock |-> i, signed |-> TRUE]

TransferFor(i, l) ==
  [stamp |-> l.stamp, sequence |-> l.sequence, from |-> l.seller,
   to |-> l.buyer, offer |-> l.offer, preimage |-> i, signed |-> TRUE]

\* A row holds what its state promises: a buyer once reserved, the offer once
\* published, the authorization once signed, and all of them under a payment.
RowFits(i, l, escrow) ==
  /\ l \in ListingRow
  /\ l.sequence \in Sequence \ {0}
  /\ l.state \in {"reserved", "offer_published", "authorized", "payment_locked",
                  "transfer_published"} => l.buyer # None
  /\ l.state \in {"listed", "reserved"} => l.offer = None
  /\ l.state \in {"offer_published", "authorized", "payment_locked",
                  "transfer_published"} => l.offer # None
  /\ l.state \in {"authorized", "payment_locked", "transfer_published"} =>
       l.transfer = TransferFor(i, l)
  /\ l.offer # None => l.offer = OfferFor(i, l)
  /\ escrow # "none" =>
       /\ l.state \in {"payment_locked", "transfer_published", "settled", "cancelled"}
       /\ l.offer # None
       /\ l.transfer = TransferFor(i, l)

\* The sale of a row was seen to be delivered: it is settled, or was before it
\* was cancelled.
Won(l, escrow) ==
  \/ l.state = "settled"
  \/ escrow # "none" /\ l.state = "cancelled"

\* Among the listings of a stamp only the last can be live, and none reaches back
\* to the sequence of a sale that was delivered.
InOrder(ls, es) ==
  \A i, j \in 1 .. Len(ls) :
    i < j /\ ls[i].stamp = ls[j].stamp =>
      /\ ~ Open(ls[i])
      /\ ls[i].sequence <= ls[j].sequence
      /\ Won(ls[i], es[i]) => ls[i].sequence < ls[j].sequence

EscrowState == {"none", "locked", "claimed"}

RowsFit(ls, es) ==
  /\ ls \in Seq(ListingRow) /\ Len(ls) <= MaxListings
  /\ es \in [Secret -> EscrowState]
  /\ \A i \in 1 .. Len(ls) : RowFits(i, ls[i], es[i])
  /\ \A i \in Secret : es[i] # "none" => i <= Len(ls)
  /\ InOrder(ls, es)

\* The artifact stored under a sequence of a stamp is one for that sequence.
StoreFits(rows) ==
  /\ rows \in [Issued \X Sequence -> TransferAuthorization \cup {None}]
  /\ \A c \in Issued, n \in Sequence :
       rows[<<c, n>>] # None =>
         rows[<<c, n>>].stamp = c /\ rows[<<c, n>>].sequence = n

\* Every offer on the chain is that of a listing.
OffersListed(rs, ls) ==
  \A j \in 1 .. Len(rs) :
    rs[j].kind = "offer" => \E i \in 1 .. Len(ls) : ls[i].offer = rs[j].artifact

\* Row l against the state s of its stamp on chain rs: the seller had the stamp
\* before the sequence of the listing, by a record older than any of its offer,
\* and what was seen to be delivered still is.
Held(l, escrow, s, rs) ==
  /\ l.sequence = 1 => l.seller = OriginalRecipient[l.stamp]
  /\ l.sequence # 1 =>
       /\ l.sequence - 1 \in 1 .. Len(s.history)
       /\ s.history[l.sequence - 1].to = l.seller
       /\ l.offer # None =>
            \A j \in 1 .. Len(rs) :
              rs[j].artifact = l.offer => s.history[l.sequence - 1].place < rs[j].place
  /\ Won(l, escrow) =>
       /\ l.sequence \in 1 .. Len(s.history)
       /\ s.history[l.sequence].to = l.buyer

AllHeld(ls, es, ownership, rs) ==
  \A i \in 1 .. Len(ls) : Held(ls[i], es[i], ownership[ls[i].stamp], rs)

MarketInv ==
  /\ ChainFits
  /\ RowsFit(listings, escrows)
  /\ StoreFits(transferRow)
  /\ OffersListed(publications, listings)
  /\ AllHeld(listings, escrows, ownershipNow, publications)

\* What the index makes of a chain is sound, stamp by stamp.
LEMMA ResolvedSound ==
  ASSUME NEW rs, Typed(rs), NEW av, NEW c \in Issued
  PROVE  /\ resolveOwnership(rs, av)[c] \in StampOwnership
         /\ StampInv(c, resolveOwnership(rs, av)[c])
<1>1. PICK f : Replays(f, rs, av) /\ resolveOwnership(rs, av) = f[Len(rs)]
  BY Resolved
<1>2. Len(rs) \in 0 .. Len(rs)
  BY DEF Typed
<1>. QED  BY <1>1, <1>2, ReplaySound

\* A transfer in the resolved history has its place from a record on the chain.
PlacedOn(s, rs) ==
  \A k \in 1 .. Len(s.history) : \E i \in 1 .. Len(rs) : s.history[k].place = rs[i].place

LEMMA PlacedByRecord ==
  ASSUME NEW rs, Typed(rs), NEW av, NEW c \in Issued
  PROVE  PlacedOn(resolveOwnership(rs, av)[c], rs)
<1>1. PICK f : Replays(f, rs, av) /\ resolveOwnership(rs, av) = f[Len(rs)]
  BY Resolved
<1>2. Len(rs) \in Nat
  BY DEF Typed
<1>3. PICK a \in 0 .. Len(rs), b \in 0 .. Len(rs) : a = 0 /\ b = Len(rs)
  BY <1>2
<1>4. \A i \in Len(f[a][c].history) + 1 .. Len(f[b][c].history) :
        \E j \in a + 1 .. b : /\ rs[j].stamp = c /\ rs[j].sequence = i
                              /\ f[b][c].history[i].place = rs[j].place
  <2>1. b \in a .. Len(rs)
    BY <1>2, <1>3
  <2>. QED  BY <1>1, <2>1, ReplayClaims, SMTT(30)
<1>5. Len(f[a][c].history) = 0
  BY <1>1, <1>3 DEF Replays, IssuedStamp
<1>6. ASSUME NEW k \in 1 .. Len(f[b][c].history)
      PROVE  \E i \in 1 .. Len(rs) : f[b][c].history[k].place = rs[i].place
  <2>1. k \in Len(f[a][c].history) + 1 .. Len(f[b][c].history)
    BY <1>5
  <2>2. PICK j \in a + 1 .. b : f[b][c].history[k].place = rs[j].place
    BY <1>4, <2>1
  <2>3. j \in 1 .. Len(rs)
    BY <1>2, <1>3
  <2>. QED  BY <2>2, <2>3
<1>. QED  BY <1>1, <1>3, <1>6 DEF PlacedOn

\* Row m may follow row l: the terms stay, nothing is newly won, and an offer that
\* is new is on no record yet.
Follows(l, escrow, m, escrow2, rs) ==
  /\ m.stamp = l.stamp /\ m.sequence = l.sequence /\ m.seller = l.seller
  /\ Won(m, escrow2) => Won(l, escrow) /\ m.buyer = l.buyer
  /\ m.offer = l.offer \/ \A j \in 1 .. Len(rs) : rs[j].artifact # m.offer

\* No artifact that row l rests on came or went.
Untouched(l, escrow, rs, av, bv) ==
  \A j \in 1 .. Len(rs) :
    /\ rs[j].stamp = l.stamp
    /\ rs[j].sequence < l.sequence \/ (Won(l, escrow) /\ rs[j].sequence = l.sequence)
    => (rs[j].artifact \in av <=> rs[j].artifact \in bv)

\* A row that keeps its terms is still held on the next chain, if no artifact came
\* or went that is about an earlier sequence of its stamp.
LEMMA HeldOn ==
  ASSUME NEW rs, Older(rs), NEW qs, NEW h, Continues(rs, qs, h), NEW av, NEW bv,
         NEW l, NEW escrow, l.stamp \in Issued, l.sequence \in Sequence \ {0},
         Held(l, escrow, resolveOwnership(rs, av)[l.stamp], rs),
         NEW m, NEW escrow2, Follows(l, escrow, m, escrow2, rs),
         Untouched(l, escrow, rs, av, bv)
  PROVE  Held(m, escrow2, resolveOwnership(qs, bv)[m.stamp], qs)
<1>. PICK c \in Issued, n \in Nat : c = l.stamp /\ n = l.sequence
  BY OwnershipAssumption DEF Sequence
<1>10. /\ m.stamp = l.stamp /\ m.sequence = l.sequence /\ m.seller = l.seller
       /\ Won(m, escrow2) => Won(l, escrow) /\ m.buyer = l.buyer
       /\ m.offer = l.offer \/ \A j \in 1 .. Len(rs) : rs[j].artifact # m.offer
  BY DEF Follows
<1>0. Typed(rs) /\ Fits(qs, h) /\ Typed(qs) /\ Len(rs) \in Nat /\ Ages(rs, qs)
  BY FitsOlder DEF Older, Typed, Continues
<1>1. PICK f : Replays(f, rs, av) /\ resolveOwnership(rs, av) = f[Len(rs)]
  BY <1>0, Resolved
<1>2. PICK g : Replays(g, qs, bv) /\ resolveOwnership(qs, bv) = g[Len(qs)]
  BY <1>0, Resolved
<1>3. PICK s \in StampOwnership, t \in StampOwnership :
        s = resolveOwnership(rs, av)[c] /\ t = resolveOwnership(qs, bv)[c]
  BY <1>0, ResolvedSound
<1>4. PICK b \in Nat : b = IF Won(l, escrow) THEN n + 1 ELSE n
  OBVIOUS
<1>5. AgreeBelow(rs, c, b, av, bv)
  <2>1. \A j \in 1 .. Len(rs) : rs[j].sequence \in Nat
    BY <1>0, OwnershipAssumption DEF Typed, CanonicalRecord, Sequence
  <2>. QED  BY <1>4, <2>1 DEF AgreeBelow, Untouched
<1>6. KeptTo(s, t, b)
  <2>1. KeptTo(f[Len(rs)][c], g[Len(qs)][c], b)
    BY <1>0, <1>1, <1>2, <1>5, KeptBelow
  <2>. QED  BY <1>1, <1>2, <1>3, <2>1
<1>7. ASSUME Won(m, escrow2)
      PROVE  n \in 1 .. Len(t.history) /\ t.history[n].to = m.buyer
  <2>1. Won(l, escrow) /\ m.buyer = l.buyer
    BY <1>10, <1>7
  <2>2. n \in 1 .. Len(s.history) /\ s.history[n].to = l.buyer
    BY <1>3, <2>1 DEF Held
  <2>3. n < b
    BY <1>4, <2>1
  <2>. QED  BY <1>6, <2>1, <2>2, <2>3 DEF KeptTo
<1>8. ASSUME n # 1
      PROVE  /\ n - 1 \in 1 .. Len(t.history) /\ t.history[n - 1] = s.history[n - 1]
             /\ n - 1 \in 1 .. Len(s.history) /\ s.history[n - 1].to = l.seller
  <2>1. n - 1 \in 1 .. Len(s.history) /\ s.history[n - 1].to = l.seller
    BY <1>3, <1>8 DEF Held
  <2>2. n - 1 < b
    BY <1>4
  <2>. QED  BY <1>6, <2>1, <2>2 DEF KeptTo
<1>9. ASSUME n # 1, m.offer # None, NEW j \in 1 .. Len(qs), qs[j].artifact = m.offer
      PROVE  t.history[n - 1].place < qs[j].place
  <2>1. n - 1 \in 1 .. Len(s.history) /\ t.history[n - 1] = s.history[n - 1]
    BY <1>8, <1>9
  <2>2. CASE j \in 1 .. Len(rs)
    <3>1. qs[j].artifact = rs[j].artifact /\ qs[j].place = rs[j].place
      BY <1>0, <2>2 DEF Ages, Same
    <3>2. m.offer = l.offer
      BY <1>10, <1>9, <2>2, <3>1
    <3>3. rs[j].artifact = l.offer /\ l.offer # None
      BY <1>9, <3>1, <3>2
    <3>4. s.history[n - 1].place < rs[j].place
      BY <1>3, <1>9, <2>2, <3>3 DEF Held
    <3>. QED  BY <2>1, <3>1, <3>4
  <2>3. CASE j \notin 1 .. Len(rs)
    <3>1. PICK i \in 1 .. Len(rs) : s.history[n - 1].place = rs[i].place
      <4>1. PlacedOn(resolveOwnership(rs, av)[c], rs)
        BY <1>0, PlacedByRecord
      <4>. QED  BY <1>3, <2>1, <4>1 DEF PlacedOn
    <3>2. i \in 1 .. Len(qs) /\ i < j
      <4>1. Len(rs) \in Nat /\ Len(qs) \in Nat /\ Len(rs) <= Len(qs)
        BY <1>0 DEF Ages, Typed
      <4>. QED  BY <2>3, <4>1
    <3>3. qs[i].place < qs[j].place
      BY <1>0, <3>2 DEF Fits
    <3>4. qs[i].place = rs[i].place
      BY <1>0 DEF Ages, Same
    <3>. QED  BY <2>1, <3>1, <3>3, <3>4
  <2>. QED  BY <2>2, <2>3
<1>. QED  BY <1>10, <1>3, <1>7, <1>8, <1>9 DEF Held

-----------------------------------------------------------------------------
(* Reconciling, and a change of one row.                                   *)

Stored(ls, rows) ==
  ({ls[i].offer : i \in 1 .. Len(ls)} \cup {rows[key] : key \in DOMAIN rows}) \ {None}

\* The artifacts of the index are those of the stored rows.
LEMMA ArtifactsStored == artifacts = Stored(listings, transferRow)
BY DEF artifacts, Stored

\* Rows with the same offers give the same artifacts.
LEMMA SameStored ==
  ASSUME NEW ls, NEW ms, NEW rows, Len(ms) = Len(ls),
         \A i \in 1 .. Len(ls) : ms[i].offer = ls[i].offer
  PROVE  Stored(ms, rows) = Stored(ls, rows)
BY DEF Stored

\* Two versions of a row that differ in their state only.
SameTerms(l, m) ==
  /\ m.stamp = l.stamp /\ m.sequence = l.sequence /\ m.seller = l.seller
  /\ m.buyer = l.buyer /\ m.offer = l.offer

LEMMA StateOnly ==
  ASSUME NEW l \in ListingRow, NEW i, NEW st \in ListingState
  PROVE  LET m == [l EXCEPT !.state = st]
         IN  /\ m \in ListingRow /\ m.state = st /\ SameTerms(l, m)
             /\ m.transfer = l.transfer
             /\ OfferFor(i, m) = OfferFor(i, l) /\ TransferFor(i, m) = TransferFor(i, l)
<1>. PICK m : m = [l EXCEPT !.state = st]
  OBVIOUS
<1>1. /\ m \in ListingRow /\ m.state = st /\ SameTerms(l, m)
      /\ m.transfer = l.transfer /\ m.price = l.price
  BY DEF ListingRow, SameTerms
<1>. QED  BY <1>1 DEF SameTerms, OfferFor, TransferFor

\* One row under reconcileListings: it stays, is settled because its transfer was
\* delivered, or expires before anything was paid.
LEMMA ReconcileRow ==
  ASSUME NEW i, NEW l, NEW escrow, RowFits(i, l, escrow), NEW ownership,
         NEW s \in StampOwnership, s = ownership[l.stamp], Contiguous(s), NEW rs,
         Held(l, escrow, s, rs)
  PROVE  LET m == reconcile(l, ownership)
         IN  /\ RowFits(i, m, escrow) /\ Held(m, escrow, s, rs) /\ SameTerms(l, m)
             /\ Open(m) => Open(l)
             /\ ~ Open(l) => m = l
<1>. PICK m : m = reconcile(l, ownership)
  OBVIOUS
<1>1. l \in ListingRow /\ l.sequence \in Sequence \ {0}
  BY DEF RowFits
<1>2. CASE m = l
  BY <1>2 DEF SameTerms
<1>3. CASE /\ Open(l) /\ delivered(s, l) /\ m = [l EXCEPT !.state = "settled"]
  <2>1. /\ m \in ListingRow /\ m.state = "settled" /\ SameTerms(l, m)
        /\ m.transfer = l.transfer
        /\ OfferFor(i, m) = OfferFor(i, l) /\ TransferFor(i, m) = TransferFor(i, l)
    <3>1. "settled" \in ListingState
      BY DEF ListingState
    <3>. QED  BY <1>1, <1>3, <3>1, StateOnly
  <2>2. RowFits(i, m, escrow)
    BY <2>1 DEF RowFits, SameTerms
  <2>3. l.sequence \in 1 .. Len(s.history) /\ s.history[l.sequence].to = l.buyer
    <3>1. s.sequence >= l.sequence /\ s.history[l.sequence].to = l.buyer
      BY <1>3 DEF delivered
    <3>2. s.sequence = Len(s.history) /\ Len(s.history) \in Nat
      BY DEF Contiguous, StampOwnership
    <3>. QED  BY <1>1, <3>1, <3>2, OwnershipAssumption DEF Sequence
  <2>4. Held(m, escrow, s, rs)
    BY <2>1, <2>3 DEF Held, SameTerms
  <2>. QED  BY <1>3, <2>1, <2>2, <2>4
<1>4. CASE Open(l) /\ beforePayment(l) /\ m = [l EXCEPT !.state = "expired"]
  <2>1. /\ m \in ListingRow /\ m.state = "expired" /\ SameTerms(l, m)
        /\ m.transfer = l.transfer
        /\ OfferFor(i, m) = OfferFor(i, l) /\ TransferFor(i, m) = TransferFor(i, l)
    <3>1. "expired" \in ListingState
      BY DEF ListingState
    <3>. QED  BY <1>1, <1>4, <3>1, StateOnly
  <2>2. ~ (escrow # "none")
    BY <1>4 DEF RowFits, beforePayment
  <2>3. RowFits(i, m, escrow)
    BY <2>1, <2>2 DEF RowFits, SameTerms
  <2>4. ~ Won(m, escrow)
    BY <2>1, <2>2 DEF Won
  <2>5. Held(m, escrow, s, rs)
    BY <2>1, <2>4 DEF Held, SameTerms
  <2>. QED  BY <1>4, <2>1, <2>3, <2>5
<1>5. \/ m = l
      \/ Open(l) /\ delivered(s, l) /\ m = [l EXCEPT !.state = "settled"]
      \/ Open(l) /\ beforePayment(l) /\ m = [l EXCEPT !.state = "expired"]
  BY DEF reconcile, isLive, Open
<1>6. ~ Open(l) => m = l
  BY DEF reconcile, isLive, Open
<1>. QED  BY <1>2, <1>3, <1>4, <1>5, <1>6

\* The rows that a request works on.
Worked(ls) ==
  /\ RowsFit(ls, escrows)
  /\ OffersListed(publications, ls)
  /\ AllHeld(ls, escrows, ownershipNow, publications)
  /\ Stored(ls, transferRow) = artifacts

LEMMA ListingsWorked == MarketInv => Worked(listings)
BY ArtifactsStored DEF MarketInv, Worked

\* What the index says of a stamp is sound.
LEMMA IndexSound ==
  ASSUME MarketInv, NEW c \in Issued
  PROVE  ownershipNow[c] \in StampOwnership /\ StampInv(c, ownershipNow[c])
<1>1. Typed(publications)
  BY FitsOlder DEF MarketInv, ChainFits
<1>. QED  BY <1>1, ResolvedSound DEF ownershipNow

\* Reconciling keeps all that the rows promise, and their terms.
LEMMA Reconciled ==
  ASSUME MarketInv
  PROVE  /\ Worked(reconciled) /\ Len(reconciled) = Len(listings)
         /\ \A i \in 1 .. Len(listings) :
              SameTerms(listings[i], reconciled[i])
<1>1. PICK ms : ms = reconciled
  OBVIOUS
<1>2. /\ listings \in Seq(ListingRow) /\ Len(listings) \in Nat
      /\ RowsFit(listings, escrows)
      /\ AllHeld(listings, escrows, ownershipNow, publications)
      /\ OffersListed(publications, listings)
  BY DEF MarketInv, RowsFit
<1>3. /\ Len(ms) = Len(listings)
      /\ \A i \in 1 .. Len(listings) : ms[i] = reconcile(listings[i], ownershipNow)
  BY <1>1, <1>2 DEF reconciled
<1>4. ASSUME NEW i \in 1 .. Len(listings)
      PROVE  /\ RowFits(i, ms[i], escrows[i]) /\ ms[i] \in ListingRow
             /\ Held(ms[i], escrows[i], ownershipNow[ms[i].stamp], publications)
             /\ SameTerms(listings[i], ms[i])
             /\ Open(ms[i]) => Open(listings[i])
             /\ ~ Open(listings[i]) => ms[i] = listings[i]
  <2>1. RowFits(i, listings[i], escrows[i]) /\ listings[i].stamp \in Issued
    <3>1. listings[i] \in ListingRow
      BY <1>2
    <3>2. listings[i].stamp \in Issued
      BY <3>1 DEF ListingRow
    <3>. QED  BY <1>2, <3>2 DEF RowsFit
  <2>2. PICK s \in StampOwnership : s = ownershipNow[listings[i].stamp] /\ Contiguous(s)
    BY <2>1, IndexSound DEF StampInv
  <2>3. Held(listings[i], escrows[i], s, publications)
    BY <1>2, <2>2 DEF AllHeld
  <2>4. /\ RowFits(i, ms[i], escrows[i]) /\ Held(ms[i], escrows[i], s, publications)
        /\ SameTerms(listings[i], ms[i])
        /\ Open(ms[i]) => Open(listings[i])
        /\ ~ Open(listings[i]) => ms[i] = listings[i]
    BY <1>3, <2>1, <2>2, <2>3, ReconcileRow
  <2>5. ms[i].stamp = listings[i].stamp
    BY <2>4 DEF SameTerms
  <2>6. ms[i] \in ListingRow
    BY <2>4 DEF RowFits
  <2>7. ownershipNow[ms[i].stamp] = s
    BY <2>2, <2>5
  <2>. QED  BY <2>4, <2>6, <2>7
<1>5. ms \in Seq(ListingRow)
  <2>1. ms = [i \in 1 .. Len(listings) |-> reconcile(listings[i], ownershipNow)]
    BY <1>1 DEF reconciled
  <2>2. \A i \in 1 .. Len(listings) : reconcile(listings[i], ownershipNow) \in ListingRow
    BY <1>3, <1>4
  <2>. QED  BY <1>2, <2>1, <2>2
<1>6. InOrder(ms, escrows)
  <2>1. ASSUME NEW i \in 1 .. Len(ms), NEW j \in 1 .. Len(ms), i < j,
               ms[i].stamp = ms[j].stamp
        PROVE  /\ ~ Open(ms[i]) /\ ms[i].sequence <= ms[j].sequence
               /\ Won(ms[i], escrows[i]) => ms[i].sequence < ms[j].sequence
    <3>1. listings[i].stamp = listings[j].stamp
      BY <1>3, <1>4, <2>1 DEF SameTerms
    <3>2. /\ ~ Open(listings[i]) /\ listings[i].sequence <= listings[j].sequence
          /\ Won(listings[i], escrows[i]) => listings[i].sequence < listings[j].sequence
      BY <1>2, <1>3, <2>1, <3>1 DEF RowsFit, InOrder
    <3>3. ms[i] = listings[i] /\ ms[j].sequence = listings[j].sequence
      BY <1>3, <1>4, <3>2 DEF SameTerms
    <3>. QED  BY <3>2, <3>3
  <2>. QED  BY <2>1 DEF InOrder
<1>7. RowsFit(ms, escrows)
  BY <1>2, <1>3, <1>4, <1>5, <1>6 DEF RowsFit
<1>8. OffersListed(publications, ms)
  BY <1>2, <1>3, <1>4 DEF OffersListed, SameTerms
<1>9. AllHeld(ms, escrows, ownershipNow, publications)
  BY <1>3, <1>4 DEF AllHeld
<1>10. Stored(ms, transferRow) = artifacts
  BY <1>3, <1>4, SameStored, ArtifactsStored DEF SameTerms
<1>. QED  BY <1>1, <1>3, <1>4, <1>7, <1>8, <1>9, <1>10 DEF Worked

\* Row i may become `row`: no more alive than before, and with no new success.
Changes(ls, es, i, row, es2) ==
  /\ es2 \in [Secret -> EscrowState]
  /\ \A j \in Secret : j # i => es2[j] = es[j]
  /\ RowFits(i, row, es2[i])
  /\ row.stamp = ls[i].stamp /\ row.sequence = ls[i].sequence
  /\ Open(row) => Open(ls[i])
  /\ Won(row, es2[i]) => Won(ls[i], es[i])

Updated(ls, i, row) == [ls EXCEPT ![i] = row]

LEMMA RowChanged ==
  ASSUME NEW ls, NEW es, RowsFit(ls, es), NEW i \in 1 .. Len(ls), NEW row, NEW es2,
         Changes(ls, es, i, row, es2), NEW ms, ms = Updated(ls, i, row)
  PROVE  /\ RowsFit(ms, es2) /\ Len(ms) = Len(ls) /\ ms[i] = row
         /\ \A j \in 1 .. Len(ls) : j # i => ms[j] = ls[j]
<1>1. /\ ls \in Seq(ListingRow) /\ Len(ls) \in Nat /\ Len(ls) <= MaxListings
      /\ es \in [Secret -> EscrowState]
  BY DEF RowsFit
<1>2. row \in ListingRow
  BY DEF RowFits, Changes
<1>3. /\ ms \in Seq(ListingRow) /\ Len(ms) = Len(ls) /\ ms[i] = row
      /\ \A j \in 1 .. Len(ls) : j # i => ms[j] = ls[j]
  BY <1>1, <1>2 DEF Updated
<1>4. \A j \in 1 .. Len(ls) : j \in Secret
  BY <1>1, MarketAssumption
<1>5. \A j \in 1 .. Len(ms) : RowFits(j, ms[j], es2[j])
  BY <1>3, <1>4 DEF RowsFit, Changes
<1>6. \A j \in Secret : es2[j] # "none" => j <= Len(ms)
  BY <1>1, <1>3 DEF RowsFit, Changes
<1>7. InOrder(ms, es2)
  <2>1. ASSUME NEW j \in 1 .. Len(ms)
        PROVE  /\ ms[j].stamp = ls[j].stamp /\ ms[j].sequence = ls[j].sequence
               /\ Open(ms[j]) => Open(ls[j])
               /\ Won(ms[j], es2[j]) => Won(ls[j], es[j])
    BY <1>3, <1>4 DEF Changes
  <2>. QED  BY <1>3, <2>1 DEF RowsFit, InOrder
<1>. QED  BY <1>1, <1>3, <1>5, <1>6, <1>7 DEF RowsFit, Changes

-----------------------------------------------------------------------------
(* A step keeps the invariant when every row follows from a worked one.    *)

\* The invariant survives a step in which each row follows from a worked one,
\* rests on nothing that changed, and new rows are held.
LEMMA Preserved ==
  ASSUME MarketInv, NEW ls, Worked(ls), height' \in Nat,
         Continues(publications, publications', height'),
         RowsFit(listings', escrows'), StoreFits(transferRow'),
         OffersListed(publications', listings'), Len(ls) <= Len(listings'),
         \A i \in 1 .. Len(ls) :
           /\ Follows(ls[i], escrows[i], listings'[i], escrows'[i], publications)
           /\ Untouched(ls[i], escrows[i], publications, artifacts, artifacts'),
         \A i \in Len(ls) + 1 .. Len(listings') :
           Held(listings'[i], escrows'[i], ownershipNow'[listings'[i].stamp], publications')
  PROVE  MarketInv'
<1>1. Older(publications) /\ Fits(publications', height')
  BY FitsOlder DEF MarketInv, ChainFits, Continues
<1>2. /\ RowsFit(ls, escrows) /\ AllHeld(ls, escrows, ownershipNow, publications)
      /\ Len(ls) \in Nat
  BY DEF Worked, RowsFit
<1>3. PICK av, bv : av = artifacts /\ bv = artifacts'
  OBVIOUS
<1>4. /\ ownershipNow = resolveOwnership(publications, av)
      /\ ownershipNow' = resolveOwnership(publications', bv)
  BY <1>3 DEF ownershipNow
<1>5. ASSUME NEW i \in 1 .. Len(ls)
      PROVE  Held(listings'[i], escrows'[i], ownershipNow'[listings'[i].stamp], publications')
  <2>1. ls[i].stamp \in Issued /\ ls[i].sequence \in Sequence \ {0}
    <3>1. RowFits(i, ls[i], escrows[i])
      BY <1>2 DEF RowsFit
    <3>. QED  BY <3>1 DEF RowFits, ListingRow
  <2>2. Held(ls[i], escrows[i], resolveOwnership(publications, av)[ls[i].stamp], publications)
    BY <1>2, <1>4 DEF AllHeld
  <2>3. /\ Follows(ls[i], escrows[i], listings'[i], escrows'[i], publications)
        /\ Untouched(ls[i], escrows[i], publications, av, bv)
    BY <1>3
  <2>4. Held(listings'[i], escrows'[i],
             resolveOwnership(publications', bv)[listings'[i].stamp], publications')
    BY <1>1, <2>1, <2>2, <2>3, HeldOn
  <2>. QED  BY <1>4, <2>4
<1>6. Len(listings') \in Nat
  BY DEF RowsFit
<1>7. AllHeld(listings', escrows', ownershipNow', publications')
  <2>1. \A i \in 1 .. Len(listings') : i \in 1 .. Len(ls) \/ i \in Len(ls) + 1 .. Len(listings')
    BY <1>2, <1>6
  <2>. QED  BY <1>5, <2>1 DEF AllHeld
<1>. QED  BY <1>1, <1>7 DEF MarketInv, ChainFits

\* The offers on a chain that has not grown are still those of listings.
LEMMA OffersStay ==
  ASSUME NEW rs, NEW qs, Ages(rs, qs), Len(qs) = Len(rs), NEW ls, OffersListed(rs, ls),
         NEW ms, Len(ls) <= Len(ms), Len(ls) \in Nat, Len(ms) \in Nat,
         \A i \in 1 .. Len(ls) : ms[i].offer = ls[i].offer
  PROVE  OffersListed(qs, ms)
<1>1. SUFFICES ASSUME NEW j \in 1 .. Len(qs), qs[j].kind = "offer"
               PROVE  \E i \in 1 .. Len(ms) : ms[i].offer = qs[j].artifact
  BY DEF OffersListed
<1>2. rs[j].kind = "offer" /\ rs[j].artifact = qs[j].artifact
  BY <1>1 DEF Ages, Same
<1>3. PICK i \in 1 .. Len(ls) : ls[i].offer = rs[j].artifact
  BY <1>1, <1>2 DEF OffersListed
<1>4. i \in 1 .. Len(ms)
  OBVIOUS
<1>. QED  BY <1>2, <1>3, <1>4

LEMMA SameUntouched ==
  ASSUME NEW l, NEW escrow, NEW rs, NEW av
  PROVE  Untouched(l, escrow, rs, av, av)
BY DEF Untouched

\* A request that changes one row's state, and a chain that only ages.
LEMMA QuietStep ==
  ASSUME MarketInv, NEW i \in 1 .. Len(listings), NEW row,
         listings' = [reconciled EXCEPT ![i] = row],
         escrows' \in [Secret -> EscrowState],
         \A j \in Secret : j # i => escrows'[j] = escrows[j],
         RowFits(i, row, escrows'[i]),
         row.stamp = reconciled[i].stamp, row.sequence = reconciled[i].sequence,
         row.seller = reconciled[i].seller, row.offer = reconciled[i].offer,
         Open(row) => Open(reconciled[i]),
         Won(row, escrows'[i]) =>
           Won(reconciled[i], escrows[i]) /\ row.buyer = reconciled[i].buyer,
         transferRow' = transferRow, height' \in {height, height + 1},
         publications' = ticked(publications)
  PROVE  MarketInv'
<1>1. PICK ls : ls = reconciled
  OBVIOUS
<1>2. Worked(ls) /\ Len(ls) = Len(listings)
  BY <1>1, Reconciled
<1>3. /\ RowsFit(ls, escrows) /\ OffersListed(publications, ls)
      /\ Stored(ls, transferRow) = artifacts /\ Len(ls) \in Nat
  BY <1>2 DEF Worked, RowsFit
<1>4. PICK ms, es : ms = listings' /\ es = escrows'
  OBVIOUS
<1>5. /\ row.stamp = ls[i].stamp /\ row.sequence = ls[i].sequence
      /\ row.seller = ls[i].seller /\ row.offer = ls[i].offer
      /\ Open(row) => Open(ls[i])
      /\ Won(row, es[i]) => Won(ls[i], escrows[i]) /\ row.buyer = ls[i].buyer
      /\ RowFits(i, row, es[i]) /\ es \in [Secret -> EscrowState]
      /\ \A j \in Secret : j # i => es[j] = escrows[j]
      /\ ms = [ls EXCEPT ![i] = row] /\ i \in 1 .. Len(ls)
  BY <1>1, <1>2, <1>4
<1>6. /\ RowsFit(ms, es) /\ Len(ms) = Len(ls) /\ ms[i] = row
      /\ \A j \in 1 .. Len(ls) : j # i => ms[j] = ls[j]
  <2>1. Changes(ls, escrows, i, row, es)
    BY <1>5 DEF Changes
  <2>2. ms = Updated(ls, i, row) /\ i \in 1 .. Len(ls) /\ RowsFit(ls, escrows)
    BY <1>3, <1>5 DEF Updated
  <2>. QED  BY <2>1, <2>2, RowChanged
<1>7. /\ height' \in Nat /\ Continues(publications, publications', height')
      /\ Ages(publications, publications') /\ Len(publications') = Len(publications)
  <2>1. ChainFits /\ height \in Nat
    BY DEF MarketInv, ChainFits
  <2>2. PICK h \in {height, height + 1} : h = height'
    OBVIOUS
  <2>3. Continues(publications, ticked(publications), h)
        /\ Len(ticked(publications)) = Len(publications)
    BY <2>1, TicksOn
  <2>. QED  BY <2>1, <2>2, <2>3 DEF Continues
<1>8. \A j \in 1 .. Len(ls) : ms[j].offer = ls[j].offer
  BY <1>5, <1>6
<1>9. OffersListed(publications', ms)
  BY <1>3, <1>6, <1>7, <1>8, OffersStay
<1>10. artifacts' = artifacts
  <2>1. artifacts' = Stored(listings', transferRow')
    BY DEF artifacts, Stored
  <2>2. Stored(ms, transferRow) = Stored(ls, transferRow)
    BY <1>6, <1>8, SameStored
  <2>. QED  BY <1>3, <1>4, <2>1, <2>2
<1>11. ASSUME NEW j \in 1 .. Len(ls)
       PROVE  Follows(ls[j], escrows[j], ms[j], es[j], publications)
  <2>1. j \in Secret
    BY <1>3, MarketAssumption DEF RowsFit
  <2>2. CASE j = i
    BY <1>5, <1>6, <2>2 DEF Follows
  <2>3. CASE j # i
    BY <1>5, <1>6, <2>1, <2>3 DEF Follows
  <2>. QED  BY <2>2, <2>3
<1>12. \A j \in 1 .. Len(ls) :
         /\ Follows(ls[j], escrows[j], listings'[j], escrows'[j], publications)
         /\ Untouched(ls[j], escrows[j], publications, artifacts, artifacts')
  BY <1>4, <1>10, <1>11, SameUntouched
<1>13. /\ \A j \in Len(ls) + 1 .. Len(listings') :
            Held(listings'[j], escrows'[j], ownershipNow'[listings'[j].stamp], publications')
       /\ Len(ls) <= Len(listings')
  BY <1>3, <1>4, <1>6
<1>14. StoreFits(transferRow')
  BY DEF MarketInv
<1>. QED  BY <1>2, <1>4, <1>6, <1>7, <1>9, <1>12, <1>13, <1>14, Preserved

-----------------------------------------------------------------------------
(* The requests, one by one.                                               *)

\* The rows stay as they are worked on, and the chain at most ages.
LEMMA RestingStep ==
  ASSUME MarketInv, NEW ls, Worked(ls), listings' = ls,
         UNCHANGED <<transferRow, escrows>>, height' \in {height, height + 1},
         \/ publications' = ticked(publications)
         \/ UNCHANGED <<publications, height>>
  PROVE  MarketInv'
<1>1. /\ RowsFit(ls, escrows) /\ OffersListed(publications, ls)
      /\ Stored(ls, transferRow) = artifacts /\ Len(ls) \in Nat
  BY DEF Worked, RowsFit
<1>2. /\ height' \in Nat /\ Continues(publications, publications', height')
      /\ Ages(publications, publications') /\ Len(publications') = Len(publications)
  <2>1. ChainFits /\ height \in Nat
    BY DEF MarketInv, ChainFits
  <2>2. CASE publications' = ticked(publications)
    <3>1. PICK h \in {height, height + 1} : h = height'
      OBVIOUS
    <3>2. /\ Continues(publications, ticked(publications), h)
          /\ Len(ticked(publications)) = Len(publications)
      BY <2>1, TicksOn
    <3>. QED  BY <2>1, <2>2, <3>1, <3>2 DEF Continues
  <2>3. CASE UNCHANGED <<publications, height>>
    <3>1. Continues(publications, publications, height)
      BY <2>1, RestsOn
    <3>. QED  BY <2>1, <2>3, <3>1 DEF Continues
  <2>. QED  BY <2>2, <2>3
<1>3. OffersListed(publications', ls)
  BY <1>1, <1>2, OffersStay
<1>4. artifacts' = artifacts
  <2>1. artifacts' = Stored(listings', transferRow')
    BY DEF artifacts, Stored
  <2>. QED  BY <1>1, <2>1
<1>5. \A j \in 1 .. Len(ls) :
        Follows(ls[j], escrows[j], ls[j], escrows[j], publications)
  BY DEF Follows
<1>6. \A j \in 1 .. Len(ls) :
        /\ Follows(ls[j], escrows[j], listings'[j], escrows'[j], publications)
        /\ Untouched(ls[j], escrows[j], publications, artifacts, artifacts')
  BY <1>4, <1>5, SameUntouched
<1>7. /\ \A j \in Len(ls) + 1 .. Len(listings') :
           Held(listings'[j], escrows'[j], ownershipNow'[listings'[j].stamp], publications')
      /\ Len(ls) <= Len(listings')
  BY <1>1
<1>8. StoreFits(transferRow') /\ RowsFit(listings', escrows')
  BY <1>1 DEF MarketInv
<1>. QED  BY <1>2, <1>3, <1>6, <1>7, <1>8, Preserved

LEMMA ReconcileStep == MarketInv /\ Reconcile => MarketInv'
<1>. SUFFICES ASSUME MarketInv, Reconcile PROVE MarketInv'
  OBVIOUS
<1>1. Worked(reconciled)
  BY Reconciled
<1>2. /\ listings' = reconciled /\ UNCHANGED <<transferRow, escrows>>
      /\ UNCHANGED <<publications, height>> /\ height' \in {height, height + 1}
  BY DEF Reconcile
<1>. QED  BY <1>1, <1>2, RestingStep

LEMMA TickStep == MarketInv /\ (Tick \/ OtherBlock) => MarketInv'
<1>. SUFFICES ASSUME MarketInv, Tick \/ OtherBlock PROVE MarketInv'
  OBVIOUS
<1>1. Worked(listings)
  BY ListingsWorked
<1>2. /\ listings' = listings /\ UNCHANGED <<transferRow, escrows>>
      /\ publications' = ticked(publications) /\ height' \in {height, height + 1}
  BY DEF Tick, OtherBlock
<1>. QED  BY <1>1, <1>2, RestingStep

\* Nothing changes, or nothing but what the marketplace does not hold.
LEMMA StutterStep == MarketInv /\ UNCHANGED marketVars => MarketInv'
<1>. SUFFICES ASSUME MarketInv, UNCHANGED marketVars PROVE MarketInv'
  OBVIOUS
<1>1. Worked(listings)
  BY ListingsWorked
<1>2. /\ listings' = listings /\ UNCHANGED <<transferRow, escrows>>
      /\ UNCHANGED <<publications, height>> /\ height' \in {height, height + 1}
  BY DEF marketVars
<1>. QED  BY <1>1, <1>2, RestingStep

\* The row a request works on.
LEMMA WorkedRow ==
  ASSUME MarketInv, NEW i \in Secret, i <= Len(listings)
  PROVE  /\ i \in 1 .. Len(listings) /\ RowFits(i, reconciled[i], escrows[i])
         /\ reconciled[i] \in ListingRow /\ reconciled \in Seq(ListingRow)
         /\ Len(reconciled) = Len(listings) /\ escrows \in [Secret -> EscrowState]
         /\ height \in Nat
<1>1. RowsFit(reconciled, escrows) /\ Len(reconciled) = Len(listings)
  BY Reconciled DEF Worked
<1>2. Len(listings) \in Nat
  BY DEF MarketInv, RowsFit
<1>3. i \in 1 .. Len(listings)
  BY <1>2, MarketAssumption
<1>. QED  BY <1>1, <1>3 DEF RowsFit, RowFits, MarketInv, ChainFits

LEMMA ChallengeStep ==
  ASSUME MarketInv, NEW i \in Secret, Challenge(i)
  PROVE  MarketInv'
<1>1. /\ i <= Len(listings) /\ listings' = [reconciled EXCEPT ![i] = reconciled[i]]
      /\ publications' = ticked(publications)
      /\ UNCHANGED <<height, transferRow, escrows>>
  BY DEF Challenge, Advance
<1>2. PICK l : l = reconciled[i]
  OBVIOUS
<1>3. /\ i \in 1 .. Len(listings) /\ RowFits(i, l, escrows[i])
      /\ escrows' \in [Secret -> EscrowState]
      /\ \A j \in Secret : j # i => escrows'[j] = escrows[j]
      /\ listings' = [reconciled EXCEPT ![i] = l]
      /\ height' \in {height, height + 1} /\ escrows' = escrows
  BY <1>1, <1>2, WorkedRow
<1>. QED  BY <1>1, <1>2, <1>3, QuietStep

LEMMA CancelStep ==
  ASSUME MarketInv, NEW i \in Secret, Cancel(i)
  PROVE  MarketInv'
<1>1. /\ i <= Len(listings) /\ cancellable(reconciled[i])
      /\ listings' = [reconciled EXCEPT ![i].state = "cancelled"]
      /\ publications' = ticked(publications)
      /\ UNCHANGED <<height, transferRow, escrows>>
  BY DEF Cancel
<1>2. PICK l : l = reconciled[i]
  OBVIOUS
<1>3. /\ i \in 1 .. Len(listings) /\ RowFits(i, l, escrows[i]) /\ l \in ListingRow
      /\ escrows' \in [Secret -> EscrowState]
      /\ \A j \in Secret : j # i => escrows'[j] = escrows[j]
      /\ height' \in {height, height + 1} /\ escrows' = escrows
  BY <1>1, <1>2, WorkedRow
<1>4. PICK row : row = [l EXCEPT !.state = "cancelled"]
  OBVIOUS
<1>5. listings' = [reconciled EXCEPT ![i] = row]
  BY <1>1, <1>2, <1>4
<1>6. /\ row \in ListingRow /\ row.state = "cancelled" /\ SameTerms(l, row)
      /\ row.transfer = l.transfer
      /\ OfferFor(i, row) = OfferFor(i, l) /\ TransferFor(i, row) = TransferFor(i, l)
  <2>1. "cancelled" \in ListingState
    BY DEF ListingState
  <2>. QED  BY <1>3, <1>4, <2>1, StateOnly
<1>7. /\ row.stamp = l.stamp /\ row.sequence = l.sequence /\ row.seller = l.seller
      /\ row.offer = l.offer /\ row.buyer = l.buyer
  BY <1>6 DEF SameTerms
<1>8. RowFits(i, row, escrows'[i])
  BY <1>3, <1>6, <1>7 DEF RowFits
<1>9. Won(row, escrows'[i]) => Won(l, escrows[i])
  BY <1>1, <1>2, <1>3, <1>6 DEF RowFits, Won, cancellable
<1>10. ~ Open(row)
  BY <1>6 DEF Open
<1>. QED  BY <1>1, <1>2, <1>3, <1>5, <1>7, <1>8, <1>9, <1>10, QuietStep

LEMMA ReserveStep ==
  ASSUME MarketInv, NEW i \in Secret, NEW buyer \in Address, Reserve(i, buyer)
  PROVE  MarketInv'
<1>1. PICK l, row : l = reconciled[i] /\ row = reserved(l, buyer)
  OBVIOUS
<1>2. /\ i <= Len(listings) /\ l.state = "listed"
      /\ listings' = [reconciled EXCEPT ![i] = row]
      /\ publications' = ticked(publications)
      /\ UNCHANGED <<height, transferRow, escrows>>
  BY <1>1 DEF Reserve, Advance
<1>3. /\ i \in 1 .. Len(listings) /\ RowFits(i, l, escrows[i]) /\ l \in ListingRow
      /\ escrows' \in [Secret -> EscrowState] /\ height \in Nat
      /\ \A j \in Secret : j # i => escrows'[j] = escrows[j]
      /\ height' \in {height, height + 1} /\ escrows' = escrows
  BY <1>1, <1>2, WorkedRow
<1>4. PICK e \in Nat : e = height + HTLC_TIMEOUT_BLOCKS
  BY <1>3, MarketAssumption
<1>5. row = [l EXCEPT !.state = "reserved", !.buyer = buyer, !.expiry = e]
  BY <1>1, <1>4 DEF reserved
<1>6. /\ row.stamp = l.stamp /\ row.sequence = l.sequence /\ row.seller = l.seller
      /\ row.offer = l.offer /\ row.buyer = buyer /\ row.state = "reserved"
  BY <1>3, <1>5 DEF ListingRow
<1>7. row \in ListingRow
  <2>1. "reserved" \in ListingState
    BY DEF ListingState
  <2>. QED  BY <1>3, <1>5, <2>1 DEF ListingRow
<1>8. RowFits(i, row, escrows'[i])
  <2>1. escrows[i] = "none" /\ l.offer = None /\ l.sequence \in Sequence \ {0}
    BY <1>2, <1>3 DEF RowFits
  <2>2. row.buyer # None
    BY <1>6, OwnershipAssumption
  <2>. QED  BY <1>3, <1>6, <1>7, <2>1, <2>2 DEF RowFits
<1>9. ~ Won(row, escrows'[i]) /\ Open(l)
  BY <1>2, <1>6 DEF Won, Open
<1>. QED  BY <1>1, <1>2, <1>3, <1>6, <1>8, <1>9, QuietStep

LEMMA AuthorizeStep ==
  ASSUME MarketInv, NEW i \in Secret, Authorize(i)
  PROVE  MarketInv'
<1>1. PICK l, auth, row : /\ l = reconciled[i] /\ auth = TransferFor(i, l)
                          /\ row = [l EXCEPT !.state = "authorized", !.transfer = auth]
  OBVIOUS
<1>2. transferOf(i) = auth
  BY <1>1 DEF transferOf, TransferFor
<1>3. /\ i <= Len(listings) /\ l.state = "offer_published"
      /\ listings' = [reconciled EXCEPT ![i] = row]
      /\ publications' = ticked(publications)
      /\ UNCHANGED <<height, transferRow, escrows>>
  BY <1>1, <1>2 DEF Authorize, Advance
<1>4. /\ i \in 1 .. Len(listings) /\ RowFits(i, l, escrows[i]) /\ l \in ListingRow
      /\ escrows' \in [Secret -> EscrowState]
      /\ \A j \in Secret : j # i => escrows'[j] = escrows[j]
      /\ height' \in {height, height + 1} /\ escrows' = escrows
  BY <1>1, <1>3, WorkedRow
<1>5. /\ l.buyer # None /\ l.offer # None /\ l.offer = OfferFor(i, l)
      /\ escrows[i] = "none" /\ l.sequence \in Sequence \ {0}
  BY <1>3, <1>4 DEF RowFits
<1>6. /\ l.stamp \in Commitment /\ l.seller \in Address /\ l.buyer \in Address
      /\ l.offer \in SettlementOffer \cup {None}
  BY <1>4, <1>5, OwnershipAssumption DEF ListingRow
<1>7. auth \in TransferAuthorization
  BY <1>1, <1>5, <1>6 DEF TransferFor, TransferAuthorization
<1>8. /\ row.stamp = l.stamp /\ row.sequence = l.sequence /\ row.seller = l.seller
      /\ row.offer = l.offer /\ row.buyer = l.buyer /\ row.state = "authorized"
      /\ row.transfer = auth /\ row.price = l.price
  BY <1>1, <1>4 DEF ListingRow
<1>9. row \in ListingRow
  <2>1. "authorized" \in ListingState
    BY DEF ListingState
  <2>. QED  BY <1>1, <1>4, <1>7, <2>1 DEF ListingRow
<1>10. OfferFor(i, row) = OfferFor(i, l) /\ TransferFor(i, row) = auth
  BY <1>1, <1>8 DEF OfferFor, TransferFor
<1>11. RowFits(i, row, escrows'[i])
  BY <1>4, <1>5, <1>8, <1>9, <1>10 DEF RowFits
<1>12. ~ Won(row, escrows'[i]) /\ Open(l)
  BY <1>3, <1>8 DEF Won, Open
<1>. QED  BY <1>1, <1>3, <1>4, <1>8, <1>11, <1>12, QuietStep, ZenonT(40)

LEMMA LockPaymentStep ==
  ASSUME MarketInv, NEW i \in Secret, LockPayment(i)
  PROVE  MarketInv'
<1>1. PICK l, row :
        /\ l = reconciled[i]
        /\ row = [l EXCEPT !.state = "payment_locked",
                           !.expiry = height + 1 + HTLC_TIMEOUT_BLOCKS]
  OBVIOUS
<1>2. /\ i <= Len(listings) /\ l.state = "authorized"
      /\ listings' = [reconciled EXCEPT ![i] = row]
      /\ publications' = ticked(publications)
      /\ height' = height + 1 /\ UNCHANGED transferRow
      /\ escrows' = [escrows EXCEPT ![i] = "locked"]
  BY <1>1 DEF LockPayment, Advance
<1>3. /\ i \in 1 .. Len(listings) /\ RowFits(i, l, escrows[i]) /\ l \in ListingRow
      /\ escrows \in [Secret -> EscrowState] /\ height \in Nat
  BY <1>1, <1>2, WorkedRow
<1>4. /\ escrows' \in [Secret -> EscrowState] /\ escrows'[i] = "locked"
      /\ \A j \in Secret : j # i => escrows'[j] = escrows[j]
  BY <1>2, <1>3 DEF EscrowState
<1>5. PICK e \in Nat : e = height + 1 + HTLC_TIMEOUT_BLOCKS
  BY <1>3, MarketAssumption
<1>6. row = [l EXCEPT !.state = "payment_locked", !.expiry = e]
  BY <1>1, <1>5
<1>7. /\ row.stamp = l.stamp /\ row.sequence = l.sequence /\ row.seller = l.seller
      /\ row.offer = l.offer /\ row.buyer = l.buyer /\ row.state = "payment_locked"
      /\ row.transfer = l.transfer /\ row.price = l.price
  BY <1>3, <1>6 DEF ListingRow
<1>8. row \in ListingRow
  <2>1. "payment_locked" \in ListingState
    BY DEF ListingState
  <2>. QED  BY <1>3, <1>6, <2>1 DEF ListingRow
<1>9. OfferFor(i, row) = OfferFor(i, l) /\ TransferFor(i, row) = TransferFor(i, l)
  BY <1>7 DEF OfferFor, TransferFor
<1>10. RowFits(i, row, escrows'[i])
  BY <1>2, <1>3, <1>7, <1>8, <1>9 DEF RowFits
<1>11. ~ Won(row, escrows'[i]) /\ Open(l)
  BY <1>2, <1>7 DEF Won, Open
<1>12. height' \in {height, height + 1}
  BY <1>2
<1>. QED  BY <1>1, <1>2, <1>3, <1>4, <1>7, <1>10, <1>11, <1>12, QuietStep, ZenonT(40)

LEMMA ClaimPaymentStep ==
  ASSUME MarketInv, NEW i \in Secret, ClaimPayment(i)
  PROVE  MarketInv'
<1>1. PICK l : l = reconciled[i]
  OBVIOUS
<1>2. /\ i <= Len(listings) /\ l.state \in {"payment_locked", "transfer_published"}
      /\ listings' = [reconciled EXCEPT ![i] = l]
      /\ publications' = ticked(publications)
      /\ height' = height + 1 /\ UNCHANGED transferRow /\ escrows[i] = "locked"
      /\ escrows' = [escrows EXCEPT ![i] = "claimed"]
  BY <1>1 DEF ClaimPayment, Advance
<1>3. /\ i \in 1 .. Len(listings) /\ RowFits(i, l, escrows[i])
      /\ escrows \in [Secret -> EscrowState]
  BY <1>1, <1>2, WorkedRow
<1>4. /\ escrows' \in [Secret -> EscrowState]
      /\ \A j \in Secret : j # i => escrows'[j] = escrows[j]
  BY <1>2, <1>3 DEF EscrowState
<1>5. RowFits(i, l, escrows'[i])
  BY <1>2, <1>3 DEF RowFits
<1>6. ~ Won(l, escrows'[i]) /\ height' \in {height, height + 1}
  BY <1>2 DEF Won
<1>. QED  BY <1>1, <1>2, <1>3, <1>4, <1>5, <1>6, QuietStep

-----------------------------------------------------------------------------
(* Requests that publish or store an artifact.                             *)

\* The offers on a chain that has grown are still those of listings.
LEMMA OffersGrow ==
  ASSUME NEW rs, Typed(rs), NEW qs, Ages(rs, qs), Len(qs) = Len(rs) + 1,
         NEW ls, OffersListed(rs, ls),
         NEW ms, Len(ms) = Len(ls), \A i \in 1 .. Len(ls) : ls[i].offer \in {None, ms[i].offer},
         qs[Len(rs) + 1].kind = "offer" =>
           \E i \in 1 .. Len(ls) : ms[i].offer = qs[Len(rs) + 1].artifact
  PROVE  OffersListed(qs, ms)
<1>1. SUFFICES ASSUME NEW j \in 1 .. Len(qs), qs[j].kind = "offer"
               PROVE  \E i \in 1 .. Len(ms) : ms[i].offer = qs[j].artifact
  BY DEF OffersListed
<1>2. CASE j \in 1 .. Len(rs)
  <2>1. rs[j].kind = "offer" /\ rs[j].artifact = qs[j].artifact
    BY <1>1, <1>2 DEF Ages, Same
  <2>2. PICK i \in 1 .. Len(ls) : ls[i].offer = rs[j].artifact
    BY <1>2, <2>1 DEF OffersListed
  <2>3. rs[j].artifact # None
    <3>1. rs[j].artifact \in SettlementOffer
      BY <1>2, <2>1 DEF Typed, CanonicalRecord
    <3>. QED  BY <3>1, NoneIsNoOffer
  <2>. QED  BY <2>1, <2>2, <2>3
<1>3. CASE j = Len(rs) + 1
  BY <1>1, <1>3
<1>4. j \in 1 .. Len(rs) \/ j = Len(rs) + 1
  BY DEF Typed
<1>. QED  BY <1>2, <1>3, <1>4

\* Offers and authorizations are never confused.
LEMMA NoOfferIsTransfer == SettlementOffer \cap TransferAuthorization = {}
BY DEF SettlementOffer, TransferAuthorization

\* The offer of a listing that has none yet is on no record.
LEMMA NewOffer ==
  ASSUME NEW rs, Typed(rs), NEW ls, OffersListed(rs, ls),
         \A k \in 1 .. Len(ls) : ls[k].offer # None => ls[k].offer = OfferFor(k, ls[k]),
         NEW i \in 1 .. Len(ls), ls[i].offer = None,
         NEW o \in SettlementOffer, o = OfferFor(i, ls[i])
  PROVE  \A j \in 1 .. Len(rs) : rs[j].artifact # o
<1>1. SUFFICES ASSUME NEW j \in 1 .. Len(rs), rs[j].artifact = o PROVE FALSE
  OBVIOUS
<1>2. rs[j].kind = "offer"
  BY <1>1, NoOfferIsTransfer DEF Typed, CanonicalRecord
<1>3. PICK k \in 1 .. Len(ls) : ls[k].offer = o
  BY <1>1, <1>2 DEF OffersListed
<1>4. o # None
  BY NoneIsNoOffer
<1>5. o = OfferFor(k, ls[k])
  BY <1>3, <1>4
<1>6. o.hashLock = k /\ o.hashLock = i
  <2>1. OfferFor(k, ls[k]).hashLock = k /\ OfferFor(i, ls[i]).hashLock = i
    BY DEF OfferFor
  <2>. QED  BY <1>5, <2>1
<1>. QED  BY <1>3, <1>4, <1>6

\* A first offer is the only artifact that its row adds.
LEMMA StoredOffer ==
  ASSUME NEW ls, NEW ms, Len(ms) = Len(ls), NEW rows, NEW i \in 1 .. Len(ls), NEW o,
         ls[i].offer = None, ms[i].offer = o,
         \A k \in 1 .. Len(ls) : k # i => ms[k].offer = ls[k].offer
  PROVE  \A a : a # o => (a \in Stored(ls, rows) <=> a \in Stored(ms, rows))
<1>1. SUFFICES ASSUME NEW a, a # o, a # None
               PROVE  a \in {ls[k].offer : k \in 1 .. Len(ls)} <=>
                      a \in {ms[k].offer : k \in 1 .. Len(ms)}
  BY DEF Stored
<1>. QED  BY <1>1

LEMMA PublishOfferStep ==
  ASSUME MarketInv, NEW i \in Secret, PublishOffer(i)
  PROVE  MarketInv'
<1>1. PICK ls, l, o, row : /\ ls = reconciled /\ l = ls[i] /\ o = OfferFor(i, l)
                           /\ row = [l EXCEPT !.state = "offer_published", !.offer = o]
  OBVIOUS
<1>2. offerOf(i) = o
  BY <1>1 DEF offerOf, OfferFor
<1>3. /\ i <= Len(listings) /\ l.state = "reserved"
      /\ listings' = Updated(ls, i, row)
      /\ Publish("offer", o) /\ UNCHANGED <<transferRow, escrows>>
  BY <1>1, <1>2 DEF PublishOffer, Advance, Updated
<1>4. /\ i \in 1 .. Len(listings) /\ RowFits(i, l, escrows[i]) /\ l \in ListingRow
      /\ escrows \in [Secret -> EscrowState]
  BY <1>1, <1>3, WorkedRow
<1>5. Worked(ls) /\ Len(ls) = Len(listings)
  BY <1>1, Reconciled
<1>6. /\ RowsFit(ls, escrows) /\ OffersListed(publications, ls)
      /\ Stored(ls, transferRow) = artifacts /\ Len(ls) \in Nat
      /\ i \in 1 .. Len(ls) /\ ChainFits
  BY <1>4, <1>5 DEF Worked, RowsFit, MarketInv
<1>7. /\ l.buyer # None /\ l.offer = None /\ escrows[i] = "none"
      /\ l.sequence \in Sequence \ {0}
  BY <1>3, <1>4 DEF RowFits
<1>8. o \in SettlementOffer
  <2>1. /\ l.stamp \in Commitment /\ l.seller \in Address /\ l.buyer \in Address
        /\ l.price \in Price
    BY <1>4, <1>7, OwnershipAssumption DEF ListingRow
  <2>. QED  BY <1>1, <1>7, <2>1 DEF OfferFor, SettlementOffer
<1>9. /\ row.stamp = l.stamp /\ row.sequence = l.sequence /\ row.seller = l.seller
      /\ row.offer = o /\ row.buyer = l.buyer /\ row.state = "offer_published"
      /\ row.transfer = l.transfer /\ row.price = l.price
  BY <1>1, <1>4 DEF ListingRow
<1>10. row \in ListingRow
  <2>1. "offer_published" \in ListingState
    BY DEF ListingState
  <2>. QED  BY <1>1, <1>4, <1>8, <2>1 DEF ListingRow
<1>11. RowFits(i, row, escrows[i])
  <2>1. OfferFor(i, row) = o
    BY <1>1, <1>9 DEF OfferFor
  <2>2. o # None
    BY <1>8, NoneIsNoOffer
  <2>. QED  BY <1>7, <1>9, <1>10, <2>1, <2>2 DEF RowFits
<1>12. ~ Won(row, escrows[i]) /\ Open(l)
  BY <1>3, <1>9 DEF Won, Open
<1>13. PICK ms : ms = listings'
  OBVIOUS
<1>14. /\ RowsFit(ms, escrows) /\ Len(ms) = Len(ls) /\ ms[i] = row
       /\ \A j \in 1 .. Len(ls) : j # i => ms[j] = ls[j]
  <2>1. Changes(ls, escrows, i, row, escrows)
    BY <1>1, <1>4, <1>9, <1>11, <1>12 DEF Changes
  <2>2. ms = Updated(ls, i, row) /\ i \in 1 .. Len(ls) /\ RowsFit(ls, escrows)
    BY <1>3, <1>6, <1>13
  <2>. QED  BY <2>1, <2>2, RowChanged
<1>15. /\ height' = height + 1 /\ Continues(publications, publications', height')
       /\ Len(publications') = Len(publications) + 1
       /\ publications'[Len(publications) + 1].artifact = o
  BY <1>3, <1>6, <1>8, PublishesOn
<1>16. Typed(publications) /\ height' \in Nat
  BY <1>6, <1>15, FitsOlder DEF ChainFits
<1>17. \A j \in 1 .. Len(publications) : publications[j].artifact # o
  <2>1. \A k \in 1 .. Len(ls) : ls[k].offer # None => ls[k].offer = OfferFor(k, ls[k])
    BY <1>6 DEF RowsFit, RowFits
  <2>2. ls[i].offer = None /\ o = OfferFor(i, ls[i])
    BY <1>1, <1>7
  <2>. QED  BY <1>6, <1>8, <1>16, <2>1, <2>2, NewOffer
<1>18. OffersListed(publications', ms)
  <2>1. \A k \in 1 .. Len(ls) : ls[k].offer \in {None, ms[k].offer}
    BY <1>1, <1>7, <1>14
  <2>2. publications'[Len(publications) + 1].kind = "offer" =>
          \E k \in 1 .. Len(ls) : ms[k].offer = publications'[Len(publications) + 1].artifact
    BY <1>6, <1>9, <1>14, <1>15
  <2>3. Ages(publications, publications')
    BY <1>15 DEF Continues
  <2>. QED  BY <1>6, <1>14, <1>15, <1>16, <2>1, <2>2, <2>3, OffersGrow
<1>19. \A a : a # o => (a \in artifacts <=> a \in artifacts')
  <2>1. artifacts' = Stored(ms, transferRow)
    BY <1>3, <1>13 DEF artifacts, Stored
  <2>2. /\ ls[i].offer = None /\ ms[i].offer = o
        /\ \A k \in 1 .. Len(ls) : k # i => ms[k].offer = ls[k].offer
    BY <1>1, <1>7, <1>9, <1>14
  <2>3. \A a : a # o => (a \in Stored(ls, transferRow) <=> a \in Stored(ms, transferRow))
    BY <1>6, <1>14, <2>2, StoredOffer
  <2>. QED  BY <1>6, <2>1, <2>3
<1>20. ASSUME NEW j \in 1 .. Len(ls)
       PROVE  /\ Follows(ls[j], escrows[j], ms[j], escrows[j], publications)
              /\ Untouched(ls[j], escrows[j], publications, artifacts, artifacts')
  <2>1. Untouched(ls[j], escrows[j], publications, artifacts, artifacts')
    BY <1>17, <1>19 DEF Untouched
  <2>2. CASE j = i
    <3>1. \A k \in 1 .. Len(publications) : publications[k].artifact # row.offer
      BY <1>9, <1>17
    <3>2. Follows(l, escrows[i], row, escrows[i], publications)
      BY <1>9, <1>12, <3>1 DEF Follows
    <3>3. ls[j] = l /\ ms[j] = row
      BY <1>1, <1>14, <2>2
    <3>. QED  BY <2>1, <2>2, <3>2, <3>3
  <2>3. CASE j # i
    BY <1>14, <2>1, <2>3 DEF Follows
  <2>. QED  BY <2>2, <2>3
<1>21. \A j \in 1 .. Len(ls) :
         /\ Follows(ls[j], escrows[j], listings'[j], escrows'[j], publications)
         /\ Untouched(ls[j], escrows[j], publications, artifacts, artifacts')
  BY <1>3, <1>13, <1>20
<1>22. /\ \A j \in Len(ls) + 1 .. Len(listings') :
            Held(listings'[j], escrows'[j], ownershipNow'[listings'[j].stamp], publications')
       /\ Len(ls) <= Len(listings')
  BY <1>6, <1>13, <1>14
<1>23. StoreFits(transferRow') /\ RowsFit(listings', escrows')
  BY <1>3, <1>13, <1>14 DEF MarketInv
<1>24. OffersListed(publications', listings')
  BY <1>13, <1>18
<1>. QED  BY <1>5, <1>15, <1>16, <1>21, <1>22, <1>23, <1>24, Preserved

\* Storing an authorization changes the artifacts of its sequence only.
LEMMA StoreTransfer ==
  ASSUME NEW rows, StoreFits(rows), NEW c \in Issued, NEW n \in Sequence,
         NEW auth \in TransferAuthorization, auth.stamp = c, auth.sequence = n,
         NEW more, more = Updated(rows, <<c, n>>, auth), NEW ls
  PROVE  /\ StoreFits(more)
         /\ \A a : \/ a \in Stored(ls, rows) <=> a \in Stored(ls, more)
                   \/ a.stamp = c /\ a.sequence = n
<1>1. rows \in [Issued \X Sequence -> TransferAuthorization \cup {None}]
  BY DEF StoreFits
<1>2. /\ more \in [Issued \X Sequence -> TransferAuthorization \cup {None}]
      /\ more[<<c, n>>] = auth
      /\ \A key \in Issued \X Sequence : key # <<c, n>> => more[key] = rows[key]
  BY <1>1 DEF Updated
<1>3. StoreFits(more)
  <2>1. ASSUME NEW d \in Issued, NEW m \in Sequence, more[<<d, m>>] # None
        PROVE  more[<<d, m>>].stamp = d /\ more[<<d, m>>].sequence = m
    <3>1. CASE d = c /\ m = n
      BY <1>2, <3>1
    <3>2. CASE ~ (d = c /\ m = n)
      <4>1. more[<<d, m>>] = rows[<<d, m>>]
        BY <1>2, <3>2
      <4>. QED  BY <2>1, <4>1 DEF StoreFits
    <3>. QED  BY <3>1, <3>2
  <2>. QED  BY <1>2, <2>1 DEF StoreFits
<1>4. ASSUME NEW a, a # None, ~ (a.stamp = c /\ a.sequence = n)
      PROVE  a \in {rows[key] : key \in DOMAIN rows} <=> a \in {more[key] : key \in DOMAIN more}
  <2>1. DOMAIN rows = Issued \X Sequence /\ DOMAIN more = Issued \X Sequence
    BY <1>1, <1>2
  <2>2. a # more[<<c, n>>] /\ a # rows[<<c, n>>]
    BY <1>2, <1>4 DEF StoreFits
  <2>3. ASSUME NEW key \in Issued \X Sequence PROVE rows[key] = a <=> more[key] = a
    BY <1>2, <2>2
  <2>. QED  BY <2>1, <2>3
<1>5. ASSUME NEW a, ~ (a.stamp = c /\ a.sequence = n)
      PROVE  a \in Stored(ls, rows) <=> a \in Stored(ls, more)
  BY <1>4, <1>5 DEF Stored
<1>. QED  BY <1>3, <1>5

\* A row does not rest on artifacts of a sequence that it does not reach back to.
LEMMA FarUntouched ==
  ASSUME NEW rs, NEW h, Fits(rs, h), NEW c, NEW n \in Nat, NEW av, NEW bv,
         \A a : (a \in av <=> a \in bv) \/ (a.stamp = c /\ a.sequence = n),
         NEW l, NEW escrow, l.sequence \in Nat,
         l.stamp = c => l.sequence <= n /\ (Won(l, escrow) => l.sequence < n)
  PROVE  Untouched(l, escrow, rs, av, bv)
<1>1. SUFFICES ASSUME NEW j \in 1 .. Len(rs), rs[j].stamp = l.stamp,
                      \/ rs[j].sequence < l.sequence
                      \/ Won(l, escrow) /\ rs[j].sequence = l.sequence
               PROVE  rs[j].artifact \in av <=> rs[j].artifact \in bv
  BY DEF Untouched
<1>2. rs[j].stamp = rs[j].artifact.stamp /\ rs[j].sequence = rs[j].artifact.sequence
  BY DEF Fits
<1>3. rs[j].stamp = c => rs[j].sequence # n
  BY <1>1
<1>. QED  BY <1>2, <1>3

\* Publishing an authorization, at a sequence no listing of the stamp reaches beyond
\* and no delivered one reaches.
LEMMA TransferStep ==
  ASSUME MarketInv, NEW ls, Worked(ls),
         NEW c \in Issued, NEW n \in Sequence,
         NEW auth \in TransferAuthorization, auth.stamp = c, auth.sequence = n,
         Publish("transfer", auth), UNCHANGED escrows,
         transferRow' = Updated(transferRow, <<c, n>>, auth),
         NEW ms, listings' = ms, RowsFit(ms, escrows), Len(ms) = Len(ls),
         \A i \in 1 .. Len(ls) :
           /\ Follows(ls[i], escrows[i], ms[i], escrows[i], publications)
           /\ ms[i].offer = ls[i].offer
           /\ ls[i].stamp = c =>
                ls[i].sequence <= n /\ (Won(ls[i], escrows[i]) => ls[i].sequence < n)
  PROVE  MarketInv'
<1>1. /\ RowsFit(ls, escrows) /\ OffersListed(publications, ls)
      /\ Stored(ls, transferRow) = artifacts /\ Len(ls) \in Nat
      /\ ChainFits /\ StoreFits(transferRow) /\ n \in Nat
  BY OwnershipAssumption DEF Worked, RowsFit, MarketInv, Sequence
<1>2. /\ height' = height + 1 /\ Continues(publications, publications', height')
      /\ Len(publications') = Len(publications) + 1
      /\ publications'[Len(publications) + 1].kind = "transfer"
  BY <1>1, PublishesOn
<1>3. Typed(publications) /\ height' \in Nat
  BY <1>1, <1>2, FitsOlder DEF ChainFits
<1>4. OffersListed(publications', ms)
  <2>1. \A k \in 1 .. Len(ls) : ls[k].offer \in {None, ms[k].offer}
    OBVIOUS
  <2>2. publications'[Len(publications) + 1].kind = "offer" =>
          \E k \in 1 .. Len(ls) : ms[k].offer = publications'[Len(publications) + 1].artifact
    BY <1>2
  <2>3. Ages(publications, publications')
    BY <1>2 DEF Continues
  <2>. QED  BY <1>1, <1>2, <1>3, <2>1, <2>2, <2>3, OffersGrow
<1>5. PICK more : more = transferRow'
  OBVIOUS
<1>6. /\ StoreFits(more)
      /\ \A a : \/ a \in Stored(ls, transferRow) <=> a \in Stored(ls, more)
                \/ a.stamp = c /\ a.sequence = n
  <2>1. more = Updated(transferRow, <<c, n>>, auth)
    BY <1>5
  <2>. QED  BY <1>1, <2>1, StoreTransfer
<1>7. \A a : (a \in artifacts <=> a \in artifacts') \/ (a.stamp = c /\ a.sequence = n)
  <2>1. artifacts' = Stored(ms, more)
    BY <1>5 DEF artifacts, Stored
  <2>2. Stored(ms, more) = Stored(ls, more)
    BY SameStored
  <2>. QED  BY <1>1, <1>6, <2>1, <2>2
<1>8. PICK av, bv : av = artifacts /\ bv = artifacts'
  OBVIOUS
<1>9. ASSUME NEW j \in 1 .. Len(ls)
      PROVE  Untouched(ls[j], escrows[j], publications, av, bv)
  <2>1. \A a : (a \in av <=> a \in bv) \/ (a.stamp = c /\ a.sequence = n)
    BY <1>7, <1>8
  <2>2. ls[j].sequence \in Nat
    <3>1. RowFits(j, ls[j], escrows[j])
      BY <1>1 DEF RowsFit
    <3>. QED  BY <3>1, OwnershipAssumption DEF RowFits, Sequence
  <2>3. ls[j].stamp = c => ls[j].sequence <= n /\ (Won(ls[j], escrows[j]) => ls[j].sequence < n)
    OBVIOUS
  <2>4. Fits(publications, height)
    BY <1>1 DEF ChainFits
  <2>. QED  BY <1>1, <2>1, <2>2, <2>3, <2>4, FarUntouched, ZenonT(40)
<1>10. \A j \in 1 .. Len(ls) :
         /\ Follows(ls[j], escrows[j], listings'[j], escrows'[j], publications)
         /\ Untouched(ls[j], escrows[j], publications, artifacts, artifacts')
  BY <1>8, <1>9
<1>11. /\ \A j \in Len(ls) + 1 .. Len(listings') :
            Held(listings'[j], escrows'[j], ownershipNow'[listings'[j].stamp], publications')
       /\ Len(ls) <= Len(listings')
  BY <1>1
<1>12. StoreFits(transferRow') /\ RowsFit(listings', escrows')
  BY <1>5, <1>6
<1>. QED  BY <1>2, <1>3, <1>4, <1>10, <1>11, <1>12, Preserved

LEMMA PublishTransferStep ==
  ASSUME MarketInv, NEW i \in Secret, PublishTransfer(i)
  PROVE  MarketInv'
<1>1. PICK ls, l, auth, row : /\ ls = reconciled /\ l = ls[i] /\ auth = l.transfer
                              /\ row = [l EXCEPT !.state = "transfer_published"]
  OBVIOUS
<1>2. /\ i <= Len(listings) /\ l.state = "payment_locked"
      /\ listings' = Updated(ls, i, row)
      /\ Publish("transfer", auth) /\ UNCHANGED escrows
      /\ transferRow' = Updated(transferRow, <<auth.stamp, auth.sequence>>, auth)
  BY <1>1 DEF PublishTransfer, Advance, Updated
<1>3. /\ i \in 1 .. Len(listings) /\ RowFits(i, l, escrows[i]) /\ l \in ListingRow
      /\ escrows \in [Secret -> EscrowState]
  BY <1>1, <1>2, WorkedRow
<1>4. Worked(ls) /\ Len(ls) = Len(listings)
  BY <1>1, Reconciled
<1>5. RowsFit(ls, escrows) /\ Len(ls) \in Nat /\ i \in 1 .. Len(ls)
  BY <1>3, <1>4 DEF Worked, RowsFit
<1>6. /\ l.buyer # None /\ l.offer # None /\ l.offer = OfferFor(i, l)
      /\ auth = TransferFor(i, l) /\ l.sequence \in Sequence \ {0}
  BY <1>1, <1>2, <1>3 DEF RowFits
<1>7. PICK c \in Issued, n \in Sequence : c = l.stamp /\ n = l.sequence
  BY <1>3, <1>6 DEF ListingRow
<1>8. auth \in TransferAuthorization /\ auth.stamp = c /\ auth.sequence = n
  <2>1. /\ l.stamp \in Commitment /\ l.seller \in Address /\ l.buyer \in Address
        /\ l.offer \in SettlementOffer \cup {None}
    BY <1>3, <1>6, OwnershipAssumption DEF ListingRow
  <2>. QED  BY <1>6, <1>7, <2>1 DEF TransferFor, TransferAuthorization
<1>9. /\ row \in ListingRow /\ row.state = "transfer_published" /\ SameTerms(l, row)
      /\ row.transfer = l.transfer
      /\ OfferFor(i, row) = OfferFor(i, l) /\ TransferFor(i, row) = TransferFor(i, l)
  <2>1. "transfer_published" \in ListingState
    BY DEF ListingState
  <2>. QED  BY <1>1, <1>3, <2>1, StateOnly
<1>10. /\ row.stamp = l.stamp /\ row.sequence = l.sequence /\ row.seller = l.seller
       /\ row.offer = l.offer /\ row.buyer = l.buyer
  BY <1>9 DEF SameTerms
<1>11. RowFits(i, row, escrows[i])
  BY <1>2, <1>3, <1>9, <1>10 DEF RowFits
<1>12. ~ Won(row, escrows[i]) /\ ~ Won(l, escrows[i]) /\ Open(l)
  BY <1>2, <1>9 DEF Won, Open
<1>13. PICK ms : ms = listings'
  OBVIOUS
<1>14. /\ RowsFit(ms, escrows) /\ Len(ms) = Len(ls) /\ ms[i] = row
       /\ \A j \in 1 .. Len(ls) : j # i => ms[j] = ls[j]
  <2>1. Changes(ls, escrows, i, row, escrows)
    BY <1>1, <1>3, <1>10, <1>11, <1>12 DEF Changes
  <2>2. ms = Updated(ls, i, row) /\ i \in 1 .. Len(ls) /\ RowsFit(ls, escrows)
    BY <1>2, <1>5, <1>13
  <2>. QED  BY <2>1, <2>2, RowChanged
<1>15. ASSUME NEW j \in 1 .. Len(ls)
       PROVE  /\ Follows(ls[j], escrows[j], ms[j], escrows[j], publications)
              /\ ms[j].offer = ls[j].offer
              /\ ls[j].stamp = c =>
                   ls[j].sequence <= n /\ (Won(ls[j], escrows[j]) => ls[j].sequence < n)
  <2>1. CASE j = i
    <3>1. ls[j] = l /\ ms[j] = row
      BY <1>1, <1>14, <2>1
    <3>2. Follows(l, escrows[i], row, escrows[i], publications)
      BY <1>10, <1>12 DEF Follows
    <3>3. n <= n
      BY OwnershipAssumption DEF Sequence
    <3>. QED  BY <1>7, <1>10, <1>12, <2>1, <3>1, <3>2, <3>3
  <2>2. CASE j # i
    <3>1. ms[j] = ls[j]
      BY <1>14, <2>2
    <3>2. Follows(ls[j], escrows[j], ls[j], escrows[j], publications)
      BY DEF Follows
    <3>3. ASSUME ls[j].stamp = c
          PROVE  ls[j].sequence <= n /\ (Won(ls[j], escrows[j]) => ls[j].sequence < n)
      <4>1. InOrder(ls, escrows) /\ ls[i].stamp = ls[j].stamp /\ Open(ls[i]) /\ ls[i].sequence = n
        BY <1>1, <1>5, <1>7, <1>12, <3>3 DEF RowsFit
      <4>2. j < i
        <5>1. ~ (i < j)
          BY <1>5, <4>1 DEF InOrder
        <5>. QED  BY <1>5, <2>2, <5>1
      <4>. QED  BY <1>5, <4>1, <4>2 DEF InOrder
    <3>. QED  BY <3>1, <3>2, <3>3
  <2>. QED  BY <2>1, <2>2
<1>16. transferRow' = Updated(transferRow, <<c, n>>, auth) /\ listings' = ms
  BY <1>2, <1>8, <1>13
<1>. QED  BY <1>2, <1>4, <1>8, <1>14, <1>15, <1>16, TransferStep

\* No listing of a stamp reaches beyond the next sequence of the stamp, and what
\* was delivered lies below it.
LEMMA ReachesNext ==
  ASSUME MarketInv, NEW ls, Worked(ls), NEW j \in 1 .. Len(ls), NEW c, ls[j].stamp = c
  PROVE  LET n == ownershipNow[c].sequence + 1
         IN  ls[j].sequence <= n /\ (Won(ls[j], escrows[j]) => ls[j].sequence < n)
<1>1. RowFits(j, ls[j], escrows[j])
  BY DEF Worked, RowsFit
<1>2. c \in Issued /\ ls[j].sequence \in Nat
  BY <1>1, OwnershipAssumption DEF RowFits, ListingRow, Sequence
<1>3. PICK s \in StampOwnership : s = ownershipNow[c] /\ Contiguous(s)
  BY <1>2, IndexSound DEF StampInv
<1>4. PICK h \in Nat : h = Len(s.history) /\ s.sequence = h
  BY <1>3 DEF Contiguous, StampOwnership
<1>5. Held(ls[j], escrows[j], s, publications)
  BY <1>3 DEF Worked, AllHeld
<1>6. /\ ls[j].sequence # 1 => ls[j].sequence - 1 \in 1 .. h
      /\ Won(ls[j], escrows[j]) => ls[j].sequence \in 1 .. h
  BY <1>4, <1>5 DEF Held
<1>7. ls[j].sequence <= h + 1 /\ (Won(ls[j], escrows[j]) => ls[j].sequence < h + 1)
  BY <1>2, <1>6
<1>. QED  BY <1>3, <1>4, <1>7

LEMMA SubmitTransferStep ==
  ASSUME MarketInv, NEW c \in Issued, NEW to \in Address, SubmitTransfer(c, to)
  PROVE  MarketInv'
<1>1. PICK s \in StampOwnership : s = ownershipNow[c]
  BY IndexSound
<1>2. PICK auth, n :
        /\ n = s.sequence + 1
        /\ auth = [stamp |-> c, sequence |-> n, from |-> s.currentOwner, to |-> to,
                   offer |-> None, preimage |-> None, signed |-> TRUE]
  OBVIOUS
<1>3. /\ auth.sequence \in Sequence /\ Publish("transfer", auth)
      /\ transferRow' = Updated(transferRow, <<c, auth.sequence>>, auth)
      /\ listings' = listings /\ UNCHANGED escrows
  BY <1>1, <1>2 DEF SubmitTransfer, Updated
<1>4. n \in Sequence /\ auth.stamp = c /\ auth.sequence = n
  BY <1>2, <1>3
<1>5. auth \in TransferAuthorization
  <2>1. c \in Commitment /\ s.currentOwner \in Address
    BY OwnershipAssumption DEF StampOwnership
  <2>. QED  BY <1>2, <1>4, <2>1 DEF TransferAuthorization
<1>6. PICK ls : ls = listings
  OBVIOUS
<1>7. Worked(ls) /\ RowsFit(ls, escrows)
  BY <1>6, ListingsWorked DEF Worked
<1>8. ASSUME NEW j \in 1 .. Len(ls)
      PROVE  /\ Follows(ls[j], escrows[j], ls[j], escrows[j], publications)
             /\ ls[j].offer = ls[j].offer
             /\ ls[j].stamp = c =>
                  ls[j].sequence <= n /\ (Won(ls[j], escrows[j]) => ls[j].sequence < n)
  <2>1. Follows(ls[j], escrows[j], ls[j], escrows[j], publications)
    BY DEF Follows
  <2>2. ASSUME ls[j].stamp = c
        PROVE  ls[j].sequence <= n /\ (Won(ls[j], escrows[j]) => ls[j].sequence < n)
    BY <1>1, <1>2, <1>7, <2>2, ReachesNext
  <2>. QED  BY <2>1, <2>2
<1>9. transferRow' = Updated(transferRow, <<c, n>>, auth) /\ listings' = ls
  BY <1>3, <1>4, <1>6
<1>. QED  BY <1>3, <1>4, <1>5, <1>7, <1>8, <1>9, TransferStep

\* The row of a new listing fits, and is held by what the index says now.
LEMMA NewRow ==
  ASSUME NEW c \in Issued, NEW s \in StampOwnership, StampInv(c, s), NEW price \in Price,
         s.sequence + 1 \in Sequence, NEW k, NEW rs, NEW row,
         row = [stamp |-> c, sequence |-> s.sequence + 1, state |-> "listed",
                seller |-> s.currentOwner, buyer |-> None, price |-> price,
                offer |-> None, transfer |-> None, expiry |-> None]
  PROVE  RowFits(k, row, "none") /\ Held(row, "none", s, rs)
<1>1. PICK h \in Nat : h = Len(s.history) /\ s.sequence = h
  BY DEF StampInv, Contiguous, StampOwnership
<1>2. /\ row.stamp = c /\ row.sequence = h + 1 /\ row.state = "listed"
      /\ row.seller = s.currentOwner /\ row.buyer = None /\ row.offer = None
  BY <1>1
<1>3. h + 1 \in Sequence \ {0} /\ h + 1 \in Nat
  BY <1>1
<1>4. row \in ListingRow
  <2>1. "listed" \in ListingState /\ s.currentOwner \in Address
    BY DEF ListingState, StampOwnership
  <2>. QED  BY <1>1, <1>3, <2>1 DEF ListingRow
<1>5. RowFits(k, row, "none")
  BY <1>2, <1>3, <1>4 DEF RowFits
<1>6. h = 0 => row.seller = OriginalRecipient[c]
  <2>1. h = 0 => s.history = << >>
    BY <1>1 DEF StampOwnership
  <2>. QED  BY <1>2, <2>1 DEF StampInv, CustodyOf
<1>7. h # 0 => h \in 1 .. Len(s.history) /\ s.history[h].to = row.seller
  <2>1. h # 0 => s.history # << >>
    BY <1>1
  <2>. QED  BY <1>1, <1>2, <2>1 DEF StampInv, CustodyOf
<1>8. ~ Won(row, "none")
  BY <1>2 DEF Won
<1>9. (h + 1 = 1 <=> h = 0) /\ h + 1 - 1 = h
  OBVIOUS
<1>10. Held(row, "none", s, rs)
  BY <1>2, <1>6, <1>7, <1>8, <1>9 DEF Held
<1>. QED  BY <1>5, <1>10

LEMMA ListStep ==
  ASSUME MarketInv, NEW c \in Issued, NEW price \in Price, List(c, price)
  PROVE  MarketInv'
<1>1. PICK s \in StampOwnership : s = ownershipNow[c] /\ StampInv(c, s)
  BY IndexSound
<1>2. PICK ls, n, row :
        /\ ls = reconciled /\ n = s.sequence + 1
        /\ row = [stamp |-> c, sequence |-> s.sequence + 1, state |-> "listed",
                  seller |-> s.currentOwner, buyer |-> None, price |-> price,
                  offer |-> None, transfer |-> None, expiry |-> None]
  OBVIOUS
<1>3. /\ Len(listings) < MaxListings /\ n \in Sequence
      /\ noLiveListing(ls, c) /\ listings' = Append(ls, row)
      /\ publications' = ticked(publications)
      /\ UNCHANGED <<height, transferRow, escrows>>
  BY <1>1, <1>2 DEF List
<1>4. Worked(ls) /\ Len(ls) = Len(listings)
  BY <1>2, Reconciled
<1>5. /\ RowsFit(ls, escrows) /\ OffersListed(publications, ls)
      /\ Stored(ls, transferRow) = artifacts
  BY <1>4 DEF Worked
<1>6. PICK k \in Nat : k = Len(ls) + 1 /\ Len(ls) \in Nat
  BY <1>5 DEF RowsFit
<1>7. /\ ls \in Seq(ListingRow) /\ k \in Secret /\ k <= MaxListings
      /\ escrows \in [Secret -> EscrowState] /\ escrows[k] = "none"
  <2>1. k <= MaxListings
    BY <1>3, <1>4, <1>6, MarketAssumption
  <2>2. k \in Secret
    BY <1>6, <2>1, MarketAssumption
  <2>3. ~ (k <= Len(ls))
    BY <1>6
  <2>. QED  BY <1>5, <2>1, <2>2, <2>3 DEF RowsFit
<1>8. RowFits(k, row, "none") /\ Held(row, "none", s, publications) /\ row \in ListingRow
  BY <1>1, <1>2, <1>3, NewRow DEF RowFits
<1>9. /\ row.stamp = c /\ row.sequence = n /\ row.offer = None /\ row.state = "listed"
  BY <1>2
<1>10. PICK ms : ms = listings'
  OBVIOUS
<1>11. /\ ms \in Seq(ListingRow) /\ Len(ms) = k /\ ms[k] = row
       /\ \A j \in 1 .. Len(ls) : ms[j] = ls[j]
       /\ \A j \in 1 .. Len(ms) : j \in 1 .. Len(ls) \/ j = k
  BY <1>3, <1>6, <1>7, <1>8, <1>10
<1>12. InOrder(ms, escrows)
  <2>1. ASSUME NEW i \in 1 .. Len(ms), NEW j \in 1 .. Len(ms), i < j,
               ms[i].stamp = ms[j].stamp
        PROVE  /\ ~ Open(ms[i]) /\ ms[i].sequence <= ms[j].sequence
               /\ Won(ms[i], escrows[i]) => ms[i].sequence < ms[j].sequence
    <3>1. i \in 1 .. Len(ls) /\ ms[i] = ls[i]
      BY <1>6, <1>11, <2>1
    <3>2. CASE j \in 1 .. Len(ls)
      <4>1. ms[j] = ls[j]
        BY <1>11, <3>2
      <4>. QED  BY <1>5, <2>1, <3>1, <3>2, <4>1 DEF RowsFit, InOrder
    <3>3. CASE j = k
      <4>1. ls[i].stamp = c /\ ms[j] = row
        BY <1>9, <1>11, <2>1, <3>1, <3>3
      <4>2. ~ Open(ls[i])
        BY <1>3, <3>1, <4>1 DEF noLiveListing, isLive, Open
      <4>3. ls[i].sequence <= n /\ (Won(ls[i], escrows[i]) => ls[i].sequence < n)
        BY <1>1, <1>2, <1>4, <3>1, <4>1, ReachesNext
      <4>. QED  BY <1>9, <3>1, <4>1, <4>2, <4>3
    <3>. QED  BY <1>11, <3>2, <3>3
  <2>. QED  BY <2>1 DEF InOrder
<1>13. RowsFit(ms, escrows)
  <2>1. \A j \in 1 .. Len(ms) : RowFits(j, ms[j], escrows[j])
    BY <1>5, <1>7, <1>8, <1>11 DEF RowsFit
  <2>2. \A j \in Secret : escrows[j] # "none" => j <= Len(ms)
    <3>1. SUFFICES ASSUME NEW j \in Secret, escrows[j] # "none" PROVE j <= Len(ms)
      OBVIOUS
    <3>2. j <= Len(ls)
      BY <1>5, <3>1 DEF RowsFit
    <3>3. j \in Nat /\ Len(ms) = Len(ls) + 1
      BY <1>6, <1>11, MarketAssumption
    <3>. QED  BY <1>6, <3>2, <3>3
  <2>. QED  BY <1>7, <1>11, <1>12, <2>1, <2>2 DEF RowsFit
<1>14. /\ height' = height /\ height \in Nat /\ Continues(publications, publications', height')
       /\ Ages(publications, publications') /\ Len(publications') = Len(publications)
  <2>1. ChainFits /\ height \in Nat /\ height \in {height, height + 1}
    BY DEF MarketInv, ChainFits
  <2>2. /\ Continues(publications, ticked(publications), height)
        /\ Len(ticked(publications)) = Len(publications)
    BY <2>1, TicksOn
  <2>. QED  BY <1>3, <2>1, <2>2 DEF Continues
<1>15. OffersListed(publications', ms)
  <2>1. Len(ls) <= Len(ms) /\ \A j \in 1 .. Len(ls) : ms[j].offer = ls[j].offer
    BY <1>6, <1>11
  <2>. QED  BY <1>5, <1>6, <1>11, <1>14, <2>1, OffersStay
<1>16. artifacts' = artifacts
  <2>1. artifacts' = Stored(ms, transferRow)
    BY <1>3, <1>10 DEF artifacts, Stored
  <2>2. {ms[j].offer : j \in 1 .. Len(ms)} \ {None} = {ls[j].offer : j \in 1 .. Len(ls)} \ {None}
    <3>1. ASSUME NEW a, a # None
          PROVE  (\E j \in 1 .. Len(ms) : a = ms[j].offer) <=> (\E j \in 1 .. Len(ls) : a = ls[j].offer)
      <4>1. \A j \in 1 .. Len(ls) : j \in 1 .. Len(ms)
        BY <1>6, <1>11
      <4>2. \A j \in 1 .. Len(ms) : a = ms[j].offer => j \in 1 .. Len(ls)
        BY <1>9, <1>11, <3>1
      <4>. QED  BY <1>11, <4>1, <4>2
    <3>. QED  BY <3>1
  <2>3. Stored(ms, transferRow) = Stored(ls, transferRow)
    BY <2>2 DEF Stored
  <2>. QED  BY <1>5, <2>1, <2>3
<1>17. \A j \in 1 .. Len(ls) :
         /\ Follows(ls[j], escrows[j], listings'[j], escrows'[j], publications)
         /\ Untouched(ls[j], escrows[j], publications, artifacts, artifacts')
  <2>1. \A j \in 1 .. Len(ls) : Follows(ls[j], escrows[j], ms[j], escrows[j], publications)
    BY <1>11 DEF Follows
  <2>. QED  BY <1>3, <1>10, <1>16, <2>1, SameUntouched
<1>18. Held(row, "none", ownershipNow'[c], publications')
  <2>1. PICK av : av = artifacts
    OBVIOUS
  <2>2. /\ ownershipNow = resolveOwnership(publications, av)
        /\ ownershipNow' = resolveOwnership(publications', av)
    BY <1>16, <2>1 DEF ownershipNow
  <2>3. Older(publications)
    BY FitsOlder DEF MarketInv, ChainFits
  <2>4. row.stamp \in Issued /\ row.sequence \in Sequence \ {0}
    BY <1>8 DEF RowFits, ListingRow
  <2>5. Held(row, "none", resolveOwnership(publications, av)[row.stamp], publications)
    BY <1>1, <1>8, <1>9, <2>2
  <2>6. /\ Follows(row, "none", row, "none", publications)
        /\ Untouched(row, "none", publications, av, av)
    BY DEF Follows, Untouched
  <2>7. Held(row, "none", resolveOwnership(publications', av)[row.stamp], publications')
    BY <1>14, <2>3, <2>4, <2>5, <2>6, HeldOn
  <2>. QED  BY <1>9, <2>2, <2>7
<1>19. /\ \A j \in Len(ls) + 1 .. Len(listings') :
            Held(listings'[j], escrows'[j], ownershipNow'[listings'[j].stamp], publications')
       /\ Len(ls) <= Len(listings')
  <2>1. \A j \in Len(ls) + 1 .. Len(ms) : j = k
    BY <1>6, <1>11
  <2>2. Held(ms[k], escrows[k], ownershipNow'[ms[k].stamp], publications')
    BY <1>7, <1>9, <1>11, <1>18
  <2>. QED  BY <1>3, <1>6, <1>10, <1>11, <2>1, <2>2
<1>20. StoreFits(transferRow') /\ RowsFit(listings', escrows') /\ height' \in Nat
  BY <1>3, <1>10, <1>13, <1>14 DEF MarketInv
<1>21. OffersListed(publications', listings')
  BY <1>10, <1>15
<1>. QED  BY <1>4, <1>14, <1>17, <1>19, <1>20, <1>21, Preserved

\* The marketplace starts in the invariant, and every request keeps it.
LEMMA MarketInitially == MarketInit => MarketInv
<1>. SUFFICES ASSUME MarketInit PROVE MarketInv
  OBVIOUS
<1>1. /\ height = 100 /\ publications = << >> /\ listings = << >>
      /\ transferRow = [key \in Issued \X Sequence |-> None]
      /\ escrows = [i \in Secret |-> "none"]
  BY DEF MarketInit
<1>2. ChainFits
  BY <1>1 DEF ChainFits, Fits
<1>3. RowsFit(listings, escrows)
  BY <1>1, MarketAssumption DEF RowsFit, InOrder, EscrowState
<1>4. StoreFits(transferRow)
  BY <1>1 DEF StoreFits
<1>5. OffersListed(publications, listings) /\ AllHeld(listings, escrows, ownershipNow, publications)
  BY <1>1 DEF OffersListed, AllHeld
<1>. QED  BY <1>2, <1>3, <1>4, <1>5 DEF MarketInv

LEMMA MarketStep == MarketInv /\ [MarketNext]_marketVars => MarketInv'
<1>. SUFFICES ASSUME MarketInv, [MarketNext]_marketVars PROVE MarketInv'
  OBVIOUS
<1>1. CASE Reconcile
  BY <1>1, ReconcileStep
<1>2. CASE Tick \/ OtherBlock
  BY <1>2, TickStep
<1>3. CASE \E c \in Issued, price \in Price : List(c, price)
  BY <1>3, ListStep
<1>4. CASE \E c \in Issued, to \in Address : SubmitTransfer(c, to)
  BY <1>4, SubmitTransferStep
<1>5. CASE \E i \in Secret, buyer \in Address : Reserve(i, buyer)
  BY <1>5, ReserveStep
<1>6. ASSUME NEW i \in Secret,
             \/ Challenge(i) \/ PublishOffer(i) \/ Authorize(i) \/ LockPayment(i)
             \/ PublishTransfer(i) \/ ClaimPayment(i) \/ Cancel(i)
      PROVE  MarketInv'
  BY <1>6, ChallengeStep, PublishOfferStep, AuthorizeStep, LockPaymentStep,
     PublishTransferStep, ClaimPaymentStep, CancelStep
<1>7. CASE UNCHANGED marketVars
  BY <1>7, StutterStep
<1>. QED  BY <1>1, <1>2, <1>3, <1>4, <1>5, <1>6, <1>7 DEF MarketNext

\* The invariant holds in every state, whatever the requests and their order.
THEOREM MarketInductive == MarketSpec => []MarketInv
BY MarketInitially, MarketStep, PTL DEF MarketSpec

-----------------------------------------------------------------------------
(* What follows.                                                           *)

\* Rows, records and artifacts are always the protocol's, and no stamp has two live
\* listings at once (DemoSettlementAdapter.list, reconcileListings).
THEOREM ListingsStayInOrder == MarketSpec => []ListingsInOrder
<1>1. MarketInv => ListingsInOrder
  <2>. SUFFICES ASSUME MarketInv PROVE ListingsInOrder
    OBVIOUS
  <2>1. /\ height \in Nat /\ Fits(publications, height) /\ RowsFit(listings, escrows)
        /\ StoreFits(transferRow)
    BY DEF MarketInv, ChainFits
  <2>2. RowsTyped
    <3>1. \A j \in 1 .. Len(publications) : publications[j] \in CanonicalRecord
      BY <2>1 DEF Fits
    <3>2. \A i \in 1 .. Len(listings) : listings[i] \in ListingRow
      BY <2>1 DEF RowsFit
    <3>3. escrows \in [Secret -> {"none", "locked", "claimed"}]
      BY <2>1 DEF RowsFit, EscrowState
    <3>. QED  BY <2>1, <3>1, <3>2, <3>3 DEF RowsTyped, StoreFits
  <2>3. OneLiveListing
    <3>1. SUFFICES ASSUME NEW i \in 1 .. Len(listings), NEW j \in 1 .. Len(listings),
                          Open(listings[i]), Open(listings[j]),
                          listings[i].stamp = listings[j].stamp
                   PROVE  i = j
      BY DEF OneLiveListing
    <3>2. ~ (i < j) /\ ~ (j < i)
      BY <2>1, <3>1 DEF RowsFit, InOrder
    <3>. QED  BY <3>2
  <2>. QED  BY <2>2, <2>3 DEF ListingsInOrder
<1>. QED  BY <1>1, MarketInductive, PTL

\* What was seen to be delivered is so still.
LEMMA WonIsDelivered ==
  ASSUME MarketInv, NEW i \in 1 .. Len(listings), Won(listings[i], escrows[i])
  PROVE  WentToBuyer(ownershipNow[listings[i].stamp], listings[i])
<1>1. RowFits(i, listings[i], escrows[i])
  BY DEF MarketInv, RowsFit
<1>2. listings[i].stamp \in Issued
  BY <1>1 DEF RowFits, ListingRow
<1>3. PICK s : s = ownershipNow[listings[i].stamp] /\ Contiguous(s)
  BY <1>2, IndexSound DEF StampInv
<1>4. Held(listings[i], escrows[i], s, publications)
  BY <1>3 DEF MarketInv, AllHeld
<1>5. /\ listings[i].sequence \in 1 .. Len(s.history)
      /\ s.history[listings[i].sequence].to = listings[i].buyer
  BY <1>4 DEF Held
<1>6. s.history[listings[i].sequence].sequence = listings[i].sequence
  BY <1>3, <1>5 DEF Contiguous
<1>. QED  BY <1>3, <1>5, <1>6 DEF WentToBuyer

\* No payment is ever forgotten in escrow, and nothing is shown as settled that the
\* ledger has not given to the buyer (cancel, expiry, reconcileListings).
THEOREM MoneyIsKept == MarketSpec => []PaymentsAreKept
<1>1. MarketInv => PaymentsAreKept
  <2>. SUFFICES ASSUME MarketInv PROVE PaymentsAreKept
    OBVIOUS
  <2>1. ASSUME NEW i \in 1 .. Len(listings), escrows[i] = "locked"
        PROVE  \/ listings[i].state \in {"payment_locked", "transfer_published"}
               \/ WentToBuyer(ownershipNow[listings[i].stamp], listings[i])
    <3>1. RowFits(i, listings[i], escrows[i])
      BY DEF MarketInv, RowsFit
    <3>2. listings[i].state \in {"payment_locked", "transfer_published", "settled", "cancelled"}
      BY <2>1, <3>1 DEF RowFits
    <3>3. CASE listings[i].state \in {"settled", "cancelled"}
      <4>1. Won(listings[i], escrows[i])
        BY <2>1, <3>3 DEF Won
      <4>. QED  BY <4>1, WonIsDelivered
    <3>. QED  BY <3>2, <3>3
  <2>2. ASSUME NEW i \in 1 .. Len(listings), listings[i].state = "settled"
        PROVE  WentToBuyer(ownershipNow[listings[i].stamp], listings[i])
    <3>1. Won(listings[i], escrows[i])
      BY <2>2 DEF Won
    <3>. QED  BY <3>1, WonIsDelivered
  <2>. QED  BY <2>1, <2>2 DEF PaymentsAreKept, LockedIsOpenOrDelivered, SettledWasDelivered
<1>. QED  BY <1>1, MarketInductive, PTL

\* Chain qs with every record confirmed.
AllDeep(qs) == [j \in 1 .. Len(qs) |-> [qs[j] EXCEPT !.confirmations = MinConfirmations]]

\* Such a chain has the same records, none of them waiting.
LEMMA DeepRecords ==
  ASSUME NEW qs \in Seq(CanonicalRecord)
  PROVE  /\ Len(AllDeep(qs)) = Len(qs) /\ Typed(AllDeep(qs))
         /\ \A j \in 1 .. Len(qs) : Same(qs[j], AllDeep(qs)[j]) /\ ~ awaiting(AllDeep(qs)[j])
<1>. DEFINE deep(r) == [r EXCEPT !.confirmations = MinConfirmations]
<1>1. \A r \in CanonicalRecord :
        /\ deep(r) \in CanonicalRecord /\ Same(r, deep(r))
        /\ deep(r).confirmations = MinConfirmations
  BY OwnershipAssumption DEF CanonicalRecord, Same
<1>2. /\ Len(AllDeep(qs)) = Len(qs) /\ Len(qs) \in Nat
      /\ \A j \in 1 .. Len(qs) : AllDeep(qs)[j] = deep(qs[j]) /\ qs[j] \in CanonicalRecord
  BY DEF AllDeep
<1>. HIDE DEF deep
<1>3. \A j \in 1 .. Len(qs) : /\ AllDeep(qs)[j] \in CanonicalRecord
                              /\ Same(qs[j], AllDeep(qs)[j])
                              /\ AllDeep(qs)[j].confirmations = MinConfirmations
  BY <1>1, <1>2
<1>4. \A j \in 1 .. Len(qs) : ~ awaiting(AllDeep(qs)[j])
  BY <1>3, OwnershipAssumption DEF awaiting
<1>. QED  BY <1>2, <1>3, <1>4 DEF Typed

\* A replay of chain qs with every record confirmed delivers to the buyer of row l.
Delivers(qs, bv, l) ==
  LET s == resolveOwnership(AllDeep(qs), bv)[l.stamp]
  IN  l.sequence \in 1 .. Len(s.history) /\ s.history[l.sequence].to = l.buyer

\* The authorization of row l, somewhere on chain qs after its offer, delivers.
LEMMA AuthorizationDelivers ==
  ASSUME NEW rs, NEW h, Fits(rs, h), NEW av, NEW auth \in TransferAuthorization,
         NEW i \in Secret, NEW l, NEW escrow, RowFits(i, l, escrow), escrow # "none",
         l.offer \in av, auth = l.transfer,
         Held(l, escrow, resolveOwnership(rs, av)[l.stamp], rs),
         NEW j \in 1 .. Len(rs), rs[j].kind = "offer", rs[j].artifact = l.offer,
         \A k \in 1 .. j - 1 : ~ (rs[k].stamp = l.stamp /\ rs[k].sequence = l.sequence),
         NEW qs \in Seq(CanonicalRecord), Len(rs) <= Len(qs),
         \A k \in 1 .. Len(rs) : qs[k] = rs[k],
         NEW q \in j + 1 .. Len(qs), qs[q].kind = "transfer", qs[q].artifact = auth,
         qs[q].stamp = l.stamp, qs[q].sequence = l.sequence,
         qs[q].network = DestinationNetwork, qs[q].inBestChain
  PROVE  Delivers(qs, av \cup {auth}, l)
<1>1. /\ l \in ListingRow /\ l.sequence \in Sequence \ {0} /\ l.offer # None
      /\ l.offer = OfferFor(i, l) /\ auth = TransferFor(i, l)
  BY DEF RowFits
<1>2. PICK c \in Issued, n \in Sequence \ {0} : c = l.stamp /\ n = l.sequence
  BY <1>1 DEF ListingRow
<1>3. PICK offer \in SettlementOffer : offer = l.offer
  BY <1>1 DEF ListingRow
<1>4. /\ offer.stamp = c /\ offer.sequence = n /\ offer.signed /\ offer.seller = l.seller
      /\ offer.buyer = l.buyer /\ offer.hashLock = i
  BY <1>1, <1>2, <1>3 DEF OfferFor
<1>5. /\ auth.stamp = c /\ auth.sequence = n /\ auth.signed
      /\ auth.from = offer.seller /\ auth.to = offer.buyer
      /\ auth.offer = offer /\ auth.preimage = offer.hashLock
      /\ auth.preimage # None
  BY <1>1, <1>2, <1>3, <1>4, MarketAssumption DEF TransferFor
<1>6. Typed(rs) /\ Older(rs) /\ Len(rs) \in Nat
  BY FitsOlder DEF Typed
<1>7. PICK ds : ds = AllDeep(qs)
  OBVIOUS
<1>8. /\ Len(ds) = Len(qs) /\ Typed(ds)
      /\ \A k \in 1 .. Len(qs) : Same(qs[k], ds[k]) /\ ~ awaiting(ds[k])
  BY <1>7, DeepRecords
<1>9. PICK bv : bv = av \cup {auth}
  OBVIOUS
<1>10. Deepens(rs, ds, av, bv, auth)
  <2>1. \A k \in 1 .. Len(rs) : k \in 1 .. Len(qs)
    BY <1>6
  <2>2. \A k \in 1 .. Len(rs) : Same(rs[k], ds[k])
    BY <1>8, <2>1
  <2>3. \A k, m \in 1 .. Len(rs) : k < m => rs[k].place < rs[m].place
    BY DEF Fits
  <2>4. \A a : a # auth => (a \in av <=> a \in bv)
    BY <1>9
  <2>. QED  BY <1>6, <1>8, <1>9, <2>2, <2>3, <2>4 DEF Deepens
<1>11. PICK f : Replays(f, rs, av) /\ resolveOwnership(rs, av) = f[Len(rs)]
  BY <1>6, Resolved
<1>12. PICK g : Replays(g, ds, bv) /\ resolveOwnership(ds, bv) = g[Len(ds)]
  BY <1>8, Resolved
<1>13. PICK s : s = f[Len(rs)][c]
  OBVIOUS
<1>14. OffersFirst(rs, j, c, n, offer, s)
  <2>1. /\ rs[j].stamp = c /\ rs[j].sequence = n
        /\ rs[j].network = DestinationNetwork /\ rs[j].inBestChain
    BY <1>3, <1>4 DEF Fits
  <2>2. Held(l, escrow, s, rs)
    BY <1>2, <1>11, <1>13
  <2>3. n = 1 => offer.seller = OriginalRecipient[c]
    BY <1>2, <1>4, <2>2 DEF Held
  <2>4. n # 1 => /\ n - 1 \in 1 .. Len(s.history)
                 /\ s.history[n - 1].to = offer.seller
                 /\ s.history[n - 1].place < rs[j].place
    BY <1>1, <1>2, <1>4, <2>2 DEF Held
  <2>5. n # 1 => n - 1 <= Len(s.history)
    BY <2>4
  <2>. QED  BY <1>2, <1>3, <1>4, <2>1, <2>3, <2>4, <2>5 DEF OffersFirst
<1>15. \A k \in 1 .. Len(rs) : rs[k].artifact = auth => rs[k].stamp = c /\ rs[k].sequence = n
  BY <1>5 DEF Fits
<1>16. /\ q \in j + 1 .. Len(ds) /\ ds[q].kind = "transfer" /\ ds[q].artifact = auth
       /\ ds[q].stamp = c /\ ds[q].sequence = n
       /\ ds[q].network = DestinationNetwork /\ ds[q].inBestChain
  <2>1. q \in 1 .. Len(qs)
    BY <1>6
  <2>2. Same(qs[q], ds[q])
    BY <1>8, <2>1
  <2>. QED  BY <1>2, <1>8, <2>2 DEF Same
<1>17. offer \in bv
  BY <1>3, <1>9
<1>18. /\ n \in 1 .. Len(g[Len(ds)][c].history)
       /\ g[Len(ds)][c].history[n].to = offer.buyer
  BY <1>5, <1>10, <1>11, <1>12, <1>13, <1>14, <1>15, <1>16, <1>17, FirstIsDelivered
<1>. QED  BY <1>2, <1>4, <1>7, <1>9, <1>12, <1>18 DEF Delivers

\* A payment is only locked against an authorization that delivers, when the offer
\* was the first claim to its sequence (authorize, lockPayment; settlement.ts).
THEOREM PaymentsAreDeliverable == MarketSpec => []PaidIsDeliverable
<1>1. MarketInv => PaidIsDeliverable
  <2>. SUFFICES ASSUME MarketInv, NEW i \in 1 .. Len(listings), escrows[i] # "none",
                       FirstClaim(listings[i])
                PROVE  WouldDeliver(listings[i])
    BY DEF PaidIsDeliverable
  <2>1. PICK rs, l, av, escrow : /\ rs = publications /\ l = listings[i] /\ av = artifacts
                                 /\ escrow = escrows[i]
    OBVIOUS
  <2>2. /\ Fits(rs, height) /\ height \in Nat /\ RowFits(i, l, escrow) /\ escrow # "none"
        /\ Held(l, escrow, resolveOwnership(rs, av)[l.stamp], rs)
        /\ i \in Secret
    <3>1. RowFits(i, listings[i], escrows[i]) /\ i \in Secret
      BY MarketAssumption DEF MarketInv, RowsFit
    <3>2. Held(listings[i], escrows[i], ownershipNow[listings[i].stamp], publications)
      BY DEF MarketInv, AllHeld
    <3>3. ownershipNow = resolveOwnership(rs, av)
      BY <2>1 DEF ownershipNow
    <3>4. Fits(publications, height) /\ height \in Nat
      BY DEF MarketInv, ChainFits
    <3>. QED  BY <2>1, <3>1, <3>2, <3>3, <3>4
  <2>3. PICK j \in 1 .. Len(rs) :
          /\ rs[j].kind = "offer" /\ rs[j].artifact = l.offer
          /\ \A k \in 1 .. j - 1 : ~ (rs[k].stamp = l.stamp /\ rs[k].sequence = l.sequence)
    BY <2>1 DEF FirstClaim
  <2>4. /\ l \in ListingRow /\ l.offer # None /\ l.offer = OfferFor(i, l)
        /\ l.transfer = TransferFor(i, l) /\ l.sequence \in Sequence \ {0}
    BY <2>2 DEF RowFits
  <2>5. l.offer \in av
    <3>1. l.offer \in {listings[k].offer : k \in 1 .. Len(listings)}
      BY <2>1
    <3>. QED  BY <2>1, <2>4, <3>1 DEF artifacts
  <2>6. PICK auth \in TransferAuthorization :
          /\ auth = l.transfer /\ auth.stamp = l.stamp /\ auth.sequence = l.sequence
    <3>1. l.offer \in SettlementOffer /\ l.stamp \in Commitment /\ l.seller \in Address
      BY <2>4, OwnershipAssumption DEF ListingRow
    <3>2. OfferFor(i, l) \in SettlementOffer /\ OfferFor(i, l).buyer = l.buyer
      BY <2>4, <3>1 DEF OfferFor
    <3>3. l.buyer \in Address
      BY <3>2 DEF SettlementOffer
    <3>4. l.transfer \in TransferAuthorization
      BY <2>2, <2>4, <3>1, <3>3 DEF TransferFor, TransferAuthorization
    <3>. QED  BY <2>4, <3>4 DEF TransferFor
  <2>7. PICK onChain, qs :
          /\ onChain = {rs[k].artifact : k \in 1 .. Len(rs)}
          /\ qs = IF auth \in onChain THEN rs ELSE Append(rs, publication("transfer", auth))
    OBVIOUS
  <2>8. rs \in Seq(CanonicalRecord) /\ Len(rs) \in Nat
    BY <2>2 DEF Fits
  <2>9. /\ qs \in Seq(CanonicalRecord) /\ Len(rs) <= Len(qs)
        /\ \A k \in 1 .. Len(rs) : qs[k] = rs[k]
        /\ \E q \in j + 1 .. Len(qs) :
             /\ qs[q].kind = "transfer" /\ qs[q].artifact = auth
             /\ qs[q].stamp = l.stamp /\ qs[q].sequence = l.sequence
             /\ qs[q].network = DestinationNetwork /\ qs[q].inBestChain
    <3>1. CASE auth \in onChain
      <4>1. PICK q \in 1 .. Len(rs) : rs[q].artifact = auth
        BY <2>7, <3>1
      <4>2. rs[q].kind = "transfer"
        <5>1. rs[q] \in CanonicalRecord /\ auth \notin SettlementOffer
          BY <2>8, <4>1, NoOfferIsTransfer
        <5>. QED  BY <4>1, <5>1 DEF CanonicalRecord
      <4>3. /\ rs[q].stamp = l.stamp /\ rs[q].sequence = l.sequence
            /\ rs[q].network = DestinationNetwork /\ rs[q].inBestChain
        BY <2>2, <2>6, <4>1 DEF Fits
      <4>4. q # j /\ ~ (q \in 1 .. j - 1)
        BY <2>3, <4>2, <4>3
      <4>5. q \in j + 1 .. Len(rs)
        BY <2>8, <4>4
      <4>6. qs = rs
        BY <2>7, <3>1
      <4>. QED  BY <2>8, <4>1, <4>2, <4>3, <4>5, <4>6
    <3>2. CASE auth \notin onChain
      <4>1. PICK r \in CanonicalRecord :
              /\ r = publication("transfer", auth) /\ r.kind = "transfer" /\ r.artifact = auth
              /\ r.stamp = auth.stamp /\ r.sequence = auth.sequence
              /\ r.network = DestinationNetwork /\ r.inBestChain
        BY <2>2, PublicationFits
      <4>2. qs = Append(rs, r)
        BY <2>7, <3>2, <4>1
      <4>3. /\ qs \in Seq(CanonicalRecord) /\ Len(qs) = Len(rs) + 1
            /\ \A k \in 1 .. Len(rs) : qs[k] = rs[k]
            /\ qs[Len(rs) + 1] = r
        BY <2>8, <4>2
      <4>4. Len(rs) + 1 \in j + 1 .. Len(qs) /\ Len(rs) <= Len(qs)
        BY <2>8, <4>3
      <4>. QED  BY <2>6, <4>1, <4>3, <4>4
    <3>. QED  BY <3>1, <3>2
  <2>10. Delivers(qs, av \cup {auth}, l)
    BY <2>2, <2>3, <2>5, <2>6, <2>9, AuthorizationDelivers
  <2>11. PICK s : s = resolveOwnership(AllDeep(qs), av \cup {auth})[l.stamp]
    OBVIOUS
  <2>12. Contiguous(s)
    <3>1. Typed(AllDeep(qs)) /\ l.stamp \in Issued
      BY <2>4, <2>9, DeepRecords DEF ListingRow
    <3>. QED  BY <2>11, <3>1, ResolvedSound DEF StampInv
  <2>13. WentToBuyer(s, l)
    <3>1. l.sequence \in 1 .. Len(s.history) /\ s.history[l.sequence].to = l.buyer
      BY <2>10, <2>11 DEF Delivers
    <3>2. s.history[l.sequence].sequence = l.sequence
      BY <2>12, <3>1 DEF Contiguous
    <3>. QED  BY <3>1, <3>2 DEF WentToBuyer
  <2>. QED  BY <2>1, <2>6, <2>7, <2>11, <2>13 DEF WouldDeliver, AllDeep
<1>. QED  BY <1>1, MarketInductive, PTL

=============================================================================
