------------------------------ MODULE Ownership ------------------------------
(***************************************************************************)
(* resolveOwnership (src/lib/protocol/ownership.ts) as the loop it is: one *)
(* step per record of the sorted input.  Each step takes any record that   *)
(* can come next in canonical order, so an invariant of this specification *)
(* is a statement about every input the resolver can be given.             *)
(***************************************************************************)
EXTENDS OwnershipRules

CONSTANTS
  Feed,        \* the records that may occur in an input
  Artifacts    \* the sets of artifacts that may be published beside them

ASSUME InputAssumption ==
  /\ Feed \subseteq CanonicalRecord
  /\ Artifacts \subseteq SUBSET (SettlementOffer \cup TransferAuthorization)

VARIABLES
  available,  \* offersByHash and transfersByHash, fixed by Init
  records,    \* the records handled so far, in canonical order
  outcome,    \* outcome[i]: what became of records[i]
  stamps,     \* stamps[c]: ownership of the issued stamp c so far
  sales       \* the sales found so far

vars == <<available, records, outcome, stamps, sales>>

Init ==
  /\ available \in Artifacts
  /\ records = << >>
  /\ outcome = << >>
  /\ stamps = [c \in Issued |-> IssuedStamp(c)]
  /\ sales = << >>

-----------------------------------------------------------------------------

Verdict(r) == verdict(stamps, available, r)

\* compareRecords: the input is sorted, so r comes after every earlier record.
Sorted(r) == \A i \in 1 .. Len(records) : records[i].place < r.place

\* Every iteration takes the next record of the input and files it.
Iterate(r) ==
  /\ Sorted(r)
  /\ records' = Append(records, r)
  /\ outcome' = Append(outcome, Verdict(r))
  /\ UNCHANGED available

LeavePending(r) ==
  /\ Iterate(r)
  /\ Verdict(r) \in PendingReason
  /\ UNCHANGED <<stamps, sales>>

Reject(r) ==
  /\ Iterate(r)
  /\ Verdict(r) \in RejectReason
  /\ UNCHANGED <<stamps, sales>>

BindOffer(r) ==
  /\ Iterate(r)
  /\ Verdict(r) = "bound"
  /\ stamps' = [stamps EXCEPT ![r.stamp] = bindOffer(@, r)]
  /\ UNCHANGED sales

ApplyTransfer(r) ==
  /\ Iterate(r)
  /\ Verdict(r) = "applied"
  /\ stamps' = [stamps EXCEPT ![r.stamp] = applyTransfer(@, r)]
  /\ sales' = IF stamps[r.stamp].boundOffers[r.sequence] = None
                THEN sales
                ELSE Append(sales, saleOf(stamps[r.stamp], r))

Next ==
  \E r \in Feed :
    LeavePending(r) \/ Reject(r) \/ BindOffer(r) \/ ApplyTransfer(r)

Spec == Init /\ [][Next]_vars

-----------------------------------------------------------------------------

\* Types: the ownership state stays well formed whatever the input.
TypeOK ==
  /\ available \in Artifacts
  /\ records \in Seq(Feed)
  /\ stamps \in [Issued -> StampOwnership]
  /\ Len(outcome) = Len(records)
  /\ outcome \in Seq(PendingReason \cup RejectReason \cup {"bound", "applied"})
  /\ sales \in Seq(Sale)

\* PROTOCOL section 18: a stamp's sequence counts its accepted transfers, which
\* carry the sequence numbers 1, 2, ... without gap or repetition.
Contiguous(s) ==
  /\ s.sequence = Len(s.history)
  /\ \A i \in 1 .. Len(s.history) : s.history[i].sequence = i

\* Custody: the first accepted transfer leaves the original recipient, each
\* later one leaves the recipient of the one before it, and the current owner
\* is the recipient of the last (PROTOCOL section 25).
CustodyOf(c, s) ==
  /\ \A i \in 1 .. Len(s.history) :
       s.history[i].from = IF i = 1 THEN OriginalRecipient[c]
                                    ELSE s.history[i - 1].to
  /\ s.currentOwner = IF s.history = << >> THEN OriginalRecipient[c]
                                           ELSE s.history[Len(s.history)].to

\* The double-sale rule (PROTOCOL sections 21 and 22): no offer is bound past
\* the next sequence, the offer bound there was made by the current owner, and
\* an offer bound at a consumed sequence was delivered: to its buyer, by its
\* seller, at its price.
OfferKept(s) ==
  \A n \in Sequence :
    LET bound == s.boundOffers[n]
    IN  bound # None =>
          /\ n \in 1 .. s.sequence + 1
          /\ bound.sequence = n
          /\ bound.signed
          /\ n = s.sequence + 1 => bound.seller = s.currentOwner
          /\ n <= s.sequence =>
               /\ s.history[n].offer = bound
               /\ s.history[n].from = bound.seller
               /\ s.history[n].to = bound.buyer
               /\ s.history[n].price = bound.price

\* A transfer that names no offer was applied only where none was bound.
GiftsUnbound(s) ==
  \A i \in 1 .. Len(s.history) :
    s.history[i].offer = None => s.boundOffers[i] = None

Contiguity == \A c \in Issued : Contiguous(stamps[c])
Custody == \A c \in Issued : CustodyOf(c, stamps[c])
NoDoubleSale == \A c \in Issued : OfferKept(stamps[c]) /\ GiftsUnbound(stamps[c])

\* What it takes for record r to have moved stamp c as its i-th event says.
Evidence(r, c, i, event) ==
  /\ r.kind = "transfer" /\ r.stamp = c /\ r.place = event.place
  /\ r.network = DestinationNetwork
  /\ r.inBestChain /\ r.confirmations >= MinConfirmations
  /\ r.artifact \in available /\ r.artifact.signed
  /\ r.artifact.stamp = c /\ r.artifact.sequence = i
  /\ r.artifact.from = event.from /\ r.artifact.to = event.to

\* PROTOCOL section 17: every accepted transfer rests on a record in the best
\* chain of the destination network at the confirmation depth, and on a
\* published authorization signed by the owner it names.
Authorized ==
  \A c \in Issued : \A i \in 1 .. Len(stamps[c].history) :
    \E j \in 1 .. Len(records) :
      /\ outcome[j] = "applied"
      /\ Evidence(records[j], c, i, stamps[c].history[i])

\* PROTOCOL section 22: a transfer that pays an offer carries the secret of its
\* hash lock, so delivery of the stamp and payment of the seller go together.
SaleRevealsSecret ==
  \A c \in Issued : \A i \in 1 .. Len(stamps[c].history) :
    LET event == stamps[c].history[i]
    IN  event.offer # None =>
          \E j \in 1 .. Len(records) :
            /\ outcome[j] = "applied" /\ records[j].place = event.place
            /\ records[j].kind = "transfer"
            /\ records[j].artifact.preimage = event.offer.hashLock

\* The sale is the accepted transfer of stamp state s at the sale's sequence.
Matches(sale, s) ==
  /\ sale.sequence \in 1 .. s.sequence
  /\ s.boundOffers[sale.sequence] # None
  /\ s.history[sale.sequence].from = sale.seller
  /\ s.history[sale.sequence].to = sale.buyer
  /\ s.history[sale.sequence].price = sale.price

SalesMatched ==
  \A k \in 1 .. Len(sales) :
    /\ sales[k].stamp \in Issued
    /\ Matches(sales[k], stamps[sales[k].stamp])

SalesOnce ==
  \A j, k \in 1 .. Len(sales) :
    /\ sales[j].stamp = sales[k].stamp
    /\ sales[j].sequence = sales[k].sequence
    => j = k

SalesListed ==
  \A c \in Issued : \A i \in 1 .. stamps[c].sequence :
    stamps[c].boundOffers[i] # None =>
      \E k \in 1 .. Len(sales) : sales[k].stamp = c /\ sales[k].sequence = i

\* PROTOCOL section 25: sales are exactly the accepted transfers that paid a
\* bound offer, each listed once, with the offer's price.
SalesAreOffers == SalesMatched /\ SalesOnce /\ SalesListed

\* What resolveOwnership returns hangs together: sequences without gaps, an
\* unbroken chain of owners, evidence on the chain for every transfer, secrets
\* revealed for what was paid, and exactly the paid transfers listed as sales.
HistorySound ==
  TypeOK /\ Contiguity /\ Custody /\ Authorized /\ SaleRevealsSecret /\ SalesAreOffers

\* A record that is pending or rejected leaves the sequence open for the next
\* valid record (PROTOCOL section 23), and what was bound or accepted stays.
Extends(s, t) ==
  /\ Len(t.history) >= Len(s.history)
  /\ \A i \in 1 .. Len(s.history) : t.history[i] = s.history[i]
  /\ \A n \in Sequence :
       s.boundOffers[n] # None => t.boundOffers[n] = s.boundOffers[n]

Settled == \A c \in Issued : Extends(stamps[c], stamps'[c])

NothingUndone == [][Settled]_vars

-----------------------------------------------------------------------------

\* The resolver implements the register: a stamp is reserved for the buyer of
\* the offer bound at its next sequence.
reservedBuyer(s) ==
  IF /\ s.sequence + 1 \in Sequence
     /\ s.boundOffers[s.sequence + 1] # None
    THEN s.boundOffers[s.sequence + 1].buyer
    ELSE None

Register ==
  INSTANCE StampRegister WITH
    owner <- [c \in Issued |-> stamps[c].currentOwner],
    handovers <- [c \in Issued |-> stamps[c].sequence],
    reservedFor <- [c \in Issued |-> reservedBuyer(stamps[c])]

\* Refinement: each record reserves a stamp, hands it over, or does nothing.
IsARegister == Register!RegisterSpec

-----------------------------------------------------------------------------
(* What PROTOCOL.md says, and the code does not do.                        *)

\* "Two valid transfers at the same sequence: the earliest confirmed wins; the
\* other is conflicting_transfer" (PROTOCOL.md, 23).
ConflictIsReported ==
  \A i, j \in 1 .. Len(records) :
    (/\ outcome[i] = "applied" /\ i < j
     /\ records[j] = [records[i] EXCEPT !.place = records[j].place,
                                       !.artifact = records[j].artifact]
     /\ records[j].artifact =
          [records[i].artifact EXCEPT !.to = records[j].artifact.to]
     /\ records[j].artifact # records[i].artifact
     /\ records[j].artifact \in available)
      => outcome[j] = "conflicting_transfer"
=============================================================================
