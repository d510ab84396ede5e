------------------------------- MODULE Market -------------------------------
(***************************************************************************)
(* The stamp marketplace of the demo deployment: src/lib/market.ts, the    *)
(* settlement adapter (modules/settlement.ts) and the HTLCs and records of *)
(* the demo Zcash chain (zcash/demo.ts), over the ownership rules.         *)
(*                                                                         *)
(* Each request is one step.  A request that goes through withMarket first *)
(* reconciles the listings with the index, then does its work on the       *)
(* reconciled rows, then ages the chain by one confirmation.               *)
(***************************************************************************)
EXTENDS OwnershipRules, FiniteSets

CONSTANTS
  HTLC_TIMEOUT_BLOCKS,  \* 48 in the code
  ConfirmationCap,      \* where tickConfirmations stops counting
  MaxListings,          \* bound: listings ever created
  MaxHeight,            \* bound: height up to which new business starts
  Giver                 \* the owners that give stamps away

ASSUME MarketAssumption ==
  /\ MaxListings \in Nat /\ Secret = 1 .. MaxListings
  /\ HTLC_TIMEOUT_BLOCKS \in Nat
  /\ None \notin Secret
  /\ ConfirmationCap \in Nat /\ ConfirmationCap >= MinConfirmations
  /\ MaxHeight \in Nat
  /\ Giver \subseteq Address

VARIABLES
  height,       \* height of the demo Zcash chain
  publications, \* the ownership records on it, oldest first
  transferRow,  \* transferRow[c, n]: the stored artifact `c:n`
  listings,     \* the listing rows, in the order of their creation
  escrows       \* escrows[i]: state of the HTLC of listing i

marketVars == <<height, publications, transferRow, listings, escrows>>

ListingState ==
  {"listed", "reserved", "offer_published", "authorized", "payment_locked",
   "transfer_published", "settled", "cancelled", "expired"}

ListingRow ==
  [stamp : Issued, sequence : Nat, state : ListingState, seller : Address,
   buyer : Address \cup {None}, price : Price,
   offer : SettlementOffer \cup {None},
   transfer : TransferAuthorization \cup {None}, expiry : Nat \cup {None}]

MarketInit ==
  /\ height = 100
  /\ publications = << >>
  /\ transferRow = [key \in Issued \X Sequence |-> None]
  /\ listings = << >>
  /\ escrows = [i \in Secret |-> "none"]

-----------------------------------------------------------------------------
(* The index: ownership replayed from the chain and the stored artifacts.  *)

isLive_listedOnly(l) == l.state = "listed"
isLive(l) == l.state \notin {"settled", "cancelled", "expired"}

\* The artifacts in the store: offersFrom(listings) and listTransfers().
artifacts ==
  ({listings[i].offer : i \in 1 .. Len(listings)} \cup
   {transferRow[key] : key \in DOMAIN transferRow}) \ {None}

ownershipNow == resolveOwnership(publications, artifacts)

\* The transfer at the sequence of the listing went to its buyer.
delivered_anyone(s, l) == s.sequence >= l.sequence
delivered(s, l) ==
  s.sequence >= l.sequence /\ s.history[l.sequence].to = l.buyer

beforePayment_andLocked(l) ==
  l.state \in {"listed", "reserved", "offer_published", "authorized",
               "payment_locked"}
beforePayment(l) ==
  l.state \in {"listed", "reserved", "offer_published", "authorized"}

reconcile(l, ownership) ==
  IF ~isLive(l) THEN l
  ELSE IF delivered(ownership[l.stamp], l) THEN [l EXCEPT !.state = "settled"]
  ELSE IF beforePayment(l) /\ l.expiry # None /\ height > l.expiry
    THEN [l EXCEPT !.state = "expired"]
  ELSE l

reconciled ==
  LET ownership == ownershipNow
  IN  [i \in 1 .. Len(listings) |-> reconcile(listings[i], ownership)]

Least(m, n) == IF m < n THEN m ELSE n

\* tickConfirmations.
ticked(rs) ==
  [j \in 1 .. Len(rs) |->
     [rs[j] EXCEPT !.confirmations = Least(@ + 1, ConfirmationCap)]]

\* publishDemoRecord: the record of an artifact, in a block of its own.
publication(kind, artifact) ==
  [kind |-> kind, stamp |-> artifact.stamp, sequence |-> artifact.sequence,
   artifact |-> artifact, place |-> height + 1,
   network |-> DestinationNetwork, inBestChain |-> TRUE, confirmations |-> 0]

Publish(kind, artifact) ==
  /\ height' = height + 1
  /\ publications' = ticked(Append(publications, publication(kind, artifact)))

-----------------------------------------------------------------------------
(* Requests.                                                               *)

\* reconcileListings: every read of the market, and every refused request.
Reconcile ==
  /\ listings' = reconciled
  /\ UNCHANGED <<height, publications, transferRow, escrows>>

\* The worker, and requests that change nothing else, age the chain.
Tick ==
  /\ publications' = ticked(publications)
  /\ UNCHANGED <<height, transferRow, listings, escrows>>

\* tickDemoChain: a block without a record.
OtherBlock ==
  /\ height < MaxHeight
  /\ height' = height + 1
  /\ publications' = ticked(publications)
  /\ UNCHANGED <<transferRow, listings, escrows>>

noLiveListing(rows, c) ==
  \A i \in 1 .. Len(rows) : rows[i].stamp = c => ~isLive(rows[i])

\* createListing: by the indexed owner, one live listing per stamp.
List(c, price) ==
  /\ Len(listings) < MaxListings /\ height < MaxHeight
  /\ ownershipNow[c].sequence + 1 \in Sequence
  /\ noLiveListing(reconciled, c)
  /\ listings' = Append(reconciled,
       [stamp |-> c, sequence |-> ownershipNow[c].sequence + 1, state |-> "listed",
        seller |-> ownershipNow[c].currentOwner, buyer |-> None, price |-> price,
        offer |-> None, transfer |-> None, expiry |-> None])
  /\ publications' = ticked(publications)
  /\ UNCHANGED <<height, transferRow, escrows>>

\* A step on listing i that requires one of the given states.
Advance(i, states, row) ==
  /\ i <= Len(listings)
  /\ reconciled[i].state \in states
  /\ listings' = [reconciled EXCEPT ![i] = row]

reserved_noBuyer(l, buyer) ==
  [l EXCEPT !.state = "reserved", !.expiry = height + HTLC_TIMEOUT_BLOCKS]
reserved(l, buyer) ==
  [l EXCEPT !.state = "reserved", !.buyer = buyer,
            !.expiry = height + HTLC_TIMEOUT_BLOCKS]

Reserve(i, buyer) ==
  /\ Advance(i, {"listed"}, reserved(reconciled[i], buyer))
  /\ buyer # reconciled[i].seller
  /\ publications' = ticked(publications)
  /\ UNCHANGED <<height, transferRow, escrows>>

\* The artifacts of listing i.  Its hash lock is named by its own number: every
\* reservation draws a fresh secret.
offerOf(i) ==
  LET l == reconciled[i]
  IN  [stamp |-> l.stamp, sequence |-> l.sequence, seller |-> l.seller,
       buyer |-> l.buyer, price |-> l.price, hashLock |-> i, signed |-> TRUE]

transferOf_noPreimage(i) ==
  LET l == reconciled[i]
  IN  [stamp |-> l.stamp, sequence |-> l.sequence, from |-> l.seller,
       to |-> l.buyer, offer |-> l.offer, preimage |-> None, signed |-> TRUE]

transferOf(i) ==
  LET l == reconciled[i]
  IN  [stamp |-> l.stamp, sequence |-> l.sequence, from |-> l.seller,
       to |-> l.buyer, offer |-> l.offer, preimage |-> i, signed |-> TRUE]

PublishOffer(i) ==
  /\ Advance(i, {"reserved"},
       [reconciled[i] EXCEPT !.state = "offer_published",
                             !.offer = offerOf(i)])
  /\ Publish("offer", offerOf(i))
  /\ UNCHANGED <<transferRow, escrows>>

Authorize(i) ==
  /\ Advance(i, {"offer_published"},
       [reconciled[i] EXCEPT !.state = "authorized",
                             !.transfer = transferOf(i)])
  /\ publications' = ticked(publications)
  /\ UNCHANGED <<height, transferRow, escrows>>

LockPayment(i) ==
  /\ Advance(i, {"authorized"},
       [reconciled[i] EXCEPT !.state = "payment_locked",
                             !.expiry = height + 1 + HTLC_TIMEOUT_BLOCKS])
  /\ escrows' = [escrows EXCEPT ![i] = "locked"]
  /\ height' = height + 1
  /\ publications' = ticked(publications)
  /\ UNCHANGED transferRow

PublishTransfer(i) ==
  LET auth == reconciled[i].transfer
  IN  /\ Advance(i, {"payment_locked"},
           [reconciled[i] EXCEPT !.state = "transfer_published"])
      /\ Publish("transfer", auth)
      /\ transferRow' =
           [transferRow EXCEPT ![<<auth.stamp, auth.sequence>>] = auth]
      /\ UNCHANGED escrows

\* claimDemoHtlc; the row is only touched.
ClaimPayment(i) ==
  /\ Advance(i, {"payment_locked", "transfer_published"}, reconciled[i])
  /\ escrows[i] = "locked"
  /\ escrows' = [escrows EXCEPT ![i] = "claimed"]
  /\ height' = height + 1
  /\ publications' = ticked(publications)
  /\ UNCHANGED transferRow

\* listingChallenge: the text to sign, for a listing that needs a signature.
Challenge(i) ==
  /\ Advance(i, {"reserved", "offer_published"}, reconciled[i])
  /\ publications' = ticked(publications)
  /\ UNCHANGED <<height, transferRow, escrows>>

cancellable_always(l) == TRUE
cancellable(l) == l.state \notin {"payment_locked", "transfer_published"}

Cancel(i) ==
  /\ i <= Len(listings)
  /\ cancellable(reconciled[i])
  /\ listings' = [reconciled EXCEPT ![i].state = "cancelled"]
  /\ publications' = ticked(publications)
  /\ UNCHANGED <<height, transferRow, escrows>>

\* submitTransfer: a gift by the indexed owner.  It looks at the listings as
\* they are, without reconciling them.
SubmitTransfer(c, to) ==
  LET auth == [stamp |-> c, sequence |-> ownershipNow[c].sequence + 1,
               from |-> ownershipNow[c].currentOwner, to |-> to, offer |-> None,
               preimage |-> None, signed |-> TRUE]
  IN  /\ height < MaxHeight
      /\ auth.from \in Giver
      /\ auth.sequence \in Sequence
      /\ noLiveListing(listings, c)
      /\ Publish("transfer", auth)
      /\ transferRow' = [transferRow EXCEPT ![<<c, auth.sequence>>] = auth]
      /\ UNCHANGED <<listings, escrows>>

MarketNext ==
  \/ Reconcile \/ Tick \/ OtherBlock
  \/ \E c \in Issued, price \in Price : List(c, price)
  \/ \E c \in Issued, to \in Address : SubmitTransfer(c, to)
  \/ \E i \in Secret, buyer \in Address : Reserve(i, buyer)
  \/ \E i \in Secret :
       \/ Challenge(i) \/ PublishOffer(i) \/ Authorize(i) \/ LockPayment(i)
       \/ PublishTransfer(i) \/ ClaimPayment(i) \/ Cancel(i)

\* The worker ticks for ever, and pages that read the market keep being read.  A
\* buyer who has paid publishes the authorization he holds.
Fairness ==
  /\ WF_marketVars(Tick) /\ WF_marketVars(Reconcile)
  /\ \A i \in Secret : WF_marketVars(PublishTransfer(i))

MarketSpec == MarketInit /\ [][MarketNext]_marketVars /\ Fairness

-----------------------------------------------------------------------------
(* What the marketplace must get right.                                    *)

\* Every variable keeps its shape: rows, records and artifacts of the protocol's
\* types (store/types.ts), one artifact row per sequence.
RowsTyped ==
  /\ height \in Nat
  /\ \A j \in 1 .. Len(publications) : publications[j] \in CanonicalRecord
  /\ transferRow \in
       [Issued \X Sequence -> TransferAuthorization \cup {None}]
  /\ \A i \in 1 .. Len(listings) : listings[i] \in ListingRow
  /\ escrows \in [Secret -> {"none", "locked", "claimed"}]

\* One stamp cannot be offered twice at the same time: at most one of its
\* listings is live (DemoSettlementAdapter.list).
Open(l) == l.state \notin {"settled", "cancelled", "expired"}

OneLiveListing ==
  \A i, j \in 1 .. Len(listings) :
    Open(listings[i]) /\ Open(listings[j]) /\
    listings[i].stamp = listings[j].stamp => i = j

\* Rows and records are the protocol's, and no stamp has two live listings,
\* whatever was relisted, expired or reconciled in between (list, reconcile).
ListingsInOrder == RowsTyped /\ OneLiveListing

\* Stamp state s: at the sequence of the listing the stamp went to its buyer.
WentToBuyer(s, l) ==
  \E n \in 1 .. Len(s.history) :
    s.history[n].sequence = l.sequence /\ s.history[n].to = l.buyer

\* The record that names the sequence of the listing first is its own offer.
FirstClaim(l) ==
  \E j \in 1 .. Len(publications) :
    /\ publications[j].kind = "offer" /\ publications[j].artifact = l.offer
    /\ \A k \in 1 .. j - 1 : ~(/\ publications[k].stamp = l.stamp
                               /\ publications[k].sequence = l.sequence)

\* The buyer of the listing would own the stamp at its sequence once every
\* record on the chain and the authorization he holds were confirmed.
WouldDeliver(l) ==
  LET onChain == {publications[j].artifact : j \in 1 .. Len(publications)}
      all == IF l.transfer \in onChain THEN publications
             ELSE Append(publications, publication("transfer", l.transfer))
      confirmed == [j \in 1 .. Len(all) |->
                      [all[j] EXCEPT !.confirmations = MinConfirmations]]
  IN  WentToBuyer(resolveOwnership(confirmed, artifacts \cup {l.transfer})
                    [l.stamp], l)

\* A payment is only ever locked against an authorization that delivers: when
\* the listing's own offer was the first claim to its sequence, whatever the
\* others do, the buyer gets the stamp with what he holds (settlement.ts, the
\* order of authorize and lockPayment, and what authorize signs).
PaidIsDeliverable ==
  \A i \in 1 .. Len(listings) :
    escrows[i] # "none" /\ FirstClaim(listings[i]) =>
      WouldDeliver(listings[i])

\* A payment in escrow is never forgotten: its listing is still in progress, or
\* the ledger has given the stamp to the buyer (cancel, and the expiry in
\* reconcileListings).
LockedIsOpenOrDelivered ==
  \A i \in 1 .. Len(listings) :
    escrows[i] = "locked" =>
      \/ listings[i].state \in {"payment_locked", "transfer_published"}
      \/ WentToBuyer(ownershipNow[listings[i].stamp], listings[i])

\* The market never shows a listing as settled unless the ledger, replayed from
\* the chain, has moved the stamp to its buyer (reconcileListings).
SettledWasDelivered ==
  \A i \in 1 .. Len(listings) :
    listings[i].state = "settled" =>
      WentToBuyer(ownershipNow[listings[i].stamp], listings[i])

\* Money and the shown state of a listing agree with the ledger: no payment is
\* forgotten in escrow, and nothing is settled that was not delivered.
PaymentsAreKept == LockedIsOpenOrDelivered /\ SettledWasDelivered

\* A payment against the first claim to a sequence ends in the delivery of the
\* stamp to the buyer, whether or not the seller ever claims.
PaymentIsDelivered ==
  \A i \in Secret :
    (i <= Len(listings) /\ escrows[i] = "locked" /\ FirstClaim(listings[i]))
      ~> (i <= Len(listings) /\
          WentToBuyer(ownershipNow[listings[i].stamp], listings[i]))

-----------------------------------------------------------------------------
(* What the documents and comments say, and the code does not do.          *)

\* "the buyer never has funds at risk without already holding a complete, valid
\* authorization" (settlement.ts): what the buyer holds delivers the stamp.
BuyerNeverAtRisk ==
  \A i \in 1 .. Len(listings) :
    escrows[i] = "locked" => WouldDeliver(listings[i])

\* "the seller can always claim" (settlement.ts): the claim of a locked payment
\* would be accepted.
SellerCanAlwaysClaim ==
  \A i \in 1 .. Len(listings) :
    escrows[i] = "locked" =>
      reconciled[i].state \in {"payment_locked", "transfer_published"}

\* "the UI cannot show a sale the protocol would not accept" (market.ts): the
\* transfer that settled a listing answered its offer.
SettledIsSale ==
  \A i \in 1 .. Len(listings) :
    listings[i].state = "settled" =>
      ownershipNow[listings[i].stamp].history[listings[i].sequence].offer # None

\* "Two valid transfers at the same sequence: the earliest confirmed wins"
\* (PROTOCOL.md, 23): what the ledger has accepted stays accepted.
EarliestTransferWins ==
  [][\A c \in Issued :
       LET before == ownershipNow[c].history
           after == ownershipNow'[c].history
       IN  Len(before) <= Len(after) /\ SubSeq(after, 1, Len(before)) = before
    ]_marketVars

\* "A transfer is refused while a live listing exists for the stamp"
\* (THREAT_MODEL.md, "Gift transfer racing an open listing"): no gift competes
\* with a live listing for its sequence.
GiftNeverRaces ==
  \A i \in 1 .. Len(listings), j \in 1 .. Len(publications) :
    ~(/\ Open(listings[i])
      /\ publications[j].kind = "transfer" /\ publications[j].artifact.offer = None
      /\ publications[j].stamp = listings[i].stamp
      /\ publications[j].sequence = listings[i].sequence)
=============================================================================
