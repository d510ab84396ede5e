------------------------------- MODULE Ledger -------------------------------
(***************************************************************************)
(* rebuildLedger (src/lib/protocol/ledger.ts): the replay of the finalized *)
(* Solana transactions, in canonical order, against the Zcash transactions *)
(* into the accepted issuances and the stamp units of each mint.  One step *)
(* per transaction, then the final sort, then one step per row of the sum. *)
(***************************************************************************)
EXTENDS BurnRules, FiniteSetsExt, Functions

CONSTANTS
  Feed,             \* the Solana transactions that may occur in an input
  MaxTransactions,  \* how many an input may hold
  ZcashFeeds        \* the sets of Zcash transactions that may accompany them

ASSUME InputAssumption ==
  /\ Feed \subseteq CanonicalSolanaTx
  /\ MaxTransactions \in Nat
  /\ ZcashFeeds \subseteq SUBSET ZcashPublication
  /\ \A zs \in ZcashFeeds : \A y, z \in zs : y.txid = z.txid => y = z

VARIABLES
  zcash,      \* the Zcash transactions, fixed by Init
  replayed,   \* the Solana transactions handled so far
  outcome,    \* outcome[i]: what became of replayed[i]
  seen,       \* burn events with an accepted or pending claim
  accepted,   \* the accepted issuances
  units,      \* acceptedStampUnits
  counted,    \* how many rows the sum has covered
  phase       \* "replay", then "tally"

vars == <<zcash, replayed, outcome, seen, accepted, units, counted, phase>>

Init ==
  /\ zcash \in ZcashFeeds
  /\ replayed = << >> /\ outcome = << >>
  /\ seen = {}
  /\ accepted = << >>
  /\ units = [m \in Mint |-> 0]
  /\ counted = 0
  /\ phase = "replay"

-----------------------------------------------------------------------------

\* compareBurnEvents: by slot, then by signature; equal ones may repeat.
Precedes(tx, ty) ==
  tx.slot < ty.slot \/ (tx.slot = ty.slot /\ tx.signature <= ty.signature)

\* guessDestination: the destination of the first intent for this network.
guessDestination(tx) ==
  LET mine == SelectSeq(tx.intents, LAMBDA i : i.network = Dest)
  IN  IF mine = << >> THEN None ELSE mine[1].destination

complete(tx) == guessDestination(tx) # None /\ tx.burn # None

valid(tx) ==
  validateBurn(tx, tx.mint, tx.burn.amount, guessDestination(tx))

eventOf(issuance) == <<issuance.sourceTx, issuance.burnLocator>>

alreadySeen_never(issuance) == FALSE
alreadySeen(issuance) == eventOf(issuance) \in seen

Matches(issuance) == {z \in zcash : publicationMatches(issuance, z)}

\* The first Zcash transaction that mentions the commitment decides between the
\* two reasons; which one is first depends on the order of the feed.
PendingReason(issuance) ==
  LET mentioning == {z \in zcash : issuance \in z.mentions}
  IN  IF mentioning = {} THEN {"publication_pending"}
      ELSE {IF deepEnough(z) THEN "publication_pending"
                             ELSE "zcash_confirmation_pending"
              : z \in mentioning}

-----------------------------------------------------------------------------

\* Every iteration takes the next transaction of the input and files it.
Iterate(tx, what) ==
  /\ phase = "replay"
  /\ Len(replayed) < MaxTransactions
  /\ \A i \in 1 .. Len(replayed) : Precedes(replayed[i], tx)
  /\ replayed' = Append(replayed, tx)
  /\ outcome' = Append(outcome, what)
  /\ UNCHANGED <<zcash, units, counted, phase>>

RejectIncomplete(tx) ==
  /\ ~complete(tx)
  /\ Iterate(tx, "missing_intent")
  /\ UNCHANGED <<seen, accepted>>

RejectInvalid(tx) ==
  /\ complete(tx) /\ ~valid(tx)
  /\ Iterate(tx, "invalid")
  /\ UNCHANGED <<seen, accepted>>

RejectDuplicate(tx) ==
  /\ complete(tx) /\ valid(tx) /\ alreadySeen(issuanceOf(tx))
  /\ Iterate(tx, "duplicate_claim")
  /\ UNCHANGED <<seen, accepted>>

LeavePending(tx) ==
  /\ complete(tx) /\ valid(tx) /\ ~alreadySeen(issuanceOf(tx))
  /\ Matches(issuanceOf(tx)) = {}
  /\ \E reason \in PendingReason(issuanceOf(tx)) : Iterate(tx, reason)
  /\ seen' = seen \cup {eventOf(issuanceOf(tx))}
  /\ UNCHANGED accepted

filed_issuance(tx) == Append(accepted, issuanceOf(tx))
filed(tx) ==
  Append(accepted,
         acceptIssuance(issuanceOf(tx), winner(Matches(issuanceOf(tx)))))

Accept(tx) ==
  /\ complete(tx) /\ valid(tx) /\ ~alreadySeen(issuanceOf(tx))
  /\ Matches(issuanceOf(tx)) # {}
  /\ Iterate(tx, "accepted")
  /\ accepted' = filed(tx)
  /\ seen' = seen \cup {eventOf(issuanceOf(tx))}

addUnits_last(row) == [units EXCEPT ![row.mint] = row.amount]
addUnits(row) == [units EXCEPT ![row.mint] = @ + row.amount]

\* The rows in the order of their burn events.
Ordered(rows) ==
  \A i, j \in 1 .. Len(rows) :
    i < j => LET a == rows[i].issuance
                 b == rows[j].issuance
             IN  \/ a.sourceTx < b.sourceTx
                 \/ a.sourceTx = b.sourceTx /\ a.burnLocator <= b.burnLocator

Sort ==
  /\ phase = "replay"
  /\ phase' = "tally"
  /\ \E p \in Bijection(1 .. Len(accepted), 1 .. Len(accepted)) :
       /\ accepted' = [i \in 1 .. Len(accepted) |-> accepted[p[i]]]
       /\ Ordered(accepted')
  /\ UNCHANGED <<zcash, replayed, outcome, seen, units, counted>>

Tally ==
  /\ phase = "tally"
  /\ counted < Len(accepted)
  /\ counted' = counted + 1
  /\ units' = addUnits(accepted[counted + 1].issuance)
  /\ UNCHANGED <<zcash, replayed, outcome, seen, accepted, phase>>

Next ==
  \/ \E tx \in Feed :
       \/ RejectIncomplete(tx) \/ RejectInvalid(tx) \/ RejectDuplicate(tx)
       \/ LeavePending(tx) \/ Accept(tx)
  \/ Sort \/ Tally

Spec == Init /\ [][Next]_vars

-----------------------------------------------------------------------------

Outcome ==
  {"missing_intent", "invalid", "duplicate_claim", "publication_pending",
   "zcash_confirmation_pending", "accepted"}

\* Types: the rows stay well formed, the tally never runs past them.
TypeOK ==
  /\ zcash \in ZcashFeeds
  /\ replayed \in Seq(Feed)
  /\ outcome \in Seq(Outcome) /\ Len(outcome) = Len(replayed)
  /\ seen \subseteq Nat \X Nat
  /\ accepted \in Seq(AcceptedIssuance)
  /\ units \in [Mint -> Nat]
  /\ counted \in 0 .. Len(accepted)
  /\ phase \in {"replay", "tally"}

\* PROTOCOL section 13: a burn event is accepted at most once, however often
\* its transaction is in the input.
OneRowPerBurn ==
  \A i, j \in 1 .. Len(accepted) :
    eventOf(accepted[i].issuance) = eventOf(accepted[j].issuance) => i = j

\* What it takes for tx to be the burn of a row.
BurnOf(tx, row) ==
  /\ tx.network = Source /\ tx.finalized /\ ~tx.failed
  /\ tx.signature = row.sourceTx
  /\ tx.burn.mint = row.mint /\ tx.burn.amount = row.amount /\ row.amount > 0
  /\ tx.burn.authority \in tx.signers
  /\ tx.intents[1].destination = row.destination

\* PROTOCOL sections 6 to 10: every accepted row is a finalized, successful
\* burn of a positive amount signed by its authority, to the destination its
\* intent names.
RowsAreBurned ==
  \A i \in 1 .. Len(accepted) :
    \E j \in 1 .. Len(replayed) :
      outcome[j] = "accepted" /\ BurnOf(replayed[j], accepted[i].issuance)

\* What it takes for z to be the publication of a row.
PublicationOf(z, row) ==
  /\ z.txid = row.zcashTx /\ z.network = Dest
  /\ z.inBestChain /\ z.confirmations >= MinConfirmations
  /\ row.issuance.destination \in z.pays

\* PROTOCOL section 11: every accepted row is published by a best-chain
\* transaction at the confirmation depth that pays its destination.
RowsArePublished ==
  \A i \in 1 .. Len(accepted) : \E z \in zcash : PublicationOf(z, accepted[i])

\* One publication never carries two rows: a commitment names one burn event.
OnePublicationPerRow ==
  \A i, j \in 1 .. Len(accepted) :
    accepted[i].zcashTx = accepted[j].zcashTx => i = j

\* Every row of rebuildLedger stands on both chains: on one burn, signed and
\* final, and on one confirmed publication that carries no other row.
RowsSound ==
  TypeOK /\ RowsAreBurned /\ RowsArePublished /\ OnePublicationPerRow

\* The issuances the transactions replayed so far give a published claim to.
Published ==
  {issuanceOf(tx) : tx \in {ty \in Range(replayed) :
     complete(ty) /\ valid(ty) /\ Matches(issuanceOf(ty)) # {}}}

\* PROTOCOL section 12, "two independent validators that replay the same
\* transactions produce the same accepted set": the rows are a function of the
\* set of transactions and the set of publications, the lowest txid winning.
ReplayAgrees ==
  /\ {row.issuance : row \in Range(accepted)} = Published
  /\ \A row \in Range(accepted) : \A z \in Matches(row.issuance) :
       row.zcashTx <= z.txid

\* PROTOCOL section 13: when the tally is done, the stamp units of a mint are
\* the sum of the distinct published burns of that mint, and nothing else.
UnitsConserved ==
  phase = "tally" /\ counted = Len(accepted) =>
    \A m \in Mint :
      units[m] = MapThenSumSet(LAMBDA issuance : issuance.amount,
                               {issuance \in Published : issuance.mint = m})

\* Two validators that replay the same transactions and publications, in any
\* order of the feed, show the same rows and the same stamp units.
ValidatorsAgree == ReplayAgrees /\ UnitsConserved
=============================================================================
