---------------------------- MODULE LedgerReplay ----------------------------
(***************************************************************************)
(* The issuance ledger over time: publishers race to publish the finalized *)
(* burns, the Zcash chain grows and loses its youngest blocks to reorgs,   *)
(* and rebuildLedger (src/lib/protocol/ledger.ts) is run from scratch on   *)
(* whatever the chain holds.  The burns are valid and final; Ledger.tla    *)
(* has the loop over arbitrary ones.                                       *)
(***************************************************************************)
EXTENDS BurnRules, FiniteSets

CONSTANTS
  Burns,      \* the issuances of the finalized burns
  Txid,       \* the txids publications happen to get
  MaxHeight   \* bound: height of the Zcash chain

ASSUME ReplayAssumption ==
  /\ Burns \subseteq IssuanceFields
  /\ Txid \subseteq Nat
  /\ MaxHeight \in Nat
  /\ MinConfirmations \in Nat \ {0}

VARIABLES
  chain,  \* the publications in the best chain
  tip     \* its height

replayVars == <<chain, tip>>

ReplayInit == chain = {} /\ tip = 0

\* The chain as a node reports it when it ends at height h.
reported(pubs, h) ==
  {[z EXCEPT !.confirmations = h - z.height + 1] : z \in pubs}

matches(issuance) ==
  {z \in reported(chain, tip) : publicationMatches(issuance, z)}

\* The rows of the ledger: one per burn with a confirmed publication.
ledger ==
  {acceptIssuance(b, winner(matches(b))) : b \in {c \in Burns : matches(c) # {}}}

publication(issuance, txid, h) ==
  [txid |-> txid, network |-> Dest, height |-> h, confirmations |-> 1,
   inBestChain |-> TRUE, payload |-> issuance, mentions |-> {issuance},
   pays |-> {issuance.destination}]

\* Some publisher's transaction for a burn is mined in the next block.
Publish(issuance, txid) ==
  /\ tip < MaxHeight
  /\ \A z \in chain : z.txid # txid
  /\ tip' = tip + 1
  /\ chain' = chain \cup {publication(issuance, txid, tip + 1)}

EmptyBlock ==
  /\ tip < MaxHeight
  /\ tip' = tip + 1
  /\ UNCHANGED chain

\* A reorg shallower than the confirmation depth: a longer fork replaces the
\* last blocks and their publications.
Reorg(depth) ==
  /\ tip < MaxHeight /\ depth <= tip
  /\ tip' = tip + 1
  /\ chain' = {z \in chain : z.height <= tip - depth}

ReplayNext ==
  \/ \E issuance \in Burns, txid \in Txid : Publish(issuance, txid)
  \/ EmptyBlock
  \/ \E depth \in 1 .. MinConfirmations - 1 : Reorg(depth)

ReplaySpec == ReplayInit /\ [][ReplayNext]_replayVars

-----------------------------------------------------------------------------

\* Racing publishers and shallow reorgs never take an accepted burn off the
\* ledger, and never count it twice: the units of stamps only grow.
AcceptedStays ==
  [][/\ {row.issuance : row \in ledger} \subseteq
          {row.issuance : row \in ledger'}
     /\ \A row, other \in ledger' :
          row.issuance = other.issuance => row = other]_replayVars

\* "Prefer the publication that first reached the confirmation threshold in the
\* surviving best chain" (PROTOCOL.md, 12): a row keeps its publication for as
\* long as the chain holds it.
FirstConfirmedWins ==
  [][\A row \in ledger, next \in ledger' :
       /\ row.issuance = next.issuance
       /\ \E z \in chain' : z.txid = row.zcashTx
       => next.zcashTx = row.zcashTx]_replayVars
=============================================================================
