-------------------------- MODULE OwnershipReplay --------------------------
(***************************************************************************)
(* Ownership as an operator sees it over time: the chain grows, loses its  *)
(* youngest blocks to reorgs, artifacts are published with their records   *)
(* or later, and resolveOwnership (src/lib/protocol/ownership.ts) is run   *)
(* from scratch on whatever is there (src/lib/indexer/index.ts).           *)
(***************************************************************************)
EXTENDS OwnershipRules

CONSTANTS
  Artifact,   \* the artifacts the owners sign
  Withheld,   \* those published only some time after their record
  MaxBlocks   \* bound: height of the chain

ASSUME ReplayAssumption ==
  /\ Artifact \subseteq SettlementOffer \cup TransferAuthorization
  /\ Withheld \subseteq Artifact
  /\ MaxBlocks \in Nat
  /\ MinConfirmations \in Nat \ {0}

VARIABLES
  mined,      \* the records on the chain so far, in canonical order
  tip,        \* height of the best chain
  published   \* the artifacts anyone can fetch

replayVars == <<mined, tip, published>>

ReplayInit == mined = << >> /\ tip = 0 /\ published = {}

\* What a node reports of record r when the best chain ends at height h.
reported(r, h) ==
  [r EXCEPT !.confirmations = h - r.place + 1]

record(artifact, h) ==
  [kind |-> IF "seller" \in DOMAIN artifact THEN "offer" ELSE "transfer",
   stamp |-> artifact.stamp, sequence |-> artifact.sequence,
   artifact |-> artifact, place |-> h, network |-> DestinationNetwork,
   inBestChain |-> TRUE, confirmations |-> 1]

indexed ==
  resolveOwnership([i \in 1 .. Len(mined) |-> reported(mined[i], tip)],
                   published)

\* A block with no record of ours.
EmptyBlock ==
  /\ tip < MaxBlocks
  /\ tip' = tip + 1
  /\ UNCHANGED <<mined, published>>

\* A block with the record of an artifact, which is published with it unless
\* its signer holds it back.
RecordBlock(artifact) ==
  /\ tip < MaxBlocks
  /\ tip' = tip + 1
  /\ mined' = Append(mined, record(artifact, tip + 1))
  /\ published' =
       IF artifact \in Withheld THEN published ELSE published \cup {artifact}

\* An artifact held back so far becomes available.
Release(artifact) ==
  /\ artifact \in Withheld \ published
  /\ published' = published \cup {artifact}
  /\ UNCHANGED <<mined, tip>>

\* A reorg shallower than the confirmation depth: a longer fork replaces the
\* last blocks, and their records are gone until they are mined again.
Reorg(depth) ==
  /\ tip < MaxBlocks /\ depth <= tip
  /\ tip' = tip + 1
  /\ \E kept \in 0 .. Len(mined) :
       /\ \A i \in 1 .. Len(mined) : i <= kept <=> mined[i].place <= tip - depth
       /\ mined' = SubSeq(mined, 1, kept)
  /\ UNCHANGED published

ReplayNext ==
  \/ EmptyBlock
  \/ \E artifact \in Artifact : RecordBlock(artifact)
  \/ \E artifact \in Withheld : Release(artifact)
  \/ \E depth \in 1 .. MinConfirmations - 1 : Reorg(depth)

ReplaySpec == ReplayInit /\ [][ReplayNext]_replayVars

-----------------------------------------------------------------------------

IsPrefixOf(s, t) == Len(s) <= Len(t) /\ SubSeq(t, 1, Len(s)) = s

BindingKept(c) ==
  \A n \in Sequence :
    indexed[c].boundOffers[n] # None =>
      indexed'[c].boundOffers[n] = indexed[c].boundOffers[n]

\* However the chain goes on (blocks, and reorgs shallower than the confirmation
\* depth), it takes back neither an accepted transfer nor a binding offer,
\* although the indexer starts from nothing each time.
AcceptedIsFinal ==
  [][tip' # tip =>
       \A c \in Issued :
         /\ IsPrefixOf(indexed[c].history, indexed'[c].history)
         /\ BindingKept(c)]_replayVars

\* The records up to the i-th whose artifact can be fetched.
resolvable[i \in 0 .. Len(mined)] ==
  IF i = 0 THEN << >>
  ELSE IF mined[i].artifact \in published THEN Append(resolvable[i - 1], mined[i])
  ELSE resolvable[i - 1]

\* A record whose artifact is missing consumes no sequence and binds none
\* (PROTOCOL.md, 23): ownership is what it would be without the record.
UnresolvableHasNoEffect ==
  LET fetched == resolvable[Len(mined)]
  IN  indexed = resolveOwnership(
        [i \in 1 .. Len(fetched) |-> reported(fetched[i], tip)], published)

\* "A participant who withholds an artifact cannot steal a stamp"
\* (THREAT_MODEL.md): what its accepted owner received is not taken back.
NoTheftByWithholding ==
  [][\A c \in Issued : IsPrefixOf(indexed[c].history, indexed'[c].history)]_replayVars

\* "The first confirmed offer at a sequence binds it" (PROTOCOL.md, 21): a
\* binding offer stays the binding one.
FirstConfirmedBinds == [][\A c \in Issued : BindingKept(c)]_replayVars
=============================================================================
