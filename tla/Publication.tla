---------------------------- MODULE Publication -----------------------------
(***************************************************************************)
(* The publisher, the Zcash chain and the index of its inscriptions.  The  *)
(* publisher turns a verified burn into a commit and a reveal paid from    *)
(* its coins (publishIssuance of src/lib/modules/publisher.ts, one step    *)
(* here: LiveJobs has the steps between its calls); the node takes them or *)
(* refuses, blocks mine or replace them, others inscribe what they like,   *)
(* burns become final, and the index is read from what is on chain.        *)
(***************************************************************************)
EXTENDS Inscriptions

CONSTANTS
  Stamp,        \* the texts the publisher is asked to publish
  Purse,        \* the sets of coins the publisher may start with, ids to 100
  Others,       \* the inscriptions others make: [script, outputs]
  StartTip, MaxTip,   \* the chain's height at the start, and its bound
  MaxMade, MaxOthers, \* bounds: pairs built, others' inscriptions
  MaxReorgs           \* bound: blocks replaced

ASSUME PublicationAssumption ==
  /\ MaxTip \in Nat /\ StartTip \in 0 .. MaxTip /\ MaxMade \in Nat /\ MaxOthers \in Nat
  /\ Stamp \subseteq Texts /\ Stamp \subseteq DOMAIN Script
  /\ \A P \in Purse : /\ IsFiniteSet(P) /\ P \subseteq [id : 0 .. 100, value : Nat]
                      /\ \A c, d \in P : c.id = d.id => c = d
  /\ \A o \in Others : o.script \in DOMAIN Script

VARIABLES
  tip,      \* the height of the best chain
  coins,    \* the publisher's unspent coins on that chain: [id, value]
  funds,    \* what the publisher started with
  made,     \* the pairs handed to the node, in order
  others,   \* others' inscriptions on chain
  final,    \* signatures final on Solana
  reorgs    \* blocks replaced so far

vars == <<tip, coins, funds, made, others, final, reorgs>>

Pool == 0
Refused == -1

\* The plans, and the reveals signed with a DER signature of each length it
\* comes in, hash type byte included.
Plans == {planInscription(k) : k \in Stamp}
Plan(k) == CHOOSE plan \in Plans : plan.text = k

SignatureBytes == {70, 71, 72}
Reveals ==
  {LET signed == finalizeReveal(plan, n)
   IN [text |-> plan.text, length |-> n, fits |-> signed.fits, bytes |-> Len(signed.scriptSig),
       spells |-> decodeStamp(signed.scriptSig), taken |-> nodeAcceptsScript(signed.scriptSig)] :
     plan \in Plans, n \in SignatureBytes}
Reveal(k, length) == CHOOSE r \in Reveals : r.text = k /\ r.length = length

Init ==
  /\ tip = StartTip
  /\ coins \in Purse /\ funds = value(coins)
  /\ made = << >> /\ others = {}
  /\ final = {} /\ reorgs = 0

(* ------------------------------ publishing ----------------------------- *)

alive(pair, height) == height <= pair.expiryHeight

\* The pairs whose commit is mined, and those whose commit still may be.
mined == {i \in DOMAIN made : made[i].commit > 0}
waiting(i) == made[i].commit = Pool /\ alive(made[i], tip + 1)
spoken == UNION {made[i].spent : i \in {j \in DOMAIN made : waiting(j)}}

\* A pair as the node has it: nothing of it mined, its reveal taken or refused.
handed(pair, txid, taken) ==
  LET fate == [txid |-> txid, commit |-> Pool, reveal |-> IF taken THEN Pool ELSE Refused]
  IN [f \in DOMAIN pair \cup DOMAIN fate |-> IF f \in DOMAIN fate THEN fate[f] ELSE pair[f]]

\* The node takes a commit that spends coins nobody in its pool spends, on the
\* branch of the next block; the reveal follows if its script may spend.
Publish(k) ==
  LET pair == buildStamp(Plan(k), coins, tip)
      signed == Reveal(k, 72)
  IN /\ Len(made) < MaxMade
     /\ Text[k].burn \in final
     /\ pair.built /\ signed.fits
     /\ pair.spent \cap spoken = {}
     /\ pair.branch = upgradeForHeight(tip + 1)
     /\ made' = Append(made, handed(pair, 2 * Len(made) + 2, signed.taken))
     /\ UNCHANGED <<tip, coins, funds, others, final, reorgs>>

(* -------------------------------- chains ------------------------------- *)

change(i) == IF made[i].changeZat = 0 THEN {} ELSE {[id |-> 100 + i, value |-> made[i].changeZat]}
changes(S) == UNION {change(i) : i \in S}
spends(S) == UNION {made[i].spent : i \in S}

minable(i) == alive(made[i], tip + 1) /\ made[i].branch = upgradeForHeight(tip + 1)

\* A block takes commits whose coins exist, reveals whose commit is on chain
\* or in the same block, and at most one inscription of somebody else.
Mine(C, R, found) ==
  /\ tip < MaxTip
  /\ \A i \in C : made[i].commit = Pool /\ minable(i) /\ made[i].spent \subseteq coins
  /\ \A i \in R : made[i].reveal = Pool /\ minable(i) /\ (made[i].commit > 0 \/ i \in C)
  /\ Cardinality(others) + Cardinality(found) <= MaxOthers
  /\ \A item \in found : \A other \in others : item.txid # other.txid
  /\ tip' = tip + 1
  /\ made' = [i \in DOMAIN made |->
               [made[i] EXCEPT !.commit = IF i \in C THEN tip' ELSE @,
                               !.reveal = IF i \in R THEN tip' ELSE @]]
  /\ coins' = (coins \ spends(C)) \cup changes(C)
  /\ others' = others \cup found
  /\ UNCHANGED <<funds, final, reorgs>>

\* What somebody else may have in the next block, under any txid: only the
\* order of txids matters, so the publisher's are even and the others' odd.
foreign ==
  {[txid |-> 2 * n + 1, height |-> tip + 1, script |-> o.script, outputs |-> o.outputs] :
     o \in Others, n \in 0 .. MaxMade}

\* Another block takes the place of the last one and has none of this in it.
Reorg ==
  LET undone == {i \in DOMAIN made : made[i].commit = tip} IN
  /\ reorgs < MaxReorgs /\ tip > StartTip
  /\ reorgs' = reorgs + 1
  /\ made' = [i \in DOMAIN made |->
               [made[i] EXCEPT !.commit = IF @ = tip THEN Pool ELSE @,
                               !.reveal = IF @ = tip THEN Pool ELSE @]]
  /\ coins' = (coins \cup spends(undone)) \ changes(undone)
  /\ others' = {item \in others : item.height # tip}
  /\ UNCHANGED <<tip, funds, final>>

\* A burn becomes final on Solana.
Finalize(signature) ==
  /\ signature \notin final
  /\ final' = final \cup {signature}
  /\ UNCHANGED <<tip, coins, funds, made, others, reorgs>>

Next ==
  \/ \E k \in Stamp : Publish(k)
  \/ \E C, R \in SUBSET DOMAIN made, found \in {{}} \cup {{o} : o \in foreign} : Mine(C, R, found)
  \/ Reorg
  \/ \E i \in DOMAIN Burns : Finalize(Burns[i].signature)

Spec == Init /\ [][Next]_vars

(* ------------------------------ what is seen --------------------------- *)

\* A published reveal as an indexer observes it: one output, the dust.
observed(pair) ==
  [txid |-> pair.txid, height |-> pair.reveal, script |-> pair.text,
   outputs |-> <<[address |-> Text[pair.text].to,
                  zatoshis |-> buildReveal(Plan(pair.text)).deliversZat]>>]

inscriptions == others \cup {observed(made[i]) : i \in {j \in DOMAIN made : made[j].reveal > 0}}

stampSet == indexInscriptions(inscriptions, final, tip)

(* ------------------------------ properties ----------------------------- *)

TypeOK ==
  /\ tip \in StartTip .. MaxTip
  /\ \A coin \in coins : coin.value \in 0 .. funds
  /\ \A i \in DOMAIN made : made[i].commit \in {Pool} \cup StartTip + 1 .. tip
  /\ \A i \in DOMAIN made : made[i].reveal > 0 => made[i].commit \in 1 .. made[i].reveal

\* What the publisher has left and what its mined commits were said to cost
\* (CostBreakdown) is always what it started with, whatever blocks do.
CostIsWhatLeaves ==
  value(coins) + SumFunction([i \in mined |-> made[i].totalZat]) = funds

\* Signed, both halves pay at least the fee of their real size and so are
\* relayed, and a commit pays less than its largest size owes and the dust.
FeesFitTheSignedPair ==
  \A i \in DOMAIN made :
    LET pair == made[i]
        plan == Plan(pair.text)
        commitOwes(length) == conventionalFee(finalizeP2pkhInputs(pair, length),
                                outputs(plan, [changeZat |-> pair.changeZat]))
        revealOwes(length) == conventionalFee(<<Reveal(pair.text, length).bytes>>,
                                              <<P2PKH_SCRIPT>>)
    IN /\ \A length \in SignatureBytes : /\ pair.commitFeeZat >= commitOwes(length)
                                          /\ buildReveal(plan).feeZat >= revealOwes(length)
       /\ pair.commitFeeZat < commitOwes(MAX_SIGNATURE_PUSH_BYTES) + DUST
       /\ pair.changeZat = 0 \/ pair.changeZat >= DUST
       /\ value(pair.spent) = plan.commitOutputZat + pair.changeZat + pair.commitFeeZat

\* The greedy choice of coins finds a commit whenever some coins fund one.
FundsWheneverPossible ==
  \A k \in Stamp :
    buildCommit(Plan(k), coins).funded
      <=> \E S \in (SUBSET coins) \ {{}} :
            value(S) >= Plan(k).commitOutputZat + commitFee(Cardinality(S), <<P2SH_SCRIPT>>)

\* What the node took can be mined in every block up to its expiry.
StaysMinable ==
  \A i \in DOMAIN made :
    \A height \in tip + 1 .. made[i].expiryHeight :
      made[i].commit = Pool => made[i].branch = upgradeForHeight(height)

\* The signed script of a reveal, read back, carries the stamp it was made for.
RevealSpellsItsStamp ==
  \A i \in DOMAIN made : \A length \in SignatureBytes :
    Reveal(made[i].text, length).spells = Text[made[i].text]

\* A reveal whose text takes two pushes is not refused.
TwoChunksRedeem ==
  \A i \in DOMAIN made :
    Len(encodePayload(made[i].text)) \in CHUNK_BYTES + 1 .. 2 * CHUNK_BYTES
      => made[i].reveal # Refused

\* Every reveal can spend the output its commit funded (script.ts:169-174: the
\* drops of the redeem script clear the envelope).
RevealSpends == \A i \in DOMAIN made : made[i].reveal # Refused

\* A claim, read on its own: it would count if it were the only one.
validClaim(item) == verdict(item, carried(item.script), {}, final, tip) = "accepted"

\* What counts is, for every burn, its first valid claim in the order of the
\* chain, whatever else has been inscribed.
FirstValidClaimCounts ==
  stampSet.accepted =
    {item.txid : item \in
       {x \in inscriptions :
          /\ validClaim(x)
          /\ \A y \in inscriptions :
               (validClaim(y) /\ carried(y.script).stamp.burn = carried(x.script).stamp.burn /\ y # x)
                 => canonicalOrder(x, y)}}

\* No more is shown as stamped of a mint than was burned of it for good.
SupplyIsBurned ==
  \A mint \in Mints :
    stampSet.supplyByMint[mint] <=
      LET burned == {i \in DOMAIN Burns : /\ Burns[i].mint = mint /\ ~Burns[i].err
                                          /\ Burns[i].signature \in final}
      IN SumFunction([i \in burned |-> Burns[i].amountBase])

\* A stamp that counted goes on counting: later blocks, one replaced block and
\* later burns take nothing back.
StampsOnlyGrow == [][stampSet.accepted \subseteq stampSet'.accepted]_vars

\* The burn of a published stamp counts as claimed once the reveal is as deep
\* as the index asks for, by this stamp or by a claim that came before it.
PublishedIsClaimed ==
  \A i \in DOMAIN made :
    (made[i].reveal > 0 /\ tip - made[i].reveal + 1 >= MinConfirmations)
      => Text[made[i].text].burn \in stampSet.claimedBurns

\* What a pair pays: the publisher's purse always holds what it started with
\* less what its mined commits were said to cost, the fees are those of the
\* signed transactions, and coins that can fund a commit are found.
PairsPayTheirWay ==
  TypeOK /\ CostIsWhatLeaves /\ FeesFitTheSignedPair /\ FundsWheneverPossible

\* What counts: the first valid claim of every burn, and never more of a mint
\* than was burned of it (indexInscriptions).
FirstClaimsCount == FirstValidClaimCounts /\ SupplyIsBurned

\* What the publisher makes is what it was asked for: the reveal spells its
\* stamp, a stamp in two pushes is never refused, and its burn ends up claimed.
PublicationCounts == RevealSpellsItsStamp /\ TwoChunksRedeem /\ PublishedIsClaimed

\* Every burn of a published stamp can be claimed, each mint by its own stamp
\* (inscriptions.ts:125: one transaction can destroy several mints).
EveryMintIsClaimed ==
  \A i \in DOMAIN made :
    (made[i].reveal > 0 /\ tip - made[i].reveal + 1 >= MinConfirmations)
      => stampSet.supplyByMint[Text[made[i].text].mint] > 0
=============================================================================
