------------------------------ MODULE Inscribe ------------------------------
(***************************************************************************)
(* What a stamp costs and the pair of transactions that publishes it       *)
(* (src/lib/zcash/inscribe.ts, fees.ts, consensus.ts): a commit that funds *)
(* a P2SH output from the publisher's coins, and a reveal that spends that *)
(* output and delivers dust.  Transactions keep their inputs, outputs, fee, *)
(* expiry and branch; keys, digests and txids are left out.                *)
(***************************************************************************)
EXTENDS Envelope, FiniteSets, FiniteSetsExt

CONSTANTS
  MARGINAL_FEE,         \* zatoshi per logical action
  DUST,                 \* the least value of an output that is relayed
  DEFAULT_EXPIRY_DELTA, \* blocks after the tip at which a transaction expires
  Upgrade               \* Upgrade[n]: the height the n-th known epoch starts at

ASSUME InscribeAssumption ==
  /\ MARGINAL_FEE \in Nat /\ DUST \in Nat \ {0} /\ DEFAULT_EXPIRY_DELTA \in Nat
  /\ Upgrade \in Seq(Nat) /\ Upgrade # << >>

GRACE_ACTIONS == 2
P2PKH_STANDARD_INPUT_SIZE == 150
P2PKH_STANDARD_OUTPUT_SIZE == 34
P2SH_SCRIPT == 23     \* the commit's output
P2PKH_SCRIPT == 25    \* the change and the stamp's destination

(* --------------------------------- fees -------------------------------- *)

divCeil(a, b) == (a + b - 1) \div b
compactSize(n) == IF n < 253 THEN 1 ELSE 3
inputSize(scriptSig) == 32 + 4 + compactSize(scriptSig) + scriptSig + 4
outputSize(script) == 8 + compactSize(script) + script

\* Inputs and outputs are totalled, each counted in standard sizes, and the
\* larger count is charged, but never less than GRACE_ACTIONS.
logicalActions(inputs, outputs) ==
  LET inTotal == SumFunction([i \in DOMAIN inputs |-> inputSize(inputs[i])])
      outTotal == SumFunction([i \in DOMAIN outputs |-> outputSize(outputs[i])])
  IN Max({divCeil(inTotal, P2PKH_STANDARD_INPUT_SIZE),
          divCeil(outTotal, P2PKH_STANDARD_OUTPUT_SIZE)})

conventionalFee(inputs, outputs) ==
  MARGINAL_FEE * Max({logicalActions(inputs, outputs), GRACE_ACTIONS})

(* --------------------------------- plan -------------------------------- *)

MAX_SIGNATURE_PUSH_BYTES == 73
MAX_SCRIPT_ELEMENT_SIZE == 520
P2PKH_SCRIPTSIG_BYTES == 1 + MAX_SIGNATURE_PUSH_BYTES + 1 + 33

planInscription_envelopeOnly(k) ==
  LET sized == Len(encodeStamp(k)) + 1 + MAX_SIGNATURE_PUSH_BYTES
      fee == conventionalFee(<<sized>>, <<P2PKH_SCRIPT>>)
  IN [text |-> k,
      fits |-> Len(inscriptionRedeemScript(k)) <= MAX_SCRIPT_ELEMENT_SIZE,
      dustZat |-> DUST, revealFeeZat |-> fee,
      commitOutputZat |-> DUST + fee,
      revealScriptSigBytes |-> Len(inscriptionScriptSig(k, MAX_SIGNATURE_PUSH_BYTES))]

\* The plan for text k: how long the signed reveal can get, what it then has
\* to pay, and so what the commit's output has to hold.
planInscription(k) ==
  LET sized == Len(inscriptionScriptSig(k, MAX_SIGNATURE_PUSH_BYTES))
      fee == conventionalFee(<<sized>>, <<P2PKH_SCRIPT>>)
  IN [text |-> k,
      fits |-> Len(inscriptionRedeemScript(k)) <= MAX_SCRIPT_ELEMENT_SIZE,
      dustZat |-> DUST, revealFeeZat |-> fee,
      commitOutputZat |-> DUST + fee, revealScriptSigBytes |-> sized]

(* -------------------------------- commit ------------------------------- *)

value(coins) == SumFunction([coin \in coins |-> coin.value])

candidates_smallest(coins, n) ==
  {c \in coins : Cardinality({d \in coins : d.value < c.value \/ (d.value = c.value /\ d.id < c.id)}) < n}

\* The n largest coins; coins of one value in the order the node lists them.
larger(a, b) == a.value > b.value \/ (a.value = b.value /\ a.id < b.id)
candidates(coins, n) == {c \in coins : Cardinality({d \in coins : larger(d, c)}) < n}

commitFee(inputs, outputs) == conventionalFee([i \in 1 .. inputs |-> P2PKH_SCRIPTSIG_BYTES], outputs)

funding_anyChange(plan, chosen) ==
  LET left == value(chosen) - plan.commitOutputZat
      withChange == commitFee(Cardinality(chosen), <<P2SH_SCRIPT, P2PKH_SCRIPT>>)
      withoutChange == commitFee(Cardinality(chosen), <<P2SH_SCRIPT>>)
  IN CASE left > withChange ->
            [funded |-> TRUE, spent |-> chosen, feeZat |-> withChange, changeZat |-> left - withChange]
       [] left <= withChange /\ left >= withoutChange ->
            [funded |-> TRUE, spent |-> chosen, feeZat |-> left, changeZat |-> 0]
       [] OTHER -> [funded |-> FALSE, spent |-> {}, feeZat |-> 0, changeZat |-> 0]

\* What the first n candidates make of the commit: change when it is worth an
\* output, otherwise all that is left goes to the fee, otherwise too little.
funding(plan, chosen) ==
  LET left == value(chosen) - plan.commitOutputZat
      withChange == commitFee(Cardinality(chosen), <<P2SH_SCRIPT, P2PKH_SCRIPT>>)
      withoutChange == commitFee(Cardinality(chosen), <<P2SH_SCRIPT>>)
  IN CASE left - withChange >= DUST ->
            [funded |-> TRUE, spent |-> chosen, feeZat |-> withChange, changeZat |-> left - withChange]
       [] left - withChange < DUST /\ left >= withoutChange ->
            [funded |-> TRUE, spent |-> chosen, feeZat |-> left, changeZat |-> 0]
       [] OTHER -> [funded |-> FALSE, spent |-> {}, feeZat |-> 0, changeZat |-> 0]

\* The fewest candidates that fund the commit; unfunded if all of them do not.
buildCommit(plan, coins) ==
  LET enough == {n \in 1 .. Cardinality(coins) : funding(plan, candidates(coins, n)).funded}
  IN funding(plan, IF enough = {} THEN {} ELSE candidates(coins, Min(enough)))

outputs(plan, commit) ==
  <<P2SH_SCRIPT>> \o (IF commit.changeZat > 0 THEN <<P2PKH_SCRIPT>> ELSE << >>)

(* ----------------------------- the envelope of both -------------------- *)

\* The epoch of a block: the last upgrade active at its height (0: too old).
upgradeForHeight(height) == Cardinality({n \in DOMAIN Upgrade : Upgrade[n] <= height})

transactionShell_tipBranch(tip) ==
  LET expiry == tip + DEFAULT_EXPIRY_DELTA
  IN [expiryHeight |-> expiry, branch |-> upgradeForHeight(tip + 1),
      alive |-> expiry > tip /\ upgradeForHeight(expiry) > 0]

\* Both halves expire DEFAULT_EXPIRY_DELTA blocks after the tip and carry the
\* branch of that height.
transactionShell(tip) ==
  LET expiry == tip + DEFAULT_EXPIRY_DELTA
  IN [expiryHeight |-> expiry, branch |-> upgradeForHeight(expiry),
      alive |-> expiry > tip /\ upgradeForHeight(expiry) > 0]

(* ------------------------------- the pair ------------------------------ *)

\* Both halves with what they cost the publisher.
pairOf(plan, commit, shell) ==
  [text |-> plan.text,
   built |-> plan.fits /\ commit.funded /\ shell.alive,
   spent |-> commit.spent, changeZat |-> commit.changeZat,
   commitFeeZat |-> commit.feeZat,
   totalZat |-> commit.feeZat + plan.revealFeeZat + plan.dustZat,
   expiryHeight |-> shell.expiryHeight, branch |-> shell.branch]

buildStamp(plan, coins, tip) ==
  pairOf(plan, buildCommit(plan, coins), transactionShell(tip))

\* The reveal spends the commit's first output, pays the dust out of it and
\* leaves the rest as its fee; its scriptSig may not outgrow the plan.
buildReveal(plan) == [feeZat |-> plan.commitOutputZat - plan.dustZat, deliversZat |-> plan.dustZat]

finalizeReveal(plan, length) ==
  [scriptSig |-> inscriptionScriptSig(plan.text, length),
   fits |-> Len(inscriptionScriptSig(plan.text, length)) <= plan.revealScriptSigBytes]

\* The lengths of the commit's signed inputs, one signature for each.
finalizeP2pkhInputs(pair, length) == [i \in 1 .. Cardinality(pair.spent) |-> 1 + length + 1 + 33]
=============================================================================
