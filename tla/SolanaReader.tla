---------------------------- MODULE SolanaReader ----------------------------
(***************************************************************************)
(* src/lib/solana/rpc.ts: what a Solana transaction says about burns. A    *)
(* transaction is what getTransaction returns at finalized commitment:     *)
(*   [err |-> failed?, signers |-> keys,                                   *)
(*    outer |-> message instructions, inner |-> instructions they invoked] *)
(* An instruction names its program and what the RPC parsed it as. Fields  *)
(* a transaction leaves out are Absent.                                    *)
(***************************************************************************)
EXTENDS Integers, SequencesExt

CONSTANT Absent   \* a field the RPC left out
TokenPrograms == {"token", "token2022"}
MemoPrograms == {"memo1", "memo2"}

allInstructions(tx) == tx.outer \o tx.inner

\* A multisig burn names the multisig account in place of an authority.
authorityOf(i) == IF i.authority # Absent THEN i.authority ELSE i.multisig

readsAsBurn(i) ==
    /\ i.program \in TokenPrograms
    /\ i.parsed \in {"burn", "burnChecked"}
    /\ i.mint # Absent
    /\ authorityOf(i) # Absent
    /\ i.amount # Absent

readsAsMemo(i) == i.program \in MemoPrograms /\ i.text # Absent

burnsIn(tx) == SelectSeq(allInstructions(tx), readsAsBurn)
burnsOfMint(tx, m) == SelectSeq(burnsIn(tx), LAMBDA i : i.mint = m)
burnedMints(tx) == {burnsIn(tx)[k].mint : k \in DOMAIN burnsIn(tx)}
burnedAmount(tx, m) == FoldSeq(LAMBDA i, sum : sum + i.amount, 0, burnsOfMint(tx, m))

\* A transaction is signed as a whole, the memos included.
memosIn(tx) ==
    LET all == allInstructions(tx)
    IN  {[text |-> all[k].text, signers |-> tx.signers] :
            k \in {k \in DOMAIN all : readsAsMemo(all[k])}}

\* One record per mint destroyed. Burns of one mint are summed: a stamp cites
\* a signature and nothing finer. The first one names the authority.
decodeBurns(tx, finalized) ==
    {[mint |-> m, amount |-> burnedAmount(tx, m),
      authority |-> authorityOf(burnsOfMint(tx, m)[1]),
      memos |-> memosIn(tx), err |-> tx.err, finalized |-> finalized] :
        m \in burnedMints(tx)}

=============================================================================
