--------------------------- MODULE MCInscriptions ---------------------------
(***************************************************************************)
(* A small instance of Publication: texts on both sides of the boundary of *)
(* one push, a transaction that burns two mints, purses on both sides of   *)
(* the change threshold, an upgrade inside the expiry window, and others   *)
(* who copy a stamp, deliver it to nobody or claim too much.               *)
(***************************************************************************)
EXTENDS Publication

MCWidth == [s \in {"stamp-exp", "ord-other", "M", "N", "b", "c", "t1", "t2"} |->
  CASE s \in {"stamp-exp", "ord-other"} -> 9
    [] s = "M" -> 43 [] s = "N" -> 44
    [] s = "b" -> 87 [] s = "c" -> 88
    [] OTHER -> 35]

stamp(p, mint, burn, amt, to) ==
  [op |-> "mint", p |-> p, mint |-> mint, burn |-> burn, amt |-> amt, to |-> to]

MCText == <<
  stamp("stamp-exp", "N", "c", 5, "t1"),        \* 240 characters: one push
  stamp("stamp-exp", "M", "b", 1500, "t1"),     \* 241 characters: two
  stamp("stamp-exp", "N", "b", 70000, "t1"),    \* the same transaction's other mint
  stamp("stamp-exp", "M", "b", 2500, "t1"),     \* claims too much
  stamp("stamp-exp", "M", "b", 1500, "t2"),     \* to somebody the burner did not name
  stamp("ord-other", "M", "b", 1500, "t1"),     \* of another protocol
  NotAStamp >>                                  \* an envelope with another body

MCScript == [k \in DOMAIN MCText |-> inscriptionScriptSig(k, 72)]

memoTo(to) == {[text |-> to, signers |-> {"alice"}]}
burn(signature, mint, amount, err) ==
  [signature |-> signature, err |-> err, mint |-> mint, amountBase |-> amount,
   authority |-> "alice", memos |-> memoTo("t1") \cup {[text |-> "t2", signers |-> {"bob"}]}]

MCBurns == << burn("b", "M", 1500, FALSE), burn("b", "N", 70000, FALSE),
              burn("c", "N", 5, FALSE) >>

coinsOf(values) == {[id |-> i, value |-> values[i]] : i \in DOMAIN values}
MCPurse == { coinsOf(<<40000, 32000>>),      \* two pairs
             coinsOf(<<18000, 13091, 600>>) } \* change one zatoshi short; a coin below its fee

paid(to, zatoshis) == <<[address |-> to, zatoshis |-> zatoshis]>>
MCOthers == { [script |-> 2, outputs |-> paid("t1", 546)],
              [script |-> 2, outputs |-> paid("t2", 546)],
              [script |-> 4, outputs |-> paid("t1", 546)],
              [script |-> 5, outputs |-> paid("t2", 546)],
              [script |-> 6, outputs |-> paid("t1", 546)] }

MCUpgrade == <<5, 13>>
=============================================================================
