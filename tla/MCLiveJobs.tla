---------------------------- MODULE MCLiveJobs ------------------------------
(***************************************************************************)
(* Instance of LiveJobs: a burn done in two instructions, one of them      *)
(* inside another program's call, submitted as it is, for a destination    *)
(* its memo does not name, and by another owner, for an amount it is not   *)
(* of and for its amount.  Two jobs of one burn are thus part of it.       *)
(***************************************************************************)
EXTENDS LiveJobs

Instruction(program, parsed, mint, amount, who, text) ==
  [program |-> program, parsed |-> parsed, mint |-> mint, amount |-> amount,
   authority |-> who, multisig |-> Absent, text |-> text]

burning(n) == Instruction("token", "burnChecked", "gold", n, "ann", Absent)
memo(d) == Instruction("memo2", Absent, Absent, Absent, Absent, {d})
other == Instruction("system", "transfer", "gold", 9, "ann", Absent)

good ==
  [err |-> FALSE, signers |-> {"ann"}, outer |-> <<other, memo("home"), burning(1)>>,
   inner |-> <<burning(1)>>]
MCBurn == [good |-> good]

Of(who, n, d) ==
  [owner |-> who, sourceTx |-> "good", mint |-> "gold", amount |-> n,
   destination |-> d]

honest == Of("ann", 2, "home")
MCSubmission == {honest, Of("ann", 2, "away"), Of("bob", 1, "home"), Of("bob", 2, "home")}
MCHonest == {honest}
MCTwoOwners == {honest, Of("bob", 2, "home")}
MCDelegate == {Of("bob", 2, "home")}
MCCoins == <<2>>
=============================================================================
