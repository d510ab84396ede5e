------------------------------ MODULE BurnRules ------------------------------
(***************************************************************************)
(* The stamp-exp/0 acceptance rules of src/lib/protocol/validate.ts: when  *)
(* a Solana transaction is an eligible burn, which issuance it is, and     *)
(* when a Zcash transaction publishes that issuance.  No variables.        *)
(*                                                                         *)
(* Abstractions: a commitment is the issuance it hashes; signatures, txids *)
(* and locators are numbers ordered as their strings are; the checks of    *)
(* the mint account that only compare static properties (token program,    *)
(* initialization, decimals, extensions) are one flag each or share the    *)
(* flag mintEligible; a Zcash transaction is the issuance its first STMP    *)
(* output commits to, the commitments any of its data outputs contain, and *)
(* the addresses it pays at least the dust value.                          *)
(***************************************************************************)
EXTENDS Integers, Sequences

CONSTANTS
  Mint,               \* token mints
  NativeMint,         \* the SOL mint, which cannot be burned for a stamp
  Holder,             \* Solana accounts: owners, delegates, signers
  Destination,        \* Zcash destinations named by intents
  ValidDestination,   \* those of them in a form validateDestination accepts
  SourceNetwork,      \* Solana networks
  DestNetwork,        \* Zcash networks
  Source,             \* the pair of networks this validator serves
  Dest,
  None,
  MinConfirmations    \* minZcashConfirmations

ASSUME BurnAssumption ==
  /\ NativeMint \in Mint
  /\ ValidDestination \subseteq Destination
  /\ Source \in SourceNetwork /\ Dest \in DestNetwork
  /\ MinConfirmations \in Nat
  /\ None \notin Destination \cup Nat

\* decodeBurn: the first Burn or BurnChecked instruction of the transaction.
BurnDecode == [locator : Nat, mint : Mint, authority : Holder, amount : Nat]

\* decodeIntents: the STAMP intent memos of the transaction.
Intent == [network : DestNetwork, mint : Mint, amount : Nat,
           destination : Destination]

\* The token account the burn spends from, as it was in the transaction.
TokenAccount == [mint : Mint, owner : Holder, delegate : Holder \cup {None},
                 delegated : Nat, frozen : BOOLEAN]

CanonicalSolanaTx ==
  [signature : Nat, slot : Nat, network : SourceNetwork, failed : BOOLEAN,
   finalized : BOOLEAN, burn : BurnDecode \cup {None}, mint : Mint,
   mintEligible : BOOLEAN, account : TokenAccount, signers : SUBSET Holder,
   intents : Seq(Intent)]

IssuanceFields ==
  [sourceTx : Nat, burnLocator : Nat, mint : Mint, amount : Nat,
   destination : Destination, burnAuthority : Holder,
   role : {"owner", "delegate"}]

ZcashPublication ==
  [txid : Nat, network : DestNetwork, height : Nat, confirmations : Nat,
   inBestChain : BOOLEAN, payload : IssuanceFields \cup {None},
   mentions : SUBSET IssuanceFields, pays : SUBSET Destination]

AcceptedIssuance ==
  [issuance : IssuanceFields, zcashTx : Nat, zcashHeight : Nat,
   confirmations : Nat]

-----------------------------------------------------------------------------

authorityRole(tx) ==
  IF tx.account.owner = tx.burn.authority THEN "owner"
  ELSE IF /\ tx.account.delegate = tx.burn.authority
          /\ tx.account.delegated >= tx.burn.amount
    THEN "delegate"
  ELSE "none"

\* The one STAMP intent of the transaction, for the burned amount.
intentMatches(tx, destination) ==
  /\ Len(tx.intents) = 1
  /\ tx.intents[1].mint = tx.burn.mint
  /\ tx.intents[1].amount = tx.burn.amount
  /\ tx.intents[1].network = Dest
  /\ tx.intents[1].destination = destination
  /\ destination \in ValidDestination

\* tx is the burn that a claim of amount base units of mint, for a stamp at
\* destination, describes.  (The code also says which check failed first.)
validateBurn_unfinalized(tx, mint, amount, destination) ==
  /\ tx.network = Source
  /\ ~tx.failed
  /\ tx.burn # None
  /\ tx.burn.mint = mint /\ tx.burn.mint = tx.mint
  /\ tx.mint # NativeMint
  /\ tx.burn.amount = amount /\ amount > 0
  /\ tx.mintEligible
  /\ tx.account.mint = tx.burn.mint /\ ~tx.account.frozen
  /\ authorityRole(tx) # "none"
  /\ tx.burn.authority \in tx.signers
  /\ intentMatches(tx, destination)

validateBurn(tx, mint, amount, destination) ==
  /\ tx.network = Source
  /\ ~tx.failed /\ tx.finalized
  /\ tx.burn # None
  /\ tx.burn.mint = mint /\ tx.burn.mint = tx.mint
  /\ tx.mint # NativeMint
  /\ tx.burn.amount = amount /\ amount > 0
  /\ tx.mintEligible
  /\ tx.account.mint = tx.burn.mint /\ ~tx.account.frozen
  /\ authorityRole(tx) # "none"
  /\ tx.burn.authority \in tx.signers
  /\ intentMatches(tx, destination)

\* The issuance a valid burn stands for.  Its commitment covers the burn event.
issuanceOf(tx) ==
  [sourceTx |-> tx.signature, burnLocator |-> tx.burn.locator,
   mint |-> tx.burn.mint, amount |-> tx.burn.amount,
   destination |-> tx.intents[1].destination,
   burnAuthority |-> tx.burn.authority, role |-> authorityRole(tx)]

deepEnough_mempool(z) == z.inBestChain
deepEnough(z) == z.inBestChain /\ z.confirmations >= MinConfirmations

\* validatePublication: z publishes the issuance.
publicationMatches_anyPayload(issuance, z) ==
  /\ z.network = Dest
  /\ z.payload # None
  /\ issuance.destination \in z.pays
  /\ deepEnough(z)

publicationMatches(issuance, z) ==
  /\ z.network = Dest
  /\ z.payload = issuance
  /\ issuance.destination \in z.pays
  /\ deepEnough(z)

acceptIssuance(issuance, z) ==
  [issuance |-> issuance, zcashTx |-> z.txid, zcashHeight |-> z.height,
   confirmations |-> z.confirmations]

\* Of several publications the one with the lowest txid wins.
winner_highest(matches) ==
  CHOOSE z \in matches : \A y \in matches : z.txid >= y.txid

winner(matches) ==
  CHOOSE z \in matches : \A y \in matches : z.txid <= y.txid
=============================================================================
