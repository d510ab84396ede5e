------------------------------ MODULE MCWallet ------------------------------
(***************************************************************************)
(* Instance of WalletClient: two tabs of one browser, a user with two      *)
(* Solana accounts and one transparent address.                            *)
(***************************************************************************)
EXTENDS WalletClient

CONSTANTS ann, bob, t1
=============================================================================
