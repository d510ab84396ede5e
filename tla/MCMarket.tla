------------------------------ MODULE MCMarket ------------------------------
(***************************************************************************)
(* Instance of Market: one stamp issued to ann, who sells it or gives it   *)
(* away; bob and cy buy, resell and receive.                               *)
(***************************************************************************)
EXTENDS Market

CONSTANTS c1, ann, bob, cy

MCOriginalRecipient == [c \in {c1} |-> ann]
MCSecret == 1 .. MaxListings
=============================================================================
