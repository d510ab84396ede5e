------------------------------ MODULE MCLaunch ------------------------------
(***************************************************************************)
(* Instance of LaunchPage: one wallet, one page, two calls at a time.      *)
(***************************************************************************)
EXTENDS LaunchPage
=============================================================================
