---------------------------- MODULE MCJobWorker ----------------------------
(***************************************************************************)
(* Instance of JobWorker: submission j burns j of the holder's units.      *)
(***************************************************************************)
EXTENDS JobWorker

MCAmount == [j \in Job |-> j]
=============================================================================
