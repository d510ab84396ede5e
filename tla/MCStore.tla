------------------------------ MODULE MCStore -------------------------------
(***************************************************************************)
(* Instance of Store: two cold processes, one with two requests at once,   *)
(* over rows of every table, with every optional field empty and set.      *)
(***************************************************************************)
EXTENDS Store, TLC

CONSTANTS r1, r2, r3

MChost == (r1 :> "server") @@ (r2 :> "server") @@ (r3 :> "worker")
put(t1, f1, t2, f2, t3, f3) ==
  (r1 :> <<t1, f1>>) @@ (r2 :> <<t2, f2>>) @@ (r3 :> <<t3, f3>>)
MCPuts ==
  { put("jobs", TRUE, "demoState", FALSE, "jobs", FALSE),
    put("launches", FALSE, "listings", TRUE, "listings", FALSE),
    put("stamps", FALSE, "transfers", FALSE, "demoState", TRUE),
    put("launches", TRUE, "launches", FALSE, "transfers", TRUE) }

environment(store, urls, readOnly) ==
  [STAMP_STORE |-> store, urls |-> urls, readOnly |-> readOnly]
MCEnvironment ==
  { environment("", {"hosted"}, TRUE), environment("postgres", {"local"}, FALSE),
    environment("", {"placeholder"}, TRUE), environment("memory", {"local"}, FALSE) }
=============================================================================
