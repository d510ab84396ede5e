----------------------------- MODULE LaunchPage -----------------------------
(***************************************************************************)
(* The issue page (src/app/launch/page.tsx) against LaunchServer.  Its     *)
(* functions run side by side: a button is disabled only by what the page  *)
(* shows when it is pressed, and each await is a step.  Phantom asks the   *)
(* user, signs and sends.                                                  *)
(***************************************************************************)
EXTENDS LaunchServer

VARIABLES
  step, funding, preparedLaunch, preparedBurn,
  sent,      \* [launch, burn]: what the page shows as sent, or None
  forgotten  \* history: burns approved on a page that is gone

page == <<step, funding, preparedLaunch, preparedBurn, sent>>
vars == <<vars_server, page, forgotten>>
rest == <<mode, kept, built, held, alloc, landed, store, faults, confirmed, forgotten>>

InitPage ==
  /\ step = "idle" /\ funding = None
  /\ preparedLaunch = None /\ preparedBurn = None /\ sent = None

Init == InitServer /\ InitPage /\ forgotten = {}

----------------------------------------------------------------------------
(* Tasks: fn is the function, arg the transaction its closure holds.       *)

Replies == [what : {"error", "funding", "launch", "balance", "ok", "burn", "job"},
            value : Transactions \cup Nat \cup {None}]
Calls == [fn : {"build", "demo", "fund", "launch", "burn"},
          at : {"prepare", "launching", "stamping", "phantom", "poll", "rebuild", "confirm",
                "burn", "record"},
          arg : Transactions \cup {None}, reply : Replies \cup {None, Lost}, polls : Nat]

Sent == [launch : Transactions \cup {None}, burn : Transactions \cup {None}]

ASSUME PageAssumption ==
  None # Blank /\ None \notin Transactions \cup Calls \cup Sent

task(fn, at, arg) == [fn |-> fn, at |-> at, arg |-> arg, reply |-> None, polls |-> 0]
\* The first slot that is free: which one a call takes does not matter.
free(t) == tasks[t] = None /\ \A u \in Task : u < t => tasks[u] # None
running(t, fn, at) == tasks[t] # None /\ tasks[t].fn = fn /\ tasks[t].at = at
answered(t, fn, at) == running(t, fn, at) /\ tasks[t].reply # None
answer(t) == tasks[t].reply
rejected(t) == answer(t) = Lost
refused(t) == answer(t) # Lost /\ answer(t).what = "error"

\* fetch: task t goes on to wait for this operation.
fetch(t, k, at, o) ==
  /\ tasks' = [tasks EXCEPT ![t] = [k EXCEPT !.at = at, !.reply = None]]
  /\ ops' = ops \cup {o}
goOn(t, k) == tasks' = [tasks EXCEPT ![t] = k] /\ ops' = ops
return(t) == goOn(t, None)

prepareOp(t) == operation(t, "prepare", 0, 0)
balanceOp(t) == operation(t, "balance", 0, 0)

----------------------------------------------------------------------------
(* The form *)

Submit(t) ==
  /\ step = "idle" /\ free(t)
  /\ IF mode = "mainnet"
     THEN /\ step' = "building"
          /\ fetch(t, task("build", "prepare", None), "prepare", prepareOp(t))
     ELSE \E buy \in {0, 1} :
          /\ step' = "issuing"
          /\ fetch(t, task("demo", "launching", None), "launching",
                   operation(t, "demoLaunch", 0, buy))
  /\ UNCHANGED <<rest, pool, funding, preparedLaunch, preparedBurn, sent>>

showBuilt_anyStep(t) ==
  /\ step' = "idle"
  /\ IF refused(t) THEN UNCHANGED <<funding, preparedLaunch>>
     ELSE funding' = None /\ preparedLaunch' = answer(t).value
\* buildMainnet once its answer is there.
showBuilt(t) ==
  /\ step' = "idle"
  /\ CASE refused(t) -> UNCHANGED <<funding, preparedLaunch>>
       [] answer(t).what = "funding" ->
            funding' = answer(t).value /\ preparedLaunch' = None
       [] answer(t).what = "launch" ->
            funding' = None /\ preparedLaunch' = answer(t).value

\* Nothing catches a fetch that rejects: step stays as it is.
Built(t) ==
  /\ answered(t, "build", "prepare")
  /\ IF rejected(t) THEN UNCHANGED <<step, funding, preparedLaunch>> ELSE showBuilt(t)
  /\ return(t)
  /\ UNCHANGED <<rest, pool, preparedBurn, sent>>

\* The demo path: the burn is a second call, and again nothing is caught.
DemoLaunched(t) ==
  /\ answered(t, "demo", "launching")
  /\ IF rejected(t) THEN step' = step /\ return(t)
     ELSE IF refused(t) THEN step' = "idle" /\ return(t)
     ELSE /\ step' = "stamping"
          /\ fetch(t, tasks[t], "stamping",
                   operation(t, "convert", answer(t).value.mint, 1))
  /\ UNCHANGED <<rest, pool, funding, preparedLaunch, preparedBurn, sent>>

\* With the job's page the issue page is gone.
DemoStamped(t) ==
  /\ answered(t, "demo", "stamping")
  /\ step' = IF rejected(t) THEN step ELSE "idle"
  /\ return(t)
  /\ UNCHANGED <<rest, pool, funding, preparedLaunch, preparedBurn, sent>>

----------------------------------------------------------------------------
(* Approvals *)

endApproval_busy == step' = step
endApproval == step' = "idle"

approve(t, fn, tx) ==
  /\ step # "approving" /\ tx # None /\ free(t)
  /\ step' = "approving"
  /\ goOn(t, task(fn, "phantom", tx))
  /\ UNCHANGED <<rest, pool, funding, preparedLaunch, preparedBurn, sent>>

ApproveFunding(t) == preparedLaunch = None /\ approve(t, "fund", funding)
ApproveLaunch(t) == sent = None /\ approve(t, "launch", preparedLaunch)
ApproveBurn(t) == approve(t, "burn", preparedBurn)

NotNow ==
  /\ \/ /\ step # "approving" /\ preparedLaunch = None /\ funding # None
        /\ funding' = None /\ UNCHANGED <<preparedLaunch, preparedBurn>>
     \/ /\ step # "approving" /\ sent = None /\ preparedLaunch # None
        /\ preparedLaunch' = None /\ UNCHANGED <<funding, preparedBurn>>
     \/ preparedBurn # None /\ preparedBurn' = None /\ UNCHANGED <<funding, preparedLaunch>>
  /\ UNCHANGED <<rest, pool, ops, tasks, step, sent>>

\* The user declines, or Phantom does not send it.
Decline(t) ==
  /\ \E fn \in {"fund", "launch", "burn"} : running(t, fn, "phantom")
  /\ endApproval /\ return(t)
  /\ UNCHANGED <<rest, pool, funding, preparedLaunch, preparedBurn, sent>>

\* signAndSendTransaction: its signature is known before it lands, and is the
\* same for the same bytes; what has landed before is not sent again.
signAndSend(tx) == ~hasLanded(tx) /\ pool' = pool \cup {tx}

SendSwap(t) ==
  /\ running(t, "fund", "phantom") /\ signAndSend(tasks[t].arg)
  /\ fetch(t, tasks[t], "poll", balanceOp(t))
  /\ UNCHANGED <<rest, page>>

SendLaunch(t) ==
  LET tx == tasks[t].arg
  IN  /\ running(t, "launch", "phantom") /\ signAndSend(tx)
      /\ sent' = [launch |-> tx, burn |-> None]
      /\ fetch(t, tasks[t], "confirm", operation(t, "confirm", tx.mint, 0))
      /\ UNCHANGED <<rest, step, funding, preparedLaunch, preparedBurn>>

\* convert, outside demo mode: the job of this burn.
convertOp(t, tx) == [operation(t, "convert", tx.mint, tx.amount) EXCEPT !.tx = tx]

SendBurn_unshown(t) ==
  LET tx == tasks[t].arg
  IN  /\ running(t, "burn", "phantom") /\ signAndSend(tx)
      /\ fetch(t, tasks[t], "record", convertOp(t, tx))
      /\ UNCHANGED <<rest, page>>
SendBurn(t) ==
  LET tx == tasks[t].arg
  IN  /\ running(t, "burn", "phantom") /\ signAndSend(tx)
      /\ sent' = [launch |-> IF sent = None THEN None ELSE sent.launch, burn |-> tx]
      /\ fetch(t, tasks[t], "record", convertOp(t, tx))
      /\ UNCHANGED <<rest, step, funding, preparedLaunch, preparedBurn>>

\* The wait is over when the balance reaches what the swap brings, or in time.
Polled(t) ==
  LET enough == answer(t).what = "balance" /\ answer(t).value >= tasks[t].arg.amount
      rebuild == /\ funding' = None /\ step' = "building"
                 /\ fetch(t, tasks[t], "rebuild", prepareOp(t))
  IN  /\ answered(t, "fund", "poll")
      /\ CASE rejected(t) -> endApproval /\ return(t) /\ UNCHANGED funding
           [] ~rejected(t) /\ ~enough /\ tasks[t].polls < MaxPolls ->
                /\ fetch(t, [tasks[t] EXCEPT !.polls = @ + 1], "poll", balanceOp(t))
                /\ UNCHANGED <<step, funding>>
           [] OTHER -> rebuild
      /\ UNCHANGED <<mode, kept, built, chain, store, faults, confirmed, forgotten,
                     preparedLaunch, preparedBurn, sent>>

\* buildMainnet inside approveFunding, whose catch covers it.
Rebuilt(t) ==
  /\ answered(t, "fund", "rebuild")
  /\ IF rejected(t) THEN endApproval /\ UNCHANGED <<funding, preparedLaunch>>
     ELSE showBuilt(t)
  /\ return(t)
  /\ UNCHANGED <<rest, pool, preparedBurn, sent>>

\* Whatever the server says of the confirmation, the burn is prepared next.
Confirmed(t) ==
  /\ answered(t, "launch", "confirm")
  /\ IF rejected(t) THEN endApproval /\ return(t)
     ELSE /\ fetch(t, tasks[t], "burn",
                   operation(t, "burnPrepare", tasks[t].arg.mint, 0))
          /\ step' = step
  /\ UNCHANGED <<rest, pool, funding, preparedLaunch, preparedBurn, sent>>

BurnPrepared(t) ==
  /\ answered(t, "launch", "burn")
  /\ preparedBurn' = IF rejected(t) \/ refused(t) THEN preparedBurn ELSE answer(t).value
  /\ endApproval /\ return(t)
  /\ UNCHANGED <<rest, pool, funding, preparedLaunch, sent>>

\* A lost answer leaves the prepared burn where it was.
Recorded(t) ==
  /\ answered(t, "burn", "record")
  /\ preparedBurn' = IF rejected(t) THEN preparedBurn ELSE None
  /\ endApproval /\ return(t)
  /\ UNCHANGED <<rest, pool, funding, preparedLaunch, sent>>

\* The user closes or reloads the page.
Reload ==
  /\ fault
  /\ step' = "idle" /\ funding' = None /\ preparedLaunch' = None
  /\ preparedBurn' = None /\ sent' = None
  /\ forgotten' = forgotten \cup {tx \in pool \cup {landed[i].tx : i \in DOMAIN landed} :
                                    tx.kind = "burn"}
  /\ tasks' = [t \in Task |-> None]
  /\ ops' = {[o EXCEPT !.id = 0] : o \in ops}
  /\ UNCHANGED <<mode, kept, built, chain, store, confirmed>>

----------------------------------------------------------------------------
(* Behaviours *)

PageStep(t) ==
  \/ Built(t) \/ DemoLaunched(t) \/ DemoStamped(t)
  \/ Polled(t) \/ Rebuilt(t) \/ Confirmed(t) \/ BurnPrepared(t) \/ Recorded(t)

Phantom(t) == SendSwap(t) \/ SendLaunch(t) \/ SendBurn(t) \/ Decline(t)

Click(t) == Submit(t) \/ ApproveFunding(t) \/ ApproveLaunch(t) \/ ApproveBurn(t)

ServerStep ==
  \/ \E o \in ops : Serve(o) \/ LoseRequest(o)
  \/ \E t \in Task : LoseReply(t)
  \/ Restart

Environment ==
  \/ \E tx \in pool : Land(tx) \/ Expire(tx)
  \/ \E m \in Mint : Trade(m) \/ View(m)

Next ==
  \/ \E t \in Task : PageStep(t) \/ Phantom(t) \/ Click(t)
  \/ NotNow \/ Reload
  \/ (ServerStep \/ Environment) /\ UNCHANGED <<page, forgotten>>

\* The page runs on, the server answers each request, and the user each prompt.
ServeTask(t) ==
  (\E o \in ops : o.id = t /\ Serve(o)) /\ UNCHANGED <<page, forgotten>>

Fairness ==
  \A t \in Task : WF_vars(PageStep(t)) /\ WF_vars(Phantom(t)) /\ WF_vars(ServeTask(t))

Spec == Init /\ [][Next]_vars /\ Fairness

----------------------------------------------------------------------------
(* Properties *)

swaps == [kind : {"swap"}, mint : {0}, n : 1 .. MaxSwaps, amount : 1 .. Need]
launches == {launchTx(m) : m \in Mint}
burns == [kind : {"burn"}, mint : Mint, n : 1 .. MaxBurns, amount : Nat]

\* What the page shows for approval is of the kind it says, and a signature it
\* shows as sent is one of a transaction that was prepared (page.tsx:37-70).
TypeOK ==
  /\ step \in {"idle", "issuing", "stamping", "building", "approving"}
  /\ funding \in swaps \cup {None}
  /\ preparedLaunch \in launches \cup {None}
  /\ preparedBurn \in burns \cup {None}
  /\ sent # None => sent.launch \in launches \cup {None} /\ sent.burn \in burns \cup {None}
  /\ held \in Nat /\ alloc \in [Mint -> {0, 1}]
  /\ \A m \in Mint : rows[m] \in {None, Blank} \/ rows[m].mint = m

\* The metadata address written onto a mint resolves for ever: there is a row
\* for every mint this page has put on Solana, whatever the server or the
\* browser went through on the way (app.ts:211-215).
MetadataResolves ==
  mode = "mainnet" => \A m \in Mint : exists(m) => rows[m] # None

\* A launch row names a mint that is on the ledger, or is waiting for one: a
\* demo launch is not listed before its ledger is saved (app.ts:159-180).
ListedIsOnLedger ==
  mode = "demo" => \A m \in Mint : rows[m] # None => exists(m)

\* A launch row and the mint it names come together, in mainnet mode the row
\* first and in demo mode the ledger first, whatever stops in between.
RowsAreLaunches == TypeOK /\ MetadataResolves /\ ListedIsOnLedger

\* When the server fills in a launch nobody confirmed, it is with a
\* transaction that succeeded (app.ts:509-513).
HydratedTxSucceeded ==
  \A m \in Mint : \/ rows[m] \in {None, Blank} \cup confirmed
                  \/ \E i \in DOMAIN landed : landed[i] = [tx |-> rows[m], ok |-> TRUE]

\* The page has room for one launch and one burn (page.tsx:212, 250): it shows
\* another burn, or another launch, where this one was or would have been.
displaced(tx) ==
  sent # None /\ (sent.burn \notin {None, tx} \/ sent.launch # launchTx(tx.mint))

\* A burn that has landed has a job, or the page shows its signature, unless
\* the user has left the page or has gone on with it to another burn or another
\* launch, which the page then shows instead (page.tsx:244-277).
BurnAccountedFor ==
  mode = "mainnet" =>
    \A i \in DOMAIN landed :
       (landed[i].tx.kind = "burn" /\ landed[i].ok) =>
         \/ landed[i].tx \in jobs \cup forgotten
         \/ sent # None /\ sent.burn = landed[i].tx
         \/ displaced(landed[i].tx)

\* However Phantom, the network and the server answer, the approval buttons
\* come back (page.tsx:198-201, 238-240, 275-277).
ApprovalEnds == (step = "approving") ~> (step # "approving")

\* Refuted by hand: buildMainnet and submit catch nothing.
BusyClears == (step # "idle") ~> (step = "idle")

\* "Buy the missing ZEC with SOL, then rebuild the launch against the new
\* balance" (page.tsx:177): the rebuild does not begin on a reading of the
\* balance while the swap is still on its way.
RebuildsOnNewBalance ==
  [][\A t \in Task :
       (running(t, "fund", "poll") /\ tasks'[t] # None /\ tasks'[t].at = "rebuild")
         => tasks[t].arg \notin pool \/ tasks[t].polls = MaxPolls]_vars

\* Refuted by hand: without the exception for the user who has gone on.  The
\* second signature takes the place of the first (page.tsx:250), and with its
\* answer lost nothing names the first burn any more.
EveryBurnStaysInSight ==
  mode = "mainnet" =>
    \A i \in DOMAIN landed :
       (landed[i].tx.kind = "burn" /\ landed[i].ok) =>
         \/ landed[i].tx \in jobs \cup forgotten
         \/ sent # None /\ sent.burn = landed[i].tx

\* Refuted by hand: with more transactions on the mint than the window holds,
\* the oldest in it is not the launch.
HydratedIsLaunch == \A m \in Mint : rows[m] \in {None, Blank, launchTx(m)}

\* Refuted by hand: a row whose launchTx is set names a launch that succeeded,
\* or one that can still land.
RecordedLaunchLands ==
  mode = "mainnet" => \A m \in Mint :
    rows[m] \in {None, Blank} \/ exists(m) \/ rows[m] \in pool

=============================================================================
