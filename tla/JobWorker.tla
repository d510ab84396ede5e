----------------------------- MODULE JobWorker -----------------------------
(***************************************************************************)
(* Issuance in the demo deployment (src/lib/jobs/processor.ts): a request  *)
(* burns units and files a job (submitDemoBurn), and runs of               *)
(* processDueJobs, started by the worker's timer and by reads of the API,  *)
(* take every job from its burn to its confirmed stamp.                    *)
(*                                                                         *)
(* One step ends at each call of the store, where another process can get  *)
(* in between.  A run works on the snapshot of both demo chains and on the *)
(* job rows it loaded at its start, and stores the whole snapshot at its   *)
(* end.  Caller is the set of processes inside the store at once: one when *)
(* a single Node process serves every request from its event loop (no call *)
(* of the memory store yields to another request), more when the worker    *)
(* runs beside the server.                                                 *)
(***************************************************************************)
EXTENDS Naturals, FiniteSets, FiniteSetsExt

CONSTANTS
  Caller,          \* processes that can be inside the store at once
  MaxJobs,         \* bound: submissions
  Amount,          \* Amount[j]: units burned by submission j
  InitialSupply,   \* units the holder owns at the start
  InitialFunds,    \* publications the publisher can pay for
  MinConfirms,     \* DEMO_MIN_CONFIRMS
  ReorgDepth,      \* a reorg removes publications less confirmed than this
  MaxReorgs,       \* bound: publications removed by reorgs
  MaxCrashes,      \* bound: crashes
  None

Job == 1 .. MaxJobs

ASSUME JobAssumption ==
  /\ MaxJobs \in Nat /\ InitialSupply \in Nat /\ InitialFunds \in Nat
  /\ Amount \in [Job -> Nat]
  /\ MinConfirms \in Nat /\ ReorgDepth \in Nat
  /\ MaxReorgs \in Nat /\ MaxCrashes \in Nat

\* The txid of a publication is the hash of its job's destination and
\* commitment and of its height.
Txid == Job \X Nat

JobState ==
  {"burn_submitted", "burn_finalized", "publication_pending",
   "zcash_confirmation_pending", "confirmed", "rejected", "retryable",
   "manual_review"}

JobRow ==
  [state : JobState, claim : BOOLEAN, zcashTx : Txid \cup {None}]

ASSUME NoneAssumption == None \notin Txid /\ None \notin JobRow

VARIABLES
  demo,         \* the stored snapshot of the demo chains
  jobs,         \* jobs[j]: the job row, or None
  stamps,       \* stamps[j]: publication in the stamp row of job j, or None
  shownSupply,  \* currentSupply of the launch row
  pc,           \* pc[p]: where caller p is
  snapshot,     \* snapshot[p]: the chains it loaded, as it has changed them
  todo,         \* todo[p]: the job rows it has loaded and not yet handled
  target,       \* target[p]: the job it works on
  submitted,    \* number of submissions so far
  reorgs, crashes

vars == <<demo, jobs, stamps, shownSupply, pc, snapshot, todo, target,
          submitted, reorgs, crashes>>
memory == <<pc, snapshot, todo, target>>
environment == <<submitted, reorgs, crashes>>

Init ==
  /\ demo = [balance |-> InitialSupply, burned |-> {}, failed |-> {},
             height |-> 100, funds |-> InitialFunds, txs |-> << >>]
  /\ jobs = [j \in Job |-> None]
  /\ stamps = [j \in Job |-> None]
  /\ shownSupply = InitialSupply
  /\ pc = [p \in Caller |-> "idle"]
  /\ snapshot = [p \in Caller |-> None]
  /\ todo = [p \in Caller |-> << >>]
  /\ target = [p \in Caller |-> None]
  /\ submitted = 0 /\ reorgs = 0 /\ crashes = 0

Least(m, n) == IF m < n THEN m ELSE n

\* tickConfirmations; the code counts on to MinConfirms + 5.
tick(publication) ==
  [publication EXCEPT !.confirmations =
     IF publication.inBestChain THEN Least(@ + 1, MinConfirms) ELSE @]
ticked(chain) == [chain EXCEPT !.txs = [t \in DOMAIN @ |-> tick(@[t])]]

-----------------------------------------------------------------------------
(* submitDemoBurn.                                                         *)

\* executeDemoBurn on the ledger loaded first: a failed burn is recorded, but
\* takes nothing.
executeDemoBurn_credits(chain, j, fail) ==
  IF fail THEN [chain EXCEPT !.failed = @ \cup {j}]
  ELSE [chain EXCEPT !.burned = @ \cup {j}, !.balance = @ + Amount[j]]
executeDemoBurn(chain, j, fail) ==
  IF fail THEN [chain EXCEPT !.failed = @ \cup {j}]
  ELSE [chain EXCEPT !.burned = @ \cup {j}, !.balance = @ - Amount[j]]

Burn(p, fail) ==
  /\ pc[p] = "idle" /\ submitted < MaxJobs
  /\ Amount[submitted + 1] <= demo.balance
  /\ submitted' = submitted + 1
  /\ target' = [target EXCEPT ![p] = submitted + 1]
  /\ snapshot' = [snapshot EXCEPT ![p] =
                    executeDemoBurn(demo, submitted + 1, fail)]
  /\ pc' = [pc EXCEPT ![p] = "burning"]
  /\ UNCHANGED <<demo, jobs, stamps, shownSupply, todo, reorgs, crashes>>

\* The second loadDemo, for the Zcash side only.
LoadZcash(p) ==
  /\ pc[p] = "burning"
  /\ snapshot' = [snapshot EXCEPT ![p].height = demo.height,
                                  ![p].funds = demo.funds,
                                  ![p].txs = demo.txs]
  /\ pc' = [pc EXCEPT ![p] = "burnt"]
  /\ UNCHANGED <<demo, jobs, stamps, shownSupply, todo, target, environment>>

SaveBurn(p) ==
  /\ pc[p] = "burnt"
  /\ demo' = snapshot[p]
  /\ pc' = [pc EXCEPT ![p] = "recording"]
  /\ snapshot' = [snapshot EXCEPT ![p] = None]
  /\ UNCHANGED <<jobs, stamps, shownSupply, todo, target, environment>>

\* upsertJob; the runs of processDueJobs that follow are runs like any other.
RecordJob(p) ==
  /\ pc[p] = "recording"
  /\ jobs' = [jobs EXCEPT ![target[p]] =
                [state |-> "burn_submitted", claim |-> FALSE, zcashTx |-> None]]
  /\ pc' = [pc EXCEPT ![p] = "idle"]
  /\ target' = [target EXCEPT ![p] = None]
  /\ UNCHANGED <<demo, stamps, shownSupply, snapshot, todo, environment>>

-----------------------------------------------------------------------------
(* processDueJobs.                                                         *)

LoadDemo(p) ==
  /\ pc[p] = "idle"
  /\ snapshot' = [snapshot EXCEPT ![p] = ticked(demo)]
  /\ pc' = [pc EXCEPT ![p] = "loaded"]
  /\ UNCHANGED <<demo, jobs, stamps, shownSupply, todo, target, environment>>

\* The rows the loop does something with; it passes over the others.
toPublish_confirmed(row) ==
  /\ row.state \in {"burn_finalized", "publication_pending", "retryable",
                    "confirmed"}
  /\ row.claim
toPublish(row) ==
  /\ row.state \in {"burn_finalized", "publication_pending", "retryable"}
  /\ row.claim

toConfirm(row) ==
  row.state = "zcash_confirmation_pending" /\ row.zcashTx # None /\ row.claim

due(row) == row.state = "burn_submitted" \/ toPublish(row) \/ toConfirm(row)

ListJobs(p) ==
  /\ pc[p] = "loaded"
  /\ LET dueJobs == {j \in Job : jobs[j] # None /\ due(jobs[j])}
     IN  todo' = [todo EXCEPT ![p] = [j \in dueJobs |-> jobs[j]]]
  /\ pc' = [pc EXCEPT ![p] = "working"]
  /\ UNCHANGED <<demo, jobs, stamps, shownSupply, snapshot, target, environment>>

\* Jobs are listed newest first.
current(p) == Max(DOMAIN todo[p])

without(rows, j) == [k \in DOMAIN rows \ {j} |-> rows[k]]

\* The loop of caller p reaches its next row.
Handling(p) == pc[p] = "working" /\ DOMAIN todo[p] # {}

\* One pass of the loop that ends by saving the row of its job.
SaveJob(p, row) ==
  /\ jobs' = [jobs EXCEPT ![current(p)] = row]
  /\ todo' = [todo EXCEPT ![p] = without(@, current(p))]

\* The verdict on a submitted burn; validateBurn itself is in BurnRules.
checkBurn_unchecked(chain, j) ==
  IF j \notin chain.burned \cup chain.failed THEN "manual_review"
  ELSE "burn_finalized"
checkBurn(chain, j) ==
  IF j \notin chain.burned \cup chain.failed THEN "manual_review"
  ELSE IF j \in chain.failed THEN "rejected"
  ELSE "burn_finalized"

CheckBurn(p) ==
  /\ Handling(p)
  /\ LET j == current(p)
         row == todo[p][j]
         state == checkBurn(snapshot[p], j)
     IN  /\ row.state = "burn_submitted"
         /\ SaveJob(p, [row EXCEPT !.state = state,
                                   !.claim = state = "burn_finalized"])
  /\ UNCHANGED <<demo, stamps, shownSupply, pc, snapshot, target, environment>>

\* publishDemoStamp.
publish(chain, j) ==
  LET txid == <<j, chain.height + 1>>
      publication == [inBestChain |-> TRUE, confirmations |-> 0]
  IN  [chain EXCEPT !.funds = @ - 1, !.height = @ + 1,
         !.txs = [t \in DOMAIN @ \cup {txid} |->
                    IF t = txid THEN publication ELSE @[t]]]

pending(row, txid) ==
  [row EXCEPT !.state = "zcash_confirmation_pending", !.zcashTx = txid]
retry(row) == [row EXCEPT !.state = "retryable"]

\* A job that names no publication gets one, if the publisher can pay; one that
\* names a publication keeps it, if it is there.
PublishStamp(p) ==
  /\ Handling(p)
  /\ LET j == current(p)
         row == todo[p][j]
         chain == snapshot[p]
     IN  /\ toPublish(row)
         /\ IF row.zcashTx = None /\ chain.funds > 0
              THEN /\ snapshot' = [snapshot EXCEPT ![p] = publish(chain, j)]
                   /\ SaveJob(p, pending(row, <<j, chain.height + 1>>))
              ELSE /\ SaveJob(p, IF row.zcashTx \in DOMAIN chain.txs
                                   THEN pending(row, row.zcashTx)
                                   ELSE retry(row))
                   /\ UNCHANGED snapshot
  /\ UNCHANGED <<demo, stamps, shownSupply, pc, target, environment>>

\* A publication that is not in the best chain is given up.
giveUp_keepTx(row) == [row EXCEPT !.state = "publication_pending"]
giveUp(row) == [row EXCEPT !.state = "publication_pending", !.zcashTx = None]

\* What a publication that is not deep enough does to its job: nothing.
wait_republish(row) ==
  [row EXCEPT !.state = "publication_pending", !.zcashTx = None]
wait(row) == row

onChain(chain, txid) ==
  txid \in DOMAIN chain.txs /\ chain.txs[txid].inBestChain

deepEnough_any(chain, txid) == TRUE
deepEnough(chain, txid) == chain.txs[txid].confirmations >= MinConfirms

AwaitConfirmation(p) ==
  /\ Handling(p)
  /\ LET j == current(p)
         row == todo[p][j]
         chain == snapshot[p]
     IN  /\ toConfirm(row)
         /\ \/ /\ ~onChain(chain, row.zcashTx)
               /\ SaveJob(p, giveUp(row))
            \/ /\ onChain(chain, row.zcashTx)
               /\ ~deepEnough(chain, row.zcashTx)
               /\ SaveJob(p, wait(row))
  /\ UNCHANGED <<demo, stamps, shownSupply, pc, snapshot, target, environment>>

\* A confirmed publication: upsertStamp, then upsertLaunch, then the job row.
FileStamp(p) ==
  /\ Handling(p)
  /\ LET j == current(p)
         row == todo[p][j]
     IN  /\ toConfirm(row)
         /\ onChain(snapshot[p], row.zcashTx)
         /\ deepEnough(snapshot[p], row.zcashTx)
         /\ stamps' = [stamps EXCEPT ![j] = row.zcashTx]
  /\ pc' = [pc EXCEPT ![p] = "filed"]
  /\ UNCHANGED <<demo, jobs, shownSupply, snapshot, todo, target, environment>>

supplyOf_initial(chain) == InitialSupply
supplyOf(chain) == chain.balance

ShowSupply(p) ==
  /\ pc[p] = "filed"
  /\ shownSupply' = supplyOf(snapshot[p])
  /\ pc' = [pc EXCEPT ![p] = "shown"]
  /\ UNCHANGED <<demo, jobs, stamps, snapshot, todo, target, environment>>

ConfirmJob(p) ==
  /\ pc[p] = "shown"
  /\ SaveJob(p, [todo[p][current(p)] EXCEPT !.state = "confirmed"])
  /\ pc' = [pc EXCEPT ![p] = "working"]
  /\ UNCHANGED <<demo, stamps, shownSupply, snapshot, target, environment>>

SaveDemo(p) ==
  /\ pc[p] = "working" /\ DOMAIN todo[p] = {}
  /\ demo' = snapshot[p]
  /\ snapshot' = [snapshot EXCEPT ![p] = None]
  /\ todo' = [todo EXCEPT ![p] = << >>]
  /\ pc' = [pc EXCEPT ![p] = "idle"]
  /\ UNCHANGED <<jobs, stamps, shownSupply, target, environment>>

-----------------------------------------------------------------------------

\* The process dies; what it had not stored is lost.
Crash(p) ==
  /\ pc[p] # "idle" /\ crashes < MaxCrashes
  /\ crashes' = crashes + 1
  /\ pc' = [pc EXCEPT ![p] = "idle"]
  /\ snapshot' = [snapshot EXCEPT ![p] = None]
  /\ todo' = [todo EXCEPT ![p] = << >>]
  /\ target' = [target EXCEPT ![p] = None]
  /\ UNCHANGED <<demo, jobs, stamps, shownSupply, submitted, reorgs>>

\* orphanTx: between two requests, a reorg removes a publication.
Reorg(txid) ==
  /\ reorgs < MaxReorgs
  /\ \A p \in Caller : pc[p] = "idle"
  /\ onChain(demo, txid) /\ demo.txs[txid].confirmations < ReorgDepth
  /\ reorgs' = reorgs + 1
  /\ demo' = [demo EXCEPT !.txs[txid] =
                [inBestChain |-> FALSE, confirmations |-> 0]]
  /\ UNCHANGED <<jobs, stamps, shownSupply, memory, submitted, crashes>>

Run(p) ==
  \/ LoadDemo(p) \/ ListJobs(p) \/ CheckBurn(p) \/ PublishStamp(p)
  \/ AwaitConfirmation(p) \/ FileStamp(p) \/ ShowSupply(p) \/ ConfirmJob(p)
  \/ SaveDemo(p)

Submit(p) ==
  \/ \E fail \in BOOLEAN : Burn(p, fail)
  \/ LoadZcash(p) \/ SaveBurn(p) \/ RecordJob(p)

Next ==
  \/ \E p \in Caller : Run(p) \/ Submit(p) \/ Crash(p)
  \/ \E txid \in DOMAIN demo.txs : Reorg(txid)

\* The timer starts run after run; a process goes on until it crashes.
Fairness ==
  \A p \in Caller :
    /\ WF_vars(Run(p))
    /\ WF_vars(LoadZcash(p) \/ SaveBurn(p) \/ RecordJob(p))

Spec == Init /\ [][Next]_vars /\ Fairness

-----------------------------------------------------------------------------
(* What holds when the callers take turns, whenever they crash.            *)

IsChain(chain) ==
  /\ chain.balance \in 0 .. InitialSupply
  /\ chain.burned \subseteq Job /\ chain.failed \subseteq Job
  /\ chain.height \in Nat
  /\ chain.funds \in 0 .. InitialFunds
  /\ DOMAIN chain.txs \subseteq Txid
  /\ \A t \in DOMAIN chain.txs :
       chain.txs[t] \in [inBestChain : BOOLEAN, confirmations : Nat]

\* Chains, rows and snapshots keep their shape, and nobody's balance or the
\* publisher's funds leave their bounds.
TypeOK ==
  /\ IsChain(demo)
  /\ jobs \in [Job -> JobRow \cup {None}]
  /\ stamps \in [Job -> Txid \cup {None}]
  /\ shownSupply \in 0 .. InitialSupply
  /\ pc \in [Caller -> {"idle", "burning", "burnt", "recording", "loaded",
                        "working", "filed", "shown"}]
  /\ \A p \in Caller : snapshot[p] = None \/ IsChain(snapshot[p])
  /\ \A p \in Caller : \A j \in DOMAIN todo[p] : todo[p][j] \in JobRow
  /\ target \in [Caller -> Job \cup {None}]

confirmed(j) == jobs[j] # None /\ jobs[j].state = "confirmed"

\* A confirmed job and its stamp row are what a replay of the two chains would
\* accept: the burn is on the ledger, and the publication in the best chain.
ConfirmedIsAccepted ==
  \A j \in Job :
    confirmed(j) =>
      /\ j \in demo.burned
      /\ stamps[j] = jobs[j].zcashTx
      /\ onChain(demo, stamps[j])

\* However often publishing is retried, interrupted and resumed, at most one
\* publication of a burn is in the best chain.
OnePublication ==
  \A t, u \in DOMAIN demo.txs :
    t[1] = u[1] /\ onChain(demo, t) /\ onChain(demo, u) => t = u

\* Once every burn has its stamp, the launch page shows the supply of the mint.
SupplyShown ==
  (\A j \in demo.burned : confirmed(j)) => shownSupply = demo.balance

\* What the job page and the launch page show as done is what both chains say,
\* through crashes between any two stores and reorgs between runs.
ShownStandsOnChain == TypeOK /\ ConfirmedIsAccepted /\ SupplyShown

\* A job that is over stays as it is, and a claim package once filed is kept.
OutcomeIsFinal ==
  [][\A j \in Job :
       jobs[j] # None =>
         /\ jobs[j].state \in {"confirmed", "rejected", "manual_review"} =>
              jobs'[j] = jobs[j]
         /\ jobs[j].claim => jobs'[j].claim]_vars

\* A burn that is on the ledger when its job is filed ends as a confirmed
\* stamp, or waits for funds when the publisher has none left: crashes, reorgs
\* and retries only delay it.
unfunded(j) == jobs[j] # None /\ jobs[j].state = "retryable" /\ demo.funds = 0

BurnIsStamped ==
  \A j \in Job :
    (jobs[j] # None /\ j \in demo.burned) ~> (confirmed(j) \/ unfunded(j))

-----------------------------------------------------------------------------
(* What the documents say, and the code does not do.                       *)

\* PROTOCOL.md, 13: stamps stand for burned units.  Every stamp filed has its
\* burn on the ledger.
StampsWereBurned == \A j \in Job : stamps[j] # None => j \in demo.burned

\* STATUS.md: the worker state machine survives a restart after a finalized
\* burn.  A burn that no request is busy with has a job.
EveryBurnHasJob ==
  \A j \in demo.burned :
    jobs[j] # None \/ \E p \in Caller : target[p] = j

\* PROTOCOL.md, 12: if the publication vanishes, the job returns to
\* publication_pending; so a confirmed job has its publication, or loses its
\* state when it is next handled.
VanishedIsRepublished ==
  \A j \in Job :
    (confirmed(j) /\ ~onChain(demo, jobs[j].zcashTx))
      ~> (jobs[j] # None /\ onChain(demo, jobs[j].zcashTx))
=============================================================================
