------------------------------ MODULE LiveJobs ------------------------------
(***************************************************************************)
(* Issuance on the real chains (src/lib/jobs/live.ts with the publisher of *)
(* src/lib/modules/publisher.ts).  A client burns on Solana and submits    *)
(* the signature; every run of processLiveJobs, whoever starts it (the     *)
(* worker's timer, a page that polls a job, the submission itself), lists  *)
(* all jobs and takes each one step further.                               *)
(*                                                                         *)
(* A caller is one call in flight.  Its steps end where the code awaits    *)
(* the store or a node, so callers interleave there, and each one goes on  *)
(* with the rows it listed at its start.  The unique indexes on jobs are   *)
(* enforced by Postgres and not by the file store: Indexed says which.     *)
(*                                                                         *)
(* A publication is a pair of Zcash transactions: a commit that spends a   *)
(* coin of the publisher, and a reveal that carries the inscription.  Pairs *)
(* are numbered in the order the node accepted their commits, and a depth  *)
(* says how far each half has got: Unsent, Mempool, 1 .. MinConfirms (that *)
(* depth or deeper), or Dropped (its expiry height passed).                *)
(***************************************************************************)
EXTENDS SolanaReader, FiniteSets

CONSTANTS
  Worker,        \* the worker's ticks that can be in flight at once
  Request,       \* the API's requests that can be in flight at once
  Submission,    \* what clients submit
  Burn,          \* Burn[s]: the Solana transaction with signature s
  MinConfirms,   \* ZCASH_MIN_CONFIRMATIONS
  Coins,         \* Coins[k]: publications the publisher's k-th coin pays for
  Indexed,       \* whether the store enforces the unique indexes
  MaxRequests,   \* bound: requests
  MaxFaults      \* bound: lost answers, errors, crashes, reorgs and expiries

ASSUME LiveJobsAssumption ==
  /\ MinConfirms \in Nat \ {0}
  /\ MaxRequests \in Nat /\ MaxFaults \in Nat
  /\ Indexed \in BOOLEAN
  /\ Coins \in Seq(Nat)
  /\ \A sig \in DOMAIN Burn : \A b \in decodeBurns(Burn[sig], TRUE) :
       b.authority \in STRING
  /\ Submission \subseteq
       [owner : STRING, sourceTx : DOMAIN Burn, mint : STRING,
        amount : Nat, destination : STRING]

Finished == {"confirmed", "rejected"}
Due == {"burn_finalized", "retryable"}
JobState == Finished \cup Due \cup {"burn_submitted", "zcash_confirmation_pending"}

Reason == {"wrong_amount", "missing_intent", "insufficient_publication_funds",
           "zcash_payload_invalid"}

\* What a commitment commits to.
Issuance ==
  [mint : STRING, sourceTx : DOMAIN Burn, amount : Nat, destination : STRING,
   burnAuthority : STRING]

JobRow ==
  [id : Nat, state : JobState, owner : STRING, sourceTx : DOMAIN Burn,
   mint : STRING, amount : Nat, destination : STRING, burnAuthority : STRING,
   commitment : Issuance \cup {Absent}, zcashTx : Nat \cup {Absent},
   confirmations : Nat, rejectReason : Reason \cup {Absent}]

StampRow == [id : Issuance, commitment : Issuance, zcashTx : Nat]

\* What is not there must not be confused with what is.
ASSUME AbsentAssumption == Absent \notin StampRow \cup Issuance

VARIABLES
  landed,   \* signatures of transactions finalized on Solana
  jobs,     \* jobs[id]: the job row; ids are given in order
  stamps,   \* stamps[id]: the stamp row of job id, or Absent
  pairs,    \* the publications the Zcash node has accepted
  pc, todo, row, got,   \* per caller: where it is, rows left, its row, its data
  requests, faults

Caller == Worker \cup Request
vars == <<landed, jobs, stamps, pairs, pc, todo, row, got, requests, faults>>
caller == <<pc, todo, row, got>>
budget == <<requests, faults>>
store == <<jobs, stamps>>

Unsent == -2
Dropped == -1
Mempool == 0
Depth == Unsent .. MinConfirms
mined(d) == d >= 1

Pair ==
  [coin : Nat, value : Nat \ {0}, payload : Issuance,
   commit : Depth \ {Unsent}, reveal : Depth]

JobId == DOMAIN jobs

\* row[c] is the submission to file or the row it works on; got[c] the coin to
\* spend, the pair it made or the depth it saw.
At == {"idle", "list", "insert", "check", "coins", "commit", "reveal",
       "publish_done", "publish_failed", "unfunded", "look", "wait", "stamp", "confirm"}

Init ==
  /\ landed = {}
  /\ jobs = << >> /\ stamps = << >>
  /\ pairs = << >>
  /\ pc = [c \in Caller |-> "idle"]
  /\ todo = [c \in Caller |-> {}]
  /\ row = [c \in Caller |-> Absent]
  /\ got = [c \in Caller |-> Absent]
  /\ requests = 0 /\ faults = 0

goto(c, label) == pc' = [pc EXCEPT ![c] = label]
hold(c, x) == got' = [got EXCEPT ![c] = x]
fault == faults < MaxFaults /\ faults' = faults + 1 /\ UNCHANGED requests

request == requests < MaxRequests /\ requests' = requests + 1 /\ UNCHANGED faults

\* The call ends: answered, or by an error nobody catches.
return(c) ==
  /\ goto(c, "idle")
  /\ todo' = [todo EXCEPT ![c] = {}]
  /\ row' = [row EXCEPT ![c] = Absent]
  /\ hold(c, Absent)

----------------------------------------------------------------------------
(* submitLiveBurn *)

idempotencyKey(x) == <<x.owner, x.sourceTx>>

newJob(s) ==
  [id |-> Len(jobs) + 1, state |-> "burn_submitted", owner |-> s.owner,
   sourceTx |-> s.sourceTx, mint |-> s.mint, amount |-> s.amount,
   destination |-> s.destination, burnAuthority |-> s.owner,
   commitment |-> Absent, zcashTx |-> Absent, confirmations |-> 0,
   rejectReason |-> Absent]

\* findJobByIdempotency: a job filed before is the answer.
Submit(c, s) ==
  /\ pc[c] = "idle" /\ c \in Request /\ request
  /\ ~ \E id \in JobId : idempotencyKey(jobs[id]) = idempotencyKey(s)
  /\ goto(c, "insert")
  /\ row' = [row EXCEPT ![c] = s]
  /\ UNCHANGED <<landed, store, pairs, todo, got>>

\* upsertJob, then processLiveJobs. Two submissions that both found no job
\* both get here; the second violates the unique key and fails.
InsertJob(c) ==
  /\ pc[c] = "insert"
  /\ IF Indexed /\ \E id \in JobId : idempotencyKey(jobs[id]) = idempotencyKey(row[c])
     THEN return(c) /\ UNCHANGED store
     ELSE /\ jobs' = Append(jobs, newJob(row[c]))
          /\ stamps' = Append(stamps, Absent)
          /\ goto(c, "list")
          /\ row' = [row EXCEPT ![c] = Absent]
          /\ UNCHANGED <<todo, got>>
  /\ UNCHANGED <<landed, pairs, budget>>

----------------------------------------------------------------------------
(* processLiveJobs *)

unfinished_once(r) == r.state \notin Finished \cup {"retryable"}
unfinished(r) == r.state \notin Finished

\* Rows come newest first; the branch is chosen by the row as it was listed.
branch(r) ==
  CASE r.state = "burn_submitted" -> "check"
    [] r.state \in Due -> "coins"
    [] r.state = "zcash_confirmation_pending" -> "look"

newest(rows) == CHOOSE r \in rows : \A q \in rows : q.id <= r.id

\* On to the newest of the rows left; after the last one the call returns.
continue(c, rows) ==
  /\ hold(c, Absent)
  /\ IF rows = {}
     THEN /\ goto(c, "idle")
          /\ todo' = [todo EXCEPT ![c] = {}]
          /\ row' = [row EXCEPT ![c] = Absent]
     ELSE /\ goto(c, branch(newest(rows)))
          /\ row' = [row EXCEPT ![c] = newest(rows)]
          /\ todo' = [todo EXCEPT ![c] = rows \ {newest(rows)}]

\* The worker's timer starts a run; so does a page that polls a job, and the
\* submission itself.
Tick(c) == pc[c] = "idle" /\ c \in Worker /\ UNCHANGED budget
Poll(c) == pc[c] = "idle" /\ c \in Request /\ request
Submitted(c) == pc[c] = "list" /\ UNCHANGED budget

ListJobs(c) ==
  /\ Tick(c) \/ Poll(c) \/ Submitted(c)
  /\ continue(c, {r \in {jobs[id] : id \in JobId} : unfinished(r)})
  /\ UNCHANGED <<landed, store, pairs>>

\* { ...job, changes }: the row as it was listed with the changes, whatever
\* the store holds by now.
save(c, changed) ==
  /\ jobs' = [jobs EXCEPT ![row[c].id] = changed]
  /\ continue(c, todo[c])
  /\ UNCHANGED <<landed, stamps, pairs>>

skip(c) ==
  /\ continue(c, todo[c])
  /\ UNCHANGED <<landed, store, pairs>>

\* What the RPC's answer for a finalized transaction says.
decoded == [sig \in DOMAIN Burn |-> decodeBurns(Burn[sig], TRUE)]
fetchBurns(sig) == IF sig \in landed THEN decoded[sig] ELSE {}

matching(r) ==
  {b \in fetchBurns(r.sourceTx) : b.mint = r.mint /\ b.finalized /\ ~b.err}

\* memo.text.includes(destination)
namesDestination(b, r) == \E m \in b.memos : r.destination \in m.text

issuanceFrom(r) ==
  [mint |-> r.mint, sourceTx |-> r.sourceTx, amount |-> r.amount,
   destination |-> r.destination, burnAuthority |-> r.burnAuthority]

reject(r, reason) == [r EXCEPT !.state = "rejected", !.rejectReason = reason]

finalize_noCommitment(r, b) ==
  [r EXCEPT !.state = "burn_finalized", !.burnAuthority = b.authority]

\* The commitment is of the row as listed: its authority is still the owner.
finalize(r, b) ==
  [r EXCEPT !.state = "burn_finalized", !.burnAuthority = b.authority,
            !.commitment = issuanceFrom(r)]

judged_anyAmount(r, b) ==
  IF ~namesDestination(b, r) THEN reject(r, "missing_intent") ELSE finalize(r, b)
judged_anyMemo(r, b) ==
  IF b.amount # r.amount THEN reject(r, "wrong_amount") ELSE finalize(r, b)
judged(r, b) ==
  IF b.amount # r.amount THEN reject(r, "wrong_amount")
  ELSE IF ~namesDestination(b, r) THEN reject(r, "missing_intent")
  ELSE finalize(r, b)

\* jobs_burn_event: one job past burn_submitted for a burn.
burnTaken(r) ==
  /\ Indexed /\ r.state # "rejected"
  /\ \E id \in JobId \ {r.id} : /\ jobs[id].sourceTx = r.sourceTx
                             /\ jobs[id].state \notin {"burn_submitted", "rejected"}

CheckBurn(c) ==
  /\ pc[c] = "check"
  /\ IF matching(row[c]) = {} THEN skip(c)
     ELSE \E b \in matching(row[c]) :
            LET r == judged(row[c], b)
            IN  IF burnTaken(r) THEN return(c) /\ UNCHANGED <<landed, store, pairs>>
                ELSE save(c, r)
  /\ UNCHANGED budget

\* fetchBurns throws: nothing catches it, and the jobs left are not reached.
CheckBurnThrows(c) ==
  /\ pc[c] = "check"
  /\ return(c) /\ fault
  /\ UNCHANGED <<landed, store, pairs>>

----------------------------------------------------------------------------
(* LiveStampPublisher.publishIssuance and the catch around it *)

spends(p, coin) == p.coin = coin /\ p.commit # Dropped
coinValue(coin) ==
  IF coin \in 1 .. Len(Coins) THEN Coins[coin]
  ELSE pairs[coin - Len(Coins)].value - 1
changeOf(i) == Len(Coins) + i

\* getaddressutxos: coins on the best chain that no mined commit spends. The
\* mempool is not consulted.
utxos ==
  {coin \in 1 .. Len(Coins) :
     ~ \E i \in DOMAIN pairs : spends(pairs[i], coin) /\ mined(pairs[i].commit)}
  \cup
  {changeOf(i) : i \in {i \in DOMAIN pairs :
     /\ mined(pairs[i].commit)
     /\ ~ \E j \in DOMAIN pairs :
            spends(pairs[j], changeOf(i)) /\ mined(pairs[j].commit)}}

fundedCoins == {coin \in utxos : coinValue(coin) > 0}

failed(c) == goto(c, "publish_failed") /\ hold(c, Absent)

ChooseCoins(c) ==
  /\ pc[c] = "coins"
  /\ IF fundedCoins = {}
     THEN goto(c, "unfunded") /\ UNCHANGED <<got, budget>>
     ELSE \/ (\E coin \in fundedCoins : goto(c, "commit") /\ hold(c, coin)) /\ UNCHANGED budget
          \/ failed(c) /\ fault
  /\ UNCHANGED <<landed, store, pairs, todo, row>>

newPair(c) ==
  [coin |-> got[c], value |-> coinValue(got[c]), payload |-> row[c].commitment,
   commit |-> Mempool, reveal |-> Unsent]

\* The node refuses a commit whose coin the chain or the mempool has spent, or
\* whose coin is gone.
conflict(coin) ==
  \E i \in DOMAIN pairs : \/ spends(pairs[i], coin)
                         \/ (coin = changeOf(i) /\ pairs[i].commit = Dropped)

SendCommit(c) ==
  /\ pc[c] = "commit"
  /\ IF conflict(got[c])
     THEN failed(c) /\ UNCHANGED <<pairs, budget>>
     ELSE \/ /\ pairs' = Append(pairs, newPair(c))
             /\ \/ goto(c, "reveal") /\ hold(c, Len(pairs) + 1) /\ UNCHANGED budget
                \/ failed(c) /\ fault              \* accepted, answer lost
          \/ failed(c) /\ fault /\ UNCHANGED pairs \* never reached the node
  /\ UNCHANGED <<landed, store, todo, row>>

SendReveal(c) ==
  /\ pc[c] = "reveal"
  /\ IF pairs[got[c]].commit = Dropped
     THEN failed(c) /\ UNCHANGED <<pairs, budget>>
     ELSE \/ /\ pairs' = [pairs EXCEPT ![got[c]].reveal = Mempool]
             /\ \/ goto(c, "publish_done") /\ UNCHANGED <<got, budget>>
                \/ failed(c) /\ fault
          \/ failed(c) /\ fault /\ UNCHANGED pairs
  /\ UNCHANGED <<landed, store, todo, row>>

published(r, i) ==
  [r EXCEPT !.state = "zcash_confirmation_pending", !.zcashTx = i,
            !.confirmations = 0, !.rejectReason = Absent]

retryable_final(r, reason) ==
  [r EXCEPT !.state = "rejected", !.rejectReason = reason]
retryable(r, reason) ==
  [r EXCEPT !.state = "retryable", !.rejectReason = reason]

SavePublication(c) ==
  /\ \/ pc[c] = "publish_done" /\ save(c, published(row[c], got[c]))
     \/ pc[c] = "unfunded" /\ save(c, retryable(row[c], "insufficient_publication_funds"))
     \/ pc[c] = "publish_failed" /\ save(c, retryable(row[c], "zcash_payload_invalid"))
  /\ UNCHANGED budget

----------------------------------------------------------------------------
(* zcash_confirmation_pending *)

seenDepth(i) == IF mined(pairs[i].reveal) THEN pairs[i].reveal ELSE 0

\* getChainTip and getTransaction. A transaction the node does not know is an
\* error like any other, and keeps the confirmations of the row.
confirmationsOf(r) ==
  IF pairs[r.zcashTx].reveal = Dropped THEN r.confirmations ELSE seenDepth(r.zcashTx)

deepEnough_seen(depth) == depth >= 0
deepEnough(depth) == depth >= MinConfirms

Look(c) ==
  /\ pc[c] = "look"
  /\ \/ hold(c, confirmationsOf(row[c])) /\ UNCHANGED budget
     \/ hold(c, row[c].confirmations) /\ fault
  /\ goto(c, IF deepEnough(got'[c]) THEN "stamp" ELSE "wait")
  /\ UNCHANGED <<landed, store, pairs, todo, row>>

AwaitConfirmation(c) ==
  /\ pc[c] = "wait"
  /\ save(c, [row[c] EXCEPT !.confirmations = got[c]])
  /\ UNCHANGED budget

\* acceptPublishedStamp: the commitment is computed anew, from the row with
\* the authority of the burn; the stamp's id is the commitment published.
accepted(r) ==
  [id |-> r.commitment, commitment |-> issuanceFrom(r), zcashTx |-> r.zcashTx]

FileStamp_jobFirst(c) ==
  /\ pc[c] = "stamp"
  /\ jobs' = [jobs EXCEPT ![row[c].id].state = "confirmed"]
  /\ goto(c, "confirm")
  /\ UNCHANGED <<landed, stamps, pairs, todo, row, got, budget>>
FileStamp(c) ==
  /\ pc[c] = "stamp"
  /\ stamps' = [stamps EXCEPT ![row[c].id] = accepted(row[c])]
  /\ goto(c, "confirm")
  /\ UNCHANGED <<landed, jobs, pairs, todo, row, got, budget>>

ConfirmJob(c) ==
  /\ pc[c] = "confirm"
  /\ save(c, [row[c] EXCEPT !.state = "confirmed", !.confirmations = got[c]])
  /\ UNCHANGED budget

----------------------------------------------------------------------------
(* Everything else *)

\* The process dies, or the host ends the request.
Crash(c) ==
  /\ pc[c] # "idle"
  /\ return(c) /\ fault
  /\ UNCHANGED <<landed, store, pairs>>

\* The transaction the client sent is finalized.
Land(sig) ==
  /\ sig \notin landed
  /\ landed' = landed \cup {sig}
  /\ UNCHANGED <<store, pairs, caller, budget>>

deeper(d) == IF d \in Mempool .. MinConfirms - 1 THEN d + 1 ELSE d

\* A block takes what is in the mempool.
Block ==
  /\ pairs' = [i \in DOMAIN pairs |->
       [pairs[i] EXCEPT !.commit = deeper(@), !.reveal = deeper(@)]]
  /\ UNCHANGED <<landed, store, caller, budget>>

\* The tip is replaced by a block without its transactions.
Reorg ==
  /\ \E i \in DOMAIN pairs : pairs[i].commit = 1 \/ pairs[i].reveal = 1
  /\ fault
  /\ pairs' = [i \in DOMAIN pairs |->
       [pairs[i] EXCEPT !.commit = IF @ = 1 THEN Mempool ELSE @,
                        !.reveal = IF @ = 1 THEN Mempool ELSE @]]
  /\ UNCHANGED <<landed, store, caller>>

\* The expiry height passes before a block takes the transaction.
Expire(i) ==
  /\ fault
  /\ \/ /\ pairs[i].commit = Mempool
        /\ ~ \E j \in DOMAIN pairs : spends(pairs[j], changeOf(i))
        /\ pairs' = [pairs EXCEPT ![i].commit = Dropped, ![i].reveal = Dropped]
     \/ /\ pairs[i].commit # Mempool /\ pairs[i].reveal = Mempool
        /\ pairs' = [pairs EXCEPT ![i].reveal = Dropped]
  /\ UNCHANGED <<landed, store, caller>>

Step(c) ==
  \/ InsertJob(c) \/ ListJobs(c)
  \/ CheckBurn(c)
  \/ ChooseCoins(c) \/ SendCommit(c) \/ SendReveal(c) \/ SavePublication(c)
  \/ Look(c) \/ AwaitConfirmation(c) \/ FileStamp(c) \/ ConfirmJob(c)

Next ==
  \/ \E c \in Caller :
       \/ Step(c) \/ CheckBurnThrows(c) \/ Crash(c)
       \/ \E s \in Submission : Submit(c, s)
  \/ \E sig \in DOMAIN Burn : Land(sig)
  \/ Block \/ Reorg
  \/ \E i \in DOMAIN pairs : Expire(i)

\* The worker's timer starts runs for ever, a call that does not die goes on,
\* and Zcash makes blocks. Nobody has to submit or to burn.
Fairness ==
  /\ \A c \in Caller : WF_vars(Step(c))
  /\ WF_vars(Block)

Spec == Init /\ [][Next]_vars /\ Fairness

----------------------------------------------------------------------------
(* Properties *)

\* Types of the rows, the pairs and the callers (src/lib/store/types.ts).
TypeOK ==
  /\ landed \subseteq DOMAIN Burn
  /\ jobs \in Seq(JobRow) /\ stamps \in Seq(StampRow \cup {Absent})
  /\ DOMAIN stamps = JobId
  /\ \A id \in JobId :
       /\ jobs[id].id = id
       /\ jobs[id].state \notin {"burn_submitted", "rejected"} => jobs[id].commitment # Absent
       /\ jobs[id].state = "zcash_confirmation_pending"
            => jobs[id].zcashTx \in DOMAIN pairs
  /\ pairs \in Seq(Pair)
  /\ \A c \in Caller : pc[c] \in At /\ (pc[c] \in {"check", "coins", "look"} => row[c].id \in JobId)
  /\ requests \in 0 .. MaxRequests /\ faults \in 0 .. MaxFaults

\* The burns of a transaction that carry the payload of an inscription.
burnsOf(x) ==
  {b \in fetchBurns(x.sourceTx) :
     b.mint = x.mint /\ b.amount = x.amount /\ ~b.err /\ namesDestination(b, x)}

\* Whatever callers, crashes and lost answers do, the publisher never pays to
\* inscribe a burn that is not final, is of another amount, or whose memo does
\* not name the destination (live.ts checks it in one run and publishes in
\* another, from a row it has listed in between).
InscribedWasBurned ==
  \A i \in DOMAIN pairs : burnsOf(pairs[i].payload) # {}

\* A stamp row names an inscription of its own payload that is on the chain,
\* and stays so through reorganisations shallower than MinConfirms.
StampIsInscribed ==
  \A id \in JobId : stamps[id] # Absent =>
    /\ mined(pairs[stamps[id].zcashTx].reveal)
    /\ pairs[stamps[id].zcashTx].payload = stamps[id].id

\* A confirmed job has its stamp row, though the two are stored one after the
\* other and a crash can fall between, and the publication the job names is on
\* the chain. (A second caller may leave the stamp row naming another one.)
ConfirmedHasStamp ==
  \A id \in JobId : jobs[id].state = "confirmed" =>
    /\ stamps[id] # Absent
    /\ mined(pairs[jobs[id].zcashTx].reveal)
    /\ pairs[jobs[id].zcashTx].payload = stamps[id].id

\* The two rows of a finished job agree with each other and with the chain.
JobsAndStampsAgree == TypeOK /\ StampIsInscribed /\ ConfirmedHasStamp

\* A job is refused for what its burn is, never for a publisher without funds,
\* an error or a lost answer: those leave it retryable.
RejectedForCause ==
  \A id \in JobId : jobs[id].state = "rejected" =>
    matching(jobs[id]) # {} /\ burnsOf(issuanceFrom(jobs[id])) = {}

\* Where a job may rest: finished; the publisher has no coin left to pay with;
\* or the publication the row names was dropped, which nothing tries again.
Rests(r) ==
  \/ r.state \in Finished
  \/ r.state = "retryable" /\ fundedCoins = {}
  \/ r.state = "zcash_confirmation_pending" /\ pairs[r.zcashTx].reveal = Dropped

\* A job whose burn another job holds: the index refuses its row, the run that
\* tried ends there, and so does every later one (live.ts:104).
blocked(r) ==
  /\ r.state = "burn_submitted"
  /\ \E b \in matching(r) : burnTaken(judged(r, b))

\* Once the faults end, every job whose burn is final comes to rest, whichever
\* callers work on its row meanwhile, unless it is blocked or a newer job is:
\* a run takes the newest jobs first and ends at a blocked one, so the older
\* ones wait for ever.
JobsComeToRest ==
  <>[](\A id \in JobId :
         /\ jobs[id].sourceTx \in landed /\ matching(jobs[id]) # {}
         /\ ~ \E k \in id .. Len(jobs) : blocked(jobs[k])
         => Rests(jobs[id]))

\* Refuted: two jobs of one burn. The second is never answered, and neither are
\* the jobs before it.
EveryJobComesToRest ==
  <>[](\A id \in JobId : jobs[id].sourceTx \in landed /\ matching(jobs[id]) # {}
         => Rests(jobs[id]))

\* Refuted: a lost answer, or two callers, publish one burn twice.
OneInscriptionPerBurn ==
  \A i, j \in DOMAIN pairs :
    /\ pairs[i].payload.sourceTx = pairs[j].payload.sourceTx
    /\ pairs[i].reveal >= Mempool /\ pairs[j].reveal >= Mempool
    => i = j

\* Refuted: the commitment accepted is of the row with the burn's authority,
\* the one published of the row with the owner.
AcceptedIsInscribed ==
  \A id \in JobId : stamps[id] # Absent => stamps[id].commitment = stamps[id].id

\* Refuted with two callers: a row listed before the job was confirmed is
\* written back after it.
ConfirmedIsFinal ==
  [][\A id \in JobId : jobs[id].state = "confirmed" => jobs'[id].state = "confirmed"]_vars


=============================================================================
