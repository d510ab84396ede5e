-------------------------- MODULE JobWorker_proofs --------------------------
(***************************************************************************)
(* Proofs about JobWorker, for any number of submissions, crashes and      *)
(* reorgs, under two assumptions on the deployment: one caller is inside   *)
(* the store at a time, and the depth that confirms a publication is       *)
(* greater than the depth of a reorg.  IInv relates what the caller holds  *)
(* in memory to what is stored: the rows it has yet to handle are the      *)
(* stored ones, and its snapshot has lost nothing of the stored chains.    *)
(***************************************************************************)
EXTENDS JobWorker, WellFoundedInduction, TLAPS

OneCaller == \A p, q \in Caller : p = q
ReorgsAreShallow == ReorgDepth < MinConfirms

Running == {"loaded", "working", "filed", "shown"}
Submitting == {"burning", "burnt", "recording"}
Holding == Running \cup {"burning", "burnt"}

Publications ==
  UNION {[T -> [inBestChain : BOOLEAN, confirmations : 0 .. MinConfirms]] :
           T \in SUBSET Txid}

Chain ==
  [balance : 0 .. InitialSupply, burned : SUBSET Job, failed : SUBSET Job,
   height : Nat, funds : 0 .. InitialFunds, txs : Publications]

Shape ==
  /\ demo \in Chain
  /\ jobs \in [Job -> JobRow \cup {None}]
  /\ stamps \in [Job -> Txid \cup {None}]
  /\ shownSupply \in 0 .. InitialSupply
  /\ submitted \in 0 .. MaxJobs
  /\ pc \in [Caller -> {"idle"} \cup Submitting \cup Running]
  /\ target \in [Caller -> Job \cup {None}]
  /\ DOMAIN snapshot = Caller /\ DOMAIN todo = Caller
  /\ \A p \in Caller : IF pc[p] \in Holding THEN snapshot[p] \in Chain
                                            ELSE snapshot[p] = None

\* A caller that has burned has a job of its own to file.
Filing ==
  /\ \A j \in Job : submitted < j => jobs[j] = None /\ j \notin demo.burned
  /\ \A p \in Caller : pc[p] \in Submitting =>
       /\ target[p] \in Job /\ target[p] <= submitted
       /\ jobs[target[p]] = None

\* The rows to handle are the stored ones.
Loaded ==
  \A p \in Caller :
    /\ DOMAIN todo[p] \subseteq Job
    /\ pc[p] \in {"idle", "loaded"} \cup Submitting => DOMAIN todo[p] = {}
    /\ \A j \in DOMAIN todo[p] :
         jobs[j] # None /\ todo[p][j] = jobs[j] /\ due(jobs[j])

\* A burn that is not checked has neither claim nor publication; one with a
\* claim is on the ledger.
RowsAreEarned ==
  \A j \in Job : jobs[j] # None =>
    /\ jobs[j].state = "burn_submitted" =>
         ~ jobs[j].claim /\ jobs[j].zcashTx = None
    /\ jobs[j].claim => j \in demo.burned

\* The job of a publication in the best chain names it.
Named(chain) ==
  \A t \in DOMAIN chain.txs : chain.txs[t].inBestChain =>
    jobs[t[1]] # None /\ jobs[t[1]].zcashTx = t

\* No reorg reaches the publication t.
Settled(t) == onChain(demo, t) /\ ReorgDepth <= demo.txs[t].confirmations

\* A chain that has kept the stored publications.
Keeps(chain) ==
  \A t \in DOMAIN demo.txs : demo.txs[t].inBestChain =>
    /\ onChain(chain, t)
    /\ demo.txs[t].confirmations <= chain.txs[t].confirmations

\* What a run holds: the stored ledger, and publications that are deep enough
\* only if they are settled.
RunHolds(p) ==
  /\ snapshot[p].burned = demo.burned /\ snapshot[p].balance = demo.balance
  /\ Keeps(snapshot[p]) /\ Named(snapshot[p])
  /\ \A t \in DOMAIN snapshot[p].txs :
       onChain(snapshot[p], t) /\ deepEnough(snapshot[p], t) => Settled(t)

\* What a submission holds: the stored publications, and a ledger that is the
\* stored one but for its own burn.
SubmissionHolds(p) ==
  /\ snapshot[p].txs = demo.txs
  /\ demo.burned \subseteq snapshot[p].burned
  /\ snapshot[p].burned \subseteq demo.burned \cup {target[p]}
  /\ \/ target[p] \in snapshot[p].burned
     \/ snapshot[p].balance = demo.balance

MemoryHolds ==
  \A p \in Caller :
    /\ pc[p] \in Running => RunHolds(p)
    /\ pc[p] \in {"burning", "burnt"} => SubmissionHolds(p)

\* What is stored before the row of a job is stored as confirmed.
Confirming ==
  \A p \in Caller :
    /\ pc[p] \in {"filed", "shown"} =>
         /\ DOMAIN todo[p] # {}
         /\ toConfirm(jobs[current(p)])
         /\ stamps[current(p)] = jobs[current(p)].zcashTx
         /\ Settled(stamps[current(p)])
    /\ pc[p] = "shown" => shownSupply = demo.balance

ConfirmedIsSettled ==
  \A j \in Job : confirmed(j) =>
    /\ jobs[j].claim
    /\ stamps[j] = jobs[j].zcashTx
    /\ Settled(stamps[j])

IInv ==
  /\ Shape /\ Filing /\ Loaded /\ RowsAreEarned /\ Named(demo)
  /\ MemoryHolds /\ Confirming /\ ConfirmedIsSettled /\ SupplyShown

-----------------------------------------------------------------------------
(* The operators on chains.                                                *)

LEMMA ChainFields ==
  ASSUME NEW chain \in Chain
  PROVE  /\ chain.balance \in 0 .. InitialSupply
         /\ chain.burned \in SUBSET Job /\ chain.failed \in SUBSET Job
         /\ chain.height \in Nat /\ chain.funds \in 0 .. InitialFunds
         /\ chain.txs \in Publications
         /\ DOMAIN chain.txs \subseteq Txid
         /\ \A t \in DOMAIN chain.txs :
              /\ chain.txs[t].inBestChain \in BOOLEAN
              /\ chain.txs[t].confirmations \in 0 .. MinConfirms
BY DEF Chain, Publications

LEMMA ChainIsChain == ASSUME NEW chain \in Chain PROVE IsChain(chain)
<1>1. \A t \in DOMAIN chain.txs :
        chain.txs[t] \in [inBestChain : BOOLEAN, confirmations : Nat]
  BY DEF Chain, Publications
<1>. QED  BY <1>1, ChainFields DEF IsChain

\* A tick changes the confirmations only, by at most one.
LEMMA TickedChain ==
  ASSUME NEW chain \in Chain
  PROVE  /\ ticked(chain) \in Chain
         /\ ticked(chain).burned = chain.burned
         /\ ticked(chain).balance = chain.balance
         /\ DOMAIN ticked(chain).txs = DOMAIN chain.txs
         /\ \A t \in DOMAIN chain.txs :
              /\ ticked(chain).txs[t].inBestChain = chain.txs[t].inBestChain
              /\ chain.txs[t].confirmations <= ticked(chain).txs[t].confirmations
              /\ ticked(chain).txs[t].confirmations
                   <= chain.txs[t].confirmations + 1
<1>. DEFINE new(t) == tick(chain.txs[t])
            txs == [t \in DOMAIN chain.txs |-> new(t)]
<1>1. ASSUME NEW t \in DOMAIN chain.txs
      PROVE  /\ new(t) \in [inBestChain : BOOLEAN, confirmations : 0 .. MinConfirms]
             /\ new(t).inBestChain = chain.txs[t].inBestChain
             /\ chain.txs[t].confirmations <= new(t).confirmations
             /\ new(t).confirmations <= chain.txs[t].confirmations + 1
  <2>1. chain.txs[t] \in [inBestChain : BOOLEAN, confirmations : 0 .. MinConfirms]
    BY DEF Chain, Publications
  <2>. QED  BY <2>1, JobAssumption DEF tick, Least
<1>2. ticked(chain) = [chain EXCEPT !.txs = txs]
  BY DEF ticked, Chain
<1>. HIDE DEF new
<1>3. txs \in [DOMAIN chain.txs ->
                 [inBestChain : BOOLEAN, confirmations : 0 .. MinConfirms]]
  BY <1>1
<1>4. txs \in Publications
  BY <1>3, ChainFields DEF Publications
<1>5. ticked(chain) \in Chain /\ ticked(chain).txs = txs
      /\ ticked(chain).burned = chain.burned
      /\ ticked(chain).balance = chain.balance
  BY <1>2, <1>4 DEF Chain
<1>. QED  BY <1>1, <1>5

LEMMA PublishedChain ==
  ASSUME NEW chain \in Chain, NEW j \in Job, chain.funds > 0,
         NEW txid, txid = <<j, chain.height + 1>>
  PROVE  /\ txid \in Txid
         /\ publish(chain, j) \in Chain
         /\ publish(chain, j).burned = chain.burned
         /\ publish(chain, j).balance = chain.balance
         /\ DOMAIN publish(chain, j).txs = DOMAIN chain.txs \cup {txid}
         /\ publish(chain, j).txs[txid].confirmations = 0
         /\ \A t \in DOMAIN chain.txs \ {txid} :
              publish(chain, j).txs[t] = chain.txs[t]
<1>. DEFINE txs == [t \in DOMAIN chain.txs \cup {txid} |->
                      IF t = txid THEN [inBestChain |-> TRUE, confirmations |-> 0]
                      ELSE chain.txs[t]]
<1>1. txid \in Txid
  BY ChainFields DEF Txid
<1>2. txs \in [DOMAIN chain.txs \cup {txid} ->
                 [inBestChain : BOOLEAN, confirmations : 0 .. MinConfirms]]
  BY JobAssumption DEF Chain, Publications
<1>3. txs \in Publications
  <2>1. DOMAIN chain.txs \cup {txid} \in SUBSET Txid
    BY <1>1, ChainFields
  <2>. HIDE DEF txs
  <2>. QED  BY <1>2, <2>1 DEF Publications
<1>4. publish(chain, j) = [chain EXCEPT !.funds = @ - 1, !.height = @ + 1,
                                        !.txs = txs]
  BY DEF publish, Chain
<1>. HIDE DEF txs
<1>5. /\ publish(chain, j) \in Chain
      /\ publish(chain, j).txs = txs
      /\ publish(chain, j).burned = chain.burned
      /\ publish(chain, j).balance = chain.balance
  <2>1. chain.funds - 1 \in 0 .. InitialFunds /\ chain.height + 1 \in Nat
    BY ChainFields, JobAssumption
  <2>. QED  BY <1>3, <1>4, <2>1 DEF Chain
<1>. QED  BY <1>1, <1>5 DEF txs

\* A set of natural numbers that is not empty has a least element.
LEMMA LeastNat ==
  ASSUME NEW T, T \subseteq Nat, T # {}
  PROVE  \E n \in T : \A m \in T : n <= m
<1>1. PICK n \in T : \A m \in T : <<m, n>> \notin OpToRel(<, Nat)
  BY WFMin, NatLessThanWellFounded, Zenon
<1>2. \A m \in T : ~ (m < n)
  <2>1. \A m \in T : <<m, n>> \in Nat \X Nat
    OBVIOUS
  <2>. QED  BY <1>1, <2>1, Zenon DEF OpToRel
<1>. QED  BY <1>2

\* The row a run handles is one it has loaded.
LEMMA CurrentLoaded ==
  ASSUME NEW p \in Caller, DOMAIN todo[p] # {}, DOMAIN todo[p] \subseteq Job
  PROVE  current(p) \in DOMAIN todo[p]
<1>. DEFINE T == {MaxJobs - j : j \in DOMAIN todo[p]}
<1>1. T \subseteq Nat /\ T # {}
  BY JobAssumption DEF Job
<1>2. PICK n \in T : \A m \in T : n <= m
  BY <1>1, LeastNat
<1>3. PICK k \in DOMAIN todo[p] : n = MaxJobs - k
  BY <1>2
<1>4. ASSUME NEW j \in DOMAIN todo[p] PROVE k >= j
  <2>1. n <= MaxJobs - j
    BY <1>2
  <2>2. j \in Nat /\ k \in Nat
    BY DEF Job
  <2>. QED  BY <2>1, <2>2, <1>3, JobAssumption
<1>5. (CHOOSE x \in DOMAIN todo[p] : \A y \in DOMAIN todo[p] : x >= y)
        \in DOMAIN todo[p]
  BY <1>3, <1>4
<1>. QED  BY <1>5, Zenon DEF current, Max

\* The invariant says what the documents of the job promise.
LEMMA Consequences ==
  ASSUME IInv
  PROVE  ShownStandsOnChain /\ OnePublication
<1>1. TypeOK
  <2>1. IsChain(demo) /\ \A p \in Caller : snapshot[p] = None \/ IsChain(snapshot[p])
    BY ChainIsChain DEF IInv, Shape
  <2>2. \A p \in Caller : \A j \in DOMAIN todo[p] : todo[p][j] \in JobRow
    BY DEF IInv, Shape, Loaded
  <2>. QED  BY <2>1, <2>2 DEF IInv, Shape, TypeOK, Running, Submitting
<1>2. ConfirmedIsAccepted
  BY DEF IInv, ConfirmedIsSettled, Settled, RowsAreEarned, ConfirmedIsAccepted, confirmed
<1>3. OnePublication
  BY DEF IInv, Named, OnePublication, onChain
<1>. QED  BY <1>1, <1>2, <1>3 DEF IInv, ShownStandsOnChain

LEMMA InitIInv == Init => IInv
<1>. SUFFICES ASSUME Init PROVE IInv
  OBVIOUS
<1>1. Shape
  <2>1. demo.txs \in [{} -> [inBestChain : BOOLEAN, confirmations : 0 .. MinConfirms]]
    BY DEF Init
  <2>2. demo.txs \in Publications
    BY <2>1 DEF Publications
  <2>3. demo \in Chain
    BY <2>2, JobAssumption DEF Init, Chain
  <2>. QED  BY <2>3, JobAssumption DEF Init, Shape, Holding, Running
<1>2. Filing /\ Loaded /\ RowsAreEarned /\ Named(demo) /\ MemoryHolds
      /\ Confirming /\ ConfirmedIsSettled /\ SupplyShown
  BY DEF Init, Filing, Loaded, RowsAreEarned, Named, MemoryHolds, Confirming,
     ConfirmedIsSettled, SupplyShown, Running, Submitting, confirmed
<1>. QED  BY <1>1, <1>2 DEF IInv

-----------------------------------------------------------------------------
(* The steps of a submission.                                              *)

LEMMA BurnIInv ==
  ASSUME IInv, OneCaller, NEW p \in Caller, NEW fail \in BOOLEAN, Burn(p, fail)
  PROVE  IInv'
<1>. DEFINE j == submitted + 1
<1>1. j \in Job /\ jobs[j] = None /\ Amount[j] \in Nat
  BY JobAssumption DEF IInv, Shape, Filing, Burn, Job
<1>2. pc[p] = "idle" /\ Amount[j] <= demo.balance
  BY DEF Burn
<1>3. /\ submitted' = j
      /\ target' = [target EXCEPT ![p] = j]
      /\ snapshot' = [snapshot EXCEPT ![p] = executeDemoBurn(demo, j, fail)]
      /\ pc' = [pc EXCEPT ![p] = "burning"]
      /\ UNCHANGED <<demo, jobs, stamps, shownSupply, todo>>
  BY DEF Burn
<1>4. /\ executeDemoBurn(demo, j, fail) \in Chain
      /\ executeDemoBurn(demo, j, fail).txs = demo.txs
      /\ demo.burned \subseteq executeDemoBurn(demo, j, fail).burned
      /\ executeDemoBurn(demo, j, fail).burned \subseteq demo.burned \cup {j}
      /\ \/ j \in executeDemoBurn(demo, j, fail).burned
         \/ executeDemoBurn(demo, j, fail).balance = demo.balance
  <2>1. demo \in Chain
    BY DEF IInv, Shape
  <2>2. demo.balance - Amount[j] \in 0 .. InitialSupply
    BY <2>1, <1>1, <1>2, ChainFields, JobAssumption
  <2>3. demo.burned \cup {j} \in SUBSET Job /\ demo.failed \cup {j} \in SUBSET Job
    BY <2>1, <1>1, ChainFields
  <2>. HIDE DEF j
  <2>4. CASE fail
    BY <2>1, <2>3, <2>4 DEF executeDemoBurn, Chain
  <2>5. CASE ~fail
    BY <2>1, <2>2, <2>3, <2>5 DEF executeDemoBurn, Chain
  <2>. QED  BY <2>4, <2>5
<1>. DEFINE chain == executeDemoBurn(demo, j, fail)
<1>. HIDE DEF chain
<1>5. Shape'
  <2>1. submitted' \in 0 .. MaxJobs
    BY <1>1, <1>3, JobAssumption DEF Job
  <2>. QED
    BY <2>1, <1>1, <1>3, <1>4 DEF IInv, Shape, Submitting, Holding, chain
<1>6. Filing'
  <2>1. \A k \in Job : j < k => submitted < k
    BY JobAssumption DEF IInv, Shape, Job
  <2>2. j <= j
    BY JobAssumption DEF IInv, Shape
  <2>. QED  BY <2>1, <2>2, <1>1, <1>3, Zenon DEF IInv, Shape, Filing, OneCaller
<1>7. Loaded'
  BY <1>2, <1>3 DEF IInv, Shape, Loaded, Submitting
<1>8. MemoryHolds'
  <2>1. SubmissionHolds(p)'
    BY <1>1, <1>3, <1>4 DEF IInv, Shape, SubmissionHolds
  <2>2. pc'[p] = "burning" /\ \A q \in Caller : q = p
    BY <1>3 DEF IInv, Shape, OneCaller
  <2>. QED  BY <2>1, <2>2 DEF MemoryHolds, Running
<1>9. Confirming'
  BY <1>3 DEF IInv, Shape, Confirming, OneCaller
<1>. QED
  BY <1>3, <1>5, <1>6, <1>7, <1>8, <1>9 DEF IInv, RowsAreEarned, Named,
     ConfirmedIsSettled, SupplyShown, Settled, onChain, confirmed

LEMMA LoadZcashIInv ==
  ASSUME IInv, OneCaller, NEW p \in Caller, LoadZcash(p)
  PROVE  IInv'
<1>1. pc[p] = "burning" /\ \A q \in Caller : q = p
  BY DEF LoadZcash, OneCaller
<1>2. snapshot[p] \in Chain /\ demo \in Chain
  BY <1>1 DEF IInv, Shape, Holding
<1>3. /\ pc' = [pc EXCEPT ![p] = "burnt"]
      /\ UNCHANGED <<demo, jobs, stamps, shownSupply, todo, target, submitted>>
      /\ DOMAIN snapshot' = Caller
      /\ snapshot'[p] = [snapshot[p] EXCEPT !.height = demo.height,
                                            !.funds = demo.funds,
                                            !.txs = demo.txs]
  BY DEF LoadZcash, environment, IInv, Shape
<1>4. /\ snapshot'[p] \in Chain
      /\ snapshot'[p].txs = demo.txs
      /\ snapshot'[p].burned = snapshot[p].burned
      /\ snapshot'[p].balance = snapshot[p].balance
  BY <1>2, <1>3 DEF Chain
<1>5. Shape'
  BY <1>1, <1>3, <1>4 DEF IInv, Shape, Submitting, Holding
<1>6. Filing' /\ Loaded'
  BY <1>1, <1>3 DEF IInv, Shape, Filing, Loaded, Submitting
<1>7. MemoryHolds'
  BY <1>1, <1>3, <1>4 DEF IInv, Shape, MemoryHolds, SubmissionHolds, Running
<1>8. Confirming'
  BY <1>1, <1>3 DEF IInv, Shape, Confirming
<1>. QED
  BY <1>3, <1>5, <1>6, <1>7, <1>8 DEF IInv, RowsAreEarned, Named,
     ConfirmedIsSettled, SupplyShown, Settled, onChain, confirmed

\* The burn that is stored has no job yet, so not every burn is confirmed.
LEMMA SaveBurnIInv ==
  ASSUME IInv, OneCaller, NEW p \in Caller, SaveBurn(p)
  PROVE  IInv'
<1>1. pc[p] = "burnt" /\ \A q \in Caller : q = p
  BY DEF SaveBurn, OneCaller
<1>2. snapshot[p] \in Chain /\ SubmissionHolds(p)
  BY <1>1 DEF IInv, Shape, Holding, MemoryHolds
<1>3. /\ target[p] \in Job /\ target[p] <= submitted
      /\ jobs[target[p]] = None
  BY <1>1 DEF IInv, Filing, Submitting
<1>4. /\ demo' = snapshot[p]
      /\ pc' = [pc EXCEPT ![p] = "recording"]
      /\ snapshot' = [snapshot EXCEPT ![p] = None]
      /\ UNCHANGED <<jobs, stamps, shownSupply, todo, target, submitted>>
  BY DEF SaveBurn, environment
<1>5. demo'.txs = demo.txs /\ demo.burned \subseteq demo'.burned
      /\ demo'.burned \subseteq demo.burned \cup {target[p]}
      /\ (target[p] \in demo'.burned \/ demo'.balance = demo.balance)
  BY <1>2, <1>4 DEF SubmissionHolds
<1>6. Shape'
  BY <1>1, <1>2, <1>4 DEF IInv, Shape, Submitting, Holding, Running
<1>7. Filing'
  <2>1. \A k \in Job : submitted < k => k # target[p]
    BY <1>3, JobAssumption DEF IInv, Shape, Job
  <2>. QED  BY <2>1, <1>1, <1>3, <1>4, <1>5 DEF IInv, Filing
<1>8. Loaded'
  BY <1>1, <1>4 DEF IInv, Shape, Loaded, Submitting
<1>9. MemoryHolds' /\ Confirming'
  BY <1>1, <1>4 DEF IInv, Shape, MemoryHolds, Confirming, Running
<1>10. SupplyShown'
  <2>1. CASE target[p] \in demo'.burned
    BY <2>1, <1>3, <1>4 DEF SupplyShown, confirmed
  <2>2. CASE target[p] \notin demo'.burned
    BY <2>2, <1>4, <1>5 DEF IInv, SupplyShown, confirmed
  <2>. QED  BY <2>1, <2>2
<1>. QED
  BY <1>4, <1>5, <1>6, <1>7, <1>8, <1>9, <1>10 DEF IInv, RowsAreEarned, Named,
     ConfirmedIsSettled, Settled, onChain, confirmed

LEMMA RecordJobIInv ==
  ASSUME IInv, OneCaller, NEW p \in Caller, RecordJob(p)
  PROVE  IInv'
<1>. DEFINE row == [state |-> "burn_submitted", claim |-> FALSE, zcashTx |-> None]
<1>1. pc[p] = "recording" /\ \A q \in Caller : q = p
  BY DEF RecordJob, OneCaller
<1>2. /\ target[p] \in Job /\ target[p] <= submitted
      /\ jobs[target[p]] = None
  BY <1>1 DEF IInv, Filing, Submitting
<1>3. /\ jobs' = [jobs EXCEPT ![target[p]] = row]
      /\ pc' = [pc EXCEPT ![p] = "idle"]
      /\ target' = [target EXCEPT ![p] = None]
      /\ UNCHANGED <<demo, stamps, shownSupply, snapshot, todo, submitted>>
  BY DEF RecordJob, environment
<1>4. /\ row \in JobRow /\ row.state = "burn_submitted" /\ ~row.claim
      /\ row.zcashTx = None /\ row # None
  <2>1. row \in JobRow
    BY DEF JobRow, JobState
  <2>. QED  BY <2>1, NoneAssumption, Zenon
<1>. HIDE DEF row
<1>5. /\ jobs'[target[p]] = row
      /\ \A j \in Job : j # target[p] => jobs'[j] = jobs[j]
      /\ DOMAIN todo[p] = {}
      /\ \A t \in DOMAIN demo.txs : demo.txs[t].inBestChain => t[1] # target[p]
  BY <1>1, <1>2, <1>3 DEF IInv, Shape, Loaded, Named, Submitting
<1>6. Shape'
  BY <1>1, <1>3, <1>4 DEF IInv, Shape, Submitting, Holding, Running
<1>7. Filing'
  <2>1. \A k \in Job : submitted < k => k # target[p]
    BY <1>2, JobAssumption DEF IInv, Shape, Job
  <2>. QED  BY <2>1, <1>1, <1>3, <1>5 DEF IInv, Shape, Filing, Submitting
<1>8. Loaded'
  BY <1>1, <1>3, <1>5 DEF IInv, Shape, Loaded
<1>9. RowsAreEarned'
  BY <1>3, <1>4, <1>5 DEF IInv, RowsAreEarned
<1>10. Named(demo)'
  <2>1. \A t \in DOMAIN demo.txs : t[1] \in Job
    BY ChainFields DEF IInv, Shape, Txid
  <2>. QED  BY <2>1, <1>3, <1>5 DEF IInv, Named
<1>11. MemoryHolds' /\ Confirming'
  BY <1>1, <1>3 DEF IInv, Shape, MemoryHolds, Confirming, Running
<1>12. ConfirmedIsSettled'
  BY <1>3, <1>4, <1>5 DEF IInv, ConfirmedIsSettled, confirmed, Settled, onChain
<1>13. SupplyShown'
  <2>1. \A j \in Job : confirmed(j)' <=> confirmed(j)
    BY <1>2, <1>4, <1>5 DEF confirmed
  <2>2. demo.burned \subseteq Job
    BY ChainFields DEF IInv, Shape
  <2>. QED  BY <2>1, <2>2, <1>3 DEF IInv, SupplyShown
<1>. QED
  BY <1>6, <1>7, <1>8, <1>9, <1>10, <1>11, <1>12, <1>13 DEF IInv

-----------------------------------------------------------------------------
(* The steps of a run.                                                     *)

\* After the tick, a publication that is deep enough was settled before it.
LEMMA LoadDemoIInv ==
  ASSUME IInv, OneCaller, ReorgsAreShallow, NEW p \in Caller, LoadDemo(p)
  PROVE  IInv'
<1>1. pc[p] = "idle" /\ \A q \in Caller : q = p
  BY DEF LoadDemo, OneCaller
<1>2. /\ snapshot' = [snapshot EXCEPT ![p] = ticked(demo)]
      /\ pc' = [pc EXCEPT ![p] = "loaded"]
      /\ UNCHANGED <<demo, jobs, stamps, shownSupply, todo, target, submitted>>
  BY DEF LoadDemo, environment
<1>3. demo \in Chain
  BY DEF IInv, Shape
<1>4. Shape'
  BY <1>1, <1>2, <1>3, TickedChain DEF IInv, Shape, Submitting, Holding, Running
<1>5. Filing' /\ Loaded'
  BY <1>1, <1>2 DEF IInv, Shape, Filing, Loaded, Submitting
<1>6. RunHolds(p)'
  <2>1. snapshot'[p] = ticked(demo)
    BY <1>2 DEF IInv, Shape
  <2>2. Keeps(ticked(demo)) /\ Named(ticked(demo))
    BY <1>3, TickedChain DEF IInv, Keeps, Named, onChain
  <2>3. ASSUME NEW t \in DOMAIN ticked(demo).txs, onChain(ticked(demo), t),
               deepEnough(ticked(demo), t)
        PROVE  Settled(t)
    <3>1. t \in DOMAIN demo.txs /\ demo.txs[t].inBestChain
      BY <2>3, <1>3, TickedChain DEF onChain
    <3>2. /\ MinConfirms <= ticked(demo).txs[t].confirmations
          /\ ticked(demo).txs[t].confirmations <= demo.txs[t].confirmations + 1
          /\ ticked(demo).txs[t].confirmations \in Nat
          /\ demo.txs[t].confirmations \in Nat
      <4>1. ticked(demo) \in Chain
        BY <1>3, TickedChain
      <4>. QED
        BY <2>3, <3>1, <1>3, <4>1, TickedChain, ChainFields, JobAssumption
        DEF deepEnough
    <3>3. ReorgDepth <= demo.txs[t].confirmations
      BY <3>2, JobAssumption DEF ReorgsAreShallow
    <3>. QED  BY <3>1, <3>3 DEF Settled, onChain
  <2>4. ticked(demo).burned = demo.burned /\ ticked(demo).balance = demo.balance
    BY <1>3, TickedChain
  <2>. QED
    BY <2>1, <2>2, <2>3, <2>4, <1>2 DEF RunHolds, Keeps, Named, Settled, onChain,
       deepEnough
<1>7. MemoryHolds'
  BY <1>1, <1>2, <1>6 DEF IInv, Shape, MemoryHolds
<1>8. Confirming'
  BY <1>1, <1>2 DEF IInv, Shape, Confirming
<1>. QED
  BY <1>2, <1>4, <1>5, <1>7, <1>8 DEF IInv, RowsAreEarned, Named,
     ConfirmedIsSettled, SupplyShown, Settled, onChain, confirmed

LEMMA ListJobsIInv ==
  ASSUME IInv, OneCaller, NEW p \in Caller, ListJobs(p)
  PROVE  IInv'
<1>. DEFINE dueJobs == {j \in Job : jobs[j] # None /\ due(jobs[j])}
<1>1. pc[p] = "loaded" /\ \A q \in Caller : q = p
  BY DEF ListJobs, OneCaller
<1>2. /\ todo' = [todo EXCEPT ![p] = [j \in dueJobs |-> jobs[j]]]
      /\ pc' = [pc EXCEPT ![p] = "working"]
      /\ UNCHANGED <<demo, jobs, stamps, shownSupply, snapshot, target, submitted>>
  BY DEF ListJobs, environment
<1>3. Shape'
  BY <1>1, <1>2 DEF IInv, Shape, Submitting, Holding, Running
<1>4. Filing'
  BY <1>1, <1>2 DEF IInv, Shape, Filing, Submitting
<1>5. Loaded'
  BY <1>1, <1>2 DEF IInv, Shape, Loaded, Submitting, due, toPublish, toConfirm
<1>6. MemoryHolds'
  BY <1>1, <1>2 DEF IInv, Shape, MemoryHolds, RunHolds, Keeps, Named, Settled,
     onChain, deepEnough, Running
<1>7. Confirming'
  BY <1>1, <1>2 DEF IInv, Shape, Confirming
<1>. QED
  BY <1>2, <1>3, <1>4, <1>5, <1>6, <1>7 DEF IInv, RowsAreEarned, Named,
     ConfirmedIsSettled, SupplyShown, Settled, onChain, confirmed

\* The row of the job at hand is stored, over a snapshot that may have gained
\* a publication of it.
LEMMA SavedIInv ==
  ASSUME IInv, OneCaller, NEW p \in Caller, NEW row \in JobRow,
         pc[p] \in {"working", "shown"}, DOMAIN todo[p] # {}, SaveJob(p, row),
         pc' = [pc EXCEPT ![p] = "working"],
         UNCHANGED <<demo, stamps, shownSupply, target, submitted>>,
         snapshot'[p] \in Chain, DOMAIN snapshot' = Caller,
         row.state # "burn_submitted",
         row.claim => current(p) \in demo.burned,
         row.state = "confirmed" =>
           /\ row.claim /\ stamps[current(p)] = row.zcashTx
           /\ Settled(stamps[current(p)]) /\ shownSupply = demo.balance,
         jobs[current(p)].state # "confirmed",
         snapshot'[p].burned = demo.burned, snapshot'[p].balance = demo.balance,
         Keeps(snapshot'[p]),
         \A t \in DOMAIN snapshot'[p].txs : snapshot'[p].txs[t].inBestChain =>
           IF t[1] = current(p) THEN row.zcashTx = t
           ELSE jobs[t[1]] # None /\ jobs[t[1]].zcashTx = t,
         \A t \in DOMAIN snapshot'[p].txs :
           onChain(snapshot'[p], t) /\ deepEnough(snapshot'[p], t) => Settled(t)
  PROVE  IInv'
<1>. DEFINE j == current(p)
<1>1. \A q \in Caller : q = p
  BY DEF OneCaller
<1>2. j \in DOMAIN todo[p] /\ j \in Job /\ jobs[j] # None
  BY CurrentLoaded DEF IInv, Loaded
<1>3. /\ jobs' = [jobs EXCEPT ![j] = row]
      /\ todo' = [todo EXCEPT ![p] = without(todo[p], j)]
  BY DEF SaveJob
<1>. HIDE DEF j
<1>4. /\ jobs'[j] = row
      /\ \A k \in Job : k # j => jobs'[k] = jobs[k]
      /\ row # None
  BY <1>2, <1>3, NoneAssumption DEF IInv, Shape
<1>5. Shape'
  BY <1>1, <1>3 DEF IInv, Shape, Submitting, Holding, Running
<1>6. Filing'
  <2>1. j <= submitted
    BY <1>2, JobAssumption DEF IInv, Shape, Filing, Job
  <2>2. \A k \in Job : submitted < k => k # j
    BY <2>1, JobAssumption DEF IInv, Shape, Job
  <2>. QED  BY <2>2, <1>1, <1>4 DEF IInv, Shape, Filing, Submitting
<1>7. Loaded'
  <2>1. todo'[p] = [k \in DOMAIN todo[p] \ {j} |-> todo[p][k]]
    BY <1>3 DEF IInv, Shape, without
  <2>2. DOMAIN todo[p] \subseteq Job /\ \A k \in DOMAIN todo[p] :
          jobs[k] # None /\ todo[p][k] = jobs[k] /\ due(jobs[k])
    BY DEF IInv, Loaded
  <2>3. \A k \in DOMAIN todo'[p] :
          jobs'[k] # None /\ todo'[p][k] = jobs'[k] /\ due(jobs'[k])
    BY <2>1, <2>2, <1>4
  <2>. QED
    BY <2>1, <2>2, <2>3, <1>1 DEF IInv, Shape, Loaded, Submitting, due,
       toPublish, toConfirm
<1>8. RowsAreEarned'
  BY <1>2, <1>4 DEF IInv, RowsAreEarned, j
<1>9. Named(snapshot[p])' /\ Named(demo)'
  <2>1. \A t \in DOMAIN snapshot'[p].txs : t[1] \in Job
    BY ChainFields DEF Txid
  <2>2. Named(snapshot[p])'
    BY <2>1, <1>4 DEF Named, j
  <2>. QED  BY <2>2 DEF Keeps, Named, onChain
<1>10. MemoryHolds'
  <2>1. RunHolds(p)'
    BY <1>9 DEF RunHolds, Keeps, Named, Settled, onChain, deepEnough
  <2>. QED  BY <2>1, <1>1 DEF IInv, Shape, MemoryHolds
<1>11. Confirming'
  BY <1>1 DEF IInv, Shape, Confirming
<1>12. ConfirmedIsSettled'
  BY <1>4 DEF IInv, ConfirmedIsSettled, confirmed, Settled, onChain, j
<1>13. SupplyShown'
  <2>1. CASE row.state = "confirmed"
    BY <2>1 DEF SupplyShown
  <2>2. CASE row.state # "confirmed"
    <3>1. \A k \in Job : confirmed(k)' <=> confirmed(k)
      BY <2>2, <1>4 DEF confirmed, j
    <3>2. demo.burned \subseteq Job
      BY ChainFields DEF IInv, Shape
    <3>. QED  BY <3>1, <3>2 DEF IInv, SupplyShown
  <2>. QED  BY <2>1, <2>2
<1>. QED
  BY <1>5, <1>6, <1>7, <1>8, <1>9, <1>10, <1>11, <1>12, <1>13 DEF IInv

LEMMA AtHand ==
  ASSUME IInv, NEW p \in Caller, pc[p] \in {"working", "filed", "shown"},
         DOMAIN todo[p] # {}
  PROVE  /\ current(p) \in Job
         /\ todo[p][current(p)] = jobs[current(p)]
         /\ jobs[current(p)] # None /\ jobs[current(p)] \in JobRow
         /\ due(jobs[current(p)])
         /\ snapshot[p] \in Chain /\ DOMAIN snapshot = Caller
         /\ RunHolds(p)
         /\ pc = [pc EXCEPT ![p] = pc[p]]
         /\ \A t \in DOMAIN snapshot[p].txs : snapshot[p].txs[t].inBestChain =>
              jobs[t[1]] # None /\ jobs[t[1]].zcashTx = t
<1>1. current(p) \in DOMAIN todo[p]
  BY CurrentLoaded DEF IInv, Loaded
<1>2. snapshot[p] \in Chain /\ DOMAIN snapshot = Caller
  BY DEF IInv, Shape, Holding, Running
<1>3. RunHolds(p)
  BY DEF IInv, MemoryHolds, Running
<1>4. pc = [pc EXCEPT ![p] = pc[p]]
  BY DEF IInv, Shape
<1>. QED  BY <1>1, <1>2, <1>3, <1>4 DEF IInv, Shape, Loaded, RunHolds, Named

LEMMA CheckBurnIInv ==
  ASSUME IInv, OneCaller, NEW p \in Caller, CheckBurn(p)
  PROVE  IInv'
<1>. DEFINE j == current(p)
            state == checkBurn(snapshot[p], j)
            row == [jobs[j] EXCEPT !.state = state, !.claim = state = "burn_finalized"]
<1>1. pc[p] = "working" /\ DOMAIN todo[p] # {}
  BY DEF CheckBurn, Handling
<1>2. jobs[j].state = "burn_submitted" /\ SaveJob(p, row)
  BY <1>1, AtHand DEF CheckBurn
<1>3. /\ state \in {"manual_review", "rejected", "burn_finalized"}
      /\ state = "burn_finalized" => j \in snapshot[p].burned
  BY DEF checkBurn
<1>. HIDE DEF state
<1>4. /\ row \in JobRow /\ row.zcashTx = jobs[j].zcashTx
      /\ row.state = state /\ (row.claim => state = "burn_finalized")
  BY <1>1, <1>3, AtHand DEF JobRow, JobState
<1>. HIDE DEF row, j
<1>5. UNCHANGED <<demo, stamps, shownSupply, pc, snapshot, target, submitted>>
  BY DEF CheckBurn, environment
<1>. QED
  BY <1>1, <1>2, <1>3, <1>4, <1>5, AtHand, SavedIInv DEF RunHolds, j

LEMMA AwaitConfirmationIInv ==
  ASSUME IInv, OneCaller, NEW p \in Caller, AwaitConfirmation(p)
  PROVE  IInv'
<1>. DEFINE j == current(p)
<1>1. pc[p] = "working" /\ DOMAIN todo[p] # {}
  BY DEF AwaitConfirmation, Handling
<1>2. toConfirm(jobs[j])
  BY <1>1, AtHand DEF AwaitConfirmation
<1>3. UNCHANGED <<demo, stamps, shownSupply, pc, snapshot, target, submitted>>
  BY DEF AwaitConfirmation, environment
<1>4. jobs[j].claim => j \in demo.burned
  BY <1>1, AtHand DEF IInv, RowsAreEarned
<1>5. CASE ~onChain(snapshot[p], jobs[j].zcashTx) /\ SaveJob(p, giveUp(jobs[j]))
  <2>. DEFINE row == giveUp(jobs[j])
  <2>1. row \in JobRow /\ row.state = "publication_pending"
        /\ row.claim = jobs[j].claim
    BY <1>1, AtHand DEF giveUp, JobRow, JobState
  <2>2. \A t \in DOMAIN snapshot[p].txs :
          snapshot[p].txs[t].inBestChain => t[1] # j
    BY <1>1, <1>5, AtHand DEF onChain
  <2>. HIDE DEF row, j
  <2>. QED
    BY <1>1, <1>2, <1>3, <1>4, <1>5, <2>1, <2>2, AtHand, SavedIInv
    DEF RunHolds, toConfirm, j, row
<1>6. CASE SaveJob(p, wait(jobs[j]))
  <2>1. SaveJob(p, jobs[j])
    BY <1>6 DEF wait
  <2>. HIDE DEF j
  <2>. QED
    BY <1>1, <1>2, <1>3, <1>4, <2>1, AtHand, SavedIInv DEF RunHolds, toConfirm, j
<1>. QED
  <2>1. todo[p][j] = jobs[j]
    BY <1>1, AtHand
  <2>. QED  BY <1>5, <1>6, <2>1 DEF AwaitConfirmation

LEMMA ConfirmJobIInv ==
  ASSUME IInv, OneCaller, NEW p \in Caller, ConfirmJob(p)
  PROVE  IInv'
<1>. DEFINE j == current(p)
            row == [jobs[j] EXCEPT !.state = "confirmed"]
<1>1. pc[p] = "shown" /\ DOMAIN todo[p] # {}
  BY DEF ConfirmJob, IInv, Confirming
<1>2. /\ toConfirm(jobs[j]) /\ stamps[j] = jobs[j].zcashTx
      /\ Settled(stamps[j]) /\ shownSupply = demo.balance
  BY <1>1 DEF IInv, Confirming
<1>3. /\ UNCHANGED <<demo, stamps, shownSupply, snapshot, target, submitted>>
      /\ pc' = [pc EXCEPT ![p] = "working"]
  BY DEF ConfirmJob, environment
<1>4. SaveJob(p, row)
  BY <1>1, AtHand DEF ConfirmJob
<1>5. /\ row \in JobRow /\ row.state = "confirmed"
      /\ row.claim = jobs[j].claim /\ row.zcashTx = jobs[j].zcashTx
  BY <1>1, AtHand DEF JobRow, JobState
<1>6. jobs[j].claim /\ j \in demo.burned /\ jobs[j].state # "confirmed"
  BY <1>1, <1>2, AtHand DEF IInv, RowsAreEarned, toConfirm
<1>. HIDE DEF row, j
<1>7. row.claim
  BY <1>5, <1>6, Zenon
<1>8. /\ stamps[j] = row.zcashTx
      /\ \A t \in DOMAIN snapshot[p].txs : snapshot[p].txs[t].inBestChain =>
           IF t[1] = j THEN row.zcashTx = t
           ELSE jobs[t[1]] # None /\ jobs[t[1]].zcashTx = t
  BY <1>1, <1>2, <1>5, AtHand DEF j
<1>9. pc[p] \in {"working", "shown"} /\ snapshot'[p] = snapshot[p]
  BY <1>1, <1>3
<1>10. RunHolds(p) /\ snapshot[p] \in Chain /\ DOMAIN snapshot = Caller
  BY <1>1, AtHand
<1>. QED
  BY <1>1, <1>2, <1>3, <1>4, <1>5, <1>6, <1>7, <1>8, <1>9, <1>10, SavedIInv
  DEF RunHolds, j

LEMMA PublishStampIInv ==
  ASSUME IInv, OneCaller, ReorgsAreShallow, NEW p \in Caller, PublishStamp(p)
  PROVE  IInv'
<1>. DEFINE j == current(p)
            chain == snapshot[p]
            txid == <<j, chain.height + 1>>
<1>1. pc[p] = "working" /\ DOMAIN todo[p] # {}
  BY DEF PublishStamp, Handling
<1>2. /\ j \in Job /\ jobs[j] # None /\ jobs[j] \in JobRow
      /\ todo[p][j] = jobs[j] /\ chain \in Chain /\ DOMAIN snapshot = Caller
      /\ RunHolds(p)
  BY <1>1, AtHand
<1>3. toPublish(jobs[j])
  BY <1>2 DEF PublishStamp
<1>4. UNCHANGED <<demo, stamps, shownSupply, pc, target, submitted>>
  BY DEF PublishStamp, environment
<1>5. jobs[j].claim /\ j \in demo.burned /\ jobs[j].state # "confirmed"
      /\ pc' = [pc EXCEPT ![p] = "working"]
  BY <1>1, <1>2, <1>3, <1>4, AtHand DEF IInv, RowsAreEarned, toPublish
<1>6. \A t \in DOMAIN chain.txs : chain.txs[t].inBestChain =>
        jobs[t[1]] # None /\ jobs[t[1]].zcashTx = t
  BY <1>1, AtHand
<1>7. CASE /\ jobs[j].zcashTx = None /\ chain.funds > 0
           /\ snapshot' = [snapshot EXCEPT ![p] = publish(chain, j)]
           /\ SaveJob(p, pending(jobs[j], txid))
  <2>. DEFINE row == pending(jobs[j], txid)
              after == publish(chain, j)
  <2>1. /\ txid \in Txid /\ after \in Chain
        /\ after.burned = chain.burned /\ after.balance = chain.balance
        /\ DOMAIN after.txs = DOMAIN chain.txs \cup {txid}
        /\ after.txs[txid].confirmations = 0
        /\ \A t \in DOMAIN chain.txs \ {txid} : after.txs[t] = chain.txs[t]
    BY <1>2, <1>7, PublishedChain
  <2>2. /\ row \in JobRow /\ row.state = "zcash_confirmation_pending"
        /\ row.zcashTx = txid
    BY <1>2, <2>1 DEF pending, JobRow, JobState
  <2>3. \A t \in DOMAIN chain.txs : chain.txs[t].inBestChain => t[1] # j
    <3>1. \A t \in DOMAIN chain.txs : t # None
      BY <1>2, ChainFields, NoneAssumption
    <3>. QED  BY <1>6, <1>7, <3>1
  <2>4. snapshot'[p] = after /\ DOMAIN snapshot' = Caller
    BY <1>2, <1>7
  <2>5. txid[1] = j
    OBVIOUS
  <2>. HIDE DEF after, row, txid
  <2>6. Keeps(after)
    <3>1. Keeps(chain)
      BY <1>2 DEF RunHolds
    <3>2. ASSUME NEW t \in DOMAIN demo.txs, demo.txs[t].inBestChain
          PROVE  /\ onChain(after, t)
                 /\ demo.txs[t].confirmations <= after.txs[t].confirmations
      <4>1. /\ t \in DOMAIN chain.txs /\ chain.txs[t].inBestChain
            /\ demo.txs[t].confirmations <= chain.txs[t].confirmations
        BY <3>1, <3>2 DEF Keeps, onChain
      <4>2. t # txid
        BY <4>1, <2>3, <2>5
      <4>. QED  BY <4>1, <4>2, <2>1 DEF onChain
    <3>. QED  BY <3>2 DEF Keeps
  <2>7. \A t \in DOMAIN after.txs : after.txs[t].inBestChain =>
          IF t[1] = j THEN row.zcashTx = t
          ELSE jobs[t[1]] # None /\ jobs[t[1]].zcashTx = t
    BY <1>6, <2>1, <2>2, <2>3, <2>5
  <2>8. \A t \in DOMAIN after.txs :
          onChain(after, t) /\ deepEnough(after, t) => Settled(t)
    <3>1. ASSUME NEW t \in DOMAIN after.txs, onChain(after, t), deepEnough(after, t)
          PROVE  Settled(t)
      <4>1. t # txid
        BY <3>1, <2>1, JobAssumption DEF deepEnough, ReorgsAreShallow
      <4>2. t \in DOMAIN chain.txs /\ onChain(chain, t) /\ deepEnough(chain, t)
        BY <4>1, <3>1, <2>1 DEF onChain, deepEnough
      <4>. QED  BY <4>2, <1>2 DEF RunHolds
    <3>. QED  BY <3>1
  <2>9. after.burned = demo.burned /\ after.balance = demo.balance
    BY <1>2, <2>1 DEF RunHolds
  <2>10. SaveJob(p, row)
    BY <1>7 DEF row
  <2>. HIDE DEF chain
  <2>. QED
    BY <1>1, <1>4, <1>5, <2>1, <2>2, <2>4, <2>6, <2>7, <2>8, <2>9, <2>10, SavedIInv
    DEF j
<1>8. ASSUME NEW row \in JobRow, row.state \in {"zcash_confirmation_pending", "retryable"},
             row.zcashTx = jobs[j].zcashTx, SaveJob(p, row), UNCHANGED snapshot
      PROVE  IInv'
  <2>1. row.state # "burn_submitted" /\ row.state # "confirmed"
    BY <1>8
  <2>2. snapshot'[p] = snapshot[p] /\ snapshot'[p] \in Chain /\ DOMAIN snapshot' = Caller
    BY <1>2, <1>8
  <2>3. \A t \in DOMAIN snapshot[p].txs : snapshot[p].txs[t].inBestChain =>
          IF t[1] = j THEN row.zcashTx = t
          ELSE jobs[t[1]] # None /\ jobs[t[1]].zcashTx = t
    BY <1>6, <1>8
  <2>4. SaveJob(p, row) /\ RunHolds(p)
    BY <1>2, <1>8
  <2>. HIDE DEF chain
  <2>. QED
    BY <1>1, <1>4, <1>5, <2>1, <2>2, <2>3, <2>4, SavedIInv DEF RunHolds, j
<1>9. CASE SaveJob(p, pending(jobs[j], jobs[j].zcashTx)) /\ UNCHANGED snapshot
  <2>1. /\ pending(jobs[j], jobs[j].zcashTx) \in JobRow
        /\ pending(jobs[j], jobs[j].zcashTx).state = "zcash_confirmation_pending"
        /\ pending(jobs[j], jobs[j].zcashTx).zcashTx = jobs[j].zcashTx
    BY <1>2 DEF pending, JobRow, JobState
  <2>. HIDE DEF j
  <2>. QED  BY <1>8, <1>9, <2>1
<1>10. CASE SaveJob(p, retry(jobs[j])) /\ UNCHANGED snapshot
  <2>1. /\ retry(jobs[j]) \in JobRow /\ retry(jobs[j]).state = "retryable"
        /\ retry(jobs[j]).zcashTx = jobs[j].zcashTx
    BY <1>2 DEF retry, JobRow, JobState
  <2>. HIDE DEF j
  <2>. QED  BY <1>8, <1>10, <2>1
<1>. QED
  <2>1. \/ /\ jobs[j].zcashTx = None /\ chain.funds > 0
           /\ snapshot' = [snapshot EXCEPT ![p] = publish(chain, j)]
           /\ SaveJob(p, pending(jobs[j], txid))
        \/ /\ SaveJob(p, IF jobs[j].zcashTx \in DOMAIN chain.txs
                           THEN pending(jobs[j], jobs[j].zcashTx)
                           ELSE retry(jobs[j]))
           /\ UNCHANGED snapshot
    BY <1>2 DEF PublishStamp
  <2>. HIDE DEF j, chain, txid
  <2>. QED  BY <1>7, <1>9, <1>10, <2>1

\* The stamp row of a job that is not confirmed; its publication is settled.
LEMMA FileStampIInv ==
  ASSUME IInv, OneCaller, NEW p \in Caller, FileStamp(p)
  PROVE  IInv'
<1>. DEFINE j == current(p)
<1>1. pc[p] = "working" /\ DOMAIN todo[p] # {} /\ \A q \in Caller : q = p
  BY DEF FileStamp, Handling, OneCaller
<1>2. /\ j \in Job /\ jobs[j] # None /\ jobs[j] \in JobRow
      /\ todo[p][j] = jobs[j] /\ RunHolds(p)
  BY <1>1, AtHand
<1>3. /\ toConfirm(jobs[j])
      /\ onChain(snapshot[p], jobs[j].zcashTx)
      /\ deepEnough(snapshot[p], jobs[j].zcashTx)
      /\ stamps' = [stamps EXCEPT ![j] = jobs[j].zcashTx]
      /\ pc' = [pc EXCEPT ![p] = "filed"]
      /\ UNCHANGED <<demo, jobs, shownSupply, snapshot, todo, target, submitted>>
  BY <1>2 DEF FileStamp, environment
<1>4. Settled(jobs[j].zcashTx)
  BY <1>2, <1>3 DEF RunHolds, onChain
<1>5. /\ stamps'[j] = jobs[j].zcashTx
      /\ \A k \in Job : k # j => stamps'[k] = stamps[k]
      /\ jobs[j].zcashTx \in Txid \cup {None}
  BY <1>2, <1>3 DEF IInv, Shape, JobRow
<1>6. current(p)' = j
  BY <1>3 DEF current
<1>. HIDE DEF j
<1>7. Shape'
  BY <1>1, <1>3, <1>5 DEF IInv, Shape, Submitting, Holding, Running
<1>8. Filing' /\ Loaded'
  BY <1>1, <1>3 DEF IInv, Shape, Filing, Loaded, Submitting, due, toPublish,
     toConfirm
<1>9. MemoryHolds'
  BY <1>1, <1>3 DEF IInv, Shape, MemoryHolds, RunHolds, Keeps, Named, Settled,
     onChain, deepEnough, Running
<1>10. Confirming'
  <2>1. pc'[p] = "filed"
    BY <1>3 DEF IInv, Shape
  <2>2. /\ onChain(demo', stamps'[j])
        /\ ReorgDepth <= demo'.txs[stamps'[j]].confirmations
    BY <1>3, <1>4, <1>5 DEF Settled
  <2>3. toConfirm(jobs'[j]) /\ DOMAIN todo'[p] # {} /\ jobs'[j].zcashTx = jobs[j].zcashTx
    BY <1>1, <1>3
  <2>. QED  BY <1>1, <1>5, <1>6, <2>1, <2>2, <2>3 DEF Confirming, Settled
<1>11. ConfirmedIsSettled'
  BY <1>3, <1>5 DEF IInv, ConfirmedIsSettled, confirmed, Settled, onChain, toConfirm
<1>. QED
  BY <1>3, <1>7, <1>8, <1>9, <1>10, <1>11 DEF IInv, RowsAreEarned, Named,
     SupplyShown, confirmed

LEMMA ShowSupplyIInv ==
  ASSUME IInv, OneCaller, NEW p \in Caller, ShowSupply(p)
  PROVE  IInv'
<1>1. pc[p] = "filed" /\ \A q \in Caller : q = p
  BY DEF ShowSupply, OneCaller
<1>2. snapshot[p] \in Chain /\ RunHolds(p)
  BY <1>1 DEF IInv, Shape, MemoryHolds, Holding, Running
<1>3. shownSupply' = demo.balance /\ shownSupply' \in 0 .. InitialSupply
  BY <1>2, ChainFields DEF ShowSupply, supplyOf, RunHolds
<1>4. /\ pc' = [pc EXCEPT ![p] = "shown"]
      /\ UNCHANGED <<demo, jobs, stamps, snapshot, todo, target, submitted>>
  BY DEF ShowSupply, environment
<1>5. Shape'
  BY <1>1, <1>3, <1>4 DEF IInv, Shape, Submitting, Holding, Running
<1>6. Filing' /\ Loaded'
  BY <1>1, <1>4 DEF IInv, Shape, Filing, Loaded, Submitting, due, toPublish,
     toConfirm
<1>7. MemoryHolds'
  BY <1>1, <1>4 DEF IInv, Shape, MemoryHolds, RunHolds, Keeps, Named, Settled,
     onChain, deepEnough, Running
<1>8. Confirming'
  <2>1. current(p)' = current(p)
    BY <1>4 DEF current
  <2>. QED
    BY <1>1, <1>3, <1>4, <2>1 DEF IInv, Shape, Confirming, Settled, onChain, toConfirm
<1>9. SupplyShown'
  BY <1>3, <1>4 DEF SupplyShown
<1>. QED
  BY <1>4, <1>5, <1>6, <1>7, <1>8, <1>9 DEF IInv, RowsAreEarned, Named,
     ConfirmedIsSettled, Settled, onChain, confirmed

\* What was settled stays so in a snapshot that keeps the stored publications.
LEMMA KeepsSettled ==
  ASSUME demo \in Chain, NEW chain \in Chain, Keeps(chain), NEW t, Settled(t)
  PROVE  onChain(chain, t) /\ ReorgDepth <= chain.txs[t].confirmations
<1>1. /\ t \in DOMAIN demo.txs /\ demo.txs[t].inBestChain
      /\ ReorgDepth <= demo.txs[t].confirmations
  BY DEF Settled, onChain
<1>2. /\ onChain(chain, t)
      /\ demo.txs[t].confirmations <= chain.txs[t].confirmations
  BY <1>1 DEF Keeps
<1>3. /\ demo.txs[t].confirmations \in 0 .. MinConfirms
      /\ chain.txs[t].confirmations \in 0 .. MinConfirms
  BY <1>1, <1>2, ChainFields DEF onChain
<1>. QED  BY <1>1, <1>2, <1>3, JobAssumption

LEMMA SaveDemoIInv ==
  ASSUME IInv, OneCaller, NEW p \in Caller, SaveDemo(p)
  PROVE  IInv'
<1>1. pc[p] = "working" /\ \A q \in Caller : q = p
  BY DEF SaveDemo, OneCaller
<1>2. snapshot[p] \in Chain /\ demo \in Chain /\ RunHolds(p)
  BY <1>1 DEF IInv, Shape, MemoryHolds, Holding, Running
<1>3. /\ demo' = snapshot[p]
      /\ snapshot' = [snapshot EXCEPT ![p] = None]
      /\ todo' = [todo EXCEPT ![p] = << >>]
      /\ pc' = [pc EXCEPT ![p] = "idle"]
      /\ UNCHANGED <<jobs, stamps, shownSupply, target, submitted>>
  BY DEF SaveDemo, environment
<1>4. demo'.burned = demo.burned /\ demo'.balance = demo.balance
      /\ Keeps(snapshot[p]) /\ Named(snapshot[p])
  BY <1>2, <1>3 DEF RunHolds
<1>5. Shape'
  BY <1>1, <1>2, <1>3 DEF IInv, Shape, Submitting, Holding, Running
<1>6. Filing' /\ Loaded'
  BY <1>1, <1>3, <1>4 DEF IInv, Shape, Filing, Loaded, Submitting
<1>7. RowsAreEarned' /\ Named(demo)'
  BY <1>3, <1>4 DEF IInv, RowsAreEarned, Named
<1>8. MemoryHolds' /\ Confirming'
  BY <1>1, <1>3 DEF IInv, Shape, MemoryHolds, Confirming, Running
<1>9. ConfirmedIsSettled'
  <2>1. ASSUME NEW j \in Job, confirmed(j)
        PROVE  /\ jobs[j].claim /\ stamps[j] = jobs[j].zcashTx
               /\ onChain(snapshot[p], stamps[j])
               /\ ReorgDepth <= snapshot[p].txs[stamps[j]].confirmations
    <3>1. jobs[j].claim /\ stamps[j] = jobs[j].zcashTx /\ Settled(stamps[j])
      BY <2>1 DEF IInv, ConfirmedIsSettled
    <3>. QED  BY <3>1, <1>2, <1>4, KeepsSettled
  <2>. QED  BY <2>1, <1>3 DEF ConfirmedIsSettled, confirmed, Settled
<1>10. SupplyShown'
  BY <1>3, <1>4 DEF IInv, SupplyShown, confirmed
<1>. QED
  BY <1>5, <1>6, <1>7, <1>8, <1>9, <1>10 DEF IInv

LEMMA CrashIInv ==
  ASSUME IInv, OneCaller, NEW p \in Caller, Crash(p)
  PROVE  IInv'
<1>1. \A q \in Caller : q = p
  BY DEF OneCaller
<1>2. /\ pc' = [pc EXCEPT ![p] = "idle"]
      /\ snapshot' = [snapshot EXCEPT ![p] = None]
      /\ todo' = [todo EXCEPT ![p] = << >>]
      /\ target' = [target EXCEPT ![p] = None]
      /\ UNCHANGED <<demo, jobs, stamps, shownSupply, submitted>>
  BY DEF Crash
<1>3. Shape'
  BY <1>1, <1>2 DEF IInv, Shape, Submitting, Holding, Running
<1>4. Filing' /\ Loaded'
  BY <1>1, <1>2 DEF IInv, Shape, Filing, Loaded, Submitting
<1>5. MemoryHolds' /\ Confirming'
  BY <1>1, <1>2 DEF IInv, Shape, MemoryHolds, Confirming, Running
<1>. QED
  BY <1>2, <1>3, <1>4, <1>5 DEF IInv, RowsAreEarned, Named, ConfirmedIsSettled,
     SupplyShown, Settled, onChain, confirmed

\* A reorg comes between runs and does not reach what is settled.
LEMMA ReorgIInv ==
  ASSUME IInv, NEW txid \in DOMAIN demo.txs, Reorg(txid)
  PROVE  IInv'
<1>. DEFINE gone == [inBestChain |-> FALSE, confirmations |-> 0]
<1>1. /\ \A p \in Caller : pc[p] = "idle"
      /\ demo.txs[txid].confirmations < ReorgDepth
      /\ demo' = [demo EXCEPT !.txs[txid] = gone]
      /\ UNCHANGED <<jobs, stamps, shownSupply, pc, snapshot, todo, target, submitted>>
  BY DEF Reorg, memory
<1>2. demo \in Chain
  BY DEF IInv, Shape
<1>3. [demo.txs EXCEPT ![txid] = gone] \in Publications
  <2>1. PICK T \in SUBSET Txid :
          demo.txs \in [T -> [inBestChain : BOOLEAN, confirmations : 0 .. MinConfirms]]
    BY <1>2, ChainFields DEF Publications
  <2>2. [demo.txs EXCEPT ![txid] = gone]
          \in [T -> [inBestChain : BOOLEAN, confirmations : 0 .. MinConfirms]]
    BY <2>1, JobAssumption
  <2>. QED  BY <2>2 DEF Publications
<1>4. /\ demo' \in Chain
      /\ demo'.burned = demo.burned /\ demo'.balance = demo.balance
      /\ DOMAIN demo'.txs = DOMAIN demo.txs
      /\ demo'.txs[txid].inBestChain = FALSE
      /\ \A t \in DOMAIN demo.txs : t # txid => demo'.txs[t] = demo.txs[t]
  <2>1. demo' = [demo EXCEPT !.txs = [demo.txs EXCEPT ![txid] = gone]]
    BY <1>1, <1>2 DEF Chain
  <2>. HIDE DEF gone
  <2>2. demo' \in Chain /\ demo'.txs = [demo.txs EXCEPT ![txid] = gone]
        /\ demo'.burned = demo.burned /\ demo'.balance = demo.balance
    BY <1>2, <1>3, <2>1 DEF Chain
  <2>. QED  BY <2>2 DEF gone
<1>5. Shape'
  BY <1>1, <1>4 DEF IInv, Shape
<1>6. Filing' /\ Loaded' /\ RowsAreEarned'
  BY <1>1, <1>4 DEF IInv, Filing, Loaded, RowsAreEarned, Submitting
<1>7. Named(demo)'
  BY <1>1, <1>4 DEF IInv, Named
<1>8. MemoryHolds' /\ Confirming'
  BY <1>1 DEF MemoryHolds, Confirming, Running
<1>9. ConfirmedIsSettled'
  <2>1. ASSUME NEW j \in Job, confirmed(j)
        PROVE  /\ jobs[j].claim /\ stamps[j] = jobs[j].zcashTx
               /\ onChain(demo', stamps[j])
               /\ ReorgDepth <= demo'.txs[stamps[j]].confirmations
    <3>1. jobs[j].claim /\ stamps[j] = jobs[j].zcashTx /\ Settled(stamps[j])
      BY <2>1 DEF IInv, ConfirmedIsSettled
    <3>2. stamps[j] # txid
      BY <3>1, <1>1, <1>2, ChainFields, JobAssumption DEF Settled
    <3>. QED  BY <3>1, <3>2, <1>4 DEF Settled, onChain
  <2>. QED  BY <2>1, <1>1 DEF ConfirmedIsSettled, confirmed, Settled
<1>10. SupplyShown'
  BY <1>1, <1>4 DEF IInv, SupplyShown, confirmed
<1>. QED
  BY <1>5, <1>6, <1>7, <1>8, <1>9, <1>10 DEF IInv

LEMMA NextIInv ==
  ASSUME IInv, OneCaller, ReorgsAreShallow, [Next]_vars
  PROVE  IInv'
<1>1. ASSUME NEW p \in Caller, Run(p) PROVE IInv'
  BY <1>1, LoadDemoIInv, ListJobsIInv, CheckBurnIInv, PublishStampIInv,
     AwaitConfirmationIInv, FileStampIInv, ShowSupplyIInv, ConfirmJobIInv,
     SaveDemoIInv DEF Run
<1>2. ASSUME NEW p \in Caller, Submit(p) PROVE IInv'
  BY <1>2, BurnIInv, LoadZcashIInv, SaveBurnIInv, RecordJobIInv DEF Submit
<1>3. ASSUME NEW p \in Caller, Crash(p) PROVE IInv'
  BY <1>3, CrashIInv
<1>4. ASSUME NEW txid \in DOMAIN demo.txs, Reorg(txid) PROVE IInv'
  BY <1>4, ReorgIInv
<1>5. CASE UNCHANGED vars
  BY <1>5 DEF vars, IInv, Shape, Filing, Loaded, RowsAreEarned, Named,
     MemoryHolds, Confirming, ConfirmedIsSettled, SupplyShown, RunHolds,
     SubmissionHolds, Keeps, Settled, onChain, deepEnough, confirmed, current,
     toConfirm, toPublish, due
<1>. QED  BY <1>1, <1>2, <1>3, <1>4, <1>5 DEF Next

-----------------------------------------------------------------------------

\* What the job page and the launch page show as done is what both chains say,
\* for any number of submissions, crashes between two stores and reorgs between
\* runs (processor.ts:27-194, 196-261).
THEOREM ShownIsOnChain ==
  ASSUME OneCaller, ReorgsAreShallow
  PROVE  Spec => []ShownStandsOnChain
<1>1. Init => IInv
  BY InitIInv
<1>2. IInv /\ [Next]_vars => IInv'
  BY NextIInv
<1>3. IInv => ShownStandsOnChain
  BY Consequences
<1>. QED  BY <1>1, <1>2, <1>3, PTL DEF Spec

\* No burn has two publications in the best chain: a run that crashed after it
\* published, or whose transaction left the chain, publishes again only what is
\* not there (processor.ts:107-150, broadcastToDemoMempool).
THEOREM OneStampPerBurn ==
  ASSUME OneCaller, ReorgsAreShallow
  PROVE  Spec => []OnePublication
<1>1. Init => IInv
  BY InitIInv
<1>2. IInv /\ [Next]_vars => IInv'
  BY NextIInv
<1>3. IInv => OnePublication
  BY Consequences
<1>. QED  BY <1>1, <1>2, <1>3, PTL DEF Spec

\* A step that stores a row keeps what is over and the claim of its job.
LEMMA SaveIsFinal ==
  ASSUME IInv, NEW p \in Caller, NEW row, pc[p] \in {"working", "filed", "shown"},
         DOMAIN todo[p] # {}, SaveJob(p, row),
         jobs[current(p)].claim => row.claim,
         jobs[current(p)].state \notin {"confirmed", "rejected", "manual_review"}
  PROVE  \A j \in Job : jobs[j] # None =>
           /\ jobs[j].state \in {"confirmed", "rejected", "manual_review"} =>
                jobs'[j] = jobs[j]
           /\ jobs[j].claim => jobs'[j].claim
<1>1. current(p) \in Job
  BY AtHand
<1>2. /\ jobs'[current(p)] = row
      /\ \A j \in Job : j # current(p) => jobs'[j] = jobs[j]
  BY <1>1 DEF SaveJob, IInv, Shape
<1>. QED  BY <1>1, <1>2

\* A job that is over stays as it is, and a claim package is kept
\* (processor.ts:39-50, 283-285).
THEOREM OutcomesAreFinal ==
  ASSUME OneCaller, ReorgsAreShallow
  PROVE  Spec => OutcomeIsFinal
<1>. DEFINE Final ==
       \A j \in Job : jobs[j] # None =>
         /\ jobs[j].state \in {"confirmed", "rejected", "manual_review"} =>
              jobs'[j] = jobs[j]
         /\ jobs[j].claim => jobs'[j].claim
<1>1. ASSUME IInv, [Next]_vars PROVE [Final]_vars
  <2>1. ASSUME UNCHANGED jobs PROVE Final
    BY <2>1
  <2>2. ASSUME NEW p \in Caller, CheckBurn(p) PROVE Final
    <3>1. pc[p] = "working" /\ DOMAIN todo[p] # {}
      BY <2>2 DEF CheckBurn, Handling
    <3>2. jobs[current(p)].state = "burn_submitted" /\ ~ jobs[current(p)].claim
      BY <2>2, <3>1, <1>1, AtHand DEF CheckBurn, IInv, RowsAreEarned
    <3>. QED  BY <2>2, <3>1, <3>2, <1>1, SaveIsFinal DEF CheckBurn
  <2>3. ASSUME NEW p \in Caller, PublishStamp(p) PROVE Final
    <3>1. pc[p] = "working" /\ DOMAIN todo[p] # {}
      BY <2>3 DEF PublishStamp, Handling
    <3>2. toPublish(jobs[current(p)]) /\ jobs[current(p)] \in JobRow
      BY <2>3, <3>1, <1>1, AtHand DEF PublishStamp
    <3>3. PICK row : SaveJob(p, row) /\ row.claim = jobs[current(p)].claim
      <4>1. \A x : /\ pending(jobs[current(p)], x).claim = jobs[current(p)].claim
                   /\ retry(jobs[current(p)]).claim = jobs[current(p)].claim
        BY <3>2 DEF pending, retry, JobRow
      <4>2. todo[p][current(p)] = jobs[current(p)]
        BY <3>1, <1>1, AtHand
      <4>. DEFINE job == jobs[current(p)]
      <4>3. \/ SaveJob(p, pending(job, <<current(p), snapshot[p].height + 1>>))
            \/ SaveJob(p, pending(job, job.zcashTx))
            \/ SaveJob(p, retry(job))
        BY <2>3, <4>2 DEF PublishStamp
      <4>4. CASE SaveJob(p, pending(job, <<current(p), snapshot[p].height + 1>>))
        <5>. WITNESS pending(job, <<current(p), snapshot[p].height + 1>>)
        <5>. QED  BY <4>1, <4>4
      <4>5. CASE SaveJob(p, pending(job, job.zcashTx))
        <5>. WITNESS pending(job, job.zcashTx)
        <5>. QED  BY <4>1, <4>5
      <4>6. CASE SaveJob(p, retry(job))
        <5>. WITNESS retry(job)
        <5>. QED  BY <4>1, <4>6
      <4>. QED  BY <4>3, <4>4, <4>5, <4>6
    <3>4. row.claim /\ jobs[current(p)].claim
      BY <3>2, <3>3, Zenon DEF toPublish
    <3>5. jobs[current(p)].state \notin {"confirmed", "rejected", "manual_review"}
      BY <3>2 DEF toPublish
    <3>6. pc[p] \in {"working", "filed", "shown"} /\ DOMAIN todo[p] # {}
      BY <3>1
    <3>7. SaveJob(p, row)
      BY <3>3
    <3>. QED  BY <1>1, <3>4, <3>5, <3>6, <3>7, SaveIsFinal
  <2>4. ASSUME NEW p \in Caller, AwaitConfirmation(p) PROVE Final
    <3>1. pc[p] = "working" /\ DOMAIN todo[p] # {}
      BY <2>4 DEF AwaitConfirmation, Handling
    <3>2. toConfirm(jobs[current(p)]) /\ jobs[current(p)] \in JobRow
      BY <2>4, <3>1, <1>1, AtHand DEF AwaitConfirmation
    <3>3. PICK row : SaveJob(p, row) /\ row.claim = jobs[current(p)].claim
      <4>1. /\ giveUp(jobs[current(p)]).claim = jobs[current(p)].claim
            /\ wait(jobs[current(p)]).claim = jobs[current(p)].claim
        BY <3>2 DEF giveUp, wait, JobRow
      <4>2. todo[p][current(p)] = jobs[current(p)]
        BY <3>1, <1>1, AtHand
      <4>3. CASE SaveJob(p, giveUp(jobs[current(p)]))
        <5>. WITNESS giveUp(jobs[current(p)])
        <5>. QED  BY <4>1, <4>3
      <4>4. CASE SaveJob(p, wait(jobs[current(p)]))
        <5>. WITNESS wait(jobs[current(p)])
        <5>. QED  BY <4>1, <4>4
      <4>. QED  BY <2>4, <4>2, <4>3, <4>4 DEF AwaitConfirmation
    <3>4. row.claim /\ jobs[current(p)].claim
      BY <3>2, <3>3, Zenon DEF toConfirm
    <3>5. jobs[current(p)].state \notin {"confirmed", "rejected", "manual_review"}
      BY <3>2 DEF toConfirm
    <3>6. pc[p] \in {"working", "filed", "shown"} /\ DOMAIN todo[p] # {}
      BY <3>1
    <3>7. SaveJob(p, row)
      BY <3>3
    <3>. QED  BY <1>1, <3>4, <3>5, <3>6, <3>7, SaveIsFinal
  <2>5. ASSUME NEW p \in Caller, ConfirmJob(p) PROVE Final
    <3>1. pc[p] = "shown" /\ DOMAIN todo[p] # {} /\ toConfirm(jobs[current(p)])
      BY <2>5, <1>1 DEF ConfirmJob, IInv, Confirming
    <3>2. PICK row : SaveJob(p, row) /\ row.claim = jobs[current(p)].claim
      <4>1. /\ todo[p][current(p)] = jobs[current(p)]
            /\ jobs[current(p)] \in JobRow
        BY <3>1, <1>1, AtHand
      <4>2. [jobs[current(p)] EXCEPT !.state = "confirmed"].claim
              = jobs[current(p)].claim
        BY <4>1 DEF JobRow
      <4>3. SaveJob(p, [jobs[current(p)] EXCEPT !.state = "confirmed"])
        BY <2>5, <4>1 DEF ConfirmJob
      <4>. WITNESS [jobs[current(p)] EXCEPT !.state = "confirmed"]
      <4>. QED  BY <4>2, <4>3
    <3>3. row.claim /\ jobs[current(p)].claim
      BY <3>1, <3>2, Zenon DEF toConfirm
    <3>4. jobs[current(p)].state \notin {"confirmed", "rejected", "manual_review"}
      BY <3>1 DEF toConfirm
    <3>5. pc[p] \in {"working", "filed", "shown"} /\ DOMAIN todo[p] # {}
      BY <3>1
    <3>6. SaveJob(p, row)
      BY <3>2
    <3>. QED  BY <1>1, <3>3, <3>4, <3>5, <3>6, SaveIsFinal
  <2>6. ASSUME NEW p \in Caller, RecordJob(p) PROVE Final
    <3>1. target[p] \in Job /\ jobs[target[p]] = None
      BY <2>6, <1>1 DEF RecordJob, IInv, Filing, Submitting
    <3>. QED  BY <2>6, <3>1, <1>1 DEF RecordJob, IInv, Shape
  <2>7. ASSUME NEW p \in Caller, Run(p) PROVE Final
    <3>1. CASE \/ CheckBurn(p) \/ PublishStamp(p) \/ AwaitConfirmation(p)
               \/ ConfirmJob(p)
      BY <3>1, <2>2, <2>3, <2>4, <2>5
    <3>2. CASE \/ LoadDemo(p) \/ ListJobs(p) \/ FileStamp(p) \/ ShowSupply(p)
               \/ SaveDemo(p)
      BY <3>2, <2>1 DEF LoadDemo, ListJobs, FileStamp, ShowSupply, SaveDemo
    <3>. QED  BY <3>1, <3>2, <2>7 DEF Run
  <2>8. ASSUME NEW p \in Caller, Submit(p) \/ Crash(p) PROVE Final
    <3>1. CASE RecordJob(p)
      BY <3>1, <2>6
    <3>2. CASE (\E fail \in BOOLEAN : Burn(p, fail)) \/ LoadZcash(p) \/ SaveBurn(p)
               \/ Crash(p)
      BY <3>2, <2>1 DEF Burn, LoadZcash, SaveBurn, Crash
    <3>. QED  BY <3>1, <3>2, <2>8 DEF Submit
  <2>9. ASSUME NEW txid \in DOMAIN demo.txs, Reorg(txid) PROVE Final
    BY <2>9, <2>1 DEF Reorg
  <2>10. CASE UNCHANGED vars
    BY <2>10
  <2>. HIDE DEF Final
  <2>. QED  BY <1>1, <2>7, <2>8, <2>9, <2>10 DEF Next
<1>2. Init => IInv
  BY InitIInv
<1>3. IInv /\ [Next]_vars => IInv'
  BY NextIInv
<1>4. IInv /\ [Next]_vars =>
        [\A j \in Job : jobs[j] # None =>
           /\ jobs[j].state \in {"confirmed", "rejected", "manual_review"} =>
                jobs'[j] = jobs[j]
           /\ jobs[j].claim => jobs'[j].claim]_vars
  BY <1>1
<1>. QED  BY <1>2, <1>3, <1>4, PTL DEF Spec, OutcomeIsFinal
=============================================================================
