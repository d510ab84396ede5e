--------------------------- MODULE LiveJobs_proofs --------------------------
(***************************************************************************)
(* Proofs about LiveJobs, for any number of calls in flight, jobs and      *)
(* publications, with or without unique indexes.  Every call works on a    *)
(* copy of a row and writes all of it back, so the invariant speaks of     *)
(* every version of a row, stored or held: what a submission asks for is   *)
(* the same in all of them, and what one of them claims about the chains   *)
(* holds whichever is written last.                                        *)
(***************************************************************************)
EXTENDS LiveJobs, WellFoundedInduction, TLAPS

ReorgsAreShallow == MinConfirms > 1

\* What a submission asks for, and every version of its job's row keeps.
Same(r, q) ==
  /\ r.owner = q.owner /\ r.sourceTx = q.sourceTx /\ r.mint = q.mint
  /\ r.amount = q.amount /\ r.destination = q.destination

\* The issuance of a row as it is when its burn is checked.
intent(r) ==
  [mint |-> r.mint, sourceTx |-> r.sourceTx, amount |-> r.amount,
   destination |-> r.destination, burnAuthority |-> r.owner]

Checked == Due \cup {"zcash_confirmation_pending", "confirmed"}
Publishing == {"coins", "commit", "reveal", "publish_done", "publish_failed", "unfunded"}
Confirming == {"look", "wait", "stamp", "confirm"}
Working == {"check"} \cup Publishing \cup Confirming

Calls ==
  /\ pc \in [Caller -> At]
  /\ DOMAIN todo = Caller /\ DOMAIN row = Caller /\ DOMAIN got = Caller

Shape ==
  /\ landed \subseteq DOMAIN Burn
  /\ jobs \in Seq(JobRow) /\ stamps \in Seq(StampRow \cup {Absent})
  /\ Len(stamps) = Len(jobs)
  /\ pairs \in Seq(Pair)
  /\ Calls
  /\ requests \in 0 .. MaxRequests /\ faults \in 0 .. MaxFaults

\* A version of a job's row, stored or in a caller's memory, however old.
Named(r) == r.zcashTx \in DOMAIN pairs /\ pairs[r.zcashTx].payload = intent(r)
GoodRow(r) ==
  /\ r \in JobRow /\ r.id \in JobId /\ Same(r, jobs[r.id])
  /\ r.state = "burn_submitted" => r.burnAuthority = r.owner
  /\ r.state \in Checked => r.commitment = intent(r) /\ burnsOf(intent(r)) # {}
  /\ r.state \in {"zcash_confirmation_pending", "confirmed"} => Named(r)
  /\ r.state # "confirmed" => r.confirmations < MinConfirms

JobsGood ==
  \A id \in JobId :
    /\ jobs[id].id = id /\ GoodRow(jobs[id])
    /\ jobs[id].state = "rejected" =>
         matching(jobs[id]) # {} /\ burnsOf(issuanceFrom(jobs[id])) = {}

\* No reorganisation reaches the reveal of pair i.
Settled(i) ==
  i \in DOMAIN pairs /\ (ReorgsAreShallow => pairs[i].reveal = MinConfirms)
PairsGood ==
  \A i \in DOMAIN pairs :
    pairs[i].reveal <= pairs[i].commit /\ burnsOf(pairs[i].payload) # {}

StampsGood ==
  \A id \in JobId : stamps[id] # Absent =>
    /\ Settled(stamps[id].zcashTx)
    /\ pairs[stamps[id].zcashTx].payload = stamps[id].id
    /\ stamps[id].id = intent(jobs[id])

ConfirmedGood ==
  \A id \in JobId : jobs[id].state = "confirmed" =>
    stamps[id] # Absent /\ Settled(jobs[id].zcashTx)

\* What a call in flight relies on, whatever the others do meanwhile.
RowGood(c) ==
  /\ pc[c] = "insert" => row[c] \in Submission
  /\ pc[c] \in Working => GoodRow(row[c])
  /\ pc[c] = "check" => row[c].state = "burn_submitted"
  /\ pc[c] \in Publishing => row[c].state \in Due
  /\ pc[c] \in Confirming => row[c].state = "zcash_confirmation_pending"
  /\ \A r \in todo[c] : GoodRow(r) /\ unfinished(r)

GotGood(c) ==
  /\ pc[c] = "commit" =>
       got[c] \in 1 .. Len(Coins) + Len(pairs) /\ coinValue(got[c]) > 0
  /\ pc[c] = "reveal" =>
       /\ got[c] \in DOMAIN pairs /\ pairs[got[c]].payload = intent(row[c])
       /\ pairs[got[c]].reveal = Unsent \/ pairs[got[c]].commit = Dropped
  /\ pc[c] = "publish_done" =>
       got[c] \in DOMAIN pairs /\ pairs[got[c]].payload = intent(row[c])
  /\ pc[c] = "wait" => got[c] \in 0 .. MinConfirms - 1
  /\ pc[c] \in {"stamp", "confirm"} => got[c] \in Nat /\ Settled(row[c].zcashTx)
  /\ pc[c] = "confirm" => stamps[row[c].id] # Absent

\* A pair whose reveal is still to be sent is held by one call.
Exclusive ==
  \A c, d \in Caller :
    pc[c] = "reveal" /\ pc[d] = "reveal" /\ got[c] = got[d] => c = d

IInv ==
  /\ Shape /\ JobsGood /\ PairsGood /\ StampsGood /\ ConfirmedGood /\ Exclusive
  /\ \A c \in Caller : RowGood(c) /\ GotGood(c)

----------------------------------------------------------------------------
(* What burns, lists of rows and growing stores promise *)

\* A bounded set of naturals that is not empty has a greatest member.
LEMMA Greatest ==
  ASSUME NEW S \in SUBSET Nat, NEW n \in Nat, S # {}, \A k \in S : k <= n
  PROVE  \E k \in S : \A j \in S : j <= k
<1> DEFINE T == {n - k : k \in S}
<1>1. T \in SUBSET Nat /\ T # {}
  <2>1. \A k \in S : n - k \in Nat
    OBVIOUS
  <2> QED  BY <2>1
<1>2. PICK m \in T : \A j \in T : ~ (<<j, m>> \in OpToRel(<, Nat))
  <2> HIDE DEF T
  <2> QED  BY <1>1, NatLessThanWellFounded, WFMin
<1>3. \A j \in T : ~ (j < m)
  BY <1>1, <1>2 DEF OpToRel
<1>4. PICK k \in S : m = n - k
  BY <1>2
<1>5. \A j \in S : j <= k
  <2> TAKE j \in S
  <2>1. n - j \in T
    OBVIOUS
  <2>2. ~ (n - j < n - k)
    BY <1>3, <1>4, <2>1
  <2> QED  BY <2>2
<1> QED  BY <1>5

\* The row taken next is one of those left.
LEMMA NewestIsLeft ==
  ASSUME NEW rows, rows # {}, NEW n \in Nat, \A r \in rows : r.id \in 1 .. n
  PROVE  newest(rows) \in rows
<1> DEFINE S == {r.id : r \in rows}
<1>1. S \in SUBSET Nat /\ S # {} /\ \A k \in S : k <= n
  OBVIOUS
<1>2. PICK k \in S : \A j \in S : j <= k
  <2> HIDE DEF S
  <2> QED  BY <1>1, Greatest
<1>3. PICK r \in rows : r.id = k
  OBVIOUS
<1>4. \A q \in rows : q.id <= r.id
  BY <1>2, <1>3
<1> QED  BY <1>3, <1>4 DEF newest

\* A burn that is fetched is final, is of a transaction as a whole, and is the
\* only one of its mint.
LEMMA Fetched ==
  ASSUME NEW sig \in DOMAIN Burn, NEW b \in fetchBurns(sig)
  PROVE  /\ sig \in landed /\ b \in decodeBurns(Burn[sig], TRUE)
         /\ b.finalized
         /\ \A d \in fetchBurns(sig) : d.mint = b.mint => d = b
<1>1. sig \in landed /\ b \in decodeBurns(Burn[sig], TRUE)
  BY DEF fetchBurns, decoded
<1>2. fetchBurns(sig) = decodeBurns(Burn[sig], TRUE)
  BY <1>1 DEF fetchBurns, decoded
<1> DEFINE tx == Burn[sig]
           of(m) ==
             [mint |-> m, amount |-> burnedAmount(tx, m),
              authority |-> authorityOf(burnsOfMint(tx, m)[1]),
              memos |-> memosIn(tx), err |-> tx.err, finalized |-> TRUE]
<1>3. decodeBurns(tx, TRUE) = {of(m) : m \in burnedMints(tx)}
  BY Zenon DEF decodeBurns
<1>4. \A m : of(m).mint = m /\ of(m).finalized = TRUE
  OBVIOUS
<1> HIDE DEF of
<1>5. \A d \in decodeBurns(tx, TRUE) : d = of(d.mint)
  BY <1>3, <1>4
<1>6. b = of(b.mint) /\ \A d \in fetchBurns(sig) : d = of(d.mint)
  BY <1>1, <1>2, <1>5
<1>7. b.finalized = TRUE
  BY <1>4, <1>6
<1> QED  BY <1>1, <1>6, <1>7, Zenon

\* Burns that are final stay as they are.
LEMMA BurnsStay ==
  ASSUME landed \subseteq landed', NEW x
  PROVE  /\ burnsOf(x) # {} => burnsOf(x)' = burnsOf(x)
         /\ matching(x) # {} => /\ matching(x)' = matching(x)
                                /\ burnsOf(issuanceFrom(x))' = burnsOf(issuanceFrom(x))
<1>1. x.sourceTx \in landed => fetchBurns(x.sourceTx)' = fetchBurns(x.sourceTx)
  BY DEF fetchBurns
<1>2. burnsOf(x) # {} => x.sourceTx \in landed
  BY DEF burnsOf, fetchBurns
<1>3. matching(x) # {} => x.sourceTx \in landed
  BY DEF matching, fetchBurns
<1>4. issuanceFrom(x).sourceTx = x.sourceTx
  BY DEF issuanceFrom
<1>5. ASSUME x.sourceTx \in landed
      PROVE  /\ burnsOf(x)' = burnsOf(x) /\ matching(x)' = matching(x)
             /\ burnsOf(issuanceFrom(x))' = burnsOf(issuanceFrom(x))
  <2>1. fetchBurns(x.sourceTx)' = fetchBurns(x.sourceTx)
    BY <1>1, <1>5
  <2>2. burnsOf(x)' = burnsOf(x)
    BY <2>1, Zenon DEF burnsOf
  <2>3. matching(x)' = matching(x)
    BY <2>1, Zenon DEF matching
  <2>4. fetchBurns(issuanceFrom(x).sourceTx)' = fetchBurns(issuanceFrom(x).sourceTx)
    BY <2>1, <1>4
  <2> QED  BY <2>2, <2>3, <2>4, Zenon DEF burnsOf
<1> QED  BY <1>2, <1>3, <1>5

\* What every step leaves true of the chains and of rows already there.
Grows ==
  /\ landed \subseteq landed'
  /\ JobId \subseteq JobId' /\ \A id \in JobId : Same(jobs'[id], jobs[id])
  /\ \A id \in JobId : stamps[id] # Absent => stamps'[id] # Absent
  /\ DOMAIN pairs \subseteq DOMAIN pairs'
  /\ \A i \in DOMAIN pairs :
       /\ pairs'[i].payload = pairs[i].payload /\ pairs'[i].value = pairs[i].value
       /\ Settled(i) => Settled(i)'

LEMMA RowStays ==
  ASSUME Grows, NEW r, GoodRow(r)
  PROVE  GoodRow(r)'
<1>1. r \in JobRow /\ (r.id \in JobId)' /\ Same(r, jobs'[r.id])
  BY DEF Grows, GoodRow, Same
<1>2. burnsOf(intent(r)) # {} => (burnsOf(intent(r)) # {})'
  BY BurnsStay DEF Grows
<1>3. Named(r) => Named(r)'
  BY DEF Grows, Named
<1> QED  BY <1>1, <1>2, <1>3 DEF GoodRow

\* A call that takes no step goes on with what it holds.
LEMMA OthersStay ==
  ASSUME Grows, Shape, Shape', NEW d \in Caller, RowGood(d), GotGood(d),
         pc'[d] = pc[d], row'[d] = row[d], todo'[d] = todo[d], got'[d] = got[d],
         pc[d] = "reveal" =>
           pairs'[got[d]].reveal = Unsent \/ pairs'[got[d]].commit = Dropped
  PROVE  RowGood(d)' /\ GotGood(d)'
<1>1. RowGood(d)'
  <2>1. \A r : GoodRow(r) => GoodRow(r)'
    BY RowStays
  <2> QED  BY <2>1 DEF RowGood, unfinished
<1>2. GotGood(d)'
  <2>1. pc[d] = "commit" =>
          got[d] \in 1 .. Len(Coins) + Len(pairs') /\ coinValue(got[d])' > 0
    <3> SUFFICES ASSUME pc[d] = "commit" PROVE  got[d] \in 1 .. Len(Coins) + Len(pairs') /\ coinValue(got[d])' > 0
      OBVIOUS
    <3>1. got[d] \in 1 .. Len(Coins) + Len(pairs) /\ coinValue(got[d]) > 0
      BY DEF GotGood
    <3>2. Len(Coins) \in Nat /\ Len(pairs) \in Nat /\ Len(pairs') \in Nat
          /\ DOMAIN pairs = 1 .. Len(pairs) /\ DOMAIN pairs' = 1 .. Len(pairs')
      BY LiveJobsAssumption DEF Shape
    <3>3. Len(pairs) <= Len(pairs')
      BY <3>2 DEF Grows
    <3>4. got[d] \notin 1 .. Len(Coins) => got[d] - Len(Coins) \in DOMAIN pairs
      BY <3>1, <3>2
    <3>5. coinValue(got[d])' = coinValue(got[d])
      BY <3>4 DEF coinValue, Grows
    <3> QED  BY <3>1, <3>2, <3>3, <3>5
  <2>2. pc[d] \in {"reveal", "publish_done"} =>
          (got[d] \in DOMAIN pairs /\ pairs[got[d]].payload = intent(row[d]))'
    BY DEF GotGood, Grows
  <2>3. pc[d] \in {"stamp", "confirm"} => got[d] \in Nat /\ Settled(row[d].zcashTx)'
    BY DEF GotGood, Grows, Settled
  <2>4. pc[d] = "confirm" => (stamps[row[d].id] # Absent)'
    BY DEF GotGood, Grows, RowGood, GoodRow, Working, Confirming
  <2> QED  BY <2>1, <2>2, <2>3, <2>4 DEF GotGood
<1> QED  BY <1>1, <1>2

\* Rows and pairs that a step leaves alone stay good.
LEMMA JobsStay ==
  ASSUME Grows, NEW id \in JobId, JobsGood, jobs'[id] = jobs[id]
  PROVE  /\ jobs'[id].id = id /\ GoodRow(jobs[id])'
         /\ jobs[id].state = "rejected" =>
              (matching(jobs[id]) # {} /\ burnsOf(issuanceFrom(jobs[id])) = {})'
<1>1. jobs[id].id = id /\ GoodRow(jobs[id])
  BY DEF JobsGood
<1> DEFINE r == jobs[id]
<1>2. r.state = "rejected" => matching(r) # {} /\ burnsOf(issuanceFrom(r)) = {}
  BY DEF JobsGood
<1>3. \A q : GoodRow(q) => GoodRow(q)'
  BY RowStays
<1>4. \A q : matching(q) # {} => /\ matching(q)' = matching(q)
                                 /\ burnsOf(issuanceFrom(q))' = burnsOf(issuanceFrom(q))
  BY BurnsStay DEF Grows
<1> QED  BY <1>1, <1>2, <1>3, <1>4

----------------------------------------------------------------------------
(* Steps of one call, and steps of the chains *)

Only(c) ==
  \A d \in Caller \ {c} :
    pc'[d] = pc[d] /\ todo'[d] = todo[d] /\ row'[d] = row[d] /\ got'[d] = got[d]

\* Whoever else is about to send the reveal of a pair may still do so.
RevealsStay ==
  \A d \in Caller : pc[d] = "reveal" /\ pc'[d] = "reveal" =>
    pairs'[got[d]].reveal = Unsent \/ pairs'[got[d]].commit = Dropped

LEMMA StoreStays ==
  ASSUME IInv, Grows, jobs' = jobs, stamps' = stamps
  PROVE  JobsGood' /\ StampsGood' /\ ConfirmedGood'
<1>1. JobId' = JobId
  BY DEF JobId
<1>2. JobsGood'
  BY <1>1, JobsStay DEF JobsGood, IInv
<1>3. StampsGood'
  BY <1>1 DEF StampsGood, IInv, Grows, Settled
<1>4. ConfirmedGood'
  BY <1>1 DEF ConfirmedGood, IInv, Grows, Settled
<1> QED  BY <1>2, <1>3, <1>4

\* A step of one call keeps the invariant when its own part is good.
LEMMA CallStep ==
  ASSUME IInv, Grows, NEW c \in Caller, Only(c), RevealsStay,
         Shape', JobsGood', PairsGood', StampsGood', ConfirmedGood',
         RowGood(c)', GotGood(c)',
         pc'[c] = "reveal" =>
           \A d \in Caller \ {c} : pc[d] = "reveal" => got[d] # got'[c]
  PROVE  IInv'
<1>1. ASSUME NEW d \in Caller \ {c}  PROVE  RowGood(d)' /\ GotGood(d)'
  <2>1. pc'[d] = pc[d] /\ todo'[d] = todo[d] /\ row'[d] = row[d] /\ got'[d] = got[d]
    BY DEF Only
  <2>2. pc[d] = "reveal" =>
          pairs'[got[d]].reveal = Unsent \/ pairs'[got[d]].commit = Dropped
    BY <2>1 DEF RevealsStay
  <2>3. Shape /\ RowGood(d) /\ GotGood(d)
    BY DEF IInv
  <2> QED  BY <2>1, <2>2, <2>3, OthersStay
<1>2. Exclusive'
  BY DEF Exclusive, IInv, Only
<1> QED  BY <1>1, <1>2 DEF IInv

LEMMA ChainStep ==
  ASSUME IInv, Grows, UNCHANGED <<jobs, stamps, pc, todo, row, got>>,
         RevealsStay, Shape', PairsGood'
  PROVE  IInv'
<1>1. JobsGood' /\ StampsGood' /\ ConfirmedGood'
  BY StoreStays
<1>2. ASSUME NEW d \in Caller  PROVE  RowGood(d)' /\ GotGood(d)'
  <2>1. pc[d] = "reveal" =>
          pairs'[got[d]].reveal = Unsent \/ pairs'[got[d]].commit = Dropped
    BY DEF RevealsStay
  <2>2. Shape /\ RowGood(d) /\ GotGood(d)
    BY DEF IInv
  <2> QED  BY <2>1, <2>2, OthersStay
<1>3. Exclusive'
  BY DEF Exclusive, IInv
<1> QED  BY <1>1, <1>2, <1>3 DEF IInv

\* A step that changes nothing but the call's own progress.
LEMMA ProgressStep ==
  ASSUME IInv, UNCHANGED <<landed, jobs, stamps, pairs>>,
         NEW c \in Caller, Only(c), Calls',
         requests' \in 0 .. MaxRequests, faults' \in 0 .. MaxFaults,
         RowGood(c)', GotGood(c)', pc'[c] # "reveal"
  PROVE  IInv'
<1>1. JobId' = JobId
  BY DEF JobId
<1>2. Grows
  BY <1>1 DEF Grows, Same, Settled
<1>3. Shape'
  BY DEF IInv, Shape
<1>4. PairsGood'
  BY DEF IInv, PairsGood, burnsOf, fetchBurns
<1>5. RevealsStay
  BY DEF RevealsStay, IInv, GotGood, Only
<1>6. JobsGood' /\ StampsGood' /\ ConfirmedGood'
  BY <1>2, StoreStays
<1> QED  BY <1>2, <1>3, <1>4, <1>5, <1>6, CallStep

LEMMA MovedOnly ==
  ASSUME Calls, NEW c \in Caller, NEW label \in At, goto(c, label)
  PROVE  /\ pc' \in [Caller -> At] /\ pc'[c] = label
         /\ \A d \in Caller \ {c} : pc'[d] = pc[d]
BY DEF goto, Calls

\* The next row of a list of good rows, or the end of the call.
LEMMA ContinueGood ==
  ASSUME Calls, jobs' \in Seq(JobRow), NEW c \in Caller, NEW rows, continue(c, rows),
         \A r \in rows : GoodRow(r)' /\ unfinished(r)
  PROVE  Only(c) /\ Calls' /\ RowGood(c)' /\ GotGood(c)' /\ pc'[c] # "reveal"
<1>1. CASE rows = {}
  <2>1. goto(c, "idle") /\ todo' = [todo EXCEPT ![c] = {}]
        /\ row' = [row EXCEPT ![c] = Absent] /\ hold(c, Absent)
    BY <1>1 DEF continue
  <2>2. /\ pc' \in [Caller -> At] /\ pc'[c] = "idle"
        /\ \A d \in Caller \ {c} : pc'[d] = pc[d]
    BY <2>1, MovedOnly DEF At
  <2>3. Only(c) /\ Calls' /\ todo'[c] = {}
    BY <2>1, <2>2 DEF Only, Calls, hold
  <2> QED  BY <2>2, <2>3 DEF RowGood, GotGood, Working, Publishing, Confirming
<1>2. CASE rows # {}
  <2> DEFINE r == newest(rows)
  <2>1. r \in rows
    <3>1. Len(jobs') \in Nat /\ DOMAIN jobs' = 1 .. Len(jobs')
      OBVIOUS
    <3>2. \A q \in rows : q.id \in 1 .. Len(jobs')
      BY <3>1 DEF GoodRow, JobId
    <3> QED  BY <1>2, <3>1, <3>2, NewestIsLeft
  <2>2. goto(c, branch(r)) /\ row' = [row EXCEPT ![c] = r]
        /\ todo' = [todo EXCEPT ![c] = rows \ {r}] /\ hold(c, Absent)
    BY <1>2 DEF continue
  <2>3. GoodRow(r)' /\ unfinished(r) /\ r.state \in JobState \ Finished
    BY <2>1 DEF GoodRow, JobRow, unfinished
  <2>4. /\ r.state = "burn_submitted" => branch(r) = "check"
        /\ r.state \in Due => branch(r) = "coins"
        /\ r.state = "zcash_confirmation_pending" => branch(r) = "look"
    BY DEF branch, Due
  <2>5. r.state \in {"burn_submitted", "zcash_confirmation_pending"} \cup Due
    BY <2>3 DEF JobState, Finished
  <2>6. branch(r) \in At
    BY <2>4, <2>5 DEF At
  <2>7. /\ pc' \in [Caller -> At] /\ pc'[c] = branch(r)
        /\ \A d \in Caller \ {c} : pc'[d] = pc[d]
    BY <2>2, <2>6, MovedOnly
  <2>8. Only(c) /\ Calls' /\ row'[c] = r /\ todo'[c] = rows \ {r}
    BY <2>2, <2>7 DEF Only, Calls, hold
  <2>9. RowGood(c)' /\ GotGood(c)' /\ pc'[c] # "reveal"
    <3> HIDE DEF r
    <3>1. pc'[c] \in {"check", "coins", "look"}
      BY <2>4, <2>5, <2>7
    <3>2. /\ pc'[c] = "check" => r.state = "burn_submitted"
          /\ pc'[c] = "coins" => r.state \in Due
          /\ pc'[c] = "look" => r.state = "zcash_confirmation_pending"
      BY <2>4, <2>5, <2>7
    <3>3. \A q \in todo'[c] : GoodRow(q)' /\ unfinished(q)
      BY <2>8
    <3>4. RowGood(c)'
      BY <3>1, <3>2, <3>3, <2>3, <2>8 DEF RowGood, Working, Publishing, Confirming, unfinished
    <3> QED  BY <3>1, <3>4 DEF GotGood
  <2> QED  BY <2>8, <2>9
<1> QED  BY <1>1, <1>2

LEMMA ReturnGood ==
  ASSUME Calls, NEW c \in Caller, return(c)
  PROVE  Only(c) /\ Calls' /\ RowGood(c)' /\ GotGood(c)' /\ pc'[c] # "reveal"
<1>1. /\ pc' \in [Caller -> At] /\ pc'[c] = "idle"
      /\ \A d \in Caller \ {c} : pc'[d] = pc[d]
  BY MovedOnly DEF At, return
<1>2. Only(c) /\ Calls' /\ todo'[c] = {}
  BY <1>1 DEF Only, Calls, hold, return
<1> QED  BY <1>1, <1>2 DEF RowGood, GotGood, Working, Publishing, Confirming

LEMMA Still ==
  ASSUME UNCHANGED <<landed, jobs, stamps, pairs>>
  PROVE  Grows
BY DEF Grows, Same, Settled, JobId

\* A step to a place where a call holds nothing new.
LEMMA MovedGood ==
  ASSUME IInv, UNCHANGED <<landed, jobs, stamps, pairs, todo, row>>, NEW c \in Caller,
         NEW label \in At, goto(c, label), hold(c, got'[c]) \/ UNCHANGED got
  PROVE  Only(c) /\ Calls' /\ pc'[c] = label /\ \A r : GoodRow(r) => GoodRow(r)'
<1>1. /\ pc' \in [Caller -> At] /\ pc'[c] = label
      /\ \A d \in Caller \ {c} : pc'[d] = pc[d]
  BY MovedOnly DEF IInv, Shape
<1>2. DOMAIN got' = Caller /\ \A d \in Caller \ {c} : got'[d] = got[d]
  BY DEF hold, IInv, Shape, Calls
<1>3. \A r : GoodRow(r) => GoodRow(r)'
  BY Still, RowStays
<1> QED  BY <1>1, <1>2, <1>3 DEF Only, Calls, IInv, Shape

LEMMA PairFields ==
  ASSUME pairs \in Seq(Pair), NEW i \in DOMAIN pairs
  PROVE  /\ pairs[i].reveal \in Depth /\ pairs[i].commit \in Depth \ {Unsent}
         /\ pairs[i].value \in Nat \ {0} /\ pairs[i].payload \in Issuance
<1>1. pairs[i] \in Pair
  OBVIOUS
<1> QED  BY <1>1 DEF Pair

----------------------------------------------------------------------------
(* One lemma per action *)

LEMMA SubmitKeeps ==
  ASSUME IInv, NEW c \in Caller, NEW s \in Submission, Submit(c, s)
  PROVE  IInv'
<1>1. goto(c, "insert") /\ row' = [row EXCEPT ![c] = s]
      /\ UNCHANGED <<landed, jobs, stamps, pairs, todo, got>>
  BY DEF Submit, store
<1>2. /\ pc' \in [Caller -> At] /\ pc'[c] = "insert"
      /\ \A d \in Caller \ {c} : pc'[d] = pc[d]
  BY <1>1, MovedOnly DEF IInv, Shape, At
<1>3. Only(c) /\ Calls' /\ row'[c] = s /\ todo'[c] = todo[c]
  BY <1>1, <1>2 DEF Only, Calls, IInv, Shape
<1>4. requests' \in 0 .. MaxRequests /\ faults' \in 0 .. MaxFaults
  BY LiveJobsAssumption DEF Submit, request, IInv, Shape
<1>5. \A r : GoodRow(r) => GoodRow(r)'
  BY <1>1, Still, RowStays
<1>6. RowGood(c)' /\ GotGood(c)'
  BY <1>2, <1>3, <1>5
     DEF RowGood, GotGood, IInv, Working, Publishing, Confirming, unfinished
<1> QED  BY <1>1, <1>2, <1>3, <1>4, <1>6, ProgressStep

LEMMA ListJobsKeeps ==
  ASSUME IInv, NEW c \in Caller, ListJobs(c)
  PROVE  IInv'
<1> DEFINE rows == {r \in {jobs[id] : id \in JobId} : unfinished(r)}
<1>1. continue(c, rows) /\ UNCHANGED <<landed, jobs, stamps, pairs>>
  BY DEF ListJobs, store
<1>2. \A r \in rows : GoodRow(r)' /\ unfinished(r)
  <2>1. \A r : GoodRow(r) => GoodRow(r)'
    BY <1>1, Still, RowStays
  <2> QED  BY <2>1 DEF JobsGood, IInv
<1>3. requests' \in 0 .. MaxRequests /\ faults' \in 0 .. MaxFaults
  BY LiveJobsAssumption
  DEF ListJobs, Tick, Poll, Submitted, request, budget, IInv, Shape
<1>4. Calls /\ jobs' \in Seq(JobRow)
  BY <1>1 DEF IInv, Shape
<1> HIDE DEF rows
<1>5. Only(c) /\ Calls' /\ RowGood(c)' /\ GotGood(c)' /\ pc'[c] # "reveal"
  BY <1>1, <1>2, <1>4, ContinueGood
<1> QED  BY <1>1, <1>3, <1>5, ProgressStep

LEMMA EndsKeep ==
  ASSUME IInv, NEW c \in Caller, CheckBurnThrows(c) \/ Crash(c)
  PROVE  IInv'
<1>1. return(c) /\ fault /\ UNCHANGED <<landed, jobs, stamps, pairs>>
  BY DEF CheckBurnThrows, Crash, store
<1>2. requests' \in 0 .. MaxRequests /\ faults' \in 0 .. MaxFaults
  BY <1>1, LiveJobsAssumption DEF fault, IInv, Shape
<1>3. Only(c) /\ Calls' /\ RowGood(c)' /\ GotGood(c)' /\ pc'[c] # "reveal"
  BY <1>1, ReturnGood DEF IInv, Shape
<1> QED  BY <1>1, <1>2, <1>3, ProgressStep

LEMMA ChooseCoinsKeeps ==
  ASSUME IInv, NEW c \in Caller, ChooseCoins(c)
  PROVE  IInv'
<1>1. pc[c] = "coins" /\ UNCHANGED <<landed, jobs, stamps, pairs, todo, row>>
  BY DEF ChooseCoins, store
<1>2. requests' \in 0 .. MaxRequests /\ faults' \in 0 .. MaxFaults
  BY LiveJobsAssumption DEF ChooseCoins, fault, budget, IInv, Shape
<1>3. GoodRow(row[c]) /\ row[c].state \in Due /\ \A r \in todo[c] : GoodRow(r) /\ unfinished(r)
  BY <1>1 DEF IInv, RowGood, Working, Publishing
<1>4. \/ goto(c, "unfunded") /\ UNCHANGED got
      \/ goto(c, "publish_failed") /\ hold(c, Absent)
      \/ \E coin \in fundedCoins : goto(c, "commit") /\ hold(c, coin)
  BY DEF ChooseCoins, failed
<1>5. \A coin \in fundedCoins :
        coin \in 1 .. Len(Coins) + Len(pairs) /\ coinValue(coin) > 0
  <2>1. Len(Coins) \in Nat /\ Len(pairs) \in Nat /\ DOMAIN pairs = 1 .. Len(pairs)
    BY LiveJobsAssumption DEF IInv, Shape
  <2> QED  BY <2>1 DEF fundedCoins, utxos, changeOf
<1>6. CASE goto(c, "unfunded") /\ UNCHANGED got
  <2>1. Only(c) /\ Calls' /\ pc'[c] = "unfunded" /\ \A r : GoodRow(r) => GoodRow(r)'
    BY <1>1, <1>6, MovedGood DEF At
  <2>2. RowGood(c)' /\ GotGood(c)'
    BY <1>1, <1>3, <2>1 DEF RowGood, GotGood, Working, Publishing, Confirming, unfinished
  <2> QED  BY <1>1, <1>2, <2>1, <2>2, ProgressStep
<1>7. CASE goto(c, "publish_failed") /\ hold(c, Absent)
  <2>1. hold(c, got'[c])
    BY <1>7 DEF hold, IInv, Shape, Calls
  <2>2. Only(c) /\ Calls' /\ pc'[c] = "publish_failed" /\ \A r : GoodRow(r) => GoodRow(r)'
    BY <1>1, <1>7, <2>1, MovedGood DEF At
  <2>3. RowGood(c)' /\ GotGood(c)'
    BY <1>1, <1>3, <2>2 DEF RowGood, GotGood, Working, Publishing, Confirming, unfinished
  <2> QED  BY <1>1, <1>2, <2>2, <2>3, ProgressStep
<1>8. CASE \E coin \in fundedCoins : goto(c, "commit") /\ hold(c, coin)
  <2>1. PICK coin \in fundedCoins : goto(c, "commit") /\ hold(c, coin)
    BY <1>8
  <2>2. got'[c] = coin /\ hold(c, got'[c])
    BY <2>1 DEF hold, IInv, Shape, Calls
  <2>3. Only(c) /\ Calls' /\ pc'[c] = "commit" /\ \A r : GoodRow(r) => GoodRow(r)'
    BY <1>1, <2>1, <2>2, MovedGood DEF At
  <2>4. coinValue(coin)' = coinValue(coin)
    BY <1>1 DEF coinValue
  <2>5. RowGood(c)' /\ GotGood(c)'
    BY <1>1, <1>3, <1>5, <2>2, <2>3, <2>4
    DEF RowGood, GotGood, Working, Publishing, Confirming, unfinished
  <2> QED  BY <1>1, <1>2, <2>3, <2>5, ProgressStep
<1> QED  BY <1>4, <1>6, <1>7, <1>8

LEMMA LookKeeps ==
  ASSUME IInv, NEW c \in Caller, Look(c)
  PROVE  IInv'
<1>1. pc[c] = "look" /\ UNCHANGED <<landed, jobs, stamps, pairs, todo, row>>
  BY DEF Look, store
<1>2. requests' \in 0 .. MaxRequests /\ faults' \in 0 .. MaxFaults
  BY LiveJobsAssumption DEF Look, fault, budget, IInv, Shape
<1>3. /\ GoodRow(row[c]) /\ row[c].state = "zcash_confirmation_pending"
      /\ \A r \in todo[c] : GoodRow(r) /\ unfinished(r)
  BY <1>1 DEF IInv, RowGood, Working, Confirming
<1> DEFINE r == row[c]
<1>4. r.confirmations \in 0 .. MinConfirms - 1 /\ r.zcashTx \in DOMAIN pairs
  <2>1. r.confirmations \in Nat /\ r.confirmations < MinConfirms
    BY <1>3 DEF GoodRow, JobRow
  <2> QED  BY <1>3, <2>1, LiveJobsAssumption DEF GoodRow, Named
<1>5. pairs[r.zcashTx].reveal \in Depth
  BY <1>4, PairFields DEF IInv, Shape
<1>6. /\ confirmationsOf(r) \in 0 .. MinConfirms
      /\ confirmationsOf(r) = MinConfirms => Settled(r.zcashTx)
  BY <1>4, <1>5, LiveJobsAssumption
  DEF confirmationsOf, seenDepth, mined, Settled, Depth, Dropped, Unsent
<1>7. PICK depth \in 0 .. MinConfirms :
        hold(c, depth) /\ (depth = MinConfirms => Settled(r.zcashTx))
  <2>1. CASE hold(c, confirmationsOf(r))
    BY <1>6, <2>1
  <2>2. CASE hold(c, r.confirmations)
    <3>1. r.confirmations \in 0 .. MinConfirms /\ r.confirmations # MinConfirms
      BY <1>4, LiveJobsAssumption
    <3> QED  BY <2>2, <3>1
  <2> QED  BY <2>1, <2>2 DEF Look
<1>8. got'[c] = depth /\ hold(c, got'[c])
  BY <1>7 DEF hold, IInv, Shape, Calls
<1>9. CASE depth = MinConfirms
  <2>1. goto(c, "stamp")
    BY <1>8, <1>9, LiveJobsAssumption DEF Look, deepEnough
  <2>2. Only(c) /\ Calls' /\ pc'[c] = "stamp" /\ \A q : GoodRow(q) => GoodRow(q)'
    BY <1>1, <1>8, <2>1, MovedGood DEF At
  <2>3. Settled(r.zcashTx)'
    BY <1>1, <1>7, <1>9 DEF Settled
  <2>4. RowGood(c)' /\ GotGood(c)'
    BY <1>1, <1>3, <1>8, <2>2, <2>3
    DEF RowGood, GotGood, Working, Publishing, Confirming, unfinished
  <2> QED  BY <1>1, <1>2, <2>2, <2>4, ProgressStep
<1>10. CASE depth # MinConfirms
  <2>1. depth \in 0 .. MinConfirms - 1
    BY <1>10, LiveJobsAssumption
  <2>2. goto(c, "wait")
    BY <1>8, <2>1, LiveJobsAssumption DEF Look, deepEnough
  <2>3. Only(c) /\ Calls' /\ pc'[c] = "wait" /\ \A q : GoodRow(q) => GoodRow(q)'
    BY <1>1, <1>8, <2>2, MovedGood DEF At
  <2>4. RowGood(c)' /\ GotGood(c)'
    BY <1>1, <1>3, <1>8, <2>1, <2>3
    DEF RowGood, GotGood, Working, Publishing, Confirming, unfinished
  <2> QED  BY <1>1, <1>2, <2>3, <2>4, ProgressStep
<1> QED  BY <1>9, <1>10

\* A call that writes a good version of its row back, and goes on.
LEMMA SaveStep ==
  ASSUME IInv, NEW c \in Caller, pc[c] \in Working, NEW x, save(c, x),
         GoodRow(x), x.id = row[c].id,
         x.state = "rejected" => matching(x) # {} /\ burnsOf(issuanceFrom(x)) = {},
         x.state = "confirmed" => stamps[x.id] # Absent /\ Settled(x.zcashTx),
         requests' \in 0 .. MaxRequests, faults' \in 0 .. MaxFaults
  PROVE  IInv'
<1>1. /\ jobs' = [jobs EXCEPT ![x.id] = x] /\ continue(c, todo[c])
      /\ UNCHANGED <<landed, stamps, pairs>>
  BY DEF save
<1>2. x.id \in JobId /\ x \in JobRow /\ jobs \in Seq(JobRow) /\ Same(x, jobs[x.id])
  BY DEF GoodRow, IInv, Shape
<1>3. /\ jobs' \in Seq(JobRow) /\ Len(jobs') = Len(jobs) /\ JobId' = JobId
      /\ jobs'[x.id] = x /\ \A id \in JobId \ {x.id} : jobs'[id] = jobs[id]
  BY <1>1, <1>2 DEF JobId
<1>4. Grows
  <2>1. \A id \in JobId : Same(jobs'[id], jobs[id])
    BY <1>2, <1>3 DEF Same
  <2> QED  BY <1>1, <1>3, <2>1 DEF Grows, Settled
<1>5. Shape /\ Calls
  BY DEF IInv, Shape
<1>6. Only(c) /\ Calls' /\ RowGood(c)' /\ GotGood(c)' /\ pc'[c] # "reveal"
  <2>1. \A r \in todo[c] : GoodRow(r)' /\ unfinished(r)
    BY <1>4, RowStays DEF IInv, RowGood
  <2> QED  BY <1>1, <1>3, <1>5, <2>1, ContinueGood
<1>7. Shape'
  BY <1>1, <1>3, <1>5, <1>6 DEF Shape
<1>8. JobsGood'
  <2> SUFFICES ASSUME NEW id \in JobId
               PROVE  /\ jobs'[id].id = id /\ GoodRow(jobs[id])'
                      /\ jobs'[id].state = "rejected" =>
                           (matching(jobs[id]) # {} /\ burnsOf(issuanceFrom(jobs[id])) = {})'
    BY <1>3 DEF JobsGood
  <2>1. CASE id = x.id
    <3>1. GoodRow(x)'
      BY <1>4, RowStays
    <3>2. x.state = "rejected" =>
            (matching(x) # {})' /\ (burnsOf(issuanceFrom(x)) = {})'
      BY <1>1, BurnsStay
    <3> QED  BY <1>3, <2>1, <3>1, <3>2
  <2>2. CASE id # x.id
    <3>1. jobs'[id] = jobs[id]
      BY <1>3, <2>2
    <3> QED  BY <1>4, <3>1, JobsStay DEF IInv
  <2> QED  BY <2>1, <2>2
<1>9. StampsGood'
  <2>1. \A id \in JobId : intent(jobs'[id]) = intent(jobs[id])
    BY <1>4 DEF Grows, Same, intent
  <2> QED  BY <1>1, <1>3, <2>1 DEF StampsGood, IInv, Settled
<1>10. ConfirmedGood'
  BY <1>1, <1>3 DEF ConfirmedGood, IInv, Settled
<1>11. PairsGood'
  BY <1>1 DEF IInv, PairsGood, burnsOf, fetchBurns
<1>12. RevealsStay
  BY <1>1, <1>6 DEF RevealsStay, IInv, GotGood, Only
<1> QED  BY <1>4, <1>6, <1>7, <1>8, <1>9, <1>10, <1>11, <1>12, CallStep

\* What the check of a burn decides: refused for cause, or committed to.
LEMMA JudgedGood ==
  ASSUME NEW r, GoodRow(r), r.state = "burn_submitted", NEW b \in matching(r)
  PROVE  /\ GoodRow(judged(r, b)) /\ judged(r, b).id = r.id
         /\ judged(r, b).state \in {"rejected", "burn_finalized"}
         /\ judged(r, b).state = "rejected" =>
              /\ matching(judged(r, b)) # {}
              /\ burnsOf(issuanceFrom(judged(r, b))) = {}
<1>1. r \in JobRow /\ r.burnAuthority = r.owner /\ r.confirmations < MinConfirms
  BY DEF GoodRow
<1>2. /\ b \in fetchBurns(r.sourceTx) /\ b.mint = r.mint /\ ~b.err
      /\ r.sourceTx \in DOMAIN Burn
  BY <1>1 DEF matching, JobRow
<1>3. \A d \in fetchBurns(r.sourceTx) : d.mint = b.mint => d = b
  BY <1>2, Fetched
<1>4. b.authority \in STRING
  <2>1. b \in decodeBurns(Burn[r.sourceTx], TRUE)
    BY <1>2, Fetched
  <2> QED  BY <1>2, <2>1, LiveJobsAssumption
<1>5. ASSUME NEW reason \in Reason,
             b.amount # r.amount \/ ~namesDestination(b, r)
      PROVE  LET x == reject(r, reason)
             IN  /\ GoodRow(x) /\ x.id = r.id /\ x.state = "rejected"
                 /\ matching(x) # {} /\ burnsOf(issuanceFrom(x)) = {}
  <2> DEFINE x == reject(r, reason)
  <2>1. /\ x \in JobRow /\ Same(x, r) /\ x.id = r.id /\ x.state = "rejected"
        /\ x.confirmations = r.confirmations
    BY <1>1 DEF reject, JobRow, Same, JobState, Finished
  <2> HIDE DEF x
  <2>2. GoodRow(x)
    BY <2>1 DEF GoodRow, Same, Checked, Due
  <2>3. matching(x) # {}
    BY <2>1, <1>2 DEF matching, Same
  <2>4. burnsOf(issuanceFrom(x)) = {}
    <3> SUFFICES ASSUME NEW d \in burnsOf(issuanceFrom(x))  PROVE FALSE
      OBVIOUS
    <3> DEFINE i == issuanceFrom(x)
    <3>1. /\ i.sourceTx = r.sourceTx /\ i.mint = r.mint
          /\ i.amount = r.amount /\ i.destination = r.destination
      BY <2>1 DEF issuanceFrom, Same
    <3> HIDE DEF i
    <3>2. /\ d \in fetchBurns(i.sourceTx) /\ d.mint = i.mint
          /\ d.amount = i.amount /\ namesDestination(d, i)
      BY DEF burnsOf, i
    <3>3. d = b
      BY <1>2, <1>3, <3>1, <3>2
    <3>4. namesDestination(b, r)
      BY <3>1, <3>2, <3>3 DEF namesDestination
    <3> QED  BY <1>5, <3>1, <3>2, <3>3, <3>4
  <2> QED  BY <2>1, <2>2, <2>3, <2>4 DEF x
<1>6. ASSUME b.amount = r.amount, namesDestination(b, r)
      PROVE  LET x == finalize(r, b)
             IN  GoodRow(x) /\ x.id = r.id /\ x.state = "burn_finalized"
  <2> DEFINE x == finalize(r, b)
  <2>1. issuanceFrom(r) \in Issuance /\ issuanceFrom(r) = intent(r)
    BY <1>1 DEF issuanceFrom, intent, Issuance, JobRow
  <2>2. /\ x \in JobRow /\ Same(x, r) /\ x.id = r.id /\ x.state = "burn_finalized"
        /\ x.confirmations = r.confirmations /\ x.commitment = intent(r)
    <3> HIDE DEF Issuance, issuanceFrom, intent
    <3> QED  BY <1>1, <1>4, <2>1 DEF finalize, JobRow, Same, JobState, Due
  <2> HIDE DEF x
  <2>3. intent(x) = intent(r)
    BY <2>2 DEF Same, intent
  <2>4. b \in burnsOf(intent(r))
    <3> DEFINE i == intent(r)
    <3>1. /\ i.sourceTx = r.sourceTx /\ i.mint = r.mint
          /\ i.amount = r.amount /\ i.destination = r.destination
      BY DEF intent
    <3> HIDE DEF i
    <3>2. namesDestination(b, i)
      BY <1>6, <3>1 DEF namesDestination
    <3>3. b \in burnsOf(i)
      BY <1>2, <1>6, <3>1, <3>2, Zenon DEF burnsOf
    <3> QED  BY <3>3 DEF i
  <2>5. GoodRow(x)
    BY <1>1, <2>2, <2>3, <2>4 DEF GoodRow, Same
  <2> QED  BY <2>2, <2>5 DEF x
<1>7. CASE b.amount # r.amount
  <2>1. judged(r, b) = reject(r, "wrong_amount")
    BY <1>7 DEF judged
  <2>3. "wrong_amount" \in Reason
    BY DEF Reason
  <2>2. LET x == reject(r, "wrong_amount")
        IN  /\ GoodRow(x) /\ x.id = r.id /\ x.state = "rejected"
            /\ matching(x) # {} /\ burnsOf(issuanceFrom(x)) = {}
    BY <1>5, <1>7, <2>3
  <2> QED  BY <2>1, <2>2
<1>8. CASE b.amount = r.amount /\ ~namesDestination(b, r)
  <2>1. judged(r, b) = reject(r, "missing_intent")
    BY <1>8 DEF judged
  <2>3. "missing_intent" \in Reason
    BY DEF Reason
  <2>2. LET x == reject(r, "missing_intent")
        IN  /\ GoodRow(x) /\ x.id = r.id /\ x.state = "rejected"
            /\ matching(x) # {} /\ burnsOf(issuanceFrom(x)) = {}
    BY <1>5, <1>8, <2>3
  <2> QED  BY <2>1, <2>2
<1>9. CASE b.amount = r.amount /\ namesDestination(b, r)
  BY <1>6, <1>9 DEF judged
<1> QED  BY <1>7, <1>8, <1>9

LEMMA CheckBurnKeeps ==
  ASSUME IInv, NEW c \in Caller, CheckBurn(c)
  PROVE  IInv'
<1> DEFINE r == row[c]
<1>1. /\ pc[c] = "check" /\ GoodRow(r) /\ r.state = "burn_submitted"
      /\ Calls /\ jobs \in Seq(JobRow)
  BY DEF CheckBurn, IInv, RowGood, Working, Shape
<1>2. requests' \in 0 .. MaxRequests /\ faults' \in 0 .. MaxFaults
  BY DEF CheckBurn, budget, IInv, Shape
<1>3. CASE skip(c)
  <2>1. continue(c, todo[c]) /\ UNCHANGED <<landed, jobs, stamps, pairs>>
    BY <1>3 DEF skip, store
  <2>2. \A q \in todo[c] : GoodRow(q)' /\ unfinished(q)
    BY <2>1, Still, RowStays DEF IInv, RowGood
  <2>3. Only(c) /\ Calls' /\ RowGood(c)' /\ GotGood(c)' /\ pc'[c] # "reveal"
    BY <1>1, <2>1, <2>2, ContinueGood
  <2> QED  BY <1>2, <2>1, <2>3, ProgressStep
<1>4. CASE return(c) /\ UNCHANGED <<landed, store, pairs>>
  <2>1. Only(c) /\ Calls' /\ RowGood(c)' /\ GotGood(c)' /\ pc'[c] # "reveal"
    BY <1>1, <1>4, ReturnGood
  <2> QED  BY <1>2, <1>4, <2>1, ProgressStep DEF store
<1>5. CASE \E b \in matching(r) : save(c, judged(r, b))
  <2>1. PICK b \in matching(r) : save(c, judged(r, b))
    BY <1>5
  <2> DEFINE x == judged(r, b)
  <2>2. /\ GoodRow(x) /\ x.id = r.id /\ x.state \in {"rejected", "burn_finalized"}
        /\ x.state = "rejected" => matching(x) # {} /\ burnsOf(issuanceFrom(x)) = {}
    BY <1>1, JudgedGood
  <2> HIDE DEF x
  <2>3. save(c, x) /\ pc[c] \in Working
    BY <1>1, <2>1 DEF x, Working
  <2> QED  BY <1>2, <2>2, <2>3, SaveStep
<1> QED  BY <1>3, <1>4, <1>5 DEF CheckBurn

LEMMA SavePublicationKeeps ==
  ASSUME IInv, NEW c \in Caller, SavePublication(c)
  PROVE  IInv'
<1> DEFINE r == row[c]
<1>1. pc[c] \in {"publish_done", "unfunded", "publish_failed"} /\ pc[c] \in Working
  BY DEF SavePublication, Working, Publishing
<1>2. GoodRow(r) /\ r.state \in Due /\ r \in JobRow /\ r.confirmations < MinConfirms
  <2>1. pc[c] \in Publishing
    BY <1>1 DEF Publishing
  <2>2. GoodRow(r) /\ r.state \in Due
    BY <1>1, <2>1 DEF IInv, RowGood
  <2> QED  BY <2>2 DEF GoodRow, Due
<1>3. requests' \in 0 .. MaxRequests /\ faults' \in 0 .. MaxFaults
  BY DEF SavePublication, budget, IInv, Shape
<1>4. CASE pc[c] = "publish_done" /\ save(c, published(r, got[c]))
  <2>1. /\ got[c] \in DOMAIN pairs /\ pairs[got[c]].payload = intent(r)
        /\ DOMAIN pairs \subseteq Nat
    BY <1>4 DEF IInv, GotGood, Shape
  <2> DEFINE x == published(r, got[c])
  <2>2. /\ x \in JobRow /\ Same(x, r) /\ x.id = r.id /\ x.commitment = r.commitment
        /\ x.state = "zcash_confirmation_pending"
        /\ x.zcashTx = got[c] /\ x.confirmations = 0
    BY <1>2, <2>1 DEF published, JobRow, Same, JobState
  <2> HIDE DEF x
  <2>3. intent(x) = intent(r)
    BY <2>2 DEF Same, intent
  <2>4. GoodRow(x)
    BY <1>2, <2>1, <2>2, <2>3, LiveJobsAssumption DEF GoodRow, Same, Checked, Named
  <2>5. save(c, x)
    BY <1>4 DEF x
  <2> QED  BY <1>1, <1>3, <2>2, <2>4, <2>5, SaveStep
<1>5. ASSUME NEW reason \in Reason, save(c, retryable(r, reason))
      PROVE  IInv'
  <2> DEFINE x == retryable(r, reason)
  <2>1. /\ x \in JobRow /\ Same(x, r) /\ x.id = r.id /\ x.commitment = r.commitment
        /\ x.state = "retryable" /\ x.confirmations = r.confirmations
    BY <1>2 DEF retryable, JobRow, Same, JobState, Due
  <2> HIDE DEF x
  <2>2. intent(x) = intent(r)
    BY <2>1 DEF Same, intent
  <2>3. GoodRow(x)
    BY <1>2, <2>1, <2>2 DEF GoodRow, Same, Checked, Due
  <2>4. save(c, x)
    BY <1>5 DEF x
  <2> QED  BY <1>1, <1>3, <2>1, <2>3, <2>4, SaveStep
<1>6. /\ "insufficient_publication_funds" \in Reason
      /\ "zcash_payload_invalid" \in Reason
  BY DEF Reason
<1> QED  BY <1>4, <1>5, <1>6 DEF SavePublication

LEMMA AwaitConfirmationKeeps ==
  ASSUME IInv, NEW c \in Caller, AwaitConfirmation(c)
  PROVE  IInv'
<1> DEFINE r == row[c]
           x == [r EXCEPT !.confirmations = got[c]]
<1>1. /\ pc[c] = "wait" /\ pc[c] \in Working /\ save(c, x)
      /\ got[c] \in 0 .. MinConfirms - 1
  BY DEF AwaitConfirmation, Working, Confirming, IInv, GotGood
<1>2. GoodRow(r) /\ r.state = "zcash_confirmation_pending" /\ r \in JobRow
  BY <1>1 DEF IInv, RowGood, Confirming, GoodRow
<1>3. requests' \in 0 .. MaxRequests /\ faults' \in 0 .. MaxFaults
  BY DEF AwaitConfirmation, budget, IInv, Shape
<1>4. /\ x \in JobRow /\ Same(x, r) /\ x.id = r.id /\ x.commitment = r.commitment
      /\ x.state = r.state /\ x.zcashTx = r.zcashTx /\ x.confirmations = got[c]
  <2>1. got[c] \in Nat
    BY <1>1, LiveJobsAssumption
  <2> QED  BY <1>2, <2>1 DEF JobRow, Same
<1> HIDE DEF x
<1>5. intent(x) = intent(r)
  BY <1>4 DEF Same, intent
<1>6. GoodRow(x)
  BY <1>1, <1>2, <1>4, <1>5, LiveJobsAssumption DEF GoodRow, Same, Checked, Named
<1> QED  BY <1>1, <1>2, <1>3, <1>4, <1>6, SaveStep

LEMMA ConfirmJobKeeps ==
  ASSUME IInv, NEW c \in Caller, ConfirmJob(c)
  PROVE  IInv'
<1> DEFINE r == row[c]
           x == [r EXCEPT !.state = "confirmed", !.confirmations = got[c]]
<1>1. /\ pc[c] = "confirm" /\ pc[c] \in Working /\ save(c, x)
      /\ got[c] \in Nat /\ Settled(r.zcashTx) /\ stamps[r.id] # Absent
  BY DEF ConfirmJob, Working, Confirming, IInv, GotGood
<1>2. GoodRow(r) /\ r.state = "zcash_confirmation_pending" /\ r \in JobRow
  BY <1>1 DEF IInv, RowGood, Confirming, GoodRow
<1>3. requests' \in 0 .. MaxRequests /\ faults' \in 0 .. MaxFaults
  BY DEF ConfirmJob, budget, IInv, Shape
<1>4. /\ x \in JobRow /\ Same(x, r) /\ x.id = r.id /\ x.commitment = r.commitment
      /\ x.state = "confirmed" /\ x.zcashTx = r.zcashTx
  BY <1>1, <1>2 DEF JobRow, Same, JobState, Finished
<1> HIDE DEF x
<1>5. intent(x) = intent(r)
  BY <1>4 DEF Same, intent
<1>6. GoodRow(x)
  BY <1>2, <1>4, <1>5 DEF GoodRow, Same, Checked, Named
<1>7. stamps[x.id] # Absent /\ Settled(x.zcashTx)
  BY <1>1, <1>4
<1> QED  BY <1>1, <1>3, <1>4, <1>6, <1>7, SaveStep

\* The stamp row cites the publication that its caller saw confirmed.
LEMMA FileStampKeeps ==
  ASSUME IInv, NEW c \in Caller, FileStamp(c)
  PROVE  IInv'
<1> DEFINE r == row[c]
<1>1. /\ pc[c] = "stamp" /\ goto(c, "confirm")
      /\ stamps' = [stamps EXCEPT ![r.id] = accepted(r)]
      /\ UNCHANGED <<landed, jobs, pairs, todo, row, got, requests, faults>>
  BY DEF FileStamp, budget
<1>2. GoodRow(r) /\ r.state = "zcash_confirmation_pending" /\ r \in JobRow
  BY <1>1 DEF IInv, RowGood, Working, Confirming, GoodRow
<1>3. got[c] \in Nat /\ Settled(r.zcashTx)
  BY <1>1 DEF IInv, GotGood
<1>4. /\ r.id \in JobId /\ Same(r, jobs[r.id]) /\ r.commitment = intent(r)
      /\ r.zcashTx \in DOMAIN pairs /\ pairs[r.zcashTx].payload = intent(r)
  BY <1>2 DEF GoodRow, Named, Checked
<1>5. /\ accepted(r) \in StampRow /\ accepted(r).id = intent(r)
      /\ accepted(r).zcashTx = r.zcashTx
  <2>1. issuanceFrom(r) \in Issuance /\ intent(r) \in Issuance
    BY <1>2 DEF issuanceFrom, intent, Issuance, JobRow
  <2>2. r.zcashTx \in Nat
    BY <1>4 DEF IInv, Shape
  <2> HIDE DEF Issuance, issuanceFrom, intent
  <2> QED  BY <1>4, <2>1, <2>2 DEF accepted, StampRow
<1>6. /\ stamps \in Seq(StampRow \cup {Absent}) /\ Len(stamps) = Len(jobs)
      /\ jobs \in Seq(JobRow)
  BY DEF IInv, Shape
<1>7. /\ stamps' \in Seq(StampRow \cup {Absent}) /\ Len(stamps') = Len(jobs')
      /\ stamps'[r.id] = accepted(r)
      /\ \A id \in JobId \ {r.id} : stamps'[id] = stamps[id]
  <2> HIDE DEF r
  <2> QED  BY <1>1, <1>4, <1>5, <1>6 DEF JobId
<1>8. accepted(r) # Absent
  BY <1>5, AbsentAssumption
<1>9. JobId' = JobId
  BY <1>1 DEF JobId
<1>10. Grows
  BY <1>1, <1>7, <1>8, <1>9 DEF Grows, Same, Settled
<1>11. Only(c) /\ Calls' /\ pc'[c] = "confirm"
  <2>1. /\ pc' \in [Caller -> At] /\ pc'[c] = "confirm"
        /\ \A d \in Caller \ {c} : pc'[d] = pc[d]
    BY <1>1, MovedOnly DEF IInv, Shape, At
  <2> QED  BY <1>1, <2>1 DEF Only, Calls, IInv, Shape
<1>12. Shape'
  BY <1>1, <1>7, <1>11 DEF IInv, Shape
<1>13. JobsGood'
  BY <1>1, <1>9, <1>10, JobsStay DEF JobsGood, IInv
<1>14. StampsGood'
  <2>1. intent(jobs[r.id]) = intent(r)
    BY <1>4 DEF Same, intent
  <2> QED  BY <1>1, <1>3, <1>4, <1>5, <1>7, <1>9, <2>1 DEF StampsGood, IInv, Settled
<1>15. ConfirmedGood'
  BY <1>1, <1>9, <1>10 DEF ConfirmedGood, IInv, Grows, Settled
<1>16. PairsGood' /\ RevealsStay
  BY <1>1, <1>11 DEF PairsGood, RevealsStay, IInv, GotGood, Only, burnsOf, fetchBurns
<1>17. RowGood(c)' /\ GotGood(c)'
  <2>1. \A q : GoodRow(q) => GoodRow(q)'
    BY <1>10, RowStays
  <2>2. \A q \in todo[c] : GoodRow(q) /\ unfinished(q)
    BY DEF IInv, RowGood
  <2>3. RowGood(c)'
    BY <1>1, <1>2, <1>11, <2>1, <2>2
    DEF RowGood, Working, Publishing, Confirming, unfinished
  <2>4. GotGood(c)'
    BY <1>1, <1>3, <1>7, <1>8, <1>11 DEF GotGood, Settled
  <2> QED  BY <2>3, <2>4
<1> QED  BY <1>10, <1>11, <1>12, <1>13, <1>14, <1>15, <1>16, <1>17, CallStep

LEMMA InsertJobKeeps ==
  ASSUME IInv, NEW c \in Caller, InsertJob(c)
  PROVE  IInv'
<1> PICK x, n : x = newJob(row[c]) /\ n = Len(jobs) + 1
  OBVIOUS
<1>1. pc[c] = "insert" /\ row[c] \in Submission /\ UNCHANGED <<landed, pairs, requests, faults>>
  BY DEF InsertJob, budget, IInv, RowGood
<1>2. requests' \in 0 .. MaxRequests /\ faults' \in 0 .. MaxFaults
  BY <1>1 DEF IInv, Shape
<1>3. CASE return(c) /\ UNCHANGED store
  <2>1. Only(c) /\ Calls' /\ RowGood(c)' /\ GotGood(c)' /\ pc'[c] # "reveal"
    BY <1>3, ReturnGood DEF IInv, Shape
  <2> QED  BY <1>1, <1>2, <1>3, <2>1, ProgressStep DEF store
<1>4. CASE /\ jobs' = Append(jobs, x) /\ stamps' = Append(stamps, Absent)
           /\ goto(c, "list") /\ row' = [row EXCEPT ![c] = Absent]
           /\ UNCHANGED <<todo, got>>
  <2>1. /\ jobs \in Seq(JobRow) /\ stamps \in Seq(StampRow \cup {Absent})
        /\ Len(stamps) = Len(jobs) /\ Len(jobs) \in Nat /\ JobId = 1 .. Len(jobs)
    BY DEF IInv, Shape, JobId
  <2>2. /\ x \in JobRow /\ x.id = n /\ x.state = "burn_submitted"
        /\ x.burnAuthority = x.owner /\ x.confirmations = 0
    BY <1>1, <2>1, LiveJobsAssumption DEF newJob, JobRow, JobState
  <2>3. /\ jobs' \in Seq(JobRow) /\ stamps' \in Seq(StampRow \cup {Absent})
        /\ Len(stamps') = Len(jobs') /\ JobId' = JobId \cup {n} /\ n \notin JobId
        /\ jobs'[n] = x /\ \A id \in JobId : jobs'[id] = jobs[id]
        /\ stamps'[n] = Absent /\ \A id \in JobId : stamps'[id] = stamps[id]
    BY <1>4, <2>1, <2>2 DEF JobId
  <2>4. Grows
    BY <1>1, <2>3 DEF Grows, Same, Settled
  <2>5. GoodRow(x)'
    <3>1. x.confirmations < MinConfirms
      BY <2>2, LiveJobsAssumption
    <3> QED  BY <2>2, <2>3, <3>1 DEF GoodRow, Same, Checked, Due
  <2>6. JobsGood'
    <3>1. ASSUME NEW id \in JobId
          PROVE  /\ jobs'[id].id = id /\ GoodRow(jobs[id])'
                 /\ jobs'[id].state = "rejected" =>
                      (matching(jobs[id]) # {} /\ burnsOf(issuanceFrom(jobs[id])) = {})'
      BY <2>3, <2>4, JobsStay DEF IInv
    <3>2. jobs'[n].id = n /\ GoodRow(jobs[n])' /\ jobs'[n].state # "rejected"
      BY <2>2, <2>3, <2>5
    <3> QED  BY <2>3, <3>1, <3>2 DEF JobsGood
  <2>7. StampsGood'
    BY <1>1, <2>3 DEF StampsGood, IInv, Settled
  <2>8. ConfirmedGood'
    BY <1>1, <2>2, <2>3 DEF ConfirmedGood, IInv, Settled
  <2>9. Only(c) /\ Calls' /\ pc'[c] = "list"
    <3>1. /\ pc' \in [Caller -> At] /\ pc'[c] = "list"
          /\ \A d \in Caller \ {c} : pc'[d] = pc[d]
      BY <1>4, MovedOnly DEF IInv, Shape, At
    <3> QED  BY <1>4, <3>1 DEF Only, Calls, IInv, Shape
  <2>10. Shape'
    BY <1>1, <2>3, <2>9 DEF IInv, Shape
  <2>11. PairsGood' /\ RevealsStay
    BY <1>1, <2>9 DEF PairsGood, RevealsStay, IInv, GotGood, Only, burnsOf, fetchBurns
  <2>12. RowGood(c)' /\ GotGood(c)'
    <3>1. \A q \in todo'[c] : GoodRow(q)' /\ unfinished(q)
      BY <1>4, <2>4, RowStays DEF IInv, RowGood
    <3> QED  BY <2>9, <3>1
             DEF RowGood, GotGood, Working, Publishing, Confirming, unfinished
  <2> QED  BY <2>4, <2>6, <2>7, <2>8, <2>9, <2>10, <2>11, <2>12, CallStep
<1> QED  BY <1>1, <1>3, <1>4 DEF InsertJob

\* A publication that failed leaves the call with a row that is due.
LEMMA FailedKeeps ==
  ASSUME IInv, NEW c \in Caller, pc[c] \in Publishing, failed(c), Grows, RevealsStay,
         UNCHANGED <<jobs, stamps, todo, row>>, landed' \subseteq DOMAIN Burn,
         pairs' \in Seq(Pair), PairsGood',
         requests' \in 0 .. MaxRequests, faults' \in 0 .. MaxFaults
  PROVE  IInv'
<1>1. Only(c) /\ Calls' /\ pc'[c] = "publish_failed"
  <2>1. /\ pc' \in [Caller -> At] /\ pc'[c] = "publish_failed"
        /\ \A d \in Caller \ {c} : pc'[d] = pc[d]
    BY MovedOnly DEF failed, IInv, Shape, At
  <2> QED  BY <2>1 DEF Only, Calls, IInv, Shape, failed, hold
<1>2. GoodRow(row[c]) /\ row[c].state \in Due /\ \A r \in todo[c] : GoodRow(r) /\ unfinished(r)
  BY DEF IInv, RowGood, Working
<1>3. RowGood(c)' /\ GotGood(c)'
  <2>1. \A q : GoodRow(q) => GoodRow(q)'
    BY RowStays
  <2> QED  BY <1>1, <1>2, <2>1
           DEF RowGood, GotGood, Working, Publishing, Confirming, unfinished
<1>4. JobsGood' /\ StampsGood' /\ ConfirmedGood'
  BY StoreStays
<1>5. Shape'
  BY <1>1 DEF IInv, Shape
<1> QED  BY <1>1, <1>3, <1>4, <1>5, CallStep

LEMMA SendCommitKeeps ==
  ASSUME IInv, NEW c \in Caller, SendCommit(c)
  PROVE  IInv'
<1> DEFINE n == Len(pairs) + 1
           p == newPair(c)
<1>1. pc[c] = "commit" /\ pc[c] \in Publishing
      /\ UNCHANGED <<landed, jobs, stamps, todo, row>>
  BY DEF SendCommit, store, Publishing
<1>2. requests' \in 0 .. MaxRequests /\ faults' \in 0 .. MaxFaults
  BY LiveJobsAssumption DEF SendCommit, fault, budget, IInv, Shape
<1>3. /\ pairs \in Seq(Pair) /\ Len(pairs) \in Nat /\ DOMAIN pairs = 1 .. Len(pairs)
      /\ landed \subseteq DOMAIN Burn
  BY DEF IInv, Shape
<1>4. CASE failed(c) /\ UNCHANGED pairs
  <2>1. Grows
    BY <1>1, <1>4, Still
  <2>2. PairsGood' /\ RevealsStay
    BY <1>1, <1>4 DEF PairsGood, RevealsStay, IInv, GotGood, Only, burnsOf, fetchBurns
  <2> QED  BY <1>1, <1>2, <1>3, <1>4, <2>1, <2>2, FailedKeeps
<1>5. CASE pairs' = Append(pairs, p)
  <2>1. GoodRow(row[c]) /\ row[c].state \in Due
        /\ \A r \in todo[c] : GoodRow(r) /\ unfinished(r)
    BY <1>1 DEF IInv, RowGood, Working
  <2>2. /\ row[c].commitment = intent(row[c]) /\ burnsOf(intent(row[c])) # {}
        /\ row[c].commitment \in Issuance
    <3>1. row[c].commitment = intent(row[c]) /\ burnsOf(intent(row[c])) # {} /\ row[c] \in JobRow
      BY <2>1 DEF GoodRow, Checked
    <3>2. intent(row[c]) \in Issuance
      BY <3>1 DEF intent, Issuance, JobRow
    <3> QED  BY <3>1, <3>2
  <2>3. got[c] \in Nat /\ coinValue(got[c]) \in Nat \ {0}
    <3>1. got[c] \in 1 .. Len(Coins) + Len(pairs) /\ coinValue(got[c]) > 0
      BY <1>1 DEF IInv, GotGood
    <3>2. Len(Coins) \in Nat /\ DOMAIN Coins = 1 .. Len(Coins)
      BY LiveJobsAssumption
    <3>3. got[c] \in 1 .. Len(Coins) => Coins[got[c]] \in Nat
      BY <3>2, LiveJobsAssumption
    <3>4. got[c] \notin 1 .. Len(Coins) => got[c] - Len(Coins) \in DOMAIN pairs
      BY <1>3, <3>1, <3>2
    <3>5. got[c] \notin 1 .. Len(Coins) => pairs[got[c] - Len(Coins)].value \in Nat
      BY <1>3, <3>4, PairFields
    <3>6. coinValue(got[c]) \in Int
      BY <3>3, <3>5 DEF coinValue
    <3> QED  BY <1>3, <3>1, <3>2, <3>6
  <2>4. /\ p \in Pair /\ p.payload = intent(row[c])
        /\ p.commit = Mempool /\ p.reveal = Unsent
    BY <2>2, <2>3, LiveJobsAssumption
    DEF newPair, Pair, Depth, Mempool, Unsent
  <2> HIDE DEF p
  <2>5. /\ pairs' \in Seq(Pair) /\ DOMAIN pairs' = DOMAIN pairs \cup {n}
        /\ n \notin DOMAIN pairs
        /\ pairs'[n] = p /\ \A i \in DOMAIN pairs : pairs'[i] = pairs[i]
    BY <1>3, <1>5, <2>4
  <2>6. n \in Nat
    BY <1>3
  <2> HIDE DEF n
  <2>7. Grows
    BY <1>1, <2>5 DEF Grows, Same, Settled, JobId
  <2>8. PairsGood'
    <3>1. \A y : burnsOf(y)' = burnsOf(y)
      BY <1>1 DEF burnsOf, fetchBurns
    <3>2. \A i \in DOMAIN pairs : burnsOf(pairs'[i].payload) # {}
      BY <2>5 DEF PairsGood, IInv
    <3>3. burnsOf(pairs'[n].payload) # {}
      BY <2>2, <2>4, <2>5
    <3>4. \A i \in DOMAIN pairs : pairs'[i].reveal <= pairs'[i].commit
      BY <2>5 DEF PairsGood, IInv
    <3>5. pairs'[n].reveal <= pairs'[n].commit
      BY <2>4, <2>5 DEF Mempool, Unsent
    <3>6. \A i \in DOMAIN pairs' : burnsOf(pairs[i].payload)' # {}
      BY <2>5, <3>1, <3>2, <3>3
    <3> QED  BY <2>5, <3>4, <3>5, <3>6 DEF PairsGood
  <2>9. ASSUME NEW d \in Caller, pc[d] = "reveal"
        PROVE  /\ got[d] # n
               /\ pairs'[got[d]].reveal = Unsent \/ pairs'[got[d]].commit = Dropped
    BY <2>5, <2>9 DEF IInv, GotGood
  <2>10. RevealsStay
    BY <2>9 DEF RevealsStay
  <2>11. CASE failed(c)
    BY <1>1, <1>2, <1>3, <2>5, <2>7, <2>8, <2>10, <2>11, FailedKeeps
  <2>12. CASE goto(c, "reveal") /\ hold(c, n)
    <3>1. /\ pc' \in [Caller -> At] /\ pc'[c] = "reveal"
          /\ \A d \in Caller \ {c} : pc'[d] = pc[d]
      BY <2>12, MovedOnly DEF IInv, Shape, At
    <3>2. Only(c) /\ Calls' /\ got'[c] = n
      BY <1>1, <2>12, <3>1 DEF Only, Calls, IInv, Shape, hold
    <3>3. Shape'
      BY <1>1, <1>2, <2>5, <3>2 DEF IInv, Shape
    <3>4. JobsGood' /\ StampsGood' /\ ConfirmedGood'
      BY <1>1, <2>7, StoreStays
    <3>5. RowGood(c)' /\ GotGood(c)'
      <4>1. \A q : GoodRow(q) => GoodRow(q)'
        BY <2>7, RowStays
      <4>2. RowGood(c)'
        BY <1>1, <2>1, <3>1, <4>1
        DEF RowGood, Working, Publishing, Confirming, unfinished
      <4>3. intent(row[c])' = intent(row[c])
        BY <1>1 DEF intent
      <4>4. GotGood(c)'
        BY <1>1, <2>4, <2>5, <3>1, <3>2, <4>3 DEF GotGood
      <4> QED  BY <4>2, <4>4
    <3> QED  BY <2>7, <2>8, <2>9, <2>10, <3>2, <3>3, <3>4, <3>5, CallStep
  <2> QED  BY <1>5, <2>4, <2>5, <2>11, <2>12 DEF SendCommit, n
<1> QED  BY <1>4, <1>5 DEF SendCommit

LEMMA SendRevealKeeps ==
  ASSUME IInv, NEW c \in Caller, SendReveal(c)
  PROVE  IInv'
<1> DEFINE i == got[c]
<1>1. pc[c] = "reveal" /\ pc[c] \in Publishing
      /\ UNCHANGED <<landed, jobs, stamps, todo, row>>
  BY DEF SendReveal, store, Publishing
<1>2. requests' \in 0 .. MaxRequests /\ faults' \in 0 .. MaxFaults
  BY LiveJobsAssumption DEF SendReveal, fault, budget, IInv, Shape
<1>3. /\ pairs \in Seq(Pair) /\ landed \subseteq DOMAIN Burn
      /\ i \in DOMAIN pairs /\ pairs[i].payload = intent(row[c])
      /\ pairs[i].reveal = Unsent \/ pairs[i].commit = Dropped
  BY <1>1 DEF IInv, Shape, GotGood
<1>4. CASE failed(c) /\ UNCHANGED pairs
  <2>1. Grows
    BY <1>1, <1>4, Still
  <2>2. PairsGood' /\ RevealsStay
    BY <1>1, <1>4 DEF PairsGood, RevealsStay, IInv, GotGood, Only, burnsOf, fetchBurns
  <2> QED  BY <1>1, <1>2, <1>3, <1>4, <2>1, <2>2, FailedKeeps
<1>5. CASE pairs[i].commit # Dropped /\ pairs' = [pairs EXCEPT ![i].reveal = Mempool]
  <2>1. pairs[i] \in Pair /\ pairs[i].reveal = Unsent /\ pairs[i].commit \in Depth \ {Unsent}
    BY <1>3, <1>5, PairFields
  <2> DEFINE p == [pairs[i] EXCEPT !.reveal = Mempool]
  <2>2. /\ p \in Pair /\ p.payload = pairs[i].payload /\ p.value = pairs[i].value
        /\ p.commit = pairs[i].commit /\ p.reveal = Mempool
    BY <2>1, LiveJobsAssumption DEF Pair, Depth, Mempool, Unsent
  <2>3. pairs' = [pairs EXCEPT ![i] = p]
    BY <1>5
  <2> HIDE DEF p
  <2>4. /\ pairs' \in Seq(Pair) /\ DOMAIN pairs' = DOMAIN pairs
        /\ pairs'[i] = p /\ \A j \in DOMAIN pairs \ {i} : pairs'[j] = pairs[j]
    BY <1>3, <2>2, <2>3
  <2>5. ReorgsAreShallow => ~ Settled(i)
    BY <2>1, LiveJobsAssumption DEF Settled, Unsent
  <2>6. Grows
    BY <1>1, <2>2, <2>4, <2>5 DEF Grows, Same, Settled, JobId
  <2>7. PairsGood'
    <3>1. p.reveal <= p.commit
      <4>1. pairs[i].commit \in Unsent .. MinConfirms /\ pairs[i].commit \notin {Unsent, Dropped}
        BY <1>5, <2>1 DEF Depth
      <4>2. pairs[i].commit >= 0
        BY <4>1, LiveJobsAssumption DEF Unsent, Dropped
      <4> QED  BY <2>2, <4>2 DEF Mempool
    <3>2. \A j \in DOMAIN pairs : pairs'[j].payload = pairs[j].payload
      BY <2>2, <2>4
    <3>3. \A j \in DOMAIN pairs : burnsOf(pairs[j].payload)' # {}
      BY <1>1, <3>2 DEF PairsGood, IInv, burnsOf, fetchBurns
    <3>4. \A j \in DOMAIN pairs : pairs'[j].reveal <= pairs'[j].commit
      BY <2>4, <3>1 DEF PairsGood, IInv
    <3> QED  BY <2>4, <3>3, <3>4 DEF PairsGood
  <2>8. ASSUME NEW label \in At, goto(c, label)
        PROVE  /\ pc' \in [Caller -> At] /\ pc'[c] = label
               /\ \A d \in Caller \ {c} : pc'[d] = pc[d]
    BY <2>8, MovedOnly DEF IInv, Shape
  <2>9. ASSUME NEW label \in At \ {"reveal"}, goto(c, label)
        PROVE  RevealsStay
    <3>1. ASSUME NEW d \in Caller, pc[d] = "reveal", pc'[d] = "reveal"
          PROVE  pairs'[got[d]].reveal = Unsent \/ pairs'[got[d]].commit = Dropped
      <4>1. d # c /\ got[d] # i
        BY <1>1, <2>8, <2>9, <3>1 DEF IInv, Exclusive
      <4> QED  BY <2>4, <3>1, <4>1 DEF IInv, GotGood
    <3> QED  BY <3>1 DEF RevealsStay
  <2>10. CASE failed(c)
    <3>1. RevealsStay
      BY <2>9, <2>10 DEF failed, At
    <3> QED  BY <1>1, <1>2, <1>3, <2>4, <2>6, <2>7, <2>10, <3>1, FailedKeeps
  <2>11. CASE goto(c, "publish_done") /\ UNCHANGED got
    <3>1. RevealsStay
      BY <2>9, <2>11 DEF At
    <3>2. Only(c) /\ Calls' /\ pc'[c] = "publish_done"
      BY <1>1, <2>8, <2>11 DEF Only, Calls, IInv, Shape, At
    <3>3. Shape'
      BY <1>1, <1>2, <2>4, <3>2 DEF IInv, Shape
    <3>4. JobsGood' /\ StampsGood' /\ ConfirmedGood'
      BY <1>1, <2>6, StoreStays
    <3>5. RowGood(c)' /\ GotGood(c)'
      <4>1. \A q : GoodRow(q) => GoodRow(q)'
        BY <2>6, RowStays
      <4>2. GoodRow(row[c]) /\ row[c].state \in Due
            /\ \A r \in todo[c] : GoodRow(r) /\ unfinished(r)
        BY <1>1 DEF IInv, RowGood, Working
      <4>3. RowGood(c)'
        BY <1>1, <3>2, <4>1, <4>2
        DEF RowGood, Working, Publishing, Confirming, unfinished
      <4>4. intent(row[c])' = intent(row[c])
        BY <1>1 DEF intent
      <4>5. GotGood(c)'
        BY <1>3, <2>2, <2>4, <2>11, <3>2, <4>4 DEF GotGood
      <4> QED  BY <4>3, <4>5
    <3> QED  BY <2>6, <2>7, <3>1, <3>2, <3>3, <3>4, <3>5, CallStep
  <2> QED  BY <1>5, <2>10, <2>11 DEF SendReveal
<1> QED  BY <1>4, <1>5 DEF SendReveal

LEMMA LandKeeps ==
  ASSUME IInv, NEW sig \in DOMAIN Burn, Land(sig)
  PROVE  IInv'
<1>1. /\ landed' = landed \cup {sig}
      /\ UNCHANGED <<jobs, stamps, pairs, pc, todo, row, got, requests, faults>>
  BY DEF Land, store, caller, budget
<1>2. Grows
  BY <1>1 DEF Grows, Same, Settled, JobId
<1>3. PairsGood'
  <2>1. \A x : burnsOf(x) # {} => burnsOf(x)' # {}
    BY <1>1, BurnsStay
  <2> QED  BY <1>1, <2>1 DEF PairsGood, IInv
<1>4. Shape'
  BY <1>1 DEF IInv, Shape, Calls
<1>5. RevealsStay
  BY <1>1 DEF RevealsStay, IInv, GotGood
<1> QED  BY <1>1, <1>2, <1>3, <1>4, <1>5, ChainStep

\* What blocks, reorganisations and expiries have in common: depths change.
LEMMA DepthStep ==
  ASSUME IInv, UNCHANGED <<landed, jobs, stamps, pc, todo, row, got>>,
         DOMAIN pairs' = DOMAIN pairs, pairs' \in Seq(Pair),
         \A i \in DOMAIN pairs :
           /\ pairs'[i].payload = pairs[i].payload /\ pairs'[i].value = pairs[i].value
           /\ pairs'[i].reveal <= pairs'[i].commit
           /\ pairs[i].commit = Dropped => pairs'[i].commit = Dropped
           /\ pairs[i].reveal = Unsent =>
                pairs'[i].reveal = Unsent \/ pairs'[i].commit = Dropped
           /\ ReorgsAreShallow /\ pairs[i].reveal = MinConfirms
                => pairs'[i].reveal = MinConfirms,
         requests' \in 0 .. MaxRequests, faults' \in 0 .. MaxFaults
  PROVE  IInv'
<1>1. Grows
  BY DEF Grows, Same, Settled, JobId
<1>2. PairsGood'
  <2>1. \A x : burnsOf(x)' = burnsOf(x)
    BY DEF burnsOf, fetchBurns
  <2> QED  BY <2>1 DEF PairsGood, IInv
<1>3. Shape'
  BY DEF IInv, Shape, Calls
<1>4. RevealsStay
  BY DEF RevealsStay, IInv, GotGood
<1> QED  BY <1>1, <1>2, <1>3, <1>4, ChainStep

LEMMA BlockKeeps ==
  ASSUME IInv, Block
  PROVE  IInv'
<1>1. /\ pairs' = [i \in DOMAIN pairs |->
           [pairs[i] EXCEPT !.commit = deeper(@), !.reveal = deeper(@)]]
      /\ UNCHANGED <<landed, jobs, stamps, pc, todo, row, got, requests, faults>>
  BY DEF Block, store, caller, budget
<1>2. \A d \in Depth : /\ deeper(d) \in Depth /\ (d = Dropped <=> deeper(d) = Dropped)
                       /\ (d = Unsent <=> deeper(d) = Unsent)
                       /\ d = MinConfirms => deeper(d) = MinConfirms
                       /\ \A e \in Depth : d <= e => deeper(d) <= deeper(e)
  BY LiveJobsAssumption DEF deeper, Depth, Unsent, Dropped, Mempool
<1>3. pairs \in Seq(Pair) /\ DOMAIN pairs' = DOMAIN pairs
  BY <1>1 DEF IInv, Shape
<1>4. ASSUME NEW i \in DOMAIN pairs
      PROVE  /\ pairs'[i] \in Pair
             /\ pairs'[i].payload = pairs[i].payload /\ pairs'[i].value = pairs[i].value
             /\ pairs'[i].commit = deeper(pairs[i].commit)
             /\ pairs'[i].reveal = deeper(pairs[i].reveal)
  <2>1. /\ pairs[i] \in Pair /\ pairs[i].commit \in Depth \ {Unsent}
        /\ pairs[i].reveal \in Depth
    BY <1>3, PairFields
  <2>2. /\ deeper(pairs[i].commit) \in Depth \ {Unsent}
        /\ deeper(pairs[i].reveal) \in Depth
    BY <1>2, <2>1
  <2>3. pairs'[i] = [pairs[i] EXCEPT !.commit = deeper(@), !.reveal = deeper(@)]
    BY <1>1
  <2> QED  BY <2>1, <2>2, <2>3 DEF Pair
<1>5. pairs' \in Seq(Pair)
  <2>1. Len(pairs) \in Nat /\ DOMAIN pairs = 1 .. Len(pairs)
    BY <1>3
  <2>2. pairs' \in [1 .. Len(pairs) -> Pair]
    BY <1>1, <1>4, <2>1, Zenon
  <2> QED  BY <2>1, <2>2
<1>6. ASSUME NEW i \in DOMAIN pairs
      PROVE  /\ pairs'[i].reveal <= pairs'[i].commit
             /\ pairs[i].commit = Dropped => pairs'[i].commit = Dropped
             /\ pairs[i].reveal = Unsent => pairs'[i].reveal = Unsent
             /\ pairs[i].reveal = MinConfirms => pairs'[i].reveal = MinConfirms
  <2>1. pairs[i].commit \in Depth /\ pairs[i].reveal \in Depth
        /\ pairs[i].reveal <= pairs[i].commit
    BY <1>3, PairFields DEF IInv, PairsGood
  <2> QED  BY <1>2, <1>4, <2>1
<1>7. requests' \in 0 .. MaxRequests /\ faults' \in 0 .. MaxFaults
  BY <1>1 DEF IInv, Shape
<1> QED  BY <1>1, <1>3, <1>4, <1>5, <1>6, <1>7, DepthStep

LEMMA ReorgKeeps ==
  ASSUME IInv, Reorg
  PROVE  IInv'
<1> DEFINE back(d) == IF d = 1 THEN Mempool ELSE d
<1>1. /\ pairs' = [i \in DOMAIN pairs |->
           [pairs[i] EXCEPT !.commit = back(@), !.reveal = back(@)]]
      /\ UNCHANGED <<landed, jobs, stamps, pc, todo, row, got>>
  BY DEF Reorg, store, caller
<1>2. \A d \in Depth : /\ back(d) \in Depth /\ (d = Dropped <=> back(d) = Dropped)
                       /\ (d = Unsent <=> back(d) = Unsent)
                       /\ ReorgsAreShallow /\ d = MinConfirms => back(d) = MinConfirms
                       /\ \A e \in Depth : d <= e => back(d) <= back(e)
  BY LiveJobsAssumption DEF Depth, Unsent, Dropped, Mempool, ReorgsAreShallow
<1> HIDE DEF back
<1>3. pairs \in Seq(Pair) /\ DOMAIN pairs' = DOMAIN pairs
  BY <1>1 DEF IInv, Shape
<1>4. ASSUME NEW i \in DOMAIN pairs
      PROVE  /\ pairs'[i] \in Pair
             /\ pairs'[i].payload = pairs[i].payload /\ pairs'[i].value = pairs[i].value
             /\ pairs'[i].commit = back(pairs[i].commit)
             /\ pairs'[i].reveal = back(pairs[i].reveal)
  <2>1. /\ pairs[i] \in Pair /\ pairs[i].commit \in Depth \ {Unsent}
        /\ pairs[i].reveal \in Depth
    BY <1>3, PairFields
  <2>2. back(pairs[i].commit) \in Depth \ {Unsent} /\ back(pairs[i].reveal) \in Depth
    BY <1>2, <2>1
  <2>3. pairs'[i] = [pairs[i] EXCEPT !.commit = back(@), !.reveal = back(@)]
    BY <1>1
  <2> QED  BY <2>1, <2>2, <2>3 DEF Pair
<1>5. pairs' \in Seq(Pair)
  <2>1. Len(pairs) \in Nat /\ DOMAIN pairs = 1 .. Len(pairs)
    BY <1>3
  <2>2. pairs' \in [1 .. Len(pairs) -> Pair]
    BY <1>1, <1>4, <2>1, Zenon
  <2> QED  BY <2>1, <2>2
<1>6. ASSUME NEW i \in DOMAIN pairs
      PROVE  /\ pairs'[i].reveal <= pairs'[i].commit
             /\ pairs[i].commit = Dropped => pairs'[i].commit = Dropped
             /\ pairs[i].reveal = Unsent => pairs'[i].reveal = Unsent
             /\ ReorgsAreShallow /\ pairs[i].reveal = MinConfirms
                  => pairs'[i].reveal = MinConfirms
  <2>1. pairs[i].commit \in Depth /\ pairs[i].reveal \in Depth
        /\ pairs[i].reveal <= pairs[i].commit
    BY <1>3, PairFields DEF IInv, PairsGood
  <2> QED  BY <1>2, <1>4, <2>1
<1>7. requests' \in 0 .. MaxRequests /\ faults' \in 0 .. MaxFaults
  <2>1. fault
    BY DEF Reorg
  <2> QED  BY <2>1, LiveJobsAssumption DEF fault, IInv, Shape
<1> QED  BY <1>1, <1>3, <1>4, <1>5, <1>6, <1>7, DepthStep

LEMMA ExpireKeeps ==
  ASSUME IInv, NEW i \in DOMAIN pairs, Expire(i)
  PROVE  IInv'
<1>1. UNCHANGED <<landed, jobs, stamps, pc, todo, row, got>>
  BY DEF Expire, store, caller
<1>2. requests' \in 0 .. MaxRequests /\ faults' \in 0 .. MaxFaults
  BY LiveJobsAssumption DEF Expire, fault, IInv, Shape
<1>3. /\ pairs \in Seq(Pair) /\ pairs[i] \in Pair
      /\ pairs[i].reveal <= pairs[i].commit
      /\ pairs[i].commit \in Depth \ {Unsent} /\ pairs[i].reveal \in Depth
  <2>1. pairs \in Seq(Pair)
    BY DEF IInv, Shape
  <2> QED  BY <2>1, PairFields DEF IInv, PairsGood
<1>4. Dropped \in Depth \ {Unsent}
  BY LiveJobsAssumption DEF Depth, Dropped, Unsent
<1>5. PICK p \in Pair :
        /\ pairs' = [pairs EXCEPT ![i] = p]
        /\ p.payload = pairs[i].payload /\ p.value = pairs[i].value
        /\ p.reveal <= p.commit
        /\ pairs[i].commit = Dropped => p.commit = Dropped
        /\ pairs[i].reveal = Unsent => p.reveal = Unsent \/ p.commit = Dropped
        /\ pairs[i].reveal # MinConfirms
  <2>1. CASE /\ pairs[i].commit = Mempool
             /\ pairs' = [pairs EXCEPT ![i].commit = Dropped, ![i].reveal = Dropped]
    <3> DEFINE p == [pairs[i] EXCEPT !.commit = Dropped, !.reveal = Dropped]
    <3>1. pairs' = [pairs EXCEPT ![i] = p]
      BY <2>1
    <3>2. /\ p \in Pair /\ p.payload = pairs[i].payload /\ p.value = pairs[i].value
          /\ p.commit = Dropped /\ p.reveal = Dropped
      BY <1>3, <1>4 DEF Pair
    <3>3. pairs[i].reveal # MinConfirms
      BY <1>3, <2>1, LiveJobsAssumption DEF Mempool
    <3> HIDE DEF p
    <3>4. p \in Pair
      BY <3>2
    <3> WITNESS p \in Pair
    <3> QED  BY <3>1, <3>2, <3>3 DEF Dropped
  <2>2. CASE /\ pairs[i].commit # Mempool /\ pairs[i].reveal = Mempool
             /\ pairs' = [pairs EXCEPT ![i].reveal = Dropped]
    <3> DEFINE p == [pairs[i] EXCEPT !.reveal = Dropped]
    <3>1. pairs' = [pairs EXCEPT ![i] = p]
      BY <2>2
    <3>2. /\ p \in Pair /\ p.payload = pairs[i].payload /\ p.value = pairs[i].value
          /\ p.commit = pairs[i].commit /\ p.reveal = Dropped
      BY <1>3, <1>4 DEF Pair
    <3>3. pairs[i].commit >= 0 /\ pairs[i].commit \in Int
      BY <1>3, <2>2, LiveJobsAssumption DEF Mempool, Depth, Unsent
    <3>4. pairs[i].reveal # MinConfirms /\ pairs[i].reveal # Unsent
      BY <2>2, LiveJobsAssumption DEF Mempool, Unsent
    <3> HIDE DEF p
    <3>5. p \in Pair
      BY <3>2
    <3>6. p.reveal <= p.commit
      BY <3>2, <3>3 DEF Dropped
    <3> WITNESS p \in Pair
    <3> QED  BY <2>2, <3>1, <3>2, <3>4, <3>6
  <2> QED  BY <2>1, <2>2 DEF Expire
<1>6. /\ pairs' \in Seq(Pair) /\ DOMAIN pairs' = DOMAIN pairs /\ pairs'[i] = p
      /\ \A j \in DOMAIN pairs \ {i} : pairs'[j] = pairs[j]
  BY <1>3, <1>5
<1>7. ASSUME NEW j \in DOMAIN pairs
      PROVE  /\ pairs'[j].payload = pairs[j].payload /\ pairs'[j].value = pairs[j].value
             /\ pairs'[j].reveal <= pairs'[j].commit
             /\ pairs[j].commit = Dropped => pairs'[j].commit = Dropped
             /\ pairs[j].reveal = Unsent =>
                  pairs'[j].reveal = Unsent \/ pairs'[j].commit = Dropped
             /\ pairs[j].reveal = MinConfirms => pairs'[j].reveal = MinConfirms
  <2>1. CASE j = i
    BY <1>5, <1>6, <2>1
  <2>2. CASE j # i
    <3>1. pairs[j].reveal <= pairs[j].commit
      BY DEF IInv, PairsGood
    <3> QED  BY <1>6, <2>2, <3>1
  <2> QED  BY <2>1, <2>2
<1> QED  BY <1>1, <1>2, <1>6, <1>7, DepthStep

----------------------------------------------------------------------------
(* The invariant, and the theorems *)

LEMMA InitIInv == Init => IInv
<1> SUFFICES ASSUME Init PROVE IInv
  OBVIOUS
<1>1. /\ landed = {} /\ jobs = << >> /\ stamps = << >> /\ pairs = << >>
      /\ pc = [c \in Caller |-> "idle"] /\ todo = [c \in Caller |-> {}]
      /\ row = [c \in Caller |-> Absent] /\ got = [c \in Caller |-> Absent]
      /\ requests = 0 /\ faults = 0
  BY DEF Init
<1>2. Shape
  BY <1>1, LiveJobsAssumption DEF Shape, Calls, At
<1>3. JobId = {} /\ DOMAIN pairs = {}
  BY <1>1 DEF JobId
<1>4. JobsGood /\ PairsGood /\ StampsGood /\ ConfirmedGood
  BY <1>3 DEF JobsGood, PairsGood, StampsGood, ConfirmedGood
<1>5. Exclusive /\ \A c \in Caller : RowGood(c) /\ GotGood(c)
  BY <1>1 DEF Exclusive, RowGood, GotGood, Working, Publishing, Confirming
<1> QED  BY <1>2, <1>4, <1>5 DEF IInv

LEMMA StutterIInv ==
  ASSUME IInv, UNCHANGED vars
  PROVE  IInv'
<1>1. UNCHANGED <<landed, jobs, stamps, pairs, pc, todo, row, got, requests, faults>>
  BY DEF vars
<1>2. Grows
  BY <1>1, Still
<1>3. Shape'
  BY <1>1 DEF IInv, Shape, Calls
<1>4. PairsGood' /\ RevealsStay
  BY <1>1 DEF PairsGood, RevealsStay, IInv, GotGood, burnsOf, fetchBurns
<1> QED  BY <1>1, <1>2, <1>3, <1>4, ChainStep

LEMMA NextIInv == IInv /\ [Next]_vars => IInv'
<1> SUFFICES ASSUME IInv, [Next]_vars PROVE IInv'
  OBVIOUS
<1>1. ASSUME NEW c \in Caller, Step(c)  PROVE IInv'
  <2>1. CASE InsertJob(c)
    BY <2>1, InsertJobKeeps
  <2>2. CASE ListJobs(c)
    BY <2>2, ListJobsKeeps
  <2>3. CASE CheckBurn(c)
    BY <2>3, CheckBurnKeeps
  <2>4. CASE ChooseCoins(c)
    BY <2>4, ChooseCoinsKeeps
  <2>5. CASE SendCommit(c)
    BY <2>5, SendCommitKeeps
  <2>6. CASE SendReveal(c)
    BY <2>6, SendRevealKeeps
  <2>7. CASE SavePublication(c)
    BY <2>7, SavePublicationKeeps
  <2>8. CASE Look(c)
    BY <2>8, LookKeeps
  <2>9. CASE AwaitConfirmation(c)
    BY <2>9, AwaitConfirmationKeeps
  <2>10. CASE FileStamp(c)
    BY <2>10, FileStampKeeps
  <2>11. CASE ConfirmJob(c)
    BY <2>11, ConfirmJobKeeps
  <2> QED  BY <1>1, <2>1, <2>2, <2>3, <2>4, <2>5, <2>6, <2>7, <2>8, <2>9, <2>10, <2>11
           DEF Step
<1>2. ASSUME NEW c \in Caller, CheckBurnThrows(c) \/ Crash(c)  PROVE IInv'
  BY <1>2, EndsKeep
<1>3. ASSUME NEW c \in Caller, NEW s \in Submission, Submit(c, s)  PROVE IInv'
  BY <1>3, SubmitKeeps
<1>4. ASSUME NEW sig \in DOMAIN Burn, Land(sig)  PROVE IInv'
  BY <1>4, LandKeeps
<1>5. CASE Block
  BY <1>5, BlockKeeps
<1>6. CASE Reorg
  BY <1>6, ReorgKeeps
<1>7. ASSUME NEW i \in DOMAIN pairs, Expire(i)  PROVE IInv'
  BY <1>7, ExpireKeeps
<1>8. CASE UNCHANGED vars
  BY <1>8, StutterIInv
<1> QED  BY <1>1, <1>2, <1>3, <1>4, <1>5, <1>6, <1>7, <1>8 DEF Next

THEOREM Invariance == Spec => []IInv
<1> QED  BY InitIInv, NextIInv, PTL DEF Spec

\* The publisher never pays to inscribe a burn that is not final, is of another
\* amount or whose memo does not name the destination, whichever copy of the
\* job's row a call publishes from (src/lib/jobs/live.ts:86-160).
THEOREM InscribedIsBurned == Spec => []InscribedWasBurned
<1>1. IInv => InscribedWasBurned
  BY DEF IInv, PairsGood, InscribedWasBurned
<1> QED  BY <1>1, Invariance, PTL

\* A job is refused for what its burn is: the catch around the publisher and
\* every crash leave it to be tried again (src/lib/jobs/live.ts:92-149).
THEOREM RefusalsHaveCause == Spec => []RejectedForCause
<1>1. IInv => RejectedForCause
  BY DEF IInv, JobsGood, RejectedForCause
<1> QED  BY <1>1, Invariance, PTL

\* The row of a job is well formed wherever it is: what follows from the
\* invariant whatever reorganisations do.
LEMMA TypeHolds == IInv => TypeOK
<1> SUFFICES ASSUME IInv PROVE TypeOK
  OBVIOUS
<1>1. /\ landed \subseteq DOMAIN Burn
      /\ jobs \in Seq(JobRow) /\ stamps \in Seq(StampRow \cup {Absent})
      /\ DOMAIN stamps = JobId /\ pairs \in Seq(Pair) /\ pc \in [Caller -> At]
      /\ requests \in 0 .. MaxRequests /\ faults \in 0 .. MaxFaults
  BY DEF IInv, Shape, Calls, JobId
<1>2. ASSUME NEW id \in JobId
      PROVE  /\ jobs[id].id = id
             /\ jobs[id].state \notin {"burn_submitted", "rejected"}
                  => jobs[id].commitment # Absent
             /\ jobs[id].state = "zcash_confirmation_pending"
                  => jobs[id].zcashTx \in DOMAIN pairs
  <2>1. jobs[id].id = id /\ GoodRow(jobs[id])
    BY DEF IInv, JobsGood
  <2>2. jobs[id] \in JobRow
    BY <2>1 DEF GoodRow
  <2>3. intent(jobs[id]) # Absent
    <3>1. intent(jobs[id]) \in Issuance
      BY <2>2 DEF intent, Issuance, JobRow
    <3> QED  BY <3>1, AbsentAssumption
  <2>4. jobs[id].state \notin {"burn_submitted", "rejected"} => jobs[id].state \in Checked
    BY <2>2 DEF JobRow, JobState, Checked, Due, Finished
  <2> QED  BY <2>1, <2>3, <2>4 DEF GoodRow, Named
<1>3. \A c \in Caller :
        pc[c] \in At /\ (pc[c] \in {"check", "coins", "look"} => row[c].id \in JobId)
  BY <1>1 DEF IInv, RowGood, GoodRow, Working, Publishing, Confirming
<1> QED  BY <1>1, <1>2, <1>3 DEF TypeOK

\* Where reorganisations are shallower than MinConfirms, the two rows of a
\* finished job, stored one after the other by calls that may die in between
\* and work beside each other, agree with each other and with the chain
\* (src/lib/jobs/live.ts:57-75, 162-191).
THEOREM RowsAgree ==
  ASSUME ReorgsAreShallow
  PROVE  Spec => []JobsAndStampsAgree
<1>1. IInv => JobsAndStampsAgree
  <2> SUFFICES ASSUME IInv PROVE JobsAndStampsAgree
    OBVIOUS
  <2>1. \A i \in DOMAIN pairs : pairs[i].reveal = MinConfirms => mined(pairs[i].reveal)
    BY LiveJobsAssumption DEF mined
  <2>2. StampIsInscribed
    BY <2>1 DEF StampIsInscribed, IInv, StampsGood, Settled
  <2>3. ConfirmedHasStamp
    <3> SUFFICES ASSUME NEW id \in JobId, jobs[id].state = "confirmed"
                 PROVE  /\ stamps[id] # Absent
                        /\ mined(pairs[jobs[id].zcashTx].reveal)
                        /\ pairs[jobs[id].zcashTx].payload = stamps[id].id
      BY DEF ConfirmedHasStamp
    <3>1. stamps[id] # Absent /\ Settled(jobs[id].zcashTx)
      BY DEF IInv, ConfirmedGood
    <3>2. pairs[jobs[id].zcashTx].payload = intent(jobs[id])
      BY DEF IInv, JobsGood, GoodRow, Named
    <3>3. stamps[id].id = intent(jobs[id])
      BY <3>1 DEF IInv, StampsGood
    <3> QED  BY <2>1, <3>1, <3>2, <3>3 DEF Settled
  <2> QED  BY <2>2, <2>3, TypeHolds DEF JobsAndStampsAgree
<1> QED  BY <1>1, Invariance, PTL
=============================================================================
