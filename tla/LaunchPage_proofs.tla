------------------------- MODULE LaunchPage_proofs -------------------------
(***************************************************************************)
(* Proofs about launching, for every number of mints, swaps, burns, faults *)
(* and page functions under way at once: rows and the mints they name come *)
(* together (RowsAlwaysFit), what a view fills in has succeeded            *)
(* (FilledInTxSucceeded), and burns stay in sight (BurnsStayInSight).      *)
(*                                                                         *)
(* A launch transaction travels from the server through a reply to the     *)
(* page, to Phantom, into the pool and onto the chain.  The invariant says *)
(* of every launch transaction, wherever it is, that its mint has a row in *)
(* a store that lasts (Backed); no row is ever taken back there, and an    *)
(* ephemeral store never lets one be made.  For that to be inductive,      *)
(* replies must be those of the call that waits for them (Queue).          *)
(***************************************************************************)
EXTENDS LaunchPage, WellFoundedInduction, TLAPS

(* ----------------------------- the invariant --------------------------- *)

SeenOf(L) == {L[i] : i \in DOMAIN L}
Seen == SeenOf(landed)
Named == {m \in Mint : rows[m] # None}
Success(tx) == [tx |-> tx, ok |-> TRUE]

\* A launch in mainnet mode has its row, in a store that lasts.
Backed(tx, md, kp, R) == md = "mainnet" /\ tx.kind = "launch" => kp /\ tx.mint \in R

Requests == [id : Task \cup {0},
             op : {"prepare", "balance", "confirm", "burnPrepare", "convert", "demoLaunch", "hydrate"},
             at : {"read", "build", "record", "write"},
             mint : Nat, tx : Transactions \cup {None}, amount : Nat]

GoodOp(o, md, kp, S, C) ==
  /\ o \in Requests
  /\ o.op = "demoLaunch" => md # "mainnet" /\ o.amount \in {0, 1}
  /\ o.op \notin {"demoLaunch", "convert"} => md = "mainnet"
  /\ o.op = "prepare" /\ o.at # "read" => kp
  /\ o.op \in {"prepare", "demoLaunch"} /\ o.at = "record" => o.mint \in Mint
  /\ o.op = "demoLaunch" /\ o.at = "record" => Success(launchTx(o.mint)) \in S
  /\ o.op \in {"confirm", "hydrate", "burnPrepare"} => o.mint \in Mint
  /\ o.op = "confirm" /\ o.at = "write" => o.tx = launchTx(o.mint) /\ o.tx \in C
  /\ o.op = "hydrate" => o.id = 0
  /\ o.op = "hydrate" /\ o.at = "write" =>
       o.tx \in Transactions /\ o.tx.mint = o.mint /\ Success(o.tx) \in S

\* What answers a call that waits at this place.
Answers(at, r, md, kp, R) ==
  /\ r \in Replies
  /\ at \in {"prepare", "rebuild"} => r.what \in {"error", "funding", "launch"}
  /\ at = "launching" => r.what \in {"error", "launch"}
  /\ at = "burn" => r.what \in {"error", "burn"}
  /\ r.what = "funding" => r.value \in swaps
  /\ r.what = "launch" => r.value \in launches /\ Backed(r.value, md, kp, R)
  /\ r.what = "burn" => r.value \in burns

Places ==
  {<<"build", "prepare">>, <<"demo", "launching">>, <<"demo", "stamping">>,
   <<"fund", "phantom">>, <<"fund", "poll">>, <<"fund", "rebuild">>,
   <<"launch", "phantom">>, <<"launch", "confirm">>, <<"launch", "burn">>,
   <<"burn", "phantom">>, <<"burn", "record">>}

\* The transaction that its closure holds.
Holds(fn, arg, md, kp, R) ==
  /\ fn = "demo" <=> md # "mainnet"
  /\ fn = "fund" => arg \in swaps
  /\ fn = "launch" => arg \in launches /\ Backed(arg, md, kp, R)
  /\ fn = "burn" => arg \in burns

GoodTask(k, md, kp, R) ==
  /\ k \in Calls /\ <<k.fn, k.at>> \in Places /\ Holds(k.fn, k.arg, md, kp, R)
  /\ k.reply \in {None, Lost} \/ Answers(k.at, k.reply, md, kp, R)

\* The operation that a call at this place has asked for.
Asks == {<<"prepare", "prepare">>, <<"prepare", "rebuild">>, <<"demoLaunch", "launching">>,
         <<"convert", "stamping">>, <<"convert", "record">>, <<"balance", "poll">>,
         <<"confirm", "confirm">>, <<"burnPrepare", "burn">>}
Awaited(o, K) ==
  o.id # 0 => K[o.id] \in Calls /\ K[o.id].reply = None /\ <<o.op, K[o.id].at>> \in Asks

Queue(O, K, md, kp, S, C, R) ==
  /\ K \in [Task -> Calls \cup {None}]
  /\ \A t \in Task : K[t] # None => GoodTask(K[t], md, kp, R)
  /\ \A o \in O : GoodOp(o, md, kp, S, C) /\ Awaited(o, K)
  /\ \A o, p \in O : o.id = p.id /\ o.id # 0 => o = p

\* What is sent is a swap, a launch or a burn that was prepared.
Sound(tx, md, kp, R) == tx \in swaps \cup launches \cup burns /\ Backed(tx, md, kp, R)

Outcomes == [tx : Transactions, ok : BOOLEAN]
World ==
  /\ kept \in BOOLEAN /\ held \in Nat /\ alloc \in [Mint -> {0, 1}]
  /\ built \in [mint : 0 .. MaxMints, swap : 0 .. MaxSwaps, burn : 0 .. MaxBurns]
  /\ \A tx \in pool : Sound(tx, mode, kept, Named)
  /\ landed \in Seq(Outcomes)
  /\ \A s \in Seen : Backed(s.tx, mode, kept, Named)

Rows ==
  /\ rows \in [Mint -> Transactions \cup {None, Blank}]
  /\ \A m \in Mint : rows[m] \in {None, Blank} \/ rows[m].mint = m
  /\ \A m \in Mint : rows[m] \in {None, Blank} \cup confirmed \/ Success(rows[m]) \in Seen
  /\ mode # "mainnet" => \A m \in Mint : rows[m] # None => Success(launchTx(m)) \in Seen

\* What the page shows: a step, a swap, a launch, a burn, and what was sent.
Shows(st, f, l, b, x, md, kp, R) ==
  /\ st \in {"idle", "issuing", "stamping", "building", "approving"}
  /\ f \in swaps \cup {None} /\ l \in launches \cup {None} /\ b \in burns \cup {None}
  /\ md # "mainnet" => f = None /\ l = None /\ b = None
  /\ l # None => Backed(l, md, kp, R)
  /\ x # None => x.launch \in launches \cup {None} /\ x.burn \in burns \cup {None}

Waiting == Queue(ops, tasks, mode, kept, Seen, confirmed, Named)
Screen == Shows(step, funding, preparedLaunch, preparedBurn, sent, mode, kept, Named)

IInv == World /\ Rows /\ Waiting /\ Screen

\* What no step takes back.
Lasts == mode' = mode /\ kept' = kept /\ (mode = "mainnet" /\ kept => Named \subseteq Named')
Grows == Lasts /\ Seen \subseteq Seen' /\ confirmed \subseteq confirmed'

(* ----------------------- requests and their answers -------------------- *)

LEMMA Kinds ==
  /\ swaps \subseteq Transactions /\ launches \subseteq Transactions /\ burns \subseteq Transactions
  /\ \A tx \in swaps : tx.kind = "swap"
  /\ \A tx \in launches : tx.kind = "launch" /\ tx.mint \in Mint /\ tx = launchTx(tx.mint)
  /\ \A tx \in burns : tx.kind = "burn" /\ tx.mint \in Mint
  /\ \A m \in Mint : launchTx(m) \in launches /\ launchTx(m).mint = m /\ m \in Nat
BY LaunchAssumption DEF swaps, launches, burns, Transactions, launchTx, transaction, Mint

LEMMA NotNone ==
  /\ None # Blank /\ None \notin swaps \cup launches \cup burns
  /\ \A k \in Calls : k # None
BY PageAssumption, Kinds

LEMMA BackedStays ==
  ASSUME NEW tx, NEW md, NEW kp, NEW R, NEW R2, Backed(tx, md, kp, R),
         md = "mainnet" /\ kp => R \subseteq R2
  PROVE  Backed(tx, md, kp, R2)
BY DEF Backed

LEMMA TaskStays ==
  ASSUME NEW k, NEW md, NEW kp, NEW R, NEW R2, GoodTask(k, md, kp, R),
         md = "mainnet" /\ kp => R \subseteq R2
  PROVE  GoodTask(k, md, kp, R2)
<1>1. Answers(k.at, k.reply, md, kp, R) => Answers(k.at, k.reply, md, kp, R2)
  BY BackedStays DEF Answers
<1>. QED  BY <1>1, BackedStays DEF GoodTask, Holds

LEMMA OpStays ==
  ASSUME NEW o, NEW md, NEW kp, NEW S, NEW S2, NEW C, NEW C2, GoodOp(o, md, kp, S, C),
         S \subseteq S2, C \subseteq C2
  PROVE  GoodOp(o, md, kp, S2, C2)
BY DEF GoodOp

LEMMA QueueStays ==
  ASSUME NEW O, NEW K, NEW md, NEW kp, NEW S, NEW S2, NEW C, NEW C2, NEW R, NEW R2,
         Queue(O, K, md, kp, S, C, R), S \subseteq S2, C \subseteq C2,
         md = "mainnet" /\ kp => R \subseteq R2
  PROVE  Queue(O, K, md, kp, S2, C2, R2)
BY TaskStays, OpStays DEF Queue

\* An operation takes a step, and waits on.
LEMMA QueueAdvances ==
  ASSUME NEW O, NEW K, NEW md, NEW kp, NEW S, NEW C, NEW R, Queue(O, K, md, kp, S, C, R),
         NEW o \in O, NEW n, GoodOp(n, md, kp, S, C), n.id = o.id, n.op = o.op
  PROVE  Queue((O \ {o}) \cup {n}, K, md, kp, S, C, R)
<1>1. Awaited(n, K)
  BY DEF Queue, Awaited
<1>. QED  BY <1>1 DEF Queue

\* An operation ends, and its call has the answer.
LEMMA QueueFinishes ==
  ASSUME NEW O, NEW K, NEW md, NEW kp, NEW S, NEW C, NEW R, Queue(O, K, md, kp, S, C, R),
         NEW o \in O, NEW r,
         o.id = 0 \/ r \in {None, Lost}
           \/ \A at : <<o.op, at>> \in Asks => Answers(at, r, md, kp, R),
         o.id = 0 \/ r \in Replies \cup {None, Lost}
  PROVE  Queue(O \ {o}, IF o.id = 0 THEN K ELSE [K EXCEPT ![o.id].reply = r], md, kp, S, C, R)
<1>1. CASE o.id = 0
  BY <1>1 DEF Queue
<1>2. CASE o.id # 0
  <2>. PICK t : t = o.id
    OBVIOUS
  <2>1. t \in Task /\ K[t] \in Calls /\ K[t].reply = None /\ <<o.op, K[t].at>> \in Asks
    BY <1>2 DEF Queue, Awaited, GoodOp, Requests
  <2>2. GoodTask(K[t], md, kp, R)
    BY <2>1, NotNone DEF Queue
  <2>. PICK k : k = [K[t] EXCEPT !.reply = r]
    OBVIOUS
  <2>3. /\ k \in Calls /\ k.fn = K[t].fn /\ k.at = K[t].at /\ k.arg = K[t].arg /\ k.reply = r
    BY <1>2, <2>1 DEF Calls
  <2>4. GoodTask(k, md, kp, R)
    BY <1>2, <2>1, <2>2, <2>3 DEF GoodTask
  <2>. PICK L : L = [K EXCEPT ![t].reply = r]
    OBVIOUS
  <2>5. L \in [Task -> Calls \cup {None}] /\ L[t] = k /\ \A u \in Task : u # t => L[u] = K[u]
    BY <2>1, <2>3 DEF Queue
  <2>6. ASSUME NEW p \in O \ {o} PROVE Awaited(p, L)
    <3>1. Awaited(p, K) /\ p.id \in Task \cup {0} /\ p.id # t
      BY <1>2 DEF Queue, GoodOp, Requests
    <3>. QED  BY <2>5, <3>1 DEF Awaited
  <2>7. Queue(O \ {o}, L, md, kp, S, C, R)
    BY <2>4, <2>5, <2>6 DEF Queue
  <2>. QED  BY <1>2, <2>7
<1>. QED  BY <1>1, <1>2

\* A call that has its answer, or asks Phantom, waits for no operation.
Free(t, O) == \A o \in O : o.id # t
LEMMA NothingAwaited ==
  ASSUME NEW O, NEW K, NEW md, NEW kp, NEW S, NEW C, NEW R, Queue(O, K, md, kp, S, C, R),
         NEW t \in Task, K[t] = None \/ K[t].reply # None \/ K[t].at = "phantom"
  PROVE  Free(t, O)
<1>. SUFFICES ASSUME NEW o \in O, o.id = t PROVE FALSE
  BY DEF Free
<1>1. t # 0
  BY LaunchAssumption
<1>2. K[t] \in Calls /\ K[t].reply = None /\ <<o.op, K[t].at>> \in Asks
  BY <1>1 DEF Queue, Awaited
<1>. QED  BY <1>2, NotNone DEF Asks

\* A call goes on by itself, or ends.
LEMMA QueueGoesOn ==
  ASSUME NEW O, NEW K, NEW md, NEW kp, NEW S, NEW C, NEW R, Queue(O, K, md, kp, S, C, R),
         NEW t \in Task, Free(t, O), NEW k, k = None \/ GoodTask(k, md, kp, R)
  PROVE  Queue(O, [K EXCEPT ![t] = k], md, kp, S, C, R)
<1>. PICK L : L = [K EXCEPT ![t] = k]
  OBVIOUS
<1>1. L \in [Task -> Calls \cup {None}] /\ L[t] = k /\ \A u \in Task : u # t => L[u] = K[u]
  BY DEF Queue, GoodTask
<1>2. ASSUME NEW p \in O PROVE Awaited(p, L)
  <2>1. Awaited(p, K) /\ p.id \in Task \cup {0} /\ p.id # t
    BY DEF Queue, GoodOp, Requests, Free
  <2>. QED  BY <1>1, <2>1 DEF Awaited
<1>3. Queue(O, L, md, kp, S, C, R)
  BY <1>1, <1>2 DEF Queue
<1>. QED  BY <1>3

\* A call asks the server.
LEMMA QueueFetches ==
  ASSUME NEW O, NEW K, NEW md, NEW kp, NEW S, NEW C, NEW R, Queue(O, K, md, kp, S, C, R),
         NEW t \in Task, Free(t, O),
         NEW k, k.reply = None, GoodTask(k, md, kp, R),
         NEW o, GoodOp(o, md, kp, S, C), o.id = t, <<o.op, k.at>> \in Asks
  PROVE  Queue(O \cup {o}, [K EXCEPT ![t] = k], md, kp, S, C, R)
<1>. PICK L : L = [K EXCEPT ![t] = k]
  OBVIOUS
<1>1. Queue(O, L, md, kp, S, C, R)
  BY QueueGoesOn
<1>2. L[t] = k
  BY DEF Queue
<1>3. Awaited(o, L)
  BY <1>2 DEF Awaited, GoodTask
<1>4. Queue(O \cup {o}, L, md, kp, S, C, R)
  BY <1>1, <1>3 DEF Queue, Free
<1>. QED  BY <1>4

(* ------------------------------ what stays ----------------------------- *)

LEMMA ScreenStays ==
  ASSUME Screen, Lasts, UNCHANGED page
  PROVE  Screen'
<1>1. Shows(step, funding, preparedLaunch, preparedBurn, sent, mode, kept, Named')
  BY BackedStays DEF Screen, Shows, Lasts
<1>. QED  BY <1>1 DEF Screen, Lasts, page

LEMMA WaitingStays ==
  ASSUME Waiting, Grows
  PROVE  Queue(ops, tasks, mode', kept', Seen', confirmed', Named')
<1>1. Queue(ops, tasks, mode, kept, Seen', confirmed', Named')
  BY QueueStays DEF Waiting, Grows, Lasts
<1>. QED  BY <1>1 DEF Grows, Lasts

LEMMA Advanced ==
  ASSUME Waiting, Grows, NEW o \in ops, NEW n, advance(o, n),
         GoodOp(n, mode', kept', Seen', confirmed'), n.id = o.id, n.op = o.op
  PROVE  Waiting'
<1>1. Queue(ops, tasks, mode', kept', Seen', confirmed', Named')
  BY WaitingStays
<1>2. Queue((ops \ {o}) \cup {n}, tasks, mode', kept', Seen', confirmed', Named')
  BY ONLY <1>1, QueueAdvances, o \in ops, GoodOp(n, mode', kept', Seen', confirmed'),
          n.id = o.id, n.op = o.op
<1>. QED  BY <1>2 DEF advance, Waiting

Answered(o, r, md, kp, R) ==
  \/ o.id = 0
  \/ r \in {None, Lost}
  \/ r \in Replies /\ \A at : <<o.op, at>> \in Asks => Answers(at, r, md, kp, R)

LEMMA Finished ==
  ASSUME Waiting, Grows, NEW o \in ops, NEW r, finish(o, r),
         Answered(o, r, mode', kept', Named')
  PROVE  Waiting'
<1>1. Queue(ops, tasks, mode', kept', Seen', confirmed', Named')
  BY WaitingStays
<1>2. Queue(ops \ {o}, IF o.id = 0 THEN tasks ELSE [tasks EXCEPT ![o.id].reply = r],
            mode', kept', Seen', confirmed', Named')
  BY ONLY <1>1, QueueFinishes, o \in ops, Answered(o, r, mode', kept', Named') DEF Answered
<1>. QED  BY <1>2 DEF finish, Waiting

\* What the kinds of answers may be.
LEMMA RefusalAnswers ==
  ASSUME NEW o, NEW md, NEW kp, NEW R
  PROVE  Answered(o, refusal, md, kp, R)
BY DEF Answered, Answers, refusal, reply, Replies

LEMMA PlainAnswers ==
  ASSUME NEW o, NEW md, NEW kp, NEW R, NEW what \in {"balance", "ok", "job"},
         NEW v \in Transactions \cup Nat \cup {None},
         o.op \in {"balance", "confirm", "convert"}
  PROVE  Answered(o, reply(what, v), md, kp, R)
BY DEF Answered, Answers, reply, Replies, Asks

LEMMA FundingAnswers ==
  ASSUME NEW o, NEW md, NEW kp, NEW R, NEW tx \in swaps, o.op = "prepare"
  PROVE  Answered(o, reply("funding", tx), md, kp, R)
BY Kinds DEF Answered, Answers, reply, Replies, Asks

LEMMA LaunchAnswers ==
  ASSUME NEW o, NEW md, NEW kp, NEW R, NEW tx \in launches, Backed(tx, md, kp, R),
         o.op \in {"prepare", "demoLaunch"}
  PROVE  Answered(o, reply("launch", tx), md, kp, R)
BY Kinds DEF Answered, Answers, reply, Replies, Asks

LEMMA BurnAnswers ==
  ASSUME NEW o, NEW md, NEW kp, NEW R, NEW tx \in burns, o.op = "burnPrepare"
  PROVE  Answered(o, reply("burn", tx), md, kp, R)
BY Kinds DEF Answered, Answers, reply, Replies, Asks

\* What is appended has been seen.
LEMMA SeenMore ==
  ASSUME NEW X, NEW L \in Seq(X), NEW s \in X
  PROVE  Append(L, s) \in Seq(X) /\ SeenOf(Append(L, s)) = SeenOf(L) \cup {s}
<1>1. /\ Append(L, s) \in Seq(X) /\ Len(Append(L, s)) = Len(L) + 1 /\ Len(L) \in Nat
      /\ \A i \in 1 .. Len(L) : Append(L, s)[i] = L[i]
      /\ Append(L, s)[Len(L) + 1] = s /\ DOMAIN L = 1 .. Len(L)
      /\ DOMAIN Append(L, s) = 1 .. Len(L) + 1
  OBVIOUS
<1>2. 1 .. Len(L) + 1 = 1 .. Len(L) \cup {Len(L) + 1}
  BY <1>1
<1>3. ASSUME NEW x \in SeenOf(Append(L, s)) PROVE x \in SeenOf(L) \cup {s}
  BY <1>1, <1>2, <1>3 DEF SeenOf
<1>4. SeenOf(L) \subseteq SeenOf(Append(L, s)) /\ s \in SeenOf(Append(L, s))
  BY <1>1, <1>2 DEF SeenOf
<1>. QED  BY <1>1, <1>3, <1>4

LEMMA ExistsIsSeen == \A m : exists(m) <=> Success(launchTx(m)) \in Seen
BY DEF exists, Seen, SeenOf, Success

\* Chain and rows as they were, or with the rows grown.
LEMMA WorldStays ==
  ASSUME World, Lasts, UNCHANGED <<held, alloc, pool, landed>>,
         built' \in [mint : 0 .. MaxMints, swap : 0 .. MaxSwaps, burn : 0 .. MaxBurns]
  PROVE  World'
<1>1. Seen' = Seen
  BY DEF Seen
<1>2. /\ \A tx \in pool : Sound(tx, mode, kept, Named')
      /\ \A s \in Seen : Backed(s.tx, mode, kept, Named')
  BY BackedStays DEF World, Sound, Lasts
<1>. QED  BY <1>1, <1>2 DEF World, Lasts

LEMMA RowsStay ==
  ASSUME Rows, UNCHANGED <<mode, rows>>, Seen \subseteq Seen', confirmed \subseteq confirmed'
  PROVE  Rows'
BY DEF Rows

\* One row written.
LEMMA RowWritten ==
  ASSUME Rows, mode' = mode, Seen \subseteq Seen', confirmed \subseteq confirmed',
         NEW m \in Mint, NEW tx \in Transactions \cup {Blank}, rows' = [rows EXCEPT ![m] = tx],
         tx # Blank => tx.mint = m /\ (tx \in confirmed' \/ Success(tx) \in Seen'),
         mode = "mainnet" \/ Success(launchTx(m)) \in Seen'
  PROVE  Rows' /\ Named' = Named \cup {m}
<1>1. /\ rows' \in [Mint -> Transactions \cup {None, Blank}] /\ rows'[m] = tx
      /\ \A n \in Mint : n # m => rows'[n] = rows[n]
  BY DEF Rows
<1>2. tx # None
  BY PageAssumption
<1>. QED  BY <1>1, <1>2 DEF Rows, Named

(* ----------------------------- the requests ---------------------------- *)

LEMMA Together ==
  ASSUME IInv, Lasts, UNCHANGED page, World', Rows', Waiting'
  PROVE  IInv'
BY ScreenStays DEF IInv

\* A step that writes no row, and nothing on chain but to it.
LEMMA QuietStep ==
  ASSUME IInv, UNCHANGED <<mode, kept, chain, rows>>, confirmed \subseteq confirmed',
         built' \in [mint : 0 .. MaxMints, swap : 0 .. MaxSwaps, burn : 0 .. MaxBurns]
  PROVE  Grows /\ World' /\ Rows' /\ Seen' = Seen /\ Named' = Named
<1>1. Seen' = Seen /\ Named' = Named
  BY DEF chain, Seen, Named
<1>2. Grows
  BY <1>1 DEF Grows, Lasts
<1>. QED  BY <1>1, <1>2, WorldStays, RowsStay DEF IInv, Grows, Lasts, chain

LEMMA Bounds ==
  /\ MaxMints \in Nat /\ MaxSwaps \in Nat /\ MaxBurns \in Nat /\ Need \in Nat /\ Need > 0
  /\ Held \subseteq Nat
BY LaunchAssumption

\* One more mint, swap or burn built.
Kinded == [mint : 0 .. MaxMints, swap : 0 .. MaxSwaps, burn : 0 .. MaxBurns]
LEMMA BuildOne ==
  ASSUME NEW B \in Kinded
  PROVE  /\ B.mint \in Nat /\ B.swap \in Nat /\ B.burn \in Nat
         /\ B.mint < MaxMints => [B EXCEPT !.mint = @ + 1] \in Kinded /\ B.mint + 1 \in Mint
         /\ B.swap < MaxSwaps => [B EXCEPT !.swap = @ + 1] \in Kinded /\ B.swap + 1 \in 1 .. MaxSwaps
         /\ B.burn < MaxBurns => [B EXCEPT !.burn = @ + 1] \in Kinded /\ B.burn + 1 \in 1 .. MaxBurns
BY Bounds DEF Kinded, Mint

LEMMA OpIsGood ==
  ASSUME IInv, NEW o \in ops
  PROVE  GoodOp(o, mode, kept, Seen, confirmed) /\ o \in Requests
BY DEF IInv, Waiting, Queue, GoodOp

LEMMA DoRefuse ==
  ASSUME IInv, UNCHANGED page, NEW o \in ops, Refuse(o)
  PROVE  IInv'
<1>1. Grows /\ World' /\ Rows' /\ finish(o, refusal)
  BY QuietStep DEF Refuse, quiet, chain, store, IInv, World
<1>2. Waiting'
  BY <1>1, Finished, RefusalAnswers DEF IInv
<1>. QED  BY <1>1, <1>2, Together DEF Grows

LEMMA DoPrepareRead ==
  ASSUME IInv, UNCHANGED page, NEW o \in ops, PrepareRead(o)
  PROVE  IInv'
<1>0. /\ GoodOp(o, mode, kept, Seen, confirmed) /\ o \in Requests /\ o.op = "prepare" /\ kept
      /\ UNCHANGED <<mode, kept, chain, rows, confirmed>>
  BY OpIsGood DEF PrepareRead, durabilityProblem, store, IInv, World
<1>1. CASE quoteShortfall > 0
  <2>. PICK tx : tx = transaction("swap", 0, built.swap + 1, quoteShortfall)
    OBVIOUS
  <2>1. /\ built' = [built EXCEPT !.swap = @ + 1] /\ built.swap < MaxSwaps
        /\ finish(o, reply("funding", tx))
    BY <1>1 DEF PrepareRead
  <2>2. /\ built' \in [mint : 0 .. MaxMints, swap : 0 .. MaxSwaps, burn : 0 .. MaxBurns]
        /\ tx \in swaps
    <3>1. built \in Kinded /\ held \in Nat
      BY DEF IInv, World, Kinded
    <3>2. built' \in Kinded /\ built.swap + 1 \in 1 .. MaxSwaps
      BY <2>1, <3>1, BuildOne
    <3>3. quoteShortfall \in 1 .. Need
      BY <1>1, <3>1, Bounds DEF quoteShortfall
    <3>4. tx \in swaps
      BY <3>2, <3>3 DEF swaps, transaction
    <3>. QED  BY <3>2, <3>4 DEF Kinded
  <2>3. Grows /\ World' /\ Rows'
    BY <1>0, <2>2, QuietStep
  <2>4. Answered(o, reply("funding", tx), mode', kept', Named')
    BY <1>0, <2>2, FundingAnswers
  <2>5. Waiting'
    BY <2>1, <2>3, <2>4, Finished DEF IInv
  <2>. QED  BY <2>3, <2>5, Together DEF Grows
<1>2. CASE ~(quoteShortfall > 0)
  <2>. PICK n : n = [o EXCEPT !.at = "build"]
    OBVIOUS
  <2>1. built' = built /\ advance(o, n)
    BY <1>2 DEF PrepareRead
  <2>2. Grows /\ World' /\ Rows' /\ Seen' = Seen
    BY <1>0, <2>1, QuietStep DEF IInv, World
  <2>3. /\ n \in Requests /\ n.at = "build" /\ n.id = o.id /\ n.op = o.op /\ n.mint = o.mint
        /\ n.tx = o.tx /\ n.amount = o.amount
    BY <1>0 DEF Requests
  <2>4. GoodOp(n, mode', kept', Seen', confirmed')
    BY <1>0, <2>2, <2>3 DEF GoodOp
  <2>5. Waiting'
    BY <2>1, <2>2, <2>3, <2>4, Advanced DEF IInv
  <2>. QED  BY <2>2, <2>5, Together DEF Grows
<1>. QED  BY <1>1, <1>2

LEMMA DoPrepareBuild ==
  ASSUME IInv, UNCHANGED page, NEW o \in ops, PrepareBuild(o)
  PROVE  IInv'
<1>. PICK n : n = [o EXCEPT !.at = "record", !.mint = built.mint + 1]
  OBVIOUS
<1>0. /\ GoodOp(o, mode, kept, Seen, confirmed) /\ o \in Requests /\ o.op = "prepare" /\ o.at = "build"
      /\ UNCHANGED <<mode, kept, chain, rows, confirmed>>
      /\ built' = [built EXCEPT !.mint = @ + 1] /\ built.mint < MaxMints /\ advance(o, n)
  BY OpIsGood DEF PrepareBuild, store
<1>1. /\ built' \in [mint : 0 .. MaxMints, swap : 0 .. MaxSwaps, burn : 0 .. MaxBurns]
      /\ built.mint + 1 \in Mint /\ built.mint + 1 \in Nat
  <2>1. built \in Kinded
    BY DEF IInv, World, Kinded
  <2>. QED  BY <1>0, <2>1, BuildOne DEF Kinded
<1>2. Grows /\ World' /\ Rows' /\ Seen' = Seen
  BY <1>0, <1>1, QuietStep
<1>3. /\ n \in Requests /\ n.at = "record" /\ n.id = o.id /\ n.op = o.op /\ n.mint = built.mint + 1
      /\ n.tx = o.tx /\ n.amount = o.amount
  BY <1>0, <1>1 DEF Requests
<1>4. GoodOp(n, mode', kept', Seen', confirmed')
  BY <1>0, <1>1, <1>2, <1>3 DEF GoodOp
<1>5. Waiting'
  BY <1>0, <1>2, <1>3, <1>4, Advanced DEF IInv
<1>. QED  BY <1>2, <1>5, Together DEF Grows

\* A step that writes a row and leaves the chain.
LEMMA RowStep ==
  ASSUME IInv, UNCHANGED <<mode, kept, built, chain, confirmed>>,
         NEW m \in Mint, NEW tx \in Transactions \cup {Blank}, rows' = [rows EXCEPT ![m] = tx],
         tx # Blank => tx.mint = m /\ (tx \in confirmed \/ Success(tx) \in Seen),
         mode = "mainnet" \/ Success(launchTx(m)) \in Seen
  PROVE  Grows /\ World' /\ Rows' /\ Named' = Named \cup {m}
<1>1. Seen' = Seen
  BY DEF chain, Seen
<1>2. Rows' /\ Named' = Named \cup {m}
  BY <1>1, RowWritten DEF IInv
<1>3. Grows
  BY <1>1, <1>2 DEF Grows, Lasts
<1>4. World'
  BY <1>3, WorldStays DEF IInv, World, Grows, chain
<1>. QED  BY <1>2, <1>3, <1>4

LEMMA DoPrepareRecord ==
  ASSUME IInv, UNCHANGED page, NEW o \in ops, PrepareRecord(o)
  PROVE  IInv'
<1>0. /\ GoodOp(o, mode, kept, Seen, confirmed) /\ o.op = "prepare" /\ o.at = "record"
      /\ UNCHANGED <<mode, kept, built, chain, confirmed>>
      /\ rows' = [rows EXCEPT ![o.mint] = Blank] /\ finish(o, reply("launch", launchTx(o.mint)))
  BY OpIsGood DEF PrepareRecord
<1>1. o.mint \in Mint /\ mode = "mainnet" /\ kept
  BY <1>0 DEF GoodOp
<1>2. Grows /\ World' /\ Rows' /\ Named' = Named \cup {o.mint}
  BY <1>0, <1>1, RowStep
<1>3. launchTx(o.mint) \in launches /\ Backed(launchTx(o.mint), mode', kept', Named')
  BY <1>0, <1>1, <1>2, Kinds DEF Backed
<1>4. Answered(o, reply("launch", launchTx(o.mint)), mode', kept', Named')
  BY <1>0, <1>3, LaunchAnswers
<1>5. Waiting'
  BY <1>0, <1>2, <1>4, Finished DEF IInv
<1>. QED  BY <1>2, <1>5, Together DEF Grows

LEMMA DoQuoteBalance ==
  ASSUME IInv, UNCHANGED page, NEW o \in ops, QuoteBalance(o)
  PROVE  IInv'
<1>1. Grows /\ World' /\ Rows' /\ finish(o, reply("balance", held)) /\ o.op = "balance"
  BY QuietStep DEF QuoteBalance, quiet, chain, store, IInv, World
<1>2. Answered(o, reply("balance", held), mode', kept', Named')
  BY <1>1, PlainAnswers DEF IInv, World
<1>3. Waiting'
  BY <1>1, <1>2, Finished DEF IInv
<1>. QED  BY <1>1, <1>3, Together DEF Grows

LEMMA DoConfirmRead ==
  ASSUME IInv, UNCHANGED page, NEW o \in ops, ConfirmRead(o)
  PROVE  IInv'
<1>. PICK n : n = [o EXCEPT !.at = "write", !.tx = launchTx(o.mint)]
  OBVIOUS
<1>0. /\ GoodOp(o, mode, kept, Seen, confirmed) /\ o \in Requests
      /\ o.op = "confirm" /\ o.at = "read" /\ UNCHANGED <<mode, kept, built, chain, rows>>
      /\ confirmed' = confirmed \cup {launchTx(o.mint)}
      /\ finish(o, refusal) \/ finish(o, reply("ok", None)) \/ advance(o, n)
  BY OpIsGood DEF ConfirmRead, store
<1>1. Grows /\ World' /\ Rows' /\ Seen' = Seen
  BY <1>0, QuietStep DEF IInv, World
<1>2. CASE finish(o, refusal)
  BY <1>1, <1>2, Finished, RefusalAnswers, Together DEF IInv, Grows
<1>3. CASE finish(o, reply("ok", None))
  <2>1. Answered(o, reply("ok", None), mode', kept', Named')
    BY <1>0, PlainAnswers
  <2>. QED  BY <1>1, <1>3, <2>1, Finished, Together DEF IInv, Grows
<1>4. CASE advance(o, n)
  <2>1. o.mint \in Mint /\ launchTx(o.mint) \in Transactions
    BY <1>0, Kinds DEF GoodOp
  <2>2. /\ n \in Requests /\ n.at = "write" /\ n.id = o.id /\ n.op = o.op /\ n.mint = o.mint
        /\ n.tx = launchTx(o.mint) /\ n.amount = o.amount
    BY <1>0, <2>1 DEF Requests
  <2>3. GoodOp(n, mode', kept', Seen', confirmed')
    BY <1>0, <1>1, <2>1, <2>2 DEF GoodOp
  <2>4. Waiting'
    BY <1>1, <1>4, <2>2, <2>3, Advanced DEF IInv
  <2>. QED  BY <1>1, <2>4, Together DEF Grows
<1>. QED  BY <1>0, <1>2, <1>3, <1>4

LEMMA DoConfirmWrite ==
  ASSUME IInv, UNCHANGED page, NEW o \in ops, ConfirmWrite(o)
  PROVE  IInv'
<1>0. /\ GoodOp(o, mode, kept, Seen, confirmed) /\ o.op = "confirm" /\ o.at = "write"
      /\ UNCHANGED <<mode, kept, built, chain, confirmed>>
      /\ rows' = [rows EXCEPT ![o.mint] = o.tx] /\ finish(o, reply("ok", None))
  BY OpIsGood DEF ConfirmWrite
<1>1. /\ o.mint \in Mint /\ mode = "mainnet" /\ o.tx = launchTx(o.mint) /\ o.tx \in confirmed
      /\ o.tx \in Transactions /\ o.tx.mint = o.mint
  BY <1>0, Kinds DEF GoodOp
<1>2. Grows /\ World' /\ Rows'
  BY <1>0, <1>1, RowStep
<1>3. Answered(o, reply("ok", None), mode', kept', Named')
  BY <1>0, PlainAnswers
<1>4. Waiting'
  BY <1>0, <1>2, <1>3, Finished DEF IInv
<1>. QED  BY <1>2, <1>4, Together DEF Grows

LEMMA DoBurnPrepare ==
  ASSUME IInv, UNCHANGED page, NEW o \in ops, BurnPrepare(o)
  PROVE  IInv'
<1>. PICK tx : tx = transaction("burn", o.mint, built.burn + 1, alloc[o.mint])
  OBVIOUS
<1>0. /\ GoodOp(o, mode, kept, Seen, confirmed) /\ o.op = "burnPrepare"
      /\ UNCHANGED <<mode, kept, chain, rows, confirmed>>
      /\ built' = [built EXCEPT !.burn = @ + 1] /\ built.burn < MaxBurns
      /\ finish(o, reply("burn", tx))
  BY OpIsGood DEF BurnPrepare, store
<1>1. o.mint \in Mint
  BY <1>0 DEF GoodOp
<1>2. /\ built' \in [mint : 0 .. MaxMints, swap : 0 .. MaxSwaps, burn : 0 .. MaxBurns]
      /\ tx \in burns
  <2>1. built \in Kinded /\ alloc[o.mint] \in Nat
    BY <1>1 DEF IInv, World, Kinded
  <2>2. built' \in Kinded /\ built.burn + 1 \in 1 .. MaxBurns
    BY <1>0, <2>1, BuildOne
  <2>. QED  BY <1>1, <2>1, <2>2 DEF Kinded, burns, transaction
<1>3. Grows /\ World' /\ Rows'
  BY <1>0, <1>2, QuietStep
<1>4. Answered(o, reply("burn", tx), mode', kept', Named')
  BY <1>0, <1>2, BurnAnswers
<1>5. Waiting'
  BY <1>0, <1>3, <1>4, Finished DEF IInv
<1>. QED  BY <1>3, <1>5, Together DEF Grows

LEMMA DoConvert ==
  ASSUME IInv, UNCHANGED page, NEW o \in ops, Convert(o)
  PROVE  IInv'
<1>0. /\ o \in Requests /\ o.op = "convert"
      /\ UNCHANGED <<mode, kept, built, chain, rows, confirmed>> /\ finish(o, reply("job", o.tx))
  BY OpIsGood DEF Convert
<1>1. Grows /\ World' /\ Rows'
  BY <1>0, QuietStep DEF IInv, World
<1>2. Answered(o, reply("job", o.tx), mode', kept', Named')
  BY <1>0, PlainAnswers DEF Requests
<1>3. Waiting'
  BY <1>0, <1>1, <1>2, Finished DEF IInv
<1>. QED  BY <1>1, <1>3, Together DEF Grows

LEMMA DoHydrateWrite ==
  ASSUME IInv, UNCHANGED page, NEW o \in ops, HydrateWrite(o)
  PROVE  IInv'
<1>0. /\ GoodOp(o, mode, kept, Seen, confirmed) /\ o.op = "hydrate" /\ o.at = "write"
      /\ UNCHANGED <<mode, kept, built, chain, confirmed>>
      /\ rows' = [rows EXCEPT ![o.mint] = o.tx] /\ finish(o, None)
  BY OpIsGood DEF HydrateWrite
<1>1. /\ o.mint \in Mint /\ mode = "mainnet" /\ o.tx \in Transactions /\ o.tx.mint = o.mint
      /\ Success(o.tx) \in Seen
  BY <1>0 DEF GoodOp
<1>2. Grows /\ World' /\ Rows'
  BY <1>0, <1>1, RowStep
<1>3. Waiting'
  BY <1>0, <1>2, Finished DEF IInv, Answered
<1>. QED  BY <1>2, <1>3, Together DEF Grows

(* ------------------------------- the chain ----------------------------- *)

\* A transaction lands.
LEMMA Lands ==
  ASSUME IInv, UNCHANGED <<mode, kept, rows, confirmed>>, built' \in Kinded,
         held' \in Nat, alloc' \in [Mint -> {0, 1}], pool' \subseteq pool,
         NEW tx \in Transactions, NEW ok \in BOOLEAN,
         landed' = Append(landed, [tx |-> tx, ok |-> ok]), Backed(tx, mode, kept, Named)
  PROVE  /\ Grows /\ World' /\ Rows' /\ Named' = Named
         /\ Seen' = Seen \cup {[tx |-> tx, ok |-> ok]}
<1>. PICK s : s = [tx |-> tx, ok |-> ok]
  OBVIOUS
<1>1. s \in Outcomes /\ landed \in Seq(Outcomes) /\ s.tx = tx
  BY DEF IInv, World, Outcomes
<1>2. landed' \in Seq(Outcomes) /\ Seen' = Seen \cup {s}
  <2>1. landed' = Append(landed, s)
    OBVIOUS
  <2>2. landed' \in Seq(Outcomes) /\ SeenOf(landed') = SeenOf(landed) \cup {s}
    BY ONLY <1>1, <2>1, SeenMore
  <2>. QED  BY <2>2 DEF Seen
<1>3. Named' = Named
  BY DEF Named
<1>4. Grows
  BY <1>2, <1>3 DEF Grows, Lasts
<1>5. World'
  BY <1>2, <1>3 DEF IInv, World, Kinded
<1>6. Rows'
  BY <1>2, RowsStay DEF IInv
<1>. QED  BY <1>2, <1>3, <1>4, <1>5, <1>6

\* What a transaction that succeeds does to the wallet.
LEMMA Executes ==
  ASSUME IInv, NEW tx \in Transactions, succeeds(tx), execute(tx),
         tx.kind \in {"launch", "burn"} => tx.mint \in Mint
  PROVE  held' \in Nat /\ alloc' \in [Mint -> {0, 1}]
<1>0. held \in Nat /\ alloc \in [Mint -> {0, 1}] /\ tx.amount \in Nat /\ Need \in Nat
  BY Bounds DEF IInv, World, Transactions
<1>1. CASE tx.kind = "launch"
  BY <1>0, <1>1 DEF succeeds, execute
<1>2. CASE tx.kind = "swap"
  BY <1>0, <1>2 DEF succeeds, execute
<1>3. CASE tx.kind = "burn"
  <2>1. alloc[tx.mint] >= tx.amount /\ alloc[tx.mint] \in {0, 1}
    BY <1>0, <1>3 DEF succeeds
  <2>2. alloc[tx.mint] - tx.amount \in {0, 1}
    BY <1>0, <2>1
  <2>3. alloc' = [alloc EXCEPT ![tx.mint] = @ - tx.amount] /\ held' = held
    BY <1>3 DEF execute
  <2>. QED  BY <1>0, <2>2, <2>3
<1>4. CASE tx.kind = "trade"
  BY <1>0, <1>4 DEF execute
<1>. QED  BY <1>1, <1>2, <1>3, <1>4 DEF Transactions

LEMMA StillWaiting ==
  ASSUME IInv, Grows, UNCHANGED <<ops, tasks>>
  PROVE  Waiting'
BY WaitingStays DEF IInv, Waiting

LEMMA DoLand ==
  ASSUME IInv, UNCHANGED page, NEW tx \in pool, Land(tx)
  PROVE  IInv'
<1>0. /\ Sound(tx, mode, kept, Named) /\ pool' \subseteq pool
      /\ UNCHANGED <<mode, kept, built, rows, ops, tasks, confirmed>>
  BY DEF IInv, World, Land, store
<1>1. /\ tx \in Transactions /\ Backed(tx, mode, kept, Named)
      /\ tx.kind \in {"launch", "burn"} => tx.mint \in Mint
  BY <1>0, Kinds DEF Sound
<1>2. built' \in Kinded
  BY <1>0 DEF IInv, World, Kinded
<1>3. CASE succeeds(tx) /\ execute(tx)
  <2>1. held' \in Nat /\ alloc' \in [Mint -> {0, 1}]
    BY <1>1, <1>3, Executes
  <2>2. landed' = Append(landed, [tx |-> tx, ok |-> TRUE])
    BY <1>3 DEF execute
  <2>3. Grows /\ World' /\ Rows'
    BY <1>0, <1>1, <1>2, <2>1, <2>2, Lands
  <2>. QED  BY <1>0, <2>3, StillWaiting, Together DEF Grows
<1>4. CASE /\ landed' = Append(landed, [tx |-> tx, ok |-> FALSE])
           /\ UNCHANGED <<held, alloc>>
  <2>1. held' \in Nat /\ alloc' \in [Mint -> {0, 1}]
    BY <1>4 DEF IInv, World
  <2>2. Grows /\ World' /\ Rows'
    BY <1>0, <1>1, <1>2, <1>4, <2>1, Lands
  <2>. QED  BY <1>0, <2>2, StillWaiting, Together DEF Grows
<1>. QED  BY <1>3, <1>4 DEF Land

LEMMA DoExpire ==
  ASSUME IInv, UNCHANGED page, NEW tx \in pool, Expire(tx)
  PROVE  IInv'
<1>1. UNCHANGED <<mode, kept, built, held, alloc, landed, rows, ops, tasks, confirmed>> /\ pool' \subseteq pool
  BY DEF Expire, store
<1>2. Seen' = Seen /\ Named' = Named
  BY <1>1 DEF Seen, Named
<1>3. Grows
  BY <1>1, <1>2 DEF Grows, Lasts
<1>4. World' /\ Rows'
  BY <1>1, <1>2, RowsStay DEF IInv, World
<1>. QED  BY <1>1, <1>3, <1>4, StillWaiting, Together DEF Grows

LEMMA DoTrade ==
  ASSUME IInv, UNCHANGED page, NEW m \in Mint, Trade(m)
  PROVE  IInv'
<1>. PICK tx : tx = transaction("trade", m, Len(landed), 0)
  OBVIOUS
<1>0. /\ execute(tx) /\ exists(m)
      /\ UNCHANGED <<mode, kept, built, pool, rows, ops, tasks, confirmed>>
  BY DEF Trade, store
<1>1. Len(landed) \in Nat /\ m \in Nat
  BY Bounds DEF IInv, World, Mint
<1>2. tx \in Transactions /\ tx.kind = "trade" /\ tx.mint = m
  BY <1>1 DEF transaction, Transactions
<1>3. succeeds(tx) /\ Backed(tx, mode, kept, Named)
  BY <1>0, <1>2 DEF succeeds, Backed
<1>4. held' \in Nat /\ alloc' \in [Mint -> {0, 1}]
  BY <1>0, <1>2, <1>3, Executes
<1>5. landed' = Append(landed, [tx |-> tx, ok |-> TRUE])
  BY <1>0 DEF execute
<1>6. built' \in Kinded
  BY <1>0 DEF IInv, World, Kinded
<1>7. Grows /\ World' /\ Rows'
  BY <1>0, <1>2, <1>3, <1>4, <1>5, <1>6, Lands
<1>. QED  BY <1>0, <1>7, StillWaiting, Together DEF Grows

(* ------------------------- the demo's own ledger ----------------------- *)

LEMMA DoDemoLaunch ==
  ASSUME IInv, UNCHANGED page, NEW o \in ops, DemoLaunch(o)
  PROVE  IInv'
<1>. PICK m : m = built.mint + 1
  OBVIOUS
<1>. PICK n : n = [o EXCEPT !.at = "record", !.mint = m]
  OBVIOUS
<1>0. /\ GoodOp(o, mode, kept, Seen, confirmed) /\ o \in Requests /\ o.op = "demoLaunch"
      /\ UNCHANGED <<mode, kept, held, pool, rows, confirmed>>
      /\ built' = [built EXCEPT !.mint = @ + 1] /\ built.mint < MaxMints
      /\ landed' = Append(landed, [tx |-> launchTx(m), ok |-> TRUE])
      /\ alloc' = [alloc EXCEPT ![m] = o.amount] /\ advance(o, n)
  BY OpIsGood DEF DemoLaunch, store
<1>1. built \in Kinded
  BY DEF IInv, World, Kinded
<1>2. built' \in Kinded /\ m \in Mint /\ m \in Nat
  BY <1>0, <1>1, BuildOne, Kinds
<1>3. mode # "mainnet" /\ o.amount \in {0, 1}
  BY <1>0 DEF GoodOp
<1>4. held' \in Nat /\ alloc' \in [Mint -> {0, 1}]
  BY <1>0, <1>2, <1>3 DEF IInv, World
<1>5. launchTx(m) \in Transactions /\ Backed(launchTx(m), mode, kept, Named)
  BY <1>2, <1>3, Kinds DEF Backed
<1>6. Grows /\ World' /\ Rows' /\ Success(launchTx(m)) \in Seen'
  BY <1>0, <1>2, <1>4, <1>5, Lands DEF Success
<1>7. /\ n \in Requests /\ n.at = "record" /\ n.id = o.id /\ n.op = o.op /\ n.mint = m
      /\ n.tx = o.tx /\ n.amount = o.amount
  BY <1>0, <1>2 DEF Requests
<1>8. GoodOp(n, mode', kept', Seen', confirmed')
  BY <1>0, <1>2, <1>3, <1>6, <1>7 DEF GoodOp
<1>9. Waiting'
  BY <1>0, <1>6, <1>7, <1>8, Advanced DEF IInv
<1>. QED  BY <1>6, <1>9, Together DEF Grows

LEMMA DoDemoRecord ==
  ASSUME IInv, UNCHANGED page, NEW o \in ops, DemoRecord(o)
  PROVE  IInv'
<1>0. /\ GoodOp(o, mode, kept, Seen, confirmed) /\ o.op = "demoLaunch" /\ o.at = "record"
      /\ UNCHANGED <<mode, kept, built, chain, confirmed>>
      /\ rows' = [rows EXCEPT ![o.mint] = launchTx(o.mint)]
      /\ finish(o, reply("launch", launchTx(o.mint)))
  BY OpIsGood DEF DemoRecord
<1>1. /\ o.mint \in Mint /\ mode # "mainnet" /\ Success(launchTx(o.mint)) \in Seen
      /\ launchTx(o.mint) \in launches /\ launchTx(o.mint) \in Transactions
      /\ launchTx(o.mint).mint = o.mint
  BY <1>0, Kinds DEF GoodOp
<1>2. Grows /\ World' /\ Rows'
  BY <1>0, <1>1, RowStep
<1>3. Backed(launchTx(o.mint), mode', kept', Named')
  BY <1>0, <1>1 DEF Backed
<1>4. Answered(o, reply("launch", launchTx(o.mint)), mode', kept', Named')
  BY <1>0, <1>1, <1>3, LaunchAnswers
<1>5. Waiting'
  BY <1>0, <1>2, <1>4, Finished DEF IInv
<1>. QED  BY <1>2, <1>5, Together DEF Grows

LEMMA DoDemoConvert ==
  ASSUME IInv, UNCHANGED page, NEW o \in ops, DemoConvert(o)
  PROVE  IInv'
<1>. PICK tx : tx = transaction("burn", o.mint, built.burn + 1, o.amount)
  OBVIOUS
<1>0. /\ o \in Requests /\ o.op = "convert" /\ previewConvert(o) /\ execute(tx)
      /\ UNCHANGED <<mode, kept, pool, rows, confirmed>>
      /\ built' = [built EXCEPT !.burn = @ + 1] /\ built.burn < MaxBurns
      /\ finish(o, reply("job", tx))
  BY OpIsGood DEF DemoConvert
<1>1. o.mint \in Mint /\ o.amount \in Nat /\ o.amount <= alloc[o.mint] /\ o.mint \in Nat
  BY <1>0 DEF previewConvert, supported, Requests
<1>2. built \in Kinded
  BY DEF IInv, World, Kinded
<1>3. built' \in Kinded /\ built.burn + 1 \in Nat
  <2>1. built.burn \in Nat /\ [built EXCEPT !.burn = @ + 1] \in Kinded
    BY <1>0, <1>2, BuildOne
  <2>. QED  BY <1>0, <2>1
<1>4. tx \in Transactions /\ tx.kind = "burn" /\ tx.mint = o.mint /\ tx.amount = o.amount
  BY <1>1, <1>3 DEF transaction, Transactions
<1>5. succeeds(tx) /\ Backed(tx, mode, kept, Named)
  <2>1. alloc[o.mint] \in Nat
    BY <1>1 DEF IInv, World
  <2>. QED  BY <1>1, <1>4, <2>1 DEF succeeds, Backed
<1>6. held' \in Nat /\ alloc' \in [Mint -> {0, 1}]
  BY <1>0, <1>1, <1>4, <1>5, Executes
<1>7. landed' = Append(landed, [tx |-> tx, ok |-> TRUE])
  BY <1>0 DEF execute
<1>8. Grows /\ World' /\ Rows'
  BY <1>0, <1>3, <1>4, <1>5, <1>6, <1>7, Lands
<1>9. Answered(o, reply("job", tx), mode', kept', Named')
  BY <1>0, <1>4, PlainAnswers
<1>10. Waiting'
  BY <1>0, <1>8, <1>9, Finished DEF IInv
<1>. QED  BY <1>8, <1>10, Together DEF Grows

(* ----------------------------- filling in ------------------------------ *)

\* Every set of natural numbers with a member has a least one.
LEMMA LeastNat ==
  ASSUME NEW X, X \subseteq Nat, X # {}
  PROVE  Min(X) \in X
<1>1. PICK m \in X : \A i \in X : ~ (<<i, m>> \in OpToRel(<, Nat))
  BY WFMin, NatLessThanWellFounded, Zenon
<1>2. ASSUME NEW i \in X PROVE m <= i
  <2>1. ~ (i < m)
    BY <1>1, <1>2 DEF OpToRel
  <2>. QED  BY <2>1
<1>. QED  BY <1>1, <1>2 DEF Min

\* What fills a row in names the mint and has succeeded.
LEMMA FirstSucceeded ==
  ASSUME IInv, NEW m \in Mint, firstSignature(signaturesFor(m)) # None
  PROVE  LET first == firstSignature(signaturesFor(m))
         IN  first \in Transactions /\ first.mint = m /\ Success(first) \in Seen
<1>. PICK sigs : sigs = signaturesFor(m)
  OBVIOUS
<1>. PICK good : good = {i \in sigs : landed[i].ok}
  OBVIOUS
<1>1. sigs \subseteq {i \in DOMAIN landed : landed[i].tx.mint = m}
  BY DEF signaturesFor
<1>2. /\ DOMAIN landed \subseteq Nat
      /\ \A j \in DOMAIN landed : landed[j] \in Outcomes
  <2>1. \A X : landed \in Seq(X) =>
          DOMAIN landed \subseteq Nat /\ \A j \in DOMAIN landed : landed[j] \in X
    OBVIOUS
  <2>. QED  BY <2>1 DEF IInv, World
<1>3. good # {} /\ firstSignature(sigs) = landed[Min(good)].tx
  BY DEF firstSignature
<1>. PICK i : i = Min(good)
  OBVIOUS
<1>4. i \in good /\ i \in DOMAIN landed
  BY <1>1, <1>2, <1>3, LeastNat
<1>5. landed[i] \in Outcomes /\ landed[i].ok /\ landed[i].tx.mint = m
  BY <1>1, <1>2, <1>4
<1>6. landed[i] = Success(landed[i].tx)
  BY <1>5 DEF Success, Outcomes
<1>7. landed[i] \in Seen
  BY <1>4 DEF Seen, SeenOf
<1>. QED  BY <1>3, <1>5, <1>6, <1>7 DEF Outcomes

LEMMA DoHydrateRead ==
  ASSUME IInv, UNCHANGED page, NEW o \in ops, HydrateRead(o)
  PROVE  IInv'
<1>. PICK first : first = firstSignature(signaturesFor(o.mint))
  OBVIOUS
<1>. PICK n : n = [o EXCEPT !.at = "write", !.tx = first]
  OBVIOUS
<1>0. /\ GoodOp(o, mode, kept, Seen, confirmed) /\ o \in Requests /\ o.op = "hydrate"
      /\ IF first = None THEN finish(o, None) ELSE advance(o, n)
      /\ UNCHANGED <<mode, kept, built, chain, rows, confirmed>>
  BY OpIsGood DEF HydrateRead, quiet, store
<1>1. Grows /\ World' /\ Rows' /\ Seen' = Seen
  BY <1>0, QuietStep DEF IInv, World
<1>2. CASE first = None
  BY <1>0, <1>1, <1>2, Finished, Together DEF IInv, Answered, Grows
<1>3. CASE first # None
  <2>1. o.mint \in Mint /\ mode = "mainnet" /\ o.id = 0
    BY <1>0 DEF GoodOp
  <2>2. first \in Transactions /\ first.mint = o.mint /\ Success(first) \in Seen
    BY <1>3, <2>1, FirstSucceeded
  <2>3. /\ n \in Requests /\ n.at = "write" /\ n.id = o.id /\ n.op = o.op /\ n.mint = o.mint
        /\ n.tx = first /\ n.amount = o.amount
    BY <1>0, <2>2 DEF Requests
  <2>4. GoodOp(n, mode', kept', Seen', confirmed')
    BY <1>0, <1>1, <2>1, <2>2, <2>3 DEF GoodOp
  <2>5. Waiting'
    BY <1>0, <1>1, <1>3, <2>3, <2>4, Advanced DEF IInv
  <2>. QED  BY <1>1, <2>5, Together DEF Grows
<1>. QED  BY <1>2, <1>3

LEMMA DoView ==
  ASSUME IInv, UNCHANGED page, NEW m \in Mint, View(m)
  PROVE  IInv'
<1>. PICK o : o = operation(0, "hydrate", m, 0)
  OBVIOUS
<1>0. /\ mode = "mainnet" /\ ops' = ops \cup {o} /\ tasks' = tasks
      /\ UNCHANGED <<mode, kept, built, chain, rows, confirmed>>
  BY DEF View, store
<1>1. Grows /\ World' /\ Rows' /\ Seen' = Seen
  BY <1>0, QuietStep DEF IInv, World
<1>2. /\ o \in Requests /\ o.id = 0 /\ o.op = "hydrate" /\ o.at = "read" /\ o.mint = m
  BY Kinds DEF operation, Requests
<1>3. GoodOp(o, mode', kept', Seen', confirmed') /\ Awaited(o, tasks)
  BY <1>0, <1>2 DEF GoodOp, Awaited
<1>4. Queue(ops, tasks, mode', kept', Seen', confirmed', Named')
  BY <1>1, WaitingStays DEF IInv
<1>5. Queue(ops \cup {o}, tasks, mode', kept', Seen', confirmed', Named')
  BY <1>2, <1>3, <1>4 DEF Queue
<1>6. Waiting'
  BY <1>0, <1>5 DEF Waiting
<1>. QED  BY <1>1, <1>6, Together DEF Grows

(* -------------------------------- the page ----------------------------- *)

\* The page acts: nothing but the pool may change outside it.
LEMMA PageFrame ==
  ASSUME IInv, UNCHANGED <<mode, kept, built, held, alloc, landed, rows, confirmed>>,
         \A tx \in pool' : tx \in pool \/ Sound(tx, mode, kept, Named)
  PROVE  /\ Lasts /\ World' /\ Rows' /\ mode' = mode /\ kept' = kept
         /\ Seen' = Seen /\ Named' = Named /\ confirmed' = confirmed
<1>1. Seen' = Seen /\ Named' = Named
  BY DEF Seen, Named
<1>2. World'
  BY <1>1 DEF IInv, World
<1>3. Rows'
  BY <1>1, RowsStay DEF IInv
<1>. QED  BY <1>1, <1>2, <1>3 DEF Lasts

LEMMA PageDone ==
  ASSUME IInv, UNCHANGED <<mode, kept, built, held, alloc, landed, rows, confirmed>>,
         \A tx \in pool' : tx \in pool \/ Sound(tx, mode, kept, Named),
         Queue(ops', tasks', mode, kept, Seen, confirmed, Named),
         Shows(step', funding', preparedLaunch', preparedBurn', sent', mode, kept, Named)
  PROVE  IInv'
<1>1. /\ World' /\ Rows' /\ mode' = mode /\ kept' = kept
      /\ Seen' = Seen /\ Named' = Named /\ confirmed' = confirmed
  BY PageFrame
<1>2. Waiting'
  BY <1>1 DEF Waiting
<1>. QED  BY <1>1, <1>2 DEF IInv, Screen

LEMMA TaskIsGood ==
  ASSUME IInv, NEW t \in Task, tasks[t] # None
  PROVE  GoodTask(tasks[t], mode, kept, Named) /\ tasks[t] \in Calls
BY DEF IInv, Waiting, Queue, GoodTask

\* What a call finds in its answer.
LEMMA AnswerIsGood ==
  ASSUME IInv, NEW t \in Task, NEW fn, NEW at, answered(t, fn, at), ~rejected(t)
  PROVE  Answers(at, answer(t), mode, kept, Named)
BY TaskIsGood DEF answered, running, rejected, answer, GoodTask

LEMMA FreeTask ==
  ASSUME IInv, NEW t \in Task,
         tasks[t] = None \/ tasks[t].reply # None \/ tasks[t].at = "phantom"
  PROVE  Free(t, ops)
BY NothingAwaited DEF IInv, Waiting

\* A call asks the server and waits.
LEMMA Fetched ==
  ASSUME IInv, NEW t \in Task, Free(t, ops), NEW k \in Calls, NEW at,
         NEW o, fetch(t, k, at, o), <<k.fn, at>> \in Places,
         Holds(k.fn, k.arg, mode, kept, Named),
         GoodOp(o, mode, kept, Seen, confirmed), o.id = t, <<o.op, at>> \in Asks
  PROVE  Queue(ops', tasks', mode, kept, Seen, confirmed, Named)
<1>. PICK n : n = [k EXCEPT !.at = at, !.reply = None]
  OBVIOUS
<1>1. at \in {"prepare", "launching", "stamping", "phantom", "poll", "rebuild", "confirm", "burn", "record"}
  BY DEF Places
<1>2. n \in Calls /\ n.fn = k.fn /\ n.at = at /\ n.arg = k.arg /\ n.reply = None
  BY <1>1 DEF Calls
<1>3. GoodTask(n, mode, kept, Named)
  BY <1>2 DEF GoodTask
<1>4. Queue(ops, tasks, mode, kept, Seen, confirmed, Named)
  BY DEF IInv, Waiting
<1>5. Queue(ops \cup {o}, [tasks EXCEPT ![t] = n], mode, kept, Seen, confirmed, Named)
  BY ONLY <1>2, <1>3, <1>4, QueueFetches, t \in Task, Free(t, ops),
          GoodOp(o, mode, kept, Seen, confirmed), o.id = t, <<o.op, at>> \in Asks
<1>. QED  BY <1>5 DEF fetch

LEMMA WentOn ==
  ASSUME IInv, NEW t \in Task, Free(t, ops), NEW k, goOn(t, k),
         k = None \/ GoodTask(k, mode, kept, Named)
  PROVE  Queue(ops', tasks', mode, kept, Seen, confirmed, Named)
<1>1. Queue(ops, tasks, mode, kept, Seen, confirmed, Named)
  BY DEF IInv, Waiting
<1>2. Queue(ops, [tasks EXCEPT ![t] = k], mode, kept, Seen, confirmed, Named)
  BY ONLY <1>1, QueueGoesOn, t \in Task, Free(t, ops), k = None \/ GoodTask(k, mode, kept, Named)
<1>. QED  BY <1>2 DEF goOn

LEMMA Returned ==
  ASSUME IInv, NEW t \in Task, Free(t, ops), return(t)
  PROVE  Queue(ops', tasks', mode, kept, Seen, confirmed, Named)
BY WentOn DEF return

\* New calls and requests.
LEMMA TaskIs ==
  ASSUME NEW fn, NEW at, <<fn, at>> \in Places, NEW arg \in Transactions \cup {None}
  PROVE  LET k == task(fn, at, arg)
         IN  k \in Calls /\ k.fn = fn /\ k.at = at /\ k.arg = arg /\ k.reply = None
BY DEF task, Calls, Places

Names == {"prepare", "balance", "confirm", "burnPrepare", "convert", "demoLaunch", "hydrate"}
LEMMA OperationIs ==
  ASSUME NEW id \in Task \cup {0}, NEW op \in Names, NEW m \in Nat, NEW a \in Nat
  PROVE  LET o == operation(id, op, m, a)
         IN  /\ o \in Requests /\ o.id = id /\ o.op = op /\ o.at = "read" /\ o.mint = m
             /\ o.amount = a /\ o.tx = None
BY DEF operation, Requests, Names

LEMMA FreshIsGood ==
  ASSUME NEW o \in Requests, o.at = "read", NEW md, NEW kp, NEW S, NEW C,
         o.op \in {"prepare", "balance", "confirm", "burnPrepare", "demoLaunch", "convert"},
         o.op = "demoLaunch" => md # "mainnet" /\ o.amount \in {0, 1},
         o.op \notin {"demoLaunch", "convert"} => md = "mainnet",
         o.op \in {"confirm", "burnPrepare"} => o.mint \in Mint
  PROVE  GoodOp(o, md, kp, S, C)
BY DEF GoodOp

(* ---------------------------- what is clicked -------------------------- *)

LEMMA DoSubmit ==
  ASSUME IInv, NEW t \in Task, Submit(t)
  PROVE  IInv'
<1>0. /\ step = "idle" /\ tasks[t] = None
      /\ UNCHANGED <<mode, kept, built, held, alloc, landed, rows, confirmed, pool,
                     funding, preparedLaunch, preparedBurn, sent>>
  BY DEF Submit, free, rest, store
<1>1. Free(t, ops)
  BY <1>0, FreeTask
<1>2. CASE mode = "mainnet"
  <2>. PICK k : k = task("build", "prepare", None)
    OBVIOUS
  <2>. PICK o : o = prepareOp(t)
    OBVIOUS
  <2>1. step' = "building" /\ fetch(t, k, "prepare", o)
    BY <1>2 DEF Submit
  <2>2. k \in Calls /\ k.fn = "build"
    BY TaskIs DEF Places
  <2>3. Holds(k.fn, k.arg, mode, kept, Named) /\ <<k.fn, "prepare">> \in Places
    BY <1>2, <2>2 DEF Holds, Places
  <2>4. o \in Requests /\ o.id = t /\ o.op = "prepare" /\ o.at = "read"
    BY OperationIs DEF prepareOp, Names
  <2>5. GoodOp(o, mode, kept, Seen, confirmed) /\ <<o.op, "prepare">> \in Asks
    BY <1>2, <2>4, FreshIsGood DEF Asks
  <2>6. Queue(ops', tasks', mode, kept, Seen, confirmed, Named)
    BY <1>1, <2>1, <2>2, <2>3, <2>4, <2>5, Fetched
  <2>7. Shows(step', funding', preparedLaunch', preparedBurn', sent', mode, kept, Named)
    BY <1>0, <2>1 DEF IInv, Screen, Shows
  <2>. QED  BY <1>0, <2>6, <2>7, PageDone
<1>3. CASE mode # "mainnet"
  <2>. PICK buy \in {0, 1} : /\ step' = "issuing"
                             /\ fetch(t, task("demo", "launching", None), "launching",
                                      operation(t, "demoLaunch", 0, buy))
    BY <1>3 DEF Submit
  <2>. PICK k : k = task("demo", "launching", None)
    OBVIOUS
  <2>. PICK o : o = operation(t, "demoLaunch", 0, buy)
    OBVIOUS
  <2>1. step' = "issuing" /\ fetch(t, k, "launching", o)
    OBVIOUS
  <2>2. k \in Calls /\ k.fn = "demo"
    BY TaskIs DEF Places
  <2>3. Holds(k.fn, k.arg, mode, kept, Named) /\ <<k.fn, "launching">> \in Places
    BY <1>3, <2>2 DEF Holds, Places
  <2>4. o \in Requests /\ o.id = t /\ o.op = "demoLaunch" /\ o.at = "read" /\ o.amount = buy
    BY OperationIs DEF Names
  <2>5. GoodOp(o, mode, kept, Seen, confirmed) /\ <<o.op, "launching">> \in Asks
    BY <1>3, <2>4, FreshIsGood DEF Asks
  <2>6. Queue(ops', tasks', mode, kept, Seen, confirmed, Named)
    BY <1>1, <2>1, <2>2, <2>3, <2>4, <2>5, Fetched
  <2>7. Shows(step', funding', preparedLaunch', preparedBurn', sent', mode, kept, Named)
    BY <1>0, <2>1 DEF IInv, Screen, Shows
  <2>. QED  BY <1>0, <2>6, <2>7, PageDone
<1>. QED  BY <1>2, <1>3

LEMMA Approved ==
  ASSUME IInv, NEW t \in Task, NEW fn \in {"fund", "launch", "burn"}, NEW tx, approve(t, fn, tx),
         tx # None => tx \in Transactions /\ Holds(fn, tx, mode, kept, Named)
  PROVE  IInv'
<1>. PICK k : k = task(fn, "phantom", tx)
  OBVIOUS
<1>0. /\ tasks[t] = None /\ tx \in Transactions /\ Holds(fn, tx, mode, kept, Named)
      /\ step' = "approving" /\ goOn(t, k)
      /\ UNCHANGED <<mode, kept, built, held, alloc, landed, rows, confirmed, pool,
                     funding, preparedLaunch, preparedBurn, sent>>
  BY DEF approve, free, rest, store
<1>1. Free(t, ops)
  BY <1>0, FreeTask
<1>2. <<fn, "phantom">> \in Places
  BY DEF Places
<1>3. k \in Calls /\ k.fn = fn /\ k.at = "phantom" /\ k.arg = tx /\ k.reply = None
  BY <1>0, <1>2, TaskIs
<1>4. GoodTask(k, mode, kept, Named)
  BY <1>0, <1>2, <1>3 DEF GoodTask
<1>5. Queue(ops', tasks', mode, kept, Seen, confirmed, Named)
  BY <1>0, <1>1, <1>4, WentOn
<1>6. Shows(step', funding', preparedLaunch', preparedBurn', sent', mode, kept, Named)
  BY <1>0 DEF IInv, Screen, Shows
<1>. QED  BY <1>0, <1>5, <1>6, PageDone

LEMMA DoApprove ==
  ASSUME IInv, NEW t \in Task, ApproveFunding(t) \/ ApproveLaunch(t) \/ ApproveBurn(t)
  PROVE  IInv'
<1>1. /\ funding # None => funding \in Transactions /\ Holds("fund", funding, mode, kept, Named)
      /\ preparedLaunch # None =>
           preparedLaunch \in Transactions /\ Holds("launch", preparedLaunch, mode, kept, Named)
      /\ preparedBurn # None =>
           preparedBurn \in Transactions /\ Holds("burn", preparedBurn, mode, kept, Named)
  BY Kinds DEF IInv, Screen, Shows, Holds
<1>2. CASE ApproveFunding(t)
  BY <1>1, <1>2, Approved DEF ApproveFunding
<1>3. CASE ApproveLaunch(t)
  BY <1>1, <1>3, Approved DEF ApproveLaunch
<1>4. CASE ApproveBurn(t)
  BY <1>1, <1>4, Approved DEF ApproveBurn
<1>. QED  BY <1>2, <1>3, <1>4

LEMMA DoNotNow ==
  ASSUME IInv, NotNow
  PROVE  IInv'
<1>0. /\ UNCHANGED <<mode, kept, built, held, alloc, landed, rows, confirmed, pool, ops, tasks, step, sent>>
      /\ funding' \in {funding, None} /\ preparedLaunch' \in {preparedLaunch, None}
      /\ preparedBurn' \in {preparedBurn, None}
  BY DEF NotNow, rest, store
<1>1. Shows(step', funding', preparedLaunch', preparedBurn', sent', mode, kept, Named)
  BY <1>0 DEF IInv, Screen, Shows
<1>2. Queue(ops', tasks', mode, kept, Seen, confirmed, Named)
  BY <1>0 DEF IInv, Waiting
<1>. QED  BY <1>0, <1>1, <1>2, PageDone

(* ------------------------------- Phantom ------------------------------- *)

LEMMA DoDecline ==
  ASSUME IInv, NEW t \in Task, Decline(t)
  PROVE  IInv'
<1>0. /\ tasks[t].at = "phantom" /\ step' = "idle" /\ return(t)
      /\ UNCHANGED <<mode, kept, built, held, alloc, landed, rows, confirmed, pool,
                     funding, preparedLaunch, preparedBurn, sent>>
  BY DEF Decline, running, endApproval, rest, store
<1>1. Queue(ops', tasks', mode, kept, Seen, confirmed, Named)
  BY <1>0, FreeTask, Returned
<1>2. Shows(step', funding', preparedLaunch', preparedBurn', sent', mode, kept, Named)
  BY <1>0 DEF IInv, Screen, Shows
<1>. QED  BY <1>0, <1>1, <1>2, PageDone

\* What Phantom is asked to sign.
LEMMA Asked ==
  ASSUME IInv, NEW t \in Task, NEW fn \in {"fund", "launch", "burn"}, running(t, fn, "phantom")
  PROVE  /\ GoodTask(tasks[t], mode, kept, Named) /\ tasks[t] \in Calls /\ tasks[t].fn = fn
         /\ Free(t, ops) /\ mode = "mainnet" /\ Holds(fn, tasks[t].arg, mode, kept, Named)
         /\ Sound(tasks[t].arg, mode, kept, Named)
<1>1. /\ GoodTask(tasks[t], mode, kept, Named) /\ tasks[t] \in Calls /\ tasks[t].fn = fn
      /\ tasks[t].at = "phantom"
  BY TaskIsGood DEF running
<1>2. Holds(fn, tasks[t].arg, mode, kept, Named)
  BY <1>1 DEF GoodTask
<1>3. Sound(tasks[t].arg, mode, kept, Named)
  BY <1>2, Kinds DEF Holds, Sound, Backed
<1>. QED  BY <1>1, <1>2, <1>3, FreeTask DEF Holds

LEMMA DoSendSwap ==
  ASSUME IInv, NEW t \in Task, SendSwap(t)
  PROVE  IInv'
<1>. PICK k : k = tasks[t]
  OBVIOUS
<1>. PICK o : o = balanceOp(t)
  OBVIOUS
<1>0. /\ running(t, "fund", "phantom") /\ pool' = pool \cup {k.arg} /\ fetch(t, k, "poll", o)
      /\ UNCHANGED <<mode, kept, built, held, alloc, landed, rows, confirmed,
                     step, funding, preparedLaunch, preparedBurn, sent>>
  BY DEF SendSwap, signAndSend, rest, store, page
<1>1. /\ k \in Calls /\ k.fn = "fund" /\ Free(t, ops) /\ mode = "mainnet"
      /\ Holds("fund", k.arg, mode, kept, Named) /\ Sound(k.arg, mode, kept, Named)
  BY <1>0, Asked
<1>2. o \in Requests /\ o.id = t /\ o.op = "balance" /\ o.at = "read"
  BY OperationIs DEF balanceOp, Names
<1>3. GoodOp(o, mode, kept, Seen, confirmed) /\ <<o.op, "poll">> \in Asks /\ <<k.fn, "poll">> \in Places
  BY <1>1, <1>2, FreshIsGood DEF Asks, Places
<1>4. Queue(ops', tasks', mode, kept, Seen, confirmed, Named)
  BY <1>0, <1>1, <1>2, <1>3, Fetched
<1>5. Shows(step', funding', preparedLaunch', preparedBurn', sent', mode, kept, Named)
  BY <1>0 DEF IInv, Screen
<1>. QED  BY <1>0, <1>1, <1>4, <1>5, PageDone

LEMMA DoSendLaunch ==
  ASSUME IInv, NEW t \in Task, SendLaunch(t)
  PROVE  IInv'
<1>. PICK k : k = tasks[t]
  OBVIOUS
<1>. PICK tx : tx = k.arg
  OBVIOUS
<1>. PICK o : o = operation(t, "confirm", tx.mint, 0)
  OBVIOUS
<1>0. /\ running(t, "launch", "phantom") /\ pool' = pool \cup {tx} /\ fetch(t, k, "confirm", o)
      /\ sent' = [launch |-> tx, burn |-> None]
      /\ UNCHANGED <<mode, kept, built, held, alloc, landed, rows, confirmed,
                     step, funding, preparedLaunch, preparedBurn>>
  BY DEF SendLaunch, signAndSend, rest, store
<1>1. /\ k \in Calls /\ k.fn = "launch" /\ Free(t, ops) /\ mode = "mainnet"
      /\ Holds("launch", k.arg, mode, kept, Named) /\ Sound(tx, mode, kept, Named)
  BY <1>0, Asked
<1>2. tx \in launches /\ tx.mint \in Mint /\ tx.mint \in Nat
  BY <1>1, Kinds DEF Holds
<1>3. o \in Requests /\ o.id = t /\ o.op = "confirm" /\ o.at = "read" /\ o.mint = tx.mint
  BY <1>2, OperationIs DEF Names
<1>4. /\ GoodOp(o, mode, kept, Seen, confirmed) /\ <<o.op, "confirm">> \in Asks
      /\ <<k.fn, "confirm">> \in Places
  BY <1>1, <1>2, <1>3, FreshIsGood DEF Asks, Places
<1>5. Queue(ops', tasks', mode, kept, Seen, confirmed, Named)
  BY <1>0, <1>1, <1>3, <1>4, Fetched
<1>6. Shows(step', funding', preparedLaunch', preparedBurn', sent', mode, kept, Named)
  BY <1>0, <1>2 DEF IInv, Screen, Shows
<1>. QED  BY <1>0, <1>1, <1>5, <1>6, PageDone

LEMMA DoSendBurn ==
  ASSUME IInv, NEW t \in Task, SendBurn(t)
  PROVE  IInv'
<1>. PICK k : k = tasks[t]
  OBVIOUS
<1>. PICK tx : tx = k.arg
  OBVIOUS
<1>. PICK o : o = convertOp(t, tx)
  OBVIOUS
<1>0. /\ running(t, "burn", "phantom") /\ pool' = pool \cup {tx} /\ fetch(t, k, "record", o)
      /\ sent' = [launch |-> IF sent = None THEN None ELSE sent.launch, burn |-> tx]
      /\ UNCHANGED <<mode, kept, built, held, alloc, landed, rows, confirmed,
                     step, funding, preparedLaunch, preparedBurn>>
  BY DEF SendBurn, signAndSend, rest, store
<1>1. /\ k \in Calls /\ k.fn = "burn" /\ Free(t, ops) /\ mode = "mainnet"
      /\ Holds("burn", k.arg, mode, kept, Named) /\ Sound(tx, mode, kept, Named)
  BY <1>0, Asked
<1>2. tx \in burns /\ tx \in Transactions /\ tx.mint \in Nat /\ tx.amount \in Nat
  <2>1. tx \in burns /\ tx \in Transactions
    BY <1>1, Kinds DEF Holds
  <2>. QED  BY <2>1 DEF Transactions
<1>3. o \in Requests /\ o.id = t /\ o.op = "convert" /\ o.at = "read"
  <2>. PICK p : p = operation(t, "convert", tx.mint, tx.amount)
    OBVIOUS
  <2>1. p \in Requests /\ p.id = t /\ p.op = "convert" /\ p.at = "read"
    BY <1>2, OperationIs DEF Names
  <2>2. o = [p EXCEPT !.tx = tx]
    BY DEF convertOp
  <2>3. tx \in Transactions \cup {None}
    BY <1>2
  <2>4. o \in Requests
    BY ONLY <2>1, <2>2, <2>3, SMTT(30) DEF Requests
  <2>5. o.id = p.id /\ o.op = p.op /\ o.at = p.at
    BY ONLY <2>1, <2>2 DEF Requests
  <2>. QED  BY <2>1, <2>4, <2>5
<1>4. /\ GoodOp(o, mode, kept, Seen, confirmed) /\ <<o.op, "record">> \in Asks
      /\ <<k.fn, "record">> \in Places
  BY <1>1, <1>3, FreshIsGood DEF Asks, Places
<1>5. Queue(ops', tasks', mode, kept, Seen, confirmed, Named)
  BY <1>0, <1>1, <1>3, <1>4, Fetched
<1>6. Shows(step', funding', preparedLaunch', preparedBurn', sent', mode, kept, Named)
  BY <1>0, <1>2 DEF IInv, Screen, Shows
<1>. QED  BY <1>0, <1>1, <1>5, <1>6, PageDone

(* ---------------------------- the page goes on ------------------------- *)

\* What a call that has its answer is.
LEMMA Replied ==
  ASSUME IInv, NEW t \in Task, NEW fn, NEW at, answered(t, fn, at)
  PROVE  /\ tasks[t] \in Calls /\ tasks[t].fn = fn /\ tasks[t].at = at
         /\ <<fn, at>> \in Places /\ Free(t, ops)
         /\ Holds(fn, tasks[t].arg, mode, kept, Named)
         /\ ~rejected(t) => Answers(at, answer(t), mode, kept, Named)
<1>1. tasks[t] # None /\ tasks[t].fn = fn /\ tasks[t].at = at /\ tasks[t].reply # None
  BY DEF answered, running
<1>2. GoodTask(tasks[t], mode, kept, Named) /\ tasks[t] \in Calls
  BY <1>1, TaskIsGood
<1>3. Free(t, ops)
  BY <1>1, FreeTask
<1>. QED  BY <1>1, <1>2, <1>3, AnswerIsGood DEF GoodTask

\* The page shows what has been built.
LEMMA Showing ==
  ASSUME IInv, NEW t \in Task, NEW fn, NEW at \in {"prepare", "rebuild"}, answered(t, fn, at),
         ~rejected(t), showBuilt(t), UNCHANGED <<preparedBurn, sent>>
  PROVE  Shows(step', funding', preparedLaunch', preparedBurn', sent', mode, kept, Named)
<1>1. /\ <<fn, at>> \in Places /\ Holds(fn, tasks[t].arg, mode, kept, Named)
      /\ Answers(at, answer(t), mode, kept, Named)
  BY Replied
<1>2. mode = "mainnet"
  BY <1>1 DEF Places, Holds
<1>. PICK r : r = answer(t)
  OBVIOUS
<1>3. r.what \in {"error", "funding", "launch"} /\ (refused(t) <=> r.what = "error")
  BY <1>1 DEF Answers, refused, rejected
<1>4. step' = "idle"
  BY DEF showBuilt
<1>5. CASE r.what = "error"
  <2>1. UNCHANGED <<funding, preparedLaunch>>
    BY <1>3, <1>5 DEF showBuilt
  <2>. QED  BY <1>4, <2>1 DEF IInv, Screen, Shows
<1>6. CASE r.what = "funding"
  <2>1. funding' = r.value /\ preparedLaunch' = None
    BY <1>3, <1>6 DEF showBuilt
  <2>2. r.value \in swaps
    BY <1>1, <1>6 DEF Answers
  <2>. QED  BY <1>2, <1>4, <2>1, <2>2 DEF IInv, Screen, Shows
<1>7. CASE r.what = "launch"
  <2>1. funding' = None /\ preparedLaunch' = r.value
    BY <1>3, <1>7 DEF showBuilt
  <2>2. r.value \in launches /\ Backed(r.value, mode, kept, Named)
    BY <1>1, <1>7 DEF Answers
  <2>. QED  BY <1>2, <1>4, <2>1, <2>2 DEF IInv, Screen, Shows
<1>. QED  BY <1>3, <1>5, <1>6, <1>7

LEMMA DoBuilt ==
  ASSUME IInv, NEW t \in Task, Built(t)
  PROVE  IInv'
<1>0. /\ answered(t, "build", "prepare") /\ return(t)
      /\ IF rejected(t) THEN UNCHANGED <<step, funding, preparedLaunch>> ELSE showBuilt(t)
      /\ UNCHANGED <<mode, kept, built, held, alloc, landed, rows, confirmed, pool,
                     preparedBurn, sent>>
  BY DEF Built, rest, store
<1>1. Queue(ops', tasks', mode, kept, Seen, confirmed, Named)
  BY <1>0, Replied, Returned
<1>2. CASE rejected(t)
  <2>1. Shows(step', funding', preparedLaunch', preparedBurn', sent', mode, kept, Named)
    BY <1>0, <1>2 DEF IInv, Screen
  <2>. QED  BY <1>0, <1>1, <2>1, PageDone
<1>3. CASE ~rejected(t)
  <2>1. Shows(step', funding', preparedLaunch', preparedBurn', sent', mode, kept, Named)
    BY <1>0, <1>3, Showing
  <2>. QED  BY <1>0, <1>1, <2>1, PageDone
<1>. QED  BY <1>2, <1>3

LEMMA DoDemoLaunched ==
  ASSUME IInv, NEW t \in Task, DemoLaunched(t)
  PROVE  IInv'
<1>. PICK k : k = tasks[t]
  OBVIOUS
<1>0. /\ answered(t, "demo", "launching")
      /\ UNCHANGED <<mode, kept, built, held, alloc, landed, rows, confirmed, pool,
                     funding, preparedLaunch, preparedBurn, sent>>
  BY DEF DemoLaunched, rest, store
<1>1. /\ k \in Calls /\ k.fn = "demo" /\ Free(t, ops) /\ Holds("demo", k.arg, mode, kept, Named)
      /\ ~rejected(t) => Answers("launching", answer(t), mode, kept, Named)
  BY <1>0, Replied
<1>2. CASE return(t) /\ step' \in {step, "idle"}
  <2>1. Queue(ops', tasks', mode, kept, Seen, confirmed, Named)
    BY <1>1, <1>2, Returned
  <2>2. Shows(step', funding', preparedLaunch', preparedBurn', sent', mode, kept, Named)
    BY <1>0, <1>2 DEF IInv, Screen, Shows
  <2>. QED  BY <1>0, <2>1, <2>2, PageDone
<1>3. CASE ~rejected(t) /\ ~refused(t)
  <2>. PICK tx : tx = answer(t).value
    OBVIOUS
  <2>. PICK o : o = operation(t, "convert", tx.mint, 1)
    OBVIOUS
  <2>1. step' = "stamping" /\ fetch(t, k, "stamping", o)
    BY <1>3 DEF DemoLaunched
  <2>2. tx \in launches /\ tx.mint \in Nat
    <3>1. answer(t).what = "launch"
      BY <1>1, <1>3 DEF Answers, refused, rejected
    <3>. QED  BY <1>1, <1>3, <3>1, Kinds DEF Answers
  <2>3. o \in Requests /\ o.id = t /\ o.op = "convert" /\ o.at = "read"
    BY <2>2, OperationIs DEF Names
  <2>4. /\ GoodOp(o, mode, kept, Seen, confirmed) /\ <<o.op, "stamping">> \in Asks
        /\ <<k.fn, "stamping">> \in Places
    BY <1>1, <2>3, FreshIsGood DEF Asks, Places
  <2>5. Queue(ops', tasks', mode, kept, Seen, confirmed, Named)
    BY <1>1, <2>1, <2>3, <2>4, Fetched
  <2>6. Shows(step', funding', preparedLaunch', preparedBurn', sent', mode, kept, Named)
    BY <1>0, <2>1 DEF IInv, Screen, Shows
  <2>. QED  BY <1>0, <2>5, <2>6, PageDone
<1>. QED  BY <1>2, <1>3 DEF DemoLaunched

LEMMA DoDemoStamped ==
  ASSUME IInv, NEW t \in Task, DemoStamped(t)
  PROVE  IInv'
<1>0. /\ answered(t, "demo", "stamping") /\ return(t) /\ step' \in {step, "idle"}
      /\ UNCHANGED <<mode, kept, built, held, alloc, landed, rows, confirmed, pool,
                     funding, preparedLaunch, preparedBurn, sent>>
  BY DEF DemoStamped, rest, store
<1>1. Queue(ops', tasks', mode, kept, Seen, confirmed, Named)
  BY <1>0, Replied, Returned
<1>2. Shows(step', funding', preparedLaunch', preparedBurn', sent', mode, kept, Named)
  BY <1>0 DEF IInv, Screen, Shows
<1>. QED  BY <1>0, <1>1, <1>2, PageDone

LEMMA DoPolled ==
  ASSUME IInv, NEW t \in Task, Polled(t)
  PROVE  IInv'
<1>. PICK k : k = tasks[t]
  OBVIOUS
<1>. PICK n : n = [k EXCEPT !.polls = @ + 1]
  OBVIOUS
<1>0. /\ answered(t, "fund", "poll")
      /\ \/ step' = "idle" /\ return(t) /\ UNCHANGED funding
         \/ fetch(t, n, "poll", balanceOp(t)) /\ UNCHANGED <<step, funding>>
         \/ funding' = None /\ step' = "building" /\ fetch(t, k, "rebuild", prepareOp(t))
      /\ UNCHANGED <<mode, kept, built, held, alloc, landed, rows, confirmed, pool,
                     preparedLaunch, preparedBurn, sent>>
  BY DEF Polled, chain, store, endApproval
<1>1. /\ k \in Calls /\ k.fn = "fund" /\ Free(t, ops) /\ Holds("fund", k.arg, mode, kept, Named)
      /\ mode = "mainnet"
  BY <1>0, Replied DEF Holds
<1>2. Shows(step', funding', preparedLaunch', preparedBurn', sent', mode, kept, Named)
  BY <1>0 DEF IInv, Screen, Shows
<1>3. CASE return(t)
  <2>1. Queue(ops', tasks', mode, kept, Seen, confirmed, Named)
    BY <1>1, <1>3, Returned
  <2>. QED  BY <1>0, <1>2, <2>1, PageDone
<1>4. CASE fetch(t, n, "poll", balanceOp(t))
  <2>. PICK o : o = balanceOp(t)
    OBVIOUS
  <2>1. n \in Calls /\ n.fn = "fund" /\ n.arg = k.arg
    BY <1>1 DEF Calls
  <2>2. o \in Requests /\ o.id = t /\ o.op = "balance" /\ o.at = "read"
    BY OperationIs DEF balanceOp, Names
  <2>3. GoodOp(o, mode, kept, Seen, confirmed) /\ <<o.op, "poll">> \in Asks /\ <<n.fn, "poll">> \in Places
    BY <1>1, <2>1, <2>2, FreshIsGood DEF Asks, Places
  <2>4. Queue(ops', tasks', mode, kept, Seen, confirmed, Named)
    BY <1>1, <1>4, <2>1, <2>2, <2>3, Fetched
  <2>. QED  BY <1>0, <1>2, <2>4, PageDone
<1>5. CASE fetch(t, k, "rebuild", prepareOp(t))
  <2>. PICK o : o = prepareOp(t)
    OBVIOUS
  <2>1. o \in Requests /\ o.id = t /\ o.op = "prepare" /\ o.at = "read"
    <3>1. t \in Task \cup {0} /\ "prepare" \in Names /\ 0 \in Nat /\ o = operation(t, "prepare", 0, 0)
      BY DEF prepareOp, Names
    <3>. QED  BY ONLY <3>1, OperationIs
  <2>2. /\ GoodOp(o, mode, kept, Seen, confirmed) /\ <<o.op, "rebuild">> \in Asks
        /\ <<k.fn, "rebuild">> \in Places
    BY <1>1, <2>1, FreshIsGood DEF Asks, Places
  <2>3. Queue(ops', tasks', mode, kept, Seen, confirmed, Named)
    BY <1>1, <1>5, <2>1, <2>2, Fetched
  <2>. QED  BY <1>0, <1>2, <2>3, PageDone
<1>. QED  BY <1>0, <1>3, <1>4, <1>5

LEMMA DoRebuilt ==
  ASSUME IInv, NEW t \in Task, Rebuilt(t)
  PROVE  IInv'
<1>0. /\ answered(t, "fund", "rebuild") /\ return(t)
      /\ IF rejected(t) THEN step' = "idle" /\ UNCHANGED <<funding, preparedLaunch>> ELSE showBuilt(t)
      /\ UNCHANGED <<mode, kept, built, held, alloc, landed, rows, confirmed, pool,
                     preparedBurn, sent>>
  BY DEF Rebuilt, rest, store, endApproval
<1>1. Queue(ops', tasks', mode, kept, Seen, confirmed, Named)
  BY <1>0, Replied, Returned
<1>2. CASE rejected(t)
  <2>1. Shows(step', funding', preparedLaunch', preparedBurn', sent', mode, kept, Named)
    BY <1>0, <1>2 DEF IInv, Screen, Shows
  <2>. QED  BY <1>0, <1>1, <2>1, PageDone
<1>3. CASE ~rejected(t)
  <2>1. Shows(step', funding', preparedLaunch', preparedBurn', sent', mode, kept, Named)
    BY <1>0, <1>3, Showing
  <2>. QED  BY <1>0, <1>1, <2>1, PageDone
<1>. QED  BY <1>2, <1>3

LEMMA DoConfirmed ==
  ASSUME IInv, NEW t \in Task, Confirmed(t)
  PROVE  IInv'
<1>. PICK k : k = tasks[t]
  OBVIOUS
<1>. PICK o : o = operation(t, "burnPrepare", k.arg.mint, 0)
  OBVIOUS
<1>0. /\ answered(t, "launch", "confirm") /\ step' \in {step, "idle"}
      /\ return(t) \/ fetch(t, k, "burn", o)
      /\ UNCHANGED <<mode, kept, built, held, alloc, landed, rows, confirmed, pool,
                     funding, preparedLaunch, preparedBurn, sent>>
  BY DEF Confirmed, rest, store, endApproval
<1>1. /\ k \in Calls /\ k.fn = "launch" /\ Free(t, ops) /\ mode = "mainnet"
      /\ Holds("launch", k.arg, mode, kept, Named)
  <2>1. k \in Calls /\ k.fn = "launch" /\ Free(t, ops) /\ Holds("launch", k.arg, mode, kept, Named)
    BY <1>0, Replied
  <2>. QED  BY <2>1 DEF Holds
<1>2. Shows(step', funding', preparedLaunch', preparedBurn', sent', mode, kept, Named)
  BY <1>0 DEF IInv, Screen, Shows
<1>3. CASE return(t)
  <2>1. Queue(ops', tasks', mode, kept, Seen, confirmed, Named)
    BY <1>1, <1>3, Returned
  <2>. QED  BY <1>0, <1>2, <2>1, PageDone
<1>4. CASE fetch(t, k, "burn", o)
  <2>1. k.arg.mint \in Mint /\ k.arg.mint \in Nat
    BY <1>1, Kinds DEF Holds
  <2>2. o \in Requests /\ o.id = t /\ o.op = "burnPrepare" /\ o.at = "read" /\ o.mint = k.arg.mint
    BY <2>1, OperationIs DEF Names
  <2>3. GoodOp(o, mode, kept, Seen, confirmed) /\ <<o.op, "burn">> \in Asks /\ <<k.fn, "burn">> \in Places
    BY <1>1, <2>1, <2>2, FreshIsGood DEF Asks, Places
  <2>4. Queue(ops', tasks', mode, kept, Seen, confirmed, Named)
    BY <1>1, <1>4, <2>2, <2>3, Fetched
  <2>. QED  BY <1>0, <1>2, <2>4, PageDone
<1>. QED  BY <1>0, <1>3, <1>4

LEMMA DoBurnPrepared ==
  ASSUME IInv, NEW t \in Task, BurnPrepared(t)
  PROVE  IInv'
<1>0. /\ answered(t, "launch", "burn") /\ step' = "idle" /\ return(t)
      /\ preparedBurn' = IF rejected(t) \/ refused(t) THEN preparedBurn ELSE answer(t).value
      /\ UNCHANGED <<mode, kept, built, held, alloc, landed, rows, confirmed, pool,
                     funding, preparedLaunch, sent>>
  BY DEF BurnPrepared, rest, store, endApproval
<1>1. /\ Free(t, ops) /\ mode = "mainnet"
      /\ ~rejected(t) => Answers("burn", answer(t), mode, kept, Named)
  BY <1>0, Replied DEF Holds
<1>2. Queue(ops', tasks', mode, kept, Seen, confirmed, Named)
  BY <1>0, <1>1, Returned
<1>3. preparedBurn' \in burns \cup {None}
  <2>1. CASE rejected(t) \/ refused(t)
    BY <1>0, <2>1 DEF IInv, Screen, Shows
  <2>2. CASE ~rejected(t) /\ ~refused(t)
    <3>1. answer(t).what = "burn"
      BY <1>1, <2>2 DEF Answers, refused, rejected
    <3>. QED  BY <1>0, <1>1, <2>2, <3>1 DEF Answers
  <2>. QED  BY <2>1, <2>2
<1>4. Shows(step', funding', preparedLaunch', preparedBurn', sent', mode, kept, Named)
  BY <1>0, <1>1, <1>3 DEF IInv, Screen, Shows
<1>. QED  BY <1>0, <1>2, <1>4, PageDone

LEMMA DoRecorded ==
  ASSUME IInv, NEW t \in Task, Recorded(t)
  PROVE  IInv'
<1>0. /\ answered(t, "burn", "record") /\ step' = "idle" /\ return(t)
      /\ preparedBurn' \in {preparedBurn, None}
      /\ UNCHANGED <<mode, kept, built, held, alloc, landed, rows, confirmed, pool,
                     funding, preparedLaunch, sent>>
  BY DEF Recorded, rest, store, endApproval
<1>1. Queue(ops', tasks', mode, kept, Seen, confirmed, Named)
  BY <1>0, Replied, Returned
<1>2. Shows(step', funding', preparedLaunch', preparedBurn', sent', mode, kept, Named)
  BY <1>0 DEF IInv, Screen, Shows
<1>. QED  BY <1>0, <1>1, <1>2, PageDone

(* ------------------------------- faults -------------------------------- *)

LEMMA DoLoseRequest ==
  ASSUME IInv, UNCHANGED page, NEW o \in ops, LoseRequest(o)
  PROVE  IInv'
<1>1. finish(o, Lost) /\ UNCHANGED <<mode, kept, built, chain, rows, confirmed>>
  BY DEF LoseRequest, store
<1>2. Grows /\ World' /\ Rows'
  BY <1>1, QuietStep DEF IInv, World
<1>3. Waiting'
  BY <1>1, <1>2, Finished DEF IInv, Answered
<1>. QED  BY <1>2, <1>3, Together DEF Grows

LEMMA DoLoseReply ==
  ASSUME IInv, UNCHANGED page, NEW t \in Task, LoseReply(t)
  PROVE  IInv'
<1>. PICK k : k = [tasks[t] EXCEPT !.reply = Lost]
  OBVIOUS
<1>1. /\ tasks[t] # None /\ tasks[t].reply # None
      /\ tasks' = [tasks EXCEPT ![t].reply = Lost] /\ ops' = ops
      /\ UNCHANGED <<mode, kept, built, held, alloc, pool, landed, rows, confirmed>>
  BY DEF LoseReply, store, chain
<1>2. GoodTask(tasks[t], mode, kept, Named) /\ tasks[t] \in Calls /\ Free(t, ops)
  BY <1>1, TaskIsGood, FreeTask
<1>3. /\ k \in Calls /\ k.fn = tasks[t].fn /\ k.at = tasks[t].at /\ k.arg = tasks[t].arg
      /\ k.reply = Lost
  BY <1>2 DEF Calls
<1>4. GoodTask(k, mode, kept, Named)
  BY <1>2, <1>3 DEF GoodTask
<1>5. goOn(t, k)
  BY <1>1 DEF goOn
<1>6. Queue(ops', tasks', mode, kept, Seen, confirmed, Named)
  BY <1>2, <1>4, <1>5, WentOn
<1>7. Shows(step', funding', preparedLaunch', preparedBurn', sent', mode, kept, Named)
  BY DEF page, IInv, Screen
<1>. QED  BY <1>1, <1>6, <1>7, PageDone

LEMMA DoRestart ==
  ASSUME IInv, UNCHANGED page, Restart
  PROVE  IInv'
<1>0. /\ ops' = {} /\ UNCHANGED <<mode, kept, built, confirmed>>
      /\ tasks' = [t \in Task |->
           IF \E o \in ops : o.id = t THEN [tasks[t] EXCEPT !.reply = Lost] ELSE tasks[t]]
  BY DEF Restart
<1>1. /\ kept => UNCHANGED <<held, alloc, pool, landed, rows>>
      /\ ~kept => rows' = [m \in Mint |-> None] /\ UNCHANGED <<held, pool>>
      /\ landed' \in {landed, << >>}
      /\ alloc' \in [Mint -> {0, 1}]
  <2>1. CASE kept
    BY <2>1 DEF Restart, chain, store, IInv, World
  <2>2. CASE ~kept /\ mode = "demo"
    BY <2>2 DEF Restart, chain, store
  <2>3. CASE ~kept /\ mode # "demo"
    BY <2>3 DEF Restart, chain, store, IInv, World
  <2>. QED  BY <2>1, <2>2, <2>3
<1>2. Lasts
  BY <1>0, <1>1 DEF Lasts, Named
<1>3. Seen' \subseteq Seen /\ (kept => Seen' = Seen)
  BY <1>1 DEF Seen, SeenOf
<1>4. World'
  <2>1. \A tx : Backed(tx, mode, kept, Named) => Backed(tx, mode', kept', Named')
    BY <1>2, BackedStays DEF Lasts
  <2>2. landed' \in Seq(Outcomes)
    <3>1. << >> \in Seq(Outcomes) /\ landed \in Seq(Outcomes)
      BY DEF IInv, World
    <3>. QED  BY <1>1, <3>1
  <2>3. held' \in Nat /\ pool' = pool /\ built' = built /\ kept' = kept
    BY <1>0, <1>1 DEF IInv, World
  <2>. QED  BY <1>1, <1>3, <2>1, <2>2, <2>3 DEF IInv, World, Sound
<1>5. Rows'
  <2>1. CASE kept
    BY <1>0, <1>1, <1>3, <2>1, RowsStay DEF IInv
  <2>2. CASE ~kept
    BY <1>1, <2>2 DEF Rows
  <2>. QED  BY <2>1, <2>2
<1>6. Waiting'
  <2>1. ASSUME NEW t \in Task
        PROVE  /\ tasks'[t] \in Calls \cup {None}
               /\ tasks'[t] # None => GoodTask(tasks'[t], mode', kept', Named')
    <3>. PICK k : k = tasks'[t]
      OBVIOUS
    <3>1. CASE \E o \in ops : o.id = t
      <4>1. k = [tasks[t] EXCEPT !.reply = Lost]
        BY <1>0, <3>1
      <4>2. t # 0
        BY LaunchAssumption
      <4>3. tasks[t] \in Calls
        BY <3>1, <4>2 DEF IInv, Waiting, Queue, Awaited
      <4>4. GoodTask(tasks[t], mode, kept, Named)
        BY <4>3, NotNone, TaskIsGood
      <4>5. /\ k \in Calls /\ k.fn = tasks[t].fn /\ k.at = tasks[t].at /\ k.arg = tasks[t].arg
            /\ k.reply = Lost
        BY <4>1, <4>3 DEF Calls
      <4>6. GoodTask(k, mode, kept, Named)
        BY <4>4, <4>5 DEF GoodTask
      <4>. QED  BY <1>2, <4>5, <4>6, TaskStays DEF Lasts
    <3>2. CASE ~ \E o \in ops : o.id = t
      <4>1. k = tasks[t]
        BY <1>0, <3>2
      <4>2. k \in Calls \cup {None} /\ (k # None => GoodTask(k, mode, kept, Named))
        BY <4>1 DEF IInv, Waiting, Queue
      <4>. QED  BY <1>2, <4>2, TaskStays DEF Lasts
    <3>. QED  BY <3>1, <3>2
  <2>2. tasks' \in [Task -> Calls \cup {None}]
    <3>1. tasks' = [t \in Task |-> tasks'[t]]
      BY <1>0
    <3>. QED  BY <2>1, <3>1
  <2>. QED  BY <1>0, <2>1, <2>2 DEF Waiting, Queue
<1>. QED  BY <1>2, <1>4, <1>5, <1>6, Together

LEMMA DoReload ==
  ASSUME IInv, Reload
  PROVE  IInv'
<1>0. /\ step' = "idle" /\ funding' = None /\ preparedLaunch' = None
      /\ preparedBurn' = None /\ sent' = None
      /\ tasks' = [t \in Task |-> None] /\ ops' = {[o EXCEPT !.id = 0] : o \in ops}
      /\ UNCHANGED <<mode, kept, built, held, alloc, pool, landed, rows, confirmed>>
  BY DEF Reload, chain, store
<1>1. Shows(step', funding', preparedLaunch', preparedBurn', sent', mode, kept, Named)
  BY <1>0 DEF Shows
<1>2. ASSUME NEW n \in ops' PROVE GoodOp(n, mode, kept, Seen, confirmed) /\ n.id = 0
  <2>1. PICK o \in ops : n = [o EXCEPT !.id = 0]
    BY <1>0
  <2>2. GoodOp(o, mode, kept, Seen, confirmed) /\ o \in Requests
    BY OpIsGood
  <2>3. /\ n \in Requests /\ n.id = 0 /\ n.op = o.op /\ n.at = o.at /\ n.mint = o.mint
        /\ n.tx = o.tx /\ n.amount = o.amount
    BY <2>1, <2>2 DEF Requests
  <2>. QED  BY <2>2, <2>3 DEF GoodOp
<1>3. Queue(ops', tasks', mode, kept, Seen, confirmed, Named)
  BY <1>0, <1>2 DEF Queue, Awaited
<1>. QED  BY <1>0, <1>1, <1>3, PageDone

(* ------------------------------ behaviours ----------------------------- *)

LEMMA InitIInv == Init => IInv
<1>. SUFFICES ASSUME Init PROVE IInv
  OBVIOUS
<1>0. /\ kept \in BOOLEAN /\ held \in Held /\ alloc = [m \in Mint |-> 0]
      /\ built = [mint |-> 0, swap |-> 0, burn |-> 0] /\ pool = {} /\ landed = << >>
      /\ rows = [m \in Mint |-> None] /\ ops = {} /\ tasks = [t \in Task |-> None]
      /\ step = "idle" /\ funding = None /\ preparedLaunch = None
      /\ preparedBurn = None /\ sent = None
  BY DEF Init, InitServer, InitPage
<1>1. Seen = {}
  BY <1>0 DEF Seen, SeenOf
<1>2. World
  BY <1>0, <1>1, Bounds DEF World
<1>3. Rows
  BY <1>0 DEF Rows
<1>4. Waiting
  BY <1>0 DEF Waiting, Queue
<1>5. Screen
  BY <1>0 DEF Screen, Shows
<1>. QED  BY <1>2, <1>3, <1>4, <1>5 DEF IInv

LEMMA DoServe ==
  ASSUME IInv, UNCHANGED page, NEW o \in ops, Serve(o)
  PROVE  IInv'
BY DoRefuse, DoPrepareRead, DoPrepareBuild, DoPrepareRecord, DoQuoteBalance, DoConfirmRead,
   DoConfirmWrite, DoBurnPrepare, DoConvert, DoDemoLaunch, DoDemoRecord, DoDemoConvert,
   DoHydrateRead, DoHydrateWrite DEF Serve

LEMMA DoStutter == IInv /\ UNCHANGED vars => IInv'
<1>. SUFFICES ASSUME IInv, UNCHANGED vars PROVE IInv'
  OBVIOUS
<1>1. UNCHANGED <<mode, kept, built, held, alloc, pool, landed, rows, ops, tasks, confirmed,
                  step, funding, preparedLaunch, preparedBurn, sent>>
  BY DEF vars, vars_server, chain, store, page
<1>2. /\ Queue(ops', tasks', mode, kept, Seen, confirmed, Named)
      /\ Shows(step', funding', preparedLaunch', preparedBurn', sent', mode, kept, Named)
  BY <1>1 DEF IInv, Waiting, Screen
<1>. QED  BY <1>1, <1>2, PageDone

LEMMA NextIInv == IInv /\ [Next]_vars => IInv'
<1>. SUFFICES ASSUME IInv, [Next]_vars PROVE IInv'
  OBVIOUS
<1>1. ASSUME NEW t \in Task, PageStep(t) PROVE IInv'
  BY <1>1, DoBuilt, DoDemoLaunched, DoDemoStamped, DoPolled, DoRebuilt, DoConfirmed,
     DoBurnPrepared, DoRecorded DEF PageStep
<1>2. ASSUME NEW t \in Task, Phantom(t) PROVE IInv'
  BY <1>2, DoSendSwap, DoSendLaunch, DoSendBurn, DoDecline DEF Phantom
<1>3. ASSUME NEW t \in Task, Click(t) PROVE IInv'
  BY <1>3, DoSubmit, DoApprove DEF Click
<1>4. CASE NotNow \/ Reload
  BY <1>4, DoNotNow, DoReload
<1>5. CASE ServerStep /\ UNCHANGED page
  BY <1>5, DoServe, DoLoseRequest, DoLoseReply, DoRestart DEF ServerStep
<1>6. CASE Environment /\ UNCHANGED page
  BY <1>6, DoLand, DoExpire, DoTrade, DoView DEF Environment
<1>7. CASE UNCHANGED vars
  BY <1>7, DoStutter
<1>. QED  BY <1>1, <1>2, <1>3, <1>4, <1>5, <1>6, <1>7 DEF Next

(* ------------------------- burns that are sent ------------------------- *)

\* A burn is built once its mint is on chain, so no launch of that mint is
\* sent after it: what takes its place on the page is of another burn or mint.
Minted(tx, S) == Success(launchTx(tx.mint)) \in S
Accounted(tx, J, x) ==
  \/ tx \in J
  \/ x # None /\ (x.burn # None \/ x.launch # launchTx(tx.mint))
BurnFits(tx, S, J, x) == tx.kind = "burn" => Minted(tx, S) /\ Accounted(tx, J, x)
Kept == jobs \cup forgotten

MintedCall(k, S) ==
  /\ k.fn = "burn" => Minted(k.arg, S)
  /\ k.reply \notin {None, Lost} /\ k.reply.what = "burn" => Minted(k.reply.value, S)
CallsMinted(K, S) == \A t \in Task : K[t] # None => MintedCall(K[t], S)

BurnInv ==
  mode = "mainnet" =>
    /\ \A tx \in pool : BurnFits(tx, Seen, Kept, sent)
    /\ \A s \in Seen : BurnFits(s.tx, Seen, Kept, sent)
    /\ preparedBurn # None => Minted(preparedBurn, Seen)
    /\ CallsMinted(tasks, Seen)

\* The page shows what it showed, and no record of a burn is lost.
LEMMA BurnsStay ==
  ASSUME BurnInv, UNCHANGED <<mode, sent>>,
         mode = "mainnet" =>
           /\ Seen \subseteq Seen' /\ Kept \subseteq Kept'
           /\ preparedBurn' # None => Minted(preparedBurn', Seen)
           /\ pool' \subseteq pool
           /\ \A s \in Seen' : s \in Seen \/ s.tx \in pool \/ s.tx.kind # "burn"
           /\ CallsMinted(tasks', Seen)
  PROVE  BurnInv'
<1>. SUFFICES ASSUME mode = "mainnet" PROVE BurnInv'
  BY DEF BurnInv
<1>1. ASSUME NEW tx, BurnFits(tx, Seen, Kept, sent) PROVE BurnFits(tx, Seen', Kept', sent')
  BY <1>1 DEF BurnFits, Minted, Accounted
<1>2. CallsMinted(tasks', Seen')
  BY DEF CallsMinted, MintedCall, Minted
<1>3. \A s \in Seen' : BurnFits(s.tx, Seen', Kept', sent')
  <2>1. ASSUME NEW s \in Seen' PROVE BurnFits(s.tx, Seen', Kept', sent')
    <3>1. BurnFits(s.tx, Seen, Kept, sent) \/ s.tx.kind # "burn"
      BY DEF BurnInv
    <3>2. s.tx.kind # "burn" => BurnFits(s.tx, Seen', Kept', sent')
      BY DEF BurnFits
    <3>. QED  BY <1>1, <3>1, <3>2
  <2>. QED  BY <2>1
<1>4. \A tx \in pool' : BurnFits(tx, Seen', Kept', sent')
  BY <1>1 DEF BurnInv
<1>. QED  BY <1>2, <1>3, <1>4 DEF BurnInv, Minted

\* One call goes on with what it had, or with a good answer, or ends.
LEMMA CallGoesOn ==
  ASSUME NEW K, NEW S, K \in [Task -> Calls \cup {None}], CallsMinted(K, S), NEW t \in Task,
         NEW k, k = None \/ MintedCall(k, S)
  PROVE  CallsMinted([K EXCEPT ![t] = k], S)
BY DEF CallsMinted

LEMMA TasksAreCalls == IInv => tasks \in [Task -> Calls \cup {None}]
BY DEF IInv, Waiting, Queue

LEMMA AnswerMinted ==
  ASSUME IInv, CallsMinted(tasks, Seen), NEW o \in ops, NEW r, finish(o, r),
         r \in {None, Lost} \/ r.what # "burn" \/ Minted(r.value, Seen)
  PROVE  CallsMinted(tasks', Seen)
<1>1. CASE o.id = 0
  BY <1>1 DEF finish
<1>2. CASE o.id # 0
  <2>. PICK t : t = o.id
    OBVIOUS
  <2>1. t \in Task /\ tasks[t] \in Calls
    BY <1>2 DEF IInv, Waiting, Queue, Awaited, GoodOp, Requests
  <2>. PICK k : k = [tasks[t] EXCEPT !.reply = r]
    OBVIOUS
  <2>2. tasks' = [tasks EXCEPT ![t] = k]
    BY <1>2 DEF finish
  <2>3. k.fn = tasks[t].fn /\ k.arg = tasks[t].arg /\ k.reply = r
    BY <2>1 DEF Calls
  <2>4. MintedCall(tasks[t], Seen)
    BY <2>1, NotNone DEF CallsMinted
  <2>5. MintedCall(k, Seen)
    BY <2>3, <2>4 DEF MintedCall
  <2>. QED  BY <2>1, <2>2, <2>5, TasksAreCalls, CallGoesOn
<1>. QED  BY <1>1, <1>2

LEMMA ServeBurns ==
  ASSUME IInv, BurnInv, UNCHANGED <<page, forgotten>>, NEW o \in ops, Serve(o)
  PROVE  BurnInv'
<1>0. mode' = mode /\ UNCHANGED <<sent, preparedBurn, forgotten>> /\ GoodOp(o, mode, kept, Seen, confirmed)
  BY OpIsGood DEF Serve, page, Refuse, PrepareRead, PrepareBuild, PrepareRecord, QuoteBalance,
     ConfirmRead, ConfirmWrite, BurnPrepare, Convert, DemoLaunch, DemoRecord, DemoConvert,
     HydrateRead, HydrateWrite, quiet
<1>1. CASE mode # "mainnet"
  BY <1>0, <1>1 DEF BurnInv
<1>2. CASE mode = "mainnet"
  <2>1. CallsMinted(tasks, Seen) /\ (preparedBurn # None => Minted(preparedBurn, Seen))
    BY <1>2 DEF BurnInv
  <2>2. ASSUME UNCHANGED <<pool, landed>>, jobs \subseteq jobs', CallsMinted(tasks', Seen)
        PROVE  BurnInv'
    <3>1. Seen' = Seen
      BY <2>2 DEF Seen
    <3>. QED  BY <1>0, <2>1, <2>2, <3>1, BurnsStay DEF Kept
  <2>3. CASE Refuse(o)
    <3>1. finish(o, refusal) /\ refusal.what # "burn" /\ UNCHANGED <<pool, landed, jobs>>
      BY <2>3 DEF Refuse, quiet, refusal, reply, chain, store
    <3>. QED  BY <2>1, <2>2, <3>1, AnswerMinted
  <2>4. CASE PrepareRead(o)
    <3>1. /\ UNCHANGED <<pool, landed, jobs>>
          /\ \/ tasks' = tasks
             \/ \E tx : finish(o, reply("funding", tx))
      BY <2>4 DEF PrepareRead, advance, chain, store
    <3>2. \A tx : reply("funding", tx).what # "burn"
      BY DEF reply
    <3>. QED  BY <2>1, <2>2, <3>1, <3>2, AnswerMinted
  <2>5. CASE PrepareBuild(o)
    BY <2>1, <2>2, <2>5 DEF PrepareBuild, advance, chain, store
  <2>6. CASE PrepareRecord(o) \/ DemoRecord(o)
    <3>1. /\ UNCHANGED <<pool, landed, jobs>>
          /\ finish(o, reply("launch", launchTx(o.mint)))
      BY <2>6 DEF PrepareRecord, DemoRecord, chain
    <3>2. reply("launch", launchTx(o.mint)).what # "burn"
      BY DEF reply
    <3>. QED  BY <2>1, <2>2, <3>1, <3>2, AnswerMinted
  <2>7. CASE QuoteBalance(o)
    <3>1. /\ UNCHANGED <<pool, landed, jobs>> /\ finish(o, reply("balance", held))
          /\ reply("balance", held).what # "burn"
      BY <2>7 DEF QuoteBalance, quiet, reply, chain, store
    <3>. QED  BY <2>1, <2>2, <3>1, AnswerMinted
  <2>8. CASE ConfirmRead(o) \/ ConfirmWrite(o)
    <3>1. /\ UNCHANGED <<pool, landed, jobs>>
          /\ tasks' = tasks \/ finish(o, refusal) \/ finish(o, reply("ok", None))
      BY <2>8 DEF ConfirmRead, ConfirmWrite, advance, chain, store
    <3>2. refusal.what # "burn" /\ reply("ok", None).what # "burn"
      BY DEF refusal, reply
    <3>. QED  BY <2>1, <2>2, <3>1, <3>2, AnswerMinted
  <2>9. CASE BurnPrepare(o)
    <3>. PICK tx : tx = transaction("burn", o.mint, built.burn + 1, alloc[o.mint])
      OBVIOUS
    <3>1. /\ UNCHANGED <<pool, landed, jobs>> /\ finish(o, reply("burn", tx)) /\ exists(o.mint)
      BY <2>9 DEF BurnPrepare, chain, store
    <3>2. reply("burn", tx).value = tx /\ tx.mint = o.mint
      BY DEF reply, transaction
    <3>3. Minted(reply("burn", tx).value, Seen)
      BY <3>1, <3>2, ExistsIsSeen DEF Minted
    <3>. QED  BY <2>1, <2>2, <3>1, <3>3, AnswerMinted
  <2>10. CASE Convert(o)
    <3>1. /\ UNCHANGED <<pool, landed>> /\ jobs \subseteq jobs' /\ finish(o, reply("job", o.tx))
          /\ reply("job", o.tx).what # "burn"
      BY <2>10 DEF Convert, reply, chain
    <3>. QED  BY <2>1, <2>2, <3>1, AnswerMinted
  <2>11. CASE DemoLaunch(o) \/ DemoConvert(o)
    BY <1>0, <1>2, <2>11 DEF DemoLaunch, DemoConvert, GoodOp
  <2>12. CASE HydrateRead(o) \/ HydrateWrite(o)
    <3>1. UNCHANGED <<pool, landed, jobs>> /\ (tasks' = tasks \/ finish(o, None))
      BY <2>12 DEF HydrateRead, HydrateWrite, advance, quiet, chain, store
    <3>. QED  BY <2>1, <2>2, <3>1, AnswerMinted
  <2>. QED  BY <2>3, <2>4, <2>5, <2>6, <2>7, <2>8, <2>9, <2>10, <2>11, <2>12 DEF Serve
<1>. QED  BY <1>1, <1>2

LEMMA FaultBurns ==
  ASSUME IInv, BurnInv, UNCHANGED <<page, forgotten>>,
         \/ \E o \in ops : LoseRequest(o)
         \/ \E t \in Task : LoseReply(t)
         \/ Restart
  PROVE  BurnInv'
<1>0. mode' = mode /\ UNCHANGED <<sent, preparedBurn, forgotten>>
  BY DEF page, LoseRequest, LoseReply, Restart
<1>1. CASE mode # "mainnet"
  BY <1>0, <1>1 DEF BurnInv
<1>2. CASE mode = "mainnet"
  <2>1. CallsMinted(tasks, Seen) /\ (preparedBurn # None => Minted(preparedBurn, Seen))
    BY <1>2 DEF BurnInv
  <2>2. ASSUME UNCHANGED <<pool, landed, jobs>>, CallsMinted(tasks', Seen) PROVE BurnInv'
    <3>1. Seen' = Seen
      BY <2>2 DEF Seen
    <3>. QED  BY <1>0, <2>1, <2>2, <3>1, BurnsStay DEF Kept
  <2>3. ASSUME NEW o \in ops, LoseRequest(o) PROVE BurnInv'
    <3>1. finish(o, Lost) /\ UNCHANGED <<pool, landed, jobs>>
      BY <2>3 DEF LoseRequest, chain, store
    <3>. QED  BY <2>1, <2>2, <3>1, AnswerMinted
  <2>4. ASSUME NEW t \in Task, LoseReply(t) PROVE BurnInv'
    <3>. PICK k : k = [tasks[t] EXCEPT !.reply = Lost]
      OBVIOUS
    <3>1. tasks' = [tasks EXCEPT ![t] = k] /\ tasks[t] # None /\ UNCHANGED <<pool, landed, jobs>>
      BY <2>4 DEF LoseReply, chain, store
    <3>2. k.fn = tasks[t].fn /\ k.arg = tasks[t].arg /\ k.reply = Lost
      BY <3>1, TaskIsGood DEF Calls
    <3>3. MintedCall(k, Seen)
      BY <2>1, <3>1, <3>2 DEF CallsMinted, MintedCall
    <3>4. CallsMinted(tasks', Seen)
      BY <2>1, <3>1, <3>3, TasksAreCalls, CallGoesOn
    <3>. QED  BY <2>2, <3>1, <3>4
  <2>5. CASE Restart
    <3>1. ASSUME NEW t \in Task, tasks'[t] # None PROVE MintedCall(tasks'[t], Seen)
      <4>1. \/ tasks'[t] = tasks[t]
            \/ tasks'[t] = [tasks[t] EXCEPT !.reply = Lost] /\ \E o \in ops : o.id = t
        BY <2>5 DEF Restart
      <4>2. CASE tasks'[t] = tasks[t]
        BY <2>1, <3>1, <4>2 DEF CallsMinted
      <4>3. CASE tasks'[t] = [tasks[t] EXCEPT !.reply = Lost] /\ \E o \in ops : o.id = t
        <5>1. t # 0
          BY LaunchAssumption
        <5>2. tasks[t] \in Calls
          BY <4>3, <5>1 DEF IInv, Waiting, Queue, Awaited
        <5>3. MintedCall(tasks[t], Seen)
          BY <2>1, <5>2, NotNone DEF CallsMinted
        <5>. PICK k : k = tasks'[t]
          OBVIOUS
        <5>4. k.fn = tasks[t].fn /\ k.arg = tasks[t].arg /\ k.reply = Lost
          BY <4>3, <5>2 DEF Calls
        <5>. QED  BY <5>3, <5>4 DEF MintedCall
      <4>. QED  BY <4>1, <4>2, <4>3
    <3>2. CallsMinted(tasks', Seen)
      BY <3>1 DEF CallsMinted
    <3>3. CASE kept
      BY <2>2, <2>5, <3>2, <3>3 DEF Restart, chain, store
    <3>4. CASE ~kept
      <4>1. UNCHANGED <<pool, landed>>
        BY <1>2, <2>5, <3>4 DEF Restart, chain
      <4>2. Seen' = Seen
        BY <4>1 DEF Seen
      <4>3. ASSUME NEW tx PROVE ~Minted(tx, Seen)
        <5>. SUFFICES ASSUME Minted(tx, Seen) PROVE FALSE
          OBVIOUS
        <5>1. Success(launchTx(tx.mint)).tx = launchTx(tx.mint)
          BY DEF Success
        <5>2. Backed(launchTx(tx.mint), mode, kept, Named)
          BY <5>1 DEF Minted, IInv, World
        <5>. QED  BY <1>2, <3>4, <5>2 DEF Backed, launchTx, transaction
      <4>4. \A tx : BurnFits(tx, Seen, Kept, sent) => BurnFits(tx, Seen', Kept', sent')
        BY <4>3 DEF BurnFits
      <4>. QED  BY <1>0, <1>2, <2>1, <3>2, <4>1, <4>2, <4>4 DEF BurnInv
    <3>. QED  BY <3>3, <3>4
  <2>. QED  BY <2>3, <2>4, <2>5
<1>. QED  BY <1>1, <1>2

LEMMA EnvironmentBurns ==
  ASSUME IInv, BurnInv, UNCHANGED <<page, forgotten>>, Environment
  PROVE  BurnInv'
<1>0. UNCHANGED <<mode, sent, preparedBurn, forgotten, jobs, tasks>>
  BY DEF page, Environment, Land, Expire, Trade, View, store
<1>1. ASSUME Seen \subseteq Seen', pool' \subseteq pool,
             \A s \in Seen' : s \in Seen \/ s.tx \in pool \/ s.tx.kind # "burn"
      PROVE  BurnInv'
  <2>1. mode = "mainnet" => CallsMinted(tasks', Seen) /\ (preparedBurn # None => Minted(preparedBurn, Seen))
    BY <1>0 DEF BurnInv
  <2>. QED  BY <1>0, <1>1, <2>1, BurnsStay DEF Kept
<1>2. ASSUME NEW tx \in pool, Land(tx) PROVE BurnInv'
  <2>1. PICK ok \in BOOLEAN : landed' = Append(landed, [tx |-> tx, ok |-> ok])
    BY <1>2 DEF Land, execute
  <2>. PICK s : s = [tx |-> tx, ok |-> ok]
    OBVIOUS
  <2>2. s \in Outcomes /\ s.tx = tx
    BY Kinds DEF IInv, World, Sound, Outcomes
  <2>3. Seen' = Seen \cup {s}
    <3>1. landed \in Seq(Outcomes) /\ landed' = Append(landed, s)
      BY <2>1 DEF IInv, World
    <3>2. SeenOf(landed') = SeenOf(landed) \cup {s}
      BY ONLY <2>2, <3>1, SeenMore
    <3>. QED  BY <3>2 DEF Seen
  <2>4. pool' \subseteq pool
    BY <1>2 DEF Land
  <2>. QED  BY <1>1, <2>2, <2>3, <2>4
<1>3. ASSUME NEW tx \in pool, Expire(tx) PROVE BurnInv'
  <2>1. Seen' = Seen /\ pool' \subseteq pool
    BY <1>3 DEF Expire, Seen
  <2>. QED  BY <1>1, <2>1
<1>4. ASSUME NEW m \in Mint, Trade(m) PROVE BurnInv'
  <2>. PICK tx : tx = transaction("trade", m, Len(landed), 0)
    OBVIOUS
  <2>. PICK s : s = [tx |-> tx, ok |-> TRUE]
    OBVIOUS
  <2>1. landed \in Seq(Outcomes) /\ Len(landed) \in Nat /\ m \in Nat
    BY Kinds DEF IInv, World
  <2>2. tx \in Transactions /\ tx.kind = "trade"
    BY <2>1 DEF transaction, Transactions
  <2>3. s \in Outcomes /\ s.tx = tx
    BY <2>2 DEF Outcomes
  <2>4. landed' = Append(landed, s) /\ pool' = pool
    BY <1>4 DEF Trade, execute
  <2>5. SeenOf(landed') = SeenOf(landed) \cup {s}
    BY ONLY <2>1, <2>3, <2>4, SeenMore
  <2>. QED  BY <1>1, <2>2, <2>3, <2>4, <2>5 DEF Seen
<1>5. ASSUME NEW m \in Mint, View(m) PROVE BurnInv'
  <2>1. Seen' = Seen /\ pool' = pool
    BY <1>5 DEF View, Seen, chain
  <2>. QED  BY <1>1, <2>1
<1>. QED  BY <1>2, <1>3, <1>4, <1>5 DEF Environment

\* The page acts, and sends nothing.
LEMMA PageBurns ==
  ASSUME IInv, BurnInv, UNCHANGED <<mode, pool, landed, jobs, forgotten, sent>>, NEW t \in Task,
         mode = "mainnet" /\ preparedBurn' # None => Minted(preparedBurn', Seen),
         NEW k, tasks' = [tasks EXCEPT ![t] = k], mode = "mainnet" => k = None \/ MintedCall(k, Seen)
  PROVE  BurnInv'
<1>1. Seen' = Seen
  BY DEF Seen
<1>2. mode = "mainnet" => CallsMinted(tasks', Seen)
  BY TasksAreCalls, CallGoesOn DEF BurnInv
<1>. QED  BY <1>1, <1>2, BurnsStay DEF Kept

\* A call that fetches has its closure, and no answer yet.
LEMMA FetchingCall ==
  ASSUME NEW k \in Calls, NEW at, NEW S, k.fn = "burn" => Minted(k.arg, S)
  PROVE  MintedCall([k EXCEPT !.at = at, !.reply = None], S)
<1>. PICK n : n = [k EXCEPT !.at = at, !.reply = None]
  OBVIOUS
<1>1. n.fn = k.fn /\ n.arg = k.arg /\ n.reply = None
  BY DEF Calls
<1>. QED  BY <1>1 DEF MintedCall

LEMMA StepBurns ==
  ASSUME IInv, BurnInv, NEW t \in Task, PageStep(t)
  PROVE  BurnInv'
<1>. PICK k : k = tasks[t]
  OBVIOUS
<1>0. mode = "mainnet" => CallsMinted(tasks, Seen) /\ (preparedBurn # None => Minted(preparedBurn, Seen))
  BY DEF BurnInv
<1>1. k \in Calls /\ k # None
  BY TaskIsGood DEF PageStep, Built, DemoLaunched, DemoStamped, Polled, Rebuilt, Confirmed,
     BurnPrepared, Recorded, answered, running
<1>2. mode = "mainnet" /\ k.fn = "burn" => Minted(k.arg, Seen)
  BY <1>0, <1>1 DEF CallsMinted, MintedCall
<1>3. UNCHANGED <<mode, pool, landed, jobs, forgotten, sent>>
  BY DEF PageStep, Built, DemoLaunched, DemoStamped, Polled, Rebuilt, Confirmed,
     BurnPrepared, Recorded, rest, store, chain
<1>4. ASSUME return(t), preparedBurn' \in {preparedBurn, None} PROVE BurnInv'
  BY <1>0, <1>3, <1>4, PageBurns DEF return, goOn
<1>5. ASSUME NEW at, NEW o, NEW n \in Calls, fetch(t, n, at, o), n.fn = k.fn, n.arg = k.arg,
             UNCHANGED preparedBurn
      PROVE  BurnInv'
  <2>1. mode = "mainnet" => MintedCall([n EXCEPT !.at = at, !.reply = None], Seen)
    BY <1>2, <1>5, FetchingCall
  <2>. QED  BY <1>0, <1>3, <1>5, <2>1, PageBurns DEF fetch
<1>6. CASE Built(t) \/ DemoStamped(t) \/ Rebuilt(t) \/ Recorded(t)
  BY <1>4, <1>6 DEF Built, DemoStamped, Rebuilt, Recorded
<1>7. CASE DemoLaunched(t) \/ Confirmed(t)
  BY <1>1, <1>4, <1>5, <1>7 DEF DemoLaunched, Confirmed
<1>8. CASE Polled(t)
  <2>1. [k EXCEPT !.polls = @ + 1] \in Calls /\ [k EXCEPT !.polls = @ + 1].fn = k.fn
        /\ [k EXCEPT !.polls = @ + 1].arg = k.arg
    BY <1>1 DEF Calls
  <2>2. /\ UNCHANGED preparedBurn
        /\ \/ return(t)
           \/ fetch(t, [k EXCEPT !.polls = @ + 1], "poll", balanceOp(t))
           \/ fetch(t, k, "rebuild", prepareOp(t))
    BY <1>8 DEF Polled
  <2>. QED  BY <1>1, <1>4, <1>5, <2>1, <2>2
<1>9. CASE BurnPrepared(t)
  <2>1. /\ answered(t, "launch", "burn") /\ return(t)
        /\ preparedBurn' = IF rejected(t) \/ refused(t) THEN preparedBurn ELSE answer(t).value
    BY <1>9 DEF BurnPrepared
  <2>2. CASE rejected(t) \/ refused(t)
    BY <1>4, <2>1, <2>2
  <2>3. CASE ~rejected(t) /\ ~refused(t)
    <3>1. answer(t).what = "burn"
      BY <2>1, <2>3, AnswerIsGood DEF Answers, refused, rejected
    <3>2. k.reply = answer(t) /\ k.reply \notin {None, Lost}
      BY <2>1, <2>3 DEF answered, answer, rejected
    <3>3. mode = "mainnet" => Minted(preparedBurn', Seen)
      BY <1>0, <1>1, <2>1, <2>3, <3>1, <3>2 DEF CallsMinted, MintedCall
    <3>. QED  BY <1>3, <2>1, <3>3, PageBurns DEF return, goOn
  <2>. QED  BY <2>2, <2>3
<1>. QED  BY <1>6, <1>7, <1>8, <1>9 DEF PageStep

LEMMA ClickBurns ==
  ASSUME IInv, BurnInv, NEW t \in Task, Click(t)
  PROVE  BurnInv'
<1>0. mode = "mainnet" /\ preparedBurn # None => Minted(preparedBurn, Seen)
  BY DEF BurnInv
<1>1. UNCHANGED <<mode, pool, landed, jobs, forgotten, sent, preparedBurn>>
  BY DEF Click, Submit, ApproveFunding, ApproveLaunch, ApproveBurn, approve, rest, store
<1>2. CASE Submit(t)
  <2>1. PICK fn, at, o : /\ fn # "burn" /\ <<fn, at>> \in Places
                         /\ fetch(t, task(fn, at, None), at, o)
    BY <1>2 DEF Submit, Places
  <2>2. task(fn, at, None) \in Calls /\ task(fn, at, None).fn # "burn"
    BY <2>1, TaskIs
  <2>3. MintedCall([task(fn, at, None) EXCEPT !.at = at, !.reply = None], Seen)
    BY <2>2, FetchingCall
  <2>. QED  BY <1>0, <1>1, <2>1, <2>3, PageBurns DEF fetch
<1>3. ASSUME NEW fn \in {"fund", "launch", "burn"}, NEW tx, approve(t, fn, tx),
             fn = "burn" => tx = preparedBurn
      PROVE  BurnInv'
  <2>. PICK k : k = task(fn, "phantom", tx)
    OBVIOUS
  <2>1. tasks' = [tasks EXCEPT ![t] = k] /\ tx # None
    BY <1>3 DEF approve, goOn
  <2>2. k.fn = fn /\ k.arg = tx /\ k.reply = None
    BY DEF task
  <2>3. mode = "mainnet" => MintedCall(k, Seen)
    BY <1>0, <1>3, <2>1, <2>2 DEF MintedCall
  <2>. QED  BY <1>0, <1>1, <2>1, <2>3, PageBurns
<1>. QED  BY <1>2, <1>3 DEF Click, ApproveFunding, ApproveLaunch, ApproveBurn

\* Something is sent: sent' is what the page shows from now on.
LEMMA SendBurns ==
  ASSUME IInv, BurnInv, UNCHANGED <<mode, landed, jobs, forgotten, preparedBurn>>, NEW t \in Task,
         mode = "mainnet", tasks[t] # None, tasks[t] \in Calls,
         NEW at, NEW o, fetch(t, tasks[t], at, o), pool' = pool \cup {tasks[t].arg},
         BurnFits(tasks[t].arg, Seen', Kept', sent'), \A tx : BurnFits(tx, Seen, Kept, sent) => BurnFits(tx, Seen', Kept', sent')
  PROVE  BurnInv'
<1>1. Seen' = Seen
  BY DEF Seen
<1>2. CallsMinted(tasks, Seen) /\ (preparedBurn # None => Minted(preparedBurn, Seen))
  BY DEF BurnInv
<1>. PICK k : k = [tasks[t] EXCEPT !.at = at, !.reply = None]
  OBVIOUS
<1>3. MintedCall(k, Seen)
  BY <1>2, FetchingCall DEF CallsMinted, MintedCall
<1>4. tasks' = [tasks EXCEPT ![t] = k]
  BY DEF fetch
<1>5. CallsMinted(tasks', Seen)
  BY <1>2, <1>3, <1>4, TasksAreCalls, CallGoesOn
<1>6. /\ \A tx \in pool' : BurnFits(tx, Seen', Kept', sent')
      /\ \A s \in Seen' : BurnFits(s.tx, Seen', Kept', sent')
  BY <1>1 DEF BurnInv
<1>. QED  BY <1>1, <1>2, <1>5, <1>6 DEF BurnInv

LEMMA PhantomBurns ==
  ASSUME IInv, BurnInv, NEW t \in Task, Phantom(t)
  PROVE  BurnInv'
<1>. PICK tx : tx = tasks[t].arg
  OBVIOUS
<1>1. CASE SendSwap(t)
  <2>1. /\ running(t, "fund", "phantom") /\ pool' = pool \cup {tx}
        /\ fetch(t, tasks[t], "poll", balanceOp(t))
        /\ UNCHANGED <<mode, landed, jobs, forgotten, preparedBurn, sent>>
    BY <1>1 DEF SendSwap, signAndSend, rest, page, store
  <2>2. tasks[t] # None /\ tasks[t] \in Calls /\ mode = "mainnet" /\ tx.kind # "burn"
    BY <2>1, Asked, Kinds DEF Holds, running
  <2>3. BurnFits(tx, Seen', Kept', sent')
    BY <2>2 DEF BurnFits
  <2>4. \A y : BurnFits(y, Seen, Kept, sent) => BurnFits(y, Seen', Kept', sent')
    BY <2>1 DEF BurnFits, Minted, Accounted, Seen, Kept
  <2>. QED  BY <2>1, <2>2, <2>3, <2>4, SendBurns
<1>2. CASE SendLaunch(t)
  <2>. PICK o : o = operation(t, "confirm", tx.mint, 0)
    OBVIOUS
  <2>1. /\ running(t, "launch", "phantom") /\ pool' = pool \cup {tx} /\ ~hasLanded(tx)
        /\ fetch(t, tasks[t], "confirm", o)
        /\ sent' = [launch |-> tx, burn |-> None]
        /\ UNCHANGED <<mode, landed, jobs, forgotten, preparedBurn>>
    BY <1>2 DEF SendLaunch, signAndSend, rest, store
  <2>2. tasks[t] # None /\ tasks[t] \in Calls /\ mode = "mainnet" /\ tx \in launches
    BY <2>1, Asked DEF Holds, running
  <2>3. tx.kind # "burn" /\ tx \in Transactions
    BY <2>2, Kinds
  <2>4. BurnFits(tx, Seen', Kept', sent')
    BY <2>3 DEF BurnFits
  <2>5. sent' # None
    BY <2>1, <2>3, PageAssumption DEF Sent
  <2>6. ASSUME NEW y, Minted(y, Seen) PROVE Accounted(y, Kept', sent') /\ Minted(y, Seen')
    <3>1. PICK i \in DOMAIN landed : landed[i] = Success(launchTx(y.mint))
      BY <2>6 DEF Minted, Seen, SeenOf
    <3>2. hasLanded(launchTx(y.mint))
      BY <3>1 DEF hasLanded, Success
    <3>3. sent'.launch # launchTx(y.mint)
      BY <2>1, <3>2
    <3>. QED  BY <2>1, <2>5, <2>6, <3>3 DEF Accounted, Minted, Seen
  <2>7. \A y : BurnFits(y, Seen, Kept, sent) => BurnFits(y, Seen', Kept', sent')
    BY <2>6 DEF BurnFits
  <2>. QED  BY <2>1, <2>2, <2>4, <2>7, SendBurns
<1>3. CASE SendBurn(t)
  <2>1. /\ running(t, "burn", "phantom") /\ pool' = pool \cup {tx}
        /\ fetch(t, tasks[t], "record", convertOp(t, tx))
        /\ sent' = [launch |-> IF sent = None THEN None ELSE sent.launch, burn |-> tx]
        /\ UNCHANGED <<mode, landed, jobs, forgotten, preparedBurn>>
    BY <1>3 DEF SendBurn, signAndSend, rest, store
  <2>2. /\ tasks[t] # None /\ tasks[t] \in Calls /\ mode = "mainnet" /\ tx \in burns
        /\ tasks[t].fn = "burn"
    BY <2>1, Asked DEF Holds, running
  <2>3. tx # None /\ tx \in Transactions
    BY <2>2, Kinds, NotNone
  <2>4. sent' # None /\ sent'.burn = tx
    <3>1. (IF sent = None THEN None ELSE sent.launch) \in Transactions \cup {None}
      BY Kinds DEF IInv, Screen, Shows
    <3>. QED  BY <2>1, <2>3, <3>1, PageAssumption DEF Sent
  <2>5. Minted(tx, Seen)
    BY <2>2 DEF BurnInv, CallsMinted, MintedCall
  <2>6. BurnFits(tx, Seen', Kept', sent')
    BY <2>1, <2>3, <2>4, <2>5 DEF BurnFits, Accounted, Minted, Seen
  <2>7. \A y : BurnFits(y, Seen, Kept, sent) => BurnFits(y, Seen', Kept', sent')
    BY <2>1, <2>3, <2>4 DEF BurnFits, Accounted, Minted, Seen, Kept
  <2>. QED  BY <2>1, <2>2, <2>6, <2>7, SendBurns
<1>4. CASE Decline(t)
  <2>1. /\ tasks' = [tasks EXCEPT ![t] = None]
        /\ UNCHANGED <<mode, pool, landed, jobs, forgotten, sent, preparedBurn>>
    BY <1>4 DEF Decline, return, goOn, rest, store
  <2>. QED  BY <2>1, PageBurns DEF BurnInv
<1>. QED  BY <1>1, <1>2, <1>3, <1>4 DEF Phantom

LEMMA LeaveBurns ==
  ASSUME IInv, BurnInv, NotNow \/ Reload
  PROVE  BurnInv'
<1>1. CASE NotNow
  <2>1. /\ UNCHANGED <<mode, pool, landed, jobs, forgotten, sent, tasks>>
        /\ preparedBurn' \in {preparedBurn, None}
    BY <1>1 DEF NotNow, rest, store
  <2>2. Seen' = Seen
    BY <2>1 DEF Seen
  <2>3. mode = "mainnet" => CallsMinted(tasks', Seen) /\ (preparedBurn' # None => Minted(preparedBurn', Seen))
    BY <2>1 DEF BurnInv
  <2>. QED  BY <2>1, <2>2, <2>3, BurnsStay DEF Kept
<1>2. CASE Reload
  <2>1. /\ UNCHANGED <<mode, pool, landed, jobs>> /\ preparedBurn' = None
        /\ tasks' = [u \in Task |-> None]
        /\ forgotten' = forgotten \cup {tx \in pool \cup {landed[i].tx : i \in DOMAIN landed} :
                                          tx.kind = "burn"}
    BY <1>2 DEF Reload, chain, store
  <2>2. Seen' = Seen
    BY <2>1 DEF Seen
  <2>3. \A tx \in pool : tx.kind = "burn" => tx \in forgotten'
    BY <2>1
  <2>4. \A s \in Seen : s.tx.kind = "burn" => s.tx \in forgotten'
    BY <2>1 DEF Seen, SeenOf
  <2>5. CallsMinted(tasks', Seen')
    BY <2>1 DEF CallsMinted
  <2>6. mode = "mainnet" => \A tx \in pool' : BurnFits(tx, Seen', Kept', sent')
    BY <2>1, <2>2, <2>3 DEF BurnInv, BurnFits, Accounted, Kept
  <2>7. mode = "mainnet" => \A s \in Seen' : BurnFits(s.tx, Seen', Kept', sent')
    BY <2>1, <2>2, <2>4 DEF BurnInv, BurnFits, Accounted, Kept
  <2>. QED  BY <2>1, <2>5, <2>6, <2>7 DEF BurnInv
<1>. QED  BY <1>1, <1>2

LEMMA NextBurns == IInv /\ BurnInv /\ [Next]_vars => BurnInv'
<1>. SUFFICES ASSUME IInv, BurnInv, [Next]_vars PROVE BurnInv'
  OBVIOUS
<1>1. ASSUME NEW t \in Task, PageStep(t) \/ Phantom(t) \/ Click(t) PROVE BurnInv'
  BY <1>1, StepBurns, PhantomBurns, ClickBurns
<1>2. CASE NotNow \/ Reload
  BY <1>2, LeaveBurns
<1>3. CASE ServerStep /\ UNCHANGED <<page, forgotten>>
  BY <1>3, ServeBurns, FaultBurns DEF ServerStep
<1>4. CASE Environment /\ UNCHANGED <<page, forgotten>>
  BY <1>4, EnvironmentBurns
<1>5. CASE UNCHANGED vars
  <2>1. UNCHANGED <<mode, pool, landed, jobs, forgotten, sent, preparedBurn, tasks>>
    BY <1>5 DEF vars, vars_server, chain, store, page
  <2>. QED  BY <2>1 DEF BurnInv, Seen, Kept
<1>. QED  BY <1>1, <1>2, <1>3, <1>4, <1>5 DEF Next

\* A launch row and the mint it names come together: what a mint's metadata
\* address serves is recorded before anyone can approve the mint, and a demo
\* launch is listed once its ledger is saved (prepareMainnetLaunch,
\* createDemoLaunch), whatever is lost, restarted or reloaded in between.
THEOREM RowsAlwaysFit == Spec => []RowsAreLaunches
<1>1. IInv => RowsAreLaunches
  <2>. SUFFICES ASSUME IInv PROVE RowsAreLaunches
    OBVIOUS
  <2>1. TypeOK
    BY DEF IInv, World, Rows, Screen, Shows, TypeOK
  <2>2. MetadataResolves
    <3>. SUFFICES ASSUME mode = "mainnet", NEW m \in Mint, exists(m) PROVE rows[m] # None
      BY DEF MetadataResolves
    <3>1. Success(launchTx(m)) \in Seen /\ Success(launchTx(m)).tx = launchTx(m)
      BY ExistsIsSeen DEF Success
    <3>2. Backed(launchTx(m), mode, kept, Named)
      BY <3>1 DEF IInv, World
    <3>3. launchTx(m).kind = "launch" /\ launchTx(m).mint = m
      BY DEF launchTx, transaction
    <3>. QED  BY <3>2, <3>3 DEF Backed, Named
  <2>3. ListedIsOnLedger
    BY ExistsIsSeen DEF ListedIsOnLedger, IInv, Rows
  <2>. QED  BY <2>1, <2>2, <2>3 DEF RowsAreLaunches
<1>. QED  BY <1>1, InitIInv, NextIInv, PTL DEF Spec

\* What a view fills in for a launch that nobody confirmed is a transaction
\* that names the mint and has succeeded (hydrateLaunchTx).
THEOREM FilledInTxSucceeded == Spec => []HydratedTxSucceeded
<1>1. IInv => HydratedTxSucceeded
  BY DEF IInv, Rows, HydratedTxSucceeded, Seen, SeenOf, Success
<1>. QED  BY <1>1, InitIInv, NextIInv, PTL DEF Spec

\* A burn that has landed has a job or is shown, or the user has left the page
\* or gone on to another burn or launch that is shown in its place: no answer
\* that is lost, no restart and no order of two approvals takes it out of sight
\* (approveLaunch, approveBurn).
THEOREM BurnsStayInSight == Spec => []BurnAccountedFor
<1>1. Init => BurnInv
  <2>. SUFFICES ASSUME Init PROVE BurnInv
    OBVIOUS
  <2>1. pool = {} /\ landed = << >> /\ tasks = [t \in Task |-> None] /\ preparedBurn = None
    BY DEF Init, InitServer, InitPage
  <2>. QED  BY <2>1 DEF BurnInv, Seen, SeenOf, CallsMinted
<1>2. BurnInv => BurnAccountedFor
  BY DEF BurnInv, BurnFits, Accounted, BurnAccountedFor, displaced, Kept, Seen, SeenOf
<1>. QED  BY <1>1, <1>2, InitIInv, NextIInv, NextBurns, PTL DEF Spec

=============================================================================
