---------------------------- MODULE LaunchServer ----------------------------
(***************************************************************************)
(* Launching a token and burning its allocation, as the server and Solana  *)
(* see it (src/lib/app.ts and the routes under src/app/api/launches and    *)
(* src/app/api/convert).  The server builds transactions and records       *)
(* identities; only the user's wallet sends anything.                      *)
(*                                                                         *)
(* A request is an operation in ops, which takes a step at each await      *)
(* where something it has read may change.  Its id is the task of the page *)
(* that waits for it, or 0 when nobody does any more.  In demo mode the    *)
(* chain is the deployment's own, in the same store as the rows.  The      *)
(* issuance that follows a submitted burn is in LiveJobs and JobWorker.    *)
(***************************************************************************)
EXTENDS Naturals, FiniteSets, Sequences, SequencesExt

CONSTANTS
  MaxMints,   \* bound: mints generated
  MaxSwaps,   \* bound: swaps built
  MaxBurns,   \* bound: burns built
  MaxFaults,  \* bound: restarts, reloads, lost messages, failed transactions,
              \* other people's trades
  Modes,      \* deployments considered: "demo", "mainnet"
  Task,       \* calls of the page's functions that can be under way at once
  Need,       \* quote units of the initial buy
  Held,       \* quote units the wallet may own at the start
  Window,     \* signatures hydrateLaunchTx asks for
  MaxPolls,   \* balance reads that fit in the wait of approveFunding
  Blank,      \* launchTx of a row that is waiting for its mint
  None, Lost

ASSUME LaunchAssumption ==
  /\ {MaxMints, MaxSwaps, MaxBurns, MaxFaults, Window, MaxPolls} \subseteq Nat
  /\ Need \in Nat \ {0} /\ Held \subseteq Nat /\ Task \subseteq Nat \ {0}

VARIABLES
  mode,       \* stampMode()
  kept,       \* the store outlives a restart: durability() # "ephemeral"
  held,       \* quote units in the wallet
  alloc,      \* alloc[m]: base units of mint m in the wallet
  built,      \* [mint, swap, burn]: how many of each have been built
  pool,       \* transactions sent and not yet landed
  landed,     \* transactions on chain in order, each with its outcome
  rows,       \* rows[m]: launchTx of the launch row, or None without a row
  jobs,       \* burns with a job
  ops,        \* requests being served
  tasks,      \* tasks[t]: the call of the page in slot t, or None
  faults,
  confirmed   \* history: launch transactions a page has told the server of

chain == <<held, alloc, pool, landed>>
store == <<rows, jobs>>
vars_server == <<mode, kept, built, chain, store, ops, tasks, faults, confirmed>>

Mint == 1 .. MaxMints
Transactions == [kind : {"launch", "swap", "burn", "trade"}, mint : Nat, n : Nat, amount : Nat]
transaction(kind, mint, n, amount) ==
  [kind |-> kind, mint |-> mint, n |-> n, amount |-> amount]
launchTx(m) == transaction("launch", m, 0, Need)

InitServer ==
  /\ mode \in Modes /\ kept \in BOOLEAN /\ held \in Held
  /\ alloc = [m \in Mint |-> 0]
  /\ built = [mint |-> 0, swap |-> 0, burn |-> 0]
  /\ pool = {} /\ landed = << >>
  /\ rows = [m \in Mint |-> None] /\ jobs = {}
  /\ ops = {} /\ tasks = [t \in Task |-> None]
  /\ faults = 0 /\ confirmed = {}

----------------------------------------------------------------------------
(* Solana *)

fault == faults < MaxFaults /\ faults' = faults + 1

exists(m) == \E i \in DOMAIN landed : landed[i] = [tx |-> launchTx(m), ok |-> TRUE]
hasLanded(tx) == \E i \in DOMAIN landed : landed[i].tx = tx

\* What the programs require of a transaction.
succeeds(tx) ==
  CASE tx.kind = "launch" -> held >= Need
    [] tx.kind = "swap" -> TRUE
    [] tx.kind = "burn" -> alloc[tx.mint] >= tx.amount
    [] tx.kind = "trade" -> exists(tx.mint)

execute(tx) ==
  /\ landed' = Append(landed, [tx |-> tx, ok |-> TRUE])
  /\ held' = CASE tx.kind = "launch" -> held - Need
               [] tx.kind = "swap" -> held + tx.amount
               [] OTHER -> held
  /\ alloc' = CASE tx.kind = "launch" -> [alloc EXCEPT ![tx.mint] = 1]
                [] tx.kind = "burn" -> [alloc EXCEPT ![tx.mint] = @ - tx.amount]
                [] OTHER -> alloc

\* It fails when the programs refuse it, and now and then for other reasons:
\* slippage, a change at the venue.
Land(tx) ==
  /\ pool' = pool \ {tx}
  /\ \/ succeeds(tx) /\ execute(tx) /\ UNCHANGED faults
     \/ /\ IF succeeds(tx) THEN fault ELSE UNCHANGED faults
        /\ landed' = Append(landed, [tx |-> tx, ok |-> FALSE])
        /\ UNCHANGED <<held, alloc>>
  /\ UNCHANGED <<mode, kept, built, store, ops, tasks, confirmed>>

\* Its blockhash is too old.
Expire(tx) ==
  /\ pool' = pool \ {tx}
  /\ UNCHANGED <<mode, kept, built, held, alloc, landed, store, ops, tasks, faults, confirmed>>

\* Somebody else trades the token.
Trade(m) ==
  LET tx == transaction("trade", m, Len(landed), 0)
  IN  /\ mode = "mainnet" /\ exists(m)
      /\ fault
      /\ execute(tx)
      /\ UNCHANGED <<mode, kept, built, pool, store, ops, tasks, confirmed>>

\* getSignaturesForAddress: the places of what names the mint, the newest Window.
signaturesFor(m) ==
  LET all == {i \in DOMAIN landed : landed[i].tx.mint = m}
  IN  {i \in all : Cardinality({j \in all : j > i}) < Window}

----------------------------------------------------------------------------
(* Requests *)

operation(id, op, mint, amount) ==
  [id |-> id, op |-> op, at |-> "read", mint |-> mint, tx |-> None,
   amount |-> amount]

reply(what, v) == [what |-> what, value |-> v]
refusal == reply("error", None)

advance(o, next) == ops' = (ops \ {o}) \cup {next} /\ tasks' = tasks
finish(o, r) ==
  /\ ops' = ops \ {o}
  /\ tasks' = IF o.id = 0 THEN tasks ELSE [tasks EXCEPT ![o.id].reply = r]

quiet == UNCHANGED <<mode, kept, built, chain, store, faults, confirmed>>

\* A gate is closed: links, artwork, amount, destination, operator flags, the
\* venue, Jupiter, a transaction that is too long or fails its simulation.
Refuse(o) ==
  /\ o.at \in {"read", "build"} /\ o.op \notin {"balance", "hydrate"}
  /\ finish(o, refusal) /\ quiet

durabilityProblem == ~kept

quoteShortfall == IF held >= Need THEN 0 ELSE Need - held

\* prepareMainnetLaunch up to the wallet's balance.
PrepareRead(o) ==
  /\ o.op = "prepare" /\ o.at = "read"
  /\ ~durabilityProblem
  /\ IF quoteShortfall > 0
     THEN /\ built.swap < MaxSwaps
          /\ built' = [built EXCEPT !.swap = @ + 1]
          /\ finish(o, reply("funding",
               transaction("swap", 0, built.swap + 1, quoteShortfall)))
     ELSE advance(o, [o EXCEPT !.at = "build"]) /\ UNCHANGED built
  /\ UNCHANGED <<mode, kept, chain, store, faults, confirmed>>

\* prepareLiveLaunch: a fresh mint key, the balance read again.
PrepareBuild(o) ==
  /\ o.op = "prepare" /\ o.at = "build"
  /\ held >= Need /\ built.mint < MaxMints
  /\ built' = [built EXCEPT !.mint = @ + 1]
  /\ advance(o, [o EXCEPT !.at = "record", !.mint = built.mint + 1])
  /\ UNCHANGED <<mode, kept, chain, store, faults, confirmed>>

PrepareRecord_unrecorded(o) ==
  /\ o.op = "prepare" /\ o.at = "record"
  /\ finish(o, reply("launch", launchTx(o.mint)))
  /\ rows' = rows
  /\ UNCHANGED <<mode, kept, built, chain, jobs, faults, confirmed>>
\* The identity is recorded before anyone can approve the mint.
PrepareRecord(o) ==
  /\ o.op = "prepare" /\ o.at = "record"
  /\ rows' = [rows EXCEPT ![o.mint] = Blank]
  /\ finish(o, reply("launch", launchTx(o.mint)))
  /\ UNCHANGED <<mode, kept, built, chain, jobs, faults, confirmed>>

QuoteBalance(o) ==
  o.op = "balance" /\ finish(o, reply("balance", held)) /\ quiet

\* recordLaunchTx, which does not ask the chain.
ConfirmRead(o) ==
  /\ o.op = "confirm" /\ o.at = "read"
  /\ confirmed' = confirmed \cup {launchTx(o.mint)}
  /\ CASE rows[o.mint] = None -> finish(o, refusal)
       [] rows[o.mint] \notin {None, Blank, launchTx(o.mint)} -> finish(o, reply("ok", None))
       [] OTHER -> advance(o, [o EXCEPT !.at = "write", !.tx = launchTx(o.mint)])
  /\ UNCHANGED <<mode, kept, built, chain, store, faults>>

ConfirmWrite(o) ==
  /\ o.op = "confirm" /\ o.at = "write"
  /\ rows' = [rows EXCEPT ![o.mint] = o.tx]
  /\ finish(o, reply("ok", None))
  /\ UNCHANGED <<mode, kept, built, chain, jobs, faults, confirmed>>

\* prepareMainnetBurn: the whole allocation, read off chain.
BurnPrepare(o) ==
  /\ o.op = "burnPrepare"
  /\ exists(o.mint) /\ alloc[o.mint] > 0 /\ built.burn < MaxBurns
  /\ built' = [built EXCEPT !.burn = @ + 1]
  /\ finish(o, reply("burn", transaction("burn", o.mint, built.burn + 1, alloc[o.mint])))
  /\ UNCHANGED <<mode, kept, chain, store, faults, confirmed>>

\* convert outside demo mode: submitLiveBurn files the job unseen.
Convert(o) ==
  /\ o.op = "convert" /\ mode = "mainnet" /\ o.tx # None
  /\ jobs' = jobs \cup {o.tx}
  /\ finish(o, reply("job", o.tx))
  /\ UNCHANGED <<mode, kept, built, chain, rows, faults, confirmed>>

DemoLaunch_unsaved(o) ==
  /\ o.op = "demoLaunch" /\ o.at = "read" /\ ~durabilityProblem
  /\ built.mint < MaxMints
  /\ built' = [built EXCEPT !.mint = @ + 1]
  /\ advance(o, [o EXCEPT !.at = "record", !.mint = built.mint + 1])
  /\ UNCHANGED <<mode, kept, chain, store, faults, confirmed>>
\* createDemoLaunch up to saveDemo.  The creator holds the initial purchase.
DemoLaunch(o) ==
  /\ o.op = "demoLaunch" /\ o.at = "read" /\ ~durabilityProblem
  /\ built.mint < MaxMints
  /\ built' = [built EXCEPT !.mint = @ + 1]
  /\ landed' = Append(landed, [tx |-> launchTx(built.mint + 1), ok |-> TRUE])
  /\ alloc' = [alloc EXCEPT ![built.mint + 1] = o.amount]
  /\ advance(o, [o EXCEPT !.at = "record", !.mint = built.mint + 1])
  /\ UNCHANGED <<mode, kept, held, pool, store, faults, confirmed>>

DemoRecord(o) ==
  /\ o.op = "demoLaunch" /\ o.at = "record"
  /\ rows' = [rows EXCEPT ![o.mint] = launchTx(o.mint)]
  /\ finish(o, reply("launch", launchTx(o.mint)))
  /\ UNCHANGED <<mode, kept, built, chain, jobs, faults, confirmed>>

\* inspectMint: a row that waits for its mint is not a mint.
supported(m) == m \in Mint /\ (rows[m] \notin {None, Blank} \/ exists(m))

\* previewConvert: the eligible balance bounds the amount.
previewConvert(o) == supported(o.mint) /\ o.amount > 0 /\ o.amount <= alloc[o.mint]

DemoConvert(o) ==
  LET tx == transaction("burn", o.mint, built.burn + 1, o.amount)
  IN  /\ o.op = "convert" /\ mode = "demo" /\ previewConvert(o) /\ built.burn < MaxBurns
      /\ built' = [built EXCEPT !.burn = @ + 1]
      /\ execute(tx)
      /\ jobs' = jobs \cup {tx}
      /\ finish(o, reply("job", tx))
      /\ UNCHANGED <<mode, kept, pool, rows, faults, confirmed>>

\* launchView of any visitor, which fills in a launch nobody confirmed; before
\* anything on chain names the mint it changes nothing.
View(m) ==
  /\ mode = "mainnet" /\ rows[m] = Blank /\ signaturesFor(m) # {}
  /\ \A o \in ops : o.op # "hydrate"
  /\ ops' = ops \cup {operation(0, "hydrate", m, 0)}
  /\ UNCHANGED <<mode, kept, built, chain, store, tasks, faults, confirmed>>

firstSignature_any(sigs) == IF sigs = {} THEN None ELSE landed[Min(sigs)].tx
\* The oldest one that carries no error.
firstSignature(sigs) ==
  LET good == {i \in sigs : landed[i].ok}
  IN  IF good = {} THEN None ELSE landed[Min(good)].tx

HydrateRead(o) ==
  LET first == firstSignature(signaturesFor(o.mint))
  IN  /\ o.op = "hydrate" /\ o.at = "read"
      /\ IF first = None THEN finish(o, None)
         ELSE advance(o, [o EXCEPT !.at = "write", !.tx = first])
      /\ quiet

HydrateWrite(o) ==
  /\ o.op = "hydrate" /\ o.at = "write"
  /\ rows' = [rows EXCEPT ![o.mint] = o.tx]
  /\ finish(o, None)
  /\ UNCHANGED <<mode, kept, built, chain, jobs, faults, confirmed>>

Serve(o) ==
  \/ Refuse(o) \/ PrepareRead(o) \/ PrepareBuild(o) \/ PrepareRecord(o)
  \/ QuoteBalance(o) \/ ConfirmRead(o) \/ ConfirmWrite(o) \/ BurnPrepare(o)
  \/ Convert(o) \/ DemoLaunch(o) \/ DemoRecord(o) \/ DemoConvert(o)
  \/ HydrateRead(o) \/ HydrateWrite(o)

----------------------------------------------------------------------------
(* Faults *)

\* The request never arrives, or its answer does not.
LoseRequest(o) ==
  /\ fault /\ o.id # 0 /\ o.at = "read"
  /\ finish(o, Lost)
  /\ UNCHANGED <<mode, kept, built, chain, store, confirmed>>

LoseReply(t) ==
  /\ fault /\ tasks[t] # None /\ tasks[t].reply \notin {None, Lost}
  /\ tasks' = [tasks EXCEPT ![t].reply = Lost]
  /\ UNCHANGED <<mode, kept, built, chain, store, ops, confirmed>>

\* Requests end; an ephemeral store is empty again, demo chain and all.
Restart ==
  /\ fault
  /\ ops' = {}
  /\ tasks' = [t \in Task |->
       IF \E o \in ops : o.id = t THEN [tasks[t] EXCEPT !.reply = Lost] ELSE tasks[t]]
  /\ IF kept THEN UNCHANGED <<chain, store>>
     ELSE /\ rows' = [m \in Mint |-> None] /\ jobs' = {}
          /\ IF mode = "demo"
             THEN /\ landed' = << >> /\ alloc' = [m \in Mint |-> 0]
                  /\ UNCHANGED <<held, pool>>
             ELSE UNCHANGED chain
  /\ UNCHANGED <<mode, kept, built, confirmed>>

=============================================================================
