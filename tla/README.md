# Formal model of StampPad

TLA+ modules, TLC configurations and TLAPS proofs for StampPad: a program that
burns units of a Solana token, publishes a *stamp* for each burn on Zcash, and
keeps a record of who owns and sells each stamp. Everything is written from the
code under `src/src`; the documents (`src/docs`) are used only to say what the
code is expected to guarantee. `PROJECT.json` holds the same information in
tables: the components, every run with its properties, the source lines each
definition stands for, the mutants that show each property can fail, the
hazards and the theorems.

## 1. The system

| Component | State it keeps | Operations | Talks to |
|---|---|---|---|
| Issuance ledger (`protocol/ledger.ts`, `validate.ts`) | none: rebuilt from the chains on every read | `rebuildLedger`, `validateBurn`, `validatePublication`, `acceptIssuance` | called by the indexer and the workers |
| Ownership resolution (`protocol/ownership.ts`, `transfer.ts`) | none: replayed from records and artifacts | `resolveOwnership`, `checkOffer`, `checkTransfer`, `checkTerms` | called by the indexer with the ledger's rows |
| Indexer (`indexer/index.ts`) | none | `indexChains`, `indexFromStore` | reads both chains, the listings and the transfers |
| Marketplace (`market.ts`, `modules/settlement.ts`) | listings, transfer rows, escrows on the demo chain | create, reserve, offer, authorize, lock, transfer, claim, cancel, gift, reconcile | indexer, demo Zcash chain, store |
| Issuance jobs, demo (`jobs/processor.ts`) | job rows, stamp rows, launch supply, the snapshot of both demo chains | `submitDemoBurn`, `processDueJobs` | store, publisher, protocol checks |
| Issuance jobs, live (`jobs/live.ts`, `modules/publisher.ts`) | job and stamp rows | `submitLiveBurn`, `processLiveJobs`, `publishIssuance` | Solana and Zcash RPC |
| Worker (`worker/index.ts`) | none | a timer calling `processDueJobs` | a second process beside the server |
| Inscriptions (`zcash/inscribe.ts`, `inscription.ts`, `script.ts`, `fees.ts`, `inscriptions.ts`) | none | plan, choose coins, build, sign, decode, index | publisher, Zcash node, indexer |
| Wallet session (`wallet/*.ts`, `api/wallet`) | nonces and address proofs in memory, a signed cookie | issue, prove, read, disconnect | the browser |
| Wallet client (`wallet/connect.ts`, `components/Wallet.tsx`, `ZcashSign.tsx`) | connection state in each tab | connect, disconnect, follow Phantom, prove an address | Phantom, the session routes |
| Launches (`app.ts`, `solana/live-launch.ts`, `app/launch/page.tsx`) | launch rows; what the page holds | prepare, confirm, hydrate, convert | Solana RPC, Phantom, store |
| Stores (`store/*.ts`) | one JSON file, or Postgres | whole-row upserts, one snapshot of the demo chains, migrations | everything |

A burn becomes a stamp through the jobs: a request burns and files a job; runs
of the worker check the burn, publish the commitment, wait for confirmations and
file a stamp row. A stamp changes hands through *records* on Zcash, each of
which commits to an *artifact* (a signed offer or authorization) published off
chain. Nothing is trusted but the two chains and the artifacts: every page
replays them from the start.

### What is hard here, and what must hold

* **Replay.** The answer is recomputed from whatever is on the chains now. It
  must not depend on duplicates, on the order of feeds, or on records that do
  not count; and what it has accepted should stay accepted while the chain only
  grows or reorganises shallowly.
* **Double sales.** An owner may sign any number of offers and transfers; only
  the next sequence number and the first bound offer count.
* **Money in flight.** A sale takes seven requests by two parties, with expiry,
  cancellation, gifts and the worker in between. A locked payment must be backed
  by an authorization that delivers.
* **Crashes and processes.** Rows are stored one at a time and the demo chains as
  one snapshot; any store call may be the last one before a crash, or be
  overtaken by another process or another `await` of the same one.
* **Lost answers.** A burn, a commit or a reveal may have landed although the
  call that sent it failed; publishing is retried after a reorg, a crash or a
  lack of funds and must publish one burn once.
* **Browsers.** Tabs share one cookie and one Phantom, whose account can change
  at any await; a page can be reloaded between an approval and its record.

Per component: *ledger* – a burn counts once, each row has a real burn and a
confirmed publication of its own; *ownership* – contiguous sequences, unbroken
custody, no double sale, sales reveal their secret; *marketplace* – one live
listing, deliverable payments, settlement only by the ledger; *jobs, demo and
live* – what is confirmed was burned and is on the chain, outcomes are final and
reached; *inscriptions* – both halves pay their way and stay minable, every burn
counts by its first valid claim; *wallet* – a nonce is good for one thing, an
identity is signed for, a proof keeps to its session; *launches* – every mint
has its row, a landed burn has its job or is shown; *stores* – whole rows come
back as they were put, migrations run alone.

## 2. Modules

```
OwnershipRules ─┬─► Ownership ───────┬─► Market_proofs    BurnRules ─┬─► Ledger ───────┬─► Ledger_proofs
                │       └── refines StampRegister                     └─► LedgerReplay ─┘
                ├─► OwnershipReplay ─┤
                └─► Market ──────────┘                    SolanaReader ──► LiveJobs ──► LiveJobs_proofs

JobWorker ──► JobWorker_proofs                            RowCodec ──► Store ──► Store_proofs
                                                                         └── refines RowStore
Envelope ──► Inscribe ──► Inscriptions ──► Publication ──► Publication_proofs

WalletServer ──► WalletClient ──► Wallet_proofs           LaunchServer ──► LaunchPage ──► LaunchPage_proofs
```

An arrow is EXTENDS. Each `MC…` module extends the last module before the proofs
with small constants.

**OwnershipRules** – the rules as operators. `verdict` is the body of the loop of
`resolveOwnership` (lines 141-221), with its tests in the order of the code:
unknown stamp, network, best chain, depth (`awaiting`), the artifact
(`unavailable`), then `checkOffer` or `checkTransfer`. Hashes and signatures are
what they establish: an artifact is found if it is among the published ones and
agrees with its record; `signed` says that the owner it names signed it; a
hash lock is the name of its secret. Places on the chain are numbers, ordered
as `compareRecords` orders height, txid and record position. A `sequence` is
bounded by `MaxSequence` in place of the u32 of the encoding.

**Ownership** – `resolveOwnership` as a machine that takes one record per step,
in canonical order, from any set `Feed`. A statement about its reachable states
is a statement about every input the resolver can be given. `IsARegister` is
refinement of **StampRegister**: one owner per stamp; an owner may reserve a stamp
for a buyer; a reserved stamp goes only to that buyer.

**OwnershipReplay** – the same rules over time: blocks with and without records,
reorgs shallower than the confirmation depth, artifacts released late. `indexed`
is recomputed from nothing in every state, as `indexFromStore` does. Its
specification is `ReplaySpec`, as `LedgerReplay`'s is, so that one module can prove
about the loop and about its replay.

**BurnRules, Ledger, LedgerReplay** – the same three-way split for issuance:
the checks of a burn and a publication, the loop of `rebuildLedger` (with its
sort and its tally), and the ledger replayed while publishers race.

**Market** – one action per request, each an atomic step that does what the
handler does: reconcile, act on the reconciled rows, age the chain. Escrows are
the HTLCs of the demo chain. `ownershipNow` is the replay of the stored records
and artifacts; the stale artifacts of dead listings and the single artifact row per
stamp and sequence are modelled, because the index really reads them.
Signatures by the right key are required by the handlers and assumed of every
artifact. A secret is named by its listing. The publisher's balance is left out.

**JobWorker** – `submitDemoBurn` and `processDueJobs`, one action per store call.
A caller's `snapshot` and `todo` are the local copies the code works on between
its loads and its saves. `Caller` is the set of processes that can be inside the
store at once: one for a single Node process, since no call of the memory store
yields to another request; two when the worker runs beside the server.

**SolanaReader, LiveJobs** – the live counterpart. `SolanaReader` reads burns and
memos from a transaction's outer and inner instructions, as `rpc.ts` does.
`LiveJobs` has one `pc` step per `await` of `submitLiveBurn`, `processLiveJobs`
and `publishIssuance`, for any number of calls in flight: the worker's ticks
beside submissions and page polls. A call lists the rows when it starts and
writes them back whole, however stale they have become. The two chains mine,
drop and expire; an answer can be lost after the fact, a call can throw or die
at any await. `Indexed` says whether the store has Postgres' unique indexes.
Opening the gate and the network check are choices of `ChooseCoins` to fail.

**Envelope, Inscribe, Inscriptions, Publication** – the envelope byte by byte
with the code's own thresholds (240-byte chunks, the push opcodes, eight drops)
and its readers; the plan, the choice of coins, both transactions and their
ZIP-317 fees; `indexInscriptions` over the inscriptions of a chain; and all of
it composed: a publisher with a purse, a node, blocks that may be replaced,
burns that become final, and other people who inscribe what they like. The
characters of a text are named, not spelled; keys, digests and txids are
numbers, the publisher's even and those of others odd. `indexInscriptions` takes
the inscriptions as a set: sorting by height and txid leaves nothing of the order
they came in, so the index of a set is that of all but its last one, and then
that one (`latest`). `mined`, `spends` and `changes` say what blocks do to coins. What a node accepts (`nodeAcceptsScript`, expiry, branch, no double
spend) is external. One publication is one step here; `LiveJobs` has its calls.

**WalletServer, WalletClient** – the routes, the nonce store, the proof store
and the signed cookie (which is the whole session) on one side; on the other
tabs of one browser, each at an await of `connectPhantom`, of the eager
reconnect or of the address panel. Requests carry the cookie of their sending
and replies set it on arrival; both may be lost or overtake each other. A
restart forgets nonces and proofs and, unless a secret is configured, makes
every cookie unreadable. Statements are records of what they name.

**LaunchServer, LaunchPage** – `app.ts` one step per await (the row it has read
may have changed), Solana as what has landed, and the issue page as two function
calls that can be under way at once, each waiting for the server, for Phantom or
for a balance. A store is durable or not, the deployment demo or mainnet.

**RowCodec, Store** – every column of every table with the way its value goes
into the file or a Postgres type and comes back (NOT NULL columns are those of
the schema); and the stores as machines: whole-file read-modify-write with
truncation, the pool, the advisory lock, the migration and the memoised promise
that a failure must clear. `KeepsItsPromise` is refinement of **RowStore**.

## 3. Runs

`tlc -workers 2 -config X.cfg M` checks one; the longest takes under three
minutes. All cover their whole state space.

| Run | Module, configuration | Instance | What it shows |
|---|---|---|---|
| `ownership` | `MCOwnership` | one issued stamp, one foreign commitment, three addresses, every input of up to 4 records from 18 kinds of record, all artifacts published or two withheld | histories are sound, no double sale, no later record undoes an earlier one, and refinement of the register |
| `ownership_replay` | `MCOwnershipReplay` | five signed artifacts, two of them withheld, 5 blocks, depth 2 | a record without artifact has no effect; new blocks and shallow reorgs take nothing back |
| `ledger` | `MCLedger` | inputs of up to 4 transactions of 12 kinds, seven Zcash feeds | each burn counts once, each row is burned and published, rows and units are functions of the input sets |
| `ledger_replay` | `MCLedgerReplay` | two burns, four txids, 6 blocks, depth 3 | an accepted burn stays on the ledger, once |
| `market` | `MCMarket` | one stamp, three owners, two of them giving, two listings, expiry after one block, depth 2, new business up to 3 blocks | one live listing; payments deliverable, never forgotten, and delivered in the end; settled means delivered |
| `jobs` | `MCJobWorker` | one process, three submissions, funds for three publications, two crashes, two reorgs | what is shown as confirmed stands on both chains, one publication per burn, outcomes final, every burn stamped unless funds ran out |
| `live_jobs` | `MCLiveJobs` | a worker that ticks for ever beside two requests, one burn in two instructions, four ways to submit it, one of them a second job of the burn, one coin for two publications, one fault | only final burns of the right amount and memo are inscribed, a stamp row names an inscription of its payload, confirmed means stamped, a refusal is the burn's fault, every job comes to rest unless one as new or newer is blocked by another job of its burn |
| `inscriptions` | `MCInscriptions` | three texts (one push, two of one transaction in two pushes), two purses around the change threshold, two pairs, one inscription of somebody else, one replaced block, an upgrade inside the expiry window | costs are what leaves the purse, pairs stay minable, every burn counts once by its first valid claim, what counted goes on counting |
| `wallet` | `MCWallet` | two tabs, one connecting and one proving, two accounts, three nonces, one fault | a nonce gives one thing, and nothing once it has lapsed, identities are signed for, proofs keep to their session, a refused paste keeps its statement, the connect button comes back |
| `launch` | `MCLaunch` | one mint, one swap, one burn, one poll, one fault, two functions of the page at once, demo and mainnet, durable and ephemeral | rows are launches, a hydrated transaction succeeded, a landed burn has its job or is shown, unless the user has left the page or gone on to what it shows instead, approvals end |
| `stores` | `MCStore` | two processes, three requests over rows of every table, four environments, two faults | migrations run alone, rows read back field for field, the store implements its promise, every request is served |

One run expects a violation. `inscriptions_drops` refutes the comment of
`script.ts:169-174` that the drops of the redeem script clear the envelope's
pushes: `INSCRIPTION_DROPS` (`script.ts:142`) is 8, which fits a text in two
pushes. One push leaves two items fewer, the script fails on an empty stack, and
the commit's money is locked in an output no reveal can spend.

### Statements that fail, run by hand

Documents and comments say more than the code does. These statements are defined
beside the others and are refuted; to see how, take the run's configuration,
make the changes named here and put the statement in place of its properties.
Five of them have a configuration of their own.

| Statement | Instance | What happens |
|---|---|---|
| `SellerCanAlwaysClaim` (PROTOCOL.md:466) | `market`, `MaxHeight = 104`, `Giver = {}` | once the transfer is confirmed, any read settles the listing, and the claim is refused from then on |
| `BuyerNeverAtRisk` (PROTOCOL.md:464) | `MCMarketRisk.cfg` | the offer of an expired listing still binds the sequence; the next buyer pays against an authorization the ledger rejects |
| `EarliestTransferWins` (PROTOCOL.md:488) | `market`, `MaxHeight = 104`, `Giver = {ann}` | publishing a later transfer overwrites the stored artifact of a confirmed one at the same sequence, which the replay then loses |
| `GiftNeverRaces`, `SettledIsSale` | `market`, `MaxHeight = 104` | a gift still unconfirmed does not stop a listing, and one to the reserved buyer settles it |
| `NoTheftByWithholding` (THREAT_MODEL.md:72) | `MCOwnershipReplayTheft.cfg` | a gift recorded first and released last overtakes an accepted sale |
| `FirstConfirmedBinds` | `ownership_replay`, `Withheld <- MCWithheldOffer` | an offer released late replaces the binding one |
| `ConflictIsReported` | `ownership`, `MaxRecords = 2`, `Feed <- MCConflictFeed`, `Artifacts <- MCConflictArtifacts` | no path gives `conflicting_transfer` |
| `FirstConfirmedWins` (PROTOCOL.md:257) | `MCLedgerReplayFirst.cfg` | the publication with the lowest txid replaces the first to confirm |
| `StampsWereBurned` | `MCJobWorkerOverlap.cfg` | with the worker beside the server, one process's snapshot erases a burn another has stored; its stamp is still issued |
| `EveryBurnHasJob` | `jobs`, `MaxJobs = 2`, `InitialSupply = 4`, `InitialFunds = 5`, `MinConfirms = 2`, `ReorgDepth = MaxReorgs = 0`, `MaxCrashes = 1` | a crash between a burn and its job loses the burn |
| `VanishedIsRepublished` | `jobs`, `MaxJobs = 1`, `InitialSupply = InitialFunds = 4`, `MinConfirms = 2`, `ReorgDepth = 3`, `MaxReorgs = 1`, `MaxCrashes = 0` | a publication that vanishes after confirmation is not published again |
| `OneInscriptionPerBurn` | `live_jobs`, `Submission <- MCHonest` | the answer to a reveal is lost, and the retry inscribes the burn again |
| `AcceptedIsInscribed` | `live_jobs`, `Submission <- MCDelegate`, `MaxFaults = 0` | the commitment the submission filed is of the row before the burn's authority was read |
| `ConfirmedIsFinal` | `live_jobs`, `Submission <- MCHonest` | a call with a stale row takes a confirmed job back |
| `EveryJobComesToRest` | `live_jobs`, or with `Submission <- MCTwoOwners`, `MaxFaults = 0` | two jobs of one burn: the unique index makes `live.ts:104` throw in every run, before the older jobs are reached |
| `EveryMintIsClaimed` | `inscriptions` | one transaction destroys units of several mints (`inscriptions.ts:125`), but a claim spends its signature for all of them (`:225-231`) |
| `ProofsDoNotOutliveTheirSession` | `MCWalletOutlive.cfg` | the POST of a proof reads the cookie (`taddr/route.ts:65`) that a DELETE before it did not invalidate |
| `AdoptedHasCookie`, `AdoptedIsSelected` | `wallet` | a DELETE sent first is served last; the reply to a verification adopts an account the user has left |
| `RebuildsOnNewBalance` (page.tsx:177) | `launch` | the page rebuilds the launch before the swap has landed |
| `BusyClears` | `launch`, `MaxSwaps = 0`, `Held = {2}` | a poll that never answers keeps the busy flag |
| `EveryBurnStaysInSight` | `launch`, `MaxBurns = 2`, `Held = {2}`, `MaxSwaps = MaxPolls = 0`, `Modes = {"mainnet"}` | a second burn approved meanwhile takes the place of the one shown (`page.tsx:250`); when the answer to the first is lost, nothing names it any more |
| `RecordedLaunchLands` (`app.ts:502`), `HydratedIsLaunch` | `launch`, `Held = {2}`, and `Window = 1` for the latter | a recorded launch may fail on chain; a mint with more signatures than the window is hydrated with somebody's trade |
| `KeepsItsPromise` | `stores`, `FileProcess = {"server", "worker"}` | two processes with one file lose an update |

### Bounds, and why they are enough

* *Ownership.* Two handovers need an offer, a sale, an offer and a sale: four
  records. Every reason to reject or wait has a template, and a template may
  occur at any place, so orders in which a record is first valid and then stale
  occur. A second issued stamp would be independent: `verdict` reads one stamp.
* *Replay.* An accepted transfer takes two records and the depth; five blocks
  leave room for a reorg before and after acceptance and for a record mined
  again. The ledger needs two publications of one burn, both deep, and a third.
* *Ledger.* A duplicate, its original and two other burns make four; two burns of
  one mint and one of another tell units and mints apart.
* *Market.* Two listings are what a stale offer or a relisting takes; a gift can
  come before, between and after. Heights only bound the start of *new*
  business, so a sale in progress can always finish. `HTLC_TIMEOUT_BLOCKS` is 1
  instead of 48: expiry can then fall between any two requests.
* *Jobs.* Two jobs interact through the snapshot and the funds, the third makes
  the publisher run out. A reorg removes a publication whose *stored* depth is
  two below the depth of acceptance (`ReorgDepth` = 2, `MinConfirms` = 3): a
  crash can lose the last tick of the demo chain after the job was confirmed
  from it, so with a reorg one deeper a confirmed job would name an orphaned
  publication.
* *Live jobs.* Three calls in flight give every pair of awaits both orders with a
  third in between; the coin pays for two publications, so a retry can publish
  again and a third try finds no funds. One fault may be any of a lost answer, an
  error, a crash, a replaced block or an expiry, at any await.
* *Inscriptions.* `DEFAULT_EXPIRY_DELTA` is 2 instead of 40 and upgrades are at 5
  and 13: a pair can be built before the upgrade with its expiry at, before or
  after it. Two pairs compete for coins and for a burn; the other party's
  inscription may copy, misdeliver or exaggerate one, before or after it.
  Fees, dust and chunk sizes are the code's.
* *Wallet.* One message is on its way when the user starts something (flows may
  add more), which is what it takes for replies to cross. Three nonces allow a
  connection, a proof and one repeated. The second tab shows what the first did
  only through the cookie.
* *Launch.* One of each transaction, with a window of two signatures instead of
  twelve: a mint's first signature can be its launch or somebody's trade. Two
  functions of the page at once are all that its buttons allow. One burn cannot
  take another's place on the page; with two, on the instance that refutes
  `EveryBurnStaysInSight`, `BurnAccountedFor` holds in all 755112 states, and the
  theorem `BurnsStayInSight` has no bound.
* *Stores.* Three requests, two of them in one process, with a pool of one when
  hosted: a request can wait for the migration, for the connection, and for the
  lock of the other process. Two faults allow a failed migration to be retried
  and fail again.

Deadlock checking is off in every configuration: inputs end, heights, faults and
requests are bounded, and a loop that has handled its input stops.

### Fairness

* *Market*: weak fairness of `Tick` and `Reconcile`: the worker's `setInterval`
  fires for as long as the process lives, and every market page reconciles. Weak
  fairness of `PublishTransfer(i)` says that a buyer who has paid publishes the
  authorization he holds: it is his own interest and takes no one's consent.
  Nobody is assumed to claim, cancel, reserve or go on with a sale.
* *JobWorker*: weak fairness of a caller's run, for the timer, and of the steps
  after a burn, since a request that has started goes on unless the process
  crashes. Nothing is assumed of submissions, crashes or reorgs.
* *LiveJobs*: weak fairness of the next step of every call (each await ends, with
  an answer or an error) and of blocks. The worker starts again by itself;
  requests, faults and reorgs are never assumed.
* *WalletClient*: weak fairness of the next step of a tab's connect flow: the user
  answers Phantom's window one way or the other, the request is served or lost.
* *LaunchPage*: weak fairness of the page's own steps, of Phantom's answer and of
  the server's work on a request the page waits for.
* *Store*: strong fairness of serving each request and of each process's
  migration. A client sends again after a failure, and a connection or the
  advisory lock that keeps coming free is obtained in the end; weak fairness
  would allow another process to hold it whenever it is asked for.

## 4. Proofs

Checked by `tlapm` for every value of the constants, under the assumptions named
in the modules (`OwnershipAssumption`, `WalletAssumption`, …): types, `None`
outside the sets of real values, sets that are not empty.

* **Market_proofs**, the resolver (`Ownership`): its proofs and those of the
  marketplace are one module, for the second rest on the first. The stated
  invariants are not inductive one by one: that a bound offer was made by the
  current owner needs custody, and that a consumed sequence has its event in the
  history needs contiguity. `IInv` is the type invariant with all four facts about each stamp (`StampInv`). Lemmas show that
  binding an offer (`BindKeeps`) and applying a transfer (`ApplyKeeps`) preserve it
  for the one stamp they touch; `NextIInv` has one case per action. From it:
  `TypeCorrect`, `OwnershipSound` (contiguity, custody, no double sale), `Stable`
  (the action property), `EveryTransferBacked` (evidence for every event, by an
  invariant over the records), `SalesSound` (the sales list), their conjunction
  `HistoryIsSound`, and `ImplementsRegister` (the refinement, initial states and
  steps).
* **Market_proofs**, the replay (`OwnershipReplay`). `resolveOwnership` is the last
  state of a sequence of states, one per record (`Resolved`). Three facts about such
  sequences carry everything: what a stamp holds is never lost along one
  (`ReplayExtends`), records of the same effect lead to the same state
  (`ReplaySame`), and records without effect at the end may be left out
  (`ReplayRests`). `ChainSound`, the invariant of the chain (records canonical, in
  order, and published unless held back), gives the rest: the records deep enough
  to count are a prefix (`ConfirmedPrefix`) that no shallower reorg touches and no
  later publication changes (`ConfirmedStay`). From it: `AcceptedStaysFinal` (the
  replay of the longer chain extends the replay of the shorter one), and
  `UnresolvableIsNothing` (the replay keeps step with that of the records that can
  be resolved). The depth must be positive, the reorgs shallower than it.
* **Market_proofs**, what replays keep: how the state of one stamp depends on a chain
  that grows and ages and on artifacts that come and go. An artifact of a sequence
  changes no transfer below that sequence (`KeptBelow`); an offer whose record is the
  first about its sequence finds the stamp with its seller once all is confirmed
  (`BeforeFirst`), is bound, and the authorization that answers it delivers
  (`FirstIsDelivered`), whatever was published in between. This is where confirmation
  in order of age matters: the records that count are the oldest ones (`OldestCount`).
* **Market_proofs**, the marketplace. `MarketInv` says what a row promises in each of
  its states (`RowFits`), that listings of one stamp lie in the order of their
  sequences with only the last alive (`InOrder`), and, against the index (`Held`),
  that the seller got the stamp by a record older than the listing's offer, and that
  a delivery once seen (`Won`: settled, or settled and then cancelled, which `cancel`
  allows) is still in the history. The last is the hard one, for the history is
  recomputed and a stored authorization can be replaced: it survives because no
  request writes an artifact where the stamp was delivered (`Untouched`): a gift
  writes at the next sequence, beyond all listings (`ReachesNext`), and a sale at
  that of the one live listing, the last of its stamp. One lemma per request, over one about the rows that
  every request reconciles first (`Reconciled`). From it: `ListingsStayInOrder`,
  `MoneyIsKept` and `PaymentsAreDeliverable`. The demo chain has no reorgs.
* **Ledger_proofs**, the loop. `IInv` adds to the type invariant that the event of
  every accepted row is among the seen ones, without which the duplicate test
  proves nothing, and that each row's publication commits to the row's own
  issuance. From it: `TypeCorrect`, `BurnsCountOnce`, `RowsBacked` and `RowsAreSound`.
  `ValidatorsDoAgree` says that rows and units are functions of the *sets* of burns
  and publications, so that two validators with the same chains agree. It assumes
  `OneBurnPerSignature`: what is read for a signature is one burn, since rows are
  keyed by it. Its invariant, `Agreeing`, says of the transactions handled so far
  that each claimed burn has its row and no other does, that the row is of its
  lowest publication, and that the tally of a mint is the sum over its rows. The
  sums take lemmas of their own: a sum over a finite set does not depend on the
  order (`SumsAnyOrder`, `SumsUnique`) and grows by what is added (`TotalOfMore`).
* **Ledger_proofs**, the replay (`LedgerReplay`). `AcceptedBurnsStay`: a match deep
  enough to count is beyond any reorg shallower than the depth, and a publication
  arriving later changes which one matches, never whether one does.
* **JobWorker_proofs.** Two hypotheses on the deployment are named there: one
  caller is in the store at a time (`OneCaller`), and a reorg is shallower than the
  depth that confirms (`ReorgsAreShallow`); section 3 says what happens without
  either. `IInv` relates what a run holds in memory to what is stored: the rows
  still to handle are the stored rows, the snapshot has lost no stored publication
  and no confirmation of one, a publication deep enough in the snapshot is beyond
  any reorg of the stored chain, and a burnt submission's job is not yet filed. All
  of it survives a crash, because a crash only drops the memory, and a reorg,
  because none reaches a settled publication. From it: `ShownIsOnChain`,
  `OneStampPerBurn` and `OutcomesAreFinal`. That `current` picks a row that is
  loaded rests on the library's theorem that `<` is well-founded on `Nat`.
* **LiveJobs_proofs.** The rows a call holds may be stale in every field, so `IInv`
  says of every *version* of a row, stored or held (`GoodRow`, `RowGood`), only what
  no other call can make untrue: it keeps the identity of its job, an outcome has
  the cause it had in the burn, and a reveal it names is settled once seen settled
  (`Settled`, which needs `ReorgsAreShallow`: a replaced block is younger than the
  depth that confirms). `Grows` is what every step does to the store and the chains;
  `CallStep`, `ChainStep` and `ProgressStep` reduce each of the actions to what it
  writes. The first two theorems, `InscribedIsBurned` and `RefusalsHaveCause`, hold
  for any depth of reorg; `RowsAgree` is about confirmed rows and assumes it.
* **Store_proofs.** `Migrations` and `Connections` say who holds the lock, what its
  holder has read of the schema and which connections are in use: `MigrationsAlone`.
  `Files` says that every row anywhere was put by a request, and the lemmas on
  `RowCodec` that each codec brings its values back (`RowsSurvive`, for every table):
  `RowsComeBack`. `StoreKeepsItsPromise` is the refinement, step by step, where one
  process writes the file (`OneWriter`): a request in the middle of a write is then
  the only one, and holds what is not in the file (`Alone`).
* **Publication_proofs**, the pairs. `TakenStaysMinable`: a node takes a pair only
  on the branch of its next block, and the pair carries the branch of its expiry
  height; upgrades only accumulate, so between two heights of one epoch every height
  is of that epoch (`SameEpoch`, from the cardinalities of the sets of active
  upgrades), and no upgrade schedule can strand a pair the node took. The invariant
  says it of every pair ever made, since a reorg can put a mined one back.
  `PairsKeepShape` adds what the rest needs: a pair keeps its fields, its reveal is
  never mined without its commit, and no two inscriptions have one txid.
* **Publication_proofs**, the index. `Indexed` says what `indexInscriptions` returns
  without running it: accepted are the inscriptions that are valid and first of
  their burn, claimed are the burns of those, and the supply of a mint is at most
  the sum of its claimed burns. `IndexIsIndexed` proves it for every set of
  inscriptions, one added at the end of the order at a time; `FirstClaimWins` follows.
  `StampsStayCounted` compares two states: a stamp that counted is deeper than the
  last block, so it is still there after a replaced one; it is as deep or deeper, its
  burn is as final, and whatever is new lies in a later block, so it is still the
  first. The hypothesis is `MinConfirmations > 1`: with one, a replaced block takes
  back what counted. The code asks for 10 (`ZCASH_MIN_CONFIRMATIONS`) or 2 (demo).
* **Publication_proofs**, the payments. The purse is not a function of the chain
  alone, because a pair chooses its coins from those unspent when it is built.
  `BInv` is the books that balance: the coins are the purse and the change of mined
  commits without what those spent (`Left`); what a mined commit spent was in the
  purse or is change of an earlier block (`Sourced`), so undoing the last block
  takes away no coin that somebody still mined has spent; no two pairs that are
  mined or may yet be share a coin (`NoDoubleSpend`); and each pair balances
  (`Paid`). From it, `PaysItsWay`: summing the coins returns what was started with
  less the costs; sizes of a signed commit and reveal are bounded by those the plan
  assumed, for each length of a signature; and the largest n coins are worth at least
  as much as any n others, so the greedy choice finds a commit if there is one.
  The fee of a commit is less than its largest size owes and the dust: what is over
  is change too small to keep. A plainer bound, a constant above the fee of the
  real size, is false with more than fifty coins, each of which may sign shorter.
* **Wallet_proofs.** `NoncesAreUsedOnce` needs that nonces are issued in order and
  that one outstanding or lapsed has established nothing; `IdentityIsSigned` needs that
  every session in a cookie, a request or a reply was given by the server to the
  account that signed for it, wherever the message is; `ProofsAreOfTheirSession`
  adds that what a panel waits for comes back to an open panel. `StatementsStaySignable`
  needs that a tab waits for one answer of its panel (`WaitsOK`), and that a nonce in
  a statement shown is not on its way to becoming a session (`StatementsOK`): a
  refused paste would otherwise keep a nonce that something else has used. `IInv`
  has these as parts, each with its own lemma over all steps.
* **LaunchPage_proofs.** That a mint on Solana has its row depends on everything the
  launch transaction passed on its way: the request that built it, the reply, the
  page's state, the closure of a function that waits for Phantom, the pool. `IInv` says
  of a launch transaction at each of these places that its row is recorded in a store
  that lasts (`Backed`); no step takes a row back there (`Lasts`), and an ephemeral
  store makes none, because `durabilityProblem` refuses before anything is built. The
  page trusts what it receives, so the invariant must also say that a reply is to the
  very request its function waits for (`Queue`: one request per function, of the kind
  its await asked for), however many functions run at once and whatever is lost or
  restarted. From it: `RowsAlwaysFit`. `FilledInTxSucceeded` needs that a row names
  its mint and that the oldest success in the window is still on the chain when the
  row is written, one await later (`FirstSucceeded`). `BurnsStayInSight` needs a second
  invariant, `BurnInv`: a burn, wherever it is, is of a mint whose launch has
  succeeded (`Minted`), so the launch of that mint is not sent again, and what takes
  a burn's place on the page is another burn or another mint's launch.

Inductions over data (a replay, a sum) are by the least counterexample: the
numbers at which a claim fails would have a least one (`LeastNat`, from the
library's well-foundedness of `<`), and the step before it leads to a
contradiction; over finite sets, by the cardinalities of the subsets at which it
fails. This needs the recursion in sight of the prover: sorting, selecting
and merging functions (`SortSeq`, `SelectSeq`, `@@`) are not, so `OwnershipReplay`
states a reorg as the prefix it keeps, and `LaunchServer` the signatures of a mint
as their places on the chain.

Only model-checked: `PublicationCounts`, which says that a script of pushes read
back byte by byte spells what it was made of (every text has its own number of
steps, so the proof is an induction over parsing and over the chunks at once);
and everything under fairness, which is outside
TLAPS.

## 5. Not modelled

* **Cryptography and layouts.** Hashing, curve arithmetic, signature digests
  (ZIP-244), CBOR, base58 and the layout of Solana instructions are functions of
  their input with test vectors or round-trip tests; they enter as the facts they
  establish. The one byte layout with a state of its own, the envelope, is modelled.
* **Remote clients.** Helius, the launchpad, the price and swap services keep only
  short caches; their answers are choices where a handler acts on them.
* **Sales history and numbering.** Views computed from the index on each request.
* **Pages.** What renders, formats or validates a field. The pages whose awaits
  race (launch, wallet, address proof, job poll) are modelled.
* **In modelled components.** Two market requests that overlap at the awaits of one
  handler, and the demo jobs and the market over the one snapshot they share:
  `JobWorker` shows by `StampsWereBurned` what a shared snapshot does to two
  processes. In `LaunchPage`: the supply of live rows, which stays "0", the
  conversion page, the curve's and the venue's own limits (a refusal), and retries
  after a lost submission. In `Market`: the publisher's balance.
