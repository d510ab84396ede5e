------------------------------- MODULE Store --------------------------------
(***************************************************************************)
(* The two stores (src/lib/store): a JSON file rewritten whole by every    *)
(* upsert (memory.ts), and Postgres behind a migration that the first      *)
(* query of every process starts (postgres.ts).  Which one a deployment    *)
(* has is fixed by its environment (index.ts, connection.ts).              *)
(*                                                                         *)
(* A request puts one row and reads it back; a client whose request failed *)
(* sends it again.  host says which process a request runs in.  A process  *)
(* dies with its requests, its memo of the migration and its connections.  *)
(* A file has the processes of FileProcess: more than one would overwrite  *)
(* each other's rows, since every upsert writes back all that it has read. *)
(* A stored row is named by what was put, its table and whether its        *)
(* optional fields are set; RowCodec says how it is encoded.               *)
(***************************************************************************)
EXTENDS RowCodec, FiniteSets

CONSTANTS
  Process, Request,
  host,         \* host[r]: the process request r runs in
  Puts,         \* the assignments of rows to requests to check
  Environment,  \* the environments to check (process.env and the disk)
  FileProcess,  \* the processes that share a file
  MIGRATIONS,   \* number of migrations
  WidePool,     \* bound: connections of a process that is not hosted (10)
  MaxFaults,    \* bound: crashes and lost connections
  Torn,         \* a file that cannot be parsed
  Nobody, Nothing

\* What a file holds: at most one row per table here.
Contents == [Table -> (Table \X BOOLEAN) \cup {Nothing}]

ASSUME StoreAssumption ==
  /\ host \in [Request -> Process]
  /\ Puts \subseteq [Request -> Table \X BOOLEAN]
  /\ FileProcess \subseteq Process
  /\ \A e \in Environment :
       /\ e.STAMP_STORE \in {"", "memory", "postgres"}
       /\ e.urls \in SUBSET {"placeholder", "hosted", "local"}
       /\ e.readOnly \in BOOLEAN
  /\ MIGRATIONS \in Nat /\ WidePool \in Nat \ {0} /\ MaxFaults \in Nat
  /\ Nobody \notin Process /\ Torn \notin Contents

VARIABLES
  env,       \* the environment of the deployment
  puts,      \* puts[r]: the table and the row (empty or full) that r puts
  file,      \* the file: rows per table, or Torn
  rows,      \* the committed rows of the database
  schema,    \* schema_migrations: how many are committed
  locked,    \* process whose transaction holds the advisory lock, or Nobody
  memo,      \* memo[p]: the promise `migrating`
  step,      \* step[p]: where the migration of p is
  next,      \* next[p]: the migration it runs next, of the list it has read
  clients,   \* clients[p]: connections in use
  pc, read,  \* per request: where it is, and what it has read
  faults

vars == <<env, puts, file, rows, schema, locked, memo, step, next, clients, pc,
          read, faults>>
database == <<rows, schema, locked>>
migration == <<memo, step, next>>

\* postgresUrl(): the URLs of the documentation are no database.
postgresUrls == env.urls \ {"placeholder"}
\* An explicit STAMP_STORE decides, else whether there is a database.
kind == CASE env.STAMP_STORE # "" -> env.STAMP_STORE
          [] OTHER -> IF postgresUrls # {} THEN "postgres" ELSE "memory"
hosted == "hosted" \in postgresUrls
PoolMax == IF hosted THEN 1 ELSE WidePool
\* A file in the temp directory is gone after a cold start.
durability == IF kind = "postgres" THEN "durable"
              ELSE IF env.readOnly THEN "ephemeral" ELSE "file"

empty == [t \in Table |-> Nothing]
table(r) == puts[r][1]
row(r) == puts[r]
requestsOf(p) == {r \in Request : host[r] = p}

Init ==
  /\ env \in Environment /\ puts \in Puts
  /\ file = Torn                       \* no file yet: it cannot be parsed
  /\ rows = empty /\ schema = 0 /\ locked = Nobody
  /\ memo = [p \in Process |-> "none"]
  /\ step = [p \in Process |-> "none"]
  /\ next = [p \in Process |-> 1]
  /\ clients = [p \in Process |-> 0]
  /\ pc = [r \in Request |-> "start"]
  /\ read = [r \in Request |-> Nothing]
  /\ faults = 0

fault == faults < MaxFaults /\ faults' = faults + 1
goto(r, label) == pc' = [pc EXCEPT ![r] = label]

----------------------------------------------------------------------------
(* MemoryStore *)

\* One process does not yield between reading the file and writing it.
synchronous(r) ==
  /\ kind = "memory" /\ host[r] \in FileProcess
  /\ \A q \in requestsOf(host[r]) : pc[q] # "truncated"

contents == IF file = Torn THEN empty ELSE file

\* read(): a file that cannot be parsed is an empty ledger. Then writeFileSync
\* truncates the file.
UpsertFile(r) ==
  /\ pc[r] = "start" /\ synchronous(r)
  /\ read' = [read EXCEPT ![r] = contents]
  /\ file' = Torn
  /\ goto(r, "truncated")
  /\ UNCHANGED <<env, puts, database, migration, clients, faults>>

putInto_only(all, r) == [empty EXCEPT ![table(r)] = row(r)]
putInto(all, r) == [all EXCEPT ![table(r)] = row(r)]

WriteFile(r) ==
  /\ pc[r] = "truncated"
  /\ file' = putInto(read[r], r)
  /\ goto(r, "stored")
  /\ UNCHANGED <<env, puts, database, migration, clients, read, faults>>

GetFile(r) ==
  /\ pc[r] = "stored" /\ synchronous(r)
  /\ read' = [read EXCEPT ![r] = contents[table(r)]]
  /\ goto(r, "done")
  /\ UNCHANGED <<env, puts, file, database, migration, clients, faults>>

----------------------------------------------------------------------------
(* ensureMigrated and migrate *)

\* A query of the store awaits the memo; the first one starts the migration.
Query(r) ==
  LET p == host[r]
  IN  /\ kind = "postgres" /\ pc[r] = "start"
      /\ goto(r, "migrating")
      /\ IF memo[p] = "none"
         THEN /\ memo' = [memo EXCEPT ![p] = "pending"]
              /\ step' = [step EXCEPT ![p] = "connect"]
              /\ UNCHANGED next
         ELSE UNCHANGED migration
      /\ UNCHANGED <<env, puts, file, database, clients, read, faults>>

to(p, label) == step' = [step EXCEPT ![p] = label]

Connect(p) ==
  /\ step[p] = "connect" /\ clients[p] < PoolMax
  /\ clients' = [clients EXCEPT ![p] = @ + 1]
  /\ to(p, "lock")
  /\ UNCHANGED <<env, puts, file, database, memo, next, pc, read, faults>>

Lock_none(p) ==
  /\ step[p] = "lock"
  /\ locked' = p
  /\ to(p, "read")
  /\ UNCHANGED <<env, puts, file, rows, schema, memo, next, clients, pc, read, faults>>
\* BEGIN and pg_advisory_xact_lock: held until the transaction ends.
Lock(p) ==
  /\ step[p] = "lock" /\ locked = Nobody
  /\ locked' = p
  /\ to(p, "read")
  /\ UNCHANGED <<env, puts, file, rows, schema, memo, next, clients, pc, read, faults>>

ReadApplied(p) ==
  /\ step[p] = "read"
  /\ next' = [next EXCEPT ![p] = schema + 1]
  /\ to(p, "apply")
  /\ UNCHANGED <<env, puts, file, database, memo, clients, pc, read, faults>>

Apply(p) ==
  /\ step[p] = "apply" /\ next[p] <= MIGRATIONS
  /\ next' = [next EXCEPT ![p] = @ + 1]
  /\ UNCHANGED <<env, puts, file, database, memo, step, clients, pc, read, faults>>

release_none(p) == clients' = clients
release(p) == clients' = [clients EXCEPT ![p] = @ - 1]
unlocked(p) == IF locked = p THEN Nobody ELSE locked

\* COMMIT; the client is released before the promise resolves.
Commit(p) ==
  /\ step[p] = "apply" /\ next[p] > MIGRATIONS
  /\ schema' = next[p] - 1 /\ locked' = unlocked(p)
  /\ release(p)
  /\ to(p, "none") /\ memo' = [memo EXCEPT ![p] = "resolved"]
  /\ UNCHANGED <<env, puts, file, rows, next, pc, read, faults>>

failedMemo_kept(p) == [memo EXCEPT ![p] = "rejected"]
\* The catch of ensureMigrated clears the memo.
failedMemo(p) == [memo EXCEPT ![p] = "none"]

\* The connection is lost: before COMMIT took effect, or after it and before
\* its answer. Everyone who awaits the promise gets the error.
FailMigration(p) ==
  /\ step[p] \in {"lock", "read", "apply"}
  /\ fault
  /\ \/ UNCHANGED schema
     \/ step[p] = "apply" /\ next[p] > MIGRATIONS /\ schema' = next[p] - 1
  /\ locked' = unlocked(p)
  /\ release(p)
  /\ to(p, "none") /\ memo' = failedMemo(p)
  /\ pc' = [r \in Request |->
              IF host[r] = p /\ pc[r] = "migrating" THEN "start" ELSE pc[r]]
  /\ UNCHANGED <<env, puts, file, rows, next, read>>

Acquire_unmigrated(r) ==
  /\ pc[r] = "migrating" /\ memo[host[r]] # "none"
  /\ clients[host[r]] < PoolMax
  /\ clients' = [clients EXCEPT ![host[r]] = @ + 1]
  /\ goto(r, "query")
  /\ UNCHANGED <<env, puts, file, database, migration, read, faults>>
\* q(): db().query once the memo is resolved.
Acquire(r) ==
  /\ pc[r] = "migrating" /\ memo[host[r]] = "resolved"
  /\ clients[host[r]] < PoolMax
  /\ clients' = [clients EXCEPT ![host[r]] = @ + 1]
  /\ goto(r, "query")
  /\ UNCHANGED <<env, puts, file, database, migration, read, faults>>

\* INSERT ... ON CONFLICT DO UPDATE of the whole row, or its connection lost.
UpsertRow(r) ==
  /\ pc[r] = "query"
  /\ release(host[r])
  /\ \/ /\ rows' = putInto(rows, r) /\ goto(r, "get") /\ UNCHANGED faults
     \/ /\ rows' \in {rows, putInto(rows, r)} /\ goto(r, "start") /\ fault
  /\ UNCHANGED <<env, puts, file, schema, locked, migration, read>>

GetRow(r) ==
  /\ pc[r] = "get" /\ clients[host[r]] < PoolMax
  /\ read' = [read EXCEPT ![r] = rows[table(r)]]
  /\ goto(r, "done")
  /\ UNCHANGED <<env, puts, file, database, migration, clients, faults>>

\* The process dies: the database rolls its transaction back, and a file it
\* was writing stays truncated, and one in the temp directory is gone.
Crash(p) ==
  /\ fault
  /\ locked' = unlocked(p)
  /\ memo' = [memo EXCEPT ![p] = "none"] /\ to(p, "none")
  /\ clients' = [clients EXCEPT ![p] = 0]
  /\ pc' = [r \in Request |->
              IF host[r] = p /\ pc[r] # "done" THEN "start" ELSE pc[r]]
  /\ file' = IF durability = "ephemeral" /\ p \in FileProcess THEN Torn ELSE file
  /\ UNCHANGED <<env, puts, rows, schema, next, read>>

Serve(r) ==
  \/ UpsertFile(r) \/ WriteFile(r) \/ GetFile(r)
  \/ Query(r) \/ Acquire(r) \/ UpsertRow(r) \/ GetRow(r)

Migrate(p) == Connect(p) \/ Lock(p) \/ ReadApplied(p) \/ Apply(p) \/ Commit(p)

Next ==
  \/ \E r \in Request : Serve(r)
  \/ \E p \in Process : Migrate(p) \/ FailMigration(p) \/ Crash(p)

\* Clients send failed requests again, calls go on, and the database serves
\* those who wait for its lock in their turn.
Fairness ==
  /\ \A r \in Request : SF_vars(Serve(r))
  /\ \A p \in Process : SF_vars(Migrate(p))

Spec == Init /\ [][Next]_vars /\ Fairness

----------------------------------------------------------------------------
(* Properties *)

Stored == [t \in Table |-> IF kind = "postgres" THEN rows[t] ELSE contents[t]]

TypeOK ==
  /\ file \in Contents \cup {Torn} /\ rows \in Contents
  /\ schema \in 0 .. MIGRATIONS
  /\ locked \in Process \cup {Nobody}
  /\ memo \in [Process -> {"none", "pending", "resolved"}]
  /\ next \in [Process -> 1 .. MIGRATIONS + 1]
  /\ clients \in [Process -> 0 .. PoolMax]

\* Two cold starts never change the schema at once (src/lib/store/postgres.ts
\* :28-33): between reading what is applied and the end of the transaction a
\* process is alone, and what it has read is still so.
OneMigrator ==
  \A p \in Process : step[p] = "apply" =>
    /\ locked = p
    /\ schema < next[p]
    /\ \A q \in Process \ {p} : step[q] \notin {"read", "apply"}

\* No query reaches a database whose schema is not complete.
SchemaBeforeQueries ==
  \A r \in Request : pc[r] \in {"query", "get"} => schema = MIGRATIONS

\* Cold starts side by side: one migrates, and no query meets half a schema
\* (src/lib/store/postgres.ts:28-87).
MigrationsRunAlone == TypeOK /\ OneMigrator /\ SchemaBeforeQueries

\* The rows that come back as they went.
Faithful ==
  { s \in {"memory", "postgres"} \X (Table \X BOOLEAN) :
      LET r == sampleRow(s[2][1], s[2][2])
          w == written(s[1], s[2][1], r)
      IN  ~refused(s[1], s[2][1], w) /\ readBack(s[1], s[2][1], w) = r }

\* What a request reads back is the row that it or another request put, field
\* for field: no bigint, null, date or byte array changes on the way.
RowsReadBack ==
  \A r \in Request : pc[r] = "done" /\ read[r] # Nothing =>
    /\ \E q \in Request : table(q) = table(r) /\ read[r] = row(q)
    /\ <<kind, read[r]>> \in Faithful

\* While a file is being written its old contents are in the writer's memory.
promised ==
  IF \E r \in Request : pc[r] = "truncated"
  THEN read[CHOOSE r \in Request : pc[r] = "truncated"]
  ELSE Stored

Promise == INSTANCE RowStore
  WITH Key <- Table, Row <- Table \X BOOLEAN,
       rows <- promised, durable <- durability = "durable"

\* The stores implement RowStore: whole rows, one at a time; Postgres loses
\* nothing, and a crash inside writeFileSync loses the file and not a part.
KeepsItsPromise == Promise!Spec

\* A cold start that failed is tried again: once faults end every request is
\* served, whichever process it hits and however many wait on one migration.
EveryRequestServed ==
  \A r \in Request :
    <>(pc[r] = "done" \/ (kind = "memory" /\ host[r] \notin FileProcess))

=============================================================================
