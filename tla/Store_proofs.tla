---------------------------- MODULE Store_proofs ----------------------------
(***************************************************************************)
(* Proofs about Store and RowCodec, for any number of processes, requests, *)
(* migrations, connections and faults.  The migration of a process is one  *)
(* transaction under a lock, so its invariant is about who holds the lock  *)
(* and what its holder has read.  The file has no lock: its invariant is   *)
(* that a request in the middle of a write holds the rows that are not in  *)
(* the file, and that nobody else of its process is in the middle of one.  *)
(***************************************************************************)
EXTENDS Store, FiniteSetTheorems, TLAPS

\* The deployment the file is for (src/lib/store/memory.ts).
OneWriter == \A p, q \in FileProcess : p = q

Shape ==
  /\ env \in Environment /\ puts \in Puts
  /\ file \in Contents \cup {Torn} /\ rows \in Contents
  /\ schema \in 0 .. MIGRATIONS /\ locked \in Process \cup {Nobody}
  /\ memo \in [Process -> {"none", "pending", "resolved"}]
  /\ step \in [Process -> {"none", "connect", "lock", "read", "apply"}]
  /\ next \in [Process -> 1 .. MIGRATIONS + 1]
  /\ pc \in [Request -> {"start", "truncated", "stored", "migrating", "query",
                         "get", "done"}]
  /\ DOMAIN read = Request

\* A migration is under way exactly while it is awaited; past its lock it is
\* alone, and what it has read of the schema is still so.
Migrations ==
  \A p \in Process :
    /\ memo[p] = "pending" <=> step[p] # "none"
    /\ step[p] \in {"read", "apply"} => locked = p
    /\ step[p] = "apply" => schema < next[p]
    /\ memo[p] = "resolved" => schema = MIGRATIONS

\* Every connection counted is in use by a query or by the migration.
users(p) == {r \in requestsOf(p) : pc[r] = "query"}
migrating(p) == IF step[p] \in {"lock", "read", "apply"} THEN 1 ELSE 0
Connections ==
  \A p \in Process :
    /\ IsFiniteSet(users(p))
    /\ clients[p] = Cardinality(users(p)) + migrating(p)
    /\ clients[p] <= PoolMax

\* Every row was put, as it is, by a request.
wasPut(t, x) == x # Nothing => \E q \in Request : table(q) = t /\ x = row(q)
AllPut(all) == \A t \in Table : wasPut(t, all[t])

Files ==
  /\ AllPut(rows) /\ (file # Torn => AllPut(file))
  /\ \A r \in Request :
       /\ pc[r] = "truncated" =>
            /\ kind = "memory" /\ host[r] \in FileProcess
            /\ read[r] \in Contents /\ AllPut(read[r])
       /\ pc[r] = "done" => wasPut(table(r), read[r])

\* One process in the middle of a write, one request of it.
Alone ==
  \A r \in Request : pc[r] = "truncated" =>
    /\ file = Torn
    /\ \A q \in Request : pc[q] = "truncated" => q = r

IInv ==
  /\ Shape /\ Migrations /\ SchemaBeforeQueries
  /\ clients \in [Process -> Int] /\ Connections
  /\ Files /\ (OneWriter => Alone)

----------------------------------------------------------------------------
(* Rows come back as they went *)

Codec == {"text", "nullable", "orEmpty", "integer", "nullableInteger", "claim",
          "artifact", "record", "demo", "time"}
\* The codecs of fields that may be empty.
MayBeNull == {"nullable", "nullableInteger", "claim", "artifact"}

\* A package or a chain's state: bigints and bytes go as text and come back.
LEMMA NestedSurvives ==
  ASSUME NEW full \in BOOLEAN
  PROVE  /\ deser(json(ser(nested(full)))) = nested(full)
         /\ json(ser(nested(full))).js = "object"
<1> DEFINE D == {"amount", "delegatedAmount", "supply", "owner", "data", "nullData"}
           f == [amount |-> value("bigint", "7"), delegatedAmount |-> value("bigint", "0"),
                 supply |-> value("bigint", "9"), owner |-> value("string", "ann"),
                 data |-> value("bytes", "3"),
                 nullData |-> IF full THEN value("bytes", "4") ELSE null]
           s == [n \in D |-> asBase64(asString(f[n]))]
           g == [n \in D |-> jsonLeaf(s[n])]
           back(n, x) == IF isNull(x) THEN null
                         ELSE IF n \in Bigints THEN value("bigint", x.v)
                         ELSE IF n \in Bytes THEN value("bytes", x.v)
                         ELSE x
<1>1. nested(full) = object(f) /\ DOMAIN f = D
  BY DEF nested
<1>2. ser(object(f)) = object(s)
  <2> HIDE DEF f
  <2> QED  BY <1>1 DEF ser, object, value
<1>3. \A n \in D : /\ s[n].js \in {"string", "null"} /\ jsonLeaf(s[n]) = s[n]
                   /\ back(n, s[n]) = f[n]
  <2>1. f["amount"] = value("bigint", "7") /\ f["delegatedAmount"] = value("bigint", "0")
        /\ f["supply"] = value("bigint", "9") /\ f["owner"] = value("string", "ann")
        /\ f["data"] = value("bytes", "3")
        /\ f["nullData"] = IF full THEN value("bytes", "4") ELSE null
    OBVIOUS
  <2> HIDE DEF f
  <2>2. ASSUME NEW x, x \in {value("bigint", "7"), value("bigint", "0"), value("bigint", "9")}
        PROVE  asBase64(asString(x)) = value("string", x.v) /\ x = value("bigint", x.v)
    BY <2>2 DEF asBase64, asString, value
  <2>3. ASSUME NEW x, x \in {value("bytes", "3"), value("bytes", "4")}
        PROVE  asBase64(asString(x)) = value("string", x.v) /\ x = value("bytes", x.v)
    BY <2>3 DEF asBase64, asString, value
  <2>4. asBase64(asString(value("string", "ann"))) = value("string", "ann")
        /\ asBase64(asString(null)) = null
    BY DEF asBase64, asString, value, null
  <2>5. \A v : /\ value("string", v).js = "string" /\ value("string", v).v = v
               /\ jsonLeaf(value("string", v)) = value("string", v)
               /\ ~isNull(value("string", v))
    BY DEF value, jsonLeaf, isNull
  <2>6. null.js = "null" /\ jsonLeaf(null) = null /\ isNull(null)
    BY DEF value, jsonLeaf, isNull, null
  <2> DEFINE good(n) == /\ s[n].js \in {"string", "null"} /\ jsonLeaf(s[n]) = s[n]
                        /\ back(n, s[n]) = f[n]
  <2>7. ASSUME NEW n \in {"amount", "delegatedAmount", "supply"}  PROVE good(n)
    <3>1. s[n] = value("string", f[n].v) /\ f[n] = value("bigint", f[n].v)
      BY <2>1, <2>2
    <3> HIDE DEF s
    <3> QED  BY <2>5, <3>1 DEF Bigints
  <2>8. ASSUME NEW n \in {"data", "nullData"}, n = "data" \/ full  PROVE good(n)
    <3>1. s[n] = value("string", f[n].v) /\ f[n] = value("bytes", f[n].v)
      BY <2>1, <2>3, <2>8
    <3>2. n \notin Bigints /\ n \in Bytes
      BY DEF Bigints, Bytes
    <3> HIDE DEF s
    <3> QED  BY <2>5, <3>1, <3>2
  <2>9. good("owner")
    <3>1. s["owner"] = value("string", "ann") /\ f["owner"] = value("string", "ann")
      BY <2>1, <2>4
    <3> HIDE DEF s
    <3> QED  BY <2>5, <3>1 DEF Bigints, Bytes
  <2>10. ASSUME ~full  PROVE good("nullData")
    <3>1. s["nullData"] = null /\ f["nullData"] = null
      BY <2>1, <2>4, <2>10
    <3> HIDE DEF s
    <3> QED  BY <2>6, <3>1
  <2> HIDE DEF good
  <2>11. \A n \in D : good(n)
    BY <2>7, <2>8, <2>9, <2>10
  <2> QED  BY <2>11 DEF good
<1>4. s = [n \in D |-> s[n]] /\ f = [n \in D |-> f[n]]
  BY DEF s, f
<1> HIDE DEF f, s
<1>5. \A x : object(x).js = "object" /\ object(x).v = x
  BY DEF object, value
<1>6. DOMAIN s = D
  BY DEF s
<1>7. g = s
  <2>1. g = [n \in D |-> s[n]]
    BY <1>3
  <2> HIDE DEF g
  <2> QED  BY <1>4, <2>1
<1>8. json(object(s)) = object(s)
  <2>1. \A n \in D : g[n].js # Thrown.js
    BY <1>3, <1>7 DEF Thrown, value
  <2>2. DOMAIN g = D
    OBVIOUS
  <2> QED  BY <1>5, <1>6, <1>7, <2>1, <2>2 DEF json
<1>9. deser(object(s)) = object(f)
  <2>1. [n \in D |-> back(n, s[n])] = f
    <3>1. [n \in D |-> back(n, s[n])] = [n \in D |-> f[n]]
      BY <1>3
    <3> QED  BY <1>4, <3>1
  <2>2. deser(object(s)) = object([n \in D |-> back(n, s[n])])
    BY <1>5, <1>6 DEF deser
  <2> QED  BY <2>1, <2>2
<1> QED  BY <1>1, <1>2, <1>5, <1>8, <1>9

LEMMA CodecSurvives ==
  ASSUME NEW c \in Codec, NEW full \in BOOLEAN
  PROVE  LET x == sample(c, full)
         IN  /\ fromColumn(c, toColumn(c, x)) = x
             /\ fromFile(c, toFile(c, x)) = x
             /\ isNull(toColumn(c, x)) => c \in MayBeNull
<1> DEFINE x == sample(c, full)
           goal == /\ fromColumn(c, toColumn(c, x)) = x
                   /\ fromFile(c, toFile(c, x)) = x
                   /\ isNull(toColumn(c, x)) => c \in MayBeNull
<1>1. \A k, v : value(k, v).js = k /\ value(k, v).v = v
  BY DEF value
<1>2. \A v : json(value("string", v)) = value("string", v)
             /\ json(value("number", v)) = value("number", v)
  BY DEF json, jsonLeaf, value
<1>3. json(null) = null /\ isNull(null) /\ null.js = "null"
  BY DEF json, jsonLeaf, value, null, isNull
<1>4. \A k, v : k # "null" => ~isNull(value(k, v))
  BY <1>1 DEF isNull
<1>5. c \in {"text", "nullable", "orEmpty"} => goal
  <2>1. ASSUME c \in {"text", "nullable", "orEmpty"}
        PROVE  (\E v : x = value("string", v)) \/ (c = "nullable" /\ x = null)
    BY <2>1 DEF sample
  <2>2. ASSUME c \in {"text", "nullable", "orEmpty"}
        PROVE  toColumn(c, x) = x /\ toFile(c, x) = IF x.js = "bigint" THEN value("string", x.v) ELSE json(x)
    BY <2>2 DEF toColumn, toFile
  <2> HIDE DEF x
  <2>3. ASSUME c \in {"text", "nullable", "orEmpty"}, NEW v, x = value("string", v)
        PROVE  goal
    <3>1. toFile(c, x) = x
      BY <1>1, <1>2, <2>2, <2>3
    <3>2. x = value("string", x.v) /\ ~isNull(x)
      BY <1>1, <1>4, <2>3
    <3>3. fromColumn(c, x) = x
      BY <2>3, <3>2 DEF fromColumn
    <3>4. fromFile(c, x) = x
      BY <2>3, <3>2 DEF fromFile
    <3> QED  BY <2>2, <2>3, <3>1, <3>2, <3>3, <3>4
  <2>4. ASSUME c = "nullable", x = null
        PROVE  goal
    <3>1. toFile(c, x) = x
      BY <1>3, <2>2, <2>4
    <3> QED  BY <2>2, <2>4, <3>1 DEF fromColumn, fromFile, MayBeNull
  <2> QED  BY <2>1, <2>3, <2>4
<1>6. c = "time" => goal
  BY <1>1, <1>2, <1>4 DEF sample, toColumn, fromColumn, toFile, fromFile
<1>7. c \in {"integer", "nullableInteger"} => goal
  <2>1. ASSUME c \in {"integer", "nullableInteger"}
        PROVE  (\E v : x = value("number", v)) \/ (c = "nullableInteger" /\ x = null)
    BY <2>1 DEF sample
  <2>2. ASSUME c \in {"integer", "nullableInteger"}
        PROVE  toColumn(c, x) = x /\ toFile(c, x) = IF x.js = "bigint" THEN value("string", x.v) ELSE json(x)
    BY <2>2 DEF toColumn, toFile
  <2> HIDE DEF x
  <2>3. ASSUME c \in {"integer", "nullableInteger"}, NEW v, x = value("number", v)
        PROVE  goal
    <3>1. toFile(c, x) = x
      BY <1>1, <1>2, <2>2, <2>3
    <3>2. x = value("number", x.v) /\ ~isNull(x)
      BY <1>1, <1>4, <2>3
    <3>3. fromColumn(c, x) = x
      BY <2>3, <3>2 DEF fromColumn
    <3>4. fromFile(c, x) = x
      BY <2>3, <3>2 DEF fromFile
    <3> QED  BY <2>2, <2>3, <3>1, <3>2, <3>3, <3>4
  <2>4. ASSUME c = "nullableInteger", x = null
        PROVE  goal
    <3>1. toFile(c, x) = x
      BY <1>3, <2>2, <2>4
    <3> QED  BY <1>3, <2>2, <2>4, <3>1 DEF fromColumn, fromFile, MayBeNull
  <2> QED  BY <2>1, <2>3, <2>4
<1>8. c \in {"claim", "demo"} => goal
  <2> SUFFICES ASSUME c \in {"claim", "demo"} PROVE goal
    OBVIOUS
  <2>1. CASE c = "claim" /\ ~full
    BY <1>3, <2>1 DEF sample, toColumn, fromColumn, toFile, fromFile, MayBeNull
  <2>2. CASE ~(c = "claim" /\ ~full)
    <3>1. PICK b \in BOOLEAN : x = nested(b)
      BY <2>2 DEF sample
    <3>2. deser(json(ser(x))) = x /\ json(ser(x)).js = "object" /\ ~isNull(x)
      BY <3>1, <1>4, NestedSurvives DEF nested, object
    <3> HIDE DEF x
    <3>3. ~isNull(json(ser(x)))
      BY <3>2 DEF isNull
    <3> QED  BY <3>2, <3>3 DEF toColumn, fromColumn, toFile, fromFile
  <2> QED  BY <2>1, <2>2
<1>9. c \in {"artifact", "record"} => goal
  <2> DEFINE f == [amount |-> value("string", "7")]
  <2>1. json(object(f)) = object(f) /\ ~isNull(object(f)) /\ object(f).js = "object"
    <3>1. DOMAIN f = {"amount"} /\ f["amount"] = value("string", "7")
      OBVIOUS
    <3>2. f = [n \in {"amount"} |-> f[n]]
      OBVIOUS
    <3> HIDE DEF f
    <3>3. object(f).js = "object" /\ object(f).v = f
      BY DEF object, value
    <3>4. \A n \in {"amount"} : jsonLeaf(f[n]) = f[n] /\ f[n].js # Thrown.js
      <4>1. jsonLeaf(value("string", "7")) = value("string", "7")
        BY <1>1 DEF jsonLeaf
      <4>2. value("string", "7").js # Thrown.js
        BY DEF Thrown, value
      <4> QED  BY <3>1, <4>1, <4>2
    <3>5. [n \in {"amount"} |-> jsonLeaf(f[n])] = f
      <4>1. [n \in {"amount"} |-> jsonLeaf(f[n])] = [n \in {"amount"} |-> f[n]]
        BY <3>4
      <4> QED  BY <3>2, <4>1
    <3>6. json(object(f)) = object(f)
      <4> DEFINE g == [n \in DOMAIN object(f).v |-> jsonLeaf(object(f).v[n])]
      <4>1. g = f
        BY <3>1, <3>3, <3>5
      <4>2. json(object(f)) = IF \E n \in DOMAIN g : g[n].js = Thrown.js THEN Thrown ELSE object(g)
        BY <3>3 DEF json
      <4> HIDE DEF g
      <4> QED  BY <3>1, <3>4, <4>1, <4>2
    <3> QED  BY <3>3, <3>6 DEF isNull
  <2>2. c \in {"artifact", "record"} => x = object(f) \/ (c = "artifact" /\ x = null)
    BY DEF sample
  <2> HIDE DEF f, x
  <2>3. ASSUME c \in {"artifact", "record"}, x = object(f)
        PROVE  goal
    BY <2>1, <2>3 DEF toColumn, fromColumn, toFile, fromFile
  <2>4. ASSUME c = "artifact", x = null
        PROVE  goal
    BY <1>3, <2>4 DEF toColumn, fromColumn, toFile, fromFile, MayBeNull
  <2> QED  BY <2>2, <2>3, <2>4
<1> HIDE DEF goal
<1>10. goal
  BY <1>5, <1>6, <1>7, <1>8, <1>9 DEF Codec
<1> QED  BY <1>10 DEF goal

\* Every column of a table has a codec, and one that may be null is open.
LEMMA ColumnsOpen ==
  ASSUME NEW t \in Table, NEW n \in DOMAIN codecs(t)
  PROVE  /\ codecs(t)[n] \in Codec
         /\ codecs(t)[n] \in MayBeNull => n \in nullableColumns(t)
<1> DEFINE by == columns(t)
           open(cols, names) ==
             \A c \in DOMAIN cols : c \in Codec /\ (c \in MayBeNull => cols[c] \subseteq names)
<1>1. open(launches, {"imageDataUrl"})
  BY DEF launches, Codec, MayBeNull
<1>2. open(stamps, {}) /\ open(demoState, {})
  BY DEF stamps, demoState, Codec, MayBeNull
<1>3. open(transfers, {"listingId"})
  BY DEF transfers, Codec, MayBeNull
<1>4. open(jobs, nullableInit.jobs)
  BY DEF jobs, nullableInit, Codec, MayBeNull
<1>5. open(listings, nullableMarket.listings)
  BY DEF listings, nullableMarket, Codec, MayBeNull
<1> HIDE DEF open
<1>6. open(by, nullableColumns(t))
  <2>1. CASE t \in {"launches", "jobs", "stamps", "demoState"}
    <3>1. nullableColumns(t) = nullableInit[t]
      BY <2>1 DEF nullableColumns, nullableInit
    <3> QED  BY <1>1, <1>2, <1>4, <2>1, <3>1 DEF columns, nullableInit
  <2>2. CASE t \in {"listings", "transfers"}
    <3>1. nullableColumns(t) = nullableMarket[t]
      BY <2>2 DEF nullableColumns, nullableInit
    <3> QED  BY <1>3, <1>5, <2>2, <3>1 DEF columns, nullableMarket
  <2> QED  BY <2>1, <2>2 DEF Table
<1> HIDE DEF by
<1>7. codecs(t)[n] \in DOMAIN by /\ n \in by[codecs(t)[n]]
  <2>1. codecs(t) =
          [m \in UNION {by[c] : c \in DOMAIN by} |-> CHOOSE c \in DOMAIN by : m \in by[c]]
    BY DEF codecs, by
  <2>2. n \in UNION {by[c] : c \in DOMAIN by}
    BY <2>1
  <2>3. \E c \in DOMAIN by : n \in by[c]
    BY <2>2
  <2>4. codecs(t)[n] = CHOOSE c \in DOMAIN by : n \in by[c]
    BY <2>1, <2>2
  <2> QED  BY <2>3, <2>4
<1> QED  BY <1>6, <1>7 DEF open

\* For every table and both ways of filling it, and in either store: the row is
\* accepted and comes back field for field.
THEOREM RowsSurvive ==
  ASSUME NEW k \in {"memory", "postgres"}, NEW t \in Table, NEW full \in BOOLEAN
  PROVE  LET r == sampleRow(t, full)
             w == written(k, t, r)
         IN  ~refused(k, t, w) /\ readBack(k, t, w) = r
<1> DEFINE c == codecs(t)
           r == sampleRow(t, full)
           w == written(k, t, r)
<1>1. \A n \in DOMAIN c : c[n] \in Codec /\ (c[n] \in MayBeNull => n \in nullableColumns(t))
  BY ColumnsOpen
<1>2. r = [n \in DOMAIN c |-> sample(c[n], full)]
  BY DEF sampleRow
<1>3. w = [n \in DOMAIN c |-> IF k = "postgres" THEN toColumn(c[n], r[n])
                                                ELSE toFile(c[n], r[n])]
  BY DEF written
<1> HIDE DEF c, r, w
<1>4. ASSUME NEW n \in DOMAIN c
      PROVE  /\ k = "postgres" => fromColumn(c[n], w[n]) = sample(c[n], full)
             /\ k = "memory" => fromFile(c[n], w[n]) = sample(c[n], full)
             /\ k = "postgres" /\ isNull(w[n]) => n \in nullableColumns(t)
  BY <1>1, <1>2, <1>3, CodecSurvives
<1>5. ~refused(k, t, w)
  BY <1>3, <1>4 DEF refused
<1>6. readBack(k, t, w) =
        [n \in DOMAIN c |-> IF k = "postgres" THEN fromColumn(c[n], w[n])
                                              ELSE fromFile(c[n], w[n])]
  BY DEF readBack, c
<1>7. readBack(k, t, w) = [n \in DOMAIN c |-> sample(c[n], full)]
  BY <1>4, <1>6
<1> QED  BY <1>2, <1>5, <1>7 DEF r, w

----------------------------------------------------------------------------
(* The invariant *)

LEMMA RowIsARow ==
  ASSUME Shape, NEW r \in Request
  PROVE  table(r) \in Table /\ row(r) \in Table \X BOOLEAN
BY StoreAssumption DEF Shape, table, row

LEMMA PutIn ==
  ASSUME Shape, NEW r \in Request, NEW all \in Contents
  PROVE  putInto(all, r) \in Contents /\ (AllPut(all) => AllPut(putInto(all, r)))
<1>1. table(r) \in Table /\ row(r) \in Table \X BOOLEAN
  BY RowIsARow
<1>2. putInto(all, r) \in Contents
  BY <1>1 DEF putInto, Contents
<1>3. ASSUME AllPut(all), NEW t \in Table
      PROVE  wasPut(t, putInto(all, r)[t])
  <2>1. CASE t = table(r)
    BY <1>1, <2>1 DEF putInto, Contents, wasPut
  <2>2. CASE t # table(r)
    BY <1>3, <2>2 DEF putInto, Contents, AllPut
  <2> QED  BY <2>1, <2>2
<1> QED  BY <1>2, <1>3 DEF AllPut

LEMMA ContentsAreRows ==
  ASSUME Shape
  PROVE  /\ contents \in Contents /\ empty \in Contents /\ AllPut(empty)
         /\ (file # Torn => AllPut(file)) => AllPut(contents)
<1>1. empty \in Contents /\ AllPut(empty)
  BY DEF empty, Contents, AllPut, wasPut
<1> QED  BY <1>1 DEF contents, Shape

\* Of all actions, only these change the file, the rows or who is writing.
Storing == \E r \in Request : UpsertFile(r) \/ WriteFile(r) \/ GetFile(r) \/ UpsertRow(r) \/ GetRow(r)
Elsewhere ==
  \/ \E r \in Request : Query(r) \/ Acquire(r)
  \/ \E p \in Process : Migrate(p) \/ FailMigration(p)

LEMMA NextSplit ==
  ASSUME [Next]_vars
  PROVE  \/ Storing \/ Elsewhere \/ (\E p \in Process : Crash(p)) \/ UNCHANGED vars
BY DEF Next, Serve, Storing, Elsewhere

LEMMA Fixed ==
  ASSUME [Next]_vars
  PROVE  env' = env /\ puts' = puts
<1>1. CASE Storing
  BY <1>1 DEF Storing, UpsertFile, WriteFile, GetFile, UpsertRow, GetRow
<1>2. CASE Elsewhere
  BY <1>2 DEF Elsewhere, Query, Acquire, Migrate, Connect, Lock, ReadApplied, Apply,
              Commit, FailMigration
<1>3. CASE \E p \in Process : Crash(p)
  BY <1>3 DEF Crash
<1> QED  BY <1>1, <1>2, <1>3, NextSplit DEF vars

\* What the migration of one process does to itself and to the database.
LEMMA MigrationStep ==
  ASSUME IInv, [Next]_vars
  PROVE  /\ schema' \in 0 .. MIGRATIONS /\ locked' \in Process \cup {Nobody}
         /\ memo' \in [Process -> {"none", "pending", "resolved"}]
         /\ step' \in [Process -> {"none", "connect", "lock", "read", "apply"}]
         /\ next' \in [Process -> 1 .. MIGRATIONS + 1]
         /\ Migrations' /\ schema <= schema'
<1>1. Shape /\ Migrations /\ MIGRATIONS \in Nat /\ Nobody \notin Process
  BY StoreAssumption DEF IInv
<1>2. CASE UNCHANGED <<schema, locked, memo, step, next>>
  BY <1>1, <1>2 DEF Shape, Migrations
<1>3. ASSUME NEW r \in Request, Query(r)
      PROVE  /\ UNCHANGED <<schema, locked, next>>
             /\ memo' \in [Process -> {"none", "pending", "resolved"}]
             /\ step' \in [Process -> {"none", "connect", "lock", "read", "apply"}]
             /\ Migrations'
  <2>1. host[r] \in Process
    BY StoreAssumption
  <2>2. CASE memo[host[r]] = "none"
    BY <1>1, <1>3, <2>1, <2>2 DEF Query, database, Shape, Migrations
  <2>3. CASE memo[host[r]] # "none"
    BY <1>1, <1>3, <2>1, <2>3 DEF Query, database, migration, Shape, Migrations
  <2> QED  BY <2>2, <2>3
<1>4. ASSUME NEW p \in Process, Connect(p)
      PROVE  /\ UNCHANGED <<schema, locked, memo, next>>
             /\ step' \in [Process -> {"none", "connect", "lock", "read", "apply"}]
             /\ Migrations'
  BY <1>1, <1>4 DEF Connect, database, to, Shape, Migrations
<1>5. ASSUME NEW p \in Process, Lock(p)
      PROVE  /\ UNCHANGED <<schema, memo, next>> /\ locked' \in Process \cup {Nobody}
             /\ step' \in [Process -> {"none", "connect", "lock", "read", "apply"}]
             /\ Migrations'
  BY <1>1, <1>5 DEF Lock, to, Shape, Migrations
<1>6. ASSUME NEW p \in Process, ReadApplied(p)
      PROVE  /\ UNCHANGED <<schema, locked, memo>>
             /\ next' \in [Process -> 1 .. MIGRATIONS + 1]
             /\ step' \in [Process -> {"none", "connect", "lock", "read", "apply"}]
             /\ Migrations'
  BY <1>1, <1>6 DEF ReadApplied, database, to, Shape, Migrations
<1>7. ASSUME NEW p \in Process, Apply(p)
      PROVE  /\ UNCHANGED <<schema, locked, memo, step>>
             /\ next' \in [Process -> 1 .. MIGRATIONS + 1]
             /\ Migrations'
  BY <1>1, <1>7 DEF Apply, database, Shape, Migrations
\* The end of a transaction, committed or not.
<1>8. ASSUME NEW p \in Process, NEW m \in {"none", "resolved"},
             locked' = unlocked(p), memo' = [memo EXCEPT ![p] = m],
             step' = [step EXCEPT ![p] = "none"], next' = next,
             \/ schema' = schema /\ m = "none"
             \/ step[p] = "apply" /\ schema' = MIGRATIONS
      PROVE  /\ schema' \in 0 .. MIGRATIONS /\ schema <= schema'
             /\ locked' \in Process \cup {Nobody}
             /\ memo' \in [Process -> {"none", "pending", "resolved"}]
             /\ step' \in [Process -> {"none", "connect", "lock", "read", "apply"}]
             /\ Migrations'
  <2>1. /\ schema' \in 0 .. MIGRATIONS /\ schema <= schema'
        /\ locked' \in Process \cup {Nobody}
        /\ memo' \in [Process -> {"none", "pending", "resolved"}]
        /\ step' \in [Process -> {"none", "connect", "lock", "read", "apply"}]
    BY <1>1, <1>8 DEF Shape, unlocked
  <2>2. ASSUME NEW q \in Process
        PROVE  /\ memo'[q] = "pending" <=> step'[q] # "none"
               /\ step'[q] \in {"read", "apply"} => locked' = q
               /\ step'[q] = "apply" => schema' < next'[q]
               /\ memo'[q] = "resolved" => schema' = MIGRATIONS
    <3>1. CASE q = p
      BY <1>1, <1>8, <3>1 DEF Shape
    <3>2. CASE q # p
      <4>1. memo'[q] = memo[q] /\ step'[q] = step[q] /\ next'[q] = next[q]
        BY <1>1, <1>8, <3>2 DEF Shape
      <4>2. step[q] \in {"read", "apply"} => locked = q /\ locked' = q /\ schema' = schema
        BY <1>1, <1>8, <3>2 DEF Migrations, unlocked
      <4>3. memo[q] = "resolved" => schema' = MIGRATIONS
        BY <1>1, <1>8 DEF Migrations
      <4> QED  BY <1>1, <4>1, <4>2, <4>3 DEF Migrations
    <3> QED  BY <3>1, <3>2
  <2> QED  BY <2>1, <2>2 DEF Migrations
<1>9. \A p \in Process : next[p] > MIGRATIONS => next[p] - 1 = MIGRATIONS
  BY <1>1 DEF Shape
<1>10. ASSUME NEW p \in Process, Commit(p)
       PROVE  /\ locked' = unlocked(p) /\ memo' = [memo EXCEPT ![p] = "resolved"]
              /\ step' = [step EXCEPT ![p] = "none"] /\ next' = next
              /\ step[p] = "apply" /\ schema' = MIGRATIONS
  BY <1>9, <1>10 DEF Commit, to
<1>11. ASSUME NEW p \in Process, FailMigration(p)
       PROVE  /\ locked' = unlocked(p) /\ memo' = [memo EXCEPT ![p] = "none"]
              /\ step' = [step EXCEPT ![p] = "none"] /\ next' = next
              /\ schema' = schema \/ (step[p] = "apply" /\ schema' = MIGRATIONS)
  BY <1>9, <1>11 DEF FailMigration, to, failedMemo
<1>12. ASSUME NEW p \in Process, Crash(p)
       PROVE  /\ locked' = unlocked(p) /\ memo' = [memo EXCEPT ![p] = "none"]
              /\ step' = [step EXCEPT ![p] = "none"] /\ next' = next
              /\ schema' = schema
  BY <1>12 DEF Crash, to
<1>13. Storing \/ (\E r \in Request : Acquire(r)) \/ UNCHANGED vars
         => UNCHANGED <<schema, locked, memo, step, next>>
  BY DEF Storing, UpsertFile, WriteFile, GetFile, UpsertRow, GetRow, Acquire,
         database, migration, vars
<1>14. \A p \in Process :
         (Commit(p) \/ FailMigration(p) \/ Crash(p)) =>
           /\ schema' \in 0 .. MIGRATIONS /\ schema <= schema'
           /\ locked' \in Process \cup {Nobody} /\ next' = next
           /\ memo' \in [Process -> {"none", "pending", "resolved"}]
           /\ step' \in [Process -> {"none", "connect", "lock", "read", "apply"}]
           /\ Migrations'
  BY <1>8, <1>10, <1>11, <1>12
<1> QED
  <2>1. schema \in 0 .. MIGRATIONS /\ locked \in Process \cup {Nobody}
        /\ memo \in [Process -> {"none", "pending", "resolved"}]
        /\ step \in [Process -> {"none", "connect", "lock", "read", "apply"}]
        /\ next \in [Process -> 1 .. MIGRATIONS + 1] /\ schema <= schema
    BY <1>1 DEF Shape
  <2> QED  BY <2>1, <1>2, <1>3, <1>4, <1>5, <1>6, <1>7, <1>13, <1>14, NextSplit
           DEF Elsewhere, Migrate

LEMMA ShapeStep ==
  ASSUME IInv, [Next]_vars
  PROVE  Shape'
<1>1. Shape /\ Files
  BY DEF IInv
<1>2. env' \in Environment /\ puts' \in Puts
  BY <1>1, Fixed DEF Shape
<1>3. /\ schema' \in 0 .. MIGRATIONS /\ locked' \in Process \cup {Nobody}
      /\ memo' \in [Process -> {"none", "pending", "resolved"}]
      /\ step' \in [Process -> {"none", "connect", "lock", "read", "apply"}]
      /\ next' \in [Process -> 1 .. MIGRATIONS + 1]
  BY MigrationStep
<1>4. rows' \in Contents
  <2>1. ASSUME NEW r \in Request, UpsertRow(r) PROVE rows' \in Contents
    <3>1. putInto(rows, r) \in Contents
      BY <1>1, PutIn DEF Shape
    <3> QED  BY <1>1, <2>1, <3>1 DEF UpsertRow, Shape
  <2>2. ASSUME ~\E r \in Request : UpsertRow(r) PROVE rows' = rows
    BY <2>2, NextSplit DEF Storing, Elsewhere, UpsertFile, WriteFile, GetFile, GetRow, Query,
       Acquire, Migrate, Connect, Lock, ReadApplied, Apply, Commit, FailMigration, Crash,
       database, vars
  <2> QED  BY <1>1, <2>1, <2>2 DEF Shape
<1>5. file' \in Contents \cup {Torn}
  <2>1. ASSUME NEW r \in Request, WriteFile(r) PROVE file' \in Contents
    <3>1. read[r] \in Contents
      BY <1>1, <2>1 DEF WriteFile, Files
    <3> QED  BY <1>1, <2>1, <3>1, PutIn DEF WriteFile
  <2>2. ASSUME ~\E r \in Request : WriteFile(r) PROVE file' \in {file, Torn}
    BY <2>2, NextSplit DEF Storing, Elsewhere, UpsertFile, UpsertRow, GetFile, GetRow, Query,
       Acquire, Migrate, Connect, Lock, ReadApplied, Apply, Commit, FailMigration, Crash, vars
  <2> QED  BY <1>1, <2>1, <2>2 DEF Shape
<1>6. pc' \in [Request -> {"start", "truncated", "stored", "migrating", "query",
                           "get", "done"}] /\ DOMAIN read' = Request
  <2>1. CASE Storing
    BY <1>1, <2>1 DEF Storing, UpsertFile, WriteFile, GetFile, UpsertRow, GetRow, goto, Shape
  <2>2. CASE Elsewhere
    BY <1>1, <2>2 DEF Elsewhere, Query, Acquire, Migrate, Connect, Lock, ReadApplied, Apply,
       Commit, FailMigration, goto, Shape
  <2>3. CASE \E p \in Process : Crash(p)
    BY <1>1, <2>3 DEF Crash, Shape
  <2> QED  BY <1>1, <2>1, <2>2, <2>3, NextSplit DEF Shape, vars
<1> QED  BY <1>2, <1>3, <1>4, <1>5, <1>6 DEF Shape

LEMMA SchemaStep ==
  ASSUME IInv, [Next]_vars
  PROVE  SchemaBeforeQueries'
<1>1. Shape /\ Migrations /\ SchemaBeforeQueries /\ MIGRATIONS \in Nat
  BY StoreAssumption DEF IInv
<1>2. schema' \in 0 .. MIGRATIONS /\ schema <= schema'
  BY MigrationStep
<1>3. ASSUME NEW r \in Request, pc'[r] \in {"query", "get"}
      PROVE  pc[r] \in {"query", "get"} \/ memo[host[r]] = "resolved"
  <2>1. CASE Storing
    BY <1>1, <1>3, <2>1 DEF Storing, UpsertFile, WriteFile, GetFile, UpsertRow, GetRow, goto, Shape
  <2>2. CASE Elsewhere
    BY <1>1, <1>3, <2>2 DEF Elsewhere, Query, Acquire, Migrate, Connect, Lock, ReadApplied,
       Apply, Commit, FailMigration, goto, Shape
  <2>3. CASE \E p \in Process : Crash(p)
    BY <1>1, <1>3, <2>3 DEF Crash, Shape
  <2> QED  BY <1>1, <1>3, <2>1, <2>2, <2>3, NextSplit DEF Shape, vars
<1>4. ASSUME NEW r \in Request, pc'[r] \in {"query", "get"}
      PROVE  schema = MIGRATIONS
  BY <1>1, <1>3, <1>4, StoreAssumption DEF SchemaBeforeQueries, Migrations
<1>5. schema \in 0 .. MIGRATIONS
  BY <1>1 DEF Shape
<1> QED  BY <1>1, <1>2, <1>4, <1>5 DEF SchemaBeforeQueries

\* One connection more or less.
LEMMA OneMore ==
  ASSUME NEW S, IsFiniteSet(S), NEW r
  PROVE  /\ r \notin S => /\ IsFiniteSet(S \cup {r})
                          /\ Cardinality(S \cup {r}) = Cardinality(S) + 1
         /\ r \in S => /\ IsFiniteSet(S \ {r})
                       /\ Cardinality(S \ {r}) = Cardinality(S) - 1
         /\ Cardinality(S) \in Nat
BY FS_AddElement, FS_RemoveElement, FS_CardinalityType

LEMMA ConnectionsStep ==
  ASSUME IInv, [Next]_vars
  PROVE  clients' \in [Process -> Int] /\ Connections'
<1>1. /\ Shape /\ Migrations /\ Connections /\ clients \in [Process -> Int]
      /\ \A r \in Request : host[r] \in Process
  BY StoreAssumption DEF IInv
<1>2. PoolMax' = PoolMax /\ PoolMax \in Nat
  BY Fixed, StoreAssumption DEF PoolMax, hosted, postgresUrls
<1>3. clients' \in [Process -> Int]
  <2>1. CASE Storing
    BY <1>1, <2>1 DEF Storing, UpsertFile, WriteFile, GetFile, UpsertRow, GetRow, release
  <2>2. CASE Elsewhere
    BY <1>1, <2>2 DEF Elsewhere, Query, Acquire, Migrate, Connect, Lock, ReadApplied, Apply,
       Commit, FailMigration, release
  <2>3. CASE \E p \in Process : Crash(p)
    BY <1>1, <2>3 DEF Crash
  <2> QED  BY <1>1, <2>1, <2>2, <2>3, NextSplit DEF vars
<1>4. SUFFICES ASSUME NEW p \in Process
               PROVE  /\ IsFiniteSet(users(p)')
                      /\ clients'[p] = Cardinality(users(p)') + migrating(p)'
                      /\ clients'[p] <= PoolMax
  BY <1>2, <1>3 DEF Connections
<1> DEFINE n == Cardinality(users(p))
<1>5. /\ IsFiniteSet(users(p)) /\ n \in Nat /\ migrating(p) \in {0, 1}
      /\ clients[p] = n + migrating(p) /\ clients[p] <= PoolMax
  BY <1>1, FS_CardinalityType DEF Connections, migrating
<1>6. users(p)' = {r \in requestsOf(p) : pc'[r] = "query"}
      /\ migrating(p)' = IF step'[p] \in {"lock", "read", "apply"} THEN 1 ELSE 0
  BY DEF users, requestsOf, migrating
<1>7. CASE users(p)' = users(p) /\ migrating(p)' = migrating(p) /\ clients'[p] = clients[p]
  BY <1>5, <1>7
<1>8. ASSUME NEW r \in Request, Acquire(r) \/ UpsertRow(r)
      PROVE  /\ IsFiniteSet(users(p)')
             /\ clients'[p] = Cardinality(users(p)') + migrating(p)'
             /\ clients'[p] <= PoolMax
  <2>1. migrating(p)' = migrating(p)
    BY <1>6, <1>8 DEF migrating, Acquire, UpsertRow, migration
  <2>2. CASE host[r] # p
    <3>1. users(p)' = users(p)
      BY <1>1, <1>6, <1>8, <2>2 DEF users, requestsOf, Acquire, UpsertRow, goto, Shape
    <3>2. clients'[p] = clients[p]
      BY <1>1, <1>8, <2>2 DEF Acquire, UpsertRow, release
    <3> QED  BY <1>7, <2>1, <3>1, <3>2
  <2>3. CASE host[r] = p /\ Acquire(r)
    <3>1. users(p)' = users(p) \cup {r} /\ r \notin users(p)
      BY <1>1, <1>6, <2>3 DEF users, requestsOf, Acquire, goto, Shape
    <3>2. clients'[p] = clients[p] + 1 /\ clients[p] < PoolMax
      BY <1>1, <2>3 DEF Acquire
    <3>3. IsFiniteSet(users(p)') /\ Cardinality(users(p)') = n + 1
      BY <1>5, <3>1, OneMore
    <3> HIDE DEF n
    <3> QED  BY <1>2, <1>5, <2>1, <3>2, <3>3
  <2>4. CASE host[r] = p /\ UpsertRow(r)
    <3>1. users(p)' = users(p) \ {r} /\ r \in users(p)
      BY <1>1, <1>6, <2>4 DEF users, requestsOf, UpsertRow, goto, Shape
    <3>2. clients'[p] = clients[p] - 1
      BY <1>1, <2>4 DEF UpsertRow, release
    <3>3. IsFiniteSet(users(p)') /\ Cardinality(users(p)') = n - 1
      BY <1>5, <3>1, OneMore
    <3> HIDE DEF n
    <3> QED  BY <1>2, <1>5, <2>1, <3>2, <3>3
  <2> QED  BY <1>8, <2>2, <2>3, <2>4
<1>9. ASSUME NEW q \in Process, Connect(q) \/ Commit(q) \/ FailMigration(q)
      PROVE  /\ IsFiniteSet(users(p)')
             /\ clients'[p] = Cardinality(users(p)') + migrating(p)'
             /\ clients'[p] <= PoolMax
  <2>1. users(p)' = users(p)
    BY <1>1, <1>6, <1>9 DEF users, requestsOf, Connect, Commit, FailMigration, Shape
  <2>2. CASE q # p
    <3>1. migrating(p)' = migrating(p) /\ clients'[p] = clients[p]
      BY <1>1, <1>6, <1>9, <2>2 DEF migrating, Connect, Commit, FailMigration, to, release, Shape
    <3> QED  BY <1>7, <2>1, <3>1
  <2>3. CASE q = p /\ Connect(q)
    <3>1. clients'[p] = clients[p] + 1 /\ clients[p] < PoolMax /\ migrating(p) = 0 /\ migrating(p)' = 1
      BY <1>1, <1>6, <2>3 DEF migrating, Connect, to, Shape
    <3> HIDE DEF n
    <3> QED  BY <1>2, <1>5, <2>1, <3>1 DEF n
  <2>4. CASE q = p /\ (Commit(q) \/ FailMigration(q))
    <3>1. clients'[p] = clients[p] - 1 /\ migrating(p) = 1 /\ migrating(p)' = 0
      BY <1>1, <1>6, <2>4 DEF migrating, Commit, FailMigration, to, release, Shape
    <3> QED  BY <1>2, <1>5, <2>1, <3>1
  <2> QED  BY <1>9, <2>2, <2>3, <2>4
<1>10. ASSUME NEW q \in Process, Crash(q)
       PROVE  /\ IsFiniteSet(users(p)')
              /\ clients'[p] = Cardinality(users(p)') + migrating(p)'
              /\ clients'[p] <= PoolMax
  <2>1. CASE q # p
    <3>1. users(p)' = users(p)
      BY <1>1, <1>6, <1>10, <2>1 DEF users, requestsOf, Crash, Shape
    <3>2. migrating(p)' = migrating(p) /\ clients'[p] = clients[p]
      BY <1>1, <1>6, <1>10, <2>1 DEF migrating, Crash, to, Shape
    <3> QED  BY <1>7, <3>1, <3>2
  <2>2. CASE q = p
    <3>1. users(p)' = {}
      BY <1>1, <1>6, <1>10, <2>2 DEF requestsOf, Crash, Shape
    <3>2. migrating(p)' = 0 /\ clients'[p] = 0
      BY <1>1, <1>6, <1>10, <2>2 DEF Crash, to, Shape
    <3> QED  BY <1>2, <3>1, <3>2, FS_EmptySet
  <2> QED  BY <2>1, <2>2
\* Nothing else takes or gives back a connection.
<1>11. ASSUME NEW r \in Request, UpsertFile(r) \/ WriteFile(r) \/ GetFile(r) \/ GetRow(r)
       PROVE  users(p)' = users(p) /\ migrating(p)' = migrating(p) /\ clients' = clients
  <2>1. users(p)' = users(p)
    BY <1>1, <1>6, <1>11 DEF users, requestsOf, UpsertFile, WriteFile, GetFile, GetRow, goto, Shape
  <2>2. step' = step /\ clients' = clients
    BY <1>11 DEF UpsertFile, WriteFile, GetFile, GetRow, migration
  <2> QED  BY <1>6, <2>1, <2>2 DEF migrating
<1>12. ASSUME NEW r \in Request, Query(r)
       PROVE  users(p)' = users(p) /\ migrating(p)' = migrating(p) /\ clients' = clients
  <2>1. users(p)' = users(p) /\ clients' = clients
    BY <1>1, <1>6, <1>12 DEF users, requestsOf, Query, goto, Shape
  <2>2. memo[host[r]] = "none" => step[host[r]] = "none"
    BY <1>1 DEF Migrations, Shape
  <2>3. step' = step \/ (step[host[r]] = "none" /\ step' = [step EXCEPT ![host[r]] = "connect"])
    BY <1>12, <2>2 DEF Query, migration
  <2> QED  BY <1>1, <1>6, <2>1, <2>3 DEF migrating, Shape
<1>13. ASSUME NEW q \in Process, Lock(q) \/ ReadApplied(q) \/ Apply(q)
       PROVE  users(p)' = users(p) /\ migrating(p)' = migrating(p) /\ clients' = clients
  <2>1. users(p)' = users(p) /\ clients' = clients
    BY <1>6, <1>13 DEF users, requestsOf, Lock, ReadApplied, Apply
  <2>2. migrating(p)' = migrating(p)
    BY <1>1, <1>6, <1>13 DEF migrating, Lock, ReadApplied, Apply, to, Shape
  <2> QED  BY <2>1, <2>2
<1>14. CASE UNCHANGED vars
  <2>1. users(p)' = users(p) /\ migrating(p)' = migrating(p) /\ clients' = clients
    BY <1>6, <1>14 DEF users, requestsOf, migrating, vars
  <2> QED  BY <1>7, <2>1
<1> QED
  BY <1>7, <1>8, <1>9, <1>10, <1>11, <1>12, <1>13, <1>14, NextSplit
     DEF Storing, Elsewhere, Migrate

LEMMA FilesStep ==
  ASSUME IInv, [Next]_vars
  PROVE  Files'
<1>1. Shape /\ Files /\ kind' = kind /\ puts' = puts
  BY Fixed DEF IInv, kind, postgresUrls
<1>2. AllPut(contents) /\ contents \in Contents /\ \A r \in Request : table(r) \in Table
  BY <1>1, ContentsAreRows, RowIsARow DEF Files
<1>3. ASSUME NEW t, NEW x, wasPut(t, x)
      PROVE  x # Nothing => \E q \in Request : table(q)' = t /\ x = row(q)'
  BY <1>1, <1>3 DEF wasPut, table, row
<1>4. AllPut(rows)'
  <2>1. PICK x : x = rows'
    OBVIOUS
  <2>2. ASSUME NEW r \in Request, UpsertRow(r)
        PROVE  AllPut(x)
    <3>1. AllPut(rows) /\ AllPut(putInto(rows, r))
      BY <1>1, PutIn DEF Files, Shape
    <3> QED  BY <2>1, <2>2, <3>1 DEF UpsertRow
  <2>3. ASSUME ~\E r \in Request : UpsertRow(r)
        PROVE  AllPut(x)
    <3>1. rows' = rows
      BY <2>3, NextSplit DEF Storing, Elsewhere, UpsertFile, WriteFile, GetFile, GetRow, Query,
         Acquire, Migrate, Connect, Lock, ReadApplied, Apply, Commit, FailMigration, Crash,
         database, vars
    <3> QED  BY <1>1, <2>1, <3>1 DEF Files
  <2>4. \A t \in Table : wasPut(t, x[t])
    BY <2>2, <2>3 DEF AllPut
  <2> QED  BY <1>3, <2>1, <2>4 DEF AllPut, wasPut
<1>5. file' # Torn => AllPut(file)'
  <2>1. PICK x : x = file'
    OBVIOUS
  <2>2. ASSUME NEW r \in Request, WriteFile(r)
        PROVE  AllPut(x)
    <3>1. read[r] \in Contents /\ AllPut(read[r])
      BY <1>1, <2>2 DEF WriteFile, Files
    <3> QED  BY <1>1, <2>1, <2>2, <3>1, PutIn DEF WriteFile
  <2>3. ASSUME ~\E r \in Request : WriteFile(r)
        PROVE  x = Torn \/ AllPut(x)
    <3>1. file' \in {file, Torn}
      BY <2>3, NextSplit DEF Storing, Elsewhere, UpsertFile, UpsertRow, GetFile, GetRow, Query,
         Acquire, Migrate, Connect, Lock, ReadApplied, Apply, Commit, FailMigration, Crash, vars
    <3> QED  BY <1>1, <2>1, <3>1 DEF Files
  <2>4. x = Torn \/ \A t \in Table : wasPut(t, x[t])
    BY <2>2, <2>3 DEF AllPut
  <2> QED  BY <1>3, <2>1, <2>4 DEF AllPut, wasPut
<1>6. ASSUME NEW r \in Request
      PROVE  \/ UpsertFile(r)
             \/ GetFile(r) \/ GetRow(r)
             \/ read'[r] = read[r] /\ (pc'[r] \in {"truncated", "done"} => pc'[r] = pc[r])
  <2>1. CASE \E q \in Request : q # r /\ (UpsertFile(q) \/ GetFile(q) \/ GetRow(q))
    BY <1>1, <2>1 DEF UpsertFile, GetFile, GetRow, goto, Shape
  <2>2. CASE \E q \in Request : WriteFile(q) \/ UpsertRow(q)
    BY <1>1, <2>2 DEF WriteFile, UpsertRow, goto, Shape
  <2>3. CASE Elsewhere
    BY <1>1, <2>3 DEF Elsewhere, Query, Acquire, Migrate, Connect, Lock, ReadApplied, Apply,
       Commit, FailMigration, goto, Shape
  <2>4. CASE \E p \in Process : Crash(p)
    BY <1>1, <2>4 DEF Crash, Shape
  <2> QED  BY <2>1, <2>2, <2>3, <2>4, NextSplit DEF Storing, vars
<1>7. ASSUME NEW r \in Request, pc'[r] = "truncated"
      PROVE  kind' = "memory" /\ host[r] \in FileProcess /\ read'[r] \in Contents /\ AllPut(read[r])'
  <2>1. PICK x : x = read'[r]
    OBVIOUS
  <2>2. kind = "memory" /\ host[r] \in FileProcess /\ x \in Contents /\ AllPut(x)
    <3>1. CASE UpsertFile(r)
      BY <1>1, <1>2, <2>1, <3>1 DEF UpsertFile, synchronous, Shape
    <3>2. ~GetFile(r) /\ ~GetRow(r)
      BY <1>1, <1>7 DEF GetFile, GetRow, goto, Shape
    <3>3. CASE read'[r] = read[r] /\ (pc'[r] \in {"truncated", "done"} => pc'[r] = pc[r])
      BY <1>1, <1>7, <2>1, <3>3 DEF Files
    <3> QED  BY <1>6, <3>1, <3>2, <3>3
  <2>3. \A t \in Table : wasPut(t, x[t])
    BY <2>2 DEF AllPut
  <2> QED  BY <1>1, <1>3, <2>1, <2>2, <2>3 DEF AllPut, wasPut
<1>8. ASSUME NEW r \in Request, pc'[r] = "done"
      PROVE  wasPut(table(r), read[r])'
  <2>1. PICK x : x = read'[r]
    OBVIOUS
  <2>2. wasPut(table(r), x)
    <3>1. CASE GetFile(r)
      BY <1>1, <1>2, <2>1, <3>1 DEF GetFile, AllPut, Shape
    <3>2. CASE GetRow(r)
      BY <1>1, <1>2, <2>1, <3>2 DEF GetRow, Files, AllPut, Shape
    <3>3. ~UpsertFile(r)
      BY <1>1, <1>8 DEF UpsertFile, goto, Shape
    <3>4. CASE read'[r] = read[r] /\ (pc'[r] \in {"truncated", "done"} => pc'[r] = pc[r])
      BY <1>1, <1>8, <2>1, <3>4 DEF Files
    <3> QED  BY <1>6, <3>1, <3>2, <3>3, <3>4
  <2>3. table(r)' = table(r)
    BY <1>1 DEF table
  <2> QED  BY <1>3, <2>1, <2>2, <2>3 DEF wasPut
<1> QED  BY <1>4, <1>5, <1>7, <1>8 DEF Files

\* Why one process may write a file without a lock: it reads, truncates and
\* writes without yielding.
LEMMA AloneStep ==
  ASSUME IInv, OneWriter, [Next]_vars
  PROVE  Alone'
<1>1. Shape /\ Files /\ Alone
  BY OneWriter DEF IInv
<1>2. ASSUME NEW r \in Request, UpsertFile(r), NEW q \in Request, pc'[q] = "truncated"
      PROVE  q = r
  <2>1. SUFFICES ASSUME q # r PROVE FALSE
    OBVIOUS
  <2>2. pc[q] = "truncated" /\ host[q] \in FileProcess
    BY <1>1, <1>2, <2>1 DEF UpsertFile, goto, Shape, Files
  <2>3. host[r] \in FileProcess /\ \A z \in requestsOf(host[r]) : pc[z] # "truncated"
    BY <1>2 DEF UpsertFile, synchronous
  <2>4. host[q] = host[r]
    BY <2>2, <2>3, OneWriter DEF OneWriter
  <2> QED  BY <2>2, <2>3, <2>4 DEF requestsOf
<1>3. CASE \E r \in Request : UpsertFile(r)
  BY <1>2, <1>3 DEF Alone, UpsertFile
<1>4. CASE \E r \in Request : WriteFile(r)
  <2>1. PICK r \in Request : WriteFile(r)
    BY <1>4
  <2>2. ASSUME NEW q \in Request PROVE pc'[q] # "truncated"
    BY <1>1, <2>1 DEF WriteFile, goto, Shape, Alone
  <2> QED  BY <2>2 DEF Alone
<1>5. ASSUME ~\E r \in Request : UpsertFile(r) \/ WriteFile(r)
      PROVE  /\ file' \in {file, Torn}
             /\ \A q \in Request : pc'[q] = "truncated" => pc[q] = "truncated"
  <2>1. CASE Storing
    BY <1>1, <1>5, <2>1 DEF Storing, GetFile, UpsertRow, GetRow, goto, Shape
  <2>2. CASE Elsewhere
    BY <1>1, <2>2 DEF Elsewhere, Query, Acquire, Migrate, Connect, Lock, ReadApplied, Apply,
       Commit, FailMigration, goto, Shape
  <2>3. CASE \E p \in Process : Crash(p)
    BY <1>1, <2>3 DEF Crash, Shape
  <2> QED  BY <2>1, <2>2, <2>3, NextSplit DEF vars
<1> QED  BY <1>1, <1>3, <1>4, <1>5 DEF Alone

LEMMA InitIInv ==
  ASSUME Init
  PROVE  IInv
<1>1. empty \in Contents /\ AllPut(empty)
  BY DEF empty, Contents, AllPut, wasPut
<1>2. PoolMax \in Nat /\ MIGRATIONS \in Nat
  BY StoreAssumption DEF PoolMax, hosted, postgresUrls
<1>3. Shape /\ Migrations /\ SchemaBeforeQueries /\ Files /\ Alone
  <2>1. Shape
    BY <1>1, <1>2 DEF Init, Shape
  <2>2. Migrations /\ SchemaBeforeQueries /\ Alone
    BY DEF Init, Migrations, SchemaBeforeQueries, Alone
  <2>3. Files
    BY <1>1 DEF Init, Files
  <2> QED  BY <2>1, <2>2, <2>3
<1>4. ASSUME NEW p \in Process
      PROVE  /\ IsFiniteSet(users(p)) /\ clients[p] = Cardinality(users(p)) + migrating(p)
             /\ clients[p] <= PoolMax
  <2>1. users(p) = {} /\ migrating(p) = 0 /\ clients[p] = 0
    BY <1>4 DEF Init, users, requestsOf, migrating
  <2> QED  BY <1>2, <2>1, FS_EmptySet
<1>5. clients \in [Process -> Int]
  BY DEF Init
<1> QED  BY <1>3, <1>4, <1>5 DEF IInv, Connections

\* The inductive invariant: the migration of a process is alone behind the
\* lock, every connection is in use, and what a store holds was put.
THEOREM Invariance == Spec => []IInv
<1>1. Init => IInv
  BY InitIInv
<1>2. IInv /\ [Next]_vars => IInv'
  <2> SUFFICES ASSUME IInv, [Next]_vars PROVE IInv'
    OBVIOUS
  <2>1. OneWriter => Alone'
    BY AloneStep
  <2>2. OneWriter' <=> OneWriter
    BY DEF OneWriter
  <2> QED  BY <2>1, <2>2, ShapeStep, MigrationStep, SchemaStep, ConnectionsStep, FilesStep DEF IInv
<1> QED  BY <1>1, <1>2, PTL DEF Spec

----------------------------------------------------------------------------
(* What follows *)

\* However many processes start cold at once, and whatever connections and
\* processes are lost, one of them migrates, from what is applied to what is
\* committed, no query meets half a schema and no pool is exceeded.
THEOREM MigrationsAlone == Spec => []MigrationsRunAlone
<1>1. ASSUME IInv PROVE MigrationsRunAlone
  <2>1. clients \in [Process -> 0 .. PoolMax]
    <3>1. PoolMax \in Nat
      BY StoreAssumption DEF PoolMax, hosted, postgresUrls
    <3>2. ASSUME NEW p \in Process PROVE clients[p] \in 0 .. PoolMax
      <4>1. Cardinality(users(p)) \in Nat /\ migrating(p) \in {0, 1}
        BY <1>1, FS_CardinalityType DEF IInv, Connections, migrating
      <4>2. clients[p] = Cardinality(users(p)) + migrating(p) /\ clients[p] <= PoolMax
        BY <1>1 DEF IInv, Connections
      <4> QED  BY <3>1, <4>1, <4>2
    <3>3. clients = [p \in Process |-> clients[p]]
      BY <1>1 DEF IInv
    <3> QED  BY <3>2, <3>3
  <2>2. OneMigrator
    BY <1>1 DEF IInv, Shape, Migrations, OneMigrator
  <2> QED  BY <1>1, <2>1, <2>2 DEF IInv, Shape, TypeOK, MigrationsRunAlone
<1> QED  BY <1>1, Invariance, PTL

\* Whatever happens to the processes that share a store, a request reads back
\* a row as it or another request has put it, field for field.
THEOREM RowsComeBack == Spec => []RowsReadBack
<1>1. ASSUME IInv PROVE RowsReadBack
  <2>1. kind \in {"memory", "postgres"}
    BY <1>1, StoreAssumption DEF IInv, Shape, kind
  <2>2. SUFFICES ASSUME NEW r \in Request, pc[r] = "done", read[r] # Nothing
                 PROVE  /\ \E q \in Request : table(q) = table(r) /\ read[r] = row(q)
                        /\ <<kind, read[r]>> \in Faithful
    BY DEF RowsReadBack
  <2>3. PICK q \in Request : table(q) = table(r) /\ read[r] = row(q)
    BY <1>1, <2>2 DEF IInv, Files, wasPut
  <2>4. PICK t \in Table, full \in BOOLEAN : read[r] = <<t, full>>
    BY <1>1, <2>3, RowIsARow DEF IInv
  <2>5. <<kind, read[r]>> \in {"memory", "postgres"} \X (Table \X BOOLEAN)
    BY <2>1, <2>4
  <2>6. LET x == sampleRow(t, full)
            w == written(kind, t, x)
        IN  ~refused(kind, t, w) /\ readBack(kind, t, w) = x
    BY <2>1, RowsSurvive
  <2>7. <<kind, <<t, full>>>> \in Faithful
    <3>1. PICK s : s = <<kind, <<t, full>>>>
      OBVIOUS
    <3>2. s[1] = kind /\ s[2][1] = t /\ s[2][2] = full
      BY <3>1
    <3>3. s \in {"memory", "postgres"} \X (Table \X BOOLEAN)
      BY <2>4, <2>5, <3>1
    <3>4. LET x == sampleRow(s[2][1], s[2][2])
              w == written(s[1], s[2][1], x)
          IN  ~refused(s[1], s[2][1], w) /\ readBack(s[1], s[2][1], w) = x
      BY <2>6, <3>2
    <3> QED  BY <3>1, <3>3, <3>4 DEF Faithful
  <2> QED  BY <2>3, <2>4, <2>7
<1> QED  BY <1>1, Invariance, PTL

\* What the mapping of Promise makes of a state: the rows in memory while
\* somebody writes, else the rows in the store.
LEMMA PromisedIs ==
  ASSUME IInv, OneWriter
  PROVE  /\ \A r \in Request : pc[r] = "truncated" => promised = read[r]
         /\ (\A r \in Request : pc[r] # "truncated") => promised = Stored
         /\ kind = "postgres" => Stored = rows
         /\ kind # "postgres" => Stored = contents
<1>1. Shape /\ Alone
  BY OneWriter DEF IInv
<1>2. \A r \in Request : pc[r] = "truncated" => promised = read[r]
  BY <1>1 DEF promised, Alone
<1>3. (\A r \in Request : pc[r] # "truncated") => promised = Stored
  BY DEF promised
<1>4. contents \in Contents /\ rows \in Contents
  BY <1>1, ContentsAreRows DEF Shape
<1>5. contents = [t \in Table |-> contents[t]] /\ rows = [t \in Table |-> rows[t]]
  BY <1>4 DEF Contents
<1>6. kind = "postgres" => Stored = rows
  BY <1>5 DEF Stored
<1>7. kind # "postgres" => Stored = contents
  BY <1>5 DEF Stored
<1> QED  BY <1>2, <1>3, <1>6, <1>7

LEMMA PromisedWillBe ==
  ASSUME IInv', OneWriter
  PROVE  /\ \A r \in Request : pc'[r] = "truncated" => promised' = read'[r]
         /\ (\A r \in Request : pc'[r] # "truncated") => promised' = Stored'
         /\ kind' = "postgres" => Stored' = rows'
         /\ kind' # "postgres" => Stored' = contents'
<1>1. Shape' /\ Alone'
  BY OneWriter DEF IInv, OneWriter
<1>2. \A r \in Request : pc'[r] = "truncated" => promised' = read'[r]
  BY <1>1 DEF promised, Alone
<1>3. (\A r \in Request : pc'[r] # "truncated") => promised' = Stored'
  BY DEF promised
<1>4. contents' \in Contents /\ rows' \in Contents
  BY <1>1 DEF Shape, contents, empty, Contents
<1>5. contents' = [t \in Table |-> contents'[t]] /\ rows' = [t \in Table |-> rows'[t]]
  BY <1>4 DEF Contents
<1>6. kind' = "postgres" => Stored' = rows'
  BY <1>5 DEF Stored
<1>7. kind' # "postgres" => Stored' = contents'
  BY <1>5 DEF Stored
<1> QED  BY <1>2, <1>3, <1>6, <1>7

\* Where one process writes the file, both stores implement RowStore: an upsert
\* is one Put when its last byte is written or its statement takes effect, and
\* a death in the middle of a write loses the file and nothing less.
THEOREM StoreKeepsItsPromise ==
  ASSUME OneWriter
  PROVE  Spec => KeepsItsPromise
<1>1. ASSUME Init PROVE Promise!Init
  <2>1. promised = empty
    <3>1. promised = Stored
      BY <1>1 DEF Init, promised
    <3>2. contents = empty /\ rows = empty
      BY <1>1 DEF Init, contents
    <3> QED  BY <3>1, <3>2 DEF Stored, empty
  <2> QED  BY <2>1 DEF Promise!Init, empty
<1>2. ASSUME IInv, IInv', [Next]_vars
      PROVE  [Promise!Next]_(Promise!vars)
  <2>1. /\ \A r \in Request : pc[r] = "truncated" => promised = read[r]
        /\ (\A r \in Request : pc[r] # "truncated") => promised = Stored
        /\ kind = "postgres" => Stored = rows
        /\ kind # "postgres" => Stored = contents
    BY <1>2, OneWriter, PromisedIs
  <2>2. /\ \A r \in Request : pc'[r] = "truncated" => promised' = read'[r]
        /\ (\A r \in Request : pc'[r] # "truncated") => promised' = Stored'
        /\ kind' = "postgres" => Stored' = rows'
        /\ kind' # "postgres" => Stored' = contents'
    BY <1>2, OneWriter, PromisedWillBe
  <2>3. Shape /\ Files /\ Alone /\ kind' = kind
    BY <1>2, OneWriter, Fixed DEF IInv, kind, postgresUrls
  <2>4. (durability = "durable")' = (durability = "durable")
    BY <1>2, Fixed DEF durability, kind, postgresUrls
  <2>5. \A r \in Request : pc[r] = "truncated" => kind = "memory" /\ host[r] \in FileProcess
    BY <2>3 DEF Files
  <2>6. \A r \in Request : table(r) \in Table /\ row(r) \in Table \X BOOLEAN
    BY <2>3, RowIsARow
  <2>7. ASSUME NEW r \in Request, promised' = putInto(promised, r)
        PROVE  Promise!Next
    BY <2>4, <2>6, <2>7 DEF Promise!Next, Promise!Put, putInto
  <2>8. ASSUME NEW r \in Request, UpsertFile(r)
        PROVE  promised' = promised
    <3>1. kind = "memory" /\ host[r] \in FileProcess
      BY <2>8 DEF UpsertFile, synchronous
    <3>2. ASSUME NEW q \in Request PROVE pc[q] # "truncated"
      <4>1. pc[q] = "truncated" => q \in requestsOf(host[r])
        BY <2>5, <3>1, OneWriter DEF OneWriter, requestsOf
      <4> QED  BY <2>8, <4>1 DEF UpsertFile, synchronous
    <3>3. promised = contents
      BY <3>1, <3>2, <2>1
    <3>4. pc'[r] = "truncated" /\ read'[r] = contents
      BY <2>3, <2>8 DEF UpsertFile, goto, Shape
    <3> QED  BY <3>3, <3>4, <2>2
  <2>9. ASSUME NEW r \in Request, WriteFile(r)
        PROVE  promised' = putInto(promised, r)
    <3>1. promised = read[r] /\ kind = "memory" /\ read[r] \in Contents
      BY <2>3, <2>9, <2>1 DEF WriteFile, Files
    <3>2. \A q \in Request : pc'[q] # "truncated"
      BY <2>3, <2>9 DEF WriteFile, goto, Shape, Alone
    <3>3. file' = putInto(read[r], r) /\ putInto(read[r], r) \in Contents
      BY <2>3, <2>9, <3>1, PutIn DEF WriteFile
    <3>4. promised' = contents'
      BY <2>3, <3>1, <3>2, <2>2
    <3> QED  BY <3>1, <3>3, <3>4, StoreAssumption DEF contents
  <2>10. ASSUME NEW r \in Request, UpsertRow(r)
        PROVE  promised' = promised \/ promised' = putInto(promised, r)
    <3>1. \A q \in Request : pc'[q] = "truncated" <=> pc[q] = "truncated"
      BY <2>3, <2>10 DEF UpsertRow, goto, Shape
    <3>2. CASE \E q \in Request : pc[q] = "truncated"
      BY <2>10, <3>1, <3>2, <2>1, <2>2 DEF UpsertRow
    <3>3. CASE ~\E q \in Request : pc[q] = "truncated"
      <4>1. promised = Stored /\ promised' = Stored'
        BY <3>1, <3>3, <2>1, <2>2
      <4>2. CASE kind = "postgres"
        BY <2>3, <2>10, <4>1, <4>2, <2>1, <2>2 DEF UpsertRow
      <4>3. CASE kind # "postgres"
        <5>1. contents' = contents
          BY <2>10 DEF UpsertRow, contents, empty
        <5> QED  BY <2>3, <4>1, <4>3, <5>1, <2>1, <2>2
      <4> QED  BY <4>2, <4>3
    <3> QED  BY <3>2, <3>3
\* A request that writes no row, and a step of a migration, leave all as it is.
  <2>11. ASSUME file' = file, rows' = rows,
               \A q \in Request : pc'[q] = "truncated" <=> pc[q] = "truncated",
               \A q \in Request : pc[q] = "truncated" => read'[q] = read[q]
        PROVE  promised' = promised
    <3>1. Stored' = Stored
      BY <2>3, <2>11 DEF Stored, contents, empty
    <3>2. CASE \E q \in Request : pc[q] = "truncated"
      BY <2>11, <3>2, <2>1, <2>2
    <3>3. CASE ~\E q \in Request : pc[q] = "truncated"
      BY <2>11, <3>1, <3>3, <2>1, <2>2
    <3> QED  BY <3>2, <3>3
  <2>12. ASSUME NEW r \in Request, GetFile(r) \/ GetRow(r)
         PROVE  promised' = promised
    BY <2>3, <2>11, <2>12 DEF GetFile, GetRow, goto, database, Shape
  <2>13. CASE Elsewhere
    <3>1. file' = file /\ rows' = rows /\ read' = read
      BY <2>13 DEF Elsewhere, Query, Acquire, Migrate, Connect, Lock, ReadApplied, Apply,
         Commit, FailMigration, database
    <3>2. \A q \in Request : pc'[q] = "truncated" <=> pc[q] = "truncated"
      BY <2>3, <2>13 DEF Elsewhere, Query, Acquire, Migrate, Connect, Lock, ReadApplied, Apply,
         Commit, FailMigration, goto, Shape
    <3>3. promised' = promised
      BY <2>11, <3>1, <3>2
    <3> QED  BY <2>4, <3>3 DEF Promise!vars
  <2>14. ASSUME NEW p \in Process, Crash(p)
         PROVE  promised' = promised \/ (kind = "memory" /\ promised' = empty)
    <3>1. /\ rows' = rows /\ read' = read /\ file' \in {file, Torn}
          /\ file' # file => durability = "ephemeral"
          /\ \A q \in Request : pc'[q] = "truncated" <=> pc[q] = "truncated" /\ host[q] # p
      BY <2>3, <2>14 DEF Crash, Shape
    <3>2. kind \in {"memory", "postgres"} /\ (kind = "postgres" => file' = file)
      BY <2>3, <3>1, StoreAssumption DEF Shape, kind, durability
    <3>3. CASE \E q \in Request : pc'[q] = "truncated"
      BY <3>1, <3>3, <2>1, <2>2
    <3>4. CASE ~\E q \in Request : pc'[q] = "truncated"
      <4>1. promised' = Stored'
        BY <3>4, <2>2
      <4>2. CASE kind = "postgres"
        <5>1. promised = rows
          BY <2>5, <4>2, <2>1
        <5> QED  BY <2>3, <3>1, <4>1, <4>2, <5>1, <2>2
      <4>3. CASE kind = "memory" /\ file' = Torn
        <5>1. contents' = empty
          BY <4>3 DEF contents, empty
        <5> QED  BY <2>3, <4>1, <4>3, <5>1, <2>2
      <4>4. CASE kind = "memory" /\ file' = file /\ file # Torn
        <5>1. contents' = contents
          BY <4>4 DEF contents
        <5>2. promised = contents
          BY <2>3, <4>4, <2>1 DEF Alone
        <5> QED  BY <2>3, <4>1, <4>4, <5>1, <5>2, <2>2
      <4> QED  BY <3>1, <3>2, <4>2, <4>3, <4>4
    <3> QED  BY <3>3, <3>4
  <2>15. CASE UNCHANGED vars
    <3>1. promised' = promised
      BY <2>11, <2>15 DEF vars
    <3> QED  BY <2>4, <3>1 DEF Promise!vars
  <2>16. ASSUME NEW p \in Process, Crash(p)
         PROVE  [Promise!Next]_(Promise!vars)
    <3>1. CASE promised' = promised
      BY <2>4, <3>1 DEF Promise!vars
    <3>2. CASE kind = "memory" /\ promised' = empty
      <4>1. durability # "durable"
        BY <3>2 DEF durability
      <4> QED  BY <2>4, <3>2, <4>1 DEF Promise!Next, Promise!Lose, empty
    <3> QED  BY <2>14, <2>16, <3>1, <3>2
  <2>17. CASE Storing
    BY <2>4, <2>7, <2>8, <2>9, <2>10, <2>12, <2>17 DEF Storing, Promise!vars
  <2> QED  BY <2>13, <2>15, <2>16, <2>17, <1>2, NextSplit
<1> QED  BY <1>1, <1>2, Invariance, PTL DEF Spec, KeepsItsPromise, Promise!Spec
=============================================================================
