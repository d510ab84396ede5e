------------------------------ MODULE RowCodec ------------------------------
(***************************************************************************)
(* How rows get into a store and back (src/lib/store/postgres.ts,          *)
(* memory.ts and serialize.ts).  A JavaScript value is a kind and what it  *)
(* holds; a row maps its fields to values.  Per table, a field has a       *)
(* codec: how the store writes it and reads it back.                       *)
(***************************************************************************)
EXTENDS Naturals

value(kind, v) == [js |-> kind, v |-> v]
null == value("null", "")
isNull(x) == x.js = "null"
object(f) == value("object", f)

\* The columns of a table, by how the ...From functions read them.
launches ==
  [ text |-> {"mint", "name", "symbol", "description", "quoteMint",
              "quoteSymbol", "tokenProgram", "launchSupply", "poolBase",
              "currentSupply", "creator", "launchTx", "stonkUrl", "source"},
    nullable |-> {"imageDataUrl"}, orEmpty |-> {"website", "twitter", "telegram"},
    integer |-> {"decimals"}, time |-> {"createdAt"} ]

jobs ==
  [ text |-> {"id", "state", "mint", "owner", "amountBase", "destination",
              "nonce", "idempotencyKey"},
    nullable |-> {"sourceTx", "burnLocator", "tokenProgram", "burnAuthority",
                  "authorityRole", "intentLocator", "commitmentHex", "zcashTx",
                  "rejectReason", "rejectMessage"},
    integer |-> {"decimals", "confirmations"},
    nullableInteger |-> {"zcashOutputIndex", "zcashNullDataIndex", "zcashHeight"},
    claim |-> {"claimPackage"}, time |-> {"createdAt", "updatedAt"} ]

stamps ==
  [ text |-> {"id", "jobId", "sourceNetwork", "destinationNetwork", "mint",
              "tokenProgram", "sourceTx", "burnLocator", "amountBase",
              "destination", "burnAuthority", "authorityRole", "intentLocator",
              "nonce", "commitmentHex", "zcashTx"},
    integer |-> {"decimals", "zcashOutputIndex", "zcashNullDataIndex",
                 "zcashHeight", "confirmations"},
    time |-> {"createdAt"} ]

listings ==
  [ text |-> {"id", "stampId", "stampCommitmentHex", "state", "sellerAddress",
              "sellerPublicKeyHex", "priceZat"},
    orEmpty |-> {"note"},
    nullable |-> {"buyerAddress", "buyerPublicKeyHex", "hashLockHex",
                  "preimageHex", "offerTxid", "transferTxid", "escrowId"},
    integer |-> {"sequence"}, nullableInteger |-> {"expiryHeight"},
    artifact |-> {"offerArtifact", "transferArtifact"},
    time |-> {"createdAt", "updatedAt"} ]

transfers ==
  [ text |-> {"id", "stampId", "stampCommitmentHex", "txid"},
    nullable |-> {"listingId"}, integer |-> {"sequence"},
    record |-> {"artifact"}, time |-> {"createdAt"} ]

demoState == [ demo |-> {"solana", "zcash"} ]

Table == {"launches", "jobs", "stamps", "listings", "transfers", "demoState"}
columns(table) ==
  CASE table = "launches" -> launches [] table = "jobs" -> jobs
    [] table = "stamps" -> stamps [] table = "listings" -> listings
    [] table = "transfers" -> transfers [] table = "demoState" -> demoState

codecs(table) ==
  LET by == columns(table)
  IN  [n \in UNION {by[c] : c \in DOMAIN by} |-> CHOOSE c \in DOMAIN by : n \in by[c]]

\* The columns without NOT NULL: those the CREATE TABLE statements of the
\* first migration leave open, and those of the market.
nullableInit ==
  [ launches |-> {"imageDataUrl"}, stamps |-> {}, demoState |-> {},
    jobs |-> {"sourceTx", "burnLocator", "tokenProgram", "burnAuthority",
              "authorityRole", "intentLocator", "commitmentHex", "zcashTx",
              "zcashOutputIndex", "zcashNullDataIndex", "zcashHeight",
              "rejectReason", "rejectMessage", "claimPackage"} ]
nullableMarket ==
  [ transfers |-> {"listingId"},
    listings |-> {"buyerAddress", "buyerPublicKeyHex", "hashLockHex",
                  "preimageHex", "offerArtifact", "offerTxid",
                  "transferArtifact", "transferTxid", "escrowId",
                  "expiryHeight"} ]
nullableColumns(table) ==
  IF table \in DOMAIN nullableInit THEN nullableInit[table] ELSE nullableMarket[table]

----------------------------------------------------------------------------
(* JSON, and what is done to a value before it meets JSON *)

\* JSON.parse(JSON.stringify(v)) of a leaf: a bigint throws, which is the
\* value Thrown here; a Uint8Array comes back as an object of its indexes.
Thrown == value("thrown", "")
jsonLeaf(x) ==
  CASE x.js = "bigint" -> Thrown
    [] x.js = "bytes" -> value("indexes", x.v)
    [] OTHER -> x
json(x) ==
  IF x.js # "object" THEN jsonLeaf(x)
  ELSE LET f == [n \in DOMAIN x.v |-> jsonLeaf(x.v[n])]
       IN  IF \E n \in DOMAIN f : f[n].js = Thrown.js THEN Thrown ELSE object(f)

\* Balances and supplies (serAccount, serMint) go as decimal strings,
\* instruction data and null-data (serIx, serializeDemo) as base64.
asString(x) == IF x.js = "bigint" THEN value("string", x.v) ELSE x
asBase64(x) == IF x.js = "bytes" THEN value("string", x.v) ELSE x
ser(x) == object([n \in DOMAIN x.v |-> asBase64(asString(x.v[n]))])

\* The reader knows the fields: it makes bigints and bytes of them by name.
Bigints == {"amount", "delegatedAmount", "supply", "fundedZat", "amountZat", "valueZat"}
Bytes == {"data", "nullData"}
deser(x) ==
  object([n \in DOMAIN x.v |->
    IF isNull(x.v[n]) THEN null
    ELSE IF n \in Bigints THEN value("bigint", x.v[n].v)
    ELSE IF n \in Bytes THEN value("bytes", x.v[n].v)
    ELSE x.v[n]])

----------------------------------------------------------------------------
(* Postgres *)

toColumn_plainJson(codec, x) ==
  IF codec \in {"claim", "artifact", "record", "demo"} /\ ~isNull(x) THEN json(x) ELSE x
toColumn(codec, x) ==
  CASE codec = "claim" -> IF isNull(x) THEN null ELSE json(ser(x))
    [] codec = "artifact" -> IF isNull(x) THEN null ELSE json(x)
    [] codec = "record" -> json(x)
    [] codec = "demo" -> json(ser(x))
    [] codec = "time" -> value("date", x.v)
    [] OTHER -> x

\* String(null) is "null" and Number(null) is 0.
fromColumn_asNumber(codec, c) ==
  IF codec \in {"integer", "nullableInteger"} /\ isNull(c) THEN value("number", "0")
  ELSE IF codec = "time" THEN value("string", c.v) ELSE c
fromColumn(codec, c) ==
  CASE codec = "text" -> IF isNull(c) THEN value("string", "null") ELSE value("string", c.v)
    [] codec = "orEmpty" -> IF isNull(c) THEN value("string", "") ELSE value("string", c.v)
    [] codec = "integer" -> IF isNull(c) THEN value("number", "0") ELSE value("number", c.v)
    [] codec = "nullableInteger" -> IF isNull(c) THEN null ELSE value("number", c.v)
    [] codec = "time" -> value("string", c.v)
    [] codec \in {"claim", "demo"} -> IF isNull(c) THEN null ELSE deser(c)
    [] OTHER -> c

----------------------------------------------------------------------------
(* The file *)

\* toStored, then JSON.stringify with a replacer that writes bigints as text.
toFile(codec, x) ==
  IF codec \in {"claim", "demo"} /\ ~isNull(x) THEN json(ser(x))
  ELSE IF x.js = "bigint" THEN value("string", x.v) ELSE json(x)

\* fromStored and withLaunchLinks.
fromFile(codec, x) ==
  CASE codec \in {"claim", "demo"} -> IF isNull(x) THEN null ELSE deser(x)
    [] codec = "orEmpty" -> IF isNull(x) THEN value("string", "") ELSE x
    [] OTHER -> x

written(kind, table, r) ==
  LET c == codecs(table)
  IN  [n \in DOMAIN c |-> IF kind = "postgres" THEN toColumn(c[n], r[n])
                          ELSE toFile(c[n], r[n])]
\* Postgres refuses a row with NULL in a column that is NOT NULL.
refused(kind, table, w) ==
  kind = "postgres" /\ \E n \in DOMAIN w : isNull(w[n]) /\ n \notin nullableColumns(table)
readBack(kind, table, r) ==
  LET c == codecs(table)
  IN  [n \in DOMAIN c |-> IF kind = "postgres" THEN fromColumn(c[n], r[n])
                          ELSE fromFile(c[n], r[n])]

----------------------------------------------------------------------------
(* Rows the program writes: every optional field empty, or every one set.  *)

nested(full) ==
  object([amount |-> value("bigint", "7"), delegatedAmount |-> value("bigint", "0"),
          supply |-> value("bigint", "9"), owner |-> value("string", "ann"),
          data |-> value("bytes", "3"),
          nullData |-> IF full THEN value("bytes", "4") ELSE null])

sample(codec, full) ==
  CASE codec \in {"text", "time"} -> value("string", "text")
    [] codec = "orEmpty" -> value("string", IF full THEN "text" ELSE "")
    [] codec = "nullable" -> IF full THEN value("string", "text") ELSE null
    [] codec = "integer" -> value("number", IF full THEN "6" ELSE "0")
    [] codec = "nullableInteger" -> IF full THEN value("number", "0") ELSE null
    [] codec = "claim" -> IF full THEN nested(TRUE) ELSE null
    [] codec = "artifact" ->
         IF full THEN object([amount |-> value("string", "7")]) ELSE null
    [] codec = "record" -> object([amount |-> value("string", "7")])
    [] codec = "demo" -> nested(full)

sampleRow(table, full) ==
  [n \in DOMAIN codecs(table) |-> sample(codecs(table)[n], full)]

=============================================================================
