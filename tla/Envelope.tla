------------------------------ MODULE Envelope ------------------------------
(***************************************************************************)
(* The bytes of a reveal (src/lib/zcash/inscription.ts and script.ts): the *)
(* ord envelope with the stamp's text in pushes of at most CHUNK_BYTES,    *)
(* the signature, the redeem script; and the readers of those bytes.       *)
(*                                                                         *)
(* Scripts are sequences of bytes with the code's own thresholds.  A text  *)
(* is one of the Texts, and its characters are named, not spelled: a       *)
(* character of text k is a number above every byte.  What a text says and *)
(* how many characters that takes is kept, because the length decides how  *)
(* many pushes the envelope has.                                           *)
(***************************************************************************)
EXTENDS Integers, Sequences, SequencesExt

CONSTANTS
  Text,   \* Text[k]: what the k-th text says (a stamp, or NotAStamp)
  Width   \* Width[s]: the number of characters of the string s

NotAStamp == [op |-> "none"]
Texts == DOMAIN Text

ASSUME EnvelopeAssumption ==
  /\ \A s \in DOMAIN Width : Width[s] \in Nat
  /\ Texts \subseteq Nat
  /\ \A k \in Texts :
       Text[k] = NotAStamp
         \/ /\ Text[k].amt \in Nat
            /\ {Text[k].p, Text[k].mint, Text[k].burn, Text[k].to} \subseteq DOMAIN Width

\* decimal digits of an amount
digits[n \in Nat] == IF n < 10 THEN 1 ELSE 1 + digits[n \div 10]

(* -------------------------------- pushes ------------------------------- *)

OP_PUSHDATA1 == 76
OP_PUSHDATA2 == 77

pushData_short(bytes) ==
  LET n == Len(bytes)
  IN IF n <= 255 THEN <<n>> \o bytes
     ELSE <<OP_PUSHDATA2, n % 256, n \div 256>> \o bytes

\* A push whose header says how long it is.  None here is near the length of
\* two bytes at which the code throws: a chunk has 240, a redeem script 77.
pushData(bytes) ==
  LET n == Len(bytes)
  IN IF n < OP_PUSHDATA1 THEN <<n>> \o bytes
     ELSE IF n <= 255 THEN <<OP_PUSHDATA1, n>> \o bytes
     ELSE <<OP_PUSHDATA2, n % 256, n \div 256>> \o bytes

(* ------------------------------- encoding ------------------------------ *)

TAG_CONTENT_TYPE == 82     \* OP_2
TAG_BODY == 81             \* OP_1
TAG_CONTINUATION == 0      \* OP_0
CHUNK_BYTES == 240
ENVELOPE_MAGIC == <<111, 114, 100>>
CONTENT_TYPE == [i \in 1 .. 16 |-> 96 + i]

\* The characters of the stamp's JSON: those of the fields, and 63 for the keys,
\* the punctuation, the operation and the version.
bodyBytes(stamp) ==
  63 + Width[stamp.p] + Width[stamp.mint] + Width[stamp.burn]
     + digits[stamp.amt] + Width[stamp.to]

encodePayload(k) ==
  [i \in 1 .. (IF Text[k] = NotAStamp THEN 1 ELSE bodyBytes(Text[k])) |-> 1000 * k + i]

\* The offsets at which a chunk of the body starts.
chunkStarts(body) == {i \in 1 .. Len(body) : (i - 1) % CHUNK_BYTES = 0}

chunkAt(body, start) ==
  <<IF start = 1 THEN TAG_BODY ELSE TAG_CONTINUATION>>
    \o pushData(SubSeq(body, start,
                       IF start + CHUNK_BYTES - 1 < Len(body) THEN start + CHUNK_BYTES - 1
                                                             ELSE Len(body)))

encodeEnvelope(body) ==
  pushData(ENVELOPE_MAGIC) \o <<TAG_CONTENT_TYPE>> \o pushData(CONTENT_TYPE)
    \o FlattenSeq([j \in 1 .. Cardinality(chunkStarts(body)) |->
                     chunkAt(body, 1 + (j - 1) * CHUNK_BYTES)])

encodeStamp(k) == encodeEnvelope(encodePayload(k))

(* --------------------------- the redeem script ------------------------- *)

OP_CHECKSIGVERIFY == 173
OP_DROP == 117
OP_1 == 81
INSCRIPTION_DROPS == 8

\* A key or a commitment is told apart by its length; its bytes by the text.
PublicKey == [i \in 1 .. 33 |-> 200]
Commitment(k) == [i \in 1 .. 32 |-> 1000 * k + 500]

inscriptionRedeemScript(k) ==
  pushData(PublicKey) \o <<OP_CHECKSIGVERIFY>> \o pushData(Commitment(k))
    \o [i \in 1 .. INSCRIPTION_DROPS |-> OP_DROP] \o <<OP_1>>

\* A signature of the given length, hash type included.
signatureOf(length) == [i \in 1 .. length |-> 201]

inscriptionScriptSig(k, length) ==
  encodeStamp(k) \o pushData(signatureOf(length)) \o pushData(inscriptionRedeemScript(k))

(* ------------------------------- reading ------------------------------- *)

\* The items of a script, pushes and bare opcodes, up to the first push that
\* the script does not hold whole.  A one-byte length that is missing ends the
\* script too, after an empty push.
Opcode(code) == [opcode |-> code, data |-> << >>, push |-> FALSE]
Push(bytes) == [opcode |-> -1, data |-> bytes, push |-> TRUE]

parseScript(script) ==
  LET byte(i) == IF i <= Len(script) THEN script[i] ELSE 0
      header(i) == CASE byte(i) \in 1 .. OP_PUSHDATA1 - 1 -> 1
                     [] byte(i) = OP_PUSHDATA1 -> 2
                     [] byte(i) = OP_PUSHDATA2 -> 3
                     [] OTHER -> 0
      length(i) == CASE header(i) = 1 -> byte(i)
                     [] header(i) = 2 -> byte(i + 1)
                     [] OTHER -> byte(i + 1) + 256 * byte(i + 2)
      items[i \in 1 .. Len(script) + 1] ==
        LET start == i + header(i)
            next == start + length(i) IN
          IF i > Len(script) THEN << >>
          ELSE IF header(i) = 0 THEN <<Opcode(byte(i))>> \o items[i + 1]
          ELSE IF header(i) = 2 /\ i = Len(script) THEN <<Push(<< >>)>>
          ELSE IF next - 1 > Len(script) THEN << >>
          ELSE <<Push(SubSeq(script, start, next - 1))>> \o items[next]
  IN items[1]

readItem_sticky(read, item) ==
  IF ~item.push THEN
    CASE item.opcode = TAG_CONTENT_TYPE -> [read EXCEPT !.reading = "contentType"]
      [] item.opcode \in {TAG_BODY, TAG_CONTINUATION} -> [read EXCEPT !.reading = "body"]
      [] OTHER -> read
  ELSE CASE read.reading = "contentType" -> [read EXCEPT !.contentType = item.data]
         [] read.reading = "body" -> [read EXCEPT !.chunks = @ + 1, !.body = @ \o item.data]
         [] OTHER -> read

\* One item read: a tag says what the next push is; the first push after a
\* body tag is a chunk, and pushes nothing announced are skipped.
readItem(read, item) ==
  IF ~item.push THEN
    CASE item.opcode = TAG_CONTENT_TYPE -> [read EXCEPT !.reading = "contentType"]
      [] item.opcode \in {TAG_BODY, TAG_CONTINUATION} -> [read EXCEPT !.reading = "body"]
      [] OTHER -> read
  ELSE CASE read.reading = "contentType" -> [read EXCEPT !.contentType = item.data,
                                                         !.reading = "none"]
         [] read.reading = "body" -> [read EXCEPT !.chunks = @ + 1, !.body = @ \o item.data,
                                                  !.reading = "none"]
         [] OTHER -> read

NoEnvelope == [contentType |-> << >>, body |-> << >>, chunks |-> 0, reading |-> "none"]

\* What a script of these items carries after the first push that says "ord".
readEnvelope(items) ==
  LET starts == {i \in DOMAIN items : items[i].push /\ items[i].data = ENVELOPE_MAGIC}
      start == CHOOSE i \in starts : \A j \in starts : i <= j
  IN IF starts = {} THEN NoEnvelope
     ELSE FoldLeft(readItem, NoEnvelope, SubSeq(items, start + 1, Len(items)))

decodeEnvelope(script) == readEnvelope(parseScript(script))

\* The stamp an envelope carries: the text it spells, if that text is a stamp.
decodePayload(read) ==
  LET spelled == {k \in Texts : encodePayload(k) = read.body /\ Text[k] # NotAStamp}
  IN IF read.chunks = 0 \/ spelled = {} THEN NotAStamp
     ELSE Text[CHOOSE k \in spelled : TRUE]

decodeStamp(script) == decodePayload(decodeEnvelope(script))

\* The key, the commitment and the drops of a redeem script of these items.
decodeRedeemScript(items) ==
  LET ofLength(n) == {i \in DOMAIN items : items[i].push /\ Len(items[i].data) = n}
  IN [complete |-> ofLength(33) # {} /\ ofLength(32) # {},
      drops |-> Cardinality({i \in DOMAIN items : items[i].opcode = OP_DROP})]

(* ------------------------ the chain's script rule ---------------------- *)

\* Whether a node lets this scriptSig spend the output of its redeem script.
\* Every item is one stack element.  The redeem script, itself the last one,
\* pushes the key, checks and removes key and signature, pushes the commitment
\* and drops; a drop on an empty stack fails the script.
clearsStack(items, redeem) ==
  LET beneath == Len(items) - 2     \* neither the redeem script nor the signature
  IN redeem.complete /\ beneath + 1 >= redeem.drops

nodeAcceptsItems(items) ==
  clearsStack(items, decodeRedeemScript(parseScript(items[Len(items)].data)))

nodeAcceptsScript(scriptSig) == nodeAcceptsItems(parseScript(scriptSig))
=============================================================================
