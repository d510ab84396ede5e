---------------------------- MODULE WalletServer ----------------------------
(***************************************************************************)
(* Wallet sessions as the server keeps them (src/lib/wallet/nonce.ts,      *)
(* cookie.ts, session.ts, taddr-proof.ts and the routes under              *)
(* src/app/api/wallet).  A session is nothing but a signed cookie: the     *)
(* server remembers the nonces it has issued and the address proofs, both  *)
(* in the memory of one process.                                           *)
(*                                                                         *)
(* Requests carry the cookie the browser had when they were sent; replies  *)
(* set it when they arrive.  Requests are served, and replies arrive, in   *)
(* any order.  A statement is what it names; one of the site's own is the  *)
(* only kind in the model, so the domain is left out.                      *)
(***************************************************************************)
EXTENDS Naturals, FiniteSets

CONSTANTS
  Key,               \* Solana accounts of the user
  Address,           \* transparent Zcash addresses of the user
  MaxNonces,         \* bound: nonces that can be issued
  Tab,               \* tabs of the browser
  SecretConfigured,  \* STAMP_SESSION_SECRET is set
  MaxFaults,         \* bound: restarts, lost messages and expiries
  None, Keep, Gone

ASSUME WalletAssumption ==
  /\ SecretConfigured \in BOOLEAN /\ MaxFaults \in Nat /\ MaxNonces \in Nat
  /\ Key # {} /\ Gone \notin Tab
  /\ None \notin [publicKey : Key, verifiedAt : 1 .. MaxNonces]

VARIABLES
  nonces,   \* the map of the nonce store: issued, not consumed, not swept
  issued,   \* every nonce ever issued
  proofs,   \* proofStore: which session has proved which address
  boot,     \* starts of the process; names its ephemeral secret
  expired,  \* sessions older than SESSION_TTL_MS
  wire,     \* requests on their way
  replies,  \* replies on their way
  cookie,   \* the cookie of the browser, or None
  faults,
  lapsed,   \* nonces that timed out unused, or that a restart lost
  \* History, for the properties only.
  verified,     \* sessions given, each with who signed for it
  established,  \* established[n]: sessions and proofs that nonce n gave
  listed        \* uses of a proof: the session, and the proof it found

\* Random nonces, named in the order in which they are issued.
Nonce == 1 .. MaxNonces

server == <<nonces, issued, proofs, boot, expired>>
history == <<verified, established, lapsed, listed>>
vars_server == <<server, wire, replies, cookie, faults, history>>

InitServer ==
  /\ nonces = {} /\ issued = {} /\ proofs = {}
  /\ boot = 1 /\ expired = {}
  /\ wire = {} /\ replies = {} /\ cookie = None
  /\ faults = 0
  /\ verified = {} /\ established = [n \in Nonce |-> 0] /\ lapsed = {}
  /\ listed = {}

statement(wallet, address, nonce) ==
  [wallet |-> wallet, address |-> address, nonce |-> nonce]
noStatement == statement(None, None, None)

\* A request: signer is whose key made the signature in its body.
request(tab, op, stmt, signer) ==
  [tab |-> tab, op |-> op, cookie |-> cookie, stmt |-> stmt, signer |-> signer]

reply(r, ok, session, stmt, set) ==
  [tab |-> r.tab, op |-> r.op, ok |-> ok, session |-> session, stmt |-> stmt,
   cookie |-> set]
refusal(r) == reply(r, FALSE, None, noStatement, Keep)

answer(r, m) == wire' = wire \ {r} /\ replies' = replies \cup {m}

encodeSessionCookie(session) == [session |-> session, boot |-> boot]

\* A cookie of another process has another secret unless one is configured.
readSessionCookie(r) ==
  IF r.cookie = None \/ (~SecretConfigured /\ r.cookie.boot # boot) THEN None
  ELSE IF r.cookie.session \in expired THEN None ELSE r.cookie.session

\* verifiedAt is the instant of the verification, named by the nonce it used.
newSession(wallet, nonce) == [publicKey |-> wallet, verifiedAt |-> nonce]
sessionKey_walletOnly(session) == session.publicKey
sessionKey(session) == session

----------------------------------------------------------------------------
(* The nonce store *)

\* Both sweep: what has timed out stays in the map until then.
issue(n) ==
  /\ n = Cardinality(issued) + 1
  /\ nonces' = (nonces \ lapsed) \cup {n} /\ issued' = issued \cup {n}

consume_keep(nonce) == nonces' = nonces
consume(nonce) == nonces' = nonces \ (lapsed \cup {nonce})
\* What consume answers: the nonce is in the map, and its time is not over.
outstanding_anyAge(nonce) == nonce \in nonces
outstanding(nonce) == nonce \in nonces \ lapsed

----------------------------------------------------------------------------
(* The routes *)

NonceRoute(r) ==
  /\ r.op = "nonce"
  /\ \E n \in Nonce :
       /\ issue(n)
       /\ answer(r, reply(r, TRUE, None, statement(None, None, n), Keep))
  /\ UNCHANGED <<proofs, boot, expired, cookie, faults, history>>

signatureVerifies_any(r) == TRUE
\* verifySessionProof: the key the statement names made the signature.
signatureVerifies(r) == r.signer = r.stmt.wallet

\* The nonce is spent whatever the verification then says.
SessionPost(r) ==
  LET session == newSession(r.stmt.wallet, r.stmt.nonce)
  IN  /\ r.op = "connect"
      /\ consume(r.stmt.nonce)
      /\ IF outstanding(r.stmt.nonce) /\ signatureVerifies(r)
         THEN /\ answer(r, reply(r, TRUE, session, noStatement,
                                 encodeSessionCookie(session)))
              /\ verified' = verified \cup {[session |-> session, signer |-> r.signer]}
              /\ established' = [established EXCEPT ![r.stmt.nonce] = @ + 1]
         ELSE answer(r, refusal(r)) /\ UNCHANGED <<verified, established>>
      /\ UNCHANGED <<issued, proofs, boot, expired, cookie, faults, lapsed, listed>>

SessionGet(r) ==
  /\ r.op = "session"
  /\ answer(r, reply(r, TRUE, readSessionCookie(r), noStatement, Keep))
  /\ UNCHANGED <<server, cookie, faults, history>>

held(session) == {p \in proofs : session # None /\ p.key = sessionKey(session)}

SessionDelete(r) ==
  LET session == readSessionCookie(r)
  IN  /\ r.op = "delete"
      /\ proofs' = proofs \ held(session)
      /\ answer(r, reply(r, TRUE, None, noStatement, None))
      /\ UNCHANGED <<nonces, issued, boot, expired, cookie, faults, verified,
                     established, lapsed, listed>>

Challenge(r) ==
  LET session == readSessionCookie(r)
  IN  /\ r.op = "challenge"
      /\ IF session = None
         THEN answer(r, refusal(r)) /\ UNCHANGED <<nonces, issued>>
         ELSE \E n \in Nonce :
                /\ issue(n)
                /\ answer(r, reply(r, TRUE, None,
                     statement(session.publicKey, r.stmt.address, n), Keep))
      /\ UNCHANGED <<proofs, boot, expired, cookie, faults, history>>

verifyAddressProof_anyWallet(r, session) == r.signer = r.stmt.address
\* The statement names the wallet of the session that presents it, and the
\* holder of the address has signed it.
verifyAddressProof(r, session) ==
  r.stmt.wallet = session.publicKey /\ r.signer = r.stmt.address

proof(r, session) ==
  [key |-> sessionKey(session), address |-> r.stmt.address,
   by |-> session, stmt |-> r.stmt]

TaddrPost_nonceFirst(r) ==
  LET session == readSessionCookie(r)
      valid == session # None /\ verifyAddressProof(r, session)
  IN  /\ r.op = "taddr"
      /\ consume(r.stmt.nonce)
      /\ IF valid /\ outstanding(r.stmt.nonce)
         THEN /\ proofs' = proofs \cup {proof(r, session)}
              /\ established' = [established EXCEPT ![r.stmt.nonce] = @ + 1]
              /\ answer(r, reply(r, TRUE, None, noStatement, Keep))
         ELSE answer(r, refusal(r)) /\ UNCHANGED <<proofs, established>>
      /\ UNCHANGED <<issued, boot, expired, cookie, faults, verified, lapsed, listed>>
\* The nonce is spent only once the signature has checked out.  The session
\* is the cookie's: a DELETE served before does not make it invalid.
TaddrPost(r) ==
  LET session == readSessionCookie(r)
      valid == session # None /\ verifyAddressProof(r, session)
  IN  /\ r.op = "taddr"
      /\ IF valid THEN consume(r.stmt.nonce) ELSE UNCHANGED nonces
      /\ IF valid /\ outstanding(r.stmt.nonce)
         THEN /\ proofs' = proofs \cup {proof(r, session)}
              /\ established' = [established EXCEPT ![r.stmt.nonce] = @ + 1]
              /\ answer(r, reply(r, TRUE, None, noStatement, Keep))
         ELSE answer(r, refusal(r)) /\ UNCHANGED <<proofs, established>>
      /\ UNCHANGED <<issued, boot, expired, cookie, faults, verified, lapsed, listed>>

\* createListing at a transparent address: the proof of this session. What
\* else it does is in the module Market; here it takes one step.
ListingPost(r) ==
  LET session == readSessionCookie(r)
      found == {p \in held(session) : p.address = r.stmt.address}
  IN  /\ found # {}
      /\ listed' = listed \cup {[session |-> session, found |-> p] : p \in found}
      /\ UNCHANGED <<server, wire, replies, cookie, faults, verified, established,
                     lapsed>>

Handle(r) ==
  \/ NonceRoute(r) \/ SessionPost(r) \/ SessionGet(r) \/ SessionDelete(r)
  \/ Challenge(r) \/ TaddrPost(r)

----------------------------------------------------------------------------
(* Faults *)

fault == faults < MaxFaults /\ faults' = faults + 1

\* Nonces and proofs are in memory, and so is the secret.
Restart ==
  /\ fault
  /\ boot' = boot + 1
  /\ lapsed' = lapsed \cup nonces
  /\ nonces' = {} /\ proofs' = {}
  /\ UNCHANGED <<issued, expired, wire, replies, cookie, verified, established, listed>>

\* NONCE_TTL_MS has passed.  A statement to connect with may still be signed:
\* its own age counts from the signing (connect.ts:89-98).
ExpireNonce(n) ==
  /\ n \in nonces \ lapsed /\ fault
  /\ lapsed' = lapsed \cup {n}
  /\ UNCHANGED <<server, wire, replies, cookie, verified, established, listed>>

\* SESSION_TTL_MS has passed since verifiedAt.
ExpireSession(session) ==
  /\ session \notin expired /\ fault
  /\ expired' = expired \cup {session}
  /\ UNCHANGED <<nonces, issued, proofs, boot, wire, replies, cookie, history>>

\* A request that is lost, or whose reply is: its fetch rejects, and the
\* browser never sees the Set-Cookie.
LoseRequest(r) ==
  /\ fault
  /\ answer(r, refusal(r))
  /\ UNCHANGED <<server, cookie, history>>

LoseReply(m) ==
  /\ m # refusal(m) /\ fault
  /\ replies' = (replies \ {m}) \cup {refusal(m)}
  /\ UNCHANGED <<server, wire, cookie, history>>

=============================================================================
