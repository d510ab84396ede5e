--------------------------- MODULE Wallet_proofs ----------------------------
(***************************************************************************)
(* Proofs about the wallet, for every number of accounts, tabs, nonces and *)
(* faults: a nonce establishes one thing at most, a proof of an address    *)
(* keeps to the wallet and the session that gave it, the identity a tab    *)
(* shows has been signed for by that account, and a statement that a panel *)
(* shows stays signable as long as its time runs.                          *)
(*                                                                         *)
(* The invariant has six parts.  Nonces are issued in order, and one that  *)
(* is still outstanding has established nothing.  A kept proof is filed    *)
(* under the session that gave it.  Every session on its way, in a cookie, *)
(* a request or a reply, is one the server has given.  An answer that a    *)
(* panel waits for finds the panel open, and it waits for one at a time.   *)
(* The nonces of statements and those of connecting are never the same.    *)
(***************************************************************************)
EXTENDS WalletClient, FiniteSetTheorems, TLAPS

\* A session that its own account signed for.
Owned(s, given) == s \in Session /\ [session |-> s, signer |-> s.publicKey] \in given

GoodSession(s, given) == s = None \/ Owned(s, given)
GoodCookie(c, given, boots) == c = None \/ (Owned(c.session, given) /\ c.boot \in 1 .. boots)

GoodRequest(r, given, boots) ==
  /\ DOMAIN r = {"tab", "op", "cookie", "stmt", "signer"}
  /\ GoodCookie(r.cookie, given, boots)
  /\ r.op = "connect" => r.signer \in Key
GoodReply(m, given, boots) ==
  /\ DOMAIN m = {"tab", "op", "ok", "session", "stmt", "cookie"}
  /\ GoodSession(m.session, given)
  /\ m.cookie = Keep \/ GoodCookie(m.cookie, given, boots)
  /\ m.op = "connect" /\ m.ok => m.session # None

NoncesOK ==
  /\ \E k \in 0 .. MaxNonces : issued = 1 .. k
  /\ nonces \subseteq issued /\ issued \subseteq Nonce
  /\ established \in [Nonce -> Nat]
  /\ \A n \in Nonce :
       /\ established[n] <= 1
       /\ n \in nonces \cup lapsed \/ n \notin issued => established[n] = 0

ProofsOK ==
  /\ \A p \in proofs : p.key = p.by /\ p.by.publicKey = p.stmt.wallet
  /\ \A u \in listed : u.session = u.found.by

SessionsOK ==
  /\ boot \in Nat \ {0}
  /\ GoodCookie(cookie, verified, boot)
  /\ \A r \in wire : GoodRequest(r, verified, boot)
  /\ \A m \in replies : GoodReply(m, verified, boot)
  /\ wallet \in [Tab -> Session \cup {None}]
  /\ \A t \in Tab : GoodSession(wallet[t], verified)

\* What a panel has asked for comes back to a panel that is open.
Awaited(m) == m.op \in panelOps /\ m.tab \in Tab => panel[m.tab] # "closed"

PanelsOK ==
  /\ panel \in [Tab -> {"closed", "asking", "shown", "posting", "done", "refused"}]
  /\ wallet \in [Tab -> Session \cup {None}]
  /\ \A m \in wire : Awaited(m)
  /\ \A m \in replies : Awaited(m)
  /\ \A t \in Tab : panel[t] # "closed" => wallet[t] # None

TabsOK ==
  /\ selected \in Key /\ trusted \in BOOLEAN
  /\ account \in [Tab -> Key \cup {None}] /\ eagerKey \in [Tab -> Key \cup {None}]
  /\ flow \in [Tab -> {"idle", "approve", "nonce", "sign", "verify"}]

\* A panel waits for one answer at most, and in the phase that asks for it.
Outstanding(t) == {m \in wire \cup replies : m.tab = t /\ m.op \in panelOps}
WaitsOK ==
  \A t \in Tab : \A m \in Outstanding(t) :
    /\ Outstanding(t) = {m}
    /\ m.op = "challenge" => panel[t] = "asking"
    /\ m.op = "taddr" => panel[t] = "posting"

\* A nonce on its way to a session, and one in the statement of an address that
\* a panel shows or is about to show.
Granting(n) ==
  \/ \E m \in replies : m.op = "nonce" /\ m.ok /\ m.stmt.nonce = n
  \/ \E t \in Tab : flow[t] = "sign" /\ grant[t] = n
  \/ \E r \in wire : r.op = "connect" /\ r.stmt.nonce = n
Stated(n) ==
  \/ \E m \in replies : m.op = "challenge" /\ m.ok /\ m.stmt.nonce = n
  \/ \E t \in Tab : panel[t] \in {"shown", "posting"} /\ challenge[t].nonce = n
Signable(n) == n \in nonces \/ n \in lapsed \/ established[n] > 0

\* No attempt to connect spends the nonce of a statement.
StatementsOK ==
  /\ DOMAIN grant = Tab /\ DOMAIN challenge = Tab
  /\ \A n : Granting(n) => n \in issued
  /\ \A n : Stated(n) => n \in issued /\ ~Granting(n) /\ Signable(n)

IInv ==
  /\ NoncesOK /\ ProofsOK /\ SessionsOK /\ PanelsOK /\ TabsOK
  /\ WaitsOK /\ StatementsOK

(* ---------------------------- initially ----------------------------- *)

LEMMA InitIInv == Init => IInv
<1>. SUFFICES ASSUME Init PROVE IInv
  OBVIOUS
<1>1. NoncesOK
  <2>1. issued = 1 .. 0 /\ 0 \in 0 .. MaxNonces
    BY WalletAssumption DEF Init, InitServer
  <2>2. established = [n \in Nonce |-> 0] /\ nonces = {} /\ issued = {} /\ lapsed = {}
    BY DEF Init, InitServer
  <2>. QED  BY <2>1, <2>2 DEF NoncesOK
<1>2. ProofsOK
  BY DEF Init, InitServer, ProofsOK
<1>3. SessionsOK
  BY DEF Init, InitServer, SessionsOK, GoodCookie, GoodSession
<1>4. PanelsOK
  BY DEF Init, InitServer, PanelsOK
<1>5. TabsOK
  <2>1. (CHOOSE k \in Key : TRUE) \in Key
    BY WalletAssumption
  <2>. QED  BY <2>1 DEF Init, TabsOK
<1>6. WaitsOK /\ StatementsOK
  BY DEF Init, InitServer, WaitsOK, Outstanding, StatementsOK, Granting, Stated
<1>. QED  BY <1>1, <1>2, <1>3, <1>4, <1>5, <1>6 DEF IInv

(* ------------------------------ nonces ------------------------------ *)

\* A nonce is issued once: the next is always a new one.
LEMMA IssueStep ==
  ASSUME NoncesOK, NEW n \in Nonce, issue(n), UNCHANGED <<lapsed, established>>
  PROVE  NoncesOK'
<1>1. PICK k \in 0 .. MaxNonces : issued = 1 .. k
  BY DEF NoncesOK
<1>2. Cardinality(issued) = k
  BY <1>1, FS_Interval, WalletAssumption
<1>3. n = k + 1
  BY <1>2 DEF issue
<1>4. issued' = 1 .. k + 1
  BY <1>1, <1>3 DEF issue
<1>5. n \notin issued /\ k + 1 \in 0 .. MaxNonces
  BY <1>1, <1>3, WalletAssumption DEF Nonce
<1>6. established[n] = 0
  BY <1>5 DEF NoncesOK
<1>7. /\ nonces' = (nonces \ lapsed) \cup {n} /\ issued' = issued \cup {n}
      /\ issued' \subseteq Nonce
  BY DEF issue, NoncesOK
<1>. QED  BY <1>4, <1>5, <1>6, <1>7 DEF NoncesOK

LEMMA ConsumeStep ==
  ASSUME NoncesOK, NEW n \in nonces \ lapsed, nonces' \subseteq nonces \ {n},
         UNCHANGED <<issued, lapsed>>,
         established' = [established EXCEPT ![n] = @ + 1]
  PROVE  NoncesOK'
<1>1. n \in Nonce /\ established[n] = 0
  BY DEF NoncesOK
<1>. QED  BY <1>1 DEF NoncesOK

LEMMA ForgetStep ==
  ASSUME NoncesOK, nonces' \subseteq nonces, lapsed' \subseteq lapsed \cup nonces,
         UNCHANGED <<issued, established>>
  PROVE  NoncesOK'
BY DEF NoncesOK

LEMMA HandleNonces ==
  ASSUME NoncesOK, NEW r \in wire, Handle(r)
  PROVE  NoncesOK'
<1>1. CASE NonceRoute(r)
  BY <1>1, IssueStep DEF NonceRoute, history
<1>2. CASE SessionPost(r)
  <2>1. CASE outstanding(r.stmt.nonce) /\ signatureVerifies(r)
    BY <1>2, <2>1, ConsumeStep DEF SessionPost, consume, outstanding
  <2>2. CASE ~(outstanding(r.stmt.nonce) /\ signatureVerifies(r))
    BY <1>2, <2>2, ForgetStep DEF SessionPost, consume
  <2>. QED  BY <2>1, <2>2
<1>3. CASE SessionGet(r)
  BY <1>3, ForgetStep DEF SessionGet, server, history
<1>4. CASE SessionDelete(r)
  BY <1>4, ForgetStep DEF SessionDelete
<1>5. CASE Challenge(r)
  <2>1. CASE readSessionCookie(r) = None
    BY <1>5, <2>1, ForgetStep DEF Challenge, history
  <2>2. CASE readSessionCookie(r) # None
    BY <1>5, <2>2, IssueStep DEF Challenge, history
  <2>. QED  BY <2>1, <2>2
<1>6. CASE TaddrPost(r)
  <2>. DEFINE session == readSessionCookie(r)
              accepted == /\ session # None /\ verifyAddressProof(r, session)
                          /\ outstanding(r.stmt.nonce)
  <2>1. CASE accepted
    BY <1>6, <2>1, ConsumeStep DEF TaddrPost, consume, outstanding
  <2>2. CASE ~accepted
    BY <1>6, <2>2, ForgetStep DEF TaddrPost, consume
  <2>. QED  BY <2>1, <2>2
<1>. QED  BY <1>1, <1>2, <1>3, <1>4, <1>5, <1>6 DEF Handle

\* What the client does leaves the server's own state and the history alone.
LEMMA ClientStep ==
  ASSUME NEW t \in Tab,
         \/ Find(t) \/ EagerTrust(t)
         \/ Connect(t) \/ User(t) \/ Disconnect(t) \/ OnEvent(t)
         \/ \E a \in Address : OpenPanel(t, a)
         \/ Refresh(t) \/ \E good \in BOOLEAN : Paste(t, good)
  PROVE  UNCHANGED <<server, history>>
<1>1. Find(t) \/ Connect(t) \/ EagerTrust(t) => UNCHANGED <<server, history>>
  BY DEF Find, Connect, EagerTrust, vars_server
<1>2. User(t) => UNCHANGED <<server, history>>
  BY DEF User, Approve, Decline, Sign
<1>3. Disconnect(t) \/ OnEvent(t) => UNCHANGED <<server, history>>
  BY DEF Disconnect, OnEvent
<1>4. (\E a \in Address : OpenPanel(t, a)) \/ Refresh(t) => UNCHANGED <<server, history>>
  BY DEF OpenPanel, Refresh, ask
<1>5. (\E good \in BOOLEAN : Paste(t, good)) => UNCHANGED <<server, history>>
  BY DEF Paste
<1>. QED  BY <1>1, <1>2, <1>3, <1>4, <1>5

LEMMA ReplyStep ==
  ASSUME NEW m \in replies, Ignored(m) \/ \E t \in Tab : Answer(t, m)
  PROVE  UNCHANGED <<server, history>>
BY DEF Ignored, Answer, EagerAnswer, NonceAnswer, Verified, ConnectFailed,
       ChallengeAnswer, ProofAnswer

\* The steps of the phantom, of the network and of the session's age.
LEMMA OtherStep ==
  ASSUME \/ \E k \in Key : Switch(k)
         \/ Revoke
         \/ \E v \in verified : ExpireSession(v.session)
         \/ \E r \in wire : LoseRequest(r)
         \/ \E m \in replies : LoseReply(m)
         \/ UNCHANGED vars
  PROVE  UNCHANGED <<nonces, issued, proofs, boot, history>>
BY DEF Switch, Revoke, ExpireSession, LoseRequest, LoseReply, vars, vars_server,
       server

LEMMA NextNonces == NoncesOK /\ [Next]_vars => NoncesOK'
<1>. SUFFICES ASSUME NoncesOK, [Next]_vars PROVE NoncesOK'
  OBVIOUS
<1>1. CASE UNCHANGED <<nonces, issued, lapsed, established>>
  BY <1>1, ForgetStep
<1>2. CASE UNCHANGED <<server, history>>
  BY <1>1, <1>2 DEF server, history
<1>3. ASSUME NEW r \in wire, serve(r) PROVE NoncesOK'
  BY <1>3, HandleNonces DEF serve
<1>4. ASSUME NEW m \in replies, Ignored(m) \/ \E t \in Tab : Answer(t, m) PROVE NoncesOK'
  BY <1>2, <1>4, ReplyStep
<1>5. CASE Restart \/ \E n \in Nonce : ExpireNonce(n)
  <2>1. /\ nonces' \subseteq nonces /\ lapsed' \subseteq lapsed \cup nonces
        /\ UNCHANGED <<issued, established>>
    BY <1>5 DEF Restart, ExpireNonce, server
  <2>. QED  BY <2>1, ForgetStep
<1>6. CASE \/ \E k \in Key : Switch(k)
           \/ Revoke
           \/ \E v \in verified : ExpireSession(v.session)
           \/ \E r \in wire : LoseRequest(r)
           \/ \E m \in replies : LoseReply(m)
           \/ UNCHANGED vars
  <2>1. UNCHANGED <<nonces, issued, proofs, boot, history>>
    BY <1>6, OtherStep
  <2>. QED  BY <1>1, <2>1 DEF history
<1>7. ASSUME NEW t \in Tab, NEW a \in Address, List(t, a) PROVE NoncesOK'
  BY <1>1, <1>7 DEF List, ListingPost, server
<1>8. ASSUME NEW t \in Tab,
             \/ Find(t) \/ EagerTrust(t)
             \/ Connect(t) \/ User(t) \/ Disconnect(t) \/ OnEvent(t)
             \/ \E a \in Address : OpenPanel(t, a)
             \/ Refresh(t) \/ \E good \in BOOLEAN : Paste(t, good)
      PROVE  NoncesOK'
  BY <1>2, <1>8, ClientStep
<1>. QED  BY <1>3, <1>4, <1>5, <1>6, <1>7, <1>8 DEF Next, Fault

(* ------------------------------ proofs ------------------------------ *)

LEMMA NextProofs == ProofsOK /\ [Next]_vars => ProofsOK'
<1>. SUFFICES ASSUME ProofsOK, [Next]_vars PROVE ProofsOK'
  OBVIOUS
<1>1. CASE proofs' \subseteq proofs /\ UNCHANGED listed
  BY <1>1 DEF ProofsOK
<1>2. CASE UNCHANGED <<server, history>>
  BY <1>1, <1>2 DEF server, history
<1>3. ASSUME NEW r \in wire, Handle(r) PROVE ProofsOK'
  <2>1. CASE TaddrPost(r)
    <3>. DEFINE session == readSessionCookie(r)
    <3>1. proof(r, session).key = proof(r, session).by
      BY DEF proof, sessionKey
    <3>2. ASSUME verifyAddressProof(r, session)
          PROVE  proof(r, session).by.publicKey = proof(r, session).stmt.wallet
      BY <3>2 DEF proof, verifyAddressProof
    <3>3. /\ UNCHANGED listed
          /\ \/ UNCHANGED proofs
             \/ proofs' = proofs \cup {proof(r, session)} /\ verifyAddressProof(r, session)
      BY <2>1 DEF TaddrPost
    <3>. HIDE DEF session
    <3>. QED  BY <3>1, <3>2, <3>3 DEF ProofsOK
  <2>2. CASE SessionDelete(r)
    BY <1>1, <2>2 DEF SessionDelete
  <2>3. CASE NonceRoute(r) \/ SessionPost(r) \/ SessionGet(r) \/ Challenge(r)
    BY <1>1, <2>3 DEF NonceRoute, SessionPost, SessionGet, Challenge, server, history
  <2>. QED  BY <1>3, <2>1, <2>2, <2>3 DEF Handle
<1>4. ASSUME NEW m \in replies, Ignored(m) \/ \E t \in Tab : Answer(t, m) PROVE ProofsOK'
  BY <1>2, <1>4, ReplyStep
<1>5. CASE Restart \/ \E n \in Nonce : ExpireNonce(n)
  BY <1>1, <1>5 DEF Restart, ExpireNonce, server
<1>6. CASE \/ \E k \in Key : Switch(k)
           \/ Revoke
           \/ \E v \in verified : ExpireSession(v.session)
           \/ \E r \in wire : LoseRequest(r)
           \/ \E m \in replies : LoseReply(m)
           \/ UNCHANGED vars
  BY <1>1, <1>6, OtherStep DEF history
<1>7. ASSUME NEW t \in Tab, NEW a \in Address, List(t, a) PROVE ProofsOK'
  <2>. DEFINE r == request(t, "list", statement(None, a, None), None)
              session == readSessionCookie(r)
              found == {p \in held(session) : p.address = r.stmt.address}
  <2>1. /\ UNCHANGED proofs
        /\ listed' = listed \cup {[session |-> session, found |-> p] : p \in found}
    BY <1>7 DEF List, ListingPost, server
  <2>2. \A p \in found : p.by = session
    BY DEF held, sessionKey, ProofsOK
  <2>. HIDE DEF session, found
  <2>. QED  BY <2>1, <2>2 DEF ProofsOK
<1>8. ASSUME NEW t \in Tab,
             \/ Find(t) \/ EagerTrust(t)
             \/ Connect(t) \/ User(t) \/ Disconnect(t) \/ OnEvent(t)
             \/ \E a \in Address : OpenPanel(t, a)
             \/ Refresh(t) \/ \E good \in BOOLEAN : Paste(t, good)
      PROVE  ProofsOK'
  BY <1>2, <1>8, ClientStep
<1>. QED  BY <1>3, <1>4, <1>5, <1>6, <1>7, <1>8 DEF Next, Fault, serve

(* ----------------------------- sessions ----------------------------- *)

LEMMA Kept ==
  ASSUME NEW given, NEW given2, given \subseteq given2,
         NEW boots \in Nat, NEW boots2 \in Nat, boots <= boots2
  PROVE  /\ \A s : GoodSession(s, given) => GoodSession(s, given2)
         /\ \A c : GoodCookie(c, given, boots) => GoodCookie(c, given2, boots2)
         /\ \A r : GoodRequest(r, given, boots) => GoodRequest(r, given2, boots2)
         /\ \A m : GoodReply(m, given, boots) => GoodReply(m, given2, boots2)
<1>1. \A s : Owned(s, given) => Owned(s, given2)
  BY DEF Owned
<1>2. \A s : GoodSession(s, given) => GoodSession(s, given2)
  BY <1>1 DEF GoodSession
<1>3. \A c : GoodCookie(c, given, boots) => GoodCookie(c, given2, boots2)
  BY <1>1 DEF GoodCookie
<1>. QED  BY <1>2, <1>3 DEF GoodRequest, GoodReply

\* A step keeps the invariant when whatever it adds is good.
LEMMA SessionsStep ==
  ASSUME SessionsOK, verified \subseteq verified', boot' \in Nat \ {0}, boot <= boot',
         cookie' = cookie \/ GoodCookie(cookie', verified', boot'),
         \A r \in wire' : r \in wire \/ GoodRequest(r, verified', boot'),
         \A m \in replies' : m \in replies \/ GoodReply(m, verified', boot'),
         wallet' \in [Tab -> Session \cup {None}],
         \A t \in Tab : wallet'[t] = wallet[t] \/ GoodSession(wallet'[t], verified')
  PROVE  SessionsOK'
<1>1. boot \in Nat \ {0}
  BY DEF SessionsOK
<1>. QED  BY <1>1, Kept DEF SessionsOK

LEMMA Orphans ==
  ASSUME NEW S, NEW t, NEW given, NEW boots
  PROVE  /\ (\A r \in S : GoodRequest(r, given, boots))
              => \A r \in orphaned(S, t) : GoodRequest(r, given, boots)
         /\ (\A m \in S : GoodReply(m, given, boots))
              => \A m \in orphaned(S, t) : GoodReply(m, given, boots)
<1>1. ASSUME NEW r, GoodRequest(r, given, boots)
      PROVE  GoodRequest([r EXCEPT !.tab = Gone], given, boots)
  BY <1>1 DEF GoodRequest
<1>2. ASSUME NEW m, GoodReply(m, given, boots)
      PROVE  GoodReply([m EXCEPT !.tab = Gone], given, boots)
  BY <1>2 DEF GoodReply
<1>. QED  BY <1>1, <1>2 DEF orphaned

LEMMA Requests ==
  ASSUME SessionsOK, NEW t, NEW op, NEW stmt, NEW signer, op = "connect" => signer \in Key
  PROVE  GoodRequest(request(t, op, stmt, signer), verified, boot)
BY DEF SessionsOK, GoodRequest, request

LEMMA Replies ==
  ASSUME NEW r, NEW ok, NEW session, NEW stmt, NEW set, NEW given, NEW boots,
         GoodSession(session, given), set = Keep \/ GoodCookie(set, given, boots),
         r.op = "connect" /\ ok => session # None
  PROVE  GoodReply(reply(r, ok, session, stmt, set), given, boots)
BY DEF GoodReply, reply

LEMMA Refusals ==
  ASSUME NEW r, NEW given, NEW boots
  PROVE  GoodReply(refusal(r), given, boots)
BY Replies DEF refusal, GoodSession

LEMMA Readings ==
  ASSUME SessionsOK, NEW r \in wire
  PROVE  GoodSession(readSessionCookie(r), verified)
BY DEF SessionsOK, GoodRequest, GoodCookie, GoodSession, readSessionCookie

LEMMA HandleSessions ==
  ASSUME SessionsOK, NoncesOK, NEW r \in wire, Handle(r), UNCHANGED wallet
  PROVE  SessionsOK'
<1>1. boot \in Nat \ {0} /\ wallet \in [Tab -> Session \cup {None}]
  BY DEF SessionsOK
<1>2. ASSUME NEW m, answer(r, m), GoodReply(m, verified', boot),
             verified \subseteq verified', UNCHANGED <<cookie, boot>>
      PROVE  SessionsOK'
  BY <1>1, <1>2, SessionsStep DEF answer
<1>3. GoodReply(refusal(r), verified, boot)
  BY Refusals
<1>4. CASE NonceRoute(r)
  <2>1. PICK n \in Nonce : answer(r, reply(r, TRUE, None, statement(None, None, n), Keep))
    BY <1>4 DEF NonceRoute
  <2>2. GoodReply(reply(r, TRUE, None, statement(None, None, n), Keep), verified, boot)
    BY <1>4, Replies DEF NonceRoute, GoodSession
  <2>. QED  BY <1>2, <1>4, <2>1, <2>2 DEF NonceRoute, history
<1>5. CASE SessionPost(r)
  <2>. DEFINE session == newSession(r.stmt.wallet, r.stmt.nonce)
              m == reply(r, TRUE, session, noStatement, encodeSessionCookie(session))
  <2>1. CASE outstanding(r.stmt.nonce) /\ signatureVerifies(r)
    <3>1. /\ answer(r, m) /\ UNCHANGED <<cookie, boot>>
          /\ verified' = verified \cup {[session |-> session, signer |-> r.signer]}
      BY <1>5, <2>1 DEF SessionPost
    <3>2. r.signer \in Key /\ r.stmt.nonce \in Nonce /\ r.stmt.wallet = r.signer
      BY <1>5, <2>1 DEF SessionPost, SessionsOK, GoodRequest, NoncesOK, outstanding,
                        signatureVerifies
    <3>3. session \in Session /\ session.publicKey = r.signer
      BY <3>2 DEF newSession, Session
    <3>4. session # None
      BY <3>3, WalletAssumption DEF Session, Nonce
    <3>5. Owned(session, verified')
      BY <3>1, <3>3 DEF Owned
    <3>6. /\ encodeSessionCookie(session).session = session
          /\ encodeSessionCookie(session).boot = boot
      BY DEF encodeSessionCookie
    <3>7. boot \in 1 .. boot
      BY <1>1
    <3>. HIDE DEF session
    <3>8. GoodReply(m, verified', boot)
      BY <3>4, <3>5, <3>6, <3>7, Replies DEF GoodSession, GoodCookie
    <3>. QED  BY <1>2, <3>1, <3>8
  <2>2. CASE ~(outstanding(r.stmt.nonce) /\ signatureVerifies(r))
    BY <1>2, <1>3, <1>5, <2>2 DEF SessionPost
  <2>. QED  BY <2>1, <2>2
<1>6. CASE SessionGet(r)
  <2>1. GoodReply(reply(r, TRUE, readSessionCookie(r), noStatement, Keep), verified, boot)
    BY <1>6, Readings, Replies DEF SessionGet
  <2>. QED  BY <1>2, <1>6, <2>1 DEF SessionGet, server, history
<1>7. CASE SessionDelete(r)
  <2>1. GoodReply(reply(r, TRUE, None, noStatement, None), verified, boot)
    BY <1>7, Replies DEF SessionDelete, GoodSession, GoodCookie
  <2>. QED  BY <1>2, <1>7, <2>1 DEF SessionDelete
<1>8. CASE Challenge(r)
  <2>1. CASE readSessionCookie(r) = None
    BY <1>2, <1>3, <1>8, <2>1 DEF Challenge, history
  <2>2. CASE readSessionCookie(r) # None
    <3>1. PICK stmt : answer(r, reply(r, TRUE, None, stmt, Keep))
      BY <1>8, <2>2 DEF Challenge
    <3>2. GoodReply(reply(r, TRUE, None, stmt, Keep), verified, boot)
      BY <1>8, Replies DEF Challenge, GoodSession
    <3>. QED  BY <1>2, <1>8, <3>1, <3>2 DEF Challenge, history
  <2>. QED  BY <2>1, <2>2
<1>9. CASE TaddrPost(r)
  <2>1. GoodReply(reply(r, TRUE, None, noStatement, Keep), verified, boot)
    BY <1>9, Replies DEF TaddrPost, GoodSession
  <2>. QED  BY <1>2, <1>3, <1>9, <2>1 DEF TaddrPost
<1>. QED  BY <1>4, <1>5, <1>6, <1>7, <1>8, <1>9 DEF Handle

\* A tab that sends a request, or nothing.
LEMMA SendSessions ==
  ASSUME SessionsOK, UNCHANGED <<boot, verified, cookie, replies, wallet>>,
         \/ UNCHANGED wire
         \/ \E t, op, stmt, signer :
              /\ op = "connect" => signer \in Key
              /\ send(request(t, op, stmt, signer))
  PROVE  SessionsOK'
<1>1. ASSUME NEW r \in wire' PROVE r \in wire \/ GoodRequest(r, verified, boot)
  BY <1>1, Requests DEF send
<1>. QED  BY <1>1, SessionsStep DEF SessionsOK

\* A tab that takes a reply, shows nothing new, and may orphan messages.
LEMMA LeaveSessions ==
  ASSUME SessionsOK, UNCHANGED <<boot, verified, cookie>>, NEW t \in Tab,
         wallet' = [wallet EXCEPT ![t] = None],
         \A r \in wire' : r \in orphaned(wire, t) \/ r = dropServerSession(t),
         \A m \in replies' : m \in orphaned(replies, t)
  PROVE  SessionsOK'
<1>1. ASSUME NEW r \in wire' PROVE GoodRequest(r, verified, boot)
  BY <1>1, Requests, Orphans DEF SessionsOK, dropServerSession
<1>2. ASSUME NEW m \in replies' PROVE GoodReply(m, verified, boot)
  BY <1>2, Orphans DEF SessionsOK
<1>3. /\ wallet' \in [Tab -> Session \cup {None}]
      /\ \A u \in Tab : wallet'[u] = wallet[u] \/ GoodSession(wallet'[u], verified)
  BY DEF SessionsOK, GoodSession
<1>. QED  BY <1>1, <1>2, <1>3, SessionsStep DEF SessionsOK

LEMMA Shrink ==
  ASSUME NEW S, NEW m, NEW t
  PROVE  orphaned(S \ {m}, t) \subseteq orphaned(S, t)
BY DEF orphaned

LEMMA ClientSessions ==
  ASSUME SessionsOK, TabsOK, NEW t \in Tab,
         \/ Find(t) \/ EagerTrust(t)
         \/ Connect(t) \/ User(t) \/ Disconnect(t) \/ OnEvent(t)
         \/ \E a \in Address : OpenPanel(t, a)
         \/ Refresh(t) \/ \E good \in BOOLEAN : Paste(t, good)
  PROVE  SessionsOK'
<1>. USE DEF server, history
<1>1. CASE Find(t) \/ Connect(t)
  BY <1>1, SendSessions DEF Find, Connect, vars_server
<1>2. CASE EagerTrust(t) \/ Approve(t) \/ \E good \in BOOLEAN : Paste(t, good)
  BY <1>2, SendSessions DEF EagerTrust, Approve, Paste
<1>3. CASE Sign(t)
  <2>1. selected \in Key
    BY DEF TabsOK
  <2>. QED  BY <1>3, <2>1, SendSessions DEF Sign
<1>4. CASE (\E a \in Address : OpenPanel(t, a)) \/ Refresh(t)
  BY <1>4, SendSessions DEF OpenPanel, Refresh, ask
<1>5. CASE Decline(t)
  BY <1>5, LeaveSessions DEF Decline, failConnect
<1>6. CASE Disconnect(t) \/ OnEvent(t)
  BY <1>6, LeaveSessions DEF Disconnect, OnEvent, leave
<1>. QED  BY <1>1, <1>2, <1>3, <1>4, <1>5, <1>6 DEF User

LEMMA ReplySessions ==
  ASSUME SessionsOK, NEW m \in replies, Ignored(m) \/ \E t \in Tab : Answer(t, m)
  PROVE  SessionsOK'
<1>. USE DEF server, history
<1>1. /\ boot \in Nat \ {0} /\ GoodReply(m, verified, boot)
      /\ GoodCookie(cookie, verified, boot)
      /\ wallet \in [Tab -> Session \cup {None}]
  BY DEF SessionsOK
<1>2. setCookie(m) => GoodCookie(cookie', verified, boot)
  BY <1>1 DEF setCookie, GoodReply
<1>3. CASE Ignored(m)
  BY <1>1, <1>2, <1>3, SessionsStep DEF Ignored, tabs
<1>4. ASSUME NEW t \in Tab, EagerAnswer(t, m) PROVE SessionsOK'
  <2>1. ASSUME NEW r \in wire' PROVE r \in wire \/ GoodRequest(r, verified, boot)
    BY <1>4, <2>1, Requests DEF EagerAnswer, send, dropServerSession
  <2>2. /\ wallet' \in [Tab -> Session \cup {None}]
        /\ \A u \in Tab : wallet'[u] = wallet[u] \/ GoodSession(wallet'[u], verified)
    BY <1>1, <1>4 DEF EagerAnswer, GoodReply, GoodSession, Owned
  <2>. QED  BY <1>1, <1>4, <2>1, <2>2, SessionsStep DEF EagerAnswer
<1>5. ASSUME NEW t \in Tab, NonceAnswer(t, m) \/ ChallengeAnswer(t, m) \/ ProofAnswer(t, m)
      PROVE  SessionsOK'
  BY <1>1, <1>5, SessionsStep DEF NonceAnswer, ChallengeAnswer, ProofAnswer
<1>6. ASSUME NEW t \in Tab, Verified(t, m) PROVE SessionsOK'
  <2>1. /\ wallet' \in [Tab -> Session \cup {None}]
        /\ \A u \in Tab : wallet'[u] = wallet[u] \/ GoodSession(wallet'[u], verified)
    BY <1>1, <1>6 DEF Verified, GoodReply, GoodSession, Owned
  <2>. QED  BY <1>1, <1>2, <1>6, <2>1, SessionsStep DEF Verified
<1>7. ASSUME NEW t \in Tab, ConnectFailed(t, m) PROVE SessionsOK'
  BY <1>7, Shrink, LeaveSessions DEF ConnectFailed, failConnect
<1>. QED  BY <1>3, <1>4, <1>5, <1>6, <1>7 DEF Answer

LEMMA NextSessions == SessionsOK /\ NoncesOK /\ TabsOK /\ [Next]_vars => SessionsOK'
<1>. SUFFICES ASSUME SessionsOK, NoncesOK, TabsOK, [Next]_vars PROVE SessionsOK'
  OBVIOUS
<1>0. boot \in Nat \ {0} /\ wallet \in [Tab -> Session \cup {None}]
  BY DEF SessionsOK
<1>1. CASE UNCHANGED <<boot, verified, cookie, wire, replies, wallet>>
  BY <1>1, SendSessions
<1>2. ASSUME NEW r \in wire, serve(r) PROVE SessionsOK'
  BY <1>2, HandleSessions DEF serve, tabs
<1>3. ASSUME NEW m \in replies, Ignored(m) \/ \E t \in Tab : Answer(t, m) PROVE SessionsOK'
  BY <1>3, ReplySessions
<1>4. CASE Restart /\ UNCHANGED tabs
  BY <1>0, <1>4, SessionsStep DEF Restart, tabs
<1>5. CASE /\ UNCHANGED tabs
           /\ \/ \E n \in Nonce : ExpireNonce(n)
              \/ \E v \in verified : ExpireSession(v.session)
  BY <1>1, <1>5 DEF ExpireNonce, ExpireSession, server, history, tabs
<1>6. ASSUME NEW r \in wire, LoseRequest(r), UNCHANGED tabs PROVE SessionsOK'
  <2>1. GoodReply(refusal(r), verified, boot)
    BY Refusals
  <2>. QED  BY <1>0, <1>6, <2>1, SessionsStep DEF LoseRequest, answer, server, history, tabs
<1>7. ASSUME NEW m \in replies, LoseReply(m), UNCHANGED tabs PROVE SessionsOK'
  <2>1. GoodReply(refusal(m), verified, boot)
    BY Refusals
  <2>. QED  BY <1>0, <1>7, <2>1, SessionsStep DEF LoseReply, server, history, tabs
<1>8. CASE (\E k \in Key : Switch(k)) \/ Revoke
  BY <1>1, <1>8 DEF Switch, Revoke, server, history
<1>9. ASSUME NEW t \in Tab, NEW a \in Address, List(t, a) PROVE SessionsOK'
  BY <1>1, <1>9 DEF List, ListingPost, server, tabs
<1>10. CASE UNCHANGED vars
  BY <1>1, <1>10 DEF vars, vars_server, server, history, tabs
<1>11. ASSUME NEW t \in Tab,
              \/ Find(t) \/ EagerTrust(t)
              \/ Connect(t) \/ User(t) \/ Disconnect(t) \/ OnEvent(t)
              \/ \E a \in Address : OpenPanel(t, a)
              \/ Refresh(t) \/ \E good \in BOOLEAN : Paste(t, good)
      PROVE  SessionsOK'
  BY <1>11, ClientSessions
<1>. QED  BY <1>2, <1>3, <1>4, <1>5, <1>6, <1>7, <1>8, <1>9, <1>10, <1>11 DEF Next, Fault

(* ------------------------------ panels ------------------------------ *)

\* The phases of a panel.
Phases == {"closed", "asking", "shown", "posting", "done", "refused"}

\* What an orphan waited for is not awaited, and the rest is somebody else's.
LEMMA OrphansWait ==
  ASSUME NEW S, NEW t \in Tab, \A m \in S : "tab" \in DOMAIN m,
         \A m \in S : Awaited(m),
         panel' = [panel EXCEPT ![t] = "closed"]
  PROVE  \A m \in orphaned(S, t) : Awaited(m)'
<1>1. ASSUME NEW m \in S, m.tab = t, m.op \in panelOps
      PROVE  Awaited([m EXCEPT !.tab = Gone])'
  BY <1>1, WalletAssumption DEF Awaited
<1>2. ASSUME NEW m \in S, ~(m.tab = t /\ m.op \in panelOps)
      PROVE  Awaited(m)'
  BY <1>2 DEF Awaited
<1>. QED  BY <1>1, <1>2 DEF orphaned

\* A step that leaves the panels and the wallets, and answers or sends for a
\* panel only where one waits.
LEMMA QuietPanels ==
  ASSUME PanelsOK, UNCHANGED <<panel, wallet>>,
         \A m \in wire' : m \in wire \/ m.op \notin panelOps,
         \A m \in replies' :
           \/ m \in replies
           \/ m.op \notin panelOps
           \/ \E r \in wire \cup replies : m.op = r.op /\ m.tab = r.tab
  PROVE  PanelsOK'
BY DEF PanelsOK, Awaited

\* Whatever serves a request, or loses it, answers it.
LEMMA HandlePanels ==
  ASSUME PanelsOK, NEW r \in wire, Handle(r) \/ LoseRequest(r), UNCHANGED <<panel, wallet>>
  PROVE  PanelsOK'
<1>1. PICK ok, session, stmt, set : answer(r, reply(r, ok, session, stmt, set))
  <2>1. CASE NonceRoute(r)
    BY <2>1 DEF NonceRoute
  <2>2. CASE SessionPost(r)
    BY <2>2 DEF SessionPost, refusal
  <2>3. CASE SessionGet(r) \/ SessionDelete(r)
    BY <2>3 DEF SessionGet, SessionDelete
  <2>4. CASE Challenge(r)
    BY <2>4 DEF Challenge, refusal
  <2>5. CASE TaddrPost(r)
    BY <2>5 DEF TaddrPost, refusal
  <2>6. CASE LoseRequest(r)
    BY <2>6 DEF LoseRequest, refusal
  <2>. QED  BY <2>1, <2>2, <2>3, <2>4, <2>5, <2>6 DEF Handle
<1>2. /\ reply(r, ok, session, stmt, set).op = r.op
      /\ reply(r, ok, session, stmt, set).tab = r.tab
  BY DEF reply
<1>. QED  BY <1>1, <1>2, QuietPanels DEF answer

\* A tab that leaves: its panel is closed and what it waited for is orphaned.
LEMMA LeavePanels ==
  ASSUME PanelsOK, SessionsOK, NEW t \in Tab, closePanel(t),
         wallet' = [wallet EXCEPT ![t] = None],
         \A r \in wire' : r \in orphaned(wire, t) \/ r = dropServerSession(t),
         \A m \in replies' : m \in orphaned(replies, t)
  PROVE  PanelsOK'
<1>1. panel' = [panel EXCEPT ![t] = "closed"]
  BY DEF closePanel
<1>2. /\ \A r \in wire : "tab" \in DOMAIN r
      /\ \A m \in replies : "tab" \in DOMAIN m
  BY DEF SessionsOK, GoodRequest, GoodReply
<1>3. /\ \A m \in orphaned(wire, t) : Awaited(m)'
      /\ \A m \in orphaned(replies, t) : Awaited(m)'
  BY <1>1, <1>2, OrphansWait DEF PanelsOK
<1>4. dropServerSession(t).op \notin panelOps
  BY DEF dropServerSession, request, panelOps
<1>5. /\ \A m \in wire' : Awaited(m)'
      /\ \A m \in replies' : Awaited(m)'
  <2>1. ASSUME NEW m \in wire' PROVE Awaited(m)'
    <3>1. CASE m \in orphaned(wire, t)
      BY <1>3, <3>1
    <3>2. CASE m = dropServerSession(t)
      BY <1>4, <3>2 DEF Awaited
    <3>. QED  BY <2>1, <3>1, <3>2
  <2>2. ASSUME NEW m \in replies' PROVE Awaited(m)'
    BY <1>3, <2>2
  <2>. QED  BY <2>1, <2>2
<1>. QED  BY <1>1, <1>5 DEF PanelsOK

\* A tab that asks from, or answers to, its open panel.
LEMMA OpenPanels ==
  ASSUME PanelsOK, NEW t \in Tab, NEW phase2 \in Phases \ {"closed"},
         wallet[t] # None, UNCHANGED wallet,
         panel' = [panel EXCEPT ![t] = phase2],
         \A m \in wire' : m \in wire \/ m.tab = t,
         \A m \in replies' : m \in replies
  PROVE  PanelsOK'
BY DEF PanelsOK, Awaited, Phases

LEMMA ClientPanels ==
  ASSUME PanelsOK, SessionsOK, NEW t \in Tab,
         \/ Find(t) \/ EagerTrust(t)
         \/ Connect(t) \/ User(t) \/ Disconnect(t) \/ OnEvent(t)
         \/ \E a \in Address : OpenPanel(t, a)
         \/ Refresh(t) \/ \E good \in BOOLEAN : Paste(t, good)
  PROVE  PanelsOK'
<1>1. CASE Find(t) \/ Connect(t)
  BY <1>1, QuietPanels DEF Find, Connect, vars_server
<1>2. CASE EagerTrust(t) \/ Approve(t) \/ Sign(t)
  <2>1. PICK op, stmt, signer :
          op \in {"session", "nonce", "connect"} /\ send(request(t, op, stmt, signer))
    BY <1>2 DEF EagerTrust, Approve, Sign
  <2>2. request(t, op, stmt, signer).op \notin panelOps
    BY <2>1 DEF request, panelOps
  <2>. QED  BY <1>2, <2>1, <2>2, QuietPanels DEF EagerTrust, Approve, Sign, send
<1>3. ASSUME NEW good \in BOOLEAN, Paste(t, good) PROVE PanelsOK'
  <2>1. PICK op, stmt, signer : send(request(t, op, stmt, signer))
    BY <1>3 DEF Paste
  <2>2. request(t, op, stmt, signer).tab = t
    BY DEF request
  <2>3. wallet[t] # None /\ "posting" \in Phases \ {"closed"}
    BY <1>3 DEF Paste, PanelsOK, Phases
  <2>. QED  BY <1>3, <2>1, <2>2, <2>3, OpenPanels DEF Paste, send
<1>4. ASSUME NEW a, ask(t, a), wallet[t] # None PROVE PanelsOK'
  <2>1. PICK op, stmt, signer : send(request(t, op, stmt, signer))
    BY <1>4 DEF ask
  <2>2. request(t, op, stmt, signer).tab = t /\ "asking" \in Phases \ {"closed"}
    BY DEF request, Phases
  <2>. QED  BY <1>4, <2>1, <2>2, OpenPanels DEF ask, send
<1>5. CASE (\E a \in Address : OpenPanel(t, a)) \/ Refresh(t)
  BY <1>4, <1>5 DEF OpenPanel, Refresh, PanelsOK
<1>6. CASE Decline(t)
  BY <1>6, LeavePanels DEF Decline, failConnect
<1>7. CASE Disconnect(t) \/ OnEvent(t)
  BY <1>7, LeavePanels DEF Disconnect, OnEvent, leave
<1>. QED  BY <1>1, <1>2, <1>3, <1>5, <1>6, <1>7 DEF User

LEMMA ReplyPanels ==
  ASSUME PanelsOK, SessionsOK, NEW m \in replies, Ignored(m) \/ \E t \in Tab : Answer(t, m)
  PROVE  PanelsOK'
<1>1. GoodReply(m, verified, boot)
  BY DEF SessionsOK
<1>2. CASE Ignored(m)
  BY <1>2, QuietPanels DEF Ignored, tabs
<1>3. ASSUME NEW t \in Tab, EagerAnswer(t, m) PROVE PanelsOK'
  <2>1. \A r \in wire' : r \in wire \/ r.op \notin panelOps
    BY <1>3 DEF EagerAnswer, send, dropServerSession, request, panelOps
  <2>2. /\ wallet' \in [Tab -> Session \cup {None}]
        /\ \A u \in Tab : wallet[u] # None => wallet'[u] # None
    BY <1>1, <1>3 DEF EagerAnswer, PanelsOK, GoodReply, GoodSession, Owned
  <2>3. UNCHANGED panel /\ replies' = replies \ {m}
    BY <1>3 DEF EagerAnswer
  <2>. QED  BY <2>1, <2>2, <2>3 DEF PanelsOK, Awaited
<1>4. ASSUME NEW t \in Tab, NonceAnswer(t, m) PROVE PanelsOK'
  BY <1>4, QuietPanels DEF NonceAnswer
<1>5. ASSUME NEW t \in Tab, ChallengeAnswer(t, m) \/ ProofAnswer(t, m) PROVE PanelsOK'
  <2>1. m.tab = t /\ m.op \in panelOps /\ wallet[t] # None
    BY <1>5 DEF ChallengeAnswer, ProofAnswer, panelOps, PanelsOK, Awaited
  <2>2. PICK phase2 \in Phases \ {"closed"} : panel' = [panel EXCEPT ![t] = phase2]
    BY <1>5 DEF ChallengeAnswer, ProofAnswer, Phases
  <2>. QED  BY <1>5, <2>1, <2>2, OpenPanels DEF ChallengeAnswer, ProofAnswer
<1>6. ASSUME NEW t \in Tab, Verified(t, m) PROVE PanelsOK'
  <2>1. m.session # None
    BY <1>1, <1>6 DEF Verified, GoodReply
  <2>2. /\ wallet' \in [Tab -> Session \cup {None}]
        /\ \A u \in Tab : wallet[u] # None => wallet'[u] # None
    BY <1>1, <1>6, <2>1 DEF Verified, PanelsOK, GoodReply, GoodSession, Owned
  <2>3. UNCHANGED <<panel, wire>> /\ replies' = replies \ {m}
    BY <1>6 DEF Verified
  <2>. QED  BY <2>2, <2>3 DEF PanelsOK, Awaited
<1>7. ASSUME NEW t \in Tab, ConnectFailed(t, m) PROVE PanelsOK'
  BY <1>7, Shrink, LeavePanels DEF ConnectFailed, failConnect
<1>. QED  BY <1>2, <1>3, <1>4, <1>5, <1>6, <1>7 DEF Answer

LEMMA NextPanels == PanelsOK /\ SessionsOK /\ [Next]_vars => PanelsOK'
<1>. SUFFICES ASSUME PanelsOK, SessionsOK, [Next]_vars PROVE PanelsOK'
  OBVIOUS
<1>1. CASE UNCHANGED <<wire, replies, wallet, panel>>
  BY <1>1, QuietPanels
<1>2. ASSUME NEW r \in wire, serve(r) \/ (LoseRequest(r) /\ UNCHANGED tabs) PROVE PanelsOK'
  BY <1>2, HandlePanels DEF serve, tabs
<1>3. ASSUME NEW m \in replies, Ignored(m) \/ \E t \in Tab : Answer(t, m) PROVE PanelsOK'
  BY <1>3, ReplyPanels
<1>4. CASE /\ UNCHANGED tabs
           /\ \/ Restart
              \/ \E n \in Nonce : ExpireNonce(n)
              \/ \E v \in verified : ExpireSession(v.session)
  BY <1>1, <1>4 DEF Restart, ExpireNonce, ExpireSession, tabs
<1>5. ASSUME NEW m \in replies, LoseReply(m), UNCHANGED tabs PROVE PanelsOK'
  <2>1. refusal(m).op = m.op /\ refusal(m).tab = m.tab
    BY DEF refusal, reply
  <2>. QED  BY <1>5, <2>1, QuietPanels DEF LoseReply, tabs
<1>6. CASE (\E k \in Key : Switch(k)) \/ Revoke
  BY <1>1, <1>6 DEF Switch, Revoke
<1>7. ASSUME NEW t \in Tab, NEW a \in Address, List(t, a) PROVE PanelsOK'
  BY <1>1, <1>7 DEF List, ListingPost, tabs
<1>8. CASE UNCHANGED vars
  BY <1>1, <1>8 DEF vars, vars_server, tabs
<1>9. ASSUME NEW t \in Tab,
             \/ Find(t) \/ EagerTrust(t)
             \/ Connect(t) \/ User(t) \/ Disconnect(t) \/ OnEvent(t)
             \/ \E a \in Address : OpenPanel(t, a)
             \/ Refresh(t) \/ \E good \in BOOLEAN : Paste(t, good)
      PROVE  PanelsOK'
  BY <1>9, ClientPanels
<1>. QED  BY <1>2, <1>3, <1>4, <1>5, <1>6, <1>7, <1>8, <1>9 DEF Next, Fault

(* ------------------------------- tabs ------------------------------- *)

LEMMA ClientTabs ==
  ASSUME TabsOK, NEW t \in Tab,
         \/ Find(t) \/ EagerTrust(t)
         \/ Connect(t) \/ User(t) \/ Disconnect(t) \/ OnEvent(t)
         \/ \E a \in Address : OpenPanel(t, a)
         \/ Refresh(t) \/ \E good \in BOOLEAN : Paste(t, good)
  PROVE  TabsOK'
<1>. USE DEF TabsOK, phantom
<1>1. CASE Find(t) \/ Connect(t)
  BY <1>1 DEF Find, Connect
<1>2. CASE EagerTrust(t)
  BY <1>2 DEF EagerTrust
<1>3. CASE Approve(t)
  BY <1>3 DEF Approve
<1>4. CASE Decline(t)
  BY <1>4 DEF Decline, failConnect, endConnect
<1>5. CASE Sign(t)
  BY <1>5 DEF Sign
<1>6. CASE Disconnect(t) \/ OnEvent(t)
  BY <1>6 DEF Disconnect, OnEvent, leave
<1>7. CASE \/ \E a \in Address : OpenPanel(t, a)
           \/ Refresh(t) \/ \E good \in BOOLEAN : Paste(t, good)
  BY <1>7 DEF OpenPanel, Refresh, ask, Paste
<1>. QED  BY <1>1, <1>2, <1>3, <1>4, <1>5, <1>6, <1>7 DEF User

LEMMA ReplyTabs ==
  ASSUME TabsOK, SessionsOK, NEW m \in replies, Ignored(m) \/ \E t \in Tab : Answer(t, m)
  PROVE  TabsOK'
<1>. USE DEF TabsOK, phantom
<1>1. CASE Ignored(m)
  BY <1>1 DEF Ignored, tabs
<1>2. ASSUME NEW t \in Tab, EagerAnswer(t, m) PROVE TabsOK'
  BY <1>2 DEF EagerAnswer
<1>3. ASSUME NEW t \in Tab, NonceAnswer(t, m) \/ ChallengeAnswer(t, m) \/ ProofAnswer(t, m)
      PROVE  TabsOK'
  BY <1>3 DEF NonceAnswer, ChallengeAnswer, ProofAnswer
<1>4. ASSUME NEW t \in Tab, Verified(t, m) PROVE TabsOK'
  <2>1. m.session.publicKey \in Key
    BY <1>4 DEF Verified, SessionsOK, GoodReply, GoodSession, Owned, Session
  <2>. QED  BY <1>4, <2>1 DEF Verified, endConnect
<1>5. ASSUME NEW t \in Tab, ConnectFailed(t, m) PROVE TabsOK'
  BY <1>5 DEF ConnectFailed, failConnect, endConnect
<1>. QED  BY <1>1, <1>2, <1>3, <1>4, <1>5 DEF Answer

LEMMA NextTabs == TabsOK /\ SessionsOK /\ [Next]_vars => TabsOK'
<1>. SUFFICES ASSUME TabsOK, SessionsOK, [Next]_vars PROVE TabsOK'
  OBVIOUS
<1>1. CASE UNCHANGED <<phantom, tabs>>
  BY <1>1 DEF TabsOK, phantom, tabs
<1>2. CASE UNCHANGED vars
  BY <1>1, <1>2 DEF vars
<1>3. ASSUME NEW m \in replies, Ignored(m) \/ \E t \in Tab : Answer(t, m) PROVE TabsOK'
  BY <1>3, ReplyTabs
<1>4. CASE (\E k \in Key : Switch(k)) \/ Revoke
  BY <1>4 DEF Switch, Revoke, TabsOK
<1>5. ASSUME NEW t \in Tab,
             \/ Find(t) \/ EagerTrust(t)
             \/ Connect(t) \/ User(t) \/ Disconnect(t) \/ OnEvent(t)
             \/ \E a \in Address : OpenPanel(t, a)
             \/ Refresh(t) \/ \E good \in BOOLEAN : Paste(t, good)
      PROVE  TabsOK'
  BY <1>5, ClientTabs
<1>. QED  BY <1>1, <1>2, <1>3, <1>4, <1>5 DEF Next, serve, List

(* ------------------------------ waiting ----------------------------- *)

LEMMA WaitsStep ==
  ASSUME WaitsOK,
         \A t \in Tab : \/ Outstanding(t)' = {}
                        \/ /\ Outstanding(t)' \subseteq Outstanding(t)
                           /\ panel'[t] = panel[t]
  PROVE  WaitsOK'
<1>. SUFFICES ASSUME NEW t \in Tab, NEW m \in Outstanding(t)'
              PROVE  /\ Outstanding(t)' = {m}
                     /\ m.op = "challenge" => panel'[t] = "asking"
                     /\ m.op = "taddr" => panel'[t] = "posting"
  BY DEF WaitsOK
<1>1. /\ Outstanding(t)' \subseteq Outstanding(t) /\ panel'[t] = panel[t]
      /\ m \in Outstanding(t)
  OBVIOUS
<1>2. /\ Outstanding(t) = {m}
      /\ m.op = "challenge" => panel[t] = "asking"
      /\ m.op = "taddr" => panel[t] = "posting"
  BY <1>1 DEF WaitsOK
<1>. QED  BY <1>1, <1>2

\* Messages that no panel waits for come and go.
LEMMA QuietWaits ==
  ASSUME WaitsOK, UNCHANGED panel,
         \A m \in wire' \cup replies' : m \in wire \cup replies \/ m.op \notin panelOps
  PROVE  WaitsOK'
BY WaitsStep DEF Outstanding

\* A request is never its own reply.
LEMMA Distinct ==
  ASSUME SessionsOK, NEW r \in wire, NEW m \in replies
  PROVE  r # m
BY DEF SessionsOK, GoodRequest, GoodReply

\* A message takes the place of another: its reply, or the loss of one.
LEMMA InsteadWaits ==
  ASSUME WaitsOK, UNCHANGED panel, NEW x \in wire \cup replies, NEW y,
         y.tab = x.tab, y.op = x.op,
         \A m \in wire' \cup replies' : m = y \/ (m \in wire \cup replies /\ m # x)
  PROVE  WaitsOK'
<1>. SUFFICES ASSUME NEW t \in Tab, NEW m \in Outstanding(t)'
              PROVE  /\ Outstanding(t)' = {m}
                     /\ m.op = "challenge" => panel[t] = "asking"
                     /\ m.op = "taddr" => panel[t] = "posting"
  BY DEF WaitsOK
<1>1. CASE x \in Outstanding(t)
  <2>1. Outstanding(t) = {x} /\ (x.op = "challenge" => panel[t] = "asking")
        /\ (x.op = "taddr" => panel[t] = "posting")
    BY <1>1 DEF WaitsOK
  <2>2. Outstanding(t)' \subseteq {y}
    BY <2>1 DEF Outstanding
  <2>. QED  BY <2>1, <2>2
<1>2. CASE x \notin Outstanding(t)
  <2>1. Outstanding(t)' \subseteq Outstanding(t)
    BY <1>2 DEF Outstanding
  <2>2. m \in Outstanding(t)
    BY <2>1
  <2>. QED  BY <2>1, <2>2 DEF WaitsOK
<1>. QED  BY <1>1, <1>2

LEMMA HandleWaits ==
  ASSUME WaitsOK, SessionsOK, NEW r \in wire, Handle(r) \/ LoseRequest(r), UNCHANGED panel
  PROVE  WaitsOK'
<1>1. PICK ok, session, stmt, set : answer(r, reply(r, ok, session, stmt, set))
  BY DEF Handle, NonceRoute, SessionPost, SessionGet, SessionDelete, Challenge, TaddrPost,
         LoseRequest, refusal
<1>2. /\ reply(r, ok, session, stmt, set).op = r.op
      /\ reply(r, ok, session, stmt, set).tab = r.tab
  BY DEF reply
<1>3. r \notin replies
  BY Distinct
<1>. QED  BY <1>1, <1>2, <1>3, InsteadWaits DEF answer

\* A panel asks when it waits for nothing.
LEMMA AskWaits ==
  ASSUME WaitsOK, NEW t \in Tab, panel[t] \notin {"asking", "posting"}, DOMAIN panel = Tab,
         NEW x, x.tab = t, x.op \in panelOps, wire' = wire \cup {x}, UNCHANGED replies,
         panel' = [panel EXCEPT ![t] = IF x.op = "challenge" THEN "asking" ELSE "posting"]
  PROVE  WaitsOK'
<1>1. Outstanding(t) = {}
  <2>1. ASSUME NEW m \in Outstanding(t) PROVE FALSE
    BY DEF WaitsOK, Outstanding, panelOps
  <2>. QED  BY <2>1
<1>2. ASSUME NEW u \in Tab, u # t
      PROVE  Outstanding(u)' = Outstanding(u) /\ panel'[u] = panel[u]
  BY <1>2 DEF Outstanding
<1>3. Outstanding(t)' = {x}
  BY <1>1 DEF Outstanding
<1>4. /\ x.op = "challenge" => panel'[t] = "asking"
      /\ x.op = "taddr" => panel'[t] = "posting"
  OBVIOUS
<1>5. ASSUME NEW u \in Tab, NEW m \in Outstanding(u)'
      PROVE  /\ Outstanding(u)' = {m}
             /\ m.op = "challenge" => panel'[u] = "asking"
             /\ m.op = "taddr" => panel'[u] = "posting"
  <2>1. CASE u = t
    BY <1>3, <1>4, <1>5, <2>1
  <2>2. CASE u # t
    <3>1. m \in Outstanding(u)
      BY <1>2, <1>5, <2>2
    <3>. QED  BY <1>2, <2>2, <3>1 DEF WaitsOK
  <2>. QED  BY <2>1, <2>2
<1>. QED  BY <1>5 DEF WaitsOK

\* A panel that has its answer waits for nothing.
LEMMA AnsweredWaits ==
  ASSUME WaitsOK, SessionsOK, NEW t \in Tab, NEW m \in replies, m.tab = t, m.op \in panelOps,
         replies' = replies \ {m}, UNCHANGED wire,
         \A u \in Tab : u # t => panel'[u] = panel[u]
  PROVE  WaitsOK'
<1>1. Outstanding(t) = {m} /\ m \notin wire
  BY Distinct DEF WaitsOK, Outstanding
<1>2. Outstanding(t)' = {}
  BY <1>1 DEF Outstanding
<1>3. \A u \in Tab : Outstanding(u)' \subseteq Outstanding(u)
  BY DEF Outstanding
<1>. QED  BY <1>2, <1>3, WaitsStep

LEMMA LeaveWaits ==
  ASSUME WaitsOK, SessionsOK, NEW t \in Tab, closePanel(t), DOMAIN panel = Tab,
         \A r \in wire' : r \in orphaned(wire, t) \/ r = dropServerSession(t),
         \A m \in replies' : m \in orphaned(replies, t)
  PROVE  WaitsOK'
<1>1. \A m \in wire \cup replies : "tab" \in DOMAIN m
  BY DEF SessionsOK, GoodRequest, GoodReply
<1>2. dropServerSession(t).op \notin panelOps
  BY DEF dropServerSession, request, panelOps
<1>3. \A m \in wire' \cup replies' :
        \/ m.op \notin panelOps
        \/ m \in orphaned(wire \cup replies, t)
  BY <1>2 DEF orphaned
<1>4. ASSUME NEW m \in orphaned(wire \cup replies, t), m.op \in panelOps, m.tab \in Tab
      PROVE  m \in wire \cup replies /\ m.tab # t
  <2>1. PICK y \in wire \cup replies :
          m = IF y.tab = t /\ y.op \in panelOps THEN [y EXCEPT !.tab = Gone] ELSE y
    BY <1>4 DEF orphaned
  <2>2. CASE y.tab = t /\ y.op \in panelOps
    <3>1. m.tab = Gone
      BY <1>1, <2>1, <2>2
    <3>. QED  BY <1>4, <3>1, WalletAssumption
  <2>3. CASE ~(y.tab = t /\ y.op \in panelOps)
    BY <1>4, <2>1, <2>3
  <2>. QED  BY <2>2, <2>3
<1>5. ASSUME NEW u \in Tab
      PROVE  Outstanding(u)' \subseteq Outstanding(u) /\ (u = t => Outstanding(u)' = {})
  BY <1>3, <1>4 DEF Outstanding
<1>6. \A u \in Tab : u # t => panel'[u] = panel[u]
  BY DEF closePanel
<1>. QED  BY <1>5, <1>6, WaitsStep

LEMMA ClientWaits ==
  ASSUME WaitsOK, PanelsOK, SessionsOK, NEW t \in Tab,
         \/ Find(t) \/ EagerTrust(t)
         \/ Connect(t) \/ User(t) \/ Disconnect(t) \/ OnEvent(t)
         \/ \E a \in Address : OpenPanel(t, a)
         \/ Refresh(t) \/ \E good \in BOOLEAN : Paste(t, good)
  PROVE  WaitsOK'
<1>0. DOMAIN panel = Tab
  BY DEF PanelsOK
<1>1. CASE Find(t) \/ Connect(t)
  BY <1>1, QuietWaits DEF Find, Connect, vars_server
<1>2. CASE EagerTrust(t) \/ Approve(t) \/ Sign(t)
  <2>1. PICK op, stmt, signer :
          op \in {"session", "nonce", "connect"} /\ send(request(t, op, stmt, signer))
    BY <1>2 DEF EagerTrust, Approve, Sign
  <2>2. request(t, op, stmt, signer).op \notin panelOps
    BY <2>1 DEF request, panelOps
  <2>. QED  BY <1>2, <2>1, <2>2, QuietWaits DEF EagerTrust, Approve, Sign, send
<1>3. ASSUME NEW good \in BOOLEAN, Paste(t, good) PROVE WaitsOK'
  <2>1. PICK signer : send(request(t, "taddr", challenge[t], signer))
    BY <1>3 DEF Paste
  <2>. DEFINE x == request(t, "taddr", challenge[t], signer)
  <2>2. x.tab = t /\ x.op = "taddr" /\ x.op \in panelOps
    BY DEF request, panelOps
  <2>3. wire' = wire \cup {x}
    BY <2>1 DEF send
  <2>. HIDE DEF x
  <2>. QED  BY <1>0, <1>3, <2>2, <2>3, AskWaits DEF Paste
<1>4. ASSUME NEW a, ask(t, a), panel[t] \in {"closed", "shown"} PROVE WaitsOK'
  <2>. DEFINE x == request(t, "challenge", statement(None, a, None), None)
  <2>1. x.tab = t /\ x.op = "challenge" /\ x.op \in panelOps
    BY DEF request, panelOps
  <2>2. wire' = wire \cup {x}
    BY <1>4 DEF ask, send
  <2>. HIDE DEF x
  <2>. QED  BY <1>0, <1>4, <2>1, <2>2, AskWaits DEF ask
<1>5. CASE (\E a \in Address : OpenPanel(t, a)) \/ Refresh(t)
  BY <1>4, <1>5 DEF OpenPanel, Refresh
<1>6. CASE Decline(t)
  BY <1>0, <1>6, LeaveWaits DEF Decline
<1>7. CASE Disconnect(t) \/ OnEvent(t)
  BY <1>0, <1>7, LeaveWaits DEF Disconnect, OnEvent, leave
<1>. QED  BY <1>1, <1>2, <1>3, <1>5, <1>6, <1>7 DEF User

LEMMA ReplyWaits ==
  ASSUME WaitsOK, PanelsOK, SessionsOK, NEW m \in replies,
         Ignored(m) \/ \E t \in Tab : Answer(t, m)
  PROVE  WaitsOK'
<1>0. DOMAIN panel = Tab
  BY DEF PanelsOK
<1>1. CASE Ignored(m)
  BY <1>1, QuietWaits DEF Ignored, tabs
<1>2. ASSUME NEW t \in Tab, EagerAnswer(t, m) PROVE WaitsOK'
  <2>1. \A r \in wire' : r \in wire \/ r.op \notin panelOps
    BY <1>2 DEF EagerAnswer, send, dropServerSession, request, panelOps
  <2>. QED  BY <1>2, <2>1, QuietWaits DEF EagerAnswer
<1>3. ASSUME NEW t \in Tab, NonceAnswer(t, m) \/ Verified(t, m) PROVE WaitsOK'
  BY <1>3, QuietWaits DEF NonceAnswer, Verified
<1>4. ASSUME NEW t \in Tab, ChallengeAnswer(t, m) \/ ProofAnswer(t, m) PROVE WaitsOK'
  BY <1>0, <1>4, AnsweredWaits DEF ChallengeAnswer, ProofAnswer, panelOps
<1>5. ASSUME NEW t \in Tab, ConnectFailed(t, m) PROVE WaitsOK'
  BY <1>0, <1>5, Shrink, LeaveWaits DEF ConnectFailed
<1>. QED  BY <1>1, <1>2, <1>3, <1>4, <1>5 DEF Answer

LEMMA NextWaits == WaitsOK /\ PanelsOK /\ SessionsOK /\ [Next]_vars => WaitsOK'
<1>. SUFFICES ASSUME WaitsOK, PanelsOK, SessionsOK, [Next]_vars PROVE WaitsOK'
  OBVIOUS
<1>1. CASE UNCHANGED <<wire, replies, panel>>
  BY <1>1, QuietWaits
<1>2. ASSUME NEW r \in wire, serve(r) \/ (LoseRequest(r) /\ UNCHANGED tabs) PROVE WaitsOK'
  BY <1>2, HandleWaits DEF serve, tabs
<1>3. ASSUME NEW m \in replies, Ignored(m) \/ \E t \in Tab : Answer(t, m) PROVE WaitsOK'
  BY <1>3, ReplyWaits
<1>4. CASE /\ UNCHANGED tabs
           /\ \/ Restart
              \/ \E n \in Nonce : ExpireNonce(n)
              \/ \E v \in verified : ExpireSession(v.session)
  BY <1>1, <1>4 DEF Restart, ExpireNonce, ExpireSession, tabs
<1>5. ASSUME NEW m \in replies, LoseReply(m), UNCHANGED tabs PROVE WaitsOK'
  <2>1. refusal(m).op = m.op /\ refusal(m).tab = m.tab
    BY DEF refusal, reply
  <2>2. m \notin wire
    BY Distinct
  <2>. QED  BY <1>5, <2>1, <2>2, InsteadWaits DEF LoseReply, tabs
<1>6. CASE (\E k \in Key : Switch(k)) \/ Revoke
  BY <1>1, <1>6 DEF Switch, Revoke
<1>7. ASSUME NEW t \in Tab, NEW a \in Address, List(t, a) PROVE WaitsOK'
  BY <1>1, <1>7 DEF List, ListingPost, tabs
<1>8. CASE UNCHANGED vars
  BY <1>1, <1>8 DEF vars, vars_server, tabs
<1>9. ASSUME NEW t \in Tab,
             \/ Find(t) \/ EagerTrust(t)
             \/ Connect(t) \/ User(t) \/ Disconnect(t) \/ OnEvent(t)
             \/ \E a \in Address : OpenPanel(t, a)
             \/ Refresh(t) \/ \E good \in BOOLEAN : Paste(t, good)
      PROVE  WaitsOK'
  BY <1>9, ClientWaits
<1>. QED  BY <1>2, <1>3, <1>4, <1>5, <1>6, <1>7, <1>8, <1>9 DEF Next, Fault

(* ---------------------------- statements ---------------------------- *)

\* fresh are the nonces that the step issues.
LEMMA StatementsStep ==
  ASSUME StatementsOK, NEW fresh, fresh \cap issued = {}, issued' = issued \cup fresh,
         fresh \subseteq nonces', DOMAIN grant' = Tab, DOMAIN challenge' = Tab,
         \A n : Granting(n)' => Granting(n) \/ n \in fresh,
         \A n : Stated(n)' => Stated(n) \/ n \in fresh,
         \A n \in fresh : ~(Granting(n)' /\ Stated(n)'),
         \A n : Stated(n) /\ Signable(n) => Signable(n)'
  PROVE  StatementsOK'
<1>1. ASSUME NEW n, Granting(n)' PROVE n \in issued'
  BY <1>1 DEF StatementsOK
<1>2. ASSUME NEW n, Stated(n)' PROVE n \in issued' /\ ~Granting(n)' /\ Signable(n)'
  <2>1. CASE n \in fresh
    BY <1>2, <2>1 DEF Signable
  <2>2. CASE n \notin fresh
    BY <1>2, <2>2 DEF StatementsOK
  <2>. QED  BY <2>1, <2>2
<1>. QED  BY <1>1, <1>2 DEF StatementsOK

\* A step that spends and issues nothing, and moves a nonce only along its way.
LEMMA MovedStatements ==
  ASSUME StatementsOK, UNCHANGED <<nonces, issued, lapsed, established>>,
         DOMAIN grant' = Tab, DOMAIN challenge' = Tab,
         \A m \in replies' : m.ok => /\ m.op = "nonce" => Granting(m.stmt.nonce)
                                     /\ m.op = "challenge" => Stated(m.stmt.nonce),
         \A r \in wire' : r.op = "connect" => Granting(r.stmt.nonce),
         \A t \in Tab : /\ flow'[t] = "sign" => Granting(grant'[t])
                        /\ panel'[t] \in {"shown", "posting"} => Stated(challenge'[t].nonce)
  PROVE  StatementsOK'
<1>1. \A n : Granting(n)' => Granting(n)
  BY DEF Granting
<1>2. \A n : Stated(n)' => Stated(n)
  BY DEF Stated
<1>3. \A n : Signable(n)' <=> Signable(n)
  BY DEF Signable
<1>4. {} \cap issued = {} /\ issued' = issued \cup {}
  OBVIOUS
<1>. QED  BY <1>1, <1>2, <1>3, <1>4, StatementsStep

\* Where the nonces are.
LEMMA Places ==
  /\ \A m \in replies : m.ok => /\ m.op = "nonce" => Granting(m.stmt.nonce)
                                /\ m.op = "challenge" => Stated(m.stmt.nonce)
  /\ \A r \in wire : r.op = "connect" => Granting(r.stmt.nonce)
  /\ \A t \in Tab : /\ flow[t] = "sign" => Granting(grant[t])
                    /\ panel[t] \in {"shown", "posting"} => Stated(challenge[t].nonce)
BY DEF Granting, Stated

LEMMA OrphanPlaces ==
  ASSUME SessionsOK, NEW t
  PROVE  /\ \A m \in orphaned(replies, t) :
              m.ok => /\ m.op = "nonce" => Granting(m.stmt.nonce)
                      /\ m.op = "challenge" => Stated(m.stmt.nonce)
         /\ \A r \in orphaned(wire, t) : r.op = "connect" => Granting(r.stmt.nonce)
<1>1. ASSUME NEW m \in replies
      PROVE  LET x == [m EXCEPT !.tab = Gone]
             IN  x.ok = m.ok /\ x.op = m.op /\ x.stmt = m.stmt
  BY DEF SessionsOK, GoodReply
<1>2. ASSUME NEW r \in wire
      PROVE  LET x == [r EXCEPT !.tab = Gone]
             IN  x.op = r.op /\ x.stmt = r.stmt
  BY DEF SessionsOK, GoodRequest
<1>3. ASSUME NEW x \in orphaned(replies, t)
      PROVE  \E m \in replies : x.ok = m.ok /\ x.op = m.op /\ x.stmt = m.stmt
  BY <1>1, <1>3 DEF orphaned
<1>4. ASSUME NEW x \in orphaned(wire, t)
      PROVE  \E r \in wire : x.op = r.op /\ x.stmt = r.stmt
  BY <1>2, <1>4 DEF orphaned
<1>. QED  BY <1>3, <1>4, Places

\* An answer that issues no nonce and spends none of a statement.
LEMMA AnswerStatements ==
  ASSUME StatementsOK, NEW r \in wire, NEW m, answer(r, m),
         UNCHANGED <<flow, grant, panel, challenge>>
  PROVE  /\ \A n : Granting(n)' =>
              Granting(n) \/ (m.op = "nonce" /\ m.ok /\ m.stmt.nonce = n)
         /\ \A n : Stated(n)' =>
              Stated(n) \/ (m.op = "challenge" /\ m.ok /\ m.stmt.nonce = n)
BY DEF answer, Granting, Stated

\* Every nonce is issued under a number of its own.
LEMMA IssuedFresh ==
  ASSUME NoncesOK, NEW n \in Nonce, issue(n)
  PROVE  n \notin issued
<1>1. PICK k \in 0 .. MaxNonces : issued = 1 .. k
  BY DEF NoncesOK
<1>2. Cardinality(issued) = k
  BY <1>1, FS_Interval, WalletAssumption
<1>. QED  BY <1>1, <1>2 DEF issue

LEMMA IssueStatements ==
  ASSUME StatementsOK, NoncesOK, NEW r \in wire, NEW m, answer(r, m),
         UNCHANGED <<flow, grant, panel, challenge, lapsed, established>>,
         NEW n \in Nonce, issue(n), m.op \in {"nonce", "challenge"}, m.stmt.nonce = n
  PROVE  StatementsOK'
<1>1. n \notin issued /\ issued' = issued \cup {n} /\ nonces' = (nonces \ lapsed) \cup {n}
  BY IssuedFresh DEF issue
<1>2. ~Granting(n) /\ ~Stated(n)
  BY <1>1 DEF StatementsOK
<1>3. /\ \A k : Granting(k)' => Granting(k) \/ (m.op = "nonce" /\ k = n)
      /\ \A k : Stated(k)' => Stated(k) \/ (m.op = "challenge" /\ k = n)
  BY AnswerStatements
<1>4. \A k : Signable(k) => Signable(k)'
  BY <1>1 DEF Signable
<1>5. DOMAIN grant' = Tab /\ DOMAIN challenge' = Tab
  BY DEF StatementsOK
<1>. DEFINE fresh == {n}
<1>6. /\ fresh \cap issued = {} /\ issued' = issued \cup fresh /\ fresh \subseteq nonces'
      /\ \A k : Granting(k)' => Granting(k) \/ k \in fresh
      /\ \A k : Stated(k)' => Stated(k) \/ k \in fresh
      /\ \A k \in fresh : ~(Granting(k)' /\ Stated(k)')
  BY <1>1, <1>2, <1>3
<1>. HIDE DEF fresh
<1>. QED  BY <1>4, <1>5, <1>6, StatementsStep

\* What is spent is not of a statement, or a proof has come of it.
LEMMA SpendStatements ==
  ASSUME StatementsOK, NoncesOK, NEW r \in wire, NEW m, answer(r, m),
         UNCHANGED <<flow, grant, panel, challenge, lapsed, issued>>,
         ~m.ok \/ m.op \notin {"nonce", "challenge"}, NEW n,
         nonces' = nonces \ (lapsed \cup {n}),
         \/ established' = established /\ r.op = "connect" /\ r.stmt.nonce = n
         \/ established' = established /\ n \notin nonces \ lapsed
         \/ established' = [established EXCEPT ![n] = @ + 1] /\ n \in nonces
  PROVE  StatementsOK'
<1>1. /\ \A k : Granting(k)' => Granting(k)
      /\ \A k : Stated(k)' => Stated(k)
  BY AnswerStatements
<1>2. ASSUME NEW k, Stated(k), Signable(k) PROVE Signable(k)'
  <2>1. ~Granting(k) /\ k \in Nonce /\ established \in [Nonce -> Nat]
    BY <1>2 DEF StatementsOK, NoncesOK
  <2>2. CASE k # n
    <3>1. established'[k] = established[k]
      BY <2>1, <2>2
    <3>. QED  BY <1>2, <2>2, <3>1 DEF Signable
  <2>3. CASE k = n
    <3>1. CASE established' = established
      <4>1. n \notin nonces \ lapsed
        BY <2>1, <2>3, <3>1 DEF Granting, NoncesOK
      <4>. QED  BY <1>2, <2>3, <3>1, <4>1 DEF Signable
    <3>2. CASE established' = [established EXCEPT ![n] = @ + 1]
      <4>1. established'[k] > 0
        BY <2>1, <2>3, <3>2
      <4>. QED  BY <4>1 DEF Signable
    <3>. QED  BY <3>1, <3>2
  <2>. QED  BY <2>2, <2>3
<1>3. DOMAIN grant' = Tab /\ DOMAIN challenge' = Tab
  BY DEF StatementsOK
<1>4. {} \cap issued = {} /\ issued' = issued \cup {}
  OBVIOUS
<1>. QED  BY <1>1, <1>2, <1>3, <1>4, StatementsStep

\* An answer that neither issues nor spends.
LEMMA QuietStatements ==
  ASSUME StatementsOK, NEW r \in wire, NEW m, answer(r, m),
         UNCHANGED <<flow, grant, panel, challenge, nonces, issued, lapsed, established>>,
         ~m.ok \/ m.op \notin {"nonce", "challenge"}
  PROVE  StatementsOK'
<1>1. /\ \A x \in replies' : x.ok => /\ x.op = "nonce" => Granting(x.stmt.nonce)
                                     /\ x.op = "challenge" => Stated(x.stmt.nonce)
      /\ \A x \in wire' : x.op = "connect" => Granting(x.stmt.nonce)
  BY Places DEF answer
<1>. QED  BY <1>1, Places, MovedStatements DEF StatementsOK

LEMMA HandleStatements ==
  ASSUME StatementsOK, NoncesOK, NEW r \in wire, Handle(r),
         UNCHANGED <<flow, grant, panel, challenge>>
  PROVE  StatementsOK'
<1>1. \A ok, session, stmt, set :
        /\ reply(r, ok, session, stmt, set).op = r.op
        /\ reply(r, ok, session, stmt, set).ok = ok
        /\ reply(r, ok, session, stmt, set).stmt = stmt
  BY DEF reply
<1>2. CASE NonceRoute(r)
  <2>1. PICK n \in Nonce : /\ issue(n)
                           /\ answer(r, reply(r, TRUE, None, statement(None, None, n), Keep))
    BY <1>2 DEF NonceRoute
  <2>2. statement(None, None, n).nonce = n /\ r.op = "nonce" /\ UNCHANGED <<lapsed, established>>
    BY <1>2 DEF statement, NonceRoute, history
  <2>. DEFINE m == reply(r, TRUE, None, statement(None, None, n), Keep)
  <2>3. m.op = r.op /\ m.stmt = statement(None, None, n)
    BY DEF reply
  <2>4. answer(r, m)
    BY <2>1
  <2>. HIDE DEF m
  <2>. QED  BY <1>2, <2>1, <2>2, <2>3, <2>4, IssueStatements
<1>3. CASE SessionPost(r)
  <2>. DEFINE good == outstanding(r.stmt.nonce) /\ signatureVerifies(r)
  <2>1. /\ r.op = "connect" /\ nonces' = nonces \ (lapsed \cup {r.stmt.nonce})
        /\ UNCHANGED <<lapsed, issued>>
    BY <1>3 DEF SessionPost, consume
  <2>2. \E m : answer(r, m) /\ m.op = "connect"
    <3>1. PICK ok, given, stmt, set : answer(r, reply(r, ok, given, stmt, set))
      BY <1>3 DEF SessionPost, refusal
    <3>. QED  BY <1>1, <2>1, <3>1
  <2>3. \/ established' = established
        \/ /\ established' = [established EXCEPT ![r.stmt.nonce] = @ + 1]
           /\ r.stmt.nonce \in nonces
    BY <1>3 DEF SessionPost, outstanding
  <2>. QED  BY <2>1, <2>2, <2>3, SpendStatements
<1>4. CASE SessionGet(r) \/ SessionDelete(r)
  <2>1. \E m : answer(r, m) /\ m.op \in {"session", "delete"}
    <3>1. PICK ok, given, stmt, set : answer(r, reply(r, ok, given, stmt, set))
      BY <1>4 DEF SessionGet, SessionDelete
    <3>2. r.op \in {"session", "delete"}
      BY <1>4 DEF SessionGet, SessionDelete
    <3>. QED  BY <1>1, <3>1, <3>2
  <2>2. UNCHANGED <<nonces, issued, lapsed, established>>
    BY <1>4 DEF SessionGet, SessionDelete, server, history
  <2>. QED  BY <2>1, <2>2, QuietStatements
<1>5. CASE Challenge(r)
  <2>. DEFINE session == readSessionCookie(r)
  <2>1. CASE session = None
    <3>1. answer(r, refusal(r)) /\ ~refusal(r).ok
      BY <1>5, <2>1 DEF Challenge, refusal, reply
    <3>2. UNCHANGED <<nonces, issued, lapsed, established>>
      BY <1>5, <2>1 DEF Challenge, history
    <3>. QED  BY <3>1, <3>2, QuietStatements
  <2>2. CASE session # None
    <3>1. PICK n \in Nonce :
            /\ issue(n)
            /\ answer(r, reply(r, TRUE, None,
                     statement(session.publicKey, r.stmt.address, n), Keep))
      BY <1>5, <2>2 DEF Challenge
    <3>2. statement(session.publicKey, r.stmt.address, n).nonce = n
      BY DEF statement
    <3>3. r.op = "challenge" /\ UNCHANGED <<lapsed, established>>
      BY <1>5 DEF Challenge, history
    <3>. HIDE DEF session
    <3>. DEFINE m == reply(r, TRUE, None, statement(session.publicKey, r.stmt.address, n), Keep)
    <3>4. m.op = r.op /\ m.stmt = statement(session.publicKey, r.stmt.address, n)
      BY DEF reply
    <3>5. answer(r, m)
      BY <3>1
    <3>. HIDE DEF m
    <3>. QED  BY <3>1, <3>2, <3>3, <3>4, <3>5, IssueStatements
  <2>. QED  BY <2>1, <2>2
<1>6. CASE TaddrPost(r)
  <2>. DEFINE session == readSessionCookie(r)
              accepted == /\ session # None /\ verifyAddressProof(r, session)
                          /\ outstanding(r.stmt.nonce)
  <2>1. r.op = "taddr" /\ UNCHANGED <<lapsed, issued>>
    BY <1>6 DEF TaddrPost
  <2>2. \E m : answer(r, m) /\ m.op = "taddr"
    <3>1. PICK ok, given, stmt, set : answer(r, reply(r, ok, given, stmt, set))
      BY <1>6 DEF TaddrPost, refusal
    <3>. QED  BY <1>1, <2>1, <3>1
  <2>3. CASE accepted
    <3>1. /\ nonces' = nonces \ (lapsed \cup {r.stmt.nonce}) /\ r.stmt.nonce \in nonces
          /\ established' = [established EXCEPT ![r.stmt.nonce] = @ + 1]
      BY <1>6, <2>3 DEF TaddrPost, consume, outstanding
    <3>. HIDE DEF accepted
    <3>. QED  BY <2>1, <2>2, <3>1, SpendStatements
  <2>4. CASE ~(session # None /\ verifyAddressProof(r, session))
    <3>1. UNCHANGED <<nonces, established>>
      BY <1>6, <2>4 DEF TaddrPost
    <3>. QED  BY <2>1, <2>2, <3>1, QuietStatements
  <2>5. CASE session # None /\ verifyAddressProof(r, session) /\ ~outstanding(r.stmt.nonce)
    <3>1. /\ nonces' = nonces \ (lapsed \cup {r.stmt.nonce})
          /\ r.stmt.nonce \notin nonces \ lapsed /\ established' = established
      BY <1>6, <2>5 DEF TaddrPost, consume, outstanding
    <3>. HIDE DEF accepted, session
    <3>. QED  BY <2>1, <2>2, <3>1, SpendStatements
  <2>. QED  BY <2>3, <2>4, <2>5
<1>. QED  BY <1>2, <1>3, <1>4, <1>5, <1>6 DEF Handle

\* A tab that leaves takes its statement with it.
LEMMA LeaveStatements ==
  ASSUME StatementsOK, SessionsOK, PanelsOK, NEW t \in Tab, closePanel(t),
         UNCHANGED <<nonces, issued, lapsed, established>>,
         \A r \in wire' : r \in orphaned(wire, t) \/ r = dropServerSession(t),
         \A m \in replies' : m \in orphaned(replies, t),
         DOMAIN grant' = Tab,
         \A u \in Tab : flow'[u] = "sign" => flow[u] = "sign" /\ grant'[u] = grant[u]
  PROVE  StatementsOK'
<1>1. dropServerSession(t).op # "connect"
  BY DEF dropServerSession, request
<1>2. DOMAIN panel = Tab /\ DOMAIN challenge = Tab
  BY DEF PanelsOK, StatementsOK
<1>3. \A u \in Tab : panel'[u] \in {"shown", "posting"} =>
        panel[u] \in {"shown", "posting"} /\ challenge'[u] = challenge[u]
  BY <1>2 DEF closePanel
<1>4. DOMAIN challenge' = Tab
  BY <1>2 DEF closePanel
<1>5. /\ \A m \in replies' : m.ok => /\ m.op = "nonce" => Granting(m.stmt.nonce)
                                     /\ m.op = "challenge" => Stated(m.stmt.nonce)
      /\ \A r \in wire' : r.op = "connect" => Granting(r.stmt.nonce)
  BY <1>1, OrphanPlaces
<1>6. \A u \in Tab : /\ flow'[u] = "sign" => Granting(grant'[u])
                     /\ panel'[u] \in {"shown", "posting"} => Stated(challenge'[u].nonce)
  BY <1>3, Places
<1>. QED  BY <1>4, <1>5, <1>6, MovedStatements

\* A tab that sends something else than a signature to connect with.
LEMMA SendStatements ==
  ASSUME StatementsOK, PanelsOK, NEW t \in Tab,
         UNCHANGED <<nonces, issued, lapsed, established, grant>>,
         \A m \in replies' : m \in replies,
         \A r \in wire' : r \in wire \/ r.op # "connect",
         \A u \in Tab : flow'[u] = "sign" => flow[u] = "sign",
         DOMAIN challenge' = Tab,
         \A u \in Tab : panel'[u] \in {"shown", "posting"} =>
           panel[u] \in {"shown", "posting"} /\ challenge'[u] = challenge[u]
  PROVE  StatementsOK'
<1>1. /\ \A m \in replies' : m.ok => /\ m.op = "nonce" => Granting(m.stmt.nonce)
                                     /\ m.op = "challenge" => Stated(m.stmt.nonce)
      /\ \A r \in wire' : r.op = "connect" => Granting(r.stmt.nonce)
  BY Places
<1>2. \A u \in Tab : /\ flow'[u] = "sign" => Granting(grant'[u])
                     /\ panel'[u] \in {"shown", "posting"} => Stated(challenge'[u].nonce)
  BY Places
<1>. QED  BY <1>1, <1>2, MovedStatements DEF StatementsOK

LEMMA ClientStatements ==
  ASSUME StatementsOK, TabsOK, PanelsOK, SessionsOK, NEW t \in Tab,
         \/ Find(t) \/ EagerTrust(t)
         \/ Connect(t) \/ User(t) \/ Disconnect(t) \/ OnEvent(t)
         \/ \E a \in Address : OpenPanel(t, a)
         \/ Refresh(t) \/ \E good \in BOOLEAN : Paste(t, good)
  PROVE  StatementsOK'
<1>0. /\ UNCHANGED <<nonces, issued, lapsed, established>>
      /\ DOMAIN panel = Tab /\ DOMAIN challenge = Tab /\ DOMAIN grant = Tab
      /\ DOMAIN flow = Tab
  BY ClientStep DEF server, history, PanelsOK, StatementsOK, TabsOK
<1>1. CASE Find(t) \/ Connect(t)
  BY <1>0, <1>1, SendStatements DEF Find, Connect, vars_server
<1>2. CASE EagerTrust(t) \/ Approve(t)
  <2>1. PICK op, stmt, signer :
          op \in {"session", "nonce"} /\ send(request(t, op, stmt, signer))
    BY <1>2 DEF EagerTrust, Approve
  <2>2. request(t, op, stmt, signer).op # "connect"
    BY <2>1 DEF request
  <2>. QED  BY <1>0, <1>2, <2>1, <2>2, SendStatements DEF EagerTrust, Approve, send
<1>3. CASE Sign(t)
  <2>. DEFINE x == request(t, "connect", statement(key[t], None, grant[t]), selected)
  <2>1. x.stmt.nonce = grant[t]
    BY DEF request, statement
  <2>2. wire' = wire \cup {x}
    BY <1>3 DEF Sign, send
  <2>. HIDE DEF x
  <2>3. \A r \in wire' : r.op = "connect" => Granting(r.stmt.nonce)
    BY <1>3, <2>1, <2>2, Places DEF Sign
  <2>4. /\ \A u \in Tab : flow'[u] = "sign" => flow[u] = "sign"
        /\ UNCHANGED <<replies, grant, panel, challenge>>
    BY <1>0, <1>3 DEF Sign
  <2>. QED  BY <1>0, <2>3, <2>4, Places, MovedStatements
<1>4. ASSUME NEW good \in BOOLEAN, Paste(t, good) PROVE StatementsOK'
  <2>1. PICK stmt, signer : send(request(t, "taddr", stmt, signer))
    BY <1>4 DEF Paste
  <2>2. request(t, "taddr", stmt, signer).op # "connect"
    BY DEF request
  <2>. QED  BY <1>0, <1>4, <2>1, <2>2, SendStatements DEF Paste, send
<1>5. ASSUME NEW a, ask(t, a) PROVE StatementsOK'
  <2>1. PICK stmt, signer : send(request(t, "challenge", stmt, signer))
    BY <1>5 DEF ask
  <2>2. request(t, "challenge", stmt, signer).op # "connect"
    BY DEF request
  <2>. QED  BY <1>0, <1>5, <2>1, <2>2, SendStatements DEF ask, send
<1>6. CASE (\E a \in Address : OpenPanel(t, a)) \/ Refresh(t)
  BY <1>5, <1>6 DEF OpenPanel, Refresh
<1>7. CASE Decline(t)
  BY <1>0, <1>7, LeaveStatements DEF Decline, failConnect, endConnect
<1>8. CASE Disconnect(t) \/ OnEvent(t)
  BY <1>0, <1>8, LeaveStatements DEF Disconnect, OnEvent, leave
<1>. QED  BY <1>1, <1>2, <1>3, <1>4, <1>6, <1>7, <1>8 DEF User

LEMMA ReplyStatements ==
  ASSUME StatementsOK, WaitsOK, TabsOK, PanelsOK, SessionsOK, NEW m \in replies,
         Ignored(m) \/ \E t \in Tab : Answer(t, m)
  PROVE  StatementsOK'
<1>0. /\ UNCHANGED <<nonces, issued, lapsed, established>>
      /\ DOMAIN panel = Tab /\ DOMAIN challenge = Tab /\ DOMAIN grant = Tab
      /\ DOMAIN flow = Tab
  BY ReplyStep DEF server, history, PanelsOK, StatementsOK, TabsOK
<1>1. CASE Ignored(m)
  BY <1>0, <1>1, Places, MovedStatements DEF Ignored, tabs
<1>2. ASSUME NEW t \in Tab, EagerAnswer(t, m) PROVE StatementsOK'
  <2>1. \A r \in wire' : r \in wire \/ r.op # "connect"
    BY <1>2 DEF EagerAnswer, send, dropServerSession, request
  <2>. QED  BY <1>0, <1>2, <2>1, SendStatements DEF EagerAnswer
<1>3. ASSUME NEW t \in Tab, NonceAnswer(t, m) PROVE StatementsOK'
  <2>1. Granting(m.stmt.nonce)
    BY <1>3, Places DEF NonceAnswer
  <2>2. \A u \in Tab : flow'[u] = "sign" => Granting(grant'[u])
    BY <1>0, <1>3, <2>1, Places DEF NonceAnswer
  <2>. QED  BY <1>0, <1>3, <2>2, Places, MovedStatements DEF NonceAnswer
<1>4. ASSUME NEW t \in Tab, ChallengeAnswer(t, m) PROVE StatementsOK'
  <2>1. m.ok => Stated(m.stmt.nonce)
    BY <1>4, Places DEF ChallengeAnswer
  <2>2. \A u \in Tab : panel'[u] \in {"shown", "posting"} => Stated(challenge'[u].nonce)
    BY <1>0, <1>4, <2>1, Places DEF ChallengeAnswer
  <2>. QED  BY <1>0, <1>4, <2>2, Places, MovedStatements DEF ChallengeAnswer
<1>5. ASSUME NEW t \in Tab, ProofAnswer(t, m) PROVE StatementsOK'
  <2>1. panel[t] = "posting"
    BY <1>5 DEF ProofAnswer, WaitsOK, Outstanding, panelOps
  <2>2. \A u \in Tab : panel'[u] \in {"shown", "posting"} => Stated(challenge'[u].nonce)
    BY <1>0, <1>5, <2>1, Places DEF ProofAnswer
  <2>. QED  BY <1>0, <1>5, <2>2, Places, MovedStatements DEF ProofAnswer
<1>6. ASSUME NEW t \in Tab, Verified(t, m) PROVE StatementsOK'
  <2>1. \A u \in Tab : flow'[u] = "sign" => flow[u] = "sign" /\ grant'[u] = grant[u]
    BY <1>0, <1>6 DEF Verified, endConnect
  <2>2. DOMAIN grant' = Tab /\ UNCHANGED <<wire, panel, challenge>> /\ replies' = replies \ {m}
    BY <1>0, <1>6 DEF Verified, endConnect
  <2>. QED  BY <1>0, <2>1, <2>2, Places, MovedStatements
<1>7. ASSUME NEW t \in Tab, ConnectFailed(t, m) PROVE StatementsOK'
  BY <1>0, <1>7, Shrink, LeaveStatements DEF ConnectFailed, failConnect, endConnect
<1>. QED  BY <1>1, <1>2, <1>3, <1>4, <1>5, <1>6, <1>7 DEF Answer

LEMMA NextStatements ==
  StatementsOK /\ WaitsOK /\ TabsOK /\ PanelsOK /\ SessionsOK /\ NoncesOK /\ [Next]_vars
    => StatementsOK'
<1>. SUFFICES ASSUME StatementsOK, WaitsOK, TabsOK, PanelsOK, SessionsOK, NoncesOK, [Next]_vars
              PROVE  StatementsOK'
  OBVIOUS
<1>. DEFINE still == UNCHANGED <<wire, replies, flow, grant, panel, challenge>>
<1>0. DOMAIN challenge = Tab /\ DOMAIN grant = Tab
  BY DEF StatementsOK
<1>1. CASE still /\ UNCHANGED <<nonces, issued, lapsed, established>>
  BY <1>0, <1>1, Places, MovedStatements
<1>2. ASSUME NEW r \in wire, serve(r) PROVE StatementsOK'
  BY <1>2, HandleStatements DEF serve, tabs
<1>3. ASSUME NEW m \in replies, Ignored(m) \/ \E t \in Tab : Answer(t, m) PROVE StatementsOK'
  BY <1>3, ReplyStatements
<1>4. CASE UNCHANGED tabs /\ (Restart \/ \E n \in Nonce : ExpireNonce(n))
  <2>1. /\ still /\ UNCHANGED <<issued, established>> /\ DOMAIN grant' = Tab
        /\ DOMAIN challenge' = Tab
        /\ \A n : n \in nonces \cup lapsed => n \in nonces' \cup lapsed'
    BY <1>0, <1>4 DEF Restart, ExpireNonce, tabs, server
  <2>2. \A n : /\ Granting(n)' => Granting(n)
               /\ Stated(n)' => Stated(n)
               /\ Signable(n) => Signable(n)'
    BY <2>1 DEF Granting, Stated, Signable
  <2>3. {} \cap issued = {} /\ issued' = issued \cup {}
    BY <2>1
  <2>. QED  BY <2>1, <2>2, <2>3, StatementsStep
<1>5. CASE UNCHANGED tabs /\ \E v \in verified : ExpireSession(v.session)
  BY <1>1, <1>5 DEF ExpireSession, history, tabs
<1>6. ASSUME NEW r \in wire, LoseRequest(r), UNCHANGED tabs PROVE StatementsOK'
  <2>1. ~refusal(r).ok
    BY DEF refusal, reply
  <2>. QED  BY <1>6, <2>1, QuietStatements DEF LoseRequest, server, history, tabs
<1>7. ASSUME NEW m \in replies, LoseReply(m), UNCHANGED tabs PROVE StatementsOK'
  <2>1. ~refusal(m).ok
    BY DEF refusal, reply
  <2>2. /\ UNCHANGED <<wire, nonces, issued, lapsed, established, flow, grant, panel, challenge>>
        /\ \A x \in replies' : x \in replies \/ ~x.ok
    BY <1>7, <2>1 DEF LoseReply, server, history, tabs
  <2>. QED  BY <1>0, <2>2, Places, MovedStatements
<1>8. CASE (\E k \in Key : Switch(k)) \/ Revoke
  BY <1>1, <1>8 DEF Switch, Revoke, server, history
<1>9. ASSUME NEW t \in Tab, NEW a \in Address, List(t, a) PROVE StatementsOK'
  BY <1>1, <1>9 DEF List, ListingPost, server, tabs
<1>10. CASE UNCHANGED vars
  BY <1>1, <1>10 DEF vars, vars_server, server, history, tabs
<1>11. ASSUME NEW t \in Tab,
              \/ Find(t) \/ EagerTrust(t)
              \/ Connect(t) \/ User(t) \/ Disconnect(t) \/ OnEvent(t)
              \/ \E a \in Address : OpenPanel(t, a)
              \/ Refresh(t) \/ \E good \in BOOLEAN : Paste(t, good)
       PROVE  StatementsOK'
  BY <1>11, ClientStatements
<1>. QED  BY <1>2, <1>3, <1>4, <1>5, <1>6, <1>7, <1>8, <1>9, <1>10, <1>11 DEF Next, Fault

(* ----------------------------- theorems ----------------------------- *)

LEMMA NextIInv == IInv /\ [Next]_vars => IInv'
BY NextNonces, NextProofs, NextSessions, NextPanels, NextTabs, NextWaits, NextStatements DEF IInv

LEMMA Invariance == Spec => []IInv
BY InitIInv, NextIInv, PTL DEF Spec

\* A nonce gives one session or one proof at most, whatever is sent again and by
\* which tab, and none once it has timed out or a restart has lost it (consume,
\* nonce.ts:40-45).
THEOREM NoncesAreUsedOnce == Spec => []NonceUsedOnce
<1>1. IInv => NonceUsedOnce
  BY DEF IInv, NoncesOK, NonceUsedOnce
<1>. QED  BY <1>1, Invariance, PTL

\* The identity a tab shows is one its own account signed for, also when the
\* user switches accounts in the middle (connect.ts, session/route.ts).
THEOREM IdentityIsSigned == Spec => []AdoptedSignedForItself
<1>1. IInv => AdoptedSignedForItself
  BY DEF IInv, SessionsOK, GoodSession, Owned, AdoptedSignedForItself
<1>. QED  BY <1>1, Invariance, PTL

\* A proof of an address serves the wallet its statement names and only the
\* session that gave it, and a panel is only open over a session
\* (taddr-proof.ts:15-18 and :204-208).
THEOREM ProofsAreOfTheirSession == Spec => []ProofsKeepToTheirSession
<1>1. IInv => TypeOK
  <2>. SUFFICES ASSUME IInv PROVE TypeOK
    OBVIOUS
  <2>1. nonces \subseteq issued /\ issued \subseteq Nonce
    BY DEF IInv, NoncesOK
  <2>2. cookie = None \/ (cookie.session \in Session /\ cookie.boot \in 1 .. boot)
    BY DEF IInv, SessionsOK, GoodCookie, Owned
  <2>. QED  BY <2>1, <2>2 DEF IInv, PanelsOK, TabsOK, TypeOK
<1>2. IInv => ProofIsOfItsWallet /\ ProofServesItsSession
  BY DEF IInv, ProofsOK, ProofIsOfItsWallet, ProofServesItsSession
<1>. QED  BY <1>1, <1>2, Invariance, PTL DEF ProofsKeepToTheirSession

\* A statement that a panel shows can be signed as long as its time runs:
\* neither a paste that is refused nor anybody's attempt to connect spends its
\* nonce (taddr/route.ts:54-56).
THEOREM StatementsStaySignable == Spec => []RefusedPasteKeepsNonce
<1>1. IInv => RefusedPasteKeepsNonce
  BY DEF IInv, StatementsOK, Stated, Signable, RefusedPasteKeepsNonce
<1>. QED  BY <1>1, Invariance, PTL
=============================================================================
