---------------------------- MODULE WalletClient ----------------------------
(***************************************************************************)
(* The browser (src/components/Wallet.tsx, ZcashSign.tsx and               *)
(* src/lib/wallet/connect.ts): tabs that share one cookie and one Phantom, *)
(* against WalletServer.  Every await is a step of its own.  Phantom       *)
(* answers when the user does, and the user may switch accounts, or        *)
(* disconnect the site in the extension, at any time.                      *)
(***************************************************************************)
EXTENDS WalletServer

CONSTANTS
  ConnectTab,  \* bound: the tabs in which the user connects
  ProofTab,    \* bound: the tabs in which the user proves an address
  MaxInFlight  \* bound: messages on their way when the user starts something

VARIABLES
  selected,  \* Phantom's account
  trusted,   \* Phantom has approved the site
  page,      \* page[t]: detecting, or found (Phantom is there)
  account, wallet,  \* what the tab shows: Phantom's account, the verified session
  flow, key, grant, \* connectPhantom: where it is, publicKey, the nonce granted
  eager,     \* the eager reconnect: none, trust, read, done
  eagerKey,
  event,     \* event of Phantom the tab has not handled yet
  panel, challenge  \* TransparentControlProof

phantom == <<selected, trusted>>
tabs == <<page, account, wallet, flow, key, grant, eager, eagerKey, event,
          panel, challenge>>
vars == <<vars_server, phantom, tabs>>

Init ==
  /\ InitServer
  /\ selected = (CHOOSE k \in Key : TRUE) /\ trusted = FALSE
  /\ page = [t \in Tab |-> "detecting"]
  /\ account = [t \in Tab |-> None] /\ wallet = [t \in Tab |-> None]
  /\ flow = [t \in Tab |-> "idle"]
  /\ key = [t \in Tab |-> None] /\ grant = [t \in Tab |-> None]
  /\ eager = [t \in Tab |-> "none"] /\ eagerKey = [t \in Tab |-> None]
  /\ event = [t \in Tab |-> "none"]
  /\ panel = [t \in Tab |-> "closed"]
  /\ challenge = [t \in Tab |-> noStatement]

send(r) == wire' = wire \cup {r}
dropServerSession(t) == request(t, "delete", noStatement, None)

\* Bound: there is a nonce left for one more who will ask.
room ==
  Cardinality(issued) + Cardinality({t \in Tab : flow[t] = "approve"})
    + Cardinality({r \in wire : r.op \in {"nonce", "challenge"}}) < MaxNonces

\* Without a wallet the page does not show the panel: what it waits for comes
\* back to nobody.
panelOps == {"challenge", "taddr"}
orphaned(messages, t) ==
  {IF m.tab = t /\ m.op \in panelOps THEN [m EXCEPT !.tab = Gone] ELSE m : m \in messages}
closePanel_open(t) == UNCHANGED <<panel, challenge>>
closePanel(t) ==
  panel' = [panel EXCEPT ![t] = "closed"] /\ challenge' = [challenge EXCEPT ![t] = noStatement]

calm == Cardinality(wire) + Cardinality(replies) < MaxInFlight

----------------------------------------------------------------------------
(* Finding Phantom, and the eager reconnect *)

\* Phantom is there at once or announces itself later; a page that has given
\* up looking for it behaves as one that still looks. The effect then asks
\* Phantom whether it trusts the site.
Find(t) ==
  /\ page[t] = "detecting" /\ calm
  /\ page' = [page EXCEPT ![t] = "found"]
  /\ eager' = [eager EXCEPT ![t] = "trust"]
  /\ UNCHANGED <<vars_server, phantom, account, wallet, flow, key, grant,
                 eagerKey, event, panel, challenge>>

EagerTrust(t) ==
  /\ eager[t] = "trust"
  /\ eagerKey' = [eagerKey EXCEPT ![t] = IF trusted THEN selected ELSE None]
  /\ eager' = [eager EXCEPT ![t] = "read"]
  /\ send(request(t, "session", noStatement, None))
  /\ UNCHANGED <<server, replies, cookie, faults, history, phantom, page,
                 account, wallet, flow, key, grant, event, panel, challenge>>

\* readServerSession takes a failed fetch for no session.
EagerAnswer(t, m) ==
  LET adopt == m.session # None /\ eagerKey[t] # None /\ m.session.publicKey = eagerKey[t]
  IN  /\ m.tab = t /\ m.op = "session"
      /\ eager' = [eager EXCEPT ![t] = "done"]
      /\ eagerKey' = [eagerKey EXCEPT ![t] = None]
      /\ account' = IF eagerKey[t] = None THEN account
                    ELSE [account EXCEPT ![t] = eagerKey[t]]
      /\ wallet' = IF adopt THEN [wallet EXCEPT ![t] = m.session] ELSE wallet
      /\ IF m.session # None /\ ~adopt THEN send(dropServerSession(t)) ELSE UNCHANGED wire
      /\ replies' = replies \ {m}
      /\ UNCHANGED <<server, cookie, faults, history, phantom, page, flow, key,
                     grant, event, panel, challenge>>

----------------------------------------------------------------------------
(* connect *)

phase(t) ==
  CASE page[t] # "found" -> page[t]
    [] page[t] = "found" /\ flow[t] = "verify" -> "verifying"
    [] page[t] = "found" /\ flow[t] \notin {"idle", "verify"} -> "connecting"
    [] page[t] = "found" /\ flow[t] = "idle" ->
         IF wallet[t] # None THEN "connected"
         ELSE IF account[t] # None THEN "unverified" ELSE "disconnected"

Connect(t) ==
  /\ t \in ConnectTab
  /\ phase(t) \in {"disconnected", "unverified"} /\ room /\ calm
  /\ flow' = [flow EXCEPT ![t] = "approve"]
  /\ UNCHANGED <<vars_server, phantom, page, account, wallet, key, grant, eager,
                 eagerKey, event, panel, challenge>>

\* provider.connect(): the site is approved and the connect event sets the account.
Approve(t) ==
  /\ flow[t] = "approve"
  /\ trusted' = TRUE
  /\ key' = [key EXCEPT ![t] = selected]
  /\ account' = [account EXCEPT ![t] = selected]
  /\ flow' = [flow EXCEPT ![t] = "nonce"]
  /\ send(request(t, "nonce", noStatement, None))
  /\ UNCHANGED <<server, replies, cookie, faults, history, selected, page,
                 wallet, grant, eager, eagerKey, event, panel, challenge>>

endConnect_busy(t) == UNCHANGED <<flow, key, grant>>
\* The finally of connect.
endConnect(t) ==
  /\ flow' = [flow EXCEPT ![t] = "idle"]
  /\ key' = [key EXCEPT ![t] = None] /\ grant' = [grant EXCEPT ![t] = None]
\* Its catch.
failConnect(t) == endConnect(t) /\ wallet' = [wallet EXCEPT ![t] = None]

\* The user closes Phantom's window, for the approval or for the signature.
Decline(t) ==
  /\ flow[t] \in {"approve", "sign"}
  /\ failConnect(t)
  /\ closePanel(t)
  /\ wire' = orphaned(wire, t) /\ replies' = orphaned(replies, t)
  /\ UNCHANGED <<server, cookie, faults, history, phantom, page, account,
                 eager, eagerKey, event>>

NonceAnswer(t, m) ==
  /\ m.tab = t /\ m.op = "nonce" /\ m.ok
  /\ grant' = [grant EXCEPT ![t] = m.stmt.nonce]
  /\ flow' = [flow EXCEPT ![t] = "sign"]
  /\ replies' = replies \ {m}
  /\ UNCHANGED <<server, wire, cookie, faults, history, phantom, page, account,
                 wallet, key, eager, eagerKey, event, panel, challenge>>

\* signMessage: with the account Phantom has now.
Sign(t) ==
  /\ flow[t] = "sign"
  /\ send(request(t, "connect", statement(key[t], None, grant[t]), selected))
  /\ flow' = [flow EXCEPT ![t] = "verify"]
  /\ UNCHANGED <<server, replies, cookie, faults, history, phantom, page, account,
                 wallet, key, grant, eager, eagerKey, event, panel, challenge>>

setCookie(m) == cookie' = IF m.cookie = Keep THEN cookie ELSE m.cookie

Verified(t, m) ==
  /\ m.tab = t /\ m.op = "connect" /\ m.ok
  /\ setCookie(m)
  /\ wallet' = [wallet EXCEPT ![t] = m.session]
  /\ account' = [account EXCEPT ![t] = m.session.publicKey]
  /\ endConnect(t)
  /\ replies' = replies \ {m}
  /\ UNCHANGED <<server, wire, faults, history, phantom, page, eager,
                 eagerKey, event, panel, challenge>>

\* The nonce request or the verification failed.
ConnectFailed(t, m) ==
  /\ m.tab = t /\ m.op \in {"nonce", "connect"} /\ ~m.ok
  /\ failConnect(t)
  /\ closePanel(t)
  /\ wire' = orphaned(wire, t) /\ replies' = orphaned(replies \ {m}, t)
  /\ UNCHANGED <<server, cookie, faults, history, phantom, page, account,
                 eager, eagerKey, event>>

----------------------------------------------------------------------------
(* Leaving *)

\* What disconnect, and the handlers of Phantom's events, all do. The DELETE
\* is not awaited.
leave(t, shown) ==
  /\ wallet' = [wallet EXCEPT ![t] = None]
  /\ account' = [account EXCEPT ![t] = shown]
  /\ closePanel(t)
  /\ wire' = orphaned(wire, t) \cup {dropServerSession(t)}
  /\ replies' = orphaned(replies, t)

Disconnect(t) ==
  /\ phase(t) = "connected" /\ calm
  /\ leave(t, None)
  /\ trusted' = FALSE
  /\ UNCHANGED <<server, cookie, faults, history, selected, page, flow,
                 key, grant, eager, eagerKey, event>>

tell(what) ==
  event' = [t \in Tab |-> IF page[t] = "found" THEN what ELSE event[t]]

Switch(k) ==
  /\ fault
  /\ k # selected /\ trusted
  /\ selected' = k
  /\ tell("accountChanged")
  /\ UNCHANGED <<server, wire, replies, cookie, history, trusted, page, account, wallet, flow, key, grant,
                 eager, eagerKey, panel, challenge>>

Revoke ==
  /\ fault
  /\ trusted
  /\ trusted' = FALSE
  /\ tell("disconnect")
  /\ UNCHANGED <<server, wire, replies, cookie, history, selected, page, account, wallet, flow, key, grant,
                 eager, eagerKey, panel, challenge>>

OnEvent(t) ==
  /\ event[t] # "none"
  /\ leave(t, IF event[t] = "disconnect" THEN None ELSE selected)
  /\ event' = [event EXCEPT ![t] = "none"]
  /\ UNCHANGED <<server, cookie, faults, history, phantom, page, flow, key, grant,
                 eager, eagerKey>>

\* The reply to a DELETE, or one whose panel is gone: only its cookie counts.
Ignored(m) ==
  /\ m.op = "delete" \/ m.tab = Gone
  /\ setCookie(m)
  /\ replies' = replies \ {m}
  /\ UNCHANGED <<server, wire, faults, history, phantom, tabs>>

----------------------------------------------------------------------------
(* Proving a transparent address, and using the proof *)

ask(t, a) ==
  /\ room /\ calm
  /\ send(request(t, "challenge", statement(None, a, None), None))
  /\ panel' = [panel EXCEPT ![t] = "asking"]
  /\ challenge' = [challenge EXCEPT ![t] = noStatement]
  /\ UNCHANGED <<server, replies, cookie, faults, history, phantom, page, account,
                 wallet, flow, key, grant, eager, eagerKey, event>>

\* The panel asks when it is mounted, and again for "New statement".
OpenPanel(t, a) ==
  t \in ProofTab /\ wallet[t] # None /\ panel[t] = "closed" /\ ask(t, a)
Refresh(t) == panel[t] = "shown" /\ ask(t, challenge[t].address)

ChallengeAnswer(t, m) ==
  /\ m.tab = t /\ m.op = "challenge"
  /\ panel' = [panel EXCEPT ![t] = IF m.ok THEN "shown" ELSE "refused"]
  /\ challenge' = [challenge EXCEPT ![t] = m.stmt]
  /\ replies' = replies \ {m}
  /\ UNCHANGED <<server, wire, cookie, faults, history, phantom, page, account,
                 wallet, flow, key, grant, eager, eagerKey, event>>

\* The paste is the signature of the address's holder, or it is not.
Paste(t, good) ==
  /\ panel[t] = "shown" /\ calm
  /\ send(request(t, "taddr", challenge[t],
                  IF good THEN challenge[t].address ELSE None))
  /\ panel' = [panel EXCEPT ![t] = "posting"]
  /\ UNCHANGED <<server, replies, cookie, faults, history, phantom, page, account,
                 wallet, flow, key, grant, eager, eagerKey, event, challenge>>

ProofAnswer(t, m) ==
  /\ m.tab = t /\ m.op = "taddr"
  /\ panel' = [panel EXCEPT ![t] = IF m.ok THEN "done" ELSE "shown"]
  /\ replies' = replies \ {m}
  /\ UNCHANGED <<server, wire, cookie, faults, history, phantom, page, account,
                 wallet, flow, key, grant, eager, eagerKey, event, challenge>>

List(t, a) ==
  /\ t \in ProofTab /\ wallet[t] # None /\ panel[t] \in {"closed", "done"}
  /\ ListingPost(request(t, "list", statement(None, a, None), None))
  /\ UNCHANGED <<phantom, tabs>>

----------------------------------------------------------------------------

Answer(t, m) ==
  \/ EagerAnswer(t, m) \/ NonceAnswer(t, m) \/ Verified(t, m)
  \/ ConnectFailed(t, m) \/ ChallengeAnswer(t, m) \/ ProofAnswer(t, m)

serve(r) == Handle(r) /\ UNCHANGED <<phantom, tabs>>

User(t) == Approve(t) \/ Decline(t) \/ Sign(t)

Fault ==
  \/ Restart
  \/ \E n \in Nonce : ExpireNonce(n)
  \/ \E v \in verified : ExpireSession(v.session)
  \/ \E r \in wire : LoseRequest(r)
  \/ \E m \in replies : LoseReply(m)

Next ==
  \/ \E r \in wire : serve(r)
  \/ \E m \in replies : Ignored(m)
  \/ \E m \in replies, t \in Tab : Answer(t, m)
  \/ Fault /\ UNCHANGED <<phantom, tabs>>
  \/ \E k \in Key : Switch(k)
  \/ Revoke
  \/ \E t \in Tab :
       \/ Find(t) \/ EagerTrust(t)
       \/ Connect(t) \/ User(t) \/ Disconnect(t) \/ OnEvent(t)
       \/ \E a \in Address : OpenPanel(t, a) \/ List(t, a)
       \/ Refresh(t) \/ \E good \in BOOLEAN : Paste(t, good)

\* The next step of the connect flow of a tab: the user answers the window
\* that Phantom has opened, the request is served, or its reply arrives.
ConnectStep(t) ==
  \/ User(t)
  \/ \E r \in wire : r.tab = t /\ r.op \in {"nonce", "connect"} /\ serve(r)
  \/ \E m \in replies : NonceAnswer(t, m) \/ Verified(t, m) \/ ConnectFailed(t, m)

Fairness == \A t \in ConnectTab : WF_vars(ConnectStep(t))

Spec == Init /\ [][Next]_vars /\ Fairness

----------------------------------------------------------------------------
(* Properties *)

Session == [publicKey : Key, verifiedAt : Nonce]

TypeOK ==
  /\ nonces \subseteq issued /\ issued \subseteq Nonce
  /\ cookie = None \/ (cookie.session \in Session /\ cookie.boot \in 1 .. boot)
  /\ selected \in Key /\ trusted \in BOOLEAN
  /\ wallet \in [Tab -> Session \cup {None}]
  /\ account \in [Tab -> Key \cup {None}]
  /\ flow \in [Tab -> {"idle", "approve", "nonce", "sign", "verify"}]
  /\ panel \in [Tab -> {"closed", "asking", "shown", "posting", "done", "refused"}]
  /\ \A t \in Tab : panel[t] # "closed" => wallet[t] # None

\* One nonce gives one session or one proof, whatever is sent again and by which
\* tab; and one that has timed out, or that a restart of the server has lost,
\* gives none, however late a statement that carries it is signed or arrives.
NonceUsedOnce ==
  \A n \in Nonce : established[n] <= 1 /\ (n \in lapsed => established[n] = 0)

\* The identity a tab shows, whichever way it got it, is one the account's own
\* signature established, also when the user switched accounts half way.
AdoptedSignedForItself ==
  \A t \in Tab : wallet[t] # None =>
    [session |-> wallet[t], signer |-> wallet[t].publicKey] \in verified

\* A proof is kept for a session of the wallet its statement names: no session
\* presents a statement that was issued to another wallet
\* (src/lib/wallet/taddr-proof.ts:15-18).
ProofIsOfItsWallet == \A p \in proofs : p.by.publicKey = p.stmt.wallet

\* A proof serves the session that gave it and no later one of the same wallet
\* (src/lib/wallet/taddr-proof.ts:204-208).
ProofServesItsSession == \A u \in listed : u.session = u.found.by

\* A proof of an address serves the wallet its statement names, and of that
\* wallet only the session that gave it.
ProofsKeepToTheirSession == TypeOK /\ ProofIsOfItsWallet /\ ProofServesItsSession

\* A nonce that a statement of an address carried is gone only if a proof came
\* of it or its time was over: a paste that is refused leaves the statement
\* signable (src/app/api/wallet/taddr/route.ts:54-56).
RefusedPasteKeepsNonce ==
  \A t \in Tab : panel[t] \in {"shown", "posting"} =>
    LET n == challenge[t].nonce
    IN  n \in nonces \/ n \in lapsed \/ established[n] > 0

\* Whatever Phantom or the server answers, the button comes back.
BusyClears == \A t \in ConnectTab : flow[t] # "idle" ~> flow[t] = "idle"

\* Claims that two actors break.

\* A proof must not outlive the session that gave it
\* (src/app/api/wallet/session/route.ts:73-77): the POST that records one reads
\* the cookie, which a DELETE served in between does not make invalid, and the
\* session that gets the proof is one the browser has left.
ProofsDoNotOutliveTheirSession ==
  [][\A p \in proofs' \ proofs : cookie # None /\ cookie.session = p.by]_vars

\* A tab shows the account that Phantom would sign with: the reply to a
\* verification that was on its way adopts the account the user has left.
AdoptedIsSelected ==
  \A t \in Tab : wallet[t] # None /\ event[t] = "none" => wallet[t].publicKey = selected

\* When nothing is on its way, a tab that shows a session has its cookie: a
\* DELETE sent first may be served, or answered, last.
AdoptedHasCookie ==
  \A t \in Tab : wallet[t] # None /\ wire = {} /\ replies = {} =>
    cookie # None /\ cookie.session = wallet[t]

=============================================================================
