---------------------------- MODULE StampRegister ----------------------------
(***************************************************************************)
(* What ownership resolution promises, without records, offers or          *)
(* signatures: every stamp has one owner, an owner may reserve the stamp   *)
(* for one buyer, and a reserved stamp can only be handed to that buyer.   *)
(***************************************************************************)
EXTENDS Naturals

CONSTANTS Issued, OriginalRecipient, Address, None

VARIABLES
  owner,        \* owner[c]: the one owner of stamp c
  handovers,    \* handovers[c]: how often c has changed hands
  reservedFor   \* reservedFor[c]: the buyer c is reserved for, or None

registerVars == <<owner, handovers, reservedFor>>

RegisterInit ==
  /\ owner = OriginalRecipient
  /\ handovers = [c \in Issued |-> 0]
  /\ reservedFor = [c \in Issued |-> None]

Reserve(c, buyer) ==
  /\ reservedFor[c] = None
  /\ reservedFor' = [reservedFor EXCEPT ![c] = buyer]
  /\ UNCHANGED <<owner, handovers>>

HandOver(c, to) ==
  /\ reservedFor[c] \in {None, to}
  /\ owner' = [owner EXCEPT ![c] = to]
  /\ handovers' = [handovers EXCEPT ![c] = @ + 1]
  /\ reservedFor' = [reservedFor EXCEPT ![c] = None]

RegisterNext ==
  \E c \in Issued, a \in Address : Reserve(c, a) \/ HandOver(c, a)

RegisterSpec == RegisterInit /\ [][RegisterNext]_registerVars
=============================================================================
