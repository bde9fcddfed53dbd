----------------------------- MODULE Broadcast -----------------------------
(***************************************************************************)
(* What a chat room promises, without the HashMap, its order and its       *)
(* counter: messages are offered to the members one after the other, each  *)
(* name at most once, while members come and go.  A message during which   *)
(* no name has come or gone is accepted, and then every name has had it;   *)
(* any other is rejected.  Only a message that was accepted removes        *)
(* members, and only names that have missed it.                            *)
(***************************************************************************)
CONSTANTS
  Name,
  Handle,
  Sender   \* each has at most one message under way

VARIABLES
  members,  \* the map from the names of the members to their handles
  phase,    \* sender -> "none", "open" or "accepted"
  offered,  \* sender -> the names and handles its message was offered to
  missed,   \* sender -> the names that could not be reached
  calm      \* the open messages during which no name has come or gone

vars == <<members, phase, offered, missed, calm>>

Init ==
  /\ members = [n \in {} |-> {}]
  /\ phase = [t \in Sender |-> "none"]
  /\ offered = [t \in Sender |-> {}]
  /\ missed = [t \in Sender |-> {}]
  /\ calm = {}

Here(n) == n \in DOMAIN members

\* A handle may be replaced without anybody coming or going.
Enter(n, h) ==
  /\ members' = [m \in DOMAIN members \cup {n} |-> IF m = n THEN h ELSE members[m]]
  /\ calm' = IF Here(n) THEN calm ELSE {}
  /\ UNCHANGED <<phase, offered, missed>>

Gone(n) ==
  /\ members' = [m \in DOMAIN members \ {n} |-> members[m]]
  /\ calm' = IF Here(n) THEN {} ELSE calm

Leave(n) == Gone(n) /\ UNCHANGED <<phase, offered, missed>>

Open(t) ==
  /\ phase[t] = "none"
  /\ phase' = [phase EXCEPT ![t] = "open"]
  /\ calm' = calm \cup {t}
  /\ UNCHANGED <<members, offered, missed>>

HadIt(t) == {o[1] : o \in offered[t]}

Offer(t) ==
  /\ phase[t] = "open"
  /\ \E n \in DOMAIN members \ HadIt(t) :
       /\ offered' = [offered EXCEPT ![t] = @ \cup {<<n, members[n]>>}]
       /\ missed' = missed \/ missed' = [missed EXCEPT ![t] = @ \cup {n}]
  /\ UNCHANGED <<members, phase, calm>>

Accept(t) ==
  /\ phase[t] = "open" /\ t \in calm /\ HadIt(t) = DOMAIN members
  /\ phase' = [phase EXCEPT ![t] = "accepted"]
  /\ calm' = calm \ {t}
  /\ UNCHANGED <<members, offered, missed>>

Ends(t) ==
  /\ phase' = [phase EXCEPT ![t] = "none"]
  /\ offered' = [offered EXCEPT ![t] = {}]
  /\ missed' = [missed EXCEPT ![t] = {}]
  /\ UNCHANGED <<members, calm>>

Reject(t) == phase[t] = "open" /\ t \notin calm /\ Ends(t)

Drop(t) ==
  /\ phase[t] = "accepted"
  /\ \E n \in missed[t] : Gone(n) /\ missed' = [missed EXCEPT ![t] = @ \ {n}]
  /\ UNCHANGED <<phase, offered>>

Finish(t) == phase[t] = "accepted" /\ missed[t] = {} /\ Ends(t)

Next ==
  \/ \E n \in Name : Leave(n) \/ \E h \in Handle : Enter(n, h)
  \/ \E t \in Sender :
       Open(t) \/ Offer(t) \/ Accept(t) \/ Reject(t) \/ Drop(t) \/ Finish(t)

Spec == Init /\ [][Next]_vars
=============================================================================
