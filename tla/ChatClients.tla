---------------------------- MODULE ChatClients ----------------------------
(***************************************************************************)
(* The console chat VS06: client processes with a menu, and the chat room. *)
(* A client waits for each of its calls, so the RMI thread that serves it  *)
(* is named after it.  Subscribing again under a name that is in use       *)
(* replaces the handle.                                                    *)
(***************************************************************************)
EXTENDS ChatRoom

CONSTANTS
  Client,    \* client processes
  Empty,     \* the empty name: just Enter
  Typed,     \* the names each client's user types
  MaxCalls,  \* bound: subscriptions, unsubscriptions and messages of each client
  MaxKills   \* bound: client processes ended from outside

ASSUME ClientAssumption == Handle = Client /\ Thread = Client

ASSUME TypedAssumption == Empty \in Name /\ Typed \in [Client -> SUBSET Name]

ASSUME LimitAssumption == MaxCalls \in [Client -> Nat] /\ MaxKills \in Nat

VARIABLES
  at,        \* where a client's program is
  username,  \* ChatClient.username; Empty: not subscribed
  calls      \* calls made so far

vars == <<roomVars, at, username, calls>>

Alive == {c \in Client : at[c] \in {"menu", "sending"}}

TypeOK ==
  /\ RoomTypeOK
  /\ at \in [Client -> {"menu", "sending", "exited", "failed", "killed"}]
  /\ username \in [Client -> Name]
  /\ calls \in [Client -> Nat]

Init ==
  /\ RoomInit
  /\ at = [c \in Client |-> "menu"]
  /\ username = [c \in Client |-> Empty]
  /\ calls = [c \in Client |-> 0]

Chooses(c) ==
  /\ at[c] = "menu" /\ calls[c] < MaxCalls[c]
  /\ calls' = [calls EXCEPT ![c] = @ + 1]

Goes(c, where) == at' = [at EXCEPT ![c] = where]

Unsubscribed(c) == username[c] = Empty

\* Mutant: nobody is told "You are already subscribed".
Welcome(c) == TRUE

MaySubscribe(c) == Unsubscribed(c)

Subscribe(c) ==
  /\ Chooses(c) /\ MaySubscribe(c)
  /\ \E n \in Typed[c] :
       Put(n, c) /\ username' = [username EXCEPT ![c] = n]
  /\ UNCHANGED <<sends, at>>

\* The name is kept if the server does not know it.
Withdraw(c) ==
  /\ Remove(username[c])
  /\ username' = [username EXCEPT ![c] = IF Taken(@) THEN Empty ELSE @]
  /\ UNCHANGED sends

Unsubscribe(c) ==
  /\ Chooses(c) /\ ~Unsubscribed(c)
  /\ Withdraw(c)
  /\ UNCHANGED at

Exit(c) ==
  /\ at[c] = "menu"
  /\ IF Unsubscribed(c) THEN UNCHANGED <<roomVars, username>> ELSE Withdraw(c)
  /\ Goes(c, "exited")
  /\ UNCHANGED calls

Send(c) ==
  /\ Chooses(c) /\ ~Unsubscribed(c)
  /\ SendBegins(c) /\ Goes(c, "sending")
  /\ UNCHANGED <<clients, modCount, username>>

\* The server's part of a message, whether or not its sender still lives.
Serve(c) ==
  /\ Visit(c, Alive) \/ CleanUp(c) \/ RemoveDead(c)
  /\ UNCHANGED <<at, username, calls>>

\* The client catches whatever the call throws, and exits.
Return(c) ==
  /\ \/ SendReturns(c) /\ at' = [at EXCEPT ![c] = IF @ = "sending" THEN "menu" ELSE @]
     \/ SendFails(c) /\ at' = [at EXCEPT ![c] = IF @ = "sending" THEN "failed" ELSE @]
  /\ UNCHANGED <<username, calls>>

Kill(c) ==
  /\ c \in Alive
  /\ Cardinality({d \in Client : at[d] = "killed"}) < MaxKills
  /\ Goes(c, "killed")
  /\ UNCHANGED <<roomVars, username, calls>>

Next ==
  \E c \in Client :
    \/ Subscribe(c) \/ Unsubscribe(c) \/ Exit(c) \/ Send(c)
    \/ Serve(c) \/ Return(c) \/ Kill(c)

Spec == Init /\ [][Next]_vars

-----------------------------------------------------------------------------
(* Properties.                                                             *)

\* A message whose call returns normally was offered to every name subscribed
\* when the loop ended: the one comparison of modCount after the loop of
\* ChatProxyImpl is enough, wherever in the loop other threads changed the map.
ReturnMeansOffered ==
  \A t \in Client : LoopDone(t) /\ Undisturbed(t) =>
    DOMAIN clients = {s[1] : s \in sends[t].seen}

\* Names that nobody else types.
Sole(c) == \A d \in Client \ {c} : Typed[c] \cap Typed[d] = {}

\* A client that takes itself for subscribed is in the map under its name, as long
\* as only it types that name -- while other clients die, take each other's names
\* and remove one another.
SubscriptionStays ==
  \A c \in Alive : Sole(c) /\ ~Unsubscribed(c) =>
    Taken(username[c]) /\ clients[username[c]] = c

\* A message that was not disturbed reaches no client twice, unless somebody has
\* subscribed with just Enter and is free to subscribe once more.
OncePerMessage ==
  \A t \in Client : sends[t].stage = "loop" /\ Undisturbed(t) /\ ~Taken(Empty) =>
    \A s, u \in sends[t].seen : s[2] = u[2] => s = u

=============================================================================
