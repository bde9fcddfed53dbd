------------------------------ MODULE ChatRoom ------------------------------
(***************************************************************************)
(* The server of the chats VS06 and VS07: the map from user names to the   *)
(* remote handles of clients, and the loop that sends a message to all.    *)
(* RMI serves every call in a thread of its own and nothing is locked; the *)
(* loop waits for one client after the other while other threads change    *)
(* the map.  A single put or remove takes effect at once.                  *)
(***************************************************************************)
EXTENDS Naturals, FiniteSets

CONSTANTS
  Name,    \* user names
  Handle,  \* the remote objects of clients
  Order,   \* the position of each name in the HashMap
  Thread   \* RMI threads that may run sendMessage

ASSUME OrderAssumption ==
  /\ Order \in [Name -> Nat \ {0}]
  /\ \A m, n \in Name : Order[m] = Order[n] => m = n

VARIABLES
  clients,   \* the map
  modCount,  \* HashMap.modCount: names added and removed so far
  sends      \* thread -> its run of sendMessage

roomVars == <<clients, modCount, sends>>

\* seen: the names visited so far, with the handle each had then.
Loop == [stage : {"none", "loop", "remove"}, mc : Nat, pos : Nat,
         seen : SUBSET (Name \X Handle), dead : SUBSET Name]
NoLoop == [stage |-> "none", mc |-> 0, pos |-> 0, seen |-> {}, dead |-> {}]

RoomTypeOK ==
  /\ DOMAIN clients \subseteq Name
  /\ \A n \in DOMAIN clients : clients[n] \in Handle
  /\ modCount \in Nat
  /\ sends \in [Thread -> Loop]

RoomInit ==
  /\ clients = [n \in {} |-> {}]
  /\ modCount = 0
  /\ sends = [t \in Thread |-> NoLoop]

Taken(n) == n \in DOMAIN clients

\* Mutant: adding a name is not counted.
PutUncounted(n, h) ==
  /\ clients' = [m \in DOMAIN clients \cup {n} |-> IF m = n THEN h ELSE clients[m]]
  /\ UNCHANGED modCount

\* HashMap.put: a name that is there gets the new handle, which is no change of
\* the structure.
Put(n, h) ==
  /\ clients' = [m \in DOMAIN clients \cup {n} |-> IF m = n THEN h ELSE clients[m]]
  /\ modCount' = IF Taken(n) THEN modCount ELSE modCount + 1

\* Mutant: the handle is set to null, the name stays.
RemoveHandle(n) ==
  /\ clients' = [m \in DOMAIN clients |-> IF m = n THEN "null" ELSE clients[m]]
  /\ UNCHANGED modCount

Remove(n) ==
  /\ clients' = [m \in DOMAIN clients \ {n} |-> clients[m]]
  /\ modCount' = IF Taken(n) THEN modCount + 1 ELSE modCount

SendBegins(t) ==
  /\ sends[t].stage = "none"
  /\ sends' = [sends EXCEPT ![t] = [NoLoop EXCEPT !.stage = "loop", !.mc = modCount]]

\* The names the loop has yet to come to.
Ahead(t) == {n \in DOMAIN clients : Order[n] > sends[t].pos}

\* Mutant: a name is noted whether or not its client could be reached.
NoteAll(dead, n, reached) == dead \cup {n}

\* The catch clause notes the name of a client that cannot be reached.
Note(dead, n, reached) == IF reached THEN dead ELSE dead \cup {n}

\* One turn of forEach: receiveMessage at one client.
Visit(t, alive) ==
  /\ sends[t].stage = "loop"
  /\ \E n \in Ahead(t) :
       /\ \A m \in Ahead(t) : Order[n] <= Order[m]
       /\ sends' = [sends EXCEPT ![t] =
            [sends[t] EXCEPT !.pos = Order[n],
                             !.seen = @ \cup {<<n, clients[n]>>},
                             !.dead = Note(@, n, clients[n] \in alive)]]
  /\ UNCHANGED <<clients, modCount>>

\* forEach compares modCount when it is through.
LoopDone(t) == sends[t].stage = "loop" /\ Ahead(t) = {}
Undisturbed(t) == modCount = sends[t].mc

\* ConcurrentModificationException: the call fails, nobody is removed.
SendFails(t) ==
  /\ LoopDone(t) /\ ~Undisturbed(t)
  /\ sends' = [sends EXCEPT ![t] = NoLoop]
  /\ UNCHANGED <<clients, modCount>>

CleanUp(t) ==
  /\ LoopDone(t) /\ Undisturbed(t)
  /\ sends' = [sends EXCEPT ![t].stage = "remove"]
  /\ UNCHANGED <<clients, modCount>>

\* The names noted are removed, one by one.
RemoveDead(t) ==
  /\ sends[t].stage = "remove"
  /\ \E n \in sends[t].dead :
       /\ Remove(n)
       /\ sends' = [sends EXCEPT ![t].dead = @ \ {n}]

SendReturns(t) ==
  /\ sends[t].stage = "remove" /\ sends[t].dead = {}
  /\ sends' = [sends EXCEPT ![t] = NoLoop]
  /\ UNCHANGED <<clients, modCount>>

-----------------------------------------------------------------------------
(* The room by itself: whatever its clients do.                            *)

RoomNext ==
  \/ \E n \in Name : (Remove(n) \/ \E h \in Handle : Put(n, h)) /\ UNCHANGED sends
  \/ \E t \in Thread :
       \/ SendBegins(t) /\ UNCHANGED <<clients, modCount>>
       \/ \E alive \in SUBSET Handle : Visit(t, alive)
       \/ CleanUp(t) \/ RemoveDead(t) \/ SendFails(t) \/ SendReturns(t)

RoomSpec == RoomInit /\ [][RoomNext]_roomVars

-----------------------------------------------------------------------------
(* The room as a broadcast.                                                *)

PhaseOf == [none |-> "none", loop |-> "open", remove |-> "accepted"]

Phases == [t \in Thread |-> PhaseOf[sends[t].stage]]
Offered == [t \in Thread |-> sends[t].seen]
Missed == [t \in Thread |-> sends[t].dead]
Calm == {t \in Thread : sends[t].stage = "loop" /\ Undisturbed(t)}

Room == INSTANCE Broadcast WITH Sender <- Thread, members <- clients,
  phase <- Phases, offered <- Offered, missed <- Missed, calm <- Calm

\* HashMap.forEach and its modCount keep the promise of a broadcast, whatever other
\* threads do to the map between two clients: a message is offered to a name at most
\* once even if the name goes and comes back, it is accepted exactly when no name has
\* come or gone since it began, with every name offered, and only then, and only
\* for names that missed it, is anybody removed.
KeepsPromise == Room!Spec
=============================================================================
