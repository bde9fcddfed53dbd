------------------------- MODULE ChatClientsProofs -------------------------
(***************************************************************************)
(* Theorems about ChatRoom and ChatClients, for every set of clients and   *)
(* names, every order of the HashMap and every bound: the room keeps the   *)
(* promise of a broadcast, a message that returns was offered to           *)
(* everybody, nobody gets it twice, and subscriptions stay.                *)
(***************************************************************************)
EXTENDS ChatClients, TLAPS

-----------------------------------------------------------------------------
(* The room by itself.  What is proved here of RoomSpec rests on nothing   *)
(* but ChatRoom and OrderAssumption, and holds for all its clients.        *)

Looping(t) == sends[t].stage = "loop"

\* As long as nobody adds or removes a name, a loop has seen exactly the names up
\* to its position; afterwards modCount differs for good.
LoopInv(t) ==
  Looping(t) =>
    /\ sends[t].mc <= modCount
    /\ Undisturbed(t) =>
         {s[1] : s \in sends[t].seen} = {n \in DOMAIN clients : Order[n] <= sends[t].pos}

\* The names a loop has offered its message to are behind it, whatever has become
\* of them: it never comes to a name a second time.  Between messages there is none.
OffersInv(t) ==
  /\ Looping(t) => \A s \in sends[t].seen : Order[s[1]] <= sends[t].pos
  /\ sends[t].stage = "none" => sends[t].seen = {} /\ sends[t].dead = {}

RoomInv == RoomTypeOK /\ \A t \in Thread : LoopInv(t) /\ OffersInv(t)

LEMMA PutMap ==
  ASSUME NEW n, NEW h, Put(n, h)
  PROVE  /\ DOMAIN clients' = DOMAIN clients \cup {n}
         /\ clients'[n] = h
         /\ \A m \in DOMAIN clients \ {n} : clients'[m] = clients[m]
BY DEF Put

LEMMA RemoveMap ==
  ASSUME NEW n, Remove(n)
  PROVE  /\ DOMAIN clients' = DOMAIN clients \ {n}
         /\ \A m \in DOMAIN clients' : clients'[m] = clients[m]
BY DEF Remove

\* What an action does to the map: nothing, one put or one remove.
MapStep ==
  \/ UNCHANGED <<clients, modCount>>
  \/ \E n \in Name, h \in Handle : Put(n, h)
  \/ \E n \in Name : Remove(n)

LEMMA MapType ==
  ASSUME RoomTypeOK, sends' \in [Thread -> Loop], MapStep
  PROVE  RoomTypeOK'
<1> USE DEF RoomTypeOK
<1>1. CASE UNCHANGED <<clients, modCount>>
  BY <1>1
<1>2. ASSUME NEW n \in Name, NEW h \in Handle, Put(n, h)
      PROVE  RoomTypeOK'
  <2>1. modCount' \in Nat
    BY <1>2 DEF Put
  <2>2. DOMAIN clients' \subseteq Name /\ \A m \in DOMAIN clients' : clients'[m] \in Handle
    <3>1. /\ DOMAIN clients' = DOMAIN clients \cup {n}
          /\ clients'[n] = h
          /\ \A m \in DOMAIN clients \ {n} : clients'[m] = clients[m]
      BY <1>2, PutMap
    <3> QED BY <3>1
  <2> QED BY <2>1, <2>2
<1>3. ASSUME NEW n \in Name, Remove(n)
      PROVE  RoomTypeOK'
  <2>1. modCount' \in Nat
    BY <1>3 DEF Remove
  <2>2. DOMAIN clients' \subseteq Name /\ \A m \in DOMAIN clients' : clients'[m] \in Handle
    BY <1>3, RemoveMap
  <2> QED BY <2>1, <2>2
<1> QED BY <1>1, <1>2, <1>3 DEF MapStep

\* The count tells whether the names have changed.
LEMMA CountedNames ==
  ASSUME RoomTypeOK, MapStep
  PROVE  /\ modCount' >= modCount
         /\ modCount' = modCount => DOMAIN clients' = DOMAIN clients
<1> USE DEF RoomTypeOK
<1>1. CASE UNCHANGED <<clients, modCount>>
  BY <1>1
<1>2. ASSUME NEW n \in Name, NEW h \in Handle, Put(n, h)
      PROVE  modCount' >= modCount /\ (modCount' = modCount => DOMAIN clients' = DOMAIN clients)
  BY <1>2, PutMap DEF Put, Taken
<1>3. ASSUME NEW n \in Name, Remove(n)
      PROVE  modCount' >= modCount /\ (modCount' = modCount => DOMAIN clients' = DOMAIN clients)
  BY <1>3, RemoveMap DEF Remove, Taken
<1> QED BY <1>1, <1>2, <1>3 DEF MapStep

\* The next name is new: it joins those up to the position, and no other does.
LEMMA NextName ==
  ASSUME NEW D \in SUBSET Name, NEW pos \in Nat, NEW n \in D, Order[n] > pos,
         \A m \in D : Order[m] > pos => Order[n] <= Order[m]
  PROVE  {m \in D : Order[m] <= Order[n]} = {m \in D : Order[m] <= pos} \cup {n}
<1>1. \A m \in D : Order[m] \in Nat /\ (Order[m] = Order[n] => m = n)
  BY OrderAssumption
<1> QED BY <1>1

LEMMA NoLoopType == NoLoop \in Loop
BY DEF NoLoop, Loop

\* Nobody's run of sendMessage but that of t moves.
Only(t) == \A u \in Thread \ {t} : sends'[u] = sends[u]

LEMMA VisitRun ==
  ASSUME RoomTypeOK, NEW t \in Thread, NEW alive \in SUBSET Handle, Visit(t, alive)
  PROVE  \E n \in Ahead(t) :
           /\ \A m \in Ahead(t) : Order[n] <= Order[m]
           /\ sends'[t].stage = "loop" /\ sends'[t].mc = sends[t].mc /\ sends'[t].pos = Order[n]
           /\ sends'[t].seen = sends[t].seen \cup {<<n, clients[n]>>}
           /\ sends'[t].dead \in {sends[t].dead, sends[t].dead \cup {n}}
           /\ Only(t) /\ sends' \in [Thread -> Loop]
<1>1. sends \in [Thread -> Loop] /\ sends[t] \in Loop /\ sends[t].stage = "loop"
  BY DEF RoomTypeOK, Visit
<1>2. PICK n \in Ahead(t) :
        /\ \A m \in Ahead(t) : Order[n] <= Order[m]
        /\ sends' = [sends EXCEPT ![t] =
             [sends[t] EXCEPT !.pos = Order[n],
                              !.seen = @ \cup {<<n, clients[n]>>},
                              !.dead = Note(@, n, clients[n] \in alive)]]
  BY DEF Visit
<1> DEFINE r == [sends[t] EXCEPT !.pos = Order[n],
                                 !.seen = @ \cup {<<n, clients[n]>>},
                                 !.dead = Note(@, n, clients[n] \in alive)]
<1>3. /\ r.stage = "loop" /\ r.mc = sends[t].mc /\ r.pos = Order[n]
      /\ r.seen = sends[t].seen \cup {<<n, clients[n]>>}
      /\ r.dead \in {sends[t].dead, sends[t].dead \cup {n}}
  BY <1>1 DEF Loop, Note
<1>4. r \in Loop
  <2>1. n \in Name /\ clients[n] \in Handle /\ Order[n] \in Nat
    BY OrderAssumption DEF Ahead, RoomTypeOK
  <2>2. sends[t].seen \cup {<<n, clients[n]>>} \in SUBSET (Name \X Handle)
    BY <1>1, <2>1 DEF Loop
  <2>3. Note(sends[t].dead, n, clients[n] \in alive) \in SUBSET Name
    BY <1>1, <2>1 DEF Note, Loop
  <2> QED BY <1>1, <2>1, <2>2, <2>3 DEF Loop
<1>5. sends' = [sends EXCEPT ![t] = r]
  BY <1>2
<1> HIDE DEF r
<1>6. sends'[t] = r /\ Only(t) /\ sends' \in [Thread -> Loop]
  BY <1>1, <1>4, <1>5 DEF Only
<1> QED BY <1>2, <1>3, <1>6

\* What a step may do to the run of t.
LEMMA RunCases ==
  ASSUME RoomTypeOK, [RoomNext]_roomVars, NEW t \in Thread
  PROVE  \/ sends'[t] = sends[t]
         \/ /\ sends'[t] = [NoLoop EXCEPT !.stage = "loop", !.mc = modCount]
            /\ UNCHANGED <<clients, modCount>>
         \/ \E alive \in SUBSET Handle : Visit(t, alive)
         \/ sends'[t] = NoLoop
         \/ sends'[t].stage = "remove"
<1>1. sends \in [Thread -> Loop] /\ sends[t] \in Loop
  BY DEF RoomTypeOK
<1>2. CASE UNCHANGED sends
  BY <1>2
<1>3. ASSUME NEW u \in Thread, u # t,
             \/ SendBegins(u) \/ CleanUp(u) \/ RemoveDead(u) \/ SendFails(u) \/ SendReturns(u)
             \/ \E alive \in SUBSET Handle : Visit(u, alive)
      PROVE  sends'[t] = sends[t]
  <2>1. \E r : sends' = [sends EXCEPT ![u] = r]
    BY <1>3 DEF SendBegins, Visit, CleanUp, RemoveDead, SendFails, SendReturns
  <2> QED BY <1>1, <1>3, <2>1
<1>4. ASSUME SendBegins(t)
      PROVE  sends'[t] = [NoLoop EXCEPT !.stage = "loop", !.mc = modCount]
  BY <1>1, <1>4 DEF SendBegins
<1>5. CASE SendFails(t) \/ SendReturns(t)
  <2>1. sends' = [sends EXCEPT ![t] = NoLoop]
    BY <1>5 DEF SendFails, SendReturns
  <2> QED BY <1>1, <2>1
<1>6. CASE CleanUp(t)
  BY <1>1, <1>6 DEF CleanUp, Loop
<1>7. CASE RemoveDead(t)
  <2>1. PICK n : sends' = [sends EXCEPT ![t].dead = @ \ {n}]
    BY <1>7 DEF RemoveDead
  <2>2. sends[t].stage = "remove"
    BY <1>7 DEF RemoveDead
  <2> QED BY <1>1, <2>1, <2>2 DEF Loop
<1> QED BY <1>2, <1>3, <1>4, <1>5, <1>6, <1>7 DEF RoomNext, roomVars

LEMMA RoomOnMap ==
  ASSUME RoomTypeOK, [RoomNext]_roomVars
  PROVE  MapStep
<1>1. ASSUME NEW t \in Thread, RemoveDead(t)
      PROVE  MapStep
  <2>1. PICK n \in sends[t].dead : Remove(n)
    BY <1>1 DEF RemoveDead
  <2>2. n \in Name
    BY DEF RoomTypeOK, Loop
  <2> QED BY <2>1, <2>2 DEF MapStep
<1>2. ASSUME NEW t \in Thread,
             \/ SendBegins(t) /\ UNCHANGED <<clients, modCount>>
             \/ \E alive \in SUBSET Handle : Visit(t, alive)
             \/ CleanUp(t) \/ SendFails(t) \/ SendReturns(t)
      PROVE  MapStep
  BY <1>2 DEF Visit, CleanUp, SendFails, SendReturns, MapStep
<1>3. CASE UNCHANGED roomVars
  BY <1>3 DEF roomVars, MapStep
<1> QED BY <1>1, <1>2, <1>3 DEF RoomNext, MapStep

LEMMA RoomTypeStep ==
  ASSUME RoomTypeOK, [RoomNext]_roomVars
  PROVE  RoomTypeOK'
<1> SUFFICES sends' \in [Thread -> Loop]
  BY RoomOnMap, MapType
<1>1. sends \in [Thread -> Loop] /\ modCount \in Nat
  BY DEF RoomTypeOK
<1>2. ASSUME NEW t \in Thread, SendBegins(t)
      PROVE  sends' \in [Thread -> Loop]
  BY <1>1, <1>2 DEF SendBegins, NoLoop, Loop
<1>3. ASSUME NEW t \in Thread, NEW alive \in SUBSET Handle, Visit(t, alive)
      PROVE  sends' \in [Thread -> Loop]
  BY <1>3, VisitRun
<1>4. ASSUME NEW t \in Thread, CleanUp(t)
      PROVE  sends' \in [Thread -> Loop]
  BY <1>1, <1>4 DEF CleanUp, Loop
<1>5. ASSUME NEW t \in Thread, RemoveDead(t)
      PROVE  sends' \in [Thread -> Loop]
  <2>1. PICK n : sends' = [sends EXCEPT ![t].dead = @ \ {n}]
    BY <1>5 DEF RemoveDead
  <2> QED BY <1>1, <2>1 DEF Loop
<1>6. ASSUME NEW t \in Thread, SendFails(t) \/ SendReturns(t)
      PROVE  sends' \in [Thread -> Loop]
  BY <1>1, <1>6, NoLoopType DEF SendFails, SendReturns
<1> QED BY <1>1, <1>2, <1>3, <1>4, <1>5, <1>6 DEF RoomNext, roomVars

LEMMA LoopStep ==
  ASSUME RoomInv, [RoomNext]_roomVars, NEW t \in Thread
  PROVE  LoopInv(t)'
<1>1. RoomTypeOK /\ sends[t] \in Loop /\ MapStep /\ LoopInv(t)
  BY RoomOnMap DEF RoomInv, RoomTypeOK
<1>2. modCount \in Nat /\ modCount' \in Nat /\ sends[t].mc \in Nat /\ DOMAIN clients \in SUBSET Name
  BY <1>1, RoomTypeStep DEF RoomTypeOK, Loop
<1>3. modCount' >= modCount /\ (modCount' = modCount => DOMAIN clients' = DOMAIN clients)
  BY <1>1, CountedNames
<1>4. CASE sends'[t] = sends[t]
  BY <1>1, <1>2, <1>3, <1>4 DEF LoopInv, Looping, Undisturbed
<1>5. CASE sends'[t] = NoLoop \/ sends'[t].stage = "remove"
  BY <1>5 DEF LoopInv, Looping, NoLoop
<1>6. CASE /\ sends'[t] = [NoLoop EXCEPT !.stage = "loop", !.mc = modCount]
           /\ UNCHANGED <<clients, modCount>>
  <2>1. sends'[t].mc = modCount /\ sends'[t].pos = 0 /\ sends'[t].seen = {}
    BY <1>6 DEF NoLoop
  <2>2. \A n \in DOMAIN clients : ~(Order[n] <= 0)
    BY <1>2, OrderAssumption
  <2> QED BY <1>2, <1>6, <2>1, <2>2 DEF LoopInv, Undisturbed
<1>7. ASSUME NEW alive \in SUBSET Handle, Visit(t, alive)
      PROVE  LoopInv(t)'
  <2>1. PICK n \in Ahead(t) :
          /\ \A m \in Ahead(t) : Order[n] <= Order[m]
          /\ sends'[t].mc = sends[t].mc
          /\ sends'[t].pos = Order[n]
          /\ sends'[t].seen = sends[t].seen \cup {<<n, clients[n]>>}
    BY <1>1, <1>7, VisitRun
  <2>2. Looping(t) /\ UNCHANGED <<clients, modCount>>
    BY <1>7 DEF Visit, Looping
  <2>3. n \in DOMAIN clients /\ Order[n] > sends[t].pos
        /\ \A m \in DOMAIN clients : Order[m] > sends[t].pos => Order[n] <= Order[m]
    BY <2>1 DEF Ahead
  <2>4. {m \in DOMAIN clients : Order[m] <= Order[n]}
          = {m \in DOMAIN clients : Order[m] <= sends[t].pos} \cup {n}
    <3>1. sends[t].pos \in Nat
      BY <1>1 DEF Loop
    <3> QED BY <1>2, <2>3, <3>1, NextName
  <2>5. {s[1] : s \in sends'[t].seen} = {s[1] : s \in sends[t].seen} \cup {n}
    <3> DEFINE p == <<n, clients[n]>>
    <3>1. p[1] = n
      OBVIOUS
    <3> HIDE DEF p
    <3>2. {s[1] : s \in sends[t].seen \cup {p}} = {s[1] : s \in sends[t].seen} \cup {p[1]}
      OBVIOUS
    <3>3. sends'[t].seen = sends[t].seen \cup {p}
      BY <2>1 DEF p
    <3> QED BY <3>1, <3>2, <3>3
  <2> QED BY <1>1, <2>1, <2>2, <2>4, <2>5 DEF LoopInv, Undisturbed, Looping
<1> QED BY <1>1, <1>4, <1>5, <1>6, <1>7, RunCases

LEMMA OffersStep ==
  ASSUME RoomInv, [RoomNext]_roomVars, NEW t \in Thread
  PROVE  OffersInv(t)'
<1>1. RoomTypeOK /\ sends[t] \in Loop /\ OffersInv(t)
  BY DEF RoomInv, RoomTypeOK
<1>2. CASE sends'[t] = sends[t]
  BY <1>1, <1>2 DEF OffersInv, Looping
<1>3. CASE sends'[t].stage = "remove"
  BY <1>3 DEF OffersInv, Looping
<1>4. CASE sends'[t] = NoLoop
  BY <1>4 DEF NoLoop, OffersInv, Looping
<1>6. CASE sends'[t] = [NoLoop EXCEPT !.stage = "loop", !.mc = modCount]
  <2>1. sends'[t].stage = "loop" /\ sends'[t].seen = {}
    BY <1>6 DEF NoLoop
  <2> QED BY <2>1 DEF OffersInv
<1>5. ASSUME NEW alive \in SUBSET Handle, Visit(t, alive)
      PROVE  OffersInv(t)'
  <2>1. PICK n \in Ahead(t) :
              /\ sends'[t].stage = "loop" /\ sends'[t].pos = Order[n]
              /\ sends'[t].seen = sends[t].seen \cup {<<n, clients[n]>>}
    BY <1>1, <1>5, VisitRun
  <2>2. \A s \in sends[t].seen : s[1] \in Name /\ Order[s[1]] <= sends[t].pos
    BY <1>1, <1>5 DEF OffersInv, Looping, Visit, Loop
  <2>3. n \in Name /\ Order[n] > sends[t].pos
    BY <1>1 DEF Ahead, RoomTypeOK
  <2>4. sends[t].pos \in Nat /\ \A m \in Name : Order[m] \in Nat
    BY <1>1, OrderAssumption DEF Loop
  <2>5. \A s \in sends'[t].seen : Order[s[1]] <= Order[n]
    BY <2>1, <2>2, <2>3, <2>4
  <2> QED BY <2>1, <2>5 DEF OffersInv, Looping
<1> QED BY <1>1, <1>2, <1>3, <1>4, <1>5, <1>6, RunCases

LEMMA RoomInvariant == RoomSpec => []RoomInv
<1>1. RoomInit => RoomInv
  <2> SUFFICES ASSUME RoomInit PROVE RoomInv
    OBVIOUS
  <2>1. RoomTypeOK
    BY NoLoopType DEF RoomInit, RoomTypeOK
  <2> QED BY <2>1 DEF RoomInit, NoLoop, RoomInv, LoopInv, OffersInv, Looping
<1>2. RoomInv /\ [RoomNext]_roomVars => RoomInv'
  <2> SUFFICES ASSUME RoomInv, [RoomNext]_roomVars PROVE RoomInv'
    OBVIOUS
  <2>1. RoomTypeOK'
    BY RoomTypeStep DEF RoomInv
  <2> QED BY <2>1, LoopStep, OffersStep DEF RoomInv
<1> QED BY <1>1, <1>2, PTL DEF RoomSpec

-----------------------------------------------------------------------------
(* The room keeps the promise of a broadcast.                              *)

LEMMA RunStep ==
  ASSUME NEW t \in Thread, Only(t)
  PROVE  /\ Phases' = [Phases EXCEPT ![t] = PhaseOf[sends'[t].stage]]
         /\ Offered' = [Offered EXCEPT ![t] = sends'[t].seen]
         /\ Missed' = [Missed EXCEPT ![t] = sends'[t].dead]
         /\ modCount' = modCount =>
              Calm' = IF sends'[t].stage = "loop" /\ sends'[t].mc = modCount
                      THEN Calm \cup {t} ELSE Calm \ {t}
<1>1. Phases' = [Phases EXCEPT ![t] = PhaseOf[sends'[t].stage]]
  BY DEF Only, Phases
<1>2. Offered' = [Offered EXCEPT ![t] = sends'[t].seen]
  BY DEF Only, Offered
<1>3. Missed' = [Missed EXCEPT ![t] = sends'[t].dead]
  BY DEF Only, Missed
<1>4. modCount' = modCount =>
        Calm' = IF sends'[t].stage = "loop" /\ sends'[t].mc = modCount
                THEN Calm \cup {t} ELSE Calm \ {t}
  BY DEF Only, Calm, Undisturbed
<1> QED BY <1>1, <1>2, <1>3, <1>4

\* Only a name that comes or goes disturbs the messages that are under way.
LEMMA Disturbed ==
  ASSUME RoomInv, modCount' \in {modCount, modCount + 1},
         \A t \in Thread : sends'[t].stage = sends[t].stage /\ sends'[t].mc = sends[t].mc
  PROVE  Calm' = IF modCount' = modCount THEN Calm ELSE {}
<1>1. \A t \in Thread : sends[t].mc \in Nat /\ (sends[t].stage = "loop" => sends[t].mc <= modCount)
  BY DEF RoomInv, RoomTypeOK, Loop, LoopInv, Looping
<1>2. modCount \in Nat
  BY DEF RoomInv, RoomTypeOK
<1> QED BY <1>1, <1>2 DEF Calm, Undisturbed

LEMMA MapMoves ==
  ASSUME RoomInv, UNCHANGED sends, NEW n \in Name,
         Remove(n) \/ \E h \in Handle : Put(n, h)
  PROVE  Room!Next
<1>1. UNCHANGED <<Phases, Offered, Missed>>
  BY DEF Phases, Offered, Missed
<1>2. modCount \in Nat
  BY DEF RoomInv, RoomTypeOK
<1>3. CASE Remove(n)
  <2>1. Calm' = IF Taken(n) THEN {} ELSE Calm
    BY <1>2, <1>3, Disturbed DEF Remove
  <2>2. Room!Leave(n)
    BY <1>1, <1>3, <2>1 DEF Room!Leave, Room!Gone, Room!Here, Remove, Taken
  <2> QED BY <2>2 DEF Room!Next
<1>4. ASSUME NEW h \in Handle, Put(n, h)
      PROVE  Room!Next
  <2>1. Calm' = IF Taken(n) THEN Calm ELSE {}
    BY <1>2, <1>4, Disturbed DEF Put
  <2>2. Room!Enter(n, h)
    BY <1>1, <1>4, <2>1 DEF Room!Enter, Room!Here, Put, Taken
  <2> QED BY <2>2 DEF Room!Next
<1> QED BY <1>3, <1>4

LEMMA Begins ==
  ASSUME RoomInv, NEW t \in Thread, SendBegins(t), UNCHANGED <<clients, modCount>>
  PROVE  Room!Open(t)
<1>1. /\ sends'[t].stage = "loop" /\ sends'[t].mc = modCount
      /\ sends'[t].seen = {} /\ sends'[t].dead = {}
      /\ Only(t)
  BY DEF SendBegins, NoLoop, RoomInv, RoomTypeOK, Only
<1>2. /\ Phases' = [Phases EXCEPT ![t] = PhaseOf["loop"]]
      /\ Offered' = [Offered EXCEPT ![t] = {}]
      /\ Missed' = [Missed EXCEPT ![t] = {}]
      /\ Calm' = Calm \cup {t}
  BY <1>1, RunStep
<1>3. sends[t].stage = "none" /\ sends[t].seen = {} /\ sends[t].dead = {}
  BY DEF SendBegins, RoomInv, OffersInv
<1>4. Offered' = Offered /\ Missed' = Missed
  BY <1>2, <1>3 DEF Offered, Missed
<1>5. Phases[t] = "none" /\ PhaseOf["loop"] = "open"
  BY <1>3 DEF Phases, PhaseOf
<1> QED BY <1>2, <1>4, <1>5 DEF Room!Open

LEMMA Visits ==
  ASSUME RoomInv, NEW t \in Thread, NEW alive \in SUBSET Handle, Visit(t, alive)
  PROVE  Room!Offer(t)
<1>1. RoomTypeOK /\ sends[t] \in Loop /\ sends[t].stage = "loop"
  BY DEF RoomInv, RoomTypeOK, Visit
<1>2. PICK n \in Ahead(t) :
           /\ sends'[t].stage = "loop" /\ sends'[t].mc = sends[t].mc
           /\ sends'[t].seen = sends[t].seen \cup {<<n, clients[n]>>}
           /\ sends'[t].dead \in {sends[t].dead, sends[t].dead \cup {n}}
           /\ Only(t)
  BY <1>1, VisitRun
<1>3. UNCHANGED <<clients, modCount>>
  BY DEF Visit
<1>4. /\ Phases' = [Phases EXCEPT ![t] = PhaseOf["loop"]]
      /\ Offered' = [Offered EXCEPT ![t] = sends[t].seen \cup {<<n, clients[n]>>}]
      /\ Missed' = [Missed EXCEPT ![t] = sends'[t].dead]
      /\ Calm' = IF sends[t].mc = modCount THEN Calm \cup {t} ELSE Calm \ {t}
  BY <1>2, <1>3, RunStep
<1>5. Phases' = Phases /\ Phases[t] = "open"
  BY <1>1, <1>4 DEF Phases, PhaseOf
<1>6. t \in Calm <=> sends[t].mc = modCount
  BY <1>1 DEF Calm, Undisturbed
<1>7. Calm' = Calm
  BY <1>4, <1>6
<1>8. Offered[t] = sends[t].seen /\ Missed[t] = sends[t].dead
  BY DEF Offered, Missed
<1>9. Missed' = Missed \/ Missed' = [Missed EXCEPT ![t] = @ \cup {n}]
  <2>1. CASE sends'[t].dead = sends[t].dead
    BY <1>4, <2>1 DEF Missed
  <2>2. CASE sends'[t].dead = sends[t].dead \cup {n}
    BY <1>4, <1>8, <2>2
  <2> QED BY <1>2, <2>1, <2>2
<1>10. Offered' = [Offered EXCEPT ![t] = @ \cup {<<n, clients[n]>>}]
  BY <1>4, <1>8
<1>11. n \in DOMAIN clients \ Room!HadIt(t)
  <2>1. n \in DOMAIN clients /\ n \in Name /\ Order[n] \in Nat /\ Order[n] > sends[t].pos
    BY <1>1, OrderAssumption DEF Ahead, RoomTypeOK
  <2>2. sends[t].pos \in Nat
    BY <1>1 DEF Loop
  <2>3. \A s \in sends[t].seen : Order[s[1]] <= sends[t].pos
    BY <1>1 DEF RoomInv, OffersInv, Looping
  <2>4. \A s \in sends[t].seen : s[1] # n
    BY <2>1, <2>2, <2>3
  <2> QED BY <1>8, <2>1, <2>4 DEF Room!HadIt
<1> QED BY <1>3, <1>5, <1>7, <1>9, <1>10, <1>11 DEF Room!Offer

LEMMA CleansUp ==
  ASSUME RoomInv, NEW t \in Thread, CleanUp(t)
  PROVE  Room!Accept(t)
<1>1. RoomTypeOK /\ sends[t] \in Loop /\ Looping(t) /\ Undisturbed(t) /\ Ahead(t) = {}
  BY DEF RoomInv, RoomTypeOK, CleanUp, LoopDone, Looping
<1>2. /\ sends'[t].stage = "remove"
      /\ sends'[t].seen = sends[t].seen /\ sends'[t].dead = sends[t].dead
      /\ Only(t) /\ UNCHANGED <<clients, modCount>>
  BY <1>1 DEF CleanUp, Only, RoomTypeOK, Loop
<1>3. /\ Phases' = [Phases EXCEPT ![t] = PhaseOf["remove"]]
      /\ Offered' = [Offered EXCEPT ![t] = sends[t].seen]
      /\ Missed' = [Missed EXCEPT ![t] = sends[t].dead]
      /\ Calm' = Calm \ {t}
  BY <1>2, RunStep
<1>4. Offered' = Offered /\ Missed' = Missed /\ Offered[t] = sends[t].seen
  BY <1>3 DEF Offered, Missed
<1>5. Phases[t] = "open" /\ PhaseOf["remove"] = "accepted" /\ t \in Calm
  BY <1>1 DEF Phases, PhaseOf, Calm, Looping
<1>6. Room!HadIt(t) = DOMAIN clients
  <2>1. {s[1] : s \in sends[t].seen} = {n \in DOMAIN clients : Order[n] <= sends[t].pos}
    BY <1>1 DEF RoomInv, LoopInv
  <2>2. \A n \in DOMAIN clients :
          Order[n] \in Nat /\ sends[t].pos \in Nat /\ ~(Order[n] > sends[t].pos)
    BY <1>1, OrderAssumption DEF RoomTypeOK, Loop, Ahead
  <2>3. \A n \in DOMAIN clients : Order[n] <= sends[t].pos
    BY <2>2
  <2> QED BY <1>4, <2>1, <2>3 DEF Room!HadIt
<1> QED BY <1>2, <1>3, <1>4, <1>5, <1>6 DEF Room!Accept

LEMMA Returns ==
  ASSUME RoomInv, NEW t \in Thread, SendFails(t) \/ SendReturns(t)
  PROVE  Room!Next
<1>1. /\ sends'[t].stage = "none" /\ sends'[t].seen = {} /\ sends'[t].dead = {}
      /\ Only(t) /\ UNCHANGED <<clients, modCount>>
  BY DEF RoomInv, RoomTypeOK, SendFails, SendReturns, NoLoop, Only
<1>2. /\ Phases' = [Phases EXCEPT ![t] = PhaseOf["none"]]
      /\ Offered' = [Offered EXCEPT ![t] = {}]
      /\ Missed' = [Missed EXCEPT ![t] = {}]
      /\ Calm' = Calm \ {t}
  BY <1>1, RunStep
<1>3. t \notin Calm
  BY DEF SendFails, SendReturns, LoopDone, Calm
<1>4. Calm' = Calm /\ PhaseOf["none"] = "none"
  BY <1>2, <1>3 DEF PhaseOf
<1>5. Room!Ends(t)
  BY <1>1, <1>2, <1>4 DEF Room!Ends
<1>6. ASSUME SendFails(t) PROVE Room!Reject(t)
  BY <1>3, <1>5, <1>6 DEF SendFails, LoopDone, Phases, PhaseOf, Room!Reject
<1>7. ASSUME SendReturns(t) PROVE Room!Finish(t)
  BY <1>5, <1>7 DEF SendReturns, Phases, PhaseOf, Missed, Room!Finish
<1> QED BY <1>6, <1>7 DEF Room!Next

LEMMA Drops ==
  ASSUME RoomInv, NEW t \in Thread, RemoveDead(t)
  PROVE  Room!Drop(t)
<1>1. RoomTypeOK /\ sends[t] \in Loop /\ sends[t].stage = "remove" /\ modCount \in Nat
  BY DEF RoomInv, RoomTypeOK, RemoveDead
<1>2. PICK n \in sends[t].dead : Remove(n) /\ sends' = [sends EXCEPT ![t].dead = @ \ {n}]
  BY DEF RemoveDead
<1>3. /\ sends'[t].stage = "remove" /\ sends'[t].mc = sends[t].mc
      /\ sends'[t].seen = sends[t].seen /\ sends'[t].dead = sends[t].dead \ {n}
      /\ Only(t)
  BY <1>1, <1>2 DEF Only, RoomTypeOK, Loop
<1>4. /\ Phases' = [Phases EXCEPT ![t] = PhaseOf["remove"]]
      /\ Offered' = [Offered EXCEPT ![t] = sends[t].seen]
      /\ Missed' = [Missed EXCEPT ![t] = sends[t].dead \ {n}]
  BY <1>3, RunStep
<1>5. Phases[t] = "accepted" /\ PhaseOf["remove"] = "accepted" /\ Phases' = Phases
  BY <1>1, <1>4 DEF Phases, PhaseOf
<1>8. Offered' = Offered /\ Missed[t] = sends[t].dead
  BY <1>4 DEF Offered, Missed
<1>6. Calm' = IF Taken(n) THEN {} ELSE Calm
  BY <1>1, <1>2, <1>3, Disturbed DEF Remove, Only
<1>7. Room!Gone(n)
  BY <1>2, <1>6 DEF Room!Gone, Room!Here, Remove, Taken
<1> QED BY <1>2, <1>4, <1>5, <1>7, <1>8 DEF Room!Drop

\* The room keeps the promise of a broadcast, whatever its clients do to the map while
\* the loop goes round: a name is offered a message at most once, and a call returns
\* normally exactly when no name has come or gone and every name was offered it.
THEOREM RoomKeepsPromise == RoomSpec => KeepsPromise
<1>1. RoomInit => Room!Init
  BY DEF RoomInit, NoLoop, PhaseOf, Phases, Offered, Missed, Calm, Room!Init
<1>2. RoomInv /\ [RoomNext]_roomVars => [Room!Next]_(Room!vars)
  <2> SUFFICES ASSUME RoomInv, [RoomNext]_roomVars PROVE Room!Next \/ UNCHANGED Room!vars
    OBVIOUS
  <2>1. CASE UNCHANGED roomVars
    BY <2>1 DEF roomVars, Room!vars, Phases, Offered, Missed, Calm, Undisturbed
  <2>2. CASE \E n \in Name : (Remove(n) \/ \E h \in Handle : Put(n, h)) /\ UNCHANGED sends
    BY <2>2, MapMoves
  <2>3. ASSUME NEW t \in Thread,
               \/ SendBegins(t) /\ UNCHANGED <<clients, modCount>>
               \/ \E alive \in SUBSET Handle : Visit(t, alive)
               \/ CleanUp(t) \/ RemoveDead(t)
        PROVE  Room!Next
    BY <2>3, Begins, Visits, CleansUp, Drops DEF Room!Next
  <2>4. ASSUME NEW t \in Thread, SendFails(t) \/ SendReturns(t)
        PROVE  Room!Next
    BY <2>4, Returns
  <2> QED BY <2>1, <2>2, <2>3, <2>4 DEF RoomNext
<1> QED BY <1>1, <1>2, RoomInvariant, PTL DEF RoomSpec, KeepsPromise, Room!Spec

-----------------------------------------------------------------------------
(* The clients: the inductive invariant.                                   *)

\* A handle seen by an undisturbed loop belongs to a client that still goes by the
\* name it was seen under: to take another one, it would have to unsubscribe.
SeenInv(t) ==
  Looping(t) /\ Undisturbed(t) =>
    \A s \in sends[t].seen : s[1] = Empty \/ username[s[2]] = s[1]

\* A name is noted only if somebody who types it has gone.
DeadInv(t) == \A n \in sends[t].dead : \E d \in Client \ Alive : n \in Typed[d]

\* A client goes by a name its user types.
NameInv(c) == Unsubscribed(c) \/ username[c] \in Typed[c]

\* The handle under a name belongs to a client that goes by that name.
HandleInv(n) ==
  n \in DOMAIN clients =>
    n \in Typed[clients[n]] /\ (n = Empty \/ username[clients[n]] = n)

Inv ==
  /\ TypeOK
  /\ \A t \in Client : LoopInv(t) /\ SeenInv(t) /\ DeadInv(t)
  /\ \A c \in Client : NameInv(c)
  /\ \A n \in Name : HandleInv(n)
  /\ SubscriptionStays

-----------------------------------------------------------------------------
(* Type correctness.                                                       *)

LEMMA InitType == Init => TypeOK
<1> SUFFICES ASSUME Init PROVE TypeOK
  OBVIOUS
<1>1. RoomTypeOK
  BY NoLoopType DEF Init, RoomInit, RoomTypeOK
<1> QED BY <1>1, TypedAssumption DEF Init, TypeOK

LEMMA WithdrawStep ==
  ASSUME TypeOK, NEW c \in Client, Withdraw(c)
  PROVE  username' \in [Client -> Name] /\ UNCHANGED sends
<1>1. username[c] \in Name /\ Empty \in Name
  BY TypedAssumption DEF TypeOK
<1>2. username' \in [Client -> Name]
  BY <1>1 DEF Withdraw, TypeOK
<1> QED BY <1>2 DEF Withdraw

LEMMA NextInRoom ==
  ASSUME TypeOK, [Next]_vars
  PROVE  [RoomNext]_roomVars
<1> USE ClientAssumption
<1>1. ASSUME NEW c \in Client, Subscribe(c) \/ Unsubscribe(c) \/ Exit(c)
      PROVE  \/ UNCHANGED roomVars
             \/ \E n \in Name : (Remove(n) \/ \E h \in Handle : Put(n, h)) /\ UNCHANGED sends
  <2>1. ASSUME NEW n \in Typed[c] PROVE n \in Name
    BY TypedAssumption
  <2>2. username[c] \in Name
    BY DEF TypeOK
  <2> QED BY <1>1, <2>1, <2>2 DEF Subscribe, Unsubscribe, Exit, Withdraw
<1>2. ASSUME NEW c \in Client, Send(c) \/ Serve(c) \/ Return(c)
      PROVE  \E t \in Thread :
               \/ SendBegins(t) /\ UNCHANGED <<clients, modCount>>
               \/ \E alive \in SUBSET Handle : Visit(t, alive)
               \/ CleanUp(t) \/ RemoveDead(t) \/ SendFails(t) \/ SendReturns(t)
  BY <1>2 DEF Send, Serve, Return, Alive
<1>3. ASSUME NEW c \in Client, Kill(c)
      PROVE  UNCHANGED roomVars
  BY <1>3 DEF Kill
<1>4. CASE UNCHANGED vars
  BY <1>4 DEF vars
<1> QED BY <1>1, <1>2, <1>3, <1>4 DEF Next, RoomNext

LEMMA TypeStep == TypeOK /\ [Next]_vars => TypeOK'
<1> SUFFICES ASSUME TypeOK, [Next]_vars PROVE TypeOK'
  OBVIOUS
<1> DEFINE RestOK == /\ at \in [Client -> {"menu", "sending", "exited", "failed", "killed"}]
                     /\ username \in [Client -> Name]
                     /\ calls \in [Client -> Nat]
<1> SUFFICES RestOK'
  BY NextInRoom, RoomTypeStep DEF TypeOK
<1>1. RestOK
  BY DEF TypeOK
<1>2. ASSUME NEW c \in Client, Subscribe(c)
      PROVE  RestOK'
  <2>1. PICK n \in Typed[c] : username' = [username EXCEPT ![c] = n]
    BY <1>2 DEF Subscribe
  <2>2. n \in Name
    BY TypedAssumption
  <2> QED BY <1>1, <1>2, <2>1, <2>2 DEF Subscribe, Chooses, TypeOK
<1>3. ASSUME NEW c \in Client, Unsubscribe(c)
      PROVE  RestOK'
  <2>1. username' \in [Client -> Name] /\ UNCHANGED sends
    BY <1>3, WithdrawStep DEF Unsubscribe
  <2>2. at' = at /\ calls' = [calls EXCEPT ![c] = @ + 1]
    BY <1>3 DEF Unsubscribe, Chooses
  <2> QED BY <1>1, <2>1, <2>2 DEF TypeOK
<1>4. ASSUME NEW c \in Client, Exit(c)
      PROVE  RestOK'
  <2>1. username' \in [Client -> Name] /\ UNCHANGED sends
    <3>1. CASE Unsubscribed(c)
      BY <1>4, <3>1 DEF Exit, roomVars, TypeOK
    <3>2. CASE ~Unsubscribed(c)
      BY <1>4, <3>2, WithdrawStep DEF Exit
    <3> QED BY <3>1, <3>2
  <2>2. at' = [at EXCEPT ![c] = "exited"] /\ UNCHANGED calls
    BY <1>4 DEF Exit, Goes
  <2> QED BY <1>1, <2>1, <2>2 DEF TypeOK
<1>5. ASSUME NEW c \in Client, Send(c)
      PROVE  RestOK'
  BY <1>1, <1>5 DEF Send, Chooses, Goes
<1>6. ASSUME NEW c \in Client, Serve(c)
      PROVE  RestOK'
  BY <1>1, <1>6 DEF Serve
<1>7. ASSUME NEW c \in Client, Return(c)
      PROVE  RestOK'
  <2>1. /\ sends' = [sends EXCEPT ![c] = NoLoop]
        /\ UNCHANGED <<username, calls>>
        /\ at' = at \/ at' = [at EXCEPT ![c] = "menu"] \/ at' = [at EXCEPT ![c] = "failed"]
    BY <1>7 DEF Return, SendReturns, SendFails, TypeOK
  <2> QED BY <1>1, <2>1 DEF TypeOK
<1>8. ASSUME NEW c \in Client, Kill(c)
      PROVE  RestOK'
  BY <1>1, <1>8 DEF Kill, Goes, TypeOK, roomVars
<1>9. CASE UNCHANGED vars
  BY <1>1, <1>9 DEF vars, roomVars, TypeOK
<1> QED BY <1>2, <1>3, <1>4, <1>5, <1>6, <1>7, <1>8, <1>9 DEF Next

\* Type correctness.  The variables of the chat keep their types.
THEOREM TypeCorrect == Spec => []TypeOK
BY InitType, TypeStep, PTL DEF Spec

-----------------------------------------------------------------------------
(* What a step may do to the loop of t, to the clients and to the names.   *)

LEMMA LoopCases ==
  ASSUME TypeOK, [Next]_vars, NEW t \in Client
  PROVE  \/ sends'[t] = sends[t]
         \/ ~Looping(t)' /\ sends'[t].dead \subseteq sends[t].dead
         \/ /\ sends'[t] = [NoLoop EXCEPT !.stage = "loop", !.mc = modCount]
            /\ UNCHANGED <<clients, modCount, username>>
         \/ Visit(t, Alive) /\ UNCHANGED username
<1>1. sends \in [Client -> Loop]
  BY ClientAssumption DEF TypeOK, RoomTypeOK
<1>2. ASSUME NEW c \in Client, Subscribe(c) \/ Unsubscribe(c) \/ Exit(c) \/ Kill(c)
      PROVE  sends'[t] = sends[t]
  BY <1>2 DEF Subscribe, Unsubscribe, Exit, Kill, Withdraw, roomVars
<1>3. ASSUME NEW c \in Client, Send(c)
      PROVE  \/ sends'[t] = sends[t]
             \/ /\ sends'[t] = [NoLoop EXCEPT !.stage = "loop", !.mc = modCount]
                /\ UNCHANGED <<clients, modCount, username>>
  BY <1>1, <1>3 DEF Send, SendBegins
<1>4. ASSUME NEW c \in Client, Visit(c, Alive), UNCHANGED username
      PROVE  sends'[t] = sends[t] \/ (Visit(t, Alive) /\ UNCHANGED username)
  BY <1>1, <1>4 DEF Visit
<1>5. ASSUME NEW c \in Client, CleanUp(c)
      PROVE  sends'[t] = sends[t] \/ (~Looping(t)' /\ sends'[t].dead \subseteq sends[t].dead)
  BY <1>1, <1>5 DEF CleanUp, Looping, Loop
<1>6. ASSUME NEW c \in Client, RemoveDead(c)
      PROVE  sends'[t] = sends[t] \/ (~Looping(t)' /\ sends'[t].dead \subseteq sends[t].dead)
  <2>1. PICK n \in sends[c].dead : sends' = [sends EXCEPT ![c].dead = @ \ {n}]
    BY <1>6 DEF RemoveDead
  <2>2. sends[c].stage = "remove"
    BY <1>6 DEF RemoveDead
  <2> QED BY <1>1, <2>1, <2>2 DEF Looping, Loop
<1>7. ASSUME NEW c \in Client, Return(c)
      PROVE  sends'[t] = sends[t] \/ (~Looping(t)' /\ sends'[t].dead \subseteq sends[t].dead)
  <2>1. sends' = [sends EXCEPT ![c] = NoLoop]
    BY <1>7 DEF Return, SendReturns, SendFails
  <2> QED BY <1>1, <2>1 DEF NoLoop, Looping
<1>8. CASE UNCHANGED vars
  BY <1>8 DEF vars, roomVars
<1> QED BY <1>2, <1>3, <1>4, <1>5, <1>6, <1>7, <1>8 DEF Next, Serve

\* Nobody comes back to life.
LEMMA AliveShrinks ==
  ASSUME TypeOK, [Next]_vars
  PROVE  Alive' \subseteq Alive
<1> USE DEF TypeOK, Alive
<1>1. ASSUME NEW c \in Client, Subscribe(c) \/ Unsubscribe(c) \/ Serve(c)
      PROVE  at' = at
  BY <1>1 DEF Subscribe, Unsubscribe, Serve
<1>2. ASSUME NEW c \in Client, Exit(c) \/ Send(c) \/ Return(c) \/ Kill(c)
      PROVE  Alive' \subseteq Alive
  BY <1>2 DEF Exit, Send, Return, Kill, Chooses, Goes
<1>3. CASE UNCHANGED vars
  BY <1>3 DEF vars
<1> QED BY <1>1, <1>2, <1>3 DEF Next

NamesUnchanged == UNCHANGED <<clients, username>>

\* Names are put and removed by four actions; all others leave them alone.
LEMMA NamesCases ==
  ASSUME TypeOK, [Next]_vars
  PROVE  \/ NamesUnchanged
         \/ \E c \in Client : Subscribe(c) \/ (~Unsubscribed(c) /\ Withdraw(c))
         \/ \E t \in Client : \E n \in sends[t].dead : Remove(n) /\ UNCHANGED username
BY DEF Next, NamesUnchanged, Unsubscribe, Exit, Send, Serve, Visit, CleanUp, RemoveDead,
       Return, SendReturns, SendFails, Kill, roomVars, vars

-----------------------------------------------------------------------------
(* A message that returns was offered to everybody.                        *)

\* The clients use the room by its operations, each thread one after the other.
THEOREM ClientsUseRoom == Spec => RoomSpec
<1>1. Init => RoomInit
  BY DEF Init
<1>2. TypeOK /\ [Next]_vars => [RoomNext]_roomVars
  BY NextInRoom
<1> QED BY <1>1, <1>2, TypeCorrect, PTL DEF Spec, RoomSpec

\* The chat keeps the promise of a broadcast.
THEOREM KeepsPromiseAlways == Spec => KeepsPromise
BY ClientsUseRoom, RoomKeepsPromise, PTL

LoopsInv == TypeOK /\ \A t \in Client : LoopInv(t)

LEMMA LoopsInvariant == Spec => []LoopsInv
<1>1. TypeOK /\ RoomInv => LoopsInv
  BY ClientAssumption DEF RoomInv, LoopsInv
<1> QED BY <1>1, TypeCorrect, ClientsUseRoom, RoomInvariant, PTL

\* When the loop of sendMessage ends and modCount is what it was, every name that
\* is in the map has been visited: wherever the loop stood when other threads put
\* and removed names, the one comparison after it is enough.
THEOREM ReturnMeansOfferedAlways == Spec => []ReturnMeansOffered
<1>1. LoopsInv => ReturnMeansOffered
  <2> SUFFICES ASSUME LoopsInv, NEW t \in Client, LoopDone(t), Undisturbed(t)
               PROVE  DOMAIN clients = {s[1] : s \in sends[t].seen}
    BY DEF ReturnMeansOffered
  <2>1. {s[1] : s \in sends[t].seen} = {n \in DOMAIN clients : Order[n] <= sends[t].pos}
    BY DEF LoopsInv, LoopInv, LoopDone, Looping
  <2>2. \A n \in DOMAIN clients : Order[n] \in Nat
    BY OrderAssumption DEF LoopsInv, TypeOK, RoomTypeOK
  <2>3. sends[t].pos \in Nat
    BY ClientAssumption DEF LoopsInv, TypeOK, RoomTypeOK, Loop
  <2>4. \A n \in DOMAIN clients : Order[n] <= sends[t].pos
    BY <2>2, <2>3 DEF LoopDone, Ahead
  <2> QED BY <2>1, <2>4
<1> QED BY <1>1, LoopsInvariant, PTL

-----------------------------------------------------------------------------
(* Subscriptions stay.                                                     *)

NamesInv ==
  /\ \A t \in Client : DeadInv(t)
  /\ \A c \in Client : NameInv(c)
  /\ \A n \in Name : HandleInv(n)
  /\ SubscriptionStays

\* What Subscribe and Withdraw do to the names, one name at a time.
LEMMA SubscribeNames ==
  ASSUME TypeOK, NEW c \in Client, Subscribe(c)
  PROVE  \E n \in Typed[c] :
           /\ username[c] = Empty
           /\ username' = [username EXCEPT ![c] = n]
           /\ DOMAIN clients' = DOMAIN clients \cup {n}
           /\ clients'[n] = c
           /\ \A m \in DOMAIN clients \ {n} : clients'[m] = clients[m]
BY PutMap DEF Subscribe, MaySubscribe, Unsubscribed

LEMMA WithdrawNames ==
  ASSUME TypeOK, NEW c \in Client, Withdraw(c)
  PROVE  /\ DOMAIN clients' = DOMAIN clients \ {username[c]}
         /\ \A m \in DOMAIN clients' : clients'[m] = clients[m]
         /\ username' = username \/ username' = [username EXCEPT ![c] = Empty]
         /\ username[c] \in DOMAIN clients \/ username' = username
BY RemoveMap DEF Withdraw, Taken, TypeOK

LEMMA NameStep ==
  ASSUME TypeOK, [Next]_vars, NEW d \in Client, NameInv(d)
  PROVE  NameInv(d)'
<1> USE DEF NameInv, Unsubscribed
<1>1. CASE NamesUnchanged
  BY <1>1 DEF NamesUnchanged
<1>2. ASSUME NEW c \in Client, Subscribe(c)
      PROVE  NameInv(d)'
  <2>1. PICK n \in Typed[c] : username' = [username EXCEPT ![c] = n]
    BY <1>2, SubscribeNames
  <2> QED BY <2>1 DEF TypeOK
<1>3. ASSUME NEW c \in Client, Withdraw(c)
      PROVE  NameInv(d)'
  BY <1>3, WithdrawNames DEF TypeOK
<1> QED BY <1>1, <1>2, <1>3, NamesCases

LEMMA HandleStep ==
  ASSUME TypeOK, [Next]_vars, NEW m \in Name, HandleInv(m)
  PROVE  HandleInv(m)'
<1> USE DEF HandleInv
<1>1. m \in DOMAIN clients => clients[m] \in Client
  BY ClientAssumption DEF TypeOK, RoomTypeOK
<1>2. CASE NamesUnchanged
  BY <1>2 DEF NamesUnchanged
<1>3. ASSUME NEW c \in Client, Subscribe(c)
      PROVE  HandleInv(m)'
  <2>1. PICK n \in Typed[c] :
           /\ username[c] = Empty
           /\ username' = [username EXCEPT ![c] = n]
           /\ DOMAIN clients' = DOMAIN clients \cup {n}
           /\ clients'[n] = c
           /\ \A k \in DOMAIN clients \ {n} : clients'[k] = clients[k]
    BY <1>3, SubscribeNames
  <2>2. CASE m = n
    BY <2>1, <2>2 DEF TypeOK
  <2>3. CASE m # n
    BY <1>1, <2>1, <2>3 DEF TypeOK
  <2> QED BY <2>2, <2>3
<1>4. ASSUME NEW c \in Client, Withdraw(c)
      PROVE  HandleInv(m)'
  <2>1. CASE m \notin DOMAIN clients'
    BY <2>1
  <2>2. CASE m \in DOMAIN clients'
    <3>1. m \in DOMAIN clients /\ m # username[c] /\ clients'[m] = clients[m]
      BY <1>4, <2>2, WithdrawNames
    <3>2. username'[clients[m]] = username[clients[m]] \/ clients[m] = c
      BY <1>1, <1>4, <3>1, WithdrawNames DEF TypeOK
    <3> QED BY <3>1, <3>2
  <2> QED BY <2>1, <2>2
<1>5. ASSUME NEW n, Remove(n), UNCHANGED username
      PROVE  HandleInv(m)'
  BY <1>5, RemoveMap
<1> QED BY <1>2, <1>3, <1>4, <1>5, NamesCases

LEMMA DeadStep ==
  ASSUME TypeOK, [Next]_vars, NEW t \in Client, DeadInv(t), \A n \in Name : HandleInv(n)
  PROVE  DeadInv(t)'
<1> USE DEF DeadInv
<1>1. Alive' \subseteq Alive
  BY AliveShrinks
<1>2. sends[t] \in Loop
  BY ClientAssumption DEF TypeOK, RoomTypeOK
<1>3. CASE sends'[t].dead \subseteq sends[t].dead
  BY <1>1, <1>3
<1>4. CASE Visit(t, Alive)
  <2>1. PICK n \in Ahead(t) :
          sends'[t].dead = IF clients[n] \in Alive THEN sends[t].dead ELSE sends[t].dead \cup {n}
    <3>1. t \in DOMAIN sends
      BY ClientAssumption DEF TypeOK, RoomTypeOK
    <3>2. PICK n \in Ahead(t) :
            sends' = [sends EXCEPT ![t] =
                        [sends[t] EXCEPT !.pos = Order[n],
                                         !.seen = @ \cup {<<n, clients[n]>>},
                                         !.dead = Note(@, n, clients[n] \in Alive)]]
      BY <1>4 DEF Visit
    <3>3. sends'[t] = [sends[t] EXCEPT !.pos = Order[n],
                                       !.seen = @ \cup {<<n, clients[n]>>},
                                       !.dead = Note(@, n, clients[n] \in Alive)]
      BY <3>1, <3>2
    <3> QED BY <1>2, <3>3 DEF Note, Loop
  <2>2. n \in DOMAIN clients /\ n \in Name /\ clients[n] \in Client
    BY <2>1, ClientAssumption DEF Ahead, TypeOK, RoomTypeOK
  <2>3. n \in Typed[clients[n]]
    BY <2>2 DEF HandleInv
  <2>4. CASE clients[n] \in Alive
    BY <1>1, <2>1, <2>4
  <2>5. CASE clients[n] \notin Alive
    BY <1>1, <2>1, <2>2, <2>3, <2>5
  <2> QED BY <2>4, <2>5
<1>5. CASE sends'[t] = [NoLoop EXCEPT !.stage = "loop", !.mc = modCount]
  BY <1>5 DEF NoLoop
<1> QED BY <1>3, <1>4, <1>5, LoopCases

LEMMA StaysStep ==
  ASSUME TypeOK, [Next]_vars, NamesInv
  PROVE  SubscriptionStays'
<1> SUFFICES ASSUME NEW d \in Client, d \in Alive', Sole(d), username'[d] # Empty
             PROVE  username'[d] \in DOMAIN clients' /\ clients'[username'[d]] = d
  BY DEF SubscriptionStays, Unsubscribed, Taken, Sole, Alive
<1>1. d \in Alive
  BY AliveShrinks
<1>2. username[d] # Empty =>
        username[d] \in DOMAIN clients /\ clients[username[d]] = d /\ username[d] \in Typed[d]
  BY <1>1 DEF NamesInv, SubscriptionStays, NameInv, Unsubscribed, Taken
<1>3. \A c \in Client, n \in Typed[d] : n \in Typed[c] => c = d
  BY DEF Sole
<1>4. CASE NamesUnchanged
  BY <1>2, <1>4 DEF NamesUnchanged
<1>5. ASSUME NEW c \in Client, Subscribe(c)
      PROVE  username'[d] \in DOMAIN clients' /\ clients'[username'[d]] = d
  <2>1. PICK n \in Typed[c] :
           /\ username' = [username EXCEPT ![c] = n]
           /\ DOMAIN clients' = DOMAIN clients \cup {n}
           /\ clients'[n] = c
           /\ \A k \in DOMAIN clients \ {n} : clients'[k] = clients[k]
    BY <1>5, SubscribeNames
  <2>2. CASE c = d
    BY <2>1, <2>2 DEF TypeOK
  <2>3. CASE c # d
    <3>1. username'[d] = username[d]
      BY <2>1, <2>3 DEF TypeOK
    <3>2. n # username[d]
      BY <1>2, <1>3, <2>3, <3>1
    <3> QED BY <1>2, <2>1, <3>1, <3>2
  <2> QED BY <2>2, <2>3
<1>6. ASSUME NEW c \in Client, ~Unsubscribed(c), Withdraw(c)
      PROVE  username'[d] \in DOMAIN clients' /\ clients'[username'[d]] = d
  <2>1. username[c] \in Typed[c]
    BY <1>6 DEF NamesInv, NameInv
  <2>2. CASE c = d
    <3>1. username' = username
      BY <1>6, <2>2, WithdrawNames DEF Withdraw, Taken, TypeOK
    <3>2. username[d] \notin DOMAIN clients
      BY <1>6, <2>2, <3>1 DEF Withdraw, Taken, TypeOK
    <3> QED BY <1>2, <3>1, <3>2
  <2>3. CASE c # d
    <3>1. username'[d] = username[d]
      BY <1>6, <2>3, WithdrawNames DEF TypeOK
    <3>2. username[c] # username[d]
      BY <1>2, <1>3, <2>1, <2>3, <3>1
    <3> QED BY <1>2, <1>6, <3>1, <3>2, WithdrawNames
  <2> QED BY <2>2, <2>3
<1>7. ASSUME NEW t \in Client, NEW n \in sends[t].dead, Remove(n), UNCHANGED username
      PROVE  username'[d] \in DOMAIN clients' /\ clients'[username'[d]] = d
  <2>1. PICK e \in Client \ Alive : n \in Typed[e]
    BY DEF NamesInv, DeadInv
  <2>2. n # username[d]
    BY <1>1, <1>2, <1>3, <1>7, <2>1
  <2> QED BY <1>2, <1>7, <2>2, RemoveMap
<1> QED BY <1>4, <1>5, <1>6, <1>7, NamesCases

LEMMA NamesInvariant == Spec => [](TypeOK /\ NamesInv)
<1>1. Init => TypeOK /\ NamesInv
  <2> SUFFICES ASSUME Init PROVE NamesInv
    BY InitType
  <2>1. \A t \in Client : DeadInv(t)
    BY ClientAssumption DEF Init, RoomInit, NoLoop, DeadInv
  <2>2. \A c \in Client : Unsubscribed(c)
    BY DEF Init, Unsubscribed
  <2>3. \A n \in Name : HandleInv(n)
    BY DEF Init, RoomInit, HandleInv
  <2> QED BY <2>1, <2>2, <2>3 DEF NamesInv, NameInv, SubscriptionStays, Alive
<1>2. TypeOK /\ NamesInv /\ [Next]_vars => (TypeOK /\ NamesInv)'
  <2> SUFFICES ASSUME TypeOK, NamesInv, [Next]_vars PROVE NamesInv'
    BY TypeStep
  <2>1. \A t \in Client : DeadInv(t)'
    BY DeadStep DEF NamesInv
  <2>2. \A c \in Client : NameInv(c)'
    BY NameStep DEF NamesInv
  <2>3. \A n \in Name : HandleInv(n)'
    BY HandleStep DEF NamesInv
  <2> QED BY <2>1, <2>2, <2>3, StaysStep DEF NamesInv
<1> QED BY <1>1, <1>2, PTL DEF Spec

\* A client that takes itself for subscribed under a name only it uses is in the
\* map: the clean-up after the loop never removes it, although it removes names
\* without looking at the handle.
THEOREM SubscriptionStaysAlways == Spec => []SubscriptionStays
<1>1. NamesInv => SubscriptionStays
  BY DEF NamesInv
<1> QED BY <1>1, NamesInvariant, PTL

-----------------------------------------------------------------------------
(* Nobody gets a message twice.                                            *)

LEMMA SeenStep ==
  ASSUME TypeOK, [Next]_vars, \A n \in Name : HandleInv(n),
         NEW t \in Client, LoopInv(t), SeenInv(t)
  PROVE  SeenInv(t)'
<1>1. RoomTypeOK /\ sends[t] \in Loop /\ t \in DOMAIN sends /\ MapStep
  BY NextInRoom, RoomOnMap, ClientAssumption DEF TypeOK, RoomTypeOK
<1>2. modCount \in Nat /\ modCount' \in Nat /\ sends[t].mc \in Nat
  BY <1>1, TypeStep DEF TypeOK, RoomTypeOK, Loop
<1>3. modCount' >= modCount /\ (modCount' = modCount => DOMAIN clients' = DOMAIN clients)
  BY <1>1, CountedNames
<1>4. ASSUME sends'[t] = sends[t], Looping(t)', Undisturbed(t)',
             NEW s \in sends[t].seen
      PROVE  s[1] = Empty \/ username'[s[2]] = s[1]
  <2>1. Looping(t) /\ sends[t].mc = modCount /\ modCount' = modCount
    BY <1>2, <1>3, <1>4 DEF LoopInv, Looping, Undisturbed
  <2>2. s[1] = Empty \/ username[s[2]] = s[1]
    BY <2>1 DEF SeenInv, Undisturbed
  <2>3. s[2] \in Client
    BY <1>1, <1>4, ClientAssumption DEF Loop
  <2>4. CASE username' = username
    BY <2>2, <2>4
  <2>5. ASSUME NEW c \in Client, Subscribe(c)
        PROVE  s[1] = Empty \/ username'[s[2]] = s[1]
    <3>1. username[c] = Empty /\ \E n \in Typed[c] : username' = [username EXCEPT ![c] = n]
      BY <2>5, SubscribeNames
    <3> QED BY <2>2, <2>3, <3>1 DEF TypeOK
  <2>6. ASSUME NEW c \in Client, Withdraw(c)
        PROVE  username' = username
    BY <2>1, <2>6, <1>3, WithdrawNames
  <2> QED BY <2>4, <2>5, <2>6, NamesCases DEF NamesUnchanged
<1>5. CASE sends'[t] = sends[t]
  BY <1>4, <1>5 DEF SeenInv
<1>6. CASE sends'[t] = [NoLoop EXCEPT !.stage = "loop", !.mc = modCount]
  BY <1>6 DEF NoLoop, SeenInv
<1>7. CASE Visit(t, Alive) /\ UNCHANGED username
  <2>1. PICK n \in Ahead(t) :
          /\ sends'[t].mc = sends[t].mc
          /\ sends'[t].seen = sends[t].seen \cup {<<n, clients[n]>>}
    BY <1>1, <1>7 DEF Visit, Loop
  <2>2. Looping(t) /\ modCount' = modCount
    BY <1>7 DEF Visit, Looping
  <2>3. n \in Name /\ n \in DOMAIN clients
    BY <1>1 DEF Ahead, RoomTypeOK
  <2>4. n = Empty \/ username[clients[n]] = n
    BY <2>3 DEF HandleInv
  <2> SUFFICES ASSUME Undisturbed(t)', NEW s \in sends'[t].seen
               PROVE  s[1] = Empty \/ username[s[2]] = s[1]
    BY <1>7 DEF SeenInv
  <2>5. CASE s \in sends[t].seen
    BY <2>1, <2>2, <2>5 DEF SeenInv, Undisturbed
  <2>6. CASE s = <<n, clients[n]>>
    BY <2>4, <2>6
  <2> QED BY <2>1, <2>5, <2>6
<1>8. CASE ~Looping(t)'
  BY <1>8 DEF SeenInv
<1> QED BY <1>5, <1>6, <1>7, <1>8, LoopCases

LEMMA Invariant == Spec => []Inv
<1>1. Init => \A t \in Client : SeenInv(t)
  BY ClientAssumption DEF Init, RoomInit, NoLoop, SeenInv, Looping
<1>2. LoopsInv /\ TypeOK /\ NamesInv /\ (\A t \in Client : SeenInv(t)) /\ [Next]_vars
        => (\A t \in Client : SeenInv(t))'
  BY SeenStep DEF LoopsInv, NamesInv
<1>3. LoopsInv /\ TypeOK /\ NamesInv /\ (\A t \in Client : SeenInv(t)) => Inv
  BY DEF LoopsInv, NamesInv, Inv
<1> QED BY <1>1, <1>2, <1>3, LoopsInvariant, NamesInvariant, PTL DEF Spec

\* A message that was not disturbed reaches no client under two names, whatever
\* handles were replaced while it went round, unless somebody goes by the empty name.
THEOREM OncePerMessageAlways == Spec => []OncePerMessage
<1>1. Inv => OncePerMessage
  <2> SUFFICES ASSUME Inv, NEW t \in Client, Looping(t), Undisturbed(t), ~Taken(Empty),
                      NEW s \in sends[t].seen, NEW u \in sends[t].seen, s[2] = u[2]
               PROVE  s = u
    BY DEF OncePerMessage, Looping
  <2>1. sends[t].seen \subseteq Name \X Client
    BY ClientAssumption DEF Inv, TypeOK, RoomTypeOK, Loop
  <2>2. \A r \in sends[t].seen : r[1] \in DOMAIN clients
    BY DEF Inv, LoopInv
  <2>3. s[1] # Empty /\ u[1] # Empty
    BY <2>2 DEF Taken
  <2>4. s[1] = u[1]
    BY <2>3 DEF Inv, SeenInv
  <2> QED BY <2>1, <2>4
<1> QED BY <1>1, Invariant, PTL

=============================================================================
