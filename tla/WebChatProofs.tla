--------------------------- MODULE WebChatProofs ---------------------------
(***************************************************************************)
(* Theorems about WebChat, for every set of sessions, tabs, console        *)
(* clients and names, every order of the HashMap and every bound: no page  *)
(* shows a message twice; a session with one tab leaves no name behind at  *)
(* the server, locks none and loses no message it has shown; the room      *)
(* behind the servlet is used as ChatRoom describes it.                    *)
(***************************************************************************)
EXTENDS WebChat, FiniteSetTheorems, TLAPS

-----------------------------------------------------------------------------
(* The inductive invariant.                                                *)

\* Whoever has a request under way has counted it.
CallsInv ==
  \A t \in Tab : calls[t] <= MaxCalls[t] /\ (~At(t, "idle") => calls[t] >= 1)

\* A tab waits for the server exactly while the server sends its message.
SendInv == \A t \in Tab : At(t, "sending") <=> sends[t].stage # "none"

\* The position of a loop is that of the last name it has seen.
PosInv ==
  \A t \in Tab, n \in Name, h \in Handle :
    <<n, h>> \in sends[t].seen => Order[n] <= sends[t].pos

\* A handle is used under a name: by the map, or by a loop that was there.
Used(h, n) ==
  \/ n \in DOMAIN clients /\ clients[n] = h
  \/ \E t \in Tab : <<n, h>> \in sends[t].seen

\* The handle of a login is used under one name at most, also when it has been
\* removed long since: it is put into the map once.
OneName ==
  \A h \in WebHandle : \A m, n \in Name : Used(h, m) /\ Used(h, n) => m = n

BeforePut(t) == req[t].at \in {"check", "name", "subscribe"}

\* A login that has not got to the server has a handle that nobody uses yet.
FreshHandle ==
  \A t \in Tab : \A k \in 1..MaxCalls[t], n \in Name :
    Used(<<t, k>>, n) => k < calls[t] \/ (k = calls[t] /\ ~BeforePut(t))

\* A copy is out: in the list of a session, or on its way there.
Out(m, h) ==
  \/ \E s \in Session : messages[s] # None /\ <<m, h>> \in messages[s]
  \/ \E t \in Tab : <<m, h>> \in req[t].old
  \/ \E t \in Tab : At(t, "store") /\ req[t].h = h /\ m \in req[t].fresh

Fetched(m, h) == \E t \in Tab : At(t, "clear") /\ req[t].h = h /\ m \in req[t].fresh

Known(m, h) == Out(m, h) \/ Fetched(m, h) \/ m \in inbox[h]

\* What is out is not in the list of its handle, and will not come back there.
OutInv == \A m \in Message, h \in WebHandle : Out(m, h) => m \notin inbox[h]

\* There are copies only of messages that were sent, at the handles visited so far.
SentInv ==
  \A t \in Tab : \A k \in 1..MaxCalls[t], h \in WebHandle : Known(<<t, k>>, h) =>
    \/ k < calls[t]
    \/ /\ k = calls[t] /\ ~At(t, "send")
       /\ sends[t].stage = "loop" => \E n \in Name : <<n, h>> \in sends[t].seen

\* What a refresh adds is new to the list it has read.
FreshInv ==
  \A t \in Tab, m \in Message :
    At(t, "clear") \/ At(t, "store") => (m \in req[t].fresh => <<m, req[t].h>> \notin req[t].old)

Inv ==
  /\ TypeOK /\ CallsInv /\ SendInv /\ PosInv
  /\ OneName /\ FreshHandle
  /\ OutInv /\ SentInv /\ FreshInv

TabStep(t) ==
  \/ Login(t) \/ CheckName(t) \/ SetName(t) \/ Subscribe(t) \/ TakeProxy(t)
  \/ EnterSession(t) \/ ListName(t)
  \/ Send(t) \/ CallSend(t) \/ Deliver(t) \/ Deliveries(t)
  \/ SendAnswered(t) \/ SendThrows(t)
  \/ Refresh(t) \/ Fetch(t) \/ Clear(t) \/ Store(t)
  \/ Logout(t) \/ Unlist(t) \/ Forget(t)

-----------------------------------------------------------------------------
(* Type correctness.                                                       *)

LEMMA NoLoopType == NoLoop \in Loop
BY DEF NoLoop, Loop

LEMMA NoRequestType == NoRequest \in Request
BY DEF NoRequest, Request, Copy, Message

LEMMA InitType == Init => TypeOK
<1> SUFFICES ASSUME Init PROVE TypeOK
  OBVIOUS
<1>1. RoomTypeOK
  BY NoLoopType DEF Init, RoomInit, RoomTypeOK
<1>2. req \in [Tab -> Request] /\ \A t \in Tab : req[t].at = "idle"
  BY NoRequestType DEF Init, NoRequest
<1> QED BY <1>1, <1>2 DEF Init, TypeOK

\* What an action does to the map: nothing, one put of an absent name, or one remove.
MapStep ==
  \/ UNCHANGED <<clients, modCount>>
  \/ \E n \in Name, h \in Handle : ~Taken(n) /\ Put(n, h)
  \/ \E n \in Name \cup {None} : Remove(n)

LEMMA PutMap ==
  ASSUME NEW n, NEW h, Put(n, h)
  PROVE  /\ DOMAIN clients' = DOMAIN clients \cup {n}
         /\ clients'[n] = h
         /\ \A m \in DOMAIN clients \ {n} : clients'[m] = clients[m]
BY DEF Put

LEMMA RemoveMap ==
  ASSUME NEW n, Remove(n)
  PROVE  /\ DOMAIN clients' = DOMAIN clients \ {n}
         /\ \A m \in DOMAIN clients' : clients'[m] = clients[m]
BY DEF Remove

LEMMA MapType ==
  ASSUME RoomTypeOK, sends' \in [Thread -> Loop], MapStep
  PROVE  RoomTypeOK'
<1> USE DEF RoomTypeOK
<1>1. CASE UNCHANGED <<clients, modCount>>
  BY <1>1
<1>2. ASSUME NEW n \in Name, NEW h \in Handle, Put(n, h)
      PROVE  RoomTypeOK'
  <2>1. modCount' \in Nat
    BY <1>2 DEF Put
  <2>2. /\ DOMAIN clients' = DOMAIN clients \cup {n}
        /\ clients'[n] = h
        /\ \A m \in DOMAIN clients \ {n} : clients'[m] = clients[m]
    BY <1>2, PutMap
  <2> QED BY <2>1, <2>2
<1>3. ASSUME NEW n, Remove(n)
      PROVE  RoomTypeOK'
  <2>1. modCount' \in Nat
    BY <1>3 DEF Remove
  <2>2. DOMAIN clients' \subseteq Name /\ \A m \in DOMAIN clients' : clients'[m] \in Handle
    BY <1>3, RemoveMap
  <2> QED BY <2>1, <2>2
<1> QED BY <1>1, <1>2, <1>3 DEF MapStep

\* One turn of the loop.
LEMMA VisitType ==
  ASSUME RoomTypeOK, NEW t \in Tab, Visit(t, Handle)
  PROVE  /\ sends' \in [Thread -> Loop]
         /\ \E n \in DOMAIN clients :
              /\ Order[n] > sends[t].pos /\ Order[n] \in Nat
              /\ sends'[t].pos = Order[n] /\ sends'[t].stage = "loop"
              /\ sends'[t].seen = sends[t].seen \cup {<<n, clients[n]>>}
         /\ \A u \in Tab \ {t} : sends'[u] = sends[u]
<1>1. PICK n \in Ahead(t) :
        sends' = [sends EXCEPT ![t] =
            [sends[t] EXCEPT !.pos = Order[n],
                             !.seen = @ \cup {<<n, clients[n]>>},
                             !.dead = Note(@, n, clients[n] \in Handle)]]
  BY DEF Visit
<1>2. /\ n \in DOMAIN clients /\ n \in Name /\ clients[n] \in Handle
      /\ Order[n] > sends[t].pos
  BY DEF Ahead, RoomTypeOK
<1>3. Order[n] \in Nat
  BY <1>2, OrderAssumption
<1>4. t \in Thread /\ sends[t] \in Loop /\ sends[t].stage = "loop"
  BY HandleAssumption DEF RoomTypeOK, Visit
<1>5. Note(sends[t].dead, n, clients[n] \in Handle) \in SUBSET Name
  BY <1>2, <1>4 DEF Note, Loop
<1>6. sends[t].seen \cup {<<n, clients[n]>>} \in SUBSET (Name \X Handle)
  BY <1>2, <1>4 DEF Loop
<1> DEFINE r == [sends[t] EXCEPT !.pos = Order[n],
                                !.seen = @ \cup {<<n, clients[n]>>},
                                !.dead = Note(@, n, clients[n] \in Handle)]
<1>7. r \in Loop /\ r.pos = Order[n] /\ r.stage = "loop"
      /\ r.seen = sends[t].seen \cup {<<n, clients[n]>>}
  BY <1>3, <1>4, <1>5, <1>6 DEF Loop
<1>8. sends' = [sends EXCEPT ![t] = r]
  BY <1>1
<1> HIDE DEF r
<1> QED BY <1>2, <1>3, <1>4, <1>7, <1>8, HandleAssumption DEF RoomTypeOK

LEMMA NextType ==
  ASSUME TypeOK, CallsInv, SendInv, [Next]_vars
  PROVE  TypeOK'
<1> USE DEF Calls, At, Goes, Ends
<1>0. RoomTypeOK /\ sends \in [Thread -> Loop] /\ Thread = Tab
  BY HandleAssumption DEF TypeOK, RoomTypeOK
<1>s. CASE UNCHANGED vars
  BY <1>s DEF vars, roomVars, servlet, attrs, TypeOK, RoomTypeOK
<1>c1. ASSUME NEW c \in Console, ConsoleSubscribe(c)
       PROVE  TypeOK'
  <2>1. PICK n \in Typed[c] :
          /\ PutIfAbsent(n, c)
          /\ username' = [username EXCEPT ![c] = IF Taken(n) THEN None ELSE n]
    BY <1>c1 DEF ConsoleSubscribe
  <2>2. n \in Name /\ c \in Handle
    BY HandleAssumption, BrowserAssumption
  <2>3. RoomTypeOK'
    BY <1>0, <1>c1, <2>1, <2>2, MapType DEF PutIfAbsent, MapStep, ConsoleSubscribe
  <2> QED BY <1>c1, <2>1, <2>2, <2>3 DEF ConsoleSubscribe, TypeOK, servlet, attrs
<1>c2. ASSUME NEW c \in Console, ConsoleUnsubscribe(c)
       PROVE  TypeOK'
  <2>1. RoomTypeOK'
    BY <1>0, <1>c2, MapType DEF MapStep, ConsoleUnsubscribe, TypeOK
  <2> QED BY <1>c2, <2>1 DEF ConsoleUnsubscribe, TypeOK, servlet, attrs
<1>1. ASSUME NEW t \in Tab, TabStep(t)
      PROVE  TypeOK'
  <2>0. /\ req[t] \in Request /\ NoRequest \in Request /\ t \in Tab \cup Console
        /\ Browser[t] \in Session /\ calls[t] \in Nat /\ MaxCalls[t] \in Nat
    BY BrowserAssumption, NoRequestType DEF TypeOK
  <2>r. UNCHANGED <<clients, modCount, sends>> => RoomTypeOK'
    BY <1>0 DEF RoomTypeOK
  <2>q. req \in [Tab -> Request]
    BY DEF TypeOK
  <2>h. ~At(t, "idle") => <<t, calls[t]>> \in WebHandle
    BY <2>0 DEF WebHandle, HandlesOf, CallsInv
  <2>s. sends[t].stage # "none" => At(t, "sending")
    BY DEF SendInv
  <2>1. CASE Login(t)
    <3>1. PICK n \in Typed[t] : req' = [req EXCEPT ![t] = [NoRequest EXCEPT !.at = "check", !.n = n]]
      BY <2>1 DEF Login
    <3>2. n \in Name /\ n # None
      BY BrowserAssumption, HandleAssumption, <2>0
    <3>3. [NoRequest EXCEPT !.at = "check", !.n = n] \in Request
      BY <3>2 DEF Request, NoRequest
    <3> QED BY <1>0, <2>0, <2>r, <2>q, <2>1, <3>1, <3>3 DEF Login, TypeOK, servlet, attrs, roomVars
  <2>2. CASE CheckName(t)
    <3>1. [req[t] EXCEPT !.at = "name"] \in Request
      BY <2>0, <2>2 DEF CheckName, Request
    <3> QED BY <1>0, <2>0, <2>r, <2>q, <2>2, <3>1 DEF CheckName, TypeOK, servlet, attrs, roomVars
  <2>3. CASE SetName(t)
    <3>1. [req[t] EXCEPT !.at = "subscribe"] \in Request
      BY <2>0, <2>3 DEF SetName, Request
    <3> QED BY <1>0, <2>0, <2>r, <2>q, <2>3, <3>1 DEF SetName, TypeOK, servlet, attrs, roomVars, Request
  <2>4. CASE Subscribe(t)
    <3> DEFINE h == <<t, calls[t]>>
    <3>1. h \in WebHandle /\ h \in Handle /\ h # None
      BY HandleAssumption, <2>h, <2>4 DEF Subscribe
    <3>2. req[t].n \in Name
      BY <2>0, <2>4 DEF Subscribe, Request
    <3>3. /\ [req[t] EXCEPT !.h = h, !.at = "refused"] \in Request
          /\ [req[t] EXCEPT !.h = h, !.at = "accepted"] \in Request
      BY <2>0, <2>4, <3>1 DEF Subscribe, Request
    <3>4. MapStep /\ UNCHANGED sends
      BY <2>4, <3>1, <3>2 DEF Subscribe, PutIfAbsent, MapStep
    <3>5. RoomTypeOK'
      BY <1>0, <3>4, MapType
    <3>6. \/ req' = [req EXCEPT ![t] = [req[t] EXCEPT !.h = h, !.at = "refused"]]
          \/ req' = [req EXCEPT ![t] = [req[t] EXCEPT !.h = h, !.at = "accepted"]]
      BY <2>0, <2>4 DEF Subscribe
    <3> HIDE DEF h
    <3> QED BY <2>0, <2>q, <2>4, <3>3, <3>5, <3>6 DEF Subscribe, TypeOK, servlet, attrs
  <2>5. CASE TakeProxy(t)
    <3>1. [req[t] EXCEPT !.at = "enter"] \in Request
      BY <2>0, <2>5 DEF TakeProxy, Request
    <3> QED BY <1>0, <2>0, <2>r, <2>q, <2>5, <3>1 DEF TakeProxy, TypeOK, servlet, attrs, roomVars, Request
  <2>6. CASE EnterSession(t)
    <3>1. [req[t] EXCEPT !.at = "list"] \in Request
      BY <2>0, <2>6 DEF EnterSession, Request
    <3> QED BY <1>0, <2>0, <2>r, <2>q, <2>6, <3>1 DEF EnterSession, TypeOK, servlet, attrs, roomVars, Request
  <2>7. CASE ListName(t)
    BY <1>0, <2>0, <2>r, <2>q, <2>7 DEF ListName, TypeOK, servlet, attrs, roomVars, Request
  <2>8. CASE Send(t)
    <3>1. [NoRequest EXCEPT !.at = "send", !.old = messages[Browser[t]]] \in Request
      BY <2>0, <2>8 DEF Send, Request, NoRequest, HasPage, TypeOK
    <3> QED BY <1>0, <2>0, <2>r, <2>q, <2>8, <3>1 DEF Send, TypeOK, servlet, attrs, roomVars
  <2>9. CASE CallSend(t)
    <3>1. [req[t] EXCEPT !.at = "sending"] \in Request
      BY <2>0, <2>9 DEF CallSend, Request
    <3>2. [NoLoop EXCEPT !.stage = "loop", !.mc = modCount] \in Loop
      BY <1>0 DEF NoLoop, Loop, RoomTypeOK
    <3>3. sends' \in [Thread -> Loop]
      BY <1>0, <2>9, <3>2 DEF CallSend, SendBegins
    <3>4. RoomTypeOK'
      BY <1>0, <2>9, <3>3 DEF CallSend, RoomTypeOK
    <3> QED BY <2>0, <2>q, <2>9, <3>1, <3>4 DEF CallSend, TypeOK, servlet, attrs
  <2>10. CASE Deliver(t)
    <3>1. sends' \in [Thread -> Loop] /\ UNCHANGED <<clients, modCount>>
      BY <1>0, <2>10, VisitType DEF Deliver, Visit
    <3>2. RoomTypeOK'
      BY <1>0, <3>1 DEF RoomTypeOK
    <3>3. <<t, calls[t]>> \in Message
      BY <2>h, <2>s, <2>10 DEF Deliver, Visit, Message
    <3>4. inbox' \in [Handle -> SUBSET Message]
      BY <2>10, <3>3 DEF Deliver, TypeOK
    <3> QED BY <2>q, <2>10, <3>2, <3>4 DEF Deliver, TypeOK, servlet, attrs
  <2>11. CASE Deliveries(t)
    <3>1. RoomTypeOK'
      BY <1>0, <2>11 DEF Deliveries, CleanUp, RoomTypeOK, Loop
    <3> QED BY <2>q, <2>11, <3>1 DEF Deliveries, TypeOK, servlet, attrs
  <2>12. CASE SendAnswered(t)
    <3>1. [req[t] EXCEPT !.at = "refresh"] \in Request
      BY <2>0, <2>s, <2>12 DEF SendAnswered, SendReturns, Request
    <3>2. RoomTypeOK'
      BY <1>0, <2>12, NoLoopType DEF SendAnswered, SendReturns, RoomTypeOK
    <3> QED BY <2>0, <2>q, <2>12, <3>1, <3>2 DEF SendAnswered, TypeOK, Request, servlet
  <2>13. CASE SendThrows(t)
    <3>1. RoomTypeOK'
      BY <1>0, <2>13, NoLoopType DEF SendThrows, SendFails, RoomTypeOK
    <3> QED BY <2>0, <2>q, <2>13, <3>1 DEF SendThrows, TypeOK, servlet, attrs
  <2>14. CASE Refresh(t)
    <3>1. [NoRequest EXCEPT !.at = "fetch",
                           !.old = IF HasPage(t) THEN messages[Browser[t]] ELSE {}] \in Request
      BY <2>0 DEF Request, NoRequest, HasPage, TypeOK
    <3>2. ReadList(t) /\ calls' \in [Tab \cup Console -> Nat]
      BY <2>0, <2>14 DEF Refresh, TypeOK
    <3> QED BY <1>0, <2>0, <2>r, <2>q, <3>1, <3>2 DEF ReadList, TypeOK, servlet, attrs, roomVars
  <2>15. CASE Fetch(t)
    <3>1. CASE proxy[Browser[t]] = None
      BY <1>0, <2>0, <2>r, <2>q, <2>15, <3>1 DEF Fetch, TypeOK, servlet, attrs, roomVars
    <3>2. CASE proxy[Browser[t]] # None
      <4> DEFINE h == proxy[Browser[t]]
      <4>1. h \in WebHandle /\ h \in Handle
        BY <2>0, <3>2, HandleAssumption DEF TypeOK
      <4>2. [req[t] EXCEPT !.at = "clear", !.h = h, !.fresh = inbox[h]] \in Request
        BY <2>0, <2>15, <3>2, <4>1 DEF Fetch, Request, TypeOK
      <4>3. req' = [req EXCEPT ![t] = [req[t] EXCEPT !.at = "clear", !.h = h, !.fresh = inbox[h]]]
        BY <2>0, <2>15, <3>2 DEF Fetch
      <4> HIDE DEF h
      <4> QED BY <1>0, <2>0, <2>r, <2>q, <2>15, <4>2, <4>3 DEF Fetch, TypeOK, servlet, attrs, roomVars
    <3> QED BY <3>1, <3>2
  <2>16. CASE Clear(t)
    <3>1. [req[t] EXCEPT !.at = "store"] \in Request
      BY <2>0, <2>16 DEF Clear, Request
    <3>2. inbox' \in [Handle -> SUBSET Message]
      BY <2>16 DEF Clear, ClearMessages, TypeOK
    <3> QED BY <1>0, <2>0, <2>r, <2>q, <2>16, <3>1, <3>2 DEF Clear, TypeOK, servlet, attrs, roomVars
  <2>17. CASE Store(t)
    <3>1. Page(t) \subseteq Copy
      BY <2>0, <2>17 DEF Store, Page, Request, Copy
    <3> QED BY <1>0, <2>0, <2>r, <2>q, <2>17, <3>1 DEF Store, TypeOK, servlet, roomVars
  <2>18. CASE Logout(t)
    <3> DEFINE n == name[Browser[t]]
    <3>1. n \in Name \cup {None} /\ Remove(n) /\ UNCHANGED sends
      BY <2>0, <2>18 DEF Logout, TypeOK
    <3>2. RoomTypeOK'
      BY <1>0, <3>1, MapType DEF MapStep
    <3>3. CASE Taken(n)
      <4>1. n \in Name /\ n # None
        BY <1>0, <3>3, HandleAssumption DEF RoomTypeOK, Taken
      <4>2. [NoRequest EXCEPT !.at = "unlist", !.n = n] \in Request
        BY <4>1 DEF Request, NoRequest
      <4>3. req' = [req EXCEPT ![t] = [NoRequest EXCEPT !.at = "unlist", !.n = n]]
        BY <2>18, <3>3 DEF Logout
      <4> HIDE DEF n
      <4> QED BY <2>0, <2>q, <2>18, <3>2, <4>2, <4>3 DEF Logout, TypeOK, servlet, attrs
    <3>4. CASE ~Taken(n)
      BY <2>0, <2>q, <2>18, <3>2, <3>4 DEF Logout, TypeOK, servlet, attrs
    <3> QED BY <3>3, <3>4
  <2>19. CASE Unlist(t)
    <3>1. [req[t] EXCEPT !.at = "forget"] \in Request
      BY <2>0, <2>19 DEF Unlist, Request
    <3>2. listed' \in [Name -> Nat]
      <4>1. listed[req[t].n] \in Nat
        BY <2>0, <2>19 DEF Unlist, Request, TypeOK
      <4>2. (IF listed[req[t].n] = 0 THEN 0 ELSE listed[req[t].n] - 1) \in Nat
        BY <4>1
      <4> QED BY <2>19, <4>2 DEF Unlist, Unlisted, TypeOK
    <3> QED BY <1>0, <2>0, <2>r, <2>q, <2>19, <3>1, <3>2 DEF Unlist, TypeOK, attrs, roomVars
  <2>20. CASE Forget(t)
    BY <1>0, <2>0, <2>r, <2>q, <2>20 DEF Forget, TypeOK, servlet, attrs, roomVars
  <2> QED BY <1>1, <2>1, <2>2, <2>3, <2>4, <2>5, <2>6, <2>7, <2>8, <2>9, <2>10, <2>11, <2>12, <2>13, <2>14, <2>15, <2>16, <2>17, <2>18, <2>19, <2>20 DEF TabStep
<1> QED BY <1>s, <1>c1, <1>c2, <1>1 DEF Next, TabStep
-----------------------------------------------------------------------------
(* What a step leaves alone.                                               *)

LEMMA OthersStay ==
  ASSUME TypeOK, NEW t \in Tab, TabStep(t), NEW u \in Tab \ {t}
  PROVE  req'[u] = req[u] /\ sends'[u] = sends[u] /\ calls'[u] = calls[u]
<1> USE DEF Calls, Goes, Ends, roomVars
<1>0. /\ req \in [Tab -> Request] /\ sends \in [Tab -> Loop] /\ RoomTypeOK
      /\ calls \in [Tab \cup Console -> Nat]
  BY HandleAssumption DEF TypeOK, RoomTypeOK
<1>1. CASE Login(t)
  BY <1>0, <1>1 DEF Login
<1>2. CASE CheckName(t)
  BY <1>0, <1>2 DEF CheckName
<1>3. CASE SetName(t)
  BY <1>0, <1>3 DEF SetName
<1>4. CASE Subscribe(t)
  BY <1>0, <1>4 DEF Subscribe
<1>5. CASE TakeProxy(t)
  BY <1>0, <1>5 DEF TakeProxy
<1>6. CASE EnterSession(t)
  BY <1>0, <1>6 DEF EnterSession
<1>7. CASE ListName(t)
  BY <1>0, <1>7 DEF ListName
<1>8. CASE Send(t)
  BY <1>0, <1>8 DEF Send
<1>9. CASE CallSend(t)
  BY <1>0, <1>9 DEF CallSend, SendBegins
<1>10. CASE Deliver(t)
  BY <1>0, <1>10, VisitType DEF Deliver
<1>11. CASE Deliveries(t)
  BY <1>0, <1>11 DEF Deliveries, CleanUp
<1>12. CASE SendAnswered(t)
  BY <1>0, <1>12 DEF SendAnswered, SendReturns
<1>13. CASE SendThrows(t)
  BY <1>0, <1>13 DEF SendThrows, SendFails
<1>14. CASE Refresh(t)
  BY <1>0, <1>14 DEF Refresh, ReadList
<1>15. CASE Fetch(t)
  BY <1>0, <1>15 DEF Fetch
<1>16. CASE Clear(t)
  BY <1>0, <1>16 DEF Clear
<1>17. CASE Store(t)
  BY <1>0, <1>17 DEF Store
<1>18. CASE Logout(t)
  BY <1>0, <1>18 DEF Logout
<1>19. CASE Unlist(t)
  BY <1>0, <1>19 DEF Unlist
<1>20. CASE Forget(t)
  BY <1>0, <1>20 DEF Forget
<1> QED BY <1>1, <1>2, <1>3, <1>4, <1>5, <1>6, <1>7, <1>8, <1>9, <1>10, <1>11, <1>12, <1>13, <1>14, <1>15, <1>16, <1>17, <1>18, <1>19, <1>20 DEF TabStep

ConsoleStep(c) == ConsoleSubscribe(c) \/ ConsoleUnsubscribe(c)

LEMMA ConsoleStays ==
  ASSUME TypeOK, NEW c \in Console, ConsoleStep(c)
  PROVE  UNCHANGED <<sends, servlet, attrs, inbox, req>> /\ \A t \in Tab : calls'[t] = calls[t]
BY HandleAssumption DEF ConsoleStep, ConsoleSubscribe, ConsoleUnsubscribe, Calls, TypeOK

-----------------------------------------------------------------------------
(* Counts, stages and positions.                                           *)

LEMMA NextCounts ==
  ASSUME TypeOK, CallsInv, SendInv, PosInv, NEW t \in Tab, TabStep(t)
  PROVE  CallsInv' /\ SendInv' /\ PosInv'
<1> USE DEF Calls, At, Goes, Ends, NoRequest, roomVars
<1>0. /\ req \in [Tab -> Request] /\ sends \in [Tab -> Loop] /\ RoomTypeOK
      /\ calls \in [Tab \cup Console -> Nat] /\ MaxCalls[t] \in Nat
  BY HandleAssumption, BrowserAssumption DEF TypeOK, RoomTypeOK
<1>a. /\ calls[t] <= MaxCalls[t] /\ (~At(t, "idle") => calls[t] >= 1) /\ calls[t] \in Nat
      /\ At(t, "sending") <=> sends[t].stage # "none"
      /\ \A n \in Name, h \in Handle : <<n, h>> \in sends[t].seen => Order[n] <= sends[t].pos
  BY <1>0 DEF CallsInv, SendInv, PosInv
<1> DEFINE Good ==
      /\ calls'[t] <= MaxCalls[t] /\ (~At(t, "idle") => calls[t] >= 1)'
      /\ (At(t, "sending") <=> sends[t].stage # "none")'
      /\ \A n \in Name, h \in Handle : <<n, h>> \in sends'[t].seen => Order[n] <= sends'[t].pos
<1>b. Good
  <2>1. CASE Login(t)
    <3>1. req'[t].at = "check" /\ UNCHANGED sends
      BY <1>0, <2>1 DEF Login
    <3>2. calls[t] < MaxCalls[t] /\ calls'[t] = calls[t] + 1
      BY <1>0, <2>1 DEF Login
    <3> QED BY <1>0, <1>a, <2>1, <3>1, <3>2 DEF Login
  <2>2. CASE CheckName(t)
    <3>1. req'[t].at \in {"idle", "name"} /\ UNCHANGED <<sends, calls>>
      BY <1>0, <2>2 DEF CheckName, Request
    <3> QED BY <1>a, <2>2, <3>1 DEF CheckName
  <2>3. CASE SetName(t)
    BY <1>0, <1>a, <2>3 DEF SetName
  <2>4. CASE Subscribe(t)
    BY <1>0, <1>a, <2>4 DEF Subscribe
  <2>5. CASE TakeProxy(t)
    BY <1>0, <1>a, <2>5 DEF TakeProxy
  <2>6. CASE EnterSession(t)
    BY <1>0, <1>a, <2>6 DEF EnterSession
  <2>7. CASE ListName(t)
    BY <1>0, <1>a, <2>7 DEF ListName
  <2>8. CASE Send(t)
    BY <1>0, <1>a, <2>8 DEF Send
  <2>9. CASE CallSend(t)
    <3>1. CASE chatProxy
      <4>1. req'[t].at = "sending" /\ UNCHANGED calls
        BY <1>0, <2>9, <3>1 DEF CallSend, Request
      <4>2. SendBegins(t)
        BY <2>9, <3>1 DEF CallSend
      <4>3. sends'[t] = [NoLoop EXCEPT !.stage = "loop", !.mc = modCount]
        BY <1>0, <4>2 DEF SendBegins
      <4>4. sends'[t].stage = "loop" /\ sends'[t].seen = {}
        BY <4>3 DEF NoLoop
      <4> QED BY <1>a, <2>9, <4>1, <4>4 DEF CallSend
    <3>2. CASE ~chatProxy
      <4>1. req'[t].at = "idle" /\ UNCHANGED <<sends, calls>>
        BY <1>0, <2>9, <3>2 DEF CallSend
      <4> QED BY <1>a, <2>9, <4>1 DEF CallSend
    <3> QED BY <3>1, <3>2
  <2>10. CASE Deliver(t)
    <3>1. PICK n \in DOMAIN clients :
            /\ Order[n] > sends[t].pos /\ Order[n] \in Nat
            /\ sends'[t].pos = Order[n] /\ sends'[t].stage = "loop"
            /\ sends'[t].seen = sends[t].seen \cup {<<n, clients[n]>>}
      BY <1>0, <2>10, VisitType DEF Deliver
    <3>2. \A m \in Name : Order[m] \in Nat
      BY OrderAssumption
    <3>3. sends[t].stage = "loop" /\ sends[t].pos \in Nat
      BY <1>0, <2>10 DEF Deliver, Visit, Loop
    <3> QED BY <1>0, <1>a, <2>10, <3>1, <3>2, <3>3 DEF Deliver
  <2>11. CASE Deliveries(t)
    BY <1>0, <1>a, <2>11 DEF Deliveries, CleanUp, LoopDone
  <2>12. CASE SendAnswered(t)
    BY <1>0, <1>a, <2>12 DEF SendAnswered, SendReturns, NoLoop
  <2>13. CASE SendThrows(t)
    BY <1>0, <1>a, <2>13 DEF SendThrows, SendFails, NoLoop, LoopDone
  <2>14. CASE Refresh(t)
    <3>1. req'[t].at = "fetch" /\ UNCHANGED sends
      BY <1>0, <2>14 DEF Refresh, ReadList
    <3>2. \/ At(t, "idle") /\ calls[t] < MaxCalls[t] /\ calls'[t] = calls[t] + 1
          \/ At(t, "refresh") /\ UNCHANGED calls
      BY <1>0, <2>14 DEF Refresh
    <3> QED BY <1>0, <1>a, <3>1, <3>2
  <2>15. CASE Fetch(t)
    <3>1. CASE proxy[Browser[t]] = None
      BY <1>0, <1>a, <2>15, <3>1 DEF Fetch
    <3>2. CASE proxy[Browser[t]] # None
      <4>1. req'[t].at = "clear" /\ UNCHANGED <<sends, calls>>
        BY <1>0, <2>15, <3>2 DEF Fetch, Request
      <4> QED BY <1>a, <2>15, <4>1 DEF Fetch
    <3> QED BY <3>1, <3>2
  <2>16. CASE Clear(t)
    BY <1>0, <1>a, <2>16 DEF Clear
  <2>17. CASE Store(t)
    BY <1>0, <1>a, <2>17 DEF Store
  <2>18. CASE Logout(t)
    <3>1. req'[t].at \in {"idle", "unlist"} /\ UNCHANGED sends
      BY <1>0, <2>18 DEF Logout
    <3>2. calls[t] < MaxCalls[t] /\ calls'[t] = calls[t] + 1
      BY <1>0, <2>18 DEF Logout
    <3> QED BY <1>0, <1>a, <2>18, <3>1, <3>2 DEF Logout
  <2>19. CASE Unlist(t)
    BY <1>0, <1>a, <2>19 DEF Unlist
  <2>20. CASE Forget(t)
    BY <1>0, <1>a, <2>20 DEF Forget
  <2> QED BY <2>1, <2>2, <2>3, <2>4, <2>5, <2>6, <2>7, <2>8, <2>9, <2>10, <2>11, <2>12, <2>13, <2>14, <2>15, <2>16, <2>17, <2>18, <2>19, <2>20 DEF TabStep
<1>c. \A u \in Tab \ {t} : req'[u] = req[u] /\ sends'[u] = sends[u] /\ calls'[u] = calls[u]
  BY OthersStay
<1> QED BY <1>b, <1>c DEF CallsInv, SendInv, PosInv

-----------------------------------------------------------------------------
(* Handles and names.                                                      *)

\* A loop sees what it has seen before, and the name it comes to.
LEMMA SeenStep ==
  ASSUME TypeOK, NEW t \in Tab, TabStep(t), NEW u \in Tab, NEW n, NEW h,
         <<n, h>> \in sends'[u].seen, <<n, h>> \notin sends[u].seen
  PROVE  /\ Deliver(t) /\ u = t
         /\ n \in DOMAIN clients /\ clients[n] = h /\ Order[n] > sends[t].pos
<1>0. sends \in [Tab -> Loop] /\ RoomTypeOK
  BY HandleAssumption DEF TypeOK, RoomTypeOK
<1>1. u = t
  BY OthersStay
<1>2. CASE Deliver(t)
  <2>1. PICK m \in DOMAIN clients :
          Order[m] > sends[t].pos /\ sends'[t].seen = sends[t].seen \cup {<<m, clients[m]>>}
    BY <1>0, <1>2, VisitType DEF Deliver
  <2> QED BY <1>1, <1>2, <2>1
<1>3. ASSUME ~Deliver(t) PROVE sends'[t].seen \subseteq sends[t].seen
  <2>1. CASE CallSend(t)
    <3>1. CASE SendBegins(t)
      <4>1. sends'[t] = [NoLoop EXCEPT !.stage = "loop", !.mc = modCount]
        BY <1>0, <3>1 DEF SendBegins
      <4> QED BY <4>1 DEF NoLoop
    <3>2. CASE UNCHANGED sends
      BY <3>2
    <3> QED BY <2>1, <3>1, <3>2 DEF CallSend
  <2>2. CASE Deliveries(t)
    BY <1>0, <2>2 DEF Deliveries, CleanUp
  <2>3. CASE SendAnswered(t) \/ SendThrows(t)
    BY <1>0, <2>3 DEF SendAnswered, SendReturns, SendThrows, SendFails, NoLoop
  <2>4. CASE UNCHANGED sends
    BY <2>4
  <2> QED BY <1>3, <2>1, <2>2, <2>3, <2>4
          DEF TabStep, Login, CheckName, SetName, TakeProxy, EnterSession,
                  ListName, Send, Refresh, Fetch, Clear, Store, Unlist,
                  Forget, ReadList, Subscribe, Logout, roomVars
<1> QED BY <1>1, <1>2, <1>3

\* An entry of the map is an old one or that of a login.
LEMMA EntryStep ==
  ASSUME TypeOK, NEW t \in Tab, TabStep(t), NEW n \in DOMAIN clients'
  PROVE  \/ n \in DOMAIN clients /\ clients'[n] = clients[n]
         \/ Subscribe(t) /\ n = req[t].n /\ clients'[n] = <<t, calls[t]>>
<1>1. CASE Subscribe(t)
  <2>1. PutIfAbsent(req[t].n, <<t, calls[t]>>)
    BY <1>1 DEF Subscribe
  <2>2. CASE Put(req[t].n, <<t, calls[t]>>)
    <3> DEFINE m == req[t].n
               h == <<t, calls[t]>>
    <3>1. /\ DOMAIN clients' = DOMAIN clients \cup {m} /\ clients'[m] = h
          /\ \A i \in DOMAIN clients \ {m} : clients'[i] = clients[i]
      BY <2>2, PutMap
    <3> QED BY <1>1, <3>1
  <2>3. CASE UNCHANGED clients
    BY <2>3
  <2> QED BY <2>1, <2>2, <2>3 DEF PutIfAbsent
<1>2. CASE Logout(t)
  <2>1. Remove(name[Browser[t]])
    BY <1>2 DEF Logout
  <2> QED BY <2>1, RemoveMap
<1>3. CASE UNCHANGED clients
  BY <1>3
<1> QED BY <1>1, <1>2, <1>3
        DEF TabStep, Login, CheckName, SetName, TakeProxy, EnterSession,
                ListName, Send, Refresh, Fetch, Clear, Store, Unlist, Forget,
                ReadList, CallSend, SendBegins, Deliver, Visit, Deliveries,
                CleanUp,
            SendAnswered, SendReturns, SendThrows, SendFails, roomVars

LEMMA ConsoleEntry ==
  ASSUME TypeOK, NEW c \in Console, ConsoleStep(c), NEW n \in DOMAIN clients'
  PROVE  \/ n \in DOMAIN clients /\ clients'[n] = clients[n]
         \/ clients'[n] = c
<1>1. ASSUME NEW m, PutIfAbsent(m, c)
      PROVE  \/ n \in DOMAIN clients /\ clients'[n] = clients[n]
             \/ clients'[n] = c
  <2>1. CASE Put(m, c)
    BY <2>1, PutMap
  <2> QED BY <1>1, <2>1 DEF PutIfAbsent
<1>2. ASSUME NEW m, Remove(m)
      PROVE  n \in DOMAIN clients /\ clients'[n] = clients[n]
  BY <1>2, RemoveMap
<1> QED BY <1>1, <1>2 DEF ConsoleStep, ConsoleSubscribe, ConsoleUnsubscribe

\* So a handle comes into use by its own login only.
LEMMA UsedStep ==
  ASSUME TypeOK, NEW t \in Tab, TabStep(t), NEW h \in WebHandle, NEW n \in Name,
         Used(h, n)', ~Used(h, n)
  PROVE  Subscribe(t) /\ h = <<t, calls[t]>> /\ n = req[t].n
<1>1. CASE n \in DOMAIN clients' /\ clients'[n] = h
  BY <1>1, EntryStep DEF Used
<1>2. CASE \E u \in Tab : <<n, h>> \in sends'[u].seen
  <2>1. PICK u \in Tab : <<n, h>> \in sends'[u].seen
    BY <1>2
  <2>2. <<n, h>> \notin sends[u].seen
    BY DEF Used
  <2>3. n \in DOMAIN clients /\ clients[n] = h
    BY <2>1, <2>2, SeenStep
  <2> QED BY <2>3 DEF Used
<1> QED BY <1>1, <1>2 DEF Used

LEMMA CallStep ==
  ASSUME TypeOK, NEW t \in Tab, TabStep(t)
  PROVE  /\ calls[t] \in Nat
         /\ calls'[t] = calls[t] \/ calls'[t] = calls[t] + 1
         /\ calls'[t] = calls[t] /\ BeforePut(t)' => BeforePut(t)
<1> USE DEF Calls, At, Goes, Ends, roomVars, BeforePut
<1>0. req \in [Tab -> Request] /\ calls \in [Tab \cup Console -> Nat] /\ req[t] \in Request
  BY DEF TypeOK
<1>1. CASE Calls(t)
  BY <1>0, <1>1
<1>2. CASE UNCHANGED calls
  <2>1. CASE UNCHANGED req
    BY <1>0, <1>2, <2>1
  <2>2. CASE req'[t].at \notin {"check", "name", "subscribe"}
    BY <1>0, <1>2, <2>2
  <2>3. CASE BeforePut(t)
    BY <1>0, <1>2, <2>3
  <2> QED
    <3>1. CASE CheckName(t)
      BY <1>0, <1>2, <2>1, <2>2, <2>3, <3>1 DEF CheckName, NoRequest
    <3>2. CASE SetName(t)
      BY <1>0, <1>2, <2>1, <2>2, <2>3, <3>2 DEF SetName, NoRequest
    <3>3. CASE Subscribe(t)
      BY <1>0, <1>2, <2>1, <2>2, <2>3, <3>3 DEF Subscribe, NoRequest
    <3>4. CASE TakeProxy(t)
      BY <1>0, <1>2, <2>1, <2>2, <2>3, <3>4 DEF TakeProxy, NoRequest
    <3>5. CASE EnterSession(t)
      BY <1>0, <1>2, <2>1, <2>2, <2>3, <3>5 DEF EnterSession, NoRequest
    <3>6. CASE ListName(t)
      BY <1>0, <1>2, <2>1, <2>2, <2>3, <3>6 DEF ListName, NoRequest
    <3>7. CASE CallSend(t)
      <4>1. req'[t].at \notin {"check", "name", "subscribe"}
        BY <1>0, <3>7 DEF CallSend, NoRequest, Request
      <4> QED BY <2>2, <4>1
    <3>8. CASE Deliver(t)
      BY <1>0, <1>2, <2>1, <2>2, <2>3, <3>8 DEF Deliver, NoRequest
    <3>9. CASE Deliveries(t)
      BY <1>0, <1>2, <2>1, <2>2, <2>3, <3>9 DEF Deliveries, NoRequest
    <3>10. CASE SendAnswered(t)
      BY <1>0, <1>2, <2>1, <2>2, <2>3, <3>10 DEF SendAnswered, NoRequest
    <3>11. CASE SendThrows(t)
      BY <1>0, <1>2, <2>1, <2>2, <2>3, <3>11 DEF SendThrows, NoRequest
    <3>12. CASE Refresh(t)
      BY <1>0, <1>2, <2>1, <2>2, <2>3, <3>12 DEF Refresh, ReadList, NoRequest
    <3>13. CASE Fetch(t)
      <4>1. req'[t].at \notin {"check", "name", "subscribe"}
        BY <1>0, <3>13 DEF Fetch, NoRequest, Request
      <4> QED BY <2>2, <4>1
    <3>14. CASE Clear(t)
      BY <1>0, <1>2, <2>1, <2>2, <2>3, <3>14 DEF Clear, NoRequest
    <3>15. CASE Store(t)
      BY <1>0, <1>2, <2>1, <2>2, <2>3, <3>15 DEF Store, NoRequest
    <3>16. CASE Unlist(t)
      BY <1>0, <1>2, <2>1, <2>2, <2>3, <3>16 DEF Unlist, NoRequest
    <3>17. CASE Forget(t)
      BY <1>0, <1>2, <2>1, <2>2, <2>3, <3>17 DEF Forget, NoRequest
    <3>18. CASE Login(t) \/ Send(t) \/ Logout(t)
      BY <1>1, <3>18 DEF Login, Send, Logout
    <3> QED BY <3>1, <3>2, <3>3, <3>4, <3>5, <3>6, <3>7, <3>8, <3>9, <3>10, <3>11,
            <3>12, <3>13, <3>14, <3>15, <3>16, <3>17, <3>18 DEF TabStep
<1> QED BY <1>1, <1>2
        DEF TabStep, Login, CheckName, SetName, Subscribe, TakeProxy,
                EnterSession, ListName, Send, CallSend, Deliver, Deliveries,
                SendAnswered, SendThrows, Refresh, Fetch, Clear, Store, Logout,
                Unlist, Forget

LEMMA NextHandles ==
  ASSUME Inv, NEW t \in Tab, TabStep(t)
  PROVE  OneName' /\ FreshHandle'
<1>0. TypeOK /\ OneName /\ FreshHandle /\ CallsInv
  BY DEF Inv
<1>1. /\ calls[t] \in Nat
      /\ calls'[t] = calls[t] \/ calls'[t] = calls[t] + 1
      /\ calls'[t] = calls[t] /\ BeforePut(t)' => BeforePut(t)
  BY <1>0, CallStep
<1>2. ASSUME Subscribe(t)
      PROVE  \A n \in Name : ~Used(<<t, calls[t]>>, n)
  <2>1. BeforePut(t) /\ ~At(t, "idle")
    BY <1>2 DEF Subscribe, At, BeforePut
  <2>2. calls[t] \in 1..MaxCalls[t]
    BY <1>0, <1>1, <2>1, BrowserAssumption DEF CallsInv
  <2> QED BY <1>0, <1>1, <2>1, <2>2 DEF FreshHandle
<1>3. OneName'
  <2> SUFFICES ASSUME NEW h \in WebHandle, NEW m \in Name, NEW n \in Name,
                      Used(h, m)', Used(h, n)'
               PROVE  m = n
    BY DEF OneName
  <2>1. CASE Used(h, m) /\ Used(h, n)
    BY <1>0, <2>1 DEF OneName
  <2>2. CASE ~Used(h, m)
    <3>1. Subscribe(t) /\ h = <<t, calls[t]>> /\ m = req[t].n
      BY <1>0, <2>2, UsedStep
    <3>2. ~Used(h, n)
      BY <1>2, <3>1
    <3>3. n = req[t].n
      BY <1>0, <3>2, UsedStep
    <3> QED BY <3>1, <3>3
  <2>3. CASE ~Used(h, n)
    <3>1. Subscribe(t) /\ h = <<t, calls[t]>> /\ n = req[t].n
      BY <1>0, <2>3, UsedStep
    <3>2. ~Used(h, m)
      BY <1>2, <3>1
    <3>3. m = req[t].n
      BY <1>0, <3>2, UsedStep
    <3> QED BY <3>1, <3>3
  <2> QED BY <2>1, <2>2, <2>3
<1>4. FreshHandle'
  <2> SUFFICES ASSUME NEW u \in Tab, NEW k \in 1..MaxCalls[u], NEW n \in Name,
                      Used(<<u, k>>, n)'
               PROVE  k < calls'[u] \/ (k = calls'[u] /\ ~BeforePut(u)')
    BY DEF FreshHandle
  <2>0. <<u, k>> \in WebHandle
    BY DEF WebHandle, HandlesOf
  <2>1. CASE Used(<<u, k>>, n)
    <3>1. k < calls[u] \/ (k = calls[u] /\ ~BeforePut(u))
      BY <1>0, <2>1 DEF FreshHandle
    <3>2. CASE u = t
      <4>1. k \in Nat
        BY BrowserAssumption
      <4> QED BY <1>1, <3>1, <3>2, <4>1
    <3>3. CASE u # t
      <4>1. req'[u] = req[u] /\ calls'[u] = calls[u]
        BY <1>0, <3>3, OthersStay
      <4> QED BY <3>1, <4>1 DEF BeforePut
    <3> QED BY <3>2, <3>3
  <2>2. CASE ~Used(<<u, k>>, n)
    <3>1. Subscribe(t) /\ <<u, k>> = <<t, calls[t]>>
      BY <1>0, <2>0, <2>2, UsedStep
    <3>2. u = t /\ k = calls[t]
      BY <3>1
    <3>3. calls' = calls /\ ~BeforePut(t)'
      BY <1>0, <3>1 DEF Subscribe, BeforePut, TypeOK, Request
    <3> QED BY <3>2, <3>3
  <2> QED BY <2>1, <2>2
<1> QED BY <1>3, <1>4

-----------------------------------------------------------------------------
(* The lists.                                                              *)

LEMMA OldStep ==
  ASSUME TypeOK, NEW t \in Tab, TabStep(t), NEW c \in req'[t].old, c \notin req[t].old
  PROVE  messages[Browser[t]] # None /\ c \in messages[Browser[t]]
<1> USE DEF At, Goes, Ends, roomVars
<1>0. req \in [Tab -> Request] /\ req[t] \in Request
  BY DEF TypeOK
<1>1. CASE Login(t)
  <2>1. req'[t].old = {}
    BY <1>0, <1>1 DEF Login, NoRequest
  <2> QED BY <2>1
<1>2. CASE CheckName(t)
  <2>1. req'[t].old \in {{}, req[t].old}
    BY <1>0, <1>2 DEF CheckName, NoRequest, Request
  <2> QED BY <2>1
<1>3. CASE SetName(t)
  BY <1>0, <1>3 DEF SetName, NoRequest, Request, ReadList, SendReturns, SendFails
<1>4. CASE Subscribe(t)
  <2>1. req'[t].old = req[t].old
    BY <1>0, <1>4 DEF Subscribe, Request
  <2> QED BY <2>1
<1>5. CASE TakeProxy(t)
  BY <1>0, <1>5 DEF TakeProxy, NoRequest, Request, ReadList, SendReturns, SendFails
<1>6. CASE EnterSession(t)
  BY <1>0, <1>6 DEF EnterSession, NoRequest, Request, ReadList, SendReturns, SendFails
<1>7. CASE ListName(t)
  BY <1>0, <1>7 DEF ListName, NoRequest, Request, ReadList, SendReturns, SendFails
<1>8. CASE Send(t)
  <2>1. req'[t].old = messages[Browser[t]] /\ HasPage(t)
    BY <1>0, <1>8 DEF Send, NoRequest
  <2> QED BY <2>1 DEF HasPage
<1>9. CASE CallSend(t)
  <2>1. req'[t].old \in {{}, req[t].old}
    BY <1>0, <1>9 DEF CallSend, NoRequest, Request
  <2> QED BY <2>1
<1>10. CASE Deliver(t)
  BY <1>0, <1>10 DEF Deliver, NoRequest, Request, ReadList, SendReturns, SendFails
<1>11. CASE Deliveries(t)
  BY <1>0, <1>11 DEF Deliveries, NoRequest, Request, ReadList, SendReturns, SendFails
<1>12. CASE SendAnswered(t)
  BY <1>0, <1>12 DEF SendAnswered, NoRequest, Request, ReadList, SendReturns, SendFails
<1>13. CASE SendThrows(t)
  BY <1>0, <1>13 DEF SendThrows, NoRequest, Request, ReadList, SendReturns, SendFails
<1>14. CASE Refresh(t)
  <2>1. req'[t].old = IF HasPage(t) THEN messages[Browser[t]] ELSE {}
    BY <1>0, <1>14 DEF Refresh, ReadList, NoRequest
  <2> QED BY <2>1 DEF HasPage
<1>15. CASE Fetch(t)
  <2>1. req'[t].old \in {{}, req[t].old}
    BY <1>0, <1>15 DEF Fetch, NoRequest, Request
  <2> QED BY <2>1
<1>16. CASE Clear(t)
  BY <1>0, <1>16 DEF Clear, NoRequest, Request, ReadList, SendReturns, SendFails
<1>17. CASE Store(t)
  BY <1>0, <1>17 DEF Store, NoRequest, Request, ReadList, SendReturns, SendFails
<1>18. CASE Logout(t)
  <2>1. req'[t].old \in {{}, req[t].old}
    BY <1>0, <1>18 DEF Logout, NoRequest
  <2> QED BY <2>1
<1>19. CASE Unlist(t)
  BY <1>0, <1>19 DEF Unlist, NoRequest, Request, ReadList, SendReturns, SendFails
<1>20. CASE Forget(t)
  BY <1>0, <1>20 DEF Forget, NoRequest, Request, ReadList, SendReturns, SendFails
<1> QED BY <1>1, <1>2, <1>3, <1>4, <1>5, <1>6, <1>7, <1>8, <1>9, <1>10, <1>11, <1>12,
        <1>13, <1>14, <1>15, <1>16, <1>17, <1>18, <1>19, <1>20 DEF TabStep

\* What a request comes to clear and to store.
LEMMA FreshStep ==
  ASSUME TypeOK, NEW t \in Tab, TabStep(t), req'[t].at \in {"clear", "store"}
  PROVE  \/ UNCHANGED req[t]
         \/ /\ Clear(t) /\ req'[t].at = "store" /\ req'[t].h = req[t].h
            /\ req'[t].fresh = req[t].fresh /\ req'[t].old = req[t].old
         \/ /\ Fetch(t) /\ req'[t].at = "clear" /\ req'[t].h = proxy[Browser[t]]
            /\ req'[t].h # None
            /\ req'[t].fresh = inbox[req'[t].h] /\ req'[t].old = req[t].old
<1> USE DEF At, Goes, Ends, roomVars
<1>0. req \in [Tab -> Request] /\ req[t] \in Request
  BY DEF TypeOK
<1>1. CASE Login(t)
  <2>1. req'[t].at \notin {"clear", "store"}
    BY <1>0, <1>1 DEF Login, NoRequest, Request
  <2> QED BY <2>1
<1>2. CASE CheckName(t)
  <2>1. req'[t].at \notin {"clear", "store"}
    BY <1>0, <1>2 DEF CheckName, NoRequest, Request
  <2> QED BY <2>1
<1>3. CASE SetName(t)
  BY <1>0, <1>3 DEF SetName, NoRequest, Request, ReadList, SendReturns, SendFails
<1>4. CASE Subscribe(t)
  <2>1. req'[t].at \notin {"clear", "store"}
    BY <1>0, <1>4 DEF Subscribe, NoRequest, Request
  <2> QED BY <2>1
<1>5. CASE TakeProxy(t)
  BY <1>0, <1>5 DEF TakeProxy, NoRequest, Request, ReadList, SendReturns, SendFails
<1>6. CASE EnterSession(t)
  BY <1>0, <1>6 DEF EnterSession, NoRequest, Request, ReadList, SendReturns, SendFails
<1>7. CASE ListName(t)
  BY <1>0, <1>7 DEF ListName, NoRequest, Request, ReadList, SendReturns, SendFails
<1>8. CASE Send(t)
  <2>1. req'[t].at \notin {"clear", "store"}
    BY <1>0, <1>8 DEF Send, NoRequest, Request
  <2> QED BY <2>1
<1>9. CASE CallSend(t)
  <2>1. req'[t].at \notin {"clear", "store"}
    BY <1>0, <1>9 DEF CallSend, NoRequest, Request
  <2> QED BY <2>1
<1>10. CASE Deliver(t)
  BY <1>10 DEF Deliver
<1>11. CASE Deliveries(t)
  BY <1>11 DEF Deliveries
<1>12. CASE SendAnswered(t)
  BY <1>0, <1>12 DEF SendAnswered, NoRequest, Request, ReadList, SendReturns, SendFails
<1>13. CASE SendThrows(t)
  BY <1>0, <1>13 DEF SendThrows, NoRequest, Request, ReadList, SendReturns, SendFails
<1>14. CASE Refresh(t)
  <2>1. ReadList(t)
    BY <1>14 DEF Refresh
  <2>2. req'[t].at = "fetch"
    BY <1>0, <2>1 DEF ReadList, NoRequest
  <2> QED BY <2>2
<1>15. CASE Fetch(t)
  <2> DEFINE p == proxy[Browser[t]]
  <2>1. CASE p = None
    BY <1>0, <1>15, <2>1 DEF Fetch, NoRequest
  <2>2. CASE p # None
    <3>1. req' = [req EXCEPT ![t] = [req[t] EXCEPT !.at = "clear", !.h = p, !.fresh = inbox[p]]]
      BY <1>0, <1>15, <2>2 DEF Fetch
    <3>2. req'[t] = [req[t] EXCEPT !.at = "clear", !.h = p, !.fresh = inbox[p]]
      BY <1>0, <3>1
    <3>3. /\ req'[t].at = "clear" /\ req'[t].h = p
          /\ req'[t].fresh = inbox[p] /\ req'[t].old = req[t].old
      BY <1>0, <3>2 DEF Request
    <3> QED BY <1>15, <2>2, <3>3
  <2> QED BY <2>1, <2>2
<1>16. CASE Clear(t)
  <2>1. req'[t] = [req[t] EXCEPT !.at = "store"]
    BY <1>0, <1>16 DEF Clear
  <2>2. /\ req'[t].at = "store" /\ req'[t].h = req[t].h
        /\ req'[t].fresh = req[t].fresh /\ req'[t].old = req[t].old
    BY <1>0, <2>1 DEF Request
  <2> QED BY <1>16, <2>2
<1>17. CASE Store(t)
  BY <1>0, <1>17 DEF Store, NoRequest, Request, ReadList, SendReturns, SendFails
<1>18. CASE Logout(t)
  <2>1. req'[t] = req[t] \/ req'[t].at = "unlist"
    BY <1>0, <1>18 DEF Logout, NoRequest
  <2> QED BY <2>1
<1>19. CASE Unlist(t)
  BY <1>0, <1>19 DEF Unlist, NoRequest, Request, ReadList, SendReturns, SendFails
<1>20. CASE Forget(t)
  BY <1>0, <1>20 DEF Forget, NoRequest, Request, ReadList, SendReturns, SendFails
<1> QED BY <1>1, <1>2, <1>3, <1>4, <1>5, <1>6, <1>7, <1>8, <1>9, <1>10, <1>11, <1>12,
        <1>13, <1>14, <1>15, <1>16, <1>17, <1>18, <1>19, <1>20 DEF TabStep

LEMMA InboxStep ==
  ASSUME TypeOK, NEW t \in Tab, TabStep(t), NEW h \in Handle, NEW m \in inbox'[h], m \notin inbox[h]
  PROVE  /\ Deliver(t) /\ m = <<t, calls[t]>>
         /\ \E n \in Name : <<n, h>> \in sends'[t].seen \ sends[t].seen
<1>1. CASE Deliver(t)
  BY <1>1 DEF Deliver
<1>2. CASE Clear(t)
  BY <1>2 DEF Clear, ClearMessages, TypeOK
<1>3. CASE UNCHANGED inbox
  BY <1>3
<1> QED BY <1>1, <1>2, <1>3 DEF TabStep, Login, CheckName, SetName, Subscribe,
        TakeProxy, EnterSession, ListName, Send, CallSend, Deliveries, SendAnswered,
        SendThrows, Refresh, Fetch, Store, Logout, Unlist, Forget, ReadList

LEMMA OutStep ==
  ASSUME TypeOK, NEW t \in Tab, TabStep(t), NEW m \in Message, NEW h \in WebHandle,
         Out(m, h)', ~Out(m, h)
  PROVE  Clear(t) /\ h = req[t].h /\ m \in req[t].fresh
<1>0. req \in [Tab -> Request] /\ req[t] \in Request /\ Browser[t] \in Session
  BY BrowserAssumption DEF TypeOK
<1>1. ASSUME NEW s \in Session, messages'[s] # None, <<m, h>> \in messages'[s]
      PROVE  FALSE
  <2>1. CASE SendAnswered(t)
    <3>1. <<m, h>> \in req[t].old \/ messages'[s] = messages[s]
      BY <1>0, <1>1, <2>1 DEF SendAnswered, TypeOK
    <3> QED BY <1>1, <3>1 DEF Out
  <2>2. CASE Store(t)
    <3>1. <<m, h>> \in Page(t) \/ messages'[s] = messages[s]
      BY <1>0, <1>1, <2>2 DEF Store, TypeOK
    <3> QED BY <1>1, <2>2, <3>1 DEF Out, Page, Store
  <2>3. CASE UNCHANGED messages
    BY <1>1, <2>3 DEF Out
  <2> QED BY <2>1, <2>2, <2>3 DEF TabStep, Login, CheckName, SetName, Subscribe,
          TakeProxy, EnterSession, ListName, Send, CallSend, Deliver, Deliveries,
          SendThrows, Refresh, Fetch, Clear, Logout, Unlist, Forget, ReadList, attrs
<1>2. ASSUME NEW u \in Tab, <<m, h>> \in req'[u].old
      PROVE  FALSE
  <2>1. <<m, h>> \notin req[u].old
    BY DEF Out
  <2>2. u = t
    BY <1>2, <2>1, OthersStay
  <2>3. messages[Browser[t]] # None /\ <<m, h>> \in messages[Browser[t]]
    BY <1>2, <2>1, <2>2, OldStep
  <2> QED BY <1>0, <2>3 DEF Out
<1>3. ASSUME NEW u \in Tab, req'[u].at = "store", req'[u].h = h, m \in req'[u].fresh
      PROVE  Clear(t) /\ h = req[t].h /\ m \in req[t].fresh
  <2>1. ~(req[u].at = "store" /\ req[u].h = h /\ m \in req[u].fresh)
    BY DEF Out, At
  <2>2. u = t
    BY <1>3, <2>1, OthersStay
  <2> QED BY <1>3, <2>1, <2>2, FreshStep
<1> QED BY <1>1, <1>2, <1>3 DEF Out, At

LEMMA FetchedStep ==
  ASSUME TypeOK, NEW t \in Tab, TabStep(t), NEW m \in Message, NEW h \in WebHandle,
         Fetched(m, h)', ~Fetched(m, h)
  PROVE  m \in inbox[h]
<1>1. PICK u \in Tab : req'[u].at = "clear" /\ req'[u].h = h /\ m \in req'[u].fresh
  BY DEF Fetched, At
<1>2. ~(req[u].at = "clear" /\ req[u].h = h /\ m \in req[u].fresh)
  BY DEF Fetched, At
<1>3. u = t
  BY <1>1, <1>2, OthersStay
<1> QED BY <1>1, <1>2, <1>3, FreshStep

\* A message is new when it is about to be sent, and a loop goes on where it was.
LEMMA SendStage ==
  ASSUME TypeOK, NEW t \in Tab, TabStep(t), calls'[t] = calls[t], At(t, "send")'
  PROVE  At(t, "send")
<1> USE DEF At, Goes, Ends, Calls, roomVars
<1>0. req \in [Tab -> Request] /\ req[t] \in Request
      /\ calls \in [Tab \cup Console -> Nat] /\ calls[t] \in Nat
  BY DEF TypeOK
<1>1. CASE Login(t)
  <2>1. req'[t].at # "send"
    BY <1>0, <1>1 DEF Login, NoRequest, Request
  <2> QED BY <2>1
<1>2. CASE CheckName(t)
  <2>1. req'[t].at # "send"
    BY <1>0, <1>2 DEF CheckName, NoRequest, Request
  <2> QED BY <2>1
<1>3. CASE SetName(t)
  BY <1>0, <1>3 DEF SetName, NoRequest, Request, SendReturns, SendFails
<1>4. CASE Subscribe(t)
  <2>1. req'[t].at # "send"
    BY <1>0, <1>4 DEF Subscribe, NoRequest, Request
  <2> QED BY <2>1
<1>5. CASE TakeProxy(t)
  BY <1>0, <1>5 DEF TakeProxy, NoRequest, Request, SendReturns, SendFails
<1>6. CASE EnterSession(t)
  BY <1>0, <1>6 DEF EnterSession, NoRequest, Request, SendReturns, SendFails
<1>7. CASE ListName(t)
  BY <1>0, <1>7 DEF ListName, NoRequest, Request, SendReturns, SendFails
<1>8. CASE Send(t)
  BY <1>0, <1>8 DEF Send
<1>9. CASE CallSend(t)
  <2>1. req'[t].at # "send"
    BY <1>0, <1>9 DEF CallSend, NoRequest, Request
  <2> QED BY <2>1
<1>10. CASE Deliver(t)
  BY <1>10 DEF Deliver
<1>11. CASE Deliveries(t)
  BY <1>11 DEF Deliveries
<1>12. CASE SendAnswered(t)
  BY <1>0, <1>12 DEF SendAnswered, NoRequest, Request, SendReturns, SendFails
<1>13. CASE SendThrows(t)
  BY <1>0, <1>13 DEF SendThrows, NoRequest, Request, SendReturns, SendFails
<1>14. CASE Refresh(t)
  <2>1. ReadList(t)
    BY <1>14 DEF Refresh
  <2>2. req'[t].at # "send"
    BY <1>0, <2>1 DEF ReadList, NoRequest
  <2> QED BY <2>2
<1>15. CASE Fetch(t)
  <2>1. req'[t].at # "send"
    BY <1>0, <1>15 DEF Fetch, NoRequest, Request
  <2> QED BY <2>1
<1>16. CASE Clear(t)
  <2>1. req'[t].at # "send"
    BY <1>0, <1>16 DEF Clear, NoRequest, Request
  <2> QED BY <2>1
<1>17. CASE Store(t)
  BY <1>0, <1>17 DEF Store, NoRequest, Request, SendReturns, SendFails
<1>18. CASE Logout(t)
  BY <1>0, <1>18 DEF Logout
<1>19. CASE Unlist(t)
  BY <1>0, <1>19 DEF Unlist, NoRequest, Request, SendReturns, SendFails
<1>20. CASE Forget(t)
  BY <1>0, <1>20 DEF Forget, NoRequest, Request, SendReturns, SendFails
<1> QED BY <1>1, <1>2, <1>3, <1>4, <1>5, <1>6, <1>7, <1>8, <1>9, <1>10, <1>11, <1>12,
        <1>13, <1>14, <1>15, <1>16, <1>17, <1>18, <1>19, <1>20 DEF TabStep

LEMMA LoopStep ==
  ASSUME TypeOK, NEW t \in Tab, TabStep(t), sends'[t].stage = "loop", ~At(t, "send")
  PROVE  sends[t].stage = "loop" /\ sends[t].seen \subseteq sends'[t].seen
<1>0. sends \in [Tab -> Loop] /\ RoomTypeOK
  BY HandleAssumption DEF TypeOK, RoomTypeOK
<1>1. CASE Deliver(t)
  BY <1>0, <1>1, VisitType DEF Deliver, Visit
<1>2. CASE Deliveries(t)
  BY <1>0, <1>2 DEF Deliveries, CleanUp
<1>3. CASE SendAnswered(t) \/ SendThrows(t)
  BY <1>0, <1>3 DEF SendAnswered, SendReturns, SendThrows, SendFails, NoLoop
<1>4. CASE UNCHANGED sends
  BY <1>4
<1> QED BY <1>1, <1>2, <1>3, <1>4 DEF TabStep, CallSend, Login, CheckName, SetName,
        TakeProxy, EnterSession, ListName, Send, Refresh, Fetch, Clear, Store, Unlist,
        Forget, ReadList, Subscribe, Logout, roomVars

\* The heart of it: what is delivered to a handle has never been there, since a loop
\* comes to no handle twice.
LEMMA NewCopy ==
  ASSUME Inv, NEW t \in Tab, Deliver(t), NEW h \in WebHandle, NEW n \in Name,
         <<n, h>> \in sends'[t].seen \ sends[t].seen
  PROVE  ~Known(<<t, calls[t]>>, h)
<1> SUFFICES ASSUME Known(<<t, calls[t]>>, h) PROVE FALSE
  OBVIOUS
<1>0. TypeOK /\ CallsInv /\ SendInv /\ PosInv /\ OneName /\ SentInv
  BY DEF Inv
<1>1. n \in DOMAIN clients /\ clients[n] = h /\ Order[n] > sends[t].pos
  BY <1>0, SeenStep DEF TabStep
<1>2. sends[t].stage = "loop" /\ sends[t] \in Loop
  BY <1>0, HandleAssumption DEF Deliver, Visit, TypeOK, RoomTypeOK
<1>3. calls[t] \in 1..MaxCalls[t]
  <2>1. ~At(t, "idle")
    BY <1>0, <1>2 DEF SendInv, At
  <2> QED BY <1>0, <2>1, BrowserAssumption DEF CallsInv, TypeOK
<1>4. PICK m \in Name : <<m, h>> \in sends[t].seen
  BY <1>0, <1>2, <1>3 DEF SentInv
<1>5. m = n
  BY <1>0, <1>1, <1>4 DEF OneName, Used
<1>6. Order[n] <= sends[t].pos
  BY <1>0, <1>4, <1>5, HandleAssumption DEF PosInv
<1>7. Order[n] \in Nat /\ sends[t].pos \in Nat
  BY <1>2, OrderAssumption DEF Loop
<1> QED BY <1>1, <1>6, <1>7

LEMMA NextOut ==
  ASSUME Inv, NEW t \in Tab, TabStep(t)
  PROVE  OutInv'
<1>0. TypeOK /\ OutInv
  BY DEF Inv
<1> SUFFICES ASSUME NEW m \in Message, NEW h \in WebHandle, Out(m, h)', m \in inbox'[h]
             PROVE  FALSE
  BY DEF OutInv
<1>1. h \in Handle
  BY HandleAssumption
<1>2. CASE Out(m, h)
  <2>1. m \notin inbox[h]
    BY <1>0, <1>2 DEF OutInv
  <2>2. /\ Deliver(t) /\ m = <<t, calls[t]>>
        /\ \E n \in Name : <<n, h>> \in sends'[t].seen \ sends[t].seen
    BY <1>0, <1>1, <2>1, InboxStep
  <2>3. ~Known(m, h)
    BY <2>2, NewCopy
  <2> QED BY <1>2, <2>3 DEF Known
<1>3. CASE ~Out(m, h)
  <2>1. Clear(t) /\ h = req[t].h
    BY <1>0, <1>3, OutStep
  <2> QED BY <1>0, <1>1, <2>1 DEF Clear, ClearMessages, TypeOK
<1> QED BY <1>2, <1>3

LEMMA NextSent ==
  ASSUME Inv, NEW t \in Tab, TabStep(t)
  PROVE  SentInv'
<1>0. TypeOK /\ SendInv /\ SentInv
  BY DEF Inv
<1> SUFFICES ASSUME NEW u \in Tab, NEW k \in 1..MaxCalls[u], NEW h \in WebHandle,
                    Known(<<u, k>>, h)'
             PROVE  \/ k < calls'[u]
                    \/ /\ k = calls'[u] /\ ~At(u, "send")'
                       /\ sends'[u].stage = "loop" =>
                            \E n \in Name : <<n, h>> \in sends'[u].seen
  BY DEF SentInv
<1>1. <<u, k>> \in Message /\ h \in Handle /\ k \in Nat
  BY HandleAssumption, BrowserAssumption DEF Message, WebHandle, HandlesOf
<1>2. /\ calls[t] \in Nat
      /\ calls'[t] = calls[t] \/ calls'[t] = calls[t] + 1
  BY <1>0, CallStep
<1>3. CASE Known(<<u, k>>, h)
  <2>1. \/ k < calls[u]
        \/ /\ k = calls[u] /\ ~At(u, "send")
           /\ sends[u].stage = "loop" => \E n \in Name : <<n, h>> \in sends[u].seen
    BY <1>0, <1>3 DEF SentInv
  <2>2. CASE u # t
    <3>1. req'[u] = req[u] /\ sends'[u] = sends[u] /\ calls'[u] = calls[u]
      BY <1>0, <2>2, OthersStay
    <3> QED BY <2>1, <3>1 DEF At
  <2>3. CASE u = t /\ k < calls'[t]
    BY <2>3
  <2>4. CASE u = t /\ ~(k < calls'[t])
    <3>1. k = calls[t] /\ calls'[t] = calls[t] /\ ~At(t, "send")
      BY <1>1, <1>2, <2>1, <2>4
    <3>2. ~At(t, "send")'
      BY <1>0, <3>1, SendStage
    <3>3. ASSUME sends'[t].stage = "loop"
          PROVE  \E n \in Name : <<n, h>> \in sends'[t].seen
      <4>1. sends[t].stage = "loop" /\ sends[t].seen \subseteq sends'[t].seen
        BY <1>0, <3>1, <3>3, LoopStep
      <4>2. PICK n \in Name : <<n, h>> \in sends[t].seen
        BY <2>1, <2>4, <3>1, <4>1
      <4> QED BY <4>1, <4>2
    <3> QED BY <2>4, <3>1, <3>2, <3>3
  <2> QED BY <2>2, <2>3, <2>4
<1>4. CASE ~Known(<<u, k>>, h)
  <2>1. ~Out(<<u, k>>, h)'
    <3>1. SUFFICES ASSUME Out(<<u, k>>, h)' PROVE FALSE
      OBVIOUS
    <3>2. Clear(t) /\ h = req[t].h /\ <<u, k>> \in req[t].fresh
      BY <1>0, <1>1, <1>4, <3>1, OutStep DEF Known
    <3> QED BY <1>4, <3>2 DEF Known, Fetched, Clear
  <2>2. ~Fetched(<<u, k>>, h)'
    BY <1>0, <1>1, <1>4, FetchedStep DEF Known
  <2>3. <<u, k>> \in inbox'[h] /\ <<u, k>> \notin inbox[h]
    BY <1>4, <2>1, <2>2 DEF Known
  <2>4. /\ Deliver(t) /\ <<u, k>> = <<t, calls[t]>>
        /\ \E n \in Name : <<n, h>> \in sends'[t].seen \ sends[t].seen
    BY <1>0, <1>1, <2>3, InboxStep
  <2>5. u = t /\ k = calls[t]
    BY <2>4
  <2>6. At(t, "sending") /\ UNCHANGED <<req, calls>>
    BY <1>0, <2>4 DEF Deliver, Visit, SendInv
  <2> QED BY <2>4, <2>5, <2>6 DEF At
<1> QED BY <1>3, <1>4

LEMMA NextFresh ==
  ASSUME Inv, NEW t \in Tab, TabStep(t)
  PROVE  FreshInv'
<1>0. TypeOK /\ OutInv /\ FreshInv
  BY DEF Inv
<1> SUFFICES ASSUME NEW u \in Tab, NEW m \in Message,
                    req'[u].at \in {"clear", "store"}, m \in req'[u].fresh
             PROVE  <<m, req'[u].h>> \notin req'[u].old
  BY DEF FreshInv, At
<1>1. CASE u # t
  BY <1>0, <1>1, OthersStay DEF FreshInv, At
<1>2. CASE u = t /\ UNCHANGED req[t]
  BY <1>0, <1>2 DEF FreshInv, At
<1>3. CASE /\ u = t /\ Clear(t) /\ req'[t].h = req[t].h
           /\ req'[t].fresh = req[t].fresh /\ req'[t].old = req[t].old
  BY <1>0, <1>3 DEF FreshInv, Clear
<1>4. CASE /\ u = t /\ req'[t].h = proxy[Browser[t]] /\ req'[t].h # None
           /\ req'[t].fresh = inbox[req'[t].h] /\ req'[t].old = req[t].old
  <2>1. req'[t].h \in WebHandle
    BY <1>0, <1>4, BrowserAssumption DEF TypeOK
  <2>2. ~Out(m, req'[t].h)
    BY <1>0, <1>4, <2>1 DEF OutInv
  <2> QED BY <1>4, <2>2 DEF Out
<1> QED BY <1>0, <1>1, <1>2, <1>3, <1>4, FreshStep

-----------------------------------------------------------------------------
(* The theorems.                                                           *)

LEMMA InitInv == Init => Inv
<1> SUFFICES ASSUME Init PROVE Inv
  OBVIOUS
<1>1. TypeOK
  BY InitType
<1>2. CallsInv /\ SendInv /\ PosInv
  BY HandleAssumption, BrowserAssumption
     DEF Init, RoomInit, NoRequest, NoLoop, CallsInv, SendInv, PosInv, At
<1>3. \A h, n : ~Used(h, n)
  BY HandleAssumption DEF Init, RoomInit, NoLoop, Used
<1>4. \A m \in Message, h \in WebHandle : ~Known(m, h)
  BY HandleAssumption DEF Init, NoRequest, Known, Out, Fetched, At
<1>5. SentInv
  <2> SUFFICES ASSUME NEW t \in Tab, NEW k \in 1..MaxCalls[t], NEW h \in WebHandle
               PROVE  ~Known(<<t, k>>, h)
    BY DEF SentInv
  <2>1. <<t, k>> \in Message
    BY DEF Message, WebHandle, HandlesOf
  <2> QED BY <1>4, <2>1
<1> QED BY <1>1, <1>2, <1>3, <1>4, <1>5
        DEF Inv, OneName, FreshHandle, OutInv, FreshInv, Known, Init, NoRequest, At

LEMMA ConsoleInv ==
  ASSUME Inv, NEW c \in Console, ConsoleStep(c)
  PROVE  /\ CallsInv' /\ SendInv' /\ PosInv' /\ OneName' /\ FreshHandle'
         /\ OutInv' /\ SentInv' /\ FreshInv'
<1>0. TypeOK
  BY DEF Inv
<1>1. UNCHANGED <<sends, servlet, attrs, inbox, req>> /\ \A t \in Tab : calls'[t] = calls[t]
  BY <1>0, ConsoleStays
<1>2. \A h \in WebHandle, n \in Name : Used(h, n)' => Used(h, n)
  BY <1>0, <1>1, ConsoleEntry, HandleAssumption DEF Used
<1>3. CallsInv' /\ SendInv' /\ PosInv' /\ OutInv' /\ FreshInv'
  BY <1>1 DEF Inv, CallsInv, SendInv, PosInv, OutInv, FreshInv, Out, At, attrs
<1>4. OneName'
  BY <1>2 DEF Inv, OneName
<1>5. FreshHandle'
  <2>1. \A t \in Tab : \A k \in 1..MaxCalls[t] : <<t, k>> \in WebHandle
    BY DEF WebHandle, HandlesOf
  <2> QED BY <1>1, <1>2, <2>1 DEF Inv, FreshHandle, BeforePut
<1>6. SentInv'
  BY <1>1 DEF Inv, SentInv, Known, Out, Fetched, At, attrs
<1> QED BY <1>3, <1>4, <1>5, <1>6

LEMMA NextInv ==
  ASSUME Inv, [Next]_vars
  PROVE  Inv'
<1>0. TypeOK /\ CallsInv /\ SendInv /\ PosInv
  BY DEF Inv
<1>1. TypeOK'
  BY <1>0, NextType
<1>2. ASSUME NEW t \in Tab, TabStep(t) PROVE Inv'
  <2>1. CallsInv' /\ SendInv' /\ PosInv'
    BY <1>0, <1>2, NextCounts
  <2>2. OneName' /\ FreshHandle'
    BY <1>2, NextHandles
  <2>3. OutInv' /\ SentInv' /\ FreshInv'
    BY <1>2, NextOut, NextSent, NextFresh
  <2> QED BY <1>1, <2>1, <2>2, <2>3 DEF Inv
<1>3. ASSUME NEW c \in Console, ConsoleStep(c) PROVE Inv'
  BY <1>1, <1>3, ConsoleInv DEF Inv
<1>4. CASE UNCHANGED vars
  BY <1>1, <1>4 DEF Inv, vars, roomVars, servlet, attrs, CallsInv, SendInv, PosInv, OneName,
     FreshHandle, BeforePut, Used, OutInv, SentInv, FreshInv, Known, Out, Fetched, At
<1> QED BY <1>2, <1>3, <1>4 DEF Next, TabStep, ConsoleStep

LEMMA InvAlways == Spec => []Inv
<1>1. Init => Inv
  BY InitInv
<1>2. Inv /\ [Next]_vars => Inv'
  BY NextInv
<1> QED BY <1>1, <1>2, PTL DEF Spec

\* The variables keep their types: the servlet's fields, the sessions' attributes,
\* the requests under way and the chat room.
THEOREM TypeCorrect == Spec => []TypeOK
<1>1. Inv => TypeOK
  BY DEF Inv
<1> QED BY <1>1, InvAlways, PTL

\* No chat page shows a message twice (the order of reading and clearing in refresh),
\* with any number of tabs that refresh, send, log in and log out at the same time.
THEOREM ShownOnceAlways == Spec => []ShownOnce
<1>1. Inv => ShownOnce
  <2> SUFFICES ASSUME Inv, NEW t \in Tab, At(t, "store"),
                      NEW c \in (req[t].fresh \X {req[t].h}) \cap req[t].old
               PROVE  FALSE
    BY DEF ShownOnce
  <2>1. PICK m \in req[t].fresh : c = <<m, req[t].h>>
    OBVIOUS
  <2>2. req[t].fresh \subseteq Message
    BY DEF Inv, TypeOK, Request
  <2> QED BY <2>1, <2>2 DEF Inv, FreshInv
<1> QED BY <1>1, InvAlways, PTL

-----------------------------------------------------------------------------
(* Sessions with one tab.                                                  *)

During(t, places) == req[t].at \in places

\* What a session knows while its only tab is somewhere.
SessionInv(t) ==
  LET s == Browser[t] IN
    /\ During(t, {"check", "name", "subscribe", "accepted", "refused", "enter"}) =>
         sessionUser[s] = None
    /\ At(t, "list") => sessionUser[s] = req[t].n
    /\ During(t, {"subscribe", "accepted", "refused", "enter", "list", "unlist", "forget"}) =>
         name[s] = req[t].n
    /\ During(t, {"enter", "list"}) => proxy[s] = req[t].h
    /\ sessionUser[s] # None => sessionUser[s] = name[s]

\* A name that is registered for a login of the tab.
OwnedInv(t) ==
  LET s == Browser[t] IN
    \A n \in DOMAIN clients : clients[n] \in HandlesOf(t) =>
      /\ ~During(t, {"check", "name", "subscribe", "refused", "unlist", "forget"})
      /\ name[s] = n
      /\ clients[n] = IF At(t, "accepted") THEN req[t].h ELSE proxy[s]
      /\ ~During(t, {"accepted", "enter"}) => sessionUser[s] = n

\* The list that a request has read is the session's.
HistoryInv(t) ==
  LET s == Browser[t] IN
    /\ During(t, {"send", "sending"}) => messages[s] # None /\ req[t].old = messages[s]
    /\ During(t, {"fetch", "clear", "store"}) /\ messages[s] # None => messages[s] \subseteq req[t].old

OneTabInv == \A t \in Tab : OneTab(Browser[t]) => SessionInv(t) /\ OwnedInv(t) /\ HistoryInv(t)

\* A name is typed into sessions with one tab only.
Single(n) == \A t \in Tab : n \in Typed[t] => OneTab(Browser[t])

\* Where a name comes from.
TypedIn(s, n) == \E t \in Tab : Browser[t] = s /\ n \in Typed[t]
TypedInv ==
  /\ \A s \in Session : name[s] # None => TypedIn(s, name[s])
  /\ \A s \in Session : sessionUser[s] # None => TypedIn(s, sessionUser[s])
  /\ \A t \in Tab : req[t].n # None => TypedIn(Browser[t], req[t].n)

\* The sessions whose login is in the list.
Entered(n) ==
  {s \in Session : sessionUser[s] = n /\
     ~\E t \in Tab : Browser[t] = s /\ During(t, {"list", "forget"})}

ListInv == \A n \in Name : Single(n) => listed[n] <= Cardinality(Entered(n))

\* messages is a function, which the type invariant leaves open.
MessagesInv == DOMAIN messages = Session

NamesInv == MessagesInv /\ OneTabInv /\ TypedInv /\ ListInv

LEMMA Moved ==
  ASSUME TypeOK, NEW t \in Tab, NEW where, Goes(t, where)
  PROVE  /\ req'[t].at = where /\ req'[t].n = req[t].n /\ req'[t].h = req[t].h
         /\ req'[t].old = req[t].old /\ req'[t].fresh = req[t].fresh
<1>1. req \in [Tab -> Request]
  BY DEF TypeOK
<1> QED BY <1>1 DEF Goes, Request

LEMMA Ended ==
  ASSUME TypeOK, NEW t \in Tab, Ends(t)
  PROVE  req'[t] = NoRequest /\ req'[t].at = "idle" /\ req'[t].n = None
BY DEF TypeOK, Ends, NoRequest

\* What a step of a tab leaves alone: the other sessions, and the handles of others.
LEMMA ElsewhereStays ==
  ASSUME TypeOK, MessagesInv, NEW t \in Tab, TabStep(t), NEW s \in Session, s # Browser[t]
  PROVE  /\ name'[s] = name[s] /\ proxy'[s] = proxy[s]
         /\ sessionUser'[s] = sessionUser[s] /\ messages'[s] = messages[s]
<1>1. CASE SetName(t)
  BY <1>1 DEF SetName, TypeOK, servlet
<1>2. CASE TakeProxy(t)
  BY <1>2 DEF TakeProxy, TypeOK
<1>3. CASE EnterSession(t) \/ Forget(t)
  BY <1>3 DEF EnterSession, Forget, attrs, TypeOK
<1>4. CASE SendAnswered(t) \/ Store(t)
  <2>1. PICK l : messages' = [messages EXCEPT ![Browser[t]] = l]
    BY <1>4 DEF SendAnswered, Store
  <2> QED BY <1>4, <2>1 DEF SendAnswered, Store, servlet, MessagesInv
<1>5. CASE UNCHANGED <<attrs, sessionUser>>
  BY <1>5 DEF attrs
<1> QED
  BY <1>1, <1>2, <1>3, <1>4, <1>5
     DEF TabStep, Login, CheckName, Subscribe, ListName, Send, CallSend, Deliver, Deliveries,
         SendThrows, Refresh, ReadList, Fetch, Clear, Logout, Unlist, servlet

LEMMA OwnedElsewhere ==
  ASSUME TypeOK, NEW t \in Tab, NEW n \in DOMAIN clients', clients'[n] \in HandlesOf(t),
         \/ \E u \in Tab \ {t} : TabStep(u)
         \/ \E c \in Console : ConsoleStep(c)
  PROVE  n \in DOMAIN clients /\ clients'[n] = clients[n]
<1>1. ASSUME NEW u \in Tab \ {t}, TabStep(u)
      PROVE  n \in DOMAIN clients /\ clients'[n] = clients[n]
  <2>1. <<u, calls[u]>> \notin HandlesOf(t)
    BY DEF HandlesOf
  <2> QED BY <1>1, <2>1, EntryStep
<1>2. ASSUME NEW c \in Console, ConsoleStep(c)
      PROVE  n \in DOMAIN clients /\ clients'[n] = clients[n]
  <2>1. HandlesOf(t) \subseteq WebHandle
    BY DEF WebHandle
  <2> QED BY <1>2, <2>1, ConsoleEntry, HandleAssumption
<1> QED BY <1>1, <1>2

\* What others do to a session with one tab.
LEMMA OthersKeep ==
  ASSUME NEW t \in Tab, SessionInv(t), OwnedInv(t), HistoryInv(t), req'[t] = req[t],
         name'[Browser[t]] = name[Browser[t]], proxy'[Browser[t]] = proxy[Browser[t]],
         sessionUser'[Browser[t]] = sessionUser[Browser[t]],
         messages'[Browser[t]] = messages[Browser[t]],
         \A n \in DOMAIN clients' : clients'[n] \in HandlesOf(t) =>
           n \in DOMAIN clients /\ clients'[n] = clients[n]
  PROVE  SessionInv(t)' /\ OwnedInv(t)' /\ HistoryInv(t)'
<1>1. SessionInv(t)' /\ HistoryInv(t)'
  BY DEF SessionInv, HistoryInv, During, At
<1>2. OwnedInv(t)'
  BY DEF OwnedInv, During, At
<1> QED BY <1>1, <1>2

\* The only tab of a session: the login.
LEMMA LoginOwn ==
  ASSUME TypeOK, NEW t \in Tab, SessionInv(t), OwnedInv(t),
         Login(t) \/ CheckName(t) \/ SetName(t) \/ Subscribe(t)
  PROVE  SessionInv(t)' /\ OwnedInv(t)' /\ HistoryInv(t)'
<1> USE DEF During, At
<1>0. /\ Browser[t] \in Session /\ name \in [Session -> Name \cup {None}]
      /\ None \notin Name /\ DOMAIN clients \subseteq Name /\ req \in [Tab -> Request]
  BY HandleAssumption, BrowserAssumption DEF TypeOK, RoomTypeOK
<1>1. CASE Login(t)
  <2>1. /\ req'[t].at = "check" /\ sessionUser[Browser[t]] = None /\ req[t].at = "idle"
        /\ UNCHANGED <<clients, sessionUser, name, proxy>>
    BY <1>0, <1>1 DEF Login, NoRequest, FreeSession, servlet, attrs, roomVars
  <2>2. \A n \in DOMAIN clients : clients[n] \notin HandlesOf(t)
    BY <1>0, <2>1 DEF OwnedInv
  <2> QED BY <2>1, <2>2 DEF SessionInv, OwnedInv, HistoryInv
<1>2. CASE CheckName(t)
  <2>1. /\ req'[t].at = "idle" \/ (req'[t].at = "name" /\ req'[t].n = req[t].n)
        /\ req[t].at = "check" /\ UNCHANGED <<clients, sessionUser, name, proxy>>
    BY <1>2, Moved, Ended DEF CheckName, servlet, attrs, roomVars
  <2>2. \A n \in DOMAIN clients : clients[n] \notin HandlesOf(t)
    BY <2>1 DEF OwnedInv
  <2> QED BY <2>1, <2>2 DEF SessionInv, OwnedInv, HistoryInv
<1>3. CASE SetName(t)
  <2>1. /\ req'[t].at = "subscribe" /\ req'[t].n = req[t].n /\ req[t].at = "name"
        /\ name'[Browser[t]] = req[t].n /\ UNCHANGED <<clients, sessionUser, proxy>>
    BY <1>0, <1>3, Moved DEF SetName, servlet, roomVars
  <2>2. \A n \in DOMAIN clients : clients[n] \notin HandlesOf(t)
    BY <2>1 DEF OwnedInv
  <2> QED BY <2>1, <2>2 DEF SessionInv, OwnedInv, HistoryInv
<1>4. CASE Subscribe(t)
  <2>1. /\ req[t].at = "subscribe" /\ req'[t].n = req[t].n /\ req'[t].h = <<t, calls[t]>>
        /\ req'[t].at = IF Taken(req[t].n) THEN "refused" ELSE "accepted"
        /\ UNCHANGED <<sessionUser, proxy, name>>
    BY <1>0, <1>4 DEF Subscribe, servlet, attrs, Request
  <2>2. \A n \in DOMAIN clients : clients[n] \notin HandlesOf(t)
    BY <2>1 DEF OwnedInv
  <2>3. SessionInv(t)' /\ HistoryInv(t)'
    BY <2>1 DEF SessionInv, HistoryInv
  <2>4. CASE Taken(req[t].n)
    <3>1. clients' = clients
      BY <1>4, <2>4 DEF Subscribe, PutIfAbsent
    <3> QED BY <2>2, <2>3, <3>1 DEF OwnedInv
  <2>5. CASE ~Taken(req[t].n)
    <3>1. req'[t].at = "accepted"
      BY <2>1, <2>5
    <3>2. \A n \in DOMAIN clients' : clients'[n] \in HandlesOf(t) =>
            n = req[t].n /\ clients'[n] = <<t, calls[t]>>
      BY <1>4, <2>2, EntryStep DEF TabStep
    <3>3. name[Browser[t]] = req[t].n
      BY <2>1 DEF SessionInv
    <3> QED BY <2>1, <2>3, <3>1, <3>2, <3>3 DEF OwnedInv
  <2> QED BY <2>4, <2>5
<1> QED BY <1>1, <1>2, <1>3, <1>4

LEMMA EnterOwn ==
  ASSUME TypeOK, NEW t \in Tab, SessionInv(t), OwnedInv(t),
         TakeProxy(t) \/ EnterSession(t) \/ ListName(t)
  PROVE  SessionInv(t)' /\ OwnedInv(t)' /\ HistoryInv(t)'
<1> USE DEF During, At
<1>0. /\ Browser[t] \in Session /\ proxy \in [Session -> WebHandle \cup {None}]
      /\ sessionUser \in [Session -> Name \cup {None}]
  BY BrowserAssumption DEF TypeOK
<1>1. CASE TakeProxy(t)
  <2>1. /\ req[t].at \in {"accepted", "refused"} /\ req'[t].at = "enter"
        /\ req'[t].n = req[t].n /\ req'[t].h = req[t].h
        /\ proxy'[Browser[t]] = req[t].h /\ UNCHANGED <<clients, sessionUser, name>>
    BY <1>0, <1>1, Moved DEF TakeProxy, roomVars
  <2> QED BY <2>1 DEF SessionInv, OwnedInv, HistoryInv
<1>2. CASE EnterSession(t)
  <2>1. /\ req[t].at = "enter" /\ req'[t].at = "list"
        /\ req'[t].n = req[t].n /\ req'[t].h = req[t].h
        /\ UNCHANGED <<clients, proxy, name>>
    BY <1>2, Moved DEF EnterSession, attrs, roomVars
  <2>2. sessionUser[Browser[t]] = None
    BY <2>1 DEF SessionInv
  <2>3. sessionUser'[Browser[t]] = req[t].n
    BY <1>0, <1>2, <2>2 DEF EnterSession
  <2> QED BY <2>1, <2>3 DEF SessionInv, OwnedInv, HistoryInv
<1>3. CASE ListName(t)
  <2>1. /\ req[t].at = "list" /\ req'[t].at = "idle"
        /\ UNCHANGED <<clients, proxy, name, sessionUser>>
    BY <1>3, Ended DEF ListName, attrs, roomVars
  <2> QED BY <2>1 DEF SessionInv, OwnedInv, HistoryInv
<1> QED BY <1>1, <1>2, <1>3

LEMMA LogoutOwn ==
  ASSUME TypeOK, NEW t \in Tab, SessionInv(t), OwnedInv(t),
         Logout(t) \/ Unlist(t) \/ Forget(t)
  PROVE  SessionInv(t)' /\ OwnedInv(t)' /\ HistoryInv(t)'
<1> USE DEF During, At
<1>0. /\ Browser[t] \in Session /\ sessionUser \in [Session -> Name \cup {None}]
      /\ req \in [Tab -> Request]
  BY BrowserAssumption DEF TypeOK
<1>1. CASE Logout(t)
  <2>1. PICK n : n = name[Browser[t]]
    OBVIOUS
  <2>2. /\ req[t].at = "idle" /\ Remove(n) /\ UNCHANGED <<name, proxy, sessionUser>>
        /\ \/ req'[t].at = "unlist" /\ req'[t].n = n
           \/ req'[t].at = "idle"
    BY <1>0, <1>1, <2>1 DEF Logout, servlet, attrs, NoRequest
  <2>3. \A m \in DOMAIN clients' : clients'[m] \notin HandlesOf(t)
    BY <2>1, <2>2, RemoveMap DEF OwnedInv
  <2> QED BY <2>1, <2>2, <2>3 DEF SessionInv, OwnedInv, HistoryInv
<1>2. CASE Unlist(t)
  <2>1. /\ req[t].at = "unlist" /\ req'[t].at = "forget" /\ req'[t].n = req[t].n
        /\ UNCHANGED <<clients, proxy, name, sessionUser>>
    BY <1>2, Moved DEF Unlist, attrs, roomVars
  <2> QED BY <2>1 DEF SessionInv, OwnedInv, HistoryInv
<1>3. CASE Forget(t)
  <2>1. /\ req[t].at = "forget" /\ req'[t].at = "idle" /\ sessionUser'[Browser[t]] = None
        /\ UNCHANGED <<clients, proxy, name>>
    BY <1>0, <1>3, Ended DEF Forget, attrs, roomVars
  <2> QED BY <2>1 DEF SessionInv, OwnedInv, HistoryInv
<1> QED BY <1>1, <1>2, <1>3

\* Sending and refreshing concern the list of messages only.
Listing == {"idle", "send", "sending", "refresh", "fetch", "clear", "store"}

LEMMA QuietOwn ==
  ASSUME NEW t \in Tab, SessionInv(t), OwnedInv(t),
         req[t].at \in Listing, req'[t].at \in Listing,
         UNCHANGED <<clients, name, proxy, sessionUser>>
  PROVE  SessionInv(t)' /\ OwnedInv(t)'
BY DEF SessionInv, OwnedInv, During, At, Listing

LEMMA SendOwn ==
  ASSUME TypeOK, MessagesInv, SendInv, NEW t \in Tab, SessionInv(t), OwnedInv(t), HistoryInv(t),
         \/ Send(t) \/ CallSend(t) \/ Deliver(t) \/ Deliveries(t)
         \/ SendAnswered(t) \/ SendThrows(t)
  PROVE  SessionInv(t)' /\ OwnedInv(t)' /\ HistoryInv(t)'
<1> USE DEF During, At, Listing
<1>0. req \in [Tab -> Request] /\ Thread = Tab
  BY HandleAssumption DEF TypeOK
<1>1. CASE Send(t)
  <2>1. /\ req[t].at = "idle" /\ req'[t].at = "send" /\ messages[Browser[t]] # None
        /\ req'[t].old = messages[Browser[t]]
        /\ UNCHANGED <<clients, name, proxy, sessionUser, messages>>
    BY <1>0, <1>1 DEF Send, HasPage, NoRequest, servlet, attrs, roomVars
  <2> QED BY <2>1, QuietOwn DEF HistoryInv
<1>2. CASE CallSend(t)
  <2>1. /\ req[t].at = "send"
        /\ \/ req'[t].at = "idle"
           \/ req'[t].at = "sending" /\ req'[t].old = req[t].old
        /\ UNCHANGED <<clients, name, proxy, sessionUser, messages>>
    BY <1>2, Moved, Ended DEF CallSend, servlet, attrs
  <2> QED BY <2>1, QuietOwn DEF HistoryInv
<1>3. CASE Deliver(t) \/ Deliveries(t)
  <2>1. /\ UNCHANGED <<clients, name, proxy, sessionUser, messages, req>> /\ sends[t].stage = "loop"
    BY <1>3 DEF Deliver, Deliveries, Visit, CleanUp, LoopDone, servlet, attrs
  <2>2. req[t].at = "sending"
    BY <2>1 DEF SendInv
  <2> QED BY <2>1, <2>2, QuietOwn DEF HistoryInv
<1>4. CASE SendAnswered(t)
  <2>1. req[t].at = "sending"
    BY <1>4 DEF SendAnswered, SendReturns, SendInv
  <2>2. req'[t].at = "refresh" /\ UNCHANGED <<clients, name, proxy, sessionUser>>
    BY <1>4, Moved DEF SendAnswered, SendReturns, servlet
  <2> QED BY <2>1, <2>2, QuietOwn DEF HistoryInv
<1>5. CASE SendThrows(t)
  <2>1. req[t].at = "sending"
    BY <1>5 DEF SendThrows, SendFails, LoopDone, SendInv
  <2>2. req'[t].at = "idle" /\ UNCHANGED <<clients, name, proxy, sessionUser>>
    BY <1>5, Ended DEF SendThrows, SendFails, servlet, attrs
  <2> QED BY <2>1, <2>2, QuietOwn DEF HistoryInv
<1> QED BY <1>1, <1>2, <1>3, <1>4, <1>5

LEMMA RefreshOwn ==
  ASSUME TypeOK, MessagesInv, NEW t \in Tab, SessionInv(t), OwnedInv(t), HistoryInv(t),
         Refresh(t) \/ Fetch(t) \/ Clear(t) \/ Store(t)
  PROVE  SessionInv(t)' /\ OwnedInv(t)' /\ HistoryInv(t)'
<1> USE DEF During, At, Listing
<1>0. req \in [Tab -> Request]
  BY DEF TypeOK
<1>1. CASE Refresh(t)
  <2>1. /\ req[t].at \in {"idle", "refresh"} /\ req'[t].at = "fetch"
        /\ HasPage(t) => req'[t].old = messages[Browser[t]]
        /\ UNCHANGED <<clients, name, proxy, sessionUser, messages>>
    BY <1>0, <1>1 DEF Refresh, ReadList, NoRequest, servlet, attrs, roomVars
  <2> QED BY <2>1, QuietOwn DEF HistoryInv, HasPage
<1>2. CASE Fetch(t)
  <2>1. /\ req[t].at = "fetch"
        /\ \/ req'[t].at = "idle"
           \/ req'[t].at = "clear" /\ req'[t].old = req[t].old
        /\ UNCHANGED <<clients, name, proxy, sessionUser, messages>>
    <3>1. CASE proxy[Browser[t]] = None
      BY <1>2, <3>1, Ended DEF Fetch, servlet, attrs, roomVars
    <3>2. CASE proxy[Browser[t]] # None
      <4>1. req' = [req EXCEPT ![t].at = "clear", ![t].h = proxy[Browser[t]],
                               ![t].fresh = inbox[proxy[Browser[t]]]]
        BY <1>2, <3>2 DEF Fetch
      <4>2. req'[t].at = "clear" /\ req'[t].old = req[t].old
        BY <1>0, <4>1 DEF Request
      <4> QED BY <1>2, <4>2 DEF Fetch, servlet, attrs, roomVars
    <3> QED BY <3>1, <3>2
  <2> QED BY <2>1, QuietOwn DEF HistoryInv
<1>3. CASE Clear(t)
  <2>1. /\ req[t].at = "clear" /\ req'[t].at = "store" /\ req'[t].old = req[t].old
        /\ UNCHANGED <<clients, name, proxy, sessionUser, messages>>
    BY <1>3, Moved DEF Clear, servlet, attrs, roomVars
  <2> QED BY <2>1, QuietOwn DEF HistoryInv
<1>4. CASE Store(t)
  <2>1. /\ req[t].at = "store" /\ req'[t].at = "idle"
        /\ UNCHANGED <<clients, name, proxy, sessionUser>>
    BY <1>4, Ended DEF Store, servlet, roomVars
  <2> QED BY <2>1, QuietOwn DEF HistoryInv
<1> QED BY <1>1, <1>2, <1>3, <1>4

LEMMA OneTabStep ==
  ASSUME TypeOK, SendInv, MessagesInv, OneTabInv, NEW t \in Tab, TabStep(t)
  PROVE  OneTabInv'
<1> SUFFICES ASSUME NEW u \in Tab, OneTab(Browser[u])
             PROVE  SessionInv(u)' /\ OwnedInv(u)' /\ HistoryInv(u)'
  BY DEF OneTabInv, OneTab
<1>0. SessionInv(u) /\ OwnedInv(u) /\ HistoryInv(u)
  BY DEF OneTabInv
<1>1. CASE u = t
  BY <1>0, <1>1, LoginOwn, EnterOwn, LogoutOwn, SendOwn, RefreshOwn DEF TabStep
<1>2. CASE u # t
  <2>1. Browser[u] # Browser[t] /\ Browser[u] \in Session
    BY <1>2, BrowserAssumption DEF OneTab
  <2>2. req'[u] = req[u]
    BY <1>2, OthersStay
  <2>3. \A n \in DOMAIN clients' : clients'[n] \in HandlesOf(u) =>
          n \in DOMAIN clients /\ clients'[n] = clients[n]
    BY <1>2, OwnedElsewhere
  <2> QED BY <1>0, <2>1, <2>2, <2>3, ElsewhereStays, OthersKeep
<1> QED BY <1>1, <1>2

LEMMA TypedStep ==
  ASSUME TypeOK, TypedInv, NEW t \in Tab, TabStep(t)
  PROVE  TypedInv'
<1>0. /\ Browser[t] \in Session /\ name \in [Session -> Name \cup {None}]
      /\ sessionUser \in [Session -> Name \cup {None}] /\ req \in [Tab -> Request]
      /\ None \notin Name /\ DOMAIN clients \subseteq Name
  BY HandleAssumption, BrowserAssumption DEF TypeOK, RoomTypeOK
<1>1. req[t].n # None => TypedIn(Browser[t], req[t].n)
  BY DEF TypedInv
<1>2. ASSUME NEW s \in Session, name'[s] # None PROVE TypedIn(s, name'[s])
  <2>1. name'[s] = name[s] \/ (s = Browser[t] /\ name'[s] = req[t].n)
    <3>1. CASE SetName(t)
      BY <1>0, <3>1 DEF SetName
    <3>2. CASE UNCHANGED name
      BY <3>2
    <3> QED
      BY <3>1, <3>2
         DEF TabStep, Login, CheckName, Subscribe, TakeProxy, EnterSession, ListName, Send,
             CallSend, Deliver, Deliveries, SendAnswered, SendThrows, Refresh, ReadList, Fetch,
             Clear, Store, Logout, Unlist, Forget, attrs
  <2> QED BY <1>1, <1>2, <2>1 DEF TypedInv
<1>3. ASSUME NEW s \in Session, sessionUser'[s] # None PROVE TypedIn(s, sessionUser'[s])
  <2>1. \/ sessionUser'[s] = sessionUser[s] \/ sessionUser'[s] = None
        \/ s = Browser[t] /\ sessionUser'[s] = req[t].n
    <3>1. CASE EnterSession(t)
      BY <1>0, <3>1 DEF EnterSession
    <3>2. CASE Forget(t)
      BY <1>0, <3>2 DEF Forget
    <3>3. CASE UNCHANGED sessionUser
      BY <3>3
    <3> QED
      BY <3>1, <3>2, <3>3
         DEF TabStep, Login, CheckName, SetName, Subscribe, TakeProxy, ListName, Send,
             CallSend, Deliver, Deliveries, SendAnswered, SendThrows, Refresh, ReadList, Fetch,
             Clear, Store, Logout, Unlist, servlet
  <2> QED BY <1>1, <1>3, <2>1 DEF TypedInv
<1>4. ASSUME NEW u \in Tab, req'[u].n # None PROVE TypedIn(Browser[u], req'[u].n)
  <2>1. CASE u # t
    <3>1. req'[u] = req[u]
      BY <2>1, OthersStay
    <3> QED BY <1>4, <3>1 DEF TypedInv
  <2>2. CASE u = t
    <3>1. CASE Login(t)
      <4>1. PICK n \in Typed[t] : req'[t].n = n
        BY <1>0, <3>1 DEF Login, NoRequest
      <4> QED BY <2>2, <4>1 DEF TypedIn
    <3>2. CASE Logout(t)
      <4>1. req'[t].n \in {name[Browser[t]], req[t].n}
        BY <1>0, <3>2 DEF Logout, NoRequest
      <4> QED BY <1>0, <1>1, <1>4, <2>2, <4>1 DEF TypedInv
    <3>3. CASE req'[t].n \in {req[t].n, None}
      BY <1>1, <1>4, <2>2, <3>3
    <3>4. CASE CheckName(t) \/ SetName(t) \/ TakeProxy(t) \/ EnterSession(t) \/ ListName(t)
      BY <3>3, <3>4, Moved, Ended DEF CheckName, SetName, TakeProxy, EnterSession, ListName
    <3>5. CASE Subscribe(t)
      <4>1. req'[t].n = req[t].n
        BY <1>0, <3>5 DEF Subscribe, Request
      <4> QED BY <3>3, <4>1
    <3>6. CASE Send(t) \/ Refresh(t)
      <4>1. req'[t].n = None
        BY <1>0, <3>6 DEF Send, Refresh, ReadList, NoRequest
      <4> QED BY <3>3, <4>1
    <3>7. CASE CallSend(t) \/ SendAnswered(t) \/ SendThrows(t) \/ Clear(t) \/ Store(t)
            \/ Unlist(t) \/ Forget(t)
      BY <3>3, <3>7, Moved, Ended DEF CallSend, SendAnswered, SendThrows, Clear, Store, Unlist, Forget
    <3>8. CASE Deliver(t) \/ Deliveries(t)
      BY <3>3, <3>8 DEF Deliver, Deliveries
    <3>9. CASE Fetch(t)
      <4>1. req'[t].n \in {req[t].n, None}
        <5>1. CASE proxy[Browser[t]] = None
          BY <3>9, <5>1, Ended DEF Fetch
        <5>2. CASE proxy[Browser[t]] # None
          <6>1. req' = [req EXCEPT ![t].at = "clear", ![t].h = proxy[Browser[t]],
                                   ![t].fresh = inbox[proxy[Browser[t]]]]
            BY <3>9, <5>2 DEF Fetch
          <6> QED BY <1>0, <6>1 DEF Request
        <5> QED BY <5>1, <5>2
      <4> QED BY <3>3, <4>1
    <3> QED BY <3>1, <3>2, <3>4, <3>5, <3>6, <3>7, <3>8, <3>9 DEF TabStep
  <2> QED BY <2>1, <2>2
<1> QED BY <1>2, <1>3, <1>4 DEF TypedInv, TypedIn

LEMMA MessagesStep ==
  ASSUME MessagesInv, NEW t \in Tab, TabStep(t)
  PROVE  MessagesInv'
BY DEF MessagesInv, TabStep, Login, CheckName, SetName, Subscribe, TakeProxy, EnterSession,
       ListName, Send, CallSend, Deliver, Deliveries, SendAnswered, SendThrows, Refresh, ReadList,
       Fetch, Clear, Store, Logout, Unlist, Forget, attrs

-----------------------------------------------------------------------------
(* The list of names.                                                      *)

LEMMA EnteredFinite ==
  ASSUME NEW n
  PROVE  IsFiniteSet(Entered(n)) /\ Cardinality(Entered(n)) \in Nat
<1>1. Entered(n) \subseteq Session /\ IsFiniteSet(Session)
  BY BrowserAssumption DEF Entered
<1>2. IsFiniteSet(Entered(n))
  BY <1>1, FS_Subset
<1> QED BY <1>2, FS_CardinalityType

LEMMA Grows ==
  ASSUME NEW S, NEW T, IsFiniteSet(T), S \subseteq T
  PROVE  Cardinality(S) <= Cardinality(T)
BY FS_Subset

\* A session under a name typed in sessions with one tab is one of those.
LEMMA SingleSession ==
  ASSUME TypedInv, NEW n \in Name, Single(n), NEW s \in Session, sessionUser[s] = n
  PROVE  OneTab(s)
<1>1. None \notin Name
  BY HandleAssumption
<1>2. PICK t \in Tab : Browser[t] = s /\ n \in Typed[t]
  BY <1>1 DEF TypedInv, TypedIn
<1> QED BY <1>2 DEF Single

\* A step disturbs only the entry of its own session.
LEMMA EnteredElsewhere ==
  ASSUME TypeOK, MessagesInv, NEW t \in Tab, TabStep(t), NEW n,
         NEW s \in Entered(n), s # Browser[t]
  PROVE  s \in Entered(n)'
<1>1. s \in Session /\ sessionUser'[s] = n
  BY ElsewhereStays DEF Entered
<1>2. \A u \in Tab : Browser[u] = s => req'[u] = req[u]
  BY OthersStay
<1> QED BY <1>1, <1>2 DEF Entered, During

LEMMA ListStep ==
  ASSUME TypeOK, MessagesInv, OneTabInv, TypedInv, ListInv, NEW t \in Tab, TabStep(t)
  PROVE  ListInv'
<1> SUFFICES ASSUME NEW n \in Name, Single(n)
             PROVE  listed'[n] <= Cardinality(Entered(n)')
  BY DEF ListInv, Single, OneTab
<1>0. /\ Browser[t] \in Session /\ listed \in [Name -> Nat] /\ None \notin Name
      /\ listed[n] <= Cardinality(Entered(n))
      /\ sessionUser \in [Session -> Name \cup {None}] /\ req \in [Tab -> Request]
  BY HandleAssumption, BrowserAssumption DEF TypeOK, ListInv
<1>1. /\ IsFiniteSet(Entered(n)) /\ Cardinality(Entered(n)) \in Nat
      /\ IsFiniteSet(Entered(n)') /\ Cardinality(Entered(n)') \in Nat
  <2>1. IsFiniteSet(Entered(n)') /\ Cardinality(Entered(n)') \in Nat
    <3>1. Entered(n)' \subseteq Session /\ IsFiniteSet(Session)
      BY BrowserAssumption DEF Entered
    <3>2. IsFiniteSet(Entered(n)')
      BY <3>1, FS_Subset
    <3> QED BY <3>2, FS_CardinalityType
  <2> QED BY <2>1, EnteredFinite
<1>2. \A s \in Entered(n) : s # Browser[t] => s \in Entered(n)'
  BY EnteredElsewhere
<1>3. ASSUME listed'[n] = listed[n], Browser[t] \in Entered(n) => Browser[t] \in Entered(n)'
      PROVE  listed'[n] <= Cardinality(Entered(n)')
  <2>1. Entered(n) \subseteq Entered(n)'
    BY <1>2, <1>3
  <2>2. Cardinality(Entered(n)) <= Cardinality(Entered(n)')
    BY <1>1, <2>1, Grows
  <2> QED BY <1>0, <1>1, <1>3, <2>2
<1>4. ASSUME Browser[t] \in Entered(n)
      PROVE  /\ SessionInv(t) /\ \A u \in Tab : Browser[u] = Browser[t] => u = t
             /\ sessionUser[Browser[t]] = n /\ ~During(t, {"list", "forget"})
  <2>1. sessionUser[Browser[t]] = n /\ ~During(t, {"list", "forget"})
    BY <1>4 DEF Entered
  <2>2. OneTab(Browser[t])
    BY <1>0, <2>1, SingleSession
  <2> QED BY <2>1, <2>2 DEF OneTabInv, OneTab
<1>5. ASSUME Browser[t] \in Entered(n), UNCHANGED sessionUser, ~During(t, {"list", "forget"})'
      PROVE  Browser[t] \in Entered(n)'
  BY <1>0, <1>4, <1>5 DEF Entered
<1>6. CASE ListName(t)
  <2>1. /\ At(t, "list") /\ req'[t].at = "idle" /\ sessionUser' = sessionUser
        /\ listed' = [listed EXCEPT ![req[t].n] = @ + 1]
    BY <1>6, Ended DEF ListName
  <2>2. Browser[t] \notin Entered(n)
    BY <1>4, <2>1 DEF During, At
  <2>3. CASE req[t].n # n
    BY <1>0, <1>3, <2>1, <2>2, <2>3
  <2>4. CASE req[t].n = n
    <3>1. TypedIn(Browser[t], n)
      BY <1>0, <2>4 DEF TypedInv
    <3>2. OneTab(Browser[t])
      BY <3>1 DEF TypedIn, Single
    <3>3. sessionUser[Browser[t]] = n
      BY <2>1, <2>4, <3>2 DEF OneTabInv, SessionInv
    <3>4. \A u \in Tab : Browser[u] = Browser[t] => u = t
      BY <3>2 DEF OneTab
    <3>5. Browser[t] \in Entered(n)'
      BY <1>0, <2>1, <3>3, <3>4 DEF Entered, During
    <3>6. Entered(n) \cup {Browser[t]} \subseteq Entered(n)'
      BY <1>2, <3>5
    <3>7. Cardinality(Entered(n) \cup {Browser[t]}) = Cardinality(Entered(n)) + 1
      BY <1>1, <2>2, FS_AddElement
    <3>8. Cardinality(Entered(n) \cup {Browser[t]}) <= Cardinality(Entered(n)')
      BY <1>1, <3>6, Grows
    <3>9. listed'[n] = listed[n] + 1
      BY <1>0, <2>1, <2>4
    <3> QED BY <1>0, <1>1, <3>7, <3>8, <3>9
  <2> QED BY <2>3, <2>4
<1>7. CASE Unlist(t)
  <2>1. /\ At(t, "unlist") /\ sessionUser' = sessionUser
        /\ listed' = [listed EXCEPT ![req[t].n] = IF @ = 0 THEN 0 ELSE @ - 1]
    BY <1>7 DEF Unlist, Unlisted
  <2>2. CASE req[t].n # n
    <3>1. Browser[t] \notin Entered(n)
      BY <1>0, <1>4, <2>1, <2>2 DEF SessionInv, During, At
    <3> QED BY <1>0, <1>3, <2>1, <2>2, <3>1
  <2>3. CASE req[t].n = n
    <3>1. Entered(n) \ {Browser[t]} \subseteq Entered(n)'
      BY <1>2
    <3>2. Cardinality(Entered(n) \ {Browser[t]}) <= Cardinality(Entered(n)')
      BY <1>1, <3>1, Grows
    <3>3. Cardinality(Entered(n)) <= Cardinality(Entered(n) \ {Browser[t]}) + 1
          /\ Cardinality(Entered(n) \ {Browser[t]}) \in Nat
      <4>1. CASE Browser[t] \in Entered(n)
        <5>1. /\ IsFiniteSet(Entered(n) \ {Browser[t]})
              /\ Cardinality(Entered(n) \ {Browser[t]}) = Cardinality(Entered(n)) - 1
          BY <1>1, <4>1, FS_RemoveElement
        <5>2. Cardinality(Entered(n) \ {Browser[t]}) \in Nat
          BY <5>1, FS_CardinalityType
        <5> QED BY <1>1, <5>1, <5>2
      <4>2. CASE Browser[t] \notin Entered(n)
        <5>1. Entered(n) \ {Browser[t]} = Entered(n)
          BY <4>2
        <5> QED BY <1>1, <5>1
      <4> QED BY <4>1, <4>2
    <3>4. listed'[n] = IF listed[n] = 0 THEN 0 ELSE listed[n] - 1
      BY <1>0, <2>1, <2>3
    <3> QED BY <1>0, <1>1, <3>2, <3>3, <3>4
  <2> QED BY <2>2, <2>3
<1>8. CASE EnterSession(t)
  <2>1. Browser[t] \notin Entered(n)
    BY <1>0, <1>4, <1>8 DEF EnterSession, SessionInv, During, At
  <2> QED BY <1>3, <1>8, <2>1 DEF EnterSession
<1>9. CASE Forget(t)
  <2>1. Browser[t] \notin Entered(n)
    BY <1>4, <1>9 DEF Forget, During, At
  <2> QED BY <1>3, <1>9, <2>1 DEF Forget
<1>10. ASSUME UNCHANGED <<listed, sessionUser>>, req'[t].at \notin {"list", "forget"}
       PROVE  listed'[n] <= Cardinality(Entered(n)')
  BY <1>3, <1>5, <1>10 DEF During
<1>11. CASE Login(t) \/ CheckName(t) \/ SetName(t) \/ Subscribe(t) \/ TakeProxy(t) \/ Logout(t)
  <2>1. UNCHANGED <<listed, sessionUser>>
    BY <1>11 DEF Login, CheckName, SetName, Subscribe, TakeProxy, Logout, servlet
  <2>2. CASE Login(t) \/ Logout(t) \/ Subscribe(t)
    <3>1. CASE Login(t)
      BY <1>0, <1>10, <2>1, <3>1 DEF Login, NoRequest
    <3>2. CASE Logout(t)
      <4>1. req'[t].at \in {"idle", "unlist"}
        BY <1>0, <3>2 DEF Logout, NoRequest, At
      <4> QED BY <1>10, <2>1, <4>1
    <3>3. CASE Subscribe(t)
      <4>1. req'[t].at \in {"refused", "accepted"}
        BY <1>0, <3>3 DEF Subscribe, Request
      <4> QED BY <1>10, <2>1, <4>1
    <3> QED BY <2>2, <3>1, <3>2, <3>3
  <2>3. CASE CheckName(t) \/ SetName(t) \/ TakeProxy(t)
    BY <1>10, <2>1, <2>3, Moved, Ended DEF CheckName, SetName, TakeProxy
  <2> QED BY <1>11, <2>2, <2>3
<1>12. CASE Send(t) \/ CallSend(t) \/ SendAnswered(t) \/ SendThrows(t)
         \/ Refresh(t) \/ Fetch(t) \/ Clear(t) \/ Store(t)
  <2>1. UNCHANGED <<listed, sessionUser>>
    BY <1>12 DEF Send, CallSend, SendAnswered, SendThrows, Refresh, ReadList,
                 Fetch, Clear, Store, servlet
  <2>2. CASE Send(t) \/ Refresh(t)
    BY <1>0, <1>10, <2>1, <2>2 DEF Send, Refresh, ReadList, NoRequest
  <2>3. CASE CallSend(t) \/ SendAnswered(t) \/ SendThrows(t) \/ Clear(t) \/ Store(t)
    BY <1>10, <2>1, <2>3, Moved, Ended DEF CallSend, SendAnswered, SendThrows, Clear, Store
  <2>4. CASE Fetch(t)
    <3>1. req'[t].at \in {"idle", "clear"}
      <4>1. CASE proxy[Browser[t]] = None
        BY <2>4, <4>1, Ended DEF Fetch
      <4>2. CASE proxy[Browser[t]] # None
        BY <1>0, <2>4, <4>2 DEF Fetch, Request
      <4> QED BY <4>1, <4>2
    <3> QED BY <1>10, <2>1, <3>1
  <2> QED BY <1>12, <2>2, <2>3, <2>4
<1>13. CASE Deliver(t) \/ Deliveries(t)
  <2>1. UNCHANGED <<listed, sessionUser, req>>
    BY <1>13 DEF Deliver, Deliveries, servlet
  <2> QED BY <1>3, <1>4, <1>5, <2>1 DEF During
<1> QED BY <1>6, <1>7, <1>8, <1>9, <1>11, <1>12, <1>13 DEF TabStep

LEMMA InitNames == Init => NamesInv
<1> SUFFICES ASSUME Init PROVE NamesInv
  OBVIOUS
<1>1. MessagesInv /\ OneTabInv
  BY BrowserAssumption
     DEF Init, RoomInit, NoRequest, MessagesInv, OneTabInv, SessionInv, OwnedInv, HistoryInv,
         During, At
<1>2. TypedInv
  BY DEF Init, NoRequest, TypedInv
<1>3. ListInv
  <2> SUFFICES ASSUME NEW n \in Name PROVE listed[n] <= Cardinality(Entered(n))
    BY DEF ListInv
  <2>1. listed[n] = 0
    BY DEF Init
  <2> QED BY <2>1, EnteredFinite
<1> QED BY <1>1, <1>2, <1>3 DEF NamesInv

LEMMA NamesStep ==
  ASSUME Inv, NamesInv, [Next]_vars
  PROVE  NamesInv'
<1>0. TypeOK /\ SendInv /\ MessagesInv /\ OneTabInv /\ TypedInv /\ ListInv
  BY DEF Inv, NamesInv
<1>1. ASSUME NEW t \in Tab, TabStep(t) PROVE NamesInv'
  BY <1>0, <1>1, MessagesStep, OneTabStep, TypedStep, ListStep DEF NamesInv
<1>2. ASSUME NEW c \in Console, ConsoleStep(c) PROVE NamesInv'
  <2>1. UNCHANGED <<servlet, attrs, req>>
    BY <1>0, <1>2, ConsoleStays
  <2>2. MessagesInv' /\ TypedInv' /\ ListInv'
    BY <1>0, <2>1 DEF MessagesInv, TypedInv, ListInv, Entered, During, servlet, attrs
  <2>3. ASSUME NEW t \in Tab, OneTab(Browser[t])
        PROVE  SessionInv(t)' /\ OwnedInv(t)' /\ HistoryInv(t)'
    <3>1. \A n \in DOMAIN clients' : clients'[n] \in HandlesOf(t) =>
            n \in DOMAIN clients /\ clients'[n] = clients[n]
      BY <1>0, <1>2, OwnedElsewhere
    <3>2. SessionInv(t) /\ OwnedInv(t) /\ HistoryInv(t)
      BY <1>0, <2>3 DEF OneTabInv
    <3> QED BY <2>1, <3>1, <3>2, OthersKeep DEF servlet, attrs
  <2>4. OneTabInv'
    BY <2>3 DEF OneTabInv, OneTab
  <2> QED BY <2>2, <2>4 DEF NamesInv
<1>3. CASE UNCHANGED vars
  <2>1. UNCHANGED <<clients, listed, sessionUser, name, proxy, messages, req>>
    BY <1>3 DEF vars, roomVars, servlet, attrs
  <2>2. MessagesInv' /\ TypedInv' /\ ListInv'
    BY <1>0, <2>1 DEF MessagesInv, TypedInv, ListInv, Entered, During
  <2>3. OneTabInv'
    BY <1>0, <2>1 DEF OneTabInv, SessionInv, OwnedInv, HistoryInv, During, At
  <2> QED BY <2>2, <2>3 DEF NamesInv
<1> QED BY <1>1, <1>2, <1>3 DEF Next, TabStep, ConsoleStep

LEMMA NamesAlways == Spec => []NamesInv
<1>1. Init => NamesInv
  BY InitNames
<1>2. Inv /\ NamesInv /\ [Next]_vars => NamesInv'
  BY NamesStep
<1> QED BY InvAlways, <1>1, <1>2, PTL DEF Spec

\* Nothing is registered at the chat server for a session with one tab that has lost the
\* name or the handle it needs to unsubscribe (the branches of a refused login), whatever
\* the other sessions and the console clients do with the same names.
THEOREM NoOrphanAlways == Spec => []NoOrphan
<1>1. NamesInv => NoOrphan
  BY DEF NamesInv, OneTabInv, OwnedInv, NoOrphan, During, At
<1> QED BY NamesAlways, <1>1, PTL

\* A name stays in ClientServlet.clients, where it is refused to everybody else, only while
\* a session is logged in under it, if all who type it have one tab: logins that overtake
\* each other and logouts of a name that is somebody else's by now do not lock it.
THEOREM NoNameLockedAlways == Spec => []NoNameLocked
<1>1. TypeOK /\ ListInv => NoNameLocked
  <2> SUFFICES ASSUME TypeOK, ListInv, NEW n \in Name, Single(n)
               PROVE  listed[n] <= Cardinality({s \in Session : sessionUser[s] = n})
    BY DEF NoNameLocked, Single
  <2>1. PICK S : S = {s \in Session : sessionUser[s] = n}
    OBVIOUS
  <2>2. S \subseteq Session /\ IsFiniteSet(Session) /\ Entered(n) \subseteq S
    BY <2>1, BrowserAssumption DEF Entered
  <2>3. IsFiniteSet(S)
    BY <2>2, FS_Subset
  <2>4. Cardinality(Entered(n)) <= Cardinality(S)
    BY <2>2, <2>3, Grows
  <2>5. Cardinality(S) \in Nat
    BY <2>3, FS_CardinalityType
  <2>6. listed[n] \in Nat /\ listed[n] <= Cardinality(Entered(n))
    BY DEF TypeOK, ListInv
  <2> QED BY <2>1, <2>4, <2>5, <2>6, EnteredFinite
<1> QED BY InvAlways, NamesAlways, <1>1, PTL DEF Inv, NamesInv

\* The list of a session with one tab only grows: what refresh stores and what send
\* writes back contains it.
LEMMA ListKept ==
  ASSUME Inv, NamesInv, [Next]_vars, NEW s \in Session, OneTab(s), messages[s] # None
  PROVE  messages[s] \subseteq messages'[s]
<1>0. TypeOK /\ SendInv /\ MessagesInv /\ OneTabInv
  BY DEF Inv, NamesInv
<1>1. ASSUME NEW t \in Tab, TabStep(t) PROVE messages[s] \subseteq messages'[s]
  <2>1. CASE s # Browser[t]
    BY <1>0, <1>1, <2>1, ElsewhereStays
  <2>2. CASE s = Browser[t]
    <3>1. HistoryInv(t)
      BY <1>0, <2>2 DEF OneTabInv
    <3>2. CASE SendAnswered(t)
      <4>1. At(t, "sending")
        BY <1>0, <3>2 DEF SendAnswered, SendReturns, SendInv
      <4>2. messages'[s] = req[t].old
        BY <1>0, <2>2, <3>2 DEF SendAnswered, MessagesInv
      <4> QED BY <2>2, <3>1, <4>1, <4>2 DEF HistoryInv, During, At
    <3>3. CASE Store(t)
      <4>1. messages'[s] = Page(t)
        BY <1>0, <2>2, <3>3 DEF Store, MessagesInv
      <4>2. messages[s] \subseteq req[t].old
        BY <2>2, <3>1, <3>3 DEF Store, HistoryInv, During, At
      <4> QED BY <4>1, <4>2 DEF Page
    <3>4. CASE UNCHANGED messages
      BY <3>4
    <3> QED
      BY <1>1, <3>2, <3>3, <3>4
         DEF TabStep, Login, CheckName, SetName, Subscribe, TakeProxy, EnterSession, ListName,
             Send, CallSend, Deliver, Deliveries, SendThrows, Refresh, ReadList, Fetch,
             Clear, Logout, Unlist, Forget, attrs
  <2> QED BY <2>1, <2>2
<1>2. ASSUME NEW c \in Console, ConsoleStep(c) PROVE messages[s] \subseteq messages'[s]
  BY <1>0, <1>2, ConsoleStays DEF attrs
<1>3. CASE UNCHANGED vars
  BY <1>3 DEF vars, attrs
<1> QED BY <1>1, <1>2, <1>3 DEF Next, TabStep, ConsoleStep

\* A message that a page has shown stays in the list of a session with one tab
\* (ClientServlet.java, send and refresh), while other sessions send, log in and log out.
THEOREM HistoryKeptAlways == Spec => HistoryKept
<1> DEFINE A == \A s \in Session : OneTab(s) /\ messages[s] # None =>
       messages[s] \subseteq messages'[s]
<1>1. Inv /\ NamesInv /\ [Next]_vars => [A]_vars
  BY ListKept
<1>2. HistoryKept <=> [][A]_vars
  BY DEF HistoryKept
<1> HIDE DEF A
<1> QED BY InvAlways, NamesAlways, <1>1, <1>2, PTL DEF Spec

-----------------------------------------------------------------------------
(* The room behind the servlet.                                            *)

\* clients is a function, which the type invariant leaves open.
MapInv == clients = [n \in DOMAIN clients |-> clients[n]]

\* None is no name, so nothing is removed under it.
LEMMA RemoveNone ==
  ASSUME TypeOK, MapInv, Remove(None)
  PROVE  UNCHANGED <<clients, modCount>>
<1>1. None \notin DOMAIN clients
  BY HandleAssumption DEF TypeOK, RoomTypeOK
<1>2. DOMAIN clients \ {None} = DOMAIN clients
  BY <1>1
<1> QED BY <1>1, <1>2 DEF Remove, Taken, MapInv

LEMMA NextInRoom ==
  ASSUME Inv, MapInv, [Next]_vars
  PROVE  [RoomNext]_roomVars
<1> DEFINE OnMap == \/ UNCHANGED roomVars
                    \/ \E n \in Name : (Remove(n) \/ \E h \in Handle : Put(n, h)) /\ UNCHANGED sends
           OnSends(t) == \/ SendBegins(t) /\ UNCHANGED <<clients, modCount>>
                         \/ \E alive \in SUBSET Handle : Visit(t, alive)
                         \/ CleanUp(t) \/ RemoveDead(t) \/ SendFails(t) \/ SendReturns(t)
<1>0. TypeOK
  BY DEF Inv
<1>1. ASSUME NEW t \in Tab, Subscribe(t)
      PROVE  OnMap
  <2>1. req[t].n \in Name
    BY <1>0, <1>1 DEF Subscribe, At, TypeOK, Request
  <2>4. <<t, calls[t]>> \in Handle
    <3>1. calls[t] \in 1..MaxCalls[t]
      BY <1>0, <1>1, BrowserAssumption DEF Subscribe, At, Inv, CallsInv, TypeOK
    <3> QED BY <3>1, HandleAssumption DEF WebHandle, HandlesOf
  <2>2. CASE Taken(req[t].n)
    BY <1>1, <2>2 DEF Subscribe, PutIfAbsent, roomVars
  <2>3. CASE ~Taken(req[t].n)
    BY <1>1, <2>1, <2>3, <2>4 DEF Subscribe, PutIfAbsent
  <2> QED BY <2>2, <2>3
<1>2. ASSUME NEW t \in Tab, Logout(t)
      PROVE  OnMap
  <2>1. name[Browser[t]] \in Name \cup {None}
    BY <1>0, BrowserAssumption DEF TypeOK
  <2>2. Remove(name[Browser[t]]) /\ UNCHANGED sends
    BY <1>2 DEF Logout
  <2> QED BY <1>0, <2>1, <2>2, RemoveNone DEF roomVars
<1>3. ASSUME NEW c \in Console, ConsoleSubscribe(c)
      PROVE  OnMap
  <2>1. PICK n \in Typed[c] : PutIfAbsent(n, c)
    BY <1>3 DEF ConsoleSubscribe
  <2>2. n \in Name /\ c \in Handle /\ UNCHANGED sends
    BY <1>3, HandleAssumption, BrowserAssumption DEF ConsoleSubscribe
  <2> QED BY <2>1, <2>2 DEF PutIfAbsent, roomVars
<1>4. ASSUME NEW c \in Console, ConsoleUnsubscribe(c)
      PROVE  OnMap
  <2>1. username[c] \in Name
    BY <1>0, <1>4 DEF ConsoleUnsubscribe, TypeOK
  <2> QED BY <1>4, <2>1 DEF ConsoleUnsubscribe
<1>5. ASSUME NEW t \in Tab, CallSend(t)
      PROVE  UNCHANGED roomVars \/ OnSends(t)
  BY <1>5 DEF CallSend, roomVars
<1>6. ASSUME NEW t \in Tab, Deliver(t) \/ Deliveries(t) \/ SendAnswered(t) \/ SendThrows(t)
      PROVE  OnSends(t)
  BY <1>6 DEF Deliver, Deliveries, SendAnswered, SendThrows
<1>7. ASSUME NEW t \in Tab,
             \/ Login(t) \/ CheckName(t) \/ SetName(t) \/ TakeProxy(t) \/ EnterSession(t)
             \/ ListName(t) \/ Send(t) \/ Refresh(t) \/ Fetch(t) \/ Clear(t) \/ Store(t)
             \/ Unlist(t) \/ Forget(t)
      PROVE  UNCHANGED roomVars
  BY <1>7 DEF Login, CheckName, SetName, TakeProxy, EnterSession, ListName, Send, Refresh,
              ReadList, Fetch, Clear, Store, Unlist, Forget
<1>8. CASE UNCHANGED vars
  BY <1>8 DEF vars
<1>9. OnMap => [RoomNext]_roomVars
  BY DEF RoomNext
<1>10. \A t \in Tab : OnSends(t) => RoomNext
  BY HandleAssumption DEF RoomNext
<1> HIDE DEF OnMap, OnSends
<1> QED BY <1>1, <1>2, <1>3, <1>4, <1>5, <1>6, <1>7, <1>8, <1>9, <1>10 DEF Next

LEMMA MapStays ==
  ASSUME MapInv, [RoomNext]_roomVars
  PROVE  MapInv'
<1>1. UNCHANGED clients \/ \E n : Remove(n) \/ \E h : Put(n, h)
  BY DEF RoomNext, roomVars, Visit, CleanUp, RemoveDead, SendFails, SendReturns
<1>2. ASSUME NEW n, Remove(n)
      PROVE  MapInv'
  BY <1>2 DEF Remove, MapInv
<1>3. ASSUME NEW n, NEW h, Put(n, h)
      PROVE  MapInv'
  BY <1>3 DEF Put, MapInv
<1> QED BY <1>1, <1>2, <1>3 DEF MapInv

\* Servlet and consoles use the room as its other clients do, by its operations:
\* what the room keeps of its promise (RoomKeepsPromise of ChatClientsProofs), it
\* keeps behind the servlet, too.
THEOREM ServletUsesRoom == Spec => RoomSpec
<1>1. Init => RoomInit /\ MapInv
  BY DEF Init, RoomInit, MapInv
<1>2. Inv /\ MapInv /\ [Next]_vars => [RoomNext]_roomVars /\ MapInv'
  BY NextInRoom, MapStays
<1> QED BY <1>1, <1>2, InvAlways, PTL DEF Spec, RoomSpec

=============================================================================
