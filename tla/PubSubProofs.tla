---------------------------- MODULE PubSubProofs ----------------------------
(***************************************************************************)
(* Proofs about the publish/subscribe service of VS04, for every set of    *)
(* clients and hosts and every number of calls, resends and faults: types, *)
(* that an address is in the table once, and that requests which are       *)
(* executed again do no harm.                                              *)
(***************************************************************************)
EXTENDS PubSub, SharedProofs, TLAPS

\* The receiver a client forked last runs.
Child(c) == childPID[c] # 0 /\ Running(childPID[c])
On(c) == Listed(subs, HostOf[c])
Stuck == subscribeCode = "CLIENT_ALREADY_REGISTERED"

\* The answer a client waits for has arrived; the i-th is the first to say so.
HasAnswer(c) == \E i \in DOMAIN answers[c] : answers[c][i].xid = xid[c]
First(c, i) ==
  /\ answers[c][i].xid = xid[c]
  /\ \A j \in 1..(i - 1) : answers[c][j].xid # xid[c]

\* A publish under way still heads the requests.
PublishInv ==
  publishing # <<>> =>
    socket # <<>> /\ Head(publishing).request = Head(socket) /\ Head(socket).op = "publish"

\* Requests and answers are about calls that were made, and requests arrive in
\* the order of the calls.
NumberInv ==
  /\ \A i \in DOMAIN socket :
       /\ socket[i].xid <= xid[socket[i].from]
       /\ socket[i].xid = xid[socket[i].from] /\ Waiting(socket[i].from) =>
            socket[i].op = OperationOf(at[socket[i].from])
  /\ \A c \in Client : \A i \in DOMAIN answers[c] : answers[c][i].xid <= xid[c]

OrderInv ==
  \A i, j \in DOMAIN socket : i < j /\ socket[i].from = socket[j].from =>
    /\ socket[i].xid <= socket[j].xid
    /\ socket[i].xid = socket[j].xid => socket[i].op = socket[j].op

ChildInv == \A c \in Client : childPID[c] # 0 => receivers[childPID[c]].host = HostOf[c]

\* To execute a request of a call that has been executed or given up changes
\* nothing for its client.
Stale(c, number) == ~Waiting(c) \/ number # xid[c] \/ HasAnswer(c)
Harmless(c, op) ==
  /\ op = "subscribe" => On(c) \/ Stuck
  /\ op = "unsubscribe" => ~On(c)
StaleInv(c) ==
  \A i \in DOMAIN socket :
    socket[i].from = c /\ Stale(c, socket[i].xid) => Harmless(c, socket[i].op)

\* A client is in the table if its receiver runs, except between the execution of
\* its call and its answer.
CallInv(c) ==
  /\ ~Waiting(c) \/ ~HasAnswer(c) \/ at[c] \in {"publish", "set_channel"} => (On(c) <=> Child(c))
  /\ HasAnswer(c) => Harmless(c, OperationOf(at[c]))
  /\ at[c] = "subscribe" => \A i \in DOMAIN answers[c] : First(c, i) =>
       IF answers[c][i].code = "OK" THEN On(c) /\ ~Child(c)
       ELSE (On(c) <=> Child(c)) /\ (On(c) \/ Stuck)
  /\ at[c] \in {"unsubscribe", "exit"} => \A i \in DOMAIN answers[c] : First(c, i) =>
       ~On(c) /\ (answers[c][i].code = "OK" <=> Child(c))

\* When resends are harmless.
Calm ==
  /\ Separate /\ Cardinality(Host) <= MaxSubs
  /\ faults["answer lost"] = 0 /\ faults["receiver"] = 0

Typed == TypeOK /\ PublishInv

TableInv == Separate => OnceEach(subs)

CalmInv == Calm => \A c \in Client : at[c] \notin Ended => StaleInv(c) /\ CallInv(c)

Inv == Typed /\ NumberInv /\ OrderInv /\ ChildInv /\ TableInv /\ CalmInv

-----------------------------------------------------------------------------
(* Types.                                                                  *)

Turn == [request : Request, next : 1..Len(subs), to : 0..Len(receivers)]
Place == MenuChoice \cup Ended \cup {"new", "menu"}

TurnsTyped == publishing \in Seq(Turn) /\ Len(publishing) <= 1
NetTyped == socket \in Seq(Request) /\ answers \in [Client -> Seq(Answer)]
ClientsTyped ==
  /\ at \in [Client -> Place]
  /\ xid \in [Client -> Nat]
  /\ resends \in [Client -> 0..MaxResends]
TableTyped ==
  /\ server \in {"off", "up"}
  /\ subs \in Seq(Host) /\ Len(subs) <= MaxSubs
  /\ topic \in {"null", "uninitialised", "set"}
  /\ subscribeCode \in {"OK", "CANNOT_REGISTER", "CLIENT_ALREADY_REGISTERED"}
ProcessesTyped ==
  /\ ReceiversTypeOK
  /\ childPID \in [Client -> 0..Len(receivers)]

LEMMA TypeParts ==
  TypeOK <=> /\ TurnsTyped /\ NetTyped /\ ClientsTyped /\ TableTyped /\ ProcessesTyped
             /\ faults \in [FaultKind -> Nat]
BY DEF TypeOK, TurnsTyped, NetTyped, ClientsTyped, TableTyped, ProcessesTyped, Turn, Place

LEMMA TypeNext ==
  TurnsTyped' /\ NetTyped' /\ ClientsTyped' /\ TableTyped' /\ ProcessesTyped'
    /\ faults' \in [FaultKind -> Nat] => TypeOK'
BY DEF TypeOK, TurnsTyped, NetTyped, ClientsTyped, TableTyped, ProcessesTyped, Turn, Place

LEMMA InitTyped == Init => Typed
<1> SUFFICES ASSUME Init PROVE Typed
  OBVIOUS
<1>1. TurnsTyped /\ NetTyped /\ PublishInv
  BY DEF Init, TurnsTyped, NetTyped, PublishInv
<1>2. ClientsTyped /\ TableTyped
  BY LimitAssumption DEF Init, ClientsTyped, TableTyped, Place
<1>3. ProcessesTyped /\ faults \in [FaultKind -> Nat]
  BY DEF Init, ProcessesTyped, ReceiversInit, ReceiversTypeOK
<1> QED
  BY <1>1, <1>2, <1>3, TypeParts DEF Typed

LEMMA HeadRequest ==
  ASSUME NetTyped, socket # <<>>
  PROVE  /\ Head(socket) \in Request /\ Head(socket).from \in Client /\ Tail(socket) \in Seq(Request)
         /\ 1 \in DOMAIN socket /\ socket[1] = Head(socket)
<1>1. socket \in Seq(Request)
  BY DEF NetTyped
<1>2. Head(socket) \in Request /\ Tail(socket) \in Seq(Request) /\ 1 \in DOMAIN socket
      /\ socket[1] = Head(socket)
  BY <1>1
<1> QED
  BY <1>2 DEF Request

\* An answer is added for the caller, unless its process has ended.
LEMMA ReplyEffect ==
  ASSUME NetTyped, socket # <<>>, NEW r \in Request, NEW code \in Codes, Reply(r, code)
  PROVE  /\ NetTyped' /\ socket' = Tail(socket)
         /\ \A c \in Client : c # r.from => answers'[c] = answers[c]
         /\ at[r.from] \notin Ended =>
              answers'[r.from] = Append(answers[r.from], [xid |-> r.xid, code |-> code])
<1>1. socket' = Tail(socket) /\ Tail(socket) \in Seq(Request)
  BY HeadRequest DEF Reply
<1>2. r.from \in Client /\ [xid |-> r.xid, code |-> code] \in Answer
  BY DEF Request, Answer
<1>3. Append(answers[r.from], [xid |-> r.xid, code |-> code]) \in Seq(Answer)
  BY <1>2 DEF NetTyped
<1> QED
  BY <1>1, <1>2, <1>3 DEF Reply, NetTyped

\* What the execution of r does to the table and answers.
TableStep(r, code) ==
  LET a == HostOf[r.from] IN
    /\ r.op = "subscribe" =>
         /\ subs' = IF Searched(a) # "CLIENT_ALREADY_REGISTERED" /\ Len(subs) < MaxSubs
                    THEN Append(subs, a) ELSE subs
         /\ subscribeCode' = IF Searched(a) # "CLIENT_ALREADY_REGISTERED" /\ Len(subs) < MaxSubs
                             THEN "OK"
                             ELSE IF Len(subs) = MaxSubs THEN "CANNOT_REGISTER" ELSE Searched(a)
         /\ code = subscribeCode'
    /\ r.op = "unsubscribe" =>
         subs' = Unregister(subs, a).subs /\ code = Unregister(subs, a).code
    /\ r.op # "subscribe" => subscribeCode' = subscribeCode
    /\ r.op \notin {"subscribe", "unsubscribe"} => subs' = subs

Quiet ==
  /\ UNCHANGED <<netVars, subs, subscribeCode>>
  /\ \E p \in Turn : publishing' = <<p>> /\ p.request = Head(socket)
  /\ socket # <<>> /\ Head(socket).op = "publish"

Executes ==
  /\ socket # <<>> /\ publishing' = <<>>
  /\ \E code \in Codes : Reply(Head(socket), code) /\ TableStep(Head(socket), code)

LEMMA HeadTurn ==
  ASSUME Typed, publishing # <<>>
  PROVE  /\ Head(publishing) \in Turn /\ socket # <<>> /\ Head(publishing).request = Head(socket)
         /\ Head(socket).op = "publish"
BY TypeParts DEF Typed, TurnsTyped, PublishInv

LEMMA TurnEndsCases ==
  ASSUME Typed, publishing # <<>>, NEW p \in Turn, NEW code \in Codes,
         p = Head(publishing), TurnEnds(p, code), UNCHANGED <<subs, subscribeCode>>
  PROVE  Quiet \/ Executes
<1>0. p.request = Head(socket) /\ Head(socket).op = "publish" /\ socket # <<>>
  BY HeadTurn
<1>1. CASE LastTurn(p)
  BY <1>0, <1>1 DEF TurnEnds, Executes, TableStep
<1>2. CASE ~LastTurn(p)
  <2> DEFINE q == [p EXCEPT !.next = p.next + 1, !.to = 0]
  <2>1. publishing' = <<q>> /\ UNCHANGED netVars
    BY <1>2 DEF TurnEnds
  <2>2. p.next \in 1..Len(subs) /\ p.next # Len(subs) /\ Len(subs) \in Nat
    BY <1>2, TypeParts DEF Turn, LastTurn, Typed, TableTyped
  <2>3. p.next + 1 \in 1..Len(subs)
    BY <2>2
  <2>4. 0 \in 0..Len(receivers)
    BY TypeParts DEF Typed, ProcessesTyped, ReceiversTypeOK
  <2>5. q \in Turn /\ q.request = p.request
    BY <2>3, <2>4 DEF Turn
  <2> QED
    BY <1>0, <2>1, <2>5 DEF Quiet
<1> QED
  BY <1>1, <1>2

LEMMA ServeCases ==
  ASSUME Typed, Serve
  PROVE  /\ UNCHANGED <<server, clientVars, processVars, faults>>
         /\ topic' \in {"null", "uninitialised", "set"}
         /\ Quiet \/ Executes
<1>0. NetTyped /\ TableTyped /\ ProcessesTyped /\ TurnsTyped /\ {"OK", "UNKNOWN_ERROR"} \subseteq Codes
  BY TypeParts DEF Typed, Codes
<1>1. CASE ServeSetChannel
  <2>1. socket # <<>> /\ publishing = <<>> /\ Head(socket).op = "set_channel"
    BY <1>1 DEF ServeSetChannel, Serving
  <2>2. PICK code \in Codes : Reply(Head(socket), code)
    BY <1>1 DEF ServeSetChannel, Codes
  <2> QED
    BY <1>1, <2>1, <2>2 DEF ServeSetChannel, Executes, TableStep
<1>2. CASE ServeSubscribe
  <2>1. socket # <<>> /\ publishing = <<>> /\ Head(socket).op = "subscribe"
    BY <1>2 DEF ServeSubscribe, Serving
  <2>2. PICK code \in Codes : code = subscribeCode'
    BY <1>0, <1>2 DEF ServeSubscribe, Searched, Codes, TableTyped
  <2> QED
    BY <1>0, <1>2, <2>1, <2>2 DEF ServeSubscribe, Executes, TableStep, TableTyped
<1>3. CASE ServeUnsubscribe
  <2>1. socket # <<>> /\ publishing = <<>> /\ Head(socket).op = "unsubscribe"
    BY <1>3 DEF ServeUnsubscribe, Serving
  <2>2. PICK code \in Codes : code = Unregister(subs, HostOf[Head(socket).from]).code
    <3>1. HostOf[Head(socket).from] \in Host /\ subs \in Seq(Host)
      BY <1>0, <2>1, HeadRequest, ClientAssumption DEF TableTyped
    <3> QED
      BY <3>1, UnregisterResult DEF Codes
  <2> QED
    BY <1>0, <1>3, <2>1, <2>2 DEF ServeUnsubscribe, Executes, TableStep, TableTyped
<1>4. CASE ServePublish
  <2>1. socket # <<>> /\ publishing = <<>> /\ Head(socket).op = "publish"
    BY <1>4 DEF ServePublish, Serving
  <2>2. CASE subs = <<>>
    BY <1>0, <1>4, <2>1, <2>2 DEF ServePublish, Executes, TableStep, TableTyped
  <2>3. CASE subs # <<>>
    <3>1. Len(subs) \in Nat /\ Len(subs) # 0 /\ Len(receivers) \in Nat
      BY <1>0, <2>3 DEF TableTyped, ProcessesTyped, ReceiversTypeOK
    <3>2. [request |-> Head(socket), next |-> 1, to |-> 0] \in Turn
      BY <1>0, <2>1, <3>1, HeadRequest DEF Turn
    <3> QED
      BY <1>0, <1>4, <2>1, <2>3, <3>2 DEF ServePublish, Quiet, TableTyped
  <2> QED
    BY <2>2, <2>3
<1>5. CASE Deliver
  <2>1. /\ publishing # <<>> /\ UNCHANGED <<server, subs, topic, subscribeCode>>
        /\ UNCHANGED <<clientVars, processVars, faults>>
    BY <1>5 DEF Deliver, Contact, Receive, DeliveryFails
  <2>2. PICK p \in Turn : p = Head(publishing) /\ p.request = Head(socket)
    BY <2>1, HeadTurn
  <2>3. \/ \E code \in {"OK", "UNKNOWN_ERROR"} : TurnEnds(p, code)
        \/ publishing' = <<[p EXCEPT !.to = portmap[subs[p.next]]]>> /\ UNCHANGED netVars
    BY <1>5, <2>2 DEF Deliver, Contact, Receive, DeliveryFails
  <2>4. CASE \E code \in {"OK", "UNKNOWN_ERROR"} : TurnEnds(p, code)
    BY <1>0, <2>1, <2>2, <2>4, TurnEndsCases DEF TableTyped
  <2>5. CASE publishing' = <<[p EXCEPT !.to = portmap[subs[p.next]]]>> /\ UNCHANGED netVars
    <3>1. subs[p.next] \in Host
      BY <1>0 DEF Turn, TableTyped
    <3>2. portmap[subs[p.next]] \in 0..Len(receivers)
      BY <1>0, <3>1 DEF ProcessesTyped, ReceiversTypeOK
    <3>3. [p EXCEPT !.to = portmap[subs[p.next]]] \in Turn
      BY <3>2 DEF Turn
    <3>4. [p EXCEPT !.to = portmap[subs[p.next]]].request = p.request
      BY DEF Turn
    <3> QED
      BY <1>0, <2>1, <2>2, <2>5, <3>3, <3>4, HeadTurn DEF Quiet, TableTyped
  <2> QED
    BY <2>3, <2>4, <2>5
<1> QED
  BY <1>1, <1>2, <1>3, <1>4, <1>5 DEF Serve

LEMMA TableStepTyped ==
  ASSUME TableTyped, NEW r \in Request, NEW code, TableStep(r, code), server' = server,
         topic' \in {"null", "uninitialised", "set"}
  PROVE  TableTyped'
<1>1. PICK a \in Host : a = HostOf[r.from]
  BY ClientAssumption DEF Request
<1>2. CASE r.op = "subscribe"
  <2>1. Append(subs, a) \in Seq(Host) /\ Len(Append(subs, a)) = Len(subs) + 1 /\ Len(subs) \in Nat
    BY DEF TableTyped
  <2>2. CASE Searched(a) # "CLIENT_ALREADY_REGISTERED" /\ Len(subs) < MaxSubs
    <3>1. subs' = Append(subs, a) /\ subscribeCode' = "OK"
      BY <1>1, <1>2, <2>2 DEF TableStep
    <3> QED
      BY <2>1, <2>2, <3>1, LimitAssumption DEF TableTyped
  <2>3. CASE ~(Searched(a) # "CLIENT_ALREADY_REGISTERED" /\ Len(subs) < MaxSubs)
    <3>1. /\ subs' = subs
          /\ subscribeCode' = IF Len(subs) = MaxSubs THEN "CANNOT_REGISTER" ELSE Searched(a)
      BY <1>1, <1>2, <2>3 DEF TableStep
    <3> QED
      BY <3>1 DEF Searched, TableTyped
  <2> QED
    BY <2>2, <2>3
<1>3. CASE r.op = "unsubscribe"
  <2>1. PICK t \in Seq(Host) : t = Unregister(subs, a).subs /\ Len(t) <= Len(subs)
    BY UnregisterResult DEF TableTyped
  <2>2. Len(t) <= MaxSubs /\ subs' = t /\ subscribeCode' = subscribeCode
    <3>1. Len(t) \in Nat /\ Len(subs) \in Nat /\ Len(subs) <= MaxSubs
      BY DEF TableTyped
    <3>2. Len(t) <= MaxSubs
      BY <2>1, <3>1, LimitAssumption
    <3> QED
      BY <1>1, <1>3, <2>1, <3>2 DEF TableStep
  <2> QED
    BY <2>2 DEF TableTyped
<1>4. CASE r.op \notin {"subscribe", "unsubscribe"}
  BY <1>4 DEF TableStep, TableTyped
<1> QED
  BY <1>2, <1>3, <1>4

LEMMA ServeTyped ==
  ASSUME Typed, Serve
  PROVE  Typed'
<1>0. /\ NetTyped /\ TableTyped /\ ProcessesTyped /\ ClientsTyped /\ faults \in [FaultKind -> Nat]
      /\ UNCHANGED <<server, clientVars, processVars, faults>>
      /\ topic' \in {"null", "uninitialised", "set"}
  BY TypeParts, ServeCases DEF Typed
<1>1. ClientsTyped' /\ ProcessesTyped' /\ faults' \in [FaultKind -> Nat]
  BY <1>0 DEF ClientsTyped, ProcessesTyped, ReceiversTypeOK, clientVars, processVars
<1>2. CASE Quiet
  <2>1. NetTyped' /\ TableTyped'
    BY <1>0, <1>2 DEF Quiet, NetTyped, TableTyped, netVars
  <2>2. Turn' = Turn
    BY <1>0, <1>2 DEF Quiet, Turn, processVars
  <2>3. PICK p \in Turn : publishing' = <<p>> /\ p.request = Head(socket)
    BY <1>2 DEF Quiet
  <2>4. TurnsTyped'
    BY <2>2, <2>3 DEF TurnsTyped
  <2>5. PublishInv'
    BY <1>2, <2>3 DEF PublishInv, Quiet, netVars
  <2> QED
    BY <1>1, <2>1, <2>4, <2>5, TypeNext DEF Typed
<1>3. CASE Executes
  <2>1. PICK code \in Codes : Reply(Head(socket), code) /\ TableStep(Head(socket), code)
    BY <1>3 DEF Executes
  <2>2. PICK r \in Request : r = Head(socket)
    BY <1>0, <1>3, HeadRequest DEF Executes
  <2>3. NetTyped' /\ TableTyped'
    BY <1>0, <1>3, <2>1, <2>2, ReplyEffect, TableStepTyped DEF Executes
  <2>4. TurnsTyped' /\ PublishInv'
    BY <1>3 DEF Executes, TurnsTyped, PublishInv
  <2> QED
    BY <1>1, <2>3, <2>4, TypeNext DEF Typed
<1> QED
  BY <1>2, <1>3, ServeCases

\* A step of a client leaves the server alone, and the requests that have arrived
\* stay.
ServerAlone ==
  /\ UNCHANGED serverVars
  /\ publishing # <<>> => socket' # <<>> /\ Head(socket') = Head(socket)
  /\ Len(receivers) <= Len(receivers')

LEMMA ClientStepTyped ==
  ASSUME Typed, ServerAlone, NetTyped', ClientsTyped', ProcessesTyped', faults' \in [FaultKind -> Nat]
  PROVE  Typed'
<1>1. TurnsTyped /\ TableTyped /\ ProcessesTyped
  BY TypeParts DEF Typed
<1>2. TableTyped'
  BY <1>1 DEF ServerAlone, TableTyped, serverVars
<1>3. Turn \subseteq Turn'
  <2>1. Len(receivers) \in Nat /\ Len(receivers') \in Nat /\ Len(receivers) <= Len(receivers')
    BY <1>1 DEF ProcessesTyped, ReceiversTypeOK, ServerAlone
  <2>2. 0..Len(receivers) \subseteq 0..Len(receivers')
    BY <2>1
  <2> QED
    BY <2>2 DEF Turn, ServerAlone, serverVars
<1>4. TurnsTyped'
  BY <1>1, <1>3 DEF TurnsTyped, ServerAlone, serverVars
<1>5. PublishInv'
  BY DEF Typed, PublishInv, ServerAlone, serverVars
<1> QED
  BY <1>2, <1>4, <1>5, TypeNext DEF Typed

\* A request arrives.
LEMMA SentEffect ==
  ASSUME NetTyped, NEW r \in Request, socket' = Append(socket, r)
  PROVE  /\ socket' \in Seq(Request)
         /\ Len(socket') = Len(socket) + 1 /\ socket'[Len(socket) + 1] = r
         /\ Len(socket) \in Nat /\ DOMAIN socket = 1..Len(socket)
         /\ DOMAIN socket' = 1..(Len(socket) + 1)
         /\ \A i \in 1..Len(socket) : socket'[i] = socket[i]
         /\ socket # <<>> => socket' # <<>> /\ Head(socket') = Head(socket)
BY DEF NetTyped

LEMMA RequestType ==
  ASSUME ClientsTyped, NEW c \in Client, Waiting(c)
  PROVE  RequestOf(c) \in Request
BY DEF ClientsTyped, RequestOf, Request, Waiting, OperationOf, Operations, MenuChoice

LEMMA FaultType ==
  ASSUME faults \in [FaultKind -> Nat], NEW k \in FaultKind, Fault(k)
  PROVE  faults' \in [FaultKind -> Nat] /\ faults'[k] # 0 /\ \A j \in FaultKind : faults'[j] >= faults[j]
<1>1. PICK n \in Nat : n = faults[k]
  OBVIOUS
<1>2. faults' = [faults EXCEPT ![k] = n + 1] /\ n + 1 \in Nat /\ n + 1 # 0
  BY <1>1 DEF Fault
<1>3. \A j \in FaultKind : faults[j] \in Nat /\ (j # k => faults'[j] = faults[j])
  BY <1>2
<1> QED
  BY <1>1, <1>2, <1>3

-----------------------------------------------------------------------------
(* Steps of the clients, of their receivers and of the network.            *)

LEMMA GoesEffect ==
  ASSUME NetTyped, ClientsTyped, NEW c \in Client, NEW where \in Place, NEW rest \in Seq(Answer),
         Goes(c, where, rest), socket' = socket
  PROVE  /\ NetTyped' /\ ClientsTyped' /\ xid' = xid
         /\ at'[c] = where /\ answers'[c] = IF where \in Ended THEN <<>> ELSE rest
         /\ \A d \in Client : d # c => at'[d] = at[d] /\ answers'[d] = answers[d]
BY DEF NetTyped, ClientsTyped, Goes

LEMMA FirstAnswer ==
  ASSUME NetTyped, NEW c \in Client, answers[c] # <<>>
  PROVE  /\ answers[c] \in Seq(Answer) /\ Tail(answers[c]) \in Seq(Answer)
         /\ DOMAIN answers[c] = 1..Len(answers[c]) /\ 1 \in DOMAIN answers[c]
         /\ Head(answers[c]) = answers[c][1] /\ Head(answers[c]) \in Answer
         /\ Len(answers[c]) \in Nat
<1>1. answers[c] \in Seq(Answer)
  BY DEF NetTyped
<1> QED
  BY <1>1

\* A client forks a receiver, ends the one it forked last, or neither.
Forked(c) ==
  Fork(HostOf[c]) /\ childPID' = [childPID EXCEPT ![c] = Len(receivers')] /\ portmap' = portmap
EndedChild(c) == childPID[c] # 0 /\ End(childPID[c]) /\ UNCHANGED <<childPID, portmap>>
SameProcesses == UNCHANGED <<processVars, childPID>>

LEMMA ProcessEffect ==
  ASSUME ProcessesTyped, NEW c \in Client, Forked(c) \/ EndedChild(c) \/ SameProcesses
  PROVE  ProcessesTyped' /\ Len(receivers) <= Len(receivers')
<1>0. ReceiversTypeOK /\ HostOf[c] \in Host /\ childPID[c] \in 0..Len(receivers)
      /\ childPID \in [Client -> 0..Len(receivers)] /\ Len(receivers) \in Nat
  BY ClientAssumption DEF ProcessesTyped, ReceiversTypeOK
<1>1. CASE Forked(c)
  <2>1. ReceiversTypeOK' /\ Len(receivers') = Len(receivers) + 1
    BY <1>0, <1>1, ForkEffect DEF Forked
  <2>2. 0..Len(receivers) \subseteq 0..Len(receivers') /\ Len(receivers') \in 0..Len(receivers')
    BY <1>0, <2>1
  <2>3. childPID' \in [Client -> 0..Len(receivers')]
    BY <1>0, <1>1, <2>2 DEF Forked
  <2> QED
    BY <1>0, <2>1, <2>3 DEF ProcessesTyped
<1>2. CASE EndedChild(c)
  <2>1. PICK p \in 1..Len(receivers) : p = childPID[c]
    BY <1>0, <1>2 DEF EndedChild
  <2>2. receivers' = [receivers EXCEPT ![p].state = "ended"] /\ portmap' = portmap
        /\ portmap' \in [Host -> 0..Len(receivers)]
    BY <1>0, <1>2, <2>1 DEF EndedChild, End, ReceiversTypeOK
  <2>3. ReceiversTypeOK' /\ Len(receivers') = Len(receivers)
    BY <1>0, <2>2, StateChange
  <2> QED
    BY <1>0, <1>2, <2>3 DEF ProcessesTyped, EndedChild
<1>3. CASE SameProcesses
  BY <1>0, <1>3 DEF SameProcesses, ProcessesTyped, ReceiversTypeOK, processVars
<1> QED
  BY <1>1, <1>2, <1>3

\* The calls that end: what came back, and where the client goes.
LEMMA GotCases ==
  ASSUME Typed, NEW c \in Client, Got(c)
  PROVE  /\ Answered(c) /\ UNCHANGED <<serverVars, socket, faults>>
         /\ \E where \in {"menu", "exited"} : Goes(c, where, Tail(answers[c]))
         /\ at[c] = "subscribe" => IF Code(c) = "OK" THEN Forked(c) ELSE SameProcesses
         /\ at[c] \in {"unsubscribe", "exit"} =>
              IF childPID[c] # 0 /\ Code(c) = "OK" THEN EndedChild(c) ELSE SameProcesses
         /\ at[c] \in {"publish", "set_channel"} => SameProcesses
         /\ at[c] \in MenuChoice
BY DEF Got, GotSubscribe, GotUnsubscribe, GotOther, Forked, EndedChild, SameProcesses, processVars,
       Answered, Waiting

LEMMA TimeOutCases ==
  ASSUME NEW c \in Client, TimeOut(c)
  PROVE  /\ Waiting(c) /\ ~Answered(c) /\ UNCHANGED <<serverVars, socket, faults>> /\ SameProcesses
         /\ \E where \in {"menu", "exited", "crashed"} :
              /\ Goes(c, where, answers[c])
              /\ where = "menu" => at[c] = "set_channel" \/ (at[c] = "unsubscribe" /\ childPID[c] = 0)
BY DEF TimeOut, SameProcesses

LEMMA Places ==
  /\ {"menu", "exited", "crashed", "killed", "refused"} \subseteq Place
  /\ {"exited", "crashed", "killed", "refused"} \subseteq Ended /\ "menu" \notin Ended
  /\ MenuChoice \cap Ended = {} /\ "menu" \notin MenuChoice /\ MenuChoice \subseteq Place
BY DEF Place, Ended, MenuChoice

LEMMA ClientTyped ==
  ASSUME Typed, NEW c \in Client,
         Connect(c) \/ Choose(c) \/ Resend(c) \/ Discard(c) \/ Got(c) \/ TimeOut(c)
           \/ LoseAnswer(c) \/ Kill(c)
  PROVE  Typed'
<1>0. /\ NetTyped /\ ClientsTyped /\ ProcessesTyped /\ faults \in [FaultKind -> Nat]
      /\ answers[c] \in Seq(Answer) /\ Len(receivers) \in Nat
  BY TypeParts DEF Typed, NetTyped, ProcessesTyped, ReceiversTypeOK
<1>1. ASSUME SameProcesses PROVE ProcessesTyped' /\ Len(receivers) <= Len(receivers')
  BY <1>0, <1>1, ProcessEffect
<1>2. CASE Connect(c)
  <2>1. NetTyped' /\ ClientsTyped' /\ SameProcesses /\ faults' = faults /\ socket' = socket
    BY <1>0, <1>2, Places DEF Connect, NetTyped, ClientsTyped, SameProcesses, netVars
  <2> QED
    BY <1>0, <1>1, <1>2, <2>1, ClientStepTyped, HeadTurn DEF Connect, ServerAlone
<1>3. CASE Choose(c)
  <2>1. ClientsTyped' /\ Waiting(c)'
    <3>1. PICK choice \in MenuChoice : at' = [at EXCEPT ![c] = choice]
      BY <1>3, LimitAssumption DEF Choose
    <3>2. xid' = [xid EXCEPT ![c] = @ + 1] /\ resends' = [resends EXCEPT ![c] = 0]
          /\ 0 \in 0..MaxResends
      BY <1>3, LimitAssumption DEF Choose
    <3> QED
      BY <1>0, <3>1, <3>2, Places DEF ClientsTyped, Waiting
  <2>2. RequestOf(c)' \in Request
    BY <2>1 DEF ClientsTyped, RequestOf, Request, Waiting, OperationOf, Operations, MenuChoice
  <2>3. PICK r \in Request : socket' = Append(socket, r)
    BY <1>3, <2>2 DEF Choose
  <2>4. socket' \in Seq(Request) /\ (socket # <<>> => socket' # <<>> /\ Head(socket') = Head(socket))
    BY <1>0, <2>3, SentEffect
  <2>5. NetTyped' /\ SameProcesses /\ faults' = faults
    BY <1>0, <1>3, <2>4 DEF Choose, NetTyped, SameProcesses
  <2> QED
    BY <1>0, <1>1, <1>3, <2>1, <2>4, <2>5, ClientStepTyped, HeadTurn DEF Choose, ServerAlone
<1>4. CASE Resend(c)
  <2>1. ClientsTyped'
    <3>1. resends[c] \in 0..MaxResends /\ resends[c] < MaxResends /\ MaxResends \in Nat
      BY <1>0, <1>4, LimitAssumption DEF Resend, TimeLeft, ClientsTyped
    <3>2. PICK n \in 0..MaxResends : n = resends[c] + 1
      BY <3>1
    <3> QED
      BY <1>0, <1>4, <3>2 DEF Resend, ClientsTyped
  <2>2. RequestOf(c) \in Request /\ socket' = Append(socket, RequestOf(c))
    BY <1>0, <1>4, RequestType DEF Resend
  <2>3. socket' \in Seq(Request) /\ (socket # <<>> => socket' # <<>> /\ Head(socket') = Head(socket))
    BY <1>0, <2>2, SentEffect
  <2>4. NetTyped' /\ SameProcesses /\ faults' = faults
    BY <1>0, <1>4, <2>3 DEF Resend, NetTyped, SameProcesses
  <2> QED
    BY <1>0, <1>1, <1>4, <2>1, <2>3, <2>4, ClientStepTyped, HeadTurn DEF Resend, ServerAlone
<1>5. CASE Discard(c) \/ LoseAnswer(c)
  <2>1. /\ answers[c] # <<>> /\ answers' = [answers EXCEPT ![c] = Tail(@)]
        /\ UNCHANGED <<serverVars, socket, clientVars, processVars>>
        /\ faults' \in [FaultKind -> Nat]
    BY <1>0, <1>5, FaultType DEF Discard, LoseAnswer, FaultKind
  <2>2. NetTyped' /\ ClientsTyped' /\ SameProcesses
    BY <1>0, <2>1, FirstAnswer DEF NetTyped, ClientsTyped, SameProcesses, clientVars
  <2> QED
    BY <1>0, <1>1, <2>1, <2>2, ClientStepTyped, HeadTurn DEF ServerAlone
<1>6. CASE Got(c)
  <2>1. /\ Answered(c) /\ UNCHANGED <<serverVars, socket, faults>>
        /\ Forked(c) \/ EndedChild(c) \/ SameProcesses
    BY <1>6, GotCases DEF MenuChoice
  <2>2. PICK where \in Place : Goes(c, where, Tail(answers[c]))
    BY <1>6, GotCases, Places
  <2>3. Tail(answers[c]) \in Seq(Answer)
    BY <1>0, <2>1, FirstAnswer DEF Answered
  <2>4. NetTyped' /\ ClientsTyped' /\ ProcessesTyped' /\ Len(receivers) <= Len(receivers')
    BY <1>0, <2>1, <2>2, <2>3, GoesEffect, ProcessEffect
  <2> QED
    BY <1>0, <2>1, <2>4, ClientStepTyped, HeadTurn DEF ServerAlone
<1>7. CASE TimeOut(c)
  <2>1. PICK where \in Place : Goes(c, where, answers[c])
    BY <1>7, TimeOutCases, Places
  <2>2. UNCHANGED <<serverVars, socket, faults>> /\ SameProcesses
    BY <1>7, TimeOutCases
  <2>3. NetTyped' /\ ClientsTyped'
    BY <1>0, <2>1, <2>2, GoesEffect
  <2> QED
    BY <1>0, <1>1, <2>2, <2>3, ClientStepTyped, HeadTurn DEF ServerAlone
<1>8. CASE Kill(c)
  <2>1. /\ Goes(c, "killed", <<>>) /\ UNCHANGED <<serverVars, socket>>
        /\ EndedChild(c) \/ SameProcesses
    BY <1>8 DEF Kill, EndedChild, SameProcesses, processVars
  <2>2. <<>> \in Seq(Answer) /\ "killed" \in Place
    BY Places
  <2>3. NetTyped' /\ ClientsTyped' /\ ProcessesTyped' /\ Len(receivers) <= Len(receivers')
    BY <1>0, <2>1, <2>2, GoesEffect, ProcessEffect
  <2>4. faults' \in [FaultKind -> Nat]
    BY <1>0, <1>8, FaultType DEF Kill, FaultKind
  <2> QED
    BY <1>0, <2>1, <2>3, <2>4, ClientStepTyped, HeadTurn DEF ServerAlone
<1> QED
  BY <1>2, <1>3, <1>4, <1>5, <1>6, <1>7, <1>8

\* The rest: the server starts, a request is lost, receivers start and end.
LEMMA RestTyped ==
  ASSUME Typed,
         ServerStarts \/ LoseRequest \/ \E p \in DOMAIN receivers : ReceiverStarts(p) \/ ReceiverEnds(p)
  PROVE  Typed'
<1>0. /\ NetTyped /\ ClientsTyped /\ ProcessesTyped /\ TableTyped /\ TurnsTyped
      /\ faults \in [FaultKind -> Nat] /\ Len(receivers) \in Nat
      /\ DOMAIN receivers = 1..Len(receivers)
  BY TypeParts DEF Typed, ProcessesTyped, ReceiversTypeOK
<1>1. CASE ServerStarts
  BY <1>0, <1>1, TypeNext DEF ServerStarts, Typed, PublishInv, NetTyped, ClientsTyped, ProcessesTyped,
       ReceiversTypeOK, TableTyped, TurnsTyped, Turn, netVars, clientVars, processVars
<1>2. CASE LoseRequest
  <2>1. NetTyped' /\ ClientsTyped' /\ SameProcesses /\ UNCHANGED serverVars /\ publishing = <<>>
    BY <1>0, <1>2, HeadRequest DEF LoseRequest, NetTyped, ClientsTyped, SameProcesses, clientVars
  <2>2. faults' \in [FaultKind -> Nat]
    BY <1>0, <1>2, FaultType DEF LoseRequest, FaultKind
  <2>3. ProcessesTyped' /\ Len(receivers) <= Len(receivers')
    BY <1>0, <2>1 DEF SameProcesses, ProcessesTyped, ReceiversTypeOK, processVars
  <2> QED
    BY <2>1, <2>2, <2>3, ClientStepTyped DEF ServerAlone
<1>3. ASSUME NEW p \in DOMAIN receivers, ReceiverStarts(p) \/ ReceiverEnds(p)
      PROVE  Typed'
  <2>1. PICK s \in {"serving", "ended"} : receivers' = [receivers EXCEPT ![p].state = s]
    BY <1>3 DEF ReceiverStarts, ReceiverEnds, Starts, End
  <2>2. portmap' \in [Host -> 0..Len(receivers)]
    <3>1. portmap' = portmap \/ portmap' = [portmap EXCEPT ![receivers[p].host] = p]
      BY <1>3 DEF ReceiverStarts, ReceiverEnds, Starts
    <3>2. p \in 0..Len(receivers)
      BY <1>0
    <3> QED
      BY <1>0, <3>1, <3>2 DEF ProcessesTyped, ReceiversTypeOK
  <2>3. ReceiversTypeOK' /\ Len(receivers') = Len(receivers)
    BY <1>0, <2>1, <2>2, StateChange DEF ProcessesTyped
  <2>4. UNCHANGED <<serverVars, netVars, clientVars>>
    BY <1>3 DEF ReceiverStarts, ReceiverEnds
  <2>5. NetTyped' /\ ClientsTyped' /\ ProcessesTyped'
    BY <1>0, <2>3, <2>4 DEF NetTyped, ClientsTyped, ProcessesTyped, netVars, clientVars
  <2>6. faults' \in [FaultKind -> Nat]
    BY <1>0, <1>3, FaultType DEF ReceiverStarts, ReceiverEnds, FaultKind
  <2> QED
    BY <1>0, <2>3, <2>4, <2>5, <2>6, ClientStepTyped, HeadTurn DEF ServerAlone, netVars
<1> QED
  BY <1>1, <1>2, <1>3

LEMMA TypeStep == Typed /\ [Next]_vars => Typed'
<1> SUFFICES ASSUME Typed, [Next]_vars PROVE Typed'
  OBVIOUS
<1>1. CASE UNCHANGED vars
  BY <1>1 DEF vars, serverVars, netVars, clientVars, processVars, Typed, TypeOK, PublishInv, ReceiversTypeOK
<1> QED
  BY <1>1, ServeTyped, ClientTyped, RestTyped DEF Next

-----------------------------------------------------------------------------
(* The numbers of requests and answers.                                    *)

LEMMA Elements ==
  ASSUME NetTyped
  PROVE  /\ \A i \in DOMAIN socket :
              socket[i] \in Request /\ socket[i].from \in Client /\ socket[i].xid \in Nat
         /\ \A c \in Client : \A i \in DOMAIN answers[c] :
              answers[c][i] \in Answer /\ answers[c][i].xid \in Nat
<1>1. \A i \in DOMAIN socket : socket[i] \in Request
  BY DEF NetTyped
<1>2. ASSUME NEW c \in Client, NEW i \in DOMAIN answers[c] PROVE answers[c][i] \in Answer
  <2>1. answers[c] \in Seq(Answer)
    BY DEF NetTyped
  <2> QED
    BY <1>2, <2>1
<1>3. \A r \in Request : r.from \in Client /\ r.xid \in Nat
  BY DEF Request
<1>4. \A a \in Answer : a.xid \in Nat
  BY DEF Answer
<1> QED
  BY <1>1, <1>2, <1>3, <1>4

\* How the answers to a client may change when it sends nothing.
Mail(c) ==
  \/ answers'[c] = answers[c] \/ answers'[c] = <<>>
  \/ answers[c] # <<>> /\ answers'[c] = Tail(answers[c])
  \/ /\ socket # <<>> /\ Head(socket).from = c
     /\ \E code \in Codes :
          answers'[c] = Append(answers[c], [xid |-> Head(socket).xid, code |-> code])

NothingSent ==
  /\ xid' = xid
  /\ socket' = socket \/ (socket # <<>> /\ socket' = Tail(socket))
  /\ \A c \in Client : (at'[c] = at[c] \/ ~Waiting(c)') /\ Mail(c)

LEMMA NotSending ==
  ASSUME Typed, [Next]_vars, ~\E c \in Client : Choose(c) \/ Resend(c)
  PROVE  NothingSent
<1>0. NetTyped /\ ClientsTyped
  BY TypeParts DEF Typed
<1>1. CASE UNCHANGED vars
  BY <1>1 DEF vars, netVars, clientVars, NothingSent, Mail
<1>2. CASE Serve
  <2>1. clientVars' = clientVars
    BY <1>2, ServeCases
  <2>2. CASE Quiet
    BY <2>1, <2>2 DEF Quiet, netVars, clientVars, NothingSent, Mail
  <2>3. CASE Executes
    <3>1. PICK code \in Codes : Reply(Head(socket), code)
      BY <2>3 DEF Executes
    <3>2. socket # <<>> /\ socket' = Tail(socket)
      BY <2>3, <3>1 DEF Executes, Reply
    <3>3. PICK r \in Request : r = Head(socket)
      BY <1>0, <3>2, HeadRequest
    <3>4. /\ \A c \in Client : c # r.from => answers'[c] = answers[c]
          /\ at[r.from] \notin Ended =>
               answers'[r.from] = Append(answers[r.from], [xid |-> r.xid, code |-> code])
      BY <1>0, <3>1, <3>2, <3>3, ReplyEffect
    <3>5. at[r.from] \in Ended => answers' = answers
      BY <3>1, <3>3 DEF Reply
    <3>6. \A c \in Client : Mail(c)
      BY <3>2, <3>3, <3>4, <3>5 DEF Mail
    <3> QED
      BY <2>1, <3>2, <3>6 DEF NothingSent, clientVars
  <2> QED
    BY <1>2, <2>2, <2>3, ServeCases
<1>3. ASSUME NEW c \in Client, Connect(c) \/ Discard(c) \/ LoseAnswer(c)
      PROVE  NothingSent
  <2>1. UNCHANGED <<xid, socket>> /\ \A d \in Client : at'[d] = at[d] \/ at'[d] \in {"menu", "refused"}
    <3>1. CASE Connect(c)
      BY <1>0, <3>1 DEF Connect, netVars, ClientsTyped
    <3>2. CASE Discard(c) \/ LoseAnswer(c)
      BY <3>2 DEF Discard, LoseAnswer, clientVars
    <3> QED
      BY <1>3, <3>1, <3>2
  <2>2. \A d \in Client : Mail(d)
    <3>1. CASE Connect(c)
      BY <3>1 DEF Connect, netVars, Mail
    <3>2. CASE Discard(c) \/ LoseAnswer(c)
      <4>1. answers[c] # <<>> /\ answers' = [answers EXCEPT ![c] = Tail(answers[c])]
        BY <3>2 DEF Discard, LoseAnswer
      <4>2. answers'[c] = Tail(answers[c]) /\ \A d \in Client : d # c => answers'[d] = answers[d]
        BY <1>0, <4>1 DEF NetTyped
      <4> QED
        BY <4>1, <4>2 DEF Mail
    <3> QED
      BY <1>3, <3>1, <3>2
  <2> QED
    BY <2>1, <2>2 DEF NothingSent, Waiting, MenuChoice
<1>4. ASSUME NEW c \in Client, NEW where \in Place \ MenuChoice, NEW rest \in Seq(Answer),
             Goes(c, where, rest),
             rest = <<>> \/ rest = answers[c] \/ (answers[c] # <<>> /\ rest = Tail(answers[c])),
             socket' = socket
      PROVE  NothingSent
  <2>1. /\ xid' = xid /\ at'[c] = where /\ answers'[c] = IF where \in Ended THEN <<>> ELSE rest
        /\ \A d \in Client : d # c => at'[d] = at[d] /\ answers'[d] = answers[d]
    BY <1>0, <1>4, GoesEffect
  <2>2. \A d \in Client : Mail(d)
    BY <1>4, <2>1 DEF Mail
  <2> QED
    BY <1>4, <2>1, <2>2 DEF NothingSent, Waiting
<1>5. ASSUME NEW c \in Client, Got(c) PROVE NothingSent
  <2>1. PICK where \in {"menu", "exited"} : Goes(c, where, Tail(answers[c]))
    BY <1>5, GotCases
  <2>2. answers[c] # <<>> /\ socket' = socket
    BY <1>5, GotCases DEF Answered
  <2>3. Tail(answers[c]) \in Seq(Answer)
    BY <1>0, <2>2, FirstAnswer
  <2>4. where \in Place \ MenuChoice
    BY Places DEF MenuChoice
  <2> QED
    BY <1>4, <2>1, <2>2, <2>3, <2>4
<1>6. ASSUME NEW c \in Client, TimeOut(c) PROVE NothingSent
  <2>1. PICK where \in {"menu", "exited", "crashed"} : Goes(c, where, answers[c])
    BY <1>6, TimeOutCases
  <2>2. socket' = socket /\ answers[c] \in Seq(Answer)
    BY <1>0, <1>6, TimeOutCases DEF NetTyped
  <2>3. where \in Place \ MenuChoice
    BY Places DEF MenuChoice
  <2> QED
    BY <1>4, <2>1, <2>2, <2>3, Zenon
<1>7. ASSUME NEW c \in Client, Kill(c) PROVE NothingSent
  <2>1. Goes(c, "killed", <<>>) /\ socket' = socket /\ <<>> \in Seq(Answer)
    BY <1>7 DEF Kill
  <2>2. "killed" \in Place \ MenuChoice
    BY Places DEF MenuChoice
  <2> QED
    BY <1>4, <2>1, <2>2, Zenon
<1>8. CASE ServerStarts \/ LoseRequest \/ \E p \in DOMAIN receivers : ReceiverStarts(p) \/ ReceiverEnds(p)
  BY <1>8 DEF ServerStarts, LoseRequest, ReceiverStarts, ReceiverEnds, netVars, clientVars,
              NothingSent, Mail
<1> QED
  BY <1>1, <1>2, <1>3, <1>5, <1>6, <1>7, <1>8 DEF Next

\* The request that Choose and Resend send.
Sends(c) ==
  /\ at'[c] \in MenuChoice /\ socket' = Append(socket, RequestOf(c)')
  /\ answers' = answers
  /\ \A d \in Client : d # c => at'[d] = at[d] /\ xid'[d] = xid[d]
  /\ \/ at[c] = "menu" /\ xid'[c] = xid[c] + 1
     \/ at'[c] = at[c] /\ xid'[c] = xid[c] /\ ~Answered(c)

LEMMA Sending ==
  ASSUME Typed, NEW c \in Client, Choose(c) \/ Resend(c)
  PROVE  Sends(c) /\ RequestOf(c)' \in Request /\ UNCHANGED <<serverVars, processVars, childPID, faults>>
<1>0. ClientsTyped /\ NetTyped
  BY TypeParts DEF Typed
<1>1. ASSUME Choose(c) PROVE Sends(c)
  <2>1. PICK choice \in MenuChoice : at' = [at EXCEPT ![c] = choice]
    BY <1>1, LimitAssumption DEF Choose
  <2>2. xid' = [xid EXCEPT ![c] = xid[c] + 1] /\ at[c] = "menu" /\ answers' = answers
        /\ socket' = Append(socket, RequestOf(c)')
    BY <1>1 DEF Choose
  <2> QED
    BY <1>0, <2>1, <2>2 DEF Sends, ClientsTyped
<1>2. ASSUME Resend(c) PROVE Sends(c)
  <2>1. at' = at /\ xid' = xid /\ answers' = answers /\ at[c] \in MenuChoice /\ ~Answered(c)
        /\ socket' = Append(socket, RequestOf(c))
    BY <1>2 DEF Resend, Waiting
  <2>2. RequestOf(c)' = RequestOf(c)
    BY <2>1 DEF RequestOf
  <2> QED
    BY <2>1, <2>2 DEF Sends
<1>3. Typed' => RequestOf(c)' \in Request
  BY <1>1, <1>2, TypeParts
     DEF Sends, Typed, TypeOK, RequestOf, Request, OperationOf, Operations, MenuChoice
<1> QED
  BY <1>1, <1>2, <1>3, ClientTyped DEF Choose, Resend

LEMMA NumberKept ==
  ASSUME Typed, NumberInv, OrderInv, [Next]_vars
  PROVE  NumberInv' /\ OrderInv'
<1>0. NetTyped /\ ClientsTyped /\ socket \in Seq(Request)
  BY TypeParts DEF Typed, NetTyped
<1>1. CASE ~\E c \in Client : Choose(c) \/ Resend(c)
  <2>1. NothingSent
    BY <1>1, NotSending
  <2>2. \A i \in DOMAIN socket' : \E j \in DOMAIN socket : socket'[i] = socket[j]
    BY <1>0, <2>1, TailIndex DEF NothingSent
  <2>3. \A i \in DOMAIN socket : socket[i].from \in Client
    BY <1>0, Elements
  <2>4. \A c \in Client : Waiting(c)' => at'[c] = at[c] /\ Waiting(c)
    BY <2>1 DEF NothingSent, Waiting
  <2>5. ASSUME NEW i \in DOMAIN socket'
        PROVE  /\ socket'[i].xid <= xid'[socket'[i].from]
               /\ socket'[i].xid = xid'[socket'[i].from] /\ at'[socket'[i].from] \in MenuChoice =>
                    socket'[i].op = OperationOf(at'[socket'[i].from])
    <3>1. PICK j \in DOMAIN socket : socket'[i] = socket[j]
      BY <2>2
    <3> QED
      BY <2>1, <2>3, <2>4, <3>1 DEF NumberInv, NothingSent, Waiting
  <2>6. ASSUME NEW c \in Client, NEW i \in DOMAIN answers'[c]
        PROVE  answers'[c][i].xid <= xid'[c]
    <3>1. answers[c] \in Seq(Answer) /\ Mail(c) /\ xid' = xid
      BY <1>0, <2>1 DEF NetTyped, NothingSent
    <3>2. CASE answers'[c] = answers[c] \/ answers'[c] = <<>>
      BY <3>1, <3>2 DEF NumberInv
    <3>3. CASE answers[c] # <<>> /\ answers'[c] = Tail(answers[c])
      BY <3>1, <3>3, TailIndex DEF NumberInv
    <3>4. ASSUME socket # <<>>, Head(socket).from = c, NEW code \in Codes,
                 answers'[c] = Append(answers[c], [xid |-> Head(socket).xid, code |-> code])
          PROVE  answers'[c][i].xid <= xid'[c]
      <4>1. socket[1] = Head(socket) /\ 1 \in DOMAIN socket /\ socket[1].xid \in Nat
        BY <1>0, <3>4, HeadRequest DEF Request
      <4>2. PICK e \in Answer : e = [xid |-> Head(socket).xid, code |-> code]
        BY <4>1 DEF Answer
      <4>3. socket[1].xid <= xid[c]
        BY <3>4, <4>1 DEF NumberInv
      <4>4. (i \in DOMAIN answers[c] /\ answers'[c][i] = answers[c][i]) \/ answers'[c][i] = e
        BY <3>1, <3>4, <4>2, AppendIndex
      <4> QED
        BY <3>1, <4>1, <4>2, <4>3, <4>4 DEF NumberInv
    <3> QED
      BY <3>1, <3>2, <3>3, <3>4 DEF Mail
  <2>7. NumberInv'
    BY <2>5, <2>6 DEF NumberInv, Waiting
  <2>8. OrderInv'
    <3>1. CASE socket' = socket
      BY <3>1 DEF OrderInv
    <3>2. CASE socket # <<>> /\ socket' = Tail(socket)
      <4> SUFFICES ASSUME NEW i \in DOMAIN socket', NEW j \in DOMAIN socket', i < j,
                          socket'[i].from = socket'[j].from
                   PROVE  /\ socket'[i].xid <= socket'[j].xid
                          /\ socket'[i].xid = socket'[j].xid => socket'[i].op = socket'[j].op
        BY DEF OrderInv
      <4>1. /\ i + 1 \in DOMAIN socket /\ j + 1 \in DOMAIN socket /\ i + 1 < j + 1
            /\ socket'[i] = socket[i + 1] /\ socket'[j] = socket[j + 1]
        BY <1>0, <3>2, TailIndex
      <4> QED
        BY <4>1 DEF OrderInv
    <3> QED
      BY <2>1, <3>1, <3>2 DEF NothingSent
  <2> QED
    BY <2>7, <2>8
<1>2. ASSUME NEW c \in Client, Choose(c) \/ Resend(c)
      PROVE  NumberInv' /\ OrderInv'
  <2>1. Sends(c)
    BY <1>2, Sending
  <2>2. PICK r \in Request : r = RequestOf(c)'
    BY <1>2, Sending
  <2>3. r.from = c /\ r.xid = xid'[c] /\ r.op = OperationOf(at'[c]) /\ socket' = Append(socket, r)
    BY <2>1, <2>2 DEF RequestOf, Sends
  <2> DEFINE n == Len(socket)
  <2>4. /\ n \in Nat /\ DOMAIN socket = 1..n /\ DOMAIN socket' = 1..(n + 1)
        /\ socket'[n + 1] = r /\ \A i \in 1..n : socket'[i] = socket[i]
    BY <1>0, <2>3, SentEffect
  <2> HIDE DEF n
  <2>5. \A i \in 1..n : socket[i].from \in Client /\ socket[i].xid \in Nat
    BY <1>0, <2>4, Elements
  <2>6. \A d \in Client : xid[d] \in Nat /\ xid'[d] \in Nat /\ xid[d] <= xid'[d]
    BY <1>0, <2>1 DEF ClientsTyped, Sends
  <2>7. ASSUME NEW i \in 1..n, socket[i].from = c
        PROVE  socket[i].xid <= xid'[c] /\ (socket[i].xid = xid'[c] => socket[i].op = r.op)
    <3>1. socket[i].xid <= xid[c] /\ xid[c] \in Nat
      BY <2>4, <2>6, <2>7 DEF NumberInv
    <3>2. CASE at[c] = "menu" /\ xid'[c] = xid[c] + 1
      BY <2>5, <3>1, <3>2
    <3>3. CASE at'[c] = at[c] /\ xid'[c] = xid[c]
      BY <2>1, <2>3, <2>4, <2>7, <3>1, <3>3 DEF NumberInv, Waiting, Sends
    <3> QED
      BY <2>1, <3>2, <3>3 DEF Sends
  <2>8. ASSUME NEW i \in DOMAIN socket'
        PROVE  /\ socket'[i].xid <= xid'[socket'[i].from]
               /\ socket'[i].xid = xid'[socket'[i].from] /\ at'[socket'[i].from] \in MenuChoice =>
                    socket'[i].op = OperationOf(at'[socket'[i].from])
    <3>1. CASE i = n + 1
      BY <2>3, <2>4, <2>6, <3>1 DEF Request
    <3>2. CASE i # n + 1
      <4>1. i \in 1..n /\ socket'[i] = socket[i] /\ i \in DOMAIN socket
        BY <2>4, <3>2
      <4>2. CASE socket[i].from = c
        BY <2>3, <2>7, <4>1, <4>2
      <4>3. CASE socket[i].from # c
        BY <2>1, <2>5, <4>1, <4>3 DEF Sends, NumberInv, Waiting
      <4> QED
        BY <4>2, <4>3
    <3> QED
      BY <3>1, <3>2
  <2>9. \A d \in Client : \A i \in DOMAIN answers'[d] : answers'[d][i].xid <= xid'[d]
    <3> SUFFICES ASSUME NEW d \in Client, NEW i \in DOMAIN answers[d] PROVE answers[d][i].xid <= xid'[d]
      BY <2>1 DEF Sends
    <3>1. answers[d][i].xid \in Nat /\ answers[d][i].xid <= xid[d]
      BY <1>0, Elements DEF NumberInv
    <3> QED
      BY <2>6, <3>1
  <2>10. NumberInv'
    BY <2>8, <2>9 DEF NumberInv, Waiting
  <2>11. OrderInv'
    <3> SUFFICES ASSUME NEW i \in 1..(n + 1), NEW j \in 1..(n + 1), i < j,
                        socket'[i].from = socket'[j].from
                 PROVE  /\ socket'[i].xid <= socket'[j].xid
                        /\ socket'[i].xid = socket'[j].xid => socket'[i].op = socket'[j].op
      BY <2>4 DEF OrderInv
    <3>1. i \in 1..n /\ socket'[i] = socket[i]
      BY <2>4
    <3>2. CASE j = n + 1
      BY <2>3, <2>4, <2>7, <3>1, <3>2
    <3>3. CASE j # n + 1
      <4>1. j \in 1..n /\ socket'[j] = socket[j]
        BY <2>4, <3>3
      <4> QED
        BY <2>4, <3>1, <4>1 DEF OrderInv
    <3> QED
      BY <3>2, <3>3
  <2> QED
    BY <2>10, <2>11
<1> QED
  BY <1>1, <1>2

-----------------------------------------------------------------------------
(* The table.                                                              *)

\* There is room as long as a host is missing.
LEMMA Room ==
  ASSUME NEW s \in Seq(Host), OnceEach(s), NEW a \in Host, ~Listed(s, a)
  PROVE  Len(s) < Cardinality(Host)
<1>1. IsFiniteSet(Host \ {a}) /\ Cardinality(Host \ {a}) = Cardinality(Host) - 1
      /\ Cardinality(Host) \in Nat
  BY ClientAssumption, FS_RemoveElement, FS_CardinalityType
<1>2. \A i \in DOMAIN s : s[i] \in Host \ {a}
  BY DEF Listed
<1>3. s \in Seq(Host \ {a}) /\ Len(s) \in Nat
  BY <1>2
<1>4. Len(s) <= Cardinality(Host \ {a})
  BY <1>1, <1>3, Fits
<1> QED
  BY <1>1, <1>3, <1>4

\* A host executes one of the two procedures: nobody else is affected.
LEMMA TableKept ==
  ASSUME TableTyped, OnceEach(subs), Separate, NEW r \in Request, NEW code, TableStep(r, code)
  PROVE  /\ OnceEach(subs')
         /\ \A b \in Host : b # HostOf[r.from] => (Listed(subs', b) <=> Listed(subs, b))
         /\ r.op = "unsubscribe" =>
              /\ ~Listed(subs', HostOf[r.from])
              /\ code = "OK" <=> Listed(subs, HostOf[r.from])
         /\ r.op \notin {"subscribe", "unsubscribe"} => subs' = subs
<1>1. PICK a \in Host : a = HostOf[r.from]
  BY ClientAssumption DEF Request
<1>2. PICK s \in Seq(Host) : s = subs
  BY DEF TableTyped
<1>3. CASE r.op = "subscribe"
  <2>1. subs' = s \/ (~Listed(s, a) /\ subs' = Append(s, a))
    BY <1>1, <1>2, <1>3 DEF TableStep, Searched
  <2>2. CASE subs' = s
    BY <1>2, <1>3, <2>2
  <2>3. CASE ~Listed(s, a) /\ subs' = Append(s, a)
    <3>1. OnceEach(Append(s, a))
      BY <1>2, <2>3, AppendOnce
    <3>2. \A b \in Host : Listed(Append(s, a), b) <=> Listed(s, b) \/ b = a
      BY AppendListed
    <3> QED
      BY <1>1, <1>2, <1>3, <2>3, <3>1, <3>2
  <2> QED
    BY <2>1, <2>2, <2>3
<1>4. CASE r.op = "unsubscribe"
  <2>1. Len(s) <= 2
    <3>1. Len(s) <= Cardinality(Host) /\ Cardinality(Host) \in Nat /\ Len(s) \in Nat
      BY <1>2, Fits, ClientAssumption, FS_CardinalityType
    <3> QED
      BY <3>1 DEF Separate
  <2>2. PICK t : t = Unregister(s, a).subs
    OBVIOUS
  <2>3. OnceEach(t) /\ \A b \in Host : Listed(t, b) <=> Listed(s, b) /\ b # a
    BY <1>2, <2>1, <2>2, UnregisterFromTwo
  <2>4. Unregister(s, a).code = IF Listed(s, a) THEN "OK" ELSE "CANNOT_UNREGISTER"
    BY UnregisterResult
  <2>5. subs' = t /\ code = Unregister(s, a).code
    BY <1>1, <1>2, <1>4, <2>2 DEF TableStep
  <2> QED
    BY <1>1, <1>2, <1>4, <2>3, <2>4, <2>5
<1>5. CASE r.op \notin {"subscribe", "unsubscribe"}
  BY <1>5 DEF TableStep
<1> QED
  BY <1>3, <1>4, <1>5

\* A subscribe leaves the host in the table, if there is room for every host and
\* the code of the last one is not stuck.
LEMMA SubscribeLists ==
  ASSUME TableTyped, OnceEach(subs), Cardinality(Host) <= MaxSubs,
         NEW r \in Request, NEW code, TableStep(r, code), r.op = "subscribe"
  PROVE  /\ code = subscribeCode'
         /\ Listed(subs, HostOf[r.from]) \/ Stuck => subs' = subs
         /\ code = "OK" => Listed(subs', HostOf[r.from]) /\ ~Listed(subs, HostOf[r.from])
         /\ code # "OK" =>
              /\ subs' = subs
              /\ Listed(subs, HostOf[r.from]) \/ subscribeCode' = "CLIENT_ALREADY_REGISTERED"
         /\ \A b \in Host : Stuck /\ ~Listed(subs, b) => Stuck'
<1>1. PICK a \in Host : a = HostOf[r.from]
  BY ClientAssumption DEF Request
<1>2. PICK s \in Seq(Host) : s = subs
  BY DEF TableTyped
<1>3. ~Listed(s, a) => Len(s) < MaxSubs /\ Len(s) # MaxSubs
  <2>1. ~Listed(s, a) => Len(s) < Cardinality(Host)
    BY <1>2, Room
  <2>2. Cardinality(Host) \in Nat /\ Len(s) \in Nat /\ MaxSubs \in Nat
    BY ClientAssumption, LimitAssumption, FS_CardinalityType
  <2> QED
    BY <2>1, <2>2
<1>4. /\ subs' = IF Searched(a) # "CLIENT_ALREADY_REGISTERED" /\ Len(s) < MaxSubs THEN Append(s, a) ELSE s
      /\ subscribeCode' = IF Searched(a) # "CLIENT_ALREADY_REGISTERED" /\ Len(s) < MaxSubs THEN "OK"
                          ELSE IF Len(s) = MaxSubs THEN "CANNOT_REGISTER" ELSE Searched(a)
      /\ code = subscribeCode'
  BY <1>1, <1>2 DEF TableStep
<1>5. Listed(Append(s, a), a)
  BY AppendListed
<1>6. CASE Listed(s, a)
  <2>1. ASSUME NEW b \in Host, ~Listed(s, b) PROVE Len(s) < MaxSubs /\ Len(s) # MaxSubs
    <3>1. Len(s) < Cardinality(Host) /\ Cardinality(Host) \in Nat /\ Len(s) \in Nat /\ MaxSubs \in Nat
      BY <1>2, <2>1, Room, ClientAssumption, LimitAssumption, FS_CardinalityType
    <3> QED
      BY <3>1
  <2> QED
    BY <1>1, <1>2, <1>4, <1>6, <2>1 DEF Searched, Stuck
<1>7. CASE ~Listed(s, a)
  BY <1>1, <1>2, <1>3, <1>4, <1>5, <1>7 DEF Searched, Stuck
<1> QED
  BY <1>6, <1>7

LEMMA TableKeeps ==
  ASSUME Typed, TableInv, [Next]_vars
  PROVE  TableInv'
<1> SUFFICES ASSUME Separate PROVE OnceEach(subs')
  BY DEF TableInv, Separate
<1>0. TableTyped /\ NetTyped /\ OnceEach(subs)
  BY TypeParts DEF Typed, TableInv
<1>1. CASE subs' = subs
  BY <1>0, <1>1
<1>2. CASE Serve
  <2>1. CASE Quiet
    BY <1>0, <2>1 DEF Quiet
  <2>2. CASE Executes
    <3>1. PICK code \in Codes : TableStep(Head(socket), code)
      BY <2>2 DEF Executes
    <3>2. PICK r \in Request : r = Head(socket)
      BY <1>0, <2>2, HeadRequest DEF Executes
    <3> QED
      BY <1>0, <3>1, <3>2, TableKept
  <2> QED
    BY <1>2, <2>1, <2>2, ServeCases
<1>3. CASE UNCHANGED vars
  BY <1>1, <1>3 DEF vars, serverVars
<1>4. ASSUME NEW c \in Client,
             Connect(c) \/ Choose(c) \/ Resend(c) \/ Discard(c) \/ Got(c) \/ TimeOut(c)
               \/ LoseAnswer(c) \/ Kill(c)
      PROVE  subs' = subs
  BY <1>4, GotCases, TimeOutCases DEF Connect, Choose, Resend, Discard, LoseAnswer, Kill, serverVars
<1>5. ASSUME ServerStarts \/ LoseRequest \/ \E p \in DOMAIN receivers : ReceiverStarts(p) \/ ReceiverEnds(p)
      PROVE  subs' = subs
  BY <1>5 DEF ServerStarts, LoseRequest, ReceiverStarts, ReceiverEnds, serverVars
<1> QED
  BY <1>1, <1>2, <1>3, <1>4, <1>5 DEF Next

-----------------------------------------------------------------------------
(* The receivers clients have forked.                                      *)

LEMMA ChildRange ==
  ASSUME Typed, NEW c \in Client
  PROVE  /\ ReceiversTypeOK /\ Len(receivers) \in Nat /\ DOMAIN receivers = 1..Len(receivers)
         /\ childPID \in [Client -> 0..Len(receivers)]
         /\ childPID[c] # 0 => childPID[c] \in 1..Len(receivers)
BY TypeParts DEF Typed, ProcessesTyped, ReceiversTypeOK

LEMMA ForkedChild ==
  ASSUME Typed, ChildInv, NEW c \in Client, Forked(c)
  PROVE  ChildInv' /\ Child(c)' /\ \A d \in Client : d # c => (Child(d)' <=> Child(d))
<1>1. /\ Len(receivers') = Len(receivers) + 1 /\ Len(receivers) \in Nat
      /\ receivers'[Len(receivers')] = [host |-> HostOf[c], state |-> "forked"]
      /\ \A p \in 1..Len(receivers) : receivers'[p] = receivers[p]
  BY ChildRange, ForkEffect, ClientAssumption DEF Forked
<1>2. childPID'[c] = Len(receivers') /\ childPID'[c] # 0
      /\ \A d \in Client : d # c => childPID'[d] = childPID[d]
  BY <1>1, ChildRange DEF Forked
<1>3. receivers'[childPID'[c]].host = HostOf[c] /\ receivers'[childPID'[c]].state = "forked"
  BY <1>1, <1>2
<1>4. \A d \in Client : d # c /\ childPID[d] # 0 => receivers'[childPID'[d]] = receivers[childPID[d]]
  BY <1>1, <1>2, ChildRange
<1>5. ChildInv'
  BY <1>2, <1>3, <1>4 DEF ChildInv
<1>6. Child(c)'
  BY <1>2, <1>3 DEF Child, Running
<1>7. \A d \in Client : d # c => (Child(d)' <=> Child(d))
  BY <1>2, <1>4 DEF Child, Running
<1> QED
  BY <1>5, <1>6, <1>7

LEMMA EndedEffect ==
  ASSUME Typed, ChildInv, NEW c \in Client, EndedChild(c)
  PROVE  /\ ChildInv' /\ ~Child(c)'
         /\ Separate => \A d \in Client : d # c => (Child(d)' <=> Child(d))
<1>1. PICK p \in 1..Len(receivers) : p = childPID[c]
  BY ChildRange DEF EndedChild
<1>2. receivers' = [receivers EXCEPT ![p].state = "ended"] /\ UNCHANGED <<childPID, portmap>>
  BY <1>1 DEF EndedChild, End
<1>3. /\ receivers'[p].state = "ended"
      /\ \A q \in 1..Len(receivers) : receivers'[q].host = receivers[q].host
      /\ \A q \in 1..Len(receivers) : q # p => receivers'[q] = receivers[q]
  <2>1. ReceiversTypeOK /\ portmap' \in [Host -> 0..Len(receivers)]
    BY <1>2, ChildRange DEF ReceiversTypeOK
  <2> QED
    BY <1>2, <2>1, StateChange
<1>4. ChildInv'
  BY <1>2, <1>3, ChildRange DEF ChildInv
<1>5. ~Child(c)'
  BY <1>1, <1>2, <1>3 DEF Child, Running
<1>6. ASSUME Separate, NEW d \in Client, d # c PROVE Child(d)' <=> Child(d)
  <2>1. childPID[d] # p
    BY <1>1, <1>6, ChildRange DEF Separate, ChildInv
  <2> QED
    BY <1>2, <1>3, <2>1, ChildRange DEF Child, Running
<1> QED
  BY <1>4, <1>5, <1>6

LEMMA ReceiverEffect ==
  ASSUME Typed, ChildInv, NEW p \in DOMAIN receivers, ReceiverStarts(p) \/ ReceiverEnds(p)
  PROVE  ChildInv' /\ (ReceiverStarts(p) => \A d \in Client : Child(d)' <=> Child(d))
<1>1. PICK s \in {"serving", "ended"} : receivers' = [receivers EXCEPT ![p].state = s]
      /\ (ReceiverStarts(p) => s = "serving" /\ receivers[p].state = "forked")
  BY DEF ReceiverStarts, ReceiverEnds, Starts, End
<1>2. UNCHANGED childPID
  BY DEF ReceiverStarts, ReceiverEnds, clientVars
<1>3. TypeOK /\ p \in 1..Len(receivers)
  BY TypeParts DEF Typed, TypeOK, ReceiversTypeOK
<1>4. portmap' \in [Host -> 0..Len(receivers)]
  <2>1. portmap' = portmap \/ portmap' = [portmap EXCEPT ![receivers[p].host] = p]
    BY DEF ReceiverStarts, ReceiverEnds, Starts
  <2>2. p \in 0..Len(receivers) /\ portmap \in [Host -> 0..Len(receivers)]
    BY <1>3 DEF TypeOK, ReceiversTypeOK
  <2> QED
    BY <2>1, <2>2
<1>5. /\ receivers'[p].state = s
      /\ \A q \in 1..Len(receivers) : receivers'[q].host = receivers[q].host
      /\ \A q \in 1..Len(receivers) : q # p => receivers'[q] = receivers[q]
  BY <1>1, <1>3, <1>4, StateChange DEF TypeOK
<1>6. ChildInv'
  BY <1>2, <1>5, ChildRange DEF ChildInv
<1>7. ASSUME ReceiverStarts(p), NEW d \in Client PROVE Child(d)' <=> Child(d)
  <2>1. receivers'[p].state = "serving" /\ receivers[p].state = "forked"
    BY <1>1, <1>5, <1>7
  <2> QED
    BY <1>2, <1>5, <2>1, ChildRange DEF Child, Running
<1> QED
  BY <1>6, <1>7

LEMMA ProcessCases ==
  ASSUME Typed, [Next]_vars
  PROVE  \/ SameProcesses
         \/ \E c \in Client : Got(c) /\ Forked(c)
         \/ \E c \in Client : (Got(c) \/ Kill(c)) /\ EndedChild(c)
         \/ \E p \in DOMAIN receivers : ReceiverStarts(p) \/ ReceiverEnds(p)
<1>1. CASE UNCHANGED vars
  BY <1>1 DEF vars, clientVars, SameProcesses
<1>2. CASE Serve
  BY <1>2, ServeCases DEF clientVars, SameProcesses
<1>3. ASSUME NEW c \in Client, Connect(c) \/ Choose(c) \/ Resend(c) \/ Discard(c) \/ LoseAnswer(c)
      PROVE  SameProcesses
  BY <1>3 DEF Connect, Choose, Resend, Discard, LoseAnswer, clientVars, SameProcesses
<1>4. ASSUME NEW c \in Client, Got(c)
      PROVE  Forked(c) \/ EndedChild(c) \/ SameProcesses
  BY <1>4, GotCases DEF MenuChoice
<1>5. ASSUME NEW c \in Client, Kill(c)
      PROVE  EndedChild(c) \/ SameProcesses
  BY <1>5 DEF Kill, EndedChild, SameProcesses, processVars
<1>6. CASE ServerStarts \/ LoseRequest
  BY <1>6 DEF ServerStarts, LoseRequest, clientVars, SameProcesses
<1> QED
  BY <1>1, <1>2, <1>3, <1>4, <1>5, <1>6, TimeOutCases DEF Next

LEMMA SameChildren ==
  ASSUME SameProcesses
  PROVE  (ChildInv => ChildInv') /\ \A d \in Client : Child(d)' <=> Child(d)
BY DEF SameProcesses, processVars, ChildInv, Child, Running

\* Nobody but the client itself or a fault ends a client's receiver.
LEMMA OthersChildren ==
  ASSUME Typed, ChildInv, [Next]_vars
  PROVE  /\ ChildInv'
         /\ \A d \in Client :
              Separate /\ ~Got(d) /\ ~Kill(d) /\ ~(\E p \in DOMAIN receivers : ReceiverEnds(p)) =>
                (Child(d)' <=> Child(d))
BY ProcessCases, SameChildren, ForkedChild, EndedEffect, ReceiverEffect

-----------------------------------------------------------------------------
(* Resends are harmless.                                                   *)

LEMMA CalmStep ==
  ASSUME Typed, [Next]_vars, Calm'
  PROVE  /\ Calm
         /\ \A c \in Client : ~LoseAnswer(c)
         /\ \A p \in DOMAIN receivers : ~ReceiverEnds(p)
<1>0. faults \in [FaultKind -> Nat] /\ {"answer lost", "receiver"} \subseteq FaultKind
  BY TypeParts DEF Typed, FaultKind
<1>1. faults' = faults \/ \E k \in FaultKind : Fault(k)
  <2>1. CASE UNCHANGED vars
    BY <2>1 DEF vars
  <2>2. CASE Serve
    BY <2>2, ServeCases
  <2>3. ASSUME NEW c \in Client,
               Connect(c) \/ Choose(c) \/ Resend(c) \/ Discard(c) \/ Got(c) \/ TimeOut(c)
        PROVE  faults' = faults
    BY <2>3, GotCases, TimeOutCases DEF Connect, Choose, Resend, Discard
  <2>4. ASSUME NEW c \in Client, LoseAnswer(c) \/ Kill(c) PROVE \E k \in FaultKind : Fault(k)
    BY <2>4 DEF LoseAnswer, Kill, FaultKind
  <2>5. ASSUME NEW p \in DOMAIN receivers, ReceiverStarts(p) \/ ReceiverEnds(p)
        PROVE  faults' = faults \/ \E k \in FaultKind : Fault(k)
    BY <2>5 DEF ReceiverStarts, ReceiverEnds, FaultKind
  <2>6. CASE ServerStarts \/ LoseRequest
    BY <2>6 DEF ServerStarts, LoseRequest, FaultKind
  <2> QED
    BY <2>1, <2>2, <2>3, <2>4, <2>5, <2>6 DEF Next
<1>2. \A k \in FaultKind : faults[k] \in Nat /\ faults'[k] \in Nat /\ faults[k] <= faults'[k]
  <2>1. CASE faults' = faults
    <3>1. \A k \in FaultKind : faults[k] \in Nat
      BY <1>0, Zenon
    <3>2. \A n \in Nat : n <= n
      OBVIOUS
    <3> QED
      BY <2>1, <3>1, <3>2, Zenon
  <2>2. CASE \E k \in FaultKind : Fault(k)
    <3>1. PICK k \in FaultKind : Fault(k)
      BY <2>2
    <3>2. faults' \in [FaultKind -> Nat] /\ \A j \in FaultKind : faults'[j] >= faults[j]
      BY <1>0, <3>1, FaultType
    <3> QED
      BY <1>0, <3>2
  <2> QED
    BY <1>1, <2>1, <2>2
<1>3. Separate /\ Cardinality(Host) <= MaxSubs /\ faults'["answer lost"] = 0 /\ faults'["receiver"] = 0
  BY DEF Calm, Separate
<1>4. Calm
  <2>1. \A m, n \in Nat : n <= m /\ m = 0 => n = 0
    OBVIOUS
  <2>2. faults["answer lost"] = 0 /\ faults["receiver"] = 0
    BY <1>0, <1>2, <1>3, <2>1, Zenon
  <2> QED
    BY <1>3, <2>2 DEF Calm
<1>5. \A c \in Client : ~LoseAnswer(c)
  BY <1>0, <1>3, FaultType DEF LoseAnswer
<1>6. \A p \in DOMAIN receivers : ~ReceiverEnds(p)
  BY <1>0, <1>3, FaultType DEF ReceiverEnds
<1> QED
  BY <1>4, <1>5, <1>6

\* A step that does nothing to a client, its call and its place in the table.
LEMMA Bystander ==
  ASSUME NEW c \in Client, StaleInv(c), CallInv(c),
         at'[c] = at[c] \/ (~Waiting(c) /\ ~Waiting(c)'),
         xid'[c] = xid[c], answers'[c] = answers[c],
         On(c)' <=> On(c), Child(c)' <=> Child(c), Stuck => Stuck' \/ On(c),
         \A i \in DOMAIN socket' : socket'[i].from = c => \E j \in DOMAIN socket : socket'[i] = socket[j]
  PROVE  StaleInv(c)' /\ CallInv(c)'
<1>1. (HasAnswer(c)' <=> HasAnswer(c)) /\ (Waiting(c)' <=> Waiting(c))
  BY DEF HasAnswer, Waiting
<1>2. \A i \in DOMAIN answers[c] : First(c, i)' <=> First(c, i)
  BY DEF First
<1>3. \A op : Harmless(c, op) => Harmless(c, op)'
  BY DEF Harmless
<1>4. \A n : Stale(c, n)' <=> Stale(c, n)
  BY <1>1 DEF Stale
<1>5. StaleInv(c)'
  <2> SUFFICES ASSUME NEW i \in DOMAIN socket', socket'[i].from = c,
                      ~Waiting(c)' \/ socket'[i].xid # xid'[c] \/ HasAnswer(c)'
               PROVE  /\ socket'[i].op = "subscribe" => On(c)' \/ Stuck'
                      /\ socket'[i].op = "unsubscribe" => ~On(c)'
    BY DEF StaleInv, Stale, Harmless
  <2>1. PICK j \in DOMAIN socket : socket'[i] = socket[j]
    OBVIOUS
  <2> QED
    BY <1>1, <2>1 DEF StaleInv, Stale, Harmless
<1>6. CASE at'[c] = at[c]
  <2>1. /\ ~Waiting(c)' \/ ~HasAnswer(c)' \/ at'[c] \in {"publish", "set_channel"} => (On(c)' <=> Child(c)')
        /\ HasAnswer(c)' => Harmless(c, OperationOf(at[c]))'
    BY <1>1, <1>3, <1>6 DEF CallInv, Harmless, OperationOf
  <2>2. at'[c] = "subscribe" => \A i \in DOMAIN answers'[c] : First(c, i)' =>
          IF answers'[c][i].code = "OK" THEN On(c)' /\ ~Child(c)'
          ELSE (On(c)' <=> Child(c)') /\ (On(c)' \/ Stuck')
    BY <1>2, <1>6 DEF CallInv
  <2>3. at'[c] \in {"unsubscribe", "exit"} => \A i \in DOMAIN answers'[c] : First(c, i)' =>
          ~On(c)' /\ (answers'[c][i].code = "OK" <=> Child(c)')
    BY <1>2, <1>6 DEF CallInv
  <2> QED
    BY <1>5, <2>1, <2>2, <2>3 DEF CallInv
<1>7. CASE ~Waiting(c) /\ ~Waiting(c)'
  <2>1. On(c)' <=> Child(c)'
    BY <1>7 DEF CallInv
  <2>2. at'[c] \notin MenuChoice
    BY <1>7 DEF Waiting
  <2> QED
    BY <1>5, <2>1, <2>2 DEF CallInv, Harmless, OperationOf, MenuChoice
<1> QED
  BY <1>5, <1>6, <1>7

\* What the execution of a request means for its client and for others.
LEMMA ExecutedTable ==
  ASSUME TableTyped, OnceEach(subs), Separate, Cardinality(Host) <= MaxSubs,
         NEW c \in Client, NEW r \in Request, r.from = c, NEW code, TableStep(r, code)
  PROVE  /\ Harmless(c, r.op) => (On(c)' <=> On(c)) /\ (Stuck => Stuck' \/ On(c))
         /\ r.op = "subscribe" => On(c)' \/ Stuck'
         /\ r.op = "unsubscribe" => ~On(c)' /\ (code = "OK" <=> On(c))
         /\ r.op = "subscribe" => IF code = "OK" THEN On(c)' /\ ~On(c) ELSE On(c)' <=> On(c)
         /\ r.op \notin {"subscribe", "unsubscribe"} => (On(c)' <=> On(c))
         /\ \A d \in Client : d # c => (On(d)' <=> On(d)) /\ (Stuck => Stuck' \/ On(d))
<1>0. \A d \in Client : HostOf[d] \in Host
  BY ClientAssumption
<1>1. /\ \A d \in Client : d # c => HostOf[d] # HostOf[c]
  BY DEF Separate
<1>2. /\ \A b \in Host : b # HostOf[c] => (Listed(subs', b) <=> Listed(subs, b))
      /\ r.op = "unsubscribe" =>
           /\ ~Listed(subs', HostOf[c])
           /\ code = "OK" <=> Listed(subs, HostOf[c])
      /\ r.op \notin {"subscribe", "unsubscribe"} => subs' = subs
  BY TableKept
<1>3. r.op # "subscribe" => subscribeCode' = subscribeCode
  BY DEF TableStep
<1>4. CASE r.op = "subscribe"
  <2>1. /\ code = subscribeCode'
        /\ Listed(subs, HostOf[c]) \/ Stuck => subs' = subs
        /\ code = "OK" => Listed(subs', HostOf[c]) /\ ~Listed(subs, HostOf[c])
        /\ code # "OK" =>
             /\ subs' = subs
             /\ Listed(subs, HostOf[c]) \/ subscribeCode' = "CLIENT_ALREADY_REGISTERED"
        /\ \A b \in Host : Stuck /\ ~Listed(subs, b) => Stuck'
    BY <1>4, SubscribeLists
  <2> QED
    BY <1>0, <1>1, <1>2, <1>4, <2>1 DEF On, Stuck, Harmless
<1>5. CASE r.op = "unsubscribe"
  BY <1>0, <1>1, <1>2, <1>3, <1>5 DEF On, Stuck, Harmless
<1>6. CASE r.op \notin {"subscribe", "unsubscribe"}
  BY <1>0, <1>1, <1>2, <1>3, <1>6 DEF On, Stuck, Harmless
<1> QED
  BY <1>4, <1>5, <1>6

\* An answer is added at the end of those of a client.
LEMMA AnswerAdded ==
  ASSUME NetTyped, NEW c \in Client, NEW e \in Answer, answers'[c] = Append(answers[c], e),
         xid'[c] = xid[c]
  PROVE  /\ HasAnswer(c)' <=> HasAnswer(c) \/ e.xid = xid[c]
         /\ \A i \in DOMAIN answers'[c] : First(c, i)' =>
              \/ i \in DOMAIN answers[c] /\ First(c, i) /\ answers'[c][i] = answers[c][i]
              \/ ~HasAnswer(c) /\ e.xid = xid[c] /\ answers'[c][i] = e
<1>1. PICK s \in Seq(Answer) : s = answers[c]
  BY DEF NetTyped
<1>2. PICK n \in Nat : n = Len(s)
  OBVIOUS
<1>3. /\ DOMAIN Append(s, e) = 1..(n + 1) /\ DOMAIN s = 1..n
      /\ Append(s, e)[n + 1] = e /\ \A i \in 1..n : Append(s, e)[i] = s[i]
  BY <1>2, AppendIndex
<1>4. answers'[c] = Append(s, e)
  BY <1>1
<1>5. HasAnswer(c)' <=> \E i \in 1..(n + 1) : Append(s, e)[i].xid = xid[c]
  BY <1>3, <1>4 DEF HasAnswer
<1>6. HasAnswer(c) <=> \E i \in 1..n : s[i].xid = xid[c]
  BY <1>1, <1>3 DEF HasAnswer
<1>7. HasAnswer(c)' <=> HasAnswer(c) \/ e.xid = xid[c]
  <2>1. \A i \in 1..(n + 1) : i = n + 1 \/ i \in 1..n
    OBVIOUS
  <2>2. n + 1 \in 1..(n + 1) /\ \A i \in 1..n : i \in 1..(n + 1)
    OBVIOUS
  <2> QED
    BY <1>3, <1>5, <1>6, <2>1, <2>2, Zenon
<1>8. ASSUME NEW i \in 1..(n + 1), First(c, i)'
      PROVE  \/ i \in 1..n /\ First(c, i) /\ Append(s, e)[i] = s[i]
             \/ ~HasAnswer(c) /\ e.xid = xid[c] /\ Append(s, e)[i] = e
  <2>1. Append(s, e)[i].xid = xid[c] /\ \A j \in 1..(i - 1) : Append(s, e)[j].xid # xid[c]
    BY <1>4, <1>8 DEF First
  <2>2. CASE i \in 1..n
    <3>1. \A j \in 1..(i - 1) : j \in 1..n
      BY <2>2
    <3>2. s[i].xid = xid[c] /\ \A j \in 1..(i - 1) : s[j].xid # xid[c]
      BY <1>3, <2>1, <2>2, <3>1
    <3>3. First(c, i)
      BY <1>1, <3>2 DEF First
    <3> QED
      BY <1>3, <2>2, <3>3
  <2>3. CASE i = n + 1
    <3>1. \A j \in 1..n : s[j].xid # xid[c]
      BY <1>3, <2>1, <2>3
    <3> QED
      BY <1>3, <1>6, <2>1, <2>3, <3>1
  <2>4. i \in 1..n \/ i = n + 1
    OBVIOUS
  <2> QED
    BY <2>2, <2>3, <2>4
<1> QED
  BY <1>1, <1>3, <1>4, <1>7, <1>8

LEMMA Executed ==
  ASSUME Typed, NumberInv, OrderInv, TableInv, Calm, NEW c \in Client, at[c] \notin Ended,
         StaleInv(c), CallInv(c), Executes, UNCHANGED <<clientVars, processVars>>,
         Head(socket).from = c
  PROVE  StaleInv(c)' /\ CallInv(c)'
<1>0. /\ NetTyped /\ TableTyped /\ OnceEach(subs) /\ Separate /\ Cardinality(Host) <= MaxSubs
      /\ socket # <<>> /\ socket \in Seq(Request)
  BY TypeParts DEF Typed, TableInv, Calm, Executes, NetTyped
<1>1. PICK r \in Request : r = Head(socket) /\ r = socket[1] /\ 1 \in DOMAIN socket /\ r.from = c
  BY <1>0, HeadRequest
<1>2. PICK code \in Codes : Reply(r, code) /\ TableStep(r, code)
  BY <1>1 DEF Executes
<1>3. PICK e \in Answer : e = [xid |-> r.xid, code |-> code] /\ e.xid = r.xid /\ e.code = code
  <2>1. r.xid \in Nat
    BY DEF Request
  <2>2. [xid |-> r.xid, code |-> code] \in Answer
    BY <2>1 DEF Answer
  <2> QED
    BY <2>2
<1>4. answers'[c] = Append(answers[c], e) /\ socket' = Tail(socket) /\ xid' = xid /\ at' = at
  BY <1>0, <1>1, <1>2, <1>3, ReplyEffect DEF clientVars
<1>5. (Child(c)' <=> Child(c)) /\ (Waiting(c)' <=> Waiting(c))
  BY <1>4 DEF Child, Running, Waiting, clientVars, processVars
<1>6. /\ HasAnswer(c)' <=> HasAnswer(c) \/ r.xid = xid[c]
      /\ \A i \in DOMAIN answers'[c] : First(c, i)' =>
           \/ i \in DOMAIN answers[c] /\ First(c, i) /\ answers'[c][i] = answers[c][i]
           \/ ~HasAnswer(c) /\ r.xid = xid[c] /\ answers'[c][i].code = code
  BY <1>0, <1>3, <1>4, AnswerAdded
<1>7. \A i \in DOMAIN socket' : i + 1 \in DOMAIN socket /\ 1 < i + 1 /\ socket'[i] = socket[i + 1]
  BY <1>0, <1>4, TailIndex
<1>8. /\ Harmless(c, r.op) => (On(c)' <=> On(c)) /\ (Stuck => Stuck' \/ On(c))
      /\ r.op = "subscribe" => On(c)' \/ Stuck'
      /\ r.op = "unsubscribe" => ~On(c)' /\ (code = "OK" <=> On(c))
      /\ r.op = "subscribe" => IF code = "OK" THEN On(c)' /\ ~On(c) ELSE On(c)' <=> On(c)
      /\ r.op \notin {"subscribe", "unsubscribe"} => (On(c)' <=> On(c))
  BY <1>0, <1>1, <1>2, ExecutedTable
<1>9. CASE Stale(c, r.xid)
  <2>1. Harmless(c, r.op)
    BY <1>1, <1>9 DEF StaleInv
  <2>2. (On(c)' <=> On(c)) /\ (Stuck => Stuck' \/ On(c))
    BY <1>8, <2>1
  <2>3. \A op : Harmless(c, op) =>
          (op = "subscribe" => On(c)' \/ Stuck') /\ (op = "unsubscribe" => ~On(c)')
    BY <2>2 DEF Harmless
  <2>4. Waiting(c) => (HasAnswer(c)' <=> HasAnswer(c))
    BY <1>6, <1>9 DEF Stale
  <2>5. StaleInv(c)'
    <3> SUFFICES ASSUME NEW i \in DOMAIN socket', socket'[i].from = c,
                        ~Waiting(c)' \/ socket'[i].xid # xid'[c] \/ HasAnswer(c)'
                 PROVE  /\ socket'[i].op = "subscribe" => On(c)' \/ Stuck'
                        /\ socket'[i].op = "unsubscribe" => ~On(c)'
      BY DEF StaleInv, Stale, Harmless
    <3>1. Stale(c, socket[i + 1].xid) /\ i + 1 \in DOMAIN socket /\ socket'[i] = socket[i + 1]
      BY <1>4, <1>5, <1>7, <2>4 DEF Stale
    <3> QED
      BY <2>3, <3>1 DEF StaleInv
  <2>6. ~Waiting(c)' \/ ~HasAnswer(c)' \/ at'[c] \in {"publish", "set_channel"} => (On(c)' <=> Child(c)')
    BY <1>4, <1>5, <2>2, <2>4 DEF CallInv
  <2>7. HasAnswer(c)' => /\ OperationOf(at[c]) = "subscribe" => On(c)' \/ Stuck'
                         /\ OperationOf(at[c]) = "unsubscribe" => ~On(c)'
    <3>1. CASE Waiting(c)
      BY <2>3, <2>4, <3>1 DEF CallInv
    <3>2. CASE ~Waiting(c)
      BY <3>2 DEF Waiting, OperationOf, MenuChoice
    <3> QED
      BY <3>1, <3>2
  <2>8. ASSUME NEW i \in DOMAIN answers'[c], First(c, i)', Waiting(c)
        PROVE  i \in DOMAIN answers[c] /\ First(c, i) /\ answers'[c][i] = answers[c][i]
    BY <1>6, <1>9, <2>8 DEF Stale
  <2>9. at[c] = "subscribe" => \A i \in DOMAIN answers'[c] : First(c, i)' =>
          IF answers'[c][i].code = "OK" THEN On(c)' /\ ~Child(c)'
          ELSE (On(c)' <=> Child(c)') /\ (On(c)' \/ Stuck')
    BY <1>5, <2>2, <2>8 DEF CallInv, Waiting, MenuChoice
  <2>10. at[c] \in {"unsubscribe", "exit"} => \A i \in DOMAIN answers'[c] : First(c, i)' =>
          ~On(c)' /\ (answers'[c][i].code = "OK" <=> Child(c)')
    BY <1>5, <2>2, <2>8 DEF CallInv, Waiting, MenuChoice
  <2> QED
    BY <1>4, <2>5, <2>6, <2>7, <2>9, <2>10 DEF CallInv, Harmless
<1>10. CASE ~Stale(c, r.xid)
  <2>1. Waiting(c) /\ r.xid = xid[c] /\ ~HasAnswer(c)
    BY <1>10 DEF Stale
  <2>2. r.op = OperationOf(at[c]) /\ at[c] \in MenuChoice
    BY <1>1, <2>1 DEF NumberInv, Waiting
  <2>3. On(c) <=> Child(c)
    BY <2>1 DEF CallInv
  <2>4. /\ r.op = "subscribe" => On(c)' \/ Stuck'
        /\ r.op = "unsubscribe" => ~On(c)'
    BY <1>8
  <2>5. ASSUME NEW i \in DOMAIN socket', socket'[i].from = c PROVE socket'[i].op = r.op
    <3>1. /\ i + 1 \in DOMAIN socket /\ 1 < i + 1 /\ socket'[i] = socket[i + 1]
          /\ socket[i + 1].from = c
      BY <1>7, <2>5
    <3>2. socket[1].xid <= socket[i + 1].xid
          /\ (socket[1].xid = socket[i + 1].xid => socket[1].op = socket[i + 1].op)
      BY <1>1, <3>1 DEF OrderInv
    <3>3. socket[i + 1].xid <= xid[c]
      BY <3>1 DEF NumberInv
    <3>4. socket[1].xid \in Nat /\ socket[i + 1].xid \in Nat
      BY <1>0, <1>1, <3>1, Elements
    <3> QED
      BY <1>1, <2>1, <3>1, <3>2, <3>3, <3>4
  <2>6. StaleInv(c)'
    BY <2>4, <2>5 DEF StaleInv, Harmless
  <2>7. ASSUME NEW i \in DOMAIN answers'[c], First(c, i)'
        PROVE  answers'[c][i].code = code
    <3>1. ~(i \in DOMAIN answers[c] /\ First(c, i))
      BY <2>1 DEF First, HasAnswer
    <3> QED
      BY <1>6, <2>7, <3>1
  <2>8. HasAnswer(c)' /\ Waiting(c)'
    BY <1>5, <1>6, <2>1
  <2>9. CASE at[c] \in {"publish", "set_channel"}
    <3>1. r.op \notin {"subscribe", "unsubscribe"}
      BY <2>2, <2>9 DEF OperationOf
    <3> QED
      BY <1>4, <1>5, <1>8, <2>2, <2>3, <2>4, <2>6, <2>9, <3>1 DEF CallInv, Harmless
  <2>10. CASE at[c] = "subscribe"
    <3>1. r.op = "subscribe"
      BY <2>2, <2>10 DEF OperationOf
    <3> QED
      BY <1>4, <1>5, <1>8, <2>2, <2>3, <2>4, <2>6, <2>7, <2>8, <2>10, <3>1 DEF CallInv, Harmless
  <2>11. CASE at[c] \in {"unsubscribe", "exit"}
    <3>1. r.op = "unsubscribe"
      BY <2>2, <2>11 DEF OperationOf
    <3> QED
      BY <1>4, <1>5, <1>8, <2>2, <2>3, <2>4, <2>6, <2>7, <2>8, <2>11, <3>1 DEF CallInv, Harmless
  <2> QED
    BY <2>2, <2>9, <2>10, <2>11 DEF MenuChoice
<1> QED
  BY <1>9, <1>10

\* A client sends a request of a call that is new or has no answer yet.
LEMMA SentHarmless ==
  ASSUME Typed, NumberInv, NEW c \in Client, StaleInv(c), CallInv(c), Choose(c) \/ Resend(c)
  PROVE  StaleInv(c)' /\ CallInv(c)'
<1>0. NetTyped /\ ClientsTyped
  BY TypeParts DEF Typed
<1>1. Sends(c) /\ UNCHANGED <<serverVars, processVars, childPID>>
  BY Sending
<1>2. (On(c)' <=> On(c)) /\ (Stuck' <=> Stuck) /\ (Child(c)' <=> Child(c))
  BY <1>1 DEF On, Stuck, Child, Running, serverVars, processVars
<1>3. PICK r \in Request : r = RequestOf(c)'
  BY Sending
<1>4. r.from = c /\ r.xid = xid'[c] /\ r.op = OperationOf(at'[c]) /\ socket' = Append(socket, r)
  BY <1>1, <1>3 DEF RequestOf, Sends
<1>5. PICK n \in Nat : n = Len(socket)
  BY <1>0 DEF NetTyped
<1>6. /\ DOMAIN socket = 1..n /\ DOMAIN socket' = 1..(n + 1)
      /\ socket'[n + 1] = r /\ \A i \in 1..n : socket'[i] = socket[i]
  BY <1>0, <1>4, <1>5, SentEffect
<1>7. \A i \in DOMAIN socket' : i = n + 1 \/ i \in DOMAIN socket
  BY <1>6
<1>8. at'[c] \in MenuChoice /\ answers' = answers
  BY <1>1 DEF Sends
<1>9. CASE at[c] = "menu" /\ xid'[c] = xid[c] + 1
  <2>1. ~Waiting(c)
    BY <1>9 DEF Waiting, MenuChoice
  <2>2. \A i \in DOMAIN answers[c] : answers[c][i].xid # xid'[c]
    <3>1. \A i \in DOMAIN answers[c] : answers[c][i].xid \in Nat /\ answers[c][i].xid <= xid[c]
      BY <1>0, Elements DEF NumberInv
    <3>2. xid[c] \in Nat
      BY <1>0 DEF ClientsTyped
    <3> QED
      BY <1>9, <3>1, <3>2
  <2>3. ~HasAnswer(c)' /\ \A i \in DOMAIN answers'[c] : ~First(c, i)'
    BY <1>8, <2>2 DEF HasAnswer, First
  <2>4. StaleInv(c)'
    <3> SUFFICES ASSUME NEW i \in DOMAIN socket', socket'[i].from = c,
                        ~Waiting(c)' \/ socket'[i].xid # xid'[c] \/ HasAnswer(c)'
                 PROVE  /\ socket'[i].op = "subscribe" => On(c)' \/ Stuck'
                        /\ socket'[i].op = "unsubscribe" => ~On(c)'
      BY DEF StaleInv, Stale, Harmless
    <3>1. i # n + 1
      BY <1>4, <1>6, <1>8, <2>3 DEF Waiting
    <3>2. i \in DOMAIN socket /\ socket'[i] = socket[i]
      BY <1>6, <1>7, <3>1
    <3> QED
      BY <1>2, <2>1, <3>2 DEF StaleInv, Stale, Harmless
  <2>5. On(c)' <=> Child(c)'
    BY <1>2, <2>1 DEF CallInv
  <2> QED
    BY <2>3, <2>4, <2>5 DEF CallInv
<1>10. CASE at'[c] = at[c] /\ xid'[c] = xid[c]
  <2>1. (HasAnswer(c)' <=> HasAnswer(c)) /\ (Waiting(c)' <=> Waiting(c)) /\ Waiting(c)
    BY <1>8, <1>10 DEF HasAnswer, Waiting
  <2>2. \A i \in DOMAIN answers[c] : First(c, i)' <=> First(c, i)
    BY <1>8, <1>10 DEF First
  <2>3. StaleInv(c)'
    <3> SUFFICES ASSUME NEW i \in DOMAIN socket', socket'[i].from = c,
                        ~Waiting(c)' \/ socket'[i].xid # xid'[c] \/ HasAnswer(c)'
                 PROVE  /\ socket'[i].op = "subscribe" => On(c)' \/ Stuck'
                        /\ socket'[i].op = "unsubscribe" => ~On(c)'
      BY DEF StaleInv, Stale, Harmless
    <3>1. CASE i = n + 1
      <4>1. HasAnswer(c) /\ socket'[i].op = OperationOf(at[c])
        BY <1>4, <1>6, <1>10, <2>1, <3>1
      <4> QED
        BY <1>2, <4>1 DEF CallInv, Harmless
    <3>2. CASE i # n + 1
      <4>1. i \in DOMAIN socket /\ socket'[i] = socket[i]
        BY <1>6, <1>7, <3>2
      <4> QED
        BY <1>2, <1>10, <2>1, <4>1 DEF StaleInv, Stale, Harmless
    <3> QED
      BY <3>1, <3>2
  <2>4. /\ ~Waiting(c)' \/ ~HasAnswer(c)' \/ at'[c] \in {"publish", "set_channel"} => (On(c)' <=> Child(c)')
        /\ HasAnswer(c)' => /\ OperationOf(at'[c]) = "subscribe" => On(c)' \/ Stuck'
                            /\ OperationOf(at'[c]) = "unsubscribe" => ~On(c)'
    BY <1>2, <1>10, <2>1 DEF CallInv, Harmless
  <2>5. at'[c] = "subscribe" => \A i \in DOMAIN answers'[c] : First(c, i)' =>
          IF answers'[c][i].code = "OK" THEN On(c)' /\ ~Child(c)'
          ELSE (On(c)' <=> Child(c)') /\ (On(c)' \/ Stuck')
    BY <1>2, <1>8, <1>10, <2>2 DEF CallInv
  <2>6. at'[c] \in {"unsubscribe", "exit"} => \A i \in DOMAIN answers'[c] : First(c, i)' =>
          ~On(c)' /\ (answers'[c][i].code = "OK" <=> Child(c)')
    BY <1>2, <1>8, <1>10, <2>2 DEF CallInv
  <2> QED
    BY <2>3, <2>4, <2>5, <2>6 DEF CallInv, Harmless
<1> QED
  BY <1>1, <1>9, <1>10 DEF Sends

\* An answer to an earlier call is passed over.
LEMMA DiscardHarmless ==
  ASSUME Typed, NEW c \in Client, StaleInv(c), CallInv(c), Discard(c)
  PROVE  StaleInv(c)' /\ CallInv(c)'
<1>0. NetTyped
  BY TypeParts DEF Typed
<1>1. /\ answers[c] # <<>> /\ answers'[c] = Tail(answers[c]) /\ Waiting(c) /\ ~Answered(c)
      /\ UNCHANGED <<serverVars, socket, clientVars, processVars>>
  BY <1>0 DEF Discard, NetTyped
<1>2. PICK s \in Seq(Answer) : s = answers[c] /\ s # <<>> /\ s[1].xid # xid[c] /\ 1 \in DOMAIN s
  BY <1>0, <1>1, FirstAnswer DEF Answered
<1>3. /\ DOMAIN Tail(s) = 1..(Len(s) - 1) /\ DOMAIN s = 1..Len(s) /\ Len(s) \in Nat
      /\ \A i \in DOMAIN Tail(s) : i + 1 \in DOMAIN s /\ Tail(s)[i] = s[i + 1]
  BY <1>2, TailIndex
<1>4. ASSUME NEW i \in DOMAIN s, s[i].xid = xid[c] PROVE \E j \in DOMAIN Tail(s) : Tail(s)[j] = s[i]
  <2>1. i # 1 /\ i - 1 \in DOMAIN Tail(s) /\ (i - 1) + 1 = i
    <3>1. i # 1
      BY <1>2, <1>4
    <3>2. PICK n \in Nat : n = Len(s)
      BY <1>3
    <3>3. i \in 1..n /\ DOMAIN Tail(s) = 1..(n - 1)
      BY <1>3, <3>2
    <3> QED
      BY <3>1, <3>3
  <2>2. Tail(s)[i - 1] = s[i]
    BY <1>3, <2>1
  <2> QED
    BY <2>1, <2>2
<1>5. HasAnswer(c)' <=> HasAnswer(c)
  <2>1. HasAnswer(c)' <=> \E j \in DOMAIN Tail(s) : Tail(s)[j].xid = xid[c]
    BY <1>1, <1>2 DEF HasAnswer, clientVars
  <2>2. HasAnswer(c) <=> \E i \in DOMAIN s : s[i].xid = xid[c]
    BY <1>2 DEF HasAnswer
  <2> QED
    BY <1>3, <1>4, <2>1, <2>2
<1>6. ASSUME NEW i \in DOMAIN answers'[c], First(c, i)'
      PROVE  i + 1 \in DOMAIN answers[c] /\ First(c, i + 1) /\ answers'[c][i] = answers[c][i + 1]
  <2>1. i \in DOMAIN Tail(s) /\ i + 1 \in DOMAIN s /\ Tail(s)[i] = s[i + 1] /\ i \in Nat
    BY <1>1, <1>2, <1>3
  <2>2. Tail(s)[i].xid = xid[c] /\ \A j \in 1..(i - 1) : Tail(s)[j].xid # xid[c]
    BY <1>1, <1>2, <1>6 DEF First, clientVars
  <2>3. ASSUME NEW j \in 1..((i + 1) - 1) PROVE s[j].xid # xid[c]
    <3>1. CASE j = 1
      BY <1>2, <3>1
    <3>2. CASE j # 1
      <4>1. j - 1 \in 1..(i - 1) /\ j - 1 \in DOMAIN Tail(s) /\ (j - 1) + 1 = j
        BY <1>3, <2>1, <3>2
      <4> QED
        BY <1>3, <2>2, <4>1
    <3> QED
      BY <3>1, <3>2
  <2>4. First(c, i + 1)
    BY <1>2, <2>1, <2>2, <2>3 DEF First
  <2> QED
    BY <1>1, <1>2, <2>1, <2>4
<1>7. /\ (On(c)' <=> On(c)) /\ (Stuck' <=> Stuck) /\ (Child(c)' <=> Child(c))
      /\ at' = at /\ xid' = xid /\ socket' = socket
  BY <1>1 DEF On, Stuck, Child, Running, serverVars, clientVars, processVars
<1>8. StaleInv(c)'
  BY <1>5, <1>7 DEF StaleInv, Stale, Harmless, Waiting
<1>9. /\ ~Waiting(c)' \/ ~HasAnswer(c)' \/ at'[c] \in {"publish", "set_channel"} => (On(c)' <=> Child(c)')
      /\ HasAnswer(c)' => /\ OperationOf(at'[c]) = "subscribe" => On(c)' \/ Stuck'
                          /\ OperationOf(at'[c]) = "unsubscribe" => ~On(c)'
  BY <1>5, <1>7 DEF CallInv, Harmless, Waiting
<1>10. at'[c] = "subscribe" => \A i \in DOMAIN answers'[c] : First(c, i)' =>
         IF answers'[c][i].code = "OK" THEN On(c)' /\ ~Child(c)'
         ELSE (On(c)' <=> Child(c)') /\ (On(c)' \/ Stuck')
  BY <1>6, <1>7 DEF CallInv
<1>11. at'[c] \in {"unsubscribe", "exit"} => \A i \in DOMAIN answers'[c] : First(c, i)' =>
         ~On(c)' /\ (answers'[c][i].code = "OK" <=> Child(c)')
  BY <1>6, <1>7 DEF CallInv
<1> QED
  BY <1>8, <1>9, <1>10, <1>11 DEF CallInv, Harmless

\* At the menu every request of the client is one of an earlier call.
LEMMA MenuHarmless ==
  ASSUME NEW c \in Client, at'[c] = "menu", On(c)' <=> Child(c)',
         \A i \in DOMAIN socket' : socket'[i].from = c =>
           /\ socket'[i].op = "subscribe" => On(c)' \/ Stuck'
           /\ socket'[i].op = "unsubscribe" => ~On(c)'
  PROVE  StaleInv(c)' /\ CallInv(c)'
BY DEF StaleInv, Stale, Harmless, CallInv, OperationOf

LEMMA GotHarmless ==
  ASSUME Typed, ChildInv, NumberInv, NEW c \in Client, at'[c] \notin Ended,
         StaleInv(c), CallInv(c), Got(c)
  PROVE  StaleInv(c)' /\ CallInv(c)'
<1>0. NetTyped /\ ClientsTyped
  BY TypeParts DEF Typed
<1>1. /\ Answered(c) /\ UNCHANGED <<serverVars, socket>> /\ at[c] \in MenuChoice
      /\ at[c] = "subscribe" => IF Code(c) = "OK" THEN Forked(c) ELSE SameProcesses
      /\ at[c] \in {"unsubscribe", "exit"} =>
           IF childPID[c] # 0 /\ Code(c) = "OK" THEN EndedChild(c) ELSE SameProcesses
      /\ at[c] \in {"publish", "set_channel"} => SameProcesses
  BY GotCases
<1>2. at'[c] = "menu"
  <2>1. PICK where \in {"menu", "exited"} : Goes(c, where, Tail(answers[c]))
    BY GotCases
  <2>2. at'[c] = where
    BY <1>0, <2>1 DEF Goes, ClientsTyped
  <2> QED
    BY <2>2 DEF Ended
<1>3. answers[c] # <<>> /\ 1 \in DOMAIN answers[c] /\ Head(answers[c]) = answers[c][1]
      /\ answers[c][1].xid = xid[c]
  BY <1>0, <1>1, FirstAnswer DEF Answered
<1>4. HasAnswer(c) /\ First(c, 1) /\ Code(c) = answers[c][1].code
  BY <1>3 DEF HasAnswer, First, Code
<1>5. (On(c)' <=> On(c)) /\ (Stuck' <=> Stuck) /\ socket' = socket
  BY <1>1 DEF On, Stuck, serverVars
<1>6. \A i \in DOMAIN socket' : socket'[i].from = c =>
        /\ socket'[i].op = "subscribe" => On(c)' \/ Stuck'
        /\ socket'[i].op = "unsubscribe" => ~On(c)'
  BY <1>4, <1>5 DEF StaleInv, Stale, Harmless
<1>7. CASE at[c] = "subscribe"
  <2>1. CASE Code(c) = "OK"
    BY <1>1, <1>2, <1>3, <1>4, <1>5, <1>6, <1>7, <2>1, ForkedChild, MenuHarmless DEF CallInv
  <2>2. CASE Code(c) # "OK"
    <3>1. Child(c)' <=> Child(c)
      BY <1>1, <1>7, <2>2, SameChildren
    <3> QED
      BY <1>2, <1>3, <1>4, <1>5, <1>6, <1>7, <2>2, <3>1, MenuHarmless DEF CallInv
  <2> QED
    BY <2>1, <2>2
<1>8. CASE at[c] \in {"unsubscribe", "exit"}
  <2>1. ~On(c) /\ (Code(c) = "OK" <=> Child(c))
    BY <1>3, <1>4, <1>8 DEF CallInv
  <2>2. CASE childPID[c] # 0 /\ Code(c) = "OK"
    BY <1>1, <1>2, <1>5, <1>6, <1>8, <2>1, <2>2, EndedEffect, MenuHarmless
  <2>3. CASE ~(childPID[c] # 0 /\ Code(c) = "OK")
    <3>1. ~Child(c)
      BY <2>1, <2>3 DEF Child
    <3>2. Child(c)' <=> Child(c)
      BY <1>1, <1>8, <2>3, SameChildren
    <3> QED
      BY <1>2, <1>5, <1>6, <2>1, <3>1, <3>2, MenuHarmless
  <2> QED
    BY <2>2, <2>3
<1>9. CASE at[c] \in {"publish", "set_channel"}
  <2>1. Child(c)' <=> Child(c)
    BY <1>1, <1>9, SameChildren
  <2> QED
    BY <1>2, <1>5, <1>6, <1>9, <2>1, MenuHarmless DEF CallInv
<1> QED
  BY <1>1, <1>7, <1>8, <1>9 DEF MenuChoice

LEMMA TimeOutHarmless ==
  ASSUME Typed, NumberInv, NEW c \in Client, at'[c] \notin Ended,
         StaleInv(c), CallInv(c), TimeOut(c)
  PROVE  StaleInv(c)' /\ CallInv(c)'
<1>0. ClientsTyped
  BY TypeParts DEF Typed
<1>1. Waiting(c) /\ UNCHANGED <<serverVars, socket>> /\ SameProcesses
  BY TimeOutCases
<1>2. at'[c] = "menu" /\ (at[c] = "set_channel" \/ (at[c] = "unsubscribe" /\ childPID[c] = 0))
  <2>1. PICK where \in {"menu", "exited", "crashed"} :
          /\ Goes(c, where, answers[c])
          /\ where = "menu" => at[c] = "set_channel" \/ (at[c] = "unsubscribe" /\ childPID[c] = 0)
    BY TimeOutCases
  <2>2. at'[c] = where
    BY <1>0, <2>1 DEF Goes, ClientsTyped
  <2> QED
    BY <2>1, <2>2 DEF Ended
<1>3. (On(c)' <=> On(c)) /\ (Stuck' <=> Stuck) /\ socket' = socket /\ (Child(c)' <=> Child(c))
  BY <1>1, SameChildren DEF On, Stuck, serverVars
<1>4. On(c) <=> Child(c)
  <2>1. CASE at[c] = "set_channel"
    BY <2>1 DEF CallInv
  <2>2. CASE at[c] = "unsubscribe" /\ childPID[c] = 0
    <3>1. CASE HasAnswer(c)
      BY <2>2, <3>1 DEF CallInv, Harmless, OperationOf, Child
    <3>2. CASE ~HasAnswer(c)
      BY <3>2 DEF CallInv
    <3> QED
      BY <3>1, <3>2
  <2> QED
    BY <1>2, <2>1, <2>2
<1>5. at[c] = "unsubscribe" => ~On(c)
  BY <1>2, <1>4 DEF Child
<1>6. ASSUME NEW i \in DOMAIN socket', socket'[i].from = c
      PROVE  /\ socket'[i].op = "subscribe" => On(c)' \/ Stuck'
             /\ socket'[i].op = "unsubscribe" => ~On(c)'
  <2>1. CASE socket[i].xid # xid[c]
    BY <1>3, <1>6, <2>1 DEF StaleInv, Stale, Harmless
  <2>2. CASE socket[i].xid = xid[c]
    <3>1. socket[i].op = at[c]
      BY <1>1, <1>2, <1>3, <1>6, <2>2 DEF NumberInv, OperationOf
    <3> QED
      BY <1>2, <1>3, <1>5, <3>1
  <2> QED
    BY <2>1, <2>2
<1> QED
  BY <1>2, <1>3, <1>4, <1>6, MenuHarmless

\* What is left: steps of others, of the server and of the network.
Own(c) ==
  Connect(c) \/ Choose(c) \/ Resend(c) \/ Discard(c) \/ Got(c) \/ TimeOut(c) \/ LoseAnswer(c) \/ Kill(c)

LEMMA OthersStep ==
  ASSUME Typed, [Next]_vars, ~Serve, NEW c \in Client, ~Own(c)
  PROVE  /\ at'[c] = at[c] /\ xid'[c] = xid[c] /\ answers'[c] = answers[c]
         /\ UNCHANGED <<subs, subscribeCode>>
         /\ \A i \in DOMAIN socket' : socket'[i].from = c => \E j \in DOMAIN socket : socket'[i] = socket[j]
<1>0. NetTyped /\ ClientsTyped /\ socket \in Seq(Request)
  BY TypeParts DEF Typed, NetTyped
<1>1. CASE UNCHANGED vars
  BY <1>1 DEF vars, serverVars, netVars, clientVars
<1>2. ASSUME NEW d \in Client, d # c, Choose(d) \/ Resend(d)
      PROVE  /\ at'[c] = at[c] /\ xid'[c] = xid[c] /\ answers'[c] = answers[c]
             /\ UNCHANGED <<subs, subscribeCode>>
             /\ \A i \in DOMAIN socket' :
                  socket'[i].from = c => \E j \in DOMAIN socket : socket'[i] = socket[j]
  <2>1. Sends(d) /\ UNCHANGED serverVars
    BY <1>2, Sending
  <2>2. PICK r \in Request : r = RequestOf(d)'
    BY <1>2, Sending
  <2>3. r.from = d /\ socket' = Append(socket, r)
    BY <2>1, <2>2 DEF RequestOf, Sends
  <2>4. PICK n \in Nat : n = Len(socket)
    BY <1>0
  <2>5. /\ DOMAIN socket = 1..n /\ DOMAIN socket' = 1..(n + 1)
        /\ socket'[n + 1] = r /\ \A i \in 1..n : socket'[i] = socket[i]
    BY <1>0, <2>3, <2>4, SentEffect
  <2>6. \A i \in DOMAIN socket' : i = n + 1 \/ i \in DOMAIN socket
    BY <2>5
  <2> QED
    BY <1>2, <2>1, <2>3, <2>5, <2>6 DEF Sends, serverVars
<1>3. ASSUME NEW d \in Client, d # c, Connect(d) \/ Discard(d) \/ LoseAnswer(d)
      PROVE  /\ at'[c] = at[c] /\ xid'[c] = xid[c] /\ answers'[c] = answers[c]
             /\ UNCHANGED <<subs, subscribeCode, socket>>
  <2>1. CASE Connect(d)
    BY <1>0, <1>3, <2>1 DEF Connect, serverVars, netVars, ClientsTyped
  <2>2. CASE Discard(d) \/ LoseAnswer(d)
    <3>1. answers' = [answers EXCEPT ![d] = Tail(answers[d])]
          /\ UNCHANGED <<serverVars, socket, clientVars>>
      BY <2>2 DEF Discard, LoseAnswer
    <3> QED
      BY <1>0, <1>3, <3>1 DEF serverVars, clientVars, NetTyped
  <2> QED
    BY <1>3, <2>1, <2>2
<1>4. ASSUME NEW d \in Client, d # c, Got(d) \/ TimeOut(d) \/ Kill(d)
      PROVE  /\ at'[c] = at[c] /\ xid'[c] = xid[c] /\ answers'[c] = answers[c]
             /\ UNCHANGED <<subs, subscribeCode, socket>>
  <2>1. UNCHANGED <<serverVars, socket>> /\ \E where, rest : Goes(d, where, rest)
    BY <1>4, GotCases, TimeOutCases DEF Kill
  <2> QED
    BY <1>0, <1>4, <2>1 DEF Goes, serverVars, NetTyped, ClientsTyped
<1>5. CASE ServerStarts \/ \E p \in DOMAIN receivers : ReceiverStarts(p) \/ ReceiverEnds(p)
  BY <1>5 DEF ServerStarts, ReceiverStarts, ReceiverEnds, serverVars, netVars, clientVars
<1>6. CASE LoseRequest
  <2>1. socket # <<>> /\ socket' = Tail(socket) /\ UNCHANGED <<serverVars, answers, clientVars>>
    BY <1>6 DEF LoseRequest
  <2>2. \A i \in DOMAIN socket' : \E j \in DOMAIN socket : socket'[i] = socket[j]
    BY <1>0, <2>1, TailIndex
  <2> QED
    BY <2>1, <2>2 DEF serverVars, clientVars
<1> QED
  BY <1>1, <1>2, <1>3, <1>4, <1>5, <1>6 DEF Next, Own

LEMMA CalmKeeps ==
  ASSUME Inv, [Next]_vars
  PROVE  CalmInv'
<1> SUFFICES ASSUME Calm', NEW c \in Client, at'[c] \notin Ended
             PROVE  StaleInv(c)' /\ CallInv(c)'
  BY DEF CalmInv
<1>0. /\ Typed /\ NumberInv /\ OrderInv /\ ChildInv /\ TableInv
      /\ NetTyped /\ ClientsTyped /\ TableTyped /\ socket \in Seq(Request)
  BY TypeParts DEF Inv, Typed, NetTyped
<1>1. Calm /\ ~LoseAnswer(c) /\ \A p \in DOMAIN receivers : ~ReceiverEnds(p)
  BY <1>0, CalmStep
<1>2. Separate /\ OnceEach(subs) /\ Cardinality(Host) <= MaxSubs
  BY <1>0, <1>1 DEF Calm, TableInv
<1>3. at[c] \notin Ended => StaleInv(c) /\ CallInv(c)
  BY <1>1 DEF Inv, CalmInv
<1>4. CASE Serve
  <2>1. UNCHANGED <<clientVars, processVars>> /\ (Quiet \/ Executes)
    BY <1>0, <1>4, ServeCases
  <2>2. at' = at /\ xid' = xid /\ StaleInv(c) /\ CallInv(c) /\ (Child(c)' <=> Child(c))
    BY <1>3, <2>1 DEF clientVars, processVars, Child, Running
  <2>3. CASE Quiet
    BY <2>2, <2>3, Bystander DEF Quiet, netVars, On, Stuck
  <2>4. CASE Executes
    <3>1. CASE Head(socket).from = c
      BY <1>0, <1>1, <2>1, <2>2, <2>4, <3>1, Executed
    <3>2. CASE Head(socket).from # c
      <4>1. PICK r \in Request : r = Head(socket) /\ r.from \in Client
        BY <1>0, <2>4, HeadRequest DEF Executes
      <4>2. PICK code \in Codes : Reply(r, code) /\ TableStep(r, code)
        BY <2>4, <4>1 DEF Executes
      <4>3. answers'[c] = answers[c] /\ socket' = Tail(socket) /\ socket # <<>>
        BY <1>0, <2>4, <3>2, <4>1, <4>2, ReplyEffect DEF Executes
      <4>4. PICK d \in Client : d = r.from /\ d # c
        BY <3>2, <4>1
      <4>5. (On(c)' <=> On(c)) /\ (Stuck => Stuck' \/ On(c))
        BY <1>0, <1>2, <4>2, <4>4, ExecutedTable
      <4>6. \A i \in DOMAIN socket' : \E j \in DOMAIN socket : socket'[i] = socket[j]
        BY <1>0, <4>3, TailIndex
      <4> QED
        BY <2>2, <4>3, <4>5, <4>6, Bystander
    <3> QED
      BY <3>1, <3>2
  <2> QED
    BY <2>1, <2>3, <2>4
<1>5. CASE Own(c)
  <2>1. ~Kill(c)
    <3>1. Kill(c) => at'[c] = "killed"
      BY <1>0 DEF Kill, Goes, ClientsTyped
    <3> QED
      BY <3>1 DEF Ended
  <2>2. CASE Connect(c)
    <3>1. at[c] = "new" /\ at'[c] \in {"menu", "refused"}
          /\ UNCHANGED <<serverVars, netVars, xid, resends, childPID, processVars, faults>>
      BY <1>0, <2>2 DEF Connect, ClientsTyped
    <3>2. ~Waiting(c) /\ ~Waiting(c)' /\ at[c] \notin Ended
      BY <3>1 DEF Waiting, MenuChoice, Ended
    <3> QED
      BY <1>3, <3>1, <3>2, Bystander
         DEF serverVars, netVars, processVars, On, Stuck, Child, Running
  <2>3. CASE Choose(c) \/ Resend(c)
    <3>1. at[c] \notin Ended
      BY <2>3 DEF Choose, Resend, Waiting, MenuChoice, Ended
    <3> QED
      BY <1>0, <1>3, <2>3, <3>1, SentHarmless
  <2>4. CASE Discard(c)
    <3>1. at[c] \notin Ended
      BY <2>4 DEF Discard, Waiting, MenuChoice, Ended
    <3> QED
      BY <1>0, <1>3, <2>4, <3>1, DiscardHarmless
  <2>5. CASE Got(c)
    <3>1. at[c] \notin Ended
      BY <1>0, <2>5, GotCases, Places
    <3> QED
      BY <1>0, <1>3, <2>5, <3>1, GotHarmless
  <2>6. CASE TimeOut(c)
    <3>1. at[c] \notin Ended
      BY <2>6, TimeOutCases, Places DEF Waiting
    <3> QED
      BY <1>0, <1>3, <2>6, <3>1, TimeOutHarmless
  <2> QED
    BY <1>1, <1>5, <2>1, <2>2, <2>3, <2>4, <2>5, <2>6 DEF Own
<1>6. CASE ~Serve /\ ~Own(c)
  <2>1. /\ at'[c] = at[c] /\ xid'[c] = xid[c] /\ answers'[c] = answers[c]
        /\ UNCHANGED <<subs, subscribeCode>>
        /\ \A i \in DOMAIN socket' : socket'[i].from = c => \E j \in DOMAIN socket : socket'[i] = socket[j]
    BY <1>0, <1>6, OthersStep
  <2>2. Child(c)' <=> Child(c)
    BY <1>0, <1>1, <1>2, <1>6, OthersChildren DEF Own
  <2>3. (On(c)' <=> On(c)) /\ (Stuck' <=> Stuck)
    BY <2>1 DEF On, Stuck
  <2> QED
    BY <1>3, <2>1, <2>2, <2>3, Bystander
<1> QED
  BY <1>4, <1>5, <1>6

-----------------------------------------------------------------------------
(* The theorems.                                                           *)

LEMMA InitInv == Init => Inv
<1> SUFFICES ASSUME Init PROVE Inv
  OBVIOUS
<1>1. Typed
  BY InitTyped
<1>2. /\ socket = <<>> /\ subs = <<>> /\ at = [c \in Client |-> "new"]
      /\ answers = [c \in Client |-> <<>>] /\ childPID = [c \in Client |-> 0]
  BY DEF Init
<1>3. \A c \in Client : DOMAIN answers[c] = {} /\ childPID[c] = 0 /\ at[c] = "new"
  BY <1>2
<1>4. DOMAIN socket = {} /\ DOMAIN subs = {}
  BY <1>2
<1>5. NumberInv /\ OrderInv /\ ChildInv /\ TableInv
  BY <1>3, <1>4 DEF NumberInv, OrderInv, ChildInv, TableInv, OnceEach
<1>6. ASSUME NEW c \in Client PROVE StaleInv(c) /\ CallInv(c)
  <2>1. ~On(c) /\ ~Child(c) /\ ~HasAnswer(c)
    BY <1>3, <1>4 DEF On, Listed, Child, HasAnswer
  <2> QED
    BY <1>3, <1>4, <2>1 DEF StaleInv, CallInv
<1> QED
  BY <1>1, <1>5, <1>6 DEF Inv, CalmInv

LEMMA NextInv == Inv /\ [Next]_vars => Inv'
<1> SUFFICES ASSUME Inv, [Next]_vars PROVE Inv'
  OBVIOUS
<1>1. Typed /\ NumberInv /\ OrderInv /\ ChildInv /\ TableInv
  BY DEF Inv
<1>2. Typed' /\ NumberInv' /\ OrderInv' /\ ChildInv' /\ TableInv'
  BY <1>1, TypeStep, NumberKept, OthersChildren, TableKeeps
<1> QED
  BY <1>2, CalmKeeps DEF Inv

\* What is known in every state of the service.
THEOREM Invariance == Spec => []Inv
<1>1. Init => Inv
  BY InitInv
<1>2. Inv /\ [Next]_vars => Inv'
  BY NextInv
<1> QED
  BY <1>1, <1>2, PTL DEF Spec

\* Every variable keeps its type, for any number of clients, hosts, calls,
\* resends and faults.
THEOREM TypeCorrect == Spec => []TypeOK
<1>1. Inv => TypeOK
  BY DEF Inv, Typed
<1> QED
  BY <1>1, Invariance, PTL

\* However often requests are executed, an address is in the table once
\* (subscribe searches before it adds, unsubscribe moves the entry up).
THEOREM ListedOnceAlways == Spec => []ListedOnce
<1>1. Inv => ListedOnce
  BY DEF Inv, TableInv, ListedOnce, OnceEach
<1> QED
  BY <1>1, Invariance, PTL

\* To execute a request again does no harm, however often it is sent, as long as
\* the first answer arrives: at the menu a client is in the table exactly if its
\* receiver runs.
THEOREM ResendsAreHarmlessAlways == Spec => []ResendsAreHarmless
<1>1. Inv => ResendsAreHarmless
  <2> SUFFICES ASSUME Inv, Calm, NEW c \in Client, at[c] = "menu" PROVE On(c) <=> Child(c)
    BY DEF ResendsAreHarmless, Calm, On, Child
  <2>1. CallInv(c)
    BY DEF Inv, CalmInv, Ended
  <2> QED
    BY <2>1 DEF CallInv, Waiting, MenuChoice
<1> QED
  BY <1>1, Invariance, PTL
=============================================================================
