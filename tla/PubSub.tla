------------------------------- MODULE PubSub -------------------------------
(***************************************************************************)
(* The publish/subscribe service of VS04: the dispatcher, clients with a   *)
(* menu and the receivers they fork.  Calls are ONC RPC over UDP: a client *)
(* sends a request again every 5 seconds until an answer with the number   *)
(* of its call arrives, or gives up after 25.  The dispatcher remembers no *)
(* calls, so it executes a request as often as it arrives.                 *)
(***************************************************************************)
EXTENDS SubscriberTable, Receivers, FiniteSets

CONSTANTS
  Client,      \* the client processes
  HostOf,      \* the address of each client
  ServerHost,  \* LOCALADDRESS: the address of clients on the server's host
  MaxSubs,     \* MAXSUBS
  MaxResends,  \* how often a request is sent again before the call is given up
  Menu,        \* bound: what people choose from the menu
  MaxCalls,    \* bound: calls of each client
  MaxForks,    \* bound: receivers forked by all clients
  MaxFaults,   \* bound: how often each fault may happen
  MaxTotal     \* bound: how many faults may happen in all

MenuChoice == {"subscribe", "unsubscribe", "publish", "set_channel", "exit"}
FaultKind == {"request lost", "answer lost", "kill", "receiver"}

ASSUME ClientAssumption ==
  HostOf \in [Client -> Host] /\ ServerHost \in Host /\ IsFiniteSet(Host)

ASSUME LimitAssumption ==
  /\ Menu \subseteq MenuChoice
  /\ MaxSubs \in Nat \ {0} /\ MaxResends \in Nat
  /\ MaxCalls \in [Client -> Nat] /\ MaxForks \in Nat
  /\ MaxFaults \in [FaultKind -> Nat] /\ MaxTotal \in Nat

VARIABLES
  server,         \* server: not started or running
  subs,           \* server: the subscriber table
  topic,          \* server: current_topic
  subscribeCode,  \* server: the static return_code of subscribe
  publishing,     \* server: the publish in progress, <<>> if there is none
  socket,         \* server: requests that have arrived, in order
  answers,        \* answers that have arrived at a client, in order
  at,             \* where a client's program is
  xid,            \* client: the number of its last call
  resends,        \* client: how often it has sent that call's request again
  childPID,       \* client: the receiver it forked last, 0 before the first
  faults          \* faults so far, by kind

serverVars == <<server, subs, topic, subscribeCode, publishing>>
netVars    == <<socket, answers>>
clientVars == <<at, xid, resends, childPID>>
vars == <<serverVars, netVars, clientVars, processVars, faults>>

-----------------------------------------------------------------------------
(* Requests and answers.                                                   *)

Operations == {"set_channel", "subscribe", "unsubscribe", "publish"}
Codes == {"OK", "CANNOT_REGISTER", "CLIENT_ALREADY_REGISTERED", "CANNOT_UNREGISTER",
          "CANNOT_SET_TOPIC", "UNKNOWN_ERROR"}
Ended == {"refused", "exited", "crashed", "killed"}

Request == [from : Client, xid : Nat, op : Operations]
Answer  == [xid : Nat, code : Codes]

OperationOf(choice) == IF choice = "exit" THEN "unsubscribe" ELSE choice
RequestOf(c) == [from |-> c, xid |-> xid[c], op |-> OperationOf(at[c])]

Waiting(c) == at[c] \in MenuChoice

\* clnt_call takes the answer that bears the number of the call.
Answered(c) == Waiting(c) /\ answers[c] # <<>> /\ Head(answers[c]).xid = xid[c]

Code(c) == Head(answers[c]).code

TypeOK ==
  /\ server \in {"off", "up"}
  /\ subs \in Seq(Host) /\ Len(subs) <= MaxSubs
  /\ topic \in {"null", "uninitialised", "set"}
  /\ subscribeCode \in {"OK", "CANNOT_REGISTER", "CLIENT_ALREADY_REGISTERED"}
  /\ Len(publishing) <= 1
  /\ publishing \in Seq([request : Request, next : 1..Len(subs), to : 0..Len(receivers)])
  /\ socket \in Seq(Request)
  /\ answers \in [Client -> Seq(Answer)]
  /\ at \in [Client -> MenuChoice \cup Ended \cup {"new", "menu"}]
  /\ xid \in [Client -> Nat]
  /\ resends \in [Client -> 0..MaxResends]
  /\ ReceiversTypeOK
  /\ childPID \in [Client -> 0..Len(receivers)]
  /\ faults \in [FaultKind -> Nat]

Init ==
  /\ server = "off"
  /\ subs = <<>> /\ topic = "null" /\ subscribeCode = "OK" /\ publishing = <<>>
  /\ socket = <<>> /\ answers = [c \in Client |-> <<>>]
  /\ at = [c \in Client |-> "new"]
  /\ xid = [c \in Client |-> 0]
  /\ resends = [c \in Client |-> 0]
  /\ ReceiversInit
  /\ childPID = [c \in Client |-> 0]
  /\ faults = [k \in FaultKind |-> 0]

-----------------------------------------------------------------------------
(* The dispatcher: svc_run, one request at a time.                         *)

\* main: the program registers itself with the port mapper.
ServerStarts ==
  /\ server = "off"
  /\ server' = "up"
  /\ UNCHANGED <<subs, topic, subscribeCode, publishing, netVars, clientVars,
                 processVars, faults>>

Serving(op) ==
  /\ server = "up" /\ publishing = <<>>
  /\ socket # <<>> /\ Head(socket).op = op

\* The answer to r leaves; a process that has ended receives nothing.
Reply(r, code) ==
  /\ socket' = Tail(socket)
  /\ answers' = IF at[r.from] \in Ended THEN answers
                ELSE [answers EXCEPT ![r.from] = Append(@, [xid |-> r.xid, code |-> code])]

\* set_channel: the old topic is lost before the caller's address is looked at.
ServeSetChannel ==
  /\ Serving("set_channel")
  /\ LET isLocal == HostOf[Head(socket).from] = ServerHost IN
       /\ topic' = IF isLocal THEN "set" ELSE "uninitialised"
       /\ Reply(Head(socket), IF isLocal THEN "OK" ELSE "CANNOT_SET_TOPIC")
  /\ UNCHANGED <<server, subs, subscribeCode, publishing, clientVars, processVars, faults>>

\* Mutant: the table is not searched.
SearchNothing(a) == subscribeCode

\* What return_code is after the search: an address that is there sets it, and
\* nothing resets it.
Searched(a) == IF Listed(subs, a) THEN "CLIENT_ALREADY_REGISTERED" ELSE subscribeCode

ServeSubscribe ==
  /\ Serving("subscribe")
  /\ LET a == HostOf[Head(socket).from]
         added == Searched(a) # "CLIENT_ALREADY_REGISTERED" /\ Len(subs) < MaxSubs IN
       /\ subs' = IF added THEN Append(subs, a) ELSE subs
       /\ subscribeCode' = IF added THEN "OK"
                           ELSE IF Len(subs) = MaxSubs THEN "CANNOT_REGISTER"
                           ELSE Searched(a)
       /\ Reply(Head(socket), subscribeCode')
  /\ UNCHANGED <<server, topic, publishing, clientVars, processVars, faults>>

ServeUnsubscribe ==
  /\ Serving("unsubscribe")
  /\ LET new == Unregister(subs, HostOf[Head(socket).from]) IN
       subs' = new.subs /\ Reply(Head(socket), new.code)
  /\ UNCHANGED <<server, topic, subscribeCode, publishing, clientVars, processVars, faults>>

ServePublish ==
  /\ Serving("publish")
  /\ IF subs = <<>>
     THEN Reply(Head(socket), "UNKNOWN_ERROR") /\ UNCHANGED publishing
     ELSE /\ publishing' = <<[request |-> Head(socket), next |-> 1, to |-> 0]>>
          /\ UNCHANGED netVars
  /\ UNCHANGED <<server, subs, topic, subscribeCode, clientVars, processVars, faults>>

\* Mutant: the loop runs up to and including counter.
PastLast(p) == p.next > Len(subs)

LastTurn(p) == p.next = Len(subs)

\* A turn of the loop over the subscribers is over; the last one decides the
\* answer.
TurnEnds(p, code) ==
  IF LastTurn(p)
  THEN Reply(p.request, code) /\ publishing' = <<>>
  ELSE publishing' = <<[p EXCEPT !.next = @ + 1, !.to = 0]>> /\ UNCHANGED netVars

\* clnt_create of one turn.
Contact ==
  /\ publishing # <<>>
  /\ LET p == Head(publishing)
         h == subs[p.next] IN
       /\ p.to = 0
       /\ IF Reachable(h)
          THEN publishing' = <<[p EXCEPT !.to = portmap[h]]>> /\ UNCHANGED netVars
          ELSE TurnEnds(p, "UNKNOWN_ERROR")
  /\ UNCHANGED <<server, subs, topic, subscribeCode, clientVars, processVars, faults>>

\* The receiver takes the call, shows the message, and answers or not.
Receive ==
  /\ publishing # <<>> /\ Head(publishing).to # 0
  /\ Running(Head(publishing).to)
  /\ TurnEnds(Head(publishing), "OK")
  /\ UNCHANGED <<server, subs, topic, subscribeCode, clientVars, processVars, faults>>

\* deliver_1 returns NULL, for the receiver has ended; publish does not look.
DeliveryFails ==
  /\ publishing # <<>> /\ Head(publishing).to # 0
  /\ ~Running(Head(publishing).to)
  /\ TurnEnds(Head(publishing), "OK")
  /\ UNCHANGED <<server, subs, topic, subscribeCode, clientVars, processVars, faults>>

Deliver == Contact \/ Receive \/ DeliveryFails

Serve == ServeSetChannel \/ ServeSubscribe \/ ServeUnsubscribe \/ ServePublish \/ Deliver

-----------------------------------------------------------------------------
(* The clients.                                                            *)

\* Receivers that exist or may be forked for a subscribe under way.
Forks == Len(receivers) + Cardinality({c \in Client : at[c] = "subscribe"})

\* main: the handle of the server, or the program ends with a message.
Connect(c) ==
  /\ at[c] = "new"
  /\ at' = [at EXCEPT ![c] = IF server = "up" THEN "menu" ELSE "refused"]
  /\ UNCHANGED <<serverVars, netVars, xid, resends, childPID, processVars, faults>>

\* menuNavigation and the first request of the call.
Choose(c) ==
  /\ at[c] = "menu" /\ xid[c] < MaxCalls[c]
  /\ \E choice \in Menu :
       /\ choice = "subscribe" => Forks < MaxForks
       /\ at' = [at EXCEPT ![c] = choice]
  /\ xid' = [xid EXCEPT ![c] = @ + 1]
  /\ resends' = [resends EXCEPT ![c] = 0]
  /\ socket' = Append(socket, RequestOf(c)')
  /\ UNCHANGED <<serverVars, answers, childPID, processVars, faults>>

TimeLeft(c) == resends[c] < MaxResends

\* Five seconds without an answer: the request is sent again.
Resend(c) ==
  /\ Waiting(c) /\ ~Answered(c) /\ TimeLeft(c)
  /\ resends' = [resends EXCEPT ![c] = @ + 1]
  /\ socket' = Append(socket, RequestOf(c))
  /\ UNCHANGED <<serverVars, answers, at, xid, childPID, processVars, faults>>

\* An answer to an earlier call is passed over.
Discard(c) ==
  /\ Waiting(c) /\ ~Answered(c) /\ answers[c] # <<>>
  /\ answers' = [answers EXCEPT ![c] = Tail(@)]
  /\ UNCHANGED <<serverVars, socket, clientVars, processVars, faults>>

\* The call has ended and the program goes on; a process that ends leaves no
\* socket behind.
Goes(c, where, rest) ==
  /\ at' = [at EXCEPT ![c] = where]
  /\ answers' = [answers EXCEPT ![c] = IF where \in Ended THEN <<>> ELSE rest]
  /\ UNCHANGED <<xid, resends>>

\* subscribeToDispatcher: a receiver is forked if the answer is OK.
GotSubscribe(c) ==
  /\ at[c] = "subscribe" /\ Answered(c)
  /\ IF Code(c) = "OK"
     THEN Fork(HostOf[c]) /\ childPID' = [childPID EXCEPT ![c] = Len(receivers')]
     ELSE UNCHANGED <<receivers, childPID>>
  /\ Goes(c, "menu", Tail(answers[c]))
  /\ UNCHANGED <<serverVars, socket, portmap, faults>>

\* unsubscribeFromDispatcher: the receiver forked last is ended if the answer
\* is OK.  childPID keeps its value.
GotUnsubscribe(c) ==
  /\ at[c] \in {"unsubscribe", "exit"} /\ Answered(c)
  /\ IF childPID[c] # 0 /\ Code(c) = "OK" THEN End(childPID[c]) ELSE UNCHANGED receivers
  /\ Goes(c, IF at[c] = "exit" THEN "exited" ELSE "menu", Tail(answers[c]))
  /\ UNCHANGED <<serverVars, socket, childPID, portmap, faults>>

\* sendMessage and setTopic only print what came back.
GotOther(c) ==
  /\ at[c] \in {"publish", "set_channel"} /\ Answered(c)
  /\ Goes(c, "menu", Tail(answers[c]))
  /\ UNCHANGED <<serverVars, socket, childPID, processVars, faults>>

Got(c) == GotSubscribe(c) \/ GotUnsubscribe(c) \/ GotOther(c)

UnderWay(c) == \E i \in DOMAIN socket : socket[i].from = c /\ socket[i].xid = xid[c]

\* 25 seconds pass without an answer only if a publish blocks the dispatcher or
\* datagrams were lost.
Late(c) == publishing # <<>> \/ (~UnderWay(c) /\ answers[c] = <<>>)

\* The call returns NULL.  setTopic prints that, and unsubscribeFromDispatcher
\* too while no receiver was ever forked; the others read through it.
TimeOut(c) ==
  /\ Waiting(c) /\ ~Answered(c) /\ resends[c] = MaxResends /\ Late(c)
  /\ Goes(c, CASE at[c] = "set_channel" -> "menu"
               [] at[c] = "unsubscribe" /\ childPID[c] = 0 -> "menu"
               [] at[c] = "exit" /\ childPID[c] = 0 -> "exited"
               [] OTHER -> "crashed", answers[c])
  /\ UNCHANGED <<serverVars, socket, childPID, processVars, faults>>

-----------------------------------------------------------------------------
(* The environment.                                                        *)

AllFaults == UNION {{k} \X (1..faults[k]) : k \in FaultKind}

Fault(k) ==
  /\ faults[k] < MaxFaults[k] /\ Cardinality(AllFaults) < MaxTotal
  /\ faults' = [faults EXCEPT ![k] = @ + 1]

\* A request is lost before it has arrived; one further back can wait until it
\* is the next one.
LoseRequest ==
  /\ Fault("request lost")
  /\ publishing = <<>> /\ socket # <<>>
  /\ socket' = Tail(socket)
  /\ UNCHANGED <<serverVars, answers, clientVars, processVars>>

LoseAnswer(c) ==
  /\ Fault("answer lost")
  /\ answers[c] # <<>>
  /\ answers' = [answers EXCEPT ![c] = Tail(@)]
  /\ UNCHANGED <<serverVars, socket, clientVars, processVars>>

\* A client process is ended from outside, alone or together with its receiver.
Kill(c) ==
  /\ Fault("kill")
  /\ at[c] \notin Ended
  /\ Goes(c, "killed", <<>>)
  /\ UNCHANGED receivers \/ (childPID[c] # 0 /\ End(childPID[c]))
  /\ UNCHANGED <<serverVars, socket, childPID, portmap>>

ReceiverStarts(p) ==
  /\ Starts(p)
  /\ UNCHANGED <<serverVars, netVars, clientVars, faults>>

ReceiverEnds(p) ==
  /\ Fault("receiver")
  /\ Running(p) /\ End(p)
  /\ UNCHANGED <<serverVars, netVars, clientVars, portmap>>

Next ==
  \/ ServerStarts \/ Serve \/ LoseRequest
  \/ \E c \in Client :
       Connect(c) \/ Choose(c) \/ Resend(c) \/ Discard(c) \/ Got(c) \/ TimeOut(c) \/ LoseAnswer(c) \/ Kill(c)
  \/ \E p \in DOMAIN receivers : ReceiverStarts(p) \/ ReceiverEnds(p)

Spec == Init /\ [][Next]_vars

-----------------------------------------------------------------------------
(* Properties.                                                             *)

\* One client on every host, and no more hosts than DropAt handles.
Separate ==
  /\ \A c, d \in Client : HostOf[c] = HostOf[d] => c = d
  /\ Cardinality(Host) <= 2

\* However often a subscribe is executed, and whatever executions of unsubscribe
\* come in between, an address is in the table once.
ListedOnce ==
  Separate => \A i, j \in DOMAIN subs : subs[i] = subs[j] => i = j

\* Executing a request again does no harm as long as the first answer arrives: a
\* client at its menu is in the table exactly if the receiver it forked last runs,
\* whatever requests were lost, sent again, or are still to be executed again.  The
\* table has room for everybody: a subscribe that was refused because it was full
\* would be executed again when somebody has left.
ResendsAreHarmless ==
  /\ Separate /\ Cardinality(Host) <= MaxSubs
  /\ faults["answer lost"] = 0 /\ faults["receiver"] = 0
  => \A c \in Client : at[c] = "menu" =>
      (Listed(subs, HostOf[c]) <=> childPID[c] # 0 /\ Running(childPID[c]))

=============================================================================
