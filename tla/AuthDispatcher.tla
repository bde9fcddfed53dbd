--------------------------- MODULE AuthDispatcher ---------------------------
(***************************************************************************)
(* The publish/subscribe service of VS05: one dispatcher (server), clients *)
(* with a menu, and the receiver processes the clients fork.  A client     *)
(* logs in (get_session, validate), calls the dispatcher and logs out      *)
(* (invalidate).  Calls are ONC RPC over TCP: a connection per client,     *)
(* requests served in order, one at a time over all connections.           *)
(*                                                                         *)
(* A publish delivers to one subscriber after the other and blocks the     *)
(* dispatcher meanwhile; a delivery may take as long as the callers of     *)
(* other calls are willing to wait (25 s), so calls time out.              *)
(***************************************************************************)
EXTENDS SubscriberTable, Receivers, FiniteSets

CONSTANTS
  Client,      \* the client processes
  HostOf,      \* the address of each client
  ServerHost,  \* LOCALADDRESS: the address of clients on the server's host
  User,        \* the user names people type
  Account,     \* those with a line in hashes.txt
  Menu,        \* bound: what people choose from the menu
  MaxSubs,     \* MAXSUBS
  MaxLogins,   \* bound: login attempts of all clients
  MaxForks,    \* bound: receivers forked by all clients
  MaxFaults    \* bound: how often each fault may happen

MenuChoice == {"subscribe", "unsubscribe", "publish", "set_channel", "logout", "leave"}
FaultKind == {"timeout", "kill", "receiver"}

ASSUME ClientAssumption ==
  /\ HostOf \in [Client -> Host] /\ ServerHost \in Host /\ IsFiniteSet(Host)
  /\ User # {} /\ Account \subseteq User

ASSUME LimitAssumption ==
  /\ Menu \subseteq MenuChoice
  /\ MaxSubs \in Nat \ {0} /\ MaxLogins \in Nat /\ MaxForks \in Nat
  /\ MaxFaults \in [FaultKind -> Nat]

VARIABLES
  subs,        \* server: the subscriber table
  sessions,    \* server: session id -> user and whether it was validated
  lastSid,     \* server: the last session id given, 0: the list does not exist
  topic,       \* server: current_topic
  publishing,  \* server: the publish in progress, <<>> if there is none
  server,      \* server: not started, running, or dead of a NULL pointer
  queue,       \* requests of a client the server has not answered
  answer,      \* the answer to the call a client waits for
  at,          \* where a client's program is
  cred,        \* what was typed at its last login
  key,         \* client: para->id
  childPID,    \* client: the receiver it forked last, 0 before the first
  logins,      \* login attempts so far
  faults       \* faults so far, by kind

tableVars   == <<subs, topic>>
sessionVars == <<sessions, lastSid>>
clientVars  == <<at, cred, key, childPID>>
boundVars   == <<logins, faults>>
vars == <<tableVars, sessionVars, publishing, server, queue, answer, clientVars,
          processVars, boundVars>>

-----------------------------------------------------------------------------
(* Requests and answers.                                                   *)

Calls == {"get_session", "validate", "subscribe", "unsubscribe", "publish",
          "set_channel", "logout", "leave", "goodbye"}
Operations == {"get_session", "validate", "invalidate", "subscribe", "unsubscribe",
               "publish", "set_channel"}
Ended == {"refused", "exited", "crashed", "killed"}
Codes == {"OK", "CANNOT_REGISTER", "CLIENT_ALREADY_REGISTERED", "CANNOT_UNREGISTER",
          "CANNOT_SET_TOPIC", "UNKNOWN_ERROR", "WRONG_PASSWORD", "NO_SESSION_FOUND",
          "NO_ACCOUNT_FOUND", "CORRUPTED_TRANSFER"}

Waiting(c) == at[c] \in Calls

\* The argument of a call: which arm of the union it is said to be, and the
\* text.  "none" is any other value of topic_or_message.
Arm == {"topic", "message", "none"}
Texts == {"", "typed"}
Argument == [arm : Arm, text : Texts]

\* What was typed at the login: the user, and whether the password is right.
Credentials == [user : User, good : BOOLEAN]

\* Nobody can tell from a digest what went into it, but two are equal only if
\* the same did: hash_two_params_int over session id and text, then
\* hash_two_params with the hash of user and password.
Digest == [id : Nat, text : Texts, cred : Credentials]
HashParam(id, argument, credentials) ==
  [id |-> id,
   text |-> IF argument.arm \in {"topic", "message"} THEN argument.text ELSE "",
   cred |-> credentials]

\* get_session sends the user's name and no digest.
Request == [op : Operations, user : User, id : Nat, arg : Argument, hash : Digest]
Answer  == [code : Codes \cup {"none"}, id : Nat]
NoAnswer == [code |-> "none", id |-> 0]
Answered(c) == answer[c].code # "none"

\* The text of an argument whose arm is none is not sent.
XdrArgument(argument) ==
  [argument EXCEPT !.text = IF argument.arm = "none" THEN "" ELSE @]

\* The client marshals a request and goes on waiting for its answer.
Ask(c, where, op, id, argument, hash) ==
  /\ at' = [at EXCEPT ![c] = where]
  /\ queue' = [queue EXCEPT ![c] =
       Append(@, [op |-> op, user |-> hash.cred.user, id |-> id,
                  arg |-> XdrArgument(argument), hash |-> hash])]
  /\ answer' = [answer EXCEPT ![c] = NoAnswer]

NoText == [arm |-> "none", text |-> ""]

\* The argument and the digest of a call are made by the caller.  (invalidate
\* sends only the id: what else is in its record is never looked at.)
AskSigned(c, where, op, argument) ==
  Ask(c, where, op, key[c], argument, HashParam(key[c], argument, cred[c]))

\* Mutant: an error code is returned as a NULL result, which is not sent.
ReplyOnSuccess(c, code, id) ==
  /\ queue' = [queue EXCEPT ![c] = Tail(@)]
  /\ answer' = IF Waiting(c) /\ Len(queue[c]) = 1 /\ code = "OK"
               THEN [answer EXCEPT ![c] = [code |-> code, id |-> id]]
               ELSE answer

\* The server is done with the head of c's requests.  An answer to a call that
\* has timed out is not the one the client waits for: it is dropped.
Reply(c, code, id) ==
  /\ queue' = [queue EXCEPT ![c] = Tail(@)]
  /\ answer' = IF Waiting(c) /\ Len(queue[c]) = 1
               THEN [answer EXCEPT ![c] = [code |-> code, id |-> id]]
               ELSE answer

ReplyCode(c, code) == Reply(c, code, 0)

TypeOK ==
  /\ subs \in Seq(Host) /\ Len(subs) <= MaxSubs
  /\ topic \in {"null", "uninitialised", "set"}
  /\ DOMAIN sessions \subseteq 1..lastSid /\ lastSid \in Nat
  /\ \A s \in DOMAIN sessions : sessions[s] \in [user : User, validated : BOOLEAN]
  /\ Len(publishing) <= 1
  /\ publishing \in Seq([client : Client, next : 1..Len(subs), to : 0..Len(receivers),
                         heard : Seq(1..Len(receivers)),
                         audience : SUBSET (1..Len(receivers))])
  /\ server \in {"off", "up", "crashed"}
  /\ queue \in [Client -> Seq(Request)]
  /\ answer \in [Client -> Answer]
  /\ at \in [Client -> Calls \cup Ended \cup {"new", "login", "menu"}]
  /\ cred \in [Client -> Credentials]
  /\ key \in [Client -> Nat]
  /\ ReceiversTypeOK
  /\ childPID \in [Client -> 0..Len(receivers)]
  /\ logins \in Nat /\ faults \in [FaultKind -> Nat]

Init ==
  /\ subs = <<>> /\ topic = "null"
  /\ sessions = [s \in {} |-> {}] /\ lastSid = 0
  /\ publishing = <<>> /\ server = "off"
  /\ queue = [c \in Client |-> <<>>]
  /\ answer = [c \in Client |-> NoAnswer]
  /\ at = [c \in Client |-> "new"]
  /\ cred = [c \in Client |-> [user |-> CHOOSE u \in User : TRUE, good |-> FALSE]]
  /\ key = [c \in Client |-> 0]
  /\ childPID = [c \in Client |-> 0]
  /\ ReceiversInit
  /\ logins = 0 /\ faults = [k \in FaultKind |-> 0]

-----------------------------------------------------------------------------
(* The dispatcher.                                                         *)

\* main: the program registers itself with the port mapper.
ServerStarts ==
  /\ server = "off"
  /\ server' = "up"
  /\ UNCHANGED <<tableVars, sessionVars, publishing, queue, answer, clientVars,
                 processVars, boundVars>>

\* svc_run hands over the next request when no call is being served.
Serving(c, op) ==
  /\ server = "up" /\ publishing = <<>>
  /\ queue[c] # <<>> /\ Head(queue[c]).op = op

Req(c) == Head(queue[c])

SearchSession(id) == id \in DOMAIN sessions

\* Mutant: the digest is not compared.
CheckWithoutHash(r) ==
  IF ~SearchSession(r.id) THEN "NO_SESSION_FOUND"
  ELSE IF sessions[r.id].user \notin Account THEN "NO_ACCOUNT_FOUND"
  ELSE "OK"

\* Mutant: the server hashes the text of a topic only.
TopicOnly(r) ==
  [id |-> r.id, text |-> IF r.arg.arm = "topic" THEN r.arg.text ELSE "",
   cred |-> [user |-> sessions[r.id].user, good |-> TRUE]]

\* The digest the server makes of the session's user, the hash it has of the
\* right password, and the argument that has arrived.
Recomputed(r) ==
  HashParam(r.id, r.arg, [user |-> sessions[r.id].user, good |-> TRUE])

\* check_session.  It does not ask whether the session was validated.
CheckSession(r) ==
  IF ~SearchSession(r.id) THEN "NO_SESSION_FOUND"
  ELSE IF sessions[r.id].user \notin Account THEN "NO_ACCOUNT_FOUND"
  ELSE IF r.hash = Recomputed(r) THEN "OK"
  ELSE IF sessions[r.id].validated THEN "CORRUPTED_TRANSFER"
  ELSE "WRONG_PASSWORD"

\* Mutants: a clock that stands still; the id is taken before it advances.
StoppedClock == 1
ClockBefore == lastSid

\* clock(): CPU time, strictly growing from one request to the next.
NextSid == lastSid + 1

\* A new entry at the end of the list; of two with one id the first is found,
\* which is why ids must not come twice.
InsertSession(sid, user) ==
  sessions' = [s \in DOMAIN sessions \cup {sid} |->
                 IF s = sid THEN [user |-> user, validated |-> FALSE] ELSE sessions[s]]

ValidateSession(id) == sessions' = [sessions EXCEPT ![id].validated = TRUE]

ServeGetSession(c) ==
  /\ Serving(c, "get_session")
  /\ LET sid == NextSid IN
       /\ lastSid' = lastSid + 1
       /\ InsertSession(sid, Req(c).user)
       /\ Reply(c, "OK", sid)
  /\ UNCHANGED <<tableVars, publishing, server, clientVars, processVars, boundVars>>

\* Mutant: the entry is not unlinked.
SessionsStill(id) == sessions

SessionsWithout(id) == [s \in DOMAIN sessions \ {id} |-> sessions[s]]

\* delete_session: the walk reads session_list->next->sid, so an id that is not
\* in the list ends it at a NULL pointer.  The list is NULL before the first login.
DeleteSession(c, id, found, missing) ==
  \/ /\ id \in DOMAIN sessions
     /\ sessions' = SessionsWithout(id)
     /\ ReplyCode(c, found)
     /\ UNCHANGED server
  \/ /\ id \notin DOMAIN sessions /\ lastSid = 0
     /\ ReplyCode(c, missing)
     /\ UNCHANGED <<sessions, server>>
  \/ /\ id \notin DOMAIN sessions /\ lastSid # 0
     /\ server' = "crashed"
     /\ UNCHANGED <<sessions, queue, answer>>

ServeValidate(c) ==
  /\ Serving(c, "validate")
  /\ LET code == CheckSession(Req(c)) IN
       \/ /\ code = "OK"
          /\ ValidateSession(Req(c).id)
          /\ ReplyCode(c, code)
          /\ UNCHANGED server
       \/ code # "OK" /\ DeleteSession(c, Req(c).id, code, code)
  /\ UNCHANGED <<tableVars, lastSid, publishing, clientVars, processVars, boundVars>>

\* invalidate asks for no password.
ServeInvalidate(c) ==
  /\ Serving(c, "invalidate")
  /\ DeleteSession(c, Req(c).id, "OK", "NO_SESSION_FOUND")
  /\ UNCHANGED <<tableVars, lastSid, publishing, clientVars, processVars, boundVars>>

\* subscribe and unsubscribe: the table knows addresses, not clients.
ServeTable(c, op, new) ==
  /\ Serving(c, op)
  /\ LET code == CheckSession(Req(c)) IN
       IF code = "OK"
       THEN subs' = new.subs /\ ReplyCode(c, new.code)
       ELSE ReplyCode(c, code) /\ UNCHANGED subs
  /\ UNCHANGED <<topic, sessionVars, publishing, server, clientVars, processVars, boundVars>>

ServeSubscribe(c) == ServeTable(c, "subscribe", Register(subs, HostOf[c], MaxSubs))
ServeUnsubscribe(c) == ServeTable(c, "unsubscribe", Unregister(subs, HostOf[c]))

\* set_channel: only a local client sets the topic; the first caller allocates it.
ServeSetChannel(c) ==
  /\ Serving(c, "set_channel")
  /\ LET code == CheckSession(Req(c)) IN
       IF code # "OK" THEN ReplyCode(c, code) /\ UNCHANGED topic
       ELSE IF HostOf[c] = ServerHost THEN ReplyCode(c, "OK") /\ topic' = "set"
       ELSE /\ ReplyCode(c, "CANNOT_SET_TOPIC")
            /\ topic' = IF topic = "null" THEN "uninitialised" ELSE topic
  /\ UNCHANGED <<subs, sessionVars, publishing, server, clientVars, processVars, boundVars>>

\* A client that is served and knows a receiver that is ready.
Settled(c) ==
  /\ at[c] = "menu" /\ queue[c] = <<>>
  /\ childPID[c] # 0 /\ receivers[childPID[c]].state = "serving"

\* publish: refused, nobody there, or the first delivery is due.
ServePublish(c) ==
  /\ Serving(c, "publish")
  /\ LET code == CheckSession(Req(c)) IN
       IF code = "OK" /\ subs # <<>>
       THEN /\ publishing' = <<[client |-> c, next |-> 1, to |-> 0, heard |-> <<>>,
                                audience |-> {childPID[d] : d \in {e \in Client : Settled(e)}}]>>
            /\ UNCHANGED <<queue, answer>>
       ELSE /\ ReplyCode(c, IF code = "OK" THEN "UNKNOWN_ERROR" ELSE code)
            /\ UNCHANGED publishing
  /\ UNCHANGED <<tableVars, sessionVars, server, clientVars, processVars, boundVars>>

\* Mutant: the loop ends when the first delivery fails.
TurnOrStop(p, code) == code # "OK" \/ p.next = Len(subs)

LastTurn(p, code) == p.next = Len(subs)

\* A turn of the loop over the subscribers is over.  Every turn overwrites
\* return_code, so the last one decides what the publisher is told.
TurnEnds(p, code) ==
  IF LastTurn(p, code)
  THEN ReplyCode(p.client, code) /\ publishing' = <<>>
  ELSE /\ publishing' = <<[p EXCEPT !.next = @ + 1, !.to = 0]>>
       /\ UNCHANGED <<queue, answer>>

\* clnt_create of one turn.
Contact ==
  /\ server = "up" /\ publishing # <<>>
  /\ LET p == Head(publishing)
         h == subs[p.next] IN
       /\ p.to = 0
       /\ IF Reachable(h)
          THEN /\ publishing' = <<[p EXCEPT !.to = portmap[h]]>>
               /\ UNCHANGED <<queue, answer>>
          ELSE TurnEnds(p, "UNKNOWN_ERROR")
  /\ UNCHANGED <<tableVars, sessionVars, server, clientVars, processVars, boundVars>>

\* deliver_1_svc in the receiver: the message is shown.
Shown(p) == [p EXCEPT !.heard = Append(@, p.to)]

\* The receiver takes the call, shows the message, and answers or not.
Receive ==
  /\ publishing # <<>> /\ Head(publishing).to # 0
  /\ Running(Head(publishing).to)
  /\ TurnEnds(Shown(Head(publishing)), "OK")
  /\ UNCHANGED <<tableVars, sessionVars, server, clientVars, processVars, boundVars>>

\* deliver_1 returns NULL, for the receiver has ended; publish does not look.
DeliveryFails ==
  /\ publishing # <<>> /\ Head(publishing).to # 0
  /\ ~Running(Head(publishing).to)
  /\ TurnEnds(Head(publishing), "OK")
  /\ UNCHANGED <<tableVars, sessionVars, server, clientVars, processVars, boundVars>>

Deliver == Contact \/ Receive \/ DeliveryFails

Serve(c) ==
  \/ ServeGetSession(c) \/ ServeValidate(c) \/ ServeInvalidate(c)
  \/ ServeSubscribe(c) \/ ServeUnsubscribe(c) \/ ServeSetChannel(c) \/ ServePublish(c)

-----------------------------------------------------------------------------
(* The clients.                                                            *)

\* The client has dealt with the answer and is somewhere else.
Goes(c, where) ==
  /\ at' = [at EXCEPT ![c] = where]
  /\ answer' = [answer EXCEPT ![c] = NoAnswer]
  /\ UNCHANGED queue

\* main: the handle of the server, or the program ends with a message.
Connect(c) ==
  /\ at[c] = "new"
  /\ Goes(c, IF server = "up" THEN "login" ELSE "refused")
  /\ UNCHANGED <<tableVars, sessionVars, publishing, server, cred, key, childPID,
                 processVars, boundVars>>

\* login_to_Server: a name and a password are typed, a session is asked for.
Login(c) ==
  /\ at[c] = "login" /\ logins < MaxLogins
  /\ \E u \in User, good \in BOOLEAN :
       /\ good => u \in Account
       /\ cred' = [cred EXCEPT ![c] = [user |-> u, good |-> good]]
       /\ Ask(c, "get_session", "get_session", 0, NoText,
              HashParam(0, NoText, [user |-> u, good |-> good]))
  /\ logins' = logins + 1
  /\ UNCHANGED <<tableVars, sessionVars, publishing, server, key, childPID, processVars, faults>>

\* The id comes back and is used at once for validate.  topic_or_message of arg
\* was never set, the text is empty and hashed as such.
GotSession(c) ==
  /\ at[c] = "get_session" /\ Answered(c)
  /\ key' = [key EXCEPT ![c] = answer[c].id]
  /\ \E arm \in Arm :
       Ask(c, "validate", "validate", answer[c].id, [arm |-> arm, text |-> ""],
           HashParam(answer[c].id, NoText, cred[c]))
  /\ UNCHANGED <<tableVars, sessionVars, publishing, server, cred, childPID, processVars,
                 boundVars>>

\* Login goes on until it succeeds.
GotValidate(c) ==
  /\ at[c] = "validate" /\ Answered(c)
  /\ Goes(c, IF answer[c].code = "OK" THEN "menu" ELSE "login")
  /\ UNCHANGED <<tableVars, sessionVars, publishing, server, cred, key,
                 childPID, processVars, boundVars>>

\* Every receiver that may still be forked for a subscribe under way.
Forks == Len(receivers) + Cardinality({c \in Client : at[c] = "subscribe"})

OperationOf(choice) ==
  CASE choice = "logout" -> "invalidate"
    [] choice = "leave"  -> "unsubscribe"
    [] OTHER             -> choice

\* A message and a topic are typed; the other calls carry no text.
ArgumentOf(choice) ==
  CASE choice = "publish" -> [arm |-> "message", text |-> "typed"]
    [] choice = "set_channel" -> [arm |-> "topic", text |-> "typed"]
    [] OTHER -> NoText

\* menuNavigation.  "leave" is the menu's exit, which unsubscribes first.
Choose(c) ==
  /\ at[c] = "menu"
  /\ \E choice \in Menu :
       /\ choice = "subscribe" => Forks < MaxForks
       /\ AskSigned(c, choice, OperationOf(choice), ArgumentOf(choice))
  /\ UNCHANGED <<tableVars, sessionVars, publishing, server, cred, key, childPID,
                 processVars, boundVars>>

\* subscribeToDispatcher: a receiver is forked if the answer is OK.
GotSubscribe(c) ==
  /\ at[c] = "subscribe" /\ Answered(c)
  /\ IF answer[c].code = "OK"
     THEN Fork(HostOf[c]) /\ childPID' = [childPID EXCEPT ![c] = Len(receivers')]
     ELSE UNCHANGED <<receivers, childPID>>
  /\ Goes(c, "menu")
  /\ UNCHANGED <<tableVars, sessionVars, publishing, server, cred, key,
                 portmap, boundVars>>

\* unsubscribeFromDispatcher: the receiver forked last is killed if the answer
\* is OK.  childPID keeps its value.  On exit the client logs out next.
GotUnsubscribe(c) ==
  /\ at[c] \in {"unsubscribe", "leave"} /\ Answered(c)
  /\ IF childPID[c] # 0 /\ answer[c].code = "OK" THEN End(childPID[c]) ELSE UNCHANGED receivers
  /\ IF at[c] = "leave"
     THEN AskSigned(c, "goodbye", "invalidate", NoText)
     ELSE Goes(c, "menu")
  /\ UNCHANGED <<tableVars, sessionVars, publishing, server, cred, key, childPID, portmap,
                 boundVars>>

\* sendMessage, setTopic and logout_of_the_server only print what came back.
GotOther(c) ==
  /\ Answered(c)
  /\ \/ at[c] \in {"publish", "set_channel"} /\ Goes(c, "menu")
     \/ at[c] = "logout" /\ Goes(c, "login")
     \/ at[c] = "goodbye" /\ Goes(c, "exited")
  /\ UNCHANGED <<tableVars, sessionVars, publishing, server, cred, key,
                 childPID, processVars, boundVars>>

Got(c) == GotSession(c) \/ GotValidate(c) \/ GotSubscribe(c) \/ GotUnsubscribe(c) \/ GotOther(c)

-----------------------------------------------------------------------------
(* The environment.                                                        *)

Fault(k) ==
  /\ faults[k] < MaxFaults[k]
  /\ faults' = [faults EXCEPT ![k] = @ + 1]
  /\ UNCHANGED logins

\* What a client does with the NULL a call returns instead of an answer: most
\* callers read through it; setTopic and logout_of_the_server let it pass, and so
\* does unsubscribeFromDispatcher while no receiver was ever forked.
AfterNull(c) ==
  IF at[c] = "leave" /\ childPID[c] = 0
  THEN AskSigned(c, "goodbye", "invalidate", NoText)
  ELSE Goes(c, CASE at[c] = "set_channel" -> "menu"
                 [] at[c] = "unsubscribe" /\ childPID[c] = 0 -> "menu"
                 [] at[c] = "logout" -> "login"
                 [] at[c] = "goodbye" -> "exited"
                 [] OTHER -> "crashed")

\* A call is given up while the dispatcher is delivering; its request stays in
\* the connection and will be served.
TimeOut(c) ==
  /\ Fault("timeout")
  /\ publishing # <<>> /\ Waiting(c) /\ ~Answered(c)
  /\ AfterNull(c)
  /\ UNCHANGED <<tableVars, sessionVars, publishing, server, cred, key, childPID, processVars>>

\* A client process is ended from outside, alone or together with its receiver.
\* Requests it has written are served all the same.
Kill(c) ==
  /\ Fault("kill")
  /\ at[c] \notin Ended
  /\ Goes(c, "killed")
  /\ \/ UNCHANGED receivers
     \/ childPID[c] # 0 /\ End(childPID[c])
  /\ UNCHANGED <<tableVars, sessionVars, publishing, server, cred, key,
                 childPID, portmap>>

\* A forked receiver has been started and tells the port mapper its port.
ReceiverStarts(p) ==
  /\ Starts(p)
  /\ UNCHANGED <<tableVars, sessionVars, publishing, server, queue, answer, clientVars,
                 boundVars>>

\* A receiver ends on its own, or its program is not found.
ReceiverEnds(p) ==
  /\ Fault("receiver")
  /\ Running(p) /\ End(p)
  /\ UNCHANGED <<tableVars, sessionVars, publishing, server, queue, answer, clientVars,
                 portmap>>

Next ==
  \/ \E c \in Client : Serve(c) \/ Connect(c) \/ Login(c) \/ Choose(c) \/ Got(c) \/ TimeOut(c) \/ Kill(c)
  \/ ServerStarts \/ Deliver
  \/ \E p \in DOMAIN receivers : ReceiverStarts(p) \/ ReceiverEnds(p)

\* svc_run serves every connection that has a request before it waits again, so
\* no client is passed over forever; a call in progress and the programs of the
\* clients go on by themselves.  Nobody has to type anything.
Fairness ==
  /\ WF_vars(Deliver)
  /\ \A c \in Client : SF_vars(Serve(c)) /\ WF_vars(Got(c))

Spec == Init /\ [][Next]_vars /\ Fairness

-----------------------------------------------------------------------------
(* Properties.                                                             *)

\* delete_session never runs off the list: whoever validates or invalidates names
\* a session that is there, however logins, logouts, timeouts and killed clients
\* are interleaved.
ServerSurvives == server # "crashed"

\* Where client.c takes itself to be logged in.
InMenu(c) ==
  at[c] \in {"menu", "subscribe", "unsubscribe", "publish", "set_channel", "leave"}

\* A client that takes itself to be logged in typed the right password and has a
\* validated session of its own for the user it typed; nobody else's login, logout or
\* failed password takes it away.
LoggedIn ==
  \A c \in Client : InMenu(c) =>
    /\ key[c] \in DOMAIN sessions
    /\ sessions[key[c]] = [user |-> cred[c].user, validated |-> TRUE]
    /\ cred[c].good
    /\ \A d \in Client \ {c} : key[d] # key[c]

\* check_session refuses nothing a client asks for after its login: what
\* hash_param signs is what the server recomputes for the session it finds.
NeverRefused ==
  \A c \in Client : InMenu(c) \/ at[c] \in {"logout", "goodbye"} =>
    answer[c].code \notin
      {"NO_SESSION_FOUND", "NO_ACCOUNT_FOUND", "WRONG_PASSWORD", "CORRUPTED_TRANSFER"}

\* The client whose request a step takes up.
Actor(c) ==
  queue[c] # <<>> /\ (queue[c]' = Tail(queue[c]) \/ (publishing' # <<>> /\ publishing'[1].client = c))

\* Nothing changes the table or the topic and nothing is published except for a
\* client that typed the right password and whose session was validated, although check_session does not ask for
\* that -- also when the request is served after its client gave up or died.
ActionsNeedLogin ==
  [][subs' # subs \/ topic' # topic \/ (publishing = <<>> /\ publishing' # <<>>) =>
       \E c \in Client :
         /\ Actor(c) /\ Req(c).id \in DOMAIN sessions
         /\ sessions[Req(c).id] = [user |-> Req(c).hash.cred.user, validated |-> TRUE]
         /\ Req(c).hash.cred.good]_vars

\* Every call ends: nobody waits for the dispatcher forever, although it serves
\* one call at a time and delivers to receivers while callers wait.
CallsReturn == \A c \in Client : Waiting(c) ~> ~Waiting(c)

\* The session of a client that has left is deleted in the end, even if its
\* invalidate call timed out.
SessionReleased == \A c \in Client : at[c] = "exited" ~> key[c] \notin DOMAIN sessions

\* One client on every host, and no more hosts than DropAt handles.
Separate ==
  /\ \A c, d \in Client : HostOf[c] = HostOf[d] => c = d
  /\ Cardinality(Host) <= 2 /\ faults["receiver"] = 0

\* The dispatcher's table and the processes on the hosts agree: a client at its
\* menu is in the table exactly if the receiver it forked last has not been ended.
TableMatchesReceivers ==
  Separate => \A c \in Client : at[c] = "menu" /\ queue[c] = <<>> =>
    (Listed(subs, HostOf[c]) <=>
       childPID[c] # 0 /\ Running(childPID[c]))

\* No receiver is forgotten: one that still runs is the one childPID names, so
\* that unsubscribing can end it.
ReceiverIsKnown ==
  Separate => \A p \in DOMAIN receivers : Running(p) =>
    \E c \in Client : HostOf[c] = receivers[p].host /\ childPID[c] = p

\* A publish that gets through the table: every receiver that was ready when it
\* began, of a client that waited for nothing, and that is still running when
\* it ends has shown the message, and nobody shows it twice -- whichever
\* receivers end, start or fail to answer on the way (dispatcher.c 157-169).
AudienceHears ==
  [][publishing # <<>> /\ publishing' = <<>> /\ Separate =>
       LET p == Head(publishing)
           heard == IF p.to # 0 /\ Running(p.to) THEN Shown(p).heard ELSE p.heard
       IN  /\ \A i, j \in DOMAIN heard : heard[i] = heard[j] => i = j
           /\ \A r \in p.audience : Running(r) => \E i \in DOMAIN heard : heard[i] = r]_vars

\* client.c:133 offers "unsub - unsubscribe the client from a dispatcher": only
\* the client's own address should leave the table.
UnsubscribeKeepsOthers ==
  [][\A h \in Host : Listed(subs, h) /\ ~Listed(subs', h) =>
       \E c \in Client : HostOf[c] = h /\ Actor(c) /\ Req(c).op = "unsubscribe"]_vars

=============================================================================
