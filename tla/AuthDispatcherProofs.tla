------------------------ MODULE AuthDispatcherProofs ------------------------
(***************************************************************************)
(* Proofs about the VS05 dispatcher and its clients, for every set of      *)
(* clients, hosts and users, every size of the table and every number of   *)
(* logins, timeouts and killed processes: types, that the server does not  *)
(* run off its list of sessions, what a login is good for, that the table  *)
(* agrees with the receivers, and whom a publish reaches.                  *)
(***************************************************************************)
EXTENDS AuthDispatcher, SharedProofs, TLAPS

Signed == {"subscribe", "unsubscribe", "publish", "set_channel"}

Refusals ==
  {"NO_SESSION_FOUND", "NO_ACCOUNT_FOUND", "WRONG_PASSWORD", "CORRUPTED_TRANSFER"}

\* The call under way is a publish that still heads its client's requests.
PublishInv ==
  \A i \in DOMAIN publishing :
    LET c == publishing[i].client IN
      queue[c] # <<>> /\ Head(queue[c]).op = "publish"

Typed == TypeOK /\ PublishInv

\* A session that waits for its password, and one that has passed.
Pending(id, u) == id \in DOMAIN sessions /\ sessions[id] = [user |-> u, validated |-> FALSE]
Valid(id, u)   == id \in DOMAIN sessions /\ sessions[id] = [user |-> u, validated |-> TRUE]

\* What stands in a client's connection, also after calls that were given up:
\* signed calls for its validated session, then at most one invalidate, then at
\* most one get_session; or a validate alone.
RequestInv(c, i) ==
  LET r == queue[c][i] IN
    /\ r.op = "get_session" =>
         /\ i = Len(queue[c]) /\ r.user = cred[c].user
         /\ at[c] \in {"get_session", "crashed", "killed"}
    /\ r.op = "validate" =>
         /\ Len(queue[c]) = 1 /\ at[c] \in {"validate", "crashed", "killed"}
         /\ r.id = key[c] /\ Pending(key[c], cred[c].user)
         /\ r.hash.cred = cred[c]
    /\ r.op = "invalidate" =>
         /\ r.id = key[c] /\ key[c] \in DOMAIN sessions /\ ~InMenu(c)
         /\ \A j \in (i + 1)..Len(queue[c]) : queue[c][j].op = "get_session"
    /\ r.op \in Signed =>
         /\ r.id = key[c] /\ Valid(key[c], r.hash.cred.user)
         /\ r.hash.cred.good /\ r.hash.cred.user \in Account
         /\ r.hash = Recomputed(r)

\* The operation a client at `where' waits for.
OperationAt(where) == IF where = "goodbye" THEN "invalidate" ELSE OperationOf(where)

ClientInv(c) ==
  /\ \A i \in DOMAIN queue[c] : RequestInv(c, i)
  /\ Waiting(c) /\ ~Answered(c) =>
       queue[c] # <<>> /\ queue[c][Len(queue[c])].op = OperationAt(at[c])
  /\ Answered(c) => queue[c] = <<>>
  /\ at[c] = "get_session" /\ Answered(c) => Pending(answer[c].id, cred[c].user)
  /\ at[c] = "validate" /\ answer[c].code = "OK" =>
       Valid(key[c], cred[c].user) /\ cred[c].good /\ cred[c].user \in Account
  /\ InMenu(c) => Valid(key[c], cred[c].user) /\ cred[c].good /\ cred[c].user \in Account
  /\ InMenu(c) \/ at[c] \in {"logout", "goodbye"} => answer[c].code \notin Refusals

\* No session belongs to two clients, nor to one and to a get_session answer that
\* another has not read yet.
KeyInv ==
  /\ \A c \in Client : key[c] \in 0..lastSid
  /\ \A c, d \in Client : c # d /\ key[c] = key[d] => key[c] = 0
  /\ \A c, d \in Client :
       at[c] = "get_session" /\ Answered(c) => key[d] # answer[c].id
  /\ \A c, d \in Client :
       at[c] = "get_session" /\ Answered(c) /\ at[d] = "get_session" /\ Answered(d)
         /\ c # d => answer[d].id # answer[c].id

LoginInv ==
  /\ server # "crashed"
  /\ \A c \in Client : ClientInv(c)
  /\ KeyInv

IInv == Typed /\ LoginInv

-----------------------------------------------------------------------------
(* Types.                                                                  *)

Place == Calls \cup Ended \cup {"new", "login", "menu"}

\* The calls: what is asked, what is answered, and where the clients are.
CallsTyped ==
  /\ queue \in [Client -> Seq(Request)]
  /\ answer \in [Client -> Answer]
  /\ at \in [Client -> Place]

Turn == [client : Client, next : 1..Len(subs), to : 0..Len(receivers),
         heard : Seq(1..Len(receivers)), audience : SUBSET (1..Len(receivers))]

LEMMA InitTyped == Init => Typed
<1> SUFFICES ASSUME Init PROVE Typed
  OBVIOUS
<1>1. (CHOOSE u \in User : TRUE) \in User
  BY ClientAssumption
<1>2. CallsTyped /\ cred \in [Client -> Credentials]
  BY <1>1 DEF Init, CallsTyped, Answer, NoAnswer, Place, Credentials
<1>3. subs \in Seq(Host) /\ Len(subs) <= MaxSubs /\ DOMAIN sessions \subseteq 1..lastSid
  BY LimitAssumption DEF Init
<1>4. ReceiversTypeOK /\ childPID \in [Client -> 0..Len(receivers)]
  BY DEF Init, ReceiversInit, ReceiversTypeOK
<1>5. publishing \in Seq(Turn) /\ Len(publishing) <= 1 /\ PublishInv
  BY DEF Init, PublishInv
<1> QED
  BY <1>2, <1>3, <1>4, <1>5 DEF Init, Typed, TypeOK, CallsTyped, Place, Turn

LEMMA TypedCalls == TypeOK => CallsTyped /\ publishing \in Seq(Turn)
BY DEF TypeOK, CallsTyped, Place, Turn

\* Asking adds a request at the end and leaves the other clients alone.
LEMMA AskEffect ==
  ASSUME CallsTyped, NEW c \in Client, NEW where \in Calls, NEW op \in Operations,
         NEW id \in Nat, NEW argument \in Argument, NEW hash \in Digest,
         Ask(c, where, op, id, argument, hash)
  PROVE  /\ CallsTyped'
         /\ \E r \in Request :
              /\ r.op = op /\ r.id = id /\ r.hash = hash /\ r.user = hash.cred.user
              /\ r.arg = XdrArgument(argument)
              /\ queue'[c] = Append(queue[c], r)
         /\ at'[c] = where /\ answer'[c] = NoAnswer
         /\ \A d \in Client \ {c} :
              queue'[d] = queue[d] /\ at'[d] = at[d] /\ answer'[d] = answer[d]
<1> DEFINE r == [op |-> op, user |-> hash.cred.user, id |-> id,
                 arg |-> XdrArgument(argument), hash |-> hash]
<1>1. XdrArgument(argument) \in Argument
  BY DEF XdrArgument, Argument, Texts
<1>2. hash.cred.user \in User
  BY DEF Digest, Credentials
<1>3. r \in Request
  BY <1>1, <1>2 DEF Request
<1>4. /\ r.op = op /\ r.id = id /\ r.hash = hash /\ r.user = hash.cred.user
      /\ r.arg = XdrArgument(argument)
  OBVIOUS
<1>5. queue' = [queue EXCEPT ![c] = Append(queue[c], r)]
  BY DEF Ask
<1>6. at' = [at EXCEPT ![c] = where] /\ answer' = [answer EXCEPT ![c] = NoAnswer]
  BY DEF Ask
<1>7. NoAnswer \in Answer /\ where \in Place
  BY DEF NoAnswer, Answer, Place
<1> HIDE DEF r
<1>8. Append(queue[c], r) \in Seq(Request)
  BY <1>3 DEF CallsTyped
<1>9. CallsTyped'
  BY <1>5, <1>6, <1>7, <1>8 DEF CallsTyped
<1> QED
  BY <1>3, <1>4, <1>5, <1>6, <1>9 DEF CallsTyped

LEMMA GoesEffect ==
  ASSUME CallsTyped, NEW c \in Client, NEW where \in Place, Goes(c, where)
  PROVE  /\ CallsTyped' /\ queue' = queue
         /\ at'[c] = where /\ answer'[c] = NoAnswer
         /\ \A d \in Client \ {c} : at'[d] = at[d] /\ answer'[d] = answer[d]
BY DEF Goes, CallsTyped, NoAnswer, Answer, Codes

LEMMA ReplyEffect ==
  ASSUME CallsTyped, NEW c \in Client, NEW code \in Codes, NEW id \in Nat,
         queue[c] # <<>>, Reply(c, code, id), at' = at
  PROVE  /\ CallsTyped'
         /\ queue'[c] = Tail(queue[c])
         /\ Waiting(c) /\ Len(queue[c]) = 1 =>
              answer'[c].code = code /\ answer'[c].id = id
         /\ ~(Waiting(c) /\ Len(queue[c]) = 1) => answer'[c] = answer[c]
         /\ \A d \in Client \ {c} : queue'[d] = queue[d] /\ answer'[d] = answer[d]
<1>1. queue' = [queue EXCEPT ![c] = Tail(queue[c])] /\ Tail(queue[c]) \in Seq(Request)
  BY DEF Reply, CallsTyped
<1>2. [code |-> code, id |-> id] \in Answer
  BY DEF Answer
<1>3. CASE Waiting(c) /\ Len(queue[c]) = 1
  <2>1. answer' = [answer EXCEPT ![c] = [code |-> code, id |-> id]]
    BY <1>3 DEF Reply
  <2> QED
    BY <1>1, <1>2, <1>3, <2>1 DEF CallsTyped
<1>4. CASE ~(Waiting(c) /\ Len(queue[c]) = 1)
  <2>1. answer' = answer
    BY <1>4 DEF Reply
  <2> QED
    BY <1>1, <1>4, <2>1 DEF CallsTyped
<1> QED
  BY <1>3, <1>4

LEMMA RegisterType ==
  ASSUME NEW s \in Seq(Host), Len(s) <= MaxSubs, NEW a \in Host
  PROVE  /\ Register(s, a, MaxSubs).subs \in Seq(Host)
         /\ Len(Register(s, a, MaxSubs).subs) <= MaxSubs
         /\ Register(s, a, MaxSubs).code \in Codes \ Refusals
BY RegisterResult, LimitAssumption DEF Codes, Refusals

LEMMA UnregisterType ==
  ASSUME NEW s \in Seq(Host), Len(s) <= MaxSubs, NEW a \in Host
  PROVE  /\ Unregister(s, a).subs \in Seq(Host)
         /\ Len(Unregister(s, a).subs) <= MaxSubs
         /\ Unregister(s, a).code \in Codes \ Refusals
<1>1. PICK t \in Seq(Host) : t = Unregister(s, a).subs /\ Len(t) <= Len(s)
  BY UnregisterResult
<1>2. Unregister(s, a).code \in Codes \ Refusals
  BY UnregisterResult DEF Codes, Refusals
<1> QED
  BY <1>1, <1>2, LimitAssumption

LEMMA CheckCodes == \A r : CheckSession(r) \in Refusals \cup {"OK"}
BY DEF CheckSession, Refusals

\* The publish under way stays what it is while receivers are forked or end.
LEMMA PublishingStays ==
  ASSUME TypeOK, publishing' = publishing, subs' = subs,
         Len(receivers') \in Nat, Len(receivers) <= Len(receivers')
  PROVE  publishing' \in Seq(Turn') /\ Len(publishing') <= 1
<1> DEFINE n == Len(receivers)
           m == Len(receivers')
           T == [client : Client, next : 1..Len(subs), to : 0..m,
                 heard : Seq(1..m), audience : SUBSET (1..m)]
<1>1. n \in Nat /\ m \in Nat /\ n <= m
  BY DEF TypeOK, ReceiversTypeOK
<1>2. Turn' = T
  BY DEF Turn
<1>3. Turn = [client : Client, next : 1..Len(subs), to : 0..n,
              heard : Seq(1..n), audience : SUBSET (1..n)]
  BY DEF Turn
<1> HIDE DEF n, m
<1>4. \A p \in Turn : p \in T
  <2> SUFFICES ASSUME NEW p \in Turn PROVE p \in T
    OBVIOUS
  <2>1. p.heard \in Seq(1..m)
    BY <1>1, <1>3
  <2>2. p.audience \in SUBSET (1..m) /\ p.to \in 0..m
    BY <1>1, <1>3
  <2> QED
    BY <1>3, <2>1, <2>2
<1> HIDE DEF T
<1>5. publishing \in Seq(Turn) /\ Len(publishing) <= 1
  BY TypedCalls DEF TypeOK
<1>6. publishing \in Seq(T)
  BY <1>4, <1>5
<1> QED
  BY <1>2, <1>5, <1>6

\* What a step of the server has to keep, when it starts no call.
LEMMA ServedType ==
  ASSUME Typed, CallsTyped', publishing = <<>>, publishing' = publishing,
         subs' \in Seq(Host), Len(subs') <= MaxSubs,
         topic' \in {"null", "uninitialised", "set"},
         DOMAIN sessions' \subseteq 1..lastSid', lastSid' \in Nat,
         \A s \in DOMAIN sessions' : sessions'[s] \in [user : User, validated : BOOLEAN],
         server' \in {"off", "up", "crashed"},
         UNCHANGED <<cred, key, childPID, processVars, boundVars>>
  PROVE  Typed'
<1>1. publishing' \in Seq(Turn') /\ Len(publishing') <= 1
  OBVIOUS
<1>2. PublishInv'
  BY DEF PublishInv
<1> QED
  BY <1>1, <1>2 DEF Typed, TypeOK, CallsTyped, Place, Turn, processVars, boundVars, ReceiversTypeOK

LEMMA HeadType ==
  ASSUME CallsTyped, NEW c \in Client, queue[c] # <<>>
  PROVE  Req(c) \in Request
BY DEF CallsTyped, Req

LEMMA DeleteType ==
  ASSUME Typed, NEW c \in Client, queue[c] # <<>>, at' = at, NEW id,
         NEW found \in Codes, NEW missing \in Codes,
         DeleteSession(c, id, found, missing)
  PROVE  /\ CallsTyped' /\ server' \in {"off", "up", "crashed"}
         /\ DOMAIN sessions' \subseteq DOMAIN sessions
         /\ \A s \in DOMAIN sessions' : sessions'[s] = sessions[s]
<1>0. CallsTyped
  BY TypedCalls DEF Typed
<1>1. CASE id \in DOMAIN sessions
  <2>1. sessions' = SessionsWithout(id) /\ Reply(c, found, 0) /\ server' = server
    BY <1>1 DEF DeleteSession, ReplyCode
  <2> QED
    BY <1>0, <2>1, ReplyEffect DEF SessionsWithout, Typed, TypeOK
<1>2. CASE id \notin DOMAIN sessions /\ lastSid = 0
  <2>1. sessions' = sessions /\ Reply(c, missing, 0) /\ server' = server
    BY <1>2 DEF DeleteSession, ReplyCode
  <2> QED
    BY <1>0, <2>1, ReplyEffect DEF Typed, TypeOK
<1>3. CASE id \notin DOMAIN sessions /\ lastSid # 0
  BY <1>0, <1>3 DEF DeleteSession, CallsTyped
<1> QED
  BY <1>1, <1>2, <1>3

LEMMA ServeTyped ==
  ASSUME Typed, NEW c \in Client, Serve(c)
  PROVE  Typed'
<1>0. /\ CallsTyped /\ 0 \in Nat /\ Refusals \cup {"OK"} \subseteq Codes
      /\ subs \in Seq(Host) /\ Len(subs) <= MaxSubs
      /\ topic \in {"null", "uninitialised", "set"} /\ server \in {"off", "up", "crashed"}
      /\ DOMAIN sessions \subseteq 1..lastSid /\ lastSid \in Nat
      /\ \A s \in DOMAIN sessions : sessions[s] \in [user : User, validated : BOOLEAN]
      /\ HostOf[c] \in Host
  BY TypedCalls, ClientAssumption DEF Typed, TypeOK, Refusals, Codes
<1>1. ASSUME NEW op, Serving(c, op)
      PROVE  queue[c] # <<>> /\ publishing = <<>> /\ server = "up" /\ Req(c) \in Request
             /\ Req(c).op = op
  BY <1>0, <1>1, HeadType DEF Serving, Req
<1>2. CASE ServeGetSession(c)
  <2> DEFINE sid == lastSid + 1
  <2>1. /\ sid \in Nat /\ lastSid' = lastSid + 1 /\ Reply(c, "OK", sid)
        /\ InsertSession(sid, Req(c).user) /\ at' = at
    BY <1>0, <1>2 DEF ServeGetSession, NextSid, clientVars
  <2> HIDE DEF sid
  <2>2. CallsTyped'
    BY <1>0, <1>1, <1>2, <2>1, ReplyEffect DEF ServeGetSession
  <2>3. Req(c).user \in User
    BY <1>1, <1>2 DEF ServeGetSession, Request
  <2>4. /\ DOMAIN sessions' \subseteq 1..lastSid'
        /\ \A s \in DOMAIN sessions' : sessions'[s] \in [user : User, validated : BOOLEAN]
    BY <1>0, <2>1, <2>3 DEF InsertSession, sid
  <2> QED
    BY <1>0, <1>1, <1>2, <2>1, <2>2, <2>4, ServedType
    DEF ServeGetSession, tableVars, clientVars
<1>3. CASE ServeValidate(c)
  <2> DEFINE code == CheckSession(Req(c))
  <2>1. code \in Codes /\ at' = at
    BY <1>0, <1>3, CheckCodes DEF ServeValidate, clientVars
  <2>2. CASE code = "OK"
    <3>1. Req(c).id \in DOMAIN sessions
      BY <2>2 DEF CheckSession, SearchSession
    <3>2. ValidateSession(Req(c).id) /\ Reply(c, "OK", 0) /\ server' = server
      BY <1>3, <2>2 DEF ServeValidate, ReplyCode
    <3>3. CallsTyped'
      BY <1>0, <1>1, <1>3, <2>1, <3>2, ReplyEffect DEF ServeValidate
    <3>4. /\ DOMAIN sessions' = DOMAIN sessions
          /\ \A s \in DOMAIN sessions' : sessions'[s] \in [user : User, validated : BOOLEAN]
      BY <1>0, <3>1, <3>2 DEF ValidateSession
    <3> QED
      BY <1>0, <1>1, <1>3, <3>2, <3>3, <3>4, ServedType DEF ServeValidate, tableVars, clientVars
  <2>3. CASE code # "OK"
    <3>1. DeleteSession(c, Req(c).id, code, code)
      BY <1>3, <2>3 DEF ServeValidate
    <3> HIDE DEF code
    <3>2. /\ CallsTyped' /\ server' \in {"off", "up", "crashed"}
          /\ DOMAIN sessions' \subseteq DOMAIN sessions
          /\ \A s \in DOMAIN sessions' : sessions'[s] = sessions[s]
      BY <1>1, <1>3, <2>1, <3>1, DeleteType DEF ServeValidate
    <3> QED
      BY <1>0, <1>1, <1>3, <3>2, ServedType DEF ServeValidate, tableVars, clientVars
  <2> QED
    BY <2>2, <2>3
<1>4. CASE ServeInvalidate(c)
  <2>1. at' = at /\ DeleteSession(c, Req(c).id, "OK", "NO_SESSION_FOUND")
    BY <1>4 DEF ServeInvalidate, clientVars
  <2>2. /\ CallsTyped' /\ server' \in {"off", "up", "crashed"}
        /\ DOMAIN sessions' \subseteq DOMAIN sessions
        /\ \A s \in DOMAIN sessions' : sessions'[s] = sessions[s]
    BY <1>1, <1>4, <2>1, DeleteType DEF ServeInvalidate, Codes
  <2> QED
    BY <1>0, <1>1, <1>4, <2>2, ServedType DEF ServeInvalidate, tableVars, clientVars
<1>5. ASSUME NEW op, NEW new, ServeTable(c, op, new), new.code \in Codes,
             new.subs \in Seq(Host), Len(new.subs) <= MaxSubs
      PROVE  Typed'
  <2> DEFINE code == CheckSession(Req(c))
  <2>1. code \in Codes /\ at' = at
    BY <1>0, <1>5, CheckCodes DEF ServeTable, clientVars
  <2>2. CASE code = "OK"
    <3>1. subs' = new.subs /\ Reply(c, new.code, 0)
      BY <1>5, <2>2 DEF ServeTable, ReplyCode
    <3>2. CallsTyped'
      BY <1>0, <1>1, <1>5, <2>1, <3>1, ReplyEffect DEF ServeTable
    <3> QED
      BY <1>0, <1>1, <1>5, <3>1, <3>2, ServedType DEF ServeTable, sessionVars, clientVars
  <2>3. CASE code # "OK"
    <3>1. subs' = subs /\ Reply(c, code, 0)
      BY <1>5, <2>3 DEF ServeTable, ReplyCode
    <3> HIDE DEF code
    <3>2. CallsTyped'
      BY <1>0, <1>1, <1>5, <2>1, <3>1, ReplyEffect DEF ServeTable
    <3> QED
      BY <1>0, <1>1, <1>5, <3>1, <3>2, ServedType DEF ServeTable, sessionVars, clientVars
  <2> QED
    BY <2>2, <2>3
<1>6. CASE ServeSubscribe(c)
  BY <1>0, <1>5, <1>6, RegisterType DEF ServeSubscribe
<1>7. CASE ServeUnsubscribe(c)
  BY <1>0, <1>5, <1>7, UnregisterType DEF ServeUnsubscribe
<1>8. CASE ServeSetChannel(c)
  <2>1. at' = at
    BY <1>8 DEF ServeSetChannel, clientVars
  <2>2. \E code \in Codes : Reply(c, code, 0)
    BY <1>0, <1>8, CheckCodes DEF ServeSetChannel, ReplyCode, Codes
  <2>3. CallsTyped'
    BY <1>0, <1>1, <1>8, <2>1, <2>2, ReplyEffect DEF ServeSetChannel
  <2>4. topic' \in {"null", "uninitialised", "set"}
    BY <1>0, <1>8 DEF ServeSetChannel
  <2> QED
    BY <1>0, <1>1, <1>8, <2>3, <2>4, ServedType DEF ServeSetChannel, sessionVars, clientVars
<1>9. CASE ServePublish(c)
  <2>1. at' = at /\ UNCHANGED <<tableVars, sessionVars, server, clientVars, processVars, boundVars>>
    BY <1>9 DEF ServePublish, clientVars
  <2>2. CASE CheckSession(Req(c)) = "OK" /\ subs # <<>>
    <3> DEFINE A == {childPID[d] : d \in {e \in Client : Settled(e)}}
               p == [client |-> c, next |-> 1, to |-> 0, heard |-> <<>>, audience |-> A]
    <3>1. publishing' = <<p>> /\ UNCHANGED <<queue, answer>>
      BY <1>9, <2>2 DEF ServePublish
    <3>2. A \subseteq 1..Len(receivers)
      BY DEF Settled, Typed, TypeOK
    <3>3. 1 \in 1..Len(subs)
      BY <1>0, <2>2
    <3> HIDE DEF A
    <3>4. 0 \in 0..Len(receivers) /\ <<>> \in Seq(1..Len(receivers))
      BY DEF Typed, TypeOK, ReceiversTypeOK
    <3>5. p \in Turn
      BY <3>2, <3>3, <3>4 DEF Turn
    <3>6. p.client = c
      OBVIOUS
    <3> HIDE DEF p
    <3>7. publishing' \in Seq(Turn) /\ Len(publishing') <= 1
      BY <3>1, <3>5
    <3>8. PublishInv'
      BY <1>1, <1>9, <3>1, <3>6 DEF PublishInv, ServePublish, Req
    <3>9. Turn' = Turn
      BY <2>1 DEF Turn, tableVars, processVars
    <3> QED
      BY <2>1, <3>1, <3>7, <3>8, <3>9
      DEF Typed, TypeOK, Turn, tableVars, sessionVars, clientVars, processVars, boundVars,
          ReceiversTypeOK
  <2>3. CASE ~(CheckSession(Req(c)) = "OK" /\ subs # <<>>)
    <3>1. \E code \in Codes : Reply(c, code, 0)
      BY <1>0, <1>9, <2>3, CheckCodes DEF ServePublish, ReplyCode, Codes
    <3>2. CallsTyped' /\ publishing' = publishing
      BY <1>0, <1>1, <1>9, <2>1, <2>3, <3>1, ReplyEffect DEF ServePublish, clientVars
    <3> QED
      BY <1>0, <1>1, <1>9, <2>1, <3>2, ServedType
      DEF ServePublish, tableVars, sessionVars, clientVars
  <2> QED
    BY <2>2, <2>3
<1> QED
  BY <1>2, <1>3, <1>4, <1>6, <1>7, <1>8, <1>9 DEF Serve

LEMMA AtMostOne ==
  ASSUME NEW S, NEW s \in Seq(S), s # <<>>, Len(s) <= 1
  PROVE  Len(s) = 1 /\ 1 \in DOMAIN s /\ Head(s) = s[1] /\ Head(s) \in S
<1>1. Len(s) \in Nat /\ DOMAIN s = 1..Len(s)
  OBVIOUS
<1>2. Len(s) # 0
  OBVIOUS
<1>3. Len(s) = 1
  BY <1>1, <1>2
<1> QED
  BY <1>1, <1>3

\* A turn of publish ends: the next one begins, or the caller is answered.
LEMMA TurnTyped ==
  ASSUME Typed, publishing # <<>>, NEW p \in Turn, NEW code \in Codes,
         p.client = Head(publishing).client, p.next = Head(publishing).next,
         TurnEnds(p, code),
         UNCHANGED <<tableVars, sessionVars, server, clientVars, processVars, boundVars>>
  PROVE  Typed'
<1>0. /\ CallsTyped /\ publishing \in Seq(Turn) /\ Len(publishing) = 1
      /\ queue[p.client] # <<>> /\ Head(queue[p.client]).op = "publish"
      /\ p.client \in Client /\ Head(publishing) = publishing[1] /\ at' = at
      /\ 0 \in Nat
  <2>1. CallsTyped /\ publishing \in Seq(Turn) /\ Len(publishing) <= 1
    BY TypedCalls DEF Typed, TypeOK
  <2>2. Len(publishing) = 1 /\ 1 \in DOMAIN publishing /\ Head(publishing) = publishing[1]
    BY <2>1, AtMostOne
  <2>3. queue[p.client] # <<>> /\ Head(queue[p.client]).op = "publish"
    BY <2>2 DEF Typed, PublishInv
  <2> QED
    BY <2>1, <2>2, <2>3 DEF Turn, clientVars
<1>1. Turn' = Turn
  BY DEF Turn, tableVars, processVars
<1>2. CASE LastTurn(p, code)
  <2>1. Reply(p.client, code, 0) /\ publishing' = <<>>
    BY <1>2 DEF TurnEnds, ReplyCode
  <2>2. CallsTyped'
    BY <1>0, <2>1, ReplyEffect
  <2>3. PublishInv' /\ publishing' \in Seq(Turn) /\ Len(publishing') <= 1
    BY <2>1 DEF PublishInv
  <2> QED
    BY <1>1, <2>2, <2>3
    DEF Typed, TypeOK, CallsTyped, Place, Turn, tableVars, sessionVars, clientVars,
        processVars, boundVars, ReceiversTypeOK
<1>3. CASE ~LastTurn(p, code)
  <2> DEFINE q == [p EXCEPT !.next = p.next + 1, !.to = 0]
  <2>1. publishing' = <<q>> /\ queue' = queue /\ answer' = answer
    BY <1>3 DEF TurnEnds
  <2>2. q \in Turn
    <3>1. p.next \in 1..Len(subs) /\ p.next # Len(subs) /\ Len(subs) \in Nat
      BY <1>3 DEF Turn, LastTurn, Typed, TypeOK
    <3>2. p.next + 1 \in 1..Len(subs)
      BY <3>1
    <3>3. 0 \in 0..Len(receivers)
      BY DEF Typed, TypeOK, ReceiversTypeOK
    <3> QED
      BY <3>2, <3>3 DEF Turn
  <2>3. q.client = p.client
    BY DEF Turn
  <2> HIDE DEF q
  <2>4. publishing' \in Seq(Turn) /\ Len(publishing') <= 1
    BY <2>1, <2>2
  <2>5. PublishInv'
    BY <1>0, <2>1, <2>3 DEF PublishInv
  <2> QED
    BY <1>0, <1>1, <2>1, <2>4, <2>5
    DEF Typed, TypeOK, CallsTyped, Place, Turn, tableVars, sessionVars, clientVars,
        processVars, boundVars, ReceiversTypeOK
<1> QED
  BY <1>2, <1>3

\* What all three steps of a delivery have in common.
LEMMA DeliverCases ==
  ASSUME Typed, Deliver
  PROVE  /\ publishing # <<>> /\ Head(publishing) \in Turn
         /\ UNCHANGED <<tableVars, sessionVars, server, clientVars, processVars, boundVars>>
         /\ \/ \E p \in Turn, code \in {"OK", "UNKNOWN_ERROR"} :
                 /\ p.client = Head(publishing).client /\ p.next = Head(publishing).next
                 /\ TurnEnds(p, code)
            \/ /\ UNCHANGED <<queue, answer>>
               /\ \E p \in Turn : publishing' = <<p>> /\ p.client = Head(publishing).client
<1> DEFINE h == Head(publishing)
<1>1. publishing # <<>> /\ publishing \in Seq(Turn)
  BY TypedCalls DEF Typed, Deliver, Contact, Receive, DeliveryFails
<1>2. h \in Turn
  BY <1>1
<1>3. UNCHANGED <<tableVars, sessionVars, server, clientVars, processVars, boundVars>>
  BY DEF Deliver, Contact, Receive, DeliveryFails
<1> HIDE DEF h
<1>4. CASE Contact
  <2> DEFINE a == subs[h.next]
             q == [h EXCEPT !.to = portmap[a]]
  <2>1. CASE Reachable(a)
    <3>1. publishing' = <<q>> /\ UNCHANGED <<queue, answer>>
      BY <1>4, <2>1 DEF Contact, h
    <3>2. a \in Host
      BY <1>2 DEF Turn, Typed, TypeOK
    <3>3. portmap[a] \in 0..Len(receivers)
      BY <3>2 DEF Typed, TypeOK, ReceiversTypeOK
    <3>4. q \in Turn /\ q.client = h.client
      BY <1>2, <3>3 DEF Turn
    <3> QED
      BY <1>1, <1>2, <1>3, <3>1, <3>4 DEF h
  <2>2. CASE ~Reachable(a)
    <3>1. TurnEnds(h, "UNKNOWN_ERROR")
      BY <1>4, <2>2 DEF Contact, h
    <3> QED
      BY <1>1, <1>2, <1>3, <3>1 DEF h
  <2> QED
    BY <2>1, <2>2
<1>5. CASE Receive
  <2> DEFINE q == Shown(h)
  <2>1. TurnEnds(q, "OK") /\ h.to # 0
    BY <1>5 DEF Receive, h
  <2>2. h.to \in 1..Len(receivers)
    BY <1>2, <2>1 DEF Turn, Typed, TypeOK, ReceiversTypeOK
  <2>3. Append(h.heard, h.to) \in Seq(1..Len(receivers))
    BY <1>2, <2>2 DEF Turn
  <2>4. q \in Turn /\ q.client = h.client /\ q.next = h.next
    BY <1>2, <2>3 DEF Turn, Shown
  <2> HIDE DEF q
  <2> QED
    BY <1>1, <1>2, <1>3, <2>1, <2>4 DEF h
<1>6. CASE DeliveryFails
  <2>1. TurnEnds(h, "OK")
    BY <1>6 DEF DeliveryFails, h
  <2> QED
    BY <1>1, <1>2, <1>3, <2>1 DEF h
<1> QED
  BY <1>4, <1>5, <1>6 DEF Deliver

LEMMA DeliverTyped ==
  ASSUME Typed, Deliver
  PROVE  Typed'
<1>1. /\ publishing # <<>> /\ Head(publishing) \in Turn
      /\ UNCHANGED <<tableVars, sessionVars, server, clientVars, processVars, boundVars>>
  BY DeliverCases
<1>2. ASSUME NEW p \in Turn, NEW code \in {"OK", "UNKNOWN_ERROR"},
             p.client = Head(publishing).client, p.next = Head(publishing).next,
             TurnEnds(p, code)
      PROVE  Typed'
  <2>1. code \in Codes
    BY DEF Codes
  <2> QED
    BY <1>1, <1>2, <2>1, TurnTyped
<1>3. ASSUME UNCHANGED <<queue, answer>>, NEW p \in Turn,
             publishing' = <<p>>, p.client = Head(publishing).client
      PROVE  Typed'
  <2>1. Turn' = Turn
    BY <1>1 DEF Turn, tableVars, processVars
  <2>2. publishing' \in Seq(Turn) /\ Len(publishing') <= 1
    BY <1>3
  <2>3. publishing \in Seq(Turn) /\ 1 \in DOMAIN publishing /\ Head(publishing) = publishing[1]
    BY <1>1, TypedCalls, AtMostOne DEF Typed, TypeOK
  <2>4. PublishInv'
    BY <1>3, <2>3 DEF Typed, PublishInv
  <2> QED
    BY <1>1, <1>3, <2>1, <2>2, <2>4
    DEF Typed, TypeOK, Turn, tableVars, sessionVars, clientVars, processVars, boundVars,
        ReceiversTypeOK
<1> QED
  BY <1>2, <1>3, DeliverCases

\* Requests are only added.
Keeps == \A d \in Client :
  queue[d] # <<>> => queue'[d] # <<>> /\ Head(queue'[d]) = Head(queue[d])

LEMMA ClientTyped ==
  ASSUME Typed, CallsTyped', Keeps, publishing' = publishing,
         cred' \in [Client -> Credentials], key' \in [Client -> Nat],
         ReceiversTypeOK', Len(receivers) <= Len(receivers'),
         childPID' \in [Client -> 0..Len(receivers')],
         logins' \in Nat, faults' \in [FaultKind -> Nat],
         UNCHANGED <<tableVars, sessionVars, server>>
  PROVE  Typed'
<1>1. publishing' \in Seq(Turn') /\ Len(publishing') <= 1
  BY PublishingStays DEF Typed, tableVars, ReceiversTypeOK
<1>2. publishing \in Seq(Turn)
  BY TypedCalls DEF Typed
<1>3. PublishInv'
  <2>1. \A p \in Turn : p.client \in Client
    BY DEF Turn
  <2>2. \A i \in DOMAIN publishing : publishing[i].client \in Client
    BY <1>2, <2>1
  <2> QED
    BY <2>2 DEF Keeps, Typed, PublishInv
<1> QED
  BY <1>1, <1>3 DEF Typed, TypeOK, CallsTyped, Place, Turn, tableVars, sessionVars

LEMMA AskKeeps ==
  ASSUME CallsTyped, NEW c \in Client, NEW r \in Request,
         queue'[c] = Append(queue[c], r), \A d \in Client \ {c} : queue'[d] = queue[d]
  PROVE  Keeps
<1>1. queue[c] \in Seq(Request)
  BY DEF CallsTyped
<1>2. queue[c] # <<>> => queue'[c] # <<>> /\ Head(queue'[c]) = Head(queue[c])
  BY <1>1
<1> QED
  BY <1>2 DEF Keeps

LEMMA AskTyped ==
  ASSUME CallsTyped, NEW c \in Client, NEW where \in Calls, NEW op \in Operations,
         NEW id \in Nat, NEW argument \in Argument, NEW hash \in Digest,
         Ask(c, where, op, id, argument, hash)
  PROVE  CallsTyped' /\ Keeps
<1>1. PICK r \in Request : queue'[c] = Append(queue[c], r)
  BY AskEffect
<1>2. CallsTyped' /\ \A d \in Client \ {c} : queue'[d] = queue[d]
  BY AskEffect
<1> QED
  BY <1>1, <1>2, AskKeeps

LEMMA HashType ==
  ASSUME NEW id \in Nat, NEW argument \in Argument, NEW credentials \in Credentials
  PROVE  HashParam(id, argument, credentials) \in Digest
BY DEF HashParam, Argument, Digest, Texts

LEMMA NoTextType == NoText \in Argument
BY DEF NoText, Argument, Arm, Texts

LEMMA ArgumentType == \A choice : ArgumentOf(choice) \in Argument
BY DEF ArgumentOf, NoText, Argument, Arm, Texts

LEMMA MenuTypes ==
  ASSUME NEW choice \in Menu
  PROVE  choice \in Calls /\ OperationOf(choice) \in Signed \cup {"invalidate"}
BY LimitAssumption DEF MenuChoice, Calls, Signed, OperationOf

\* A signed request, as everything but the login sends it.
LEMMA SignedEffect ==
  ASSUME Typed, NEW c \in Client, NEW where \in Calls,
         NEW op \in Signed \cup {"invalidate"}, NEW argument \in Argument,
         AskSigned(c, where, op, argument)
  PROVE  /\ CallsTyped' /\ Keeps
         /\ \E r \in Request :
              /\ r.op = op /\ r.id = key[c] /\ r.user = cred[c].user
              /\ r.arg = XdrArgument(argument)
              /\ r.hash = HashParam(key[c], argument, cred[c])
              /\ queue'[c] = Append(queue[c], r)
         /\ at'[c] = where /\ answer'[c] = NoAnswer
         /\ \A d \in Client \ {c} :
              queue'[d] = queue[d] /\ at'[d] = at[d] /\ answer'[d] = answer[d]
<1> DEFINE hash == HashParam(key[c], argument, cred[c])
<1>1. CallsTyped /\ key[c] \in Nat /\ op \in Operations /\ cred[c] \in Credentials
  BY TypedCalls DEF Typed, TypeOK, Operations, Signed
<1>2. hash \in Digest /\ hash.cred = cred[c]
  BY <1>1, HashType DEF HashParam
<1>3. Ask(c, where, op, key[c], argument, hash)
  BY DEF AskSigned
<1> HIDE DEF hash
<1>4. PICK id \in Nat : id = key[c]
  BY <1>1
<1>5. PICK hs \in Digest : hs = hash
  BY <1>2
<1>6. Ask(c, where, op, id, argument, hs)
  BY <1>3, <1>4, <1>5
<1>7. /\ CallsTyped'
      /\ \E r \in Request :
              /\ r.op = op /\ r.id = id /\ r.hash = hs /\ r.user = hs.cred.user
              /\ r.arg = XdrArgument(argument)
              /\ queue'[c] = Append(queue[c], r)
      /\ at'[c] = where /\ answer'[c] = NoAnswer
      /\ \A d \in Client \ {c} :
              queue'[d] = queue[d] /\ at'[d] = at[d] /\ answer'[d] = answer[d]
  BY <1>1, <1>6, AskEffect
<1>8. Keeps
  BY <1>1, <1>7, AskKeeps
<1> QED
  BY <1>2, <1>4, <1>5, <1>7, <1>8 DEF hash

LEMMA EndType ==
  ASSUME ReceiversTypeOK, NEW p \in 1..Len(receivers), End(p), portmap' = portmap
  PROVE  ReceiversTypeOK' /\ Len(receivers') = Len(receivers)
<1>1. portmap' \in [Host -> 0..Len(receivers)]
  BY DEF ReceiversTypeOK
<1> QED
  BY <1>1, StateChange DEF End

LEMMA FaultType ==
  ASSUME Typed, NEW k \in FaultKind, Fault(k)
  PROVE  faults' \in [FaultKind -> Nat] /\ logins' \in Nat
BY DEF Fault, Typed, TypeOK

LEMMA ClientStepTyped ==
  ASSUME Typed, NEW c \in Client,
         Connect(c) \/ Login(c) \/ Choose(c) \/ Got(c) \/ TimeOut(c) \/ Kill(c)
  PROVE  Typed'
<1>0. /\ CallsTyped /\ ReceiversTypeOK /\ cred \in [Client -> Credentials]
      /\ key \in [Client -> Nat] /\ childPID \in [Client -> 0..Len(receivers)]
      /\ logins \in Nat /\ faults \in [FaultKind -> Nat] /\ Len(receivers) \in Nat
      /\ at[c] \in Place /\ answer[c] \in Answer
  BY TypedCalls DEF Typed, TypeOK, CallsTyped, ReceiversTypeOK
<1>1. ASSUME NEW where \in Place, Goes(c, where) PROVE CallsTyped' /\ Keeps
  BY <1>0, <1>1, GoesEffect DEF Keeps
<1>2. CASE Connect(c)
  <2>1. CallsTyped' /\ Keeps
    BY <1>1, <1>2 DEF Connect, Place, Ended
  <2> QED
    BY <1>0, <1>2, <2>1, ClientTyped DEF Connect, processVars, boundVars, ReceiversTypeOK
<1>3. CASE Login(c)
  <2>1. PICK u \in User, good \in BOOLEAN :
          /\ cred' = [cred EXCEPT ![c] = [user |-> u, good |-> good]]
          /\ Ask(c, "get_session", "get_session", 0, NoText,
                 HashParam(0, NoText, [user |-> u, good |-> good]))
    BY <1>3 DEF Login
  <2>2. PICK cr \in Credentials : cr = [user |-> u, good |-> good]
    BY DEF Credentials
  <2>3. PICK hash \in Digest : hash = HashParam(0, NoText, cr)
    BY HashType, NoTextType
  <2>4. Ask(c, "get_session", "get_session", 0, NoText, hash)
    BY <2>1, <2>2, <2>3
  <2>5. CallsTyped' /\ Keeps
    <3>1. "get_session" \in Calls /\ "get_session" \in Operations /\ 0 \in Nat
      BY DEF Calls, Operations
    <3> QED
      BY <1>0, <2>4, <3>1, AskTyped, NoTextType
  <2>6. cred' \in [Client -> Credentials]
    BY <1>0, <2>1, <2>2
  <2> QED
    BY <1>0, <1>3, <2>5, <2>6, ClientTyped DEF Login, processVars, ReceiversTypeOK
<1>4. CASE Choose(c)
  <2>1. PICK choice \in Menu : AskSigned(c, choice, OperationOf(choice), ArgumentOf(choice))
    BY <1>4 DEF Choose
  <2>2. PICK op \in Signed \cup {"invalidate"} : op = OperationOf(choice)
    BY MenuTypes
  <2>3. PICK argument \in Argument : argument = ArgumentOf(choice)
    BY ArgumentType
  <2>4. CallsTyped' /\ Keeps
    BY <2>1, <2>2, <2>3, MenuTypes, SignedEffect
  <2> QED
    BY <1>0, <1>4, <2>4, ClientTyped DEF Choose, processVars, boundVars, ReceiversTypeOK
<1>5. CASE GotSession(c)
  <2>1. PICK arm \in Arm :
          Ask(c, "validate", "validate", answer[c].id, [arm |-> arm, text |-> ""],
              HashParam(answer[c].id, NoText, cred[c]))
    BY <1>5 DEF GotSession
  <2>2. PICK id \in Nat : id = answer[c].id
    BY <1>0 DEF Answer
  <2>3. PICK hash \in Digest : hash = HashParam(id, NoText, cred[c])
    BY <1>0, HashType, NoTextType
  <2>4. PICK argument \in Argument : argument = [arm |-> arm, text |-> ""]
    BY DEF Argument, Texts
  <2>5. Ask(c, "validate", "validate", id, argument, hash)
    BY <2>1, <2>2, <2>3, <2>4
  <2>6. CallsTyped' /\ Keeps
    <3>1. "validate" \in Calls /\ "validate" \in Operations
      BY DEF Calls, Operations
    <3> QED
      BY <1>0, <2>5, <3>1, AskTyped
  <2>7. key' \in [Client -> Nat]
    BY <1>0, <1>5, <2>2 DEF GotSession
  <2>8. UNCHANGED <<tableVars, sessionVars, publishing, server, cred, childPID, processVars,
                    boundVars>>
    BY <1>5 DEF GotSession
  <2> QED
    BY <1>0, <2>6, <2>7, <2>8, ClientTyped DEF processVars, boundVars, ReceiversTypeOK
<1>6. CASE GotValidate(c)
  <2>1. CallsTyped' /\ Keeps
    BY <1>1, <1>6 DEF GotValidate, Place
  <2> QED
    BY <1>0, <1>6, <2>1, ClientTyped DEF GotValidate, processVars, boundVars, ReceiversTypeOK
<1>7. CASE GotSubscribe(c)
  <2>1. CallsTyped' /\ Keeps
    BY <1>1, <1>7 DEF GotSubscribe, Place
  <2>2. CASE answer[c].code = "OK"
    <3> DEFINE p == [host |-> HostOf[c], state |-> "forked"]
    <3>1. receivers' = Append(receivers, p)
      BY <1>7, <2>2 DEF GotSubscribe, Fork
    <3>2. p \in [host : Host, state : {"forked", "serving", "ended"}]
      BY ClientAssumption
    <3> HIDE DEF p
    <3>3. /\ receivers' \in Seq([host : Host, state : {"forked", "serving", "ended"}])
          /\ Len(receivers') = Len(receivers) + 1
      BY <1>0, <3>1, <3>2 DEF ReceiversTypeOK
    <3>4. portmap' = portmap /\ childPID' = [childPID EXCEPT ![c] = Len(receivers')]
      BY <1>7, <2>2 DEF GotSubscribe
    <3>5. ReceiversTypeOK'
      BY <1>0, <3>3, <3>4 DEF ReceiversTypeOK
    <3>6. childPID' \in [Client -> 0..Len(receivers')]
      BY <1>0, <3>3, <3>4
    <3> QED
      BY <1>0, <1>7, <2>1, <3>3, <3>5, <3>6, ClientTyped DEF GotSubscribe, boundVars
  <2>3. CASE answer[c].code # "OK"
    BY <1>0, <1>7, <2>1, <2>3, ClientTyped DEF GotSubscribe, boundVars, ReceiversTypeOK
  <2> QED
    BY <2>2, <2>3
<1>8. CASE GotUnsubscribe(c)
  <2>1. CallsTyped' /\ Keeps
    <3>1. CASE at[c] = "leave"
      <4>1. AskSigned(c, "goodbye", "invalidate", NoText)
        BY <1>8, <3>1 DEF GotUnsubscribe
      <4> QED
        BY <4>1, SignedEffect, NoTextType DEF Calls
    <3>2. CASE at[c] # "leave"
      BY <1>1, <1>8, <3>2 DEF GotUnsubscribe, Place
    <3> QED
      BY <3>1, <3>2
  <2>2. ReceiversTypeOK' /\ Len(receivers') = Len(receivers)
    <3>1. CASE childPID[c] # 0 /\ answer[c].code = "OK"
      <4>1. End(childPID[c]) /\ portmap' = portmap
        BY <1>8, <3>1 DEF GotUnsubscribe
      <4>2. PICK p \in 1..Len(receivers) : p = childPID[c]
        BY <1>0, <3>1
      <4> QED
        BY <1>0, <4>1, <4>2, EndType
    <3>2. CASE ~(childPID[c] # 0 /\ answer[c].code = "OK")
      BY <1>0, <1>8, <3>2 DEF GotUnsubscribe, ReceiversTypeOK
    <3> QED
      BY <3>1, <3>2
  <2> QED
    BY <1>0, <1>8, <2>1, <2>2, ClientTyped DEF GotUnsubscribe, boundVars
<1>9. CASE GotOther(c)
  <2>1. CallsTyped' /\ Keeps
    BY <1>1, <1>9 DEF GotOther, Place, Ended
  <2> QED
    BY <1>0, <1>9, <2>1, ClientTyped DEF GotOther, processVars, boundVars, ReceiversTypeOK
<1>10. CASE TimeOut(c)
  <2>1. CallsTyped' /\ Keeps
    <3>1. CASE at[c] = "leave" /\ childPID[c] = 0
      <4>1. AskSigned(c, "goodbye", "invalidate", NoText)
        BY <1>10, <3>1 DEF TimeOut, AfterNull
      <4> QED
        BY <4>1, SignedEffect, NoTextType DEF Calls
    <3>2. CASE ~(at[c] = "leave" /\ childPID[c] = 0)
      <4>1. \E where \in {"menu", "login", "exited", "crashed"} : Goes(c, where)
        BY <1>10, <3>2 DEF TimeOut, AfterNull
      <4> QED
        BY <1>1, <4>1 DEF Place, Ended
    <3> QED
      BY <3>1, <3>2
  <2>2. faults' \in [FaultKind -> Nat] /\ logins' \in Nat
    BY <1>10, FaultType DEF TimeOut, FaultKind
  <2> QED
    BY <1>0, <1>10, <2>1, <2>2, ClientTyped DEF TimeOut, processVars, ReceiversTypeOK
<1>11. CASE Kill(c)
  <2>1. CallsTyped' /\ Keeps
    BY <1>1, <1>11 DEF Kill, Place, Ended
  <2>2. ReceiversTypeOK' /\ Len(receivers') = Len(receivers)
    <3>1. CASE UNCHANGED receivers
      BY <1>0, <1>11, <3>1 DEF Kill, ReceiversTypeOK
    <3>2. CASE childPID[c] # 0 /\ End(childPID[c])
      <4>1. PICK p \in 1..Len(receivers) : p = childPID[c]
        BY <1>0, <3>2
      <4> QED
        BY <1>0, <1>11, <3>2, <4>1, EndType DEF Kill
    <3> QED
      BY <1>11, <3>1, <3>2 DEF Kill
  <2>3. faults' \in [FaultKind -> Nat] /\ logins' \in Nat
    BY <1>11, FaultType DEF Kill, FaultKind
  <2> QED
    BY <1>0, <1>11, <2>1, <2>2, <2>3, ClientTyped DEF Kill
<1> QED
  BY <1>2, <1>3, <1>4, <1>5, <1>6, <1>7, <1>8, <1>9, <1>10, <1>11 DEF Got

LEMMA ReceiverStepTyped ==
  ASSUME Typed, NEW p \in DOMAIN receivers, ReceiverStarts(p) \/ ReceiverEnds(p)
  PROVE  Typed'
<1>0. /\ CallsTyped /\ ReceiversTypeOK /\ cred \in [Client -> Credentials]
      /\ key \in [Client -> Nat] /\ childPID \in [Client -> 0..Len(receivers)]
      /\ logins \in Nat /\ faults \in [FaultKind -> Nat]
      /\ Len(receivers) \in Nat /\ p \in 1..Len(receivers)
  <2>1. Len(receivers) \in Nat /\ p \in 1..Len(receivers)
    BY DEF Typed, TypeOK, ReceiversTypeOK
  <2> QED
    BY <2>1, TypedCalls DEF Typed, TypeOK
<1>1. CASE ReceiverStarts(p)
  <2>1. receivers' = [receivers EXCEPT ![p].state = "serving"]
        /\ portmap' = [portmap EXCEPT ![receivers[p].host] = p]
    BY <1>1 DEF ReceiverStarts, Starts
  <2>2. p \in 0..Len(receivers) /\ portmap \in [Host -> 0..Len(receivers)]
    BY <1>0 DEF ReceiversTypeOK
  <2>3. ReceiversTypeOK' /\ Len(receivers') = Len(receivers)
    BY <1>0, <2>1, <2>2, StateChange
  <2>4. CallsTyped' /\ Keeps
    BY <1>0, <1>1 DEF ReceiverStarts, CallsTyped, Keeps, clientVars
  <2> QED
    BY <1>0, <1>1, <2>3, <2>4, ClientTyped
    DEF ReceiverStarts, ReceiversTypeOK, clientVars, boundVars
<1>2. CASE ReceiverEnds(p)
  <2>1. ReceiversTypeOK' /\ Len(receivers') = Len(receivers)
    BY <1>0, <1>2, EndType DEF ReceiverEnds
  <2>2. CallsTyped' /\ Keeps
    BY <1>0, <1>2 DEF ReceiverEnds, CallsTyped, Keeps, clientVars
  <2>3. faults' \in [FaultKind -> Nat] /\ logins' \in Nat
    BY <1>2, FaultType DEF ReceiverEnds, FaultKind
  <2> QED
    BY <1>0, <1>2, <2>1, <2>2, <2>3, ClientTyped DEF ReceiverEnds, clientVars
<1> QED
  BY <1>1, <1>2

LEMMA TypeStep == Typed /\ [Next]_vars => Typed'
<1> SUFFICES ASSUME Typed, [Next]_vars PROVE Typed'
  OBVIOUS
<1>1. CASE ServerStarts
  <2>1. CallsTyped' /\ PublishInv'
    BY <1>1, TypedCalls DEF ServerStarts, CallsTyped, Typed, PublishInv, clientVars
  <2> QED
    BY <1>1, <2>1
    DEF ServerStarts, Typed, TypeOK, CallsTyped, tableVars, sessionVars, clientVars,
        processVars, boundVars, ReceiversTypeOK
<1>2. CASE UNCHANGED vars
  BY <1>2 DEF vars, tableVars, sessionVars, clientVars, processVars, boundVars, Typed, TypeOK,
              PublishInv, ReceiversTypeOK
<1> QED
  BY <1>1, <1>2, ServeTyped, DeliverTyped, ClientStepTyped, ReceiverStepTyped DEF Next

\* Types: the table never holds more than MAXSUBS addresses, ids come from the
\* clock, a publish stays within the table it started with (dispatcher.c 60-169).
THEOREM TypeCorrect == Spec => []TypeOK
<1>1. Typed => TypeOK
  BY DEF Typed
<1> QED
  BY InitTyped, TypeStep, <1>1, PTL DEF Spec

-----------------------------------------------------------------------------
(* The login.                                                              *)

LEMMA InitLogin == Init => LoginInv
<1> SUFFICES ASSUME Init PROVE LoginInv
  OBVIOUS
<1>1. \A c \in Client : ClientInv(c)
  BY DEF Init, ClientInv, Waiting, Calls, Answered, NoAnswer, InMenu
<1>2. KeyInv
  BY DEF Init, KeyInv
<1> QED
  BY <1>1, <1>2 DEF Init, LoginInv

LEMMA Accepted == "OK" \in Codes \ Refusals /\ "none" \notin Codes
BY DEF Codes, Refusals

\* A client is not touched by a step that changes neither its own state nor its
\* sessions.
LEMMA Bystander ==
  ASSUME NEW d \in Client, ClientInv(d),
         queue'[d] = queue[d], answer'[d] = answer[d], at'[d] = at[d],
         cred'[d] = cred[d], key'[d] = key[d],
         key[d] \in DOMAIN sessions =>
           key[d] \in DOMAIN sessions' /\ sessions'[key[d]] = sessions[key[d]],
         at[d] = "get_session" /\ Answered(d) =>
           answer[d].id \in DOMAIN sessions' /\ sessions'[answer[d].id] = sessions[answer[d].id]
  PROVE  ClientInv(d)'
<1>1. ASSUME NEW i \in DOMAIN queue[d] PROVE RequestInv(d, i)'
  <2>1. PICK r : r = queue[d][i]
    OBVIOUS
  <2>2. RequestInv(d, i) /\ queue'[d][i] = r
    BY <1>1, <2>1 DEF ClientInv
  <2>3. r.op \in Signed => Valid(r.id, r.hash.cred.user)' /\ r.hash = Recomputed(r)'
    BY <2>1, <2>2 DEF RequestInv, Valid, Recomputed
  <2> QED
    BY <2>1, <2>2, <2>3 DEF RequestInv, Pending, Valid, InMenu
<1> QED
  BY <1>1 DEF ClientInv, Pending, Valid, InMenu, Waiting, Answered

\* Deleting or validating a client's session, and adding a new one, leaves the
\* other clients alone.
LEMMA Others ==
  ASSUME Typed, LoginInv, NEW c \in Client,
         \A s \in DOMAIN sessions :
           s # key[c] => s \in DOMAIN sessions' /\ sessions'[s] = sessions[s],
         at' = at, cred' = cred, key' = key,
         \A d \in Client \ {c} : queue'[d] = queue[d] /\ answer'[d] = answer[d],
         NEW d \in Client \ {c}
  PROVE  ClientInv(d)'
<1>1. ClientInv(d) /\ 0 \notin DOMAIN sessions
  BY DEF LoginInv, Typed, TypeOK
<1>2. key[d] \in DOMAIN sessions => key[d] # key[c]
  BY <1>1 DEF LoginInv, KeyInv
<1>3. at[d] = "get_session" /\ Answered(d) =>
        answer[d].id \in DOMAIN sessions /\ answer[d].id # key[c]
  BY <1>1 DEF LoginInv, KeyInv, ClientInv, Pending
<1> QED
  BY <1>1, <1>2, <1>3, Bystander

\* Pending answers name sessions that were given.
LEMMA PendingIds ==
  ASSUME Typed, LoginInv, NEW d \in Client, at[d] = "get_session", Answered(d)
  PROVE  answer[d].id \in 1..lastSid
BY DEF Typed, TypeOK, LoginInv, ClientInv, Pending

LEMMA KeysServed ==
  ASSUME Typed, LoginInv, NEW c \in Client, key' = key, at' = at,
         lastSid' \in {lastSid, lastSid + 1},
         \A d \in Client \ {c} : answer'[d] = answer[d],
         at[c] = "get_session" /\ Answered(c)' =>
           answer'[c].id = lastSid + 1 /\ lastSid' = lastSid + 1
  PROVE  KeyInv'
<1>0. lastSid \in Nat /\ KeyInv
  BY DEF Typed, TypeOK, LoginInv
<1>1. ASSUME NEW d \in Client, (at[d] = "get_session" /\ Answered(d))'
      PROVE  /\ d = c => answer'[d].id = lastSid + 1
             /\ d # c => /\ answer'[d].id = answer[d].id /\ answer[d].id \in 1..lastSid
                         /\ at[d] = "get_session" /\ Answered(d)
  BY <1>1, PendingIds DEF Answered
<1>2. \A d \in Client : key'[d] \in 0..lastSid
  BY <1>0 DEF KeyInv
<1>3. \A d \in Client : key'[d] \in 0..lastSid'
  BY <1>0, <1>2
<1>4. \A d, e \in Client : (at[d] = "get_session" /\ Answered(d))' => key'[e] # answer'[d].id
  BY <1>0, <1>1, <1>2 DEF KeyInv
<1>5. ASSUME NEW d \in Client, NEW e \in Client, d # e,
             (at[d] = "get_session" /\ Answered(d))', (at[e] = "get_session" /\ Answered(e))'
      PROVE  answer'[e].id # answer'[d].id
  <2>1. CASE d # c /\ e # c
    BY <1>0, <1>1, <1>5, <2>1 DEF KeyInv
  <2>2. CASE d = c \/ e = c
    BY <1>0, <1>1, <1>5, <2>2
  <2> QED
    BY <2>1, <2>2
<1> QED
  BY <1>0, <1>3, <1>4, <1>5 DEF KeyInv

\* Nobody gets a session answer: the keys stay apart.
LEMMA KeysStay ==
  ASSUME LoginInv, key' = key, lastSid' = lastSid,
         \A d \in Client : (at[d] = "get_session" /\ Answered(d))' =>
           at[d] = "get_session" /\ Answered(d) /\ answer'[d] = answer[d]
  PROVE  KeyInv'
BY DEF LoginInv, KeyInv

\* What is left in a client's connection when its head has been served.
LEMMA TailRequests ==
  ASSUME CallsTyped, NEW c \in Client, queue[c] # <<>>,
         \A i \in DOMAIN queue[c] : RequestInv(c, i),
         queue'[c] = Tail(queue[c]), at'[c] = at[c], cred'[c] = cred[c], key'[c] = key[c],
         Head(queue[c]).op \notin {"validate", "invalidate"} /\ key[c] \in DOMAIN sessions =>
           key[c] \in DOMAIN sessions' /\ sessions'[key[c]] = sessions[key[c]],
         NEW i \in DOMAIN queue'[c]
  PROVE  RequestInv(c, i)'
<1> DEFINE n == Len(queue[c])
<1>1. /\ n \in Nat \ {0} /\ DOMAIN queue[c] = 1..n /\ Len(queue'[c]) = n - 1
      /\ DOMAIN queue'[c] = 1..(n - 1) /\ Head(queue[c]) = queue[c][1]
      /\ \A j \in 1..(n - 1) : queue'[c][j] = queue[c][j + 1]
  BY DEF CallsTyped
<1> HIDE DEF n
<1>2. i \in 1..(n - 1) /\ i + 1 \in 1..n /\ 1 \in 1..n
  BY <1>1
<1>3. RequestInv(c, 1) /\ RequestInv(c, i + 1) /\ queue'[c][i] = queue[c][i + 1]
  BY <1>1, <1>2
<1>4. queue[c][i + 1].op # "validate"
  BY <1>1, <1>2, <1>3 DEF RequestInv, n
<1>5. queue[c][1].op # "validate"
  BY <1>1, <1>2, <1>3 DEF RequestInv, n
<1>6. CASE queue[c][1].op = "invalidate"
  <2>1. \A j \in 2..n : queue[c][j].op = "get_session"
    BY <1>3, <1>6 DEF RequestInv, n
  <2>2. queue[c][i + 1].op = "get_session"
    BY <1>1, <1>2, <2>1
  <2> QED
    BY <1>1, <1>2, <1>3, <2>2 DEF RequestInv, n, Signed
<1>7. CASE queue[c][1].op # "invalidate"
  <2>1. key[c] \in DOMAIN sessions =>
           key[c] \in DOMAIN sessions' /\ sessions'[key[c]] = sessions[key[c]]
    BY <1>1, <1>5, <1>7
  <2>0. PICK r : r = queue[c][i + 1]
    OBVIOUS
  <2>2. r.op = "get_session" => i = n - 1 /\ r.user = cred[c].user
                                  /\ at[c] \in {"get_session", "crashed", "killed"}
    BY <1>1, <1>2, <1>3, <2>0 DEF RequestInv, n
  <2>3. r.op = "invalidate" =>
          /\ r.id = key[c] /\ key[c] \in DOMAIN sessions' /\ ~InMenu(c)
          /\ \A j \in (i + 1)..(n - 1) : queue'[c][j].op = "get_session"
    <3> SUFFICES ASSUME r.op = "invalidate"
                 PROVE  /\ r.id = key[c] /\ key[c] \in DOMAIN sessions' /\ ~InMenu(c)
                        /\ \A j \in (i + 1)..(n - 1) : queue'[c][j].op = "get_session"
      OBVIOUS
    <3>1. r.id = key[c] /\ key[c] \in DOMAIN sessions /\ ~InMenu(c)
      BY <1>3, <2>0 DEF RequestInv
    <3>2. \A j \in (i + 2)..n : queue[c][j].op = "get_session"
      BY <1>2, <1>3, <2>0 DEF RequestInv, n
    <3>3. ASSUME NEW j \in (i + 1)..(n - 1) PROVE queue'[c][j].op = "get_session"
      <4>1. j + 1 \in (i + 2)..n /\ j \in 1..(n - 1)
        BY <1>1, <1>2, <3>3
      <4> QED
        BY <1>1, <3>2, <4>1
    <3> QED
      BY <2>1, <3>1, <3>3
  <2>4. r.op \in Signed =>
         /\ r.id = key[c] /\ Valid(key[c], r.hash.cred.user)
         /\ r.hash.cred.good /\ r.hash.cred.user \in Account
         /\ r.hash = Recomputed(r)
    BY <1>3, <2>0 DEF RequestInv
  <2>5. r.op \in Signed => Valid(r.id, r.hash.cred.user)' /\ r.hash = Recomputed(r)'
    BY <2>1, <2>4 DEF Valid, Recomputed
  <2>6. queue'[c][i] = r /\ r.op # "validate"
    BY <1>3, <1>4, <2>0
  <2> QED
    BY <1>1, <2>2, <2>3, <2>4, <2>5, <2>6 DEF RequestInv, InMenu
<1> QED
  BY <1>6, <1>7

LEMMA TailFacts ==
  ASSUME NEW S, NEW s \in Seq(S), s # <<>>
  PROVE  /\ Len(s) \in Nat \ {0} /\ DOMAIN s = 1..Len(s) /\ Head(s) = s[1]
         /\ Len(Tail(s)) = Len(s) - 1
         /\ Len(s) # 1 => Tail(s) # <<>> /\ Tail(s)[Len(s) - 1] = s[Len(s)]
         /\ Len(s) = 1 => Tail(s) = <<>>
<1>1. Len(s) \in Nat \ {0} /\ DOMAIN s = 1..Len(s) /\ Head(s) = s[1]
  OBVIOUS
<1>2. Tail(s) \in Seq(S) /\ Len(Tail(s)) = Len(s) - 1
  BY <1>1
<1>3. Len(s) = 1 <=> Tail(s) = <<>>
  <2>1. PICK t \in Seq(S) : t = Tail(s)
    BY <1>2
  <2>2. Len(t) = 0 <=> t = <<>>
    OBVIOUS
  <2> QED
    BY <1>1, <1>2, <2>1, <2>2
<1>4. ASSUME Len(s) # 1 PROVE Tail(s) # <<>> /\ Tail(s)[Len(s) - 1] = s[Len(s)]
  <2> DEFINE m == Len(s) - 1
  <2>1. m \in 1..Len(Tail(s)) /\ m + 1 = Len(s)
    BY <1>1, <1>2, <1>4
  <2>2. Tail(s)[m] = s[m + 1]
    BY <1>1, <2>1
  <2>3. Tail(s) # <<>>
    BY <1>3, <1>4
  <2> QED
    BY <2>1, <2>2, <2>3
<1> QED
  BY <1>1, <1>2, <1>3, <1>4

\* The client whose request has been served: S what the step keeps of its session,
\* A, V and R what the answer is worth.
LEMMA ServedSelf ==
  ASSUME Typed, NEW c \in Client, ClientInv(c), queue[c] # <<>>,
         NEW code \in Codes, NEW id,
         Reply(c, code, id), id \in Nat, at' = at, cred' = cred, key' = key,
         Head(queue[c]).op \notin {"validate", "invalidate"} /\ key[c] \in DOMAIN sessions =>
           key[c] \in DOMAIN sessions' /\ sessions'[key[c]] = sessions[key[c]],
         Head(queue[c]).op = "get_session" => Pending(id, cred[c].user)',
         Head(queue[c]).op = "validate" /\ code = "OK" =>
           Valid(key[c], cred[c].user)' /\ cred[c].good /\ cred[c].user \in Account,
         Head(queue[c]).op \notin {"get_session", "validate"} => code \notin Refusals
  PROVE  ClientInv(c)'
<1> DEFINE n == Len(queue[c])
           op == Head(queue[c]).op
<1>0. CallsTyped
  BY TypedCalls DEF Typed
<1>1. /\ n \in Nat \ {0} /\ DOMAIN queue[c] = 1..n /\ Len(queue'[c]) = n - 1
      /\ Head(queue[c]) = queue[c][1] /\ queue'[c] = Tail(queue[c])
      /\ n # 1 => queue'[c] # <<>> /\ queue'[c][n - 1] = queue[c][n]
      /\ n = 1 => queue'[c] = <<>>
  <2>1. queue[c] \in Seq(Request) /\ queue'[c] = Tail(queue[c])
    BY <1>0, ReplyEffect DEF CallsTyped
  <2> QED
    BY <2>1, TailFacts
<1>2. /\ Waiting(c) /\ n = 1 => answer'[c].code = code /\ answer'[c].id = id
      /\ ~(Waiting(c) /\ n = 1) => answer'[c] = answer[c]
  BY <1>0, ReplyEffect
<1>3. \A i \in DOMAIN queue'[c] : RequestInv(c, i)'
  <2>1. \A i \in DOMAIN queue[c] : RequestInv(c, i)
    BY DEF ClientInv
  <2> QED
    BY <1>0, <1>1, <2>1, TailRequests
<1>4. ~Answered(c)
  BY DEF ClientInv
<1>5. Answered(c)' <=> Waiting(c) /\ n = 1
  BY <1>2, <1>4, Accepted DEF Answered
<1>6. Waiting(c) => queue[c][n].op = OperationAt(at[c])
  BY <1>4 DEF ClientInv
<1>7. Waiting(c) /\ n = 1 => op = OperationAt(at[c])
  BY <1>1, <1>6
<1> HIDE DEF n, op
<1>8. RequestInv(c, 1)
  BY <1>1 DEF ClientInv
<1>9. Waiting(c)' <=> Waiting(c)
  BY DEF Waiting
<1>10. Waiting(c)' /\ ~Answered(c)' =>
         queue'[c] # <<>> /\ queue'[c][Len(queue'[c])].op = OperationAt(at'[c])
  BY <1>1, <1>5, <1>6, <1>9
<1>11. Answered(c)' => queue'[c] = <<>>
  BY <1>1, <1>5
<1>12. at[c] = "get_session" /\ Answered(c)' => Pending(answer[c].id, cred[c].user)'
  <2> SUFFICES ASSUME at[c] = "get_session", Answered(c)'
               PROVE  Pending(answer[c].id, cred[c].user)'
    OBVIOUS
  <2>1. op = "get_session" /\ answer'[c].id = id
    BY <1>2, <1>5, <1>7 DEF OperationAt, OperationOf
  <2>2. Pending(id, cred[c].user)'
    BY <2>1 DEF op
  <2> QED
    BY <2>1, <2>2 DEF Pending
<1>13. at[c] = "validate" /\ answer'[c].code = "OK" =>
         Valid(key[c], cred[c].user)' /\ cred[c].good /\ cred[c].user \in Account
  <2> SUFFICES ASSUME at[c] = "validate", answer'[c].code = "OK"
               PROVE  Valid(key[c], cred[c].user)' /\ cred[c].good /\ cred[c].user \in Account
    OBVIOUS
  <2>1. Answered(c)'
    BY DEF Answered
  <2>2. op = "validate" /\ code = "OK"
    BY <1>2, <1>5, <1>7, <2>1 DEF OperationAt, OperationOf
  <2> QED
    BY <2>2 DEF op
<1>14. InMenu(c) => Valid(key[c], cred[c].user)' /\ cred[c].good /\ cred[c].user \in Account
  <2> SUFFICES ASSUME InMenu(c)
               PROVE  Valid(key[c], cred[c].user)' /\ cred[c].good /\ cred[c].user \in Account
    OBVIOUS
  <2>1. Valid(key[c], cred[c].user) /\ cred[c].good /\ cred[c].user \in Account
    BY DEF ClientInv
  <2>2. op # "invalidate" /\ op # "validate"
    BY <1>1, <1>8 DEF RequestInv, InMenu, op
  <2>3. key[c] \in DOMAIN sessions' /\ sessions'[key[c]] = sessions[key[c]]
    BY <2>1, <2>2 DEF Valid, op
  <2> QED
    BY <2>1, <2>3 DEF Valid
<1>15. InMenu(c) \/ at[c] \in {"logout", "goodbye"} => answer'[c].code \notin Refusals
  <2> SUFFICES ASSUME InMenu(c) \/ at[c] \in {"logout", "goodbye"}
               PROVE  answer'[c].code \notin Refusals
    OBVIOUS
  <2>1. CASE Waiting(c) /\ n = 1
    <3>1. op \notin {"get_session", "validate"}
      BY <1>7, <2>1 DEF OperationAt, OperationOf, InMenu, Waiting, Calls
    <3> QED
      BY <1>2, <2>1, <3>1 DEF op
  <2>2. CASE ~(Waiting(c) /\ n = 1)
    BY <1>2, <2>2 DEF ClientInv
  <2> QED
    BY <2>1, <2>2
<1> QED
  BY <1>3, <1>10, <1>11, <1>12, <1>13, <1>14, <1>15 DEF ClientInv, InMenu

\* Facts about a request that is taken up.
LEMMA HeadFacts ==
  ASSUME Typed, LoginInv, NEW c \in Client, NEW op, Serving(c, op)
  PROVE  /\ server = "up" /\ publishing = <<>> /\ queue[c] # <<>> /\ ClientInv(c)
         /\ Req(c) = Head(queue[c]) /\ Req(c) \in Request /\ Req(c).op = op
         /\ op = "get_session" =>
              Req(c).user = cred[c].user /\ at[c] \in {"get_session", "crashed", "killed"}
         /\ op = "validate" =>
              /\ Req(c).id = key[c] /\ Pending(key[c], cred[c].user)
              /\ Req(c).hash.cred = cred[c] /\ at[c] \in {"validate", "crashed", "killed"}
         /\ op = "invalidate" => Req(c).id = key[c] /\ key[c] \in DOMAIN sessions
         /\ op \in Signed =>
              /\ Req(c).id = key[c] /\ Valid(key[c], Req(c).hash.cred.user)
              /\ Req(c).hash.cred.good /\ Req(c).hash.cred.user \in Account
              /\ CheckSession(Req(c)) = "OK"
<1>1. queue[c] # <<>> /\ ClientInv(c) /\ queue[c] \in Seq(Request) /\ Head(queue[c]).op = op
  BY TypedCalls DEF Typed, LoginInv, Serving, CallsTyped
<1>2. PICK r \in Request : r = Head(queue[c])
  BY <1>1
<1>3. 1 \in DOMAIN queue[c] /\ queue[c][1] = r
  BY <1>1, <1>2
<1>4. RequestInv(c, 1) /\ r.op = op
  BY <1>1, <1>2, <1>3 DEF ClientInv
<1>5. op \in Signed => CheckSession(r) = "OK"
  BY <1>3, <1>4 DEF RequestInv, CheckSession, SearchSession, Valid
<1> QED
  BY <1>1, <1>2, <1>3, <1>4, <1>5 DEF Req, Serving, RequestInv

LEMMA NotYetAnswered ==
  ASSUME NEW c \in Client, ClientInv(c), queue[c] # <<>>
  PROVE  ~Answered(c)
BY DEF ClientInv

\* Serving another operation does not answer a client that waits for get_session.
LEMMA NoSessionAnswer ==
  ASSUME Typed, NEW c \in Client, ClientInv(c), queue[c] # <<>>,
         Head(queue[c]).op # "get_session", NEW code \in Codes, Reply(c, code, 0), at' = at
  PROVE  ~(at[c] = "get_session" /\ Answered(c)')
<1> SUFFICES ASSUME at[c] = "get_session" PROVE ~Answered(c)'
  OBVIOUS
<1>1. Waiting(c) /\ ~Answered(c)
  BY NotYetAnswered DEF Waiting, Calls
<1>2. queue[c][Len(queue[c])].op = "get_session"
  BY <1>1 DEF ClientInv, OperationAt, OperationOf
<1>3. Len(queue[c]) # 1
  BY <1>2, TypedCalls, TailFacts DEF Typed, CallsTyped
<1>4. answer'[c] = answer[c]
  BY <1>3, TypedCalls, ReplyEffect DEF Typed
<1> QED
  BY <1>1, <1>4 DEF Answered

\* A request that touches no session has been answered.
LEMMA AnsweredStep ==
  ASSUME Typed, LoginInv, NEW c \in Client, queue[c] # <<>>,
         Head(queue[c]).op \in Signed, NEW code \in Codes \ Refusals,
         Reply(c, code, 0), at' = at, cred' = cred, key' = key,
         sessions' = sessions, lastSid' = lastSid, server' = server
  PROVE  LoginInv'
<1>1. ClientInv(c)'
  BY ServedSelf DEF LoginInv, Signed
<1>2. \A d \in Client \ {c} : queue'[d] = queue[d] /\ answer'[d] = answer[d]
  BY TypedCalls, ReplyEffect DEF Typed
<1>3. \A d \in Client \ {c} : ClientInv(d)'
  BY <1>2, Others
<1>4. KeyInv'
  BY <1>2, NoSessionAnswer, KeysServed DEF LoginInv, Signed
<1> QED
  BY <1>1, <1>3, <1>4 DEF LoginInv

Session == [user : User, validated : BOOLEAN]

LEMMA SetValidated ==
  ASSUME NEW s \in Session
  PROVE  [s EXCEPT !.validated = TRUE] = [user |-> s.user, validated |-> TRUE]
<1>1. PICK e : e = [s EXCEPT !.validated = TRUE]
  OBVIOUS
<1>2. e \in Session /\ e.user = s.user /\ e.validated
  BY <1>1 DEF Session
<1>3. e = [user |-> s.user, validated |-> TRUE]
  BY <1>2 DEF Session
<1> QED
  BY <1>1, <1>3

LEMMA GetSessionStep ==
  ASSUME Typed, LoginInv, NEW c \in Client, ServeGetSession(c)
  PROVE  LoginInv'
<1>1. PICK sid \in Nat : sid = lastSid + 1
  BY DEF Typed, TypeOK
<1>2. /\ queue[c] # <<>> /\ ClientInv(c) /\ Head(queue[c]).op = "get_session"
      /\ Req(c).user = cred[c].user /\ server = "up" /\ Req(c) = Head(queue[c])
  BY HeadFacts DEF ServeGetSession
<1>3. /\ lastSid' = lastSid + 1 /\ InsertSession(sid, Req(c).user) /\ Reply(c, "OK", sid)
      /\ at' = at /\ cred' = cred /\ key' = key /\ server' = server
  BY <1>1 DEF ServeGetSession, NextSid, clientVars
<1>4. /\ DOMAIN sessions' = DOMAIN sessions \cup {sid}
      /\ \A s \in DOMAIN sessions : s # sid /\ sessions'[s] = sessions[s]
      /\ sessions'[sid] = [user |-> cred[c].user, validated |-> FALSE]
  <2>1. \A s \in DOMAIN sessions : s # sid
    BY <1>1 DEF Typed, TypeOK
  <2> QED
    BY <1>2, <1>3, <2>1 DEF InsertSession
<1>5. Pending(sid, cred[c].user)'
  BY <1>3, <1>4 DEF Pending
<1>6. ClientInv(c)'
  BY <1>2, <1>3, <1>4, <1>5, Accepted, ServedSelf
<1>7. /\ \A d \in Client \ {c} : queue'[d] = queue[d] /\ answer'[d] = answer[d]
      /\ Waiting(c) /\ Len(queue[c]) = 1 => answer'[c].id = sid
      /\ ~(Waiting(c) /\ Len(queue[c]) = 1) => answer'[c] = answer[c]
  BY <1>2, <1>3, Accepted, TypedCalls, ReplyEffect DEF Typed
<1>8. \A d \in Client \ {c} : ClientInv(d)'
  BY <1>3, <1>4, <1>7, Others
<1>9. Answered(c)' => answer'[c].id = lastSid + 1
  BY <1>1, <1>2, <1>7, NotYetAnswered DEF Answered
<1>10. KeyInv'
  BY <1>3, <1>7, <1>9, KeysServed
<1> QED
  BY <1>2, <1>3, <1>6, <1>8, <1>10 DEF LoginInv

\* The session named is there, so it is deleted and the server goes on.
LEMMA DeleteStep ==
  ASSUME Typed, LoginInv, NEW c \in Client, queue[c] # <<>>,
         Head(queue[c]).op \in {"validate", "invalidate"}, key[c] \in DOMAIN sessions,
         NEW found \in Codes, NEW missing,
         Head(queue[c]).op = "validate" => found # "OK",
         Head(queue[c]).op = "invalidate" => found = "OK",
         DeleteSession(c, key[c], found, missing),
         at' = at, cred' = cred, key' = key, lastSid' = lastSid
  PROVE  LoginInv'
<1>1. sessions' = SessionsWithout(key[c]) /\ Reply(c, found, 0) /\ server' = server
  BY DEF DeleteSession, ReplyCode
<1>2. \A s \in DOMAIN sessions : s # key[c] => s \in DOMAIN sessions' /\ sessions'[s] = sessions[s]
  BY <1>1 DEF SessionsWithout
<1>3. ClientInv(c) /\ 0 \in Nat
  BY DEF LoginInv
<1>4. ClientInv(c)'
  BY <1>1, <1>3, Accepted, ServedSelf
<1>5. \A d \in Client \ {c} : queue'[d] = queue[d] /\ answer'[d] = answer[d]
  BY <1>1, <1>3, TypedCalls, ReplyEffect DEF Typed
<1>6. \A d \in Client \ {c} : ClientInv(d)'
  BY <1>2, <1>5, Others
<1>7. KeyInv'
  BY <1>1, <1>3, <1>5, NoSessionAnswer, KeysServed
<1> QED
  BY <1>1, <1>4, <1>6, <1>7 DEF LoginInv

LEMMA ValidateStep ==
  ASSUME Typed, LoginInv, NEW c \in Client, ServeValidate(c)
  PROVE  LoginInv'
<1>1. /\ queue[c] # <<>> /\ ClientInv(c) /\ Head(queue[c]).op = "validate"
      /\ Req(c).id = key[c] /\ Pending(key[c], cred[c].user) /\ Req(c).hash.cred = cred[c]
      /\ Req(c) = Head(queue[c])
  BY HeadFacts DEF ServeValidate
<1>2. at' = at /\ cred' = cred /\ key' = key /\ lastSid' = lastSid
  BY DEF ServeValidate, clientVars
<1>3. PICK code \in Refusals \cup {"OK"} : code = CheckSession(Req(c))
  BY CheckCodes
<1>4. code \in Codes
  BY DEF Refusals, Codes
<1>5. CASE code = "OK"
  <2>1. ValidateSession(key[c]) /\ Reply(c, "OK", 0) /\ server' = server
    BY <1>1, <1>3, <1>5 DEF ServeValidate, ReplyCode
  <2>2. /\ DOMAIN sessions' = DOMAIN sessions
        /\ \A s \in DOMAIN sessions : s # key[c] => sessions'[s] = sessions[s]
        /\ sessions'[key[c]] = [sessions[key[c]] EXCEPT !.validated = TRUE]
    BY <1>1, <2>1 DEF ValidateSession, Pending
  <2>3. sessions'[key[c]] = [user |-> cred[c].user, validated |-> TRUE]
    <3>1. sessions[key[c]] \in Session /\ sessions[key[c]].user = cred[c].user
      BY <1>1 DEF Pending, Typed, TypeOK, Session
    <3> QED
      BY <2>2, <3>1, SetValidated
  <2>4. Valid(key[c], cred[c].user)'
    BY <1>1, <1>2, <2>2, <2>3 DEF Valid, Pending
  <2>5. cred[c].good /\ cred[c].user \in Account
    <3>1. sessions[key[c]].user \in Account /\ Req(c).hash = Recomputed(Req(c))
      BY <1>1, <1>3, <1>5 DEF CheckSession, Refusals, SearchSession
    <3>2. sessions[key[c]].user = cred[c].user
      BY <1>1 DEF Pending
    <3>3. cred[c] = [user |-> sessions[Req(c).id].user, good |-> TRUE]
      <4>1. Recomputed(Req(c)).cred = [user |-> sessions[Req(c).id].user, good |-> TRUE]
        BY DEF Recomputed, HashParam
      <4> QED
        BY <1>1, <3>1, <4>1
    <3>4. cred[c].good
      BY <3>3
    <3> QED
      BY <3>1, <3>2, <3>4
  <2>6. ClientInv(c)' /\ 0 \in Nat
    BY <1>1, <1>2, <2>1, <2>4, <2>5, Accepted, ServedSelf
  <2>7. \A d \in Client \ {c} : queue'[d] = queue[d] /\ answer'[d] = answer[d]
    BY <1>1, <1>2, <2>1, Accepted, TypedCalls, ReplyEffect DEF Typed
  <2>8. \A d \in Client \ {c} : ClientInv(d)'
    BY <1>2, <2>2, <2>7, Others
  <2>9. KeyInv'
    BY <1>1, <1>2, <2>1, <2>7, Accepted, NoSessionAnswer, KeysServed
  <2> QED
    BY <2>1, <2>6, <2>8, <2>9 DEF LoginInv
<1>6. CASE code # "OK"
  <2>1. DeleteSession(c, key[c], code, code)
    BY <1>1, <1>3, <1>6 DEF ServeValidate
  <2> QED
    BY <1>1, <1>2, <1>4, <1>6, <2>1, DeleteStep DEF Pending
<1> QED
  BY <1>5, <1>6

LEMMA InvalidateStep ==
  ASSUME Typed, LoginInv, NEW c \in Client, ServeInvalidate(c)
  PROVE  LoginInv'
<1>1. /\ queue[c] # <<>> /\ Head(queue[c]).op = "invalidate"
      /\ Req(c).id = key[c] /\ key[c] \in DOMAIN sessions
  BY HeadFacts DEF ServeInvalidate
<1>2. at' = at /\ cred' = cred /\ key' = key /\ lastSid' = lastSid
  BY DEF ServeInvalidate, clientVars
<1>3. DeleteSession(c, key[c], "OK", "NO_SESSION_FOUND")
  BY <1>1 DEF ServeInvalidate
<1> QED
  BY <1>1, <1>2, <1>3, Accepted, DeleteStep

\* Nothing happens to requests, answers and sessions.
LEMMA QuietStep ==
  ASSUME LoginInv, UNCHANGED <<queue, answer, at, cred, key, sessionVars>>,
         server' # "crashed"
  PROVE  LoginInv'
<1>0. /\ queue' = queue /\ answer' = answer /\ at' = at /\ cred' = cred /\ key' = key
      /\ sessions' = sessions /\ lastSid' = lastSid
  BY DEF sessionVars
<1>1. ASSUME NEW d \in Client PROVE ClientInv(d)'
  <2>1. ClientInv(d)
    BY DEF LoginInv
  <2>2. /\ at[d] = "get_session" /\ Answered(d) =>
           answer[d].id \in DOMAIN sessions' /\ sessions'[answer[d].id] = sessions[answer[d].id]
    BY <1>0, <2>1 DEF ClientInv, Pending
  <2> QED
    BY <1>0, <2>1, <2>2, Bystander
<1>2. KeyInv'
  BY <1>0, KeysStay DEF Answered
<1> QED
  BY <1>1, <1>2 DEF LoginInv

LEMMA TableStep ==
  ASSUME Typed, LoginInv, NEW c \in Client, NEW op \in Signed, NEW new,
         ServeTable(c, op, new), new.code \in Codes \ Refusals
  PROVE  LoginInv'
<1>1. queue[c] # <<>> /\ Head(queue[c]).op = op /\ CheckSession(Req(c)) = "OK"
  BY HeadFacts DEF ServeTable
<1>2. Reply(c, new.code, 0)
  BY <1>1 DEF ServeTable, ReplyCode
<1>3. /\ at' = at /\ cred' = cred /\ key' = key /\ lastSid' = lastSid
      /\ sessions' = sessions /\ server' = server
  BY DEF ServeTable, clientVars, sessionVars
<1> QED
  BY <1>1, <1>2, <1>3, AnsweredStep

LEMMA ServeStep ==
  ASSUME Typed, LoginInv, NEW c \in Client, Serve(c)
  PROVE  LoginInv'
<1>0. subs \in Seq(Host) /\ Len(subs) <= MaxSubs /\ HostOf[c] \in Host
  BY ClientAssumption DEF Typed, TypeOK
<1>1. CASE ServeSubscribe(c)
  BY <1>0, <1>1, RegisterType, TableStep DEF ServeSubscribe, Signed
<1>2. CASE ServeUnsubscribe(c)
  BY <1>0, <1>2, UnregisterType, TableStep DEF ServeUnsubscribe, Signed
<1>3. CASE ServeSetChannel(c)
  <2>1. queue[c] # <<>> /\ Head(queue[c]).op = "set_channel" /\ CheckSession(Req(c)) = "OK"
    BY <1>3, HeadFacts DEF ServeSetChannel, Signed
  <2>2. \E code \in {"OK", "CANNOT_SET_TOPIC"} : Reply(c, code, 0)
    BY <1>3, <2>1 DEF ServeSetChannel, ReplyCode
  <2>3. /\ at' = at /\ cred' = cred /\ key' = key /\ lastSid' = lastSid
        /\ sessions' = sessions /\ server' = server
    BY <1>3 DEF ServeSetChannel, clientVars, sessionVars
  <2>4. {"OK", "CANNOT_SET_TOPIC"} \subseteq Codes \ Refusals /\ "set_channel" \in Signed
    BY DEF Codes, Refusals, Signed
  <2> QED
    BY <2>1, <2>2, <2>3, <2>4, AnsweredStep
<1>4. CASE ServePublish(c)
  <2>1. /\ queue[c] # <<>> /\ Head(queue[c]).op = "publish" /\ CheckSession(Req(c)) = "OK"
        /\ server = "up"
    BY <1>4, HeadFacts DEF ServePublish, Signed
  <2>2. /\ at' = at /\ cred' = cred /\ key' = key /\ lastSid' = lastSid
        /\ sessions' = sessions /\ server' = server
    BY <1>4 DEF ServePublish, clientVars, sessionVars
  <2>3. CASE subs # <<>>
    <3>1. UNCHANGED <<queue, answer>>
      BY <1>4, <2>1, <2>3 DEF ServePublish
    <3> QED
      BY <2>1, <2>2, <3>1, QuietStep DEF sessionVars
  <2>4. CASE subs = <<>>
    <3>1. Reply(c, "UNKNOWN_ERROR", 0)
      BY <1>4, <2>1, <2>4 DEF ServePublish, ReplyCode
    <3>2. "UNKNOWN_ERROR" \in Codes \ Refusals /\ "publish" \in Signed
      BY DEF Codes, Refusals, Signed
    <3> QED
      BY <2>1, <2>2, <3>1, <3>2, AnsweredStep
  <2> QED
    BY <2>3, <2>4
<1> QED
  BY <1>1, <1>2, <1>3, <1>4, GetSessionStep, ValidateStep, InvalidateStep DEF Serve

LEMMA DeliverStep ==
  ASSUME Typed, LoginInv, Deliver
  PROVE  LoginInv'
<1>1. /\ publishing # <<>> /\ Head(publishing) \in Turn
      /\ UNCHANGED <<tableVars, sessionVars, server, clientVars, processVars, boundVars>>
  BY DeliverCases
<1>2. ASSUME UNCHANGED <<queue, answer>> PROVE LoginInv'
  BY <1>1, <1>2, QuietStep DEF clientVars, LoginInv
<1>3. ASSUME NEW p \in Turn, NEW code \in {"OK", "UNKNOWN_ERROR"},
             p.client = Head(publishing).client, TurnEnds(p, code)
      PROVE  LoginInv'
  <2>1. CASE LastTurn(p, code)
    <3>1. PICK c \in Client : c = p.client
      BY DEF Turn
    <3>2. Reply(c, code, 0)
      BY <1>3, <2>1, <3>1 DEF TurnEnds, ReplyCode
    <3>3. 1 \in DOMAIN publishing /\ Head(publishing) = publishing[1]
      BY <1>1, TypedCalls, AtMostOne DEF Typed, TypeOK
    <3>4. queue[c] # <<>> /\ Head(queue[c]).op = "publish"
      BY <1>3, <3>1, <3>3 DEF Typed, PublishInv
    <3>5. code \in Codes \ Refusals /\ "publish" \in Signed
      BY DEF Codes, Refusals, Signed
    <3> QED
      BY <1>1, <3>2, <3>4, <3>5, AnsweredStep DEF clientVars, sessionVars
  <2>2. CASE ~LastTurn(p, code)
    BY <1>2, <1>3, <2>2 DEF TurnEnds
  <2> QED
    BY <2>1, <2>2
<1> QED
  BY <1>2, <1>3, DeliverCases

\* The texts that are not sent are not hashed either.
LEMMA XdrHash ==
  ASSUME NEW id, NEW argument \in Argument, NEW credentials
  PROVE  HashParam(id, XdrArgument(argument), credentials) = HashParam(id, argument, credentials)
<1>1. CASE argument.arm = "none"
  BY <1>1 DEF HashParam, XdrArgument, Argument, Arm
<1>2. CASE argument.arm # "none"
  BY <1>2 DEF HashParam, XdrArgument, Argument, Arm
<1> QED
  BY <1>1, <1>2

\* A client step that leaves the sessions alone: the others see nothing of it.
LEMMA ClientStep ==
  ASSUME LoginInv, NEW c \in Client, ClientInv(c)', answer'[c] = NoAnswer,
         \A d \in Client \ {c} :
           /\ queue'[d] = queue[d] /\ at'[d] = at[d] /\ answer'[d] = answer[d]
           /\ cred'[d] = cred[d],
         key' = key, sessions' = sessions, lastSid' = lastSid, server' = server
  PROVE  LoginInv'
<1>1. ASSUME NEW d \in Client \ {c} PROVE ClientInv(d)'
  <2>1. ClientInv(d)
    BY DEF LoginInv
  <2>2. /\ at[d] = "get_session" /\ Answered(d) =>
           answer[d].id \in DOMAIN sessions' /\ sessions'[answer[d].id] = sessions[answer[d].id]
    BY <2>1 DEF ClientInv, Pending
  <2> QED
    BY <2>1, <2>2, Bystander
<1>2. \A d \in Client : (at[d] = "get_session" /\ Answered(d))' =>
        at[d] = "get_session" /\ Answered(d) /\ answer'[d] = answer[d]
  BY DEF Answered, NoAnswer
<1>3. KeyInv'
  BY <1>2, KeysStay
<1> QED
  BY <1>1, <1>3 DEF LoginInv

\* A client goes somewhere and calls nothing.  It may get to the menu only if it is
\* logged in, and only a client that is gone leaves a get_session or a validate.
LEMMA GoesStep ==
  ASSUME Typed, LoginInv, NEW c \in Client, NEW where \in Place \ Calls, Goes(c, where),
         where = "menu" =>
           \/ InMenu(c)
           \/ /\ queue[c] = <<>> /\ Valid(key[c], cred[c].user)
              /\ cred[c].good /\ cred[c].user \in Account,
         where \in {"crashed", "killed"} \/ queue[c] = <<>>
           \/ at[c] \notin {"get_session", "validate", "crashed", "killed"},
         cred' = cred, key' = key, sessions' = sessions, lastSid' = lastSid, server' = server
  PROVE  LoginInv'
<1>1. /\ queue' = queue /\ at'[c] = where /\ answer'[c] = NoAnswer
      /\ \A d \in Client \ {c} : at'[d] = at[d] /\ answer'[d] = answer[d]
  BY TypedCalls, GoesEffect DEF Typed
<1>2. ClientInv(c)
  BY DEF LoginInv
<1>3. ASSUME NEW i \in DOMAIN queue[c] PROVE RequestInv(c, i)'
  <2>1. PICK r : r = queue[c][i]
    OBVIOUS
  <2>2. RequestInv(c, i) /\ queue'[c][i] = r /\ queue[c] # <<>>
    BY <1>1, <1>2, <1>3, <2>1 DEF ClientInv
  <2>3. r.op \in Signed => Valid(r.id, r.hash.cred.user)' /\ r.hash = Recomputed(r)'
    BY <2>1, <2>2 DEF RequestInv, Valid, Recomputed
  <2>4. r.op \in {"get_session", "validate"} => where \in {"crashed", "killed"}
    BY <2>1, <2>2 DEF RequestInv
  <2>5. r.op = "invalidate" => where # "menu"
    BY <2>1, <2>2 DEF RequestInv
  <2>6. InMenu(c)' <=> where = "menu"
    BY <1>1 DEF InMenu, Calls
  <2> QED
    BY <1>1, <2>1, <2>2, <2>3, <2>4, <2>5, <2>6 DEF RequestInv, Pending, Valid
<1>4. ~Waiting(c)' /\ ~Answered(c)' /\ at'[c] \notin {"get_session", "validate"}
  BY <1>1 DEF Waiting, Answered, NoAnswer, Calls
<1>5. answer'[c].code \notin Refusals /\ answer'[c].code # "OK"
  BY <1>1 DEF NoAnswer, Refusals
<1>6. InMenu(c)' => Valid(key[c], cred[c].user) /\ cred[c].good /\ cred[c].user \in Account
  <2>1. InMenu(c)' => where = "menu"
    BY <1>1 DEF InMenu, Calls
  <2> QED
    BY <1>2, <2>1 DEF ClientInv
<1>7. ClientInv(c)'
  BY <1>1, <1>3, <1>4, <1>5, <1>6 DEF ClientInv, Valid
<1> QED
  BY <1>1, <1>7, ClientStep

\* The connection after a request r was added: the ones before keep what is said of
\* them as long as they are signed or an invalidate that only get_session follows.
LEMMA AddedRequests ==
  ASSUME Typed, LoginInv, NEW c \in Client, NEW r \in Request,
         queue'[c] = Append(queue[c], r),
         queue[c] = <<>> \/ at[c] \notin {"get_session", "validate", "crashed", "killed"},
         queue[c] = <<>> \/ (~InMenu(c)' /\ r.op = "get_session") \/ InMenu(c),
         key' = key, sessions' = sessions,
         RequestInv(c, Len(queue[c]))',
         NEW i \in DOMAIN queue'[c]
  PROVE  RequestInv(c, i)'
<1> DEFINE n == Len(queue[c])
<1>1. /\ n \in Nat /\ DOMAIN queue[c] = 1..n /\ Len(queue'[c]) = n + 1
      /\ DOMAIN queue'[c] = 1..(n + 1) /\ queue'[c][n + 1] = r
      /\ \A j \in 1..n : queue'[c][j] = queue[c][j]
  BY TypedCalls DEF Typed, CallsTyped
<1>2. CASE i = n + 1
  BY <1>2
<1>3. CASE i # n + 1
  <2>1. i \in 1..n /\ queue[c] # <<>> /\ queue'[c][i] = queue[c][i]
    BY <1>1, <1>3
  <2>2. PICK q : q = queue[c][i]
    OBVIOUS
  <2>3. RequestInv(c, i) /\ at[c] \notin {"get_session", "validate", "crashed", "killed"}
    BY <1>1, <2>1 DEF LoginInv, ClientInv
  <2>4. q.op # "get_session" /\ q.op # "validate"
    BY <2>2, <2>3 DEF RequestInv
  <2>5. q.op = "invalidate" =>
          /\ q.id = key[c] /\ key[c] \in DOMAIN sessions /\ ~InMenu(c)
          /\ \A j \in (i + 1)..n : queue[c][j].op = "get_session"
    BY <2>2, <2>3 DEF RequestInv
  <2>6. q.op = "invalidate" => ~InMenu(c)' /\ r.op = "get_session"
    BY <2>1, <2>5
  <2>7. q.op \in Signed =>
         /\ q.id = key[c] /\ Valid(key[c], q.hash.cred.user)
         /\ q.hash.cred.good /\ q.hash.cred.user \in Account
         /\ q.hash = Recomputed(q)
    BY <2>2, <2>3 DEF RequestInv
  <2>8. q.op \in Signed => Valid(key[c], q.hash.cred.user)' /\ q.hash = Recomputed(q)'
    BY <2>7 DEF Valid, Recomputed
  <2>9. q.op = "invalidate" => \A j \in (i + 1)..(n + 1) : queue'[c][j].op = "get_session"
    <3> SUFFICES ASSUME q.op = "invalidate", NEW j \in (i + 1)..(n + 1)
                 PROVE  queue'[c][j].op = "get_session"
      OBVIOUS
    <3>1. CASE j = n + 1
      BY <1>1, <2>6, <3>1
    <3>2. CASE j # n + 1
      <4>1. j \in (i + 1)..n /\ j \in 1..n
        BY <1>1, <2>1, <3>2
      <4> QED
        BY <1>1, <2>5, <4>1
    <3> QED
      BY <3>1, <3>2
  <2>10. queue'[c][i] = q /\ Len(queue'[c]) = n + 1
    BY <1>1, <2>1, <2>2
  <2> HIDE DEF n
  <2> QED
    BY <2>4, <2>5, <2>6, <2>7, <2>8, <2>9, <2>10 DEF RequestInv
<1> QED
  BY <1>2, <1>3

\* What holds of a client that has just asked for something.
LEMMA AskedSelf ==
  ASSUME Typed, NEW c \in Client, NEW where \in Calls, NEW r \in Request,
         queue'[c] = Append(queue[c], r), r.op = OperationAt(where),
         at'[c] = where, answer'[c] = NoAnswer,
         \A i \in DOMAIN queue'[c] : RequestInv(c, i)',
         InMenu(c)' => Valid(key[c], cred[c].user)' /\ cred'[c].good /\ cred'[c].user \in Account
  PROVE  ClientInv(c)'
<1>1. queue[c] \in Seq(Request)
  BY TypedCalls DEF Typed, CallsTyped
<1>2. queue'[c] # <<>> /\ queue'[c][Len(queue'[c])] = r
  BY <1>1
<1>3. ~Answered(c)' /\ answer'[c].code # "OK" /\ answer'[c].code \notin Refusals
  BY DEF Answered, NoAnswer, Refusals
<1> QED
  BY <1>2, <1>3 DEF ClientInv

\* The request added last.
LEMMA LastRequest ==
  ASSUME CallsTyped, NEW c \in Client, NEW r \in Request, queue'[c] = Append(queue[c], r)
  PROVE  /\ Len(queue[c]) \in Nat /\ Len(queue'[c]) = Len(queue[c]) + 1
         /\ queue'[c][Len(queue'[c])] = r
         /\ queue[c] = <<>> => Len(queue'[c]) = 1 /\ DOMAIN queue'[c] = {1}
<1>1. queue[c] \in Seq(Request)
  BY DEF CallsTyped
<1> QED
  BY <1>1

\* A signed call of a client that is logged in.
LEMMA SignedStep ==
  ASSUME Typed, LoginInv, NEW c \in Client, InMenu(c), NEW where \in Calls,
         NEW op \in Signed \cup {"invalidate"}, op = OperationAt(where),
         NEW argument \in Argument, AskSigned(c, where, op, argument),
         op = "invalidate" <=> where \in {"logout", "goodbye"},
         where \notin {"get_session", "validate"},
         cred' = cred, key' = key, sessions' = sessions, lastSid' = lastSid, server' = server
  PROVE  LoginInv'
<1>1. PICK r \in Request :
         /\ r.op = op /\ r.id = key[c] /\ r.user = cred[c].user
         /\ r.arg = XdrArgument(argument)
         /\ r.hash = HashParam(key[c], argument, cred[c])
         /\ queue'[c] = Append(queue[c], r)
  BY SignedEffect
<1>2. /\ at'[c] = where /\ answer'[c] = NoAnswer
      /\ \A d \in Client \ {c} :
           queue'[d] = queue[d] /\ at'[d] = at[d] /\ answer'[d] = answer[d]
  BY SignedEffect
<1>3. Valid(key[c], cred[c].user) /\ cred[c].good /\ cred[c].user \in Account
  BY DEF LoginInv, ClientInv
<1>4. r.hash.cred = cred[c] /\ r.hash = HashParam(r.id, r.arg, cred[c])
  <2>1. r.hash.cred = cred[c]
    <3>1. HashParam(key[c], argument, cred[c]).cred = cred[c]
      BY DEF HashParam
    <3> QED
      BY <1>1, <3>1
  <2>2. HashParam(r.id, r.arg, cred[c]) = HashParam(key[c], XdrArgument(argument), cred[c])
    BY <1>1
  <2>3. HashParam(key[c], XdrArgument(argument), cred[c]) = HashParam(key[c], argument, cred[c])
    BY XdrHash
  <2> QED
    BY <1>1, <2>1, <2>2, <2>3
<1>5. cred[c] = [user |-> sessions[r.id].user, good |-> TRUE]
  <2>1. cred[c] \in Credentials /\ sessions[r.id].user = cred[c].user
    BY <1>1, <1>3 DEF Typed, TypeOK, Valid
  <2> QED
    BY <1>3, <2>1 DEF Credentials
<1>6. r.hash = Recomputed(r)
  BY <1>4, <1>5 DEF Recomputed
<1>7. Valid(key[c], r.hash.cred.user)' /\ r.hash = Recomputed(r)'
  BY <1>3, <1>4, <1>6 DEF Valid, Recomputed
<1>8. InMenu(c)' <=> where \notin {"logout", "goodbye"}
  BY <1>2 DEF InMenu, Calls
<1>9. Len(queue'[c]) \in Nat /\ queue'[c][Len(queue'[c])] = r
  BY <1>1, LastRequest, TypedCalls DEF Typed
<1>10. RequestInv(c, Len(queue[c]))'
  <2>1. r.op = "invalidate" => r.id = key'[c] /\ key'[c] \in DOMAIN sessions' /\ ~InMenu(c)'
    BY <1>1, <1>3, <1>8 DEF Valid
  <2>2. r.op \in Signed => /\ r.id = key'[c] /\ Valid(key[c], r.hash.cred.user)'
                           /\ r.hash.cred.good /\ r.hash.cred.user \in Account
                           /\ r.hash = Recomputed(r)'
    BY <1>1, <1>3, <1>4, <1>7
  <2>3. r.op \notin {"get_session", "validate"}
    BY <1>1 DEF Signed
  <2>4. PICK n \in Nat : n = Len(queue'[c])
    BY <1>9
  <2>5. \A j \in (n + 1)..n : FALSE
    BY <2>4
  <2>6. queue'[c][n] = r
    BY <1>9, <2>4
  <2> QED
    BY <2>1, <2>2, <2>3, <2>4, <2>5, <2>6 DEF RequestInv
<1>11. \A i \in DOMAIN queue'[c] : RequestInv(c, i)'
  <2>1. at[c] \notin {"get_session", "validate", "crashed", "killed"}
    BY DEF InMenu
  <2> QED
    BY <1>1, <1>10, <2>1, AddedRequests
<1>12. Valid(key[c], cred[c].user)'
  BY <1>3 DEF Valid
<1>13. ClientInv(c)'
  BY <1>1, <1>2, <1>3, <1>11, <1>12, AskedSelf
<1> QED
  BY <1>2, <1>13, ClientStep

LEMMA LoginStep ==
  ASSUME Typed, LoginInv, NEW c \in Client, Login(c)
  PROVE  LoginInv'
<1>0. /\ at[c] = "login" /\ key' = key /\ sessions' = sessions /\ lastSid' = lastSid
      /\ server' = server /\ CallsTyped /\ cred \in [Client -> Credentials]
  BY TypedCalls DEF Login, sessionVars, Typed, TypeOK
<1>1. PICK u \in User, good \in BOOLEAN :
        /\ cred' = [cred EXCEPT ![c] = [user |-> u, good |-> good]]
        /\ Ask(c, "get_session", "get_session", 0, NoText,
               HashParam(0, NoText, [user |-> u, good |-> good]))
  BY DEF Login
<1>2. PICK cr \in Credentials : cr = [user |-> u, good |-> good]
  BY DEF Credentials
<1>3. PICK hash \in Digest : hash = HashParam(0, NoText, cr)
  BY HashType, NoTextType
<1>4. hash.cred = cr
  BY <1>3 DEF HashParam
<1>5. cred'[c] = cr /\ \A d \in Client \ {c} : cred'[d] = cred[d]
  BY <1>0, <1>1, <1>2
<1>6. Ask(c, "get_session", "get_session", 0, NoText, hash)
  BY <1>1, <1>2, <1>3
<1>7. PICK where \in Calls, op \in Operations, id \in Nat :
        where = "get_session" /\ op = "get_session" /\ id = 0
  BY DEF Calls, Operations
<1>8. PICK r \in Request :
        r.op = op /\ r.user = hash.cred.user /\ queue'[c] = Append(queue[c], r)
  BY <1>0, <1>6, <1>7, AskEffect, NoTextType
<1>9. /\ at'[c] = where /\ answer'[c] = NoAnswer
      /\ \A d \in Client \ {c} :
           queue'[d] = queue[d] /\ at'[d] = at[d] /\ answer'[d] = answer[d]
  BY <1>0, <1>6, <1>7, AskEffect, NoTextType
<1>10. RequestInv(c, Len(queue[c]))'
  <2>1. queue'[c][Len(queue'[c])] = r
    BY <1>0, <1>8, LastRequest
  <2> QED
    BY <1>4, <1>5, <1>7, <1>8, <1>9, <2>1 DEF RequestInv, Signed
<1>11. ~InMenu(c)' /\ r.op = OperationAt(where)
  BY <1>7, <1>8, <1>9 DEF InMenu, OperationAt, OperationOf
<1>12. \A i \in DOMAIN queue'[c] : RequestInv(c, i)'
  BY <1>0, <1>7, <1>8, <1>10, <1>11, AddedRequests
<1>13. ClientInv(c)'
  BY <1>8, <1>9, <1>11, <1>12, AskedSelf
<1> QED
  BY <1>0, <1>5, <1>9, <1>13, ClientStep

LEMMA GotSessionStep ==
  ASSUME Typed, LoginInv, NEW c \in Client, GotSession(c)
  PROVE  LoginInv'
<1>0. /\ at[c] = "get_session" /\ Answered(c) /\ cred' = cred /\ sessions' = sessions
      /\ lastSid' = lastSid /\ server' = server /\ CallsTyped /\ ClientInv(c)
      /\ key' = [key EXCEPT ![c] = answer[c].id] /\ key \in [Client -> Nat]
  BY TypedCalls DEF GotSession, sessionVars, Typed, TypeOK, LoginInv
<1>1. PICK arm \in Arm :
        Ask(c, "validate", "validate", answer[c].id, [arm |-> arm, text |-> ""],
            HashParam(answer[c].id, NoText, cred[c]))
  BY DEF GotSession
<1>2. PICK id \in Nat : id = answer[c].id
  BY DEF Typed, TypeOK, Answer
<1>3. PICK hash \in Digest : hash = HashParam(id, NoText, cred[c])
  BY HashType, NoTextType DEF Typed, TypeOK
<1>4. PICK argument \in Argument : argument = [arm |-> arm, text |-> ""]
  BY DEF Argument, Texts
<1>5. Ask(c, "validate", "validate", id, argument, hash)
  BY <1>1, <1>2, <1>3, <1>4
<1>6. PICK where \in Calls, op \in Operations : where = "validate" /\ op = "validate"
  BY DEF Calls, Operations
<1>7. PICK r \in Request :
        r.op = op /\ r.id = id /\ r.hash = hash /\ queue'[c] = Append(queue[c], r)
  BY <1>0, <1>5, <1>6, AskEffect
<1>8. /\ at'[c] = where /\ answer'[c] = NoAnswer
      /\ \A d \in Client \ {c} :
           queue'[d] = queue[d] /\ at'[d] = at[d] /\ answer'[d] = answer[d]
  BY <1>0, <1>5, <1>6, AskEffect
<1>9. queue[c] = <<>> /\ Pending(id, cred[c].user)
  BY <1>0, <1>2 DEF ClientInv
<1>10. Len(queue'[c]) = 1 /\ DOMAIN queue'[c] = {1} /\ queue'[c][1] = r
  BY <1>0, <1>7, <1>9, LastRequest
<1>11. key'[c] = id /\ \A d \in Client \ {c} : key'[d] = key[d]
  BY <1>0, <1>2
<1>12. hash.cred = cred[c]
  BY <1>3 DEF HashParam
<1>13. RequestInv(c, 1)'
  <2>1. Pending(key[c], cred[c].user)'
    BY <1>0, <1>9, <1>11 DEF Pending
  <2> QED
    BY <1>0, <1>6, <1>7, <1>8, <1>10, <1>11, <1>12, <2>1 DEF RequestInv, Signed
<1>14. ClientInv(c)'
  <2>1. ~InMenu(c)' /\ r.op = OperationAt(where)
    BY <1>6, <1>7, <1>8 DEF InMenu, OperationAt, OperationOf
  <2>2. \A i \in DOMAIN queue'[c] : RequestInv(c, i)'
    BY <1>10, <1>13
  <2> QED
    BY <1>7, <1>8, <2>1, <2>2, AskedSelf
<1>15. ASSUME NEW d \in Client \ {c} PROVE ClientInv(d)'
  <2>1. ClientInv(d)
    BY DEF LoginInv
  <2>2. /\ at[d] = "get_session" /\ Answered(d) =>
           answer[d].id \in DOMAIN sessions' /\ sessions'[answer[d].id] = sessions[answer[d].id]
    BY <1>0, <2>1 DEF ClientInv, Pending
  <2> QED
    BY <1>0, <1>8, <1>11, <2>1, <2>2, Bystander
<1>16. KeyInv'
  <2>1. id \in 1..lastSid
    BY <1>0, <1>2, PendingIds
  <2>2. ~Answered(c)' /\ \A d \in Client \ {c} : key[d] # id
    BY <1>0, <1>2, <1>8 DEF Answered, NoAnswer, LoginInv, KeyInv
  <2>3. \A d \in Client : (at[d] = "get_session" /\ Answered(d))' =>
          d # c /\ at[d] = "get_session" /\ Answered(d) /\ answer'[d] = answer[d]
                /\ answer[d].id # id
    BY <1>0, <1>2, <1>8, <2>2 DEF Answered, LoginInv, KeyInv
  <2>4. lastSid \in Nat /\ KeyInv
    BY DEF Typed, TypeOK, LoginInv
  <2>5. \A d \in Client : key'[d] \in 0..lastSid'
    BY <1>0, <1>11, <2>1, <2>4 DEF KeyInv
  <2>6. \A d, e \in Client : d # e /\ key'[d] = key'[e] => key'[d] = 0
    BY <1>11, <2>2, <2>4 DEF KeyInv
  <2>7. \A d, e \in Client :
          (at[d] = "get_session" /\ Answered(d))' => key'[e] # answer'[d].id
    BY <1>11, <2>3, <2>4 DEF KeyInv
  <2>8. \A d, e \in Client :
          (at[d] = "get_session" /\ Answered(d))' /\ (at[e] = "get_session" /\ Answered(e))'
            /\ d # e => answer'[e].id # answer'[d].id
    BY <2>3, <2>4 DEF KeyInv
  <2> QED
    BY <2>5, <2>6, <2>7, <2>8 DEF KeyInv
<1> QED
  BY <1>0, <1>14, <1>15, <1>16 DEF LoginInv

LEMMA AnsweredClient ==
  ASSUME LoginInv, NEW c \in Client, Answered(c)
  PROVE  queue[c] = <<>> /\ ClientInv(c)
BY DEF LoginInv, ClientInv

LEMMA ClientLogin ==
  ASSUME Typed, LoginInv, NEW c \in Client,
         Connect(c) \/ Choose(c) \/ GotValidate(c) \/ GotSubscribe(c) \/ GotUnsubscribe(c)
           \/ GotOther(c) \/ TimeOut(c) \/ Kill(c)
  PROVE  LoginInv'
<1>0. cred' = cred /\ key' = key /\ sessions' = sessions /\ lastSid' = lastSid /\ server' = server
  BY DEF Connect, Choose, GotValidate, GotSubscribe, GotUnsubscribe, GotOther, TimeOut, Kill,
         sessionVars
<1>1. ASSUME NEW where \in Place \ Calls, Goes(c, where),
             where = "menu" =>
               \/ InMenu(c)
               \/ /\ queue[c] = <<>> /\ Valid(key[c], cred[c].user)
                  /\ cred[c].good /\ cred[c].user \in Account,
             queue[c] = <<>> \/ where \in {"crashed", "killed"}
               \/ at[c] \notin {"get_session", "validate", "crashed", "killed"}
      PROVE  LoginInv'
  BY <1>0, <1>1, GoesStep
<1>2. {"menu", "login", "refused", "exited", "crashed", "killed"} \subseteq Place \ Calls
  BY DEF Place, Calls, Ended
<1>3. ASSUME AskSigned(c, "goodbye", "invalidate", NoText), at[c] = "leave"
      PROVE  LoginInv'
  <2>1. PICK where \in Calls, op \in Signed \cup {"invalidate"} :
          where = "goodbye" /\ op = "invalidate"
    BY DEF Calls
  <2>2. PICK argument \in Argument : argument = NoText
    BY NoTextType
  <2>3. AskSigned(c, where, op, argument) /\ InMenu(c) /\ op = OperationAt(where)
    BY <1>3, <2>1, <2>2 DEF InMenu, OperationAt
  <2> QED
    BY <1>0, <2>1, <2>3, SignedStep
<1>4. CASE Connect(c)
  <2>1. \E where \in {"login", "refused"} : Goes(c, where)
    BY <1>4 DEF Connect
  <2> QED
    BY <1>1, <1>2, <1>4, <2>1 DEF Connect
<1>5. CASE Choose(c)
  <2>1. PICK choice \in Menu : AskSigned(c, choice, OperationOf(choice), ArgumentOf(choice))
    BY <1>5 DEF Choose
  <2>2. at[c] = "menu" /\ InMenu(c)
    BY <1>5 DEF Choose, InMenu
  <2>3. PICK op \in Signed \cup {"invalidate"} : op = OperationOf(choice)
    BY MenuTypes
  <2>4. PICK argument \in Argument : argument = ArgumentOf(choice)
    BY ArgumentType
  <2>5. /\ choice \in MenuChoice /\ choice \in Calls /\ AskSigned(c, choice, op, argument)
        /\ op = OperationAt(choice) /\ (op = "invalidate" <=> choice \in {"logout", "goodbye"})
        /\ choice \notin {"get_session", "validate"}
    BY <2>1, <2>3, <2>4, LimitAssumption, MenuTypes DEF MenuChoice, OperationAt, OperationOf
  <2> QED
    BY <1>0, <2>2, <2>5, SignedStep
<1>6. CASE GotValidate(c)
  <2>1. queue[c] = <<>> /\ ClientInv(c) /\ at[c] = "validate"
    BY <1>6, AnsweredClient DEF GotValidate
  <2>2. CASE answer[c].code = "OK"
    <3>1. Valid(key[c], cred[c].user) /\ cred[c].good /\ cred[c].user \in Account
      BY <2>1, <2>2 DEF ClientInv
    <3>2. Goes(c, "menu")
      BY <1>6, <2>2 DEF GotValidate
    <3> QED
      BY <1>1, <1>2, <2>1, <3>1, <3>2
  <2>3. CASE answer[c].code # "OK"
    <3>1. Goes(c, "login")
      BY <1>6, <2>3 DEF GotValidate
    <3> QED
      BY <1>1, <1>2, <2>1, <3>1
  <2> QED
    BY <2>2, <2>3
<1>7. CASE GotSubscribe(c)
  <2>1. Goes(c, "menu") /\ InMenu(c) /\ queue[c] = <<>>
    BY <1>7, AnsweredClient DEF GotSubscribe, InMenu
  <2> QED
    BY <1>1, <1>2, <2>1
<1>8. CASE GotUnsubscribe(c)
  <2>1. InMenu(c) /\ queue[c] = <<>>
    BY <1>8, AnsweredClient DEF GotUnsubscribe, InMenu
  <2>2. CASE at[c] = "leave"
    BY <1>3, <1>8, <2>2 DEF GotUnsubscribe
  <2>3. CASE at[c] # "leave"
    <3>1. Goes(c, "menu")
      BY <1>8, <2>3 DEF GotUnsubscribe
    <3> QED
      BY <1>1, <1>2, <2>1, <3>1
  <2> QED
    BY <2>2, <2>3
<1>9. CASE GotOther(c)
  <2>1. queue[c] = <<>>
    BY <1>9, AnsweredClient DEF GotOther
  <2>2. \/ Goes(c, "menu") /\ InMenu(c)
        \/ \E where \in {"login", "exited"} : Goes(c, where)
    BY <1>9 DEF GotOther, InMenu
  <2> QED
    BY <1>1, <1>2, <2>1, <2>2
<1>10. CASE TimeOut(c)
  <2>1. CASE at[c] = "leave" /\ childPID[c] = 0
    BY <1>3, <1>10, <2>1 DEF TimeOut, AfterNull
  <2>2. CASE ~(at[c] = "leave" /\ childPID[c] = 0)
    <3>1. \/ Goes(c, "menu") /\ at[c] \in {"set_channel", "unsubscribe"}
          \/ at[c] \in {"logout", "goodbye"} /\ \E where \in {"login", "exited"} : Goes(c, where)
          \/ Goes(c, "crashed")
      BY <1>10, <2>2 DEF TimeOut, AfterNull
    <3> QED
      BY <1>1, <1>2, <3>1 DEF InMenu
  <2> QED
    BY <2>1, <2>2
<1>11. CASE Kill(c)
  <2>1. Goes(c, "killed")
    BY <1>11 DEF Kill
  <2> QED
    BY <1>1, <1>2, <2>1
<1> QED
  BY <1>4, <1>5, <1>6, <1>7, <1>8, <1>9, <1>10, <1>11

LEMMA LoginInvStep == Typed /\ LoginInv /\ [Next]_vars => LoginInv'
<1> SUFFICES ASSUME Typed, LoginInv, [Next]_vars PROVE LoginInv'
  OBVIOUS
<1>1. CASE ServerStarts
  BY <1>1, QuietStep DEF ServerStarts, clientVars
<1>2. ASSUME NEW p, ReceiverStarts(p) \/ ReceiverEnds(p) PROVE LoginInv'
  BY <1>2, QuietStep DEF ReceiverStarts, ReceiverEnds, clientVars, LoginInv
<1>3. CASE UNCHANGED vars
  BY <1>3, QuietStep DEF vars, clientVars, LoginInv
<1> QED
  BY <1>1, <1>2, <1>3, ServeStep, DeliverStep, LoginStep, GotSessionStep, ClientLogin
  DEF Next, Got

LEMMA Invariance == Spec => []IInv
<1>1. Init => IInv
  BY InitTyped, InitLogin DEF IInv
<1>2. IInv /\ [Next]_vars => IInv'
  BY TypeStep, LoginInvStep DEF IInv
<1> QED
  BY <1>1, <1>2, PTL DEF Spec

\* delete_session (dispatcher.c 239-258) is never called with an id that is not in
\* the list, so its walk never reads through a NULL pointer.
THEOREM ServerSurvivesAlways == Spec => []ServerSurvives
<1>1. IInv => ServerSurvives
  BY DEF IInv, LoginInv, ServerSurvives
<1> QED
  BY Invariance, <1>1, PTL

\* A client at its menu has a validated session of its own, for the user whose right
\* password was typed.
THEOREM LoggedInAlways == Spec => []LoggedIn
<1>1. IInv => LoggedIn
  <2> SUFFICES ASSUME IInv, NEW c \in Client, InMenu(c)
               PROVE  /\ key[c] \in DOMAIN sessions
                      /\ sessions[key[c]] = [user |-> cred[c].user, validated |-> TRUE]
                      /\ cred[c].good
                      /\ \A d \in Client \ {c} : key[d] # key[c]
    BY DEF LoggedIn
  <2>1. Valid(key[c], cred[c].user) /\ cred[c].good
    BY DEF IInv, LoginInv, ClientInv
  <2>2. 0 \notin DOMAIN sessions
    BY DEF IInv, Typed, TypeOK
  <2> QED
    BY <2>1, <2>2 DEF Valid, IInv, LoginInv, KeyInv
<1> QED
  BY Invariance, <1>1, PTL

\* What hash_param signs is what check_session recomputes: a client that is logged
\* in is refused nothing.
THEOREM NeverRefusedAlways == Spec => []NeverRefused
<1>1. IInv => NeverRefused
  BY DEF IInv, LoginInv, ClientInv, NeverRefused, Refusals
<1> QED
  BY Invariance, <1>1, PTL

LEMMA LoginNeeded ==
  ASSUME Typed, LoginInv, [Next]_vars,
         subs' # subs \/ topic' # topic \/ (publishing = <<>> /\ publishing' # <<>>)
  PROVE  \E c \in Client :
           /\ Actor(c) /\ Req(c).id \in DOMAIN sessions
           /\ sessions[Req(c).id] = [user |-> Req(c).hash.cred.user, validated |-> TRUE]
           /\ Req(c).hash.cred.good
<1>1. PICK c \in Client :
        ServeSubscribe(c) \/ ServeUnsubscribe(c) \/ ServeSetChannel(c) \/ ServePublish(c)
  BY DEF Next, vars, tableVars, ServeGetSession, ServeValidate, ServeInvalidate, Serve,
         Connect, Login, Choose, Got, GotSession, GotValidate, GotSubscribe, GotUnsubscribe,
         GotOther, TimeOut, Kill, ServerStarts, Deliver, Contact, Receive, DeliveryFails, ReceiverStarts, ReceiverEnds
<1>2. PICK op \in Signed : Serving(c, op)
  BY <1>1 DEF ServeSubscribe, ServeUnsubscribe, ServeTable, ServeSetChannel, ServePublish, Signed
<1>3. /\ queue[c] # <<>> /\ publishing = <<>>
      /\ Req(c).id = key[c] /\ Valid(key[c], Req(c).hash.cred.user) /\ Req(c).hash.cred.good
  BY <1>2, HeadFacts
<1>4. Actor(c)
  <2>1. CASE \E code, id : Reply(c, code, id)
    <3>1. queue[c]' = Tail(queue[c])
      BY <2>1, TypedCalls DEF Reply, Typed, CallsTyped
    <3> QED
      BY <1>3, <3>1 DEF Actor
  <2>2. CASE ServePublish(c) /\ publishing' # <<>>
    <3> DEFINE p == [client |-> c, next |-> 1, to |-> 0, heard |-> <<>>,
                     audience |-> {childPID[d] : d \in {e \in Client : Settled(e)}}]
    <3>1. publishing' = <<p>>
      BY <1>3, <2>2 DEF ServePublish
    <3>2. publishing'[1] = p /\ p.client = c
      BY <3>1
    <3> HIDE DEF p
    <3> QED
      BY <1>3, <2>2, <3>2 DEF Actor
  <2>3. CASE ServePublish(c) /\ publishing' = <<>>
    <3>1. ~(CheckSession(Req(c)) = "OK" /\ subs # <<>>)
      BY <2>3 DEF ServePublish
    <3> QED
      BY <2>1, <2>3, <3>1 DEF ServePublish, ReplyCode
  <2>4. CASE ServeSetChannel(c)
    BY <2>1, <2>4 DEF ServeSetChannel, ReplyCode
  <2>5. CASE ServeSubscribe(c) \/ ServeUnsubscribe(c)
    BY <2>1, <2>5 DEF ServeSubscribe, ServeUnsubscribe, ServeTable, ReplyCode
  <2> QED
    BY <1>1, <2>2, <2>3, <2>4, <2>5
<1> QED
  BY <1>3, <1>4 DEF Valid

\* The table, the topic and the messages change hands only for clients whose password
\* was checked, although check_session never asks whether it was.
THEOREM ActionsNeedLoginAlways == Spec => ActionsNeedLogin
<1> DEFINE A == subs' # subs \/ topic' # topic \/ (publishing = <<>> /\ publishing' # <<>>) =>
       \E c \in Client :
         /\ Actor(c) /\ Req(c).id \in DOMAIN sessions
         /\ sessions[Req(c).id] = [user |-> Req(c).hash.cred.user, validated |-> TRUE]
         /\ Req(c).hash.cred.good
<1>1. IInv /\ [Next]_vars => [A]_vars
  BY LoginNeeded DEF IInv
<1>2. ActionsNeedLogin <=> [][A]_vars
  BY DEF ActionsNeedLogin
<1> HIDE DEF A
<1> QED
  BY Invariance, <1>1, <1>2, PTL DEF Spec

-----------------------------------------------------------------------------
(* The table and the receivers.                                            *)

\* The receiver a client forked last runs; its host is in the table.
Child(c) == childPID[c] # 0 /\ Running(childPID[c])
On(c) == Listed(subs, HostOf[c])

ChildInv == \A c \in Client : childPID[c] # 0 => receivers[childPID[c]].host = HostOf[c]
KnownInv == \A p \in DOMAIN receivers : Running(p) => \E c \in Client : childPID[c] = p

\* The table has changed and the client has not read the answer.
Ahead(c) == answer[c].code = "OK" /\ at[c] \in {"subscribe", "unsubscribe", "leave"}

\* A subscribe is waited for.  So is an unsubscribe, unless it was given up, which a
\* client survives only if it never forked a receiver.
QueueInv(c) ==
  \A i \in DOMAIN queue[c] :
    /\ queue[c][i].op = "subscribe" => i = Len(queue[c]) /\ at[c] = "subscribe"
    /\ queue[c][i].op = "unsubscribe" =>
         \/ i = Len(queue[c]) /\ at[c] \in {"unsubscribe", "leave"}
         \/ childPID[c] = 0

MatchInv(c) ==
  /\ ~Ahead(c) => (On(c) <=> Child(c))
  /\ Ahead(c) => (On(c) <=> at[c] = "subscribe") /\ (Child(c) <=> at[c] # "subscribe")

Agree(c) == at[c] \notin Ended => QueueInv(c) /\ MatchInv(c)

Agreement == OnceEach(subs) /\ ChildInv /\ KnownInv /\ \A c \in Client : Agree(c)
AgreeInv == Separate => Agreement

LEMMA InitAgree == Init => AgreeInv
<1> SUFFICES ASSUME Init PROVE Agreement
  BY DEF AgreeInv
<1>1. ChildInv /\ OnceEach(subs) /\ KnownInv
  BY DEF Init, ReceiversInit, ChildInv, OnceEach, KnownInv
<1>2. ASSUME NEW c \in Client PROVE Agree(c)
  BY DEF Init, Agree, QueueInv, MatchInv, Ahead, On, Child, Listed, NoAnswer
<1> QED
  BY <1>1, <1>2 DEF Agreement

LEMMA SeparateStays ==
  ASSUME Typed, [Next]_vars, Separate'
  PROVE  Separate /\ \A p \in DOMAIN receivers : ~ReceiverEnds(p)
<1>0. faults \in [FaultKind -> Nat] /\ FaultKind = {"timeout", "kill", "receiver"}
  BY DEF Typed, TypeOK, FaultKind
<1>1. faults' = faults \/ \E k \in FaultKind : Fault(k)
  <2>1. CASE UNCHANGED vars
    BY <2>1 DEF vars, boundVars
  <2>2. ASSUME NEW c \in Client, Serve(c) PROVE faults' = faults
    BY <2>2 DEF Serve, ServeGetSession, ServeValidate, ServeInvalidate, ServeSubscribe,
                ServeUnsubscribe, ServeTable, ServeSetChannel, ServePublish, boundVars
  <2>3. ASSUME NEW c \in Client, Connect(c) \/ Login(c) \/ Choose(c) \/ Got(c) PROVE faults' = faults
    BY <2>3 DEF Connect, Login, Choose, Got, GotSession, GotValidate, GotSubscribe,
                GotUnsubscribe, GotOther, boundVars
  <2>4. ASSUME NEW c \in Client, TimeOut(c) \/ Kill(c) PROVE \E k \in FaultKind : Fault(k)
    BY <1>0, <2>4 DEF TimeOut, Kill
  <2>5. CASE Deliver \/ ServerStarts
    BY <2>5 DEF Deliver, Contact, Receive, DeliveryFails, ServerStarts, boundVars
  <2>6. ASSUME NEW p, ReceiverStarts(p) \/ ReceiverEnds(p)
        PROVE  faults' = faults \/ \E k \in FaultKind : Fault(k)
    BY <1>0, <2>6 DEF ReceiverStarts, ReceiverEnds, boundVars
  <2> QED
    BY <2>1, <2>2, <2>3, <2>4, <2>5, <2>6 DEF Next
<1>2. ASSUME NEW k \in FaultKind, Fault(k)
      PROVE  /\ faults'["receiver"] >= faults["receiver"]
             /\ k = "receiver" => faults'["receiver"] # 0
  BY <1>0, <1>2 DEF Fault
<1>3. faults["receiver"] \in Nat /\ faults'["receiver"] = 0
  BY <1>0 DEF Separate
<1>4. faults["receiver"] = 0
  BY <1>1, <1>2, <1>3
<1>5. \A p \in DOMAIN receivers : ~ReceiverEnds(p)
  BY <1>0, <1>2, <1>3 DEF ReceiverEnds
<1> QED
  BY <1>4, <1>5 DEF Separate

LEMMA ChildRange ==
  ASSUME Typed, NEW c \in Client
  PROVE  /\ ReceiversTypeOK /\ Len(receivers) \in Nat /\ DOMAIN receivers = 1..Len(receivers)
         /\ childPID \in [Client -> 0..Len(receivers)]
         /\ childPID[c] # 0 => childPID[c] \in 1..Len(receivers)
BY DEF Typed, TypeOK, ReceiversTypeOK

\* What a step does to the receivers: a client forks one, or ends its own.
SameProcesses == receivers' = receivers /\ childPID' = childPID
Forked(c) ==
  /\ Fork(HostOf[c]) /\ portmap' = portmap
  /\ childPID' = [childPID EXCEPT ![c] = Len(receivers')]
EndedChild(c) == childPID[c] # 0 /\ End(childPID[c]) /\ UNCHANGED <<childPID, portmap>>

LEMMA SameChildren ==
  ASSUME SameProcesses
  PROVE  /\ ChildInv => ChildInv'
         /\ KnownInv => KnownInv'
         /\ \A d \in Client : Child(d)' <=> Child(d)
BY DEF SameProcesses, ChildInv, KnownInv, Child, Running

LEMMA ForkedChild ==
  ASSUME Typed, ChildInv, NEW c \in Client, Forked(c)
  PROVE  /\ ChildInv' /\ Child(c)'
         /\ \A d \in Client \ {c} : (Child(d)' <=> Child(d)) /\ childPID'[d] = childPID[d]
         /\ KnownInv /\ ~Child(c) => KnownInv'
<1>1. /\ Len(receivers') = Len(receivers) + 1 /\ Len(receivers) \in Nat
      /\ receivers'[Len(receivers')] = [host |-> HostOf[c], state |-> "forked"]
      /\ \A p \in 1..Len(receivers) : receivers'[p] = receivers[p]
      /\ ReceiversTypeOK'
  BY ChildRange, ForkEffect, ClientAssumption DEF Forked
<1>2. childPID'[c] = Len(receivers') /\ childPID'[c] # 0
      /\ \A d \in Client \ {c} : childPID'[d] = childPID[d]
  BY <1>1, ChildRange DEF Forked
<1>3. receivers'[childPID'[c]].host = HostOf[c] /\ receivers'[childPID'[c]].state = "forked"
  BY <1>1, <1>2
<1>4. \A d \in Client \ {c} : childPID[d] # 0 => receivers'[childPID'[d]] = receivers[childPID[d]]
  BY <1>1, <1>2, ChildRange
<1>5. ChildInv'
  BY <1>2, <1>3, <1>4 DEF ChildInv
<1>6. Child(c)'
  BY <1>2, <1>3 DEF Child, Running
<1>7. \A d \in Client \ {c} : Child(d)' <=> Child(d)
  BY <1>2, <1>4 DEF Child, Running
<1>8. ASSUME KnownInv, ~Child(c), NEW p \in DOMAIN receivers', Running(p)'
      PROVE  \E d \in Client : childPID'[d] = p
  <2>1. DOMAIN receivers' = 1..(Len(receivers) + 1)
    BY <1>1 DEF ReceiversTypeOK
  <2>2. CASE p = Len(receivers')
    BY <1>2, <2>2
  <2>3. CASE p # Len(receivers')
    <3>1. p \in 1..Len(receivers) /\ p # 0 /\ p \in DOMAIN receivers
      BY <1>1, <1>8, <2>1, <2>3, ChildRange
    <3>2. receivers'[p] = receivers[p]
      BY <1>1, <3>1
    <3>3. Running(p)
      BY <1>8, <3>2 DEF Running
    <3>4. PICK d \in Client : childPID[d] = p
      BY <1>8, <3>1, <3>3 DEF KnownInv
    <3>5. d # c
      BY <1>8, <3>1, <3>3, <3>4 DEF Child
    <3> QED
      BY <1>2, <3>4, <3>5
  <2> QED
    BY <2>2, <2>3
<1>9. KnownInv /\ ~Child(c) => KnownInv'
  BY <1>8 DEF KnownInv
<1> QED
  BY <1>2, <1>5, <1>6, <1>7, <1>9

\* With a host of its own, a client ends its own receiver and no other.
LEMMA EndedEffect ==
  ASSUME Typed, ChildInv, NEW c \in Client, EndedChild(c)
  PROVE  /\ ChildInv' /\ ~Child(c)'
         /\ Separate => \A d \in Client \ {c} : Child(d)' <=> Child(d)
         /\ KnownInv => KnownInv'
<1>1. PICK p \in 1..Len(receivers) : p = childPID[c]
  BY ChildRange DEF EndedChild
<1>2. receivers' = [receivers EXCEPT ![p].state = "ended"] /\ UNCHANGED <<childPID, portmap>>
  BY <1>1 DEF EndedChild, End
<1>3. /\ receivers'[p].state = "ended" /\ ReceiversTypeOK' /\ Len(receivers') = Len(receivers)
      /\ \A q \in 1..Len(receivers) : receivers'[q].host = receivers[q].host
      /\ \A q \in 1..Len(receivers) : q # p => receivers'[q] = receivers[q]
  <2>1. ReceiversTypeOK /\ portmap' \in [Host -> 0..Len(receivers)]
    BY <1>2, ChildRange DEF ReceiversTypeOK
  <2> QED
    BY <1>2, <2>1, StateChange
<1>4. ChildInv'
  BY <1>2, <1>3, ChildRange DEF ChildInv
<1>5. ~Child(c)'
  BY <1>1, <1>2, <1>3 DEF Child, Running
<1>6. ASSUME Separate, NEW d \in Client \ {c} PROVE Child(d)' <=> Child(d)
  <2>1. childPID[d] # p
    BY <1>1, <1>6, ChildRange DEF Separate, ChildInv
  <2> QED
    BY <1>2, <1>3, <2>1, ChildRange DEF Child, Running
<1>7. KnownInv => KnownInv'
  <2>1. DOMAIN receivers' = DOMAIN receivers /\ DOMAIN receivers = 1..Len(receivers)
    BY <1>3, ChildRange DEF ReceiversTypeOK
  <2>2. \A q \in DOMAIN receivers : Running(q)' => Running(q)
    BY <1>3, <2>1 DEF Running
  <2> QED
    BY <1>2, <2>1, <2>2 DEF KnownInv
<1> QED
  BY <1>4, <1>5, <1>6, <1>7

LEMMA StartedEffect ==
  ASSUME Typed, ChildInv, NEW p \in DOMAIN receivers, ReceiverStarts(p)
  PROVE  /\ ChildInv' /\ \A d \in Client : Child(d)' <=> Child(d)
         /\ KnownInv => KnownInv'
<1>0. /\ TypeOK /\ p \in 1..Len(receivers) /\ Len(receivers) \in Nat
      /\ DOMAIN receivers = 1..Len(receivers)
  BY DEF Typed, TypeOK, ReceiversTypeOK
<1>1. /\ receivers' = [receivers EXCEPT ![p].state = "serving"]
      /\ receivers[p].state = "forked" /\ childPID' = childPID
      /\ portmap' = [portmap EXCEPT ![receivers[p].host] = p]
  BY DEF ReceiverStarts, Starts, clientVars
<1>2. portmap' \in [Host -> 0..Len(receivers)]
  <2>1. p \in 0..Len(receivers) /\ portmap \in [Host -> 0..Len(receivers)]
    BY <1>0 DEF TypeOK, ReceiversTypeOK
  <2> QED
    BY <1>1, <2>1
<1>3. /\ receivers'[p].state = "serving" /\ ReceiversTypeOK' /\ Len(receivers') = Len(receivers)
      /\ \A q \in 1..Len(receivers) : receivers'[q].host = receivers[q].host
      /\ \A q \in 1..Len(receivers) : q # p => receivers'[q] = receivers[q]
  BY <1>0, <1>1, <1>2, StateChange DEF TypeOK
<1>4. ChildInv'
  BY <1>1, <1>3, ChildRange DEF ChildInv
<1>5. \A q \in DOMAIN receivers : Running(q)' <=> Running(q)
  BY <1>0, <1>1, <1>3 DEF Running
<1>6. \A d \in Client : Child(d)' <=> Child(d)
  BY <1>0, <1>1, <1>5, ChildRange DEF Child
<1>7. KnownInv => KnownInv'
  BY <1>0, <1>1, <1>3, <1>5 DEF KnownInv, ReceiversTypeOK
<1> QED
  BY <1>4, <1>6, <1>7

\* A step that leaves a client alone.
LEMMA Aside ==
  ASSUME NEW d \in Client, Agree(d),
         queue'[d] = queue[d], answer'[d] = answer[d], at'[d] = at[d],
         childPID'[d] = childPID[d], On(d)' <=> On(d), Child(d)' <=> Child(d)
  PROVE  Agree(d)'
BY DEF Agree, QueueInv, MatchInv, Ahead

\* The client knows what the table says of it: it is not Ahead, and what stands
\* in its connection changes nothing.
Settles(c) ==
  \/ queue[c] = <<>>
  \/ at[c] # "subscribe" /\ (at[c] \notin {"unsubscribe", "leave"} \/ childPID[c] = 0)

LEMMA GoesAgree ==
  ASSUME CallsTyped, NEW c \in Client, Agree(c), NEW where \in Place, Goes(c, where),
         subs' = subs, childPID'[c] = childPID[c] \/ queue[c] = <<>>,
         where \in Ended \/ (at[c] \notin Ended /\ Settles(c) /\ (On(c) <=> Child(c)'))
  PROVE  Agree(c)'
<1>1. at'[c] = where /\ answer'[c] = NoAnswer /\ queue' = queue
  BY GoesEffect
<1>2. CASE where \in Ended
  BY <1>1, <1>2 DEF Agree
<1>3. CASE at[c] \notin Ended /\ Settles(c) /\ (On(c) <=> Child(c)')
  <2>1. QueueInv(c)'
    BY <1>1, <1>3 DEF Agree, QueueInv, Settles
  <2>2. ~Ahead(c)'
    BY <1>1 DEF Ahead, NoAnswer
  <2>3. On(c)' <=> On(c)
    BY DEF On
  <2> QED
    BY <1>3, <2>1, <2>2, <2>3 DEF Agree, MatchInv
<1> QED
  BY <1>2, <1>3

LEMMA AskAgree ==
  ASSUME CallsTyped, NEW c \in Client, Agree(c), NEW r \in Request,
         queue'[c] = Append(queue[c], r), answer'[c] = NoAnswer,
         subs' = subs, childPID'[c] = childPID[c],
         at[c] \notin Ended, Settles(c), On(c) <=> Child(c)',
         r.op = "subscribe" => at'[c] = "subscribe",
         r.op = "unsubscribe" => at'[c] \in {"unsubscribe", "leave"}
  PROVE  Agree(c)'
<1>1. QueueInv(c)'
  <2> SUFFICES ASSUME NEW i \in DOMAIN queue'[c]
               PROVE  /\ queue'[c][i].op = "subscribe" =>
                           i = Len(queue'[c]) /\ at'[c] = "subscribe"
                      /\ queue'[c][i].op = "unsubscribe" =>
                           \/ i = Len(queue'[c]) /\ at'[c] \in {"unsubscribe", "leave"}
                           \/ childPID'[c] = 0
    BY DEF QueueInv
  <2>1. PICK s \in Seq(Request) : s = queue[c]
    BY DEF CallsTyped
  <2>2. /\ DOMAIN queue'[c] = 1..(Len(s) + 1) /\ DOMAIN s = 1..Len(s) /\ Len(s) \in Nat
        /\ queue'[c][Len(s) + 1] = r /\ Len(queue'[c]) = Len(s) + 1
        /\ \A j \in DOMAIN s : queue'[c][j] = s[j]
    BY <2>1, AppendIndex
  <2>3. CASE i = Len(s) + 1
    BY <2>2, <2>3
  <2>4. CASE i # Len(s) + 1
    <3>1. i \in DOMAIN s /\ queue[c] # <<>>
      BY <2>1, <2>2, <2>4
    <3>2. at[c] # "subscribe" /\ (at[c] \notin {"unsubscribe", "leave"} \/ childPID[c] = 0)
      BY <3>1 DEF Settles
    <3>3. queue'[c][i] = queue[c][i]
      BY <2>1, <2>2, <3>1
    <3> QED
      BY <2>1, <3>1, <3>2, <3>3 DEF Agree, QueueInv
  <2> QED
    BY <2>3, <2>4
<1>2. ~Ahead(c)'
  BY DEF Ahead, NoAnswer
<1>3. On(c)' <=> On(c)
  BY DEF On
<1> QED
  BY <1>1, <1>2, <1>3 DEF Agree, MatchInv

\* A request other than subscribe and unsubscribe has been answered.
LEMMA ReplyAgree ==
  ASSUME CallsTyped, NEW c \in Client, ClientInv(c), Agree(c), queue[c] # <<>>,
         Head(queue[c]).op \notin {"subscribe", "unsubscribe"},
         NEW code \in Codes, NEW id \in Nat, Reply(c, code, id),
         at' = at, childPID' = childPID, receivers' = receivers, subs' = subs
  PROVE  Agree(c)'
<1>0. PICK s \in Seq(Request) : s = queue[c] /\ s # <<>>
  BY DEF CallsTyped
<1>1. /\ queue'[c] = Tail(queue[c])
      /\ Waiting(c) /\ Len(queue[c]) = 1 => answer'[c].code = code /\ answer'[c].id = id
      /\ ~(Waiting(c) /\ Len(queue[c]) = 1) => answer'[c] = answer[c]
  BY ReplyEffect
<1>2. /\ Len(s) \in Nat \ {0} /\ Head(s) = s[1] /\ Len(Tail(s)) = Len(s) - 1
      /\ DOMAIN Tail(s) = 1..(Len(s) - 1) /\ DOMAIN s = 1..Len(s)
      /\ \A i \in DOMAIN Tail(s) : i + 1 \in DOMAIN s /\ Tail(s)[i] = s[i + 1]
  BY <1>0, TailFacts, TailIndex
<1>3. QueueInv(c) => QueueInv(c)'
  <2> SUFFICES ASSUME QueueInv(c), NEW i \in DOMAIN queue'[c]
               PROVE  /\ queue'[c][i].op = "subscribe" =>
                           i = Len(queue'[c]) /\ at'[c] = "subscribe"
                      /\ queue'[c][i].op = "unsubscribe" =>
                           \/ i = Len(queue'[c]) /\ at'[c] \in {"unsubscribe", "leave"}
                           \/ childPID'[c] = 0
    BY DEF QueueInv
  <2>1. /\ i \in DOMAIN Tail(s) /\ i + 1 \in DOMAIN queue[c]
        /\ queue'[c][i] = queue[c][i + 1] /\ (i + 1 = Len(queue[c]) => i = Len(queue'[c]))
    <3>0. PICK t : t = Tail(s)
      OBVIOUS
    <3>1. PICK n \in Nat : n = Len(s)
      BY <1>2
    <3>2. i \in DOMAIN t /\ queue'[c] = t /\ queue[c] = s
      BY <1>0, <1>1, <3>0
    <3>3. i \in 1..(n - 1) /\ Len(t) = n - 1 /\ i + 1 \in DOMAIN s /\ t[i] = s[i + 1]
      BY <1>2, <3>0, <3>1, <3>2
    <3>4. i + 1 = n => i = Len(t)
      BY <3>1, <3>3
    <3> QED
      BY <3>0, <3>1, <3>2, <3>3, <3>4
  <2> QED
    BY <2>1 DEF QueueInv
<1>4. Ahead(c)' <=> Ahead(c)
  <2>1. ASSUME Waiting(c), Len(queue[c]) = 1
        PROVE  at[c] \notin {"subscribe", "unsubscribe", "leave"}
    <3>1. ~Answered(c)
      BY NotYetAnswered
    <3>2. queue[c][1].op = OperationAt(at[c])
      BY <2>1, <3>1 DEF ClientInv
    <3>3. queue[c][1].op \notin {"subscribe", "unsubscribe"}
      BY <1>0, <1>2
    <3> QED
      BY <3>2, <3>3 DEF OperationAt, OperationOf
  <2> QED
    BY <1>1, <2>1 DEF Ahead
<1>5. (On(c)' <=> On(c)) /\ (Child(c)' <=> Child(c))
  BY DEF On, Child, Running
<1> QED
  BY <1>3, <1>4, <1>5 DEF Agree, MatchInv

\* subscribe and unsubscribe have been answered: the client is Ahead, or the table
\* is what it was.
LEMMA TableAgree ==
  ASSUME Typed, LoginInv, Separate, OnceEach(subs), NEW c \in Client, Agree(c),
         ServeSubscribe(c) \/ ServeUnsubscribe(c)
  PROVE  /\ OnceEach(subs') /\ Agree(c)'
         /\ \A d \in Client \ {c} : On(d)' <=> On(d)
<1>0. PICK a \in Host, s \in Seq(Host), q \in Seq(Request) :
        a = HostOf[c] /\ s = subs /\ q = queue[c]
  BY ClientAssumption DEF Typed, TypeOK
<1>1. PICK op \in {"subscribe", "unsubscribe"} :
        /\ Serving(c, op)
        /\ op = "subscribe" => ServeTable(c, op, Register(s, a, MaxSubs))
        /\ op = "unsubscribe" => ServeTable(c, op, Unregister(s, a))
  BY <1>0 DEF ServeSubscribe, ServeUnsubscribe, ServeTable
<1>2. q # <<>> /\ Head(q).op = op /\ CheckSession(Req(c)) = "OK"
  BY <1>0, <1>1, HeadFacts DEF Signed
<1>3. PICK t \in Seq(Host), code \in Codes :
        /\ subs' = t /\ Reply(c, code, 0)
        /\ op = "subscribe" => t = Register(s, a, MaxSubs).subs /\ code = Register(s, a, MaxSubs).code
        /\ op = "unsubscribe" => t = Unregister(s, a).subs /\ code = Unregister(s, a).code
  <2>1. Len(s) <= MaxSubs
    BY <1>0 DEF Typed, TypeOK
  <2>2. CASE op = "subscribe"
    BY <1>1, <1>2, <2>1, <2>2, RegisterType DEF ServeTable, ReplyCode
  <2>3. CASE op = "unsubscribe"
    BY <1>1, <1>2, <2>1, <2>3, UnregisterType DEF ServeTable, ReplyCode
  <2> QED
    BY <2>2, <2>3
<1>4. at' = at /\ childPID' = childPID /\ receivers' = receivers
  BY <1>1 DEF ServeTable, clientVars, processVars
<1>5. /\ queue'[c] = Tail(q)
      /\ Waiting(c) /\ Len(q) = 1 => answer'[c].code = code
      /\ ~(Waiting(c) /\ Len(q) = 1) => answer'[c] = answer[c]
  BY <1>0, <1>2, <1>3, <1>4, TypedCalls, ReplyEffect DEF Typed
<1>6. OnceEach(s) /\ Len(s) <= 2
  <2>1. Len(s) <= Cardinality(Host) /\ Cardinality(Host) \in Nat /\ Len(s) \in Nat
    BY <1>0, Fits, ClientAssumption, FS_CardinalityType
  <2> QED
    BY <1>0, <2>1 DEF Separate
\* What the two operations do to the table.
<1>7. op = "subscribe" =>
        /\ OnceEach(t) /\ \A b \in Host : b # a => (Listed(t, b) <=> Listed(s, b))
        /\ code = "OK" => ~Listed(s, a) /\ Listed(t, a)
        /\ code # "OK" => t = s
  <2>1. CASE ~Listed(s, a) /\ Len(s) < MaxSubs
    <3>1. Register(s, a, MaxSubs) = [code |-> "OK", subs |-> Append(s, a)]
      BY <2>1 DEF Register
    <3>2. op = "subscribe" => t = Append(s, a) /\ code = "OK"
      BY <1>3, <3>1
    <3>3. OnceEach(Append(s, a))
      BY <1>6, <2>1, AppendOnce
    <3>4. \A b \in Host : Listed(Append(s, a), b) <=> Listed(s, b) \/ b = a
      BY AppendListed
    <3> QED
      BY <2>1, <3>2, <3>3, <3>4
  <2>2. CASE ~(~Listed(s, a) /\ Len(s) < MaxSubs)
    <3>1. Register(s, a, MaxSubs).code # "OK" /\ Register(s, a, MaxSubs).subs = s
      BY <2>2 DEF Register
    <3> QED
      BY <1>3, <1>6, <3>1
  <2> QED
    BY <2>1, <2>2
<1>8. op = "unsubscribe" =>
        /\ OnceEach(t) /\ \A b \in Host : Listed(t, b) <=> Listed(s, b) /\ b # a
        /\ code = "OK" <=> Listed(s, a)
  <2>1. OnceEach(Unregister(s, a).subs)
    BY <1>6, UnregisterFromTwo
  <2>2. \A b \in Host : Listed(Unregister(s, a).subs, b) <=> Listed(s, b) /\ b # a
    BY <1>6, UnregisterFromTwo
  <2>3. Unregister(s, a).code = IF Listed(s, a) THEN "OK" ELSE "CANNOT_UNREGISTER"
    BY UnregisterResult
  <2> QED
    BY <1>3, <2>1, <2>2, <2>3
<1>9. OnceEach(subs') /\ \A d \in Client \ {c} : On(d)' <=> On(d)
  <2>1. \A d \in Client \ {c} : HostOf[d] \in Host /\ HostOf[d] # a
    BY <1>0, ClientAssumption DEF Separate
  <2> QED
    BY <1>0, <1>3, <1>7, <1>8, <2>1 DEF On
<1>10. (On(c) <=> Listed(s, a)) /\ (On(c)' <=> Listed(t, a)) /\ (Child(c)' <=> Child(c))
  BY <1>0, <1>3, <1>4 DEF On, Child, Running
<1>11. ASSUME at[c] \notin Ended PROVE QueueInv(c)' /\ MatchInv(c)'
  <2>1. /\ Len(q) \in Nat \ {0} /\ DOMAIN q = 1..Len(q) /\ 1 \in DOMAIN q
        /\ q[1].op = op /\ (Len(q) = 1 => Tail(q) = <<>>)
    BY <1>2, TailFacts
  <2>2. QueueInv(c) /\ MatchInv(c) /\ ~Answered(c)
    BY <1>0, <1>2, <1>11, NotYetAnswered DEF Agree, LoginInv
  <2>3. On(c) <=> Child(c)
    BY <2>2 DEF MatchInv, Ahead, Answered
  <2>4. \/ Len(q) = 1 /\ op = "subscribe" /\ at[c] = "subscribe"
        \/ Len(q) = 1 /\ op = "unsubscribe" /\ at[c] \in {"unsubscribe", "leave"}
        \/ op = "unsubscribe" /\ childPID[c] = 0
    BY <1>0, <2>1, <2>2 DEF QueueInv
  <2>5. CASE Len(q) = 1 /\ op = "subscribe" /\ at[c] = "subscribe"
    <3>1. QueueInv(c)'
      BY <1>5, <2>1, <2>5 DEF QueueInv
    <3>2. answer'[c].code = code /\ at'[c] = "subscribe"
      BY <1>4, <1>5, <2>5 DEF Waiting, Calls
    <3>3. MatchInv(c)'
      BY <1>7, <1>10, <2>3, <2>5, <3>2 DEF MatchInv, Ahead
    <3> QED
      BY <3>1, <3>3
  <2>6. CASE Len(q) = 1 /\ op = "unsubscribe" /\ at[c] \in {"unsubscribe", "leave"}
    <3>1. QueueInv(c)'
      BY <1>5, <2>1, <2>6 DEF QueueInv
    <3>2. answer'[c].code = code /\ at'[c] \in {"unsubscribe", "leave"}
      BY <1>4, <1>5, <2>6 DEF Waiting, Calls
    <3>3. MatchInv(c)'
      BY <1>8, <1>10, <2>3, <2>6, <3>2 DEF MatchInv, Ahead
    <3> QED
      BY <3>1, <3>3
  <2>7. CASE op = "unsubscribe" /\ childPID[c] = 0
    <3>1. ~Child(c) /\ ~On(c)
      BY <2>3, <2>7 DEF Child
    <3>2. code # "OK" /\ ~On(c)'
      BY <1>8, <1>10, <2>7, <3>1
    <3>3. answer'[c].code # "OK"
      BY <1>5, <2>2, <3>2 DEF Answered
    <3>4. MatchInv(c)'
      BY <1>10, <3>1, <3>2, <3>3 DEF MatchInv, Ahead
    <3>5. QueueInv(c)'
      <4> SUFFICES ASSUME NEW i \in DOMAIN Tail(q), Tail(q)[i].op = "subscribe"
                   PROVE  i = Len(Tail(q)) /\ at[c] = "subscribe"
        BY <1>4, <1>5, <2>7 DEF QueueInv
      <4>1. i \in 1..(Len(q) - 1) /\ i + 1 \in DOMAIN q /\ Tail(q)[i] = q[i + 1]
            /\ Len(Tail(q)) = Len(q) - 1
        BY <1>2, TailIndex, TailFacts
      <4>2. i + 1 = Len(q) /\ at[c] = "subscribe"
        BY <1>0, <2>2, <4>1 DEF QueueInv
      <4> QED
        BY <2>1, <4>1, <4>2
    <3> QED
      BY <3>4, <3>5
  <2> QED
    BY <2>4, <2>5, <2>6, <2>7
<1>12. Agree(c)'
  BY <1>4, <1>11 DEF Agree
<1> QED
  BY <1>9, <1>12

LEMMA OneClient ==
  ASSUME Agreement, NEW c \in Client, Agree(c)', OnceEach(subs'), ChildInv', KnownInv',
         \A d \in Client \ {c} :
           /\ queue'[d] = queue[d] /\ answer'[d] = answer[d] /\ at'[d] = at[d]
           /\ childPID'[d] = childPID[d] /\ (On(d)' <=> On(d)) /\ (Child(d)' <=> Child(d))
  PROVE  Agreement'
<1>1. ASSUME NEW d \in Client \ {c} PROVE Agree(d)'
  BY Aside DEF Agreement
<1> QED
  BY <1>1 DEF Agreement

LEMMA NoClient ==
  ASSUME Agreement, UNCHANGED <<queue, answer, at, childPID, subs>>, ChildInv', KnownInv',
         \A d \in Client : Child(d)' <=> Child(d)
  PROVE  Agreement'
<1>1. ASSUME NEW d \in Client PROVE Agree(d)'
  <2>1. On(d)' <=> On(d)
    BY DEF On
  <2> QED
    BY <2>1, Aside DEF Agreement
<1> QED
  BY <1>1 DEF Agreement

LEMMA SameNoClient ==
  ASSUME Agreement, SameProcesses, UNCHANGED <<queue, answer, at, subs>>
  PROVE  Agreement'
<1>1. ChildInv' /\ KnownInv' /\ \A d \in Client : Child(d)' <=> Child(d)
  BY SameChildren DEF Agreement
<1> QED
  BY <1>1, NoClient DEF SameProcesses

\* A step that forks and ends nothing.
LEMMA SameOneClient ==
  ASSUME Agreement, NEW c \in Client, Agree(c)', OnceEach(subs'), SameProcesses,
         \A d \in Client \ {c} :
           /\ queue'[d] = queue[d] /\ answer'[d] = answer[d] /\ at'[d] = at[d]
           /\ On(d)' <=> On(d)
  PROVE  Agreement'
<1>1. ChildInv' /\ KnownInv' /\ \A d \in Client : Child(d)' <=> Child(d)
  BY SameChildren DEF Agreement
<1> QED
  BY <1>1, OneClient DEF SameProcesses

LEMMA ReplyOthers ==
  ASSUME CallsTyped, NEW c \in Client, NEW code, NEW id, Reply(c, code, id)
  PROVE  \A d \in Client \ {c} : queue'[d] = queue[d] /\ answer'[d] = answer[d]
BY DEF Reply, CallsTyped

LEMMA OtherReply ==
  ASSUME Typed, LoginInv, Agreement, NEW c \in Client, queue[c] # <<>>,
         Head(queue[c]).op \notin {"subscribe", "unsubscribe"},
         NEW code \in Codes, NEW id \in Nat, Reply(c, code, id),
         at' = at, SameProcesses, subs' = subs
  PROVE  Agreement'
<1>1. Agree(c)'
  BY ReplyAgree, TypedCalls DEF Typed, LoginInv, Agreement, SameProcesses
<1>2. \A d \in Client \ {c} : queue'[d] = queue[d] /\ answer'[d] = answer[d]
  BY ReplyOthers, TypedCalls DEF Typed
<1>3. \A d \in Client : On(d)' <=> On(d)
  BY DEF On
<1> QED
  BY <1>1, <1>2, <1>3, SameOneClient DEF Agreement

LEMMA ServeCases ==
  ASSUME Typed, NEW c \in Client, Serve(c), ~ServeSubscribe(c), ~ServeUnsubscribe(c)
  PROVE  /\ queue[c] # <<>> /\ Head(queue[c]).op \notin {"subscribe", "unsubscribe"}
         /\ SameProcesses /\ at' = at /\ subs' = subs
         /\ \/ UNCHANGED <<queue, answer>>
            \/ \E code \in Codes, id \in Nat : Reply(c, code, id)
<1>0. /\ 0 \in Nat /\ lastSid + 1 \in Nat /\ CheckSession(Req(c)) \in Codes
      /\ {"OK", "NO_SESSION_FOUND", "CANNOT_SET_TOPIC", "UNKNOWN_ERROR"} \subseteq Codes
  BY CheckCodes DEF Typed, TypeOK, Codes, Refusals
<1>1. ASSUME NEW id, NEW found \in Codes, NEW missing \in Codes,
             DeleteSession(c, id, found, missing)
      PROVE  UNCHANGED <<queue, answer>> \/ \E code \in Codes : Reply(c, code, 0)
  BY <1>1 DEF DeleteSession, ReplyCode
<1>2. CASE ServeGetSession(c)
  BY <1>0, <1>2 DEF ServeGetSession, Serving, NextSid, tableVars, clientVars, processVars,
                    SameProcesses
<1>3. CASE ServeValidate(c)
  <2>1. UNCHANGED <<queue, answer>> \/ \E code \in Codes : Reply(c, code, 0)
    BY <1>0, <1>1, <1>3 DEF ServeValidate, ReplyCode
  <2> QED
    BY <1>0, <1>3, <2>1 DEF ServeValidate, Serving, tableVars, clientVars, processVars, SameProcesses
<1>4. CASE ServeInvalidate(c)
  <2>1. UNCHANGED <<queue, answer>> \/ \E code \in Codes : Reply(c, code, 0)
    BY <1>0, <1>1, <1>4 DEF ServeInvalidate
  <2> QED
    BY <1>0, <1>4, <2>1 DEF ServeInvalidate, Serving, tableVars, clientVars, processVars, SameProcesses
<1>5. CASE ServeSetChannel(c)
  <2>1. \E code \in Codes : Reply(c, code, 0)
    BY <1>0, <1>5 DEF ServeSetChannel, ReplyCode
  <2> QED
    BY <1>0, <1>5, <2>1 DEF ServeSetChannel, Serving, clientVars, processVars, SameProcesses
<1>6. CASE ServePublish(c)
  <2>1. UNCHANGED <<queue, answer>> \/ \E code \in Codes : Reply(c, code, 0)
    BY <1>0, <1>6 DEF ServePublish, ReplyCode
  <2> QED
    BY <1>0, <1>6, <2>1 DEF ServePublish, Serving, tableVars, clientVars, processVars, SameProcesses
<1> QED
  BY <1>2, <1>3, <1>4, <1>5, <1>6 DEF Serve

LEMMA ServeAgrees ==
  ASSUME Typed, LoginInv, Separate, Agreement, NEW c \in Client, Serve(c)
  PROVE  Agreement'
<1>1. CASE ServeSubscribe(c) \/ ServeUnsubscribe(c)
  <2>1. OnceEach(subs') /\ Agree(c)' /\ \A d \in Client \ {c} : On(d)' <=> On(d)
    BY <1>1, TableAgree DEF Agreement
  <2>2. SameProcesses /\ at' = at /\ \E code : Reply(c, code, 0)
    BY <1>1 DEF ServeSubscribe, ServeUnsubscribe, ServeTable, ReplyCode, clientVars, processVars,
                SameProcesses
  <2>3. \A d \in Client \ {c} : queue'[d] = queue[d] /\ answer'[d] = answer[d]
    BY <2>2, ReplyOthers, TypedCalls DEF Typed
  <2> QED
    BY <2>1, <2>2, <2>3, SameOneClient
<1>2. CASE ~ServeSubscribe(c) /\ ~ServeUnsubscribe(c)
  BY <1>2, ServeCases, OtherReply, SameNoClient
<1> QED
  BY <1>1, <1>2

LEMMA DeliverAgrees ==
  ASSUME Typed, LoginInv, Agreement, Deliver
  PROVE  Agreement'
<1>1. /\ publishing # <<>> /\ Head(publishing) \in Turn
      /\ SameProcesses /\ at' = at /\ subs' = subs
  BY DeliverCases DEF tableVars, clientVars, processVars, SameProcesses
<1>2. ASSUME UNCHANGED <<queue, answer>> PROVE Agreement'
  BY <1>1, <1>2, SameNoClient
<1>3. ASSUME NEW p \in Turn, NEW code \in {"OK", "UNKNOWN_ERROR"},
             p.client = Head(publishing).client, TurnEnds(p, code)
      PROVE  Agreement'
  <2>1. CASE LastTurn(p, code)
    <3>1. PICK c \in Client : c = p.client
      BY DEF Turn
    <3>2. Reply(c, code, 0)
      BY <1>3, <2>1, <3>1 DEF TurnEnds, ReplyCode
    <3>3. 1 \in DOMAIN publishing /\ Head(publishing) = publishing[1]
      BY <1>1, TypedCalls, AtMostOne DEF Typed, TypeOK
    <3>4. queue[c] # <<>> /\ Head(queue[c]).op = "publish"
      BY <1>3, <3>1, <3>3 DEF Typed, PublishInv
    <3>5. code \in Codes /\ 0 \in Nat
      BY DEF Codes
    <3> QED
      BY <1>1, <3>2, <3>4, <3>5, OtherReply
  <2>2. CASE ~LastTurn(p, code)
    BY <1>2, <1>3, <2>2 DEF TurnEnds
  <2> QED
    BY <2>1, <2>2
<1> QED
  BY <1>2, <1>3, DeliverCases

\* Where a client knows what the table says of it, both agree.
LEMMA AgreeNow ==
  ASSUME Agreement, NEW c \in Client, at[c] \notin Ended, ~Ahead(c)
  PROVE  On(c) <=> Child(c)
BY DEF Agreement, Agree, MatchInv

LEMMA SameGoes ==
  ASSUME Typed, Agreement, NEW c \in Client, NEW where \in Place, Goes(c, where),
         SameProcesses, subs' = subs,
         where \in Ended \/ (at[c] \notin Ended /\ Settles(c) /\ ~Ahead(c))
  PROVE  Agreement'
<1>0. CallsTyped /\ Agree(c) /\ childPID'[c] = childPID[c]
  BY TypedCalls DEF Typed, Agreement, SameProcesses
<1>1. where \in Ended \/ (at[c] \notin Ended /\ Settles(c) /\ (On(c) <=> Child(c)'))
  BY AgreeNow, SameChildren
<1>2. Agree(c)'
  BY <1>0, <1>1, GoesAgree
<1>3. /\ queue' = queue
      /\ \A d \in Client \ {c} : at'[d] = at[d] /\ answer'[d] = answer[d]
  BY <1>0, GoesEffect
<1>4. \A d \in Client : On(d)' <=> On(d)
  BY DEF On
<1> QED
  BY <1>2, <1>3, <1>4, SameOneClient DEF Agreement

LEMMA SameAsks ==
  ASSUME Typed, Agreement, NEW c \in Client, NEW r \in Request,
         queue'[c] = Append(queue[c], r), answer'[c] = NoAnswer,
         \A d \in Client \ {c} :
           queue'[d] = queue[d] /\ at'[d] = at[d] /\ answer'[d] = answer[d],
         SameProcesses, subs' = subs, at[c] \notin Ended, Settles(c), ~Ahead(c),
         r.op = "subscribe" => at'[c] = "subscribe",
         r.op = "unsubscribe" => at'[c] \in {"unsubscribe", "leave"}
  PROVE  Agreement'
<1>0. CallsTyped /\ Agree(c) /\ childPID'[c] = childPID[c]
  BY TypedCalls DEF Typed, Agreement, SameProcesses
<1>1. On(c) <=> Child(c)'
  BY AgreeNow, SameChildren
<1>2. Agree(c)'
  BY <1>0, <1>1, AskAgree
<1>3. \A d \in Client : On(d)' <=> On(d)
  BY DEF On
<1> QED
  BY <1>2, <1>3, SameOneClient DEF Agreement

\* What a signed request looks like to the others and to the table.
LEMMA SignedAgrees ==
  ASSUME Typed, Agreement, NEW c \in Client, NEW where \in Calls,
         NEW op \in Signed \cup {"invalidate"}, NEW argument \in Argument,
         AskSigned(c, where, op, argument),
         SameProcesses, subs' = subs, at[c] \notin Ended, Settles(c), ~Ahead(c),
         op = "subscribe" => where = "subscribe",
         op = "unsubscribe" => where \in {"unsubscribe", "leave"}
  PROVE  Agreement'
<1>1. PICK r \in Request : r.op = op /\ queue'[c] = Append(queue[c], r)
  BY SignedEffect
<1>2. /\ at'[c] = where /\ answer'[c] = NoAnswer
      /\ \A d \in Client \ {c} :
           queue'[d] = queue[d] /\ at'[d] = at[d] /\ answer'[d] = answer[d]
  BY SignedEffect
<1> QED
  BY <1>1, <1>2, SameAsks

LEMMA LoginAgrees ==
  ASSUME Typed, Agreement, NEW c \in Client, Login(c) \/ (LoginInv /\ GotSession(c))
  PROVE  Agreement'
<1>1. /\ SameProcesses /\ subs' = subs /\ at[c] \in {"login", "get_session"}
  BY DEF Login, GotSession, tableVars, processVars, SameProcesses
<1>2. at[c] \notin Ended /\ Settles(c) /\ ~Ahead(c)
  BY <1>1 DEF Ended, Settles, Ahead
<1>3. PICK where \in Calls, op \in Operations, id \in Nat, argument \in Argument, hash \in Digest :
        Ask(c, where, op, id, argument, hash) /\ op \notin {"subscribe", "unsubscribe"}
  <2>1. CASE Login(c)
    <3>1. PICK u \in User, good \in BOOLEAN :
            Ask(c, "get_session", "get_session", 0, NoText,
                HashParam(0, NoText, [user |-> u, good |-> good]))
      BY <2>1 DEF Login
    <3>2. PICK cr \in Credentials : cr = [user |-> u, good |-> good]
      BY DEF Credentials
    <3>3. HashParam(0, NoText, cr) \in Digest /\ NoText \in Argument /\ 0 \in Nat
      BY HashType, NoTextType
    <3> QED
      BY <3>1, <3>2, <3>3 DEF Calls, Operations
  <2>2. CASE GotSession(c)
    <3>1. PICK arm \in Arm :
            Ask(c, "validate", "validate", answer[c].id, [arm |-> arm, text |-> ""],
                HashParam(answer[c].id, NoText, cred[c]))
      BY <2>2 DEF GotSession
    <3>2. PICK id \in Nat : id = answer[c].id
      BY DEF Typed, TypeOK, Answer
    <3>3. HashParam(id, NoText, cred[c]) \in Digest
      BY HashType, NoTextType DEF Typed, TypeOK
    <3>4. [arm |-> arm, text |-> ""] \in Argument
      BY DEF Argument, Texts
    <3> QED
      BY <3>1, <3>2, <3>3, <3>4 DEF Calls, Operations
  <2> QED
    BY <2>1, <2>2
<1>4. PICK r \in Request : r.op = op /\ queue'[c] = Append(queue[c], r)
  BY <1>3, AskEffect, TypedCalls DEF Typed
<1>5. /\ answer'[c] = NoAnswer
      /\ \A d \in Client \ {c} :
           queue'[d] = queue[d] /\ at'[d] = at[d] /\ answer'[d] = answer[d]
  BY <1>3, AskEffect, TypedCalls DEF Typed
<1> QED
  BY <1>1, <1>2, <1>3, <1>4, <1>5, SameAsks

\* The receiver is forked when the answer says that the host is in the table.
LEMMA SubscribedAgrees ==
  ASSUME Typed, LoginInv, Agreement, NEW c \in Client, GotSubscribe(c)
  PROVE  Agreement'
<1>0. /\ CallsTyped /\ Agree(c) /\ at[c] = "subscribe" /\ at[c] \notin Ended /\ queue[c] = <<>>
      /\ Settles(c) /\ Goes(c, "menu") /\ "menu" \in Place /\ subs' = subs
  BY TypedCalls, AnsweredClient DEF Typed, Agreement, GotSubscribe, Ended, Settles, Place, tableVars
<1>1. CASE answer[c].code = "OK"
  <2>1. Forked(c)
    BY <1>1 DEF GotSubscribe, Forked
  <2>2. On(c) /\ ~Child(c)
    BY <1>0, <1>1 DEF Agree, MatchInv, Ahead
  <2>3. /\ ChildInv' /\ Child(c)' /\ KnownInv'
        /\ \A d \in Client \ {c} : (Child(d)' <=> Child(d)) /\ childPID'[d] = childPID[d]
    BY <2>1, <2>2, ForkedChild DEF Agreement
  <2>4. Agree(c)'
    BY <1>0, <2>2, <2>3, GoesAgree
  <2>5. /\ queue' = queue
        /\ \A d \in Client \ {c} : at'[d] = at[d] /\ answer'[d] = answer[d]
    BY <1>0, GoesEffect
  <2>6. \A d \in Client : On(d)' <=> On(d)
    BY <1>0 DEF On
  <2> QED
    BY <1>0, <2>3, <2>4, <2>5, <2>6, OneClient DEF Agreement
<1>2. CASE answer[c].code # "OK"
  <2>1. SameProcesses /\ ~Ahead(c)
    BY <1>2 DEF GotSubscribe, SameProcesses, Ahead
  <2> QED
    BY <1>0, <2>1, SameGoes
<1> QED
  BY <1>1, <1>2

\* The receiver is ended when the answer says that the host has left the table.
LEMMA UnsubscribedAgrees ==
  ASSUME Typed, LoginInv, Separate, Agreement, NEW c \in Client, GotUnsubscribe(c)
  PROVE  Agreement'
<1>0. /\ CallsTyped /\ Agree(c) /\ at[c] \in {"unsubscribe", "leave"} /\ queue[c] = <<>>
      /\ at[c] \notin Ended /\ Settles(c) /\ subs' = subs
      /\ "menu" \in Place /\ "goodbye" \in Calls /\ NoText \in Argument
  BY TypedCalls, AnsweredClient, NoTextType
  DEF Typed, Agreement, GotUnsubscribe, Ended, Settles, Place, Calls, tableVars
<1>1. CASE answer[c].code = "OK"
  <2>1. ~On(c) /\ Child(c)
    BY <1>0, <1>1 DEF Agree, MatchInv, Ahead
  <2>2. EndedChild(c)
    BY <1>1, <2>1 DEF GotUnsubscribe, EndedChild, Child
  <2>3. /\ ChildInv' /\ ~Child(c)' /\ KnownInv' /\ childPID' = childPID
        /\ \A d \in Client \ {c} : Child(d)' <=> Child(d)
    BY <2>2, EndedEffect DEF Agreement, EndedChild
  <2>4. /\ Agree(c)'
        /\ \A d \in Client \ {c} :
             queue'[d] = queue[d] /\ at'[d] = at[d] /\ answer'[d] = answer[d]
    <3>1. CASE at[c] = "leave"
      <4>1. PICK op \in Signed \cup {"invalidate"}, where \in Calls :
              op = "invalidate" /\ where = "goodbye"
        BY <1>0
      <4>2. AskSigned(c, where, op, NoText)
        BY <3>1, <4>1 DEF GotUnsubscribe
      <4>3. PICK r \in Request : r.op = op /\ queue'[c] = Append(queue[c], r)
        BY <1>0, <4>2, SignedEffect
      <4>4. /\ answer'[c] = NoAnswer
            /\ \A d \in Client \ {c} :
                 queue'[d] = queue[d] /\ at'[d] = at[d] /\ answer'[d] = answer[d]
        BY <1>0, <4>2, SignedEffect
      <4>5. Agree(c)'
        BY <1>0, <2>1, <2>3, <4>1, <4>3, <4>4, AskAgree
      <4> QED
        BY <4>4, <4>5
    <3>2. CASE at[c] # "leave"
      <4>1. Goes(c, "menu")
        BY <3>2 DEF GotUnsubscribe
      <4> QED
        BY <1>0, <2>1, <2>3, <4>1, GoesAgree, GoesEffect
    <3> QED
      BY <3>1, <3>2
  <2>5. \A d \in Client : On(d)' <=> On(d)
    BY <1>0 DEF On
  <2> QED
    BY <1>0, <2>3, <2>4, <2>5, OneClient DEF Agreement
<1>2. CASE answer[c].code # "OK"
  <2>1. SameProcesses /\ ~Ahead(c)
    BY <1>2 DEF GotUnsubscribe, SameProcesses, Ahead
  <2>2. CASE at[c] = "leave"
    <3>1. PICK op \in Signed \cup {"invalidate"}, where \in Calls :
            op = "invalidate" /\ where = "goodbye"
      BY <1>0
    <3>2. AskSigned(c, where, op, NoText)
      BY <2>2, <3>1 DEF GotUnsubscribe
    <3> QED
      BY <1>0, <2>1, <3>1, <3>2, SignedAgrees
  <2>3. CASE at[c] # "leave"
    <3>1. Goes(c, "menu")
      BY <2>3 DEF GotUnsubscribe
    <3> QED
      BY <1>0, <2>1, <3>1, SameGoes
  <2> QED
    BY <2>2, <2>3
<1> QED
  BY <1>1, <1>2

LEMMA ClientAgrees ==
  ASSUME Typed, LoginInv, Agreement, NEW c \in Client,
         Connect(c) \/ Choose(c) \/ GotValidate(c) \/ GotOther(c) \/ TimeOut(c)
  PROVE  Agreement'
<1>0. SameProcesses /\ subs' = subs
  BY DEF Connect, Choose, GotValidate, GotOther, TimeOut, tableVars, processVars, SameProcesses
<1>1. {"menu", "login", "refused", "exited", "crashed"} \subseteq Place /\ {"refused", "exited", "crashed"} \subseteq Ended
  BY DEF Place, Ended
<1>2. ASSUME at[c] \notin Ended \cup {"subscribe", "unsubscribe", "leave"}
      PROVE  at[c] \notin Ended /\ Settles(c) /\ ~Ahead(c)
  BY <1>2 DEF Settles, Ahead
<1>3. CASE Connect(c)
  <2>1. at[c] \notin Ended \cup {"subscribe", "unsubscribe", "leave"}
    BY <1>3 DEF Connect, Ended
  <2>2. \E where \in {"login", "refused"} : Goes(c, where)
    BY <1>3 DEF Connect
  <2> QED
    BY <1>0, <1>1, <1>2, <2>1, <2>2, SameGoes
<1>4. CASE Choose(c)
  <2>1. at[c] \notin Ended \cup {"subscribe", "unsubscribe", "leave"}
    BY <1>4 DEF Choose, Ended
  <2>2. PICK choice \in Menu : AskSigned(c, choice, OperationOf(choice), ArgumentOf(choice))
    BY <1>4 DEF Choose
  <2>3. PICK op \in Signed \cup {"invalidate"} : op = OperationOf(choice)
    BY MenuTypes
  <2>4. PICK argument \in Argument : argument = ArgumentOf(choice)
    BY ArgumentType
  <2>5. /\ AskSigned(c, choice, op, argument) /\ choice \in Calls
        /\ op = "subscribe" => choice = "subscribe"
        /\ op = "unsubscribe" => choice \in {"unsubscribe", "leave"}
    BY <2>2, <2>3, <2>4, MenuTypes DEF OperationOf
  <2> QED
    BY <1>0, <1>2, <2>1, <2>5, SignedAgrees
<1>5. CASE GotValidate(c)
  <2>1. at[c] \notin Ended \cup {"subscribe", "unsubscribe", "leave"}
    BY <1>5 DEF GotValidate, Ended
  <2>2. \E where \in {"menu", "login"} : Goes(c, where)
    BY <1>5 DEF GotValidate
  <2> QED
    BY <1>0, <1>1, <1>2, <2>1, <2>2, SameGoes
<1>6. CASE GotOther(c)
  <2>1. at[c] \notin Ended \cup {"subscribe", "unsubscribe", "leave"}
    BY <1>6 DEF GotOther, Ended
  <2>2. \E where \in {"menu", "login", "exited"} : Goes(c, where)
    BY <1>6 DEF GotOther
  <2> QED
    BY <1>0, <1>1, <1>2, <2>1, <2>2, SameGoes
\* An unsubscribe that was given up leaves a client running that has no receiver.
<1>7. CASE TimeOut(c)
  <2>1. ~Ahead(c) /\ at[c] \notin Ended
    BY <1>7 DEF TimeOut, Ahead, Answered, Waiting, Calls, Ended
  <2>2. CASE at[c] = "leave" /\ childPID[c] = 0
    <3>1. PICK op \in Signed \cup {"invalidate"}, where \in Calls :
            op = "invalidate" /\ where = "goodbye"
      BY DEF Calls
    <3>2. AskSigned(c, where, op, NoText)
      BY <1>7, <2>2, <3>1 DEF TimeOut, AfterNull
    <3>3. Settles(c)
      BY <2>2 DEF Settles
    <3> QED
      BY <1>0, <2>1, <3>1, <3>2, <3>3, NoTextType, SignedAgrees
  <2>3. CASE ~(at[c] = "leave" /\ childPID[c] = 0)
    <3>1. \/ Goes(c, "crashed")
          \/ /\ \E where \in {"menu", "login", "exited"} : Goes(c, where)
             /\ Settles(c)
      BY <1>7, <2>3 DEF TimeOut, AfterNull, Settles
    <3> QED
      BY <1>0, <1>1, <2>1, <3>1, SameGoes
  <2> QED
    BY <2>2, <2>3
<1> QED
  BY <1>3, <1>4, <1>5, <1>6, <1>7

LEMMA KilledAgrees ==
  ASSUME Typed, Separate, Agreement, NEW c \in Client, Kill(c)
  PROVE  Agreement'
<1>0. /\ CallsTyped /\ Agree(c) /\ Goes(c, "killed") /\ "killed" \in Place \cap Ended
      /\ subs' = subs /\ childPID' = childPID /\ portmap' = portmap
  BY TypedCalls DEF Typed, Agreement, Kill, Place, Ended, tableVars
<1>1. CASE UNCHANGED receivers
  <2>1. SameProcesses
    BY <1>0, <1>1 DEF SameProcesses
  <2> QED
    BY <1>0, <2>1, SameGoes
<1>2. CASE childPID[c] # 0 /\ End(childPID[c])
  <2>1. EndedChild(c)
    BY <1>0, <1>2 DEF EndedChild
  <2>2. ChildInv' /\ KnownInv' /\ \A d \in Client \ {c} : Child(d)' <=> Child(d)
    BY <2>1, EndedEffect DEF Agreement
  <2>3. Agree(c)'
    BY <1>0, GoesAgree
  <2>4. /\ queue' = queue
        /\ \A d \in Client \ {c} : at'[d] = at[d] /\ answer'[d] = answer[d]
    BY <1>0, GoesEffect
  <2>5. \A d \in Client : On(d)' <=> On(d)
    BY <1>0 DEF On
  <2> QED
    BY <1>0, <2>2, <2>3, <2>4, <2>5, OneClient DEF Agreement
<1> QED
  BY <1>1, <1>2 DEF Kill

LEMMA AgreeStep == IInv /\ AgreeInv /\ [Next]_vars => AgreeInv'
<1> SUFFICES ASSUME Typed, LoginInv, AgreeInv, [Next]_vars, Separate' PROVE Agreement'
  BY DEF IInv, AgreeInv
<1>0. Separate /\ Agreement /\ \A p \in DOMAIN receivers : ~ReceiverEnds(p)
  BY SeparateStays DEF AgreeInv
<1>1. CASE ServerStarts \/ UNCHANGED vars
  BY <1>0, <1>1, SameNoClient
  DEF ServerStarts, vars, tableVars, clientVars, processVars, SameProcesses
<1>2. ASSUME NEW p \in DOMAIN receivers, ReceiverStarts(p) PROVE Agreement'
  <2>1. ChildInv' /\ KnownInv' /\ \A d \in Client : Child(d)' <=> Child(d)
    BY <1>0, <1>2, StartedEffect DEF Agreement
  <2> QED
    BY <1>0, <1>2, <2>1, NoClient DEF ReceiverStarts, tableVars, clientVars
<1>3. ASSUME NEW c \in Client, Serve(c) PROVE Agreement'
  BY <1>0, <1>3, ServeAgrees
<1>4. CASE Deliver
  BY <1>0, <1>4, DeliverAgrees
<1>5. ASSUME NEW c \in Client, Login(c) \/ GotSession(c) PROVE Agreement'
  BY <1>0, <1>5, LoginAgrees
<1>6. ASSUME NEW c \in Client, GotSubscribe(c) \/ GotUnsubscribe(c) PROVE Agreement'
  BY <1>0, <1>6, SubscribedAgrees, UnsubscribedAgrees
<1>7. ASSUME NEW c \in Client,
             Connect(c) \/ Choose(c) \/ GotValidate(c) \/ GotOther(c) \/ TimeOut(c) \/ Kill(c)
      PROVE  Agreement'
  BY <1>0, <1>7, ClientAgrees, KilledAgrees
<1> QED
  BY <1>0, <1>1, <1>2, <1>3, <1>4, <1>5, <1>6, <1>7 DEF Next, Got

LEMMA AgreeInvariance == Spec => []AgreeInv
<1>1. Init => AgreeInv
  BY InitAgree
<1>2. IInv /\ AgreeInv /\ [Next]_vars => AgreeInv'
  BY AgreeStep
<1> QED
  BY Invariance, <1>1, <1>2, PTL DEF Spec

\* One client per host, at most two hosts, no receiver that ends on its own: whatever
\* calls are given up and whichever clients die, the dispatcher's table names a client's
\* host exactly if the receiver it forked for it (client.c 169, 202-231) still runs.
THEOREM TableMatchesReceiversAlways == Spec => []TableMatchesReceivers
<1>1. AgreeInv => TableMatchesReceivers
  <2> SUFFICES ASSUME AgreeInv, Separate, NEW c \in Client, at[c] = "menu"
               PROVE  Listed(subs, HostOf[c]) <=> childPID[c] # 0 /\ Running(childPID[c])
    BY DEF TableMatchesReceivers
  <2>1. at[c] \notin Ended /\ ~Ahead(c)
    BY DEF Ended, Ahead
  <2> QED
    BY <2>1, AgreeNow DEF AgreeInv, On, Child
<1> QED
  BY AgreeInvariance, <1>1, PTL

\* Under the same conditions no receiver is forgotten: the one that runs on a host is
\* the one its client would end (unsubscribeFromDispatcher).
THEOREM ReceiverIsKnownAlways == Spec => []ReceiverIsKnown
<1>1. IInv /\ AgreeInv => ReceiverIsKnown
  <2> SUFFICES ASSUME IInv, AgreeInv, Separate, NEW p \in DOMAIN receivers, Running(p)
               PROVE  \E c \in Client : HostOf[c] = receivers[p].host /\ childPID[c] = p
    BY DEF ReceiverIsKnown
  <2>1. p # 0
    BY DEF IInv, Typed, TypeOK, ReceiversTypeOK
  <2>2. PICK c \in Client : childPID[c] = p
    BY DEF AgreeInv, Agreement, KnownInv
  <2> QED
    BY <2>1, <2>2 DEF AgreeInv, Agreement, ChildInv
<1> QED
  BY Invariance, AgreeInvariance, <1>1, PTL

-----------------------------------------------------------------------------
(* A publish.                                                              *)

\* The port mapper of a host knows a receiver of that host, and one that serves.
PortInv ==
  /\ \A h \in Host : portmap[h] # 0 => receivers[portmap[h]].host = h
  /\ \A r \in DOMAIN receivers :
       receivers[r].state = "serving" => portmap[receivers[r].host] = r

\* Who has heard the message has a host before the one whose turn it is; who should
\* hear it has a host in the table, and has heard it if that host's turn is over.
TurnInv(p) ==
  /\ p.to # 0 => receivers[p.to].host = subs[p.next]
  /\ \A i \in DOMAIN p.heard : \E k \in 1..(p.next - 1) : receivers[p.heard[i]].host = subs[k]
  /\ OnceEach(p.heard)
  /\ \A r \in p.audience : Running(r) =>
       /\ receivers[r].state = "serving"
       /\ \E k \in 1..Len(subs) :
            /\ subs[k] = receivers[r].host
            /\ k < p.next => Listed(p.heard, r)
            /\ k = p.next /\ p.to # 0 => p.to = r

TurnsInv == \A i \in DOMAIN publishing : TurnInv(publishing[i])

HearInv == Separate => PortInv /\ TurnsInv

LEMMA InitHear == Init => HearInv
BY DEF Init, ReceiversInit, HearInv, PortInv, TurnsInv

\* What may happen to a receiver: it starts to serve, and it ends.
Later(r) ==
  /\ receivers'[r].host = receivers[r].host
  /\ \/ receivers'[r].state = receivers[r].state
     \/ receivers'[r].state = "ended"
     \/ receivers[r].state = "forked" /\ receivers'[r].state = "serving"

LEMMA PortsStay ==
  ASSUME Typed, ReceiversTypeOK', PortInv, portmap' = portmap,
         Len(receivers) <= Len(receivers'),
         \A r \in 1..Len(receivers) :
           Later(r) /\ (receivers'[r].state = "serving" => receivers[r].state = "serving"),
         \A r \in (Len(receivers) + 1)..Len(receivers') : receivers'[r].state = "forked"
  PROVE  PortInv'
<1>0. /\ Len(receivers) \in Nat /\ Len(receivers') \in Nat
      /\ DOMAIN receivers = 1..Len(receivers) /\ DOMAIN receivers' = 1..Len(receivers')
      /\ portmap \in [Host -> 0..Len(receivers)]
  BY DEF Typed, TypeOK, ReceiversTypeOK
<1>1. ASSUME NEW h \in Host, portmap[h] # 0 PROVE receivers'[portmap[h]].host = h
  <2>1. portmap[h] \in 1..Len(receivers)
    BY <1>0, <1>1
  <2> QED
    BY <1>1, <2>1 DEF PortInv, Later
<1>2. ASSUME NEW r \in DOMAIN receivers', receivers'[r].state = "serving"
      PROVE  portmap[receivers'[r].host] = r
  <2>1. r \in 1..Len(receivers) \/ r \in (Len(receivers) + 1)..Len(receivers')
    BY <1>0
  <2>2. r \in 1..Len(receivers)
    BY <1>2, <2>1
  <2> QED
    BY <1>0, <1>2, <2>2 DEF PortInv, Later
<1> QED
  BY <1>1, <1>2 DEF PortInv

LEMMA HostType ==
  ASSUME ReceiversTypeOK, NEW p \in DOMAIN receivers
  PROVE  receivers[p].host \in Host
<1> DEFINE R == [host : Host, state : {"forked", "serving", "ended"}]
<1>1. receivers \in Seq(R)
  BY DEF ReceiversTypeOK
<1>2. \A x \in R : x.host \in Host
  OBVIOUS
<1> HIDE DEF R
<1> QED
  BY <1>1, <1>2

\* A receiver that starts is the only one that runs on its host.
LEMMA ReceiversMove ==
  ASSUME Typed, Separate, Agreement, PortInv, [Next]_vars,
         \A p \in DOMAIN receivers : ~ReceiverEnds(p)
  PROVE  PortInv' /\ \A r \in 1..Len(receivers) : Later(r)
<1>0. /\ ReceiversTypeOK /\ Len(receivers) \in Nat /\ DOMAIN receivers = 1..Len(receivers)
      /\ portmap \in [Host -> 0..Len(receivers)]
  BY DEF Typed, TypeOK, ReceiversTypeOK
<1>1. CASE UNCHANGED processVars
  <2>1. receivers' = receivers /\ portmap' = portmap
    BY <1>1 DEF processVars
  <2> QED
    BY <2>1 DEF PortInv, Later
<1>2. ASSUME NEW c \in Client, Forked(c)
      PROVE  PortInv' /\ \A r \in 1..Len(receivers) : Later(r)
  <2>1. /\ ReceiversTypeOK' /\ Len(receivers') = Len(receivers) + 1
        /\ receivers'[Len(receivers')] = [host |-> HostOf[c], state |-> "forked"]
        /\ \A p \in 1..Len(receivers) : receivers'[p] = receivers[p]
    BY <1>0, <1>2, ForkEffect, ClientAssumption DEF Forked
  <2>2. \A r \in 1..Len(receivers) :
          Later(r) /\ (receivers'[r].state = "serving" => receivers[r].state = "serving")
    BY <2>1 DEF Later
  <2>3. \A r \in (Len(receivers) + 1)..Len(receivers') : receivers'[r].state = "forked"
    <3>1. \A r \in (Len(receivers) + 1)..Len(receivers') : r = Len(receivers')
      BY <1>0, <2>1
    <3> QED
      BY <2>1, <3>1
  <2>4. portmap' = portmap /\ Len(receivers) <= Len(receivers')
    BY <1>0, <1>2, <2>1 DEF Forked
  <2> QED
    BY <2>1, <2>2, <2>3, <2>4, PortsStay
<1>3. ASSUME NEW c \in Client, EndedChild(c)
      PROVE  PortInv' /\ \A r \in 1..Len(receivers) : Later(r)
  <2>1. PICK p \in 1..Len(receivers) : p = childPID[c]
    BY <1>3, ChildRange DEF EndedChild
  <2>2. /\ receivers' = [receivers EXCEPT ![p].state = "ended"] /\ portmap' = portmap
    BY <1>3, <2>1 DEF EndedChild, End
  <2>3. /\ receivers'[p].state = "ended" /\ ReceiversTypeOK' /\ Len(receivers') = Len(receivers)
        /\ \A q \in 1..Len(receivers) : receivers'[q].host = receivers[q].host
        /\ \A q \in 1..Len(receivers) : q # p => receivers'[q] = receivers[q]
    BY <1>0, <2>2, StateChange
  <2>4. \A r \in 1..Len(receivers) :
          Later(r) /\ (receivers'[r].state = "serving" => receivers[r].state = "serving")
    BY <2>3 DEF Later
  <2>5. Len(receivers) <= Len(receivers') /\ (Len(receivers) + 1)..Len(receivers') = {}
    BY <1>0, <2>3
  <2> QED
    BY <2>2, <2>3, <2>4, <2>5, PortsStay
<1>4. ASSUME NEW p \in DOMAIN receivers, ReceiverStarts(p)
      PROVE  PortInv' /\ \A r \in 1..Len(receivers) : Later(r)
  <2>0. PICK home \in Host : home = receivers[p].host
    BY <1>0, <1>4, HostType
  <2>1. /\ receivers' = [receivers EXCEPT ![p].state = "serving"]
        /\ receivers[p].state = "forked"
        /\ portmap' = [portmap EXCEPT ![home] = p]
    BY <1>4, <2>0 DEF ReceiverStarts, Starts
  <2>2. portmap' \in [Host -> 0..Len(receivers)]
    <3>1. p \in 0..Len(receivers)
      BY <1>0
    <3> QED
      BY <1>0, <2>1, <3>1
  <2>3. /\ receivers'[p].state = "serving" /\ ReceiversTypeOK' /\ Len(receivers') = Len(receivers)
        /\ \A q \in 1..Len(receivers) : receivers'[q].host = receivers[q].host
        /\ \A q \in 1..Len(receivers) : q # p => receivers'[q] = receivers[q]
    BY <1>0, <2>1, <2>2, StateChange
  <2>4. \A r \in 1..Len(receivers) : Later(r)
    BY <2>1, <2>3 DEF Later
  <2>5. ASSUME NEW q \in DOMAIN receivers, q # p, receivers[q].state = "serving"
        PROVE  receivers[q].host # home
    <3>1. Running(p) /\ Running(q)
      BY <2>1, <2>5 DEF Running
    <3>2. PICK c \in Client, d \in Client : childPID[c] = p /\ childPID[d] = q
      BY <1>4, <2>5, <3>1 DEF Agreement, KnownInv
    <3>3. receivers[p].host = HostOf[c] /\ receivers[q].host = HostOf[d]
      BY <1>0, <1>4, <2>5, <3>2 DEF Agreement, ChildInv
    <3> QED
      BY <2>0, <2>5, <3>2, <3>3 DEF Separate
  <2>6. ASSUME NEW h \in Host, portmap'[h] # 0 PROVE receivers'[portmap'[h]].host = h
    <3>1. CASE h = home
      BY <1>0, <2>0, <2>1, <2>3, <3>1
    <3>2. CASE h # home
      <4>1. portmap'[h] = portmap[h] /\ portmap[h] \in 1..Len(receivers)
        BY <1>0, <2>1, <2>6, <3>2
      <4> QED
        BY <2>3, <2>6, <4>1 DEF PortInv
    <3> QED
      BY <3>1, <3>2
  <2>7. ASSUME NEW r \in DOMAIN receivers, receivers'[r].state = "serving"
        PROVE  portmap'[receivers'[r].host] = r
    <3>1. CASE r = p
      BY <1>0, <2>0, <2>1, <2>3, <3>1
    <3>2. CASE r # p
      <4>1. receivers'[r] = receivers[r] /\ receivers[r].host # home
        BY <1>0, <2>3, <2>5, <2>7, <3>2
      <4>2. PICK h \in Host : h = receivers[r].host
        BY <1>0, <2>7, HostType
      <4>3. portmap[h] = r
        BY <2>7, <4>1, <4>2 DEF PortInv
      <4> QED
        BY <1>0, <2>1, <4>1, <4>2, <4>3
    <3> QED
      BY <3>1, <3>2
  <2>8. DOMAIN receivers' = DOMAIN receivers
    BY <1>0, <2>3 DEF ReceiversTypeOK
  <2> QED
    BY <2>4, <2>6, <2>7, <2>8 DEF PortInv
<1>5. ASSUME NEW c \in Client, Serve(c) PROVE UNCHANGED processVars
  BY <1>5 DEF Serve, ServeGetSession, ServeValidate, ServeInvalidate, ServeSubscribe,
              ServeUnsubscribe, ServeTable, ServeSetChannel, ServePublish
<1>6. ASSUME NEW c \in Client, Connect(c) \/ Login(c) \/ Choose(c) \/ TimeOut(c)
      PROVE  UNCHANGED processVars
  BY <1>6 DEF Connect, Login, Choose, TimeOut
<1>7. ASSUME NEW c \in Client, Got(c)
      PROVE  UNCHANGED processVars \/ Forked(c) \/ EndedChild(c)
  <2>1. CASE GotSession(c) \/ GotValidate(c) \/ GotOther(c)
    BY <2>1 DEF GotSession, GotValidate, GotOther
  <2>2. CASE GotSubscribe(c)
    BY <2>2 DEF GotSubscribe, Forked, processVars
  <2>3. CASE GotUnsubscribe(c)
    BY <2>3 DEF GotUnsubscribe, EndedChild, processVars
  <2> QED
    BY <1>7, <2>1, <2>2, <2>3 DEF Got
<1>8. ASSUME NEW c \in Client, Kill(c) PROVE UNCHANGED processVars \/ EndedChild(c)
  BY <1>8 DEF Kill, EndedChild, processVars
<1>9. CASE Deliver \/ ServerStarts \/ UNCHANGED vars
  <2>1. UNCHANGED processVars
    BY <1>9 DEF Deliver, Contact, Receive, DeliveryFails, ServerStarts, vars
  <2> QED
    BY <1>1, <2>1
<1> QED
  BY <1>1, <1>2, <1>3, <1>4, <1>5, <1>6, <1>7, <1>8, <1>9 DEF Next

LEMMA TurnParts ==
  ASSUME Typed, NEW p \in Turn
  PROVE  /\ p.next \in 1..Len(subs) /\ p.to \in 0..Len(receivers)
         /\ p.heard \in Seq(1..Len(receivers)) /\ DOMAIN p.heard = 1..Len(p.heard)
         /\ \A i \in DOMAIN p.heard : p.heard[i] \in 1..Len(receivers)
         /\ p.audience \subseteq 1..Len(receivers)
         /\ Len(subs) \in Nat /\ DOMAIN subs = 1..Len(subs) /\ subs[p.next] \in Host
         /\ Len(receivers) \in Nat /\ DOMAIN receivers = 1..Len(receivers)
<1>1. /\ p.next \in 1..Len(subs) /\ p.to \in 0..Len(receivers)
      /\ p.heard \in Seq(1..Len(receivers)) /\ p.audience \subseteq 1..Len(receivers)
  BY DEF Turn
<1>2. /\ Len(subs) \in Nat /\ DOMAIN subs = 1..Len(subs)
      /\ \A k \in 1..Len(subs) : subs[k] \in Host
  BY DEF Typed, TypeOK
<1>3. Len(receivers) \in Nat /\ DOMAIN receivers = 1..Len(receivers)
  BY DEF Typed, TypeOK, ReceiversTypeOK
<1> QED
  BY <1>1, <1>2, <1>3

LEMMA TurnStays ==
  ASSUME Typed, NEW p \in Turn, TurnInv(p), subs' = subs,
         \A r \in 1..Len(receivers) : Later(r)
  PROVE  TurnInv(p)'
<1>0. /\ p.to \in 0..Len(receivers) /\ Len(receivers) \in Nat
      /\ \A i \in DOMAIN p.heard : p.heard[i] \in 1..Len(receivers)
      /\ p.audience \subseteq 1..Len(receivers)
  BY TurnParts
<1>1. \A r \in 1..Len(receivers) : receivers'[r].host = receivers[r].host
  BY DEF Later
<1>2. p.to # 0 => receivers'[p.to].host = subs'[p.next]
  BY <1>0, <1>1 DEF TurnInv
<1>3. \A i \in DOMAIN p.heard : \E k \in 1..(p.next - 1) : receivers'[p.heard[i]].host = subs'[k]
  BY <1>0, <1>1 DEF TurnInv
<1>4. ASSUME NEW r \in p.audience, Running(r)'
      PROVE  /\ receivers'[r].state = "serving"
             /\ \E k \in 1..Len(subs') :
                  /\ subs'[k] = receivers'[r].host
                  /\ k < p.next => Listed(p.heard, r)
                  /\ k = p.next /\ p.to # 0 => p.to = r
  <2>1. Running(r) /\ Later(r)
    BY <1>0, <1>4 DEF Running, Later
  <2>2. receivers[r].state = "serving"
    BY <2>1 DEF TurnInv
  <2>3. receivers'[r].state = "serving"
    BY <1>4, <2>1, <2>2 DEF Running, Later
  <2> QED
    BY <1>0, <1>1, <2>1, <2>3 DEF TurnInv
<1> QED
  BY <1>2, <1>3, <1>4 DEF TurnInv

\* A turn that is over.
DoneInv(p) ==
  /\ \A i \in DOMAIN p.heard : \E k \in 1..p.next : receivers[p.heard[i]].host = subs[k]
  /\ OnceEach(p.heard)
  /\ \A r \in p.audience : Running(r) =>
       /\ receivers[r].state = "serving"
       /\ \E k \in 1..Len(subs) :
            subs[k] = receivers[r].host /\ (k <= p.next => Listed(p.heard, r))

\* A host at which nobody is reached has no receiver that should hear the message, and
\* neither has one whose receiver has ended meanwhile.
LEMMA MissedDone ==
  ASSUME Typed, PortInv, NEW p \in Turn, TurnInv(p),
         \/ p.to = 0 /\ ~Reachable(subs[p.next])
         \/ p.to # 0 /\ ~Running(p.to)
  PROVE  DoneInv(p)
<1>0. /\ p.next \in 1..Len(subs) /\ Len(subs) \in Nat
      /\ p.audience \subseteq 1..Len(receivers) /\ DOMAIN receivers = 1..Len(receivers)
      /\ Len(receivers) \in Nat
  BY TurnParts
<1>1. \A i \in DOMAIN p.heard : \E k \in 1..p.next : receivers[p.heard[i]].host = subs[k]
  BY <1>0 DEF TurnInv
<1>2. ASSUME NEW r \in p.audience, Running(r)
      PROVE  /\ receivers[r].state = "serving"
             /\ \E k \in 1..Len(subs) :
                  subs[k] = receivers[r].host /\ (k <= p.next => Listed(p.heard, r))
  <2>1. receivers[r].state = "serving"
    BY <1>2 DEF TurnInv
  <2>2. PICK k \in 1..Len(subs) :
            /\ subs[k] = receivers[r].host
            /\ k < p.next => Listed(p.heard, r)
            /\ k = p.next /\ p.to # 0 => p.to = r
    BY <1>2 DEF TurnInv
  <2>3. k # p.next
    <3>1. r \in DOMAIN receivers /\ r # 0
      BY <1>0, <1>2
    <3>2. portmap[receivers[r].host] = r
      BY <2>1, <3>1 DEF PortInv
    <3>3. Reachable(receivers[r].host)
      BY <2>1, <3>1, <3>2 DEF Reachable
    <3> QED
      BY <1>2, <2>2, <3>3
  <2>4. k <= p.next => k < p.next
    BY <1>0, <2>3
  <2> QED
    BY <2>1, <2>2, <2>4
<1> QED
  BY <1>1, <1>2 DEF DoneInv, TurnInv

\* The receiver whose turn it is shows the message: it has not done so before, since
\* its host is in the table once.
LEMMA ShownDone ==
  ASSUME Typed, OnceEach(subs), NEW p \in Turn, TurnInv(p), p.to # 0
  PROVE  DoneInv(Shown(p)) /\ Shown(p).next = p.next /\ Shown(p).audience = p.audience
<1>0. /\ p.next \in 1..Len(subs) /\ Len(subs) \in Nat /\ DOMAIN subs = 1..Len(subs)
      /\ p.to \in 1..Len(receivers) /\ Len(receivers) \in Nat
      /\ p.heard \in Seq(1..Len(receivers))
  BY TurnParts
<1>1. PICK h : h = Append(p.heard, p.to)
  OBVIOUS
<1>2. /\ Shown(p).heard = h /\ Shown(p).next = p.next /\ Shown(p).audience = p.audience
  BY <1>1 DEF Shown, Turn
<1>3. /\ DOMAIN h = 1..(Len(p.heard) + 1) /\ DOMAIN p.heard = 1..Len(p.heard) /\ Len(p.heard) \in Nat
      /\ h[Len(p.heard) + 1] = p.to /\ \A i \in DOMAIN p.heard : h[i] = p.heard[i]
  BY <1>0, <1>1, AppendIndex
<1>4. \A i \in DOMAIN h : i = Len(p.heard) + 1 \/ i \in DOMAIN p.heard
  BY <1>3
<1>5. receivers[p.to].host = subs[p.next]
  BY DEF TurnInv
<1>6. \A i \in DOMAIN p.heard : p.heard[i] # p.to
  <2> SUFFICES ASSUME NEW i \in DOMAIN p.heard, p.heard[i] = p.to PROVE FALSE
    OBVIOUS
  <2>1. PICK k \in 1..(p.next - 1) : receivers[p.heard[i]].host = subs[k]
    BY DEF TurnInv
  <2>2. k \in DOMAIN subs /\ p.next \in DOMAIN subs /\ k # p.next
    BY <1>0, <2>1
  <2> QED
    BY <1>5, <2>1, <2>2 DEF OnceEach
<1>7. ASSUME NEW i \in DOMAIN h PROVE \E k \in 1..p.next : receivers[h[i]].host = subs[k]
  <2>1. CASE i = Len(p.heard) + 1
    BY <1>0, <1>3, <1>5, <2>1
  <2>2. CASE i \in DOMAIN p.heard
    <3>1. PICK k \in 1..(p.next - 1) : receivers[p.heard[i]].host = subs[k]
      BY <2>2 DEF TurnInv
    <3> QED
      BY <1>0, <1>3, <2>2, <3>1
  <2> QED
    BY <1>4, <2>1, <2>2
<1>8. OnceEach(h)
  <2> SUFFICES ASSUME NEW i \in DOMAIN h, NEW j \in DOMAIN h, h[i] = h[j] PROVE i = j
    BY DEF OnceEach
  <2>1. OnceEach(p.heard)
    BY DEF TurnInv
  <2> QED
    BY <1>3, <1>4, <1>6, <2>1 DEF OnceEach
<1>9. ASSUME NEW r \in p.audience, Running(r)
      PROVE  /\ receivers[r].state = "serving"
             /\ \E k \in 1..Len(subs) :
                  subs[k] = receivers[r].host /\ (k <= p.next => Listed(h, r))
  <2>1. PICK k \in 1..Len(subs) :
            /\ subs[k] = receivers[r].host
            /\ k < p.next => Listed(p.heard, r)
            /\ k = p.next /\ p.to # 0 => p.to = r
    BY <1>9 DEF TurnInv
  <2>2. Listed(p.heard, r) => Listed(h, r)
    <3>1. \A i \in DOMAIN p.heard : i \in DOMAIN h
      BY <1>3
    <3> QED
      BY <1>3, <3>1 DEF Listed
  <2>3. k = p.next => Listed(h, r)
    <3>1. Len(p.heard) + 1 \in DOMAIN h
      BY <1>3
    <3> QED
      BY <1>3, <2>1, <3>1 DEF Listed
  <2>4. k <= p.next => k < p.next \/ k = p.next
    BY <1>0
  <2>5. receivers[r].state = "serving"
    BY <1>9 DEF TurnInv
  <2> QED
    BY <2>1, <2>2, <2>3, <2>4, <2>5
<1> QED
  BY <1>2, <1>7, <1>8, <1>9 DEF DoneInv

LEMMA NextTurn ==
  ASSUME Typed, NEW p \in Turn, DoneInv(p), p.next # Len(subs)
  PROVE  TurnInv([p EXCEPT !.next = p.next + 1, !.to = 0])
<1>0. p.next \in 1..Len(subs) /\ Len(subs) \in Nat
  BY TurnParts
<1>1. PICK q : q = [p EXCEPT !.next = p.next + 1, !.to = 0]
  OBVIOUS
<1>2. q.next = p.next + 1 /\ q.to = 0 /\ q.heard = p.heard /\ q.audience = p.audience
  BY <1>1 DEF Turn
<1>3. q.next - 1 = p.next /\ \A k \in 1..Len(subs) : k < q.next => k <= p.next
  BY <1>0, <1>2
<1>4. TurnInv(q)
  BY <1>2, <1>3 DEF DoneInv, TurnInv
<1> QED
  BY <1>1, <1>4
\* A receiver is found: if someone there should hear the message, it is this one.
LEMMA ContactTurn ==
  ASSUME Typed, PortInv, NEW p \in Turn, TurnInv(p), Reachable(subs[p.next])
  PROVE  TurnInv([p EXCEPT !.to = portmap[subs[p.next]]])
<1>0. /\ p.next \in 1..Len(subs) /\ subs[p.next] \in Host
      /\ p.audience \subseteq 1..Len(receivers) /\ DOMAIN receivers = 1..Len(receivers)
  BY TurnParts
<1>1. PICK h \in Host : h = subs[p.next]
  BY <1>0
<1>2. PICK q : q = [p EXCEPT !.to = portmap[h]]
  OBVIOUS
<1>3. q.next = p.next /\ q.to = portmap[h] /\ q.heard = p.heard /\ q.audience = p.audience
  BY <1>2 DEF Turn
<1>4. portmap[h] # 0 /\ receivers[portmap[h]].host = h
  BY <1>1 DEF Reachable, PortInv
<1>5. ASSUME NEW r \in p.audience, Running(r)
      PROVE  /\ receivers[r].state = "serving"
             /\ \E k \in 1..Len(subs) :
                  /\ subs[k] = receivers[r].host
                  /\ k < p.next => Listed(p.heard, r)
                  /\ k = p.next => portmap[h] = r
  <2>1. receivers[r].state = "serving" /\ portmap[receivers[r].host] = r
    BY <1>0, <1>5 DEF TurnInv, PortInv
  <2>2. PICK k \in 1..Len(subs) :
          subs[k] = receivers[r].host /\ (k < p.next => Listed(p.heard, r))
    BY <1>5 DEF TurnInv
  <2>3. k = p.next => portmap[h] = r
    BY <1>1, <2>1, <2>2
  <2> QED
    BY <2>1, <2>2, <2>3
<1>6. TurnInv(q)
  BY <1>1, <1>3, <1>4, <1>5 DEF TurnInv
<1> QED
  BY <1>1, <1>2, <1>6

\* What heard the message when the turn that is under way ends.
Concluded(p) == IF p.to # 0 /\ Running(p.to) THEN Shown(p) ELSE p

LEMMA TurnOver ==
  ASSUME Typed, PortInv, OnceEach(subs), Deliver, TurnInv(Head(publishing))
  PROVE  LET h == Head(publishing)
             p == Concluded(h)
         IN  \/ \E q \in Turn : publishing' = <<q>> /\ TurnInv(q)
             \/ /\ DoneInv(p) /\ p \in Turn /\ p.next = h.next /\ p.audience = h.audience
                /\ \E code : TurnEnds(p, code)
<1>1. publishing # <<>> /\ Head(publishing) \in Turn
  BY DeliverCases
<1>2. PICK h \in Turn : h = Head(publishing)
  BY <1>1
<1>3. TurnInv(h)
  BY <1>2
<1>4. CASE Contact /\ Reachable(subs[h.next])
  <2>1. PICK q : q = [h EXCEPT !.to = portmap[subs[h.next]]]
    OBVIOUS
  <2>2. publishing' = <<q>>
    BY <1>2, <1>4, <2>1 DEF Contact
  <2>3. TurnInv(q)
    BY <1>3, <1>4, <2>1, ContactTurn
  <2>4. portmap[subs[h.next]] \in 0..Len(receivers)
    BY TurnParts DEF Typed, TypeOK, ReceiversTypeOK
  <2>5. q \in Turn
    BY <2>1, <2>4 DEF Turn
  <2> QED
    BY <2>2, <2>3, <2>5
<1>5. CASE Contact /\ ~Reachable(subs[h.next])
  <2>1. h.to = 0 /\ TurnEnds(h, "UNKNOWN_ERROR")
    BY <1>2, <1>5 DEF Contact
  <2>2. Concluded(h) = h
    BY <2>1 DEF Concluded
  <2>3. DoneInv(h)
    BY <1>3, <1>5, <2>1, MissedDone
  <2> QED
    BY <1>2, <2>1, <2>2, <2>3
<1>6. CASE DeliveryFails
  <2>1. h.to # 0 /\ ~Running(h.to) /\ TurnEnds(h, "OK")
    BY <1>2, <1>6 DEF DeliveryFails
  <2>2. Concluded(h) = h
    BY <2>1 DEF Concluded
  <2>3. DoneInv(h)
    BY <1>3, <2>1, MissedDone
  <2> QED
    BY <1>2, <2>1, <2>2, <2>3
<1>7. CASE Receive
  <2>1. h.to # 0 /\ Running(h.to) /\ TurnEnds(Shown(h), "OK")
    BY <1>2, <1>7 DEF Receive
  <2>2. Concluded(h) = Shown(h)
    BY <2>1 DEF Concluded
  <2>3. DoneInv(Shown(h)) /\ Shown(h).next = h.next /\ Shown(h).audience = h.audience
    BY <1>3, <2>1, ShownDone
  <2>4. Append(h.heard, h.to) \in Seq(1..Len(receivers))
    <3>1. h.to \in 1..Len(receivers) /\ h.heard \in Seq(1..Len(receivers))
      BY <2>1, TurnParts
    <3> QED
      BY <3>1
  <2>5. Shown(h) \in Turn
    BY <2>4 DEF Turn, Shown
  <2> QED
    BY <1>2, <2>1, <2>2, <2>3, <2>5
<1> QED
  BY <1>2, <1>4, <1>5, <1>6, <1>7 DEF Deliver, Contact

\* A publish begins: who should hear it has its host in the table.
LEMMA FirstTurn ==
  ASSUME Typed, Agreement, NEW c \in Client, ServePublish(c), publishing' # <<>>
  PROVE  \E p : publishing' = <<p>> /\ TurnInv(p)
<1>1. publishing = <<>>
  BY DEF ServePublish, Serving
<1>2. PICK p : p = [client |-> c, next |-> 1, to |-> 0, heard |-> <<>>,
                    audience |-> {childPID[d] : d \in {e \in Client : Settled(e)}}]
  OBVIOUS
<1>3. publishing' = <<p>>
  BY <1>1, <1>2 DEF ServePublish
<1>4. /\ p.next = 1 /\ p.to = 0 /\ p.heard = <<>>
      /\ p.audience = {childPID[d] : d \in {e \in Client : Settled(e)}}
  BY <1>2
<1>5. ASSUME NEW r \in p.audience
      PROVE  /\ receivers[r].state = "serving"
             /\ \E k \in 1..Len(subs) : subs[k] = receivers[r].host
  <2>1. PICK d \in Client : Settled(d) /\ r = childPID[d]
    BY <1>4, <1>5
  <2>2. at[d] \notin Ended /\ ~Ahead(d) /\ Child(d)
    BY <2>1 DEF Settled, Ended, Ahead, Child, Running
  <2>3. Listed(subs, HostOf[d]) /\ receivers[r].host = HostOf[d]
    BY <2>1, <2>2, AgreeNow DEF On, Child, Agreement, ChildInv
  <2>4. DOMAIN subs = 1..Len(subs)
    BY DEF Typed, TypeOK
  <2> QED
    BY <2>1, <2>3, <2>4 DEF Settled, Listed
<1>6. \A k \in 1..Len(subs) : ~(k < 1)
  OBVIOUS
<1>7. \A i \in DOMAIN p.heard : FALSE
  BY <1>4
<1>8. TurnInv(p)
  BY <1>4, <1>5, <1>6, <1>7 DEF TurnInv, OnceEach
<1> QED
  BY <1>3, <1>8

LEMMA PublishCases ==
  ASSUME Typed, [Next]_vars
  PROVE  \/ publishing' = publishing /\ (publishing = <<>> \/ subs' = subs)
         \/ \E c \in Client : ServePublish(c)
         \/ Deliver
<1>1. ASSUME NEW c \in Client, Serve(c), ~ServePublish(c)
      PROVE  publishing' = publishing /\ publishing = <<>>
  BY <1>1 DEF Serve, Serving, ServeGetSession, ServeValidate, ServeInvalidate, ServeSubscribe,
              ServeUnsubscribe, ServeTable, ServeSetChannel
<1>2. ASSUME NEW c \in Client, Connect(c) \/ Login(c) \/ Choose(c) \/ Got(c) \/ TimeOut(c) \/ Kill(c)
      PROVE  publishing' = publishing /\ subs' = subs
  BY <1>2 DEF Connect, Login, Choose, Got, GotSession, GotValidate, GotSubscribe,
              GotUnsubscribe, GotOther, TimeOut, Kill, tableVars
<1>3. ASSUME NEW p, ReceiverStarts(p) \/ ReceiverEnds(p)
      PROVE  publishing' = publishing /\ subs' = subs
  BY <1>3 DEF ReceiverStarts, ReceiverEnds, tableVars
<1>4. CASE ServerStarts \/ UNCHANGED vars
  BY <1>4 DEF ServerStarts, vars, tableVars
<1> QED
  BY <1>1, <1>2, <1>3, <1>4 DEF Next

LEMMA HearStep == IInv /\ AgreeInv /\ HearInv /\ [Next]_vars => HearInv'
<1> SUFFICES ASSUME Typed, AgreeInv, HearInv, [Next]_vars, Separate'
             PROVE  PortInv' /\ TurnsInv'
  BY DEF IInv, HearInv
<1>0. /\ Agreement /\ PortInv /\ \A p \in DOMAIN receivers : ~ReceiverEnds(p)
      /\ TurnsInv
  <2>1. Separate /\ \A p \in DOMAIN receivers : ~ReceiverEnds(p)
    BY SeparateStays
  <2> QED
    BY <2>1 DEF AgreeInv, HearInv
<1>1. PortInv' /\ \A r \in 1..Len(receivers) : Later(r)
  <2>1. Separate
    BY SeparateStays
  <2> QED
    BY <1>0, <2>1, ReceiversMove
<1>2. publishing \in Seq(Turn) /\ Len(publishing) <= 1
  BY TypedCalls DEF Typed, TypeOK
<1>3. ASSUME NEW p, publishing' = <<p>>, TurnInv(p)'
      PROVE  TurnsInv'
  <2>1. \A i \in DOMAIN publishing' : publishing'[i] = p
    BY <1>3
  <2> QED
    BY <1>3, <2>1 DEF TurnsInv
<1>4. ASSUME NEW p, TurnInv(p), UNCHANGED <<subs, receivers>>
      PROVE  TurnInv(p)'
  BY <1>4 DEF TurnInv, Running
<1>5. CASE publishing' = <<>>
  BY <1>1, <1>5 DEF TurnsInv
<1>6. CASE publishing' = publishing /\ subs' = subs
  <2>1. \A i \in DOMAIN publishing : publishing[i] \in Turn
    BY <1>2
  <2>2. \A i \in DOMAIN publishing : TurnInv(publishing[i])'
    BY <1>0, <1>1, <1>6, <2>1, TurnStays DEF TurnsInv
  <2> QED
    BY <1>1, <1>6, <2>2 DEF TurnsInv
<1>7. ASSUME NEW c \in Client, ServePublish(c), publishing' # <<>>
      PROVE  TurnsInv'
  <2>1. PICK p : publishing' = <<p>> /\ TurnInv(p)
    BY <1>0, <1>7, FirstTurn
  <2>2. UNCHANGED <<subs, receivers>>
    BY <1>7 DEF ServePublish, tableVars, processVars
  <2> QED
    BY <1>3, <1>4, <2>1, <2>2
<1>8. CASE Deliver
  <2>1. UNCHANGED <<subs, receivers>>
    BY <1>8, DeliverCases DEF tableVars, processVars
  <2>2. TurnInv(Head(publishing)) /\ OnceEach(subs)
    <3>1. publishing # <<>>
      BY <1>8, DeliverCases
    <3>2. 1 \in DOMAIN publishing /\ Head(publishing) = publishing[1]
      BY <1>2, <3>1, AtMostOne
    <3> QED
      BY <1>0, <3>2 DEF Agreement, TurnsInv
  <2>3. PICK h : h = Head(publishing)
    OBVIOUS
  <2>4. PICK p : p = Concluded(h)
    OBVIOUS
  <2>5. \/ \E q \in Turn : publishing' = <<q>> /\ TurnInv(q)
        \/ DoneInv(p) /\ p \in Turn /\ \E code : TurnEnds(p, code)
    BY <1>0, <1>8, <2>2, <2>3, <2>4, TurnOver
  <2>6. CASE \E q \in Turn : publishing' = <<q>> /\ TurnInv(q)
    BY <1>1, <1>3, <1>4, <2>1, <2>6
  <2>7. ASSUME DoneInv(p), p \in Turn, NEW code, TurnEnds(p, code)
        PROVE  TurnsInv'
    <3>1. CASE LastTurn(p, code)
      <4>1. publishing' = <<>>
        BY <2>7, <3>1 DEF TurnEnds
      <4> QED
        BY <4>1 DEF TurnsInv
    <3>2. CASE ~LastTurn(p, code)
      <4>1. PICK q : q = [p EXCEPT !.next = p.next + 1, !.to = 0]
        OBVIOUS
      <4>2. publishing' = <<q>>
        BY <2>7, <3>2, <4>1 DEF TurnEnds
      <4>3. p.next # Len(subs)
        BY <3>2 DEF LastTurn
      <4>4. TurnInv(q)
        BY <2>7, <4>1, <4>3, NextTurn
      <4> QED
        BY <1>3, <1>4, <2>1, <4>2, <4>4
    <3> QED
      BY <3>1, <3>2
  <2> QED
    BY <1>1, <2>5, <2>6, <2>7
<1> QED
  BY <1>1, <1>5, <1>6, <1>7, <1>8, PublishCases

LEMMA HearInvariance == Spec => []HearInv
<1>1. Init => HearInv
  BY InitHear
<1>2. IInv /\ AgreeInv /\ HearInv /\ [Next]_vars => HearInv'
  BY HearStep
<1> QED
  BY Invariance, AgreeInvariance, <1>1, <1>2, PTL DEF Spec

LEMMA AllHeard ==
  ASSUME Typed, Agreement, PortInv, TurnsInv,
         [Next]_vars, publishing # <<>>, publishing' = <<>>
  PROVE  LET p == Head(publishing)
             heard == Concluded(p).heard
         IN  OnceEach(heard) /\ \A r \in p.audience : Running(r) => Listed(heard, r)
<1>1. Deliver
  <2>1. \A c \in Client : ~ServePublish(c)
    BY DEF ServePublish, Serving
  <2> QED
    BY <2>1, PublishCases
<1>2. 1 \in DOMAIN publishing /\ Head(publishing) = publishing[1] /\ Head(publishing) \in Turn
  BY TypedCalls, AtMostOne DEF Typed, TypeOK
<1>3. PICK h \in Turn : h = Head(publishing)
  BY <1>2
<1>4. PICK p : p = Concluded(h)
  OBVIOUS
<1>5. TurnInv(h) /\ OnceEach(subs)
  BY <1>2, <1>3 DEF Agreement, TurnsInv
<1>6. /\ DoneInv(p) /\ p \in Turn /\ p.audience = h.audience
      /\ \E code : TurnEnds(p, code)
  <2>1. \A q : publishing' # <<q>>
    OBVIOUS
  <2> QED
    BY <1>1, <1>3, <1>4, <1>5, <2>1, TurnOver
<1>7. p.next = Len(subs)
  BY <1>6 DEF TurnEnds, LastTurn
<1>8. \A k \in 1..Len(subs) : k <= p.next
  BY <1>7, TurnParts DEF Typed, TypeOK
<1>9. OnceEach(p.heard) /\ \A r \in p.audience : Running(r) => Listed(p.heard, r)
  BY <1>6, <1>8 DEF DoneInv
<1> QED
  BY <1>3, <1>4, <1>6, <1>9

\* One client per host, at most two hosts, no receiver that ends on its own: a publish
\* that gets through the table (dispatcher.c 157-169) has reached every receiver that
\* was ready when it began and still runs, and none of them twice, whichever receivers
\* start and whichever are killed by their clients meanwhile.
THEOREM AudienceHearsAlways == Spec => AudienceHears
<1> DEFINE A == publishing # <<>> /\ publishing' = <<>> /\ Separate =>
       LET p == Head(publishing)
           heard == IF p.to # 0 /\ Running(p.to) THEN Shown(p).heard ELSE p.heard
       IN  /\ \A i, j \in DOMAIN heard : heard[i] = heard[j] => i = j
           /\ \A r \in p.audience : Running(r) => \E i \in DOMAIN heard : heard[i] = r
<1>1. IInv /\ AgreeInv /\ HearInv /\ [Next]_vars => [A]_vars
  <2> SUFFICES ASSUME Typed, AgreeInv, HearInv, [Next]_vars,
                      publishing # <<>>, publishing' = <<>>, Separate
               PROVE  A
    BY DEF IInv
  <2>1. PICK p : p = Head(publishing)
    OBVIOUS
  <2>2. PICK heard : heard = Concluded(p).heard
    OBVIOUS
  <2>3. OnceEach(heard) /\ \A r \in p.audience : Running(r) => Listed(heard, r)
    BY <2>1, <2>2, AllHeard DEF AgreeInv, HearInv
  <2>4. heard = IF p.to # 0 /\ Running(p.to) THEN Shown(p).heard ELSE p.heard
    BY <2>2 DEF Concluded
  <2> QED
    BY <2>1, <2>3, <2>4 DEF OnceEach, Listed
<1>2. AudienceHears <=> [][A]_vars
  BY DEF AudienceHears
<1> HIDE DEF A
<1> QED
  BY Invariance, AgreeInvariance, HearInvariance, <1>1, <1>2, PTL DEF Spec
=============================================================================
