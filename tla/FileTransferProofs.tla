------------------------- MODULE FileTransferProofs -------------------------
(***************************************************************************)
(* Theorems about FileTransfer, for any hosts, files, chunk sizes and      *)
(* fault budgets.                                                          *)
(***************************************************************************)
EXTENDS FileTransfer, FiniteSetTheorems, SequenceTheorems, TLAPS

-----------------------------------------------------------------------------
(* Queues.                                                                 *)

\* What a fault makes of a queue is a queue of the same datagrams.
LEMMA DisturbedQueue ==
  ASSUME NEW S, NEW q \in Seq(S), NEW k \in {"lose", "duplicate", "reorder"},
         Len(q) >= Needs(k)
  PROVE  /\ Disturbed(q, k) \in Seq(S)
         /\ \A i \in 1..Len(Disturbed(q, k)) :
              \E j \in 1..Len(q) : Disturbed(q, k)[i] = q[j]
<1> DEFINE d == Disturbed(q, k)
<1>1. CASE k = "lose"
  <2>1. d = Tail(q) /\ Len(q) >= 1
    BY <1>1 DEF Disturbed, Needs
  <2>2. Tail(q) \in Seq(S) /\ Len(Tail(q)) = Len(q) - 1
    BY <2>1
  <2>3. \A i \in 1..Len(Tail(q)) : Tail(q)[i] = q[i + 1] /\ i + 1 \in 1..Len(q)
    BY <2>1, <2>2
  <2> QED BY <2>1, <2>2, <2>3
<1>2. CASE k = "duplicate"
  <2>1. d = <<Head(q)>> \o q /\ Len(q) >= 1
    BY <1>2 DEF Disturbed, Needs
  <2>2. Head(q) \in S /\ Head(q) = q[1]
    BY <2>1
  <2>3. d \in Seq(S) /\ Len(d) = Len(q) + 1
    BY <2>1, <2>2
  <2>4. \A i \in 1..Len(d) : IF i = 1 THEN d[i] = q[1]
                             ELSE d[i] = q[i - 1] /\ i - 1 \in 1..Len(q)
    BY <2>1, <2>2, <2>3
  <2> QED BY <2>1, <2>3, <2>4
<1>3. CASE k = "reorder"
  <2>1. d = [q EXCEPT ![1] = q[2], ![2] = q[1]] /\ Len(q) >= 2
    BY <1>3 DEF Disturbed, Needs
  <2>2. d \in Seq(S) /\ Len(d) = Len(q)
    BY <2>1
  <2>3. \A i \in 1..Len(d) : d[i] = IF i = 1 THEN q[2] ELSE IF i = 2 THEN q[1] ELSE q[i]
    BY <2>1, <2>2
  <2>4. ASSUME NEW i \in 1..Len(d)
        PROVE  \E j \in 1..Len(q) : d[i] = q[j]
    <3> 1 \in 1..Len(q) /\ 2 \in 1..Len(q) /\ i \in 1..Len(q)
      BY <2>1, <2>2
    <3> HIDE DEF d
    <3> QED BY <2>3
  <2> QED BY <2>2, <2>4
<1> QED BY <1>1, <1>2, <1>3

LEMMA DisturbedReplies ==
  ASSUME NEW q \in Seq(Reply), NEW k \in {"lose", "duplicate", "reorder"}, Len(q) >= Needs(k)
  PROVE  \A i \in 1..Len(Disturbed(q, k)) : \E j \in 1..Len(q) : Disturbed(q, k)[i] = q[j]
BY DisturbedQueue

\* Sending to and taking from a queue keep the type of the queues.
LEMMA SendType ==
  ASSUME NEW S, NEW chan \in [Host -> Seq(S)], NEW h \in Host, NEW m \in S
  PROVE  Send(chan, h, m) \in [Host -> Seq(S)]
BY DEF Send

LEMMA TakeType ==
  ASSUME NEW S, NEW chan \in [Host -> Seq(S)], NEW h \in Host, chan[h] # <<>>
  PROVE  /\ Take(chan, h) \in [Host -> Seq(S)]
         /\ Head(chan[h]) \in S
<1>1. Tail(chan[h]) \in Seq(S)
  OBVIOUS
<1> QED BY <1>1 DEF Take

LEMMA ParsedType ==
  ASSUME NEW d \in ChunkSet
  PROVE  Parsed(d) \in ChunkSet
BY DEF Parsed, ChunkSet

\* The chunk fileFunction reads has a length, and a session stays a session.
LEMMA ChunkLenType ==
  ASSUME NEW f \in DOMAIN Size, NEW c \in ChunkSizes, NEW n \in Nat
  PROVE  ChunkLen(f, c, n) \in Nat
<1>1. n * c \in Nat
  BY DEF ChunkSizes
<1>2. Size[f] \in Nat /\ c \in Nat
  BY SizeAssumption DEF ChunkSizes
<1> QED BY <1>1, <1>2 DEF ChunkLen

LEMMA CappedType ==
  ASSUME NEW a \in ChunkArg
  PROVE  Capped(a) \in ChunkSizes
BY ChunkAssumption DEF Capped, ChunkSizes
-----------------------------------------------------------------------------
(* Types.                                                                  *)

\* Every variable keeps its type, whatever the network does.
THEOREM TypeCorrect == Spec => []TypeOK
<1>1. Init => TypeOK
  BY SizeAssumption, ChunkAssumption DEF Init, TypeOK, ChunkSizes, FaultKind
<1>2. TypeOK /\ [Next]_vars => TypeOK'
  <2> SUFFICES ASSUME TypeOK, [Next]_vars PROVE TypeOK'
    OBVIOUS
  <2> USE DEF TypeOK
  <2>1. ASSUME NEW h \in Host, Start(h) PROVE TypeOK'
    <3>1. PICK f \in Name, a \in ChunkArg :
            /\ name' = [name EXCEPT ![h] = f]
            /\ chunksize' = [chunksize EXCEPT ![h] = Capped(a)]
            /\ toServer' = Send(toServer, h, Initx(Capped(a), f))
      BY <2>1 DEF Start
    <3>2. Initx(Capped(a), f) \in Request
      BY CappedType DEF Initx, Request
    <3>3. toServer' \in [Host -> Seq(Request)]
      BY <3>1, <3>2, SendType
    <3>4. name' \in [Host -> Name] /\ chunksize' \in [Host -> ChunkSizes]
      BY <3>1, CappedType
    <3>5. chunkNo' \in [Host -> Nat] /\ sessionKey' \in [Host -> Nat] /\ starts' \in [Host -> Nat]
          /\ pc' \in [Host -> {"idle", "running"} \cup Ended]
      BY <2>1 DEF Start
    <3> QED BY <2>1, <3>3, <3>4, <3>5 DEF Start, serverVars
  <2>2. ASSUME NEW h \in Host, ClientError(h) PROVE TypeOK'
    <3>1. Head(toClient[h]) \in Reply /\ Tail(toClient[h]) \in Seq(Reply)
      BY <2>2 DEF ClientError, ClientReceives, Arrived
    <3>2. Head(toClient[h]).error \in {"FNF", "CNF", "NOS"}
      BY <2>2, <3>1 DEF ClientError, ClientReceives, Arrived, Reply
    <3>3. Initx(chunksize[h], name[h]) \in Request
      BY DEF Initx, Request
    <3>4. toServer' \in [Host -> Seq(Request)]
      <4>1. toServer' = toServer \/ toServer' = Send(toServer, h, Initx(chunksize[h], name[h]))
        BY <2>2 DEF ClientError
      <4>2. Send(toServer, h, Initx(chunksize[h], name[h])) \in [Host -> Seq(Request)]
        BY <3>3, SendType
      <4> QED BY <4>1, <4>2
    <3>5. toClient' \in [Host -> Seq(Reply)]
      BY <2>2, <3>1 DEF ClientError, Take
    <3>6. pc' \in [Host -> {"idle", "running"} \cup Ended]
      BY <2>2, <3>2 DEF ClientError, Ended
    <3> QED BY <2>2, <3>4, <3>5, <3>6 DEF ClientError, serverVars, envVars
  <2>3. ASSUME NEW h \in Host, ClientSid(h) PROVE TypeOK'
    <3>1. Head(toClient[h]) \in Reply /\ Tail(toClient[h]) \in Seq(Reply)
      BY <2>3 DEF ClientSid, ClientReceives, Arrived
    <3>2. Head(toClient[h]).sid \in Nat
      BY <2>3, <3>1 DEF ClientSid, ClientReceives, Arrived, Reply
    <3>3. Getxx(Head(toClient[h]).sid, 0) \in Request
      BY <3>2 DEF Getxx, Request
    <3>4. toServer' \in [Host -> Seq(Request)]
      BY <2>3, <3>3, SendType DEF ClientSid
    <3>5. toClient' \in [Host -> Seq(Reply)]
      BY <2>3, <3>1 DEF ClientSid, Take
    <3> QED BY <2>3, <3>2, <3>4, <3>5 DEF ClientSid, serverVars, envVars
  <2>4. ASSUME NEW h \in Host, ClientData(h) PROVE TypeOK'
    <3> DEFINE m == Head(toClient[h])
    <3>1. m \in Reply /\ Tail(toClient[h]) \in Seq(Reply)
      BY <2>4 DEF ClientData, ClientReceives, Arrived
    <3>2. m.n \in Nat /\ m.size \in Nat /\ m.data \in ChunkSet
      BY <2>4, <3>1 DEF ClientData, ClientReceives, Arrived, Reply
    <3>3. Parsed(m.data) \in ChunkSet
      BY <3>2, ParsedType
    <3>4. AppendTextToFile(written[h], m) \in Seq(ChunkSet)
      BY <3>2, <3>3 DEF AppendTextToFile
    <3>5. Getxx(sessionKey[h], chunkNo[h]) \in Request
      BY DEF Getxx, Request
    <3>6. toServer' \in [Host -> Seq(Request)] /\ chunkNo' \in [Host -> Nat]
          /\ pc' \in [Host -> {"idle", "running"} \cup Ended]
      <4>1. CASE Short(m.size, chunksize[h])
        <5>1. pc' = [pc EXCEPT ![h] = "transmitted"]
              /\ chunkNo' = chunkNo /\ toServer' = toServer
          BY <2>4, <4>1 DEF ClientData
        <5> QED BY <5>1 DEF Ended
      <4>2. CASE ~Short(m.size, chunksize[h])
        <5>1. /\ toServer' = Send(toServer, h, Getxx(sessionKey[h], chunkNo[h]))
              /\ chunkNo' = [chunkNo EXCEPT ![h] = @ + 1]
              /\ pc' = pc
          BY <2>4, <4>2 DEF ClientData
        <5>2. toServer' \in [Host -> Seq(Request)]
          BY <3>5, <5>1, SendType
        <5> QED BY <5>1, <5>2
      <4> QED BY <4>1, <4>2
    <3>7. toClient' \in [Host -> Seq(Reply)]
      BY <2>4, <3>1 DEF ClientData, Take
    <3>8. written' \in [Host -> Seq(ChunkSet)]
      BY <2>4, <3>4 DEF ClientData
    <3> QED BY <2>4, <3>6, <3>7, <3>8 DEF ClientData, serverVars, envVars
  <2>5. ASSUME NEW h \in Host, PortClosed(h) PROVE TypeOK'
    <3>1. Tail(toClient[h]) \in Seq(Reply)
      BY <2>5 DEF PortClosed
    <3> QED BY <2>5, <3>1 DEF PortClosed, Take, clientVars, serverVars, envVars
  <2>6. ASSUME NEW h \in Host, ServerInitx(h) PROVE TypeOK'
    <3> DEFINE m == Head(toServer[h])
    <3>1. m \in Request /\ Tail(toServer[h]) \in Seq(Request)
      BY <2>6 DEF ServerInitx, NextSid, Arrived
    <3>2. m.size \in ChunkSizes /\ m.name \in Name
      BY <2>6, <3>1 DEF ServerInitx, NextSid, Arrived, Request
    <3>3. sid' = sid + 1 /\ sid' \in Nat
      BY <2>6 DEF ServerInitx, NextSid
    <3>4. Sidxx(sid') \in Reply /\ Error("FNF") \in Reply
      BY <3>3 DEF Sidxx, Error, Reply
    <3>5. toClient' \in [Host -> Seq(Reply)]
      <4>1. \E r \in {Sidxx(sid'), Error("FNF")} : toClient' = Send(toClient, h, r)
        BY <2>6 DEF ServerInitx, NextSid
      <4>2. \A r \in {Sidxx(sid'), Error("FNF")} : Send(toClient, h, r) \in [Host -> Seq(Reply)]
        BY <3>4, SendType
      <4> QED BY <4>1, <4>2
    <3>6. DOMAIN valuesMap' \subseteq 1..sid'
      BY <2>6, <3>3 DEF ServerInitx, NextSid
    <3>7. \A s \in DOMAIN valuesMap' : valuesMap'[s] \in MessageValues
      <4> DEFINE mv == [ip |-> h, file |-> m.name, size |-> m.size, cnf |-> FALSE]
      <4>1. CASE m.name \in DOMAIN Size
        <5>1. mv \in MessageValues
          BY <3>2, <4>1 DEF MessageValues
        <5>2. valuesMap' = [s \in DOMAIN valuesMap \cup {sid'} |->
                              IF s = sid' THEN mv ELSE valuesMap[s]]
          BY <2>6, <4>1 DEF ServerInitx, NextSid
        <5> HIDE DEF mv
        <5> QED BY <5>1, <5>2
      <4>2. CASE m.name \notin DOMAIN Size
        BY <2>6, <4>2 DEF ServerInitx, NextSid
      <4> QED BY <4>1, <4>2
    <3>8. toServer' \in [Host -> Seq(Request)]
      BY <2>6, <3>1 DEF ServerInitx, NextSid, Take
    <3> QED BY <2>6, <3>3, <3>5, <3>6, <3>7, <3>8 DEF ServerInitx, NextSid, clientVars, envVars
  <2>7. ASSUME NEW h \in Host, ServerGetxx(h) PROVE TypeOK'
    <3> DEFINE m == Head(toServer[h])
    <3> DEFINE mv == valuesMap[m.sid]
    <3> DEFINE len == ChunkLen(mv.file, mv.size, m.n)
    <3> DEFINE answer == Datax(m.n, len, Chunk(mv.file, mv.size, m.n))
    <3>1. m \in Request /\ Tail(toServer[h]) \in Seq(Request)
      BY <2>7 DEF ServerGetxx, Arrived
    <3>2. m.sid \in Nat /\ m.n \in Nat
      BY <2>7, <3>1 DEF ServerGetxx, Arrived, Request
    <3>3. toServer' \in [Host -> Seq(Request)]
      BY <2>7, <3>1 DEF ServerGetxx, Take
    <3>4. CASE m.sid \notin DOMAIN valuesMap
      <4>1. Error("NOS") \in Reply
        BY DEF Error, Reply
      <4>2. toClient' \in [Host -> Seq(Reply)]
        <5>1. toClient' = Send(toClient, h, Error("NOS"))
          BY <2>7, <3>4 DEF ServerGetxx
        <5> QED BY <4>1, <5>1, SendType
      <4> QED BY <2>7, <3>3, <3>4, <4>2 DEF ServerGetxx, clientVars, envVars
    <3>5. CASE m.sid \in DOMAIN valuesMap
      <4>1. mv \in MessageValues
        BY <3>5
      <4>2. len \in Nat
        BY <3>2, <4>1, ChunkLenType DEF MessageValues
      <4>3. Error("CNF") \in Reply /\ answer \in Reply
        BY <3>2, <4>1, <4>2 DEF Error, Datax, Chunk, ChunkSet, MessageValues, Reply
      <4>4. toClient' = Send(toClient, mv.ip, IF mv.cnf THEN Error("CNF") ELSE answer)
            /\ valuesMap' = [valuesMap EXCEPT ![m.sid].cnf = @ \/ Short(len, mv.size)]
        BY <2>7, <3>5 DEF ServerGetxx
      <4>5. toClient' \in [Host -> Seq(Reply)]
        <5>1. mv.ip \in Host
          BY <4>1 DEF MessageValues
        <5>2. \E r \in {Error("CNF"), answer} : toClient' = Send(toClient, mv.ip, r)
          BY <4>4
        <5> HIDE DEF mv, answer
        <5>3. \A r \in {Error("CNF"), answer} : Send(toClient, mv.ip, r) \in [Host -> Seq(Reply)]
          BY <4>3, <5>1, SendType
        <5> QED BY <5>2, <5>3
      <4>6. DOMAIN valuesMap' = DOMAIN valuesMap
            /\ \A s \in DOMAIN valuesMap' : valuesMap'[s] \in MessageValues
        BY <4>1, <4>4 DEF MessageValues
      <4> QED BY <2>7, <3>3, <4>5, <4>6 DEF ServerGetxx, clientVars, envVars
    <3> QED BY <3>4, <3>5
  <2>8. ASSUME NEW k \in FaultKind, Fault(k)
        PROVE  faults' \in [FaultKind -> Nat] /\ starts' \in [Host -> Nat]
    BY <2>8 DEF Fault
  <2>9. ASSUME NEW h \in Host, NEW k \in {"lose", "duplicate", "reorder"}, Network(h, k)
        PROVE  TypeOK'
    <3>1. faults' \in [FaultKind -> Nat] /\ starts' \in [Host -> Nat]
      BY <2>8, <2>9 DEF Network, FaultKind
    <3>2. CASE Len(toServer[h]) >= Needs(k)
               /\ toServer' = [toServer EXCEPT ![h] = Disturbed(@, k)] /\ UNCHANGED toClient
      <4>1. Disturbed(toServer[h], k) \in Seq(Request)
        BY <3>2, DisturbedQueue
      <4> QED BY <2>9, <3>1, <3>2, <4>1 DEF Network, clientVars, serverVars
    <3>3. CASE Len(toClient[h]) >= Needs(k)
               /\ toClient' = [toClient EXCEPT ![h] = Disturbed(@, k)] /\ UNCHANGED toServer
      <4>1. Disturbed(toClient[h], k) \in Seq(Reply)
        BY <3>3, DisturbedQueue
      <4> QED BY <2>9, <3>1, <3>3, <4>1 DEF Network, clientVars, serverVars
    <3> QED BY <2>9, <3>2, <3>3 DEF Network
  <2>10. CASE ServerRestart
    <3>1. faults' \in [FaultKind -> Nat] /\ starts' \in [Host -> Nat]
      BY <2>8, <2>10 DEF ServerRestart, FaultKind
    <3> QED BY <2>10, <3>1 DEF ServerRestart, clientVars
  <2>11. ASSUME NEW h \in Host, SecondClient(h) PROVE TypeOK'
    <3>1. faults' \in [FaultKind -> Nat] /\ starts' \in [Host -> Nat]
      BY <2>8, <2>11 DEF SecondClient, FaultKind
    <3>2. PICK f \in Name, a \in ChunkArg : toServer' = Send(toServer, h, Initx(Capped(a), f))
      BY <2>11 DEF SecondClient
    <3>3. Initx(Capped(a), f) \in Request
      BY CappedType DEF Initx, Request
    <3>4. toServer' \in [Host -> Seq(Request)]
      BY <3>2, <3>3, SendType
    <3> QED BY <2>11, <3>1, <3>4 DEF SecondClient, clientVars, serverVars
  <2>12. ASSUME NEW h \in Host, Kill(h) PROVE TypeOK'
    <3>1. faults' \in [FaultKind -> Nat] /\ starts' \in [Host -> Nat]
      BY <2>8, <2>12 DEF Kill, FaultKind
    <3> QED BY <2>12, <3>1 DEF Kill, Ended, serverVars
  <2>13. CASE UNCHANGED vars
    BY <2>13 DEF vars, clientVars, serverVars, envVars
  <2> QED BY <2>1, <2>2, <2>3, <2>4, <2>5, <2>6, <2>7, <2>9, <2>10, <2>11, <2>12, <2>13
          DEF Next, ClientReceive, ServerReceive
<1> QED BY <1>1, <1>2, PTL DEF Spec

-----------------------------------------------------------------------------
(* The inductive invariant behind StopAndWait and CompleteMeansIntact.  A  *)
(* single token per host -- a request or a reply -- runs between client    *)
(* and server, and it always is about the chunk that the client's copy     *)
(* lacks next.  The static counter runs ahead of the copy, because chunk 0 *)
(* is asked for twice, and that is what Due and Have say.                  *)

\* The number of the chunk asked for, and how many chunks the copy has.
Due(h)  == IF chunkNo[h] = 0 THEN 0 ELSE chunkNo[h] - 1
Have(h) == IF chunkNo[h] = 1 THEN 1 ELSE Due(h)

\* Session s is the one h opened for its present file; it is open while no
\* short chunk was read in it.
Owns(h, s) ==
  /\ s \in DOMAIN valuesMap
  /\ valuesMap[s].ip = h /\ valuesMap[s].file = name[h] /\ valuesMap[s].size = chunksize[h]
Open(s) == ~valuesMap[s].cnf

DueLen(h)  == ChunkLen(name[h], chunksize[h], Due(h))
DueData(h) == Datax(Due(h), DueLen(h), Chunk(name[h], chunksize[h], Due(h)))

RequestInv(h) ==
  toServer[h] # <<>> =>
    \/ Head(toServer[h]) = Initx(chunksize[h], name[h]) /\ chunkNo[h] = 0
    \/ Head(toServer[h]) = Getxx(sessionKey[h], Due(h))
       /\ Owns(h, sessionKey[h]) /\ Open(sessionKey[h])

ReplyInv(h) ==
  toClient[h] # <<>> =>
    \/ Head(toClient[h]) = Error("FNF") /\ name[h] \notin DOMAIN Size /\ chunkNo[h] = 0
    \/ \E s \in DOMAIN valuesMap :
          Head(toClient[h]) = Sidxx(s) /\ Owns(h, s) /\ Open(s) /\ chunkNo[h] = 0
    \/ /\ Head(toClient[h]) = DueData(h)
       /\ Owns(h, sessionKey[h])
       /\ ~Short(DueLen(h), chunksize[h]) => Open(sessionKey[h])

CopyInv(h) ==
  chunkNo[h] # 0 =>
    /\ name[h] \in DOMAIN Size
    /\ Have(h) <= LastChunk(name[h], chunksize[h])
    /\ written[h] = [i \in 1..Have(h) |-> Parsed(Chunk(name[h], chunksize[h], i - 1))]

HostInv(h) ==
  /\ toServer[h] = <<>> \/ toClient[h] = <<>>
  /\ toServer[h] # <<>> => Tail(toServer[h]) = <<>>
  /\ toClient[h] # <<>> => Tail(toClient[h]) = <<>>
  /\ pc[h] \notin {"CNF", "killed"}
  /\ pc[h] = "running" => RequestInv(h) /\ ReplyInv(h) /\ CopyInv(h)
  /\ pc[h] # "running" => toServer[h] = <<>> /\ toClient[h] = <<>>
  /\ pc[h] = "transmitted" =>
       name[h] \in DOMAIN Size /\ written[h] = Arriving(name[h], chunksize[h])

CalmInv == Calm => \A h \in Host : HostInv(h)

\* fileFunction reads a short chunk exactly from the last chunk on.
LEMMA ShortIffLast ==
  ASSUME NEW f \in DOMAIN Size, NEW c \in ChunkSizes, NEW n \in Nat
  PROVE  /\ LastChunk(f, c) \in Nat
         /\ Short(ChunkLen(f, c, n), c) <=> n >= LastChunk(f, c)
<1> DEFINE S == Size[f]
<1> DEFINE q == S \div c
<1>1. S \in Nat /\ c \in Nat /\ c > 0
  BY SizeAssumption DEF ChunkSizes
<1>2. q \in Nat /\ q * c <= S /\ S < (q + 1) * c
  <2> HIDE DEF S
  <2> QED BY <1>1
<1>3. n * c \in Nat /\ q * c \in Nat
  <2> HIDE DEF q, S
  <2> QED BY <1>1, <1>2
<1>4. CASE n < q
  <2>1. (n + 1) * c <= q * c
    <3> HIDE DEF q, S
    <3> QED BY <1>1, <1>2, <1>4
  <2>2. (n + 1) * c = n * c + c
    BY <1>1
  <2>3. S - n * c >= c
    <3> HIDE DEF q, S
    <3> QED BY <1>1, <1>2, <1>3, <2>1, <2>2
  <2> QED BY <1>1, <1>2, <1>3, <1>4, <2>3 DEF ChunkLen, Short, LastChunk
<1>5. CASE n = q
  <2>1. (q + 1) * c = q * c + c
    <3> HIDE DEF q, S
    <3> QED BY <1>1, <1>2
  <2>2. S >= n * c /\ S - n * c < c
    <3> HIDE DEF q, S
    <3> QED BY <1>1, <1>2, <1>3, <1>5, <2>1
  <2> QED BY <1>1, <1>2, <1>3, <1>5, <2>2 DEF ChunkLen, Short, LastChunk
<1>6. CASE n > q
  <2>1. (q + 1) * c <= n * c
    <3> HIDE DEF q, S
    <3> QED BY <1>1, <1>2, <1>6
  <2>2. S < n * c
    <3> HIDE DEF q, S
    <3> QED BY <1>1, <1>2, <1>3, <2>1
  <2> QED BY <1>1, <1>2, <1>3, <1>6, <2>2 DEF ChunkLen, Short, LastChunk
<1> QED BY <1>1, <1>2, <1>4, <1>5, <1>6 DEF LastChunk

\* Steps of other hosts leave the invariant of g alone: g's client and queues
\* stay, and so do the sessions that answer to g.
Undisturbed(g) ==
  /\ pc'[g] = pc[g] /\ name'[g] = name[g] /\ chunksize'[g] = chunksize[g]
  /\ chunkNo'[g] = chunkNo[g] /\ sessionKey'[g] = sessionKey[g] /\ written'[g] = written[g]
  /\ toServer'[g] = toServer[g] /\ toClient'[g] = toClient[g]
  /\ \A s \in DOMAIN valuesMap : valuesMap[s].ip = g =>
       s \in DOMAIN valuesMap' /\ valuesMap'[s] = valuesMap[s]

LEMMA OtherHosts ==
  ASSUME NEW g \in Host, HostInv(g), Undisturbed(g)
  PROVE  HostInv(g)'
<1>1. \A s : Owns(g, s) => Owns(g, s)' /\ (Open(s) => Open(s)')
  BY DEF Undisturbed, Owns, Open
<1>2. Due(g)' = Due(g) /\ Have(g)' = Have(g) /\ DueData(g)' = DueData(g) /\ DueLen(g)' = DueLen(g)
  BY DEF Undisturbed, Due, Have, DueData, DueLen
<1>3. RequestInv(g) => RequestInv(g)'
  BY <1>1, <1>2 DEF Undisturbed, RequestInv
<1>4. ReplyInv(g) => ReplyInv(g)'
  <2>1. CASE toClient[g] = <<>>
    BY <2>1 DEF Undisturbed, ReplyInv
  <2>2. ASSUME NEW s \in DOMAIN valuesMap, Owns(g, s)
        PROVE  s \in DOMAIN valuesMap'
    BY <2>2 DEF Undisturbed, Owns
  <2> QED BY <1>1, <1>2, <2>1, <2>2 DEF Undisturbed, ReplyInv
<1>5. CopyInv(g) => CopyInv(g)'
  BY <1>2 DEF Undisturbed, CopyInv
<1> QED BY <1>3, <1>4, <1>5 DEF Undisturbed, HostInv

\* The fields of the datagrams.
LEMMA Fields ==
  /\ \A c, f : Initx(c, f).flag = "INITX" /\ Initx(c, f).size = c /\ Initx(c, f).name = f
  /\ \A s, n : Getxx(s, n).flag = "GETXX" /\ Getxx(s, n).sid = s /\ Getxx(s, n).n = n
  /\ \A s : Sidxx(s).flag = "SIDXX" /\ Sidxx(s).sid = s
  /\ \A e : Error(e).flag = "ERROR" /\ Error(e).error = e
  /\ \A n, len, d : /\ Datax(n, len, d).flag = "DATAX" /\ Datax(n, len, d).n = n
                    /\ Datax(n, len, d).size = len /\ Datax(n, len, d).data = d
BY DEF Initx, Getxx, Sidxx, Error, Datax

\* A queue without a tail holds one datagram at most.
LEMMA ShortQueue ==
  ASSUME NEW S, NEW q \in Seq(S), q # <<>> => Tail(q) = <<>>
  PROVE  Len(q) \in {0, 1} /\ (Len(q) = 0 <=> q = <<>>)
<1>1. Len(q) \in Nat /\ (Len(q) = 0 <=> q = <<>>)
  OBVIOUS
<1>2. ASSUME q # <<>> PROVE Len(q) = 1
  <2>1. Len(Tail(q)) = Len(q) - 1
    BY <1>2
  <2> DEFINE n == Len(q)
  <2>2. 0 = n - 1 /\ n \in Nat
    <3>1. Tail(q) = <<>> /\ Len(<<>>) = 0
      BY <1>2
    <3> QED BY <1>1, <2>1, <3>1
  <2>3. n = 1
    <3> HIDE DEF n
    <3> QED BY <2>2
  <2> QED BY <2>3
<1> QED BY <1>1, <1>2

\* In a calm run at most one datagram is there to be received.
LEMMA OneReply ==
  ASSUME NEW h \in Host, HostInv(h), toClient[h] # <<>>
  PROVE  /\ pc[h] = "running" /\ toServer[h] = <<>> /\ Tail(toClient[h]) = <<>>
         /\ RequestInv(h) /\ ReplyInv(h) /\ CopyInv(h)
BY DEF HostInv

LEMMA OneRequest ==
  ASSUME NEW h \in Host, HostInv(h), toServer[h] # <<>>
  PROVE  /\ pc[h] = "running" /\ toClient[h] = <<>> /\ Tail(toServer[h]) = <<>>
         /\ RequestInv(h) /\ ReplyInv(h) /\ CopyInv(h)
BY DEF HostInv

\* A fault that the protocol has no answer to ends the calm for good.
LEMMA FaultEndsCalm ==
  ASSUME TypeOK, NEW k \in FaultKind, Fault(k), Calm'
  PROVE  Calm /\ k \in {"lose", "reorder"}
<1>1. /\ faults[k] \in Nat /\ faults'[k] = faults[k] + 1
      /\ \A j \in FaultKind \ {k} : faults'[j] = faults[j]
  BY DEF TypeOK, Fault
<1>2. faults'[k] # 0
  BY <1>1
<1>3. k \notin {"duplicate", "restart", "second", "kill"}
  BY <1>2 DEF Calm
<1> QED BY <1>1, <1>3 DEF Calm, FaultKind

\* What handling a DATAX does in a calm run: the copy becomes the first Due + 1
\* chunks, and the chunk is short exactly if it is the last one.
ReceivedChunk(h) ==
  /\ pc[h] = "running" /\ toServer[h] = <<>>
  /\ Owns(h, sessionKey[h])
  /\ name[h] \in DOMAIN Size /\ chunksize[h] \in ChunkSizes
  /\ chunkNo[h] \in Nat /\ Due(h) \in Nat /\ LastChunk(name[h], chunksize[h]) \in Nat
  /\ Head(toClient[h]).size = DueLen(h)
  /\ toClient' = [toClient EXCEPT ![h] = <<>>]
  /\ written' = [written EXCEPT ![h] =
                   [i \in 1..(Due(h) + 1) |-> Parsed(Chunk(name[h], chunksize[h], i - 1))]]
  /\ IF Short(DueLen(h), chunksize[h])
     THEN Due(h) = LastChunk(name[h], chunksize[h])
     ELSE Due(h) < LastChunk(name[h], chunksize[h]) /\ Open(sessionKey[h])

LEMMA ChunkReceived ==
  ASSUME TypeOK, NEW h \in Host, HostInv(h), ClientData(h)
  PROVE  ReceivedChunk(h)
<1> DEFINE f == name[h]
<1> DEFINE c == chunksize[h]
<1> DEFINE m == Head(toClient[h])
<1> DEFINE d == Due(h)
<1>t. /\ chunkNo \in [Host -> Nat] /\ written \in [Host -> Seq(ChunkSet)]
      /\ chunksize \in [Host -> ChunkSizes] /\ toClient \in [Host -> Seq(Reply)]
  BY DEF TypeOK
<1>1. toClient[h] # <<>> /\ m.flag = "DATAX"
  BY DEF ClientData, ClientReceives, Arrived
<1>2. /\ pc[h] = "running" /\ toServer[h] = <<>> /\ Tail(toClient[h]) = <<>>
      /\ ReplyInv(h) /\ CopyInv(h)
  BY <1>1, OneReply
<1>3. /\ m = DueData(h) /\ Owns(h, sessionKey[h])
      /\ ~Short(DueLen(h), c) => Open(sessionKey[h])
  BY <1>1, <1>2, Fields DEF ReplyInv
<1>4. m.n = d /\ m.size = DueLen(h) /\ m.data = Chunk(f, c, d)
  BY <1>3, Fields DEF DueData
<1>5. f \in DOMAIN Size /\ c \in ChunkSizes /\ chunkNo[h] \in Nat /\ d \in Nat
  <2>1. sessionKey[h] \in DOMAIN valuesMap /\ valuesMap[sessionKey[h]].file = f
    BY <1>3 DEF Owns
  <2>2. valuesMap[sessionKey[h]] \in MessageValues
    BY <2>1 DEF TypeOK
  <2>3. f \in DOMAIN Size
    BY <2>1, <2>2 DEF MessageValues
  <2> QED BY <1>t, <2>3 DEF Due
<1> DEFINE last == LastChunk(f, c)
<1>6. last \in Nat /\ (Short(DueLen(h), c) <=> d >= last)
  BY <1>5, ShortIffLast DEF DueLen
<1>7. Short(DueLen(h), c) => d = last
  <2>1. chunkNo[h] # 0 => Have(h) <= last
    BY <1>2 DEF CopyInv
  <2> QED BY <1>5, <1>6, <2>1 DEF Have, Due
<1>8. toClient' = [toClient EXCEPT ![h] = <<>>]
  BY <1>2 DEF ClientData, Take
<1> DEFINE new == AppendTextToFile(written[h], m)
<1>9. written' = [written EXCEPT ![h] = new]
  BY DEF ClientData
<1>10. new = [i \in 1..(d + 1) |-> Parsed(Chunk(f, c, i - 1))]
  <2>1. CASE d = 0
    BY <1>4, <2>1 DEF AppendTextToFile
  <2>2. CASE d # 0
    <3>1. Have(h) = d /\ chunkNo[h] # 0
      BY <1>5, <2>2 DEF Due, Have
    <3>2. written[h] = [i \in 1..d |-> Parsed(Chunk(f, c, i - 1))]
      BY <1>2, <3>1 DEF CopyInv
    <3>3. new = Append(written[h], Parsed(Chunk(f, c, d)))
      BY <1>4, <2>2 DEF AppendTextToFile
    <3>4. Len(written[h]) = d
      <4>1. DOMAIN written[h] = 1..d /\ d \in Nat
        BY <1>5, <3>2
      <4>2. DOMAIN written[h] = 1..Len(written[h]) /\ Len(written[h]) \in Nat
        BY <1>t, LenProperties
      <4> DEFINE l == Len(written[h])
      <4>3. 1..d = 1..l /\ d \in Nat /\ l \in Nat
        BY <4>1, <4>2
      <4>4. d = l
        <5> HIDE DEF d, l
        <5> QED BY <4>3
      <4> QED BY <4>4
    <3>5. Parsed(Chunk(f, c, d)) \in ChunkSet
      BY <1>5, ParsedType DEF Chunk, ChunkSet
    <3>6. /\ new \in Seq(ChunkSet) /\ Len(new) = d + 1
          /\ \A i \in 1..d : new[i] = written[h][i]
          /\ new[d + 1] = Parsed(Chunk(f, c, d))
      <4> HIDE DEF new, d
      <4>1. written[h] \in Seq(ChunkSet)
        BY <1>t
      <4> QED BY <3>3, <3>4, <3>5, <4>1, AppendProperties
    <3>7. DOMAIN new = 1..(d + 1)
      BY <3>6, LenProperties
    <3>8. ASSUME NEW i \in 1..(d + 1) PROVE new[i] = Parsed(Chunk(f, c, i - 1))
      <4>1. CASE i \in 1..d
        BY <3>2, <3>6, <4>1
      <4>2. CASE i = d + 1
        BY <1>5, <3>6, <4>2
      <4> QED BY <1>5, <4>1, <4>2
    <3>9. new = [i \in DOMAIN new |-> new[i]]
      BY <3>6
    <3> HIDE DEF new
    <3> QED BY <3>7, <3>8, <3>9
  <2> QED BY <2>1, <2>2
<1> HIDE DEF new, d
<1>11. /\ ~Short(DueLen(h), c) => d < last /\ Open(sessionKey[h])
  BY <1>3, <1>5, <1>6
<1> QED BY <1>2, <1>3, <1>4, <1>5, <1>6, <1>7, <1>8, <1>9, <1>10, <1>11 DEF ReceivedChunk, d

\* Every step of the calm protocol keeps the token and what it carries.
LEMMA CalmStep ==
  ASSUME TypeOK, TypeOK', CalmInv, [Next]_vars
  PROVE  CalmInv'
<1> SUFFICES ASSUME Calm' PROVE \A h \in Host : HostInv(h)'
  BY DEF CalmInv
<1>2. ASSUME NEW h \in Host, NEW k \in {"lose", "duplicate", "reorder"}, Network(h, k)
      PROVE  Calm /\ k \in {"lose", "reorder"}
  <2>1. k \in FaultKind /\ Fault(k)
    BY <1>2 DEF FaultKind, Network
  <2> QED BY <2>1, FaultEndsCalm
<1>3. Calm /\ (\A h \in Host : ~SecondClient(h) /\ ~Kill(h)) /\ ~ServerRestart
  <2>1. ASSUME NEW h \in Host PROVE ~SecondClient(h) /\ ~Kill(h)
    <3>1. "second" \in FaultKind /\ "kill" \in FaultKind
      BY DEF FaultKind
    <3> QED BY <3>1, FaultEndsCalm DEF SecondClient, Kill
  <2>2. ~ServerRestart
    <3>1. "restart" \in FaultKind
      BY DEF FaultKind
    <3> QED BY <3>1, FaultEndsCalm DEF ServerRestart
  <2>3. CASE \E h \in Host : \E k \in {"lose", "duplicate", "reorder"} : Network(h, k)
    BY <1>2, <2>1, <2>2, <2>3
  <2>4. CASE faults' = faults
    BY <2>1, <2>2, <2>4 DEF Calm
  <2>5. (\E h \in Host : \E k \in {"lose", "duplicate", "reorder"} : Network(h, k))
        \/ faults' = faults
    BY <2>1, <2>2 DEF Next, Start, ClientReceive, ClientError, ClientSid, ClientData, PortClosed,
          ServerReceive, ServerInitx, ServerGetxx, vars, envVars
  <2> QED BY <2>3, <2>4, <2>5
<1>4. \A h \in Host : HostInv(h)
  BY <1>3 DEF CalmInv
<1>t. /\ pc \in [Host -> {"idle", "running"} \cup Ended] /\ chunkNo \in [Host -> Nat]
      /\ sessionKey \in [Host -> Nat] /\ written \in [Host -> Seq(ChunkSet)]
      /\ name \in [Host -> Name] /\ chunksize \in [Host -> ChunkSizes]
      /\ toServer \in [Host -> Seq(Request)] /\ toClient \in [Host -> Seq(Reply)]
  BY DEF TypeOK
<1>5. ASSUME NEW h \in Host, Start(h) PROVE \A g \in Host : HostInv(g)'
  <2>1. PICK f \in Name, a \in ChunkArg :
          /\ name' = [name EXCEPT ![h] = f]
          /\ chunksize' = [chunksize EXCEPT ![h] = Capped(a)]
          /\ toServer' = Send(toServer, h, Initx(Capped(a), f))
    BY <1>5 DEF Start
  <2>2. toServer[h] = <<>> /\ toClient[h] = <<>>
    BY <1>4, <1>5 DEF HostInv, Start
  <2>3. toServer'[h] = <<Initx(chunksize'[h], name'[h])>> /\ toClient'[h] = <<>>
    BY <1>5, <1>t, <2>1, <2>2 DEF Start, Send
  <2>4. pc'[h] = "running" /\ chunkNo'[h] = 0
    BY <1>5, <1>t DEF Start
  <2>5. HostInv(h)'
    BY <2>3, <2>4 DEF HostInv, RequestInv, ReplyInv, CopyInv
  <2>6. ASSUME NEW g \in Host \ {h} PROVE Undisturbed(g)
    BY <1>5, <2>1 DEF Start, Send, Undisturbed, serverVars
  <2> QED BY <1>4, <2>5, <2>6, OtherHosts
<1>6. ASSUME NEW h \in Host, ClientError(h) PROVE \A g \in Host : HostInv(g)'
  <2>0. toClient[h] # <<>> /\ Head(toClient[h]).flag = "ERROR"
    BY <1>6 DEF ClientError, ClientReceives, Arrived
  <2>1. toServer[h] = <<>> /\ Tail(toClient[h]) = <<>> /\ ReplyInv(h)
    BY <1>4, <2>0, OneReply
  <2>2. Head(toClient[h]) = Error("FNF") /\ chunkNo[h] = 0
    BY <2>0, <2>1, Fields DEF ReplyInv, DueData
  <2>3. pc' = [pc EXCEPT ![h] = "FNF"] /\ toServer' = toServer
    BY <1>6, <2>2, Fields DEF ClientError
  <2>4. toClient' = [toClient EXCEPT ![h] = <<>>]
    BY <1>6, <2>1 DEF ClientError, Take
  <2>5. HostInv(h)'
    BY <1>t, <2>1, <2>3, <2>4 DEF HostInv
  <2>6. ASSUME NEW g \in Host \ {h} PROVE Undisturbed(g)
    BY <1>6, <2>3, <2>4 DEF ClientError, Undisturbed, serverVars
  <2> QED BY <1>4, <2>5, <2>6, OtherHosts
<1>7. ASSUME NEW h \in Host, ClientSid(h) PROVE \A g \in Host : HostInv(g)'
  <2>0. toClient[h] # <<>> /\ Head(toClient[h]).flag = "SIDXX"
    BY <1>7 DEF ClientSid, ClientReceives, Arrived
  <2>1. pc[h] = "running" /\ toServer[h] = <<>> /\ Tail(toClient[h]) = <<>> /\ ReplyInv(h)
    BY <1>4, <2>0, OneReply
  <2>2. PICK s \in DOMAIN valuesMap :
          Head(toClient[h]) = Sidxx(s) /\ Owns(h, s) /\ Open(s) /\ chunkNo[h] = 0
    BY <2>0, <2>1, Fields DEF ReplyInv, DueData
  <2>3. toServer' = Send(toServer, h, Getxx(s, 0)) /\ sessionKey' = [sessionKey EXCEPT ![h] = s]
    <3>1. Head(toClient[h]).sid = s
      BY <2>2, Fields
    <3> QED BY <1>7, <3>1 DEF ClientSid
  <2>4. toClient' = [toClient EXCEPT ![h] = <<>>]
    BY <1>7, <2>1 DEF ClientSid, Take
  <2>5. toServer'[h] = <<Getxx(s, 0)>> /\ sessionKey'[h] = s /\ toClient'[h] = <<>>
    BY <1>t, <2>4, <2>1, <2>3 DEF Send
  <2>6. pc'[h] = "running" /\ chunkNo'[h] = 0 /\ Due(h)' = 0
    BY <1>7, <2>1, <2>2 DEF ClientSid, Due
  <2>7. Owns(h, s)' /\ Open(s)'
    BY <1>7, <2>2 DEF ClientSid, Owns, Open, serverVars
  <2>8. HostInv(h)'
    BY <2>5, <2>6, <2>7 DEF HostInv, RequestInv, ReplyInv, CopyInv
  <2>9. ASSUME NEW g \in Host \ {h} PROVE Undisturbed(g)
    BY <1>7, <2>3, <2>4 DEF ClientSid, Send, Undisturbed, serverVars
  <2> QED BY <1>4, <2>8, <2>9, OtherHosts
<1>8. ASSUME NEW h \in Host, ClientData(h) PROVE \A g \in Host : HostInv(g)'
  <2> DEFINE f == name[h]
  <2> DEFINE c == chunksize[h]
  <2> DEFINE k == chunkNo[h]
  <2>1. ReceivedChunk(h)
    BY <1>4, <1>8, ChunkReceived
  <2>2. /\ pc[h] = "running" /\ toServer[h] = <<>> /\ k \in Nat /\ Due(h) \in Nat
        /\ f \in DOMAIN Size /\ LastChunk(f, c) \in Nat
        /\ Owns(h, sessionKey[h])
    BY <2>1 DEF ReceivedChunk
  <2>3. toClient'[h] = <<>>
        /\ written'[h] = [i \in 1..(Due(h) + 1) |-> Parsed(Chunk(f, c, i - 1))]
    BY <1>t, <2>1 DEF ReceivedChunk
  <2>4. /\ name' = name /\ chunksize' = chunksize /\ sessionKey' = sessionKey
        /\ valuesMap' = valuesMap
        /\ \A g \in Host \ {h} : written'[g] = written[g] /\ toClient'[g] = toClient[g]
    BY <1>8, <1>t, <2>1 DEF ReceivedChunk, ClientData, serverVars
  <2>5. CASE Short(DueLen(h), c)
    <3>1. pc' = [pc EXCEPT ![h] = "transmitted"] /\ chunkNo' = chunkNo /\ toServer' = toServer
      BY <1>8, <2>1, <2>5 DEF ReceivedChunk, ClientData
    <3>2. written'[h] = Arriving(f, c)
      BY <2>1, <2>3, <2>5 DEF ReceivedChunk, Arriving
    <3>3. HostInv(h)'
      BY <1>t, <2>2, <2>3, <2>4, <3>1, <3>2 DEF HostInv
    <3>4. ASSUME NEW g \in Host \ {h} PROVE Undisturbed(g)
      BY <1>t, <2>4, <3>1 DEF Undisturbed
    <3> QED BY <1>4, <3>3, <3>4, OtherHosts
  <2>6. CASE ~Short(DueLen(h), c)
    <3>1. /\ toServer' = Send(toServer, h, Getxx(sessionKey[h], k))
          /\ chunkNo' = [chunkNo EXCEPT ![h] = k + 1]
          /\ pc' = pc
      BY <1>8, <2>1, <2>6 DEF ReceivedChunk, ClientData
    <3>2. toServer'[h] = <<Getxx(sessionKey[h], k)>> /\ chunkNo'[h] = k + 1
      BY <1>t, <2>2, <3>1 DEF Send
    <3>3. Due(h)' = k /\ Have(h)' = Due(h) + 1 /\ Due(h) + 1 <= LastChunk(f, c)
      BY <2>1, <2>2, <2>6, <3>2 DEF ReceivedChunk, Due, Have
    <3>4. RequestInv(h)'
      BY <2>1, <2>2, <2>4, <2>6, <3>2, <3>3 DEF ReceivedChunk, RequestInv, Owns, Open
    <3>5. CopyInv(h)'
      BY <2>2, <2>3, <2>4, <3>3 DEF CopyInv
    <3>6. HostInv(h)'
      BY <2>2, <2>3, <3>1, <3>2, <3>4, <3>5 DEF HostInv, ReplyInv
    <3>7. ASSUME NEW g \in Host \ {h} PROVE Undisturbed(g)
      BY <1>t, <2>4, <3>1 DEF Send, Undisturbed
    <3> QED BY <1>4, <3>6, <3>7, OtherHosts
  <2> QED BY <2>5, <2>6
<1>9. ASSUME NEW h \in Host, PortClosed(h) PROVE \A g \in Host : HostInv(g)'
  BY <1>4, <1>9 DEF PortClosed, HostInv
<1>10. ASSUME NEW h \in Host, ServerInitx(h) PROVE \A g \in Host : HostInv(g)'
  <2> DEFINE m == Head(toServer[h])
  <2>0. toServer[h] # <<>> /\ m.flag = "INITX"
    BY <1>10 DEF ServerInitx, NextSid, Arrived
  <2>1. pc[h] = "running" /\ toClient[h] = <<>> /\ Tail(toServer[h]) = <<>>
        /\ RequestInv(h)
    BY <1>4, <2>0, OneRequest
  <2>2. m.name = name[h] /\ m.size = chunksize[h] /\ chunkNo[h] = 0
    BY <2>0, <2>1, Fields DEF RequestInv
  <2>3. toServer' = [toServer EXCEPT ![h] = <<>>]
    BY <1>10, <2>1 DEF ServerInitx, NextSid, Take
  <2>4. UNCHANGED <<pc, name, chunksize, chunkNo, sessionKey, written>>
    BY <1>10 DEF ServerInitx, NextSid, clientVars
  <2>5. \A s \in DOMAIN valuesMap : s \in DOMAIN valuesMap' /\ valuesMap'[s] = valuesMap[s]
    <3>1. sid' \notin DOMAIN valuesMap
      BY <1>10 DEF ServerInitx, NextSid, TypeOK
    <3> QED BY <1>10, <3>1 DEF ServerInitx, NextSid
  <2>6. toServer'[h] = <<>> /\ pc'[h] = "running" /\ chunkNo'[h] = 0
    BY <1>t, <2>1, <2>2, <2>3, <2>4
  <2>7. CASE name[h] \in DOMAIN Size
    <3>1. /\ toClient' = Send(toClient, h, Sidxx(sid'))
          /\ sid' \in DOMAIN valuesMap'
          /\ valuesMap'[sid'] = [ip |-> h, file |-> name[h], size |-> chunksize[h], cnf |-> FALSE]
      BY <1>10, <2>2, <2>7 DEF ServerInitx, NextSid
    <3>2. toClient'[h] = <<Sidxx(sid')>>
      BY <1>t, <2>1, <3>1 DEF Send
    <3>0. PICK n : n = sid'
      OBVIOUS
    <3>3. n \in DOMAIN valuesMap' /\ Owns(h, n)' /\ Open(n)' /\ Head(toClient'[h]) = Sidxx(n)
      BY <2>4, <3>0, <3>1, <3>2 DEF Owns, Open
    <3>4. ReplyInv(h)'
      BY <2>6, <3>3 DEF ReplyInv
    <3>5. HostInv(h)'
      BY <2>6, <3>2, <3>4 DEF HostInv, RequestInv, CopyInv
    <3>6. ASSUME NEW g \in Host \ {h} PROVE Undisturbed(g)
      BY <1>t, <2>3, <2>4, <2>5, <3>1 DEF Send, Undisturbed
    <3> QED BY <1>4, <3>5, <3>6, OtherHosts
  <2>8. CASE name[h] \notin DOMAIN Size
    <3>1. toClient' = Send(toClient, h, Error("FNF"))
      BY <1>10, <2>2, <2>8 DEF ServerInitx, NextSid
    <3>2. toClient'[h] = <<Error("FNF")>>
      BY <1>t, <2>1, <3>1 DEF Send
    <3>3. ReplyInv(h)'
      BY <2>4, <2>6, <2>8, <3>2 DEF ReplyInv
    <3>4. HostInv(h)'
      BY <2>6, <3>2, <3>3 DEF HostInv, RequestInv, CopyInv
    <3>5. ASSUME NEW g \in Host \ {h} PROVE Undisturbed(g)
      BY <1>t, <2>3, <2>4, <2>5, <3>1 DEF Send, Undisturbed
    <3> QED BY <1>4, <3>4, <3>5, OtherHosts
  <2> QED BY <2>7, <2>8
<1>11. ASSUME NEW h \in Host, ServerGetxx(h) PROVE \A g \in Host : HostInv(g)'
  <2> DEFINE m == Head(toServer[h])
  <2> DEFINE s == sessionKey[h]
  <2>0. toServer[h] # <<>> /\ m.flag = "GETXX"
    BY <1>11 DEF ServerGetxx, Arrived
  <2>1. /\ pc[h] = "running" /\ toClient[h] = <<>> /\ Tail(toServer[h]) = <<>>
        /\ RequestInv(h) /\ CopyInv(h)
    BY <1>4, <2>0, OneRequest
  <2>2. m = Getxx(s, Due(h)) /\ Owns(h, s) /\ Open(s)
    BY <2>0, <2>1, Fields DEF RequestInv
  <2>3. m.sid = s /\ m.n = Due(h)
    BY <2>2, Fields
  <2>4. /\ s \in DOMAIN valuesMap /\ ~valuesMap[s].cnf /\ valuesMap[s].ip = h
        /\ valuesMap[s].file = name[h] /\ valuesMap[s].size = chunksize[h]
    BY <2>2 DEF Owns, Open
  <2>5. toClient' = Send(toClient, h, DueData(h))
    BY <1>11, <2>3, <2>4 DEF ServerGetxx, DueData, DueLen
  <2>6. valuesMap' = [valuesMap EXCEPT ![s].cnf = @ \/ Short(DueLen(h), chunksize[h])]
    BY <1>11, <2>3, <2>4 DEF ServerGetxx, DueLen
  <2>7. toServer' = [toServer EXCEPT ![h] = <<>>]
    BY <1>11, <2>1 DEF ServerGetxx, Take
  <2>8. UNCHANGED <<pc, name, chunksize, chunkNo, sessionKey, written>>
    BY <1>11 DEF ServerGetxx, clientVars
  <2>9. toServer'[h] = <<>> /\ toClient'[h] = <<DueData(h)>>
    BY <1>t, <2>1, <2>5, <2>7 DEF Send
  <2>10. valuesMap[s] \in MessageValues
    BY <2>4 DEF TypeOK
  <2>11. Owns(h, s)' /\ (~Short(DueLen(h), chunksize[h]) => Open(s)')
    BY <2>4, <2>6, <2>8, <2>10 DEF Owns, Open, MessageValues
  <2>12. DueData(h)' = DueData(h) /\ DueLen(h)' = DueLen(h)
    BY <2>8 DEF DueData, DueLen, Due
  <2>13. ReplyInv(h)'
    BY <2>8, <2>9, <2>11, <2>12 DEF ReplyInv
  <2>14. CopyInv(h)'
    BY <2>1, <2>8 DEF CopyInv, Have, Due
  <2>15. HostInv(h)'
    BY <2>1, <2>8, <2>9, <2>13, <2>14 DEF HostInv, RequestInv
  <2>16. ASSUME NEW g \in Host \ {h} PROVE Undisturbed(g)
    <3>1. ASSUME NEW z \in DOMAIN valuesMap, valuesMap[z].ip = g
          PROVE  z \in DOMAIN valuesMap' /\ valuesMap'[z] = valuesMap[z]
      BY <2>4, <2>6, <3>1
    <3> QED BY <1>t, <2>5, <2>7, <2>8, <3>1 DEF Send, Undisturbed
  <2> QED BY <1>4, <2>15, <2>16, OtherHosts
<1>12. ASSUME NEW h \in Host, NEW k \in {"lose", "reorder"}, Network(h, k)
       PROVE  \A g \in Host : HostInv(g)'
  <2>1. k = "lose"
    <3> DEFINE a == Len(toServer[h])
    <3> DEFINE b == Len(toClient[h])
    <3>1. a \in {0, 1} /\ b \in {0, 1}
      BY <1>4, <1>t, ShortQueue DEF HostInv
    <3>2. ~(a >= 2) /\ ~(b >= 2)
      <4> HIDE DEF a, b
      <4> QED BY <3>1
    <3> QED BY <1>12, <3>2 DEF Network, Needs
  <2>2. UNCHANGED <<pc, name, chunksize, chunkNo, sessionKey, written, sid, valuesMap>>
    BY <1>12 DEF Network, clientVars, serverVars
  <2>3. \/ toServer' = [toServer EXCEPT ![h] = <<>>] /\ toClient' = toClient
        \/ toClient' = [toClient EXCEPT ![h] = <<>>] /\ toServer' = toServer
    <3>1. /\ toServer[h] # <<>> => Tail(toServer[h]) = <<>>
          /\ toClient[h] # <<>> => Tail(toClient[h]) = <<>>
      BY <1>4, OneRequest, OneReply
    <3>2. /\ Len(toServer[h]) >= 1 => toServer[h] # <<>>
          /\ Len(toClient[h]) >= 1 => toClient[h] # <<>>
      BY <1>4, <1>t, ShortQueue DEF HostInv
    <3> QED BY <1>12, <2>1, <3>1, <3>2 DEF Network, Needs, Disturbed
  <2>4. HostInv(h)'
    <3>1. toServer'[h] \in {<<>>, toServer[h]} /\ toClient'[h] \in {<<>>, toClient[h]}
      BY <1>t, <2>3
    <3>2. \A s : Owns(h, s)' = Owns(h, s) /\ Open(s)' = Open(s)
      BY <2>2 DEF Owns, Open
    <3>3. Due(h)' = Due(h) /\ DueLen(h)' = DueLen(h) /\ DueData(h)' = DueData(h) /\ Have(h)' = Have(h)
      BY <2>2 DEF Due, Have, DueLen, DueData
    <3>4. RequestInv(h) => RequestInv(h)'
      BY <2>2, <3>1, <3>2, <3>3 DEF RequestInv
    <3>5. ReplyInv(h) => ReplyInv(h)'
      BY <2>2, <3>1, <3>2, <3>3 DEF ReplyInv
    <3>6. CopyInv(h) => CopyInv(h)'
      BY <2>2, <3>3 DEF CopyInv
    <3> QED BY <1>4, <2>2, <3>1, <3>4, <3>5, <3>6 DEF HostInv
  <2>5. ASSUME NEW g \in Host \ {h} PROVE Undisturbed(g)
    BY <1>t, <2>2, <2>3 DEF Undisturbed
  <2> QED BY <1>4, <2>4, <2>5, OtherHosts
<1>13. CASE UNCHANGED vars
  <2>1. ASSUME NEW g \in Host PROVE Undisturbed(g)
    BY <1>13 DEF vars, clientVars, serverVars, Undisturbed
  <2> QED BY <1>4, <2>1, OtherHosts
<1> QED
  <2>1. \A h \in Host, k \in {"lose", "duplicate", "reorder"} :
           Network(h, k) => k \in {"lose", "reorder"}
    BY <1>2
  <2> QED BY <1>3, <1>5, <1>6, <1>7, <1>8, <1>9, <1>10, <1>11, <1>12, <1>13, <2>1
          DEF Next, ClientReceive, ServerReceive

\* What parsing leaves alone when no separator is in the text.
LEMMA ParsedPlain ==
  ASSUME NEW f \in Name \ Delimited, NEW c, NEW n
  PROVE  Parsed(Chunk(f, c, n)) = Chunk(f, c, n)
BY DEF Parsed, Chunk

LEMMA CalmAlways == Spec => []CalmInv
<1>1. Init => CalmInv
  BY DEF Init, CalmInv, HostInv
<1>2. TypeOK /\ TypeOK' /\ CalmInv /\ [Next]_vars => CalmInv'
  BY CalmStep
<1> QED BY <1>1, <1>2, TypeCorrect, PTL DEF Spec

\* In a calm run there is never more than one datagram between the server and
\* a host: the receive loops of UDPClient and UDPServer wait for each other.
THEOREM StopAndWaitAlways == Spec => []StopAndWait
<1>1. TypeOK /\ CalmInv => StopAndWait
  <2> SUFFICES ASSUME TypeOK, \A g \in Host : HostInv(g), NEW h \in Host
               PROVE  Len(toServer[h]) + Len(toClient[h]) <= 1
    BY DEF CalmInv, StopAndWait
  <2> DEFINE a == Len(toServer[h])
  <2> DEFINE b == Len(toClient[h])
  <2>1. toServer[h] \in Seq(Request) /\ toClient[h] \in Seq(Reply)
    BY DEF TypeOK
  <2>2. a \in {0, 1} /\ b \in {0, 1} /\ (a = 0 \/ b = 0)
    BY <2>1, ShortQueue DEF HostInv
  <2>3. a + b <= 1
    <3> HIDE DEF a, b
    <3> QED BY <2>2
  <2> QED BY <2>3
<1> QED BY <1>1, TypeCorrect, CalmAlways, PTL

\* A client that reports completion (UDPClient.java:76 and :95) has the file it
\* asked for, for every file size and chunk size, whatever was lost.
THEOREM CompleteMeansIntactAlways == Spec => []CompleteMeansIntact
<1>1. TypeOK /\ CalmInv => CompleteMeansIntact
  <2> SUFFICES ASSUME TypeOK, \A g \in Host : HostInv(g), NEW h \in Host, pc[h] \in Completed
               PROVE  IF name[h] \in Delimited
                      THEN written[h] = Arriving(name[h], chunksize[h])
                      ELSE written[h] = Original(name[h], chunksize[h])
    BY DEF CalmInv, CompleteMeansIntact
  <2>1. written[h] = Arriving(name[h], chunksize[h])
    BY DEF HostInv, Completed
  <2>2. name[h] \notin Delimited =>
          Arriving(name[h], chunksize[h]) = Original(name[h], chunksize[h])
    BY ParsedPlain DEF TypeOK, Arriving, Original
  <2> QED BY <2>1, <2>2
<1> QED BY <1>1, TypeCorrect, CalmAlways, PTL

-----------------------------------------------------------------------------
(* Session isolation, under every fault but a restart of the server.       *)

\* In the sessions V, session s answers to h; and every session announced in
\* queue q answers to h.
AnswersTo(V, h, s) == s \in DOMAIN V /\ V[s].ip = h
Announced(V, h, q) == \A i \in 1..Len(q) : q[i].flag = "SIDXX" => AnswersTo(V, h, q[i].sid)

IsolationInv ==
  faults["restart"] = 0 => \A h \in Host :
    /\ sessionKey[h] # 0 => AnswersTo(valuesMap, h, sessionKey[h])
    /\ Announced(valuesMap, h, toClient[h])

LEMMA AnnouncedTail ==
  ASSUME NEW V, NEW h, NEW q \in Seq(Reply), q # <<>>, Announced(V, h, q)
  PROVE  /\ Announced(V, h, Tail(q))
         /\ Head(q).flag = "SIDXX" => AnswersTo(V, h, Head(q).sid)
<1>1. /\ Tail(q) \in Seq(Reply) /\ Len(Tail(q)) = Len(q) - 1
      /\ \A i \in 1..Len(Tail(q)) : Tail(q)[i] = q[i + 1]
      /\ Head(q) = q[1] /\ Len(q) \in Nat /\ Len(q) # 0
  BY HeadTailProperties, EmptySeq
<1> DEFINE l == Len(q)
<1>2. 1 \in 1..l /\ \A i \in 1..(l - 1) : i + 1 \in 1..l
  <2>1. l \in Nat /\ l # 0
    BY <1>1
  <2> HIDE DEF l
  <2> QED BY <2>1
<1> QED BY <1>1, <1>2 DEF Announced

LEMMA AnnouncedSend ==
  ASSUME NEW V, NEW h, NEW q \in Seq(Reply), NEW m \in Reply, Announced(V, h, q),
         m.flag = "SIDXX" => AnswersTo(V, h, m.sid)
  PROVE  Announced(V, h, Append(q, m))
<1>1. /\ Len(Append(q, m)) = Len(q) + 1 /\ Len(q) \in Nat
      /\ \A i \in 1..Len(q) : Append(q, m)[i] = q[i]
      /\ Append(q, m)[Len(q) + 1] = m
  BY AppendProperties, LenProperties
<1> DEFINE l == Len(q)
<1>2. \A i \in 1..(l + 1) : i \in 1..l \/ i = l + 1
  <2>1. l \in Nat
    BY <1>1
  <2> HIDE DEF l
  <2> QED BY <2>1
<1> QED BY <1>1, <1>2 DEF Announced

\* While the server keeps its memory, a session never changes hands.
LEMMA IsolationStep ==
  ASSUME TypeOK, TypeOK', IsolationInv, [Next]_vars
  PROVE  IsolationInv'
<1> SUFFICES ASSUME faults'["restart"] = 0 PROVE IsolationInv'
  BY DEF IsolationInv
<1>1. \A k \in FaultKind : Fault(k) => faults["restart"] = 0 /\ k # "restart"
  <2> SUFFICES ASSUME NEW k \in FaultKind, Fault(k) PROVE faults["restart"] = 0 /\ k # "restart"
    OBVIOUS
  <2>1. "restart" \in FaultKind
    BY DEF FaultKind
  <2>2. faults["restart"] \in Nat /\ faults[k] \in Nat
        /\ faults'[k] = faults[k] + 1 /\ (k # "restart" => faults'["restart"] = faults["restart"])
    BY <2>1 DEF TypeOK, Fault
  <2> QED BY <2>2
<1>2. ~ServerRestart
  BY <1>1 DEF ServerRestart, FaultKind
<1>t. /\ sessionKey \in [Host -> Nat] /\ toClient \in [Host -> Seq(Reply)]
      /\ toServer \in [Host -> Seq(Request)]
  BY DEF TypeOK

<1>3. ASSUME faults["restart"] = 0, valuesMap' = valuesMap, sessionKey' = sessionKey,
             NEW h \in Host, \A g \in Host \ {h} : toClient'[g] = toClient[g],
             Announced(valuesMap, h, toClient'[h])
      PROVE  IsolationInv'
  BY <1>3 DEF IsolationInv
<1>4. ASSUME NEW h \in Host, faults' = faults, toClient[h] # <<>>, valuesMap' = valuesMap,
             sessionKey' = sessionKey, toClient' = Take(toClient, h)
      PROVE  IsolationInv'
  <2>1. Announced(valuesMap, h, Tail(toClient[h]))
    BY <1>4, <1>t, AnnouncedTail DEF IsolationInv
  <2>2. toClient'[h] = Tail(toClient[h]) /\ \A g \in Host \ {h} : toClient'[g] = toClient[g]
    BY <1>4, <1>t DEF Take
  <2> QED BY <1>3, <1>4, <2>1, <2>2
<1>5. ASSUME NEW h \in Host, ClientSid(h) PROVE IsolationInv'
  <2> DEFINE q == toClient[h]
  <2>1. q # <<>> /\ Head(q).flag = "SIDXX" /\ faults["restart"] = 0
    BY <1>5 DEF ClientSid, ClientReceives, Arrived, envVars
  <2>2. Announced(valuesMap, h, Tail(q)) /\ AnswersTo(valuesMap, h, Head(q).sid)
    BY <1>t, <2>1, AnnouncedTail DEF IsolationInv
  <2>3. sessionKey'[h] = Head(q).sid /\ toClient'[h] = Tail(q) /\ valuesMap' = valuesMap
        /\ \A g \in Host \ {h} : sessionKey'[g] = sessionKey[g] /\ toClient'[g] = toClient[g]
    BY <1>5, <1>t DEF ClientSid, Take, serverVars
  <2> QED BY <2>1, <2>2, <2>3 DEF IsolationInv
<1>6. ASSUME NEW ip \in Host, NEW m \in Reply, faults' = faults, sessionKey' = sessionKey,
             toClient' = Send(toClient, ip, m),
             \A h, s : AnswersTo(valuesMap, h, s) => AnswersTo(valuesMap', h, s),
             m.flag = "SIDXX" => AnswersTo(valuesMap', ip, m.sid)
      PROVE  IsolationInv'
  <2>1. \A h \in Host : /\ sessionKey[h] # 0 => AnswersTo(valuesMap, h, sessionKey[h])
                        /\ Announced(valuesMap, h, toClient[h])
    BY <1>6 DEF IsolationInv
  <2>2. \A h \in Host : Announced(valuesMap', h, toClient[h])
    BY <1>6, <2>1 DEF Announced
  <2>3. Announced(valuesMap', ip, Append(toClient[ip], m))
    BY <1>6, <1>t, <2>2, AnnouncedSend
  <2>4. toClient'[ip] = Append(toClient[ip], m)
        /\ \A g \in Host \ {ip} : toClient'[g] = toClient[g]
    BY <1>6, <1>t DEF Send
  <2> QED BY <1>6, <2>1, <2>2, <2>3, <2>4 DEF IsolationInv
<1>7. ASSUME NEW h \in Host, ServerInitx(h) PROVE IsolationInv'
  <2> DEFINE m == Head(toServer[h])
  <2>1. sid' \in Nat \ {0} /\ sid' \notin DOMAIN valuesMap
        /\ faults' = faults /\ sessionKey' = sessionKey
    BY <1>7 DEF ServerInitx, NextSid, TypeOK, clientVars, envVars
  <2>2. CASE m.name \in DOMAIN Size
    <3>1. toClient' = Send(toClient, h, Sidxx(sid'))
          /\ sid' \in DOMAIN valuesMap' /\ valuesMap'[sid'].ip = h
          /\ \A s \in DOMAIN valuesMap : s \in DOMAIN valuesMap' /\ valuesMap'[s] = valuesMap[s]
      BY <1>7, <2>1, <2>2 DEF ServerInitx, NextSid
    <3>2. Sidxx(sid') \in Reply /\ Sidxx(sid').sid = sid'
      BY <2>1, Fields DEF Reply, Sidxx
    <3>3. AnswersTo(valuesMap', h, Sidxx(sid').sid)
      BY <3>1, <3>2 DEF AnswersTo
    <3>4. \A g, s : AnswersTo(valuesMap, g, s) => AnswersTo(valuesMap', g, s)
      BY <3>1 DEF AnswersTo
    <3> QED BY <1>6, <2>1, <3>1, <3>2, <3>3, <3>4
  <2>3. CASE m.name \notin DOMAIN Size
    <3>1. toClient' = Send(toClient, h, Error("FNF")) /\ valuesMap' = valuesMap
      BY <1>7, <2>3 DEF ServerInitx, NextSid
    <3>2. Error("FNF") \in Reply /\ Error("FNF").flag # "SIDXX"
      BY DEF Reply, Error
    <3> QED BY <1>6, <2>1, <3>1, <3>2
  <2> QED BY <2>2, <2>3
<1>8. ASSUME NEW h \in Host, ServerGetxx(h) PROVE IsolationInv'
  <2> DEFINE m == Head(toServer[h])
  <2>1. faults' = faults /\ sessionKey' = sessionKey
    BY <1>8 DEF ServerGetxx, clientVars, envVars
  <2>2. CASE m.sid \notin DOMAIN valuesMap
    <3>1. toClient' = Send(toClient, h, Error("NOS")) /\ valuesMap' = valuesMap
      BY <1>8, <2>2 DEF ServerGetxx
    <3>2. Error("NOS") \in Reply /\ Error("NOS").flag # "SIDXX"
      BY DEF Reply, Error
    <3> QED BY <1>6, <2>1, <3>1, <3>2
  <2>3. CASE m.sid \in DOMAIN valuesMap
    <3> DEFINE mv == valuesMap[m.sid]
    <3> DEFINE len == ChunkLen(mv.file, mv.size, m.n)
    <3> DEFINE data == Datax(m.n, len, Chunk(mv.file, mv.size, m.n))
    <3>1. mv \in MessageValues /\ mv.ip \in Host /\ mv.file \in DOMAIN Size /\ mv.size \in ChunkSizes
      BY <2>3 DEF TypeOK, MessageValues
    <3>2. m \in Request /\ m.flag = "GETXX"
      BY <1>8, <1>t DEF ServerGetxx, Arrived
    <3>3. m.n \in Nat
      BY <3>2 DEF Request
    <3>4. len \in Nat
      BY <3>1, <3>3, ChunkLenType
    <3>5. data \in Reply /\ data.flag # "SIDXX"
      BY <3>1, <3>3, <3>4 DEF Reply, Datax, Chunk, ChunkSet
    <3>6. Error("CNF") \in Reply /\ Error("CNF").flag # "SIDXX"
      BY DEF Reply, Error
    <3>7. toClient' = Send(toClient, mv.ip, IF mv.cnf THEN Error("CNF") ELSE data)
          /\ valuesMap' = [valuesMap EXCEPT ![m.sid].cnf = @ \/ Short(len, mv.size)]
      BY <1>8, <2>3 DEF ServerGetxx
    <3>8. \A g, s : AnswersTo(valuesMap, g, s) => AnswersTo(valuesMap', g, s)
      BY <3>1, <3>7 DEF AnswersTo, MessageValues
    <3>9. CASE mv.cnf
      BY <1>6, <2>1, <3>1, <3>6, <3>7, <3>8, <3>9
    <3>10. CASE ~mv.cnf
      <4>1. toClient' = Send(toClient, mv.ip, data)
        BY <3>7, <3>10
      <4> HIDE DEF data
      <4> QED BY <1>6, <2>1, <3>1, <3>5, <3>8, <4>1
    <3> QED BY <3>9, <3>10
  <2> QED BY <2>2, <2>3
<1>9. ASSUME NEW h \in Host, NEW k \in {"lose", "duplicate", "reorder"}, Network(h, k)
      PROVE  IsolationInv'
  <2> DEFINE q == toClient[h]
  <2>1. faults["restart"] = 0 /\ valuesMap' = valuesMap /\ sessionKey' = sessionKey
    BY <1>1, <1>9 DEF Network, FaultKind, clientVars, serverVars
  <2>2. CASE toClient' = toClient
    BY <2>1, <2>2 DEF IsolationInv
  <2>3. CASE Len(q) >= Needs(k) /\ toClient' = [toClient EXCEPT ![h] = Disturbed(@, k)]
    <3>1. \A i \in 1..Len(Disturbed(q, k)) : \E j \in 1..Len(q) : Disturbed(q, k)[i] = q[j]
      <4>1. q \in Seq(Reply) /\ Len(q) >= Needs(k)
        BY <1>t, <2>3
      <4> HIDE DEF q
      <4> QED BY <4>1, DisturbedReplies
    <3>2. Announced(valuesMap, h, q)
      BY <2>1 DEF IsolationInv
    <3>3. Announced(valuesMap, h, Disturbed(q, k))
      BY <3>1, <3>2 DEF Announced
    <3>4. toClient'[h] = Disturbed(q, k) /\ \A g \in Host \ {h} : toClient'[g] = toClient[g]
      BY <1>t, <2>3
    <3> QED BY <1>3, <2>1, <3>3, <3>4
  <2> QED BY <1>9, <2>2, <2>3 DEF Network
<1>10. ASSUME NEW h \in Host, Start(h) PROVE IsolationInv'
  <2>1. faults' = faults /\ valuesMap' = valuesMap /\ toClient' = toClient
        /\ sessionKey' = [sessionKey EXCEPT ![h] = 0]
    BY <1>10 DEF Start, serverVars
  <2> QED BY <1>t, <2>1 DEF IsolationInv
<1>11. ASSUME NEW h \in Host, SecondClient(h) \/ Kill(h) PROVE IsolationInv'
  <2>1. faults["restart"] = 0 /\ valuesMap' = valuesMap /\ toClient' = toClient
        /\ sessionKey' = sessionKey
    BY <1>1, <1>11 DEF SecondClient, Kill, FaultKind, clientVars, serverVars
  <2> QED BY <2>1 DEF IsolationInv
<1>12. CASE UNCHANGED vars
  BY <1>12 DEF IsolationInv, vars, clientVars, serverVars, envVars
<1>13. ASSUME NEW h \in Host, ClientError(h) \/ ClientData(h) \/ PortClosed(h) PROVE IsolationInv'
  <2>1. /\ toClient[h] # <<>> /\ toClient' = Take(toClient, h) /\ faults' = faults
        /\ valuesMap' = valuesMap /\ sessionKey' = sessionKey
    BY <1>13 DEF ClientError, ClientData, PortClosed, ClientReceives, Arrived, serverVars,
                 envVars, clientVars
  <2> QED BY <1>4, <2>1
<1> QED BY <1>2, <1>5, <1>7, <1>8, <1>9, <1>10, <1>11, <1>12, <1>13
        DEF Next, ClientReceive, ServerReceive

\* A client's session is its own for as long as the server is not restarted:
\* the ids of UDPServer.java:26 are never given twice, and answers go to the
\* host that opened the session.
THEOREM SessionIsolationAlways == Spec => []SessionIsolation
<1>1. Init => IsolationInv
  BY DEF Init, IsolationInv, Announced
<1>2. TypeOK /\ TypeOK' /\ IsolationInv /\ [Next]_vars => IsolationInv'
  BY IsolationStep
<1>3. IsolationInv => SessionIsolation
  BY DEF IsolationInv, SessionIsolation, AnswersTo
<1> QED BY <1>1, <1>2, <1>3, TypeCorrect, PTL DEF Spec

-----------------------------------------------------------------------------
(* The protocol implements FileCopy.                                       *)

\* No fault but lost and reordered datagrams is allowed for.
ForgivingFaults ==
  \A k \in {"duplicate", "restart", "second", "kill"} : MaxFaults[k] = 0

LEMMA AlwaysCalm ==
  ASSUME ForgivingFaults
  PROVE  Spec => []Calm
<1>1. Init => Calm
  BY DEF Init, Calm, FaultKind
<1>2. TypeOK /\ Calm /\ [Next]_vars => Calm'
  <2> SUFFICES ASSUME TypeOK, Calm, [Next]_vars PROVE Calm'
    OBVIOUS
  <2>1. \A k \in FaultKind : Fault(k) => Calm'
    <3> SUFFICES ASSUME NEW k \in FaultKind, Fault(k) PROVE Calm'
      OBVIOUS
    <3>1. faults \in [FaultKind -> Nat] /\ faults[k] < MaxFaults[k]
          /\ faults' = [faults EXCEPT ![k] = @ + 1]
      BY DEF TypeOK, Fault
    <3>2. k \notin {"duplicate", "restart", "second", "kill"}
      BY <3>1 DEF ForgivingFaults
    <3> QED BY <3>1, <3>2 DEF Calm, FaultKind
  <2>2. faults' = faults => Calm'
    BY DEF Calm
  <2>3. (\E k \in FaultKind : Fault(k)) \/ faults' = faults
    BY DEF Next, Start, ClientReceive, ClientError, ClientSid, ClientData, PortClosed,
           ServerReceive, ServerInitx, ServerGetxx, Network, SecondClient, Kill, ServerRestart,
           FaultKind, vars, envVars
  <2> QED BY <2>1, <2>2, <2>3
<1> QED BY <1>1, <1>2, TypeCorrect, PTL DEF Spec

\* A step of the protocol that changes neither the request nor the copy nor the
\* state of a client is invisible in FileCopy.
LEMMA Stutter ==
  ASSUME UNCHANGED <<pc, name, chunksize, chunkNo, written>>
  PROVE  UNCHANGED Copy!vars
BY DEF Copy!vars, CopyTarget, CopyStatus

LEMMA CopyStart ==
  ASSUME TypeOK, NEW h \in Host, Start(h)
  PROVE  Copy!Next
<1>1. PICK f \in Name, a \in ChunkArg :
        name' = [name EXCEPT ![h] = f] /\ chunksize' = [chunksize EXCEPT ![h] = Capped(a)]
  BY DEF Start
<1>2. TargetOf(f, Capped(a)) \in CopyTargets
  BY DEF CopyTargets
<1>3. CopyTarget' = [CopyTarget EXCEPT ![h] = TargetOf(f, Capped(a))]
  BY <1>1 DEF CopyTarget, TypeOK
<1>4. CopyStatus[h] \notin {"asked", "copying"}
  BY DEF CopyStatus, TypeOK, Start, Ended
<1>5. CopyStatus' = [CopyStatus EXCEPT ![h] = "asked"]
  BY DEF CopyStatus, TypeOK, Start
<1>6. Copy!Ask(h)
  BY <1>2, <1>3, <1>4, <1>5 DEF Copy!Ask, Start
<1> QED BY <1>6 DEF Copy!Next

LEMMA CopyError ==
  ASSUME TypeOK, NEW h \in Host, HostInv(h), ClientError(h)
  PROVE  Copy!Next
<1>1. toClient[h] # <<>> /\ Head(toClient[h]).flag = "ERROR" /\ pc[h] = "running"
  BY DEF ClientError, ClientReceives, Arrived
<1>2. ReplyInv(h)
  BY <1>1, OneReply
<1>3. Head(toClient[h]) = Error("FNF") /\ name[h] \notin DOMAIN Size /\ chunkNo[h] = 0
  BY <1>1, <1>2, Fields DEF ReplyInv, DueData
<1>4. Head(toClient[h]).error = "FNF"
  BY <1>3, Fields
<1>5. pc' = [pc EXCEPT ![h] = "FNF"]
  BY <1>4 DEF ClientError
<1>6. UNCHANGED <<name, chunksize, chunkNo, written>>
  BY DEF ClientError
<1>7. CopyTarget[h] = <<>> /\ CopyStatus[h] = "asked"
  BY <1>1, <1>3 DEF CopyTarget, TargetOf, CopyStatus
<1>8. CopyStatus' = [CopyStatus EXCEPT ![h] = "FNF"]
  BY <1>5, <1>6 DEF CopyStatus, TypeOK
<1>9. UNCHANGED <<CopyTarget, written>>
  BY <1>6 DEF CopyTarget
<1>10. Copy!Refuse(h)
  BY <1>7, <1>8, <1>9 DEF Copy!Refuse
<1> QED BY <1>10 DEF Copy!Next

\* The first n chunks of a target of last + 1 chunks.
LEMMA TargetPrefix ==
  ASSUME NEW f \in DOMAIN Size, NEW c \in ChunkSizes, LastChunk(f, c) \in Nat,
         NEW n \in 1..(LastChunk(f, c) + 1)
  PROVE  /\ Len(Arriving(f, c)) = LastChunk(f, c) + 1
         /\ Arriving(f, c) # <<>>
         /\ SubSeq(Arriving(f, c), 1, n) = [i \in 1..n |-> Parsed(Chunk(f, c, i - 1))]
         /\ [i \in 1..n |-> Parsed(Chunk(f, c, i - 1))] = Arriving(f, c)
              <=> n = LastChunk(f, c) + 1
         /\ n \in Nat /\ Len([i \in 1..n |-> Parsed(Chunk(f, c, i - 1))]) = n
<1> DEFINE l == LastChunk(f, c) + 1
<1> DEFINE elt(i) == Parsed(Chunk(f, c, i - 1))
<1> DEFINE s == Arriving(f, c)
<1> DEFINE p == [i \in 1..n |-> elt(i)]
<1>1. l \in Nat /\ l >= 1 /\ n \in 1..l /\ n \in Nat
  OBVIOUS
<1>2. \A i \in 1..l : elt(i) \in ChunkSet
  <2> SUFFICES ASSUME NEW i \in 1..l PROVE elt(i) \in ChunkSet
    OBVIOUS
  <2>1. i - 1 \in Nat
    BY <1>1
  <2>2. Chunk(f, c, i - 1) \in ChunkSet
    BY <2>1 DEF Chunk, ChunkSet
  <2> QED BY <2>2, ParsedType
<1>3. s = [i \in 1..l |-> elt(i)]
  BY DEF Arriving
<1> HIDE DEF elt, l, s
<1>4. s \in Seq(ChunkSet) /\ Len(s) = l
  BY <1>1, <1>2, <1>3
<1>5. p \in Seq(ChunkSet) /\ Len(p) = n
  BY <1>1, <1>2
<1>6. SubSeq(s, 1, n) = p
  BY <1>1, <1>3, <1>4
<1>7. p = s <=> n = l
  BY <1>1, <1>3, <1>4, <1>5
<1>8. s # <<>>
  BY <1>1, <1>4
<1> QED BY <1>1, <1>4, <1>5, <1>6, <1>7, <1>8 DEF elt, l, s

LEMMA CopyData ==
  ASSUME TypeOK, NEW h \in Host, HostInv(h), ClientData(h)
  PROVE  Copy!Next \/ UNCHANGED Copy!vars
<1> DEFINE f == name[h]
<1> DEFINE c == chunksize[h]
<1> DEFINE d == Due(h)
<1> DEFINE last == LastChunk(f, c)
<1> DEFINE prefix == [i \in 1..(d + 1) |-> Parsed(Chunk(f, c, i - 1))]
<1>t. /\ chunkNo \in [Host -> Nat] /\ written \in [Host -> Seq(ChunkSet)]
      /\ pc \in [Host -> {"idle", "running"} \cup Ended]
  BY DEF TypeOK
<1>1. ReceivedChunk(h)
  BY ChunkReceived
<1>2. /\ pc[h] = "running" /\ f \in DOMAIN Size /\ c \in ChunkSizes
      /\ chunkNo[h] \in Nat /\ d \in Nat /\ last \in Nat /\ d <= last
      /\ written' = [written EXCEPT ![h] = prefix]
  BY <1>1 DEF ReceivedChunk
<1>3. CopyTarget[h] = Arriving(f, c) /\ CopyTarget' = CopyTarget
  BY <1>2 DEF ClientData, CopyTarget, TargetOf
<1>4. d + 1 \in 1..(last + 1)
  BY <1>2
<1>5. /\ SubSeq(Arriving(f, c), 1, d + 1) = prefix /\ Arriving(f, c) # <<>>
      /\ prefix = Arriving(f, c) <=> d = last
      /\ Len(Arriving(f, c)) = last + 1
  BY <1>2, <1>4, TargetPrefix
<1>6. CopyStatus' = [CopyStatus EXCEPT ![h] = IF d = last THEN "transmitted" ELSE "copying"]
  <2>1. CASE Short(DueLen(h), c)
    <3>1. d = last /\ pc' = [pc EXCEPT ![h] = "transmitted"] /\ chunkNo' = chunkNo
      BY <1>1, <2>1 DEF ReceivedChunk, ClientData
    <3> QED BY <1>t, <3>1 DEF CopyStatus
  <2>2. CASE ~Short(DueLen(h), c)
    <3>1. d # last /\ pc' = pc /\ chunkNo' = [chunkNo EXCEPT ![h] = @ + 1]
      BY <1>1, <1>2, <2>2 DEF ReceivedChunk, ClientData
    <3>2. chunkNo'[h] # 0 /\ \A g \in Host \ {h} : chunkNo'[g] = chunkNo[g]
      BY <1>t, <1>2, <3>1
    <3> QED BY <1>2, <3>1, <3>2 DEF CopyStatus
  <2> QED BY <2>1, <2>2
<1> HIDE DEF prefix, last, d
<1>s. /\ written'[h] = prefix /\ written' = [written EXCEPT ![h] = prefix]
      /\ CopyTarget[h] = Arriving(f, c)
      /\ CopyStatus' = [CopyStatus EXCEPT ![h] =
                          IF written'[h] = CopyTarget[h] THEN "transmitted" ELSE "copying"]
  <2>1. written'[h] = prefix
    BY <1>t, <1>2
  <2>2. CASE d = last
    <3>1. written'[h] = CopyTarget[h]
      BY <2>1, <2>2, <1>3, <1>5
    <3> QED BY <1>2, <1>3, <1>6, <2>1, <2>2, <3>1
  <2>3. CASE d # last
    <3>1. written'[h] # CopyTarget[h]
      BY <2>1, <2>3, <1>3, <1>5
    <3> QED BY <1>2, <1>3, <1>6, <2>1, <2>3, <3>1
  <2> QED BY <2>2, <2>3
<1>7. CASE chunkNo[h] = 0
  <2>1. CopyStatus[h] = "asked" /\ d = 0
    BY <1>2, <1>7 DEF CopyStatus, Due, d
  <2>2. SubSeq(CopyTarget[h], 1, 1) = prefix
    BY <1>5, <1>s, <2>1
  <2>3. written' = [written EXCEPT ![h] = SubSeq(CopyTarget[h], 1, 1)]
    BY <1>s, <2>2
  <2>4. CopyTarget[h] # <<>>
    BY <1>5, <1>s
  <2>5. Copy!Grow(h)
    BY <1>3, <1>s, <2>1, <2>3, <2>4 DEF Copy!Grow
  <2> QED BY <2>5 DEF Copy!Next
<1>8. CASE chunkNo[h] = 1
  <2>1. CopyInv(h)
    BY <1>1, <1>t DEF HostInv, ReceivedChunk
  <2>2. d = 0 /\ 1 <= last /\ written[h] = [i \in 1..1 |-> Parsed(Chunk(f, c, i - 1))]
    BY <1>8, <2>1 DEF CopyInv, Have, Due, d, last
  <2>3. written' = written
    BY <1>t, <1>2, <2>2 DEF prefix
  <2>4. CopyStatus[h] = "copying" /\ d # last
    BY <1>2, <1>8, <2>2 DEF CopyStatus
  <2>5. CopyStatus = [g \in Host |-> CopyStatus[g]]
    BY DEF CopyStatus
  <2>6. CopyStatus' = [CopyStatus EXCEPT ![h] = "copying"]
    BY <1>6, <2>4
  <2> HIDE DEF CopyStatus
  <2>7. CopyStatus' = CopyStatus
    BY <2>4, <2>5, <2>6
  <2> QED BY <1>3, <2>3, <2>7 DEF Copy!vars
<1>9. CASE chunkNo[h] > 1
  <2>1. CopyInv(h)
    BY <1>1, <1>t DEF HostInv, ReceivedChunk
  <2>2. d # 0 /\ written[h] = [i \in 1..d |-> Parsed(Chunk(f, c, i - 1))]
    <3>1. d = chunkNo[h] - 1 /\ d # 0 /\ Have(h) = d /\ chunkNo[h] # 0
      BY <1>2, <1>9 DEF Have, Due, d
    <3>2. written[h] = [i \in 1..Have(h) |-> Parsed(Chunk(f, c, i - 1))]
      BY <2>1, <3>1 DEF CopyInv
    <3> QED BY <3>1, <3>2
  <2>3. d \in 1..(last + 1)
    BY <1>2, <2>2
  <2>4. Len(written[h]) = d
    BY <1>2, <2>2, <2>3, TargetPrefix DEF last
  <2>5. CopyStatus[h] = "copying"
    BY <1>2, <1>9 DEF CopyStatus
  <2>6. SubSeq(CopyTarget[h], 1, Len(written[h]) + 1) = prefix
    BY <1>5, <1>s, <2>4
  <2>7. written' = [written EXCEPT ![h] = SubSeq(CopyTarget[h], 1, Len(@) + 1)]
    BY <1>s, <2>6
  <2>8. Len(written[h]) < Len(CopyTarget[h]) /\ CopyTarget[h] # <<>>
    BY <1>2, <1>5, <1>s, <2>4
  <2>9. Copy!Grow(h)
    BY <1>3, <1>s, <2>5, <2>7, <2>8 DEF Copy!Grow
  <2> QED BY <2>9 DEF Copy!Next
<1> QED BY <1>2, <1>7, <1>8, <1>9

\* Undisturbed by anything but lost and reordered datagrams, the transfer is a
\* front-to-back copy of the file and is called complete exactly at its end.
THEOREM CopiesTheFileAlways ==
  ASSUME ForgivingFaults
  PROVE  Spec => CopiesTheFile
<1>1. Init => Copy!Init
  <2> SUFFICES ASSUME Init PROVE Copy!Init
    OBVIOUS
  <2>1. TargetOf(DefaultName, DefaultChunk) \in CopyTargets
    BY SizeAssumption DEF CopyTargets
  <2>2. CopyTarget = [h \in Host |-> TargetOf(DefaultName, DefaultChunk)]
    BY DEF Init, CopyTarget
  <2>3. CopyTarget \in [Host -> CopyTargets]
    BY <2>1, <2>2
  <2>4. CopyStatus = [h \in Host |-> "idle"]
    BY DEF Init, CopyStatus
  <2> QED BY <2>3, <2>4 DEF Init, Copy!Init
<1>2. TypeOK /\ CalmInv /\ Calm /\ Calm' /\ [Next]_vars => [Copy!Next]_(Copy!vars)
  <2> SUFFICES ASSUME TypeOK, CalmInv, Calm, Calm', [Next]_vars
               PROVE  Copy!Next \/ UNCHANGED Copy!vars
    OBVIOUS
  <2>1. \A h \in Host : HostInv(h)
    BY DEF CalmInv
  <2>2. ASSUME NEW h \in Host, Start(h) PROVE Copy!Next
    BY <2>2, CopyStart
  <2>3. ASSUME NEW h \in Host, ClientError(h) PROVE Copy!Next
    BY <2>1, <2>3, CopyError
  <2>4. ASSUME NEW h \in Host, ClientData(h) PROVE Copy!Next \/ UNCHANGED Copy!vars
    BY <2>1, <2>4, CopyData
  <2>5. ASSUME NEW h \in Host, Kill(h) PROVE FALSE
    <3>1. "kill" \in FaultKind
      BY DEF FaultKind
    <3> QED BY <2>5, <3>1, FaultEndsCalm DEF Kill
  <2>6. ASSUME NEW h \in Host,
               \/ ClientSid(h) \/ PortClosed(h) \/ ServerInitx(h) \/ ServerGetxx(h)
               \/ SecondClient(h) \/ \E k \in {"lose", "duplicate", "reorder"} : Network(h, k)
        PROVE  UNCHANGED Copy!vars
    <3>1. UNCHANGED <<pc, name, chunksize, chunkNo, written>>
      BY <2>6 DEF ClientSid, PortClosed, ServerInitx, NextSid, ServerGetxx, SecondClient, Network, clientVars
    <3> QED BY <3>1, Stutter
  <2>7. CASE ServerRestart \/ UNCHANGED vars
    <3>1. UNCHANGED <<pc, name, chunksize, chunkNo, written>>
      BY <2>7 DEF ServerRestart, vars, clientVars
    <3> QED BY <3>1, Stutter
  <2> QED BY <2>2, <2>3, <2>4, <2>5, <2>6, <2>7 DEF Next, ClientReceive, ServerReceive
<1>3. Spec => []Calm
  BY AlwaysCalm
<1> QED BY <1>1, <1>2, <1>3, TypeCorrect, CalmAlways, PTL DEF Spec, CopiesTheFile, Copy!Spec

-----------------------------------------------------------------------------
(* No amplification.                                                       *)

\* The queues, and the datagrams in queues of given lengths.
Pipe == {"up", "down"} \X Host
Tokens(w) == {x \in {"up", "down"} \X Host \X Nat : x[3] \in 1..w[<<x[1], x[2]>>]}
Width == [p \in Pipe |-> IF p[1] = "up" THEN Len(toServer[p[2]]) ELSE Len(toClient[p[2]])]

\* There are at most n datagrams.
AtMost(w, n) == IsFiniteSet(Tokens(w)) /\ Cardinality(Tokens(w)) <= n

LEMMA OneMore ==
  ASSUME NEW w \in [Pipe -> Nat], NEW p \in Pipe, NEW n \in Nat, AtMost(w, n)
  PROVE  /\ [w EXCEPT ![p] = @ + 1] \in [Pipe -> Nat]
         /\ AtMost([w EXCEPT ![p] = @ + 1], n + 1)
<1> DEFINE v == [w EXCEPT ![p] = @ + 1]
<1> DEFINE new == <<p[1], p[2], w[p] + 1>>
<1>1. p = <<p[1], p[2]>> /\ p[1] \in {"up", "down"} /\ p[2] \in Host /\ w[p] \in Nat
  BY DEF Pipe
<1>2. v \in [Pipe -> Nat] /\ v[p] = w[p] + 1 /\ \A r \in Pipe \ {p} : v[r] = w[r]
  OBVIOUS
<1>3. ASSUME NEW x \in {"up", "down"} \X Host \X Nat
      PROVE  x \in Tokens(v) <=> x \in Tokens(w) \/ x = new
  <2>1. /\ <<x[1], x[2]>> \in Pipe /\ x = <<x[1], x[2], x[3]>> /\ x[3] \in Nat
    BY DEF Pipe
  <2>2. x \in Tokens(v) <=> x[3] \in 1..v[<<x[1], x[2]>>]
    BY DEF Tokens
  <2>3. x \in Tokens(w) <=> x[3] \in 1..w[<<x[1], x[2]>>]
    BY DEF Tokens
  <2>4. CASE <<x[1], x[2]>> = p
    <3>1. x[1] = p[1] /\ x[2] = p[2]
      BY <2>4
    <3>2. x = new <=> x[3] = w[p] + 1
      BY <2>1, <3>1
    <3>3. x[3] \in 1..(w[p] + 1) <=> x[3] \in 1..w[p] \/ x[3] = w[p] + 1
      BY <1>1, <2>1
    <3> QED BY <1>2, <2>2, <2>3, <2>4, <3>2, <3>3
  <2>5. CASE <<x[1], x[2]>> # p
    <3>1. x # new
      BY <1>1, <2>5
    <3> QED BY <1>2, <2>1, <2>2, <2>3, <2>5, <3>1
  <2> QED BY <2>4, <2>5
<1>4. new \in {"up", "down"} \X Host \X Nat
  BY <1>1
<1>5. Tokens(v) = Tokens(w) \cup {new}
  <2>1. Tokens(v) \subseteq {"up", "down"} \X Host \X Nat
        /\ Tokens(w) \subseteq {"up", "down"} \X Host \X Nat
    BY DEF Tokens
  <2> HIDE DEF new, v
  <2> QED BY <1>3, <1>4, <2>1
<1> HIDE DEF new, v
<1>6. IsFiniteSet(Tokens(w)) /\ Cardinality(Tokens(w)) \in Nat /\ Cardinality(Tokens(w)) <= n
  BY FS_CardinalityType DEF AtMost
<1>7. IsFiniteSet(Tokens(v)) /\ Cardinality(Tokens(v)) <= n + 1
  <2>1. /\ IsFiniteSet(Tokens(w) \cup {new})
        /\ \/ Cardinality(Tokens(w) \cup {new}) = Cardinality(Tokens(w))
           \/ Cardinality(Tokens(w) \cup {new}) = Cardinality(Tokens(w)) + 1
    BY <1>6, FS_AddElement
  <2> QED BY <1>5, <1>6, <2>1
<1> QED BY <1>2, <1>7 DEF AtMost, v

LEMMA OneLess ==
  ASSUME NEW w \in [Pipe -> Nat], NEW p \in Pipe, NEW n \in Nat, w[p] > 0, AtMost(w, n)
  PROVE  /\ [w EXCEPT ![p] = @ - 1] \in [Pipe -> Nat]
         /\ n > 0 /\ AtMost([w EXCEPT ![p] = @ - 1], n - 1)
<1> DEFINE v == [w EXCEPT ![p] = @ - 1]
<1> DEFINE old == <<p[1], p[2], w[p]>>
<1>1. p = <<p[1], p[2]>> /\ p[1] \in {"up", "down"} /\ p[2] \in Host /\ w[p] \in Nat
  BY DEF Pipe
<1>2. v \in [Pipe -> Nat] /\ v[p] = w[p] - 1 /\ \A r \in Pipe \ {p} : v[r] = w[r]
  <2>1. w[p] - 1 \in Nat
    BY <1>1
  <2> QED BY <2>1
<1>3. old \in Tokens(w)
  <2>1. old \in {"up", "down"} \X Host \X Nat /\ old[1] = p[1] /\ old[2] = p[2] /\ old[3] = w[p]
    BY <1>1
  <2>2. w[p] \in 1..w[<<p[1], p[2]>>]
    BY <1>1
  <2> HIDE DEF old
  <2> QED BY <2>1, <2>2 DEF Tokens
<1>4. Tokens(v) \subseteq Tokens(w) \ {old}
  <2> SUFFICES ASSUME NEW x \in {"up", "down"} \X Host \X Nat, x[3] \in 1..v[<<x[1], x[2]>>]
               PROVE  x[3] \in 1..w[<<x[1], x[2]>>] /\ x # old
    BY DEF Tokens
  <2>1. <<x[1], x[2]>> \in Pipe /\ x[3] \in Nat
    BY DEF Pipe
  <2>2. CASE <<x[1], x[2]>> = p
    <3>1. x[3] \in 1..(w[p] - 1)
      BY <1>2, <2>2
    <3>2. x[3] \in 1..w[p] /\ x[3] # w[p]
      BY <1>1, <2>1, <3>1
    <3> QED BY <2>2, <3>2
  <2>3. CASE <<x[1], x[2]>> # p
    BY <1>1, <1>2, <2>1, <2>3
  <2> QED BY <2>2, <2>3
<1> HIDE DEF v, old
<1>5. /\ IsFiniteSet(Tokens(w)) /\ Cardinality(Tokens(w)) \in Nat
      /\ IsFiniteSet(Tokens(w) \ {old}) /\ Cardinality(Tokens(w) \ {old}) = Cardinality(Tokens(w)) - 1
      /\ Cardinality(Tokens(w)) <= n
  BY <1>3, FS_CardinalityType, FS_RemoveElement DEF AtMost
<1>6. IsFiniteSet(Tokens(v)) /\ Cardinality(Tokens(v)) <= Cardinality(Tokens(w) \ {old})
  BY <1>4, <1>5, FS_Subset
<1>7. Cardinality(Tokens(v)) \in Nat /\ Cardinality(Tokens(w) \ {old}) \in Nat
  BY <1>5, <1>6, FS_CardinalityType
<1>8. n > 0 /\ Cardinality(Tokens(v)) <= n - 1
  BY <1>5, <1>6, <1>7
<1> QED BY <1>2, <1>6, <1>8 DEF AtMost, v

\* What a step makes of the lengths of the queues.
LEMMA UnderWayTokens ==
  ASSUME TypeOK
  PROVE  Width \in [Pipe -> Nat] /\ UnderWay = Tokens(Width)
<1>1. \A h \in Host : /\ Len(toServer[h]) \in Nat /\ DOMAIN toServer[h] = 1..Len(toServer[h])
                      /\ Len(toClient[h]) \in Nat /\ DOMAIN toClient[h] = 1..Len(toClient[h])
  BY DEF TypeOK
<1>2. Width \in [Pipe -> Nat]
  BY <1>1 DEF Width, Pipe
<1>3. \A h \in Host : /\ Width[<<"up", h>>] = Len(toServer[h])
                      /\ Width[<<"down", h>>] = Len(toClient[h])
  BY DEF Width, Pipe
<1>4. ASSUME NEW x
      PROVE  x \in UnderWay <=> x \in Tokens(Width)
  <2>1. x \in UnderWay <=> \E h \in Host : \/ x \in {"up"} \X {h} \X (1..Len(toServer[h]))
                                          \/ x \in {"down"} \X {h} \X (1..Len(toClient[h]))
    BY <1>1 DEF UnderWay
  <2>2. ASSUME NEW h \in Host, x \in {"up"} \X {h} \X (1..Len(toServer[h]))
        PROVE  x \in Tokens(Width)
    <3>1. x = <<"up", h, x[3]>> /\ x[3] \in 1..Len(toServer[h]) /\ x[1] = "up" /\ x[2] = h
      BY <2>2
    <3>2. x \in {"up", "down"} \X Host \X Nat
      BY <1>1, <3>1
    <3> QED BY <1>3, <3>1, <3>2 DEF Tokens
  <2>3. ASSUME NEW h \in Host, x \in {"down"} \X {h} \X (1..Len(toClient[h]))
        PROVE  x \in Tokens(Width)
    <3>1. x = <<"down", h, x[3]>> /\ x[3] \in 1..Len(toClient[h]) /\ x[1] = "down" /\ x[2] = h
      BY <2>3
    <3>2. x \in {"up", "down"} \X Host \X Nat
      BY <1>1, <3>1
    <3> QED BY <1>3, <3>1, <3>2 DEF Tokens
  <2>4. ASSUME x \in Tokens(Width)
        PROVE  \E h \in Host : \/ x \in {"up"} \X {h} \X (1..Len(toServer[h]))
                               \/ x \in {"down"} \X {h} \X (1..Len(toClient[h]))
    <3>1. /\ x[1] \in {"up", "down"} /\ x[2] \in Host /\ x = <<x[1], x[2], x[3]>>
          /\ x[3] \in 1..Width[<<x[1], x[2]>>]
      BY <2>4 DEF Tokens
    <3>2. CASE x[1] = "up"
      <4>1. x = <<"up", x[2], x[3]>> /\ x[3] \in 1..Len(toServer[x[2]])
        BY <1>3, <3>1, <3>2
      <4>2. x \in {"up"} \X {x[2]} \X (1..Len(toServer[x[2]]))
        BY <4>1
      <4> QED BY <3>1, <4>2
    <3>3. CASE x[1] = "down"
      <4>1. x = <<"down", x[2], x[3]>> /\ x[3] \in 1..Len(toClient[x[2]])
        BY <1>3, <3>1, <3>3
      <4>2. x \in {"down"} \X {x[2]} \X (1..Len(toClient[x[2]]))
        BY <4>1
      <4> QED BY <3>1, <4>2
    <3> QED BY <3>1, <3>2, <3>3
  <2> QED BY <2>1, <2>2, <2>3, <2>4
<1> QED BY <1>2, <1>4

\* One queue to the server and one from it grow or shrink by a datagram.
LEMMA WidthStep ==
  ASSUME TypeOK, TypeOK', NEW h \in Host, NEW g \in Host, NEW n \in Nat, AtMost(Width, n),
         NEW a \in {-1, 0, 1}, NEW b \in {-1, 0, 1},
         Len(toServer'[h]) = Len(toServer[h]) + a, Len(toClient'[g]) = Len(toClient[g]) + b,
         \A k \in Host \ {h} : toServer'[k] = toServer[k],
         \A k \in Host \ {g} : toClient'[k] = toClient[k],
         a = -1 \/ b = -1 \/ a + b <= 1
  PROVE  n + a + b \in Nat /\ AtMost(Width', n + a + b)
<1> DEFINE up == <<"up", h>>
<1> DEFINE down == <<"down", g>>
<1> DEFINE w == [Width EXCEPT ![up] = @ + a]
<1> DEFINE v == [w EXCEPT ![down] = @ + b]
<1>1. Width \in [Pipe -> Nat]
  BY UnderWayTokens
<1>2. Width' \in [Pipe -> Nat]
  <2>t. toServer' \in [Host -> Seq(Request)] /\ toClient' \in [Host -> Seq(Reply)]
    BY DEF TypeOK
  <2>1. \A k \in Host : Len(toServer'[k]) \in Nat /\ Len(toClient'[k]) \in Nat
    BY <2>t
  <2> QED BY <2>1 DEF Width, Pipe
<1>3. \A k \in Host : /\ Width[<<"up", k>>] = Len(toServer[k]) /\ Width'[<<"up", k>>] = Len(toServer'[k])
                      /\ Width[<<"down", k>>] = Len(toClient[k]) /\ Width'[<<"down", k>>] = Len(toClient'[k])
  BY DEF Width, Pipe
<1>4. up \in Pipe /\ down \in Pipe /\ up # down
  BY DEF Pipe
<1>5. ASSUME NEW p \in Pipe
      PROVE  Width'[p] = IF p = up THEN Width[p] + a ELSE IF p = down THEN Width[p] + b ELSE Width[p]
  <2>1. PICK k \in Host : p = <<"up", k>> \/ p = <<"down", k>>
    BY DEF Pipe
  <2>2. CASE p = <<"up", k>>
    BY <1>3, <2>2
  <2>3. CASE p = <<"down", k>>
    BY <1>3, <2>3
  <2> QED BY <2>1, <2>2, <2>3
<1> HIDE DEF up, down
<1>6. Width'[up] = Width[up] + a /\ Width'[down] = Width[down] + b
  BY <1>4, <1>5
<1>7. Width' = v
  BY <1>1, <1>2, <1>4, <1>5
<1>w. w \in [Pipe -> Int]
  BY <1>1, <1>4
<1>8. a = 0 => w = Width
  BY <1>1
<1>9. b = 0 => v = w
  <2> HIDE DEF w
  <2> QED BY <1>w, <1>4
<1>10. w[down] = Width[down]
  BY <1>1, <1>4
<1>11. CASE a = -1
  <2>1. Width[up] > 0
    BY <1>1, <1>2, <1>4, <1>6, <1>11
  <2>2. w = [Width EXCEPT ![up] = @ - 1]
    BY <1>1, <1>4, <1>11
  <2>3. w \in [Pipe -> Nat] /\ n > 0 /\ AtMost(w, n - 1)
    BY <1>1, <1>4, <2>1, <2>2, OneLess
  <2>4. CASE b = -1
    <3>1. w[down] > 0
      BY <1>1, <1>2, <1>4, <1>6, <1>10, <2>4
    <3>2. v = [w EXCEPT ![down] = @ - 1] /\ n - 1 \in Nat
      <4> HIDE DEF w
      <4>1. w[down] \in Int
        BY <1>4, <1>w
      <4>2. w[down] + b = w[down] - 1
        BY <2>4, <4>1
      <4>3. v = [w EXCEPT ![down] = w[down] - 1]
        BY <4>2
      <4>4. n - 1 \in Nat
        BY <2>3
      <4> QED BY <4>3, <4>4
    <3> HIDE DEF w, v
    <3>3. n - 1 > 0 /\ AtMost(v, (n - 1) - 1)
      BY <1>4, <2>3, <3>1, <3>2, OneLess
    <3> QED BY <1>7, <1>11, <2>4, <3>3
  <2>5. CASE b = 0
    <3>1. n + a + b = n - 1 /\ n - 1 \in Nat
      BY <1>11, <2>3, <2>5
    <3> HIDE DEF w, v
    <3> QED BY <1>7, <1>9, <2>3, <2>5, <3>1
  <2>6. CASE b = 1
    <3>1. v = [w EXCEPT ![down] = @ + 1] /\ n - 1 \in Nat
      <4> HIDE DEF w
      <4> QED BY <2>3, <2>6, <1>4, <1>w
    <3> HIDE DEF w, v
    <3>2. AtMost(v, (n - 1) + 1)
      BY <1>4, <2>3, <3>1, OneMore
    <3>3. n + a + b = n /\ (n - 1) + 1 = n
      BY <1>11, <2>6
    <3> QED BY <1>7, <3>2, <3>3
  <2> QED BY <2>4, <2>5, <2>6
<1>12. CASE a = 0
  <2>1. CASE b = -1
    <3>1. Width[down] > 0
      BY <1>1, <1>2, <1>4, <1>6, <2>1
    <3>2. v = [Width EXCEPT ![down] = @ - 1]
      BY <1>1, <1>4, <1>8, <1>12, <2>1
    <3> HIDE DEF w, v
    <3>3. n > 0 /\ AtMost(v, n - 1)
      BY <1>1, <1>4, <3>1, <3>2, OneLess
    <3>4. n + a + b = n - 1 /\ n - 1 \in Nat
      BY <1>12, <2>1, <3>3
    <3> QED BY <1>7, <3>3, <3>4
  <2>2. CASE b = 0
    <3>1. n + a + b = n
      BY <1>12, <2>2
    <3> HIDE DEF w, v
    <3> QED BY <1>7, <1>8, <1>9, <1>12, <2>2, <3>1
  <2>3. CASE b = 1
    <3>1. v = [Width EXCEPT ![down] = @ + 1]
      BY <1>1, <1>4, <1>8, <1>12, <2>3
    <3> HIDE DEF w, v
    <3>2. AtMost(v, n + 1)
      BY <1>1, <1>4, <3>1, OneMore
    <3>3. n + a + b = n + 1
      BY <1>12, <2>3
    <3> QED BY <1>7, <3>2, <3>3
  <2> QED BY <2>1, <2>2, <2>3
<1>13. CASE a = 1
  <2>1. w = [Width EXCEPT ![up] = @ + 1]
    BY <1>1, <1>4, <1>13
  <2>2. w \in [Pipe -> Nat] /\ AtMost(w, n + 1)
    BY <1>1, <1>4, <2>1, OneMore
  <2>3. CASE b = -1
    <3>1. w[down] > 0
      BY <1>1, <1>2, <1>4, <1>6, <1>10, <2>3
    <3>2. v = [w EXCEPT ![down] = @ - 1] /\ n + 1 \in Nat
      <4> HIDE DEF w
      <4>1. w[down] \in Int
        BY <1>4, <1>w
      <4>2. w[down] + b = w[down] - 1
        BY <2>3, <4>1
      <4>3. v = [w EXCEPT ![down] = w[down] - 1]
        BY <4>2
      <4>4. n + 1 \in Nat
        BY <2>2
      <4> QED BY <4>3, <4>4
    <3> HIDE DEF w, v
    <3>3. AtMost(v, (n + 1) - 1)
      BY <1>4, <2>2, <3>1, <3>2, OneLess
    <3>4. n + a + b = n /\ (n + 1) - 1 = n
      BY <1>13, <2>3
    <3> QED BY <1>7, <3>3, <3>4
  <2>4. CASE b = 0
    <3>1. n + a + b = n + 1
      BY <1>13, <2>4
    <3> HIDE DEF w, v
    <3> QED BY <1>7, <1>9, <2>2, <2>4, <3>1
  <2> QED BY <1>13, <2>3, <2>4
<1> QED BY <1>11, <1>12, <1>13

\* How many datagrams may have been put into the queues, and the steps that put one.
Allowed == Cardinality(Runs) + faults["second"] + faults["duplicate"]

AmpInv == IsFiniteSet(Runs) /\ Allowed \in Nat /\ AtMost(Width, Allowed)

\* The length of a queue after a fault.
LEMMA DisturbedLength ==
  ASSUME NEW S, NEW q \in Seq(S), NEW k \in {"lose", "duplicate", "reorder"}, Len(q) >= Needs(k)
  PROVE  Len(Disturbed(q, k)) = Len(q) + (CASE k = "lose" -> -1 [] k = "duplicate" -> 1 [] k = "reorder" -> 0)
<1>1. CASE k = "lose"
  <2>1. Disturbed(q, k) = Tail(q) /\ Len(q) >= 1
    BY <1>1 DEF Disturbed, Needs
  <2>2. Len(Tail(q)) = Len(q) - 1
    BY <2>1
  <2> QED BY <1>1, <2>1, <2>2
<1>2. CASE k = "duplicate"
  <2>1. Disturbed(q, k) = <<Head(q)>> \o q /\ Len(q) >= 1
    BY <1>2 DEF Disturbed, Needs
  <2>2. Head(q) \in S
    BY <2>1
  <2>3. Len(<<Head(q)>> \o q) = Len(q) + 1
    BY <2>2
  <2> QED BY <1>2, <2>1, <2>3
<1>3. CASE k = "reorder"
  <2>1. Disturbed(q, k) = [q EXCEPT ![1] = q[2], ![2] = q[1]] /\ Len(q) >= 2
    BY <1>3 DEF Disturbed, Needs
  <2>2. Len([q EXCEPT ![1] = q[2], ![2] = q[1]]) = Len(q)
    BY <2>1
  <2> QED BY <1>3, <2>1, <2>2
<1> QED BY <1>1, <1>2, <1>3

LEMMA AmpStep ==
  ASSUME TypeOK, TypeOK', AmpInv, [Next]_vars
  PROVE  AmpInv'
<1>t. /\ toServer \in [Host -> Seq(Request)] /\ toServer' \in [Host -> Seq(Request)]
      /\ toClient \in [Host -> Seq(Reply)] /\ toClient' \in [Host -> Seq(Reply)]
      /\ starts \in [Host -> Nat] /\ faults \in [FaultKind -> Nat]
  BY DEF TypeOK
<1>f. {"lose", "duplicate", "reorder", "restart", "second", "kill"} = FaultKind
  BY DEF FaultKind
<1>c. Cardinality(Runs) \in Nat /\ Allowed \in Nat /\ AtMost(Width, Allowed) /\ IsFiniteSet(Runs)
  BY FS_CardinalityType DEF AmpInv
<1>1. ASSUME starts' = starts
      PROVE  Runs' = Runs
  BY <1>1 DEF Runs
<1>2. ASSUME starts' = starts, faults' = faults
      PROVE  Allowed' = Allowed
  BY <1>1, <1>2 DEF Allowed
<1>3. ASSUME starts' = starts, faults' = faults, AtMost(Width', Allowed)
      PROVE  AmpInv'
  BY <1>1, <1>2, <1>3, <1>c DEF AmpInv
<1>4. ASSUME NEW n \in Nat, n <= Allowed, AtMost(Width', n), starts' = starts, faults' = faults
      PROVE  AmpInv'
  <2>1. Cardinality(Tokens(Width')) \in Nat
    BY <1>4, FS_CardinalityType DEF AtMost
  <2> QED BY <1>3, <1>4, <1>c, <2>1 DEF AtMost
<1>5. ASSUME NEW k \in FaultKind, Fault(k)
      PROVE  /\ starts' = starts /\ Runs' = Runs
             /\ Allowed' = IF k \in {"second", "duplicate"} THEN Allowed + 1 ELSE Allowed
  <2>1. starts' = starts /\ faults' = [faults EXCEPT ![k] = @ + 1]
    BY <1>5 DEF Fault
  <2>2. faults["second"] \in Nat /\ faults["duplicate"] \in Nat
    BY <1>t, <1>f
  <2>3. /\ faults'["second"] = IF k = "second" THEN faults["second"] + 1 ELSE faults["second"]
        /\ faults'["duplicate"] = IF k = "duplicate" THEN faults["duplicate"] + 1 ELSE faults["duplicate"]
    BY <1>t, <1>f, <2>1
  <2> QED BY <1>1, <1>c, <2>1, <2>2, <2>3 DEF Allowed
<1>6. ASSUME NEW h \in Host, Start(h) PROVE AmpInv'
  <2>1. PICK f \in Name, arg \in ChunkArg : toServer' = Send(toServer, h, Initx(Capped(arg), f))
    BY <1>6 DEF Start
  <2>2. /\ starts' = [starts EXCEPT ![h] = @ + 1] /\ toClient' = toClient /\ faults' = faults
    BY <1>6 DEF Start
  <2>3. Initx(Capped(arg), f) \in Request
    BY CappedType DEF Initx, Request
  <2>4. /\ Len(toServer'[h]) = Len(toServer[h]) + 1 /\ Len(toClient'[h]) = Len(toClient[h]) + 0
        /\ \A k \in Host \ {h} : toServer'[k] = toServer[k] /\ toClient'[k] = toClient[k]
    <3>1. Len(toClient[h]) \in Nat
      BY <1>t
    <3>2. toServer'[h] = Append(toServer[h], Initx(Capped(arg), f))
          /\ \A k \in Host \ {h} : toServer'[k] = toServer[k]
      BY <1>t, <2>1 DEF Send
    <3>3. Len(Append(toServer[h], Initx(Capped(arg), f))) = Len(toServer[h]) + 1
      BY <1>t, <2>3
    <3> QED BY <2>2, <3>1, <3>2, <3>3
  <2>5. Allowed + 1 + 0 \in Nat /\ AtMost(Width', Allowed + 1 + 0)
    BY <1>c, <2>4, WidthStep
  <2> DEFINE run == <<h, starts[h] + 1>>
  <2>6. Runs' = Runs \cup {run} /\ run \notin Runs
    <3>1. starts[h] \in Nat /\ starts'[h] = starts[h] + 1 /\ \A k \in Host \ {h} : starts'[k] = starts[k]
      BY <1>t, <2>2
    <3>2. 1..(starts[h] + 1) = (1..starts[h]) \cup {starts[h] + 1} /\ starts[h] + 1 \notin 1..starts[h]
      BY <3>1
    <3>3. \A x : x \in Runs <=> \E k \in Host : x \in {k} \X (1..starts[k])
      BY DEF Runs
    <3>4. \A x : x \in Runs' <=> \E k \in Host : x \in {k} \X (1..starts'[k])
      BY DEF Runs
    <3>5. \A x : x \in {h} \X (1..starts'[h]) <=> x \in {h} \X (1..starts[h]) \/ x = run
      BY <3>1, <3>2
    <3>6. ASSUME NEW x
          PROVE  x \in Runs' <=> x \in Runs \/ x = run
      <4> HIDE DEF run
      <4>1. ASSUME x \in Runs' PROVE x \in Runs \/ x = run
        <5>1. PICK k \in Host : x \in {k} \X (1..starts'[k])
          BY <3>4, <4>1
        <5>2. CASE k = h
          BY <3>3, <3>5, <5>1, <5>2
        <5>3. CASE k # h
          BY <3>1, <3>3, <5>1, <5>3
        <5> QED BY <5>2, <5>3
      <4>2. ASSUME x \in Runs PROVE x \in Runs'
        <5>1. PICK k \in Host : x \in {k} \X (1..starts[k])
          BY <3>3, <4>2
        <5>2. CASE k = h
          BY <3>4, <3>5, <5>1, <5>2
        <5>3. CASE k # h
          BY <3>1, <3>4, <5>1, <5>3
        <5> QED BY <5>2, <5>3
      <4>3. ASSUME x = run PROVE x \in Runs'
        BY <3>4, <3>5, <4>3
      <4> QED BY <4>1, <4>2, <4>3
    <3>7. run \notin Runs
      <4>1. SUFFICES ASSUME NEW k \in Host, run \in {k} \X (1..starts[k]) PROVE FALSE
        BY <3>3
      <4>2. k = h /\ starts[h] + 1 \in 1..starts[k]
        BY <4>1
      <4> QED BY <3>2, <4>2
    <3> HIDE DEF run
    <3> QED BY <3>6, <3>7
  <2> HIDE DEF run
  <2>7. IsFiniteSet(Runs') /\ Cardinality(Runs') = Cardinality(Runs) + 1
    <3>1. IsFiniteSet(Runs \cup {run}) /\ Cardinality(Runs \cup {run}) = Cardinality(Runs) + 1
      BY <1>c, <2>6, FS_AddElement
    <3> QED BY <2>6, <3>1
  <2>8. Allowed' = Allowed + 1 /\ Allowed + 1 + 0 = Allowed + 1
    <3>1. faults["second"] \in Nat /\ faults["duplicate"] \in Nat
      BY <1>t, <1>f
    <3> QED BY <1>c, <2>2, <2>7, <3>1 DEF Allowed
  <2> QED BY <2>5, <2>7, <2>8 DEF AmpInv
<1>7. ASSUME NEW h \in Host, ClientError(h) \/ ClientSid(h) \/ ClientData(h) PROVE AmpInv'
  <2>1. toClient[h] # <<>> /\ toClient' = Take(toClient, h) /\ faults' = faults /\ starts' = starts
    BY <1>7 DEF ClientError, ClientSid, ClientData, ClientReceives, Arrived, envVars
  <2>2. toServer' = toServer \/ \E m : toServer' = Send(toServer, h, m)
    BY <1>7 DEF ClientError, ClientSid, ClientData
  <2>3. /\ Len(toClient'[h]) = Len(toClient[h]) + (-1)
        /\ \A k \in Host \ {h} : toClient'[k] = toClient[k]
    <3>1. Len(toClient[h]) \in Nat
      BY <1>t
    <3>2. toClient'[h] = Tail(toClient[h]) /\ \A k \in Host \ {h} : toClient'[k] = toClient[k]
      BY <1>t, <2>1 DEF Take
    <3>3. toClient[h] \in Seq(Reply) /\ toClient[h] # <<>>
      BY <1>t, <2>1
    <3>4. Len(Tail(toClient[h])) = Len(toClient[h]) - 1
      BY <3>3
    <3> QED BY <2>1, <3>1, <3>2, <3>4
  <2>4. CASE toServer' = toServer
    <3>1. Len(toServer'[h]) = Len(toServer[h]) + 0
      <4>1. Len(toServer[h]) \in Nat
        BY <1>t
      <4> QED BY <2>4, <4>1
    <3>2. Allowed + 0 + (-1) \in Nat /\ AtMost(Width', Allowed + 0 + (-1))
      BY <1>c, <2>3, <2>4, <3>1, WidthStep
    <3>3. Allowed + 0 + (-1) <= Allowed
      BY <1>c
    <3> QED BY <1>4, <2>1, <3>2, <3>3
  <2>5. ASSUME NEW m, toServer' = Send(toServer, h, m) PROVE AmpInv'
    <3>1. /\ Len(toServer'[h]) = Len(toServer[h]) + 1
          /\ \A k \in Host \ {h} : toServer'[k] = toServer[k]
      <4>1. toServer'[h] = Append(toServer[h], m) /\ \A k \in Host \ {h} : toServer'[k] = toServer[k]
        BY <1>t, <2>5 DEF Send
      <4>2. Len(Append(toServer[h], m)) = Len(toServer[h]) + 1
        BY <1>t
      <4> QED BY <4>1, <4>2
    <3>2. Allowed + 1 + (-1) \in Nat /\ AtMost(Width', Allowed + 1 + (-1))
      BY <1>c, <2>3, <3>1, WidthStep
    <3>3. Allowed + 1 + (-1) = Allowed
      BY <1>c
    <3> QED BY <1>3, <2>1, <3>2, <3>3
  <2> QED BY <2>2, <2>4, <2>5
<1>8. ASSUME NEW h \in Host, PortClosed(h) PROVE AmpInv'
  <2>1. /\ toClient[h] # <<>> /\ toClient' = Take(toClient, h) /\ faults' = faults /\ starts' = starts
        /\ toServer' = toServer
    BY <1>8 DEF PortClosed, envVars
  <2>2. /\ Len(toClient'[h]) = Len(toClient[h]) + (-1)
        /\ Len(toServer'[h]) = Len(toServer[h]) + 0
        /\ \A k \in Host \ {h} : toClient'[k] = toClient[k]
    <3>1. Len(toClient[h]) \in Nat /\ Len(toServer[h]) \in Nat
      BY <1>t
    <3>2. toClient'[h] = Tail(toClient[h]) /\ \A k \in Host \ {h} : toClient'[k] = toClient[k]
      BY <1>t, <2>1 DEF Take
    <3>3. toClient[h] \in Seq(Reply) /\ toClient[h] # <<>>
      BY <1>t, <2>1
    <3>4. Len(Tail(toClient[h])) = Len(toClient[h]) - 1
      BY <3>3
    <3> QED BY <2>1, <3>1, <3>2, <3>4
  <2>3. Allowed + 0 + (-1) \in Nat /\ AtMost(Width', Allowed + 0 + (-1))
    BY <1>c, <2>1, <2>2, WidthStep
  <2>4. Allowed + 0 + (-1) <= Allowed
    BY <1>c
  <2> QED BY <1>4, <2>1, <2>3, <2>4
<1>9. ASSUME NEW h \in Host, ServerInitx(h) \/ ServerGetxx(h) PROVE AmpInv'
  <2>1. toServer[h] # <<>> /\ toServer' = Take(toServer, h) /\ faults' = faults /\ starts' = starts
    BY <1>9 DEF ServerInitx, ServerGetxx, Arrived, envVars
  <2>2. PICK g \in Host : \E m : toClient' = Send(toClient, g, m)
    <3>1. CASE ServerInitx(h)
      BY <3>1 DEF ServerInitx
    <3>2. CASE ServerGetxx(h)
      <4>1. CASE Head(toServer[h]).sid \notin DOMAIN valuesMap
        BY <3>2, <4>1 DEF ServerGetxx
      <4>2. CASE Head(toServer[h]).sid \in DOMAIN valuesMap
        <5>1. valuesMap[Head(toServer[h]).sid].ip \in Host
          BY <4>2 DEF TypeOK, MessageValues
        <5> QED BY <3>2, <4>2, <5>1 DEF ServerGetxx
      <4> QED BY <4>1, <4>2
    <3> QED BY <1>9, <3>1, <3>2
  <2>3. PICK m : toClient' = Send(toClient, g, m)
    BY <2>2
  <2>4. /\ Len(toServer'[h]) = Len(toServer[h]) + (-1)
        /\ \A k \in Host \ {h} : toServer'[k] = toServer[k]
    <3>1. Len(toServer[h]) \in Nat
      BY <1>t
    <3>2. toServer'[h] = Tail(toServer[h]) /\ \A k \in Host \ {h} : toServer'[k] = toServer[k]
      BY <1>t, <2>1 DEF Take
    <3>3. toServer[h] \in Seq(Request) /\ toServer[h] # <<>>
      BY <1>t, <2>1
    <3>4. Len(Tail(toServer[h])) = Len(toServer[h]) - 1
      BY <3>3
    <3> QED BY <2>1, <3>1, <3>2, <3>4
  <2>5. /\ Len(toClient'[g]) = Len(toClient[g]) + 1
        /\ \A k \in Host \ {g} : toClient'[k] = toClient[k]
    <3>1. toClient'[g] = Append(toClient[g], m) /\ \A k \in Host \ {g} : toClient'[k] = toClient[k]
      BY <1>t, <2>3 DEF Send
    <3>2. Len(Append(toClient[g], m)) = Len(toClient[g]) + 1
      BY <1>t
    <3> QED BY <3>1, <3>2
  <2>6. Allowed + (-1) + 1 \in Nat /\ AtMost(Width', Allowed + (-1) + 1)
    BY <1>c, <2>4, <2>5, WidthStep
  <2>7. Allowed + (-1) + 1 = Allowed
    BY <1>c
  <2> QED BY <1>3, <2>1, <2>6, <2>7
<1>10. ASSUME NEW h \in Host, NEW k \in {"lose", "duplicate", "reorder"}, Network(h, k)
       PROVE  AmpInv'
  <2> DEFINE d == CASE k = "lose" -> -1 [] k = "duplicate" -> 1 [] k = "reorder" -> 0
  <2>1. Fault(k) /\ k \in FaultKind
    BY <1>10 DEF Network, FaultKind
  <2>2. Runs' = Runs /\ Allowed' = IF k = "duplicate" THEN Allowed + 1 ELSE Allowed
    BY <1>5, <2>1
  <2>3. d \in {-1, 0, 1} /\ Allowed + d <= Allowed'
    BY <1>c, <2>2
  <2>4. AtMost(Width', Allowed + d) /\ Allowed + d \in Nat
    <3>1. CASE Len(toServer[h]) >= Needs(k)
               /\ toServer' = [toServer EXCEPT ![h] = Disturbed(@, k)] /\ UNCHANGED toClient
      <4>1. /\ toServer'[h] = Disturbed(toServer[h], k)
            /\ \A j \in Host \ {h} : toServer'[j] = toServer[j]
        BY <1>t, <3>1
      <4>2. toServer[h] \in Seq(Request)
        BY <1>t
      <4>3. Len(Disturbed(toServer[h], k)) = Len(toServer[h]) + d
        BY <3>1, <4>2, DisturbedLength
      <4>4. Len(toClient'[h]) = Len(toClient[h]) + 0
        <5>1. Len(toClient[h]) \in Nat
          BY <1>t
        <5> QED BY <3>1, <5>1
      <4> HIDE DEF d
      <4>5. Allowed + d + 0 \in Nat /\ AtMost(Width', Allowed + d + 0)
        BY <1>c, <2>3, <3>1, <4>1, <4>3, <4>4, WidthStep
      <4>6. Allowed + d + 0 = Allowed + d
        BY <1>c, <2>3
      <4> QED BY <4>5, <4>6
    <3>2. CASE Len(toClient[h]) >= Needs(k)
               /\ toClient' = [toClient EXCEPT ![h] = Disturbed(@, k)] /\ UNCHANGED toServer
      <4>1. /\ toClient'[h] = Disturbed(toClient[h], k)
            /\ \A j \in Host \ {h} : toClient'[j] = toClient[j]
        BY <1>t, <3>2
      <4>2. toClient[h] \in Seq(Reply)
        BY <1>t
      <4>3. Len(Disturbed(toClient[h], k)) = Len(toClient[h]) + d
        BY <3>2, <4>2, DisturbedLength
      <4>4. Len(toServer'[h]) = Len(toServer[h]) + 0
        <5>1. Len(toServer[h]) \in Nat
          BY <1>t
        <5> QED BY <3>2, <5>1
      <4> HIDE DEF d
      <4>5. Allowed + 0 + d \in Nat /\ AtMost(Width', Allowed + 0 + d)
        BY <1>c, <2>3, <3>2, <4>1, <4>3, <4>4, WidthStep
      <4>6. Allowed + 0 + d = Allowed + d
        BY <1>c, <2>3
      <4> QED BY <4>5, <4>6
    <3> QED BY <1>10, <3>1, <3>2 DEF Network
  <2>5. Allowed' \in Nat
    BY <1>c, <2>2
  <2>6. AtMost(Width', Allowed')
    <3>1. Cardinality(Tokens(Width')) \in Nat
      BY <2>4, FS_CardinalityType DEF AtMost
    <3> HIDE DEF d
    <3> QED BY <1>c, <2>3, <2>4, <2>5, <3>1 DEF AtMost
  <2> QED BY <1>c, <2>2, <2>5, <2>6 DEF AmpInv
<1>11. CASE ServerRestart
  <2>1. Fault("restart") /\ "restart" \in FaultKind /\ toClient' = toClient
    BY <1>11, <1>f DEF ServerRestart
  <2>2. Runs' = Runs /\ Allowed' = Allowed
    BY <1>5, <2>1
  <2>3. \A h \in Host : Len(toServer'[h]) <= Len(toServer[h])
    <3>1. \A h \in Host : toServer'[h] = <<>> \/ toServer'[h] = toServer[h]
      BY <1>11 DEF ServerRestart
    <3>2. \A h \in Host : Len(toServer[h]) \in Nat /\ Len(<<>>) = 0
      BY <1>t
    <3> QED BY <3>1, <3>2
  <2>4. \A p \in Pipe : Width'[p] <= Width[p] /\ Width'[p] \in Nat /\ Width[p] \in Nat
    <3>1. \A h \in Host : /\ Len(toServer'[h]) \in Nat /\ Len(toServer[h]) \in Nat
                          /\ Len(toClient[h]) \in Nat
      BY <1>t
    <3> QED BY <2>1, <2>3, <3>1 DEF Width, Pipe
  <2>5. Tokens(Width') \subseteq Tokens(Width)
    <3> SUFFICES ASSUME NEW x \in {"up", "down"} \X Host \X Nat, x[3] \in 1..Width'[<<x[1], x[2]>>]
                 PROVE  x[3] \in 1..Width[<<x[1], x[2]>>]
      BY DEF Tokens
    <3>1. <<x[1], x[2]>> \in Pipe
      BY DEF Pipe
    <3> QED BY <2>4, <3>1
  <2>6. AtMost(Width', Allowed)
    <3>1. /\ IsFiniteSet(Tokens(Width)) /\ Cardinality(Tokens(Width)) <= Allowed
          /\ Cardinality(Tokens(Width)) \in Nat
      BY <1>c, FS_CardinalityType DEF AtMost
    <3>2. IsFiniteSet(Tokens(Width')) /\ Cardinality(Tokens(Width')) <= Cardinality(Tokens(Width))
      BY <2>5, <3>1, FS_Subset
    <3>3. Cardinality(Tokens(Width')) \in Nat
      BY <3>2, FS_CardinalityType
    <3> QED BY <1>c, <3>1, <3>2, <3>3 DEF AtMost
  <2> QED BY <1>c, <2>2, <2>6 DEF AmpInv
<1>12. ASSUME NEW h \in Host, SecondClient(h) PROVE AmpInv'
  <2>1. PICK f \in Name, arg \in ChunkArg : toServer' = Send(toServer, h, Initx(Capped(arg), f))
    BY <1>12 DEF SecondClient
  <2>2. Fault("second") /\ toClient' = toClient
    BY <1>12 DEF SecondClient
  <2>3. Initx(Capped(arg), f) \in Request
    BY CappedType DEF Initx, Request
  <2>4. /\ Len(toServer'[h]) = Len(toServer[h]) + 1 /\ Len(toClient'[h]) = Len(toClient[h]) + 0
        /\ \A k \in Host \ {h} : toServer'[k] = toServer[k] /\ toClient'[k] = toClient[k]
    <3>1. Len(toClient[h]) \in Nat
      BY <1>t
    <3>2. toServer'[h] = Append(toServer[h], Initx(Capped(arg), f))
          /\ \A k \in Host \ {h} : toServer'[k] = toServer[k]
      BY <1>t, <2>1 DEF Send
    <3>3. Len(Append(toServer[h], Initx(Capped(arg), f))) = Len(toServer[h]) + 1
      BY <1>t, <2>3
    <3> QED BY <2>2, <3>1, <3>2, <3>3
  <2>5. Allowed + 1 + 0 \in Nat /\ AtMost(Width', Allowed + 1 + 0)
    BY <1>c, <2>4, WidthStep
  <2>6. Runs' = Runs /\ Allowed' = Allowed + 1 /\ Allowed + 1 + 0 = Allowed + 1
    BY <1>5, <1>c, <1>f, <2>2
  <2> QED BY <1>c, <2>5, <2>6 DEF AmpInv
<1>13. ASSUME NEW h \in Host, Kill(h) PROVE AmpInv'
  <2>1. Fault("kill") /\ toClient' = toClient /\ toServer' = toServer
    BY <1>13 DEF Kill
  <2>2. Runs' = Runs /\ Allowed' = Allowed /\ Width' = Width
    BY <1>5, <1>f, <2>1 DEF Width
  <2> QED BY <1>c, <2>2 DEF AmpInv
<1>14. CASE UNCHANGED vars
  <2>1. faults' = faults /\ starts' = starts /\ Width' = Width
    BY <1>14 DEF vars, envVars, Width
  <2> QED BY <1>3, <1>c, <2>1
<1> QED BY <1>6, <1>7, <1>8, <1>9, <1>10, <1>11, <1>12, <1>13, <1>14
        DEF Next, ClientReceive, ServerReceive

\* Neither side answers a datagram with two: however many hosts there are, and
\* whatever is lost, repeated or restarted, what is under way goes back to a start
\* of a client or to a duplication of its own.
THEOREM NoAmplificationAlways == Spec => []NoAmplification
<1>1. Init => AmpInv
  <2> SUFFICES ASSUME Init PROVE AmpInv
    OBVIOUS
  <2>1. Runs = {}
    <3>1. \A h \in Host : starts[h] = 0
      BY DEF Init
    <3> QED BY <3>1 DEF Runs
  <2>2. IsFiniteSet({}) /\ Cardinality({}) = 0
    BY FS_EmptySet
  <2>3. Allowed = 0
    BY <2>1, <2>2 DEF Allowed, Init, FaultKind
  <2>4. Tokens(Width) = {}
    <3>1. \A p \in Pipe : Width[p] = 0
      BY DEF Init, Width, Pipe
    <3>2. \A x \in {"up", "down"} \X Host \X Nat : <<x[1], x[2]>> \in Pipe
      BY DEF Pipe
    <3> QED BY <3>1, <3>2 DEF Tokens
  <2> QED BY <2>1, <2>2, <2>3, <2>4 DEF AmpInv, AtMost
<1>2. TypeOK /\ TypeOK' /\ AmpInv /\ [Next]_vars => AmpInv'
  BY AmpStep
<1>3. TypeOK /\ AmpInv => NoAmplification
  BY UnderWayTokens DEF AmpInv, AtMost, Allowed, NoAmplification
<1> QED BY <1>1, <1>2, <1>3, TypeCorrect, PTL DEF Spec

-----------------------------------------------------------------------------
(* What is under way for a host, in the order in which it will be handled:  *)
(* the datagrams to the client first, then those to the server.             *)

\* The datagrams of a queue.
Els(q) == {q[i] : i \in 1..Len(q)}

\* Relation T holds between every datagram of q and those that are not before it.
Ordered(T, q) == \A i, j \in 1..Len(q) : i <= j => <<q[i], q[j]>> \in T
Flow(T, p, q) ==
  Ordered(T, p) /\ Ordered(T, q) /\ \A x \in Els(p), y \in Els(q) : <<x, y>> \in T

LEMMA ElsEmpty ==
  /\ Els(<<>>) = {}
  /\ \A T : Ordered(T, <<>>)
BY DEF Els, Ordered

LEMMA ElsTail ==
  ASSUME NEW S, NEW q \in Seq(S), q # <<>>
  PROVE  /\ Tail(q) \in Seq(S) /\ Head(q) \in S
         /\ Els(q) = {Head(q)} \cup Els(Tail(q))
         /\ Els(q) \subseteq S
<1>1. /\ Tail(q) \in Seq(S) /\ Len(Tail(q)) = Len(q) - 1
      /\ \A i \in 1..Len(Tail(q)) : Tail(q)[i] = q[i + 1]
      /\ Head(q) = q[1] /\ Len(q) \in Nat /\ Len(q) # 0
  BY HeadTailProperties, EmptySeq
<1> DEFINE l == Len(q)
<1>2. /\ 1 \in 1..l /\ (\A i \in 1..(l - 1) : i + 1 \in 1..l)
      /\ \A i \in 1..l : i = 1 \/ (i - 1 \in 1..(l - 1) /\ (i - 1) + 1 = i)
  <2>1. l \in Nat /\ l # 0
    BY <1>1
  <2> HIDE DEF l
  <2> QED BY <2>1
<1>3. \A x \in Els(Tail(q)) : x \in Els(q)
  BY <1>1, <1>2 DEF Els
<1>4. Head(q) \in Els(q)
  BY <1>1, <1>2 DEF Els
<1>5. ASSUME NEW x \in Els(q) PROVE x = Head(q) \/ x \in Els(Tail(q))
  <2>1. PICK i \in 1..l : x = q[i]
    BY DEF Els
  <2>2. CASE i = 1
    BY <1>1, <2>1, <2>2
  <2>3. CASE i # 1
    <3>1. i - 1 \in 1..Len(Tail(q)) /\ (i - 1) + 1 = i
      BY <1>1, <1>2, <2>1, <2>3
    <3>2. Tail(q)[i - 1] = x
      BY <1>1, <2>1, <3>1
    <3> QED BY <3>1, <3>2 DEF Els
  <2> QED BY <2>2, <2>3
<1>6. \A i \in 1..l : q[i] \in S
  BY LenProperties, ElementOfSeq
<1> QED BY <1>1, <1>3, <1>4, <1>5, <1>6 DEF Els

LEMMA ElsAppend ==
  ASSUME NEW S, NEW q \in Seq(S), NEW m \in S
  PROVE  /\ Append(q, m) \in Seq(S)
         /\ Els(Append(q, m)) = Els(q) \cup {m}
         /\ Els(q) \subseteq S
<1>1. /\ Len(Append(q, m)) = Len(q) + 1 /\ Len(q) \in Nat
      /\ \A i \in 1..Len(q) : Append(q, m)[i] = q[i]
      /\ Append(q, m)[Len(q) + 1] = m
      /\ Append(q, m) \in Seq(S)
  BY AppendProperties, LenProperties
<1> DEFINE l == Len(q)
<1>2. /\ \A i \in 1..(l + 1) : i \in 1..l \/ i = l + 1
      /\ \A i \in 1..l : i \in 1..(l + 1)
      /\ l + 1 \in 1..(l + 1)
  <2>1. l \in Nat
    BY <1>1
  <2> HIDE DEF l
  <2> QED BY <2>1
<1>3. \A i \in 1..l : q[i] \in S
  BY LenProperties, ElementOfSeq
<1> QED BY <1>1, <1>2, <1>3 DEF Els

LEMMA OrderedTail ==
  ASSUME NEW T, NEW S, NEW q \in Seq(S), q # <<>>, Ordered(T, q)
  PROVE  /\ Ordered(T, Tail(q))
         /\ \A y \in Els(q) : <<Head(q), y>> \in T
<1>1. /\ Len(Tail(q)) = Len(q) - 1
      /\ \A i \in 1..Len(Tail(q)) : Tail(q)[i] = q[i + 1]
      /\ Head(q) = q[1] /\ Len(q) \in Nat /\ Len(q) # 0
  BY HeadTailProperties, EmptySeq
<1> DEFINE l == Len(q)
<1>2. /\ 1 \in 1..l /\ (\A i \in 1..(l - 1) : i + 1 \in 1..l)
      /\ \A i \in 1..l : 1 <= i
      /\ \A i, j \in 1..(l - 1) : i <= j => i + 1 <= j + 1
  <2>1. l \in Nat /\ l # 0
    BY <1>1
  <2> HIDE DEF l
  <2> QED BY <2>1
<1>3. Ordered(T, Tail(q))
  BY <1>1, <1>2 DEF Ordered
<1>4. \A y \in Els(q) : <<Head(q), y>> \in T
  BY <1>1, <1>2 DEF Ordered, Els
<1> QED BY <1>3, <1>4

LEMMA OrderedAppend ==
  ASSUME NEW T, NEW S, NEW q \in Seq(S), NEW m \in S, Ordered(T, q), <<m, m>> \in T,
         \A x \in Els(q) : <<x, m>> \in T
  PROVE  Ordered(T, Append(q, m))
<1>1. /\ Len(Append(q, m)) = Len(q) + 1 /\ Len(q) \in Nat
      /\ \A i \in 1..Len(q) : Append(q, m)[i] = q[i]
      /\ Append(q, m)[Len(q) + 1] = m
  BY AppendProperties, LenProperties
<1> DEFINE l == Len(q)
<1>2. /\ \A i \in 1..(l + 1) : i \in 1..l \/ i = l + 1
      /\ \A j \in 1..l : ~(l + 1 <= j)
  <2>1. l \in Nat
    BY <1>1
  <2> HIDE DEF l
  <2> QED BY <2>1
<1>3. \A i \in 1..l : <<q[i], m>> \in T
  BY DEF Els
<1>4. \A i, j \in 1..l : i <= j => <<q[i], q[j]>> \in T
  BY DEF Ordered
<1> HIDE DEF l
<1>5. SUFFICES ASSUME NEW i \in 1..(l + 1), NEW j \in 1..(l + 1), i <= j
               PROVE  <<Append(q, m)[i], Append(q, m)[j]>> \in T
  BY <1>1 DEF Ordered, l
<1>6. CASE j = l + 1
  BY <1>1, <1>2, <1>3, <1>6 DEF l
<1>7. CASE j # l + 1
  BY <1>1, <1>2, <1>4, <1>5, <1>7 DEF l
<1> QED BY <1>6, <1>7

LEMMA ElsDisturbed ==
  ASSUME NEW S, NEW q \in Seq(S), NEW k \in {"lose", "duplicate"}, Len(q) >= Needs(k)
  PROVE  /\ Disturbed(q, k) \in Seq(S)
         /\ Els(Disturbed(q, k)) \subseteq Els(q)
         /\ k = "duplicate" => Els(Disturbed(q, k)) = Els(q)
         /\ \A T : Ordered(T, q) => Ordered(T, Disturbed(q, k))
         /\ q # <<>> /\ (k = "lose" => Disturbed(q, k) = Tail(q))
<1>1. Len(q) >= 1 /\ q # <<>>
  BY DEF Needs
<1>2. CASE k = "lose"
  <2>1. Disturbed(q, k) = Tail(q)
    BY <1>2 DEF Disturbed
  <2>2. /\ Tail(q) \in Seq(S) /\ Els(Tail(q)) \subseteq Els(q)
        /\ \A T : Ordered(T, q) => Ordered(T, Tail(q))
    BY <1>1, ElsTail, OrderedTail
  <2> QED BY <1>1, <1>2, <2>1, <2>2
<1>3. CASE k = "duplicate"
  <2> DEFINE d == <<Head(q)>> \o q
  <2> DEFINE l == Len(q)
  <2>1. Disturbed(q, k) = d
    BY <1>3 DEF Disturbed
  <2>2. Head(q) \in S /\ Head(q) = q[1]
    BY <1>1
  <2>3. /\ d \in Seq(S) /\ Len(d) = l + 1 /\ l \in Nat /\ l >= 1
        /\ \A i \in 1..(l + 1) : d[i] = IF i = 1 THEN q[1] ELSE q[i - 1]
    BY <1>1, <2>2
  <2>4. /\ \A i \in 1..l : i + 1 \in 1..(l + 1) /\ i + 1 # 1 /\ (i + 1) - 1 = i
        /\ \A i \in 1..(l + 1) : i # 1 => i - 1 \in 1..l
        /\ \A i \in 1..l : 1 <= i
        /\ 1 \in 1..l /\ 1 \in 1..(l + 1)
        /\ \A i, j \in 1..(l + 1) : i # 1 /\ i <= j => j # 1 /\ i - 1 <= j - 1
    <3> HIDE DEF d, l
    <3> QED BY <2>3
  <2> HIDE DEF d
  <2>5. \A i \in 1..l : d[i + 1] = q[i]
    BY <2>3, <2>4
  <2>6. Els(d) = Els(q)
    <3>1. \A x \in Els(d) : x \in Els(q)
      BY <2>3, <2>4 DEF Els
    <3>2. ASSUME NEW x \in Els(q) PROVE x \in Els(d)
      <4>1. PICK i \in 1..l : x = q[i]
        BY DEF Els
      <4>2. i + 1 \in 1..Len(d) /\ d[i + 1] = x
        BY <2>3, <2>4, <2>5, <4>1
      <4> QED BY <4>2 DEF Els
    <3> QED BY <3>1, <3>2
  <2>7. ASSUME NEW T, Ordered(T, q) PROVE Ordered(T, d)
    <3>1. \A i, j \in 1..l : i <= j => <<q[i], q[j]>> \in T
      BY <2>7 DEF Ordered
    <3>2. SUFFICES ASSUME NEW i \in 1..(l + 1), NEW j \in 1..(l + 1), i <= j
                   PROVE  <<d[i], d[j]>> \in T
      BY <2>3 DEF Ordered
    <3> HIDE DEF l
    <3>3. CASE i = 1 /\ j = 1
      BY <2>3, <2>4, <3>1, <3>3
    <3>4. CASE i = 1 /\ j # 1
      <4>1. d[i] = q[1] /\ d[j] = q[j - 1] /\ j - 1 \in 1..l /\ 1 <= j - 1
        BY <2>3, <2>4, <3>4
      <4> QED BY <2>4, <3>1, <4>1
    <3>5. CASE i # 1
      <4>1. d[i] = q[i - 1] /\ d[j] = q[j - 1] /\ i - 1 \in 1..l /\ j - 1 \in 1..l /\ i - 1 <= j - 1
        BY <2>3, <2>4, <3>2, <3>5
      <4> QED BY <3>1, <4>1
    <3> QED BY <3>3, <3>4, <3>5
  <2> QED BY <1>1, <1>3, <2>1, <2>3, <2>6, <2>7
<1> QED BY <1>2, <1>3

\* The client takes the first datagram, the client sends one, and the server
\* answers the first datagram it has with m.
LEMMA FlowTake ==
  ASSUME NEW T, NEW A, NEW p \in Seq(A), NEW q, p # <<>>, Flow(T, p, q)
  PROVE  /\ Flow(T, Tail(p), q)
         /\ \A y \in Els(Tail(p)) \cup Els(q) : <<Head(p), y>> \in T
<1>1. Els(p) = {Head(p)} \cup Els(Tail(p))
  BY ElsTail
<1>2. Ordered(T, Tail(p)) /\ \A y \in Els(p) : <<Head(p), y>> \in T
  BY OrderedTail DEF Flow
<1> QED BY <1>1, <1>2 DEF Flow

LEMMA FlowSend ==
  ASSUME NEW T, NEW B, NEW p, NEW q \in Seq(B), NEW m \in B, Flow(T, p, q), <<m, m>> \in T,
         \A x \in Els(p) \cup Els(q) : <<x, m>> \in T
  PROVE  Flow(T, p, Append(q, m))
<1>1. Els(Append(q, m)) = Els(q) \cup {m}
  BY ElsAppend
<1>2. Ordered(T, Append(q, m))
  BY OrderedAppend DEF Flow
<1> QED BY <1>1, <1>2 DEF Flow

LEMMA FlowAnswer ==
  ASSUME NEW T, NEW A, NEW B, NEW p \in Seq(A), NEW q \in Seq(B), NEW m \in A,
         q # <<>>, Flow(T, p, q), <<m, m>> \in T,
         \A x \in Els(p) : <<x, Head(q)>> \in T => <<x, m>> \in T,
         \A y \in Els(Tail(q)) : <<Head(q), y>> \in T => <<m, y>> \in T
  PROVE  Flow(T, Append(p, m), Tail(q))
<1>1. Els(Append(p, m)) = Els(p) \cup {m} /\ Els(q) = {Head(q)} \cup Els(Tail(q))
  BY ElsAppend, ElsTail
<1>2. Ordered(T, Tail(q)) /\ \A y \in Els(Tail(q)) : <<Head(q), y>> \in T
  BY <1>1, OrderedTail DEF Flow
<1>3. Ordered(T, Append(p, m))
  BY <1>1, OrderedAppend DEF Flow
<1> QED BY <1>1, <1>2, <1>3 DEF Flow

LEMMA FlowDisturbed ==
  ASSUME NEW T, NEW A, NEW B, NEW p \in Seq(A), NEW q \in Seq(B),
         NEW k \in {"lose", "duplicate"}, Flow(T, p, q)
  PROVE  /\ Len(p) >= Needs(k) => Flow(T, Disturbed(p, k), q)
         /\ Len(q) >= Needs(k) => Flow(T, p, Disturbed(q, k))
BY ElsDisturbed DEF Flow

-----------------------------------------------------------------------------
(* Whose answers a host gets.                                              *)

\* No datagram of the server goes to a host other than the one that asked: there
\* is only one, or all sessions are of the server's present run.
Alone == \A g, h \in Host : g = h
OwnAnswers == faults["restart"] = 0 \/ Alone

\* Every chunk requested in queue q is of a session that answers to h.
Own(V, h, q) ==
  Alone \/ \A m \in Els(q) : m.flag = "GETXX" => m.sid = 0 \/ AnswersTo(V, h, m.sid)

\* No client was ever started on h, and nothing is there for one.
Fresh(h) ==
  /\ pc[h] = "idle" /\ written[h] = <<>> /\ toServer[h] = <<>> /\ toClient[h] = <<>>
  /\ chunkNo[h] = 0 /\ sessionKey[h] = 0
  /\ \A s \in DOMAIN valuesMap : valuesMap[s].ip # h

TidyInv ==
  OwnAnswers => \A h \in Host :
    Own(valuesMap, h, toServer[h]) /\ (starts[h] = 0 => Fresh(h))

StepOf(h) ==
  \/ Start(h) \/ ClientReceive(h) \/ PortClosed(h) \/ ServerReceive(h)
  \/ \E k \in {"lose", "duplicate", "reorder"} : Network(h, k)
  \/ SecondClient(h) \/ Kill(h)

\* A step that host g has no part in.
Aside(g) ==
  /\ Undisturbed(g) /\ starts'[g] = starts[g]
  /\ \A s \in DOMAIN valuesMap' : valuesMap'[s].ip = g =>
       s \in DOMAIN valuesMap /\ valuesMap'[s] = valuesMap[s]

LEMMA FaultCounts ==
  ASSUME TypeOK, NEW k \in FaultKind, Fault(k)
  PROVE  /\ faults[k] \in Nat /\ faults'[k] = faults[k] + 1 /\ faults'[k] # 0
         /\ \A j \in FaultKind \ {k} : faults'[j] = faults[j]
         /\ starts' = starts
<1>1. /\ faults[k] \in Nat /\ faults'[k] = faults[k] + 1 /\ starts' = starts
      /\ \A j \in FaultKind \ {k} : faults'[j] = faults[j]
  BY DEF TypeOK, Fault
<1>2. faults'[k] # 0
  BY <1>1
<1> QED BY <1>1, <1>2

\* What the server does with a datagram of host h, if the session asked for is one
\* of h's own: the answer goes to h, and it has the number that was asked for.
LEMMA ServerStep ==
  ASSUME TypeOK, NEW h \in Host, Own(valuesMap, h, toServer[h]), ServerReceive(h)
  PROVE  /\ toServer[h] # <<>> /\ toServer' = Take(toServer, h)
         /\ UNCHANGED clientVars /\ UNCHANGED envVars
         /\ \A s \in DOMAIN valuesMap :
              s \in DOMAIN valuesMap' /\ valuesMap'[s].ip = valuesMap[s].ip
         /\ \A g \in Host \ {h} : Aside(g)
         /\ \E r \in Reply : /\ toClient' = Send(toClient, h, r)
                             /\ r.flag = "DATAX" => /\ Head(toServer[h]).flag = "GETXX"
                                                    /\ r.n = Head(toServer[h]).n
                                                    /\ r.data.n = r.n
<1> DEFINE m == Head(toServer[h])
<1>t. /\ toServer \in [Host -> Seq(Request)] /\ toClient \in [Host -> Seq(Reply)]
      /\ DOMAIN valuesMap \subseteq 1..sid /\ sid \in Nat
      /\ \A s \in DOMAIN valuesMap : valuesMap[s] \in MessageValues
  BY DEF TypeOK
<1>1. /\ toServer[h] # <<>> /\ toServer' = Take(toServer, h)
      /\ UNCHANGED clientVars /\ UNCHANGED envVars
  BY DEF ServerReceive, ServerInitx, ServerGetxx, Arrived
<1>2. m \in Els(toServer[h]) /\ m \in Request
  BY <1>t, <1>1, ElsTail
<1>3. \A g \in Host \ {h} : toServer'[g] = toServer[g]
  BY <1>t, <1>1 DEF Take
<1>4. ASSUME NEW r \in Reply, toClient' = Send(toClient, h, r), NEW g \in Host \ {h},
             \A s \in DOMAIN valuesMap : valuesMap[s].ip = g =>
               s \in DOMAIN valuesMap' /\ valuesMap'[s] = valuesMap[s],
             \A s \in DOMAIN valuesMap' : valuesMap'[s].ip = g =>
               s \in DOMAIN valuesMap /\ valuesMap'[s] = valuesMap[s]
      PROVE  Aside(g)
  <2>1. toClient'[g] = toClient[g]
    BY <1>t, <1>4 DEF Send
  <2> QED BY <1>1, <1>3, <1>4, <2>1 DEF Aside, Undisturbed, clientVars, envVars
<1>5. CASE ServerInitx(h)
  <2>1. CASE m.name \in DOMAIN Size
    <3>1. toClient' = Send(toClient, h, Sidxx(sid + 1))
          /\ DOMAIN valuesMap' = DOMAIN valuesMap \cup {sid + 1}
          /\ valuesMap'[sid + 1].ip = h
          /\ \A s \in DOMAIN valuesMap : s # sid + 1 => valuesMap'[s] = valuesMap[s]
      BY <1>5, <2>1 DEF ServerInitx, NextSid
    <3>2. sid + 1 \notin DOMAIN valuesMap
      BY <1>t
    <3>3. Sidxx(sid + 1) \in Reply /\ Sidxx(sid + 1).flag # "DATAX"
      BY <1>t, Fields DEF Reply, Sidxx
    <3>4. \A g \in Host \ {h} : Aside(g)
      BY <1>4, <3>1, <3>2, <3>3
    <3> QED BY <1>1, <3>1, <3>2, <3>3, <3>4
  <2>2. CASE m.name \notin DOMAIN Size
    <3>1. toClient' = Send(toClient, h, Error("FNF")) /\ valuesMap' = valuesMap
      BY <1>5, <2>2 DEF ServerInitx, NextSid
    <3>2. Error("FNF") \in Reply /\ Error("FNF").flag # "DATAX"
      BY DEF Reply, Error
    <3>3. \A g \in Host \ {h} : Aside(g)
      BY <1>4, <3>1, <3>2
    <3> QED BY <1>1, <3>1, <3>2, <3>3
  <2> QED BY <2>1, <2>2
<1>6. CASE ServerGetxx(h)
  <2>1. m.flag = "GETXX" /\ m.n \in Nat
    <3>1. m.flag = "GETXX"
      BY <1>6 DEF ServerGetxx, Arrived
    <3> QED BY <1>2, <3>1 DEF Request
  <2>2. CASE m.sid \notin DOMAIN valuesMap
    <3>1. toClient' = Send(toClient, h, Error("NOS")) /\ valuesMap' = valuesMap
      BY <1>6, <2>2 DEF ServerGetxx
    <3>2. Error("NOS") \in Reply /\ Error("NOS").flag # "DATAX"
      BY DEF Reply, Error
    <3>3. \A g \in Host \ {h} : Aside(g)
      BY <1>4, <3>1, <3>2
    <3> QED BY <1>1, <3>1, <3>2, <3>3
  <2>3. CASE m.sid \in DOMAIN valuesMap
    <3> DEFINE mv == valuesMap[m.sid]
    <3> DEFINE len == ChunkLen(mv.file, mv.size, m.n)
    <3> DEFINE data == Datax(m.n, len, Chunk(mv.file, mv.size, m.n))
    <3>1. mv \in MessageValues /\ mv.ip \in Host /\ mv.file \in DOMAIN Size /\ mv.size \in ChunkSizes
      BY <1>t, <2>3 DEF MessageValues
    <3>2. mv.ip = h
      <4>1. CASE Alone
        BY <3>1, <4>1 DEF Alone
      <4>2. CASE ~Alone
        <5>1. m.sid # 0
          BY <1>t, <2>3
        <5> QED BY <1>2, <2>1, <4>2, <5>1 DEF Own, AnswersTo
      <4> QED BY <4>1, <4>2
    <3>3. len \in Nat
      BY <2>1, <3>1, ChunkLenType
    <3>4. data \in Reply /\ data.n = m.n /\ data.data.n = m.n
      BY <2>1, <3>1, <3>3 DEF Reply, Datax, Chunk, ChunkSet
    <3>5. Error("CNF") \in Reply /\ Error("CNF").flag # "DATAX"
      BY DEF Reply, Error
    <3>6. toClient' = Send(toClient, h, IF mv.cnf THEN Error("CNF") ELSE data)
          /\ valuesMap' = [valuesMap EXCEPT ![m.sid].cnf = @ \/ Short(len, mv.size)]
      BY <1>6, <2>3, <3>2 DEF ServerGetxx
    <3>7. /\ DOMAIN valuesMap' = DOMAIN valuesMap
          /\ \A s \in DOMAIN valuesMap : s # m.sid => valuesMap'[s] = valuesMap[s]
          /\ valuesMap'[m.sid].ip = h
      <4>1. valuesMap'[m.sid] = [mv EXCEPT !.cnf = @ \/ Short(len, mv.size)]
        BY <2>3, <3>6
      <4>2. [mv EXCEPT !.cnf = @ \/ Short(len, mv.size)].ip = mv.ip
        BY <3>1 DEF MessageValues
      <4>3. /\ DOMAIN valuesMap' = DOMAIN valuesMap
            /\ \A s \in DOMAIN valuesMap : s # m.sid => valuesMap'[s] = valuesMap[s]
        BY <2>3, <3>6
      <4> QED BY <3>2, <4>1, <4>2, <4>3
    <3>8. \A s \in DOMAIN valuesMap :
            s \in DOMAIN valuesMap' /\ valuesMap'[s].ip = valuesMap[s].ip
      BY <3>2, <3>7
    <3>9. PICK r \in Reply : toClient' = Send(toClient, h, r) /\ (r = data \/ r.flag # "DATAX")
      <4> HIDE DEF data
      <4>1. CASE mv.cnf
        BY <3>5, <3>6, <4>1
      <4>2. CASE ~mv.cnf
        BY <3>4, <3>6, <4>2
      <4> QED BY <4>1, <4>2
    <3>10. r.flag = "DATAX" => r.n = m.n /\ r.data.n = r.n
      <4> HIDE DEF data
      <4> QED BY <3>4, <3>9
    <3>11. \A g \in Host \ {h} : Aside(g)
      BY <1>4, <3>2, <3>7, <3>9
    <3> QED BY <1>1, <2>1, <3>8, <3>9, <3>10, <3>11
  <2> QED BY <2>2, <2>3
<1> QED BY <1>5, <1>6 DEF ServerReceive

\* What a client does with the datagrams to its port, and what a fault does to h.
LEMMA ClientStep ==
  ASSUME TypeOK, NEW h \in Host, ClientReceive(h)
  PROVE  /\ pc[h] = "running" /\ toClient[h] # <<>> /\ toClient' = Take(toClient, h)
         /\ UNCHANGED serverVars /\ UNCHANGED envVars /\ UNCHANGED <<name, chunksize>>
         /\ \A g \in Host \ {h} : Aside(g)
<1>1. /\ pc[h] = "running" /\ toClient[h] # <<>> /\ toClient' = Take(toClient, h)
      /\ UNCHANGED serverVars /\ UNCHANGED envVars /\ UNCHANGED <<name, chunksize>>
  BY DEF ClientReceive, ClientError, ClientSid, ClientData, ClientReceives, Arrived
<1>2. \A g \in Host \ {h} :
        /\ pc'[g] = pc[g] /\ chunkNo'[g] = chunkNo[g] /\ sessionKey'[g] = sessionKey[g]
        /\ written'[g] = written[g]
  BY DEF ClientReceive, ClientError, ClientSid, ClientData, TypeOK
<1>3. toServer' = toServer \/ \E m : toServer' = Send(toServer, h, m)
  BY DEF ClientReceive, ClientError, ClientSid, ClientData
<1>4. \A g \in Host \ {h} : toServer'[g] = toServer[g] /\ toClient'[g] = toClient[g]
  BY <1>1, <1>3 DEF Send, Take, TypeOK
<1> QED BY <1>1, <1>2, <1>4 DEF Aside, Undisturbed, serverVars, envVars

LEMMA OthersAside ==
  ASSUME TypeOK, NEW h \in Host, Own(valuesMap, h, toServer[h]), StepOf(h)
  PROVE  \A g \in Host \ {h} : Aside(g)
<1>1. CASE Start(h)
  <2>1. valuesMap' = valuesMap /\ toClient' = toClient /\ written' = written
    BY <1>1 DEF Start, serverVars
  <2>2. \A g \in Host \ {h} :
          /\ pc'[g] = pc[g] /\ name'[g] = name[g] /\ chunksize'[g] = chunksize[g]
          /\ chunkNo'[g] = chunkNo[g] /\ sessionKey'[g] = sessionKey[g] /\ starts'[g] = starts[g]
          /\ toServer'[g] = toServer[g]
    BY <1>1 DEF Start, Send, TypeOK
  <2> QED BY <2>1, <2>2 DEF Aside, Undisturbed
<1>2. CASE PortClosed(h)
  <2>1. UNCHANGED <<clientVars, serverVars, toServer, envVars>>
        /\ \A g \in Host \ {h} : toClient'[g] = toClient[g]
    BY <1>2 DEF PortClosed, Take, TypeOK
  <2> QED BY <2>1 DEF Aside, Undisturbed, clientVars, serverVars, envVars
<1>3. ASSUME NEW k \in {"lose", "duplicate", "reorder"}, Network(h, k)
      PROVE  \A g \in Host \ {h} : Aside(g)
  <2>1. UNCHANGED <<clientVars, serverVars, starts>>
    BY <1>3 DEF Network, Fault
  <2>2. \A g \in Host \ {h} : toClient'[g] = toClient[g] /\ toServer'[g] = toServer[g]
    BY <1>3 DEF Network, TypeOK
  <2> QED BY <2>1, <2>2 DEF Aside, Undisturbed, clientVars, serverVars
<1>4. CASE SecondClient(h)
  <2>1. UNCHANGED <<clientVars, serverVars, toClient, starts>>
        /\ \A g \in Host \ {h} : toServer'[g] = toServer[g]
    BY <1>4 DEF SecondClient, Send, Fault, TypeOK
  <2> QED BY <2>1 DEF Aside, Undisturbed, clientVars, serverVars
<1>5. CASE Kill(h)
  <2>1. UNCHANGED <<name, chunksize, chunkNo, sessionKey, written, serverVars,
                 toServer, toClient, starts>>
        /\ \A g \in Host \ {h} : pc'[g] = pc[g]
    BY <1>5 DEF Kill, Fault, TypeOK
  <2> QED BY <2>1 DEF Aside, Undisturbed, serverVars
<1> QED BY <1>1, <1>2, <1>3, <1>4, <1>5, ServerStep, ClientStep DEF StepOf

\* A host without a client yet takes no step but to start one.
LEMMA FreshStep ==
  ASSUME TypeOK, NEW h \in Host, Fresh(h), StepOf(h)
  PROVE  Start(h)
<1>1. pc[h] = "idle" /\ toServer[h] = <<>> /\ toClient[h] = <<>>
  BY DEF Fresh
<1>2. ~ClientReceive(h) /\ ~SecondClient(h) /\ ~Kill(h) /\ ~PortClosed(h) /\ ~ServerReceive(h)
  BY <1>1 DEF ClientReceive, ClientError, ClientSid, ClientData, ClientReceives, SecondClient, Kill,
              PortClosed, ServerReceive, ServerInitx, ServerGetxx, Arrived
<1>3. ASSUME NEW k \in {"lose", "duplicate", "reorder"} PROVE ~Network(h, k)
  <2>1. Len(toServer[h]) = 0 /\ Len(toClient[h]) = 0
    BY <1>1
  <2>2. Needs(k) \in {1, 2}
    BY DEF Needs
  <2> QED BY <2>1, <2>2 DEF Network
<1> QED BY <1>2, <1>3 DEF StepOf

LEMMA TidyStep ==
  ASSUME TypeOK, TypeOK', IsolationInv, TidyInv, [Next]_vars
  PROVE  TidyInv'
<1> SUFFICES ASSUME OwnAnswers' PROVE TidyInv'
  BY DEF TidyInv
<1>t. /\ toServer \in [Host -> Seq(Request)] /\ toClient \in [Host -> Seq(Reply)]
      /\ starts \in [Host -> Nat] /\ sessionKey \in [Host -> Nat] /\ chunkNo \in [Host -> Nat]
      /\ DOMAIN valuesMap \subseteq 1..sid /\ sid \in Nat
  BY DEF TypeOK
<1>1. CASE ServerRestart
  <2>1. Alone /\ Alone'
    <3>1. faults'["restart"] # 0
      BY <1>1, FaultCounts DEF ServerRestart, FaultKind
    <3> QED BY <3>1 DEF OwnAnswers, Alone
  <2>2. starts' = starts /\ DOMAIN valuesMap' = {} /\ UNCHANGED clientVars /\ toClient' = toClient
    BY <1>1 DEF ServerRestart, Fault
  <2>3. \A h \in Host : toServer[h] = <<>> => toServer'[h] = <<>>
    BY <1>1 DEF ServerRestart
  <2>4. \A h \in Host : starts[h] = 0 => Fresh(h)
    BY <2>1 DEF TidyInv, OwnAnswers
  <2> QED BY <2>1, <2>2, <2>3, <2>4 DEF TidyInv, Own, Fresh, clientVars
<1>2. CASE UNCHANGED vars
  BY <1>2 DEF TidyInv, OwnAnswers, Alone, Own, Fresh, AnswersTo, vars, clientVars, serverVars, envVars
<1>3. ASSUME NEW h \in Host, StepOf(h) PROVE TidyInv'
  <2>1. OwnAnswers
    <3>1. \A k \in FaultKind \ {"restart"} : Fault(k) => faults'["restart"] = faults["restart"]
      BY FaultCounts DEF FaultKind
    <3>2. faults' = faults \/ \E k \in FaultKind \ {"restart"} : Fault(k)
      BY <1>3 DEF StepOf, Start, ClientReceive, ClientError, ClientSid, ClientData, PortClosed,
                  ServerReceive, ServerInitx, ServerGetxx, Network, SecondClient, Kill, envVars,
                  FaultKind
    <3> QED BY <3>1, <3>2 DEF OwnAnswers, Alone
  <2>2. \A g \in Host : Own(valuesMap, g, toServer[g]) /\ (starts[g] = 0 => Fresh(g))
    BY <2>1 DEF TidyInv
  <2>3. \A g \in Host \ {h} : Aside(g)
    BY <1>3, <2>2, OthersAside
  <2>4. ASSUME NEW g \in Host \ {h}
        PROVE  Own(valuesMap', g, toServer'[g]) /\ (starts'[g] = 0 => Fresh(g)')
    BY <2>2, <2>3 DEF Aside, Undisturbed, Own, AnswersTo, Fresh
  <2>5. starts'[h] = 0 => Fresh(h)'
    <3> SUFFICES ASSUME starts'[h] = 0 PROVE FALSE
      OBVIOUS
    <3>1. CASE Start(h)
      <4>1. starts'[h] = starts[h] + 1 /\ starts[h] \in Nat
        BY <1>t, <3>1 DEF Start
      <4> QED BY <4>1
    <3>2. CASE ~Start(h)
      <4>1. starts' = starts
        BY <1>3, <3>2 DEF StepOf, ClientReceive, ClientError, ClientSid, ClientData, PortClosed,
                  ServerReceive, ServerInitx, ServerGetxx, Network, SecondClient, Kill, envVars, Fault
      <4> QED BY <1>3, <2>2, <3>2, <4>1, FreshStep
    <3> QED BY <3>1, <3>2
  <2>6. Own(valuesMap', h, toServer'[h])
    <3> SUFFICES ASSUME ~Alone PROVE Own(valuesMap', h, toServer'[h])
      BY DEF Own
    <3>1. /\ sessionKey[h] # 0 => AnswersTo(valuesMap, h, sessionKey[h])
          /\ Announced(valuesMap, h, toClient[h])
      BY <2>1 DEF IsolationInv, OwnAnswers
    <3>2. \A s : AnswersTo(valuesMap, h, s) => AnswersTo(valuesMap', h, s)
      <4>1. CASE ServerReceive(h)
        BY <2>2, <4>1, ServerStep DEF AnswersTo
      <4>2. CASE ~ServerReceive(h)
        <5>1. valuesMap' = valuesMap
          BY <1>3, <4>2 DEF StepOf, Start, ClientReceive, ClientError, ClientSid, ClientData, PortClosed,
                  Network, SecondClient, Kill, serverVars
        <5> QED BY <5>1
      <4> QED BY <4>1, <4>2
    <3>3. ASSUME \A m \in Els(toServer'[h]) \ Els(toServer[h]) :
                   m.flag = "GETXX" => m.sid = 0 \/ AnswersTo(valuesMap, h, m.sid)
          PROVE  Own(valuesMap', h, toServer'[h])
      BY <2>2, <3>2, <3>3 DEF Own
    <3>4. ASSUME NEW m \in Request, toServer' = Send(toServer, h, m),
                 m.flag = "GETXX" => m.sid = 0 \/ AnswersTo(valuesMap, h, m.sid)
          PROVE  Own(valuesMap', h, toServer'[h])
      <4>1. toServer'[h] = Append(toServer[h], m)
        BY <1>t, <3>4 DEF Send
      <4>2. Els(toServer'[h]) = Els(toServer[h]) \cup {m}
        BY <1>t, <4>1, ElsAppend
      <4> QED BY <3>3, <3>4, <4>2
    <3>5. CASE Els(toServer'[h]) \subseteq Els(toServer[h])
      BY <3>3, <3>5
    <3>6. CASE toServer' = toServer
      BY <3>5, <3>6
    <3>7. ASSUME NEW f \in Name, NEW a \in ChunkArg, toServer' = Send(toServer, h, Initx(Capped(a), f))
          PROVE  Own(valuesMap', h, toServer'[h])
      <4>1. Initx(Capped(a), f) \in Request /\ Initx(Capped(a), f).flag = "INITX"
        BY CappedType, Fields DEF Initx, Request
      <4> QED BY <3>4, <3>7, <4>1
    <3>8. CASE Start(h) \/ SecondClient(h)
      BY <3>7, <3>8 DEF Start, SecondClient
    <3>9. CASE ClientError(h)
      <4>1. toServer' = toServer \/ toServer' = Send(toServer, h, Initx(chunksize[h], name[h]))
        BY <3>9 DEF ClientError
      <4>2. /\ Initx(chunksize[h], name[h]) \in Request
            /\ Initx(chunksize[h], name[h]).flag = "INITX"
        BY Fields DEF TypeOK, Initx, Request
      <4> QED BY <3>4, <3>6, <4>1, <4>2
    <3>10. CASE ClientSid(h)
      <4> DEFINE s == Head(toClient[h]).sid
      <4>1. /\ toClient[h] # <<>> /\ Head(toClient[h]).flag = "SIDXX"
            /\ toServer' = Send(toServer, h, Getxx(s, 0))
        BY <3>10 DEF ClientSid, ClientReceives, Arrived
      <4>2. AnswersTo(valuesMap, h, s)
        BY <1>t, <3>1, <4>1, AnnouncedTail
      <4>3. s \in Nat
        BY <1>t, <4>2 DEF AnswersTo
      <4>4. Getxx(s, 0) \in Request /\ Getxx(s, 0).sid = s
        BY <4>3, Fields DEF Getxx, Request
      <4> QED BY <3>4, <4>1, <4>2, <4>4
    <3>11. CASE ClientData(h)
      <4>1. \/ toServer' = toServer
            \/ toServer' = Send(toServer, h, Getxx(sessionKey[h], chunkNo[h]))
        BY <3>11 DEF ClientData
      <4>2. /\ Getxx(sessionKey[h], chunkNo[h]) \in Request
            /\ Getxx(sessionKey[h], chunkNo[h]).sid = sessionKey[h]
        BY <1>t, Fields DEF Getxx, Request
      <4> QED BY <3>1, <3>4, <3>6, <4>1, <4>2
    <3>12. CASE PortClosed(h) \/ Kill(h)
      BY <3>6, <3>12 DEF PortClosed, Kill
    <3>13. CASE ServerReceive(h)
      <4>1. toServer[h] # <<>> /\ toServer'[h] = Tail(toServer[h])
        BY <1>t, <2>2, <3>13, ServerStep DEF Take
      <4>2. Els(toServer'[h]) \subseteq Els(toServer[h])
        BY <1>t, <4>1, ElsTail
      <4> QED BY <3>5, <4>2
    <3>14. ASSUME NEW k \in {"lose", "duplicate", "reorder"}, Network(h, k)
           PROVE  Own(valuesMap', h, toServer'[h])
      <4>1. CASE Len(toServer[h]) >= Needs(k) /\ toServer' = [toServer EXCEPT ![h] = Disturbed(@, k)]
        <5>1. toServer'[h] = Disturbed(toServer[h], k) /\ toServer[h] \in Seq(Request)
          BY <1>t, <4>1
        <5>2. \A i \in 1..Len(Disturbed(toServer[h], k)) :
                \E j \in 1..Len(toServer[h]) : Disturbed(toServer[h], k)[i] = toServer[h][j]
          <6> DEFINE q == toServer[h]
          <6>1. q \in Seq(Request) /\ Len(q) >= Needs(k)
            BY <4>1, <5>1
          <6> HIDE DEF q
          <6>2. \A i \in 1..Len(Disturbed(q, k)) : \E j \in 1..Len(q) : Disturbed(q, k)[i] = q[j]
            BY <6>1, DisturbedQueue
          <6> QED BY <6>2 DEF q
        <5>3. Els(toServer'[h]) \subseteq Els(toServer[h])
          BY <5>1, <5>2 DEF Els
        <5> QED BY <3>5, <5>3
      <4> QED BY <3>6, <3>14, <4>1 DEF Network
    <3> QED BY <1>3, <3>8, <3>9, <3>10, <3>11, <3>12, <3>13, <3>14 DEF StepOf, ClientReceive
  <2> QED BY <2>4, <2>5, <2>6 DEF TidyInv
<1> QED BY <1>1, <1>2, <1>3 DEF Next, StepOf

LEMMA TidyAlways == Spec => [](TypeOK /\ IsolationInv /\ TidyInv)
<1>1. Init => IsolationInv
  BY DEF Init, IsolationInv, Announced
<1>2. Init => TidyInv
  BY ElsEmpty DEF Init, TidyInv, Own, Fresh
<1>3. TypeOK /\ TypeOK' /\ IsolationInv /\ [Next]_vars => IsolationInv'
  BY IsolationStep
<1>4. TypeOK /\ TypeOK' /\ IsolationInv /\ TidyInv /\ [Next]_vars => TidyInv'
  BY TidyStep
<1> QED BY <1>1, <1>2, <1>3, <1>4, TypeCorrect, PTL DEF Spec

-----------------------------------------------------------------------------
(* The copy never runs backwards.                                          *)

\* A chunk number is never lower than one before it, unless it is 0.
Numbered(m) == m.flag \in {"GETXX", "DATAX"}
Datagram == Request \cup Reply
Later ==
  {x \in Datagram \X Datagram : Numbered(x[1]) /\ Numbered(x[2]) => x[2].n = 0 \/ x[1].n <= x[2].n}
Rising == {x \in ChunkSet \X ChunkSet : x[1].n <= x[2].n}

\* Queues p and q, copy w and counter n of a host: what is in the copy, what comes
\* to the client and what it has requested, in this order, does not run backwards.
Line(p, q, w, n) ==
  /\ Flow(Later, p, q)
  /\ \A m \in Els(p) \cup Els(q) : Numbered(m) => m.n = 0 \/ m.n < n
  /\ \A c \in Els(w) : /\ c.n = 0 \/ c.n < n
                       /\ \A m \in Els(p) \cup Els(q) : Numbered(m) => m.n = 0 \/ c.n <= m.n
  /\ Ordered(Rising, w)
  /\ \A m \in Els(p) : m.flag = "DATAX" => m.data.n = m.n

OrderInv ==
  faults["reorder"] = 0 /\ OwnAnswers => \A h \in Host :
    starts[h] <= 1 => Line(toClient[h], toServer[h], written[h], chunkNo[h])

LEMMA NumberType ==
  /\ \A m \in Datagram : Numbered(m) => m.n \in Nat
  /\ \A m \in Reply : m.flag = "DATAX" => m.n \in Nat /\ m.data \in ChunkSet
  /\ \A m \in Reply : m.flag # "GETXX"
  /\ \A m \in Request : m.flag # "DATAX"
  /\ \A c \in ChunkSet : c.n \in Nat
BY DEF Datagram, Request, Reply, Numbered, ChunkSet

LEMMA LaterItself ==
  ASSUME NEW m \in Datagram
  PROVE  <<m, m>> \in Later
<1>1. Numbered(m) => m.n <= m.n
  BY NumberType
<1> QED BY <1>1 DEF Later

LEMMA LineTake ==
  ASSUME NEW p \in Seq(Reply), NEW q, NEW w, NEW n, p # <<>>, Line(p, q, w, n)
  PROVE  Line(Tail(p), q, w, n)
<1>1. Els(p) = {Head(p)} \cup Els(Tail(p))
  BY ElsTail
<1>2. Flow(Later, Tail(p), q)
  BY FlowTake DEF Line
<1> QED BY <1>1, <1>2 DEF Line

\* The client requests chunk 0 or draws the next number.
LEMMA LineSend ==
  ASSUME NEW p \in Seq(Reply), NEW q \in Seq(Request), NEW w \in Seq(ChunkSet), NEW n \in Nat,
         NEW m \in Request, NEW k \in {n, n + 1}, Line(p, q, w, n),
         Numbered(m) => m.n = 0 \/ (m.n = n /\ k = n + 1)
  PROVE  Line(p, Append(q, m), w, k)
<1>1. Els(Append(q, m)) = Els(q) \cup {m} /\ Els(q) \subseteq Request
  BY ElsAppend
<1>2. Els(p) \subseteq Reply /\ Els(w) \subseteq ChunkSet
  BY ElementOfSeq DEF Els
<1>3. \A x \in Els(p) \cup Els(q) : Numbered(x) => x.n \in Nat
  BY <1>1, <1>2, NumberType DEF Datagram
<1>4. \A c \in Els(w) : c.n \in Nat
  BY <1>2, NumberType
<1>5. \A x \in Els(p) \cup Els(q) : <<x, m>> \in Later
  <2> SUFFICES ASSUME NEW x \in Els(p) \cup Els(q), Numbered(x), Numbered(m), m.n # 0
               PROVE  x.n <= m.n
    BY <1>1, <1>2 DEF Later, Datagram
  <2>1. m.n = n /\ n # 0 /\ (x.n = 0 \/ x.n < n)
    BY DEF Line
  <2> QED BY <1>3, <2>1
<1>6. Flow(Later, p, Append(q, m))
  BY <1>5, LaterItself, FlowSend DEF Line, Datagram
<1>7. \A x \in Els(p) \cup Els(q) : Numbered(x) => x.n = 0 \/ x.n < k
  BY <1>3 DEF Line
<1>8. Numbered(m) => m.n = 0 \/ m.n < k
  OBVIOUS
<1>9. \A c \in Els(w) : /\ c.n = 0 \/ c.n < k
                        /\ Numbered(m) => m.n = 0 \/ c.n <= m.n
  BY <1>4 DEF Line
<1> QED BY <1>1, <1>6, <1>7, <1>8, <1>9 DEF Line

\* The server answers with the number that was asked for.
LEMMA LineAnswer ==
  ASSUME NEW p \in Seq(Reply), NEW q \in Seq(Request), NEW w, NEW n,
         NEW m \in Reply, q # <<>>, Line(p, q, w, n),
         m.flag = "DATAX" => Head(q).flag = "GETXX" /\ m.n = Head(q).n /\ m.data.n = m.n
  PROVE  Line(Append(p, m), Tail(q), w, n)
<1>1. Els(Append(p, m)) = Els(p) \cup {m} /\ Els(p) \subseteq Reply
  BY ElsAppend
<1>2. Els(q) = {Head(q)} \cup Els(Tail(q)) /\ Els(q) \subseteq Request
  BY ElsTail
<1>3. Numbered(m) => Numbered(Head(q)) /\ m.n = Head(q).n /\ m.data.n = m.n
  BY NumberType DEF Numbered
<1>4. \A x \in Els(p) : <<x, Head(q)>> \in Later => <<x, m>> \in Later
  BY <1>1, <1>3 DEF Later, Datagram
<1>5. \A y \in Els(Tail(q)) : <<Head(q), y>> \in Later => <<m, y>> \in Later
  BY <1>2, <1>3 DEF Later, Datagram
<1>6. Flow(Later, Append(p, m), Tail(q))
  BY <1>4, <1>5, LaterItself, FlowAnswer DEF Line, Datagram
<1> QED BY <1>1, <1>2, <1>3, <1>6 DEF Line, Numbered

\* Fewer datagrams under way, or the first one twice.
LEMMA LineDisturbed ==
  ASSUME NEW p \in Seq(Reply), NEW q \in Seq(Request), NEW w, NEW n,
         NEW k \in {"lose", "duplicate"}, Line(p, q, w, n)
  PROVE  /\ Len(p) >= Needs(k) => Line(Disturbed(p, k), q, w, n)
         /\ Len(q) >= Needs(k) => Line(p, Disturbed(q, k), w, n)
<1>1. ASSUME Len(p) >= Needs(k) PROVE Line(Disturbed(p, k), q, w, n)
  <2>1. Els(Disturbed(p, k)) \subseteq Els(p)
    BY <1>1, ElsDisturbed
  <2>2. Flow(Later, Disturbed(p, k), q)
    BY <1>1, FlowDisturbed DEF Line
  <2> QED BY <2>1, <2>2 DEF Line
<1>2. ASSUME Len(q) >= Needs(k) PROVE Line(p, Disturbed(q, k), w, n)
  <2>1. Els(Disturbed(q, k)) \subseteq Els(q)
    BY <1>2, ElsDisturbed
  <2>2. Flow(Later, p, Disturbed(q, k))
    BY <1>2, FlowDisturbed DEF Line
  <2> QED BY <2>1, <2>2 DEF Line
<1> QED BY <1>1, <1>2

\* What AppendTextToFile makes of the copy.
LEMMA CopyOf ==
  ASSUME NEW w \in Seq(ChunkSet), NEW m \in Reply, m.flag = "DATAX"
  PROVE  /\ AppendTextToFile(w, m) \in Seq(ChunkSet)
         /\ Parsed(m.data) \in ChunkSet /\ Parsed(m.data).n = m.data.n
         /\ m.n = 0 => AppendTextToFile(w, m) = <<Parsed(m.data)>>
         /\ m.n = 0 => Els(AppendTextToFile(w, m)) = {Parsed(m.data)}
         /\ m.n # 0 => AppendTextToFile(w, m) = Append(w, Parsed(m.data))
         /\ m.n # 0 => Els(AppendTextToFile(w, m)) = Els(w) \cup {Parsed(m.data)}
<1> DEFINE c == Parsed(m.data)
<1>1. m.data \in ChunkSet
  BY NumberType
<1>2. c \in ChunkSet
  BY <1>1, ParsedType
<1>3. c.n = m.data.n
  BY <1>1 DEF Parsed, ChunkSet
<1>4. AppendTextToFile(w, m) = IF m.n = 0 THEN <<c>> ELSE Append(w, c)
  BY DEF AppendTextToFile
<1> HIDE DEF c
<1>5. <<c>> \in Seq(ChunkSet) /\ Els(<<c>>) = {c}
  <2>1. <<c>> \in Seq(ChunkSet) /\ Len(<<c>>) = 1 /\ <<c>>[1] = c
    BY <1>2
  <2> QED BY <2>1 DEF Els
<1>6. Append(w, c) \in Seq(ChunkSet) /\ Els(Append(w, c)) = Els(w) \cup {c}
  BY <1>2, ElsAppend
<1> QED BY <1>2, <1>3, <1>4, <1>5, <1>6 DEF c

LEMMA LineData ==
  ASSUME NEW p \in Seq(Reply), NEW q \in Seq(Request), NEW w \in Seq(ChunkSet), NEW n,
         p # <<>>, Head(p).flag = "DATAX", Line(p, q, w, n)
  PROVE  Line(Tail(p), q, AppendTextToFile(w, Head(p)), n)
<1> DEFINE m == Head(p)
<1> DEFINE c == Parsed(m.data)
<1> DEFINE v == AppendTextToFile(w, m)
<1>1. Els(p) = {m} \cup Els(Tail(p)) /\ Els(p) \subseteq Reply /\ m \in Reply
  BY ElsTail
<1>2. /\ v \in Seq(ChunkSet) /\ c \in ChunkSet /\ c.n = m.data.n
      /\ m.n = 0 => v = <<c>> /\ Els(v) = {c}
      /\ m.n # 0 => v = Append(w, c) /\ Els(v) = Els(w) \cup {c}
  BY <1>1, CopyOf
<1>3. /\ m.data.n = m.n /\ Numbered(m) /\ (m.n = 0 \/ m.n < n)
      /\ \A x \in Els(w) : m.n = 0 \/ x.n <= m.n
  BY <1>1 DEF Line, Numbered
<1>4. /\ Flow(Later, Tail(p), q)
      /\ \A y \in Els(Tail(p)) \cup Els(q) : <<m, y>> \in Later
  BY FlowTake DEF Line
<1>5. \A y \in Els(Tail(p)) \cup Els(q) : Numbered(y) => y.n = 0 \/ m.n <= y.n
  BY <1>3, <1>4 DEF Later
<1>6. Els(w) \subseteq ChunkSet /\ c.n = m.n /\ m.n \in Nat
  BY <1>1, <1>2, <1>3, ElementOfSeq, NumberType DEF Els
<1> HIDE DEF m, c, v
<1>7. \A x \in Els(v) : x \in Els(w) \/ x = c
  BY <1>2
<1>8. <<c, c>> \in Rising
  BY <1>2, <1>6 DEF Rising
<1>9. Ordered(Rising, v)
  <2>1. CASE m.n = 0
    <3>1. Ordered(Rising, <<>>) /\ Els(<<>>) = {}
      BY ElsEmpty
    <3>2. <<>> \in Seq(ChunkSet) /\ v = Append(<<>>, c)
      BY <1>2, <2>1
    <3> QED BY <1>2, <1>8, <3>1, <3>2, OrderedAppend
  <2>2. CASE m.n # 0
    <3>1. \A x \in Els(w) : <<x, c>> \in Rising
      BY <1>2, <1>3, <1>6, <2>2 DEF Rising
    <3>2. Ordered(Rising, w)
      BY DEF Line
    <3> QED BY <1>2, <1>8, <2>2, <3>1, <3>2, OrderedAppend
  <2> QED BY <2>1, <2>2
<1> QED BY <1>1, <1>3, <1>4, <1>5, <1>6, <1>7, <1>9 DEF Line, v, m

\* Faults are counted, and never discounted.
LEMMA FaultsStay ==
  ASSUME TypeOK, [Next]_vars, NEW k \in FaultKind, faults'[k] = 0
  PROVE  faults[k] = 0 /\ ~Fault(k)
<1>1. faults' = faults \/ \E j \in FaultKind : Fault(j)
  BY DEF Next, Start, ClientReceive, ClientError, ClientSid, ClientData, PortClosed,
         ServerReceive, ServerInitx, ServerGetxx, Network, SecondClient, Kill, ServerRestart,
         envVars, vars, FaultKind
<1>2. ASSUME NEW j \in FaultKind, Fault(j) PROVE faults[k] = 0
  <2>1. CASE j = k
    BY <1>2, <2>1, FaultCounts
  <2>2. CASE j # k
    BY <1>2, <2>2, FaultCounts
  <2> QED BY <2>1, <2>2
<1> QED BY <1>1, <1>2, FaultCounts

LEMMA OwnAnswersStay ==
  ASSUME TypeOK, [Next]_vars, OwnAnswers'
  PROVE  OwnAnswers
BY FaultsStay DEF OwnAnswers, Alone, FaultKind

\* Runs are counted, and only a start makes one more.
LEMMA StartsGrow ==
  ASSUME TypeOK, [Next]_vars, NEW h \in Host
  PROVE  starts[h] \in Nat /\ starts'[h] = (IF Start(h) THEN starts[h] + 1 ELSE starts[h])
<1>1. starts \in [Host -> Nat]
  BY DEF TypeOK
<1>2. CASE \E g \in Host : Start(g)
  <2>1. PICK g \in Host : Start(g)
    BY <1>2
  <2>2. starts' = [starts EXCEPT ![g] = @ + 1]
    BY <2>1 DEF Start
  <2>3. Start(h) => starts' = [starts EXCEPT ![h] = @ + 1]
    BY DEF Start
  <2>4. g # h => starts'[h] = starts[h]
    BY <1>1, <2>2
  <2>5. Start(h) => starts'[h] = starts[h] + 1
    BY <1>1, <2>3
  <2> QED BY <1>1, <2>1, <2>4, <2>5
<1>3. CASE ~ \E g \in Host : Start(g)
  <2>1. starts' = starts
    BY <1>3 DEF Next, ClientReceive, ClientError, ClientSid, ClientData, PortClosed, Fault,
         ServerReceive, ServerInitx, ServerGetxx, Network, SecondClient, Kill, ServerRestart,
         envVars, vars
  <2> QED BY <1>1, <1>3, <2>1
<1> QED BY <1>2, <1>3

LEMMA OrderStep ==
  ASSUME TypeOK, TypeOK', TidyInv, OrderInv, [Next]_vars
  PROVE  OrderInv'
<1>t. /\ toServer \in [Host -> Seq(Request)] /\ toClient \in [Host -> Seq(Reply)]
      /\ written \in [Host -> Seq(ChunkSet)] /\ chunkNo \in [Host -> Nat]
      /\ sessionKey \in [Host -> Nat]
  BY DEF TypeOK
<1>0. SUFFICES ASSUME faults'["reorder"] = 0, OwnAnswers', NEW g \in Host, starts'[g] <= 1
               PROVE  Line(toClient'[g], toServer'[g], written'[g], chunkNo'[g])
  BY DEF OrderInv
<1>1. /\ faults["reorder"] = 0 /\ ~Fault("reorder") /\ OwnAnswers /\ starts[g] \in Nat /\ starts[g] <= 1
      /\ Start(g) => starts[g] = 0
  <2>1. "reorder" \in FaultKind
    BY DEF FaultKind
  <2> QED BY <1>0, <2>1, FaultsStay, OwnAnswersStay, StartsGrow
<1>2. /\ Line(toClient[g], toServer[g], written[g], chunkNo[g])
      /\ starts[g] = 0 => Fresh(g)
      /\ \A h \in Host : Own(valuesMap, h, toServer[h])
  BY <1>1 DEF OrderInv, TidyInv
<1>3. CASE UNCHANGED vars
  BY <1>2, <1>3 DEF vars, clientVars
<1>4. CASE ServerRestart
  <2>1. UNCHANGED clientVars /\ toClient' = toClient
        /\ (toServer'[g] = <<>> \/ toServer'[g] = toServer[g])
    BY <1>4 DEF ServerRestart
  <2>2. Line(toClient[g], <<>>, written[g], chunkNo[g])
    BY <1>2, ElsEmpty DEF Line, Flow
  <2> QED BY <1>2, <2>1, <2>2 DEF clientVars
<1>5. ASSUME NEW h \in Host, StepOf(h), h # g
      PROVE  Line(toClient'[g], toServer'[g], written'[g], chunkNo'[g])
  BY <1>2, <1>5, OthersAside DEF Aside, Undisturbed
<1>6. ASSUME NEW m \in Request, toServer' = Send(toServer, g, m), ~Numbered(m),
             toClient'[g] = toClient[g], written'[g] = written[g], chunkNo'[g] = chunkNo[g]
      PROVE  Line(toClient'[g], toServer'[g], written'[g], chunkNo'[g])
  <2>1. toServer'[g] = Append(toServer[g], m)
    BY <1>t, <1>6 DEF Send
  <2> QED BY <1>t, <1>2, <1>6, <2>1, LineSend
<1>7. \A a \in ChunkArg, f \in Name :
        Initx(Capped(a), f) \in Request /\ ~Numbered(Initx(Capped(a), f))
  BY CappedType, Fields DEF Initx, Request, Numbered
<1>8. CASE Start(g)
  <2>1. PICK f \in Name, a \in ChunkArg : toServer' = Send(toServer, g, Initx(Capped(a), f))
    BY <1>8 DEF Start
  <2>2. toClient' = toClient /\ written' = written /\ chunkNo'[g] = 0 /\ chunkNo[g] = 0
    BY <1>t, <1>1, <1>2, <1>8 DEF Start, Fresh
  <2> QED BY <1>6, <1>7, <2>1, <2>2
<1>9. CASE SecondClient(g)
  <2>1. PICK f \in Name, a \in ChunkArg : toServer' = Send(toServer, g, Initx(Capped(a), f))
    BY <1>9 DEF SecondClient
  <2>2. UNCHANGED <<clientVars, toClient>>
    BY <1>9 DEF SecondClient
  <2> QED BY <1>6, <1>7, <2>1, <2>2 DEF clientVars
<1>10. CASE Kill(g)
  BY <1>2, <1>10 DEF Kill
<1>11. CASE PortClosed(g)
  <2>1. toClient[g] # <<>> /\ toClient'[g] = Tail(toClient[g]) /\ UNCHANGED <<clientVars, toServer>>
    BY <1>t, <1>11 DEF PortClosed, Take
  <2> QED BY <1>t, <1>2, <2>1, LineTake DEF clientVars
<1>12. CASE ServerReceive(g)
  <2>1. PICK m \in Reply :
          /\ toClient' = Send(toClient, g, m) /\ toServer' = Take(toServer, g) /\ toServer[g] # <<>>
          /\ m.flag = "DATAX" => /\ Head(toServer[g]).flag = "GETXX" /\ m.n = Head(toServer[g]).n
                                 /\ m.data.n = m.n
    BY <1>2, <1>12, ServerStep
  <2>2. UNCHANGED clientVars
    BY <1>2, <1>12, ServerStep
  <2>3. toClient'[g] = Append(toClient[g], m) /\ toServer'[g] = Tail(toServer[g])
    BY <1>t, <2>1 DEF Send, Take
  <2>4. Line(Append(toClient[g], m), Tail(toServer[g]), written[g], chunkNo[g])
    BY <1>t, <1>2, <2>1, LineAnswer
  <2> QED BY <2>2, <2>3, <2>4 DEF clientVars
<1>13. ASSUME NEW k \in {"lose", "duplicate", "reorder"}, Network(g, k)
       PROVE  Line(toClient'[g], toServer'[g], written'[g], chunkNo'[g])
  <2>1. k \in {"lose", "duplicate"} /\ UNCHANGED clientVars
    BY <1>1, <1>13 DEF Network
  <2>2. \/ /\ Len(toServer[g]) >= Needs(k) /\ toServer'[g] = Disturbed(toServer[g], k)
           /\ toClient' = toClient
        \/ /\ Len(toClient[g]) >= Needs(k) /\ toClient'[g] = Disturbed(toClient[g], k)
           /\ toServer' = toServer
    BY <1>t, <1>13 DEF Network
  <2>3. toServer[g] \in Seq(Request) /\ toClient[g] \in Seq(Reply)
    BY <1>t
  <2> QED BY <1>2, <2>1, <2>2, <2>3, LineDisturbed DEF clientVars
<1>14. ASSUME ClientReceive(g)
       PROVE  Line(toClient'[g], toServer'[g], written'[g], chunkNo'[g])
  <2> DEFINE p == toClient[g]
  <2> DEFINE q == toServer[g]
  <2> DEFINE w == written[g]
  <2> DEFINE n == chunkNo[g]
  <2>1. p # <<>> /\ toClient'[g] = Tail(p)
    BY <1>t, <1>14, ClientStep DEF Take
  <2>2. p \in Seq(Reply) /\ q \in Seq(Request) /\ w \in Seq(ChunkSet) /\ n \in Nat
    BY <1>t
  <2>3. Tail(p) \in Seq(Reply) /\ Head(p) \in Reply
    BY <2>1, <2>2, ElsTail
  <2>4. Line(Tail(p), q, w, n)
    BY <1>2, <2>1, <2>2, LineTake
  <2>5. ASSUME NEW m \in Request, toServer' = Send(toServer, g, m), written'[g] = w, chunkNo'[g] = n,
               Numbered(m) => m.n = 0
        PROVE  Line(toClient'[g], toServer'[g], written'[g], chunkNo'[g])
    <3>1. toServer'[g] = Append(q, m)
      BY <1>t, <2>5 DEF Send
    <3> HIDE DEF p, q, w, n
    <3>2. Line(Tail(p), Append(q, m), w, n)
      BY <2>2, <2>3, <2>4, <2>5, LineSend
    <3> QED BY <2>1, <2>5, <3>1, <3>2
  <2>6. CASE ClientError(g)
    <3>1. UNCHANGED <<written, chunkNo>>
          /\ (toServer' = toServer \/ toServer' = Send(toServer, g, Initx(chunksize[g], name[g])))
      BY <2>6 DEF ClientError
    <3>2. /\ Initx(chunksize[g], name[g]) \in Request
          /\ ~Numbered(Initx(chunksize[g], name[g]))
      BY Fields DEF TypeOK, Initx, Request, Numbered
    <3> QED BY <2>1, <2>4, <2>5, <3>1, <3>2
  <2>7. CASE ClientSid(g)
    <3> DEFINE s == Head(p).sid
    <3>1. UNCHANGED <<written, chunkNo>> /\ toServer' = Send(toServer, g, Getxx(s, 0))
          /\ Head(p).flag = "SIDXX"
      BY <2>7 DEF ClientSid, ClientReceives, Arrived
    <3>2. s \in Nat
      BY <2>3, <3>1 DEF Reply
    <3>3. Getxx(s, 0) \in Request /\ Getxx(s, 0).n = 0
      BY <3>2, Fields DEF Getxx, Request
    <3> QED BY <2>5, <3>1, <3>3
  <2>8. CASE ClientData(g)
    <3> DEFINE v == AppendTextToFile(w, Head(p))
    <3>1. Head(p).flag = "DATAX" /\ written'[g] = v
      BY <1>t, <2>8 DEF ClientData, ClientReceives, Arrived
    <3>2. \/ toServer' = toServer /\ chunkNo' = chunkNo
          \/ /\ toServer' = Send(toServer, g, Getxx(sessionKey[g], n))
             /\ chunkNo' = [chunkNo EXCEPT ![g] = @ + 1]
      BY <2>8 DEF ClientData
    <3>3. Line(Tail(p), q, v, n) /\ v \in Seq(ChunkSet)
      BY <1>2, <2>1, <2>2, <2>3, <3>1, LineData, CopyOf
    <3>4. CASE toServer' = toServer /\ chunkNo' = chunkNo
      BY <2>1, <3>1, <3>3, <3>4
    <3>5. CASE /\ toServer' = Send(toServer, g, Getxx(sessionKey[g], n))
               /\ chunkNo' = [chunkNo EXCEPT ![g] = @ + 1]
      <4> DEFINE m == Getxx(sessionKey[g], n)
      <4>1. m \in Request /\ m.n = n
        BY <1>t, Fields DEF Getxx, Request
      <4>2. toServer'[g] = Append(q, m) /\ chunkNo'[g] = n + 1
        BY <1>t, <3>5 DEF Send
      <4> HIDE DEF m, v, p, q, w, n
      <4>3. Line(Tail(p), Append(q, m), v, n + 1)
        BY <2>2, <2>3, <3>3, <4>1, LineSend
      <4> QED BY <2>1, <3>1, <4>2, <4>3
    <3> QED BY <3>2, <3>4, <3>5
  <2> QED BY <1>14, <2>6, <2>7, <2>8 DEF ClientReceive
<1> QED BY <1>3, <1>4, <1>5, <1>8, <1>9, <1>10, <1>11, <1>12, <1>13, <1>14 DEF Next, StepOf

\* However many datagrams are lost or duplicated, and however often sessions are set
\* up anew: a client that is the first on its host never writes a chunk behind one
\* with a higher number.
THEOREM InOrderAlways == Spec => []InOrder
<1>1. Init => OrderInv
  BY ElsEmpty DEF Init, OrderInv, Line, Flow
<1>2. TypeOK /\ TypeOK' /\ TidyInv /\ OrderInv /\ [Next]_vars => OrderInv'
  BY OrderStep
<1>3. TypeOK /\ OrderInv => InOrder
  <2> SUFFICES ASSUME TypeOK, OrderInv, faults["reorder"] = 0, OwnAnswers,
                      NEW h \in Host, starts[h] <= 1,
                      NEW i \in DOMAIN written[h], NEW j \in DOMAIN written[h], i < j
               PROVE  written[h][i].n <= written[h][j].n
    BY DEF InOrder, OwnAnswers, Alone
  <2>1. written[h] \in Seq(ChunkSet) /\ Ordered(Rising, written[h])
    BY DEF TypeOK, OrderInv, Line
  <2>2. i \in 1..Len(written[h]) /\ j \in 1..Len(written[h]) /\ i <= j
    BY <2>1
  <2> QED BY <2>1, <2>2 DEF Ordered, Rising
<1> QED BY <1>1, <1>2, <1>3, TidyAlways, PTL DEF Spec

-----------------------------------------------------------------------------
(* Duplicated datagrams only repeat chunks.                                *)

OnlyDuplicates == \A k \in FaultKind \ {"duplicate"} : faults[k] = 0

\* Sessions are set up before the first chunk is requested, and chunk numbers never
\* go back, not even to 0.
Setup(m) == m.flag \in {"INITX", "SIDXX"}
Strict ==
  {x \in Datagram \X Datagram :
     Numbered(x[1]) => ~Setup(x[2]) /\ (Numbered(x[2]) => x[1].n <= x[2].n)}

Ranked(p, q, w, n) ==
  /\ Flow(Strict, p, q)
  /\ \A m \in Els(p) \cup Els(q) :
       /\ Setup(m) => n = 0
       /\ Numbered(m) => (m.n = 0 \/ m.n < n) /\ \A c \in Els(w) : c.n <= m.n
  /\ \A c \in Els(w) : c.n = 0 \/ c.n < n

\* Everything is about file f in chunks of c, and the copy has no short chunk yet.
Genuine(f, c, p, q, w) ==
  /\ \A m \in Els(q) : m.flag = "INITX" => m.name = f /\ m.size = c
  /\ \A m \in Els(p) :
       /\ m.flag = "DATAX" => /\ f \in DOMAIN Size /\ m.size = ChunkLen(f, c, m.n)
                              /\ m.data = Chunk(f, c, m.n)
       /\ m.flag = "ERROR" => m.error = "CNF" \/ (m.error = "FNF" /\ f \notin DOMAIN Size)
  /\ \A x \in Els(w) : x = Parsed(Chunk(f, c, x.n)) /\ x.n < LastChunk(f, c)

\* A chunk that ends the transfer, and CNF only behind such a chunk.
Final(m, last) == m.flag = "DATAX" /\ m.n >= last
IsCnf(m) == m.flag = "ERROR" /\ m.error = "CNF"
Preceded(p, last) ==
  \A i \in 1..Len(p) : IsCnf(p[i]) => \E j \in 1..Len(p) : j < i /\ Final(p[j], last)

\* Every number drawn so far is in the copy or under way, or a final chunk is.
Found(p, q, w, k) ==
  \/ \E x \in Els(w) : x.n = k
  \/ \E m \in Els(p) \cup Els(q) : Numbered(m) /\ m.n = k
Whole(p, q, w, n, last) ==
  \A k \in Nat : k < n =>
    Found(p, q, w, k) \/ \E m \in Els(p) : Final(m, last) /\ m.n <= k

\* The sessions of h serve f in chunks of c, and one that has served a final chunk
\* has it under way; and every request is for one of them.
Serving(h, V, p, f, c) ==
  \A s \in DOMAIN V : V[s].ip = h =>
    /\ V[s].file = f /\ V[s].size = c
    /\ V[s].cnf => \E m \in Els(p) : Final(m, LastChunk(f, c))
Asking(h, V, q) == \A m \in Els(q) : m.flag = "GETXX" => AnswersTo(V, h, m.sid)
Keyed(p, q, key) == (\E m \in Els(p) \cup Els(q) : Numbered(m)) => key # 0

Busy(h) ==
  /\ Ranked(toClient[h], toServer[h], written[h], chunkNo[h])
  /\ Genuine(name[h], chunksize[h], toClient[h], toServer[h], written[h])
  /\ Preceded(toClient[h], LastChunk(name[h], chunksize[h]))
  /\ Whole(toClient[h], toServer[h], written[h], chunkNo[h], LastChunk(name[h], chunksize[h]))
  /\ Serving(h, valuesMap, toClient[h], name[h], chunksize[h])
  /\ Asking(h, valuesMap, toServer[h])
  /\ Keyed(toClient[h], toServer[h], sessionKey[h])

Copied(f, c, w) == f \in DOMAIN Size /\ Els(w) = Els(Arriving(f, c))

RepeatInv ==
  OnlyDuplicates => \A h \in Host : starts[h] = 1 =>
    /\ pc[h] \in {"running", "transmitted", "FNF"}
    /\ pc[h] = "running" => Busy(h)
    /\ pc[h] = "transmitted" => Copied(name[h], chunksize[h], written[h])

LEMMA StrictItself ==
  ASSUME NEW m \in Datagram
  PROVE  <<m, m>> \in Strict
<1>1. Numbered(m) => m.n <= m.n /\ ~Setup(m)
  BY NumberType DEF Numbered, Setup
<1> QED BY <1>1 DEF Strict

LEMMA RankedTake ==
  ASSUME NEW p \in Seq(Reply), NEW q \in Seq(Request), NEW w, NEW n, p # <<>>, Ranked(p, q, w, n)
  PROVE  /\ Ranked(Tail(p), q, w, n)
         /\ Numbered(Head(p)) => \A m \in Els(Tail(p)) \cup Els(q) :
              ~Setup(m) /\ (Numbered(m) => Head(p).n <= m.n)
<1>1. Els(p) = {Head(p)} \cup Els(Tail(p))
  BY ElsTail
<1>2. Flow(Strict, Tail(p), q) /\ \A y \in Els(Tail(p)) \cup Els(q) : <<Head(p), y>> \in Strict
  BY FlowTake DEF Ranked
<1>3. Ranked(Tail(p), q, w, n)
  BY <1>1, <1>2 DEF Ranked
<1>4. Numbered(Head(p)) => \A m \in Els(Tail(p)) \cup Els(q) :
              ~Setup(m) /\ (Numbered(m) => Head(p).n <= m.n)
  BY <1>2 DEF Strict
<1> QED BY <1>3, <1>4

LEMMA RankedGet ==
  ASSUME NEW p \in Seq(Reply), NEW q \in Seq(Request), NEW w \in Seq(ChunkSet), NEW n \in Nat,
         NEW m \in Request, NEW k \in {n, n + 1}, Ranked(p, q, w, n), m.flag = "GETXX", m.n = n,
         \/ k = n /\ n = 0
         \/ k = n + 1 /\ \A x \in Els(p) \cup Els(q) : ~Setup(x)
  PROVE  Ranked(p, Append(q, m), w, k)
<1>1. Els(Append(q, m)) = Els(q) \cup {m} /\ Els(q) \subseteq Request
  BY ElsAppend
<1>2. Els(p) \subseteq Reply /\ Els(w) \subseteq ChunkSet
  BY ElementOfSeq DEF Els
<1>3. \A x \in Els(p) \cup Els(q) : Numbered(x) => x.n \in Nat
  BY <1>1, <1>2, NumberType DEF Datagram
<1>4. \A c \in Els(w) : c.n \in Nat /\ (c.n = 0 \/ c.n < n)
  BY <1>2, NumberType DEF Ranked
<1>5. ~Setup(m) /\ Numbered(m)
  BY DEF Setup, Numbered
<1>6. \A x \in Els(p) \cup Els(q) : Numbered(x) => x.n <= n /\ (x.n = 0 \/ x.n < k)
  BY <1>3 DEF Ranked
<1>7. \A x \in Els(p) \cup Els(q) : <<x, m>> \in Strict
  BY <1>1, <1>2, <1>5, <1>6 DEF Strict, Datagram
<1>8. Flow(Strict, p, Append(q, m))
  BY <1>7, StrictItself, FlowSend DEF Ranked, Datagram
<1>9. \A c \in Els(w) : c.n <= n /\ (c.n = 0 \/ c.n < k)
  BY <1>4
<1>10. m.n = 0 \/ m.n < k
  OBVIOUS
<1>11. \A x \in Els(p) \cup Els(q) : Setup(x) => k = 0
  BY DEF Ranked
<1> QED BY <1>1, <1>5, <1>6, <1>8, <1>9, <1>10, <1>11 DEF Ranked

LEMMA RankedAnswer ==
  ASSUME NEW p \in Seq(Reply), NEW q \in Seq(Request), NEW w, NEW n, NEW m \in Reply,
         q # <<>>, Ranked(p, q, w, n),
         Setup(m) => Setup(Head(q)),
         Numbered(m) => Numbered(Head(q)) /\ m.n = Head(q).n
  PROVE  Ranked(Append(p, m), Tail(q), w, n)
<1>1. Els(Append(p, m)) = Els(p) \cup {m} /\ Els(p) \subseteq Reply
  BY ElsAppend
<1>2. Els(q) = {Head(q)} \cup Els(Tail(q)) /\ Els(q) \subseteq Request
  BY ElsTail
<1>3. \A x \in Els(p) : <<x, Head(q)>> \in Strict => <<x, m>> \in Strict
  BY <1>1 DEF Strict, Datagram
<1>4. \A y \in Els(Tail(q)) : <<Head(q), y>> \in Strict => <<m, y>> \in Strict
  BY <1>2 DEF Strict, Datagram
<1>5. Flow(Strict, Append(p, m), Tail(q))
  BY <1>3, <1>4, StrictItself, FlowAnswer DEF Ranked, Datagram
<1> QED BY <1>1, <1>2, <1>5 DEF Ranked

LEMMA RankedData ==
  ASSUME NEW p \in Seq(Reply), NEW q \in Seq(Request), NEW w \in Seq(ChunkSet), NEW n,
         p # <<>>, Head(p).flag = "DATAX", Head(p).data.n = Head(p).n, Ranked(p, q, w, n)
  PROVE  Ranked(Tail(p), q, AppendTextToFile(w, Head(p)), n)
<1> DEFINE m == Head(p)
<1> DEFINE c == Parsed(m.data)
<1> DEFINE v == AppendTextToFile(w, m)
<1>1. Els(p) = {m} \cup Els(Tail(p)) /\ m \in Reply
  BY ElsTail
<1>2. \A x \in Els(v) : x \in Els(w) \/ x = c
  BY <1>1, CopyOf
<1>3. c.n = m.n /\ Numbered(m)
  BY <1>1, CopyOf DEF Numbered
<1>4. /\ Ranked(Tail(p), q, w, n)
      /\ \A y \in Els(Tail(p)) \cup Els(q) : Numbered(y) => m.n <= y.n
  BY <1>3, RankedTake
<1>5. m.n = 0 \/ m.n < n
  BY <1>1, <1>3 DEF Ranked
<1> HIDE DEF m, c, v
<1>6. Ranked(Tail(p), q, v, n)
  BY <1>2, <1>3, <1>4, <1>5 DEF Ranked
<1> QED BY <1>6 DEF v, m

LEMMA RankedTwice ==
  ASSUME NEW p \in Seq(Reply), NEW q \in Seq(Request), NEW w, NEW n, Ranked(p, q, w, n)
  PROVE  /\ Len(p) >= Needs("duplicate") =>
              /\ Els(Disturbed(p, "duplicate")) = Els(p)
              /\ Ranked(Disturbed(p, "duplicate"), q, w, n)
         /\ Len(q) >= Needs("duplicate") =>
              /\ Els(Disturbed(q, "duplicate")) = Els(q)
              /\ Ranked(p, Disturbed(q, "duplicate"), w, n)
<1>1. ASSUME Len(p) >= Needs("duplicate")
      PROVE  /\ Els(Disturbed(p, "duplicate")) = Els(p)
             /\ Flow(Strict, Disturbed(p, "duplicate"), q)
  BY <1>1, ElsDisturbed, FlowDisturbed DEF Ranked
<1>2. ASSUME Len(q) >= Needs("duplicate")
      PROVE  /\ Els(Disturbed(q, "duplicate")) = Els(q)
             /\ Flow(Strict, p, Disturbed(q, "duplicate"))
  BY <1>2, ElsDisturbed, FlowDisturbed DEF Ranked
<1> QED BY <1>1, <1>2 DEF Ranked

LEMMA PrecededHead ==
  ASSUME NEW p \in Seq(Reply), NEW last, p # <<>>, Preceded(p, last)
  PROVE  ~IsCnf(Head(p))
<1>1. Head(p) = p[1] /\ Len(p) \in Nat /\ Len(p) # 0
  BY EmptySeq
<1> DEFINE l == Len(p)
<1>2. 1 \in 1..l /\ \A j \in 1..l : ~(j < 1)
  <2>1. l \in Nat /\ l # 0
    BY <1>1
  <2> HIDE DEF l
  <2> QED BY <2>1
<1> QED BY <1>1, <1>2 DEF Preceded

LEMMA PrecededTail ==
  ASSUME NEW p \in Seq(Reply), NEW last, p # <<>>, Preceded(p, last), ~Final(Head(p), last)
  PROVE  Preceded(Tail(p), last)
<1>1. /\ Len(Tail(p)) = Len(p) - 1
      /\ \A i \in 1..Len(Tail(p)) : Tail(p)[i] = p[i + 1]
      /\ Head(p) = p[1] /\ Len(p) \in Nat /\ Len(p) # 0
  BY HeadTailProperties, EmptySeq
<1> DEFINE l == Len(p)
<1>2. /\ \A i \in 1..(l - 1) : i + 1 \in 1..l
      /\ \A i \in 1..(l - 1), j \in 1..l : j < i + 1 /\ j # 1 =>
           j - 1 \in 1..(l - 1) /\ j - 1 < i /\ (j - 1) + 1 = j
  <2>1. l \in Nat /\ l # 0
    BY <1>1
  <2> HIDE DEF l
  <2> QED BY <2>1
<1>3. SUFFICES ASSUME NEW i \in 1..(l - 1), IsCnf(Tail(p)[i])
               PROVE  \E j \in 1..(l - 1) : j < i /\ Final(Tail(p)[j], last)
  BY <1>1 DEF Preceded
<1>4. IsCnf(p[i + 1]) /\ i + 1 \in 1..l
  BY <1>1, <1>2, <1>3
<1>5. PICK j \in 1..l : j < i + 1 /\ Final(p[j], last)
  BY <1>4 DEF Preceded
<1>6. j # 1
  BY <1>1, <1>5
<1>7. j - 1 \in 1..(l - 1) /\ j - 1 < i /\ Tail(p)[j - 1] = p[j]
  BY <1>1, <1>2, <1>5, <1>6
<1> QED BY <1>5, <1>7

LEMMA PrecededAppend ==
  ASSUME NEW p \in Seq(Reply), NEW last, NEW m \in Reply, Preceded(p, last),
         IsCnf(m) => \E x \in Els(p) : Final(x, last)
  PROVE  Preceded(Append(p, m), last)
<1> DEFINE l == Len(p)
<1> DEFINE d == Append(p, m)
<1>1. /\ Len(d) = l + 1 /\ l \in Nat /\ d[l + 1] = m
      /\ \A i \in 1..l : d[i] = p[i]
  BY AppendProperties, LenProperties
<1>2. /\ \A i \in 1..(l + 1) : i \in 1..l \/ i = l + 1
      /\ \A i \in 1..l : i \in 1..(l + 1) /\ i < l + 1
  <2>1. l \in Nat
    BY <1>1
  <2> HIDE DEF l, d
  <2> QED BY <2>1
<1> HIDE DEF d
<1>3. SUFFICES ASSUME NEW i \in 1..(l + 1), IsCnf(d[i])
               PROVE  \E j \in 1..(l + 1) : j < i /\ Final(d[j], last)
  BY <1>1 DEF Preceded, d
<1>4. CASE i = l + 1
  <2>1. PICK x \in Els(p) : Final(x, last)
    BY <1>1, <1>3, <1>4
  <2>2. PICK j \in 1..l : x = p[j]
    BY <2>1 DEF Els
  <2> QED BY <1>1, <1>2, <1>4, <2>1, <2>2
<1>5. CASE i # l + 1
  <2>1. i \in 1..l /\ IsCnf(p[i])
    BY <1>1, <1>2, <1>3, <1>5
  <2>2. PICK j \in 1..l : j < i /\ Final(p[j], last)
    BY <2>1 DEF Preceded
  <2> QED BY <1>1, <1>2, <2>2
<1> QED BY <1>4, <1>5

LEMMA PrecededTwice ==
  ASSUME NEW p \in Seq(Reply), NEW last, Preceded(p, last), p # <<>>
  PROVE  Preceded(Disturbed(p, "duplicate"), last)
<1> DEFINE l == Len(p)
<1> DEFINE d == <<Head(p)>> \o p
<1>1. Disturbed(p, "duplicate") = d
  BY DEF Disturbed
<1>2. Head(p) \in Reply /\ Head(p) = p[1]
  OBVIOUS
<1>3. /\ Len(d) = l + 1 /\ l \in Nat /\ l >= 1
      /\ \A i \in 1..(l + 1) : d[i] = IF i = 1 THEN p[1] ELSE p[i - 1]
  BY <1>2
<1>4. /\ \A i \in 1..(l + 1) : i # 1 => i - 1 \in 1..l
      /\ \A i \in 1..(l + 1), j \in 1..l : j < i - 1 => j + 1 < i
      /\ \A j \in 1..l : j + 1 \in 1..(l + 1) /\ j + 1 # 1 /\ (j + 1) - 1 = j
  <2>1. l \in Nat
    BY <1>3
  <2> HIDE DEF l, d
  <2> QED BY <2>1
<1>5. ~IsCnf(p[1])
  BY <1>2, PrecededHead
<1> HIDE DEF d
<1>6. SUFFICES ASSUME NEW i \in 1..(l + 1), IsCnf(d[i])
               PROVE  \E j \in 1..(l + 1) : j < i /\ Final(d[j], last)
  BY <1>1, <1>3 DEF Preceded
<1>7. i # 1 /\ IsCnf(p[i - 1]) /\ i - 1 \in 1..l
  BY <1>3, <1>4, <1>5, <1>6
<1>8. PICK j \in 1..l : j < i - 1 /\ Final(p[j], last)
  BY <1>7 DEF Preceded
<1>9. j + 1 \in 1..(l + 1) /\ j + 1 < i /\ d[j + 1] = p[j]
  BY <1>3, <1>4, <1>8
<1> QED BY <1>8, <1>9

\* The chunks of the file, as they are after parsing.
LEMMA Pieces ==
  ASSUME NEW f \in DOMAIN Size, NEW c \in ChunkSizes
  PROVE  /\ LastChunk(f, c) \in Nat /\ Len(Arriving(f, c)) = LastChunk(f, c) + 1
         /\ \A x : x \in Els(Arriving(f, c)) <=>
                     \E k \in Nat : k <= LastChunk(f, c) /\ x = Parsed(Chunk(f, c, k))
<1> DEFINE l == LastChunk(f, c)
<1> DEFINE a == Arriving(f, c)
<1>1. l \in Nat
  BY ShortIffLast
<1>2. Len(a) = l + 1 /\ \A i \in 1..(l + 1) : a[i] = Parsed(Chunk(f, c, i - 1))
  BY <1>1 DEF Arriving
<1>3. /\ \A i \in 1..(l + 1) : i - 1 \in Nat /\ i - 1 <= l
      /\ \A k \in Nat : k <= l => k + 1 \in 1..(l + 1) /\ (k + 1) - 1 = k
  <2> HIDE DEF l
  <2> QED BY <1>1
<1> HIDE DEF a, l
<1>4. ASSUME NEW x \in Els(a) PROVE \E k \in Nat : k <= l /\ x = Parsed(Chunk(f, c, k))
  <2>1. PICK i \in 1..(l + 1) : x = a[i]
    BY <1>2 DEF Els
  <2> QED BY <1>2, <1>3, <2>1
<1>5. ASSUME NEW k \in Nat, k <= l PROVE Parsed(Chunk(f, c, k)) \in Els(a)
  <2>1. k + 1 \in 1..Len(a) /\ a[k + 1] = Parsed(Chunk(f, c, k))
    BY <1>2, <1>3, <1>5
  <2> QED BY <2>1 DEF Els
<1> QED BY <1>1, <1>2, <1>4, <1>5 DEF a, l

\* A chunk that does not end the transfer: nothing is lost by writing it and asking
\* for the next number.
LEMMA WholeData ==
  ASSUME NEW p \in Seq(Reply), NEW q \in Seq(Request), NEW w \in Seq(ChunkSet), NEW n \in Nat,
         NEW last, NEW r \in Request,
         p # <<>>, Head(p).flag = "DATAX", Head(p).data.n = Head(p).n, Ranked(p, q, w, n),
         ~Final(Head(p), last), Whole(p, q, w, n, last), r.flag = "GETXX", r.n = n
  PROVE  Whole(Tail(p), Append(q, r), AppendTextToFile(w, Head(p)), n + 1, last)
<1> DEFINE m == Head(p)
<1> DEFINE c == Parsed(m.data)
<1> DEFINE v == AppendTextToFile(w, m)
<1>1. Els(p) = {m} \cup Els(Tail(p)) /\ m \in Reply
  BY ElsTail
<1>2. Els(Append(q, r)) = Els(q) \cup {r} /\ Numbered(r)
  BY ElsAppend DEF Numbered
<1>3. /\ c.n = m.n /\ Numbered(m) /\ m.n \in Nat /\ c \in Els(v)
      /\ m.n # 0 => \A x \in Els(w) : x \in Els(v)
  BY <1>1, CopyOf, NumberType DEF Numbered
<1>4. \A x \in Els(w) : x.n \in Nat /\ x.n <= m.n
  <2>1. Els(w) \subseteq ChunkSet
    BY ElementOfSeq DEF Els
  <2> QED BY <1>1, <1>3, <2>1, NumberType DEF Ranked
<1> HIDE DEF m, c, v
<1>5. \A x \in Els(w) : x \in Els(v) \/ x.n = c.n
  BY <1>3, <1>4
<1>6. SUFFICES ASSUME NEW k \in Nat, k < n + 1
               PROVE  Found(Tail(p), Append(q, r), v, k)
                      \/ \E x \in Els(Tail(p)) : Final(x, last) /\ x.n <= k
  BY DEF Whole, v, m
<1>7. CASE k = n
  BY <1>2, <1>7 DEF Found
<1>8. CASE k # n
  <2>1. k < n
    BY <1>6, <1>8
  <2>2. Found(p, q, w, k) \/ \E x \in Els(p) : Final(x, last) /\ x.n <= k
    BY <2>1 DEF Whole
  <2>3. ASSUME NEW x \in Els(w), x.n = k PROVE Found(Tail(p), Append(q, r), v, k)
    BY <1>3, <1>5, <2>3 DEF Found
  <2>4. ASSUME NEW x \in Els(p) \cup Els(q), Numbered(x), x.n = k
        PROVE  Found(Tail(p), Append(q, r), v, k)
    BY <1>1, <1>2, <1>3, <2>4 DEF Found
  <2>5. ASSUME NEW x \in Els(p), Final(x, last), x.n <= k
        PROVE  \E y \in Els(Tail(p)) : Final(y, last) /\ y.n <= k
    BY <1>1, <2>5 DEF m
  <2> QED BY <2>2, <2>3, <2>4, <2>5 DEF Found
<1> QED BY <1>7, <1>8

\* An answer: the chunk that was asked for, or CNF if a final chunk is under way.
LEMMA WholeAnswer ==
  ASSUME NEW p \in Seq(Reply), NEW q \in Seq(Request), NEW w, NEW n, NEW last, NEW m \in Reply,
         q # <<>>, Ranked(p, q, w, n), Whole(p, q, w, n, last),
         Numbered(Head(q)) =>
           (Numbered(m) /\ m.n = Head(q).n) \/ \E x \in Els(p) : Final(x, last)
  PROVE  Whole(Append(p, m), Tail(q), w, n, last)
<1>1. Els(Append(p, m)) = Els(p) \cup {m} /\ Els(p) \subseteq Reply
  BY ElsAppend
<1>2. Els(q) = {Head(q)} \cup Els(Tail(q))
  BY ElsTail
<1>3. SUFFICES ASSUME NEW k \in Nat, k < n
               PROVE  Found(Append(p, m), Tail(q), w, k)
                      \/ \E x \in Els(Append(p, m)) : Final(x, last) /\ x.n <= k
  BY DEF Whole
<1>4. Found(p, q, w, k) \/ \E x \in Els(p) : Final(x, last) /\ x.n <= k
  BY <1>3 DEF Whole
<1>5. ASSUME Numbered(Head(q)), Head(q).n = k, NEW x \in Els(p), Final(x, last)
      PROVE  x.n <= k
  <2>1. <<x, Head(q)>> \in Strict /\ Numbered(x)
    BY <1>2, <1>5 DEF Ranked, Flow, Final, Numbered
  <2> QED BY <1>5, <2>1 DEF Strict
<1>6. ASSUME NEW x \in Els(p) \cup Els(q), Numbered(x), x.n = k
      PROVE  Found(Append(p, m), Tail(q), w, k) \/ \E y \in Els(p) : Final(y, last) /\ y.n <= k
  <2>1. CASE x = Head(q)
    BY <1>1, <1>5, <1>6, <2>1 DEF Found
  <2>2. CASE x # Head(q)
    BY <1>1, <1>2, <1>6, <2>2 DEF Found
  <2> QED BY <2>1, <2>2
<1> QED BY <1>1, <1>4, <1>6 DEF Found

\* The chunk that ends the transfer is the last one of the file, and all others are
\* in the copy by then.
LEMMA FinalCopy ==
  ASSUME NEW p \in Seq(Reply), NEW q \in Seq(Request), NEW w \in Seq(ChunkSet), NEW n \in Nat,
         NEW f \in DOMAIN Size, NEW c \in ChunkSizes,
         p # <<>>, Ranked(p, q, w, n), Genuine(f, c, p, q, w), Whole(p, q, w, n, LastChunk(f, c)),
         Final(Head(p), LastChunk(f, c))
  PROVE  Els(AppendTextToFile(w, Head(p))) = Els(Arriving(f, c))
<1> DEFINE m == Head(p)
<1> DEFINE v == AppendTextToFile(w, m)
<1> DEFINE last == LastChunk(f, c)
<1>1. Els(p) = {m} \cup Els(Tail(p)) /\ m \in Reply /\ m.flag = "DATAX"
  BY ElsTail DEF Final
<1>2. /\ last \in Nat
      /\ \A x : x \in Els(Arriving(f, c)) <=>
                  \E k \in Nat : k <= last /\ x = Parsed(Chunk(f, c, k))
  BY Pieces
<1>3. m.data = Chunk(f, c, m.n) /\ m.n \in Nat /\ m.n >= last /\ Numbered(m)
  BY <1>1, NumberType DEF Genuine, Final, Numbered
<1>4. /\ m.n = 0 => Els(v) = {Parsed(m.data)}
      /\ m.n # 0 => Els(v) = Els(w) \cup {Parsed(m.data)}
  BY <1>1, CopyOf
<1>5. \A x \in Els(Tail(p)) \cup Els(q) : Numbered(x) => m.n <= x.n
  BY <1>3, RankedTake
<1>6. m.n = 0 \/ m.n < n
  BY <1>1, <1>3 DEF Ranked
<1>7. \A x \in Els(w) : x = Parsed(Chunk(f, c, x.n)) /\ x.n < last
  BY DEF Genuine
<1>8. \A x \in Els(w) : x.n \in Nat
  <2>1. Els(w) \subseteq ChunkSet
    BY ElementOfSeq DEF Els
  <2> QED BY <2>1, NumberType
<1>9. \A x \in Els(p) \cup Els(q) : Numbered(x) => x.n \in Nat
  <2>1. Els(p) \subseteq Reply /\ Els(q) \subseteq Request
    BY ElementOfSeq DEF Els
  <2> QED BY <2>1, NumberType DEF Datagram
<1>10. \A k \in Nat : k < n =>
         Found(p, q, w, k) \/ \E x \in Els(p) : Final(x, last) /\ x.n <= k
  BY DEF Whole
<1> HIDE DEF m, v, last
<1>11. ASSUME NEW k \in Nat, k < n, k < m.n PROVE \E x \in Els(w) : x.n = k
  <2>1. ASSUME NEW x \in Els(p) \cup Els(q), Numbered(x) PROVE ~(x.n <= k)
    <3>1. m.n <= x.n
      BY <1>1, <1>3, <1>5, <2>1
    <3> QED BY <1>3, <1>9, <1>11, <2>1, <3>1
  <2>2. \A x \in Els(p) \cup Els(q) : Numbered(x) => x.n # k
    BY <2>1
  <2> QED BY <1>10, <1>11, <2>1, <2>2 DEF Found, Final, Numbered
<1>12. m.n = last
  <2> SUFFICES ASSUME m.n > last PROVE FALSE
    BY <1>2, <1>3
  <2>1. last < n /\ last < m.n
    BY <1>2, <1>3, <1>6
  <2>2. PICK x \in Els(w) : x.n = last
    BY <1>2, <1>11, <2>1
  <2> QED BY <1>2, <1>7, <2>2
<1>13. ASSUME NEW x \in Els(v) PROVE \E k \in Nat : k <= last /\ x = Parsed(Chunk(f, c, k))
  <2>1. CASE x = Parsed(m.data)
    BY <1>2, <1>3, <1>12, <2>1
  <2>2. CASE x \in Els(w)
    <3>1. x.n \in Nat /\ x.n <= last /\ x = Parsed(Chunk(f, c, x.n))
      BY <1>2, <1>7, <1>8, <2>2
    <3> QED BY <3>1
  <2> QED BY <1>4, <1>13, <2>1, <2>2
<1>14. ASSUME NEW k \in Nat, k <= last PROVE Parsed(Chunk(f, c, k)) \in Els(v)
  <2>1. CASE k = last
    BY <1>3, <1>4, <1>12, <2>1
  <2>2. CASE k # last
    <3>1. k < m.n /\ m.n # 0 /\ k < n
      BY <1>2, <1>3, <1>6, <1>12, <1>14, <2>2
    <3>2. PICK x \in Els(w) : x.n = k
      BY <1>11, <3>1
    <3> QED BY <1>4, <1>7, <3>1, <3>2
  <2> QED BY <2>1, <2>2
<1>15. \A x : x \in Els(v) <=> x \in Els(Arriving(f, c))
  BY <1>2, <1>13, <1>14
<1> QED BY <1>15 DEF v, m

\* The steps of a running client and of the server keep what is under way in order.
LEMMA BusyType ==
  ASSUME TypeOK, NEW h \in Host
  PROVE  /\ toServer[h] \in Seq(Request) /\ toClient[h] \in Seq(Reply)
         /\ written[h] \in Seq(ChunkSet) /\ chunkNo[h] \in Nat /\ sessionKey[h] \in Nat
         /\ name[h] \in Name /\ chunksize[h] \in ChunkSizes
BY DEF TypeOK

LEMMA BusyInitx ==
  ASSUME TypeOK, NEW h \in Host, Busy(h), ServerInitx(h)
  PROVE  Busy(h)'
<1> DEFINE p == toClient[h]
<1> DEFINE q == toServer[h]
<1> DEFINE m == Head(q)
<1> DEFINE f == name[h]
<1> DEFINE c == chunksize[h]
<1> DEFINE last == LastChunk(f, c)
<1>1. q # <<>> /\ m.flag = "INITX" /\ UNCHANGED clientVars /\ toServer'[h] = Tail(q)
  BY DEF ServerInitx, Arrived, Take, TypeOK
<1>2. p \in Seq(Reply) /\ q \in Seq(Request) /\ written[h] \in Seq(ChunkSet)
  BY BusyType
<1>3. Els(q) = {m} \cup Els(Tail(q)) /\ m \in Request /\ Setup(m) /\ ~Numbered(m)
  BY <1>1, <1>2, ElsTail DEF Setup, Numbered
<1>4. m.name = f /\ m.size = c
  BY <1>1, <1>3 DEF Busy, Genuine
<1>5. ASSUME NEW r \in Reply, toClient'[h] = Append(p, r), ~Numbered(r), ~IsCnf(r),
             r.flag = "ERROR" => r.error = "FNF" /\ f \notin DOMAIN Size,
             \A s \in DOMAIN valuesMap : s \in DOMAIN valuesMap' /\ valuesMap'[s] = valuesMap[s],
             \A s \in DOMAIN valuesMap' : s \notin DOMAIN valuesMap =>
               valuesMap'[s].file = f /\ valuesMap'[s].size = c /\ ~valuesMap'[s].cnf
      PROVE  Busy(h)'
  <2>1. Els(Append(p, r)) = Els(p) \cup {r}
    BY <1>2, ElsAppend
  <2>2. r.flag # "DATAX"
    BY <1>5 DEF Numbered
  <2>3. Ranked(Append(p, r), Tail(q), written[h], chunkNo[h])
    BY <1>1, <1>2, <1>3, <1>5, RankedAnswer DEF Busy
  <2>4. Genuine(f, c, Append(p, r), Tail(q), written[h])
    BY <1>3, <1>5, <2>1, <2>2 DEF Busy, Genuine
  <2>5. Preceded(Append(p, r), last)
    BY <1>2, <1>5, PrecededAppend DEF Busy
  <2>6. Whole(Append(p, r), Tail(q), written[h], chunkNo[h], last)
    BY <1>1, <1>2, <1>3, <1>5, WholeAnswer DEF Busy
  <2>7. Serving(h, valuesMap', Append(p, r), f, c)
    BY <1>5, <2>1 DEF Busy, Serving
  <2>8. Asking(h, valuesMap', Tail(q))
    BY <1>3, <1>5 DEF Busy, Asking, AnswersTo
  <2>9. Keyed(Append(p, r), Tail(q), sessionKey[h])
    BY <1>3, <1>5, <2>1 DEF Busy, Keyed
  <2> QED BY <1>1, <1>5, <2>3, <2>4, <2>5, <2>6, <2>7, <2>8, <2>9 DEF Busy, clientVars
<1>6. CASE f \in DOMAIN Size
  <2>1. toClient'[h] = Append(p, Sidxx(sid + 1))
    BY <1>4, <1>6 DEF ServerInitx, NextSid, Send, TypeOK
  <2>2. valuesMap' = [s \in DOMAIN valuesMap \cup {sid + 1} |->
                        IF s = sid + 1 THEN [ip |-> h, file |-> f, size |-> c, cnf |-> FALSE]
                                       ELSE valuesMap[s]]
    BY <1>4, <1>6 DEF ServerInitx, NextSid
  <2>3. sid + 1 \notin DOMAIN valuesMap /\ sid \in Nat
    BY DEF TypeOK
  <2>4. Sidxx(sid + 1) \in Reply /\ Sidxx(sid + 1).flag = "SIDXX"
    BY <2>3, Fields DEF Reply, Sidxx
  <2>5. ~Numbered(Sidxx(sid + 1)) /\ ~IsCnf(Sidxx(sid + 1))
    BY <2>4 DEF Numbered, IsCnf
  <2> HIDE DEF f, c
  <2>6. \A s \in DOMAIN valuesMap : s \in DOMAIN valuesMap' /\ valuesMap'[s] = valuesMap[s]
    BY <2>2, <2>3
  <2>7. \A s \in DOMAIN valuesMap' : s \notin DOMAIN valuesMap =>
          valuesMap'[s].file = f /\ valuesMap'[s].size = c /\ ~valuesMap'[s].cnf
    BY <2>2
  <2> QED BY <1>5, <2>1, <2>4, <2>5, <2>6, <2>7
<1>7. CASE f \notin DOMAIN Size
  <2>1. toClient'[h] = Append(p, Error("FNF")) /\ valuesMap' = valuesMap
    BY <1>4, <1>7 DEF ServerInitx, NextSid, Send, TypeOK
  <2>2. Error("FNF") \in Reply /\ Error("FNF").flag = "ERROR" /\ Error("FNF").error = "FNF"
    BY DEF Reply, Error
  <2>3. ~Numbered(Error("FNF")) /\ ~IsCnf(Error("FNF"))
    BY <2>2 DEF Numbered, IsCnf
  <2> QED BY <1>5, <1>7, <2>1, <2>2, <2>3
<1> QED BY <1>6, <1>7

LEMMA BusyGetxx ==
  ASSUME TypeOK, NEW h \in Host, Busy(h), ServerGetxx(h)
  PROVE  Busy(h)'
<1> DEFINE p == toClient[h]
<1> DEFINE q == toServer[h]
<1> DEFINE m == Head(q)
<1> DEFINE f == name[h]
<1> DEFINE c == chunksize[h]
<1> DEFINE last == LastChunk(f, c)
<1> DEFINE mv == valuesMap[m.sid]
<1>1. q # <<>> /\ m.flag = "GETXX" /\ UNCHANGED clientVars /\ toServer'[h] = Tail(q)
  BY DEF ServerGetxx, Arrived, Take, TypeOK
<1>2. p \in Seq(Reply) /\ q \in Seq(Request) /\ written[h] \in Seq(ChunkSet) /\ c \in ChunkSizes
  BY BusyType
<1>3. Els(q) = {m} \cup Els(Tail(q)) /\ m \in Request /\ Numbered(m)
  BY <1>1, <1>2, ElsTail DEF Numbered
<1>4. m.sid \in DOMAIN valuesMap /\ mv.ip = h
  BY <1>1, <1>3 DEF Busy, Asking, AnswersTo
<1>5. mv.file = f /\ mv.size = c /\ (mv.cnf => \E x \in Els(p) : Final(x, last))
  BY <1>4 DEF Busy, Serving
<1>6. mv \in MessageValues /\ f \in DOMAIN Size /\ m.n \in Nat
  <2>1. mv \in MessageValues
    BY <1>4 DEF TypeOK
  <2>2. mv.file \in DOMAIN Size
    BY <2>1 DEF MessageValues
  <2>3. m.n \in Nat
    BY <1>1, <1>3 DEF Request
  <2> QED BY <1>5, <2>1, <2>2, <2>3
<1> DEFINE len == ChunkLen(f, c, m.n)
<1> DEFINE data == Datax(m.n, len, Chunk(f, c, m.n))
<1>7. /\ len \in Nat /\ last \in Nat /\ (Short(len, c) <=> m.n >= last)
  BY <1>2, <1>6, ChunkLenType, ShortIffLast
<1>8. /\ data \in Reply /\ data.flag = "DATAX" /\ data.n = m.n /\ data.size = len
      /\ data.data = Chunk(f, c, m.n)
  BY <1>2, <1>6, <1>7 DEF Reply, Datax, Chunk, ChunkSet
<1>9. toClient'[h] = Append(p, IF mv.cnf THEN Error("CNF") ELSE data)
  BY <1>4, <1>5 DEF ServerGetxx, Send, TypeOK
<1>10. valuesMap' = [valuesMap EXCEPT ![m.sid].cnf = @ \/ Short(len, c)]
  BY <1>4, <1>5 DEF ServerGetxx
<1>11. /\ DOMAIN valuesMap' = DOMAIN valuesMap
       /\ \A s \in DOMAIN valuesMap : s # m.sid => valuesMap'[s] = valuesMap[s]
       /\ valuesMap'[m.sid] = [mv EXCEPT !.cnf = @ \/ Short(len, c)]
  <2> HIDE DEF len, m
  <2> QED BY <1>4, <1>10
<1>12. /\ valuesMap'[m.sid].ip = h /\ valuesMap'[m.sid].file = f /\ valuesMap'[m.sid].size = c
       /\ valuesMap'[m.sid].cnf => mv.cnf \/ Short(len, c)
  <2> HIDE DEF len, m, f, c
  <2> QED BY <1>4, <1>5, <1>6, <1>11 DEF MessageValues
<1>13. ASSUME NEW r \in Reply, toClient'[h] = Append(p, r),
              (mv.cnf /\ r = Error("CNF")) \/ (~mv.cnf /\ r = data)
       PROVE  Busy(h)'
  <2> HIDE DEF data
  <2>1. Els(Append(p, r)) = Els(p) \cup {r}
    BY <1>2, ElsAppend
  <2>2. /\ ~Setup(r)
        /\ Numbered(r) => r.n = m.n
        /\ ~Numbered(r) => mv.cnf /\ \E x \in Els(p) : Final(x, last)
        /\ IsCnf(r) => mv.cnf /\ \E x \in Els(p) : Final(x, last)
        /\ r.flag = "DATAX" => r = data
        /\ r.flag = "ERROR" => r.error = "CNF"
    <3>1. CASE r = data
      BY <1>8, <1>5, <1>13, <3>1 DEF Setup, Numbered, IsCnf
    <3>2. CASE r = Error("CNF") /\ mv.cnf
      BY <1>5, <3>2, Fields DEF Setup, Numbered, IsCnf
    <3> QED BY <1>13, <3>1, <3>2
  <2>3. Ranked(Append(p, r), Tail(q), written[h], chunkNo[h])
    BY <1>1, <1>2, <1>3, <2>2, RankedAnswer DEF Busy
  <2>4. Genuine(f, c, Append(p, r), Tail(q), written[h])
    BY <1>3, <1>6, <1>8, <2>1, <2>2 DEF Busy, Genuine
  <2>5. Preceded(Append(p, r), last)
    BY <1>2, <2>2, PrecededAppend DEF Busy
  <2>6. Whole(Append(p, r), Tail(q), written[h], chunkNo[h], last)
    BY <1>1, <1>2, <2>2, WholeAnswer DEF Busy
  <2>7. valuesMap'[m.sid].cnf => \E x \in Els(Append(p, r)) : Final(x, last)
    <3>1. CASE mv.cnf
      BY <1>5, <2>1, <3>1
    <3>2. CASE ~mv.cnf /\ Short(len, c)
      <4>1. Final(r, last) /\ r \in Els(Append(p, r))
        BY <1>7, <1>8, <1>13, <2>1, <3>2 DEF Final
      <4> QED BY <4>1
    <3> QED BY <1>12, <3>1, <3>2
  <2>8. Serving(h, valuesMap', Append(p, r), f, c)
    <3> SUFFICES ASSUME NEW s \in DOMAIN valuesMap', valuesMap'[s].ip = h
                 PROVE  /\ valuesMap'[s].file = f /\ valuesMap'[s].size = c
                        /\ valuesMap'[s].cnf => \E x \in Els(Append(p, r)) : Final(x, last)
      BY DEF Serving
    <3>1. CASE s = m.sid
      BY <1>12, <2>7, <3>1
    <3>2. CASE s # m.sid
      BY <1>11, <2>1, <3>2 DEF Busy, Serving
    <3> QED BY <3>1, <3>2
  <2>9. Asking(h, valuesMap', Tail(q))
    BY <1>3, <1>11, <1>12 DEF Busy, Asking, AnswersTo
  <2>10. Keyed(Append(p, r), Tail(q), sessionKey[h])
    BY <1>3 DEF Busy, Keyed
  <2> QED BY <1>1, <1>13, <2>3, <2>4, <2>5, <2>6, <2>8, <2>9, <2>10 DEF Busy, clientVars
<1>14. Error("CNF") \in Reply
  BY DEF Reply, Error
<1> HIDE DEF data
<1>15. CASE mv.cnf
  <2> DEFINE e == Error("CNF")
  <2>1. toClient'[h] = Append(p, e)
    BY <1>9, <1>15
  <2>2. e \in Reply /\ e = Error("CNF")
    BY <1>14
  <2>3. (mv.cnf /\ e = Error("CNF")) \/ (~mv.cnf /\ e = data)
    BY <1>15, <2>2
  <2> HIDE DEF e, p, mv
  <2> QED BY <1>13, <2>1, <2>2, <2>3
<1>16. CASE ~mv.cnf
  BY <1>8, <1>9, <1>13, <1>16
<1> QED BY <1>15, <1>16

LEMMA BusySid ==
  ASSUME TypeOK, IsolationInv, faults["restart"] = 0, NEW h \in Host, Busy(h), ClientSid(h)
  PROVE  Busy(h)' /\ pc'[h] = "running"
<1> DEFINE p == toClient[h]
<1> DEFINE q == toServer[h]
<1> DEFINE s == Head(p).sid
<1> DEFINE r == Getxx(s, 0)
<1> DEFINE last == LastChunk(name[h], chunksize[h])
<1>1. /\ p # <<>> /\ Head(p).flag = "SIDXX" /\ toClient'[h] = Tail(p)
      /\ toServer'[h] = Append(q, r) /\ sessionKey'[h] = s /\ pc'[h] = "running"
      /\ UNCHANGED <<name, chunksize, chunkNo, written, valuesMap>>
  BY DEF ClientSid, ClientReceives, Arrived, Send, Take, TypeOK, serverVars
<1>2. p \in Seq(Reply) /\ q \in Seq(Request) /\ written[h] \in Seq(ChunkSet) /\ chunkNo[h] \in Nat
  BY BusyType
<1>3. Els(p) = {Head(p)} \cup Els(Tail(p)) /\ Tail(p) \in Seq(Reply)
  BY <1>1, <1>2, ElsTail
<1>4. AnswersTo(valuesMap, h, s)
  BY <1>1, <1>2, AnnouncedTail DEF IsolationInv
<1>5. s \in Nat /\ s # 0
  <2>1. s \in 1..sid /\ sid \in Nat
    BY <1>4 DEF AnswersTo, TypeOK
  <2> QED BY <2>1
<1>6. r \in Request /\ r.flag = "GETXX" /\ r.n = 0 /\ r.sid = s
  BY <1>5, Fields DEF Getxx, Request
<1>7. chunkNo[h] = 0
  BY <1>1, <1>3 DEF Busy, Ranked, Setup
<1>8. Els(Append(q, r)) = Els(q) \cup {r}
  BY <1>2, <1>6, ElsAppend
<1>9. ~Final(Head(p), last) /\ ~Setup(r) /\ Numbered(r)
  BY <1>1, <1>6 DEF Final, Setup, Numbered
<1> HIDE DEF r, s, last
<1>10. Ranked(Tail(p), Append(q, r), written[h], chunkNo[h])
  <2>1. Ranked(Tail(p), q, written[h], chunkNo[h])
    BY <1>1, <1>2, RankedTake DEF Busy
  <2> QED BY <1>2, <1>3, <1>6, <1>7, <2>1, RankedGet
<1>11. Genuine(name[h], chunksize[h], Tail(p), Append(q, r), written[h])
  BY <1>3, <1>6, <1>8 DEF Busy, Genuine
<1>12. Preceded(Tail(p), last)
  BY <1>1, <1>2, <1>9, PrecededTail DEF Busy, last
<1>13. Whole(Tail(p), Append(q, r), written[h], chunkNo[h], last)
  BY <1>7 DEF Whole
<1>14. Serving(h, valuesMap, Tail(p), name[h], chunksize[h])
  BY <1>3, <1>9 DEF Busy, Serving, last
<1>15. Asking(h, valuesMap, Append(q, r))
  BY <1>4, <1>6, <1>8 DEF Busy, Asking
<1>16. Keyed(Tail(p), Append(q, r), s)
  BY <1>5 DEF Keyed
<1> QED BY <1>1, <1>10, <1>11, <1>12, <1>13, <1>14, <1>15, <1>16 DEF Busy, last

LEMMA BusyData ==
  ASSUME TypeOK, IsolationInv, faults["restart"] = 0, NEW h \in Host, Busy(h), ClientData(h)
  PROVE  \/ Busy(h)' /\ pc'[h] = "running"
         \/ /\ pc'[h] = "transmitted" /\ name[h] \in DOMAIN Size
            /\ Els(written'[h]) = Els(Arriving(name[h], chunksize[h]))
<1> DEFINE p == toClient[h]
<1> DEFINE q == toServer[h]
<1> DEFINE m == Head(p)
<1> DEFINE f == name[h]
<1> DEFINE c == chunksize[h]
<1> DEFINE n == chunkNo[h]
<1> DEFINE v == AppendTextToFile(written[h], m)
<1> DEFINE r == Getxx(sessionKey[h], n)
<1> DEFINE last == LastChunk(f, c)
<1>1. /\ p # <<>> /\ m.flag = "DATAX" /\ toClient'[h] = Tail(p) /\ written'[h] = v
      /\ pc[h] = "running" /\ UNCHANGED <<name, chunksize, sessionKey, valuesMap>>
  BY DEF ClientData, ClientReceives, Arrived, Take, TypeOK, serverVars
<1>2. p \in Seq(Reply) /\ q \in Seq(Request) /\ written[h] \in Seq(ChunkSet) /\ n \in Nat
      /\ sessionKey[h] \in Nat /\ c \in ChunkSizes
  BY BusyType
<1>3. Els(p) = {m} \cup Els(Tail(p)) /\ Tail(p) \in Seq(Reply) /\ m \in Reply /\ Numbered(m)
  BY <1>1, <1>2, ElsTail DEF Numbered
<1>4. f \in DOMAIN Size /\ m.size = ChunkLen(f, c, m.n) /\ m.data = Chunk(f, c, m.n)
  BY <1>1, <1>3 DEF Busy, Genuine
<1>5. m.n \in Nat /\ m.data.n = m.n
  BY <1>1, <1>3, <1>4, NumberType DEF Chunk
<1>6. last \in Nat /\ (Short(m.size, c) <=> m.n >= last)
  BY <1>2, <1>4, <1>5, ShortIffLast
<1>7. CASE Short(m.size, c)
  <2>1. pc'[h] = "transmitted"
    BY <1>7 DEF ClientData, TypeOK
  <2>2. Final(m, last)
    BY <1>1, <1>6, <1>7 DEF Final
  <2>3. Els(v) = Els(Arriving(f, c))
    BY <1>1, <1>2, <1>4, <2>2, FinalCopy DEF Busy
  <2> QED BY <1>1, <1>4, <2>1, <2>3
<1>8. CASE ~Short(m.size, c)
  <2>1. toServer'[h] = Append(q, r) /\ chunkNo'[h] = n + 1 /\ pc' = pc
    BY <1>8 DEF ClientData, Send, TypeOK
  <2>2. ~Final(m, last) /\ m.n < last
    BY <1>5, <1>6, <1>8 DEF Final
  <2>3. r \in Request /\ r.flag = "GETXX" /\ r.n = n /\ r.sid = sessionKey[h]
    BY <1>2, Fields DEF Getxx, Request
  <2>4. sessionKey[h] # 0
    BY <1>3 DEF Busy, Keyed
  <2>5. AnswersTo(valuesMap, h, sessionKey[h])
    BY <2>4 DEF IsolationInv
  <2>6. Els(Append(q, r)) = Els(q) \cup {r}
    BY <1>2, <2>3, ElsAppend
  <2>7. v \in Seq(ChunkSet) /\ \A x \in Els(v) : x \in Els(written[h]) \/ x = Parsed(m.data)
    <3> HIDE DEF m
    <3>1. /\ v \in Seq(ChunkSet)
          /\ Els(v) = {Parsed(m.data)} \/ Els(v) = Els(written[h]) \cup {Parsed(m.data)}
      BY <1>1, <1>2, <1>3, CopyOf
    <3> HIDE DEF v
    <3> QED BY <3>1
  <2>8. Parsed(m.data).n = m.n
    BY <1>1, <1>3, <1>5, <1>2, CopyOf
  <2> HIDE DEF m, r, v, last, n
  <2>9. Ranked(Tail(p), Append(q, r), v, n + 1)
    <3>1. Ranked(p, q, written[h], n)
      BY DEF Busy, n
    <3>2. Ranked(Tail(p), q, v, n)
      BY <1>1, <1>2, <1>5, <3>1, RankedData DEF m, v
    <3>3. \A x \in Els(Tail(p)) \cup Els(q) : ~Setup(x)
      BY <1>1, <1>2, <1>3, <3>1, RankedTake DEF m
    <3> QED BY <1>2, <1>3, <2>3, <2>7, <3>2, <3>3, RankedGet
  <2>10. Genuine(f, c, Tail(p), Append(q, r), v)
    <3>1. \A x \in Els(v) : x = Parsed(Chunk(f, c, x.n)) /\ x.n < last
      BY <1>4, <2>2, <2>7, <2>8 DEF Busy, Genuine, last
    <3> QED BY <1>3, <2>3, <2>6, <3>1 DEF Busy, Genuine, last
  <2>11. Preceded(Tail(p), last)
    BY <1>1, <1>2, <2>2, PrecededTail DEF Busy, last, m
  <2>12. Whole(Tail(p), Append(q, r), v, n + 1, last)
    <3>1. Ranked(p, q, written[h], n) /\ Whole(p, q, written[h], n, last)
      BY DEF Busy, n, last
    <3> QED BY <1>1, <1>2, <1>5, <2>2, <2>3, <3>1, WholeData DEF m, v
  <2>13. Serving(h, valuesMap, Tail(p), f, c)
    BY <1>3, <2>2 DEF Busy, Serving, last
  <2>14. Asking(h, valuesMap, Append(q, r))
    BY <2>3, <2>5, <2>6 DEF Busy, Asking
  <2>15. Keyed(Tail(p), Append(q, r), sessionKey[h])
    BY <2>4 DEF Keyed
  <2> QED BY <1>1, <2>1, <2>9, <2>10, <2>11, <2>12, <2>13, <2>14, <2>15 DEF Busy, last
<1> QED BY <1>7, <1>8

LEMMA BusyTwice ==
  ASSUME TypeOK, NEW h \in Host, Busy(h), Network(h, "duplicate")
  PROVE  Busy(h)'
<1> DEFINE p == toClient[h]
<1> DEFINE q == toServer[h]
<1>1. UNCHANGED <<clientVars, serverVars>>
  BY DEF Network
<1>2. p \in Seq(Reply) /\ q \in Seq(Request)
  BY BusyType
<1>3. ASSUME NEW P, NEW Q, toClient'[h] = P, toServer'[h] = Q, Els(P) = Els(p), Els(Q) = Els(q),
             Ranked(P, Q, written[h], chunkNo[h]), Preceded(P, LastChunk(name[h], chunksize[h]))
      PROVE  Busy(h)'
  <2>1. Genuine(name[h], chunksize[h], P, Q, written[h])
    BY <1>3 DEF Busy, Genuine
  <2>2. Whole(P, Q, written[h], chunkNo[h], LastChunk(name[h], chunksize[h]))
    BY <1>3 DEF Busy, Whole, Found
  <2>3. Serving(h, valuesMap, P, name[h], chunksize[h]) /\ Asking(h, valuesMap, Q)
        /\ Keyed(P, Q, sessionKey[h])
    BY <1>3 DEF Busy, Serving, Asking, Keyed
  <2> QED BY <1>1, <1>3, <2>1, <2>2, <2>3 DEF Busy, clientVars, serverVars
<1>4. CASE Len(q) >= Needs("duplicate") /\ toServer' = [toServer EXCEPT ![h] = Disturbed(@, "duplicate")]
           /\ UNCHANGED toClient
  <2>1. toServer'[h] = Disturbed(q, "duplicate")
    BY <1>4 DEF TypeOK
  <2>2. Els(Disturbed(q, "duplicate")) = Els(q)
        /\ Ranked(p, Disturbed(q, "duplicate"), written[h], chunkNo[h])
    BY <1>2, <1>4, RankedTwice DEF Busy
  <2>3. Preceded(p, LastChunk(name[h], chunksize[h]))
    BY DEF Busy
  <2> QED BY <1>3, <1>4, <2>1, <2>2, <2>3
<1>5. CASE Len(p) >= Needs("duplicate") /\ toClient' = [toClient EXCEPT ![h] = Disturbed(@, "duplicate")]
           /\ UNCHANGED toServer
  <2>1. toClient'[h] = Disturbed(p, "duplicate") /\ p # <<>>
    BY <1>2, <1>5 DEF TypeOK, Needs
  <2>2. Els(Disturbed(p, "duplicate")) = Els(p)
        /\ Ranked(Disturbed(p, "duplicate"), q, written[h], chunkNo[h])
    BY <1>2, <1>5, RankedTwice DEF Busy
  <2>3. Preceded(Disturbed(p, "duplicate"), LastChunk(name[h], chunksize[h]))
    BY <1>2, <2>1, PrecededTwice DEF Busy
  <2> QED BY <1>3, <1>5, <2>1, <2>2, <2>3
<1> QED BY <1>4, <1>5 DEF Network

LEMMA RepeatStep ==
  ASSUME TypeOK, TypeOK', IsolationInv, TidyInv, RepeatInv, [Next]_vars
  PROVE  RepeatInv'
<1>0. SUFFICES ASSUME OnlyDuplicates', NEW g \in Host, starts'[g] = 1
               PROVE  /\ pc'[g] \in {"running", "transmitted", "FNF"}
                      /\ pc'[g] = "running" => Busy(g)'
                      /\ pc'[g] = "transmitted" => Copied(name'[g], chunksize'[g], written'[g])
  BY DEF RepeatInv
<1>t. /\ toServer \in [Host -> Seq(Request)] /\ toClient \in [Host -> Seq(Reply)]
      /\ pc \in [Host -> {"idle", "running"} \cup Ended]
  BY DEF TypeOK
<1>1. OnlyDuplicates /\ \A k \in FaultKind \ {"duplicate"} : ~Fault(k)
  BY <1>0, FaultsStay DEF OnlyDuplicates
<1>2. faults["restart"] = 0 /\ OwnAnswers
  BY <1>1 DEF OnlyDuplicates, FaultKind, OwnAnswers
<1>3. /\ \A h \in Host : Own(valuesMap, h, toServer[h])
      /\ starts[g] = 0 => Fresh(g)
  BY <1>2 DEF TidyInv
<1>4. starts[g] \in Nat /\ (IF Start(g) THEN starts[g] = 0 ELSE starts[g] = 1)
  <2>1. starts[g] \in Nat /\ starts'[g] = (IF Start(g) THEN starts[g] + 1 ELSE starts[g])
    BY StartsGrow
  <2> QED BY <1>0, <2>1
<1>5. ASSUME ~Start(g)
      PROVE  /\ pc[g] \in {"running", "transmitted", "FNF"}
             /\ pc[g] = "running" => Busy(g)
             /\ pc[g] = "transmitted" => Copied(name[g], chunksize[g], written[g])
  BY <1>1, <1>4, <1>5 DEF RepeatInv
<1>6. CASE Start(g)
  <2>1. Fresh(g)
    BY <1>3, <1>4, <1>6
  <2>2. PICK f \in Name, a \in ChunkArg :
          /\ name' = [name EXCEPT ![g] = f] /\ chunksize' = [chunksize EXCEPT ![g] = Capped(a)]
          /\ toServer' = Send(toServer, g, Initx(Capped(a), f))
    BY <1>6 DEF Start
  <2> DEFINE r == Initx(Capped(a), f)
  <2>3. /\ pc'[g] = "running" /\ chunkNo'[g] = 0 /\ written'[g] = <<>> /\ toClient'[g] = <<>>
        /\ name'[g] = f /\ chunksize'[g] = Capped(a) /\ valuesMap' = valuesMap
        /\ toServer'[g] = Append(<<>>, r)
    BY <1>t, <1>6, <2>1, <2>2 DEF Start, Fresh, Send, TypeOK, serverVars
  <2>4. r \in Request /\ r.flag = "INITX" /\ r.name = f /\ r.size = Capped(a)
    BY CappedType, Fields DEF Initx, Request
  <2>5. Els(<<>>) = {} /\ Ordered(Strict, <<>>) /\ <<>> \in Seq(Request) /\ Len(<<>>) = 0
    BY ElsEmpty
  <2> HIDE DEF r
  <2>6. Els(Append(<<>>, r)) = {r}
    <3> DEFINE e == <<>>
    <3>1. e \in Seq(Request) /\ Els(e) = {}
      BY <2>5
    <3> HIDE DEF e
    <3>2. Els(Append(e, r)) = {r}
      BY <2>4, <3>1, ElsAppend
    <3> QED BY <3>2 DEF e
  <2>7. Ordered(Strict, Append(<<>>, r))
    BY <2>4, <2>5, StrictItself, OrderedAppend DEF Datagram
  <2>8. ~Numbered(r)
    BY <2>4 DEF Numbered
  <2>9. Ranked(<<>>, Append(<<>>, r), <<>>, 0)
    BY <2>5, <2>6, <2>7, <2>8 DEF Ranked, Flow
  <2>10. Genuine(f, Capped(a), <<>>, Append(<<>>, r), <<>>)
    BY <2>4, <2>5, <2>6 DEF Genuine
  <2>11. /\ Preceded(<<>>, LastChunk(f, Capped(a)))
         /\ Whole(<<>>, Append(<<>>, r), <<>>, 0, LastChunk(f, Capped(a)))
    BY <2>5 DEF Preceded, Whole
  <2>12. /\ Serving(g, valuesMap, <<>>, f, Capped(a))
         /\ Asking(g, valuesMap, Append(<<>>, r))
         /\ Keyed(<<>>, Append(<<>>, r), sessionKey'[g])
    BY <2>1, <2>4, <2>5, <2>6, <2>8 DEF Serving, Asking, Keyed, Fresh
  <2>13. Busy(g)'
    BY <2>3, <2>9, <2>10, <2>11, <2>12 DEF Busy
  <2> QED BY <2>3, <2>13
<1>7. ASSUME UNCHANGED <<clientVars, serverVars, toServer, toClient>>, ~Start(g)
      PROVE  /\ pc'[g] \in {"running", "transmitted", "FNF"}
             /\ pc'[g] = "running" => Busy(g)'
             /\ pc'[g] = "transmitted" => Copied(name'[g], chunksize'[g], written'[g])
  BY <1>5, <1>7 DEF Busy, clientVars, serverVars
<1>8. ASSUME UNCHANGED clientVars, ~Start(g), pc[g] = "running" => Busy(g)'
      PROVE  /\ pc'[g] \in {"running", "transmitted", "FNF"}
             /\ pc'[g] = "running" => Busy(g)'
             /\ pc'[g] = "transmitted" => Copied(name'[g], chunksize'[g], written'[g])
  BY <1>5, <1>8 DEF clientVars
<1>9. ASSUME NEW h \in Host, StepOf(h), h # g, ~Start(g)
      PROVE  /\ pc'[g] \in {"running", "transmitted", "FNF"}
             /\ pc'[g] = "running" => Busy(g)'
             /\ pc'[g] = "transmitted" => Copied(name'[g], chunksize'[g], written'[g])
  <2>1. Aside(g)
    BY <1>3, <1>9, OthersAside
  <2>2. Busy(g) => Busy(g)'
    BY <2>1 DEF Aside, Undisturbed, Busy, Serving, Asking, AnswersTo
  <2> QED BY <1>5, <1>9, <2>1, <2>2 DEF Aside, Undisturbed
<1>10. CASE PortClosed(g) /\ ~Start(g)
  BY <1>8, <1>10 DEF PortClosed
<1>11. CASE ServerReceive(g) /\ ~Start(g)
  <2>1. UNCHANGED clientVars
    BY <1>3, <1>11, ServerStep
  <2>2. pc[g] = "running" => Busy(g)'
    BY <1>5, <1>11, BusyInitx, BusyGetxx DEF ServerReceive
  <2> QED BY <1>8, <1>11, <2>1, <2>2
<1>12. ASSUME NEW k \in {"lose", "duplicate", "reorder"}, Network(g, k), ~Start(g)
       PROVE  /\ pc'[g] \in {"running", "transmitted", "FNF"}
              /\ pc'[g] = "running" => Busy(g)'
              /\ pc'[g] = "transmitted" => Copied(name'[g], chunksize'[g], written'[g])
  <2>1. k = "duplicate" /\ UNCHANGED clientVars
    BY <1>1, <1>12 DEF Network, FaultKind
  <2>2. pc[g] = "running" => Busy(g)'
    BY <1>5, <1>12, <2>1, BusyTwice
  <2> QED BY <1>8, <1>12, <2>1, <2>2
<1>13. CASE ClientError(g) /\ ~Start(g)
  <2> DEFINE p == toClient[g]
  <2>1. /\ pc[g] = "running" /\ p # <<>> /\ Head(p).flag = "ERROR"
        /\ Head(p).error # "NOS" => pc'[g] = Head(p).error
    BY <1>t, <1>13 DEF ClientError, ClientReceives, Arrived
  <2>2. Busy(g) /\ p \in Seq(Reply)
    BY <1>t, <1>5, <1>13, <2>1
  <2>3. Head(p) \in Els(p) /\ ~IsCnf(Head(p))
    BY <2>1, <2>2, ElsTail, PrecededHead DEF Busy
  <2>4. Head(p).error = "FNF"
    BY <2>1, <2>2, <2>3 DEF Busy, Genuine, IsCnf
  <2> QED BY <2>1, <2>4
<1>14. CASE ClientSid(g) /\ ~Start(g)
  <2>1. pc[g] = "running"
    BY <1>14 DEF ClientSid, ClientReceives
  <2> QED BY <1>2, <1>5, <1>14, <2>1, BusySid
<1>15. CASE ClientData(g) /\ ~Start(g)
  <2>1. pc[g] = "running" /\ UNCHANGED <<name, chunksize>>
    BY <1>15 DEF ClientData, ClientReceives
  <2>2. Busy(g)
    BY <1>5, <1>15, <2>1
  <2>3. \/ Busy(g)' /\ pc'[g] = "running"
        \/ pc'[g] = "transmitted" /\ Copied(name[g], chunksize[g], written'[g])
    BY <1>2, <1>15, <2>2, BusyData DEF Copied
  <2> QED BY <2>1, <2>3
<1>16. ~ServerRestart /\ \A h \in Host : ~SecondClient(h) /\ ~Kill(h)
  BY <1>1 DEF ServerRestart, SecondClient, Kill, FaultKind
<1>17. CASE UNCHANGED vars /\ ~Start(g)
  BY <1>7, <1>17 DEF vars
<1>18. CASE \E h \in Host : StepOf(h) /\ ~Start(g)
  <2>1. PICK h \in Host : StepOf(h) /\ ~Start(g)
    BY <1>18
  <2>2. CASE h = g
    BY <1>10, <1>11, <1>12, <1>13, <1>14, <1>15, <1>16, <2>1, <2>2 DEF StepOf, ClientReceive
  <2> QED BY <1>9, <2>1, <2>2
<1>19. UNCHANGED vars \/ \E h \in Host : StepOf(h)
  BY <1>16 DEF Next, StepOf
<1> QED BY <1>6, <1>17, <1>18, <1>19

\* However often datagrams are duplicated, on however many hosts: a client that
\* reports completion has every chunk of the file in its copy and nothing else.
THEOREM DuplicatesOnlyRepeatAlways == Spec => []DuplicatesOnlyRepeat
<1>1. Init => RepeatInv
  BY DEF Init, RepeatInv
<1>2. TypeOK /\ TypeOK' /\ IsolationInv /\ TidyInv /\ RepeatInv /\ [Next]_vars => RepeatInv'
  BY RepeatStep
<1>3. TypeOK /\ IsolationInv /\ RepeatInv => DuplicatesOnlyRepeat
  <2> SUFFICES ASSUME TypeOK, RepeatInv, OnlyDuplicates,
                      NEW h \in Host, pc[h] \in Completed, starts[h] = 1
               PROVE  {written[h][i] : i \in DOMAIN written[h]} =
                      {Arriving(name[h], chunksize[h])[i] :
                         i \in 1..(LastChunk(name[h], chunksize[h]) + 1)}
    BY DEF DuplicatesOnlyRepeat, OnlyDuplicates
  <2> DEFINE a == Arriving(name[h], chunksize[h])
  <2>1. name[h] \in DOMAIN Size /\ Els(written[h]) = Els(a)
    BY DEF RepeatInv, Completed, Copied
  <2>2. DOMAIN written[h] = 1..Len(written[h]) /\ chunksize[h] \in ChunkSizes
    BY DEF TypeOK
  <2>3. Len(a) = LastChunk(name[h], chunksize[h]) + 1
    BY <2>1, <2>2, Pieces
  <2> QED BY <2>1, <2>2, <2>3 DEF Els
<1> QED BY <1>1, <1>2, <1>3, TidyAlways, PTL DEF Spec

=============================================================================
