---------------------------- MODULE FileTransfer ----------------------------
(***************************************************************************)
(* The HSOSSTP file transfer of VS02 over UDP: one UDPServer, and on every *)
(* host at most one UDPClient that owns port 4710.  A client sends INITX,  *)
(* gets a session id with SIDXX and then pulls the file chunk by chunk     *)
(* (GETXX / DATAX) until a chunk is shorter than the chunk size.  There is *)
(* no timer and no retransmission.                                         *)
(*                                                                         *)
(* The network between the server and a host is a pair of queues.  The     *)
(* faults (datagrams lost, duplicated, reordered; the server restarted; a  *)
(* client killed; a second client started on a host whose port is taken)   *)
(* are actions of their own, each with a budget in MaxFaults and a counter *)
(* in "faults".                                                            *)
(***************************************************************************)
EXTENDS Naturals, Sequences, FiniteSets

CONSTANTS
  Host,           \* the client machines
  Name,           \* the file names a user may ask for
  Size,           \* the server's files: a function from some names to a size
  Delimited,      \* the files whose text parsing does not leave alone (; < > HSOSSTP_)
  DefaultName,    \* UDPClient.filename before the arguments are read
  ChunkArg,       \* the chunk sizes a user may give
  DefaultChunk,   \* the chunk size before the arguments are read
  MaxChunkSize,   \* UDPClient.maxChunkSize
  MaxStarts,      \* bound: client runs on each host
  MaxFaults,      \* bound: how often each fault may happen
  MaxTotal        \* bound: how many faults may happen in all

FaultKind == {"lose", "duplicate", "reorder", "restart", "second", "kill"}

ASSUME SizeAssumption ==
  /\ DefaultName \in Name
  /\ DOMAIN Size \subseteq Name
  /\ \A f \in DOMAIN Size : Size[f] \in Nat
  /\ Delimited \subseteq DOMAIN Size

ASSUME ChunkAssumption ==
  /\ ChunkArg \subseteq Nat \ {0}
  /\ DefaultChunk \in Nat \ {0}
  /\ MaxChunkSize \in Nat \ {0}

ASSUME BoundAssumption ==
  /\ MaxStarts \in [Host -> Nat]
  /\ MaxFaults \in [FaultKind -> Nat]
  /\ MaxTotal \in Nat

VARIABLES
  pc,          \* client: "idle", "running" or how the process ended
  name,        \* client: the file it asks for
  chunksize,   \* client: the chunk size it asks for
  chunkNo,     \* client: the static chunk counter
  sessionKey,  \* client: MessageReceiver.sessionKey, 0 before any SIDXX
  written,     \* the chunks in the client's copy of the file, in order
  sid,         \* server: the session counter
  valuesMap,   \* server: session id -> MessageValues
  toServer,    \* datagrams from a host to the server
  toClient,    \* datagrams from the server to port 4710 of a host
  starts,      \* client runs started so far, by host
  faults       \* faults that happened so far, by kind

clientVars == <<pc, name, chunksize, chunkNo, sessionKey, written>>
serverVars == <<sid, valuesMap>>
envVars    == <<starts, faults>>
vars == <<clientVars, serverVars, toServer, toClient, envVars>>

Ended     == {"FNF", "CNF", "transmitted", "killed"}
Completed == {"CNF", "transmitted"}   \* System.exit(2)

-----------------------------------------------------------------------------
(* Files and chunks.                                                       *)

\* How many bytes UDPServer.fileFunction reads for chunk n of file f.
ChunkLen(f, c, n) ==
  IF Size[f] < n * c THEN 0
  ELSE IF Size[f] - n * c < c THEN Size[f] - n * c ELSE c

\* A chunk of text; "stripped" tells whether MessageReceiver removed characters.
Chunk(f, c, n) == [file |-> f, size |-> c, n |-> n, stripped |-> FALSE]

\* parseString drops the separators and the protocol name from the payload.
Parsed(chunk) ==
  IF chunk.file \in Delimited THEN [chunk EXCEPT !.stripped = TRUE] ELSE chunk

\* Mutant: a full chunk counts as short.
ShortOrFull(len, c) == len <= c

\* A client stops at the first chunk shorter than the size it asked for.
Short(len, c) == len < c

LastChunk(f, c) == Size[f] \div c

\* File f as chunks of c, and what is left of it after parsing.
Original(f, c) == [i \in 1..(LastChunk(f, c) + 1) |-> Chunk(f, c, i - 1)]
Arriving(f, c) == [i \in 1..(LastChunk(f, c) + 1) |-> Parsed(Chunk(f, c, i - 1))]

-----------------------------------------------------------------------------
(* Datagrams.                                                              *)

Initx(c, f)     == [flag |-> "INITX", size |-> c, name |-> f]
Getxx(s, n)     == [flag |-> "GETXX", sid |-> s, n |-> n]
Sidxx(s)        == [flag |-> "SIDXX", sid |-> s]
Error(e)        == [flag |-> "ERROR", error |-> e]
Datax(n, len, chunk) == [flag |-> "DATAX", n |-> n, size |-> len, data |-> chunk]

ChunkSizes == Nat \ {0}
ChunkSet == [file : DOMAIN Size, size : ChunkSizes, n : Nat, stripped : BOOLEAN]
Request  == [flag : {"INITX"}, size : ChunkSizes, name : Name]
            \cup [flag : {"GETXX"}, sid : Nat, n : Nat]
Reply    == [flag : {"SIDXX"}, sid : Nat]
            \cup [flag : {"ERROR"}, error : {"FNF", "CNF", "NOS"}]
            \cup [flag : {"DATAX"}, n : Nat, size : Nat, data : ChunkSet]

MessageValues == [ip : Host, file : DOMAIN Size, size : ChunkSizes, cnf : BOOLEAN]

\* Mutant: the datagram handled last is handled again.
TakeNothing(chan, h) == chan

Send(chan, h, m)  == [chan EXCEPT ![h] = Append(@, m)]
Take(chan, h)     == [chan EXCEPT ![h] = Tail(@)]
Arrived(chan, h, flag) == chan[h] # <<>> /\ Head(chan[h]).flag = flag

TypeOK ==
  /\ pc \in [Host -> {"idle", "running"} \cup Ended]
  /\ name \in [Host -> Name]
  /\ chunksize \in [Host -> ChunkSizes]
  /\ chunkNo \in [Host -> Nat]
  /\ sessionKey \in [Host -> Nat]
  /\ written \in [Host -> Seq(ChunkSet)]
  /\ sid \in Nat
  /\ DOMAIN valuesMap \subseteq 1..sid
  /\ \A s \in DOMAIN valuesMap : valuesMap[s] \in MessageValues
  /\ toServer \in [Host -> Seq(Request)]
  /\ toClient \in [Host -> Seq(Reply)]
  /\ starts \in [Host -> Nat]
  /\ faults \in [FaultKind -> Nat]

Init ==
  /\ pc = [h \in Host |-> "idle"]
  /\ name = [h \in Host |-> DefaultName]
  /\ chunksize = [h \in Host |-> DefaultChunk]
  /\ chunkNo = [h \in Host |-> 0]
  /\ sessionKey = [h \in Host |-> 0]
  /\ written = [h \in Host |-> <<>>]
  /\ sid = 0
  /\ valuesMap = [s \in {} |-> {}]
  /\ toServer = [h \in Host |-> <<>>]
  /\ toClient = [h \in Host |-> <<>>]
  /\ starts = [h \in Host |-> 0]
  /\ faults = [k \in FaultKind |-> 0]

-----------------------------------------------------------------------------
(* The client.                                                             *)

Capped(arg) == IF arg > MaxChunkSize THEN MaxChunkSize ELSE arg

\* A user starts UDPClient: the arguments are read, the chunk size is capped
\* and the first INITX leaves.  The process begins with fresh static fields;
\* a copy of the file left by an earlier run stays until chunk 0 arrives.
Start(h) ==
  /\ pc[h] # "running" /\ starts[h] < MaxStarts[h]
  /\ \E f \in Name, arg \in ChunkArg :
       LET c == Capped(arg) IN
       /\ name' = [name EXCEPT ![h] = f]
       /\ chunksize' = [chunksize EXCEPT ![h] = c]
       /\ toServer' = Send(toServer, h, Initx(c, f))
  /\ pc' = [pc EXCEPT ![h] = "running"]
  /\ chunkNo' = [chunkNo EXCEPT ![h] = 0]
  /\ sessionKey' = [sessionKey EXCEPT ![h] = 0]
  /\ starts' = [starts EXCEPT ![h] = @ + 1]
  /\ UNCHANGED <<written, serverVars, toClient, faults>>

\* Mutant: no branch for ERROR.
ReceivesNoError(h, flag) ==
  pc[h] = "running" /\ Arrived(toClient, h, flag) /\ flag # "ERROR"

\* Whether the receive loop has a datagram of this flag at the head of port 4710.
ClientReceives(h, flag) == pc[h] = "running" /\ Arrived(toClient, h, flag)

\* ERROR: FNF and CNF end the process, NOS asks for a new session.
ClientError(h) ==
  /\ ClientReceives(h, "ERROR")
  /\ LET e == Head(toClient[h]).error IN
       IF e = "NOS"
       THEN /\ toServer' = Send(toServer, h, Initx(chunksize[h], name[h]))
            /\ UNCHANGED pc
       ELSE /\ pc' = [pc EXCEPT ![h] = e]
            /\ UNCHANGED toServer
  /\ toClient' = Take(toClient, h)
  /\ UNCHANGED <<name, chunksize, chunkNo, sessionKey, written, serverVars, envVars>>

\* SIDXX: remember the session and request the first chunk.  The number asked
\* for is MessageReceiver.chunkSize, which a client never sets: 0.
ClientSid(h) ==
  /\ ClientReceives(h, "SIDXX")
  /\ LET s == Head(toClient[h]).sid IN
       /\ sessionKey' = [sessionKey EXCEPT ![h] = s]
       /\ toServer' = Send(toServer, h, Getxx(s, 0))
  /\ toClient' = Take(toClient, h)
  /\ UNCHANGED <<pc, name, chunksize, chunkNo, written, serverVars, envVars>>

\* Mutant: an older copy is not deleted.
AppendAlways(copy, m) == Append(copy, Parsed(m.data))

\* AppendTextToFile: chunk 0 starts the file anew, any other one is appended.
AppendTextToFile(copy, m) ==
  IF m.n = 0 THEN <<Parsed(m.data)>> ELSE Append(copy, Parsed(m.data))

\* DATAX: write the text; stop at a short chunk, otherwise request chunkNo++.
ClientData(h) ==
  /\ ClientReceives(h, "DATAX")
  /\ LET m == Head(toClient[h]) IN
       /\ written' = [written EXCEPT ![h] = AppendTextToFile(@, m)]
       /\ IF Short(m.size, chunksize[h])
          THEN /\ pc' = [pc EXCEPT ![h] = "transmitted"]
               /\ UNCHANGED <<chunkNo, toServer>>
          ELSE /\ toServer' = Send(toServer, h, Getxx(sessionKey[h], chunkNo[h]))
               /\ chunkNo' = [chunkNo EXCEPT ![h] = @ + 1]
               /\ UNCHANGED pc
  /\ toClient' = Take(toClient, h)
  /\ UNCHANGED <<name, chunksize, sessionKey, serverVars, envVars>>

\* Nobody owns port 4710 of h: what arrives there is lost.
PortClosed(h) ==
  /\ pc[h] # "running" /\ toClient[h] # <<>>
  /\ toClient' = Take(toClient, h)
  /\ UNCHANGED <<clientVars, serverVars, toServer, envVars>>

ClientReceive(h) == ClientError(h) \/ ClientSid(h) \/ ClientData(h)

-----------------------------------------------------------------------------
(* The server: one loop, one datagram at a time, from any host.            *)

\* Mutants: the id is taken before sid++; a counter that is not static.
SidBeforeIncrement == sid
SidAlwaysFirst == 1

\* sid++
NextSid == sid + 1

\* INITX: a new session id; a session and SIDXX if the file exists, else FNF.
ServerInitx(h) ==
  /\ Arrived(toServer, h, "INITX")
  /\ sid' = NextSid
  /\ LET m == Head(toServer[h])
         mv == [ip |-> h, file |-> m.name, size |-> m.size, cnf |-> FALSE] IN
       IF m.name \in DOMAIN Size
       THEN /\ valuesMap' = [s \in DOMAIN valuesMap \cup {sid'} |->
                               IF s = sid' THEN mv ELSE valuesMap[s]]
            /\ toClient' = Send(toClient, mv.ip, Sidxx(sid'))
       ELSE /\ toClient' = Send(toClient, h, Error("FNF"))
            /\ UNCHANGED valuesMap
  /\ toServer' = Take(toServer, h)
  /\ UNCHANGED <<clientVars, envVars>>

\* GETXX: NOS for a session the server does not know.  Otherwise the chunk is
\* read and sent to the host that opened the session, or CNF if a short chunk
\* was read before; a short chunk sets the flag after the answer was chosen.
ServerGetxx(h) ==
  /\ Arrived(toServer, h, "GETXX")
  /\ LET m == Head(toServer[h]) IN
       IF m.sid \notin DOMAIN valuesMap
       THEN /\ toClient' = Send(toClient, h, Error("NOS"))
            /\ UNCHANGED valuesMap
       ELSE LET mv == valuesMap[m.sid]
                len == ChunkLen(mv.file, mv.size, m.n)
                data == Datax(m.n, len, Chunk(mv.file, mv.size, m.n)) IN
            /\ toClient' = Send(toClient, mv.ip, IF mv.cnf THEN Error("CNF") ELSE data)
            /\ valuesMap' = [valuesMap EXCEPT ![m.sid].cnf = @ \/ Short(len, mv.size)]
  /\ toServer' = Take(toServer, h)
  /\ UNCHANGED <<clientVars, sid, envVars>>

ServerReceive(h) == ServerInitx(h) \/ ServerGetxx(h)

-----------------------------------------------------------------------------
(* The environment.                                                        *)

AllFaults == UNION {{k} \X (1..faults[k]) : k \in FaultKind}

Fault(k) ==
  /\ faults[k] < MaxFaults[k]
  /\ Cardinality(AllFaults) < MaxTotal
  /\ faults' = [faults EXCEPT ![k] = @ + 1]
  /\ UNCHANGED starts

\* What a fault does to a queue that holds at least Needs(k) datagrams.  It
\* acts on the head: a datagram further back can wait until it is the head.
Needs(k) == IF k = "reorder" THEN 2 ELSE 1
Disturbed(q, k) ==
  CASE k = "lose"      -> Tail(q)
    [] k = "duplicate" -> <<Head(q)>> \o q
    [] k = "reorder"   -> [q EXCEPT ![1] = q[2], ![2] = q[1]]

\* UDP loses, duplicates or reorders datagrams between the server and h.
Network(h, k) ==
  /\ Fault(k)
  /\ \/ /\ Len(toServer[h]) >= Needs(k)
        /\ toServer' = [toServer EXCEPT ![h] = Disturbed(@, k)]
        /\ UNCHANGED toClient
     \/ /\ Len(toClient[h]) >= Needs(k)
        /\ toClient' = [toClient EXCEPT ![h] = Disturbed(@, k)]
        /\ UNCHANGED toServer
  /\ UNCHANGED <<clientVars, serverVars>>

\* The server process is stopped and started: its statics begin anew, and what
\* its socket had buffered (from any of the hosts) is gone.
ServerRestart ==
  /\ Fault("restart")
  /\ sid' = 0
  /\ valuesMap' = [s \in {} |-> {}]
  /\ \E buffered \in SUBSET Host :
       toServer' = [h \in Host |-> IF h \in buffered THEN <<>> ELSE toServer[h]]
  /\ UNCHANGED <<clientVars, toClient>>

\* A second UDPClient on h: binding port 4710 fails and is only reported, the
\* INITX leaves all the same, then the process ends with a null receiver.
SecondClient(h) ==
  /\ pc[h] = "running"
  /\ Fault("second")
  /\ \E f \in Name, arg \in ChunkArg :
       toServer' = Send(toServer, h, Initx(Capped(arg), f))
  /\ UNCHANGED <<clientVars, serverVars, toClient>>

\* The user ends a client that is waiting.
Kill(h) ==
  /\ pc[h] = "running"
  /\ Fault("kill")
  /\ pc' = [pc EXCEPT ![h] = "killed"]
  /\ UNCHANGED <<name, chunksize, chunkNo, sessionKey, written, serverVars,
                 toServer, toClient>>

Next ==
  \/ \E h \in Host :
       \/ Start(h) \/ ClientReceive(h) \/ PortClosed(h) \/ ServerReceive(h)
       \/ \E k \in {"lose", "duplicate", "reorder"} : Network(h, k)
       \/ SecondClient(h) \/ Kill(h)
  \/ ServerRestart

\* Both loops are single-threaded and never stop by themselves, and a socket
\* hands its datagrams over in the order in which they arrived: whatever has
\* arrived is handled.  Nobody has to start a client, and no fault has to happen.
Fairness == \A h \in Host : WF_vars(ClientReceive(h)) /\ WF_vars(ServerReceive(h))

Spec == Init /\ [][Next]_vars /\ Fairness

-----------------------------------------------------------------------------
(* Properties.                                                             *)

\* No fault has happened so far that the protocol has no answer to.  A lost or
\* reordered datagram is not one of those.
Calm == \A k \in {"duplicate", "restart", "second", "kill"} : faults[k] = 0

\* Stop and wait (the receive loops of UDPClient and UDPServer): for every host
\* at most one datagram is under way, so reordering has nothing to reorder.
StopAndWait ==
  Calm => \A h \in Host : Len(toServer[h]) + Len(toClient[h]) <= 1

\* A client that reports "File transmitted" or "File transfer completed" has,
\* chunk by chunk, the file it asked for, whatever was lost on the way -- as
\* far as MessageReceiver's parsing leaves the text alone.
CompleteMeansIntact ==
  Calm => \A h \in Host :
    pc[h] \in Completed =>
      IF name[h] \in Delimited
      THEN written[h] = Arriving(name[h], chunksize[h])
      ELSE written[h] = Original(name[h], chunksize[h])

\* The session a client uses is its own: while the server is not restarted, the
\* key a client holds names a session whose answers go to that client's host.
\* This also has to survive second clients, duplicates and killed clients.
SessionIsolation ==
  faults["restart"] = 0 => \A h \in Host :
    sessionKey[h] # 0 =>
      /\ sessionKey[h] \in DOMAIN valuesMap
      /\ valuesMap[sessionKey[h]].ip = h

\* No amplification: every datagram under way goes back to a client start, a
\* second client or a duplication; neither side ever answers one with two.
UnderWay ==
  UNION {({"up"} \X {h} \X DOMAIN toServer[h]) \cup ({"down"} \X {h} \X DOMAIN toClient[h])
           : h \in Host}
Runs == UNION {{h} \X (1..starts[h]) : h \in Host}
NoAmplification ==
  Cardinality(UnderWay) <= Cardinality(Runs) + faults["second"] + faults["duplicate"]

\* A client's copy never runs backwards: chunk 0 only ever starts it anew, and
\* every later chunk number was drawn from the one static counter.  Repeated
\* session set-ups (NOS, second clients, lost datagrams) must not break this; only
\* reordering, a session id reused for another host, or what an earlier run on the
\* host has left under way can.
InOrder ==
  faults["reorder"] = 0 /\ (faults["restart"] = 0 \/ \A g, h \in Host : g = h) =>
    \A h \in Host : starts[h] <= 1 => \A i, j \in DOMAIN written[h] :
      i < j => written[h][i].n <= written[h][j].n

\* Duplicated datagrams make a client repeat chunks (the server answers twice
\* and the client appends both) but never skip one: every chunk is there when it
\* reports completion, unless some other fault happened too or the datagrams of an
\* earlier run on this host came late.
DuplicatesOnlyRepeat ==
  (\A k \in FaultKind \ {"duplicate"} : faults[k] = 0) =>
    \A h \in Host : pc[h] \in Completed /\ starts[h] = 1 =>
      {written[h][i] : i \in DOMAIN written[h]} =
      {Arriving(name[h], chunksize[h])[i] : i \in 1..(LastChunk(name[h], chunksize[h]) + 1)}

\* A client ends by itself -- with the file, or because it does not exist -- as
\* long as no datagram is lost and the server's memory survives.  Nothing else
\* is needed: duplicates, second clients and late datagrams do not hang it.
TransferEnds ==
  \A h \in Host :
    pc[h] = "running" ~> pc[h] # "running" \/ faults["lose"] + faults["restart"] > 0

\* UDPClient.java:79 announces "Trying again..." when the server has forgotten
\* the session and :95 "File transmitted" at the end: the second attempt should
\* give the same file as an undisturbed one.
IntactAfterRetry ==
  (\A k \in {"duplicate", "second", "kill"} : faults[k] = 0) =>
    \A h \in Host : pc[h] = "transmitted" =>
      written[h] = Arriving(name[h], chunksize[h])

-----------------------------------------------------------------------------
(* The copy a user is promised, see FileCopy.  A client that has not seen a *)
(* DATAX yet still has whatever copy was there before.                      *)

TargetOf(f, c) == IF f \in DOMAIN Size THEN Arriving(f, c) ELSE <<>>

CopyTargets ==
  {TargetOf(f, c) : f \in Name, c \in {DefaultChunk} \cup {Capped(a) : a \in ChunkArg}}
CopyTarget == [h \in Host |-> TargetOf(name[h], chunksize[h])]
CopyStatus == [h \in Host |-> IF pc[h] # "running" THEN pc[h]
                              ELSE IF chunkNo[h] = 0 THEN "asked" ELSE "copying"]

Copy == INSTANCE FileCopy WITH
  Targets <- CopyTargets, target <- CopyTarget, status <- CopyStatus, copy <- written

\* The protocol implements the copying of a file, front to back, whatever is
\* lost or reordered.
CopiesTheFile == Copy!Spec

=============================================================================
