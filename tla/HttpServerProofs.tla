-------------------------- MODULE HttpServerProofs --------------------------
(***************************************************************************)
(* Proofs about the HTTP server, for every set of connections, requests    *)
(* and files, every chunk size and every limit: types, what an answer is   *)
(* made of, whose product a form gets, and why a connection is lost.       *)
(***************************************************************************)
EXTENDS HttpServer, FiniteSetTheorems, TLAPS

\* A file is what it was at the beginning until somebody changes it.
FilesInv == \A p \in DOMAIN FileSize \ edited : size[p] = FileSize[p]

\* A connection has a request as soon as it is let in.
RequestInv ==
  \A c \in Conn :
    /\ at[c] \notin {"new", "refused"} => req[c] # None
    /\ sent[c] # "nothing" => req[c] # None
    /\ at[c] \in {"new", "refused"} => sent[c] = "nothing" /\ c \notin gone

\* What is known of the file being sent.
Sends == pc \in {"head", "send"}
JobInv ==
  /\ Sends =>
       /\ sent[cur] = "whole" /\ req[cur].method \in {"GET", "POST"}
       /\ job.src \in Asked(cur) \/ Asked(cur) \cap edited # {}
       /\ job.src \in Conn \cup DOMAIN FileSize
       /\ req[cur].method = "POST" => job.src = cur /\ job.status = "post"
       /\ job.status = "404" => job.src = NotFound /\ cwd = "docroot"
       /\ pc = "send" \/ job.status # "404" =>
            /\ Length(job.src) \in Nat
            /\ job.src \notin edited => job.size = Length(job.src)
  /\ pc = "head" => job.r = 0

\* Nothing has been answered yet.
FreshInv ==
  \A c \in Conn :
    at[c] \in {"new", "queued", "refused"} \/ (pc \in {"read", "head"} /\ c = cur) =>
      body[c] = <<>> /\ clean[c]

Pieces(c, src) ==
  \A k \in DOMAIN body[c] :
    body[c][k].src = src /\ body[c][k].to = EndOf(Length(src), k)
Unstained(c, src) ==
  Length(src) < ChunkSize /\ src \in DOMAIN FileSize => clean[c] \/ Kind[src] = "other"

\* What has been sent of a file that nobody has changed, and where the server is
\* in it.
SendInv ==
  pc = "send" =>
    /\ job.src \notin edited => Pieces(cur, job.src) /\ Unstained(cur, job.src)
    /\ job.src \notin edited /\ cur \notin gone =>
         LET n == Length(job.src)
             k == Len(body[cur])
         IN  job.r = k * ChunkSize /\ (k = 0 \/ k * ChunkSize < n)
    /\ cur \notin gone => head[cur] # "none"

Done == {c \in Conn : at[c] \in {"over", "lost", "served"}}

Inv ==
  /\ TypeOK /\ FilesInv /\ RequestInv /\ JobInv /\ FreshInv /\ SendInv
  /\ OwnProduct /\ AnswerIsWhole
  /\ children <= Cardinality(Done) /\ LostOnlyFor

-----------------------------------------------------------------------------
(* Arithmetic of chunks.                                                   *)

LEMMA DivBounds ==
  ASSUME NEW a \in Nat, NEW b \in Nat \ {0}
  PROVE  /\ a \div b \in Nat /\ b * (a \div b) <= a /\ a < b * (a \div b) + b
OBVIOUS

LEMMA DivSmaller ==
  ASSUME NEW p \in Nat, NEW q \in Nat, NEW b \in Nat \ {0}, b * p < b * q + b
  PROVE  p <= q
<1> SUFFICES ASSUME q < p PROVE FALSE
  OBVIOUS
<1>1. PICK d \in Nat : p = q + 1 + d
  <2>1. p - q - 1 \in Nat /\ p = q + 1 + (p - q - 1)
    OBVIOUS
  <2> QED
    BY <2>1
<1>2. b * p = b * q + b + b * d /\ b * d >= 0
  BY <1>1
<1> QED
  BY <1>2

LEMMA DivUnique ==
  ASSUME NEW a \in Nat, NEW b \in Nat \ {0}, NEW q \in Nat, b * q <= a, a < b * q + b
  PROVE  a \div b = q
<1>1. PICK p \in Nat : p = a \div b /\ b * p <= a /\ a < b * p + b
  BY DivBounds
<1>2. p <= q /\ q <= p
  BY <1>1, DivSmaller
<1> QED
  BY <1>1, <1>2

\* The bytes of the next chunk of a file of n bytes when r have been read.
Take(n, r) == IF r >= n THEN 0 ELSE IF n - r < ChunkSize THEN n - r ELSE ChunkSize

LEMMA TakeType ==
  ASSUME NEW n \in Nat, NEW r \in Nat
  PROVE  Take(n, r) \in Nat /\ Take(n, r) <= ChunkSize /\ (Take(n, r) # 0 <=> r < n)
         /\ Take(n, r) <= n
BY HttpAssumption DEF Take

\* The loop of sendMessage from one chunk to the next.
LEMMA NextChunk ==
  ASSUME NEW n \in Nat, NEW r \in Nat, NEW k \in Nat,
         r = k * ChunkSize, k = 0 \/ k * ChunkSize < n
  PROVE  /\ r < n => r + Take(n, r) = EndOf(n, k + 1)
         /\ r + Take(n, r) = n /\ r < n => Chunks(n) = k + 1
         /\ ~(r < n) => k = 0 /\ n = 0 /\ Chunks(n) = 0
         /\ r + Take(n, r) # n => r + Take(n, r) = (k + 1) * ChunkSize
                                  /\ (k + 1) * ChunkSize < n
<1> DEFINE z == ChunkSize
<1>1. z \in Nat \ {0}
  BY HttpAssumption
<1>2. PICK m \in Nat : m = (k + 1) * z
  BY <1>1
<1>3. m = r + z
  BY <1>1, <1>2
<1>4. r < n => r + Take(n, r) = IF m < n THEN m ELSE n
  BY <1>1, <1>3 DEF Take
<1>5. EndOf(n, k + 1) = IF m < n THEN m ELSE n
  BY <1>2 DEF EndOf
<1>6. ASSUME r < n, m >= n PROVE Chunks(n) = k + 1
  <2>1. PICK a \in Nat : a = n + z - 1
    BY <1>1
  <2>2. z * (k + 1) = m
    BY <1>1, <1>2
  <2>3. z * (k + 1) <= a /\ a < z * (k + 1) + z
    BY <1>1, <1>3, <1>6, <2>1, <2>2
  <2> QED
    BY <1>1, <2>1, <2>3, DivUnique DEF Chunks
<1>7. ASSUME ~(r < n) PROVE k = 0 /\ n = 0 /\ Chunks(n) = 0
  <2>1. k = 0 /\ n = 0
    BY <1>1, <1>7
  <2>2. PICK a \in Nat : a = n + z - 1 /\ z * 0 <= a /\ a < z * 0 + z
    BY <1>1, <2>1
  <2> QED
    BY <1>1, <2>1, <2>2, DivUnique DEF Chunks
<1>8. r < n /\ ~(m < n) => r + Take(n, r) = n
  BY <1>4
<1>9. ~(r < n) => r + Take(n, r) = n
  <2> SUFFICES ASSUME ~(r < n) PROVE r + Take(n, r) = n
    OBVIOUS
  <2>1. r = 0 /\ n = 0
    BY <1>1, <1>7
  <2> QED
    BY <2>1 DEF Take
<1>10. r < n /\ r + Take(n, r) = n => m >= n
  BY <1>1, <1>3, <1>4
<1>11. r + Take(n, r) # n => m < n /\ r + Take(n, r) = m
  BY <1>1, <1>3, <1>4, <1>8, <1>9
<1> HIDE DEF z
<1>12. r + Take(n, r) # n => r + Take(n, r) = (k + 1) * ChunkSize /\ (k + 1) * ChunkSize < n
  BY <1>2, <1>11 DEF z
<1> QED
  BY <1>4, <1>5, <1>6, <1>7, <1>10, <1>12

-----------------------------------------------------------------------------
(* Types.                                                                  *)

LEMMA Known ==
  /\ IsFiniteSet(Conn) /\ DOMAIN FileSize \subseteq Page
  /\ Index \in Page /\ NotFound \in Page /\ Result \in Page /\ NotFound \in DOMAIN FileSize
  /\ Result \notin DOMAIN FileSize
  /\ ChunkSize \in Nat \ {0} /\ MaxChildren \in Nat /\ MaxStarts \in Nat /\ Backlog \in Nat
  /\ Editable \subseteq DOMAIN FileSize /\ None \notin Conn /\ None \notin Nat
  /\ None \notin Job /\ None \notin Request /\ Page \cap Conn = {}
  /\ ResultSize \in Nat /\ \A p \in DOMAIN FileSize : FileSize[p] \in Nat
  /\ Kind[NotFound] = "html"
  /\ \A c \in Conn : Wants[c] \subseteq Request
BY HttpAssumption, NoneAssumption DEF ResultSize

LEMMA InitInv == Init => Inv
<1> SUFFICES ASSUME Init PROVE Inv
  OBVIOUS
<1>1. TypeOK
  <2>1. size \in [DOMAIN FileSize -> Nat \cup {None}]
    BY HttpAssumption DEF Init
  <2>2. /\ result \in [Dir -> Conn \cup {None}] /\ req \in [Conn -> Request \cup {None}]
        /\ queue \in Seq(Conn) /\ body \in [Conn -> Seq(Piece)] /\ clean \in [Conn -> BOOLEAN]
        /\ children \in 0..MaxChildren /\ starts \in 0..MaxStarts
    BY Known DEF Init
  <2> QED
    BY <2>1, <2>2, Known DEF Init, TypeOK, Dir
<1>2. FilesInv /\ RequestInv /\ JobInv /\ FreshInv /\ SendInv
  BY DEF Init, FilesInv, RequestInv, JobInv, FreshInv, SendInv, Sends
<1>3. OwnProduct /\ AnswerIsWhole
  BY DEF Init, OwnProduct, AnswerIsWhole
<1>4. LostOnlyFor /\ Done = {}
  BY DEF Init, LostOnlyFor, Done
<1>5. children <= Cardinality(Done)
  BY <1>4, FS_EmptySet DEF Init
<1> QED
  BY <1>1, <1>2, <1>3, <1>4, <1>5 DEF Inv

\* The part of the type invariant that ties the server to its connections.
ControlOK ==
  /\ pc \in {"off", "accept", "read", "head", "send"}
  /\ cur \in Conn \cup {None}
  /\ queue \in Seq(Conn)
  /\ at \in [Conn -> {"new", "queued", "served", "over", "lost", "refused"}]
  /\ children \in 0..MaxChildren /\ cwd \in Dir
  /\ pc \in {"read", "head", "send"} <=> cur # None
  /\ \A c \in Conn : at[c] = "served" <=> c = cur
  /\ \A c \in Conn : at[c] = "queued" <=> \E i \in DOMAIN queue : queue[i] = c
  /\ \A i, j \in DOMAIN queue : queue[i] = queue[j] => i = j

LEMMA TypeControl == TypeOK => ControlOK /\ (pc \in {"head", "send"} <=> job # None)
BY DEF TypeOK, ControlOK

\* What else a step has to keep.
DataOK ==
  /\ job \in Job \cup {None} /\ (pc \in {"head", "send"} <=> job # None)
  /\ result \in [Dir -> Conn \cup {None}]
  /\ size \in [DOMAIN FileSize -> Nat \cup {None}]
  /\ req \in [Conn -> Request \cup {None}]
  /\ sent \in [Conn -> {"nothing", "head", "whole"}]
  /\ gone \in SUBSET Conn
  /\ head \in [Conn -> {"none", "cut", "200"}]
  /\ body \in [Conn -> Seq(Piece)]
  /\ clean \in [Conn -> BOOLEAN]
  /\ starts \in 0..MaxStarts
  /\ edited \in SUBSET Editable

LEMMA TypeParts == TypeOK <=> ControlOK /\ DataOK
BY DEF TypeOK, ControlOK, DataOK

LEMMA TypeNext == ControlOK' /\ DataOK' => TypeOK'
BY DEF TypeOK, ControlOK, DataOK

LEMMA CloseControl ==
  ASSUME ControlOK, cur # None, Close, queue' = queue, children' = children, cwd' \in Dir
  PROVE  ControlOK' /\ pc' = "accept" /\ job' = None
BY Known DEF ControlOK, Close

LEMMA DieControl ==
  ASSUME ControlOK, Die
  PROVE  ControlOK' /\ pc' = "off" /\ job' = None
<1>1. cur' = None /\ queue' = <<>> /\ children' = 0 /\ cwd' = "start" /\ pc' = "off" /\ job' = None
  BY DEF Die
<1>2. \A c \in Conn : at'[c] = IF at[c] \in {"queued", "served"} THEN "lost" ELSE at[c]
  BY DEF Die
<1>3. at' \in [Conn -> {"new", "queued", "served", "over", "lost", "refused"}]
  BY DEF Die, ControlOK
<1>4. \A c \in Conn : at'[c] # "served" /\ at'[c] # "queued" /\ c # cur'
  BY <1>1, <1>2, Known
<1>5. queue' \in Seq(Conn) /\ DOMAIN queue' = {}
  BY <1>1
<1> QED
  BY <1>1, <1>3, <1>4, <1>5, Known DEF ControlOK, Dir

LEMMA SameControl ==
  ASSUME ControlOK, UNCHANGED <<cur, queue, at, children>>, cwd' \in Dir,
         pc' \in {"off", "accept", "read", "head", "send"},
         pc' \in {"read", "head", "send"} <=> cur # None
  PROVE  ControlOK'
BY DEF ControlOK

LEMMA AcceptControl ==
  ASSUME ControlOK, Accept
  PROVE  ControlOK' /\ pc' = "read" /\ cur' = Head(queue) /\ cur' \in Conn /\ at[cur'] = "queued"
         /\ cur = None
<1> DEFINE n == Len(queue)
           h == Head(queue)
<1>1. /\ n \in Nat /\ n >= 1 /\ DOMAIN queue = 1..n /\ queue \in Seq(Conn)
      /\ h = queue[1] /\ h \in Conn /\ cur = None
  BY DEF ControlOK, Accept
<1>2. /\ Tail(queue) \in Seq(Conn) /\ Len(Tail(queue)) = n - 1 /\ DOMAIN Tail(queue) = 1..(n - 1)
      /\ \A i \in 1..(n - 1) : Tail(queue)[i] = queue[i + 1]
  BY <1>1
<1>3. /\ queue' = Tail(queue) /\ cur' = h /\ pc' = "read" /\ at' = [at EXCEPT ![h] = "served"]
      /\ children' = children + 1 /\ children < MaxChildren /\ cwd' = cwd
  BY DEF Accept, Waiting
<1>4. at[h] = "queued"
  BY <1>1 DEF ControlOK
<1> HIDE DEF n, h
<1>5. \A i, j \in DOMAIN queue' : queue'[i] = queue'[j] => i = j
  <2> SUFFICES ASSUME NEW i \in 1..(n - 1), NEW j \in 1..(n - 1), queue[i + 1] = queue[j + 1]
               PROVE  i = j
    BY <1>2, <1>3
  <2>1. i + 1 \in DOMAIN queue /\ j + 1 \in DOMAIN queue
    BY <1>1
  <2>2. i + 1 = j + 1
    BY <2>1 DEF ControlOK
  <2> QED
    BY <1>1, <2>2
<1>6. \A c \in Conn : at'[c] = "queued" <=> \E i \in DOMAIN queue' : queue'[i] = c
  <2> SUFFICES ASSUME NEW c \in Conn
               PROVE  at'[c] = "queued" <=> \E i \in 1..(n - 1) : queue[i + 1] = c
    BY <1>2, <1>3
  <2>1. at[c] = "queued" <=> \E i \in 1..n : queue[i] = c
    BY <1>1 DEF ControlOK
  <2>2. CASE c = h
    <3>1. \A i \in 1..(n - 1) : queue[i + 1] # c
      <4> SUFFICES ASSUME NEW i \in 1..(n - 1), queue[i + 1] = c PROVE FALSE
        OBVIOUS
      <4>1. i + 1 \in DOMAIN queue /\ 1 \in DOMAIN queue /\ i + 1 # 1
        BY <1>1
      <4> QED
        BY <1>1, <2>2, <4>1 DEF ControlOK
    <3> QED
      BY <1>3, <2>2, <3>1 DEF ControlOK
  <2>3. CASE c # h
    <3>1. at'[c] = at[c]
      BY <1>3, <2>3 DEF ControlOK
    <3>2. ASSUME NEW i \in 1..n, queue[i] = c PROVE \E j \in 1..(n - 1) : queue[j + 1] = c
      <4>1. i # 1
        BY <1>1, <2>3, <3>2
      <4>2. i - 1 \in 1..(n - 1) /\ (i - 1) + 1 = i
        BY <1>1, <4>1
      <4> QED
        BY <3>2, <4>2
    <3>3. ASSUME NEW i \in 1..(n - 1), queue[i + 1] = c PROVE \E j \in 1..n : queue[j] = c
      <4>1. i + 1 \in 1..n
        BY <1>1
      <4> QED
        BY <3>3, <4>1
    <3> QED
      BY <2>1, <3>1, <3>2, <3>3
  <2> QED
    BY <2>2, <2>3
<1>7. \A c \in Conn : at'[c] = "served" <=> c = cur'
  <2>1. \A c \in Conn : at[c] # "served"
    BY <1>1, Known DEF ControlOK
  <2> QED
    BY <1>1, <1>3, <2>1 DEF ControlOK
<1>8. at' \in [Conn -> {"new", "queued", "served", "over", "lost", "refused"}]
  BY <1>3 DEF ControlOK
<1>9. children' \in 0..MaxChildren /\ cur' # None
  BY <1>1, <1>3, Known DEF ControlOK
<1> QED
  BY <1>1, <1>2, <1>3, <1>4, <1>5, <1>6, <1>7, <1>8, <1>9 DEF ControlOK

LEMMA ConnectControl ==
  ASSUME ControlOK, NEW c \in Conn, Connect(c)
  PROVE  ControlOK'
<1> DEFINE n == Len(queue)
<1>1. /\ queue' = Append(queue, c) /\ at' = [at EXCEPT ![c] = "queued"] /\ at[c] = "new"
      /\ UNCHANGED <<pc, cur, cwd, children>>
  BY DEF Connect
<1>2. /\ n \in Nat /\ queue' \in Seq(Conn) /\ DOMAIN queue = 1..n /\ DOMAIN queue' = 1..(n + 1)
      /\ queue'[n + 1] = c /\ \A i \in 1..n : queue'[i] = queue[i]
  BY <1>1 DEF ControlOK
<1> HIDE DEF n
<1>3. \A i \in 1..n : queue[i] # c
  BY <1>1, <1>2 DEF ControlOK
<1>4. \A i, j \in DOMAIN queue' : queue'[i] = queue'[j] => i = j
  <2> SUFFICES ASSUME NEW i \in 1..(n + 1), NEW j \in 1..(n + 1), queue'[i] = queue'[j]
               PROVE  i = j
    BY <1>2
  <2>1. CASE i = n + 1 /\ j # n + 1
    BY <1>2, <1>3, <2>1
  <2>2. CASE i # n + 1 /\ j = n + 1
    BY <1>2, <1>3, <2>2
  <2>3. CASE i # n + 1 /\ j # n + 1
    <3>1. i \in 1..n /\ j \in 1..n
      BY <1>2, <2>3
    <3> QED
      BY <1>2, <3>1 DEF ControlOK
  <2> QED
    BY <2>1, <2>2, <2>3
<1>5. \A d \in Conn : at'[d] = "queued" <=> \E i \in DOMAIN queue' : queue'[i] = d
  <2> SUFFICES ASSUME NEW d \in Conn
               PROVE  at'[d] = "queued" <=> \E i \in 1..(n + 1) : queue'[i] = d
    BY <1>2
  <2>1. n + 1 \in 1..(n + 1) /\ 1..n \subseteq 1..(n + 1)
    BY <1>2
  <2>2. CASE d = c
    BY <1>1, <1>2, <2>1, <2>2 DEF ControlOK
  <2>3. CASE d # c
    <3>1. at'[d] = at[d] /\ (at[d] = "queued" <=> \E i \in 1..n : queue[i] = d)
      BY <1>1, <1>2, <2>3 DEF ControlOK
    <3>2. \A i \in 1..(n + 1) : queue'[i] = d => i \in 1..n /\ queue[i] = d
      BY <1>2, <2>3
    <3> QED
      BY <1>2, <2>1, <3>1, <3>2
  <2> QED
    BY <2>2, <2>3
<1>6. /\ at' \in [Conn -> {"new", "queued", "served", "over", "lost", "refused"}]
      /\ \A d \in Conn : at'[d] = "served" <=> d = cur'
  BY <1>1 DEF ControlOK
<1> QED
  BY <1>1, <1>2, <1>4, <1>5, <1>6 DEF ControlOK

\* Of the file being sent the length is known.
LEMMA LengthKnown ==
  ASSUME TypeOK, JobInv, Sends, pc = "send" \/ job.status # "404"
  PROVE  Length(job.src) \in Nat /\ job \in Job
BY TypeParts DEF JobInv, Sends, DataOK

LEMMA ReadType ==
  ASSUME TypeOK, JobInv, pc = "send"
  PROVE  /\ job \in Job /\ Length(job.src) \in Nat /\ Read = Take(Length(job.src), job.r)
         /\ Read \in Nat
<1>1. job \in Job /\ Length(job.src) \in Nat
  BY LengthKnown DEF Sends
<1>2. Read = Take(Length(job.src), job.r)
  BY <1>1 DEF Read, Take, Job
<1> QED
  BY <1>1, <1>2, TakeType DEF Job

LEMMA OpenedType ==
  ASSUME NEW src \in Source, NEW n \in Nat, NEW status \in {"200", "404", "post"}
  PROVE  Opened(src, n, status) \in Job /\ Opened(src, n, status) # None
BY Known DEF Opened, Job

\* Opening a page that is there gives a file whose length is known.
LEMMA FoundLength ==
  ASSUME TypeOK, NEW d \in Dir, NEW page \in Page, Found(d, page)
  PROVE  /\ SourceOf(d, page) \in Conn \cup DOMAIN FileSize /\ SourceOf(d, page) \in Source
         /\ Length(SourceOf(d, page)) \in Nat
         /\ page # Result => SourceOf(d, page) = page
         /\ page = Result => SourceOf(d, page) \in Conn
<1>1. CASE page = Result
  BY <1>1, Known DEF TypeOK, Found, SourceOf, Source, Length
<1>2. CASE page # Result
  BY <1>2, Known DEF TypeOK, Found, SourceOf, Source, Length
<1> QED
  BY <1>1, <1>2

LEMMA ReadTyped ==
  ASSUME TypeOK, RequestInv,
         ReadNothing \/ ReadHalf \/ ReadOther \/ ReadFavicon \/ ReadBare
  PROVE  TypeOK'
<1>1. ControlOK /\ DataOK /\ cur # None
  BY TypeParts DEF ReadNothing, ReadHalf, ReadOther, ReadFavicon, ReadBare, Readable, ControlOK
<1>2. ControlOK' /\ pc' \in {"off", "accept"} /\ job' = None
  <2>1. CASE ReadNothing \/ ReadOther
    <3>1. Die \/ (Close /\ cwd' = cwd /\ UNCHANGED <<queue, children>>)
      BY <2>1 DEF ReadNothing, ReadOther, DieOrClose
    <3> QED
      BY <1>1, <3>1, CloseControl, DieControl DEF ControlOK
  <2>2. CASE ReadHalf \/ ReadBare
    BY <1>1, <2>2, DieControl DEF ReadHalf, ReadBare
  <2>3. CASE ReadFavicon
    BY <1>1, <2>3, CloseControl DEF ReadFavicon, Chdir, Dir
  <2> QED
    BY <2>1, <2>2, <2>3
<1>3. UNCHANGED <<files, req, sent, gone, answer, starts, edited>>
  BY DEF ReadNothing, ReadHalf, ReadOther, ReadFavicon, ReadBare, DieOrClose
<1>4. DataOK'
  BY <1>1, <1>2, <1>3 DEF DataOK, files, answer
<1> QED
  BY <1>2, <1>4, TypeNext

LEMMA ServeTyped ==
  ASSUME TypeOK, RequestInv, JobInv, Serve
  PROVE  TypeOK'
<1>0. ControlOK /\ DataOK
  BY TypeParts
<1>1. CASE Accept
  <2>1. ControlOK' /\ pc' = "read" /\ job' = job /\ pc = "accept"
    BY <1>0, <1>1, AcceptControl DEF Accept
  <2>2. DataOK'
    BY <1>0, <1>1, <2>1 DEF Accept, DataOK, files, answer
  <2> QED
    BY <2>1, <2>2, TypeNext
<1>2. CASE NoChild \/ BrokenPipe
  <2>1. ControlOK' /\ pc' = "off" /\ job' = None
    BY <1>0, <1>2, DieControl DEF NoChild, BrokenPipe
  <2>2. DataOK'
    BY <1>0, <1>2, <2>1 DEF NoChild, BrokenPipe, DataOK, files, answer
  <2> QED
    BY <2>1, <2>2, TypeNext
<1>3. CASE ReadGet
  <2>1. /\ pc = "read" /\ pc' = "head" /\ cwd' = "docroot" /\ cur \in Conn /\ req[cur] \in Request
        /\ UNCHANGED <<cur, children, queue, files, browser, answer, starts, edited>>
    BY <1>0, <1>3, Known DEF ReadGet, Readable, Chdir, ControlOK, DataOK, RequestInv
  <2>2. job' \in Job /\ job' # None
    <3> DEFINE page == req[cur].page
    <3>1. page \in Page /\ cwd' \in Dir
      BY <2>1 DEF Request, Dir
    <3>2. PICK d \in Dir : d = cwd'
      BY <3>1
    <3>3. job' = IF Found(d, page) THEN Opened(SourceOf(d, page), Length(SourceOf(d, page)), "200")
                 ELSE Opened(NotFound, 0, "404")
      BY <1>3, <3>2 DEF ReadGet
    <3>4. CASE Found(d, page)
      <4>1. PICK src \in Source, n \in Nat : src = SourceOf(d, page) /\ n = Length(src)
        BY <3>1, <3>4, FoundLength
      <4>2. job' = Opened(src, n, "200")
        BY <3>3, <3>4, <4>1
      <4> QED
        BY <4>2, OpenedType
    <3>5. CASE ~Found(d, page)
      <4>1. NotFound \in Source /\ 0 \in Nat
        BY Known DEF Source
      <4> QED
        BY <3>3, <3>5, <4>1, OpenedType
    <3> QED
      BY <3>4, <3>5
  <2>3. ControlOK'
    BY <1>0, <2>1, SameControl DEF ControlOK, browser, Dir
  <2>4. DataOK'
    BY <1>0, <2>1, <2>2 DEF DataOK, files, browser, answer
  <2> QED
    BY <2>3, <2>4, TypeNext
<1>4. CASE ReadPost
  <2>1. /\ pc = "read" /\ pc' = "head" /\ cur \in Conn /\ req[cur] \in Request
        /\ result' = [result EXCEPT ![cwd] = cur] /\ cwd \in Dir
        /\ UNCHANGED <<cur, cwd, children, queue, size, browser, answer, starts, edited>>
    BY <1>0, <1>4, Known DEF ReadPost, Readable, ControlOK, DataOK, RequestInv
  <2>2. job' = Opened(cur, ResultSize, "post")
    BY <1>0, <1>4, <2>1 DEF ReadPost, Reopened, DataOK
  <2>3. job' \in Job /\ job' # None
    BY <2>1, <2>2, OpenedType, Known DEF Source
  <2>4. ControlOK'
    BY <1>0, <2>1, SameControl DEF ControlOK, browser, Dir
  <2>5. DataOK'
    BY <1>0, <2>1, <2>3 DEF DataOK, browser, answer
  <2> QED
    BY <2>4, <2>5, TypeNext
<1>5. CASE WriteHead
  <2>1. /\ pc = "head" /\ pc' = "send" /\ job \in Job
        /\ UNCHANGED <<cur, cwd, children, queue, files, browser, body, clean, starts, edited>>
    BY <1>0, <1>5 DEF WriteHead, DataOK
  <2>2. head' \in [Conn -> {"none", "cut", "200"}]
    BY <1>0, <1>5 DEF WriteHead, DataOK
  <2>3. job' \in Job
    <3>1. CASE job.status = "404"
      <4>1. size[NotFound] \in Nat
        BY <1>0, <1>5, <3>1, Known DEF WriteHead, Found, DataOK
      <4>2. job' = [job EXCEPT !.size = size[NotFound]]
        BY <1>5, <3>1 DEF WriteHead
      <4> QED
        BY <2>1, <4>1, <4>2 DEF Job
    <3>2. CASE job.status # "404"
      BY <1>5, <2>1, <3>2 DEF WriteHead
    <3> QED
      BY <3>1, <3>2
  <2>4. ControlOK'
    BY <1>0, <2>1, SameControl DEF ControlOK, browser
  <2>5. DataOK'
    BY <1>0, <2>1, <2>2, <2>3, Known DEF DataOK, files, browser
  <2> QED
    BY <2>4, <2>5, TypeNext
<1>6. CASE NoErrorPage
  <2>1. ControlOK' /\ pc' = "off" /\ job' = None
    BY <1>0, <1>6, DieControl DEF NoErrorPage
  <2>2. head' \in [Conn -> {"none", "cut", "200"}]
    BY <1>0, <1>6 DEF NoErrorPage, DataOK
  <2>3. DataOK'
    BY <1>0, <1>6, <2>1, <2>2 DEF NoErrorPage, DataOK, files
  <2> QED
    BY <2>1, <2>3, TypeNext
<1>7. CASE SendChunk
  <2>1. pc = "send" /\ job \in Job /\ Read \in Nat /\ cur \in Conn /\ cur # None
    BY <1>0, <1>7, ReadType DEF SendChunk, ControlOK
  <2>2. PICK t \in Nat : t = job.r + Read
    BY <2>1 DEF Job
  <2>3. body' \in [Conn -> Seq(Piece)]
    <3>1. [src |-> job.src, to |-> t] \in Piece
      BY <2>1, <2>2 DEF Piece, Job
    <3>2. Append(body[cur], [src |-> job.src, to |-> t]) \in Seq(Piece)
      BY <1>0, <2>1, <3>1 DEF DataOK
    <3> QED
      BY <1>0, <1>7, <2>2, <3>2 DEF SendChunk, DataOK
  <2>4. clean' \in [Conn -> BOOLEAN]
    <3>1. PICK extra \in Extra : clean' = [clean EXCEPT ![cur] = @ /\ ~extra]
      BY <1>7 DEF SendChunk
    <3> QED
      BY <1>0, <3>1 DEF DataOK
  <2>5. UNCHANGED <<cwd, children, queue, files, req, sent, gone, head, starts, edited>>
    BY <1>7 DEF SendChunk
  <2>6. CASE SentAll(t)
    <3>1. Close
      BY <1>7, <2>2, <2>6 DEF SendChunk
    <3>2. ControlOK' /\ pc' = "accept" /\ job' = None
      BY <1>0, <2>1, <2>5, <3>1, CloseControl DEF ControlOK
    <3>3. DataOK'
      BY <1>0, <2>3, <2>4, <2>5, <3>2 DEF DataOK, files
    <3> QED
      BY <3>2, <3>3, TypeNext
  <2>7. CASE ~SentAll(t)
    <3>1. job' = [job EXCEPT !.r = t] /\ UNCHANGED <<pc, cur, at>>
      BY <1>7, <2>2, <2>7 DEF SendChunk
    <3>2. job' \in Job
      BY <2>1, <2>2, <3>1 DEF Job
    <3>3. ControlOK'
      BY <1>0, <2>5, <3>1, SameControl DEF ControlOK
    <3>4. DataOK'
      BY <1>0, <2>1, <2>3, <2>4, <2>5, <3>1, <3>2, Known DEF DataOK, files
    <3> QED
      BY <3>3, <3>4, TypeNext
  <2> QED
    BY <2>6, <2>7
<1> QED
  BY <1>1, <1>2, <1>3, <1>4, <1>5, <1>6, <1>7, ReadTyped DEF Serve

LEMMA EnvironmentTyped ==
  ASSUME TypeOK, FilesInv, Environment
  PROVE  TypeOK'
<1>0. ControlOK /\ DataOK
  BY TypeParts
<1>1. CASE Start
  <2>1. ControlOK' /\ job' = job /\ pc = "off" /\ pc' = "accept"
    BY <1>0, <1>1, SameControl DEF Start, ControlOK, browser
  <2>2. starts' \in 0..MaxStarts
    BY <1>0, <1>1, Known DEF Start, DataOK
  <2>3. DataOK'
    BY <1>0, <1>1, <2>1, <2>2 DEF Start, DataOK, files, browser, answer
  <2> QED
    BY <2>1, <2>3, TypeNext
<1>2. ASSUME NEW c \in Conn, Connect(c) PROVE TypeOK'
  <2>1. req' \in [Conn -> Request \cup {None}]
    BY <1>0, <1>2, Known DEF Connect, DataOK
  <2>2. ControlOK'
    BY <1>0, <1>2, ConnectControl
  <2>3. DataOK'
    BY <1>0, <1>2, <2>1 DEF Connect, DataOK, files, answer
  <2> QED
    BY <2>2, <2>3, TypeNext
<1>3. ASSUME NEW c \in Conn, Refused(c) PROVE TypeOK'
  <2>1. ControlOK'
    BY <1>0, <1>3 DEF Refused, ControlOK, server
  <2>2. DataOK'
    BY <1>0, <1>3 DEF Refused, DataOK, server, files, answer
  <2> QED
    BY <2>1, <2>2, TypeNext
<1>4. ASSUME NEW c \in Conn, Send(c) \/ SendPart(c) \/ Leave(c) PROVE TypeOK'
  <2>1. ControlOK'
    BY <1>0, <1>4 DEF Send, SendPart, Leave, ControlOK, server
  <2>2. DataOK'
    BY <1>0, <1>4 DEF Send, SendPart, Leave, DataOK, server, files, answer
  <2> QED
    BY <2>1, <2>2, TypeNext
<1>5. ASSUME NEW p \in Editable, Edit(p) PROVE TypeOK'
  <2>1. size[p] \in Nat
    BY <1>5, Known DEF Edit, FilesInv
  <2>2. size' \in [DOMAIN FileSize -> Nat \cup {None}]
    <3>1. PICK n \in Nat : n = size[p]
      BY <2>1
    <3>2. /\ n + 1 \in Nat /\ (n > 0 => n - 1 \in Nat)
          /\ \/ size' = [size EXCEPT ![p] = n + 1]
             \/ n > 0 /\ size' = [size EXCEPT ![p] = n - 1]
             \/ size' = [size EXCEPT ![p] = None]
      BY <1>5, <3>1 DEF Edit
    <3>3. \A v \in Nat \cup {None} : [size EXCEPT ![p] = v] \in [DOMAIN FileSize -> Nat \cup {None}]
      BY <1>0 DEF DataOK
    <3> QED
      BY <3>2, <3>3
  <2>3. ControlOK'
    BY <1>0, <1>5 DEF Edit, ControlOK, server, browser
  <2>4. DataOK'
    BY <1>0, <1>5, <2>2 DEF Edit, DataOK, server, browser, answer
  <2> QED
    BY <2>3, <2>4, TypeNext
<1> QED
  BY <1>1, <1>2, <1>3, <1>4, <1>5 DEF Environment

LEMMA StutterTyped == TypeOK /\ UNCHANGED vars => TypeOK'
BY DEF vars, server, files, browser, answer, TypeOK

-----------------------------------------------------------------------------
(* What a step of the server leaves alone.                                 *)

LEMMA ServeFrame ==
  ASSUME TypeOK, Serve
  PROVE  /\ UNCHANGED <<size, req, sent, gone, starts, edited>>
         /\ \/ UNCHANGED at
            \/ Close /\ cur \in Conn /\ at[cur] = "served"
            \/ Die
            \/ Accept
<1>1. pc \in {"read", "head", "send"} => cur \in Conn /\ at[cur] = "served"
  BY TypeParts DEF ControlOK
<1>2. CASE Accept \/ NoChild \/ BrokenPipe
  BY <1>2 DEF Accept, NoChild, BrokenPipe, files
<1>3. CASE ReadNothing \/ ReadHalf \/ ReadOther \/ ReadFavicon \/ ReadBare
  BY <1>1, <1>3 DEF ReadNothing, ReadHalf, ReadOther, ReadFavicon, ReadBare, DieOrClose, files,
                    Readable
<1>4. CASE ReadGet \/ ReadPost
  BY <1>4 DEF ReadGet, ReadPost, files, browser
<1>5. CASE WriteHead \/ NoErrorPage
  BY <1>5 DEF WriteHead, NoErrorPage, files, browser
<1>6. CASE SendChunk
  BY <1>1, <1>6 DEF SendChunk, files
<1> QED
  BY <1>2, <1>3, <1>4, <1>5, <1>6 DEF Serve

\* Only SendChunk sends; only it and the head of an answer reach a browser.
LEMMA ServeAnswer ==
  ASSUME Serve, ~SendChunk
  PROVE  /\ UNCHANGED <<body, clean>>
         /\ head' # head => WriteHead \/ NoErrorPage
<1>1. CASE Accept \/ NoChild \/ BrokenPipe
  BY <1>1 DEF Accept, NoChild, BrokenPipe, answer
<1>2. CASE ReadNothing \/ ReadHalf \/ ReadOther \/ ReadFavicon \/ ReadBare
  BY <1>2 DEF ReadNothing, ReadHalf, ReadOther, ReadFavicon, ReadBare, DieOrClose, answer
<1>3. CASE ReadGet \/ ReadPost
  BY <1>3 DEF ReadGet, ReadPost, answer
<1>4. CASE WriteHead \/ NoErrorPage
  BY <1>4 DEF WriteHead, NoErrorPage
<1> QED
  BY <1>1, <1>2, <1>3, <1>4 DEF Serve

\* What the others do to a connection.
LEMMA EnvironmentFrame ==
  ASSUME TypeOK, Environment
  PROVE  /\ UNCHANGED <<cur, job, cwd, children, head, body, clean>>
         /\ gone \subseteq gone' /\ edited \subseteq edited'
         /\ pc' # pc => pc = "off" /\ pc' = "accept"
         /\ \A p \in DOMAIN FileSize \ edited' : size'[p] = size[p]
         /\ \A c \in Conn : at'[c] # at[c] =>
              /\ at[c] = "new" /\ at'[c] \in {"queued", "refused"}
              /\ sent' = sent /\ gone' = gone
              /\ at'[c] = "queued" => req'[c] \in Request
         /\ \A c \in Conn : req'[c] # req[c] => at[c] = "new" /\ at'[c] = "queued"
         /\ \A c \in Conn : sent'[c] # sent[c] =>
              at[c] \in {"queued", "served"} /\ sent[c] # "whole"
         /\ \A c \in Conn : c \in gone' \ gone => at[c] \in {"queued", "served"}
<1>1. CASE Start
  BY <1>1 DEF Start, files, browser, answer
<1>2. ASSUME NEW c \in Conn, Connect(c) PROVE at[c] = "new" /\ at' = [at EXCEPT ![c] = "queued"]
         /\ (\E q \in Request : req' = [req EXCEPT ![c] = q])
         /\ UNCHANGED <<pc, cur, job, cwd, children, files, sent, gone, answer, starts, edited>>
  BY <1>2, Known DEF Connect
<1>3. ASSUME NEW c \in Conn, Refused(c) PROVE at[c] = "new" /\ at' = [at EXCEPT ![c] = "refused"]
         /\ UNCHANGED <<server, files, req, sent, gone, answer, starts, edited>>
  BY <1>3 DEF Refused
<1>4. ASSUME NEW c \in Conn, Send(c) \/ SendPart(c) \/ Leave(c)
      PROVE  /\ at[c] \in {"queued", "served"}
             /\ UNCHANGED <<server, files, at, req, answer, starts, edited>>
             /\ \/ /\ sent[c] # "whole" /\ gone' = gone
                   /\ \E s \in {"head", "whole"} : sent' = [sent EXCEPT ![c] = s]
                \/ sent' = sent /\ gone' = gone \cup {c}
  BY <1>4 DEF Send, SendPart, Leave, Connected
<1>5. ASSUME NEW p \in Editable, Edit(p)
      PROVE  /\ edited' = edited \cup {p} /\ UNCHANGED <<server, browser, answer>>
             /\ \A q \in DOMAIN FileSize \ {p} : size'[q] = size[q]
  BY <1>5 DEF Edit, TypeOK
<1>6. CASE \E c \in Conn : Connect(c)
  BY <1>2, <1>6, TypeParts DEF DataOK, ControlOK, files, answer
<1>7. CASE \E c \in Conn : Refused(c)
  BY <1>3, <1>7, TypeParts DEF DataOK, ControlOK, files, answer, server
<1>8. CASE \E c \in Conn : Send(c) \/ SendPart(c) \/ Leave(c)
  BY <1>4, <1>8, TypeParts DEF DataOK, ControlOK, files, answer, server
<1>9. CASE \E p \in Editable : Edit(p)
  BY <1>5, <1>9 DEF server, browser, answer
<1> QED
  BY <1>1, <1>6, <1>7, <1>8, <1>9 DEF Environment

LEMMA FilesKept == TypeOK /\ FilesInv /\ [Next]_vars => FilesInv'
<1> SUFFICES ASSUME TypeOK, FilesInv, [Next]_vars PROVE FilesInv'
  OBVIOUS
<1>1. CASE Serve
  BY <1>1, ServeFrame DEF FilesInv
<1>2. CASE Environment
  BY <1>2, EnvironmentFrame DEF FilesInv
<1>3. CASE UNCHANGED vars
  BY <1>3 DEF vars, files, FilesInv
<1> QED
  BY <1>1, <1>2, <1>3 DEF Next

LEMMA RequestKept == TypeOK /\ RequestInv /\ [Next]_vars => RequestInv'
<1> SUFFICES ASSUME TypeOK, RequestInv, [Next]_vars PROVE RequestInv'
  OBVIOUS
<1>1. CASE Serve
  <2>1. ASSUME NEW c \in Conn
        PROVE  /\ at[c] \notin {"new", "refused"} \/ at'[c] = at[c]
               /\ at[c] \notin {"new", "refused"} => at'[c] \notin {"new", "refused"}
    <3>1. CASE Accept
      BY <3>1, TypeParts, AcceptControl DEF Accept, ControlOK
    <3>2. CASE Close /\ cur \in Conn /\ at[cur] = "served"
      BY <3>2 DEF Close, TypeOK
    <3>3. CASE Die
      BY <3>3 DEF Die
    <3> QED
      BY <1>1, <3>1, <3>2, <3>3, ServeFrame
  <2> QED
    BY <1>1, <2>1, ServeFrame DEF RequestInv
<1>2. CASE Environment
  BY <1>2, EnvironmentFrame, Known DEF RequestInv
<1>3. CASE UNCHANGED vars
  BY <1>3 DEF vars, browser, RequestInv
<1> QED
  BY <1>1, <1>2, <1>3 DEF Next

-----------------------------------------------------------------------------
(* The file that is sent.                                                  *)

\* While a job stays as it is, nothing outside makes it another one.
LEMMA JobElsewhere ==
  ASSUME TypeOK, RequestInv, JobInv, Environment
  PROVE  JobInv'
<1>1. CASE ~Sends
  <2>1. ~Sends'
    BY <1>1, EnvironmentFrame DEF Sends
  <2> QED
    BY <2>1 DEF JobInv, Sends
<1>2. CASE Sends
  <2>1. cur \in Conn /\ at[cur] = "served" /\ job # None /\ job \in Job
    BY <1>2, TypeParts, Known DEF Sends, ControlOK, DataOK
  <2>2. /\ UNCHANGED <<cur, job, cwd, pc>> /\ req'[cur] = req[cur] /\ sent'[cur] = sent[cur]
        /\ edited \subseteq edited'
    BY <1>2, <2>1, EnvironmentFrame DEF Sends, JobInv
  <2>3. Asked(cur)' = Asked(cur)
    BY <2>2 DEF Asked
  <2>4. job.src \notin edited' => Length(job.src)' = Length(job.src)
    <3>1. job.src \in Conn \cup DOMAIN FileSize
      BY <1>2 DEF JobInv
    <3> QED
      BY <2>2, <3>1, EnvironmentFrame DEF Length
  <2>5. Length(job.src) \in Nat => Length(job.src)' \in Nat
    <3> SUFFICES ASSUME Length(job.src) \in Nat PROVE Length(job.src)' \in Nat
      OBVIOUS
    <3>1. CASE job.src \notin edited'
      BY <2>4, <3>1
    <3>2. CASE \E p \in Editable : Edit(p)
      <4>1. PICK p \in Editable : Edit(p)
        BY <3>2
      <4>2. CASE job.src = p /\ job.src \notin Conn
        <5>1. PICK n \in Nat : n = size[p]
          BY <4>2 DEF Length
        <5>2. \/ size' = [size EXCEPT ![p] = n + 1]
              \/ n > 0 /\ size' = [size EXCEPT ![p] = n - 1]
          BY <2>1, <4>1, <5>1 DEF Edit
        <5>3. size'[p] \in Nat
          BY <5>1, <5>2, Known DEF TypeOK
        <5> QED
          BY <2>2, <4>2, <5>3 DEF Length
      <4>3. CASE job.src # p \/ job.src \in Conn
        <5>1. job.src \in Conn \cup DOMAIN FileSize
          BY <1>2 DEF JobInv
        <5>2. job.src \notin Conn => size'[job.src] = size[job.src]
          BY <4>1, <4>3, <5>1 DEF Edit, TypeOK
        <5> QED
          BY <2>2, <5>2 DEF Length
      <4> QED
        BY <4>2, <4>3
    <3>3. CASE ~\E p \in Editable : Edit(p)
      <4>1. size' = size
        BY <3>3 DEF Environment, Start, Connect, Refused, Send, SendPart, Leave, files
      <4> QED
        BY <2>2, <4>1 DEF Length
    <3> QED
      BY <3>2, <3>3
  <2>6. Sends' /\ pc' = pc
    BY <1>2, <2>2 DEF Sends
  <2> QED
    BY <1>2, <2>2, <2>3, <2>4, <2>5, <2>6 DEF JobInv
<1> QED
  BY <1>1, <1>2

LEMMA JobOpened ==
  ASSUME TypeOK, FilesInv, RequestInv, ReadGet
  PROVE  JobInv'
<1> DEFINE page == req[cur].page
<1>1. /\ cur \in Conn /\ req[cur] \in Request /\ cur' = cur /\ pc' = "head" /\ cwd' = "docroot"
      /\ UNCHANGED <<size, req, sent, edited, result>> /\ sent[cur] = "whole"
      /\ req[cur].method = "GET"
  BY TypeParts, Known DEF ReadGet, Readable, Chdir, ControlOK, DataOK, RequestInv, files, browser
<1>2. page \in Page
  BY <1>1 DEF Request
<1>3. PICK d \in Dir : d = cwd'
  BY <1>1 DEF Dir
<1>4. job' = IF Found(d, page) THEN Opened(SourceOf(d, page), Length(SourceOf(d, page)), "200")
             ELSE Opened(NotFound, 0, "404")
  BY <1>3 DEF ReadGet
<1>5. \A src \in Conn \cup DOMAIN FileSize : Length(src)' = Length(src)
  BY <1>1 DEF Length
<1>6. Asked(cur)' = Asked(cur)
  BY <1>1 DEF Asked
<1>7. CASE Found(d, page)
  <2>1. PICK src \in Conn \cup DOMAIN FileSize, n \in Nat :
          src = SourceOf(d, page) /\ n = Length(src) /\ (page # Result => src = page)
          /\ (page = Result => src \in Conn)
    BY <1>2, <1>7, FoundLength
  <2>2. job'.src = src /\ job'.size = n /\ job'.r = 0 /\ job'.status = "200"
    BY <1>4, <1>7, <2>1 DEF Opened
  <2>3. src \in Asked(cur)
    BY <1>1, <1>2, <2>1, Known DEF Asked
  <2> QED
    BY <1>1, <1>5, <1>6, <2>1, <2>2, <2>3 DEF JobInv, Sends
<1>8. CASE ~Found(d, page)
  <2>1. job'.src = NotFound /\ job'.r = 0 /\ job'.status = "404"
    BY <1>4, <1>8 DEF Opened
  <2>2. NotFound \in Asked(cur) \/ Asked(cur) \cap edited # {}
    <3>1. CASE page \in DOMAIN FileSize
      <4>1. page # Result /\ DOMAIN size = DOMAIN FileSize
        BY <3>1, Known DEF TypeOK
      <4>2. size[page] = None
        BY <1>1, <1>3, <1>8, <3>1, <4>1 DEF Found
      <4>3. page \in edited
        BY <3>1, <4>2, Known DEF FilesInv
      <4> QED
        BY <1>1, <3>1, <4>1, <4>3 DEF Asked
    <3>2. CASE page \notin DOMAIN FileSize
      BY <1>1, <3>2 DEF Asked
    <3> QED
      BY <3>1, <3>2
  <2> QED
    BY <1>1, <1>6, <2>1, <2>2, Known DEF JobInv, Sends
<1> QED
  BY <1>7, <1>8

LEMMA JobKept == TypeOK /\ FilesInv /\ RequestInv /\ JobInv /\ [Next]_vars => JobInv'
<1> SUFFICES ASSUME TypeOK, FilesInv, RequestInv, JobInv, [Next]_vars PROVE JobInv'
  OBVIOUS
<1>1. ASSUME pc' \notin {"head", "send"} PROVE JobInv'
  BY <1>1 DEF JobInv, Sends
<1>2. CASE Accept \/ NoChild \/ BrokenPipe \/ ReadNothing \/ ReadHalf \/ ReadOther \/ ReadFavicon
           \/ ReadBare \/ NoErrorPage
  BY <1>1, <1>2 DEF Accept, NoChild, BrokenPipe, ReadNothing, ReadHalf, ReadOther, ReadFavicon,
                    ReadBare, NoErrorPage, DieOrClose, Die, Close
<1>3. CASE ReadGet
  BY <1>3, JobOpened
<1>4. CASE ReadPost
  <2>1. /\ cur \in Conn /\ req[cur] \in Request /\ cur' = cur /\ pc' = "head"
        /\ UNCHANGED <<size, req, sent, edited>> /\ sent[cur] = "whole" /\ req[cur].method = "POST"
    BY <1>4, TypeParts, Known DEF ReadPost, Readable, ControlOK, DataOK, RequestInv, browser
  <2>2. job' = Opened(cur, ResultSize, "post")
    BY <1>4, <2>1 DEF ReadPost, Reopened, TypeOK
  <2>3. job'.src = cur /\ job'.size = ResultSize /\ job'.r = 0 /\ job'.status = "post"
    BY <2>2 DEF Opened
  <2> QED
    BY <2>1, <2>3, Known DEF JobInv, Sends, Length, Asked
<1>5. CASE WriteHead
  <2>1. /\ job \in Job /\ Sends /\ Sends' /\ pc' = "send" /\ pc = "head"
        /\ UNCHANGED <<cur, cwd, size, req, sent, edited>>
    BY <1>5, TypeParts DEF WriteHead, DataOK, Sends, files, browser
  <2>2. job'.src = job.src /\ job'.r = job.r /\ job'.status = job.status
    BY <1>5, <2>1 DEF WriteHead, Job
  <2>3. Length(job.src)' = Length(job.src)
    BY <2>1, <2>2 DEF Length
  <2>4. Asked(cur)' = Asked(cur)
    BY <2>1 DEF Asked
  <2>5. Length(job.src) \in Nat /\ (job.src \notin edited => job'.size = Length(job.src))
    <3>1. CASE job.status = "404"
      <4>1. job.src = NotFound /\ job'.size = size[NotFound]
        BY <1>5, <2>1, <3>1 DEF WriteHead, JobInv, Job
      <4>2. size[NotFound] \in Nat
        BY <1>5, <3>1, Known DEF WriteHead, Found, TypeOK
      <4>3. Length(NotFound) = size[NotFound]
        BY Known DEF Length
      <4> QED
        BY <4>1, <4>2, <4>3
    <3>2. CASE job.status # "404"
      BY <1>5, <2>1, <3>2 DEF WriteHead, JobInv
    <3> QED
      BY <3>1, <3>2
  <2> QED
    BY <2>1, <2>2, <2>3, <2>4, <2>5 DEF JobInv
<1>6. CASE SendChunk
  <2>1. UNCHANGED <<cwd, size, req, sent, edited>> /\ pc = "send" /\ job \in Job /\ Sends
    BY <1>6, TypeParts DEF SendChunk, files, DataOK, Sends
  <2>2. CASE SentAll(job.r + Read)
    BY <1>1, <1>6, <2>2 DEF SendChunk, Close
  <2>3. CASE ~SentAll(job.r + Read)
    <3>1. /\ cur' = cur /\ pc' = pc /\ job'.src = job.src /\ job'.size = job.size
          /\ job'.status = job.status
      BY <1>6, <2>1, <2>3 DEF SendChunk, Job
    <3>2. Length(job.src)' = Length(job.src)
      BY <2>1, <3>1 DEF Length
    <3>3. Asked(cur)' = Asked(cur)
      BY <2>1, <3>1 DEF Asked
    <3>4. Sends'
      BY <2>1, <3>1 DEF Sends
    <3> QED
      BY <2>1, <3>1, <3>2, <3>3, <3>4 DEF JobInv
  <2> QED
    BY <2>2, <2>3
<1>7. CASE Environment
  BY <1>7, JobElsewhere
<1>8. CASE UNCHANGED vars
  BY <1>8 DEF vars, server, files, browser, JobInv, Sends, Asked, Length
<1> QED
  BY <1>2, <1>3, <1>4, <1>5, <1>6, <1>7, <1>8 DEF Next, Serve

LEMMA FreshKept == TypeOK /\ FreshInv /\ [Next]_vars => FreshInv'
<1> SUFFICES ASSUME TypeOK, FreshInv, [Next]_vars PROVE FreshInv'
  OBVIOUS
<1>1. CASE SendChunk
  <2>1. /\ cur \in Conn /\ at[cur] = "served" /\ pc = "send"
        /\ \A c \in Conn \ {cur} : body'[c] = body[c] /\ clean'[c] = clean[c]
    BY <1>1, TypeParts DEF SendChunk, ControlOK, DataOK
  <2>2. \/ cur' = cur /\ pc' = "send" /\ at' = at
        \/ cur' = None /\ pc' = "accept" /\ at' = [at EXCEPT ![cur] = "over"]
    BY <1>1 DEF SendChunk, Close
  <2>3. \A c \in Conn \ {cur} : at'[c] = at[c]
    BY <2>2, TypeParts DEF ControlOK
  <2>4. at'[cur] \in {"served", "over"}
    BY <2>1, <2>2, TypeParts DEF ControlOK
  <2> QED
    BY <2>1, <2>2, <2>3, <2>4 DEF FreshInv
<1>2. CASE Serve /\ ~SendChunk
  <2>0. UNCHANGED <<body, clean>>
    BY <1>2, ServeAnswer
  <2>1. CASE Accept
    BY <2>0, <2>1, TypeParts, AcceptControl DEF Accept, FreshInv, ControlOK
  <2>2. CASE Close /\ cur \in Conn /\ at[cur] = "served"
    BY <2>0, <2>2 DEF Close, FreshInv, TypeOK
  <2>3. CASE Die
    BY <2>0, <2>3 DEF Die, FreshInv
  <2>4. CASE ReadGet \/ ReadPost
    BY <2>0, <2>4 DEF ReadGet, ReadPost, Readable, FreshInv, browser
  <2>5. CASE WriteHead
    BY <2>0, <2>5 DEF WriteHead, FreshInv, browser
  <2> QED
    BY <1>2, <2>1, <2>2, <2>3, <2>4, <2>5
       DEF Serve, NoChild, BrokenPipe, ReadNothing, ReadHalf, ReadOther, ReadFavicon, ReadBare,
           NoErrorPage, DieOrClose, Readable, TypeOK
<1>3. CASE Environment
  <2>1. UNCHANGED <<body, clean, cur>> /\ (pc' \in {"read", "head"} => pc' = pc)
    BY <1>3, EnvironmentFrame
  <2>2. \A c \in Conn :
          at'[c] \in {"new", "queued", "refused"} => at[c] \in {"new", "queued", "refused"}
    BY <1>3, EnvironmentFrame
  <2> QED
    BY <2>1, <2>2 DEF FreshInv
<1>4. CASE UNCHANGED vars
  BY <1>4 DEF vars, server, browser, answer, FreshInv
<1> QED
  BY <1>1, <1>2, <1>3, <1>4 DEF Next

-----------------------------------------------------------------------------
(* What has been sent.                                                     *)

\* One pass of the loop of sendMessage over a file nobody has changed.
LEMMA ChunkSent ==
  ASSUME TypeOK, JobInv, SendInv, SendChunk,
         NEW c \in Conn, c = cur, NEW src \in Source, src = job.src, src \notin edited,
         NEW n \in Nat, n = Length(src)
  PROVE  /\ Pieces(c, src)' /\ Unstained(c, src)'
         /\ c \notin gone =>
              IF SentAll(job.r + Read) THEN Len(body'[c]) = Chunks(n)
              ELSE job'.r = Len(body'[c]) * ChunkSize /\ Len(body'[c]) * ChunkSize < n
<1> DEFINE k == Len(body[c])
<1>1. /\ pc = "send" /\ job \in Job /\ Read = Take(n, job.r) /\ Read \in Nat
      /\ UNCHANGED <<size, edited, gone>> /\ body \in [Conn -> Seq(Piece)] /\ body[c] \in Seq(Piece)
      /\ clean \in [Conn -> BOOLEAN]
  BY ReadType, TypeParts DEF SendChunk, DataOK, files
<1>2. k \in Nat /\ DOMAIN body[c] = 1..k
  BY <1>1
<1>3. PICK r \in Nat : r = job.r
  BY <1>1 DEF Job
<1>4. PICK t \in Nat : t = Take(n, r) /\ t = Read
  BY <1>1, <1>3
<1>5. src \in Conn \cup DOMAIN FileSize /\ Length(src)' = n
  BY <1>1 DEF JobInv, Sends, Length
<1>6. /\ Pieces(c, src) /\ Unstained(c, src)
      /\ c \notin gone => r = k * ChunkSize /\ (k = 0 \/ k * ChunkSize < n)
  BY <1>1, <1>3 DEF SendInv
<1>7. job.size = n
  BY <1>1 DEF JobInv, Sends
<1> DEFINE Sent == Pieces(c, src)' /\ (c \notin gone =>
                     IF SentAll(job.r + Read) THEN Len(body'[c]) = Chunks(n)
                     ELSE job'.r = Len(body'[c]) * ChunkSize /\ Len(body'[c]) * ChunkSize < n)
<1> HIDE DEF k
<1>8. t <= n
  BY <1>3, <1>4, TakeType
<1>9. t # 0 <=> r < n
  BY <1>3, <1>4, TakeType
<1>10. ASSUME c \in gone \/ t = 0 PROVE Sent
  <2>1. body'[c] = body[c]
    BY <1>1, <1>4, <1>10 DEF SendChunk
  <2>2. Pieces(c, src)'
    BY <1>5, <1>6, <2>1 DEF Pieces, EndOf
  <2>3. c \notin gone => n = r + t /\ k = 0 /\ Chunks(n) = 0
    BY <1>2, <1>3, <1>4, <1>6, <1>9, <1>10, NextChunk
  <2>4. c \notin gone => Len(body'[c]) = Chunks(n) /\ SentAll(job.r + Read)
    BY <1>2, <1>3, <1>4, <1>7, <2>1, <2>3 DEF SentAll, k
  <2> QED
    BY <1>1, <2>2, <2>4
<1>11. ASSUME c \notin gone, t # 0 PROVE Sent
  <2>1. PICK e \in Nat : e = r + t
    BY <1>3, <1>4
  <2>2. body'[c] = Append(body[c], [src |-> src, to |-> e])
    BY <1>1, <1>3, <1>4, <1>11, <2>1 DEF SendChunk
  <2>3. /\ DOMAIN body'[c] = 1..(k + 1) /\ Len(body'[c]) = k + 1
        /\ body'[c][k + 1] = [src |-> src, to |-> e]
        /\ \A i \in 1..k : body'[c][i] = body[c][i]
    <3>1. [src |-> src, to |-> e] \in Piece
      BY <2>1 DEF Piece
    <3> QED
      BY <1>1, <1>2, <2>2, <3>1 DEF k
  <2>4. /\ e = EndOf(n, k + 1) /\ (e = n => Chunks(n) = k + 1)
        /\ e # n => e = (k + 1) * ChunkSize /\ (k + 1) * ChunkSize < n
    <3>1. r = k * ChunkSize /\ (k = 0 \/ k * ChunkSize < n) /\ r < n /\ e = r + Take(n, r)
      BY <1>4, <1>6, <1>9, <1>11, <2>1
    <3> QED
      BY <1>2, <1>3, <3>1, NextChunk
  <2>5. Pieces(c, src)'
    <3> SUFFICES ASSUME NEW i \in 1..(k + 1)
                 PROVE  body'[c][i].src = src /\ body'[c][i].to = EndOf(n, i)
      BY <1>5, <2>3 DEF Pieces, EndOf
    <3>1. CASE i = k + 1
      BY <2>3, <2>4, <3>1
    <3>2. CASE i # k + 1
      <4>1. i \in 1..k
        BY <1>2, <3>2
      <4> QED
        BY <1>2, <1>5, <1>6, <2>3, <4>1 DEF Pieces
    <3> QED
      BY <3>1, <3>2
  <2>6. IF SentAll(job.r + Read) THEN Len(body'[c]) = Chunks(n)
        ELSE job'.r = Len(body'[c]) * ChunkSize /\ Len(body'[c]) * ChunkSize < n
    <3>1. CASE e = n
      <4>1. SentAll(job.r + Read)
        BY <1>3, <1>4, <1>7, <2>1, <3>1 DEF SentAll
      <4> QED
        BY <2>3, <2>4, <3>1, <4>1
    <3>2. CASE e # n
      <4>1. ~SentAll(job.r + Read)
        BY <1>3, <1>4, <1>7, <2>1, <3>2 DEF SentAll
      <4>2. job'.r = e
        BY <1>1, <1>3, <1>4, <2>1, <4>1 DEF SendChunk, Job
      <4>3. Len(body'[c]) * ChunkSize = (k + 1) * ChunkSize
        BY <2>3
      <4> QED
        BY <2>4, <3>2, <4>1, <4>2, <4>3
    <3> QED
      BY <3>1, <3>2
  <2> QED
    BY <1>1, <2>5, <2>6
<1>12. Unstained(c, src)'
  <2> SUFFICES ASSUME n < ChunkSize, src \in DOMAIN FileSize, Kind[src] # "other"
               PROVE  clean'[c]
    BY <1>5 DEF Unstained
  <2>1. clean[c] /\ src \notin Conn
    BY <1>6, Known DEF Unstained
  <2>2. Read # ChunkSize
    BY <1>4, <1>8, Known
  <2>3. Extra = {FALSE}
    BY <2>1, <2>2 DEF Extra
  <2>4. clean' = [clean EXCEPT ![c] = @ /\ ~FALSE]
    BY <2>3 DEF SendChunk
  <2> QED
    BY <1>1, <2>1, <2>4
<1> QED
  BY <1>10, <1>11, <1>12

LEMMA SendKept ==
  TypeOK /\ RequestInv /\ JobInv /\ FreshInv /\ SendInv /\ [Next]_vars => SendInv'
<1> SUFFICES ASSUME TypeOK, RequestInv, JobInv, FreshInv, SendInv, [Next]_vars PROVE SendInv'
  OBVIOUS
<1>1. ASSUME pc' # "send" PROVE SendInv'
  BY <1>1 DEF SendInv
<1>2. CASE Accept \/ NoChild \/ BrokenPipe \/ ReadNothing \/ ReadHalf \/ ReadOther \/ ReadFavicon
           \/ ReadBare \/ NoErrorPage \/ ReadGet \/ ReadPost
  BY <1>1, <1>2 DEF Accept, NoChild, BrokenPipe, ReadNothing, ReadHalf, ReadOther, ReadFavicon,
                    ReadBare, NoErrorPage, ReadGet, ReadPost, DieOrClose, Die, Close
<1>3. CASE WriteHead
  <2>1. /\ pc = "head" /\ job \in Job /\ cur \in Conn /\ cur # None
        /\ UNCHANGED <<cur, size, body, clean, edited, gone>>
    BY <1>3, TypeParts DEF WriteHead, DataOK, ControlOK, files, browser
  <2>2. job'.src = job.src /\ job'.r = 0
    BY <1>3, <2>1 DEF WriteHead, JobInv, Job
  <2>3. body[cur] = <<>> /\ clean[cur]
    BY <2>1 DEF FreshInv
  <2>4. cur \notin gone => head'[cur] # "none"
    BY <1>3, <2>1 DEF WriteHead, TypeOK
  <2> QED
    BY <2>1, <2>2, <2>3, <2>4, Known DEF SendInv, Pieces, Unstained
<1>4. CASE SendChunk
  <2>1. /\ UNCHANGED <<edited, gone, head>> /\ cur \in Conn /\ pc = "send" /\ job \in Job
        /\ Length(job.src) \in Nat
    BY <1>4, ReadType, TypeParts DEF SendChunk, ControlOK
  <2>2. CASE SentAll(job.r + Read)
    BY <1>1, <1>4, <2>2 DEF SendChunk, Close
  <2>3. CASE ~SentAll(job.r + Read)
    <3>1. cur' = cur /\ pc' = pc /\ job'.src = job.src
      BY <1>4, <2>1, <2>3 DEF SendChunk, Job
    <3>2. PICK c \in Conn, src \in Source, n \in Nat : c = cur /\ src = job.src /\ n = Length(src)
      BY <2>1 DEF Job
    <3>3. src \notin edited =>
            /\ Pieces(c, src)' /\ Unstained(c, src)'
            /\ c \notin gone => job'.r = Len(body'[c]) * ChunkSize /\ Len(body'[c]) * ChunkSize < n
      BY <1>4, <2>3, <3>2, ChunkSent
    <3>4. Length(src)' = n
      BY <1>4, <3>2 DEF SendChunk, Length, files
    <3>5. Pieces(cur, job.src)' = Pieces(c, src)' /\ Unstained(cur, job.src)' = Unstained(c, src)'
      BY <3>1, <3>2 DEF Pieces, Unstained
    <3>6. Length(job.src)' = n
      BY <3>1, <3>2, <3>4
    <3>7. cur' = c /\ job'.src = src
      BY <3>1, <3>2
    <3>8. c \notin gone => head'[c] # "none"
      BY <2>1, <3>2 DEF SendInv
    <3> QED
      BY <2>1, <3>3, <3>5, <3>6, <3>7, <3>8 DEF SendInv
  <2> QED
    BY <2>2, <2>3
<1>5. CASE Environment
  <2>1. CASE pc = "send"
    <3>1. /\ cur \in Conn /\ job \in Job /\ job.src \in Conn \cup DOMAIN FileSize
          /\ UNCHANGED <<cur, job, body, clean, head>>
          /\ edited \subseteq edited' /\ gone \subseteq gone'
      BY <1>5, <2>1, EnvironmentFrame, TypeParts DEF JobInv, Sends, ControlOK, DataOK
    <3>2. job.src \notin edited' => Length(job.src)' = Length(job.src)
      BY <1>5, <3>1, EnvironmentFrame DEF Length
    <3> QED
      BY <2>1, <3>1, <3>2 DEF SendInv, Pieces, Unstained
  <2>2. CASE pc # "send"
    BY <1>1, <1>5, <2>2, EnvironmentFrame
  <2> QED
    BY <2>1, <2>2
<1>6. CASE UNCHANGED vars
  BY <1>6 DEF vars, server, files, browser, answer, SendInv, Pieces, Unstained, Length
<1> QED
  BY <1>2, <1>3, <1>4, <1>5, <1>6 DEF Next, Serve

LEMMA OwnKept ==
  TypeOK /\ JobInv /\ FreshInv /\ OwnProduct /\ [Next]_vars => OwnProduct'
<1> SUFFICES ASSUME TypeOK, JobInv, FreshInv, OwnProduct, [Next]_vars PROVE OwnProduct'
  OBVIOUS
<1>1. CASE SendChunk
  <2>1. /\ cur \in Conn /\ pc = "send" /\ job \in Job /\ req' = req /\ Read \in Nat
        /\ body \in [Conn -> Seq(Piece)]
    BY <1>1, ReadType, TypeParts DEF SendChunk, ControlOK, DataOK
  <2>2. req[cur].method = "POST" => job.src = cur
    BY <2>1 DEF JobInv, Sends
  <2>3. PICK p \in Piece : /\ p.src = job.src
                           /\ body' = body \/ body' = [body EXCEPT ![cur] = Append(@, p)]
    <3>1. PICK t \in Nat : t = job.r + Read
      BY <2>1 DEF Job
    <3>2. [src |-> job.src, to |-> t] \in Piece
      BY <2>1, <3>1 DEF Piece, Job
    <3> QED
      BY <1>1, <3>1, <3>2 DEF SendChunk
  <2>4. CASE body' = [body EXCEPT ![cur] = Append(@, p)]
    <3> SUFFICES ASSUME NEW c \in Conn, NEW k \in DOMAIN body'[c], req[c].method = "POST"
                 PROVE  body'[c][k].src = c
      BY <2>1 DEF OwnProduct
    <3>1. CASE c = cur
      <4>1. body'[c] = Append(body[c], p) /\ body[c] \in Seq(Piece)
        BY <2>1, <2>4, <3>1
      <4>2. \/ k \in DOMAIN body[c] /\ body'[c][k] = body[c][k]
            \/ body'[c][k] = p
        BY <4>1
      <4> QED
        BY <2>2, <2>3, <3>1, <4>2 DEF OwnProduct
    <3>2. CASE c # cur
      BY <2>1, <2>4, <3>2 DEF OwnProduct
    <3> QED
      BY <3>1, <3>2
  <2> QED
    BY <2>1, <2>3, <2>4 DEF OwnProduct
<1>2. CASE Serve /\ ~SendChunk
  BY <1>2, ServeFrame, ServeAnswer DEF OwnProduct
<1>3. CASE Environment
  <2>1. body' = body /\ \A c \in Conn : req'[c] # req[c] => body[c] = <<>>
    BY <1>3, EnvironmentFrame DEF FreshInv
  <2> QED
    BY <2>1 DEF OwnProduct
<1>4. CASE UNCHANGED vars
  BY <1>4 DEF vars, browser, answer, OwnProduct
<1> QED
  BY <1>1, <1>2, <1>3, <1>4 DEF Next

-----------------------------------------------------------------------------
(* Answers.                                                                *)

Concerned(c) == req[c] # None /\ req[c].method # "HEAD" /\ req[c].page # Favicon
Ended(c) == at[c] = "over" /\ sent[c] # "nothing" /\ c \notin gone
Whole(c, src) ==
  src \notin edited =>
    /\ Pieces(c, src) /\ Unstained(c, src)
    /\ Ended(c) => head[c] # "none" /\ Len(body[c]) = Chunks(Length(src))

LEMMA WholeAnswer ==
  AnswerIsWhole <=> \A c \in Conn : Concerned(c) => \E src \in Asked(c) : Whole(c, src)
BY DEF AnswerIsWhole, Concerned, Whole, Pieces, Unstained, Ended

LEMMA WholeAnswerNext ==
  AnswerIsWhole' <=> \A c \in Conn : Concerned(c)' => \E src \in Asked(c)' : Whole(c, src)'
BY DEF AnswerIsWhole, Concerned, Whole, Pieces, Unstained, Ended

\* Every request asks for something the server has.
LEMMA AskedKnown ==
  ASSUME NEW c \in Conn
  PROVE  Asked(c) \subseteq Conn \cup DOMAIN FileSize /\ Asked(c) # {}
BY Known DEF Asked

\* An answer stays whole while nothing is sent and its connection is not closed.
LEMMA WholeStays ==
  ASSUME AnswerIsWhole, NEW c \in Conn, Concerned(c)',
         body'[c] = body[c], clean'[c] = clean[c], req'[c] = req[c], edited \subseteq edited',
         \A p \in DOMAIN FileSize \ edited' : size'[p] = size[p],
         Ended(c)' => Ended(c) /\ head'[c] = head[c]
  PROVE  \E src \in Asked(c)' : Whole(c, src)'
<1>1. Concerned(c) /\ Asked(c)' = Asked(c)
  BY DEF Concerned, Asked
<1>2. PICK src \in Asked(c) : Whole(c, src)
  BY <1>1, WholeAnswer
<1>3. src \notin edited' => Length(src)' = Length(src)
  BY <1>2, AskedKnown DEF Length
<1>4. Whole(c, src)'
  BY <1>2, <1>3 DEF Whole, Pieces, Unstained
<1> QED
  BY <1>1, <1>2, <1>4

LEMMA AnswerKept ==
  ASSUME TypeOK, RequestInv, JobInv, FreshInv, SendInv, AnswerIsWhole, [Next]_vars
  PROVE  AnswerIsWhole'
<1>1. CASE SendChunk
  <2> SUFFICES ASSUME NEW c \in Conn, Concerned(c)' PROVE \E src \in Asked(c)' : Whole(c, src)'
    BY WholeAnswerNext
  <2>1. /\ UNCHANGED <<size, req, sent, gone, edited, head>>
        /\ cur \in Conn /\ cur # None /\ pc = "send"
        /\ body \in [Conn -> Seq(Piece)] /\ clean \in [Conn -> BOOLEAN] /\ job \in Job
        /\ at \in [Conn -> {"new", "queued", "served", "over", "lost", "refused"}]
        /\ at[cur] = "served"
    BY <1>1, TypeParts DEF SendChunk, ControlOK, DataOK, files
  <2>2. at' = at \/ at' = [at EXCEPT ![cur] = "over"]
    BY <1>1 DEF SendChunk, Close
  <2>3. CASE c # cur
    <3>1. body'[c] = body[c] /\ clean'[c] = clean[c] /\ at'[c] = at[c]
      BY <1>1, <2>1, <2>2, <2>3 DEF SendChunk
    <3> QED
      BY <2>1, <3>1, WholeStays DEF Ended
  <2>4. CASE c = cur
    <3>1. Asked(c)' = Asked(c)
      BY <2>1 DEF Asked
    <3>2. CASE Asked(c) \cap edited # {}
      <4>1. PICK src \in Asked(c) : src \in edited
        BY <3>2
      <4> QED
        BY <2>1, <3>1, <4>1 DEF Whole
    <3>3. CASE Asked(c) \cap edited = {}
      <4>1. PICK src \in Source, n \in Nat : src = job.src /\ n = Length(src)
        BY <2>1, ReadType DEF Job
      <4>2. src \in Asked(c) /\ src \notin edited
        BY <2>1, <2>4, <3>3, <4>1 DEF JobInv, Sends
      <4>3. /\ Pieces(c, src)' /\ Unstained(c, src)'
            /\ c \notin gone /\ SentAll(job.r + Read) => Len(body'[c]) = Chunks(n)
        BY <1>1, <2>4, <4>1, <4>2, ChunkSent
      <4>4. Ended(c)' => SentAll(job.r + Read) /\ c \notin gone /\ head'[c] # "none"
        BY <1>1, <2>1, <2>4 DEF SendChunk, SendInv, Ended
      <4>5. Length(src)' = n
        BY <2>1, <4>1 DEF Length
      <4>6. Chunks(Length(src)') = Chunks(n)
        BY <4>5
      <4>7. Whole(c, src)'
        BY <4>3, <4>4, <4>6 DEF Whole, Chunks
      <4> QED
        BY <3>1, <4>2, <4>7
    <3> QED
      BY <3>2, <3>3
  <2> QED
    BY <2>3, <2>4
<1>2. CASE Serve /\ ~SendChunk
  <2> SUFFICES ASSUME NEW c \in Conn, Concerned(c)' PROVE \E src \in Asked(c)' : Whole(c, src)'
    BY WholeAnswerNext
  <2>1. /\ UNCHANGED <<size, req, sent, gone, edited, body, clean>>
        /\ head' # head => WriteHead \/ NoErrorPage
    BY <1>2, ServeFrame, ServeAnswer
  <2>2. Ended(c)' => Ended(c)
    <3>1. CASE Close
      <4>1. ReadNothing \/ ReadOther \/ ReadFavicon
        BY <1>2, <3>1 DEF Serve, Accept, NoChild, ReadHalf, ReadBare, ReadGet, ReadPost,
                          WriteHead, NoErrorPage, BrokenPipe, Close, Die
      <4>2. CASE c = cur
        BY <2>1, <4>1, <4>2 DEF ReadNothing, ReadOther, ReadFavicon, Readable, Ended, Concerned
      <4>3. CASE c # cur
        BY <2>1, <3>1, <4>3, TypeParts DEF Close, Ended, ControlOK
      <4> QED
        BY <4>2, <4>3
    <3>2. CASE Die
      BY <2>1, <3>2 DEF Die, Ended
    <3>3. CASE Accept
      BY <2>1, <3>3, TypeParts DEF Accept, Ended, ControlOK
    <3>4. CASE UNCHANGED at
      BY <2>1, <3>4 DEF Ended
    <3> QED
      BY <1>2, <3>1, <3>2, <3>3, <3>4, ServeFrame
  <2>3. Ended(c) => head'[c] = head[c]
    <3>1. CASE WriteHead \/ NoErrorPage
      <4>1. cur \in Conn /\ at[cur] = "served"
        BY <3>1, TypeParts DEF WriteHead, NoErrorPage, ControlOK
      <4>2. at[c] = "over" => c # cur
        BY <4>1
      <4> QED
        BY <3>1, <4>1, <4>2, TypeParts DEF WriteHead, NoErrorPage, Ended, DataOK
    <3>2. CASE ~(WriteHead \/ NoErrorPage)
      BY <2>1, <3>2
    <3> QED
      BY <3>1, <3>2
  <2> QED
    BY <2>1, <2>2, <2>3, WholeStays
<1>3. CASE Environment
  <2> SUFFICES ASSUME NEW c \in Conn, Concerned(c)' PROVE \E src \in Asked(c)' : Whole(c, src)'
    BY WholeAnswerNext
  <2>1. CASE req'[c] # req[c]
    <3>1. at[c] = "new" /\ at'[c] = "queued" /\ body'[c] = <<>> /\ clean'[c]
      BY <1>3, <2>1, EnvironmentFrame DEF FreshInv
    <3>2. PICK src \in Asked(c)' : TRUE
      BY Known DEF Asked
    <3> QED
      BY <3>1, <3>2 DEF Whole, Pieces, Unstained, Ended
  <2>2. CASE req'[c] = req[c]
    <3>1. Ended(c)' => Ended(c)
      BY <1>3, EnvironmentFrame DEF Ended
    <3> QED
      BY <1>3, <2>2, <3>1, EnvironmentFrame, WholeStays
  <2> QED
    BY <2>1, <2>2
<1>4. CASE UNCHANGED vars
  <2> SUFFICES ASSUME NEW c \in Conn, Concerned(c)' PROVE \E src \in Asked(c)' : Whole(c, src)'
    BY WholeAnswerNext
  <2> QED
    BY <1>4, WholeStays DEF vars, server, files, browser, answer, Ended
<1> QED
  BY <1>1, <1>2, <1>3, <1>4 DEF Next

-----------------------------------------------------------------------------
(* Lost connections.                                                       *)

Finished == {c \in Conn : at[c] \in {"over", "lost"}}

LEMMA DoneFinite ==
  /\ IsFiniteSet(Done) /\ Cardinality(Done) \in Nat
  /\ \A S \in SUBSET Conn : IsFiniteSet(S) /\ Cardinality(S) \in Nat
BY Known, FS_Subset, FS_CardinalityType DEF Done

LEMMA DoneGrows ==
  ASSUME NEW S \in SUBSET Conn, NEW T \in SUBSET Conn, S \subseteq T
  PROVE  Cardinality(S) <= Cardinality(T)
BY Known, FS_Subset

LEMMA DoneWithOne ==
  ASSUME NEW S \in SUBSET Conn, NEW T \in SUBSET Conn, S \subseteq T, NEW c \in T, c \notin S
  PROVE  Cardinality(S) + 1 <= Cardinality(T)
<1>1. S \cup {c} \in SUBSET Conn /\ S \cup {c} \subseteq T
  OBVIOUS
<1>2. Cardinality(S \cup {c}) = Cardinality(S) + 1
  BY DoneFinite, FS_AddElement
<1> QED
  BY <1>1, <1>2, DoneGrows

\* Every child belongs to a connection that was accepted.
LEMMA ChildrenKept ==
  ASSUME TypeOK, children <= Cardinality(Done), [Next]_vars
  PROVE  children' <= Cardinality(Done)'
<1>1. PICK S \in SUBSET Conn, T \in SUBSET Conn : S = Done /\ T = Done'
  BY DEF Done
<1>2. Cardinality(S) \in Nat /\ Cardinality(T) \in Nat /\ children <= Cardinality(S)
      /\ children \in Nat
  BY <1>1, DoneFinite, Known DEF TypeOK
<1> SUFFICES children' <= Cardinality(T)
  BY <1>1
<1>3. ASSUME S \subseteq T, children' = children PROVE children' <= Cardinality(T)
  BY <1>2, <1>3, DoneGrows
<1>4. CASE Die
  BY <1>2, <1>4 DEF Die
<1>5. CASE Accept
  <2>1. cur' = Head(queue) /\ cur' \in Conn /\ at[cur'] = "queued"
    BY <1>5, AcceptControl, TypeParts
  <2>2. at' = [at EXCEPT ![cur'] = "served"] /\ children' = children + 1
    BY <1>5, <2>1 DEF Accept
  <2>3. S \subseteq T /\ cur' \in T /\ cur' \notin S
    BY <1>1, <2>1, <2>2, TypeParts DEF Done, ControlOK
  <2>4. Cardinality(S) + 1 <= Cardinality(T)
    BY <2>3, DoneWithOne
  <2> QED
    BY <1>2, <2>2, <2>4
<1>6. CASE Serve /\ ~Accept /\ ~Die
  <2>1. children' = children
    BY <1>6 DEF Serve, NoChild, ReadNothing, ReadHalf, ReadOther, ReadFavicon, ReadBare, ReadGet,
                ReadPost, WriteHead, NoErrorPage, SendChunk, BrokenPipe, DieOrClose
  <2>2. S \subseteq T
    BY <1>1, <1>6, ServeFrame, TypeParts DEF Close, Done, ControlOK
  <2> QED
    BY <1>3, <2>1, <2>2
<1>7. CASE Environment
  <2>1. S \subseteq T
    BY <1>1, <1>7, EnvironmentFrame DEF Done
  <2> QED
    BY <1>3, <1>7, <2>1, EnvironmentFrame
<1>8. CASE UNCHANGED vars
  BY <1>1, <1>3, <1>8 DEF vars, server, browser, Done
<1> QED
  BY <1>4, <1>5, <1>6, <1>7, <1>8 DEF Next

Reason ==
  \/ gone # {}
  \/ \E c \in Conn : at[c] = "lost" /\ sent[c] = "head"
  \/ \E c \in Conn : sent[c] = "whole" /\ req[c].method = "HEAD"
  \/ \E c \in Conn : sent[c] = "whole" /\ Kind[req[c].page] = "bare"
  \/ NotFound \in edited
  \/ Cardinality(Finished) > MaxChildren

LEMMA LostReason == LostOnlyFor <=> ((\E c \in Conn : at[c] = "lost") => Reason)
BY DEF LostOnlyFor, Reason, Finished

LEMMA LostReasonNext == LostOnlyFor' <=> ((\E c \in Conn : at'[c] = "lost") => Reason')
BY DEF LostOnlyFor, Reason, Finished

\* A reason remains one.
LEMMA ReasonStays ==
  ASSUME TypeOK, RequestInv, Reason, [Next]_vars
  PROVE  Reason'
<1>1. /\ gone \subseteq gone' /\ edited \subseteq edited'
      /\ \A c \in Conn : at[c] \in {"over", "lost"} => at'[c] = at[c]
      /\ \A c \in Conn : at[c] = "lost" => sent'[c] = sent[c]
      /\ \A c \in Conn : sent[c] = "whole" => sent'[c] = "whole" /\ req'[c] = req[c]
  <2>1. CASE Serve
    <3>1. \A c \in Conn : at[c] \in {"over", "lost"} => at'[c] = at[c]
      <4>1. CASE Accept
        BY <4>1, AcceptControl, TypeParts DEF Accept, ControlOK
      <4>2. CASE Close /\ cur \in Conn /\ at[cur] = "served"
        BY <4>2, TypeParts DEF Close, ControlOK
      <4>3. CASE Die
        BY <4>3 DEF Die
      <4> QED
        BY <2>1, <4>1, <4>2, <4>3, ServeFrame
    <3> QED
      BY <2>1, <3>1, ServeFrame
  <2>2. CASE Environment
    BY <2>2, EnvironmentFrame DEF RequestInv
  <2>3. CASE UNCHANGED vars
    BY <2>3 DEF vars, browser
  <2> QED
    BY <2>1, <2>2, <2>3 DEF Next
<1>2. Cardinality(Finished) > MaxChildren => Cardinality(Finished)' > MaxChildren
  <2>1. PICK S \in SUBSET Conn, T \in SUBSET Conn : S = Finished /\ T = Finished'
    BY DEF Finished
  <2>2. S \subseteq T
    BY <1>1, <2>1 DEF Finished
  <2>3. Cardinality(S) <= Cardinality(T) /\ Cardinality(S) \in Nat /\ Cardinality(T) \in Nat
    BY <2>2, DoneGrows, DoneFinite
  <2> QED
    BY <2>1, <2>3, Known
<1> QED
  BY <1>1, <1>2 DEF Reason

\* When the process table is full, every child in it belongs to a connection, and
\* the connection that is about to be accepted is one more.
LEMMA NoChildReason ==
  ASSUME TypeOK, children <= Cardinality(Done), NoChild
  PROVE  Reason'
<1>1. PICK S \in SUBSET Conn, T \in SUBSET Conn : S = Done /\ T = Finished'
  BY DEF Done, Finished
<1>2. PICK h \in Conn : h = Head(queue) /\ at[h] = "queued"
  BY TypeParts DEF NoChild, ControlOK
<1>3. S \subseteq T /\ h \in T /\ h \notin S
  BY <1>1, <1>2 DEF NoChild, Die, Done, Finished
<1>4. Cardinality(S) + 1 <= Cardinality(T) /\ Cardinality(S) \in Nat /\ Cardinality(T) \in Nat
  BY <1>3, DoneWithOne, DoneFinite
<1>5. Cardinality(T) > MaxChildren
  BY <1>1, <1>4, Known DEF NoChild
<1> QED
  BY <1>1, <1>5 DEF Reason

LEMMA LostKept ==
  ASSUME TypeOK, FilesInv, RequestInv, JobInv, children <= Cardinality(Done), LostOnlyFor,
         [Next]_vars
  PROVE  LostOnlyFor'
<1>1. CASE Reason
  BY <1>1, ReasonStays, LostReasonNext
<1>2. ASSUME \A c \in Conn : at'[c] = "lost" => at[c] = "lost" PROVE LostOnlyFor'
  BY <1>1, <1>2, LostReason, LostReasonNext
<1>3. CASE Die /\ Serve
  <2> SUFFICES Reason'
    BY LostReasonNext
  <2>1. CASE NoChild
    BY <2>1, NoChildReason
  <2>2. CASE ReadNothing \/ BrokenPipe
    BY <2>2 DEF ReadNothing, BrokenPipe, Readable, Reason
  <2>3. CASE ReadHalf \/ ReadOther \/ ReadBare
    <3>1. cur \in Conn /\ at[cur] = "served" /\ UNCHANGED <<sent, req>>
      BY <2>3, TypeParts DEF ReadHalf, ReadOther, ReadBare, Readable, ControlOK
    <3>2. at'[cur] = "lost"
      BY <1>3, <3>1 DEF Die
    <3> QED
      BY <2>3, <3>1, <3>2 DEF ReadHalf, ReadOther, ReadBare, Reason
  <2>4. CASE NoErrorPage
    <3>1. cwd = "docroot" /\ ~Found(cwd, NotFound) /\ edited' = edited
      BY <2>4 DEF NoErrorPage, JobInv, Sends
    <3>2. size[NotFound] = None
      BY <3>1, Known DEF Found, TypeOK
    <3>3. NotFound \in edited
      BY <3>2, Known DEF FilesInv
    <3> QED
      BY <3>1, <3>3 DEF Reason
  <2>5. CASE Accept \/ ReadFavicon \/ ReadGet \/ ReadPost \/ WriteHead \/ SendChunk
    BY <1>3, <2>5 DEF Die, Accept, ReadFavicon, ReadGet, ReadPost, WriteHead, SendChunk, Close
  <2> QED
    BY <1>3, <2>1, <2>2, <2>3, <2>4, <2>5 DEF Serve
<1>4. CASE Serve /\ ~Die
  <2>1. CASE Accept
    BY <1>2, <2>1, AcceptControl, TypeParts DEF Accept, ControlOK
  <2>2. CASE Close
    BY <1>2, <2>2, TypeParts DEF Close, ControlOK
  <2> QED
    BY <1>2, <1>4, <2>1, <2>2, ServeFrame
<1>5. CASE Environment
  BY <1>2, <1>5, EnvironmentFrame
<1>6. CASE UNCHANGED vars
  BY <1>2, <1>6 DEF vars, browser
<1> QED
  BY <1>3, <1>4, <1>5, <1>6 DEF Next

-----------------------------------------------------------------------------
(* Theorems.                                                               *)

LEMMA TypeKept == TypeOK /\ FilesInv /\ RequestInv /\ JobInv /\ [Next]_vars => TypeOK'
BY ServeTyped, EnvironmentTyped, StutterTyped DEF Next

\* Everything that the proofs carry from step to step holds always.
THEOREM Invariance == Spec => []Inv
<1>1. Inv /\ [Next]_vars => Inv'
  BY TypeKept, FilesKept, RequestKept, JobKept, FreshKept, SendKept, OwnKept, AnswerKept,
     ChildrenKept, LostKept DEF Inv
<1> QED
  BY <1>1, InitInv, PTL DEF Spec

\* Type correctness of the server, its queue and its browsers: the server is busy
\* with exactly one connection or waits (the variables of main and of
\* sendMessage, main.c 55-136).
THEOREM TypeCorrect == Spec => []TypeOK
BY Invariance, PTL DEF Inv

\* Every answer is made of the chunks of what was asked for, once each and in
\* order, and an answer to which the server has put an end has them all (the loops
\* of sendMessage, main.c 215-330).
THEOREM AnswerIsWholeAlways == Spec => []AnswerIsWhole
BY Invariance, PTL DEF Inv

\* A form gets its own product, although all products go through one file
\* (main.c 296-303).
THEOREM OwnProductAlways == Spec => []OwnProduct
BY Invariance, PTL DEF Inv

\* The server ends and loses connections for no other reason than those that
\* LostOnlyFor lists (main.c 116, 130, 160, 248, 328).
THEOREM LostOnlyForAlways == Spec => []LostOnlyFor
BY Invariance, PTL DEF Inv
=============================================================================
