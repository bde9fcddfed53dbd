----------------------------- MODULE HttpServer -----------------------------
(***************************************************************************)
(* The HTTP server of VS03 (main.c), one process, and the browsers that    *)
(* connect to it.  The server forks for every connection, but the child    *)
(* leaves at once and the parent reads the request with one read(), writes *)
(* the answer and only then accepts the next connection.                   *)
(*                                                                         *)
(* A page is a name in the directory SRV_DIR.  Its length is counted in    *)
(* bytes of which ChunkSize are sent at a time; what a chunk holds is the  *)
(* file it was read from and the number of bytes read up to its end.       *)
(***************************************************************************)
EXTENDS Naturals, Sequences, FiniteSets

CONSTANTS
  Conn,          \* connections, each opened by a browser at most once
  Page,          \* names a browser may ask for
  FileSize,      \* the files in SRV_DIR with their length
  Kind,          \* what the part of a name after the dot says of it
  Wants,         \* for each connection, the requests it may carry
  ChunkSize,     \* CHUNKSIZE
  Backlog,       \* connections that listen() lets wait
  MaxChildren,   \* children the system lets the process have
  MaxStarts,     \* how often the server is started
  Editable,      \* files that somebody may change once
  Impatient,     \* connections whose browser may close them early
  None

Index == "funktioniert.html"
NotFound == "404.html"
Favicon == "favicon.ico"
Result == "post_return.html"

Method == {"GET", "POST", "HEAD"}
Request == [method : Method, page : Page]
Dir == {"start", "docroot"}

ASSUME HttpAssumption ==
  /\ IsFiniteSet(Conn)
  /\ DOMAIN FileSize \subseteq Page \ {Favicon, Result}
  /\ FileSize \in [DOMAIN FileSize -> Nat]
  /\ Kind \in [Page -> {"html", "other", "bare"}]
  /\ {Index, NotFound, Result} \subseteq Page /\ NotFound \in DOMAIN FileSize
  /\ Kind[NotFound] = "html" /\ Kind[Result] = "html"
  /\ Wants \in [Conn -> SUBSET Request]
  /\ ChunkSize \in Nat \ {0} /\ Backlog \in Nat /\ MaxChildren \in Nat
  /\ MaxStarts \in Nat
  /\ Editable \subseteq DOMAIN FileSize
  /\ Impatient \subseteq Conn
  /\ None \notin Conn \cup Nat /\ Page \cap Conn = {}

\* The answer to a POST is shorter than two chunks.
ResultSize == ChunkSize + 1

VARIABLES
  pc,        \* where the server is
  cur,       \* newsockfd
  job,       \* the file being sent: source, length when opened, bytes read
  cwd,       \* the working directory of the server
  children,  \* children that have exited and are never waited for
  queue,     \* connections not accepted yet
  result,    \* whose product each directory's post_return.html shows
  size,      \* the files in SRV_DIR now
  at,        \* how far each connection is
  req,       \* the request of each connection
  sent,      \* how much of the request has been sent
  gone,      \* connections closed by their browser
  head,      \* the status that reached the browser
  body,      \* the chunks that reached it
  clean,     \* whether nothing else was sent between them
  starts, edited

server == <<pc, cur, job, cwd, children, queue>>
files == <<result, size>>
browser == <<at, req, sent, gone>>
answer == <<head, body, clean>>
vars == <<server, files, browser, answer, starts, edited>>

Source == Page \cup Conn
Job == [src : Source, size : Nat, r : Nat, status : {"200", "404", "post"}]
Piece == [src : Source, to : Nat]

ASSUME NoneAssumption == None \notin Request \cup Job

TypeOK ==
  /\ pc \in {"off", "accept", "read", "head", "send"}
  /\ cur \in Conn \cup {None}
  /\ job \in Job \cup {None}
  /\ cwd \in Dir
  /\ children \in 0..MaxChildren
  /\ queue \in Seq(Conn)
  /\ result \in [Dir -> Conn \cup {None}]
  /\ size \in [DOMAIN FileSize -> Nat \cup {None}]
  /\ at \in [Conn -> {"new", "queued", "served", "over", "lost", "refused"}]
  /\ req \in [Conn -> Request \cup {None}]
  /\ sent \in [Conn -> {"nothing", "head", "whole"}]
  /\ gone \in SUBSET Conn
  /\ head \in [Conn -> {"none", "cut", "200"}]
  /\ body \in [Conn -> Seq(Piece)]
  /\ clean \in [Conn -> BOOLEAN]
  /\ starts \in 0..MaxStarts
  /\ edited \in SUBSET Editable
  \* The server is busy with a connection exactly when it does not wait.
  /\ pc \in {"read", "head", "send"} <=> cur # None
  /\ pc \in {"head", "send"} <=> job # None
  /\ \A c \in Conn : at[c] = "served" <=> c = cur
  /\ \A c \in Conn : at[c] = "queued" <=> \E i \in DOMAIN queue : queue[i] = c
  /\ \A i, j \in DOMAIN queue : queue[i] = queue[j] => i = j

Init ==
  /\ pc = "off" /\ cur = None /\ job = None
  /\ cwd = "start" /\ children = 0 /\ queue = <<>>
  /\ result = [d \in Dir |-> None]
  /\ size = FileSize
  /\ at = [c \in Conn |-> "new"]
  /\ req = [c \in Conn |-> None]
  /\ sent = [c \in Conn |-> "nothing"]
  /\ gone = {}
  /\ head = [c \in Conn |-> "none"]
  /\ body = [c \in Conn |-> <<>>]
  /\ clean = [c \in Conn |-> TRUE]
  /\ starts = 0 /\ edited = {}

-----------------------------------------------------------------------------
(* The end of a connection and the end of the server.                      *)

\* close(newsockfd)
Close ==
  /\ at' = [at EXCEPT ![cur] = "over"]
  /\ pc' = "accept" /\ cur' = None /\ job' = None

\* The process ends; its sockets are closed with it, also those that wait.
Die ==
  /\ pc' = "off" /\ cur' = None /\ job' = None
  /\ queue' = <<>> /\ children' = 0 /\ cwd' = "start"
  /\ at' = [c \in Conn |->
              IF at[c] \in {"queued", "served"} THEN "lost" ELSE at[c]]

\* Undefined behaviour that either ends the process or does nothing.
DieOrClose(dir) ==
  /\ \/ Die
     \/ Close /\ cwd' = dir /\ UNCHANGED <<queue, children>>
  /\ UNCHANGED answer

-----------------------------------------------------------------------------
(* The server.                                                             *)

\* Arguments are checked, the socket is bound.  err_abort, as when the port
\* is still taken, leaves the server off: no step.
Start ==
  /\ pc = "off" /\ starts < MaxStarts
  /\ starts' = starts + 1
  /\ pc' = "accept"
  /\ UNCHANGED <<cur, job, cwd, children, queue, files, browser, answer, edited>>

\* Mutant: the connection that is taken also stays in the queue.
StillQueued == queue

Waiting == Tail(queue)

\* accept() and fork(); the child does nothing but exit and stays a zombie.
Accept ==
  /\ pc = "accept" /\ queue # <<>>
  /\ children < MaxChildren
  /\ cur' = Head(queue) /\ queue' = Waiting
  /\ at' = [at EXCEPT ![Head(queue)] = "served"]
  /\ children' = children + 1
  /\ pc' = "read"
  /\ UNCHANGED <<job, cwd, files, req, sent, gone, answer, starts, edited>>

\* fork() fails: err_abort.
NoChild ==
  /\ pc = "accept" /\ queue # <<>>
  /\ children = MaxChildren
  /\ Die
  /\ UNCHANGED <<files, req, sent, gone, answer, starts, edited>>

\* read() has something to return: a part of the request, or its end.
Readable == pc = "read" /\ (sent[cur] # "nothing" \/ cur \in gone)

\* The browser closed without a word: nothing is parsed, the method is
\* whatever the allocated bytes hold, and fclose gets an undefined pointer.
ReadNothing ==
  /\ Readable /\ sent[cur] = "nothing"
  /\ DieOrClose(cwd)
  /\ UNCHANGED <<files, req, sent, gone, starts, edited>>

\* Only the head of a POST has come: zahl1= is not found, strcmp gets NULL.
ReadHalf ==
  /\ Readable /\ sent[cur] = "head"
  /\ Die
  /\ UNCHANGED <<files, req, sent, gone, answer, starts, edited>>

\* Methods nobody handles end with fclose of an undefined pointer.
ReadOther ==
  /\ Readable /\ sent[cur] = "whole" /\ req[cur].method = "HEAD"
  /\ DieOrClose(cwd)
  /\ UNCHANGED <<files, req, sent, gone, starts, edited>>

\* Mutant: no chdir.
NoChdir == UNCHANGED cwd

\* chdir(SRV_DIR), at every GET; from the second on it fails or is idle.
Chdir == cwd' = "docroot"

ReadFavicon ==
  /\ Readable /\ sent[cur] = "whole"
  /\ req[cur].method = "GET" /\ req[cur].page = Favicon
  /\ Chdir /\ Close
  /\ UNCHANGED <<queue, children, files, req, sent, gone, answer, starts, edited>>

\* What fopen finds under a name in directory d.
Found(d, page) ==
  IF page = Result THEN result[d] # None
                   ELSE d = "docroot" /\ page \in DOMAIN size /\ size[page] # None
SourceOf(d, page) == IF page = Result THEN result[d] ELSE page
Length(src) == IF src \in Conn THEN ResultSize ELSE size[src]

Opened(src, length, status) ==
  [src |-> src, size |-> length, r |-> 0, status |-> status]

\* The 404 page is opened after the head of the answer has been written.
ReadGet ==
  /\ Readable /\ sent[cur] = "whole"
  /\ req[cur].method = "GET" /\ req[cur].page # Favicon
  /\ Chdir
  /\ LET page == req[cur].page IN
     /\ Found(cwd', page) => Kind[page] # "bare"
     /\ job' = IF Found(cwd', page)
               THEN LET src == SourceOf(cwd', page)
                    IN Opened(src, Length(src), "200")
               ELSE Opened(NotFound, 0, "404")
  /\ pc' = "head"
  /\ UNCHANGED <<cur, children, queue, files, browser, answer, starts, edited>>

\* A file whose name has no dot: strcmp gets NULL.
ReadBare ==
  /\ Readable /\ sent[cur] = "whole"
  /\ req[cur].method = "GET" /\ req[cur].page # Favicon
  /\ Found("docroot", req[cur].page) /\ Kind[req[cur].page] = "bare"
  /\ Die
  /\ UNCHANGED <<files, req, sent, gone, answer, starts, edited>>

\* The product is written to post_return.html in the working directory,
\* whatever that is, and the file is opened again.
\* Mutant: the file is opened again before it is closed, with what it held.
Unflushed(old, new) == IF old = None THEN new ELSE old

Reopened(old, new) == new

ReadPost ==
  /\ Readable /\ sent[cur] = "whole" /\ req[cur].method = "POST"
  /\ result' = [result EXCEPT ![cwd] = cur]
  /\ job' = Opened(Reopened(result[cwd], result'[cwd]), ResultSize, "post")
  /\ pc' = "head"
  /\ UNCHANGED <<cur, cwd, children, queue, size, browser, answer, starts, edited>>

\* The head is written with the size of a pointer for its length, except
\* after a POST: of "HTTP/1.1 200 OK" the browser gets "HTTP/1.".
WriteHead ==
  /\ pc = "head"
  /\ job.status = "404" => Found(cwd, NotFound)
  /\ head' = IF cur \in gone THEN head
             ELSE [head EXCEPT ![cur] = IF job.status = "post" THEN "200" ELSE "cut"]
  /\ job' = IF job.status = "404" THEN [job EXCEPT !.size = size[NotFound]] ELSE job
  /\ pc' = "send"
  /\ UNCHANGED <<cur, cwd, children, queue, files, browser, body, clean, starts, edited>>

\* There is no 404 page either: fseek gets NULL.
NoErrorPage ==
  /\ pc = "head" /\ job.status = "404" /\ ~Found(cwd, NotFound)
  /\ Die
  /\ head' = IF cur \in gone THEN head ELSE [head EXCEPT ![cur] = "cut"]
  /\ UNCHANGED <<files, req, sent, gone, body, clean, starts, edited>>

\* Mutant: the file is not rewound after its length was found.
NotRewound == 0

\* The bytes that fread returns.
Read == LET left == Length(job.src) - job.r IN
        IF job.r >= Length(job.src) THEN 0
        ELSE IF left < ChunkSize THEN left ELSE ChunkSize

\* Bytes that are not meant: a chunk of HTML that fills the buffer has no end
\* mark, any other file is sent in full buffers, and post_answer, to which
\* strcat appends, is not cleared.
Extra ==
  IF job.src \in Conn THEN BOOLEAN
  ELSE IF Kind[job.src] = "other" THEN {Read < ChunkSize}
  ELSE IF Read = ChunkSize THEN BOOLEAN ELSE {FALSE}

\* Mutant: one byte is forgotten.
AlmostAll(r) == r + 1 >= job.size

SentAll(r) == r = job.size

SendChunk ==
  /\ pc = "send"
  /\ body' = IF cur \in gone \/ Read = 0 THEN body
             ELSE [body EXCEPT ![cur] = Append(@, [src |-> job.src, to |-> job.r + Read])]
  /\ \E extra \in Extra : clean' = [clean EXCEPT ![cur] = @ /\ ~extra]
  /\ IF SentAll(job.r + Read)
     THEN Close
     ELSE /\ job' = [job EXCEPT !.r = @ + Read]
          /\ UNCHANGED <<pc, cur, at>>
  /\ UNCHANGED <<cwd, children, queue, files, req, sent, gone, head, starts, edited>>

\* Writing to a connection that the browser has closed: SIGPIPE.
BrokenPipe ==
  /\ pc \in {"head", "send"} /\ cur \in gone
  /\ Die
  /\ UNCHANGED <<files, req, sent, gone, answer, starts, edited>>

Serve ==
  \/ Accept \/ NoChild
  \/ ReadNothing \/ ReadHalf \/ ReadOther \/ ReadFavicon
  \/ ReadGet \/ ReadBare \/ ReadPost
  \/ WriteHead \/ NoErrorPage \/ SendChunk \/ BrokenPipe

-----------------------------------------------------------------------------
(* The browsers and whoever edits the pages.                               *)

\* The system completes the connection as long as there is room.
Connect(c) ==
  /\ at[c] = "new" /\ pc # "off" /\ Len(queue) < Backlog
  /\ at' = [at EXCEPT ![c] = "queued"]
  /\ queue' = Append(queue, c)
  /\ \E q \in Wants[c] : req' = [req EXCEPT ![c] = q]
  /\ UNCHANGED <<pc, cur, job, cwd, children, files, sent, gone, answer, starts, edited>>

Refused(c) ==
  /\ at[c] = "new" /\ (pc = "off" \/ Len(queue) = Backlog)
  /\ at' = [at EXCEPT ![c] = "refused"]
  /\ UNCHANGED <<server, files, req, sent, gone, answer, starts, edited>>

Connected(c) == at[c] \in {"queued", "served"} /\ c \notin gone

\* A request comes as a whole; a POST may come in two segments.
Send(c) ==
  /\ Connected(c) /\ sent[c] # "whole"
  /\ sent' = [sent EXCEPT ![c] = "whole"]
  /\ UNCHANGED <<server, files, at, req, gone, answer, starts, edited>>

SendPart(c) ==
  /\ Connected(c) /\ sent[c] = "nothing" /\ req[c].method = "POST"
  /\ sent' = [sent EXCEPT ![c] = "head"]
  /\ UNCHANGED <<server, files, at, req, gone, answer, starts, edited>>

\* The user presses Stop or leaves the page.
Leave(c) ==
  /\ Connected(c) /\ c \in Impatient
  /\ gone' = gone \cup {c}
  /\ UNCHANGED <<server, files, at, req, sent, answer, starts, edited>>

\* Somebody makes a page longer or shorter, or removes it; one that is removed
\* while it is sent stays as it is for the sender.
Edit(p) ==
  /\ p \notin edited
  /\ \/ size' = [size EXCEPT ![p] = @ + 1]
     \/ size[p] > 0 /\ size' = [size EXCEPT ![p] = @ - 1]
     \/ job = None /\ size' = [size EXCEPT ![p] = None]
  /\ edited' = edited \cup {p}
  /\ UNCHANGED <<server, result, browser, answer, starts>>

Environment ==
  \/ Start
  \/ \E c \in Conn : Connect(c) \/ Refused(c) \/ Send(c) \/ SendPart(c) \/ Leave(c)
  \/ \E p \in Editable : Edit(p)

Next == Serve \/ Environment

\* The server runs when it can; nobody else has to do anything.
Spec == Init /\ [][Next]_vars /\ WF_vars(Serve)

-----------------------------------------------------------------------------
(* Properties.                                                             *)

\* The number of chunks of a file of n bytes, and the bytes up to the end of
\* its k-th chunk.
Chunks(n) == (n + ChunkSize - 1) \div ChunkSize
EndOf(n, k) == IF k * ChunkSize < n THEN k * ChunkSize ELSE n

\* What a request asks for; the page of results shows somebody's result.
Asked(c) ==
  IF req[c].method = "POST" THEN {c}
  ELSE IF req[c].page = Result THEN Conn \cup {NotFound}
  ELSE IF req[c].page \in DOMAIN FileSize THEN {req[c].page} ELSE {NotFound}

\* The answer to a request for a page or to a form is made of the chunks of
\* what was asked for and of nothing else, from the first on, each once and in
\* order; a page shorter than a chunk comes with no byte added.  An answer to which the server has put an end has them all: the
\* loops of sendMessage that end when the bytes read are the length (main.c
\* 221, 259, 316), whose file has been opened in one directory or another.
AnswerIsWhole ==
  \A c \in Conn :
    req[c] # None /\ req[c].method # "HEAD" /\ req[c].page # Favicon =>
      \E src \in Asked(c) : src \notin edited =>
        LET n == Length(src) IN
        /\ \A k \in DOMAIN body[c] :
             body[c][k].src = src /\ body[c][k].to = EndOf(n, k)
        /\ n < ChunkSize /\ src \in DOMAIN FileSize => clean[c] \/ Kind[src] = "other"
        /\ at[c] = "over" /\ sent[c] # "nothing" /\ c \notin gone =>
             head[c] # "none" /\ Len(body[c]) = Chunks(n)

\* The product that a form gets is the product of its own numbers, although
\* all products go through one file (main.c 296-303).
OwnProduct ==
  \A c \in Conn : \A k \in DOMAIN body[c] :
    req[c].method = "POST" => body[c][k].src = c

\* A connection is lost, because the server ended, only after a browser left
\* early, a form came in two parts and was read between them, a method or a
\* name without a dot came that the parser does not expect (main.c 130, 248,
\* 328), the page for errors was taken away, or the children that nobody waits for had filled the process table.
LostOnlyFor ==
  (\E c \in Conn : at[c] = "lost") =>
    \/ gone # {}
    \/ \E c \in Conn : at[c] = "lost" /\ sent[c] = "head"
    \/ \E c \in Conn : sent[c] = "whole" /\ req[c].method = "HEAD"
    \/ \E c \in Conn : sent[c] = "whole" /\ Kind[req[c].page] = "bare"
    \/ NotFound \in edited
    \/ Cardinality({c \in Conn : at[c] \in {"over", "lost"}}) > MaxChildren

\* The server waits for a request that does not come.
Blocked == pc = "read" /\ sent[cur] = "nothing" /\ cur \notin gone

\* If every browser sends something or closes, and no file changes its length
\* while it is sent, then every connection that is let in is served or lost:
\* one process answers all of them, one after the other (main.c 104-136).
EveryoneServed ==
  /\ Blocked ~> ~Blocked
  /\ [](pc = "send" => job.size = Length(job.src))
  => \A c \in Conn : at[c] = "queued" ~> at[c] \in {"over", "lost"}
=============================================================================
