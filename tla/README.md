# Verification of HS-Verteilte-Systeme

The repository holds the solutions of a distributed-systems course: eight
programs (VS02 to VS09) that share no code at run time, in Java and C.  This
directory holds TLA+ modules of them, TLC runs and TLAPS proofs.  Paths below
are relative to the repository; line numbers are in `PROJECT.json` ("map").

## 1. Inventory

### VS02 - file transfer over UDP (HSOSSTP)
| part | state | operations |
|---|---|---|
| `UDPClient` | static `filename`, `chunksize`, `chunkNo`, the file copy on disk | start (INITX), receive ERROR, SIDXX, DATAX; ends with an exit code |
| `UDPServer` | static `sid`, `valuesMap` (session id -> host, file, chunk size, CNF flag) | receive INITX, GETXX; reads chunks |
| `MessageReceiver`, `MessageSender`, `MessageValues` | last datagram's fields, `sessionKey` | parse and format datagrams |

Client and server exchange datagrams; neither has a timer.  The server sends to
port 4710 of the client's host, so there is one client per host.  *Hard:* lost,
duplicated and late datagrams, a server restart (its sessions are in memory), a
second client on a host whose port is taken, a killed client whose datagrams meet
the next one.  *Correct means:* a transfer that reports completion gives the file;
sessions do not mix; no datagram multiplies; a transfer ends unless something was lost.

### VS03 - HTTP server
One C file.  State: the connection in hand, the file being sent with the bytes read so
far, the working directory (`chdir` at every GET), the children, and the file
`post_return.html` through which all results of forms go.  Operations: accept and fork, read a request,
parse it, answer GET and POST.  The forked child leaves at once and is never waited for; the parent
serves one connection after the other.  *Hard:* a connection that sends nothing holds up
all others; the send loops end only if the bytes read are exactly the length `ftell` gave;
requests that come in parts; undefined behaviour in the parser and at the last `fclose`, any of which
ends the one process and all connections in its queue.  *Correct means:* an answer is
the whole of what was asked for and nothing else; a form gets its own product; only
known causes end the server; everyone in the queue is served.

### VS04 - publish/subscribe with ONC RPC over UDP
Dispatcher (`subs[]`, a counter, `current_topic`), clients with a menu, and
receiver processes they fork; receivers are found by the port mapper.  Operations:
`set_channel`, `subscribe`, `unsubscribe`, `publish`.  *Hard:* the transport
retransmits a call after 5 s, so the procedures run more than once; the static
`return_code` of `subscribe` is never reset; an array shift that shifts one entry.
*Correct means:* the table is the set of subscribed hosts; an answer tells what
happened; a publish reaches the subscribers.

### VS05 - publish/subscribe with authentication
VS04 over TCP with sessions: `session_list` (id, user, validated),
`get_session`, `validate`, `invalidate`, and a digest in every call.  Clients log
in until it works, use the menu and log out.  *Hard:* sessions of several clients
interleaved with failed logins, logouts, time-outs and dying clients over a list
whose deletion does not look for its end; calls that time out while a publish
blocks the only thread, and are executed all the same; two clients behind one
address; receivers that must be known to be ended.  *Correct means:* only validated
sessions act; nobody loses a session because of somebody else; the list is never
walked off its end; table and receiver processes agree; every call ends.

### VS06, VS07 - RMI chat and its web front end
`ChatServerImpl` (a map user -> remote handle), `ChatProxyImpl` (sends to all,
drops dead clients afterwards), `ChatClient`; in VS07 `ClientServlet` (one object
for all requests, fields `chatProxy`, `clients`, `sessionUserMap`).  RMI and the
servlet container call from many threads; the maps have no lock.  *Hard:*
iteration against modification, check-then-act on names, messages that arrive
between reading and clearing.  *Correct means:* a user gets every message sent
while subscribed, once; a name belongs to one user.

### VS08, VS09 - billboard with AJAX, billboard with WebSockets
`BillBoard` (an array of entries and a `LinkedHashSet` of free slots), `BillBoardServlet` (poll
times by address, one thread per request), `BillBoardHtmlAdapter` (reads the entries for a
poll).  Pages post, update, delete, and poll every few seconds for entries that are as new as their
last poll.  *Hard:* no lock anywhere: two requests take the same slot, one clears a slot that
another fills, a poll reads the board in the middle of a change.  *Correct means:* no slot is
lost; no change is passed over by the polls.  In VS09 `BillboardWebsocket` keeps sessions and
board per instance, which the container makes for each connection: no two connections share state.

`PROJECT.json` lists all components with their status and all hazards with the
line where each bites.

## 2. Modules

| module | models | source |
|---|---|---|
| `FileCopy` | what a file transfer promises, without a protocol (abstract) | - |
| `FileTransfer` | VS02: both programs, the datagrams, six faults; properties; refinement of `FileCopy` | `VS02_.../src/*.java` |
| `MCFileTransfer` | constants for TLC | - |
| `FileTransferProofs` | theorems about `FileTransfer` | - |
| `SubscriberTable` | the array `subs[]` of both dispatchers and its shift loop | `VS05_.../server/dispatcher.c` |
| `SharedProofs` | lemmas for both dispatchers: what registering and removing an address leave in that array, what forking, starting and ending a receiver does to the others | - |
| `Receivers` | receiver processes and the port mapper, for VS04 and VS05 | `VS05_.../client` |
| `AuthDispatcher` | VS05: dispatcher, session list, clients, RPC over TCP; extends the two above | `VS05_.../server`, `client` |
| `PubSub` | VS04: dispatcher, clients, RPC over UDP with retransmission; extends the same two | `VS04_RPC/server`, `client` |
| `AuthDispatcherProofs` | theorems about `AuthDispatcher` | - |
| `PubSubProofs` | theorems about `PubSub` | - |
| `Broadcast` | what a chat room promises, without the map and its counter (abstract) | - |
| `ChatRoom` | the chat server: HashMap, remote handles, the loop of `sendMessage`; refinement of `Broadcast` | `VS06_.../Chat*Impl.java` |
| `ChatClients` | VS06: console clients in the chat room; extends `ChatRoom` | `VS06_.../ChatClient.java` |
| `ChatClientsProofs` | theorems about `ChatRoom` and `ChatClients` | - |
| `WebChat` | VS07: servlet, browser sessions and tabs, proxies, console clients; extends `ChatRoom` | `VS07_.../src/ClientServlet.java`, `VS07_.../nelson/*.java` |
| `WebChatProofs` | theorems about `WebChat` | - |
| `HttpServer` | VS03: the server, browsers, an editor of the pages | `VS03_.../main.c` |
| `HttpServerProofs` | theorems about `HttpServer` | - |
| `Billboard` | VS08: the board, the set of free slots, requests and polls | `VS08_.../src/BillBoard*.java` |
| `BillboardProofs` | theorems about `Billboard` | - |
| `MCAuthDispatcher`, `MCPubSub`, `MCChatClients`, `MCWebChat`, `MCHttpServer`, `MCBillboard` | constants for TLC | - |

### FileTransfer
Each pass of a receive loop is one action that takes the datagram, changes the
state and sends the answer: `ClientError`, `ClientSid`, `ClientData`,
`ServerInitx`, `ServerGetxx`.  This is the grain of the programs: both are
single-threaded and touch nothing shared between `receive()` and the next
`receive()`.  The variables have the names of the fields; `written` is the copy on
disk as a sequence of chunks; `chunkNo` and `sessionKey` are per process and
start again with `Start`, `written` is on disk and does not.
The channel between a host and the server is a queue in each direction.
Everything the network or a user may do is an action with a budget: `Network`
(lose, duplicate, reorder), `ServerRestart`, `SecondClient`, `Kill`.

Data: a chunk is its file, chunk size and number, and whether
`MessageReceiver.parseString` removed characters from it (it removes `;`, `<`, `>`
and the protocol name from the payload as well).  Files containing such characters
are the set `Delimited`; for them an intact copy is the parsed file (`Arriving`),
for all others the file (`Original`).

### AuthDispatcher
One action per remote procedure (`ServeGetSession` ... `ServePublish`), one per
answer a client handles (`GotSession` ... `GotOther`), `Login` and `Choose` for what
people type.  `publish` is the one procedure during which other processes
matter, because it waits for each receiver; it is one action that takes the
request up, and for each subscriber `Contact` (`clnt_create`) and then `Receive` or `DeliveryFails`
(`deliver_1`), between which receivers end and start.  All other procedures are one
action: the server is one thread.  `at[c]` is the place in the program of client
`c`: the menu or the call it waits for.  Two calls of `invalidate` differ
(`"logout"`, `"goodbye"` on exit), and two of `unsubscribe` (`"unsubscribe"`,
`"leave"` on exit).  `ServerStarts` and `Connect` are the two `main` functions: a client that
finds no server ends.

A request carries the session id, an argument and a digest.  The argument is a C union with a
tag that says which arm travels (`XdrArgument`); the digest is the record of what is hashed into it (`HashParam`):
session id, text, user, and whether the password was right.  The server makes its own of what has
arrived and of its session list (`Recomputed`) and compares.  At the login the client signs an empty text, with
a tag it has never set; `Arm` lets it be anything.
The session list is a function from
ids; `DeleteSession` keeps what the list walk does for an id that is not there
(it follows a NULL pointer: `server` becomes "crashed") and for a list that does not
exist yet.  `clock()`, the source of session ids, is CPU time; it is taken to grow
from one `get_session` to the next.  `TimeOut` is the 25 s limit of a call while
`publish` blocks the server; the caller gets NULL and `AfterNull` says what each
caller makes of it; the request stays in the TCP stream and is served later.
`publishing` also holds two ghosts for `AudienceHears`: who was ready when the publish began,
and which receivers have shown the message.
`Kill` ends a client with or without its receiver.

### PubSub
The procedures differ from VS05 in what goes wrong with them: `subscribe` decides by a
static `return_code` it has not set (`Searched`), `set_channel` replaces the topic before
it looks at the caller.  The transport is UDP: `clnt_call` sends the request again every 5 s
(`Resend`) and gives up after 25 s (`TimeOut`); `MaxResends` is the number of repetitions
that fit.  The dispatcher executes a request as often as it arrives; answers carry the
number of the call (`xid`), and the client passes over those of earlier calls (`Discard`).
`TimeOut` needs a publish that blocks the server, or a lost datagram (`Late`): the server
is not otherwise slow for 25 s.  It can be slow for 5 s, so `Resend` is always possible.
Publish can block because `deliver_1_svc` of the receiver ends without a return value, so
that whether it answers depends on what is left in a register.  Datagrams between two
hosts keep their order; they may be lost.

### ChatRoom, ChatClients
RMI serves each call in a thread; the map has no lock.  `sendMessage` waits for each
client in turn, so other calls fall between two turns: `Visit` is one turn of `forEach`,
`CleanUp` or `SendFails` its end, `RemoveDead` one turn of the removal.  `HashMap.forEach`
compares `modCount` only at its end; adding and removing names counts, replacing a handle does
not.  The loop goes by position: names are visited in the order of the table, and a name
added behind the position is not seen.  A `ConcurrentModificationException` reaches the
caller, whose `catch (Exception)` ends the program (`Return`, "failed").  `put` and
`remove` are atomic in the model: they take nanoseconds, a turn of the loop waits for a network.
`username` is the client's flag for "subscribed", as in the code, so the empty name (just
Enter) leaves a client subscribed and free to subscribe again.

`Broadcast` is the room without positions and counters.  Members come and go; an open message is offered to them
in any order, to a name at most once; it is accepted if no name has come or gone since it was opened
(`calm`), and then every name has had it; otherwise it is rejected.  Only accepted messages
remove members, and only names that missed them.  The map is the members, a run of `sendMessage` in the loop is an open message, in
the removal an accepted one, and `calm` is the comparison of `modCount`.  The promise is about names, not
handles: the one a message was offered to may have been replaced before it is accepted.  `RoomSpec` is the room
by itself, with clients that do whatever they like; `ChatClients` and `WebChat` are two ways to use it.

### WebChat
The servlet container has one `ClientServlet` object and serves each request in a thread, so
there is one action for each access to something that another request can see.  A login is
`Login`, `CheckName`, `SetName`, `Subscribe`, `TakeProxy`, `EnterSession`, `ListName`; a message is
`Send`, `CallSend`, the turns of the loop (`Deliver`, `Deliveries`) and `SendAnswered` or
`SendThrows`; a refresh, on its own or at the end of a message, is `Refresh`, `Fetch`, `Clear`,
`Store`; a logout is `Logout`, `Unlist`, `Forget`.  A tab waits for the answer to a request before it
sends the next one; a session (browser) may have several tabs.  `req[t]` holds the local
variables of the request: the name, the handle, the lists it has read (`old`, `fresh`).

What is easily missed in the code and kept in the model: a login the server refuses goes on
with null for the proxy of the chat, which is a field of the servlet and so null for everybody; `send` reads
the session's messages before it sends and writes them back afterwards; the page that answers
a logout reloads itself (`content="2;"`), so a logout may come again after the name has
gone to somebody else; `Send` and `Logout` are links of the chat page and need one (`HasPage`).

Each login exports a new handle, numbered like its request; a message is numbered like the request that
sent it, and the lists of messages hold copies (message and handle).  Order and text of
messages are left out.  Abstractions: sessions do not expire, the server stays up, exported
handles stay reachable, and one operation of a `HashMap` or `ArrayList` is atomic.

### HttpServer
The program has one thread that matters, so an action is what it does between two calls that
wait or fail: `Accept`, one of the outcomes of `read` and of the parser (`ReadNothing`, `ReadHalf`, `ReadOther`,
`ReadFavicon`, `ReadGet`, `ReadBare`, `ReadPost`), `WriteHead`, and one `SendChunk` for each turn of the
three loops, which differ only in the bytes that are not meant (`Extra`).  `ReadX` goes as far as the file being
open and its length known, so an edit or a browser that leaves may come between any two turns.
Undefined behaviour is a choice: `fclose` of a pointer nobody has set ends the process or does
nothing (`DieOrClose`); `send` of a full buffer that has no end mark sends more bytes or not (`clean`).  NULL handed to
`strcmp` or `fseek` ends the process (`Die`), and so does writing to a connection that
was closed (`BrokenPipe`) and a `fork` that fails (`NoChild`).  `Start` starts the server again; its
files stay.  A file is its name and its length in bytes; a form is its connection, since only whose product is
sent matters.  The head that the browser gets after a GET is cut to the size of a pointer less one
(`head`), as the code has it.

### Billboard
Requests run in threads without a lock, so there is one action for each access to the board, to
the set of free slots and to the times: a new entry is `FindsRoom` or `PicksIndex` and the four steps of
`deleteEntry`, `Iterates`, `TakesNext`, `Removes`, `StoresText`, `StoresOwner`, `ReadsClock`, `StoresStamp`; a poll is
`ReadsNow`, `PutsTime` and for each entry `Checks`, `ReadsText`, `ReadsOwner`.  `freelist` is the `LinkedHashSet` in its
order, with `modCount`: `next()` throws if the set has changed since `iterator()`.  `told` is what an address was last told of each entry;
`offered` are the entries for which a page has ever had buttons, which are the only ones it updates or deletes.
`late` marks entries whose timestamp was read before the clock ticked and stored after.

## 3. Runs

| run | question | bounds, and why they are enough |
|---|---|---|
| `ft_lossy` | Stop and wait, intact copies, isolation, refinement of `FileCopy`, under loss and reordering | two hosts (isolation needs two), one of them started twice (an older copy); an empty file, one ending in a chunk, one ending at a chunk boundary for chunk size 1 and 2, one with separators, one missing; chunk argument above the cap; two faults |
| `ft_faults` | What holds under every fault: no amplification, order, duplicates only repeat, termination | one host, two runs, any two of six faults (pairs reach the interactions: restart then duplicate, kill then late datagram) |
| `ft_restart` | "Trying again..." | one host, one restart: the counterexample |
| `auth_login` | Sessions, the list, who may act | two clients on different hosts, one user with and one without an account, three logins, one time-out, one kill: a failed login, a logout and a second login next to another session |
| `auth_table` | Table against processes; who hears a message; every call ends; sessions are released | two clients on hosts of their own (the shift loop is right up to two), three receivers, one time-out |
| `auth_unsub` | Who leaves the table with three subscribers | three clients: the counterexample |
| `ps_calls` | Does repeating requests do harm? | two hosts, one client with three calls and one with one, two receivers, one repetition per call, one fault of any kind: a repeated subscribe or unsubscribe next to another client's calls |
| `chat_room` | What a message that returns was offered to, once per client, who stays in the map, and refinement of `Broadcast` | three clients, two names one client switches between, one name two clients share, the empty name; two or three calls each, one killed client: two loops at a time and changes by a third client |
| `web_logins` | What logins and logouts leave at the server, in the servlet and in the sessions; what a page shows | two browsers with one tab and a console client, two names for everybody; four requests in one tab, three in the others: a login, a logout and another login next to a refused or overtaking one |
| `web_unique` | "username already exists" | two browsers: the counterexample |
| `http_serve` | What an answer is made of, what ends the server, who is served | three connections (one served, two that wait) with a choice of requests each; chunks of 2 bytes and files of 0, 1, 2 and 3; two children, so that the third fork fails; two starts; one browser that may leave; one page that may change |
| `billboard` | No slot lost, no change passed over | two entries and four requests of two addresses: two that post, one that polls, one of any kind, which is a full board or a slot that is free, taken and freed again; two times, for a change before, between and after polls |

Every bound is a constant: `MaxStarts`, `MaxFaults`, `MaxTotal` in
`FileTransfer`; `MaxLogins`, `MaxForks`, `MaxFaults`, `Menu` in `AuthDispatcher`;
`MaxCalls`, `MaxForks`, `MaxFaults`, `MaxTotal`, `Menu` in `PubSub`; `MaxCalls`, `MaxKills` in
`ChatClients`; `MaxCalls` in `WebChat`; `MaxStarts`, `MaxChildren` (the process table), `Editable`, `Impatient` in
`HttpServer`; `MaxTime` in `Billboard`.  `Menu` is the part of the menu people use in a run; only
`auth_table` (no `set_channel`, which does not touch the table, and no logout, which
`auth_login` has) and `auth_unsub` restrict it.  `MaxSubs` is
`MAXSUBS` of the program, `Backlog` the argument of `listen`, `MaxResends` belongs to the RPC library.  Deadlock is not checked: when nobody types
anything and nothing is under way, all programs wait, and the budgets end.
No symmetry is used, because several runs check temporal properties and the hosts
differ (a second start, the server's own host).

**Properties under a condition.** `Calm` (no duplicate, restart, second client or kill so
far) guards `StopAndWait` and `CompleteMeansIntact`, which are about loss;
`SessionIsolation` ends with the first restart, after which ids start again;
`InOrder` is stated without reordering, for the first client of a host and, across hosts, without a restart, since
a reused id sends one host's data to another.  A second client of a host need not be in order: a
chunk and a session that the first one left behind put a low number behind a high one, if a
datagram is lost and one was duplicated before (four faults; `ft_faults` allows fewer, so that
only the attempt to prove the property for every run showed it).  `DuplicatesOnlyRepeat` is about a first
run with duplicates only. `TableMatchesReceivers` and `ReceiverIsKnown` are
stated for `Separate`: one client per host, at most two hosts, no receiver lost.
`auth_unsub` shows what happens with three hosts; two clients behind one address share an entry,
and the first one to leave removes it.  `ListedOnce` and
`ResendsAreHarmless` are stated for `Separate` as well; the latter also only if the table
has room for every host (a subscribe refused for want of room may be repeated when there is some, and succeed unnoticed) and until an answer is lost
or a receiver ends on its own: if the answer to the first execution is lost, the answer
to the second one ("already registered") starts no receiver.  `SubscriptionStays` is about
a client whose name nobody else uses: names are removed after the loop, whoever has them by then.  `OncePerMessage` holds until
somebody subscribes with the empty name.  `NoOrphan` and `HistoryKept` are about sessions with one
tab, `NoNameLocked` about names typed in such sessions only: two tabs of one session can log in
under two names, of which the session keeps one, and one tab's `send` writes back a list
the other has extended since.  `AudienceHears` is stated for `Separate`: of two receivers on one host the port
mapper knows one.  `AnswerIsWhole` is about pages that nobody edits, `EveryoneServed` about browsers that send something or close and
files that keep their length while they are sent; its two conditions are in the formula.  `LostOnlyFor` lists the
causes by what can be seen from outside.  `NothingSkipped` leaves out entries that are
`late`: with a tick between reading the clock and storing what it said, a poll in between is told the
old entry and the next one thinks it old enough.

**Fairness.** `FileTransfer`: `WF` of each receive loop, single-threaded loops
without another wait; a socket gives its datagrams out in order.  No fairness for
starting clients or for faults.  `HttpServer`: `WF(Serve)`, the process runs if it can; `Serve` is disabled while it waits for a
connection or for a request.  Nobody has to connect, send or start the server.  `AuthDispatcher`: `WF(Deliver)` and `WF(Got(c))`,
a process that can run does; `SF(Serve(c))`, because `svc_run` polls all
connections and serves every one that has a request before it polls again, while
`Serve(c)` is disabled again and again by publishes of others.  Nobody has to log
in or choose anything, and no receiver has to start.  `PubSub`, `ChatClients`,
`WebChat` and `Billboard` state no fairness: only safety is checked of them.

**What the runs found** (`PROJECT.json`, "findings"): a client that tries again
after a server restart keeps its chunk counter and calls a copy with a hole
transmitted; the shift loop of `unsubscribe` loses another subscriber when there are
three; two browsers that log in at the same time get the same name in the web chat, one of them
without being registered at the server.

## 4. Proofs

`FileTransferProofs` proves, for every set of hosts, names, sizes, chunk arguments
and every bound, from the three assumptions of `FileTransfer` (sizes are naturals,
chunk sizes are positive, bounds are naturals):

* `TypeCorrect`: `Spec => []TypeOK`.
* `StopAndWaitAlways` and `CompleteMeansIntactAlways`, both from the inductive
  invariant `CalmInv`.  Neither property is inductive: that a client that stops has the
  whole file depends on which chunk the datagram under way carries.  `HostInv`
  says that there is one token per host, and that it is always about the chunk the copy lacks
  next: `RequestInv` for a token on its way to the server, `ReplyInv` for one on its way
  back, `CopyInv` for the copy.  The counter runs ahead of the copy, because the
  client asks for chunk 0 twice (once with the unset `chunkSize`, once with
  `chunkNo` = 0); `Due` and `Have` relate the two.  `ShortIffLast` is the
  arithmetic: the first short chunk is number `Size \div chunksize`.
* `SessionIsolationAlways`, under all faults but a restart, from
  `IsolationInv`: every session id announced in a queue, too, is one that answers to
  that host.
* `CopiesTheFileAlways`: `ForgivingFaults => (Spec => CopiesTheFile)`, the
  refinement of `FileCopy`.  `ForgivingFaults` says that `MaxFaults` allows only losing
  and reordering; under duplicates, restarts, second or killed clients the
  refinement does not hold (a chunk is appended twice).
* `NoAmplificationAlways`, under all faults, from `AmpInv`: the lengths of all queues together (`Width`, counted
  by `Tokens`, so that no queue has to be looked at twice) are at most what starts, second clients and
  duplications allow.  `WidthStep` is the whole argument: a step makes one queue
  longer only if it makes one shorter or is counted.  That finitely many datagrams are under way is part
  of the invariant; the set of hosts may be infinite.
* `InOrderAlways`, from `OrderInv`, over `TidyInv`.  `Line` orders everything a host has: its copy, then what
  comes to its client, then what it has requested, numbers never go back except to 0
  (`Later`), and all are below the counter.  A datagram
  moves from the last queue to the first and keeps its place between the others (`FlowAnswer`).
  `TidyInv` says that answers go to the host that asks (`Own`) and that a host without a client has nothing
  under way (`Fresh`); `Aside` is a step of another host.
* `DuplicatesOnlyRepeatAlways`, from `RepeatInv`.  With duplicates only numbers do not even go back to 0 and
  all sessions are set up before the first chunk is requested (`Strict`).  `Whole` says that every number drawn is in the copy
  or under way, or the server has sent a final chunk before it; so when a final
  chunk reaches the client, it is the last chunk and all others are in the copy (`FinalCopy`).  `Preceded`: a CNF
  never overtakes the chunk it follows, so that a client does not end by CNF.

`ChatClientsProofs` proves all five properties of `chat_room`, for every set of clients and
names, every order of the map and every bound, from the assumptions that `Order` numbers
the names and that threads and handles are those of the clients:

* `RoomKeepsPromise`: `RoomSpec => KeepsPromise`, the refinement of `Broadcast`, from `RoomInv`, which is `LoopInv` (see below)
  and `OffersInv`: the names a loop has offered its message to are behind its position, also those that went and
  came back, so it comes to none of them again.  One lemma for each action shows the step it maps to: `MapMoves`,
  `Begins`, `Visits`, `CleansUp`, `Returns`, `Drops`; `Disturbed` says that the counter, which grows only with
  the names, forgets no message that was disturbed.  The proof cites `ChatRoom` and `OrderAssumption` only, nothing of the clients.
* `ClientsUseRoom`: `Spec => RoomSpec`, and with it `KeepsPromiseAlways`: `Spec => KeepsPromise`.
* `ReturnMeansOfferedAlways`, from `LoopInv`: while `modCount` is what it was when the loop
  began, the names seen are exactly those of the map up to the position.  The property
  itself speaks only of the end of a loop.
* `SubscriptionStaysAlways`, from `NamesInv`: a name is noted as dead only if somebody who types it has
  gone (`DeadInv`), which needs that the handle under a name belongs to somebody who types
  it (`HandleInv`) and that nobody comes back to life (`AliveShrinks`).
* `OncePerMessageAlways`, from `Inv`, which adds `SeenInv`: a handle seen by an undisturbed loop
  belongs to a client that still goes by that name, because taking another name means
  removing this one, which is counted.

`WebChatProofs` proves all its module's properties but `UniqueUsers`, which the code violates, for every finite set of
sessions and every set of tabs, console clients and names, from the assumptions that threads are tabs and handles are those
of console clients and logins.  `ShownOnce` says that the list a refresh got from its proxy and the list it got from its
session have nothing in common; it speaks of one request at one place.  The invariant `Inv` says why:
* `OutInv`: a copy that is out, in the list of a session or of a request that is past
  clearing, is not at its handle, and does not come back there.
* It would come back if a message visited a handle twice.  `PosInv` (the loop only goes forward)
  and `OneName` (the handle of a login is in use under one name at most, because it is put into the map
  once: `FreshHandle`) exclude that; `SentInv` says that a copy exists only of a message
  that has visited its handle.
* `FreshInv`: between fetching and clearing the new messages may still be at the
  handle; the session's list was read before that, so it has none of them.
* `SendInv` and `CallsInv` tie requests to the loops at the server and to their numbers.

`NoOrphanAlways`, `NoNameLockedAlways` and `HistoryKeptAlways` rest on a second invariant, `NamesInv`, about
sessions with one tab:
* `SessionInv`: what the session's attributes are at each place of a login and a logout, because no other request
  of the session writes them.
* `OwnedInv`: a handle of the tab that is in the server's map is there under the name the session
  keeps, and is the one it keeps; before a login subscribes, when it is refused and once a logout has unsubscribed nothing of the tab is left
  in the map.  What other sessions do removes entries or adds their own handles, so it cannot break this.
* `TypedInv` and `ListInv`: the list of names has each name at most as often as there are sessions whose login has
  listed it and whose logout has not yet taken it off (`Entered`).  `ListName` adds a session to that set,
  `Unlist` takes one off; a cardinality argument, which is why the sessions must be finitely many.
* `HistoryInv`: the list that a request has read is still the session's when it writes it back.

`ServletUsesRoom` is `Spec => RoomSpec` for the web chat: its logins, logouts and messages are operations of the room, so what
`RoomKeepsPromise` says of every client of the room holds behind the servlet.

`BillboardProofs` proves all three properties of `billboard`, for every size of the board, every set of
requests, addresses and kinds of requests, and every number of ticks:

* `TypeCorrect`, from `Typed`: the type invariant, which says that no slot is listed twice, and
  `ControlInv`, which ties the place of a request to what it may do there.
* `NoSlotLostAlways`, from `Safe`, which is the property for each slot: it is inductive given
  `ControlInv`, because `deleteEntry` clears the owner before it frees the slot and `createEntry` takes
  the slot before it signs it (`DeleteOrder`), whoever else has it in hand.
* `NothingSkippedAlways`, from `Known` and `Excused`.  For one address and one entry `Known` is the
  property; `Excused` is why an answer under way may still be wrong: the time that decides about an entry is never
  later than the one that will be put next, so what the poll does not include now the next one will.  The lemmas
  go by what a step does to an entry: it changes it (`KnownWhenChanged`), reads it (`KnownWhenRead`), moves on
  (`OnwardReads`) or is about another one (`KnownElsewhere`).

`HttpServerProofs` proves all four safety properties of `http_serve`, for every set of connections, files and
requests, every chunk size, and any number of starts, edits and browsers that leave, from `HttpAssumption`
and `NoneAssumption` in `HttpServer`.  `Invariance` is the invariant they rest on, `Inv`:

* `FilesInv` (a page nobody edited keeps its length) and `RequestInv` (which connections have a request, and
  of which the server has read something).
* `JobInv`, of the file being sent: it is one of those the connection asked for, a product is this connection's
  own, and the length found is that of the file unless somebody edits it.  `OwnProduct` follows: the
  server sends a product before it accepts another form.
* `FreshInv`: no connection has any of its answer before the server sends to it.  `SendInv`: the position in the file is the number of
  chunks sent times `ChunkSize`, at most at the end of the file.  With the arithmetic of chunks (`NextChunk`: the
  turn that reaches the length is the `Chunks(n)`-th) this is `AnswerIsWhole`.
* `LostOnlyFor` needs that the children of a start are no more than the connections that are done, so that a
  failed `fork` means more of those than `MaxChildren`.

`AuthDispatcherProofs` proves all five properties of `auth_login` and the three safety properties of `auth_table`, for
every set of clients, hosts, users and accounts, every size of the table and every number of logins, forks, timeouts and killed
clients, from the assumptions on the constants in `AuthDispatcher` (`ClientAssumption`, `LimitAssumption`) alone.  The five
of `auth_login` rest on one invariant, `IInv`:

* `Typed`: the type invariant, and `PublishInv`, which says that a publish under way still heads its
  client's queue (so that its answer goes to who asked).  `TypeCorrect` needs no more.
* `RequestInv` says what can stand in the connection of a client, also behind calls the client has given up:
  signed calls for its validated session, then at most one `invalidate`, then at most one `get_session`; or
  a `validate` alone.  This is the heart of `ServerSurvives`: `invalidate` is served while the session is there
  because nothing before it in the connection ends that session, and no other connection can.
* `KeyInv`: no session id belongs to two clients, nor to one and to an answer another has not read yet.
* `ClientInv` ties the place of a client to its session (`Pending`, `Valid`) and to the answer it holds.  `LoggedIn`
  speaks of clients in the menu only; that a client gets there with a valid session follows from what
  the `validate` in its connection will be answered.
* `NeverRefused` follows because a signed call's digest is what the server recomputes (`RequestInv`)
  and the session it names is there; `ActionsNeedLogin` because what is served is such a call.

The three of `auth_table` speak of the case `Separate`, which has at most two hosts and any number of everything else.  They rest on
two more invariants:

* `AgreeInv`.  `MatchInv`: the table has a client's host exactly if the receiver it forked last runs, except between
  the reply to a `subscribe` or `unsubscribe` and the client's reading of it (`Ahead`), where they differ as
  that reply says.  A client that gives up one of these calls either dies of the NULL or has never forked a receiver,
  and `QueueInv` is that exception: what a living client still has in its connection cannot change the table behind its
  back.  `ChildInv` and `KnownInv` tie each receiver that runs to the client that would end it.  Two hosts are needed
  since the shift loop loses an entry when there are more (`auth_unsub`).
* `HearInv`, about a publish under way.  `PortInv`: the port mapper of a host knows the receiver that serves there, as a
  receiver starts only where no other runs.  `TurnInv`: who has heard the message has a host before the one whose turn it is
  and is listed once; who should hear it has a host in the table, and has heard it if that turn is over.
  A turn that ends leaves `DoneInv` (`MissedDone`, `ShownDone`), from which the next one starts (`NextTurn`).  The last one
  gives `AudienceHears`.

`PubSubProofs` proves all three properties of `ps_calls`, for every set of clients and hosts and every number of
calls, resends, receivers and faults, from `ClientAssumption` and `LimitAssumption` in `PubSub` and the lemmas about
the table.  `Inv` is the invariant:

* `Typed` (types, and a publish under way heads the requests: `PublishInv`) is enough for `TypeCorrect`; `TableInv`,
  which needs that two hosts fit into what the shift loop handles, is `ListedOnce`.
* `NumberInv` and `OrderInv`: requests arrive in the order of the calls, and those of one call ask for the same.  So when
  the first request of a call is executed, only repetitions of it are still to come from that client.
* `ChildInv`: a receiver runs on the host of the client that forked it, so nobody ends another's.
* `CalmInv` is why repetitions do no harm.  `StaleInv`: a request of a call that was executed or given up would
  change nothing, because its client is in the table, or `subscribe` is stuck at "already registered" (a
  subscribe), or is not in the table (an unsubscribe).  `CallInv`: the table agrees with the receiver of a client until its call is
  executed, and differs from it as the answer under way says until the client has it.

Only model-checked: `TransferEnds`, `CallsReturn`, `SessionReleased` and `EveryoneServed`: liveness is
beyond the prover.

## 5. Not modelled

* Argument parsing of `UDPClient`, message texts, XDR, hash computation: sequential and
  without state the properties see.
* Chunk sizes of zero or less and file positions past 2^31 in VS02 (hazards without a
  property).
* A restart of the VS05 server: its clients hold one TCP connection and do not reconnect.
  What the allocator makes of `malloc(sizeof(session))`, of the descriptors `publish`
  leaks, and the reuse of process ids.
* That `publish` is answered OK as soon as the last delivery worked is in the models
  (`Deliver`) but no property: nothing in the code promises more.
* In VS04 a child whose `execvp` fails goes on as a second client at the same terminal
  (VS05 added the missing `exit`).
* Races inside one `HashMap.put` or `remove`; RMI exports that fail.
* In VS07 the expiry of sessions, a restart of the chat server, distributed garbage collection of
  handles; two branches of the servlet no page leads to (sending without a list of messages,
  requests with unknown parameters).
* In VS03 the text of pages and answers (a file is its length), the width of a product, what is sent
  behind a chunk, forms for another path than `ServerHTTPPost`, file names with directories.
* In VS08 the links of `LinkedHashSet` and `HashMap` under concurrent writes (an operation of theirs is atomic), answers that overtake each other
  on the way to one page, several pages behind one address, the HTML table, and `BillBoardJSONAdapter`, which nothing uses.
* VS09: every connection has an end point, a list of sessions and a board of its own, so that nothing
  is shared and nothing is concurrent; its `BillBoardServlet.java` is commented out.
* `server/hashing/sha_hashing.c` of VS05, a tool that prints a line for `hashes.txt` and is no part of the service; the
  compiler tests under `cmake-build-debug`.
* In VS05 the uninitialised text of a topic that a remote `set_channel` allocates.

## 6. Plan

1. Done: `FileCopy`, `FileTransfer`, `FileTransferProofs`; `SubscriberTable`, `Receivers`,
   `SharedProofs`, `AuthDispatcher`, `AuthDispatcherProofs`, `PubSub`, `PubSubProofs`; `Broadcast`, `ChatRoom`, `ChatClients`,
   `ChatClientsProofs`; `WebChat`,
   `WebChatProofs`; `HttpServer`, `HttpServerProofs`; `Billboard`, `BillboardProofs`.
2. Left: a bound on what the copies of a duplicated datagram can add to a transfer (now only
   `NoAmplification`); a restart of the chat server, which the code has no answer to.
