------------------------------ MODULE WebChat ------------------------------
(***************************************************************************)
(* The web chat VS07: one servlet object serves the requests of all        *)
(* browser tabs, each in a thread of its own and without a lock, and       *)
(* stands between the browsers' sessions and the chat room.  Console       *)
(* clients use the same room.  A name that is in use is refused.           *)
(*                                                                         *)
(* A tab has one request at a time; what other tabs of its session and     *)
(* other sessions do comes between any two accesses to shared state.       *)
(***************************************************************************)
EXTENDS ChatRoom

CONSTANTS
  Session,   \* HTTP sessions, one per browser
  Tab,       \* browser tabs
  Browser,   \* the session of each tab
  Console,   \* console clients
  Typed,     \* the names typed into each tab and at each console
  MaxCalls,  \* bound: requests of each tab and calls of each console
  None       \* null

\* Each login exports a handle of its own, numbered like its request.
HandlesOf(t) == {t} \X (1..MaxCalls[t])
WebHandle == UNION {HandlesOf(t) : t \in Tab}

ASSUME HandleAssumption ==
  /\ Handle = Console \cup WebHandle /\ Console \cap (WebHandle \cup Tab) = {}
  /\ Thread = Tab
  /\ None \notin Name \cup Handle

ASSUME BrowserAssumption ==
  /\ Browser \in [Tab -> Session] /\ IsFiniteSet(Session)
  /\ Typed \in [Tab \cup Console -> SUBSET Name]
  /\ MaxCalls \in [Tab \cup Console -> Nat]

VARIABLES
  listed,       \* ClientServlet.clients, an ArrayList: how often each name is in it
  sessionUser,  \* ClientServlet.sessionUserMap
  chatProxy,    \* ClientServlet.chatProxy: is it an object (any of them will do)?
  name,         \* the attributes of each session: "name",
  proxy,        \*   "proxy"
  messages,     \*   and "messages", null until a chat page has been made
  inbox,        \* ClientProxyImpl.messages of each handle
  req,          \* tab -> the request it waits for
  calls,        \* requests and calls made so far
  username      \* ChatClient.username of each console client; None: empty

servlet == <<listed, sessionUser, chatProxy>>
attrs == <<name, proxy, messages>>
vars == <<roomVars, servlet, attrs, inbox, req, calls, username>>

\* Messages are numbered by their requests, too; a copy is what one handle got of one.
Message == WebHandle
Copy == Message \X WebHandle

\* n, h: the name and the handle a request works with; old, fresh: the lists it has read.
Request ==
  {r \in [at : {"idle", "check", "name", "subscribe", "accepted", "refused", "enter", "list",
                "send", "sending", "refresh", "fetch", "clear", "store", "unlist", "forget"},
          n : Name \cup {None}, h : WebHandle \cup {None},
          old : SUBSET Copy, fresh : SUBSET Message] :
     /\ r.n = None <=> r.at \in {"idle", "send", "sending", "refresh", "fetch", "clear", "store"}
     /\ r.h # None <=> r.at \in {"accepted", "refused", "enter", "list", "clear", "store"}
     /\ r.fresh # {} => r.at \in {"clear", "store"}}
NoRequest == [at |-> "idle", n |-> None, h |-> None, old |-> {}, fresh |-> {}]

TypeOK ==
  /\ RoomTypeOK
  /\ listed \in [Name -> Nat]
  /\ sessionUser \in [Session -> Name \cup {None}]
  /\ chatProxy \in BOOLEAN
  /\ name \in [Session -> Name \cup {None}]
  /\ proxy \in [Session -> WebHandle \cup {None}]
  /\ \A s \in Session : messages[s] = None \/ messages[s] \subseteq Copy
  /\ inbox \in [Handle -> SUBSET Message]
  /\ req \in [Tab -> Request]
  /\ calls \in [Tab \cup Console -> Nat]
  /\ username \in [Console -> Name \cup {None}]

Init ==
  /\ RoomInit
  /\ listed = [n \in Name |-> 0]
  /\ sessionUser = [s \in Session |-> None]
  /\ chatProxy = FALSE
  /\ name = [s \in Session |-> None]
  /\ proxy = [s \in Session |-> None]
  /\ messages = [s \in Session |-> None]
  /\ inbox = [h \in Handle |-> {}]
  /\ req = [t \in Tab |-> NoRequest]
  /\ calls = [c \in Tab \cup Console |-> 0]
  /\ username = [c \in Console |-> None]

Calls(c) ==
  /\ calls[c] < MaxCalls[c]
  /\ calls' = [calls EXCEPT ![c] = @ + 1]

At(t, where) == req[t].at = where
Goes(t, where) == req' = [req EXCEPT ![t].at = where]
Ends(t) == req' = [req EXCEPT ![t] = NoRequest]

-----------------------------------------------------------------------------
(* doPost with a name: the checks, then subscribe.                         *)

\* Mutant: the check for "Session already active" is missing.
AnySession(s) == TRUE

FreeSession(s) == sessionUser[s] = None

Login(t) ==
  /\ At(t, "idle") /\ Calls(t)
  /\ FreeSession(Browser[t])
  /\ \E n \in Typed[t] : req' = [req EXCEPT ![t] = [NoRequest EXCEPT !.at = "check", !.n = n]]
  /\ UNCHANGED <<roomVars, servlet, attrs, inbox, username>>

\* "username already exists"
CheckName(t) ==
  /\ At(t, "check")
  /\ IF listed[req[t].n] > 0 THEN Ends(t) ELSE Goes(t, "name")
  /\ UNCHANGED <<roomVars, servlet, attrs, inbox, calls, username>>

SetName(t) ==
  /\ At(t, "name")
  /\ name' = [name EXCEPT ![Browser[t]] = req[t].n]
  /\ Goes(t, "subscribe")
  /\ UNCHANGED <<roomVars, servlet, proxy, messages, inbox, calls, username>>

PutIfAbsent(n, h) ==
  IF Taken(n) THEN UNCHANGED <<clients, modCount>> ELSE Put(n, h)

Subscribe(t) ==
  LET h == <<t, calls[t]>> IN
  /\ At(t, "subscribe")
  /\ PutIfAbsent(req[t].n, h)
  /\ req' = [req EXCEPT ![t].h = h, ![t].at = IF Taken(req[t].n) THEN "refused" ELSE "accepted"]
  /\ UNCHANGED <<sends, servlet, attrs, inbox, calls, username>>

\* A refused login goes on like any other, with null for the proxy of the chat.
TakeProxy(t) ==
  /\ At(t, "accepted") \/ At(t, "refused")
  /\ chatProxy' = At(t, "accepted")
  /\ proxy' = [proxy EXCEPT ![Browser[t]] = req[t].h]
  /\ Goes(t, "enter")
  /\ UNCHANGED <<roomVars, listed, sessionUser, name, messages, inbox, calls, username>>

\* putIfAbsent; the name is added to the list whatever it answers.
EnterSession(t) ==
  /\ At(t, "enter")
  /\ sessionUser' = [sessionUser EXCEPT ![Browser[t]] = IF @ = None THEN req[t].n ELSE @]
  /\ Goes(t, "list")
  /\ UNCHANGED <<roomVars, listed, chatProxy, attrs, inbox, calls, username>>

ListName(t) ==
  /\ At(t, "list")
  /\ listed' = [listed EXCEPT ![req[t].n] = @ + 1]
  /\ Ends(t)
  /\ UNCHANGED <<roomVars, sessionUser, chatProxy, attrs, inbox, calls, username>>

-----------------------------------------------------------------------------
(* doPost with a message.  The form is part of the chat page.              *)

HasPage(t) == messages[Browser[t]] # None

Send(t) ==
  /\ At(t, "idle") /\ HasPage(t) /\ Calls(t)
  /\ req' = [req EXCEPT ![t] = [NoRequest EXCEPT !.at = "send", !.old = messages[Browser[t]]]]
  /\ UNCHANGED <<roomVars, servlet, attrs, inbox, username>>

\* chatProxy.sendMessage, with a NullPointerException if it is null.
CallSend(t) ==
  /\ At(t, "send")
  /\ IF chatProxy THEN SendBegins(t) /\ Goes(t, "sending") ELSE Ends(t) /\ UNCHANGED sends
  /\ UNCHANGED <<clients, modCount, servlet, attrs, inbox, calls, username>>

\* receiveMessage adds the message to the list of the handle visited.
Deliver(t) ==
  /\ Visit(t, Handle)
  /\ inbox' = [h \in Handle |->
       IF \E n \in Name : <<n, h>> \in sends'[t].seen \ sends[t].seen
       THEN inbox[h] \cup {<<t, calls[t]>>} ELSE inbox[h]]
  /\ UNCHANGED <<servlet, attrs, req, calls, username>>

\* Handles stay reachable, so there is nobody to remove.
Deliveries(t) ==
  /\ CleanUp(t)
  /\ UNCHANGED <<servlet, attrs, inbox, req, calls, username>>

\* The list read before the message was sent is written back.
SendAnswered(t) ==
  /\ SendReturns(t)
  /\ messages' = [messages EXCEPT ![Browser[t]] = req[t].old]
  /\ Goes(t, "refresh")
  /\ UNCHANGED <<servlet, name, proxy, inbox, calls, username>>

SendThrows(t) ==
  /\ SendFails(t) /\ Ends(t)
  /\ UNCHANGED <<servlet, attrs, inbox, calls, username>>

-----------------------------------------------------------------------------
(* refresh: by doGet, and at the end of send.                              *)

ReadList(t) ==
  /\ req' = [req EXCEPT ![t] = [NoRequest EXCEPT !.at = "fetch", !.old =
       IF HasPage(t) THEN messages[Browser[t]] ELSE {}]]
  /\ UNCHANGED <<roomVars, servlet, attrs, inbox, username>>

Refresh(t) ==
  \/ At(t, "idle") /\ Calls(t) /\ ReadList(t)
  \/ At(t, "refresh") /\ ReadList(t) /\ UNCHANGED calls

\* getMessages returns a copy of the list; a session without a proxy gets a
\* NullPointerException.
Fetch(t) ==
  LET h == proxy[Browser[t]] IN
  /\ At(t, "fetch")
  /\ IF h = None THEN Ends(t)
     ELSE req' = [req EXCEPT ![t].at = "clear", ![t].h = h, ![t].fresh = inbox[h]]
  /\ UNCHANGED <<roomVars, servlet, attrs, inbox, calls, username>>

\* Mutant: the list of the handle is not cleared.
NotCleared(h) == UNCHANGED inbox

ClearMessages(h) == inbox' = [inbox EXCEPT ![h] = {}]

Clear(t) ==
  /\ At(t, "clear")
  /\ ClearMessages(req[t].h)
  /\ Goes(t, "store")
  /\ UNCHANGED <<roomVars, servlet, attrs, calls, username>>

\* Mutant: only the new messages are kept.
NewOnly(t) == req[t].fresh \X {req[t].h}

\* What the page shows: the new messages before those of the session.
Page(t) == (req[t].fresh \X {req[t].h}) \cup req[t].old

Store(t) ==
  /\ At(t, "store")
  /\ messages' = [messages EXCEPT ![Browser[t]] = Page(t)]
  /\ Ends(t)
  /\ UNCHANGED <<roomVars, servlet, name, proxy, inbox, calls, username>>

-----------------------------------------------------------------------------
(* doGet with logout.  The page that answers it loads itself again, so a   *)
(* logout may be followed by another.                                      *)

\* Servlet and session forget the name only if the server knew it.
Logout(t) ==
  LET n == name[Browser[t]] IN
  /\ At(t, "idle") /\ HasPage(t) /\ Calls(t)
  /\ Remove(n)
  /\ IF Taken(n)
     THEN req' = [req EXCEPT ![t] = [NoRequest EXCEPT !.at = "unlist", !.n = n]]
     ELSE UNCHANGED req
  /\ UNCHANGED <<sends, servlet, attrs, inbox, username>>

\* Mutant: the name is left in the list.
KeptInList(n) == UNCHANGED listed

\* ArrayList.remove takes the first of equal entries.
Unlisted(n) == listed' = [listed EXCEPT ![n] = IF @ = 0 THEN 0 ELSE @ - 1]

Unlist(t) ==
  /\ At(t, "unlist")
  /\ Unlisted(req[t].n)
  /\ Goes(t, "forget")
  /\ UNCHANGED <<roomVars, sessionUser, chatProxy, attrs, inbox, calls, username>>

Forget(t) ==
  /\ At(t, "forget")
  /\ sessionUser' = [sessionUser EXCEPT ![Browser[t]] = None]
  /\ Ends(t)
  /\ UNCHANGED <<roomVars, listed, chatProxy, attrs, inbox, calls, username>>

-----------------------------------------------------------------------------
(* Console clients, which send as those of ChatClients do.                 *)

ConsoleSubscribe(c) ==
  /\ username[c] = None /\ Calls(c)
  /\ \E n \in Typed[c] :
       /\ PutIfAbsent(n, c)
       /\ username' = [username EXCEPT ![c] = IF Taken(n) THEN None ELSE n]
  /\ UNCHANGED <<sends, servlet, attrs, inbox, req>>

ConsoleUnsubscribe(c) ==
  /\ username[c] # None /\ Calls(c)
  /\ Remove(username[c])
  /\ username' = [username EXCEPT ![c] = IF Taken(@) THEN None ELSE @]
  /\ UNCHANGED <<sends, servlet, attrs, inbox, req>>

-----------------------------------------------------------------------------

Next ==
  \/ \E t \in Tab :
       \/ Login(t) \/ CheckName(t) \/ SetName(t) \/ Subscribe(t) \/ TakeProxy(t)
       \/ EnterSession(t) \/ ListName(t)
       \/ Send(t) \/ CallSend(t) \/ Deliver(t) \/ Deliveries(t)
       \/ SendAnswered(t) \/ SendThrows(t)
       \/ Refresh(t) \/ Fetch(t) \/ Clear(t) \/ Store(t)
       \/ Logout(t) \/ Unlist(t) \/ Forget(t)
  \/ \E c \in Console : ConsoleSubscribe(c) \/ ConsoleUnsubscribe(c)

Spec == Init /\ [][Next]_vars

-----------------------------------------------------------------------------
(* Properties.                                                             *)

\* No chat page shows a message twice that the session was sent once: a refresh
\* reads the session's list before it asks the proxy, and writes it after it has
\* cleared the proxy, so the two lists have nothing in common whatever the other
\* tabs of the session do in between.
ShownOnce ==
  \A t \in Tab : At(t, "store") => (req[t].fresh \X {req[t].h}) \cap req[t].old = {}

\* Sessions with one tab, whose requests come one after the other.
OneTab(s) == \A t, u \in Tab : Browser[t] = s /\ Browser[u] = s => t = u

\* A message that a page has shown stays in the session's list, as long as the
\* session has one tab: the list that send writes back and the one that refresh
\* extends are not out of date then.
HistoryKept ==
  [][\A s \in Session : OneTab(s) /\ messages[s] # None =>
       messages[s] \subseteq messages'[s]]_vars

\* A name at the server belongs to the session that can unsubscribe it: nothing is
\* registered for a session with one tab that has lost the name or the handle, even
\* if others are refused, take the name over or remove it.
NoOrphan ==
  \A t \in Tab : OneTab(Browser[t]) /\ At(t, "idle") =>
    \A n \in DOMAIN clients : clients[n] \in HandlesOf(t) =>
      /\ sessionUser[Browser[t]] = n /\ name[Browser[t]] = n
      /\ proxy[Browser[t]] = clients[n]

\* ClientServlet refuses a name as "username already exists" only while a session is
\* logged in under it, so no name is locked: not by logins that overtake each other,
\* nor by logouts of a name that is somebody else's by now -- if each session that
\* types the name has one tab.
NoNameLocked ==
  \A n \in Name : (\A t \in Tab : n \in Typed[t] => OneTab(Browser[t])) =>
    listed[n] <= Cardinality({s \in Session : sessionUser[s] = n})

\* ClientServlet.java:51 says "username already exists": no two sessions are logged in
\* under one name.
UniqueUsers ==
  \A s, u \in Session : s # u /\ sessionUser[s] # None => sessionUser[s] # sessionUser[u]
=============================================================================
