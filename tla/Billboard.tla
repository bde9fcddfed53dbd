------------------------------ MODULE Billboard ------------------------------
(***************************************************************************)
(* The billboard VS08: a servlet whose requests run in threads of their    *)
(* own over one array of entries and one set of free slots, without a      *)
(* lock.  Pages poll: the servlet keeps, for every address, the time of    *)
(* its last poll and answers with the entries changed since.               *)
(*                                                                         *)
(* Every access to something shared is a step; a request is one of POST    *)
(* (createEntry), PUT (updateEntry), DELETE (deleteEntry) and GET.         *)
(***************************************************************************)
EXTENDS Integers, Sequences

CONSTANTS
  SIZE,      \* entries of the board
  Request,   \* HTTP requests, each sent at most once
  Address,   \* where pages run
  IpOf,      \* the address each request comes from
  Methods,   \* what each request may be
  MaxTime,   \* bound: how far the clock goes
  Empty,     \* "<empty>", the text of an entry that was reset
  NotSet     \* "<not set>", its owner

Slot == 0..(SIZE - 1)
Method == {"POST", "PUT", "DELETE", "JSON", "newJSON"}

ASSUME BoardAssumption ==
  /\ SIZE \in Nat \ {0}
  /\ IpOf \in [Request -> Address] /\ Methods \in [Request -> SUBSET Method]
  /\ MaxTime \in Nat \ {0}
  /\ Empty \notin Request /\ NotSet \notin Address

VARIABLES
  freelist,  \* the LinkedHashSet, in its order
  modCount,  \* how often it has changed
  text, owner, stamp,  \* billboard[idx].text, owner_ip, timestamp
  time,      \* BillBoardServlet.time, 0: no time yet
  now,       \* System.currentTimeMillis()
  req,       \* where each request is
  told,      \* what was last read of each entry into an answer to each address
  offered,   \* entries that a page of an address has shown as its own
  late       \* entries whose timestamp was read before a tick and stored after

entries == <<text, owner, stamp>>
free == <<freelist, modCount>>
pages == <<told, offered>>
vars == <<free, entries, time, now, req, pages, late>>

Text == Request \cup {Empty}
\* at: the statement that is next; idx: the entry; clock: a time or a
\* modCount read before.
Control ==
  [at : {"new", "isEmpty", "iterator", "next", "remove",
         "text", "owner", "clock", "stamp",
         "resetText", "resetOwner", "resetStamp", "add",
         "now", "put", "check", "readText", "readOwner", "done", "failed"},
   method : Method, idx : Slot, clock : Nat]
Told == [text : Text, mine : BOOLEAN]
Untold == [text |-> Empty, mine |-> FALSE]

TypeOK ==
  /\ freelist \in Seq(Slot) /\ modCount \in Nat
  /\ \A i, j \in DOMAIN freelist : freelist[i] = freelist[j] => i = j
  /\ text \in [Slot -> Text]
  /\ owner \in [Slot -> Address \cup {NotSet}]
  /\ stamp \in [Slot -> 0..now]
  /\ time \in [Address -> 0..now]
  /\ now \in 1..MaxTime
  /\ req \in [Request -> Control]
  /\ told \in [Address -> [Slot -> Told]]
  /\ offered \subseteq Address \X Slot
  /\ late \subseteq Slot

Init ==
  /\ freelist = [i \in 1..SIZE |-> i - 1] /\ modCount = 0
  /\ text = [i \in Slot |-> Empty]
  /\ owner = [i \in Slot |-> NotSet]
  /\ stamp = [i \in Slot |-> 1]
  /\ time = [a \in Address |-> 0]
  /\ now = 1
  /\ req = [r \in Request |->
              [at |-> "new", method |-> "JSON", idx |-> 0, clock |-> 0]]
  /\ told = [a \in Address |-> [i \in Slot |-> Untold]]
  /\ offered = {} /\ late = {}

-----------------------------------------------------------------------------
(* The set of free slots.                                                  *)

IsFree(i) == \E k \in DOMAIN freelist : freelist[k] = i

\* LinkedHashSet.add and remove: an element that is there keeps its place.
Add(i) ==
  /\ freelist' = IF IsFree(i) THEN freelist ELSE Append(freelist, i)
  /\ modCount' = IF IsFree(i) THEN modCount ELSE modCount + 1

Without(i) ==
  LET k == CHOOSE k \in DOMAIN freelist : freelist[k] = i
  IN [j \in 1..(Len(freelist) - 1) |-> freelist[IF j < k THEN j ELSE j + 1]]

Remove(i) ==
  /\ freelist' = IF IsFree(i) THEN Without(i) ELSE freelist
  /\ modCount' = IF IsFree(i) THEN modCount + 1 ELSE modCount

-----------------------------------------------------------------------------
(* A request.                                                              *)

At(r, where) == req[r].at = where
Idx(r) == req[r].idx
Goto(r, where) == req' = [req EXCEPT ![r].at = where]

\* Mutant: the slot is freed before the entry is reset.
AddFirst == <<"add", "resetText", "resetOwner", "resetStamp">>

\* The statements of deleteEntry, with those of reset.
DeleteSteps == <<"resetText", "resetOwner", "resetStamp", "add">>

\* What comes after a statement of deleteEntry; createEntry goes on.
NextStep(r) ==
  LET k == CHOOSE k \in DOMAIN DeleteSteps : DeleteSteps[k] = req[r].at IN
  IF k < Len(DeleteSteps) THEN DeleteSteps[k + 1]
  ELSE IF req[r].method = "POST" THEN "iterator" ELSE "done"

\* A page posts, updates or deletes what it shows as its own, or polls.  The
\* first answer a page wants is newJSON.
Arrives(r) ==
  /\ At(r, "new")
  /\ \E m \in Methods[r], i \in Slot :
       /\ m \in {"PUT", "DELETE"} => <<IpOf[r], i>> \in offered
       /\ m \notin {"PUT", "DELETE"} => i = 0
       /\ req' = [req EXCEPT ![r] =
            [at |-> CASE m = "POST" -> "isEmpty" [] m = "PUT" -> "text"
                      [] m = "DELETE" -> DeleteSteps[1] [] m = "JSON" -> "now"
                      [] m = "newJSON" -> "check",
             method |-> m, idx |-> i, clock |-> 0]]
  /\ UNCHANGED <<free, entries, time, now, pages, late>>

\* createEntry: a full board loses a random entry.
FindsRoom(r) ==
  /\ At(r, "isEmpty") /\ freelist # <<>>
  /\ Goto(r, "iterator")
  /\ UNCHANGED <<free, entries, time, now, pages, late>>

PicksIndex(r) ==
  /\ At(r, "isEmpty") /\ freelist = <<>>
  /\ \E i \in Slot : req' = [req EXCEPT ![r].at = DeleteSteps[1], ![r].idx = i]
  /\ UNCHANGED <<free, entries, time, now, pages, late>>

\* freelist.iterator(); it is empty again if another request was faster, and
\* next() throws.
Iterates(r) ==
  /\ At(r, "iterator")
  /\ req' = IF freelist = <<>> THEN [req EXCEPT ![r].at = "failed"]
            ELSE [req EXCEPT ![r].at = "next", ![r].idx = Head(freelist),
                             ![r].clock = modCount]
  /\ UNCHANGED <<free, entries, time, now, pages, late>>

\* next() throws if the set has changed since.
TakesNext(r) ==
  /\ At(r, "next")
  /\ Goto(r, IF req[r].clock = modCount THEN "remove" ELSE "failed")
  /\ UNCHANGED <<free, entries, time, now, pages, late>>

Removes(r) ==
  /\ At(r, "remove")
  /\ Remove(Idx(r)) /\ Goto(r, "text")
  /\ UNCHANGED <<entries, time, now, pages, late>>

\* createEntry and updateEntry: the text is stored.
StoresText(r) ==
  /\ At(r, "text")
  /\ text' = [text EXCEPT ![Idx(r)] = r]
  /\ Goto(r, IF req[r].method = "POST" THEN "owner" ELSE "clock")
  /\ UNCHANGED <<free, owner, stamp, time, now, pages, late>>

StoresOwner(r) ==
  /\ At(r, "owner")
  /\ owner' = [owner EXCEPT ![Idx(r)] = IpOf[r]]
  /\ Goto(r, "clock")
  /\ UNCHANGED <<free, text, stamp, time, now, pages, late>>

\* setTimeStamp reads the clock and stores what it read.
ReadsClock(r) ==
  /\ At(r, "clock")
  /\ req' = [req EXCEPT ![r].at = "stamp", ![r].clock = now]
  /\ UNCHANGED <<free, entries, time, now, pages, late>>

StoresStamp(r) ==
  /\ At(r, "stamp")
  /\ stamp' = [stamp EXCEPT ![Idx(r)] = req[r].clock]
  /\ late' = IF req[r].clock = now THEN late \ {Idx(r)} ELSE late \cup {Idx(r)}
  /\ Goto(r, "done")
  /\ UNCHANGED <<free, text, owner, time, now, pages>>

-----------------------------------------------------------------------------
(* deleteEntry, called for a DELETE and by createEntry on a full board.    *)

ResetsText(r) ==
  /\ At(r, "resetText")
  /\ text' = [text EXCEPT ![Idx(r)] = Empty]
  /\ Goto(r, NextStep(r))
  /\ UNCHANGED <<free, owner, stamp, time, now, pages, late>>

ResetsOwner(r) ==
  /\ At(r, "resetOwner")
  /\ owner' = [owner EXCEPT ![Idx(r)] = NotSet]
  /\ Goto(r, NextStep(r))
  /\ UNCHANGED <<free, text, stamp, time, now, pages, late>>

ResetsStamp(r) ==
  /\ At(r, "resetStamp")
  /\ stamp' = [stamp EXCEPT ![Idx(r)] = 0]
  /\ late' = late \ {Idx(r)}
  /\ Goto(r, NextStep(r))
  /\ UNCHANGED <<free, text, owner, time, now, pages>>

AddsToFree(r) ==
  /\ At(r, "add")
  /\ Add(Idx(r))
  /\ Goto(r, NextStep(r))
  /\ UNCHANGED <<entries, time, now, pages, late>>

-----------------------------------------------------------------------------
(* doGet and readEntriesJSON.                                              *)

ReadsNow(r) ==
  /\ At(r, "now")
  /\ req' = [req EXCEPT ![r].at = "put", ![r].clock = now]
  /\ UNCHANGED <<free, entries, time, now, pages, late>>

\* HashMap.put returns the time that was there, which is the one to compare with.
PutsTime(r) ==
  /\ At(r, "put")
  /\ time' = [time EXCEPT ![IpOf[r]] = req[r].clock]
  /\ req' = [req EXCEPT ![r].at = "check", ![r].clock = time[IpOf[r]]]
  /\ UNCHANGED <<free, entries, now, pages, late>>

\* Mutant: an entry as old as the last poll is left out.
OnlyLater(ts, oldTime) == oldTime = 0 \/ ts = 0 \/ ts > oldTime

Included(ts, oldTime) == oldTime = 0 \/ ts = 0 \/ ts >= oldTime

\* Mutant: one entry too many.
PastEnd(i) == i = SIZE

LastEntry(i) == i = SIZE - 1

\* On to the next entry; the answer goes out after the last.
Onward(r) ==
  IF LastEntry(Idx(r)) THEN Goto(r, "done")
  ELSE req' = [req EXCEPT ![r].at = "check", ![r].idx = @ + 1]

Checks(r) ==
  /\ At(r, "check")
  /\ IF Included(stamp[Idx(r)], req[r].clock) THEN Goto(r, "readText") ELSE Onward(r)
  /\ UNCHANGED <<free, entries, time, now, pages, late>>

ReadsText(r) ==
  /\ At(r, "readText")
  /\ told' = [told EXCEPT ![IpOf[r]][Idx(r)].text = text[Idx(r)]]
  /\ Goto(r, "readOwner")
  /\ UNCHANGED <<free, entries, time, now, offered, late>>

ReadsOwner(r) ==
  /\ At(r, "readOwner")
  /\ LET mine == owner[Idx(r)] = IpOf[r] IN
       /\ told' = [told EXCEPT ![IpOf[r]][Idx(r)].mine = mine]
       /\ offered' = IF mine THEN offered \cup {<<IpOf[r], Idx(r)>>} ELSE offered
  /\ Onward(r)
  /\ UNCHANGED <<free, entries, time, now, late>>

-----------------------------------------------------------------------------

Tick ==
  /\ now < MaxTime
  /\ now' = now + 1
  /\ UNCHANGED <<free, entries, time, req, pages, late>>

CreateEntry(r) ==
  \/ FindsRoom(r) \/ PicksIndex(r) \/ Iterates(r) \/ TakesNext(r) \/ Removes(r)
  \/ StoresText(r) \/ StoresOwner(r) \/ ReadsClock(r) \/ StoresStamp(r)
DeleteEntry(r) == ResetsText(r) \/ ResetsOwner(r) \/ ResetsStamp(r) \/ AddsToFree(r)
DoGet(r) == ReadsNow(r) \/ PutsTime(r) \/ Checks(r) \/ ReadsText(r) \/ ReadsOwner(r)

Next ==
  \/ \E r \in Request : Arrives(r) \/ CreateEntry(r) \/ DeleteEntry(r) \/ DoGet(r)
  \/ Tick

Spec == Init /\ [][Next]_vars

-----------------------------------------------------------------------------
(* Properties.                                                             *)

\* A request that has the entry in its hands: one that took the slot and has not
\* signed it yet, or one that has cleared the owner and will free the slot.
InHand(i) ==
  \E r \in Request : Idx(r) = i /\
    \/ At(r, "text") /\ req[r].method = "POST"
    \/ At(r, "owner") \/ At(r, "resetStamp") \/ At(r, "add")

\* No slot is lost: one that is not free has an owner, who can delete it, or a
\* request is about to give it one or to free it -- although requests take
\* the same slot twice, or clear one that is being filled
\* (BillBoard.java 62-88).
NoSlotLost ==
  \A i \in Slot : IsFree(i) \/ owner[i] # NotSet \/ InHand(i)

\* A request that has changed the entry and not stored its timestamp yet.
Unstamped(i) ==
  \E r \in Request : Idx(r) = i /\
    req[r].at \in {"owner", "clock", "stamp", "resetOwner", "resetStamp"}

\* What is yet to come for what an address knows of an entry: the next poll will
\* include it, a request is still at work on it, or an answer to the address
\* has yet to read it.
Pending(a, i, reading) ==
  \/ Included(stamp[i], time[a])
  \/ Unstamped(i)
  \/ \E r \in Request : IpOf[r] = a /\
       \/ req[r].at \in reading /\ Idx(r) = i
       \/ At(r, "check") /\ Idx(r) <= i /\ Included(stamp[i], req[r].clock)
       \/ req[r].at \in {"readText", "readOwner"} /\ Idx(r) < i
          /\ Included(stamp[i], req[r].clock)

\* No change of an entry is passed over: what was last read into an answer to an
\* address is what the entry holds, or there is more to come.  Comparing with
\* the time of the last poll loses nothing, however polls and changes overlap
\* (BillBoardServlet.java 50, BillBoardHtmlAdapter.java 118), except when a
\* timestamp is read before the clock ticks and stored after.
NothingSkipped ==
  \A a \in Address : \A i \in Slot \ late :
    /\ told[a][i].text = text[i] \/ Pending(a, i, {"readText"})
    /\ told[a][i].mine = (owner[i] = a) \/ Pending(a, i, {"readText", "readOwner"})
=============================================================================
