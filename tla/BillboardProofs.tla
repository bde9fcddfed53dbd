-------------------------- MODULE BillboardProofs --------------------------
(***************************************************************************)
(* Proofs about the billboard, for every size of the board, every set of   *)
(* requests and addresses and every bound on the clock: types, that no     *)
(* slot is lost, and that no change is passed over by the polls.           *)
(***************************************************************************)
EXTENDS Billboard, TLAPS

\* What is known of a request from the statement it is at: only a POST looks for
\* a slot, a time that was read is not in the future, and a poll begins with
\* the first entry.
ControlInv ==
  \A r \in Request :
    /\ req[r].at \in {"isEmpty", "iterator", "next", "remove", "owner"}
         => req[r].method = "POST"
    /\ req[r].at \in {"stamp", "put"} => req[r].clock <= now
    /\ req[r].at \in {"now", "put"} => req[r].idx = 0

Typed == TypeOK /\ ControlInv

-----------------------------------------------------------------------------

LEMMA DeleteOrder ==
  ASSUME NEW r \in Request
  PROVE  /\ DeleteSteps[1] = "resetText"
         /\ At(r, "resetText") => NextStep(r) = "resetOwner"
         /\ At(r, "resetOwner") => NextStep(r) = "resetStamp"
         /\ At(r, "resetStamp") => NextStep(r) = "add"
         /\ At(r, "add") => NextStep(r) = IF req[r].method = "POST" THEN "iterator" ELSE "done"
<1> DEFINE K == CHOOSE k \in DOMAIN DeleteSteps : DeleteSteps[k] = req[r].at
<1>1. DOMAIN DeleteSteps = 1..4 /\ Len(DeleteSteps) = 4
  BY DEF DeleteSteps
<1>2. /\ DeleteSteps[1] = "resetText" /\ DeleteSteps[2] = "resetOwner"
      /\ DeleteSteps[3] = "resetStamp" /\ DeleteSteps[4] = "add"
  BY DEF DeleteSteps
<1>3. req[r].at = "resetText" => K = 1
  BY <1>1, <1>2
<1>4. req[r].at = "resetOwner" => K = 2
  BY <1>1, <1>2
<1>5. req[r].at = "resetStamp" => K = 3
  BY <1>1, <1>2
<1>6. req[r].at = "add" => K = 4
  BY <1>1, <1>2
<1>7. NextStep(r) = IF K < Len(DeleteSteps) THEN DeleteSteps[K + 1]
                    ELSE IF req[r].method = "POST" THEN "iterator" ELSE "done"
  BY DEF NextStep
<1> QED
  BY <1>1, <1>2, <1>3, <1>4, <1>5, <1>6, <1>7 DEF At

LEMMA Init1 == Init => Typed
BY BoardAssumption DEF Init, Typed, TypeOK, ControlInv, Slot, Text, Control, Method, Told, Untold

\* The set of free slots stays a sequence of slots, each once.
Distinct(s) == \A i, j \in DOMAIN s : s[i] = s[j] => i = j

LEMMA AddType ==
  ASSUME TypeOK, NEW i \in Slot, Add(i)
  PROVE  /\ freelist' \in Seq(Slot) /\ Distinct(freelist') /\ modCount' \in Nat
         /\ IsFree(i)'
         /\ \A j \in Slot : IsFree(j) => IsFree(j)'
<1>1. freelist \in Seq(Slot) /\ Distinct(freelist) /\ modCount \in Nat
  BY DEF TypeOK, Distinct
<1>2. CASE IsFree(i)
  BY <1>1, <1>2 DEF Add, IsFree
<1>3. CASE ~IsFree(i)
  <2>1. freelist' = Append(freelist, i) /\ modCount' = modCount + 1
    BY <1>3 DEF Add
  <2>2. /\ DOMAIN freelist' = 1..(Len(freelist) + 1)
        /\ \A k \in 1..Len(freelist) : freelist'[k] = freelist[k]
        /\ freelist'[Len(freelist) + 1] = i
    BY <1>1, <2>1
  <2>3. \A k \in DOMAIN freelist : freelist[k] # i
    BY <1>3 DEF IsFree
  <2>4. freelist' \in Seq(Slot)
    BY <1>1, <2>1
  <2>5. Distinct(freelist')
    BY <1>1, <2>2, <2>3 DEF Distinct
  <2>6. IsFree(i)'
    BY <1>1, <2>2 DEF IsFree
  <2>7. \A j \in Slot : IsFree(j) => IsFree(j)'
    BY <1>1, <2>2 DEF IsFree
  <2> QED
    BY <1>1, <2>1, <2>4, <2>5, <2>6, <2>7
<1> QED
  BY <1>2, <1>3

LEMMA RemoveType ==
  ASSUME TypeOK, NEW i \in Slot, Remove(i)
  PROVE  /\ freelist' \in Seq(Slot) /\ Distinct(freelist') /\ modCount' \in Nat
         /\ \A j \in Slot \ {i} : IsFree(j) => IsFree(j)'
<1>1. freelist \in Seq(Slot) /\ Distinct(freelist) /\ modCount \in Nat
  BY DEF TypeOK, Distinct
<1>2. CASE ~IsFree(i)
  BY <1>1, <1>2 DEF Remove, IsFree
<1>3. CASE IsFree(i)
  <2> DEFINE k == CHOOSE k \in DOMAIN freelist : freelist[k] = i
  <2> DEFINE n == Len(freelist) - 1
  <2>1. k \in DOMAIN freelist /\ freelist[k] = i
    BY <1>3 DEF IsFree
  <2>2. /\ freelist' = [j \in 1..n |-> freelist[IF j < k THEN j ELSE j + 1]]
        /\ modCount' = modCount + 1
    BY <1>3 DEF Remove, Without
  <2> HIDE DEF k
  <2>3. n \in Nat /\ k \in 1..(n + 1) /\ DOMAIN freelist = 1..(n + 1)
    BY <1>1, <2>1
  <2> HIDE DEF n
  <2>4. \A j \in 1..n : freelist'[j] = freelist[IF j < k THEN j ELSE j + 1]
    BY <2>2
  <2>5. DOMAIN freelist' = 1..n
    BY <2>2
  <2>6. \A j \in 1..n : freelist[IF j < k THEN j ELSE j + 1] \in Slot
    BY <1>1, <2>3
  <2>7. freelist' \in Seq(Slot)
    BY <2>2, <2>3, <2>6
  <2>8. Distinct(freelist')
    BY <1>1, <2>3, <2>4, <2>5 DEF Distinct
  <2>9. ASSUME NEW j \in Slot \ {i}, IsFree(j) PROVE IsFree(j)'
    <3>1. PICK m \in 1..(n + 1) : freelist[m] = j
      BY <2>3, <2>9 DEF IsFree
    <3>2. m # k
      BY <2>1, <2>9, <3>1
    <3>3. CASE m < k
      BY <2>3, <2>4, <2>5, <3>1, <3>3 DEF IsFree
    <3>4. CASE m > k
      <4>1. m - 1 \in 1..n /\ ~(m - 1 < k) /\ (m - 1) + 1 = m
        BY <2>3, <3>1, <3>4
      <4> QED
        BY <2>4, <2>5, <3>1, <4>1 DEF IsFree
    <3> QED
      BY <2>3, <3>1, <3>2, <3>3, <3>4
  <2> QED
    BY <1>1, <2>2, <2>7, <2>8, <2>9
<1> QED
  BY <1>2, <1>3

\* A request goes to another statement, its record c becomes d.
Sound(d, t) ==
  /\ d \in Control
  /\ d.at \in {"isEmpty", "iterator", "next", "remove", "owner"} => d.method = "POST"
  /\ d.at \in {"stamp", "put"} => d.clock <= t
  /\ d.at \in {"now", "put"} => d.idx = 0

LEMMA MoveType ==
  ASSUME Typed, NEW r \in Request, NEW d, Sound(d, now),
         req' = [req EXCEPT ![r] = d], now' = now
  PROVE  req' \in [Request -> Control] /\ ControlInv'
BY DEF Typed, TypeOK, ControlInv, Sound

LEMMA GotoType ==
  ASSUME Typed, NEW r \in Request, NEW where,
         Goto(r, where), now' = now,
         where \in {"isEmpty", "iterator", "next", "remove", "text", "owner", "clock",
                    "resetText", "resetOwner", "resetStamp", "add", "check", "readText",
                    "readOwner", "done", "failed"},
         where \in {"isEmpty", "iterator", "next", "remove", "owner"} => req[r].method = "POST"
  PROVE  req' \in [Request -> Control] /\ ControlInv'
<1> DEFINE d == [req[r] EXCEPT !.at = where]
<1>1. req[r] \in Control /\ req \in [Request -> Control]
  BY DEF Typed, TypeOK
<1>2. d \in Control /\ d.at = where /\ d.method = req[r].method
  BY <1>1 DEF Control
<1>3. Sound(d, now)
  BY <1>2 DEF Sound
<1>4. req' = [req EXCEPT ![r] = d]
  BY DEF Goto
<1> HIDE DEF d
<1> QED
  BY <1>3, <1>4, MoveType

LEMMA ToldType ==
  ASSUME TypeOK, NEW b \in Address, NEW i \in Slot, NEW cell \in Told,
         told' = [told EXCEPT ![b] = [told[b] EXCEPT ![i] = cell]]
  PROVE  told' \in [Address -> [Slot -> Told]]
BY DEF TypeOK

LEMMA TypeStep == Typed /\ [Next]_vars => Typed'
<1> SUFFICES ASSUME Typed, [Next]_vars PROVE Typed'
  OBVIOUS
<1> USE DEF Typed
<1>0. /\ \A r \in Request : req[r] \in Control
      /\ Slot \subseteq Int /\ \A i \in Slot : i >= 0 /\ i <= SIZE - 1
      /\ now \in Nat /\ 0 \in Slot
  BY BoardAssumption DEF TypeOK, Slot
<1>1. ASSUME NEW r \in Request, Arrives(r) PROVE Typed'
  <2>1. PICK m \in Methods[r], i \in Slot :
          /\ m \notin {"PUT", "DELETE"} => i = 0
          /\ req' = [req EXCEPT ![r] =
               [at |-> CASE m = "POST" -> "isEmpty" [] m = "PUT" -> "text"
                         [] m = "DELETE" -> DeleteSteps[1] [] m = "JSON" -> "now"
                         [] m = "newJSON" -> "check",
                method |-> m, idx |-> i, clock |-> 0]]
    BY <1>1 DEF Arrives
  <2> DEFINE w == CASE m = "POST" -> "isEmpty" [] m = "PUT" -> "text"
                    [] m = "DELETE" -> DeleteSteps[1] [] m = "JSON" -> "now"
                    [] m = "newJSON" -> "check"
             d == [at |-> w, method |-> m, idx |-> i, clock |-> 0]
  <2>2. m \in Method
    BY BoardAssumption
  <2>3. /\ w \in {"isEmpty", "text", "resetText", "now", "check"}
        /\ w = "isEmpty" => m = "POST"
        /\ w = "now" => m = "JSON"
    BY <2>2, DeleteOrder DEF Method
  <2> HIDE DEF w
  <2>4. Sound(d, now)
    BY <1>0, <2>1, <2>2, <2>3 DEF Sound, Control
  <2>5. req' = [req EXCEPT ![r] = d]
    BY <2>1 DEF w
  <2> HIDE DEF d
  <2>6. req' \in [Request -> Control] /\ ControlInv'
    BY <1>1, <2>4, <2>5, MoveType DEF Arrives
  <2> QED
    BY <1>1, <2>6 DEF Arrives, TypeOK, free, entries, pages
<1>2. ASSUME NEW r \in Request, CreateEntry(r) PROVE Typed'
  <2>1. CASE FindsRoom(r)
    <3>1. req' \in [Request -> Control] /\ ControlInv'
      BY <1>0, <2>1, GotoType DEF FindsRoom, At, Control, ControlInv
    <3> QED
      BY <2>1, <3>1 DEF FindsRoom, TypeOK, free, entries, pages
  <2>2. CASE PicksIndex(r)
    <3>1. PICK i \in Slot : req' = [req EXCEPT ![r].at = "resetText", ![r].idx = i]
      BY <2>2, DeleteOrder DEF PicksIndex
    <3> DEFINE d == [req[r] EXCEPT !.at = "resetText", !.idx = i]
    <3>2. req' = [req EXCEPT ![r] = d]
      BY <3>1
    <3>3. Sound(d, now)
      BY <1>0 DEF Sound, Control
    <3>4. req' \in [Request -> Control] /\ ControlInv'
      <4> HIDE DEF d
      <4> QED
        BY <2>2, <3>2, <3>3, MoveType DEF PicksIndex
    <3> QED
      BY <2>2, <3>4 DEF PicksIndex, TypeOK, free, entries, pages
  <2>3. CASE Iterates(r)
    <3>1. CASE freelist = <<>>
      <4>1. Goto(r, "failed")
        BY <2>3, <3>1 DEF Iterates, Goto
      <4>2. req' \in [Request -> Control] /\ ControlInv'
        BY <2>3, <4>1, GotoType DEF Iterates
      <4> QED
        BY <2>3, <4>2 DEF Iterates, TypeOK, free, entries, pages
    <3>2. CASE freelist # <<>>
      <4> DEFINE d == [req[r] EXCEPT !.at = "next", !.idx = Head(freelist),
                                     !.clock = modCount]
      <4>1. req' = [req EXCEPT ![r] = d]
        BY <2>3, <3>2 DEF Iterates
      <4>2. Head(freelist) \in Slot /\ modCount \in Nat
        BY <3>2 DEF TypeOK
      <4>3. req[r].method = "POST"
        BY <2>3 DEF Iterates, At, ControlInv
      <4>4. Sound(d, now)
        BY <1>0, <4>2, <4>3 DEF Sound, Control
      <4> HIDE DEF d
      <4>5. req' \in [Request -> Control] /\ ControlInv'
        BY <2>3, <4>1, <4>4, MoveType DEF Iterates
      <4> QED
        BY <2>3, <4>5 DEF Iterates, TypeOK, free, entries, pages
    <3> QED
      BY <3>1, <3>2
  <2>4. CASE TakesNext(r)
    <3>1. req' \in [Request -> Control] /\ ControlInv'
      BY <1>0, <2>4, GotoType DEF TakesNext, At, Control, ControlInv
    <3> QED
      BY <2>4, <3>1 DEF TakesNext, TypeOK, free, entries, pages
  <2>5. CASE Removes(r)
    <3>1. req' \in [Request -> Control] /\ ControlInv'
      BY <1>0, <2>5, GotoType DEF Removes
    <3>2. Idx(r) \in Slot
      BY <1>0 DEF Idx, Control
    <3>3. freelist' \in Seq(Slot) /\ Distinct(freelist') /\ modCount' \in Nat
      BY <2>5, <3>2, RemoveType DEF Removes
    <3> QED
      BY <2>5, <3>1, <3>3 DEF Removes, TypeOK, entries, pages, Distinct
  <2>6. CASE StoresText(r)
    <3>1. req' \in [Request -> Control] /\ ControlInv'
      BY <1>0, <2>6, GotoType DEF StoresText, Control
    <3>2. text' \in [Slot -> Text]
      BY <2>6 DEF StoresText, TypeOK, Text
    <3> QED
      BY <2>6, <3>1, <3>2 DEF StoresText, TypeOK, free, pages
  <2>7. CASE StoresOwner(r)
    <3>1. req' \in [Request -> Control] /\ ControlInv'
      BY <1>0, <2>7, GotoType DEF StoresOwner, Control
    <3>2. owner' \in [Slot -> Address \cup {NotSet}]
      BY <2>7, BoardAssumption DEF StoresOwner, TypeOK
    <3> QED
      BY <2>7, <3>1, <3>2 DEF StoresOwner, TypeOK, free, pages
  <2>8. CASE ReadsClock(r)
    <3> DEFINE d == [req[r] EXCEPT !.at = "stamp", !.clock = now]
    <3>1. req' = [req EXCEPT ![r] = d]
      BY <2>8 DEF ReadsClock
    <3>2. Sound(d, now)
      <4>1. d \in Control /\ d.at = "stamp" /\ d.clock = now
        BY <1>0 DEF Control
      <4> HIDE DEF d
      <4> QED
        BY <1>0, <4>1 DEF Sound
    <3> HIDE DEF d
    <3>3. req' \in [Request -> Control] /\ ControlInv'
      BY <2>8, <3>1, <3>2, MoveType DEF ReadsClock
    <3> QED
      BY <2>8, <3>3 DEF ReadsClock, TypeOK, free, entries, pages
  <2>9. CASE StoresStamp(r)
    <3>1. req' \in [Request -> Control] /\ ControlInv'
      BY <1>0, <2>9, GotoType DEF StoresStamp, Control
    <3>2. req[r].clock \in 0..now /\ Idx(r) \in Slot
      BY <1>0, <2>9 DEF StoresStamp, At, ControlInv, Control, Idx
    <3>3. stamp' \in [Slot -> 0..now'] /\ late' \subseteq Slot
      BY <2>9, <3>2 DEF StoresStamp, TypeOK
    <3> QED
      BY <2>9, <3>1, <3>3 DEF StoresStamp, TypeOK, free, pages
  <2> QED
    BY <1>2, <2>1, <2>2, <2>3, <2>4, <2>5, <2>6, <2>7, <2>8, <2>9 DEF CreateEntry
<1>3. ASSUME NEW r \in Request, DeleteEntry(r) PROVE Typed'
  <2>1. Idx(r) \in Slot
    BY <1>0 DEF Idx, Control
  <2>2. CASE ResetsText(r)
    <3>1. req' \in [Request -> Control] /\ ControlInv'
      BY <2>2, GotoType, DeleteOrder DEF ResetsText
    <3> QED
      BY <2>2, <3>1 DEF ResetsText, TypeOK, free, pages, Text
  <2>3. CASE ResetsOwner(r)
    <3>1. req' \in [Request -> Control] /\ ControlInv'
      BY <2>3, GotoType, DeleteOrder DEF ResetsOwner
    <3> QED
      BY <2>3, <3>1 DEF ResetsOwner, TypeOK, free, pages
  <2>4. CASE ResetsStamp(r)
    <3>1. req' \in [Request -> Control] /\ ControlInv'
      BY <2>4, GotoType, DeleteOrder DEF ResetsStamp
    <3>2. stamp' \in [Slot -> 0..now']
      BY <1>0, <2>1, <2>4 DEF ResetsStamp, TypeOK
    <3>3. late' \subseteq Slot
      BY <2>4 DEF ResetsStamp, TypeOK
    <3> QED
      BY <2>4, <3>1, <3>2, <3>3 DEF ResetsStamp, TypeOK, free, pages
  <2>5. CASE AddsToFree(r)
    <3>1. NextStep(r) \in {"iterator", "done"} /\ (NextStep(r) = "iterator" => req[r].method = "POST")
      BY <2>5, DeleteOrder DEF AddsToFree
    <3>2. req' \in [Request -> Control] /\ ControlInv'
      BY <2>5, <3>1, GotoType DEF AddsToFree
    <3>3. freelist' \in Seq(Slot) /\ Distinct(freelist') /\ modCount' \in Nat
      BY <2>1, <2>5, AddType DEF AddsToFree
    <3> QED
      BY <2>5, <3>2, <3>3 DEF AddsToFree, TypeOK, entries, pages, Distinct
  <2> QED
    BY <1>3, <2>2, <2>3, <2>4, <2>5 DEF DeleteEntry
<1>4. ASSUME NEW r \in Request, DoGet(r) PROVE Typed'
  <2>1. Idx(r) \in Slot /\ IpOf[r] \in Address /\ req[r].idx = Idx(r)
    BY <1>0, BoardAssumption DEF Idx, Control
  <2>2. ASSUME Onward(r), now' = now PROVE req' \in [Request -> Control] /\ ControlInv'
    <3>1. CASE LastEntry(Idx(r))
      BY <2>2, <3>1, GotoType DEF Onward
    <3>2. CASE ~LastEntry(Idx(r))
      <4> DEFINE d == [req[r] EXCEPT !.at = "check", !.idx = req[r].idx + 1]
      <4>1. req' = [req EXCEPT ![r] = d]
        BY <2>2, <3>2 DEF Onward
      <4>2. req[r].idx + 1 \in Slot
        BY <1>0, <2>1, <3>2, BoardAssumption DEF LastEntry, Slot
      <4>3. Sound(d, now)
        <5>1. d \in Control /\ d.at = "check"
          BY <1>0, <4>2 DEF Control
        <5> HIDE DEF d
        <5> QED
          BY <5>1 DEF Sound
      <4> HIDE DEF d
      <4> QED
        BY <2>2, <4>1, <4>3, MoveType
    <3> QED
      BY <3>1, <3>2
  <2>3. CASE ReadsNow(r)
    <3> DEFINE d == [req[r] EXCEPT !.at = "put", !.clock = now]
    <3>1. req' = [req EXCEPT ![r] = d]
      BY <2>3 DEF ReadsNow
    <3>2. req[r].idx = 0
      BY <2>3 DEF ReadsNow, At, ControlInv
    <3>3. Sound(d, now)
      <4>1. d \in Control /\ d.at = "put" /\ d.clock = now /\ d.idx = 0
        BY <1>0, <3>2 DEF Control
      <4> HIDE DEF d
      <4> QED
        BY <1>0, <4>1 DEF Sound
    <3> HIDE DEF d
    <3>4. req' \in [Request -> Control] /\ ControlInv'
      BY <2>3, <3>1, <3>3, MoveType DEF ReadsNow
    <3> QED
      BY <2>3, <3>4 DEF ReadsNow, TypeOK, free, entries, pages
  <2>4. CASE PutsTime(r)
    <3> DEFINE d == [req[r] EXCEPT !.at = "check", !.clock = time[IpOf[r]]]
    <3>1. req' = [req EXCEPT ![r] = d]
      BY <2>4 DEF PutsTime
    <3>2. time[IpOf[r]] \in Nat
      BY <1>0, <2>1 DEF TypeOK
    <3>3. Sound(d, now)
      <4>1. d \in Control /\ d.at = "check"
        BY <1>0, <3>2 DEF Control
      <4> HIDE DEF d
      <4> QED
        BY <4>1 DEF Sound
    <3> HIDE DEF d
    <3>4. req' \in [Request -> Control] /\ ControlInv'
      BY <2>4, <3>1, <3>3, MoveType DEF PutsTime
    <3>5. req[r].clock \in 0..now
      BY <1>0, <2>4 DEF PutsTime, At, ControlInv, Control
    <3>6. time' \in [Address -> 0..now']
      BY <2>4, <3>5 DEF PutsTime, TypeOK
    <3> QED
      BY <2>4, <3>4, <3>6 DEF PutsTime, TypeOK, free, entries, pages
  <2>5. CASE Checks(r)
    <3>1. req' \in [Request -> Control] /\ ControlInv'
      BY <2>2, <2>5, GotoType DEF Checks
    <3> QED
      BY <2>5, <3>1 DEF Checks, TypeOK, free, entries, pages
  <2>6. CASE ReadsText(r)
    <3>1. req' \in [Request -> Control] /\ ControlInv'
      BY <2>6, GotoType DEF ReadsText
    <3>2. told' \in [Address -> [Slot -> Told]]
      <4> DEFINE cell == [told[IpOf[r]][Idx(r)] EXCEPT !.text = (text[Idx(r)])]
      <4>1. told[IpOf[r]][Idx(r)] \in Told
        BY <2>1 DEF TypeOK
      <4>2. cell \in Told
        BY <2>1, <4>1 DEF Told, TypeOK
      <4>3. told' = [told EXCEPT ![IpOf[r]] = [told[IpOf[r]] EXCEPT ![Idx(r)] = cell]]
        BY <2>6 DEF ReadsText
      <4> HIDE DEF cell
      <4> QED
        BY <2>1, <4>2, <4>3, ToldType
    <3> QED
      BY <2>6, <3>1, <3>2 DEF ReadsText, TypeOK, free, entries
  <2>7. CASE ReadsOwner(r)
    <3>1. req' \in [Request -> Control] /\ ControlInv'
      BY <2>2, <2>7 DEF ReadsOwner
    <3>2. told' \in [Address -> [Slot -> Told]]
      <4> DEFINE cell == [told[IpOf[r]][Idx(r)] EXCEPT !.mine = (owner[Idx(r)] = IpOf[r])]
      <4>1. told[IpOf[r]][Idx(r)] \in Told
        BY <2>1 DEF TypeOK
      <4>2. cell \in Told
        BY <2>1, <4>1 DEF Told, TypeOK
      <4>3. told' = [told EXCEPT ![IpOf[r]] = [told[IpOf[r]] EXCEPT ![Idx(r)] = cell]]
        BY <2>7 DEF ReadsOwner
      <4> HIDE DEF cell
      <4> QED
        BY <2>1, <4>2, <4>3, ToldType
    <3>3. offered' \subseteq Address \X Slot
      BY <2>1, <2>7 DEF ReadsOwner, TypeOK
    <3> QED
      BY <2>7, <3>1, <3>2, <3>3 DEF ReadsOwner, TypeOK, free, entries
  <2> QED
    BY <1>4, <2>3, <2>4, <2>5, <2>6, <2>7 DEF DoGet
<1>5. CASE Tick
  <2>1. now' \in 1..MaxTime /\ now' = now + 1
    BY <1>5, BoardAssumption DEF Tick, TypeOK
  <2>2. stamp' \in [Slot -> 0..now'] /\ time' \in [Address -> 0..now']
    BY <1>0, <1>5, <2>1 DEF Tick, TypeOK, entries
  <2>3. ControlInv'
    BY <1>0, <1>5, <2>1 DEF Tick, ControlInv, Control
  <2> QED
    BY <1>5, <2>1, <2>2, <2>3 DEF Tick, TypeOK, free, entries, pages
<1>6. CASE UNCHANGED vars
  BY <1>6 DEF vars, free, entries, pages, TypeOK, ControlInv
<1> QED
  BY <1>1, <1>2, <1>3, <1>4, <1>5, <1>6 DEF Next

\* Every variable keeps its type; the free slots are listed once each, and neither
\* a timestamp nor the time of a poll is ahead of the clock.
THEOREM TypeCorrect == Spec => []TypeOK
<1>1. Typed => TypeOK
  BY DEF Typed
<1> QED
  BY <1>1, Init1, TypeStep, PTL DEF Spec

-----------------------------------------------------------------------------
(* No slot is lost.                                                        *)

Holds(r, i) ==
  /\ req[r].idx = i
  /\ \/ req[r].at = "text" /\ req[r].method = "POST"
     \/ req[r].at \in {"owner", "resetStamp", "add"}

Safe(i) == IsFree(i) \/ owner[i] # NotSet \/ \E r \in Request : Holds(r, i)

LEMMA SafeIsNoSlotLost == NoSlotLost <=> \A i \in Slot : Safe(i)
BY DEF NoSlotLost, Safe, InHand, Holds, At, Idx

\* What a step of one request leaves of its record and of the others.
LEMMA GotoEffect ==
  ASSUME Typed, NEW r \in Request, NEW where, Goto(r, where)
  PROVE  /\ \A q \in Request \ {r} : req'[q] = req[q]
         /\ req'[r].at = where /\ req'[r].idx = req[r].idx
         /\ req'[r].method = req[r].method /\ req'[r].clock = req[r].clock
<1>1. req \in [Request -> Control] /\ req[r] \in Control
  BY DEF Typed, TypeOK
<1> QED
  BY <1>1 DEF Goto, Control

\* A slot stays safe if the step neither takes it from the free ones nor clears
\* its owner, and the request lets go of nothing.
LEMMA SlotKept ==
  ASSUME NEW i, NEW r \in Request, Safe(i),
         \A q \in Request \ {r} : req'[q] = req[q],
         IsFree(i) => IsFree(i)', owner'[i] = owner[i] \/ owner'[i] # NotSet,
         Holds(r, i) => Holds(r, i)'
  PROVE  Safe(i)'
BY DEF Safe, Holds

LEMMA SafeStep ==
  ASSUME Typed, Next, NEW i \in Slot, Safe(i)
  PROVE  Safe(i)'
<1>0. \A r \in Request : req[r] \in Control
  BY DEF Typed, TypeOK
<1>1. ASSUME NEW r \in Request, Arrives(r) PROVE Safe(i)'
  <2>1. \A q \in Request \ {r} : req'[q] = req[q]
    BY <1>1 DEF Arrives, Typed, TypeOK
  <2>2. ~Holds(r, i)
    BY <1>1 DEF Arrives, At, Holds
  <2> QED
    BY <1>1, <2>1, <2>2, SlotKept DEF Arrives, free, entries, IsFree
<1>2. ASSUME NEW r \in Request, CreateEntry(r) PROVE Safe(i)'
  <2>1. CASE FindsRoom(r) \/ PicksIndex(r) \/ Iterates(r) \/ TakesNext(r) \/ ReadsClock(r)
    <3>1. \A q \in Request \ {r} : req'[q] = req[q]
      BY <2>1 DEF FindsRoom, PicksIndex, Iterates, TakesNext, ReadsClock, Goto, Typed, TypeOK
    <3>2. ~Holds(r, i)
      BY <2>1 DEF FindsRoom, PicksIndex, Iterates, TakesNext, ReadsClock, At, Holds
    <3>3. UNCHANGED <<freelist, owner>>
      BY <2>1 DEF FindsRoom, PicksIndex, Iterates, TakesNext, ReadsClock, free, entries
    <3> QED
      BY <3>1, <3>2, <3>3, SlotKept DEF IsFree
  <2>2. CASE Removes(r)
    <3>1. /\ \A q \in Request \ {r} : req'[q] = req[q]
          /\ req'[r].at = "text" /\ req'[r].idx = req[r].idx
          /\ req'[r].method = "POST"
      BY <2>2, GotoEffect DEF Removes, At, Typed, ControlInv
    <3>2. CASE req[r].idx = i
      BY <3>1, <3>2 DEF Safe, Holds
    <3>3. CASE req[r].idx # i
      <4>1. IsFree(i) => IsFree(i)'
        <5>1. Idx(r) \in Slot /\ Remove(Idx(r)) /\ i \in Slot \ {Idx(r)}
          BY <1>0, <2>2, <3>3 DEF Removes, Idx, Control
        <5> QED
          BY <5>1, RemoveType DEF Typed
      <4>2. owner' = owner
        BY <2>2 DEF Removes, entries
      <4>3. ~Holds(r, i)
        BY <3>3 DEF Holds
      <4> QED
        BY <3>1, <4>1, <4>2, <4>3, SlotKept
    <3> QED
      BY <3>2, <3>3
  <2>3. CASE StoresText(r)
    <3>1. Goto(r, IF req[r].method = "POST" THEN "owner" ELSE "clock")
      BY <2>3 DEF StoresText
    <3>2. Holds(r, i) => Holds(r, i)'
      BY <2>3, <3>1, GotoEffect DEF StoresText, At, Holds
    <3>3. \A q \in Request \ {r} : req'[q] = req[q]
      BY <3>1, GotoEffect
    <3> QED
      BY <2>3, <3>2, <3>3, SlotKept DEF StoresText, free, IsFree
  <2>4. CASE StoresOwner(r)
    <3>1. /\ \A q \in Request \ {r} : req'[q] = req[q]
          /\ IpOf[r] \in Address /\ IpOf[r] # NotSet
      BY <2>4, GotoEffect, BoardAssumption DEF StoresOwner
    <3>2. CASE req[r].idx = i
      <4>1. owner'[i] = IpOf[r]
        BY <2>4, <3>2 DEF StoresOwner, Idx, Typed, TypeOK
      <4> QED
        BY <3>1, <4>1 DEF Safe
    <3>3. CASE req[r].idx # i
      <4>1. ~Holds(r, i) /\ owner'[i] = owner[i]
        BY <2>4, <3>3 DEF Holds, StoresOwner, Idx, Typed, TypeOK
      <4> QED
        BY <2>4, <3>1, <4>1, SlotKept DEF StoresOwner, free, IsFree
    <3> QED
      BY <3>2, <3>3
  <2>5. CASE StoresStamp(r)
    <3>1. \A q \in Request \ {r} : req'[q] = req[q]
      BY <2>5, GotoEffect DEF StoresStamp
    <3>2. ~Holds(r, i)
      BY <2>5 DEF StoresStamp, At, Holds
    <3> QED
      BY <2>5, <3>1, <3>2, SlotKept DEF StoresStamp, free, IsFree
  <2> QED
    BY <1>2, <2>1, <2>2, <2>3, <2>4, <2>5 DEF CreateEntry
<1>3. ASSUME NEW r \in Request, DeleteEntry(r) PROVE Safe(i)'
  <2>1. CASE ResetsText(r)
    <3>1. \A q \in Request \ {r} : req'[q] = req[q]
      BY <2>1, GotoEffect DEF ResetsText
    <3>2. ~Holds(r, i)
      BY <2>1 DEF ResetsText, At, Holds
    <3> QED
      BY <2>1, <3>1, <3>2, SlotKept DEF ResetsText, free, IsFree
  <2>2. CASE ResetsOwner(r)
    <3>1. /\ \A q \in Request \ {r} : req'[q] = req[q]
          /\ req'[r].at = "resetStamp" /\ req'[r].idx = req[r].idx
      BY <2>2, GotoEffect, DeleteOrder DEF ResetsOwner
    <3>2. CASE req[r].idx = i
      BY <3>1, <3>2 DEF Safe, Holds
    <3>3. CASE req[r].idx # i
      <4>1. ~Holds(r, i) /\ owner'[i] = owner[i]
        BY <2>2, <3>3 DEF Holds, ResetsOwner, Idx, Typed, TypeOK
      <4> QED
        BY <2>2, <3>1, <4>1, SlotKept DEF ResetsOwner, free, IsFree
    <3> QED
      BY <3>2, <3>3
  <2>3. CASE ResetsStamp(r)
    <3>1. /\ \A q \in Request \ {r} : req'[q] = req[q]
          /\ req'[r].at = "add" /\ req'[r].idx = req[r].idx
      BY <2>3, GotoEffect, DeleteOrder DEF ResetsStamp
    <3>2. Holds(r, i) => Holds(r, i)'
      BY <3>1 DEF Holds
    <3> QED
      BY <2>3, <3>1, <3>2, SlotKept DEF ResetsStamp, free, IsFree
  <2>4. CASE AddsToFree(r)
    <3>1. \A q \in Request \ {r} : req'[q] = req[q]
      BY <2>4, GotoEffect DEF AddsToFree
    <3>2. PICK j \in Slot : j = Idx(r)
      BY <1>0 DEF Idx, Control
    <3>3. IsFree(j)' /\ (IsFree(i) => IsFree(i)')
      BY <2>4, <3>2, AddType DEF AddsToFree, Typed
    <3>4. CASE j = i
      BY <3>3, <3>4 DEF Safe
    <3>5. CASE j # i
      <4>1. ~Holds(r, i)
        BY <3>2, <3>5 DEF Holds, Idx
      <4> QED
        BY <2>4, <3>1, <3>3, <4>1, SlotKept DEF AddsToFree, entries
    <3> QED
      BY <3>4, <3>5
  <2> QED
    BY <1>3, <2>1, <2>2, <2>3, <2>4 DEF DeleteEntry
<1>4. ASSUME NEW r \in Request, DoGet(r) PROVE Safe(i)'
  <2>1. \A q \in Request \ {r} : req'[q] = req[q]
    BY <1>4 DEF DoGet, ReadsNow, PutsTime, Checks, ReadsText, ReadsOwner, Onward, Goto, Typed, TypeOK
  <2>2. ~Holds(r, i)
    BY <1>4 DEF DoGet, ReadsNow, PutsTime, Checks, ReadsText, ReadsOwner, At, Holds
  <2>3. UNCHANGED <<freelist, owner>>
    BY <1>4 DEF DoGet, ReadsNow, PutsTime, Checks, ReadsText, ReadsOwner, free, entries
  <2> QED
    BY <2>1, <2>2, <2>3, SlotKept DEF IsFree
<1>5. CASE Tick
  BY <1>5 DEF Tick, Safe, Holds, IsFree, free, entries
<1> QED
  BY <1>1, <1>2, <1>3, <1>4, <1>5 DEF Next

\* No slot is ever lost, however many requests create and delete entries at the
\* same time: deleteEntry resets an entry before it frees the slot.
THEOREM NoSlotLostAlways == Spec => []NoSlotLost
<1> DEFINE I == Typed /\ NoSlotLost
<1>1. Init => I
  <2>1. Init => NoSlotLost
    <3> SUFFICES ASSUME Init, NEW i \in Slot PROVE IsFree(i)
      BY DEF NoSlotLost
    <3>1. i + 1 \in 1..SIZE /\ freelist[i + 1] = i /\ DOMAIN freelist = 1..SIZE
      BY BoardAssumption DEF Init, Slot
    <3> QED
      BY <3>1 DEF IsFree
  <2> QED
    BY <2>1, Init1
<1>2. I /\ [Next]_vars => I'
  <2> SUFFICES ASSUME Typed, NoSlotLost, [Next]_vars PROVE NoSlotLost'
    BY TypeStep
  <2>1. CASE Next
    <3>1. \A i \in Slot : Safe(i)'
      BY <2>1, SafeStep, SafeIsNoSlotLost
    <3>2. NoSlotLost'
      BY <3>1 DEF NoSlotLost, Safe, InHand, Holds, At, Idx
    <3> QED
      BY <3>2
  <2>2. CASE UNCHANGED vars
    BY <2>2 DEF vars, free, entries, NoSlotLost, IsFree, InHand, At, Idx
  <2> QED
    BY <2>1, <2>2
<1>3. I => NoSlotLost
  OBVIOUS
<1> QED
  BY <1>1, <1>2, <1>3, PTL DEF Spec

-----------------------------------------------------------------------------
(* No change is passed over.                                               *)

Working(r, i) ==
  /\ req[r].idx = i
  /\ req[r].at \in {"owner", "clock", "stamp", "resetOwner", "resetStamp"}

WillRead(r, b, i, reading) ==
  IpOf[r] = b /\
    \/ req[r].at \in reading /\ req[r].idx = i
    \/ req[r].at = "check" /\ req[r].idx <= i /\ Included(stamp[i], req[r].clock)
    \/ req[r].at \in {"readText", "readOwner"} /\ req[r].idx < i
       /\ Included(stamp[i], req[r].clock)

\* A reason why an address need not know yet what an entry holds.
Excused(b, i, reading) ==
  \/ i \in late
  \/ Included(stamp[i], time[b])
  \/ \E r \in Request : Working(r, i)
  \/ \E r \in Request : WillRead(r, b, i, reading)

Texts == {"readText"}
Owners == {"readText", "readOwner"}

Known(b, i) ==
  /\ told[b][i].text = text[i] \/ Excused(b, i, Texts)
  /\ told[b][i].mine = (owner[i] = b) \/ Excused(b, i, Owners)

LEMMA KnownIsNothingSkipped ==
  NothingSkipped <=> \A b \in Address, i \in Slot : Known(b, i)
<1>1. \A b \in Address, i \in Slot :
        /\ Excused(b, i, Texts) <=> i \in late \/ Pending(b, i, {"readText"})
        /\ Excused(b, i, Owners) <=> i \in late \/ Pending(b, i, {"readText", "readOwner"})
  BY DEF Excused, Pending, Unstamped, Working, WillRead, At, Idx, Texts, Owners
<1>2. NothingSkipped => \A b \in Address, i \in Slot : Known(b, i)
  BY <1>1 DEF NothingSkipped, Known
<1>3. (\A b \in Address, i \in Slot : Known(b, i)) => NothingSkipped
  BY <1>1 DEF NothingSkipped, Known, Excused
<1> QED
  BY <1>2, <1>3

\* An excuse lasts as long as the step of r does not take it away.
LEMMA ExcuseKept ==
  ASSUME NEW b, NEW i, NEW reading, NEW r \in Request, Excused(b, i, reading),
         \A q \in Request \ {r} : req'[q] = req[q],
         i \in late => i \in late',
         stamp'[i] = stamp[i],
         Included(stamp[i], time[b]) => Excused(b, i, reading)',
         Working(r, i) => Excused(b, i, reading)',
         WillRead(r, b, i, reading) => Excused(b, i, reading)'
  PROVE  Excused(b, i, reading)'
<1>1. CASE i \in late
  BY <1>1 DEF Excused
<1>2. ASSUME NEW q \in Request, q # r, Working(q, i) PROVE Working(q, i)'
  BY <1>2 DEF Working
<1>3. ASSUME NEW q \in Request, q # r, WillRead(q, b, i, reading)
      PROVE  WillRead(q, b, i, reading)'
  BY <1>3 DEF WillRead, Included
<1> QED
  BY <1>1, <1>2, <1>3 DEF Excused

\* A step of r that leaves alone what is known of the entry and takes away no excuse.
LEMMA KnownKept ==
  ASSUME NEW b, NEW i, NEW r \in Request, Known(b, i),
         \A q \in Request \ {r} : req'[q] = req[q],
         i \in late => i \in late',
         told'[b][i] = told[b][i], text'[i] = text[i], owner'[i] = owner[i],
         stamp'[i] = stamp[i], time'[b] = time[b],
         Working(r, i) => Working(r, i)',
         WillRead(r, b, i, Texts) => WillRead(r, b, i, Texts)',
         WillRead(r, b, i, Owners) => WillRead(r, b, i, Owners)'
  PROVE  Known(b, i)'
<1>1. Included(stamp[i], time[b]) => Included(stamp[i], time[b])'
  BY DEF Included
<1>2. Excused(b, i, Texts) => Excused(b, i, Texts)'
  BY <1>1, ExcuseKept DEF Excused
<1>3. Excused(b, i, Owners) => Excused(b, i, Owners)'
  BY <1>1, ExcuseKept DEF Excused
<1>4. told[b][i].text = text[i] => told'[b][i].text = text'[i]
  OBVIOUS
<1>5. told[b][i].mine = (owner[i] = b) => told'[b][i].mine = (owner'[i] = b)
  OBVIOUS
<1> QED
  BY <1>2, <1>3, <1>4, <1>5 DEF Known, Texts, Owners

\* The steps before and after the entries are touched.
Elsewhere(r) ==
  \/ Arrives(r) \/ FindsRoom(r) \/ PicksIndex(r) \/ Iterates(r) \/ TakesNext(r)
  \/ Removes(r) \/ AddsToFree(r) \/ ReadsNow(r)

LEMMA KnownElsewhere ==
  ASSUME Typed, NEW r \in Request, Elsewhere(r),
         NEW b \in Address, NEW i \in Slot, Known(b, i)
  PROVE  Known(b, i)'
<1>1. /\ \A q \in Request \ {r} : req'[q] = req[q]
      /\ UNCHANGED <<told, late, time, text, owner, stamp>> \/ Arrives(r)
  <2>1. req \in [Request -> Control]
    BY DEF Typed, TypeOK
  <2>2. CASE Arrives(r)
    BY <2>1, <2>2 DEF Arrives
  <2>3. CASE FindsRoom(r) \/ PicksIndex(r) \/ Iterates(r) \/ TakesNext(r)
    BY <2>1, <2>3 DEF FindsRoom, PicksIndex, Iterates, TakesNext, Goto, entries, pages
  <2>4. CASE Removes(r) \/ AddsToFree(r) \/ ReadsNow(r)
    BY <2>1, <2>4 DEF Removes, AddsToFree, ReadsNow, Goto, entries, pages
  <2> QED
    BY <2>2, <2>3, <2>4 DEF Elsewhere
<1>2. UNCHANGED <<told, late, time, text, owner, stamp>>
  BY <1>1 DEF Arrives, entries, pages
<1>3. req[r].at \in {"new", "isEmpty", "iterator", "next", "remove", "add", "now"}
  BY DEF Elsewhere, Arrives, FindsRoom, PicksIndex, Iterates, TakesNext, Removes,
         AddsToFree, ReadsNow, At
<1>4. ~Working(r, i) /\ ~WillRead(r, b, i, Texts) /\ ~WillRead(r, b, i, Owners)
  BY <1>3 DEF Working, WillRead, Texts, Owners
<1> QED
  BY <1>1, <1>2, <1>4, KnownKept

\* Once an excuse is there, nothing has to be known.
LEMMA ExcuseIsEnough ==
  ASSUME NEW b, NEW i,
         Excused(b, i, Texts)', Excused(b, i, Owners)'
  PROVE  Known(b, i)'
BY DEF Known, Texts, Owners

\* The steps that change an entry: its timestamp is still to come, or it is now
\* zero or not before the time of any poll.
LEMMA KnownWhenChanged ==
  ASSUME Typed, NEW r \in Request,
         \/ StoresText(r) \/ StoresOwner(r) \/ ReadsClock(r) \/ StoresStamp(r)
         \/ ResetsText(r) \/ ResetsOwner(r) \/ ResetsStamp(r),
         NEW b \in Address, NEW i \in Slot, Known(b, i)
  PROVE  Known(b, i)'
<1>0. /\ req[r] \in Control /\ now \in Nat /\ time[b] \in Nat /\ time[b] <= now
      /\ \A j \in Slot : stamp[j] \in Nat
  BY BoardAssumption DEF Typed, TypeOK
<1>1. /\ \A q \in Request \ {r} : req'[q] = req[q]
      /\ req'[r].idx = req[r].idx
      /\ UNCHANGED <<told, time, now>>
  <2>1. CASE ReadsClock(r)
    BY <2>1 DEF ReadsClock, entries, pages, Typed, TypeOK, Control
  <2>2. CASE ~ReadsClock(r)
    <3>1. PICK w : Goto(r, w)
      BY <2>2 DEF StoresText, StoresOwner, StoresStamp, ResetsText, ResetsOwner, ResetsStamp
    <3>2. UNCHANGED <<told, time, now>>
      BY <2>2 DEF StoresText, StoresOwner, StoresStamp, ResetsText, ResetsOwner, ResetsStamp, pages
    <3> QED
      BY <3>1, <3>2, GotoEffect
  <2> QED
    BY <2>1, <2>2
<1>2. ~WillRead(r, b, i, Texts) /\ ~WillRead(r, b, i, Owners)
  BY DEF StoresText, StoresOwner, ReadsClock, StoresStamp, ResetsText, ResetsOwner,
         ResetsStamp, At, WillRead, Texts, Owners
<1>3. CASE req[r].idx # i
  <2>1. ~Working(r, i)
    BY <1>3 DEF Working
  <2>2. /\ text'[i] = text[i] /\ owner'[i] = owner[i] /\ stamp'[i] = stamp[i]
        /\ i \in late => i \in late'
    BY <1>3 DEF StoresText, StoresOwner, ReadsClock, StoresStamp, ResetsText, ResetsOwner,
         ResetsStamp, Idx, entries, Typed, TypeOK
  <2> QED
    BY <1>1, <1>2, <2>1, <2>2, KnownKept
<1>4. CASE req[r].idx = i
  <2>1. CASE StoresStamp(r)
    <3>1. CASE req[r].clock = now
      <4>1. stamp'[i] = now
        BY <1>4, <2>1, <3>1 DEF StoresStamp, Idx, Typed, TypeOK
      <4>2. Included(stamp[i], time[b])'
        BY <1>0, <1>1, <4>1 DEF Included
      <4> QED
        BY <4>2, ExcuseIsEnough DEF Excused
    <3>2. CASE req[r].clock # now
      <4>1. i \in late'
        BY <1>4, <2>1, <3>2 DEF StoresStamp, Idx
      <4> QED
        BY <4>1, ExcuseIsEnough DEF Excused
    <3> QED
      BY <3>1, <3>2
  <2>2. CASE ResetsStamp(r)
    <3>1. stamp'[i] = 0
      BY <1>4, <2>2 DEF ResetsStamp, Idx, Typed, TypeOK
    <3>2. Included(stamp[i], time[b])'
      BY <3>1 DEF Included
    <3> QED
      BY <3>2, ExcuseIsEnough DEF Excused
  <2>3. CASE ReadsClock(r)
    <3>1. req'[r].at = "stamp"
      BY <2>3 DEF ReadsClock, Typed, TypeOK, Control
    <3>2. Working(r, i)'
      BY <1>1, <1>4, <3>1 DEF Working
    <3> QED
      BY <3>2, ExcuseIsEnough DEF Excused
  <2>4. CASE StoresText(r) \/ StoresOwner(r) \/ ResetsText(r) \/ ResetsOwner(r)
    <3>1. req'[r].at \in {"owner", "clock", "resetOwner", "resetStamp"}
      BY <2>4, GotoEffect, DeleteOrder DEF StoresText, StoresOwner, ResetsText, ResetsOwner
    <3>2. Working(r, i)'
      BY <1>1, <1>4, <3>1 DEF Working
    <3> QED
      BY <3>2, ExcuseIsEnough DEF Excused
  <2> QED
    BY <2>1, <2>2, <2>3, <2>4
<1> QED
  BY <1>3, <1>4

\* On to the next entry: what an answer was yet to read of later entries it
\* still is.
LEMMA OnwardReads ==
  ASSUME Typed, NEW r \in Request, Onward(r), stamp' = stamp,
         NEW b, NEW i \in Slot, NEW reading,
         IpOf[r] = b, req[r].idx < i, Included(stamp[i], req[r].clock)
  PROVE  WillRead(r, b, i, reading)'
<1>1. req[r] \in Control /\ req \in [Request -> Control]
  BY DEF Typed, TypeOK
<1>2. req[r].idx \in Int /\ i \in Int /\ i <= SIZE - 1 /\ SIZE \in Int
  BY <1>1, BoardAssumption DEF Control, Slot
<1>3. ~LastEntry(Idx(r))
  BY <1>2 DEF LastEntry, Idx
<1>4. req' = [req EXCEPT ![r].at = "check", ![r].idx = @ + 1]
  BY <1>3 DEF Onward
<1>5. req'[r].at = "check" /\ req'[r].idx = req[r].idx + 1 /\ req'[r].clock = req[r].clock
  BY <1>1, <1>4 DEF Control
<1>6. Included(stamp[i], req[r].clock)'
  BY <1>5 DEF Included
<1> QED
  BY <1>2, <1>5, <1>6 DEF WillRead

LEMMA OthersStay ==
  ASSUME Typed, NEW r \in Request, DoGet(r)
  PROVE  /\ \A q \in Request \ {r} : req'[q] = req[q]
         /\ UNCHANGED <<text, owner, stamp, late>>
<1>1. req \in [Request -> Control]
  BY DEF Typed, TypeOK
<1> QED
  BY <1>1 DEF DoGet, ReadsNow, PutsTime, Checks, ReadsText, ReadsOwner, Onward, Goto, entries

LEMMA KnownWhenRead ==
  ASSUME Typed, NEW r \in Request, DoGet(r), ~ReadsNow(r),
         NEW b \in Address, NEW i \in Slot, Known(b, i)
  PROVE  Known(b, i)'
<1>0. /\ req[r] \in Control /\ req \in [Request -> Control]
      /\ \A q \in Request \ {r} : req'[q] = req[q]
      /\ UNCHANGED <<text, owner, stamp, late>>
      /\ ~Working(r, i)
  BY OthersStay DEF DoGet, PutsTime, Checks, ReadsText, ReadsOwner, ReadsNow, At, Working,
                    Typed, TypeOK
<1>1. CASE PutsTime(r)
  <2>1. ~WillRead(r, b, i, Texts) /\ ~WillRead(r, b, i, Owners)
    BY <1>1 DEF PutsTime, At, WillRead, Texts, Owners
  <2>2. UNCHANGED told
    BY <1>1 DEF PutsTime, pages
  <2>3. CASE time'[b] = time[b]
    BY <1>0, <2>1, <2>2, <2>3, KnownKept
  <2>4. CASE time'[b] # time[b]
    <3>1. b = IpOf[r]
      BY <1>1, <2>4 DEF PutsTime, Typed, TypeOK
    <3>2. req'[r].at = "check" /\ req'[r].idx = 0 /\ req'[r].clock = time[b]
      BY <1>0, <1>1, <3>1 DEF PutsTime, At, Control, Typed, ControlInv
    <3>3. \A reading : Included(stamp[i], time[b]) => WillRead(r, b, i, reading)'
      <4>1. i >= 0
        BY DEF Slot
      <4> QED
        BY <1>0, <3>1, <3>2, <4>1 DEF WillRead, Included
    <3>4. Excused(b, i, Texts) => Excused(b, i, Texts)'
      <4>1. Included(stamp[i], time[b]) => Excused(b, i, Texts)'
        BY <3>3 DEF Excused, Texts
      <4> QED
        BY <1>0, <2>1, <4>1, ExcuseKept
    <3>5. Excused(b, i, Owners) => Excused(b, i, Owners)'
      <4>1. Included(stamp[i], time[b]) => Excused(b, i, Owners)'
        BY <3>3 DEF Excused, Owners
      <4> QED
        BY <1>0, <2>1, <4>1, ExcuseKept
    <3> QED
      BY <1>0, <2>2, <3>4, <3>5 DEF Known, Texts, Owners
  <2> QED
    BY <2>3, <2>4
<1>2. CASE Checks(r)
  <2>1. UNCHANGED <<told, time>>
    BY <1>2 DEF Checks, pages
  <2>2. ASSUME NEW reading, reading \in {Texts, Owners}, WillRead(r, b, i, reading)
        PROVE  WillRead(r, b, i, reading)'
    <3>1. /\ IpOf[r] = b /\ req[r].at = "check" /\ req[r].idx <= i
          /\ Included(stamp[i], req[r].clock)
      BY <1>2, <2>2 DEF Checks, At, WillRead, Texts, Owners
    <3>2. CASE Included(stamp[Idx(r)], req[r].clock)
      <4>1. Goto(r, "readText")
        BY <1>2, <3>2 DEF Checks
      <4>2. req'[r].at = "readText" /\ req'[r].idx = req[r].idx /\ req'[r].clock = req[r].clock
        BY <4>1, GotoEffect
      <4>3. Included(stamp[i], req[r].clock)'
        BY <1>0, <3>1, <4>2 DEF Included
      <4>4. req[r].idx = i \/ req[r].idx < i
        BY <1>0, <3>1 DEF Control, Slot
      <4> QED
        BY <2>2, <3>1, <4>2, <4>3, <4>4 DEF WillRead, Texts, Owners
    <3>3. CASE ~Included(stamp[Idx(r)], req[r].clock)
      <4>1. Onward(r)
        BY <1>2, <3>3 DEF Checks
      <4>2. req[r].idx # i
        BY <3>1, <3>3 DEF Idx
      <4>3. req[r].idx < i
        BY <1>0, <3>1, <4>2 DEF Control, Slot
      <4> QED
        BY <1>0, <3>1, <4>1, <4>3, OnwardReads
    <3> QED
      BY <3>2, <3>3
  <2>3. /\ WillRead(r, b, i, Texts) => WillRead(r, b, i, Texts)'
        /\ WillRead(r, b, i, Owners) => WillRead(r, b, i, Owners)'
    <3>1. WillRead(r, b, i, Texts) => WillRead(r, b, i, Texts)'
      BY <2>2
    <3>2. WillRead(r, b, i, Owners) => WillRead(r, b, i, Owners)'
      BY <2>2
    <3> QED
      BY <3>1, <3>2
  <2> QED
    BY <1>0, <2>1, <2>3, KnownKept
<1>3. CASE ReadsText(r)
  <2>1. /\ req[r].at = "readText" /\ UNCHANGED time
        /\ req'[r].at = "readOwner" /\ req'[r].idx = req[r].idx /\ req'[r].clock = req[r].clock
    BY <1>3, GotoEffect DEF ReadsText, At
  <2>2. IpOf[r] \in Address /\ req[r].idx \in Slot
    BY <1>0, BoardAssumption DEF Control
  <2>3. /\ told' = [told EXCEPT ![IpOf[r]] =
                     [told[IpOf[r]] EXCEPT ![req[r].idx] =
                        [told[IpOf[r]][req[r].idx] EXCEPT !.text = text[req[r].idx]]]]
        /\ told[b][i] \in Told /\ told \in [Address -> [Slot -> Told]]
    BY <1>3 DEF ReadsText, Idx, Typed, TypeOK
  <2>4. Included(stamp[i], time[b]) => Included(stamp[i], time[b])'
    BY <1>0, <2>1 DEF Included
  <2>5. Excused(b, i, Owners) => Excused(b, i, Owners)'
    <3>1. WillRead(r, b, i, Owners) => WillRead(r, b, i, Owners)'
      BY <1>0, <2>1 DEF WillRead, Included, Owners
    <3> QED
      BY <1>0, <2>4, <3>1, ExcuseKept DEF Excused
  <2>6. told'[b][i].mine = told[b][i].mine
    BY <2>2, <2>3 DEF Told
  <2>7. told'[b][i].text = text[i] \/ Excused(b, i, Texts)'
    <3>1. CASE b = IpOf[r] /\ i = req[r].idx
      BY <2>2, <2>3, <3>1 DEF Told
    <3>2. CASE ~(b = IpOf[r] /\ i = req[r].idx)
      <4>1. told'[b][i] = told[b][i]
        BY <2>2, <2>3, <3>2
      <4>2. WillRead(r, b, i, Texts) => WillRead(r, b, i, Texts)'
        BY <1>0, <2>1, <3>2 DEF WillRead, Included, Texts
      <4>3. Excused(b, i, Texts) => Excused(b, i, Texts)'
        BY <1>0, <2>4, <4>2, ExcuseKept DEF Excused
      <4> QED
        BY <4>1, <4>3 DEF Known, Texts
    <3> QED
      BY <3>1, <3>2
  <2> QED
    BY <1>0, <2>5, <2>6, <2>7 DEF Known, Texts, Owners
<1>4. CASE ReadsOwner(r)
  <2>1. req[r].at = "readOwner" /\ UNCHANGED time /\ Onward(r)
    BY <1>4 DEF ReadsOwner, At
  <2>2. IpOf[r] \in Address /\ req[r].idx \in Slot
    BY <1>0, BoardAssumption DEF Control
  <2>3. /\ told' = [told EXCEPT ![IpOf[r]] =
                     [told[IpOf[r]] EXCEPT ![req[r].idx] =
                        [told[IpOf[r]][req[r].idx] EXCEPT
                            !.mine = (owner[req[r].idx] = IpOf[r])]]]
        /\ told[b][i] \in Told /\ told \in [Address -> [Slot -> Told]]
    BY <1>4 DEF ReadsOwner, Idx, Typed, TypeOK
  <2>4. Included(stamp[i], time[b]) => Included(stamp[i], time[b])'
    BY <1>0, <2>1 DEF Included
  <2>5. ASSUME NEW reading, IpOf[r] = b, req[r].idx < i, Included(stamp[i], req[r].clock)
        PROVE  WillRead(r, b, i, reading)'
    BY <1>0, <2>1, <2>5, OnwardReads
  <2>6. Excused(b, i, Texts) => Excused(b, i, Texts)'
    <3>1. WillRead(r, b, i, Texts) => WillRead(r, b, i, Texts)'
      BY <2>1, <2>5 DEF WillRead, Texts
    <3> QED
      BY <1>0, <2>4, <3>1, ExcuseKept DEF Excused
  <2>7. told'[b][i].text = told[b][i].text
    BY <2>2, <2>3 DEF Told
  <2>8. told'[b][i].mine = (owner[i] = b) \/ Excused(b, i, Owners)'
    <3>1. CASE b = IpOf[r] /\ i = req[r].idx
      BY <2>2, <2>3, <3>1 DEF Told
    <3>2. CASE ~(b = IpOf[r] /\ i = req[r].idx)
      <4>1. told'[b][i] = told[b][i]
        BY <2>2, <2>3, <3>2
      <4>2. WillRead(r, b, i, Owners) => WillRead(r, b, i, Owners)'
        BY <2>1, <2>5, <3>2 DEF WillRead, Owners
      <4>3. Excused(b, i, Owners) => Excused(b, i, Owners)'
        BY <1>0, <2>4, <4>2, ExcuseKept DEF Excused
      <4> QED
        BY <4>1, <4>3 DEF Known, Owners
    <3> QED
      BY <3>1, <3>2
  <2> QED
    BY <1>0, <2>6, <2>7, <2>8 DEF Known, Texts, Owners
<1> QED
  BY <1>1, <1>2, <1>3, <1>4 DEF DoGet

\* The polls of an address pass over no change: the time of the last poll is taken
\* before the entries are read, a timestamp after the entry has changed, and
\* the two are compared with >=.
THEOREM NothingSkippedAlways == Spec => []NothingSkipped
<1> DEFINE I == Typed /\ NothingSkipped
<1>1. Init => I
  <2>1. ASSUME Init PROVE NothingSkipped
    <3>1. \A b \in Address, i \in Slot : Included(stamp[i], time[b])
      BY <2>1 DEF Init, Included
    <3> QED
      BY <3>1, KnownIsNothingSkipped DEF Known, Excused
  <2> QED
    BY <2>1, Init1
<1>2. I /\ [Next]_vars => I'
  <2> SUFFICES ASSUME Typed, NothingSkipped, [Next]_vars PROVE NothingSkipped'
    BY TypeStep
  <2>0. \A b \in Address, i \in Slot : Known(b, i)
    BY KnownIsNothingSkipped
  <2>1. ASSUME NEW b \in Address, NEW i \in Slot PROVE Known(b, i)'
    <3>1. ASSUME NEW r \in Request,
                 Arrives(r) \/ CreateEntry(r) \/ DeleteEntry(r) \/ DoGet(r)
          PROVE  Known(b, i)'
      <4>1. \/ Elsewhere(r)
            \/ StoresText(r) \/ StoresOwner(r) \/ ReadsClock(r) \/ StoresStamp(r)
            \/ ResetsText(r) \/ ResetsOwner(r) \/ ResetsStamp(r)
            \/ DoGet(r) /\ ~ReadsNow(r)
        BY <3>1 DEF CreateEntry, DeleteEntry, DoGet, Elsewhere
      <4> QED
        BY <2>0, <4>1, KnownElsewhere, KnownWhenChanged, KnownWhenRead
    <3>2. CASE Tick \/ UNCHANGED vars
      <4>1. UNCHANGED <<told, late, time, text, owner, stamp, req>>
        BY <3>2 DEF Tick, vars, entries, pages
      <4> QED
        BY <2>0, <4>1 DEF Known, Excused, Working, WillRead, Included, Texts, Owners
    <3> QED
      BY <3>1, <3>2 DEF Next
  <2>2. (\A b \in Address, i \in Slot : Known(b, i))' => NothingSkipped'
    BY KnownIsNothingSkipped, PTL
  <2> QED
    BY <2>1, <2>2
<1>3. I => NothingSkipped
  OBVIOUS
<1> QED
  BY <1>1, <1>2, <1>3, PTL DEF Spec

=============================================================================
