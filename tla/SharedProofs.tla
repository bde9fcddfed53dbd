---------------------------- MODULE SharedProofs ----------------------------
(***************************************************************************)
(* Lemmas that the proofs about VS04 and VS05 share: what the operations   *)
(* on the subscriber table return, for every set S of addresses, and what  *)
(* a step does to the receiver processes.                                  *)
(***************************************************************************)
EXTENDS SubscriberTable, Receivers, FiniteSetTheorems, TLAPS

OnceEach(subs) == \A i, j \in DOMAIN subs : subs[i] = subs[j] => i = j

-----------------------------------------------------------------------------
(* Sequences.                                                              *)

LEMMA TailIndex ==
  ASSUME NEW S, NEW s \in Seq(S), s # <<>>
  PROVE  /\ DOMAIN Tail(s) = 1..(Len(s) - 1) /\ DOMAIN s = 1..Len(s) /\ Len(s) \in Nat
         /\ \A i \in DOMAIN Tail(s) : i + 1 \in DOMAIN s /\ Tail(s)[i] = s[i + 1]
OBVIOUS

LEMMA ExceptSeq ==
  ASSUME NEW S, NEW s \in Seq(S), NEW i \in 1..Len(s), NEW x \in S
  PROVE  [s EXCEPT ![i] = x] \in Seq(S) /\ Len([s EXCEPT ![i] = x]) = Len(s)
OBVIOUS

LEMMA AppendIndex ==
  ASSUME NEW S, NEW s \in Seq(S), NEW e \in S
  PROVE  /\ DOMAIN Append(s, e) = 1..(Len(s) + 1) /\ DOMAIN s = 1..Len(s) /\ Len(s) \in Nat
         /\ Append(s, e)[Len(s) + 1] = e
         /\ \A i \in DOMAIN s : Append(s, e)[i] = s[i]
OBVIOUS

-----------------------------------------------------------------------------
(* The subscriber table.                                                   *)

LEMMA RegisterResult ==
  ASSUME NEW S, NEW s \in Seq(S), NEW a \in S, NEW max \in Nat, Len(s) <= max
  PROVE  /\ Register(s, a, max).subs \in Seq(S)
         /\ Len(Register(s, a, max).subs) <= max
         /\ Register(s, a, max).code \in {"OK", "CANNOT_REGISTER", "CLIENT_ALREADY_REGISTERED"}
<1>1. CASE ~Listed(s, a) /\ Len(s) < max
  <2>1. Register(s, a, max) = [code |-> "OK", subs |-> Append(s, a)]
    BY <1>1 DEF Register
  <2>2. Append(s, a) \in Seq(S) /\ Len(Append(s, a)) <= max
    BY <1>1
  <2> QED
    BY <2>1, <2>2
<1>2. CASE ~(~Listed(s, a) /\ Len(s) < max)
  BY <1>2 DEF Register
<1> QED
  BY <1>1, <1>2

\* Whichever entry the shift loop moves, one entry less remains.
LEMMA DropAtResult ==
  ASSUME NEW S, NEW s \in Seq(S), NEW n \in Nat, Len(s) = n + 1, NEW i
  PROVE  /\ DropAt(s, i) = [k \in 1..n |-> IF k = i THEN s[i + 1] ELSE s[k]]
         /\ DropAt(s, i) \in Seq(S) /\ Len(DropAt(s, i)) = n
<1>1. DOMAIN s = 1..(n + 1) /\ Len(s) - 1 = n
  OBVIOUS
<1>2. DropAt(s, i) = [k \in 1..n |-> IF k = i THEN s[i + 1] ELSE s[k]]
  BY <1>1 DEF DropAt
<1>3. \A k \in 1..n : (IF k = i THEN s[i + 1] ELSE s[k]) \in S
  BY <1>1
<1> QED
  BY <1>2, <1>3

LEMMA UnregisterResult ==
  ASSUME NEW S, NEW s \in Seq(S), NEW a \in S
  PROVE  /\ Unregister(s, a).subs \in Seq(S)
         /\ Len(Unregister(s, a).subs) <= Len(s)
         /\ Unregister(s, a).code = IF Listed(s, a) THEN "OK" ELSE "CANNOT_UNREGISTER"
<1>1. CASE ~Listed(s, a)
  BY <1>1 DEF Unregister
<1>2. CASE Listed(s, a)
  <2> DEFINE i == CHOOSE i \in DOMAIN s : s[i] = a /\ \A j \in 1..(i - 1) : s[j] # a
  <2>1. Unregister(s, a) = [code |-> "OK", subs |-> DropAt(s, i)]
    BY <1>2 DEF Unregister
  <2>2. PICK n \in Nat : Len(s) = n + 1
    <3>1. Len(s) \in Nat /\ Len(s) # 0
      BY <1>2 DEF Listed
    <3>2. Len(s) - 1 \in Nat /\ Len(s) = (Len(s) - 1) + 1
      BY <3>1
    <3> QED
      BY <3>2
  <2> HIDE DEF i
  <2>3. DropAt(s, i) \in Seq(S) /\ Len(DropAt(s, i)) = n
    BY <2>2, DropAtResult
  <2> QED
    BY <1>2, <2>1, <2>2, <2>3
<1> QED
  BY <1>1, <1>2

\* The loop moves only one entry.  In a table of at most two addresses that is
\* all there is to move: the caller's address goes and no other.
LEMMA UnregisterFromTwo ==
  ASSUME NEW S, NEW s \in Seq(S), NEW a \in S, OnceEach(s), Len(s) <= 2
  PROVE  /\ OnceEach(Unregister(s, a).subs)
         /\ \A b \in S : Listed(Unregister(s, a).subs, b) <=> Listed(s, b) /\ b # a
<1>1. CASE ~Listed(s, a)
  BY <1>1 DEF Unregister, Listed
<1>2. CASE Listed(s, a)
  <2>1. PICK i \in DOMAIN s : s[i] = a /\ \A j \in 1..(i - 1) : s[j] # a
    <3>1. PICK i \in DOMAIN s : s[i] = a
      BY <1>2 DEF Listed
    <3>2. \A j \in 1..(i - 1) : j \in DOMAIN s /\ j # i
      BY <3>1
    <3> QED
      BY <3>1, <3>2 DEF OnceEach
  <2>2. Unregister(s, a).subs = DropAt(s, i)
    <3>1. (CHOOSE k \in DOMAIN s : s[k] = a /\ \A j \in 1..(k - 1) : s[j] # a) = i
      BY <2>1 DEF OnceEach
    <3> QED
      BY <1>2, <3>1 DEF Unregister
  <2>3. DOMAIN s = 1..Len(s) /\ Len(s) \in {1, 2}
    <3>1. DOMAIN s = 1..Len(s) /\ Len(s) \in Nat
      OBVIOUS
    <3>2. Len(s) # 0
      BY <2>1, <3>1
    <3> QED
      BY <3>1, <3>2
  <2>4. CASE Len(s) = 1
    <3>1. i = 1 /\ DOMAIN s = {1}
      BY <2>3, <2>4
    <3>2. 0 \in Nat /\ Len(s) = 0 + 1
      BY <2>4
    <3>3. Len(DropAt(s, i)) = 0 /\ DropAt(s, i) \in Seq(S)
      BY <3>2, DropAtResult
    <3>4. DOMAIN DropAt(s, i) = {}
      BY <3>3
    <3> QED
      BY <2>1, <2>2, <3>1, <3>4 DEF OnceEach, Listed
  <2>5. CASE Len(s) = 2
    <3>1. 1 \in Nat /\ Len(s) = 1 + 1 /\ DOMAIN s = {1, 2}
      BY <2>3, <2>5
    <3>2. DropAt(s, i) = [k \in 1..1 |-> IF k = i THEN s[i + 1] ELSE s[k]]
      <4>1. PICK n \in Nat : n = 1
        OBVIOUS
      <4>2. Len(s) = n + 1
        BY <3>1, <4>1
      <4>3. DropAt(s, i) = [k \in 1..n |-> IF k = i THEN s[i + 1] ELSE s[k]]
        BY <4>2, DropAtResult
      <4> QED
        BY <4>1, <4>3
    <3>3. DOMAIN DropAt(s, i) = {1} /\ DropAt(s, i)[1] = IF i = 1 THEN s[2] ELSE s[1]
      BY <3>2
    <3> QED
      BY <2>1, <2>2, <3>1, <3>3 DEF OnceEach, Listed
  <2> QED
    BY <2>3, <2>4, <2>5
<1> QED
  BY <1>1, <1>2

LEMMA Fits ==
  ASSUME NEW T, IsFiniteSet(T), NEW s \in Seq(T), OnceEach(s)
  PROVE  Len(s) <= Cardinality(T)
<1> SUFFICES ASSUME Cardinality(T) < Len(s) PROVE FALSE
  BY FS_CardinalityType
<1>1. PICK n \in Nat : n = Len(s)
  OBVIOUS
<1>2. IsFiniteSet(1..n) /\ Cardinality(1..n) = n
  BY FS_Interval
<1>3. s \in [1..n -> T] /\ DOMAIN s = 1..n
  BY <1>1
<1>4. \E x, y \in 1..n : x # y /\ s[x] = s[y]
  BY <1>1, <1>2, <1>3, FS_PigeonHole
<1> QED
  BY <1>3, <1>4 DEF OnceEach

LEMMA AppendOnce ==
  ASSUME NEW s \in Seq(Host), OnceEach(s), NEW a \in Host, ~Listed(s, a)
  PROVE  OnceEach(Append(s, a))
BY AppendIndex DEF OnceEach, Listed

LEMMA AppendListed ==
  ASSUME NEW s \in Seq(Host), NEW a \in Host
  PROVE  \A b \in Host : Listed(Append(s, a), b) <=> Listed(s, b) \/ b = a
<1>1. /\ DOMAIN Append(s, a) = 1..(Len(s) + 1) /\ DOMAIN s = 1..Len(s) /\ Len(s) \in Nat
      /\ Append(s, a)[Len(s) + 1] = a /\ \A i \in DOMAIN s : Append(s, a)[i] = s[i]
  BY AppendIndex
<1>2. \A i \in DOMAIN Append(s, a) : i = Len(s) + 1 \/ i \in DOMAIN s
  BY <1>1
<1>3. \A i \in DOMAIN s : i \in DOMAIN Append(s, a)
  BY <1>1
<1>4. Len(s) + 1 \in DOMAIN Append(s, a)
  BY <1>1
<1> QED
  BY <1>1, <1>2, <1>3, <1>4 DEF Listed

-----------------------------------------------------------------------------
(* The receivers.                                                          *)

\* Receivers that are forked, that start and that end.
LEMMA ForkEffect ==
  ASSUME ReceiversTypeOK, NEW h \in Host, Fork(h), portmap' = portmap
  PROVE  /\ ReceiversTypeOK' /\ Len(receivers') = Len(receivers) + 1 /\ Len(receivers) \in Nat
         /\ receivers'[Len(receivers')] = [host |-> h, state |-> "forked"]
         /\ \A p \in 1..Len(receivers) : receivers'[p] = receivers[p]
<1> DEFINE R == [host : Host, state : {"forked", "serving", "ended"}]
<1>1. [host |-> h, state |-> "forked"] \in R
  OBVIOUS
<1>2. receivers \in Seq(R) /\ portmap \in [Host -> 0..Len(receivers)]
  BY DEF ReceiversTypeOK
<1> HIDE DEF R
<1>3. receivers' = Append(receivers, [host |-> h, state |-> "forked"])
  BY DEF Fork
<1>4. /\ receivers' \in Seq(R) /\ Len(receivers') = Len(receivers) + 1 /\ Len(receivers) \in Nat
      /\ receivers'[Len(receivers) + 1] = [host |-> h, state |-> "forked"]
      /\ \A p \in 1..Len(receivers) : receivers'[p] = receivers[p]
  BY <1>1, <1>2, <1>3
<1>5. 0..Len(receivers) \subseteq 0..Len(receivers')
  BY <1>4
<1>6. portmap' \in [Host -> 0..Len(receivers')]
  BY <1>2, <1>5
<1> QED
  BY <1>4, <1>6 DEF ReceiversTypeOK, R

LEMMA StateChange ==
  ASSUME ReceiversTypeOK, NEW p \in 1..Len(receivers), NEW s \in {"serving", "ended"},
         receivers' = [receivers EXCEPT ![p].state = s],
         portmap' \in [Host -> 0..Len(receivers)]
  PROVE  /\ ReceiversTypeOK' /\ Len(receivers') = Len(receivers)
         /\ receivers'[p].state = s
         /\ \A q \in 1..Len(receivers) : receivers'[q].host = receivers[q].host
         /\ \A q \in 1..Len(receivers) : q # p => receivers'[q] = receivers[q]
<1> DEFINE R == [host : Host, state : {"forked", "serving", "ended"}]
<1>1. receivers \in Seq(R) /\ DOMAIN receivers = 1..Len(receivers)
  BY DEF ReceiversTypeOK
<1> HIDE DEF R
<1>2. receivers[p] \in R
  BY <1>1
<1>3. PICK x \in R : x = [receivers[p] EXCEPT !.state = s]
  BY <1>2 DEF R
<1>4. x.host = receivers[p].host /\ x.state = s
  BY <1>2, <1>3 DEF R
<1>5. receivers' = [receivers EXCEPT ![p] = x]
  BY <1>3
<1>6. receivers' \in Seq(R) /\ Len(receivers') = Len(receivers)
  <2>1. \A t \in Seq(R) : \A i \in 1..Len(t), y \in R :
          [t EXCEPT ![i] = y] \in Seq(R) /\ Len([t EXCEPT ![i] = y]) = Len(t)
    BY ExceptSeq
  <2>2. [receivers EXCEPT ![p] = x] \in Seq(R) /\ Len([receivers EXCEPT ![p] = x]) = Len(receivers)
    BY <1>1, <2>1, Zenon
  <2> QED
    BY <1>5, <2>2, Zenon
<1> QED
  BY <1>1, <1>4, <1>5, <1>6 DEF ReceiversTypeOK, R
=============================================================================
