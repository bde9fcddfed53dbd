------------------------------ MODULE FileCopy ------------------------------
(***************************************************************************)
(* What a file transfer promises, without a protocol: on every host a copy *)
(* grows from the front of its target by one piece at a time and is called *)
(* complete only when it is the target.                                    *)
(***************************************************************************)
EXTENDS Naturals, Sequences

CONSTANTS
  Host,
  Targets   \* what may be asked for: sequences of pieces; <<>>: no such file

VARIABLES
  target,   \* host -> the target it has asked for
  status,   \* "idle", "asked", "copying", "transmitted" or "FNF"
  copy      \* host -> the pieces it has

vars == <<target, status, copy>>

Init ==
  /\ target \in [Host -> Targets]
  /\ status = [h \in Host |-> "idle"]
  /\ copy = [h \in Host |-> <<>>]

\* A copy of some target is asked for; an older copy is left in place.
Ask(h) ==
  /\ status[h] \notin {"asked", "copying"}
  /\ status' = [status EXCEPT ![h] = "asked"]
  /\ \E t \in Targets : target' = [target EXCEPT ![h] = t]
  /\ UNCHANGED copy

Refuse(h) ==
  /\ status[h] = "asked" /\ target[h] = <<>>
  /\ status' = [status EXCEPT ![h] = "FNF"]
  /\ UNCHANGED <<target, copy>>

\* The next piece arrives; the first one replaces an older copy.
Grow(h) ==
  /\ target[h] # <<>>
  /\ \/ status[h] = "asked" /\ copy' = [copy EXCEPT ![h] = SubSeq(target[h], 1, 1)]
     \/ status[h] = "copying" /\ Len(copy[h]) < Len(target[h])
        /\ copy' = [copy EXCEPT ![h] = SubSeq(target[h], 1, Len(@) + 1)]
  /\ status' = [status EXCEPT ![h] =
                  IF copy'[h] = target[h] THEN "transmitted" ELSE "copying"]
  /\ UNCHANGED target

Next == \E h \in Host : Ask(h) \/ Refuse(h) \/ Grow(h)

Spec == Init /\ [][Next]_vars
=============================================================================

