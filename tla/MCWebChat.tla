----------------------------- MODULE MCWebChat -----------------------------
(***************************************************************************)
(* Values for the constants of WebChat.                                    *)
(***************************************************************************)
EXTENDS WebChat

CONSTANTS s1, s2, t1, t2, con, ann, bob

\* Sessions of one tab.
Apart == [t \in Tab |-> IF t = t1 THEN s1 ELSE s2]
AllNames == [c \in Tab \cup Console |-> Name]

CallsEach(k, m) == [c \in Tab \cup Console |-> IF c = t1 THEN k ELSE m]
Three == CallsEach(3, 3)
FourAndThree == CallsEach(4, 3)

Handles == Console \cup WebHandle
Positions == [n \in Name |-> IF n = ann THEN 1 ELSE 2]
=============================================================================
