--------------------------- MODULE MCChatClients ---------------------------
(***************************************************************************)
(* Values for the constants of ChatClients: the user of c1 goes by two     *)
(* names, bob has two processes, and at c2 also presses just Enter.        *)
(***************************************************************************)
EXTENDS ChatClients

CONSTANTS c1, c2, c3, ann, eve, bob

TypedNames == [c \in Client |->
  CASE c = c1 -> {ann, eve} [] c = c2 -> {bob, Empty} [] c = c3 -> {bob}]
Positions == [n \in Name |->
  CASE n = bob -> 1 [] n = ann -> 2 [] n = Empty -> 3 [] n = eve -> 4]
CallsEach == [c \in Client |-> IF c = c1 THEN 3 ELSE 2]
=============================================================================
