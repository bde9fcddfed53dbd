------------------------------ MODULE MCPubSub ------------------------------
(***************************************************************************)
(* Values for the constants of PubSub: one client on the server's host and *)
(* one elsewhere.                                                          *)
(***************************************************************************)
EXTENDS PubSub

CONSTANTS c1, c2, local, remote

Apart == [c \in Client |-> IF c = c1 THEN local ELSE remote]
EverythingOnTheMenu == MenuChoice
CallsEach == [c \in Client |-> IF c = c1 THEN 3 ELSE 1]

EveryFault == [k \in FaultKind |-> 1]
=============================================================================
