-------------------------- MODULE MCAuthDispatcher --------------------------
(***************************************************************************)
(* Values for the constants of AuthDispatcher.                             *)
(***************************************************************************)
EXTENDS AuthDispatcher

CONSTANTS c1, c2, c3, local, remote, third

\* One client on the server's host, the others elsewhere.
Apart == [c \in Client |-> IF c = c1 THEN local ELSE IF c = c2 THEN remote ELSE third]

Faults(t, k, r) ==
  [f \in FaultKind |-> IF f = "timeout" THEN t ELSE IF f = "kill" THEN k ELSE r]
EverythingOnTheMenu == MenuChoice

NoFault == Faults(0, 0, 0)
OneTimeout == Faults(1, 0, 0)
ClientFaults == Faults(1, 1, 0)
=============================================================================
