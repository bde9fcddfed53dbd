--------------------------- MODULE MCFileTransfer ---------------------------
(***************************************************************************)
(* Values for the constants of FileTransfer.  With chunk sizes 1 and 2, an *)
(* empty file, files that end in the middle of a chunk and files that end  *)
(* at a chunk boundary are all there; "gone" is not on the server.         *)
(***************************************************************************)
EXTENDS FileTransfer

Names == {"empty", "odd", "semi", "gone"}
SizeOf == [empty |-> 0, odd |-> 3, semi |-> 2]
WithDelimiter == {"semi"}
\* One file that takes several chunks and one that does not exist.
FewNames == {"odd", "gone"}
FewSizes == [odd |-> 3]

\* Client runs: two hosts of which one runs a client a second time.
CONSTANTS h1, h2
Hosts == {h1, h2}
TwiceOnFirst == [h \in Hosts |-> IF h = h1 THEN 2 ELSE 1]
TwiceAlone == [h \in {h1} |-> 2]
OnceAlone == [h \in {h1} |-> 1]

\* Two hosts, lost datagrams and attempts to reorder.
LossyFaults ==
  [k \in FaultKind |-> IF k \in {"lose", "reorder"} THEN 1 ELSE 0]

\* One host and every fault once.
EveryFault == [k \in FaultKind |-> 1]

\* A server restart and nothing else.
RestartOnly == [k \in FaultKind |-> IF k = "restart" THEN 1 ELSE 0]
=============================================================================
