-------------------------- MODULE SubscriberTable --------------------------
(***************************************************************************)
(* The array subs[MAXSUBS] of the RPC dispatchers with its counter, as the *)
(* sequence of the addresses in use.  MaxSubs is an argument because VS04  *)
(* and VS05 hold a table each.                                             *)
(***************************************************************************)
EXTENDS Naturals, Sequences

Listed(subs, a) == \E i \in DOMAIN subs : subs[i] = a

\* Mutant: an address is added again.
RegisterAgain(subs, a, max) ==
  IF Len(subs) < max THEN [code |-> "OK", subs |-> Append(subs, a)]
  ELSE [code |-> "CANNOT_REGISTER", subs |-> subs]

\* subscribe: a new address is added while there is room.  A full table is
\* reported before the address being there already.
Register(subs, a, max) ==
  IF ~Listed(subs, a) /\ Len(subs) < max THEN [code |-> "OK", subs |-> Append(subs, a)]
  ELSE IF Len(subs) = max THEN [code |-> "CANNOT_REGISTER", subs |-> subs]
  ELSE [code |-> "CLIENT_ALREADY_REGISTERED", subs |-> subs]

\* The loop over j copies subs[i + 1] to subs[i] again and again, so only that
\* one entry moves; then the last entry is dropped.
DropAt(subs, i) ==
  [k \in 1..(Len(subs) - 1) |-> IF k = i THEN subs[i + 1] ELSE subs[k]]

\* Mutant: the entry is not moved up, only the last one is dropped.
DropLast(subs, a) ==
  IF ~Listed(subs, a) THEN [code |-> "CANNOT_UNREGISTER", subs |-> subs]
  ELSE [code |-> "OK", subs |-> SubSeq(subs, 1, Len(subs) - 1)]

\* unsubscribe: the first entry with this address goes.
Unregister(subs, a) ==
  IF ~Listed(subs, a) THEN [code |-> "CANNOT_UNREGISTER", subs |-> subs]
  ELSE LET i == CHOOSE i \in DOMAIN subs :
                  subs[i] = a /\ \A j \in 1..(i - 1) : subs[j] # a
       IN  [code |-> "OK", subs |-> DropAt(subs, i)]
=============================================================================
