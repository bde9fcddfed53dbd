----------------------------- MODULE Receivers -----------------------------
(***************************************************************************)
(* The receiver processes that clients of VS04 and VS05 fork, and the port *)
(* mapper of each host, which knows one receiver: the last one registered. *)
(***************************************************************************)
EXTENDS Naturals, Sequences

CONSTANT Host      \* addresses as a dispatcher sees them

VARIABLES
  receivers,  \* all receiver processes, by pid
  portmap     \* host -> the receiver its port mapper knows, 0 for none

processVars == <<receivers, portmap>>

ReceiversTypeOK ==
  /\ receivers \in Seq([host : Host, state : {"forked", "serving", "ended"}])
  /\ portmap \in [Host -> 0..Len(receivers)]

ReceiversInit == receivers = <<>> /\ portmap = [h \in Host |-> 0]

\* The client forks a process that becomes a receiver; the new pid is Len(receivers').
Fork(h) == receivers' = Append(receivers, [host |-> h, state |-> "forked"])

\* SIGTERM, and SIGKILL five seconds later.
End(p) == receivers' = [receivers EXCEPT ![p].state = "ended"]

Running(p) == receivers[p].state # "ended"

\* main of a receiver: registered with the port mapper, then svc_run.
Starts(p) ==
  /\ receivers[p].state = "forked"
  /\ receivers' = [receivers EXCEPT ![p].state = "serving"]
  /\ portmap' = [portmap EXCEPT ![receivers[p].host] = p]

\* clnt_create finds a receiver if the one the port mapper knows still runs.
Reachable(h) == portmap[h] # 0 /\ receivers[portmap[h]].state = "serving"
=============================================================================
