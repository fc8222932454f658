--------------------------- MODULE OrderedChannel ---------------------------
(***************************************************************************)
(* What one direction of a connection promises: messages arrive in the     *)
(* order they were sent, none lost, doubled or overtaken.  When the        *)
(* connection closes nothing more is sent, and what was under way may be   *)
(* lost.  Messages are numbered in the order they are sent.  SocketSend    *)
(* implements it from the server to a client, Connection from a client to  *)
(* the server's handlers.                                                  *)
(***************************************************************************)
EXTENDS Naturals, Sequences

VARIABLES
  sent,      \* how many messages were sent
  received,  \* those that arrived, in order
  open       \* messages are still sent

vars == <<sent, received, open>>

\* the first n messages
UpTo(n) == [k \in 1 .. n |-> k]

Init == sent = 0 /\ received = <<>> /\ open = TRUE

Send ==
  /\ open
  /\ sent' = sent + 1
  /\ UNCHANGED <<received, open>>

Receive ==
  /\ \E n \in Len(received) + 1 .. sent : received' = UpTo(n)
  /\ UNCHANGED <<sent, open>>

\* Some messages may get through in the same step, or one be sent in vain.
Close ==
  /\ open /\ open' = FALSE
  /\ sent' \in {sent, sent + 1}
  /\ \E n \in Len(received) .. sent : received' = UpTo(n)

Next == Send \/ Receive \/ Close

Spec == Init /\ [][Next]_vars

\* What was sent arrives, unless the connection closes.
FairSpec == Spec /\ WF_vars(open /\ Receive)
=============================================================================
