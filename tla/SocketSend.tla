----------------------------- MODULE SocketSend -----------------------------
(***************************************************************************)
(* The write side of one client socket: writeSocketMessage, its queue of   *)
(* messages held back while the socket is full, and its drain listeners.   *)
(*                                                                         *)
(* Messages are numbered in the order the server sends them and have all   *)
(* the same size, so byte limits are counted in messages.  The writable    *)
(* stream under the socket is external: it accepts every write, answers    *)
(* FALSE once HighWater messages wait in it, and emits 'drain' when it has *)
(* emptied after such an answer.                                           *)
(***************************************************************************)
EXTENDS Naturals, Sequences

CONSTANTS
  MaxMessages,  \* bound: messages the server sends on this socket
  HighWater,    \* messages the stream takes before it answers FALSE
  MaxQueued     \* the cap on the queue

ASSUME SendAssumption ==
  /\ MaxMessages \in Nat
  /\ HighWater \in Nat \ {0}
  /\ MaxQueued \in Nat

VARIABLES
  out,        \* the backpressure state and the stream it feeds
  sent,       \* messages handed to the sender and not refused
  wire,       \* messages the peer has got, in order
  destroyed   \* the socket is destroyed

vars == <<out, sent, wire, destroyed>>

TypeOK ==
  /\ out \in [paused : BOOLEAN, closed : BOOLEAN, queue : Seq(1 .. MaxMessages),
              buffer : Seq(1 .. MaxMessages),
              full : BOOLEAN,       \* the last write returned false
              needDrain : BOOLEAN,  \* the stream owes a drain event
              once : Nat,           \* one-shot drain listeners
              emit : Nat]           \* listeners that the drain event still calls
  /\ sent \in 0 .. MaxMessages
  /\ wire \in Seq(1 .. MaxMessages)
  /\ destroyed \in BOOLEAN

Init ==
  /\ out = [paused |-> FALSE, closed |-> FALSE, queue |-> <<>>, buffer |-> <<>>,
            full |-> FALSE, needDrain |-> FALSE, once |-> 0,
            emit |-> 0]
  /\ sent = 0
  /\ wire = <<>>
  /\ destroyed = FALSE

------------------------------------------------------------------------------
(* Writes.  s is a state of out. *)

\* Writing the chunks in one go; a write that answers FALSE ends the run, marks
\* the sender paused and leaves a one-shot listener behind.
Written(s, chunks) ==
  LET full == Len(s.buffer) + Len(chunks) >= HighWater
  IN  [s EXCEPT !.buffer = @ \o chunks, !.full = full, !.paused = full,
                !.needDrain = @ \/ full, !.once = IF full THEN @ + 1 ELSE @]

\* how many queued messages a drain listener writes before it has to stop
Room(s) == IF Len(s.buffer) < HighWater THEN HighWater - Len(s.buffer) ELSE 1

PumpIfUnpaused(s) ==  \* fault: a listener that finds the sender paused gives up
  IF s.closed \/ s.paused THEN s ELSE [s EXCEPT !.paused = FALSE]

PumpStale(s) ==  \* fault: what was written stays queued
  IF s.closed \/ s.queue = <<>> THEN [s EXCEPT !.paused = FALSE]
  ELSE Written(s, <<Head(s.queue)>>)

\* flush and onDrain: both empty the queue into the stream until it is full
Pump(s) ==
  LET n == IF Room(s) < Len(s.queue) THEN Room(s) ELSE Len(s.queue) IN
  IF s.closed THEN s
  ELSE IF n = 0 THEN [s EXCEPT !.paused = FALSE]
  ELSE [Written(s, SubSeq(s.queue, 1, n)) EXCEPT !.queue = SubSeq(@, n + 1, Len(@))]

Closed(s) == [s EXCEPT !.closed = TRUE, !.queue = <<>>]

------------------------------------------------------------------------------
(* Actions.  While a drain event calls its listeners nothing else happens. *)

Idle == out.emit = 0

OverCap(s) == Len(s.queue) + 1 > MaxQueued

\* writeSocketMessage
Send ==
  /\ Idle /\ ~destroyed /\ sent < MaxMessages
  /\ sent' = sent + 1
  /\ \/ /\ out.paused /\ OverCap(out)
        /\ out' = Closed(out)
        /\ destroyed' = TRUE
     \/ /\ out.paused /\ ~OverCap(out)
        /\ out' = [out EXCEPT !.queue = Append(@, sent')]
        /\ UNCHANGED destroyed
     \/ /\ ~out.paused
        /\ out' = IF out.closed THEN out ELSE Written(out, <<sent'>>)
        /\ UNCHANGED destroyed
  /\ UNCHANGED wire

\* external: the kernel takes a message from the stream
Transmit ==
  /\ Idle /\ ~destroyed /\ out.buffer # <<>>
  /\ wire' = Append(wire, Head(out.buffer))
  /\ out' = [out EXCEPT !.buffer = Tail(@)]
  /\ UNCHANGED <<sent, destroyed>>

\* emit('drain') calls the permanent listener and every one-shot listener that
\* is there when the event is emitted; those it registers wait for the next one.
Drain ==
  /\ Idle /\ ~destroyed /\ out.needDrain /\ out.buffer = <<>>
  /\ out' = [out EXCEPT !.needDrain = FALSE, !.once = 0, !.emit = out.once + 1]
  /\ UNCHANGED <<sent, wire, destroyed>>

RunListener ==
  /\ ~Idle
  /\ out' = [Pump(out) EXCEPT !.emit = @ - 1]
  /\ UNCHANGED <<sent, wire, destroyed>>

\* external: the connection ends or fails
Destroy ==
  /\ Idle /\ ~destroyed
  /\ destroyed' = TRUE
  /\ UNCHANGED <<out, sent, wire>>

\* the 'close' event
Close ==
  /\ Idle /\ destroyed /\ ~out.closed
  /\ out' = Closed(out)
  /\ UNCHANGED <<sent, wire, destroyed>>

Next == Send \/ Transmit \/ Drain \/ RunListener \/ Destroy \/ Close

Spec == Init /\ [][Next]_vars

------------------------------------------------------------------------------
(* Properties *)

Channel == INSTANCE OrderedChannel WITH received <- wire, open <- ~destroyed

\* The socket is an ordered channel: however full and drained answers alternate
\* and however many listeners run on one drain, the peer gets the messages in
\* the order they were sent, none of them lost or doubled.
KeepsOrder == Channel!Spec

\* The queue never outgrows its cap, and a torn-down socket holds nothing back.
BacklogCapped ==
  /\ Len(out.queue) <= MaxQueued
  /\ out.closed => out.queue = <<>>
=============================================================================
