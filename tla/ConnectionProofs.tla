-------------------------- MODULE ConnectionProofs --------------------------
(***************************************************************************)
(* Proofs about one client connection and the write side under it, for     *)
(* every size of the stream and of the queue, every length of message, and *)
(* every limit and timeout.                                                *)
(*                                                                         *)
(* The write side (SocketSend) is well typed, its queue is capped and it   *)
(* implements an ordered channel.  What the peer has, what the stream      *)
(* holds and what is queued are three stretches of one line of messages    *)
(* (InLine).  A message sent past the queue would break the line, so the   *)
(* argument needs that nothing is queued unless the sender is paused       *)
(* (WaitsPaused): a drain listener stops only when the queue is empty or   *)
(* the stream is full again.                                               *)
(*                                                                         *)
(* The connection (Connection) moves the write side only as SocketSend     *)
(* does (WriteSide), so all of that holds of it too, and the same argument *)
(* goes for what comes in: the messages handled and those of the chunk     *)
(* being handled are the messages complete in what has arrived             *)
(* (IncomingInLine).  What has been decoded of a message has the size of   *)
(* what arrived of it while no chunk has cut its characters (Decoding), so *)
(* such a message is handed on as it was posted.  Giving a connection up leaves nothing that could run *)
(* (GivenUp), and the timers know how long the peer was silent             *)
(* (TimersKnow).                                                           *)
(***************************************************************************)
EXTENDS Connection, SequenceTheorems, FiniteSetTheorems, WellFoundedInduction, TLAPS

Messages == 1 .. MaxMessages

OutState ==
  [paused : BOOLEAN, closed : BOOLEAN, queue : Seq(Messages),
   buffer : Seq(Messages), full : BOOLEAN, needDrain : BOOLEAN,
   once : Nat, emit : Nat]

\* seq holds the messages that follow the first n ones
Follows(seq, n) == \A k \in 1 .. Len(seq) : seq[k] = n + k

OnWire == Len(wire)
Buffered == Len(out.buffer)
Queued == Len(out.queue)

InLine ==
  /\ Follows(wire, 0)
  /\ Follows(out.buffer, OnWire)
  /\ Follows(out.queue, OnWire + Buffered)
  /\ OnWire + Buffered + Queued <= sent
  /\ ~destroyed => OnWire + Buffered + Queued = sent

WaitsPaused == out.queue # <<>> => out.paused

ClosedIsDestroyed == out.closed => destroyed

EmitsOpen == out.emit > 0 => ~destroyed

IInv ==
  TypeOK /\ InLine /\ WaitsPaused /\ ClosedIsDestroyed /\ EmitsOpen /\ BacklogCapped

------------------------------------------------------------------------------

\* A stretch of a line cut in two, and two stretches joined.
LEMMA Cut ==
  ASSUME NEW S, NEW q \in Seq(S), NEW n \in 0 .. Len(q), NEW i \in Nat, Follows(q, i)
  PROVE  /\ SubSeq(q, 1, n) \in Seq(S) /\ Len(SubSeq(q, 1, n)) = n
         /\ SubSeq(q, n + 1, Len(q)) \in Seq(S)
         /\ Len(SubSeq(q, n + 1, Len(q))) = Len(q) - n
         /\ Follows(SubSeq(q, 1, n), i)
         /\ Follows(SubSeq(q, n + 1, Len(q)), i + n)
<1>1. SubSeq(q, 1, n) \in Seq(S) /\ Len(SubSeq(q, 1, n)) = n
  /\ \A k \in 1 .. n : SubSeq(q, 1, n)[k] = q[k]
  BY SMTT(30)
<1>2. /\ SubSeq(q, n + 1, Len(q)) \in Seq(S)
      /\ Len(SubSeq(q, n + 1, Len(q))) = Len(q) - n
      /\ \A k \in 1 .. Len(q) - n : SubSeq(q, n + 1, Len(q))[k] = q[n + k]
  BY SMTT(30)
<1> QED  BY <1>1, <1>2 DEF Follows

LEMMA Join ==
  ASSUME NEW S, NEW p \in Seq(S), NEW q \in Seq(S), NEW i \in Nat,
         Follows(p, i), Follows(q, i + Len(p))
  PROVE  p \o q \in Seq(S) /\ Len(p \o q) = Len(p) + Len(q) /\ Follows(p \o q, i)
<1>1. p \o q \in Seq(S) /\ Len(p \o q) = Len(p) + Len(q)
  OBVIOUS
<1>2. ASSUME NEW k \in 1 .. Len(p) + Len(q)  PROVE (p \o q)[k] = i + k
  <2>1. CASE k <= Len(p)
    <3>1. k \in 1 .. Len(p) /\ (p \o q)[k] = p[k]  BY <2>1
    <3> QED  BY <3>1 DEF Follows
  <2>2. CASE k > Len(p)
    <3>1. k - Len(p) \in 1 .. Len(q) /\ (p \o q)[k] = q[k - Len(p)]  BY <2>2
    <3> QED  BY <3>1 DEF Follows
  <2> QED  BY <2>1, <2>2
<1> QED  BY <1>1, <1>2 DEF Follows

\* What a write does to the stream.
LEMMA WrittenState ==
  ASSUME NEW s \in OutState, NEW chunks \in Seq(Messages)
  PROVE  /\ Written(s, chunks) \in OutState
         /\ Written(s, chunks).buffer = s.buffer \o chunks
         /\ Written(s, chunks).queue = s.queue
         /\ Written(s, chunks).closed = s.closed
         /\ Written(s, chunks).emit = s.emit
         /\ Written(s, chunks).paused = (Len(s.buffer) + Len(chunks) >= HighWater)
<1> DEFINE full == Len(s.buffer) + Len(chunks) >= HighWater
           line == s.buffer \o chunks
           need == s.needDrain \/ full
           once == IF full THEN s.once + 1 ELSE s.once
<1>1. s.buffer \in Seq(Messages) /\ s.once \in Nat
  BY DEF OutState
<1>2. line \in Seq(Messages) /\ once \in Nat
  BY <1>1
<1>3. Written(s, chunks) =
        [s EXCEPT !.buffer = line, !.full = full, !.paused = full,
                  !.needDrain = need, !.once = once]
  BY DEF Written
<1>4. full \in BOOLEAN /\ need \in BOOLEAN
  OBVIOUS
<1> HIDE DEF full, line, need, once
<1>5. Written(s, chunks) \in OutState
  BY <1>1, <1>2, <1>3, <1>4 DEF OutState
<1>6. /\ Written(s, chunks).buffer = line /\ Written(s, chunks).queue = s.queue
      /\ Written(s, chunks).closed = s.closed /\ Written(s, chunks).emit = s.emit
      /\ Written(s, chunks).paused = full
  BY <1>3 DEF OutState
<1> QED  BY <1>5, <1>6 DEF full, line

\* A drain listener moves the head of the queue to the end of the stream, and
\* leaves nothing in the queue unless it leaves the sender paused.
LEMMA PumpState ==
  ASSUME NEW s \in OutState, ~s.closed, NEW i \in Nat,
         Follows(s.buffer, i), Follows(s.queue, i + Len(s.buffer))
  PROVE  /\ Pump(s) \in OutState
         /\ Pump(s).closed = s.closed /\ Pump(s).emit = s.emit
         /\ Follows(Pump(s).buffer, i)
         /\ Follows(Pump(s).queue, i + Len(Pump(s).buffer))
         /\ Len(Pump(s).buffer) + Len(Pump(s).queue) = Len(s.buffer) + Len(s.queue)
         /\ Len(Pump(s).queue) <= Len(s.queue)
         /\ Pump(s).queue # <<>> => Pump(s).paused
<1> DEFINE n == IF Room(s) < Len(s.queue) THEN Room(s) ELSE Len(s.queue)
           head == SubSeq(s.queue, 1, n)
           rest == SubSeq(s.queue, n + 1, Len(s.queue))
<1>1. s.buffer \in Seq(Messages) /\ s.queue \in Seq(Messages)
  BY DEF OutState
<1>2. Room(s) \in Nat \ {0} /\ Len(s.buffer) + Room(s) >= HighWater
  <2> DEFINE b == Len(s.buffer)
  <2>1. b \in Nat /\ HighWater \in Nat \ {0}  BY <1>1, SendAssumption
  <2>2. Room(s) = IF b < HighWater THEN HighWater - b ELSE 1  BY DEF Room
  <2> HIDE DEF b
  <2>3. Room(s) \in Nat \ {0} /\ b + Room(s) >= HighWater  BY <2>1, <2>2
  <2> QED  BY <2>3 DEF b
<1>3. n \in 0 .. Len(s.queue) /\ (n < Len(s.queue) => n = Room(s))
  BY <1>1, <1>2
<1>4. CASE n = 0
  <2>1. s.queue = <<>>  BY <1>1, <1>2, <1>3, <1>4
  <2>2. Pump(s) = [s EXCEPT !.paused = FALSE]  BY <1>4 DEF Pump
  <2>3. /\ Pump(s) \in OutState
        /\ Pump(s).buffer = s.buffer /\ Pump(s).queue = s.queue
        /\ Pump(s).closed = s.closed /\ Pump(s).emit = s.emit
    BY <2>2 DEF OutState
  <2> QED  BY <2>1, <2>3, <1>1
<1>5. CASE n # 0
  <2> HIDE DEF n
  <2>1. /\ head \in Seq(Messages) /\ Len(head) = n
        /\ rest \in Seq(Messages) /\ Len(rest) = Len(s.queue) - n
        /\ Follows(head, i + Len(s.buffer)) /\ Follows(rest, i + Len(s.buffer) + n)
    <3>1. i + Len(s.buffer) \in Nat  BY <1>1
    <3> QED  BY <1>1, <1>3, <3>1, Cut
  <2>2. /\ s.buffer \o head \in Seq(Messages)
        /\ Len(s.buffer \o head) = Len(s.buffer) + n
        /\ Follows(s.buffer \o head, i)
    BY <1>1, <2>1, Join
  <2>3. Pump(s) = [Written(s, head) EXCEPT !.queue = rest]
    <3>1. Written(s, head).queue = s.queue  BY <2>1, WrittenState
    <3>2. Pump(s) = [Written(s, head) EXCEPT !.queue = SubSeq(@, n + 1, Len(@))]
      BY <1>5 DEF Pump, n
    <3> QED  BY <3>1, <3>2, WrittenState, <2>1 DEF OutState
  <2> HIDE DEF head, rest
  <2>4. /\ Pump(s) \in OutState
        /\ Pump(s).buffer = s.buffer \o head /\ Pump(s).queue = rest
        /\ Pump(s).closed = s.closed /\ Pump(s).emit = s.emit
        /\ Pump(s).paused = Written(s, head).paused
    <3> DEFINE w == Written(s, head)
    <3>1. /\ w \in OutState /\ w.buffer = s.buffer \o head
          /\ w.closed = s.closed /\ w.emit = s.emit
      BY <2>1, WrittenState
    <3>2. Pump(s) = [w EXCEPT !.queue = rest]  BY <2>3
    <3> HIDE DEF w
    <3>3. Pump(s) \in OutState  BY <2>1, <3>1, <3>2 DEF OutState
    <3>4. /\ Pump(s).buffer = w.buffer /\ Pump(s).queue = rest
          /\ Pump(s).closed = w.closed /\ Pump(s).emit = w.emit
          /\ Pump(s).paused = w.paused
      BY <3>1, <3>2 DEF OutState
    <3> QED  BY <3>1, <3>3, <3>4 DEF w
  <2>5. rest # <<>> => Written(s, head).paused
    <3>1. rest # <<>> => n = Room(s)  BY <1>3, <2>1, <1>1
    <3> QED  BY <3>1, <1>1, <1>2, <2>1, WrittenState, SendAssumption
  <2>6. /\ Len(Pump(s).buffer) = Len(s.buffer) + n
        /\ Len(Pump(s).queue) = Len(s.queue) - n
        /\ i + Len(Pump(s).buffer) = i + Len(s.buffer) + n
    BY <1>1, <1>3, <2>1, <2>2, <2>4
  <2>7. Follows(Pump(s).buffer, i) /\ Follows(Pump(s).queue, i + Len(Pump(s).buffer))
    BY <2>1, <2>2, <2>4, <2>6
  <2>8. /\ Len(Pump(s).buffer) + Len(Pump(s).queue) = Len(s.buffer) + Len(s.queue)
        /\ Len(Pump(s).queue) <= Len(s.queue)
    <3> DEFINE b == Len(s.buffer)
               q == Len(s.queue)
    <3>1. b \in Nat /\ q \in Nat /\ n \in 0 .. q  BY <1>1, <1>3
    <3>2. Len(Pump(s).buffer) = b + n /\ Len(Pump(s).queue) = q - n  BY <2>6
    <3> HIDE DEF b, q
    <3>3. /\ Len(Pump(s).buffer) + Len(Pump(s).queue) = b + q
          /\ Len(Pump(s).queue) <= q
      BY <3>1, <3>2
    <3> QED  BY <3>3 DEF b, q
  <2> QED  BY <2>4, <2>5, <2>7, <2>8
<1> QED  BY <1>4, <1>5

------------------------------------------------------------------------------

LEMMA Nothing == <<>> \in Seq(Messages) /\ Len(<<>>) = 0
OBVIOUS

LEMMA InitInv == Init => IInv
<1> SUFFICES ASSUME Init PROVE IInv
  OBVIOUS
<1>1. /\ out.queue = <<>> /\ out.buffer = <<>> /\ ~out.closed /\ out.emit = 0
      /\ sent = 0 /\ wire = <<>> /\ ~destroyed /\ destroyed \in BOOLEAN
  BY DEF Init
<1>2. out \in OutState
  BY Nothing DEF Init, OutState
<1>3. TypeOK
  BY <1>1, <1>2, Nothing, SendAssumption DEF TypeOK, OutState, Messages
<1> QED
  BY <1>1, <1>3, Nothing, SendAssumption DEF IInv, InLine, Follows, WaitsPaused,
     ClosedIsDestroyed, EmitsOpen, BacklogCapped, OnWire, Buffered, Queued

\* The facts about a state that the steps below start from.
Sizes ==
  /\ OnWire \in Nat /\ Buffered \in Nat /\ Queued \in Nat /\ sent \in Nat
  /\ MaxQueued \in Nat

Typed ==
  /\ out \in OutState /\ destroyed \in BOOLEAN
  /\ wire \in Seq(Messages) /\ Len(wire) = OnWire
  /\ out.buffer \in Seq(Messages) /\ Len(out.buffer) = Buffered
  /\ out.queue \in Seq(Messages) /\ Len(out.queue) = Queued

LEMMA Facts == IInv => Typed /\ Sizes
BY SendAssumption
DEF IInv, TypeOK, OutState, Messages, Typed, Sizes, OnWire, Buffered, Queued

LEMMA NextType ==
  ASSUME out' \in OutState, sent' \in 0 .. MaxMessages, wire' \in Seq(Messages),
         destroyed' \in BOOLEAN
  PROVE  TypeOK'
BY DEF TypeOK, OutState, Messages

\* How the line looks after a step that keeps the wire.
LEMMA NextLine ==
  ASSUME IInv, wire' = wire, NEW b \in Seq(Messages), NEW q \in Seq(Messages),
         out'.buffer = b, out'.queue = q,
         Follows(b, OnWire), Follows(q, OnWire + Len(b)),
         OnWire + Len(b) + Len(q) <= sent',
         ~destroyed' => OnWire + Len(b) + Len(q) = sent'
  PROVE  InLine'
<1>1. Follows(wire, 0)  BY DEF IInv, InLine
<1>2. OnWire' = OnWire /\ Buffered' = Len(b) /\ Queued' = Len(q)
  BY DEF OnWire, Buffered, Queued
<1>3. Follows(wire, 0)' /\ Follows(out.buffer, OnWire)' /\ Follows(out.queue, OnWire + Buffered)'
  BY <1>1, <1>2 DEF Follows
<1> QED  BY <1>2, <1>3 DEF InLine

\* The parts of the invariant that speak of flags, after a step.
LEMMA NextFlags ==
  ASSUME NEW q \in Seq(Messages), out'.queue = q, Len(q) <= MaxQueued,
         q # <<>> => out'.paused, out'.closed => destroyed' /\ q = <<>>,
         out'.emit > 0 => ~destroyed'
  PROVE  WaitsPaused' /\ ClosedIsDestroyed' /\ EmitsOpen' /\ BacklogCapped'
BY DEF WaitsPaused, ClosedIsDestroyed, EmitsOpen, BacklogCapped

\* A message more, written at once, queued, or lost with the connection.
LEMMA SendInv == ASSUME IInv, Send PROVE IInv'
<1>t. Typed  BY Facts
<1>s. Sizes  BY Facts
<1>1. /\ sent < MaxMessages /\ sent' = sent + 1 /\ out.emit = 0 /\ ~destroyed
      /\ ~out.closed /\ wire' = wire
  BY DEF Send, Idle, IInv, ClosedIsDestroyed
<1>2. sent + 1 \in Messages /\ sent' \in 0 .. MaxMessages
  BY <1>s, <1>1, SendAssumption DEF Sizes, Messages
<1>3. OnWire + Buffered + Queued = sent
  BY <1>1 DEF IInv, InLine
<1>4. Follows(out.buffer, OnWire) /\ Follows(out.queue, OnWire + Buffered)
  BY DEF IInv, InLine
<1>5. CASE out.paused /\ OverCap(out)
  <2>1. out' = [out EXCEPT !.closed = TRUE, !.queue = <<>>] /\ destroyed' = TRUE
    BY <1>5 DEF Send, Closed
  <2>2. /\ out' \in OutState /\ out'.queue = <<>> /\ out'.buffer = out.buffer
        /\ out'.emit = out.emit
    BY <2>1, <1>t, Nothing DEF OutState, Typed
  <2>3. Follows(<<>>, OnWire + Buffered)
    BY DEF Follows
  <2>4. OnWire + Buffered + 0 <= sent + 1
    BY <1>3, <1>s DEF Sizes
  <2>5. InLine'
    BY <1>1, <1>4, <1>t, <2>1, <2>2, <2>3, <2>4, Nothing, NextLine DEF Typed
  <2>6. TypeOK'
    BY <1>1, <1>2, <1>t, <2>1, <2>2, NextType DEF Typed
  <2>7. Len(<<>>) <= MaxQueued /\ ~(out'.emit > 0)
    BY <1>1, <2>2, Nothing, SendAssumption
  <2>8. WaitsPaused' /\ ClosedIsDestroyed' /\ EmitsOpen' /\ BacklogCapped'
    BY <2>1, <2>2, <2>7, Nothing, NextFlags
  <2> QED
    BY <2>5, <2>6, <2>8 DEF IInv
<1>6. CASE out.paused /\ ~OverCap(out)
  <2> DEFINE q == Append(out.queue, sent + 1)
  <2>1. out' = [out EXCEPT !.queue = q] /\ destroyed' = destroyed
    BY <1>1, <1>6 DEF Send
  <2>2. /\ q \in Seq(Messages) /\ Len(q) = Queued + 1
        /\ \A k \in 1 .. Queued : q[k] = out.queue[k]
        /\ q[Queued + 1] = sent + 1
    BY <1>t, <1>2 DEF Typed
  <2> HIDE DEF q
  <2>3. /\ out' \in OutState /\ out'.queue = q /\ out'.buffer = out.buffer
        /\ out'.emit = out.emit /\ out'.paused /\ out'.closed = out.closed
    BY <1>6, <1>t, <2>1, <2>2 DEF OutState, Typed
  <2>4. Follows(q, OnWire + Buffered)
    <3>1. \A k \in 1 .. Queued : q[k] = OnWire + Buffered + k
      BY <1>t, <1>4, <2>2 DEF Follows, Typed
    <3>2. q[Queued + 1] = OnWire + Buffered + (Queued + 1)
      BY <1>s, <1>3, <2>2 DEF Sizes
    <3>3. \A k \in 1 .. Len(q) : k \in 1 .. Queued \/ k = Queued + 1
      BY <1>s, <2>2 DEF Sizes
    <3> QED  BY <3>1, <3>2, <3>3 DEF Follows
  <2>5. OnWire + Buffered + Len(q) = sent + 1
    BY <1>s, <1>3, <2>2 DEF Sizes
  <2>6. Len(q) <= MaxQueued
    <3>1. ~(Queued + 1 > MaxQueued)  BY <1>6, <1>t DEF OverCap, Typed
    <3> QED  BY <1>s, <2>2, <3>1 DEF Sizes
  <2>7. InLine'
    <3>1. OnWire + Buffered + Len(q) <= sent + 1  BY <1>s, <2>5 DEF Sizes
    <3> QED
      BY <1>1, <1>4, <1>t, <2>1, <2>2, <2>3, <2>4, <2>5, <3>1, NextLine DEF Typed
  <2>8. TypeOK'
    BY <1>1, <1>2, <1>t, <2>1, <2>3, NextType DEF Typed
  <2> QED
    BY <1>1, <2>1, <2>2, <2>3, <2>6, <2>7, <2>8, NextFlags DEF IInv
<1>7. CASE ~out.paused
  <2> DEFINE new == <<sent + 1>>
             w == Written(out, new)
  <2>1. out' = w /\ destroyed' = destroyed
    BY <1>1, <1>7 DEF Send
  <2>2. out.queue = <<>> /\ Queued = 0
    BY <1>7, Nothing DEF IInv, WaitsPaused, Queued
  <2>3. new \in Seq(Messages) /\ Len(new) = 1 /\ new[1] = sent + 1
    BY <1>2
  <2> HIDE DEF new
  <2>4. /\ w \in OutState /\ w.buffer = out.buffer \o new
        /\ w.queue = <<>> /\ w.closed = out.closed /\ w.emit = out.emit
    BY <1>t, <2>2, <2>3, WrittenState DEF Typed
  <2>5. Follows(new, OnWire + Buffered)
    <3>1. sent + 1 = OnWire + Buffered + 1  BY <1>s, <1>3, <2>2 DEF Sizes
    <3> QED  BY <2>3, <3>1 DEF Follows
  <2> DEFINE b == out.buffer \o new
  <2>6. b \in Seq(Messages) /\ Len(b) = Buffered + 1 /\ Follows(b, OnWire)
    <3>1. OnWire \in Nat  BY <1>s DEF Sizes
    <3> QED  BY <1>t, <1>4, <2>3, <2>5, <3>1, Join DEF Typed
  <2> HIDE DEF w, b
  <2>7. out'.buffer = b /\ out'.queue = <<>>
    BY <2>1, <2>4 DEF b
  <2>8. OnWire + Len(b) + 0 = sent + 1 /\ OnWire + Len(b) + 0 <= sent + 1
    BY <1>s, <1>3, <2>2, <2>6 DEF Sizes
  <2>9. InLine'
    <3>1. Follows(<<>>, OnWire + Len(b))  BY DEF Follows
    <3> QED  BY <1>1, <2>1, <2>6, <2>7, <2>8, <3>1, Nothing, NextLine
  <2>10. TypeOK'
    BY <1>1, <1>2, <1>t, <2>1, <2>4, NextType DEF Typed
  <2>11. 0 <= MaxQueued
    BY SendAssumption
  <2> QED
    BY <1>1, <2>1, <2>4, <2>7, <2>9, <2>10, <2>11, Nothing, NextFlags DEF IInv
<1> QED
  BY <1>5, <1>6, <1>7

\* The first message of the stream becomes the last one of the wire.
LEMMA TransmitInv == ASSUME IInv, Transmit PROVE IInv'
<1>t. Typed  BY Facts
<1>s. Sizes  BY Facts
<1>1. /\ out.emit = 0 /\ ~destroyed /\ out.buffer # <<>>
      /\ wire' = Append(wire, Head(out.buffer))
      /\ out' = [out EXCEPT !.buffer = Tail(@)] /\ sent' = sent /\ destroyed' = destroyed
  BY DEF Transmit, Idle
<1>2. /\ Follows(wire, 0) /\ Follows(out.buffer, OnWire)
      /\ Follows(out.queue, OnWire + Buffered) /\ OnWire + Buffered + Queued = sent
  BY <1>1 DEF IInv, InLine
<1> DEFINE b == Tail(out.buffer)
           h == Head(out.buffer)
<1>3. /\ h \in Messages /\ h = out.buffer[1] /\ Buffered >= 1
      /\ b \in Seq(Messages) /\ Len(b) = Buffered - 1
      /\ \A k \in 1 .. Buffered - 1 : b[k] = out.buffer[k + 1]
  BY <1>1, <1>t DEF Typed
<1>4. h = OnWire + 1
  <2>1. 1 \in 1 .. Buffered  BY <1>3, <1>s DEF Sizes
  <2> QED  BY <1>t, <1>2, <1>3, <2>1 DEF Follows, Typed
<1> HIDE DEF b, h
<1>5. /\ wire' \in Seq(Messages) /\ OnWire' = OnWire + 1
      /\ \A k \in 1 .. OnWire : wire'[k] = wire[k]
      /\ wire'[OnWire + 1] = h
  BY <1>1, <1>3, <1>t DEF Typed, OnWire, h
<1>6. Follows(wire, 0)'
  <2>1. Len(wire') = OnWire + 1  BY <1>5 DEF OnWire
  <2>2. \A k \in 1 .. OnWire : wire'[k] = 0 + k
    BY <1>t, <1>2, <1>5 DEF Follows, Typed
  <2>3. wire'[OnWire + 1] = 0 + (OnWire + 1)
    BY <1>4, <1>5, <1>s DEF Sizes
  <2>4. \A k \in 1 .. OnWire + 1 : k \in 1 .. OnWire \/ k = OnWire + 1
    BY <1>s DEF Sizes
  <2> QED  BY <2>1, <2>2, <2>3, <2>4 DEF Follows
<1>7. \A k \in 1 .. Len(b) : b[k] = OnWire + 1 + k
  <2> TAKE k \in 1 .. Len(b)
  <2>1. k + 1 \in 1 .. Buffered /\ k \in 1 .. Buffered - 1  BY <1>3, <1>s DEF Sizes
  <2>2. b[k] = OnWire + (k + 1)  BY <1>t, <1>2, <1>3, <2>1 DEF Follows, Typed
  <2> QED  BY <1>s, <2>1, <2>2 DEF Sizes
<1>8. /\ out' \in OutState /\ out'.buffer = b /\ out'.queue = out.queue
      /\ out'.paused = out.paused /\ out'.closed = out.closed /\ out'.emit = out.emit
  BY <1>1, <1>3, <1>t DEF OutState, b, Typed
<1>9. Buffered' = Buffered - 1 /\ Queued' = Queued
  BY <1>3, <1>8 DEF Buffered, Queued
<1>10. OnWire' + Buffered' = OnWire + Buffered
  BY <1>s, <1>5, <1>9 DEF Sizes
<1>11. InLine'
  <2>1. Follows(out.buffer, OnWire)'  BY <1>5, <1>7, <1>8 DEF Follows
  <2>2. Follows(out.queue, OnWire + Buffered)'  BY <1>2, <1>8, <1>10 DEF Follows
  <2>3. (OnWire + Buffered + Queued)' = sent' /\ sent' \in Nat
    BY <1>1, <1>2, <1>9, <1>10, <1>s DEF Sizes
  <2>4. (OnWire + Buffered + Queued)' <= sent'
    BY <2>3
  <2> QED  BY <1>6, <2>1, <2>2, <2>3, <2>4 DEF InLine
<1>12. TypeOK'
  <2>1. sent \in 0 .. MaxMessages  BY DEF IInv, TypeOK
  <2> QED  BY <1>1, <1>5, <1>8, <1>t, <2>1, NextType DEF Typed
<1> QED
  BY <1>1, <1>8, <1>11, <1>12 DEF IInv, WaitsPaused, ClosedIsDestroyed, EmitsOpen, BacklogCapped

\* The event itself moves no message.
LEMMA DrainInv == ASSUME IInv, Drain PROVE IInv'
<1>t. Typed  BY Facts
<1>1. /\ ~destroyed /\ wire' = wire /\ sent' = sent /\ destroyed' = destroyed
      /\ out' = [out EXCEPT !.needDrain = FALSE, !.once = 0, !.emit = out.once + 1]
  BY DEF Drain
<1>2. out.once + 1 \in Nat
  BY <1>t DEF Typed, OutState
<1>3. /\ out' \in OutState /\ out'.buffer = out.buffer /\ out'.queue = out.queue
      /\ out'.paused = out.paused /\ out'.closed = out.closed
  BY <1>1, <1>2, <1>t DEF OutState, Typed
<1>4. TypeOK'
  <2>1. sent \in 0 .. MaxMessages  BY DEF IInv, TypeOK
  <2> QED  BY <1>1, <1>3, <1>t, <2>1, NextType DEF Typed
<1>5. InLine'
  BY <1>1, <1>3 DEF IInv, InLine, Follows, OnWire, Buffered, Queued
<1> QED
  BY <1>1, <1>3, <1>4, <1>5 DEF IInv, WaitsPaused, ClosedIsDestroyed, EmitsOpen, BacklogCapped

\* A listener moves the head of the queue to the stream.
LEMMA RunListenerInv == ASSUME IInv, RunListener PROVE IInv'
<1>t. Typed  BY Facts
<1>s. Sizes  BY Facts
<1> DEFINE p == Pump(out)
<1>1. /\ out.emit # 0 /\ wire' = wire /\ sent' = sent /\ destroyed' = destroyed
      /\ out' = [p EXCEPT !.emit = @ - 1]
  BY DEF RunListener, Idle
<1>2. out.emit \in Nat /\ out.emit > 0
  BY <1>t, <1>1 DEF Typed, OutState
<1>3. ~destroyed /\ ~out.closed
  BY <1>2 DEF IInv, EmitsOpen, ClosedIsDestroyed
<1>4. Follows(out.buffer, OnWire) /\ Follows(out.queue, OnWire + Buffered)
  BY DEF IInv, InLine
<1>5. /\ p \in OutState /\ p.closed = out.closed /\ p.emit = out.emit
      /\ Follows(p.buffer, OnWire) /\ Follows(p.queue, OnWire + Len(p.buffer))
      /\ Len(p.buffer) + Len(p.queue) = Buffered + Queued
      /\ Len(p.queue) <= Queued
      /\ p.queue # <<>> => p.paused
  <2>1. OnWire \in Nat  BY <1>s DEF Sizes
  <2> QED  BY <1>3, <1>4, <1>t, <2>1, PumpState DEF Typed
<1> HIDE DEF p
<1> DEFINE b == p.buffer
           q == p.queue
<1>6. b \in Seq(Messages) /\ q \in Seq(Messages) /\ Len(b) \in Nat /\ Len(q) \in Nat
  BY <1>5 DEF OutState
<1>7. p.emit - 1 \in Nat
  BY <1>2, <1>5
<1>8. /\ out' \in OutState /\ out'.buffer = b /\ out'.queue = q
      /\ out'.paused = p.paused /\ out'.closed = p.closed
  BY <1>1, <1>5, <1>7 DEF OutState
<1>9. Len(q) <= MaxQueued
  <2>1. Queued <= MaxQueued  BY <1>t DEF IInv, BacklogCapped, Typed
  <2>2. MaxQueued \in Nat /\ Queued \in Nat  BY <1>s DEF Sizes
  <2>3. Len(q) <= Queued  BY <1>5
  <2> HIDE DEF q
  <2> QED  BY <1>6, <2>1, <2>2, <2>3
<1>10. InLine'
  <2>1. OnWire + Len(b) + Len(q) = sent
    <3>1. OnWire + Buffered + Queued = sent  BY <1>3 DEF IInv, InLine
    <3>2. Len(b) + Len(q) = Buffered + Queued  BY <1>5
    <3>3. Len(b) \in Nat /\ Len(q) \in Nat  BY <1>6
    <3> HIDE DEF b, q
    <3> QED  BY <1>s, <3>1, <3>2, <3>3 DEF Sizes
  <2>2. OnWire + Len(b) + Len(q) <= sent
    <3>1. Len(b) \in Nat /\ Len(q) \in Nat  BY <1>6
    <3> HIDE DEF b, q
    <3> QED  BY <2>1, <3>1, <1>s DEF Sizes
  <2>3. Follows(b, OnWire) /\ Follows(q, OnWire + Len(b))
    BY <1>5
  <2> HIDE DEF b, q
  <2> QED  BY <1>1, <1>6, <1>8, <2>1, <2>2, <2>3, NextLine
<1>11. TypeOK'
  <2>1. sent \in 0 .. MaxMessages  BY DEF IInv, TypeOK
  <2> QED  BY <1>1, <1>8, <1>t, <2>1, NextType DEF Typed
<1>12. q # <<>> => out'.paused
  BY <1>5, <1>8
<1>13. ~out'.closed /\ ~destroyed'
  BY <1>1, <1>3, <1>5, <1>8
<1> HIDE DEF b, q
<1> QED
  BY <1>6, <1>8, <1>9, <1>10, <1>11, <1>12, <1>13, NextFlags DEF IInv

\* The end of the connection, and the event that follows it.
LEMMA DestroyInv == ASSUME IInv, Destroy PROVE IInv'
<1>t. Typed  BY Facts
<1>1. /\ out.emit = 0 /\ destroyed' = TRUE /\ sent' = sent /\ wire' = wire /\ out' = out
  BY DEF Destroy, Idle
<1>2. TypeOK'
  BY <1>1 DEF IInv, TypeOK
<1>3. InLine'
  BY <1>1 DEF IInv, InLine, OnWire, Buffered, Queued
<1> QED
  BY <1>1, <1>2, <1>3 DEF IInv, WaitsPaused, ClosedIsDestroyed, EmitsOpen, BacklogCapped

LEMMA CloseInv == ASSUME IInv, Close PROVE IInv'
<1>t. Typed  BY Facts
<1>s. Sizes  BY Facts
<1>1. /\ out' = [out EXCEPT !.closed = TRUE, !.queue = <<>>] /\ destroyed
      /\ out.emit = 0 /\ destroyed' = destroyed /\ sent' = sent /\ wire' = wire
  BY DEF Close, Closed, Idle
<1>2. /\ out' \in OutState /\ out'.queue = <<>> /\ out'.buffer = out.buffer
      /\ out'.emit = out.emit
  BY <1>1, <1>t, Nothing DEF OutState, Typed
<1>3. OnWire + Buffered + 0 <= sent
  <2>1. OnWire + Buffered + Queued <= sent  BY DEF IInv, InLine
  <2> QED  BY <2>1, <1>s DEF Sizes
<1>4. InLine'
  <2>1. Follows(<<>>, OnWire + Buffered) /\ Follows(out.buffer, OnWire)
    BY DEF Follows, IInv, InLine
  <2> QED  BY <1>1, <1>2, <1>3, <1>t, <2>1, Nothing, NextLine DEF Typed
<1>5. TypeOK'
  <2>1. sent \in 0 .. MaxMessages  BY DEF IInv, TypeOK
  <2> QED  BY <1>1, <1>2, <1>t, <2>1, NextType DEF Typed
<1>6. Len(<<>>) <= MaxQueued /\ ~(out'.emit > 0)
  BY <1>1, <1>2, Nothing, SendAssumption
<1>7. WaitsPaused' /\ ClosedIsDestroyed' /\ EmitsOpen' /\ BacklogCapped'
  BY <1>1, <1>2, <1>6, Nothing, NextFlags
<1> QED
  BY <1>4, <1>5, <1>7 DEF IInv

LEMMA NextInv == ASSUME IInv, [Next]_vars PROVE IInv'
<1>1. CASE UNCHANGED vars
  BY <1>1 DEF vars, IInv, TypeOK, InLine, OnWire, Buffered, Queued, WaitsPaused,
     ClosedIsDestroyed, EmitsOpen, BacklogCapped
<1> QED
  BY <1>1, SendInv, TransmitInv, DrainInv, RunListenerInv, DestroyInv, CloseInv DEF Next

\* The backpressure state and what the peer got are well typed.
THEOREM TypeCorrect == Spec => []TypeOK
<1>1. IInv => TypeOK  BY DEF IInv
<1> QED  BY <1>1, InitInv, NextInv, PTL DEF Spec

\* The backlog of a slow peer stays below the cap, whatever the cap is, and a
\* socket that is torn down holds nothing back.
THEOREM BacklogAlwaysCapped == Spec => []BacklogCapped
<1>1. IInv => BacklogCapped  BY DEF IInv
<1> QED  BY <1>1, InitInv, NextInv, PTL DEF Spec

------------------------------------------------------------------------------

\* A line of messages is what the channel calls the first ones.
LEMMA Line ==
  ASSUME NEW w \in Seq(Messages), Follows(w, 0)
  PROVE  w = Channel!UpTo(Len(w))
<1>1. w = [k \in 1 .. Len(w) |-> w[k]]
  OBVIOUS
<1>2. \A k \in 1 .. Len(w) : w[k] = k
  BY DEF Follows
<1> QED  BY <1>1, <1>2 DEF Channel!UpTo

LEMMA WireLine == IInv => wire = Channel!UpTo(Len(wire)) /\ Len(wire) \in 0 .. sent
<1> SUFFICES ASSUME IInv PROVE wire = Channel!UpTo(Len(wire)) /\ Len(wire) \in 0 .. sent
  OBVIOUS
<1>1. Typed /\ Sizes  BY Facts
<1>2. wire = Channel!UpTo(Len(wire))  BY <1>1, Line DEF Typed, IInv, InLine
<1>3. OnWire \in 0 .. sent
  <2>1. OnWire + Buffered + Queued <= sent  BY DEF IInv, InLine
  <2> QED  BY <1>1, <2>1 DEF Sizes
<1> QED  BY <1>2, <1>3 DEF OnWire

\* Every step of the sender is a step of the ordered channel, or none.
LEMMA ChannelStep == ASSUME IInv, IInv', [Next]_vars PROVE [Channel!Next]_(Channel!vars)
<1>1. wire = Channel!UpTo(Len(wire)) /\ Len(wire) \in 0 .. sent
  BY WireLine
<1>2. Len(wire) \in Len(wire) .. sent
  BY <1>1
<1>3. CASE Send
  <2>1. /\ ~destroyed /\ sent' = sent + 1 /\ wire' = wire
        /\ destroyed' = TRUE \/ destroyed' = destroyed
    BY <1>3 DEF Send
  <2>2. CASE destroyed' = destroyed
    BY <2>1, <2>2 DEF Channel!Next, Channel!Send
  <2>3. CASE destroyed' = TRUE
    BY <2>1, <2>3, <1>1, <1>2 DEF Channel!Next, Channel!Close
  <2> QED  BY <2>1, <2>2, <2>3
<1>4. CASE Transmit
  <2>1. /\ ~destroyed /\ sent' = sent /\ destroyed' = destroyed
        /\ wire' = Append(wire, Head(out.buffer))
    BY <1>4 DEF Transmit
  <2>2. wire' = Channel!UpTo(Len(wire')) /\ Len(wire') \in 0 .. sent'
    <3>1. (wire = Channel!UpTo(Len(wire)) /\ Len(wire) \in 0 .. sent)'  BY WireLine, PTL
    <3> QED  BY <3>1
  <2>3. Len(wire') = Len(wire) + 1
    <3>1. wire \in Seq(Messages)  BY Facts DEF Typed
    <3> QED  BY <2>1, <3>1
  <2>4. Len(wire) + 1 \in Len(wire) + 1 .. sent
    BY <1>1, <2>1, <2>2, <2>3
  <2> QED  BY <2>1, <2>2, <2>3, <2>4 DEF Channel!Next, Channel!Receive
<1>5. CASE Destroy
  <2>1. ~destroyed /\ destroyed' = TRUE /\ sent' = sent /\ wire' = wire
    BY <1>5 DEF Destroy
  <2> QED  BY <2>1, <1>1, <1>2 DEF Channel!Next, Channel!Close
<1>6. CASE Drain \/ RunListener \/ Close \/ UNCHANGED vars
  BY <1>6 DEF Drain, RunListener, Close, vars, Channel!vars
<1> QED
  BY <1>3, <1>4, <1>5, <1>6 DEF Next

\* The write side of a socket implements an ordered channel: for every size of
\* the stream and of the queue, the peer gets what was sent, in order, none of
\* it lost or doubled while the connection lasts.
THEOREM Implements == Spec => KeepsOrder
<1>1. Init => Channel!Init
  BY DEF Init, Channel!Init
<1>2. Spec => []IInv
  BY InitInv, NextInv, PTL DEF Spec
<1> QED
  BY <1>1, <1>2, ChannelStep, PTL DEF Spec, KeepsOrder, Channel!Spec

------------------------------------------------------------------------------
(* The connection.  Where messages end is a recursive function, and that it is *)
(* defined everywhere, and which messages a stretch of the stream completes,   *)
(* are proved by looking for a smallest counterexample.                        *)

\* the messages handled and those of the chunk being handled are the first ones
IncomingInLine ==
  /\ Follows(conn.handled, 0)
  /\ Follows(conn.batch, Len(conn.handled))
  /\ Len(conn.handled) + Len(conn.batch) <= conn.posted
  /\ ~conn.gone => Len(conn.handled) + Len(conn.batch) = Complete(conn.arrived)

\* A connection that was given up once has nothing left that may run.
GivenUp ==
  /\ conn.gone => conn.batch = <<>> /\ ka.left = 0 /\ ka.retry = 0
  /\ conn.releases = IF conn.gone THEN 1 ELSE 0

\* The timers know how long the peer has been silent.
TimersKnow ==
  ~conn.gone /\ ~conn.ended =>
    \/ /\ ~ka.isRetry /\ ka.retriesUsed = 0 /\ ka.left > 0
       /\ ka.silence = InitialTimeout - ka.left
    \/ /\ ka.isRetry /\ ka.left = 0 /\ ka.retry = 1 /\ ka.retriesUsed < RetryCount
       /\ ka.silence = InitialTimeout + ka.retriesUsed

ConnInv ==
  /\ IInv /\ ConnTypeOK /\ conn.arrived <= Ends[conn.posted]
  /\ IncomingInLine /\ GivenUp /\ TimersKnow

------------------------------------------------------------------------------
(* Numbers *)

LEMMA Smallest ==
  ASSUME NEW T, T \subseteq Nat, T # {}
  PROVE  \E x \in T : \A y \in T : x <= y
<1> DEFINE R == OpToRel(<, Nat)
<1>1. IsWellFoundedOn(R, Nat)
  BY NatLessThanWellFounded
<1>2. R = {ss \in Nat \X Nat : ss[1] < ss[2]}
  BY DEF OpToRel
<1> HIDE DEF R
<1>3. PICK x \in T : \A y \in T : ~ (<<y, x>> \in R)
  BY <1>1, WFMin
<1>4. \A y \in T : <<y, x>> \in Nat \X Nat /\ ~(y < x)
  BY <1>2, <1>3
<1>5. x \in Nat
  OBVIOUS
<1>6. ASSUME NEW y \in T PROVE x <= y
  <2>1. ~(y < x)
    BY <1>4
  <2>2. y \in Nat
    OBVIOUS
  <2> HIDE <1>4
  <2> QED BY <1>5, <2>1, <2>2
<1> QED BY <1>6

\* What holds of 0 and passes on up to n holds of all numbers up to n.
LEMMA Upwards ==
  ASSUME NEW n \in Nat, NEW S, 0 \in S, \A k \in 0 .. n - 1 : k \in S => k + 1 \in S
  PROVE  0 .. n \subseteq S
<1> DEFINE T == (0 .. n) \ S
<1> SUFFICES ASSUME T # {} PROVE FALSE
  OBVIOUS
<1>1. T \subseteq Nat /\ \A y : y \in T <=> y \in 0 .. n /\ y \notin S
  OBVIOUS
<1> HIDE DEF T
<1>2. PICK x \in T : \A y \in T : x <= y
  BY <1>1, Smallest
<1>3. x \in 0 .. n /\ x # 0 /\ x \notin S
  BY <1>1, <1>2
<1>4. x - 1 \in 0 .. n - 1 /\ x - 1 \in 0 .. n /\ x = (x - 1) + 1 /\ ~(x <= x - 1)
  BY <1>3
<1>5. x - 1 \in S
  BY <1>1, <1>2, <1>4
<1> QED BY <1>3, <1>4, <1>5

LEMMA Sums ==
  \A x, y, z \in Nat : x + y <= z => x <= z /\ y <= z /\ x + y <= z + 1
OBVIOUS

LEMMA Bounds ==
  /\ MaxPosted \in Nat /\ MaxLength \in Nat /\ RetryCount \in Nat /\ RetryCount > 0
  /\ InitialTimeout \in Nat /\ InitialTimeout > 1 /\ Deadline \in Nat
  /\ \A n \in 1 .. MaxPosted : Lengths[n] \in Nat /\ Lengths[n] > 0
BY ConnectionAssumption DEF MaxPosted, Deadline

\* The recursion that says where messages end goes through.
LEMMA EndsDefined ==
  Ends = [n \in 0 .. MaxPosted |-> IF n = 0 THEN 0 ELSE Ends[n - 1] + Lengths[n]]
<1> DEFINE Upto(f, k) == f = [n \in 0 .. k |-> IF n = 0 THEN 0 ELSE f[n - 1] + Lengths[n]]
           S == {k \in Nat : \E f : Upto(f, k)}
<1>1. 0 \in S
  <2>1. Upto([n \in 0 .. 0 |-> 0], 0)
    OBVIOUS
  <2> QED BY <2>1
<1>2. ASSUME NEW k \in 0 .. MaxPosted - 1, k \in S PROVE k + 1 \in S
  <2>1. PICK f : Upto(f, k)
    BY <1>2
  <2> DEFINE h == [n \in 0 .. k + 1 |-> IF n <= k THEN f[n] ELSE f[k] + Lengths[k + 1]]
  <2>2. k \in Nat
    BY Bounds
  <2>3. ASSUME NEW n \in 0 .. k + 1
        PROVE  h[n] = IF n = 0 THEN 0 ELSE h[n - 1] + Lengths[n]
    <3>1. CASE n = 0
      BY <2>1, <2>2, <3>1
    <3>2. CASE n # 0 /\ n <= k
      <4>1. n \in 0 .. k /\ n - 1 \in 0 .. k + 1 /\ n - 1 <= k
        BY <2>2, <3>2
      <4>2. f[n] = f[n - 1] + Lengths[n]
        BY <2>1, <3>2, <4>1
      <4> QED BY <3>2, <4>1, <4>2
    <3>3. CASE n = k + 1
      <4>1. n # 0 /\ ~(n <= k) /\ n - 1 = k /\ k \in 0 .. k + 1 /\ k <= k
        BY <2>2, <3>3
      <4>2. h[n] = f[k] + Lengths[k + 1] /\ h[n - 1] = f[k]
        BY <4>1
      <4> QED BY <3>3, <4>1, <4>2
    <3> QED BY <2>2, <3>1, <3>2, <3>3
  <2>4. h = [n \in 0 .. k + 1 |-> h[n]]
    OBVIOUS
  <2> HIDE DEF h
  <2>5. Upto(h, k + 1)
    BY <2>3, <2>4
  <2> QED BY <2>2, <2>5
<1>3. MaxPosted \in Nat
  BY Bounds
<1> HIDE DEF S
<1>4. MaxPosted \in S
  BY <1>1, <1>2, <1>3, Upwards
<1>5. \E f : Upto(f, MaxPosted)
  BY <1>4 DEF S
<1> QED BY <1>5 DEF Ends

LEMMA EndsFacts ==
  /\ Ends \in [0 .. MaxPosted -> Nat] /\ Ends[0] = 0
  /\ \A n \in 0 .. MaxPosted - 1 : Ends[n] < Ends[n + 1]
<1>1. MaxPosted \in Nat /\ \A n \in 1 .. MaxPosted : Lengths[n] \in Nat /\ Lengths[n] > 0
  BY Bounds
<1>2. \A n \in 0 .. MaxPosted : Ends[n] = IF n = 0 THEN 0 ELSE Ends[n - 1] + Lengths[n]
  BY EndsDefined
<1>3. Ends[0] = 0
  BY <1>1, <1>2
<1> DEFINE S == {n \in 0 .. MaxPosted : Ends[n] \in Nat}
<1>4. 0 \in S
  BY <1>1, <1>3
<1>5. ASSUME NEW k \in 0 .. MaxPosted - 1
      PROVE  k + 1 \in 0 .. MaxPosted /\ k + 1 \in 1 .. MaxPosted /\ Ends[k + 1] = Ends[k] + Lengths[k + 1]
  <2>1. k + 1 \in 0 .. MaxPosted /\ k + 1 \in 1 .. MaxPosted /\ k + 1 # 0 /\ (k + 1) - 1 = k
    BY <1>1
  <2>2. Ends[k + 1] = Ends[(k + 1) - 1] + Lengths[k + 1]
    BY <1>2, <2>1
  <2> QED BY <2>1, <2>2
<1>6. \A k \in 0 .. MaxPosted - 1 : k \in S => k + 1 \in S
  BY <1>1, <1>5
<1>7. 0 .. MaxPosted \subseteq S
  <2> HIDE DEF S
  <2> QED BY <1>1, <1>4, <1>6, Upwards
<1>8. \A n \in 0 .. MaxPosted : Ends[n] \in Nat
  BY <1>7
<1>9. Ends \in [0 .. MaxPosted -> Nat]
  BY <1>8, EndsDefined
<1>10. ASSUME NEW n \in 0 .. MaxPosted - 1 PROVE Ends[n] < Ends[n + 1]
  <2>1. Ends[n] \in Nat
    BY <1>1, <1>8
  <2> QED BY <1>1, <1>5, <2>1
<1> QED BY <1>3, <1>9, <1>10

LEMMA EndsGrow ==
  ASSUME NEW m \in 0 .. MaxPosted, NEW n \in 0 .. MaxPosted, m <= n
  PROVE  Ends[m] <= Ends[n]
<1> DEFINE S == {k \in 0 .. MaxPosted : m <= k => Ends[m] <= Ends[k]}
<1>1. MaxPosted \in Nat /\ m \in Nat
  BY Bounds
<1>2. 0 \in S
  BY <1>1, EndsFacts
<1>3. ASSUME NEW k \in 0 .. MaxPosted - 1, k \in S PROVE k + 1 \in S
  <2>1. k + 1 \in 0 .. MaxPosted /\ k \in 0 .. MaxPosted
    BY <1>1
  <2>2. Ends[k] \in Nat /\ Ends[k + 1] \in Nat /\ Ends[m] \in Nat /\ Ends[k] < Ends[k + 1]
    BY <2>1, EndsFacts
  <2>3. m <= k => Ends[m] <= Ends[k]
    BY <1>3
  <2>4. CASE m <= k
    BY <2>1, <2>2, <2>3, <2>4
  <2>5. CASE m = k + 1
    BY <2>1, <2>2, <2>5
  <2>6. CASE m > k + 1
    BY <1>1, <2>1, <2>6
  <2> QED BY <1>1, <2>1, <2>4, <2>5, <2>6
<1>4. 0 .. MaxPosted \subseteq S
  <2> HIDE DEF S
  <2> QED BY <1>1, <1>2, <1>3, Upwards
<1> QED BY <1>4

\* which messages are complete in the first a units of the stream
LEMMA CompleteFacts ==
  ASSUME NEW a \in 0 .. Ends[MaxPosted]
  PROVE  /\ Complete(a) \in 0 .. MaxPosted /\ Ends[Complete(a)] <= a
         /\ Complete(a) < MaxPosted => a < Ends[Complete(a) + 1]
<1> DEFINE T == {n \in 0 .. MaxPosted : n < MaxPosted => a < Ends[n + 1]}
<1>1. MaxPosted \in Nat /\ MaxPosted \in 0 .. MaxPosted
  BY Bounds
<1>2. MaxPosted \in T /\ T \subseteq Nat
  BY <1>1
<1>3. PICK x \in T : \A y \in T : x <= y
  <2> HIDE DEF T
  <2> QED BY <1>2, Smallest
<1>4. x \in 0 .. MaxPosted /\ (x < MaxPosted => a < Ends[x + 1])
  OBVIOUS
<1>5. a \in Nat
  BY <1>1, EndsFacts
<1>6. Ends[x] <= a
  <2>1. CASE x = 0
    BY <1>5, <2>1, EndsFacts
  <2>2. CASE x # 0
    <3>1. x - 1 \in 0 .. MaxPosted /\ ~(x <= x - 1) /\ (x - 1) + 1 = x /\ x - 1 < MaxPosted
      BY <1>1, <1>4, <2>2
    <3>2. x - 1 \notin T
      BY <1>3, <3>1
    <3>3. ~(a < Ends[x])
      BY <3>1, <3>2
    <3>4. Ends[x] \in Nat
      BY <1>4, EndsFacts
    <3> QED BY <1>5, <3>3, <3>4
  <2> QED BY <2>1, <2>2
<1> HIDE DEF T
<1>7. \E n \in 0 .. MaxPosted : Ends[n] <= a /\ (n < MaxPosted => a < Ends[n + 1])
  BY <1>4, <1>6
<1> QED BY <1>7 DEF Complete

LEMMA CompleteUpTo ==
  ASSUME NEW a \in 0 .. Ends[MaxPosted], NEW n \in 0 .. MaxPosted, a <= Ends[n]
  PROVE  Complete(a) <= n
<1> DEFINE c == Complete(a)
<1>1. c \in 0 .. MaxPosted /\ Ends[c] <= a
  BY CompleteFacts
<1> HIDE DEF c
<1> SUFFICES ASSUME c > n PROVE FALSE
  BY <1>1, Bounds DEF c
<1>2. n + 1 \in 0 .. MaxPosted /\ n + 1 <= c /\ n \in 0 .. MaxPosted - 1
  BY <1>1, Bounds
<1>3. Ends[n] < Ends[n + 1] /\ Ends[n + 1] <= Ends[c]
  BY <1>1, <1>2, EndsFacts, EndsGrow
<1>4. Ends[n] \in Nat /\ Ends[n + 1] \in Nat /\ Ends[c] \in Nat /\ a \in Nat
  BY <1>1, <1>2, EndsFacts, Bounds
<1> QED BY <1>1, <1>3, <1>4

LEMMA CompleteGrows ==
  ASSUME NEW a \in 0 .. Ends[MaxPosted], NEW b \in 0 .. Ends[MaxPosted], a <= b
  PROVE  Complete(a) <= Complete(b)
<1> DEFINE c == Complete(b)
<1>1. c \in 0 .. MaxPosted /\ (c < MaxPosted => b < Ends[c + 1])
  BY CompleteFacts
<1>2. Complete(a) \in 0 .. MaxPosted /\ Ends[Complete(a)] <= a
  BY CompleteFacts
<1> DEFINE d == Complete(a)
<1> HIDE DEF c, d
<1> SUFFICES ASSUME d > c PROVE FALSE
  BY <1>1, <1>2, Bounds DEF c, d
<1>3. c + 1 \in 0 .. MaxPosted /\ c < MaxPosted /\ c + 1 <= d /\ d \in 0 .. MaxPosted
  BY <1>1, <1>2, Bounds DEF d
<1>4. Ends[c + 1] <= Ends[d]
  BY <1>3, EndsGrow
<1>5. Ends[c + 1] \in Nat /\ Ends[d] \in Nat /\ a \in Nat /\ b \in Nat
  BY <1>3, EndsFacts, Bounds
<1>6. Ends[d] <= a
  BY <1>2 DEF d
<1> QED BY <1>1, <1>3, <1>4, <1>5, <1>6

------------------------------------------------------------------------------
(* Steps of the connection *)

ConnRecord ==
  [posted : 0 .. MaxPosted, arrived : 0 .. Ends[MaxPosted],
   text : [1 .. MaxPosted -> Nat], cut : SUBSET Wide, batch : Seq(1 .. MaxPosted), handled : Seq(1 .. MaxPosted),
   ended : BOOLEAN, peer : {"open", "ended", "seen"}, failed : BOOLEAN,
   gone : BOOLEAN, releases : 0 .. 3]

KeepAliveRecord ==
  [left : 0 .. InitialTimeout, retry : 0 .. 1, isRetry : BOOLEAN,
   retriesUsed : 0 .. RetryCount, silence : 0 .. Deadline + 1]

\* what the invariant says of the connection itself
ConnSound ==
  /\ conn \in ConnRecord /\ ka \in KeepAliveRecord /\ conn.arrived <= Ends[conn.posted]
  /\ IncomingInLine /\ GivenUp /\ TimersKnow

LEMMA ConnParts == ConnInv <=> IInv /\ ConnSound
BY DEF ConnInv, ConnSound, ConnTypeOK, ConnRecord, KeepAliveRecord, IInv

LEMMA DisconnectedFields ==
  ASSUME NEW c \in ConnRecord, c.releases = IF c.gone THEN 1 ELSE 0
  PROVE  LET d == Disconnected(c) IN
         /\ d \in ConnRecord /\ d.gone /\ d.releases = 1
         /\ d.posted = c.posted /\ d.arrived = c.arrived /\ d.batch = c.batch
         /\ d.handled = c.handled /\ d.ended = c.ended
         /\ d.text = c.text /\ d.cut = c.cut
<1>1. CASE c.gone
  BY <1>1 DEF Disconnected
<1>2. CASE ~c.gone
  <2> DEFINE d == Disconnected(c)
  <2>1. c.releases + 1 = 1 /\ 1 \in 0 .. 3
    BY <1>2
  <2>2. d = [c EXCEPT !.gone = TRUE, !.releases = 1]
    BY <1>2, <2>1 DEF Disconnected
  <2> HIDE DEF d
  <2>3. d \in ConnRecord
    BY <2>1, <2>2 DEF ConnRecord
  <2>4. /\ d.gone /\ d.releases = 1
        /\ d.posted = c.posted /\ d.arrived = c.arrived /\ d.batch = c.batch
        /\ d.handled = c.handled /\ d.ended = c.ended
        /\ d.text = c.text /\ d.cut = c.cut
    BY <2>2 DEF ConnRecord
  <2> QED BY <2>3, <2>4 DEF d
<1> QED BY <1>1, <1>2 DEF ConnRecord

LEMMA DisposedFields ==
  ASSUME ka \in KeepAliveRecord
  PROVE  /\ Disposed \in KeepAliveRecord /\ Disposed.left = 0 /\ Disposed.retry = 0
         /\ Disposed.isRetry = ka.isRetry /\ Disposed.retriesUsed = ka.retriesUsed
<1>1. 0 \in 0 .. InitialTimeout /\ 0 \in 0 .. 1
  BY Bounds
<1>2. Disposed = [ka EXCEPT !.left = 0, !.retry = 0]
  BY DEF Disposed
<1> QED BY <1>1, <1>2 DEF KeepAliveRecord

\* Once the connection is given up, its messages in line are all that is to be said.
LEMMA GivenUpSound ==
  ASSUME conn' \in ConnRecord, ka' \in KeepAliveRecord, conn.handled \in Seq(1 .. MaxPosted),
         IncomingInLine, conn.posted \in Nat, Len(conn.handled) <= conn.posted,
         conn'.arrived <= Ends[conn'.posted], conn'.posted = conn.posted,
         conn'.handled = conn.handled, conn'.batch = <<>>, conn'.gone, conn'.releases = 1,
         ka'.left = 0, ka'.retry = 0
  PROVE  ConnSound'
<1>1. Len(conn'.batch) = 0 /\ Len(conn'.handled) \in Nat
  OBVIOUS
<1>2. IncomingInLine'
  BY <1>1 DEF IncomingInLine, Follows
<1>3. GivenUp' /\ TimersKnow'
  BY DEF GivenUp, TimersKnow
<1> QED BY <1>2, <1>3 DEF ConnSound, ConnRecord, KeepAliveRecord

LEMMA ConnFacts ==
  ASSUME ConnSound
  PROVE  /\ conn.posted \in 0 .. MaxPosted /\ conn.posted \in Nat
         /\ conn.arrived \in 0 .. Ends[MaxPosted] /\ conn.arrived \in Nat
         /\ conn.batch \in Seq(1 .. MaxPosted) /\ conn.handled \in Seq(1 .. MaxPosted)
         /\ Len(conn.batch) \in Nat /\ Len(conn.handled) \in Nat
         /\ Len(conn.handled) <= conn.posted
         /\ conn.releases = IF conn.gone THEN 1 ELSE 0
         /\ Ends[conn.posted] \in Nat /\ Ends[MaxPosted] \in Nat
         /\ Ends[conn.posted] <= Ends[MaxPosted]
<1>1. MaxPosted \in Nat /\ MaxPosted \in 0 .. MaxPosted
  BY Bounds
<1>2. conn.posted \in 0 .. MaxPosted /\ conn.arrived \in 0 .. Ends[MaxPosted]
      /\ conn.batch \in Seq(1 .. MaxPosted) /\ conn.handled \in Seq(1 .. MaxPosted)
  BY DEF ConnSound, ConnRecord
<1>3. Ends[conn.posted] \in Nat /\ Ends[MaxPosted] \in Nat /\ Ends[conn.posted] <= Ends[MaxPosted]
  <2>1. conn.posted <= MaxPosted
    BY <1>1, <1>2
  <2> QED BY <1>1, <1>2, <2>1, EndsFacts, EndsGrow
<1>4. Len(conn.batch) \in Nat /\ Len(conn.handled) \in Nat
  BY <1>2
<1>5. Len(conn.handled) <= conn.posted
  <2>1. Len(conn.handled) + Len(conn.batch) <= conn.posted
    BY DEF ConnSound, IncomingInLine
  <2>2. conn.posted \in Nat
    BY <1>1, <1>2
  <2> QED BY <1>4, <2>1, <2>2, Sums
<1> QED BY <1>1, <1>2, <1>3, <1>4, <1>5 DEF ConnSound, GivenUp

LEMMA NothingToHandle == <<>> \in Seq(1 .. MaxPosted) /\ Len(<<>>) = 0
OBVIOUS

LEMMA PeerPostsSound == ASSUME ConnSound, PeerPosts PROVE ConnSound'
<1>1. /\ conn' = [conn EXCEPT !.posted = @ + 1] /\ ka' = ka /\ conn.posted < MaxPosted
  BY DEF PeerPosts
<1>2. conn.posted + 1 \in 0 .. MaxPosted /\ conn.posted \in 0 .. MaxPosted
      /\ conn.posted <= conn.posted + 1
  BY <1>1, ConnFacts, Bounds
<1>3. /\ conn' \in ConnRecord /\ conn'.posted = conn.posted + 1 /\ conn'.arrived = conn.arrived
      /\ conn'.batch = conn.batch /\ conn'.handled = conn.handled /\ conn'.ended = conn.ended
      /\ conn'.gone = conn.gone /\ conn'.releases = conn.releases
  BY <1>1, <1>2 DEF ConnSound, ConnRecord
<1>4. Ends[conn.posted] <= Ends[conn.posted + 1] /\ Ends[conn.posted + 1] \in Nat
  BY <1>2, EndsGrow, EndsFacts
<1>5. conn'.arrived <= Ends[conn'.posted]
  BY <1>3, <1>4, ConnFacts DEF ConnSound
<1>6. IncomingInLine'
  <2>1. Len(conn.handled) + Len(conn.batch) <= conn.posted
    BY DEF ConnSound, IncomingInLine
  <2>2. Len(conn.handled) + Len(conn.batch) <= conn.posted + 1
    BY <2>1, ConnFacts, Sums
  <2> QED BY <1>3, <2>2 DEF ConnSound, IncomingInLine, Follows
<1>7. GivenUp' /\ TimersKnow'
  BY <1>1, <1>3 DEF ConnSound, GivenUp, TimersKnow
<1> QED BY <1>1, <1>3, <1>5, <1>6, <1>7 DEF ConnSound, KeepAliveRecord

\* What a chunk adds to the text of a message is counted in numbers.
LEMMA DecodedNat ==
  ASSUME NEW m, NEW a \in Nat, NEW b \in Nat PROVE Decoded(m, b, a) \in Nat
<1> DEFINE bytes == (b + 1 .. a) \cap Body(m)
           marks == {k \in bytes : \/ \E c \in CutAt(b) : k \in Bytes(c)
                                   \/ \E c \in CutAt(a) : k = c.first}
           kept == {k \in bytes : \A c \in CutAt(b) \cup CutAt(a) : k \notin Bytes(c)}
<1>1. IsFiniteSet(b + 1 .. a)
  BY FS_Interval
<1>2. marks \in SUBSET (b + 1 .. a) /\ kept \in SUBSET (b + 1 .. a)
  OBVIOUS
<1>3. Decoded(m, b, a) = Cardinality(kept) + 3 * Cardinality(marks)
  BY DEF Decoded
<1> HIDE DEF marks, kept
<1>4. Cardinality(kept) \in Nat /\ Cardinality(marks) \in Nat
  BY <1>1, <1>2, FS_Subset, FS_CardinalityType
<1> QED BY <1>3, <1>4

\* what reading a chunk does to the connection
LEMMA ReadFields ==
  ASSUME ConnSound, NEW a \in conn.arrived + 1 .. Ends[conn.posted]
  PROVE  LET c == Read(a) IN
         /\ a \in 0 .. Ends[MaxPosted] /\ a \in Nat
         /\ c \in ConnRecord /\ c.posted = conn.posted /\ c.arrived = a
         /\ c.batch = conn.batch /\ c.handled = conn.handled /\ c.ended = conn.ended
         /\ c.gone = conn.gone /\ c.releases = conn.releases
         /\ c.cut = conn.cut \cup CutAt(a)
         /\ c.text = [m \in 1 .. MaxPosted |-> conn.text[m] + Decoded(m, conn.arrived, a)]
<1>1. conn \in ConnRecord /\ conn.arrived \in Nat
  BY ConnFacts DEF ConnSound
<1>2. a \in 0 .. Ends[MaxPosted] /\ a \in Nat
  BY ConnFacts
<1> DEFINE text == [m \in 1 .. MaxPosted |-> conn.text[m] + Decoded(m, conn.arrived, a)]
           cut == conn.cut \cup CutAt(a)
<1>3. text \in [1 .. MaxPosted -> Nat]
  <2>1. ASSUME NEW m \in 1 .. MaxPosted
        PROVE  conn.text[m] + Decoded(m, conn.arrived, a) \in Nat
    <3>1. conn.text[m] \in Nat
      BY <1>1 DEF ConnRecord
    <3>2. Decoded(m, conn.arrived, a) \in Nat
      BY <1>1, <1>2, DecodedNat
    <3> QED BY <3>1, <3>2
  <2> QED BY <2>1
<1>4. cut \in SUBSET Wide
  BY <1>1 DEF ConnRecord, CutAt
<1>5. Read(a) = [conn EXCEPT !.arrived = a, !.cut = cut, !.text = text]
  BY <1>1 DEF Read, ConnRecord
<1> HIDE DEF text, cut
<1>6. Read(a) \in ConnRecord
  BY <1>1, <1>2, <1>3, <1>4, <1>5 DEF ConnRecord
<1>7. LET c == Read(a) IN
      /\ c.posted = conn.posted /\ c.arrived = a
      /\ c.batch = conn.batch /\ c.handled = conn.handled /\ c.ended = conn.ended
      /\ c.gone = conn.gone /\ c.releases = conn.releases /\ c.cut = cut /\ c.text = text
  BY <1>1, <1>5 DEF ConnRecord
<1> QED BY <1>2, <1>6, <1>7 DEF text, cut

\* what Data and the end of the chunk do to the line of messages
LEMMA DataSound == ASSUME ConnSound, Data PROVE ConnSound'
<1>1. PICK a \in conn.arrived + 1 .. Ends[conn.posted] :
       \/ /\ conn.gone
          /\ conn' = [conn EXCEPT !.arrived = a]
          /\ UNCHANGED ka
       \/ /\ ~conn.gone
          /\ conn' = Limited(Read(a))
          /\ ka' = [Disposed EXCEPT !.silence = 0]
       \/ /\ ~conn.gone
          /\ conn' = [Read(a) EXCEPT !.batch = NewMessages(a)]
          /\ ka' = Notified
  BY DEF Data
<1>2. conn.batch = <<>>
  BY DEF Data, AtRest
<1>3. /\ a \in 0 .. Ends[MaxPosted] /\ conn.arrived <= a /\ a <= Ends[conn.posted]
  BY ConnFacts
<1>4. conn \in ConnRecord /\ ka \in KeepAliveRecord
  BY DEF ConnSound
<1> DEFINE c == Read(a)
<1>5. /\ c \in ConnRecord /\ c.posted = conn.posted /\ c.arrived = a /\ c.batch = conn.batch
      /\ c.handled = conn.handled /\ c.ended = conn.ended /\ c.gone = conn.gone
      /\ c.releases = conn.releases
  BY ReadFields
<1> HIDE DEF c
<1>6. CASE conn.gone /\ conn' = [conn EXCEPT !.arrived = a] /\ ka' = ka
  <2>1. ka.left = 0 /\ ka.retry = 0
    BY <1>6 DEF ConnSound, GivenUp
  <2>2. /\ conn' \in ConnRecord /\ conn'.posted = conn.posted /\ conn'.arrived = a
        /\ conn'.batch = conn.batch /\ conn'.handled = conn.handled /\ conn'.gone = conn.gone
        /\ conn'.releases = conn.releases
    BY <1>3, <1>4, <1>6 DEF ConnRecord
  <2> QED BY <1>2, <1>3, <1>4, <1>6, <2>1, <2>2, ConnFacts, GivenUpSound DEF ConnSound
<1>7. CASE ~conn.gone /\ conn' = Limited(c) /\ ka' = [Disposed EXCEPT !.silence = 0]
  <2> DEFINE e == [c EXCEPT !.ended = TRUE, !.batch = <<>>]
  <2>1. /\ e \in ConnRecord /\ e.posted = c.posted /\ e.arrived = c.arrived /\ e.batch = <<>>
        /\ e.handled = c.handled /\ e.gone = c.gone /\ e.releases = c.releases
    BY <1>5, NothingToHandle DEF ConnRecord
  <2>2. conn' = Disconnected(e)
    BY <1>7 DEF Limited
  <2> HIDE DEF e
  <2>3. /\ conn' \in ConnRecord /\ conn'.gone /\ conn'.releases = 1
        /\ conn'.posted = e.posted /\ conn'.arrived = e.arrived /\ conn'.batch = e.batch
        /\ conn'.handled = e.handled
    BY <1>5, <2>1, <2>2, ConnFacts, DisconnectedFields
  <2>4. /\ ka' \in KeepAliveRecord /\ ka'.left = 0 /\ ka'.retry = 0
    BY <1>4, <1>7, Bounds, DisposedFields DEF KeepAliveRecord
  <2> QED BY <1>3, <1>5, <2>1, <2>3, <2>4, ConnFacts, GivenUpSound DEF ConnSound
<1>8. CASE ~conn.gone /\ conn' = [c EXCEPT !.batch = NewMessages(a)] /\ ka' = Notified
  <2> DEFINE n == Complete(conn.arrived)
             m == Complete(a)
             new == NewMessages(a)
  <2>1. /\ n \in 0 .. MaxPosted /\ m \in 0 .. MaxPosted /\ n <= m /\ m <= conn.posted
        /\ MaxPosted \in Nat
    BY <1>3, ConnFacts, CompleteFacts, CompleteGrows, CompleteUpTo, Bounds
  <2>2. Len(conn.handled) = n
    BY <1>2, <1>8, ConnFacts, NothingToHandle DEF ConnSound, IncomingInLine
  <2>3. new = [i \in 1 .. m - n |-> n + i]
    BY DEF NewMessages
  <2> HIDE DEF n, m, new
  <2>4. /\ new \in Seq(1 .. MaxPosted) /\ Len(new) = m - n /\ Follows(new, n)
    BY <2>1, <2>3 DEF Follows
  <2>5. /\ conn' \in ConnRecord /\ conn'.posted = conn.posted /\ conn'.arrived = a
        /\ conn'.batch = new /\ conn'.handled = conn.handled /\ conn'.gone = conn.gone
        /\ conn'.releases = conn.releases /\ conn'.ended = conn.ended
    BY <1>5, <1>8, <2>4 DEF ConnRecord, new
  <2>6. Len(conn'.handled) + Len(conn'.batch) = m
    BY <2>1, <2>2, <2>4, <2>5
  <2>7. IncomingInLine'
    BY <2>1, <2>2, <2>4, <2>5, <2>6, ConnFacts DEF ConnSound, IncomingInLine, m
  <2>8. /\ ka' \in KeepAliveRecord /\ ~ka'.isRetry /\ ka'.retriesUsed = 0
        /\ ka'.left = InitialTimeout /\ ka'.silence = 0
    <3>1. /\ InitialTimeout \in 0 .. InitialTimeout /\ 0 \in 0 .. RetryCount
          /\ 0 \in 0 .. Deadline + 1
      BY Bounds
    <3> QED BY <1>4, <1>8, <3>1 DEF Notified, KeepAliveRecord
  <2>9. GivenUp' /\ TimersKnow'
    BY <1>8, <2>5, <2>8, Bounds, ConnFacts DEF GivenUp, TimersKnow
  <2> QED BY <1>3, <2>5, <2>7, <2>8, <2>9 DEF ConnSound, ConnRecord, KeepAliveRecord
<1> QED BY <1>1, <1>6, <1>7, <1>8 DEF c

LEMMA HandleMessageSound == ASSUME ConnSound, HandleMessage PROVE ConnSound'
<1> DEFINE m == Head(conn.batch)
<1>1. conn.batch # <<>> /\ ~conn.gone
  BY DEF HandleMessage, ConnSound, GivenUp
<1>2. \/ conn' = Limited(conn) /\ ka' = Disposed
      \/ conn' = [conn EXCEPT !.batch = Tail(@), !.handled = Append(@, m)] /\ ka' = ka
  BY DEF HandleMessage
<1>3. conn \in ConnRecord /\ ka \in KeepAliveRecord
  BY DEF ConnSound
<1>4. CASE conn' = Limited(conn) /\ ka' = Disposed
  <2> DEFINE e == [conn EXCEPT !.ended = TRUE, !.batch = <<>>]
  <2>1. /\ e \in ConnRecord /\ e.posted = conn.posted /\ e.arrived = conn.arrived /\ e.batch = <<>>
        /\ e.handled = conn.handled /\ e.gone = conn.gone /\ e.releases = conn.releases
    BY <1>3, NothingToHandle DEF ConnRecord
  <2>2. conn' = Disconnected(e)
    BY <1>4 DEF Limited
  <2> HIDE DEF e
  <2>3. /\ conn' \in ConnRecord /\ conn'.gone /\ conn'.releases = 1
        /\ conn'.posted = e.posted /\ conn'.arrived = e.arrived /\ conn'.batch = e.batch
        /\ conn'.handled = e.handled
    BY <2>1, <2>2, ConnFacts, DisconnectedFields
  <2>4. /\ ka' \in KeepAliveRecord /\ ka'.left = 0 /\ ka'.retry = 0
    BY <1>3, <1>4, DisposedFields
  <2> QED BY <2>1, <2>3, <2>4, ConnFacts, GivenUpSound DEF ConnSound
<1>5. CASE conn' = [conn EXCEPT !.batch = Tail(@), !.handled = Append(@, m)] /\ ka' = ka
  <2> DEFINE h == conn.handled
             b == conn.batch
  <2>1. /\ h \in Seq(1 .. MaxPosted) /\ b \in Seq(1 .. MaxPosted) /\ b # <<>>
        /\ Follows(h, 0) /\ Follows(b, Len(h))
    BY <1>1, ConnFacts DEF ConnSound, IncomingInLine
  <2>2. /\ conn' = [conn EXCEPT !.batch = Tail(b), !.handled = Append(h, m)]
        /\ m = Head(b)
    BY <1>5
  <2> HIDE DEF h, b, m
  <2>3. /\ m \in 1 .. MaxPosted /\ Append(h, m) \in Seq(1 .. MaxPosted)
        /\ Tail(b) \in Seq(1 .. MaxPosted)
        /\ Len(Append(h, m)) = Len(h) + 1 /\ Len(Tail(b)) = Len(b) - 1
        /\ Len(h) \in Nat /\ Len(b) \in Nat /\ Len(b) > 0 /\ m = b[1]
        /\ \A k \in 1 .. Len(b) - 1 : Tail(b)[k] = b[k + 1]
    <3>1. m = b[1] /\ Len(b) \in Nat /\ Len(b) > 0 /\ 1 \in 1 .. Len(b)
      BY <2>1, <2>2
    <3>2. m \in 1 .. MaxPosted
      BY <2>1, <3>1, ElementOfSeq
    <3>3. /\ Tail(b) \in Seq(1 .. MaxPosted) /\ Len(Tail(b)) = Len(b) - 1
          /\ \A k \in 1 .. Len(b) - 1 : Tail(b)[k] = b[k + 1]
      BY <2>1
    <3>4. /\ Append(h, m) \in Seq(1 .. MaxPosted)
          /\ Len(Append(h, m)) = Len(h) + 1 /\ Len(h) \in Nat
      BY <2>1, <3>2
    <3> QED BY <3>1, <3>2, <3>3, <3>4
  <2>4. m = Len(h) + 1
    BY <2>1, <2>3 DEF Follows
  <2>5. Follows(Append(h, m), 0)
    BY <2>1, <2>3, <2>4 DEF Follows
  <2>6. Follows(Tail(b), Len(h) + 1)
    BY <2>1, <2>3 DEF Follows
  <2>7. /\ conn' \in ConnRecord /\ conn'.posted = conn.posted /\ conn'.arrived = conn.arrived
        /\ conn'.batch = Tail(b) /\ conn'.handled = Append(h, m) /\ conn'.gone = conn.gone
        /\ conn'.releases = conn.releases /\ conn'.ended = conn.ended
    BY <1>3, <2>2, <2>3 DEF ConnRecord
  <2>8. Len(conn'.handled) + Len(conn'.batch) = Len(h) + Len(b)
    BY <2>3, <2>7
  <2>9. IncomingInLine'
    BY <2>3, <2>5, <2>6, <2>7, <2>8 DEF ConnSound, IncomingInLine, h, b
  <2>10. GivenUp' /\ TimersKnow'
    BY <1>1, <1>5, <2>7 DEF ConnSound, GivenUp, TimersKnow
  <2> QED BY <1>5, <2>7, <2>9, <2>10 DEF ConnSound, ConnRecord, KeepAliveRecord
<1> QED BY <1>2, <1>4, <1>5

LEMMA PeerEndsSound == ASSUME ConnSound, PeerEnds PROVE ConnSound'
<1>1. conn' = [conn EXCEPT !.peer = "ended"] /\ ka' = ka
  BY DEF PeerEnds
<1>2. /\ conn' \in ConnRecord /\ conn'.posted = conn.posted /\ conn'.arrived = conn.arrived
      /\ conn'.batch = conn.batch /\ conn'.handled = conn.handled /\ conn'.ended = conn.ended
      /\ conn'.gone = conn.gone /\ conn'.releases = conn.releases
  BY <1>1 DEF ConnSound, ConnRecord
<1> QED BY <1>1, <1>2 DEF ConnSound, KeepAliveRecord, IncomingInLine, Follows, GivenUp, TimersKnow

\* the ends of a connection that are told to it
LEMMA ToldSound ==
  ASSUME ConnSound, AtRest, NEW e \in ConnRecord, conn' = Disconnected(e), ka' = Disposed,
         e.posted = conn.posted, e.arrived = conn.arrived, e.batch = conn.batch,
         e.handled = conn.handled, e.gone = conn.gone, e.releases = conn.releases
  PROVE  ConnSound'
<1>1. /\ conn' \in ConnRecord /\ conn'.gone /\ conn'.releases = 1
      /\ conn'.posted = e.posted /\ conn'.arrived = e.arrived /\ conn'.batch = e.batch
      /\ conn'.handled = e.handled
  BY ConnFacts, DisconnectedFields
<1>2. /\ ka' \in KeepAliveRecord /\ ka'.left = 0 /\ ka'.retry = 0
  BY DisposedFields DEF ConnSound
<1>3. conn.batch = <<>>
  BY DEF AtRest
<1> QED BY <1>1, <1>2, <1>3, ConnFacts, GivenUpSound DEF ConnSound

LEMMA EndEventSound == ASSUME ConnSound, EndEvent PROVE ConnSound'
<1> DEFINE e == [conn EXCEPT !.peer = "seen", !.ended = TRUE]
<1>1. AtRest /\ conn' = Disconnected(e) /\ ka' = Disposed
  BY DEF EndEvent
<1>2. /\ e \in ConnRecord /\ e.posted = conn.posted /\ e.arrived = conn.arrived
      /\ e.batch = conn.batch /\ e.handled = conn.handled
      /\ e.gone = conn.gone /\ e.releases = conn.releases
  BY DEF ConnSound, ConnRecord
<1> HIDE DEF e
<1> QED BY <1>1, <1>2, ToldSound

LEMMA ErrorEventSound == ASSUME ConnSound, ErrorEvent PROVE ConnSound'
<1> DEFINE e == [conn EXCEPT !.failed = TRUE]
<1>1. AtRest /\ conn' = Disconnected(e) /\ ka' = Disposed
  BY DEF ErrorEvent
<1>2. /\ e \in ConnRecord /\ e.posted = conn.posted /\ e.arrived = conn.arrived
      /\ e.batch = conn.batch /\ e.handled = conn.handled
      /\ e.gone = conn.gone /\ e.releases = conn.releases
  BY DEF ConnSound, ConnRecord
<1> HIDE DEF e
<1> QED BY <1>1, <1>2, ToldSound

LEMMA LaterFields ==
  ASSUME ka \in KeepAliveRecord
  PROVE  LET k == Later(ka) IN
         /\ k \in KeepAliveRecord /\ k.retry = 0 /\ k.isRetry = ka.isRetry
         /\ k.retriesUsed = ka.retriesUsed
         /\ k.left = (IF ka.left = 0 THEN 0 ELSE ka.left - 1)
         /\ k.silence = (IF ka.silence > Deadline THEN ka.silence ELSE ka.silence + 1)
<1> DEFINE l == IF ka.left = 0 THEN 0 ELSE ka.left - 1
           s == IF ka.silence > Deadline THEN ka.silence ELSE ka.silence + 1
           k == Later(ka)
<1>1. ka.left \in 0 .. InitialTimeout /\ ka.silence \in 0 .. Deadline + 1
  BY DEF KeepAliveRecord
<1>2. l \in 0 .. InitialTimeout /\ s \in 0 .. Deadline + 1 /\ 0 \in 0 .. 1
  BY <1>1, Bounds
<1>3. k = [ka EXCEPT !.left = l, !.retry = 0, !.silence = s]
  BY DEF Later, Silent, KeepAliveRecord
<1> HIDE DEF l, s, k
<1>4. k \in KeepAliveRecord
  BY <1>2, <1>3 DEF KeepAliveRecord
<1>5. /\ k.retry = 0 /\ k.isRetry = ka.isRetry /\ k.retriesUsed = ka.retriesUsed
      /\ k.left = l /\ k.silence = s
  BY <1>3 DEF KeepAliveRecord
<1> QED BY <1>4, <1>5 DEF k, l, s

\* What a tick does, while the connection is served and while it no longer is.
LEMMA TickCases ==
  ASSUME ConnSound, Tick
  PROVE  /\ ~conn.gone /\ ka' \in KeepAliveRecord /\ conn' \in ConnRecord
         /\ conn' = [conn EXCEPT !.ended = conn'.ended]
         /\ conn.ended => conn'.ended
         /\ ~conn.ended =>
              \/ /\ ~conn'.ended /\ ~ka'.isRetry /\ ka'.retriesUsed = 0 /\ ka'.left > 0
                 /\ ka'.silence = InitialTimeout - ka'.left
              \/ /\ ~conn'.ended /\ ka'.isRetry /\ ka'.left = 0 /\ ka'.retry = 1
                 /\ ka'.retriesUsed < RetryCount
                 /\ ka'.silence = InitialTimeout + ka'.retriesUsed
              \/ conn'.ended /\ ka'.silence = Deadline
<1>1. conn \in ConnRecord /\ ka \in KeepAliveRecord
  BY DEF ConnSound
<1>2. ~conn.gone
  <2>1. ConnSound /\ (conn.gone => ka.left > 0 \/ ka.retry > 0)
    BY DEF Tick
  <2> QED BY <2>1 DEF ConnSound, GivenUp
<1>3. /\ ka.left \in 0 .. InitialTimeout /\ ka.retry \in 0 .. 1 /\ ka.isRetry \in BOOLEAN
      /\ ka.retriesUsed \in 0 .. RetryCount /\ ka.silence \in 0 .. Deadline + 1
      /\ conn.ended \in BOOLEAN
  BY <1>1 DEF ConnRecord, KeepAliveRecord
<1>4. ~conn.ended =>
        \/ /\ ~ka.isRetry /\ ka.retriesUsed = 0 /\ ka.left > 0
           /\ ka.silence = InitialTimeout - ka.left
        \/ /\ ka.isRetry /\ ka.left = 0 /\ ka.retry = 1 /\ ka.retriesUsed < RetryCount
           /\ ka.silence = InitialTimeout + ka.retriesUsed
  BY <1>2 DEF ConnSound, TimersKnow
<1> DEFINE k == Later(ka)
<1>5. /\ k \in KeepAliveRecord /\ k.retry = 0 /\ k.isRetry = ka.isRetry
      /\ k.retriesUsed = ka.retriesUsed
      /\ k.left = (IF ka.left = 0 THEN 0 ELSE ka.left - 1)
      /\ k.silence = (IF ka.silence > Deadline THEN ka.silence ELSE ka.silence + 1)
  BY <1>1, LaterFields
<1> DEFINE last == ka.retriesUsed + 1 >= RetryCount
           used == IF last THEN RetryCount ELSE ka.retriesUsed + 1
           again == IF last THEN 0 ELSE 1
<1>6. \/ /\ ka.left # 1 /\ ~(ka.retry = 1 /\ ka.isRetry)
         /\ ka' = k /\ conn' = conn
      \/ /\ ka.left = 1 /\ conn' = conn
         /\ ka' = [k EXCEPT !.isRetry = TRUE, !.retry = 1]
      \/ /\ ka.retry = 1 /\ ka.isRetry
         /\ ka' = [k EXCEPT !.retriesUsed = used, !.retry = again]
         /\ conn' = [conn EXCEPT !.ended = conn.ended \/ last]
  BY <1>1, <1>5 DEF Tick, KeepAliveDue, RetryDue, ConnRecord, KeepAliveRecord
<1> HIDE DEF k
<1>7. conn = [conn EXCEPT !.ended = conn.ended]
  BY <1>1 DEF ConnRecord
<1>8. CASE ka.left # 1 /\ ~(ka.retry = 1 /\ ka.isRetry) /\ ka' = k /\ conn' = conn
  <2>1. ~conn.ended => /\ ~k.isRetry /\ k.retriesUsed = 0 /\ k.left > 0
                       /\ k.silence = InitialTimeout - k.left
    BY <1>3, <1>4, <1>5, <1>8, Bounds DEF Deadline
  <2> QED BY <1>1, <1>2, <1>5, <1>7, <1>8, <2>1
<1>9. CASE /\ ka.left = 1 /\ conn' = conn
           /\ ka' = [k EXCEPT !.isRetry = TRUE, !.retry = 1]
  <2>1. /\ ka' \in KeepAliveRecord /\ ka'.isRetry /\ ka'.retry = 1 /\ ka'.left = k.left
        /\ ka'.retriesUsed = k.retriesUsed /\ ka'.silence = k.silence
    <3>1. 1 \in 0 .. 1 /\ TRUE \in BOOLEAN
      OBVIOUS
    <3> QED BY <1>5, <1>9, <3>1 DEF KeepAliveRecord
  <2>2. ~conn.ended => /\ k.retriesUsed = 0 /\ k.left = 0 /\ k.silence = InitialTimeout
    BY <1>3, <1>4, <1>5, <1>9, Bounds DEF Deadline
  <2> QED BY <1>1, <1>2, <1>7, <1>9, <2>1, <2>2, Bounds
<1>10. CASE /\ ka.retry = 1 /\ ka.isRetry
            /\ ka' = [k EXCEPT !.retriesUsed = used, !.retry = again]
            /\ conn' = [conn EXCEPT !.ended = conn.ended \/ last]
  <2>1. used \in 0 .. RetryCount /\ again \in 0 .. 1
    BY <1>3, Bounds
  <2>2. ~last => used = ka.retriesUsed + 1 /\ used < RetryCount /\ again = 1
    BY <1>3, Bounds
  <2>3. ~conn.ended =>
          /\ k.isRetry /\ k.left = 0
          /\ ~last => k.silence = InitialTimeout + (ka.retriesUsed + 1)
          /\ last => k.silence = Deadline
    BY <1>3, <1>4, <1>5, <1>10, Bounds DEF Deadline
  <2>4. last \in BOOLEAN
    OBVIOUS
  <2> HIDE DEF last, used, again
  <2>5. /\ ka' \in KeepAliveRecord /\ ka'.isRetry = k.isRetry /\ ka'.retry = again
        /\ ka'.left = k.left /\ ka'.retriesUsed = used /\ ka'.silence = k.silence
    BY <1>5, <1>10, <2>1 DEF KeepAliveRecord
  <2>6. conn' \in ConnRecord /\ conn'.ended = (conn.ended \/ last)
    BY <1>1, <1>3, <1>10, <2>4 DEF ConnRecord
  <2>7. conn' = [conn EXCEPT !.ended = conn'.ended]
    BY <1>10, <2>6
  <2> QED BY <1>2, <2>2, <2>3, <2>5, <2>6, <2>7
<1> QED BY <1>6, <1>8, <1>9, <1>10

LEMMA TickSound == ASSUME ConnSound, Tick PROVE ConnSound'
<1>1. /\ ~conn.gone /\ ka' \in KeepAliveRecord /\ conn' \in ConnRecord
      /\ conn' = [conn EXCEPT !.ended = conn'.ended]
      /\ conn.ended => conn'.ended
      /\ ~conn.ended =>
           \/ /\ ~conn'.ended /\ ~ka'.isRetry /\ ka'.retriesUsed = 0 /\ ka'.left > 0
              /\ ka'.silence = InitialTimeout - ka'.left
           \/ /\ ~conn'.ended /\ ka'.isRetry /\ ka'.left = 0 /\ ka'.retry = 1
              /\ ka'.retriesUsed < RetryCount
              /\ ka'.silence = InitialTimeout + ka'.retriesUsed
           \/ conn'.ended /\ ka'.silence = Deadline
  BY TickCases
<1>2. /\ conn'.posted = conn.posted /\ conn'.arrived = conn.arrived
      /\ conn'.batch = conn.batch /\ conn'.handled = conn.handled
      /\ conn'.gone = conn.gone /\ conn'.releases = conn.releases
  <2>1. conn \in ConnRecord
    BY DEF ConnSound
  <2> QED BY <1>1, <2>1 DEF ConnRecord
<1>3. TimersKnow'
  BY <1>1 DEF TimersKnow
<1>4. IncomingInLine' /\ GivenUp'
  BY <1>1, <1>2 DEF ConnSound, IncomingInLine, Follows, GivenUp
<1> QED BY <1>1, <1>2, <1>3, <1>4 DEF ConnSound, ConnRecord, KeepAliveRecord

------------------------------------------------------------------------------
(* Every step *)

\* What a step does to the messages of the peer, to the timers and to the end of
\* the connection.
LEMMA StepEffects ==
  ASSUME ConnSound, ConnNext
  PROVE  /\ conn.ended => conn'.ended
         /\ \/ PeerPosts
            \/ /\ conn.batch # <<>> /\ ~conn.gone
               /\ conn'.posted = conn.posted /\ conn'.gone = conn.gone
               /\ conn'.handled = Append(conn.handled, Head(conn.batch))
            \/ /\ conn'.posted = conn.posted /\ conn'.handled = conn.handled
               /\ conn.gone => /\ conn'.gone /\ ka'.isRetry = ka.isRetry
                               /\ ka'.retriesUsed = ka.retriesUsed
<1> DEFINE Quiet == /\ conn'.posted = conn.posted /\ conn'.handled = conn.handled
                    /\ conn.gone => /\ conn'.gone /\ ka'.isRetry = ka.isRetry
                                    /\ ka'.retriesUsed = ka.retriesUsed
<1>1. conn \in ConnRecord /\ ka \in KeepAliveRecord
  BY DEF ConnSound
<1>2. CASE PeerPosts
  <2>1. conn' = [conn EXCEPT !.posted = @ + 1]
    BY <1>2 DEF PeerPosts
  <2>2. conn'.ended = conn.ended
    BY <1>1, <2>1 DEF ConnRecord
  <2> QED BY <1>2, <2>2
<1>3. ASSUME NEW e \in ConnRecord, conn' = Disconnected(e), ka' = Disposed \/ ~conn.gone,
             e.posted = conn.posted, e.handled = conn.handled, e.gone = conn.gone,
             e.releases = conn.releases, conn.ended => e.ended
      PROVE  Quiet /\ (conn.ended => conn'.ended)
  <2>1. /\ conn'.gone /\ conn'.posted = e.posted /\ conn'.handled = e.handled
        /\ conn'.ended = e.ended
    BY <1>3, ConnFacts, DisconnectedFields
  <2>2. Disposed.isRetry = ka.isRetry /\ Disposed.retriesUsed = ka.retriesUsed
    BY <1>1, DisposedFields
  <2> QED BY <1>3, <2>1, <2>2
<1>4. CASE Data
  <2>1. PICK a \in conn.arrived + 1 .. Ends[conn.posted] :
         \/ /\ conn.gone
            /\ conn' = [conn EXCEPT !.arrived = a]
            /\ UNCHANGED ka
         \/ /\ ~conn.gone
            /\ conn' = Limited(Read(a))
         \/ /\ ~conn.gone
            /\ conn' = [Read(a) EXCEPT !.batch = NewMessages(a)]
    BY <1>4 DEF Data
  <2> DEFINE c == Read(a)
  <2>2. /\ c \in ConnRecord /\ c.posted = conn.posted /\ c.handled = conn.handled
        /\ c.ended = conn.ended /\ c.gone = conn.gone /\ c.releases = conn.releases
    BY ReadFields
  <2> HIDE DEF c
  <2>3. CASE conn' = [conn EXCEPT !.arrived = a] /\ ka' = ka
    BY <1>1, <2>3 DEF ConnRecord
  <2>4. CASE ~conn.gone /\ conn' = Limited(c)
    <3> DEFINE e == [c EXCEPT !.ended = TRUE, !.batch = <<>>]
    <3>1. /\ e \in ConnRecord /\ e.posted = conn.posted /\ e.handled = conn.handled
          /\ e.gone = conn.gone /\ e.releases = conn.releases /\ e.ended
      BY <2>2, NothingToHandle DEF ConnRecord
    <3>2. conn' = Disconnected(e)
      BY <2>4 DEF Limited
    <3> HIDE DEF e
    <3> QED BY <1>3, <2>4, <3>1, <3>2
  <2>5. CASE ~conn.gone /\ conn' = [c EXCEPT !.batch = NewMessages(a)]
    BY <2>2, <2>5 DEF ConnRecord
  <2> QED BY <2>1, <2>3, <2>4, <2>5 DEF c
<1>5. CASE HandleMessage
  <2>1. conn.batch # <<>> /\ ~conn.gone
    BY <1>5 DEF HandleMessage, ConnSound, GivenUp
  <2>2. \/ conn' = Limited(conn)
        \/ conn' = [conn EXCEPT !.batch = Tail(@), !.handled = Append(@, Head(conn.batch))]
    BY <1>5 DEF HandleMessage
  <2>3. CASE conn' = Limited(conn)
    <3> DEFINE e == [conn EXCEPT !.ended = TRUE, !.batch = <<>>]
    <3>1. /\ e \in ConnRecord /\ e.posted = conn.posted /\ e.handled = conn.handled
          /\ e.gone = conn.gone /\ e.releases = conn.releases /\ e.ended
      BY <1>1, NothingToHandle DEF ConnRecord
    <3>2. conn' = Disconnected(e)
      BY <2>3 DEF Limited
    <3> HIDE DEF e
    <3> QED BY <1>3, <2>1, <3>1, <3>2
  <2>4. CASE conn' = [conn EXCEPT !.batch = Tail(@), !.handled = Append(@, Head(conn.batch))]
    BY <1>1, <2>1, <2>4 DEF ConnRecord
  <2> QED BY <2>2, <2>3, <2>4
<1>6. CASE EndEvent
  <2> DEFINE e == [conn EXCEPT !.peer = "seen", !.ended = TRUE]
  <2>1. /\ e \in ConnRecord /\ e.posted = conn.posted /\ e.handled = conn.handled
        /\ e.gone = conn.gone /\ e.releases = conn.releases /\ e.ended
    BY <1>1 DEF ConnRecord
  <2>2. conn' = Disconnected(e) /\ ka' = Disposed
    BY <1>6 DEF EndEvent
  <2> HIDE DEF e
  <2> QED BY <1>3, <2>1, <2>2
<1>7. CASE ErrorEvent
  <2> DEFINE e == [conn EXCEPT !.failed = TRUE]
  <2>1. /\ e \in ConnRecord /\ e.posted = conn.posted /\ e.handled = conn.handled
        /\ e.gone = conn.gone /\ e.releases = conn.releases /\ e.ended = conn.ended
    BY <1>1 DEF ConnRecord
  <2>2. conn' = Disconnected(e) /\ ka' = Disposed
    BY <1>7 DEF ErrorEvent
  <2> HIDE DEF e
  <2> QED BY <1>3, <2>1, <2>2
<1>8. CASE Tick
  <2>1. /\ ~conn.gone /\ conn' = [conn EXCEPT !.ended = conn'.ended]
        /\ conn.ended => conn'.ended
    BY <1>8, TickCases
  <2>2. conn'.posted = conn.posted /\ conn'.handled = conn.handled
    BY <1>1, <2>1 DEF ConnRecord
  <2> QED BY <2>1, <2>2
<1>9. CASE PeerEnds
  <2>1. conn' = [conn EXCEPT !.peer = "ended"] /\ ka' = ka
    BY <1>9 DEF PeerEnds
  <2> QED BY <1>1, <2>1 DEF ConnRecord
<1>10. CASE UNCHANGED <<conn, ka>>
  BY <1>10
<1> QED
  BY <1>2, <1>4, <1>5, <1>6, <1>7, <1>8, <1>9, <1>10
  DEF ConnNext, ServerSends, Transmits, Drains, RunsListener, Breaks, Closes

\* What a step of the connection does to the write side.
LEMMA WriteSide ==
  ASSUME ConnNext
  PROVE  /\ [Next]_vars
         /\ destroyed => destroyed'
         /\ \/ Transmits
            \/ ~conn.ended /\ Send
            \/ sent' = sent /\ wire' = wire
<1>1. ASSUME Idle, Write
      PROVE  /\ [Next]_vars /\ (destroyed => destroyed')
             /\ (~conn.ended /\ Send) \/ (sent' = sent /\ wire' = wire)
  BY <1>1 DEF Write, Next, vars, outVars, Send, Destroy
<1>2. ASSUME UNCHANGED outVars
      PROVE  [Next]_vars /\ (destroyed => destroyed') /\ sent' = sent /\ wire' = wire
  BY <1>2 DEF outVars, vars
<1>3. CASE PeerPosts \/ PeerEnds \/ Data \/ EndEvent \/ ErrorEvent
  <2>1. UNCHANGED outVars
    BY <1>3 DEF PeerPosts, PeerEnds, Data, EndEvent, ErrorEvent, outVars
  <2> QED BY <1>2, <2>1
<1>4. CASE HandleMessage
  <2>1. Idle /\ (Write \/ UNCHANGED outVars)
    BY <1>4 DEF HandleMessage, Dispatch
  <2> QED BY <1>1, <1>2, <2>1
<1>5. CASE Tick
  <2>1. Idle /\ (Write \/ UNCHANGED outVars)
    BY <1>5 DEF Tick, AtRest, outVars
  <2> QED BY <1>1, <1>2, <2>1
<1>6. CASE ServerSends
  BY <1>1, <1>6 DEF ServerSends, AtRest
<1>7. CASE Transmits
  BY <1>7 DEF Transmits, Transmit, Next
<1>8. CASE Drains \/ RunsListener \/ Breaks \/ Closes
  BY <1>8 DEF Drains, RunsListener, Breaks, Closes, Drain, RunListener, Destroy, Close, Next
<1> QED BY <1>3, <1>4, <1>5, <1>6, <1>7, <1>8 DEF ConnNext

LEMMA ConnInitSound == ConnInit => ConnInv
<1> SUFFICES ASSUME ConnInit PROVE ConnInv
  OBVIOUS
<1>1. IInv
  BY InitInv DEF ConnInit
<1>2. /\ 0 \in 0 .. MaxPosted /\ 0 \in 0 .. Ends[MaxPosted] /\ Ends[0] = 0 /\ 0 \in 0 .. 3
      /\ 0 \in 0 .. RetryCount /\ 0 \in 0 .. Deadline + 1
      /\ InitialTimeout \in 0 .. InitialTimeout /\ 1 \in 0 .. 1
  BY Bounds, EndsFacts
<1>3. /\ conn = [posted |-> 0, arrived |-> 0, text |-> [m \in 1 .. MaxPosted |-> 0],
                 cut |-> {}, batch |-> <<>>, handled |-> <<>>,
                 ended |-> FALSE, peer |-> "open", failed |-> FALSE, gone |-> FALSE,
                 releases |-> 0]
      /\ ka = [left |-> InitialTimeout, retry |-> 1, isRetry |-> FALSE, retriesUsed |-> 0,
               silence |-> 0]
  BY DEF ConnInit
<1>4. conn \in ConnRecord /\ ka \in KeepAliveRecord
  BY <1>2, <1>3, NothingToHandle DEF ConnRecord, KeepAliveRecord
<1>5. Complete(0) = 0
  <2>1. Complete(0) \in 0 .. MaxPosted /\ Complete(0) <= 0
    BY <1>2, CompleteFacts, CompleteUpTo
  <2> QED BY <2>1, Bounds
<1>6. IncomingInLine
  BY <1>3, <1>5, NothingToHandle DEF IncomingInLine, Follows
<1>7. GivenUp /\ TimersKnow
  BY <1>3, Bounds DEF GivenUp, TimersKnow
<1>8. conn.arrived <= Ends[conn.posted]
  BY <1>2, <1>3
<1> QED BY <1>1, <1>4, <1>6, <1>7, <1>8, ConnParts DEF ConnSound

LEMMA ConnNextSound == ASSUME ConnInv, [ConnNext]_allVars PROVE ConnInv'
<1>1. IInv /\ ConnSound
  BY ConnParts
<1>2. IInv'
  <2>1. [Next]_vars
    BY WriteSide DEF allVars, outVars, vars
  <2> QED BY <1>1, <2>1, NextInv
<1>3. ConnSound'
  <2>1. CASE UNCHANGED <<conn, ka>>
    BY <1>1, <2>1 DEF ConnSound, ConnRecord, KeepAliveRecord, IncomingInLine, Follows, GivenUp,
       TimersKnow
  <2> QED
    BY <1>1, <2>1, PeerPostsSound, PeerEndsSound, DataSound, HandleMessageSound, EndEventSound,
       ErrorEventSound, TickSound
    DEF ConnNext, allVars, ServerSends, Transmits, Drains, RunsListener, Breaks, Closes
<1>4. (IInv /\ ConnSound)' => ConnInv'
  BY ConnParts, PTL
<1> QED BY <1>2, <1>3, <1>4

\* The connection, its timers and its write side are well typed, whatever the
\* lengths of the messages, however the network cuts them, and for every limit.
THEOREM ConnectionTypeCorrect == ConnSpec => []ConnTypeOK
<1>1. ConnInv => ConnTypeOK
  BY DEF ConnInv
<1> QED BY <1>1, ConnInitSound, ConnNextSound, PTL DEF ConnSpec

\* A connection sends through the write side as SocketSend has it, so what is proved
\* of that one alone holds of it within a connection: of the timers, the answers and
\* the ways a connection ends none reaches past the queue.
THEOREM ConnectionSendsInOrder == ConnSpec => KeepsOrder /\ []BacklogCapped
<1>1. ConnInit => Init
  BY DEF ConnInit
<1>2. [ConnNext]_allVars => [Next]_vars
  BY WriteSide DEF allVars, outVars, vars
<1>3. ConnSpec => Spec
  BY <1>1, <1>2, PTL DEF ConnSpec, Spec
<1> QED BY <1>3, Implements, BacklogAlwaysCapped, PTL

\* Whatever is told of a client that is gone comes once: no second reason, no message
\* that was under way and no timer reaches the rest of the server any more.
THEOREM GoneIsQuietCorrect == ConnSpec => GoneIsQuiet
<1> DEFINE Kept == /\ conn'.releases = conn.releases /\ conn'.handled = conn.handled
                   /\ ka'.isRetry = ka.isRetry /\ ka'.retriesUsed = ka.retriesUsed
<1>1. ASSUME ConnInv, ConnInv', [ConnNext]_allVars, conn.gone PROVE Kept
  <2>1. CASE UNCHANGED allVars
    BY <2>1 DEF allVars
  <2>2. CASE ConnNext
    <3>1. ConnSound /\ ConnSound'
      BY <1>1 DEF ConnInv, ConnTypeOK, ConnSound, ConnRecord, KeepAliveRecord
    <3>2. ~PeerPosts
      BY <1>1 DEF PeerPosts, Reachable
    <3>3. /\ conn'.handled = conn.handled /\ conn'.gone /\ ka'.isRetry = ka.isRetry
          /\ ka'.retriesUsed = ka.retriesUsed
      BY <1>1, <2>2, <3>1, <3>2, StepEffects
    <3> QED BY <1>1, <3>1, <3>3 DEF ConnSound, GivenUp
  <2> QED BY <1>1, <2>1, <2>2
<1>2. ConnInv /\ ConnInv' /\ [ConnNext]_allVars => [conn.gone => Kept]_allVars
  BY <1>1
<1>3. ConnSpec => []ConnInv
  BY ConnInitSound, ConnNextSound, PTL DEF ConnSpec
<1> QED BY <1>2, <1>3, PTL DEF ConnSpec, GoneIsQuiet

\* The keep-alive ends a connection at the end of exactly the silence it allows, for
\* every timeout and every number of retries.
THEOREM KeepAliveIsTimelyCorrect == ConnSpec => KeepAliveIsTimely
<1> DEFINE Timely == conn'.ended /\ ~conn.ended <=> ka'.silence = Deadline /\ ~conn.ended
<1>1. ASSUME ConnInv, Tick PROVE Timely
  <2>1. ConnSound
    BY <1>1 DEF ConnInv, ConnTypeOK, ConnSound, ConnRecord, KeepAliveRecord
  <2>2. CASE conn.ended
    BY <2>2
  <2>3. CASE ~conn.ended
    <3>1. /\ ka' \in KeepAliveRecord
          /\ \/ /\ ~conn'.ended /\ ka'.left > 0 /\ ka'.silence = InitialTimeout - ka'.left
             \/ /\ ~conn'.ended /\ ka'.retriesUsed < RetryCount
                /\ ka'.silence = InitialTimeout + ka'.retriesUsed
             \/ conn'.ended /\ ka'.silence = Deadline
      BY <1>1, <2>1, <2>3, TickCases
    <3>2. ka'.left \in 0 .. InitialTimeout /\ ka'.retriesUsed \in 0 .. RetryCount
      BY <3>1 DEF KeepAliveRecord
    <3>3. CASE /\ ~conn'.ended /\ ka'.left > 0 /\ ka'.silence = InitialTimeout - ka'.left
      BY <2>3, <3>2, <3>3, Bounds DEF Deadline
    <3>4. CASE /\ ~conn'.ended /\ ka'.retriesUsed < RetryCount
               /\ ka'.silence = InitialTimeout + ka'.retriesUsed
      BY <2>3, <3>2, <3>4, Bounds DEF Deadline
    <3>5. CASE conn'.ended /\ ka'.silence = Deadline
      BY <2>3, <3>5
    <3> QED BY <3>1, <3>3, <3>4, <3>5
  <2> QED BY <2>2, <2>3
<1>2. ConnInv /\ [ConnNext]_allVars => [Tick => Timely]_allVars
  BY <1>1
<1>3. ConnSpec => []ConnInv
  BY ConnInitSound, ConnNextSound, PTL DEF ConnSpec
<1> QED BY <1>2, <1>3, PTL DEF ConnSpec, KeepAliveIsTimely

------------------------------------------------------------------------------
(* Both directions are ordered channels *)

LEMMA HandledLine ==
  ASSUME ConnSound
  PROVE  /\ conn.handled = Incoming!UpTo(Len(conn.handled))
         /\ Len(conn.handled) \in Len(conn.handled) .. conn.posted
<1>1. conn.handled \in Seq(1 .. MaxPosted) /\ Follows(conn.handled, 0)
  BY ConnFacts DEF ConnSound, IncomingInLine
<1>2. conn.handled = [k \in 1 .. Len(conn.handled) |-> conn.handled[k]]
  BY <1>1
<1>3. \A k \in 1 .. Len(conn.handled) : conn.handled[k] = k
  BY <1>1 DEF Follows
<1>4. Len(conn.handled) \in Len(conn.handled) .. conn.posted
  BY ConnFacts
<1> QED BY <1>2, <1>3, <1>4 DEF Incoming!UpTo

LEMMA IncomingStep ==
  ASSUME ConnSound, ConnSound', ConnNext
  PROVE  [Incoming!Next]_(Incoming!vars)
<1> DEFINE open == ~destroyed /\ ~conn.gone
<1>1. destroyed => destroyed'
  BY WriteSide
<1>2. /\ conn.handled = Incoming!UpTo(Len(conn.handled))
      /\ Len(conn.handled) \in Len(conn.handled) .. conn.posted
  BY HandledLine
<1>3. /\ conn'.handled = Incoming!UpTo(Len(conn'.handled))
      /\ Len(conn'.handled) \in Len(conn'.handled) .. conn'.posted
  <2>1. (/\ conn.handled = Incoming!UpTo(Len(conn.handled))
         /\ Len(conn.handled) \in Len(conn.handled) .. conn.posted)'
    BY HandledLine, PTL
  <2> QED BY <2>1 DEF Incoming!UpTo
<1>4. CASE PeerPosts
  <2>1. /\ open /\ destroyed' = destroyed /\ conn' = [conn EXCEPT !.posted = @ + 1]
    BY <1>4 DEF PeerPosts, Reachable, outVars
  <2>2. conn'.posted = conn.posted + 1 /\ conn'.handled = conn.handled /\ conn'.gone = conn.gone
    BY <2>1 DEF ConnSound, ConnRecord
  <2> QED BY <2>1, <2>2 DEF Incoming!Next, Incoming!Send
<1>5. CASE /\ conn.batch # <<>> /\ ~conn.gone
           /\ conn'.posted = conn.posted /\ conn'.gone = conn.gone
           /\ conn'.handled = Append(conn.handled, Head(conn.batch))
  <2>1. Len(conn'.handled) = Len(conn.handled) + 1 /\ Len(conn.handled) \in Nat
    <3>1. conn.handled \in Seq(1 .. MaxPosted)
      BY ConnFacts
    <3> QED BY <1>5, <3>1
  <2>2. /\ Len(conn'.handled) \in Len(conn.handled) + 1 .. conn.posted
        /\ Len(conn'.handled) \in Len(conn.handled) .. conn.posted
    BY <1>3, <1>5, <2>1, ConnFacts
  <2>3. CASE destroyed' <=> destroyed
    BY <1>3, <1>5, <2>2, <2>3 DEF Incoming!Next, Incoming!Receive
  <2>4. CASE ~destroyed /\ destroyed'
    BY <1>3, <1>5, <2>2, <2>4 DEF Incoming!Next, Incoming!Close
  <2> QED BY <1>1, <2>3, <2>4
<1>6. CASE conn'.posted = conn.posted /\ conn'.handled = conn.handled /\ (conn.gone => conn'.gone)
  <2>1. CASE open' <=> open
    BY <1>6, <2>1 DEF Incoming!vars
  <2>2. CASE open /\ ~open'
    BY <1>2, <1>6, <2>2 DEF Incoming!Next, Incoming!Close
  <2> QED BY <1>1, <1>6, <2>1, <2>2
<1> QED BY <1>4, <1>5, <1>6, StepEffects

------------------------------------------------------------------------------
(* What the handlers are given *)

\* The text of a message whose characters the chunks have spared has the size of what
\* has arrived of it.
SparedIsRead ==
  \A m \in 1 .. MaxPosted :
    Spared(m) => conn.text[m] = Cardinality((1 .. conn.arrived) \cap Body(m))

Decoding ==
  /\ ~conn.gone => CutAt(conn.arrived) \subseteq conn.cut /\ SparedIsRead
  /\ WholeUnlessCut

LEMMA DecodedSpared ==
  ASSUME NEW m, NEW a \in Nat, NEW b \in Nat,
         \A c \in CutAt(b) \cup CutAt(a) : Bytes(c) \cap Body(m) = {}
  PROVE  Decoded(m, b, a) = Cardinality((b + 1 .. a) \cap Body(m))
<1> DEFINE bytes == (b + 1 .. a) \cap Body(m)
           marks == {k \in bytes : \/ \E c \in CutAt(b) : k \in Bytes(c)
                                   \/ \E c \in CutAt(a) : k = c.first}
           kept == {k \in bytes : \A c \in CutAt(b) \cup CutAt(a) : k \notin Bytes(c)}
<1>1. \A k \in bytes, c \in CutAt(b) \cup CutAt(a) : k \notin Bytes(c)
  OBVIOUS
<1>2. \A c \in CutAt(a) : c.first \in Bytes(c)
  <2> TAKE c \in CutAt(a)
  <2>1. c \in Wide
    BY DEF CutAt
  <2>2. c.first \in Nat \ {0} /\ c.last \in c.first + 1 .. c.first + 3
    BY <2>1, WideAssumption
  <2> QED BY <2>2 DEF Bytes
<1>3. marks = {} /\ kept = bytes
  <2>1. \A k \in bytes : ~(\E c \in CutAt(b) : k \in Bytes(c))
    BY <1>1
  <2>2. \A k \in bytes : ~(\E c \in CutAt(a) : k = c.first)
    BY <1>1, <1>2
  <2> QED BY <1>1, <2>1, <2>2
<1>4. Decoded(m, b, a) = Cardinality(kept) + 3 * Cardinality(marks)
  BY DEF Decoded
<1> HIDE DEF marks, kept
<1>5. Cardinality(marks) = 0
  BY <1>3, FS_EmptySet
<1>6. Cardinality(kept) \in Nat
  <2>1. IsFiniteSet(b + 1 .. a) /\ bytes \in SUBSET (b + 1 .. a)
    BY FS_Interval
  <2> QED BY <1>3, <2>1, FS_Subset, FS_CardinalityType
<1> QED BY <1>3, <1>4, <1>5, <1>6

\* A stretch counted in two parts.
LEMMA CountAdds ==
  ASSUME NEW a \in Nat, NEW b \in Nat, b <= a, NEW S
  PROVE  Cardinality((1 .. a) \cap S) = Cardinality((1 .. b) \cap S) + Cardinality((b + 1 .. a) \cap S)
<1> DEFINE p == (1 .. b) \cap S
           q == (b + 1 .. a) \cap S
<1>1. IsFiniteSet(1 .. b) /\ IsFiniteSet(b + 1 .. a)
  BY FS_Interval
<1>2. p \in SUBSET (1 .. b) /\ q \in SUBSET (b + 1 .. a)
  OBVIOUS
<1>3. p \cap q = {} /\ p \cup q = (1 .. a) \cap S
  <2>1. \A k : ~(k \in p /\ k \in q)
    OBVIOUS
  <2>2. 1 .. a = (1 .. b) \cup (b + 1 .. a)
    OBVIOUS
  <2> QED BY <2>1, <2>2
<1> HIDE DEF p, q
<1>4. IsFiniteSet(p) /\ IsFiniteSet(q)
  BY <1>1, <1>2, FS_Subset
<1>5. Cardinality(p) \in Nat /\ Cardinality(q) \in Nat
  BY <1>4, FS_CardinalityType
<1>6. Cardinality(p \cup q) = Cardinality(p) + Cardinality(q) - Cardinality(p \cap q)
  BY <1>4, FS_Union
<1>7. Cardinality(p \cap q) = 0
  BY <1>3, FS_EmptySet
<1>8. Cardinality(p \cup q) = Cardinality(p) + Cardinality(q)
  BY <1>5, <1>6, <1>7
<1>9. Cardinality((1 .. a) \cap S) = Cardinality(p) + Cardinality(q)
  BY <1>3, <1>8
<1> QED BY <1>9 DEF p, q

\* The bytes of a complete message.
LEMMA BodyCount ==
  ASSUME NEW m \in 1 .. MaxPosted, NEW a \in Nat, Ends[m] <= a
  PROVE  Cardinality((1 .. a) \cap Body(m)) = Lengths[m] - 1
<1>1. /\ m \in 0 .. MaxPosted /\ m - 1 \in 0 .. MaxPosted /\ m # 0
      /\ Lengths[m] \in Nat /\ Lengths[m] > 0
  BY Bounds
<1>2. /\ Ends[m] \in Nat /\ Ends[m - 1] \in Nat /\ Ends[m] = Ends[m - 1] + Lengths[m]
  BY <1>1, EndsDefined, EndsFacts
<1>3. (1 .. a) \cap Body(m) = Ends[m - 1] + 1 .. Ends[m] - 1
  BY <1>2 DEF Body
<1> DEFINE e == Ends[m - 1]
           f == Ends[m]
<1>4. e \in Nat /\ f \in Nat /\ f = e + Lengths[m]
  BY <1>2
<1> HIDE DEF e, f
<1>5. Cardinality(e + 1 .. f - 1) = IF e + 1 > f - 1 THEN 0 ELSE (f - 1) - (e + 1) + 1
  <2>1. e + 1 \in Int /\ f - 1 \in Int
    BY <1>4
  <2> QED BY <2>1, FS_Interval
<1>6. Cardinality(e + 1 .. f - 1) = Lengths[m] - 1
  BY <1>1, <1>4, <1>5
<1> QED BY <1>3, <1>6 DEF e, f

\* Reading a chunk keeps what is known of the text.
LEMMA ReadSpared ==
  ASSUME ConnSound, Decoding, ~conn.gone, NEW a \in conn.arrived + 1 .. Ends[conn.posted],
         conn'.arrived = a, conn'.cut = Read(a).cut, conn'.text = Read(a).text
  PROVE  CutAt(conn'.arrived) \subseteq conn'.cut /\ SparedIsRead'
<1>1. /\ a \in Nat /\ conn'.cut = conn.cut \cup CutAt(a)
      /\ conn'.text = [m \in 1 .. MaxPosted |-> conn.text[m] + Decoded(m, conn.arrived, a)]
  BY ReadFields
<1>2. conn.arrived \in Nat /\ conn.arrived <= a
  BY <1>1, ConnFacts
<1>3. CutAt(conn.arrived) \subseteq conn.cut /\ SparedIsRead
  BY DEF Decoding
<1>4. ASSUME NEW m \in 1 .. MaxPosted, Spared(m)'
      PROVE  conn'.text[m] = Cardinality((1 .. conn'.arrived) \cap Body(m))
  <2>1. \A c \in conn.cut \cup CutAt(a) : Bytes(c) \cap Body(m) = {}
    BY <1>1, <1>4 DEF Spared
  <2>2. conn.text[m] = Cardinality((1 .. conn.arrived) \cap Body(m))
    BY <1>3, <2>1 DEF Spared, SparedIsRead
  <2>3. \A c \in CutAt(conn.arrived) \cup CutAt(a) : Bytes(c) \cap Body(m) = {}
    BY <1>3, <2>1
  <2>4. Decoded(m, conn.arrived, a) = Cardinality((conn.arrived + 1 .. a) \cap Body(m))
    BY <1>1, <1>2, <2>3, DecodedSpared
  <2>5. conn'.text[m] = conn.text[m] + Decoded(m, conn.arrived, a)
    BY <1>1
  <2>6. Cardinality((1 .. a) \cap Body(m))
          = Cardinality((1 .. conn.arrived) \cap Body(m))
              + Cardinality((conn.arrived + 1 .. a) \cap Body(m))
    <3> DEFINE b == conn.arrived
               body == Body(m)
    <3>1. b \in Nat /\ b <= a
      BY <1>2
    <3> HIDE DEF b, body
    <3>2. Cardinality((1 .. a) \cap body)
            = Cardinality((1 .. b) \cap body) + Cardinality((b + 1 .. a) \cap body)
      <4>1. a \in Nat
        BY <1>1
      <4> QED BY <3>1, <4>1, CountAdds, Zenon
    <3> QED BY <3>2 DEF b, body
  <2> QED BY <2>2, <2>4, <2>5, <2>6
<1> QED BY <1>1, <1>4 DEF SparedIsRead

\* A message that is complete in what has arrived, and was spared, is whole.
LEMMA SparedWhole ==
  ASSUME ConnSound, SparedIsRead, NEW m \in 1 .. Complete(conn.arrived), Spared(m)
  PROVE  m \in 1 .. MaxPosted /\ Whole(m)
<1>1. /\ Complete(conn.arrived) \in 0 .. MaxPosted
      /\ Ends[Complete(conn.arrived)] <= conn.arrived /\ conn.arrived \in Nat
  BY ConnFacts, CompleteFacts
<1>2. m \in 1 .. MaxPosted /\ m \in 0 .. MaxPosted /\ m <= Complete(conn.arrived)
  BY <1>1, Bounds
<1>3. Ends[m] <= Ends[Complete(conn.arrived)]
  BY <1>1, <1>2, EndsGrow
<1>4. Ends[m] \in Nat /\ Ends[Complete(conn.arrived)] \in Nat
  BY <1>1, <1>2, EndsFacts
<1>5. Ends[m] <= conn.arrived
  BY <1>1, <1>3, <1>4
<1> QED BY <1>1, <1>2, <1>5, BodyCount DEF SparedIsRead, Whole

LEMMA AllSparedWhole ==
  ConnSound /\ SparedIsRead =>
    \A m \in 1 .. Complete(conn.arrived) : Spared(m) => Whole(m)
BY SparedWhole

\* The messages handled are complete in what has arrived.
LEMMA HandledComplete ==
  ASSUME ConnSound, ~conn.gone
  PROVE  \A i \in 1 .. Len(conn.handled) : conn.handled[i] = i /\ i \in 1 .. Complete(conn.arrived)
<1>1. /\ Follows(conn.handled, 0) /\ Len(conn.handled) \in Nat /\ Len(conn.batch) \in Nat
      /\ Len(conn.handled) + Len(conn.batch) = Complete(conn.arrived)
  BY ConnFacts DEF ConnSound, IncomingInLine
<1>2. Complete(conn.arrived) \in Nat
  BY ConnFacts, CompleteFacts, Bounds
<1> DEFINE h == Len(conn.handled)
           b == Len(conn.batch)
           n == Complete(conn.arrived)
<1>3. h \in Nat /\ b \in Nat /\ n \in Nat /\ h + b = n
  BY <1>1, <1>2
<1> HIDE DEF h, b, n
<1>4. h <= n
  BY <1>3
<1>5. \A i \in 1 .. h : 0 + i = i /\ i \in 1 .. n
  BY <1>3, <1>4
<1> QED BY <1>1, <1>5 DEF Follows, h, n

LEMMA AllHandledComplete ==
  ConnSound /\ ~conn.gone => \A i \in 1 .. Len(conn.handled) :
    conn.handled[i] = i /\ i \in 1 .. Complete(conn.arrived)
BY HandledComplete

LEMMA DecodingKept ==
  ASSUME Decoding, conn'.text = conn.text, conn'.cut = conn.cut, conn'.handled = conn.handled,
         \/ conn.gone /\ conn'.gone
         \/ conn'.arrived = conn.arrived /\ (conn.gone => conn'.gone)
  PROVE  Decoding'
<1>1. \A m : Spared(m)' <=> Spared(m)
  BY DEF Spared
<1>2. WholeUnlessCut'
  BY <1>1 DEF Decoding, WholeUnlessCut, Whole
<1>3. ~conn'.gone => CutAt(conn'.arrived) \subseteq conn'.cut /\ SparedIsRead'
  BY <1>1 DEF Decoding, SparedIsRead
<1> QED BY <1>2, <1>3 DEF Decoding

LEMMA DecodingNext == ASSUME ConnSound, ConnSound', ConnNext, Decoding PROVE Decoding'
<1>1. conn \in ConnRecord
  BY DEF ConnSound
<1> DEFINE Kept == conn'.text = conn.text /\ conn'.cut = conn.cut /\ conn'.handled = conn.handled
                   /\ (\/ conn.gone /\ conn'.gone
                       \/ conn'.arrived = conn.arrived /\ (conn.gone => conn'.gone))
<1>2. ASSUME NEW e \in ConnRecord, conn' = Disconnected(e),
             e.releases = IF e.gone THEN 1 ELSE 0
      PROVE  /\ conn'.gone /\ conn'.text = e.text /\ conn'.cut = e.cut
             /\ conn'.handled = e.handled /\ conn'.arrived = e.arrived
  BY <1>2, DisconnectedFields
<1>3. CASE Data
  <2>1. PICK a \in conn.arrived + 1 .. Ends[conn.posted] :
         \/ conn.gone /\ conn' = [conn EXCEPT !.arrived = a]
         \/ ~conn.gone /\ conn' = Limited(Read(a))
         \/ ~conn.gone /\ conn' = [Read(a) EXCEPT !.batch = NewMessages(a)]
    BY <1>3 DEF Data
  <2>2. CASE conn.gone /\ conn' = [conn EXCEPT !.arrived = a]
    <3>1. Kept
      BY <1>1, <2>2 DEF ConnRecord
    <3> QED BY <3>1, DecodingKept
  <2>3. CASE /\ ~conn.gone
             /\ \/ conn' = Limited(Read(a))
                \/ conn' = [Read(a) EXCEPT !.batch = NewMessages(a)]
    <3> DEFINE c == Read(a)
    <3>1. /\ c \in ConnRecord /\ c.handled = conn.handled /\ c.arrived = a
          /\ c.gone = conn.gone /\ c.releases = conn.releases
          /\ c.cut = conn.cut \cup CutAt(a)
          /\ c.text = [m \in 1 .. MaxPosted |-> conn.text[m] + Decoded(m, conn.arrived, a)]
      BY ReadFields
    <3> HIDE DEF c
    <3>2. /\ conn'.handled = conn.handled /\ conn'.arrived = a /\ conn'.cut = c.cut
          /\ conn'.text = c.text
      <4>1. CASE conn' = Limited(c)
        <5> DEFINE e == [c EXCEPT !.ended = TRUE, !.batch = <<>>]
        <5>1. /\ e \in ConnRecord /\ e.handled = c.handled /\ e.arrived = c.arrived
              /\ e.gone = c.gone /\ e.releases = c.releases /\ e.cut = c.cut /\ e.text = c.text
          BY <3>1, NothingToHandle DEF ConnRecord
        <5>2. conn' = Disconnected(e)
          BY <4>1 DEF Limited
        <5> HIDE DEF e
        <5>3. e.releases = IF e.gone THEN 1 ELSE 0
          BY <3>1, <5>1, ConnFacts
        <5> QED BY <1>2, <3>1, <5>1, <5>2, <5>3
      <4>2. CASE conn' = [c EXCEPT !.batch = NewMessages(a)]
        BY <3>1, <4>2 DEF ConnRecord
      <4> QED BY <2>3, <4>1, <4>2 DEF c
    <3>3. CutAt(conn'.arrived) \subseteq conn'.cut /\ SparedIsRead'
      BY <2>3, <3>2, ReadSpared DEF c
    <3>4. ASSUME NEW i \in 1 .. Len(conn.handled), Spared(i)'
          PROVE  conn.handled[i] = i /\ Whole(i)'
      <4>1. conn.handled[i] = i /\ i \in 1 .. Complete(conn.arrived)
        BY <2>3, HandledComplete
      <4>2. /\ conn.arrived \in 0 .. Ends[MaxPosted] /\ a \in 0 .. Ends[MaxPosted]
            /\ conn.arrived <= a
        BY ConnFacts, ReadFields
      <4>3. Complete(conn.arrived) <= Complete(a)
        BY <4>2, CompleteGrows
      <4>4. Complete(conn.arrived) \in Nat /\ Complete(a) \in Nat
        BY <4>2, CompleteFacts, Bounds
      <4>5. i \in 1 .. Complete(conn'.arrived)
        BY <3>2, <4>1, <4>3, <4>4
      <4>6. (ConnSound /\ SparedIsRead =>
               \A m \in 1 .. Complete(conn.arrived) : Spared(m) => Whole(m))'
        BY AllSparedWhole, PTL
      <4> QED BY <3>3, <3>4, <4>1, <4>5, <4>6
    <3>5. WholeUnlessCut'
      BY <3>2, <3>4, <2>3, HandledComplete DEF WholeUnlessCut
    <3> QED BY <3>3, <3>5 DEF Decoding
  <2> QED BY <2>1, <2>2, <2>3
<1>4. CASE HandleMessage
  <2>1. conn.batch # <<>> /\ ~conn.gone
    BY <1>4 DEF HandleMessage, ConnSound, GivenUp
  <2>2. \/ conn' = Limited(conn)
        \/ conn' = [conn EXCEPT !.batch = Tail(@), !.handled = Append(@, Head(conn.batch))]
    BY <1>4 DEF HandleMessage
  <2>3. CASE conn' = Limited(conn)
    <3> DEFINE e == [conn EXCEPT !.ended = TRUE, !.batch = <<>>]
    <3>1. /\ e \in ConnRecord /\ e.handled = conn.handled /\ e.arrived = conn.arrived
          /\ e.gone = conn.gone /\ e.releases = conn.releases /\ e.cut = conn.cut
          /\ e.text = conn.text
      BY <1>1, NothingToHandle DEF ConnRecord
    <3>2. conn' = Disconnected(e)
      BY <2>3 DEF Limited
    <3> HIDE DEF e
    <3>3. e.releases = IF e.gone THEN 1 ELSE 0
      BY <3>1, ConnFacts
    <3>4. Kept
      BY <1>2, <3>1, <3>2, <3>3
    <3> QED BY <3>4, DecodingKept
  <2>4. CASE conn' = [conn EXCEPT !.batch = Tail(@), !.handled = Append(@, Head(conn.batch))]
    <3>1. /\ conn'.text = conn.text /\ conn'.cut = conn.cut /\ conn'.arrived = conn.arrived
          /\ conn'.gone = conn.gone
      BY <1>1, <2>4 DEF ConnRecord
    <3>2. \A m : (Spared(m)' <=> Spared(m)) /\ (Whole(m)' <=> Whole(m))
      BY <3>1 DEF Spared, Whole
    <3>3. \A i \in 1 .. Len(conn'.handled) : conn'.handled[i] = i /\ i \in 1 .. Complete(conn.arrived)
      <4>1. (ConnSound /\ ~conn.gone => \A i \in 1 .. Len(conn.handled) :
               conn.handled[i] = i /\ i \in 1 .. Complete(conn.arrived))'
        BY AllHandledComplete, PTL
      <4>2. Complete(conn'.arrived) = Complete(conn.arrived)
        BY <3>1
      <4> QED BY <2>1, <3>1, <4>1, <4>2
    <3>4. WholeUnlessCut'
      BY <2>1, <3>2, <3>3, SparedWhole DEF WholeUnlessCut, Decoding
    <3>5. SparedIsRead'
      BY <2>1, <3>1, <3>2 DEF Decoding, SparedIsRead
    <3> QED BY <2>1, <3>1, <3>4, <3>5 DEF Decoding
  <2> QED BY <2>2, <2>3, <2>4
<1>5. CASE EndEvent
  <2> DEFINE e == [conn EXCEPT !.peer = "seen", !.ended = TRUE]
  <2>1. /\ e \in ConnRecord /\ e.handled = conn.handled /\ e.arrived = conn.arrived
        /\ e.gone = conn.gone /\ e.releases = conn.releases /\ e.cut = conn.cut
        /\ e.text = conn.text
    BY <1>1 DEF ConnRecord
  <2>2. conn' = Disconnected(e)
    BY <1>5 DEF EndEvent
  <2> HIDE DEF e
  <2>3. e.releases = IF e.gone THEN 1 ELSE 0
    BY <2>1, ConnFacts
  <2>4. Kept
    BY <1>2, <2>1, <2>2, <2>3
  <2> QED BY <2>4, DecodingKept
<1>6. CASE ErrorEvent
  <2> DEFINE e == [conn EXCEPT !.failed = TRUE]
  <2>1. /\ e \in ConnRecord /\ e.handled = conn.handled /\ e.arrived = conn.arrived
        /\ e.gone = conn.gone /\ e.releases = conn.releases /\ e.cut = conn.cut
        /\ e.text = conn.text
    BY <1>1 DEF ConnRecord
  <2>2. conn' = Disconnected(e)
    BY <1>6 DEF ErrorEvent
  <2> HIDE DEF e
  <2>3. e.releases = IF e.gone THEN 1 ELSE 0
    BY <2>1, ConnFacts
  <2>4. Kept
    BY <1>2, <2>1, <2>2, <2>3
  <2> QED BY <2>4, DecodingKept
<1>7. CASE Tick
  <2>1. conn' = [conn EXCEPT !.ended = conn'.ended]
    BY <1>7, TickCases
  <2>2. Kept
    BY <1>1, <2>1 DEF ConnRecord
  <2> QED BY <2>2, DecodingKept
<1>8. CASE PeerPosts \/ PeerEnds
  <2>1. Kept
    BY <1>1, <1>8 DEF PeerPosts, PeerEnds, ConnRecord
  <2> QED BY <2>1, DecodingKept
<1>9. CASE UNCHANGED <<conn, ka>>
  BY <1>9, DecodingKept
<1> QED
  BY <1>3, <1>4, <1>5, <1>6, <1>7, <1>8, <1>9
  DEF ConnNext, ServerSends, Transmits, Drains, RunsListener, Breaks, Closes

LEMMA DecodingInit == ConnInit => Decoding
<1> SUFFICES ASSUME ConnInit PROVE Decoding
  OBVIOUS
<1>1. /\ conn.arrived = 0 /\ conn.handled = <<>> /\ conn.cut = {} /\ ~conn.gone
      /\ conn.text = [m \in 1 .. MaxPosted |-> 0]
  BY DEF ConnInit
<1>2. CutAt(0) = {}
  BY WideAssumption DEF CutAt
<1>3. SparedIsRead
  <2>1. \A S : (1 .. 0) \cap S = {}
    OBVIOUS
  <2>2. Cardinality({}) = 0
    BY FS_EmptySet
  <2> QED BY <1>1, <2>1, <2>2 DEF SparedIsRead
<1>4. WholeUnlessCut
  BY <1>1 DEF WholeUnlessCut
<1> QED BY <1>1, <1>2, <1>3, <1>4 DEF Decoding

\* However the network cuts the stream of the peer, the handlers get its messages in
\* order, every one of them once and none skipped, until the connection is given up; and
\* a message is handed on as it was posted unless a chunk ended inside one of its own
\* characters.  That they do get them, which takes fairness, is left to TLC.
THEOREM IncomingIsOrdered == ConnSpec => Incoming!Spec /\ []WholeUnlessCut
<1>1. ConnInit => Incoming!Init
  BY DEF ConnInit, Init, Incoming!Init
<1>2. ASSUME ConnInv, ConnInv', [ConnNext]_allVars PROVE [Incoming!Next]_(Incoming!vars)
  <2>1. ConnSound /\ ConnSound'
    BY <1>2 DEF ConnInv, ConnTypeOK, ConnSound, ConnRecord, KeepAliveRecord
  <2>2. CASE UNCHANGED allVars
    BY <2>2 DEF allVars, outVars, Incoming!vars
  <2> QED BY <1>2, <2>1, <2>2, IncomingStep
<1>3. ConnSpec => []ConnInv
  BY ConnInitSound, ConnNextSound, PTL DEF ConnSpec
<1>4. ASSUME ConnInv, ConnInv', [ConnNext]_allVars, Decoding PROVE Decoding'
  <2>1. ConnSound /\ ConnSound'
    BY <1>4 DEF ConnInv, ConnTypeOK, ConnSound, ConnRecord, KeepAliveRecord
  <2>2. CASE UNCHANGED allVars
    <3>1. conn' = conn
      BY <2>2 DEF allVars
    <3> QED BY <1>4, <3>1, DecodingKept
  <2> QED BY <1>4, <2>1, <2>2, DecodingNext
<1>5. Decoding => WholeUnlessCut
  BY DEF Decoding
<1>6. ConnSpec => []WholeUnlessCut
  BY <1>3, <1>4, <1>5, DecodingInit, PTL DEF ConnSpec
<1>7. ConnSpec => Incoming!Spec
  BY <1>1, <1>2, <1>3, PTL DEF ConnSpec, Incoming!Spec
<1> QED BY <1>6, <1>7, PTL

LEMMA OutgoingStep ==
  ASSUME IInv, IInv', ConnSound, ConnNext
  PROVE  [Outgoing!Next]_(Outgoing!vars)
<1> DEFINE open == ~destroyed /\ ~conn.ended
<1>1. conn.ended => conn'.ended
  BY StepEffects
<1>2. destroyed => destroyed'
  BY WriteSide
<1>3. /\ wire = Outgoing!UpTo(Len(wire)) /\ Len(wire) \in Len(wire) .. sent
      /\ Len(wire) \in Nat
  BY WireLine DEF Outgoing!UpTo, Channel!UpTo
<1>4. CASE Transmits
  <2>1. /\ sent' = sent /\ destroyed' = destroyed /\ conn' = conn
        /\ wire' = Append(wire, Head(out.buffer))
    BY <1>4 DEF Transmits, Transmit
  <2>2. wire' = Outgoing!UpTo(Len(wire')) /\ Len(wire') \in 0 .. sent'
    <3>1. (wire = Channel!UpTo(Len(wire)) /\ Len(wire) \in 0 .. sent)'
      BY WireLine, PTL
    <3> QED BY <3>1 DEF Outgoing!UpTo, Channel!UpTo
  <2>3. Len(wire') = Len(wire) + 1
    <3>1. wire \in Seq(Messages)
      BY Facts DEF Typed
    <3> QED BY <2>1, <3>1
  <2>4. Len(wire') \in Len(wire) + 1 .. sent
    BY <1>3, <2>1, <2>2, <2>3
  <2> QED BY <2>1, <2>2, <2>4 DEF Outgoing!Next, Outgoing!Receive
<1>5. CASE ~conn.ended /\ Send
  <2>1. open /\ sent' = sent + 1 /\ wire' = wire
    BY <1>5 DEF Send
  <2>2. CASE open'
    BY <2>1, <2>2 DEF Outgoing!Next, Outgoing!Send
  <2>3. CASE ~open'
    BY <1>3, <2>1, <2>3 DEF Outgoing!Next, Outgoing!Close
  <2> QED BY <2>2, <2>3
<1>6. CASE sent' = sent /\ wire' = wire
  <2>1. CASE open' <=> open
    BY <1>6, <2>1 DEF Outgoing!vars
  <2>2. CASE open /\ ~open'
    BY <1>3, <1>6, <2>2 DEF Outgoing!Next, Outgoing!Close
  <2> QED BY <1>1, <1>2, <2>1, <2>2
<1> QED BY <1>4, <1>5, <1>6, WriteSide

\* What the server sends over a connection reaches the peer in order, none of it lost
\* or doubled, until the connection ends, by whichever side and for whatever reason;
\* that it does reach a peer that reads takes fairness and is left to TLC.
THEOREM OutgoingIsOrdered == ConnSpec => Outgoing!Spec
<1>1. ConnInit => Outgoing!Init
  BY DEF ConnInit, Init, Outgoing!Init
<1>2. ASSUME ConnInv, ConnInv', [ConnNext]_allVars PROVE [Outgoing!Next]_(Outgoing!vars)
  <2>1. ConnSound /\ IInv /\ IInv'
    BY <1>2 DEF ConnInv, ConnTypeOK, ConnSound, ConnRecord, KeepAliveRecord
  <2>2. CASE UNCHANGED allVars
    BY <2>2 DEF allVars, outVars, Outgoing!vars
  <2> QED BY <1>2, <2>1, <2>2, OutgoingStep
<1>3. ConnSpec => []ConnInv
  BY ConnInitSound, ConnNextSound, PTL DEF ConnSpec
<1> QED BY <1>1, <1>2, <1>3, PTL DEF ConnSpec, Outgoing!Spec
=============================================================================
