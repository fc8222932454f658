----------------------------- MODULE Connection -----------------------------
(***************************************************************************)
(* One client connection: cutting what arrives into messages and           *)
(* dispatching them, the keep-alive timers, the ways a connection ends and *)
(* the one disconnect the rest of the server hears of, over the write side *)
(* of SocketSend.                                                          *)
(*                                                                         *)
(* The peer posts messages of some length, and the network delivers the    *)
(* bytes in chunks of any size.  Each chunk is decoded on its own, so a    *)
(* character that two of them share is lost.  Time passes in ticks of the  *)
(* retry timeout.  The socket is external: after end() it takes no writes, and   *)
(* it reports the peer's end, an error, and its close.                     *)
(***************************************************************************)
EXTENDS SocketSend, Integers, FiniteSets

CONSTANTS
  Lengths,         \* the lengths of the messages the peer may post, line end included
  Wide,            \* the characters of several bytes: where in the peer's stream each lies
  Kinds,           \* "keepAlive", "keepAliveAck", "routed" or "invalid", of each
  MaxLength,       \* MAX_INCOMING_MESSAGE_BYTES and MAX_INCOMING_BUFFER_BYTES
  InitialTimeout,  \* KEEP_ALIVE_INITIAL_TIMEOUT, in ticks
  RetryCount       \* KEEP_ALIVE_RETRY_COUNT

ASSUME ConnectionAssumption ==
  /\ Lengths \in Seq(Nat \ {0, 1}) /\ Len(Kinds) = Len(Lengths)
  /\ InitialTimeout \in Nat \ {0, 1} /\ RetryCount \in Nat \ {0}
  /\ MaxLength \in Nat

MaxPosted == Len(Lengths)

VARIABLES
  conn,  \* the connection, its peer and its handlers
  ka     \* the keep-alive manager

outVars == <<out, sent, wire, destroyed>>
allVars == <<outVars, conn, ka>>

\* where the n-th message ends in the stream of the peer
Ends[n \in 0 .. MaxPosted] == IF n = 0 THEN 0 ELSE Ends[n - 1] + Lengths[n]

\* the bytes of a message without its line end, and those of a character
Body(m) == Ends[m - 1] + 1 .. Ends[m] - 1
Bytes(c) == c.first .. c.last

\* Characters are of up to four bytes, within one message, and do not overlap.
ASSUME WideAssumption ==
  /\ \A c \in Wide :
       /\ c.first \in Nat \ {0} /\ c.last \in c.first + 1 .. c.first + 3
       /\ \E m \in 1 .. MaxPosted : Bytes(c) \subseteq Body(m)
  /\ \A c, d \in Wide : c = d \/ Bytes(c) \cap Bytes(d) = {}

Deadline == InitialTimeout + RetryCount

ConnTypeOK ==
  /\ TypeOK
  /\ conn \in
       [posted : 0 .. MaxPosted,
        arrived : 0 .. Ends[MaxPosted],    \* how much of the stream has come in
        text : [1 .. MaxPosted -> Nat],    \* the size of each message as decoded so far
        cut : SUBSET Wide,                 \* history: characters that chunks ended inside
        batch : Seq(1 .. MaxPosted),       \* messages of the chunk being handled
        handled : Seq(1 .. MaxPosted),     \* messages given to onMessage
        ended : BOOLEAN,                   \* socket.end() was called
        peer : {"open", "ended", "seen"},  \* the peer's side; its end was reported
        failed : BOOLEAN,                  \* the error was reported
        gone : BOOLEAN,                    \* isDisconnected
        releases : 0 .. 3]                 \* calls of onDisconnected
  /\ ka \in
       [left : 0 .. InitialTimeout,        \* keepAliveTimer, 0 when it is not armed
        retry : 0 .. 1,                    \* retryTimer
        isRetry : BOOLEAN, retriesUsed : 0 .. RetryCount,
        silence : 0 .. Deadline + 1]       \* history: ticks since data came

ConnInit ==
  /\ Init
  /\ conn = [posted |-> 0, arrived |-> 0, text |-> [m \in 1 .. MaxPosted |-> 0],
             cut |-> {}, batch |-> <<>>, handled |-> <<>>,
             ended |-> FALSE, peer |-> "open", failed |-> FALSE, gone |-> FALSE,
             releases |-> 0]
  /\ ka = [left |-> InitialTimeout, retry |-> 1, isRetry |-> FALSE, retriesUsed |-> 0,
           silence |-> 0]

------------------------------------------------------------------------------
(* Helpers.  c is a state of conn. *)

\* No callback is running.
AtRest == Idle /\ conn.batch = <<>>

DisconnectAgain(c) ==  \* fault: the second reason counts as well
  [c EXCEPT !.gone = TRUE, !.releases = @ + 1]

\* disconnectClient, but for the timers
Disconnected(c) == IF c.gone THEN c ELSE [c EXCEPT !.gone = TRUE, !.releases = @ + 1]

\* keepAlive.dispose
Disposed == [ka EXCEPT !.left = 0, !.retry = 0]

\* writeSocketMessage on a socket that may have been ended: such a write fails.
\* At the bound of SocketSend nothing more is written.
Write ==
  \/ (destroyed \/ sent = MaxMessages) /\ UNCHANGED outVars
  \/ ~conn.ended /\ Send
  \/ /\ conn.ended /\ ~destroyed /\ sent < MaxMessages
     /\ destroyed' = TRUE
     /\ UNCHANGED <<out, sent, wire>>

------------------------------------------------------------------------------
(* External: the peer, until the server has given the connection up *)

Reachable == AtRest /\ ~destroyed /\ ~conn.gone /\ conn.peer = "open"

PeerPosts ==
  /\ Reachable /\ conn.posted < MaxPosted
  /\ conn' = [conn EXCEPT !.posted = @ + 1]
  /\ UNCHANGED <<outVars, ka>>

PeerEnds ==
  /\ Reachable
  /\ conn' = [conn EXCEPT !.peer = "ended"]
  /\ UNCHANGED <<outVars, ka>>

------------------------------------------------------------------------------
(* The socket's events *)

\* the messages that are complete in the first a bytes
Complete(a) == CHOOSE n \in 0 .. MaxPosted :
  Ends[n] <= a /\ (n < MaxPosted => a < Ends[n + 1])

ReportRest(a) ==  \* fault: a message that came in pieces is handled twice
  [i \in 1 .. Complete(a) |-> i]

\* what splitting the buffer at the line ends yields
NewMessages(a) ==
  [i \in 1 .. Complete(a) - Complete(conn.arrived) |-> Complete(conn.arrived) + i]

ForgetIsRetry ==  \* fault: the retries used stay counted
  [ka EXCEPT !.isRetry = FALSE, !.left = InitialTimeout, !.silence = 0]

\* notifyDataReceived
Notified ==
  [ka EXCEPT !.isRetry = FALSE, !.retriesUsed = 0, !.left = InitialTimeout, !.silence = 0]

\* the characters that a chunk ending at a leaves unfinished
CutAt(a) == {c \in Wide : c.first <= a /\ a < c.last}

\* data.toString(): what the bytes from b + 1 to a add to message m, in bytes of the text.
\* U+FFFD, three bytes, stands for the beginning of a character that a chunk cuts, and
\* for each byte of it that comes later.
Decoded(m, b, a) ==
  LET bytes == (b + 1 .. a) \cap Body(m)
      marks == {k \in bytes : \/ \E c \in CutAt(b) : k \in Bytes(c)
                              \/ \E c \in CutAt(a) : k = c.first}
      kept == {k \in bytes : \A c \in CutAt(b) \cup CutAt(a) : k \notin Bytes(c)}
  IN Cardinality(kept) + 3 * Cardinality(marks)

\* dataBuffer += data.toString()
Read(a) ==
  [conn EXCEPT !.arrived = a, !.cut = @ \cup CutAt(a),
               !.text = [m \in 1 .. MaxPosted |-> @[m] + Decoded(m, conn.arrived, a)]]

\* the size of the incomplete message that stays in the buffer
Rest(c) ==
  LET n == Complete(c.arrived) IN IF n = MaxPosted THEN 0 ELSE c.text[n + 1]

\* closeForInputLimit
Limited(c) == Disconnected([c EXCEPT !.ended = TRUE, !.batch = <<>>])

\* 'data': a chunk of any size
Data ==
  /\ AtRest /\ ~destroyed /\ conn.arrived < Ends[conn.posted]
  /\ \E a \in conn.arrived + 1 .. Ends[conn.posted] :
       \E c \in {Read(a)} :
       \/ /\ conn.gone
          /\ conn' = [conn EXCEPT !.arrived = a]
          /\ UNCHANGED ka
       \/ /\ ~conn.gone /\ Rest(c) > MaxLength
          /\ conn' = Limited(c)
          /\ ka' = [Disposed EXCEPT !.silence = 0]
       \/ /\ ~conn.gone /\ Rest(c) <= MaxLength
          /\ conn' = [c EXCEPT !.batch = NewMessages(a)]
          /\ ka' = Notified
  /\ UNCHANGED outVars

\* handleIncomingSocketMessage: a keepAlive, and what cannot be parsed, routed or
\* handled, is answered; a routed message may be.
Dispatch(m) ==
  \/ Kinds[m] \in {"keepAlive", "invalid", "routed"} /\ Write
  \/ Kinds[m] \in {"keepAliveAck", "routed"} /\ UNCHANGED outVars

\* One message of the chunk.
HandleMessage ==
  LET m == Head(conn.batch) IN
  /\ Idle /\ conn.batch # <<>>
  /\ \/ /\ conn.text[m] > MaxLength
        /\ conn' = Limited(conn) /\ ka' = Disposed
        /\ UNCHANGED outVars
     \/ /\ conn.text[m] <= MaxLength
        /\ conn' = [conn EXCEPT !.batch = Tail(@), !.handled = Append(@, m)]
        /\ UNCHANGED ka
        /\ Dispatch(m)

\* 'end', once everything the peer posted was read; Node ends our side as well.
EndEvent ==
  /\ AtRest /\ ~destroyed
  /\ conn.peer = "ended" /\ conn.arrived = Ends[conn.posted]
  /\ conn' = Disconnected([conn EXCEPT !.peer = "seen", !.ended = TRUE])
  /\ ka' = Disposed
  /\ UNCHANGED outVars

\* 'error', which a destruction of the socket reports, after the end or without one
ErrorEvent ==
  /\ AtRest /\ destroyed /\ ~conn.failed
  /\ conn' = Disconnected([conn EXCEPT !.failed = TRUE])
  /\ ka' = Disposed
  /\ UNCHANGED outVars

------------------------------------------------------------------------------
(* The timers.  A tick passes and the timer that is due, if any, fires: the two are *)
(* never due at once, for data arms the longer one while the other runs out.        *)

KeepAliveDue == ka.left = 1
RetryDue == ka.retry = 1

Silent(k) == [k EXCEPT !.silence = IF @ > Deadline THEN @ ELSE @ + 1]

Later(k) == Silent([k EXCEPT !.left = IF @ = 0 THEN 0 ELSE @ - 1, !.retry = 0])

Tick ==
  /\ AtRest /\ (conn.gone => ka.left > 0 \/ ka.retry > 0)
  /\ \/ /\ ~KeepAliveDue /\ ~(RetryDue /\ ka.isRetry)
        /\ ka' = Later(ka)
        /\ UNCHANGED <<outVars, conn>>
     \/ /\ KeepAliveDue
        /\ ka' = [Later(ka) EXCEPT !.isRetry = TRUE, !.retry = 1]
        /\ Write
        /\ UNCHANGED conn
     \/ /\ RetryDue /\ ka.isRetry
        /\ LET last == ka.retriesUsed + 1 >= RetryCount IN
           /\ ka' = [Later(ka) EXCEPT !.retriesUsed = IF last THEN RetryCount ELSE @ + 1,
                                      !.retry = IF last THEN 0 ELSE 1]
           /\ conn' = [conn EXCEPT !.ended = @ \/ last]
        /\ Write

------------------------------------------------------------------------------
(* The write side, as SocketSend has it.  An ended socket emits no drain. *)

ServerSends == AtRest /\ Write /\ UNCHANGED <<conn, ka>>

Transmits == Transmit /\ UNCHANGED <<conn, ka>>

Drains == ~conn.ended /\ AtRest /\ Drain /\ UNCHANGED <<conn, ka>>

RunsListener == RunListener /\ UNCHANGED <<conn, ka>>

Breaks == AtRest /\ Destroy /\ UNCHANGED <<conn, ka>>

Closes == AtRest /\ (conn.failed \/ conn.peer = "seen") /\ Close /\ UNCHANGED <<conn, ka>>

ConnNext ==
  \/ PeerPosts \/ PeerEnds \/ Data \/ HandleMessage \/ EndEvent \/ ErrorEvent \/ Tick
  \/ ServerSends \/ Transmits \/ Drains \/ RunsListener \/ Breaks \/ Closes

\* Node runs the callbacks it owes, and the network carries what is under way.
ConnFairness ==
  /\ WF_allVars(Data) /\ WF_allVars(HandleMessage)
  /\ WF_allVars(EndEvent) /\ WF_allVars(ErrorEvent)
  /\ WF_allVars(Transmits) /\ WF_allVars(Drains) /\ WF_allVars(RunsListener)

ConnSpec == ConnInit /\ [][ConnNext]_allVars /\ ConnFairness

------------------------------------------------------------------------------
(* Properties *)

Outgoing == INSTANCE OrderedChannel
  WITH received <- wire, open <- ~destroyed /\ ~conn.ended

Incoming == INSTANCE OrderedChannel
  WITH sent <- conn.posted, received <- conn.handled, open <- ~destroyed /\ ~conn.gone

\* What the server sends, queued or not, reaches a peer that reads unless the
\* connection ends: a drain is still owed whenever something waits for one.
OutgoingArrives == Outgoing!FairSpec

\* the messages handled that reached the handlers as they were posted
Whole(m) == conn.text[m] = Lengths[m] - 1

\* No chunk ended inside a character of the message.
Spared(m) == \A c \in conn.cut : Bytes(c) \cap Body(m) = {}

WholeUnlessCut ==
  \A i \in 1 .. Len(conn.handled) : Spared(conn.handled[i]) => Whole(conn.handled[i])

SpoiltIfCut ==
  \A i \in 1 .. Len(conn.handled) : Whole(conn.handled[i]) => Spared(conn.handled[i])

\* Wherever the network cuts the stream, the handlers get every message once and in
\* order, until the connection is given up; and as it was posted, whatever became of the
\* others, but for the messages of which a chunk cut a character.
IncomingInOrder == Incoming!FairSpec /\ []WholeUnlessCut /\ []SpoiltIfCut

\* The keep-alive ends the connection at the end of exactly the silence it is meant
\* to allow: no timer or count of an earlier silence cuts a later one short.
KeepAliveIsTimely ==
  [][Tick => (conn'.ended /\ ~conn.ended <=> ka'.silence = Deadline /\ ~conn.ended)]_allVars

\* Once the rest of the server has heard that the client is gone it hears nothing of
\* it any more, whatever else comes: no second reason (an input limit, the end of the
\* peer, an error), no message that was under way, no timer.
GoneIsQuiet ==
  [][conn.gone => /\ conn'.releases = conn.releases /\ conn'.handled = conn.handled
                  /\ ka'.isRetry = ka.isRetry /\ ka'.retriesUsed = ka.retriesUsed]_allVars
=============================================================================
