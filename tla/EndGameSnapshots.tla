-------------------------- MODULE EndGameSnapshots --------------------------
(***************************************************************************)
(* The decks, jokers and summaries that players show each other around the *)
(* end of a match.  The server keeps the last one that each player sent of *)
(* each kind, answers a request for it from there or passes the request    *)
(* on, and forwards the answer.  Requests and answers travel on            *)
(* connections that keep their order and are lost with the player who      *)
(* drops.                                                                  *)
(*                                                                         *)
(* The game clients are external: they ask, answer what they are asked     *)
(* with their state of the moment, and may send a snapshot unasked.  A     *)
(* snapshot is whose it is and a number that grows as its player plays on. *)
(***************************************************************************)
EXTENDS Naturals, Sequences, FiniteSets

CONSTANTS
  Players,
  Kinds,       \* of "deck", "jokers" and "summary"
  None,        \* no player, no snapshot
  MaxAsks,     \* bound: the requests of each player
  MaxOffers,   \* bound: the snapshots each sends unasked
  MaxVersion,  \* bound: the states each goes through
  MaxMoves     \* bound: departures, returns, matches started and ended

Snapshot == [owner : Players, version : Nat]

ASSUME SnapshotAssumption ==
  /\ None \notin Players \cup Snapshot /\ Kinds \subseteq {"deck", "jokers", "summary"}
  /\ MaxAsks \in [Players -> Nat] /\ MaxOffers \in [Players -> Nat]
  /\ MaxVersion \in [Players -> Nat \ {0}] /\ MaxMoves \in Nat

VARIABLES
  lobby,   \* the lobby, as far as snapshots go
  client,  \* external: each player's game
  up,      \* what is under way to the server
  down,    \* what is under way to the clients
  waiting, \* history: requests that are to be answered
  moves    \* bound

vars == <<lobby, client, up, down, waiting, moves>>

Request == [type : {"get"}, kind : Kinds, target : Players \cup {None}, fresh : BOOLEAN]
Answer ==
  [type : {"receive"}, kind : Kinds, snapshot : Snapshot,
   claimed : Players,                    \* sourcePlayerId
   requester : Players \cup {None}]      \* requesterPlayerId
Relayed == [type : {"get"}, kind : Kinds, requester : Players]
Shown == [type : {"receive"}, kind : Kinds, source : Players, snapshot : Snapshot]

TypeOK ==
  /\ lobby \in
       [inGame : BOOLEAN,
        seated : SUBSET Players, away : SUBSET Players,  \* away: in a reserved slot
        inMatch : SUBSET Players,
        cache : [Players -> [Kinds -> Snapshot \cup {None}]]]  \* endGameSnapshots
  /\ client \in
       [Players -> [version : Nat,
                    shown : [Players -> [Kinds -> Snapshot \cup {None}]]]]
  /\ up \in [Players -> Seq(Request \cup Answer)]
  /\ down \in [Players -> Seq(Relayed \cup Shown)]
  /\ waiting \subseteq [by : Players, target : Players, kind : Kinds, since : Nat]
  /\ moves \in [asks : [Players -> Nat], offers : [Players -> Nat], others : Nat]

NoSnapshots == [q \in Players |-> [k \in Kinds |-> None]]

Init ==
  /\ lobby = [inGame |-> FALSE, seated |-> Players, away |-> {}, inMatch |-> {},
              cache |-> NoSnapshots]
  /\ client = [p \in Players |-> [version |-> 1, shown |-> NoSnapshots]]
  /\ up = [p \in Players |-> <<>>]
  /\ down = [p \in Players |-> <<>>]
  /\ waiting = {}
  /\ moves = [asks |-> [p \in Players |-> 0], offers |-> [p \in Players |-> 0],
              others |-> 0]

------------------------------------------------------------------------------
(* Helpers *)

\* getEnemies
Enemies(p) ==
  {q \in lobby.seated \ {p} :
     lobby.inGame => p \in lobby.inMatch /\ q \in lobby.inMatch}

\* each member of a set is sent a message
Sent(recipients, msg) ==
  [q \in Players |-> IF q \in recipients THEN Append(down[q], msg) ELSE down[q]]

KeepFirst(c, p, k, s) ==  \* fault: what was stored before prevails
  IF c[p][k] = None THEN [c EXCEPT ![p][k] = s] ELSE c

\* storeEndGameSnapshot
Stored(c, p, k, s) == [c EXCEPT ![p][k] = s]

\* the source of an answer is its sender
Source(p, msg) == p

------------------------------------------------------------------------------
(* External: the clients *)

Connected(p) == p \notin lobby.away

\* getEndGameSummary alone has a fresh flag
MayBeFresh(k) == k = "summary"

Ask(p) ==
  /\ Connected(p) /\ moves.asks[p] < MaxAsks[p]
  /\ moves' = [moves EXCEPT !.asks[p] = @ + 1]
  /\ \E k \in Kinds, q \in (Players \ {p}) \cup {None}, fresh \in BOOLEAN :
       /\ fresh => MayBeFresh(k) /\ q # None
       /\ up' = [up EXCEPT ![p] =
            Append(@, [type |-> "get", kind |-> k, target |-> q, fresh |-> fresh])]
       /\ waiting' = IF ~ {p, q} \subseteq lobby.seated THEN waiting
                     ELSE waiting \cup
                            {[by |-> p, target |-> q, kind |-> k,
                              since |-> IF fresh THEN client[q].version ELSE 0]}
  /\ UNCHANGED <<lobby, client, down>>

\* A client may take anyone for the source of what it sends.
Answered(p, k, r) ==
  \E claimed \in {p, r} \ {None} :
    up' = [up EXCEPT ![p] =
      Append(@, [type |-> "receive", kind |-> k, claimed |-> claimed, requester |-> r,
                 snapshot |-> [owner |-> p, version |-> client[p].version]])]

\* It shows its snapshot unasked.
Offer(p) ==
  /\ Connected(p) /\ moves.offers[p] < MaxOffers[p]
  /\ moves' = [moves EXCEPT !.offers[p] = @ + 1]
  /\ \E k \in Kinds : Answered(p, k, None)
  /\ UNCHANGED <<lobby, client, down, waiting>>

PlayOn(p) ==
  /\ client[p].version < MaxVersion[p]
  /\ client' = [client EXCEPT ![p].version = @ + 1]
  /\ UNCHANGED <<lobby, up, down, waiting, moves>>

Satisfied(w, p, msg) ==
  /\ w.by = p /\ w.target = msg.source /\ w.kind = msg.kind
  /\ msg.snapshot.version >= w.since

ClientReceives(p) ==
  /\ down[p] # <<>>
  /\ down' = [down EXCEPT ![p] = Tail(@)]
  /\ LET msg == Head(down[p]) IN
     \/ /\ msg.type = "get" /\ Answered(p, msg.kind, msg.requester)
        /\ UNCHANGED <<client, waiting>>
     \/ /\ msg.type = "receive"
        /\ client' = [client EXCEPT ![p].shown[msg.source][msg.kind] = msg.snapshot]
        /\ waiting' = {w \in waiting : ~Satisfied(w, p, msg)}
        /\ UNCHANGED up
  /\ UNCHANGED <<lobby, moves>>

------------------------------------------------------------------------------
(* The server *)

Show(p, k, source, s) ==
  [type |-> "receive", kind |-> k, source |-> source, snapshot |-> s]

CachedIsEnough(p, msg) ==  \* fault: what is stored answers a fresh request as well
  LET s == lobby.cache[msg.target][msg.kind] IN
  IF s # None THEN Sent({p}, Show(p, msg.kind, msg.target, s))
  ELSE Sent({msg.target} \cap lobby.seated,
            [type |-> "get", kind |-> msg.kind, requester |-> p])

\* requestEndGameSnapshot of a player about another: the stored snapshot, and the
\* request is passed on unless that was enough
RequestFromTarget(p, msg) ==
  LET s == lobby.cache[msg.target][msg.kind]
      relayed == [type |-> "get", kind |-> msg.kind, requester |-> p]
      shown == Show(p, msg.kind, msg.target, s)
      asked == {msg.target} \cap lobby.seated
  IN  IF s = None THEN Sent(asked, relayed)
      ELSE IF ~msg.fresh THEN Sent({p}, shown)
      ELSE [q \in Players |->
              IF q = p THEN Append(down[q], shown)
              ELSE IF q \in asked THEN Append(down[q], relayed) ELSE down[q]]

\* requestEndGameSnapshot
HandleRequest(p, msg) ==
  /\ msg.type = "get"
  /\ down' = IF msg.target # None THEN RequestFromTarget(p, msg)
             ELSE Sent(Enemies(p), [type |-> "get", kind |-> msg.kind, requester |-> p])
  /\ UNCHANGED lobby

\* storeAndForwardEndGameSnapshot
HandleAnswer(p, msg) ==
  /\ msg.type = "receive"
  /\ LET source == Source(p, msg)
         shown == Show(p, msg.kind, source, msg.snapshot)
     IN  /\ lobby' = [lobby EXCEPT !.cache = Stored(@, source, msg.kind, msg.snapshot)]
         /\ down' = IF msg.requester # None THEN Sent({msg.requester} \cap lobby.seated, shown)
                    ELSE Sent(lobby.seated \ {source}, shown)

ServerReceives(p) ==
  /\ up[p] # <<>>
  /\ up' = [up EXCEPT ![p] = Tail(@)]
  /\ LET msg == Head(up[p]) IN
     \/ p \notin lobby.seated /\ UNCHANGED <<lobby, down>>
     \/ p \in lobby.seated /\ (HandleRequest(p, msg) \/ HandleAnswer(p, msg))
  /\ UNCHANGED <<client, waiting, moves>>

------------------------------------------------------------------------------
(* The lobby, of which somebody stays *)

Moves == moves.others < MaxMoves /\ moves' = [moves EXCEPT !.others = @ + 1]

NobodyWaits(p) == {w \in waiting : p \notin {w.by, w.target}}

LeavesSeat(p) ==
  /\ p \in lobby.seated /\ lobby.seated # {p} /\ Moves
  /\ waiting' = NobodyWaits(p)
  /\ UNCHANGED client

\* Its connection is lost in a match: its slot is reserved.
Drop(p) ==
  /\ LeavesSeat(p) /\ lobby.inGame /\ p \in lobby.inMatch
  /\ lobby' = [lobby EXCEPT !.seated = @ \ {p}, !.away = @ \cup {p}]
  /\ up' = [up EXCEPT ![p] = <<>>]
  /\ down' = [down EXCEPT ![p] = <<>>]

Leave(p) ==
  /\ LeavesSeat(p)
  /\ lobby' = [lobby EXCEPT !.seated = @ \ {p}, !.inMatch = @ \ {p}]
  /\ UNCHANGED <<up, down>>

\* rejoinLobby, as it was; joinLobby, between matches
Return(p) ==
  /\ p \notin lobby.seated /\ (p \in lobby.away \/ ~lobby.inGame) /\ Moves
  /\ lobby' = [lobby EXCEPT !.seated = @ \cup {p}, !.away = @ \ {p}]
  /\ UNCHANGED <<client, up, down, waiting>>

\* startGame and startCoopSavedRun
StartGame ==
  /\ ~lobby.inGame /\ Moves
  /\ lobby' = [lobby EXCEPT !.inGame = TRUE, !.cache = NoSnapshots,
                            !.inMatch = @ \cup lobby.seated]
  /\ UNCHANGED <<client, up, down, waiting>>

\* finalizeMatchResults
FinishMatch ==
  /\ lobby.inGame /\ Moves
  /\ lobby' = [lobby EXCEPT !.inGame = FALSE, !.inMatch = @ \ lobby.seated]
  /\ UNCHANGED <<client, up, down, waiting>>

Next ==
  \/ \E p \in Players :
       \/ Ask(p) \/ Offer(p) \/ PlayOn(p) \/ ClientReceives(p)
       \/ ServerReceives(p) \/ Drop(p) \/ Leave(p) \/ Return(p)
  \/ StartGame \/ FinishMatch

\* Connections deliver, the server handles and the clients answer.
Fairness ==
  \A p \in Players : WF_vars(ClientReceives(p)) /\ WF_vars(ServerReceives(p))

Spec == Init /\ [][Next]_vars /\ Fairness

------------------------------------------------------------------------------
(* Properties *)

\* What a client shows as another player's is that player's own, and a later
\* answer, stored, forwarded or shown to all, never replaces it by an older one.
SnapshotsGetNewer ==
  [][\A p \in Players, q \in Players, k \in Kinds :
       LET old == client[p].shown[q][k]  new == client'[p].shown[q][k] IN
       /\ new # None => new.owner = q
       /\ old # None => new # None /\ new.version >= old.version]_vars

\* A request about a player of the lobby is answered unless one of the two leaves,
\* and a fresh one with what the target had when it was asked, or later.
RequestsAreAnswered ==
  \A p \in Players, q \in Players :
    (\E w \in waiting : w.by = p /\ w.target = q) ~>
      ~ \E w \in waiting : w.by = p /\ w.target = q
=============================================================================
