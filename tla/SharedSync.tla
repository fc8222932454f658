----------------------------- MODULE SharedSync -----------------------------
(***************************************************************************)
(* What the players of one run share: the cards of the whole lobby, the    *)
(* hand levels of a sync group (a team, or everybody in a co-op lobby) and *)
(* the money they send each other.  The server keeps one book of entries   *)
(* per group and passes every report on to the peers; reports and          *)
(* messages travel on connections that keep their order but are lost with  *)
(* the player who drops, so the server replays its book to who returns.    *)
(*                                                                         *)
(* The game clients are external: they report what their player does,      *)
(* apply what they are sent in order, but bring no card back that they     *)
(* removed, and report their money after every change of it.  Money is     *)
(* counted from what a run starts with.                                    *)
(***************************************************************************)
EXTENDS Integers, Sequences, SequencesExt

CONSTANTS
  Players,
  Group,        \* the sync group of each player: getClientSharedSyncGroupId
  Cards, Hands, \* what an entry of the book is about
  Data,         \* the data of a card, the level of a hand
  Start,        \* the data every client starts a run with
  Gone,         \* the entry of a removed card
  NoEntry,      \* nothing was reported yet
  MaxEvents     \* bound: runs started, reports made and connections lost

Keys == Cards \cup Hands

GLOBAL == 0   \* GLOBAL_COOP_SYNC_GROUP_ID

Groups == {GLOBAL} \cup {Group[p] : p \in Players}

ASSUME SharedAssumption ==
  /\ Players # {} /\ Group \in [Players -> Nat]
  /\ Cards \cap Hands = {} /\ Start \in Data /\ Gone \notin Data /\ NoEntry \notin Data
  /\ Gone # NoEntry
  /\ MaxEvents \in Nat

VARIABLES
  server,  \* the lobby, as far as it shares things
  client,  \* external: each player's game
  up,      \* reports under way to the server
  down,    \* messages under way to the clients
  seen     \* history and bounds

vars == <<server, client, up, down, seen>>

Report ==
  [type : {"entry"}, run : Nat, key : Keys, val : Data \cup {Gone}]
  \cup [type : {"money"}, run : Nat, amount : Int]
  \cup [type : {"give"}, run : Nat, to : Players, amount : Nat, money : Int]

Message ==
  [type : {"entry"}, run : Nat, key : Keys, val : Data \cup {Gone}]
  \cup [type : {"delta", "money"}, amount : Int]  \* moneyUpdate: delta, money
  \cup [type : {"start"}, run : Nat] \cup [type : {"over"}]

TypeOK ==
  /\ server \in
       [running : BOOLEAN,                     \* lobby.isInGame
        seated : SUBSET Players,               \* the others hold a reserved slot
        inMatch : SUBSET Players,              \* isInMatch, or as it was saved
        book : [Groups -> [Keys -> Data \cup {Gone, NoEntry}]],  \* decks, handLevels
        reported : [Players -> Int]]           \* reportedMoney, or as it was saved
  /\ client \in
       [Players -> [run : Nat,                 \* the run it plays, 0 for none
                    copy : [Keys -> Data \cup {Gone}],
                    wallet : Int]]
  /\ up \in [Players -> Seq(Report)]
  /\ down \in [Players -> Seq(Message)]
  /\ seen \in
       [wrote : [Players -> SUBSET Keys],      \* what a player reported in this run
        stray : [Players -> SUBSET Keys],      \* its reports of an earlier run, taken
                                               \* in this one
        strayMoney : SUBSET Players,           \* whose money was last reported in one
        runs : 0 .. MaxEvents,
        events : 0 .. MaxEvents]

EmptyBook == [g \in Groups |-> [k \in Keys |-> NoEntry]]
NewCopy == [k \in Keys |-> Start]

Init ==
  /\ server = [running |-> FALSE, seated |-> Players, inMatch |-> {},
               book |-> EmptyBook, reported |-> [p \in Players |-> 0]]
  /\ client = [p \in Players |-> [run |-> 0, copy |-> NewCopy, wallet |-> 0]]
  /\ up = [p \in Players |-> <<>>]
  /\ down = [p \in Players |-> <<>>]
  /\ seen = [wrote |-> [p \in Players |-> {}], stray |-> [p \in Players |-> {}],
             strayMoney |-> {}, runs |-> 0, events |-> 0]

------------------------------------------------------------------------------
(* Contexts *)

\* getActiveClientSharedSyncContext, for a player whose report is served
Active(p) == server.running /\ p \in server.inMatch

\* getClientSharedSyncGroupIdForOption
BookOf(p, k) == IF k \in Cards THEN GLOBAL ELSE Group[p]

PeersEverywhere(p, k) ==  \* fault: hand levels go to every player
  (server.seated \cap server.inMatch) \ {p}

\* getLobbyActiveSharedSyncGroupPlayersForOption without the reporter
Peers(p, k) ==
  {q \in (server.seated \cap server.inMatch) \ {p} : BookOf(q, k) = BookOf(p, k)}

\* what is sent to each member of a set on its connection
Sent(d, recipients, m) ==
  [q \in Players |-> IF q \in recipients THEN Append(d[q], m) ELSE d[q]]

Entry(run, k, v) == [type |-> "entry", run |-> run, key |-> k, val |-> v]

------------------------------------------------------------------------------
(* External: what a client does.  A player handles a card it has. *)

\* Who returns first takes in what the server replays, its money last.
Returning(p) == \E i \in DOMAIN down[p] : down[p][i].type = "money"

Playing(p) == p \in server.seated /\ client[p].run # 0 /\ ~Returning(p)

Room == seen.events < MaxEvents

\* It changes or removes a card, or a hand reaches a level.
ReportEntry(p) ==
  /\ Playing(p) /\ Room
  /\ \E k \in Keys, v \in (Data \ {Start}) \cup {Gone} :
       /\ v = Gone => k \in Cards
       /\ client[p].copy[k] \notin {Gone, v}
       /\ client' = [client EXCEPT ![p].copy[k] = v]
       /\ up' = [up EXCEPT ![p] = Append(@, Entry(client[p].run, k, v))]
       /\ seen' = [seen EXCEPT !.wrote[p] = @ \cup {k}, !.events = @ + 1]
  /\ UNCHANGED <<server, down>>

\* It offers a peer a dollar, or all it has.
OfferMoney(p) ==
  /\ Playing(p) /\ Room
  /\ \E q \in Players, a \in {1, client[p].wallet} :
       /\ a > 0
       /\ up' = [up EXCEPT ![p] =
            Append(@, [type |-> "give", run |-> client[p].run, to |-> q, amount |-> a,
                       money |-> client[p].wallet])]
  /\ seen' = [seen EXCEPT !.events = @ + 1]
  /\ UNCHANGED <<server, client, down>>

MoneyReported(p, money) ==
  [up EXCEPT ![p] =
     Append(@, [type |-> "money", run |-> client[p].run, amount |-> money])]

\* It earns a dollar.
Earn(p) ==
  /\ Playing(p) /\ Room
  /\ client' = [client EXCEPT ![p].wallet = @ + 1]
  /\ up' = MoneyReported(p, client[p].wallet + 1)
  /\ seen' = [seen EXCEPT !.events = @ + 1]
  /\ UNCHANGED <<server, down>>

\* It applies the next message.
Receive(p) ==
  LET m == Head(down[p]) IN
  /\ p \in server.seated /\ down[p] # <<>>
  /\ down' = [down EXCEPT ![p] = Tail(@)]
  /\ \/ /\ m.type = "entry"
        /\ client' = [client EXCEPT ![p].copy[m.key] = IF @ = Gone THEN Gone ELSE m.val]
        /\ UNCHANGED <<up, seen>>
     \/ /\ m.type = "delta"
        /\ client' = [client EXCEPT ![p].wallet = @ + m.amount]
        /\ up' = MoneyReported(p, client[p].wallet + m.amount)
        /\ UNCHANGED seen
     \/ /\ m.type = "money"
        /\ client' = [client EXCEPT ![p].wallet = m.amount]
        /\ UNCHANGED <<up, seen>>
     \/ /\ m.type = "start"
        /\ client' = [client EXCEPT ![p] =
             [run |-> m.run, copy |-> NewCopy, wallet |-> 0]]
        /\ UNCHANGED up
        /\ seen' = [seen EXCEPT !.wrote[p] = {}]
     \/ /\ m.type = "over"
        /\ client' = [client EXCEPT ![p].run = 0]
        /\ UNCHANGED <<up, seen>>
  /\ UNCHANGED server

------------------------------------------------------------------------------
(* The server handles a report *)

Served(p, type) == up[p] # <<>> /\ Head(up[p]).type = type

Taken(p) == [up EXCEPT ![p] = Tail(@)]

\* teamCardSyncAction passes on everything but news of a removed card,
\* teamHandLevelSyncAction everything but the level it has.
Accepts(p, m) ==
  LET old == server.book[BookOf(p, m.key)][m.key] IN
  IF m.key \in Cards THEN m.val = Gone \/ old # Gone ELSE old # m.val

TeamCardOrLevelSync(p) ==
  LET m == Head(up[p]) IN
  /\ Served(p, "entry") /\ up' = Taken(p)
  /\ \/ /\ Active(p) /\ Accepts(p, m)
        /\ server' = [server EXCEPT !.book[BookOf(p, m.key)][m.key] = m.val]
        /\ down' = Sent(down, Peers(p, m.key), m)
        /\ seen' = IF m.run = seen.runs THEN seen
                   ELSE [seen EXCEPT !.stray[p] = @ \cup {m.key}]
     \/ /\ ~(Active(p) /\ Accepts(p, m))
        /\ UNCHANGED <<server, down, seen>>
  /\ UNCHANGED client

MoneySeen(p, run) ==
  [seen EXCEPT !.strayMoney = IF run = seen.runs THEN @ \ {p} ELSE @ \cup {p}]

\* syncMoneyAction
SyncMoney(p) ==
  /\ Served(p, "money") /\ up' = Taken(p)
  /\ server' = [server EXCEPT !.reported[p] = Head(up[p]).amount]
  /\ seen' = MoneySeen(p, Head(up[p]).run)
  /\ UNCHANGED <<client, down>>

Delta(a) == [type |-> "delta", amount |-> a]

MoneySentToTarget(p, q, a) ==  \* fault: the sender is not told
  Sent(down, {q}, Delta(a))

\* the two moneyUpdate messages of a transfer
MoneyUpdates(p, q, a) == Sent(Sent(down, {p}, Delta(-a)), {q}, Delta(a))

\* sendTeamMoneyAction; what it refuses it answers with an error
SendTeamMoney(p) ==
  LET m == Head(up[p])
      may == /\ Active(p) /\ m.to \in server.seated \cap server.inMatch /\ m.to # p
             /\ Group[m.to] = Group[p]
  IN
  /\ Served(p, "give") /\ up' = Taken(p)
  /\ \/ /\ may /\ m.money >= m.amount
        /\ server' = [server EXCEPT !.reported[p] = m.money - m.amount,
                                    !.reported[m.to] = @ + m.amount]
        /\ down' = MoneyUpdates(p, m.to, m.amount)
        /\ seen' = MoneySeen(p, m.run)
     \/ /\ may /\ m.money < m.amount
        /\ server' = [server EXCEPT !.reported[p] = m.money]
        /\ seen' = MoneySeen(p, m.run)
        /\ UNCHANGED down
     \/ /\ ~may
        /\ UNCHANGED <<server, down, seen>>
  /\ UNCHANGED client

------------------------------------------------------------------------------
(* The lobby around it *)

\* startGameAction: the books of the last run are cleared first
StartGame ==
  /\ ~server.running /\ Room
  /\ server' = [server EXCEPT !.running = TRUE, !.book = EmptyBook,
                !.inMatch = @ \cup server.seated,
                !.reported = [p \in Players |-> IF p \in server.seated THEN 0 ELSE @[p]]]
  /\ down' = Sent(down, server.seated, [type |-> "start", run |-> seen.runs + 1])
  /\ seen' = [seen EXCEPT !.runs = @ + 1, !.events = @ + 1, !.stray = [p \in Players |-> {}],
                !.strayMoney = {}]
  /\ UNCHANGED <<client, up>>

\* finalizeMatchResults: only who is seated is taken out of the match
FinishMatch ==
  /\ server.running
  /\ server' = [server EXCEPT !.running = FALSE, !.inMatch = @ \ server.seated]
  /\ down' = Sent(down, server.seated \cap server.inMatch, [type |-> "over"])
  /\ UNCHANGED <<client, up, seen>>

\* The connection ends; a slot keeps the player's part of the match and money.
Drop(p) ==
  /\ p \in server.seated /\ server.seated # {p} /\ server.running /\ p \in server.inMatch
  /\ Room
  /\ server' = [server EXCEPT !.seated = @ \ {p}]
  /\ up' = [up EXCEPT ![p] = <<>>]
  /\ down' = [down EXCEPT ![p] = <<>>]
  /\ seen' = [seen EXCEPT !.events = @ + 1]
  /\ UNCHANGED client

LiveEntries(p) ==  \* fault: removed cards are not replayed
  {k \in Keys : server.book[BookOf(p, k)][k] \notin {NoEntry, Gone}}

\* the entries of a player's books
Entries(p) == {k \in Keys : server.book[BookOf(p, k)][k] # NoEntry}

\* syncTeamDeckForClient and syncTeamHandLevelsForClient, one message an entry
Replay(p) ==
  LET keys == SetToSeq(Entries(p)) IN
  [i \in DOMAIN keys |-> Entry(seen.runs, keys[i], server.book[BookOf(p, keys[i])][keys[i]])]

\* rejoinLobbyAction ends in syncJoinedLobbyClientState, which replays the books
\* unless a match is on that the player is not in.
Rejoin(p) ==
  /\ p \notin server.seated
  /\ server' = [server EXCEPT !.seated = @ \cup {p}]
  /\ down' = [down EXCEPT ![p] =
       (IF server.running /\ p \notin server.inMatch THEN <<>> ELSE Replay(p))
       \o <<[type |-> "money", amount |-> server.reported[p]]>>]
  /\ seen' = [seen EXCEPT !.wrote[p] = 
       {k \in @ : server.book[BookOf(p, k)][k] = NoEntry \/ client[p].copy[k] = Gone}]
  /\ UNCHANGED <<client, up>>

Next ==
  \/ \E p \in Players :
       \/ ReportEntry(p) \/ Earn(p) \/ OfferMoney(p) \/ Receive(p)
       \/ TeamCardOrLevelSync(p) \/ SyncMoney(p) \/ SendTeamMoney(p)
       \/ Drop(p) \/ Rejoin(p)
  \/ StartGame \/ FinishMatch

Spec == Init /\ [][Next]_vars

------------------------------------------------------------------------------
(* Properties *)

\* a player in the match whose game plays the run the server runs
InRun(p) == server.running /\ p \in server.seated \cap server.inMatch /\ client[p].run = seen.runs

Under(p, k) == \E i \in DOMAIN down[p] : down[p][i].type = "entry" /\ down[p][i].key = k

\* A card that somebody removed is gone from every game, or the news of it is
\* under way: a late report, a return after the removal or the player's own copy
\* never brings it back.
RemovedCardsStayGone ==
  \A p \in Players, k \in Cards :
    InRun(p) /\ server.book[GLOBAL][k] = Gone /\ client[p].copy[k] # Gone
      => Under(p, k) \/ k \in seen.stray[p]

\* A player who only follows has what the server has, once nothing is under way:
\* reports reach every member of their group, in the order the server took them,
\* and no member of another group.
FollowersAgree ==
  \A p \in Players, k \in Keys :
    LET entry == server.book[BookOf(p, k)][k] IN
    InRun(p) /\ k \notin seen.wrote[p] \cup seen.stray[p] /\ ~Under(p, k)
      => client[p].copy[k] = IF entry = NoEntry THEN Start ELSE entry

\* The money the server believes a player has is the money of its game whenever
\* nothing is under way between them, whatever transfers, refusals and returns
\* came before.
QuietMoneyAgrees ==
  \A p \in Players :
    InRun(p) /\ up[p] = <<>> /\ down[p] = <<>> /\ p \notin seen.strayMoney
      => server.reported[p] = client[p].wallet
=============================================================================
