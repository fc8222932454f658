--------------------------- MODULE CoopBossBlind ---------------------------
(***************************************************************************)
(* The boss blind that the players of a co-op run share: the first report  *)
(* fixes it, a reroll replaces it, and everybody is told.                  *)
(*                                                                         *)
(* One ante of one run is modelled.  What the server sends waits in the    *)
(* player's inbox until its game reads it, so what a player sends may be   *)
(* based on an older state of affairs.  The games are external: they roll  *)
(* only a boss they know, report what they rolled before they do anything  *)
(* else, and announce the blind only when they know of no running reroll,  *)
(* or when the time of its lock has passed without a result.               *)
(***************************************************************************)
EXTENDS Naturals, Sequences, FiniteSets

CONSTANTS
  Players,
  Bosses, NoBoss,
  Nobody,
  MayDrop,      \* bound: the players whose connection may be lost
  MaxRevision,  \* bound: revisions the server hands out
  MaxInbox      \* bound: unread messages of a player who sends

ASSUME BossAssumption ==
  /\ NoBoss \notin Bosses
  /\ Nobody \notin Players
  /\ MayDrop \subseteq Players
  /\ {MaxRevision, MaxInbox} \subseteq Nat \ {0}

VARIABLES
  boss,      \* bossBlinds of the ante: the boss and its revision
  pending,   \* pendingBossRerolls: the source, its revision, the lock holds
  revision,  \* bossBlindRevisions
  place,     \* where a player is: at the table, in a reserved slot, gone
  ready,     \* isReady with readyBlindRow Boss
  fighting,  \* activeBlindStarted with activeBlindRow Boss
  inbox,     \* what the server sent and the player's game has not read
  view,      \* what the player's game has read of the boss
  rolling    \* the player's game rolls a boss and has not reported it

server == <<boss, pending, revision, place, ready, fighting>>
vars == <<server, inbox, view, rolling>>

Known == [key : Bosses \cup {NoBoss}, rev : 0 .. MaxRevision]
Message == [phase : {"start", "result"}, key : Bosses \cup {NoBoss}, rev : 1 .. MaxRevision]
NoReroll == [source |-> Nobody, rev |-> 0, locked |-> FALSE]

TypeOK ==
  /\ boss \in Known
  /\ pending \in [source : Players \cup {Nobody}, rev : 0 .. MaxRevision, locked : BOOLEAN]
  /\ revision \in 0 .. MaxRevision
  /\ place \in [Players -> {"seated", "away", "gone"}]
  /\ ready \in [Players -> BOOLEAN]
  /\ fighting \in BOOLEAN
  /\ inbox \in [Players -> Seq(Message)]
  /\ view \in [Players -> [key : Bosses \cup {NoBoss}, rev : 0 .. MaxRevision, reroll : BOOLEAN]]
  /\ rolling \in [Players -> BOOLEAN]

Init ==
  /\ boss = [key |-> NoBoss, rev |-> 0]
  /\ pending = NoReroll
  /\ revision = 0
  /\ place = [p \in Players |-> "seated"]
  /\ ready = [p \in Players |-> FALSE]
  /\ fighting = FALSE
  /\ inbox = [p \in Players |-> <<>>]
  /\ view = [p \in Players |-> [key |-> NoBoss, rev |-> 0, reroll |-> FALSE]]
  /\ rolling = [p \in Players |-> FALSE]

------------------------------------------------------------------------------
Seated == {p \in Players : place[p] = "seated"}

Broadcast(message) ==
  inbox' = [p \in Players |-> IF p \in Seated THEN Append(inbox[p], message) ELSE inbox[p]]

Start(rev) == [phase |-> "start", key |-> NoBoss, rev |-> rev]
Result(b) == [phase |-> "result", key |-> b.key, rev |-> b.rev]

StartAnytime(p) ==  \* fault: nobody asks whether the boss is being fought
  /\ revision' = revision + 1
  /\ pending' = [source |-> p, rev |-> revision', locked |-> TRUE]
  /\ ready' = [q \in Players |-> ready[q] /\ q \notin Seated]
  /\ Broadcast(Start(revision'))

\* what handleBossRerollStart does with the request of p
AcceptStart(p) ==
  IF fighting \/ (pending.source \notin {p, Nobody} /\ pending.locked)
  THEN UNCHANGED <<revision, pending, ready, inbox>>
  ELSE /\ revision' = revision + 1
       /\ pending' = [source |-> p, rev |-> revision', locked |-> TRUE]
       /\ ready' = [q \in Players |-> ready[q] /\ q \notin Seated]
       /\ Broadcast(Start(revision'))

Sends(p) == p \in Seated /\ revision < MaxRevision /\ Len(inbox[p]) < MaxInbox

\* p rolls a new boss
StartReroll(p) ==
  /\ Sends(p)
  /\ view[p].key # NoBoss /\ ~rolling[p] /\ ~ready[p] /\ ~view[p].reroll
  /\ AcceptStart(p)
  /\ rolling' = [rolling EXCEPT ![p] = TRUE]
  /\ UNCHANGED <<boss, place, fighting, view>>

StoreQuietly(p, key) ==  \* fault: a result is not sent to the others
  LET own == pending.source = p IN
  IF (pending.source \notin {p, Nobody}) \/ (~own /\ boss.key # NoBoss)
  THEN UNCHANGED <<boss, pending, revision, inbox>>
  ELSE /\ boss' = [key |-> key, rev |-> IF own THEN pending.rev ELSE revision + 1]
       /\ revision' = IF own THEN revision ELSE revision + 1
       /\ pending' = IF own THEN NoReroll ELSE pending
       /\ inbox' = [inbox EXCEPT ![p] = Append(@, Result(boss'))]

\* what handleBossResult does with the report of p
Store(p, key) ==
  LET own == pending.source = p IN
  IF pending.source \notin {p, Nobody}
  THEN UNCHANGED <<boss, pending, revision, inbox>>
  ELSE IF ~own /\ boss.key # NoBoss
  THEN /\ inbox' = IF boss.key = key THEN inbox
                   ELSE [inbox EXCEPT ![p] = Append(@, Result(boss))]
       /\ UNCHANGED <<boss, pending, revision>>
  ELSE /\ boss' = [key |-> key, rev |-> IF own THEN pending.rev ELSE revision + 1]
       /\ revision' = IF own THEN revision ELSE revision + 1
       /\ pending' = IF own THEN NoReroll ELSE pending
       /\ Broadcast(Result(boss'))

\* p reports the boss its game rolled, or its first one of the ante
ReportBoss(p, key) ==
  /\ Sends(p)
  /\ rolling[p] \/ (view[p].key = NoBoss /\ ~view[p].reroll)
  /\ Store(p, key)
  /\ rolling' = [rolling EXCEPT ![p] = FALSE]
  /\ UNCHANGED <<place, ready, fighting, view>>

\* the boss blind starts once everybody has announced it
AllReady(announced, where) ==
  /\ \A q \in Players : where[q] = "seated" => announced[q]
  /\ \A q \in Players : where[q] # "away"

ReadyBoss(p) ==
  LET announced == [ready EXCEPT ![p] = TRUE] IN
  /\ p \in Seated /\ ~fighting
  /\ view[p].key # NoBoss /\ ~rolling[p] /\ ~view[p].reroll
  /\ fighting' = AllReady(announced, place)
  /\ ready' = IF fighting' THEN [q \in Players |-> FALSE] ELSE announced
  /\ UNCHANGED <<boss, pending, revision, place, inbox, view, rolling>>

UnreadyBoss(p) ==
  /\ p \in Seated /\ ready[p]
  /\ ready' = [ready EXCEPT ![p] = FALSE]
  /\ UNCHANGED <<boss, pending, revision, place, fighting, inbox, view, rolling>>

\* BOSS_REROLL_LOCK_TIMEOUT_MS have passed since the reroll started
LockTimesOut ==
  /\ pending.locked
  /\ pending' = [pending EXCEPT !.locked = FALSE]
  /\ UNCHANGED <<boss, revision, place, ready, fighting, inbox, view, rolling>>

\* the game of p reads the oldest message
Read(p) ==
  LET message == Head(inbox[p]) IN
  /\ place[p] = "seated" /\ inbox[p] # <<>>
  /\ inbox' = [inbox EXCEPT ![p] = Tail(@)]
  /\ view' = [view EXCEPT ![p] =
       IF message.phase = "start" THEN [@ EXCEPT !.reroll = TRUE]
       ELSE [key |-> message.key, rev |-> message.rev, reroll |-> FALSE]]
  /\ UNCHANGED <<server, rolling>>

\* the game of p waits no longer for the result of a reroll
GiveUp(p) ==
  /\ view[p].reroll /\ inbox[p] = <<>> /\ ~pending.locked
  /\ view' = [view EXCEPT ![p].reroll = FALSE]
  /\ UNCHANGED <<server, inbox, rolling>>

Disconnect(p) ==
  /\ p \in Seated \cap MayDrop /\ Seated # {p}
  /\ place' = [place EXCEPT ![p] = "away"]
  /\ ready' = [ready EXCEPT ![p] = FALSE]
  /\ inbox' = [inbox EXCEPT ![p] = <<>>]
  /\ UNCHANGED <<boss, pending, revision, fighting, view, rolling>>

\* nothing is sent of the boss; the game may have lost what it was to report
RejoinLobby(p) ==
  /\ place[p] = "away" /\ Seated # {}
  /\ place' = [place EXCEPT ![p] = "seated"]
  /\ rolling' \in {rolling, [rolling EXCEPT ![p] = FALSE]}
  /\ view' = [view EXCEPT ![p].reroll = FALSE]
  /\ UNCHANGED <<boss, pending, revision, ready, fighting, inbox>>

\* p leaves for good: it quits, or its grace period runs out.  A run of one
\* player would be abandoned.
Leave(p) ==
  /\ place[p] # "gone" /\ Seated \ {p} # {}
  /\ Cardinality({q \in Players : place[q] # "gone"}) > 2
  /\ place' = [place EXCEPT ![p] = "gone"]
  /\ fighting' = (fighting \/ (place[p] = "away" /\ AllReady(ready, place')))
  /\ ready' = IF fighting' THEN [q \in Players |-> FALSE] ELSE [ready EXCEPT ![p] = FALSE]
  /\ inbox' = [inbox EXCEPT ![p] = <<>>]
  /\ UNCHANGED <<boss, pending, revision, view, rolling>>

Next ==
  \/ \E p \in Players :
       \/ StartReroll(p) \/ ReadyBoss(p) \/ UnreadyBoss(p) \/ Read(p) \/ GiveUp(p)
       \/ \E key \in Bosses : ReportBoss(p, key)
       \/ Disconnect(p) \/ RejoinLobby(p) \/ Leave(p)
  \/ LockTimesOut

Spec == Init /\ [][Next]_vars

------------------------------------------------------------------------------
(* Safety *)

\* The boss does not change under the players who fight it, unless by a reroll
\* of a player whose connection was lost: after it returned it may roll on
\* although its request was turned away.
BossStaysDuringBlind ==
  [][fighting /\ boss.key # NoBoss /\ pending.source \notin MayDrop => boss' = boss]_vars

\* A player who never lost its connection and has read everything it was sent
\* knows the boss of the server, as nothing else would correct it.
FollowersKnowBoss ==
  \A p \in Seated \ MayDrop : inbox[p] = <<>> => view[p].rev = boss.rev
=============================================================================
