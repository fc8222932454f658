--------------------------- MODULE SoloMatchProofs ---------------------------
(***************************************************************************)
(* Proofs about SoloMatch.  Whatever peers report, the memory of the lobby *)
(* keeps its type, a game that goes on has two living participants, one    *)
(* round costs one life and byes go round.  As long as peers report what   *)
(* their own game is in, the participants share one blind, no blind is     *)
(* overdue, the timer is in good hands, and who loses a life to its score  *)
(* was beaten, by whichever rule the blind was scored.                     *)
(*                                                                         *)
(* Handlers are chains of changes of memory: each change has a lemma on    *)
(* what it does to a memory m, and each handler two lemmas that follow its *)
(* chain, one per invariant.                                               *)
(***************************************************************************)
EXTENDS SoloMatch, FiniteSetTheorems, WellFoundedInduction, TLAPS

Present(s) == {p \in Players : s.place[p] # "gone"}
Playing(s) == {p \in Present(s) : s.inMatch[p]}

Alive(s) == lobby.survival \/ \A p \in Playing(s) : s.lives[p] > 0

\* A game that goes on has two participants at the table or waits for somebody.
Enough(s) ==
  s.inGame /\ SeatedPlayers(s) # {} =>
    HasDisconnectedMatchBlocker(s) \/ ~AtMostOne(ActivePlayers(s))

Sound(m) == Alive(m) /\ Enough(m)

\* Byes are spread evenly over S, and the last one went to a member of S with
\* the most byes, if to a member of S at all.
Fair(m, S) ==
  /\ \A p \in Players : m.duel.byes[p] <= m.duel.round
  /\ ~m.inGame => m.duel.last = NoPlayer
  /\ \A p, q \in S : m.duel.byes[p] <= m.duel.byes[q] + 1
  /\ m.duel.last \in S => \A q \in S : m.duel.byes[q] <= m.duel.byes[m.duel.last]

\* The invariant that no peer can break.
SoundInv == TypeOK /\ Sound(g) /\ Fair(g, steady)

\* Nobody is in a blind.
Idle(s) == \A p \in Playing(s) : s.active[p] = NoRow

\* A blind is the blind of all participants, reserved ones included, and stops
\* the timer.  There are none between matches and in survival games.
OneBlind(s) ==
  \/ Idle(s)
  \/ /\ s.inGame /\ ~s.timer.started /\ ~lobby.survival
     /\ \A p, q \in Playing(s) : s.active[p] = s.active[q]

\* Only participants at the table wait for a blind, and only between blinds.
ReadyWait(s) ==
  \A p \in Players : s.ready[p] # NoRow =>
    s.inGame /\ ~lobby.survival /\ p \in ActivePlayers(s) /\ s.active[p] = NoRow

\* The timer of a group is held by a ready participant, that of two by nobody.
InGoodHands(s) ==
  /\ s.timer.controller # NoPlayer =>
       /\ s.timer.controller \in ActivePlayers(s)
       /\ ReadyForPvp(s, s.timer.controller)
       /\ ~HeadToHead
  /\ s.timer.started /\ ~HeadToHead => s.timer.controller # NoPlayer

Orderly(s) ==
  /\ OneBlind(s) /\ ReadyWait(s) /\ InGoodHands(s)
  /\ Present(s) \subseteq lobby.seats

\* A blind that is to be resolved has been, also in the middle of a handler.
NotOverdue(s) ==
  s.inGame /\ SeatedPlayers(s) # {} /\ AllStarted(s) /\ ~HasDisconnectedMatchBlocker(s)
    => /\ ~s.duel.due
       /\ ~ShouldResolveBlindNow(s) \/ \A p \in ActivePlayers(s) : s.hands[p] = Hands

\* The invariant that peers keep when they report what their own game is in.
OrderlyInv == Disciplined => Orderly(g) /\ NotOverdue(g)

------------------------------------------------------------------------------
(* The changes of memory the handlers are made of, one lemma each *)

LEMMA ClearParticipationEffect ==
  ASSUME NEW m \in LobbyMemory, NEW D \in SUBSET Players
  PROVE  LET n == ClearParticipation(m, D) IN
         /\ n \in LobbyMemory
         /\ n.inGame = m.inGame /\ n.place = m.place /\ n.lives = m.lives
         /\ n.score = m.score /\ n.hands = m.hands /\ n.timer = m.timer /\ n.duel = m.duel
         /\ \A p \in Players :
              /\ n.inMatch[p] <=> m.inMatch[p] /\ p \notin D
              /\ n.blocker[p] <=> m.blocker[p] /\ p \notin D
              /\ n.ready[p] = IF p \in D THEN NoRow ELSE m.ready[p]
              /\ n.readyOwn[p] <=> m.readyOwn[p] /\ p \notin D
              /\ n.active[p] = IF p \in D THEN NoRow ELSE m.active[p]
<1> DEFINE n == ClearParticipation(m, D)
           inMatch == [p \in Players |-> m.inMatch[p] /\ p \notin D]
           blocker == [p \in Players |-> m.blocker[p] /\ p \notin D]
           firstReady == [p \in Players |-> m.firstReady[p] /\ p \notin D]
           ready == [p \in Players |-> IF p \in D THEN NoRow ELSE m.ready[p]]
           readyOwn == [p \in Players |-> m.readyOwn[p] /\ p \notin D]
           active == [p \in Players |-> IF p \in D THEN NoRow ELSE m.active[p]]
<1>1. n = [m EXCEPT !.inMatch = inMatch, !.blocker = blocker, !.firstReady = firstReady,
                    !.ready = ready, !.readyOwn = readyOwn, !.active = active]
  BY DEF ClearParticipation, LobbyMemory
<1>2. /\ inMatch \in [Players -> BOOLEAN] /\ blocker \in [Players -> BOOLEAN]
      /\ firstReady \in [Players -> BOOLEAN] /\ readyOwn \in [Players -> BOOLEAN]
      /\ ready \in [Players -> Rows \cup {NoRow}] /\ active \in [Players -> Rows \cup {NoRow}]
  BY DEF LobbyMemory
<1>3. \A p \in Players :
        /\ inMatch[p] <=> m.inMatch[p] /\ p \notin D
        /\ blocker[p] <=> m.blocker[p] /\ p \notin D
        /\ ready[p] = IF p \in D THEN NoRow ELSE m.ready[p]
        /\ readyOwn[p] <=> m.readyOwn[p] /\ p \notin D
        /\ active[p] = IF p \in D THEN NoRow ELSE m.active[p]
  OBVIOUS
<1> HIDE DEF n, inMatch, blocker, firstReady, ready, readyOwn, active
<1>4. n \in LobbyMemory
  BY <1>1, <1>2 DEF LobbyMemory
<1>5. /\ n.inGame = m.inGame /\ n.place = m.place /\ n.lives = m.lives
      /\ n.score = m.score /\ n.hands = m.hands /\ n.timer = m.timer /\ n.duel = m.duel
      /\ n.inMatch = inMatch /\ n.blocker = blocker /\ n.ready = ready
      /\ n.readyOwn = readyOwn /\ n.active = active
  BY <1>1 DEF LobbyMemory
<1> QED
  BY <1>3, <1>4, <1>5 DEF n

LEMMA LoseLifeEffect ==
  ASSUME NEW m \in LobbyMemory, NEW D \in SUBSET Players, lobby.lives \in Nat
  PROVE  LET n == LoseLife(m, D) IN
         /\ n \in LobbyMemory
         /\ n.inGame = m.inGame /\ n.place = m.place /\ n.inMatch = m.inMatch
         /\ n.ready = m.ready /\ n.readyOwn = m.readyOwn /\ n.active = m.active
         /\ n.score = m.score /\ n.hands = m.hands /\ n.timer = m.timer /\ n.duel = m.duel
         /\ \A p \in Players :
              /\ n.blocker[p] <=> m.blocker[p] \/ p \in D
              /\ n.lives[p] <= m.lives[p]
              /\ p \notin D \/ m.blocker[p] => n.lives[p] = m.lives[p]
              /\ p \in D /\ ~m.blocker[p] /\ m.lives[p] > 0 => n.lives[p] = m.lives[p] - 1
<1> DEFINE n == LoseLife(m, D)
           hit == {p \in D : ~m.blocker[p]}
           lives == [p \in Players |-> IF p \in hit /\ m.lives[p] > 0 THEN m.lives[p] - 1
                                       ELSE m.lives[p]]
           blocker == [p \in Players |-> m.blocker[p] \/ p \in hit]
<1>1. n = [m EXCEPT !.lives = lives, !.blocker = blocker]
  BY DEF LoseLife, LobbyMemory
<1>2. lives \in [Players -> 0 .. lobby.lives] /\ blocker \in [Players -> BOOLEAN]
  BY DEF LobbyMemory
<1>3. \A p \in Players :
        /\ blocker[p] <=> m.blocker[p] \/ p \in D
        /\ lives[p] <= m.lives[p]
        /\ p \notin D \/ m.blocker[p] => lives[p] = m.lives[p]
        /\ p \in D /\ ~m.blocker[p] /\ m.lives[p] > 0 => lives[p] = m.lives[p] - 1
  <2> SUFFICES ASSUME NEW p \in Players
               PROVE  /\ blocker[p] <=> m.blocker[p] \/ p \in D
                      /\ lives[p] <= m.lives[p]
                      /\ p \notin D \/ m.blocker[p] => lives[p] = m.lives[p]
                      /\ p \in D /\ ~m.blocker[p] /\ m.lives[p] > 0 => lives[p] = m.lives[p] - 1
    OBVIOUS
  <2>1. m.lives[p] \in Nat
    BY DEF LobbyMemory
  <2>2. p \in hit <=> p \in D /\ ~m.blocker[p]
    OBVIOUS
  <2>3. blocker[p] <=> m.blocker[p] \/ p \in hit
    OBVIOUS
  <2>4. lives[p] = IF p \in hit /\ m.lives[p] > 0 THEN m.lives[p] - 1 ELSE m.lives[p]
    OBVIOUS
  <2> HIDE DEF lives, blocker, hit
  <2> QED
    BY <2>1, <2>2, <2>3, <2>4
<1> HIDE DEF n, lives, blocker
<1>4. n \in LobbyMemory
  BY <1>1, <1>2 DEF LobbyMemory
<1>5. /\ n.inGame = m.inGame /\ n.place = m.place /\ n.inMatch = m.inMatch
      /\ n.ready = m.ready /\ n.readyOwn = m.readyOwn /\ n.active = m.active
      /\ n.score = m.score /\ n.hands = m.hands /\ n.timer = m.timer /\ n.duel = m.duel
      /\ n.lives = lives /\ n.blocker = blocker
  BY <1>1 DEF LobbyMemory
<1> QED
  BY <1>3, <1>4, <1>5 DEF n

\* What a change of the timer alone is.
Retimed(m, n) ==
  /\ n.timer \in AnteTimer
  /\ n = [m EXCEPT !.timer = n.timer]

LEMMA RetimedMemory ==
  ASSUME NEW m \in LobbyMemory, NEW n, Retimed(m, n)
  PROVE  /\ n \in LobbyMemory
         /\ n.inGame = m.inGame /\ n.place = m.place /\ n.inMatch = m.inMatch
         /\ n.lives = m.lives /\ n.blocker = m.blocker /\ n.firstReady = m.firstReady
         /\ n.ready = m.ready /\ n.readyOwn = m.readyOwn /\ n.active = m.active
         /\ n.score = m.score /\ n.hands = m.hands /\ n.duel = m.duel
<1> DEFINE timer == n.timer
<1>1. timer \in AnteTimer /\ n = [m EXCEPT !.timer = timer]
  BY DEF Retimed
<1> HIDE DEF timer
<1> QED
  BY <1>1 DEF LobbyMemory

LEMMA ResetTimerEffect ==
  ASSUME NEW m \in LobbyMemory, lobby.time \in Nat
  PROVE  LET n == ResetTimer(m) IN
         Retimed(m, n) /\ ~n.timer.started /\ n.timer.controller = NoPlayer
<1> DEFINE timer == [started |-> FALSE, locked |-> FALSE, left |-> lobby.time,
                     armed |-> FALSE, lapsed |-> FALSE, controller |-> NoPlayer]
<1>1. timer \in AnteTimer /\ ~timer.started /\ timer.controller = NoPlayer
  BY DEF AnteTimer
<1>2. ResetTimer(m) = [m EXCEPT !.timer = timer]
  BY DEF ResetTimer
<1> HIDE DEF timer
<1>3. ResetTimer(m).timer = timer
  BY <1>2 DEF LobbyMemory
<1> QED
  BY <1>1, <1>2, <1>3 DEF Retimed

LEMMA SetPausedEffect ==
  ASSUME NEW m \in LobbyMemory
  PROVE  LET n == SetPaused(m) IN
         Retimed(m, n) /\ ~n.timer.started /\ n.timer.controller = m.timer.controller
<1> DEFINE timer == [m.timer EXCEPT !.started = FALSE, !.locked = TRUE, !.armed = FALSE,
                                    !.lapsed = FALSE]
<1>1. timer \in AnteTimer /\ ~timer.started /\ timer.controller = m.timer.controller
  BY DEF LobbyMemory, AnteTimer
<1>2. SetPaused(m) = [m EXCEPT !.timer = timer]
  BY DEF SetPaused, LobbyMemory
<1> HIDE DEF timer
<1>3. SetPaused(m).timer = timer
  BY <1>2 DEF LobbyMemory
<1> QED
  BY <1>1, <1>2, <1>3 DEF Retimed

LEMMA SetRunningEffect ==
  ASSUME NEW m \in LobbyMemory, lobby.time \in Nat
  PROVE  LET n == SetRunning(m) IN
         Retimed(m, n) /\ n.timer.started /\ n.timer.controller = m.timer.controller
<1> DEFINE left == IF m.timer.locked THEN m.timer.left ELSE lobby.time
           timer == [m.timer EXCEPT !.started = TRUE, !.locked = TRUE, !.armed = TRUE,
                                    !.lapsed = FALSE, !.left = left]
<1>0. left \in 0 .. lobby.time /\ m.timer \in AnteTimer
  BY DEF LobbyMemory, AnteTimer
<1> HIDE DEF left
<1>1. timer \in AnteTimer /\ timer.started /\ timer.controller = m.timer.controller
  BY <1>0 DEF AnteTimer
<1>2. SetRunning(m) = [m EXCEPT !.timer = timer]
  BY <1>0 DEF SetRunning, LobbyMemory, AnteTimer, left
<1> HIDE DEF timer
<1>3. SetRunning(m).timer = timer
  BY <1>2 DEF LobbyMemory
<1> QED
  BY <1>1, <1>2, <1>3 DEF Retimed

LEMMA ReleaseControllerEffect ==
  ASSUME NEW m \in LobbyMemory, NEW p \in Players
  PROVE  LET n == ReleaseController(m, p) IN
         /\ Retimed(m, n)
         /\ m.timer.controller # p => n = m
         /\ m.timer.controller = p => ~n.timer.started /\ n.timer.controller = NoPlayer
<1>1. CASE m.timer.controller # p
  <2>1. m.timer \in AnteTimer /\ m = [m EXCEPT !.timer = m.timer]
    BY DEF LobbyMemory
  <2> QED
    BY <1>1, <2>1 DEF ReleaseController, Retimed
<1>2. CASE m.timer.controller = p
  <2> DEFINE stopped == IF m.timer.started THEN SetPaused(m) ELSE m
             timer == [stopped.timer EXCEPT !.controller = NoPlayer]
             n == ReleaseController(m, p)
  <2>1. stopped \in LobbyMemory /\ Retimed(m, stopped) /\ ~stopped.timer.started
    <3>1. m.timer \in AnteTimer /\ m = [m EXCEPT !.timer = m.timer]
      BY DEF LobbyMemory
    <3>2. Retimed(m, SetPaused(m)) /\ ~SetPaused(m).timer.started
      BY SetPausedEffect
    <3>3. m.timer.started \in BOOLEAN
      BY DEF LobbyMemory, AnteTimer
    <3> QED
      BY <3>1, <3>2, <3>3, RetimedMemory DEF Retimed
  <2>2. n = [stopped EXCEPT !.timer.controller = NoPlayer]
    BY <1>2 DEF ReleaseController
  <2>3. stopped = [m EXCEPT !.timer = stopped.timer]
    BY <2>1 DEF Retimed
  <2> HIDE DEF stopped, n
  <2>4. timer \in AnteTimer /\ ~timer.started /\ timer.controller = NoPlayer
    BY <2>1 DEF LobbyMemory, AnteTimer
  <2>5. n = [stopped EXCEPT !.timer = timer]
    BY <2>1, <2>2 DEF LobbyMemory
  <2> HIDE DEF timer
  <2>6. n = [m EXCEPT !.timer = timer] /\ n.timer = timer
    BY <2>3, <2>5 DEF LobbyMemory
  <2> QED
    BY <1>2, <2>4, <2>6 DEF Retimed, n
<1> QED
  BY <1>1, <1>2

LEMMA LobbyFacts ==
  ASSUME lobby \in Setups
  PROVE  /\ lobby.lives \in Nat \ {0} /\ lobby.time \in Nat /\ lobby.forgiveness \in Nat
         /\ lobby.seats \in SUBSET Players
         /\ HeadToHead => Cardinality(lobby.seats) <= 2
         /\ Duels => MaxRounds \in Nat \ {0}
<1>1. lobby \in Setup
  BY MatchAssumption
<1> QED
  BY <1>1, MatchAssumption DEF Setup, HeadToHead, Duels

LEMMA NoDuelsType == NoDuels \in DuelState
<1>1. 0 \in 0 .. MaxRounds
  BY MatchAssumption
<1> QED
  BY <1>1 DEF NoDuels, DuelState, Everyone

LEMMA FinishMatchEffect ==
  ASSUME lobby \in Setups, NEW m \in LobbyMemory
  PROVE  LET n == FinishMatch(m) IN
         /\ n \in LobbyMemory
         /\ ~n.inGame /\ n.place = m.place /\ n.lives = m.lives
         /\ ~n.timer.started /\ n.timer.controller = NoPlayer /\ n.duel = NoDuels
         /\ \A p \in Players :
              /\ n.inMatch[p] <=> m.inMatch[p] /\ p \notin ActivePlayers(m)
              /\ n.blocker[p] <=> m.blocker[p] /\ p \notin ActivePlayers(m)
              /\ n.ready[p] = IF p \in ActivePlayers(m) THEN NoRow ELSE m.ready[p]
              /\ n.active[p] = IF p \in ActivePlayers(m) THEN NoRow ELSE m.active[p]
<1> DEFINE A == ActivePlayers(m)
           c == ClearParticipation(m, A)
           r == ResetTimer(c)
           n == FinishMatch(m)
<1>1. A \in SUBSET Players
  BY DEF ActivePlayers, SeatedPlayers
<1>2. n = [r EXCEPT !.inGame = FALSE, !.duel = NoDuels]
  BY DEF FinishMatch
<1> HIDE DEF A
<1>3. /\ c \in LobbyMemory
      /\ c.inGame = m.inGame /\ c.place = m.place /\ c.lives = m.lives
      /\ c.score = m.score /\ c.hands = m.hands /\ c.timer = m.timer /\ c.duel = m.duel
      /\ \A p \in Players :
           /\ c.inMatch[p] <=> m.inMatch[p] /\ p \notin A
           /\ c.blocker[p] <=> m.blocker[p] /\ p \notin A
           /\ c.ready[p] = IF p \in A THEN NoRow ELSE m.ready[p]
           /\ c.readyOwn[p] <=> m.readyOwn[p] /\ p \notin A
           /\ c.active[p] = IF p \in A THEN NoRow ELSE m.active[p]
  BY <1>1, ClearParticipationEffect
<1> HIDE DEF c
<1>4. Retimed(c, r) /\ ~r.timer.started /\ r.timer.controller = NoPlayer
  BY <1>3, LobbyFacts, ResetTimerEffect
<1> HIDE DEF r
<1>5. /\ r \in LobbyMemory
      /\ r.place = c.place /\ r.inMatch = c.inMatch
      /\ r.lives = c.lives /\ r.blocker = c.blocker
      /\ r.ready = c.ready /\ r.active = c.active
  BY <1>3, <1>4, RetimedMemory
<1> HIDE DEF n
<1>6. n \in LobbyMemory
  BY <1>2, <1>5, NoDuelsType DEF LobbyMemory
<1>7. /\ ~n.inGame /\ n.place = r.place /\ n.lives = r.lives /\ n.timer = r.timer
      /\ n.duel = NoDuels /\ n.inMatch = r.inMatch /\ n.blocker = r.blocker
      /\ n.ready = r.ready /\ n.active = r.active
  BY <1>2, <1>5 DEF LobbyMemory
<1> QED
  BY <1>3, <1>4, <1>5, <1>6, <1>7 DEF n, A

------------------------------------------------------------------------------
(* Lives, rounds and participants, whatever peers report *)

SameTable(m, n) == n.place = m.place /\ n.inMatch = m.inMatch

LEMMA SameTableQueries ==
  ASSUME NEW m, NEW n, SameTable(m, n)
  PROVE  /\ SeatedPlayers(n) = SeatedPlayers(m) /\ ActivePlayers(n) = ActivePlayers(m)
         /\ Present(n) = Present(m) /\ Playing(n) = Playing(m)
         /\ HasDisconnectedMatchBlocker(n) = HasDisconnectedMatchBlocker(m)
  BY DEF SameTable, SeatedPlayers, ActivePlayers, Present, Playing,
         HasDisconnectedMatchBlocker

\* What no change but a new match or a new round undoes: the byes counted in
\* this match, and the blocker of a player who has paid for this round.
KeepsRounds(m, n) ==
  /\ \/ /\ n.inGame = m.inGame /\ n.duel.byes = m.duel.byes
        /\ n.duel.last = m.duel.last /\ n.duel.round = m.duel.round
     \/ /\ ~n.inGame /\ n.duel.byes = Everyone(0)
        /\ n.duel.last = NoPlayer /\ n.duel.round = 0
  /\ n.duel.due => n.inGame \/ (m.duel.due /\ ~m.inGame)

Keeps(m, n, E) ==
  /\ KeepsRounds(m, n)
  /\ \A p \in Players : m.blocker[p] \/ ~m.inMatch[p] =>
       /\ p \in E \/ n.lives[p] = m.lives[p]
       /\ n.blocker[p] \/ ~n.inMatch[p]

LEMMA KeepsTransitive ==
  ASSUME NEW m, NEW n, NEW o, NEW E, Keeps(m, n, E), Keeps(n, o, E)
  PROVE  Keeps(m, o, E)
<1>1. \/ /\ o.inGame = m.inGame /\ o.duel.byes = m.duel.byes
         /\ o.duel.last = m.duel.last /\ o.duel.round = m.duel.round
      \/ /\ ~o.inGame /\ o.duel.byes = Everyone(0)
         /\ o.duel.last = NoPlayer /\ o.duel.round = 0
  BY DEF Keeps, KeepsRounds
<1>2. \A p \in Players : m.blocker[p] \/ ~m.inMatch[p] =>
        /\ p \in E \/ o.lives[p] = m.lives[p]
        /\ o.blocker[p] \/ ~o.inMatch[p]
  BY DEF Keeps, KeepsRounds
<1>3. o.duel.due => o.inGame \/ (m.duel.due /\ ~m.inGame)
  BY DEF Keeps, KeepsRounds
<1> QED
  BY <1>1, <1>2, <1>3 DEF Keeps, KeepsRounds

LEMMA KeepsWhatItLeaves ==
  ASSUME NEW m, NEW n, NEW E,
         n.inGame = m.inGame, n.inMatch = m.inMatch, n.lives = m.lives, n.blocker = m.blocker,
         n.duel.byes = m.duel.byes, n.duel.last = m.duel.last, n.duel.round = m.duel.round,
         n.duel.due => m.duel.due \/ m.inGame
  PROVE  Keeps(m, n, E)
  BY DEF Keeps, KeepsRounds

\* Reserved players have lives left: they lose none while they are away.
AwayAlive(m) ==
  lobby.survival \/
    \A p \in Players : m.place[p] = "away" /\ m.inMatch[p] => m.lives[p] > 0

LEMMA AliveIsAwayAlive == ASSUME NEW m, Alive(m) PROVE AwayAlive(m)
  BY DEF Alive, AwayAlive, Playing, Present

LEMMA SoundKept ==
  ASSUME NEW m, NEW n, SameTable(m, n), n.inGame = m.inGame
  PROVE  /\ Enough(m) => Enough(n)
         /\ n.lives = m.lives /\ Alive(m) => Alive(n)
         /\ n.lives = m.lives /\ AwayAlive(m) => AwayAlive(n)
<1>1. /\ SeatedPlayers(n) = SeatedPlayers(m) /\ ActivePlayers(n) = ActivePlayers(m)
      /\ Playing(n) = Playing(m)
      /\ HasDisconnectedMatchBlocker(n) = HasDisconnectedMatchBlocker(m)
  BY SameTableQueries
<1> QED
  BY <1>1 DEF Enough, Alive, AwayAlive, SameTable

LEMMA FinishMatchSound ==
  ASSUME lobby \in Setups, NEW m \in LobbyMemory, AwayAlive(m)
  PROVE  LET n == FinishMatch(m) IN
         n \in LobbyMemory /\ n.place = m.place /\ Sound(n) /\ Keeps(m, n, {})
<1> DEFINE n == FinishMatch(m)
<1>1. /\ n \in LobbyMemory
      /\ ~n.inGame /\ n.place = m.place /\ n.lives = m.lives
      /\ n.duel = NoDuels
      /\ \A p \in Players :
           /\ n.inMatch[p] <=> m.inMatch[p] /\ p \notin ActivePlayers(m)
           /\ n.blocker[p] <=> m.blocker[p] /\ p \notin ActivePlayers(m)
  BY FinishMatchEffect
<1> HIDE DEF n
<1>2. Enough(n)
  BY <1>1 DEF Enough
<1>3. Alive(n)
  <2>1. \A p \in Players : m.place[p] \in {"seated", "away", "gone"}
    BY DEF LobbyMemory
  <2>2. \A p \in Playing(n) : m.place[p] = "away" /\ m.inMatch[p]
    BY <1>1, <2>1 DEF Playing, Present, ActivePlayers, SeatedPlayers
  <2> QED
    BY <1>1, <2>2 DEF Alive, AwayAlive, Playing, Present
<1>4. \A p \in Players : m.blocker[p] \/ ~m.inMatch[p] =>
        n.lives[p] = m.lives[p] /\ (n.blocker[p] \/ ~n.inMatch[p])
  BY <1>1
<1>5. Keeps(m, n, {})
  BY <1>1, <1>4 DEF Keeps, KeepsRounds, NoDuels
<1> QED
  BY <1>1, <1>2, <1>3, <1>5 DEF Sound, n

LEMMA EliminateSound ==
  ASSUME lobby \in Setups, NEW m \in LobbyMemory, AwayAlive(m)
  PROVE  LET n == EliminateWithoutRound(m) IN
         /\ n \in LobbyMemory /\ n.place = m.place /\ Sound(n) /\ Keeps(m, n, {})
<1> DEFINE alive == {p \in ActivePlayers(m) : m.lives[p] > 0}
<1>1. CASE AtMostOne(alive)
  BY <1>1, FinishMatchSound DEF EliminateWithoutRound
<1>2. CASE ~AtMostOne(alive)
  <2> DEFINE D == ActivePlayers(m) \ alive
             n == ClearParticipation(m, D)
  <2>1. D \in SUBSET Players
    BY DEF ActivePlayers, SeatedPlayers
  <2>2. EliminateWithoutRound(m) = n
    BY <1>2 DEF EliminateWithoutRound
  <2>3. \A p \in Players : p \in alive <=> p \in ActivePlayers(m) /\ p \notin D
    BY DEF ActivePlayers, SeatedPlayers
  <2>4. \A p \in alive : m.lives[p] > 0
    OBVIOUS
  <2> HIDE DEF D, alive
  <2>5. /\ n \in LobbyMemory
        /\ n.inGame = m.inGame /\ n.place = m.place /\ n.lives = m.lives /\ n.duel = m.duel
        /\ \A p \in Players :
             /\ n.inMatch[p] <=> m.inMatch[p] /\ p \notin D
             /\ n.blocker[p] <=> m.blocker[p] /\ p \notin D
    BY <2>1, ClearParticipationEffect
  <2> HIDE DEF n
  <2>6. alive \subseteq ActivePlayers(n)
    BY <2>3, <2>5 DEF ActivePlayers, SeatedPlayers, alive
  <2>7. Enough(n)
    BY <1>2, <2>6 DEF Enough, AtMostOne
  <2>8. Alive(n)
    <3>1. \A p \in Players : m.place[p] \in {"seated", "away", "gone"}
      BY DEF LobbyMemory
    <3>2. \A p \in Playing(n) : p \in alive \/ (m.place[p] = "away" /\ m.inMatch[p])
      BY <2>3, <2>5, <3>1 DEF Playing, Present, ActivePlayers, SeatedPlayers
    <3> QED
      BY <2>4, <2>5, <3>2 DEF Alive, AwayAlive, Playing, Present
  <2>9. Keeps(m, n, {})
    BY <2>5 DEF Keeps, KeepsRounds
  <2> QED
    BY <2>2, <2>5, <2>7, <2>8, <2>9 DEF Sound
<1> QED
  BY <1>1, <1>2

\* A change of the pairings that leaves the count of rounds and byes alone.
Paired(m, n) ==
  /\ n.duel \in DuelState
  /\ n = [m EXCEPT !.duel = n.duel]
  /\ n.duel.byes = m.duel.byes /\ n.duel.last = m.duel.last /\ n.duel.round = m.duel.round
  /\ n.duel.due => m.duel.due \/ m.inGame

LEMMA PairedEffect ==
  ASSUME NEW m \in LobbyMemory, NEW n, Paired(m, n)
  PROVE  /\ n \in LobbyMemory
         /\ n.inGame = m.inGame /\ n.place = m.place /\ n.inMatch = m.inMatch
         /\ n.lives = m.lives /\ n.blocker = m.blocker /\ n.timer = m.timer
         /\ n.ready = m.ready /\ n.readyOwn = m.readyOwn /\ n.active = m.active
         /\ n.score = m.score /\ n.hands = m.hands
         /\ Keeps(m, n, {})
<1> DEFINE duel == n.duel
<1>1. duel \in DuelState /\ n = [m EXCEPT !.duel = duel]
  BY DEF Paired
<1> HIDE DEF duel
<1>2. /\ n \in LobbyMemory
      /\ n.inGame = m.inGame /\ n.place = m.place /\ n.inMatch = m.inMatch
      /\ n.lives = m.lives /\ n.blocker = m.blocker /\ n.timer = m.timer
      /\ n.ready = m.ready /\ n.readyOwn = m.readyOwn /\ n.active = m.active
      /\ n.score = m.score /\ n.hands = m.hands
  BY <1>1 DEF LobbyMemory
<1> QED
  BY <1>2, KeepsWhatItLeaves DEF Paired

LEMMA PairedSelf == ASSUME NEW m \in LobbyMemory PROVE Paired(m, m)
<1>1. m.duel \in DuelState /\ m = [m EXCEPT !.duel = m.duel]
  BY DEF LobbyMemory
<1> QED
  BY <1>1 DEF Paired

LEMMA StartDuelRoundEffect ==
  ASSUME NEW m \in LobbyMemory, m.inGame
  PROVE  Paired(m, StartDuelRound(m))
<1> DEFINE duel == [m.duel EXCEPT !.due = TRUE]
           n == [m EXCEPT !.duel = duel]
<1>1. [m EXCEPT !.duel.due = TRUE] = n
  BY DEF LobbyMemory
<1>2. m.duel \in DuelState
  BY DEF LobbyMemory
<1>3. duel \in DuelState /\ duel.byes = m.duel.byes /\ duel.last = m.duel.last
      /\ duel.round = m.duel.round
  BY <1>2 DEF DuelState
<1> HIDE DEF duel
<1>4. n.duel = duel
  BY DEF LobbyMemory
<1>5. Paired(m, n)
  BY <1>3, <1>4 DEF Paired
<1> QED
  BY <1>1, <1>5, PairedSelf DEF StartDuelRound

LEMMA ResolveSoloEliminationsSound ==
  ASSUME lobby \in Setups, NEW m \in LobbyMemory, AwayAlive(m)
  PROVE  LET n == ResolveSoloEliminations(m) IN
         /\ n \in LobbyMemory /\ n.place = m.place /\ Sound(n) /\ Keeps(m, n, {})
<1> DEFINE e == EliminateWithoutRound(m)
           n == StartDuelRound(e)
<1>1. e \in LobbyMemory /\ e.place = m.place /\ Sound(e) /\ Keeps(m, e, {})
  BY EliminateSound
<1>2. ResolveSoloEliminations(m) = e \/ (e.inGame /\ ResolveSoloEliminations(m) = n)
  BY DEF ResolveSoloEliminations
<1> SUFFICES ASSUME e.inGame, ResolveSoloEliminations(m) = n
             PROVE  /\ n \in LobbyMemory /\ n.place = m.place /\ Sound(n) /\ Keeps(m, n, {})
  BY <1>1, <1>2
<1> HIDE DEF e
<1>3. Paired(e, n)
  BY <1>1, StartDuelRoundEffect
<1> HIDE DEF n
<1>4. /\ n \in LobbyMemory /\ n.place = e.place /\ n.inMatch = e.inMatch
      /\ n.inGame = e.inGame /\ n.lives = e.lives /\ Keeps(e, n, {})
  BY <1>1, <1>3, PairedEffect
<1>5. Sound(n) /\ Keeps(m, n, {})
  BY <1>1, <1>4, SoundKept, KeepsTransitive DEF Sound, SameTable
<1> QED
  BY <1>1, <1>4, <1>5

LEMMA ResolveSurvivalSound ==
  ASSUME lobby \in Setups, NEW m \in LobbyMemory, AwayAlive(m), lobby.survival, Enough(m)
  PROVE  LET n == ResolveSurvival(m) IN
         /\ n \in LobbyMemory /\ n.place = m.place /\ Sound(n) /\ Keeps(m, n, {})
<1>1. ResolveSurvival(m) = FinishMatch(m) \/ ResolveSurvival(m) = m
  BY DEF ResolveSurvival
<1>2. Sound(m) /\ Keeps(m, m, {})
  BY DEF Sound, Alive, Keeps, KeepsRounds
<1> QED
  BY <1>1, <1>2, FinishMatchSound

LEMMA ResolveLossesSound ==
  ASSUME lobby \in Setups, NEW m \in LobbyMemory, AwayAlive(m), Enough(m)
  PROVE  LET n == ResolveLosses(m) IN
         /\ n \in LobbyMemory /\ n.place = m.place /\ Sound(n) /\ Keeps(m, n, {})
  BY ResolveSoloEliminationsSound, ResolveSurvivalSound DEF ResolveLosses

LEMMA LoseLifeSound ==
  ASSUME lobby \in Setups, NEW m \in LobbyMemory, NEW D \in SUBSET ActivePlayers(m),
         AwayAlive(m)
  PROVE  LET n == LoseLife(m, D) IN
         /\ n \in LobbyMemory /\ n.place = m.place /\ AwayAlive(n) /\ Keeps(m, n, {})
         /\ Enough(m) => Enough(n)
<1> DEFINE n == LoseLife(m, D)
<1>1. D \in SUBSET Players
  BY DEF ActivePlayers, SeatedPlayers
<1>2. lobby.lives \in Nat
  BY LobbyFacts
<1>3. /\ n \in LobbyMemory
      /\ n.inGame = m.inGame /\ n.place = m.place /\ n.inMatch = m.inMatch
      /\ n.ready = m.ready /\ n.readyOwn = m.readyOwn /\ n.active = m.active
      /\ n.score = m.score /\ n.hands = m.hands /\ n.timer = m.timer /\ n.duel = m.duel
      /\ \A p \in Players :
           /\ n.blocker[p] <=> m.blocker[p] \/ p \in D
           /\ n.lives[p] <= m.lives[p]
           /\ p \notin D \/ m.blocker[p] => n.lives[p] = m.lives[p]
           /\ p \in D /\ ~m.blocker[p] /\ m.lives[p] > 0 => n.lives[p] = m.lives[p] - 1
  BY <1>1, <1>2, LoseLifeEffect
<1> HIDE DEF n
<1>4. \A p \in D : m.place[p] = "seated" /\ m.inMatch[p]
  BY DEF ActivePlayers, SeatedPlayers
<1>5. AwayAlive(n)
  BY <1>3, <1>4 DEF AwayAlive
<1>6. Keeps(m, n, {})
  BY <1>3, <1>4 DEF Keeps, KeepsRounds
<1>7. Enough(m) => Enough(n)
  BY <1>3, SoundKept DEF SameTable
<1> QED
  BY <1>3, <1>5, <1>6, <1>7 DEF n

LEMMA ClearBlindEffect ==
  ASSUME NEW m \in LobbyMemory, NEW D \in SUBSET Players
  PROVE  LET n == ClearBlind(m, D) IN
         /\ n \in LobbyMemory
         /\ n.inGame = m.inGame /\ n.place = m.place /\ n.inMatch = m.inMatch
         /\ n.lives = m.lives /\ n.blocker = m.blocker /\ n.ready = m.ready
         /\ n.readyOwn = m.readyOwn /\ n.score = m.score /\ n.hands = m.hands
         /\ n.timer = m.timer /\ n.duel = m.duel
         /\ \A p \in Players : n.active[p] = IF p \in D THEN NoRow ELSE m.active[p]
         /\ Keeps(m, n, {})
<1> DEFINE active == [p \in Players |-> IF p \in D THEN NoRow ELSE m.active[p]]
           n == ClearBlind(m, D)
<1>1. n = [m EXCEPT !.active = active]
  BY DEF ClearBlind, LobbyMemory
<1>2. /\ active \in [Players -> Rows \cup {NoRow}]
      /\ \A p \in Players : active[p] = IF p \in D THEN NoRow ELSE m.active[p]
  BY DEF LobbyMemory
<1> HIDE DEF active, n
<1>3. n \in LobbyMemory
  BY <1>1, <1>2 DEF LobbyMemory
<1>4. /\ n.inGame = m.inGame /\ n.place = m.place /\ n.inMatch = m.inMatch
      /\ n.lives = m.lives /\ n.blocker = m.blocker /\ n.ready = m.ready
      /\ n.readyOwn = m.readyOwn /\ n.score = m.score /\ n.hands = m.hands
      /\ n.timer = m.timer /\ n.duel = m.duel /\ n.active = active
  BY <1>1 DEF LobbyMemory
<1>5. Keeps(m, n, {})
  BY <1>4, KeepsWhatItLeaves
<1> QED
  BY <1>2, <1>3, <1>4, <1>5 DEF n

LEMMA ClearFirstReadyEffect ==
  ASSUME NEW m \in LobbyMemory, NEW D \in SUBSET Players
  PROVE  LET n == ClearFirstReady(m, D) IN
         /\ n \in LobbyMemory
         /\ n.inGame = m.inGame /\ n.place = m.place /\ n.inMatch = m.inMatch
         /\ n.lives = m.lives /\ n.blocker = m.blocker /\ n.ready = m.ready
         /\ n.readyOwn = m.readyOwn /\ n.active = m.active
         /\ n.score = m.score /\ n.hands = m.hands
         /\ n.timer = m.timer /\ n.duel = m.duel
         /\ Keeps(m, n, {})
<1> DEFINE firstReady == [p \in Players |-> m.firstReady[p] /\ p \notin D]
           n == ClearFirstReady(m, D)
<1>1. n = [m EXCEPT !.firstReady = firstReady]
  BY DEF ClearFirstReady, LobbyMemory
<1>2. firstReady \in [Players -> BOOLEAN]
  OBVIOUS
<1> HIDE DEF firstReady, n
<1>3. n \in LobbyMemory
  BY <1>1, <1>2 DEF LobbyMemory
<1>4. /\ n.inGame = m.inGame /\ n.place = m.place /\ n.inMatch = m.inMatch
      /\ n.lives = m.lives /\ n.blocker = m.blocker /\ n.ready = m.ready
      /\ n.readyOwn = m.readyOwn /\ n.active = m.active
      /\ n.score = m.score /\ n.hands = m.hands
      /\ n.timer = m.timer /\ n.duel = m.duel
  BY <1>1 DEF LobbyMemory
<1>5. Keeps(m, n, {})
  BY <1>4, KeepsWhatItLeaves
<1> QED
  BY <1>3, <1>4, <1>5 DEF n

LEMMA ActiveSubset ==
  ASSUME NEW m PROVE ActivePlayers(m) \in SUBSET Players /\ SeatedPlayers(m) \in SUBSET Players
  BY DEF ActivePlayers, SeatedPlayers

LEMMA ChargeAndEliminateSound ==
  ASSUME lobby \in Setups, NEW m \in LobbyMemory, AwayAlive(m),
         NEW losers \in SUBSET ActivePlayers(m)
  PROVE  LET n == ChargeAndEliminate(m, losers) IN
         /\ n \in LobbyMemory /\ n.place = m.place /\ Sound(n) /\ Keeps(m, n, {})
<1> DEFINE b == ClearBlind(m, ActivePlayers(m))
           h == LoseLife(b, losers)
           e == EliminateWithoutRound(h)
           c == ClearFirstReady(e, ActivePlayers(e))
           d == StartDuelRound(c)
<1>1. ChargeAndEliminate(m, losers) = IF c.inGame THEN d ELSE c
  BY DEF ChargeAndEliminate
<1>2. /\ b \in LobbyMemory /\ b.place = m.place /\ b.inMatch = m.inMatch
      /\ b.inGame = m.inGame /\ b.lives = m.lives /\ Keeps(m, b, {})
  BY ActiveSubset, ClearBlindEffect
<1> HIDE DEF b
<1>3. AwayAlive(b) /\ losers \in SUBSET ActivePlayers(b)
  BY <1>2, SoundKept, SameTableQueries DEF SameTable
<1>4. h \in LobbyMemory /\ h.place = b.place /\ AwayAlive(h) /\ Keeps(b, h, {})
  BY <1>2, <1>3, LoseLifeSound
<1> HIDE DEF h
<1>5. e \in LobbyMemory /\ e.place = h.place /\ Sound(e) /\ Keeps(h, e, {})
  BY <1>4, EliminateSound
<1> HIDE DEF e
<1>6. /\ c \in LobbyMemory
      /\ c.inGame = e.inGame /\ c.place = e.place /\ c.inMatch = e.inMatch
      /\ c.lives = e.lives
      /\ Keeps(e, c, {})
  BY <1>5, ActiveSubset, ClearFirstReadyEffect
<1> HIDE DEF c
<1>7. Sound(c)
  BY <1>5, <1>6, SoundKept DEF Sound, SameTable
<1>12. CASE ~c.inGame
  BY <1>1, <1>2, <1>4, <1>5, <1>6, <1>7, <1>12, KeepsTransitive
<1> SUFFICES ASSUME c.inGame, ChargeAndEliminate(m, losers) = d
             PROVE  /\ d \in LobbyMemory /\ d.place = m.place /\ Sound(d) /\ Keeps(m, d, {})
  BY <1>1, <1>12
<1>8. Paired(c, d)
  BY <1>6, StartDuelRoundEffect
<1> HIDE DEF d
<1>9. /\ d \in LobbyMemory
      /\ d.inGame = c.inGame /\ d.place = c.place /\ d.inMatch = c.inMatch
      /\ d.lives = c.lives
      /\ Keeps(c, d, {})
  BY <1>6, <1>8, PairedEffect
<1>10. Sound(d)
  BY <1>7, <1>9, SoundKept DEF Sound, SameTable
<1>11. Keeps(m, d, {})
  BY <1>2, <1>4, <1>5, <1>6, <1>9, KeepsTransitive
<1> QED
  BY <1>2, <1>4, <1>5, <1>6, <1>9, <1>10, <1>11

LEMMA LosersActive == ASSUME NEW m PROVE Losers(m) \in SUBSET ActivePlayers(m)
  BY DEF Losers

\* Whatever is left of a table, reconcileActiveMatchState sees to it that a
\* match goes on with at least two players or waits for somebody.
LEMMA ReconcileSound ==
  ASSUME lobby \in Setups, NEW m \in LobbyMemory, Alive(m)
  PROVE  LET n == ReconcileActiveMatchState(m) IN
         /\ n \in LobbyMemory /\ n.place = m.place /\ Sound(n) /\ Keeps(m, n, {})
<1>1. AwayAlive(m)
  BY AliveIsAwayAlive
<1>2. CASE ReconcileActiveMatchState(m) = FinishMatch(m)
  BY <1>1, <1>2, FinishMatchSound
<1>3. CASE ReconcileActiveMatchState(m) = ResolveBlind(m)
  BY <1>1, <1>3, ChargeAndEliminateSound, LosersActive DEF ResolveBlind
<1>4. CASE /\ ReconcileActiveMatchState(m) = m
           /\ ~m.inGame \/ HasDisconnectedMatchBlocker(m) \/ ~AtMostOne(ActivePlayers(m))
  BY <1>4 DEF Sound, Enough, Keeps, KeepsRounds
<1> QED
  BY <1>2, <1>3, <1>4 DEF ReconcileActiveMatchState

LEMMA BroadcastEffect ==
  ASSUME lobby \in Setups, NEW m \in LobbyMemory
  PROVE  LET n == BroadcastGlobalBlindStart(m) IN
         /\ n \in LobbyMemory
         /\ n.inGame = m.inGame /\ n.place = m.place /\ n.inMatch = m.inMatch
         /\ n.lives = m.lives /\ n.duel = m.duel
         /\ ~n.timer.started /\ n.timer.controller = NoPlayer
         /\ \A p \in Players :
              /\ n.active[p] = IF p \in ActivePlayers(m) THEN m.ready[p] ELSE m.active[p]
              /\ n.ready[p] = IF p \in ActivePlayers(m) THEN NoRow ELSE m.ready[p]
              /\ p \in ActivePlayers(m) => n.hands[p] = Hands
              /\ n.score[p] = IF p \in ActivePlayers(m) THEN 0 ELSE m.score[p]
         /\ Keeps(m, n, {})
<1> DEFINE A == ActivePlayers(m)
           r == ResetTimer(m)
           active == [p \in Players |-> IF p \in A THEN m.ready[p] ELSE m.active[p]]
           ready == [p \in Players |-> IF p \in A THEN NoRow ELSE m.ready[p]]
           readyOwn == [p \in Players |-> m.readyOwn[p] /\ p \notin A]
           score == [p \in Players |-> IF p \in A THEN 0 ELSE m.score[p]]
           hands == [p \in Players |-> IF p \in A THEN Hands ELSE m.hands[p]]
           n == BroadcastGlobalBlindStart(m)
<1>1. Retimed(m, r) /\ ~r.timer.started /\ r.timer.controller = NoPlayer
  BY LobbyFacts, ResetTimerEffect
<1>2. /\ r \in LobbyMemory
      /\ r.inGame = m.inGame /\ r.place = m.place /\ r.inMatch = m.inMatch
      /\ r.lives = m.lives /\ r.blocker = m.blocker /\ r.firstReady = m.firstReady
      /\ r.ready = m.ready /\ r.readyOwn = m.readyOwn /\ r.active = m.active
      /\ r.score = m.score /\ r.hands = m.hands /\ r.duel = m.duel
  BY <1>1, RetimedMemory
<1>3. n = [r EXCEPT !.active = active, !.ready = ready, !.readyOwn = readyOwn,
                    !.score = score, !.hands = hands]
  <2> HIDE DEF r
  <2> QED
    BY <1>2 DEF BroadcastGlobalBlindStart, LobbyMemory, r
<1>4. /\ active \in [Players -> Rows \cup {NoRow}] /\ ready \in [Players -> Rows \cup {NoRow}]
      /\ readyOwn \in [Players -> BOOLEAN]
  BY DEF LobbyMemory
<1>5. /\ score \in [Players -> 0 .. MaxScore] /\ hands \in [Players -> 0 .. Hands]
  BY MatchAssumption DEF LobbyMemory
<1>6. \A p \in Players :
        /\ active[p] = IF p \in A THEN m.ready[p] ELSE m.active[p]
        /\ ready[p] = IF p \in A THEN NoRow ELSE m.ready[p]
        /\ p \in A => hands[p] = Hands
        /\ score[p] = IF p \in A THEN 0 ELSE m.score[p]
  OBVIOUS
<1> HIDE DEF r, n, active, ready, readyOwn, score, hands
<1>7. n \in LobbyMemory
  BY <1>2, <1>3, <1>4, <1>5 DEF LobbyMemory
<1>8. /\ n.inGame = m.inGame /\ n.place = m.place /\ n.inMatch = m.inMatch
      /\ n.lives = m.lives /\ n.blocker = m.blocker /\ n.duel = m.duel /\ n.timer = r.timer
      /\ n.active = active /\ n.ready = ready /\ n.hands = hands /\ n.score = score
  BY <1>2, <1>3 DEF LobbyMemory
<1>9. Keeps(m, n, {})
  BY <1>8, KeepsWhatItLeaves
<1> QED
  BY <1>1, <1>6, <1>7, <1>8, <1>9 DEF n

LEMMA TryStartPendingBlindSound ==
  ASSUME lobby \in Setups, NEW m \in LobbyMemory, Sound(m)
  PROVE  LET n == TryStartPendingBlind(m) IN
         n \in LobbyMemory /\ n.place = m.place /\ Sound(n) /\ Keeps(m, n, {})
<1>1. CASE TryStartPendingBlind(m) = m
  BY <1>1 DEF Keeps, KeepsRounds
<1>2. CASE TryStartPendingBlind(m) = BroadcastGlobalBlindStart(m)
  <2> DEFINE n == BroadcastGlobalBlindStart(m)
  <2>1. /\ n \in LobbyMemory
        /\ n.inGame = m.inGame /\ n.place = m.place /\ n.inMatch = m.inMatch
        /\ n.lives = m.lives /\ Keeps(m, n, {})
    BY BroadcastEffect
  <2> HIDE DEF n
  <2>2. Sound(n)
    BY <2>1, SoundKept DEF Sound, SameTable
  <2> QED
    BY <1>2, <2>1, <2>2 DEF n
<1> QED
  BY <1>1, <1>2 DEF TryStartPendingBlind

\* The forgiveness and the paused timer an expiry starts with.
Pardoned(m, P) ==
  [SetPaused(m) EXCEPT !.forgiven = [p \in Players |-> IF p \in P THEN @[p] + 1 ELSE @[p]]]

LEMMA PardonedEffect ==
  ASSUME lobby \in Setups, NEW m \in LobbyMemory, NEW P \in SUBSET Players,
         \A p \in P : HasForgiveness(m, p)
  PROVE  LET n == Pardoned(m, P) IN
         /\ n \in LobbyMemory
         /\ n.inGame = m.inGame /\ n.place = m.place /\ n.inMatch = m.inMatch
         /\ n.lives = m.lives /\ n.active = m.active /\ n.blocker = m.blocker
         /\ n.ready = m.ready /\ n.readyOwn = m.readyOwn
         /\ n.score = m.score /\ n.duel = m.duel
         /\ ~n.timer.started /\ n.timer.controller = m.timer.controller
         /\ Keeps(m, n, {})
<1> DEFINE w == SetPaused(m)
           forgiven == [p \in Players |-> IF p \in P THEN m.forgiven[p] + 1 ELSE m.forgiven[p]]
           n == Pardoned(m, P)
<1>1. Retimed(m, w) /\ ~w.timer.started /\ w.timer.controller = m.timer.controller
  BY SetPausedEffect
<1>2. /\ w \in LobbyMemory
      /\ w.inGame = m.inGame /\ w.place = m.place /\ w.inMatch = m.inMatch
      /\ w.lives = m.lives /\ w.blocker = m.blocker /\ w.active = m.active
      /\ w.ready = m.ready /\ w.readyOwn = m.readyOwn
      /\ w.score = m.score /\ w.duel = m.duel
  BY <1>1, RetimedMemory
<1>3. w.forgiven = m.forgiven
  BY DEF SetPaused, LobbyMemory
<1>4. n = [w EXCEPT !.forgiven = forgiven]
  <2> HIDE DEF w
  <2> QED
    BY <1>2, <1>3 DEF Pardoned, LobbyMemory, w
<1>5. forgiven \in [Players -> 0 .. lobby.forgiveness]
  <2> SUFFICES ASSUME NEW p \in Players
               PROVE  (IF p \in P THEN m.forgiven[p] + 1 ELSE m.forgiven[p])
                        \in 0 .. lobby.forgiveness
    OBVIOUS
  <2>1. m.forgiven[p] \in 0 .. lobby.forgiveness /\ lobby.forgiveness \in Nat
    BY LobbyFacts DEF LobbyMemory
  <2>2. p \in P => m.forgiven[p] < lobby.forgiveness
    BY DEF HasForgiveness
  <2> QED
    BY <2>1, <2>2
<1> HIDE DEF w, n, forgiven
<1>6. n \in LobbyMemory
  BY <1>2, <1>4, <1>5 DEF LobbyMemory
<1>7. /\ n.inGame = m.inGame /\ n.place = m.place /\ n.inMatch = m.inMatch
      /\ n.lives = m.lives /\ n.active = m.active /\ n.blocker = m.blocker
      /\ n.ready = m.ready /\ n.readyOwn = m.readyOwn
      /\ n.score = m.score /\ n.duel = m.duel /\ n.timer = w.timer
  BY <1>2, <1>4 DEF LobbyMemory
<1>8. Keeps(m, n, {})
  BY <1>7, KeepsWhatItLeaves
<1> QED
  BY <1>1, <1>6, <1>7, <1>8 DEF n

LEMMA RetimedSound ==
  ASSUME NEW m \in LobbyMemory, NEW n, Retimed(m, n)
  PROVE  /\ n \in LobbyMemory /\ n.place = m.place /\ n.inMatch = m.inMatch
         /\ n.inGame = m.inGame /\ Keeps(m, n, {})
         /\ Sound(m) => Sound(n)
<1>1. /\ n \in LobbyMemory
      /\ n.inGame = m.inGame /\ n.place = m.place /\ n.inMatch = m.inMatch
      /\ n.lives = m.lives /\ n.blocker = m.blocker /\ n.duel = m.duel
  BY RetimedMemory
<1>2. Keeps(m, n, {})
  BY <1>1, KeepsWhatItLeaves
<1> QED
  BY <1>1, <1>2, SoundKept DEF Sound, SameTable

LEMMA ExpireTimerSound ==
  ASSUME lobby \in Setups, NEW m \in LobbyMemory, Sound(m)
  PROVE  LET n == ExpireTimer(m) IN
         n \in LobbyMemory /\ n.place = m.place /\ Sound(n) /\ Keeps(m, n, {})
<1> DEFINE late == {p \in ActivePlayers(m) : ~ReadyForPvp(m, p)}
           pardoned == {p \in late : HasForgiveness(m, p)}
           D == late \ pardoned
           w == Pardoned(m, pardoned)
           h == LoseLife(w, D)
           r == ResolveLosses(h)
<1>1. ExpireTimer(m) = IF late = {} THEN SetPaused(m) ELSE r
  BY DEF ExpireTimer, Pardoned
<1>2. CASE ExpireTimer(m) = SetPaused(m)
  BY <1>2, SetPausedEffect, RetimedSound
<1>3. CASE ExpireTimer(m) = r
  <2>1. pardoned \in SUBSET Players /\ \A p \in pardoned : HasForgiveness(m, p)
    BY ActiveSubset
  <2>2. D \in SUBSET ActivePlayers(m)
    OBVIOUS
  <2> HIDE DEF pardoned, D
  <2>3. /\ w \in LobbyMemory
        /\ w.inGame = m.inGame /\ w.place = m.place /\ w.inMatch = m.inMatch
        /\ w.lives = m.lives /\ Keeps(m, w, {})
    BY <2>1, PardonedEffect
  <2> HIDE DEF w
  <2>4. AwayAlive(w) /\ Enough(w) /\ D \in SUBSET ActivePlayers(w)
    BY <2>2, <2>3, SoundKept, SameTableQueries, AliveIsAwayAlive DEF SameTable, Sound
  <2>5. /\ h \in LobbyMemory /\ h.place = w.place /\ AwayAlive(h) /\ Keeps(w, h, {})
        /\ Enough(w) => Enough(h)
    BY <2>3, <2>4, LoseLifeSound
  <2> HIDE DEF h
  <2>6. r \in LobbyMemory /\ r.place = h.place /\ Sound(r) /\ Keeps(h, r, {})
    BY <2>4, <2>5, ResolveLossesSound
  <2> HIDE DEF r
  <2>7. Keeps(m, r, {})
    BY <2>3, <2>5, <2>6, KeepsTransitive
  <2> QED
    BY <1>3, <2>3, <2>5, <2>6, <2>7
<1> QED
  BY <1>1, <1>2, <1>3

LEMMA KeepsMore ==
  ASSUME NEW m, NEW n, NEW E, Keeps(m, n, {}) PROVE Keeps(m, n, E)
  BY DEF Keeps, KeepsRounds

------------------------------------------------------------------------------
(* Departures *)

\* The table without p, before anything is made of its departure.
Left(m, p) ==
  [ClearParticipation(ReleaseController(m, p), {p}) EXCEPT
     !.place[p] = "gone", !.lives[p] = 0, !.score[p] = 0, !.hands[p] = 0,
     !.forgiven[p] = 0, !.furthest[p] = 0]

\* The table with p back in the lobby.
Back(m, p) ==
  [ClearParticipation(ReleaseController(m, p), {p}) EXCEPT
     !.score[p] = 0, !.hands[p] = 0, !.lives[p] = 0]

LEMMA WithdrawnEffect ==
  ASSUME lobby \in Setups, NEW m \in LobbyMemory, NEW p \in Players
  PROVE  LET n == ClearParticipation(ReleaseController(m, p), {p}) IN
         /\ n \in LobbyMemory
         /\ n.inGame = m.inGame /\ n.place = m.place /\ n.lives = m.lives
         /\ n.score = m.score /\ n.hands = m.hands /\ n.duel = m.duel
         /\ n.timer = ReleaseController(m, p).timer
         /\ \A q \in Players :
              /\ n.inMatch[q] <=> m.inMatch[q] /\ q # p
              /\ n.blocker[q] <=> m.blocker[q] /\ q # p
              /\ n.ready[q] = IF q = p THEN NoRow ELSE m.ready[q]
              /\ n.readyOwn[q] <=> m.readyOwn[q] /\ q # p
              /\ n.active[q] = IF q = p THEN NoRow ELSE m.active[q]
<1> DEFINE r == ReleaseController(m, p)
           n == ClearParticipation(r, {p})
<1>1. Retimed(m, r)
  BY ReleaseControllerEffect
<1>2. /\ r \in LobbyMemory
      /\ r.inGame = m.inGame /\ r.place = m.place /\ r.inMatch = m.inMatch
      /\ r.lives = m.lives /\ r.blocker = m.blocker /\ r.firstReady = m.firstReady
      /\ r.ready = m.ready /\ r.readyOwn = m.readyOwn /\ r.active = m.active
      /\ r.score = m.score /\ r.hands = m.hands /\ r.duel = m.duel
  BY <1>1, RetimedMemory
<1>3. {p} \in SUBSET Players
  OBVIOUS
<1> HIDE DEF r
<1>4. /\ n \in LobbyMemory
      /\ n.inGame = r.inGame /\ n.place = r.place /\ n.lives = r.lives
      /\ n.score = r.score /\ n.hands = r.hands /\ n.timer = r.timer /\ n.duel = r.duel
      /\ \A q \in Players :
           /\ n.inMatch[q] <=> r.inMatch[q] /\ q \notin {p}
           /\ n.blocker[q] <=> r.blocker[q] /\ q \notin {p}
           /\ n.ready[q] = IF q \in {p} THEN NoRow ELSE r.ready[q]
           /\ n.readyOwn[q] <=> r.readyOwn[q] /\ q \notin {p}
           /\ n.active[q] = IF q \in {p} THEN NoRow ELSE r.active[q]
  BY <1>2, <1>3, ClearParticipationEffect
<1> HIDE DEF n
<1> QED
  BY <1>2, <1>4 DEF n, r

LEMMA LeftEffect ==
  ASSUME lobby \in Setups, NEW m \in LobbyMemory, NEW p \in Players
  PROVE  LET n == Left(m, p) IN
         /\ n \in LobbyMemory
         /\ n.inGame = m.inGame /\ n.duel = m.duel
         /\ n.timer = ReleaseController(m, p).timer
         /\ \A q \in Players :
              /\ n.place[q] = IF q = p THEN "gone" ELSE m.place[q]
              /\ n.lives[q] = IF q = p THEN 0 ELSE m.lives[q]
              /\ n.score[q] = IF q = p THEN 0 ELSE m.score[q]
              /\ n.hands[q] = IF q = p THEN 0 ELSE m.hands[q]
              /\ n.inMatch[q] <=> m.inMatch[q] /\ q # p
              /\ n.ready[q] = IF q = p THEN NoRow ELSE m.ready[q]
              /\ n.readyOwn[q] <=> m.readyOwn[q] /\ q # p
              /\ n.active[q] = IF q = p THEN NoRow ELSE m.active[q]
         /\ Keeps(m, n, {p})
<1> DEFINE c == ClearParticipation(ReleaseController(m, p), {p})
           n == Left(m, p)
<1>1. n = [c EXCEPT !.place[p] = "gone", !.lives[p] = 0, !.score[p] = 0, !.hands[p] = 0,
                    !.forgiven[p] = 0, !.furthest[p] = 0]
  BY DEF Left
<1>2. /\ c \in LobbyMemory
      /\ c.inGame = m.inGame /\ c.place = m.place /\ c.lives = m.lives
      /\ c.score = m.score /\ c.hands = m.hands /\ c.duel = m.duel
      /\ c.timer = ReleaseController(m, p).timer
      /\ \A q \in Players :
           /\ c.inMatch[q] <=> m.inMatch[q] /\ q # p
           /\ c.blocker[q] <=> m.blocker[q] /\ q # p
           /\ c.ready[q] = IF q = p THEN NoRow ELSE m.ready[q]
           /\ c.readyOwn[q] <=> m.readyOwn[q] /\ q # p
           /\ c.active[q] = IF q = p THEN NoRow ELSE m.active[q]
  BY WithdrawnEffect
<1>3. 0 \in 0 .. lobby.lives /\ 0 \in 0 .. lobby.forgiveness /\ 0 \in 0 .. MaxScore
      /\ 0 \in 0 .. Hands /\ 0 \in 0 .. MaxBlind
  BY LobbyFacts, MatchAssumption
<1> HIDE DEF c, n
<1>4. n \in LobbyMemory
  BY <1>1, <1>2, <1>3 DEF LobbyMemory
<1>5. /\ n.place = [c.place EXCEPT ![p] = "gone"] /\ n.lives = [c.lives EXCEPT ![p] = 0]
      /\ n.score = [c.score EXCEPT ![p] = 0] /\ n.hands = [c.hands EXCEPT ![p] = 0]
      /\ n.inGame = c.inGame /\ n.duel = c.duel /\ n.timer = c.timer /\ n.inMatch = c.inMatch
      /\ n.ready = c.ready /\ n.readyOwn = c.readyOwn /\ n.active = c.active
      /\ n.blocker = c.blocker
  BY <1>1, <1>2 DEF LobbyMemory
<1>6. \A q \in Players :
        /\ n.place[q] = IF q = p THEN "gone" ELSE m.place[q]
        /\ n.lives[q] = IF q = p THEN 0 ELSE m.lives[q]
        /\ n.score[q] = IF q = p THEN 0 ELSE m.score[q]
        /\ n.hands[q] = IF q = p THEN 0 ELSE m.hands[q]
  BY <1>2, <1>5 DEF LobbyMemory
<1>7. Keeps(m, n, {p})
  BY <1>2, <1>5, <1>6 DEF Keeps, KeepsRounds
<1> QED
  BY <1>2, <1>4, <1>5, <1>6, <1>7 DEF n

LEMMA BackEffect ==
  ASSUME lobby \in Setups, NEW m \in LobbyMemory, NEW p \in Players
  PROVE  LET n == Back(m, p) IN
         /\ n \in LobbyMemory
         /\ n.inGame = m.inGame /\ n.place = m.place /\ n.duel = m.duel
         /\ n.timer = ReleaseController(m, p).timer
         /\ \A q \in Players :
              /\ n.lives[q] = IF q = p THEN 0 ELSE m.lives[q]
              /\ n.score[q] = IF q = p THEN 0 ELSE m.score[q]
              /\ n.inMatch[q] <=> m.inMatch[q] /\ q # p
              /\ n.ready[q] = IF q = p THEN NoRow ELSE m.ready[q]
              /\ n.readyOwn[q] <=> m.readyOwn[q] /\ q # p
              /\ n.active[q] = IF q = p THEN NoRow ELSE m.active[q]
         /\ Keeps(m, n, {p})
<1> DEFINE c == ClearParticipation(ReleaseController(m, p), {p})
           n == Back(m, p)
<1>1. n = [c EXCEPT !.score[p] = 0, !.hands[p] = 0, !.lives[p] = 0]
  BY DEF Back
<1>2. /\ c \in LobbyMemory
      /\ c.inGame = m.inGame /\ c.place = m.place /\ c.lives = m.lives
      /\ c.score = m.score /\ c.hands = m.hands /\ c.duel = m.duel
      /\ c.timer = ReleaseController(m, p).timer
      /\ \A q \in Players :
           /\ c.inMatch[q] <=> m.inMatch[q] /\ q # p
           /\ c.blocker[q] <=> m.blocker[q] /\ q # p
           /\ c.ready[q] = IF q = p THEN NoRow ELSE m.ready[q]
           /\ c.readyOwn[q] <=> m.readyOwn[q] /\ q # p
           /\ c.active[q] = IF q = p THEN NoRow ELSE m.active[q]
  BY WithdrawnEffect
<1>3. 0 \in 0 .. lobby.lives /\ 0 \in 0 .. MaxScore /\ 0 \in 0 .. Hands
  BY LobbyFacts, MatchAssumption
<1> HIDE DEF c, n
<1>4. n \in LobbyMemory
  BY <1>1, <1>2, <1>3 DEF LobbyMemory
<1>5. /\ n.lives = [c.lives EXCEPT ![p] = 0] /\ n.score = [c.score EXCEPT ![p] = 0]
      /\ n.inGame = c.inGame /\ n.duel = c.duel /\ n.timer = c.timer /\ n.inMatch = c.inMatch
      /\ n.place = c.place
      /\ n.ready = c.ready /\ n.readyOwn = c.readyOwn /\ n.active = c.active
      /\ n.blocker = c.blocker
  BY <1>1, <1>2 DEF LobbyMemory
<1>6. \A q \in Players : /\ n.lives[q] = IF q = p THEN 0 ELSE m.lives[q]
                        /\ n.score[q] = IF q = p THEN 0 ELSE m.score[q]
  BY <1>2, <1>5 DEF LobbyMemory
<1>7. Keeps(m, n, {p})
  BY <1>2, <1>5, <1>6 DEF Keeps, KeepsRounds
<1> QED
  BY <1>2, <1>4, <1>5, <1>6, <1>7 DEF n

\* p is gone, and the match ends, goes on or is waited for as it should.
LEMMA DepartSound ==
  ASSUME lobby \in Setups, NEW m \in LobbyMemory, NEW p \in Players, Sound(m)
  PROVE  LET n == Depart(m, p) IN
         /\ n \in LobbyMemory /\ n.place = [m.place EXCEPT ![p] = "gone"]
         /\ Sound(n) /\ Keeps(m, n, {p})
<1> DEFINE e == Left(m, p)
           r == ReconcileActiveMatchState(e)
<1>1. Depart(m, p) = IF SeatedPlayers(e) # {} /\ m.inMatch[p] THEN r ELSE e
  BY DEF Depart, Left
<1>2. /\ e \in LobbyMemory
      /\ e.inGame = m.inGame /\ e.duel = m.duel
      /\ e.timer = ReleaseController(m, p).timer
      /\ \A q \in Players :
           /\ e.place[q] = IF q = p THEN "gone" ELSE m.place[q]
           /\ e.lives[q] = IF q = p THEN 0 ELSE m.lives[q]
           /\ e.score[q] = IF q = p THEN 0 ELSE m.score[q]
           /\ e.hands[q] = IF q = p THEN 0 ELSE m.hands[q]
           /\ e.inMatch[q] <=> m.inMatch[q] /\ q # p
           /\ e.ready[q] = IF q = p THEN NoRow ELSE m.ready[q]
           /\ e.readyOwn[q] <=> m.readyOwn[q] /\ q # p
           /\ e.active[q] = IF q = p THEN NoRow ELSE m.active[q]
      /\ Keeps(m, e, {p})
  BY LeftEffect
<1> HIDE DEF e
<1>3. e.place = [m.place EXCEPT ![p] = "gone"]
  BY <1>2 DEF LobbyMemory
<1>4. Alive(e)
  BY <1>2 DEF Sound, Alive, Playing, Present
<1>5. CASE Depart(m, p) = r
  <2>1. r \in LobbyMemory /\ r.place = e.place /\ Sound(r) /\ Keeps(e, r, {})
    BY <1>2, <1>4, ReconcileSound
  <2> HIDE DEF r
  <2> QED
    BY <1>2, <1>3, <1>5, <2>1, KeepsMore, KeepsTransitive
<1>6. CASE Depart(m, p) = e /\ (SeatedPlayers(e) = {} \/ ~m.inMatch[p])
  <2>1. CASE SeatedPlayers(e) = {}
    BY <1>2, <1>3, <1>4, <1>6, <2>1 DEF Sound, Enough
  <2>2. CASE ~m.inMatch[p]
    <3>1. /\ ActivePlayers(e) = ActivePlayers(m)
          /\ HasDisconnectedMatchBlocker(e) <=> HasDisconnectedMatchBlocker(m)
          /\ SeatedPlayers(e) \subseteq SeatedPlayers(m)
      BY <1>2, <2>2 DEF ActivePlayers, SeatedPlayers, HasDisconnectedMatchBlocker
    <3>2. Enough(e)
      BY <1>2, <3>1 DEF Sound, Enough
    <3> QED
      BY <1>2, <1>3, <1>4, <1>6, <3>2 DEF Sound
  <2> QED
    BY <1>6, <2>1, <2>2
<1> QED
  BY <1>1, <1>5, <1>6

LEMMA ReserveEffect ==
  ASSUME lobby \in Setups, NEW m \in LobbyMemory, NEW p \in Players
  PROVE  LET n == Reserve(m, p) IN
         /\ n \in LobbyMemory
         /\ n.inGame = m.inGame /\ n.inMatch = m.inMatch /\ n.lives = m.lives
         /\ n.blocker = m.blocker /\ n.active = m.active /\ n.duel = m.duel
         /\ n.score = m.score /\ n.hands = m.hands
         /\ n.timer = ReleaseController(m, p).timer
         /\ n.place = [m.place EXCEPT ![p] = "away"]
         /\ n.ready = [m.ready EXCEPT ![p] = NoRow]
         /\ n.readyOwn = [m.readyOwn EXCEPT ![p] = FALSE]
         /\ Keeps(m, n, {})
<1> DEFINE r == ReleaseController(m, p)
           n == Reserve(m, p)
<1>1. Retimed(m, r)
  BY ReleaseControllerEffect
<1>2. /\ r \in LobbyMemory
      /\ r.inGame = m.inGame /\ r.place = m.place /\ r.inMatch = m.inMatch
      /\ r.lives = m.lives /\ r.blocker = m.blocker /\ r.firstReady = m.firstReady
      /\ r.ready = m.ready /\ r.readyOwn = m.readyOwn /\ r.active = m.active
      /\ r.score = m.score /\ r.hands = m.hands /\ r.duel = m.duel
  BY <1>1, RetimedMemory
<1>3. n = [r EXCEPT !.place[p] = "away", !.ready[p] = NoRow, !.readyOwn[p] = FALSE,
                    !.firstReady[p] = FALSE]
  BY DEF Reserve
<1> HIDE DEF r, n
<1>4. n \in LobbyMemory
  BY <1>2, <1>3 DEF LobbyMemory
<1>5. /\ n.inGame = m.inGame /\ n.inMatch = m.inMatch /\ n.lives = m.lives
      /\ n.blocker = m.blocker /\ n.active = m.active /\ n.duel = m.duel
      /\ n.score = m.score /\ n.hands = m.hands
      /\ n.timer = r.timer
      /\ n.place = [m.place EXCEPT ![p] = "away"]
      /\ n.ready = [m.ready EXCEPT ![p] = NoRow]
      /\ n.readyOwn = [m.readyOwn EXCEPT ![p] = FALSE]
  BY <1>2, <1>3 DEF LobbyMemory
<1>6. Keeps(m, n, {})
  BY <1>5, KeepsWhatItLeaves
<1> QED
  BY <1>4, <1>5, <1>6 DEF n, r

------------------------------------------------------------------------------
(* Rounds of pairings *)

\* What ByesRotate says of the deal of a round, S being the players who were
\* dealt every round.
Rotates(m, n, S) ==
  /\ \A p, q \in S : n.duel.byes[p] <= n.duel.byes[q] + 1
  /\ \A p \in S : m.duel.last = p /\ HasBye(n, p) => ActivePlayers(n) \cap S = {p}

LEMMA DuelNumbers ==
  ASSUME NEW m \in LobbyMemory
  PROVE  /\ m.duel \in DuelState /\ m.duel.round \in Nat
         /\ \A p \in Players : m.duel.byes[p] \in Nat
  BY MatchAssumption DEF LobbyMemory, DuelState

\* The bye goes to one of the players with the fewest, and only to the one who
\* had the last if that is the only such player.
LEMMA ByeCandidatesEffect ==
  ASSUME NEW m, NEW bye \in ByeCandidates(m)
  PROVE  \/ bye = {}
         \/ \E p \in LowestByes(m) :
              bye = {p} /\ (p = m.duel.last => LowestByes(m) = {p})
<1> DEFINE fresh == LowestByes(m) \ {m.duel.last}
<1>1. CASE bye # {}
  <2>1. PICK p \in IF fresh # {} THEN fresh ELSE LowestByes(m) : bye = {p}
    BY <1>1 DEF ByeCandidates
  <2> QED
    BY <2>1
<1> QED
  BY <1>1

LEMMA BeginRoundEffect ==
  ASSUME NEW m \in LobbyMemory, \A p \in Players : m.duel.byes[p] <= m.duel.round,
         m.duel.round < MaxRounds,
         NEW bye \in ByeCandidates(m), NEW pairing \in Pairings(ActivePlayers(m), bye)
  PROVE  LET n == BeginRound(m, bye, pairing) IN
         /\ n.duel \in DuelState /\ n = [m EXCEPT !.duel = n.duel]
         /\ ~n.duel.due /\ n.duel.round = m.duel.round + 1
         /\ \A p \in Players :
              n.duel.byes[p] = IF p \in bye THEN m.duel.byes[p] + 1 ELSE m.duel.byes[p]
         /\ bye = {} => n.duel.last = m.duel.last
         /\ bye # {} => n.duel.last \in bye
         /\ \A p \in ActivePlayers(m) : HasBye(n, p) => p \in bye
<1> DEFINE byes == [p \in Players |-> IF p \in bye THEN m.duel.byes[p] + 1 ELSE m.duel.byes[p]]
           pair == [p \in Players |-> IF p \in DOMAIN pairing THEN pairing[p] ELSE NoPlayer]
           last == IF bye = {} THEN m.duel.last ELSE CHOOSE p \in bye : TRUE
           duel == [pair |-> pair, target |-> Everyone(NoScore), result |-> Everyone("open"),
                    byes |-> byes, last |-> last, round |-> m.duel.round + 1, due |-> FALSE]
           n == BeginRound(m, bye, pairing)
<1>1. n = [m EXCEPT !.duel = duel]
  BY DEF BeginRound, LobbyMemory
<1>2. bye \subseteq Players
  BY ByeCandidatesEffect DEF LowestByes, ActivePlayers, SeatedPlayers
<1>3. pairing \in [ActivePlayers(m) -> ActivePlayers(m)]
      /\ \A p \in ActivePlayers(m) : pairing[p] = p => p \in bye
  BY DEF Pairings
<1>4. pair \in [Players -> Players \cup {NoPlayer}]
      /\ \A p \in ActivePlayers(m) : pair[p] = pairing[p]
  BY <1>3, ActiveSubset
<1>5. byes \in [Players -> 0 .. MaxRounds] /\ m.duel.round + 1 \in 0 .. MaxRounds
  BY DuelNumbers, MatchAssumption
<1>6. /\ last \in Players \cup {NoPlayer}
      /\ bye = {} => last = m.duel.last
      /\ bye # {} => last \in bye
  BY <1>2, DuelNumbers DEF DuelState
<1> HIDE DEF byes, pair, last
<1>7. duel \in DuelState
  BY <1>4, <1>5, <1>6 DEF DuelState, Everyone
<1>8. /\ ~duel.due /\ duel.round = m.duel.round + 1
      /\ duel.byes = byes /\ duel.pair = pair /\ duel.last = last
  OBVIOUS
<1> HIDE DEF duel, n
<1>9. n.duel = duel
  BY <1>1 DEF LobbyMemory
<1>10. \A p \in ActivePlayers(m) : HasBye(n, p) => p \in bye
  BY <1>3, <1>4, <1>8, <1>9 DEF HasBye
<1>11. \A p \in Players : byes[p] = IF p \in bye THEN m.duel.byes[p] + 1 ELSE m.duel.byes[p]
  BY DEF byes
<1> QED
  BY <1>1, <1>6, <1>7, <1>8, <1>9, <1>10, <1>11 DEF n

\* A deal touches the pairings only, and spreads the byes among those players of
\* S who are still there.
LEMMA DealtEffect ==
  ASSUME NEW m \in LobbyMemory, NEW S \in SUBSET Players, Fair(m, S), m.duel.due,
         m.duel.round < MaxRounds, m.duel.due => m.inGame,
         NEW n \in Dealt(m), NEW T, T = S \cap ActivePlayers(m)
  PROVE  /\ n \in LobbyMemory /\ n.duel \in DuelState /\ n = [m EXCEPT !.duel = n.duel]
         /\ ~n.duel.due /\ Fair(n, T) /\ Rotates(m, n, T)
<1>0. PICK bye \in ByeCandidates(m) :
        \E pairing \in Pairings(ActivePlayers(m), bye) : n = BeginRound(m, bye, pairing)
  BY DEF Dealt
<1>1. PICK pairing \in Pairings(ActivePlayers(m), bye) : n = BeginRound(m, bye, pairing)
  BY <1>0
<1>2. /\ n.duel \in DuelState /\ n = [m EXCEPT !.duel = n.duel]
      /\ ~n.duel.due /\ n.duel.round = m.duel.round + 1
      /\ \A p \in Players :
           n.duel.byes[p] = IF p \in bye THEN m.duel.byes[p] + 1 ELSE m.duel.byes[p]
      /\ bye = {} => n.duel.last = m.duel.last
      /\ bye # {} => n.duel.last \in bye
      /\ \A p \in ActivePlayers(m) : HasBye(n, p) => p \in bye
  BY <1>1, BeginRoundEffect DEF Fair
<1>3. n \in LobbyMemory /\ n.inGame = m.inGame /\ n.place = m.place /\ n.inMatch = m.inMatch
  <2> DEFINE duel == n.duel
  <2>1. duel \in DuelState /\ n = [m EXCEPT !.duel = duel]
    BY <1>2
  <2> HIDE DEF duel
  <2> QED
    BY <2>1 DEF LobbyMemory
<1>4. ActivePlayers(n) = ActivePlayers(m)
  BY <1>3, SameTableQueries DEF SameTable
<1>5. /\ \A p \in Players : m.duel.byes[p] \in Nat /\ m.duel.byes[p] <= m.duel.round
      /\ m.duel.round \in Nat
      /\ \A p, q \in S : m.duel.byes[p] <= m.duel.byes[q] + 1
      /\ m.duel.last \in S => \A q \in S : m.duel.byes[q] <= m.duel.byes[m.duel.last]
  BY DuelNumbers DEF Fair
<1>6. /\ \A p \in LowestByes(m) : \A q \in ActivePlayers(m) : m.duel.byes[p] <= m.duel.byes[q]
      /\ \A p \in LowestByes(m) : p \in ActivePlayers(m) /\ p \in Players
  BY ActiveSubset DEF LowestByes
<1>7. T \subseteq S /\ T \subseteq Players /\ T \subseteq ActivePlayers(m)
  OBVIOUS
<1>8. \A p \in Players : n.duel.byes[p] <= n.duel.round
  BY <1>2, <1>5
<1>9. ASSUME bye = {} PROVE Fair(n, T) /\ Rotates(m, n, T)
  <2>1. Fair(n, T)
    BY <1>2, <1>3, <1>5, <1>7, <1>8, <1>9 DEF Fair
  <2>2. Rotates(m, n, T)
    BY <1>2, <1>5, <1>7, <1>9 DEF Rotates
  <2> QED
    BY <2>1, <2>2
<1>10. ASSUME NEW r \in LowestByes(m), bye = {r}, r = m.duel.last => LowestByes(m) = {r}
       PROVE  Fair(n, T) /\ Rotates(m, n, T)
  <2>1. \A p \in Players : n.duel.byes[p] = IF p = r THEN m.duel.byes[p] + 1 ELSE m.duel.byes[p]
    BY <1>2, <1>10
  <2>2. n.duel.last = r
    BY <1>2, <1>10
  <2>3. r \in Players /\ r \in ActivePlayers(m)
        /\ \A q \in T : q \in Players /\ m.duel.byes[r] <= m.duel.byes[q]
    BY <1>6, <1>7
  <2>4. \A p, q \in T : n.duel.byes[p] <= n.duel.byes[q] + 1
    <3> SUFFICES ASSUME NEW p \in T, NEW q \in T PROVE n.duel.byes[p] <= n.duel.byes[q] + 1
      OBVIOUS
    <3>1. /\ m.duel.byes[p] \in Nat /\ m.duel.byes[q] \in Nat
          /\ m.duel.byes[p] <= m.duel.byes[q] + 1
      BY <1>5, <1>7
    <3>2. /\ n.duel.byes[p] = IF p = r THEN m.duel.byes[p] + 1 ELSE m.duel.byes[p]
          /\ n.duel.byes[q] = IF q = r THEN m.duel.byes[q] + 1 ELSE m.duel.byes[q]
          /\ m.duel.byes[r] <= m.duel.byes[q]
      BY <2>1, <2>3
    <3> QED
      BY <3>1, <3>2
  <2>5. r \in T => \A q \in T : n.duel.byes[q] <= n.duel.byes[r]
    <3> SUFFICES ASSUME r \in T, NEW q \in T PROVE n.duel.byes[q] <= n.duel.byes[r]
      OBVIOUS
    <3>1. /\ m.duel.byes[q] \in Nat /\ m.duel.byes[r] \in Nat
          /\ m.duel.byes[q] <= m.duel.byes[r] + 1
      BY <1>5, <1>7
    <3> QED
      BY <2>1, <2>3, <3>1
  <2>6. Fair(n, T)
    BY <1>3, <1>8, <2>2, <2>4, <2>5 DEF Fair
  <2>7. ASSUME NEW p \in T, m.duel.last = p, HasBye(n, p), NEW q \in ActivePlayers(n) \cap T
        PROVE  q = p
    <3>1. p = r /\ LowestByes(m) = {p}
      BY <1>2, <1>7, <1>10, <2>7
    <3>2. m.duel.byes[q] <= m.duel.byes[p] /\ q \in ActivePlayers(m)
      BY <1>5, <1>7, <2>7
    <3>3. \A x \in ActivePlayers(m) : m.duel.byes[q] <= m.duel.byes[x]
      <4> SUFFICES ASSUME NEW x \in ActivePlayers(m) PROVE m.duel.byes[q] <= m.duel.byes[x]
        OBVIOUS
      <4>1. x \in Players /\ q \in Players /\ p \in Players
        BY <1>7, ActiveSubset
      <4>2. m.duel.byes[p] <= m.duel.byes[x]
        BY <1>6, <3>1
      <4> QED
        BY <1>5, <3>2, <4>1, <4>2
    <3>4. q \in LowestByes(m)
      BY <3>2, <3>3 DEF LowestByes
    <3> QED
      BY <3>1, <3>4
  <2>8. Rotates(m, n, T)
    BY <1>4, <1>7, <2>4, <2>7 DEF Rotates
  <2> QED
    BY <2>6, <2>8
<1>11. Fair(n, T) /\ Rotates(m, n, T)
  <2>1. CASE \E r \in LowestByes(m) : bye = {r} /\ (r = m.duel.last => LowestByes(m) = {r})
    BY <1>10, <2>1
  <2> QED
    BY <1>9, <2>1, ByeCandidatesEffect
<1> QED
  BY <1>2, <1>3, <1>11

\* What every handler leaves: a sound memory, byes that are spread evenly, and
\* a fair deal if there was one.
Settles ==
  /\ lobby' = lobby /\ g' \in LobbyMemory /\ ~g'.duel.due
  /\ cast' \subseteq Players /\ steady' \subseteq Players /\ played' \in 0 .. MaxMatches
  /\ Sound(g') /\ Fair(g', steady')
  /\ g'.duel.round > g.duel.round => Rotates(g, g', steady')

\* A handler that has worked its way from g to m ends well.
LEMMA StepSound ==
  ASSUME SoundInv, NEW m \in LobbyMemory, Sound(m), KeepsRounds(g, m), Step(m)
  PROVE  /\ Settles
         /\ g'.place = m.place /\ g'.inMatch = m.inMatch /\ g'.lives = m.lives
         /\ g'.blocker = m.blocker
<1>0. /\ lobby \in Setups /\ g \in LobbyMemory /\ ~g.duel.due /\ Fair(g, steady)
      /\ cast \subseteq Players /\ steady \subseteq Players /\ played \in 0 .. MaxMatches
  BY DEF SoundInv, TypeOK
<1>1. /\ m.duel.due => m.duel.round < MaxRounds
      /\ g' \in Dealt(m)
      /\ steady' = IF m.duel.due THEN steady \cap ActivePlayers(m) ELSE steady
      /\ lobby' = lobby /\ cast' = cast /\ played' = played
  BY DEF Step
<1>2. m.duel.due => m.inGame
  BY <1>0 DEF KeepsRounds
<1>3. \/ /\ m.inGame = g.inGame /\ m.duel.byes = g.duel.byes
         /\ m.duel.last = g.duel.last /\ m.duel.round = g.duel.round
      \/ /\ ~m.inGame /\ m.duel.byes = Everyone(0)
         /\ m.duel.last = NoPlayer /\ m.duel.round = 0
  BY DEF KeepsRounds
<1>4. g.duel.round \in Nat
  BY <1>0, DuelNumbers
<1>5. Fair(m, steady) /\ m.duel.round <= g.duel.round
  <2>1. CASE /\ m.inGame = g.inGame /\ m.duel.byes = g.duel.byes
             /\ m.duel.last = g.duel.last /\ m.duel.round = g.duel.round
    BY <1>0, <1>4, <2>1 DEF Fair
  <2>2. CASE /\ ~m.inGame /\ m.duel.byes = Everyone(0)
             /\ m.duel.last = NoPlayer /\ m.duel.round = 0
    <3>1. \A p \in Players : m.duel.byes[p] = 0
      BY <2>2 DEF Everyone
    <3>2. m.duel.last \notin steady
      BY <1>0, <2>2, MatchAssumption
    <3> QED
      BY <1>0, <1>4, <2>2, <3>1, <3>2 DEF Fair
  <2> QED
    BY <1>3, <2>1, <2>2
<1>6. CASE ~m.duel.due
  <2>1. g' = m /\ steady' = steady
    BY <1>1, <1>6 DEF Dealt
  <2>2. ~ g'.duel.round > g.duel.round
    <3>1. m.duel.round \in Nat
      BY DuelNumbers
    <3> QED
      BY <1>4, <1>5, <2>1, <3>1
  <2> QED
    BY <1>0, <1>1, <1>5, <1>6, <2>1, <2>2 DEF Settles
<1>7. CASE m.duel.due
  <2>1. /\ g' \in LobbyMemory /\ g'.duel \in DuelState /\ g' = [m EXCEPT !.duel = g'.duel]
        /\ ~g'.duel.due /\ Fair(g', steady') /\ Rotates(m, g', steady')
    BY <1>0, <1>1, <1>2, <1>5, <1>7, DealtEffect
  <2>2. /\ g'.inGame = m.inGame /\ g'.place = m.place /\ g'.inMatch = m.inMatch
        /\ g'.lives = m.lives /\ g'.blocker = m.blocker
    <3> DEFINE duel == g'.duel
    <3>1. duel \in DuelState /\ g' = [m EXCEPT !.duel = duel]
      BY <2>1
    <3> HIDE DEF duel
    <3> QED
      BY <3>1 DEF LobbyMemory
  <2>3. Sound(g')
    BY <2>2, SoundKept DEF Sound, SameTable
  <2>4. Rotates(g, g', steady')
    BY <1>2, <1>3, <1>7, <2>1 DEF Rotates
  <2>5. steady' \subseteq Players
    BY <1>0, <1>1, <1>7
  <2> QED
    BY <1>0, <1>1, <2>1, <2>2, <2>3, <2>4, <2>5 DEF Settles
<1> QED
  BY <1>6, <1>7

\* One round costs one life: what OneLifePerRound says of the players but p.
PaysOnce(E) ==
  \A p \in Players : g.blocker[p] =>
    /\ p \in E \/ g'.lives[p] = g.lives[p]
    /\ g'.blocker[p] \/ ~g'.inMatch[p]

LEMMA StepKeeps ==
  ASSUME SoundInv, NEW E, NEW m \in LobbyMemory, Sound(m), Keeps(g, m, E), Step(m)
  PROVE  Settles /\ PaysOnce(E) /\ g'.place = m.place
<1>1. /\ Settles /\ g'.place = m.place
      /\ g'.inMatch = m.inMatch /\ g'.lives = m.lives /\ g'.blocker = m.blocker
  BY StepSound DEF Keeps
<1> QED
  BY <1>1 DEF Keeps, PaysOnce

------------------------------------------------------------------------------
(* Each handler, whatever its sender is up to *)

LEMMA InvFacts ==
  ASSUME SoundInv
  PROVE  /\ lobby \in Setups /\ g \in LobbyMemory /\ ~g.duel.due
         /\ Sound(g) /\ AwayAlive(g) /\ Enough(g) /\ Fair(g, steady)
         /\ cast \subseteq Players /\ steady \subseteq Players /\ played \in 0 .. MaxMatches
  BY AliveIsAwayAlive DEF SoundInv, TypeOK, Sound

LEMMA MarkReadyEffect ==
  ASSUME NEW m \in LobbyMemory, NEW p \in Players, NEW row \in Rows, NEW own \in BOOLEAN
  PROVE  LET n == MarkReady(m, p, row, own) IN
         /\ n \in LobbyMemory
         /\ n.inGame = m.inGame /\ n.place = m.place /\ n.inMatch = m.inMatch
         /\ n.lives = m.lives /\ n.blocker = m.blocker /\ n.active = m.active
         /\ n.score = m.score /\ n.hands = m.hands /\ n.timer = m.timer /\ n.duel = m.duel
         /\ n.ready = [m.ready EXCEPT ![p] = row]
         /\ n.readyOwn = [m.readyOwn EXCEPT ![p] = own]
         /\ Keeps(m, n, {})
<1> DEFINE first == \A q \in ActivePlayers(m) \ {p} : m.ready[q] = NoRow /\ ~m.firstReady[q]
           firstReady == [m.firstReady EXCEPT ![p] = @ \/ first]
           n == MarkReady(m, p, row, own)
<1>1. n = [m EXCEPT !.ready[p] = row, !.readyOwn[p] = own, !.firstReady = firstReady]
  <2>1. n = [m EXCEPT !.ready[p] = row, !.readyOwn[p] = own, !.firstReady[p] = @ \/ first]
    BY DEF MarkReady
  <2> HIDE DEF first, n
  <2> QED
    BY <2>1 DEF LobbyMemory
<1>2. firstReady \in [Players -> BOOLEAN]
  <2>1. m.firstReady \in [Players -> BOOLEAN]
    BY DEF LobbyMemory
  <2>2. (m.firstReady[p] \/ first) \in BOOLEAN
    OBVIOUS
  <2>3. firstReady = [m.firstReady EXCEPT ![p] = m.firstReady[p] \/ first]
    OBVIOUS
  <2> HIDE DEF first, firstReady
  <2> QED
    BY <2>1, <2>2, <2>3
<1> HIDE DEF firstReady, n
<1>3. n \in LobbyMemory
  BY <1>1, <1>2 DEF LobbyMemory
<1>4. /\ n.inGame = m.inGame /\ n.place = m.place /\ n.inMatch = m.inMatch
      /\ n.lives = m.lives /\ n.blocker = m.blocker /\ n.active = m.active
      /\ n.score = m.score /\ n.hands = m.hands /\ n.timer = m.timer /\ n.duel = m.duel
      /\ n.ready = [m.ready EXCEPT ![p] = row]
      /\ n.readyOwn = [m.readyOwn EXCEPT ![p] = own]
  BY <1>1 DEF LobbyMemory
<1>5. Keeps(m, n, {})
  BY <1>4, KeepsWhatItLeaves
<1> QED
  BY <1>3, <1>4, <1>5 DEF n

LEMMA HandPlayedEffect ==
  ASSUME g \in LobbyMemory, NEW p \in Players, NEW score \in 0 .. MaxScore,
         NEW hands \in 0 .. Hands, NEW target \in 0 .. MaxScore \cup {NoScore}
  PROVE  LET n == HandPlayed(p, score, hands, target) IN
         /\ n \in LobbyMemory
         /\ n.inGame = g.inGame /\ n.place = g.place /\ n.inMatch = g.inMatch
         /\ n.lives = g.lives /\ n.blocker = g.blocker /\ n.timer = g.timer
         /\ n.ready = g.ready /\ n.readyOwn = g.readyOwn /\ n.active = g.active
         /\ n.duel.due = g.duel.due
         /\ Keeps(g, n, {})
<1> DEFINE aim == IF HasBye(g, p) /\ target # NoScore THEN target ELSE g.duel.target[p]
           reported == [g EXCEPT !.score[p] = score, !.hands[p] = hands,
                                !.duel = [g.duel EXCEPT !.target[p] = aim]]
           n == HandPlayed(p, score, hands, target)
<1>0. g.duel \in DuelState
  BY DEF LobbyMemory
<1>1. aim \in 0 .. MaxScore \cup {NoScore}
  BY <1>0 DEF DuelState
<1>2. \/ n = Settled(g, p, target)
      \/ n = Settled(reported, p, target)
  <2>1. [g EXCEPT !.score[p] = score, !.hands[p] = hands,
                  !.duel.target[p] = IF HasBye(g, p) /\ target # NoScore THEN target ELSE @]
          = reported
    BY DEF LobbyMemory, DuelState
  <2> QED
    BY <2>1 DEF HandPlayed
<1> HIDE DEF aim
<1>3. [g.duel EXCEPT !.target[p] = aim] \in DuelState
  BY <1>0, <1>1 DEF DuelState
<1>4. /\ reported \in LobbyMemory
      /\ reported.duel = [g.duel EXCEPT !.target[p] = aim]
      /\ reported.inGame = g.inGame /\ reported.place = g.place /\ reported.inMatch = g.inMatch
      /\ reported.lives = g.lives /\ reported.blocker = g.blocker /\ reported.timer = g.timer
      /\ reported.ready = g.ready /\ reported.readyOwn = g.readyOwn
      /\ reported.active = g.active
  BY <1>3 DEF LobbyMemory
<1>5. /\ reported.duel.byes = g.duel.byes /\ reported.duel.last = g.duel.last
      /\ reported.duel.round = g.duel.round /\ reported.duel.due = g.duel.due
  BY <1>0, <1>4 DEF DuelState
<1> HIDE DEF reported
<1>6. PICK m \in LobbyMemory :
        /\ n = Settled(m, p, target)
        /\ m.inGame = g.inGame /\ m.place = g.place /\ m.inMatch = g.inMatch
        /\ m.lives = g.lives /\ m.blocker = g.blocker /\ m.timer = g.timer
        /\ m.ready = g.ready /\ m.readyOwn = g.readyOwn /\ m.active = g.active
        /\ m.duel.byes = g.duel.byes /\ m.duel.last = g.duel.last
        /\ m.duel.round = g.duel.round /\ m.duel.due = g.duel.due
  BY <1>2, <1>4, <1>5
<1> DEFINE result == IF ByeBeaten(m, p) THEN "won"
                     ELSE IF target # NoScore /\ m.hands[p] = 0 THEN "lost" ELSE m.duel.result[p]
           duel == [m.duel EXCEPT !.result[p] = result]
<1>7. m.duel \in DuelState
  BY DEF LobbyMemory
<1>8. result \in {"open", "won", "lost"}
  BY <1>7 DEF DuelState
<1>9. n = m \/ n = [m EXCEPT !.duel = duel]
  <2>1. [m EXCEPT !.duel.result[p] =
           IF ByeBeaten(m, p) THEN "won"
           ELSE IF target # NoScore /\ m.hands[p] = 0 THEN "lost" ELSE @]
          = [m EXCEPT !.duel = duel]
    BY <1>7 DEF LobbyMemory, DuelState
  <2> QED
    BY <1>6, <2>1 DEF Settled
<1> HIDE DEF n, result
<1>10. /\ duel \in DuelState
       /\ duel.byes = m.duel.byes /\ duel.last = m.duel.last
       /\ duel.round = m.duel.round /\ duel.due = m.duel.due
  BY <1>7, <1>8 DEF DuelState
<1> HIDE DEF duel
<1>11. /\ n \in LobbyMemory
       /\ n.inGame = m.inGame /\ n.place = m.place /\ n.inMatch = m.inMatch
       /\ n.lives = m.lives /\ n.blocker = m.blocker /\ n.timer = m.timer
       /\ n.ready = m.ready /\ n.readyOwn = m.readyOwn /\ n.active = m.active
       /\ n.duel.byes = m.duel.byes /\ n.duel.last = m.duel.last
       /\ n.duel.round = m.duel.round /\ n.duel.due = m.duel.due
  BY <1>9, <1>10 DEF LobbyMemory
<1>12. Keeps(g, n, {})
  BY <1>6, <1>11, KeepsWhatItLeaves
<1> QED
  BY <1>6, <1>11, <1>12 DEF n

LEMMA ReadyBlindSound ==
  ASSUME SoundInv, NEW p \in Players, NEW row \in Rows, ReadyBlind(p, row)
  PROVE  Settles /\ PaysOnce({})
<1>0. lobby \in Setups /\ g \in LobbyMemory /\ Sound(g)
  BY InvFacts
<1> DEFINE own == Duels /\ HasBye(g, p)
           m == MarkReady(g, p, row, own)
           b == BroadcastGlobalBlindStart(m)
<1>1. Step(m) \/ Step(b)
  BY DEF ReadyBlind
<1>2. own \in BOOLEAN
  OBVIOUS
<1> HIDE DEF own
<1>3. /\ m \in LobbyMemory
      /\ m.inGame = g.inGame /\ m.place = g.place /\ m.inMatch = g.inMatch
      /\ m.lives = g.lives /\ m.blocker = g.blocker /\ m.active = g.active
      /\ m.score = g.score /\ m.hands = g.hands /\ m.timer = g.timer /\ m.duel = g.duel
      /\ m.ready = [g.ready EXCEPT ![p] = row]
      /\ m.readyOwn = [g.readyOwn EXCEPT ![p] = own]
      /\ Keeps(g, m, {})
  BY <1>0, <1>2, MarkReadyEffect
<1> HIDE DEF m
<1>4. Sound(m)
  BY <1>0, <1>3, SoundKept DEF Sound, SameTable
<1>5. /\ b \in LobbyMemory
      /\ b.inGame = m.inGame /\ b.place = m.place /\ b.inMatch = m.inMatch
      /\ b.lives = m.lives /\ Keeps(m, b, {})
  BY <1>0, <1>3, BroadcastEffect
<1> HIDE DEF b
<1>6. Sound(b) /\ Keeps(g, b, {})
  BY <1>3, <1>4, <1>5, SoundKept, KeepsTransitive DEF Sound, SameTable
<1> QED
  BY <1>1, <1>3, <1>4, <1>5, <1>6, StepKeeps

LEMMA PlayHandSound ==
  ASSUME SoundInv, NEW p \in Players, NEW score \in 0 .. MaxScore,
         NEW hands \in 0 .. Hands, NEW target \in 0 .. MaxScore \cup {NoScore},
         PlayHand(p, score, hands, target)
  PROVE  Settles /\ PaysOnce({})
<1>0. lobby \in Setups /\ g \in LobbyMemory /\ Sound(g)
  BY InvFacts
<1> DEFINE m == HandPlayed(p, score, hands, target)
           r == ReconcileActiveMatchState(m)
<1>1. Step(r)
  BY DEF PlayHand
<1>2. /\ m \in LobbyMemory
      /\ m.inGame = g.inGame /\ m.place = g.place /\ m.inMatch = g.inMatch
      /\ m.lives = g.lives /\ Keeps(g, m, {})
  BY <1>0, HandPlayedEffect
<1> HIDE DEF m
<1>3. Alive(m)
  BY <1>0, <1>2, SoundKept DEF Sound, SameTable
<1>4. r \in LobbyMemory /\ Sound(r) /\ Keeps(m, r, {})
  BY <1>0, <1>2, <1>3, ReconcileSound
<1> HIDE DEF r
<1> QED
  BY <1>1, <1>2, <1>4, KeepsTransitive, StepKeeps

LEMMA SetFurthestBlindSound ==
  ASSUME SoundInv, NEW p \in Players, NEW blind \in 0 .. MaxBlind, SetFurthestBlind(p, blind)
  PROVE  Settles /\ PaysOnce({})
<1>0. lobby \in Setups /\ g \in LobbyMemory /\ Sound(g)
  BY InvFacts
<1> DEFINE far == Larger(g.furthest[p], blind)
           m == [g EXCEPT !.furthest[p] = far]
           r == ResolveSurvival(m)
<1>1. lobby.survival /\ (Step(m) \/ Step(r))
  <2>1. [g EXCEPT !.furthest[p] = Larger(@, blind)] = m
    BY <1>0 DEF LobbyMemory
  <2> QED
    BY <2>1 DEF SetFurthestBlind
<1>2. far \in 0 .. MaxBlind
  BY <1>0 DEF LobbyMemory, Larger
<1> HIDE DEF far
<1>3. /\ m \in LobbyMemory
      /\ m.inGame = g.inGame /\ m.place = g.place /\ m.inMatch = g.inMatch
      /\ m.lives = g.lives /\ m.blocker = g.blocker /\ m.duel = g.duel
  BY <1>0, <1>2 DEF LobbyMemory
<1> HIDE DEF m
<1>4. Keeps(g, m, {}) /\ Sound(m) /\ AwayAlive(m)
  BY <1>0, <1>3, KeepsWhatItLeaves, SoundKept, AliveIsAwayAlive DEF Sound, SameTable
<1>5. r \in LobbyMemory /\ Sound(r) /\ Keeps(m, r, {})
  BY <1>0, <1>1, <1>3, <1>4, ResolveSurvivalSound DEF Sound
<1> HIDE DEF r
<1> QED
  BY <1>1, <1>3, <1>4, <1>5, KeepsTransitive, StepKeeps

LEMMA UnreadyBlindSound ==
  ASSUME SoundInv, NEW p \in Players, UnreadyBlind(p)
  PROVE  Settles /\ PaysOnce({})
<1>0. lobby \in Setups /\ g \in LobbyMemory /\ Sound(g)
  BY InvFacts
<1> DEFINE r == ReleaseController(g, p)
           m == [r EXCEPT !.ready[p] = NoRow, !.readyOwn[p] = FALSE]
<1>1. Step(m)
  BY DEF UnreadyBlind
<1>2. /\ r \in LobbyMemory
      /\ r.inGame = g.inGame /\ r.place = g.place /\ r.inMatch = g.inMatch
      /\ r.lives = g.lives /\ r.blocker = g.blocker /\ r.duel = g.duel
  BY <1>0, ReleaseControllerEffect, RetimedMemory
<1> HIDE DEF r
<1>3. m \in LobbyMemory
  BY <1>2 DEF LobbyMemory
<1>4. /\ m.inGame = g.inGame /\ m.place = g.place /\ m.inMatch = g.inMatch
      /\ m.lives = g.lives /\ m.blocker = g.blocker /\ m.duel = g.duel
  BY <1>2 DEF LobbyMemory
<1> HIDE DEF m
<1>5. Keeps(g, m, {}) /\ Sound(m)
  BY <1>0, <1>4, KeepsWhatItLeaves, SoundKept DEF Sound, SameTable
<1> QED
  BY <1>1, <1>3, <1>5, StepKeeps

LEMMA NewRoundSound ==
  ASSUME SoundInv, NEW p \in Players, NewRound(p)
  PROVE  Settles /\ g'.lives = g.lives /\ g'.blocker = [g.blocker EXCEPT ![p] = FALSE]
<1>0. lobby \in Setups /\ g \in LobbyMemory /\ Sound(g)
  BY InvFacts
<1> DEFINE m == [g EXCEPT !.blocker[p] = FALSE]
<1>1. Step(m)
  BY DEF NewRound
<1>2. m \in LobbyMemory
  BY <1>0 DEF LobbyMemory
<1>3. /\ m.inGame = g.inGame /\ m.place = g.place /\ m.inMatch = g.inMatch
      /\ m.lives = g.lives /\ m.blocker = [g.blocker EXCEPT ![p] = FALSE] /\ m.duel = g.duel
  BY <1>0 DEF LobbyMemory
<1> HIDE DEF m
<1>4. KeepsRounds(g, m) /\ Sound(m)
  BY <1>0, <1>3, SoundKept DEF Sound, SameTable, KeepsRounds
<1> QED
  BY <1>1, <1>2, <1>3, <1>4, StepSound

LEMMA RetimedStepSound ==
  ASSUME SoundInv, NEW m, Retimed(g, m), Step(m)
  PROVE  Settles /\ PaysOnce({})
  BY InvFacts, RetimedSound, StepKeeps

\* The players and the pairings are as before, apart from the controller.
LEMMA ControlledEffect ==
  ASSUME g \in LobbyMemory, NEW p \in Players
  PROVE  Retimed(g, Controlled(p))
         /\ Controlled(p).timer.controller = (IF HeadToHead THEN g.timer.controller ELSE p)
         /\ Controlled(p).timer.started = g.timer.started
<1>1. Retimed(g, g)
  BY DEF Retimed, LobbyMemory
<1> DEFINE timer == [g.timer EXCEPT !.controller = p]
           m == [g EXCEPT !.timer = timer]
<1>2. [g EXCEPT !.timer.controller = p] = m
  BY DEF LobbyMemory
<1>3. timer \in AnteTimer /\ timer.controller = p /\ timer.started = g.timer.started
  BY DEF LobbyMemory, AnteTimer
<1> HIDE DEF timer
<1>4. m.timer = timer
  BY DEF LobbyMemory
<1>5. Retimed(g, m)
  BY <1>3, <1>4 DEF Retimed
<1> QED
  BY <1>1, <1>2, <1>3, <1>4, <1>5 DEF Controlled

LEMMA RetimedTransitive ==
  ASSUME NEW m \in LobbyMemory, NEW n, NEW o, Retimed(m, n), Retimed(n, o)
  PROVE  Retimed(m, o)
<1> DEFINE t1 == n.timer
           t2 == o.timer
<1>1. n = [m EXCEPT !.timer = t1] /\ o = [n EXCEPT !.timer = t2] /\ t2 \in AnteTimer
  BY DEF Retimed
<1> HIDE DEF t1, t2
<1>2. o = [m EXCEPT !.timer = t2]
  BY <1>1 DEF LobbyMemory
<1> QED
  BY <1>1, <1>2 DEF Retimed, t2

LEMMA TimerHandlersRetime ==
  ASSUME SoundInv,
         \/ \E p \in Players : SetAnte(p) \/ StartAnteTimer(p) \/ PauseAnteTimer(p)
         \/ Tick
  PROVE  \E m : Retimed(g, m) /\ Step(m)
<1>0. lobby \in Setups /\ g \in LobbyMemory /\ lobby.time \in Nat
  BY InvFacts, LobbyFacts
<1>1. ASSUME NEW p \in Players, SetAnte(p) PROVE \E m : Retimed(g, m) /\ Step(m)
  BY <1>0, <1>1, ResetTimerEffect DEF SetAnte
<1>2. ASSUME NEW p \in Players PROVE Controlled(p) \in LobbyMemory
  BY <1>0, ControlledEffect, RetimedMemory
<1>3. ASSUME NEW p \in Players, StartAnteTimer(p) PROVE \E m : Retimed(g, m) /\ Step(m)
  <2>1. Retimed(Controlled(p), SetRunning(Controlled(p)))
    BY <1>0, <1>2, SetRunningEffect
  <2> QED
    BY <1>0, <1>3, <2>1, ControlledEffect, RetimedTransitive DEF StartAnteTimer
<1>4. ASSUME NEW p \in Players, PauseAnteTimer(p) PROVE \E m : Retimed(g, m) /\ Step(m)
  <2>1. Retimed(Controlled(p), SetPaused(Controlled(p)))
    BY <1>0, <1>2, SetPausedEffect
  <2> QED
    BY <1>0, <1>4, <2>1, ControlledEffect, RetimedTransitive DEF PauseAnteTimer
<1>5. ASSUME Tick PROVE \E m : Retimed(g, m) /\ Step(m)
  <2> DEFINE timer == [g.timer EXCEPT !.left = g.timer.left - 1]
             m == [g EXCEPT !.timer = timer]
  <2>1. [g EXCEPT !.timer.left = @ - 1] = m
    BY <1>0 DEF LobbyMemory, AnteTimer
  <2>2. timer \in AnteTimer
    <3>1. g.timer \in AnteTimer /\ g.timer.left \in 0 .. lobby.time /\ g.timer.left > 0
      BY <1>0, <1>5 DEF Tick, LobbyMemory, AnteTimer
    <3>2. g.timer.left - 1 \in 0 .. lobby.time
      BY <1>0, <3>1
    <3> QED
      BY <3>1, <3>2 DEF AnteTimer
  <2> HIDE DEF timer
  <2>3. m.timer = timer
    BY <1>0 DEF LobbyMemory
  <2> QED
    BY <1>5, <2>1, <2>2, <2>3 DEF Tick, Retimed
<1> QED
  BY <1>1, <1>3, <1>4, <1>5

LEMMA TimerHandlersSound ==
  ASSUME SoundInv,
         \/ \E p \in Players : SetAnte(p) \/ StartAnteTimer(p) \/ PauseAnteTimer(p)
         \/ Tick
  PROVE  Settles /\ PaysOnce({})
BY TimerHandlersRetime, RetimedStepSound

LEMMA FailRoundSound ==
  ASSUME SoundInv, NEW p \in Players, FailRound(p)
  PROVE  Settles /\ PaysOnce({})
<1>0. lobby \in Setups /\ g \in LobbyMemory /\ Sound(g) /\ AwayAlive(g) /\ Enough(g)
  BY InvFacts
<1>1. p \in ActivePlayers(g)
  BY DEF FailRound, InPlay
<1>2. CASE Duels /\ HasBye(g, p)
  <2> DEFINE result == IF ByeBeaten(g, p) THEN "won"
                       ELSE IF g.duel.result[p] = "open" THEN "lost" ELSE g.duel.result[p]
             duel == [g.duel EXCEPT !.result[p] = result]
             m == [g EXCEPT !.duel = duel]
             r == ReconcileActiveMatchState(m)
  <2>1. [g EXCEPT !.duel.result[p] = result] = m
    BY <1>0 DEF LobbyMemory
  <2>2. Step(r)
    BY <1>2, <2>1 DEF FailRound
  <2>3. g.duel \in DuelState /\ result \in {"open", "won", "lost"}
    BY <1>0 DEF LobbyMemory, DuelState
  <2> HIDE DEF result
  <2>4. /\ duel \in DuelState /\ duel.byes = g.duel.byes /\ duel.last = g.duel.last
        /\ duel.round = g.duel.round /\ duel.due = g.duel.due
    BY <2>3 DEF DuelState
  <2> HIDE DEF duel
  <2>5. m.duel = duel
    BY <1>0 DEF LobbyMemory
  <2>6. Paired(g, m)
    BY <2>4, <2>5 DEF Paired
  <2> HIDE DEF m
  <2>7. /\ m \in LobbyMemory
        /\ m.inGame = g.inGame /\ m.place = g.place /\ m.inMatch = g.inMatch
        /\ m.lives = g.lives /\ Keeps(g, m, {})
    BY <1>0, <2>6, PairedEffect
  <2>8. Alive(m)
    BY <1>0, <2>7, SoundKept DEF Sound, SameTable
  <2>9. r \in LobbyMemory /\ Sound(r) /\ Keeps(m, r, {})
    BY <1>0, <2>7, <2>8, ReconcileSound
  <2> HIDE DEF r
  <2> QED
    BY <2>2, <2>7, <2>9, KeepsTransitive, StepKeeps
<1>3. CASE ~(Duels /\ HasBye(g, p))
  <2> DEFINE h == LoseLife(g, {p})
  <2>1. \E m \in {g, h} : Step(ResolveLosses(m))
    BY <1>3 DEF FailRound
  <2>2. {p} \in SUBSET ActivePlayers(g)
    BY <1>1
  <2>3. /\ h \in LobbyMemory /\ h.place = g.place /\ AwayAlive(h) /\ Keeps(g, h, {})
        /\ Enough(g) => Enough(h)
    BY <1>0, <2>2, LoseLifeSound
  <2> HIDE DEF h
  <2>4. Keeps(g, g, {})
    BY DEF Keeps, KeepsRounds
  <2>5. PICK m \in LobbyMemory :
          AwayAlive(m) /\ Enough(m) /\ Keeps(g, m, {}) /\ Step(ResolveLosses(m))
    BY <1>0, <2>1, <2>3, <2>4
  <2> DEFINE r == ResolveLosses(m)
  <2>6. r \in LobbyMemory /\ r.place = m.place /\ Sound(r) /\ Keeps(m, r, {})
    BY <1>0, <2>5, ResolveLossesSound
  <2>7. Step(r)
    BY <2>5
  <2> HIDE DEF r
  <2> QED
    BY <2>5, <2>6, <2>7, KeepsTransitive, StepKeeps
<1> QED
  BY <1>2, <1>3

LEMMA FailTimerSound ==
  ASSUME SoundInv, NEW p \in Players, FailTimer(p)
  PROVE  Settles /\ PaysOnce({})
<1>0. lobby \in Setups /\ g \in LobbyMemory /\ Sound(g) /\ AwayAlive(g) /\ Enough(g)
  BY InvFacts
<1>1. CASE Step(ExpireTimer(g))
  <2> DEFINE m == ExpireTimer(g)
  <2>1. m \in LobbyMemory /\ Sound(m) /\ Keeps(g, m, {})
    BY <1>0, ExpireTimerSound
  <2>2. Step(m)
    BY <1>1
  <2> HIDE DEF m
  <2> QED
    BY <2>1, <2>2, StepKeeps
<1>2. CASE Step(ResolveLosses(LoseLife(g, {p})))
  <2> DEFINE h == LoseLife(g, {p})
             r == ResolveLosses(h)
  <2>1. {p} \in SUBSET ActivePlayers(g)
    BY DEF FailTimer, InPlay
  <2>2. /\ h \in LobbyMemory /\ h.place = g.place /\ AwayAlive(h) /\ Keeps(g, h, {})
        /\ Enough(g) => Enough(h)
    BY <1>0, <2>1, LoseLifeSound
  <2>3. Step(r)
    BY <1>2
  <2> HIDE DEF h
  <2>4. r \in LobbyMemory /\ r.place = h.place /\ Sound(r) /\ Keeps(h, r, {})
    BY <1>0, <2>2, ResolveLossesSound
  <2> HIDE DEF r
  <2> QED
    BY <2>2, <2>3, <2>4, KeepsTransitive, StepKeeps
<1> QED
  BY <1>1, <1>2 DEF FailTimer, ReportedTimeout

LEMMA FailPvPTimerSound ==
  ASSUME SoundInv, NEW p \in Players, FailPvPTimer(p)
  PROVE  Settles /\ PaysOnce({})
<1>0. lobby \in Setups /\ g \in LobbyMemory /\ Sound(g) /\ AwayAlive(g) /\ Enough(g)
  BY InvFacts
<1> DEFINE h == LoseLife(g, {p})
           r == ResolveSoloEliminations(h)
           pair == ActivePlayers(g)
           b == ClearBlind(h, pair)
           c == ClearFirstReady(b, pair)
<1>1. p \in ActivePlayers(g) /\ {p} \in SUBSET Players /\ {p} \in SUBSET ActivePlayers(g)
  BY DEF FailPvPTimer, InPlay
<1>2. Step(IF h.lives[p] = g.lives[p] THEN h ELSE IF r # h THEN r ELSE c)
  BY DEF FailPvPTimer
<1>3. /\ h \in LobbyMemory
      /\ h.inGame = g.inGame /\ h.place = g.place /\ h.inMatch = g.inMatch
      /\ h.ready = g.ready /\ h.readyOwn = g.readyOwn /\ h.active = g.active
      /\ h.score = g.score /\ h.hands = g.hands /\ h.timer = g.timer /\ h.duel = g.duel
      /\ \A q \in Players :
           /\ h.blocker[q] <=> g.blocker[q] \/ q \in {p}
           /\ h.lives[q] <= g.lives[q]
           /\ q \notin {p} \/ g.blocker[q] => h.lives[q] = g.lives[q]
           /\ q \in {p} /\ ~g.blocker[q] /\ g.lives[q] > 0 => h.lives[q] = g.lives[q] - 1
  BY <1>0, <1>1, LobbyFacts, LoseLifeEffect
<1>4. AwayAlive(h) /\ Keeps(g, h, {}) /\ Enough(h)
  BY <1>0, <1>1, LoseLifeSound
<1> HIDE DEF h
<1>5. r \in LobbyMemory /\ r.place = h.place /\ Sound(r) /\ Keeps(h, r, {})
  BY <1>0, <1>3, <1>4, ResolveSoloEliminationsSound
<1>6. pair \in SUBSET Players
  BY ActiveSubset
<1>7. /\ b \in LobbyMemory
      /\ b.inGame = h.inGame /\ b.place = h.place /\ b.inMatch = h.inMatch
      /\ b.lives = h.lives /\ Keeps(h, b, {})
  BY <1>3, <1>6, ClearBlindEffect
<1> HIDE DEF b
<1>8. /\ c \in LobbyMemory
      /\ c.inGame = b.inGame /\ c.place = b.place /\ c.inMatch = b.inMatch
      /\ c.lives = b.lives /\ Keeps(b, c, {})
  BY <1>6, <1>7, ClearFirstReadyEffect
<1> HIDE DEF r, c
<1>9. CASE h.lives[p] = g.lives[p] /\ Step(h)
  <2>1. Alive(h)
    <3>1. CASE g.blocker[p]
      BY <1>0, <1>3, <3>1, SameTableQueries DEF Sound, Alive, SameTable, Playing, Present
    <3>2. CASE ~g.blocker[p]
      <4>1. g.lives[p] \in Nat
        BY <1>0 DEF LobbyMemory
      <4>2. ~ g.lives[p] > 0
        BY <1>1, <1>3, <1>9, <3>2, <4>1
      <4>3. p \in Playing(g)
        BY <1>1 DEF ActivePlayers, SeatedPlayers, Playing, Present
      <4> QED
        BY <1>0, <4>2, <4>3 DEF Sound, Alive
    <3> QED
      BY <3>1, <3>2
  <2> QED
    BY <1>3, <1>4, <1>9, <2>1, StepKeeps DEF Sound
<1>10. CASE Step(r)
  BY <1>3, <1>4, <1>5, <1>10, KeepsTransitive, StepKeeps
<1>11. CASE r = h /\ Step(c)
  <2>1. Sound(c)
    BY <1>5, <1>7, <1>8, <1>11, SoundKept DEF Sound, SameTable
  <2>2. Keeps(g, c, {})
    BY <1>4, <1>7, <1>8, KeepsTransitive
  <2> QED
    BY <1>8, <1>11, <2>1, <2>2, StepKeeps
<1> QED
  BY <1>2, <1>9, <1>10, <1>11

LEMMA ReturnToLobbySound ==
  ASSUME SoundInv, NEW p \in Players, ReturnToLobby(p)
  PROVE  Settles /\ PaysOnce({p})
<1>0. lobby \in Setups /\ g \in LobbyMemory /\ Sound(g)
  BY InvFacts
<1> DEFINE m == Back(g, p)
           r == ReconcileActiveMatchState(m)
<1>1. Step(r)
  BY DEF ReturnToLobby, Back
<1>2. /\ m \in LobbyMemory
      /\ m.inGame = g.inGame /\ m.place = g.place /\ m.duel = g.duel
      /\ m.timer = ReleaseController(g, p).timer
      /\ \A q \in Players :
           /\ m.lives[q] = IF q = p THEN 0 ELSE g.lives[q]
           /\ m.score[q] = IF q = p THEN 0 ELSE g.score[q]
           /\ m.inMatch[q] <=> g.inMatch[q] /\ q # p
           /\ m.ready[q] = IF q = p THEN NoRow ELSE g.ready[q]
           /\ m.readyOwn[q] <=> g.readyOwn[q] /\ q # p
           /\ m.active[q] = IF q = p THEN NoRow ELSE g.active[q]
      /\ Keeps(g, m, {p})
  BY <1>0, BackEffect
<1> HIDE DEF m
<1>3. Alive(m)
  BY <1>0, <1>2 DEF Sound, Alive, Playing, Present
<1>4. r \in LobbyMemory /\ Sound(r) /\ Keeps(m, r, {})
  BY <1>0, <1>2, <1>3, ReconcileSound
<1> HIDE DEF r
<1> QED
  BY <1>1, <1>2, <1>4, KeepsMore, KeepsTransitive, StepKeeps

\* p is gone afterwards.
LEMMA DepartStepSound ==
  ASSUME SoundInv, NEW p \in Players, Step(Depart(g, p)) \/ ExpireSlot(p)
  PROVE  Settles /\ PaysOnce({p}) /\ g'.place[p] = "gone"
<1>0. lobby \in Setups /\ g \in LobbyMemory /\ Sound(g)
  BY InvFacts
<1> DEFINE m == Depart(g, p)
           t == TryStartPendingBlind(m)
<1>1. Step(m) \/ Step(t)
  BY DEF ExpireSlot
<1>2. /\ m \in LobbyMemory /\ m.place = [g.place EXCEPT ![p] = "gone"]
      /\ Sound(m) /\ Keeps(g, m, {p})
  BY <1>0, DepartSound
<1> HIDE DEF m
<1>3. t \in LobbyMemory /\ t.place = m.place /\ Sound(t) /\ Keeps(m, t, {})
  BY <1>0, <1>2, TryStartPendingBlindSound
<1> HIDE DEF t
<1>4. m.place[p] = "gone"
  BY <1>0, <1>2 DEF LobbyMemory
<1>5. Keeps(g, t, {p})
  BY <1>2, <1>3, KeepsMore, KeepsTransitive
<1> QED
  BY <1>1, <1>2, <1>3, <1>4, <1>5, StepKeeps

LEMMA ReserveSound ==
  ASSUME SoundInv, NEW p \in Players, p \in SeatedPlayers(g), Step(Reserve(g, p))
  PROVE  Settles /\ PaysOnce({})
<1>0. lobby \in Setups /\ g \in LobbyMemory /\ Sound(g)
  BY InvFacts
<1> DEFINE m == Reserve(g, p)
<1>1. /\ m \in LobbyMemory
      /\ m.inGame = g.inGame /\ m.inMatch = g.inMatch /\ m.lives = g.lives
      /\ m.blocker = g.blocker /\ m.active = g.active /\ m.duel = g.duel
      /\ m.score = g.score /\ m.hands = g.hands
      /\ m.timer = ReleaseController(g, p).timer
      /\ m.place = [g.place EXCEPT ![p] = "away"]
      /\ m.ready = [g.ready EXCEPT ![p] = NoRow]
      /\ m.readyOwn = [g.readyOwn EXCEPT ![p] = FALSE]
      /\ Keeps(g, m, {})
  BY <1>0, ReserveEffect
<1>2. Step(m)
  OBVIOUS
<1> HIDE DEF m
<1>3. \A q \in Players : m.place[q] = IF q = p THEN "away" ELSE g.place[q]
  BY <1>0, <1>1 DEF LobbyMemory
<1>4. g.place[p] = "seated"
  BY DEF SeatedPlayers
<1>5. Alive(m)
  BY <1>0, <1>1, <1>3, <1>4 DEF Sound, Alive, Playing, Present
<1>6. Enough(m)
  <2>1. CASE g.inMatch[p]
    BY <1>1, <1>3, <2>1 DEF Enough, HasDisconnectedMatchBlocker
  <2>2. CASE ~g.inMatch[p]
    <3>1. /\ ActivePlayers(m) = ActivePlayers(g)
          /\ HasDisconnectedMatchBlocker(g) => HasDisconnectedMatchBlocker(m)
          /\ SeatedPlayers(m) \subseteq SeatedPlayers(g)
      BY <1>1, <1>3, <1>4, <2>2 DEF ActivePlayers, SeatedPlayers, HasDisconnectedMatchBlocker
    <3> QED
      BY <1>0, <1>1, <3>1 DEF Sound, Enough
  <2> QED
    BY <2>1, <2>2
<1> QED
  BY <1>1, <1>2, <1>5, <1>6, StepKeeps DEF Sound

LEMMA RejoinLobbySound ==
  ASSUME SoundInv, NEW p \in Players, RejoinLobby(p)
  PROVE  Settles /\ PaysOnce({})
<1>0. lobby \in Setups /\ g \in LobbyMemory /\ Sound(g)
  BY InvFacts
<1> DEFINE m == [g EXCEPT !.place[p] = "seated"]
           r == ReconcileActiveMatchState(m)
<1>1. g.place[p] = "away" /\ Step(r)
  BY DEF RejoinLobby
<1>2. m \in LobbyMemory
  BY <1>0 DEF LobbyMemory
<1>3. /\ m.inGame = g.inGame /\ m.inMatch = g.inMatch /\ m.lives = g.lives
      /\ m.blocker = g.blocker /\ m.duel = g.duel
      /\ m.place = [g.place EXCEPT ![p] = "seated"]
  BY <1>0 DEF LobbyMemory
<1> HIDE DEF m
<1>4. \A q \in Players : m.place[q] = IF q = p THEN "seated" ELSE g.place[q]
  BY <1>0, <1>3 DEF LobbyMemory
<1>5. Alive(m)
  BY <1>0, <1>1, <1>3, <1>4 DEF Sound, Alive, Playing, Present
<1>6. r \in LobbyMemory /\ Sound(r) /\ Keeps(m, r, {})
  BY <1>0, <1>2, <1>5, ReconcileSound
<1> HIDE DEF r
<1>7. Keeps(g, m, {})
  BY <1>3, KeepsWhatItLeaves
<1> QED
  BY <1>1, <1>6, <1>7, KeepsTransitive, StepKeeps

LEMMA ExpireAnteTimerSound ==
  ASSUME SoundInv, ExpireAnteTimer
  PROVE  Settles /\ PaysOnce({})
<1>0. lobby \in Setups /\ g \in LobbyMemory /\ Sound(g)
  BY InvFacts
<1> DEFINE lapsed == g.timer.left > 0
           timer == [g.timer EXCEPT !.armed = FALSE, !.lapsed = lapsed]
           m == [g EXCEPT !.timer = timer]
           x == ExpireTimer(m)
<1>1. Step(x) \/ Step(m)
  <2>1. [g EXCEPT !.timer.armed = FALSE, !.timer.lapsed = g.timer.left > 0] = m
    BY <1>0 DEF LobbyMemory
  <2> QED
    BY <2>1 DEF ExpireAnteTimer
<1>2. timer \in AnteTimer
  <2>1. lapsed \in BOOLEAN
    OBVIOUS
  <2> HIDE DEF lapsed
  <2> QED BY <1>0, <2>1 DEF LobbyMemory, AnteTimer
<1> HIDE DEF timer
<1>3. Retimed(g, m)
  BY <1>0, <1>2 DEF LobbyMemory, Retimed
<1> HIDE DEF m
<1>4. m \in LobbyMemory /\ Sound(m) /\ Keeps(g, m, {})
  BY <1>0, <1>3, RetimedSound
<1>5. x \in LobbyMemory /\ Sound(x) /\ Keeps(m, x, {})
  BY <1>0, <1>4, ExpireTimerSound
<1> HIDE DEF x
<1> QED
  BY <1>1, <1>4, <1>5, KeepsTransitive, StepKeeps

\* What startGame makes of the memory before a round is dealt.
Prepared(S) ==
  [ClearParticipation(g, S) EXCEPT
     !.inMatch = [p \in Players |-> p \in S \/ @[p]],
     !.lives = [p \in Players |-> IF p \in S THEN lobby.lives ELSE @[p]],
     !.score = [p \in Players |-> IF p \in S THEN 0 ELSE @[p]],
     !.hands = [p \in Players |-> IF p \in S THEN 0 ELSE @[p]],
     !.furthest = [p \in Players |-> IF p \in S THEN 0 ELSE @[p]],
     !.forgiven = Everyone(0), !.duel = NoDuels]

Begun(S) == [ResetTimer(Prepared(S)) EXCEPT !.inGame = TRUE]

LEMMA BegunEffect ==
  ASSUME lobby \in Setups, g \in LobbyMemory, NEW S \in SUBSET Players
  PROVE  LET m == Begun(S) IN
         /\ m \in LobbyMemory
         /\ m.inGame /\ m.place = g.place /\ m.duel = NoDuels
         /\ ~m.timer.started /\ m.timer.controller = NoPlayer
         /\ \A p \in Players :
              /\ m.inMatch[p] <=> g.inMatch[p] \/ p \in S
              /\ m.lives[p] = IF p \in S THEN lobby.lives ELSE g.lives[p]
              /\ m.ready[p] = IF p \in S THEN NoRow ELSE g.ready[p]
              /\ m.active[p] = IF p \in S THEN NoRow ELSE g.active[p]
<1> DEFINE c == ClearParticipation(g, S)
           inMatch == [p \in Players |-> p \in S \/ c.inMatch[p]]
           lives == [p \in Players |-> IF p \in S THEN lobby.lives ELSE c.lives[p]]
           score == [p \in Players |-> IF p \in S THEN 0 ELSE c.score[p]]
           hands == [p \in Players |-> IF p \in S THEN 0 ELSE c.hands[p]]
           furthest == [p \in Players |-> IF p \in S THEN 0 ELSE c.furthest[p]]
           forgiven == Everyone(0)
           q == Prepared(S)
           r == ResetTimer(q)
           m == Begun(S)
<1>1. m = [r EXCEPT !.inGame = TRUE]
  BY DEF Begun
<1>2. /\ c \in LobbyMemory
      /\ c.inGame = g.inGame /\ c.place = g.place /\ c.lives = g.lives
      /\ c.score = g.score /\ c.hands = g.hands /\ c.timer = g.timer /\ c.duel = g.duel
      /\ \A p \in Players :
           /\ c.inMatch[p] <=> g.inMatch[p] /\ p \notin S
           /\ c.blocker[p] <=> g.blocker[p] /\ p \notin S
           /\ c.ready[p] = IF p \in S THEN NoRow ELSE g.ready[p]
           /\ c.readyOwn[p] <=> g.readyOwn[p] /\ p \notin S
           /\ c.active[p] = IF p \in S THEN NoRow ELSE g.active[p]
  BY ClearParticipationEffect
<1>3. q = [c EXCEPT !.inMatch = inMatch, !.lives = lives, !.score = score, !.hands = hands,
                    !.furthest = furthest, !.forgiven = forgiven, !.duel = NoDuels]
  BY <1>2 DEF Prepared, LobbyMemory
<1> HIDE DEF c
<1>4. 0 \in 0 .. MaxScore /\ 0 \in 0 .. Hands /\ 0 \in 0 .. MaxBlind
      /\ 0 \in 0 .. lobby.forgiveness /\ lobby.lives \in 0 .. lobby.lives
  BY LobbyFacts, MatchAssumption
<1>5. /\ inMatch \in [Players -> BOOLEAN] /\ lives \in [Players -> 0 .. lobby.lives]
      /\ score \in [Players -> 0 .. MaxScore] /\ hands \in [Players -> 0 .. Hands]
      /\ furthest \in [Players -> 0 .. MaxBlind]
      /\ forgiven \in [Players -> 0 .. lobby.forgiveness]
  BY <1>2, <1>4 DEF LobbyMemory, Everyone
<1>6. \A p \in Players :
        /\ inMatch[p] <=> p \in S \/ c.inMatch[p]
        /\ lives[p] = IF p \in S THEN lobby.lives ELSE c.lives[p]
  OBVIOUS
<1> HIDE DEF q, inMatch, lives, score, hands, furthest, forgiven
<1>7. q \in LobbyMemory
  BY <1>2, <1>3, <1>5, NoDuelsType DEF LobbyMemory
<1>8. /\ q.place = c.place /\ q.inMatch = inMatch /\ q.lives = lives /\ q.ready = c.ready
      /\ q.active = c.active /\ q.duel = NoDuels
  BY <1>2, <1>3 DEF LobbyMemory
<1>9. Retimed(q, r) /\ ~r.timer.started /\ r.timer.controller = NoPlayer
  BY <1>7, LobbyFacts, ResetTimerEffect
<1> HIDE DEF r
<1>10. /\ r \in LobbyMemory
       /\ r.place = q.place /\ r.inMatch = q.inMatch /\ r.lives = q.lives
       /\ r.ready = q.ready /\ r.active = q.active /\ r.duel = q.duel
  BY <1>7, <1>9, RetimedMemory
<1> HIDE DEF m
<1>11. m \in LobbyMemory
  BY <1>1, <1>10 DEF LobbyMemory
<1>12. /\ m.inGame /\ m.place = r.place /\ m.inMatch = r.inMatch /\ m.lives = r.lives
       /\ m.ready = r.ready /\ m.active = r.active /\ m.duel = r.duel /\ m.timer = r.timer
  BY <1>1, <1>10 DEF LobbyMemory
<1>13. \A p \in Players :
         /\ m.inMatch[p] <=> g.inMatch[p] \/ p \in S
         /\ m.lives[p] = IF p \in S THEN lobby.lives ELSE g.lives[p]
         /\ m.ready[p] = IF p \in S THEN NoRow ELSE g.ready[p]
         /\ m.active[p] = IF p \in S THEN NoRow ELSE g.active[p]
  BY <1>2, <1>6, <1>8, <1>10, <1>12
<1> QED
  BY <1>2, <1>8, <1>9, <1>10, <1>11, <1>12, <1>13 DEF m

LEMMA StartGameSound ==
  ASSUME SoundInv, StartGame
  PROVE  Settles /\ ~g.inGame
<1> DEFINE S == SeatedPlayers(g)
           m == Begun(S)
           d == StartDuelRound(m)
<1>0. /\ lobby \in Setups /\ g \in LobbyMemory /\ Sound(g) /\ Fair(g, steady)
      /\ played \in 0 .. MaxMatches
  BY InvFacts
<1>1. /\ ~g.inGame /\ played < MaxMatches /\ ~AtMostOne(S)
      /\ g' \in Dealt(d)
      /\ cast' = S /\ steady' = (IF Duels THEN S ELSE {}) /\ played' = played + 1
      /\ lobby' = lobby
  BY DEF StartGame, Begun, Prepared
<1>2. S \in SUBSET Players /\ \A p \in Players : p \in S <=> g.place[p] = "seated"
  BY DEF SeatedPlayers
<1> HIDE DEF S
<1>3. /\ m \in LobbyMemory
      /\ m.inGame /\ m.place = g.place /\ m.duel = NoDuels
      /\ \A p \in Players :
           /\ m.inMatch[p] <=> g.inMatch[p] \/ p \in S
           /\ m.lives[p] = IF p \in S THEN lobby.lives ELSE g.lives[p]
  BY <1>0, <1>2, BegunEffect
<1> HIDE DEF m
<1>4. ActivePlayers(m) = S
  BY <1>2, <1>3 DEF ActivePlayers, SeatedPlayers
<1>5. Sound(m)
  <2>1. lobby.lives > 0
    BY <1>0, LobbyFacts
  <2>2. Alive(m)
    BY <1>0, <1>3, <2>1 DEF Sound, Alive, Playing, Present
  <2>3. Enough(m)
    BY <1>1, <1>4 DEF Enough
  <2> QED
    BY <2>2, <2>3 DEF Sound
<1>6. /\ m.duel.round = 0 /\ m.duel.last = NoPlayer /\ ~m.duel.due
      /\ \A p \in Players : m.duel.byes[p] = 0
  BY <1>3 DEF NoDuels, Everyone
<1>7. NoPlayer \notin Players /\ MaxMatches \in Nat /\ g.duel.round \in Nat
  BY <1>0, MatchAssumption, DuelNumbers
<1>8. played' \in 0 .. MaxMatches
  BY <1>0, <1>1, <1>7
<1>9. CASE Duels
  <2>1. Paired(m, d) /\ d.duel.due
    <3> DEFINE duel == [m.duel EXCEPT !.due = TRUE]
    <3>1. d = [m EXCEPT !.duel = duel]
      BY <1>3, <1>9 DEF StartDuelRound, LobbyMemory
    <3>2. duel.due
      BY DuelNumbers, <1>3 DEF DuelState
    <3> QED
      BY <1>3, <3>1, <3>2, StartDuelRoundEffect DEF LobbyMemory
  <2> HIDE DEF d
  <2>2. /\ d \in LobbyMemory /\ d.place = m.place /\ d.inMatch = m.inMatch
        /\ d.inGame = m.inGame /\ d.lives = m.lives
    BY <1>3, <2>1, PairedEffect
  <2>3. d.duel.byes = m.duel.byes /\ d.duel.last = m.duel.last /\ d.duel.round = m.duel.round
    BY <2>1 DEF Paired
  <2>4. Fair(d, S)
    BY <1>2, <1>3, <1>6, <1>7, <2>2, <2>3 DEF Fair
  <2>5. ActivePlayers(d) = S /\ Sound(d)
    BY <1>3, <1>4, <1>5, <2>2, SameTableQueries, SoundKept DEF Sound, SameTable
  <2>6. d.duel.round < MaxRounds
    BY <1>0, <1>6, <1>9, <2>3, LobbyFacts
  <2>7. /\ g' \in LobbyMemory /\ g'.duel \in DuelState /\ g' = [d EXCEPT !.duel = g'.duel]
        /\ ~g'.duel.due /\ Fair(g', S) /\ Rotates(d, g', S)
    <3>1. S = S \cap ActivePlayers(d)
      BY <2>5
    <3> QED
      BY <1>1, <1>2, <1>3, <2>1, <2>2, <2>4, <2>6, <3>1, DealtEffect
  <2>8. g'.inGame = d.inGame /\ g'.place = d.place /\ g'.inMatch = d.inMatch
        /\ g'.lives = d.lives
    <3> DEFINE duel == g'.duel
    <3>1. duel \in DuelState /\ g' = [d EXCEPT !.duel = duel]
      BY <2>7
    <3> HIDE DEF duel
    <3> QED
      BY <2>2, <3>1 DEF LobbyMemory
  <2>9. Sound(g')
    BY <2>5, <2>8, SoundKept DEF Sound, SameTable
  <2>10. Rotates(g, g', S)
    BY <1>0, <1>1, <1>2, <1>7, <2>7 DEF Rotates, Fair
  <2> QED
    BY <1>1, <1>2, <1>8, <1>9, <2>7, <2>9, <2>10 DEF Settles
<1>10. CASE ~Duels
  <2>1. g' = m
    BY <1>1, <1>6, <1>10 DEF StartDuelRound, Dealt
  <2>2. ~(g'.duel.round > g.duel.round)
    BY <1>6, <1>7, <2>1
  <2>3. Fair(m, {})
    BY <1>3, <1>6, <1>7 DEF Fair
  <2> QED
    BY <1>1, <1>2, <1>3, <1>5, <1>6, <1>8, <1>10, <2>1, <2>2, <2>3 DEF Settles
<1> QED
  BY <1>1, <1>9, <1>10

LEMMA SoundInit ==
  ASSUME Init PROVE SoundInv
<1>1. lobby \in Setups
  BY DEF Init
<1>2. lobby.time \in 0 .. lobby.time /\ 0 \in 0 .. lobby.lives /\ 0 \in 0 .. lobby.forgiveness
      /\ 0 \in 0 .. MaxScore /\ 0 \in 0 .. Hands /\ 0 \in 0 .. MaxBlind /\ 0 \in 0 .. MaxMatches
  BY <1>1, LobbyFacts, MatchAssumption
<1>3. g \in LobbyMemory
  BY <1>2, NoDuelsType DEF Init, LobbyMemory, AnteTimer, Everyone
<1>4. /\ ~g.inGame /\ g.duel = NoDuels /\ \A p \in Players : ~g.inMatch[p]
      /\ cast = {} /\ steady = {} /\ played = 0
  BY DEF Init, Everyone
<1>5. Sound(g)
  BY <1>4 DEF Sound, Alive, Enough, Playing, Present
<1>6. Fair(g, steady) /\ ~g.duel.due
  BY <1>4 DEF Fair, NoDuels, Everyone
<1> QED
  BY <1>1, <1>2, <1>3, <1>4, <1>5, <1>6 DEF SoundInv, TypeOK

\* Only startGame, newRound and the end of a player's own match give somebody
\* another life to lose.
LEMMA NextSound ==
  ASSUME SoundInv, Next
  PROVE  /\ Settles
         /\ \/ ~g.inGame
            \/ PaysOnce({})
            \/ \E p \in Players :
                 \/ NewRound(p) /\ g'.lives = g.lives
                                /\ g'.blocker = [g.blocker EXCEPT ![p] = FALSE]
                 \/ PaysOnce({p}) /\ (ReturnToLobby(p) \/ g'.place[p] = "gone")
<1>1. CASE StartGame
  BY <1>1, StartGameSound
<1>2. CASE Tick \/ ExpireAnteTimer
  BY <1>2, TimerHandlersSound, ExpireAnteTimerSound
<1>3. ASSUME NEW p \in Players, NEW row \in Rows, ReadyBlind(p, row)
      PROVE  Settles /\ PaysOnce({})
  BY <1>3, ReadyBlindSound
<1>4. ASSUME NEW p \in Players, NEW score \in 0 .. MaxScore, NEW hands \in 0 .. Hands,
             NEW target \in 0 .. MaxScore \cup {NoScore}, PlayHand(p, score, hands, target)
      PROVE  Settles /\ PaysOnce({})
  BY <1>4, PlayHandSound
<1>5. ASSUME NEW p \in Players, NEW blind \in 0 .. MaxBlind, SetFurthestBlind(p, blind)
      PROVE  Settles /\ PaysOnce({})
  BY <1>5, SetFurthestBlindSound
<1>6. ASSUME NEW p \in Players,
             \/ UnreadyBlind(p) \/ SetAnte(p) \/ FailRound(p) \/ FailTimer(p)
             \/ FailPvPTimer(p) \/ StartAnteTimer(p) \/ PauseAnteTimer(p) \/ RejoinLobby(p)
      PROVE  Settles /\ PaysOnce({})
  BY <1>6, UnreadyBlindSound, TimerHandlersSound, FailRoundSound, FailTimerSound,
     FailPvPTimerSound, RejoinLobbySound
<1>7. ASSUME NEW p \in Players, NewRound(p)
      PROVE  Settles /\ g'.lives = g.lives /\ g'.blocker = [g.blocker EXCEPT ![p] = FALSE]
  BY <1>7, NewRoundSound
<1>8. ASSUME NEW p \in Players, ReturnToLobby(p) PROVE Settles /\ PaysOnce({p})
  BY <1>8, ReturnToLobbySound
<1>9. ASSUME NEW p \in Players, LeaveLobby(p) \/ Disconnect(p) \/ ExpireSlot(p)
      PROVE  Settles /\ (PaysOnce({}) \/ (PaysOnce({p}) /\ g'.place[p] = "gone"))
  <2>1. \/ Step(Depart(g, p)) \/ ExpireSlot(p)
        \/ p \in SeatedPlayers(g) /\ Step(Reserve(g, p))
    BY <1>9 DEF LeaveLobby, Disconnect
  <2> QED
    BY <2>1, DepartStepSound, ReserveSound
<1>10. ASSUME NEW p \in Players,
              \/ \E row \in Rows : ReadyBlind(p, row)
              \/ \E score \in 0 .. MaxScore, hands \in 0 .. Hands,
                    target \in 0 .. MaxScore \cup {NoScore} : PlayHand(p, score, hands, target)
              \/ \E blind \in 0 .. MaxBlind : SetFurthestBlind(p, blind)
              \/ UnreadyBlind(p) \/ SetAnte(p) \/ FailRound(p) \/ FailTimer(p)
              \/ FailPvPTimer(p) \/ StartAnteTimer(p) \/ PauseAnteTimer(p) \/ RejoinLobby(p)
       PROVE  Settles /\ PaysOnce({})
  BY <1>3, <1>4, <1>5, <1>6, <1>10
<1> QED
  <2>1. CASE StartGame \/ Tick \/ ExpireAnteTimer
    BY <1>1, <1>2, <2>1
  <2>2. ASSUME NEW p \in Players,
               \/ NewRound(p) \/ ReturnToLobby(p) \/ LeaveLobby(p) \/ Disconnect(p)
               \/ ExpireSlot(p)
        PROVE  /\ Settles
               /\ \/ PaysOnce({})
                  \/ NewRound(p) /\ g'.lives = g.lives
                                 /\ g'.blocker = [g.blocker EXCEPT ![p] = FALSE]
                  \/ PaysOnce({p}) /\ (ReturnToLobby(p) \/ g'.place[p] = "gone")
    BY <1>7, <1>8, <1>9, <2>2
  <2>3. \/ StartGame \/ Tick \/ ExpireAnteTimer
        \/ \E p \in Players :
             \/ NewRound(p) \/ ReturnToLobby(p) \/ LeaveLobby(p) \/ Disconnect(p)
             \/ ExpireSlot(p)
        \/ \E p \in Players :
             \/ \E row \in Rows : ReadyBlind(p, row)
             \/ \E score \in 0 .. MaxScore, hands \in 0 .. Hands,
                   target \in 0 .. MaxScore \cup {NoScore} : PlayHand(p, score, hands, target)
             \/ \E blind \in 0 .. MaxBlind : SetFurthestBlind(p, blind)
             \/ UnreadyBlind(p) \/ SetAnte(p) \/ FailRound(p) \/ FailTimer(p)
             \/ FailPvPTimer(p) \/ StartAnteTimer(p) \/ PauseAnteTimer(p) \/ RejoinLobby(p)
    BY DEF Next
  <2> QED
    BY <1>10, <2>1, <2>2, <2>3

LEMMA SoundStep ==
  ASSUME SoundInv, [Next]_vars
  PROVE  SoundInv'
<1>1. CASE Next
  <2>1. Settles /\ lobby \in Setups
    BY <1>1, NextSound, InvFacts
  <2>2. TypeOK'
    BY <2>1 DEF Settles, TypeOK, LobbyMemory, AnteTimer, DuelState
  <2>3. Sound(g)'
    BY <2>1 DEF Settles, Sound, Alive, Enough, Playing, Present, SeatedPlayers, ActivePlayers,
                HasDisconnectedMatchBlocker, AtMostOne
  <2>4. Fair(g, steady)'
    BY <2>1 DEF Settles, Fair
  <2> QED
    BY <2>2, <2>3, <2>4 DEF SoundInv
<1>2. CASE UNCHANGED vars
  BY <1>2 DEF vars, SoundInv, TypeOK, LobbyMemory, AnteTimer, DuelState, Sound, Alive, Enough,
              Playing, Present, SeatedPlayers, ActivePlayers, HasDisconnectedMatchBlocker,
              AtMostOne, Fair
<1> QED
  BY <1>1, <1>2

\* The memory of a lobby keeps its type, a game that goes on has enough players
\* that are alive, and byes are spread evenly, whatever peers report.
THEOREM SoundCorrect == Spec => []SoundInv
<1>1. Init => SoundInv
  BY SoundInit
<1>2. SoundInv /\ [Next]_vars => SoundInv'
  BY SoundStep
<1> QED
  BY <1>1, <1>2, PTL DEF Spec

\* Every way to lose a life, to leave or to return is followed by the
\* elimination or the end of the match it calls for.
THEOREM MatchNeedsTwoCorrect == Spec => []MatchNeedsTwo
<1>1. SoundInv => MatchNeedsTwo
  BY DEF SoundInv, Sound, Alive, Enough, MatchNeedsTwo, Participants, Playing, Present
<1> QED
  BY <1>1, SoundCorrect, PTL

\* One blind, one timer and one failed round cost one life together.
THEOREM OneLifeCorrect == Spec => OneLifePerRound
<1>1. ASSUME SoundInv, Next, g.inGame, NEW p \in Players, g.blocker[p]
      PROVE  /\ g'.lives[p] = g.lives[p] \/ ReturnToLobby(p) \/ g'.place[p] = "gone"
             /\ g'.blocker[p] \/ ~g'.inMatch[p] \/ NewRound(p)
  <2>1. \/ PaysOnce({})
        \/ \E q \in Players :
             \/ NewRound(q) /\ g'.lives = g.lives
                            /\ g'.blocker = [g.blocker EXCEPT ![q] = FALSE]
             \/ PaysOnce({q}) /\ (ReturnToLobby(q) \/ g'.place[q] = "gone")
    BY <1>1, NextSound
  <2>2. g.blocker \in [Players -> BOOLEAN]
    BY <1>1, InvFacts DEF LobbyMemory
  <2>3. CASE PaysOnce({})
    BY <1>1, <2>3 DEF PaysOnce
  <2>4. ASSUME NEW q \in Players, NewRound(q), g'.lives = g.lives,
               g'.blocker = [g.blocker EXCEPT ![q] = FALSE]
        PROVE  /\ g'.lives[p] = g.lives[p]
               /\ g'.blocker[p] \/ NewRound(p)
    BY <1>1, <2>2, <2>4
  <2>5. ASSUME NEW q \in Players, PaysOnce({q}), ReturnToLobby(q) \/ g'.place[q] = "gone"
        PROVE  /\ g'.lives[p] = g.lives[p] \/ ReturnToLobby(p) \/ g'.place[p] = "gone"
               /\ g'.blocker[p] \/ ~g'.inMatch[p]
    BY <1>1, <2>5 DEF PaysOnce
  <2> QED
    BY <2>1, <2>3, <2>4, <2>5
<1>2. SoundInv /\ [Next]_vars =>
        [\A p \in Players : g.inGame /\ g.blocker[p] =>
           /\ g'.lives[p] = g.lives[p] \/ ReturnToLobby(p) \/ g'.place[p] = "gone"
           /\ g'.blocker[p] \/ ~g'.inMatch[p] \/ NewRound(p)]_vars
  BY <1>1
<1> QED
  BY <1>2, SoundCorrect, PTL DEF Spec, OneLifePerRound

\* Nobody is two byes ahead of somebody who has been there all along, and
\* nobody has two byes in a row while such a player could have had one.
THEOREM ByesRotateCorrect == Spec => ByesRotate
<1>1. ASSUME SoundInv, Next, g'.duel.round > g.duel.round
      PROVE  /\ \A p, q \in steady' : g'.duel.byes[p] <= g'.duel.byes[q] + 1
             /\ \A p \in steady' : g.duel.last = p /\ HasBye(g', p) =>
                  ActivePlayers(g') \cap steady' = {p}
  BY <1>1, NextSound DEF Settles, Rotates
<1>2. SoundInv /\ [Next]_vars =>
        [g'.duel.round > g.duel.round =>
           /\ \A p, q \in steady' : g'.duel.byes[p] <= g'.duel.byes[q] + 1
           /\ \A p \in steady' : g.duel.last = p /\ HasBye(g', p) =>
                ActivePlayers(g') \cap steady' = {p}]_vars
  BY <1>1
<1> QED
  BY <1>2, SoundCorrect, PTL DEF Spec, ByesRotate

------------------------------------------------------------------------------
(* Blinds and the timer in the hands of peers that report what their own game
   is in: the changes of memory *)

LEMMA ParticipantFacts ==
  ASSUME NEW m \in LobbyMemory
  PROVE  /\ \A p \in ActivePlayers(m) : p \in Playing(m) /\ p \in Present(m) /\ p \in Players
         /\ ~HasDisconnectedMatchBlocker(m) => Playing(m) = ActivePlayers(m)
         /\ \A p \in Playing(m) : p \in Players
<1>1. \A p \in Players : m.place[p] \in {"seated", "away", "gone"}
  BY DEF LobbyMemory
<1> QED
  BY <1>1 DEF ActivePlayers, SeatedPlayers, Playing, Present, HasDisconnectedMatchBlocker

LEMMA SameOrder ==
  ASSUME NEW m, NEW n, SameTable(m, n), n.inGame = m.inGame, n.ready = m.ready,
         n.readyOwn = m.readyOwn, n.active = m.active, n.timer = m.timer
  PROVE  (Orderly(m) => Orderly(n)) /\ (Idle(m) => Idle(n))
<1>1. /\ SeatedPlayers(n) = SeatedPlayers(m) /\ ActivePlayers(n) = ActivePlayers(m)
      /\ Present(n) = Present(m) /\ Playing(n) = Playing(m)
  BY SameTableQueries
<1> QED
  BY <1>1 DEF Orderly, OneBlind, Idle, ReadyWait, InGoodHands, ReadyForPvp

\* A game that goes on while nobody is in a blind has somebody to start one.
LEMMA IdleSettled ==
  ASSUME NEW m \in LobbyMemory, Idle(m), Enough(m)
  PROVE  NotOverdue(m)
<1> SUFFICES ASSUME m.inGame, SeatedPlayers(m) # {}, AllStarted(m),
                    ~HasDisconnectedMatchBlocker(m)
             PROVE  FALSE
  BY DEF NotOverdue
<1>1. PICK p \in ActivePlayers(m) : TRUE
  BY DEF Enough, AtMostOne
<1> QED
  BY <1>1, ParticipantFacts DEF Idle, AllStarted

\* What decides whether a blind is due is the table, the scores and the hands
\* of its participants, and the pairings.
LEMMA SameBlind ==
  ASSUME NEW m, NEW n, n.inGame = m.inGame, ActivePlayers(n) = ActivePlayers(m),
         SeatedPlayers(n) \subseteq SeatedPlayers(m),
         HasDisconnectedMatchBlocker(m) => HasDisconnectedMatchBlocker(n),
         n.duel = m.duel,
         \A p \in ActivePlayers(m) :
           n.active[p] = m.active[p] /\ n.score[p] = m.score[p] /\ n.hands[p] = m.hands[p],
         NotOverdue(m)
  PROVE  NotOverdue(n)
<1>1. AllStarted(n) <=> AllStarted(m)
  BY DEF AllStarted
<1>2. \A P \in SUBSET ActivePlayers(m) :
        Scores(n, P) = Scores(m, P) /\ WithHands(n, P) = WithHands(m, P)
  BY DEF Scores, WithHands
<1>3. ShouldResolveBlindNow(n) <=> ShouldResolveBlindNow(m)
  <2>1. ASSUME NEW p \in ActivePlayers(m) PROVE DuelResolved(n, p) <=> DuelResolved(m, p)
    <3>1. Opponents(n, p) = Opponents(m, p) /\ Opponents(m, p) \subseteq ActivePlayers(m)
      BY DEF Opponents
    <3>2. HasBye(n, p) <=> HasBye(m, p)
      BY DEF HasBye
    <3>3. ByeBeaten(n, p) <=> ByeBeaten(m, p)
      BY DEF ByeBeaten
    <3>4. \A q \in Opponents(m, p) :
            PairResolved(Scores(n, {p, q}), WithHands(n, {p, q}))
              <=> PairResolved(Scores(m, {p, q}), WithHands(m, {p, q}))
      <4> SUFFICES ASSUME NEW q \in Opponents(m, p)
                   PROVE  Scores(n, {p, q}) = Scores(m, {p, q})
                          /\ WithHands(n, {p, q}) = WithHands(m, {p, q})
        OBVIOUS
      <4>1. {p, q} \in SUBSET ActivePlayers(m)
        BY <3>1
      <4> QED
        BY <1>2, <4>1
    <3>5. n.hands[p] = m.hands[p] /\ n.duel.result[p] = m.duel.result[p]
      OBVIOUS
    <3> QED
      BY <3>1, <3>2, <3>3, <3>4, <3>5 DEF DuelResolved
  <2>2. Scores(n, ActivePlayers(n)) = Scores(m, ActivePlayers(m))
        /\ WithHands(n, ActivePlayers(n)) = WithHands(m, ActivePlayers(m))
    BY <1>2
  <2> QED
    BY <2>1, <2>2 DEF ShouldResolveBlindNow
<1>4. (\A p \in ActivePlayers(m) : m.hands[p] = Hands)
        => (\A p \in ActivePlayers(n) : n.hands[p] = Hands)
  OBVIOUS
<1>5. SeatedPlayers(n) # {} => SeatedPlayers(m) # {}
  OBVIOUS
<1> QED
  BY <1>1, <1>3, <1>4, <1>5 DEF NotOverdue

\* The timer runs between blinds only, in good hands.
LEMMA RetimedOrderly ==
  ASSUME NEW m \in LobbyMemory, Orderly(m), NEW n, Retimed(m, n),
         n.timer.started => Idle(m) \/ m.timer.started,
         n.timer.controller # NoPlayer =>
           \/ n.timer.controller = m.timer.controller
           \/ /\ n.timer.controller \in ActivePlayers(m)
              /\ ReadyForPvp(m, n.timer.controller) /\ ~HeadToHead,
         n.timer.started /\ ~HeadToHead => n.timer.controller # NoPlayer
  PROVE  /\ n \in LobbyMemory /\ Orderly(n)
         /\ Idle(m) => Idle(n)
         /\ NotOverdue(m) => NotOverdue(n)
<1>1. /\ n \in LobbyMemory
      /\ n.inGame = m.inGame /\ n.place = m.place /\ n.inMatch = m.inMatch
      /\ n.lives = m.lives /\ n.blocker = m.blocker /\ n.firstReady = m.firstReady
      /\ n.ready = m.ready /\ n.readyOwn = m.readyOwn /\ n.active = m.active
      /\ n.score = m.score /\ n.hands = m.hands /\ n.duel = m.duel
  BY RetimedMemory
<1>2. /\ SeatedPlayers(n) = SeatedPlayers(m) /\ ActivePlayers(n) = ActivePlayers(m)
      /\ Present(n) = Present(m) /\ Playing(n) = Playing(m)
      /\ HasDisconnectedMatchBlocker(n) = HasDisconnectedMatchBlocker(m)
  BY <1>1, SameTableQueries DEF SameTable
<1>3. Idle(m) => Idle(n)
  BY <1>1, <1>2 DEF Idle
<1>4. OneBlind(n)
  BY <1>1, <1>2, <1>3 DEF Orderly, OneBlind
<1>5. ReadyWait(n)
  BY <1>1, <1>2 DEF Orderly, ReadyWait
<1>6. InGoodHands(n)
  BY <1>1, <1>2 DEF Orderly, InGoodHands, ReadyForPvp
<1>7. NotOverdue(m) => NotOverdue(n)
  BY <1>1, <1>2, SameBlind
<1> QED
  BY <1>1, <1>2, <1>3, <1>4, <1>5, <1>6, <1>7 DEF Orderly

LEMMA ResetTimerOrderly ==
  ASSUME lobby \in Setups, NEW m \in LobbyMemory, Orderly(m)
  PROVE  Orderly(ResetTimer(m)) /\ (NotOverdue(m) => NotOverdue(ResetTimer(m)))
<1> DEFINE n == ResetTimer(m)
<1>1. Retimed(m, n) /\ ~n.timer.started /\ n.timer.controller = NoPlayer
  BY LobbyFacts, ResetTimerEffect
<1> HIDE DEF n
<1>2. Orderly(n) /\ (NotOverdue(m) => NotOverdue(n))
  BY <1>1, RetimedOrderly
<1> QED
  BY <1>2 DEF n

LEMMA SetPausedOrderly ==
  ASSUME NEW m \in LobbyMemory, Orderly(m)
  PROVE  Orderly(SetPaused(m)) /\ (NotOverdue(m) => NotOverdue(SetPaused(m)))
<1> DEFINE n == SetPaused(m)
<1>1. Retimed(m, n) /\ ~n.timer.started /\ n.timer.controller = m.timer.controller
  BY SetPausedEffect
<1> HIDE DEF n
<1>2. Orderly(n) /\ (NotOverdue(m) => NotOverdue(n))
  BY <1>1, RetimedOrderly
<1> QED
  BY <1>2 DEF n

LEMMA ReleaseOrderly ==
  ASSUME NEW m \in LobbyMemory, NEW p \in Players, Orderly(m)
  PROVE  LET n == ReleaseController(m, p) IN
         /\ n \in LobbyMemory /\ Orderly(n) /\ n.timer.controller # p
         /\ NotOverdue(m) => NotOverdue(n)
<1> DEFINE n == ReleaseController(m, p)
<1>1. /\ Retimed(m, n)
      /\ m.timer.controller # p => n = m
      /\ m.timer.controller = p => ~n.timer.started /\ n.timer.controller = NoPlayer
  BY ReleaseControllerEffect
<1> HIDE DEF n
<1>2. p # NoPlayer
  BY MatchAssumption
<1>3. CASE m.timer.controller = p
  <2>1. n \in LobbyMemory /\ Orderly(n) /\ (NotOverdue(m) => NotOverdue(n))
    BY <1>1, <1>3, RetimedOrderly
  <2> QED
    BY <1>1, <1>2, <1>3, <2>1 DEF n
<1>4. CASE m.timer.controller # p
  BY <1>1, <1>4 DEF n
<1> QED
  BY <1>3, <1>4

LEMMA ClearedOrderly ==
  ASSUME NEW m \in LobbyMemory, NEW D \in SUBSET Players, Orderly(m),
         m.timer.controller \notin D
  PROVE  LET n == ClearParticipation(m, D) IN
         Orderly(n) /\ (Idle(m) => Idle(n))
<1> DEFINE n == ClearParticipation(m, D)
<1>1. /\ n \in LobbyMemory
      /\ n.inGame = m.inGame /\ n.place = m.place /\ n.lives = m.lives
      /\ n.score = m.score /\ n.hands = m.hands /\ n.timer = m.timer /\ n.duel = m.duel
      /\ \A p \in Players :
           /\ n.inMatch[p] <=> m.inMatch[p] /\ p \notin D
           /\ n.blocker[p] <=> m.blocker[p] /\ p \notin D
           /\ n.ready[p] = IF p \in D THEN NoRow ELSE m.ready[p]
           /\ n.readyOwn[p] <=> m.readyOwn[p] /\ p \notin D
           /\ n.active[p] = IF p \in D THEN NoRow ELSE m.active[p]
  BY ClearParticipationEffect
<1> HIDE DEF n
<1>2. Playing(n) = Playing(m) \ D /\ Present(n) = Present(m)
  BY <1>1 DEF Playing, Present
<1>3. ActivePlayers(n) = ActivePlayers(m) \ D
  BY <1>1 DEF ActivePlayers, SeatedPlayers
<1>4. \A p \in Playing(n) : p \in Playing(m) /\ n.active[p] = m.active[p]
  BY <1>1, <1>2 DEF Playing, Present
<1>5. Idle(m) => Idle(n)
  BY <1>4 DEF Idle
<1>6. OneBlind(n)
  BY <1>1, <1>4, <1>5 DEF Orderly, OneBlind
<1>7. ReadyWait(n)
  BY <1>1, <1>3 DEF Orderly, ReadyWait
<1>8. InGoodHands(n)
  <2>1. \A p \in ActivePlayers(m) : p \in Players
    BY ParticipantFacts
  <2> QED
    BY <1>1, <1>3, <2>1 DEF Orderly, InGoodHands, ReadyForPvp
<1> QED
  BY <1>2, <1>5, <1>6, <1>7, <1>8 DEF n, Orderly

\* The end of a match leaves nobody in a blind, unless somebody who is in one
\* is away: then no match ends.
LEMMA FinishMatchOrderly ==
  ASSUME lobby \in Setups, NEW m \in LobbyMemory, Orderly(m),
         Idle(m) \/ ~HasDisconnectedMatchBlocker(m)
  PROVE  LET n == FinishMatch(m) IN
         Orderly(n) /\ NotOverdue(n) /\ Idle(n) /\ ~n.inGame /\ ~n.duel.due
<1> DEFINE n == FinishMatch(m)
           A == ActivePlayers(m)
<1>1. /\ n \in LobbyMemory
      /\ ~n.inGame /\ n.place = m.place /\ n.lives = m.lives
      /\ ~n.timer.started /\ n.timer.controller = NoPlayer /\ n.duel = NoDuels
      /\ \A p \in Players :
           /\ n.inMatch[p] <=> m.inMatch[p] /\ p \notin A
           /\ n.blocker[p] <=> m.blocker[p] /\ p \notin A
           /\ n.ready[p] = IF p \in A THEN NoRow ELSE m.ready[p]
           /\ n.active[p] = IF p \in A THEN NoRow ELSE m.active[p]
  BY FinishMatchEffect
<1> HIDE DEF n
<1>2. Playing(n) = Playing(m) \ A /\ Present(n) = Present(m)
  BY <1>1 DEF Playing, Present
<1>3. Idle(n)
  <2>1. CASE Idle(m)
    BY <1>1, <1>2, <2>1 DEF Idle, Playing, Present
  <2>2. CASE ~HasDisconnectedMatchBlocker(m)
    BY <1>2, <2>2, ParticipantFacts DEF Idle
  <2> QED
    BY <2>1, <2>2
<1>4. ReadyWait(n)
  BY <1>1 DEF Orderly, ReadyWait
<1>5. InGoodHands(n) /\ OneBlind(n) /\ NotOverdue(n)
  BY <1>1, <1>3 DEF InGoodHands, OneBlind, NotOverdue
<1> QED
  BY <1>1, <1>2, <1>3, <1>4, <1>5 DEF n, Orderly, NoDuels

\* Whoever holds the timer is not among the dead.
HolderLives(m) == m.timer.controller # NoPlayer => m.lives[m.timer.controller] > 0

LEMMA EliminateOrderly ==
  ASSUME lobby \in Setups, NEW m \in LobbyMemory, Orderly(m), HolderLives(m),
         Idle(m) \/ ~HasDisconnectedMatchBlocker(m)
  PROVE  LET n == EliminateWithoutRound(m) IN
         /\ Orderly(n)
         /\ Idle(m) => Idle(n)
         /\ n.duel.due => m.duel.due
         /\ \A p \in Players : n.ready[p] # NoRow => m.ready[p] # NoRow
<1> DEFINE alive == {p \in ActivePlayers(m) : m.lives[p] > 0}
<1>1. CASE EliminateWithoutRound(m) = FinishMatch(m)
  <2>1. /\ Orderly(FinishMatch(m)) /\ Idle(FinishMatch(m)) /\ ~FinishMatch(m).duel.due
    BY FinishMatchOrderly
  <2>2. \A p \in Players : FinishMatch(m).ready[p] # NoRow => m.ready[p] # NoRow
    BY FinishMatchEffect
  <2> QED
    BY <1>1, <2>1, <2>2
<1>2. CASE EliminateWithoutRound(m) = ClearParticipation(m, ActivePlayers(m) \ alive)
  <2> DEFINE D == ActivePlayers(m) \ alive
             n == ClearParticipation(m, D)
  <2>1. D \in SUBSET Players
    BY ActiveSubset
  <2>2. m.timer.controller \notin D
    <3>1. NoPlayer \notin Players
      BY MatchAssumption
    <3> QED
      BY <2>1, <3>1 DEF Orderly, InGoodHands, HolderLives
  <2> HIDE DEF D
  <2>3. Orderly(n) /\ (Idle(m) => Idle(n))
    BY <2>1, <2>2, ClearedOrderly
  <2>4. n.duel = m.duel /\ \A p \in Players : n.ready[p] # NoRow => m.ready[p] # NoRow
    BY <2>1, ClearParticipationEffect
  <2> QED
    BY <1>2, <2>3, <2>4 DEF D
<1> QED
  BY <1>1, <1>2 DEF EliminateWithoutRound

LEMMA StartDuelRoundOrderly ==
  ASSUME NEW m \in LobbyMemory, m.inGame, Orderly(m)
  PROVE  LET n == StartDuelRound(m) IN
         /\ n \in LobbyMemory /\ Orderly(n) /\ (Idle(m) => Idle(n))
         /\ n.ready = m.ready /\ n.inGame /\ n.place = m.place /\ n.inMatch = m.inMatch
<1> DEFINE n == StartDuelRound(m)
<1>1. Paired(m, n)
  BY StartDuelRoundEffect
<1> HIDE DEF n
<1>2. /\ n \in LobbyMemory
      /\ n.inGame = m.inGame /\ n.place = m.place /\ n.inMatch = m.inMatch
      /\ n.lives = m.lives /\ n.blocker = m.blocker /\ n.timer = m.timer
      /\ n.ready = m.ready /\ n.readyOwn = m.readyOwn /\ n.active = m.active
      /\ n.score = m.score /\ n.hands = m.hands
  BY <1>1, PairedEffect
<1> QED
  BY <1>2, SameOrder DEF n, SameTable

LEMMA ResolveSoloEliminationsOrderly ==
  ASSUME lobby \in Setups, NEW m \in LobbyMemory, AwayAlive(m), Orderly(m), HolderLives(m),
         Idle(m)
  PROVE  LET n == ResolveSoloEliminations(m) IN Orderly(n) /\ Idle(n) /\ NotOverdue(n)
<1> DEFINE e == EliminateWithoutRound(m)
           n == ResolveSoloEliminations(m)
<1>1. e \in LobbyMemory
  BY EliminateSound
<1>2. Orderly(e) /\ Idle(e)
  BY EliminateOrderly
<1>3. n = e \/ (e.inGame /\ n = StartDuelRound(e))
  BY DEF ResolveSoloEliminations
<1> HIDE DEF e
<1>4. Orderly(n) /\ Idle(n)
  BY <1>1, <1>2, <1>3, StartDuelRoundOrderly
<1>5. n \in LobbyMemory /\ Sound(n)
  BY ResolveSoloEliminationsSound
<1> HIDE DEF n
<1>6. NotOverdue(n)
  BY <1>4, <1>5, IdleSettled DEF Sound
<1> QED
  BY <1>4, <1>6 DEF n

LEMMA SurvivalIdle ==
  ASSUME NEW m, Orderly(m), lobby.survival PROVE Idle(m)
  BY DEF Orderly, OneBlind

LEMMA ResolveSurvivalOrderly ==
  ASSUME lobby \in Setups, NEW m \in LobbyMemory, Orderly(m), lobby.survival, Enough(m)
  PROVE  LET n == ResolveSurvival(m) IN Orderly(n) /\ NotOverdue(n)
  BY SurvivalIdle, FinishMatchOrderly, IdleSettled DEF ResolveSurvival

LEMMA ResolveLossesOrderly ==
  ASSUME lobby \in Setups, NEW m \in LobbyMemory, AwayAlive(m), Enough(m), Orderly(m),
         HolderLives(m), Idle(m)
  PROVE  LET n == ResolveLosses(m) IN Orderly(n) /\ NotOverdue(n)
  BY ResolveSurvivalOrderly, ResolveSoloEliminationsOrderly DEF ResolveLosses

LEMMA ChargedOrderly ==
  ASSUME lobby \in Setups, NEW m \in LobbyMemory, NEW D \in SUBSET ActivePlayers(m),
         Orderly(m), m.timer.controller \notin D
  PROVE  LET n == LoseLife(m, D) IN
         /\ Orderly(n) /\ (Idle(m) => Idle(n)) /\ (HolderLives(m) => HolderLives(n))
         /\ n.timer = m.timer /\ n.inMatch = m.inMatch /\ n.duel = m.duel /\ n.ready = m.ready
<1> DEFINE n == LoseLife(m, D)
<1>1. D \in SUBSET Players /\ lobby.lives \in Nat
  BY ActiveSubset, LobbyFacts
<1>2. /\ n \in LobbyMemory
      /\ n.inGame = m.inGame /\ n.place = m.place /\ n.inMatch = m.inMatch
      /\ n.ready = m.ready /\ n.readyOwn = m.readyOwn /\ n.active = m.active
      /\ n.score = m.score /\ n.hands = m.hands /\ n.timer = m.timer /\ n.duel = m.duel
      /\ \A p \in Players :
           /\ n.blocker[p] <=> m.blocker[p] \/ p \in D
           /\ n.lives[p] <= m.lives[p]
           /\ p \notin D \/ m.blocker[p] => n.lives[p] = m.lives[p]
           /\ p \in D /\ ~m.blocker[p] /\ m.lives[p] > 0 => n.lives[p] = m.lives[p] - 1
  BY <1>1, LoseLifeEffect
<1> HIDE DEF n
<1>3. Orderly(n) /\ (Idle(m) => Idle(n))
  BY <1>2, SameOrder DEF SameTable
<1>4. HolderLives(m) => HolderLives(n)
  <2>1. m.timer.controller \in Players \cup {NoPlayer}
    BY DEF LobbyMemory, AnteTimer
  <2> QED
    BY <1>2, <2>1 DEF HolderLives
<1> QED
  BY <1>2, <1>3, <1>4 DEF n

\* A blind that is resolved leaves nobody in it.
LEMMA ChargeAndEliminateOrderly ==
  ASSUME lobby \in Setups, NEW m \in LobbyMemory, AwayAlive(m), Orderly(m),
         ~HasDisconnectedMatchBlocker(m), m.timer.controller = NoPlayer,
         NEW losers \in SUBSET ActivePlayers(m)
  PROVE  LET n == ChargeAndEliminate(m, losers) IN
         /\ Orderly(n) /\ NotOverdue(n)
         /\ \A p \in Players : n.ready[p] # NoRow => m.ready[p] # NoRow
<1> DEFINE b == ClearBlind(m, ActivePlayers(m))
           h == LoseLife(b, losers)
           e == EliminateWithoutRound(h)
           c == ClearFirstReady(e, ActivePlayers(e))
           d == StartDuelRound(c)
           n == ChargeAndEliminate(m, losers)
<1>1. n = c \/ (c.inGame /\ n = d)
  BY DEF ChargeAndEliminate
<1>0. n \in LobbyMemory /\ Sound(n)
  BY ChargeAndEliminateSound
<1> HIDE DEF n
<1>2. /\ b \in LobbyMemory
      /\ b.inGame = m.inGame /\ b.place = m.place /\ b.inMatch = m.inMatch
      /\ b.lives = m.lives /\ b.blocker = m.blocker /\ b.ready = m.ready
      /\ b.readyOwn = m.readyOwn /\ b.score = m.score /\ b.hands = m.hands
      /\ b.timer = m.timer /\ b.duel = m.duel
      /\ \A p \in Players : b.active[p] = IF p \in ActivePlayers(m) THEN NoRow ELSE m.active[p]
      /\ Keeps(m, b, {})
  BY ActiveSubset, ClearBlindEffect
<1> HIDE DEF b
<1>3. /\ ActivePlayers(b) = ActivePlayers(m) /\ Present(b) = Present(m)
      /\ Playing(b) = Playing(m)
  BY <1>2, SameTableQueries DEF SameTable
<1>4. Idle(b)
  BY <1>2, <1>3, ParticipantFacts DEF Idle
<1>5. Orderly(b)
  BY <1>2, <1>3, <1>4 DEF Orderly, OneBlind, ReadyWait, InGoodHands, ReadyForPvp
<1>6. b.timer.controller \notin losers /\ losers \in SUBSET ActivePlayers(b) /\ AwayAlive(b)
      /\ HolderLives(b)
  <2>1. NoPlayer \notin Players
    BY MatchAssumption
  <2> QED
    BY <1>2, <1>3, <2>1, ActiveSubset, SoundKept DEF SameTable, HolderLives
<1>7. h \in LobbyMemory /\ AwayAlive(h)
  BY <1>2, <1>6, LoseLifeSound
<1>8. Orderly(h) /\ Idle(h) /\ HolderLives(h) /\ h.ready = b.ready
  BY <1>2, <1>4, <1>5, <1>6, ChargedOrderly
<1> HIDE DEF h
<1>9. e \in LobbyMemory
  BY <1>7, EliminateSound
<1>10. Orderly(e) /\ Idle(e) /\ \A p \in Players : e.ready[p] # NoRow => h.ready[p] # NoRow
  BY <1>7, <1>8, EliminateOrderly
<1> HIDE DEF e
<1>11. /\ c \in LobbyMemory
       /\ c.inGame = e.inGame /\ c.place = e.place /\ c.inMatch = e.inMatch
       /\ c.lives = e.lives /\ c.blocker = e.blocker /\ c.ready = e.ready
       /\ c.readyOwn = e.readyOwn /\ c.active = e.active
       /\ c.score = e.score /\ c.hands = e.hands
       /\ c.timer = e.timer /\ c.duel = e.duel
       /\ Keeps(e, c, {})
  BY <1>9, ActiveSubset, ClearFirstReadyEffect
<1> HIDE DEF c
<1>12. Orderly(c) /\ Idle(c)
  BY <1>10, <1>11, SameOrder DEF SameTable
<1>13. Orderly(n) /\ Idle(n) /\ n.ready = c.ready
  BY <1>1, <1>11, <1>12, StartDuelRoundOrderly
<1>14. NotOverdue(n)
  BY <1>0, <1>13, IdleSettled DEF Sound
<1> QED
  BY <1>2, <1>8, <1>10, <1>11, <1>13, <1>14 DEF n

\* A round of pairings is due only when nobody is on the way into a blind.
Dealable(m) == m.duel.due => \A p \in Players : m.ready[p] = NoRow

LEMMA ReconcileOrderly ==
  ASSUME lobby \in Setups, NEW m \in LobbyMemory, Alive(m), Orderly(m), ~m.duel.due
  PROVE  LET n == ReconcileActiveMatchState(m) IN Orderly(n) /\ NotOverdue(n) /\ Dealable(n)
<1> DEFINE n == ReconcileActiveMatchState(m)
<1>1. AwayAlive(m)
  BY AliveIsAwayAlive
<1>2. CASE n = FinishMatch(m) /\ ~HasDisconnectedMatchBlocker(m)
  BY <1>2, FinishMatchOrderly DEF Dealable
<1>3. CASE /\ n = ResolveBlind(m) /\ AllStarted(m) /\ ~HasDisconnectedMatchBlocker(m)
  <2>1. \A p \in Players : m.ready[p] = NoRow
    BY <1>3 DEF Orderly, ReadyWait, AllStarted
  <2>2. m.timer.controller = NoPlayer
    BY <2>1, ParticipantFacts DEF Orderly, InGoodHands, ReadyForPvp
  <2>3. /\ Orderly(n) /\ NotOverdue(n)
        /\ \A p \in Players : n.ready[p] # NoRow => m.ready[p] # NoRow
    BY <1>1, <1>3, <2>2, ChargeAndEliminateOrderly, LosersActive DEF ResolveBlind
  <2> QED
    BY <2>1, <2>3 DEF Dealable
<1>4. CASE /\ n = m
           /\ \/ ~m.inGame \/ HasDisconnectedMatchBlocker(m)
              \/ ~(AllStarted(m) /\ ShouldResolveBlindNow(m))
  BY <1>4 DEF NotOverdue, Dealable
<1> QED
  BY <1>2, <1>3, <1>4 DEF ReconcileActiveMatchState

LEMMA BroadcastOrderly ==
  ASSUME lobby \in Setups, NEW m \in LobbyMemory, Orderly(m), NEW row \in Rows,
         BlindReadySatisfied(m, row), ~HasDisconnectedMatchBlocker(m), ~m.duel.due
  PROVE  LET n == BroadcastGlobalBlindStart(m) IN Orderly(n) /\ NotOverdue(n)
<1> DEFINE n == BroadcastGlobalBlindStart(m)
<1>1. /\ n \in LobbyMemory
      /\ n.inGame = m.inGame /\ n.place = m.place /\ n.inMatch = m.inMatch
      /\ n.lives = m.lives /\ n.duel = m.duel
      /\ ~n.timer.started /\ n.timer.controller = NoPlayer
      /\ \A p \in Players :
           /\ n.active[p] = IF p \in ActivePlayers(m) THEN m.ready[p] ELSE m.active[p]
           /\ n.ready[p] = IF p \in ActivePlayers(m) THEN NoRow ELSE m.ready[p]
           /\ p \in ActivePlayers(m) => n.hands[p] = Hands
      /\ Keeps(m, n, {})
  BY BroadcastEffect
<1> HIDE DEF n
<1>2. /\ ActivePlayers(n) = ActivePlayers(m) /\ Present(n) = Present(m)
      /\ Playing(n) = Playing(m) /\ Playing(m) = ActivePlayers(m)
  BY <1>1, SameTableQueries, ParticipantFacts DEF SameTable
<1>3. /\ ActivePlayers(m) # {} /\ row # NoRow
      /\ \A p \in ActivePlayers(m) : p \in Players /\ m.ready[p] = row
  BY MatchAssumption, ParticipantFacts DEF BlindReadySatisfied
<1>4. m.inGame /\ ~lobby.survival
  BY <1>3 DEF Orderly, ReadyWait
<1>5. OneBlind(n)
  BY <1>1, <1>2, <1>3, <1>4 DEF OneBlind
<1>6. \A p \in Players : n.ready[p] = NoRow
  BY <1>1 DEF Orderly, ReadyWait
<1>7. ReadyWait(n) /\ InGoodHands(n)
  BY <1>1, <1>6 DEF ReadyWait, InGoodHands
<1>8. NotOverdue(n)
  BY <1>1, <1>2, <1>3 DEF NotOverdue
<1> QED
  BY <1>2, <1>5, <1>7, <1>8 DEF n, Orderly

LEMMA TryStartPendingBlindOrderly ==
  ASSUME lobby \in Setups, NEW m \in LobbyMemory, Orderly(m), NotOverdue(m), Dealable(m)
  PROVE  LET n == TryStartPendingBlind(m) IN Orderly(n) /\ NotOverdue(n)
<1>1. CASE TryStartPendingBlind(m) = m
  BY <1>1
<1>2. CASE /\ TryStartPendingBlind(m) = BroadcastGlobalBlindStart(m)
           /\ ~HasDisconnectedMatchBlocker(m)
           /\ \E p \in ActivePlayers(m) : ReadyForPvp(m, p)
           /\ \E row \in Rows : BlindReadySatisfied(m, row)
  <2>1. PICK row \in Rows : BlindReadySatisfied(m, row)
    BY <1>2
  <2>2. ~m.duel.due
    BY <1>2, ParticipantFacts DEF Dealable, ReadyForPvp
  <2> QED
    BY <1>2, <2>1, <2>2, BroadcastOrderly
<1> QED
  BY <1>1, <1>2 DEF TryStartPendingBlind

\* Whoever withdraws from a blind or from the readiness for one leaves the
\* others as they were, and gives the timer back.
LEMMA WithdrawnOrderly ==
  ASSUME NEW m \in LobbyMemory, NEW p \in Players, Orderly(m), NEW n \in LobbyMemory,
         n.inGame = m.inGame, n.timer = ReleaseController(m, p).timer,
         \A q \in Players : n.ready[q] = IF q = p THEN NoRow ELSE m.ready[q],
         \A q \in Players : q # p => (n.readyOwn[q] <=> m.readyOwn[q]),
         \A q \in Players : q # p => n.active[q] = m.active[q],
         \A q \in Playing(n) : q \in Playing(m) /\ n.active[q] = m.active[q],
         \A q \in ActivePlayers(m) : q # p => q \in ActivePlayers(n),
         Present(n) \subseteq Present(m)
  PROVE  Orderly(n)
<1>1. \/ m.timer.controller # p /\ n.timer = m.timer
      \/ ~n.timer.started /\ n.timer.controller = NoPlayer
  BY ReleaseControllerEffect
<1>2. Idle(m) => Idle(n)
  BY DEF Idle
<1>3. OneBlind(n)
  BY <1>1, <1>2 DEF Orderly, OneBlind
<1>4. ReadyWait(n)
  BY DEF Orderly, ReadyWait
<1>5. InGoodHands(n)
  <2>1. \A q \in ActivePlayers(m) : q \in Players
    BY ParticipantFacts
  <2>2. \A q \in ActivePlayers(m) : q # p /\ ReadyForPvp(m, q) => ReadyForPvp(n, q)
    BY <2>1 DEF ReadyForPvp
  <2> QED
    BY <1>1, <2>2 DEF Orderly, InGoodHands
<1> QED
  BY <1>3, <1>4, <1>5 DEF Orderly

LEMMA BackOrderly ==
  ASSUME lobby \in Setups, NEW m \in LobbyMemory, NEW p \in Players, Orderly(m)
  PROVE  Orderly(Back(m, p))
<1> DEFINE n == Back(m, p)
<1>1. /\ n \in LobbyMemory
      /\ n.inGame = m.inGame /\ n.place = m.place /\ n.duel = m.duel
      /\ n.timer = ReleaseController(m, p).timer
      /\ \A q \in Players :
           /\ n.lives[q] = IF q = p THEN 0 ELSE m.lives[q]
           /\ n.score[q] = IF q = p THEN 0 ELSE m.score[q]
           /\ n.inMatch[q] <=> m.inMatch[q] /\ q # p
           /\ n.ready[q] = IF q = p THEN NoRow ELSE m.ready[q]
           /\ n.readyOwn[q] <=> m.readyOwn[q] /\ q # p
           /\ n.active[q] = IF q = p THEN NoRow ELSE m.active[q]
      /\ Keeps(m, n, {p})
  BY BackEffect
<1> HIDE DEF n
<1>2. /\ \A q \in Playing(n) : q \in Playing(m) /\ n.active[q] = m.active[q]
      /\ \A q \in ActivePlayers(m) : q # p => q \in ActivePlayers(n)
      /\ Present(n) \subseteq Present(m)
  BY <1>1 DEF Playing, Present, ActivePlayers, SeatedPlayers
<1>3. Orderly(n)
  BY <1>1, <1>2, WithdrawnOrderly
<1> QED
  BY <1>3 DEF n

LEMMA DepartOrderly ==
  ASSUME lobby \in Setups, NEW m \in LobbyMemory, NEW p \in Players, Sound(m), Orderly(m),
         NotOverdue(m), ~m.duel.due
  PROVE  LET n == Depart(m, p) IN Orderly(n) /\ NotOverdue(n) /\ Dealable(n)
<1> DEFINE e == Left(m, p)
           r == ReconcileActiveMatchState(e)
<1>1. Depart(m, p) = IF SeatedPlayers(e) # {} /\ m.inMatch[p] THEN r ELSE e
  BY DEF Depart, Left
<1>2. /\ e \in LobbyMemory
      /\ e.inGame = m.inGame /\ e.duel = m.duel
      /\ e.timer = ReleaseController(m, p).timer
      /\ \A q \in Players :
           /\ e.place[q] = IF q = p THEN "gone" ELSE m.place[q]
           /\ e.lives[q] = IF q = p THEN 0 ELSE m.lives[q]
           /\ e.score[q] = IF q = p THEN 0 ELSE m.score[q]
           /\ e.hands[q] = IF q = p THEN 0 ELSE m.hands[q]
           /\ e.inMatch[q] <=> m.inMatch[q] /\ q # p
           /\ e.ready[q] = IF q = p THEN NoRow ELSE m.ready[q]
           /\ e.readyOwn[q] <=> m.readyOwn[q] /\ q # p
           /\ e.active[q] = IF q = p THEN NoRow ELSE m.active[q]
      /\ Keeps(m, e, {p})
  BY LeftEffect
<1> HIDE DEF e
<1>3. /\ \A q \in Playing(e) : q \in Playing(m) /\ e.active[q] = m.active[q]
      /\ \A q \in ActivePlayers(m) : q # p => q \in ActivePlayers(e)
      /\ Present(e) \subseteq Present(m)
      /\ SeatedPlayers(e) \subseteq SeatedPlayers(m)
  BY <1>2 DEF Playing, Present, ActivePlayers, SeatedPlayers
<1>4. Orderly(e)
  BY <1>2, <1>3, WithdrawnOrderly
<1>5. Alive(e)
  BY <1>2 DEF Sound, Alive, Playing, Present
<1>6. Dealable(e)
  BY <1>2 DEF Dealable
<1>7. CASE Depart(m, p) = r
  <2>1. Orderly(r) /\ NotOverdue(r) /\ Dealable(r)
    BY <1>2, <1>4, <1>5, ReconcileOrderly
  <2> HIDE DEF r
  <2> QED
    BY <1>7, <2>1
<1>8. CASE Depart(m, p) = e /\ (SeatedPlayers(e) = {} \/ ~m.inMatch[p])
  <2>1. CASE SeatedPlayers(e) = {}
    BY <1>4, <1>6, <1>8, <2>1 DEF NotOverdue
  <2>2. CASE ~m.inMatch[p]
    <3>1. /\ ActivePlayers(e) = ActivePlayers(m) /\ p \notin ActivePlayers(m)
          /\ HasDisconnectedMatchBlocker(m) => HasDisconnectedMatchBlocker(e)
      BY <1>2, <2>2 DEF ActivePlayers, SeatedPlayers, HasDisconnectedMatchBlocker
    <3>2. \A q \in ActivePlayers(m) :
            e.active[q] = m.active[q] /\ e.score[q] = m.score[q] /\ e.hands[q] = m.hands[q]
      BY <1>2, <3>1, ParticipantFacts
    <3>3. NotOverdue(e)
      BY <1>2, <1>3, <3>1, <3>2, SameBlind
    <3> QED
      BY <1>4, <1>6, <1>8, <3>3
  <2> QED
    BY <1>8, <2>1, <2>2
<1> QED
  BY <1>1, <1>7, <1>8

LEMMA ReserveOrderly ==
  ASSUME lobby \in Setups, NEW m \in LobbyMemory, NEW p \in Players, p \in SeatedPlayers(m),
         Orderly(m), NotOverdue(m)
  PROVE  Orderly(Reserve(m, p)) /\ NotOverdue(Reserve(m, p))
<1> DEFINE n == Reserve(m, p)
<1>1. /\ n \in LobbyMemory
      /\ n.inGame = m.inGame /\ n.inMatch = m.inMatch /\ n.lives = m.lives
      /\ n.blocker = m.blocker /\ n.active = m.active /\ n.duel = m.duel
      /\ n.score = m.score /\ n.hands = m.hands
      /\ n.timer = ReleaseController(m, p).timer
      /\ n.place = [m.place EXCEPT ![p] = "away"]
      /\ n.ready = [m.ready EXCEPT ![p] = NoRow]
      /\ n.readyOwn = [m.readyOwn EXCEPT ![p] = FALSE]
      /\ Keeps(m, n, {})
  BY ReserveEffect
<1> HIDE DEF n
<1>2. \A q \in Players :
        /\ n.place[q] = IF q = p THEN "away" ELSE m.place[q]
        /\ n.ready[q] = IF q = p THEN NoRow ELSE m.ready[q]
        /\ q # p => n.readyOwn[q] = m.readyOwn[q]
  BY <1>1 DEF LobbyMemory
<1>3. m.place[p] = "seated"
  BY DEF SeatedPlayers
<1>4. /\ \A q \in Playing(n) : q \in Playing(m)
      /\ \A q \in ActivePlayers(m) : q # p => q \in ActivePlayers(n)
      /\ Present(n) \subseteq Present(m) /\ SeatedPlayers(n) \subseteq SeatedPlayers(m)
  BY <1>1, <1>2, <1>3 DEF Playing, Present, ActivePlayers, SeatedPlayers
<1>5. Orderly(n)
  BY <1>1, <1>2, <1>4, WithdrawnOrderly
<1>6. NotOverdue(n)
  <2>1. CASE m.inMatch[p]
    BY <1>1, <1>2, <2>1 DEF NotOverdue, HasDisconnectedMatchBlocker
  <2>2. CASE ~m.inMatch[p]
    <3>1. /\ ActivePlayers(n) = ActivePlayers(m)
          /\ HasDisconnectedMatchBlocker(m) => HasDisconnectedMatchBlocker(n)
      BY <1>1, <1>2, <1>3, <2>2 DEF ActivePlayers, SeatedPlayers, HasDisconnectedMatchBlocker
    <3> QED
      BY <1>1, <1>4, <3>1, SameBlind
  <2> QED
    BY <2>1, <2>2
<1> QED
  BY <1>5, <1>6 DEF n

LEMMA ExpireTimerOrderly ==
  ASSUME lobby \in Setups, NEW m \in LobbyMemory, Sound(m), Orderly(m), NotOverdue(m), Idle(m)
  PROVE  LET n == ExpireTimer(m) IN Orderly(n) /\ NotOverdue(n)
<1> DEFINE late == {p \in ActivePlayers(m) : ~ReadyForPvp(m, p)}
           pardoned == {p \in late : HasForgiveness(m, p)}
           D == late \ pardoned
           w == Pardoned(m, pardoned)
           h == LoseLife(w, D)
           r == ResolveLosses(h)
<1>1. ExpireTimer(m) = IF late = {} THEN SetPaused(m) ELSE r
  BY DEF ExpireTimer, Pardoned
<1>2. CASE ExpireTimer(m) = SetPaused(m)
  BY <1>2, SetPausedOrderly
<1>3. CASE ExpireTimer(m) = r
  <2>1. pardoned \in SUBSET Players /\ \A p \in pardoned : HasForgiveness(m, p)
    BY ActiveSubset
  <2>2. D \in SUBSET ActivePlayers(m) /\ m.timer.controller \notin D
    <3>1. NoPlayer \notin ActivePlayers(m)
      BY MatchAssumption, ActiveSubset
    <3> QED
      BY <3>1 DEF Orderly, InGoodHands
  <2> HIDE DEF pardoned, D
  <2>3. /\ w \in LobbyMemory
        /\ w.inGame = m.inGame /\ w.place = m.place /\ w.inMatch = m.inMatch
        /\ w.lives = m.lives /\ w.active = m.active /\ w.blocker = m.blocker
        /\ w.ready = m.ready /\ w.readyOwn = m.readyOwn
        /\ w.duel = m.duel
        /\ ~w.timer.started /\ w.timer.controller = m.timer.controller
        /\ Keeps(m, w, {})
    BY <2>1, PardonedEffect
  <2> HIDE DEF w
  <2>4. /\ ActivePlayers(w) = ActivePlayers(m) /\ Present(w) = Present(m)
        /\ Playing(w) = Playing(m)
    BY <2>3, SameTableQueries DEF SameTable
  <2>5. Orderly(w) /\ Idle(w)
    BY <2>3, <2>4 DEF Orderly, Idle, OneBlind, ReadyWait, InGoodHands, ReadyForPvp
  <2>6. AwayAlive(w) /\ Enough(w) /\ D \in SUBSET ActivePlayers(w)
        /\ w.timer.controller \notin D
    BY <2>2, <2>3, <2>4, SoundKept, AliveIsAwayAlive DEF SameTable, Sound
  <2>7. /\ h \in LobbyMemory /\ AwayAlive(h) /\ Enough(h)
    BY <2>3, <2>6, LoseLifeSound
  <2>8. Orderly(h) /\ Idle(h) /\ (HolderLives(w) => HolderLives(h))
    BY <2>3, <2>5, <2>6, ChargedOrderly
  <2> HIDE DEF h
  <2>9. CASE lobby.survival
    BY <1>3, <2>7, <2>8, <2>9, ResolveSurvivalOrderly DEF ResolveLosses
  <2>10. CASE ~lobby.survival
    <3>1. HolderLives(w)
      BY <2>3, <2>10, ParticipantFacts DEF HolderLives, Sound, Alive, Orderly, InGoodHands
    <3> QED
      BY <1>3, <2>7, <2>8, <3>1, ResolveLossesOrderly
  <2> QED
    BY <2>9, <2>10
<1> QED
  BY <1>1, <1>2, <1>3

------------------------------------------------------------------------------
(* Each handler, when its sender reports what its own game is in *)

LEMMA OrderFacts ==
  ASSUME SoundInv, OrderlyInv, Disciplined
  PROVE  /\ lobby \in Setups /\ g \in LobbyMemory /\ ~g.duel.due
         /\ Sound(g) /\ Alive(g) /\ AwayAlive(g) /\ Enough(g)
         /\ Orderly(g) /\ NotOverdue(g) /\ HolderLives(g)
<1>1. /\ lobby \in Setups /\ g \in LobbyMemory /\ ~g.duel.due
      /\ Sound(g) /\ AwayAlive(g) /\ Enough(g)
  BY InvFacts
<1>2. Orderly(g) /\ NotOverdue(g) /\ Alive(g)
  BY <1>1 DEF OrderlyInv, Sound
<1>3. HolderLives(g)
  BY <1>1, <1>2, ParticipantFacts DEF HolderLives, Alive, Orderly, InGoodHands, ReadyWait,
     ReadyForPvp
<1> QED
  BY <1>1, <1>2, <1>3

\* A deal changes the pairings only, and happens while nobody is in a blind.
LEMMA StepOrderly ==
  ASSUME NEW m \in LobbyMemory, Orderly(m), NotOverdue(m), g' \in Dealt(m)
  PROVE  Orderly(g') /\ NotOverdue(g')
<1>1. CASE ~m.duel.due
  BY <1>1 DEF Dealt
<1>2. CASE m.duel.due
  <2>1. PICK bye \in ByeCandidates(m) :
          \E pairing \in Pairings(ActivePlayers(m), bye) : g' = BeginRound(m, bye, pairing)
    BY <1>2 DEF Dealt
  <2>2. PICK pairing \in Pairings(ActivePlayers(m), bye) : g' = BeginRound(m, bye, pairing)
    BY <2>1
  <2>3. /\ g'.inGame = m.inGame /\ g'.place = m.place /\ g'.inMatch = m.inMatch
        /\ g'.ready = m.ready /\ g'.readyOwn = m.readyOwn /\ g'.active = m.active
        /\ g'.timer = m.timer
    BY <2>2 DEF BeginRound, LobbyMemory
  <2>4. Orderly(g')
    BY <2>3, SameOrder DEF SameTable
  <2>5. /\ SeatedPlayers(g') = SeatedPlayers(m) /\ ActivePlayers(g') = ActivePlayers(m)
        /\ HasDisconnectedMatchBlocker(g') = HasDisconnectedMatchBlocker(m)
    BY <2>3, SameTableQueries DEF SameTable
  <2>6. NotOverdue(g')
    BY <1>2, <2>3, <2>5 DEF NotOverdue, AllStarted
  <2> QED
    BY <2>4, <2>6
<1> QED
  BY <1>1, <1>2

\* Who is at its own table while it takes part in a match has nobody in a blind
\* to wait for.
LEMMA OwnTableIdle ==
  ASSUME SoundInv, OrderlyInv, Disciplined, NEW p \in ActivePlayers(g), g.active[p] = NoRow
  PROVE  Idle(g)
<1>1. p \in Playing(g) /\ Orderly(g)
  BY OrderFacts, ParticipantFacts
<1> QED
  BY <1>1 DEF Orderly, OneBlind, Idle

LEMMA NotHolder ==
  ASSUME SoundInv, OrderlyInv, Disciplined, NEW p \in Players, g.ready[p] = NoRow
  PROVE  g.timer.controller # p
  BY OrderFacts, MatchAssumption DEF Orderly, InGoodHands, ReadyForPvp

LEMMA StartGameOrderly ==
  ASSUME SoundInv, OrderlyInv, Disciplined, StartGame
  PROVE  Orderly(g') /\ NotOverdue(g')
<1> DEFINE S == SeatedPlayers(g)
           m == Begun(S)
           d == StartDuelRound(m)
<1>0. lobby \in Setups /\ g \in LobbyMemory /\ Orderly(g)
  BY OrderFacts
<1>1. ~g.inGame /\ ~AtMostOne(S) /\ g' \in Dealt(d)
  BY DEF StartGame, Begun, Prepared
<1>2. S \in SUBSET Players /\ \A p \in Players : p \in S <=> g.place[p] = "seated"
  BY DEF SeatedPlayers
<1> HIDE DEF S
<1>3. /\ m \in LobbyMemory
      /\ m.inGame /\ m.place = g.place /\ m.duel = NoDuels
      /\ ~m.timer.started /\ m.timer.controller = NoPlayer
      /\ \A p \in Players :
           /\ m.inMatch[p] <=> g.inMatch[p] \/ p \in S
           /\ m.lives[p] = IF p \in S THEN lobby.lives ELSE g.lives[p]
           /\ m.ready[p] = IF p \in S THEN NoRow ELSE g.ready[p]
           /\ m.active[p] = IF p \in S THEN NoRow ELSE g.active[p]
  BY <1>0, <1>2, BegunEffect
<1> HIDE DEF m
<1>4. Idle(g) /\ \A p \in Players : g.ready[p] = NoRow
  BY <1>0, <1>1 DEF Orderly, OneBlind, ReadyWait
<1>5. Idle(m)
  BY <1>3, <1>4 DEF Idle, Playing, Present
<1>6. Orderly(m)
  <2>1. Present(m) = Present(g)
    BY <1>3 DEF Present
  <2>2. OneBlind(m) /\ ReadyWait(m) /\ InGoodHands(m)
    BY <1>3, <1>4, <1>5 DEF OneBlind, ReadyWait, InGoodHands
  <2> QED
    BY <1>0, <2>1, <2>2 DEF Orderly
<1>7. ActivePlayers(m) = S
  BY <1>2, <1>3 DEF ActivePlayers, SeatedPlayers
<1>8. d \in LobbyMemory /\ Orderly(d) /\ Idle(d) /\ d.inMatch = m.inMatch /\ d.place = m.place
  BY <1>3, <1>5, <1>6, StartDuelRoundOrderly
<1> HIDE DEF d
<1>9. Enough(d)
  <2>1. ActivePlayers(d) = S
    BY <1>7, <1>8, SameTableQueries DEF SameTable
  <2> QED
    BY <1>1, <2>1 DEF Enough
<1>10. NotOverdue(d)
  BY <1>8, <1>9, IdleSettled
<1> QED
  BY <1>1, <1>8, <1>10, StepOrderly

LEMMA ReadyBlindOrderly ==
  ASSUME SoundInv, OrderlyInv, Disciplined, NEW p \in Players, NEW row \in Rows,
         ReadyBlind(p, row)
  PROVE  Orderly(g') /\ NotOverdue(g')
<1>0. lobby \in Setups /\ g \in LobbyMemory /\ ~g.duel.due /\ Orderly(g) /\ Enough(g)
  BY OrderFacts
<1> DEFINE own == Duels /\ HasBye(g, p)
           m == MarkReady(g, p, row, own)
           b == BroadcastGlobalBlindStart(m)
<1>1. /\ p \in ActivePlayers(g) /\ g.inGame /\ g.ready[p] = NoRow /\ g.active[p] = NoRow
      /\ ~lobby.survival
      /\ \/ g' \in Dealt(m)
         \/ /\ g' \in Dealt(b) /\ BlindReadySatisfied(m, row) /\ ~HasDisconnectedMatchBlocker(m)
  BY DEF ReadyBlind, InPlay, AtOwnTable, Step
<1>2. own \in BOOLEAN
  OBVIOUS
<1> HIDE DEF own
<1>3. /\ m \in LobbyMemory
      /\ m.inGame = g.inGame /\ m.place = g.place /\ m.inMatch = g.inMatch
      /\ m.lives = g.lives /\ m.blocker = g.blocker /\ m.active = g.active
      /\ m.score = g.score /\ m.hands = g.hands /\ m.timer = g.timer /\ m.duel = g.duel
      /\ m.ready = [g.ready EXCEPT ![p] = row]
      /\ m.readyOwn = [g.readyOwn EXCEPT ![p] = own]
      /\ Keeps(g, m, {})
  BY <1>0, <1>2, MarkReadyEffect
<1> HIDE DEF m
<1>4. /\ ActivePlayers(m) = ActivePlayers(g) /\ Present(m) = Present(g)
      /\ Playing(m) = Playing(g)
      /\ Enough(m)
  BY <1>0, <1>3, SameTableQueries, SoundKept DEF SameTable
<1>5. \A q \in Players : q # p => m.ready[q] = g.ready[q] /\ m.readyOwn[q] = g.readyOwn[q]
  BY <1>0, <1>3 DEF LobbyMemory
<1>6. Idle(m)
  BY <1>1, <1>3, <1>4, OwnTableIdle DEF Idle
<1>7. ReadyWait(m)
  BY <1>0, <1>1, <1>3, <1>4, <1>5 DEF ReadyWait, Orderly
<1>8. InGoodHands(m)
  <2>1. g.timer.controller # p
    BY <1>1, NotHolder
  <2>2. \A q \in ActivePlayers(g) : q \in Players
    BY ActiveSubset
  <2>3. \A q \in ActivePlayers(g) : q # p /\ ReadyForPvp(g, q) => ReadyForPvp(m, q)
    BY <1>5, <2>2 DEF ReadyForPvp
  <2> QED
    BY <1>0, <1>3, <1>4, <2>1, <2>3 DEF InGoodHands, Orderly
<1>9. Orderly(m)
  BY <1>0, <1>4, <1>6, <1>7, <1>8 DEF Orderly, OneBlind
<1>10. NotOverdue(m)
  BY <1>3, <1>4, <1>6, IdleSettled
<1>11. CASE g' \in Dealt(m)
  BY <1>3, <1>9, <1>10, <1>11, StepOrderly
<1>12. CASE g' \in Dealt(b) /\ BlindReadySatisfied(m, row) /\ ~HasDisconnectedMatchBlocker(m)
  <2>1. b \in LobbyMemory
    BY <1>0, <1>3, BroadcastEffect
  <2>2. ~m.duel.due
    BY <1>0, <1>3
  <2>3. Orderly(b) /\ NotOverdue(b)
    BY <1>0, <1>3, <1>9, <1>12, <2>2, BroadcastOrderly
  <2> HIDE DEF b
  <2> QED
    BY <1>12, <2>1, <2>3, StepOrderly
<1> QED
  BY <1>1, <1>11, <1>12

LEMMA PlayHandOrderly ==
  ASSUME SoundInv, OrderlyInv, Disciplined, NEW p \in Players, NEW score \in 0 .. MaxScore,
         NEW hands \in 0 .. Hands, NEW target \in 0 .. MaxScore \cup {NoScore},
         PlayHand(p, score, hands, target)
  PROVE  Orderly(g') /\ NotOverdue(g')
<1>0. lobby \in Setups /\ g \in LobbyMemory /\ ~g.duel.due /\ Alive(g) /\ Orderly(g)
  BY OrderFacts
<1> DEFINE m == HandPlayed(p, score, hands, target)
           r == ReconcileActiveMatchState(m)
<1>1. g' \in Dealt(r)
  BY DEF PlayHand, Step
<1>2. /\ m \in LobbyMemory
      /\ m.inGame = g.inGame /\ m.place = g.place /\ m.inMatch = g.inMatch
      /\ m.lives = g.lives /\ m.blocker = g.blocker /\ m.timer = g.timer
      /\ m.ready = g.ready /\ m.readyOwn = g.readyOwn /\ m.active = g.active
      /\ m.duel.due = g.duel.due
      /\ Keeps(g, m, {})
  BY <1>0, HandPlayedEffect
<1> HIDE DEF m
<1>3. Alive(m) /\ Orderly(m)
  BY <1>0, <1>2, SoundKept, SameOrder DEF SameTable
<1>4. r \in LobbyMemory
  BY <1>0, <1>2, <1>3, ReconcileSound
<1>5. Orderly(r) /\ NotOverdue(r)
  BY <1>0, <1>2, <1>3, ReconcileOrderly
<1> HIDE DEF r
<1> QED
  BY <1>1, <1>4, <1>5, StepOrderly

LEMMA SetFurthestBlindOrderly ==
  ASSUME SoundInv, OrderlyInv, Disciplined, NEW p \in Players, NEW blind \in 0 .. MaxBlind,
         SetFurthestBlind(p, blind)
  PROVE  Orderly(g') /\ NotOverdue(g')
<1>0. lobby \in Setups /\ g \in LobbyMemory /\ Sound(g) /\ Orderly(g) /\ NotOverdue(g)
      /\ Enough(g) /\ AwayAlive(g)
  BY OrderFacts
<1> DEFINE far == Larger(g.furthest[p], blind)
           m == [g EXCEPT !.furthest[p] = far]
           r == ResolveSurvival(m)
<1>1. lobby.survival /\ (g' \in Dealt(m) \/ g' \in Dealt(r))
  <2>1. [g EXCEPT !.furthest[p] = Larger(@, blind)] = m
    BY <1>0 DEF LobbyMemory
  <2> QED
    BY <2>1 DEF SetFurthestBlind, Step
<1>2. far \in 0 .. MaxBlind
  BY <1>0 DEF LobbyMemory, Larger
<1> HIDE DEF far
<1>3. /\ m \in LobbyMemory
      /\ m.inGame = g.inGame /\ m.place = g.place /\ m.inMatch = g.inMatch
      /\ m.lives = g.lives /\ m.timer = g.timer
      /\ m.ready = g.ready /\ m.readyOwn = g.readyOwn /\ m.active = g.active
  BY <1>0, <1>2 DEF LobbyMemory
<1> HIDE DEF m
<1>4. Orderly(m) /\ Enough(m) /\ AwayAlive(m)
  BY <1>0, <1>3, SoundKept, SameOrder DEF SameTable
<1>5. NotOverdue(m)
  BY <1>1, <1>3, <1>4, SurvivalIdle, IdleSettled
<1>6. r \in LobbyMemory
  BY <1>0, <1>1, <1>3, <1>4, ResolveSurvivalSound
<1>7. Orderly(r) /\ NotOverdue(r)
  BY <1>0, <1>1, <1>3, <1>4, ResolveSurvivalOrderly
<1> HIDE DEF r
<1> QED
  BY <1>1, <1>3, <1>4, <1>5, <1>6, <1>7, StepOrderly

LEMMA UnreadyBlindOrderly ==
  ASSUME SoundInv, OrderlyInv, Disciplined, NEW p \in Players, UnreadyBlind(p)
  PROVE  Orderly(g') /\ NotOverdue(g')
<1>0. lobby \in Setups /\ g \in LobbyMemory /\ Orderly(g) /\ NotOverdue(g)
  BY OrderFacts
<1> DEFINE r == ReleaseController(g, p)
           m == [r EXCEPT !.ready[p] = NoRow, !.readyOwn[p] = FALSE]
<1>1. g' \in Dealt(m)
  BY DEF UnreadyBlind, Step
<1>2. /\ r \in LobbyMemory
      /\ r.inGame = g.inGame /\ r.place = g.place /\ r.inMatch = g.inMatch
      /\ r.ready = g.ready /\ r.readyOwn = g.readyOwn /\ r.active = g.active
      /\ r.score = g.score /\ r.hands = g.hands /\ r.duel = g.duel
  BY <1>0, ReleaseControllerEffect, RetimedMemory
<1>3. r.timer = ReleaseController(g, p).timer
  OBVIOUS
<1> HIDE DEF r
<1>4. m \in LobbyMemory
  BY <1>2 DEF LobbyMemory
<1>5. /\ m.inGame = g.inGame /\ m.place = g.place /\ m.inMatch = g.inMatch
      /\ m.active = g.active /\ m.score = g.score /\ m.hands = g.hands /\ m.duel = g.duel
      /\ m.timer = ReleaseController(g, p).timer
      /\ \A q \in Players : m.ready[q] = IF q = p THEN NoRow ELSE g.ready[q]
      /\ \A q \in Players : q # p => m.readyOwn[q] = g.readyOwn[q]
  BY <1>2, <1>3 DEF LobbyMemory
<1> HIDE DEF m
<1>6. /\ SeatedPlayers(m) = SeatedPlayers(g) /\ ActivePlayers(m) = ActivePlayers(g)
      /\ Present(m) = Present(g) /\ Playing(m) = Playing(g)
      /\ HasDisconnectedMatchBlocker(m) = HasDisconnectedMatchBlocker(g)
  BY <1>5, SameTableQueries DEF SameTable
<1>7. Orderly(m)
  BY <1>0, <1>4, <1>5, <1>6, WithdrawnOrderly
<1>8. NotOverdue(m)
  BY <1>0, <1>5, <1>6, SameBlind
<1> QED
  BY <1>1, <1>4, <1>7, <1>8, StepOrderly

LEMMA NewRoundOrderly ==
  ASSUME SoundInv, OrderlyInv, Disciplined, NEW p \in Players, NewRound(p)
  PROVE  Orderly(g') /\ NotOverdue(g')
<1>0. g \in LobbyMemory /\ Orderly(g) /\ NotOverdue(g)
  BY OrderFacts
<1> DEFINE m == [g EXCEPT !.blocker[p] = FALSE]
<1>1. g' \in Dealt(m)
  BY DEF NewRound, Step
<1>2. /\ m \in LobbyMemory
      /\ m.inGame = g.inGame /\ m.place = g.place /\ m.inMatch = g.inMatch
      /\ m.ready = g.ready /\ m.readyOwn = g.readyOwn /\ m.active = g.active
      /\ m.score = g.score /\ m.hands = g.hands /\ m.duel = g.duel /\ m.timer = g.timer
  BY <1>0 DEF LobbyMemory
<1> HIDE DEF m
<1>3. Orderly(m)
  BY <1>0, <1>2, SameOrder DEF SameTable
<1>4. /\ SeatedPlayers(m) = SeatedPlayers(g) /\ ActivePlayers(m) = ActivePlayers(g)
      /\ HasDisconnectedMatchBlocker(m) = HasDisconnectedMatchBlocker(g)
  BY <1>2, SameTableQueries DEF SameTable
<1>5. NotOverdue(m)
  BY <1>0, <1>2, <1>4, SameBlind
<1> QED
  BY <1>1, <1>2, <1>3, <1>5, StepOrderly

LEMMA TimerHandlersOrderly ==
  ASSUME SoundInv, OrderlyInv, Disciplined,
         \/ \E p \in Players : SetAnte(p) \/ StartAnteTimer(p) \/ PauseAnteTimer(p)
         \/ Tick
  PROVE  Orderly(g') /\ NotOverdue(g')
<1>0. lobby \in Setups /\ g \in LobbyMemory /\ Orderly(g) /\ NotOverdue(g) /\ lobby.time \in Nat
  BY OrderFacts, LobbyFacts
<1>1. ASSUME NEW p \in Players, SetAnte(p)
      PROVE  \E m \in LobbyMemory : Orderly(m) /\ NotOverdue(m) /\ g' \in Dealt(m)
  <2>1. ResetTimer(g) \in LobbyMemory
    BY <1>0, ResetTimerEffect, RetimedMemory
  <2> QED
    BY <1>0, <1>1, <2>1, ResetTimerOrderly DEF SetAnte, Step
<1>2. ASSUME NEW p \in Players, NEW c, c = Controlled(p)
      PROVE  /\ Retimed(g, c) /\ c \in LobbyMemory
             /\ c.timer.controller = (IF HeadToHead THEN g.timer.controller ELSE p)
  BY <1>0, <1>2, ControlledEffect, RetimedMemory
<1>3. ASSUME NEW p \in Players, StartAnteTimer(p)
      PROVE  \E m \in LobbyMemory : Orderly(m) /\ NotOverdue(m) /\ g' \in Dealt(m)
  <2> DEFINE c == Controlled(p)
             m == SetRunning(c)
  <2>1. /\ g' \in Dealt(m) /\ p \in ActivePlayers(g) /\ ReadyForPvp(g, p)
    BY <1>3 DEF StartAnteTimer, MayStartTimer, InPlay, Step
  <2>2. /\ Retimed(g, c) /\ c \in LobbyMemory
        /\ c.timer.controller = (IF HeadToHead THEN g.timer.controller ELSE p)
    BY <1>2
  <2> HIDE DEF c
  <2>3. Retimed(c, m) /\ m.timer.controller = c.timer.controller
    BY <1>0, <2>2, SetRunningEffect
  <2> HIDE DEF m
  <2>4. Retimed(g, m)
    BY <1>0, <2>2, <2>3, RetimedTransitive
  <2>5. Idle(g)
    <3>1. g.active[p] = NoRow
      BY <1>0, <2>1 DEF Orderly, ReadyWait, ReadyForPvp
    <3> QED
      BY <2>1, <3>1, OwnTableIdle
  <2>6. m \in LobbyMemory /\ Orderly(m) /\ NotOverdue(m)
    <3>1. p # NoPlayer
      BY MatchAssumption
    <3> QED
      BY <1>0, <2>1, <2>2, <2>3, <2>4, <2>5, <3>1, RetimedOrderly
  <2> QED
    BY <2>1, <2>6
<1>4. ASSUME NEW p \in Players, PauseAnteTimer(p)
      PROVE  \E m \in LobbyMemory : Orderly(m) /\ NotOverdue(m) /\ g' \in Dealt(m)
  <2> DEFINE c == Controlled(p)
             m == SetPaused(c)
  <2>1. /\ g' \in Dealt(m)
        /\ \/ HeadToHead
           \/ g.timer.controller = p
           \/ p \in ActivePlayers(g) /\ ReadyForPvp(g, p)
    BY <1>4 DEF PauseAnteTimer, MayPauseTimer, InPlay, Step
  <2>2. /\ Retimed(g, c) /\ c \in LobbyMemory
        /\ c.timer.controller = (IF HeadToHead THEN g.timer.controller ELSE p)
    BY <1>2
  <2> HIDE DEF c
  <2>3. Retimed(c, m) /\ ~m.timer.started /\ m.timer.controller = c.timer.controller
    BY <2>2, SetPausedEffect
  <2> HIDE DEF m
  <2>4. Retimed(g, m)
    BY <1>0, <2>2, <2>3, RetimedTransitive
  <2>5. m \in LobbyMemory /\ Orderly(m) /\ NotOverdue(m)
    BY <1>0, <2>1, <2>2, <2>3, <2>4, RetimedOrderly
  <2> QED
    BY <2>1, <2>5
<1>5. ASSUME Tick
      PROVE  \E m \in LobbyMemory : Orderly(m) /\ NotOverdue(m) /\ g' \in Dealt(m)
  <2> DEFINE timer == [g.timer EXCEPT !.left = g.timer.left - 1]
             m == [g EXCEPT !.timer = timer]
  <2>1. [g EXCEPT !.timer.left = @ - 1] = m
    BY <1>0 DEF LobbyMemory, AnteTimer
  <2>2. /\ timer \in AnteTimer /\ timer.started = g.timer.started
        /\ timer.controller = g.timer.controller
    <3>1. g.timer \in AnteTimer /\ g.timer.left \in 0 .. lobby.time /\ g.timer.left > 0
      BY <1>0, <1>5 DEF Tick, LobbyMemory, AnteTimer
    <3>2. g.timer.left - 1 \in 0 .. lobby.time
      BY <1>0, <3>1
    <3> QED
      BY <3>1, <3>2 DEF AnteTimer
  <2> HIDE DEF timer
  <2>3. m.timer = timer
    BY <1>0 DEF LobbyMemory
  <2>4. Retimed(g, m) /\ g' \in Dealt(m)
    BY <1>5, <2>1, <2>2, <2>3 DEF Tick, Retimed, Step
  <2>5. /\ m.timer.started => Idle(g) \/ g.timer.started
        /\ m.timer.controller = g.timer.controller
        /\ m.timer.started /\ ~HeadToHead => m.timer.controller # NoPlayer
    BY <1>0, <2>2, <2>3 DEF Orderly, InGoodHands
  <2> HIDE DEF m
  <2>6. m \in LobbyMemory /\ Orderly(m) /\ NotOverdue(m)
    BY <1>0, <2>4, <2>5, RetimedOrderly
  <2> QED
    BY <2>4, <2>6
<1> QED
  BY <1>1, <1>3, <1>4, <1>5, StepOrderly

LEMMA ChargeAtOwnTable ==
  ASSUME SoundInv, OrderlyInv, Disciplined, NEW p \in ActivePlayers(g), AtOwnTable(p),
         NEW m \in {g, LoseLife(g, {p})}, g' \in Dealt(ResolveLosses(m))
  PROVE  Orderly(g') /\ NotOverdue(g')
<1>0. /\ lobby \in Setups /\ g \in LobbyMemory /\ Sound(g) /\ AwayAlive(g) /\ Enough(g)
      /\ Orderly(g) /\ HolderLives(g)
  BY OrderFacts
<1> DEFINE h == LoseLife(g, {p})
<1>1. g.ready[p] = NoRow /\ g.active[p] = NoRow /\ {p} \in SUBSET ActivePlayers(g)
      /\ p \in Players
  BY ActiveSubset DEF AtOwnTable
<1>2. Idle(g) /\ g.timer.controller \notin {p}
  BY <1>1, OwnTableIdle, NotHolder
<1>3. h \in LobbyMemory /\ AwayAlive(h) /\ Enough(h)
  BY <1>0, <1>1, LoseLifeSound
<1>4. Orderly(h) /\ Idle(h) /\ HolderLives(h)
  BY <1>0, <1>1, <1>2, ChargedOrderly
<1>5. m \in LobbyMemory /\ AwayAlive(m) /\ Enough(m) /\ Orderly(m) /\ Idle(m) /\ HolderLives(m)
  BY <1>0, <1>2, <1>3, <1>4
<1> HIDE DEF h
<1> DEFINE r == ResolveLosses(m)
<1>6. r \in LobbyMemory
  BY <1>0, <1>5, ResolveLossesSound
<1>7. Orderly(r) /\ NotOverdue(r)
  BY <1>0, <1>5, ResolveLossesOrderly
<1>8. g' \in Dealt(r)
  OBVIOUS
<1> HIDE DEF r
<1> QED
  BY <1>6, <1>7, <1>8, StepOrderly

LEMMA FailRoundOrderly ==
  ASSUME SoundInv, OrderlyInv, Disciplined, NEW p \in Players, FailRound(p)
  PROVE  Orderly(g') /\ NotOverdue(g')
<1>0. lobby \in Setups /\ g \in LobbyMemory /\ ~g.duel.due /\ Alive(g) /\ Orderly(g)
  BY OrderFacts
<1>1. p \in ActivePlayers(g)
  BY DEF FailRound, InPlay
<1>2. CASE Duels /\ HasBye(g, p)
  <2> DEFINE result == IF ByeBeaten(g, p) THEN "won"
                       ELSE IF g.duel.result[p] = "open" THEN "lost" ELSE g.duel.result[p]
             duel == [g.duel EXCEPT !.result[p] = result]
             m == [g EXCEPT !.duel = duel]
             r == ReconcileActiveMatchState(m)
  <2>1. [g EXCEPT !.duel.result[p] = result] = m
    BY <1>0 DEF LobbyMemory
  <2>2. g' \in Dealt(r)
    BY <1>2, <2>1 DEF FailRound, Step
  <2>3. g.duel \in DuelState /\ result \in {"open", "won", "lost"}
    BY <1>0 DEF LobbyMemory, DuelState
  <2> HIDE DEF result
  <2>4. duel \in DuelState /\ duel.due = g.duel.due
    BY <2>3 DEF DuelState
  <2> HIDE DEF duel
  <2>5. /\ m \in LobbyMemory /\ m.duel = duel
        /\ m.inGame = g.inGame /\ m.place = g.place /\ m.inMatch = g.inMatch
        /\ m.lives = g.lives /\ m.timer = g.timer
        /\ m.ready = g.ready /\ m.readyOwn = g.readyOwn /\ m.active = g.active
    BY <1>0, <2>4 DEF LobbyMemory
  <2> HIDE DEF m
  <2>6. Alive(m) /\ Orderly(m) /\ ~m.duel.due
    BY <1>0, <2>4, <2>5, SoundKept, SameOrder DEF SameTable
  <2>7. r \in LobbyMemory /\ Orderly(r) /\ NotOverdue(r)
    BY <1>0, <2>5, <2>6, ReconcileSound, ReconcileOrderly
  <2> HIDE DEF r
  <2> QED
    BY <2>2, <2>7, StepOrderly
<1>3. CASE ~(Duels /\ HasBye(g, p))
  <2>1. AtOwnTable(p) /\ \E m \in {g, LoseLife(g, {p})} : g' \in Dealt(ResolveLosses(m))
    BY <1>3 DEF FailRound, Step
  <2> QED
    BY <1>1, <2>1, ChargeAtOwnTable
<1> QED
  BY <1>2, <1>3

LEMMA ExpiredOrderly ==
  ASSUME SoundInv, OrderlyInv, Disciplined, NEW m, Retimed(g, m),
         m.timer.started = g.timer.started, m.timer.controller = g.timer.controller,
         \/ g' \in Dealt(m)
         \/ TimerIsDue(m) /\ g' \in Dealt(ExpireTimer(m))
  PROVE  Orderly(g') /\ NotOverdue(g')
<1>0. /\ lobby \in Setups /\ g \in LobbyMemory /\ Sound(g) /\ Orderly(g) /\ NotOverdue(g)
  BY OrderFacts
<1>1. /\ m.timer.started /\ ~HeadToHead => m.timer.controller # NoPlayer
      /\ m.timer.started => Idle(g)
  BY <1>0 DEF Orderly, InGoodHands, OneBlind
<1>2. m \in LobbyMemory /\ Orderly(m) /\ NotOverdue(m) /\ (Idle(g) => Idle(m)) /\ Sound(m)
  BY <1>0, <1>1, RetimedOrderly, RetimedSound
<1>3. CASE g' \in Dealt(m)
  BY <1>2, <1>3, StepOrderly
<1>4. CASE TimerIsDue(m) /\ g' \in Dealt(ExpireTimer(m))
  <2> DEFINE x == ExpireTimer(m)
  <2>1. Idle(m)
    BY <1>1, <1>2, <1>4 DEF TimerIsDue
  <2>2. x \in LobbyMemory /\ Orderly(x) /\ NotOverdue(x)
    BY <1>0, <1>2, <2>1, ExpireTimerSound, ExpireTimerOrderly
  <2>3. g' \in Dealt(x)
    BY <1>4
  <2> HIDE DEF x
  <2> QED
    BY <2>2, <2>3, StepOrderly
<1> QED
  BY <1>3, <1>4

LEMMA FailTimerOrderly ==
  ASSUME SoundInv, OrderlyInv, Disciplined, NEW p \in Players, FailTimer(p)
  PROVE  Orderly(g') /\ NotOverdue(g')
<1>1. p \in ActivePlayers(g)
  BY DEF FailTimer, InPlay
<1>2. Retimed(g, g)
  BY InvFacts DEF Retimed, LobbyMemory
<1>3. CASE TimerIsDue(g)
  BY <1>2, <1>3, ExpiredOrderly DEF FailTimer, Step
<1>4. CASE ~TimerIsDue(g)
  BY <1>1, <1>4, ChargeAtOwnTable DEF FailTimer, ReportedTimeout, Step
<1> QED
  BY <1>3, <1>4

LEMMA ExpireAnteTimerOrderly ==
  ASSUME SoundInv, OrderlyInv, Disciplined, ExpireAnteTimer
  PROVE  Orderly(g') /\ NotOverdue(g')
<1>0. g \in LobbyMemory
  BY OrderFacts
<1> DEFINE lapsed == g.timer.left > 0
           timer == [g.timer EXCEPT !.armed = FALSE, !.lapsed = lapsed]
           m == [g EXCEPT !.timer = timer]
<1>1. [g EXCEPT !.timer.armed = FALSE, !.timer.lapsed = g.timer.left > 0] = m
  BY <1>0 DEF LobbyMemory
<1>2. \/ g' \in Dealt(m)
      \/ TimerIsDue(m) /\ g' \in Dealt(ExpireTimer(m))
  BY <1>1 DEF ExpireAnteTimer, Step
<1>3. timer \in AnteTimer /\ timer.started = g.timer.started
      /\ timer.controller = g.timer.controller
  <2>1. lapsed \in BOOLEAN
    OBVIOUS
  <2> HIDE DEF lapsed
  <2> QED BY <1>0, <2>1 DEF LobbyMemory, AnteTimer
<1> HIDE DEF timer
<1>4. Retimed(g, m) /\ m.timer = timer
  BY <1>0, <1>3 DEF LobbyMemory, Retimed
<1> HIDE DEF m
<1> QED
  BY <1>2, <1>3, <1>4, ExpiredOrderly

\* The two of a 1v1 match are all there is: nobody is away.
LEMMA PairIsAll ==
  ASSUME SoundInv, OrderlyInv, Disciplined, HeadToHead, Cardinality(ActivePlayers(g)) = 2
  PROVE  /\ Playing(g) = ActivePlayers(g) /\ ~HasDisconnectedMatchBlocker(g)
         /\ \A P \in SUBSET ActivePlayers(g) : ~AtMostOne(P) => P = ActivePlayers(g)
<1>0. lobby \in Setups /\ g \in LobbyMemory /\ Orderly(g)
  BY OrderFacts
<1> DEFINE A == ActivePlayers(g)
           N == Present(g)
<1>1. lobby.seats \in SUBSET Players /\ Cardinality(lobby.seats) <= 2
  BY <1>0, LobbyFacts
<1>2. IsFiniteSet(lobby.seats)
  BY <1>1, MatchAssumption, FS_Subset
<1>3. N \in SUBSET lobby.seats
  BY <1>0 DEF Orderly
<1>4. A \in SUBSET N
  BY <1>0, ParticipantFacts
<1>5. IsFiniteSet(N) /\ Cardinality(N) <= Cardinality(lobby.seats)
  BY <1>2, <1>3, FS_Subset
<1>6. IsFiniteSet(A) /\ Cardinality(A) <= Cardinality(N)
  BY <1>4, <1>5, FS_Subset
<1>7. Cardinality(N) \in Nat /\ Cardinality(lobby.seats) \in Nat /\ Cardinality(A) = 2
  BY <1>2, <1>5, FS_CardinalityType
<1>8. Cardinality(N) = Cardinality(A)
  BY <1>1, <1>5, <1>6, <1>7
<1>9. N = A
  BY <1>4, <1>5, <1>8, FS_Subset
<1>10. Playing(g) = A /\ ~HasDisconnectedMatchBlocker(g)
  BY <1>9 DEF Playing, Present, ActivePlayers, SeatedPlayers, HasDisconnectedMatchBlocker
<1>11. ASSUME NEW P \in SUBSET A, ~AtMostOne(P) PROVE P = A
  <2>1. PICK x, y \in P : x # y
    BY <1>11 DEF AtMostOne
  <2>2. IsFiniteSet({x}) /\ Cardinality({x}) = 1
    BY FS_Singleton
  <2>3. Cardinality({x} \cup {y}) = Cardinality({x}) + 1 /\ IsFiniteSet({x} \cup {y})
    BY <2>1, <2>2, FS_AddElement
  <2>4. IsFiniteSet(P)
    BY <1>6, FS_Subset
  <2>5. {x} \cup {y} \in SUBSET A /\ Cardinality({x} \cup {y}) = Cardinality(A)
    BY <1>7, <2>1, <2>2, <2>3
  <2>6. {x} \cup {y} = A
    BY <1>6, <2>5, FS_Subset
  <2> QED
    BY <2>1, <2>6
<1> QED
  BY <1>10, <1>11

LEMMA ClearNobody ==
  ASSUME NEW m \in LobbyMemory PROVE ClearParticipation(m, {}) = m
<1>1. /\ [p \in Players |-> m.inMatch[p] /\ p \notin {}] = m.inMatch
      /\ [p \in Players |-> m.blocker[p] /\ p \notin {}] = m.blocker
      /\ [p \in Players |-> m.firstReady[p] /\ p \notin {}] = m.firstReady
      /\ [p \in Players |-> m.readyOwn[p] /\ p \notin {}] = m.readyOwn
  BY Zenon DEF LobbyMemory
<1>2. /\ [p \in Players |-> IF p \in {} THEN NoRow ELSE m.ready[p]] = m.ready
      /\ [p \in Players |-> IF p \in {} THEN NoRow ELSE m.active[p]] = m.active
  BY DEF LobbyMemory
<1>3. m = [m EXCEPT !.inMatch = m.inMatch, !.blocker = m.blocker,
                    !.firstReady = m.firstReady, !.ready = m.ready,
                    !.readyOwn = m.readyOwn, !.active = m.active]
  BY DEF LobbyMemory
<1> QED
  BY <1>1, <1>2, <1>3 DEF ClearParticipation

LEMMA FailPvPTimerOrderly ==
  ASSUME SoundInv, OrderlyInv, Disciplined, NEW p \in Players, FailPvPTimer(p)
  PROVE  Orderly(g') /\ NotOverdue(g')
<1>0. /\ lobby \in Setups /\ g \in LobbyMemory /\ AwayAlive(g) /\ Enough(g)
      /\ Orderly(g) /\ NotOverdue(g)
  BY OrderFacts
<1> DEFINE h == LoseLife(g, {p})
           r == ResolveSoloEliminations(h)
           pair == ActivePlayers(g)
           b == ClearBlind(h, pair)
           c == ClearFirstReady(b, pair)
<1>1. p \in pair /\ HeadToHead /\ Cardinality(pair) = 2
      /\ (g' \in Dealt(h) \/ (r # h /\ g' \in Dealt(r)) \/ g' \in Dealt(c))
  BY DEF FailPvPTimer, InPlay, Step
<1>2. g.timer.controller = NoPlayer
  BY <1>0, <1>1 DEF Orderly, InGoodHands
<1>3. /\ {p} \in SUBSET Players /\ {p} \in SUBSET ActivePlayers(g)
      /\ g.timer.controller \notin {p}
  BY <1>1, <1>2, ActiveSubset, MatchAssumption
<1>4. /\ h \in LobbyMemory
      /\ h.inGame = g.inGame /\ h.place = g.place /\ h.inMatch = g.inMatch
      /\ h.ready = g.ready /\ h.readyOwn = g.readyOwn /\ h.active = g.active
      /\ h.score = g.score /\ h.hands = g.hands /\ h.timer = g.timer /\ h.duel = g.duel
      /\ \A q \in Players :
           /\ h.blocker[q] <=> g.blocker[q] \/ q \in {p}
           /\ h.lives[q] <= g.lives[q]
           /\ q \notin {p} \/ g.blocker[q] => h.lives[q] = g.lives[q]
           /\ q \in {p} /\ ~g.blocker[q] /\ g.lives[q] > 0 => h.lives[q] = g.lives[q] - 1
  BY <1>0, <1>3, LobbyFacts, LoseLifeEffect
<1>5. AwayAlive(h) /\ Enough(h)
  BY <1>0, <1>3, LoseLifeSound
<1>6. Orderly(h)
  BY <1>0, <1>3, ChargedOrderly
<1> HIDE DEF h
<1>7. /\ SeatedPlayers(h) = SeatedPlayers(g) /\ ActivePlayers(h) = pair
      /\ Present(h) = Present(g) /\ Playing(h) = Playing(g)
      /\ HasDisconnectedMatchBlocker(h) = HasDisconnectedMatchBlocker(g)
  BY <1>4, SameTableQueries DEF SameTable
<1>8. /\ Playing(g) = pair /\ ~HasDisconnectedMatchBlocker(g)
      /\ \A P \in SUBSET pair : ~AtMostOne(P) => P = pair
  BY <1>1, PairIsAll
<1>9. CASE g' \in Dealt(h)
  <2>1. NotOverdue(h)
    BY <1>0, <1>4, <1>7, SameBlind
  <2> QED
    BY <1>4, <1>6, <1>9, <2>1, StepOrderly
<1>10. CASE r # h /\ g' \in Dealt(r)
  <2> DEFINE alive == {q \in ActivePlayers(h) : h.lives[q] > 0}
  <2>1. AtMostOne(alive)
    <3> SUFFICES ASSUME ~AtMostOne(alive) PROVE FALSE
      OBVIOUS
    <3>1. alive = pair
      BY <1>7, <1>8
    <3>2. EliminateWithoutRound(h) = ClearParticipation(h, {})
      BY <1>7, <3>1 DEF EliminateWithoutRound
    <3>3. EliminateWithoutRound(h) = h
      BY <1>4, <3>2, ClearNobody
    <3> QED
      BY <1>10, <3>3 DEF ResolveSoloEliminations
  <2>2. Orderly(FinishMatch(h)) /\ NotOverdue(FinishMatch(h)) /\ ~FinishMatch(h).inGame
    BY <1>0, <1>4, <1>6, <1>7, <1>8, FinishMatchOrderly
  <2>3. FinishMatch(h) \in LobbyMemory
    BY <1>0, <1>4, FinishMatchEffect
  <2>4. r = FinishMatch(h)
    BY <2>1, <2>2 DEF ResolveSoloEliminations, EliminateWithoutRound
  <2> HIDE DEF r
  <2> QED
    BY <1>10, <2>2, <2>3, <2>4, StepOrderly
<1>11. CASE g' \in Dealt(c)
  <2>1. pair \in SUBSET Players
    BY ActiveSubset
  <2>2. /\ b \in LobbyMemory
        /\ b.inGame = h.inGame /\ b.place = h.place /\ b.inMatch = h.inMatch
        /\ b.lives = h.lives /\ b.blocker = h.blocker /\ b.ready = h.ready
        /\ b.readyOwn = h.readyOwn /\ b.score = h.score /\ b.hands = h.hands
        /\ b.timer = h.timer /\ b.duel = h.duel
        /\ \A q \in Players : b.active[q] = IF q \in pair THEN NoRow ELSE h.active[q]
        /\ Keeps(h, b, {})
    BY <1>4, <2>1, ClearBlindEffect
  <2> HIDE DEF b
  <2>3. /\ c \in LobbyMemory
        /\ c.inGame = b.inGame /\ c.place = b.place /\ c.inMatch = b.inMatch
        /\ c.lives = b.lives /\ c.blocker = b.blocker /\ c.ready = b.ready
        /\ c.readyOwn = b.readyOwn /\ c.active = b.active
        /\ c.score = b.score /\ c.hands = b.hands
        /\ c.timer = b.timer /\ c.duel = b.duel
        /\ Keeps(b, c, {})
    BY <2>1, <2>2, ClearFirstReadyEffect
  <2> HIDE DEF c
  <2>4. /\ ActivePlayers(c) = ActivePlayers(h) /\ Present(c) = Present(h)
        /\ Playing(c) = Playing(h) /\ Enough(c)
    BY <1>5, <2>2, <2>3, SameTableQueries, SoundKept DEF SameTable
  <2>5. Idle(c)
    BY <1>7, <1>8, <2>1, <2>2, <2>3, <2>4 DEF Idle
  <2>6. Orderly(c)
    BY <1>4, <1>6, <2>2, <2>3, <2>4, <2>5
       DEF Orderly, OneBlind, ReadyWait, InGoodHands, ReadyForPvp
  <2>7. NotOverdue(c)
    BY <2>3, <2>4, <2>5, IdleSettled
  <2> QED
    BY <1>11, <2>3, <2>6, <2>7, StepOrderly
<1> QED
  BY <1>1, <1>9, <1>10, <1>11

LEMMA ReturnToLobbyOrderly ==
  ASSUME SoundInv, OrderlyInv, Disciplined, NEW p \in Players, ReturnToLobby(p)
  PROVE  Orderly(g') /\ NotOverdue(g')
<1>0. lobby \in Setups /\ g \in LobbyMemory /\ ~g.duel.due /\ Alive(g) /\ Orderly(g)
  BY OrderFacts
<1> DEFINE m == Back(g, p)
           r == ReconcileActiveMatchState(m)
<1>1. g' \in Dealt(r)
  BY DEF ReturnToLobby, Back, Step
<1>2. /\ m \in LobbyMemory
      /\ m.inGame = g.inGame /\ m.place = g.place /\ m.duel = g.duel
      /\ m.timer = ReleaseController(g, p).timer
      /\ \A q \in Players :
           /\ m.lives[q] = IF q = p THEN 0 ELSE g.lives[q]
           /\ m.score[q] = IF q = p THEN 0 ELSE g.score[q]
           /\ m.inMatch[q] <=> g.inMatch[q] /\ q # p
           /\ m.ready[q] = IF q = p THEN NoRow ELSE g.ready[q]
           /\ m.readyOwn[q] <=> g.readyOwn[q] /\ q # p
           /\ m.active[q] = IF q = p THEN NoRow ELSE g.active[q]
      /\ Keeps(g, m, {p})
  BY <1>0, BackEffect
<1>3. Orderly(m)
  BY <1>0, BackOrderly
<1> HIDE DEF m
<1>4. Alive(m)
  BY <1>0, <1>2 DEF Alive, Playing, Present
<1>5. r \in LobbyMemory /\ Orderly(r) /\ NotOverdue(r)
  BY <1>0, <1>2, <1>3, <1>4, ReconcileSound, ReconcileOrderly
<1> HIDE DEF r
<1> QED
  BY <1>1, <1>5, StepOrderly

LEMMA DepartStepOrderly ==
  ASSUME SoundInv, OrderlyInv, Disciplined, NEW p \in Players,
         Step(Depart(g, p)) \/ ExpireSlot(p)
  PROVE  Orderly(g') /\ NotOverdue(g')
<1>0. /\ lobby \in Setups /\ g \in LobbyMemory /\ ~g.duel.due /\ Sound(g)
      /\ Orderly(g) /\ NotOverdue(g)
  BY OrderFacts
<1> DEFINE m == Depart(g, p)
           t == TryStartPendingBlind(m)
<1>1. g' \in Dealt(m) \/ g' \in Dealt(t)
  BY DEF ExpireSlot, Step
<1>2. m \in LobbyMemory /\ Sound(m) /\ Orderly(m) /\ NotOverdue(m) /\ Dealable(m)
  BY <1>0, DepartSound, DepartOrderly
<1> HIDE DEF m
<1>3. t \in LobbyMemory /\ Orderly(t) /\ NotOverdue(t)
  BY <1>0, <1>2, TryStartPendingBlindSound, TryStartPendingBlindOrderly
<1> HIDE DEF t
<1> QED
  BY <1>1, <1>2, <1>3, StepOrderly

LEMMA ReserveStepOrderly ==
  ASSUME SoundInv, OrderlyInv, Disciplined, NEW p \in Players, p \in SeatedPlayers(g),
         Step(Reserve(g, p))
  PROVE  Orderly(g') /\ NotOverdue(g')
<1>0. lobby \in Setups /\ g \in LobbyMemory /\ Orderly(g) /\ NotOverdue(g)
  BY OrderFacts
<1> DEFINE m == Reserve(g, p)
<1>1. m \in LobbyMemory /\ Orderly(m) /\ NotOverdue(m)
  BY <1>0, ReserveEffect, ReserveOrderly
<1>2. g' \in Dealt(m)
  BY DEF Step
<1> HIDE DEF m
<1> QED
  BY <1>1, <1>2, StepOrderly

LEMMA RejoinLobbyOrderly ==
  ASSUME SoundInv, OrderlyInv, Disciplined, NEW p \in Players, RejoinLobby(p)
  PROVE  Orderly(g') /\ NotOverdue(g')
<1>0. lobby \in Setups /\ g \in LobbyMemory /\ ~g.duel.due /\ Alive(g) /\ Orderly(g)
  BY OrderFacts
<1> DEFINE m == [g EXCEPT !.place[p] = "seated"]
           r == ReconcileActiveMatchState(m)
<1>1. g.place[p] = "away" /\ g' \in Dealt(r)
  BY DEF RejoinLobby, Step
<1>2. /\ m \in LobbyMemory
      /\ m.inGame = g.inGame /\ m.inMatch = g.inMatch /\ m.lives = g.lives
      /\ m.ready = g.ready /\ m.readyOwn = g.readyOwn /\ m.active = g.active
      /\ m.timer = g.timer /\ m.duel = g.duel
      /\ m.place = [g.place EXCEPT ![p] = "seated"]
  BY <1>0 DEF LobbyMemory
<1> HIDE DEF m
<1>3. \A q \in Players : m.place[q] = IF q = p THEN "seated" ELSE g.place[q]
  BY <1>0, <1>2 DEF LobbyMemory
<1>4. /\ Present(m) = Present(g) /\ Playing(m) = Playing(g)
      /\ ActivePlayers(g) \subseteq ActivePlayers(m)
  BY <1>1, <1>2, <1>3 DEF Present, Playing, ActivePlayers, SeatedPlayers
<1>5. Alive(m)
  BY <1>0, <1>2, <1>4 DEF Alive
<1>6. Orderly(m)
  BY <1>0, <1>2, <1>4 DEF Orderly, OneBlind, Idle, ReadyWait, InGoodHands, ReadyForPvp
<1>7. r \in LobbyMemory /\ Orderly(r) /\ NotOverdue(r)
  BY <1>0, <1>2, <1>5, <1>6, ReconcileSound, ReconcileOrderly
<1> HIDE DEF r
<1> QED
  BY <1>1, <1>7, StepOrderly

LEMMA OrderlyInit ==
  ASSUME Init PROVE OrderlyInv
<1>1. lobby \in Setups /\ g \in LobbyMemory
  BY SoundInit, InvFacts
<1>2. /\ ~g.inGame /\ ~g.timer.started /\ g.timer.controller = NoPlayer
      /\ \A p \in Players : ~g.inMatch[p] /\ g.ready[p] = NoRow
      /\ \A p \in Players : g.place[p] = IF p \in lobby.seats THEN "seated" ELSE "gone"
  BY DEF Init, Everyone
<1>3. Orderly(g)
  BY <1>2 DEF Orderly, OneBlind, Idle, Playing, Present, ReadyWait, InGoodHands
<1>4. NotOverdue(g)
  BY <1>2 DEF NotOverdue
<1> QED
  BY <1>3, <1>4 DEF OrderlyInv

LEMMA NextOrderly ==
  ASSUME SoundInv, OrderlyInv, Disciplined, Next
  PROVE  Orderly(g') /\ NotOverdue(g')
<1>1. CASE StartGame \/ Tick \/ ExpireAnteTimer
  BY <1>1, StartGameOrderly, TimerHandlersOrderly, ExpireAnteTimerOrderly
<1>2. ASSUME NEW p \in Players, NEW row \in Rows, ReadyBlind(p, row)
      PROVE  Orderly(g') /\ NotOverdue(g')
  BY <1>2, ReadyBlindOrderly
<1>3. ASSUME NEW p \in Players, NEW score \in 0 .. MaxScore, NEW hands \in 0 .. Hands,
             NEW target \in 0 .. MaxScore \cup {NoScore}, PlayHand(p, score, hands, target)
      PROVE  Orderly(g') /\ NotOverdue(g')
  BY <1>3, PlayHandOrderly
<1>4. ASSUME NEW p \in Players, NEW blind \in 0 .. MaxBlind, SetFurthestBlind(p, blind)
      PROVE  Orderly(g') /\ NotOverdue(g')
  BY <1>4, SetFurthestBlindOrderly
<1>5. ASSUME NEW p \in Players,
             \/ UnreadyBlind(p) \/ NewRound(p) \/ SetAnte(p)
             \/ StartAnteTimer(p) \/ PauseAnteTimer(p)
      PROVE  Orderly(g') /\ NotOverdue(g')
  BY <1>5, UnreadyBlindOrderly, NewRoundOrderly, TimerHandlersOrderly
<1>6. ASSUME NEW p \in Players,
             \/ FailRound(p) \/ FailTimer(p) \/ FailPvPTimer(p)
             \/ ReturnToLobby(p) \/ RejoinLobby(p)
      PROVE  Orderly(g') /\ NotOverdue(g')
  BY <1>6, FailRoundOrderly, FailTimerOrderly, FailPvPTimerOrderly, ReturnToLobbyOrderly,
     RejoinLobbyOrderly
<1>7. ASSUME NEW p \in Players, LeaveLobby(p) \/ Disconnect(p) \/ ExpireSlot(p)
      PROVE  Orderly(g') /\ NotOverdue(g')
  <2>1. \/ Step(Depart(g, p)) \/ ExpireSlot(p)
        \/ p \in SeatedPlayers(g) /\ Step(Reserve(g, p))
    BY <1>7 DEF LeaveLobby, Disconnect
  <2> QED
    BY <2>1, DepartStepOrderly, ReserveStepOrderly
<1>8. ASSUME NEW p \in Players,
             \/ \E row \in Rows : ReadyBlind(p, row)
             \/ \E score \in 0 .. MaxScore, hands \in 0 .. Hands,
                   target \in 0 .. MaxScore \cup {NoScore} : PlayHand(p, score, hands, target)
             \/ \E blind \in 0 .. MaxBlind : SetFurthestBlind(p, blind)
      PROVE  Orderly(g') /\ NotOverdue(g')
  BY <1>2, <1>3, <1>4, <1>8
<1>9. \/ StartGame \/ Tick \/ ExpireAnteTimer
      \/ \E p \in Players :
           \/ \E row \in Rows : ReadyBlind(p, row)
           \/ \E score \in 0 .. MaxScore, hands \in 0 .. Hands,
                 target \in 0 .. MaxScore \cup {NoScore} : PlayHand(p, score, hands, target)
           \/ \E blind \in 0 .. MaxBlind : SetFurthestBlind(p, blind)
      \/ \E p \in Players :
           \/ UnreadyBlind(p) \/ NewRound(p) \/ SetAnte(p)
           \/ StartAnteTimer(p) \/ PauseAnteTimer(p)
      \/ \E p \in Players :
           \/ FailRound(p) \/ FailTimer(p) \/ FailPvPTimer(p)
           \/ ReturnToLobby(p) \/ RejoinLobby(p)
      \/ \E p \in Players : LeaveLobby(p) \/ Disconnect(p) \/ ExpireSlot(p)
  BY DEF Next
<1> QED
  BY <1>1, <1>5, <1>6, <1>7, <1>8, <1>9

LEMMA OrderlyStep ==
  ASSUME SoundInv, OrderlyInv, [Next]_vars
  PROVE  OrderlyInv'
<1> SUFFICES ASSUME Disciplined PROVE Orderly(g)' /\ NotOverdue(g)'
  BY DEF OrderlyInv
<1>1. Orderly(g') /\ NotOverdue(g') /\ lobby' = lobby
  <2>1. CASE Next
    BY <2>1, NextOrderly, NextSound DEF Settles
  <2>2. CASE UNCHANGED vars
    BY <2>2, OrderFacts DEF vars
  <2> QED
    BY <2>1, <2>2
<1>2. Orderly(g)'
  BY <1>1 DEF Orderly, OneBlind, Idle, Playing, Present, ReadyWait, InGoodHands, ReadyForPvp,
              ActivePlayers, SeatedPlayers, HeadToHead
<1>3. NotOverdue(g)'
  BY <1>1 DEF NotOverdue, AllStarted, ActivePlayers, SeatedPlayers,
              HasDisconnectedMatchBlocker, ShouldResolveBlindNow, DuelResolved, Duels,
              HasBye, ByeBeaten, Opponents, Scores, WithHands
<1> QED
  BY <1>2, <1>3

\* The participants of a match share one blind, the timer runs between blinds
\* and in good hands, and a blind that can be resolved has been, as long as
\* peers report what their own game is in.
THEOREM OrderlyCorrect == Spec => [](SoundInv /\ OrderlyInv)
<1>1. Init => SoundInv /\ OrderlyInv
  BY SoundInit, OrderlyInit
<1>2. SoundInv /\ OrderlyInv /\ [Next]_vars => (SoundInv /\ OrderlyInv)'
  BY SoundStep, OrderlyStep
<1> QED
  BY <1>1, <1>2, PTL DEF Spec

\* Nobody is left behind in a blind the others have finished, and nobody
\* returns into one that started without it.
THEOREM BlindsInStepCorrect == Disciplined => (Spec => []BlindsInStep)
<1> SUFFICES ASSUME Disciplined PROVE Spec => []BlindsInStep
  OBVIOUS
<1>1. SoundInv /\ OrderlyInv => BlindsInStep
  BY DEF OrderlyInv, Orderly, OneBlind, Idle, Playing, Present, BlindsInStep, Participants
<1>2. Spec => [](SoundInv /\ OrderlyInv)
  BY OrderlyCorrect
<1> QED
  BY <1>1, <1>2, PTL

\* After the last hand, the last departure or the return of the last missing
\* player nobody sits in a blind without a hand to come.
THEOREM NoOverdueBlindCorrect == Disciplined => (Spec => []NoOverdueBlind)
<1> SUFFICES ASSUME Disciplined PROVE Spec => []NoOverdueBlind
  OBVIOUS
<1>1. SoundInv /\ OrderlyInv => NoOverdueBlind
  BY DEF OrderlyInv, NotOverdue, NoOverdueBlind
<1>2. Spec => [](SoundInv /\ OrderlyInv)
  BY OrderlyCorrect
<1> QED
  BY <1>1, <1>2, PTL

\* A running timer always has a seated, ready participant who may pause it.
THEOREM TimerInGoodHandsCorrect == Disciplined => (Spec => []TimerInGoodHands)
<1> SUFFICES ASSUME Disciplined PROVE Spec => []TimerInGoodHands
  OBVIOUS
<1>1. SoundInv /\ OrderlyInv => TimerInGoodHands
  BY DEF OrderlyInv, Orderly, InGoodHands, TimerInGoodHands
<1>2. Spec => [](SoundInv /\ OrderlyInv)
  BY OrderlyCorrect
<1> QED
  BY <1>1, <1>2, PTL

------------------------------------------------------------------------------
(* The rules.  Induction over numbers and finite sets goes by a smallest       *)
(* counterexample, with the predicate given as a set.                          *)

LEMMA Smallest ==
  ASSUME NEW T, T \subseteq Nat, T # {}
  PROVE  \E x \in T : \A y \in T : x <= y
<1> DEFINE R == OpToRel(<, Nat)
<1>1. IsWellFoundedOn(R, Nat)
  BY NatLessThanWellFounded, Zenon
<1>2. R = {ss \in Nat \X Nat : ss[1] < ss[2]}
  BY DEF OpToRel
<1> HIDE DEF R
<1>3. PICK x \in T : \A y \in T : ~ (<<y, x>> \in R)
  BY <1>1, WFMin
<1>4. \A y \in T : <<y, x>> \in Nat \X Nat /\ ~(y < x)
  BY <1>2, <1>3
<1>5. x \in Nat
  OBVIOUS
<1>6. ASSUME NEW y \in T PROVE x <= y
  <2>1. ~(y < x)
    BY <1>4
  <2>2. y \in Nat
    OBVIOUS
  <2> HIDE <1>4
  <2> QED BY <1>5, <2>1, <2>2
<1> QED BY <1>6

\* What holds of 0 and passes on up to n holds of all numbers up to n.
LEMMA Upwards ==
  ASSUME NEW n \in Nat, NEW S, 0 \in S, \A k \in 0 .. n - 1 : k \in S => k + 1 \in S
  PROVE  0 .. n \subseteq S
<1> DEFINE T == (0 .. n) \ S
<1> SUFFICES ASSUME T # {} PROVE FALSE
  OBVIOUS
<1>1. T \subseteq Nat /\ \A y : y \in T <=> y \in 0 .. n /\ y \notin S
  OBVIOUS
<1> HIDE DEF T
<1>2. PICK x \in T : \A y \in T : x <= y
  BY <1>1, Smallest
<1>3. x \in 0 .. n /\ x # 0 /\ x \notin S
  BY <1>1, <1>2
<1>4. x - 1 \in 0 .. n - 1 /\ x - 1 \in 0 .. n /\ x = (x - 1) + 1 /\ ~(x <= x - 1)
  BY <1>3
<1>5. x - 1 \in S
  BY <1>1, <1>2, <1>4
<1> QED BY <1>3, <1>4, <1>5

------------------------------------------------------------------------------
(* Sums and products of the scores of a table, which are folds over the entries *)

Pick(s) == CHOOSE e \in s : TRUE

\* the folds of Total and Product, and those of SumOf and ProductOf
Start(kind) ==
  CASE kind = "sum" -> Zero
    [] kind = "product" -> Plain(1)
    [] kind = "plus" -> 0
    [] kind = "times" -> 1
Joined(kind, x, y) ==
  CASE kind = "sum" -> Add(x, y)
    [] kind = "product" -> Times(x, y)
    [] kind = "plus" -> x + y
    [] kind = "times" -> x * y

LEMMA Kinds ==
  /\ Start("sum") = Zero /\ Start("product") = Plain(1) /\ Start("plus") = 0 /\ Start("times") = 1
  /\ \A x, y : Joined("sum", x, y) = Add(x, y) /\ Joined("product", x, y) = Times(x, y)
  /\ \A x, y : Joined("plus", x, y) = x + y /\ Joined("times", x, y) = x * y
BY DEF Start, Joined

FoldBody(kind, t, f) ==
  [s \in SUBSET DOMAIN t |->
     IF s = {} THEN Start(kind) ELSE Joined(kind, t[Pick(s)], f[s \ {Pick(s)}])]

Fold(kind, t) == CHOOSE f : f = FoldBody(kind, t, f)

LEMMA TotalIsFold == ASSUME NEW t PROVE Total(t) = Fold("sum", t)[DOMAIN t]
BY DEF Total, MapThenFoldSet, Fold, FoldBody, Joined, Start, Pick

LEMMA ProductIsFold == ASSUME NEW t PROVE Product(t) = Fold("product", t)[DOMAIN t]
BY DEF Product, MapThenFoldSet, Fold, FoldBody, Joined, Start, Pick

LEMMA SumIsFold == ASSUME NEW v PROVE SumOf(v) = Fold("plus", v)[DOMAIN v]
BY DEF SumOf, MapThenFoldSet, Fold, FoldBody, Joined, Start, Pick

LEMMA ProductOfIsFold == ASSUME NEW v PROVE ProductOf(v) = Fold("times", v)[DOMAIN v]
BY DEF ProductOf, MapThenFoldSet, Fold, FoldBody, Joined, Start, Pick

LEMMA WithoutPick ==
  ASSUME NEW N, IsFiniteSet(N), NEW s \in SUBSET N, s # {}
  PROVE  /\ Pick(s) \in s /\ s \ {Pick(s)} \in SUBSET N
         /\ Cardinality(s) \in Nat /\ Cardinality(s) > 0
         /\ Cardinality(s \ {Pick(s)}) = Cardinality(s) - 1
<1>1. Pick(s) \in s
  BY DEF Pick
<1>2. IsFiniteSet(s)
  BY FS_Subset
<1>3. Cardinality(s) \in Nat /\ Cardinality(s \ {Pick(s)}) = Cardinality(s) - 1
  BY <1>1, <1>2, FS_RemoveElement, FS_CardinalityType
<1>4. Cardinality(s) # 0
  BY <1>2, FS_EmptySet
<1> QED BY <1>1, <1>3, <1>4

\* What holds of the empty set and of a set once it holds without its pick.
LEMMA PickInduction ==
  ASSUME NEW N, IsFiniteSet(N), NEW P, {} \in P,
         \A s \in SUBSET N : s # {} /\ s \ {Pick(s)} \in P => s \in P
  PROVE  SUBSET N \subseteq P
<1> DEFINE S == {k \in Nat : \A s \in SUBSET N : Cardinality(s) = k => s \in P}
<1>1. 0 \in S
  <2>1. ASSUME NEW s \in SUBSET N, Cardinality(s) = 0 PROVE s \in P
    BY <2>1, FS_Subset, FS_EmptySet
  <2> QED BY <2>1
<1>2. ASSUME NEW k \in Nat, k \in S PROVE k + 1 \in S
  <2>1. ASSUME NEW s \in SUBSET N, Cardinality(s) = k + 1 PROVE s \in P
    <3>1. s # {}
      BY <2>1, FS_EmptySet
    <3>2. s \ {Pick(s)} \in SUBSET N /\ Cardinality(s \ {Pick(s)}) = k
      BY <2>1, <3>1, WithoutPick
    <3>3. s \ {Pick(s)} \in P
      BY <1>2, <3>2
    <3> QED BY <3>1, <3>3
  <2> QED BY <2>1
<1>3. ASSUME NEW s \in SUBSET N PROVE s \in P
  <2>1. Cardinality(s) \in Nat
    BY FS_Subset, FS_CardinalityType
  <2>2. \A k \in 0 .. Cardinality(s) - 1 : k \in S => k + 1 \in S
    BY <1>2, <2>1
  <2>3. Cardinality(s) \in S
    <3> HIDE DEF S
    <3> QED BY <1>1, <2>1, <2>2, Upwards
  <2> QED BY <2>3
<1> QED BY <1>3

LEMMA FoldDefined ==
  ASSUME NEW kind, NEW t, IsFiniteSet(DOMAIN t)
  PROVE  Fold(kind, t) = FoldBody(kind, t, Fold(kind, t))
<1> DEFINE N == DOMAIN t
           Small(k) == {s \in SUBSET N : Cardinality(s) <= k}
           Value(s, f) == IF s = {} THEN Start(kind)
                          ELSE Joined(kind, t[Pick(s)], f[s \ {Pick(s)}])
           Upto(f, k) == f = [s \in Small(k) |-> Value(s, f)]
           S == {k \in Nat : \E f : Upto(f, k)}
<1>1. 0 \in S
  <2>1. \A s \in Small(0) : s = {}
    <3>1. ASSUME NEW s \in Small(0) PROVE s = {}
      <4>1. IsFiniteSet(s)
        BY FS_Subset
      <4>2. Cardinality(s) \in Nat /\ Cardinality(s) <= 0
        BY <4>1, FS_CardinalityType
      <4> QED BY <4>1, <4>2, FS_EmptySet
    <3> QED BY <3>1
  <2>2. Upto([s \in Small(0) |-> Start(kind)], 0)
    BY <2>1
  <2> QED BY <2>2
<1>2. ASSUME NEW k \in Nat, k \in S PROVE k + 1 \in S
  <2>1. PICK f : Upto(f, k)
    BY <1>2
  <2> DEFINE h == [s \in Small(k + 1) |-> IF Cardinality(s) <= k THEN f[s] ELSE Value(s, f)]
  <2>2. ASSUME NEW s \in Small(k + 1) PROVE h[s] = Value(s, h)
    <3>1. CASE s = {}
      <4>1. Cardinality(s) <= k
        BY <3>1, FS_EmptySet
      <4>2. s \in Small(k)
        BY <4>1
      <4> QED BY <2>1, <3>1, <4>1, <4>2
    <3>2. CASE s # {}
      <4> DEFINE r == s \ {Pick(s)}
      <4>1. /\ r \in SUBSET N /\ Cardinality(s) \in Nat /\ Cardinality(r) = Cardinality(s) - 1
        BY <3>2, WithoutPick
      <4>2. Cardinality(r) <= k /\ Cardinality(r) <= k + 1
        BY <4>1
      <4>3. r \in Small(k) /\ r \in Small(k + 1)
        BY <4>1, <4>2
      <4>4. h[r] = f[r]
        BY <4>2, <4>3
      <4>5. Value(s, h) = Value(s, f)
        BY <4>4
      <4>6. h[s] = Value(s, f)
        <5>1. CASE Cardinality(s) <= k
          <6>1. s \in Small(k)
            BY <5>1
          <6> QED BY <2>1, <5>1, <6>1
        <5>2. CASE ~(Cardinality(s) <= k)
          BY <5>2
        <5> QED BY <5>1, <5>2
      <4> QED BY <4>5, <4>6
    <3> QED BY <3>1, <3>2
  <2>3. h = [s \in Small(k + 1) |-> h[s]]
    OBVIOUS
  <2> HIDE DEF h
  <2>4. Upto(h, k + 1)
    BY <2>2, <2>3
  <2> HIDE DEF Upto
  <2>5. \E fun : Upto(fun, k + 1)
    BY <2>4
  <2> QED BY <2>5
<1>3. Cardinality(N) \in Nat
  BY FS_CardinalityType
<1>4. Cardinality(N) \in S
  <2>1. \A k \in 0 .. Cardinality(N) - 1 : k \in S => k + 1 \in S
    BY <1>2, <1>3
  <2> HIDE DEF S
  <2> QED BY <1>1, <1>3, <2>1, Upwards
<1>5. Small(Cardinality(N)) = SUBSET N
  BY FS_Subset
<1>6. \E f : Upto(f, Cardinality(N))
  BY <1>4
<1>7. \E f : f = FoldBody(kind, t, f)
  BY <1>5, <1>6 DEF FoldBody
<1> QED BY <1>7 DEF Fold

LEMMA FoldSteps ==
  ASSUME NEW kind, NEW t, IsFiniteSet(DOMAIN t)
  PROVE  /\ Fold(kind, t)[{}] = Start(kind)
         /\ \A s \in SUBSET DOMAIN t : s # {} =>
              Fold(kind, t)[s] = Joined(kind, t[Pick(s)], Fold(kind, t)[s \ {Pick(s)}])
<1> DEFINE f == Fold(kind, t)
           N == DOMAIN t
<1>1. f = FoldBody(kind, t, f)
  BY FoldDefined
<1> HIDE DEF f
<1>2. f = [s \in SUBSET N |->
             IF s = {} THEN Start(kind) ELSE Joined(kind, t[Pick(s)], f[s \ {Pick(s)}])]
  BY <1>1 DEF FoldBody
<1> HIDE DEF N
<1>3. f[{}] = Start(kind)
  BY <1>2
<1>4. ASSUME NEW s \in SUBSET N, s # {}
      PROVE  f[s] = Joined(kind, t[Pick(s)], f[s \ {Pick(s)}])
  BY <1>2, <1>4
<1> QED BY <1>3, <1>4 DEF f, N

LEMMA SumSteps ==
  ASSUME NEW t, IsFiniteSet(DOMAIN t)
  PROVE  /\ Fold("sum", t)[{}] = Zero
         /\ \A s \in SUBSET DOMAIN t : s # {} =>
              Fold("sum", t)[s] = Add(t[Pick(s)], Fold("sum", t)[s \ {Pick(s)}])
<1>1. /\ Fold("sum", t)[{}] = Start("sum")
      /\ \A s \in SUBSET DOMAIN t : s # {} =>
           Fold("sum", t)[s] = Joined("sum", t[Pick(s)], Fold("sum", t)[s \ {Pick(s)}])
  BY FoldSteps
<1> QED BY <1>1, Kinds

LEMMA ProductSteps ==
  ASSUME NEW t, IsFiniteSet(DOMAIN t)
  PROVE  /\ Fold("product", t)[{}] = Plain(1)
         /\ \A s \in SUBSET DOMAIN t : s # {} =>
              Fold("product", t)[s] = Times(t[Pick(s)], Fold("product", t)[s \ {Pick(s)}])
<1>1. /\ Fold("product", t)[{}] = Start("product")
      /\ \A s \in SUBSET DOMAIN t : s # {} =>
           Fold("product", t)[s] = Joined("product", t[Pick(s)], Fold("product", t)[s \ {Pick(s)}])
  BY FoldSteps
<1> QED BY <1>1, Kinds

LEMMA PlusSteps ==
  ASSUME NEW t, IsFiniteSet(DOMAIN t)
  PROVE  /\ Fold("plus", t)[{}] = 0
         /\ \A s \in SUBSET DOMAIN t : s # {} =>
              Fold("plus", t)[s] = t[Pick(s)] + Fold("plus", t)[s \ {Pick(s)}]
<1>1. /\ Fold("plus", t)[{}] = Start("plus")
      /\ \A s \in SUBSET DOMAIN t : s # {} =>
           Fold("plus", t)[s] = Joined("plus", t[Pick(s)], Fold("plus", t)[s \ {Pick(s)}])
  BY FoldSteps
<1> QED BY <1>1, Kinds

LEMMA TimesSteps ==
  ASSUME NEW t, IsFiniteSet(DOMAIN t)
  PROVE  /\ Fold("times", t)[{}] = 1
         /\ \A s \in SUBSET DOMAIN t : s # {} =>
              Fold("times", t)[s] = t[Pick(s)] * Fold("times", t)[s \ {Pick(s)}]
<1>1. /\ Fold("times", t)[{}] = Start("times")
      /\ \A s \in SUBSET DOMAIN t : s # {} =>
           Fold("times", t)[s] = Joined("times", t[Pick(s)], Fold("times", t)[s \ {Pick(s)}])
  BY FoldSteps
<1> QED BY <1>1, Kinds

\* A number with a fraction and an exponent of whatever kind.
Fraction(x) ==
  x = [num |-> x.num, den |-> x.den, exp |-> x.exp] /\ x.num \in Nat /\ x.den \in Nat

LEMMA PlainFraction == \A n \in Nat : Fraction(Plain(n))
BY DEF Plain, Fraction

LEMMA BalanceFraction ==
  ASSUME NEW x, Fraction(x)
  PROVE  Fraction(Balance(x))
<1> DEFINE new(y, z) == [y EXCEPT !.exp = z]
<1>1. ASSUME NEW y, Fraction(y), NEW z PROVE Fraction([y EXCEPT !.exp = z])
  <2>1. [y EXCEPT !.exp = z] = [num |-> y.num, den |-> y.den, exp |-> z]
    BY <1>1 DEF Fraction
  <2> QED BY <1>1, <2>1 DEF Fraction
<1> DEFINE up == IF (x.exp > 0 /\ CoefficientAtLeast(x, Base)) \/ CoefficientAtLeast(x, Limit)
                 THEN [x EXCEPT !.exp = x.exp + ExtraDigits(x)] ELSE x
<1>2. Fraction(up)
  BY <1>1
<1> HIDE DEF up
<1>3. \/ BalanceOnce(x) = [up EXCEPT !.exp = 0]
      \/ BalanceOnce(x) = [up EXCEPT !.exp = up.exp - MissingDigits(up)]
      \/ BalanceOnce(x) = up
  BY <1>2 DEF BalanceOnce, up, Fraction
<1>4. Fraction(BalanceOnce(x))
  BY <1>1, <1>2, <1>3
<1> QED BY <1>4 DEF Balance

LEMMA AddFraction ==
  ASSUME NEW x, NEW y, Fraction(x), Fraction(y)
  PROVE  Fraction(Add(x, y))
<1> DEFINE a == Balance(x)
           b == Balance(y)
           n == a.num * b.den + b.num * a.den
           d == a.den * b.den
           e == Larger(a.exp, b.exp)
<1>1. Fraction(a) /\ Fraction(b)
  BY BalanceFraction
<1>2. n \in Nat /\ d \in Nat
  BY <1>1 DEF Fraction
<1>3. Add(x, y) = Balance([num |-> n, den |-> d, exp |-> e])
  BY DEF Add
<1> HIDE DEF n, d, e
<1>4. Fraction([num |-> n, den |-> d, exp |-> e])
  BY <1>2 DEF Fraction
<1> QED BY <1>3, <1>4, BalanceFraction

LEMMA DivFraction ==
  ASSUME NEW x, Fraction(x), NEW n \in Nat
  PROVE  Fraction(Div(x, n))
<1>1. CASE n = 0
  BY <1>1, PlainFraction DEF Div, Zero
<1>2. CASE n # 0
  <2> DEFINE a == Balance(x)
             d == a.den * n
  <2>1. Fraction(a)
    BY BalanceFraction
  <2>2. d \in Nat
    BY <2>1 DEF Fraction
  <2>3. Div(x, n) = Balance([a EXCEPT !.den = a.den * n])
    BY <1>2, <2>1 DEF Div, Fraction
  <2> HIDE DEF a
  <2>4. [a EXCEPT !.den = a.den * n] = [num |-> a.num, den |-> d, exp |-> a.exp]
    BY <2>1 DEF Fraction
  <2> HIDE DEF d
  <2>5. Fraction([num |-> a.num, den |-> d, exp |-> a.exp])
    BY <2>1, <2>2 DEF Fraction
  <2> QED BY <2>3, <2>4, <2>5, BalanceFraction
<1> QED BY <1>1, <1>2

\* a table of the scores v
Table(v) == [p \in DOMAIN v |-> Plain(v[p])]

LEMMA TotalFraction ==
  ASSUME NEW N, IsFiniteSet(N), NEW v \in [N -> Nat]
  PROVE  Fraction(Total(Table(v)))
<1> DEFINE t == Table(v)
           f == Fold("sum", t)
           P == {s \in SUBSET N : Fraction(f[s])}
<1>1. DOMAIN t = N /\ \A p \in N : Fraction(t[p])
  BY PlainFraction DEF Table
<1> HIDE DEF t
<1>2. f[{}] = Zero
  BY <1>1, SumSteps
<1>3. \A s \in SUBSET N : s # {} => f[s] = Add(t[Pick(s)], f[s \ {Pick(s)}])
  BY <1>1, SumSteps
<1> HIDE DEF f
<1>4. {} \in P
  BY <1>2, PlainFraction DEF Zero
<1>5. ASSUME NEW s \in SUBSET N, s # {}, s \ {Pick(s)} \in P PROVE s \in P
  <2>1. Pick(s) \in N
    BY <1>5, WithoutPick
  <2>2. Fraction(f[s \ {Pick(s)}])
    BY <1>5
  <2>3. Fraction(f[s])
    BY <1>1, <1>3, <1>5, <2>1, <2>2, AddFraction
  <2> QED BY <2>3
<1> HIDE DEF P
<1>6. SUBSET N \subseteq P
  BY <1>4, <1>5, PickInduction
<1>7. N \in P
  BY <1>6
<1>8. Fraction(f[N])
  BY <1>7 DEF P
<1> QED BY <1>1, <1>8, TotalIsFold DEF f, t

\* A product grows with its factors.
LEMMA ProductGrows ==
  ASSUME NEW N, IsFiniteSet(N), NEW v \in [N -> Nat], NEW w \in [N -> Nat],
         \A p \in N : v[p] <= w[p]
  PROVE  \E m \in Nat, n \in Nat :
           Product(Table(v)) = Plain(m) /\ Product(Table(w)) = Plain(n) /\ m <= n
<1> DEFINE t == Table(v)
           u == Table(w)
           f == Fold("product", t)
           h == Fold("product", u)
           P == {s \in SUBSET N :
                    \E m \in Nat, n \in Nat : f[s] = Plain(m) /\ h[s] = Plain(n) /\ m <= n}
<1>1. /\ DOMAIN t = N /\ \A p \in N : t[p] = Plain(v[p])
      /\ DOMAIN u = N /\ \A p \in N : u[p] = Plain(w[p])
  BY DEF Table
<1> HIDE DEF t, u
<1>2. f[{}] = Plain(1) /\ h[{}] = Plain(1)
  BY <1>1, ProductSteps
<1>3. \A s \in SUBSET N : s # {} =>
         /\ f[s] = Times(t[Pick(s)], f[s \ {Pick(s)}])
         /\ h[s] = Times(u[Pick(s)], h[s \ {Pick(s)}])
  <2>1. \A s \in SUBSET N : s # {} => f[s] = Times(t[Pick(s)], f[s \ {Pick(s)}])
    BY <1>1, ProductSteps
  <2>2. \A s \in SUBSET N : s # {} => h[s] = Times(u[Pick(s)], h[s \ {Pick(s)}])
    BY <1>1, ProductSteps
  <2> HIDE DEF f, h
  <2> QED BY <2>1, <2>2
<1> HIDE DEF f, h
<1>4. {} \in P
  BY <1>2
<1>5. ASSUME NEW s \in SUBSET N, s # {}, s \ {Pick(s)} \in P PROVE s \in P
  <2> DEFINE x == Pick(s)
             r == s \ {Pick(s)}
  <2>1. x \in N
    BY <1>5, WithoutPick
  <2>2. PICK m \in Nat, n \in Nat : f[r] = Plain(m) /\ h[r] = Plain(n) /\ m <= n
    BY <1>5
  <2>3. f[s] = Times(Plain(v[x]), Plain(m)) /\ h[s] = Times(Plain(w[x]), Plain(n))
    BY <1>1, <1>3, <1>5, <2>1, <2>2
  <2>4. v[x] \in Nat /\ w[x] \in Nat /\ v[x] <= w[x]
    BY <2>1
  <2>5. \A i, j \in Nat : Times(Plain(i), Plain(j)) = Plain(i * j)
    BY DEF Times, Plain
  <2>6. \A i, j, k, l \in Nat :
          i <= j /\ k <= l => i * k <= j * l /\ i * k \in Nat /\ j * l \in Nat
    <3>1. \A i, j, k \in Nat : i <= j => i * k <= j * k /\ i * k \in Nat
      OBVIOUS
    <3>2. \A i, j, k \in Nat : i <= j => k * i <= k * j /\ k * i \in Nat
      OBVIOUS
    <3> SUFFICES ASSUME NEW i \in Nat, NEW j \in Nat, NEW k \in Nat, NEW l \in Nat,
                    i <= j, k <= l
                 PROVE  i * k <= j * l /\ i * k \in Nat /\ j * l \in Nat
      OBVIOUS
    <3>3. i * k <= j * k /\ i * k \in Nat
      BY <3>1
    <3>4. j * k <= j * l /\ j * k \in Nat /\ j * l \in Nat
      BY <3>2
    <3> QED BY <3>3, <3>4
  <2>7. /\ f[s] = Plain(v[x] * m) /\ h[s] = Plain(w[x] * n)
        /\ v[x] * m <= w[x] * n /\ v[x] * m \in Nat /\ w[x] * n \in Nat
    BY <2>2, <2>3, <2>4, <2>5, <2>6
  <2> QED BY <2>7
<1> HIDE DEF P
<1>6. SUBSET N \subseteq P
  BY <1>4, <1>5, PickInduction
<1>7. N \in P
  BY <1>6
<1>8. \E m \in Nat, n \in Nat : f[N] = Plain(m) /\ h[N] = Plain(n) /\ m <= n
  BY <1>7 DEF P
<1>9. Product(t) = f[N] /\ Product(u) = h[N]
  BY <1>1, ProductIsFold DEF f, h
<1> QED BY <1>8, <1>9 DEF t, u

------------------------------------------------------------------------------
(* Positions, and who wins *)

LEMMA BestExists ==
  ASSUME NEW N, IsFiniteSet(N), N # {}, NEW v \in [N -> Nat]
  PROVE  \E m \in N : \A f \in N : v[f] <= v[m]
<1> DEFINE P == {s \in SUBSET N : s = {} \/ \E m \in s : \A f \in s : v[f] <= v[m]}
<1>1. {} \in P
  OBVIOUS
<1>2. ASSUME NEW s \in SUBSET N, s # {}, s \ {Pick(s)} \in P PROVE s \in P
  <2> DEFINE x == Pick(s)
             r == s \ {x}
  <2>1. x \in s /\ x \in N /\ \A f \in s : f = x \/ f \in r
    BY <1>2, WithoutPick
  <2>2. r = {} \/ \E m \in r : \A f \in r : v[f] <= v[m]
    BY <1>2
  <2>3. r \subseteq s /\ r \subseteq N
    BY <1>2
  <2> HIDE DEF x, r
  <2>4. CASE r = {}
    <3>1. \A f \in s : v[f] <= v[x]
      BY <2>1, <2>4
    <3> QED BY <2>1, <3>1
  <2>5. ASSUME NEW m \in r, \A f \in r : v[f] <= v[m]
        PROVE  \E b \in s : \A f \in s : v[f] <= v[b]
    <3>1. m \in N /\ m \in s /\ v[m] \in Nat /\ v[x] \in Nat /\ \A f \in s : v[f] \in Nat
      BY <2>1, <2>3
    <3>2. CASE v[x] <= v[m]
      BY <2>1, <2>5, <3>1, <3>2
    <3>3. CASE v[m] <= v[x]
      BY <2>1, <2>3, <2>5, <3>1, <3>3
    <3> QED BY <3>1, <3>2, <3>3
  <2> QED BY <2>2, <2>4, <2>5
<1> HIDE DEF P
<1>3. N \in P
  BY <1>1, <1>2, PickInduction
<1> QED BY <1>3 DEF P

LEMMA SubsetSize ==
  ASSUME NEW N, IsFiniteSet(N), NEW s \in SUBSET N
  PROVE  Cardinality(s) \in Nat /\ (s # {} => Cardinality(s) > 0)
BY FS_Subset, FS_CardinalityType, FS_EmptySet

\* There is a score at every position.
LEMMA PositionExists ==
  ASSUME NEW N, IsFiniteSet(N), N # {}, NEW v \in [N -> Nat], NEW k \in 1 .. Cardinality(N)
  PROVE  \E e \in N : /\ Cardinality({f \in N : v[e] > v[f]}) < k
                      /\ Cardinality({f \in N : ~(v[f] > v[e])}) >= k
<1> DEFINE Upto(x) == {f \in N : v[f] <= x}
           T == {x \in Nat : Cardinality(Upto(x)) >= k}
<1>0. k \in Nat /\ k > 0 /\ Cardinality(N) \in Nat /\ k <= Cardinality(N)
  BY FS_CardinalityType
<1>1. T # {} /\ T \subseteq Nat
  <2>1. PICK m \in N : \A f \in N : v[f] <= v[m]
    BY BestExists
  <2>2. Upto(v[m]) = N
    BY <2>1
  <2>3. v[m] \in T
    BY <1>0, <2>2
  <2> QED BY <2>3
<1>2. PICK x \in T : \A y \in T : x <= y
  <2> HIDE DEF T
  <2> QED BY <1>1, Smallest
<1>3. x \in Nat /\ Cardinality(Upto(x)) >= k
  OBVIOUS
<1> DEFINE Below == {f \in N : v[f] < x}
<1>4. Cardinality(Below) < k
  <2>1. CASE x = 0
    <3>1. Below = {}
      BY <2>1
    <3> QED BY <1>0, <3>1, FS_EmptySet
  <2>2. CASE x # 0
    <3>1. x - 1 \in Nat /\ ~(x <= x - 1)
      BY <1>3, <2>2
    <3>2. ~(Cardinality(Upto(x - 1)) >= k)
      BY <1>2, <3>1
    <3>3. Below = Upto(x - 1)
      BY <1>3, <3>1
    <3>4. Cardinality(Below) \in Nat
      BY SubsetSize
    <3> QED BY <1>0, <3>2, <3>3, <3>4
  <2> QED BY <2>1, <2>2
<1>5. PICK e \in N : v[e] = x
  <2> SUFFICES ASSUME \A e \in N : v[e] # x PROVE FALSE
    OBVIOUS
  <2>1. Below = Upto(x)
    BY <1>3
  <2> QED BY <1>0, <1>3, <1>4, <2>1, SubsetSize
<1>6. {f \in N : v[e] > v[f]} = Below
  BY <1>3, <1>5
<1>7. {f \in N : ~(v[f] > v[e])} = Upto(x)
  BY <1>3, <1>5
<1> QED BY <1>3, <1>4, <1>6, <1>7

LEMMA OverTable ==
  ASSUME NEW N, NEW v \in [N -> Nat], NEW e \in N, NEW f \in N
  PROVE  Over(Table(v), e, f) <=> v[e] > v[f]
BY DEF Over, Table, Plain, GreaterThan

\* x is the score at position k of the scores v in ascending order
IsScoreAt(v, k, x) ==
  /\ Cardinality({f \in DOMAIN v : x > v[f]}) < k
  /\ Cardinality({f \in DOMAIN v : ~(v[f] > x)}) >= k

LEMMA AtPositionScore ==
  ASSUME NEW N, IsFiniteSet(N), N # {}, NEW v \in [N -> Nat], NEW k \in 1 .. Cardinality(N)
  PROVE  \E q \in N : AtPosition(Table(v), k) = Plain(v[q]) /\ IsScoreAt(v, k, v[q])
<1> DEFINE t == Table(v)
           There(e) == /\ Cardinality({f \in N : Over(t, e, f)}) < k
                       /\ Cardinality({f \in N : ~Over(t, f, e)}) >= k
           q == CHOOSE e \in N : There(e)
<1>1. DOMAIN t = N /\ \A p \in N : t[p] = Plain(v[p])
  BY DEF Table
<1>2. \A e \in N : /\ {f \in N : Over(t, e, f)} = {f \in N : v[e] > v[f]}
                   /\ {f \in N : ~Over(t, f, e)} = {f \in N : ~(v[f] > v[e])}
  BY OverTable
<1>3. \E e \in N : There(e)
  <2>1. PICK e \in N : /\ Cardinality({f \in N : v[e] > v[f]}) < k
                       /\ Cardinality({f \in N : ~(v[f] > v[e])}) >= k
    BY PositionExists
  <2>2. There(e)
    BY <1>2, <2>1
  <2> HIDE DEF There
  <2> QED BY <2>2
<1>4. q \in N /\ There(q)
  BY <1>3
<1>5. AtPosition(t, k) = t[q]
  BY <1>1 DEF AtPosition
<1>6. IsScoreAt(v, k, v[q])
  BY <1>2, <1>4 DEF IsScoreAt
<1> QED BY <1>1, <1>4, <1>5, <1>6

LEMMA HigherScore ==
  ASSUME NEW x, Fraction(x), NEW m \in Nat, NEW n \in Nat,
         GreaterThan(Plain(m), x), ~GreaterThan(Plain(n), x)
  PROVE  n < m
<1>1. x.num \in Nat /\ x.den \in Nat
  BY DEF Fraction
<1>2. m * x.den > x.num * 1 /\ ~(n * x.den > x.num * 1)
  BY DEF GreaterThan, Plain
<1> SUFFICES ASSUME m <= n PROVE FALSE
  OBVIOUS
<1>3. \A d \in Nat : m * d <= n * d /\ m * d \in Nat /\ n * d \in Nat
  OBVIOUS
<1> QED BY <1>1, <1>2, <1>3

\* Who beats the target of a rule has a higher score than who does not.
LEMMA TargetIsThreshold ==
  ASSUME NEW N, IsFiniteSet(N), N # {}, NEW v \in [N -> Nat], NEW rule,
         NEW e \in N, NEW p \in N,
         BeatsTarget(rule, Table(v), e), ~BeatsTarget(rule, Table(v), p)
  PROVE  v[e] > v[p]
<1> DEFINE t == Table(v)
<1>1. DOMAIN t = N /\ t[e] = Plain(v[e]) /\ t[p] = Plain(v[p])
  BY DEF Table
<1>2. v[e] \in Nat /\ v[p] \in Nat
  OBVIOUS
<1>3. Cardinality(N) \in Nat /\ Cardinality(N) > 0
  BY FS_CardinalityType, FS_EmptySet
<1>4. CASE rule = "average"
  <2>1. GreaterThan(Plain(v[e]), Average(t)) /\ ~GreaterThan(Plain(v[p]), Average(t))
    BY <1>1, <1>4 DEF BeatsTarget
  <2>2. Fraction(Average(t))
    BY <1>1, <1>3, TotalFraction, DivFraction DEF Average
  <2> QED BY <1>2, <2>1, <2>2, HigherScore
<1>5. CASE rule = "median"
  <2>1. GreaterThan(Plain(v[e]), Median(t)) /\ ~GreaterThan(Plain(v[p]), Median(t))
    BY <1>1, <1>5 DEF BeatsTarget
  <2>2. \A k \in 1 .. Cardinality(N) : Fraction(AtPosition(t, k))
    <3>1. ASSUME NEW k \in 1 .. Cardinality(N) PROVE Fraction(AtPosition(t, k))
      <4>1. PICK q \in N : AtPosition(t, k) = Plain(v[q])
        BY AtPositionScore
      <4> QED BY <4>1, PlainFraction
    <3> QED BY <3>1
  <2>3. Fraction(Median(t))
    <3> DEFINE n == Cardinality(N)
    <3>1. CASE n % 2 = 1
      <4>1. n \div 2 + 1 \in 1 .. n
        BY <1>3, <3>1
      <4> QED BY <1>1, <2>2, <3>1, <4>1 DEF Median
    <3>2. CASE n % 2 # 1
      <4>1. n \div 2 + 1 \in 1 .. n /\ n \div 2 \in 1 .. n
        BY <1>3, <3>2
      <4> QED BY <1>1, <2>2, <3>2, <4>1, AddFraction, DivFraction DEF Median
    <3> QED BY <3>1, <3>2
  <2> QED BY <1>2, <2>1, <2>3, HigherScore
<1>6. CASE rule = "geometric"
  <2>1. OverGeometricMean(t, e) /\ ~OverGeometricMean(t, p)
    BY <1>6 DEF BeatsTarget
  <2>2. CASE \E f \in N : ~GreaterThan(t[f], Zero)
    <3>1. GreaterThan(Plain(v[e]), Zero) /\ ~GreaterThan(Plain(v[p]), Zero)
      BY <1>1, <2>1, <2>2 DEF OverGeometricMean
    <3> QED BY <1>2, <3>1, HigherScore, PlainFraction DEF Zero
  <2>3. CASE ~ \E f \in N : ~GreaterThan(t[f], Zero)
    <3> DEFINE Own(q) == [f \in N |-> v[q]]
    <3>1. ASSUME NEW q \in N PROVE [f \in DOMAIN t |-> t[q]] = Table(Own(q))
      BY <1>1 DEF Table
    <3>2. /\ GreaterThan(Product(Table(Own(e))), Product(t))
          /\ ~GreaterThan(Product(Table(Own(p))), Product(t))
      BY <1>1, <2>1, <2>3, <3>1 DEF OverGeometricMean
    <3> SUFFICES ASSUME v[e] <= v[p] PROVE FALSE
      BY <1>2
    <3>3. Own(e) \in [N -> Nat] /\ Own(p) \in [N -> Nat] /\ \A f \in N : Own(e)[f] <= Own(p)[f]
      BY <1>2
    <3>4. PICK m \in Nat, n \in Nat :
             Product(Table(Own(e))) = Plain(m) /\ Product(Table(Own(p))) = Plain(n) /\ m <= n
      <4> HIDE DEF Own
      <4> QED BY <3>3, ProductGrows
    <3>5. PICK i \in Nat, j \in Nat : Product(t) = Plain(i)
      <4>1. \A f \in N : v[f] <= v[f]
        OBVIOUS
      <4> QED BY <4>1, ProductGrows
    <3>6. n < m
      BY <3>2, <3>4, <3>5, HigherScore, PlainFraction
    <3> QED BY <3>4, <3>6
  <2> QED BY <2>2, <2>3 DEF Table
<1> QED BY <1>4, <1>5, <1>6 DEF BeatsTarget

\* Whatever the rule, the number of entries and their scores, who does not win a blind
\* was beaten by somebody: no mean or median, rounded and rescaled as InsaneInt does it,
\* exceeds every score, and no cutoff leaves out an entry with the best score.
THEOREM LosersAreBeaten ==
  ASSUME NEW N, IsFiniteSet(N), N # {}, NEW v \in [N -> Nat], NEW rule,
         NEW count \in 1 .. Cardinality(N), NEW p \in N,
         p \notin Winners(rule, Table(v), count)
  PROVE  \E q \in N : v[q] > v[p]
<1> DEFINE t == Table(v)
<1>1. DOMAIN t = N /\ \A f \in N : t[f] = Plain(v[f]) /\ v[f] \in Nat
  BY DEF Table
<1>2. Cardinality(N) \in Nat
  BY FS_CardinalityType
<1> DEFINE over == {e \in N : BeatsTarget(rule, t, e)}
<1>3. CASE rule = "custom"
  <2> DEFINE k == Cardinality(N) + 1 - count
  <2>1. k \in 1 .. Cardinality(N)
    BY <1>2
  <2>2. LessThan(t[p], AtPosition(t, k))
    BY <1>1, <1>3 DEF Winners, Cutoff
  <2>3. PICK q \in N : AtPosition(t, k) = Plain(v[q])
    BY <2>1, AtPositionScore
  <2>4. LessThan(Plain(v[p]), Plain(v[q]))
    BY <1>1, <2>2, <2>3
  <2>5. v[p] < v[q]
    BY <1>1, <2>4 DEF LessThan, EqualTo, GreaterThan, Plain
  <2> QED BY <1>1, <2>5
<1>4. CASE rule # "custom" /\ over # {}
  <2>1. PICK e \in N : BeatsTarget(rule, t, e)
    BY <1>4
  <2>2. ~BeatsTarget(rule, t, p)
    BY <1>1, <1>4 DEF Winners
  <2> QED BY <2>1, <2>2, TargetIsThreshold
<1>5. CASE rule # "custom" /\ over = {}
  <2>1. p \notin Highest(t)
    BY <1>1, <1>5 DEF Winners
  <2>2. PICK f \in N : Over(t, f, p)
    BY <1>1, <2>1 DEF Highest
  <2> QED BY <2>2, OverTable
<1> QED BY <1>3, <1>4, <1>5

LEMMA WinnerCountInRange ==
  ASSUME NEW n \in Nat, n > 0, NEW c \in Nat, NEW m \in Nat
  PROVE  WinnerCount(n, c, m) \in 1 .. n
BY DEF WinnerCount, Larger, Smaller

\* A resolved blind has a winner by every rule.
THEOREM SomebodyWins ==
  ASSUME NEW N, IsFiniteSet(N), N # {}, NEW v \in [N -> Nat], NEW rule,
         NEW count \in 1 .. Cardinality(N)
  PROVE  Winners(rule, Table(v), count) # {}
<1> DEFINE t == Table(v)
           over == {e \in N : BeatsTarget(rule, t, e)}
<1>1. DOMAIN t = N /\ \A f \in N : t[f] = Plain(v[f]) /\ v[f] \in Nat
  BY DEF Table
<1>2. CASE rule = "custom"
  <2> DEFINE k == Cardinality(N) + 1 - count
  <2>1. k \in 1 .. Cardinality(N)
    BY FS_CardinalityType
  <2>2. PICK q \in N : AtPosition(t, k) = Plain(v[q])
    BY <2>1, AtPositionScore
  <2>3. ~LessThan(t[q], Cutoff(t, count))
    BY <1>1, <2>2 DEF Cutoff, LessThan, EqualTo
  <2> QED BY <1>1, <1>2, <2>3 DEF Winners
<1>3. CASE rule # "custom" /\ over # {}
  BY <1>1, <1>3 DEF Winners
<1>4. CASE rule # "custom" /\ over = {}
  <2>1. PICK m \in N : \A f \in N : v[f] <= v[m]
    BY BestExists
  <2>2. \A f \in N : ~Over(t, f, m)
    BY <1>1, <2>1, OverTable
  <2>3. m \in Highest(t)
    BY <1>1, <2>2 DEF Highest
  <2> QED BY <1>1, <1>4, <2>3 DEF Winners
<1> QED BY <1>2, <1>3, <1>4

------------------------------------------------------------------------------
(* Exact arithmetic: what the numbers and folds of the code come to *)

\* A number with a fraction and an exponent.
Exact(x) == Fraction(x) /\ x.exp \in Nat

LEMMA PlainExact ==
  \A n \in Nat : Exact(Plain(n)) /\ Plain(n).num = n /\ Plain(n).den = 1 /\ Plain(n).exp = 0
BY DEF Plain, Exact, Fraction

\* Balancing changes the exponent only.
LEMMA BalanceKeeps ==
  ASSUME NEW x, Exact(x)
  PROVE  Exact(Balance(x)) /\ Balance(x).num = x.num /\ Balance(x).den = x.den
<1> DEFINE Same(y) == Exact(y) /\ y.num = x.num /\ y.den = x.den
<1>1. ASSUME NEW y, Same(y), NEW z \in Nat PROVE Same([y EXCEPT !.exp = z])
  <2>1. [y EXCEPT !.exp = z] = [num |-> y.num, den |-> y.den, exp |-> z]
    BY <1>1 DEF Exact, Fraction
  <2> QED BY <1>1, <2>1 DEF Exact, Fraction
<1> DEFINE up == IF (x.exp > 0 /\ CoefficientAtLeast(x, Base)) \/ CoefficientAtLeast(x, Limit)
                 THEN [x EXCEPT !.exp = x.exp + ExtraDigits(x)] ELSE x
<1>2. ExtraDigits(x) \in Nat
  <2>1. x.num \in Nat
    BY DEF Exact, Fraction
  <2>2. IsFiniteSet(1 .. x.num)
    BY <2>1, FS_Interval
  <2> QED BY <2>2, FS_Subset, FS_CardinalityType DEF ExtraDigits
<1>3. Same(x)
  OBVIOUS
<1>4. x.exp + ExtraDigits(x) \in Nat
  BY <1>2 DEF Exact
<1> HIDE DEF Same
<1>5. Same(up)
  BY <1>1, <1>3, <1>4
<1> HIDE DEF up
<1>6. up.num = x.num /\ up.exp \in Nat
  BY <1>5 DEF Same, Exact
<1>7. up.exp > 0 => up.exp - MissingDigits(up) \in Nat
  <2> SUFFICES ASSUME up.exp > 0 PROVE up.exp - MissingDigits(up) \in Nat
    OBVIOUS
  <2> DEFINE short == Cardinality({k \in 0 .. up.exp - 1 : up.num * Base^k < up.den * Scale(up)})
  <2>1. IsFiniteSet(0 .. up.exp - 1)
    <3>1. 0 \in Int /\ up.exp - 1 \in Int
      BY <1>6
    <3> QED BY <3>1, FS_Interval
  <2>2. short \in Nat
    BY <2>1, FS_Subset, FS_CardinalityType
  <2>3. MissingDigits(up) = IF short >= up.exp THEN up.exp - 1 ELSE short
    BY DEF MissingDigits
  <2> HIDE DEF short
  <2> QED BY <1>6, <2>2, <2>3
<1>8. \/ BalanceOnce(x) = [up EXCEPT !.exp = 0]
      \/ up.exp > 0 /\ BalanceOnce(x) = [up EXCEPT !.exp = up.exp - MissingDigits(up)]
      \/ BalanceOnce(x) = up
  BY <1>5 DEF BalanceOnce, up, Same, Exact, Fraction
<1>9. Same(BalanceOnce(x))
  BY <1>1, <1>5, <1>7, <1>8
<1>10. Same(Balance(x))
  BY <1>3, <1>9 DEF Balance
<1> QED BY <1>10 DEF Same

\* A number below the limit that is in plain form stays in plain form.
LEMMA BalancePlain ==
  ASSUME NEW x, Exact(x), x.exp = 0, x.num < Limit * x.den
  PROVE  Balance(x) = x
<1>1. x.num \in Nat /\ x.den \in Nat /\ Limit \in Nat
  BY InsaneIntAssumption DEF Exact, Fraction
<1>2. Scale(x) = 1
  BY DEF Scale
<1>3. Limit * x.den \in Nat
  BY <1>1
<1>4. ~CoefficientAtLeast(x, Limit)
  BY <1>1, <1>2, <1>3 DEF CoefficientAtLeast
<1>5. IsBalanced(x)
  BY <1>4 DEF IsBalanced
<1> QED BY <1>5 DEF Balance

LEMMA AddExact ==
  ASSUME NEW x, NEW y, Exact(x), Exact(y), x.den = 1, y.den = 1
  PROVE  /\ Exact(Add(x, y)) /\ Add(x, y).num = x.num + y.num /\ Add(x, y).den = 1
         /\ x = Plain(x.num) /\ y = Plain(y.num) /\ x.num + y.num < Limit =>
              Add(x, y) = Plain(x.num + y.num)
<1> DEFINE a == Balance(x)
           b == Balance(y)
           n == a.num * b.den + b.num * a.den
           d == a.den * b.den
           e == Larger(a.exp, b.exp)
           z == [num |-> n, den |-> d, exp |-> e]
<1>1. Exact(a) /\ Exact(b) /\ a.num = x.num /\ b.num = y.num /\ a.den = 1 /\ b.den = 1
  BY BalanceKeeps
<1>2. x.num \in Nat /\ y.num \in Nat /\ a.exp \in Nat /\ b.exp \in Nat /\ Limit \in Nat
  BY <1>1, InsaneIntAssumption DEF Exact, Fraction
<1> HIDE DEF a, b
<1>3. n = x.num + y.num /\ d = 1 /\ n \in Nat /\ e \in Nat
  BY <1>1, <1>2 DEF Larger
<1>4. Add(x, y) = Balance(z)
  BY DEF Add, a, b
<1> HIDE DEF n, d, e
<1>5. Exact(z) /\ z.num = x.num + y.num /\ z.den = 1 /\ z.exp = e
  BY <1>3 DEF Exact, Fraction
<1>6. ASSUME x = Plain(x.num), y = Plain(y.num), x.num + y.num < Limit
      PROVE  Balance(z) = Plain(x.num + y.num)
  <2>1. x.exp = 0 /\ y.exp = 0 /\ x.num < Limit * x.den /\ y.num < Limit * y.den
    BY <1>2, <1>6 DEF Plain
  <2>2. a = x /\ b = y
    BY <2>1, BalancePlain DEF a, b
  <2>3. e = 0
    BY <2>1, <2>2 DEF e, Larger
  <2>4. z.num < Limit * z.den
    BY <1>2, <1>5, <1>6
  <2>5. Balance(z) = z
    BY <1>5, <2>3, <2>4, BalancePlain
  <2> QED BY <1>3, <2>3, <2>5 DEF Plain
<1> HIDE DEF z
<1> QED BY <1>4, <1>5, <1>6, BalanceKeeps

\* Divided by a plain number, the numerator stays.
LEMMA DivExact ==
  ASSUME NEW x, Exact(x), x.den = 1, NEW n \in Nat, n > 0
  PROVE  /\ Exact(Div(x, n)) /\ Div(x, n).num = x.num /\ Div(x, n).den = n
         /\ x = Plain(x.num) /\ x.num < Limit => Div(x, n).exp = 0
<1> DEFINE a == Balance(x)
           z == [num |-> a.num, den |-> n, exp |-> a.exp]
<1>1. Exact(a) /\ a.num = x.num /\ a.den = 1
  BY BalanceKeeps
<1>2. x.num \in Nat /\ a.exp \in Nat /\ Limit \in Nat
  BY <1>1, InsaneIntAssumption DEF Exact, Fraction
<1>3. Div(x, n) = Balance([a EXCEPT !.den = a.den * n])
  BY <1>1 DEF Div, Exact, Fraction
<1> HIDE DEF a
<1>4. [a EXCEPT !.den = a.den * n] = z
  BY <1>1 DEF Exact, Fraction
<1>5. Exact(z) /\ z.num = x.num /\ z.den = n /\ z.exp = a.exp
  BY <1>1, <1>2 DEF Exact, Fraction
<1>6. ASSUME x = Plain(x.num), x.num < Limit PROVE Balance(z).exp = 0
  <2>1. x.exp = 0 /\ x.num < Limit * x.den
    BY <1>2, <1>6 DEF Plain
  <2>2. z.exp = 0
    BY <1>5, <2>1, BalancePlain DEF a
  <2>3. z.num < Limit * z.den
    <3>1. \A l, k \in Nat : k > 0 => l <= l * k /\ l * k \in Nat
      OBVIOUS
    <3>2. Limit <= Limit * n /\ Limit * n \in Nat
      BY <1>2, <3>1
    <3> HIDE DEF z
    <3> QED BY <1>2, <1>5, <1>6, <3>2
  <2> QED BY <1>5, <2>2, <2>3, BalancePlain
<1> HIDE DEF z
<1> QED BY <1>3, <1>4, <1>5, <1>6, BalanceKeeps

\* A plain score exceeds a number in plain form only, and then as it should.
LEMMA OverExact ==
  ASSUME NEW s \in Nat, NEW x, Exact(x)
  PROVE  GreaterThan(Plain(s), x) <=> x.exp = 0 /\ s * x.den > x.num
<1>1. x.num \in Nat /\ x.den \in Nat /\ x.exp \in Nat /\ s * x.den \in Nat
  BY DEF Exact, Fraction
<1>2. Plain(s).num = s /\ Plain(s).den = 1 /\ Plain(s).exp = 0
  BY PlainExact
<1>3. x.num * 1 = x.num
  BY <1>1
<1>4. CASE x.exp = 0
  BY <1>2, <1>3, <1>4 DEF GreaterThan
<1>5. CASE x.exp # 0
  BY <1>1, <1>2, <1>5 DEF GreaterThan
<1> QED BY <1>4, <1>5

LEMMA SumExact ==
  ASSUME NEW N, IsFiniteSet(N), NEW v \in [N -> Nat]
  PROVE  /\ SumOf(v) \in Nat
         /\ Exact(Total(Table(v))) /\ Total(Table(v)).num = SumOf(v) /\ Total(Table(v)).den = 1
         /\ SumOf(v) < Limit => Total(Table(v)) = Plain(SumOf(v))
<1> DEFINE t == Table(v)
           f == Fold("sum", t)
           h == Fold("plus", v)
           P == {s \in SUBSET N :
                    /\ h[s] \in Nat /\ Exact(f[s]) /\ f[s].num = h[s] /\ f[s].den = 1
                    /\ h[s] < Limit => f[s] = Plain(h[s])}
<1>1. DOMAIN t = N /\ DOMAIN v = N /\ \A p \in N : t[p] = Plain(v[p]) /\ v[p] \in Nat
  BY DEF Table
<1> HIDE DEF t
<1>2. f[{}] = Zero
  BY <1>1, SumSteps
<1>3. h[{}] = 0
  BY <1>1, PlusSteps
<1>4. \A s \in SUBSET N : s # {} => f[s] = Add(t[Pick(s)], f[s \ {Pick(s)}])
  BY <1>1, SumSteps
<1>5. \A s \in SUBSET N : s # {} => h[s] = v[Pick(s)] + h[s \ {Pick(s)}]
  BY <1>1, PlusSteps
<1> HIDE DEF f, h
<1>6. {} \in P
  BY <1>2, <1>3, PlainExact DEF Zero
<1>7. ASSUME NEW s \in SUBSET N, s # {}, s \ {Pick(s)} \in P PROVE s \in P
  <2> DEFINE x == Pick(s)
             r == s \ {x}
             n == v[x]
  <2>1. x \in N
    BY <1>7, WithoutPick
  <2>2. /\ h[r] \in Nat /\ Exact(f[r]) /\ f[r].num = h[r] /\ f[r].den = 1
        /\ h[r] < Limit => f[r] = Plain(h[r])
    BY <1>7
  <2>3. n \in Nat /\ h[s] = n + h[r] /\ f[s] = Add(Plain(n), f[r])
    BY <1>1, <1>4, <1>5, <1>7, <2>1
  <2> HIDE DEF x, r, n
  <2>4. Exact(Plain(n)) /\ Plain(n).num = n /\ Plain(n).den = 1
    BY <2>3, PlainExact
  <2>5. /\ Exact(Add(Plain(n), f[r])) /\ Add(Plain(n), f[r]).num = n + h[r]
        /\ Add(Plain(n), f[r]).den = 1
        /\ f[r] = Plain(h[r]) /\ n + h[r] < Limit => Add(Plain(n), f[r]) = Plain(n + h[r])
    BY <2>2, <2>4, AddExact
  <2>6. h[s] \in Nat /\ (h[s] < Limit => h[r] < Limit)
    BY <2>2, <2>3, InsaneIntAssumption
  <2> QED BY <2>2, <2>3, <2>5, <2>6
<1> HIDE DEF P
<1>8. N \in P
  BY <1>6, <1>7, PickInduction
<1>9. Total(t) = f[N] /\ SumOf(v) = h[N]
  BY <1>1, TotalIsFold, SumIsFold DEF f, h
<1> QED BY <1>8, <1>9 DEF P, t

\* A sum is no less than one of its terms, or two, and grows with them.
LEMMA SumGrows ==
  ASSUME NEW N, IsFiniteSet(N), NEW v \in [N -> Nat], NEW w \in [N -> Nat],
         \A p \in N : v[p] <= w[p]
  PROVE  /\ SumOf(v) <= SumOf(w)
         /\ \A p, q \in N : p # q => v[p] + v[q] <= SumOf(v)
<1> DEFINE f == Fold("plus", v)
           h == Fold("plus", w)
           Below(s) == /\ f[s] \in Nat /\ h[s] \in Nat /\ f[s] <= h[s]
                       /\ \A p \in s : v[p] <= f[s]
                       /\ \A p, q \in s : p # q => v[p] + v[q] <= f[s]
           P == {s \in SUBSET N : Below(s)}
<1>1. DOMAIN v = N /\ DOMAIN w = N /\ \A p \in N : v[p] \in Nat /\ w[p] \in Nat
  OBVIOUS
<1>2. f[{}] = 0 /\ h[{}] = 0
  BY <1>1, PlusSteps
<1>3. \A s \in SUBSET N : s # {} => f[s] = v[Pick(s)] + f[s \ {Pick(s)}]
  BY <1>1, PlusSteps
<1>4. \A s \in SUBSET N : s # {} => h[s] = w[Pick(s)] + h[s \ {Pick(s)}]
  BY <1>1, PlusSteps
<1> HIDE DEF f, h
<1>5. {} \in P
  BY <1>2
<1>6. ASSUME NEW s \in SUBSET N, s # {}, s \ {Pick(s)} \in P PROVE s \in P
  <2> DEFINE x == Pick(s)
             r == s \ {x}
  <2>1. x \in N /\ x \in s /\ r \subseteq s /\ \A p \in s : p # x => p \in r
    BY <1>6, WithoutPick
  <2>2. Below(r)
    BY <1>6
  <2>3. f[s] = v[x] + f[r] /\ h[s] = w[x] + h[r]
    BY <1>3, <1>4, <1>6
  <2> HIDE DEF x, r
  <2>4. v[x] \in Nat /\ w[x] \in Nat /\ v[x] <= w[x] /\ f[r] \in Nat /\ h[r] \in Nat /\ f[r] <= h[r]
    BY <1>1, <2>1, <2>2
  <2>5. f[s] \in Nat /\ h[s] \in Nat /\ f[s] <= h[s] /\ v[x] <= f[s] /\ f[r] <= f[s]
    BY <2>3, <2>4
  <2>6. \A p \in s : v[p] <= f[s]
    BY <1>1, <2>1, <2>2, <2>5
  <2>7. ASSUME NEW p \in s, NEW q \in s, p # q PROVE v[p] + v[q] <= f[s]
    <3>1. v[p] \in Nat /\ v[q] \in Nat
      BY <1>1
    <3>2. CASE p = x
      BY <2>1, <2>2, <2>3, <2>4, <2>7, <3>1, <3>2
    <3>3. CASE q = x
      BY <2>1, <2>2, <2>3, <2>4, <2>7, <3>1, <3>3
    <3>4. CASE p # x /\ q # x
      BY <2>1, <2>2, <2>4, <2>5, <2>7, <3>1, <3>4
    <3> QED BY <3>2, <3>3, <3>4
  <2> QED BY <2>5, <2>6, <2>7
<1>7. N \in P
  <2> HIDE DEF P
  <2> QED BY <1>5, <1>6, PickInduction
<1>8. SumOf(v) = f[N] /\ SumOf(w) = h[N]
  BY <1>1, SumIsFold DEF f, h
<1> QED BY <1>7, <1>8

\* The product is that of exact arithmetic, and zero if and only if a factor is.
LEMMA ProductExact ==
  ASSUME NEW N, IsFiniteSet(N), NEW v \in [N -> Nat]
  PROVE  /\ ProductOf(v) \in Nat /\ Product(Table(v)) = Plain(ProductOf(v))
         /\ ProductOf(v) = 0 <=> \E p \in N : v[p] = 0
<1> DEFINE t == Table(v)
           f == Fold("product", t)
           h == Fold("times", v)
           P == {s \in SUBSET N : /\ h[s] \in Nat /\ f[s] = Plain(h[s])
                                  /\ h[s] = 0 <=> \E p \in s : v[p] = 0}
<1>1. DOMAIN t = N /\ DOMAIN v = N /\ \A p \in N : t[p] = Plain(v[p]) /\ v[p] \in Nat
  BY DEF Table
<1> HIDE DEF t
<1>2. f[{}] = Plain(1)
  BY <1>1, ProductSteps
<1>3. h[{}] = 1
  BY <1>1, TimesSteps
<1>4. \A s \in SUBSET N : s # {} => f[s] = Times(t[Pick(s)], f[s \ {Pick(s)}])
  BY <1>1, ProductSteps
<1>5. \A s \in SUBSET N : s # {} => h[s] = v[Pick(s)] * h[s \ {Pick(s)}]
  BY <1>1, TimesSteps
<1> HIDE DEF f, h
<1>6. {} \in P
  BY <1>2, <1>3
<1>7. ASSUME NEW s \in SUBSET N, s # {}, s \ {Pick(s)} \in P PROVE s \in P
  <2> DEFINE x == Pick(s)
             r == s \ {x}
             n == v[x]
  <2>1. x \in N /\ x \in s /\ \A p \in s : p = x \/ p \in r
    BY <1>7, WithoutPick
  <2>2. h[r] \in Nat /\ f[r] = Plain(h[r]) /\ (h[r] = 0 <=> \E p \in r : v[p] = 0)
    BY <1>7
  <2>3. n \in Nat /\ h[s] = n * h[r] /\ f[s] = Times(Plain(n), Plain(h[r]))
    BY <1>1, <1>4, <1>5, <1>7, <2>1, <2>2
  <2>4. \A i, j \in Nat : Times(Plain(i), Plain(j)) = Plain(i * j)
    BY DEF Times, Plain
  <2>5. \A i, j \in Nat : i * j \in Nat /\ (i * j = 0 <=> i = 0 \/ j = 0)
    OBVIOUS
  <2>6. h[s] \in Nat /\ f[s] = Plain(h[s]) /\ (h[s] = 0 <=> n = 0 \/ h[r] = 0)
    BY <2>2, <2>3, <2>4, <2>5
  <2> QED BY <2>1, <2>2, <2>6
<1> HIDE DEF P
<1>8. N \in P
  BY <1>6, <1>7, PickInduction
<1>9. Product(t) = f[N] /\ ProductOf(v) = h[N]
  BY <1>1, ProductIsFold, ProductOfIsFold DEF f, h
<1> QED BY <1>8, <1>9 DEF P, t

------------------------------------------------------------------------------
(* The score at a position, and the median *)

\* The score at a position does not fall when scores grow.
LEMMA ScoreAtGrows ==
  ASSUME NEW N, IsFiniteSet(N), NEW v \in [N -> Nat], NEW w \in [N -> Nat],
         \A p \in N : v[p] <= w[p],
         NEW k \in Nat, NEW x \in Nat, NEW y \in Nat, IsScoreAt(v, k, x), IsScoreAt(w, k, y)
  PROVE  x <= y
<1> SUFFICES ASSUME y < x PROVE FALSE
  OBVIOUS
<1> DEFINE under == {f \in N : ~(w[f] > y)}
           below == {f \in N : x > v[f]}
<1>1. Cardinality(under) >= k /\ Cardinality(below) < k
  BY DEF IsScoreAt
<1>2. under \subseteq below
  <2>1. ASSUME NEW f \in N, ~(w[f] > y) PROVE x > v[f]
    <3>1. v[f] \in Nat /\ w[f] \in Nat /\ v[f] <= w[f]
      OBVIOUS
    <3> QED BY <2>1, <3>1
  <2> QED BY <2>1
<1>3. IsFiniteSet(below) /\ below \in SUBSET N /\ under \in SUBSET N
  BY FS_Subset
<1>4. Cardinality(under) \in Nat /\ Cardinality(below) \in Nat
  BY <1>3, SubsetSize
<1> HIDE DEF under, below
<1>5. Cardinality(under) <= Cardinality(below)
  BY <1>2, <1>3, FS_Subset
<1> QED BY <1>1, <1>4, <1>5

\* Between two finite sets there are sets of every size between theirs.
LEMMA SetOfSize ==
  ASSUME NEW U, IsFiniteSet(U), NEW L \in SUBSET U, NEW k \in Nat,
         Cardinality(L) <= k, k <= Cardinality(U)
  PROVE  \E A \in SUBSET U : L \subseteq A /\ Cardinality(A) = k
<1> DEFINE l == Cardinality(L)
           S == {j \in Nat : l + j <= k => \E A \in SUBSET U : L \subseteq A /\ Cardinality(A) = l + j}
<1>1. l \in Nat /\ Cardinality(U) \in Nat
  BY SubsetSize
<1> HIDE DEF l
<1>2. 0 \in S
  BY <1>1 DEF l
<1>3. ASSUME NEW j \in Nat, j \in S PROVE j + 1 \in S
  <2> SUFFICES ASSUME l + (j + 1) <= k
               PROVE  \E A \in SUBSET U : L \subseteq A /\ Cardinality(A) = l + (j + 1)
    OBVIOUS
  <2>1. l + j <= k
    BY <1>1
  <2>2. PICK A \in SUBSET U : L \subseteq A /\ Cardinality(A) = l + j
    BY <1>3, <2>1
  <2>3. Cardinality(A) # Cardinality(U)
    BY <1>1, <2>2
  <2>4. PICK x \in U : x \notin A
    BY <2>3
  <2>5. IsFiniteSet(A)
    BY FS_Subset
  <2>6. Cardinality(A \cup {x}) = (l + j) + 1
    BY <2>2, <2>4, <2>5, FS_AddElement
  <2>7. Cardinality(A \cup {x}) = l + (j + 1)
    BY <1>1, <2>6
  <2> QED BY <2>2, <2>4, <2>7
<1>4. k - l \in Nat /\ l + (k - l) = k
  BY <1>1 DEF l
<1>5. k - l \in S
  <2>1. \A j \in 0 .. (k - l) - 1 : j \in S => j + 1 \in S
    BY <1>3, <1>4
  <2> HIDE DEF S
  <2>2. 0 .. k - l \subseteq S
    BY <1>2, <1>4, <2>1, Upwards
  <2> QED BY <1>4, <2>2
<1> QED BY <1>1, <1>4, <1>5

\* The entries with the k lowest scores end with the score at position k.
LEMMA LowestExists ==
  ASSUME NEW N, IsFiniteSet(N), NEW v \in [N -> Nat], NEW k \in Nat, NEW q \in N,
         IsScoreAt(v, k, v[q])
  PROVE  \E A \in SUBSET N : \E f \in A : Lowest(v, k, A, f) /\ v[f] = v[q]
<1> DEFINE below == {f \in N : v[q] > v[f]}
           upto == {f \in N : ~(v[f] > v[q])}
           L == below \cup {q}
<1>1. Cardinality(below) < k /\ k <= Cardinality(upto)
  <2>1. Cardinality(upto) >= k /\ Cardinality(below) < k
    BY DEF IsScoreAt
  <2>2. Cardinality(upto) \in Nat
    BY SubsetSize
  <2> QED BY <2>1, <2>2
<1>2. \A f \in N : v[f] \in Nat
  OBVIOUS
<1>3. L \in SUBSET upto /\ q \notin below
  <2>1. ASSUME NEW f \in below PROVE f \in upto
    BY <1>2
  <2> QED BY <1>2, <2>1
<1>4. IsFiniteSet(upto) /\ IsFiniteSet(below) /\ Cardinality(below) \in Nat
  BY FS_Subset, FS_CardinalityType
<1>5. Cardinality(L) <= k
  <2> HIDE DEF below, upto
  <2>1. Cardinality(L) = Cardinality(below) + 1
    BY <1>3, <1>4, FS_AddElement
  <2> QED BY <1>1, <1>4, <2>1
<1>6. PICK A \in SUBSET upto : L \subseteq A /\ Cardinality(A) = k
  <2> HIDE DEF upto, L
  <2> QED BY <1>1, <1>3, <1>4, <1>5, SetOfSize
<1>7. q \in A /\ A \in SUBSET N
  BY <1>6
<1>8. ASSUME NEW a \in A PROVE v[a] <= v[q] /\ \A b \in N \ A : v[a] <= v[b]
  <2>1. a \in N /\ ~(v[a] > v[q])
    BY <1>8
  <2>2. v[a] <= v[q]
    BY <1>2, <2>1
  <2>3. ASSUME NEW b \in N \ A PROVE v[a] <= v[b]
    <3>1. ~(v[q] > v[b])
      BY <1>6, <2>3
    <3> QED BY <1>2, <2>1, <2>2, <3>1
  <2> QED BY <2>2, <2>3
<1>9. Lowest(v, k, A, q)
  BY <1>6, <1>7, <1>8 DEF Lowest
<1> QED BY <1>7, <1>9

LEMMA LowestAtScore ==
  ASSUME NEW N, IsFiniteSet(N), NEW v \in [N -> Nat], NEW k \in Nat,
         NEW A \in SUBSET N, NEW f \in A, Lowest(v, k, A, f)
  PROVE  IsScoreAt(v, k, v[f])
<1> DEFINE below == {z \in N : v[f] > v[z]}
           upto == {z \in N : ~(v[z] > v[f])}
<1>1. /\ Cardinality(A) = k /\ DOMAIN v = N
      /\ \A a \in A : v[a] <= v[f] /\ \A b \in N \ A : v[a] <= v[b]
  BY DEF Lowest
<1>2. \A z \in N : v[z] \in Nat
  OBVIOUS
<1>3. A \subseteq upto
  BY <1>1, <1>2
<1>4. below \subseteq A \ {f}
  <2>1. ASSUME NEW z \in N, v[f] > v[z] PROVE z \in A /\ z # f
    BY <1>1, <1>2, <2>1
  <2> QED BY <2>1
<1>5. IsFiniteSet(A) /\ IsFiniteSet(upto) /\ Cardinality(upto) \in Nat
  BY FS_Subset, FS_CardinalityType
<1>6. Cardinality(A \ {f}) = k - 1 /\ IsFiniteSet(A \ {f})
  BY <1>1, <1>5, FS_RemoveElement
<1>7. Cardinality(below) \in Nat
  BY SubsetSize
<1>8. Cardinality(below) < k
  <2> HIDE DEF below
  <2>1. Cardinality(below) <= Cardinality(A \ {f})
    BY <1>4, <1>6, FS_Subset
  <2> QED BY <1>6, <1>7, <2>1
<1>9. k <= Cardinality(upto)
  <2> HIDE DEF upto
  <2> QED BY <1>1, <1>3, <1>5, FS_Subset
<1> HIDE DEF below, upto
<1>10. Cardinality(upto) >= k
  BY <1>5, <1>9
<1> QED BY <1>1, <1>8, <1>10 DEF IsScoreAt, below, upto

\* The exact median is twice the mean of the scores at the two middle positions.
LEMMA OverMedian ==
  ASSUME NEW N, IsFiniteSet(N), NEW v \in [N -> Nat], NEW q \in N, NEW r \in N,
         IsScoreAt(v, (Cardinality(N) + 1) \div 2, v[q]),
         IsScoreAt(v, Cardinality(N) \div 2 + 1, v[r])
  PROVE  \A e \in N : e \in ExactlyOver("median", v) <=> 2 * v[e] > v[q] + v[r]
<1> DEFINE n == Cardinality(N)
           i == (n + 1) \div 2
           j == n \div 2 + 1
<1>1. n \in Nat /\ \A z \in N : v[z] \in Nat
  BY FS_CardinalityType
<1>2. i \in Nat /\ j \in Nat
  BY <1>1
<1> DEFINE Over2(e) == \E A, B \in SUBSET N : \E f \in A, h \in B :
                Lowest(v, i, A, f) /\ Lowest(v, j, B, h) /\ 2 * v[e] > v[f] + v[h]
<1>3. ExactlyOver("median", v) = {e \in N : Over2(e)}
  BY DEF ExactlyOver
<1> HIDE DEF i, j
<1>4. \A k \in Nat : \A p \in N : IsScoreAt(v, k, v[p]) =>
         \A A \in SUBSET N : \A f \in A : Lowest(v, k, A, f) => v[f] = v[p]
  <2> SUFFICES ASSUME NEW k \in Nat, NEW p \in N, IsScoreAt(v, k, v[p]),
                      NEW A \in SUBSET N, NEW f \in A, Lowest(v, k, A, f)
               PROVE  v[f] = v[p]
    OBVIOUS
  <2>1. IsScoreAt(v, k, v[f])
    BY LowestAtScore
  <2>2. v[f] \in Nat /\ v[p] \in Nat /\ \A z \in N : v[z] <= v[z]
    BY <1>1
  <2>3. v[f] <= v[p]
    BY <2>1, <2>2, ScoreAtGrows
  <2>4. v[p] <= v[f]
    BY <2>1, <2>2, ScoreAtGrows
  <2> QED BY <2>2, <2>3, <2>4
<1>5. IsScoreAt(v, i, v[q]) /\ IsScoreAt(v, j, v[r])
  BY DEF i, j
<1>6. PICK A \in SUBSET N : \E f \in A : Lowest(v, i, A, f) /\ v[f] = v[q]
  BY <1>2, <1>5, LowestExists
<1>7. PICK B \in SUBSET N : \E h \in B : Lowest(v, j, B, h) /\ v[h] = v[r]
  BY <1>2, <1>5, LowestExists
<1>8. ASSUME NEW e \in N, 2 * v[e] > v[q] + v[r] PROVE Over2(e)
  BY <1>6, <1>7, <1>8
<1>9. ASSUME NEW e \in N, Over2(e) PROVE 2 * v[e] > v[q] + v[r]
  <2>1. PICK C, D \in SUBSET N : \E f \in C, h \in D :
          Lowest(v, i, C, f) /\ Lowest(v, j, D, h) /\ 2 * v[e] > v[f] + v[h]
    BY <1>9
  <2>2. PICK f \in C, h \in D :
          Lowest(v, i, C, f) /\ Lowest(v, j, D, h) /\ 2 * v[e] > v[f] + v[h]
    BY <2>1
  <2>3. v[f] = v[q] /\ v[h] = v[r]
    BY <1>2, <1>4, <1>5, <2>2
  <2> QED BY <2>2, <2>3
<1> HIDE DEF Over2
<1> QED BY <1>3, <1>8, <1>9

\* The two middle scores.
LEMMA MiddleScores ==
  ASSUME NEW N, IsFiniteSet(N), N # {}, NEW v \in [N -> Nat]
  PROVE  \E q, r \in N :
           /\ IsScoreAt(v, (Cardinality(N) + 1) \div 2, v[q])
           /\ IsScoreAt(v, Cardinality(N) \div 2 + 1, v[r])
           /\ Cardinality(N) % 2 = 1 => Median(Table(v)) = Plain(v[r]) /\ v[q] = v[r]
           /\ Cardinality(N) % 2 # 1 =>
                Median(Table(v)) = Div(Add(Plain(v[q]), Plain(v[r])), 2)
<1> DEFINE t == Table(v)
           n == Cardinality(N)
           i == (n + 1) \div 2
           j == n \div 2 + 1
<1>1. DOMAIN t = N
  BY DEF Table
<1>2. n \in Nat /\ n > 0
  BY FS_CardinalityType, FS_EmptySet
<1>3. i \in 1 .. n /\ j \in 1 .. n
  BY <1>2
<1>4. (n % 2 = 1 => i = j) /\ (n % 2 # 1 => n \div 2 = i)
  BY <1>2
<1>5. PICK q \in N : AtPosition(t, i) = Plain(v[q]) /\ IsScoreAt(v, i, v[q])
  <2> HIDE DEF i, t
  <2> QED BY <1>3, AtPositionScore DEF t
<1>6. PICK r \in N : AtPosition(t, j) = Plain(v[r]) /\ IsScoreAt(v, j, v[r])
  <2> HIDE DEF j, t
  <2> QED BY <1>3, AtPositionScore DEF t
<1>7. ASSUME n % 2 = 1 PROVE Median(t) = Plain(v[r]) /\ v[q] = v[r]
  <2>1. Median(t) = AtPosition(t, j)
    BY <1>1, <1>7 DEF Median
  <2>2. Plain(v[q]) = Plain(v[r])
    BY <1>4, <1>5, <1>6, <1>7
  <2> QED BY <1>6, <2>1, <2>2, PlainExact
<1>8. ASSUME n % 2 # 1 PROVE Median(t) = Div(Add(Plain(v[q]), Plain(v[r])), 2)
  <2>1. Median(t) = Div(Add(AtPosition(t, n \div 2), AtPosition(t, j)), 2)
    BY <1>1, <1>8 DEF Median
  <2>2. Median(t) = Div(Add(AtPosition(t, i), AtPosition(t, j)), 2)
    BY <1>4, <1>8, <2>1
  <2> QED BY <1>5, <1>6, <2>2
<1> QED BY <1>5, <1>6, <1>7, <1>8

\* Of an even number of scores, the two in the middle add up to no more than all.
LEMMA MiddleBelowSum ==
  ASSUME NEW N, IsFiniteSet(N), N # {}, NEW v \in [N -> Nat], NEW q \in N, NEW r \in N,
         Cardinality(N) % 2 # 1,
         IsScoreAt(v, (Cardinality(N) + 1) \div 2, v[q]),
         IsScoreAt(v, Cardinality(N) \div 2 + 1, v[r])
  PROVE  v[q] + v[r] <= SumOf(v)
<1> DEFINE n == Cardinality(N)
           i == (n + 1) \div 2
           j == n \div 2 + 1
           below == {f \in N : v[q] > v[f]}
           rest == N \ below
<1>1. n \in Nat /\ n > 0 /\ \A z \in N : v[z] \in Nat
  BY FS_CardinalityType, FS_EmptySet
<1>2. i = n - i /\ i \in Nat /\ j = i + 1 /\ i > 0
  BY <1>1
<1>3. Cardinality(below) < i
  BY DEF IsScoreAt
<1>4. Cardinality(below) \in Nat /\ below \in SUBSET N
  BY SubsetSize
<1>5. Cardinality(rest) = n - Cardinality(below)
  <2>1. N \cap below = below
    BY <1>4
  <2>2. Cardinality(rest) = n - Cardinality(N \cap below)
    BY FS_Difference
  <2> QED BY <2>1, <2>2
<1> HIDE DEF n
<1>6. Cardinality(rest) > 1
  <2> HIDE DEF rest, below, i, j
  <2> QED BY <1>1, <1>2, <1>3, <1>4, <1>5
<1>7. \A z \in rest : z \in N /\ v[q] <= v[z]
  BY <1>1
<1>8. IsFiniteSet(rest) /\ rest \in SUBSET N
  BY FS_Subset
<1> HIDE DEF below, rest
<1>9. PICK z \in rest : z # r
  <2> SUFFICES ASSUME \A z \in rest : z = r PROVE FALSE
    OBVIOUS
  <2>1. rest # {}
    BY <1>6, FS_EmptySet
  <2>2. rest = {r}
    BY <2>1
  <2>3. Cardinality(rest) = 1
    BY <2>2, FS_Singleton
  <2> QED BY <1>6, <2>3
<1>10. v[z] + v[r] <= SumOf(v)
  <2>1. \A p \in N : v[p] <= v[p]
    BY <1>1
  <2> QED BY <1>7, <1>9, <2>1, SumGrows
<1>11. SumOf(v) \in Nat
  BY SumExact
<1> QED BY <1>1, <1>7, <1>9, <1>10, <1>11

\* Who beats the target of a rule is who is over it in exact arithmetic, unless the
\* target is out of everybody's reach, as only a large mean can be.
LEMMA BeatsExactly ==
  ASSUME NEW N, IsFiniteSet(N), N # {}, NEW v \in [N -> Nat], NEW rule \in Rules
  PROVE  \E reach \in BOOLEAN :
           /\ \A e \in N : BeatsTarget(rule, Table(v), e) <=> reach /\ e \in ExactlyOver(rule, v)
           /\ ~reach => rule \in {"average", "median"} /\ SumOf(v) >= Limit
<1> DEFINE t == Table(v)
           n == Cardinality(N)
<1>1. DOMAIN t = N /\ DOMAIN v = N /\ \A f \in N : t[f] = Plain(v[f]) /\ v[f] \in Nat
  BY DEF Table
<1>2. n \in Nat /\ n > 0 /\ Limit \in Nat /\ SumOf(v) \in Nat
  BY FS_CardinalityType, FS_EmptySet, InsaneIntAssumption, SumExact
<1>3. CASE rule = "average"
  <2> DEFINE x == Average(t)
             reach == x.exp = 0
  <2>1. Exact(x) /\ x.num = SumOf(v) /\ x.den = n /\ (SumOf(v) < Limit => x.exp = 0)
    <3>1. Average(t) = Div(Total(t), n)
      BY <1>1 DEF Average
    <3>2. Exact(Total(t)) /\ Total(t).num = SumOf(v) /\ Total(t).den = 1
      BY SumExact
    <3>3. SumOf(v) < Limit => Total(t) = Plain(Total(t).num)
      BY <3>2, SumExact
    <3> HIDE DEF t, n
    <3> QED BY <1>2, <3>1, <3>2, <3>3, DivExact
  <2>2. \A e \in N : BeatsTarget(rule, t, e) <=> GreaterThan(Plain(v[e]), x)
    BY <1>1, <1>3 DEF BeatsTarget
  <2>3. \A e \in N : e \in ExactlyOver(rule, v) <=> v[e] * n > SumOf(v)
    BY <1>1, <1>3 DEF ExactlyOver
  <2> HIDE DEF x, t, n
  <2>4. \A e \in N : GreaterThan(Plain(v[e]), x) <=> reach /\ v[e] * n > SumOf(v)
    <3> SUFFICES ASSUME NEW e \in N
                 PROVE  GreaterThan(Plain(v[e]), x) <=> reach /\ v[e] * n > SumOf(v)
      OBVIOUS
    <3> QED BY <1>1, <2>1, OverExact
  <2>5. reach \/ SumOf(v) >= Limit
    BY <1>2, <2>1
  <2>6. reach \in BOOLEAN
    OBVIOUS
  <2> HIDE DEF reach
  <2> QED BY <1>3, <2>2, <2>3, <2>4, <2>5, <2>6 DEF t
<1>4. CASE rule = "median"
  <2> DEFINE x == Median(t)
             reach == x.exp = 0
  <2>1. PICK q, r \in N :
           /\ IsScoreAt(v, (n + 1) \div 2, v[q]) /\ IsScoreAt(v, n \div 2 + 1, v[r])
           /\ n % 2 = 1 => x = Plain(v[r]) /\ v[q] = v[r]
           /\ n % 2 # 1 => x = Div(Add(Plain(v[q]), Plain(v[r])), 2)
    BY MiddleScores
  <2>2. \A e \in N : BeatsTarget(rule, t, e) <=> GreaterThan(Plain(v[e]), x)
    BY <1>1, <1>4 DEF BeatsTarget
  <2>3. \A e \in N : e \in ExactlyOver(rule, v) <=> 2 * v[e] > v[q] + v[r]
    BY <1>4, <2>1, OverMedian
  <2> DEFINE a == v[q]
             b == v[r]
  <2>4. a \in Nat /\ b \in Nat
    BY <1>1
  <2>5. n % 2 # 1 => a + b <= SumOf(v)
    BY <2>1, MiddleBelowSum
  <2> HIDE DEF x, t, n, a, b
  <2>6. CASE n % 2 = 1
    <3>1. x = Plain(b) /\ a = b
      BY <2>1, <2>6 DEF a, b
    <3>2. reach /\ \A s \in Nat : GreaterThan(Plain(s), x) <=> s > b
      <4>1. Exact(x) /\ x.exp = 0 /\ x.num = b /\ x.den = 1
        BY <2>4, <3>1, PlainExact
      <4>2. \A s \in Nat : GreaterThan(Plain(s), x) <=> s * 1 > b
        BY <4>1, OverExact
      <4> QED BY <2>4, <4>1, <4>2
    <3>3. \A s \in Nat : s > b <=> 2 * s > a + b
      BY <2>4, <3>1
    <3>4. \A e \in N : GreaterThan(Plain(v[e]), x) <=> reach /\ 2 * v[e] > a + b
      BY <1>1, <3>2, <3>3
    <3>5. reach = TRUE
      BY <3>2
    <3> HIDE DEF reach
    <3> QED BY <2>2, <2>3, <3>4, <3>5 DEF t, a, b
  <2>7. CASE n % 2 # 1
    <3> DEFINE y == Add(Plain(a), Plain(b))
    <3>1. x = Div(y, 2)
      BY <2>1, <2>7 DEF a, b
    <3>2. Exact(y) /\ y.num = a + b /\ y.den = 1 /\ (a + b < Limit => y = Plain(a + b))
      <4>1. /\ Exact(Plain(a)) /\ Plain(a).num = a /\ Plain(a).den = 1
            /\ Exact(Plain(b)) /\ Plain(b).num = b /\ Plain(b).den = 1
        BY <2>4, PlainExact
      <4> QED BY <4>1, AddExact
    <3> HIDE DEF y
    <3>3. Exact(x) /\ x.num = a + b /\ x.den = 2 /\ (a + b < Limit => x.exp = 0)
      BY <3>1, <3>2, DivExact
    <3>4. \A e \in N : GreaterThan(Plain(v[e]), x) <=> reach /\ v[e] * 2 > a + b
      <4> SUFFICES ASSUME NEW e \in N
                   PROVE  GreaterThan(Plain(v[e]), x) <=> reach /\ v[e] * 2 > a + b
        OBVIOUS
      <4> QED BY <1>1, <3>3, OverExact
    <3>5. \A e \in N : v[e] * 2 > a + b <=> 2 * v[e] > a + b
      <4>1. \A s \in Nat : s * 2 = 2 * s
        OBVIOUS
      <4> QED BY <1>1, <4>1
    <3>6. reach \/ SumOf(v) >= Limit
      BY <1>2, <2>4, <2>5, <2>7, <3>3
    <3>7. reach \in BOOLEAN
      OBVIOUS
    <3> HIDE DEF reach
    <3> QED BY <1>4, <2>2, <2>3, <3>4, <3>5, <3>6, <3>7 DEF t, a, b
  <2> QED BY <2>6, <2>7
<1>5. CASE rule = "geometric"
  <2> DEFINE Own(e) == [f \in N |-> v[e]]
  <2>1. \A e \in N : e \in ExactlyOver(rule, v) <=> ProductOf(Own(e)) > ProductOf(v)
    BY <1>1, <1>5 DEF ExactlyOver
  <2>2. \A e \in N : BeatsTarget(rule, t, e) <=> OverGeometricMean(t, e)
    BY <1>5 DEF BeatsTarget
  <2>3. \A e \in N : [f \in DOMAIN t |-> t[e]] = Table(Own(e))
    BY <1>1 DEF Table
  <2>4. \A i, j \in Nat : GreaterThan(Plain(i), Plain(j)) <=> i > j
    BY DEF GreaterThan, Plain
  <2> HIDE DEF t
  <2>5. ASSUME NEW e \in N PROVE OverGeometricMean(t, e) <=> ProductOf(Own(e)) > ProductOf(v)
    <3>1. Own(e) \in [N -> Nat] /\ \A f \in N : Own(e)[f] = v[e]
      BY <1>1
    <3> HIDE DEF Own
    <3>2. /\ ProductOf(v) \in Nat /\ ProductOf(Own(e)) \in Nat
          /\ Product(t) = Plain(ProductOf(v))
          /\ Product(Table(Own(e))) = Plain(ProductOf(Own(e)))
          /\ ProductOf(v) = 0 <=> \E p \in N : v[p] = 0
          /\ ProductOf(Own(e)) = 0 <=> v[e] = 0
      BY <3>1, ProductExact DEF t
    <3>3. \A f \in N : GreaterThan(t[f], Zero) <=> v[f] > 0
      BY <1>1, <2>4 DEF Zero
    <3>4. CASE \E f \in N : ~GreaterThan(t[f], Zero)
      <4>1. OverGeometricMean(t, e) <=> v[e] > 0
        BY <1>1, <3>3, <3>4 DEF OverGeometricMean
      <4>2. ProductOf(v) = 0
        BY <1>1, <3>2, <3>3, <3>4
      <4> QED BY <1>1, <3>2, <4>1, <4>2
    <3>5. CASE ~ \E f \in N : ~GreaterThan(t[f], Zero)
      <4>1. OverGeometricMean(t, e) <=> GreaterThan(Product(Table(Own(e))), Product(t))
        BY <1>1, <2>3, <3>5 DEF OverGeometricMean
      <4> QED BY <2>4, <3>2, <4>1
    <3> QED BY <3>4, <3>5
  <2> QED BY <2>1, <2>2, <2>5 DEF t
<1>6. CASE rule \notin {"average", "median", "geometric"}
  <2>1. ExactlyOver(rule, v) = {}
    BY <1>6 DEF ExactlyOver
  <2>2. \A e \in N : ~BeatsTarget(rule, t, e)
    BY <1>6 DEF BeatsTarget
  <2> QED BY <2>1, <2>2
<1> QED BY <1>3, <1>4, <1>5, <1>6

------------------------------------------------------------------------------
(* The winners are exact, and early results stand *)

LEMMA HighestIsBest ==
  ASSUME NEW N, NEW v \in [N -> Nat]
  PROVE  Highest(Table(v)) = Best(v)
<1>1. DOMAIN Table(v) = N /\ DOMAIN v = N /\ \A f \in N : v[f] \in Nat
  BY DEF Table
<1>2. \A e, f \in N : ~Over(Table(v), f, e) <=> v[f] <= v[e]
  BY <1>1, OverTable
<1> QED BY <1>1, <1>2 DEF Highest, Best

\* The cutoff leaves out who has count or more better scores above, and nobody else.
LEMMA CutoffExact ==
  ASSUME NEW N, IsFiniteSet(N), N # {}, NEW v \in [N -> Nat], NEW count \in 1 .. Cardinality(N),
         NEW e \in N
  PROVE  ~LessThan(Table(v)[e], Cutoff(Table(v), count))
           <=> Cardinality({f \in N : v[f] > v[e]}) < count
<1> DEFINE t == Table(v)
           n == Cardinality(N)
           k == n + 1 - count
           above(x) == {f \in N : v[f] > x}
<1>1. DOMAIN t = N /\ DOMAIN v = N /\ t[e] = Plain(v[e]) /\ \A f \in N : v[f] \in Nat
  BY DEF Table
<1>2. n \in Nat /\ count \in Nat /\ count <= n /\ k \in 1 .. n /\ k \in Nat
  BY FS_CardinalityType
<1>3. PICK q \in N : AtPosition(t, k) = Plain(v[q]) /\ IsScoreAt(v, k, v[q])
  <2> HIDE DEF k, t
  <2> QED BY <1>2, AtPositionScore DEF t
<1> DEFINE below == {f \in N : v[q] > v[f]}
           upto == {f \in N : ~(v[f] > v[q])}
<1>4. Cutoff(t, count) = Plain(v[q])
  BY <1>1, <1>3 DEF Cutoff
<1>5. ~LessThan(t[e], Cutoff(t, count)) <=> v[q] <= v[e]
  BY <1>1, <1>4 DEF LessThan, EqualTo, GreaterThan, Plain
<1>6. Cardinality(below) < k /\ Cardinality(upto) >= k
  BY <1>1, <1>3 DEF IsScoreAt
<1>7. Cardinality(below) \in Nat /\ Cardinality(upto) \in Nat
  BY SubsetSize
<1>8. Cardinality(N \ below) = n - Cardinality(below)
  <2>1. N \cap below = below
    OBVIOUS
  <2>2. Cardinality(N \ below) = n - Cardinality(N \cap below)
    BY FS_Difference
  <2> QED BY <2>1, <2>2
<1>9. Cardinality(N \ upto) = n - Cardinality(upto)
  <2>1. N \cap upto = upto
    OBVIOUS
  <2>2. Cardinality(N \ upto) = n - Cardinality(N \cap upto)
    BY FS_Difference
  <2> QED BY <2>1, <2>2
<1>10. above(v[q]) = N \ upto
  OBVIOUS
<1>11. IsFiniteSet(above(v[q])) /\ IsFiniteSet(above(v[e])) /\ Cardinality(above(v[e])) \in Nat
  BY FS_Subset, FS_CardinalityType
<1> HIDE DEF upto, t
<1>12. ASSUME v[q] <= v[e] PROVE Cardinality(above(v[e])) < count
  <2>1. above(v[e]) \subseteq above(v[q])
    BY <1>1, <1>12
  <2> HIDE DEF above, n
  <2>2. Cardinality(above(v[e])) <= Cardinality(above(v[q]))
    BY <1>11, <2>1, FS_Subset
  <2> QED BY <1>2, <1>6, <1>7, <1>9, <1>10, <1>11, <2>2
<1>13. ASSUME ~(v[q] <= v[e]) PROVE ~(Cardinality(above(v[e])) < count)
  <2>1. N \ below \subseteq above(v[e])
    BY <1>1, <1>13
  <2> HIDE DEF above, below, n
  <2>2. Cardinality(N \ below) <= Cardinality(above(v[e]))
    BY <1>11, <2>1, FS_Subset
  <2> QED BY <1>2, <1>6, <1>7, <1>8, <1>11, <2>2
<1> QED BY <1>5, <1>12, <1>13 DEF t

\* By every rule, for every number of winners and all scores, the winners are those of
\* exact arithmetic; a mean that outgrows the plain form leaves the best scores winning.
THEOREM WinnersAreExact ==
  ASSUME NEW N, IsFiniteSet(N), N # {}, NEW v \in [N -> Nat], NEW rule \in Rules,
         NEW count \in 1 .. Cardinality(N)
  PROVE  \/ Winners(rule, Table(v), count) = Reference(rule, v, count)
         \/ /\ rule \in {"average", "median"} /\ SumOf(v) >= Limit
            /\ Winners(rule, Table(v), count) = Best(v)
<1> DEFINE t == Table(v)
           over == {e \in N : BeatsTarget(rule, t, e)}
<1>1. DOMAIN t = N /\ DOMAIN v = N
  BY DEF Table
<1>2. CASE rule = "custom"
  <2>1. Winners(rule, t, count) = {e \in N : ~LessThan(t[e], Cutoff(t, count))}
    BY <1>1, <1>2 DEF Winners
  <2>2. Reference(rule, v, count) = {e \in N : Cardinality({f \in N : v[f] > v[e]}) < count}
    BY <1>1, <1>2 DEF Reference
  <2>3. \A e \in N : ~LessThan(t[e], Cutoff(t, count))
                       <=> Cardinality({f \in N : v[f] > v[e]}) < count
    BY CutoffExact
  <2> QED BY <2>1, <2>2, <2>3
<1>3. CASE rule # "custom"
  <2>1. PICK reach \in BOOLEAN :
          /\ \A e \in N : BeatsTarget(rule, t, e) <=> reach /\ e \in ExactlyOver(rule, v)
          /\ ~reach => rule \in {"average", "median"} /\ SumOf(v) >= Limit
    BY BeatsExactly
  <2>2. Winners(rule, t, count) = IF over # {} THEN over ELSE Best(v)
    BY <1>1, <1>3, HighestIsBest DEF Winners
  <2>3. Reference(rule, v, count) =
          IF ExactlyOver(rule, v) = {} THEN Best(v) ELSE ExactlyOver(rule, v)
    BY <1>3 DEF Reference
  <2>4. ExactlyOver(rule, v) \subseteq N
    BY <1>1 DEF ExactlyOver, Rules
  <2>5. CASE reach
    <3>1. over = ExactlyOver(rule, v)
      BY <2>1, <2>4, <2>5
    <3> QED BY <2>2, <2>3, <3>1
  <2>6. CASE ~reach
    <3>1. over = {}
      BY <2>1, <2>6
    <3> QED BY <2>1, <2>2, <2>6, <3>1
  <2> QED BY <2>5, <2>6
<1> QED BY <1>2, <1>3

\* Scores that grow put nobody over the exact target whose score stays.
LEMMA NobodyCatchesUp ==
  ASSUME NEW N, IsFiniteSet(N), N # {}, NEW v \in [N -> Nat], NEW w \in [N -> Nat],
         \A p \in N : v[p] <= w[p], NEW rule \in Rules,
         NEW f \in N, w[f] = v[f], f \in ExactlyOver(rule, w)
  PROVE  f \in ExactlyOver(rule, v)
<1>1. DOMAIN v = N /\ DOMAIN w = N /\ \A p \in N : v[p] \in Nat /\ w[p] \in Nat
  OBVIOUS
<1>2. CASE rule = "average"
  <2>1. w[f] * Cardinality(N) > SumOf(w)
    BY <1>1, <1>2 DEF ExactlyOver
  <2>2. SumOf(v) <= SumOf(w) /\ SumOf(v) \in Nat /\ SumOf(w) \in Nat
    BY SumGrows, SumExact
  <2>3. Cardinality(N) \in Nat /\ v[f] * Cardinality(N) \in Nat
    BY <1>1, FS_CardinalityType
  <2>4. v[f] * Cardinality(N) > SumOf(v)
    BY <2>1, <2>2, <2>3
  <2> QED BY <1>1, <1>2, <2>4 DEF ExactlyOver
<1>3. CASE rule = "median"
  <2> DEFINE i == (Cardinality(N) + 1) \div 2
             j == Cardinality(N) \div 2 + 1
  <2>1. i \in Nat /\ j \in Nat
    BY FS_CardinalityType
  <2>2. PICK q, r \in N : IsScoreAt(v, i, v[q]) /\ IsScoreAt(v, j, v[r])
    BY MiddleScores
  <2>3. PICK x, y \in N : IsScoreAt(w, i, w[x]) /\ IsScoreAt(w, j, w[y])
    BY MiddleScores
  <2>4. 2 * w[f] > w[x] + w[y]
    BY <1>3, <2>3, OverMedian
  <2>5. (f \in ExactlyOver("median", v)) <=> 2 * v[f] > v[q] + v[r]
    BY <2>2, OverMedian
  <2> HIDE DEF i, j
  <2>6. v[q] <= w[x]
    BY <1>1, <2>1, <2>2, <2>3, ScoreAtGrows
  <2>7. v[r] <= w[y]
    BY <1>1, <2>1, <2>2, <2>3, ScoreAtGrows
  <2> QED BY <1>1, <1>3, <2>4, <2>5, <2>6, <2>7
<1>4. CASE rule = "geometric"
  <2> DEFINE Own(s) == [p \in N |-> s[f]]
  <2>1. Own(v) = Own(w)
    OBVIOUS
  <2>2. ProductOf(Own(w)) > ProductOf(w)
    BY <1>1, <1>4 DEF ExactlyOver
  <2>3. PICK m \in Nat, n \in Nat :
          Product(Table(v)) = Plain(m) /\ Product(Table(w)) = Plain(n) /\ m <= n
    BY ProductGrows
  <2>4. /\ ProductOf(v) \in Nat /\ Product(Table(v)) = Plain(ProductOf(v))
        /\ ProductOf(w) \in Nat /\ Product(Table(w)) = Plain(ProductOf(w))
    BY ProductExact
  <2>5. ProductOf(v) <= ProductOf(w)
    BY <2>3, <2>4, PlainExact
  <2>6. ProductOf(Own(w)) \in Nat
    <3>1. Own(w) \in [N -> Nat]
      BY <1>1
    <3> HIDE DEF Own
    <3> QED BY <3>1, ProductExact
  <2>7. ProductOf(Own(v)) > ProductOf(v)
    <3> HIDE DEF Own
    <3> QED BY <2>1, <2>2, <2>4, <2>5, <2>6
  <2> QED BY <1>1, <1>4, <2>7 DEF ExactlyOver
<1> QED BY <1>2, <1>3, <1>4 DEF ExactlyOver, Rules

\* A blind decided while one entry has hands left is decided as if they had been played,
\* whatever they add.
THEOREM EarlyResultsHold ==
  ASSUME NEW N, IsFiniteSet(N), N # {}, NEW v \in [N -> Nat], NEW rule \in Rules,
         NEW count \in 1 .. Cardinality(N), NEW e \in N, NEW more \in Nat,
         MayResolve(rule, Table(v), {e})
  PROVE  Winners(rule, Later(Table(v), e, more), count) = Winners(rule, Table(v), count)
<1> DEFINE w == [v EXCEPT ![e] = v[e] + more]
           t == Table(v)
           u == Table(w)
           Alone(s) == \A f \in N \ {e} : s[e] > s[f]
<1>1. DOMAIN t = N /\ DOMAIN v = N /\ \A f \in N : t[f] = Plain(v[f]) /\ v[f] \in Nat
  BY DEF Table
<1>2. w \in [N -> Nat] /\ (\A f \in N : v[f] <= w[f]) /\ \A f \in N \ {e} : w[f] = v[f]
  BY <1>1
<1>3. Later(t, e, more) = u
  <2>1. Later(t, e, more) = [t EXCEPT ![e] = Plain(v[e] + more)]
    <3>1. t[e].num = v[e]
      BY <1>1, PlainExact
    <3> HIDE DEF t
    <3> QED BY <3>1 DEF Later
  <2>2. \A f \in N : [t EXCEPT ![e] = Plain(v[e] + more)][f] = u[f]
    BY <1>1 DEF Table
  <2> QED BY <1>1, <2>1, <2>2 DEF Table
<1> HIDE DEF w
<1>4. ASSUME NEW s \in [N -> Nat], Alone(s) PROVE Highest(Table(s)) = {e}
  <2>1. Best(s) = {e}
    BY <1>4 DEF Best
  <2> QED BY <2>1, HighestIsBest
<1>5. Alone(v) => Alone(w)
  BY <1>1, <1>2
<1>6. DOMAIN u = N
  BY <1>2 DEF Table
<1> HIDE DEF t, u
<1>7. CASE rule = "highest"
  <2>1. \A f \in N \ {e} : Over(t, e, f)
    BY <1>1, <1>7 DEF MayResolve, t
  <2>2. Alone(v)
    BY <2>1, OverTable DEF t
  <2>3. \A s : Winners(rule, s, count) = Highest(s)
    BY <1>7 DEF Winners, BeatsTarget
  <2>4. Highest(t) = {e}
    BY <1>4, <2>2 DEF t
  <2>5. Highest(u) = {e}
    BY <1>2, <1>4, <1>5, <2>2 DEF u
  <2> QED BY <1>3, <2>3, <2>4, <2>5 DEF t
<1>8. CASE rule # "highest"
  <2>1. BeatsTarget(rule, t, e) /\ \A f \in N \ {e} : ~BeatsTarget(rule, t, f)
    BY <1>1, <1>8 DEF MayResolve, t
  <2>2. rule # "custom"
    BY <2>1 DEF BeatsTarget
  <2>3. Alone(v)
    BY <2>1, TargetIsThreshold DEF t
  <2>4. Winners(rule, t, count) = {e}
    BY <1>1, <2>1, <2>2 DEF Winners
  <2>5. PICK reach \in BOOLEAN :
          \A f \in N : BeatsTarget(rule, t, f) <=> reach /\ f \in ExactlyOver(rule, v)
    BY BeatsExactly DEF t
  <2>6. PICK later \in BOOLEAN :
          \A f \in N : BeatsTarget(rule, u, f) <=> later /\ f \in ExactlyOver(rule, w)
    BY <1>2, BeatsExactly DEF u
  <2>7. ASSUME NEW f \in N \ {e} PROVE ~BeatsTarget(rule, u, f)
    <3>1. f \notin ExactlyOver(rule, v)
      BY <2>1, <2>5, <2>7
    <3>2. f \notin ExactlyOver(rule, w)
      BY <1>2, <2>7, <3>1, NobodyCatchesUp
    <3> QED BY <2>6, <3>2
  <2>8. Highest(u) = {e}
    BY <1>2, <1>4, <1>5, <2>3 DEF u
  <2>9. Winners(rule, u, count) = {e}
    BY <1>6, <2>2, <2>7, <2>8 DEF Winners
  <2> QED BY <1>3, <2>4, <2>9 DEF t
<1> QED BY <1>7, <1>8

LEMMA TablePlain ==
  ASSUME NEW t \in Tables
  PROVE  /\ IsFiniteSet(DOMAIN t) /\ DOMAIN t # {}
         /\ NumberOf(t) \in [DOMAIN t -> Nat] /\ t = Table(NumberOf(t))
<1>1. t = [e \in DOMAIN t |-> Plain(t[e].num)] /\ \A e \in DOMAIN t : t[e].num \in Nat
  BY TablesAssumption
<1>2. NumberOf(t) = [e \in DOMAIN t |-> t[e].num]
  BY DEF NumberOf
<1>3. Table(NumberOf(t)) = [e \in DOMAIN t |-> Plain(t[e].num)]
  BY <1>2 DEF Table
<1> QED BY <1>1, <1>2, <1>3, TablesAssumption

\* Every score rule picks the winners of exact arithmetic, on all tables of scores.
THEOREM RulesAgreeCorrect == Spec => []RulesAgree
<1>1. RulesAgree
  <2>1. ASSUME NEW t \in Tables, NEW rule \in Rules, NEW count \in 1 .. Cardinality(DOMAIN t)
        PROVE  \/ Winners(rule, t, count) = Reference(rule, NumberOf(t), count)
               \/ /\ rule \in {"average", "median"} /\ SumOf(NumberOf(t)) >= Limit
                  /\ Winners(rule, t, count) = Best(NumberOf(t))
    <3> DEFINE v == NumberOf(t)
               N == DOMAIN t
    <3>1. IsFiniteSet(N) /\ N # {} /\ v \in [N -> Nat] /\ t = Table(v)
      BY TablePlain
    <3>2. count \in 1 .. Cardinality(N)
      OBVIOUS
    <3> HIDE DEF v, N
    <3>3. \/ Winners(rule, Table(v), count) = Reference(rule, v, count)
          \/ /\ rule \in {"average", "median"} /\ SumOf(v) >= Limit
             /\ Winners(rule, Table(v), count) = Best(v)
      BY <3>1, <3>2, WinnersAreExact
    <3> QED BY <3>1, <3>3 DEF v
  <2> QED BY <2>1 DEF RulesAgree
<1> QED BY <1>1, PTL

\* A blind decided early is decided rightly, on all tables and whatever is added.
THEOREM EarlyResultsStandCorrect == Spec => []EarlyResultsStand
<1>1. EarlyResultsStand
  <2>1. ASSUME NEW t \in Tables, NEW rule \in Rules, NEW e \in DOMAIN t, NEW more \in Added,
               NEW count \in 1 .. Cardinality(DOMAIN t), MayResolve(rule, t, {e})
        PROVE  Winners(rule, Later(t, e, more), count) = Winners(rule, t, count)
    <3> DEFINE v == NumberOf(t)
               N == DOMAIN t
    <3>1. IsFiniteSet(N) /\ N # {} /\ v \in [N -> Nat] /\ t = Table(v)
      BY TablePlain
    <3>2. count \in 1 .. Cardinality(N) /\ e \in N /\ more \in Nat
      BY TablesAssumption
    <3> HIDE DEF v, N
    <3>3. MayResolve(rule, Table(v), {e})
      BY <2>1, <3>1
    <3>4. Winners(rule, Later(Table(v), e, more), count) = Winners(rule, Table(v), count)
      BY <3>1, <3>2, <3>3, EarlyResultsHold
    <3> QED BY <3>1, <3>4
  <2> QED BY <2>1 DEF EarlyResultsStand
<1> QED BY <1>1, PTL

------------------------------------------------------------------------------
(* Who pays for a blind: the loser of a resolved blind was beaten, and no other *)
(* charge reaches a player in a blind                                           *)

\* A bye that is not won has not beaten its target.
ByeKnown(s) ==
  \A p \in Players : HasBye(s, p) /\ s.duel.result[p] # "won" => ~ByeBeaten(s, p)

\* From m to n byes and their targets stay, or a new round of pairings awaits its targets.
SameByes(m, n) ==
  \/ n.duel.target = Everyone(NoScore)
  \/ /\ n.duel.pair = m.duel.pair /\ n.duel.target = m.duel.target
     /\ n.duel.result = m.duel.result

\* From m to n no score grows, and nobody gets ready.
Calms(m, n) ==
  /\ SameByes(m, n)
  /\ \A q \in Players : n.score[q] <= m.score[q] /\ n.ready[q] \in {m.ready[q], NoRow}

\* From m to n nobody pays a life either, and the scores stand.
Spares(m, n) ==
  /\ SameByes(m, n)
  /\ n.lives = m.lives /\ n.score = m.score
  /\ \A q \in Players : n.ready[q] \in {m.ready[q], NoRow}

LEMMA ByeKnownCalm ==
  ASSUME NEW m \in LobbyMemory, NEW n \in LobbyMemory, Calms(m, n), ByeKnown(m)
  PROVE  ByeKnown(n)
<1> SUFFICES ASSUME NEW p \in Players, HasBye(n, p), n.duel.result[p] # "won", ByeBeaten(n, p)
             PROVE  FALSE
  BY DEF ByeKnown
<1>1. n.duel.target[p] # NoScore
  BY DEF ByeBeaten
<1>2. n.duel.target # Everyone(NoScore)
  BY <1>1 DEF Everyone
<1>3. /\ n.duel.pair = m.duel.pair /\ n.duel.target = m.duel.target
      /\ n.duel.result = m.duel.result /\ n.score[p] <= m.score[p]
  BY <1>2 DEF Calms, SameByes
<1>4. n.score[p] \in 0 .. MaxScore /\ m.score[p] \in 0 .. MaxScore
      /\ m.duel.target[p] \in 0 .. MaxScore
  BY <1>1, <1>3 DEF LobbyMemory, DuelState
<1>5. n.score[p] >= n.duel.target[p]
  BY DEF ByeBeaten
<1>6. m.score[p] >= m.duel.target[p]
  BY <1>3, <1>4, <1>5, MatchAssumption
<1> QED BY <1>1, <1>3, <1>6 DEF ByeKnown, HasBye, ByeBeaten

LEMMA SparesCalms ==
  ASSUME NEW m \in LobbyMemory, NEW n, Spares(m, n)
  PROVE  Calms(m, n)
<1>1. \A q \in Players : m.score[q] \in 0 .. MaxScore
  BY DEF LobbyMemory
<1> QED BY <1>1, MatchAssumption DEF Spares, Calms

LEMMA SparesTransitive ==
  ASSUME NEW m, NEW n, NEW o, Spares(m, n), Spares(n, o)
  PROVE  Spares(m, o)
BY DEF Spares, SameByes

LEMMA CalmsTransitive ==
  ASSUME NEW m \in LobbyMemory, NEW n \in LobbyMemory, NEW o \in LobbyMemory,
         Calms(m, n), Calms(n, o)
  PROVE  Calms(m, o)
<1>1. \A q \in Players : m.score[q] \in Int /\ n.score[q] \in Int /\ o.score[q] \in Int
  BY MatchAssumption DEF LobbyMemory
<1>2. \A q \in Players : o.score[q] <= n.score[q] /\ n.score[q] <= m.score[q]
  BY DEF Calms
<1>3. \A q \in Players : o.score[q] <= m.score[q]
  BY <1>1, <1>2
<1>4. SameByes(m, o)
  BY DEF Calms, SameByes
<1> QED BY <1>3, <1>4 DEF Calms

LEMMA SparesSelf == ASSUME NEW m PROVE Spares(m, m)
BY DEF Spares, SameByes

LEMMA RetimedSpares ==
  ASSUME NEW m \in LobbyMemory, NEW n, Retimed(m, n)
  PROVE  Spares(m, n)
BY RetimedMemory DEF Spares, SameByes

LEMMA FinishMatchSpares ==
  ASSUME lobby \in Setups, NEW m \in LobbyMemory
  PROVE  LET n == FinishMatch(m) IN Spares(m, n)
<1> DEFINE c == ClearParticipation(m, ActivePlayers(m))
           r == ResetTimer(c)
           n == FinishMatch(m)
<1>1. n = [r EXCEPT !.inGame = FALSE, !.duel = NoDuels]
  BY DEF FinishMatch
<1>2. c \in LobbyMemory /\ c.score = m.score
  BY ActiveSubset, ClearParticipationEffect
<1> HIDE DEF c
<1>3. Retimed(c, r)
  BY <1>2, LobbyFacts, ResetTimerEffect
<1> HIDE DEF r
<1>4. r \in LobbyMemory /\ r.score = c.score
  BY <1>2, <1>3, RetimedMemory
<1>5. n.score = r.score
  BY <1>1, <1>4 DEF LobbyMemory
<1>6. /\ n.lives = m.lives /\ n.duel = NoDuels
      /\ \A q \in Players : n.ready[q] \in {m.ready[q], NoRow}
  BY FinishMatchEffect
<1> HIDE DEF n
<1>7. NoDuels.target = Everyone(NoScore)
  BY DEF NoDuels
<1>8. Spares(m, n)
  BY <1>2, <1>4, <1>5, <1>6, <1>7 DEF Spares, SameByes
<1> QED BY <1>8 DEF n

LEMMA ClearedSpares ==
  ASSUME NEW m \in LobbyMemory, NEW D \in SUBSET Players
  PROVE  /\ Spares(m, ClearParticipation(m, D))
         /\ Spares(m, ClearBlind(m, D))
         /\ Spares(m, ClearFirstReady(m, D))
<1>1. Spares(m, ClearParticipation(m, D))
  BY ClearParticipationEffect DEF Spares, SameByes
<1>2. Spares(m, ClearBlind(m, D))
  BY ClearBlindEffect DEF Spares, SameByes
<1>3. Spares(m, ClearFirstReady(m, D))
  BY ClearFirstReadyEffect DEF Spares, SameByes
<1> QED BY <1>1, <1>2, <1>3

LEMMA EliminateSpares ==
  ASSUME lobby \in Setups, NEW m \in LobbyMemory
  PROVE  LET n == EliminateWithoutRound(m) IN Spares(m, n)
<1> DEFINE alive == {p \in ActivePlayers(m) : m.lives[p] > 0}
<1>1. ActivePlayers(m) \ alive \in SUBSET Players
  BY ActiveSubset
<1>2. EliminateWithoutRound(m) \in
        {FinishMatch(m), ClearParticipation(m, ActivePlayers(m) \ alive)}
  BY DEF EliminateWithoutRound
<1> QED BY <1>1, <1>2, FinishMatchSpares, ClearedSpares

LEMMA StartDuelRoundSpares ==
  ASSUME NEW m \in LobbyMemory
  PROVE  LET n == StartDuelRound(m) IN Spares(m, n)
<1> DEFINE duel == [m.duel EXCEPT !.due = TRUE]
           n == [m EXCEPT !.duel = duel]
<1>1. [m EXCEPT !.duel.due = TRUE] = n
  BY DEF LobbyMemory
<1>2. m.duel \in DuelState
  BY DEF LobbyMemory
<1>3. duel.pair = m.duel.pair /\ duel.target = m.duel.target /\ duel.result = m.duel.result
  BY <1>2 DEF DuelState
<1> HIDE DEF duel
<1>4. n.duel = duel /\ n.lives = m.lives /\ n.score = m.score /\ n.ready = m.ready
  BY DEF LobbyMemory
<1>5. Spares(m, n)
  BY <1>3, <1>4 DEF Spares, SameByes
<1> QED BY <1>1, <1>5, SparesSelf DEF StartDuelRound

LEMMA ResolveLossesSpares ==
  ASSUME lobby \in Setups, NEW m \in LobbyMemory, AwayAlive(m)
  PROVE  /\ LET n == ResolveSoloEliminations(m) IN Spares(m, n)
         /\ LET n == ResolveSurvival(m) IN Spares(m, n)
         /\ LET n == ResolveLosses(m) IN Spares(m, n)
<1> DEFINE e == EliminateWithoutRound(m)
<1>1. e \in LobbyMemory /\ Spares(m, e)
  BY EliminateSound, EliminateSpares
<1>2. ResolveSoloEliminations(m) \in {e, StartDuelRound(e)}
  BY DEF ResolveSoloEliminations
<1> HIDE DEF e
<1>3. Spares(m, ResolveSoloEliminations(m))
  BY <1>1, <1>2, StartDuelRoundSpares, SparesTransitive
<1>4. ResolveSurvival(m) \in {m, FinishMatch(m)}
  BY DEF ResolveSurvival
<1>5. Spares(m, ResolveSurvival(m))
  BY <1>4, SparesSelf, FinishMatchSpares
<1> QED BY <1>3, <1>5 DEF ResolveLosses

\* A deal charges nobody.
LEMMA DealtSpares ==
  ASSUME NEW m \in LobbyMemory, NEW n \in Dealt(m)
  PROVE  Spares(m, n)
<1>1. CASE ~m.duel.due
  BY <1>1, SparesSelf DEF Dealt
<1>2. CASE m.duel.due
  <2>1. PICK bye \in ByeCandidates(m) : \E pairing \in Pairings(ActivePlayers(m), bye) :
          n = BeginRound(m, bye, pairing)
    BY <1>2 DEF Dealt
  <2> PICK pairing \in Pairings(ActivePlayers(m), bye) : n = BeginRound(m, bye, pairing)
    BY <2>1
  <2> DEFINE duel ==
        [pair |-> [p \in Players |-> IF p \in DOMAIN pairing THEN pairing[p] ELSE NoPlayer],
         target |-> Everyone(NoScore), result |-> Everyone("open"),
         byes |-> [p \in Players |-> IF p \in bye THEN m.duel.byes[p] + 1 ELSE m.duel.byes[p]],
         last |-> IF bye = {} THEN m.duel.last ELSE CHOOSE p \in bye : TRUE,
         round |-> m.duel.round + 1, due |-> FALSE]
  <2>2. n = [m EXCEPT !.duel = duel]
    BY DEF BeginRound, LobbyMemory
  <2>3. duel.target = Everyone(NoScore)
    OBVIOUS
  <2> HIDE DEF duel
  <2>4. n.duel = duel /\ n.lives = m.lives /\ n.score = m.score /\ n.ready = m.ready
    BY <2>2 DEF LobbyMemory
  <2> QED BY <2>3, <2>4 DEF Spares, SameByes
<1> QED BY <1>1, <1>2

LEMMA StepSpares ==
  ASSUME NEW m \in LobbyMemory, Step(m)
  PROVE  Spares(m, g')
BY DealtSpares DEF Step

\* From m to n scores stand and only members of D pay.
Charges(m, n, D) ==
  /\ SameByes(m, n)
  /\ n.score = m.score
  /\ \A q \in Players : /\ n.ready[q] \in {m.ready[q], NoRow}
                        /\ n.lives[q] < m.lives[q] => q \in D

LEMMA SparesCharges ==
  ASSUME NEW m \in LobbyMemory, NEW n, NEW D, Spares(m, n)
  PROVE  Charges(m, n, D)
<1>1. \A q \in Players : m.lives[q] \in 0 .. lobby.lives
  BY DEF LobbyMemory
<1>2. \A q \in Players : ~(m.lives[q] < m.lives[q])
  BY <1>1
<1> QED BY <1>2 DEF Spares, Charges

LEMMA ChargesTransitive ==
  ASSUME NEW l, NEW m, NEW n, NEW o, NEW D, Spares(l, m), Charges(m, n, D), Spares(n, o)
  PROVE  Charges(l, o, D)
BY DEF Spares, Charges, SameByes

LEMMA ChargesCalms ==
  ASSUME NEW m \in LobbyMemory, NEW n, NEW D, Charges(m, n, D)
  PROVE  Calms(m, n)
<1>1. \A q \in Players : m.score[q] \in 0 .. MaxScore
  BY DEF LobbyMemory
<1> QED BY <1>1, MatchAssumption DEF Charges, Calms

LEMMA LoseLifeCharges ==
  ASSUME lobby \in Setups, NEW m \in LobbyMemory, NEW D \in SUBSET Players
  PROVE  LET n == LoseLife(m, D) IN Charges(m, n, D)
<1> DEFINE n == LoseLife(m, D)
<1>1. lobby.lives \in Nat
  BY LobbyFacts
<1>2. /\ n.ready = m.ready /\ n.score = m.score /\ n.duel = m.duel
      /\ \A q \in Players : q \notin D => n.lives[q] = m.lives[q]
  BY <1>1, LoseLifeEffect
<1> HIDE DEF n
<1>3. \A q \in Players : m.lives[q] \in 0 .. lobby.lives
  BY DEF LobbyMemory
<1>4. \A q \in Players : n.lives[q] < m.lives[q] => q \in D
  BY <1>1, <1>2, <1>3
<1>5. Charges(m, n, D)
  BY <1>2, <1>4 DEF Charges, SameByes
<1> QED BY <1>5 DEF n

LEMMA ChargeAndEliminateCharges ==
  ASSUME lobby \in Setups, NEW m \in LobbyMemory, AwayAlive(m),
         NEW losers \in SUBSET ActivePlayers(m)
  PROVE  LET n == ChargeAndEliminate(m, losers) IN Charges(m, n, losers)
<1> DEFINE A == ActivePlayers(m)
           b == ClearBlind(m, A)
           c == LoseLife(b, losers)
           e == EliminateWithoutRound(c)
           f == ClearFirstReady(e, ActivePlayers(e))
           n == ChargeAndEliminate(m, losers)
<1>1. n \in {f, StartDuelRound(f)}
  BY DEF ChargeAndEliminate
<1>2. A \in SUBSET Players /\ losers \in SUBSET Players
  BY ActiveSubset
<1> HIDE DEF A, n
<1>3. b \in LobbyMemory /\ Spares(m, b)
  BY <1>2, ClearBlindEffect, ClearedSpares
<1>4. b.place = m.place /\ b.inMatch = m.inMatch /\ b.lives = m.lives
  BY <1>2, ClearBlindEffect
<1> HIDE DEF b
<1>5. ActivePlayers(b) = ActivePlayers(m)
  BY <1>4 DEF ActivePlayers, SeatedPlayers
<1>6. AwayAlive(b)
  BY <1>4 DEF AwayAlive
<1>7. c \in LobbyMemory /\ AwayAlive(c)
  BY <1>3, <1>5, <1>6, LoseLifeSound
<1>8. Charges(b, c, losers)
  BY <1>2, <1>3, LoseLifeCharges
<1> HIDE DEF c
<1>9. e \in LobbyMemory /\ Spares(c, e)
  BY <1>7, EliminateSound, EliminateSpares
<1> HIDE DEF e
<1>10. ActivePlayers(e) \in SUBSET Players
  BY ActiveSubset
<1>11. f \in LobbyMemory /\ Spares(e, f)
  BY <1>9, <1>10, ClearFirstReadyEffect, ClearedSpares
<1> HIDE DEF f
<1>12. Spares(f, n)
  BY <1>1, <1>11, SparesSelf, StartDuelRoundSpares
<1>13. Spares(c, n)
  BY <1>9, <1>11, <1>12, SparesTransitive
<1>14. Charges(m, n, losers)
  BY <1>3, <1>8, <1>13, ChargesTransitive
<1> QED BY <1>14 DEF n

LEMMA ReconcileCharges ==
  ASSUME lobby \in Setups, NEW m \in LobbyMemory, AwayAlive(m)
  PROVE  LET n == ReconcileActiveMatchState(m) IN Charges(m, n, Losers(m))
<1>1. ReconcileActiveMatchState(m) \in {m, FinishMatch(m), ChargeAndEliminate(m, Losers(m))}
  BY DEF ReconcileActiveMatchState, ResolveBlind
<1>2. Charges(m, ChargeAndEliminate(m, Losers(m)), Losers(m))
  BY LosersActive, ChargeAndEliminateCharges
<1> QED BY <1>1, <1>2, SparesSelf, FinishMatchSpares, SparesCharges

\* Who loses a blind was beaten, or has a bye it has not won.
LEMMA LosersBeaten ==
  ASSUME lobby \in Setups, NEW m \in LobbyMemory, NEW p \in Losers(m)
  PROVE  \/ Duels /\ HasBye(m, p) /\ m.duel.result[p] # "won"
         \/ \E q \in Players : m.score[q] > m.score[p] /\ (Duels => m.duel.pair[p] = q)
<1> DEFINE A == ActivePlayers(m)
<1>1. CASE Duels
  <2>1. LosesDuel(m, p)
    BY <1>1 DEF Losers
  <2>2. Opponents(m, p) \subseteq Players
    BY ActiveSubset DEF Opponents
  <2> QED BY <1>1, <2>1, <2>2 DEF LosesDuel, Opponents
<1>2. CASE ~Duels
  <2> DEFINE v == [q \in A |-> m.score[q]]
             count == WinnerCount(Cardinality(A), lobby.winners, Cardinality(lobby.seats))
  <2>1. p \in A /\ p \notin Winners(lobby.rule, Scores(m, A), count)
    BY <1>2 DEF Losers
  <2>2. Scores(m, A) = Table(v)
    BY DEF Scores, Table
  <2>3. A \in SUBSET Players /\ IsFiniteSet(A) /\ A # {}
    BY <2>1, ActiveSubset, FS_Subset, MatchAssumption
  <2>4. v \in [A -> Nat]
    <3>1. \A q \in A : m.score[q] \in 0 .. MaxScore
      BY <2>3 DEF LobbyMemory
    <3> QED BY <3>1, MatchAssumption
  <2>5. Cardinality(A) \in Nat /\ Cardinality(A) > 0
    BY <2>3, FS_CardinalityType, FS_EmptySet
  <2>6. lobby.winners \in Nat /\ Cardinality(lobby.seats) \in Nat
    <3>1. lobby \in Setup /\ lobby.seats \in SUBSET Players
      BY MatchAssumption, LobbyFacts
    <3>2. IsFiniteSet(lobby.seats)
      BY <3>1, FS_Subset, MatchAssumption
    <3> QED BY <3>1, <3>2, FS_CardinalityType DEF Setup
  <2>7. count \in 1 .. Cardinality(A)
    BY <2>5, <2>6, WinnerCountInRange
  <2> HIDE DEF A, count
  <2>8. PICK q \in A : v[q] > v[p]
    BY <2>1, <2>2, <2>3, <2>4, <2>7, LosersAreBeaten
  <2> QED BY <1>2, <2>1, <2>3, <2>8
<1> QED BY <1>1, <1>2

\* p loses a blind to its score: its bye has not beaten its target, or somebody has
\* more, in a duels lobby its opponent.
Beaten(p) ==
  \/ Duels /\ HasBye(g, p) /\ ~ByeBeaten(g, p)
  \/ \E q \in Players : g'.score[q] > g'.score[p] /\ (Duels => g.duel.pair[p] = q)

\* A life lost in a blind is lost to the score or given up by leaving it.
FairLoss(p) ==
  g.inGame /\ g.active[p] # NoRow /\ g'.lives[p] < g.lives[p] =>
    FailPvPTimer(p) \/ ReturnToLobby(p) \/ g'.place[p] = "gone" \/ Beaten(p)

FairLosses == \A p \in ActivePlayers(g) : FairLoss(p)

LEMMA CalmStep ==
  ASSUME SoundInv, ByeKnown(g), NEW m \in LobbyMemory, Calms(g, m), Step(m), g' \in LobbyMemory
  PROVE  ByeKnown(g') /\ g'.lives = m.lives
<1>1. g \in LobbyMemory
  BY InvFacts
<1>2. ByeKnown(m)
  BY <1>1, ByeKnownCalm
<1>3. Spares(m, g')
  BY StepSpares
<1>4. Calms(m, g')
  BY <1>3, SparesCalms
<1>5. ByeKnown(g')
  BY <1>2, <1>4, ByeKnownCalm
<1> QED BY <1>3, <1>5 DEF Spares

\* A handler that charges nobody.
LEMMA QuietStep ==
  ASSUME SoundInv, ByeKnown(g), NEW m \in LobbyMemory, Calms(g, m), m.lives = g.lives, Step(m),
         g' \in LobbyMemory
  PROVE  ByeKnown(g') /\ FairLosses
<1>1. ByeKnown(g') /\ g'.lives = g.lives
  BY CalmStep
<1>2. \A p \in Players : g.lives[p] \in 0 .. lobby.lives
  BY InvFacts DEF LobbyMemory
<1>3. \A p \in Players : ~(g'.lives[p] < g.lives[p])
  BY <1>1, <1>2
<1>4. FairLosses
  BY <1>3, ActiveSubset DEF FairLosses, FairLoss
<1> QED BY <1>1, <1>4

LEMMA SparingStep ==
  ASSUME SoundInv, ByeKnown(g), NEW m \in LobbyMemory, Spares(g, m), Step(m), g' \in LobbyMemory
  PROVE  ByeKnown(g') /\ FairLosses
<1>1. Calms(g, m) /\ m.lives = g.lives
  BY SparesCalms, InvFacts DEF Spares
<1> QED BY <1>1, QuietStep

\* A handler that charges members of D only.
LEMMA ChargingStep ==
  ASSUME SoundInv, ByeKnown(g), NEW m \in LobbyMemory, NEW D, Charges(g, m, D), Step(m),
         g' \in LobbyMemory
  PROVE  ByeKnown(g') /\ \A q \in Players : g'.lives[q] < g.lives[q] => q \in D
<1>1. Calms(g, m)
  BY ChargesCalms, InvFacts
<1> QED BY <1>1, CalmStep DEF Charges

\* A handler that comes to the memory m and has the blind resolved if it is due.
LEMMA ResolvingStep ==
  ASSUME SoundInv, ByeKnown(g), g' \in LobbyMemory,
         NEW m \in LobbyMemory, ByeKnown(m), m.duel.pair = g.duel.pair,
         \A q \in Players : g.duel.result[q] = "won" => m.duel.result[q] = "won",
         NEW n \in LobbyMemory, Charges(m, n, Losers(m)), Step(n)
  PROVE  /\ ByeKnown(g')
         /\ \A p \in Players : m.lives[p] = g.lives[p] /\ g'.lives[p] < g.lives[p] => Beaten(p)
<1>1. Calms(m, n) /\ Spares(n, g')
  BY ChargesCalms, StepSpares
<1>2. ByeKnown(g')
  BY <1>1, ByeKnownCalm, SparesCalms
<1> SUFFICES ASSUME NEW p \in Players, m.lives[p] = g.lives[p], g'.lives[p] < g.lives[p]
             PROVE  Beaten(p)
  BY <1>2
<1>3. n.lives[p] < m.lives[p]
  BY <1>1 DEF Spares
<1>4. p \in Losers(m) /\ g'.score = m.score
  BY <1>1, <1>3 DEF Charges, Spares
<1>5. CASE Duels /\ HasBye(m, p) /\ m.duel.result[p] # "won"
  BY <1>5 DEF ByeKnown, HasBye, Beaten
<1>6. CASE \E q \in Players : m.score[q] > m.score[p] /\ (Duels => m.duel.pair[p] = q)
  BY <1>4, <1>6 DEF Beaten
<1> QED BY <1>4, <1>5, <1>6, LosersBeaten, InvFacts

LEMMA HandPlayedByes ==
  ASSUME g \in LobbyMemory, ByeKnown(g), NEW p \in Players, g.duel.result[p] = "open",
         NEW score \in 0 .. MaxScore, NEW hands \in 0 .. Hands,
         NEW target \in 0 .. MaxScore \cup {NoScore}
  PROVE  LET n == HandPlayed(p, score, hands, target) IN
         /\ ByeKnown(n) /\ n.duel.pair = g.duel.pair
         /\ \A q \in Players : g.duel.result[q] = "won" => n.duel.result[q] = "won"
<1> DEFINE aim == IF HasBye(g, p) /\ target # NoScore THEN target ELSE g.duel.target[p]
           aimed == [g.duel EXCEPT !.target[p] = aim]
           reported == [g EXCEPT !.score[p] = score, !.hands[p] = hands, !.duel = aimed]
           n == HandPlayed(p, score, hands, target)
<1>0. g.duel \in DuelState
  BY DEF LobbyMemory
<1>1. \/ n = Settled(g, p, target)
      \/ n = Settled(reported, p, target)
  <2>1. [g EXCEPT !.score[p] = score, !.hands[p] = hands,
                  !.duel.target[p] = IF HasBye(g, p) /\ target # NoScore THEN target ELSE @]
          = reported
    BY DEF LobbyMemory, DuelState
  <2> QED BY <2>1 DEF HandPlayed
<1>2. aim \in 0 .. MaxScore \cup {NoScore}
  BY <1>0 DEF DuelState
<1> HIDE DEF aim
<1>3. /\ aimed \in DuelState /\ aimed.pair = g.duel.pair /\ aimed.result = g.duel.result
      /\ aimed.target = [g.duel.target EXCEPT ![p] = aim]
  BY <1>0, <1>2 DEF DuelState
<1> HIDE DEF aimed
<1>4. reported \in LobbyMemory
  BY <1>3 DEF LobbyMemory
<1>5. reported.duel = aimed /\ reported.score = [g.score EXCEPT ![p] = score]
  BY <1>3 DEF LobbyMemory
<1> HIDE DEF reported
<1>6. \A q \in Players \ {p} : /\ reported.score[q] = g.score[q]
                               /\ reported.duel.target[q] = g.duel.target[q]
  BY <1>0, <1>3, <1>5 DEF LobbyMemory, DuelState
<1>7. PICK m \in LobbyMemory :
        /\ n = Settled(m, p, target)
        /\ m.duel.pair = g.duel.pair /\ m.duel.result = g.duel.result
        /\ \A q \in Players \ {p} : /\ m.score[q] = g.score[q]
                                    /\ m.duel.target[q] = g.duel.target[q]
  BY <1>1, <1>3, <1>4, <1>5, <1>6
<1> HIDE DEF n
<1>8. ASSUME NEW q \in Players \ {p}, HasBye(m, q), m.duel.result[q] # "won"
      PROVE  ~ByeBeaten(m, q)
  BY <1>7, <1>8 DEF ByeKnown, HasBye, ByeBeaten
<1>9. CASE ~HasBye(m, p)
  <2>1. n = m
    BY <1>7, <1>9 DEF Settled
  <2>2. ByeKnown(m)
    BY <1>8, <1>9 DEF ByeKnown
  <2> QED BY <1>7, <2>1, <2>2 DEF n
<1>10. CASE HasBye(m, p)
  <2> DEFINE result == IF ByeBeaten(m, p) THEN "won"
                       ELSE IF target # NoScore /\ m.hands[p] = 0 THEN "lost"
                            ELSE m.duel.result[p]
             duel == [m.duel EXCEPT !.result[p] = result]
  <2>1. m.duel \in DuelState
    BY DEF LobbyMemory
  <2>2. n = [m EXCEPT !.duel = duel]
    <3>1. [m EXCEPT !.duel.result[p] =
             IF ByeBeaten(m, p) THEN "won"
             ELSE IF target # NoScore /\ m.hands[p] = 0 THEN "lost" ELSE @]
            = [m EXCEPT !.duel = duel]
      BY <2>1 DEF LobbyMemory, DuelState
    <3> QED BY <1>7, <1>10, <3>1 DEF Settled
  <2>3. ByeBeaten(m, p) => result = "won"
    OBVIOUS
  <2> HIDE DEF result
  <2>4. /\ duel.pair = m.duel.pair /\ duel.target = m.duel.target
        /\ duel.result = [m.duel.result EXCEPT ![p] = result]
    BY <2>1 DEF DuelState
  <2> HIDE DEF duel
  <2>5. n.duel = duel /\ n.score = m.score
    BY <2>2 DEF LobbyMemory
  <2>6. /\ n.duel.result[p] = result
        /\ \A q \in Players \ {p} : n.duel.result[q] = m.duel.result[q]
    BY <2>1, <2>4, <2>5 DEF DuelState
  <2>7. \A q \in Players : /\ ByeBeaten(n, q) <=> ByeBeaten(m, q)
                           /\ HasBye(n, q) <=> HasBye(m, q)
    BY <2>4, <2>5 DEF ByeBeaten, HasBye
  <2>8. ByeKnown(n)
    BY <1>8, <2>3, <2>6, <2>7 DEF ByeKnown
  <2> QED BY <1>7, <2>4, <2>5, <2>6, <2>8 DEF n
<1> QED BY <1>9, <1>10

LEMMA PlayHandFair ==
  ASSUME SoundInv, ByeKnown(g), NEW p \in Players, NEW score \in 0 .. MaxScore,
         NEW hands \in 0 .. Hands, NEW target \in 0 .. MaxScore \cup {NoScore},
         PlayHand(p, score, hands, target), g' \in LobbyMemory
  PROVE  ByeKnown(g') /\ FairLosses
<1>0. lobby \in Setups /\ g \in LobbyMemory /\ Sound(g)
  BY InvFacts
<1> DEFINE m == HandPlayed(p, score, hands, target)
           r == ReconcileActiveMatchState(m)
<1>1. g.duel.result[p] = "open" /\ Step(r)
  BY DEF PlayHand
<1>2. m \in LobbyMemory /\ m.inGame = g.inGame /\ m.place = g.place /\ m.inMatch = g.inMatch
      /\ m.lives = g.lives
  BY <1>0, HandPlayedEffect
<1>3. /\ ByeKnown(m) /\ m.duel.pair = g.duel.pair
      /\ \A q \in Players : g.duel.result[q] = "won" => m.duel.result[q] = "won"
  BY <1>0, <1>1, HandPlayedByes
<1> HIDE DEF m
<1>4. Alive(m) /\ AwayAlive(m)
  BY <1>0, <1>2, SoundKept, AliveIsAwayAlive DEF Sound, SameTable
<1>5. r \in LobbyMemory /\ Charges(m, r, Losers(m))
  BY <1>0, <1>2, <1>4, ReconcileSound, ReconcileCharges
<1> HIDE DEF r
<1>6. /\ ByeKnown(g')
      /\ \A q \in Players : m.lives[q] = g.lives[q] /\ g'.lives[q] < g.lives[q] => Beaten(q)
  BY <1>1, <1>2, <1>3, <1>5, ResolvingStep
<1> QED BY <1>2, <1>6, ActiveSubset DEF FairLosses, FairLoss

LEMMA BroadcastCalms ==
  ASSUME lobby \in Setups, NEW m \in LobbyMemory
  PROVE  LET n == BroadcastGlobalBlindStart(m) IN Calms(m, n)
<1> DEFINE n == BroadcastGlobalBlindStart(m)
<1>1. /\ n.duel = m.duel
      /\ \A q \in Players : /\ n.ready[q] \in {m.ready[q], NoRow}
                            /\ n.score[q] \in {m.score[q], 0}
  BY BroadcastEffect
<1>2. \A q \in Players : m.score[q] \in 0 .. MaxScore
  BY DEF LobbyMemory
<1> HIDE DEF n
<1>3. \A q \in Players : n.score[q] <= m.score[q]
  BY <1>1, <1>2, MatchAssumption
<1>4. Calms(m, n)
  BY <1>1, <1>3 DEF Calms, SameByes
<1> QED BY <1>4 DEF n

LEMMA ReadyBlindFair ==
  ASSUME SoundInv, ByeKnown(g), NEW p \in Players, NEW row \in Rows, ReadyBlind(p, row),
         g' \in LobbyMemory
  PROVE  ByeKnown(g') /\ FairLosses
<1>0. lobby \in Setups /\ g \in LobbyMemory
  BY InvFacts
<1> DEFINE own == Duels /\ HasBye(g, p)
           m == MarkReady(g, p, row, own)
           b == BroadcastGlobalBlindStart(m)
<1>1. Step(m) \/ Step(b)
  BY DEF ReadyBlind
<1>2. own \in BOOLEAN
  OBVIOUS
<1> HIDE DEF own
<1>3. /\ m \in LobbyMemory
      /\ m.inGame = g.inGame /\ m.place = g.place /\ m.inMatch = g.inMatch
      /\ m.lives = g.lives /\ m.blocker = g.blocker /\ m.active = g.active
      /\ m.score = g.score /\ m.hands = g.hands /\ m.timer = g.timer /\ m.duel = g.duel
      /\ m.ready = [g.ready EXCEPT ![p] = row]
      /\ m.readyOwn = [g.readyOwn EXCEPT ![p] = own]
      /\ Keeps(g, m, {})
  BY <1>0, <1>2, MarkReadyEffect
<1> HIDE DEF m
<1>4. b \in LobbyMemory /\ b.lives = m.lives /\ Calms(m, b)
  BY <1>0, <1>3, BroadcastEffect, BroadcastCalms
<1> HIDE DEF b
<1>5. ByeKnown(m)
  BY <1>3 DEF ByeKnown, HasBye, ByeBeaten
<1>6. ByeKnown(b)
  BY <1>3, <1>4, <1>5, ByeKnownCalm
<1>7. PICK n \in LobbyMemory : n.lives = g.lives /\ ByeKnown(n) /\ Step(n)
  BY <1>1, <1>3, <1>4, <1>5, <1>6
<1>8. Spares(n, g')
  BY <1>7, StepSpares
<1>9. ByeKnown(g')
  BY <1>7, <1>8, SparesCalms, ByeKnownCalm
<1>10. \A q \in Players : g.lives[q] \in 0 .. lobby.lives
  BY <1>0 DEF LobbyMemory
<1>11. \A q \in Players : ~(g'.lives[q] < g.lives[q])
  BY <1>7, <1>8, <1>10 DEF Spares
<1> QED BY <1>9, <1>11, ActiveSubset DEF FairLosses, FairLoss

LEMMA SetFurthestBlindFair ==
  ASSUME SoundInv, ByeKnown(g), NEW p \in Players, NEW blind \in 0 .. MaxBlind,
         SetFurthestBlind(p, blind), g' \in LobbyMemory
  PROVE  ByeKnown(g') /\ FairLosses
<1>0. lobby \in Setups /\ g \in LobbyMemory /\ Sound(g)
  BY InvFacts
<1> DEFINE far == Larger(g.furthest[p], blind)
           m == [g EXCEPT !.furthest[p] = far]
           r == ResolveSurvival(m)
<1>1. lobby.survival /\ (Step(m) \/ Step(r))
  <2>1. [g EXCEPT !.furthest[p] = Larger(@, blind)] = m
    BY <1>0 DEF LobbyMemory
  <2> QED BY <2>1 DEF SetFurthestBlind
<1>2. far \in 0 .. MaxBlind
  BY <1>0 DEF LobbyMemory, Larger
<1> HIDE DEF far
<1>3. /\ m \in LobbyMemory
      /\ m.inGame = g.inGame /\ m.place = g.place /\ m.inMatch = g.inMatch
      /\ m.lives = g.lives /\ m.score = g.score /\ m.ready = g.ready /\ m.duel = g.duel
  BY <1>0, <1>2 DEF LobbyMemory
<1> HIDE DEF m
<1>4. Spares(g, m) /\ Sound(m) /\ AwayAlive(m)
  BY <1>0, <1>3, SoundKept, AliveIsAwayAlive DEF Sound, SameTable, Spares, SameByes
<1>5. r \in LobbyMemory /\ Spares(m, r)
  BY <1>0, <1>1, <1>3, <1>4, ResolveSurvivalSound, ResolveLossesSpares DEF Sound
<1> HIDE DEF r
<1> QED BY <1>1, <1>3, <1>4, <1>5, SparesTransitive, SparingStep

LEMMA UnreadyBlindFair ==
  ASSUME SoundInv, ByeKnown(g), NEW p \in Players, UnreadyBlind(p), g' \in LobbyMemory
  PROVE  ByeKnown(g') /\ FairLosses
<1>0. g \in LobbyMemory
  BY InvFacts
<1> DEFINE r == ReleaseController(g, p)
           m == [r EXCEPT !.ready[p] = NoRow, !.readyOwn[p] = FALSE]
<1>1. Step(m)
  BY DEF UnreadyBlind
<1>2. /\ r \in LobbyMemory
      /\ r.lives = g.lives /\ r.score = g.score /\ r.ready = g.ready /\ r.duel = g.duel
  BY <1>0, ReleaseControllerEffect, RetimedMemory
<1> HIDE DEF r
<1>3. m \in LobbyMemory
  BY <1>2 DEF LobbyMemory
<1>4. /\ m.lives = g.lives /\ m.score = g.score /\ m.duel = g.duel
      /\ \A q \in Players : m.ready[q] \in {g.ready[q], NoRow}
  BY <1>0, <1>2 DEF LobbyMemory
<1> HIDE DEF m
<1>5. Spares(g, m)
  BY <1>4 DEF Spares, SameByes
<1> QED BY <1>1, <1>3, <1>5, SparingStep

LEMMA NewRoundFair ==
  ASSUME SoundInv, ByeKnown(g), NEW p \in Players, NewRound(p), g' \in LobbyMemory
  PROVE  ByeKnown(g') /\ FairLosses
<1>0. g \in LobbyMemory
  BY InvFacts
<1> DEFINE m == [g EXCEPT !.blocker[p] = FALSE]
<1>1. Step(m)
  BY DEF NewRound
<1>2. m \in LobbyMemory
  BY <1>0 DEF LobbyMemory
<1>3. m.lives = g.lives /\ m.score = g.score /\ m.ready = g.ready /\ m.duel = g.duel
  BY <1>0 DEF LobbyMemory
<1> HIDE DEF m
<1>4. Spares(g, m)
  BY <1>3 DEF Spares, SameByes
<1> QED BY <1>1, <1>2, <1>4, SparingStep

LEMMA TimerHandlersFair ==
  ASSUME SoundInv, ByeKnown(g), g' \in LobbyMemory,
         \/ \E p \in Players : SetAnte(p) \/ StartAnteTimer(p) \/ PauseAnteTimer(p)
         \/ Tick
  PROVE  ByeKnown(g') /\ FairLosses
<1>1. PICK m : Retimed(g, m) /\ Step(m)
  BY TimerHandlersRetime
<1>2. m \in LobbyMemory /\ Spares(g, m)
  BY <1>1, InvFacts, RetimedMemory, RetimedSpares
<1> QED BY <1>1, <1>2, SparingStep

LEMMA ReserveFair ==
  ASSUME SoundInv, ByeKnown(g), NEW p \in Players, Step(Reserve(g, p)), g' \in LobbyMemory
  PROVE  ByeKnown(g') /\ FairLosses
<1>0. lobby \in Setups /\ g \in LobbyMemory
  BY InvFacts
<1> DEFINE m == Reserve(g, p)
<1>1. /\ m \in LobbyMemory
      /\ m.lives = g.lives /\ m.duel = g.duel /\ m.score = g.score
      /\ m.ready = [g.ready EXCEPT ![p] = NoRow]
  BY <1>0, ReserveEffect
<1>2. Step(m)
  OBVIOUS
<1> HIDE DEF m
<1>3. \A q \in Players : m.ready[q] \in {g.ready[q], NoRow}
  BY <1>0, <1>1 DEF LobbyMemory
<1>4. Spares(g, m)
  BY <1>1, <1>3 DEF Spares, SameByes
<1> QED BY <1>1, <1>2, <1>4, SparingStep

LEMMA RejoinLobbyFair ==
  ASSUME SoundInv, ByeKnown(g), NEW p \in Players, RejoinLobby(p), g' \in LobbyMemory
  PROVE  ByeKnown(g') /\ FairLosses
<1>0. lobby \in Setups /\ g \in LobbyMemory /\ Sound(g)
  BY InvFacts
<1> DEFINE m == [g EXCEPT !.place[p] = "seated"]
           r == ReconcileActiveMatchState(m)
<1>1. g.place[p] = "away" /\ Step(r)
  BY DEF RejoinLobby
<1>2. m \in LobbyMemory
  BY <1>0 DEF LobbyMemory
<1>3. /\ m.inMatch = g.inMatch /\ m.lives = g.lives /\ m.duel = g.duel /\ m.score = g.score
      /\ m.place = [g.place EXCEPT ![p] = "seated"]
  BY <1>0 DEF LobbyMemory
<1> HIDE DEF m
<1>4. \A q \in Players : m.place[q] = IF q = p THEN "seated" ELSE g.place[q]
  BY <1>0, <1>3 DEF LobbyMemory
<1>5. Alive(m) /\ AwayAlive(m)
  BY <1>0, <1>1, <1>3, <1>4, AliveIsAwayAlive DEF Sound, Alive, Playing, Present
<1>6. r \in LobbyMemory /\ Charges(m, r, Losers(m))
  BY <1>0, <1>2, <1>5, ReconcileSound, ReconcileCharges
<1> HIDE DEF r
<1>7. ByeKnown(m) /\ m.duel.pair = g.duel.pair /\ m.duel.result = g.duel.result
  BY <1>3 DEF ByeKnown, HasBye, ByeBeaten
<1>8. /\ ByeKnown(g')
      /\ \A q \in Players : m.lives[q] = g.lives[q] /\ g'.lives[q] < g.lives[q] => Beaten(q)
  BY <1>1, <1>2, <1>6, <1>7, ResolvingStep
<1> QED BY <1>3, <1>8, ActiveSubset DEF FairLosses, FairLoss

LEMMA ExpireTimerCalms ==
  ASSUME lobby \in Setups, NEW m \in LobbyMemory, Sound(m)
  PROVE  LET n == ExpireTimer(m) IN Calms(m, n)
<1> DEFINE late == {p \in ActivePlayers(m) : ~ReadyForPvp(m, p)}
           pardoned == {p \in late : HasForgiveness(m, p)}
           D == late \ pardoned
           w == Pardoned(m, pardoned)
           h == LoseLife(w, D)
           r == ResolveLosses(h)
<1>1. ExpireTimer(m) = IF late = {} THEN SetPaused(m) ELSE r
  BY DEF ExpireTimer, Pardoned
<1>2. CASE ExpireTimer(m) = SetPaused(m)
  BY <1>2, SetPausedEffect, RetimedSpares, SparesCalms
<1>3. CASE ExpireTimer(m) = r
  <2>1. pardoned \in SUBSET Players /\ \A p \in pardoned : HasForgiveness(m, p)
    BY ActiveSubset
  <2>2. D \in SUBSET ActivePlayers(m) /\ D \in SUBSET Players
    BY ActiveSubset
  <2> HIDE DEF pardoned, D
  <2>3. /\ w \in LobbyMemory
        /\ w.inGame = m.inGame /\ w.place = m.place /\ w.inMatch = m.inMatch
        /\ w.lives = m.lives /\ w.ready = m.ready /\ w.score = m.score /\ w.duel = m.duel
    BY <2>1, PardonedEffect
  <2> HIDE DEF w
  <2>4. AwayAlive(w) /\ Enough(w) /\ D \in SUBSET ActivePlayers(w)
    BY <2>2, <2>3, SoundKept, SameTableQueries, AliveIsAwayAlive DEF SameTable, Sound
  <2>5. h \in LobbyMemory /\ AwayAlive(h) /\ Enough(h)
    BY <2>3, <2>4, LoseLifeSound
  <2>6. Charges(w, h, D)
    BY <2>2, <2>3, LoseLifeCharges
  <2> HIDE DEF h
  <2>7. r \in LobbyMemory /\ Spares(h, r)
    BY <2>5, ResolveLossesSound, ResolveLossesSpares
  <2> HIDE DEF r
  <2>8. Spares(m, w)
    BY <2>3 DEF Spares, SameByes
  <2>9. Charges(m, r, D)
    BY <2>6, <2>7, <2>8, ChargesTransitive
  <2>10. Calms(m, r)
    BY <2>9, ChargesCalms
  <2> QED BY <1>3, <2>10
<1> QED BY <1>1, <1>2, <1>3

\* A running timer means that nobody is in a blind.
LEMMA TimedIdle ==
  ASSUME SoundInv, OrderlyInv, Disciplined, g.timer.started
  PROVE  FairLosses
<1>1. Idle(g)
  BY OrderFacts DEF Orderly, OneBlind
<1> QED BY <1>1, ParticipantFacts, InvFacts DEF Idle, FairLosses, FairLoss

\* Who is charged at its own table is in no blind.
LEMMA OwnTableFair ==
  ASSUME SoundInv, OrderlyInv, Disciplined, NEW p \in Players, g.active[p] = NoRow,
         \A q \in Players : g'.lives[q] < g.lives[q] => q \in {p}
  PROVE  FairLosses
BY ActiveSubset DEF FairLosses, FairLoss

LEMMA ChargeOneCharges ==
  ASSUME SoundInv, NEW p \in ActivePlayers(g)
  PROVE  LET n == ResolveLosses(LoseLife(g, {p})) IN n \in LobbyMemory /\ Charges(g, n, {p})
<1>0. lobby \in Setups /\ g \in LobbyMemory /\ Sound(g) /\ AwayAlive(g) /\ Enough(g)
  BY InvFacts
<1> DEFINE h == LoseLife(g, {p})
           r == ResolveLosses(h)
<1>1. {p} \in SUBSET ActivePlayers(g) /\ {p} \in SUBSET Players
  BY ActiveSubset
<1>2. h \in LobbyMemory /\ AwayAlive(h) /\ Enough(h)
  BY <1>0, <1>1, LoseLifeSound
<1>3. Charges(g, h, {p})
  BY <1>0, <1>1, LoseLifeCharges
<1> HIDE DEF h
<1>4. r \in LobbyMemory /\ Spares(h, r)
  BY <1>0, <1>2, ResolveLossesSound, ResolveLossesSpares
<1> HIDE DEF r
<1>5. Charges(g, r, {p})
  BY <1>3, <1>4, SparesSelf, ChargesTransitive
<1> QED BY <1>4, <1>5 DEF r, h

LEMMA FailRoundFair ==
  ASSUME SoundInv, ByeKnown(g), NEW p \in Players, FailRound(p), g' \in LobbyMemory
  PROVE  ByeKnown(g') /\ (OrderlyInv /\ Disciplined => FairLosses)
<1>0. lobby \in Setups /\ g \in LobbyMemory /\ Sound(g) /\ AwayAlive(g) /\ Enough(g)
  BY InvFacts
<1>1. p \in ActivePlayers(g)
  BY DEF FailRound, InPlay
<1>2. CASE Duels /\ HasBye(g, p)
  <2> DEFINE result == IF ByeBeaten(g, p) THEN "won"
                       ELSE IF g.duel.result[p] = "open" THEN "lost" ELSE g.duel.result[p]
             duel == [g.duel EXCEPT !.result[p] = result]
             m == [g EXCEPT !.duel = duel]
             r == ReconcileActiveMatchState(m)
  <2>1. [g EXCEPT !.duel.result[p] = result] = m
    BY <1>0 DEF LobbyMemory
  <2>2. Step(r)
    BY <1>2, <2>1 DEF FailRound
  <2>3. g.duel \in DuelState /\ result \in {"open", "won", "lost"}
    BY <1>0 DEF LobbyMemory, DuelState
  <2>4. (ByeBeaten(g, p) => result = "won") /\ (g.duel.result[p] = "won" => result = "won")
    OBVIOUS
  <2> HIDE DEF result
  <2>5. /\ duel \in DuelState /\ duel.byes = g.duel.byes /\ duel.last = g.duel.last
        /\ duel.round = g.duel.round /\ duel.due = g.duel.due
        /\ duel.pair = g.duel.pair /\ duel.target = g.duel.target
        /\ duel.result = [g.duel.result EXCEPT ![p] = result]
    BY <2>3 DEF DuelState
  <2> HIDE DEF duel
  <2>6. m.duel = duel
    BY <1>0 DEF LobbyMemory
  <2>7. Paired(g, m)
    BY <2>5, <2>6 DEF Paired
  <2> HIDE DEF m
  <2>8. /\ m \in LobbyMemory
        /\ m.inGame = g.inGame /\ m.place = g.place /\ m.inMatch = g.inMatch
        /\ m.lives = g.lives /\ m.score = g.score
    BY <1>0, <2>7, PairedEffect
  <2>9. Alive(m) /\ AwayAlive(m)
    BY <1>0, <2>8, SoundKept, AliveIsAwayAlive DEF Sound, SameTable
  <2>10. r \in LobbyMemory /\ Charges(m, r, Losers(m))
    BY <1>0, <2>8, <2>9, ReconcileSound, ReconcileCharges
  <2> HIDE DEF r
  <2>11. /\ m.duel.result[p] = result
         /\ \A q \in Players \ {p} : m.duel.result[q] = g.duel.result[q]
    BY <2>3, <2>5, <2>6 DEF DuelState
  <2>12. \A q \in Players : /\ ByeBeaten(m, q) <=> ByeBeaten(g, q)
                            /\ HasBye(m, q) <=> HasBye(g, q)
    BY <2>5, <2>6, <2>8 DEF ByeBeaten, HasBye
  <2>13. /\ ByeKnown(m) /\ m.duel.pair = g.duel.pair
         /\ \A q \in Players : g.duel.result[q] = "won" => m.duel.result[q] = "won"
    BY <2>4, <2>5, <2>6, <2>11, <2>12 DEF ByeKnown
  <2>14. /\ ByeKnown(g')
         /\ \A q \in Players : m.lives[q] = g.lives[q] /\ g'.lives[q] < g.lives[q] => Beaten(q)
    BY <2>2, <2>8, <2>10, <2>13, ResolvingStep
  <2> QED BY <2>8, <2>14, ActiveSubset DEF FairLosses, FairLoss
<1>3. CASE ~(Duels /\ HasBye(g, p))
  <2> DEFINE c == ResolveLosses(LoseLife(g, {p}))
             r == ResolveLosses(g)
  <2>1. (Step(c) \/ Step(r)) /\ (Disciplined => g.active[p] = NoRow)
    BY <1>3 DEF FailRound, AtOwnTable
  <2>2. c \in LobbyMemory /\ Charges(g, c, {p})
    BY <1>1, ChargeOneCharges
  <2> HIDE DEF c
  <2>3. r \in LobbyMemory /\ Spares(g, r)
    BY <1>0, ResolveLossesSound, ResolveLossesSpares
  <2> HIDE DEF r
  <2>4. Charges(g, r, {p})
    BY <1>0, <2>3, SparesCharges
  <2>5. ByeKnown(g') /\ \A q \in Players : g'.lives[q] < g.lives[q] => q \in {p}
    BY <2>1, <2>2, <2>3, <2>4, ChargingStep
  <2> QED BY <2>1, <2>5, OwnTableFair
<1> QED BY <1>2, <1>3

LEMMA FailTimerFair ==
  ASSUME SoundInv, ByeKnown(g), NEW p \in Players, FailTimer(p), g' \in LobbyMemory
  PROVE  ByeKnown(g') /\ (OrderlyInv /\ Disciplined => FairLosses)
<1>0. lobby \in Setups /\ g \in LobbyMemory /\ Sound(g)
  BY InvFacts
<1>1. CASE TimerIsDue(g) /\ Step(ExpireTimer(g))
  <2> DEFINE m == ExpireTimer(g)
  <2>1. m \in LobbyMemory /\ Calms(g, m)
    BY <1>0, ExpireTimerSound, ExpireTimerCalms
  <2>2. Step(m)
    BY <1>1
  <2> HIDE DEF m
  <2>3. ByeKnown(g')
    BY <2>1, <2>2, CalmStep
  <2> QED BY <1>1, <2>3, TimedIdle DEF TimerIsDue
<1>2. CASE AtOwnTable(p) /\ Step(ResolveLosses(LoseLife(g, {p})))
  <2> DEFINE c == ResolveLosses(LoseLife(g, {p}))
  <2>1. p \in ActivePlayers(g)
    BY DEF FailTimer, InPlay
  <2>2. c \in LobbyMemory /\ Charges(g, c, {p})
    BY <2>1, ChargeOneCharges
  <2>3. Step(c)
    BY <1>2
  <2> HIDE DEF c
  <2>4. ByeKnown(g') /\ \A q \in Players : g'.lives[q] < g.lives[q] => q \in {p}
    BY <2>2, <2>3, ChargingStep
  <2> QED BY <1>2, <2>4, OwnTableFair DEF AtOwnTable
<1> QED BY <1>1, <1>2 DEF FailTimer, ReportedTimeout

LEMMA ExpireAnteTimerFair ==
  ASSUME SoundInv, ByeKnown(g), ExpireAnteTimer, g' \in LobbyMemory
  PROVE  ByeKnown(g') /\ (OrderlyInv /\ Disciplined => FairLosses)
<1>0. lobby \in Setups /\ g \in LobbyMemory /\ Sound(g)
  BY InvFacts
<1> DEFINE lapsed == g.timer.left > 0
           timer == [g.timer EXCEPT !.armed = FALSE, !.lapsed = lapsed]
           m == [g EXCEPT !.timer = timer]
           x == ExpireTimer(m)
<1>1. Step(m) \/ (TimerIsDue(m) /\ Step(x))
  <2>1. [g EXCEPT !.timer.armed = FALSE, !.timer.lapsed = g.timer.left > 0] = m
    BY <1>0 DEF LobbyMemory
  <2> QED BY <2>1 DEF ExpireAnteTimer
<1>2. timer \in AnteTimer /\ timer.started = g.timer.started
  <2>1. lapsed \in BOOLEAN
    OBVIOUS
  <2> HIDE DEF lapsed
  <2> QED BY <1>0, <2>1 DEF LobbyMemory, AnteTimer
<1> HIDE DEF timer
<1>3. Retimed(g, m) /\ m.timer = timer
  BY <1>0, <1>2 DEF LobbyMemory, Retimed
<1> HIDE DEF m
<1>4. m \in LobbyMemory /\ Sound(m) /\ Spares(g, m)
  BY <1>0, <1>3, RetimedSound, RetimedSpares
<1>5. x \in LobbyMemory /\ Calms(m, x)
  BY <1>0, <1>4, ExpireTimerSound, ExpireTimerCalms
<1> HIDE DEF x
<1>6. CASE Step(m)
  BY <1>4, <1>6, SparingStep
<1>7. CASE TimerIsDue(m) /\ Step(x)
  <2>1. Calms(g, x)
    BY <1>0, <1>4, <1>5, SparesCalms, CalmsTransitive
  <2>2. ByeKnown(g')
    BY <1>5, <1>7, <2>1, CalmStep
  <2>3. g.timer.started
    BY <1>2, <1>3, <1>7 DEF TimerIsDue
  <2> QED BY <2>2, <2>3, TimedIdle
<1> QED BY <1>1, <1>6, <1>7

LEMMA FailPvPTimerFair ==
  ASSUME SoundInv, ByeKnown(g), NEW p \in Players, FailPvPTimer(p), g' \in LobbyMemory
  PROVE  ByeKnown(g') /\ FairLosses
<1>0. lobby \in Setups /\ g \in LobbyMemory /\ Sound(g) /\ AwayAlive(g) /\ Enough(g)
  BY InvFacts
<1> DEFINE h == LoseLife(g, {p})
           r == ResolveSoloEliminations(h)
           pair == ActivePlayers(g)
           b == ClearBlind(h, pair)
           c == ClearFirstReady(b, pair)
<1>1. p \in ActivePlayers(g) /\ {p} \in SUBSET Players /\ {p} \in SUBSET ActivePlayers(g)
  BY DEF FailPvPTimer, InPlay
<1>2. Step(h) \/ Step(r) \/ Step(c)
  BY DEF FailPvPTimer
<1>3. h \in LobbyMemory /\ AwayAlive(h)
  BY <1>0, <1>1, LoseLifeSound
<1>4. Charges(g, h, {p})
  BY <1>0, <1>1, LoseLifeCharges
<1> HIDE DEF h
<1>5. r \in LobbyMemory /\ Spares(h, r)
  BY <1>0, <1>3, ResolveSoloEliminationsSound, ResolveLossesSpares
<1> HIDE DEF r
<1>6. pair \in SUBSET Players
  BY ActiveSubset
<1>7. b \in LobbyMemory /\ Spares(h, b)
  BY <1>3, <1>6, ClearBlindEffect, ClearedSpares
<1> HIDE DEF b
<1>8. c \in LobbyMemory /\ Spares(b, c)
  BY <1>6, <1>7, ClearFirstReadyEffect, ClearedSpares
<1> HIDE DEF c
<1>9. Spares(h, h) /\ Spares(h, c)
  BY <1>7, <1>8, SparesSelf, SparesTransitive
<1>10. PICK n \in LobbyMemory : Spares(h, n) /\ Step(n)
  BY <1>2, <1>3, <1>5, <1>8, <1>9
<1>11. Charges(g, n, {p})
  BY <1>4, <1>10, SparesSelf, ChargesTransitive
<1>12. ByeKnown(g') /\ \A q \in Players : g'.lives[q] < g.lives[q] => q \in {p}
  BY <1>10, <1>11, ChargingStep
<1> QED BY <1>12, ActiveSubset DEF FairLosses, FairLoss

LEMMA ReturnToLobbyFair ==
  ASSUME SoundInv, ByeKnown(g), NEW p \in Players, ReturnToLobby(p), g' \in LobbyMemory
  PROVE  ByeKnown(g') /\ FairLosses
<1>0. lobby \in Setups /\ g \in LobbyMemory /\ Sound(g)
  BY InvFacts
<1> DEFINE m == Back(g, p)
           r == ReconcileActiveMatchState(m)
<1>1. Step(r)
  BY DEF ReturnToLobby, Back
<1>2. /\ m \in LobbyMemory
      /\ m.inGame = g.inGame /\ m.place = g.place /\ m.duel = g.duel
      /\ m.timer = ReleaseController(g, p).timer
      /\ \A q \in Players :
           /\ m.lives[q] = IF q = p THEN 0 ELSE g.lives[q]
           /\ m.score[q] = IF q = p THEN 0 ELSE g.score[q]
           /\ m.inMatch[q] <=> g.inMatch[q] /\ q # p
           /\ m.ready[q] = IF q = p THEN NoRow ELSE g.ready[q]
           /\ m.readyOwn[q] <=> g.readyOwn[q] /\ q # p
           /\ m.active[q] = IF q = p THEN NoRow ELSE g.active[q]
      /\ Keeps(g, m, {p})
  BY <1>0, BackEffect
<1> HIDE DEF m
<1>3. Alive(m) /\ AwayAlive(m)
  BY <1>0, <1>2, AliveIsAwayAlive DEF Sound, Alive, Playing, Present
<1>4. r \in LobbyMemory /\ Charges(m, r, Losers(m))
  BY <1>0, <1>2, <1>3, ReconcileSound, ReconcileCharges
<1> HIDE DEF r
<1>5. \A q \in Players : g.score[q] \in 0 .. MaxScore
  BY <1>0 DEF LobbyMemory
<1>6. Calms(g, m)
  BY <1>2, <1>5, MatchAssumption DEF Calms, SameByes
<1>7. ByeKnown(m)
  BY <1>0, <1>2, <1>6, ByeKnownCalm
<1>8. /\ ByeKnown(g')
      /\ \A q \in Players : m.lives[q] = g.lives[q] /\ g'.lives[q] < g.lives[q] => Beaten(q)
  BY <1>1, <1>2, <1>4, <1>7, ResolvingStep
<1> QED BY <1>2, <1>8, ActiveSubset DEF FairLosses, FairLoss

LEMMA DepartCharges ==
  ASSUME SoundInv, ByeKnown(g), NEW p \in Players
  PROVE  LET e == Left(g, p)
             n == Depart(g, p)
         IN  /\ e \in LobbyMemory /\ ByeKnown(e) /\ e.duel = g.duel
             /\ \A q \in Players : /\ q # p => e.lives[q] = g.lives[q]
                                   /\ e.ready[q] \in {g.ready[q], NoRow}
             /\ n \in LobbyMemory /\ Charges(e, n, Losers(e))
<1>0. lobby \in Setups /\ g \in LobbyMemory /\ Sound(g)
  BY InvFacts
<1> DEFINE e == Left(g, p)
           n == Depart(g, p)
<1>1. n \in {e, ReconcileActiveMatchState(e)}
  BY DEF Depart, Left
<1>2. n \in LobbyMemory
  BY <1>0, DepartSound
<1>3. /\ e \in LobbyMemory
      /\ e.inGame = g.inGame /\ e.duel = g.duel
      /\ e.timer = ReleaseController(g, p).timer
      /\ \A q \in Players :
           /\ e.place[q] = IF q = p THEN "gone" ELSE g.place[q]
           /\ e.lives[q] = IF q = p THEN 0 ELSE g.lives[q]
           /\ e.score[q] = IF q = p THEN 0 ELSE g.score[q]
           /\ e.hands[q] = IF q = p THEN 0 ELSE g.hands[q]
           /\ e.inMatch[q] <=> g.inMatch[q] /\ q # p
           /\ e.ready[q] = IF q = p THEN NoRow ELSE g.ready[q]
           /\ e.readyOwn[q] <=> g.readyOwn[q] /\ q # p
           /\ e.active[q] = IF q = p THEN NoRow ELSE g.active[q]
      /\ Keeps(g, e, {p})
  BY <1>0, LeftEffect
<1> HIDE DEF e, n
<1>4. Alive(e) /\ AwayAlive(e)
  BY <1>0, <1>3, AliveIsAwayAlive DEF Sound, Alive, Playing, Present
<1>5. Charges(e, n, Losers(e))
  BY <1>0, <1>1, <1>3, <1>4, ReconcileCharges, SparesSelf, SparesCharges
<1>6. \A q \in Players : g.score[q] \in 0 .. MaxScore
  BY <1>0 DEF LobbyMemory
<1>7. Calms(g, e)
  BY <1>3, <1>6, MatchAssumption DEF Calms, SameByes
<1>8. ByeKnown(e)
  BY <1>0, <1>3, <1>7, ByeKnownCalm
<1> QED BY <1>2, <1>3, <1>5, <1>8 DEF e, n

LEMMA DepartFair ==
  ASSUME SoundInv, ByeKnown(g), NEW p \in Players, Step(Depart(g, p)), g' \in LobbyMemory
  PROVE  ByeKnown(g') /\ FairLosses
<1> DEFINE e == Left(g, p)
           n == Depart(g, p)
<1>1. /\ e \in LobbyMemory /\ ByeKnown(e) /\ e.duel = g.duel
      /\ \A q \in Players : q # p => e.lives[q] = g.lives[q]
      /\ n \in LobbyMemory /\ Charges(e, n, Losers(e))
  BY DepartCharges
<1>2. Step(n)
  OBVIOUS
<1> HIDE DEF e, n
<1>3. /\ ByeKnown(g')
      /\ \A q \in Players : e.lives[q] = g.lives[q] /\ g'.lives[q] < g.lives[q] => Beaten(q)
  BY <1>1, <1>2, ResolvingStep
<1>4. g'.place[p] = "gone"
  BY DepartStepSound
<1> QED BY <1>1, <1>3, <1>4, ActiveSubset DEF FairLosses, FairLoss

LEMMA ExpireSlotFair ==
  ASSUME SoundInv, ByeKnown(g), NEW p \in Players, ExpireSlot(p), g' \in LobbyMemory
  PROVE  ByeKnown(g') /\ (OrderlyInv /\ Disciplined => FairLosses)
<1>0. lobby \in Setups /\ g \in LobbyMemory
  BY InvFacts
<1> DEFINE e == Left(g, p)
           n == Depart(g, p)
           b == BroadcastGlobalBlindStart(n)
<1>1. Step(TryStartPendingBlind(n))
  BY DEF ExpireSlot
<1>2. /\ e \in LobbyMemory /\ ByeKnown(e)
      /\ \A q \in Players : e.ready[q] \in {g.ready[q], NoRow}
      /\ n \in LobbyMemory /\ Charges(e, n, Losers(e))
  BY DepartCharges
<1>3. \/ Step(n)
      \/ Step(b) /\ \E q \in ActivePlayers(n) : ReadyForPvp(n, q)
  BY <1>1 DEF TryStartPendingBlind
<1>4. CASE Step(n)
  BY <1>4, DepartFair
<1>5. CASE Step(b) /\ \E q \in ActivePlayers(n) : ReadyForPvp(n, q)
  <2> HIDE DEF e, n
  <2>1. b \in LobbyMemory /\ Calms(n, b)
    BY <1>0, <1>2, BroadcastEffect, BroadcastCalms
  <2> HIDE DEF b
  <2>2. Spares(b, g') /\ Calms(e, n)
    BY <1>2, <1>5, <2>1, StepSpares, ChargesCalms
  <2>3. Calms(b, g')
    BY <2>1, <2>2, SparesCalms
  <2>4. ByeKnown(g')
    BY <1>2, <2>1, <2>2, <2>3, ByeKnownCalm
  <2>5. PICK q \in Players : n.ready[q] # NoRow
    BY <1>5, ActiveSubset DEF ReadyForPvp
  <2>6. g.ready[q] # NoRow
    BY <1>2, <2>2, <2>5 DEF Calms
  <2>7. ASSUME OrderlyInv, Disciplined PROVE FairLosses
    <3>1. Orderly(g)
      BY <2>7, OrderFacts
    <3>2. q \in ActivePlayers(g) /\ g.active[q] = NoRow
      BY <2>6, <3>1 DEF Orderly, ReadyWait
    <3>3. Idle(g)
      BY <2>7, <3>2, OwnTableIdle
    <3> QED BY <1>0, <3>3, ParticipantFacts DEF Idle, FairLosses, FairLoss
  <2> QED BY <2>4, <2>7
<1> QED BY <1>3, <1>4, <1>5

LEMMA StartGameFair ==
  ASSUME SoundInv, StartGame, g' \in LobbyMemory
  PROVE  ByeKnown(g') /\ FairLosses
<1>0. lobby \in Setups /\ g \in LobbyMemory
  BY InvFacts
<1> DEFINE S == SeatedPlayers(g)
           m == Begun(S)
           d == StartDuelRound(m)
<1>1. ~g.inGame /\ g' \in Dealt(d)
  BY DEF StartGame, Begun, Prepared
<1>2. S \in SUBSET Players
  BY DEF SeatedPlayers
<1> HIDE DEF S
<1>3. m \in LobbyMemory /\ m.inGame /\ m.duel = NoDuels
  BY <1>0, <1>2, BegunEffect
<1> HIDE DEF m
<1>4. Spares(m, d) /\ Paired(m, d)
  BY <1>3, StartDuelRoundSpares, StartDuelRoundEffect
<1> HIDE DEF d
<1>5. d \in LobbyMemory
  BY <1>3, <1>4, PairedEffect
<1>6. Spares(m, g')
  BY <1>1, <1>4, <1>5, DealtSpares, SparesTransitive
<1>7. ByeKnown(m)
  BY <1>3 DEF ByeKnown, ByeBeaten, NoDuels, Everyone
<1>8. ByeKnown(g')
  BY <1>3, <1>6, <1>7, SparesCalms, ByeKnownCalm
<1> QED BY <1>1, <1>8 DEF FairLosses, FairLoss

LEMMA ByeKnownInit == ASSUME Init PROVE ByeKnown(g)
BY DEF Init, ByeKnown, ByeBeaten, NoDuels, Everyone

LEMMA NextFair ==
  ASSUME SoundInv, ByeKnown(g), Next
  PROVE  ByeKnown(g') /\ (OrderlyInv /\ Disciplined => FairLosses)
<1>0. g' \in LobbyMemory
  BY NextSound DEF Settles
<1>1. CASE StartGame \/ Tick \/ ExpireAnteTimer
  BY <1>0, <1>1, StartGameFair, TimerHandlersFair, ExpireAnteTimerFair
<1>2. ASSUME NEW p \in Players, NEW row \in Rows, ReadyBlind(p, row)
      PROVE  ByeKnown(g') /\ FairLosses
  BY <1>0, <1>2, ReadyBlindFair
<1>3. ASSUME NEW p \in Players, NEW score \in 0 .. MaxScore, NEW hands \in 0 .. Hands,
             NEW target \in 0 .. MaxScore \cup {NoScore}, PlayHand(p, score, hands, target)
      PROVE  ByeKnown(g') /\ FairLosses
  BY <1>0, <1>3, PlayHandFair
<1>4. ASSUME NEW p \in Players, NEW blind \in 0 .. MaxBlind, SetFurthestBlind(p, blind)
      PROVE  ByeKnown(g') /\ FairLosses
  BY <1>0, <1>4, SetFurthestBlindFair
<1>5. ASSUME NEW p \in Players, SetAnte(p) \/ StartAnteTimer(p) \/ PauseAnteTimer(p)
      PROVE  ByeKnown(g') /\ FairLosses
  BY <1>0, <1>5, TimerHandlersFair
<1>6. ASSUME NEW p \in Players,
             \/ UnreadyBlind(p) \/ NewRound(p) \/ FailPvPTimer(p)
             \/ ReturnToLobby(p) \/ RejoinLobby(p)
      PROVE  ByeKnown(g') /\ FairLosses
  BY <1>0, <1>6, UnreadyBlindFair, NewRoundFair, FailPvPTimerFair, ReturnToLobbyFair,
     RejoinLobbyFair
<1>7. ASSUME NEW p \in Players, FailRound(p) \/ FailTimer(p) \/ ExpireSlot(p)
      PROVE  ByeKnown(g') /\ (OrderlyInv /\ Disciplined => FairLosses)
  BY <1>0, <1>7, FailRoundFair, FailTimerFair, ExpireSlotFair
<1>8. ASSUME NEW p \in Players, LeaveLobby(p) \/ Disconnect(p)
      PROVE  ByeKnown(g') /\ FairLosses
  <2>1. Step(Depart(g, p)) \/ Step(Reserve(g, p))
    BY <1>8 DEF LeaveLobby, Disconnect
  <2> QED BY <1>0, <2>1, DepartFair, ReserveFair
<1>9. ASSUME NEW p \in Players,
             \/ \E row \in Rows : ReadyBlind(p, row)
             \/ \E score \in 0 .. MaxScore, hands \in 0 .. Hands,
                   target \in 0 .. MaxScore \cup {NoScore} : PlayHand(p, score, hands, target)
             \/ \E blind \in 0 .. MaxBlind : SetFurthestBlind(p, blind)
      PROVE  ByeKnown(g') /\ FairLosses
  BY <1>2, <1>3, <1>4, <1>9
<1> QED BY <1>1, <1>5, <1>6, <1>7, <1>8, <1>9 DEF Next

\* A tie for the lead costs nobody a life, however the blind comes to its end: who
\* loses one to its score was beaten, whatever the rule, the number of players and
\* their scores, as long as peers report what their own game is in.
THEOREM OnlyBeatenPlayersLoseCorrect == Disciplined => (Spec => OnlyBeatenPlayersLose)
<1> SUFFICES ASSUME Disciplined PROVE Spec => OnlyBeatenPlayersLose
  OBVIOUS
<1> DEFINE Inv == SoundInv /\ OrderlyInv /\ ByeKnown(g)
           Fairly == \A p \in ActivePlayers(g) :
             g.inGame /\ g.active[p] # NoRow /\ g'.lives[p] < g.lives[p] =>
               \/ FailPvPTimer(p) \/ ReturnToLobby(p) \/ g'.place[p] = "gone"
               \/ Duels /\ HasBye(g, p) /\ ~ByeBeaten(g, p)
               \/ \E q \in Players : /\ g'.score[q] > g'.score[p]
                                     /\ Duels => g.duel.pair[p] = q
<1>1. Init => Inv
  BY SoundInit, OrderlyInit, ByeKnownInit
<1>2. Inv /\ [Next]_vars => Inv'
  <2> SUFFICES ASSUME Inv, [Next]_vars PROVE Inv'
    OBVIOUS
  <2>1. (SoundInv /\ OrderlyInv)'
    BY SoundStep, OrderlyStep
  <2>2. CASE Next
    <3>1. ByeKnown(g')
      BY <2>2, NextFair
    <3> QED BY <2>1, <3>1 DEF ByeKnown, HasBye, ByeBeaten
  <2>3. CASE UNCHANGED vars
    BY <2>1, <2>3 DEF vars, ByeKnown, HasBye, ByeBeaten
  <2> QED BY <2>2, <2>3
<1>3. Inv /\ [Next]_vars => [Fairly]_vars
  <2> SUFFICES ASSUME Inv, Next PROVE Fairly
    OBVIOUS
  <2>1. FairLosses
    BY NextFair
  <2> QED BY <2>1 DEF FairLosses, FairLoss, Beaten
<1> QED BY <1>1, <1>2, <1>3, PTL DEF Spec, OnlyBeatenPlayersLose
=============================================================================
