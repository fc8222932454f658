------------------------------ MODULE SoloMatch ------------------------------
(***************************************************************************)
(* The match of one 1v1, ffa or duels lobby: announcing and resolving PvP  *)
(* blinds, lives and eliminations, the pairings and byes of duels, the end *)
(* of survival games, the shared ante timer, and what happens to all of it *)
(* when players leave, drop out and return.                                *)
(*                                                                         *)
(* Each handler is one action on the lobby's memory g.  A player is the    *)
(* same player before, during and after a disconnect; LobbyMembership      *)
(* models how the server keeps track of that.  In these lobbies only PvP   *)
(* blinds are announced, and the own blind of a player with a bye, so a    *)
(* blind is its row.  Scores are plain InsaneInts.                         *)
(***************************************************************************)
EXTENDS ScoreRules

CONSTANTS
  Players,
  Rows,           \* blind rows
  NoRow, NoPlayer, NoScore,
  Setups,         \* the lobbies the run plays in
  Hands, MaxScore,   \* bounds: what peers report of a blind
  MaxMatches,        \* bound: matches the lobby plays
  MaxRounds,         \* bound: rounds of pairings dealt in a duels lobby
  MaxBlind,          \* bound: blinds a survival run gets to
  Disciplined        \* TRUE: peers report what their own game is in

Setup ==
  [type : {"1v1", "ffa", "duels"},
   survival : BOOLEAN,              \* game mode survival, otherwise attrition or showdown
   seats : SUBSET Players,
   rule : Rules, winners : Nat,     \* pvp_score_rule, pvp_custom_winners
   deathOnRoundLoss : BOOLEAN, timed : BOOLEAN, speedlatro : BOOLEAN,
   lives : Nat \ {0}, forgiveness : Nat, time : Nat]

\* a 1v1 lobby has two seats (getLobbyMaxPlayers); every match of a duels lobby
\* begins with a round of pairings
ASSUME MatchAssumption ==
  /\ IsFiniteSet(Players)
  /\ NoRow \notin Rows
  /\ NoPlayer \notin Players
  /\ Setups \subseteq Setup
  /\ \A l \in Setups :
       /\ l.type # "ffa" => l.rule = "highest"
       /\ l.type = "1v1" => Cardinality(l.seats) <= 2
       /\ l.type = "duels" => MaxRounds > 0
  /\ {Hands, MaxMatches} \subseteq Nat \ {0}
  /\ {MaxScore, MaxRounds, MaxBlind} \subseteq Nat
  /\ NoScore \notin 0 .. MaxScore
  /\ Disciplined \in BOOLEAN

VARIABLES
  lobby,  \* the options and the seats of the lobby when the run begins
  g,      \* the memory of the lobby and of its players
  cast,   \* history: the players the last startGame put into the match
  steady, \* history: the players every round of pairings of this match was dealt to
  played  \* history: matches started

vars == <<lobby, g, cast, steady, played>>

Duels == lobby.type = "duels"
HeadToHead == lobby.type = "1v1"

AnteTimer ==
  [started : BOOLEAN, locked : BOOLEAN,  \* lockedForAnte
   left : 0 .. lobby.time,               \* getEffectiveState().time
   armed : BOOLEAN,                      \* expiryTimer is set
   lapsed : BOOLEAN,                     \* history: it fired with time left
   controller : Players \cup {NoPlayer}]

\* the pairings of a duels lobby; who has a bye is paired with itself
DuelState ==
  [pair   : [Players -> Players \cup {NoPlayer}],
   target : [Players -> 0 .. MaxScore \cup {NoScore}],   \* blindTargets
   result : [Players -> {"open", "won", "lost"}],        \* byeResults
   byes   : [Players -> 0 .. MaxRounds],                 \* byeCounts
   last   : Players \cup {NoPlayer},                     \* lastByePlayerId
   round  : 0 .. MaxRounds,                              \* roundIndex
   due    : BOOLEAN]                                     \* the handler deals a round

LobbyMemory ==
  [inGame     : BOOLEAN,
   place      : [Players -> {"seated", "away", "gone"}],  \* away: a reserved slot
   inMatch    : [Players -> BOOLEAN],
   lives      : [Players -> 0 .. lobby.lives],
   blocker    : [Players -> BOOLEAN],                \* livesBlocker
   ready      : [Players -> Rows \cup {NoRow}],      \* isReady, readyBlindRow
   readyOwn   : [Players -> BOOLEAN],                \* readyBlindKind is not 'pvp'
   firstReady : [Players -> BOOLEAN],
   active     : [Players -> Rows \cup {NoRow}],      \* activeBlindStarted, -Row
   score      : [Players -> 0 .. MaxScore],
   hands      : [Players -> 0 .. Hands],
   forgiven   : [Players -> 0 .. lobby.forgiveness],
   furthest   : [Players -> 0 .. MaxBlind],          \* furthestBlind
   timer      : AnteTimer,
   duel       : DuelState]

TypeOK ==
  /\ lobby \in Setups
  /\ g \in LobbyMemory
  /\ ~g.duel.due
  /\ cast \subseteq Players
  /\ steady \subseteq Players
  /\ played \in 0 .. MaxMatches

Everyone(value) == [p \in Players |-> value]

NoDuels ==
  [pair |-> Everyone(NoPlayer), target |-> Everyone(NoScore), result |-> Everyone("open"),
   byes |-> Everyone(0), last |-> NoPlayer, round |-> 0, due |-> FALSE]

Init ==
  /\ lobby \in Setups
  /\ g = [inGame |-> FALSE,
          place |-> [p \in Players |-> IF p \in lobby.seats THEN "seated" ELSE "gone"],
          inMatch |-> Everyone(FALSE), lives |-> Everyone(0), blocker |-> Everyone(FALSE),
          ready |-> Everyone(NoRow), readyOwn |-> Everyone(FALSE),
          firstReady |-> Everyone(FALSE), active |-> Everyone(NoRow),
          score |-> Everyone(0), hands |-> Everyone(0), forgiven |-> Everyone(0),
          furthest |-> Everyone(0),
          timer |-> [started |-> FALSE, locked |-> FALSE, left |-> lobby.time,
                     armed |-> FALSE, lapsed |-> FALSE, controller |-> NoPlayer],
          duel |-> NoDuels]
  /\ cast = {}
  /\ steady = {}
  /\ played = 0

------------------------------------------------------------------------------
(* Queries on a memory s *)

SeatedPlayers(s) == {p \in Players : s.place[p] = "seated"}
ActivePlayers(s) == {p \in SeatedPlayers(s) : s.inMatch[p]}
HasDisconnectedMatchBlocker(s) ==
  \E p \in Players : s.place[p] = "away" /\ s.inMatch[p]
AtMostOne(S) == \A x, y \in S : x = y

HasBye(s, p) == s.duel.pair[p] = p

\* in a duels lobby who has a bye announces its own blind, the others a PvP blind
BlindReadySatisfied(s, row) ==
  /\ ActivePlayers(s) # {}
  /\ \A p \in ActivePlayers(s) : s.ready[p] = row /\ (s.readyOwn[p] <=> Duels /\ HasBye(s, p))

ReadyForPvp(s, p) == s.ready[p] # NoRow /\ ~s.readyOwn[p]

AllStarted(s) == \A p \in ActivePlayers(s) : s.active[p] # NoRow

Scores(s, P) == [p \in P |-> Plain(s.score[p])]
WithHands(s, P) == {p \in P : s.hands[p] > 0}

\* didDuelByeBeatBlindTarget
ByeBeaten(s, p) == s.duel.target[p] # NoScore /\ s.score[p] >= s.duel.target[p]

\* the opponent p meets in this round, if it is still there
Opponents(s, p) == {q \in ActivePlayers(s) \ {p} : s.duel.pair[p] = q}

DuelResolved(s, p) ==
  IF HasBye(s, p) THEN s.duel.result[p] # "open" \/ ByeBeaten(s, p) \/ s.hands[p] = 0
  ELSE \A q \in Opponents(s, p) : PairResolved(Scores(s, {p, q}), WithHands(s, {p, q}))

ShouldResolveBlindNow(s) ==
  LET A == ActivePlayers(s) IN
  IF Duels THEN \A p \in A : DuelResolved(s, p)
  ELSE MayResolve(lobby.rule, Scores(s, A), WithHands(s, A))

\* resolveDuelBye, resolveDuelPair
LosesDuel(s, p) ==
  IF HasBye(s, p)
  THEN \/ s.duel.result[p] = "lost"
       \/ s.duel.result[p] = "open" /\ s.duel.target[p] # NoScore /\ ~ByeBeaten(s, p)
  ELSE \E q \in Opponents(s, p) : s.score[q] > s.score[p]

\* resolveBlindWinnersAndLosers
Losers(s) ==
  LET A == ActivePlayers(s)
      count == WinnerCount(Cardinality(A), lobby.winners, Cardinality(lobby.seats))
  IN  IF Duels THEN {p \in A : LosesDuel(s, p)}
      ELSE A \ Winners(lobby.rule, Scores(s, A), count)

------------------------------------------------------------------------------
(* The ante timer.  Every change of generation also clears the callback, so a
   callback that fires is always one of the current generation. *)

ResetTimer(s) ==
  [s EXCEPT !.timer = [started |-> FALSE, locked |-> FALSE, left |-> lobby.time,
                       armed |-> FALSE, lapsed |-> FALSE, controller |-> NoPlayer]]

SetRunningUnscheduled(s) ==  \* fault: no expiry is scheduled
  [s EXCEPT !.timer.started = TRUE, !.timer.locked = TRUE, !.timer.lapsed = FALSE,
            !.timer.left = IF s.timer.locked THEN @ ELSE lobby.time]

SetRunning(s) ==
  [s EXCEPT !.timer.started = TRUE, !.timer.locked = TRUE, !.timer.armed = TRUE,
            !.timer.lapsed = FALSE,
            !.timer.left = IF s.timer.locked THEN @ ELSE lobby.time]

SetPaused(s) ==
  [s EXCEPT !.timer.started = FALSE, !.timer.locked = TRUE, !.timer.armed = FALSE,
            !.timer.lapsed = FALSE]

ReleaseForgetful(s, p) ==  \* fault: the clock of a departed controller runs on
  IF s.timer.controller # p THEN s ELSE [s EXCEPT !.timer.controller = NoPlayer]

ReleaseController(s, p) ==
  IF s.timer.controller # p THEN s
  ELSE LET stopped == IF s.timer.started THEN SetPaused(s) ELSE s
       IN  [stopped EXCEPT !.timer.controller = NoPlayer]

------------------------------------------------------------------------------
(* Lives and outcomes *)

\* clearPlayerMatchParticipation for the players in D
ClearParticipation(s, D) ==
  [s EXCEPT !.inMatch = [p \in Players |-> @[p] /\ p \notin D],
            !.blocker = [p \in Players |-> @[p] /\ p \notin D],
            !.firstReady = [p \in Players |-> @[p] /\ p \notin D],
            !.ready = [p \in Players |-> IF p \in D THEN NoRow ELSE @[p]],
            !.readyOwn = [p \in Players |-> @[p] /\ p \notin D],
            !.active = [p \in Players |-> IF p \in D THEN NoRow ELSE @[p]]]

LoseLifeUnblocked(s, D) ==  \* fault: the blocker is not asked
  [s EXCEPT !.lives = [p \in Players |-> IF p \in D /\ @[p] > 0 THEN @[p] - 1 ELSE @[p]],
            !.blocker = [p \in Players |-> @[p] \/ p \in D]]

LoseLife(s, D) ==
  LET hit == {p \in D : ~s.blocker[p]} IN
  [s EXCEPT !.lives = [p \in Players |-> IF p \in hit /\ @[p] > 0 THEN @[p] - 1 ELSE @[p]],
            !.blocker = [p \in Players |-> @[p] \/ p \in hit]]

FinishMatch(s) ==
  [ResetTimer(ClearParticipation(s, ActivePlayers(s))) EXCEPT
     !.inGame = FALSE, !.duel = NoDuels]

\* startDuelRound, which takes effect at the end of the handler: see Dealt
StartDuelRound(s) == IF Duels THEN [s EXCEPT !.duel.due = TRUE] ELSE s

KeepEliminated(s) == s  \* fault: players without lives stay in the match

EliminateWithoutRound(s) ==
  LET alive == {p \in ActivePlayers(s) : s.lives[p] > 0} IN
  IF AtMostOne(alive) THEN FinishMatch(s)
  ELSE ClearParticipation(s, ActivePlayers(s) \ alive)

\* resolveSoloEliminations
ResolveSoloEliminations(s) ==
  LET next == EliminateWithoutRound(s)
  IN  IF next.inGame /\ ActivePlayers(next) # ActivePlayers(s) THEN StartDuelRound(next) ELSE next

Ahead(s, p, q) == s.furthest[p] > s.furthest[q]

\* resolveSurvivalGameOver: the last one alive plays on until it is ahead of the others
ResolveSurvival(s) ==
  LET A == ActivePlayers(s)
      alive == {p \in A : s.lives[p] > 0}
      over == \/ A # {} /\ alive = {}
              \/ \E p \in alive : alive = {p} /\ A # {p} /\ \A q \in A \ {p} : Ahead(s, p, q)
  IN  IF s.inGame /\ over THEN FinishMatch(s) ELSE s

ResolveLosses(s) == IF lobby.survival THEN ResolveSurvival(s) ELSE ResolveSoloEliminations(s)

ClearBlind(s, D) ==
  [s EXCEPT !.active = [p \in Players |-> IF p \in D THEN NoRow ELSE @[p]]]

ClearFirstReady(s, D) ==
  [s EXCEPT !.firstReady = [p \in Players |-> @[p] /\ p \notin D]]

ChargeAndEliminate(s, losers) ==
  LET resolved == EliminateWithoutRound(LoseLife(ClearBlind(s, ActivePlayers(s)), losers))
      cleared == ClearFirstReady(resolved, ActivePlayers(resolved))
  IN  IF cleared.inGame THEN StartDuelRound(cleared) ELSE cleared

ResolveForEveryLoser(s) ==  \* fault: ties lose
  ChargeAndEliminate(s, {p \in ActivePlayers(s) :
    \E q \in ActivePlayers(s) \ {p} : s.score[q] >= s.score[p]})

\* tryResolveActiveBlind, once the blind is to be resolved
ResolveBlind(s) == ChargeAndEliminate(s, Losers(s))

ReconcileIgnoringSlots(s) ==  \* fault: reserved players are not waited for
  IF ~s.inGame THEN s
  ELSE IF AtMostOne(ActivePlayers(s)) THEN FinishMatch(s)
  ELSE IF AllStarted(s) /\ ShouldResolveBlindNow(s) THEN ResolveBlind(s)
  ELSE s

ReconcileActiveMatchState(s) ==
  IF ~s.inGame \/ HasDisconnectedMatchBlocker(s) THEN s
  ELSE IF AtMostOne(ActivePlayers(s)) THEN FinishMatch(s)
  ELSE IF AllStarted(s) /\ ShouldResolveBlindNow(s) THEN ResolveBlind(s)
  ELSE s

BroadcastGlobalBlindStart(s) ==
  LET A == ActivePlayers(s) IN
  [ResetTimer(s) EXCEPT
     !.active = [p \in Players |-> IF p \in A THEN s.ready[p] ELSE @[p]],
     !.ready  = [p \in Players |-> IF p \in A THEN NoRow ELSE @[p]],
     !.readyOwn = [p \in Players |-> @[p] /\ p \notin A],
     !.score  = [p \in Players |-> IF p \in A THEN 0 ELSE @[p]],
     !.hands  = [p \in Players |-> IF p \in A THEN Hands ELSE @[p]]]

TryStartPendingBlind(s) ==
  IF /\ ~HasDisconnectedMatchBlocker(s)
     /\ \E p \in ActivePlayers(s) : ReadyForPvp(s, p)
     /\ \E row \in Rows : BlindReadySatisfied(s, row)
  THEN BroadcastGlobalBlindStart(s) ELSE s

HasForgiveness(s, p) == s.forgiven[p] < lobby.forgiveness

\* expireLobbyAnteTimer, once the clock has run down in a game
ExpireTimer(s) ==
  LET late == {p \in ActivePlayers(s) : ~ReadyForPvp(s, p)}
      pardoned == {p \in late : HasForgiveness(s, p)}
      charged == LoseLife(
        [SetPaused(s) EXCEPT
           !.forgiven = [p \in Players |-> IF p \in pardoned THEN @[p] + 1 ELSE @[p]]],
        late \ pardoned)
  IN  IF late = {} THEN SetPaused(s) ELSE ResolveLosses(charged)

TimerIsDue(s) == s.inGame /\ lobby.timed /\ s.timer.started /\ s.timer.left = 0

\* what a client that is gone still carries is of no consequence and set to zero
Depart(s, p) ==
  LET left == [ClearParticipation(ReleaseController(s, p), {p}) EXCEPT
                 !.place[p] = "gone", !.lives[p] = 0, !.score[p] = 0, !.hands[p] = 0,
                 !.forgiven[p] = 0, !.furthest[p] = 0]
  IN  IF SeatedPlayers(left) # {} /\ s.inMatch[p]
      THEN ReconcileActiveMatchState(left) ELSE left

\* the saved state never keeps the readiness of a player
Reserve(s, p) ==
  [ReleaseController(s, p) EXCEPT !.place[p] = "away", !.ready[p] = NoRow,
                                  !.readyOwn[p] = FALSE, !.firstReady[p] = FALSE]

------------------------------------------------------------------------------
(* Message handlers.  p is the player whose message arrives. *)

\* p takes part in a match; peers of a lobby without a game do not report one
InPlay(p) == p \in ActivePlayers(g) /\ (Disciplined => g.inGame)

\* p is at its own table: neither waiting nor in a PvP blind
AtOwnTable(p) == Disciplined => g.ready[p] = NoRow /\ g.active[p] = NoRow

\* The pairings a round may begin with: the ranking by hash may yield any of
\* them.  An odd player out is one of those with the fewest byes, and not the
\* one who had the last if there is another.
LowestByes(s) ==
  {p \in ActivePlayers(s) : \A q \in ActivePlayers(s) : s.duel.byes[p] <= s.duel.byes[q]}

AnyBye(s) ==  \* fault: byes do not rotate
  IF Cardinality(ActivePlayers(s)) % 2 = 0 THEN {{}} ELSE {{p} : p \in ActivePlayers(s)}

ByeCandidates(s) ==
  LET fresh == LowestByes(s) \ {s.duel.last} IN
  IF Cardinality(ActivePlayers(s)) % 2 = 0 THEN {{}}
  ELSE {{p} : p \in IF fresh # {} THEN fresh ELSE LowestByes(s)}

Pairings(A, bye) ==
  {m \in [A -> A] : \A p \in A : m[m[p]] = p /\ (m[p] = p <=> p \in bye)}

BeginRound(s, bye, m) ==
  [s EXCEPT !.duel =
     [pair |-> [p \in Players |-> IF p \in DOMAIN m THEN m[p] ELSE NoPlayer],
      target |-> Everyone(NoScore), result |-> Everyone("open"),
      byes |-> [p \in Players |-> IF p \in bye THEN @.byes[p] + 1 ELSE @.byes[p]],
      last |-> IF bye = {} THEN @.last ELSE CHOOSE p \in bye : TRUE,
      round |-> @.round + 1, due |-> FALSE]]

\* the memories the handler may end with when it has worked its way to s
Dealt(s) ==
  IF ~s.duel.due THEN {s}
  ELSE UNION {{BeginRound(s, bye, m) : m \in Pairings(ActivePlayers(s), bye)} :
              bye \in ByeCandidates(s)}

Step(s) ==
  /\ s.duel.due => s.duel.round < MaxRounds
  /\ g' \in Dealt(s)
  /\ steady' = IF s.duel.due THEN steady \cap ActivePlayers(s) ELSE steady
  /\ UNCHANGED <<lobby, cast, played>>

StartGame ==
  LET S == SeatedPlayers(g) IN
  /\ ~g.inGame /\ played < MaxMatches
  /\ ~AtMostOne(S)
  /\ HeadToHead => Cardinality(S) = 2
  /\ LET prepared == [ClearParticipation(g, S) EXCEPT
           !.inMatch = [p \in Players |-> p \in S \/ @[p]],
           !.lives = [p \in Players |-> IF p \in S THEN lobby.lives ELSE @[p]],
           !.score = [p \in Players |-> IF p \in S THEN 0 ELSE @[p]],
           !.hands = [p \in Players |-> IF p \in S THEN 0 ELSE @[p]],
           !.furthest = [p \in Players |-> IF p \in S THEN 0 ELSE @[p]],
           !.forgiven = Everyone(0), !.duel = NoDuels]
     IN  g' \in Dealt(StartDuelRound([ResetTimer(prepared) EXCEPT !.inGame = TRUE]))
  /\ cast' = S
  /\ steady' = IF Duels THEN S ELSE {}
  /\ played' = played + 1
  /\ UNCHANGED lobby

MarkReady(s, p, row, own) ==
  LET others == ActivePlayers(s) \ {p}
      first == \A q \in others : s.ready[q] = NoRow /\ ~s.firstReady[q]
  IN  [s EXCEPT !.ready[p] = row, !.readyOwn[p] = own, !.firstReady[p] = @ \/ first]

\* In a game of a duels lobby a round has been dealt: ensureDuelRound does nothing.
ReadyBlind(p, row) ==
  /\ InPlay(p) /\ AtOwnTable(p)
  /\ Disciplined => ~lobby.survival
  /\ g.duel.result[p] = "open"
  /\ LET s == MarkReady(g, p, row, Duels /\ HasBye(g, p))
     IN  Step(IF BlindReadySatisfied(s, row) /\ ~HasDisconnectedMatchBlocker(s)
              THEN BroadcastGlobalBlindStart(s) ELSE s)

UnreadyBlind(p) ==
  /\ p \in SeatedPlayers(g)
  /\ ~ (g.inGame /\ ~g.inMatch[p])
  /\ Step([ReleaseController(g, p) EXCEPT !.ready[p] = NoRow, !.readyOwn[p] = FALSE])

\* markDuelByeResult: a hand settles a bye that beats its target, or that is out of
\* hands and has just reported the target
Settled(s, p, target) ==
  IF ~HasBye(s, p) THEN s
  ELSE [s EXCEPT !.duel.result[p] =
          IF ByeBeaten(s, p) THEN "won"
          ELSE IF target # NoScore /\ s.hands[p] = 0 THEN "lost" ELSE @]

\* What a hand reports that arrives when the blind is over is of no consequence and
\* not kept: the next blind to start sets score and hands.
HandPlayed(p, score, hands, target) ==
  LET s == IF g.active[p] = NoRow /\ target = NoScore THEN g
           ELSE [g EXCEPT !.score[p] = score, !.hands[p] = hands,
                              !.duel.target[p] = IF HasBye(g, p) /\ target # NoScore THEN target ELSE @]
  IN  Settled(s, p, target)

PlayHandUnresolved(p, score, hands, target) ==  \* fault: the last hand resolves nothing
  /\ g.inGame /\ p \in ActivePlayers(g) /\ g.duel.result[p] = "open"
  /\ Step(HandPlayed(p, score, hands, target))

\* only a peer with a bye plays against a target, the one of its own blind
PlayHand(p, score, hands, target) ==
  /\ g.inGame /\ p \in ActivePlayers(g) /\ g.duel.result[p] = "open"
  /\ target # NoScore => Duels /\ HasBye(g, p) /\ (Disciplined => g.active[p] # NoRow)
  /\ Step(ReconcileActiveMatchState(HandPlayed(p, score, hands, target)))

\* A bye player fails the blind it plays against its target, or a round at its own table.
FailRound(p) ==
  /\ InPlay(p)
  /\ IF Duels /\ HasBye(g, p)
     THEN /\ Disciplined => g.ready[p] = NoRow
          /\ LET result == IF ByeBeaten(g, p) THEN "won"
                           ELSE IF g.duel.result[p] = "open" THEN "lost" ELSE g.duel.result[p]
             IN  Step(ReconcileActiveMatchState([g EXCEPT !.duel.result[p] = result]))
     ELSE /\ AtOwnTable(p)
          /\ Step(ResolveLosses(IF lobby.deathOnRoundLoss THEN LoseLife(g, {p}) ELSE g))

\* only the speedlatro ruleset takes the client's word for a timeout
ReportedTimeout(p) ==
  /\ lobby.speedlatro /\ ~ReadyForPvp(g, p) /\ AtOwnTable(p)
  /\ Step(ResolveLosses(LoseLife(g, {p})))

FailTimer(p) ==
  /\ InPlay(p)
  /\ IF TimerIsDue(g) THEN Step(ExpireTimer(g)) ELSE ReportedTimeout(p)

\* only a running blind of a 1v1 lobby has a PvP timer to fail
FailPvPTimer(p) ==
  LET charged == LoseLife(g, {p})
      resolved == ResolveSoloEliminations(charged)
      pair == ActivePlayers(g)
  IN
  /\ InPlay(p) /\ g.inGame /\ HeadToHead
  /\ Cardinality(pair) = 2 /\ AllStarted(g)
  /\ Step(IF charged.lives[p] = g.lives[p] THEN charged
          ELSE IF resolved # charged THEN resolved
          ELSE ClearFirstReady(ClearBlind(charged, pair), pair))

\* progress is kept whoever reports it and decides survival games only
SetFurthestBlind(p, blind) ==
  /\ lobby.survival /\ p \in SeatedPlayers(g)
  /\ LET s == [g EXCEPT !.furthest[p] = Larger(@, blind)]
     IN  Step(IF g.inMatch[p] THEN ResolveSurvival(s) ELSE s)

NewRound(p) ==
  /\ p \in SeatedPlayers(g)
  /\ ~ (g.inGame /\ ~g.inMatch[p])
  /\ Step([g EXCEPT !.blocker[p] = FALSE])

\* a new ante of the controller ends the timer of the old one
SetAnte(p) ==
  /\ p \in SeatedPlayers(g)
  /\ ~ (g.inGame /\ ~g.inMatch[p])
  /\ g.timer.controller = p
  /\ Step(ResetTimer(g))

MayStartTimer(p) ==
  /\ lobby.timed /\ InPlay(p) /\ ReadyForPvp(g, p)
  /\ ~HeadToHead => g.timer.controller \in {p, NoPlayer}

MayPauseTimer(p) ==
  /\ lobby.timed /\ p \in SeatedPlayers(g)
  /\ IF HeadToHead \/ g.timer.controller = NoPlayer
     THEN InPlay(p) /\ ReadyForPvp(g, p) ELSE g.timer.controller = p

Controlled(p) == IF HeadToHead THEN g ELSE [g EXCEPT !.timer.controller = p]

StartAnteTimer(p) == MayStartTimer(p) /\ Step(SetRunning(Controlled(p)))

PauseAnteTimer(p) == MayPauseTimer(p) /\ Step(SetPaused(Controlled(p)))

------------------------------------------------------------------------------
(* Departures, reconnection and time *)

ReturnToLobby(p) ==
  /\ p \in ActivePlayers(g)
  /\ LET back == [ClearParticipation(ReleaseController(g, p), {p}) EXCEPT
                    !.score[p] = 0, !.hands[p] = 0, !.lives[p] = 0]
     IN  Step(ReconcileActiveMatchState(back))

\* p leaves, or the host kicks it
LeaveLobby(p) == p \in SeatedPlayers(g) /\ Step(Depart(g, p))

Disconnect(p) ==
  /\ p \in SeatedPlayers(g)
  /\ Step(IF ~g.inGame \/ AtMostOne(SeatedPlayers(g)) THEN Depart(g, p) ELSE Reserve(g, p))

RejoinLobby(p) ==
  /\ g.place[p] = "away" /\ SeatedPlayers(g) # {}
  /\ Step(ReconcileActiveMatchState([g EXCEPT !.place[p] = "seated"]))

\* the grace period of p runs out, or the host kicks its slot
ExpireSlot(p) ==
  /\ g.place[p] = "away"
  /\ Step(TryStartPendingBlind(Depart(g, p)))

\* a second of the running timer on the wall clock (Date.now)
Tick ==
  /\ g.timer.started /\ g.timer.left > 0
  /\ Step([g EXCEPT !.timer.left = @ - 1])

\* The expiry callback.  Node's clock is not the wall clock: where a callback
\* finds time left (it is a millisecond early, the wall clock was set back, the
\* delay exceeds what setTimeout can count), it is ignored and not scheduled again.
ExpireAnteTimer ==
  /\ g.timer.armed
  /\ LET fired == [g EXCEPT !.timer.armed = FALSE, !.timer.lapsed = g.timer.left > 0]
     IN  Step(IF TimerIsDue(fired) THEN ExpireTimer(fired) ELSE fired)

Next ==
  \/ StartGame
  \/ \E p \in Players :
       \/ \E row \in Rows : ReadyBlind(p, row)
       \/ \E score \in 0 .. MaxScore, hands \in 0 .. Hands, target \in 0 .. MaxScore \cup {NoScore} :
            PlayHand(p, score, hands, target)
       \/ \E blind \in 0 .. MaxBlind : SetFurthestBlind(p, blind)
       \/ UnreadyBlind(p) \/ NewRound(p) \/ SetAnte(p)
       \/ FailRound(p) \/ FailTimer(p) \/ FailPvPTimer(p)
       \/ StartAnteTimer(p) \/ PauseAnteTimer(p)
       \/ ReturnToLobby(p) \/ LeaveLobby(p)
       \/ Disconnect(p) \/ RejoinLobby(p) \/ ExpireSlot(p)
  \/ Tick
  \/ ExpireAnteTimer

Spec == Init /\ [][Next]_vars

\* Node runs the callback of a timer that stays set, at some time by the wall clock.
FairSpec == Spec /\ WF_vars(ExpireAnteTimer)

------------------------------------------------------------------------------
(* Safety *)

Participants == {p \in Players : g.place[p] # "gone" /\ g.inMatch[p]}

\* A game that goes on has at least two participants, all of them alive: every
\* way to lose a life, to leave or to return is followed by the elimination or
\* the end of the match it calls for, unless a reserved player is waited for.
\* (In survival games the dead stay until somebody has won.)
MatchNeedsTwo ==
  g.inGame /\ SeatedPlayers(g) # {} =>
    /\ lobby.survival \/ \A p \in Participants : g.lives[p] > 0
    /\ HasDisconnectedMatchBlocker(g) \/ ~AtMostOne(ActivePlayers(g))

\* All participants, reserved ones included, are in the same PvP blind or all
\* of them are out of it: nobody is left behind in a blind the others finished,
\* and nobody returns into one that started without it.
BlindsInStep ==
  g.inGame => \A p, q \in Participants : g.active[p] = g.active[q]

\* A blind that can be resolved has been resolved: after the last hand, the
\* last departure or the return of the last missing player nobody sits in a
\* blind without a hand to come.  (A duels blind that nobody has an opponent in,
\* because the opponents left before it, is decided from the start.)
NoOverdueBlind ==
  g.inGame /\ SeatedPlayers(g) # {} /\ AllStarted(g) /\ ~HasDisconnectedMatchBlocker(g)
    => ~ShouldResolveBlindNow(g) \/ \A p \in ActivePlayers(g) : g.hands[p] = Hands

\* The timer of a group lobby is in the hands of a seated participant who is
\* ready; a running one always has such a controller, who alone can pause it.
TimerInGoodHands ==
  /\ g.timer.controller # NoPlayer =>
       /\ g.timer.controller \in ActivePlayers(g)
       /\ ReadyForPvp(g, g.timer.controller)
  /\ g.timer.started /\ ~HeadToHead => g.timer.controller # NoPlayer

\* A player in a running blind who loses a life to its score was beaten, in a
\* duels lobby by its own opponent or by the target of its bye: a tie for the
\* lead costs nobody a life, however the blind came to its end.
OnlyBeatenPlayersLose ==
  [][\A p \in ActivePlayers(g) :
       g.inGame /\ g.active[p] # NoRow /\ g'.lives[p] < g.lives[p] =>
         \/ FailPvPTimer(p) \/ ReturnToLobby(p) \/ g'.place[p] = "gone"
         \/ Duels /\ HasBye(g, p) /\ ~ByeBeaten(g, p)
         \/ \E q \in Players : /\ g'.score[q] > g'.score[p]
                               /\ Duels => g.duel.pair[p] = q]_vars

\* Until a player is charged again, it has reported a new round: one blind, one
\* timer and one failed round cost one life together, also across a reconnect.
\* The blocker a loss leaves behind is lifted by a new round or by the end of
\* the player's match only, and no other loss takes a life before that.
OneLifePerRound ==
  [][\A p \in Players : g.inGame /\ g.blocker[p] =>
       /\ g'.lives[p] = g.lives[p] \/ ReturnToLobby(p) \/ g'.place[p] = "gone"
       /\ g'.blocker[p] \/ ~g'.inMatch[p] \/ NewRound(p)]_vars

\* Byes go round: of the players who have been in every round of the match none
\* is two byes ahead of another, and none has two byes in a row while another of
\* them plays, whoever else was eliminated, left or came back in between.
ByesRotate ==
  [][g'.duel.round > g.duel.round =>
       /\ \A p, q \in steady' : g'.duel.byes[p] <= g'.duel.byes[q] + 1
       /\ \A p \in steady' : g.duel.last = p /\ HasBye(g', p) =>
            ActivePlayers(g') \cap steady' = {p}]_vars

(* The rules do not depend on what players do: they are looked at where a lobby *)
(* opens, over all the tables of Tables.                                        *)

\* By every score rule the winners are those of exact arithmetic, for every
\* number of winners; only where the sum of the scores outgrows a number in plain
\* form, a mean may be out of everybody's reach, and the best scores win.
RulesAgree ==
  Init => \A t \in Tables, rule \in Rules : \A count \in 1 .. Cardinality(DOMAIN t) :
    LET winners == Winners(rule, t, count) IN
    \/ winners = Reference(rule, NumberOf(t), count)
    \/ /\ rule \in {"average", "median"} /\ SumOf(NumberOf(t)) >= Limit
       /\ winners = Best(NumberOf(t))

\* A blind decided before all hands are played is decided rightly: whatever the
\* only entry with hands left adds to its score, the winners stay the same.
EarlyResultsStand ==
  Init => \A t \in Tables, rule \in Rules :
    \A e \in DOMAIN t, more \in Added, count \in 1 .. Cardinality(DOMAIN t) :
      MayResolve(rule, t, {e}) =>
        Winners(rule, Later(t, e, more), count) = Winners(rule, t, count)

(* Claims of the sources that the code does not keep; see README, Findings *)

\* lobbyEntryHandlers.ts: "The match has already started."  Nobody takes part
\* in a match it did not start.
OnlyCastPlays == g.inGame => ActivePlayers(g) \subseteq cast

------------------------------------------------------------------------------
(* Liveness *)

\* A running timer comes to an end, however often it is started, paused and handed
\* on: it is paused, reset or expires, unless its own callback has come while the
\* wall clock still showed time.  Then the server leaves it running, and only what
\* players send can end it.
TimerStops == g.timer.started ~> ~g.timer.started \/ g.timer.lapsed
=============================================================================
