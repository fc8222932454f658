----------------------------- MODULE TeamBlind -----------------------------
(***************************************************************************)
(* The match of one teams or co-op lobby: teams announce, play, win, lose  *)
(* or skip their blinds together, all teams meet in PvP blinds, teams      *)
(* share their lives, and members leave, drop out and return meanwhile.    *)
(*                                                                         *)
(* Each handler is one action on the lobby's memory g.  A co-op lobby is   *)
(* one team.  There is one blind row and one ante at a time; the clock of  *)
(* the ante timer is that of SoloMatch, so here it may run out whenever it *)
(* can be running, without forgiveness and not in co-op lobbies.  Peers report what their own   *)
(* game is in: nothing of an own blind while in a PvP blind.               *)
(***************************************************************************)
EXTENDS ScoreRules, Functions

CONSTANTS
  Players, Teams,
  Setups,    \* the lobbies a match is started in
  Hands,     \* bound: the hands peers report
  Target     \* the score a team needs together

Setup ==
  [teamOf : [Players -> Teams], coop : BOOLEAN,
   rule : Rules, winners : Nat,     \* pvp_score_rule, pvp_custom_winners
   deathOnRoundLoss : BOOLEAN, timed : BOOLEAN, speedlatro : BOOLEAN,
   lives : Nat \ {0},
   maxScore : Nat,                  \* bound: the score peers report
   mayDrop : SUBSET Players]        \* bound: the players whose connection may be lost

ASSUME TeamAssumption ==
  /\ Setups \subseteq Setup
  /\ \A l \in Setups : l.coop => \A p, q \in Players : l.teamOf[p] = l.teamOf[q]
  /\ {Hands, Target} \subseteq Nat \ {0}

VARIABLES
  lobby,   \* its type and options and, locked for the match, the team of each player
  g,       \* the memory of the lobby and of its players
  played   \* history: the match has been started (bound: one match)

vars == <<lobby, g, played>>

TeamOf == lobby.teamOf
Coop == lobby.coop

LobbyMemory ==
  [inGame    : BOOLEAN,
   place     : [Players -> {"seated", "away", "gone"}],  \* away: a reserved slot
   inMatch   : [Players -> BOOLEAN],
   ready     : [Players -> {"no", "team", "pvp", "skip"}],  \* isReady, readyBlindKind
   active    : [Players -> {"none", "team", "pvp"}],  \* activeBlindStarted, coopBlindActive
   score     : [Players -> 0 .. lobby.maxScore],
   hands     : [Players -> 0 .. Hands],
   lives     : [Players -> 0 .. lobby.lives],       \* what its peer was told
   teamLives : [Teams -> 0 .. lobby.lives],
   blocker   : [Teams -> BOOLEAN],                    \* lifeBlockers
   known     : [Teams -> BOOLEAN],                    \* blindTargets has the team
   resolved  : [Teams -> {"no", "won", "lost"}]]      \* resolvedCoopTeams

TypeOK == lobby \in Setups /\ g \in LobbyMemory /\ played \in BOOLEAN

Everyone(value) == [p \in Players |-> value]
EveryTeam(value) == [t \in Teams |-> value]

Init ==
  /\ lobby \in Setups
  /\ g = [inGame |-> FALSE, place |-> Everyone("seated"), inMatch |-> Everyone(FALSE),
          ready |-> Everyone("no"), active |-> Everyone("none"), score |-> Everyone(0),
          hands |-> Everyone(Hands), lives |-> Everyone(0), teamLives |-> EveryTeam(0),
          blocker |-> EveryTeam(FALSE), known |-> EveryTeam(FALSE),
          resolved |-> EveryTeam("no")]
  /\ played = FALSE

------------------------------------------------------------------------------
(* Queries on a memory s *)

SeatedPlayers(s) == {p \in Players : s.place[p] = "seated"}
ActivePlayers(s) == {p \in SeatedPlayers(s) : s.inMatch[p]}
Members(s, t) == {p \in ActivePlayers(s) : TeamOf[p] = t}
AtMostOne(S) == \A x, y \in S : x = y

HasDisconnectedMatchBlocker(s) ==
  \E p \in Players : s.place[p] = "away" /\ s.inMatch[p]
HasDisconnectedTeamBlocker(s, t) ==
  \E p \in Players : s.place[p] = "away" /\ s.inMatch[p] /\ TeamOf[p] = t

AliveTeams(s) == {t \in Teams : Members(s, t) # {} /\ s.teamLives[t] > 0}

TeamScore(s, t) == SumFunction([p \in Members(s, t) |-> s.score[p]])
Finished(s, t) == \A p \in Members(s, t) : s.hands[p] = 0

TeamReady(s, t) == Members(s, t) # {} /\ \A p \in Members(s, t) : s.ready[p] = "team"
PvpReady(s) == ActivePlayers(s) # {} /\ \A p \in ActivePlayers(s) : s.ready[p] = "pvp"

PlayingTeams(s) == {t \in Teams : Members(s, t) # {}}
\* buildTeamScoreSnapshot
Scores(s) ==
  [t \in PlayingTeams(s) |-> Total([p \in Members(s, t) |-> Plain(s.score[p])])]

ShouldResolveBlindNow(s) ==
  MayResolve(lobby.rule, Scores(s), {t \in PlayingTeams(s) : ~Finished(s, t)})

\* resolveWinningTeams
Losers(s) ==
  LET teams == PlayingTeams(s)
      count == WinnerCount(Cardinality(teams), lobby.winners, Cardinality(Players))
  IN  teams \ Winners(lobby.rule, Scores(s), count)

------------------------------------------------------------------------------
(* Lives and the end of the match *)

ClearBlind(s, D) ==
  [s EXCEPT !.active = [p \in Players |-> IF p \in D THEN "none" ELSE @[p]]]

ClearReady(s, D) ==
  [s EXCEPT !.ready = [p \in Players |-> IF p \in D THEN "no" ELSE @[p]]]

\* clearPlayerMatchParticipation for the players in D
ClearParticipation(s, D) ==
  [ClearReady(ClearBlind(s, D), D) EXCEPT
     !.inMatch = [p \in Players |-> @[p] /\ p \notin D]]

FinishMatch(s) == [ClearParticipation(s, ActivePlayers(s)) EXCEPT !.inGame = FALSE]

LivesLeft(s, T) ==
  [t \in Teams |-> IF t \in T /\ s.teamLives[t] > 0 THEN s.teamLives[t] - 1 ELSE s.teamLives[t]]

LoseTeamLivesUnblocked(s, T) ==  \* fault: the blocker is not asked
  [s EXCEPT !.teamLives = LivesLeft(s, T), !.blocker = [t \in Teams |-> @[t] \/ t \in T],
            !.lives = [p \in Players |-> IF p \in ActivePlayers(s) /\ TeamOf[p] \in T
                                         THEN LivesLeft(s, T)[TeamOf[p]] ELSE @[p]]]

\* the teams in T lose a life each, and their members are told
LoseTeamLives(s, T) ==
  LET charged == {t \in T : ~s.blocker[t]} IN
  [s EXCEPT !.teamLives = LivesLeft(s, charged), !.blocker = [t \in Teams |-> @[t] \/ t \in T],
            !.lives = [p \in Players |-> IF p \in ActivePlayers(s) /\ TeamOf[p] \in charged
                                         THEN LivesLeft(s, charged)[TeamOf[p]] ELSE @[p]]]

\* resolveTeamsGameOver(lobby, t) for a team t without lives
ResolveTeamsGameOver(s, t) ==
  IF AtMostOne(AliveTeams(s)) THEN FinishMatch(s)
  ELSE ClearParticipation(s, Members(s, t))

ChargeTeamQuietly(s, t) == LoseTeamLives(s, {t})  \* fault: nobody is eliminated

ChargeTeam(s, t) ==
  LET charged == LoseTeamLives(s, {t}) IN
  IF charged.teamLives[t] = 0 THEN ResolveTeamsGameOver(charged, t) ELSE charged

DeadTeams(s, T) == {t \in T : s.teamLives[t] = 0}

\* one of the teams in T loses its last life, and leaves one team at most
EndsMatch(s, T) ==
  LET charged == LoseTeamLives(s, T) IN
  DeadTeams(charged, T) # {} /\ AtMostOne(AliveTeams(charged))

\* Every team in T is charged in turn, in some order.  Nobody is told of the
\* charges after the one that ends the match.
ChargeTeams(s, T) ==
  LET charged == LoseTeamLives(s, T)
      ending == {U \in SUBSET T : EndsMatch(s, U) /\ \E t \in U : ~EndsMatch(s, U \ {t})}
      told(U) == [p \in Players |-> IF TeamOf[p] \in U THEN charged.lives[p] ELSE s.lives[p]]
  IN
  IF EndsMatch(s, T) THEN {FinishMatch([charged EXCEPT !.lives = told(U)]) : U \in ending}
  ELSE {ClearParticipation(charged, {p \in ActivePlayers(s) : TeamOf[p] \in DeadTeams(charged, T)})}

\* tryResolveActiveBlind, once the PvP blind is to be resolved
ResolvePvp(s) ==
  LET after == LoseTeamLives(ClearBlind(s, ActivePlayers(s)), Losers(s))
  IN  IF AtMostOne(AliveTeams(after)) THEN FinishMatch(after)
      ELSE ClearParticipation(after,
             {p \in ActivePlayers(s) : TeamOf[p] \in DeadTeams(after, Losers(s))})

Reconcile(s, departure) ==
  IF ~s.inGame \/ HasDisconnectedMatchBlocker(s) THEN s
  ELSE IF departure /\ AtMostOne(ActivePlayers(s)) THEN FinishMatch(s)
  ELSE IF ~Coop /\ AtMostOne(AliveTeams(s)) THEN FinishMatch(s)
  ELSE IF Coop \/ \E p \in ActivePlayers(s) : s.active[p] # "pvp" THEN s
  ELSE IF ShouldResolveBlindNow(s) THEN ResolvePvp(s)
  ELSE s

------------------------------------------------------------------------------
(* The blind of one team *)

\* told: the member whose announcement starts the blind reported its target
StartTeamBlind(s, t, told) ==
  LET M == Members(s, t) IN
  [ClearReady(s, M) EXCEPT
     !.known[t] = told, !.blocker[t] = FALSE, !.resolved[t] = "no",
     !.active = [p \in Players |-> IF p \in M THEN "team" ELSE @[p]],
     !.score = [p \in Players |-> IF p \in M THEN 0 ELSE @[p]],
     !.hands = [p \in Players |-> IF p \in M THEN Hands ELSE @[p]]]

StartGlobalBlind(s) ==
  LET A == ActivePlayers(s) IN
  [ClearReady(s, A) EXCEPT
     !.known = EveryTeam(FALSE), !.blocker = EveryTeam(FALSE), !.resolved = EveryTeam("no"),
     !.active = [p \in Players |-> IF p \in A THEN "pvp" ELSE @[p]],
     !.score = [p \in Players |-> IF p \in A THEN 0 ELSE @[p]],
     !.hands = [p \in Players |-> IF p \in A THEN Hands ELSE @[p]]]

FailTeamBlind(s, t) ==
  LET failed == [s EXCEPT !.known[t] = FALSE, !.resolved[t] = "lost"]
      ended == ClearBlind(LoseTeamLives(failed, {t}), Members(s, t))
  IN  IF Coop THEN FinishMatch(failed)
      ELSE IF ended.teamLives[t] = 0 THEN ResolveTeamsGameOver(ended, t) ELSE ended

\* a hand of a member of t, whose blind runs
TeamHand(s, t, told) ==
  LET informed == [s EXCEPT !.known[t] = @ \/ told] IN
  IF informed.known[t] /\ TeamScore(s, t) >= Target
  THEN ClearBlind([s EXCEPT !.known[t] = FALSE, !.resolved[t] = "won"], Members(s, t))
  ELSE IF Finished(s, t) THEN FailTeamBlind(s, t)
  ELSE informed

\* the states a slot's end may leave behind: tryStartPendingBlindIfReady looks
\* at the team of the first member it finds ready for a team blind
PendingStarts(s) ==
  LET starters == {p \in ActivePlayers(s) : s.ready[p] = "team"}
      startable(t) == TeamReady(s, t) /\ ~HasDisconnectedTeamBlocker(s, t)
  IN
  IF ~Coop /\ PvpReady(s) /\ ~HasDisconnectedMatchBlocker(s) THEN {StartGlobalBlind(s)}
  ELSE IF starters = {} THEN {s}
  ELSE {s : p \in {q \in starters : ~startable(TeamOf[q])}}
         \cup {StartTeamBlind(s, TeamOf[p], told) :
                 p \in {q \in starters : startable(TeamOf[q])}, told \in BOOLEAN}

\* the teams of T whose members all want to skip, skip
ResolveSkip(s, T) ==
  LET skipping == {t \in T : /\ ~HasDisconnectedTeamBlocker(s, t)
                             /\ \A p \in Members(s, t) : s.ready[p] = "skip"}
  IN  ClearReady(s, {p \in ActivePlayers(s) : TeamOf[p] \in skipping})

\* nothing is kept of what a player that has gone reported
Depart(s, p) ==
  LET left == [ClearParticipation(s, {p}) EXCEPT
                 !.place[p] = "gone", !.score[p] = 0, !.hands[p] = 0, !.lives[p] = 0] IN
  IF SeatedPlayers(left) # {} /\ s.inMatch[p] THEN Reconcile(left, TRUE) ELSE left

------------------------------------------------------------------------------
(* Message handlers.  p is the player whose message arrives. *)

InPlay(p) == g.inGame /\ p \in ActivePlayers(g)

Step(s) == g' = s /\ UNCHANGED <<lobby, played>>

StartGame ==
  LET S == SeatedPlayers(g) IN
  /\ ~g.inGame /\ ~played
  /\ ~AtMostOne(S)
  /\ ~Coop => ~AtMostOne({TeamOf[p] : p \in S})
  /\ g' = [g EXCEPT
       !.inGame = TRUE,
       !.inMatch = [p \in Players |-> p \in S],
       !.hands = [p \in Players |-> IF p \in S THEN 0 ELSE @[p]],
       !.lives = [p \in Players |-> IF p \in S THEN lobby.lives ELSE @[p]],
       !.teamLives = [t \in Teams |-> IF ~Coop /\ \E p \in S : TeamOf[p] = t
                                      THEN lobby.lives ELSE 0]]
  /\ played' = TRUE
  /\ UNCHANGED lobby

ReadyForTeamBlind(p, told) ==
  /\ InPlay(p) /\ g.active[p] = "none"
  /\ LET s == [g EXCEPT !.ready[p] = "team"]
         t == TeamOf[p]
     IN  Step(IF TeamReady(s, t) /\ ~HasDisconnectedTeamBlocker(s, t)
              THEN StartTeamBlind(s, t, told) ELSE s)

ReadyForPvpUnasked(p) ==  \* fault: reserved players are not waited for
  /\ InPlay(p) /\ g.active[p] = "none" /\ ~Coop
  /\ LET s == [g EXCEPT !.ready[p] = "pvp"]
     IN  Step(IF PvpReady(s) THEN StartGlobalBlind(s) ELSE s)

ReadyForPvpBlind(p) ==
  /\ InPlay(p) /\ g.active[p] = "none" /\ ~Coop
  /\ LET s == [g EXCEPT !.ready[p] = "pvp"]
     IN  Step(IF PvpReady(s) /\ ~HasDisconnectedMatchBlocker(s)
              THEN StartGlobalBlind(s) ELSE s)

ReadySkipBlind(p) ==
  /\ InPlay(p) /\ g.active[p] = "none"
  /\ Step(ResolveSkip([g EXCEPT !.ready[p] = "skip"], {TeamOf[p]}))

\* unreadyBlind, and unreadySkipBlind of a player who wants to skip
UnreadyBlind(p) == InPlay(p) /\ Step(ClearReady(g, {p}))

PlayHandUnresolved(p, score, hands, told) ==  \* fault: the last hand resolves nothing
  /\ InPlay(p) /\ (told => g.active[p] = "team")
  /\ LET s == [g EXCEPT !.score[p] = score, !.hands[p] = hands]
     IN  Step(IF s.active[p] = "team" THEN TeamHand(s, TeamOf[p], told) ELSE s)

\* told: it reports its target too, which is read in a team blind only
PlayHand(p, score, hands, told) ==
  /\ InPlay(p) /\ (told => g.active[p] = "team")
  /\ LET s == [g EXCEPT !.score[p] = score, !.hands[p] = hands]
         t == TeamOf[p]
     IN  Step(IF s.resolved[t] # "no" THEN ClearBlind(s, {p})
              ELSE IF s.active[p] = "team" THEN TeamHand(s, t, told)
              ELSE Reconcile(s, FALSE))

FailRoundUnasked(p) ==  \* fault: a blind the team has won can still be failed
  /\ InPlay(p) /\ g.active[p] # "pvp"
  /\ Step(IF g.active[p] = "team" THEN TeamHand([g EXCEPT !.hands[p] = 0], TeamOf[p], FALSE)
          ELSE IF ~Coop /\ lobby.deathOnRoundLoss THEN ChargeTeam(g, TeamOf[p])
          ELSE g)

FailRound(p) ==
  /\ InPlay(p) /\ g.active[p] # "pvp"
  /\ Step(IF g.resolved[TeamOf[p]] # "no" THEN ClearBlind(g, {p})
          ELSE IF g.active[p] = "team" THEN TeamHand([g EXCEPT !.hands[p] = 0], TeamOf[p], FALSE)
          ELSE IF ~Coop /\ lobby.deathOnRoundLoss THEN ChargeTeam(g, TeamOf[p])
          ELSE g)

\* only the speedlatro ruleset takes the client's word for a timeout
ReportTimeout(p) ==
  /\ InPlay(p) /\ g.active[p] # "pvp" /\ lobby.speedlatro /\ ~Coop /\ g.ready[p] # "pvp"
  /\ Step(ChargeTeam(g, TeamOf[p]))

\* a member reports a new round: its team can be charged again
NewRound(p) ==
  /\ p \in SeatedPlayers(g) /\ ~Coop
  /\ ~ (g.inGame /\ ~g.inMatch[p])
  /\ Step([g EXCEPT !.blocker[TeamOf[p]] = FALSE])

------------------------------------------------------------------------------
(* Departures, reconnection and time *)

ReturnToLobby(p) ==
  /\ p \in ActivePlayers(g)
  /\ LET back == [ClearParticipation(g, {p}) EXCEPT !.score[p] = 0, !.hands[p] = 0, !.lives[p] = 0]
     IN  Step(Reconcile(back, TRUE))

\* p leaves, or the host kicks it
LeaveLobby(p) == p \in SeatedPlayers(g) /\ Step(Depart(g, p))

\* the saved state never keeps the readiness of a player
Disconnect(p) ==
  /\ p \in SeatedPlayers(g) \cap lobby.mayDrop
  /\ Step(IF ~g.inGame \/ AtMostOne(SeatedPlayers(g)) THEN Depart(g, p)
          ELSE [ClearReady(g, {p}) EXCEPT !.place[p] = "away"])

RejoinUntold(p) ==  \* fault: the end of the team's blind is not made up for
  /\ g.place[p] = "away" /\ SeatedPlayers(g) # {}
  /\ Step(Reconcile([g EXCEPT !.place[p] = "seated"], FALSE))

\* p returns; the end of the team's blind that it missed is made up for
RejoinLobby(p) ==
  LET t == TeamOf[p]
      missed == /\ g.inMatch[p] /\ g.active[p] = "team" /\ g.resolved[t] # "no"
                /\ Coop => g.inGame
      caughtUp == [ClearBlind(ClearReady(g, {p}), {p}) EXCEPT
                     !.lives[p] = IF Coop THEN @ ELSE g.teamLives[t]]
  IN
  /\ g.place[p] = "away" /\ SeatedPlayers(g) # {}
  /\ Step(Reconcile([IF missed THEN caughtUp ELSE g EXCEPT !.place[p] = "seated"], FALSE))

\* the grace period of p runs out
ExpireSlot(p) ==
  /\ g.place[p] = "away"
  /\ \E s \in PendingStarts(Depart(g, p)) : Step(ResolveSkip(s, Teams))

\* the host kicks the slot of p
KickSlot(p) ==
  /\ g.place[p] = "away" /\ SeatedPlayers(g) # {}
  /\ \E s \in PendingStarts(Depart(g, p)) : Step(s)

\* The ante timer runs out.  A PvP blind resets it, and it is started again by
\* a player who is ready.  The teams are charged one after the other.
ExpireAnteTimer ==
  LET late == {TeamOf[p] : p \in {q \in ActivePlayers(g) : g.ready[q] # "pvp"}} IN
  /\ lobby.timed /\ ~Coop /\ g.inGame /\ \A p \in ActivePlayers(g) : g.active[p] # "pvp"
  /\ \E s \in ChargeTeams(g, late) : Step(s)

\* Bound: a game that is in no blind only repeats what it has said of its hand.  Each
\* blind starts with new scores and hands, so nothing else it could say is ever read.
Next ==
  \/ StartGame
  \/ \E p \in Players :
       \/ \E told \in BOOLEAN : ReadyForTeamBlind(p, told)
       \/ \E score \in 0 .. lobby.maxScore, hands \in 0 .. Hands, told \in BOOLEAN :
            /\ g.active[p] = "none" => score = g.score[p] /\ hands = g.hands[p]
            /\ PlayHand(p, score, hands, told)
       \/ ReadyForPvpBlind(p) \/ ReadySkipBlind(p) \/ UnreadyBlind(p)
       \/ FailRound(p) \/ ReportTimeout(p) \/ NewRound(p)
       \/ ReturnToLobby(p) \/ LeaveLobby(p)
       \/ Disconnect(p) \/ RejoinLobby(p) \/ ExpireSlot(p) \/ KickSlot(p)
  \/ ExpireAnteTimer

Spec == Init /\ [][Next]_vars

------------------------------------------------------------------------------
(* Safety *)

Participants == {p \in Players : g.place[p] # "gone" /\ g.inMatch[p]}

\* The members at the table of one team are in the same blind: nobody is left
\* in a blind the others finished, and nobody returns into one that is over.
TeamInOneBlind ==
  g.inGame => \A p, q \in ActivePlayers(g) :
                TeamOf[p] = TeamOf[q] => g.active[p] = g.active[q]

\* All participants, reserved ones included, enter a PvP blind together and
\* leave it together.
PvpTogether ==
  g.inGame => \A p, q \in Participants : g.active[p] = "pvp" => g.active[q] = "pvp"

\* A game of teams that waits for no reserved player is between at least two
\* teams that have lives: every way to lose a life, to leave or to return is
\* followed by the end of the match it calls for.
MatchNeedsTwoTeams ==
  g.inGame /\ ~Coop /\ SeatedPlayers(g) # {} /\ ~HasDisconnectedMatchBlocker(g)
    => ~AtMostOne(AliveTeams(g))

\* A PvP blind that can be resolved has been resolved.
NoOverduePvpBlind ==
  /\ g.inGame /\ ActivePlayers(g) # {} /\ ~HasDisconnectedMatchBlocker(g)
  /\ \A p \in ActivePlayers(g) : g.active[p] = "pvp"
  => ~ShouldResolveBlindNow(g)

\* A blind the team has won costs it nothing any more: failures that members
\* report late take no life, only a timeout does, until the next blind.
WonBlindCostsNothing ==
  [][\A t \in Teams :
       g.resolved[t] = "won" /\ g'.resolved[t] = "won" /\ g'.teamLives[t] < g.teamLives[t]
         => ExpireAnteTimer \/ \E p \in Players : TeamOf[p] = t /\ ReportTimeout(p)]_vars

\* A team that has lost a life loses no other before one of its blinds starts or
\* one of its members reports a new round: a failed blind, a lost PvP blind, late
\* reports of the other members and the timer cost it one life together, and
\* nothing else, neither departures nor returns, lets it be charged again.
TeamPaysOnce ==
  [][\A t \in Teams :
       g.inGame /\ g.blocker[t] =>
         /\ g'.teamLives[t] = g.teamLives[t]
         /\ ~g'.blocker[t] => \E p \in Players :
              \/ TeamOf[p] = t /\ NewRound(p)
              \/ /\ TeamOf[p] = t \/ g'.active[p] = "pvp"
                 /\ g.active[p] = "none" /\ g'.active[p] # "none"]_vars
=============================================================================
