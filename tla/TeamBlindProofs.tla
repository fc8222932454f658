-------------------------- MODULE TeamBlindProofs --------------------------
(***************************************************************************)
(* Proofs about the blinds of teams and co-op lobbies.  At the heart of    *)
(* the invariant is that the members of a team, reserved ones included,    *)
(* are in the same blind, once a blind that is resolved counts as over:    *)
(* then one member speaks for its team, and, in a PvP blind, for the       *)
(* lobby.  Every step that may leave too few teams, or a PvP blind that    *)
(* can be resolved, goes through reconcileActiveMatchState.                *)
(***************************************************************************)
EXTENDS TeamBlind, TLAPS

Taking(s) == {p \in Players : s.place[p] # "gone" /\ s.inMatch[p]}

\* A member of t is still in a team blind that has ended.
Stale(s, p) == s.active[p] = "team" /\ s.resolved[TeamOf[p]] # "no"

\* the blind p is in, its end counted
BlindOf(s, p) == IF Stale(s, p) THEN "none" ELSE s.active[p]

\* before and after the match nobody is ready; a player is ready between blinds
ReadyBetweenBlinds(s) ==
  \A p \in Players : s.ready[p] # "no" =>
    /\ s.inGame /\ p \in ActivePlayers(s) /\ s.active[p] = "none"
    /\ Coop => s.ready[p] # "pvp"

\* nobody at the table is in a blind that has ended
NotStale(s) ==
  s.inGame => \A p \in ActivePlayers(s) : ~Stale(s, p)

\* members, reserved ones included, are in one blind
TeamsTogether(s) ==
  s.inGame => \A p, q \in Taking(s) : TeamOf[p] = TeamOf[q] => BlindOf(s, p) = BlindOf(s, q)

\* all teams are in a PvP blind together, and no team has resolved it
AllInPvp(s) ==
  s.inGame => \A p \in Taking(s) : s.active[p] = "pvp" =>
    /\ ~Coop /\ s.resolved[TeamOf[p]] = "no"
    /\ \A q \in Taking(s) : s.active[q] = "pvp"

TwoTeams(s) ==
  s.inGame /\ ~Coop /\ SeatedPlayers(s) # {} /\ ~HasDisconnectedMatchBlocker(s)
    => ~AtMostOne(AliveTeams(s))

NotOverdue(s) ==
  /\ s.inGame /\ ActivePlayers(s) # {} /\ ~HasDisconnectedMatchBlocker(s)
  /\ \A p \in ActivePlayers(s) : s.active[p] = "pvp"
  => ~ShouldResolveBlindNow(s)

Together(s) == ReadyBetweenBlinds(s) /\ NotStale(s) /\ TeamsTogether(s) /\ AllInPvp(s)

\* what holds of the lobby's memory after every handler
Sound(s) == Together(s) /\ TwoTeams(s) /\ NotOverdue(s)

\* the lobby before the match
Fresh(s) ==
  /\ ~s.inGame
  /\ \A p \in Players : s.place[p] # "away" /\ ~s.inMatch[p] /\ s.active[p] = "none"
  /\ \A t \in Teams : s.resolved[t] = "no"

TeamInv == TypeOK /\ Sound(g) /\ (~played => Fresh(g))

------------------------------------------------------------------------------
(* What the operators change *)

LEMMA LobbyFacts ==
  ASSUME lobby \in Setups
  PROVE  /\ TeamOf \in [Players -> Teams] /\ Coop \in BOOLEAN
         /\ Coop => \A p, q \in Players : TeamOf[p] = TeamOf[q]
BY TeamAssumption DEF Setup, TeamOf, Coop

LEMMA BoundFacts ==
  ASSUME lobby \in Setups
  PROVE  /\ lobby.lives \in Nat \ {0} /\ lobby.maxScore \in Nat /\ Hands \in Nat \ {0}
         /\ 0 \in 0 .. lobby.lives /\ 0 \in 0 .. lobby.maxScore /\ 0 \in 0 .. Hands
         /\ lobby.lives \in 0 .. lobby.lives /\ Hands \in 0 .. Hands
<1>1. lobby.lives \in Nat \ {0} /\ lobby.maxScore \in Nat /\ Hands \in Nat \ {0}
  BY TeamAssumption DEF Setup
<1> QED BY <1>1

\* nothing changes but ready, active and the lives
Elsewhere(s, u) ==
  /\ u.inGame = s.inGame /\ u.place = s.place /\ u.score = s.score /\ u.hands = s.hands
  /\ u.known = s.known /\ u.resolved = s.resolved

LEMMA ClearReadyFields ==
  ASSUME NEW s \in LobbyMemory, NEW D
  PROVE  LET u == ClearReady(s, D) IN
         /\ u \in LobbyMemory /\ Elsewhere(s, u)
         /\ u.inMatch = s.inMatch /\ u.active = s.active /\ u.lives = s.lives
         /\ u.teamLives = s.teamLives /\ u.blocker = s.blocker
         /\ \A p \in Players : u.ready[p] = IF p \in D THEN "no" ELSE s.ready[p]
BY DEF ClearReady, LobbyMemory, Elsewhere

LEMMA ClearBlindFields ==
  ASSUME NEW s \in LobbyMemory, NEW D
  PROVE  LET u == ClearBlind(s, D) IN
         /\ u \in LobbyMemory /\ Elsewhere(s, u)
         /\ u.inMatch = s.inMatch /\ u.ready = s.ready /\ u.lives = s.lives
         /\ u.teamLives = s.teamLives /\ u.blocker = s.blocker
         /\ \A p \in Players : u.active[p] = IF p \in D THEN "none" ELSE s.active[p]
BY DEF ClearBlind, LobbyMemory, Elsewhere

LEMMA ClearParticipationFields ==
  ASSUME NEW s \in LobbyMemory, NEW D
  PROVE  LET u == ClearParticipation(s, D) IN
         /\ u \in LobbyMemory /\ Elsewhere(s, u)
         /\ u.lives = s.lives /\ u.teamLives = s.teamLives /\ u.blocker = s.blocker
         /\ \A p \in Players :
              /\ u.ready[p] = IF p \in D THEN "no" ELSE s.ready[p]
              /\ u.active[p] = IF p \in D THEN "none" ELSE s.active[p]
              /\ u.inMatch[p] <=> s.inMatch[p] /\ p \notin D
<1> DEFINE b == ClearBlind(s, D)
           r == ClearReady(b, D)
           u == ClearParticipation(s, D)
<1>1. /\ b \in LobbyMemory /\ Elsewhere(s, b)
      /\ b.inMatch = s.inMatch /\ b.ready = s.ready /\ b.lives = s.lives
      /\ b.teamLives = s.teamLives /\ b.blocker = s.blocker
      /\ \A p \in Players : b.active[p] = IF p \in D THEN "none" ELSE s.active[p]
  BY ClearBlindFields
<1> HIDE DEF b
<1>2. /\ r \in LobbyMemory /\ Elsewhere(b, r)
      /\ r.inMatch = b.inMatch /\ r.active = b.active /\ r.lives = b.lives
      /\ r.teamLives = b.teamLives /\ r.blocker = b.blocker
      /\ \A p \in Players : r.ready[p] = IF p \in D THEN "no" ELSE b.ready[p]
  BY <1>1, ClearReadyFields
<1> HIDE DEF r
<1>3. u = [r EXCEPT !.inMatch = [p \in Players |-> @[p] /\ p \notin D]]
  BY DEF ClearParticipation, r, b
<1> HIDE DEF u
<1>4. /\ u \in LobbyMemory /\ Elsewhere(r, u)
      /\ u.active = r.active /\ u.ready = r.ready /\ u.lives = r.lives
      /\ u.teamLives = r.teamLives /\ u.blocker = r.blocker
      /\ \A p \in Players : u.inMatch[p] <=> r.inMatch[p] /\ p \notin D
  BY <1>2, <1>3 DEF LobbyMemory, Elsewhere
<1>5. Elsewhere(s, u)
  BY <1>1, <1>2, <1>4 DEF Elsewhere
<1> QED BY <1>1, <1>2, <1>4, <1>5 DEF u

LEMMA FinishMatchFields ==
  ASSUME NEW s \in LobbyMemory
  PROVE  LET u == FinishMatch(s) IN
         /\ u \in LobbyMemory /\ ~u.inGame
         /\ u.teamLives = s.teamLives /\ u.blocker = s.blocker /\ u.resolved = s.resolved
         /\ \A p \in Players : u.ready[p] = IF p \in ActivePlayers(s) THEN "no" ELSE s.ready[p]
<1> DEFINE c == ClearParticipation(s, ActivePlayers(s))
           u == FinishMatch(s)
<1>1. /\ c \in LobbyMemory /\ Elsewhere(s, c)
      /\ c.teamLives = s.teamLives /\ c.blocker = s.blocker
      /\ \A p \in Players : c.ready[p] = IF p \in ActivePlayers(s) THEN "no" ELSE s.ready[p]
  BY ClearParticipationFields
<1>2. u = [c EXCEPT !.inGame = FALSE]
  BY DEF FinishMatch
<1> HIDE DEF c, u
<1>3. /\ u \in LobbyMemory /\ ~u.inGame
      /\ u.teamLives = c.teamLives /\ u.blocker = c.blocker /\ u.resolved = c.resolved
      /\ u.ready = c.ready
  BY <1>1, <1>2 DEF LobbyMemory
<1> QED BY <1>1, <1>3 DEF Elsewhere, u

LEMMA LoseTeamLivesFields ==
  ASSUME NEW s \in LobbyMemory, lobby \in Setups, NEW T \in SUBSET Teams
  PROVE  LET u == LoseTeamLives(s, T) IN
         /\ u \in LobbyMemory /\ Elsewhere(s, u)
         /\ u.inMatch = s.inMatch /\ u.ready = s.ready /\ u.active = s.active
         /\ \A t \in Teams :
              /\ u.teamLives[t] \in Nat /\ s.teamLives[t] \in Nat
              /\ u.teamLives[t] <= s.teamLives[t]
              /\ t \notin T \/ s.blocker[t] => u.teamLives[t] = s.teamLives[t]
              /\ u.blocker[t] <=> s.blocker[t] \/ t \in T
<1> DEFINE u == LoseTeamLives(s, T)
           charged == {t \in T : ~s.blocker[t]}
           left == LivesLeft(s, charged)
           blocked == [t \in Teams |-> s.blocker[t] \/ t \in T]
           told == [p \in Players |-> IF p \in ActivePlayers(s) /\ TeamOf[p] \in charged
                                      THEN left[TeamOf[p]] ELSE s.lives[p]]
<1>1. s.teamLives \in [Teams -> 0 .. lobby.lives] /\ s.lives \in [Players -> 0 .. lobby.lives]
      /\ s.blocker \in [Teams -> BOOLEAN] /\ lobby.lives \in Nat
  BY BoundFacts DEF LobbyMemory
<1>2. left = [t \in Teams |-> IF t \in charged /\ s.teamLives[t] > 0 THEN s.teamLives[t] - 1
                              ELSE s.teamLives[t]]
  BY DEF LivesLeft
<1>3. /\ left \in [Teams -> 0 .. lobby.lives]
      /\ \A t \in Teams :
           /\ left[t] \in Nat /\ s.teamLives[t] \in Nat
           /\ left[t] <= s.teamLives[t]
           /\ t \notin T \/ s.blocker[t] => left[t] = s.teamLives[t]
  <2> SUFFICES ASSUME NEW t \in Teams
               PROVE  /\ left[t] \in 0 .. lobby.lives
                      /\ left[t] \in Nat /\ s.teamLives[t] \in Nat
                      /\ left[t] <= s.teamLives[t]
                      /\ t \notin T \/ s.blocker[t] => left[t] = s.teamLives[t]
    BY <1>2
  <2>1. left[t] = IF t \in charged /\ s.teamLives[t] > 0 THEN s.teamLives[t] - 1
                  ELSE s.teamLives[t]
    BY <1>2
  <2>2. s.teamLives[t] \in 0 .. lobby.lives
    BY <1>1
  <2> HIDE DEF left
  <2> QED BY <1>1, <2>1, <2>2
<1>4. told \in [Players -> 0 .. lobby.lives]
  <2> HIDE DEF left
  <2> QED BY <1>1, <1>3, LobbyFacts
<1>5. blocked \in [Teams -> BOOLEAN] /\ \A t \in Teams : blocked[t] <=> s.blocker[t] \/ t \in T
  BY <1>1
<1>6. u = [s EXCEPT !.teamLives = left, !.blocker = blocked, !.lives = told]
  BY DEF LoseTeamLives
<1> HIDE DEF u, left, blocked, told
<1>7. /\ u \in LobbyMemory /\ Elsewhere(s, u)
      /\ u.inMatch = s.inMatch /\ u.ready = s.ready /\ u.active = s.active
      /\ u.teamLives = left /\ u.blocker = blocked
  BY <1>3, <1>4, <1>5, <1>6 DEF LobbyMemory, Elsewhere
<1> QED BY <1>3, <1>5, <1>7 DEF u

------------------------------------------------------------------------------
(* What the queries look at *)

LEMMA SameTable ==
  ASSUME NEW s \in LobbyMemory, NEW u \in LobbyMemory, u.place = s.place, u.inMatch = s.inMatch
  PROVE  /\ ActivePlayers(u) = ActivePlayers(s) /\ SeatedPlayers(u) = SeatedPlayers(s)
         /\ Taking(u) = Taking(s) /\ \A t : Members(u, t) = Members(s, t)
         /\ HasDisconnectedMatchBlocker(u) = HasDisconnectedMatchBlocker(s)
         /\ \A t : HasDisconnectedTeamBlocker(u, t) = HasDisconnectedTeamBlocker(s, t)
BY DEF ActivePlayers, SeatedPlayers, Taking, Members, HasDisconnectedMatchBlocker,
       HasDisconnectedTeamBlocker

LEMMA AtTable ==
  ASSUME NEW s \in LobbyMemory
  PROVE  /\ ActivePlayers(s) \subseteq Taking(s) /\ Taking(s) \subseteq Players
         /\ ~HasDisconnectedMatchBlocker(s) => Taking(s) = ActivePlayers(s)
         /\ \A t : ~HasDisconnectedTeamBlocker(s, t) =>
              \A p \in Taking(s) : TeamOf[p] = t => p \in Members(s, t)
         /\ \A t : Members(s, t) \subseteq ActivePlayers(s)
         /\ \A p \in ActivePlayers(s) : p \in Members(s, TeamOf[p])
<1>1. \A p \in Players : s.place[p] \in {"seated", "away", "gone"}
  BY DEF LobbyMemory
<1> QED BY <1>1 DEF ActivePlayers, SeatedPlayers, Taking, Members, HasDisconnectedMatchBlocker,
                    HasDisconnectedTeamBlocker

\* Whether a PvP blind can be resolved depends on the scores and hands of who plays it.
LEMMA SameScores ==
  ASSUME NEW s, NEW u, ActivePlayers(u) = ActivePlayers(s),
         \A p \in ActivePlayers(s) : u.score[p] = s.score[p] /\ u.hands[p] = s.hands[p]
  PROVE  ShouldResolveBlindNow(u) = ShouldResolveBlindNow(s)
<1>1. \A t : Members(u, t) = Members(s, t) /\ Members(s, t) \subseteq ActivePlayers(s)
  BY DEF Members
<1>2. PlayingTeams(u) = PlayingTeams(s)
  BY <1>1 DEF PlayingTeams
<1>3. Scores(u) = Scores(s)
  <2>1. ASSUME NEW t
        PROVE  Total([p \in Members(u, t) |-> Plain(u.score[p])])
                 = Total([p \in Members(s, t) |-> Plain(s.score[p])])
    <3>1. [p \in Members(u, t) |-> Plain(u.score[p])] = [p \in Members(s, t) |-> Plain(s.score[p])]
      BY <1>1
    <3> QED BY <3>1
  <2> QED BY <1>2, <2>1 DEF Scores
<1>4. {t \in PlayingTeams(u) : ~Finished(u, t)} = {t \in PlayingTeams(s) : ~Finished(s, t)}
  BY <1>1, <1>2 DEF Finished
<1> QED BY <1>3, <1>4 DEF ShouldResolveBlindNow

------------------------------------------------------------------------------
(* Leaving the table *)

\* Fewer players at the table, in the blinds they were in, stay together.
LEMMA FewerTogether ==
  ASSUME NEW s \in LobbyMemory, NEW u \in LobbyMemory, Together(s),
         u.inGame => s.inGame, u.resolved = s.resolved,
         Taking(u) \subseteq Taking(s), ActivePlayers(u) \subseteq ActivePlayers(s),
         \A p \in Taking(u) : u.active[p] = s.active[p],
         \A p \in Players : u.ready[p] # "no" =>
           u.inGame /\ u.ready[p] = s.ready[p] /\ p \in ActivePlayers(u)
  PROVE  Together(u)
<1>1. ActivePlayers(u) \subseteq Taking(u) /\ Taking(u) \subseteq Players
  BY AtTable
<1>2. \A p \in Taking(u) : Stale(u, p) = Stale(s, p) /\ BlindOf(u, p) = BlindOf(s, p)
  BY DEF Stale, BlindOf
<1>3. ReadyBetweenBlinds(u)
  BY <1>1 DEF Together, ReadyBetweenBlinds
<1>4. NotStale(u)
  BY <1>1, <1>2 DEF Together, NotStale
<1>5. TeamsTogether(u)
  BY <1>2 DEF Together, TeamsTogether
<1>6. AllInPvp(u)
  BY DEF Together, AllInPvp
<1> QED BY <1>3, <1>4, <1>5, <1>6 DEF Together

LEMMA OneSpeaksForAll ==
  ASSUME NEW s \in LobbyMemory, Together(s), s.inGame,
         NEW p \in ActivePlayers(s), s.active[p] # "pvp"
  PROVE  \A q \in Taking(s) : s.active[q] # "pvp"
BY AtTable DEF Together, AllInPvp

LEMMA FinishSound ==
  ASSUME NEW s \in LobbyMemory, \A p \in Players : s.ready[p] # "no" => p \in ActivePlayers(s)
  PROVE  Sound(FinishMatch(s))
<1> DEFINE u == FinishMatch(s)
<1>1. ~u.inGame /\ \A p \in Players : u.ready[p] = "no"
  BY FinishMatchFields
<1> HIDE DEF u
<1>2. Together(u)
  BY <1>1 DEF Together, ReadyBetweenBlinds, NotStale, TeamsTogether, AllInPvp
<1>3. TwoTeams(u) /\ NotOverdue(u)
  BY <1>1 DEF TwoTeams, NotOverdue
<1> QED BY <1>2, <1>3 DEF Sound, u

\* Teams without lives leave the table when two others go on.
LEMMA EliminationSound ==
  ASSUME NEW s \in LobbyMemory, Together(s), s.inGame, ~AtMostOne(AliveTeams(s)),
         \A p \in ActivePlayers(s) : s.active[p] # "pvp",
         NEW D, \A p \in D : p \in ActivePlayers(s) => s.teamLives[TeamOf[p]] = 0
  PROVE  Sound(ClearParticipation(s, D))
<1> DEFINE u == ClearParticipation(s, D)
<1>1. /\ u \in LobbyMemory /\ Elsewhere(s, u) /\ u.teamLives = s.teamLives
      /\ \A p \in Players :
           /\ u.ready[p] = IF p \in D THEN "no" ELSE s.ready[p]
           /\ u.active[p] = IF p \in D THEN "none" ELSE s.active[p]
           /\ u.inMatch[p] <=> s.inMatch[p] /\ p \notin D
  BY ClearParticipationFields
<1> HIDE DEF u
<1>2. /\ u.inGame = s.inGame /\ u.place = s.place /\ u.resolved = s.resolved
  BY <1>1 DEF Elsewhere
<1>3. /\ Taking(u) = Taking(s) \ D /\ ActivePlayers(u) = ActivePlayers(s) \ D
  BY <1>1, <1>2 DEF Taking, ActivePlayers, SeatedPlayers
<1>4. ActivePlayers(s) \subseteq Players /\ Taking(s) \subseteq Players
  BY AtTable
<1>5. Together(u)
  <2>1. \A p \in Taking(u) : u.active[p] = s.active[p]
    BY <1>1, <1>3, <1>4
  <2>2. \A p \in Players : u.ready[p] # "no" =>
           u.inGame /\ u.ready[p] = s.ready[p] /\ p \in ActivePlayers(u)
    BY <1>1, <1>2, <1>3 DEF Together, ReadyBetweenBlinds
  <2> QED BY <1>1, <1>2, <1>3, <2>1, <2>2, FewerTogether
<1>6. AliveTeams(s) \subseteq AliveTeams(u)
  <2> SUFFICES ASSUME NEW t \in Teams, Members(s, t) # {}, s.teamLives[t] > 0
               PROVE  Members(u, t) # {}
    BY <1>1 DEF AliveTeams
  <2>1. PICK p \in ActivePlayers(s) : TeamOf[p] = t
    BY DEF Members
  <2>2. p \notin D
    BY <2>1 DEF LobbyMemory
  <2> QED BY <1>3, <2>1, <2>2 DEF Members
<1>7. TwoTeams(u)
  BY <1>6 DEF TwoTeams, AtMostOne
<1>8. NotOverdue(u)
  BY <1>1, <1>3, <1>4 DEF NotOverdue
<1> QED BY <1>5, <1>7, <1>8 DEF Sound, u

\* A step that keeps who plays with which lives keeps the match of two teams.
LEMMA SameLivesTwoTeams ==
  ASSUME NEW s \in LobbyMemory, NEW u \in LobbyMemory, TwoTeams(s),
         u.inGame = s.inGame, u.place = s.place, u.inMatch = s.inMatch,
         \A t \in Teams : s.teamLives[t] > 0 => u.teamLives[t] > 0
  PROVE  TwoTeams(u)
<1>1. AliveTeams(s) \subseteq AliveTeams(u)
  BY SameTable DEF AliveTeams
<1> QED BY <1>1, SameTable DEF TwoTeams, AtMostOne

------------------------------------------------------------------------------
(* What a step may not cost *)

\* A blocked team loses no life.
Guarded(s, u) ==
  \A t \in Teams : s.blocker[t] => u.blocker[t] /\ u.teamLives[t] = s.teamLives[t]

\* A team that has won its blind loses no life.
Spares(s, u) ==
  \A t \in Teams : s.resolved[t] = "won" => u.teamLives[t] = s.teamLives[t]

\* Nobody gets ready, and blinds neither start nor end.
Quiet(s, u) ==
  /\ u.resolved = s.resolved
  /\ \A p \in Players : u.ready[p] # "no" => u.ready[p] = s.ready[p]

LEMMA LossTogether ==
  ASSUME NEW s \in LobbyMemory, lobby \in Setups, NEW T \in SUBSET Teams, Together(s)
  PROVE  Together(LoseTeamLives(s, T))
<1> DEFINE u == LoseTeamLives(s, T)
<1>1. /\ u \in LobbyMemory /\ Elsewhere(s, u)
      /\ u.inMatch = s.inMatch /\ u.ready = s.ready /\ u.active = s.active
  BY LoseTeamLivesFields
<1> HIDE DEF u
<1>2. u.inGame = s.inGame /\ u.place = s.place /\ u.resolved = s.resolved
  BY <1>1 DEF Elsewhere
<1>3. ActivePlayers(u) = ActivePlayers(s) /\ Taking(u) = Taking(s)
  BY <1>1, <1>2, SameTable
<1>4. \A p \in Players : u.ready[p] # "no" =>
         u.inGame /\ u.ready[p] = s.ready[p] /\ p \in ActivePlayers(u)
  BY <1>1, <1>2, <1>3 DEF Together, ReadyBetweenBlinds
<1>5. Together(u)
  BY <1>1, <1>2, <1>3, <1>4, FewerTogether
<1> QED BY <1>5 DEF u

\* The PvP blind is over for everybody, and ends the match or its losers.
LEMMA ResolvePvpSound ==
  ASSUME NEW s \in LobbyMemory, lobby \in Setups, Together(s), s.inGame,
         ~HasDisconnectedMatchBlocker(s), \A p \in ActivePlayers(s) : s.active[p] = "pvp"
  PROVE  LET u == ResolvePvp(s) IN
         /\ u \in LobbyMemory /\ Sound(u)
         /\ Guarded(s, u) /\ Spares(s, u) /\ Quiet(s, u)
<1> DEFINE losers == Losers(s)
           cleared == ClearBlind(s, ActivePlayers(s))
           after == LoseTeamLives(cleared, losers)
           D == {p \in ActivePlayers(s) : TeamOf[p] \in DeadTeams(after, losers)}
<1>1. /\ cleared \in LobbyMemory /\ Elsewhere(s, cleared)
      /\ cleared.inMatch = s.inMatch /\ cleared.ready = s.ready
      /\ cleared.teamLives = s.teamLives /\ cleared.blocker = s.blocker
      /\ \A p \in Players : cleared.active[p] = IF p \in ActivePlayers(s) THEN "none" ELSE s.active[p]
  BY ClearBlindFields
<1>2. losers \in SUBSET Teams /\ \A t \in losers : \E p \in ActivePlayers(s) : TeamOf[p] = t
  BY DEF Losers, PlayingTeams, Members
<1> HIDE DEF cleared, losers
<1>3. /\ after \in LobbyMemory /\ Elsewhere(cleared, after)
      /\ after.inMatch = cleared.inMatch /\ after.ready = cleared.ready
      /\ after.active = cleared.active
      /\ \A t \in Teams :
           /\ t \notin losers \/ cleared.blocker[t] => after.teamLives[t] = cleared.teamLives[t]
           /\ after.blocker[t] <=> cleared.blocker[t] \/ t \in losers
  BY <1>1, <1>2, LoseTeamLivesFields
<1> HIDE DEF after
<1>4. /\ after.inGame /\ after.place = s.place /\ after.resolved = s.resolved
      /\ after.inMatch = s.inMatch /\ after.ready = s.ready
  BY <1>1, <1>3 DEF Elsewhere
<1>5. /\ ActivePlayers(after) = ActivePlayers(s) /\ Taking(after) = Taking(s)
      /\ Taking(s) = ActivePlayers(s) /\ ActivePlayers(s) \subseteq Players
  BY <1>3, <1>4, SameTable, AtTable
<1>6. \A p \in ActivePlayers(s) : after.active[p] = "none"
  BY <1>1, <1>3, <1>5
<1>7. \A p \in Players : s.ready[p] = "no"
  BY DEF Together, ReadyBetweenBlinds
<1>8. Together(after)
  BY <1>4, <1>5, <1>6, <1>7
  DEF Together, ReadyBetweenBlinds, NotStale, TeamsTogether, AllInPvp, Stale, BlindOf
<1>9. Guarded(s, after) /\ Spares(s, after)
  <2>1. \A t \in losers : s.resolved[t] # "won"
    BY <1>2, <1>5 DEF Together, AllInPvp
  <2> QED BY <1>1, <1>3, <2>1 DEF Guarded, Spares
<1> DEFINE u == ResolvePvp(s)
<1>10. u = IF AtMostOne(AliveTeams(after)) THEN FinishMatch(after) ELSE ClearParticipation(after, D)
  BY DEF ResolvePvp, after, cleared, losers
<1> HIDE DEF u
<1>11. CASE AtMostOne(AliveTeams(after))
  <2>1. u = FinishMatch(after)
    BY <1>10, <1>11
  <2>2. Sound(u)
    BY <1>3, <1>4, <1>7, <2>1, FinishSound
  <2>3. /\ u \in LobbyMemory /\ u.teamLives = after.teamLives /\ u.blocker = after.blocker
        /\ u.resolved = after.resolved
        /\ \A p \in Players : u.ready[p] = IF p \in ActivePlayers(after) THEN "no" ELSE after.ready[p]
    BY <1>3, <2>1, FinishMatchFields
  <2>4. Guarded(s, u) /\ Spares(s, u) /\ Quiet(s, u)
    BY <1>4, <1>7, <1>9, <2>3 DEF Guarded, Spares, Quiet
  <2> QED BY <2>2, <2>3, <2>4 DEF u
<1>12. CASE ~AtMostOne(AliveTeams(after))
  <2>1. u = ClearParticipation(after, D)
    BY <1>10, <1>12
  <2>2. \A p \in D : after.teamLives[TeamOf[p]] = 0
    BY DEF DeadTeams
  <2>3. \A p \in ActivePlayers(after) : after.active[p] # "pvp"
    BY <1>5, <1>6
  <2> HIDE DEF D
  <2>4. Sound(u)
    BY <1>3, <1>4, <1>8, <1>12, <2>1, <2>2, <2>3, EliminationSound
  <2>5. /\ u \in LobbyMemory /\ Elsewhere(after, u)
        /\ u.teamLives = after.teamLives /\ u.blocker = after.blocker
        /\ \A p \in Players : u.ready[p] = IF p \in D THEN "no" ELSE after.ready[p]
    BY <1>3, <2>1, ClearParticipationFields
  <2>6. Guarded(s, u) /\ Spares(s, u) /\ Quiet(s, u)
    BY <1>4, <1>7, <1>9, <2>5 DEF Guarded, Spares, Quiet, Elsewhere
  <2> QED BY <2>4, <2>5, <2>6 DEF u
<1> QED BY <1>11, <1>12

\* Reconciliation makes up for whatever brought the match to its end.
LEMMA ReconcileSound ==
  ASSUME NEW s \in LobbyMemory, lobby \in Setups, Together(s), NEW departure \in BOOLEAN
  PROVE  LET u == Reconcile(s, departure) IN
         /\ u \in LobbyMemory /\ Sound(u)
         /\ Guarded(s, u) /\ Spares(s, u) /\ Quiet(s, u)
<1> DEFINE u == Reconcile(s, departure)
<1>0. Guarded(s, s) /\ Spares(s, s) /\ Quiet(s, s)
  BY DEF Guarded, Spares, Quiet
<1>1. CASE ~s.inGame \/ HasDisconnectedMatchBlocker(s)
  <2>1. u = s
    BY <1>1 DEF Reconcile
  <2>2. TwoTeams(s) /\ NotOverdue(s)
    BY <1>1 DEF TwoTeams, NotOverdue
  <2> QED BY <1>0, <2>1, <2>2 DEF Sound
<1>2. CASE u = FinishMatch(s)
  <2>1. Sound(FinishMatch(s))
    BY FinishSound DEF Together, ReadyBetweenBlinds
  <2> DEFINE f == FinishMatch(s)
  <2>2. /\ f \in LobbyMemory /\ f.teamLives = s.teamLives /\ f.blocker = s.blocker
        /\ f.resolved = s.resolved
        /\ \A p \in Players : f.ready[p] = IF p \in ActivePlayers(s) THEN "no" ELSE s.ready[p]
    BY FinishMatchFields
  <2> HIDE DEF f
  <2>3. Guarded(s, f) /\ Spares(s, f) /\ Quiet(s, f)
    BY <2>2 DEF Guarded, Spares, Quiet
  <2> QED BY <1>2, <2>1, <2>2, <2>3 DEF f
<1>3. CASE /\ s.inGame /\ ~HasDisconnectedMatchBlocker(s)
           /\ ~(departure /\ AtMostOne(ActivePlayers(s))) /\ ~(~Coop /\ AtMostOne(AliveTeams(s)))
  <2>1. TwoTeams(s)
    BY <1>3 DEF TwoTeams
  <2>2. CASE Coop \/ \E p \in ActivePlayers(s) : s.active[p] # "pvp"
    <3>1. u = s
      BY <1>3, <2>2 DEF Reconcile
    <3>2. NotOverdue(s)
      BY <1>3, <2>2, AtTable DEF NotOverdue, Together, AllInPvp
    <3> QED BY <1>0, <2>1, <3>1, <3>2 DEF Sound
  <2>3. CASE ~Coop /\ (\A p \in ActivePlayers(s) : s.active[p] = "pvp") /\ ShouldResolveBlindNow(s)
    <3>1. u = ResolvePvp(s)
      BY <1>3, <2>3 DEF Reconcile
    <3> QED BY <1>3, <2>3, <3>1, ResolvePvpSound
  <2>4. CASE ~Coop /\ (\A p \in ActivePlayers(s) : s.active[p] = "pvp") /\ ~ShouldResolveBlindNow(s)
    <3>1. u = s
      BY <1>3, <2>4 DEF Reconcile
    <3>2. NotOverdue(s)
      BY <2>4 DEF NotOverdue
    <3> QED BY <1>0, <2>1, <3>1, <3>2 DEF Sound
  <2> QED BY <2>2, <2>3, <2>4
<1>4. \/ ~s.inGame \/ HasDisconnectedMatchBlocker(s)
      \/ u = FinishMatch(s)
      \/ /\ s.inGame /\ ~HasDisconnectedMatchBlocker(s)
         /\ ~(departure /\ AtMostOne(ActivePlayers(s))) /\ ~(~Coop /\ AtMostOne(AliveTeams(s)))
  BY DEF Reconcile
<1> QED BY <1>1, <1>2, <1>3, <1>4

------------------------------------------------------------------------------
(* Charging teams *)

\* A team is charged outside PvP blinds.
LEMMA ChargeTeamSound ==
  ASSUME NEW s \in LobbyMemory, lobby \in Setups, NEW t \in Teams, Together(s), TwoTeams(s),
         s.inGame, ActivePlayers(s) # {}, \A p \in ActivePlayers(s) : s.active[p] # "pvp"
  PROVE  LET u == ChargeTeam(s, t) IN
         /\ u \in LobbyMemory /\ Sound(u)
         /\ Guarded(s, u) /\ \A v \in Teams \ {t} : u.teamLives[v] = s.teamLives[v]
<1> DEFINE after == LoseTeamLives(s, {t})
           u == ChargeTeam(s, t)
<1>1. /\ after \in LobbyMemory /\ Elsewhere(s, after)
      /\ after.inMatch = s.inMatch /\ after.ready = s.ready /\ after.active = s.active
      /\ \A v \in Teams :
           /\ after.teamLives[v] \in Nat /\ s.teamLives[v] \in Nat
           /\ v \notin {t} \/ s.blocker[v] => after.teamLives[v] = s.teamLives[v]
           /\ after.blocker[v] <=> s.blocker[v] \/ v \in {t}
  BY LoseTeamLivesFields
<1>2. Together(after)
  BY LossTogether
<1>3. u = IF after.teamLives[t] = 0
          THEN IF AtMostOne(AliveTeams(after)) THEN FinishMatch(after)
               ELSE ClearParticipation(after, Members(after, t))
          ELSE after
  BY DEF ChargeTeam, ResolveTeamsGameOver
<1> HIDE DEF after, u
<1>4. after.inGame /\ after.place = s.place
  BY <1>1 DEF Elsewhere
<1>5. ActivePlayers(after) = ActivePlayers(s)
  BY <1>1, <1>4, SameTable
<1>6. Guarded(s, after) /\ \A v \in Teams \ {t} : after.teamLives[v] = s.teamLives[v]
  BY <1>1 DEF Guarded
<1>7. CASE after.teamLives[t] # 0
  <2>1. u = after
    BY <1>3, <1>7
  <2>2. \A v \in Teams : s.teamLives[v] > 0 => after.teamLives[v] > 0
    BY <1>1, <1>7
  <2>3. TwoTeams(after)
    BY <1>1, <1>4, <2>2, SameLivesTwoTeams
  <2>4. NotOverdue(after)
    BY <1>1, <1>5 DEF NotOverdue
  <2> QED BY <1>1, <1>2, <1>6, <2>1, <2>3, <2>4 DEF Sound, u
<1>8. CASE after.teamLives[t] = 0 /\ AtMostOne(AliveTeams(after))
  <2>1. u = FinishMatch(after)
    BY <1>3, <1>8
  <2>2. Sound(u)
    BY <1>1, <1>2, <2>1, FinishSound DEF Together, ReadyBetweenBlinds
  <2>3. u \in LobbyMemory /\ u.teamLives = after.teamLives /\ u.blocker = after.blocker
    BY <1>1, <2>1, FinishMatchFields
  <2> QED BY <1>6, <2>2, <2>3 DEF Guarded, u
<1>9. CASE after.teamLives[t] = 0 /\ ~AtMostOne(AliveTeams(after))
  <2>1. u = ClearParticipation(after, Members(after, t))
    BY <1>3, <1>9
  <2>2. \A p \in Members(after, t) : after.teamLives[TeamOf[p]] = 0
    BY <1>9 DEF Members
  <2>3. \A p \in ActivePlayers(after) : after.active[p] # "pvp"
    BY <1>1, <1>5
  <2>4. Sound(u)
    BY <1>1, <1>2, <1>4, <1>9, <2>1, <2>2, <2>3, EliminationSound
  <2>5. u \in LobbyMemory /\ u.teamLives = after.teamLives /\ u.blocker = after.blocker
    BY <1>1, <2>1, ClearParticipationFields
  <2> QED BY <1>6, <2>4, <2>5 DEF Guarded, u
<1> QED BY <1>7, <1>8, <1>9

\* Whoever was told of the charge that ended the match, the match is over.
LEMMA ChargeTeamsSound ==
  ASSUME NEW s \in LobbyMemory, lobby \in Setups, NEW T \in SUBSET Teams, Together(s), TwoTeams(s),
         s.inGame, \A p \in ActivePlayers(s) : s.active[p] # "pvp",
         NEW u \in ChargeTeams(s, T)
  PROVE  u \in LobbyMemory /\ Sound(u) /\ Guarded(s, u)
<1> DEFINE after == LoseTeamLives(s, T)
           told(U) == [p \in Players |-> IF TeamOf[p] \in U THEN after.lives[p] ELSE s.lives[p]]
           D == {p \in ActivePlayers(s) : TeamOf[p] \in DeadTeams(after, T)}
<1>1. /\ after \in LobbyMemory /\ Elsewhere(s, after)
      /\ after.inMatch = s.inMatch /\ after.ready = s.ready /\ after.active = s.active
      /\ \A t \in Teams :
           /\ after.teamLives[t] \in Nat /\ s.teamLives[t] \in Nat
           /\ t \notin T \/ s.blocker[t] => after.teamLives[t] = s.teamLives[t]
           /\ after.blocker[t] <=> s.blocker[t] \/ t \in T
  BY LoseTeamLivesFields
<1>2. Together(after)
  BY LossTogether
<1>3. CASE EndsMatch(s, T)
  <2>1. PICK U \in SUBSET T : u = FinishMatch([after EXCEPT !.lives = told(U)])
    BY <1>3 DEF ChargeTeams
  <2> DEFINE last == [after EXCEPT !.lives = told(U)]
  <2>2. told(U) \in [Players -> 0 .. lobby.lives]
    BY <1>1 DEF LobbyMemory
  <2>3. u = FinishMatch(last)
    BY <2>1
  <2> HIDE DEF told
  <2>4. /\ last \in LobbyMemory /\ last.place = after.place /\ last.inMatch = after.inMatch
        /\ last.ready = after.ready /\ last.teamLives = after.teamLives
        /\ last.blocker = after.blocker
    BY <1>1, <2>2 DEF LobbyMemory
  <2> HIDE DEF last, after
  <2>5. ActivePlayers(last) = ActivePlayers(after)
    BY <1>1, <2>4, SameTable
  <2>6. Sound(u)
    BY <1>2, <2>3, <2>4, <2>5, FinishSound DEF Together, ReadyBetweenBlinds
  <2>7. u \in LobbyMemory /\ u.teamLives = last.teamLives /\ u.blocker = last.blocker
    BY <2>3, <2>4, FinishMatchFields
  <2>8. Guarded(s, u)
    BY <1>1, <2>4, <2>7 DEF Guarded
  <2> QED BY <2>6, <2>7, <2>8
<1>4. CASE ~EndsMatch(s, T)
  <2>1. u = ClearParticipation(after, D)
    BY <1>4 DEF ChargeTeams
  <2>2. DeadTeams(after, T) = {} \/ ~AtMostOne(AliveTeams(after))
    BY <1>4 DEF EndsMatch
  <2>3. \A p \in D : after.teamLives[TeamOf[p]] = 0
    BY DEF DeadTeams
  <2>4. DeadTeams(after, T) = {} => D = {}
    OBVIOUS
  <2>5. DeadTeams(after, T) = {} => \A t \in T : after.teamLives[t] # 0
    BY DEF DeadTeams
  <2> HIDE DEF after, D
  <2>6. after.inGame /\ after.place = s.place
    BY <1>1 DEF Elsewhere
  <2>7. \A p \in ActivePlayers(after) : after.active[p] # "pvp"
    BY <1>1, <2>6, SameTable
  <2>8. /\ u \in LobbyMemory /\ Elsewhere(after, u)
        /\ u.teamLives = after.teamLives /\ u.blocker = after.blocker
        /\ \A p \in Players :
             /\ u.ready[p] = IF p \in D THEN "no" ELSE after.ready[p]
             /\ u.active[p] = IF p \in D THEN "none" ELSE after.active[p]
             /\ u.inMatch[p] <=> after.inMatch[p] /\ p \notin D
    BY <1>1, <2>1, ClearParticipationFields
  <2>9. Guarded(s, u)
    BY <1>1, <2>8 DEF Guarded
  <2>10. CASE ~AtMostOne(AliveTeams(after))
    BY <1>1, <1>2, <2>1, <2>3, <2>6, <2>7, <2>8, <2>9, <2>10, EliminationSound
  <2>11. CASE DeadTeams(after, T) = {}
    <3>1. \A t \in Teams : s.teamLives[t] > 0 => after.teamLives[t] > 0
      BY <1>1, <2>5, <2>11
    <3>2. /\ u.inGame = after.inGame /\ u.place = after.place /\ u.resolved = after.resolved
      BY <2>8 DEF Elsewhere
    <3>3. ActivePlayers(u) = ActivePlayers(after) /\ Taking(u) = Taking(after)
      BY <2>4, <2>8, <2>11, <3>2 DEF ActivePlayers, SeatedPlayers, Taking
    <3>4. Together(u)
      <4>1. \A p \in Taking(u) : u.active[p] = after.active[p]
        BY <2>4, <2>8, <2>11, <3>3, AtTable
      <4>2. \A p \in Players : u.ready[p] # "no" =>
              u.inGame /\ u.ready[p] = after.ready[p] /\ p \in ActivePlayers(u)
        BY <1>2, <2>4, <2>8, <2>11, <3>2, <3>3 DEF Together, ReadyBetweenBlinds
      <4> QED BY <1>1, <1>2, <2>8, <3>2, <3>3, <4>1, <4>2, FewerTogether
    <3>5. TwoTeams(after)
      BY <1>1, <2>6, <3>1, SameLivesTwoTeams
    <3>6. \A t : Members(u, t) = Members(after, t)
      BY <3>3 DEF Members
    <3>7. AliveTeams(u) = AliveTeams(after)
      BY <2>8, <3>6 DEF AliveTeams
    <3>8. HasDisconnectedMatchBlocker(u) = HasDisconnectedMatchBlocker(after)
      BY <2>4, <2>8, <2>11, <3>2 DEF HasDisconnectedMatchBlocker
    <3>9. SeatedPlayers(u) = SeatedPlayers(after)
      BY <3>2 DEF SeatedPlayers
    <3>10. TwoTeams(u)
      BY <3>2, <3>5, <3>7, <3>8, <3>9 DEF TwoTeams
    <3>11. \A p \in ActivePlayers(u) : u.active[p] # "pvp"
      BY <2>7, <2>8, <3>3, AtTable
    <3>12. NotOverdue(u)
      BY <3>11 DEF NotOverdue
    <3> QED BY <2>8, <2>9, <3>4, <3>10, <3>12 DEF Sound
  <2> QED BY <2>2, <2>10, <2>11
<1> QED BY <1>3, <1>4

------------------------------------------------------------------------------
(* Blinds start *)

\* A blind starts with the players who were ready for it.
Opens(s, u) ==
  /\ u.teamLives = s.teamLives
  /\ \A t \in Teams : s.blocker[t] /\ ~u.blocker[t] =>
       \E p \in Players : /\ TeamOf[p] = t \/ u.active[p] = "pvp"
                          /\ s.ready[p] # "no" /\ u.active[p] # "none"

LEMMA StartTeamBlindFields ==
  ASSUME NEW s \in LobbyMemory, lobby \in Setups, NEW t \in Teams, NEW told \in BOOLEAN
  PROVE  LET u == StartTeamBlind(s, t, told) IN
         /\ u \in LobbyMemory
         /\ u.inGame = s.inGame /\ u.place = s.place /\ u.inMatch = s.inMatch
         /\ u.teamLives = s.teamLives
         /\ \A v \in Teams :
              /\ u.blocker[v] <=> v # t /\ s.blocker[v]
              /\ u.resolved[v] = IF v = t THEN "no" ELSE s.resolved[v]
         /\ \A p \in Players :
              /\ u.ready[p] = IF p \in Members(s, t) THEN "no" ELSE s.ready[p]
              /\ u.active[p] = IF p \in Members(s, t) THEN "team" ELSE s.active[p]
<1> DEFINE M == Members(s, t)
           r == ClearReady(s, M)
           active == [p \in Players |-> IF p \in M THEN "team" ELSE r.active[p]]
           score == [p \in Players |-> IF p \in M THEN 0 ELSE r.score[p]]
           hands == [p \in Players |-> IF p \in M THEN Hands ELSE r.hands[p]]
           u == StartTeamBlind(s, t, told)
<1>1. /\ r \in LobbyMemory /\ Elsewhere(s, r)
      /\ r.inMatch = s.inMatch /\ r.active = s.active /\ r.teamLives = s.teamLives
      /\ r.blocker = s.blocker
      /\ \A p \in Players : r.ready[p] = IF p \in M THEN "no" ELSE s.ready[p]
  BY ClearReadyFields
<1>2. u = [r EXCEPT !.known[t] = told, !.blocker[t] = FALSE, !.resolved[t] = "no",
                    !.active = active, !.score = score, !.hands = hands]
  BY DEF StartTeamBlind
<1> HIDE DEF r, M
<1>3. /\ active \in [Players -> {"none", "team", "pvp"}]
      /\ \A p \in Players : active[p] = IF p \in M THEN "team" ELSE r.active[p]
  BY <1>1 DEF LobbyMemory
<1>4. score \in [Players -> 0 .. lobby.maxScore] /\ hands \in [Players -> 0 .. Hands]
  BY <1>1, BoundFacts DEF LobbyMemory
<1> HIDE DEF u, active, score, hands
<1>5. /\ u \in LobbyMemory
      /\ u.inGame = r.inGame /\ u.place = r.place /\ u.inMatch = r.inMatch
      /\ u.teamLives = r.teamLives /\ u.ready = r.ready /\ u.active = active
      /\ u.blocker = [r.blocker EXCEPT ![t] = FALSE]
      /\ u.resolved = [r.resolved EXCEPT ![t] = "no"]
  BY <1>1, <1>2, <1>3, <1>4 DEF LobbyMemory
<1>6. r.blocker \in [Teams -> BOOLEAN] /\ r.resolved \in [Teams -> {"no", "won", "lost"}]
      /\ r.blocker = s.blocker /\ r.resolved = s.resolved
  BY <1>1 DEF LobbyMemory, Elsewhere
<1>7. \A v \in Teams : u.blocker[v] <=> v # t /\ s.blocker[v]
  BY <1>5, <1>6
<1>8. \A v \in Teams : u.resolved[v] = IF v = t THEN "no" ELSE s.resolved[v]
  BY <1>5, <1>6
<1>9. \A p \in Players : u.active[p] = IF p \in M THEN "team" ELSE s.active[p]
  BY <1>1, <1>3, <1>5
<1>10. \A p \in Players : u.ready[p] = IF p \in M THEN "no" ELSE s.ready[p]
  BY <1>1, <1>5
<1>11. /\ u.inGame = s.inGame /\ u.place = s.place /\ u.inMatch = s.inMatch
       /\ u.teamLives = s.teamLives
  BY <1>1, <1>5 DEF Elsewhere
<1> QED BY <1>5, <1>7, <1>8, <1>9, <1>10, <1>11 DEF u, M

\* A team whose members, reserved ones included, are ready starts its blind.
LEMMA StartTeamBlindSound ==
  ASSUME NEW s \in LobbyMemory, lobby \in Setups, Sound(s), NEW t \in Teams,
         TeamReady(s, t), ~HasDisconnectedTeamBlocker(s, t), NEW told \in BOOLEAN
  PROVE  LET u == StartTeamBlind(s, t, told) IN
         u \in LobbyMemory /\ Sound(u) /\ Opens(s, u)
<1> DEFINE M == Members(s, t)
           u == StartTeamBlind(s, t, told)
<1>1. /\ u \in LobbyMemory
      /\ u.inGame = s.inGame /\ u.place = s.place /\ u.inMatch = s.inMatch
      /\ u.teamLives = s.teamLives
      /\ \A v \in Teams :
           /\ u.blocker[v] <=> v # t /\ s.blocker[v]
           /\ u.resolved[v] = IF v = t THEN "no" ELSE s.resolved[v]
      /\ \A p \in Players :
           /\ u.ready[p] = IF p \in M THEN "no" ELSE s.ready[p]
           /\ u.active[p] = IF p \in M THEN "team" ELSE s.active[p]
  BY StartTeamBlindFields
<1> HIDE DEF u
<1>2. PICK m \in M : m \in ActivePlayers(s) /\ TeamOf[m] = t
  BY DEF TeamReady, Members
<1>3. \A p \in M : p \in Players /\ TeamOf[p] = t /\ s.ready[p] = "team" /\ s.active[p] = "none"
  BY AtTable DEF TeamReady, Members, Sound, Together, ReadyBetweenBlinds
<1>4. \A p \in Taking(s) : TeamOf[p] = t <=> p \in M
  BY AtTable DEF Members
<1>5. \A p \in Taking(s) : s.active[p] # "pvp"
  <2>1. s.inGame
    BY <1>2, <1>3 DEF Sound, Together, ReadyBetweenBlinds
  <2> QED BY <1>2, <1>3, <2>1, OneSpeaksForAll DEF Sound
<1> HIDE DEF M
<1>6. /\ ActivePlayers(u) = ActivePlayers(s) /\ Taking(u) = Taking(s)
      /\ ActivePlayers(s) \subseteq Taking(s) /\ Taking(s) \subseteq Players
  BY <1>1, SameTable, AtTable
<1>7. \A p \in Taking(s) : /\ p \in M => BlindOf(u, p) = "team" /\ ~Stale(u, p)
                           /\ p \notin M => /\ BlindOf(u, p) = BlindOf(s, p)
                                            /\ Stale(u, p) = Stale(s, p)
  BY <1>1, <1>3, <1>4, <1>6, LobbyFacts DEF BlindOf, Stale
<1>8. ReadyBetweenBlinds(u)
  BY <1>1, <1>6 DEF Sound, Together, ReadyBetweenBlinds
<1>9. NotStale(u)
  BY <1>1, <1>6, <1>7 DEF Sound, Together, NotStale
<1>10. TeamsTogether(u)
  BY <1>1, <1>4, <1>6, <1>7 DEF Sound, Together, TeamsTogether
<1>11. AllInPvp(u)
  BY <1>1, <1>5, <1>6 DEF AllInPvp
<1>12. TwoTeams(u)
  BY <1>1, SameLivesTwoTeams DEF Sound
<1>13. NotOverdue(u)
  BY <1>1, <1>2, <1>6 DEF NotOverdue
<1>14. Opens(s, u)
  BY <1>1, <1>2, <1>3 DEF Opens
<1> QED BY <1>1, <1>8, <1>9, <1>10, <1>11, <1>12, <1>13, <1>14 DEF Sound, Together, u

LEMMA StartGlobalBlindFields ==
  ASSUME NEW s \in LobbyMemory, lobby \in Setups
  PROVE  LET u == StartGlobalBlind(s) IN
         /\ u \in LobbyMemory
         /\ u.inGame = s.inGame /\ u.place = s.place /\ u.inMatch = s.inMatch
         /\ u.teamLives = s.teamLives
         /\ \A t \in Teams : ~u.blocker[t] /\ u.resolved[t] = "no"
         /\ \A p \in Players :
              /\ u.ready[p] = IF p \in ActivePlayers(s) THEN "no" ELSE s.ready[p]
              /\ u.active[p] = IF p \in ActivePlayers(s) THEN "pvp" ELSE s.active[p]
              /\ p \in ActivePlayers(s) => u.hands[p] = Hands
<1> DEFINE A == ActivePlayers(s)
           r == ClearReady(s, A)
           active == [p \in Players |-> IF p \in A THEN "pvp" ELSE r.active[p]]
           score == [p \in Players |-> IF p \in A THEN 0 ELSE r.score[p]]
           hands == [p \in Players |-> IF p \in A THEN Hands ELSE r.hands[p]]
           u == StartGlobalBlind(s)
<1>1. /\ r \in LobbyMemory /\ Elsewhere(s, r)
      /\ r.inMatch = s.inMatch /\ r.active = s.active /\ r.teamLives = s.teamLives
      /\ \A p \in Players : r.ready[p] = IF p \in A THEN "no" ELSE s.ready[p]
  BY ClearReadyFields
<1>2. u = [r EXCEPT !.known = EveryTeam(FALSE), !.blocker = EveryTeam(FALSE),
                    !.resolved = EveryTeam("no"), !.active = active, !.score = score,
                    !.hands = hands]
  BY DEF StartGlobalBlind
<1> HIDE DEF r, A
<1>3. /\ active \in [Players -> {"none", "team", "pvp"}]
      /\ \A p \in Players : active[p] = IF p \in A THEN "pvp" ELSE r.active[p]
  BY <1>1 DEF LobbyMemory
<1>4. /\ score \in [Players -> 0 .. lobby.maxScore] /\ hands \in [Players -> 0 .. Hands]
      /\ \A p \in Players : p \in A => hands[p] = Hands
  BY <1>1, BoundFacts DEF LobbyMemory
<1> HIDE DEF u, active, score, hands
<1>5. /\ u \in LobbyMemory
      /\ u.inGame = r.inGame /\ u.place = r.place /\ u.inMatch = r.inMatch
      /\ u.teamLives = r.teamLives /\ u.ready = r.ready /\ u.active = active
      /\ u.hands = hands /\ u.blocker = EveryTeam(FALSE) /\ u.resolved = EveryTeam("no")
  BY <1>1, <1>2, <1>3, <1>4 DEF LobbyMemory, EveryTeam
<1> QED BY <1>1, <1>3, <1>4, <1>5 DEF Elsewhere, EveryTeam, u, A

\* Two teams that are alive and have hands to play leave a new PvP blind open.
LEMMA StartGlobalBlindSound ==
  ASSUME NEW s \in LobbyMemory, lobby \in Setups, Sound(s), PvpReady(s),
         ~HasDisconnectedMatchBlocker(s)
  PROVE  LET u == StartGlobalBlind(s) IN
         u \in LobbyMemory /\ Sound(u) /\ Opens(s, u)
<1> DEFINE u == StartGlobalBlind(s)
<1>1. /\ u \in LobbyMemory
      /\ u.inGame = s.inGame /\ u.place = s.place /\ u.inMatch = s.inMatch
      /\ u.teamLives = s.teamLives
      /\ \A t \in Teams : ~u.blocker[t] /\ u.resolved[t] = "no"
      /\ \A p \in Players :
           /\ u.ready[p] = IF p \in ActivePlayers(s) THEN "no" ELSE s.ready[p]
           /\ u.active[p] = IF p \in ActivePlayers(s) THEN "pvp" ELSE s.active[p]
           /\ p \in ActivePlayers(s) => u.hands[p] = Hands
  BY StartGlobalBlindFields
<1> HIDE DEF u
<1>2. PICK m \in ActivePlayers(s) : s.ready[m] = "pvp"
  BY DEF PvpReady
<1>3. s.inGame /\ ~Coop
  BY <1>2, AtTable DEF Sound, Together, ReadyBetweenBlinds
<1>4. /\ ActivePlayers(u) = ActivePlayers(s) /\ Taking(u) = Taking(s)
      /\ ActivePlayers(s) = Taking(s) /\ Taking(s) \subseteq Players
      /\ \A t : Members(u, t) = Members(s, t)
  BY <1>1, SameTable, AtTable
<1>5. \A p \in Taking(u) : u.active[p] = "pvp" /\ ~Stale(u, p) /\ BlindOf(u, p) = "pvp"
  BY <1>1, <1>4, LobbyFacts DEF Stale, BlindOf
<1>6. ReadyBetweenBlinds(u)
  BY <1>1, <1>4 DEF Sound, Together, ReadyBetweenBlinds
<1>7. NotStale(u) /\ TeamsTogether(u) /\ AllInPvp(u)
  BY <1>1, <1>3, <1>4, <1>5, LobbyFacts DEF NotStale, TeamsTogether, AllInPvp
<1>8. TwoTeams(u)
  BY <1>1, SameLivesTwoTeams DEF Sound
<1>9. NotOverdue(u)
  <2>1. SeatedPlayers(s) # {}
    BY <1>2 DEF ActivePlayers
  <2>2. ~AtMostOne(AliveTeams(s))
    BY <1>3, <2>1 DEF Sound, TwoTeams
  <2>3. PICK x, y \in Teams : x # y /\ Members(s, x) # {} /\ Members(s, y) # {}
    BY <2>2 DEF AtMostOne, AliveTeams
  <2>4. \A t \in Teams : Members(s, t) # {} => t \in PlayingTeams(u) /\ ~Finished(u, t)
    <3> SUFFICES ASSUME NEW t \in Teams, NEW p \in Members(s, t)
                 PROVE  t \in PlayingTeams(u) /\ ~Finished(u, t)
      OBVIOUS
    <3>1. p \in Members(u, t) /\ p \in ActivePlayers(s)
      BY <1>4 DEF Members
    <3>2. u.hands[p] # 0
      BY <1>1, <1>4, <3>1, TeamAssumption
    <3> QED BY <3>1, <3>2 DEF PlayingTeams, Finished
  <2>5. ~ShouldResolveBlindNow(u)
    <3> DEFINE playing == {t \in PlayingTeams(u) : ~Finished(u, t)}
    <3>1. x \in playing /\ y \in playing
      BY <2>3, <2>4
    <3> HIDE DEF playing
    <3>2. playing # {} /\ \A e : playing # {e}
      BY <2>3, <3>1
    <3>3. ~MayResolve(lobby.rule, Scores(u), playing)
      BY <3>2 DEF MayResolve
    <3> QED BY <3>3 DEF ShouldResolveBlindNow, playing
  <2> QED BY <2>5 DEF NotOverdue
<1>10. Opens(s, u)
  BY <1>1, <1>2, <1>4 DEF Opens
<1> QED BY <1>1, <1>6, <1>7, <1>8, <1>9, <1>10 DEF Sound, Together, u

------------------------------------------------------------------------------
(* The blind of a team ends *)

\* Members at the table leave the blind; those with a reserved slot are told later.
LEMMA BlindOverTogether ==
  ASSUME NEW s \in LobbyMemory, NEW u \in LobbyMemory, lobby \in Setups, Together(s), s.inGame,
         NEW t \in Teams, NEW m \in Members(s, t), s.active[m] = "team",
         u.inGame = s.inGame, u.place = s.place, u.inMatch = s.inMatch, u.ready = s.ready,
         u.resolved[t] # "no", \A v \in Teams \ {t} : u.resolved[v] = s.resolved[v],
         \A p \in Players : u.active[p] = IF p \in Members(s, t) THEN "none" ELSE s.active[p]
  PROVE  Together(u) /\ \A p \in Taking(u) : u.active[p] # "pvp"
<1>1. /\ ActivePlayers(u) = ActivePlayers(s) /\ Taking(u) = Taking(s)
      /\ ActivePlayers(s) \subseteq Taking(s) /\ Taking(s) \subseteq Players
      /\ m \in ActivePlayers(s) /\ TeamOf[m] = t
      /\ \A p \in Members(s, t) : TeamOf[p] = t
      /\ \A p \in ActivePlayers(s) : p \in Members(s, TeamOf[p])
  BY SameTable, AtTable DEF Members
<1>2. \A p \in Taking(s) : s.active[p] # "pvp"
  BY <1>1, OneSpeaksForAll
<1>3. s.resolved[t] = "no" /\ BlindOf(s, m) = "team"
  BY <1>1, LobbyFacts DEF Together, NotStale, Stale, BlindOf, LobbyMemory
<1>4. \A p \in Taking(s) : TeamOf[p] = t => s.active[p] = "team"
  BY <1>1, <1>3 DEF Together, TeamsTogether, Stale, BlindOf
<1>5. \A p \in Taking(s) : TeamOf[p] = t => BlindOf(u, p) = "none"
  BY <1>1, <1>4 DEF BlindOf, Stale
<1>6. \A p \in Taking(s) : TeamOf[p] # t => BlindOf(u, p) = BlindOf(s, p) /\ Stale(u, p) = Stale(s, p)
  BY <1>1, LobbyFacts DEF BlindOf, Stale
<1>7. ReadyBetweenBlinds(u)
  BY <1>1 DEF Together, ReadyBetweenBlinds
<1>8. NotStale(u)
  <2> SUFFICES ASSUME NEW p \in ActivePlayers(u) PROVE ~Stale(u, p)
    BY DEF NotStale
  <2>1. CASE TeamOf[p] = t
    BY <1>1, <2>1 DEF Stale
  <2>2. CASE TeamOf[p] # t
    BY <1>1, <1>6, <2>2 DEF Together, NotStale
  <2> QED BY <2>1, <2>2
<1>9. TeamsTogether(u)
  <2> SUFFICES ASSUME NEW p \in Taking(u), NEW q \in Taking(u), TeamOf[p] = TeamOf[q]
               PROVE  BlindOf(u, p) = BlindOf(u, q)
    BY DEF TeamsTogether
  <2>1. CASE TeamOf[p] = t
    BY <1>1, <1>5, <2>1
  <2>2. CASE TeamOf[p] # t
    BY <1>1, <1>6, <2>2 DEF Together, TeamsTogether
  <2> QED BY <2>1, <2>2
<1>10. \A p \in Taking(u) : u.active[p] # "pvp"
  BY <1>1, <1>2
<1>11. AllInPvp(u)
  BY <1>10 DEF AllInPvp
<1> QED BY <1>7, <1>8, <1>9, <1>10, <1>11 DEF Together

\* A failed blind costs its team a life, or a co-op lobby its match.
LEMMA FailTeamBlindSound ==
  ASSUME NEW s \in LobbyMemory, lobby \in Setups, Together(s), TwoTeams(s), s.inGame,
         NEW t \in Teams, NEW m \in Members(s, t), s.active[m] = "team"
  PROVE  LET u == FailTeamBlind(s, t) IN
         u \in LobbyMemory /\ Sound(u) /\ Guarded(s, u) /\ Spares(s, u)
<1> DEFINE M == Members(s, t)
           failed == [s EXCEPT !.known[t] = FALSE, !.resolved[t] = "lost"]
           after == LoseTeamLives(failed, {t})
           ended == ClearBlind(after, M)
           u == FailTeamBlind(s, t)
<1>1. /\ failed \in LobbyMemory
      /\ failed.inGame = s.inGame /\ failed.place = s.place /\ failed.inMatch = s.inMatch
      /\ failed.ready = s.ready /\ failed.active = s.active /\ failed.teamLives = s.teamLives
      /\ failed.blocker = s.blocker
      /\ failed.resolved = [s.resolved EXCEPT ![t] = "lost"]
  BY DEF LobbyMemory
<1>2. /\ failed.resolved[t] = "lost"
      /\ \A v \in Teams \ {t} : failed.resolved[v] = s.resolved[v]
  BY <1>1 DEF LobbyMemory
<1>3. s.resolved[t] = "no" /\ m \in ActivePlayers(s)
  <2>1. m \in ActivePlayers(s) /\ TeamOf[m] = t
    BY DEF Members
  <2> QED BY <2>1 DEF Together, NotStale, Stale
<1>4. u = IF Coop THEN FinishMatch(failed)
          ELSE IF ended.teamLives[t] = 0 THEN ResolveTeamsGameOver(ended, t) ELSE ended
  BY DEF FailTeamBlind
<1> HIDE DEF failed
<1>5. /\ after \in LobbyMemory /\ Elsewhere(failed, after)
      /\ after.inMatch = failed.inMatch /\ after.ready = failed.ready
      /\ after.active = failed.active
      /\ \A v \in Teams :
           /\ after.teamLives[v] \in Nat /\ failed.teamLives[v] \in Nat
           /\ v \notin {t} \/ failed.blocker[v] => after.teamLives[v] = failed.teamLives[v]
           /\ after.blocker[v] <=> failed.blocker[v] \/ v \in {t}
  BY <1>1, LoseTeamLivesFields
<1> HIDE DEF after
<1>6. /\ ended \in LobbyMemory /\ Elsewhere(after, ended)
      /\ ended.inMatch = after.inMatch /\ ended.ready = after.ready
      /\ ended.teamLives = after.teamLives /\ ended.blocker = after.blocker
      /\ \A p \in Players : ended.active[p] = IF p \in M THEN "none" ELSE after.active[p]
  BY <1>5, ClearBlindFields
<1> HIDE DEF ended, M, u
<1>7. /\ ended.inGame = s.inGame /\ ended.place = s.place /\ ended.inMatch = s.inMatch
      /\ ended.ready = s.ready /\ ended.resolved = failed.resolved
      /\ \A p \in Players : ended.active[p] = IF p \in M THEN "none" ELSE s.active[p]
  BY <1>1, <1>5, <1>6 DEF Elsewhere
<1>8. Together(ended) /\ \A p \in Taking(ended) : ended.active[p] # "pvp"
  <2>1. ended.resolved[t] # "no" /\ \A v \in Teams \ {t} : ended.resolved[v] = s.resolved[v]
    BY <1>2, <1>7
  <2>2. \A p \in Players : ended.active[p] = IF p \in Members(s, t) THEN "none" ELSE s.active[p]
    BY <1>7 DEF M
  <2>3. ended \in LobbyMemory
    BY <1>6
  <2> QED BY <1>7, <2>1, <2>2, <2>3, BlindOverTogether
<1>9. /\ ActivePlayers(ended) = ActivePlayers(s)
      /\ ActivePlayers(failed) = ActivePlayers(s)
      /\ ActivePlayers(ended) \subseteq Taking(ended)
      /\ Members(ended, t) = Members(s, t)
  BY <1>1, <1>6, <1>7, SameTable, AtTable
<1>10. Guarded(s, ended) /\ Spares(s, ended)
  BY <1>1, <1>3, <1>5, <1>6 DEF Guarded, Spares
<1>11. CASE Coop
  <2>1. u = FinishMatch(failed)
    BY <1>4, <1>11
  <2>2. Sound(u)
    BY <1>1, <1>9, <2>1, FinishSound DEF Together, ReadyBetweenBlinds
  <2>3. u \in LobbyMemory /\ u.teamLives = failed.teamLives /\ u.blocker = failed.blocker
    BY <1>1, <2>1, FinishMatchFields
  <2>4. Guarded(s, u) /\ Spares(s, u)
    BY <1>1, <2>3 DEF Guarded, Spares
  <2> QED BY <2>2, <2>3, <2>4 DEF u
<1>12. CASE ~Coop /\ ended.teamLives[t] # 0
  <2>1. u = ended
    BY <1>4, <1>12
  <2>2. \A v \in Teams : s.teamLives[v] > 0 => ended.teamLives[v] > 0
    BY <1>1, <1>5, <1>6, <1>12
  <2>3. TwoTeams(ended)
    BY <1>6, <1>7, <2>2, SameLivesTwoTeams
  <2>4. NotOverdue(ended)
    BY <1>8, <1>9 DEF NotOverdue
  <2> QED BY <1>6, <1>8, <1>10, <2>1, <2>3, <2>4 DEF Sound, u
<1>13. CASE ~Coop /\ ended.teamLives[t] = 0 /\ AtMostOne(AliveTeams(ended))
  <2>1. u = FinishMatch(ended)
    BY <1>4, <1>13 DEF ResolveTeamsGameOver
  <2>2. Sound(u)
    BY <1>6, <1>8, <2>1, FinishSound DEF Together, ReadyBetweenBlinds
  <2>3. u \in LobbyMemory /\ u.teamLives = ended.teamLives /\ u.blocker = ended.blocker
    BY <1>6, <2>1, FinishMatchFields
  <2> QED BY <1>10, <2>2, <2>3 DEF Guarded, Spares, u
<1>14. CASE ~Coop /\ ended.teamLives[t] = 0 /\ ~AtMostOne(AliveTeams(ended))
  <2>1. u = ClearParticipation(ended, Members(ended, t))
    BY <1>4, <1>14 DEF ResolveTeamsGameOver
  <2>2. \A p \in Members(ended, t) : ended.teamLives[TeamOf[p]] = 0
    BY <1>14 DEF Members
  <2>3. Sound(u)
    BY <1>6, <1>7, <1>8, <1>9, <1>14, <2>1, <2>2, EliminationSound
  <2>4. u \in LobbyMemory /\ u.teamLives = ended.teamLives /\ u.blocker = ended.blocker
    BY <1>6, <2>1, ClearParticipationFields
  <2> QED BY <1>10, <2>3, <2>4 DEF Guarded, Spares, u
<1> QED BY <1>11, <1>12, <1>13, <1>14

LEMMA TeamHandSound ==
  ASSUME NEW s \in LobbyMemory, lobby \in Setups, Together(s), TwoTeams(s), s.inGame,
         NEW t \in Teams, NEW m \in Members(s, t), s.active[m] = "team", NEW told \in BOOLEAN
  PROVE  LET u == TeamHand(s, t, told) IN
         u \in LobbyMemory /\ Sound(u) /\ Guarded(s, u) /\ Spares(s, u)
<1> DEFINE M == Members(s, t)
           informed == [s EXCEPT !.known[t] = @ \/ told]
           won == [s EXCEPT !.known[t] = FALSE, !.resolved[t] = "won"]
           ended == ClearBlind(won, M)
           u == TeamHand(s, t, told)
<1>1. u = IF informed.known[t] /\ TeamScore(s, t) >= Target THEN ended
          ELSE IF Finished(s, t) THEN FailTeamBlind(s, t) ELSE informed
  BY DEF TeamHand
<1>2. /\ informed \in LobbyMemory /\ informed.inGame = s.inGame /\ informed.place = s.place
      /\ informed.inMatch = s.inMatch /\ informed.ready = s.ready
      /\ informed.active = s.active /\ informed.teamLives = s.teamLives
      /\ informed.blocker = s.blocker /\ informed.resolved = s.resolved
  BY DEF LobbyMemory
<1>3. /\ won \in LobbyMemory /\ won.inGame = s.inGame /\ won.place = s.place
      /\ won.inMatch = s.inMatch /\ won.ready = s.ready
      /\ won.active = s.active /\ won.teamLives = s.teamLives
      /\ won.blocker = s.blocker /\ won.resolved = [s.resolved EXCEPT ![t] = "won"]
  BY DEF LobbyMemory
<1>4. won.resolved[t] = "won" /\ \A v \in Teams \ {t} : won.resolved[v] = s.resolved[v]
  BY <1>3 DEF LobbyMemory
<1> HIDE DEF informed, won
<1>5. /\ ended \in LobbyMemory /\ Elsewhere(won, ended)
      /\ ended.inMatch = won.inMatch /\ ended.ready = won.ready
      /\ ended.teamLives = won.teamLives /\ ended.blocker = won.blocker
      /\ \A p \in Players : ended.active[p] = IF p \in M THEN "none" ELSE won.active[p]
  BY <1>3, ClearBlindFields
<1> HIDE DEF ended, u, M
<1>6. m \in ActivePlayers(s)
  BY DEF Members
<1>7. CASE u = ended
  <2>1. /\ ended.inGame = s.inGame /\ ended.place = s.place /\ ended.inMatch = s.inMatch
        /\ ended.ready = s.ready /\ ended.resolved = won.resolved
        /\ \A p \in Players : ended.active[p] = IF p \in M THEN "none" ELSE s.active[p]
    BY <1>3, <1>5 DEF Elsewhere
  <2>2. Together(ended) /\ \A p \in Taking(ended) : ended.active[p] # "pvp"
    <3>1. ended.resolved[t] # "no" /\ \A v \in Teams \ {t} : ended.resolved[v] = s.resolved[v]
      BY <1>4, <2>1
    <3>2. \A p \in Players : ended.active[p] = IF p \in Members(s, t) THEN "none" ELSE s.active[p]
      BY <2>1 DEF M
    <3>3. ended \in LobbyMemory
      BY <1>5
    <3> QED BY <2>1, <3>1, <3>2, <3>3, BlindOverTogether
  <2>3. TwoTeams(ended)
    BY <1>3, <1>5, <2>1, SameLivesTwoTeams
  <2>4. NotOverdue(ended)
    BY <1>5, <2>2, AtTable DEF NotOverdue
  <2>5. Guarded(s, ended) /\ Spares(s, ended)
    BY <1>3, <1>5 DEF Guarded, Spares
  <2> QED BY <1>5, <1>7, <2>2, <2>3, <2>4, <2>5 DEF Sound, u
<1>8. CASE u = FailTeamBlind(s, t)
  BY <1>8, FailTeamBlindSound DEF u
<1>9. CASE u = informed
  <2>1. ActivePlayers(informed) = ActivePlayers(s) /\ Taking(informed) = Taking(s)
    BY <1>2, SameTable
  <2>2. \A p \in Players : informed.ready[p] # "no" =>
          informed.inGame /\ informed.ready[p] = s.ready[p] /\ p \in ActivePlayers(informed)
    BY <1>2, <2>1 DEF Together, ReadyBetweenBlinds
  <2>3. Together(informed)
    BY <1>2, <2>1, <2>2, FewerTogether
  <2>4. TwoTeams(informed)
    BY <1>2, SameLivesTwoTeams
  <2>5. NotOverdue(informed)
    BY <1>2, <1>6, <2>1 DEF NotOverdue
  <2>6. Guarded(s, informed) /\ Spares(s, informed)
    BY <1>2 DEF Guarded, Spares
  <2> QED BY <1>2, <1>9, <2>3, <2>4, <2>5, <2>6 DEF Sound, u
<1> QED BY <1>1, <1>7, <1>8, <1>9

------------------------------------------------------------------------------
(* Handlers made of these steps *)

\* what TeamPaysOnce asks of a step from s to u in which nobody reports a new round
Fair(s, u) ==
  \A t \in Teams : s.blocker[t] =>
    /\ u.teamLives[t] = s.teamLives[t]
    /\ ~u.blocker[t] => \E p \in Players : /\ TeamOf[p] = t \/ u.active[p] = "pvp"
                                           /\ s.active[p] = "none" /\ u.active[p] # "none"

\* A new round that p reports concerns its own team's blocker only.
Lifted(s, u, p) ==
  u.teamLives = s.teamLives /\ \A t \in Teams \ {TeamOf[p]} : u.blocker[t] = s.blocker[t]

LEMMA GuardedFair == ASSUME NEW s, NEW u, Guarded(s, u) PROVE Fair(s, u)
BY DEF Guarded, Fair

LEMMA OpensFair ==
  ASSUME NEW r, NEW s \in LobbyMemory, NEW u, Guarded(r, s), Opens(s, u),
         \A p \in Players : s.ready[p] # "no" => r.active[p] = "none"
  PROVE  Fair(r, u)
<1> SUFFICES ASSUME NEW t \in Teams, r.blocker[t]
             PROVE  /\ u.teamLives[t] = r.teamLives[t]
                    /\ ~u.blocker[t] => \E p \in Players :
                         /\ TeamOf[p] = t \/ u.active[p] = "pvp"
                         /\ r.active[p] = "none" /\ u.active[p] # "none"
  BY DEF Fair
<1>1. s.blocker[t] /\ s.teamLives[t] = r.teamLives[t]
  BY DEF Guarded
<1> QED BY <1>1 DEF Opens

\* Announcements alone disturb nothing.
LEMMA SameMatchSound ==
  ASSUME NEW s \in LobbyMemory, NEW u \in LobbyMemory, Sound(s), ReadyBetweenBlinds(u),
         Elsewhere(s, u), u.inMatch = s.inMatch, u.active = s.active, u.teamLives = s.teamLives
  PROVE  Sound(u)
<1>1. /\ u.inGame = s.inGame /\ u.place = s.place /\ u.resolved = s.resolved
      /\ u.score = s.score /\ u.hands = s.hands
  BY DEF Elsewhere
<1>2. /\ ActivePlayers(u) = ActivePlayers(s) /\ SeatedPlayers(u) = SeatedPlayers(s)
      /\ Taking(u) = Taking(s)
      /\ HasDisconnectedMatchBlocker(u) = HasDisconnectedMatchBlocker(s)
  BY <1>1, SameTable
<1>3. \A p : Stale(u, p) = Stale(s, p) /\ BlindOf(u, p) = BlindOf(s, p)
  BY <1>1 DEF Stale, BlindOf
<1>4. NotStale(u) /\ TeamsTogether(u) /\ AllInPvp(u)
  BY <1>1, <1>2, <1>3 DEF Sound, Together, NotStale, TeamsTogether, AllInPvp
<1>5. TwoTeams(u)
  BY <1>1, SameLivesTwoTeams DEF Sound
<1>6. ShouldResolveBlindNow(u) = ShouldResolveBlindNow(s)
  BY <1>1, <1>2, SameScores
<1>7. NotOverdue(u)
  BY <1>1, <1>2, <1>6 DEF Sound, NotOverdue
<1> QED BY <1>4, <1>5, <1>7 DEF Sound, Together

LEMMA ClearReadySound ==
  ASSUME NEW s \in LobbyMemory, Sound(s), NEW D
  PROVE  LET u == ClearReady(s, D) IN
         /\ u \in LobbyMemory /\ Sound(u)
         /\ u.teamLives = s.teamLives /\ u.blocker = s.blocker /\ u.active = s.active
<1> DEFINE u == ClearReady(s, D)
<1>1. /\ u \in LobbyMemory /\ Elsewhere(s, u)
      /\ u.inMatch = s.inMatch /\ u.active = s.active
      /\ u.teamLives = s.teamLives /\ u.blocker = s.blocker
      /\ \A p \in Players : u.ready[p] = IF p \in D THEN "no" ELSE s.ready[p]
  BY ClearReadyFields
<1> HIDE DEF u
<1>2. u.inGame = s.inGame /\ u.place = s.place
  BY <1>1 DEF Elsewhere
<1>3. ReadyBetweenBlinds(u)
  BY <1>1, <1>2, SameTable DEF Sound, Together, ReadyBetweenBlinds
<1> QED BY <1>1, <1>3, SameMatchSound DEF u

LEMMA ResolveSkipSound ==
  ASSUME NEW s \in LobbyMemory, Sound(s), NEW T
  PROVE  LET u == ResolveSkip(s, T) IN
         /\ u \in LobbyMemory /\ Sound(u)
         /\ u.teamLives = s.teamLives /\ u.blocker = s.blocker /\ u.active = s.active
BY ClearReadySound DEF ResolveSkip

\* a player who is between blinds announces something
LEMMA ReadiedSound ==
  ASSUME NEW p \in ActivePlayers(g), g \in LobbyMemory, Sound(g), g.inGame, g.active[p] = "none",
         NEW what \in {"team", "pvp", "skip"}, Coop => what # "pvp"
  PROVE  LET s == [g EXCEPT !.ready[p] = what] IN
         /\ s \in LobbyMemory /\ Sound(s)
         /\ s.teamLives = g.teamLives /\ s.blocker = g.blocker /\ s.resolved = g.resolved
         /\ s.active = g.active /\ s.inGame
<1> DEFINE s == [g EXCEPT !.ready[p] = what]
<1>1. p \in Players
  BY AtTable
<1>2. /\ s \in LobbyMemory /\ s.inGame = g.inGame /\ s.place = g.place /\ s.score = g.score
      /\ s.hands = g.hands /\ s.known = g.known /\ s.resolved = g.resolved
      /\ s.inMatch = g.inMatch /\ s.active = g.active
      /\ s.teamLives = g.teamLives /\ s.blocker = g.blocker
      /\ s.ready = [g.ready EXCEPT ![p] = what]
  BY <1>1 DEF LobbyMemory
<1>3. \A q \in Players : s.ready[q] = IF q = p THEN what ELSE g.ready[q]
  BY <1>1, <1>2 DEF LobbyMemory
<1> HIDE DEF s
<1>4. ActivePlayers(s) = ActivePlayers(g)
  BY <1>2, SameTable
<1>5. ReadyBetweenBlinds(s)
  BY <1>2, <1>3, <1>4 DEF Sound, Together, ReadyBetweenBlinds
<1>6. Elsewhere(g, s)
  BY <1>2 DEF Elsewhere
<1>7. Sound(s)
  BY <1>2, <1>5, <1>6, SameMatchSound
<1> QED BY <1>2, <1>7 DEF s

\* p leaves for good, from the table or from a reserved slot.
LEMMA DepartSound ==
  ASSUME NEW s \in LobbyMemory, lobby \in Setups, Sound(s), NEW p \in Players
  PROVE  LET u == Depart(s, p) IN
         /\ u \in LobbyMemory /\ Sound(u)
         /\ Guarded(s, u) /\ Spares(s, u) /\ Quiet(s, u)
         /\ Fresh(s) => Fresh(u)
<1> DEFINE c == ClearParticipation(s, {p})
           left == [c EXCEPT !.place[p] = "gone", !.score[p] = 0, !.hands[p] = 0, !.lives[p] = 0]
           u == Depart(s, p)
<1>1. /\ c \in LobbyMemory /\ Elsewhere(s, c)
      /\ c.teamLives = s.teamLives /\ c.blocker = s.blocker
      /\ \A q \in Players :
           /\ c.ready[q] = IF q \in {p} THEN "no" ELSE s.ready[q]
           /\ c.active[q] = IF q \in {p} THEN "none" ELSE s.active[q]
           /\ c.inMatch[q] <=> s.inMatch[q] /\ q \notin {p}
  BY ClearParticipationFields
<1>2. u = IF SeatedPlayers(left) # {} /\ s.inMatch[p] THEN Reconcile(left, TRUE) ELSE left
  BY DEF Depart
<1> HIDE DEF c, u
<1>3. /\ left \in LobbyMemory /\ left.inGame = c.inGame /\ left.resolved = c.resolved
      /\ left.teamLives = c.teamLives /\ left.blocker = c.blocker /\ left.ready = c.ready
      /\ left.active = c.active /\ left.inMatch = c.inMatch
      /\ left.place = [c.place EXCEPT ![p] = "gone"]
      /\ left.score = [c.score EXCEPT ![p] = 0]
      /\ left.hands = [c.hands EXCEPT ![p] = 0]
  <2>1. 0 \in 0 .. lobby.maxScore /\ 0 \in 0 .. Hands /\ 0 \in 0 .. lobby.lives
    BY BoundFacts
  <2>2. /\ [c.place EXCEPT ![p] = "gone"] \in [Players -> {"seated", "away", "gone"}]
        /\ [c.score EXCEPT ![p] = 0] \in [Players -> 0 .. lobby.maxScore]
        /\ [c.hands EXCEPT ![p] = 0] \in [Players -> 0 .. Hands]
        /\ [c.lives EXCEPT ![p] = 0] \in [Players -> 0 .. lobby.lives]
    BY <1>1, <2>1 DEF LobbyMemory
  <2>3. left \in LobbyMemory
    BY <1>1, <2>2 DEF LobbyMemory
  <2> QED BY <1>1, <2>3 DEF LobbyMemory
<1> HIDE DEF left
<1>4. /\ left.inGame = s.inGame /\ left.resolved = s.resolved
      /\ left.teamLives = s.teamLives /\ left.blocker = s.blocker
  BY <1>1, <1>3 DEF Elsewhere
<1>5. \A q \in Players :
        /\ left.place[q] = IF q = p THEN "gone" ELSE s.place[q]
        /\ q # p => left.score[q] = s.score[q] /\ left.hands[q] = s.hands[q]
        /\ left.ready[q] = IF q = p THEN "no" ELSE s.ready[q]
        /\ left.active[q] = IF q = p THEN "none" ELSE s.active[q]
        /\ left.inMatch[q] <=> s.inMatch[q] /\ q # p
  BY <1>1, <1>3 DEF Elsewhere, LobbyMemory
<1>6. /\ ActivePlayers(left) = ActivePlayers(s) \ {p}
      /\ SeatedPlayers(left) = SeatedPlayers(s) \ {p}
      /\ Taking(left) = Taking(s) \ {p} /\ Taking(s) \subseteq Players
  BY <1>5 DEF ActivePlayers, SeatedPlayers, Taking
<1>7. Together(left)
  <2>1. \A q \in Taking(left) : left.active[q] = s.active[q]
    BY <1>5, <1>6
  <2>2. \A q \in Players : left.ready[q] # "no" =>
          left.inGame /\ left.ready[q] = s.ready[q] /\ q \in ActivePlayers(left)
    BY <1>4, <1>5, <1>6 DEF Sound, Together, ReadyBetweenBlinds
  <2> QED BY <1>3, <1>4, <1>6, <2>1, <2>2, FewerTogether DEF Sound
<1>8. Guarded(s, left) /\ Spares(s, left) /\ Quiet(s, left)
  BY <1>4, <1>5 DEF Guarded, Spares, Quiet
<1>9. CASE SeatedPlayers(left) # {} /\ s.inMatch[p]
  <2>1. u = Reconcile(left, TRUE)
    BY <1>2, <1>9
  <2>2. /\ u \in LobbyMemory /\ Sound(u)
        /\ Guarded(left, u) /\ Spares(left, u) /\ Quiet(left, u)
    BY <1>3, <1>7, <2>1, ReconcileSound
  <2>3. Guarded(s, u) /\ Spares(s, u) /\ Quiet(s, u)
    BY <1>4, <1>8, <2>2 DEF Guarded, Spares, Quiet
  <2>4. ~Fresh(s)
    BY <1>9 DEF Fresh
  <2> QED BY <2>2, <2>3, <2>4 DEF u
<1>10. CASE SeatedPlayers(left) = {}
  <2>1. u = left
    BY <1>2, <1>10
  <2>2. TwoTeams(left) /\ NotOverdue(left)
    BY <1>10 DEF TwoTeams, NotOverdue, ActivePlayers
  <2>3. Fresh(s) => Fresh(left)
    BY <1>4, <1>5 DEF Fresh
  <2> QED BY <1>3, <1>7, <1>8, <2>1, <2>2, <2>3 DEF Sound, u
<1>11. CASE ~s.inMatch[p]
  <2>1. u = left
    BY <1>2, <1>11
  <2>2. ActivePlayers(left) = ActivePlayers(s) /\ ActivePlayers(s) \subseteq Players \ {p}
    BY <1>6, <1>11 DEF ActivePlayers, SeatedPlayers
  <2>3. HasDisconnectedMatchBlocker(left) = HasDisconnectedMatchBlocker(s)
    BY <1>5, <1>11 DEF HasDisconnectedMatchBlocker
  <2>4. \A t : Members(left, t) = Members(s, t)
    BY <2>2 DEF Members
  <2>5. AliveTeams(left) = AliveTeams(s)
    BY <1>4, <2>4 DEF AliveTeams
  <2>6. TwoTeams(left)
    BY <1>4, <1>6, <2>3, <2>5 DEF Sound, TwoTeams
  <2>7. ShouldResolveBlindNow(left) = ShouldResolveBlindNow(s)
    BY <1>5, <2>2, SameScores
  <2>8. NotOverdue(left)
    BY <1>4, <1>5, <2>2, <2>3, <2>7 DEF Sound, NotOverdue
  <2>9. Fresh(s) => Fresh(left)
    BY <1>4, <1>5 DEF Fresh
  <2> QED BY <1>3, <1>7, <1>8, <2>1, <2>6, <2>8, <2>9 DEF Sound, u
<1> QED BY <1>9, <1>10, <1>11

\* Whoever was waiting may start a blind when a slot has been given up.
LEMMA PendingStartsSound ==
  ASSUME NEW s \in LobbyMemory, lobby \in Setups, Sound(s), NEW u \in PendingStarts(s)
  PROVE  u \in LobbyMemory /\ Sound(u) /\ (u = s \/ Opens(s, u))
<1>1. CASE u = s
  BY <1>1
<1>2. CASE u = StartGlobalBlind(s) /\ PvpReady(s) /\ ~HasDisconnectedMatchBlocker(s)
  BY <1>2, StartGlobalBlindSound
<1>3. ASSUME NEW t \in Teams, NEW told \in BOOLEAN, u = StartTeamBlind(s, t, told),
             TeamReady(s, t), ~HasDisconnectedTeamBlocker(s, t)
      PROVE  u \in LobbyMemory /\ Sound(u) /\ Opens(s, u)
  BY <1>3, StartTeamBlindSound
<1>4. \A p \in ActivePlayers(s) : TeamOf[p] \in Teams
  BY LobbyFacts, AtTable
<1> QED BY <1>1, <1>2, <1>3, <1>4 DEF PendingStarts

------------------------------------------------------------------------------
(* The handlers *)

\* what every handler that serves a player guarantees
Handled == g' \in LobbyMemory /\ Sound(g') /\ Fair(g, g')

LEMMA StartGameSound ==
  ASSUME TeamInv, StartGame
  PROVE  g' \in LobbyMemory /\ Sound(g')
<1> DEFINE S == SeatedPlayers(g)
           inMatch == [p \in Players |-> p \in S]
           hands == [p \in Players |-> IF p \in S THEN 0 ELSE g.hands[p]]
           lives == [p \in Players |-> IF p \in S THEN lobby.lives ELSE g.lives[p]]
           teamLives == [t \in Teams |-> IF ~Coop /\ \E p \in S : TeamOf[p] = t
                                         THEN lobby.lives ELSE 0]
           u == [g EXCEPT !.inGame = TRUE, !.inMatch = inMatch, !.hands = hands,
                          !.lives = lives, !.teamLives = teamLives]
<1>1. g \in LobbyMemory /\ Sound(g) /\ Fresh(g) /\ lobby' = lobby
  BY DEF TeamInv, TypeOK, StartGame
<1>2. g' = u
  BY DEF StartGame
<1>3. 0 \in 0 .. Hands /\ 0 \in 0 .. lobby.lives /\ lobby.lives \in 0 .. lobby.lives
      /\ lobby.lives > 0
  <2>1. lobby \in Setups
    BY DEF TeamInv, TypeOK
  <2> QED BY <2>1, BoundFacts
<1>4. /\ inMatch \in [Players -> BOOLEAN] /\ hands \in [Players -> 0 .. Hands]
      /\ lives \in [Players -> 0 .. lobby.lives] /\ teamLives \in [Teams -> 0 .. lobby.lives]
  BY <1>1, <1>3 DEF LobbyMemory
<1>5. /\ \A p \in Players : inMatch[p] <=> p \in S
      /\ ~Coop => \A p \in S : TeamOf[p] \in Teams => teamLives[TeamOf[p]] = lobby.lives
  OBVIOUS
<1> HIDE DEF inMatch, hands, lives, teamLives
<1>6. /\ u \in LobbyMemory /\ u.inGame /\ u.inMatch = inMatch /\ u.teamLives = teamLives
      /\ u.place = g.place /\ u.ready = g.ready /\ u.active = g.active
      /\ u.resolved = g.resolved
  BY <1>1, <1>4 DEF LobbyMemory
<1> HIDE DEF u
<1>7. /\ SeatedPlayers(u) = S /\ ActivePlayers(u) = S /\ Taking(u) = S /\ S \subseteq Players
      /\ \A p \in Players : u.ready[p] = "no" /\ u.active[p] = "none"
  BY <1>1, <1>5, <1>6
  DEF SeatedPlayers, ActivePlayers, Taking, Fresh, Sound, Together, ReadyBetweenBlinds
<1> HIDE DEF S
<1>8. Together(u)
  BY <1>7 DEF Together, ReadyBetweenBlinds, NotStale, TeamsTogether, AllInPvp, Stale, BlindOf
<1>9. TwoTeams(u)
  <2> SUFFICES ASSUME ~Coop PROVE ~AtMostOne(AliveTeams(u))
    BY DEF TwoTeams
  <2>1. \A p \in S : TeamOf[p] \in AliveTeams(u)
    <3> SUFFICES ASSUME NEW p \in S PROVE TeamOf[p] \in AliveTeams(u)
      OBVIOUS
    <3>1. TeamOf[p] \in Teams
      BY <1>7, LobbyFacts DEF TeamInv, TypeOK
    <3>2. p \in Members(u, TeamOf[p])
      BY <1>7 DEF Members
    <3>3. u.teamLives[TeamOf[p]] > 0
      BY <1>3, <1>5, <1>6, <3>1
    <3> QED BY <3>1, <3>2, <3>3 DEF AliveTeams
  <2>2. ~AtMostOne({TeamOf[p] : p \in S})
    BY DEF StartGame, S
  <2> QED BY <2>1, <2>2 DEF AtMostOne
<1>10. NotOverdue(u)
  BY <1>7 DEF NotOverdue
<1>11. Sound(u)
  BY <1>8, <1>9, <1>10 DEF Sound
<1> QED BY <1>2, <1>6, <1>11

LEMMA SoundNow ==
  ASSUME TeamInv
  PROVE  g \in LobbyMemory /\ Sound(g) /\ lobby \in Setups
BY DEF TeamInv, TypeOK

LEMMA InPlayFacts ==
  ASSUME TeamInv, NEW p \in Players, InPlay(p)
  PROVE  /\ g.inGame /\ p \in ActivePlayers(g) /\ TeamOf[p] \in Teams
         /\ p \in Members(g, TeamOf[p])
         /\ g.active[p] # "pvp" => \A q \in ActivePlayers(g) : g.active[q] # "pvp"
         /\ g.resolved[TeamOf[p]] # "no" => g.active[p] = "none"
<1>1. g \in LobbyMemory /\ Together(g) /\ g.inGame /\ p \in ActivePlayers(g)
  BY SoundNow DEF InPlay, Sound
<1>2. TeamOf[p] \in Teams /\ p \in Members(g, TeamOf[p])
  BY <1>1, SoundNow, LobbyFacts, AtTable
<1>3. g.active[p] # "pvp" => \A q \in ActivePlayers(g) : g.active[q] # "pvp"
  BY <1>1, OneSpeaksForAll, AtTable
<1>4. ~Stale(g, p)
  BY <1>1 DEF Together, NotStale
<1>5. g.active[p] = "pvp" => g.resolved[TeamOf[p]] = "no"
  BY <1>1, AtTable DEF Together, AllInPvp
<1>6. g.active[p] \in {"none", "team", "pvp"}
  BY <1>1 DEF LobbyMemory
<1> QED BY <1>1, <1>2, <1>3, <1>4, <1>5, <1>6 DEF Stale

LEMMA ReadyForTeamBlindSound ==
  ASSUME TeamInv, NEW p \in Players, NEW told \in BOOLEAN, ReadyForTeamBlind(p, told)
  PROVE  Handled /\ Spares(g, g')
<1> DEFINE s == [g EXCEPT !.ready[p] = "team"]
           t == TeamOf[p]
<1>1. /\ g.inGame /\ p \in ActivePlayers(g) /\ g.active[p] = "none" /\ t \in Teams
  BY InPlayFacts DEF ReadyForTeamBlind
<1>2. /\ s \in LobbyMemory /\ Sound(s)
      /\ s.teamLives = g.teamLives /\ s.blocker = g.blocker /\ s.active = g.active
  BY <1>1, SoundNow, ReadiedSound
<1>3. g' = IF TeamReady(s, t) /\ ~HasDisconnectedTeamBlocker(s, t)
           THEN StartTeamBlind(s, t, told) ELSE s
  BY DEF ReadyForTeamBlind, Step
<1> HIDE DEF s
<1>4. Guarded(g, s) /\ \A q \in Players : s.ready[q] # "no" => g.active[q] = "none"
  BY <1>2 DEF Guarded, Sound, Together, ReadyBetweenBlinds
<1>5. CASE TeamReady(s, t) /\ ~HasDisconnectedTeamBlocker(s, t)
  <2>1. g' \in LobbyMemory /\ Sound(g') /\ Opens(s, g')
    BY <1>1, <1>2, <1>3, <1>5, SoundNow, StartTeamBlindSound
  <2>2. Fair(g, g')
    BY <1>2, <1>4, <2>1, OpensFair
  <2> QED BY <1>2, <2>1, <2>2 DEF Handled, Spares, Opens
<1>6. CASE g' = s
  BY <1>2, <1>4, <1>6, GuardedFair DEF Handled, Spares
<1> QED BY <1>3, <1>5, <1>6

LEMMA ReadyForPvpBlindSound ==
  ASSUME TeamInv, NEW p \in Players, ReadyForPvpBlind(p)
  PROVE  Handled /\ Spares(g, g')
<1> DEFINE s == [g EXCEPT !.ready[p] = "pvp"]
<1>1. g.inGame /\ p \in ActivePlayers(g) /\ g.active[p] = "none" /\ ~Coop
  BY InPlayFacts DEF ReadyForPvpBlind
<1>2. /\ s \in LobbyMemory /\ Sound(s)
      /\ s.teamLives = g.teamLives /\ s.blocker = g.blocker /\ s.active = g.active
  BY <1>1, SoundNow, ReadiedSound
<1>3. g' = IF PvpReady(s) /\ ~HasDisconnectedMatchBlocker(s) THEN StartGlobalBlind(s) ELSE s
  BY DEF ReadyForPvpBlind, Step
<1> HIDE DEF s
<1>4. Guarded(g, s) /\ \A q \in Players : s.ready[q] # "no" => g.active[q] = "none"
  BY <1>2 DEF Guarded, Sound, Together, ReadyBetweenBlinds
<1>5. CASE PvpReady(s) /\ ~HasDisconnectedMatchBlocker(s)
  <2>1. g' \in LobbyMemory /\ Sound(g') /\ Opens(s, g')
    BY <1>2, <1>3, <1>5, SoundNow, StartGlobalBlindSound
  <2>2. Fair(g, g')
    BY <1>2, <1>4, <2>1, OpensFair
  <2> QED BY <1>2, <2>1, <2>2 DEF Handled, Spares, Opens
<1>6. CASE g' = s
  BY <1>2, <1>4, <1>6, GuardedFair DEF Handled, Spares
<1> QED BY <1>3, <1>5, <1>6

LEMMA ReadySkipBlindSound ==
  ASSUME TeamInv, NEW p \in Players, ReadySkipBlind(p)
  PROVE  Handled /\ Spares(g, g')
<1> DEFINE s == [g EXCEPT !.ready[p] = "skip"]
<1>1. g.inGame /\ p \in ActivePlayers(g) /\ g.active[p] = "none"
  BY InPlayFacts DEF ReadySkipBlind
<1>2. /\ s \in LobbyMemory /\ Sound(s)
      /\ s.teamLives = g.teamLives /\ s.blocker = g.blocker
  BY <1>1, SoundNow, ReadiedSound
<1>3. g' = ResolveSkip(s, {TeamOf[p]})
  BY DEF ReadySkipBlind, Step
<1> HIDE DEF s
<1>4. /\ g' \in LobbyMemory /\ Sound(g')
      /\ g'.teamLives = s.teamLives /\ g'.blocker = s.blocker
  BY <1>2, <1>3, ResolveSkipSound
<1>5. Guarded(g, g') /\ Spares(g, g')
  BY <1>2, <1>4 DEF Guarded, Spares
<1> QED BY <1>4, <1>5, GuardedFair DEF Handled

LEMMA UnreadyBlindSound ==
  ASSUME TeamInv, NEW p \in Players, UnreadyBlind(p)
  PROVE  Handled /\ Spares(g, g')
<1>1. /\ g' \in LobbyMemory /\ Sound(g')
      /\ g'.teamLives = g.teamLives /\ g'.blocker = g.blocker
  BY SoundNow, ClearReadySound DEF UnreadyBlind, Step
<1>2. Guarded(g, g') /\ Spares(g, g')
  BY <1>1 DEF Guarded, Spares
<1> QED BY <1>1, <1>2, GuardedFair DEF Handled

\* A report of hands and scores leaves everybody in the blind they are in.
LEMMA ReportedTogether ==
  ASSUME TeamInv, NEW s \in LobbyMemory,
         s.inGame = g.inGame, s.place = g.place, s.inMatch = g.inMatch, s.ready = g.ready,
         s.active = g.active, s.teamLives = g.teamLives, s.blocker = g.blocker,
         s.resolved = g.resolved
  PROVE  /\ Together(s) /\ TwoTeams(s)
         /\ ActivePlayers(s) = ActivePlayers(g) /\ \A t : Members(s, t) = Members(g, t)
         /\ \A u : /\ Guarded(s, u) => Guarded(g, u)
                   /\ Spares(s, u) => Spares(g, u)
<1>1. /\ ActivePlayers(s) = ActivePlayers(g) /\ Taking(s) = Taking(g)
      /\ \A t : Members(s, t) = Members(g, t)
  BY SoundNow, SameTable
<1>2. \A p \in Players : s.ready[p] # "no" =>
        s.inGame /\ s.ready[p] = g.ready[p] /\ p \in ActivePlayers(s)
  BY <1>1, SoundNow DEF Sound, Together, ReadyBetweenBlinds
<1>3. Together(s)
  BY <1>1, <1>2, SoundNow, FewerTogether DEF Sound
<1>4. TwoTeams(s)
  BY SoundNow, SameLivesTwoTeams DEF Sound
<1> QED BY <1>1, <1>3, <1>4 DEF Guarded, Spares

\* A late report clears nobody else's blind, and its sender is in none.
LEMMA LateReportSound ==
  ASSUME NEW s \in LobbyMemory, Together(s), TwoTeams(s), s.inGame,
         NEW p \in ActivePlayers(s), s.active[p] = "none"
  PROVE  LET u == ClearBlind(s, {p}) IN
         /\ u \in LobbyMemory /\ Sound(u)
         /\ u.teamLives = s.teamLives /\ u.blocker = s.blocker
<1> DEFINE u == ClearBlind(s, {p})
<1>1. /\ u \in LobbyMemory /\ Elsewhere(s, u)
      /\ u.inMatch = s.inMatch /\ u.ready = s.ready
      /\ u.teamLives = s.teamLives /\ u.blocker = s.blocker
      /\ \A q \in Players : u.active[q] = IF q \in {p} THEN "none" ELSE s.active[q]
  BY ClearBlindFields
<1> HIDE DEF u
<1>2. u.inGame = s.inGame /\ u.place = s.place /\ u.resolved = s.resolved
  BY <1>1 DEF Elsewhere
<1>3. /\ ActivePlayers(u) = ActivePlayers(s) /\ Taking(u) = Taking(s)
      /\ Taking(s) \subseteq Players /\ p \in Players
  BY <1>1, <1>2, SameTable, AtTable
<1>4. \A q \in Players : u.active[q] = s.active[q]
  BY <1>1
<1>5. \A q \in Players : u.ready[q] # "no" =>
        u.inGame /\ u.ready[q] = s.ready[q] /\ q \in ActivePlayers(u)
  BY <1>1, <1>2, <1>3 DEF Together, ReadyBetweenBlinds
<1>6. Together(u)
  BY <1>1, <1>2, <1>3, <1>4, <1>5, FewerTogether
<1>7. TwoTeams(u)
  BY <1>1, <1>2, SameLivesTwoTeams
<1>8. NotOverdue(u)
  BY <1>3, <1>4 DEF NotOverdue
<1> QED BY <1>1, <1>6, <1>7, <1>8 DEF Sound, u

LEMMA PlayHandSound ==
  ASSUME TeamInv, NEW p \in Players, NEW score \in 0 .. lobby.maxScore, NEW hands \in 0 .. Hands,
         NEW told \in BOOLEAN, PlayHand(p, score, hands, told)
  PROVE  Handled /\ Spares(g, g')
<1> DEFINE s == [g EXCEPT !.score[p] = score, !.hands[p] = hands]
           t == TeamOf[p]
<1>1. /\ g.inGame /\ p \in ActivePlayers(g) /\ t \in Teams /\ p \in Members(g, t)
      /\ g.resolved[t] # "no" => g.active[p] = "none"
  BY InPlayFacts DEF PlayHand
<1>2. /\ s \in LobbyMemory /\ s.inGame = g.inGame /\ s.place = g.place /\ s.inMatch = g.inMatch
      /\ s.ready = g.ready /\ s.active = g.active /\ s.teamLives = g.teamLives
      /\ s.blocker = g.blocker /\ s.resolved = g.resolved
  BY SoundNow DEF LobbyMemory
<1>3. g' = IF s.resolved[t] # "no" THEN ClearBlind(s, {p})
           ELSE IF s.active[p] = "team" THEN TeamHand(s, t, told) ELSE Reconcile(s, FALSE)
  BY DEF PlayHand, Step
<1> HIDE DEF s
<1>4. /\ Together(s) /\ TwoTeams(s)
      /\ ActivePlayers(s) = ActivePlayers(g) /\ Members(s, t) = Members(g, t)
      /\ Guarded(s, g') => Guarded(g, g')
      /\ Spares(s, g') => Spares(g, g')
  BY <1>2, ReportedTogether
<1>5. g' \in LobbyMemory /\ Sound(g') /\ Guarded(s, g') /\ Spares(s, g')
  <2>1. CASE s.resolved[t] # "no"
    <3>1. g' = ClearBlind(s, {p}) /\ s.active[p] = "none"
      BY <1>1, <1>2, <1>3, <2>1
    <3>2. /\ g' \in LobbyMemory /\ Sound(g')
          /\ g'.teamLives = s.teamLives /\ g'.blocker = s.blocker
      BY <1>1, <1>2, <1>4, <3>1, LateReportSound
    <3> QED BY <3>2 DEF Guarded, Spares
  <2>2. CASE s.resolved[t] = "no" /\ s.active[p] = "team"
    <3>1. g' = TeamHand(s, t, told)
      BY <1>3, <2>2
    <3> QED BY <1>1, <1>2, <1>4, <2>2, <3>1, SoundNow, TeamHandSound
  <2>3. CASE s.resolved[t] = "no" /\ s.active[p] # "team"
    <3>1. g' = Reconcile(s, FALSE)
      BY <1>3, <2>3
    <3> QED BY <1>2, <1>4, <3>1, SoundNow, ReconcileSound
  <2> QED BY <2>1, <2>2, <2>3
<1> QED BY <1>4, <1>5, GuardedFair DEF Handled

LEMMA FailRoundSound ==
  ASSUME TeamInv, NEW p \in Players, FailRound(p)
  PROVE  Handled /\ Spares(g, g')
<1> DEFINE s == [g EXCEPT !.hands[p] = 0]
           t == TeamOf[p]
<1>1. /\ g.inGame /\ p \in ActivePlayers(g) /\ t \in Teams /\ p \in Members(g, t)
      /\ g.resolved[t] # "no" => g.active[p] = "none"
      /\ \A q \in ActivePlayers(g) : g.active[q] # "pvp"
  BY InPlayFacts DEF FailRound
<1>2. g \in LobbyMemory /\ Sound(g) /\ Together(g) /\ TwoTeams(g) /\ lobby \in Setups
  BY SoundNow DEF Sound
<1>3. 0 \in 0 .. Hands
  BY <1>2, BoundFacts
<1>4. /\ s \in LobbyMemory /\ s.inGame = g.inGame /\ s.place = g.place /\ s.inMatch = g.inMatch
      /\ s.ready = g.ready /\ s.active = g.active /\ s.teamLives = g.teamLives
      /\ s.blocker = g.blocker /\ s.resolved = g.resolved
  BY <1>2, <1>3 DEF LobbyMemory
<1>5. g' = IF g.resolved[t] # "no" THEN ClearBlind(g, {p})
           ELSE IF g.active[p] = "team" THEN TeamHand(s, t, FALSE)
           ELSE IF ~Coop /\ lobby.deathOnRoundLoss THEN ChargeTeam(g, t) ELSE g
  BY DEF FailRound, Step
<1> HIDE DEF s
<1>6. g' \in LobbyMemory /\ Sound(g') /\ Guarded(g, g') /\ Spares(g, g')
  <2>1. CASE g.resolved[t] # "no"
    <3>1. g' = ClearBlind(g, {p})
      BY <1>5, <2>1
    <3>2. /\ g' \in LobbyMemory /\ Sound(g')
          /\ g'.teamLives = g.teamLives /\ g'.blocker = g.blocker
      BY <1>1, <1>2, <2>1, <3>1, LateReportSound
    <3> QED BY <3>2 DEF Guarded, Spares
  <2>2. CASE g.resolved[t] = "no" /\ g.active[p] = "team"
    <3>1. g' = TeamHand(s, t, FALSE)
      BY <1>5, <2>2
    <3>2. /\ Together(s) /\ TwoTeams(s) /\ Members(s, t) = Members(g, t)
          /\ Guarded(s, g') => Guarded(g, g')
          /\ Spares(s, g') => Spares(g, g')
      BY <1>4, ReportedTogether
    <3>3. g' \in LobbyMemory /\ Sound(g') /\ Guarded(s, g') /\ Spares(s, g')
      BY <1>1, <1>2, <1>4, <2>2, <3>1, <3>2, TeamHandSound
    <3> QED BY <3>2, <3>3
  <2>3. CASE g.resolved[t] = "no" /\ g.active[p] # "team" /\ ~Coop /\ lobby.deathOnRoundLoss
    <3>1. g' = ChargeTeam(g, t)
      BY <1>5, <2>3
    <3>2. /\ g' \in LobbyMemory /\ Sound(g') /\ Guarded(g, g')
          /\ \A v \in Teams \ {t} : g'.teamLives[v] = g.teamLives[v]
      BY <1>1, <1>2, <3>1, ChargeTeamSound
    <3> QED BY <2>3, <3>2 DEF Spares
  <2>4. CASE g' = g
    BY <1>2, <2>4 DEF Guarded, Spares
  <2> QED BY <1>5, <2>1, <2>2, <2>3, <2>4
<1> QED BY <1>6, GuardedFair DEF Handled

\* A timeout that a player reports charges its own team.
LEMMA ReportTimeoutSound ==
  ASSUME TeamInv, NEW p \in Players, ReportTimeout(p)
  PROVE  Handled /\ \A t \in Teams \ {TeamOf[p]} : g'.teamLives[t] = g.teamLives[t]
<1> DEFINE t == TeamOf[p]
<1>1. /\ g.inGame /\ p \in ActivePlayers(g) /\ t \in Teams
      /\ \A q \in ActivePlayers(g) : g.active[q] # "pvp"
  BY InPlayFacts DEF ReportTimeout
<1>2. g \in LobbyMemory /\ Together(g) /\ TwoTeams(g) /\ lobby \in Setups
  BY SoundNow DEF Sound
<1>3. g' = ChargeTeam(g, t)
  BY DEF ReportTimeout, Step
<1>4. /\ g' \in LobbyMemory /\ Sound(g') /\ Guarded(g, g')
      /\ \A v \in Teams \ {t} : g'.teamLives[v] = g.teamLives[v]
  BY <1>1, <1>2, <1>3, ChargeTeamSound
<1> QED BY <1>4, GuardedFair DEF Handled

LEMMA NewRoundSound ==
  ASSUME TeamInv, NEW p \in Players, NewRound(p)
  PROVE  /\ g' \in LobbyMemory /\ Sound(g')
         /\ Lifted(g, g', p) /\ Spares(g, g') /\ (Fresh(g) => Fresh(g'))
<1>1. g \in LobbyMemory /\ Sound(g) /\ lobby \in Setups
  BY SoundNow
<1>2. g' = [g EXCEPT !.blocker[TeamOf[p]] = FALSE]
  BY DEF NewRound, Step
<1>3. TeamOf[p] \in Teams
  BY <1>1, LobbyFacts
<1>4. /\ g' \in LobbyMemory /\ Elsewhere(g, g')
      /\ g'.inMatch = g.inMatch /\ g'.active = g.active /\ g'.ready = g.ready
      /\ g'.teamLives = g.teamLives
      /\ \A t \in Teams \ {TeamOf[p]} : g'.blocker[t] = g.blocker[t]
  BY <1>1, <1>2, <1>3 DEF LobbyMemory, Elsewhere
<1>5. ReadyBetweenBlinds(g')
  <2>1. ReadyBetweenBlinds(g)
    BY <1>1 DEF Sound, Together
  <2> QED BY <1>1, <1>4, <2>1, SameTable DEF ReadyBetweenBlinds, Elsewhere
<1>6. Sound(g')
  BY <1>1, <1>4, <1>5, SameMatchSound
<1> QED BY <1>4, <1>6 DEF Lifted, Spares, Fresh, Elsewhere

LEMMA ExpireAnteTimerSound ==
  ASSUME TeamInv, ExpireAnteTimer
  PROVE  Handled
<1> DEFINE late == {TeamOf[p] : p \in {q \in ActivePlayers(g) : g.ready[q] # "pvp"}}
<1>1. g \in LobbyMemory /\ Together(g) /\ TwoTeams(g) /\ lobby \in Setups
  BY SoundNow DEF Sound
<1>2. late \in SUBSET Teams
  BY <1>1, LobbyFacts, AtTable
<1>3. g.inGame /\ (\A p \in ActivePlayers(g) : g.active[p] # "pvp") /\ g' \in ChargeTeams(g, late)
  BY DEF ExpireAnteTimer, Step
<1> HIDE DEF late
<1>4. g' \in LobbyMemory /\ Sound(g') /\ Guarded(g, g')
  BY <1>1, <1>2, <1>3, ChargeTeamsSound
<1> QED BY <1>4, GuardedFair DEF Handled

LEMMA ReturnToLobbySound ==
  ASSUME TeamInv, NEW p \in Players, ReturnToLobby(p)
  PROVE  Handled /\ Spares(g, g') /\ ~Fresh(g)
<1> DEFINE c == ClearParticipation(g, {p})
           back == [c EXCEPT !.score[p] = 0, !.hands[p] = 0, !.lives[p] = 0]
<1>1. g \in LobbyMemory /\ Together(g) /\ lobby \in Setups
  BY SoundNow DEF Sound
<1>2. /\ c \in LobbyMemory /\ Elsewhere(g, c)
      /\ c.teamLives = g.teamLives /\ c.blocker = g.blocker
      /\ \A q \in Players :
           /\ c.ready[q] = IF q \in {p} THEN "no" ELSE g.ready[q]
           /\ c.active[q] = IF q \in {p} THEN "none" ELSE g.active[q]
           /\ c.inMatch[q] <=> g.inMatch[q] /\ q \notin {p}
  BY <1>1, ClearParticipationFields
<1>3. g' = Reconcile(back, TRUE)
  BY DEF ReturnToLobby, Step
<1> HIDE DEF c
<1>4. /\ back \in LobbyMemory /\ back.inGame = c.inGame /\ back.resolved = c.resolved
      /\ back.teamLives = c.teamLives /\ back.blocker = c.blocker /\ back.ready = c.ready
      /\ back.active = c.active /\ back.inMatch = c.inMatch /\ back.place = c.place
  <2>1. 0 \in 0 .. lobby.maxScore /\ 0 \in 0 .. Hands /\ 0 \in 0 .. lobby.lives
    BY <1>1, BoundFacts
  <2>2. /\ [c.score EXCEPT ![p] = 0] \in [Players -> 0 .. lobby.maxScore]
        /\ [c.hands EXCEPT ![p] = 0] \in [Players -> 0 .. Hands]
        /\ [c.lives EXCEPT ![p] = 0] \in [Players -> 0 .. lobby.lives]
    BY <1>2, <2>1 DEF LobbyMemory
  <2> QED BY <1>2, <2>2 DEF LobbyMemory
<1> HIDE DEF back
<1>5. /\ back.inGame = g.inGame /\ back.resolved = g.resolved /\ back.place = g.place
      /\ back.teamLives = g.teamLives /\ back.blocker = g.blocker
  BY <1>2, <1>4 DEF Elsewhere
<1>6. /\ ActivePlayers(back) = ActivePlayers(g) \ {p} /\ Taking(back) = Taking(g) \ {p}
      /\ Taking(g) \subseteq Players
  BY <1>2, <1>4, <1>5 DEF ActivePlayers, SeatedPlayers, Taking
<1>7. Together(back)
  <2>1. \A q \in Taking(back) : back.active[q] = g.active[q]
    BY <1>2, <1>4, <1>6
  <2>2. \A q \in Players : back.ready[q] # "no" =>
          back.inGame /\ back.ready[q] = g.ready[q] /\ q \in ActivePlayers(back)
    BY <1>1, <1>2, <1>4, <1>5, <1>6 DEF Together, ReadyBetweenBlinds
  <2> QED BY <1>1, <1>4, <1>5, <1>6, <2>1, <2>2, FewerTogether
<1>8. g' \in LobbyMemory /\ Sound(g') /\ Guarded(back, g') /\ Spares(back, g')
  BY <1>1, <1>3, <1>4, <1>7, ReconcileSound
<1>9. Guarded(g, g') /\ Spares(g, g')
  BY <1>5, <1>8 DEF Guarded, Spares
<1>10. ~Fresh(g)
  BY DEF ReturnToLobby, ActivePlayers, SeatedPlayers, Fresh
<1> QED BY <1>8, <1>9, <1>10, GuardedFair DEF Handled

LEMMA LeaveLobbySound ==
  ASSUME TeamInv, NEW p \in Players, LeaveLobby(p)
  PROVE  Handled /\ Spares(g, g') /\ (Fresh(g) => Fresh(g'))
<1>1. g' = Depart(g, p)
  BY DEF LeaveLobby, Step
<1>2. /\ g' \in LobbyMemory /\ Sound(g') /\ Guarded(g, g') /\ Spares(g, g')
      /\ Fresh(g) => Fresh(g')
  BY <1>1, SoundNow, DepartSound
<1> QED BY <1>2, GuardedFair DEF Handled

\* The others wait for a participant that has lost its connection.
LEMMA DisconnectSound ==
  ASSUME TeamInv, NEW p \in Players, Disconnect(p)
  PROVE  Handled /\ Spares(g, g') /\ (Fresh(g) => Fresh(g'))
<1>1. g \in LobbyMemory /\ Sound(g) /\ lobby \in Setups /\ g.place[p] = "seated"
  BY SoundNow DEF Disconnect, SeatedPlayers
<1>2. CASE g' = Depart(g, p)
  <2>1. /\ g' \in LobbyMemory /\ Sound(g') /\ Guarded(g, g') /\ Spares(g, g')
        /\ Fresh(g) => Fresh(g')
    BY <1>1, <1>2, DepartSound
  <2> QED BY <2>1, GuardedFair DEF Handled
<1> DEFINE r == ClearReady(g, {p})
           u == [r EXCEPT !.place[p] = "away"]
<1>3. CASE g' = u /\ g.inGame
  <2>1. /\ r \in LobbyMemory /\ Elsewhere(g, r)
        /\ r.inMatch = g.inMatch /\ r.active = g.active
        /\ r.teamLives = g.teamLives /\ r.blocker = g.blocker
        /\ \A q \in Players : r.ready[q] = IF q \in {p} THEN "no" ELSE g.ready[q]
    BY <1>1, ClearReadyFields
  <2> HIDE DEF r
  <2>2. /\ u \in LobbyMemory /\ u.inGame = r.inGame /\ u.resolved = r.resolved
        /\ u.teamLives = r.teamLives /\ u.blocker = r.blocker /\ u.ready = r.ready
        /\ u.active = r.active /\ u.inMatch = r.inMatch /\ u.score = r.score /\ u.hands = r.hands
        /\ u.place = [r.place EXCEPT ![p] = "away"]
    BY <2>1 DEF LobbyMemory
  <2> HIDE DEF u
  <2>3. /\ u.inGame = g.inGame /\ u.resolved = g.resolved /\ u.score = g.score
        /\ u.hands = g.hands /\ u.teamLives = g.teamLives /\ u.blocker = g.blocker
        /\ u.active = g.active /\ u.inMatch = g.inMatch
    BY <2>1, <2>2 DEF Elsewhere
  <2>4. \A q \in Players : /\ u.place[q] = IF q = p THEN "away" ELSE g.place[q]
                           /\ u.ready[q] = IF q = p THEN "no" ELSE g.ready[q]
    BY <2>1, <2>2 DEF Elsewhere, LobbyMemory
  <2>5. /\ ActivePlayers(u) = ActivePlayers(g) \ {p} /\ Taking(u) = Taking(g)
        /\ SeatedPlayers(u) = SeatedPlayers(g) \ {p}
    BY <1>1, <2>3, <2>4 DEF ActivePlayers, SeatedPlayers, Taking
  <2>6. Together(u)
    <3>1. \A q \in Players : u.ready[q] # "no" =>
            u.inGame /\ u.ready[q] = g.ready[q] /\ q \in ActivePlayers(u)
      BY <1>1, <2>3, <2>4, <2>5 DEF Sound, Together, ReadyBetweenBlinds
    <3> QED BY <1>1, <2>2, <2>3, <2>5, <3>1, FewerTogether DEF Sound
  <2>7. ASSUME g.inMatch[p] PROVE Sound(u)
    <3>1. HasDisconnectedMatchBlocker(u)
      BY <2>3, <2>4, <2>7 DEF HasDisconnectedMatchBlocker
    <3> QED BY <2>6, <3>1 DEF Sound, TwoTeams, NotOverdue
  <2>8. ASSUME ~g.inMatch[p] PROVE Sound(u)
    <3>1. ActivePlayers(u) = ActivePlayers(g)
      BY <2>5, <2>8 DEF ActivePlayers
    <3>2. HasDisconnectedMatchBlocker(u) = HasDisconnectedMatchBlocker(g)
      BY <1>1, <2>3, <2>4, <2>8 DEF HasDisconnectedMatchBlocker
    <3>3. \A t : Members(u, t) = Members(g, t)
      BY <3>1 DEF Members
    <3>4. AliveTeams(u) = AliveTeams(g)
      BY <2>3, <3>3 DEF AliveTeams
    <3>5. TwoTeams(u)
      BY <1>1, <2>3, <2>5, <3>2, <3>4 DEF Sound, TwoTeams
    <3>6. ShouldResolveBlindNow(u) = ShouldResolveBlindNow(g)
      BY <2>3, <3>1, SameScores
    <3>7. NotOverdue(u)
      BY <1>1, <2>3, <3>1, <3>2, <3>6 DEF Sound, NotOverdue
    <3> QED BY <2>6, <3>5, <3>7 DEF Sound
  <2>9. Guarded(g, u) /\ Spares(g, u)
    BY <2>3 DEF Guarded, Spares
  <2>10. ~Fresh(g)
    BY <1>3 DEF Fresh
  <2> QED BY <1>3, <2>2, <2>7, <2>8, <2>9, <2>10, GuardedFair DEF Handled
<1> QED BY <1>2, <1>3 DEF Disconnect, Step

\* Who returns finds its team between blinds if the blind it left has ended.
LEMMA RejoinLobbySound ==
  ASSUME TeamInv, NEW p \in Players, RejoinLobby(p)
  PROVE  Handled /\ Spares(g, g') /\ ~Fresh(g)
<1> DEFINE t == TeamOf[p]
           missed == /\ g.inMatch[p] /\ g.active[p] = "team" /\ g.resolved[t] # "no"
                     /\ Coop => g.inGame
           r == ClearReady(g, {p})
           c == ClearBlind(r, {p})
           caughtUp == [c EXCEPT !.lives[p] = IF Coop THEN @ ELSE g.teamLives[t]]
           b == IF missed THEN caughtUp ELSE g
           s == [b EXCEPT !.place[p] = "seated"]
<1>1. g \in LobbyMemory /\ Together(g) /\ lobby \in Setups /\ g.place[p] = "away"
  BY SoundNow DEF RejoinLobby, Sound
<1>2. g' = Reconcile(s, FALSE)
  BY DEF RejoinLobby, Step
<1>3. t \in Teams
  BY <1>1, LobbyFacts
<1>4. g.ready[p] = "no"
  BY <1>1 DEF Together, ReadyBetweenBlinds, ActivePlayers, SeatedPlayers
<1>5. /\ r \in LobbyMemory /\ Elsewhere(g, r)
      /\ r.inMatch = g.inMatch /\ r.active = g.active
      /\ r.teamLives = g.teamLives /\ r.blocker = g.blocker
      /\ \A q \in Players : r.ready[q] = IF q \in {p} THEN "no" ELSE g.ready[q]
  BY <1>1, ClearReadyFields
<1> HIDE DEF r
<1>6. /\ c \in LobbyMemory /\ Elsewhere(r, c)
      /\ c.inMatch = r.inMatch /\ c.ready = r.ready
      /\ c.teamLives = r.teamLives /\ c.blocker = r.blocker
      /\ \A q \in Players : c.active[q] = IF q \in {p} THEN "none" ELSE r.active[q]
  BY <1>5, ClearBlindFields
<1> HIDE DEF c, missed, t
<1>7. /\ caughtUp \in LobbyMemory /\ Elsewhere(c, caughtUp)
      /\ caughtUp.inMatch = c.inMatch /\ caughtUp.ready = c.ready /\ caughtUp.active = c.active
      /\ caughtUp.teamLives = c.teamLives /\ caughtUp.blocker = c.blocker
  BY <1>1, <1>3, <1>6 DEF LobbyMemory, Elsewhere
<1> HIDE DEF caughtUp
<1>8. /\ b \in LobbyMemory /\ b.inGame = g.inGame /\ b.place = g.place
      /\ b.resolved = g.resolved /\ b.inMatch = g.inMatch
      /\ b.teamLives = g.teamLives /\ b.blocker = g.blocker
      /\ \A q \in Players :
           /\ b.ready[q] = g.ready[q]
           /\ b.active[q] = IF q = p /\ missed THEN "none" ELSE g.active[q]
  <2>1. CASE missed
    BY <1>4, <1>5, <1>6, <1>7, <2>1 DEF Elsewhere
  <2>2. CASE ~missed
    BY <1>1, <2>2
  <2> QED BY <2>1, <2>2
<1> HIDE DEF b
<1>9. /\ s \in LobbyMemory /\ s.inGame = b.inGame /\ s.resolved = b.resolved
      /\ s.inMatch = b.inMatch /\ s.teamLives = b.teamLives /\ s.blocker = b.blocker
      /\ s.ready = b.ready /\ s.active = b.active
      /\ s.place = [b.place EXCEPT ![p] = "seated"]
  BY <1>8 DEF LobbyMemory
<1> HIDE DEF s
<1>10. /\ s.inGame = g.inGame /\ s.resolved = g.resolved /\ s.inMatch = g.inMatch
       /\ s.teamLives = g.teamLives /\ s.blocker = g.blocker
       /\ \A q \in Players :
            /\ s.place[q] = IF q = p THEN "seated" ELSE g.place[q]
            /\ s.ready[q] = g.ready[q]
            /\ s.active[q] = IF q = p /\ missed THEN "none" ELSE g.active[q]
  BY <1>8, <1>9 DEF LobbyMemory
<1>11. /\ Taking(s) = Taking(g) /\ Taking(s) \subseteq Players
       /\ ActivePlayers(s) \subseteq ActivePlayers(g) \cup {p}
       /\ ActivePlayers(g) \subseteq ActivePlayers(s)
       /\ ActivePlayers(s) \subseteq Taking(s)
  BY <1>1, <1>9, <1>10, AtTable DEF Taking, ActivePlayers, SeatedPlayers
<1>12. p \in Taking(g) /\ g.inGame => (missed <=> Stale(g, p))
  BY DEF missed, Stale, Taking, t
<1>13. s.inGame => \A q \in Taking(s) : BlindOf(s, q) = BlindOf(g, q)
  <2> SUFFICES ASSUME s.inGame, NEW q \in Taking(s) PROVE BlindOf(s, q) = BlindOf(g, q)
    OBVIOUS
  <2>1. CASE q = p
    BY <1>10, <1>11, <1>12, <2>1 DEF BlindOf, Stale
  <2>2. CASE q # p
    BY <1>10, <1>11, <2>2 DEF BlindOf, Stale
  <2> QED BY <2>1, <2>2
<1>14. ReadyBetweenBlinds(s)
  BY <1>1, <1>4, <1>10, <1>11 DEF Together, ReadyBetweenBlinds
<1>15. NotStale(s)
  <2> SUFFICES ASSUME s.inGame, NEW q \in ActivePlayers(s) PROVE ~Stale(s, q)
    BY DEF NotStale
  <2>1. CASE q = p
    BY <1>10, <1>11, <1>12, <2>1 DEF Stale
  <2>2. CASE q # p
    BY <1>1, <1>10, <1>11, <2>2 DEF Together, NotStale, Stale
  <2> QED BY <2>1, <2>2
<1>16. TeamsTogether(s)
  BY <1>1, <1>10, <1>11, <1>13 DEF Together, TeamsTogether
<1>17. AllInPvp(s)
  <2> SUFFICES ASSUME s.inGame, NEW q \in Taking(s), s.active[q] = "pvp"
               PROVE  /\ ~Coop /\ s.resolved[TeamOf[q]] = "no"
                      /\ \A x \in Taking(s) : s.active[x] = "pvp"
    BY DEF AllInPvp
  <2>1. g.active[q] = "pvp"
    BY <1>10, <1>11
  <2>2. /\ ~Coop /\ g.resolved[TeamOf[q]] = "no"
        /\ \A x \in Taking(g) : g.active[x] = "pvp"
    BY <1>1, <1>10, <1>11, <2>1 DEF Together, AllInPvp
  <2>3. p \in Taking(g) => ~missed
    BY <2>2 DEF missed
  <2> QED BY <1>10, <1>11, <2>2, <2>3
<1>18. g' \in LobbyMemory /\ Sound(g') /\ Guarded(s, g') /\ Spares(s, g')
  BY <1>1, <1>2, <1>9, <1>14, <1>15, <1>16, <1>17, ReconcileSound DEF Together
<1>19. Guarded(g, g') /\ Spares(g, g')
  BY <1>10, <1>18 DEF Guarded, Spares
<1>20. ~Fresh(g)
  BY <1>1 DEF Fresh
<1> QED BY <1>18, <1>19, <1>20, GuardedFair DEF Handled

\* The slot of p is given up, and a blind may start without it.
LEMMA SlotEndSound ==
  ASSUME TeamInv, NEW p \in Players, g.place[p] = "away", NEW s \in PendingStarts(Depart(g, p))
  PROVE  s \in LobbyMemory /\ Sound(s) /\ Fair(g, s) /\ Spares(g, s) /\ ~Fresh(g)
<1> DEFINE left == Depart(g, p)
<1>1. /\ left \in LobbyMemory /\ Sound(left)
      /\ Guarded(g, left) /\ Spares(g, left) /\ Quiet(g, left)
  BY SoundNow, DepartSound
<1> HIDE DEF left
<1>2. s \in LobbyMemory /\ Sound(s) /\ (s = left \/ Opens(left, s))
  BY <1>1, SoundNow, PendingStartsSound DEF left
<1>3. \A q \in Players : left.ready[q] # "no" => g.active[q] = "none"
  BY <1>1, SoundNow DEF Quiet, Sound, Together, ReadyBetweenBlinds
<1>4. Fair(g, s)
  BY <1>1, <1>2, <1>3, OpensFair, GuardedFair
<1>5. Spares(g, s)
  BY <1>1, <1>2 DEF Spares, Opens
<1>6. ~Fresh(g)
  BY DEF Fresh
<1> QED BY <1>2, <1>4, <1>5, <1>6

LEMMA ExpireSlotSound ==
  ASSUME TeamInv, NEW p \in Players, ExpireSlot(p)
  PROVE  Handled /\ Spares(g, g') /\ ~Fresh(g)
<1>1. PICK s \in PendingStarts(Depart(g, p)) : g' = ResolveSkip(s, Teams)
  BY DEF ExpireSlot, Step
<1>2. s \in LobbyMemory /\ Sound(s) /\ Fair(g, s) /\ Spares(g, s) /\ ~Fresh(g)
  BY <1>1, SlotEndSound DEF ExpireSlot
<1>3. /\ g' \in LobbyMemory /\ Sound(g')
      /\ g'.teamLives = s.teamLives /\ g'.blocker = s.blocker /\ g'.active = s.active
  BY <1>1, <1>2, ResolveSkipSound
<1> QED BY <1>2, <1>3 DEF Handled, Fair, Spares

LEMMA KickSlotSound ==
  ASSUME TeamInv, NEW p \in Players, KickSlot(p)
  PROVE  Handled /\ Spares(g, g') /\ ~Fresh(g)
<1>1. PICK s \in PendingStarts(Depart(g, p)) : g' = s
  BY DEF KickSlot, Step
<1> QED BY <1>1, SlotEndSound DEF KickSlot, Handled

------------------------------------------------------------------------------
(* The theorems *)

LEMMA InitSound == ASSUME Init PROVE TeamInv
<1>1. 0 \in 0 .. lobby.maxScore /\ 0 \in 0 .. lobby.lives /\ Hands \in 0 .. Hands
  BY BoundFacts DEF Init
<1>2. g \in LobbyMemory /\ lobby \in Setups /\ played = FALSE
  BY <1>1 DEF Init, LobbyMemory, Everyone, EveryTeam
<1>3. /\ ~g.inGame
      /\ \A p \in Players : /\ g.place[p] = "seated" /\ ~g.inMatch[p]
                            /\ g.active[p] = "none" /\ g.ready[p] = "no"
      /\ \A t \in Teams : g.resolved[t] = "no"
  BY DEF Init, Everyone, EveryTeam
<1>4. Fresh(g)
  BY <1>3 DEF Fresh
<1>5. Sound(g)
  BY <1>3 DEF Sound, Together, ReadyBetweenBlinds, NotStale, TeamsTogether, AllInPvp, TwoTeams,
              NotOverdue
<1> QED BY <1>2, <1>4, <1>5 DEF TeamInv, TypeOK

\* Whatever happens in a match or before it, a step costs a life only where it should.
LEMMA StepSound ==
  ASSUME TeamInv, [Next]_vars
  PROVE  /\ g' \in LobbyMemory /\ Sound(g') /\ lobby' = lobby /\ played' \in BOOLEAN
         /\ ~played' => Fresh(g')
         /\ g.inGame => Fair(g, g') \/ \E p \in Players : NewRound(p) /\ Lifted(g, g', p)
         /\ Spares(g, g') \/ ExpireAnteTimer
              \/ \E p \in Players : /\ ReportTimeout(p)
                                    /\ \A t \in Teams \ {TeamOf[p]} : g'.teamLives[t] = g.teamLives[t]
<1>1. CASE StartGame
  <2>1. \A t \in Teams : g.resolved[t] # "won"
    BY <1>1 DEF StartGame, TeamInv, Fresh
  <2>2. lobby' = lobby /\ played' = TRUE /\ ~g.inGame
    BY <1>1 DEF StartGame
  <2> QED BY <1>1, <2>1, <2>2, StartGameSound DEF Spares
<1>2. CASE UNCHANGED vars
  BY <1>2 DEF vars, TeamInv, TypeOK, Fair, Spares
<1>3. ASSUME NEW p \in Players, InPlay(p), lobby' = lobby, played' = played, Handled, Spares(g, g')
      PROVE  /\ g' \in LobbyMemory /\ Sound(g') /\ lobby' = lobby /\ played' \in BOOLEAN
             /\ ~played' => Fresh(g')
             /\ Fair(g, g') /\ Spares(g, g')
  BY <1>3 DEF InPlay, TeamInv, TypeOK, Fresh, Handled
<1>4. ASSUME NEW p \in Players, NEW told \in BOOLEAN, ReadyForTeamBlind(p, told)
      PROVE  g' \in LobbyMemory /\ Sound(g') /\ lobby' = lobby /\ played' \in BOOLEAN
             /\ (~played' => Fresh(g')) /\ Fair(g, g') /\ Spares(g, g')
  BY <1>3, <1>4, ReadyForTeamBlindSound DEF ReadyForTeamBlind, Step
<1>5. ASSUME NEW p \in Players, NEW score \in 0 .. lobby.maxScore, NEW hands \in 0 .. Hands,
             NEW told \in BOOLEAN, PlayHand(p, score, hands, told)
      PROVE  g' \in LobbyMemory /\ Sound(g') /\ lobby' = lobby /\ played' \in BOOLEAN
             /\ (~played' => Fresh(g')) /\ Fair(g, g') /\ Spares(g, g')
  <2>1. InPlay(p) /\ lobby' = lobby /\ played' = played
    BY <1>5 DEF PlayHand, Step
  <2> QED BY <1>3, <1>5, <2>1, PlayHandSound
<1>6. ASSUME NEW p \in Players,
             \/ ReadyForPvpBlind(p) \/ ReadySkipBlind(p) \/ UnreadyBlind(p) \/ FailRound(p)
      PROVE  g' \in LobbyMemory /\ Sound(g') /\ lobby' = lobby /\ played' \in BOOLEAN
             /\ (~played' => Fresh(g')) /\ Fair(g, g') /\ Spares(g, g')
  <2>1. InPlay(p) /\ lobby' = lobby /\ played' = played
    BY <1>6 DEF ReadyForPvpBlind, ReadySkipBlind, UnreadyBlind, FailRound, Step
  <2>2. Handled /\ Spares(g, g')
    BY <1>6, ReadyForPvpBlindSound, ReadySkipBlindSound, UnreadyBlindSound, FailRoundSound
  <2> QED BY <1>3, <2>1, <2>2
<1>7. ASSUME NEW p \in Players, ReportTimeout(p)
      PROVE  /\ g' \in LobbyMemory /\ Sound(g') /\ lobby' = lobby /\ played' \in BOOLEAN
             /\ ~played' => Fresh(g')
             /\ Fair(g, g')
             /\ \A t \in Teams \ {TeamOf[p]} : g'.teamLives[t] = g.teamLives[t]
  <2>1. g.inGame /\ lobby' = lobby /\ played' = played
    BY <1>7 DEF ReportTimeout, InPlay, Step
  <2> QED BY <1>7, <2>1, ReportTimeoutSound DEF TeamInv, TypeOK, Fresh, Handled
<1>8. ASSUME NEW p \in Players,
             \/ ReturnToLobby(p) \/ LeaveLobby(p) \/ Disconnect(p) \/ RejoinLobby(p)
             \/ ExpireSlot(p) \/ KickSlot(p)
      PROVE  g' \in LobbyMemory /\ Sound(g') /\ lobby' = lobby /\ played' \in BOOLEAN
             /\ (~played' => Fresh(g')) /\ Fair(g, g') /\ Spares(g, g')
  <2>1. lobby' = lobby /\ played' = played
    BY <1>8 DEF ReturnToLobby, LeaveLobby, Disconnect, RejoinLobby, ExpireSlot, KickSlot, Step
  <2>2. Handled /\ Spares(g, g') /\ (Fresh(g) => Fresh(g'))
    BY <1>8, ReturnToLobbySound, LeaveLobbySound, DisconnectSound, RejoinLobbySound,
       ExpireSlotSound, KickSlotSound
  <2> QED BY <2>1, <2>2 DEF TeamInv, TypeOK, Handled
<1>9. CASE ExpireAnteTimer
  <2>1. g.inGame /\ lobby' = lobby /\ played' = played
    BY <1>9 DEF ExpireAnteTimer, Step
  <2> QED BY <1>9, <2>1, ExpireAnteTimerSound DEF TeamInv, TypeOK, Fresh, Handled
<1>10. ASSUME NEW p \in Players, NewRound(p)
       PROVE  /\ g' \in LobbyMemory /\ Sound(g') /\ lobby' = lobby /\ played' \in BOOLEAN
              /\ (~played' => Fresh(g')) /\ Lifted(g, g', p) /\ Spares(g, g')
  <2>1. lobby' = lobby /\ played' = played
    BY <1>10 DEF NewRound, Step
  <2> QED BY <1>10, <2>1, NewRoundSound DEF TeamInv, TypeOK
<1> QED BY <1>1, <1>2, <1>4, <1>5, <1>6, <1>7, <1>8, <1>9, <1>10 DEF Next

\* The match survives the lobby's type and teams, which do not change during it.
LEMMA TeamInvStep == TeamInv /\ [Next]_vars => TeamInv'
<1> SUFFICES ASSUME TeamInv, [Next]_vars PROVE TeamInv'
  OBVIOUS
<1>1. /\ g' \in LobbyMemory /\ Sound(g') /\ lobby' = lobby /\ played' \in BOOLEAN
      /\ ~played' => Fresh(g')
  BY StepSound
<1>2. TypeOK'
  BY <1>1 DEF TeamInv, TypeOK, LobbyMemory
<1>3. Sound(g)'
  BY <1>1 DEF Sound, Together, ReadyBetweenBlinds, NotStale, TeamsTogether, AllInPvp, TwoTeams,
    NotOverdue, BlindOf, Stale, Taking, ActivePlayers, SeatedPlayers, HasDisconnectedMatchBlocker,
    AliveTeams, Members, TeamOf, Coop, AtMostOne, ShouldResolveBlindNow, PlayingTeams, Finished,
    Scores
<1>4. (~played => Fresh(g))'
  BY <1>1 DEF Fresh
<1> QED BY <1>2, <1>3, <1>4 DEF TeamInv

\* The invariant of the lobby's memory that the theorems below rest on.
THEOREM TeamInvCorrect == Spec => []TeamInv
<1>1. Init => TeamInv
  BY InitSound
<1> QED BY <1>1, TeamInvStep, PTL DEF Spec

\* The members at the table of a team are always in the same blind: whoever
\* finishes a blind, fails it, returns to it or leaves it moves its team along
\* (resolveTeamBlind, the rejoin of a resolved team, clearPlayerMatchParticipation).
THEOREM TeamInOneBlindCorrect == Spec => []TeamInOneBlind
<1>1. TeamInv => TeamInOneBlind
  <2> SUFFICES ASSUME TeamInv, g.inGame, NEW p \in ActivePlayers(g), NEW q \in ActivePlayers(g),
                      TeamOf[p] = TeamOf[q]
               PROVE  g.active[p] = g.active[q]
    BY DEF TeamInOneBlind
  <2>1. g \in LobbyMemory /\ Together(g)
    BY SoundNow DEF Sound
  <2>2. ~Stale(g, p) /\ ~Stale(g, q)
    BY <2>1 DEF Together, NotStale
  <2>3. BlindOf(g, p) = BlindOf(g, q)
    BY <2>1, AtTable DEF Together, TeamsTogether
  <2> QED BY <2>2, <2>3 DEF BlindOf
<1> QED BY <1>1, TeamInvCorrect, PTL

\* All participants, those with a reserved slot included, are in a PvP blind or
\* none is: it starts when nobody is missing and is resolved for everybody.
THEOREM PvpTogetherCorrect == Spec => []PvpTogether
<1>1. TeamInv => PvpTogether
  <2> SUFFICES ASSUME TeamInv, g.inGame, NEW p \in Participants, NEW q \in Participants,
                      g.active[p] = "pvp"
               PROVE  g.active[q] = "pvp"
    BY DEF PvpTogether
  <2> QED BY SoundNow DEF Sound, Together, AllInPvp, Taking, Participants
<1> QED BY <1>1, TeamInvCorrect, PTL

\* A game of teams that waits for nobody has two teams with lives: whatever
\* takes a life, a player or a reserved slot away ends the match where it must.
THEOREM MatchNeedsTwoTeamsCorrect == Spec => []MatchNeedsTwoTeams
<1>1. TeamInv => MatchNeedsTwoTeams
  BY DEF TeamInv, Sound, TwoTeams, MatchNeedsTwoTeams
<1> QED BY <1>1, TeamInvCorrect, PTL

\* No PvP blind stays open that its scores and hands decide, whether the last
\* hand, a departure or a return made it so (reconcileActiveMatchState).
THEOREM NoOverduePvpBlindCorrect == Spec => []NoOverduePvpBlind
<1>1. TeamInv => NoOverduePvpBlind
  BY DEF TeamInv, Sound, NotOverdue, NoOverduePvpBlind
<1> QED BY <1>1, TeamInvCorrect, PTL

\* A team that has lost a life loses no other to failures, late reports, timeouts
\* or the ante timer before its blocker is lifted, and only a blind that starts for
\* a member of the team, or for everybody, and a new round that one of its members
\* reports lift it (lifeBlockers, resetLobbyTeamLifeBlocker).
THEOREM TeamPaysOnceCorrect == Spec => TeamPaysOnce
<1> DEFINE Once ==
      \A t \in Teams :
        g.inGame /\ g.blocker[t] =>
          /\ g'.teamLives[t] = g.teamLives[t]
          /\ ~g'.blocker[t] => \E p \in Players :
               \/ TeamOf[p] = t /\ NewRound(p)
               \/ /\ TeamOf[p] = t \/ g'.active[p] = "pvp"
                  /\ g.active[p] = "none" /\ g'.active[p] # "none"
<1>1. TeamInv /\ [Next]_vars => [Once]_vars
  <2> SUFFICES ASSUME TeamInv, [Next]_vars, g.inGame PROVE Once
    OBVIOUS
  <2>1. CASE Fair(g, g')
    BY <2>1 DEF Fair
  <2>2. ASSUME NEW p \in Players, NewRound(p), Lifted(g, g', p) PROVE Once
    BY <2>2 DEF Lifted
  <2> QED BY <2>1, <2>2, StepSound
<1>2. Spec => [][Once]_vars
  BY <1>1, TeamInvCorrect, PTL DEF Spec
<1> QED BY <1>2 DEF TeamPaysOnce

\* Members who report late that they failed a blind their team has won cost it
\* nothing: until the next blind only timeouts can (resolvedCoopTeams).
THEOREM WonBlindCostsNothingCorrect == Spec => WonBlindCostsNothing
<1> DEFINE Free ==
      \A t \in Teams :
        g.resolved[t] = "won" /\ g'.resolved[t] = "won" /\ g'.teamLives[t] < g.teamLives[t]
          => ExpireAnteTimer \/ \E p \in Players : TeamOf[p] = t /\ ReportTimeout(p)
<1>1. TeamInv /\ [Next]_vars => [Free]_vars
  <2> SUFFICES ASSUME TeamInv, [Next]_vars, NEW t \in Teams, g.resolved[t] = "won",
                      g'.teamLives[t] < g.teamLives[t], ~ExpireAnteTimer
               PROVE  \E p \in Players : TeamOf[p] = t /\ ReportTimeout(p)
    OBVIOUS
  <2>1. g.teamLives[t] \in Nat
    BY SoundNow DEF LobbyMemory
  <2>2. g'.teamLives[t] # g.teamLives[t]
    BY <2>1
  <2>3. ~Spares(g, g')
    BY <2>2 DEF Spares
  <2> QED BY <2>2, <2>3, StepSound
<1>2. Spec => [][Free]_vars
  BY <1>1, TeamInvCorrect, PTL DEF Spec
<1> QED BY <1>2 DEF WonBlindCostsNothing
=============================================================================
