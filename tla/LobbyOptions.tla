---------------------------- MODULE LobbyOptions ----------------------------
(***************************************************************************)
(* The lobby before its match: the options and the lobby type the host     *)
(* chooses (lobbyOptionUpdates.ts, lobbyOptions.ts, lobbyTypeHandlers.ts), *)
(* teams, team locks and readiness (teamHandlers.ts,                       *)
(* lobbySessionHandlers.ts), the nemesis every player is given             *)
(* (lobbyNemesis.ts), and what each client is told of all this.            *)
(*                                                                         *)
(* Of the options only those are kept that a handler derives from another  *)
(* one or from the type.  A message that changes them is a function from   *)
(* some of the keys to values.  Messages to one client keep their order    *)
(* (module SocketSend), so a client's view changes with the broadcast.     *)
(* Places and reconnection are module LobbyMembership's: here players only *)
(* come and go, the heir of a host is any of the rest, and the model ends  *)
(* with the start of the match.                                            *)
(***************************************************************************)
EXTENDS Integers, FiniteSets

CONSTANTS Players, None,
          Messages,      \* the option messages a host may send
          MinGroup, MaxGroup, DefaultMax,   \* 3, 32 and 16 in the code
          StartLives,    \* the default starting_lives
          Teams          \* 1..MAX_TEAMS

ASSUME PlayersAssumption == None \notin Players

ASSUME LimitsAssumption ==
  /\ MinGroup \in Nat /\ MaxGroup \in Nat /\ DefaultMax \in Nat
  /\ 2 <= MinGroup /\ MinGroup <= DefaultMax /\ DefaultMax <= MaxGroup
  /\ StartLives \in Nat \ {0}
  /\ Teams \subseteq Nat /\ 1 \in Teams

Types == {"1v1", "ffa", "teams", "duels", "coop"}
Modes == {"attrition", "survival", "coop"}
OptionKeys == {"gamemode", "max_players", "pvp_custom_winners", "pvp_score_rule",
               "starting_lives", "disable_live_and_timer_hud", "timer", "team_card_sync"}

\* normalizeLobbyOptionValue drops what is not of the key's type, and the mode is kept
\* when the one sent is not valid.
IsMessage(m) ==
  /\ DOMAIN m \subseteq OptionKeys
  /\ "gamemode" \in DOMAIN m => m["gamemode"] \in Modes
  /\ "max_players" \in DOMAIN m => m["max_players"] \in Int
  /\ "pvp_custom_winners" \in DOMAIN m => m["pvp_custom_winners"] \in Int

ASSUME MessagesAssumption == \A m \in Messages : IsMessage(m)

VARIABLES
  type,     \* lobby.lobbyType
  opts,     \* lobby.options, and lobby.gameMode as the option gamemode
  players,  \* seated player -> its team, isTeamLocked, isReadyLobby, nemesisPlayerId
  owner,    \* lobby.ownerId
  inGame,   \* lobby.isInGame
  views     \* seated player -> the type, options and players its client was told

vars == <<type, opts, players, owner, inGame, views>>

Seated == DOMAIN players

------------------------------------------------------------------------------
(* What one option makes of another *)

Larger(x, y) == IF x < y THEN y ELSE x
Smaller(x, y) == IF x < y THEN x ELSE y

\* getCustomWinnerLimit, getDefaultCustomWinnerCount
WinnerLimit(max) == Larger(1, max - 1)
DefaultWinners(max) == Smaller(WinnerLimit(max), (max + 1) \div 2)

GetMinimumGroupMaxPlayers(count) == Larger(MinGroup, count)

GetLobbyMaxPlayers(t, o, count) ==
  IF t = "1v1" THEN 2
  ELSE Larger(GetMinimumGroupMaxPlayers(count), Smaller(MaxGroup, o.max_players))

GetLobbyTypeForGameMode(mode, t) ==
  CASE mode = "coop" -> "coop"
    [] mode # "coop" /\ t = "coop" -> "ffa"
    [] OTHER -> t

HeadToHead == [max_players |-> 2, pvp_custom_winners |-> 1, pvp_score_rule |-> "highest"]

GetLobbyTypeLockedOptions(t) ==
  [k \in CASE t = "1v1" -> DOMAIN HeadToHead
           [] t = "duels" -> {"pvp_score_rule"}
           [] OTHER -> {} |-> HeadToHead[k]]

SyncByDefault(t) == t \in {"teams", "coop"}

GetDefaultLobbyOptions(mode, t) ==
  [gamemode |-> mode, starting_lives |-> StartLives,
   disable_live_and_timer_hud |-> FALSE, timer |-> TRUE,
   team_card_sync |-> SyncByDefault(t), pvp_score_rule |-> "highest",
   max_players |-> IF t = "1v1" THEN 2 ELSE DefaultMax,
   pvp_custom_winners |-> IF t = "1v1" THEN 1 ELSE DefaultWinners(DefaultMax)]

\* getLobbyTypeChangeOptionUpdates: entering and leaving a 1v1 lobby sets the number
\* of players and winners, every change the default of team_card_sync.
GetLobbyTypeChangeOptionUpdates(previous, next) ==
  [k \in {"team_card_sync"}
         \cup (IF "1v1" \in {previous, next} THEN {"max_players", "pvp_custom_winners"} ELSE {})
         \cup (IF next \in {"1v1", "duels"} THEN {"pvp_score_rule"} ELSE {})
     |-> GetDefaultLobbyOptions("any", next)[k]]

------------------------------------------------------------------------------
(* applyLobbyOptions: r holds the options so far and the keys (normalizedOptions) *)
(* whose new values the lobbyOptions message will carry                           *)

Put(r, updates) ==
  [opts |-> [k \in OptionKeys |-> IF k \in DOMAIN updates THEN updates[k] ELSE r.opts[k]],
   told |-> r.told \cup DOMAIN updates]

Nothing == [k \in {} |-> None]

Received(r, msg, count) ==
  Put(r, [k \in DOMAIN msg |->
            IF k = "max_players"
            THEN Larger(GetMinimumGroupMaxPlayers(count), Smaller(MaxGroup, msg[k]))
            ELSE msg[k]])

\* fault: only the default follows, a number somebody chose stays as it is
WinnersNotClamped(r, before) ==
  LET max == r.opts.max_players IN
  IF /\ "pvp_custom_winners" \notin r.told
     /\ "max_players" \in r.told /\ max # before.max_players
     /\ before.pvp_custom_winners = DefaultWinners(before.max_players)
  THEN Put(r, [pvp_custom_winners |-> DefaultWinners(max)])
  ELSE r

\* The winners follow the players as long as nobody has chosen another number.
ApplyDerivedCustomWinnerOptions(r, before) ==
  LET max == r.opts.max_players
      winners == r.opts.pvp_custom_winners IN
  CASE "pvp_custom_winners" \in r.told ->
         Put(r, [pvp_custom_winners |-> Larger(1, Smaller(WinnerLimit(max), winners))])
    [] /\ "pvp_custom_winners" \notin r.told
       /\ "max_players" \in r.told /\ max # before.max_players
       /\ before.pvp_custom_winners = DefaultWinners(before.max_players) ->
         Put(r, [pvp_custom_winners |-> DefaultWinners(max)])
    [] OTHER ->
         IF winners > WinnerLimit(max)
         THEN Put(r, [pvp_custom_winners |-> WinnerLimit(max)])
         ELSE r

LivesAndHud(r, before) ==
  LET mode == r.opts.gamemode
      changed == mode # before.gamemode
      unsent(K) == K \ r.told IN
  CASE mode = "coop" -> [starting_lives |-> 1, disable_live_and_timer_hud |-> TRUE]
    [] mode = "survival" /\ changed /\ "starting_lives" \notin r.told ->
         [starting_lives |-> 1]
    [] OTHER ->
         IF changed /\ before.gamemode = "coop"
         THEN [k \in unsent({"starting_lives", "disable_live_and_timer_hud"}) |->
                 GetDefaultLobbyOptions(mode, "coop")[k]]
         ELSE Nothing

TimerForMode(r, before) ==
  IF r.opts.gamemode = "coop" THEN [timer |-> FALSE]
  ELSE IF before.gamemode = "coop" /\ "timer" \notin r.told THEN [timer |-> TRUE]
  ELSE Nothing

ApplyDerivedGameModeConstraints(r, before) ==
  Put(Put(r, LivesAndHud(r, before)), TimerForMode(r, before))

\* fault: options reset by the change of the type are not in the message
ApplyTypeChangeSilently(r, previous, next) ==
  IF next = previous THEN r
  ELSE [Put(r, GetLobbyTypeChangeOptionUpdates(previous, next)) EXCEPT !.told = r.told]

ApplyTypeChange(r, previous, next) ==
  IF next = previous THEN r
  ELSE Put(r, GetLobbyTypeChangeOptionUpdates(previous, next))

ApplyDerivedLobbyTypeConstraints(r, t) == Put(r, GetLobbyTypeLockedOptions(t))

ApplyLobbyOptions(o, t, msg, count) ==
  LET sent == Received([opts |-> o, told |-> {}], msg, count)
      derived == ApplyDerivedGameModeConstraints(ApplyDerivedCustomWinnerOptions(sent, o), o)
      next == GetLobbyTypeForGameMode(derived.opts.gamemode, t) IN
  ApplyDerivedLobbyTypeConstraints(ApplyTypeChange(derived, t, next), next)

------------------------------------------------------------------------------
(* Players, their nemeses, and what the clients are told *)

TeamOf(pl, p) == IF pl[p].team = None THEN 1 ELSE pl[p].team

\* preparePlayerForFreshLobbyAttachment
FreshPlayer(t) ==
  [team |-> IF t = "teams" THEN 1 ELSE None, locked |-> FALSE, ready |-> FALSE,
   nemesis |-> None]

\* getNemesisCandidatesForPlayer
Candidates(t, pl, p) ==
  {q \in DOMAIN pl \ {p} : t = "teams" => TeamOf(pl, q) # TeamOf(pl, p)}

\* Who refreshLobbyNemesisAssignments may give each player: the nemesis it has while
\* that one is a candidate, else any candidate (the code takes the lowest hash).  A
\* duels lobby has none before the match, and the pairs of the round in it.
Assignments(t, pl, started) ==
  {n \in [DOMAIN pl -> DOMAIN pl \cup {None}] :
     IF t = "duels"
     THEN IF started
          THEN /\ Cardinality({p \in DOMAIN pl : n[p] = None}) = Cardinality(DOMAIN pl) % 2
               /\ \A p \in DOMAIN pl : n[p] # None => n[p] # p /\ n[n[p]] = p
          ELSE \A p \in DOMAIN pl : n[p] = None
     ELSE \A p \in DOMAIN pl :
            LET C == Candidates(t, pl, p) IN
            IF pl[p].nemesis \in C THEN n[p] = pl[p].nemesis
            ELSE IF C = {} THEN n[p] = None ELSE n[p] \in C}

WithNemeses(pl, n) == [p \in DOMAIN pl |-> [pl[p] EXCEPT !.nemesis = n[p]]]

\* refreshLobbyNemesisAssignmentsForLobby, in every way the hashes may decide
Refreshed(t, pl, started) == {WithNemeses(pl, n) : n \in Assignments(t, pl, started)}

\* fault: a lock outlives the teams it was made for
ResetAllButLocks(t, pl) ==
  [p \in DOMAIN pl |-> [FreshPlayer(t) EXCEPT !.nemesis = pl[p].nemesis,
                                             !.locked = pl[p].locked]]

\* resetLobbyPlayersForLobbyTypeChange
ResetPlayers(t, pl) == [p \in DOMAIN pl |-> [FreshPlayer(t) EXCEPT !.nemesis = pl[p].nemesis]]

Snapshot(t, o, pl) == [type |-> t, opts |-> o, players |-> pl]

\* lobbyOptions: the keys of r.told
TellOptions(vs, r) ==
  [c \in DOMAIN vs |->
     [vs[c] EXCEPT !.opts = [k \in OptionKeys |-> IF k \in r.told THEN r.opts[k] ELSE @[k]]]]

\* lobbyTypeChanged and lobbyInfo: the type and every player
TellTypeAndPlayers(vs, t, pl) ==
  [c \in DOMAIN vs |-> [vs[c] EXCEPT !.type = t, !.players = pl]]

\* lobbyPlayerUpdated and lobbyPlayerJoined: one player
TellPlayer(vs, pl, p) ==
  [c \in DOMAIN vs |->
     [vs[c] EXCEPT !.players = [q \in DOMAIN @ \cup {p} |-> IF q = p THEN pl[p] ELSE @[q]]]]

Update(shown, info, team, nemesis) ==
  [shown EXCEPT !.team = IF team THEN info.team ELSE @,
                !.nemesis = IF nemesis THEN info.nemesis ELSE @]

\* lobbyPlayerTeam, and lobbyNemesisAssignments for the players of changed
TellTeamAndNemeses(vs, pl, p, changed) ==
  [c \in DOMAIN vs |->
     [vs[c] EXCEPT !.players =
        [q \in DOMAIN @ |-> Update(@[q], pl[q], q = p, q \in changed)]]]

\* lobbyPlayerLeft: the list without the departed, with all assignments
TellPlayerLeft(vs, pl) ==
  [c \in DOMAIN vs |->
     [vs[c] EXCEPT !.players = [q \in DOMAIN pl |-> [@[q] EXCEPT !.nemesis = pl[q].nemesis]]]]

------------------------------------------------------------------------------
(* createLobbyAction, with the options the creator sends *)

CreateDefaults(mode, msg) ==
  IF mode = "survival" /\ "starting_lives" \notin DOMAIN msg THEN {"starting_lives"} ELSE {}

Init ==
  \E h \in Players, mode \in Modes, requested \in Types, msg \in Messages \cup {Nothing} :
    /\ mode # "coop" => requested # "coop"
    /\ LET t == GetLobbyTypeForGameMode(mode, requested)
           full == [k \in DOMAIN msg \cup CreateDefaults(mode, msg) |->
                      IF k \in DOMAIN msg THEN msg[k] ELSE 1]
           r == ApplyLobbyOptions(GetDefaultLobbyOptions(mode, t), t, full, 1) IN
       /\ type = GetLobbyTypeForGameMode(r.opts.gamemode, t)
       /\ opts = r.opts
       /\ players = [p \in {h} |-> FreshPlayer(type)]
       /\ views = [c \in {h} |-> Snapshot(type, opts, players)]
    /\ owner = h
    /\ inGame = FALSE

\* lobbyOptionsAction
ChangeOptions(msg) ==
  LET r == ApplyLobbyOptions(opts, type, msg, Cardinality(Seated))
      next == GetLobbyTypeForGameMode(r.opts.gamemode, type) IN
  /\ ~inGame
  /\ opts' = r.opts
  /\ type' = next
  /\ IF next = type
     THEN /\ players' = players
          /\ views' = TellOptions(views, r)
     ELSE /\ players' \in Refreshed(next, ResetPlayers(next, players), FALSE)
          /\ views' = TellTypeAndPlayers(TellOptions(views, r), next, players')
  /\ UNCHANGED <<owner, inGame>>

\* setLobbyTypeAction
SetLobbyType(t) ==
  LET updates == GetLobbyTypeChangeOptionUpdates(type, t)
      r == Put([opts |-> opts, told |-> {}], updates) IN
  /\ ~inGame
  /\ t # "coop" /\ type # "coop" /\ t # type
  /\ t = "1v1" => Cardinality(Seated) <= 2
  /\ type' = t
  /\ opts' = r.opts
  /\ players' \in Refreshed(t, ResetPlayers(t, players), FALSE)
  /\ views' = TellTypeAndPlayers(TellOptions(views, r), t, players')
  /\ UNCHANGED <<owner, inGame>>

\* fault: the nemeses are left as they were until the match starts
SetTeamOnly(by, p, team) ==
  /\ type = "teams" /\ ~inGame
  /\ p # by \/ players[p].locked => by = owner
  /\ TeamOf(players, p) # team
  /\ players' = [players EXCEPT ![p].team = team]
  /\ views' = TellTeamAndNemeses(views, players', p, {})
  /\ UNCHANGED <<type, opts, owner, inGame>>

\* setTeamAction by a player, or by the host for another: only the nemeses it changes
\* are broadcast.
SetTeam(by, p, team) ==
  /\ type = "teams" /\ ~inGame
  /\ p # by \/ players[p].locked => by = owner
  /\ TeamOf(players, p) # team
  /\ players' \in Refreshed(type, [players EXCEPT ![p].team = team], FALSE)
  /\ LET changed == {q \in Seated : players'[q].nemesis # players[q].nemesis} IN
     views' = TellTeamAndNemeses(views, players', p, changed)
  /\ UNCHANGED <<type, opts, owner, inGame>>

\* setTeamLockAction
SetTeamLock(p, locked) ==
  /\ type = "teams" /\ ~inGame
  /\ p # owner
  /\ players' = [players EXCEPT ![p].locked = locked]
  /\ views' = TellPlayer(views, players', p)
  /\ UNCHANGED <<type, opts, owner, inGame>>

\* readyLobbyAction, unreadyLobbyAction
ReadyLobby(p, ready) ==
  /\ type = "1v1" /\ ~inGame
  /\ players' = [players EXCEPT ![p].ready = ready]
  /\ views' = TellPlayer(views, players', p)
  /\ UNCHANGED <<type, opts, owner, inGame>>

\* joinLobbyAction: the others are told the new player, not the nemeses its arrival
\* gave to them.  What nemesis a player brings from its last lobby makes no difference:
\* it is kept only if the refresh might have chosen it.
JoinLobby(p) ==
  /\ p \notin Seated /\ ~inGame
  /\ Cardinality(Seated) < GetLobbyMaxPlayers(type, opts, Cardinality(Seated))
  /\ players' \in Refreshed(type, [q \in Seated \cup {p} |->
                                     IF q = p THEN FreshPlayer(type) ELSE players[q]], FALSE)
  /\ views' = [c \in Seated \cup {p} |->
                 IF c = p THEN Snapshot(type, opts, players')
                 ELSE TellPlayer(views, players', p)[c]]
  /\ UNCHANGED <<type, opts, owner, inGame>>

\* leaveLobbyAction, kickPlayerAction; the lobby is removed with its last player.
LeaveLobby(p) ==
  LET rest == Seated \ {p} IN
  /\ ~inGame /\ rest # {}
  /\ IF p = owner THEN owner' \in rest ELSE owner' = owner
  /\ players' \in Refreshed(type, [q \in rest |-> players[q]], FALSE)
  /\ views' = TellPlayerLeft([c \in rest |-> views[c]], players')
  /\ UNCHANGED <<type, opts, inGame>>

\* makePlayerHostAction
MakePlayerHost(p) ==
  /\ ~inGame
  /\ owner' = p
  /\ views' = TellTypeAndPlayers(views, type, players)
  /\ UNCHANGED <<type, opts, players, inGame>>

\* getLobbyStartBlockReason = null
MayStart ==
  IF type = "1v1"
  THEN Cardinality(Seated) = 2 /\ \A p \in Seated \ {owner} : players[p].ready
  ELSE /\ Cardinality(Seated) >= 2
       /\ type = "teams" => Cardinality({TeamOf(players, p) : p \in Seated}) >= 2

StartGame ==
  /\ ~inGame /\ MayStart
  /\ inGame' = TRUE
  /\ players' \in Refreshed(type,
       [p \in Seated |-> [players[p] EXCEPT !.ready = @ /\ ~(type = "1v1" /\ p # owner)]],
       TRUE)
  /\ views' = TellTypeAndPlayers(views, type, players')
  /\ UNCHANGED <<type, opts, owner>>

Next ==
  \/ \E msg \in Messages : ChangeOptions(msg)
  \/ \E t \in Types : SetLobbyType(t)
  \/ \E by, p \in Seated, team \in Teams : SetTeam(by, p, team)
  \/ \E p \in Seated, on \in BOOLEAN : SetTeamLock(p, on) \/ ReadyLobby(p, on)
  \/ \E p \in Players : JoinLobby(p)
  \/ \E p \in Seated : LeaveLobby(p) \/ MakePlayerHost(p)
  \/ StartGame

Spec == Init /\ [][Next]_vars

------------------------------------------------------------------------------
(* Properties *)

PlayerInfos == [team : Teams \cup {None}, locked : BOOLEAN, ready : BOOLEAN,
                nemesis : Players \cup {None}]

\* Everything has its type; the host is seated, every client has a view.
TypeOK ==
  /\ type \in Types
  /\ DOMAIN opts = OptionKeys
  /\ opts.gamemode \in Modes
  /\ players \in UNION {[S -> PlayerInfos] : S \in SUBSET Players}
  /\ owner \in Seated
  /\ inGame \in BOOLEAN
  /\ DOMAIN views = Seated

\* Whatever the host sends, in whatever order and with whatever players coming and
\* going, the numbers fit each other: nobody sits above max_players, and a custom
\* score rule leaves between one winner and all but one.
NumbersFit ==
  /\ Cardinality(Seated) <= opts.max_players
  /\ opts.pvp_custom_winners \in 1..WinnerLimit(opts.max_players)
  /\ type = "1v1" => opts.max_players = 2
  /\ type # "1v1" => opts.max_players \in MinGroup..MaxGroup

\* The lobby type and the game mode fit each other and fix what they must: a co-op
\* lobby plays co-op with one life and no timer, pairs are decided by the highest score.
OptionsFitType ==
  /\ type = "coop" <=> opts.gamemode = "coop"
  /\ type = "coop" => /\ opts.starting_lives = 1 /\ ~opts.timer
                      /\ opts.disable_live_and_timer_hud
  /\ type \in {"1v1", "duels"} => opts.pvp_score_rule = "highest"
  /\ type # "teams" => \A p \in Seated : players[p].team = None /\ ~players[p].locked
  /\ type # "1v1" => \A p \in Seated : ~players[p].ready

\* Although most messages carry only what a handler thinks it changed, every client
\* shows the options, the type and the players of the server; the nemesis it shows for
\* a player is the one assigned, or none when a join assigned it.
ViewsAgree ==
  \A c \in Seated :
    /\ views[c].type = type
    /\ views[c].opts = opts
    /\ DOMAIN views[c].players = Seated
    /\ \A p \in Seated :
         /\ views[c].players[p].nemesis \in {players[p].nemesis, None}
         /\ [views[c].players[p] EXCEPT !.nemesis = None]
              = [players[p] EXCEPT !.nemesis = None]

\* Everybody who could have an opponent as nemesis has one, on another team in a teams
\* lobby, and once the match has started every client knows it.
NemesesAreOpponents ==
  /\ type # "duels" =>
       \A p \in Seated :
         LET C == Candidates(type, players, p) IN
         IF C = {} THEN players[p].nemesis = None ELSE players[p].nemesis \in C
  /\ inGame => \A c \in Seated : views[c].players = players
=============================================================================
