------------------------- MODULE LobbyOptionsProofs -------------------------
(***************************************************************************)
(* Proofs about LobbyOptions: whatever a host sends, the options and the   *)
(* type it ends up with fit each other, for lobbies of every size.  The    *)
(* lemmas follow applyLobbyOptions from stage to stage.                    *)
(***************************************************************************)
EXTENDS LobbyOptions, FiniteSetTheorems, TLAPS

\* Options an intermediate stage of applyLobbyOptions may hold: the numbers are in
\* bounds, what the type locks is not locked yet.
Sized(o, count) ==
  /\ DOMAIN o = OptionKeys
  /\ o["gamemode"] \in Modes
  /\ o["max_players"] \in Int
  /\ 2 <= o["max_players"] /\ o["max_players"] <= MaxGroup /\ count <= o["max_players"]

WinnersFit(o) == o["pvp_custom_winners"] \in 1..WinnerLimit(o["max_players"])

CoopForced(o) ==
  o["gamemode"] = "coop" =>
    /\ o["starting_lives"] = 1 /\ ~o["timer"]
    /\ o["disable_live_and_timer_hud"]

\* Options that fit a lobby of type t with count players.
Fit(o, t, count) ==
  /\ Sized(o, count) /\ WinnersFit(o) /\ CoopForced(o)
  /\ t \in Types
  /\ t = "coop" <=> o["gamemode"] = "coop"
  /\ t = "1v1" => o["max_players"] = 2
  /\ t # "1v1" => o["max_players"] >= MinGroup
  /\ t \in {"1v1", "duels"} => o["pvp_score_rule"] = "highest"

------------------------------------------------------------------------------
(* The stages of applyLobbyOptions *)

LEMMA PutFacts ==
  ASSUME NEW r, NEW u
  PROVE  /\ DOMAIN Put(r, u).opts = OptionKeys
         /\ \A k \in OptionKeys :
              Put(r, u).opts[k] = IF k \in DOMAIN u THEN u[k] ELSE r.opts[k]
         /\ Put(r, u).told = r.told \cup DOMAIN u
  BY DEF Put

LEMMA WinnerLimitFacts ==
  ASSUME NEW max \in Int, 2 <= max
  PROVE  /\ WinnerLimit(max) = max - 1
         /\ DefaultWinners(max) \in 1..WinnerLimit(max)
  BY DEF WinnerLimit, DefaultWinners, Larger, Smaller

LEMMA ReceivedFits ==
  ASSUME NEW o, NEW count \in Nat, NEW msg, IsMessage(msg), Sized(o, count), WinnersFit(o)
  PROVE  LET r == Received([opts |-> o, told |-> {}], msg, count) IN
         /\ Sized(r.opts, count)
         /\ r.opts["pvp_custom_winners"] \in Int
         /\ "pvp_custom_winners" \notin r.told => r.opts["pvp_custom_winners"] >= 1
         /\ "max_players" \in DOMAIN msg => r.opts["max_players"] >= MinGroup
         /\ "max_players" \notin DOMAIN msg => r.opts["max_players"] = o["max_players"]
         /\ r.told = DOMAIN msg
<1> DEFINE u == [k \in DOMAIN msg |->
                   IF k = "max_players"
                   THEN Larger(GetMinimumGroupMaxPlayers(count), Smaller(MaxGroup, msg[k]))
                   ELSE msg[k]]
           r == Put([opts |-> o, told |-> {}], u)
<1>1. r = Received([opts |-> o, told |-> {}], msg, count)
  BY DEF Received
<1>2. /\ DOMAIN r.opts = OptionKeys
      /\ \A k \in OptionKeys : r.opts[k] = IF k \in DOMAIN msg THEN u[k] ELSE o[k]
      /\ r.told = DOMAIN msg
  <2>1. DOMAIN u = DOMAIN msg
    OBVIOUS
  <2> DEFINE q == [opts |-> o, told |-> {}]
  <2>2. q.opts = o /\ q.told = {}
    OBVIOUS
  <2> HIDE DEF u, q
  <2>3. /\ DOMAIN Put(q, u).opts = OptionKeys
        /\ \A k \in OptionKeys : Put(q, u).opts[k] = IF k \in DOMAIN u THEN u[k] ELSE q.opts[k]
        /\ Put(q, u).told = q.told \cup DOMAIN u
    BY PutFacts
  <2> QED
    BY <2>1, <2>2, <2>3 DEF q
<1> HIDE DEF r
<1>3. {"gamemode", "max_players", "pvp_custom_winners"} \subseteq OptionKeys
  BY DEF OptionKeys
<1>4. r.opts["gamemode"] \in Modes
  BY <1>2, <1>3 DEF IsMessage, Sized
<1>5. /\ r.opts["pvp_custom_winners"] \in Int
      /\ "pvp_custom_winners" \notin r.told => r.opts["pvp_custom_winners"] >= 1
  BY <1>2, <1>3, WinnerLimitFacts DEF IsMessage, WinnersFit, Sized
<1>6. CASE "max_players" \in DOMAIN msg
  <2>1. r.opts["max_players"]
          = Larger(GetMinimumGroupMaxPlayers(count), Smaller(MaxGroup, msg["max_players"]))
    BY <1>2, <1>3, <1>6
  <2>2. msg["max_players"] \in Int
    BY <1>6 DEF IsMessage
  <2>3. count <= MaxGroup
    BY LimitsAssumption DEF Sized
  <2>4. /\ r.opts["max_players"] \in Int
        /\ MinGroup <= r.opts["max_players"] /\ count <= r.opts["max_players"]
        /\ r.opts["max_players"] <= MaxGroup
    BY <2>1, <2>2, <2>3, LimitsAssumption DEF Larger, Smaller, GetMinimumGroupMaxPlayers
  <2> QED
    BY <1>1, <1>2, <1>4, <1>5, <1>6, <2>4, LimitsAssumption DEF Sized
<1>7. CASE "max_players" \notin DOMAIN msg
  <2>1. r.opts["max_players"] = o["max_players"]
    BY <1>2, <1>3, <1>7
  <2> QED
    BY <1>1, <1>2, <1>4, <1>5, <1>7, <2>1 DEF Sized
<1> QED
  BY <1>6, <1>7

LEMMA WinnersFollow ==
  ASSUME NEW r, NEW before, NEW count, Sized(r.opts, count), Sized(before, count),
         r.opts["pvp_custom_winners"] \in Int,
         "pvp_custom_winners" \notin r.told => r.opts["pvp_custom_winners"] >= 1
  PROVE  LET s == ApplyDerivedCustomWinnerOptions(r, before) IN
         /\ Sized(s.opts, count) /\ WinnersFit(s.opts)
         /\ \A k \in OptionKeys \ {"pvp_custom_winners"} : s.opts[k] = r.opts[k]
<1> DEFINE max == r.opts.max_players
           winners == r.opts.pvp_custom_winners
           s == ApplyDerivedCustomWinnerOptions(r, before)
<1>1. \E w : w \in 1..WinnerLimit(max)
               /\ (s = Put(r, [pvp_custom_winners |-> w]) \/ (s = r /\ w = winners))
  <2>1. /\ max \in Int /\ 2 <= max /\ winners \in Int
        /\ WinnerLimit(max) = max - 1
        /\ DefaultWinners(max) \in 1..WinnerLimit(max)
    BY WinnerLimitFacts DEF Sized
  <2>2. CASE "pvp_custom_winners" \in r.told
    <3>1. s = Put(r, [pvp_custom_winners |-> Larger(1, Smaller(WinnerLimit(max), winners))])
      BY <2>2 DEF ApplyDerivedCustomWinnerOptions
    <3>2. Larger(1, Smaller(WinnerLimit(max), winners)) \in 1..WinnerLimit(max)
      BY <2>1 DEF Larger, Smaller
    <3> QED
      BY <3>1, <3>2
  <2>3. CASE /\ "pvp_custom_winners" \notin r.told
             /\ "max_players" \in r.told /\ max # before.max_players
             /\ before.pvp_custom_winners = DefaultWinners(before.max_players)
    <3>1. s = Put(r, [pvp_custom_winners |-> DefaultWinners(max)])
      BY <2>3 DEF ApplyDerivedCustomWinnerOptions
    <3> QED
      BY <2>1, <3>1
  <2>4. CASE /\ "pvp_custom_winners" \notin r.told
             /\ ~(/\ "max_players" \in r.told /\ max # before.max_players
                  /\ before.pvp_custom_winners = DefaultWinners(before.max_players))
    <3>1. s = IF winners > WinnerLimit(max)
              THEN Put(r, [pvp_custom_winners |-> WinnerLimit(max)]) ELSE r
      BY <2>4 DEF ApplyDerivedCustomWinnerOptions
    <3>2. WinnerLimit(max) \in 1..WinnerLimit(max)
      BY <2>1
    <3>3. winners <= WinnerLimit(max) => winners \in 1..WinnerLimit(max)
      BY <2>1, <2>4
    <3> QED
      BY <2>1, <3>1, <3>2, <3>3
  <2> QED
    BY <2>2, <2>3, <2>4
<1>2. PICK w \in 1..WinnerLimit(max) :
        s = Put(r, [pvp_custom_winners |-> w]) \/ (s = r /\ w = winners)
  BY <1>1
<1> HIDE DEF s
<1>3. "pvp_custom_winners" \in OptionKeys /\ "max_players" \in OptionKeys
      /\ "gamemode" \in OptionKeys
  BY DEF OptionKeys
<1>4. /\ DOMAIN s.opts = OptionKeys
      /\ s.opts["pvp_custom_winners"] = w
      /\ \A k \in OptionKeys \ {"pvp_custom_winners"} : s.opts[k] = r.opts[k]
  BY <1>2, <1>3, PutFacts DEF Sized
<1>5. s.opts["max_players"] = r.opts["max_players"] /\ s.opts["gamemode"] = r.opts["gamemode"]
  BY <1>3, <1>4
<1> QED
  BY <1>3, <1>4, <1>5 DEF Sized, WinnersFit, s

LEMMA ModeConstraints ==
  ASSUME NEW r, NEW before, NEW count, Sized(r.opts, count), WinnersFit(r.opts)
  PROVE  LET s == ApplyDerivedGameModeConstraints(r, before) IN
         /\ Sized(s.opts, count) /\ WinnersFit(s.opts) /\ CoopForced(s.opts)
         /\ \A k \in {"gamemode", "max_players", "pvp_custom_winners", "pvp_score_rule"} :
              s.opts[k] = r.opts[k]
<1> DEFINE u == LivesAndHud(r, before)
           v == TimerForMode(r, before)
           s == Put(Put(r, u), v)
<1>1. DOMAIN u \subseteq {"starting_lives", "disable_live_and_timer_hud"}
  BY DEF LivesAndHud, Nothing
<1>2. DOMAIN v \subseteq {"timer"}
  BY DEF TimerForMode, Nothing
<1>3. r.opts["gamemode"] = "coop" =>
        /\ DOMAIN u = {"starting_lives", "disable_live_and_timer_hud"}
        /\ u["starting_lives"] = 1 /\ u["disable_live_and_timer_hud"] = TRUE
        /\ DOMAIN v = {"timer"} /\ v["timer"] = FALSE
  BY DEF LivesAndHud, TimerForMode
<1>4. s = ApplyDerivedGameModeConstraints(r, before)
  BY DEF ApplyDerivedGameModeConstraints
<1> HIDE DEF u, v
<1>5. /\ DOMAIN s.opts = OptionKeys
      /\ \A k \in OptionKeys :
           s.opts[k] = IF k \in DOMAIN v THEN v[k]
                       ELSE IF k \in DOMAIN u THEN u[k] ELSE r.opts[k]
  BY PutFacts
<1> HIDE DEF s
<1>6. \A k \in {"gamemode", "max_players", "pvp_custom_winners", "pvp_score_rule"} :
        s.opts[k] = r.opts[k]
  BY <1>1, <1>2, <1>5 DEF OptionKeys
<1>7. CoopForced(s.opts)
  <2> SUFFICES ASSUME s.opts["gamemode"] = "coop"
               PROVE  /\ s.opts["starting_lives"] = 1 /\ ~s.opts["timer"]
                      /\ s.opts["disable_live_and_timer_hud"]
    BY DEF CoopForced
  <2>1. r.opts["gamemode"] = "coop"
    BY <1>6
  <2>2. s.opts["starting_lives"] = 1
    BY <1>3, <1>5, <2>1 DEF OptionKeys
  <2>3. s.opts["timer"] = FALSE
    BY <1>3, <1>5, <2>1 DEF OptionKeys
  <2>4. s.opts["disable_live_and_timer_hud"] = TRUE
    BY <1>3, <1>5, <2>1 DEF OptionKeys
  <2> QED
    BY <2>2, <2>3, <2>4
<1>8. Sized(s.opts, count) /\ WinnersFit(s.opts)
  BY <1>5, <1>6 DEF Sized, WinnersFit
<1> QED
  BY <1>4, <1>6, <1>7, <1>8

\* What a change of the type sets, and what it leaves alone.
LEMMA TypeUpdates ==
  ASSUME NEW previous \in Types, NEW next \in Types
  PROVE  LET u == GetLobbyTypeChangeOptionUpdates(previous, next) IN
         /\ DOMAIN u \subseteq {"team_card_sync", "max_players", "pvp_custom_winners",
                                "pvp_score_rule"}
         /\ "max_players" \in DOMAIN u <=> "1v1" \in {previous, next}
         /\ "pvp_custom_winners" \in DOMAIN u <=> "1v1" \in {previous, next}
         /\ "pvp_score_rule" \in DOMAIN u <=> next \in {"1v1", "duels"}
         /\ "max_players" \in DOMAIN u =>
              u["max_players"] = IF next = "1v1" THEN 2 ELSE DefaultMax
         /\ "pvp_custom_winners" \in DOMAIN u =>
              u["pvp_custom_winners"] = IF next = "1v1" THEN 1 ELSE DefaultWinners(DefaultMax)
         /\ "pvp_score_rule" \in DOMAIN u => u["pvp_score_rule"] = "highest"
<1> DEFINE u == GetLobbyTypeChangeOptionUpdates(previous, next)
           D == GetDefaultLobbyOptions("any", next)
           K == {"team_card_sync"}
                \cup (IF "1v1" \in {previous, next} THEN {"max_players", "pvp_custom_winners"} ELSE {})
                \cup (IF next \in {"1v1", "duels"} THEN {"pvp_score_rule"} ELSE {})
<1>1. u = [k \in K |-> D[k]]
  BY DEF GetLobbyTypeChangeOptionUpdates
<1>2. /\ D["max_players"] = IF next = "1v1" THEN 2 ELSE DefaultMax
      /\ D["pvp_custom_winners"] = IF next = "1v1" THEN 1 ELSE DefaultWinners(DefaultMax)
      /\ D["pvp_score_rule"] = "highest"
  BY DEF GetDefaultLobbyOptions
<1> HIDE DEF D
<1>3. /\ K \subseteq {"team_card_sync", "max_players", "pvp_custom_winners", "pvp_score_rule"}
      /\ "max_players" \in K <=> "1v1" \in {previous, next}
      /\ "pvp_custom_winners" \in K <=> "1v1" \in {previous, next}
      /\ "pvp_score_rule" \in K <=> next \in {"1v1", "duels"}
  OBVIOUS
<1> HIDE DEF K, u
<1> QED
  BY <1>1, <1>2, <1>3 DEF u

\* Setting the options of a new type, and then those it locks, makes options that fit
\* the type, from options that fitted the old one up to what it locked.
LEMMA TypeChangeFits ==
  ASSUME NEW r, NEW previous \in Types, NEW count \in Nat,
         Sized(r.opts, count), WinnersFit(r.opts), CoopForced(r.opts),
         previous = "1v1" => count <= 2,
         previous # "1v1" => r.opts["max_players"] >= MinGroup,
         NEW next \in Types, next = "1v1" => count <= 2,
         next = "coop" <=> r.opts["gamemode"] = "coop"
  PROVE  LET s == ApplyTypeChange(r, previous, next)
             f == ApplyDerivedLobbyTypeConstraints(s, next) IN
         /\ Fit(f.opts, next, count)
         /\ next # previous => Fit(s.opts, next, count)
<1> DEFINE u == GetLobbyTypeChangeOptionUpdates(previous, next)
           s == ApplyTypeChange(r, previous, next)
           l == GetLobbyTypeLockedOptions(next)
           f == Put(s, l)
<1> DEFINE Bounds(o) ==
      /\ DOMAIN o = OptionKeys
      /\ o["gamemode"] = r.opts["gamemode"]
      /\ o["starting_lives"] = r.opts["starting_lives"]
      /\ o["timer"] = r.opts["timer"]
      /\ o["disable_live_and_timer_hud"] = r.opts["disable_live_and_timer_hud"]
      /\ o["max_players"] \in Int /\ 2 <= o["max_players"] /\ o["max_players"] <= MaxGroup
      /\ count <= o["max_players"]
      /\ WinnersFit(o)
<1>0. /\ OptionKeys = {"gamemode", "max_players", "pvp_custom_winners", "pvp_score_rule",
               "starting_lives", "disable_live_and_timer_hud", "timer", "team_card_sync"}
      /\ WinnerLimit(2) = 1 /\ 1 \in 1..1
      /\ DefaultWinners(DefaultMax) \in 1..WinnerLimit(DefaultMax)
      /\ 2 <= DefaultMax /\ DefaultMax <= MaxGroup /\ MinGroup <= DefaultMax
      /\ DefaultMax \in Int /\ MinGroup \in Int /\ MaxGroup \in Int /\ 2 <= MaxGroup
  BY WinnerLimitFacts, LimitsAssumption DEF OptionKeys
<1>1. /\ Bounds(s.opts)
      /\ next # previous /\ next = "1v1" => s.opts["max_players"] = 2
      /\ next # "1v1" /\ (next # previous \/ previous # "1v1") =>
           s.opts["max_players"] >= MinGroup
      /\ next # previous /\ next \in {"1v1", "duels"} => s.opts["pvp_score_rule"] = "highest"
  <2>1. CASE next = previous
    <3>1. s = r
      BY <2>1 DEF ApplyTypeChange
    <3> QED
      BY <2>1, <3>1 DEF Sized
  <2>2. CASE next # previous
    <3>1. s = Put(r, u)
      BY <2>2 DEF ApplyTypeChange
    <3>2. /\ DOMAIN u \subseteq {"team_card_sync", "max_players", "pvp_custom_winners",
                                "pvp_score_rule"}
          /\ "max_players" \in DOMAIN u <=> "1v1" \in {previous, next}
          /\ "pvp_custom_winners" \in DOMAIN u <=> "1v1" \in {previous, next}
          /\ "pvp_score_rule" \in DOMAIN u <=> next \in {"1v1", "duels"}
          /\ "max_players" \in DOMAIN u =>
               u["max_players"] = IF next = "1v1" THEN 2 ELSE DefaultMax
          /\ "pvp_custom_winners" \in DOMAIN u =>
               u["pvp_custom_winners"] = IF next = "1v1" THEN 1 ELSE DefaultWinners(DefaultMax)
          /\ "pvp_score_rule" \in DOMAIN u => u["pvp_score_rule"] = "highest"
      BY TypeUpdates
    <3> HIDE DEF u, s
    <3>3. /\ DOMAIN s.opts = OptionKeys
          /\ \A k \in OptionKeys : s.opts[k] = IF k \in DOMAIN u THEN u[k] ELSE r.opts[k]
      BY <3>1, PutFacts
    <3>4. /\ s.opts["gamemode"] = r.opts["gamemode"]
          /\ s.opts["starting_lives"] = r.opts["starting_lives"]
          /\ s.opts["timer"] = r.opts["timer"]
          /\ s.opts["disable_live_and_timer_hud"] = r.opts["disable_live_and_timer_hud"]
      BY <1>0, <3>2, <3>3
    <3>5. next \in {"1v1", "duels"} => s.opts["pvp_score_rule"] = "highest"
      BY <1>0, <3>2, <3>3
    <3>6. CASE "1v1" \in {previous, next}
      <4>1. /\ s.opts["max_players"] = IF next = "1v1" THEN 2 ELSE DefaultMax
            /\ s.opts["pvp_custom_winners"]
                 = IF next = "1v1" THEN 1 ELSE DefaultWinners(DefaultMax)
        BY <1>0, <3>2, <3>3, <3>6
      <4>2. WinnersFit(s.opts)
        BY <1>0, <4>1 DEF WinnersFit
      <4>3. count <= 2
        BY <3>6
      <4> QED
        BY <1>0, <3>3, <3>4, <3>5, <4>1, <4>2, <4>3, <3>6
    <3>7. CASE "1v1" \notin {previous, next}
      <4>1. /\ s.opts["max_players"] = r.opts["max_players"]
            /\ s.opts["pvp_custom_winners"] = r.opts["pvp_custom_winners"]
        BY <1>0, <3>2, <3>3, <3>7
      <4> QED
        BY <1>0, <3>3, <3>4, <3>5, <4>1, <3>7 DEF Sized, WinnersFit
    <3> QED
      BY <3>6, <3>7
  <2> QED
    BY <2>1, <2>2
<1>2. /\ DOMAIN l \subseteq {"max_players", "pvp_custom_winners", "pvp_score_rule"}
      /\ "max_players" \in DOMAIN l <=> next = "1v1"
      /\ "pvp_custom_winners" \in DOMAIN l <=> next = "1v1"
      /\ "pvp_score_rule" \in DOMAIN l <=> next \in {"1v1", "duels"}
      /\ \A k \in DOMAIN l : l[k] = HeadToHead[k]
  BY DEF GetLobbyTypeLockedOptions, HeadToHead
<1>3. HeadToHead["max_players"] = 2 /\ HeadToHead["pvp_custom_winners"] = 1
      /\ HeadToHead["pvp_score_rule"] = "highest"
  BY DEF HeadToHead
<1> HIDE DEF l, s
<1>4. /\ DOMAIN f.opts = OptionKeys
      /\ \A k \in OptionKeys : f.opts[k] = IF k \in DOMAIN l THEN l[k] ELSE s.opts[k]
  BY PutFacts
<1> HIDE DEF f
<1>5. /\ Bounds(f.opts)
      /\ next = "1v1" => f.opts["max_players"] = 2
      /\ next # "1v1" => f.opts["max_players"] >= MinGroup
      /\ next \in {"1v1", "duels"} => f.opts["pvp_score_rule"] = "highest"
  <2>1. /\ f.opts["gamemode"] = r.opts["gamemode"]
        /\ f.opts["starting_lives"] = r.opts["starting_lives"]
        /\ f.opts["timer"] = r.opts["timer"]
        /\ f.opts["disable_live_and_timer_hud"] = r.opts["disable_live_and_timer_hud"]
    BY <1>0, <1>1, <1>2, <1>4
  <2>2. next \in {"1v1", "duels"} => f.opts["pvp_score_rule"] = "highest"
    BY <1>0, <1>2, <1>3, <1>4
  <2>3. CASE next = "1v1"
    <3>1. f.opts["max_players"] = 2 /\ f.opts["pvp_custom_winners"] = 1
      BY <1>0, <1>2, <1>3, <1>4, <2>3
    <3> QED
      BY <1>0, <1>4, <2>1, <2>2, <2>3, <3>1 DEF WinnersFit
  <2>4. CASE next # "1v1"
    <3>1. /\ f.opts["max_players"] = s.opts["max_players"]
          /\ f.opts["pvp_custom_winners"] = s.opts["pvp_custom_winners"]
      BY <1>0, <1>2, <1>4, <2>4
    <3> QED
      BY <1>1, <1>4, <2>1, <2>2, <2>4, <3>1 DEF WinnersFit
  <2> QED
    BY <2>3, <2>4
<1>6. f = ApplyDerivedLobbyTypeConstraints(s, next)
  BY DEF ApplyDerivedLobbyTypeConstraints, f, l
<1>7. \A o : Bounds(o) => Sized(o, count) /\ WinnersFit(o) /\ CoopForced(o)
                          /\ (next = "coop" <=> o["gamemode"] = "coop")
  BY DEF Sized, CoopForced
<1>8. Fit(f.opts, next, count)
  BY <1>5, <1>7 DEF Fit
<1>9. next # previous => Fit(s.opts, next, count)
  BY <1>1, <1>7 DEF Fit
<1> QED
  BY <1>6, <1>8, <1>9 DEF s

LEMMA GameModeType ==
  ASSUME NEW mode, NEW t \in Types
  PROVE  /\ GetLobbyTypeForGameMode(mode, t) \in Types
         /\ GetLobbyTypeForGameMode(mode, t) = "coop" <=> mode = "coop"
         /\ GetLobbyTypeForGameMode(mode, t) = "1v1" => t = "1v1"
  BY DEF GetLobbyTypeForGameMode, Types

\* applyLobbyOptions as a whole: from options within the bounds of the lobby's type, any
\* message makes options that fit the type it leads to.
LEMMA ApplyLobbyOptionsFits ==
  ASSUME NEW o, NEW t \in Types, NEW msg, IsMessage(msg), NEW count \in Nat,
         Sized(o, count), WinnersFit(o),
         t = "1v1" => count <= 2, t # "1v1" => o["max_players"] >= MinGroup
  PROVE  LET r == ApplyLobbyOptions(o, t, msg, count) IN
         Fit(r.opts, GetLobbyTypeForGameMode(r.opts["gamemode"], t), count)
<1> DEFINE a == Received([opts |-> o, told |-> {}], msg, count)
           b == ApplyDerivedCustomWinnerOptions(a, o)
           c == ApplyDerivedGameModeConstraints(b, o)
           next == GetLobbyTypeForGameMode(c.opts["gamemode"], t)
           d == ApplyTypeChange(c, t, next)
           r == ApplyDerivedLobbyTypeConstraints(d, next)
<1>1. /\ Sized(a.opts, count)
      /\ a.opts["pvp_custom_winners"] \in Int
      /\ "pvp_custom_winners" \notin a.told => a.opts["pvp_custom_winners"] >= 1
      /\ t # "1v1" => a.opts["max_players"] >= MinGroup
  BY ReceivedFits
<1>2. r = ApplyLobbyOptions(o, t, msg, count)
  BY DEF ApplyLobbyOptions
<1> HIDE DEF a
<1>3. /\ Sized(b.opts, count) /\ WinnersFit(b.opts)
      /\ \A k \in OptionKeys \ {"pvp_custom_winners"} : b.opts[k] = a.opts[k]
  BY <1>1, WinnersFollow
<1>4. t # "1v1" => b.opts["max_players"] >= MinGroup
  BY <1>1, <1>3 DEF OptionKeys
<1> HIDE DEF b
<1>5. /\ Sized(c.opts, count) /\ WinnersFit(c.opts) /\ CoopForced(c.opts)
      /\ t # "1v1" => c.opts["max_players"] >= MinGroup
  BY <1>3, <1>4, ModeConstraints
<1> HIDE DEF c
<1>6. /\ next \in Types
      /\ next = "coop" <=> c.opts["gamemode"] = "coop"
      /\ next = "1v1" => count <= 2
  BY GameModeType
<1>7. next = GetLobbyTypeForGameMode(c.opts["gamemode"], t)
  OBVIOUS
<1> HIDE DEF next
<1>8. Fit(r.opts, next, count)
  BY <1>5, <1>6, TypeChangeFits
<1>9. r.opts["gamemode"] = "coop" <=> c.opts["gamemode"] = "coop"
  BY <1>6, <1>8 DEF Fit
<1>10. GetLobbyTypeForGameMode(r.opts["gamemode"], t) = next
  BY <1>7, <1>9 DEF GetLobbyTypeForGameMode
<1> QED
  BY <1>2, <1>8, <1>10

------------------------------------------------------------------------------
(* The refresh of the nemeses *)

PlayersOf(pl, S) == S \subseteq Players /\ pl \in [S -> PlayerInfos]

\* The players' teams, locks and readiness are what their lobby's type allows.
PlayersFit(pl, t) ==
  /\ t # "teams" => \A p \in DOMAIN pl : pl[p].team = None /\ ~pl[p].locked
  /\ t # "1v1" => \A p \in DOMAIN pl : ~pl[p].ready

NemesesFit(pl, t) ==
  t # "duels" =>
    \A p \in DOMAIN pl :
      LET C == Candidates(t, pl, p) IN
      IF C = {} THEN pl[p].nemesis = None ELSE pl[p].nemesis \in C

Unpaired(pl, t) == t = "duels" => \A p \in DOMAIN pl : pl[p].nemesis = None

\* Only team and seat decide who is a candidate.
LEMMA SameCandidates ==
  ASSUME NEW t, NEW pl, NEW other, DOMAIN other = DOMAIN pl,
         \A p \in DOMAIN pl : other[p].team = pl[p].team
  PROVE  \A p \in DOMAIN pl : Candidates(t, other, p) = Candidates(t, pl, p)
  BY DEF Candidates, TeamOf

LEMMA RefreshedFacts ==
  ASSUME NEW t, NEW S, NEW pl, PlayersOf(pl, S), NEW started,
         NEW after \in Refreshed(t, pl, started)
  PROVE  /\ PlayersOf(after, S)
         /\ \A p \in S : /\ after[p].team = pl[p].team
                         /\ after[p].locked = pl[p].locked
                         /\ after[p].ready = pl[p].ready
         /\ NemesesFit(after, t)
<1>1. PICK n \in Assignments(t, pl, started) : after = WithNemeses(pl, n)
  BY DEF Refreshed
<1>2. /\ n \in [S -> S \cup {None}]
      /\ DOMAIN pl = S
  BY DEF Assignments, PlayersOf
<1>3. after = [p \in S |-> [pl[p] EXCEPT !.nemesis = n[p]]]
  BY <1>1, <1>2 DEF WithNemeses
<1>4. PlayersOf(after, S)
  BY <1>2, <1>3 DEF PlayersOf, PlayerInfos
<1>5. \A p \in S : /\ after[p].team = pl[p].team
                   /\ after[p].locked = pl[p].locked
                   /\ after[p].ready = pl[p].ready
                   /\ after[p].nemesis = n[p]
  BY <1>2, <1>3 DEF PlayersOf, PlayerInfos
<1>6. NemesesFit(after, t)
  <2> SUFFICES ASSUME t # "duels", NEW p \in S
               PROVE  LET C == Candidates(t, after, p) IN
                      IF C = {} THEN after[p].nemesis = None ELSE after[p].nemesis \in C
    BY <1>3 DEF NemesesFit
  <2>1. Candidates(t, after, p) = Candidates(t, pl, p)
    BY <1>2, <1>3, <1>5, SameCandidates
  <2>2. LET C == Candidates(t, pl, p) IN
        IF pl[p].nemesis \in C THEN n[p] = pl[p].nemesis
        ELSE IF C = {} THEN n[p] = None ELSE n[p] \in C
    BY <1>2 DEF Assignments
  <2> QED
    BY <1>5, <2>1, <2>2
<1> QED
  BY <1>4, <1>5, <1>6

LEMMA RefreshedUnpaired ==
  ASSUME NEW t, NEW S, NEW pl, PlayersOf(pl, S), NEW after \in Refreshed(t, pl, FALSE)
  PROVE  Unpaired(after, t)
<1>1. PICK n \in Assignments(t, pl, FALSE) : after = WithNemeses(pl, n)
  BY DEF Refreshed
<1>2. DOMAIN after = S /\ \A p \in S : after[p].nemesis = n[p]
  BY <1>1 DEF WithNemeses, PlayersOf, PlayerInfos
<1>3. t = "duels" => \A p \in S : n[p] = None
  BY DEF Assignments, PlayersOf
<1> QED
  BY <1>2, <1>3 DEF Unpaired

------------------------------------------------------------------------------
(* What the broadcasts tell *)

Shows(v, x) ==
  /\ v.team = x.team /\ v.locked = x.locked /\ v.ready = x.ready
  /\ v.nemesis \in {x.nemesis, None}

ViewsOf(vs, S, t, o, pl) ==
  /\ vs \in [S -> [type : {t}, opts : {o}, players : [S -> PlayerInfos]]]
  /\ \A c, p \in S : Shows(vs[c].players[p], pl[p])

\* The keys of the message are all that changed.
Frame(r, o) ==
  /\ r.opts = [k \in OptionKeys |-> r.opts[k]]
  /\ \A k \in OptionKeys \ r.told : r.opts[k] = o[k]

LEMMA PutFrame == ASSUME NEW r, NEW u, NEW o, Frame(r, o) PROVE Frame(Put(r, u), o)
<1>1. Put(r, u).opts = [k \in OptionKeys |-> IF k \in DOMAIN u THEN u[k] ELSE r.opts[k]]
      /\ Put(r, u).told = r.told \cup DOMAIN u
  BY DEF Put
<1> QED
  BY <1>1 DEF Frame

LEMMA ApplyLobbyOptionsFrame ==
  ASSUME NEW o, o = [k \in OptionKeys |-> o[k]], NEW t, NEW msg, NEW count
  PROVE  Frame(ApplyLobbyOptions(o, t, msg, count), o)
<1> DEFINE i == [opts |-> o, told |-> {}]
           a == Received(i, msg, count)
           b == ApplyDerivedCustomWinnerOptions(a, o)
           c == ApplyDerivedGameModeConstraints(b, o)
           next == GetLobbyTypeForGameMode(c.opts["gamemode"], t)
           d == ApplyTypeChange(c, t, next)
<1>1. Frame(i, o)
  BY DEF Frame
<1> HIDE DEF i
<1>2. Frame(a, o)
  BY <1>1, PutFrame DEF Received
<1> HIDE DEF a
<1>3. Frame(b, o)
  BY <1>2, PutFrame DEF ApplyDerivedCustomWinnerOptions
<1> HIDE DEF b
<1>4. Frame(c, o)
  BY <1>3, PutFrame DEF ApplyDerivedGameModeConstraints
<1> HIDE DEF c
<1>5. Frame(d, o)
  BY <1>4, PutFrame DEF ApplyTypeChange
<1> HIDE DEF next, d
<1>6. Frame(ApplyDerivedLobbyTypeConstraints(d, next), o)
  BY <1>5, PutFrame DEF ApplyDerivedLobbyTypeConstraints
<1> QED
  BY <1>6 DEF ApplyLobbyOptions, i, a, b, c, d, next

LEMMA TellOptionsShows ==
  ASSUME NEW vs, NEW S, NEW t, NEW o, NEW pl, ViewsOf(vs, S, t, o, pl),
         NEW r, Frame(r, o)
  PROVE  ViewsOf(TellOptions(vs, r), S, t, r.opts, pl)
<1> DEFINE after == TellOptions(vs, r)
<1>1. after = [c \in S |-> [vs[c] EXCEPT !.opts =
                 [k \in OptionKeys |-> IF k \in r.told THEN r.opts[k] ELSE vs[c].opts[k]]]]
  BY DEF TellOptions, ViewsOf
<1>2. \A c \in S : [k \in OptionKeys |-> IF k \in r.told THEN r.opts[k] ELSE vs[c].opts[k]]
                     = r.opts
  BY DEF Frame, ViewsOf
<1>3. after = [c \in S |-> [vs[c] EXCEPT !.opts = r.opts]]
  BY <1>1, <1>2
<1> HIDE DEF after
<1> QED
  BY <1>3 DEF ViewsOf, after

\* Views put together from a type, options and the players shown to each client.
LEMMA ViewsTogether ==
  ASSUME NEW S, NEW seated, NEW t, NEW o, NEW pl, NEW shown, NEW after,
         after = [c \in S |-> after[c]],
         \A c \in S : after[c] \in [type : {t}, opts : {o}, players : {shown[c]}],
         \A c \in S : shown[c] \in [seated -> PlayerInfos],
         \A c \in S, q \in seated : Shows(shown[c][q], pl[q])
  PROVE  /\ after \in [S -> [type : {t}, opts : {o}, players : [seated -> PlayerInfos]]]
         /\ \A c \in S, q \in seated : Shows(after[c].players[q], pl[q])
<1> HIDE DEF PlayerInfos, Shows
<1> QED
  OBVIOUS

LEMMA ViewRecord ==
  ASSUME NEW vs, NEW S, NEW t, NEW o, NEW pl, ViewsOf(vs, S, t, o, pl), NEW c \in S
  PROVE  vs[c] \in [type : {t}, opts : {o}, players : [S -> PlayerInfos]]
  BY DEF ViewsOf

LEMMA TellTypeAndPlayersShows ==
  ASSUME NEW vs, NEW S, NEW t, NEW o, NEW pl, ViewsOf(vs, S, t, o, pl),
         NEW t2, NEW pl2, PlayersOf(pl2, S)
  PROVE  /\ ViewsOf(TellTypeAndPlayers(vs, t2, pl2), S, t2, o, pl2)
         /\ \A c \in S : TellTypeAndPlayers(vs, t2, pl2)[c].players = pl2
<1> DEFINE after == TellTypeAndPlayers(vs, t2, pl2)
<1>1. after = [c \in S |-> [vs[c] EXCEPT !.type = t2, !.players = pl2]]
  BY DEF TellTypeAndPlayers, ViewsOf
<1> HIDE DEF after
<1>2. /\ after = [c \in S |-> after[c]]
      /\ \A c \in S : after[c] \in [type : {t2}, opts : {o}, players : {pl2}]
  <2>1. \A c \in S : [vs[c] EXCEPT !.type = t2, !.players = pl2]
                       \in [type : {t2}, opts : {o}, players : {pl2}]
    <3> TAKE c \in S
    <3>1. vs[c] \in [type : {t}, opts : {o}, players : [S -> PlayerInfos]]
      BY ViewRecord
    <3> QED
      BY <3>1
  <2> QED
    BY <1>1, <2>1
<1> DEFINE shown == [c \in S |-> pl2]
<1>3. /\ after = [c \in S |-> after[c]]
      /\ \A c \in S : after[c] \in [type : {t2}, opts : {o}, players : {shown[c]}]
  BY <1>2
<1>4. /\ \A c \in S : shown[c] \in [S -> PlayerInfos]
      /\ \A c \in S, q \in S : Shows(shown[c][q], pl2[q])
  BY DEF PlayersOf, Shows
<1> HIDE DEF shown
<1>5. ViewsOf(after, S, t2, o, pl2)
  BY <1>3, <1>4, ViewsTogether DEF ViewsOf
<1> QED
  BY <1>2, <1>5 DEF after

\* p may be new to the views of S.
LEMMA TellPlayerShows ==
  ASSUME NEW vs, NEW S, NEW t, NEW o, NEW pl, ViewsOf(vs, S, t, o, pl),
         NEW p, NEW seated, S \subseteq seated, p \in seated, seated \subseteq S \cup {p},
         NEW pl2, PlayersOf(pl2, seated),
         \A q \in S \ {p} : /\ pl2[q].team = pl[q].team /\ pl2[q].locked = pl[q].locked
                            /\ pl2[q].ready = pl[q].ready
                            /\ pl[q].nemesis \in {pl2[q].nemesis, None}
  PROVE  LET after == TellPlayer(vs, pl2, p) IN
         /\ after \in [S -> [type : {t}, opts : {o}, players : [seated -> PlayerInfos]]]
         /\ \A c \in S, q \in seated : Shows(after[c].players[q], pl2[q])
<1>0. seated = S \cup {p}
  OBVIOUS
<1> DEFINE after == TellPlayer(vs, pl2, p)
           shown == [c \in S |-> [q \in S \cup {p} |->
                                    IF q = p THEN pl2[p] ELSE vs[c].players[q]]]
<1>1. after = [c \in S |-> [vs[c] EXCEPT !.players = shown[c]]]
  BY DEF TellPlayer, ViewsOf
<1>2. \A c \in S : shown[c] \in [S \cup {p} -> PlayerInfos]
  BY <1>0 DEF ViewsOf, PlayersOf
<1>3. \A c \in S, q \in S \cup {p} : Shows(shown[c][q], pl2[q])
  BY <1>0 DEF ViewsOf, Shows
<1> HIDE DEF after, shown
<1>4. /\ after = [c \in S |-> after[c]]
      /\ \A c \in S : after[c] \in [type : {t}, opts : {o}, players : {shown[c]}]
  <2>1. \A c \in S : [vs[c] EXCEPT !.players = shown[c]]
                       \in [type : {t}, opts : {o}, players : {shown[c]}]
    <3> TAKE c \in S
    <3>1. vs[c] \in [type : {t}, opts : {o}, players : [S -> PlayerInfos]]
      BY ViewRecord
    <3> QED
      BY <3>1
  <2> QED
    BY <1>1, <2>1
<1>5. /\ \A c \in S : shown[c] \in [seated -> PlayerInfos]
      /\ \A c \in S, q \in seated : Shows(shown[c][q], pl2[q])
  BY <1>0, <1>2, <1>3
<1>6. /\ after \in [S -> [type : {t}, opts : {o}, players : [seated -> PlayerInfos]]]
      /\ \A c \in S, q \in seated : Shows(after[c].players[q], pl2[q])
  BY <1>4, <1>5, ViewsTogether
<1> QED
  BY <1>6 DEF after

LEMMA TellTeamAndNemesesShows ==
  ASSUME NEW vs, NEW S, NEW t, NEW o, NEW pl, ViewsOf(vs, S, t, o, pl), PlayersOf(pl, S),
         NEW p, NEW pl2, PlayersOf(pl2, S), NEW changed,
         \A q \in S : /\ q # p => pl2[q].team = pl[q].team
                      /\ pl2[q].locked = pl[q].locked /\ pl2[q].ready = pl[q].ready
                      /\ q \notin changed => pl2[q].nemesis = pl[q].nemesis
  PROVE  ViewsOf(TellTeamAndNemeses(vs, pl2, p, changed), S, t, o, pl2)
<1> DEFINE after == TellTeamAndNemeses(vs, pl2, p, changed)
           shown == [c \in S |-> [q \in S |->
                       Update(vs[c].players[q], pl2[q], q = p, q \in changed)]]
<1>1. after = [c \in S |-> [vs[c] EXCEPT !.players = shown[c]]]
  <2> DEFINE list(c) == [q \in DOMAIN vs[c].players |->
                           Update(vs[c].players[q], pl2[q], q = p, q \in changed)]
  <2>1. after = [c \in DOMAIN vs |-> [vs[c] EXCEPT !.players = list(c)]]
    BY DEF TellTeamAndNemeses
  <2>2. DOMAIN vs = S /\ \A c \in S : DOMAIN vs[c].players = S
    BY DEF ViewsOf
  <2>3. \A c \in S : list(c) = shown[c]
    BY <2>2
  <2> HIDE DEF list, shown, after
  <2> QED
    BY <2>1, <2>2, <2>3
<1>2. \A c \in S, q \in S :
        /\ shown[c][q] \in PlayerInfos
        /\ shown[c][q].team = IF q = p THEN pl2[p].team ELSE vs[c].players[q].team
        /\ shown[c][q].nemesis = IF q \in changed THEN pl2[q].nemesis
                                 ELSE vs[c].players[q].nemesis
        /\ shown[c][q].locked = vs[c].players[q].locked
        /\ shown[c][q].ready = vs[c].players[q].ready
  <2> TAKE c \in S, q \in S
  <2>1. vs[c].players[q] \in PlayerInfos /\ pl2[q] \in PlayerInfos
    BY DEF ViewsOf, PlayersOf
  <2> QED
    BY <2>1 DEF PlayerInfos, Update
<1>3. \A c \in S : shown[c] \in [S -> PlayerInfos]
  BY <1>2
<1>4. \A c \in S, q \in S : Shows(shown[c][q], pl2[q])
  <2> TAKE c \in S, q \in S
  <2>1. Shows(vs[c].players[q], pl[q])
    BY DEF ViewsOf
  <2> HIDE DEF shown
  <2> QED
    BY <1>2, <2>1 DEF Shows
<1> HIDE DEF after, shown
<1>5. /\ after = [c \in S |-> after[c]]
      /\ \A c \in S : after[c] \in [type : {t}, opts : {o}, players : {shown[c]}]
  <2>1. \A c \in S : [vs[c] EXCEPT !.players = shown[c]]
                       \in [type : {t}, opts : {o}, players : {shown[c]}]
    <3> TAKE c \in S
    <3>1. vs[c] \in [type : {t}, opts : {o}, players : [S -> PlayerInfos]]
      BY ViewRecord
    <3> QED
      BY <3>1
  <2> QED
    BY <1>1, <2>1
<1>6. ViewsOf(after, S, t, o, pl2)
  BY <1>3, <1>4, <1>5, ViewsTogether DEF ViewsOf
<1> QED
  BY <1>6 DEF after

LEMMA TellPlayerLeftShows ==
  ASSUME NEW vs, NEW S, NEW t, NEW o, NEW pl, ViewsOf(vs, S, t, o, pl),
         NEW rest, rest \subseteq S, NEW pl2, PlayersOf(pl2, rest),
         \A q \in rest : /\ pl2[q].team = pl[q].team
                         /\ pl2[q].locked = pl[q].locked /\ pl2[q].ready = pl[q].ready
  PROVE  ViewsOf(TellPlayerLeft([c \in rest |-> vs[c]], pl2), rest, t, o, pl2)
<1> DEFINE after == TellPlayerLeft([c \in rest |-> vs[c]], pl2)
           shown == [c \in rest |-> [q \in rest |->
                       [vs[c].players[q] EXCEPT !.nemesis = pl2[q].nemesis]]]
<1>1. after = [c \in rest |-> [vs[c] EXCEPT !.players = shown[c]]]
  BY DEF TellPlayerLeft, PlayersOf
<1>2. \A c \in rest, q \in rest :
        /\ shown[c][q] \in PlayerInfos
        /\ shown[c][q].team = vs[c].players[q].team
        /\ shown[c][q].nemesis = pl2[q].nemesis
        /\ shown[c][q].locked = vs[c].players[q].locked
        /\ shown[c][q].ready = vs[c].players[q].ready
  <2> TAKE c \in rest, q \in rest
  <2>1. vs[c].players[q] \in PlayerInfos /\ pl2[q] \in PlayerInfos
    BY DEF ViewsOf, PlayersOf
  <2> QED
    BY <2>1 DEF PlayerInfos
<1>3. \A c \in rest : shown[c] \in [rest -> PlayerInfos]
  BY <1>2
<1>4. \A c \in rest, q \in rest : Shows(shown[c][q], pl2[q])
  BY <1>2 DEF ViewsOf, Shows
<1> HIDE DEF after, shown
<1>5. /\ after = [c \in rest |-> after[c]]
      /\ \A c \in rest : after[c] \in [type : {t}, opts : {o}, players : {shown[c]}]
  <2>1. \A c \in rest : [vs[c] EXCEPT !.players = shown[c]]
                       \in [type : {t}, opts : {o}, players : {shown[c]}]
    <3> TAKE c \in rest
    <3>1. vs[c] \in [type : {t}, opts : {o}, players : [S -> PlayerInfos]]
      BY ViewRecord
    <3> QED
      BY <3>1
  <2> QED
    BY <1>1, <2>1
<1>6. ViewsOf(after, rest, t, o, pl2)
  BY <1>3, <1>4, <1>5, ViewsTogether DEF ViewsOf
<1> QED
  BY <1>6 DEF after

------------------------------------------------------------------------------
(* The inductive invariant *)

Lobby(t, o, pl, vs) ==
  /\ PlayersOf(pl, DOMAIN pl) /\ IsFiniteSet(DOMAIN pl)
  /\ o = [k \in OptionKeys |-> o[k]]
  /\ Fit(o, t, Cardinality(DOMAIN pl))
  /\ PlayersFit(pl, t) /\ NemesesFit(pl, t)
  /\ ViewsOf(vs, DOMAIN pl, t, o, pl)

IInv ==
  /\ Lobby(type, opts, players, views)
  /\ owner \in DOMAIN players /\ inGame \in BOOLEAN
  /\ ~inGame => Unpaired(players, type)
  /\ inGame => \A c \in DOMAIN players : views[c].players = players

LEMMA FreshPlayerFacts ==
  ASSUME NEW t
  PROVE  /\ FreshPlayer(t) \in PlayerInfos
         /\ t # "teams" => FreshPlayer(t).team = None
         /\ ~FreshPlayer(t).locked /\ ~FreshPlayer(t).ready /\ FreshPlayer(t).nemesis = None
  BY LimitsAssumption DEF FreshPlayer, PlayerInfos

LEMMA ResetPlayersFacts ==
  ASSUME NEW t, NEW pl, NEW S, PlayersOf(pl, S)
  PROVE  PlayersOf(ResetPlayers(t, pl), S) /\ PlayersFit(ResetPlayers(t, pl), t)
<1> DEFINE after == ResetPlayers(t, pl)
<1>1. after = [p \in S |-> [FreshPlayer(t) EXCEPT !.nemesis = pl[p].nemesis]]
  BY DEF ResetPlayers, PlayersOf
<1>2. \A p \in S : pl[p].nemesis \in Players \cup {None}
  BY DEF PlayersOf, PlayerInfos
<1>3. \A p \in S : /\ after[p] \in PlayerInfos
                   /\ after[p].locked = FALSE /\ after[p].ready = FALSE
                   /\ after[p].team = FreshPlayer(t).team
  BY <1>1, <1>2, FreshPlayerFacts DEF PlayerInfos
<1> HIDE DEF after
<1> QED
  BY <1>1, <1>3, FreshPlayerFacts DEF PlayersOf, PlayersFit, after

\* A refresh after a reset, and everybody told: what follows every change of the type.
LEMMA TypeChangeKeepsLobby ==
  ASSUME NEW t0, NEW o0, NEW pl, NEW vs, Lobby(t0, o0, pl, vs),
         NEW r, Frame(r, o0), NEW t, Fit(r.opts, t, Cardinality(DOMAIN pl)),
         NEW after \in Refreshed(t, ResetPlayers(t, pl), FALSE)
  PROVE  /\ DOMAIN after = DOMAIN pl /\ Unpaired(after, t)
         /\ Lobby(t, r.opts, after, TellTypeAndPlayers(TellOptions(vs, r), t, after))
<1> DEFINE S == DOMAIN pl
<1>1. PlayersOf(pl, S)
  BY DEF Lobby
<1>2. PlayersOf(ResetPlayers(t, pl), S) /\ PlayersFit(ResetPlayers(t, pl), t)
  BY <1>1, ResetPlayersFacts
<1>3. /\ PlayersOf(after, S)
      /\ \A p \in S : /\ after[p].team = ResetPlayers(t, pl)[p].team
                      /\ after[p].locked = ResetPlayers(t, pl)[p].locked
                      /\ after[p].ready = ResetPlayers(t, pl)[p].ready
      /\ NemesesFit(after, t)
  BY <1>2, RefreshedFacts
<1>8. Unpaired(after, t)
  BY <1>2, RefreshedUnpaired
<1>4. DOMAIN after = S /\ DOMAIN ResetPlayers(t, pl) = S
  BY <1>2, <1>3 DEF PlayersOf
<1>5. PlayersFit(after, t)
  BY <1>2, <1>3, <1>4 DEF PlayersFit
<1>6. ViewsOf(TellTypeAndPlayers(TellOptions(vs, r), t, after), S, t, r.opts, after)
  <2>1. ViewsOf(TellOptions(vs, r), S, t0, r.opts, pl)
    BY TellOptionsShows DEF Lobby
  <2> QED
    BY <1>3, <2>1, TellTypeAndPlayersShows
<1>7. r.opts = [k \in OptionKeys |-> r.opts[k]]
  BY DEF Frame
<1> QED
  BY <1>3, <1>4, <1>5, <1>6, <1>7, <1>8 DEF Lobby

LEMMA FitBounds ==
  ASSUME NEW o, NEW t, NEW count \in Nat, Fit(o, t, count)
  PROVE  /\ Sized(o, count) /\ WinnersFit(o) /\ CoopForced(o) /\ t \in Types
         /\ t = "1v1" => count <= 2
         /\ t # "1v1" => o["max_players"] >= MinGroup
  BY DEF Fit, Sized

LEMMA ChangeOptionsKeeps ==
  ASSUME IInv, NEW msg \in Messages, ChangeOptions(msg) PROVE IInv'
<1> DEFINE S == DOMAIN players
           r == ApplyLobbyOptions(opts, type, msg, Cardinality(S))
           next == GetLobbyTypeForGameMode(r.opts["gamemode"], type)
<1>1. /\ Lobby(type, opts, players, views) /\ PlayersOf(players, S)
      /\ Cardinality(S) \in Nat /\ Fit(opts, type, Cardinality(S))
      /\ opts = [k \in OptionKeys |-> opts[k]]
  BY FS_CardinalityType DEF IInv, Lobby
<1>2. Fit(r.opts, next, Cardinality(S))
  <2>1. IsMessage(msg)
    BY MessagesAssumption
  <2> QED
    BY <1>1, <2>1, FitBounds, ApplyLobbyOptionsFits
<1>3. Frame(r, opts)
  BY <1>1, ApplyLobbyOptionsFrame
<1>4. /\ ~inGame /\ inGame' = inGame /\ owner' = owner
      /\ opts' = r.opts /\ type' = next
      /\ IF next = type
         THEN players' = players /\ views' = TellOptions(views, r)
         ELSE /\ players' \in Refreshed(next, ResetPlayers(next, players), FALSE)
              /\ views' = TellTypeAndPlayers(TellOptions(views, r), next, players')
  BY DEF ChangeOptions, Seated
<1> HIDE DEF r, next
<1>5. /\ DOMAIN players' = S /\ Unpaired(players', type')
      /\ Lobby(type', opts', players', views')
  <2>0. Unpaired(players, type)
    BY <1>4 DEF IInv
  <2>1. CASE next = type
    <3>1. ViewsOf(views', S, type, r.opts, players)
      BY <1>1, <1>3, <1>4, <2>1, TellOptionsShows DEF Lobby
    <3>2. r.opts = [k \in OptionKeys |-> r.opts[k]]
      BY <1>3 DEF Frame
    <3> QED
      BY <1>1, <1>2, <1>4, <2>0, <2>1, <3>1, <3>2 DEF Lobby
  <2>2. CASE next # type
    <3>1. /\ players' \in Refreshed(next, ResetPlayers(next, players), FALSE)
          /\ views' = TellTypeAndPlayers(TellOptions(views, r), next, players')
      BY <1>4, <2>2
    <3>2. /\ DOMAIN players' = DOMAIN players /\ Unpaired(players', next)
          /\ Lobby(next, r.opts, players',
                   TellTypeAndPlayers(TellOptions(views, r), next, players'))
      BY <1>1, <1>2, <1>3, <3>1, TypeChangeKeepsLobby
    <3> QED
      BY <1>4, <3>1, <3>2
  <2> QED
    BY <2>1, <2>2
<1> QED
  BY <1>4, <1>5 DEF IInv

LEMMA SetLobbyTypeKeeps ==
  ASSUME IInv, NEW t \in Types, SetLobbyType(t) PROVE IInv'
<1> DEFINE S == DOMAIN players
           i == [opts |-> opts, told |-> {}]
           r == Put(i, GetLobbyTypeChangeOptionUpdates(type, t))
<1>1. /\ Lobby(type, opts, players, views) /\ PlayersOf(players, S)
      /\ Cardinality(S) \in Nat /\ Fit(opts, type, Cardinality(S))
      /\ opts = [k \in OptionKeys |-> opts[k]]
  BY FS_CardinalityType DEF IInv, Lobby
<1>2. /\ ~inGame /\ inGame' = inGame /\ owner' = owner
      /\ t # "coop" /\ type # "coop" /\ t # type
      /\ t = "1v1" => Cardinality(S) <= 2
      /\ opts' = r.opts /\ type' = t
      /\ players' \in Refreshed(t, ResetPlayers(t, players), FALSE)
      /\ views' = TellTypeAndPlayers(TellOptions(views, r), t, players')
  BY DEF SetLobbyType, Seated
<1>3. r = ApplyTypeChange(i, type, t)
  BY <1>2 DEF ApplyTypeChange
<1>4. i.opts = opts
  OBVIOUS
<1>5. Frame(i, opts)
  BY <1>1 DEF Frame
<1> HIDE DEF i, r
<1>6. Fit(r.opts, t, Cardinality(S))
  <2>1. /\ Sized(opts, Cardinality(S)) /\ WinnersFit(opts) /\ CoopForced(opts)
        /\ type \in Types
        /\ type = "1v1" => Cardinality(S) <= 2
        /\ type # "1v1" => opts["max_players"] >= MinGroup
    BY <1>1, FitBounds
  <2>2. t = "coop" <=> opts["gamemode"] = "coop"
    BY <1>1, <1>2 DEF Fit
  <2>3. /\ Sized(i.opts, Cardinality(S)) /\ WinnersFit(i.opts) /\ CoopForced(i.opts)
        /\ type # "1v1" => i.opts["max_players"] >= MinGroup
        /\ t = "coop" <=> i.opts["gamemode"] = "coop"
    BY <1>4, <2>1, <2>2
  <2>4. t # type => Fit(ApplyTypeChange(i, type, t).opts, t, Cardinality(S))
    BY <1>1, <1>2, <2>1, <2>3, TypeChangeFits
  <2> QED
    BY <1>2, <1>3, <2>4
<1>7. Frame(r, opts)
  BY <1>5, PutFrame DEF r
<1>8. /\ DOMAIN players' = S /\ Unpaired(players', type')
      /\ Lobby(type', opts', players', views')
  <2>1. /\ DOMAIN players' = DOMAIN players /\ Unpaired(players', t)
        /\ Lobby(t, r.opts, players',
                 TellTypeAndPlayers(TellOptions(views, r), t, players'))
    BY <1>1, <1>2, <1>6, <1>7, TypeChangeKeepsLobby
  <2> QED
    BY <1>2, <2>1
<1> QED
  BY <1>2, <1>8 DEF IInv

\* What a step that leaves the type and the options alone has to establish.
LEMMA PlayersStep ==
  ASSUME NEW t, NEW o, NEW pl, NEW vs, Lobby(t, o, pl, vs),
         NEW after, NEW told, PlayersOf(after, DOMAIN pl),
         PlayersFit(after, t), NemesesFit(after, t), ViewsOf(told, DOMAIN pl, t, o, after)
  PROVE  DOMAIN after = DOMAIN pl /\ Lobby(t, o, after, told)
<1>1. DOMAIN after = DOMAIN pl
  BY DEF PlayersOf
<1> QED
  BY <1>1 DEF Lobby

\* Locking and readiness do not touch teams, nor therefore nemeses.
LEMMA NemesesStay ==
  ASSUME NEW t, NEW pl, NemesesFit(pl, t), NEW after, DOMAIN after = DOMAIN pl,
         \A p \in DOMAIN pl : after[p].team = pl[p].team /\ after[p].nemesis = pl[p].nemesis
  PROVE  NemesesFit(after, t)
<1> SUFFICES ASSUME t # "duels", NEW p \in DOMAIN pl
             PROVE  LET C == Candidates(t, after, p) IN
                    IF C = {} THEN after[p].nemesis = None ELSE after[p].nemesis \in C
  BY DEF NemesesFit
<1>1. Candidates(t, after, p) = Candidates(t, pl, p)
  BY SameCandidates
<1> QED
  BY <1>1 DEF NemesesFit

LEMMA SetTeamKeeps ==
  ASSUME IInv, NEW by \in Seated, NEW p \in Seated, NEW team \in Teams, SetTeam(by, p, team)
  PROVE  IInv'
<1> DEFINE S == DOMAIN players
           moved == [players EXCEPT ![p].team = team]
           changed == {q \in S : players'[q].nemesis # players[q].nemesis}
<1>1. /\ Lobby(type, opts, players, views) /\ PlayersOf(players, S)
      /\ PlayersFit(players, type)
      /\ ViewsOf(views, S, type, opts, players)
  BY DEF IInv, Lobby
<1>2. /\ ~inGame /\ inGame' = inGame /\ owner' = owner /\ opts' = opts /\ type' = type
      /\ type = "teams"
      /\ players' \in Refreshed(type, moved, FALSE)
      /\ views' = TellTeamAndNemeses(views, players', p, changed)
  BY DEF SetTeam, Seated
<1>3. /\ PlayersOf(moved, S)
      /\ \A q \in S : /\ q # p => moved[q].team = players[q].team
                      /\ moved[q].locked = players[q].locked
                      /\ moved[q].ready = players[q].ready
  BY <1>1 DEF PlayersOf, PlayerInfos, Seated
<1> HIDE DEF moved
<1>4. /\ PlayersOf(players', S)
      /\ \A q \in S : /\ players'[q].team = moved[q].team
                      /\ players'[q].locked = moved[q].locked
                      /\ players'[q].ready = moved[q].ready
      /\ NemesesFit(players', type)
  <2>1. PlayersOf(moved, S)
    BY <1>3
  <2>2. players' \in Refreshed(type, moved, FALSE)
    BY <1>2
  <2> HIDE DEF S
  <2> QED
    BY <2>1, <2>2, RefreshedFacts
<1>5. PlayersFit(players', type)
  BY <1>1, <1>2, <1>3, <1>4 DEF PlayersFit, PlayersOf
<1>6. /\ \A q \in S : /\ q # p => players'[q].team = players[q].team
                      /\ players'[q].locked = players[q].locked
                      /\ players'[q].ready = players[q].ready
                      /\ q \notin changed => players'[q].nemesis = players[q].nemesis
  BY <1>3, <1>4
<1> HIDE DEF changed
<1>7. ViewsOf(TellTeamAndNemeses(views, players', p, changed), S, type, opts, players')
  BY <1>1, <1>4, <1>6, TellTeamAndNemesesShows
<1>8. DOMAIN players' = S /\ Lobby(type, opts, players', views')
  BY <1>1, <1>2, <1>4, <1>5, <1>7, PlayersStep
<1> QED
  BY <1>2, <1>8 DEF IInv, Unpaired

\* setTeamLock and readyLobby: one field of one player, told to everybody.
LEMMA OnePlayerKeeps ==
  ASSUME IInv, NEW p \in Seated, ~inGame, inGame' = inGame, owner' = owner,
         opts' = opts, type' = type,
         PlayersOf(players', DOMAIN players), PlayersFit(players', type),
         \A q \in DOMAIN players : /\ q # p => players'[q] = players[q]
                                   /\ players'[q].team = players[q].team
                                   /\ players'[q].nemesis = players[q].nemesis,
         views' = TellPlayer(views, players', p)
  PROVE  IInv'
<1> DEFINE S == DOMAIN players
           told == TellPlayer(views, players', p)
<1>1. /\ Lobby(type, opts, players, views)
      /\ ViewsOf(views, S, type, opts, players) /\ NemesesFit(players, type)
  BY DEF IInv, Lobby
<1>0. S \subseteq S /\ p \in S /\ S \subseteq S \cup {p}
  BY DEF Seated
<1>2. NemesesFit(players', type)
  BY <1>1, NemesesStay DEF PlayersOf
<1>3. /\ PlayersOf(players', S)
      /\ \A q \in S \ {p} : /\ players'[q].team = players[q].team
                            /\ players'[q].locked = players[q].locked
                            /\ players'[q].ready = players[q].ready
                            /\ players[q].nemesis \in {players'[q].nemesis, None}
  OBVIOUS
<1>4. /\ told \in [S -> [type : {type}, opts : {opts}, players : [S -> PlayerInfos]]]
      /\ \A c \in S, q \in S : Shows(told[c].players[q], players'[q])
  <2>1. ViewsOf(views, S, type, opts, players)
    BY <1>1
  <2> HIDE DEF S
  <2> QED
    BY <1>0, <1>3, <2>1, TellPlayerShows
<1> HIDE DEF told
<1>5. ViewsOf(told, S, type, opts, players')
  BY <1>4 DEF ViewsOf
<1>6. DOMAIN players' = S /\ Lobby(type, opts, players', told)
  BY <1>1, <1>2, <1>5, PlayersStep
<1>7. Unpaired(players', type)
  BY <1>6 DEF IInv, Unpaired
<1> QED
  BY <1>6, <1>7 DEF IInv, told

LEMMA SetTeamLockKeeps ==
  ASSUME IInv, NEW p \in Seated, NEW on \in BOOLEAN, SetTeamLock(p, on) PROVE IInv'
<1>1. /\ PlayersOf(players, DOMAIN players) /\ PlayersFit(players, type) /\ type = "teams"
  BY DEF IInv, Lobby, SetTeamLock
<1>2. /\ ~inGame /\ inGame' = inGame /\ owner' = owner /\ opts' = opts /\ type' = type
      /\ players' = [players EXCEPT ![p].locked = on]
      /\ views' = TellPlayer(views, players', p)
  BY DEF SetTeamLock
<1>3. /\ PlayersOf(players', DOMAIN players)
      /\ \A q \in DOMAIN players : /\ q # p => players'[q] = players[q]
                                   /\ players'[q].team = players[q].team
                                   /\ players'[q].nemesis = players[q].nemesis
                                   /\ players'[q].ready = players[q].ready
      /\ DOMAIN players' = DOMAIN players
  BY <1>1, <1>2 DEF PlayersOf, PlayerInfos, Seated
<1>4. PlayersFit(players', type)
  BY <1>1, <1>3 DEF PlayersFit
<1> QED
  BY <1>2, <1>3, <1>4, OnePlayerKeeps

LEMMA ReadyLobbyKeeps ==
  ASSUME IInv, NEW p \in Seated, NEW on \in BOOLEAN, ReadyLobby(p, on) PROVE IInv'
<1>1. /\ PlayersOf(players, DOMAIN players) /\ PlayersFit(players, type) /\ type = "1v1"
  BY DEF IInv, Lobby, ReadyLobby
<1>2. /\ ~inGame /\ inGame' = inGame /\ owner' = owner /\ opts' = opts /\ type' = type
      /\ players' = [players EXCEPT ![p].ready = on]
      /\ views' = TellPlayer(views, players', p)
  BY DEF ReadyLobby
<1>3. /\ PlayersOf(players', DOMAIN players)
      /\ \A q \in DOMAIN players : /\ q # p => players'[q] = players[q]
                                   /\ players'[q].team = players[q].team
                                   /\ players'[q].nemesis = players[q].nemesis
                                   /\ players'[q].locked = players[q].locked
      /\ DOMAIN players' = DOMAIN players
  BY <1>1, <1>2 DEF PlayersOf, PlayerInfos, Seated
<1>4. PlayersFit(players', type)
  BY <1>1, <1>3 DEF PlayersFit
<1> QED
  BY <1>2, <1>3, <1>4, OnePlayerKeeps

LEMMA MakePlayerHostKeeps ==
  ASSUME IInv, NEW p \in Seated, MakePlayerHost(p) PROVE IInv'
<1>1. /\ Lobby(type, opts, players, views) /\ PlayersOf(players, DOMAIN players)
      /\ ViewsOf(views, DOMAIN players, type, opts, players)
      /\ PlayersFit(players, type) /\ NemesesFit(players, type)
  BY DEF IInv, Lobby
<1>2. /\ ~inGame /\ inGame' = inGame /\ owner' = p /\ opts' = opts /\ type' = type
      /\ players' = players
      /\ views' = TellTypeAndPlayers(views, type, players)
  BY DEF MakePlayerHost
<1>3. ViewsOf(views', DOMAIN players, type, opts, players)
  BY <1>1, <1>2, TellTypeAndPlayersShows
<1>4. Lobby(type, opts, players, views')
  BY <1>1, <1>3, PlayersStep
<1> QED
  BY <1>2, <1>4 DEF IInv, Seated

LEMMA JoinLobbyKeeps ==
  ASSUME IInv, NEW p \in Players, JoinLobby(p) PROVE IInv'
<1> DEFINE S == DOMAIN players
           seated == S \cup {p}
           joined == [q \in seated |-> IF q = p THEN FreshPlayer(type) ELSE players[q]]
           told == TellPlayer(views, players', p)
           n == Cardinality(S)
<1>1. /\ Lobby(type, opts, players, views) /\ PlayersOf(players, S)
      /\ IsFiniteSet(S) /\ n \in Nat /\ Fit(opts, type, n)
      /\ PlayersFit(players, type) /\ ViewsOf(views, S, type, opts, players)
      /\ opts = [k \in OptionKeys |-> opts[k]]
  BY FS_CardinalityType DEF IInv, Lobby
<1>2. /\ ~inGame /\ inGame' = inGame /\ owner' = owner /\ opts' = opts /\ type' = type
      /\ p \notin S
      /\ n < GetLobbyMaxPlayers(type, opts, n)
      /\ players' \in Refreshed(type, joined, FALSE)
      /\ views' = [c \in seated |-> IF c = p THEN Snapshot(type, opts, players') ELSE told[c]]
  BY DEF JoinLobby, Seated
<1>3. /\ PlayersOf(joined, seated)
      /\ \A q \in S : joined[q] = players[q]
      /\ joined[p] = FreshPlayer(type)
  BY <1>1, <1>2, FreshPlayerFacts DEF PlayersOf
<1> HIDE DEF joined
<1>4. /\ PlayersOf(players', seated)
      /\ \A q \in seated : /\ players'[q].team = joined[q].team
                           /\ players'[q].locked = joined[q].locked
                           /\ players'[q].ready = joined[q].ready
      /\ NemesesFit(players', type)
  <2>1. players' \in Refreshed(type, joined, FALSE)
    BY <1>2
  <2> HIDE DEF seated
  <2> QED
    BY <1>3, <2>1, RefreshedFacts
<1>5. PlayersFit(players', type)
  <2>1. DOMAIN players' = seated
    BY <1>4 DEF PlayersOf
  <2>2. \A q \in seated : \/ q \in S /\ joined[q] = players[q]
                          \/ joined[q] = FreshPlayer(type)
    BY <1>3
  <2> QED
    BY <1>1, <1>4, <2>1, <2>2, FreshPlayerFacts DEF PlayersFit
\* the nemesis a player had stays valid when another joins
<1>6. \A q \in S : players[q].nemesis \in {players'[q].nemesis, None}
  <2>1. PICK a \in Assignments(type, joined, FALSE) : players' = WithNemeses(joined, a)
    BY <1>2 DEF Refreshed
  <2>2. DOMAIN joined = seated
    BY <1>3 DEF PlayersOf
  <2>3. \A q \in seated : players'[q].nemesis = a[q]
    BY <1>3, <2>1, <2>2 DEF WithNemeses, PlayersOf, PlayerInfos
  <2> SUFFICES ASSUME NEW q \in S, players[q].nemesis # None
               PROVE  players'[q].nemesis = players[q].nemesis
    OBVIOUS
  <2>4. CASE type = "duels"
    BY <1>2, <2>4 DEF IInv, Unpaired
  <2>5. CASE type # "duels"
    <3>1. players[q].nemesis \in Candidates(type, players, q)
      BY <1>1, <2>5 DEF NemesesFit, Lobby
    <3>2. players[q].nemesis \in Candidates(type, joined, q)
      BY <1>3, <2>2, <3>1 DEF Candidates, TeamOf
    <3>3. joined[q].nemesis = players[q].nemesis
      BY <1>3
    <3>4. a[q] = joined[q].nemesis
      BY <2>2, <2>5, <3>2, <3>3 DEF Assignments
    <3> QED
      BY <2>3, <3>3, <3>4
  <2> QED
    BY <2>4, <2>5
<1>7. /\ told \in [S -> [type : {type}, opts : {opts}, players : [seated -> PlayerInfos]]]
      /\ \A c \in S, q \in seated : Shows(told[c].players[q], players'[q])
  <2>1. ViewsOf(views, S, type, opts, players)
    BY <1>1
  <2>2. \A q \in S \ {p} : /\ players'[q].team = players[q].team
                           /\ players'[q].locked = players[q].locked
                           /\ players'[q].ready = players[q].ready
                           /\ players[q].nemesis \in {players'[q].nemesis, None}
    BY <1>3, <1>4, <1>6
  <2>3. S \subseteq seated /\ p \in seated /\ seated \subseteq S \cup {p}
    OBVIOUS
  <2> HIDE DEF S, seated
  <2> QED
    BY <1>4, <2>1, <2>2, <2>3, TellPlayerShows
<1>8. ViewsOf(views', seated, type, opts, players')
  <2>1. Snapshot(type, opts, players')
          \in [type : {type}, opts : {opts}, players : [seated -> PlayerInfos]]
    BY <1>4 DEF Snapshot, PlayersOf
  <2>2. \A q \in seated : Shows(Snapshot(type, opts, players').players[q], players'[q])
    BY DEF Snapshot, Shows
  <2> HIDE DEF told
  <2>3. \A c \in seated : c # p => c \in S
    OBVIOUS
  <2> HIDE DEF seated, S
  <2> QED
    BY <1>2, <1>7, <2>1, <2>2, <2>3 DEF ViewsOf
<1>9. /\ IsFiniteSet(seated) /\ Cardinality(seated) = n + 1
      /\ Cardinality(seated) <= opts["max_players"]
  <2>1. IsFiniteSet(seated) /\ Cardinality(seated) = n + 1
    BY <1>1, <1>2, FS_AddElement
  <2>2. n < opts["max_players"]
    BY <1>1, <1>2, LimitsAssumption
       DEF Fit, Sized, GetLobbyMaxPlayers, GetMinimumGroupMaxPlayers, Larger, Smaller
  <2> QED
    BY <1>1, <2>1, <2>2 DEF Fit, Sized
<1>10. Fit(opts, type, Cardinality(seated))
  BY <1>1, <1>9 DEF Fit, Sized
<1>11. DOMAIN players' = seated
  BY <1>4 DEF PlayersOf
<1>12. Unpaired(players', type)
  <2>1. players' \in Refreshed(type, joined, FALSE)
    BY <1>2
  <2> HIDE DEF seated
  <2> QED
    BY <1>3, <2>1, RefreshedUnpaired
<1>13. Lobby(type, opts, players', views')
  BY <1>1, <1>4, <1>5, <1>8, <1>9, <1>10, <1>11 DEF Lobby
<1> QED
  BY <1>2, <1>11, <1>12, <1>13 DEF IInv

LEMMA LeaveLobbyKeeps ==
  ASSUME IInv, NEW p \in Seated, LeaveLobby(p) PROVE IInv'
<1> DEFINE S == DOMAIN players
           rest == S \ {p}
           left == [q \in rest |-> players[q]]
           n == Cardinality(S)
<1>1. /\ Lobby(type, opts, players, views) /\ PlayersOf(players, S)
      /\ IsFiniteSet(S) /\ n \in Nat /\ Fit(opts, type, n)
      /\ PlayersFit(players, type) /\ ViewsOf(views, S, type, opts, players)
      /\ opts = [k \in OptionKeys |-> opts[k]]
  BY FS_CardinalityType DEF IInv, Lobby
<1>2. /\ ~inGame /\ inGame' = inGame /\ opts' = opts /\ type' = type
      /\ owner' \in rest \/ (owner' = owner /\ p # owner)
      /\ players' \in Refreshed(type, left, FALSE)
      /\ views' = TellPlayerLeft([c \in rest |-> views[c]], players')
  BY DEF LeaveLobby, Seated
<1>3. owner' \in rest
  BY <1>2 DEF IInv
<1>4. PlayersOf(left, rest) /\ \A q \in rest : left[q] = players[q]
  BY <1>1 DEF PlayersOf
<1>5. rest \subseteq S
  OBVIOUS
<1> HIDE DEF left
<1>6. /\ PlayersOf(players', rest)
      /\ \A q \in rest : /\ players'[q].team = left[q].team
                         /\ players'[q].locked = left[q].locked
                         /\ players'[q].ready = left[q].ready
      /\ NemesesFit(players', type)
  <2>1. players' \in Refreshed(type, left, FALSE)
    BY <1>2
  <2> HIDE DEF rest
  <2> QED
    BY <1>4, <2>1, RefreshedFacts
<1>12. Unpaired(players', type)
  <2>1. players' \in Refreshed(type, left, FALSE)
    BY <1>2
  <2> HIDE DEF rest
  <2> QED
    BY <1>4, <2>1, RefreshedUnpaired
<1>7. /\ DOMAIN players' = rest
      /\ PlayersFit(players', type)
  BY <1>1, <1>4, <1>5, <1>6 DEF PlayersFit, PlayersOf
<1>8. ViewsOf(views', rest, type, opts, players')
  <2>1. ViewsOf(views, S, type, opts, players)
    BY <1>1
  <2>2. \A q \in rest : /\ players'[q].team = players[q].team
                        /\ players'[q].locked = players[q].locked
                        /\ players'[q].ready = players[q].ready
    BY <1>4, <1>6
  <2> HIDE DEF S, rest
  <2> QED
    BY <1>2, <1>5, <1>6, <2>1, <2>2, TellPlayerLeftShows
<1>9. IsFiniteSet(rest) /\ Cardinality(rest) \in Nat /\ Cardinality(rest) <= n
  BY <1>1, <1>5, FS_Subset, FS_CardinalityType
<1>10. Fit(opts, type, Cardinality(rest))
  BY <1>1, <1>9 DEF Fit, Sized
<1>11. Lobby(type, opts, players', views')
  BY <1>1, <1>6, <1>7, <1>8, <1>9, <1>10 DEF Lobby
<1> QED
  BY <1>2, <1>3, <1>7, <1>11, <1>12 DEF IInv

LEMMA StartGameKeeps ==
  ASSUME IInv, StartGame PROVE IInv'
<1> DEFINE S == DOMAIN players
           unready == [p \in S |-> [players[p] EXCEPT
                         !.ready = players[p].ready /\ ~(type = "1v1" /\ p # owner)]]
<1>1. /\ Lobby(type, opts, players, views) /\ PlayersOf(players, S)
      /\ PlayersFit(players, type) /\ ViewsOf(views, S, type, opts, players)
  BY DEF IInv, Lobby
<1>2. /\ inGame' = TRUE /\ opts' = opts /\ type' = type /\ owner' = owner
      /\ players' \in Refreshed(type, unready, TRUE)
      /\ views' = TellTypeAndPlayers(views, type, players')
  BY DEF StartGame, Seated
<1>3. /\ PlayersOf(unready, S)
      /\ \A p \in S : /\ unready[p].team = players[p].team
                      /\ unready[p].locked = players[p].locked
                      /\ ~players[p].ready => ~unready[p].ready
  <2>1. \A p \in S : players[p].ready \in BOOLEAN /\ players[p] \in PlayerInfos
    BY <1>1 DEF PlayersOf, PlayerInfos
  <2>2. \A p \in S : (players[p].ready /\ ~(type = "1v1" /\ p # owner)) \in BOOLEAN
    OBVIOUS
  <2> QED
    BY <1>1, <2>1, <2>2 DEF PlayersOf, PlayerInfos
<1> HIDE DEF unready
<1>4. /\ PlayersOf(players', S)
      /\ \A p \in S : /\ players'[p].team = unready[p].team
                      /\ players'[p].locked = unready[p].locked
                      /\ players'[p].ready = unready[p].ready
      /\ NemesesFit(players', type)
  <2>1. players' \in Refreshed(type, unready, TRUE)
    BY <1>2
  <2> HIDE DEF S
  <2> QED
    BY <1>3, <2>1, RefreshedFacts
<1>5. PlayersFit(players', type) /\ DOMAIN players' = S
  BY <1>1, <1>3, <1>4 DEF PlayersFit, PlayersOf
<1>6. /\ ViewsOf(TellTypeAndPlayers(views, type, players'), S, type, opts, players')
      /\ \A c \in S : TellTypeAndPlayers(views, type, players')[c].players = players'
  <2>1. ViewsOf(views, S, type, opts, players)
    BY <1>1
  <2> HIDE DEF S
  <2> QED
    BY <1>4, <2>1, TellTypeAndPlayersShows
<1>7. Lobby(type, opts, players', views')
  BY <1>1, <1>2, <1>4, <1>5, <1>6, PlayersStep
<1> QED
  BY <1>2, <1>5, <1>6, <1>7 DEF IInv

LEMMA DefaultsFit ==
  ASSUME NEW mode \in Modes, NEW t \in Types
  PROVE  LET o == GetDefaultLobbyOptions(mode, t) IN
         /\ Sized(o, 1) /\ WinnersFit(o)
         /\ t # "1v1" => o["max_players"] >= MinGroup
<1> DEFINE o == GetDefaultLobbyOptions(mode, t)
<1>1. /\ DOMAIN o = OptionKeys
      /\ o["gamemode"] = mode
      /\ o["max_players"] = IF t = "1v1" THEN 2 ELSE DefaultMax
      /\ o["pvp_custom_winners"] = IF t = "1v1" THEN 1 ELSE DefaultWinners(DefaultMax)
  BY DEF GetDefaultLobbyOptions, OptionKeys
<1> HIDE DEF o
<1>2. /\ WinnerLimit(2) = 1 /\ WinnerLimit(DefaultMax) = DefaultMax - 1
      /\ DefaultWinners(DefaultMax) \in 1..WinnerLimit(DefaultMax)
  BY WinnerLimitFacts, LimitsAssumption
<1>3. Sized(o, 1)
  BY <1>1, LimitsAssumption DEF Sized
<1>4. WinnersFit(o)
  BY <1>1, <1>2 DEF WinnersFit
<1> QED
  BY <1>1, <1>3, <1>4, LimitsAssumption DEF o

LEMMA InitIInv == Init => IInv
<1> SUFFICES ASSUME Init PROVE IInv
  OBVIOUS
<1>1. PICK h \in Players, mode \in Modes, requested \in Types,
           msg \in Messages \cup {Nothing} :
        /\ mode # "coop" => requested # "coop"
        /\ LET t == GetLobbyTypeForGameMode(mode, requested)
               full == [k \in DOMAIN msg \cup CreateDefaults(mode, msg) |->
                          IF k \in DOMAIN msg THEN msg[k] ELSE 1]
               r == ApplyLobbyOptions(GetDefaultLobbyOptions(mode, t), t, full, 1) IN
           /\ type = GetLobbyTypeForGameMode(r.opts.gamemode, t)
           /\ opts = r.opts
           /\ players = [p \in {h} |-> FreshPlayer(type)]
           /\ views = [c \in {h} |-> Snapshot(type, opts, players)]
        /\ owner = h
        /\ inGame = FALSE
  BY DEF Init
<1> DEFINE t == GetLobbyTypeForGameMode(mode, requested)
           full == [k \in DOMAIN msg \cup CreateDefaults(mode, msg) |->
                      IF k \in DOMAIN msg THEN msg[k] ELSE 1]
           o == GetDefaultLobbyOptions(mode, t)
           r == ApplyLobbyOptions(o, t, full, 1)
<1>2. t \in Types
  BY GameModeType
<1>3. IsMessage(full)
  <2>1. IsMessage(msg)
    BY MessagesAssumption DEF Nothing, IsMessage
  <2>2. CreateDefaults(mode, msg) \subseteq {"starting_lives"}
    BY DEF CreateDefaults
  <2>3. DOMAIN full = DOMAIN msg \cup CreateDefaults(mode, msg)
    OBVIOUS
  <2>4. \A k \in {"gamemode", "max_players", "pvp_custom_winners"} :
          k \in DOMAIN full => k \in DOMAIN msg /\ full[k] = msg[k]
    BY <2>2
  <2> HIDE DEF full
  <2> QED
    BY <2>1, <2>2, <2>3, <2>4 DEF IsMessage, OptionKeys
<1> HIDE DEF t, full
<1>4. /\ Sized(o, 1) /\ WinnersFit(o)
      /\ t # "1v1" => o["max_players"] >= MinGroup
  BY <1>2, DefaultsFit
<1>5. o = [k \in OptionKeys |-> o[k]]
  BY DEF GetDefaultLobbyOptions, OptionKeys
<1> HIDE DEF o
<1>6. /\ type = GetLobbyTypeForGameMode(r.opts["gamemode"], t) /\ opts = r.opts
      /\ players = [p \in {h} |-> FreshPlayer(type)]
      /\ views = [c \in {h} |-> Snapshot(type, opts, players)]
      /\ owner = h /\ inGame = FALSE
  BY <1>1 DEF t, full, o
<1>7. Fit(opts, type, 1)
  BY <1>2, <1>3, <1>4, <1>6, ApplyLobbyOptionsFits
<1>8. opts = [k \in OptionKeys |-> opts[k]]
  <2>1. Frame(r, o)
    BY <1>5, ApplyLobbyOptionsFrame
  <2> QED
    BY <1>6, <2>1 DEF Frame
<1> HIDE DEF r
<1>9. /\ DOMAIN players = {h} /\ players[h] = FreshPlayer(type)
      /\ PlayersOf(players, DOMAIN players)
  BY <1>6, FreshPlayerFacts DEF PlayersOf
<1>10. IsFiniteSet({h}) /\ Cardinality({h}) = 1
  BY FS_Singleton
<1>11. PlayersFit(players, type) /\ Unpaired(players, type)
  BY <1>9, FreshPlayerFacts DEF PlayersFit, Unpaired
<1>12. NemesesFit(players, type)
  <2>1. Candidates(type, players, h) = {}
    BY <1>9 DEF Candidates
  <2> QED
    BY <1>9, <2>1, FreshPlayerFacts DEF NemesesFit
<1>13. ViewsOf(views, DOMAIN players, type, opts, players)
  <2>1. Snapshot(type, opts, players)
          \in [type : {type}, opts : {opts}, players : [DOMAIN players -> PlayerInfos]]
    BY <1>9 DEF Snapshot, PlayersOf
  <2>2. Shows(Snapshot(type, opts, players).players[h], players[h])
    BY DEF Snapshot, Shows
  <2>3. views = [c \in DOMAIN players |-> Snapshot(type, opts, players)]
    BY <1>6, <1>9
  <2> QED
    BY <1>9, <2>1, <2>2, <2>3 DEF ViewsOf
<1> QED
  BY <1>6, <1>7, <1>8, <1>9, <1>10, <1>11, <1>12, <1>13 DEF IInv, Lobby

LEMMA NextIInv == IInv /\ [Next]_vars => IInv'
<1> SUFFICES ASSUME IInv, [Next]_vars PROVE IInv'
  OBVIOUS
<1>1. CASE \E msg \in Messages : ChangeOptions(msg)
  BY <1>1, ChangeOptionsKeeps
<1>2. CASE \E t \in Types : SetLobbyType(t)
  BY <1>2, SetLobbyTypeKeeps
<1>3. CASE \E by, p \in Seated, team \in Teams : SetTeam(by, p, team)
  BY <1>3, SetTeamKeeps
<1>4. CASE \E p \in Seated, on \in BOOLEAN : SetTeamLock(p, on) \/ ReadyLobby(p, on)
  BY <1>4, SetTeamLockKeeps, ReadyLobbyKeeps
<1>5. CASE \E p \in Players : JoinLobby(p)
  BY <1>5, JoinLobbyKeeps
<1>6. CASE \E p \in Seated : LeaveLobby(p) \/ MakePlayerHost(p)
  BY <1>6, LeaveLobbyKeeps, MakePlayerHostKeeps
<1>7. CASE StartGame
  BY <1>7, StartGameKeeps
<1>8. CASE UNCHANGED vars
  BY <1>8 DEF vars, IInv
<1> QED
  BY <1>1, <1>2, <1>3, <1>4, <1>5, <1>6, <1>7, <1>8 DEF Next

------------------------------------------------------------------------------
(* What follows from it *)

LEMMA IInvImplies ==
  IInv => TypeOK /\ NumbersFit /\ OptionsFitType /\ ViewsAgree /\ NemesesAreOpponents
<1> SUFFICES ASSUME IInv
             PROVE  TypeOK /\ NumbersFit /\ OptionsFitType /\ ViewsAgree /\ NemesesAreOpponents
  OBVIOUS
<1> DEFINE S == DOMAIN players
<1>1. /\ PlayersOf(players, S) /\ IsFiniteSet(S) /\ Cardinality(S) \in Nat
      /\ Fit(opts, type, Cardinality(S)) /\ PlayersFit(players, type)
      /\ NemesesFit(players, type) /\ ViewsOf(views, S, type, opts, players)
      /\ owner \in S /\ inGame \in BOOLEAN
      /\ inGame => \A c \in S : views[c].players = players
  BY FS_CardinalityType DEF IInv, Lobby
<1>2. TypeOK
  <2>1. players \in UNION {[R -> PlayerInfos] : R \in SUBSET Players}
    BY <1>1 DEF PlayersOf
  <2> QED
    BY <1>1, <2>1 DEF TypeOK, Seated, Fit, Sized, ViewsOf
<1>3. NumbersFit
  BY <1>1 DEF NumbersFit, Seated, Fit, Sized, WinnersFit
<1>4. OptionsFitType
  BY <1>1 DEF OptionsFitType, Seated, Fit, CoopForced, PlayersFit
<1>5. ViewsAgree
  <2> SUFFICES ASSUME NEW c \in S
               PROVE  /\ views[c].type = type
                      /\ views[c].opts = opts
                      /\ DOMAIN views[c].players = S
                      /\ \A p \in S :
                           /\ views[c].players[p].nemesis \in {players[p].nemesis, None}
                           /\ [views[c].players[p] EXCEPT !.nemesis = None]
                                = [players[p] EXCEPT !.nemesis = None]
    BY DEF ViewsAgree, Seated
  <2>1. views[c].type = type /\ views[c].opts = opts /\ views[c].players \in [S -> PlayerInfos]
    BY <1>1 DEF ViewsOf
  <2>2. \A p \in S : Shows(views[c].players[p], players[p]) /\ players[p] \in PlayerInfos
    BY <1>1 DEF ViewsOf, PlayersOf
  <2>3. ASSUME NEW p \in S
        PROVE  [views[c].players[p] EXCEPT !.nemesis = None]
                 = [players[p] EXCEPT !.nemesis = None]
    BY <2>1, <2>2 DEF Shows, PlayerInfos
  <2> QED
    BY <2>1, <2>2, <2>3 DEF Shows
<1>6. NemesesAreOpponents
  BY <1>1 DEF NemesesAreOpponents, NemesesFit, Seated
<1> QED
  BY <1>2, <1>3, <1>4, <1>5, <1>6

\* Every variable keeps its type, the host is seated and every client has a view.
THEOREM TypeCorrect == Spec => []TypeOK
<1> QED
  BY InitIInv, NextIInv, IInvImplies, PTL DEF Spec

\* The numbers of a lobby fit each other, for every capacity, message and player.
THEOREM NumbersAlwaysFit == Spec => []NumbersFit
<1> QED
  BY InitIInv, NextIInv, IInvImplies, PTL DEF Spec

\* Mode, type, and what they fix never come apart.
THEOREM OptionsAlwaysFitType == Spec => []OptionsFitType
<1> QED
  BY InitIInv, NextIInv, IInvImplies, PTL DEF Spec

\* The partial messages keep every client's view in step with the server.
THEOREM ViewsAlwaysAgree == Spec => []ViewsAgree
<1> QED
  BY InitIInv, NextIInv, IInvImplies, PTL DEF Spec

\* Every player's nemesis is an opponent, and known to all when the match starts.
THEOREM NemesesAlwaysOpponents == Spec => []NemesesAreOpponents
<1> QED
  BY InitIInv, NextIInv, IInvImplies, PTL DEF Spec
=============================================================================
