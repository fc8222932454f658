# TLA+ models of the Balatro multiplayer server

The server (`src/src/*.ts`, Node, one process, no database) keeps lobbies and matches in memory and
relays messages between game clients over TCP. It does not simulate the game. What can go wrong in it
is therefore what this project is about: handlers of several sockets, timers and reconnects that
meet in an order nobody tried.

Contents: [system](#the-system) · [modules](#modules) · [runs](#runs) · [fairness](#fairness) ·
[proofs](#proofs) · [findings](#findings) · [not modelled](#not-modelled) · [plan](#plan)

## The system

Node runs one handler to its end before the next. A model therefore makes a **handler one action**
on the server's memory, including every helper it calls, and lets the handlers of all sockets, the
timer callbacks and the peers interleave.

| Component (sources under `src/src/`) | State | Operations | What must hold |
| --- | --- | --- | --- |
| Lobby membership, hosts, reconnection (`Lobby.ts`, `lobbyEntryHandlers.ts`, `lobbyDeparture.ts`, `lobbyReconnect/`, `lobbyRegistry.ts`, `lobbyModerationHandlers.ts`) | per client: id, token, lobby, owner and match flags; per lobby: `players`, `disconnectedSlots` with saved state and grace timer, `ownerId`, `isInGame`, code; the registry of codes | create, join, leave, kick, promote, start, return to lobby, disconnect, rejoin, grace timer | one place per player, no ghosts, timers and slots agree, one host, code registered while populated |
| Connections (`socket/socketConnection.ts`, `socketDispatch.ts`, `socketKeepAlive.ts`, `socketSend.ts`) | unread input, timers and retries, `paused`, queue, drain listeners | data, end, error, keep-alive, retry, send, drain, tear down | both directions keep their order, and a message arrives whole unless a chunk ends inside one of its characters; silence ends a connection when it should; the lobby is left once |
| Solo match (`blindReadyHandlers.ts`, `blindFlowHandlers.ts`, `roundFailureHandlers.ts`, `matchGameOver.ts`, `matchResolution.ts`, `blindOutcome.ts`) | readiness, active blind, score, hands, lives, lives blocker, first-ready mark, furthest blind | start, ready/unready, play hand, fail round, timeouts, depart, reconnect | participants stay in step, what can be resolved is, one life per round, losers were beaten, match has two living participants or ends |
| Duels (`lobbyDuelState.ts`, `lobbyDuelCoordinator.ts`) | pairings, byes, bye targets and results | deal a round, settle a bye | byes go round |
| Score rules and numbers (`blindScoring.ts`, `blindWinnerSelection.ts`, `InsaneInt.ts`) | none | winners by rule, early decisions | a winner always exists and is the one of exact arithmetic; early results stand |
| Ante timer (`lobbyAnteTimer.ts`, `matchAnteTimerHandlers.ts`) | running flag, time left, controller, expiry callback, forgiveness | start, pause, reset, expire | somebody present can always pause it; it ends unless its callback comes early |
| Team and co-op blinds (`teamBlindFlowHandlers.ts`, `teamBlindSkipHandlers.ts`, `lobbyTeamState.ts`, `lobbyPlayerState/lives.ts`) | team lives, life blockers, known targets, resolved blinds | team ready/skip, hand, failure, PvP, rejoin into a resolved blind | a team is in one blind and pays one life until it starts a blind or reports a new round |
| Team cards, hand levels, money (`teamCardSyncHandlers.ts`, `teamMoneyHandlers.ts`, `sharedSyncGroups.ts`) | books with tombstones, reported money | report, transfer, replay | removed cards stay gone, followers converge, money agrees |
| Co-op saves (`coopSaveHandlers.ts`) | votes by lobby code, restores by save id; the files are with the clients | vote, withdraw, commit, resume, join, start restored run | a vote belongs to its run, a restored run is fully manned |
| Shared boss (`coopBossBlindHandlers.ts`, `lobbyTeamState.ts`) | boss and revision by ante, pending reroll, lock | reroll start, result, first report | followers agree, the boss stays while it is fought |
| Options, types, nemeses and views (`lobbyOptions.ts`, `lobbyOptionUpdates.ts`, `lobbyTypeHandlers.ts`, `lobbyTypeState.ts`, `lobbyNemesis.ts`, `lobbyBroadcasts.ts`, `lobbySnapshots/`) | options, type, teams, opponents; what each client shows | option messages, type changes, teams, join, leave | numbers fit, options fit the type, partial messages add up, nemeses are opponents |
| End-game snapshots (`endGame/`) | last deck, jokers and summary of each player | request, answer, show to all | what is shown gets newer, requests are answered |
| Relays, protocol tables, session data, admin, monitor, start-up | none of their own, or write-only | forward, validate, record | – |

**Interactions.** `socketConnection` feeds lines to the dispatcher, which calls one handler;
handlers call each other directly (a rejoin first leaves the old lobby, a departure reconciles the
match, a match that is reconciled may start or resolve a blind) and send through `socketSend`.
Three kinds of callback re-enter this memory: socket events and keep-alive timers, the grace timer of a
slot and the expiry of the ante timer.

**Hard behaviours.** State that outlives its owner (slots, grace timers, saved match state, votes,
pending rerolls, listeners, cached snapshots); decisions over "the connected players" while others are
reserved; the same event reported by several parties (a timeout by the server and by clients, a failed
blind by each member); partial messages that must add up; ids and codes carried by several sockets one
after the other. `PROJECT.json` lists the hazards with their lines and the properties that watch them.

## Modules

| Module | Models | Correspondence |
| --- | --- | --- |
| `LobbyMembership` | seats, slots, hosts, registry | `srv` holds the fields of `Client`, `Lobby` and the registry; `link` is the state of each socket. One operator per function (`SetOwner`, `ReserveSlot`, `OwnerAssigned`, `RestoreDisconnectedLobbyClient`, ...), composed by one action per handler. Functions with a choice yield sets of memories |
| `LobbyOptions` | a lobby before its match | `opts`, `type`, `players`, `owner` are the server's, `views` what each client has been told. The functions of `applyLobbyOptions` act on a record of the options and of the keys the message will carry (`told`) |
| `OrderedChannel` | abstract: what one direction of a connection promises | numbered messages, sent, received in order, possibly cut off |
| `SocketSend` | `writeSocketMessage` | `out` is `SocketBackpressureState` with the stream below it. `KeepsOrder` is `OrderedChannel` under a refinement mapping |
| `Connection` | one socket: `socketConnection`, keep-alive, dispatch | EXTENDS `SocketSend` and drives it: handlers answer and the keep-alive writes through `Write`. Both directions are refined to `OrderedChannel`. Each chunk is decoded on its own: `text` is the size of each message as decoded, `cut` the characters that chunks ended inside |
| `InsaneInt`, `ScoreRules` | arithmetic and rules as operators | each operator is one function; `Reference` is the definition they are compared with |
| `SoloMatch` | match of a 1v1, ffa or duels lobby with the ante timer | EXTENDS `ScoreRules`. `g` is the lobby's and its players' memory, handlers map `g` to `g'`; `lobby` is the setup the match is played under. The expiry callback may fire at any time while it is armed; `lapsed` records that it fired with time left |
| `TeamBlind` | match of a teams or co-op lobby | as in `SoloMatch`, EXTENDS `ScoreRules`; `lobby` is the type and options of the lobby, its score rule and the locked teams. An expiring timer charges team after team, and each charge may settle a blind: `ExpireAnteTimer` takes one of the outcomes of charging them in some order |
| `SharedSync` | cards, hand levels, money of one lobby | books, reported money and both directions of every connection; each game is an external process with its copy |
| `CoopSave` | save vote and restored lobbies | the two maps of `coopSaveHandlers.ts`, the lobby fields they read and the files of the clients |
| `CoopBossBlind` | the boss of one ante | the server's maps, the messages on their way to each player (`inbox`) and what each game knows (`view`) |
| `EndGameSnapshots` | `requestRouting.ts` and what calls it | the cache, both directions of every connection, what each game shows |
| `LobbyMembershipProofs`, `LobbyOptionsProofs`, `ConnectionProofs`, `SoloMatchProofs`, `TeamBlindProofs`, `SharedSyncProofs`, `CoopSaveProofs`, `BossAndSnapshotProofs` | – | theorems about the module they EXTEND; the last one instantiates `EndGameSnapshots` beside it |
| `MC...` | – | model values, symmetry sets and the setups the configurations use |

`LobbyMembership` keeps of a match only who takes part; the other modules keep of membership only
whether a player is at the table, reserved or gone. What they assume of each other is checked on
either side: a player is in one place (`OnePlacePerPlayer`) and slots end (`ReservationsEnd`). That messages
travel in order, or are lost with the connection, is what `Connection` shows and what `SharedSync`,
`CoopBossBlind` and `EndGameSnapshots` take for granted.

Operators marked `fault:` are the bugs the properties have been tried against (`PROJECT.json`,
`mutants`); no behaviour of the models uses them. `TypeOK` documents the shape of each module's state and
is proved where there are proofs.

### What the models assume

- *Peers.* With `Disciplined = TRUE` a game leaves a lobby before it enters another, and reports of a match
  only what its own game is in. `SoloMatch` announces PvP blinds only, as games do in those lobbies.
  In `CoopSave` any seated player may act for the host. In `CoopBossBlind` a game rolls only a boss it
  knows, reports the result before it does anything else, and waits for a reroll it has heard of until
  the lock has timed out. In `SharedSync` a game applies what it is sent in order, brings no card back
  that it removed, reports its money after each change of it, and a player who returns takes in what the
  server replays before it plays on. In `EndGameSnapshots` a game answers with its state of the moment.
- *Names and ids.* UUIDs and tokens are unique, so an id is the socket it was issued to.
  `CodeReuse = FALSE`: a removed lobby's code is not drawn again (26^5 codes).
- *Numbers.* Scores stay below the first tower of `InsaneInt` and are exact: the rounding of JavaScript
  floats and of the logarithms of the geometric rule is not modelled. Money is counted from what a run starts with.
- *Choice.* The stable hashes that rank nemeses and duel pairs are free choices among the candidates.
- *Time.* `Connection` counts ticks of the keep-alive retry timeout, `SoloMatch` ticks of the ante clock.
  Data that arrives at the instant a timer is due may come before or after it. Node's clock is not the wall clock, which the code compares its callbacks with:
  in `SoloMatch` the expiry callback may come while the wall clock shows time left, and in `TeamBlind`, which has no
  clock, whenever the timer can be running.
- *Text.* Messages are lengths. `Wide` says where the characters of several bytes lie in the peer's stream; what
  `data.toString()` makes of one that is cut is counted in bytes of the text (`Decoded`).
- *Types.* `LobbyOptions` has no `showdown` mode: it differs from `attrition` in no option modelled.

## Runs

| Run | Bounds | Shows |
| --- | --- | --- |
| `membership_1v1` | 4 sockets, 2 lobbies, 2 codes | one place per player, one host, a code for every populated lobby. Four sockets are the least with two full lobbies, or a full lobby plus a newcomer plus a second socket of an absent player; two lobbies let a rejoin leave one for another |
| `membership_ffa` | 3 sockets, one ffa lobby of 3, fair | heirs are chosen among several players, some players are eliminated while others go on; an absent host keeps the role, reservations end, the host comes back |
| `connection` | 3 messages from the peer (kept alive, routed, invalid) of lengths 3, 2 and 8, the first a character of two bytes; limit of 6 for messages and incomplete input, at most 7 writes, stream of 2, queue of 2, deadline of an initial timeout of 2 and three retries; fair | both directions implement the channel, with liveness; the keep-alive is timely; nothing happens after the disconnect. The first message arrives whole or with its character cut; spoilt, it has 6 bytes of text and just meets the limit, which the third message and its pieces exceed; seven writes fill stream and queue and reach the cap after a drain |
| `solo_group` | ffa of 3 with timer under `highest` (2 lives) and `average` (forgiveness), survival of 3 (progress 0..1), duels of 4 over 2 rounds; one hand, scores 0..1; rules over all tables of 3 scores 0..4 and 4 scores 0..2 | the safety of a match, of the timer's controller, of byes and of the rules. Three players are the least for which a match outlives an elimination; with four, duels have two pairs, and a pair and a bye once one is gone. `Base` 2 and `Limit` 8 let sums and means change form |
| `solo_1v1` | 2 players, 2 lives, speedlatro, fair callback | the paths only 1v1 has (PvP timer, reported timeouts), and that a running timer ends unless its callback came early |
| `solo_rematch` | 3 players, two matches | *violated*: `OnlyCastPlays` |
| `teams` | 3 players: two against one under `highest` with timer and speedlatro, with 2 lives, or 1 and a connection that may be lost; three teams of one, 1 life and no timer, under `custom` with 2 winners (one connection may be lost) and `geometric`; one co-op lobby (one connection may be lost); scores 0..1, for `geometric` 0..2 | blinds of teams. A team of two has a member who can be ahead, behind or away. `custom` and `geometric` differ from `highest` in who loses and in what is decided early (`custom`: nothing), and three teams let a match outlive an elimination. Two lives let a team be charged twice. Departures are open to all. A game in no blind repeats its last report of a hand, as each blind starts with new scores and hands |
| `options` | 3 players, 2 teams, sizes 2..4, messages with one option or a dependent pair, values below, within and above their bounds | options, views and nemeses under every type and change of it. Three players let a type change meet a lobby that is too full |
| `shared` | 3 players (two of a team), one card, one hand, two values, 4 events | convergence across drops, returns, transfers and a second run. Events are what players and the lobby start; what follows from them is unbounded |
| `coop_save` | 3 players, 2 lobbies, 2 saves, 2 files each | votes and restores over run, resume, and run again |
| `boss` | 3 players, one may lose its connection; 2 bosses, 3 revisions, senders with at most one unread message | a first report, a reroll and a second reroll that overtakes it, crossed with announcements |
| `endgame` | 2 players: one asks twice, the other answers, offers once and plays on once; decks and summaries; 3 moves of the lobby; fair | cached, fresh and broadcast answers cross each other and departures. Two requests are the least that can be answered in the wrong order |

Every passing run is exhaustive within its bounds. `CHECK_DEADLOCK FALSE` is set because the systems
may come to rest: peers need not send anything, and the bounds (messages, matches, revisions, sockets
that are used up) end every behaviour. Symmetry is used in runs without liveness only.

Properties worth knowing of beyond their comments:

- `OneLifePerRound`, `TeamPaysOnce`: four places charge lives, `livesBlocker` (or the team's
  blocker) is the only thing between them. The properties say who may lift it: the start of a blind and a reported
  `newRound`, for a team that of any of its members.
- `IncomingInOrder` is the refinement of `OrderedChannel` with `WholeUnlessCut` and `SpoiltIfCut`: a message is
  handled as it was posted exactly if no chunk ended inside one of its characters.
- `TimerStops` excepts a timer whose callback came while the wall clock still showed time: the server leaves it
  started without a callback (see Findings).
- `NoOverdueBlind`, `NoOverduePvpBlind`: whoever removes the last obstacle (hand, departure, end of a
  slot, return) must resolve the blind, because no message would follow.
- `FollowersKnowBoss`, `FollowersAgree`, `ViewsAgree`: there is no periodic synchronisation, so who reads
  everything must end up with the server's state through the sequence of events alone.
- `BossStaysDuringBlind` leaves out rerolls of players whose connection has been lost: the reroll stays
  pending, and if the returned game rolls on although its new request was turned away, its result
  replaces the boss of a running blind (`handleBossResult` does not ask `isBossBlindActive`).
- `RulesAgree` excepts one case: a mean or a median whose sum outgrows the plain form may be out of everybody's reach
  (see Findings), and then the best scores win. `Tables` and `Added` bound what `RulesAgree` and `EarlyResultsStand` try.
- `NobodyEntersAMatch` (`LobbyMembership`) is proved and in no run. It is no contradiction to `OnlyCastPlays`: the slot of an old
  match that is still marked as taking part belongs to `Cast` when the next match starts.
- `RemovedCardsStayGone`, `FollowersAgree`, `QuietMoneyAgrees` except what was reported from the game of an
  earlier run (`stray`, `strayMoney`): the server cannot tell such reports from those of the new one.

## Fairness

Liveness is checked only where the code, Node or TCP schedules the step:

- `LobbyMembership!FairSpec`: a lost peer is noticed in the end (the keep-alives of
  `socketKeepAlive.ts` and of TCP), and the grace timer armed by `disconnectLobbyClient` fires unless
  it is cleared. Nothing is assumed of what players send.
- `Connection!ConnFairness`: Node runs the callbacks it owes (`data`, `end`, `error`, `drain`) and the
  kernel carries what is under way. The peer owes nothing: it may never send, end or
  read, time may stand still, and the connection may break at any time.
- `SoloMatch!FairSpec`: Node runs the expiry callback of a timer that stays set. Nothing is assumed of the wall
  clock: it may stand still, and it may show time left when the callback runs.
- `EndGameSnapshots!Fairness`: connections deliver, the server handles and the games answer.

## Proofs

The theorems are checked by `tlapm` (SMT, Zenon and LS4 only). They hold for every value of the constants
that the named assumptions of the modules admit: any set of sockets, players, teams, lobbies, codes, cards
or saves, any number of lives, hands, rounds, messages and retries. Where code counts, the set is finite.

| Module | Invariant | Properties of the runs that follow |
| --- | --- | --- |
| `LobbyMembershipProofs` | `PlacesInv`, `HostsInv` | `OnePlacePerPlayer`, `OneHost`, `RegisteredWhilePopulated`, `AbsentHostKeepsRole`; `NobodyEntersAMatch` |
| `ConnectionProofs` | `IInv`, `ConnInv` | `KeepsOrder` (refinement), `GoneIsQuiet`, `KeepAliveIsTimely`, of `IncomingInOrder` the order and `WholeUnlessCut` |
| `SoloMatchProofs` | `SoundInv`, `OrderlyInv` | `MatchNeedsTwo`, `OneLifePerRound`, `ByesRotate`; `BlindsInStep`, `NoOverdueBlind`, `TimerInGoodHands`, `OnlyBeatenPlayersLose`; of the rules alone `RulesAgree`, `EarlyResultsStand` |
| `TeamBlindProofs` | `TeamInv` | `TeamInOneBlind`, `PvpTogether`, `MatchNeedsTwoTeams`, `NoOverduePvpBlind`, `TeamPaysOnce`, `WonBlindCostsNothing` |
| `SharedSyncProofs` | `SyncInv` | `RemovedCardsStayGone`, `FollowersAgree`, `QuietMoneyAgrees` |
| `CoopSaveProofs` | `VotesInv` | `VotesFollowTheRun`, `RestoredRunsAreManned` |
| `BossAndSnapshotProofs` | `BossInv`, `SnapInv` | `FollowersKnowBoss`, `BossStaysDuringBlind`; `SnapshotsGetNewer` |
| `LobbyOptionsProofs` | `IInv` | `NumbersFit`, `OptionsFitType`, `ViewsAgree`, `NemesesAreOpponents` |

Each proof has the same layout: what the helpers of the code change, one lemma each; one theorem or lemma per
handler; a step theorem with one case per action; the properties as consequences. The invariants state what
holds between two handlers. Handlers pass through states that break them, so that the lemmas of the helpers
work with weaker or relative forms (`Kept`, `AllKept`, `Orderly` without `NotOverdue`, ...).

**`LobbyMembershipProofs`.** `TypeCorrect` holds for undisciplined peers too. No place property is inductive alone. A
rejoin gives an id to a new socket, so that a seat is safe only if no other live socket carries its id, a slot only if
its owner has no live socket, and a timer only if the socket in its closure still carries the id of the slot. `PlacesInv`
is the conjunction of the type invariant with `SeatsHeld`, `SlotsHeld` and `LiveHolders`, which say exactly this.
`SeatsCorrect`, `OnePlaceCorrect`, `ConnectedCorrect` and `TimersCorrect` are its consequences. `Disciplined` is needed
in entering only: for peers that enter a second lobby without leaving the first, `SeatsHeld` is false of the code (see
Findings).

`HostsInv` adds for every lobby that the flags of clients and slots, `ownerId`, code and registry fit
together (`LobbyInOrder`): of the seated and reserved the one that `ownerId` names has the flag, a populated lobby has
such a one, a registered lobby is populated, and a populated one is registered while codes are not drawn again. `OneHostCorrect`, `RegisteredCorrect` and `AbsentHostCorrect` follow. A handler
that takes somebody out of a lobby keeps only `Kept` until it has chosen an heir or removed the lobby, and a rejoin does so
for two lobbies at once. Only `RegisteredCorrect` needs `~CodeReuse`: the timer of a lobby that is gone removes its code
once more, and a lobby that has drawn the same code in between would lose its registration.

`NobodyEntersAMatchCorrect` is about `Members` and `Cast` of a lobby while its match goes on. A handler is split into steps
that only end participation (`Quieter`), steps that also take places away (`Narrower`), and the one that fills a
place: a rejoin gives the place and the part in the match back that it has just taken from a slot or from a superseded
socket, and may leave another lobby on the way (`RestoreNarrows`). A lobby in a match has a code (`RunsHaveCodes`), so that
creating a lobby cannot hit it.

**`ConnectionProofs`.** The invariant of the write side says that what the peer has, what the stream holds and what is
queued are in this order the numbers from 1 to `sent` as long as the socket is open (`InLine`), that a queue waits only
while `paused` (`WaitsPaused`), and that a closed state belongs to a destroyed stream. `Pump`, the loop that a drain runs,
is one lemma about a choice of how much is written. `Implements == Spec => KeepsOrder` is the refinement of `OrderedChannel`, and
`ConnectionSendsInOrder` carries it over to the connection, whose steps are steps or stutters of the write side.
`ConnInv` adds that the messages handled, those of the chunk in hand and the bytes of the incomplete one are what the peer
has sent up to what has arrived (`IncomingInLine`), that nothing is left to do on a connection that is gone (`GivenUp`),
and that the timers know how long the peer has been silent (`TimersKnow`). `IncomingIsOrdered` and `OutgoingIsOrdered` are the refinements of the
channel's safety in both directions, for every list of messages and every way to cut it. The former adds `WholeUnlessCut`:
`Decoding` says that of a message of which no chunk has cut a character so far, what has been decoded is as large as what has
arrived. `WideAssumption` says what the code relies on of UTF-8: a character has at most four bytes and lies within one message.

**`SoloMatchProofs`.** `SoundInv` holds whatever peers report. It contains two living participants in every
game that goes on and waits for nobody, and byes spread evenly over the players who were dealt every round, the last of them
to one with the most: this makes the next bye go to somebody else. `OneLifeCorrect` and `ByesRotateCorrect` are
about steps from it. `OrderlyInv` is about peers that report what their own game is in (`Disciplined`). It says that
participants, reserved ones included, are in one blind and the timer then stands (`OneBlind`), that readiness
and a running timer belong to players between blinds (`ReadyWait`, `InGoodHands`), and that no blind is overdue.
The argument for `NotOverdue`: a departure or the end of a slot goes through `reconcileActiveMatchState`, which re-establishes it
from any state; every other step changes the lives of somebody only between blinds, or resolves the blind
itself. `OnlyBeatenPlayersLoseCorrect` adds what a recorded bye result means (`ByeKnown`: a bye that was not won has not beaten
its target), and rests on lemmas about the rules: `LosersAreBeaten` and `SomebodyWins` say for any number of entries and scores of any
size that mean, median and cutoff in whatever form `InsaneInt` leaves them are thresholds, and that the highest score meets them.

The rules themselves are compared with exact arithmetic. `WinnersAreExact` takes any finite set of entries, plain scores of any
size and any number of winners. Sum and product are folds over a finite set, equal to the exact ones by the smallest
set for which they would not be; the comparison of a score with a quotient is that of the products as long as
the sum keeps its plain form (`BeatsExactly`); a median and a cutoff are found by counting who is below and who
is above. Beyond that form a mean can only become unreachable, and the best scores win. `EarlyResultsHold` needs no
exception: the entry with hands left is alone at the top, nobody else comes over a target that only grows (`NobodyCatchesUp`),
and if the entry itself misses a target that changed form, it still has the best score. `RulesAgreeCorrect` and `EarlyResultsStandCorrect` are these facts for the tables of the run.

**`TeamBlindProofs`.** One member speaks for its team (the code reads the first seated member), so the members must
be in the same blind. They are not as the memory stands: a reserved member stays in a blind that its team has
resolved. `TeamInv` says it of `BlindOf`, the blind with its end counted (`TeamsTogether`), that nobody at the table
is in a blind that has ended (`NotStale`), that a PvP blind is everybody's and unresolved (`AllInPvp`), that
players are ready between blinds only, and that a match or a PvP blind that should have ended has, under
every score rule. `TeamPaysOnceCorrect` is about steps: of all handlers only a blind start and `newRound` lift a
team's blocker, and no other charges a team that has it.

**`SharedSyncProofs`.** `SyncInv` follows the mail: the copy a game will have when it has read all its mail agrees with the
book for every key it has not written itself, and what it will tell when it has applied its mail is what the server will know of its money.
The three properties are the cases with nothing under way. The replay to a returning player is a lemma about a sequence
that lists a finite book in any order.

**`CoopSaveProofs`.** `VotesInv`: seats are in registered lobbies, one for each client, and every vote (`VoteInOrder`) is
that of a registered lobby in a match, asks for players who are seated or reserved only, has the snapshot of somebody
and lacks that of somebody. `RestoredRunsCorrect` is a consequence for the steps that take a pending restore away.

**`BossAndSnapshotProofs`.** `BossInv`: the last message on the way to a reliable player that names a boss names the server's
(`Informed`), and the reliable source of a pending reroll still rolls, has not announced the blind, and so the blind has
not started (`SourceRolls`).
`SnapInv`: the snapshots of one player and one kind form a line. What somebody shows is not newer than what is in
the mail to them, the mail is in order, nothing in it is newer than what the server keeps, that is not newer than what
is under way to the server, and all of it is the player's own and not newer than the player's state. A cache that is
cleared, a broadcast and a return cut pieces out of the line and never change its order.

**`LobbyOptionsProofs`.** The bounds satisfy `2 <= MinGroup <= DefaultMax <= MaxGroup`. `IInv` adds to the properties what the induction needs: every client's view in step with the
lobby, a seated host, that nobody is paired by a duel round before a match begins, and that during a match every client sees
the very players the server has. The proof goes through `applyLobbyOptions` in the order of the code: received values, derived
winner counts, game mode, lobby type; each lemma says what its function establishes whatever came before.

Facts about finite sets and numbers that need induction (a set of numbers has a greatest element, what a fold over a finite
set yields) are proved by a smallest counterexample (`WFMin` over a set of counterexamples), as the provers do not
instantiate the library's induction rules.

**What stays with TLC:**

- Liveness (`ReservationsEnd`, `HostReturns`, `OutgoingArrives`, the fairness half of `IncomingInOrder`, `TimerStops`,
  `RequestsAreAnswered`): fairness and `ENABLED` are out of reach of the provers.
- `SpoiltIfCut`, the converse of `WholeUnlessCut`.
- `OnlyCastPlays`: refuted (see Findings).

Every other property of the runs follows from a theorem.

## Findings

Shown by a run:

1. **A participant of an old match enters the next** (`solo_rematch`). Neither the end of a match nor the
   start of one touches the saved state of reserved slots. `lobbyEntryHandlers.ts:43`: "The match has
   already started."

Met while modelling and kept out of the properties, which are worded so that they hold:

*Membership*
- `lobbyEntryHandlers.ts:53`: `joinLobbyClient` counts connected players and `rejoinLobbyClient` checks no
  capacity. A match ends with a slot outstanding, a third player joins a 1v1 lobby, the owner of the slot returns
  (`lobbyTypeHandlers.ts:59`: "1v1 lobbies support 2 players max.").
- `lobbyDeparture.ts:55`: the last connected player's departure unregisters a lobby in which a slot is
  still reserved; its owner cannot rejoin, and its timer later removes the code once more.
- `lobbyEntryHandlers.ts:120`: a client that creates or joins a lobby while it sits in another stays in
  the players of the first, also after its socket is gone.

*Connections*
- `socketConnection.ts:150`: `dataBuffer += data.toString()` decodes every chunk on its own. A character that the
  network cuts becomes U+FFFD marks, and the message reaches its handler spoilt, without an error; the marks take three bytes each,
  so that it also counts for more against the limits.
- `socketSend.ts:109`: every refused write registers one more `once('drain')`, though `socketSend.ts:106` says
  "Using once() so we don't pile up listeners". `socketSend.ts:117`: a later listener of the same drain finds
  an empty queue and clears `paused` although the stream has just been filled. Order is kept all the same.
- `socketKeepAlive.ts:28`: after the last retry the server only half-closes. The player keeps its seat until the
  peer ends its side, an error comes, or the next write fails.
- `socketConnection.ts:155`: an incomplete remainder that is too long closes the connection before the complete
  messages of the same chunk are handled.

*Matches*
- `lobbyDeparture.ts:110`: when the last player who is not ready leaves, no blind starts for those who are;
  only the end of a slot calls `tryStartPendingBlindIfReady`. That in turn looks at the first ready
  player's team only (`blindReadyHandlers.ts:194`).
- `blindReadyHandlers.ts:243`, `roundFailureHandlers.ts:36`: announcements and failures ask `isInMatch` but not `isInGame`.
- `roundFailureHandlers.ts:281`: a failed round ends a match while the opponent's slot is reserved.
- `roundFailureHandlers.ts:209`: teams that run out of time together are charged in turn; the second may be
  told it won before it loses its last life.
- `matchResolution.ts:49`: when the last member with hands left departs, the team blind of the others
  ends only with another message from them; and a departure does not evaluate `resolveSurvivalGameOver`.
- `savedState.ts:64`, `matchGameOver.ts:251`: a returning member of a team has its old lives, and takes part
  although its team was eliminated.
- `lobbyAnteTimer.ts:50`, `roundFailureHandlers.ts:178`: an expiry callback that finds time left is ignored and not
  scheduled again. The timer stays started without a callback until a player reports the timeout, pauses or leaves.
- `matchStateHandlers.ts:88`: `newRound` of any member lifts the blocker of its whole team, so that a team can lose a
  second life before its next blind.
- Duels: a bye player that fails an ordinary round gets `byeResult` "lost" and its readiness is then ignored
  (`blindReadyHandlers.ts:243`), so that the PvP blind waits; pairs are not dealt anew after departures; a player who
  was away while a round was dealt is in no pairing; the expiring ante timer charges a bye player who is ready.

*Scores*
- `InsaneInt.ts:53`: `greaterThan` compares exponents first, but `isBalanced` accepts one number in two forms.
  Under the rule `average` nobody beats the mean of 7M, 6M and 1M, as 1.4e7 / 3 keeps its exponent.
  `balance` never ends for a coefficient below one with exponent 1. `add` balances its operands in place.
- `matchGameOver.ts:104`: a negative `furthestBlind` makes "ahead" cyclic.

*Options*
- A change from co-op to survival that sends lives leaves `disable_live_and_timer_hud` on; survival to attrition keeps one life.
- The nemesis that a join assigns to others is told with the next broadcast, at the latest when the match starts.

*Shared state*
- `teamCardSyncHandlers.ts:94`: peers are told in the order the server takes reports, the author is not. Two players who
  write the same card or hand at once may keep different values; only followers converge.
- A report of an earlier run that arrives after `startGame` enters the new run's book.
- `teamMoneyHandlers.ts:133`: a transfer trusts the money in the message; a `syncMoney` sent before a credit
  arrived overwrites it on the server, and the credit is lost if the connection is.
- `rejoin.ts:120`: a returning player is told nothing of the shared boss.
- `gameFlowHandlers.ts:61`: an answer of the last match that arrives after the cache was cleared is served as the player's
  snapshot. The claimed `sourcePlayerId` is ignored in favour of the sender.

*Saves*
- `coopSaveHandlers.ts:477`: entering a restored lobby by code asks only whether the save names the player, so that a second
  connection of a seated player enters a lobby that resuming would refuse (`coopSaveHandlers.ts:372`: "This saved co-op run
  already has that player.").
- `coopSaveHandlers.ts:425`: an older file of a save seats a player whom the version being restored does not
  name. `coopSaveHandlers.ts:251`: a run is saved without a participant who is on a reserved slot.

## Not modelled

- Relays (`relayHandlers.ts`), session data, protocol tables and validators, action types, administration, monitor and
  start-up: no state of their own that a property could relate, or write-only.
- `InsaneInt` above the first tower and its parsing; floating-point rounding.
- Blind previews, locations, the speedrun reward, skips' time bonus, the aggregation of several reported targets, timer
  forgiveness of teams, survival of teams.
- Independent options, the locks of restored lobbies, option changes during a match (they are refused), views of a running match.
- The `livesBlocker` of a player of its own in teams and co-op lobbies: a blocker of teams is in `TeamBlind`.
- Sharing switched off by options, jokers and consumables that are relayed only.
- Several antes of the shared boss, metadata and restored scores and lives of saves.

## Plan

1. `SeatLifecycle`, an abstract specification of a player's place (outside, seated, reserved), refined by
   `LobbyMembership`; the match modules' `place` is an instance of it.
2. `CoopBossBlind` and `SharedSync` over one set of connections, with the replay to returning members.
3. `TeamBlind` with several reported targets and forgiveness; restored lives in `CoopSave`.
