--------------------------- MODULE LobbyMembership ---------------------------
(***************************************************************************)
(* Seats, reserved slots, hosts and the lobby registry of the server.      *)
(*                                                                         *)
(* Node runs one handler at a time, so every handler is one action on the  *)
(* server's memory srv.  What interleaves are the handlers: messages and   *)
(* disconnects of several sockets, and the timers that end a reservation.  *)
(* Handlers call each other, so the model composes them from operators     *)
(* that map a memory to a memory, or to the set of memories a call may     *)
(* leave behind.                                                           *)
(*                                                                         *)
(* Lobbies are 1v1 or ffa in an attrition match; the outcome of a blind is *)
(* reduced to the set of players it takes out of the match.                *)
(***************************************************************************)
EXTENDS Naturals, FiniteSets

CONSTANTS
  Conns,        \* sockets that may connect; each names the id it is born with
  Lobbies,      \* Lobby objects the server may allocate
  Codes,        \* codes the generator may draw
  NoConn, NoLobby, NoCode, NoSlot,
  HeadToHead,   \* TRUE: 1v1 lobbies, FALSE: ffa lobbies
  GroupMax,     \* the max_players option of an ffa lobby
  Disciplined,  \* TRUE: peers leave a lobby before they enter another one
  CodeReuse     \* TRUE: a removed lobby's code may be drawn again

ASSUME ConstantsAssumption ==
  /\ NoConn \notin Conns
  /\ NoLobby \notin Lobbies
  /\ NoCode \notin Codes
  /\ NoSlot \notin [conn : Conns, isOwner : BOOLEAN, isInMatch : BOOLEAN]
  /\ HeadToHead \in BOOLEAN /\ Disciplined \in BOOLEAN /\ CodeReuse \in BOOLEAN
  /\ GroupMax \in Nat \ {0, 1}

VARIABLES
  link,   \* link[c]: "up", "lost" (peer gone, server unaware) or "down"
  srv     \* the server's memory

vars == <<link, srv>>

Ids == Conns
SavedState == [conn : Conns, isOwner : BOOLEAN, isInMatch : BOOLEAN]

ServerMemory ==
  [ \* Client fields; id and reconnectToken only ever move together
    ident     : [Conns -> Ids],
    lobbyOf   : [Conns -> Lobbies \cup {NoLobby}],
    isOwner   : [Conns -> BOOLEAN],
    isInMatch : [Conns -> BOOLEAN],
    \* Lobby fields: players, disconnectedSlots, ownerId, isInGame, code
    seat      : [Lobbies -> [Ids -> Conns \cup {NoConn}]],
    slot      : [Lobbies -> [Ids -> SavedState \cup {NoSlot}]],
    ownerId   : [Lobbies -> Ids \cup {NoConn}],
    inGame    : [Lobbies -> BOOLEAN],
    code      : [Lobbies -> Codes \cup {NoCode}],
    \* the armed grace timer whose closure holds this client, by lobby
    timer     : [Conns -> Lobbies \cup {NoLobby}],
    \* the Lobbies map of lobbyRegistry
    registry  : [Codes -> Lobbies \cup {NoLobby}] ]

TypeOK ==
  /\ link \in [Conns -> {"up", "lost", "down"}]
  /\ srv \in ServerMemory

Init ==
  /\ link = [c \in Conns |-> "up"]
  /\ srv = [ident     |-> [c \in Conns |-> c],
            lobbyOf   |-> [c \in Conns |-> NoLobby],
            isOwner   |-> [c \in Conns |-> FALSE],
            isInMatch |-> [c \in Conns |-> FALSE],
            seat      |-> [l \in Lobbies |-> [i \in Ids |-> NoConn]],
            slot      |-> [l \in Lobbies |-> [i \in Ids |-> NoSlot]],
            ownerId   |-> [l \in Lobbies |-> NoConn],
            inGame    |-> [l \in Lobbies |-> FALSE],
            code      |-> [l \in Lobbies |-> NoCode],
            timer     |-> [c \in Conns |-> NoLobby],
            registry  |-> [k \in Codes |-> NoLobby]]

------------------------------------------------------------------------------
(* Queries on a memory s *)

Seated(s, l) == {i \in Ids : s.seat[l][i] # NoConn}
Reserved(s, l) == {i \in Ids : s.slot[l][i] # NoSlot}
Players(s, l) == {s.seat[l][i] : i \in Seated(s, l)}
ActivePlayers(s, l) == {c \in Players(s, l) : s.isInMatch[c]}
Registered(s, l) == \E k \in Codes : s.registry[k] = l
AtMostOne(S) == \A x, y \in S : x = y

HasDisconnectedMatchBlocker(s, l) ==
  \E i \in Reserved(s, l) : s.slot[l][i].isInMatch

LobbyMaxPlayers == IF HeadToHead THEN 2 ELSE GroupMax

StartBlocked(s, l) ==
  \/ s.inGame[l]
  \/ HeadToHead /\ Cardinality(Seated(s, l)) # 2
  \/ AtMostOne(Seated(s, l))

------------------------------------------------------------------------------
(* Steps the handlers are composed of *)

AddPlayer(s, l, c) ==
  [s EXCEPT !.seat[l][s.ident[c]] = c, !.lobbyOf[c] = l]

RemovePlayer(s, l, i) == [s EXCEPT !.seat[l][i] = NoConn]

SetOwner(s, l, i) ==
  IF s.seat[l][i] = NoConn THEN s
  ELSE [s EXCEPT
          !.ownerId[l] = i,
          !.isOwner = [c \in Conns |->
            IF c \in Players(s, l) THEN s.ident[c] = i ELSE s.isOwner[c]]]

ClearParticipation(s, D) ==
  [s EXCEPT !.isInMatch = [c \in Conns |-> c \notin D /\ s.isInMatch[c]]]

ClearMembership(s, c) ==
  [s EXCEPT !.lobbyOf[c] = NoLobby, !.isOwner[c] = FALSE, !.isInMatch[c] = FALSE]

AttachFreshClient(s, l, c, host) ==
  AddPlayer([s EXCEPT !.isOwner[c] = host, !.isInMatch[c] = FALSE], l, c)

ReleaseTimerOnly(s, l, i) ==  \* fault: the slot stays behind
  IF s.slot[l][i] = NoSlot THEN s
  ELSE [s EXCEPT !.timer[s.slot[l][i].conn] = NoLobby]

\* clearTimeout(slot.timer) and deleteDisconnectedSlot
ReleaseSlot(s, l, i) ==
  IF s.slot[l][i] = NoSlot THEN s
  ELSE [s EXCEPT !.slot[l][i] = NoSlot, !.timer[s.slot[l][i].conn] = NoLobby]

RemoveLobbyByCode(s, k) == [s EXCEPT !.registry[k] = NoLobby]

FinishMatch(s, l, D) == [ClearParticipation(s, D) EXCEPT !.inGame[l] = FALSE]

\* D: the active players without lives left
ResolveSoloEliminations(s, l, D) ==
  IF AtMostOne(ActivePlayers(s, l) \ D)
  THEN FinishMatch(s, l, ActivePlayers(s, l))
  ELSE ClearParticipation(s, D)

\* D is empty unless the running blind is resolved now
ReconcileActiveMatchState(s, l, D) ==
  IF ~s.inGame[l] \/ HasDisconnectedMatchBlocker(s, l) THEN s
  ELSE ResolveSoloEliminations(s, l, D)

Reconciled(s, l) ==
  {ReconcileActiveMatchState(s, l, D) : D \in SUBSET ActivePlayers(s, l)}

OwnerKept(s, l, departed) == {s}  \* fault: nobody inherits

OwnerReplaced(s, l, departed) ==  \* fault: any departure changes the host
  {SetOwner(s, l, i) : i \in Seated(s, l)}

\* the heir is the first of the players map, whose order is left open here
OwnerAssigned(s, l, departed) ==
  IF departed = s.ownerId[l] THEN {SetOwner(s, l, i) : i \in Seated(s, l)} ELSE {s}

FinalizeDeparture(s, l, i, wasInMatch) ==
  IF Seated(s, l) = {} THEN {RemoveLobbyByCode(s, s.code[l])}
  ELSE IF wasInMatch THEN UNION {Reconciled(t, l) : t \in OwnerAssigned(s, l, i)}
  ELSE OwnerAssigned(s, l, i)

LeaveLobbyClient(s, l, c) ==
  LET i == s.ident[c]
      left == ClearMembership(RemovePlayer(ReleaseSlot(s, l, i), l, i), c)
  IN  FinalizeDeparture(left, l, i, s.isInMatch[c])

KickLobbyPlayer(s, l, i) ==
  IF s.seat[l][i] # NoConn THEN LeaveLobbyClient(s, l, s.seat[l][i])
  ELSE IF s.slot[l][i] = NoSlot THEN {s}
  ELSE FinalizeDeparture(ReleaseSlot(s, l, i), l, i, s.slot[l][i].isInMatch)

ReserveWithoutTimer(s, l, c) ==  \* fault: no grace timer is armed
  LET i == s.ident[c]
      saved == [conn |-> c, isOwner |-> s.isOwner[c], isInMatch |-> s.isInMatch[c]]
  IN  [RemovePlayer(s, l, i) EXCEPT !.slot[l][i] = saved, !.lobbyOf[c] = NoLobby]

ReserveSlot(s, l, c) ==
  LET i == s.ident[c]
      saved == [conn |-> c, isOwner |-> s.isOwner[c], isInMatch |-> s.isInMatch[c]]
  IN  [RemovePlayer(s, l, i) EXCEPT
         !.slot[l][i] = saved, !.timer[c] = l, !.lobbyOf[c] = NoLobby]

DisconnectLastPlayer(s, l, c) ==  \* fault: the last player is reserved too
  IF s.seat[l][s.ident[c]] = NoConn THEN {s}
  ELSE IF ~s.inGame[l] THEN LeaveLobbyClient(s, l, c)
  ELSE {ReserveSlot(s, l, c)}

DisconnectLobbyClient(s, l, c) ==
  IF s.seat[l][s.ident[c]] = NoConn THEN {s}
  ELSE IF ~s.inGame[l] \/ AtMostOne(Seated(s, l)) THEN LeaveLobbyClient(s, l, c)
  ELSE {ReserveSlot(s, l, c)}

RestoreSavedGameState(s, l, c, i, saved) ==
  LET restored == [s EXCEPT !.ident[c] = i, !.isOwner[c] = saved.isOwner,
                            !.isInMatch[c] = saved.isInMatch]
      added == AddPlayer(restored, l, c)
  IN  IF saved.isOwner THEN SetOwner(added, l, i) ELSE added

\* s: the memory once the old holder of id i is detached from l
RestoreDisconnectedLobbyClient(s, l, c, i, saved) ==
  LET elsewhere == s.lobbyOf[c] \notin {NoLobby, l}
      departed == IF elsewhere THEN LeaveLobbyClient(s, s.lobbyOf[c], c) ELSE {s}
  IN  UNION {Reconciled(RestoreSavedGameState(t, l, c, i, saved), l) : t \in departed}

------------------------------------------------------------------------------
(* Message handlers.  c is the socket the message arrives on. *)

\* what a well-behaved peer does before it enters a lobby
MayEnter(c) == Disciplined => srv.lobbyOf[c] = NoLobby

\* a player reconnects once the link that held the id is gone
MayReclaim(c, i) ==
  Disciplined => \A d \in Conns \ {c} : srv.ident[d] = i => link[d] # "up"

CreateLobby(c, l, k) ==
  /\ link[c] = "up" /\ MayEnter(c)
  /\ srv.code[l] = NoCode
  /\ srv.registry[k] = NoLobby
  /\ CodeReuse \/ \A m \in Lobbies : srv.code[m] # k
  /\ srv' = AttachFreshClient(
              [srv EXCEPT !.code[l] = k, !.registry[k] = l,
                          !.ownerId[l] = srv.ident[c]], l, c, TRUE)
  /\ UNCHANGED link

JoinLobby(c, l) ==
  /\ link[c] = "up" /\ MayEnter(c)
  /\ Registered(srv, l)
  /\ ~srv.inGame[l]
  /\ Cardinality(Seated(srv, l)) < LobbyMaxPlayers
  /\ srv' = AttachFreshClient(srv, l, c, FALSE)
  /\ UNCHANGED link

LeaveLobby(c) ==
  /\ link[c] = "up"
  /\ srv.lobbyOf[c] # NoLobby
  /\ srv' \in LeaveLobbyClient(srv, srv.lobbyOf[c], c)
  /\ UNCHANGED link

KickPlayer(c, i) ==
  /\ link[c] = "up"
  /\ srv.isOwner[c] /\ srv.lobbyOf[c] # NoLobby
  /\ srv' \in KickLobbyPlayer(srv, srv.lobbyOf[c], i)
  /\ UNCHANGED link

MakePlayerHost(c, i) ==
  /\ link[c] = "up"
  /\ srv.isOwner[c] /\ srv.lobbyOf[c] # NoLobby
  /\ srv' = SetOwner(srv, srv.lobbyOf[c], i)
  /\ UNCHANGED link

StartGame(c) ==
  LET l == srv.lobbyOf[c] IN
  /\ link[c] = "up"
  /\ l # NoLobby /\ srv.isOwner[c]
  /\ ~StartBlocked(srv, l)
  /\ srv' = [srv EXCEPT
               !.isInMatch = [d \in Conns |-> d \in Players(srv, l) \/ @[d]],
               !.inGame[l] = TRUE]
  /\ UNCHANGED link

ReturnToLobby(c) ==
  LET l == srv.lobbyOf[c] IN
  /\ link[c] = "up"
  /\ l # NoLobby /\ srv.isInMatch[c]
  /\ srv' \in Reconciled(ClearParticipation(srv, {c}), l)
  /\ UNCHANGED link

\* failRound; the handler does not ask whether the lobby is in a game
FailRound(c, outOfLives) ==
  LET l == srv.lobbyOf[c] IN
  /\ link[c] = "up"
  /\ l # NoLobby /\ srv.isInMatch[c]
  /\ srv' = ResolveSoloEliminations(srv, l, IF outOfLives THEN {c} ELSE {})
  /\ UNCHANGED link

RejoinLobby(c, l, i) ==
  /\ link[c] = "up" /\ MayReclaim(c, i)
  /\ Registered(srv, l)
  /\ srv.lobbyOf[c] = l => srv.ident[c] = i
  /\ \/ /\ srv.slot[l][i] # NoSlot
        /\ srv' \in RestoreDisconnectedLobbyClient(
                      ReleaseSlot(srv, l, i), l, c, i, srv.slot[l][i])
     \/ /\ srv.slot[l][i] = NoSlot
        /\ i # srv.ident[c]
        /\ \E a \in Players(srv, l) :
             /\ srv.ident[a] = i
             /\ srv' \in RestoreDisconnectedLobbyClient(
                           [RemovePlayer(srv, l, i) EXCEPT !.lobbyOf[a] = NoLobby],
                           l, c, i,
                           [conn |-> a, isOwner |-> srv.isOwner[a],
                            isInMatch |-> srv.isInMatch[a]])
  /\ UNCHANGED link

------------------------------------------------------------------------------
(* Sockets and timers *)

\* external: the peer vanishes without a FIN or RST reaching the server
LosePeer(c) ==
  /\ link[c] = "up"
  /\ link' = [link EXCEPT ![c] = "lost"]
  /\ UNCHANGED srv

\* disconnectClient, once per socket, on end, error or an input limit
Disconnect(c) ==
  /\ link[c] # "down"
  /\ link' = [link EXCEPT ![c] = "down"]
  /\ srv' \in IF srv.lobbyOf[c] = NoLobby THEN {srv}
              ELSE DisconnectLobbyClient(srv, srv.lobbyOf[c], c)

\* the grace period of the client c runs out
ExpireDisconnectedLobbyClient(c) ==
  LET l == srv.timer[c] IN
  /\ l # NoLobby
  /\ srv' \in LeaveLobbyClient(
                [srv EXCEPT !.timer[c] = NoLobby,
                            !.slot[l][srv.ident[c]] = NoSlot], l, c)
  /\ UNCHANGED link

\* the ante timer expires and takes the players D out of lives
ExpireLobbyAnteTimer(l, D) ==
  /\ srv.inGame[l]
  /\ ActivePlayers(srv, l) # {}
  /\ srv' = ResolveSoloEliminations(srv, l, D)
  /\ UNCHANGED link

MessageHandler(c) ==
  \/ \E l \in Lobbies, k \in Codes : CreateLobby(c, l, k)
  \/ \E l \in Lobbies : JoinLobby(c, l)
  \/ LeaveLobby(c)
  \/ \E i \in Ids : KickPlayer(c, i) \/ MakePlayerHost(c, i)
  \/ StartGame(c)
  \/ ReturnToLobby(c)
  \/ \E outOfLives \in BOOLEAN : FailRound(c, outOfLives)
  \/ \E l \in Lobbies, i \in Ids : RejoinLobby(c, l, i)

Next ==
  \/ \E c \in Conns :
       \/ MessageHandler(c)
       \/ LosePeer(c)
       \/ Disconnect(c)
       \/ ExpireDisconnectedLobbyClient(c)
  \/ \E l \in Lobbies : \E D \in SUBSET ActivePlayers(srv, l) :
       ExpireLobbyAnteTimer(l, D)

Spec == Init /\ [][Next]_vars

\* A lost peer is noticed (keepalive, TCP keepalive) and armed timers fire.
Fairness ==
  \A c \in Conns :
    /\ WF_vars(link[c] = "lost" /\ Disconnect(c))
    /\ WF_vars(ExpireDisconnectedLobbyClient(c))

FairSpec == Spec /\ Fairness

------------------------------------------------------------------------------
(* Safety *)

\* A client believes it sits in a lobby exactly when that lobby's players map
\* holds it under its own id: no ghost entries, no seatless members.
SeatsMatchClients ==
  /\ \A l \in Lobbies : \A i \in Seated(srv, l) :
       /\ srv.lobbyOf[srv.seat[l][i]] = l
       /\ srv.ident[srv.seat[l][i]] = i
  /\ \A c \in Conns :
       srv.lobbyOf[c] # NoLobby => srv.seat[srv.lobbyOf[c]][srv.ident[c]] = c

\* A player has one place on the server: one seat, or one reserved slot, in
\* one lobby; joining, rejoining and expiring never leave a second one behind.
OnePlacePerPlayer ==
  \A i \in Ids, l, m \in Lobbies :
    /\ i \in Seated(srv, l) /\ i \in Seated(srv, m) => l = m
    /\ i \in Reserved(srv, l) /\ i \in Reserved(srv, m) => l = m
    /\ ~ (i \in Seated(srv, l) /\ i \in Reserved(srv, m))

\* The players map holds connected players only (Lobby.ts, players): a closed
\* socket never keeps a seat that nobody would ever free.
PlayersAreConnected ==
  \A l \in Lobbies : \A c \in Players(srv, l) : link[c] # "down"

\* Grace timers and slots are two views of one reservation: a slot without its
\* timer would never end, a timer without its slot would evict a player who is
\* back in the lobby.
TimersMatchSlots ==
  /\ \A c \in Conns : srv.timer[c] # NoLobby =>
       /\ srv.slot[srv.timer[c]][srv.ident[c]] # NoSlot
       /\ srv.slot[srv.timer[c]][srv.ident[c]].conn = c
  /\ \A l \in Lobbies : \A i \in Reserved(srv, l) :
       /\ srv.timer[srv.slot[l][i].conn] = l
       /\ srv.ident[srv.slot[l][i].conn] = i

\* Every lobby with players has one host: the player named by ownerId carries
\* the owner flag, on its client or in its slot, and nobody else there does.
OneHost ==
  \A l \in Lobbies : Seated(srv, l) # {} =>
    /\ srv.ownerId[l] \in Seated(srv, l) \cup Reserved(srv, l)
    /\ \A i \in Seated(srv, l) :
         srv.isOwner[srv.seat[l][i]] <=> i = srv.ownerId[l]
    /\ \A i \in Reserved(srv, l) : srv.slot[l][i].isOwner <=> i = srv.ownerId[l]

\* A code finds a lobby exactly while somebody sits in it: the last departure
\* unregisters it at once, and no late timer unregisters a populated lobby.
RegisteredWhilePopulated ==
  /\ \A l \in Lobbies : Registered(srv, l) <=> Seated(srv, l) # {}
  /\ \A k \in Codes : srv.registry[k] # NoLobby => srv.code[srv.registry[k]] = k

\* While the host is away on a reserved slot, the departures and returns of
\* other players do not pass the host role on.
AbsentHostKeepsRole ==
  [][\A l \in Lobbies :
       srv.ownerId[l] \in Reserved(srv, l) \cap Reserved(srv', l)
         => srv'.ownerId[l] = srv.ownerId[l]]_vars

\* who is at the table of l or expected back, and who of them takes part in the match
Members(s, l) == Seated(s, l) \cup Reserved(s, l)
Cast(s, l) ==
  {i \in Seated(s, l) : s.isInMatch[s.seat[l][i]]}
    \cup {i \in Reserved(s, l) : s.slot[l][i].isInMatch}

\* Nobody enters a running match: joins are turned away, a return gives a player what
\* it had and nobody else anything, whoever leaves where to return, and however
\* sockets and ids were combined before.
NobodyEntersAMatch ==
  [][\A l \in Lobbies : srv.inGame[l] /\ srv'.inGame[l] =>
       Members(srv', l) \subseteq Members(srv, l) /\ Cast(srv', l) \subseteq Cast(srv, l)]_vars

(* The inductive invariant behind the safety properties on places, of a link *)
(* state k and a memory s *)

SeatsHeld(k, s) ==
  /\ \A l \in Lobbies, i \in Ids : s.seat[l][i] # NoConn =>
       /\ s.lobbyOf[s.seat[l][i]] = l
       /\ s.ident[s.seat[l][i]] = i
       /\ k[s.seat[l][i]] # "down"
       /\ \A m \in Lobbies : s.seat[m][i] # NoConn => l = m
  /\ \A c \in Conns :
       s.lobbyOf[c] # NoLobby => s.seat[s.lobbyOf[c]][s.ident[c]] = c

SlotsHeld(k, s) ==
  /\ \A l \in Lobbies, i \in Ids : s.slot[l][i] # NoSlot =>
       /\ s.timer[s.slot[l][i].conn] = l
       /\ s.ident[s.slot[l][i].conn] = i
       /\ \A m \in Lobbies :
            /\ s.seat[m][i] = NoConn
            /\ s.slot[m][i] # NoSlot => l = m
  /\ \A c \in Conns : s.timer[c] # NoLobby =>
       /\ k[c] = "down"
       /\ s.slot[s.timer[c]][s.ident[c]] # NoSlot
       /\ s.slot[s.timer[c]][s.ident[c]].conn = c

\* the only live holder of an id is the one that may be seated under it
LiveHolders(k, s) ==
  \A c \in Conns : k[c] = "up" =>
    /\ \A l \in Lobbies :
         /\ s.slot[l][s.ident[c]] = NoSlot
         /\ s.seat[l][s.ident[c]] \in {NoConn, c}
    /\ \A d \in Conns : k[d] = "up" /\ s.ident[d] = s.ident[c] => d = c

Places(k, s) == SeatsHeld(k, s) /\ SlotsHeld(k, s) /\ LiveHolders(k, s)

\* Seats, slots, timers and links fit together in every state: the state each
\* handler relies on, with what it needs to know of ids that several sockets
\* carry one after the other.
PlacesInv == TypeOK /\ Places(link, srv)

------------------------------------------------------------------------------
(* Liveness *)

\* A reservation always ends, so it cannot hold up the match it blocks for ever.
ReservationsEnd ==
  \A l \in Lobbies, i \in Ids : i \in Reserved(srv, l) ~> i \notin Reserved(srv, l)

\* A lobby whose host is away gets a seated host again, or becomes empty.
HostReturns ==
  \A l \in Lobbies :
    Seated(srv, l) # {} /\ srv.ownerId[l] \notin Seated(srv, l)
      ~> Seated(srv, l) = {} \/ srv.ownerId[l] \in Seated(srv, l)
=============================================================================
