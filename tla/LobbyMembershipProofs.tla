----------------------- MODULE LobbyMembershipProofs -----------------------
(***************************************************************************)
(* Proofs about LobbyMembership: what each step of the handlers does to    *)
(* the server's memory, the type invariant, the invariant that gives every *)
(* player one place on the server, the one that gives every lobby with     *)
(* players one host and its registration, and that nobody enters a match.  *)
(***************************************************************************)
EXTENDS LobbyMembership, TLAPS

\* What a player's place consists of is untouched between memories s and t:
\* only hosts, match participation, games and the registry may differ.
SamePlaces(s, t) ==
  /\ t \in ServerMemory
  /\ t.ident = s.ident
  /\ t.lobbyOf = s.lobbyOf
  /\ t.seat = s.seat
  /\ t.slot = s.slot
  /\ t.timer = s.timer
  /\ t.code = s.code

------------------------------------------------------------------------------
(* Steps that only touch hosts, participation, games and the registry *)

LEMMA SetOwnerSame ==
  ASSUME NEW s \in ServerMemory, NEW l \in Lobbies, NEW i \in Ids
  PROVE  SamePlaces(s, SetOwner(s, l, i))
  BY DEF SamePlaces, SetOwner, ServerMemory, Ids

LEMMA ClearParticipationSame ==
  ASSUME NEW s \in ServerMemory, NEW D
  PROVE  SamePlaces(s, ClearParticipation(s, D))
  BY DEF SamePlaces, ClearParticipation, ServerMemory, Ids

LEMMA MemoryItself == ASSUME NEW s \in ServerMemory PROVE SamePlaces(s, s)
  BY DEF SamePlaces

LEMMA SamePlacesTransitive ==
  ASSUME NEW s, NEW t, NEW u, SamePlaces(s, t), SamePlaces(t, u)
  PROVE  SamePlaces(s, u)
  BY DEF SamePlaces

LEMMA GameOverSame ==
  ASSUME NEW s \in ServerMemory, NEW l \in Lobbies
  PROVE  SamePlaces(s, [s EXCEPT !.inGame[l] = FALSE])
  BY DEF SamePlaces, ServerMemory, Ids

LEMMA FinishMatchSame ==
  ASSUME NEW s \in ServerMemory, NEW l \in Lobbies, NEW D
  PROVE  SamePlaces(s, FinishMatch(s, l, D))
<1>1. SamePlaces(s, ClearParticipation(s, D))
  BY ClearParticipationSame
<1>2. SamePlaces(ClearParticipation(s, D), FinishMatch(s, l, D))
  BY <1>1, GameOverSame DEF FinishMatch, SamePlaces
<1> QED
  BY <1>1, <1>2, SamePlacesTransitive

LEMMA ResolveSoloEliminationsSame ==
  ASSUME NEW s \in ServerMemory, NEW l \in Lobbies, NEW D
  PROVE  SamePlaces(s, ResolveSoloEliminations(s, l, D))
  BY FinishMatchSame, ClearParticipationSame DEF ResolveSoloEliminations

LEMMA ReconciledSame ==
  ASSUME NEW s \in ServerMemory, NEW l \in Lobbies, NEW t \in Reconciled(s, l)
  PROVE  SamePlaces(s, t)
<1>1. PICK D : t = ReconcileActiveMatchState(s, l, D)
  BY DEF Reconciled
<1> QED
  BY <1>1, MemoryItself, ResolveSoloEliminationsSame DEF ReconcileActiveMatchState

LEMMA OwnerAssignedSame ==
  ASSUME NEW s \in ServerMemory, NEW l \in Lobbies, NEW i \in Ids,
         NEW t \in OwnerAssigned(s, l, i)
  PROVE  SamePlaces(s, t)
<1>1. CASE t = s
  BY <1>1, MemoryItself
<1>2. CASE t # s
  <2>1. PICK j \in Ids : t = SetOwner(s, l, j)
    BY <1>2 DEF OwnerAssigned, Seated
  <2> QED
    BY <2>1, SetOwnerSame
<1> QED
  BY <1>1, <1>2

LEMMA RemoveLobbySame ==
  ASSUME NEW s \in ServerMemory, NEW k
  PROVE  SamePlaces(s, RemoveLobbyByCode(s, k))
  BY DEF SamePlaces, RemoveLobbyByCode, ServerMemory, Ids

LEMMA FinalizeDepartureSame ==
  ASSUME NEW s \in ServerMemory, NEW l \in Lobbies, NEW i \in Ids,
         NEW wasInMatch, NEW t \in FinalizeDeparture(s, l, i, wasInMatch)
  PROVE  SamePlaces(s, t)
<1>1. CASE Seated(s, l) = {}
  BY <1>1, RemoveLobbySame DEF FinalizeDeparture
<1>2. CASE Seated(s, l) # {} /\ wasInMatch
  <2>1. PICK u \in OwnerAssigned(s, l, i) : t \in Reconciled(u, l)
    BY <1>2 DEF FinalizeDeparture
  <2>2. SamePlaces(s, u)
    BY <2>1, OwnerAssignedSame
  <2>3. SamePlaces(u, t)
    BY <2>1, <2>2, ReconciledSame DEF SamePlaces
  <2> QED
    BY <2>2, <2>3, SamePlacesTransitive
<1>3. CASE Seated(s, l) # {} /\ ~wasInMatch
  BY <1>3, OwnerAssignedSame DEF FinalizeDeparture
<1> QED
  BY <1>1, <1>2, <1>3

------------------------------------------------------------------------------
(* Steps that move a player *)

\* Releasing id i in l frees its slot and disarms the timer of that slot.
Freed(s, l, i) ==
  IF s.slot[l][i] = NoSlot THEN s.timer
  ELSE [s.timer EXCEPT ![s.slot[l][i].conn] = NoLobby]

LEMMA ReleaseSlotEffect ==
  ASSUME NEW s \in ServerMemory, NEW l \in Lobbies, NEW i \in Ids
  PROVE  LET t == ReleaseSlot(s, l, i) IN
         /\ t \in ServerMemory
         /\ t.ident = s.ident /\ t.lobbyOf = s.lobbyOf /\ t.seat = s.seat
         /\ t.slot = [s.slot EXCEPT ![l][i] = NoSlot]
         /\ t.timer = Freed(s, l, i)
         /\ t.code = s.code
<1>1. CASE s.slot[l][i] = NoSlot
  BY <1>1 DEF ReleaseSlot, Freed, ServerMemory, Ids
<1>2. CASE s.slot[l][i] # NoSlot
  BY <1>2 DEF ReleaseSlot, Freed, ServerMemory, SavedState, Ids
<1> QED
  BY <1>1, <1>2

LEMMA LeaveEffect ==
  ASSUME NEW s \in ServerMemory, NEW l \in Lobbies, NEW c \in Conns,
         NEW t \in LeaveLobbyClient(s, l, c)
  PROVE  /\ t \in ServerMemory
         /\ t.ident = s.ident
         /\ t.lobbyOf = [s.lobbyOf EXCEPT ![c] = NoLobby]
         /\ t.seat = [s.seat EXCEPT ![l][s.ident[c]] = NoConn]
         /\ t.slot = [s.slot EXCEPT ![l][s.ident[c]] = NoSlot]
         /\ t.timer = Freed(s, l, s.ident[c])
         /\ t.code = s.code
<1> DEFINE i == s.ident[c]
           r == ReleaseSlot(s, l, i)
           u == RemovePlayer(r, l, i)
           v == ClearMembership(u, c)
<1>0. i \in Ids
  BY DEF ServerMemory
<1>1. /\ r \in ServerMemory
      /\ r.ident = s.ident /\ r.lobbyOf = s.lobbyOf /\ r.seat = s.seat
      /\ r.slot = [s.slot EXCEPT ![l][i] = NoSlot]
      /\ r.timer = Freed(s, l, i) /\ r.code = s.code
  BY <1>0, ReleaseSlotEffect
<1>2. t \in FinalizeDeparture(v, l, i, s.isInMatch[c])
  BY DEF LeaveLobbyClient
<1> HIDE DEF i, r
<1>3. /\ u \in ServerMemory
      /\ u.ident = r.ident /\ u.lobbyOf = r.lobbyOf
      /\ u.seat = [r.seat EXCEPT ![l][i] = NoConn]
      /\ u.slot = r.slot /\ u.timer = r.timer /\ u.code = r.code
  BY <1>0, <1>1 DEF RemovePlayer, ServerMemory, Ids
<1> HIDE DEF u
<1>4. /\ v \in ServerMemory
      /\ v.ident = u.ident
      /\ v.lobbyOf = [u.lobbyOf EXCEPT ![c] = NoLobby]
      /\ v.seat = u.seat /\ v.slot = u.slot /\ v.timer = u.timer /\ v.code = u.code
  BY <1>3 DEF ClearMembership, ServerMemory, Ids
<1> HIDE DEF v
<1>5. SamePlaces(v, t)
  BY <1>0, <1>2, <1>4, FinalizeDepartureSame
<1> QED
  BY <1>1, <1>3, <1>4, <1>5 DEF SamePlaces, i

LEMMA AddPlayerEffect ==
  ASSUME NEW s \in ServerMemory, NEW l \in Lobbies, NEW c \in Conns
  PROVE  LET t == AddPlayer(s, l, c) IN
         /\ t \in ServerMemory
         /\ t.ident = s.ident
         /\ t.lobbyOf = [s.lobbyOf EXCEPT ![c] = l]
         /\ t.seat = [s.seat EXCEPT ![l][s.ident[c]] = c]
         /\ t.slot = s.slot /\ t.timer = s.timer /\ t.code = s.code
  BY DEF AddPlayer, ServerMemory, Ids

\* c takes the seat of player i in l.
SeatTaken(s, l, c, i, t) ==
  /\ t \in ServerMemory
  /\ t.ident = [s.ident EXCEPT ![c] = i]
  /\ t.lobbyOf = [s.lobbyOf EXCEPT ![c] = l]
  /\ t.seat = [s.seat EXCEPT ![l][i] = c]
  /\ t.slot = s.slot /\ t.timer = s.timer

LEMMA AttachEffect ==
  ASSUME NEW s \in ServerMemory, NEW l \in Lobbies, NEW c \in Conns,
         NEW host \in BOOLEAN
  PROVE  SeatTaken(s, l, c, s.ident[c], AttachFreshClient(s, l, c, host))
<1> DEFINE u == [s EXCEPT !.isOwner[c] = host, !.isInMatch[c] = FALSE]
<1>1. /\ u \in ServerMemory /\ u.ident = s.ident /\ u.lobbyOf = s.lobbyOf
      /\ u.seat = s.seat /\ u.slot = s.slot /\ u.timer = s.timer
  BY DEF ServerMemory, Ids
<1>2. AttachFreshClient(s, l, c, host) = AddPlayer(u, l, c)
  BY DEF AttachFreshClient
<1> HIDE DEF u
<1>3. s.ident = [s.ident EXCEPT ![c] = s.ident[c]]
  BY DEF ServerMemory
<1> QED
  BY <1>1, <1>2, <1>3, AddPlayerEffect DEF SeatTaken

LEMMA RestoreEffect ==
  ASSUME NEW s \in ServerMemory, NEW l \in Lobbies, NEW c \in Conns,
         NEW i \in Ids, NEW saved \in SavedState,
         NEW t \in Reconciled(RestoreSavedGameState(s, l, c, i, saved), l)
  PROVE  SeatTaken(s, l, c, i, t)
<1> DEFINE r == [s EXCEPT !.ident[c] = i, !.isOwner[c] = saved.isOwner,
                          !.isInMatch[c] = saved.isInMatch]
           a == AddPlayer(r, l, c)
           w == RestoreSavedGameState(s, l, c, i, saved)
<1>1. /\ r \in ServerMemory /\ r.ident = [s.ident EXCEPT ![c] = i]
      /\ r.lobbyOf = s.lobbyOf
      /\ r.seat = s.seat /\ r.slot = s.slot /\ r.timer = s.timer
  BY DEF ServerMemory, SavedState, Ids
<1>2. w = IF saved.isOwner THEN SetOwner(a, l, i) ELSE a
  BY DEF RestoreSavedGameState
<1>3. t \in Reconciled(w, l)
  OBVIOUS
<1> HIDE DEF r, w
<1>4. r.ident[c] = i
  BY <1>1 DEF ServerMemory
<1>5. SeatTaken(s, l, c, i, a)
  <2>1. /\ a \in ServerMemory
        /\ a.ident = r.ident
        /\ a.lobbyOf = [r.lobbyOf EXCEPT ![c] = l]
        /\ a.seat = [r.seat EXCEPT ![l][r.ident[c]] = c]
        /\ a.slot = r.slot /\ a.timer = r.timer
    BY <1>1 DEF AddPlayer, ServerMemory, Ids
  <2> QED
    BY <1>1, <1>4, <2>1 DEF SeatTaken
<1> HIDE DEF a
<1>6. SamePlaces(a, w)
  BY <1>2, <1>5, SetOwnerSame, MemoryItself DEF SeatTaken
<1>7. SamePlaces(w, t)
  BY <1>3, <1>6, ReconciledSame DEF SamePlaces
<1> QED
  BY <1>5, <1>6, <1>7 DEF SeatTaken, SamePlaces

\* c leaves the seat of its id for the reserved slot saved of l.
SlotTaken(s, l, c, saved, t) ==
  /\ t \in ServerMemory
  /\ t.ident = s.ident
  /\ t.lobbyOf = [s.lobbyOf EXCEPT ![c] = NoLobby]
  /\ t.seat = [s.seat EXCEPT ![l][s.ident[c]] = NoConn]
  /\ t.slot = [s.slot EXCEPT ![l][s.ident[c]] = saved]
  /\ t.timer = [s.timer EXCEPT ![c] = l]

LEMMA ReserveEffect ==
  ASSUME NEW s \in ServerMemory, NEW l \in Lobbies, NEW c \in Conns
  PROVE  \E saved \in SavedState :
           saved.conn = c /\ SlotTaken(s, l, c, saved, ReserveSlot(s, l, c))
<1> DEFINE saved == [conn |-> c, isOwner |-> s.isOwner[c],
                     isInMatch |-> s.isInMatch[c]]
           t == ReserveSlot(s, l, c)
<1>1. saved \in SavedState /\ saved.conn = c
  BY DEF SavedState, ServerMemory
<1>2. t = [s EXCEPT !.seat[l][s.ident[c]] = NoConn, !.slot[l][s.ident[c]] = saved,
                    !.timer[c] = l, !.lobbyOf[c] = NoLobby]
  BY DEF ReserveSlot, RemovePlayer, ServerMemory
<1> HIDE DEF saved, t
<1>3. s.ident[c] \in Ids
  BY DEF ServerMemory
<1>4. SlotTaken(s, l, c, saved, t)
  BY <1>1, <1>2, <1>3 DEF SlotTaken, ServerMemory, Ids
<1> QED
  BY <1>1, <1>4 DEF t

------------------------------------------------------------------------------
(* What each move of a player does to Places *)

LinkState == [Conns -> {"up", "lost", "down"}]

LEMMA SamePlacesKeep ==
  ASSUME NEW k \in LinkState, NEW s \in ServerMemory, Places(k, s),
         NEW t, SamePlaces(s, t)
  PROVE  Places(k, t)
  BY DEF SamePlaces, Places, SeatsHeld, SlotsHeld, LiveHolders

LEMMA VacateSlot ==
  ASSUME NEW k \in LinkState, NEW s \in ServerMemory, Places(k, s),
         NEW l \in Lobbies, NEW i \in Ids,
         NEW t \in ServerMemory,
         t.ident = s.ident, t.lobbyOf = s.lobbyOf, t.seat = s.seat,
         t.slot = [s.slot EXCEPT ![l][i] = NoSlot],
         t.timer = Freed(s, l, i)
  PROVE  Places(k, t)
<1>1. CASE s.slot[l][i] = NoSlot
  <2>1. t.slot = s.slot /\ t.timer = s.timer
    BY <1>1 DEF Freed, ServerMemory
  <2> QED
    BY <2>1 DEF Places, SeatsHeld, SlotsHeld, LiveHolders
<1>2. CASE s.slot[l][i] # NoSlot
  <2> DEFINE x == s.slot[l][i].conn
  <2>1. x \in Conns /\ s.timer[x] = l /\ s.ident[x] = i
    BY <1>2 DEF Places, SlotsHeld, ServerMemory, SavedState
  <2>2. t.timer = [s.timer EXCEPT ![x] = NoLobby]
    BY <1>2 DEF Freed
  <2> HIDE DEF x
  <2>3. \A m \in Lobbies, j \in Ids : t.slot[m][j] # NoSlot =>
           t.slot[m][j] = s.slot[m][j] /\ s.slot[m][j].conn \in Conns
    BY DEF ServerMemory, SavedState
  <2>4. \A m \in Lobbies, j \in Ids : t.slot[m][j] # NoSlot => s.slot[m][j].conn # x
    BY <2>1, <2>3, <1>2 DEF Places, SlotsHeld, ServerMemory
  <2>5. \A y \in Conns : t.timer[y] # NoLobby =>
           /\ y # x /\ t.timer[y] = s.timer[y] /\ s.timer[y] \in Lobbies
           /\ t.slot[s.timer[y]][s.ident[y]] = s.slot[s.timer[y]][s.ident[y]]
    <3> SUFFICES ASSUME NEW y \in Conns, t.timer[y] # NoLobby
                 PROVE  /\ y # x /\ t.timer[y] = s.timer[y]
                        /\ s.timer[y] \in Lobbies
                        /\ t.slot[s.timer[y]][s.ident[y]]
                             = s.slot[s.timer[y]][s.ident[y]]
      OBVIOUS
    <3>1. y # x /\ t.timer[y] = s.timer[y] /\ s.timer[y] \in Lobbies
      BY <2>1, <2>2 DEF ServerMemory
    <3>2. s.slot[s.timer[y]][s.ident[y]].conn = y
      BY <3>1, ConstantsAssumption DEF Places, SlotsHeld
    <3>3. ~ (s.timer[y] = l /\ s.ident[y] = i)
      BY <3>1, <3>2 DEF x
    <3> QED
      BY <3>1, <3>3 DEF ServerMemory
  <2>6. SeatsHeld(k, t)
    BY DEF Places, SeatsHeld
  <2>7. SlotsHeld(k, t)
    <3>1. ASSUME NEW m \in Lobbies, NEW j \in Ids, t.slot[m][j] # NoSlot
          PROVE  /\ t.timer[t.slot[m][j].conn] = m
                 /\ t.ident[t.slot[m][j].conn] = j
                 /\ \A n \in Lobbies : /\ t.seat[n][j] = NoConn
                                       /\ t.slot[n][j] # NoSlot => m = n
      BY <3>1, <2>2, <2>3, <2>4 DEF Places, SlotsHeld, ServerMemory
    <3>2. ASSUME NEW y \in Conns, t.timer[y] # NoLobby
          PROVE  /\ k[y] = "down"
                 /\ t.slot[t.timer[y]][t.ident[y]] # NoSlot
                 /\ t.slot[t.timer[y]][t.ident[y]].conn = y
      BY <3>2, <2>5 DEF Places, SlotsHeld
    <3> QED
      BY <3>1, <3>2 DEF SlotsHeld
  <2>8. LiveHolders(k, t)
    <3>1. \A m \in Lobbies, j \in Ids : s.slot[m][j] = NoSlot => t.slot[m][j] = NoSlot
      BY <2>3
    <3> QED
      BY <3>1 DEF Places, LiveHolders, ServerMemory
  <2> QED
    BY <2>6, <2>7, <2>8 DEF Places
<1> QED
  BY <1>1, <1>2

LEMMA VacateSeat ==
  ASSUME NEW k \in LinkState, NEW s \in ServerMemory, Places(k, s),
         NEW l \in Lobbies, NEW c \in Conns, s.lobbyOf[c] = l,
         NEW t \in ServerMemory,
         t.ident = s.ident, t.lobbyOf = [s.lobbyOf EXCEPT ![c] = NoLobby],
         t.seat = [s.seat EXCEPT ![l][s.ident[c]] = NoConn],
         t.slot = s.slot, t.timer = s.timer
  PROVE  Places(k, t)
<1> DEFINE i == s.ident[c]
<1>0. i \in Ids /\ s.seat[l][i] = c /\ c # NoConn /\ l # NoLobby
  <2>1. c # NoConn /\ l # NoLobby
    BY ConstantsAssumption
  <2>2. i \in Ids
    BY DEF ServerMemory
  <2> QED
    BY <2>1, <2>2 DEF Places, SeatsHeld
<1> HIDE DEF i
<1>1. \A m \in Lobbies, j \in Ids : t.seat[m][j] # NoConn =>
         t.seat[m][j] = s.seat[m][j] /\ t.seat[m][j] # c /\ s.seat[m][j] \in Conns
  BY <1>0 DEF Places, SeatsHeld, ServerMemory, i
<1>2. \A d \in Conns : t.lobbyOf[d] # NoLobby =>
         /\ d # c /\ t.lobbyOf[d] = s.lobbyOf[d] /\ s.lobbyOf[d] \in Lobbies
         /\ t.seat[t.lobbyOf[d]][s.ident[d]] = s.seat[s.lobbyOf[d]][s.ident[d]]
  BY <1>0 DEF Places, SeatsHeld, ServerMemory, i
<1>3. SeatsHeld(k, t)
  BY <1>1, <1>2 DEF Places, SeatsHeld, ServerMemory
<1>4. SlotsHeld(k, t)
  BY <1>1 DEF Places, SlotsHeld, ServerMemory
<1>5. LiveHolders(k, t)
  BY <1>1 DEF Places, LiveHolders, ServerMemory
<1> QED
  BY <1>3, <1>4, <1>5 DEF Places

\* c gives up its seat in l.
SeatLeft(s, l, c, t) ==
  /\ t \in ServerMemory
  /\ t.ident = s.ident
  /\ t.lobbyOf = [s.lobbyOf EXCEPT ![c] = NoLobby]
  /\ t.seat = [s.seat EXCEPT ![l][s.ident[c]] = NoConn]
  /\ t.slot = s.slot

LEMMA SeatLeftKeeps ==
  ASSUME NEW k \in LinkState, NEW s \in ServerMemory, Places(k, s),
         NEW l \in Lobbies, NEW c \in Conns, s.lobbyOf[c] = l,
         NEW t, SeatLeft(s, l, c, t), t.timer = s.timer
  PROVE  Places(k, t)
  BY VacateSeat DEF SeatLeft

LEMMA LeaveKeeps ==
  ASSUME NEW k \in LinkState, NEW s \in ServerMemory, Places(k, s),
         NEW l \in Lobbies, NEW c \in Conns, s.lobbyOf[c] = l,
         NEW t \in LeaveLobbyClient(s, l, c)
  PROVE  Places(k, t) /\ SeatLeft(s, l, c, t)
<1>1. /\ t \in ServerMemory
      /\ t.ident = s.ident
      /\ t.lobbyOf = [s.lobbyOf EXCEPT ![c] = NoLobby]
      /\ t.seat = [s.seat EXCEPT ![l][s.ident[c]] = NoConn]
      /\ t.slot = [s.slot EXCEPT ![l][s.ident[c]] = NoSlot]
      /\ t.timer = Freed(s, l, s.ident[c])
  BY LeaveEffect
<1>2. l # NoLobby /\ c # NoConn /\ s.ident[c] \in Ids
  <2>1. l # NoLobby /\ c # NoConn
    BY ConstantsAssumption
  <2> QED
    BY <2>1 DEF ServerMemory
<1>3. s.slot[l][s.ident[c]] = NoSlot
  BY <1>2 DEF Places, SeatsHeld, SlotsHeld
<1>4. t.slot = s.slot /\ t.timer = s.timer
  BY <1>1, <1>2, <1>3 DEF Freed, ServerMemory
<1>5. Places(k, t)
  BY <1>1, <1>4, VacateSeat
<1> QED
  BY <1>1, <1>4, <1>5 DEF SeatLeft

LEMMA NoSeatWithoutLobby ==
  ASSUME NEW k \in LinkState, NEW s \in ServerMemory, Places(k, s),
         NEW c \in Conns, s.lobbyOf[c] = NoLobby
  PROVE  \A m \in Lobbies, j \in Ids : s.seat[m][j] # c
<1> SUFFICES ASSUME NEW m \in Lobbies, NEW j \in Ids, s.seat[m][j] = c
             PROVE  FALSE
  OBVIOUS
<1>1. c # NoConn /\ m # NoLobby
  BY ConstantsAssumption
<1>2. s.lobbyOf[c] = m
  BY <1>1 DEF Places, SeatsHeld
<1> QED
  BY <1>1, <1>2

LEMMA TakeSeat ==
  ASSUME NEW k \in LinkState, NEW s \in ServerMemory, Places(k, s),
         NEW l \in Lobbies, NEW c \in Conns, NEW i \in Ids,
         k[c] = "up", s.lobbyOf[c] = NoLobby,
         \A m \in Lobbies : s.slot[m][i] = NoSlot /\ s.seat[m][i] = NoConn,
         \A d \in Conns \ {c} : s.ident[d] = i => k[d] # "up",
         NEW t, SeatTaken(s, l, c, i, t)
  PROVE  Places(k, t)
<1>0. c # NoConn /\ l # NoLobby
  BY ConstantsAssumption
<1>1. \A m \in Lobbies, j \in Ids : s.seat[m][j] # c
  BY NoSeatWithoutLobby
<1>2. s.timer[c] = NoLobby
  BY DEF Places, SlotsHeld
<1>3. \A m \in Lobbies, j \in Ids : s.slot[m][j] # NoSlot =>
         s.slot[m][j].conn \in Conns /\ s.slot[m][j].conn # c
  <2>1. \A m \in Lobbies : m # NoLobby
    BY ConstantsAssumption
  <2> QED
    BY <1>2, <2>1 DEF Places, SlotsHeld, ServerMemory, SavedState
<1>4. SeatsHeld(k, t)
  <2>1. ASSUME NEW m \in Lobbies, NEW j \in Ids, t.seat[m][j] # NoConn
        PROVE  /\ t.lobbyOf[t.seat[m][j]] = m
               /\ t.ident[t.seat[m][j]] = j
               /\ k[t.seat[m][j]] # "down"
               /\ \A n \in Lobbies : t.seat[n][j] # NoConn => m = n
    <3>1. CASE m = l /\ j = i
      BY <3>1, <1>0 DEF SeatTaken, ServerMemory
    <3>2. CASE ~ (m = l /\ j = i)
      <4>1. t.seat[m][j] = s.seat[m][j] /\ s.seat[m][j] \in Conns /\ s.seat[m][j] # c
        BY <2>1, <3>2, <1>1 DEF SeatTaken, ServerMemory
      <4>2. j # i
        BY <2>1, <4>1
      <4>3. \A n \in Lobbies : t.seat[n][j] = s.seat[n][j]
        BY <4>2 DEF SeatTaken, ServerMemory
      <4>4. t.lobbyOf[s.seat[m][j]] = s.lobbyOf[s.seat[m][j]]
        BY <4>1 DEF SeatTaken, ServerMemory
      <4>5. t.ident[s.seat[m][j]] = s.ident[s.seat[m][j]]
        BY <4>1 DEF SeatTaken, ServerMemory
      <4> QED
        BY <2>1, <4>1, <4>3, <4>4, <4>5 DEF Places, SeatsHeld
    <3> QED
      BY <3>1, <3>2
  <2>2. ASSUME NEW d \in Conns, t.lobbyOf[d] # NoLobby
        PROVE  t.seat[t.lobbyOf[d]][t.ident[d]] = d
    <3>1. CASE d = c
      BY <3>1 DEF SeatTaken, ServerMemory
    <3>2. CASE d # c
      <4>1. t.lobbyOf[d] = s.lobbyOf[d] /\ t.ident[d] = s.ident[d]
        BY <3>2 DEF SeatTaken, ServerMemory
      <4>2. s.lobbyOf[d] \in Lobbies /\ s.seat[s.lobbyOf[d]][s.ident[d]] = d
        BY <2>2, <4>1 DEF Places, SeatsHeld, ServerMemory
      <4>3. d # NoConn /\ s.ident[d] \in Ids
        BY ConstantsAssumption DEF ServerMemory
      <4>4. s.ident[d] # i
        BY <4>2, <4>3
      <4>5. t.seat[s.lobbyOf[d]][s.ident[d]] = s.seat[s.lobbyOf[d]][s.ident[d]]
        BY <4>2, <4>3, <4>4 DEF SeatTaken, ServerMemory
      <4> QED
        BY <4>1, <4>2, <4>5
    <3> QED
      BY <3>1, <3>2
  <2> QED
    BY <2>1, <2>2 DEF SeatsHeld
<1>5. SlotsHeld(k, t)
  <2>1. \A m \in Lobbies, j \in Ids : s.slot[m][j] # NoSlot =>
           /\ t.ident[s.slot[m][j].conn] = s.ident[s.slot[m][j].conn]
           /\ \A n \in Lobbies : t.seat[n][j] = s.seat[n][j]
    BY <1>3 DEF SeatTaken, ServerMemory
  <2>2. \A y \in Conns : s.timer[y] # NoLobby => t.ident[y] = s.ident[y]
    BY <1>2 DEF SeatTaken, ServerMemory
  <2> QED
    BY <2>1, <2>2 DEF Places, SlotsHeld, SeatTaken
<1>6. LiveHolders(k, t)
  <2> SUFFICES ASSUME NEW x \in Conns, k[x] = "up"
               PROVE  /\ \A m \in Lobbies :
                           /\ t.slot[m][t.ident[x]] = NoSlot
                           /\ t.seat[m][t.ident[x]] \in {NoConn, x}
                      /\ \A d \in Conns :
                           k[d] = "up" /\ t.ident[d] = t.ident[x] => d = x
    BY DEF LiveHolders
  <2>1. CASE x = c
    BY <2>1 DEF SeatTaken, ServerMemory
  <2>2. CASE x # c
    <3>1. t.ident[x] = s.ident[x] /\ s.ident[x] \in Ids /\ s.ident[x] # i
      BY <2>2 DEF SeatTaken, ServerMemory
    <3>2. \A m \in Lobbies : t.seat[m][s.ident[x]] = s.seat[m][s.ident[x]]
      BY <3>1 DEF SeatTaken, ServerMemory
    <3>3. \A d \in Conns : d # c => t.ident[d] = s.ident[d]
      BY DEF SeatTaken, ServerMemory
    <3>4. t.ident[c] = i
      BY DEF SeatTaken, ServerMemory
    <3> QED
      BY <3>1, <3>2, <3>3, <3>4 DEF Places, LiveHolders, SeatTaken
  <2> QED
    BY <2>1, <2>2
<1> QED
  BY <1>4, <1>5, <1>6 DEF Places

\* Closing the link of a client that has no seat.
LEMMA LinkDown ==
  ASSUME NEW k \in LinkState, NEW s \in ServerMemory, Places(k, s),
         NEW c \in Conns, s.lobbyOf[c] = NoLobby
  PROVE  Places([k EXCEPT ![c] = "down"], s)
<1> DEFINE h == [k EXCEPT ![c] = "down"]
<1>1. \A d \in Conns : h[d] = IF d = c THEN "down" ELSE k[d]
  BY DEF LinkState
<1> HIDE DEF h
<1>2. \A m \in Lobbies, j \in Ids : s.seat[m][j] # c
  BY NoSeatWithoutLobby
<1>3. SeatsHeld(h, s)
  <2>1. \A m \in Lobbies, j \in Ids :
           s.seat[m][j] # NoConn => h[s.seat[m][j]] = k[s.seat[m][j]]
    BY <1>1, <1>2 DEF ServerMemory
  <2> QED
    BY <2>1 DEF Places, SeatsHeld
<1>4. SlotsHeld(h, s)
  BY <1>1 DEF Places, SlotsHeld
<1>5. LiveHolders(h, s)
  BY <1>1 DEF Places, LiveHolders
<1> QED
  BY <1>3, <1>4, <1>5 DEF Places, h

LEMMA LinkLost ==
  ASSUME NEW k \in LinkState, NEW s \in ServerMemory, Places(k, s),
         NEW c \in Conns, k[c] = "up"
  PROVE  Places([k EXCEPT ![c] = "lost"], s)
<1> DEFINE h == [k EXCEPT ![c] = "lost"]
<1>1. \A d \in Conns : h[d] = IF d = c THEN "lost" ELSE k[d]
  BY DEF LinkState
<1> HIDE DEF h
<1>2. SeatsHeld(h, s)
  BY <1>1 DEF Places, SeatsHeld, ServerMemory
<1>3. SlotsHeld(h, s)
  BY <1>1 DEF Places, SlotsHeld
<1>4. LiveHolders(h, s)
  BY <1>1 DEF Places, LiveHolders
<1> QED
  BY <1>2, <1>3, <1>4 DEF Places, h

\* A seated client disconnects into a reserved slot.
LEMMA ReserveKeeps ==
  ASSUME NEW k \in LinkState, NEW s \in ServerMemory, Places(k, s),
         NEW l \in Lobbies, NEW c \in Conns, s.lobbyOf[c] = l, k[c] # "down"
  PROVE  Places([k EXCEPT ![c] = "down"], ReserveSlot(s, l, c))
<1> DEFINE h == [k EXCEPT ![c] = "down"]
           t == ReserveSlot(s, l, c)
           i == s.ident[c]
<1>0. PICK saved \in SavedState : saved.conn = c /\ SlotTaken(s, l, c, saved, t)
  BY ReserveEffect
<1>1. /\ saved.conn = c
      /\ t.ident = s.ident
      /\ t.lobbyOf = [s.lobbyOf EXCEPT ![c] = NoLobby]
      /\ t.seat = [s.seat EXCEPT ![l][i] = NoConn]
      /\ t.slot = [s.slot EXCEPT ![l][i] = saved]
      /\ t.timer = [s.timer EXCEPT ![c] = l]
  BY <1>0 DEF SlotTaken
<1>2. \A d \in Conns : h[d] = IF d = c THEN "down" ELSE k[d]
  BY DEF LinkState
<1>3. i \in Ids
  BY DEF ServerMemory
<1> HIDE DEF h, t
<1>4. c # NoConn /\ l # NoLobby /\ saved # NoSlot
  BY ConstantsAssumption DEF SavedState
<1>5. s.seat[l][i] = c
  BY <1>4 DEF Places, SeatsHeld
<1>6. s.timer[c] = NoLobby
  BY DEF Places, SlotsHeld
<1>7. \A m \in Lobbies : s.slot[m][i] = NoSlot
  BY <1>3, <1>4, <1>5 DEF Places, SlotsHeld
<1> HIDE DEF i
<1>8. \A m \in Lobbies, j \in Ids : t.seat[m][j] # NoConn =>
         /\ j # i /\ t.seat[m][j] = s.seat[m][j] /\ s.seat[m][j] \in Conns
         /\ s.seat[m][j] # c
  <2> SUFFICES ASSUME NEW m \in Lobbies, NEW j \in Ids, t.seat[m][j] # NoConn
               PROVE  /\ j # i /\ t.seat[m][j] = s.seat[m][j]
                      /\ s.seat[m][j] \in Conns /\ s.seat[m][j] # c
    OBVIOUS
  <2>1. t.seat[m][j] = s.seat[m][j] /\ s.seat[m][j] \in Conns /\ ~ (m = l /\ j = i)
    BY <1>1, <1>3 DEF ServerMemory
  <2>2. j # i
    BY <1>3, <1>4, <1>5, <2>1 DEF Places, SeatsHeld
  <2>3. s.seat[m][j] # c
    BY <2>1, <2>2, <1>4 DEF Places, SeatsHeld, i
  <2> QED
    BY <2>1, <2>2, <2>3
<1>9. SeatsHeld(h, t)
  <2>1. ASSUME NEW m \in Lobbies, NEW j \in Ids, t.seat[m][j] # NoConn
        PROVE  /\ t.lobbyOf[t.seat[m][j]] = m
               /\ t.ident[t.seat[m][j]] = j
               /\ h[t.seat[m][j]] # "down"
               /\ \A n \in Lobbies : t.seat[n][j] # NoConn => m = n
    <3>1. /\ t.seat[m][j] = s.seat[m][j] /\ s.seat[m][j] \in Conns
          /\ s.seat[m][j] # c /\ s.seat[m][j] # NoConn
      BY <1>8, <2>1
    <3>2. /\ t.lobbyOf[s.seat[m][j]] = s.lobbyOf[s.seat[m][j]]
          /\ t.ident[s.seat[m][j]] = s.ident[s.seat[m][j]]
          /\ h[s.seat[m][j]] = k[s.seat[m][j]]
      BY <1>1, <1>2, <3>1 DEF ServerMemory
    <3>3. \A n \in Lobbies : t.seat[n][j] # NoConn => s.seat[n][j] # NoConn
      BY <1>8
    <3> QED
      BY <3>1, <3>2, <3>3 DEF Places, SeatsHeld
  <2>2. ASSUME NEW d \in Conns, t.lobbyOf[d] # NoLobby
        PROVE  t.seat[t.lobbyOf[d]][t.ident[d]] = d
    <3>1. d # c /\ t.lobbyOf[d] = s.lobbyOf[d] /\ t.ident[d] = s.ident[d]
      BY <1>1, <2>2 DEF ServerMemory
    <3>2. s.lobbyOf[d] \in Lobbies /\ s.seat[s.lobbyOf[d]][s.ident[d]] = d
      BY <2>2, <3>1 DEF Places, SeatsHeld, ServerMemory
    <3>3. ~ (s.lobbyOf[d] = l /\ s.ident[d] = i)
      BY <1>5, <3>1, <3>2
    <3> QED
      BY <1>1, <1>3, <3>1, <3>2, <3>3 DEF ServerMemory
  <2> QED
    BY <2>1, <2>2 DEF SeatsHeld
<1>10. SlotsHeld(h, t)
  <2>1. ASSUME NEW m \in Lobbies, NEW j \in Ids, t.slot[m][j] # NoSlot
        PROVE  /\ t.timer[t.slot[m][j].conn] = m
               /\ t.ident[t.slot[m][j].conn] = j
               /\ \A n \in Lobbies : /\ t.seat[n][j] = NoConn
                                     /\ t.slot[n][j] # NoSlot => m = n
    <3>1. CASE j = i
      <4>1. m = l /\ t.slot[m][j] = saved
        BY <1>1, <1>3, <1>7, <2>1, <3>1 DEF ServerMemory
      <4>2. t.timer[c] = l /\ t.ident[c] = i
        BY <1>1 DEF ServerMemory, i
      <4>3. \A n \in Lobbies : t.slot[n][i] # NoSlot => n = l
        BY <1>1, <1>3, <1>7 DEF ServerMemory
      <4> QED
        BY <1>1, <1>8, <3>1, <4>1, <4>2, <4>3
    <3>2. CASE j # i
      <4>1. \A n \in Lobbies : t.slot[n][j] = s.slot[n][j] /\ t.seat[n][j] = s.seat[n][j]
        BY <1>1, <1>3, <3>2 DEF ServerMemory
      <4>2. s.slot[m][j].conn \in Conns
        BY <2>1, <4>1 DEF ServerMemory, SavedState
      <4>3. s.timer[s.slot[m][j].conn] = m /\ m # NoLobby
        BY <2>1, <4>1, ConstantsAssumption DEF Places, SlotsHeld
      <4>4. s.slot[m][j].conn # c
        BY <1>6, <4>3
      <4>5. t.timer[s.slot[m][j].conn] = m
        BY <1>1, <4>2, <4>3, <4>4 DEF ServerMemory
      <4> QED
        BY <1>1, <2>1, <4>1, <4>5 DEF Places, SlotsHeld
    <3> QED
      BY <3>1, <3>2
  <2>2. ASSUME NEW y \in Conns, t.timer[y] # NoLobby
        PROVE  /\ h[y] = "down"
               /\ t.slot[t.timer[y]][t.ident[y]] # NoSlot
               /\ t.slot[t.timer[y]][t.ident[y]].conn = y
    <3>1. CASE y = c
      <4>1. t.timer[y] = l /\ t.ident[y] = i
        BY <1>1, <3>1 DEF ServerMemory, i
      <4>2. t.slot[l][i] = saved
        BY <1>1, <1>3 DEF ServerMemory
      <4> QED
        BY <1>1, <1>2, <1>4, <3>1, <4>1, <4>2
    <3>2. CASE y # c
      <4>1. t.timer[y] = s.timer[y] /\ s.timer[y] \in Lobbies /\ s.ident[y] \in Ids
        BY <1>1, <2>2, <3>2 DEF ServerMemory
      <4>2. k[y] = "down" /\ s.slot[s.timer[y]][s.ident[y]] # NoSlot
            /\ s.slot[s.timer[y]][s.ident[y]].conn = y
        BY <2>2, <4>1 DEF Places, SlotsHeld
      <4>3. s.ident[y] # i
        BY <1>7, <4>1, <4>2
      <4>4. t.slot[s.timer[y]][s.ident[y]] = s.slot[s.timer[y]][s.ident[y]]
        BY <1>1, <1>3, <4>1, <4>3 DEF ServerMemory
      <4> QED
        BY <1>1, <1>2, <3>2, <4>1, <4>2, <4>4
    <3> QED
      BY <3>1, <3>2
  <2> QED
    BY <2>1, <2>2 DEF SlotsHeld
<1>11. LiveHolders(h, t)
  <2> SUFFICES ASSUME NEW x \in Conns, h[x] = "up"
               PROVE  /\ \A m \in Lobbies :
                           /\ t.slot[m][t.ident[x]] = NoSlot
                           /\ t.seat[m][t.ident[x]] \in {NoConn, x}
                      /\ \A d \in Conns :
                           h[d] = "up" /\ t.ident[d] = t.ident[x] => d = x
    BY DEF LiveHolders
  <2>1. x # c /\ k[x] = "up" /\ s.ident[x] \in Ids /\ t.ident[x] = s.ident[x]
    BY <1>1, <1>2 DEF ServerMemory
  <2>2. s.ident[x] # i
    BY <1>4, <1>5, <2>1 DEF Places, LiveHolders
  <2>3. \A m \in Lobbies : /\ t.slot[m][s.ident[x]] = s.slot[m][s.ident[x]]
                           /\ t.seat[m][s.ident[x]] = s.seat[m][s.ident[x]]
    BY <1>1, <1>3, <2>1, <2>2 DEF ServerMemory
  <2>4. \A d \in Conns : h[d] = "up" => k[d] = "up"
    BY <1>2
  <2> QED
    BY <1>1, <2>1, <2>3, <2>4 DEF Places, LiveHolders
<1> QED
  BY <1>9, <1>10, <1>11 DEF Places, h, t

\* c gets the place of player i in l, which nobody holds any more, and gives
\* up the place it had in another lobby.
LEMMA RestoreKeeps ==
  ASSUME NEW k \in LinkState, NEW s \in ServerMemory, Places(k, s),
         NEW l \in Lobbies, NEW c \in Conns, NEW i \in Ids,
         NEW saved \in SavedState,
         k[c] = "up", s.lobbyOf[c] # l,
         \A m \in Lobbies : s.slot[m][i] = NoSlot /\ s.seat[m][i] = NoConn,
         \A d \in Conns \ {c} : s.ident[d] = i => k[d] # "up",
         NEW t \in RestoreDisconnectedLobbyClient(s, l, c, i, saved)
  PROVE  t \in ServerMemory /\ Places(k, t)
<1>1. PICK u : /\ IF s.lobbyOf[c] \notin {NoLobby, l}
                   THEN u \in LeaveLobbyClient(s, s.lobbyOf[c], c)
                   ELSE u = s
               /\ t \in Reconciled(RestoreSavedGameState(u, l, c, i, saved), l)
  BY DEF RestoreDisconnectedLobbyClient
<1>2. /\ u \in ServerMemory /\ Places(k, u)
      /\ u.ident = s.ident /\ u.lobbyOf[c] = NoLobby
      /\ \A m \in Lobbies : u.slot[m][i] = NoSlot /\ u.seat[m][i] = NoConn
  <2>1. CASE s.lobbyOf[c] = NoLobby
    BY <1>1, <2>1
  <2>2. CASE s.lobbyOf[c] # NoLobby
    <3>1. PICK from \in Lobbies : from = s.lobbyOf[c]
      BY <2>2 DEF ServerMemory
    <3>2. u \in LeaveLobbyClient(s, from, c)
      BY <1>1, <2>2, <3>1
    <3>3. Places(k, u) /\ SeatLeft(s, from, c, u)
      BY <3>1, <3>2, LeaveKeeps
    <3>4. s.ident[c] \in Ids /\ u.lobbyOf[c] = NoLobby
      BY <3>3 DEF SeatLeft, ServerMemory
    <3>5. \A m \in Lobbies : u.seat[m][i] = NoConn
      BY <3>3, <3>4 DEF SeatLeft, ServerMemory
    <3> QED
      BY <3>3, <3>4, <3>5 DEF SeatLeft
  <2> QED
    BY <2>1, <2>2
<1>3. SeatTaken(u, l, c, i, t)
  BY <1>1, <1>2, RestoreEffect
<1>4. \A d \in Conns \ {c} : u.ident[d] = i => k[d] # "up"
  BY <1>2
<1>5. Places(k, t)
  BY <1>2, <1>3, <1>4, TakeSeat
<1> QED
  BY <1>3, <1>5 DEF SeatTaken

------------------------------------------------------------------------------
(* Type correctness *)

LEMMA KickMemory ==
  ASSUME NEW s \in ServerMemory, NEW l \in Lobbies, NEW i \in Ids,
         NEW t \in KickLobbyPlayer(s, l, i)
  PROVE  t \in ServerMemory
<1>1. CASE s.seat[l][i] # NoConn
  <2>1. PICK x \in Conns : x = s.seat[l][i]
    BY <1>1 DEF ServerMemory
  <2>2. t \in LeaveLobbyClient(s, l, x)
    BY <1>1, <2>1 DEF KickLobbyPlayer
  <2> QED
    BY <2>2, LeaveEffect
<1>2. CASE s.seat[l][i] = NoConn /\ s.slot[l][i] = NoSlot
  BY <1>2 DEF KickLobbyPlayer
<1>3. CASE s.seat[l][i] = NoConn /\ s.slot[l][i] # NoSlot
  <2>1. ReleaseSlot(s, l, i) \in ServerMemory
    BY ReleaseSlotEffect
  <2>2. t \in FinalizeDeparture(ReleaseSlot(s, l, i), l, i, s.slot[l][i].isInMatch)
    BY <1>3 DEF KickLobbyPlayer
  <2> QED
    BY <2>1, <2>2, FinalizeDepartureSame DEF SamePlaces
<1> QED
  BY <1>1, <1>2, <1>3

LEMMA DisconnectMemory ==
  ASSUME NEW s \in ServerMemory, NEW l \in Lobbies, NEW c \in Conns,
         NEW t \in DisconnectLobbyClient(s, l, c)
  PROVE  t \in ServerMemory
<1>1. CASE t = s
  BY <1>1
<1>2. CASE t \in LeaveLobbyClient(s, l, c)
  BY <1>2, LeaveEffect
<1>3. CASE t = ReserveSlot(s, l, c)
  BY <1>3, ReserveEffect DEF SlotTaken
<1> QED
  BY <1>1, <1>2, <1>3 DEF DisconnectLobbyClient

LEMMA RestoreMemory ==
  ASSUME NEW s \in ServerMemory, NEW l \in Lobbies, NEW c \in Conns,
         NEW i \in Ids, NEW saved \in SavedState,
         NEW t \in RestoreDisconnectedLobbyClient(s, l, c, i, saved)
  PROVE  t \in ServerMemory
<1>1. PICK u : /\ IF s.lobbyOf[c] \notin {NoLobby, l}
                   THEN u \in LeaveLobbyClient(s, s.lobbyOf[c], c)
                   ELSE u = s
               /\ t \in Reconciled(RestoreSavedGameState(u, l, c, i, saved), l)
  BY DEF RestoreDisconnectedLobbyClient
<1>2. u \in ServerMemory
  <2>1. CASE s.lobbyOf[c] \in {NoLobby, l}
    BY <1>1, <2>1
  <2>2. CASE s.lobbyOf[c] \notin {NoLobby, l}
    <3>1. PICK from \in Lobbies : from = s.lobbyOf[c]
      BY <2>2 DEF ServerMemory
    <3> QED
      BY <1>1, <2>2, <3>1, LeaveEffect
  <2> QED
    BY <2>1, <2>2
<1> QED
  BY <1>1, <1>2, RestoreEffect DEF SeatTaken

\* The memory a rejoin starts from when the id is still seated: its holder a is
\* detached from l.
Detached(s, l, a, i) == [RemovePlayer(s, l, i) EXCEPT !.lobbyOf[a] = NoLobby]

LEMMA DetachedEffect ==
  ASSUME NEW s \in ServerMemory, NEW l \in Lobbies, NEW a \in Conns, NEW i \in Ids,
         s.ident[a] = i
  PROVE  /\ SeatLeft(s, l, a, Detached(s, l, a, i))
         /\ Detached(s, l, a, i).timer = s.timer
  BY DEF SeatLeft, Detached, RemovePlayer, ServerMemory, Ids

LEMMA TypeInit == Init => TypeOK
  BY DEF Init, TypeOK, ServerMemory, Ids

LEMMA TypeStep == TypeOK /\ [Next]_vars => TypeOK'
<1> SUFFICES ASSUME TypeOK, [Next]_vars PROVE TypeOK'
  OBVIOUS
<1> USE DEF TypeOK
<1>0. srv \in ServerMemory
  OBVIOUS
<1>1. ASSUME NEW c \in Conns, NEW l \in Lobbies, NEW k \in Codes, CreateLobby(c, l, k)
      PROVE  TypeOK'
  <2> DEFINE s == [srv EXCEPT !.code[l] = k, !.registry[k] = l,
                              !.ownerId[l] = srv.ident[c]]
  <2>1. s \in ServerMemory
    BY DEF ServerMemory, Ids
  <2>2. srv' = AttachFreshClient(s, l, c, TRUE)
    BY <1>1 DEF CreateLobby
  <2>3. link' = link
    BY <1>1 DEF CreateLobby
  <2> HIDE DEF s
  <2>4. SeatTaken(s, l, c, s.ident[c], AttachFreshClient(s, l, c, TRUE))
    BY <2>1, AttachEffect
  <2> QED
    BY <2>2, <2>3, <2>4 DEF SeatTaken
<1>2. ASSUME NEW c \in Conns, NEW l \in Lobbies, JoinLobby(c, l)
      PROVE  TypeOK'
  BY <1>0, <1>2, AttachEffect DEF SeatTaken, JoinLobby
<1>3. ASSUME NEW c \in Conns, LeaveLobby(c)
      PROVE  TypeOK'
  <2>1. PICK l \in Lobbies : l = srv.lobbyOf[c]
    BY <1>3 DEF LeaveLobby, ServerMemory
  <2> QED
    BY <1>3, <2>1, LeaveEffect DEF LeaveLobby
<1>4. ASSUME NEW c \in Conns, NEW i \in Ids, KickPlayer(c, i)
      PROVE  TypeOK'
  <2>1. PICK l \in Lobbies : l = srv.lobbyOf[c]
    BY <1>4 DEF KickPlayer, ServerMemory
  <2> QED
    BY <1>4, <2>1, KickMemory DEF KickPlayer
<1>5. ASSUME NEW c \in Conns, NEW i \in Ids, MakePlayerHost(c, i)
      PROVE  TypeOK'
  <2>1. PICK l \in Lobbies : l = srv.lobbyOf[c]
    BY <1>5 DEF MakePlayerHost, ServerMemory
  <2> QED
    BY <1>5, <2>1, SetOwnerSame DEF MakePlayerHost, SamePlaces
<1>6. ASSUME NEW c \in Conns, StartGame(c)
      PROVE  TypeOK'
  <2>1. PICK l \in Lobbies : l = srv.lobbyOf[c]
    BY <1>6 DEF StartGame, ServerMemory
  <2> DEFINE playing == [d \in Conns |-> d \in Players(srv, l) \/ srv.isInMatch[d]]
  <2>2. srv' = [srv EXCEPT !.isInMatch = playing, !.inGame[l] = TRUE]
    BY <1>6, <2>1 DEF StartGame, ServerMemory
  <2>3. playing \in [Conns -> BOOLEAN]
    OBVIOUS
  <2>4. link' = link
    BY <1>6 DEF StartGame
  <2> HIDE DEF playing
  <2>5. srv' \in ServerMemory
    BY <2>1, <2>2, <2>3 DEF ServerMemory, Ids
  <2> QED
    BY <2>4, <2>5
<1>7. ASSUME NEW c \in Conns, ReturnToLobby(c)
      PROVE  TypeOK'
  <2>1. PICK l \in Lobbies : l = srv.lobbyOf[c]
    BY <1>7 DEF ReturnToLobby, ServerMemory
  <2>2. ClearParticipation(srv, {c}) \in ServerMemory
    BY <1>0, ClearParticipationSame DEF SamePlaces
  <2> QED
    BY <1>7, <2>1, <2>2, ReconciledSame DEF ReturnToLobby, SamePlaces
<1>8. ASSUME NEW c \in Conns, NEW outOfLives \in BOOLEAN, FailRound(c, outOfLives)
      PROVE  TypeOK'
  <2>1. PICK l \in Lobbies : l = srv.lobbyOf[c]
    BY <1>8 DEF FailRound, ServerMemory
  <2> QED
    BY <1>8, <2>1, ResolveSoloEliminationsSame DEF FailRound, SamePlaces
<1>9. ASSUME NEW c \in Conns, NEW l \in Lobbies, NEW i \in Ids, RejoinLobby(c, l, i)
      PROVE  TypeOK'
  <2>1. CASE srv.slot[l][i] # NoSlot
    <3>1. srv.slot[l][i] \in SavedState
      BY <2>1 DEF ServerMemory
    <3>2. ReleaseSlot(srv, l, i) \in ServerMemory
      BY <1>0, ReleaseSlotEffect
    <3> QED
      BY <1>9, <2>1, <3>1, <3>2, RestoreMemory DEF RejoinLobby
  <2>2. CASE srv.slot[l][i] = NoSlot
    <3>1. PICK a \in Players(srv, l) :
            /\ srv.ident[a] = i
            /\ srv' \in RestoreDisconnectedLobbyClient(
                           Detached(srv, l, a, i), l, c, i,
                           [conn |-> a, isOwner |-> srv.isOwner[a],
                            isInMatch |-> srv.isInMatch[a]])
      BY <1>9, <2>2 DEF RejoinLobby, Detached
    <3>2. a \in Conns
      BY DEF Players, Seated, ServerMemory
    <3>3. Detached(srv, l, a, i) \in ServerMemory
      BY <3>1, <3>2, DetachedEffect DEF SeatLeft
    <3>4. [conn |-> a, isOwner |-> srv.isOwner[a], isInMatch |-> srv.isInMatch[a]]
            \in SavedState
      BY <3>2 DEF SavedState, ServerMemory
    <3>5. srv' \in ServerMemory
      BY <3>1, <3>3, <3>4, RestoreMemory
    <3> QED
      BY <1>9, <3>5 DEF RejoinLobby
  <2> QED
    BY <2>1, <2>2
<1>10. ASSUME NEW c \in Conns, LosePeer(c)
       PROVE  TypeOK'
  BY <1>10 DEF LosePeer
<1>11. ASSUME NEW c \in Conns, Disconnect(c)
       PROVE  TypeOK'
  <2>1. CASE srv.lobbyOf[c] = NoLobby
    BY <1>11, <2>1 DEF Disconnect
  <2>2. CASE srv.lobbyOf[c] # NoLobby
    <3>1. PICK l \in Lobbies : l = srv.lobbyOf[c]
      BY <2>2 DEF ServerMemory
    <3>2. srv' \in ServerMemory
      BY <1>11, <2>2, <3>1, DisconnectMemory DEF Disconnect
    <3> QED
      BY <1>11, <3>2 DEF Disconnect
  <2> QED
    BY <2>1, <2>2
<1>12. ASSUME NEW c \in Conns, ExpireDisconnectedLobbyClient(c)
       PROVE  TypeOK'
  <2>1. PICK l \in Lobbies : l = srv.timer[c]
    BY <1>12 DEF ExpireDisconnectedLobbyClient, ServerMemory
  <2> DEFINE s == [srv EXCEPT !.timer[c] = NoLobby, !.slot[l][srv.ident[c]] = NoSlot]
  <2>2. s \in ServerMemory
    BY DEF ServerMemory, Ids
  <2>3. srv' \in LeaveLobbyClient(s, l, c)
    BY <1>12, <2>1 DEF ExpireDisconnectedLobbyClient
  <2> HIDE DEF s
  <2> QED
    BY <1>12, <2>2, <2>3, LeaveEffect DEF ExpireDisconnectedLobbyClient
<1>13. ASSUME NEW l \in Lobbies, NEW D, ExpireLobbyAnteTimer(l, D)
       PROVE  TypeOK'
  BY <1>13, ResolveSoloEliminationsSame DEF ExpireLobbyAnteTimer, SamePlaces
<1>14. CASE UNCHANGED vars
  BY <1>14 DEF vars
<1> QED
  BY <1>1, <1>2, <1>3, <1>4, <1>5, <1>6, <1>7, <1>8, <1>9, <1>10, <1>11, <1>12,
     <1>13, <1>14 DEF Next, MessageHandler

\* Every reachable state has the declared types, whatever the peers send.
THEOREM TypeCorrect == Spec => []TypeOK
<1>1. Init => TypeOK
  BY TypeInit
<1>2. TypeOK /\ [Next]_vars => TypeOK'
  BY TypeStep
<1> QED
  BY <1>1, <1>2, PTL DEF Spec

------------------------------------------------------------------------------
(* One place per player *)

LEMMA KickKeeps ==
  ASSUME NEW k \in LinkState, NEW s \in ServerMemory, Places(k, s),
         NEW l \in Lobbies, NEW i \in Ids, NEW t \in KickLobbyPlayer(s, l, i)
  PROVE  Places(k, t)
<1>1. CASE s.seat[l][i] # NoConn
  <2>1. PICK x \in Conns : x = s.seat[l][i]
    BY <1>1 DEF ServerMemory
  <2>2. t \in LeaveLobbyClient(s, l, x)
    BY <1>1, <2>1 DEF KickLobbyPlayer
  <2>3. s.lobbyOf[x] = l
    BY <1>1, <2>1 DEF Places, SeatsHeld
  <2> QED
    BY <2>2, <2>3, LeaveKeeps
<1>2. CASE s.seat[l][i] = NoConn /\ s.slot[l][i] = NoSlot
  BY <1>2 DEF KickLobbyPlayer
<1>3. CASE s.seat[l][i] = NoConn /\ s.slot[l][i] # NoSlot
  <2> DEFINE r == ReleaseSlot(s, l, i)
  <2>1. /\ r \in ServerMemory
        /\ r.ident = s.ident /\ r.lobbyOf = s.lobbyOf /\ r.seat = s.seat
        /\ r.slot = [s.slot EXCEPT ![l][i] = NoSlot]
        /\ r.timer = Freed(s, l, i)
    BY ReleaseSlotEffect
  <2>2. t \in FinalizeDeparture(r, l, i, s.slot[l][i].isInMatch)
    BY <1>3 DEF KickLobbyPlayer
  <2> HIDE DEF r
  <2>3. Places(k, r)
    BY <2>1, VacateSlot
  <2>4. SamePlaces(r, t)
    BY <2>1, <2>2, FinalizeDepartureSame
  <2> QED
    BY <2>1, <2>3, <2>4, SamePlacesKeep
<1> QED
  BY <1>1, <1>2, <1>3

\* The timer of c fires in l and its slot is dropped.
Expired(s, l, c) ==
  [s EXCEPT !.timer[c] = NoLobby, !.slot[l][s.ident[c]] = NoSlot]

\* A client that holds no place in l anyway leaves l when its timer fires.
LEMMA ExpireKeeps ==
  ASSUME NEW k \in LinkState, NEW s \in ServerMemory, Places(k, s),
         NEW l \in Lobbies, NEW c \in Conns, s.timer[c] = l,
         NEW t \in LeaveLobbyClient(Expired(s, l, c), l, c)
  PROVE  Places(k, t)
<1> DEFINE i == s.ident[c]
           r == Expired(s, l, c)
<1>0. l # NoLobby
  BY ConstantsAssumption
<1>1. /\ i \in Ids /\ s.slot[l][i] # NoSlot /\ s.slot[l][i].conn = c
      /\ k[c] = "down"
  BY <1>0 DEF Places, SlotsHeld, ServerMemory
<1>2. /\ r \in ServerMemory
      /\ r.ident = s.ident /\ r.lobbyOf = s.lobbyOf /\ r.seat = s.seat
      /\ r.slot = [s.slot EXCEPT ![l][i] = NoSlot]
      /\ r.timer = [s.timer EXCEPT ![c] = NoLobby]
  BY <1>1 DEF Expired, ServerMemory, Ids
<1>a. t \in LeaveLobbyClient(r, l, c)
  OBVIOUS
<1> HIDE DEF i, r
<1>3. r.timer = Freed(s, l, i)
  BY <1>1, <1>2 DEF Freed
<1>4. Places(k, r)
  BY <1>1, <1>2, <1>3, VacateSlot
<1>5. /\ t \in ServerMemory
      /\ t.ident = r.ident
      /\ t.lobbyOf = [r.lobbyOf EXCEPT ![c] = NoLobby]
      /\ t.seat = [r.seat EXCEPT ![l][r.ident[c]] = NoConn]
      /\ t.slot = [r.slot EXCEPT ![l][r.ident[c]] = NoSlot]
      /\ t.timer = Freed(r, l, r.ident[c])
      /\ t.code = r.code
  BY <1>2, <1>a, LeaveEffect
<1>6. r.ident[c] = i
  BY <1>2 DEF i
<1>7. r.seat[l][i] = NoConn
  BY <1>1, <1>2 DEF Places, SlotsHeld
<1>8. r.slot[l][i] = NoSlot
  BY <1>1, <1>2 DEF ServerMemory
<1>9. r.lobbyOf[c] = NoLobby
  <2>1. CASE s.lobbyOf[c] = NoLobby
    BY <1>2, <2>1
  <2>2. CASE s.lobbyOf[c] # NoLobby
    <3>1. s.lobbyOf[c] \in Lobbies /\ s.seat[s.lobbyOf[c]][i] = c
      BY <2>2 DEF Places, SeatsHeld, ServerMemory, i
    <3>2. c # NoConn
      BY ConstantsAssumption
    <3> QED
      BY <1>1, <3>1, <3>2 DEF Places, SeatsHeld
  <2> QED
    BY <2>1, <2>2
<1>10. t.lobbyOf = r.lobbyOf
  BY <1>2, <1>5, <1>9 DEF ServerMemory
<1>11. t.seat = r.seat
  BY <1>1, <1>2, <1>5, <1>6, <1>7 DEF ServerMemory
<1>12. t.slot = r.slot
  <2>1. t.slot = [r.slot EXCEPT ![l][i] = NoSlot]
    BY <1>5, <1>6
  <2>2. r \in ServerMemory
    BY <1>2
  <2> QED
    BY <1>1, <1>8, <2>1, <2>2 DEF ServerMemory
<1>13. t.timer = r.timer
  BY <1>5, <1>6, <1>8 DEF Freed
<1>14. SamePlaces(r, t)
  BY <1>5, <1>10, <1>11, <1>12, <1>13 DEF SamePlaces
<1> QED
  BY <1>2, <1>4, <1>14, SamePlacesKeep

LEMMA PlacesInit == Init => PlacesInv
<1> SUFFICES ASSUME Init PROVE Places(link, srv)
  BY TypeInit DEF PlacesInv
<1> QED
  BY DEF Init, Places, SeatsHeld, SlotsHeld, LiveHolders, Ids

\* What a well-behaved peer takes with it into a lobby is a player without a
\* place: it may be seated there under its own id.
LEMMA EntryKeeps ==
  ASSUME NEW k \in LinkState, NEW s \in ServerMemory, Places(k, s),
         NEW l \in Lobbies, NEW c \in Conns, k[c] = "up", s.lobbyOf[c] = NoLobby,
         NEW t, SeatTaken(s, l, c, s.ident[c], t)
  PROVE  Places(k, t)
<1>1. s.ident[c] \in Ids
  BY DEF ServerMemory
<1>2. \A m \in Lobbies : s.slot[m][s.ident[c]] = NoSlot /\ s.seat[m][s.ident[c]] = NoConn
  BY <1>1, NoSeatWithoutLobby DEF Places, LiveHolders
<1>3. \A d \in Conns \ {c} : s.ident[d] = s.ident[c] => k[d] # "up"
  BY DEF Places, LiveHolders
<1> QED
  BY <1>1, <1>2, <1>3, TakeSeat

LEMMA PlacesStep ==
  ASSUME Disciplined, TypeOK, PlacesInv, [Next]_vars
  PROVE  Places(link, srv)'
<1>0. srv \in ServerMemory /\ link \in LinkState /\ Places(link, srv)
  BY DEF PlacesInv, TypeOK, LinkState
<1>1. ASSUME NEW c \in Conns, NEW l \in Lobbies, NEW k \in Codes, CreateLobby(c, l, k)
      PROVE  Places(link, srv)'
  <2> DEFINE s == [srv EXCEPT !.code[l] = k, !.registry[k] = l,
                              !.ownerId[l] = srv.ident[c]]
  <2>1. /\ s \in ServerMemory
        /\ s.ident = srv.ident /\ s.lobbyOf = srv.lobbyOf /\ s.seat = srv.seat
        /\ s.slot = srv.slot /\ s.timer = srv.timer
    BY <1>0 DEF ServerMemory, Ids
  <2>2. srv' = AttachFreshClient(s, l, c, TRUE)
    BY <1>1 DEF CreateLobby
  <2>3. link' = link /\ link[c] = "up" /\ srv.lobbyOf[c] = NoLobby
    BY <1>1 DEF CreateLobby, MayEnter
  <2> HIDE DEF s
  <2>4. SeatTaken(s, l, c, s.ident[c], srv')
    BY <2>1, <2>2, AttachEffect
  <2>5. SeatTaken(srv, l, c, srv.ident[c], srv')
    BY <2>1, <2>4 DEF SeatTaken
  <2> QED
    BY <1>0, <2>3, <2>5, EntryKeeps
<1>2. ASSUME NEW c \in Conns, NEW l \in Lobbies, JoinLobby(c, l)
      PROVE  Places(link, srv)'
  <2>1. link' = link /\ link[c] = "up" /\ srv.lobbyOf[c] = NoLobby
    BY <1>2 DEF JoinLobby, MayEnter
  <2>2. SeatTaken(srv, l, c, srv.ident[c], srv')
    BY <1>0, <1>2, AttachEffect DEF JoinLobby
  <2> QED
    BY <1>0, <2>1, <2>2, EntryKeeps
<1>3. ASSUME NEW c \in Conns, LeaveLobby(c)
      PROVE  Places(link, srv)'
  <2>1. PICK l \in Lobbies : l = srv.lobbyOf[c]
    BY <1>0, <1>3 DEF LeaveLobby, ServerMemory
  <2>2. srv' \in LeaveLobbyClient(srv, l, c) /\ link' = link
    BY <1>3, <2>1 DEF LeaveLobby
  <2> QED
    BY <1>0, <2>1, <2>2, LeaveKeeps
<1>4. ASSUME NEW c \in Conns, NEW i \in Ids, KickPlayer(c, i)
      PROVE  Places(link, srv)'
  <2>1. PICK l \in Lobbies : l = srv.lobbyOf[c]
    BY <1>0, <1>4 DEF KickPlayer, ServerMemory
  <2>2. srv' \in KickLobbyPlayer(srv, l, i) /\ link' = link
    BY <1>4, <2>1 DEF KickPlayer
  <2> QED
    BY <1>0, <2>2, KickKeeps
<1>5. ASSUME SamePlaces(srv, srv'), link' = link
      PROVE  Places(link, srv)'
  BY <1>0, <1>5, SamePlacesKeep
<1>6. ASSUME NEW c \in Conns, NEW i \in Ids, MakePlayerHost(c, i)
      PROVE  Places(link, srv)'
  <2>1. PICK l \in Lobbies : l = srv.lobbyOf[c]
    BY <1>0, <1>6 DEF MakePlayerHost, ServerMemory
  <2> QED
    BY <1>0, <1>5, <1>6, <2>1, SetOwnerSame DEF MakePlayerHost
<1>7. ASSUME NEW c \in Conns, StartGame(c)
      PROVE  Places(link, srv)'
  <2>1. srv' \in ServerMemory
    BY TypeStep DEF TypeOK
  <2>2. link' = link
    BY <1>7 DEF StartGame
  <2>3. /\ srv'.ident = srv.ident /\ srv'.lobbyOf = srv.lobbyOf
        /\ srv'.seat = srv.seat /\ srv'.slot = srv.slot
        /\ srv'.timer = srv.timer /\ srv'.code = srv.code
    BY <1>0, <1>7 DEF StartGame, ServerMemory
  <2> QED
    BY <1>5, <2>1, <2>2, <2>3 DEF SamePlaces
<1>8. ASSUME NEW c \in Conns, ReturnToLobby(c)
      PROVE  Places(link, srv)'
  <2>1. PICK l \in Lobbies : l = srv.lobbyOf[c]
    BY <1>0, <1>8 DEF ReturnToLobby, ServerMemory
  <2>2. SamePlaces(srv, ClearParticipation(srv, {c}))
    BY <1>0, ClearParticipationSame
  <2>3. SamePlaces(ClearParticipation(srv, {c}), srv')
    BY <1>8, <2>1, <2>2, ReconciledSame DEF ReturnToLobby, SamePlaces
  <2> QED
    BY <1>5, <1>8, <2>2, <2>3, SamePlacesTransitive DEF ReturnToLobby
<1>9. ASSUME NEW c \in Conns, NEW outOfLives \in BOOLEAN, FailRound(c, outOfLives)
      PROVE  Places(link, srv)'
  <2>1. PICK l \in Lobbies : l = srv.lobbyOf[c]
    BY <1>0, <1>9 DEF FailRound, ServerMemory
  <2> QED
    BY <1>0, <1>5, <1>9, <2>1, ResolveSoloEliminationsSame DEF FailRound
<1>10. ASSUME NEW c \in Conns, NEW l \in Lobbies, NEW i \in Ids, RejoinLobby(c, l, i)
       PROVE  Places(link, srv)'
  <2>0. /\ link' = link /\ link[c] = "up"
        /\ \A d \in Conns \ {c} : srv.ident[d] = i => link[d] # "up"
        /\ srv.lobbyOf[c] = l => srv.ident[c] = i
    BY <1>10 DEF RejoinLobby, MayReclaim
  <2>1. CASE srv.slot[l][i] # NoSlot
    <3> DEFINE r == ReleaseSlot(srv, l, i)
    <3>1. srv.slot[l][i] \in SavedState
      BY <1>0, <2>1 DEF ServerMemory
    <3>2. /\ r \in ServerMemory
          /\ r.ident = srv.ident /\ r.lobbyOf = srv.lobbyOf /\ r.seat = srv.seat
          /\ r.slot = [srv.slot EXCEPT ![l][i] = NoSlot]
          /\ r.timer = Freed(srv, l, i)
      BY <1>0, ReleaseSlotEffect
    <3>3. srv' \in RestoreDisconnectedLobbyClient(r, l, c, i, srv.slot[l][i])
      BY <1>10, <2>1 DEF RejoinLobby
    <3> HIDE DEF r
    <3>4. Places(link, r)
      BY <1>0, <3>2, VacateSlot
    <3>5. \A m \in Lobbies : r.slot[m][i] = NoSlot /\ r.seat[m][i] = NoConn
      BY <1>0, <2>1, <3>2 DEF Places, SlotsHeld, ServerMemory
    <3>6. r.lobbyOf[c] # l
      <4>1. srv.ident[c] # i
        BY <1>0, <2>0, <2>1 DEF Places, LiveHolders
      <4> QED
        BY <2>0, <3>2, <4>1
    <3>7. \A d \in Conns \ {c} : r.ident[d] = i => link[d] # "up"
      BY <2>0, <3>2
    <3> QED
      BY <1>0, <2>0, <3>1, <3>2, <3>3, <3>4, <3>5, <3>6, <3>7, RestoreKeeps
  <2>2. CASE srv.slot[l][i] = NoSlot
    <3>1. i # srv.ident[c]
      BY <1>10, <2>2 DEF RejoinLobby
    <3>2. PICK a \in Players(srv, l) :
            /\ srv.ident[a] = i
            /\ srv' \in RestoreDisconnectedLobbyClient(
                           Detached(srv, l, a, i), l, c, i,
                           [conn |-> a, isOwner |-> srv.isOwner[a],
                            isInMatch |-> srv.isInMatch[a]])
      BY <1>10, <2>2 DEF RejoinLobby, Detached
    <3>3. a \in Conns /\ srv.seat[l][i] = a /\ srv.lobbyOf[a] = l
      BY <1>0, <3>2 DEF Players, Seated, ServerMemory, Places, SeatsHeld
    <3> DEFINE r == Detached(srv, l, a, i)
               saved == [conn |-> a, isOwner |-> srv.isOwner[a],
                         isInMatch |-> srv.isInMatch[a]]
    <3>4. SeatLeft(srv, l, a, r) /\ r.timer = srv.timer
      BY <1>0, <3>2, <3>3, DetachedEffect
    <3>5. saved \in SavedState
      BY <1>0, <3>3 DEF SavedState, ServerMemory
    <3>6. srv' \in RestoreDisconnectedLobbyClient(r, l, c, i, saved)
      BY <3>2
    <3> HIDE DEF r, saved
    <3>7. Places(link, r)
      BY <1>0, <3>3, <3>4, SeatLeftKeeps
    <3>8. \A m \in Lobbies : r.slot[m][i] = NoSlot /\ r.seat[m][i] = NoConn
      <4>1. a # NoConn
        BY <3>3, ConstantsAssumption
      <4>2. \A m \in Lobbies : srv.slot[m][i] = NoSlot
        BY <1>0, <3>3, <4>1 DEF Places, SlotsHeld
      <4>3. \A m \in Lobbies : srv.seat[m][i] # NoConn => m = l
        BY <1>0, <3>3, <4>1 DEF Places, SeatsHeld
      <4> QED
        BY <1>0, <3>2, <3>4, <4>2, <4>3 DEF SeatLeft, ServerMemory
    <3>9. r.lobbyOf[c] # l
      <4>1. c # a
        BY <3>1, <3>2
      <4> QED
        BY <1>0, <2>0, <3>1, <3>4, <4>1 DEF SeatLeft, ServerMemory
    <3>10. \A d \in Conns \ {c} : r.ident[d] = i => link[d] # "up"
      BY <2>0, <3>4 DEF SeatLeft
    <3>11. r \in ServerMemory
      BY <3>4 DEF SeatLeft
    <3> QED
      BY <1>0, <2>0, <3>5, <3>6, <3>7, <3>8, <3>9, <3>10, <3>11, RestoreKeeps
  <2> QED
    BY <2>1, <2>2
<1>11. ASSUME NEW c \in Conns, LosePeer(c)
       PROVE  Places(link, srv)'
  BY <1>0, <1>11, LinkLost DEF LosePeer
<1>12. ASSUME NEW c \in Conns, Disconnect(c)
       PROVE  Places(link, srv)'
  <2>1. link' = [link EXCEPT ![c] = "down"] /\ link[c] # "down"
    BY <1>12 DEF Disconnect
  <2>2. CASE srv.lobbyOf[c] = NoLobby
    <3>1. srv' = srv
      BY <1>12, <2>2 DEF Disconnect
    <3> QED
      BY <1>0, <2>1, <2>2, <3>1, LinkDown
  <2>3. CASE srv.lobbyOf[c] # NoLobby
    <3>1. PICK l \in Lobbies : l = srv.lobbyOf[c]
      BY <1>0, <2>3 DEF ServerMemory
    <3>2. srv' \in DisconnectLobbyClient(srv, l, c)
      BY <1>12, <2>3, <3>1 DEF Disconnect
    <3>3. srv.seat[l][srv.ident[c]] # NoConn
      BY <1>0, <2>3, <3>1, ConstantsAssumption DEF Places, SeatsHeld
    <3>4. CASE srv' \in LeaveLobbyClient(srv, l, c)
      <4>1. Places(link, srv') /\ SeatLeft(srv, l, c, srv')
        BY <1>0, <3>1, <3>4, LeaveKeeps
      <4>2. srv' \in ServerMemory /\ srv'.lobbyOf[c] = NoLobby
        BY <1>0, <4>1 DEF SeatLeft, ServerMemory
      <4> QED
        BY <1>0, <2>1, <4>1, <4>2, LinkDown
    <3>5. CASE srv' = ReserveSlot(srv, l, c)
      BY <1>0, <2>1, <3>1, <3>5, ReserveKeeps
    <3> QED
      BY <3>2, <3>3, <3>4, <3>5 DEF DisconnectLobbyClient
  <2> QED
    BY <2>2, <2>3
<1>13. ASSUME NEW c \in Conns, ExpireDisconnectedLobbyClient(c)
       PROVE  Places(link, srv)'
  <2>1. PICK l \in Lobbies : l = srv.timer[c]
    BY <1>0, <1>13 DEF ExpireDisconnectedLobbyClient, ServerMemory
  <2>2. srv' \in LeaveLobbyClient(Expired(srv, l, c), l, c) /\ link' = link
    BY <1>13, <2>1 DEF ExpireDisconnectedLobbyClient, Expired
  <2> QED
    BY <1>0, <2>1, <2>2, ExpireKeeps
<1>14. ASSUME NEW l \in Lobbies, NEW D, ExpireLobbyAnteTimer(l, D)
       PROVE  Places(link, srv)'
  BY <1>0, <1>5, <1>14, ResolveSoloEliminationsSame DEF ExpireLobbyAnteTimer
<1>15. CASE UNCHANGED vars
  BY <1>0, <1>15 DEF vars
<1> QED
  BY <1>1, <1>2, <1>3, <1>4, <1>6, <1>7, <1>8, <1>9, <1>10, <1>11, <1>12, <1>13,
     <1>14, <1>15 DEF Next, MessageHandler

\* When peers leave one lobby before they enter another, seats, slots, timers
\* and links always fit together.
THEOREM PlacesCorrect == Disciplined => (Spec => []PlacesInv)
<1> SUFFICES ASSUME Disciplined PROVE Spec => []PlacesInv
  OBVIOUS
<1>1. Init => PlacesInv
  BY PlacesInit
<1>2. PlacesInv /\ [Next]_vars => PlacesInv'
  BY TypeStep, PlacesStep DEF PlacesInv
<1> QED
  BY <1>1, <1>2, PTL DEF Spec

LEMMA PlacesInvImplies ==
  ASSUME PlacesInv
  PROVE  SeatsMatchClients /\ OnePlacePerPlayer /\ PlayersAreConnected /\ TimersMatchSlots
<1>0. srv \in ServerMemory /\ Places(link, srv)
  BY DEF PlacesInv, TypeOK
<1>1. SeatsMatchClients
  BY <1>0 DEF SeatsMatchClients, Seated, Places, SeatsHeld, ServerMemory
<1>2. OnePlacePerPlayer
  BY <1>0 DEF OnePlacePerPlayer, Seated, Reserved, Places, SeatsHeld, SlotsHeld
<1>3. PlayersAreConnected
  BY <1>0 DEF PlayersAreConnected, Players, Seated, Places, SeatsHeld
<1>4. TimersMatchSlots
  BY <1>0 DEF TimersMatchSlots, Reserved, Places, SlotsHeld, ServerMemory
<1> QED
  BY <1>1, <1>2, <1>3, <1>4

\* No ghost entries and no seatless members.
THEOREM SeatsCorrect == Disciplined => (Spec => []SeatsMatchClients)
<1>1. PlacesInv => SeatsMatchClients
  BY PlacesInvImplies
<1> QED
  BY <1>1, PlacesCorrect, PTL

\* A player never has two seats, two slots, or a seat and a slot.
THEOREM OnePlaceCorrect == Disciplined => (Spec => []OnePlacePerPlayer)
<1>1. PlacesInv => OnePlacePerPlayer
  BY PlacesInvImplies
<1> QED
  BY <1>1, PlacesCorrect, PTL

\* No closed socket keeps a seat.
THEOREM ConnectedCorrect == Disciplined => (Spec => []PlayersAreConnected)
<1>1. PlacesInv => PlayersAreConnected
  BY PlacesInvImplies
<1> QED
  BY <1>1, PlacesCorrect, PTL

\* A slot has its timer and a timer its slot.
THEOREM TimersCorrect == Disciplined => (Spec => []TimersMatchSlots)
<1>1. PlacesInv => TimersMatchSlots
  BY PlacesInvImplies
<1> QED
  BY <1>1, PlacesCorrect, PTL

------------------------------------------------------------------------------
(* Hosts and the registry *)

Populated(s, l) == \E i \in Ids : s.seat[l][i] # NoConn

\* The owner flags of l's players and reserved slots name the player of ownerId.
Flags(s, l) ==
  \A i \in Ids :
    /\ s.seat[l][i] # NoConn => (s.isOwner[s.seat[l][i]] <=> i = s.ownerId[l])
    /\ s.slot[l][i] # NoSlot => (s.slot[l][i].isOwner <=> i = s.ownerId[l])

Owned(s, l) ==
  /\ s.ownerId[l] \in Ids
  /\ s.seat[l][s.ownerId[l]] # NoConn \/ s.slot[l][s.ownerId[l]] # NoSlot

\* A lobby somebody has a place in was given a code.
InUse(s, l) ==
  \A i \in Ids : s.seat[l][i] # NoConn \/ s.slot[l][i] # NoSlot => s.code[l] # NoCode

\* l is found under its own code, and as long as codes are not drawn again also
\* whenever it has players.
Enlisted(s, l) ==
  /\ \A k \in Codes : s.registry[k] = l => s.code[l] = k
  /\ ~CodeReuse /\ Populated(s, l) => Registered(s, l)

\* What holds of a lobby while its host may be missing.
Kept(s, l) == Flags(s, l) /\ InUse(s, l) /\ Enlisted(s, l)

LobbyInOrder(s, l) ==
  /\ Kept(s, l)
  /\ Populated(s, l) => Owned(s, l)
  /\ Registered(s, l) => Populated(s, l)

CodesDiffer(s) ==
  ~CodeReuse => \A l, m \in Lobbies : s.code[l] = s.code[m] /\ s.code[l] # NoCode => l = m

Hosts(s) == CodesDiffer(s) /\ \A l \in Lobbies : LobbyInOrder(s, l)

\* What holds while one lobby has just lost or is about to get a player.
AllKept(s) == CodesDiffer(s) /\ \A l \in Lobbies : Kept(s, l)

\* Seated clients sit where they believe they sit.
Rooted(s) ==
  \A l \in Lobbies, i \in Ids : s.seat[l][i] # NoConn => s.lobbyOf[s.seat[l][i]] = l

HostsInv == PlacesInv /\ Hosts(srv)

------------------------------------------------------------------------------
\* Nothing that matters to the host and the registration of m differs in t.
SameLobby(s, t, m) ==
  /\ t.seat[m] = s.seat[m] /\ t.slot[m] = s.slot[m]
  /\ t.ownerId[m] = s.ownerId[m] /\ t.code[m] = s.code[m]
  /\ \A i \in Ids : s.seat[m][i] # NoConn => t.isOwner[s.seat[m][i]] = s.isOwner[s.seat[m][i]]
  /\ \A k \in Codes : t.registry[k] = m => s.registry[k] = m
  /\ ~CodeReuse => \A k \in Codes : s.registry[k] = m => t.registry[k] = m

LEMMA SameLobbyKeeps ==
  ASSUME NEW s, NEW t, NEW m, SameLobby(s, t, m)
  PROVE  /\ Kept(s, m) => Kept(t, m)
         /\ LobbyInOrder(s, m) => LobbyInOrder(t, m)
<1>1. Populated(t, m) = Populated(s, m)
  BY DEF SameLobby, Populated
<1>2. Registered(t, m) => Registered(s, m)
  BY DEF SameLobby, Registered
<1>3. ~CodeReuse => (Registered(s, m) => Registered(t, m))
  BY DEF SameLobby, Registered
<1>4. Flags(s, m) => Flags(t, m)
  BY DEF SameLobby, Flags
<1>5. InUse(s, m) => InUse(t, m)
  BY DEF SameLobby, InUse
<1>6. Enlisted(s, m) => Enlisted(t, m)
  BY <1>1, <1>3 DEF SameLobby, Enlisted
<1>7. Owned(s, m) => Owned(t, m)
  BY DEF SameLobby, Owned
<1> QED
  BY <1>1, <1>2, <1>4, <1>5, <1>6, <1>7 DEF Kept, LobbyInOrder

\* Steps that change no host, no seat and no registration.
SameHosts(s, t) ==
  /\ SamePlaces(s, t)
  /\ t.isOwner = s.isOwner /\ t.ownerId = s.ownerId /\ t.registry = s.registry

\* A step that concerns lobby l alone.
Elsewhere(s, t, l) == CodesDiffer(t) /\ \A m \in Lobbies \ {l} : SameLobby(s, t, m)

LEMMA ElsewhereTransitive ==
  ASSUME NEW s, NEW t, NEW u, NEW l, Elsewhere(s, t, l), Elsewhere(t, u, l)
  PROVE  Elsewhere(s, u, l)
<1> SUFFICES ASSUME NEW m \in Lobbies \ {l} PROVE SameLobby(s, u, m)
  BY DEF Elsewhere
<1>1. SameLobby(s, t, m) /\ SameLobby(t, u, m)
  BY DEF Elsewhere
<1> QED
  BY <1>1 DEF SameLobby

LEMMA ElsewhereKeeps ==
  ASSUME NEW s, NEW t, NEW l \in Lobbies, Elsewhere(s, t, l)
  PROVE  /\ AllKept(s) /\ Kept(t, l) => AllKept(t)
         /\ \A m \in Lobbies \ {l} : LobbyInOrder(s, m) => LobbyInOrder(t, m)
         /\ Hosts(s) /\ LobbyInOrder(t, l) => Hosts(t)
  BY SameLobbyKeeps DEF Elsewhere, AllKept, Hosts

LEMMA HostsAllKept == ASSUME NEW s, Hosts(s) PROVE AllKept(s)
  BY DEF Hosts, AllKept, LobbyInOrder

LEMMA SameHostsElsewhere ==
  ASSUME NEW s, NEW t, SameHosts(s, t), CodesDiffer(s), NEW l \in Lobbies
  PROVE  /\ Elsewhere(s, t, l)
         /\ LobbyInOrder(s, l) => LobbyInOrder(t, l)
<1>1. ASSUME NEW m \in Lobbies PROVE SameLobby(s, t, m)
  BY DEF SameLobby, SameHosts, SamePlaces
<1>2. CodesDiffer(t)
  BY DEF CodesDiffer, SameHosts, SamePlaces
<1> QED
  BY <1>1, <1>2, SameLobbyKeeps DEF Elsewhere

LEMMA SameHostsKeeps ==
  ASSUME NEW s, NEW t, SameHosts(s, t), Hosts(s) PROVE Hosts(t)
<1>1. ASSUME NEW m \in Lobbies PROVE SameLobby(s, t, m)
  BY DEF SameLobby, SameHosts, SamePlaces
<1>2. CodesDiffer(t)
  BY DEF Hosts, CodesDiffer, SameHosts, SamePlaces
<1> QED
  BY <1>1, <1>2, SameLobbyKeeps DEF Hosts

LEMMA ClearParticipationHosts ==
  ASSUME NEW s \in ServerMemory, NEW D PROVE SameHosts(s, ClearParticipation(s, D))
  BY ClearParticipationSame DEF SameHosts, ClearParticipation, ServerMemory

LEMMA ResolveHosts ==
  ASSUME NEW s \in ServerMemory, NEW l \in Lobbies, NEW D
  PROVE  SameHosts(s, ResolveSoloEliminations(s, l, D))
<1>1. SamePlaces(s, ResolveSoloEliminations(s, l, D))
  BY ResolveSoloEliminationsSame
<1> QED
  BY <1>1 DEF SameHosts, ResolveSoloEliminations, FinishMatch, ClearParticipation, ServerMemory

LEMMA ReconciledHosts ==
  ASSUME NEW s \in ServerMemory, NEW l \in Lobbies, NEW t \in Reconciled(s, l)
  PROVE  SameHosts(s, t)
<1>1. PICK D : t = ReconcileActiveMatchState(s, l, D)
  BY DEF Reconciled
<1>2. SameHosts(s, s)
  BY MemoryItself DEF SameHosts
<1> QED
  BY <1>1, <1>2, ResolveHosts DEF ReconcileActiveMatchState

\* A seated player becomes the host of a lobby whose reserved players are not.
LEMMA SetOwnerHosts ==
  ASSUME NEW s \in ServerMemory, Rooted(s), AllKept(s), NEW l \in Lobbies, NEW i \in Ids,
         s.seat[l][i] # NoConn,
         \A c \in Conns, j \in Ids : s.seat[l][j] = c => s.ident[c] = j,
         \A j \in Ids : s.slot[l][j] # NoSlot => j # i /\ ~s.slot[l][j].isOwner
  PROVE  Elsewhere(s, SetOwner(s, l, i), l) /\ LobbyInOrder(SetOwner(s, l, i), l)
<1> DEFINE t == SetOwner(s, l, i)
<1>1. t = [s EXCEPT !.ownerId[l] = i,
                    !.isOwner = [c \in Conns |->
                       IF c \in Players(s, l) THEN s.ident[c] = i ELSE s.isOwner[c]]]
  BY DEF SetOwner
<1>2. /\ t.seat = s.seat /\ t.slot = s.slot /\ t.code = s.code /\ t.registry = s.registry
      /\ t.ownerId = [s.ownerId EXCEPT ![l] = i]
      /\ t.isOwner = [c \in Conns |-> IF c \in Players(s, l) THEN s.ident[c] = i ELSE s.isOwner[c]]
  BY <1>1 DEF ServerMemory
<1> HIDE DEF t
<1>3. CodesDiffer(t)
  BY <1>2 DEF AllKept, CodesDiffer
<1>4. ASSUME NEW m \in Lobbies \ {l} PROVE SameLobby(s, t, m)
  <2>1. \A j \in Ids : s.seat[m][j] # NoConn => s.seat[m][j] \in Conns \ Players(s, l)
    BY DEF Rooted, Players, Seated, ServerMemory
  <2> QED
    BY <1>2, <2>1 DEF SameLobby, ServerMemory
<1>5. LobbyInOrder(t, l)
  <2>1. t.ownerId[l] = i
    BY <1>2 DEF ServerMemory
  <2>2. \A j \in Ids : s.seat[l][j] # NoConn =>
          /\ s.seat[l][j] \in Conns /\ s.seat[l][j] \in Players(s, l) /\ s.ident[s.seat[l][j]] = j
    BY DEF Players, Seated, ServerMemory
  <2>3. Flags(t, l)
    <3>1. ASSUME NEW j \in Ids, s.seat[l][j] # NoConn
          PROVE  t.isOwner[s.seat[l][j]] <=> j = i
      <4>1. t.isOwner[s.seat[l][j]] = (s.ident[s.seat[l][j]] = i)
        BY <1>2, <2>2, <3>1
      <4> QED
        BY <2>2, <3>1, <4>1
    <3>2. ASSUME NEW j \in Ids, s.slot[l][j] # NoSlot
          PROVE  s.slot[l][j].isOwner <=> j = i
      BY <3>2
    <3> QED
      BY <1>2, <2>1, <3>1, <3>2 DEF Flags
  <2>4. InUse(t, l) /\ Enlisted(t, l)
    BY <1>2 DEF AllKept, Kept, InUse, Enlisted, Registered, Populated
  <2>5. Owned(t, l) /\ Populated(t, l)
    BY <1>2, <2>1 DEF Owned, Populated
  <2> QED
    BY <2>3, <2>4, <2>5 DEF LobbyInOrder, Kept
<1> QED
  BY <1>3, <1>4, <1>5 DEF Elsewhere, t

\* The seats of l as far as its host is concerned.
SeatsOf(s, l) ==
  \A i \in Ids : s.seat[l][i] # NoConn =>
    /\ s.seat[l][i] \in Conns /\ s.ident[s.seat[l][i]] = i
    /\ s.slot[l][i] = NoSlot

\* The departed player i has no place in l any more; if it was the host, the
\* first of the others inherits.
LEMMA FinalizeHosts ==
  ASSUME NEW s \in ServerMemory, Rooted(s), AllKept(s), NEW l \in Lobbies, NEW i \in Ids,
         s.seat[l][i] = NoConn, s.slot[l][i] = NoSlot, SeatsOf(s, l),
         Populated(s, l) => s.ownerId[l] = i \/ Owned(s, l),
         NEW was, NEW t \in FinalizeDeparture(s, l, i, was)
  PROVE  Elsewhere(s, t, l) /\ LobbyInOrder(t, l)
<1>0. Populated(s, l) <=> Seated(s, l) # {}
  BY DEF Populated, Seated
<1>1. CASE Seated(s, l) = {}
  <2>1. t = [s EXCEPT !.registry[s.code[l]] = NoLobby]
    BY <1>1 DEF FinalizeDeparture, RemoveLobbyByCode
  <2>2. /\ t.seat = s.seat /\ t.slot = s.slot /\ t.code = s.code /\ t.ownerId = s.ownerId
        /\ t.isOwner = s.isOwner
        /\ \A k \in Codes : t.registry[k] = IF k = s.code[l] THEN NoLobby ELSE s.registry[k]
    BY <2>1 DEF ServerMemory
  <2>3. CodesDiffer(t)
    BY <2>2 DEF AllKept, CodesDiffer
  <2>4. ASSUME NEW m \in Lobbies \ {l} PROVE SameLobby(s, t, m)
    <3>1. m # NoLobby
      BY ConstantsAssumption
    <3>2. \A k \in Codes : t.registry[k] = m => s.registry[k] = m
      BY <2>2, <3>1
    <3>3. ASSUME ~CodeReuse, NEW k \in Codes, s.registry[k] = m PROVE t.registry[k] = m
      <4>1. s.code[m] = k
        BY <3>3 DEF AllKept, Kept, Enlisted
      <4>2. k # NoCode
        BY ConstantsAssumption
      <4>3. s.code[l] # k
        BY <3>3, <4>1, <4>2 DEF AllKept, CodesDiffer
      <4> QED
        BY <2>2, <3>3, <4>3
    <3> QED
      BY <2>2, <3>2, <3>3 DEF SameLobby
  <2>5. LobbyInOrder(t, l)
    <3>1. ~Populated(t, l)
      BY <1>0, <1>1, <2>2 DEF Populated
    <3>2. l # NoLobby
      BY ConstantsAssumption
    <3>3. \A k \in Codes : t.registry[k] # l
      BY <2>2, <3>2 DEF AllKept, Kept, Enlisted
    <3>4. Flags(t, l) /\ InUse(t, l)
      BY <2>2 DEF AllKept, Kept, Flags, InUse
    <3> QED
      BY <3>1, <3>3, <3>4 DEF LobbyInOrder, Kept, Enlisted, Registered
  <2> QED
    BY <2>3, <2>4, <2>5 DEF Elsewhere
<1>2. CASE Seated(s, l) # {}
  <2>1. ASSUME NEW u \in OwnerAssigned(s, l, i)
        PROVE  u \in ServerMemory /\ Elsewhere(s, u, l) /\ LobbyInOrder(u, l)
    <3>1. u \in ServerMemory
      BY OwnerAssignedSame DEF SamePlaces
    <3>2. CASE i = s.ownerId[l]
      <4>1. PICK j \in Ids : s.seat[l][j] # NoConn /\ u = SetOwner(s, l, j)
        BY <3>2 DEF OwnerAssigned, Seated
      <4>2. \A m \in Ids : s.slot[l][m] # NoSlot => m # j /\ ~s.slot[l][m].isOwner
        BY <3>2, <4>1 DEF AllKept, Kept, Flags, SeatsOf
      <4>3. \A c \in Conns, m \in Ids : s.seat[l][m] = c => s.ident[c] = m
        BY ConstantsAssumption DEF SeatsOf
      <4> QED
        BY <3>1, <4>1, <4>2, <4>3, SetOwnerHosts
    <3>3. CASE i # s.ownerId[l]
      <4>1. u = s
        BY <3>3 DEF OwnerAssigned
      <4>2. LobbyInOrder(s, l)
        BY <1>0, <1>2, <3>3 DEF AllKept, LobbyInOrder
      <4>3. \A m \in Lobbies : SameLobby(s, s, m)
        BY DEF SameLobby
      <4> QED
        BY <3>1, <4>1, <4>2, <4>3 DEF AllKept, Elsewhere
    <3> QED
      BY <3>1, <3>2, <3>3
  <2>2. CASE was
    <3>1. PICK u \in OwnerAssigned(s, l, i) : t \in Reconciled(u, l)
      BY <1>2, <2>2 DEF FinalizeDeparture
    <3>2. u \in ServerMemory /\ Elsewhere(s, u, l) /\ LobbyInOrder(u, l)
      BY <2>1, <3>1
    <3>3. SameHosts(u, t)
      BY <3>1, <3>2, ReconciledHosts
    <3>4. Elsewhere(u, t, l) /\ LobbyInOrder(t, l)
      BY <3>2, <3>3, SameHostsElsewhere DEF Elsewhere
    <3> QED
      BY <3>2, <3>4, ElsewhereTransitive
  <2>3. CASE ~was
    <3>1. t \in OwnerAssigned(s, l, i)
      BY <1>2, <2>3 DEF FinalizeDeparture
    <3> QED
      BY <2>1, <3>1
  <2> QED
    BY <2>2, <2>3
<1> QED
  BY <1>1, <1>2

\* c leaves l: the departure of a client that sits there.
LEMMA LeaveHosts ==
  ASSUME NEW k \in LinkState, NEW s \in ServerMemory, Places(k, s), AllKept(s),
         NEW l \in Lobbies, NEW c \in Conns, s.lobbyOf[c] = l, LobbyInOrder(s, l),
         NEW t \in LeaveLobbyClient(s, l, c)
  PROVE  Elsewhere(s, t, l) /\ LobbyInOrder(t, l)
<1> DEFINE i == s.ident[c]
           u == ClearMembership(RemovePlayer(ReleaseSlot(s, l, i), l, i), c)
<1>1. i \in Ids /\ c # NoConn /\ l # NoLobby
  <2>1. c # NoConn /\ l # NoLobby
    BY ConstantsAssumption
  <2> QED
    BY <2>1 DEF ServerMemory
<1>2. s.seat[l][i] = c /\ s.slot[l][i] = NoSlot
  BY <1>1 DEF Places, SeatsHeld, SlotsHeld
<1>3. u = [s EXCEPT !.seat[l][i] = NoConn, !.lobbyOf[c] = NoLobby, !.isOwner[c] = FALSE,
                    !.isInMatch[c] = FALSE]
  BY <1>2 DEF ClearMembership, RemovePlayer, ReleaseSlot, ServerMemory
<1>4. t \in FinalizeDeparture(u, l, i, s.isInMatch[c])
  BY DEF LeaveLobbyClient
<1> HIDE DEF i, u
<1>5. /\ u.ident = s.ident /\ u.slot = s.slot /\ u.code = s.code /\ u.registry = s.registry
      /\ u.ownerId = s.ownerId
      /\ u.seat = [s.seat EXCEPT ![l][i] = NoConn]
      /\ u.lobbyOf = [s.lobbyOf EXCEPT ![c] = NoLobby]
      /\ u.isOwner = [s.isOwner EXCEPT ![c] = FALSE]
      /\ u \in ServerMemory
  BY <1>1, <1>3 DEF ServerMemory, Ids
<1>6. \A m \in Lobbies, j \in Ids : u.seat[m][j] # NoConn =>
        /\ u.seat[m][j] = s.seat[m][j] /\ s.seat[m][j] \in Conns /\ s.seat[m][j] # c
  BY <1>1, <1>2, <1>5 DEF Places, SeatsHeld, ServerMemory, i
<1>7. Rooted(u)
  BY <1>5, <1>6 DEF Rooted, Places, SeatsHeld, ServerMemory
<1>8. ASSUME NEW m \in Lobbies \ {l} PROVE SameLobby(s, u, m)
  <2>1. u.seat[m] = s.seat[m]
    BY <1>5 DEF ServerMemory
  <2>2. ASSUME NEW j \in Ids, s.seat[m][j] # NoConn
        PROVE  u.isOwner[s.seat[m][j]] = s.isOwner[s.seat[m][j]]
    <3>1. s.seat[m][j] \in Conns /\ s.seat[m][j] # c
      BY <1>6, <2>1, <2>2
    <3>2. s.isOwner \in [Conns -> BOOLEAN]
      BY DEF ServerMemory
    <3> QED
      BY <1>5, <3>1, <3>2
  <2> QED
    BY <1>5, <2>1, <2>2 DEF SameLobby
<1>9. CodesDiffer(u)
  BY <1>5 DEF AllKept, CodesDiffer
<1>10. Kept(u, l)
  <2>1. Flags(u, l)
    BY <1>1, <1>5, <1>6 DEF AllKept, Kept, Flags, ServerMemory
  <2>2. InUse(u, l)
    BY <1>5, <1>6 DEF AllKept, Kept, InUse
  <2>3. Enlisted(u, l)
    BY <1>5, <1>6 DEF AllKept, Kept, Enlisted, Populated, Registered
  <2> QED
    BY <2>1, <2>2, <2>3 DEF Kept
<1>11. SeatsOf(u, l)
  BY <1>5, <1>6 DEF SeatsOf, Places, SeatsHeld, SlotsHeld
<1>12. Elsewhere(s, u, l) /\ AllKept(u)
  BY <1>8, <1>9, <1>10, ElsewhereKeeps DEF Elsewhere
<1>13. Populated(u, l) => u.ownerId[l] = i \/ Owned(u, l)
  <2>1. Populated(u, l) => Owned(s, l)
    BY <1>6 DEF LobbyInOrder, Populated
  <2> QED
    BY <1>1, <1>5, <2>1 DEF Owned, ServerMemory
<1>14. u.seat[l][i] = NoConn /\ u.slot[l][i] = NoSlot
  BY <1>1, <1>2, <1>5 DEF ServerMemory
<1>15. Elsewhere(u, t, l) /\ LobbyInOrder(t, l)
  BY <1>1, <1>4, <1>5, <1>7, <1>11, <1>12, <1>13, <1>14, FinalizeHosts
<1> QED
  BY <1>12, <1>15, ElsewhereTransitive

\* The slot of player i in l is released, and i departs.
LEMMA ReleasedHosts ==
  ASSUME NEW k \in LinkState, NEW s \in ServerMemory, Places(k, s), AllKept(s),
         NEW l \in Lobbies, NEW i \in Ids, s.slot[l][i] # NoSlot, LobbyInOrder(s, l),
         NEW r \in ServerMemory,
         r.ident = s.ident, r.lobbyOf = s.lobbyOf, r.seat = s.seat,
         r.slot = [s.slot EXCEPT ![l][i] = NoSlot],
         r.code = s.code, r.ownerId = s.ownerId, r.registry = s.registry,
         \A m \in Lobbies, j \in Ids :
           s.seat[m][j] # NoConn => r.isOwner[s.seat[m][j]] = s.isOwner[s.seat[m][j]],
         NEW was, NEW t \in FinalizeDeparture(r, l, i, was)
  PROVE  Elsewhere(s, t, l) /\ LobbyInOrder(t, l)
<1>3. \A j \in Ids : r.slot[l][j] = IF j = i THEN NoSlot ELSE s.slot[l][j]
  BY DEF ServerMemory
<1>4. \A m \in Lobbies \ {l} : SameLobby(s, r, m)
  BY DEF SameLobby, ServerMemory
<1>5. Kept(r, l)
  BY <1>3 DEF LobbyInOrder, Kept, Flags, InUse, Enlisted, Populated, Registered
<1>6. CodesDiffer(r)
  BY DEF AllKept, CodesDiffer
<1>7. Elsewhere(s, r, l) /\ AllKept(r)
  BY <1>4, <1>5, <1>6, ElsewhereKeeps DEF Elsewhere
<1>8. Rooted(r)
  BY DEF Rooted, Places, SeatsHeld
<1>9. SeatsOf(r, l)
  BY <1>3 DEF SeatsOf, Places, SeatsHeld, SlotsHeld, ServerMemory
<1>10. r.seat[l][i] = NoConn /\ r.slot[l][i] = NoSlot
  BY <1>3 DEF Places, SlotsHeld
<1>11. Populated(r, l) => r.ownerId[l] = i \/ Owned(r, l)
  BY <1>3 DEF LobbyInOrder, Populated, Owned
<1>12. Elsewhere(r, t, l) /\ LobbyInOrder(t, l)
  BY <1>7, <1>8, <1>9, <1>10, <1>11, FinalizeHosts
<1> QED
  BY <1>7, <1>12, ElsewhereTransitive

LEMMA ReleaseSlotHosts ==
  ASSUME NEW s \in ServerMemory, NEW l \in Lobbies, NEW i \in Ids
  PROVE  LET r == ReleaseSlot(s, l, i) IN
         r.isOwner = s.isOwner /\ r.ownerId = s.ownerId /\ r.registry = s.registry
  BY DEF ReleaseSlot, ServerMemory

\* Whoever a message or a timer removes from its lobby.
LEMMA KickHosts ==
  ASSUME NEW k \in LinkState, NEW s \in ServerMemory, Places(k, s), Hosts(s),
         NEW l \in Lobbies, NEW i \in Ids, NEW t \in KickLobbyPlayer(s, l, i)
  PROVE  Hosts(t)
<1>0. AllKept(s) /\ LobbyInOrder(s, l)
  BY HostsAllKept DEF Hosts
<1>1. CASE s.seat[l][i] # NoConn
  <2>1. PICK x \in Conns : x = s.seat[l][i]
    BY <1>1 DEF ServerMemory
  <2>2. t \in LeaveLobbyClient(s, l, x)
    BY <1>1, <2>1 DEF KickLobbyPlayer
  <2>3. s.lobbyOf[x] = l
    BY <1>1, <2>1 DEF Places, SeatsHeld
  <2> QED
    BY <1>0, <2>2, <2>3, LeaveHosts, ElsewhereKeeps
<1>2. CASE s.seat[l][i] = NoConn /\ s.slot[l][i] = NoSlot
  BY <1>2 DEF KickLobbyPlayer
<1>3. CASE s.seat[l][i] = NoConn /\ s.slot[l][i] # NoSlot
  <2> DEFINE r == ReleaseSlot(s, l, i)
  <2>1. t \in FinalizeDeparture(r, l, i, s.slot[l][i].isInMatch)
    BY <1>3 DEF KickLobbyPlayer
  <2>2. /\ r \in ServerMemory
        /\ r.ident = s.ident /\ r.lobbyOf = s.lobbyOf /\ r.seat = s.seat
        /\ r.slot = [s.slot EXCEPT ![l][i] = NoSlot] /\ r.code = s.code
        /\ r.isOwner = s.isOwner /\ r.ownerId = s.ownerId /\ r.registry = s.registry
    BY ReleaseSlotEffect, ReleaseSlotHosts
  <2> HIDE DEF r
  <2>3. Elsewhere(s, t, l) /\ LobbyInOrder(t, l)
    BY <1>0, <1>3, <2>1, <2>2, ReleasedHosts
  <2> QED
    BY <2>3, ElsewhereKeeps
<1> QED
  BY <1>1, <1>2, <1>3

LEMMA ReserveHosts ==
  ASSUME NEW k \in LinkState, NEW s \in ServerMemory, Places(k, s), Hosts(s),
         NEW l \in Lobbies, NEW c \in Conns, s.lobbyOf[c] = l, ~AtMostOne(Seated(s, l))
  PROVE  Hosts(ReserveSlot(s, l, c))
<1> DEFINE t == ReserveSlot(s, l, c)
           i == s.ident[c]
           saved == [conn |-> c, isOwner |-> s.isOwner[c], isInMatch |-> s.isInMatch[c]]
<1>1. i \in Ids /\ c # NoConn /\ l # NoLobby
  <2>1. c # NoConn /\ l # NoLobby
    BY ConstantsAssumption
  <2> QED
    BY <2>1 DEF ServerMemory
<1>2. s.seat[l][i] = c
  BY <1>1 DEF Places, SeatsHeld
<1>3. t = [s EXCEPT !.seat[l][i] = NoConn, !.slot[l][i] = saved, !.timer[c] = l,
                    !.lobbyOf[c] = NoLobby]
  BY DEF ReserveSlot, RemovePlayer, ServerMemory
<1>4. saved # NoSlot /\ saved.isOwner = s.isOwner[c]
  BY ConstantsAssumption DEF ServerMemory
<1> HIDE DEF t, i, saved
<1>5. /\ t.seat = [s.seat EXCEPT ![l][i] = NoConn] /\ t.slot = [s.slot EXCEPT ![l][i] = saved]
      /\ t.isOwner = s.isOwner /\ t.ownerId = s.ownerId /\ t.code = s.code
      /\ t.registry = s.registry
  BY <1>3 DEF ServerMemory
<1>6. \A j \in Ids : /\ t.seat[l][j] = IF j = i THEN NoConn ELSE s.seat[l][j]
                     /\ t.slot[l][j] = IF j = i THEN saved ELSE s.slot[l][j]
  BY <1>1, <1>5 DEF ServerMemory
<1>7. ASSUME NEW m \in Lobbies \ {l} PROVE SameLobby(s, t, m)
  BY <1>5 DEF SameLobby, ServerMemory
<1>8. LobbyInOrder(s, l) /\ CodesDiffer(s)
  BY DEF Hosts
<1>9. Flags(t, l)
  <2>1. s.isOwner[c] <=> i = s.ownerId[l]
    BY <1>1, <1>2, <1>8 DEF LobbyInOrder, Kept, Flags
  <2>2. saved.isOwner <=> i = s.ownerId[l]
    BY <1>4, <2>1
  <2> QED
    BY <1>5, <1>6, <1>8, <2>2 DEF LobbyInOrder, Kept, Flags
<1>10. InUse(t, l)
  BY <1>1, <1>2, <1>5, <1>6, <1>8 DEF LobbyInOrder, Kept, InUse
<1>11. Populated(s, l) /\ Populated(t, l)
  <2>1. PICK x \in Seated(s, l), y \in Seated(s, l) : x # y
    BY DEF AtMostOne
  <2> QED
    BY <1>6, <2>1 DEF Seated, Populated
<1>12. Enlisted(t, l)
  BY <1>5, <1>8, <1>11 DEF LobbyInOrder, Kept, Enlisted, Registered
<1>13. Owned(t, l)
  BY <1>4, <1>5, <1>6, <1>8, <1>11 DEF LobbyInOrder, Owned
<1>14. CodesDiffer(t)
  BY <1>5, <1>8 DEF CodesDiffer
<1> QED
  BY <1>7, <1>9, <1>10, <1>11, <1>12, <1>13, <1>14, ElsewhereKeeps
  DEF LobbyInOrder, Kept, Elsewhere, t

LEMMA DisconnectHosts ==
  ASSUME NEW k \in LinkState, NEW s \in ServerMemory, Places(k, s), Hosts(s),
         NEW l \in Lobbies, NEW c \in Conns, s.lobbyOf[c] = l,
         NEW t \in DisconnectLobbyClient(s, l, c)
  PROVE  Hosts(t)
<1>0. AllKept(s) /\ LobbyInOrder(s, l)
  BY HostsAllKept DEF Hosts
<1>1. CASE t = s
  BY <1>1
<1>2. CASE t \in LeaveLobbyClient(s, l, c)
  BY <1>0, <1>2, LeaveHosts, ElsewhereKeeps
<1>3. CASE t = ReserveSlot(s, l, c) /\ ~AtMostOne(Seated(s, l))
  BY <1>3, ReserveHosts
<1> QED
  BY <1>1, <1>2, <1>3 DEF DisconnectLobbyClient


\* A client whose timer fires has no seat: releasing its slot is all that its
\* departure does.
LEMMA ExpireHosts ==
  ASSUME NEW k \in LinkState, NEW s \in ServerMemory, Places(k, s), Hosts(s),
         NEW l \in Lobbies, NEW c \in Conns, s.timer[c] = l,
         NEW t \in LeaveLobbyClient(Expired(s, l, c), l, c)
  PROVE  Hosts(t)
<1> DEFINE i == s.ident[c]
           x == Expired(s, l, c)
           r == ClearMembership(RemovePlayer(ReleaseSlot(x, l, i), l, i), c)
<1>0. l # NoLobby /\ c # NoConn
  BY ConstantsAssumption
<1>1. i \in Ids /\ s.slot[l][i] # NoSlot /\ s.slot[l][i].conn = c
  BY <1>0 DEF Places, SlotsHeld, ServerMemory
<1>2. \A m \in Lobbies, j \in Ids : s.seat[m][j] # c
  <2> SUFFICES ASSUME NEW m \in Lobbies, NEW j \in Ids, s.seat[m][j] = c PROVE FALSE
    OBVIOUS
  <2>1. s.ident[c] = j
    BY <1>0 DEF Places, SeatsHeld
  <2> QED
    BY <1>0, <1>1, <2>1 DEF Places, SlotsHeld
<1>3. s.lobbyOf[c] = NoLobby
  BY <1>1, <1>2 DEF Places, SeatsHeld, ServerMemory
<1>4. /\ x \in ServerMemory
      /\ x = [s EXCEPT !.timer = [s.timer EXCEPT ![c] = NoLobby],
                       !.slot = [s.slot EXCEPT ![l][i] = NoSlot]]
  BY <1>1 DEF Expired, ServerMemory, Ids
<1>5. t \in FinalizeDeparture(r, l, i, x.isInMatch[c])
  <2>1. x.ident[c] = i
    BY <1>4 DEF ServerMemory
  <2> QED
    BY <2>1 DEF LeaveLobbyClient
<1> HIDE DEF x
<1>6. x.slot[l][i] = NoSlot /\ x.seat = s.seat /\ x.lobbyOf = s.lobbyOf
  BY <1>1, <1>4 DEF ServerMemory
<1>7. r = [x EXCEPT !.seat[l][i] = NoConn, !.lobbyOf[c] = NoLobby,
                    !.isOwner[c] = FALSE, !.isInMatch[c] = FALSE]
  BY <1>6 DEF ClearMembership, RemovePlayer, ReleaseSlot, ServerMemory
<1> HIDE DEF i, r
<1>8. s.seat[l][i] = NoConn
  BY <1>1 DEF Places, SlotsHeld
<1>9. [s.seat EXCEPT ![l][i] = NoConn] = s.seat /\ [s.lobbyOf EXCEPT ![c] = NoLobby] = s.lobbyOf
  BY <1>3, <1>8 DEF ServerMemory
<1>10. /\ r \in ServerMemory
       /\ r.ident = s.ident /\ r.lobbyOf = s.lobbyOf /\ r.seat = s.seat
       /\ r.slot = [s.slot EXCEPT ![l][i] = NoSlot] /\ r.code = s.code
       /\ r.isOwner = [s.isOwner EXCEPT ![c] = FALSE]
       /\ r.ownerId = s.ownerId /\ r.registry = s.registry
  <2>1. /\ x.ident = s.ident /\ x.code = s.code /\ x.isOwner = s.isOwner
        /\ x.ownerId = s.ownerId /\ x.registry = s.registry
        /\ x.slot = [s.slot EXCEPT ![l][i] = NoSlot]
    BY <1>4 DEF ServerMemory
  <2>2. /\ r.ident = x.ident /\ r.lobbyOf = [x.lobbyOf EXCEPT ![c] = NoLobby]
        /\ r.seat = [x.seat EXCEPT ![l][i] = NoConn]
        /\ r.slot = x.slot /\ r.code = x.code
        /\ r.isOwner = [x.isOwner EXCEPT ![c] = FALSE]
        /\ r.ownerId = x.ownerId /\ r.registry = x.registry
    BY <1>4, <1>7 DEF ServerMemory
  <2>3. r \in ServerMemory
    <3> DEFINE y == [x EXCEPT !.seat[l][i] = NoConn]
    <3>1. y \in ServerMemory
      BY <1>1, <1>4 DEF ServerMemory, Ids
    <3>2. r = [y EXCEPT !.lobbyOf[c] = NoLobby, !.isOwner[c] = FALSE, !.isInMatch[c] = FALSE]
      BY <1>4, <1>7 DEF ServerMemory
    <3> HIDE DEF y
    <3> QED
      BY <3>1, <3>2 DEF ServerMemory, Ids
  <2> QED
    BY <1>6, <1>9, <2>1, <2>2, <2>3
<1>11. \A m \in Lobbies, j \in Ids :
         s.seat[m][j] # NoConn => r.isOwner[s.seat[m][j]] = s.isOwner[s.seat[m][j]]
  <2> SUFFICES ASSUME NEW m \in Lobbies, NEW j \in Ids, s.seat[m][j] # NoConn
               PROVE  r.isOwner[s.seat[m][j]] = s.isOwner[s.seat[m][j]]
    OBVIOUS
  <2>1. s.seat[m][j] \in Conns /\ s.seat[m][j] # c
    BY <1>2 DEF ServerMemory
  <2>2. s.isOwner \in [Conns -> BOOLEAN]
    BY DEF ServerMemory
  <2> QED
    BY <1>10, <2>1, <2>2
<1>12. AllKept(s) /\ LobbyInOrder(s, l)
  BY HostsAllKept DEF Hosts
<1>13. Elsewhere(s, t, l) /\ LobbyInOrder(t, l)
  BY <1>1, <1>5, <1>10, <1>11, <1>12, ReleasedHosts
<1> QED
  BY <1>13, ElsewhereKeeps


------------------------------------------------------------------------------
\* c, who has no seat, takes the seat of player i in l, with the owner flag if i
\* is the host.
SeatFilled(s, l, c, i, host, t) ==
  /\ t.seat = [s.seat EXCEPT ![l][i] = c]
  /\ t.isOwner = [s.isOwner EXCEPT ![c] = host]
  /\ t.slot = s.slot /\ t.ownerId = s.ownerId /\ t.code = s.code /\ t.registry = s.registry

LEMMA SeatFilledHosts ==
  ASSUME NEW s \in ServerMemory, NEW l \in Lobbies, NEW c \in Conns, NEW i \in Ids,
         NEW host \in BOOLEAN, NEW t, SeatFilled(s, l, c, i, host, t),
         \A m \in Lobbies, j \in Ids : s.seat[m][j] # c,
         s.slot[l][i] = NoSlot,
         CodesDiffer(s), Kept(s, l), s.code[l] # NoCode,
         ~CodeReuse => Registered(s, l),
         host <=> i = s.ownerId[l],
         host \/ Owned(s, l)
  PROVE  Elsewhere(s, t, l) /\ LobbyInOrder(t, l)
<1>0. c # NoConn
  BY ConstantsAssumption
<1>1. \A j \in Ids : t.seat[l][j] = IF j = i THEN c ELSE s.seat[l][j]
  BY DEF SeatFilled, ServerMemory
<1>2. \A d \in Conns : t.isOwner[d] = IF d = c THEN host ELSE s.isOwner[d]
  BY DEF SeatFilled, ServerMemory
<1>3. \A m \in Lobbies, j \in Ids : s.seat[m][j] # NoConn =>
        s.seat[m][j] \in Conns /\ t.isOwner[s.seat[m][j]] = s.isOwner[s.seat[m][j]]
  <2>1. \A m \in Lobbies, j \in Ids : s.seat[m][j] # NoConn => s.seat[m][j] \in Conns
    BY DEF ServerMemory
  <2> QED
    BY <1>2, <2>1
<1>4. ASSUME NEW m \in Lobbies \ {l} PROVE SameLobby(s, t, m)
  <2>1. t.seat[m] = s.seat[m]
    BY DEF SeatFilled, ServerMemory
  <2> QED
    BY <1>3, <2>1 DEF SameLobby, SeatFilled
<1>5. Flags(t, l)
  <2>1. t.ownerId[l] = s.ownerId[l] /\ t.slot[l] = s.slot[l]
    BY DEF SeatFilled
  <2>2. ASSUME NEW j \in Ids, t.seat[l][j] # NoConn
        PROVE  t.isOwner[t.seat[l][j]] <=> j = s.ownerId[l]
    BY <1>1, <1>2, <1>3, <2>2 DEF Kept, Flags
  <2> QED
    BY <2>1, <2>2 DEF Kept, Flags
<1>6. InUse(t, l)
  BY DEF InUse, SeatFilled
<1>7. Registered(t, l) <=> Registered(s, l)
  BY DEF Registered, SeatFilled
<1>8. Enlisted(t, l)
  BY <1>7 DEF Enlisted, Kept, SeatFilled
<1>9. Populated(t, l)
  BY <1>0, <1>1 DEF Populated
<1>10. Owned(t, l)
  BY <1>0, <1>1 DEF Owned, SeatFilled
<1>11. CodesDiffer(t)
  BY DEF CodesDiffer, SeatFilled
<1> QED
  BY <1>4, <1>5, <1>6, <1>8, <1>9, <1>10, <1>11 DEF Elsewhere, LobbyInOrder, Kept

LEMMA AttachFilled ==
  ASSUME NEW s \in ServerMemory, NEW l \in Lobbies, NEW c \in Conns, NEW host \in BOOLEAN
  PROVE  SeatFilled(s, l, c, s.ident[c], host, AttachFreshClient(s, l, c, host))
  BY DEF SeatFilled, AttachFreshClient, AddPlayer, ServerMemory, Ids

\* c is back on the place of player i in l, which is free and was i's.
LEMMA RestoreHosts ==
  ASSUME NEW k \in LinkState, NEW s \in ServerMemory, Places(k, s), CodesDiffer(s),
         NEW l \in Lobbies, NEW c \in Conns, NEW i \in Ids, NEW saved \in SavedState,
         s.lobbyOf[c] # l,
         \A m \in Lobbies : s.slot[m][i] = NoSlot /\ s.seat[m][i] = NoConn,
         \A m \in Lobbies \ {l} : LobbyInOrder(s, m),
         Kept(s, l), Registered(s, l), saved.isOwner <=> i = s.ownerId[l],
         saved.isOwner \/ Owned(s, l),
         NEW t \in RestoreDisconnectedLobbyClient(s, l, c, i, saved)
  PROVE  Hosts(t)
<1>1. PICK u : /\ IF s.lobbyOf[c] \notin {NoLobby, l}
                   THEN u \in LeaveLobbyClient(s, s.lobbyOf[c], c)
                   ELSE u = s
               /\ t \in Reconciled(RestoreSavedGameState(u, l, c, i, saved), l)
  BY DEF RestoreDisconnectedLobbyClient
<1>2. AllKept(s)
  BY DEF AllKept, LobbyInOrder
<1>3. /\ u \in ServerMemory /\ Places(k, u) /\ u.ident = s.ident /\ u.lobbyOf[c] = NoLobby
      /\ SameLobby(s, u, l) /\ CodesDiffer(u)
      /\ \A m \in Lobbies \ {l} : LobbyInOrder(u, m)
  <2>1. CASE s.lobbyOf[c] = NoLobby
    BY <1>1, <2>1 DEF SameLobby
  <2>2. CASE s.lobbyOf[c] # NoLobby
    <3>1. PICK from \in Lobbies : from = s.lobbyOf[c]
      BY <2>2 DEF ServerMemory
    <3>2. u \in LeaveLobbyClient(s, from, c)
      BY <1>1, <2>2, <3>1
    <3>3. Places(k, u) /\ SeatLeft(s, from, c, u)
      BY <3>1, <3>2, LeaveKeeps
    <3>4. Elsewhere(s, u, from) /\ LobbyInOrder(u, from)
      BY <1>2, <3>1, <3>2, LeaveHosts
    <3>5. u.lobbyOf[c] = NoLobby
      BY <3>3 DEF SeatLeft, ServerMemory
    <3>6. \A m \in Lobbies \ {l} : LobbyInOrder(u, m)
      BY <3>4, ElsewhereKeeps
    <3> QED
      BY <3>1, <3>3, <3>4, <3>5, <3>6 DEF SeatLeft, Elsewhere
  <2> QED
    BY <2>1, <2>2
<1>4. Kept(u, l)
  BY <1>3, SameLobbyKeeps
<1>5. u.slot[l][i] = NoSlot /\ u.ownerId[l] = s.ownerId[l] /\ u.code[l] = s.code[l]
  BY <1>3 DEF SameLobby
<1>6. u.code[l] # NoCode /\ (~CodeReuse => Registered(u, l)) /\ (saved.isOwner \/ Owned(u, l))
  <2>1. u.code[l] # NoCode
    BY <1>5, ConstantsAssumption DEF Registered, Kept, Enlisted
  <2>2. ~CodeReuse => Registered(u, l)
    BY <1>3 DEF Registered, SameLobby
  <2>3. saved.isOwner \/ Owned(u, l)
    BY <1>3 DEF Owned, SameLobby
  <2> QED
    BY <2>1, <2>2, <2>3
<1>7. \A m \in Lobbies, j \in Ids : u.seat[m][j] # c
  BY <1>3, NoSeatWithoutLobby
<1> DEFINE a == AddPlayer([u EXCEPT !.ident[c] = i, !.isOwner[c] = saved.isOwner,
                                    !.isInMatch[c] = saved.isInMatch], l, c)
           w == RestoreSavedGameState(u, l, c, i, saved)
<1>8. saved.isOwner \in BOOLEAN /\ saved.isInMatch \in BOOLEAN
  BY DEF SavedState
<1>9. /\ a \in ServerMemory
      /\ SeatFilled(u, l, c, i, saved.isOwner, a)
      /\ a.ident = [u.ident EXCEPT ![c] = i]
      /\ a.lobbyOf = [u.lobbyOf EXCEPT ![c] = l]
  BY <1>3, <1>8 DEF SeatFilled, AddPlayer, ServerMemory, Ids
<1>10. w = IF saved.isOwner THEN SetOwner(a, l, i) ELSE a
  BY DEF RestoreSavedGameState
<1>11. t \in Reconciled(w, l)
  BY <1>1
<1> HIDE DEF a, w
<1>12. Elsewhere(u, a, l) /\ LobbyInOrder(a, l)
  BY <1>3, <1>4, <1>5, <1>6, <1>7, <1>8, <1>9, SeatFilledHosts
<1>13. Hosts(a)
  BY <1>3, <1>12, ElsewhereKeeps DEF Elsewhere, Hosts
<1>14. Hosts(w) /\ w \in ServerMemory
  <2>1. CASE ~saved.isOwner
    BY <1>9, <1>10, <1>13, <2>1
  <2>2. CASE saved.isOwner
    <3>1. \A m \in Lobbies, j \in Ids :
            a.seat[m][j] = IF m = l /\ j = i THEN c ELSE u.seat[m][j]
      BY <1>3, <1>9 DEF SeatFilled, ServerMemory
    <3>2. Rooted(a)
      BY <1>3, <1>7, <1>9, <3>1 DEF Rooted, Places, SeatsHeld, ServerMemory
    <3>3. \A d \in Conns, j \in Ids : a.seat[l][j] = d => a.ident[d] = j
      <4> SUFFICES ASSUME NEW d \in Conns, NEW j \in Ids, a.seat[l][j] = d
                   PROVE  a.ident[d] = j
        OBVIOUS
      <4>1. d # NoConn
        BY ConstantsAssumption
      <4> QED
        BY <1>3, <1>7, <1>9, <3>1, <4>1 DEF Places, SeatsHeld, ServerMemory
    <3>4. a.seat[l][i] # NoConn
      BY <3>1, ConstantsAssumption
    <3>5. \A j \in Ids : a.slot[l][j] # NoSlot => j # i /\ ~a.slot[l][j].isOwner
      BY <1>4, <1>5, <1>9, <2>2 DEF SeatFilled, Kept, Flags
    <3>6. AllKept(a)
      BY <1>13, HostsAllKept
    <3>7. Elsewhere(a, w, l) /\ LobbyInOrder(w, l)
      BY <1>9, <1>10, <2>2, <3>2, <3>3, <3>4, <3>5, <3>6, SetOwnerHosts
    <3>8. Hosts(w)
      BY <1>13, <3>7, ElsewhereKeeps
    <3>9. w \in ServerMemory
      BY <1>9, <1>10, SetOwnerSame, MemoryItself DEF SamePlaces
    <3> QED
      BY <3>8, <3>9
  <2> QED
    BY <2>1, <2>2
<1>15. SameHosts(w, t)
  BY <1>11, <1>14, ReconciledHosts
<1> QED
  BY <1>14, <1>15, SameHostsKeeps


------------------------------------------------------------------------------
LEMMA HostsInit == Init => HostsInv
<1> SUFFICES ASSUME Init PROVE Hosts(srv)
  BY PlacesInit DEF HostsInv
<1>1. \A l \in Lobbies, i \in Ids : srv.seat[l][i] = NoConn /\ srv.slot[l][i] = NoSlot
  BY DEF Init, Ids
<1>2. \A k \in Codes, l \in Lobbies : srv.registry[k] # l
  BY ConstantsAssumption DEF Init
<1>3. \A l \in Lobbies : srv.code[l] = NoCode
  BY DEF Init
<1> QED
  BY <1>1, <1>2, <1>3
  DEF Hosts, CodesDiffer, LobbyInOrder, Kept, Flags, InUse, Enlisted, Populated, Registered

LEMMA CreateHosts ==
  ASSUME TypeOK, Disciplined, HostsInv,
         NEW c \in Conns, NEW l \in Lobbies, NEW k \in Codes, CreateLobby(c, l, k)
  PROVE  Hosts(srv')
<1>0. /\ srv \in ServerMemory /\ Places(link, srv) /\ Hosts(srv) /\ link \in LinkState
  BY DEF HostsInv, PlacesInv, TypeOK, LinkState
<1> DEFINE i == srv.ident[c]
           s == [srv EXCEPT !.code[l] = k, !.registry[k] = l, !.ownerId[l] = i]
<1>1. /\ link[c] = "up" /\ srv.lobbyOf[c] = NoLobby /\ srv.code[l] = NoCode
      /\ srv.registry[k] = NoLobby
      /\ ~CodeReuse => \A m \in Lobbies : srv.code[m] # k
      /\ srv' = AttachFreshClient(s, l, c, TRUE)
  BY DEF CreateLobby, MayEnter
<1>2. i \in Ids /\ k # NoCode /\ l # NoLobby
  BY <1>0, ConstantsAssumption DEF ServerMemory
<1>3. /\ s \in ServerMemory
      /\ s.ident = srv.ident /\ s.seat = srv.seat /\ s.slot = srv.slot /\ s.isOwner = srv.isOwner
      /\ s.code = [srv.code EXCEPT ![l] = k] /\ s.registry = [srv.registry EXCEPT ![k] = l]
      /\ s.ownerId = [srv.ownerId EXCEPT ![l] = i]
  BY <1>0, <1>2 DEF ServerMemory, Ids
<1>4. s.ident[c] = i
  BY <1>3
<1> HIDE DEF i, s
<1>5. \A m \in Lobbies : s.code[m] = IF m = l THEN k ELSE srv.code[m]
  BY <1>0, <1>3 DEF ServerMemory
<1>6. \A h \in Codes : s.registry[h] = IF h = k THEN l ELSE srv.registry[h]
  BY <1>0, <1>3 DEF ServerMemory
<1>7. s.ownerId[l] = i
  BY <1>0, <1>3 DEF ServerMemory
<1>8. LobbyInOrder(srv, l)
  BY <1>0 DEF Hosts
<1>9. \A j \in Ids : srv.seat[l][j] = NoConn /\ srv.slot[l][j] = NoSlot
  BY <1>1, <1>8 DEF LobbyInOrder, Kept, InUse
<1>10. ASSUME NEW m \in Lobbies \ {l} PROVE SameLobby(srv, s, m)
  <2>1. m # NoLobby /\ s.ownerId[m] = srv.ownerId[m]
    BY <1>0, <1>3, ConstantsAssumption DEF ServerMemory
  <2> QED
    BY <1>1, <1>3, <1>5, <1>6, <2>1 DEF SameLobby
<1>11. CodesDiffer(s)
  BY <1>0, <1>1, <1>5 DEF Hosts, CodesDiffer
<1>12. Kept(s, l)
  <2>1. \A h \in Codes : s.registry[h] = l => h = k
    <3>1. \A h \in Codes : srv.registry[h] = l => srv.code[l] = h
      BY <1>8 DEF LobbyInOrder, Kept, Enlisted
    <3>2. NoCode \notin Codes
      BY ConstantsAssumption
    <3> QED
      BY <1>1, <1>6, <3>1, <3>2
  <2> QED
    BY <1>3, <1>5, <1>9, <2>1 DEF Kept, Flags, InUse, Enlisted, Populated
<1>13. Registered(s, l) /\ s.code[l] # NoCode /\ s.slot[l][i] = NoSlot
  BY <1>2, <1>3, <1>5, <1>6, <1>9 DEF Registered
<1>14. \A m \in Lobbies, j \in Ids : s.seat[m][j] # c
  BY <1>0, <1>1, <1>3, NoSeatWithoutLobby
<1>15. SeatFilled(s, l, c, i, TRUE, srv')
  BY <1>1, <1>3, <1>4, AttachFilled
<1>16. Elsewhere(s, srv', l) /\ LobbyInOrder(srv', l)
  BY <1>2, <1>3, <1>7, <1>11, <1>12, <1>13, <1>14, <1>15, SeatFilledHosts
<1>17. Elsewhere(srv, srv', l)
  BY <1>10, <1>11, <1>16, ElsewhereTransitive DEF Elsewhere
<1> QED
  BY <1>0, <1>16, <1>17, ElsewhereKeeps

LEMMA JoinHosts ==
  ASSUME TypeOK, Disciplined, HostsInv, NEW c \in Conns, NEW l \in Lobbies, JoinLobby(c, l)
  PROVE  Hosts(srv')
<1> DEFINE i == srv.ident[c]
<1>0. /\ srv \in ServerMemory /\ Places(link, srv) /\ Hosts(srv) /\ link \in LinkState
      /\ i \in Ids
  BY DEF HostsInv, PlacesInv, TypeOK, LinkState, ServerMemory
<1>1. /\ link[c] = "up" /\ srv.lobbyOf[c] = NoLobby /\ Registered(srv, l)
      /\ srv' = AttachFreshClient(srv, l, c, FALSE)
  BY DEF JoinLobby, MayEnter
<1> HIDE DEF i
<1>2. LobbyInOrder(srv, l) /\ CodesDiffer(srv)
  BY <1>0 DEF Hosts
<1>3. Owned(srv, l) /\ srv.code[l] # NoCode
  BY <1>1, <1>2 DEF LobbyInOrder, Kept, InUse, Populated
<1>4. \A m \in Lobbies, j \in Ids : srv.seat[m][j] # c
  BY <1>0, <1>1, NoSeatWithoutLobby
<1>5. srv.slot[l][i] = NoSlot /\ srv.seat[l][i] = NoConn
  BY <1>0, <1>1, <1>4 DEF Places, LiveHolders, i
<1>6. i # srv.ownerId[l]
  BY <1>3, <1>5 DEF Owned
<1>7. SeatFilled(srv, l, c, i, FALSE, srv')
  BY <1>0, <1>1, AttachFilled DEF i
<1>8. Elsewhere(srv, srv', l) /\ LobbyInOrder(srv', l)
  BY <1>0, <1>1, <1>2, <1>3, <1>4, <1>5, <1>6, <1>7, SeatFilledHosts DEF LobbyInOrder
<1> QED
  BY <1>0, <1>8, ElsewhereKeeps

\* The host hands its role to a player that sits in the lobby, if that is who it
\* names.
LEMMA MakeHostHosts ==
  ASSUME TypeOK, HostsInv, NEW c \in Conns, NEW i \in Ids, MakePlayerHost(c, i)
  PROVE  Hosts(srv')
<1>0. /\ srv \in ServerMemory /\ Places(link, srv) /\ Hosts(srv)
  BY DEF HostsInv, PlacesInv, TypeOK
<1>1. PICK l \in Lobbies : l = srv.lobbyOf[c]
  BY <1>0 DEF MakePlayerHost, ServerMemory
<1>2. srv' = SetOwner(srv, l, i) /\ srv.isOwner[c] /\ l # NoLobby
  BY <1>1 DEF MakePlayerHost
<1>3. CASE srv.seat[l][i] = NoConn
  BY <1>0, <1>2, <1>3 DEF SetOwner
<1>4. CASE srv.seat[l][i] # NoConn
  <2>1. LobbyInOrder(srv, l) /\ AllKept(srv)
    BY <1>0, HostsAllKept DEF Hosts
  <2>2. srv.ident[c] \in Ids /\ srv.seat[l][srv.ident[c]] = c /\ c # NoConn
    BY <1>0, <1>1, <1>2, ConstantsAssumption DEF Places, SeatsHeld, ServerMemory
  <2>3. srv.ownerId[l] = srv.ident[c]
    BY <1>2, <2>1, <2>2 DEF LobbyInOrder, Kept, Flags
  <2>4. \A j \in Ids : srv.slot[l][j] # NoSlot => j # i /\ ~srv.slot[l][j].isOwner
    BY <1>0, <1>4, <2>1, <2>2, <2>3 DEF LobbyInOrder, Kept, Flags, Places, SlotsHeld
  <2>5. Rooted(srv)
    BY <1>0 DEF Rooted, Places, SeatsHeld
  <2>6. \A d \in Conns, j \in Ids : srv.seat[l][j] = d => srv.ident[d] = j
    <3>1. NoConn \notin Conns
      BY ConstantsAssumption
    <3> QED
      BY <1>0, <3>1 DEF Places, SeatsHeld
  <2>7. Elsewhere(srv, srv', l) /\ LobbyInOrder(srv', l)
    BY <1>0, <1>2, <1>4, <2>1, <2>4, <2>5, <2>6, SetOwnerHosts
  <2> QED
    BY <1>0, <2>7, ElsewhereKeeps
<1> QED
  BY <1>3, <1>4


LEMMA RejoinHosts ==
  ASSUME TypeOK, Disciplined, HostsInv,
         NEW c \in Conns, NEW l \in Lobbies, NEW i \in Ids, RejoinLobby(c, l, i)
  PROVE  Hosts(srv')
<1>0. /\ srv \in ServerMemory /\ Places(link, srv) /\ Hosts(srv) /\ link \in LinkState
  BY DEF HostsInv, PlacesInv, TypeOK, LinkState
<1>1. /\ link[c] = "up" /\ Registered(srv, l)
      /\ srv.lobbyOf[c] = l => srv.ident[c] = i
  BY DEF RejoinLobby
<1>2. LobbyInOrder(srv, l) /\ Owned(srv, l) /\ CodesDiffer(srv)
  BY <1>0, <1>1 DEF Hosts, LobbyInOrder
<1>3. CASE srv.slot[l][i] # NoSlot
  <2> DEFINE r == ReleaseSlot(srv, l, i)
             saved == srv.slot[l][i]
  <2>1. saved \in SavedState
    BY <1>0, <1>3 DEF ServerMemory
  <2>2. /\ r \in ServerMemory
        /\ r.ident = srv.ident /\ r.lobbyOf = srv.lobbyOf /\ r.seat = srv.seat
        /\ r.slot = [srv.slot EXCEPT ![l][i] = NoSlot]
        /\ r.timer = Freed(srv, l, i) /\ r.code = srv.code
        /\ r.isOwner = srv.isOwner /\ r.ownerId = srv.ownerId /\ r.registry = srv.registry
    BY <1>0, ReleaseSlotEffect, ReleaseSlotHosts
  <2>3. srv' \in RestoreDisconnectedLobbyClient(r, l, c, i, saved)
    BY <1>3 DEF RejoinLobby
  <2>4. saved.isOwner <=> i = srv.ownerId[l]
    BY <1>2, <1>3 DEF LobbyInOrder, Kept, Flags
  <2> HIDE DEF r, saved
  <2>5. \A j \in Ids : r.slot[l][j] = IF j = i THEN NoSlot ELSE srv.slot[l][j]
    BY <1>0, <2>2 DEF ServerMemory
  <2>6. Places(link, r)
    BY <1>0, <2>2, VacateSlot
  <2>7. \A m \in Lobbies : r.slot[m][i] = NoSlot /\ r.seat[m][i] = NoConn
    BY <1>0, <1>3, <2>2 DEF Places, SlotsHeld, ServerMemory
  <2>8. r.lobbyOf[c] # l
    <3>1. srv.ident[c] # i
      BY <1>0, <1>1, <1>3 DEF Places, LiveHolders
    <3> QED
      BY <1>1, <2>2, <3>1
  <2>9. \A m \in Lobbies \ {l} : LobbyInOrder(r, m)
    <3> SUFFICES ASSUME NEW m \in Lobbies \ {l} PROVE LobbyInOrder(r, m)
      OBVIOUS
    <3>1. SameLobby(srv, r, m)
      BY <1>0, <2>2 DEF SameLobby, ServerMemory
    <3> QED
      BY <1>0, <3>1, SameLobbyKeeps DEF Hosts
  <2>10. Kept(r, l) /\ Registered(r, l) /\ CodesDiffer(r)
    BY <1>1, <1>2, <2>2, <2>5
    DEF LobbyInOrder, Kept, Flags, InUse, Enlisted, Registered, CodesDiffer
  <2>11. saved.isOwner <=> i = r.ownerId[l]
    BY <2>2, <2>4
  <2>12. saved.isOwner \/ Owned(r, l)
    BY <1>2, <2>2, <2>4, <2>5 DEF Owned
  <2> QED
    BY <1>0, <2>1, <2>2, <2>3, <2>6, <2>7, <2>8, <2>9, <2>10, <2>11, <2>12, RestoreHosts
<1>4. CASE srv.slot[l][i] = NoSlot
  <2>1. i # srv.ident[c]
    BY <1>4 DEF RejoinLobby
  <2>2. PICK a \in Players(srv, l) :
          /\ srv.ident[a] = i
          /\ srv' \in RestoreDisconnectedLobbyClient(
                         Detached(srv, l, a, i), l, c, i,
                         [conn |-> a, isOwner |-> srv.isOwner[a],
                          isInMatch |-> srv.isInMatch[a]])
    BY <1>4 DEF RejoinLobby, Detached
  <2>3. a \in Conns /\ a # NoConn /\ srv.seat[l][i] = a /\ srv.lobbyOf[a] = l
    BY <1>0, <2>2, ConstantsAssumption DEF Players, Seated, ServerMemory, Places, SeatsHeld
  <2> DEFINE r == Detached(srv, l, a, i)
             saved == [conn |-> a, isOwner |-> srv.isOwner[a],
                       isInMatch |-> srv.isInMatch[a]]
  <2>4. SeatLeft(srv, l, a, r) /\ r.timer = srv.timer
    BY <1>0, <2>2, <2>3, DetachedEffect
  <2>5. saved \in SavedState
    BY <1>0, <2>3 DEF SavedState, ServerMemory
  <2>6. srv' \in RestoreDisconnectedLobbyClient(r, l, c, i, saved)
    BY <2>2
  <2>7. /\ r.isOwner = srv.isOwner /\ r.ownerId = srv.ownerId /\ r.registry = srv.registry
        /\ r.code = srv.code /\ r.slot = srv.slot
        /\ r.seat = [srv.seat EXCEPT ![l][i] = NoConn]
    BY <1>0 DEF Detached, RemovePlayer, ServerMemory
  <2>8. saved.isOwner <=> i = srv.ownerId[l]
    BY <1>2, <2>3 DEF LobbyInOrder, Kept, Flags
  <2> HIDE DEF r, saved
  <2>a. r \in ServerMemory
    BY <2>4 DEF SeatLeft
  <2>9. Places(link, r)
    BY <1>0, <2>3, <2>4, SeatLeftKeeps
  <2>10. \A m \in Lobbies : r.slot[m][i] = NoSlot /\ r.seat[m][i] = NoConn
    <3>1. \A m \in Lobbies : srv.slot[m][i] = NoSlot
      BY <1>0, <2>3 DEF Places, SlotsHeld
    <3>2. \A m \in Lobbies : srv.seat[m][i] # NoConn => m = l
      BY <1>0, <2>3 DEF Places, SeatsHeld
    <3> QED
      BY <1>0, <2>7, <3>1, <3>2 DEF ServerMemory
  <2>11. r.lobbyOf[c] # l
    <3>1. c # a
      BY <2>1, <2>2
    <3> QED
      BY <1>0, <1>1, <2>1, <2>4, <3>1 DEF SeatLeft, ServerMemory
  <2>12. \A j \in Ids : r.seat[l][j] = IF j = i THEN NoConn ELSE srv.seat[l][j]
    BY <1>0, <2>7 DEF ServerMemory
  <2>13. \A m \in Lobbies \ {l} : LobbyInOrder(r, m)
    <3> SUFFICES ASSUME NEW m \in Lobbies \ {l} PROVE LobbyInOrder(r, m)
      OBVIOUS
    <3>1. SameLobby(srv, r, m)
      BY <1>0, <2>7 DEF SameLobby, ServerMemory
    <3> QED
      BY <1>0, <3>1, SameLobbyKeeps DEF Hosts
  <2>14. Kept(r, l) /\ Registered(r, l) /\ CodesDiffer(r)
    BY <1>1, <1>2, <2>7, <2>12
    DEF LobbyInOrder, Kept, Flags, InUse, Enlisted, Registered, CodesDiffer
  <2>15. saved.isOwner <=> i = r.ownerId[l]
    BY <2>7, <2>8
  <2>16. saved.isOwner \/ Owned(r, l)
    BY <1>2, <2>7, <2>8, <2>12 DEF Owned
  <2> QED
    BY <1>0, <2>a, <2>5, <2>6, <2>9, <2>10, <2>11, <2>13, <2>14, <2>15, <2>16, RestoreHosts
<1> QED
  BY <1>3, <1>4

\* Every reservation of t was one of s.
NoNewSlots(s, t) ==
  \A l \in Lobbies, i \in Ids : t.slot[l][i] # NoSlot => t.slot[l][i] = s.slot[l][i]

\* A place that is reserved before and after a step is the same reservation.
SlotsStay(s, t) ==
  \A l \in Lobbies, i \in Ids :
    s.slot[l][i] # NoSlot /\ t.slot[l][i] # NoSlot => t.slot[l][i] = s.slot[l][i]

LEMMA LeaveNoNewSlots ==
  ASSUME NEW s \in ServerMemory, NEW l \in Lobbies, NEW c \in Conns,
         NEW t \in LeaveLobbyClient(s, l, c)
  PROVE  NoNewSlots(s, t)
<1>1. /\ t \in ServerMemory
      /\ t.ident = s.ident
      /\ t.lobbyOf = [s.lobbyOf EXCEPT ![c] = NoLobby]
      /\ t.seat = [s.seat EXCEPT ![l][s.ident[c]] = NoConn]
      /\ t.slot = [s.slot EXCEPT ![l][s.ident[c]] = NoSlot]
      /\ t.timer = Freed(s, l, s.ident[c])
  BY LeaveEffect
<1> QED
  BY <1>1 DEF NoNewSlots, ServerMemory

LEMMA RestoreNoNewSlots ==
  ASSUME NEW s \in ServerMemory, NEW l \in Lobbies, NEW c \in Conns,
         NEW i \in Ids, NEW saved \in SavedState,
         NEW t \in RestoreDisconnectedLobbyClient(s, l, c, i, saved)
  PROVE  NoNewSlots(s, t)
<1>1. PICK u : /\ IF s.lobbyOf[c] \notin {NoLobby, l}
                   THEN u \in LeaveLobbyClient(s, s.lobbyOf[c], c)
                   ELSE u = s
               /\ t \in Reconciled(RestoreSavedGameState(u, l, c, i, saved), l)
  BY DEF RestoreDisconnectedLobbyClient
<1>2. u \in ServerMemory /\ NoNewSlots(s, u)
  <2>1. CASE s.lobbyOf[c] \in {NoLobby, l}
    BY <1>1, <2>1 DEF NoNewSlots
  <2>2. CASE s.lobbyOf[c] \notin {NoLobby, l}
    <3>1. PICK from \in Lobbies : from = s.lobbyOf[c]
      BY <2>2 DEF ServerMemory
    <3> QED
      BY <1>1, <2>2, <3>1, LeaveEffect, LeaveNoNewSlots
  <2> QED
    BY <2>1, <2>2
<1>3. SeatTaken(u, l, c, i, t)
  BY <1>1, <1>2, RestoreEffect
<1> QED
  BY <1>2, <1>3 DEF NoNewSlots, SeatTaken


LEMMA HostsStep ==
  ASSUME Disciplined, HostsInv, [Next]_vars
  PROVE  Hosts(srv')
<1>0. /\ srv \in ServerMemory /\ Places(link, srv) /\ Hosts(srv) /\ link \in LinkState
      /\ TypeOK
  BY DEF HostsInv, PlacesInv, TypeOK, LinkState
<1>1. ASSUME NEW c \in Conns, NEW l \in Lobbies, NEW k \in Codes, CreateLobby(c, l, k)
      PROVE  Hosts(srv')
  BY <1>0, <1>1, CreateHosts
<1>2. ASSUME NEW c \in Conns, NEW l \in Lobbies, JoinLobby(c, l)
      PROVE  Hosts(srv')
  BY <1>0, <1>2, JoinHosts
<1>3. ASSUME NEW c \in Conns, LeaveLobby(c)
      PROVE  Hosts(srv')
  <2>1. PICK l \in Lobbies : l = srv.lobbyOf[c]
    BY <1>0, <1>3 DEF LeaveLobby, ServerMemory
  <2>2. srv' \in LeaveLobbyClient(srv, l, c)
    BY <1>3, <2>1 DEF LeaveLobby
  <2>3. AllKept(srv) /\ LobbyInOrder(srv, l)
    BY <1>0, HostsAllKept DEF Hosts
  <2>4. Elsewhere(srv, srv', l) /\ LobbyInOrder(srv', l)
    BY <1>0, <2>1, <2>2, <2>3, LeaveHosts
  <2> QED
    BY <1>0, <2>4, ElsewhereKeeps
<1>4. ASSUME NEW c \in Conns, NEW i \in Ids, KickPlayer(c, i)
      PROVE  Hosts(srv')
  <2>1. PICK l \in Lobbies : l = srv.lobbyOf[c]
    BY <1>0, <1>4 DEF KickPlayer, ServerMemory
  <2>2. srv' \in KickLobbyPlayer(srv, l, i)
    BY <1>4, <2>1 DEF KickPlayer
  <2> QED
    BY <1>0, <2>2, KickHosts
<1>5. ASSUME NEW c \in Conns, NEW i \in Ids, MakePlayerHost(c, i)
      PROVE  Hosts(srv')
  BY <1>0, <1>5, MakeHostHosts
<1>6. ASSUME NEW c \in Conns, StartGame(c)
      PROVE  Hosts(srv')
  <2>1. srv' \in ServerMemory
    BY <1>0, TypeStep DEF TypeOK
  <2>2. /\ srv'.ident = srv.ident /\ srv'.lobbyOf = srv.lobbyOf
        /\ srv'.seat = srv.seat /\ srv'.slot = srv.slot
        /\ srv'.timer = srv.timer /\ srv'.code = srv.code
        /\ srv'.isOwner = srv.isOwner /\ srv'.ownerId = srv.ownerId
        /\ srv'.registry = srv.registry
    BY <1>0, <1>6 DEF StartGame, ServerMemory
  <2>3. SameHosts(srv, srv')
    BY <2>1, <2>2 DEF SameHosts, SamePlaces
  <2> QED
    BY <1>0, <2>3, SameHostsKeeps
<1>7. ASSUME NEW c \in Conns, ReturnToLobby(c)
      PROVE  Hosts(srv')
  <2>1. PICK l \in Lobbies : l = srv.lobbyOf[c]
    BY <1>0, <1>7 DEF ReturnToLobby, ServerMemory
  <2>2. SameHosts(srv, ClearParticipation(srv, {c}))
    BY <1>0, ClearParticipationHosts
  <2>3. ClearParticipation(srv, {c}) \in ServerMemory
    BY <2>2 DEF SameHosts, SamePlaces
  <2>4. SameHosts(ClearParticipation(srv, {c}), srv')
    BY <1>7, <2>1, <2>3, ReconciledHosts DEF ReturnToLobby
  <2> QED
    BY <1>0, <2>2, <2>4, SameHostsKeeps
<1>8. ASSUME NEW c \in Conns, NEW outOfLives \in BOOLEAN, FailRound(c, outOfLives)
      PROVE  Hosts(srv')
  <2>1. PICK l \in Lobbies : l = srv.lobbyOf[c]
    BY <1>0, <1>8 DEF FailRound, ServerMemory
  <2>2. SameHosts(srv, srv')
    BY <1>0, <1>8, <2>1, ResolveHosts DEF FailRound
  <2> QED
    BY <1>0, <2>2, SameHostsKeeps
<1>9. ASSUME NEW c \in Conns, NEW l \in Lobbies, NEW i \in Ids, RejoinLobby(c, l, i)
      PROVE  Hosts(srv')
  BY <1>0, <1>9, RejoinHosts
<1>10. ASSUME NEW c \in Conns, LosePeer(c)
       PROVE  Hosts(srv')
  BY <1>0, <1>10 DEF LosePeer
<1>11. ASSUME NEW c \in Conns, Disconnect(c)
       PROVE  Hosts(srv')
  <2>1. CASE srv.lobbyOf[c] = NoLobby
    BY <1>0, <1>11, <2>1 DEF Disconnect
  <2>2. CASE srv.lobbyOf[c] # NoLobby
    <3>1. PICK l \in Lobbies : l = srv.lobbyOf[c]
      BY <1>0, <2>2 DEF ServerMemory
    <3>2. srv' \in DisconnectLobbyClient(srv, l, c)
      BY <1>11, <2>2, <3>1 DEF Disconnect
    <3> QED
      BY <1>0, <3>1, <3>2, DisconnectHosts
  <2> QED
    BY <2>1, <2>2
<1>12. ASSUME NEW c \in Conns, ExpireDisconnectedLobbyClient(c)
       PROVE  Hosts(srv')
  <2>1. PICK l \in Lobbies : l = srv.timer[c]
    BY <1>0, <1>12 DEF ExpireDisconnectedLobbyClient, ServerMemory
  <2>2. srv' \in LeaveLobbyClient(Expired(srv, l, c), l, c)
    BY <1>12, <2>1 DEF ExpireDisconnectedLobbyClient, Expired
  <2> QED
    BY <1>0, <2>1, <2>2, ExpireHosts
<1>13. ASSUME NEW l \in Lobbies, NEW D, ExpireLobbyAnteTimer(l, D)
       PROVE  Hosts(srv')
  <2>1. SameHosts(srv, srv')
    BY <1>0, <1>13, ResolveHosts DEF ExpireLobbyAnteTimer
  <2> QED
    BY <1>0, <2>1, SameHostsKeeps
<1>14. CASE UNCHANGED vars
  BY <1>0, <1>14 DEF vars
<1> QED
  BY <1>1, <1>2, <1>3, <1>4, <1>5, <1>6, <1>7, <1>8, <1>9, <1>10, <1>11, <1>12,
     <1>13, <1>14 DEF Next, MessageHandler

LEMMA SlotsStayStep ==
  ASSUME HostsInv, [Next]_vars
  PROVE  SlotsStay(srv, srv')
<1>0. srv \in ServerMemory /\ Places(link, srv)
  BY DEF HostsInv, PlacesInv, TypeOK
<1>a. ASSUME NoNewSlots(srv, srv') PROVE SlotsStay(srv, srv')
  BY <1>a DEF SlotsStay, NoNewSlots
<1>1. ASSUME srv'.slot = srv.slot PROVE SlotsStay(srv, srv')
  BY <1>1 DEF SlotsStay
<1>2. ASSUME NEW c \in Conns, NEW l \in Lobbies, NEW k \in Codes, CreateLobby(c, l, k)
      PROVE  SlotsStay(srv, srv')
  <2> DEFINE s == [srv EXCEPT !.code[l] = k, !.registry[k] = l, !.ownerId[l] = srv.ident[c]]
  <2>1. s \in ServerMemory /\ s.slot = srv.slot
    BY <1>0 DEF ServerMemory, Ids
  <2>2. srv' = AttachFreshClient(s, l, c, TRUE)
    BY <1>2 DEF CreateLobby
  <2> HIDE DEF s
  <2>3. SeatTaken(s, l, c, s.ident[c], srv')
    BY <2>1, <2>2, AttachEffect
  <2>4. srv'.slot = srv.slot
    BY <2>1, <2>3 DEF SeatTaken
  <2> QED
    BY <1>1, <2>4
<1>3. ASSUME NEW c \in Conns, NEW l \in Lobbies, JoinLobby(c, l)
      PROVE  SlotsStay(srv, srv')
  <2>1. srv' = AttachFreshClient(srv, l, c, FALSE)
    BY <1>3 DEF JoinLobby
  <2>2. SeatTaken(srv, l, c, srv.ident[c], srv')
    BY <1>0, <2>1, AttachEffect
  <2>3. srv'.slot = srv.slot
    BY <2>2 DEF SeatTaken
  <2> QED
    BY <1>1, <2>3
<1>4. ASSUME NEW c \in Conns, LeaveLobby(c)
      PROVE  SlotsStay(srv, srv')
  <2>1. PICK l \in Lobbies : l = srv.lobbyOf[c]
    BY <1>0, <1>4 DEF LeaveLobby, ServerMemory
  <2> QED
    BY <1>0, <1>a, <1>4, <2>1, LeaveNoNewSlots DEF LeaveLobby
<1>5. ASSUME NEW c \in Conns, NEW i \in Ids, KickPlayer(c, i)
      PROVE  SlotsStay(srv, srv')
  <2>1. PICK l \in Lobbies : l = srv.lobbyOf[c]
    BY <1>0, <1>5 DEF KickPlayer, ServerMemory
  <2>2. srv' \in KickLobbyPlayer(srv, l, i)
    BY <1>5, <2>1 DEF KickPlayer
  <2>3. CASE srv.seat[l][i] # NoConn
    <3>1. PICK x \in Conns : x = srv.seat[l][i]
      BY <1>0, <2>3 DEF ServerMemory
    <3> QED
      BY <1>0, <1>a, <2>2, <2>3, <3>1, LeaveNoNewSlots DEF KickLobbyPlayer
  <2>4. CASE srv.seat[l][i] = NoConn /\ srv.slot[l][i] = NoSlot
    BY <1>1, <2>2, <2>4 DEF KickLobbyPlayer
  <2>5. CASE srv.seat[l][i] = NoConn /\ srv.slot[l][i] # NoSlot
    <3> DEFINE r == ReleaseSlot(srv, l, i)
    <3>1. r \in ServerMemory /\ r.slot = [srv.slot EXCEPT ![l][i] = NoSlot]
      BY <1>0, ReleaseSlotEffect
    <3>2. srv' \in FinalizeDeparture(r, l, i, srv.slot[l][i].isInMatch)
      BY <2>2, <2>5 DEF KickLobbyPlayer
    <3> HIDE DEF r
    <3>3. SamePlaces(r, srv')
      BY <3>1, <3>2, FinalizeDepartureSame
    <3> QED
      BY <1>0, <3>1, <3>3 DEF SamePlaces, SlotsStay, ServerMemory
  <2> QED
    BY <2>3, <2>4, <2>5
<1>6. ASSUME SamePlaces(srv, srv') PROVE SlotsStay(srv, srv')
  BY <1>1, <1>6 DEF SamePlaces
<1>7. ASSUME NEW c \in Conns, NEW i \in Ids, MakePlayerHost(c, i)
      PROVE  SlotsStay(srv, srv')
  <2>1. PICK l \in Lobbies : l = srv.lobbyOf[c]
    BY <1>0, <1>7 DEF MakePlayerHost, ServerMemory
  <2> QED
    BY <1>0, <1>6, <1>7, <2>1, SetOwnerSame DEF MakePlayerHost
<1>8. ASSUME NEW c \in Conns, StartGame(c)
      PROVE  SlotsStay(srv, srv')
  BY <1>0, <1>1, <1>8 DEF StartGame, ServerMemory
<1>9. ASSUME NEW c \in Conns, ReturnToLobby(c)
      PROVE  SlotsStay(srv, srv')
  <2>1. PICK l \in Lobbies : l = srv.lobbyOf[c]
    BY <1>0, <1>9 DEF ReturnToLobby, ServerMemory
  <2>2. SamePlaces(srv, ClearParticipation(srv, {c}))
    BY <1>0, ClearParticipationSame
  <2>3. SamePlaces(ClearParticipation(srv, {c}), srv')
    BY <1>9, <2>1, <2>2, ReconciledSame DEF ReturnToLobby, SamePlaces
  <2> QED
    BY <1>6, <2>2, <2>3, SamePlacesTransitive
<1>10. ASSUME NEW c \in Conns, NEW outOfLives \in BOOLEAN, FailRound(c, outOfLives)
       PROVE  SlotsStay(srv, srv')
  <2>1. PICK l \in Lobbies : l = srv.lobbyOf[c]
    BY <1>0, <1>10 DEF FailRound, ServerMemory
  <2> QED
    BY <1>0, <1>6, <1>10, <2>1, ResolveSoloEliminationsSame DEF FailRound
<1>11. ASSUME NEW c \in Conns, NEW l \in Lobbies, NEW i \in Ids, RejoinLobby(c, l, i)
       PROVE  SlotsStay(srv, srv')
  <2>1. CASE srv.slot[l][i] # NoSlot
    <3> DEFINE r == ReleaseSlot(srv, l, i)
    <3>1. srv.slot[l][i] \in SavedState
      BY <1>0, <2>1 DEF ServerMemory
    <3>2. r \in ServerMemory /\ r.slot = [srv.slot EXCEPT ![l][i] = NoSlot]
      BY <1>0, ReleaseSlotEffect
    <3>3. srv' \in RestoreDisconnectedLobbyClient(r, l, c, i, srv.slot[l][i])
      BY <1>11, <2>1 DEF RejoinLobby
    <3> HIDE DEF r
    <3>4. NoNewSlots(r, srv')
      BY <3>1, <3>2, <3>3, RestoreNoNewSlots
    <3>5. NoNewSlots(srv, r)
      BY <1>0, <3>2 DEF NoNewSlots, ServerMemory
    <3> QED
      BY <1>a, <3>4, <3>5 DEF NoNewSlots
  <2>2. CASE srv.slot[l][i] = NoSlot
    <3>1. PICK a \in Players(srv, l) :
            /\ srv.ident[a] = i
            /\ srv' \in RestoreDisconnectedLobbyClient(
                           Detached(srv, l, a, i), l, c, i,
                           [conn |-> a, isOwner |-> srv.isOwner[a],
                            isInMatch |-> srv.isInMatch[a]])
      BY <1>11, <2>2 DEF RejoinLobby, Detached
    <3>2. a \in Conns
      BY <1>0 DEF Players, Seated, ServerMemory
    <3> DEFINE r == Detached(srv, l, a, i)
               saved == [conn |-> a, isOwner |-> srv.isOwner[a],
                         isInMatch |-> srv.isInMatch[a]]
    <3>3. r \in ServerMemory /\ r.slot = srv.slot
      <4>1. SeatLeft(srv, l, a, r)
        BY <1>0, <3>1, <3>2, DetachedEffect
      <4> QED
        BY <4>1 DEF SeatLeft
    <3>4. saved \in SavedState
      BY <1>0, <3>2 DEF SavedState, ServerMemory
    <3>5. srv' \in RestoreDisconnectedLobbyClient(r, l, c, i, saved)
      BY <3>1
    <3> HIDE DEF r, saved
    <3>6. NoNewSlots(r, srv')
      BY <3>3, <3>4, <3>5, RestoreNoNewSlots
    <3> QED
      BY <1>a, <3>3, <3>6 DEF NoNewSlots
  <2> QED
    BY <2>1, <2>2
<1>12. ASSUME NEW c \in Conns, LosePeer(c)
       PROVE  SlotsStay(srv, srv')
  BY <1>1, <1>12 DEF LosePeer
<1>13. ASSUME NEW c \in Conns, Disconnect(c)
       PROVE  SlotsStay(srv, srv')
  <2>1. CASE srv.lobbyOf[c] = NoLobby
    BY <1>1, <1>13, <2>1 DEF Disconnect
  <2>2. CASE srv.lobbyOf[c] # NoLobby
    <3>1. PICK l \in Lobbies : l = srv.lobbyOf[c]
      BY <1>0, <2>2 DEF ServerMemory
    <3>2. srv' \in DisconnectLobbyClient(srv, l, c)
      BY <1>13, <2>2, <3>1 DEF Disconnect
    <3>3. CASE srv' \in LeaveLobbyClient(srv, l, c)
      BY <1>0, <1>a, <3>3, LeaveNoNewSlots
    <3>4. CASE srv' = ReserveSlot(srv, l, c)
      <4>1. PICK saved \in SavedState : SlotTaken(srv, l, c, saved, srv')
        BY <1>0, <3>4, ReserveEffect
      <4>2. srv.ident[c] \in Ids /\ srv.seat[l][srv.ident[c]] # NoConn
        BY <1>0, <2>2, <3>1, ConstantsAssumption DEF Places, SeatsHeld, ServerMemory
      <4>3. srv.slot[l][srv.ident[c]] = NoSlot
        BY <1>0, <4>2 DEF Places, SlotsHeld
      <4> QED
        BY <1>0, <4>1, <4>2, <4>3 DEF SlotTaken, SlotsStay, ServerMemory
    <3>5. CASE srv' = srv
      BY <1>1, <3>5
    <3> QED
      BY <3>2, <3>3, <3>4, <3>5 DEF DisconnectLobbyClient
  <2> QED
    BY <2>1, <2>2
<1>14. ASSUME NEW c \in Conns, ExpireDisconnectedLobbyClient(c)
       PROVE  SlotsStay(srv, srv')
  <2>1. PICK l \in Lobbies : l = srv.timer[c]
    BY <1>0, <1>14 DEF ExpireDisconnectedLobbyClient, ServerMemory
  <2>2. srv' \in LeaveLobbyClient(Expired(srv, l, c), l, c)
    BY <1>14, <2>1 DEF ExpireDisconnectedLobbyClient, Expired
  <2>3. /\ Expired(srv, l, c) \in ServerMemory
        /\ Expired(srv, l, c).slot = [srv.slot EXCEPT ![l][srv.ident[c]] = NoSlot]
    BY <1>0 DEF Expired, ServerMemory, Ids
  <2>4. NoNewSlots(Expired(srv, l, c), srv')
    BY <2>2, <2>3, LeaveNoNewSlots
  <2>5. NoNewSlots(srv, Expired(srv, l, c))
    BY <1>0, <2>3 DEF NoNewSlots, ServerMemory
  <2> QED
    BY <1>a, <2>4, <2>5 DEF NoNewSlots
<1>15. ASSUME NEW l \in Lobbies, NEW D, ExpireLobbyAnteTimer(l, D)
       PROVE  SlotsStay(srv, srv')
  BY <1>0, <1>6, <1>15, ResolveSoloEliminationsSame DEF ExpireLobbyAnteTimer
<1>16. CASE UNCHANGED vars
  BY <1>1, <1>16 DEF vars
<1> QED
  BY <1>2, <1>3, <1>4, <1>5, <1>7, <1>8, <1>9, <1>10, <1>11, <1>12, <1>13, <1>14,
     <1>15, <1>16 DEF Next, MessageHandler

\* Hosts and registrations are in order in every reachable state.
THEOREM HostsCorrect == Disciplined => (Spec => []HostsInv)
<1> SUFFICES ASSUME Disciplined PROVE Spec => []HostsInv
  OBVIOUS
<1>1. Init => HostsInv
  BY HostsInit
<1>2. HostsInv /\ [Next]_vars => HostsInv'
  BY HostsStep, TypeStep, PlacesStep DEF HostsInv, PlacesInv
<1> QED
  BY <1>1, <1>2, PTL DEF Spec

\* Every lobby with players has one host: the owner flag, on clients and in
\* slots, names the player of ownerId and nobody else.
THEOREM OneHostCorrect == Disciplined => (Spec => []OneHost)
<1>1. HostsInv => OneHost
  <2> SUFFICES ASSUME HostsInv, NEW l \in Lobbies, Seated(srv, l) # {}
               PROVE  /\ srv.ownerId[l] \in Seated(srv, l) \cup Reserved(srv, l)
                      /\ \A i \in Seated(srv, l) :
                           srv.isOwner[srv.seat[l][i]] <=> i = srv.ownerId[l]
                      /\ \A i \in Reserved(srv, l) :
                           srv.slot[l][i].isOwner <=> i = srv.ownerId[l]
    BY DEF OneHost
  <2>1. LobbyInOrder(srv, l) /\ Populated(srv, l)
    BY DEF HostsInv, Hosts, Populated, Seated
  <2> QED
    BY <2>1 DEF LobbyInOrder, Kept, Flags, Owned, Seated, Reserved
<1> QED
  BY <1>1, HostsCorrect, PTL

\* While codes are not drawn again, a code finds a lobby exactly while somebody
\* sits in it.
THEOREM RegisteredCorrect ==
  Disciplined /\ ~CodeReuse => (Spec => []RegisteredWhilePopulated)
<1> SUFFICES ASSUME Disciplined, ~CodeReuse
             PROVE  Spec => []RegisteredWhilePopulated
  OBVIOUS
<1>1. HostsInv => RegisteredWhilePopulated
  <2> SUFFICES ASSUME HostsInv PROVE RegisteredWhilePopulated
    OBVIOUS
  <2>1. \A l \in Lobbies : Registered(srv, l) <=> Seated(srv, l) # {}
    BY DEF HostsInv, Hosts, LobbyInOrder, Kept, Enlisted, Populated, Seated
  <2>2. \A k \in Codes : srv.registry[k] # NoLobby => srv.code[srv.registry[k]] = k
    BY DEF HostsInv, Hosts, LobbyInOrder, Kept, Enlisted, PlacesInv, TypeOK, ServerMemory
  <2> QED
    BY <2>1, <2>2 DEF RegisteredWhilePopulated
<1>2. Spec => []HostsInv
  BY HostsCorrect
<1> QED
  BY <1>1, <1>2, PTL

\* No step passes the role of a host on while its slot stays reserved: the slot
\* is the same before and after, and its owner flag names the host both times.
THEOREM AbsentHostCorrect == Disciplined => (Spec => AbsentHostKeepsRole)
<1> SUFFICES ASSUME Disciplined PROVE Spec => AbsentHostKeepsRole
  OBVIOUS
<1>1. ASSUME HostsInv, HostsInv', [Next]_vars
      PROVE  [\A l \in Lobbies :
               srv.ownerId[l] \in Reserved(srv, l) \cap Reserved(srv', l)
                 => srv'.ownerId[l] = srv.ownerId[l]]_vars
  <2> SUFFICES ASSUME NEW l \in Lobbies, NEW i \in Ids, i = srv.ownerId[l],
                      srv.slot[l][i] # NoSlot, srv'.slot[l][i] # NoSlot
               PROVE  srv'.ownerId[l] = i
    BY DEF Reserved
  <2>1. srv'.slot[l][i] = srv.slot[l][i]
    BY <1>1, SlotsStayStep DEF SlotsStay
  <2>2. Flags(srv, l) /\ Flags(srv', l)
    BY <1>1 DEF HostsInv, Hosts, LobbyInOrder, Kept
  <2> QED
    BY <2>1, <2>2 DEF Flags
<1>2. Spec => []HostsInv
  BY HostsCorrect
<1> QED
  BY <1>1, <1>2, PTL DEF Spec, AbsentHostKeepsRole

------------------------------------------------------------------------------
(* Nobody enters a running match *)

Member(s, l, i) == s.seat[l][i] # NoConn \/ s.slot[l][i] # NoSlot

Partaking(s, l, i) ==
  \/ s.seat[l][i] # NoConn /\ s.isInMatch[s.seat[l][i]]
  \/ s.slot[l][i] # NoSlot /\ s.slot[l][i].isInMatch

\* In t, i is no more in l, and takes no more part in its match, than in s.
NoMore(s, t, l, i) ==
  (Member(t, l, i) => Member(s, l, i)) /\ (Partaking(t, l, i) => Partaking(s, l, i))

\* Nobody entered a lobby or a match, and no match began.
Narrower(s, t) ==
  /\ t.code = s.code
  /\ \A l \in Lobbies : t.inGame[l] => s.inGame[l]
  /\ \A l \in Lobbies, i \in Ids : NoMore(s, t, l, i)

\* Nobody moved, and participation and matches only ended.
Quieter(s, t) ==
  /\ SamePlaces(s, t)
  /\ \A c \in Conns : t.isInMatch[c] => s.isInMatch[c]
  /\ \A l \in Lobbies : t.inGame[l] => s.inGame[l]

LEMMA NarrowerTransitive ==
  ASSUME NEW s, NEW t, NEW u, Narrower(s, t), Narrower(t, u)
  PROVE  Narrower(s, u)
BY DEF Narrower, NoMore

LEMMA QuieterTransitive ==
  ASSUME NEW s, NEW t, NEW u, Quieter(s, t), Quieter(t, u)
  PROVE  Quieter(s, u)
BY SamePlacesTransitive DEF Quieter

LEMMA QuieterItself == ASSUME NEW s \in ServerMemory PROVE Quieter(s, s) /\ Narrower(s, s)
BY MemoryItself DEF Quieter, Narrower, NoMore

LEMMA QuieterNarrows ==
  ASSUME NEW s \in ServerMemory, NEW t, Quieter(s, t)
  PROVE  Narrower(s, t) /\ t \in ServerMemory
<1>1. \A l \in Lobbies, i \in Ids : s.seat[l][i] \in Conns \cup {NoConn}
  BY DEF ServerMemory
<1>2. t.seat = s.seat /\ t.slot = s.slot /\ t.code = s.code /\ t \in ServerMemory
  BY DEF Quieter, SamePlaces
<1>3. ASSUME NEW l \in Lobbies, NEW i \in Ids PROVE NoMore(s, t, l, i)
  BY <1>1, <1>2 DEF Quieter, NoMore, Member, Partaking
<1> QED BY <1>2, <1>3 DEF Narrower, Quieter

LEMMA SetOwnerQuieter ==
  ASSUME NEW s \in ServerMemory, NEW l \in Lobbies, NEW i \in Ids
  PROVE  Quieter(s, SetOwner(s, l, i))
<1>1. SetOwner(s, l, i).isInMatch = s.isInMatch /\ SetOwner(s, l, i).inGame = s.inGame
  BY DEF SetOwner, ServerMemory
<1> QED BY <1>1, SetOwnerSame DEF Quieter

LEMMA ClearQuieter ==
  ASSUME NEW s \in ServerMemory, NEW D
  PROVE  Quieter(s, ClearParticipation(s, D))
BY ClearParticipationSame DEF Quieter, ClearParticipation, ServerMemory

LEMMA ResolveQuieter ==
  ASSUME NEW s \in ServerMemory, NEW l \in Lobbies, NEW D
  PROVE  Quieter(s, ResolveSoloEliminations(s, l, D))
<1>1. \A E : Quieter(s, FinishMatch(s, l, E))
  <2> TAKE E
  <2> DEFINE t == ClearParticipation(s, E)
  <2>1. Quieter(s, t) /\ t \in ServerMemory
    BY ClearQuieter DEF Quieter, SamePlaces
  <2>2. FinishMatch(s, l, E) = [t EXCEPT !.inGame[l] = FALSE]
    BY DEF FinishMatch
  <2> HIDE DEF t
  <2>3. Quieter(t, [t EXCEPT !.inGame[l] = FALSE])
    BY <2>1, GameOverSame DEF Quieter, ServerMemory
  <2> QED BY <2>1, <2>2, <2>3, QuieterTransitive
<1> QED BY <1>1, ClearQuieter DEF ResolveSoloEliminations

LEMMA ReconciledQuieter ==
  ASSUME NEW s \in ServerMemory, NEW l \in Lobbies, NEW t \in Reconciled(s, l)
  PROVE  Quieter(s, t)
<1>1. PICK D : t = ReconcileActiveMatchState(s, l, D)
  BY DEF Reconciled
<1> QED BY <1>1, QuieterItself, ResolveQuieter DEF ReconcileActiveMatchState

LEMMA OwnerAssignedQuieter ==
  ASSUME NEW s \in ServerMemory, NEW l \in Lobbies, NEW i \in Ids,
         NEW t \in OwnerAssigned(s, l, i)
  PROVE  Quieter(s, t)
<1>1. CASE t = s
  BY <1>1, QuieterItself
<1>2. CASE t # s
  <2>1. PICK j \in Ids : t = SetOwner(s, l, j)
    BY <1>2 DEF OwnerAssigned, Seated
  <2> QED BY <2>1, SetOwnerQuieter
<1> QED BY <1>1, <1>2

LEMMA FinalizeQuieter ==
  ASSUME NEW s \in ServerMemory, NEW l \in Lobbies, NEW i \in Ids,
         NEW wasInMatch, NEW t \in FinalizeDeparture(s, l, i, wasInMatch)
  PROVE  Quieter(s, t)
<1>1. CASE Seated(s, l) = {}
  <2>1. t = RemoveLobbyByCode(s, s.code[l])
    BY <1>1 DEF FinalizeDeparture
  <2>2. t.isInMatch = s.isInMatch /\ t.inGame = s.inGame
    BY <2>1 DEF RemoveLobbyByCode, ServerMemory
  <2> QED BY <2>1, <2>2, RemoveLobbySame DEF Quieter
<1>2. CASE Seated(s, l) # {} /\ wasInMatch
  <2>1. PICK u \in OwnerAssigned(s, l, i) : t \in Reconciled(u, l)
    BY <1>2 DEF FinalizeDeparture
  <2>2. Quieter(s, u) /\ u \in ServerMemory
    BY <2>1, OwnerAssignedQuieter, QuieterNarrows
  <2> QED BY <2>1, <2>2, ReconciledQuieter, QuieterTransitive
<1>3. CASE Seated(s, l) # {} /\ ~wasInMatch
  BY <1>3, OwnerAssignedQuieter DEF FinalizeDeparture
<1> QED BY <1>1, <1>2, <1>3

LEMMA ReleaseSlotNarrows ==
  ASSUME NEW s \in ServerMemory, NEW l \in Lobbies, NEW i \in Ids
  PROVE  Narrower(s, ReleaseSlot(s, l, i)) /\ ReleaseSlot(s, l, i) \in ServerMemory
<1> DEFINE t == ReleaseSlot(s, l, i)
<1>1. /\ t \in ServerMemory /\ t.seat = s.seat /\ t.code = s.code
      /\ t.slot = [s.slot EXCEPT ![l][i] = NoSlot]
  BY ReleaseSlotEffect
<1>2. t.isInMatch = s.isInMatch /\ t.inGame = s.inGame
  BY DEF ReleaseSlot, ServerMemory
<1> HIDE DEF t
<1>3. ASSUME NEW m \in Lobbies, NEW j \in Ids PROVE NoMore(s, t, m, j)
  <2>1. t.slot[m][j] = s.slot[m][j] \/ t.slot[m][j] = NoSlot
    BY <1>1 DEF ServerMemory
  <2> QED BY <1>1, <1>2, <2>1 DEF NoMore, Member, Partaking
<1>4. Narrower(s, t)
  BY <1>1, <1>2, <1>3 DEF Narrower
<1> QED BY <1>1, <1>4 DEF t

\* a seat is given up, or held by a client that takes no more part
SeatsGivenUp(s, t) ==
  /\ t.code = s.code /\ t.slot = s.slot /\ t.inGame = s.inGame
  /\ \A m \in Lobbies, j \in Ids : t.seat[m][j] = s.seat[m][j] \/ t.seat[m][j] = NoConn
  /\ \A c \in Conns : t.isInMatch[c] => s.isInMatch[c]

LEMMA SeatNarrows ==
  ASSUME NEW s \in ServerMemory, NEW t \in ServerMemory, SeatsGivenUp(s, t)
  PROVE  Narrower(s, t)
<1>1. ASSUME NEW m \in Lobbies, NEW j \in Ids PROVE NoMore(s, t, m, j)
  <2>1. s.seat[m][j] \in Conns \cup {NoConn}
    BY DEF ServerMemory
  <2> QED BY <2>1 DEF SeatsGivenUp, NoMore, Member, Partaking
<1> QED BY <1>1 DEF Narrower, SeatsGivenUp

LEMMA LeaveNarrows ==
  ASSUME NEW s \in ServerMemory, NEW l \in Lobbies, NEW c \in Conns,
         NEW t \in LeaveLobbyClient(s, l, c)
  PROVE  Narrower(s, t)
<1> DEFINE i == s.ident[c]
           r == ReleaseSlot(s, l, i)
           v == ClearMembership(RemovePlayer(r, l, i), c)
<1>0. i \in Ids
  BY DEF ServerMemory
<1>1. Narrower(s, r) /\ r \in ServerMemory
  BY <1>0, ReleaseSlotNarrows
<1>2. t \in FinalizeDeparture(v, l, i, s.isInMatch[c])
  BY DEF LeaveLobbyClient
<1> HIDE DEF i, r
<1>3. /\ v \in ServerMemory /\ v.slot = r.slot /\ v.code = r.code /\ v.inGame = r.inGame
      /\ v.seat = [r.seat EXCEPT ![l][i] = NoConn]
      /\ v.isInMatch = [r.isInMatch EXCEPT ![c] = FALSE]
  BY <1>0, <1>1 DEF ClearMembership, RemovePlayer, ServerMemory, Ids
<1> HIDE DEF v
<1>4. /\ \A m \in Lobbies, j \in Ids : v.seat[m][j] = r.seat[m][j] \/ v.seat[m][j] = NoConn
      /\ \A d \in Conns : v.isInMatch[d] => r.isInMatch[d]
  BY <1>1, <1>3 DEF ServerMemory
<1>5. SeatsGivenUp(r, v)
  BY <1>1, <1>3, <1>4 DEF SeatsGivenUp
<1>5a. Narrower(r, v)
  BY <1>1, <1>3, <1>5, SeatNarrows
<1>6. Narrower(v, t)
  BY <1>0, <1>2, <1>3, FinalizeQuieter, QuieterNarrows
<1> QED BY <1>1, <1>5a, <1>6, NarrowerTransitive

LEMMA KickNarrows ==
  ASSUME NEW s \in ServerMemory, NEW l \in Lobbies, NEW i \in Ids,
         NEW t \in KickLobbyPlayer(s, l, i)
  PROVE  Narrower(s, t)
<1>1. CASE s.seat[l][i] # NoConn
  <2>1. PICK x \in Conns : x = s.seat[l][i]
    BY <1>1 DEF ServerMemory
  <2>2. t \in LeaveLobbyClient(s, l, x)
    BY <1>1, <2>1 DEF KickLobbyPlayer
  <2> QED BY <2>2, LeaveNarrows
<1>2. CASE s.seat[l][i] = NoConn /\ s.slot[l][i] = NoSlot
  BY <1>2, QuieterItself DEF KickLobbyPlayer
<1>3. CASE s.seat[l][i] = NoConn /\ s.slot[l][i] # NoSlot
  <2> DEFINE r == ReleaseSlot(s, l, i)
  <2>1. Narrower(s, r) /\ r \in ServerMemory
    BY ReleaseSlotNarrows
  <2>2. t \in FinalizeDeparture(r, l, i, s.slot[l][i].isInMatch)
    BY <1>3 DEF KickLobbyPlayer
  <2> HIDE DEF r
  <2>3. Narrower(r, t)
    BY <2>1, <2>2, FinalizeQuieter, QuieterNarrows
  <2> QED BY <2>1, <2>3, NarrowerTransitive
<1> QED BY <1>1, <1>2, <1>3

\* The slot of a player holds the part it took at the table.
LEMMA ReserveNarrows ==
  ASSUME NEW s \in ServerMemory, NEW l \in Lobbies, NEW c \in Conns,
         s.seat[l][s.ident[c]] = c
  PROVE  Narrower(s, ReserveSlot(s, l, c))
<1> DEFINE i == s.ident[c]
           saved == [conn |-> c, isOwner |-> s.isOwner[c], isInMatch |-> s.isInMatch[c]]
           t == ReserveSlot(s, l, c)
<1>0. i \in Ids /\ c # NoConn
  BY ConstantsAssumption DEF ServerMemory
<1>1. t = [s EXCEPT !.seat[l][i] = NoConn, !.slot[l][i] = saved, !.timer[c] = l,
                    !.lobbyOf[c] = NoLobby]
  BY DEF ReserveSlot, RemovePlayer, ServerMemory
<1>2. saved.isInMatch = s.isInMatch[c]
  OBVIOUS
<1>3. s.seat[l][i] = c
  OBVIOUS
<1> HIDE DEF i, saved, t
<1>4. /\ t.code = s.code /\ t.inGame = s.inGame /\ t.isInMatch = s.isInMatch
      /\ \A m \in Lobbies, j \in Ids :
           IF m = l /\ j = i THEN t.seat[m][j] = NoConn /\ t.slot[m][j] = saved
           ELSE t.seat[m][j] = s.seat[m][j] /\ t.slot[m][j] = s.slot[m][j]
  BY <1>0, <1>1 DEF ServerMemory
<1>5. ASSUME NEW m \in Lobbies, NEW j \in Ids PROVE NoMore(s, t, m, j)
  <2>1. CASE m = l /\ j = i
    BY <1>0, <1>2, <1>3, <1>4, <2>1 DEF NoMore, Member, Partaking
  <2>2. CASE ~(m = l /\ j = i)
    BY <1>4, <2>2 DEF NoMore, Member, Partaking
  <2> QED BY <2>1, <2>2
<1> QED BY <1>4, <1>5 DEF Narrower, t

LEMMA DisconnectNarrows ==
  ASSUME NEW k \in LinkState, NEW s \in ServerMemory, Places(k, s),
         NEW l \in Lobbies, NEW c \in Conns, s.lobbyOf[c] = l,
         NEW t \in DisconnectLobbyClient(s, l, c)
  PROVE  Narrower(s, t)
<1>1. s.seat[l][s.ident[c]] = c
  BY ConstantsAssumption DEF Places, SeatsHeld
<1> QED BY <1>1, QuieterItself, LeaveNarrows, ReserveNarrows DEF DisconnectLobbyClient

\* c is back on the place of i in l, as saved; elsewhere nobody entered.
LEMMA RestoreNarrows ==
  ASSUME NEW k \in LinkState, NEW s \in ServerMemory, Places(k, s),
         NEW l \in Lobbies, NEW c \in Conns, NEW i \in Ids, NEW saved \in SavedState,
         s.lobbyOf[c] # l, s.slot[l][i] = NoSlot,
         NEW t \in RestoreDisconnectedLobbyClient(s, l, c, i, saved)
  PROVE  /\ t.code = s.code /\ \A m \in Lobbies : t.inGame[m] => s.inGame[m]
         /\ \A m \in Lobbies, j \in Ids : ~(m = l /\ j = i) => NoMore(s, t, m, j)
         /\ Partaking(t, l, i) => saved.isInMatch
<1>1. PICK u : /\ IF s.lobbyOf[c] \notin {NoLobby, l}
                   THEN u \in LeaveLobbyClient(s, s.lobbyOf[c], c)
                   ELSE u = s
               /\ t \in Reconciled(RestoreSavedGameState(u, l, c, i, saved), l)
  BY DEF RestoreDisconnectedLobbyClient
<1>2. /\ u \in ServerMemory /\ Places(k, u) /\ u.lobbyOf[c] = NoLobby
      /\ u.slot[l][i] = NoSlot /\ Narrower(s, u)
  <2>1. CASE s.lobbyOf[c] = NoLobby
    BY <1>1, <2>1, QuieterItself
  <2>2. CASE s.lobbyOf[c] # NoLobby
    <3>1. PICK from \in Lobbies : from = s.lobbyOf[c]
      BY <2>2 DEF ServerMemory
    <3>2. u \in LeaveLobbyClient(s, from, c)
      BY <1>1, <2>2, <3>1
    <3>3. Places(k, u) /\ SeatLeft(s, from, c, u)
      BY <3>1, <3>2, LeaveKeeps
    <3>4. u.lobbyOf[c] = NoLobby
      BY <3>3 DEF SeatLeft, ServerMemory
    <3> QED BY <3>2, <3>3, <3>4, LeaveNarrows DEF SeatLeft
  <2> QED BY <2>1, <2>2
<1>3. \A m \in Lobbies, j \in Ids : u.seat[m][j] # c
  BY <1>2, NoSeatWithoutLobby
<1> DEFINE r == [u EXCEPT !.ident[c] = i, !.isOwner[c] = saved.isOwner,
                          !.isInMatch[c] = saved.isInMatch]
           a == AddPlayer(r, l, c)
           w == RestoreSavedGameState(u, l, c, i, saved)
<1>4. /\ r \in ServerMemory /\ r.ident[c] = i /\ r.seat = u.seat /\ r.slot = u.slot
      /\ r.code = u.code /\ r.inGame = u.inGame
      /\ r.isInMatch = [u.isInMatch EXCEPT ![c] = saved.isInMatch]
  BY <1>2 DEF ServerMemory, SavedState, Ids
<1>5. w = IF saved.isOwner THEN SetOwner(a, l, i) ELSE a
  BY DEF RestoreSavedGameState
<1>6. t \in Reconciled(w, l)
  BY <1>1
<1> HIDE DEF r, w
<1>7. /\ a \in ServerMemory /\ a.seat = [r.seat EXCEPT ![l][i] = c] /\ a.slot = r.slot
      /\ a.code = r.code
  BY <1>4 DEF AddPlayer, ServerMemory, Ids
<1>8. a.isInMatch = r.isInMatch /\ a.inGame = r.inGame
  BY <1>4 DEF AddPlayer, ServerMemory
<1> HIDE DEF a
<1>9. Quieter(a, w) /\ w \in ServerMemory
  BY <1>5, <1>7, SetOwnerQuieter, QuieterItself, QuieterNarrows
<1>10. Narrower(a, t)
  BY <1>6, <1>7, <1>9, ReconciledQuieter, QuieterTransitive, QuieterNarrows
<1>11. /\ a.seat[l][i] = c /\ a.slot[l][i] = NoSlot /\ a.isInMatch[c] = saved.isInMatch
  BY <1>2, <1>4, <1>7, <1>8 DEF ServerMemory
<1>12. Partaking(t, l, i) => saved.isInMatch
  BY <1>10, <1>11 DEF Narrower, NoMore, Partaking
<1>13. ASSUME NEW m \in Lobbies, NEW j \in Ids, ~(m = l /\ j = i)
       PROVE  NoMore(s, t, m, j)
  <2>1. a.seat[m][j] = u.seat[m][j] /\ a.slot[m][j] = u.slot[m][j]
    BY <1>2, <1>4, <1>7, <1>13 DEF ServerMemory
  <2>2. u.seat[m][j] # NoConn => a.isInMatch[u.seat[m][j]] = u.isInMatch[u.seat[m][j]]
    BY <1>2, <1>3, <1>4, <1>8 DEF ServerMemory
  <2>3. NoMore(u, a, m, j)
    BY <2>1, <2>2 DEF NoMore, Member, Partaking
  <2>4. NoMore(s, u, m, j) /\ NoMore(a, t, m, j)
    BY <1>2, <1>10 DEF Narrower
  <2> QED BY <2>3, <2>4 DEF NoMore
<1>14. t.code = s.code /\ \A m \in Lobbies : t.inGame[m] => s.inGame[m]
  BY <1>2, <1>4, <1>7, <1>8, <1>10 DEF Narrower
<1> QED BY <1>12, <1>13, <1>14

LEMMA RejoinNarrows ==
  ASSUME Disciplined, TypeOK, Places(link, srv),
         NEW c \in Conns, NEW l \in Lobbies, NEW i \in Ids, RejoinLobby(c, l, i)
  PROVE  Narrower(srv, srv')
<1>0. srv \in ServerMemory /\ link \in LinkState
  BY DEF TypeOK, LinkState
<1>1. link[c] = "up" /\ (srv.lobbyOf[c] = l => srv.ident[c] = i)
  BY DEF RejoinLobby
<1>2. CASE srv.slot[l][i] # NoSlot
  <2> DEFINE r == ReleaseSlot(srv, l, i)
             saved == srv.slot[l][i]
  <2>1. saved \in SavedState
    BY <1>0, <1>2 DEF ServerMemory
  <2>2. /\ r \in ServerMemory
        /\ r.ident = srv.ident /\ r.lobbyOf = srv.lobbyOf /\ r.seat = srv.seat
        /\ r.slot = [srv.slot EXCEPT ![l][i] = NoSlot]
        /\ r.timer = Freed(srv, l, i)
    BY <1>0, ReleaseSlotEffect
  <2>3. srv' \in RestoreDisconnectedLobbyClient(r, l, c, i, saved)
    BY <1>2 DEF RejoinLobby
  <2>4. Narrower(srv, r)
    BY <1>0, ReleaseSlotNarrows
  <2>5. Member(srv, l, i) /\ (saved.isInMatch => Partaking(srv, l, i))
    BY <1>2 DEF Member, Partaking
  <2> HIDE DEF r, saved
  <2>6. Places(link, r)
    BY <1>0, <2>2, VacateSlot
  <2>7. r.lobbyOf[c] # l
    <3>1. srv.ident[c] # i
      BY <1>0, <1>1, <1>2 DEF Places, LiveHolders
    <3> QED BY <1>1, <2>2, <3>1
  <2>8. r.slot[l][i] = NoSlot
    BY <1>0, <2>2 DEF ServerMemory
  <2>9. /\ srv'.code = r.code /\ \A m \in Lobbies : srv'.inGame[m] => r.inGame[m]
        /\ \A m \in Lobbies, j \in Ids : ~(m = l /\ j = i) => NoMore(r, srv', m, j)
        /\ Partaking(srv', l, i) => saved.isInMatch
    BY <1>0, <2>1, <2>2, <2>3, <2>6, <2>7, <2>8, RestoreNarrows
  <2> QED BY <2>4, <2>5, <2>9 DEF Narrower, NoMore
<1>3. CASE srv.slot[l][i] = NoSlot
  <2>1. i # srv.ident[c]
    BY <1>3 DEF RejoinLobby
  <2>2. PICK a \in Players(srv, l) :
          /\ srv.ident[a] = i
          /\ srv' \in RestoreDisconnectedLobbyClient(
                         Detached(srv, l, a, i), l, c, i,
                         [conn |-> a, isOwner |-> srv.isOwner[a],
                          isInMatch |-> srv.isInMatch[a]])
    BY <1>3 DEF RejoinLobby, Detached
  <2>3. a \in Conns /\ srv.seat[l][i] = a /\ srv.lobbyOf[a] = l /\ a # NoConn
    BY <1>0, <2>2, ConstantsAssumption DEF Players, Seated, ServerMemory, Places, SeatsHeld
  <2> DEFINE r == Detached(srv, l, a, i)
             saved == [conn |-> a, isOwner |-> srv.isOwner[a], isInMatch |-> srv.isInMatch[a]]
  <2>4. SeatLeft(srv, l, a, r) /\ r.timer = srv.timer
    BY <1>0, <2>2, <2>3, DetachedEffect
  <2>5. r.isInMatch = srv.isInMatch /\ r.inGame = srv.inGame /\ r.code = srv.code
    BY <1>0 DEF Detached, RemovePlayer, ServerMemory
  <2>6. saved \in SavedState /\ saved.isInMatch = srv.isInMatch[a]
    BY <1>0, <2>3 DEF SavedState, ServerMemory
  <2>7. srv' \in RestoreDisconnectedLobbyClient(r, l, c, i, saved)
    BY <2>2
  <2> HIDE DEF r, saved
  <2>8. Places(link, r)
    BY <1>0, <2>3, <2>4, SeatLeftKeeps
  <2>9. r \in ServerMemory /\ r.slot = srv.slot
    BY <2>4 DEF SeatLeft
  <2>10. \A m \in Lobbies, j \in Ids : r.seat[m][j] = srv.seat[m][j] \/ r.seat[m][j] = NoConn
    BY <1>0, <2>2, <2>4 DEF SeatLeft, ServerMemory
  <2>11. Narrower(srv, r)
    <3>1. SeatsGivenUp(srv, r)
      BY <2>5, <2>9, <2>10 DEF SeatsGivenUp
    <3> QED BY <1>0, <2>9, <3>1, SeatNarrows
  <2>12. r.lobbyOf[c] # l
    <3>1. c # a
      BY <2>1, <2>2
    <3> QED BY <1>0, <1>1, <2>1, <2>4, <3>1 DEF SeatLeft, ServerMemory
  <2>13. r.slot[l][i] = NoSlot
    BY <1>3, <2>9
  <2>14. /\ srv'.code = r.code /\ \A m \in Lobbies : srv'.inGame[m] => r.inGame[m]
         /\ \A m \in Lobbies, j \in Ids : ~(m = l /\ j = i) => NoMore(r, srv', m, j)
         /\ Partaking(srv', l, i) => saved.isInMatch
    BY <1>0, <2>6, <2>7, <2>8, <2>9, <2>12, <2>13, RestoreNarrows
  <2>15. Member(srv, l, i) /\ (saved.isInMatch => Partaking(srv, l, i))
    BY <2>3, <2>6 DEF Member, Partaking
  <2> QED BY <2>11, <2>14, <2>15 DEF Narrower, NoMore
<1> QED BY <1>2, <1>3

\* c is new in l; elsewhere nobody entered.
EnteredOnly(s, t, l) ==
  /\ t.code = s.code /\ t.inGame = s.inGame
  /\ \A m \in Lobbies, j \in Ids : m # l => NoMore(s, t, m, j)

LEMMA AttachNarrows ==
  ASSUME NEW k \in LinkState, NEW s \in ServerMemory, Places(k, s),
         NEW l \in Lobbies, NEW c \in Conns, s.lobbyOf[c] = NoLobby, NEW host \in BOOLEAN
  PROVE  EnteredOnly(s, AttachFreshClient(s, l, c, host), l)
<1> DEFINE t == AttachFreshClient(s, l, c, host)
<1>1. /\ t.code = s.code /\ t.inGame = s.inGame /\ t.slot = s.slot
      /\ t.seat = [s.seat EXCEPT ![l][s.ident[c]] = c]
      /\ t.isInMatch = [s.isInMatch EXCEPT ![c] = FALSE]
  BY DEF AttachFreshClient, AddPlayer, ServerMemory
<1> HIDE DEF t
<1>2. \A m \in Lobbies, j \in Ids : s.seat[m][j] # c
  BY NoSeatWithoutLobby
<1>3. ASSUME NEW m \in Lobbies, NEW j \in Ids, m # l PROVE NoMore(s, t, m, j)
  <2>1. t.seat[m][j] = s.seat[m][j] /\ s.seat[m][j] \in Conns \cup {NoConn}
    BY <1>1, <1>3 DEF ServerMemory
  <2>2. t.isInMatch[s.seat[m][j]] => s.seat[m][j] = NoConn \/ s.isInMatch[s.seat[m][j]]
    BY <1>1, <1>2, <2>1 DEF ServerMemory
  <2> QED BY <1>1, <2>1, <2>2 DEF NoMore, Member, Partaking
<1> QED BY <1>1, <1>3 DEF EnteredOnly, t

\* A lobby in a match was given a code, so it is none that may still be allocated.
RunsHaveCodes(s) == \A l \in Lobbies : s.inGame[l] => s.code[l] # NoCode

RunsInv == RunsHaveCodes(srv)

\* Nobody enters a match that goes on between s and t.
NoEntry(s, t) ==
  \A l \in Lobbies : s.inGame[l] /\ t.inGame[l] => \A i \in Ids : NoMore(s, t, l, i)

MatchesKept(s, t) == NoEntry(s, t) /\ RunsHaveCodes(t)

LEMMA NarrowerKeeps ==
  ASSUME NEW s, RunsHaveCodes(s), NEW t, Narrower(s, t)
  PROVE  MatchesKept(s, t)
BY DEF MatchesKept, NoEntry, RunsHaveCodes, Narrower

LEMMA CreateKeepsMatches ==
  ASSUME Disciplined, HostsInv, RunsHaveCodes(srv),
         NEW c \in Conns, NEW l \in Lobbies, NEW k \in Codes, CreateLobby(c, l, k)
  PROVE  MatchesKept(srv, srv')
<1>0. srv \in ServerMemory /\ link \in LinkState /\ Places(link, srv)
  BY DEF HostsInv, PlacesInv, TypeOK, LinkState
<1> DEFINE s == [srv EXCEPT !.code[l] = k, !.registry[k] = l, !.ownerId[l] = srv.ident[c]]
<1>1. /\ s \in ServerMemory /\ s.code = [srv.code EXCEPT ![l] = k]
      /\ s.ident = srv.ident /\ s.lobbyOf = srv.lobbyOf /\ s.isInMatch = srv.isInMatch
      /\ s.seat = srv.seat /\ s.slot = srv.slot /\ s.timer = srv.timer
      /\ s.inGame = srv.inGame
  BY <1>0 DEF ServerMemory, Ids
<1>2. srv' = AttachFreshClient(s, l, c, TRUE)
  BY DEF CreateLobby
<1> HIDE DEF s
<1>3. Places(link, s)
  BY <1>0, <1>1 DEF Places, SeatsHeld, SlotsHeld, LiveHolders
<1>4. s.lobbyOf[c] = NoLobby
  BY <1>1 DEF CreateLobby, MayEnter
<1>5. /\ srv'.code = s.code /\ srv'.inGame = s.inGame
      /\ \A m \in Lobbies, j \in Ids : m # l => NoMore(s, srv', m, j)
  <2>1. EnteredOnly(s, srv', l)
    BY <1>0, <1>1, <1>2, <1>3, <1>4, AttachNarrows
  <2> QED BY <2>1 DEF EnteredOnly
<1>6. ~srv.inGame[l]
  BY DEF CreateLobby, RunsHaveCodes
<1>7. ASSUME NEW m \in Lobbies, srv.inGame[m], NEW j \in Ids PROVE NoMore(srv, srv', m, j)
  <2>1. NoMore(s, srv', m, j)
    BY <1>5, <1>6, <1>7
  <2> QED BY <1>1, <2>1 DEF NoMore, Member, Partaking
<1>8. ASSUME NEW m \in Lobbies, srv'.inGame[m] PROVE srv'.code[m] # NoCode
  <2>1. srv.inGame[m] /\ m # l
    BY <1>1, <1>5, <1>6, <1>8
  <2>2. srv'.code[m] = srv.code[m]
    BY <1>0, <1>1, <1>5, <2>1 DEF ServerMemory
  <2> QED BY <2>1, <2>2 DEF RunsHaveCodes
<1> QED BY <1>7, <1>8 DEF MatchesKept, NoEntry, RunsHaveCodes

LEMMA JoinKeepsMatches ==
  ASSUME Disciplined, HostsInv, RunsHaveCodes(srv),
         NEW c \in Conns, NEW l \in Lobbies, JoinLobby(c, l)
  PROVE  MatchesKept(srv, srv')
<1>0. srv \in ServerMemory /\ link \in LinkState /\ Places(link, srv)
  BY DEF HostsInv, PlacesInv, TypeOK, LinkState
<1>1. /\ srv' = AttachFreshClient(srv, l, c, FALSE) /\ srv.lobbyOf[c] = NoLobby
      /\ ~srv.inGame[l]
  BY DEF JoinLobby, MayEnter
<1>2. /\ srv'.code = srv.code /\ srv'.inGame = srv.inGame
      /\ \A m \in Lobbies, j \in Ids : m # l => NoMore(srv, srv', m, j)
  <2>1. EnteredOnly(srv, srv', l)
    BY <1>0, <1>1, AttachNarrows
  <2> QED BY <2>1 DEF EnteredOnly
<1> QED BY <1>1, <1>2 DEF MatchesKept, NoEntry, RunsHaveCodes

LEMMA StartKeepsMatches ==
  ASSUME HostsInv, RunsHaveCodes(srv), NEW c \in Conns, StartGame(c)
  PROVE  MatchesKept(srv, srv')
<1>0. srv \in ServerMemory /\ Places(link, srv) /\ Hosts(srv)
  BY DEF HostsInv, PlacesInv, TypeOK
<1>1. PICK l \in Lobbies : l = srv.lobbyOf[c]
  BY <1>0 DEF StartGame, ServerMemory
<1>2. /\ srv'.code = srv.code /\ srv'.seat = srv.seat /\ srv'.slot = srv.slot
      /\ srv'.inGame = [srv.inGame EXCEPT ![l] = TRUE]
      /\ srv'.isInMatch = [d \in Conns |-> d \in Players(srv, l) \/ srv.isInMatch[d]]
  BY <1>0, <1>1 DEF StartGame, ServerMemory
<1>3. ~srv.inGame[l]
  BY <1>1 DEF StartGame, StartBlocked
<1>4. srv.code[l] # NoCode
  <2>1. srv.ident[c] \in Ids /\ l # NoLobby /\ c # NoConn
    BY <1>0, ConstantsAssumption DEF ServerMemory
  <2>2. srv.seat[l][srv.ident[c]] = c
    BY <1>0, <1>1, <2>1 DEF Places, SeatsHeld
  <2> QED BY <1>0, <2>1, <2>2 DEF Hosts, LobbyInOrder, Kept, InUse
<1>5. ASSUME NEW m \in Lobbies, srv.inGame[m], NEW j \in Ids PROVE NoMore(srv, srv', m, j)
  <2>1. CASE srv.seat[m][j] = NoConn
    BY <1>2, <2>1 DEF NoMore, Member, Partaking
  <2>2. CASE srv.seat[m][j] # NoConn
    <3>1. PICK x \in Conns : x = srv.seat[m][j]
      BY <1>0, <2>2 DEF ServerMemory
    <3>2. srv.lobbyOf[x] = m /\ m # l
      BY <1>0, <1>3, <1>5, <2>2, <3>1 DEF Places, SeatsHeld
    <3>3. x \notin Players(srv, l)
      BY <1>0, <3>2 DEF Players, Seated, Places, SeatsHeld
    <3>4. srv'.isInMatch[x] = srv.isInMatch[x]
      BY <1>0, <1>2, <3>3 DEF ServerMemory
    <3> QED BY <1>2, <3>1, <3>4 DEF NoMore, Member, Partaking
  <2> QED BY <2>1, <2>2
<1>6. RunsHaveCodes(srv')
  BY <1>0, <1>2, <1>4 DEF RunsHaveCodes, ServerMemory
<1> QED BY <1>5, <1>6 DEF MatchesKept, NoEntry

LEMMA MatchStep ==
  ASSUME Disciplined, HostsInv, RunsHaveCodes(srv), [Next]_vars
  PROVE  MatchesKept(srv, srv')
<1>0. /\ srv \in ServerMemory /\ link \in LinkState /\ Places(link, srv) /\ TypeOK
  BY DEF HostsInv, PlacesInv, TypeOK, LinkState
<1>a. ASSUME Narrower(srv, srv') PROVE MatchesKept(srv, srv')
  BY <1>a, NarrowerKeeps
<1>b. ASSUME Quieter(srv, srv') PROVE MatchesKept(srv, srv')
  BY <1>0, <1>a, <1>b, QuieterNarrows
<1>1. ASSUME NEW c \in Conns, LeaveLobby(c) PROVE MatchesKept(srv, srv')
  <2>1. PICK l \in Lobbies : l = srv.lobbyOf[c]
    BY <1>0, <1>1 DEF LeaveLobby, ServerMemory
  <2>2. srv' \in LeaveLobbyClient(srv, l, c)
    BY <1>1, <2>1 DEF LeaveLobby
  <2> QED BY <1>0, <1>a, <2>2, LeaveNarrows
<1>2. ASSUME NEW c \in Conns, NEW i \in Ids, KickPlayer(c, i) PROVE MatchesKept(srv, srv')
  <2>1. PICK l \in Lobbies : l = srv.lobbyOf[c]
    BY <1>0, <1>2 DEF KickPlayer, ServerMemory
  <2>2. srv' \in KickLobbyPlayer(srv, l, i)
    BY <1>2, <2>1 DEF KickPlayer
  <2> QED BY <1>0, <1>a, <2>2, KickNarrows
<1>3. ASSUME NEW c \in Conns, NEW i \in Ids, MakePlayerHost(c, i)
      PROVE  MatchesKept(srv, srv')
  <2>1. PICK l \in Lobbies : l = srv.lobbyOf[c]
    BY <1>0, <1>3 DEF MakePlayerHost, ServerMemory
  <2>2. srv' = SetOwner(srv, l, i)
    BY <1>3, <2>1 DEF MakePlayerHost
  <2> QED BY <1>0, <1>b, <2>2, SetOwnerQuieter
<1>4. ASSUME NEW c \in Conns, ReturnToLobby(c) PROVE MatchesKept(srv, srv')
  <2>1. PICK l \in Lobbies : l = srv.lobbyOf[c]
    BY <1>0, <1>4 DEF ReturnToLobby, ServerMemory
  <2>2. Quieter(srv, ClearParticipation(srv, {c}))
    BY <1>0, ClearQuieter
  <2>3. ClearParticipation(srv, {c}) \in ServerMemory
    BY <1>0, <2>2, QuieterNarrows
  <2>4. Quieter(ClearParticipation(srv, {c}), srv')
    BY <1>4, <2>1, <2>3, ReconciledQuieter DEF ReturnToLobby
  <2> QED BY <1>b, <2>2, <2>4, QuieterTransitive
<1>5. ASSUME NEW c \in Conns, NEW outOfLives \in BOOLEAN, FailRound(c, outOfLives)
      PROVE  MatchesKept(srv, srv')
  <2>1. PICK l \in Lobbies : l = srv.lobbyOf[c]
    BY <1>0, <1>5 DEF FailRound, ServerMemory
  <2> QED BY <1>0, <1>b, <1>5, <2>1, ResolveQuieter DEF FailRound
<1>6. ASSUME NEW c \in Conns, NEW l \in Lobbies, NEW i \in Ids, RejoinLobby(c, l, i)
      PROVE  MatchesKept(srv, srv')
  BY <1>0, <1>a, <1>6, RejoinNarrows
<1>7. ASSUME srv' = srv PROVE MatchesKept(srv, srv')
  BY <1>0, <1>a, <1>7, QuieterItself
<1>8. ASSUME NEW c \in Conns, Disconnect(c) PROVE MatchesKept(srv, srv')
  <2>1. CASE srv.lobbyOf[c] = NoLobby
    BY <1>7, <1>8, <2>1 DEF Disconnect
  <2>2. CASE srv.lobbyOf[c] # NoLobby
    <3>1. PICK l \in Lobbies : l = srv.lobbyOf[c]
      BY <1>0, <2>2 DEF ServerMemory
    <3>2. srv' \in DisconnectLobbyClient(srv, l, c)
      BY <1>8, <2>2, <3>1 DEF Disconnect
    <3> QED BY <1>0, <1>a, <3>1, <3>2, DisconnectNarrows
  <2> QED BY <2>1, <2>2
<1>9. ASSUME NEW c \in Conns, ExpireDisconnectedLobbyClient(c) PROVE MatchesKept(srv, srv')
  <2>1. PICK l \in Lobbies : l = srv.timer[c]
    BY <1>0, <1>9 DEF ExpireDisconnectedLobbyClient, ServerMemory
  <2> DEFINE x == Expired(srv, l, c)
  <2>2. srv' \in LeaveLobbyClient(x, l, c)
    BY <1>9, <2>1 DEF ExpireDisconnectedLobbyClient, Expired
  <2>3. /\ x \in ServerMemory /\ x.code = srv.code /\ x.inGame = srv.inGame
        /\ x.seat = srv.seat /\ x.isInMatch = srv.isInMatch
        /\ x.slot = [srv.slot EXCEPT ![l][srv.ident[c]] = NoSlot]
    BY <1>0 DEF Expired, ServerMemory, Ids
  <2> HIDE DEF x
  <2>4. ASSUME NEW m \in Lobbies, NEW j \in Ids PROVE NoMore(srv, x, m, j)
    <3>1. x.slot[m][j] = srv.slot[m][j] \/ x.slot[m][j] = NoSlot
      BY <1>0, <2>3 DEF ServerMemory
    <3> QED BY <2>3, <3>1 DEF NoMore, Member, Partaking
  <2>5. Narrower(srv, x)
    BY <2>3, <2>4 DEF Narrower
  <2>6. Narrower(x, srv')
    BY <2>2, <2>3, LeaveNarrows
  <2> QED BY <1>a, <2>5, <2>6, NarrowerTransitive
<1>10. ASSUME NEW l \in Lobbies, NEW D, ExpireLobbyAnteTimer(l, D)
       PROVE  MatchesKept(srv, srv')
  BY <1>0, <1>b, <1>10, ResolveQuieter DEF ExpireLobbyAnteTimer
<1>11. ASSUME NEW c \in Conns, LosePeer(c) PROVE MatchesKept(srv, srv')
  BY <1>7, <1>11 DEF LosePeer
<1>12. CASE UNCHANGED vars
  BY <1>7, <1>12 DEF vars
<1> QED
  BY <1>1, <1>2, <1>3, <1>4, <1>5, <1>6, <1>8, <1>9, <1>10, <1>11, <1>12,
     CreateKeepsMatches, JoinKeepsMatches, StartKeepsMatches DEF Next, MessageHandler

\* Who belongs to a match and who takes part in it only ever shrinks while the match
\* goes on, whatever the players do, however many lobbies there are and in whatever
\* order links, ids and timers change.
THEOREM NobodyEntersAMatchCorrect == Disciplined => (Spec => NobodyEntersAMatch)
<1> SUFFICES ASSUME Disciplined PROVE Spec => NobodyEntersAMatch
  OBVIOUS
<1>1. Init => RunsInv
  BY DEF Init, RunsInv, RunsHaveCodes
<1>2. HostsInv /\ RunsInv /\ [Next]_vars => RunsInv'
  BY MatchStep DEF MatchesKept, RunsInv
<1>3. ASSUME HostsInv, RunsInv, [Next]_vars
      PROVE  [\A l \in Lobbies : srv.inGame[l] /\ srv'.inGame[l] =>
                Members(srv', l) \subseteq Members(srv, l)
                  /\ Cast(srv', l) \subseteq Cast(srv, l)]_vars
  <2>1. NoEntry(srv, srv')
    BY <1>3, MatchStep DEF MatchesKept, RunsInv
  <2> SUFFICES ASSUME NEW l \in Lobbies, srv.inGame[l], srv'.inGame[l]
               PROVE  /\ Members(srv', l) \subseteq Members(srv, l)
                      /\ Cast(srv', l) \subseteq Cast(srv, l)
    OBVIOUS
  <2>2. \A i \in Ids : NoMore(srv, srv', l, i)
    BY <2>1 DEF NoEntry
  <2>3. Members(srv', l) \subseteq Members(srv, l)
    BY <2>2 DEF NoMore, Members, Member, Seated, Reserved
  <2>4. Cast(srv', l) \subseteq Cast(srv, l)
    BY <2>2 DEF NoMore, Cast, Partaking, Seated, Reserved
  <2> QED BY <2>3, <2>4
<1>4. Spec => []HostsInv
  BY HostsCorrect
<1> QED
  BY <1>1, <1>2, <1>3, <1>4, PTL DEF Spec, NobodyEntersAMatch
=============================================================================
