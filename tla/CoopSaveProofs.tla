--------------------------- MODULE CoopSaveProofs ---------------------------
(***************************************************************************)
(* Proofs about CoopSave: the type invariant, that a vote never outlives   *)
(* the run it was opened in and never waits for somebody who is gone, and  *)
(* that restored runs start with all their players.                        *)
(***************************************************************************)
EXTENDS CoopSave, FiniteSetTheorems, TLAPS

\* The inductive invariant: a client has one place, a seat is a seat in a
\* registered lobby, and so the names a vote waits for stay in its lobby.
OnePlace(m) == \A c \in Clients : m.seat[c] # NoLobby => m.slot[c] = NoLobby

SeatsRegistered(m) == \A c \in Clients : m.seat[c] # NoLobby => m.seat[c] \in m.registered

VoteInOrder(m, l) ==
  m.votes[l] # NoVote =>
    /\ l \in m.registered /\ m.inGame[l]
    /\ m.votes[l].participants \subseteq
         {NameOf[c] : c \in Seated(m, l) \cup Reserved(m, l)}
    /\ m.votes[l].snapshots # {}
    /\ m.votes[l].snapshots # m.votes[l].participants

InOrder(m) ==
  /\ OnePlace(m) /\ SeatsRegistered(m)
  /\ \A l \in Lobbies : VoteInOrder(m, l)

VotesInv == TypeOK /\ InOrder(s)

------------------------------------------------------------------------------
(* The state changes shared by the handlers *)

LEMMA SeatedCount ==
  ASSUME NEW S \in SUBSET Clients PROVE Cardinality(S) \in Nat
  BY SaveAssumption, FS_Subset, FS_CardinalityType

LEMMA PlayerCount ==
  ASSUME NEW S \in SUBSET Names PROVE Cardinality(S) \in Nat
  BY SaveAssumption, FS_Subset, FS_CardinalityType

\* What m and n agree on outside lobby l as far as votes are concerned.
SameElsewhere(m, n, l) ==
  \A k \in Lobbies \ {l} :
    /\ n.votes[k] = m.votes[k] /\ n.inGame[k] = m.inGame[k]
    /\ k \in n.registered <=> k \in m.registered
    /\ \A c \in Clients : (n.seat[c] = k <=> m.seat[c] = k) /\ (n.slot[c] = k <=> m.slot[c] = k)

LEMMA ElsewhereInOrder ==
  ASSUME NEW m, NEW n, NEW l \in Lobbies, SameElsewhere(m, n, l),
         \A k \in Lobbies : VoteInOrder(m, k), VoteInOrder(n, l)
  PROVE  \A k \in Lobbies : VoteInOrder(n, k)
<1> SUFFICES ASSUME NEW k \in Lobbies \ {l}, VoteInOrder(m, k) PROVE VoteInOrder(n, k)
  OBVIOUS
<1>1. Seated(n, k) = Seated(m, k) /\ Reserved(n, k) = Reserved(m, k)
  BY DEF SameElsewhere, Seated, Reserved
<1> QED
  BY <1>1 DEF SameElsewhere, VoteInOrder

LEMMA FinishMatchEffect ==
  ASSUME NEW m \in Memory, NEW l \in Lobbies
  PROVE  LET n == FinishMatch(m, l) IN
         /\ n \in Memory
         /\ n.seat = m.seat /\ n.slot = m.slot /\ n.registered = m.registered
         /\ n.votes = [m.votes EXCEPT ![l] = NoVote]
         /\ n.inGame = [m.inGame EXCEPT ![l] = FALSE]
         /\ n.restores = m.restores
<1> DEFINE playing == [c \in Clients |-> m.inMatch[c] /\ c \notin Playing(m, l)]
           n == FinishMatch(m, l)
<1>1. n = [m EXCEPT !.votes[l] = NoVote, !.inGame[l] = FALSE, !.inMatch = playing]
  <2>1. Playing(ClearVote(m, l), l) = Playing(m, l)
    BY DEF ClearVote, Playing, Seated, Memory
  <2> QED
    BY <2>1 DEF FinishMatch, ClearVote, Memory
<1>2. playing \in [Clients -> BOOLEAN]
  OBVIOUS
<1> HIDE DEF playing, n
<1>3. /\ n.seat = m.seat /\ n.slot = m.slot /\ n.registered = m.registered
      /\ n.votes = [m.votes EXCEPT ![l] = NoVote]
      /\ n.inGame = [m.inGame EXCEPT ![l] = FALSE]
      /\ n.restores = m.restores
  BY <1>1 DEF Memory
<1>4. n \in Memory
  BY <1>1, <1>2 DEF Memory
<1> QED
  BY <1>3, <1>4 DEF n

\* m up to the fields that neither votes nor restores depend on, when l has no
\* vote (any more).
VoteGone(m, n, l) ==
  /\ n \in Memory
  /\ n.seat = m.seat /\ n.slot = m.slot /\ n.registered = m.registered
  /\ n.votes = [m.votes EXCEPT ![l] = NoVote]
  /\ \A k \in Lobbies \ {l} : n.inGame[k] = m.inGame[k]
  /\ n.restores = m.restores

LEMMA AfterDepartureEffect ==
  ASSUME NEW m \in Memory, NEW l \in Lobbies, m.votes[l] = NoVote
  PROVE  VoteGone(m, AfterDeparture(m, l), l)
<1>1. m.votes = [m.votes EXCEPT ![l] = NoVote]
  BY DEF Memory
<1>2. CASE AfterDeparture(m, l) = m
  BY <1>1, <1>2 DEF VoteGone
<1>3. CASE AfterDeparture(m, l) = FinishMatch(m, l)
  <2> DEFINE n == FinishMatch(m, l)
  <2>1. /\ n \in Memory
        /\ n.seat = m.seat /\ n.slot = m.slot /\ n.registered = m.registered
        /\ n.votes = [m.votes EXCEPT ![l] = NoVote]
        /\ n.inGame = [m.inGame EXCEPT ![l] = FALSE]
        /\ n.restores = m.restores
    BY FinishMatchEffect
  <2> HIDE DEF n
  <2>2. VoteGone(m, n, l)
    BY <2>1 DEF VoteGone, Memory
  <2> QED
    BY <1>3, <2>2 DEF n
<1> QED
  BY <1>2, <1>3 DEF AfterDeparture

LEMMA RemovedEffect ==
  ASSUME NEW m \in Memory, NEW l \in Lobbies
  PROVE  LET n == Removed(m, l) IN
         /\ n \in Memory
         /\ n.seat = m.seat /\ n.slot = m.slot /\ n.votes = m.votes
         /\ n.registered = m.registered \ {l}
         /\ n.inGame = [m.inGame EXCEPT ![l] = FALSE]
         /\ n.restores = m.restores
<1> DEFINE n == Removed(m, l)
<1>1. n = [m EXCEPT !.registered = m.registered \ {l}, !.inGame[l] = FALSE,
                    !.coopSaveId[l] = NoSave, !.maxPlayers[l] = 0]
  BY DEF Removed
<1> HIDE DEF n
<1>2. /\ n.seat = m.seat /\ n.slot = m.slot /\ n.votes = m.votes
      /\ n.registered = m.registered \ {l}
      /\ n.inGame = [m.inGame EXCEPT ![l] = FALSE]
      /\ n.restores = m.restores
  BY <1>1 DEF Memory
<1>3. n \in Memory
  <2>1. m.registered \ {l} \subseteq Lobbies
    BY DEF Memory
  <2> QED
    BY <1>1, <2>1 DEF Memory
<1> QED
  BY <1>2, <1>3 DEF n

\* Where the votes of l end, a lobby stays in order as long as it is not
\* unregistered under its players.
LEMMA VoteGoneInOrder ==
  ASSUME NEW m \in Memory, NEW n, NEW l \in Lobbies, VoteGone(m, n, l), InOrder(m)
  PROVE  InOrder(n)
<1>1. n.votes[l] = NoVote /\ \A k \in Lobbies \ {l} : n.votes[k] = m.votes[k]
  BY DEF VoteGone, Memory
<1>2. SameElsewhere(m, n, l)
  BY <1>1 DEF VoteGone, SameElsewhere
<1>3. VoteInOrder(n, l)
  BY <1>1 DEF VoteInOrder
<1> QED
  BY <1>2, <1>3, ElsewhereInOrder DEF VoteGone, InOrder, OnePlace, SeatsRegistered

\* c gives up its place in l.
LEMMA DepartedInOrder ==
  ASSUME NEW m \in Memory, InOrder(m), NEW c \in Clients, NEW l \in Lobbies,
         m.seat[c] = l \/ m.slot[c] = l
  PROVE  /\ Departed(m, c, l) \in Memory /\ InOrder(Departed(m, c, l))
         /\ Departed(m, c, l).restores = m.restores
<1> DEFINE gone == [ClearVote(m, l) EXCEPT !.seat[c] = NoLobby, !.slot[c] = NoLobby,
                                           !.inMatch[c] = FALSE]
<1>1. /\ gone \in Memory
      /\ gone.seat = [m.seat EXCEPT ![c] = NoLobby]
      /\ gone.slot = [m.slot EXCEPT ![c] = NoLobby]
      /\ gone.votes = [m.votes EXCEPT ![l] = NoVote]
      /\ gone.registered = m.registered /\ gone.inGame = m.inGame
      /\ gone.restores = m.restores
  BY DEF ClearVote, Memory
<1>2. Departed(m, c, l) = IF Seated(gone, l) = {} THEN Removed(gone, l)
                          ELSE IF m.inMatch[c] THEN AfterDeparture(gone, l) ELSE gone
  BY DEF Departed
<1> HIDE DEF gone
<1>3. l # NoLobby /\ NoLobby \notin Lobbies
  BY SaveAssumption
<1>4. \A d \in Clients : /\ gone.seat[d] = IF d = c THEN NoLobby ELSE m.seat[d]
                         /\ gone.slot[d] = IF d = c THEN NoLobby ELSE m.slot[d]
  BY <1>1 DEF Memory
<1>5. gone.votes[l] = NoVote /\ \A k \in Lobbies \ {l} : gone.votes[k] = m.votes[k]
  BY <1>1 DEF Memory
<1>6. \A k \in Lobbies \ {l} : m.seat[c] # k /\ m.slot[c] # k
  BY <1>3 DEF InOrder, OnePlace
<1>7. SameElsewhere(m, gone, l)
  BY <1>1, <1>4, <1>5, <1>6, SaveAssumption DEF SameElsewhere
<1>8. VoteInOrder(gone, l)
  BY <1>5 DEF VoteInOrder
<1>9. OnePlace(gone) /\ SeatsRegistered(gone)
  BY <1>1, <1>4 DEF InOrder, OnePlace, SeatsRegistered
<1>10. InOrder(gone)
  BY <1>7, <1>8, <1>9, ElsewhereInOrder DEF InOrder
<1>11. CASE Seated(gone, l) = {}
  <2> DEFINE n == Removed(gone, l)
  <2>1. /\ n \in Memory
        /\ n.seat = gone.seat /\ n.slot = gone.slot /\ n.votes = gone.votes
        /\ n.registered = gone.registered \ {l}
        /\ n.inGame = [gone.inGame EXCEPT ![l] = FALSE]
        /\ n.restores = gone.restores
    BY <1>1, RemovedEffect
  <2> HIDE DEF n
  <2>2. SameElsewhere(gone, n, l)
    BY <1>1, <2>1 DEF SameElsewhere, Memory
  <2>3. VoteInOrder(n, l)
    BY <1>5, <2>1 DEF VoteInOrder
  <2>4. \A d \in Clients : gone.seat[d] # l
    BY <1>11 DEF Seated
  <2>5. OnePlace(n) /\ SeatsRegistered(n)
    BY <1>9, <2>1, <2>4 DEF OnePlace, SeatsRegistered
  <2>6. InOrder(n)
    BY <1>10, <2>2, <2>3, <2>5, ElsewhereInOrder DEF InOrder
  <2> QED
    BY <1>1, <1>2, <1>11, <2>1, <2>6 DEF n
<1>12. CASE Departed(m, c, l) = gone
  BY <1>1, <1>10, <1>12
<1>13. CASE Departed(m, c, l) = AfterDeparture(gone, l)
  <2>1. VoteGone(gone, AfterDeparture(gone, l), l)
    BY <1>1, <1>5, AfterDepartureEffect
  <2> QED
    BY <1>1, <1>10, <1>13, <2>1, VoteGoneInOrder DEF VoteGone
<1> QED
  BY <1>2, <1>11, <1>12, <1>13

\* c opens lobby l, which nobody is in and which is not registered.
LEMMA NewLobbyInOrder ==
  ASSUME NEW m \in Memory, InOrder(m), NEW c \in Clients, NEW l \in Lobbies,
         NEW id \in SaveIds \cup {NoSave}, NEW seats \in Nat,
         m.seat[c] = NoLobby, m.slot[c] = NoLobby, l \notin m.registered
  PROVE  LET n == NewLobby(m, c, l, id, seats) IN
         n \in Memory /\ InOrder(n) /\ n.restores = m.restores
<1> DEFINE n == NewLobby(m, c, l, id, seats)
<1>1. n = [m EXCEPT !.seat[c] = l, !.inMatch[c] = FALSE,
                    !.registered = m.registered \cup {l},
                    !.inGame[l] = FALSE, !.coopSaveId[l] = id, !.maxPlayers[l] = seats]
  BY DEF NewLobby
<1> HIDE DEF n
<1>2. /\ n.seat = [m.seat EXCEPT ![c] = l] /\ n.slot = m.slot /\ n.votes = m.votes
      /\ n.registered = m.registered \cup {l}
      /\ n.inGame = [m.inGame EXCEPT ![l] = FALSE]
      /\ n.restores = m.restores
  BY <1>1 DEF Memory
<1>3. n \in Memory
  <2>1. m.registered \cup {l} \subseteq Lobbies
    BY DEF Memory
  <2> QED
    BY <1>1, <2>1 DEF Memory
<1>4. \A d \in Clients : n.seat[d] = IF d = c THEN l ELSE m.seat[d]
  BY <1>2 DEF Memory
<1>5. m.votes[l] = NoVote
  BY DEF InOrder, VoteInOrder
<1>6. \A k \in Lobbies \ {l} : n.inGame[k] = m.inGame[k]
  BY <1>2 DEF Memory
<1>7. SameElsewhere(m, n, l)
  BY <1>2, <1>4, <1>6, SaveAssumption DEF SameElsewhere
<1>8. VoteInOrder(n, l)
  BY <1>2, <1>5 DEF VoteInOrder
<1>9. OnePlace(n) /\ SeatsRegistered(n)
  BY <1>2, <1>4 DEF InOrder, OnePlace, SeatsRegistered
<1> QED
  BY <1>2, <1>3, <1>7, <1>8, <1>9, ElsewhereInOrder DEF InOrder, n

\* c takes a seat in the registered lobby l.
LEMMA SeatTakenInOrder ==
  ASSUME NEW m \in Memory, InOrder(m), NEW c \in Clients, NEW l \in Lobbies,
         m.seat[c] = NoLobby, m.slot[c] = NoLobby, l \in m.registered
  PROVE  LET n == [m EXCEPT !.seat[c] = l, !.inMatch[c] = FALSE] IN
         n \in Memory /\ InOrder(n) /\ n.restores = m.restores
<1> DEFINE n == [m EXCEPT !.seat[c] = l, !.inMatch[c] = FALSE]
<1>1. n \in Memory
  BY DEF Memory
<1>2. /\ n.seat = [m.seat EXCEPT ![c] = l] /\ n.slot = m.slot /\ n.votes = m.votes
      /\ n.registered = m.registered /\ n.inGame = m.inGame
      /\ n.restores = m.restores
  BY DEF Memory
<1> HIDE DEF n
<1>3. \A d \in Clients : n.seat[d] = IF d = c THEN l ELSE m.seat[d]
  BY <1>2 DEF Memory
<1>4. SameElsewhere(m, n, l)
  BY <1>2, <1>3, SaveAssumption DEF SameElsewhere
<1>5. VoteInOrder(n, l)
  <2>1. Seated(m, l) \subseteq Seated(n, l) /\ Reserved(n, l) = Reserved(m, l)
    BY <1>2, <1>3 DEF Seated, Reserved
  <2> QED
    BY <1>2, <2>1 DEF VoteInOrder, InOrder
<1>6. OnePlace(n) /\ SeatsRegistered(n)
  BY <1>2, <1>3 DEF InOrder, OnePlace, SeatsRegistered
<1> QED
  BY <1>1, <1>2, <1>4, <1>5, <1>6, ElsewhereInOrder DEF InOrder, n

LEMMA StartInOrder ==
  ASSUME NEW m \in Memory, InOrder(m), NEW l \in Lobbies
  PROVE  LET n == Start(m, l) IN
         /\ n \in Memory /\ InOrder(n) /\ n.restores = m.restores
         /\ n.seat = m.seat /\ n.inGame[l]
         /\ \A c \in Seated(m, l) : n.inMatch[c]
<1> DEFINE playing == [c \in Clients |-> m.inMatch[c] \/ c \in Seated(m, l)]
           n == Start(m, l)
<1>1. n = [m EXCEPT !.inGame[l] = TRUE, !.inMatch = playing]
  BY DEF Start, Memory
<1>2. /\ playing \in [Clients -> BOOLEAN]
      /\ \A c \in Seated(m, l) : playing[c]
  <2>1. playing \in [Clients -> BOOLEAN]
    BY DEF Memory
  <2> QED
    BY <2>1 DEF Seated
<1> HIDE DEF playing, n
<1>3. n \in Memory
  BY <1>1, <1>2 DEF Memory
<1>4. /\ n.seat = m.seat /\ n.slot = m.slot /\ n.votes = m.votes
      /\ n.registered = m.registered /\ n.inMatch = playing
      /\ n.inGame = [m.inGame EXCEPT ![l] = TRUE]
      /\ n.restores = m.restores
  BY <1>1 DEF Memory
<1>5. n.inGame[l] /\ \A k \in Lobbies \ {l} : n.inGame[k] = m.inGame[k]
  BY <1>4 DEF Memory
<1>6. SameElsewhere(m, n, l)
  BY <1>4, <1>5 DEF SameElsewhere
<1>7. VoteInOrder(n, l)
  BY <1>4, <1>5 DEF VoteInOrder, InOrder, Seated, Reserved
<1>8. InOrder(n)
  BY <1>4, <1>6, <1>7, ElsewhereInOrder DEF InOrder, OnePlace, SeatsRegistered
<1> QED
  BY <1>2, <1>3, <1>4, <1>5, <1>8 DEF n

\* The lobby l closes with its run saved.
LEMMA CommittedInOrder ==
  ASSUME NEW m \in Memory, InOrder(m), NEW l \in Lobbies, NEW vote \in Vote,
         NEW n \in Committed(m, l, vote)
  PROVE  n \in Memory /\ InOrder(n) /\ n.restores = m.restores
<1> DEFINE crew == Seated(m, l)
           r == Removed(ClearVote(m, l), l)
<1>1. /\ r \in Memory
      /\ r.seat = m.seat /\ r.slot = m.slot
      /\ r.votes = [m.votes EXCEPT ![l] = NoVote]
      /\ r.registered = m.registered \ {l}
      /\ r.inGame = [m.inGame EXCEPT ![l] = FALSE]
      /\ r.restores = m.restores
  <2> DEFINE v == ClearVote(m, l)
  <2>1. /\ v \in Memory
        /\ v.seat = m.seat /\ v.slot = m.slot /\ v.votes = [m.votes EXCEPT ![l] = NoVote]
        /\ v.registered = m.registered /\ v.inGame = m.inGame /\ v.restores = m.restores
    BY DEF ClearVote, Memory
  <2> HIDE DEF v
  <2> QED
    BY <2>1, RemovedEffect DEF v
<1>2. PICK save \in File :
        n = [r EXCEPT
               !.files = [c \in Clients |-> IF c \in crew THEN r.files[c] \cup {save}
                                            ELSE r.files[c]],
               !.seat = [c \in Clients |-> IF c \in crew THEN NoLobby ELSE r.seat[c]],
               !.inMatch = [c \in Clients |-> r.inMatch[c] /\ c \notin crew]]
  <2> DEFINE known == UNION {m.files[c] : c \in Clients}
             ids == IF m.coopSaveId[l] # NoSave THEN {m.coopSaveId[l]}
                    ELSE SaveIds \ {file.id : file \in known}
             saves == {[id |-> i, players |-> vote.participants,
                        snapshots |-> vote.snapshots \cap vote.participants] : i \in ids}
  <2>1. PICK save \in saves :
          n = [r EXCEPT
                  !.files = [c \in Clients |-> IF c \in crew THEN r.files[c] \cup {save}
                                               ELSE r.files[c]],
                  !.seat = [c \in Clients |-> IF c \in crew THEN NoLobby ELSE r.seat[c]],
                  !.inMatch = [c \in Clients |-> r.inMatch[c] /\ c \notin crew]]
    BY DEF Committed
  <2>2. \A i \in ids : i \in SaveIds
    BY DEF Memory
  <2> HIDE DEF ids
  <2>3. save \in File
    BY <2>1, <2>2 DEF Vote, File
  <2> QED
    BY <2>1, <2>3
<1> HIDE DEF r, crew
<1>4. /\ n.seat = [c \in Clients |-> IF c \in crew THEN NoLobby ELSE m.seat[c]]
      /\ n.slot = m.slot
      /\ n.votes = [m.votes EXCEPT ![l] = NoVote]
      /\ n.registered = m.registered \ {l}
      /\ n.inGame = [m.inGame EXCEPT ![l] = FALSE]
      /\ n.restores = m.restores
  BY <1>1, <1>2 DEF Memory
<1>5. n \in Memory
  <2>1. [c \in Clients |-> IF c \in crew THEN r.files[c] \cup {save} ELSE r.files[c]]
          \in [Clients -> SUBSET File]
    BY <1>1 DEF Memory
  <2>2. [c \in Clients |-> IF c \in crew THEN NoLobby ELSE r.seat[c]]
          \in [Clients -> Lobbies \cup {NoLobby}]
    BY <1>1 DEF Memory
  <2>3. [c \in Clients |-> r.inMatch[c] /\ c \notin crew] \in [Clients -> BOOLEAN]
    BY <1>1 DEF Memory
  <2> QED
    BY <1>1, <1>2, <2>1, <2>2, <2>3 DEF Memory
<1>6. n.votes[l] = NoVote /\ \A k \in Lobbies \ {l} : /\ n.votes[k] = m.votes[k]
                                                      /\ n.inGame[k] = m.inGame[k]
  BY <1>4 DEF Memory
<1>7. \A c \in Clients : n.seat[c] = IF m.seat[c] = l THEN NoLobby ELSE m.seat[c]
  BY <1>4 DEF crew, Seated
<1>8. SameElsewhere(m, n, l)
  BY <1>4, <1>6, <1>7, SaveAssumption DEF SameElsewhere
<1>9. VoteInOrder(n, l)
  BY <1>6 DEF VoteInOrder
<1>10. OnePlace(n) /\ SeatsRegistered(n)
  BY <1>4, <1>7 DEF InOrder, OnePlace, SeatsRegistered
<1> QED
  BY <1>4, <1>5, <1>8, <1>9, <1>10, ElsewhereInOrder DEF InOrder

------------------------------------------------------------------------------
(* The invariant *)

LEMMA VotesInit == Init => VotesInv
<1> SUFFICES ASSUME Init PROVE VotesInv
  OBVIOUS
<1>1. s \in Memory
  BY DEF Init, Memory
<1>2. InOrder(s)
  BY DEF Init, InOrder, OnePlace, SeatsRegistered, VoteInOrder
<1> QED
  BY <1>1, <1>2 DEF VotesInv, TypeOK

\* What a step of a client keeps.
Good(m, n) == n \in Memory /\ InOrder(n) /\ n.restores = m.restores

LEMMA CreateLobbyStep ==
  ASSUME VotesInv, NEW c \in Clients, NEW l \in Lobbies, CreateLobby(c, l)
  PROVE  Good(s, s')
<1>1. Cardinality(Clients) \in Nat
  BY SeatedCount
<1> QED
  BY <1>1, NewLobbyInOrder DEF CreateLobby, Free, Unused, VotesInv, TypeOK, Good

LEMMA JoinLobbyStep ==
  ASSUME VotesInv, NEW c \in Clients, NEW l \in Lobbies, JoinLobby(c, l)
  PROVE  Good(s, s')
  BY SeatTakenInOrder DEF JoinLobby, Free, VotesInv, TypeOK, Good

LEMMA LeavingStep ==
  ASSUME VotesInv, NEW c \in Clients, LeaveLobby(c) \/ KickPlayer(c) \/ ExpireSlot(c)
  PROVE  Good(s, s')
<1>1. PICK l \in Lobbies : (s.seat[c] = l \/ s.slot[c] = l) /\ s' = Departed(s, c, l)
  <2>1. s.seat[c] \in Lobbies \cup {NoLobby} /\ s.slot[c] \in Lobbies \cup {NoLobby}
    BY DEF VotesInv, TypeOK, Memory
  <2> QED
    BY <2>1 DEF LeaveLobby, KickPlayer, ExpireSlot
<1> QED
  BY <1>1, DepartedInOrder DEF VotesInv, TypeOK, Good

LEMMA DisconnectStep ==
  ASSUME VotesInv, NEW c \in Clients, Disconnect(c)
  PROVE  Good(s, s')
<1>0. s \in Memory /\ InOrder(s)
  BY DEF VotesInv, TypeOK
<1>1. PICK l \in Lobbies : s.seat[c] = l
  BY <1>0 DEF Disconnect, Memory
<1>2. CASE s' = Departed(s, c, l)
  BY <1>0, <1>1, <1>2, DepartedInOrder DEF Good
<1>3. CASE s' = [s EXCEPT !.seat[c] = NoLobby, !.slot[c] = l]
  <2>1. s' \in Memory
    BY <1>0, <1>3 DEF Memory
  <2>2. /\ s'.seat = [s.seat EXCEPT ![c] = NoLobby] /\ s'.slot = [s.slot EXCEPT ![c] = l]
        /\ s'.votes = s.votes /\ s'.registered = s.registered /\ s'.inGame = s.inGame
        /\ s'.restores = s.restores
    BY <1>0, <1>3 DEF Memory
  <2>3. \A d \in Clients : /\ s'.seat[d] = IF d = c THEN NoLobby ELSE s.seat[d]
                           /\ s'.slot[d] = IF d = c THEN l ELSE s.slot[d]
    BY <1>0, <2>2 DEF Memory
  <2>4. s.slot[c] = NoLobby /\ NoLobby \notin Lobbies
    BY <1>0, <1>1, SaveAssumption DEF InOrder, OnePlace
  <2>5. SameElsewhere(s, s', l)
    BY <1>1, <2>2, <2>3, <2>4 DEF SameElsewhere
  <2>6. Seated(s, l) \cup Reserved(s, l) \subseteq Seated(s', l) \cup Reserved(s', l)
    BY <2>3 DEF Seated, Reserved
  <2>7. VoteInOrder(s', l)
    BY <1>0, <2>2, <2>6 DEF VoteInOrder, InOrder
  <2>8. OnePlace(s') /\ SeatsRegistered(s')
    BY <1>0, <2>2, <2>3 DEF InOrder, OnePlace, SeatsRegistered
  <2> QED
    BY <1>0, <2>1, <2>2, <2>5, <2>7, <2>8, ElsewhereInOrder DEF InOrder, Good
<1> QED
  BY <1>1, <1>2, <1>3 DEF Disconnect

LEMMA RejoinStep ==
  ASSUME VotesInv, NEW c \in Clients, RejoinLobby(c)
  PROVE  Good(s, s')
<1>0. s \in Memory /\ InOrder(s)
  BY DEF VotesInv, TypeOK
<1>1. PICK l \in Lobbies :
        /\ s.slot[c] = l /\ l \in s.registered
        /\ s' = [s EXCEPT !.seat[c] = l, !.slot[c] = NoLobby]
  BY <1>0 DEF RejoinLobby, Memory
<1>2. s' \in Memory
  BY <1>0, <1>1 DEF Memory
<1>3. /\ s'.seat = [s.seat EXCEPT ![c] = l] /\ s'.slot = [s.slot EXCEPT ![c] = NoLobby]
      /\ s'.votes = s.votes /\ s'.registered = s.registered /\ s'.inGame = s.inGame
      /\ s'.restores = s.restores
  BY <1>0, <1>1 DEF Memory
<1>4. \A d \in Clients : /\ s'.seat[d] = IF d = c THEN l ELSE s.seat[d]
                         /\ s'.slot[d] = IF d = c THEN NoLobby ELSE s.slot[d]
  BY <1>0, <1>3 DEF Memory
<1>5. s.seat[c] = NoLobby /\ NoLobby \notin Lobbies
  BY <1>0, <1>1, SaveAssumption DEF InOrder, OnePlace
<1>6. SameElsewhere(s, s', l)
  BY <1>1, <1>3, <1>4, <1>5 DEF SameElsewhere
<1>7. Seated(s, l) \cup Reserved(s, l) \subseteq Seated(s', l) \cup Reserved(s', l)
  BY <1>4 DEF Seated, Reserved
<1>8. VoteInOrder(s', l)
  BY <1>0, <1>3, <1>7 DEF VoteInOrder, InOrder
<1>9. OnePlace(s') /\ SeatsRegistered(s')
  BY <1>0, <1>1, <1>3, <1>4 DEF InOrder, OnePlace, SeatsRegistered
<1> QED
  BY <1>0, <1>2, <1>3, <1>6, <1>8, <1>9, ElsewhereInOrder DEF InOrder, Good

LEMMA ReturnToLobbyStep ==
  ASSUME VotesInv, NEW c \in Clients, ReturnToLobby(c)
  PROVE  Good(s, s')
<1>0. s \in Memory /\ InOrder(s)
  BY DEF VotesInv, TypeOK
<1>1. PICK l \in Lobbies :
        s' = AfterDeparture([ClearVote(s, l) EXCEPT !.inMatch[c] = FALSE], l)
  BY <1>0 DEF ReturnToLobby, Memory
<1> DEFINE m == [ClearVote(s, l) EXCEPT !.inMatch[c] = FALSE]
<1>2. VoteGone(s, m, l) /\ m.votes[l] = NoVote
  BY <1>0 DEF VoteGone, ClearVote, Memory
<1> HIDE DEF m
<1>3. InOrder(m) /\ m \in Memory
  BY <1>0, <1>2, VoteGoneInOrder DEF VoteGone
<1>4. VoteGone(m, s', l)
  BY <1>1, <1>2, <1>3, AfterDepartureEffect DEF m
<1>5. InOrder(s')
  BY <1>3, <1>4, VoteGoneInOrder
<1> QED
  BY <1>2, <1>4, <1>5 DEF VoteGone, Good

LEMMA EndRunStep ==
  ASSUME VotesInv, NEW l \in Lobbies, EndRun(l)
  PROVE  Good(s, s')
<1>0. s \in Memory /\ InOrder(s)
  BY DEF VotesInv, TypeOK
<1>1. s' = FinishMatch(s, l)
  BY DEF EndRun
<1>2. /\ s' \in Memory
      /\ s'.seat = s.seat /\ s'.slot = s.slot /\ s'.registered = s.registered
      /\ s'.votes = [s.votes EXCEPT ![l] = NoVote]
      /\ s'.inGame = [s.inGame EXCEPT ![l] = FALSE]
      /\ s'.restores = s.restores
  BY <1>0, <1>1, FinishMatchEffect
<1>3. VoteGone(s, s', l)
  BY <1>0, <1>2 DEF VoteGone, Memory
<1> QED
  BY <1>0, <1>2, <1>3, VoteGoneInOrder DEF Good

LEMMA StartGameStep ==
  ASSUME VotesInv, NEW c \in Clients, StartGame(c)
  PROVE  Good(s, s')
<1>0. s \in Memory /\ InOrder(s)
  BY DEF VotesInv, TypeOK
<1>1. PICK l \in Lobbies : s' = Start(s, l)
  BY <1>0 DEF StartGame, Memory
<1> QED
  BY <1>0, <1>1, StartInOrder DEF Good

LEMMA CancelSaveStep ==
  ASSUME VotesInv, NEW c \in Clients, CancelSave(c)
  PROVE  Good(s, s')
<1>0. s \in Memory /\ InOrder(s)
  BY DEF VotesInv, TypeOK
<1> DEFINE l == s.seat[c]
           left == s.votes[l].snapshots \ {NameOf[c]}
           vote == IF left = {} THEN NoVote ELSE [s.votes[l] EXCEPT !.snapshots = left]
<1>1. l \in Lobbies /\ s.votes[l] # NoVote /\ NameOf[c] \in s.votes[l].participants
  BY <1>0 DEF CancelSave, MaySave, Memory
<1>2. s.votes[l] \in Vote
  BY <1>0, <1>1 DEF Memory
<1>3. s' = [s EXCEPT !.votes[l] = vote]
  BY <1>0, <1>1 DEF CancelSave, Memory
<1>4. vote \in Vote \cup {NoVote}
  BY <1>2 DEF Vote
<1>5. vote # NoVote =>
        /\ vote.participants = s.votes[l].participants
        /\ vote.snapshots # {} /\ vote.snapshots # vote.participants
  BY <1>1, <1>2 DEF Vote
<1> HIDE DEF vote, l
<1>6. s' \in Memory
  BY <1>0, <1>1, <1>3, <1>4 DEF Memory
<1>7. /\ s'.seat = s.seat /\ s'.slot = s.slot /\ s'.registered = s.registered
      /\ s'.inGame = s.inGame /\ s'.restores = s.restores
      /\ s'.votes = [s.votes EXCEPT ![l] = vote]
  BY <1>0, <1>3 DEF Memory
<1>8. s'.votes[l] = vote /\ \A k \in Lobbies \ {l} : s'.votes[k] = s.votes[k]
  BY <1>0, <1>1, <1>7 DEF Memory
<1>9. SameElsewhere(s, s', l)
  BY <1>7, <1>8 DEF SameElsewhere
<1>10. VoteInOrder(s', l)
  BY <1>0, <1>1, <1>5, <1>7, <1>8 DEF VoteInOrder, InOrder, Seated, Reserved
<1> QED
  BY <1>0, <1>1, <1>6, <1>7, <1>9, <1>10, ElsewhereInOrder
  DEF InOrder, OnePlace, SeatsRegistered, Good

LEMMA SaveCoopRunStep ==
  ASSUME VotesInv, NEW c \in Clients, SaveCoopRun(c)
  PROVE  Good(s, s')
<1>0. s \in Memory /\ InOrder(s)
  BY DEF VotesInv, TypeOK
<1> DEFINE l == s.seat[c]
           vote == [OpenVote(l) EXCEPT !.snapshots = @ \cup {NameOf[c]}]
<1>1. l \in Lobbies /\ s.inGame[l] /\ l \in s.registered
  BY <1>0 DEF SaveCoopRun, MaySave, Memory, InOrder, SeatsRegistered
<1>2. OpenVote(l) \in Vote /\ NameOf[c] \in Names
  BY <1>0, <1>1, SaveAssumption DEF OpenVote, Vote, NamesIn, Seated, Memory
<1>3. vote \in Vote /\ vote.participants = OpenVote(l).participants
      /\ NameOf[c] \in vote.snapshots
  BY <1>2 DEF Vote
<1>4. \/ s' \in Committed(s, l, vote)
      \/ /\ s' = [s EXCEPT !.votes[l] = vote]
         /\ ~ Cardinality(vote.snapshots) >= Cardinality(vote.participants)
  BY DEF SaveCoopRun
<1>5. OpenVote(l).participants \subseteq {NameOf[d] : d \in Seated(s, l) \cup Reserved(s, l)}
  BY <1>0, <1>1 DEF OpenVote, InOrder, VoteInOrder, NamesIn
<1> HIDE DEF l, vote
<1>6. CASE s' \in Committed(s, l, vote)
  BY <1>0, <1>1, <1>3, <1>6, CommittedInOrder DEF Good
<1>7. CASE /\ s' = [s EXCEPT !.votes[l] = vote]
           /\ ~ Cardinality(vote.snapshots) >= Cardinality(vote.participants)
  <2>1. vote.snapshots # vote.participants
    <3>1. Cardinality(vote.participants) \in Nat
      BY <1>3, PlayerCount DEF Vote
    <3> QED
      BY <1>7, <3>1
  <2>2. s' \in Memory
    BY <1>0, <1>1, <1>3, <1>7 DEF Memory
  <2>3. /\ s'.seat = s.seat /\ s'.slot = s.slot /\ s'.registered = s.registered
        /\ s'.inGame = s.inGame /\ s'.restores = s.restores
        /\ s'.votes = [s.votes EXCEPT ![l] = vote]
    BY <1>0, <1>7 DEF Memory
  <2>4. s'.votes[l] = vote /\ \A k \in Lobbies \ {l} : s'.votes[k] = s.votes[k]
    BY <1>0, <1>1, <2>3 DEF Memory
  <2>5. SameElsewhere(s, s', l)
    BY <2>3, <2>4 DEF SameElsewhere
  <2>6. VoteInOrder(s', l)
    BY <1>1, <1>3, <1>5, <2>1, <2>3, <2>4 DEF VoteInOrder, Seated, Reserved
  <2> QED
    BY <1>0, <1>1, <2>2, <2>3, <2>5, <2>6, ElsewhereInOrder
    DEF InOrder, OnePlace, SeatsRegistered, Good
<1> QED
  BY <1>4, <1>6, <1>7

\* The run starts in the lobby the save is being resumed in, with everybody
\* the save names on board; only that save stops being resumed.
LEMMA StartCoopSavedRunStep ==
  ASSUME VotesInv, NEW c \in Clients, StartCoopSavedRun(c)
  PROVE  /\ s' \in Memory /\ InOrder(s')
         /\ \E id \in SaveIds :
              LET restore == s.restores[id] IN
              /\ s'.restores = [s.restores EXCEPT ![id] = NoRestore]
              /\ s'.inGame[restore.lobby]
              /\ restore.save.players \subseteq
                   {NameOf[d] : d \in Playing(s', restore.lobby)}
<1>0. s \in Memory /\ InOrder(s)
  BY DEF VotesInv, TypeOK
<1>1. PICK id \in SaveIds :
        /\ s.restores[id] # NoRestore
        /\ IsRestoreReadyToStart(s.restores[id])
        /\ s' = [Start(s, s.restores[id].lobby) EXCEPT !.restores[id] = NoRestore]
  BY <1>0 DEF StartCoopSavedRun, Memory
<1> DEFINE l == s.restores[id].lobby
           n == Start(s, l)
<1>2. l \in Lobbies
  BY <1>0, <1>1 DEF Memory, Restore
<1>3. s.restores[id].save.players \subseteq {NameOf[d] : d \in Seated(s, l)}
  BY <1>1 DEF IsRestoreReadyToStart, NamesIn
<1> HIDE DEF l
<1>4. /\ n \in Memory /\ InOrder(n) /\ n.restores = s.restores
      /\ n.seat = s.seat /\ n.inGame[l]
      /\ \A d \in Seated(s, l) : n.inMatch[d]
  BY <1>0, <1>2, StartInOrder
<1>5. s' = [n EXCEPT !.restores[id] = NoRestore]
  BY <1>1 DEF l
<1> HIDE DEF n
<1>6. s' \in Memory
  BY <1>4, <1>5 DEF Memory
<1>7. /\ s'.restores = [s.restores EXCEPT ![id] = NoRestore]
      /\ s'.seat = n.seat /\ s'.slot = n.slot /\ s'.registered = n.registered
      /\ s'.inGame = n.inGame /\ s'.inMatch = n.inMatch /\ s'.votes = n.votes
  BY <1>4, <1>5 DEF Memory
<1>8. InOrder(s')
  BY <1>4, <1>7 DEF InOrder, OnePlace, SeatsRegistered, VoteInOrder, Seated, Reserved
<1>9. Seated(s, l) \subseteq Playing(s', l)
  BY <1>4, <1>7 DEF Playing, Seated
<1> QED
  BY <1>3, <1>4, <1>6, <1>7, <1>8, <1>9 DEF l

\* A client resumes a save: the save is pending afterwards, and no other one
\* is touched.
LEMMA ResumeCoopSaveStep ==
  ASSUME VotesInv, NEW c \in Clients, NEW file \in s.files[c], ResumeCoopSave(c, file)
  PROVE  /\ s' \in Memory /\ InOrder(s')
         /\ \A id \in SaveIds : s'.restores[id] = s.restores[id] \/ s'.restores[id] # NoRestore
<1>0. /\ s \in Memory /\ InOrder(s) /\ file \in File
      /\ s.seat[c] = NoLobby /\ s.slot[c] = NoLobby
  BY DEF VotesInv, TypeOK, ResumeCoopSave, Free, Memory
<1>1. file.id \in SaveIds /\ file.players \in SUBSET Names
  BY <1>0 DEF File
<1>2. CASE AttachToRestoreLobby(c, file)
  <2> DEFINE l == Pending(file.id).lobby
  <2>1. s.restores[file.id] \in Restore /\ Pending(file.id) = s.restores[file.id]
        /\ Seated(s, l) # {}
    BY <1>0, <1>1, <1>2 DEF AttachToRestoreLobby, Pending, Memory
  <2>2. l \in Lobbies
    BY <2>1 DEF Restore
  <2>3. l \in s.registered
    BY <1>0, <2>1, <2>2, SaveAssumption DEF Seated, InOrder, SeatsRegistered
  <2>4. s' = [s EXCEPT !.seat[c] = l, !.inMatch[c] = FALSE]
    BY <1>2 DEF AttachToRestoreLobby
  <2> HIDE DEF l
  <2>5. s' \in Memory /\ InOrder(s') /\ s'.restores = s.restores
    BY <1>0, <2>2, <2>3, <2>4, SeatTakenInOrder
  <2> QED
    BY <2>5
<1>3. ASSUME NEW l \in Lobbies, CreateRestoreLobby(c, file, l)
      PROVE  /\ s' \in Memory /\ InOrder(s')
             /\ \A id \in SaveIds : s'.restores[id] = s.restores[id] \/ s'.restores[id] # NoRestore
  <2> DEFINE seats == IF Cardinality(file.players) > MinSeats
                      THEN Cardinality(file.players) ELSE MinSeats
             n == NewLobby(s, c, l, file.id, seats)
             restore == [lobby |-> l, save |-> file]
  <2>1. seats \in Nat
    BY <1>1, PlayerCount, SaveAssumption
  <2>2. l \notin s.registered
    BY <1>3 DEF CreateRestoreLobby, Unused
  <2>3. s' = [n EXCEPT !.restores[file.id] = restore]
    BY <1>3 DEF CreateRestoreLobby
  <2> HIDE DEF seats
  <2>4. n \in Memory /\ InOrder(n) /\ n.restores = s.restores
    BY <1>0, <1>1, <2>1, <2>2, NewLobbyInOrder
  <2>5. restore \in Restore /\ restore # NoRestore
    BY <1>0, SaveAssumption DEF Restore
  <2> HIDE DEF n, restore
  <2>6. s' \in Memory
    BY <1>1, <2>3, <2>4, <2>5 DEF Memory
  <2>7. /\ s'.restores = [s.restores EXCEPT ![file.id] = restore]
        /\ s'.seat = n.seat /\ s'.slot = n.slot /\ s'.registered = n.registered
        /\ s'.inGame = n.inGame /\ s'.votes = n.votes
    BY <2>3, <2>4 DEF Memory
  <2>8. InOrder(s')
    BY <2>4, <2>7 DEF InOrder, OnePlace, SeatsRegistered, VoteInOrder, Seated, Reserved
  <2>9. \A id \in SaveIds : s'.restores[id] = s.restores[id] \/ s'.restores[id] # NoRestore
    BY <1>0, <2>5, <2>7 DEF Memory
  <2> QED
    BY <2>6, <2>8, <2>9
<1> QED
  BY <1>2, <1>3 DEF ResumeCoopSave

\* What RestoredRunsAreManned says of one step.
Manned(m, n) ==
  \A id \in SaveIds :
    m.restores[id] # NoRestore /\ n.restores[id] = NoRestore =>
      LET l == m.restores[id].lobby IN
      n.inGame[l] /\ m.restores[id].save.players \subseteq
                       {NameOf[c] : c \in Playing(n, l)}

LEMMA VotesStep == VotesInv /\ [Next]_s => VotesInv' /\ Manned(s, s')
<1> SUFFICES ASSUME VotesInv, [Next]_s PROVE VotesInv' /\ Manned(s, s')
  OBVIOUS
<1>0. s \in Memory /\ InOrder(s)
  BY DEF VotesInv, TypeOK
<1>1. CASE Good(s, s')
  BY <1>1 DEF Good, VotesInv, TypeOK, InOrder, OnePlace, SeatsRegistered, VoteInOrder,
              Seated, Reserved, Manned
<1>2. CASE UNCHANGED s
  BY <1>0, <1>1, <1>2 DEF Good
<1>3. ASSUME NEW c \in Clients, NEW l \in Lobbies, CreateLobby(c, l) \/ JoinLobby(c, l)
      PROVE  Good(s, s')
  BY <1>3, CreateLobbyStep, JoinLobbyStep
<1>4. ASSUME NEW c \in Clients,
             \/ StartGame(c) \/ ReturnToLobby(c)
             \/ LeaveLobby(c) \/ KickPlayer(c) \/ ExpireSlot(c)
             \/ Disconnect(c) \/ RejoinLobby(c)
             \/ SaveCoopRun(c) \/ CancelSave(c)
      PROVE  Good(s, s')
  BY <1>4, StartGameStep, ReturnToLobbyStep, LeavingStep, DisconnectStep, RejoinStep,
     SaveCoopRunStep, CancelSaveStep
<1>5. ASSUME NEW l \in Lobbies, EndRun(l) PROVE Good(s, s')
  BY <1>5, EndRunStep
<1>6. ASSUME NEW c \in Clients, StartCoopSavedRun(c)
      PROVE  VotesInv' /\ Manned(s, s')
  <2>1. PICK id \in SaveIds :
          LET restore == s.restores[id] IN
          /\ s'.restores = [s.restores EXCEPT ![id] = NoRestore]
          /\ s'.inGame[restore.lobby]
          /\ restore.save.players \subseteq
               {NameOf[d] : d \in Playing(s', restore.lobby)}
    BY <1>6, StartCoopSavedRunStep
  <2>2. \A i \in SaveIds \ {id} : s'.restores[i] = s.restores[i]
    BY <1>0, <2>1 DEF Memory
  <2>3. Manned(s, s')
    BY <2>1, <2>2 DEF Manned
  <2>4. s' \in Memory /\ InOrder(s')
    BY <1>6, StartCoopSavedRunStep
  <2> QED
    BY <2>3, <2>4 DEF VotesInv, TypeOK, InOrder, OnePlace, SeatsRegistered, VoteInOrder,
                      Seated, Reserved
<1>7. ASSUME NEW c \in Clients, NEW file \in s.files[c], ResumeCoopSave(c, file)
      PROVE  VotesInv' /\ Manned(s, s')
  <2>1. /\ s' \in Memory /\ InOrder(s')
        /\ \A id \in SaveIds : s'.restores[id] = s.restores[id] \/ s'.restores[id] # NoRestore
    BY <1>7, ResumeCoopSaveStep
  <2> QED
    BY <2>1 DEF VotesInv, TypeOK, InOrder, OnePlace, SeatsRegistered, VoteInOrder,
                Seated, Reserved, Manned
<1> QED
  BY <1>1, <1>2, <1>3, <1>4, <1>5, <1>6, <1>7 DEF Next

\* In every reachable state the server's lobbies, votes and restores have the
\* shape the code declares, a client has one place at most, and every vote is
\* the vote of the running match of a registered lobby.
THEOREM VotesCorrect == Spec => []VotesInv
<1>1. VotesInv /\ UNCHANGED s => VotesInv'
  BY VotesStep
<1> QED
  BY VotesInit, VotesStep, <1>1, PTL DEF Spec

\* activeVotesByLobbyCode: a vote is deleted with the run, with the lobby and
\* whenever somebody leaves, so it only waits for players who are connected or
\* expected back, and no later run or lobby under the same code finds it.
THEOREM VotesFollowTheRunCorrect == Spec => []VotesFollowTheRun
<1>1. VotesInv => VotesFollowTheRun
  BY DEF VotesInv, InOrder, VoteInOrder, VotesFollowTheRun
<1> QED
  BY VotesCorrect, <1>1, PTL

\* startCoopSavedRun: the server forgets that a save is being resumed only by
\* starting its run, in the lobby that waited for it, with every player the
\* file names aboard and in the match.
THEOREM RestoredRunsCorrect == Spec => RestoredRunsAreManned
<1>1. VotesInv /\ [Next]_s =>
        [\A id \in SaveIds :
           s.restores[id] # NoRestore /\ s'.restores[id] = NoRestore =>
             LET l == s.restores[id].lobby IN
             s'.inGame[l] /\ s.restores[id].save.players \subseteq
                               {NameOf[c] : c \in Playing(s', l)}]_s
  BY VotesStep DEF Manned
<1> QED
  BY VotesCorrect, <1>1, PTL DEF Spec, RestoredRunsAreManned
=============================================================================
