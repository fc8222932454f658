------------------------------ MODULE CoopSave ------------------------------
(***************************************************************************)
(* Saving a co-op run and resuming it: the vote that collects a snapshot   *)
(* of every player, the save file each of them keeps, and the lobby that   *)
(* waits for the players of a file.                                        *)
(*                                                                         *)
(* The server stores no saves: a file travels to the clients when a vote   *)
(* commits and back when a client resumes it.  Players are told apart by   *)
(* name only (getCoopSaveIdentityKey), so two clients may bear one name.   *)
(* Which seated player is the host is LobbyMembership's subject: here any  *)
(* seated player may act for the host.                                     *)
(***************************************************************************)
EXTENDS Naturals, FiniteSets

CONSTANTS
  Clients,            \* a client before, during and after a disconnect
  Names,
  NameOf,             \* the identity key of a client's username
  Lobbies, SaveIds,   \* bounds: lobby codes and save ids in use
  NoLobby, NoSave, NoVote, NoRestore,
  MinSeats,           \* MIN_GROUP_LOBBY_PLAYERS
  MaxFiles            \* bound: different files the clients keep

VARIABLE s  \* the server's memory, and the files its clients keep

\* players and snapshots of a file are keyed by name
File == [id : SaveIds, players : SUBSET Names, snapshots : SUBSET Names]

Vote == [participants : SUBSET Names, snapshots : SUBSET Names]

Restore == [lobby : Lobbies, save : File]

ASSUME SaveAssumption ==
  /\ IsFiniteSet(Clients) /\ IsFiniteSet(Names)
  /\ NameOf \in [Clients -> Names]
  /\ NoLobby \notin Lobbies /\ NoSave \notin SaveIds
  /\ NoVote \notin Vote /\ NoRestore \notin Restore
  /\ {MinSeats, MaxFiles} \subseteq Nat \ {0}

Memory ==
  [seat : [Clients -> Lobbies \cup {NoLobby}],
   slot : [Clients -> Lobbies \cup {NoLobby}],   \* its reserved slot
   inMatch : [Clients -> BOOLEAN],
   registered : SUBSET Lobbies,
   inGame : [Lobbies -> BOOLEAN],
   coopSaveId : [Lobbies -> SaveIds \cup {NoSave}],
   maxPlayers : [Lobbies -> Nat],
   votes : [Lobbies -> Vote \cup {NoVote}],        \* activeVotesByLobbyCode
   restores : [SaveIds -> Restore \cup {NoRestore}], \* activeRestoresBySaveId
   files : [Clients -> SUBSET File]]               \* kept by the clients

Init ==
  s = [seat |-> [c \in Clients |-> NoLobby],
       slot |-> [c \in Clients |-> NoLobby],
       inMatch |-> [c \in Clients |-> FALSE],
       registered |-> {},
       inGame |-> [l \in Lobbies |-> FALSE],
       coopSaveId |-> [l \in Lobbies |-> NoSave],
       maxPlayers |-> [l \in Lobbies |-> 0],
       votes |-> [l \in Lobbies |-> NoVote],
       restores |-> [i \in SaveIds |-> NoRestore],
       files |-> [c \in Clients |-> {}]]

------------------------------------------------------------------------------
(* Reading the memory *)

Seated(m, l) == {c \in Clients : m.seat[c] = l}
Reserved(m, l) == {c \in Clients : m.slot[c] = l}
NamesIn(m, l) == {NameOf[c] : c \in Seated(m, l)}
Playing(m, l) == {c \in Seated(m, l) : m.inMatch[c]}

\* a code that no lobby bears: nothing is left of the lobby that had it
Unused(l) ==
  /\ l \notin s.registered /\ Seated(s, l) \cup Reserved(s, l) = {}
  /\ \A i \in SaveIds : s.restores[i] # NoRestore => s.restores[i].lobby # l

\* neither seated nor expected back: the client is free to enter a lobby
Free(c) == s.seat[c] = NoLobby /\ s.slot[c] = NoLobby

UniqueNames(l) == Cardinality(NamesIn(s, l)) = Cardinality(Seated(s, l))

Full(l) == Cardinality(Seated(s, l)) >= s.maxPlayers[l]

------------------------------------------------------------------------------
(* State changes shared by the handlers *)

ClearVote(m, l) == [m EXCEPT !.votes[l] = NoVote]

FinishMatch(m, l) ==
  [ClearVote(m, l) EXCEPT
     !.inGame[l] = FALSE,
     !.inMatch = [c \in Clients |-> @[c] /\ c \notin Playing(m, l)]]

\* a run that a departure leaves with one player is abandoned, unless a
\* reserved player is waited for
AfterDeparture(m, l) ==
  IF /\ m.inGame[l] /\ Cardinality(Playing(m, l)) <= 1
     /\ \A c \in Reserved(m, l) : ~m.inMatch[c]
  THEN FinishMatch(m, l) ELSE m

\* nobody reads the fields of a removed lobby any more
Removed(m, l) ==
  [m EXCEPT !.registered = @ \ {l}, !.inGame[l] = FALSE,
            !.coopSaveId[l] = NoSave, !.maxPlayers[l] = 0]

DepartedKeepingVote(m, c, l) ==  \* fault: a departure leaves the vote as it is
  LET gone == [m EXCEPT !.seat[c] = NoLobby, !.slot[c] = NoLobby, !.inMatch[c] = FALSE]
  IN  IF Seated(gone, l) = {} THEN Removed(gone, l)
      ELSE IF m.inMatch[c] THEN AfterDeparture(gone, l) ELSE gone

Departed(m, c, l) ==
  LET gone == [ClearVote(m, l) EXCEPT !.seat[c] = NoLobby, !.slot[c] = NoLobby,
                                      !.inMatch[c] = FALSE]
  IN  IF Seated(gone, l) = {} THEN Removed(gone, l)
      ELSE IF m.inMatch[c] THEN AfterDeparture(gone, l) ELSE gone

NewLobby(m, c, l, id, seats) ==
  [m EXCEPT !.seat[c] = l, !.inMatch[c] = FALSE, !.registered = @ \cup {l},
            !.inGame[l] = FALSE, !.coopSaveId[l] = id, !.maxPlayers[l] = seats]

Start(m, l) ==
  [m EXCEPT !.inGame[l] = TRUE,
            !.inMatch = [c \in Clients |-> @[c] \/ c \in Seated(m, l)]]

------------------------------------------------------------------------------
(* Lobbies and runs *)

CreateLobby(c, l) ==
  /\ Free(c) /\ Unused(l)
  /\ s' = NewLobby(s, c, l, NoSave, Cardinality(Clients))

CanJoinCoopSaveLobby(c, l) ==
  s.coopSaveId[l] # NoSave =>
    LET restore == s.restores[s.coopSaveId[l]]
    IN  restore # NoRestore /\ NameOf[c] \in restore.save.players

JoinLobby(c, l) ==
  /\ Free(c) /\ l \in s.registered /\ ~s.inGame[l]
  /\ CanJoinCoopSaveLobby(c, l) /\ ~Full(l)
  /\ s' = [s EXCEPT !.seat[c] = l, !.inMatch[c] = FALSE]

StartGame(c) ==
  LET l == s.seat[c] IN
  /\ l # NoLobby /\ s.coopSaveId[l] = NoSave
  /\ ~s.inGame[l] /\ Cardinality(Seated(s, l)) >= 2
  /\ s' = Start(s, l)

ReadyByCount(restore) ==  \* fault: counts the players instead of naming them
  Cardinality(Seated(s, restore.lobby)) >= Cardinality(restore.save.players)

IsRestoreReadyToStart(restore) ==
  restore.save.players \subseteq NamesIn(s, restore.lobby)

\* the lobby that starts is the one the save is being resumed in
StartCoopSavedRun(c) ==
  LET l == s.seat[c]
      id == s.coopSaveId[l]
      restore == s.restores[id]
  IN
  /\ l # NoLobby /\ id # NoSave
  /\ restore # NoRestore /\ IsRestoreReadyToStart(restore)
  /\ ~s.inGame[restore.lobby]
  /\ s' = [Start(s, restore.lobby) EXCEPT !.restores[id] = NoRestore]

\* the last life of the team is lost: finalizeMatchResults
EndRun(l) ==
  /\ s.inGame[l] /\ Playing(s, l) # {}
  /\ s' = FinishMatch(s, l)

ReturnToLobby(c) ==
  LET l == s.seat[c] IN
  /\ l # NoLobby /\ s.inMatch[c]
  /\ s' = AfterDeparture([ClearVote(s, l) EXCEPT !.inMatch[c] = FALSE], l)

LeaveLobby(c) ==
  /\ s.seat[c] # NoLobby
  /\ s' = Departed(s, c, s.seat[c])

\* the host removes a player or a reserved slot; restored lobbies refuse
KickPlayer(c) ==
  \E l \in {s.seat[c], s.slot[c]} \ {NoLobby} :
    /\ s.coopSaveId[l] = NoSave /\ Seated(s, l) \ {c} # {}
    /\ s' = Departed(s, c, l)

Disconnect(c) ==
  LET l == s.seat[c] IN
  /\ l # NoLobby
  /\ s' = IF ~s.inGame[l] \/ Seated(s, l) = {c} THEN Departed(s, c, l)
          ELSE [s EXCEPT !.seat[c] = NoLobby, !.slot[c] = l]

RejoinLobby(c) ==
  LET l == s.slot[c] IN
  /\ l \in s.registered
  /\ s' = [s EXCEPT !.seat[c] = l, !.slot[c] = NoLobby]

ExpireSlot(c) ==
  /\ s.slot[c] # NoLobby
  /\ s' = Departed(s, c, s.slot[c])

------------------------------------------------------------------------------
(* The vote *)

\* clients offer to save from within their own run
MaySave(c) == s.seat[c] # NoLobby /\ s.inMatch[c] /\ s.inGame[s.seat[c]]

\* the first voter names the participants: everybody who is connected
OpenVote(l) ==
  IF s.votes[l] # NoVote THEN s.votes[l]
  ELSE [participants |-> NamesIn(s, l), snapshots |-> {}]

\* the lobby of a saved run closes; its connected players take the file away
Committed(m, l, vote) ==
  LET known == UNION {m.files[c] : c \in Clients}
      ids == IF m.coopSaveId[l] # NoSave THEN {m.coopSaveId[l]}
             ELSE SaveIds \ {file.id : file \in known}
      saves == {[id |-> i, players |-> vote.participants,
                 snapshots |-> vote.snapshots \cap vote.participants] : i \in ids}
      crew == Seated(m, l)
  IN  {[Removed(ClearVote(m, l), l) EXCEPT
          !.files = [c \in Clients |-> IF c \in crew THEN @[c] \cup {save} ELSE @[c]],
          !.seat = [c \in Clients |-> IF c \in crew THEN NoLobby ELSE @[c]],
          !.inMatch = [c \in Clients |-> @[c] /\ c \notin crew]]
       : save \in {f \in saves : Cardinality(known \cup {f}) <= MaxFiles}}

SaveCoopRun(c) ==
  LET l == s.seat[c]
      vote == [OpenVote(l) EXCEPT !.snapshots = @ \cup {NameOf[c]}]
  IN
  /\ MaySave(c)
  /\ s.votes[l] = NoVote => UniqueNames(l)
  /\ NameOf[c] \in vote.participants
  /\ IF Cardinality(vote.snapshots) >= Cardinality(vote.participants)
     THEN s' \in Committed(s, l, vote)
     ELSE s' = [s EXCEPT !.votes[l] = vote]

CancelSave(c) ==
  LET l == s.seat[c]
      left == s.votes[l].snapshots \ {NameOf[c]}
  IN
  /\ MaySave(c) /\ s.votes[l] # NoVote
  /\ NameOf[c] \in s.votes[l].participants
  /\ s' = [s EXCEPT !.votes[l] = IF left = {} THEN NoVote
                                 ELSE [@ EXCEPT !.snapshots = left]]

------------------------------------------------------------------------------
(* Resuming *)

\* the pending restore of a save; one whose players have all left is forgotten
Pending(id) ==
  LET restore == s.restores[id]
  IN  IF restore # NoRestore /\ Seated(s, restore.lobby) # {}
      THEN restore ELSE NoRestore

\* the first player of a save opens its lobby
CreateRestoreLobby(c, file, l) ==
  LET seats == IF Cardinality(file.players) > MinSeats
               THEN Cardinality(file.players) ELSE MinSeats
  IN
  /\ Unused(l) /\ Pending(file.id) = NoRestore
  /\ s' = [NewLobby(s, c, l, file.id, seats) EXCEPT
             !.restores[file.id] = [lobby |-> l, save |-> file]]

\* the others find it there
AttachToRestoreLobby(c, file) ==
  LET restore == Pending(file.id) IN
  /\ restore # NoRestore
  /\ NameOf[c] \notin NamesIn(s, restore.lobby)
  /\ ~Full(restore.lobby)
  /\ s' = [s EXCEPT !.seat[c] = restore.lobby, !.inMatch[c] = FALSE]

\* a client asks with a file of its own, which must name it
ResumeCoopSave(c, file) ==
  /\ Free(c) /\ NameOf[c] \in file.players
  /\ \/ \E l \in Lobbies : CreateRestoreLobby(c, file, l)
     \/ AttachToRestoreLobby(c, file)

------------------------------------------------------------------------------
Next ==
  \/ \E c \in Clients :
       \/ \E l \in Lobbies : CreateLobby(c, l) \/ JoinLobby(c, l)
       \/ StartGame(c) \/ StartCoopSavedRun(c)
       \/ ReturnToLobby(c) \/ LeaveLobby(c) \/ KickPlayer(c)
       \/ Disconnect(c) \/ RejoinLobby(c) \/ ExpireSlot(c)
       \/ SaveCoopRun(c) \/ CancelSave(c)
       \/ \E file \in s.files[c] : ResumeCoopSave(c, file)
  \/ \E l \in Lobbies : EndRun(l)

Spec == Init /\ [][Next]_s

------------------------------------------------------------------------------
(* Properties *)

\* The shape of the server's lobby, vote and restore maps.
TypeOK == s \in Memory

\* A vote belongs to the run it was opened in: whoever it still waits for is
\* connected or expected back, and it never outlives the run, so no later run
\* of the lobby or of its code finds it.
VotesFollowTheRun ==
  \A l \in Lobbies : s.votes[l] # NoVote =>
    /\ l \in s.registered /\ s.inGame[l]
    /\ s.votes[l].participants \subseteq
         {NameOf[c] : c \in Seated(s, l) \cup Reserved(s, l)}
    /\ s.votes[l].snapshots # {}
    /\ s.votes[l].snapshots # s.votes[l].participants

\* A restored run starts with all its players aboard and in the match.
RestoredRunsAreManned ==
  [][\A id \in SaveIds :
       s.restores[id] # NoRestore /\ s'.restores[id] = NoRestore =>
         LET l == s.restores[id].lobby IN
         s'.inGame[l] /\ s.restores[id].save.players \subseteq
                           {NameOf[c] : c \in Playing(s', l)}]_s
=============================================================================
