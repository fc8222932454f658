----------------------- MODULE BossAndSnapshotProofs -----------------------
(***************************************************************************)
(* Proofs about two components that rest on connections that keep their    *)
(* order: the shared boss blind of a co-op run, and the snapshots that     *)
(* players show each other around the end of a match; for every set of     *)
(* players and every bound.                                                *)
(*                                                                         *)
(* The boss blind.  That a quiet follower knows the boss says nothing of a *)
(* player with unread messages; what every step keeps is that the last     *)
(* result among them, or what the game knows if there is none, is the boss *)
(* of the server.  That the boss stays is kept because the source of a     *)
(* pending reroll still rolls, a game that rolls has not announced the     *)
(* blind, and the blind starts only when everybody has.                    *)
(*                                                                         *)
(* The snapshots.  That what a client shows gets newer says nothing of     *)
(* what is still under way; what every step keeps is that the snapshots of *)
(* one player form a line: what the clients show, what waits in their      *)
(* mail, in its order, what the server keeps, what waits for the server,   *)
(* in its order, and what the player has; none is newer than the next.     *)
(***************************************************************************)
EXTENDS CoopBossBlind, TLAPS

Reliable == Players \ MayDrop

\* what a game will know of the boss once it has read all of s: rev is what it
\* knows now
Tells(s, rev, b) ==
  \/ /\ \A i \in 1 .. Len(s) : s[i].phase = "start"
     /\ rev = b
  \/ \E i \in 1 .. Len(s) :
       /\ s[i].phase = "result" /\ s[i].rev = b
       /\ \A j \in (i + 1) .. Len(s) : s[j].phase = "start"

\* every boss and every reroll the server keeps has a revision it handed out
Numbered ==
  /\ boss.key # NoBoss => boss.rev # 0
  /\ pending.source # Nobody => pending.rev # 0

\* only an unreliable connection leaves a reserved slot
SlotsOfDropped == \A p \in Reliable : place[p] # "away"

\* who is at the table and reliable will know the boss once it has read its mail
Informed == \A p \in Reliable : p \in Seated => Tells(inbox[p], view[p].rev, boss.rev)

\* a reliable source of a pending reroll is still rolling, so it has not
\* announced the blind, so the blind has not started
SourceRolls ==
  \A p \in Reliable :
    /\ rolling[p] => ~ready[p]
    /\ p \in Seated /\ pending.source = p => rolling[p] /\ ~fighting

BossInv == TypeOK /\ Numbered /\ SlotsOfDropped /\ Informed /\ SourceRolls

------------------------------------------------------------------------------
(* What a player will know *)

LEMMA TellsQuiet ==
  ASSUME NEW rev, NEW b
  PROVE  Tells(<<>>, rev, b) <=> rev = b
BY DEF Tells

\* news of a reroll does not change it
LEMMA TellsStart ==
  ASSUME NEW s \in Seq(Message), NEW rev, NEW b, NEW m \in Message, m.phase = "start",
         Tells(s, rev, b)
  PROVE  Tells(Append(s, m), rev, b)
BY DEF Tells

\* a result makes it the boss it carries
LEMMA TellsResult ==
  ASSUME NEW s \in Seq(Message), NEW rev, NEW m \in Message, m.phase = "result"
  PROVE  Tells(Append(s, m), rev, m.rev)
<1>1. Append(s, m) \in Seq(Message) /\ Len(Append(s, m)) = Len(s) + 1
  OBVIOUS
<1>2. Append(s, m)[Len(s) + 1] = m
  OBVIOUS
<1> QED BY <1>1, <1>2 DEF Tells

\* reading a message leaves it as it is
LEMMA TellsRead ==
  ASSUME NEW s \in Seq(Message), s # <<>>, NEW rev, NEW b, Tells(s, rev, b)
  PROVE  Tells(Tail(s), IF Head(s).phase = "start" THEN rev ELSE Head(s).rev, b)
<1> DEFINE t == Tail(s)
<1>1. /\ t \in Seq(Message) /\ Len(s) \in Nat /\ Len(s) >= 1 /\ Len(t) = Len(s) - 1
      /\ Head(s) = s[1]
      /\ \A i \in 1 .. Len(t) : t[i] = s[i + 1]
  OBVIOUS
<1> HIDE DEF t
<1>2. CASE (\A i \in 1 .. Len(s) : s[i].phase = "start") /\ rev = b
  <2>1. \A i \in 1 .. Len(t) : t[i].phase = "start"
    BY <1>1, <1>2
  <2>2. Head(s).phase = "start"
    BY <1>1, <1>2
  <2> QED BY <2>1, <2>2, <1>2 DEF Tells, t
<1>3. ASSUME NEW i \in 1 .. Len(s), s[i].phase = "result", s[i].rev = b,
             \A j \in (i + 1) .. Len(s) : s[j].phase = "start"
      PROVE  Tells(t, IF Head(s).phase = "start" THEN rev ELSE Head(s).rev, b)
  <2>1. CASE i = 1
    <3>1. \A k \in 1 .. Len(t) : t[k].phase = "start"
      BY <1>1, <1>3, <2>1
    <3>2. Head(s).phase # "start" /\ Head(s).rev = b
      BY <1>1, <1>3, <2>1
    <3> QED BY <3>1, <3>2 DEF Tells
  <2>2. CASE i # 1
    <3>1. i - 1 \in 1 .. Len(t) /\ t[i - 1] = s[i]
      BY <1>1, <2>2
    <3>2. \A k \in (i - 1) + 1 .. Len(t) : t[k].phase = "start"
      <4> TAKE k \in (i - 1) + 1 .. Len(t)
      <4>1. k \in 1 .. Len(t) /\ k + 1 \in (i + 1) .. Len(s)
        BY <1>1
      <4> QED BY <4>1, <1>1, <1>3
    <3> QED BY <3>1, <3>2, <1>3 DEF Tells
  <2> QED BY <2>1, <2>2
<1> QED BY <1>2, <1>3 DEF Tells, t

------------------------------------------------------------------------------
(* The messages the server sends *)

LEMMA StartIsMessage ==
  ASSUME NEW r \in 1 .. MaxRevision
  PROVE  Start(r) \in Message /\ Start(r).phase = "start"
BY DEF Start, Message

LEMMA ResultIsMessage ==
  ASSUME NEW b \in Known, b.rev # 0
  PROVE  Result(b) \in Message /\ Result(b).phase = "result" /\ Result(b).rev = b.rev
<1>1. b.key \in Bosses \cup {NoBoss} /\ b.rev \in 1 .. MaxRevision
  BY BossAssumption DEF Known
<1> QED BY <1>1 DEF Result, Message

\* Broadcasts go to who is at the table.
LEMMA BroadcastEffect ==
  ASSUME NEW m, Broadcast(m), TypeOK, m \in Message
  PROVE  /\ inbox' \in [Players -> Seq(Message)]
         /\ \A p \in Players : inbox'[p] = IF p \in Seated THEN Append(inbox[p], m) ELSE inbox[p]
BY DEF Broadcast, TypeOK

------------------------------------------------------------------------------
(* The invariant *)

LEMMA InitInv == Init => BossInv
<1> SUFFICES ASSUME Init PROVE BossInv
  OBVIOUS
<1>1. TypeOK
  <2>1. <<>> \in Seq(Message)
    OBVIOUS
  <2>2. 0 \in 0 .. MaxRevision
    BY BossAssumption
  <2>3. boss \in Known /\ revision \in 0 .. MaxRevision
    BY <2>2 DEF Init, Known
  <2>4. pending \in [source : Players \cup {Nobody}, rev : 0 .. MaxRevision, locked : BOOLEAN]
    BY <2>2 DEF Init, NoReroll
  <2>5. inbox \in [Players -> Seq(Message)]
    BY <2>1 DEF Init
  <2>6. view \in [Players -> [key : Bosses \cup {NoBoss}, rev : 0 .. MaxRevision, reroll : BOOLEAN]]
    BY <2>2 DEF Init
  <2> QED BY <2>3, <2>4, <2>5, <2>6 DEF Init, TypeOK
<1>2. Informed
  BY TellsQuiet DEF Init, Informed, Reliable
<1>3. Numbered /\ SlotsOfDropped /\ SourceRolls
  BY BossAssumption DEF Init, Numbered, SlotsOfDropped, SourceRolls, Reliable, NoReroll
<1> QED BY <1>1, <1>2, <1>3 DEF BossInv

\* a reroll is announced: the source is about to roll
LEMMA StartRerollKeeps ==
  ASSUME BossInv, NEW p \in Players, StartReroll(p)
  PROVE  BossInv'
<1> USE DEF BossInv
<1>1. /\ p \in Seated /\ revision < MaxRevision /\ ~ready[p]
      /\ rolling' = [rolling EXCEPT ![p] = TRUE]
      /\ UNCHANGED <<boss, place, fighting, view>>
  BY DEF StartReroll, Sends
<1>2. CASE UNCHANGED <<revision, pending, ready, inbox>> /\
           (fighting \/ pending.source \notin {p, Nobody})
  <2>1. TypeOK' /\ Numbered' /\ SlotsOfDropped' /\ Informed'
    BY <1>1, <1>2 DEF TypeOK, Numbered, SlotsOfDropped, Informed, Seated
  <2>2. SourceRolls'
    BY <1>1, <1>2 DEF SourceRolls, TypeOK, Seated, Reliable
  <2> QED BY <2>1, <2>2
<1>3. CASE /\ ~fighting
           /\ revision' = revision + 1
           /\ pending' = [source |-> p, rev |-> revision', locked |-> TRUE]
           /\ ready' = [q \in Players |-> ready[q] /\ q \notin Seated]
           /\ Broadcast(Start(revision'))
  <2>1. revision' \in 1 .. MaxRevision
    BY <1>1, <1>3, BossAssumption DEF TypeOK
  <2>2. Start(revision') \in Message /\ Start(revision').phase = "start"
    BY <2>1, StartIsMessage
  <2>3. /\ inbox' \in [Players -> Seq(Message)]
        /\ \A q \in Players : inbox'[q] = IF q \in Seated THEN Append(inbox[q], Start(revision'))
                                          ELSE inbox[q]
    BY <1>3, <2>2, BroadcastEffect
  <2>4. TypeOK'
    <3>1. /\ revision' \in 0 .. MaxRevision
          /\ pending' \in [source : Players \cup {Nobody}, rev : 0 .. MaxRevision, locked : BOOLEAN]
      BY <1>3, <2>1
    <3>2. ready' \in [Players -> BOOLEAN] /\ rolling' \in [Players -> BOOLEAN]
      BY <1>1, <1>3 DEF TypeOK
    <3> QED BY <1>1, <2>3, <3>1, <3>2 DEF TypeOK
  <2>5. Numbered' /\ SlotsOfDropped'
    BY <1>1, <1>3, <2>1 DEF Numbered, SlotsOfDropped
  <2>6. Informed'
    <3> SUFFICES ASSUME NEW q \in Reliable, q \in Seated
                 PROVE  Tells(inbox'[q], view[q].rev, boss.rev)
      BY <1>1 DEF Informed, Seated
    <3>1. Tells(inbox[q], view[q].rev, boss.rev) /\ inbox[q] \in Seq(Message)
      BY DEF Informed, TypeOK, Reliable
    <3>2. inbox'[q] = Append(inbox[q], Start(revision'))
      BY <2>3 DEF Reliable
    <3> QED BY <3>1, <3>2, <2>2, TellsStart
  <2>7. SourceRolls'
    <3> SUFFICES ASSUME NEW q \in Reliable
                 PROVE  /\ rolling'[q] => ~ready'[q]
                        /\ q \in Seated' /\ pending'.source = q => rolling'[q] /\ ~fighting'
      BY DEF SourceRolls
    <3>1. rolling'[q] => ~ready'[q]
      BY <1>1, <1>3 DEF SourceRolls, TypeOK, Reliable
    <3>2. pending'.source = q => rolling'[q] /\ ~fighting'
      BY <1>1, <1>3 DEF TypeOK
    <3> QED BY <3>1, <3>2
  <2> QED BY <2>4, <2>5, <2>6, <2>7
<1> QED BY <1>2, <1>3 DEF StartReroll, AcceptStart

\* a result is refused or stored
LEMMA ReportBossKeeps ==
  ASSUME BossInv, NEW p \in Players, NEW key \in Bosses, ReportBoss(p, key)
  PROVE  BossInv'
<1> USE DEF BossInv
<1> DEFINE own == pending.source = p
           new == [key |-> key, rev |-> IF own THEN pending.rev ELSE revision + 1]
<1>1. /\ p \in Seated /\ revision < MaxRevision
      /\ rolling' = [rolling EXCEPT ![p] = FALSE]
      /\ UNCHANGED <<place, ready, fighting, view>>
  BY DEF ReportBoss, Sends
<1>2. CASE UNCHANGED <<boss, pending, revision, inbox>> /\ ~own
  <2>1. TypeOK' /\ Numbered' /\ SlotsOfDropped' /\ Informed'
    BY <1>1, <1>2 DEF TypeOK, Numbered, SlotsOfDropped, Informed, Seated
  <2>2. SourceRolls'
    BY <1>1, <1>2 DEF SourceRolls, TypeOK, Seated, Reliable
  <2> QED BY <2>1, <2>2
<1>3. CASE /\ ~own /\ boss.key # NoBoss
           /\ inbox' = [inbox EXCEPT ![p] = Append(@, Result(boss))]
           /\ UNCHANGED <<boss, pending, revision>>
  <2>1. Result(boss) \in Message /\ Result(boss).phase = "result" /\ Result(boss).rev = boss.rev
    BY <1>3, ResultIsMessage DEF TypeOK, Numbered
  <2>2. /\ inbox' \in [Players -> Seq(Message)]
        /\ inbox'[p] = Append(inbox[p], Result(boss))
        /\ \A q \in Players \ {p} : inbox'[q] = inbox[q]
    BY <1>3, <2>1 DEF TypeOK
  <2>3. TypeOK' /\ Numbered' /\ SlotsOfDropped'
    BY <1>1, <1>3, <2>2 DEF TypeOK, Numbered, SlotsOfDropped
  <2>4. Informed'
    <3> SUFFICES ASSUME NEW q \in Reliable, q \in Seated
                 PROVE  Tells(inbox'[q], view[q].rev, boss.rev)
      BY <1>1, <1>3 DEF Informed, Seated
    <3>1. Tells(inbox[q], view[q].rev, boss.rev) /\ inbox[q] \in Seq(Message)
      BY DEF Informed, TypeOK, Reliable
    <3>2. CASE q = p
      BY <3>1, <3>2, <2>1, <2>2, TellsResult
    <3>3. CASE q # p
      BY <3>1, <3>3, <2>2 DEF Reliable
    <3> QED BY <3>2, <3>3
  <2>5. SourceRolls'
    BY <1>1, <1>3 DEF SourceRolls, TypeOK, Seated, Reliable
  <2> QED BY <2>3, <2>4, <2>5
<1>4. CASE /\ pending.source \in {p, Nobody}
           /\ boss' = new
           /\ revision' = IF own THEN revision ELSE revision + 1
           /\ pending' = IF own THEN NoReroll ELSE pending
           /\ Broadcast(Result(boss'))
  <2>1. boss' \in Known /\ boss'.rev # 0 /\ revision' \in 0 .. MaxRevision
    BY <1>1, <1>4, BossAssumption DEF TypeOK, Numbered, Known
  <2>2. /\ Result(boss') \in Message /\ Result(boss').phase = "result"
        /\ Result(boss').rev = boss'.rev
    BY <2>1, ResultIsMessage
  <2>3. /\ inbox' \in [Players -> Seq(Message)]
        /\ \A q \in Players : inbox'[q] = IF q \in Seated THEN Append(inbox[q], Result(boss'))
                                          ELSE inbox[q]
    BY <1>4, <2>2, BroadcastEffect
  <2>4. /\ pending' \in [source : Players \cup {Nobody}, rev : 0 .. MaxRevision, locked : BOOLEAN]
        /\ pending'.source = Nobody
    BY <1>4, BossAssumption DEF TypeOK, NoReroll
  <2>5. TypeOK'
    BY <1>1, <2>1, <2>3, <2>4 DEF TypeOK
  <2>6. Numbered' /\ SlotsOfDropped'
    BY <1>1, <2>1, <2>4 DEF Numbered, SlotsOfDropped
  <2>7. Informed'
    <3> SUFFICES ASSUME NEW q \in Reliable, q \in Seated
                 PROVE  Tells(inbox'[q], view[q].rev, boss'.rev)
      BY <1>1 DEF Informed, Seated
    <3>1. inbox'[q] = Append(inbox[q], Result(boss')) /\ inbox[q] \in Seq(Message)
      BY <2>3 DEF TypeOK, Reliable
    <3>2. Tells(Append(inbox[q], Result(boss')), view[q].rev, Result(boss').rev)
      BY <3>1, <2>2, TellsResult
    <3> QED BY <3>1, <3>2, <2>2
  <2>8. SourceRolls'
    BY <1>1, <2>4, BossAssumption DEF SourceRolls, TypeOK, Seated, Reliable
  <2> QED BY <2>5, <2>6, <2>7, <2>8
<1> QED BY <1>2, <1>3, <1>4 DEF ReportBoss, Store

\* Everybody at the table has announced the blind, so nobody there rolls.
LEMMA ReadyBossKeeps ==
  ASSUME BossInv, NEW p \in Players, ReadyBoss(p)
  PROVE  BossInv'
<1> USE DEF BossInv
<1> DEFINE announced == [ready EXCEPT ![p] = TRUE]
<1>1. /\ p \in Seated /\ ~fighting /\ ~rolling[p]
      /\ fighting' = AllReady(announced, place)
      /\ ready' = IF fighting' THEN [q \in Players |-> FALSE] ELSE announced
      /\ UNCHANGED <<boss, pending, revision, place, inbox, view, rolling>>
  BY DEF ReadyBoss
<1>2. announced \in [Players -> BOOLEAN] /\ AllReady(announced, place) \in BOOLEAN
  BY DEF TypeOK, AllReady
<1>3. TypeOK'
  BY <1>1, <1>2 DEF TypeOK
<1>4. Numbered' /\ SlotsOfDropped' /\ Informed'
  BY <1>1 DEF Numbered, SlotsOfDropped, Informed, Seated
<1>5. SourceRolls'
  <2> SUFFICES ASSUME NEW q \in Reliable
               PROVE  /\ rolling'[q] => ~ready'[q]
                      /\ q \in Seated' /\ pending'.source = q => rolling'[q] /\ ~fighting'
    BY DEF SourceRolls
  <2>1. rolling[q] => ~announced[q]
    BY <1>1 DEF SourceRolls, TypeOK, Reliable
  <2>2. rolling'[q] => ~ready'[q]
    BY <1>1, <2>1 DEF Reliable
  <2>3. ASSUME q \in Seated, pending.source = q PROVE rolling[q] /\ ~AllReady(announced, place)
    <3>1. rolling[q]
      BY <2>3 DEF SourceRolls
    <3> QED BY <3>1, <2>1, <2>3 DEF AllReady, Seated
  <2> QED BY <2>2, <2>3, <1>1 DEF Seated
<1> QED BY <1>3, <1>4, <1>5

\* the game of a player reads
LEMMA ReadKeeps ==
  ASSUME BossInv, NEW p \in Players, Read(p)
  PROVE  BossInv'
<1> USE DEF BossInv
<1> DEFINE m == Head(inbox[p])
           seen == IF m.phase = "start" THEN [view[p] EXCEPT !.reroll = TRUE]
                   ELSE [key |-> m.key, rev |-> m.rev, reroll |-> FALSE]
<1>1. /\ inbox[p] # <<>> /\ inbox' = [inbox EXCEPT ![p] = Tail(@)]
      /\ view' = [view EXCEPT ![p] = seen]
      /\ UNCHANGED <<server, rolling>>
  BY DEF Read
<1>2. UNCHANGED <<boss, pending, revision, place, ready, fighting>>
  BY <1>1 DEF server
<1>3. inbox[p] \in Seq(Message) /\ m \in Message /\ Tail(inbox[p]) \in Seq(Message)
  BY <1>1 DEF TypeOK
<1>4. /\ seen \in [key : Bosses \cup {NoBoss}, rev : 0 .. MaxRevision, reroll : BOOLEAN]
      /\ seen.rev = IF m.phase = "start" THEN view[p].rev ELSE m.rev
  <2>1. CASE m.phase = "start"
    <3>1. view[p] \in [key : Bosses \cup {NoBoss}, rev : 0 .. MaxRevision, reroll : BOOLEAN]
      BY DEF TypeOK
    <3> QED BY <2>1, <3>1
  <2>2. CASE m.phase # "start"
    <3>1. m.key \in Bosses \cup {NoBoss} /\ m.rev \in 0 .. MaxRevision
      BY <1>3, BossAssumption DEF Message
    <3> QED BY <2>2, <3>1
  <2> QED BY <2>1, <2>2
<1> HIDE DEF seen, m
<1>5. TypeOK'
  BY <1>1, <1>2, <1>3, <1>4 DEF TypeOK
<1>6. Numbered' /\ SlotsOfDropped'
  BY <1>2 DEF Numbered, SlotsOfDropped
<1>7. Informed'
  <2> SUFFICES ASSUME NEW q \in Reliable, q \in Seated
               PROVE  Tells(inbox'[q], view'[q].rev, boss.rev)
    BY <1>2 DEF Informed, Seated
  <2>1. Tells(inbox[q], view[q].rev, boss.rev)
    BY DEF Informed
  <2>2. CASE q = p
    <3>1. inbox'[q] = Tail(inbox[p]) /\ view'[q].rev = IF m.phase = "start" THEN view[p].rev ELSE m.rev
      BY <2>2, <1>1, <1>4 DEF TypeOK
    <3> QED BY <3>1, <2>1, <2>2, <1>1, <1>3, TellsRead DEF m
  <2>3. CASE q # p
    <3>1. inbox'[q] = inbox[q] /\ view'[q] = view[q]
      BY <2>3, <1>1 DEF TypeOK, Reliable
    <3> QED BY <3>1, <2>1
  <2> QED BY <2>2, <2>3
<1>8. SourceRolls'
  BY <1>1, <1>2 DEF SourceRolls, Seated
<1> QED BY <1>5, <1>6, <1>7, <1>8

\* the steps that send nothing and start nothing
LEMMA QuietStepKeeps ==
  ASSUME BossInv, NEW p \in Players, UnreadyBoss(p) \/ GiveUp(p) \/ Disconnect(p)
  PROVE  BossInv'
<1> USE DEF BossInv
<1>1. CASE UnreadyBoss(p)
  BY <1>1 DEF UnreadyBoss, TypeOK, Numbered, SlotsOfDropped, Informed, SourceRolls, Seated,
              Reliable
<1>2. CASE GiveUp(p)
  <2>1. /\ view' = [view EXCEPT ![p].reroll = FALSE]
        /\ UNCHANGED <<boss, pending, revision, place, ready, fighting, inbox, rolling>>
    BY <1>2 DEF GiveUp, server
  <2>2. /\ view' \in [Players -> [key : Bosses \cup {NoBoss}, rev : 0 .. MaxRevision, reroll : BOOLEAN]]
        /\ \A q \in Players : view'[q].rev = view[q].rev
    BY <2>1 DEF TypeOK
  <2>3. TypeOK'
    BY <2>1, <2>2 DEF TypeOK
  <2> QED BY <2>1, <2>2, <2>3 DEF Numbered, SlotsOfDropped, Informed, SourceRolls, Seated, Reliable
<1>3. CASE Disconnect(p)
  <2>1. /\ p \in MayDrop
        /\ place' = [place EXCEPT ![p] = "away"]
        /\ ready' = [ready EXCEPT ![p] = FALSE]
        /\ inbox' = [inbox EXCEPT ![p] = <<>>]
        /\ UNCHANGED <<boss, pending, revision, fighting, view, rolling>>
    BY <1>3 DEF Disconnect
  <2>2. TypeOK'
    <3>1. <<>> \in Seq(Message)
      OBVIOUS
    <3> QED BY <2>1, <3>1 DEF TypeOK
  <2>3. /\ p \notin Reliable
        /\ \A q \in Reliable : /\ place'[q] = place[q] /\ ready'[q] = ready[q]
                               /\ inbox'[q] = inbox[q] /\ q \in Players
    BY <2>1 DEF TypeOK, Reliable
  <2> QED BY <2>1, <2>2, <2>3 DEF Numbered, SlotsOfDropped, Informed, SourceRolls, Seated
<1> QED BY <1>1, <1>2, <1>3

\* only a player of an unreliable connection returns
LEMMA RejoinKeeps ==
  ASSUME BossInv, NEW p \in Players, RejoinLobby(p)
  PROVE  BossInv'
<1> USE DEF BossInv
<1>1. /\ place[p] = "away" /\ place' = [place EXCEPT ![p] = "seated"]
      /\ rolling' \in {rolling, [rolling EXCEPT ![p] = FALSE]}
      /\ view' = [view EXCEPT ![p].reroll = FALSE]
      /\ UNCHANGED <<boss, pending, revision, ready, fighting, inbox>>
  BY DEF RejoinLobby
<1>2. p \notin Reliable
  BY <1>1 DEF SlotsOfDropped
<1>3. rolling' \in [Players -> BOOLEAN] /\ \A q \in Reliable : rolling'[q] = rolling[q]
  BY <1>1, <1>2 DEF TypeOK, Reliable
<1>4. \A q \in Reliable : place'[q] = place[q] /\ view'[q] = view[q] /\ q \in Players
  BY <1>1, <1>2 DEF TypeOK, Reliable
<1>5. TypeOK'
  <2>1. view' \in [Players -> [key : Bosses \cup {NoBoss}, rev : 0 .. MaxRevision, reroll : BOOLEAN]]
    <3>1. [view[p] EXCEPT !.reroll = FALSE] \in
            [key : Bosses \cup {NoBoss}, rev : 0 .. MaxRevision, reroll : BOOLEAN]
      BY DEF TypeOK
    <3>2. view' = [view EXCEPT ![p] = [view[p] EXCEPT !.reroll = FALSE]]
      BY <1>1
    <3> QED BY <3>1, <3>2 DEF TypeOK
  <2>2. place' \in [Players -> {"seated", "away", "gone"}]
    BY <1>1 DEF TypeOK
  <2> QED BY <1>1, <1>3, <2>1, <2>2 DEF TypeOK
<1> QED BY <1>1, <1>3, <1>4, <1>5 DEF Numbered, SlotsOfDropped, Informed, SourceRolls, Seated

\* The blind may start with a departure, once nobody else keeps it waiting.
LEMMA LeaveKeeps ==
  ASSUME BossInv, NEW p \in Players, Leave(p)
  PROVE  BossInv'
<1> USE DEF BossInv
<1>1. /\ place' = [place EXCEPT ![p] = "gone"]
      /\ fighting' = (fighting \/ (place[p] = "away" /\ AllReady(ready, place')))
      /\ ready' = IF fighting' THEN [q \in Players |-> FALSE] ELSE [ready EXCEPT ![p] = FALSE]
      /\ inbox' = [inbox EXCEPT ![p] = <<>>]
      /\ UNCHANGED <<boss, pending, revision, view, rolling>>
  BY DEF Leave
<1>2. fighting' \in BOOLEAN
  BY <1>1 DEF TypeOK, AllReady
<1>3. TypeOK'
  <2>1. <<>> \in Seq(Message)
    OBVIOUS
  <2> QED BY <1>1, <1>2, <2>1 DEF TypeOK
<1>4. Numbered' /\ SlotsOfDropped'
  BY <1>1 DEF Numbered, SlotsOfDropped, TypeOK, Reliable
<1>5. \A q \in Players : q \in Seated' => q \in Seated /\ q # p /\ place'[q] = "seated"
  BY <1>1 DEF Seated, TypeOK
<1>6. Informed'
  <2> SUFFICES ASSUME NEW q \in Reliable, q \in Seated'
               PROVE  Tells(inbox'[q], view[q].rev, boss.rev)
    BY <1>1 DEF Informed
  <2> QED BY <1>1, <1>5 DEF Informed, TypeOK, Reliable
<1>7. SourceRolls'
  <2> SUFFICES ASSUME NEW q \in Reliable
               PROVE  /\ rolling'[q] => ~ready'[q]
                      /\ q \in Seated' /\ pending'.source = q => rolling'[q] /\ ~fighting'
    BY DEF SourceRolls
  <2>1. rolling'[q] => ~ready'[q]
    BY <1>1 DEF SourceRolls, TypeOK, Reliable
  <2>2. ASSUME q \in Seated', pending.source = q
        PROVE  rolling[q] /\ ~fighting /\ ~AllReady(ready, place')
    <3>1. q \in Players /\ q \in Seated /\ place'[q] = "seated"
      BY <1>5, <2>2 DEF Reliable
    <3>2. rolling[q] /\ ~fighting /\ ~ready[q]
      BY <3>1, <2>2 DEF SourceRolls
    <3> QED BY <3>1, <3>2 DEF AllReady
  <2> QED BY <2>1, <2>2, <1>1
<1> QED BY <1>3, <1>4, <1>6, <1>7

LEMMA LockTimesOutKeeps ==
  ASSUME BossInv, LockTimesOut
  PROVE  BossInv'
<1> USE DEF BossInv
<1>1. /\ pending' = [pending EXCEPT !.locked = FALSE]
      /\ UNCHANGED <<boss, revision, place, ready, fighting, inbox, view, rolling>>
  BY DEF LockTimesOut
<1>2. /\ pending' \in [source : Players \cup {Nobody}, rev : 0 .. MaxRevision, locked : BOOLEAN]
      /\ pending'.source = pending.source /\ pending'.rev = pending.rev
  BY <1>1 DEF TypeOK
<1> QED BY <1>1, <1>2 DEF TypeOK, Numbered, SlotsOfDropped, Informed, SourceRolls, Seated

LEMMA NextKeeps == BossInv /\ [Next]_vars => BossInv'
<1> SUFFICES ASSUME BossInv, [Next]_vars PROVE BossInv'
  OBVIOUS
<1>1. CASE UNCHANGED vars
  BY <1>1 DEF vars, server, BossInv, TypeOK, Numbered, SlotsOfDropped, Informed, SourceRolls,
              Seated
<1>2. ASSUME NEW p \in Players, StartReroll(p) PROVE BossInv'
  BY <1>2, StartRerollKeeps
<1>3. ASSUME NEW p \in Players, NEW key \in Bosses, ReportBoss(p, key) PROVE BossInv'
  BY <1>3, ReportBossKeeps
<1>4. ASSUME NEW p \in Players, ReadyBoss(p) PROVE BossInv'
  BY <1>4, ReadyBossKeeps
<1>5. ASSUME NEW p \in Players, Read(p) PROVE BossInv'
  BY <1>5, ReadKeeps
<1>6. ASSUME NEW p \in Players, UnreadyBoss(p) \/ GiveUp(p) \/ Disconnect(p) PROVE BossInv'
  BY <1>6, QuietStepKeeps
<1>7. ASSUME NEW p \in Players, RejoinLobby(p) PROVE BossInv'
  BY <1>7, RejoinKeeps
<1>8. ASSUME NEW p \in Players, Leave(p) PROVE BossInv'
  BY <1>8, LeaveKeeps
<1>9. CASE LockTimesOut
  BY <1>9, LockTimesOutKeeps
<1> QED BY <1>1, <1>2, <1>3, <1>4, <1>5, <1>6, <1>7, <1>8, <1>9 DEF Next

THEOREM BossCorrect == Spec => []BossInv
BY InitInv, NextKeeps, PTL DEF Spec

\* FollowersKnowBoss: a reliable player that has read everything knows the
\* boss of the server.
THEOREM FollowersKnowBossCorrect == Spec => []FollowersKnowBoss
<1>1. BossInv => FollowersKnowBoss
  <2> SUFFICES ASSUME BossInv, NEW p \in Seated \ MayDrop, inbox[p] = <<>>
               PROVE  view[p].rev = boss.rev
    BY DEF FollowersKnowBoss
  <2>1. Tells(<<>>, view[p].rev, boss.rev)
    BY DEF BossInv, Informed, Reliable, Seated
  <2> QED BY <2>1, TellsQuiet
<1> QED BY <1>1, BossCorrect, PTL

\* BossStaysDuringBlind: the boss changes under the players who fight it only
\* by the reroll of a player whose connection was lost.
THEOREM BossStaysDuringBlindCorrect == Spec => BossStaysDuringBlind
<1>1. BossInv /\ [Next]_vars =>
        [fighting /\ boss.key # NoBoss /\ pending.source \notin MayDrop => boss' = boss]_vars
  <2> SUFFICES ASSUME BossInv, Next, fighting, boss.key # NoBoss, pending.source \notin MayDrop
               PROVE  boss' = boss
    BY DEF vars, server
  <2>1. ASSUME NEW p \in Players, NEW key \in Bosses, ReportBoss(p, key) PROVE boss' = boss
    <3>1. pending.source # p
      <4> SUFFICES ASSUME pending.source = p PROVE FALSE
        OBVIOUS
      <4>1. p \in Reliable /\ p \in Seated
        BY <2>1 DEF ReportBoss, Sends, Reliable
      <4> QED BY <4>1 DEF BossInv, SourceRolls
    <3> QED BY <2>1, <3>1 DEF ReportBoss, Store
  <2>2. ASSUME NEW p \in Players,
               \/ StartReroll(p) \/ ReadyBoss(p) \/ UnreadyBoss(p) \/ Read(p) \/ GiveUp(p)
               \/ Disconnect(p) \/ RejoinLobby(p) \/ Leave(p)
        PROVE  boss' = boss
    BY <2>2 DEF StartReroll, ReadyBoss, UnreadyBoss, Read, GiveUp, Disconnect, RejoinLobby, Leave,
                server
  <2>3. CASE LockTimesOut
    BY <2>3 DEF LockTimesOut
  <2> QED BY <2>1, <2>2, <2>3 DEF Next
<1> QED BY <1>1, BossCorrect, PTL DEF Spec, BossStaysDuringBlind

------------------------------------------------------------------------------
(* The end-game snapshots *)

CONSTANTS Kinds, None, MaxAsks, MaxOffers, MaxVersion, MaxMoves

VARIABLES lobby, client, up, down, waiting, moves

Snap == INSTANCE EndGameSnapshots

ToServer == Snap!Request \cup Snap!Answer
ToClient == Snap!Relayed \cup Snap!Shown
Kept == Snap!Snapshot \cup {None}

\* The answers in s, what a player sent, are its own and in order, the last at most n.
InOrder(s, q, n) ==
  \A i \in 1 .. Len(s) : s[i].type = "receive" =>
    /\ s[i].snapshot.owner = q /\ s[i].snapshot.version <= n
    /\ \A j \in i .. Len(s) : s[j].type = "receive" /\ s[j].kind = s[i].kind =>
         s[i].snapshot.version <= s[j].snapshot.version

\* The answers of kind k in s are at least n.
FromOn(s, n, k) ==
  \A i \in 1 .. Len(s) : s[i].type = "receive" /\ s[i].kind = k => n <= s[i].snapshot.version

\* The snapshots shown in s are their source's and in order.
Rising(s) ==
  \A i \in 1 .. Len(s) : s[i].type = "receive" =>
    /\ s[i].snapshot.owner = s[i].source
    /\ \A j \in i .. Len(s) :
         s[j].type = "receive" /\ s[j].source = s[i].source /\ s[j].kind = s[i].kind =>
           s[i].snapshot.version <= s[j].snapshot.version

\* The snapshots of q of kind k shown in s are at least n.
ShownFrom(s, n, q, k) ==
  \A i \in 1 .. Len(s) : s[i].type = "receive" /\ s[i].source = q /\ s[i].kind = k =>
    n <= s[i].snapshot.version

\* What q had is what it has or may send, or older.
ToCome(n, q, k) == n <= client[q].version /\ FromOn(up[q], n, k)

\* and what the server keeps, or older
Past(n, q, k) == ToCome(n, q, k) /\ (lobby.cache[q][k] # None => n <= lobby.cache[q][k].version)

AnswersInOrder == \A q \in Players : InOrder(up[q], q, client[q].version)

StoredIsPast ==
  \A q \in Players, k \in Kinds : lobby.cache[q][k] # None =>
    lobby.cache[q][k].owner = q /\ ToCome(lobby.cache[q][k].version, q, k)

ShowsInOrder ==
  \A p \in Players :
    /\ Rising(down[p])
    /\ \A i \in 1 .. Len(down[p]) : down[p][i].type = "receive" =>
         Past(down[p][i].snapshot.version, down[p][i].source, down[p][i].kind)

ShownIsPast ==
  \A p, q \in Players, k \in Kinds : client[p].shown[q][k] # None =>
    /\ client[p].shown[q][k].owner = q /\ Past(client[p].shown[q][k].version, q, k)
    /\ ShownFrom(down[p], client[p].shown[q][k].version, q, k)

SnapInv == Snap!TypeOK /\ AnswersInOrder /\ StoredIsPast /\ ShowsInOrder /\ ShownIsPast

------------------------------------------------------------------------------
(* Types *)

\* What travels to the server and to the clients.
LEMMA MessageTypes ==
  /\ \A m \in ToServer : /\ m.type \in {"get", "receive"} /\ m.kind \in Kinds
                         /\ m.type = "get" => m \in Snap!Request
                         /\ m.type = "receive" => m \in Snap!Answer
  /\ \A m \in ToClient : /\ m.type \in {"get", "receive"} /\ m.kind \in Kinds
                         /\ m.type = "get" => m \in Snap!Relayed
                         /\ m.type = "receive" => m \in Snap!Shown
BY DEF ToServer, ToClient, Snap!Request, Snap!Answer, Snap!Relayed, Snap!Shown

\* The elements of a sequence, of its tail and of a longer one.
LEMMA QueueTypes ==
  ASSUME NEW M, NEW s \in Seq(M)
  PROVE  /\ Len(s) \in Nat /\ \A i \in 1 .. Len(s) : s[i] \in M
         /\ s # <<>> => /\ Head(s) \in M /\ Head(s) = s[1] /\ Len(s) > 0
                        /\ Tail(s) \in Seq(M) /\ Len(Tail(s)) = Len(s) - 1
                        /\ \A i \in 1 .. Len(Tail(s)) : Tail(s)[i] = s[i + 1]
         /\ \A m \in M : /\ Append(s, m) \in Seq(M) /\ Len(Append(s, m)) = Len(s) + 1
                         /\ \A i \in 1 .. Len(s) : Append(s, m)[i] = s[i]
                         /\ Append(s, m)[Len(s) + 1] = m
OBVIOUS

\* The line holds when nothing was sent.
LEMMA SnapInit == Snap!Init => SnapInv
<1> SUFFICES ASSUME Snap!Init PROVE SnapInv
  OBVIOUS
<1>1. Snap!TypeOK
  BY DEF Snap!Init, Snap!TypeOK, Snap!NoSnapshots
<1>2. \A p \in Players : /\ up[p] = <<>> /\ down[p] = <<>> /\ Len(up[p]) = 0 /\ Len(down[p]) = 0
                         /\ client[p].version = 1
  BY DEF Snap!Init
<1>3. \A p, q \in Players, k \in Kinds : client[p].shown[q][k] = None /\ lobby.cache[q][k] = None
  BY DEF Snap!Init, Snap!NoSnapshots
<1>4. AnswersInOrder
  BY <1>2 DEF AnswersInOrder, InOrder
<1>5. ShowsInOrder
  BY <1>2 DEF ShowsInOrder, Rising
<1>6. StoredIsPast /\ ShownIsPast
  BY <1>3 DEF StoredIsPast, ShownIsPast
<1> QED BY <1>1, <1>4, <1>5, <1>6 DEF SnapInv

\* Every step keeps the types.
LEMMA TypesKept ==
  ASSUME Snap!TypeOK, [Snap!Next]_Snap!vars
  PROVE  Snap!TypeOK'
<1> DEFINE Moves3 == [asks : [Players -> Nat], offers : [Players -> Nat], others : Nat]
           Games == [Players -> [version : Nat, shown : [Players -> [Kinds -> Kept]]]]
           Lobbies == [inGame : BOOLEAN, seated : SUBSET Players, away : SUBSET Players,
                       inMatch : SUBSET Players, cache : [Players -> [Kinds -> Kept]]]
           Waits == SUBSET [by : Players, target : Players, kind : Kinds, since : Nat]
<1>0. /\ lobby \in Lobbies /\ client \in Games /\ up \in [Players -> Seq(ToServer)]
      /\ down \in [Players -> Seq(ToClient)] /\ waiting \in Waits /\ moves \in Moves3
  BY DEF Snap!TypeOK, Kept, ToServer, ToClient
<1>t. (/\ lobby \in Lobbies /\ client \in Games /\ up \in [Players -> Seq(ToServer)]
       /\ down \in [Players -> Seq(ToClient)] /\ waiting \in Waits /\ moves \in Moves3)'
         => Snap!TypeOK'
  BY DEF Snap!TypeOK, Kept, ToServer, ToClient
<1>q. \A p \in Players :
        /\ Tail(up[p]) \in Seq(ToServer) \/ up[p] = <<>>
        /\ Tail(down[p]) \in Seq(ToClient) \/ down[p] = <<>>
        /\ up[p] # <<>> => Head(up[p]) \in ToServer
        /\ down[p] # <<>> => Head(down[p]) \in ToClient
        /\ \A m \in ToServer : Append(up[p], m) \in Seq(ToServer)
        /\ \A m \in ToClient : Append(down[p], m) \in Seq(ToClient)
  BY <1>0, QueueTypes
<1>s. ASSUME NEW s \in SUBSET Players, NEW m \in ToClient
      PROVE  Snap!Sent(s, m) \in [Players -> Seq(ToClient)]
  BY <1>0, <1>q DEF Snap!Sent
<1>m. ASSUME Snap!Moves PROVE moves' \in Moves3
  <2>1. moves' = [moves EXCEPT !.others = moves.others + 1]
    BY <1>0, <1>m DEF Snap!Moves
  <2>2. moves.others + 1 \in Nat
    BY <1>0
  <2> HIDE <1>m
  <2> QED BY <1>0, <2>1, <2>2
<1>a. ASSUME NEW p \in Players, NEW k \in Kinds, NEW r \in Players \cup {None},
             Snap!Answered(p, k, r)
      PROVE  up' \in [Players -> Seq(ToServer)]
  <2>1. PICK claimed \in {p, r} \ {None} : up' = [up EXCEPT ![p] =
          Append(up[p], [type |-> "receive", kind |-> k, claimed |-> claimed, requester |-> r,
                         snapshot |-> [owner |-> p, version |-> client[p].version]])]
    BY <1>a DEF Snap!Answered
  <2>2. claimed \in Players /\ client[p].version \in Nat
    BY <1>0
  <2>3. [type |-> "receive", kind |-> k, claimed |-> claimed, requester |-> r,
         snapshot |-> [owner |-> p, version |-> client[p].version]] \in ToServer
    BY <2>2 DEF ToServer, Snap!Answer, Snap!Snapshot
  <2> QED BY <1>0, <1>q, <2>1, <2>3
<1> DEFINE AllKept == /\ lobby' \in Lobbies /\ client' \in Games
                      /\ up' \in [Players -> Seq(ToServer)]
                      /\ down' \in [Players -> Seq(ToClient)]
                      /\ waiting' \in Waits /\ moves' \in Moves3
<1>1. ASSUME NEW p \in Players, Snap!Ask(p) PROVE AllKept
  <2>1. PICK k \in Kinds, q \in (Players \ {p}) \cup {None}, fresh \in BOOLEAN :
          /\ fresh => Snap!MayBeFresh(k) /\ q # None
          /\ up' = [up EXCEPT ![p] =
               Append(up[p], [type |-> "get", kind |-> k, target |-> q, fresh |-> fresh])]
          /\ waiting' = IF ~ {p, q} \subseteq lobby.seated THEN waiting
                        ELSE waiting \cup
                               {[by |-> p, target |-> q, kind |-> k,
                                 since |-> IF fresh THEN client[q].version ELSE 0]}
    BY <1>1 DEF Snap!Ask
  <2>2. [type |-> "get", kind |-> k, target |-> q, fresh |-> fresh] \in ToServer
    BY DEF ToServer, Snap!Request
  <2>3. up' \in [Players -> Seq(ToServer)]
    BY <1>0, <1>q, <2>1, <2>2
  <2>4. waiting' \in Waits
    <3>1. CASE ~ {p, q} \subseteq lobby.seated
      BY <1>0, <2>1, <3>1
    <3>2. CASE {p, q} \subseteq lobby.seated
      <4>1. q \in Players /\ client[q].version \in Nat
        BY <1>0, <3>2
      <4>2. [by |-> p, target |-> q, kind |-> k,
             since |-> IF fresh THEN client[q].version ELSE 0]
              \in [by : Players, target : Players, kind : Kinds, since : Nat]
        BY <4>1
      <4> QED BY <1>0, <2>1, <3>2, <4>2
    <3> QED BY <3>1, <3>2
  <2>5. moves' \in Moves3
    <3>1. moves' = [moves EXCEPT !.asks = [moves.asks EXCEPT ![p] = moves.asks[p] + 1]]
      BY <1>0, <1>1 DEF Snap!Ask
    <3>2. [moves.asks EXCEPT ![p] = moves.asks[p] + 1] \in [Players -> Nat]
      BY <1>0
    <3> QED BY <1>0, <3>1, <3>2
  <2>6. UNCHANGED <<lobby, client, down>>
    BY <1>1 DEF Snap!Ask
  <2> QED BY <1>0, <2>3, <2>4, <2>5, <2>6
<1>2. ASSUME NEW p \in Players, Snap!Offer(p) PROVE AllKept
  <2>1. up' \in [Players -> Seq(ToServer)]
    BY <1>2, <1>a DEF Snap!Offer
  <2>2. moves' \in Moves3
    <3>1. moves' = [moves EXCEPT !.offers = [moves.offers EXCEPT ![p] = moves.offers[p] + 1]]
      BY <1>0, <1>2 DEF Snap!Offer
    <3>2. [moves.offers EXCEPT ![p] = moves.offers[p] + 1] \in [Players -> Nat]
      BY <1>0
    <3> QED BY <1>0, <3>1, <3>2
  <2> QED BY <1>0, <1>2, <2>1, <2>2 DEF Snap!Offer
<1>3. ASSUME NEW p \in Players, Snap!PlayOn(p) PROVE AllKept
  <2>1. client' \in Games
    <3>1. client' = [client EXCEPT ![p] = [client[p] EXCEPT !.version = client[p].version + 1]]
      BY <1>0, <1>3 DEF Snap!PlayOn
    <3>2. [client[p] EXCEPT !.version = client[p].version + 1]
            \in [version : Nat, shown : [Players -> [Kinds -> Kept]]]
      <4>1. /\ client[p] \in [version : Nat, shown : [Players -> [Kinds -> Kept]]]
            /\ client[p].version + 1 \in Nat
        BY <1>0
      <4> QED BY <4>1
    <3> QED BY <1>0, <3>1, <3>2
  <2> QED BY <1>0, <1>3, <2>1 DEF Snap!PlayOn
<1>4. ASSUME NEW p \in Players, Snap!ClientReceives(p) PROVE AllKept
  <2> DEFINE msg == Head(down[p])
  <2>1. msg \in ToClient /\ down' \in [Players -> Seq(ToClient)]
    BY <1>0, <1>q, <1>4 DEF Snap!ClientReceives
  <2>2. UNCHANGED <<lobby, moves>>
    BY <1>4 DEF Snap!ClientReceives
  <2>3. CASE msg.type = "get" /\ Snap!Answered(p, msg.kind, msg.requester) /\ UNCHANGED <<client, waiting>>
    <3>1. msg.kind \in Kinds /\ msg.requester \in Players
      BY <2>1, <2>3, MessageTypes DEF Snap!Relayed
    <3>2. up' \in [Players -> Seq(ToServer)]
      BY <1>a, <2>3, <3>1
    <3> QED BY <1>0, <2>1, <2>2, <2>3, <3>2
  <2>4. CASE /\ msg.type = "receive"
             /\ client' = [client EXCEPT ![p].shown[msg.source][msg.kind] = msg.snapshot]
             /\ waiting' = {w \in waiting : ~Snap!Satisfied(w, p, msg)}
             /\ UNCHANGED up
    <3>1. msg.kind \in Kinds /\ msg.source \in Players /\ msg.snapshot \in Kept
      BY <2>1, <2>4, MessageTypes DEF Snap!Shown, Kept
    <3>2. client' \in Games
      BY <1>0, <2>4, <3>1
    <3>3. waiting' \in Waits
      BY <1>0, <2>4
    <3> QED BY <1>0, <2>1, <2>2, <2>4, <3>2, <3>3
  <2> QED BY <1>4, <2>3, <2>4 DEF Snap!ClientReceives
<1>5. ASSUME NEW p \in Players, Snap!ServerReceives(p) PROVE AllKept
  <2> DEFINE msg == Head(up[p])
  <2>1. msg \in ToServer /\ up' \in [Players -> Seq(ToServer)] /\ up[p] # <<>>
    BY <1>0, <1>q, <1>5 DEF Snap!ServerReceives
  <2>2. UNCHANGED <<client, waiting, moves>>
    BY <1>5 DEF Snap!ServerReceives
  <2>3. CASE UNCHANGED <<lobby, down>>
    BY <1>0, <2>1, <2>2, <2>3
  <2>4. CASE p \in lobby.seated /\ Snap!HandleRequest(p, msg)
    <3>1. msg.kind \in Kinds /\ msg.target \in Players \cup {None} /\ UNCHANGED lobby
      BY <2>1, <2>4, MessageTypes DEF Snap!Request, Snap!HandleRequest
    <3>2. [type |-> "get", kind |-> msg.kind, requester |-> p] \in ToClient
      BY <3>1 DEF ToClient, Snap!Relayed
    <3>3. CASE msg.target = None
      <4>1. Snap!Enemies(p) \in SUBSET Players
        BY <1>0 DEF Snap!Enemies
      <4>2. down' \in [Players -> Seq(ToClient)]
        BY <1>s, <2>4, <3>2, <3>3, <4>1 DEF Snap!HandleRequest
      <4> QED BY <1>0, <2>1, <2>2, <3>1, <4>2
    <3>4. CASE msg.target # None
      <4> DEFINE s == lobby.cache[msg.target][msg.kind]
                 relayed == [type |-> "get", kind |-> msg.kind, requester |-> p]
                 shown == Snap!Show(p, msg.kind, msg.target, s)
                 asked == {msg.target} \cap lobby.seated
      <4>1. s \in Kept /\ asked \in SUBSET Players /\ msg.target \in Players
        BY <1>0, <3>1, <3>4
      <4>2. down' = Snap!RequestFromTarget(p, msg)
        BY <2>4, <3>4 DEF Snap!HandleRequest
      <4>3. CASE s = None
        <5>1. down' = Snap!Sent(asked, relayed)
          BY <4>2, <4>3 DEF Snap!RequestFromTarget
        <5> QED BY <1>0, <1>s, <2>1, <2>2, <3>1, <3>2, <4>1, <5>1
      <4>4. CASE s # None
        <5>1. shown \in ToClient
          BY <3>1, <4>1, <4>4 DEF ToClient, Snap!Shown, Snap!Show, Kept
        <5>2. CASE ~msg.fresh
          <6>1. down' = Snap!Sent({p}, shown)
            BY <4>2, <4>4, <5>2 DEF Snap!RequestFromTarget
          <6> QED BY <1>0, <1>s, <2>1, <2>2, <3>1, <5>1, <6>1
        <5>3. CASE msg.fresh
          <6>1. down' = [q \in Players |->
                  IF q = p THEN Append(down[q], shown)
                  ELSE IF q \in asked THEN Append(down[q], relayed) ELSE down[q]]
            BY <4>2, <4>4, <5>3 DEF Snap!RequestFromTarget
          <6> HIDE DEF s, shown, relayed, asked
          <6>2. down' \in [Players -> Seq(ToClient)]
            BY <1>0, <1>q, <3>2, <5>1, <6>1 DEF relayed
          <6> QED BY <1>0, <2>1, <2>2, <3>1, <6>2
        <5> QED BY <5>2, <5>3
      <4> QED BY <4>3, <4>4
    <3> QED BY <3>3, <3>4
  <2>5. CASE p \in lobby.seated /\ Snap!HandleAnswer(p, msg)
    <3> DEFINE shown == Snap!Show(p, msg.kind, p, msg.snapshot)
    <3>1. /\ msg.kind \in Kinds /\ msg.snapshot \in Snap!Snapshot
          /\ msg.requester \in Players \cup {None}
      BY <2>1, <2>5, MessageTypes DEF Snap!Answer, Snap!HandleAnswer
    <3>2. lobby' = [lobby EXCEPT !.cache = [lobby.cache EXCEPT ![p][msg.kind] = msg.snapshot]]
      BY <2>5 DEF Snap!HandleAnswer, Snap!Stored, Snap!Source
    <3>3. lobby' \in Lobbies
      BY <1>0, <3>1, <3>2 DEF Kept
    <3>4. shown \in ToClient
      BY <3>1 DEF ToClient, Snap!Shown, Snap!Show
    <3>5. \/ down' = Snap!Sent({msg.requester} \cap lobby.seated, shown)
          \/ down' = Snap!Sent(lobby.seated \ {p}, shown)
      BY <2>5 DEF Snap!HandleAnswer, Snap!Source
    <3>6. /\ {msg.requester} \cap lobby.seated \in SUBSET Players
          /\ lobby.seated \ {p} \in SUBSET Players
      BY <1>0
    <3> HIDE DEF shown
    <3>7. down' \in [Players -> Seq(ToClient)]
      BY <1>s, <3>4, <3>5, <3>6
    <3> QED BY <1>0, <2>1, <2>2, <3>3, <3>7
  <2> QED BY <1>5, <2>3, <2>4, <2>5 DEF Snap!ServerReceives
<1>6. ASSUME NEW p \in Players, Snap!LeavesSeat(p)
      PROVE  waiting' \in Waits /\ moves' \in Moves3 /\ client' \in Games
  BY <1>0, <1>6, <1>m DEF Snap!LeavesSeat, Snap!NobodyWaits
<1>7. ASSUME NEW p \in Players, Snap!Drop(p) PROVE AllKept
  <2>1. lobby' \in Lobbies
    BY <1>0, <1>7 DEF Snap!Drop
  <2>2. up' \in [Players -> Seq(ToServer)] /\ down' \in [Players -> Seq(ToClient)]
    BY <1>0, <1>7 DEF Snap!Drop
  <2>3. Snap!LeavesSeat(p)
    BY <1>7 DEF Snap!Drop
  <2> QED BY <1>6, <2>1, <2>2, <2>3
<1>8. ASSUME NEW p \in Players, Snap!Leave(p) PROVE AllKept
  <2>1. lobby' \in Lobbies
    <3>1. lobby' = [lobby EXCEPT !.seated = lobby.seated \ {p}, !.inMatch = lobby.inMatch \ {p}]
      BY <1>8 DEF Snap!Leave
    <3> QED BY <1>0, <3>1
  <2>2. Snap!LeavesSeat(p) /\ UNCHANGED <<up, down>>
    BY <1>8 DEF Snap!Leave
  <2> QED BY <1>0, <1>6, <2>1, <2>2
<1>9. ASSUME NEW p \in Players, Snap!Return(p) PROVE AllKept
  <2>1. lobby' \in Lobbies
    BY <1>0, <1>9 DEF Snap!Return
  <2>2. Snap!Moves /\ UNCHANGED <<client, up, down, waiting>>
    BY <1>9 DEF Snap!Return
  <2> QED BY <1>0, <1>m, <2>1, <2>2
<1>10. ASSUME Snap!StartGame \/ Snap!FinishMatch PROVE AllKept
  <2>1. Snap!NoSnapshots \in [Players -> [Kinds -> Kept]]
    BY DEF Snap!NoSnapshots, Kept
  <2>2. lobby' \in Lobbies
    BY <1>0, <1>10, <2>1 DEF Snap!StartGame, Snap!FinishMatch
  <2>3. Snap!Moves /\ UNCHANGED <<client, up, down, waiting>>
    BY <1>10 DEF Snap!StartGame, Snap!FinishMatch
  <2> QED BY <1>0, <1>m, <2>2, <2>3
<1>11. ASSUME UNCHANGED Snap!vars PROVE AllKept
  BY <1>0, <1>11 DEF Snap!vars
<1>12. AllKept
  <2> HIDE DEF AllKept
  <2> QED BY <1>1, <1>2, <1>3, <1>4, <1>5, <1>7, <1>8, <1>9, <1>10, <1>11 DEF Snap!Next, AllKept
<1> QED BY <1>12, <1>t

------------------------------------------------------------------------------
(* What is sent and received leaves messages in order *)

\* The answers on the way to the server carry snapshots.
LEMMA ServerQueue ==
  ASSUME NEW s \in Seq(ToServer)
  PROVE  /\ Len(s) \in Nat
         /\ \A i \in 1 .. Len(s) : s[i].type = "receive" => s[i].snapshot.version \in Nat
<1>1. ASSUME NEW i \in 1 .. Len(s), s[i].type = "receive" PROVE s[i].snapshot.version \in Nat
  <2>1. s[i] \in ToServer
    OBVIOUS
  <2>2. s[i] \in Snap!Answer
    BY <1>1, <2>1, MessageTypes
  <2> QED BY <2>2 DEF Snap!Answer, Snap!Snapshot
<1> QED BY <1>1

\* The messages that show a snapshot name whose it is.
LEMMA ClientQueue ==
  ASSUME NEW s \in Seq(ToClient)
  PROVE  /\ Len(s) \in Nat
         /\ \A i \in 1 .. Len(s) : s[i].type = "receive" =>
              /\ s[i].snapshot.version \in Nat /\ s[i].snapshot \in Snap!Snapshot
              /\ s[i].source \in Players /\ s[i].kind \in Kinds
<1>1. ASSUME NEW i \in 1 .. Len(s), s[i].type = "receive"
      PROVE  /\ s[i].snapshot.version \in Nat /\ s[i].snapshot \in Snap!Snapshot
             /\ s[i].source \in Players /\ s[i].kind \in Kinds
  <2>1. s[i] \in ToClient
    OBVIOUS
  <2>2. s[i] \in Snap!Shown
    BY <1>1, <2>1, MessageTypes
  <2> QED BY <2>2 DEF Snap!Shown, Snap!Snapshot
<1> QED BY <1>1

\* The first answer is older than what comes after it.
LEMMA AnswersTail ==
  ASSUME NEW s \in Seq(ToServer), s # <<>>, NEW q, NEW n \in Nat, InOrder(s, q, n)
  PROVE  /\ InOrder(Tail(s), q, n)
         /\ Head(s).type = "receive" =>
              /\ Head(s).snapshot.owner = q /\ Head(s).snapshot.version <= n
              /\ FromOn(Tail(s), Head(s).snapshot.version, Head(s).kind)
         /\ \A l \in Nat, k \in Kinds : FromOn(s, l, k) => FromOn(Tail(s), l, k)
<1>1. /\ Len(s) \in Nat /\ Len(s) > 0 /\ Head(s) = s[1] /\ Len(Tail(s)) = Len(s) - 1
      /\ \A i \in 1 .. Len(Tail(s)) : Tail(s)[i] = s[i + 1]
  BY QueueTypes
<1> DEFINE t == Tail(s)
<1> HIDE DEF t
<1>2. Len(t) \in Nat /\ \A i \in 1 .. Len(t) : i + 1 \in 1 .. Len(s) /\ t[i] = s[i + 1]
  BY <1>1 DEF t
<1>3. InOrder(t, q, n)
  <2>1. ASSUME NEW i \in 1 .. Len(t), t[i].type = "receive"
        PROVE  /\ t[i].snapshot.owner = q /\ t[i].snapshot.version <= n
               /\ \A j \in i .. Len(t) : t[j].type = "receive" /\ t[j].kind = t[i].kind =>
                    t[i].snapshot.version <= t[j].snapshot.version
    <3>1. /\ t[i].snapshot.owner = q /\ t[i].snapshot.version <= n
          /\ \A j \in i + 1 .. Len(s) : s[j].type = "receive" /\ s[j].kind = t[i].kind =>
               t[i].snapshot.version <= s[j].snapshot.version
      BY <1>2, <2>1 DEF InOrder
    <3>2. \A j \in i .. Len(t) : j \in 1 .. Len(t) /\ j + 1 \in i + 1 .. Len(s)
      BY <1>2
    <3> QED BY <1>2, <3>1, <3>2
  <2> QED BY <2>1 DEF InOrder
<1>4. ASSUME s[1].type = "receive"
      PROVE  /\ s[1].snapshot.owner = q /\ s[1].snapshot.version <= n
             /\ FromOn(t, s[1].snapshot.version, s[1].kind)
  <2>1. 1 \in 1 .. Len(s) /\ \A i \in 1 .. Len(t) : i + 1 \in 1 .. Len(s)
    BY <1>1, <1>2
  <2> QED BY <1>2, <1>4, <2>1 DEF InOrder, FromOn
<1>5. \A l \in Nat, k \in Kinds : FromOn(s, l, k) => FromOn(t, l, k)
  BY <1>2 DEF FromOn
<1> QED BY <1>1, <1>3, <1>4, <1>5 DEF t

\* The answers stay in order when their player plays on.
LEMMA AnswersMore ==
  ASSUME NEW s \in Seq(ToServer), NEW q, NEW n \in Nat, NEW m \in Nat, n <= m, InOrder(s, q, n)
  PROVE  InOrder(s, q, m)
BY ServerQueue DEF InOrder

\* the next message of q, a request or an answer with what q has
OwnNext(m, q, n) ==
  \/ m.type = "get"
  \/ m.type = "receive" /\ m.snapshot.owner = q /\ m.snapshot.version = n

\* The next answer goes to the end of the line.
LEMMA AnswersAppend ==
  ASSUME NEW s \in Seq(ToServer), NEW q, NEW n \in Nat, InOrder(s, q, n),
         NEW m \in ToServer, OwnNext(m, q, n)
  PROVE  /\ InOrder(Append(s, m), q, n)
         /\ \A l \in Nat, k \in Kinds : l <= n /\ FromOn(s, l, k) => FromOn(Append(s, m), l, k)
<1> DEFINE t == Append(s, m)
<1>1. /\ Len(s) \in Nat /\ Len(t) = Len(s) + 1 /\ t[Len(s) + 1] = m
      /\ \A i \in 1 .. Len(s) : t[i] = s[i]
  BY QueueTypes
<1> HIDE DEF t
<1>2. \A i \in 1 .. Len(t) :
        \/ i \in 1 .. Len(s) /\ t[i] = s[i]
        \/ i = Len(t) /\ t[i] = m
  BY <1>1
<1>3. \A i \in 1 .. Len(s) : s[i].type = "receive" => s[i].snapshot.version \in Nat
  BY ServerQueue
<1>4. InOrder(t, q, n)
  <2>1. ASSUME NEW i \in 1 .. Len(t), t[i].type = "receive"
        PROVE  t[i].snapshot.owner = q /\ t[i].snapshot.version <= n
    BY <1>1, <1>2, <2>1 DEF InOrder, OwnNext
  <2>2. ASSUME NEW i \in 1 .. Len(t), t[i].type = "receive", NEW j \in i .. Len(t),
               t[j].type = "receive", t[j].kind = t[i].kind
        PROVE  t[i].snapshot.version <= t[j].snapshot.version
    <3>1. CASE j \in 1 .. Len(s)
      <4>1. i \in 1 .. Len(s) /\ j \in i .. Len(s)
        BY <1>1, <3>1
      <4> QED BY <1>1, <2>2, <3>1, <4>1 DEF InOrder
    <3>2. CASE j = Len(t)
      <4>1. t[j].snapshot.version = n
        BY <1>1, <2>2, <3>2 DEF OwnNext
      <4> QED BY <2>1, <2>2, <4>1
    <3> QED BY <1>1, <1>2, <3>1, <3>2
  <2> QED BY <2>1, <2>2 DEF InOrder
<1>5. ASSUME NEW l \in Nat, NEW k \in Kinds, l <= n, FromOn(s, l, k) PROVE FromOn(t, l, k)
  BY <1>1, <1>2, <1>5 DEF FromOn, OwnNext
<1> QED BY <1>4, <1>5 DEF t

\* The first snapshot shown is older than those after it.
LEMMA ShowsTail ==
  ASSUME NEW s \in Seq(ToClient), s # <<>>, Rising(s)
  PROVE  /\ Rising(Tail(s))
         /\ \A n \in Nat, q \in Players, k \in Kinds :
              ShownFrom(s, n, q, k) => ShownFrom(Tail(s), n, q, k)
         /\ Head(s).type = "receive" =>
              /\ Head(s).snapshot.owner = Head(s).source
              /\ ShownFrom(Tail(s), Head(s).snapshot.version, Head(s).source, Head(s).kind)
<1>1. /\ Len(s) \in Nat /\ Len(s) > 0 /\ Head(s) = s[1] /\ Len(Tail(s)) = Len(s) - 1
      /\ \A i \in 1 .. Len(Tail(s)) : Tail(s)[i] = s[i + 1]
  BY QueueTypes
<1> DEFINE t == Tail(s)
<1> HIDE DEF t
<1>2. Len(t) \in Nat /\ \A i \in 1 .. Len(t) : i + 1 \in 1 .. Len(s) /\ t[i] = s[i + 1]
  BY <1>1 DEF t
<1>3. Rising(t)
  <2>1. ASSUME NEW i \in 1 .. Len(t), t[i].type = "receive"
        PROVE  /\ t[i].snapshot.owner = t[i].source
               /\ \A j \in i .. Len(t) :
                    t[j].type = "receive" /\ t[j].source = t[i].source /\ t[j].kind = t[i].kind =>
                      t[i].snapshot.version <= t[j].snapshot.version
    <3>1. /\ t[i].snapshot.owner = t[i].source
          /\ \A j \in i + 1 .. Len(s) :
               s[j].type = "receive" /\ s[j].source = t[i].source /\ s[j].kind = t[i].kind =>
                 t[i].snapshot.version <= s[j].snapshot.version
      BY <1>2, <2>1 DEF Rising
    <3>2. \A j \in i .. Len(t) : j \in 1 .. Len(t) /\ j + 1 \in i + 1 .. Len(s)
      BY <1>2
    <3> QED BY <1>2, <3>1, <3>2
  <2> QED BY <2>1 DEF Rising
<1>4. ASSUME s[1].type = "receive"
      PROVE  /\ s[1].snapshot.owner = s[1].source
             /\ ShownFrom(t, s[1].snapshot.version, s[1].source, s[1].kind)
  <2>1. 1 \in 1 .. Len(s) /\ \A i \in 1 .. Len(t) : i + 1 \in 1 .. Len(s)
    BY <1>1, <1>2
  <2> QED BY <1>2, <1>4, <2>1 DEF Rising, ShownFrom
<1>5. \A n \in Nat, q \in Players, k \in Kinds : ShownFrom(s, n, q, k) => ShownFrom(t, n, q, k)
  BY <1>2 DEF ShownFrom
<1> QED BY <1>1, <1>3, <1>4, <1>5 DEF t

\* a snapshot shown next is its source's and no older than those before
LEMMA ShowsAppend ==
  ASSUME NEW s \in Seq(ToClient), Rising(s), NEW m \in ToClient,
         m.type = "receive" =>
           /\ m.snapshot.owner = m.source
           /\ \A i \in 1 .. Len(s) :
                s[i].type = "receive" /\ s[i].source = m.source /\ s[i].kind = m.kind =>
                  s[i].snapshot.version <= m.snapshot.version
  PROVE  /\ Rising(Append(s, m))
         /\ \A n \in Nat, q \in Players, k \in Kinds :
              /\ ShownFrom(s, n, q, k)
              /\ m.type = "receive" /\ m.source = q /\ m.kind = k => n <= m.snapshot.version
              => ShownFrom(Append(s, m), n, q, k)
<1> DEFINE t == Append(s, m)
<1>1. /\ Len(s) \in Nat /\ Len(t) = Len(s) + 1 /\ t[Len(s) + 1] = m /\ t \in Seq(ToClient)
      /\ \A i \in 1 .. Len(s) : t[i] = s[i]
  BY QueueTypes
<1> HIDE DEF t
<1>2. \A i \in 1 .. Len(t) :
        \/ i \in 1 .. Len(s) /\ t[i] = s[i]
        \/ i = Len(t) /\ t[i] = m
  BY <1>1
<1>3. \A i \in 1 .. Len(t) : t[i].type = "receive" => t[i].snapshot.version \in Nat
  BY <1>1, ClientQueue
<1>4. Rising(t)
  <2>1. ASSUME NEW i \in 1 .. Len(t), t[i].type = "receive" PROVE t[i].snapshot.owner = t[i].source
    BY <1>1, <1>2, <2>1 DEF Rising
  <2>2. ASSUME NEW i \in 1 .. Len(t), t[i].type = "receive", NEW j \in i .. Len(t),
               t[j].type = "receive", t[j].source = t[i].source, t[j].kind = t[i].kind
        PROVE  t[i].snapshot.version <= t[j].snapshot.version
    <3>1. CASE j \in 1 .. Len(s)
      <4>1. i \in 1 .. Len(s) /\ j \in i .. Len(s)
        BY <1>1, <3>1
      <4> QED BY <1>1, <2>2, <3>1, <4>1 DEF Rising
    <3>2. CASE j = Len(t) /\ i # Len(t)
      <4>1. i \in 1 .. Len(s) /\ t[j] = m /\ t[i] = s[i]
        BY <1>1, <1>2, <3>2
      <4> QED BY <2>2, <4>1
    <3>3. CASE j = Len(t) /\ i = Len(t)
      BY <1>3, <2>2, <3>3
    <3> QED BY <1>1, <1>2, <3>1, <3>2, <3>3
  <2> QED BY <2>1, <2>2 DEF Rising
<1>5. ASSUME NEW n \in Nat, NEW q \in Players, NEW k \in Kinds, ShownFrom(s, n, q, k),
             m.type = "receive" /\ m.source = q /\ m.kind = k => n <= m.snapshot.version
      PROVE  ShownFrom(t, n, q, k)
  BY <1>1, <1>2, <1>5 DEF ShownFrom
<1> QED BY <1>4, <1>5 DEF t

------------------------------------------------------------------------------
(* What a step does to a player's messages and snapshots *)

UpMoves ==
  \A q \in Players :
    /\ client[q].version <= client'[q].version
    /\ \/ up'[q] = up[q] \/ up'[q] = <<>>
       \/ up[q] # <<>> /\ up'[q] = Tail(up[q])
       \/ \E m \in ToServer : OwnNext(m, q, client[q].version) /\ up'[q] = Append(up[q], m)

CacheMoves ==
  \A q \in Players, k \in Kinds :
    \/ lobby'.cache[q][k] = lobby.cache[q][k] \/ lobby'.cache[q][k] = None
    \/ /\ up[q] # <<>> /\ up'[q] = Tail(up[q])
       /\ Head(up[q]).type = "receive" /\ Head(up[q]).kind = k
       /\ lobby'.cache[q][k] = Head(up[q]).snapshot

DownMoves ==
  \A p \in Players :
    \/ down'[p] = down[p] \/ down'[p] = <<>>
    \/ down[p] # <<>> /\ down'[p] = Tail(down[p])
    \/ \E m \in ToClient : /\ down'[p] = Append(down[p], m)
                           /\ m.type = "receive" => lobby'.cache[m.source][m.kind] = m.snapshot

ShownMoves ==
  \A p, q \in Players, k \in Kinds :
    \/ client'[p].shown[q][k] = client[p].shown[q][k]
    \/ /\ down[p] # <<>> /\ down'[p] = Tail(down[p])
       /\ Head(down[p]).type = "receive" /\ Head(down[p]).source = q /\ Head(down[p]).kind = k
       /\ client'[p].shown[q][k] = Head(down[p]).snapshot

StepMoves == UpMoves /\ CacheMoves /\ DownMoves /\ ShownMoves

\* The parts of TypeOK that the proofs below use.
LEMMA Typed ==
  ASSUME Snap!TypeOK
  PROVE  /\ up \in [Players -> Seq(ToServer)] /\ down \in [Players -> Seq(ToClient)]
         /\ \A q \in Players : client[q].version \in Nat
         /\ \A p, q \in Players, k \in Kinds :
              client[p].shown[q][k] \in Kept /\ lobby.cache[q][k] \in Kept
BY DEF Snap!TypeOK, Kept, ToServer, ToClient

\* A client answers with what it has.
LEMMA AnsweredMoves ==
  ASSUME Snap!TypeOK, NEW p \in Players, NEW k \in Kinds, NEW r \in Players \cup {None},
         Snap!Answered(p, k, r), \A q \in Players : client'[q].version = client[q].version
  PROVE  UpMoves
<1>1. PICK claimed \in {p, r} \ {None} : up' = [up EXCEPT ![p] =
        Append(up[p], [type |-> "receive", kind |-> k, claimed |-> claimed, requester |-> r,
                       snapshot |-> [owner |-> p, version |-> client[p].version]])]
  BY DEF Snap!Answered
<1>2. claimed \in Players /\ \A q \in Players : client[q].version \in Nat
  BY Typed
<1> DEFINE m == [type |-> "receive", kind |-> k, claimed |-> claimed, requester |-> r,
                 snapshot |-> [owner |-> p, version |-> client[p].version]]
<1>3. m \in ToServer
  BY <1>2 DEF ToServer, Snap!Answer, Snap!Snapshot
<1>4. OwnNext(m, p, client[p].version)
  BY DEF OwnNext
<1>5. up' = [up EXCEPT ![p] = Append(up[p], m)]
  BY <1>1
<1> HIDE DEF m
<1>6. ASSUME NEW q \in Players PROVE client[q].version <= client'[q].version
  BY <1>2
<1>7. up'[p] = Append(up[p], m) /\ \A q \in Players \ {p} : up'[q] = up[q]
  BY <1>5, Typed
<1>8. ASSUME NEW q \in Players
      PROVE  \/ up'[q] = up[q]
             \/ \E x \in ToServer : OwnNext(x, q, client[q].version) /\ up'[q] = Append(up[q], x)
  <2>1. CASE q = p
    BY <1>3, <1>4, <1>7, <2>1
  <2>2. CASE q # p
    BY <1>7, <2>2
  <2> QED BY <2>1, <2>2
<1> QED BY <1>6, <1>8 DEF UpMoves

\* Every step moves a player's messages and snapshots along the line.
LEMMA NextMoves ==
  ASSUME Snap!TypeOK, [Snap!Next]_Snap!vars
  PROVE  StepMoves
<1>0. /\ up \in [Players -> Seq(ToServer)] /\ down \in [Players -> Seq(ToClient)]
      /\ \A q \in Players : client[q].version \in Nat
      /\ \A q \in Players : client[q].version <= client[q].version
      /\ lobby.seated \subseteq Players
  <2>1. lobby.seated \subseteq Players
    BY DEF Snap!TypeOK
  <2> QED BY <2>1, Typed
<1>u. (\A q \in Players : up'[q] = up[q] /\ client'[q].version = client[q].version) => UpMoves
  BY <1>0 DEF UpMoves
<1>c. lobby'.cache = lobby.cache => CacheMoves
  BY DEF CacheMoves
<1>d. down' = down => DownMoves
  BY DEF DownMoves
<1>s. client' = client => ShownMoves
  BY DEF ShownMoves
<1>1. ASSUME NEW p \in Players, Snap!Ask(p) PROVE StepMoves
  <2>1. PICK k \in Kinds, q \in (Players \ {p}) \cup {None}, fresh \in BOOLEAN :
          up' = [up EXCEPT ![p] =
            Append(up[p], [type |-> "get", kind |-> k, target |-> q, fresh |-> fresh])]
    BY <1>1 DEF Snap!Ask
  <2> DEFINE m == [type |-> "get", kind |-> k, target |-> q, fresh |-> fresh]
  <2>2. m \in ToServer /\ m.type = "get"
    BY DEF ToServer, Snap!Request
  <2>3. up' = [up EXCEPT ![p] = Append(up[p], m)]
    BY <2>1
  <2>4. OwnNext(m, p, client[p].version)
    BY <2>2 DEF OwnNext
  <2>5. UNCHANGED <<lobby, client, down>>
    BY <1>1 DEF Snap!Ask
  <2> HIDE DEF m
  <2>6. UpMoves
    BY <1>0, <2>2, <2>3, <2>4, <2>5 DEF UpMoves
  <2> QED BY <1>c, <1>d, <1>s, <2>5, <2>6 DEF StepMoves
<1>2. ASSUME NEW p \in Players, Snap!Offer(p) PROVE StepMoves
  <2>1. UNCHANGED <<lobby, client, down>> /\ \E k \in Kinds : Snap!Answered(p, k, None)
    BY <1>2 DEF Snap!Offer
  <2>2. UpMoves
    BY <2>1, AnsweredMoves
  <2> QED BY <1>c, <1>d, <1>s, <2>1, <2>2 DEF StepMoves
<1>3. ASSUME NEW p \in Players, Snap!PlayOn(p) PROVE StepMoves
  <2>1. UNCHANGED <<lobby, up, down>> /\ client' = [client EXCEPT ![p].version = client[p].version + 1]
    BY <1>3 DEF Snap!PlayOn
  <2>2. client \in [Players -> [version : Nat,
                    shown : [Players -> [Kinds -> Snap!Snapshot \cup {None}]]]]
    BY DEF Snap!TypeOK
  <2>3. \A q \in Players : client[q].version <= client'[q].version /\ client'[q].shown = client[q].shown
    BY <1>0, <2>1, <2>2
  <2>4. UpMoves
    BY <2>1, <2>3 DEF UpMoves
  <2>5. ShownMoves
    BY <2>3 DEF ShownMoves
  <2> QED BY <1>c, <1>d, <2>1, <2>4, <2>5 DEF StepMoves
<1>4. ASSUME NEW p \in Players, Snap!ClientReceives(p) PROVE StepMoves
  <2> DEFINE msg == Head(down[p])
  <2>1. down[p] # <<>> /\ down' = [down EXCEPT ![p] = Tail(down[p])] /\ UNCHANGED lobby
    BY <1>4 DEF Snap!ClientReceives
  <2>2. msg \in ToClient
    BY <1>0, <2>1, QueueTypes
  <2>3. DownMoves
    BY <1>0, <2>1 DEF DownMoves
  <2>4. CASE msg.type = "get" /\ Snap!Answered(p, msg.kind, msg.requester) /\ UNCHANGED client
    <3>1. msg.kind \in Kinds /\ msg.requester \in Players
      BY <2>2, <2>4, MessageTypes DEF Snap!Relayed
    <3>2. UpMoves
      BY <2>4, <3>1, AnsweredMoves
    <3> QED BY <1>c, <1>s, <2>1, <2>3, <2>4, <3>2 DEF StepMoves
  <2>5. CASE /\ msg.type = "receive" /\ UNCHANGED up
             /\ client' = [client EXCEPT ![p].shown[msg.source][msg.kind] = msg.snapshot]
    <3>1. client \in [Players -> [version : Nat,
                      shown : [Players -> [Kinds -> Snap!Snapshot \cup {None}]]]]
      BY DEF Snap!TypeOK
    <3>2. msg.source \in Players /\ msg.kind \in Kinds
      BY <2>2, <2>5, MessageTypes DEF Snap!Shown
    <3>3. \A q \in Players : client'[q].version = client[q].version
      BY <2>5, <3>1
    <3>4. UpMoves
      BY <1>u, <2>5, <3>3
    <3>5. ASSUME NEW x \in Players, NEW q \in Players, NEW k \in Kinds
          PROVE  \/ client'[x].shown[q][k] = client[x].shown[q][k]
                 \/ x = p /\ msg.source = q /\ msg.kind = k /\ client'[x].shown[q][k] = msg.snapshot
      <4> HIDE DEF msg
      <4> QED BY <2>5, <3>1, <3>2
    <3>6. ShownMoves
      BY <1>0, <2>1, <2>5, <3>5 DEF ShownMoves
    <3> QED BY <1>c, <2>1, <2>3, <3>4, <3>6 DEF StepMoves
  <2> QED BY <1>4, <2>4, <2>5 DEF Snap!ClientReceives
<1>5. ASSUME NEW p \in Players, Snap!ServerReceives(p) PROVE StepMoves
  <2> DEFINE msg == Head(up[p])
  <2>1. up[p] # <<>> /\ up' = [up EXCEPT ![p] = Tail(up[p])] /\ UNCHANGED client
    BY <1>5 DEF Snap!ServerReceives
  <2>2. msg \in ToServer
    BY <1>0, <2>1, QueueTypes
  <2>3. UpMoves
    BY <1>0, <2>1 DEF UpMoves
  <2>s. ASSUME NEW s \in SUBSET Players, NEW m \in ToClient, down' = Snap!Sent(s, m),
               m.type = "receive" => lobby'.cache[m.source][m.kind] = m.snapshot
        PROVE  DownMoves
    BY <2>s DEF Snap!Sent, DownMoves
  <2>4. CASE UNCHANGED <<lobby, down>>
    BY <1>c, <1>d, <1>s, <2>1, <2>3, <2>4 DEF StepMoves
  <2>5. CASE p \in lobby.seated /\ Snap!HandleRequest(p, msg)
    <3>1. msg.kind \in Kinds /\ msg.target \in Players \cup {None} /\ UNCHANGED lobby
      BY <2>2, <2>5, MessageTypes DEF Snap!Request, Snap!HandleRequest
    <3> DEFINE relayed == [type |-> "get", kind |-> msg.kind, requester |-> p]
    <3>2. relayed \in ToClient /\ relayed.type = "get"
      BY <3>1 DEF ToClient, Snap!Relayed
    <3>3. CASE msg.target = None
      <4>1. Snap!Enemies(p) \in SUBSET Players
        BY <1>0 DEF Snap!Enemies
      <4>2. down' = Snap!Sent(Snap!Enemies(p), relayed)
        BY <2>5, <3>3 DEF Snap!HandleRequest
      <4> HIDE DEF relayed
      <4>3. DownMoves
        BY <2>s, <3>2, <4>1, <4>2
      <4> QED BY <1>c, <1>s, <2>1, <2>3, <3>1, <4>3 DEF StepMoves
    <3>4. CASE msg.target # None
      <4> DEFINE s == lobby.cache[msg.target][msg.kind]
                 shown == Snap!Show(p, msg.kind, msg.target, s)
                 asked == {msg.target} \cap lobby.seated
      <4>1. s \in Kept /\ asked \in SUBSET Players /\ msg.target \in Players
        BY <1>0, <3>1, <3>4, Typed
      <4>2. down' = Snap!RequestFromTarget(p, msg)
        BY <2>5, <3>4 DEF Snap!HandleRequest
      <4>3. CASE s = None
        <5>1. down' = Snap!Sent(asked, relayed)
          BY <4>2, <4>3 DEF Snap!RequestFromTarget
        <5> HIDE DEF relayed, asked
        <5>2. DownMoves
          BY <2>s, <3>2, <4>1, <5>1
        <5> QED BY <1>c, <1>s, <2>1, <2>3, <3>1, <5>2 DEF StepMoves
      <4>4. CASE s # None
        <5>1. shown \in ToClient
          BY <3>1, <4>1, <4>4 DEF ToClient, Snap!Shown, Snap!Show, Kept
        <5>2. lobby'.cache[shown.source][shown.kind] = shown.snapshot
          BY <3>1 DEF Snap!Show
        <5>3. CASE ~msg.fresh
          <6>1. down' = Snap!Sent({p}, shown)
            BY <4>2, <4>4, <5>3 DEF Snap!RequestFromTarget
          <6> HIDE DEF shown
          <6>2. DownMoves
            BY <2>s, <5>1, <5>2, <6>1
          <6> QED BY <1>c, <1>s, <2>1, <2>3, <3>1, <6>2 DEF StepMoves
        <5>4. CASE msg.fresh
          <6>1. down' = [q \in Players |->
                  IF q = p THEN Append(down[q], shown)
                  ELSE IF q \in asked THEN Append(down[q], relayed) ELSE down[q]]
            BY <4>2, <4>4, <5>4 DEF Snap!RequestFromTarget
          <6> HIDE DEF s, shown, relayed, asked
          <6>2. DownMoves
            BY <3>2, <5>1, <5>2, <6>1 DEF DownMoves
          <6> QED BY <1>c, <1>s, <2>1, <2>3, <3>1, <6>2 DEF StepMoves
        <5> QED BY <5>3, <5>4
      <4> QED BY <4>3, <4>4
    <3> QED BY <3>3, <3>4
  <2>6. CASE p \in lobby.seated /\ Snap!HandleAnswer(p, msg)
    <3> DEFINE shown == Snap!Show(p, msg.kind, p, msg.snapshot)
    <3>1. /\ msg.kind \in Kinds /\ msg.snapshot \in Snap!Snapshot /\ msg.type = "receive"
          /\ msg.requester \in Players \cup {None}
      BY <2>2, <2>6, MessageTypes DEF Snap!Answer, Snap!HandleAnswer
    <3>2. lobby' = [lobby EXCEPT !.cache = [lobby.cache EXCEPT ![p][msg.kind] = msg.snapshot]]
      BY <2>6 DEF Snap!HandleAnswer, Snap!Stored, Snap!Source
    <3>3. \A q \in Players, k \in Kinds :
            lobby'.cache[q][k] = IF q = p /\ k = msg.kind THEN msg.snapshot ELSE lobby.cache[q][k]
      <4>1. /\ lobby \in [inGame : BOOLEAN, seated : SUBSET Players, away : SUBSET Players,
                          inMatch : SUBSET Players,
                          cache : [Players -> [Kinds -> Snap!Snapshot \cup {None}]]]
        BY DEF Snap!TypeOK
      <4> HIDE DEF msg
      <4> QED BY <3>1, <3>2, <4>1
    <3>4. CacheMoves
      BY <1>0, <2>1, <3>1, <3>3 DEF CacheMoves
    <3>5. shown \in ToClient /\ lobby'.cache[shown.source][shown.kind] = shown.snapshot
      BY <3>1, <3>3 DEF ToClient, Snap!Shown, Snap!Show
    <3>6. \/ down' = Snap!Sent({msg.requester} \cap lobby.seated, shown)
          \/ down' = Snap!Sent(lobby.seated \ {p}, shown)
      BY <2>6 DEF Snap!HandleAnswer, Snap!Source
    <3>7. /\ {msg.requester} \cap lobby.seated \in SUBSET Players
          /\ lobby.seated \ {p} \in SUBSET Players
      BY <1>0
    <3> HIDE DEF shown
    <3>8. DownMoves
      BY <2>s, <3>5, <3>6, <3>7
    <3> QED BY <1>s, <2>1, <2>3, <3>4, <3>8 DEF StepMoves
  <2> QED BY <1>5, <2>4, <2>5, <2>6 DEF Snap!ServerReceives
<1>6. ASSUME NEW p \in Players, Snap!Drop(p) PROVE StepMoves
  <2>1. /\ lobby' = [lobby EXCEPT !.seated = lobby.seated \ {p}, !.away = lobby.away \cup {p}]
        /\ up' = [up EXCEPT ![p] = <<>>] /\ down' = [down EXCEPT ![p] = <<>>] /\ UNCHANGED client
    BY <1>6 DEF Snap!Drop, Snap!LeavesSeat
  <2>2. lobby'.cache = lobby.cache
    BY <2>1 DEF Snap!TypeOK
  <2>3. UpMoves
    BY <1>0, <2>1 DEF UpMoves
  <2>4. DownMoves
    BY <1>0, <2>1 DEF DownMoves
  <2> QED BY <1>c, <1>s, <2>1, <2>2, <2>3, <2>4 DEF StepMoves
<1>7. ASSUME NEW p \in Players, Snap!Leave(p) \/ Snap!Return(p) PROVE StepMoves
  <2>1. UNCHANGED <<client, up, down>>
    BY <1>7 DEF Snap!Leave, Snap!LeavesSeat, Snap!Return
  <2>2. lobby'.cache = lobby.cache
    BY <1>7 DEF Snap!Leave, Snap!Return, Snap!TypeOK
  <2> QED BY <1>u, <1>c, <1>d, <1>s, <2>1, <2>2 DEF StepMoves
<1>8. ASSUME Snap!StartGame \/ Snap!FinishMatch PROVE StepMoves
  <2>1. UNCHANGED <<client, up, down>>
    BY <1>8 DEF Snap!StartGame, Snap!FinishMatch
  <2>2. lobby'.cache = lobby.cache \/ lobby'.cache = Snap!NoSnapshots
    BY <1>8 DEF Snap!StartGame, Snap!FinishMatch, Snap!TypeOK
  <2>3. CacheMoves
    BY <2>2 DEF CacheMoves, Snap!NoSnapshots
  <2> QED BY <1>u, <1>d, <1>s, <2>1, <2>3 DEF StepMoves
<1>9. ASSUME UNCHANGED Snap!vars PROVE StepMoves
  BY <1>9, <1>u, <1>c, <1>d, <1>s DEF Snap!vars, StepMoves
<1> QED BY <1>1, <1>2, <1>3, <1>4, <1>5, <1>6, <1>7, <1>8, <1>9 DEF Snap!Next

------------------------------------------------------------------------------
(* Snapshots get newer *)

\* ToCome and Past after a step
LaterToCome(n, q, k) == n <= client'[q].version /\ FromOn(up'[q], n, k)
LaterPast(n, q, k) ==
  LaterToCome(n, q, k) /\ (lobby'.cache[q][k] # None => n <= lobby'.cache[q][k].version)

\* What a player will send stays in order, and nothing falls behind.
LEMMA AnswersStay ==
  ASSUME Snap!TypeOK, Snap!TypeOK', UpMoves, AnswersInOrder
  PROVE  /\ AnswersInOrder'
         /\ \A n \in Nat, q \in Players, k \in Kinds : ToCome(n, q, k) => LaterToCome(n, q, k)
<1> SUFFICES ASSUME NEW q \in Players
             PROVE  /\ InOrder(up'[q], q, client'[q].version)
                    /\ \A n \in Nat, k \in Kinds :
                         n <= client[q].version /\ FromOn(up[q], n, k) =>
                           n <= client'[q].version /\ FromOn(up'[q], n, k)
  BY DEF AnswersInOrder, ToCome, LaterToCome
<1> DEFINE s == up[q]
           t == up'[q]
           v == client[q].version
           w == client'[q].version
<1>1. s \in Seq(ToServer) /\ t \in Seq(ToServer) /\ v \in Nat /\ w \in Nat /\ v <= w
  <2>1. (up \in [Players -> Seq(ToServer)])' /\ (\A x \in Players : client[x].version \in Nat)'
    BY Typed DEF Snap!TypeOK, ToServer
  <2> QED BY <2>1, Typed DEF UpMoves
<1>2. InOrder(s, q, v)
  BY DEF AnswersInOrder
<1>3. \/ t = s \/ t = <<>>
      \/ s # <<>> /\ t = Tail(s)
      \/ \E m \in ToServer : OwnNext(m, q, v) /\ t = Append(s, m)
  BY DEF UpMoves
<1> HIDE DEF s, t, v, w
<1> SUFFICES InOrder(t, q, w) /\ \A n \in Nat, k \in Kinds :
                                    n <= v /\ FromOn(s, n, k) => n <= w /\ FromOn(t, n, k)
  BY DEF s, t, v, w
<1>4. \A n \in Nat : n <= v => n <= w
  BY <1>1
<1> SUFFICES InOrder(t, q, v) /\ \A n \in Nat, k \in Kinds : n <= v /\ FromOn(s, n, k) => FromOn(t, n, k)
  BY <1>1, <1>4, AnswersMore
<1>5. CASE t = s
  BY <1>2, <1>5
<1>6. CASE t = <<>>
  BY <1>6 DEF InOrder, FromOn
<1>7. CASE s # <<>> /\ t = Tail(s)
  BY <1>1, <1>2, <1>7, AnswersTail
<1>8. ASSUME NEW m \in ToServer, OwnNext(m, q, v), t = Append(s, m)
      PROVE  InOrder(t, q, v) /\ \A n \in Nat, k \in Kinds : n <= v /\ FromOn(s, n, k) => FromOn(t, n, k)
  BY <1>1, <1>2, <1>8, AnswersAppend
<1> QED BY <1>3, <1>5, <1>6, <1>7, <1>8

\* What the server keeps is the player's own, and replaced by newer ones.
LEMMA StoredStays ==
  ASSUME Snap!TypeOK, Snap!TypeOK', UpMoves, CacheMoves, AnswersInOrder, StoredIsPast
  PROVE  /\ StoredIsPast'
         /\ \A n \in Nat, q \in Players, k \in Kinds : Past(n, q, k) => LaterPast(n, q, k)
<1>1. \A n \in Nat, q \in Players, k \in Kinds : ToCome(n, q, k) => LaterToCome(n, q, k)
  BY AnswersStay
<1>2. ASSUME NEW q \in Players, NEW k \in Kinds,
             up[q] # <<>>, up'[q] = Tail(up[q]),
             Head(up[q]).type = "receive", Head(up[q]).kind = k,
             lobby'.cache[q][k] = Head(up[q]).snapshot
      PROVE  /\ lobby'.cache[q][k].owner = q /\ LaterToCome(lobby'.cache[q][k].version, q, k)
             /\ \A n \in Nat : ToCome(n, q, k) => n <= lobby'.cache[q][k].version
  <2> DEFINE s == up[q]
             n == Head(s).snapshot.version
  <2>1. s \in Seq(ToServer) /\ InOrder(s, q, client[q].version) /\ client[q].version \in Nat
    BY Typed DEF AnswersInOrder
  <2>2. Len(s) \in Nat /\ Len(s) > 0 /\ Head(s) = s[1]
    <3> HIDE DEF s
    <3> QED BY <1>2, <2>1, QueueTypes DEF s
  <2>3. n \in Nat
    <3>1. 1 \in 1 .. Len(s) /\ s[1].type = "receive"
      BY <1>2, <2>2
    <3> HIDE DEF s
    <3>2. s[1].snapshot.version \in Nat
      BY <2>1, <3>1, ServerQueue
    <3> QED BY <2>2, <3>2
  <2>4. Head(s).snapshot.owner = q /\ n <= client[q].version /\ FromOn(Tail(s), n, k)
    BY <1>2, <2>1, AnswersTail
  <2>5. n <= client'[q].version
    <3>1. client'[q].version \in Nat
      BY DEF Snap!TypeOK
    <3> QED BY <2>1, <2>3, <2>4, <3>1 DEF UpMoves
  <2>6. \A l \in Nat : FromOn(s, l, k) => l <= n
    <3>1. 1 \in 1 .. Len(s)
      BY <2>2
    <3> QED BY <1>2, <2>2, <3>1 DEF FromOn
  <2> QED BY <1>2, <2>4, <2>5, <2>6 DEF ToCome, LaterToCome
<1>3. \A q \in Players, k \in Kinds :
        \/ lobby'.cache[q][k] = lobby.cache[q][k] \/ lobby'.cache[q][k] = None
        \/ /\ lobby'.cache[q][k].owner = q /\ LaterToCome(lobby'.cache[q][k].version, q, k)
           /\ \A n \in Nat : ToCome(n, q, k) => n <= lobby'.cache[q][k].version
  BY <1>2 DEF CacheMoves
<1>4. ASSUME NEW q \in Players, NEW k \in Kinds, lobby'.cache[q][k] # None
      PROVE  lobby'.cache[q][k].owner = q /\ LaterToCome(lobby'.cache[q][k].version, q, k)
  <2>1. CASE lobby'.cache[q][k] = lobby.cache[q][k]
    <3>1. lobby.cache[q][k].owner = q /\ ToCome(lobby.cache[q][k].version, q, k)
      BY <1>4, <2>1 DEF StoredIsPast
    <3>2. lobby.cache[q][k].version \in Nat
      BY <1>4, <2>1, Typed DEF Kept, Snap!Snapshot
    <3> QED BY <1>1, <2>1, <3>1, <3>2
  <2> QED BY <1>3, <1>4, <2>1
<1>5. ASSUME NEW n \in Nat, NEW q \in Players, NEW k \in Kinds, Past(n, q, k)
      PROVE  LaterPast(n, q, k)
  <2>1. ToCome(n, q, k) /\ LaterToCome(n, q, k)
    BY <1>1, <1>5 DEF Past
  <2>2. lobby'.cache[q][k] # None => n <= lobby'.cache[q][k].version
    BY <1>3, <1>5, <2>1 DEF Past
  <2> QED BY <2>1, <2>2 DEF LaterPast
<1> QED BY <1>4, <1>5 DEF StoredIsPast, ToCome, LaterToCome

\* What is shown, and on the way to be shown, is the source's own and in order.
LEMMA ShowsStay ==
  ASSUME None \notin Snap!Snapshot, SnapInv, Snap!TypeOK', StepMoves
  PROVE  ShowsInOrder' /\ ShownIsPast'
<1>1. StoredIsPast' /\ \A n \in Nat, q \in Players, k \in Kinds : Past(n, q, k) => LaterPast(n, q, k)
  BY StoredStays DEF SnapInv, StepMoves
<1>2. /\ down \in [Players -> Seq(ToClient)]
      /\ \A p, q \in Players, k \in Kinds : client[p].shown[q][k] \in Kept
  BY Typed DEF SnapInv
\* a snapshot the server shows is past, and none before it is newer
<1>3. ASSUME NEW p \in Players, NEW m \in ToClient, m.type = "receive",
             lobby'.cache[m.source][m.kind] = m.snapshot
      PROVE  /\ m.snapshot.owner = m.source /\ LaterPast(m.snapshot.version, m.source, m.kind)
             /\ \A n \in Nat : Past(n, m.source, m.kind) => n <= m.snapshot.version
  <2>1. m.source \in Players /\ m.kind \in Kinds /\ m.snapshot \in Snap!Snapshot
    BY <1>3, MessageTypes DEF Snap!Shown
  <2>2. m.snapshot # None /\ m.snapshot.version \in Nat
    BY <2>1 DEF Snap!Snapshot
  <2>3. m.snapshot.owner = m.source /\ LaterToCome(m.snapshot.version, m.source, m.kind)
    BY <1>1, <1>3, <2>1, <2>2 DEF StoredIsPast, ToCome, LaterToCome
  <2>4. m.snapshot.version <= m.snapshot.version
    BY <2>2
  <2>5. LaterPast(m.snapshot.version, m.source, m.kind)
    BY <1>3, <2>3, <2>4 DEF LaterPast
  <2>6. \A n \in Nat : Past(n, m.source, m.kind) => n <= m.snapshot.version
    BY <1>1, <1>3, <2>1, <2>2 DEF LaterPast
  <2> QED BY <2>3, <2>5, <2>6
<1>4. ASSUME NEW p \in Players
      PROVE  /\ Rising(down'[p])
             /\ \A i \in 1 .. Len(down'[p]) : down'[p][i].type = "receive" =>
                  LaterPast(down'[p][i].snapshot.version, down'[p][i].source, down'[p][i].kind)
             /\ \A n \in Nat, q \in Players, k \in Kinds :
                  Past(n, q, k) /\ ShownFrom(down[p], n, q, k) => ShownFrom(down'[p], n, q, k)
  <2> DEFINE s == down[p]
             t == down'[p]
             Pasts(r) == \A i \in 1 .. Len(r) : r[i].type = "receive" =>
                           LaterPast(r[i].snapshot.version, r[i].source, r[i].kind)
  <2>1. s \in Seq(ToClient)
    BY <1>2
  <2>2. Rising(s) /\ \A i \in 1 .. Len(s) : s[i].type = "receive" =>
                        Past(s[i].snapshot.version, s[i].source, s[i].kind)
    BY DEF SnapInv, ShowsInOrder
  <2>3. Pasts(s)
    BY <1>1, <2>1, <2>2, ClientQueue
  <2>4. \/ t = s \/ t = <<>>
        \/ s # <<>> /\ t = Tail(s)
        \/ \E m \in ToClient : /\ t = Append(s, m)
                               /\ m.type = "receive" => lobby'.cache[m.source][m.kind] = m.snapshot
    BY DEF StepMoves, DownMoves
  <2> HIDE DEF s, t
  <2> SUFFICES /\ Rising(t) /\ Pasts(t)
               /\ \A n \in Nat, q \in Players, k \in Kinds :
                    Past(n, q, k) /\ ShownFrom(s, n, q, k) => ShownFrom(t, n, q, k)
    BY DEF s, t
  <2>5. CASE t = s
    BY <2>2, <2>3, <2>5
  <2>6. CASE t = <<>>
    BY <2>6 DEF Rising, ShownFrom
  <2>7. CASE s # <<>> /\ t = Tail(s)
    <3>1. /\ Len(t) \in Nat /\ Len(t) = Len(s) - 1 /\ Len(s) \in Nat
          /\ \A i \in 1 .. Len(t) : t[i] = s[i + 1]
      BY <2>1, <2>7, QueueTypes
    <3>2. \A i \in 1 .. Len(t) : i + 1 \in 1 .. Len(s)
      BY <3>1
    <3>3. Pasts(t)
      BY <2>3, <3>1, <3>2
    <3> QED BY <2>1, <2>2, <2>7, <3>3, ShowsTail
  <2>8. ASSUME NEW m \in ToClient, t = Append(s, m),
               m.type = "receive" => lobby'.cache[m.source][m.kind] = m.snapshot
        PROVE  /\ Rising(t) /\ Pasts(t)
               /\ \A n \in Nat, q \in Players, k \in Kinds :
                    Past(n, q, k) /\ ShownFrom(s, n, q, k) => ShownFrom(t, n, q, k)
    <3>1. /\ Len(s) \in Nat /\ Len(t) = Len(s) + 1 /\ t[Len(s) + 1] = m
          /\ \A i \in 1 .. Len(s) : t[i] = s[i]
      BY <2>1, <2>8, QueueTypes
    <3>2. m.type = "receive" =>
            /\ m.snapshot.owner = m.source /\ LaterPast(m.snapshot.version, m.source, m.kind)
            /\ \A n \in Nat : Past(n, m.source, m.kind) => n <= m.snapshot.version
      BY <1>3, <2>8
    <3>3. Pasts(t)
      <4>1. ASSUME NEW i \in 1 .. Len(t), t[i].type = "receive"
            PROVE  LaterPast(t[i].snapshot.version, t[i].source, t[i].kind)
        <5>1. CASE i \in 1 .. Len(s)
          BY <2>3, <3>1, <4>1, <5>1
        <5>2. CASE i = Len(s) + 1
          BY <3>1, <3>2, <4>1, <5>2
        <5> QED BY <3>1, <5>1, <5>2
      <4> QED BY <4>1
    <3>4. m.type = "receive" =>
            \A i \in 1 .. Len(s) :
              s[i].type = "receive" /\ s[i].source = m.source /\ s[i].kind = m.kind =>
                s[i].snapshot.version <= m.snapshot.version
      <4>1. ASSUME m.type = "receive", NEW i \in 1 .. Len(s),
                   s[i].type = "receive", s[i].source = m.source, s[i].kind = m.kind
            PROVE  s[i].snapshot.version <= m.snapshot.version
        <5>1. s[i].snapshot.version \in Nat
          BY <2>1, <4>1, ClientQueue
        <5>2. Past(s[i].snapshot.version, m.source, m.kind)
          BY <2>2, <4>1
        <5> QED BY <3>2, <4>1, <5>1, <5>2
      <4> QED BY <4>1
    <3>5. /\ Rising(t)
          /\ \A n \in Nat, q \in Players, k \in Kinds :
               /\ ShownFrom(s, n, q, k)
               /\ m.type = "receive" /\ m.source = q /\ m.kind = k => n <= m.snapshot.version
               => ShownFrom(t, n, q, k)
      <4> HIDE <1>3
      <4> QED BY <2>1, <2>2, <2>8, <3>2, <3>4, ShowsAppend
    <3>6. ASSUME NEW n \in Nat, NEW q \in Players, NEW k \in Kinds,
                 Past(n, q, k), ShownFrom(s, n, q, k)
          PROVE  ShownFrom(t, n, q, k)
      BY <3>2, <3>5, <3>6
    <3> QED BY <3>3, <3>5, <3>6
  <2> QED BY <2>4, <2>5, <2>6, <2>7, <2>8
<1>5. ShowsInOrder'
  BY <1>4 DEF ShowsInOrder, Past, LaterPast, ToCome, LaterToCome
<1>6. ASSUME NEW p \in Players, NEW q \in Players, NEW k \in Kinds, client'[p].shown[q][k] # None
      PROVE  /\ client'[p].shown[q][k].owner = q /\ LaterPast(client'[p].shown[q][k].version, q, k)
             /\ ShownFrom(down'[p], client'[p].shown[q][k].version, q, k)
  <2>1. CASE client'[p].shown[q][k] = client[p].shown[q][k]
    <3> DEFINE x == client[p].shown[q][k]
    <3>1. x.owner = q /\ Past(x.version, q, k) /\ ShownFrom(down[p], x.version, q, k)
      BY <1>6, <2>1 DEF SnapInv, ShownIsPast
    <3>2. x.version \in Nat
      BY <1>2, <1>6, <2>1 DEF Kept, Snap!Snapshot
    <3> HIDE DEF x
    <3>3. LaterPast(x.version, q, k)
      BY <1>1, <3>1, <3>2
    <3> QED BY <1>4, <2>1, <3>1, <3>2, <3>3 DEF x
  <2>2. CASE /\ down[p] # <<>> /\ down'[p] = Tail(down[p])
             /\ Head(down[p]).type = "receive" /\ Head(down[p]).source = q /\ Head(down[p]).kind = k
             /\ client'[p].shown[q][k] = Head(down[p]).snapshot
    <3> DEFINE s == down[p]
    <3>1. s \in Seq(ToClient) /\ Rising(s) /\ s # <<>>
      BY <1>2, <2>2 DEF SnapInv, ShowsInOrder
    <3>2. Head(s) = s[1] /\ 1 \in 1 .. Len(s)
      <4> HIDE DEF s
      <4>1. Head(s) = s[1] /\ Len(s) > 0 /\ Len(s) \in Nat
        BY <3>1, QueueTypes
      <4> QED BY <4>1
    <3>3. Past(s[1].snapshot.version, q, k) /\ s[1].snapshot.version \in Nat
      BY <2>2, <3>1, <3>2, ClientQueue DEF SnapInv, ShowsInOrder
    <3>4. s[1].snapshot.owner = q /\ ShownFrom(Tail(s), s[1].snapshot.version, q, k)
      BY <2>2, <3>1, <3>2, ShowsTail
    <3>5. LaterPast(s[1].snapshot.version, q, k)
      BY <1>1, <3>3
    <3> QED BY <2>2, <3>2, <3>4, <3>5
  <2> QED BY <2>1, <2>2 DEF StepMoves, ShownMoves
<1> QED BY <1>5, <1>6 DEF ShownIsPast, Past, LaterPast, ToCome, LaterToCome

\* Every step keeps the line.
LEMMA SnapKept ==
  ASSUME None \notin Snap!Snapshot, SnapInv, [Snap!Next]_Snap!vars
  PROVE  SnapInv'
<1>1. Snap!TypeOK /\ Snap!TypeOK'
  BY TypesKept DEF SnapInv
<1>2. StepMoves
  BY <1>1, NextMoves
<1>3. AnswersInOrder'
  BY <1>1, <1>2, AnswersStay DEF SnapInv, StepMoves
<1>4. StoredIsPast'
  BY <1>1, <1>2, StoredStays DEF SnapInv, StepMoves
<1>5. ShowsInOrder' /\ ShownIsPast'
  BY <1>1, <1>2, ShowsStay
<1> QED BY <1>1, <1>3, <1>4, <1>5 DEF SnapInv

\* what SnapshotsGetNewer says of a step
SnapshotGetsNewer ==
  \A p \in Players, q \in Players, k \in Kinds :
    LET old == client[p].shown[q][k]  new == client'[p].shown[q][k] IN
    /\ new # None => new.owner = q
    /\ old # None => new # None /\ new.version >= old.version

LEMMA SnapshotGetsNewerStep ==
  ASSUME None \notin Snap!Snapshot, SnapInv, SnapInv', [Snap!Next]_Snap!vars
  PROVE  SnapshotGetsNewer
<1>1. Snap!TypeOK /\ ShownMoves
  BY NextMoves DEF SnapInv, StepMoves
<1> SUFFICES ASSUME NEW p \in Players, NEW q \in Players, NEW k \in Kinds
             PROVE  /\ client'[p].shown[q][k] # None => client'[p].shown[q][k].owner = q
                    /\ client[p].shown[q][k] # None =>
                         /\ client'[p].shown[q][k] # None
                         /\ client'[p].shown[q][k].version >= client[p].shown[q][k].version
  BY DEF SnapshotGetsNewer
<1>2. client'[p].shown[q][k] # None => client'[p].shown[q][k].owner = q
  BY DEF SnapInv, ShownIsPast
<1>3. ASSUME client[p].shown[q][k] # None
      PROVE  /\ client'[p].shown[q][k] # None
             /\ client'[p].shown[q][k].version >= client[p].shown[q][k].version
  <2> DEFINE old == client[p].shown[q][k]
  <2>1. old \in Snap!Snapshot /\ old.version \in Nat
    BY <1>1, <1>3, Typed DEF Kept, Snap!Snapshot
  <2>2. CASE client'[p].shown[q][k] = old
    BY <1>3, <2>1, <2>2
  <2>3. CASE /\ down[p] # <<>> /\ down'[p] = Tail(down[p])
             /\ Head(down[p]).type = "receive" /\ Head(down[p]).source = q /\ Head(down[p]).kind = k
             /\ client'[p].shown[q][k] = Head(down[p]).snapshot
    <3> DEFINE s == down[p]
    <3>1. s \in Seq(ToClient)
      BY <1>1, Typed
    <3>2. Head(s) = s[1] /\ 1 \in 1 .. Len(s)
      <4> HIDE DEF s
      <4>1. Head(s) = s[1] /\ Len(s) > 0 /\ Len(s) \in Nat
        BY <2>3, <3>1, QueueTypes DEF s
      <4> QED BY <4>1
    <3>3. s[1].snapshot \in Snap!Snapshot /\ s[1].snapshot.version \in Nat
      <4>1. s[1].type = "receive"
        BY <2>3, <3>2
      <4> HIDE DEF s
      <4> QED BY <3>1, <3>2, <4>1, ClientQueue
    <3>4. old.version <= s[1].snapshot.version
      BY <1>3, <2>3, <3>2 DEF SnapInv, ShownIsPast, ShownFrom
    <3>5. client'[p].shown[q][k] = s[1].snapshot
      BY <2>3, <3>2
    <3> HIDE DEF s, old
    <3>6. s[1].snapshot.version >= old.version
      BY <2>1, <3>3, <3>4
    <3> QED BY <3>3, <3>5, <3>6 DEF old
  <2> QED BY <1>1, <2>2, <2>3 DEF ShownMoves
<1> QED BY <1>2, <1>3

\* The snapshots of a player form the line described above, whatever the
\* clients ask and whoever drops, leaves or returns.
THEOREM SnapCorrect ==
  ASSUME None \notin Snap!Snapshot
  PROVE  Snap!Spec => []SnapInv
<1>1. Snap!Init => SnapInv
  BY SnapInit
<1>2. SnapInv /\ [Snap!Next]_Snap!vars => SnapInv'
  BY SnapKept
<1> QED BY <1>1, <1>2, PTL DEF Snap!Spec

\* SnapshotsGetNewer: what a client shows as another player's is that player's
\* own, and storing and forwarding answers never brings an older one back.
THEOREM SnapshotsGetNewerCorrect ==
  ASSUME None \notin Snap!Snapshot
  PROVE  Snap!Spec => Snap!SnapshotsGetNewer
<1>1. SnapInv /\ SnapInv' /\ [Snap!Next]_Snap!vars => [SnapshotGetsNewer]_Snap!vars
  BY SnapshotGetsNewerStep
<1>2. Snap!Spec => []SnapInv
  BY SnapCorrect
<1>3. Snap!Spec => [][SnapshotGetsNewer]_Snap!vars
  BY <1>1, <1>2, PTL DEF Snap!Spec
<1> QED BY <1>3 DEF SnapshotGetsNewer, Snap!SnapshotsGetNewer

=============================================================================
