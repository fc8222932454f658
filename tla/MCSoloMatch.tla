---------------------------- MODULE MCSoloMatch ----------------------------
EXTENDS SoloMatch, TLC

PlayerSymmetry == Permutations(Players)

NoOptions ==
  [type |-> "ffa", survival |-> FALSE, seats |-> Players, rule |-> "highest", winners |-> 1,
   deathOnRoundLoss |-> TRUE, timed |-> FALSE, speedlatro |-> FALSE,
   lives |-> 1, forgiveness |-> 0, time |-> 1]

DuelsSetup == [NoOptions EXCEPT !.type = "duels"]

\* lobbies that a permutation of the players maps to each other
GroupSetups ==
  LET ThreeOf(l) == {[l EXCEPT !.seats = Players \ {p}] : p \in Players} IN
  {DuelsSetup}
  \cup ThreeOf([NoOptions EXCEPT !.timed = TRUE, !.lives = 2])
  \cup ThreeOf([NoOptions EXCEPT !.timed = TRUE, !.rule = "average", !.forgiveness = 1])
  \cup ThreeOf([NoOptions EXCEPT !.survival = TRUE])

RematchSetups == {NoOptions}

SpeedlatroSetups ==
  {[NoOptions EXCEPT !.type = "1v1", !.timed = TRUE, !.speedlatro = TRUE,
                     !.lives = 2]}

------------------------------------------------------------------------------
(* All tables of three scores up to 4 and of four up to 2 *)

PlainTables(n, max) == [1 .. n -> {Plain(s) : s \in 0 .. max}]

SomeTables == PlainTables(3, 4) \cup PlainTables(4, 2)
=============================================================================
