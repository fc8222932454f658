---------------------------- MODULE MCTeamBlind ----------------------------
EXTENDS TeamBlind, TLC

CONSTANTS p1, p2, p3, t1, t2, t3

\* a team of two against a team of one
TwoAndOne ==
  [teamOf |-> (p1 :> t1) @@ (p2 :> t1) @@ (p3 :> t2), coop |-> FALSE,
   rule |-> "highest", winners |-> 1,
   deathOnRoundLoss |-> TRUE, timed |-> TRUE, speedlatro |-> TRUE,
   lives |-> 2, maxScore |-> 1, mayDrop |-> {}]

\* the same with one life, and the connection of p1 may be lost
OneLife == [TwoAndOne EXCEPT !.lives = 1, !.mayDrop = {p1}]

OneTeam == [OneLife EXCEPT !.teamOf = [p \in Players |-> t1], !.coop = TRUE]

\* three teams of one
Apart ==
  [OneLife EXCEPT !.teamOf = (p1 :> t1) @@ (p2 :> t2) @@ (p3 :> t3), !.winners = 2,
                  !.deathOnRoundLoss = FALSE, !.timed = FALSE, !.speedlatro = FALSE]

TeamsAndCoop ==
  {TwoAndOne, OneLife, OneTeam, [Apart EXCEPT !.rule = "custom"],
   [Apart EXCEPT !.rule = "geometric", !.maxScore = 2, !.mayDrop = {}]}
=============================================================================
