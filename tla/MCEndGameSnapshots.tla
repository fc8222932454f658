------------------------- MODULE MCEndGameSnapshots -------------------------
EXTENDS EndGameSnapshots, TLC

CONSTANTS a, b

\* a asks twice; b answers, offers once and plays on once
Asks == a :> 2 @@ b :> 0

Offers == a :> 0 @@ b :> 1

States == a :> 1 @@ b :> 2
=============================================================================
