-------------------------- MODULE MCCoopBossBlind --------------------------
EXTENDS CoopBossBlind, TLC

CONSTANTS p1, p2, p3, b1, b2

\* the players with reliable connections, and the bosses, are interchangeable
Interchangeable == Permutations(Players \ MayDrop) \cup Permutations(Bosses)
=============================================================================
