---------------------------- MODULE MCSharedSync ----------------------------
EXTENDS SharedSync

CONSTANTS a, b, c

\* two teammates and an opponent
Teams == a :> 1 @@ b :> 1 @@ c :> 2

Teammates == Permutations({a, b})
=============================================================================
