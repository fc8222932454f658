---------------------------- MODULE MCCoopSave ----------------------------
EXTENDS CoopSave, TLC

CONSTANTS ann, bob

\* every client bears a name of its own
OwnNames == [c \in Clients |-> c]

Interchangeable == Permutations(Clients) \cup Permutations(Lobbies) \cup Permutations(SaveIds)
=============================================================================
