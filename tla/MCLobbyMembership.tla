------------------------- MODULE MCLobbyMembership -------------------------
EXTENDS LobbyMembership, TLC

ConnSymmetry == Permutations(Conns)
MembershipSymmetry == Permutations(Conns) \cup Permutations(Lobbies)
=============================================================================
