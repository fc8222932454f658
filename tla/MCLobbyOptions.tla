--------------------------- MODULE MCLobbyOptions ---------------------------
EXTENDS LobbyOptions, TLC

PlayerSymmetry == Permutations(Players)

\* Values below, within and above the bounds; each option alone, and the pairs whose
\* parts one handler derives from each other.
Singles ==
  {"gamemode" :> m : m \in Modes}
  \cup {"max_players" :> n : n \in {0, 5}}
  \cup {"pvp_custom_winners" :> n : n \in {0, 3}}
  \cup {"pvp_score_rule" :> "custom", "starting_lives" :> 3, "timer" :> TRUE}

Pairs ==
  {("max_players" :> 0) @@ ("pvp_custom_winners" :> 4)}
  \cup {("gamemode" :> m) @@ s : m \in Modes,
          s \in {"starting_lives" :> 3, "timer" :> TRUE}}

OptionMessages == Singles \cup Pairs
=============================================================================
