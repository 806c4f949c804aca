--------------------------- MODULE MCGameBreakBot ---------------------------
(***************************************************************************)
(* Small instances of GameBreakBot for TLC.                                *)
(***************************************************************************)
EXTENDS GameBreakBot

CONSTANTS g1, g2, d1, d2, d3, d4

TwoGames == {g1, g2}
OneGuild == {d1}
FourGuilds == {d1, d2, d3, d4}

\* One guild follows every league, one the NHL, one another league only, and
\* the channel of the last is not found.
MixedLeagues ==
    [gd \in Guilds |-> CASE gd = d1 -> "all" [] gd = d2 -> "nhl"
                          [] gd = d3 -> "phf" [] gd = d4 -> "nhl"]
=============================================================================
