---------------------------- MODULE MCChannelView ----------------------------
(***************************************************************************)
(* A small instance of ChannelView for TLC: two games, one guild.          *)
(***************************************************************************)
EXTENDS ChannelView

CONSTANTS g1, g2, d1

TwoGames == {g1, g2}
OneGuild == {d1}
AllNhl == [gd \in Guilds |-> "nhl"]
=============================================================================
