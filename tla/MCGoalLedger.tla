---------------------------- MODULE MCGoalLedger ----------------------------
(***************************************************************************)
(* A small instance of GoalLedger for TLC: two games, one guild.           *)
(***************************************************************************)
EXTENDS GoalLedger

CONSTANTS g1, g2, d1

TwoGames == {g1, g2}
OneGuild == {d1}
AllNhl == [gd \in Guilds |-> "nhl"]
=============================================================================
