----------------------------- MODULE SeriesScore -----------------------------
(***************************************************************************)
(* What the message about a final of the playoffs says of the series.      *)
(* Team 1 is the away team and team 2 the home team of that game, so the   *)
(* two change places from one game of the series to another.               *)
(***************************************************************************)
EXTENDS Integers

VARIABLES wins,        \* wins[team]: games of the series the team has won
          away,        \* the away team of the last game
          series       \* what the message says of the series

seriesVars == <<wins, away, series>>

Teams == {1, 2}
Other(team) == 3 - team
Needed == 4

Told(verb, team, first, second) ==
    [verb |-> verb, team |-> team, first |-> first, second |-> second]

\* Mutant: the team named follows the order of the scores in every branch.
SeriesTextFirst(team1, score1, score2) ==
    LET verb(score) == IF score = Needed THEN "wins" ELSE "leads"
    IN CASE score1 = score2 -> Told("tied", 0, score1, score2)
         [] score1 > score2 -> Told(verb(score1), team1, score1, score2)
         [] score1 < score2 -> Told(verb(score2), team1, score1, score2)

\* series_score of get_final_discord_string, for team1 against the other.
SeriesText(team1, score1, score2) ==
    CASE score1 = score2 -> Told("tied", 0, score1, score2)
      [] score1 > score2 /\ score1 = Needed -> Told("wins", team1, score1, score2)
      [] score1 > score2 /\ score1 # Needed -> Told("leads", team1, score1, score2)
      [] score1 < score2 /\ score2 = Needed -> Told("wins", team1, score1, score2)
      [] score1 < score2 /\ score2 # Needed -> Told("leads", Other(team1), score2, score1)

SeriesInit == /\ wins = [team \in Teams |-> 0]
              /\ away = 1
              /\ series = Told("tied", 0, 0, 0)

\* A game of the series ends, at either team's place, and is announced.
GameWon(team) ==
    /\ \A t \in Teams : wins[t] < Needed
    /\ wins' = [wins EXCEPT ![team] = @ + 1]
    /\ away' \in Teams
    /\ series' = SeriesText(away', wins'[away'], wins'[Other(away')])

SeriesNext == \E team \in Teams : GameWon(team)

SeriesSpec == SeriesInit /\ [][SeriesNext]_seriesVars
-----------------------------------------------------------------------------
\* The message names the team that is ahead, with its wins first, all through
\* a series, but for one case: when the home team of the last game has won
\* the series it says that the away team "wins series" with fewer games.
SeriesLeaderNamed ==
    LET decided == wins[Other(away)] = Needed
    IN IF wins[1] = wins[2] THEN series.verb = "tied"
       ELSE /\ series.verb = "wins" <=> \E t \in Teams : wins[t] = Needed
            /\ series.first = wins[series.team]
            /\ series.second = wins[Other(series.team)]
            /\ decided <=> wins[series.team] < wins[Other(series.team)]
=============================================================================
