--------------------------- MODULE Announcements ---------------------------
(***************************************************************************)
(* What bot.py posts about one game when it compares the game's record o   *)
(* in the previous snapshot with its record n in the new one.  A message   *)
(* is abstracted to its kind, its game, the team a goal (or a reversal) is *)
(* credited to and the score it shows (none, for a puck drop); wording,    *)
(* emojis, scorers and the clock shown are left out.                       *)
(***************************************************************************)
EXTENDS Integers, Sequences

Kinds == {"drop", "goal", "reversal", "final", "end"}
Teams == {"away", "home", "none"}

Message(kind, g, team, n) ==
    [kind |-> kind, game |-> g, team |-> team, away |-> n.away, home |-> n.home]

\* A puck drop names the teams and shows no score: a game begins, at 0-0.
DropMessage(g) == Message("drop", g, "none", [away |-> 0, home |-> 0])

\* score["game_score"] == old_score["game_score"]: the scores, the flags and
\* the start time.
SameScoreline(o, n) == o.away = n.away /\ o.home = n.home /\ o.rest = n.rest

\* Mutant: one "END" is taken for another.
SameWhistle(o, n) == o.end = n.end

\* The timestamps of two games under way are equal (see ScoreFeed on "END").
SameClock(o, n) == o.period = n.period /\ o.end = n.end

\* Mutant: the reversals are forgotten.
GoalsOnly(g, o, n) ==
    IF n.away > o.away THEN <<Message("goal", g, "away", n)>>
    ELSE IF n.home > o.home THEN <<Message("goal", g, "home", n)>>
    ELSE <<>>

\* Mutant: >= instead of > in the last comparison.
GoalsOrEqual(g, o, n) ==
    IF n.away < o.away THEN <<Message("reversal", g, "away", n)>>
    ELSE IF n.home < o.home THEN <<Message("reversal", g, "home", n)>>
    ELSE IF n.away > o.away THEN <<Message("goal", g, "away", n)>>
    ELSE <<Message("goal", g, "home", n)>>

\* The if/elif chain that names at most one team: reversals before goals,
\* the away team before the home team.
GoalMessages(g, o, n) ==
    IF n.away < o.away THEN <<Message("reversal", g, "away", n)>>
    ELSE IF n.home < o.home THEN <<Message("reversal", g, "home", n)>>
    ELSE IF n.away > o.away THEN <<Message("goal", g, "away", n)>>
    ELSE IF n.home > o.home THEN <<Message("goal", g, "home", n)>>
    ELSE <<>>

FinalMessages(g, n) ==
    IF n.state = "FINAL" THEN <<Message("final", g, "none", n)>> ELSE <<>>

EndMessages(g, n) ==
    IF n.state = "LIVE" /\ n.end THEN <<Message("end", g, "none", n)>> ELSE <<>>

\* The three branches of the comparison, each ended by its own break.
Messages(g, o, n) ==
    IF ~SameScoreline(o, n) /\ o.state = "LIVE"
    THEN GoalMessages(g, o, n) \o FinalMessages(g, n) \o EndMessages(g, n)
    ELSE IF n.state # o.state
         THEN FinalMessages(g, n)
         ELSE IF o.state = "LIVE" /\ ~SameClock(o, n)
              THEN EndMessages(g, n)
              ELSE <<>>
=============================================================================
