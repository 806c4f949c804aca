----------------------------- MODULE MCCommands -----------------------------
(***************************************************************************)
(* Small instances, for TLC, of what the get commands compute: the scores  *)
(* and the schedule, the standings, the words on a playoff series, and the *)
(* cut of the text that comes of them.  They share no state, so a          *)
(* behaviour is about one of them.                                         *)
(***************************************************************************)
EXTENDS MessageSplit, MCStandings, ScoresReport, SeriesScore

CONSTANTS g1, g2, g3

VARIABLE part          \* what this behaviour is about

\* An evening game, a late one, and one of the next afternoon.
TwoDays == [g \in Games |-> CASE g = g1 -> 23 [] g = g2 -> 27 [] g = g3 -> 41]

CommandsInit == /\ part \in {"scores", "standings", "split", "series"}
                /\ ReportInit
                /\ SplitInit
                /\ StandingsInit
                /\ SeriesInit
                /\ part # "standings" => league = <<>>

CommandsNext == \/ /\ part = "scores"
                   /\ ReportNext
                   /\ UNCHANGED <<part, message, standingsVars, seriesVars>>
                \/ /\ part = "standings"
                   /\ StandingsNext
                   /\ UNCHANGED <<part, message, reportVars, seriesVars>>
                \/ /\ part = "split"
                   /\ SplitNext
                   /\ UNCHANGED <<part, standingsVars, reportVars, seriesVars>>
                \/ /\ part = "series"
                   /\ SeriesNext
                   /\ UNCHANGED <<part, message, standingsVars, reportVars>>

CommandsSpec ==
    /\ CommandsInit
    /\ [][CommandsNext]_<<part, message, standingsVars, reportVars, seriesVars>>
=============================================================================
