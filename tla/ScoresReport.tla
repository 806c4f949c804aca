---------------------------- MODULE ScoresReport ----------------------------
(***************************************************************************)
(* "!nhl get scores" and "!nhl get schedule": which games a reply lists.   *)
(* A reply is put together from one request to the score API and, for the  *)
(* schedule, a later one to the league's own API; games start, end and are *)
(* dropped from the answers meanwhile, and the clock goes on.              *)
(*                                                                         *)
(* Hours count from midnight UTC of a day 0.  The host's clock is Zone     *)
(* hours behind.  A game's startTime is in UTC; the code compares it, zone *)
(* dropped, with 05:00 of the host's day.                                  *)
(***************************************************************************)
EXTENDS Integers

CONSTANTS Games,
          Start,       \* Start[g]: the hour in UTC for which g is scheduled
          Zone,        \* hours the host's clock is behind UTC
          MaxGame,     \* bound: a game is over this long after its startTime
          FirstHour, LastHour  \* bound: the hours looked at

ASSUME ReportBounds == /\ Start \in [Games -> Int]
                       /\ Zone \in Int
                       /\ MaxGame \in Nat
                       /\ FirstHour \in Int /\ LastHour \in Int

VARIABLES utc,         \* the hour
          stats,       \* stats[g]: how far g is for the league's API
          latest,      \* latest[g]: how far g is for the score API
          command,     \* the command that is being answered
          step,        \* where its answer stands
          day,         \* the day the schedule is asked for
          scores,      \* games whose score is in the reply
          scheduled,   \* games whose start is in the reply
          asked        \* history: hour and answer of the first request

reportVars == <<utc, stats, latest, command, step, day, scores, scheduled, asked>>

Preview == 0
Live == 1
Final == 2
Dropped == 3           \* the score API has moved on to another day

Dates == [word : {"today", "tomorrow", "yesterday"}, day : {0}]
         \cup [word : {"date"}, day : 0..1]

Commands == [what : {"scores", "schedule"}, date : Dates]

Today == [word |-> "today", day |-> 0]
NoCommand == [what |-> "none", date |-> Today]

\* The host's clock, and its day at an hour of it.
Local(hour) == hour - Zone
DayOf(t) == t \div 24

\* get_check_date
CheckDay(date, hour) == CASE date.word = "today"     -> DayOf(Local(hour))
                          [] date.word = "tomorrow"  -> DayOf(Local(hour)) + 1
                          [] date.word = "yesterday" -> DayOf(Local(hour)) - 1
                          [] date.word = "date"      -> date.day

\* date_to_check: five in the morning of that day.
DateToCheck(date, hour) == 24 * CheckDay(date, hour) + 5

NotAsked == [hour |-> FirstHour, active |-> {}, live |-> {}]

\* The games of get_active_games.
ActiveNow == {g \in Games : latest[g] \in {Live, Final}}

ReportInit == /\ utc = FirstHour
              /\ stats = [g \in Games |-> Preview]
              /\ latest = [g \in Games |-> Preview]
              /\ command = NoCommand
              /\ step = "idle"
              /\ day = 0
              /\ scores = {}
              /\ scheduled = {}
              /\ asked = NotAsked
-----------------------------------------------------------------------------
reply == <<command, step, day, scores, scheduled, asked>>

\* An hour passes; a game does not go on for longer than MaxGame.
Tick == /\ utc < LastHour
        /\ \A g \in Games : Live \in {stats[g], latest[g]} => utc < Start[g] + MaxGame
        /\ utc' = utc + 1
        /\ UNCHANGED <<stats, latest, reply>>

\* A game starts, at its time or late, and ends.
Play(g) == /\ \/ stats[g] = Preview /\ utc >= Start[g] /\ utc < Start[g] + MaxGame
              \/ stats[g] = Live
           /\ stats' = [stats EXCEPT ![g] = @ + 1]
           /\ UNCHANGED <<utc, latest, reply>>

\* The score API follows the league's, and drops a game that is over.
Refresh(g) == /\ \/ latest[g] < stats[g] /\ latest' = [latest EXCEPT ![g] = stats[g]]
                 \/ latest[g] = Final /\ latest' = [latest EXCEPT ![g] = Dropped]
              /\ UNCHANGED <<utc, stats, reply>>

\* "!nhl get scores ..." or "!nhl get schedule ..."
Ask(c) == /\ step = "idle"
          /\ command' = c
          /\ step' = "scores"
          /\ UNCHANGED <<utc, stats, latest, day, scores, scheduled, asked>>

\* Mutant: the start is compared with midnight.
ReportedSinceMidnight(c, g, hour) ==
    IF Local(hour) > DateToCheck(c.date, hour)
    THEN Start[g] > DateToCheck(c.date, hour) - 5
    ELSE c.what = "scores"

\* report_score: no_live_games_message is set for the scores command only.
Reported(c, g, hour) == IF Local(hour) > DateToCheck(c.date, hour)
                        THEN Start[g] > DateToCheck(c.date, hour)
                        ELSE c.what = "scores"

\* get_scores; for the schedule the day to ask for is worked out next.
GetScores ==
    /\ step = "scores"
    /\ scores' = IF command.date.word = "yesterday" THEN {}
                 ELSE {g \in ActiveNow : Reported(command, g, utc)}
    /\ asked' = [hour |-> utc, active |-> ActiveNow,
                 live |-> {g \in Games : latest[g] = Live}]
    /\ IF command.what = "scores"
       THEN step' = "replied" /\ UNCHANGED day
       ELSE step' = "schedule" /\ day' = CheckDay(command.date, utc)
    /\ UNCHANGED <<utc, stats, latest, command, scheduled>>

\* The games of a day of the league, for one whose clock is the host's.
OnDay(d) == {g \in Games : DayOf(Local(Start[g])) = d}

\* Mutant: a game that is late does not count as still to come.
GetScheduleOnTime ==
    /\ step = "schedule"
    /\ IF OnDay(day) = {}
       THEN step' = "failed" /\ UNCHANGED scheduled
       ELSE /\ step' = "replied"
            /\ scheduled' = {g \in OnDay(day) : stats[g] = Preview /\ Start[g] > utc}
    /\ UNCHANGED <<utc, stats, latest, command, day, scores, asked>>

\* Mutant: games under way count as still to come.
GetScheduleLive ==
    /\ step = "schedule"
    /\ IF OnDay(day) = {}
       THEN step' = "failed" /\ UNCHANGED scheduled
       ELSE /\ step' = "replied"
            /\ scheduled' = {g \in OnDay(day) : stats[g] \in {Preview, Live}}
    /\ UNCHANGED <<utc, stats, latest, command, day, scores, asked>>

\* get_nhlapi_schedule_for_date, and the games it says are still to come;
\* ["dates"][0] raises for a day without games.
GetSchedule ==
    /\ step = "schedule"
    /\ IF OnDay(day) = {}
       THEN step' = "failed" /\ UNCHANGED scheduled
       ELSE /\ step' = "replied"
            /\ scheduled' = {g \in OnDay(day) : stats[g] = Preview}
    /\ UNCHANGED <<utc, stats, latest, command, day, scores, asked>>

\* A request raises.
RequestFails == /\ step \in {"scores", "schedule"}
                /\ step' = "failed"
                /\ UNCHANGED <<utc, stats, latest, command, day, scores, scheduled, asked>>

\* Mutant: the string is kept, and the next reply appended to it.
FinishKeeps == /\ step \in {"replied", "failed"}
               /\ step' = "idle"
               /\ command' = NoCommand
               /\ UNCHANGED <<utc, stats, latest, day, scores, scheduled, asked>>

\* The reply is sent, or the exception logged.
Finish == /\ step \in {"replied", "failed"}
          /\ step' = "idle"
          /\ command' = NoCommand
          /\ day' = 0
          /\ scores' = {}
          /\ scheduled' = {}
          /\ asked' = NotAsked
          /\ UNCHANGED <<utc, stats, latest>>

ReportNext == \/ Tick
              \/ \E g \in Games : Play(g) \/ Refresh(g)
              \/ \E c \in Commands : Ask(c)
              \/ GetScores \/ GetSchedule \/ RequestFails \/ Finish

ReportSpec == ReportInit /\ [][ReportNext]_reportVars
-----------------------------------------------------------------------------
\* Types; the score API is never ahead of the league's, and a reply starts
\* from nothing.
ReportTypeOK == /\ utc \in Int
                /\ stats \in [Games -> {Preview, Live, Final}]
                /\ latest \in [Games -> {Preview, Live, Final, Dropped}]
                /\ command \in Commands \cup {NoCommand}
                /\ step \in {"idle", "scores", "schedule", "replied", "failed"}
                /\ day \in Int
                /\ scores \subseteq Games /\ scheduled \subseteq Games
                /\ asked \in [hour : Int, active : SUBSET Games, live : SUBSET Games]
                /\ \A g \in Games : latest[g] <= stats[g] \/ latest[g] = Dropped
                /\ step \in {"idle", "scores"} => scores = {}
                /\ step # "replied" => scheduled = {}

Replying(what, word) == /\ step = "replied"
                        /\ command.what = what
                        /\ command.date.word = word

\* "Retrieves scores of all games currently being played."  So it does on a
\* host at least as far behind UTC as a game is long; and after five in the
\* morning it shows no game of the day before, on a host that is no more than
\* five hours behind.  The comparison of an UTC hour with a local one has
\* room for both in the Eastern zone only.
CurrentScores ==
    Replying("scores", "today") =>
        /\ Zone >= MaxGame => asked.live \subseteq scores
        /\ Zone <= 5 /\ Local(asked.hour) > DateToCheck(Today, asked.hour) =>
              \A g \in scores : DayOf(Local(Start[g])) >= DayOf(Local(asked.hour))

\* No game is listed twice, with its score and with its start, although the
\* two requests are answered at different times by different services.
ListedOnce == scores \cap scheduled = {}

\* "... start times of all scheduled games today as well as today's live
\* scores": in the daytime a game of the day is missing from the schedule
\* only if it had begun when the league was asked, while the score API had
\* not yet noticed, or had dropped it already, when it was.
NothingMissed ==
    LET today == DayOf(Local(asked.hour))
    IN /\ Replying("schedule", "today")
       /\ Local(asked.hour) > DateToCheck(Today, asked.hour)
       => \A g \in OnDay(today) \ (scores \cup scheduled) :
             Start[g] > DateToCheck(Today, asked.hour) =>
                /\ stats[g] # Preview
                /\ g \notin asked.active
=============================================================================
