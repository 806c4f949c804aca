----------------------------- MODULE ScoreFeed -----------------------------
(***************************************************************************)
(* The score API the bot polls (external: nhl-score-api) and the snapshot  *)
(* that nhl_lib.get_nhl_active_games makes of one answer.                  *)
(*                                                                         *)
(* An API game carries a state, the two scores, the rest of what the code  *)
(* keeps in game_score (the overtime and shootout flags and the start      *)
(* time, of which it asks only whether they are what they were: rest says  *)
(* which of their values they have) and its clock.  The clock is the       *)
(* period and whether the API shows "END" for it: the running minutes and  *)
(* seconds are never compared except through "END", so they are left out.  *)
(***************************************************************************)
EXTENDS Integers

CONSTANTS Games,       \* the "<away>at<home>" keys of the games of the day
          MaxScore,    \* bound: highest score of a team
          MaxPeriod,   \* bound: last period played
          MaxRest,     \* bound: values of flags and start time, less one
          MaxEvents    \* bound: how often the API's data changes

ASSUME FeedBounds == /\ MaxScore \in Nat
                     /\ MaxPeriod \in Nat \ {0}
                     /\ MaxRest \in Nat
                     /\ MaxEvents \in Nat

VARIABLES feed,        \* feed[g]: what the API answers for game g now
          events       \* how many times the API's data has changed

feedVars == <<feed, events>>

ApiStates == {"PREVIEW", "LIVE", "FINAL"}

GameRecord == [state  : ApiStates,
               away   : Nat,
               home   : Nat,
               rest   : Nat,
               period : Nat,
               end    : BOOLEAN]

Scheduled == [state |-> "PREVIEW", away |-> 0, home |-> 0,
              rest |-> 0, period |-> 0, end |-> FALSE]

-----------------------------------------------------------------------------
(***************************************************************************)
(* nhl_lib: the answer restricted to the games under way or over, without  *)
(* the clock of a game that is over (its "timestamp" and "end_period" keys *)
(* exist only while the game is LIVE).                                     *)
(***************************************************************************)
GameData(r) == IF r.state = "LIVE" THEN r
                                   ELSE [r EXCEPT !.period = 0, !.end = FALSE]

IsActive(r) == r.state \in {"LIVE", "FINAL"}

\* Mutant: the test of the state is forgotten, scheduled games stay in.
AllGames(f) == [g \in Games |-> GameData(f[g])]

ActiveGames(f) == [g \in {h \in Games : IsActive(f[h])} |-> GameData(f[g])]

\* A dict from some of the games to their data.
IsSnapshot(s) == /\ DOMAIN s \subseteq Games
                 /\ s \in [DOMAIN s -> {r \in GameRecord : IsActive(r)}]

-----------------------------------------------------------------------------
(***************************************************************************)
(* The games as the API reports them.                                      *)
(***************************************************************************)
FeedTypeOK == /\ feed \in [Games -> GameRecord]
              /\ events \in Nat

FeedInit == /\ feed \in [Games -> {Scheduled}]
            /\ events = 0

Report(g, r) == /\ events < MaxEvents
                /\ feed' = [feed EXCEPT ![g] = r]
                /\ events' = events + 1

FaceOff(g) == /\ feed[g].state = "PREVIEW"
              /\ Report(g, [feed[g] EXCEPT !.state = "LIVE", !.period = 1])

\* A goal, while the game is under way or credited to it afterwards.
AwayGoal(g) == /\ IsActive(feed[g])
               /\ feed[g].away < MaxScore
               /\ Report(g, [feed[g] EXCEPT !.away = @ + 1])

HomeGoal(g) == /\ IsActive(feed[g])
               /\ feed[g].home < MaxScore
               /\ Report(g, [feed[g] EXCEPT !.home = @ + 1])

\* A goal is taken back (a review, or a scoring error corrected).
AwayOverturned(g) == /\ IsActive(feed[g])
                     /\ feed[g].away > 0
                     /\ Report(g, [feed[g] EXCEPT !.away = @ - 1])

HomeOverturned(g) == /\ IsActive(feed[g])
                     /\ feed[g].home > 0
                     /\ Report(g, [feed[g] EXCEPT !.home = @ - 1])

PeriodEnds(g) == /\ feed[g].state = "LIVE"
                 /\ ~feed[g].end
                 /\ Report(g, [feed[g] EXCEPT !.end = TRUE])

PeriodStarts(g) == /\ feed[g].state = "LIVE"
                   /\ feed[g].end
                   /\ feed[g].period < MaxPeriod
                   /\ Report(g, [feed[g] EXCEPT !.end = FALSE, !.period = @ + 1])

\* Overtime, a shootout, or another start time.
RestChanges(g) == /\ feed[g].state = "LIVE"
                  /\ \E r \in 0..MaxRest \ {feed[g].rest} :
                        Report(g, [feed[g] EXCEPT !.rest = r])

GameOver(g) == /\ feed[g].state = "LIVE"
               /\ Report(g, [feed[g] EXCEPT !.state = "FINAL"])

\* The API's "latest" turns to the next date: the same teams may meet again.
NextDay == /\ events < MaxEvents
           /\ \E g \in Games : feed[g].state = "FINAL"
           /\ feed' = [g \in Games |-> Scheduled]
           /\ events' = events + 1

FeedNext == \/ \E g \in Games : \/ FaceOff(g)
                                \/ AwayGoal(g) \/ HomeGoal(g)
                                \/ AwayOverturned(g) \/ HomeOverturned(g)
                                \/ PeriodEnds(g) \/ PeriodStarts(g)
                                \/ RestChanges(g)
                                \/ GameOver(g)
            \/ NextDay
=============================================================================
