-------------------------- MODULE GoalLedgerProofs --------------------------
(***************************************************************************)
(* No guild is ever told of goals that were not scored, for any number of  *)
(* games, guilds, events and failures.  The ledger is brought up to date   *)
(* with the old snapshot between rounds; within a round a guild may be one *)
(* goal ahead of it, and then the new snapshot is a goal ahead too.        *)
(***************************************************************************)
EXTENDS GoalLedger, GameBreakBotProofs

Counters == [Games -> Nat]

LedgerTyped == /\ scored \in Counters
               /\ scoredOld \in Counters
               /\ scoredNew \in Counters
               /\ credited \in [Recipients -> Counters]
               /\ failures \in Nat

\* The three readings of the scored counter were taken in this order.
Ordered(g) == scoredOld[g] <= scoredNew[g] /\ scoredNew[g] <= scored[g]

\* The scores of record r exceed those of o by no more than k goals.
Within(r, o, k) == r.away <= o.away + k /\ r.home <= o.home + k

\* Scores grow only with the counter (they may shrink on their own).
Grown(g) ==
    /\ g \in DOMAIN old => Within(feed[g], old[g], scored[g] - scoredOld[g])
    /\ g \in DOMAIN active => Within(feed[g], active[g], scored[g] - scoredNew[g])
    /\ g \in DOMAIN old \cap DOMAIN active =>
          Within(active[g], old[g], scoredNew[g] - scoredOld[g])

\* Guild gd has heard of a goal of game g in this round.
Heard(gd, g) == InRound /\ Goals(told[gd], g) # {}

Balanced(gd, g) ==
    IF Heard(gd, g)
    THEN /\ credited[gd][g] <= scoredOld[g] + failures + 1
         /\ scoredOld[g] < scoredNew[g]
    ELSE credited[gd][g] <= scoredOld[g] + failures

LedgerInv == /\ LedgerTyped
             /\ \A g \in Games : Ordered(g) /\ Grown(g)
             /\ \A gd \in Recipients : \A g \in Games : Balanced(gd, g)

-----------------------------------------------------------------------------
(***************************************************************************)
(* The ledger only watches the bot.                                        *)
(***************************************************************************)
LEMMA LedgerStep == [LedgerNext]_<<vars, ledger>> => [Next]_vars
  BY DEF LedgerNext, FetchL, CommitL, FailsL, OtherL, Next, Scan

LEMMA LedgerBot == LedgerSpec => [](Typed /\ RoundInv)
  <1>1. LedgerInit => Typed /\ RoundInv
    BY TypedInit, RoundInit DEF LedgerInit
  <1>2. Typed /\ RoundInv /\ [LedgerNext]_<<vars, ledger>> => (Typed /\ RoundInv)'
    BY LedgerStep, TypedNext, RoundNext
  <1>3. QED
    BY <1>1, <1>2, PTL DEF LedgerSpec

-----------------------------------------------------------------------------
LEMMA LedgerInitInv == LedgerInit => LedgerInv
  <1> SUFFICES ASSUME LedgerInit
               PROVE  LedgerInv
    OBVIOUS
  <1>1. LedgerTyped
    BY DEF LedgerInit, LedgerTyped, Counters, NoGoals
  <1>2. ASSUME NEW g \in Games
        PROVE  Ordered(g) /\ Grown(g)
    BY DEF LedgerInit, Init, NoGoals, Ordered, Grown
  <1>3. ASSUME NEW gd \in Recipients, NEW g \in Games
        PROVE  Balanced(gd, g)
    BY DEF LedgerInit, Init, NoGoals, Balanced, Heard, InRound
  <1>4. QED
    BY <1>1, <1>2, <1>3 DEF LedgerInv

\* A step of the API adds at most the goals that the counter counts.
LEMMA FeedGrows ==
  ASSUME FeedTypeOK, FeedNext, NEW g \in Games
  PROVE  Within(feed'[g], feed[g],
                IF feed'[g].away > feed[g].away \/ feed'[g].home > feed[g].home
                THEN 1 ELSE 0)
  <1>1. feed[g] \in GameRecord /\ feed \in [Games -> GameRecord]
    BY DEF FeedTypeOK
  <1>2. ASSUME NEW h \in Games, NEW r, feed' = [feed EXCEPT ![h] = r],
               r.away \in Nat, r.home \in Nat,
               r.away <= feed[h].away + 1, r.home <= feed[h].home + 1
        PROVE  Within(feed'[g], feed[g],
                      IF \/ feed'[g].away > feed[g].away
                         \/ feed'[g].home > feed[g].home
                      THEN 1 ELSE 0)
    <2>1. /\ feed[g].away \in Nat /\ feed[g].home \in Nat
          /\ feed'[g] = IF g = h THEN r ELSE feed[g]
      BY <1>1, <1>2 DEF GameRecord
    <2>2. CASE g = h
      BY <1>2, <2>1, <2>2 DEF Within
    <2>3. CASE g # h
      BY <2>1, <2>3 DEF Within
    <2>4. QED
      BY <2>2, <2>3
  <1>3. ASSUME NEW h \in Games
        PROVE  feed[h].away \in Nat /\ feed[h].home \in Nat
    BY <1>1 DEF GameRecord
  <1>4. CASE NextDay
    <2>1. feed'[g].away = 0 /\ feed'[g].home = 0
      BY <1>4 DEF NextDay, Scheduled
    <2>2. QED
      BY <1>3, <2>1 DEF Within
  <1>5. ASSUME NEW h \in Games,
               \/ FaceOff(h)
               \/ AwayGoal(h) \/ HomeGoal(h)
               \/ AwayOverturned(h) \/ HomeOverturned(h)
               \/ PeriodEnds(h) \/ PeriodStarts(h)
               \/ RestChanges(h)
               \/ GameOver(h)
        PROVE  \E r : /\ feed' = [feed EXCEPT ![h] = r]
                      /\ r.away \in Nat /\ r.home \in Nat
                      /\ r.away <= feed[h].away + 1
                      /\ r.home <= feed[h].home + 1
    <2> DEFINE Near(r) == /\ r.away \in Nat /\ r.home \in Nat
                          /\ r.away <= feed[h].away + 1
                          /\ r.home <= feed[h].home + 1
    <2>1. feed[h] \in GameRecord /\ feed[h].away \in Nat /\ feed[h].home \in Nat
      BY <1>1, <1>3
    <2>2. /\ Near([feed[h] EXCEPT !.state = "LIVE", !.period = 1])
          /\ Near([feed[h] EXCEPT !.end = TRUE])
          /\ Near([feed[h] EXCEPT !.end = FALSE, !.period = @ + 1])
          /\ \A k \in Nat : Near([feed[h] EXCEPT !.rest = k])
          /\ Near([feed[h] EXCEPT !.state = "FINAL"])
      BY <2>1 DEF GameRecord
    <2>3. /\ Near([feed[h] EXCEPT !.away = @ + 1])
          /\ Near([feed[h] EXCEPT !.home = @ + 1])
      BY <2>1 DEF GameRecord
    <2>4. /\ feed[h].away > 0 => Near([feed[h] EXCEPT !.away = @ - 1])
          /\ feed[h].home > 0 => Near([feed[h] EXCEPT !.home = @ - 1])
      BY <2>1 DEF GameRecord
    <2>5. ASSUME NEW r, Report(h, r), Near(r)
          PROVE  \E q : feed' = [feed EXCEPT ![h] = q] /\ Near(q)
      BY <2>5 DEF Report
    <2> HIDE DEF Near
    <2>6. ASSUME RestChanges(h)
          PROVE  \E q : feed' = [feed EXCEPT ![h] = q] /\ Near(q)
      <3>1. PICK k \in 0..MaxRest : Report(h, [feed[h] EXCEPT !.rest = k])
        BY <2>6 DEF RestChanges
      <3>2. k \in Nat
        BY <3>1, FeedBounds
      <3>3. Near([feed[h] EXCEPT !.rest = k])
        BY <2>2, <3>2
      <3>4. QED
        BY <2>5, <3>1, <3>3
    <2>7. ASSUME ~RestChanges(h)
          PROVE  \E q : feed' = [feed EXCEPT ![h] = q] /\ Near(q)
      BY <1>5, <2>2, <2>3, <2>4, <2>5, <2>7
         DEF FaceOff, AwayGoal, HomeGoal, AwayOverturned, HomeOverturned,
             PeriodEnds, PeriodStarts, GameOver
    <2>8. QED
      BY <2>6, <2>7 DEF Near
  <1>6. QED
    BY <1>2, <1>4, <1>5 DEF FeedNext

-----------------------------------------------------------------------------
\* What one step of counting can do.
LEMMA CountTyped ==
  ASSUME LedgerTyped, Count
  PROVE  /\ scored' \in Counters
         /\ credited' \in [Recipients -> Counters]
         /\ \A g \in Games : scored[g] <= scored'[g]
  BY DEF LedgerTyped, Counters, Count

LEMMA CountOfScores ==
  ASSUME LedgerTyped, Count, Typed, feed' = feed
  PROVE  scored' = scored
  <1>1. ASSUME NEW g \in Games
        PROVE  feed[g].away \in Nat /\ feed[g].home \in Nat
    BY DEF Typed, TypeOK, FeedTypeOK, GameRecord
  <1>2. QED
    BY <1>1 DEF LedgerTyped, Counters, Count

LEMMA CountOfCredits ==
  ASSUME LedgerTyped, Count, NEW gd \in Recipients, told'[gd] = told[gd]
  PROVE  credited'[gd] = credited[gd]
  <1>1. \A g \in Games : ~NewGoal(gd, g)
    BY DEF NewGoal
  <1>2. credited'[gd] = [g \in Games |-> credited[gd][g]]
    BY <1>1 DEF Count
  <1>3. QED
    BY <1>2 DEF LedgerTyped, Counters

\* The readings of the counter stay in order and bound the scores.
LEMMA GrownNext ==
  ASSUME Typed, LedgerInv, LedgerNext, NEW g \in Games
  PROVE  Ordered(g)' /\ Grown(g)'
  <1>1. /\ scored[g] \in Nat /\ scoredOld[g] \in Nat /\ scoredNew[g] \in Nat
        /\ Ordered(g) /\ Grown(g)
    BY DEF LedgerInv, LedgerTyped, Counters
  <1>2. /\ feed[g].away \in Nat /\ feed[g].home \in Nat
        /\ g \in DOMAIN old => old[g].away \in Nat /\ old[g].home \in Nat
        /\ g \in DOMAIN active => active[g].away \in Nat /\ active[g].home \in Nat
    BY DEF Typed, TypeOK, FeedTypeOK, IsSnapshot, GameRecord
  <1>3. CASE OtherL /\ FeedStep
    <2>1. PICK k : k = IF \/ feed'[g].away > feed[g].away
                          \/ feed'[g].home > feed[g].home
                       THEN 1 ELSE 0
      OBVIOUS
    <2>2. Within(feed'[g], feed[g], k)
      BY <1>3, <2>1, FeedGrows DEF FeedStep, Typed, TypeOK
    <2>3. scored'[g] = scored[g] + k /\ k \in {0, 1}
      BY <1>1, <1>3, <2>1 DEF OtherL, Count
    <2>4. UNCHANGED <<old, active, scoredOld, scoredNew>>
      BY <1>3 DEF OtherL, FeedStep, botVars
    <2>5. feed'[g].away \in Nat /\ feed'[g].home \in Nat
      <3>1. FeedTypeOK'
        BY <1>3, FeedNextType DEF FeedStep, Typed, TypeOK
      <3>2. QED
        BY <3>1 DEF FeedTypeOK, GameRecord
    <2>6. Ordered(g)'
      BY <1>1, <2>3, <2>4 DEF Ordered
    <2>7. Grown(g)'
      BY <1>1, <1>2, <2>2, <2>3, <2>4, <2>5 DEF Grown, Within, Ordered
    <2>8. QED
      BY <2>6, <2>7
  <1>4. CASE FailsL \/ (OtherL /\ ~FeedStep)
    <2>1. feed' = feed /\ UNCHANGED <<old, active>>
      BY <1>4 DEF FailsL, OtherL, Start, StartFails, LoopTest, FetchFails, PuckDrop,
                  Compare, CompareFails, Post, PostFails, Raise, Posted, WakeUp,
                  RequestStop, CloseClient, feedVars, botVars
    <2>2. scored' = scored /\ UNCHANGED <<scoredOld, scoredNew>>
      BY <1>4, <2>1, CountOfScores DEF FailsL, OtherL, LedgerInv
    <2>3. QED
      BY <1>1, <2>1, <2>2 DEF Ordered, Grown
  <1>5. CASE FetchL
    <2>1. /\ scoredNew' = scored /\ UNCHANGED <<scored, scoredOld, feed, old>>
          /\ active' = ActiveGames(feed)
      BY <1>5 DEF FetchL, Fetch, feedVars
    <2>2. g \in DOMAIN active' => /\ active'[g].away = feed[g].away
                                  /\ active'[g].home = feed[g].home
      BY <2>1, <1>2 DEF ActiveGames, GameData, Typed, TypeOK, FeedTypeOK, GameRecord
    <2>3. QED
      BY <1>1, <1>2, <2>1, <2>2 DEF Ordered, Grown, Within
  <1>6. CASE CommitL
    <2>1. /\ scoredOld' = scoredNew /\ UNCHANGED <<scored, scoredNew, feed, active>>
          /\ old' = active
      BY <1>6 DEF CommitL, Commit, feedVars
    <2>2. QED
      BY <1>1, <1>2, <2>1 DEF Ordered, Grown, Within
  <1>7. QED
    BY <1>3, <1>4, <1>5, <1>6 DEF LedgerNext

\* A goal that may be told puts the new snapshot ahead of the old one.
LEMMA GoalTold ==
  ASSUME Typed, LedgerInv, NEW h, Ticker!True(h), h.kind = "goal"
  PROVE  h.game \in Games /\ scoredOld[h.game] < scoredNew[h.game]
  <1> DEFINE g == h.game
  <1>1. /\ g \in DOMAIN old \cap DOMAIN active
        /\ \/ active[g].away > old[g].away
           \/ active[g].home > old[g].home
    BY DEF Ticker!True, Ticker!BothHave, Ticker!Gained
  <1>2. /\ g \in Games
        /\ old[g].away \in Nat /\ old[g].home \in Nat
        /\ active[g].away \in Nat /\ active[g].home \in Nat
    BY <1>1 DEF Typed, TypeOK, IsSnapshot, GameRecord
  <1>3. /\ scoredOld[g] \in Nat /\ scoredNew[g] \in Nat
        /\ Within(active[g], old[g], scoredNew[g] - scoredOld[g])
    BY <1>1, <1>2 DEF LedgerInv, LedgerTyped, Counters, Grown
  <1>4. QED
    BY <1>1, <1>2, <1>3 DEF Within

\* What the delivery of a message does to the account of one guild and game.
LEMMA DeliverCounts ==
  ASSUME Typed, RoundInv, LedgerInv, Count, pc = "send",
         NEW gd \in Guilds, gd \in guilds, Deliver(gd),
         NEW r \in Recipients, NEW g \in Games
  PROVE  \/ /\ credited'[r][g] = credited[r][g]
            /\ Goals(told'[r], g) = Goals(told[r], g)
         \/ /\ credited'[r][g] = credited[r][g] + 1
            /\ Goals(told[r], g) = {} /\ Goals(told'[r], g) # {}
            /\ scoredOld[g] < scoredNew[g]
  <1>1. PICK h : /\ told' = [told EXCEPT ![gd] = @ \cup {h}]
                 /\ Ticker!True(h)
                 /\ \A k \in told[gd] : ~Alike(h, k)
    BY DeliverSound
  <1>2. /\ gd \in Recipients /\ told \in [Recipients -> SUBSET MessageRecord]
        /\ LedgerTyped
    BY DeliverSound DEF Typed, TypeOK, LedgerInv
  <1>3. CASE r # gd
    <2>1. told'[r] = told[r]
      BY <1>1, <1>2, <1>3
    <2>2. QED
      BY <1>2, <2>1, CountOfCredits
  <1>4. CASE r = gd
    <2>1. told'[r] = told[r] \cup {h}
      BY <1>1, <1>2, <1>4
    <2>2. credited'[r][g] = IF NewGoal(r, g) THEN credited[r][g] + 1
                                             ELSE credited[r][g]
      BY DEF Count
    <2>3. CASE h.kind = "goal" /\ h.game = g
      <3>1. Goals(told[r], g) = {}
        BY <1>1, <1>4, <2>3 DEF Goals, Alike
      <3>2. h \in Goals(told'[r], g)
        BY <2>1, <2>3 DEF Goals
      <3>3. NewGoal(r, g)
        BY <3>1, <3>2 DEF NewGoal
      <3>4. scoredOld[g] < scoredNew[g]
        BY <1>1, <2>3, GoalTold
      <3>5. QED
        BY <2>2, <3>1, <3>2, <3>3, <3>4
    <2>4. CASE ~(h.kind = "goal" /\ h.game = g)
      <3>1. Goals(told'[r], g) = Goals(told[r], g)
        BY <2>1, <2>4 DEF Goals
      <3>2. ~NewGoal(r, g)
        BY <3>1 DEF NewGoal
      <3>3. QED
        BY <2>2, <3>1, <3>2
    <2>5. QED
      BY <2>3, <2>4
  <1>5. QED
    BY <1>3, <1>4

LEMMA BalancedNext ==
  ASSUME Typed, RoundInv, LedgerInv, LedgerNext, NEW r \in Recipients, NEW g \in Games
  PROVE  Balanced(r, g)'
  <1>1. /\ LedgerTyped
        /\ scoredOld[g] \in Nat /\ scoredNew[g] \in Nat /\ scored[g] \in Nat
        /\ credited[r][g] \in Nat /\ failures \in Nat
        /\ Ordered(g) /\ Balanced(r, g)
    BY DEF LedgerInv, LedgerTyped, Counters
  <1>2. CASE OtherL /\ ~ \E gd \in Guilds : Post(gd)
    <2>1. told' = told /\ (InRound' <=> InRound)
      BY <1>2 DEF OtherL, FeedStep, RequestStop, CloseClient, Start, StartFails,
                  LoopTest, FetchFails, WakeUp, PuckDrop, Compare, Posted, botVars,
                  history, InRound
    <2>2. /\ credited'[r] = credited[r]
          /\ UNCHANGED <<scoredOld, scoredNew, failures>>
      BY <1>1, <1>2, <2>1, CountOfCredits DEF OtherL
    <2>3. Heard(r, g)' <=> Heard(r, g)
      BY <2>1 DEF Heard, Goals
    <2>4. QED
      BY <1>1, <2>2, <2>3 DEF Balanced
  <1>3. CASE OtherL /\ \E gd \in Guilds : Post(gd)
    <2>1. PICK gd \in Guilds : Post(gd)
      BY <1>3
    <2>2. /\ InRound /\ InRound' /\ Count
          /\ UNCHANGED <<scoredOld, scoredNew, failures>>
      BY <1>3, <2>1 DEF OtherL, Post, InRound
    <2>3. \/ /\ credited'[r][g] = credited[r][g]
             /\ Goals(told'[r], g) = Goals(told[r], g)
          \/ /\ credited'[r][g] = credited[r][g] + 1
             /\ Goals(told[r], g) = {} /\ Goals(told'[r], g) # {}
             /\ scoredOld[g] < scoredNew[g]
      BY <2>1, <2>2, DeliverCounts DEF Post
    <2>4. /\ Heard(r, g) <=> Goals(told[r], g) # {}
          /\ Heard(r, g)' <=> Goals(told'[r], g) # {}
      BY <2>2 DEF Heard, Goals
    <2>5. QED
      BY <1>1, <2>2, <2>3, <2>4 DEF Balanced
  <1>4. CASE FailsL
    <2>1. ~InRound' /\ InRound /\ Count /\ failures' = failures + 1
          /\ UNCHANGED <<scoredOld, scoredNew>>
      BY <1>4 DEF FailsL, PostFails, CompareFails, Raise, InRound
    <2>2. /\ credited'[r][g] \in Nat
          /\ credited'[r][g] <= scoredOld[g] + failures + 1
      <3>1. CASE told' = told
        BY <1>1, <2>1, <3>1, CountOfCredits DEF Balanced
      <3>2. CASE told' # told
        <4>1. PICK gd \in Guilds : PostFails(gd)
          BY <1>4, <3>2 DEF FailsL, CompareFails
        <4>2. pc = "send" /\ gd \in guilds /\ Deliver(gd)
          BY <4>1, <3>2 DEF PostFails
        <4>3. \/ credited'[r][g] = credited[r][g]
              \/ /\ credited'[r][g] = credited[r][g] + 1
                 /\ Goals(told[r], g) = {}
          BY <2>1, <4>2, DeliverCounts
        <4>4. QED
          BY <1>1, <4>3 DEF Balanced, Heard
      <3>3. QED
        BY <3>1, <3>2
    <2>3. ~Heard(r, g)'
      BY <2>1 DEF Heard
    <2>4. QED
      BY <1>1, <2>1, <2>2, <2>3 DEF Balanced
  <1>5. CASE FetchL
    <2>1. /\ ~InRound /\ told' = NothingTold
          /\ UNCHANGED <<scoredOld, credited, failures>>
      BY <1>5 DEF FetchL, Fetch, InRound
    <2>2. ~Heard(r, g) /\ ~Heard(r, g)'
      BY <2>1 DEF Heard, Goals, NothingTold
    <2>3. QED
      BY <1>1, <2>1, <2>2 DEF Balanced
  <1>6. CASE CommitL
    <2>1. /\ ~InRound' /\ scoredOld' = scoredNew
          /\ UNCHANGED <<credited, failures>>
      BY <1>6 DEF CommitL, Commit, InRound
    <2>2. ~Heard(r, g)'
      BY <2>1 DEF Heard
    <2>3. QED
      BY <1>1, <2>1, <2>2 DEF Balanced, Ordered
  <1>7. QED
    BY <1>2, <1>3, <1>4, <1>5, <1>6 DEF LedgerNext

LEMMA LedgerTypedNext ==
  ASSUME LedgerTyped, LedgerNext
  PROVE  LedgerTyped'
  <1>1. CASE FetchL \/ CommitL
    BY <1>1 DEF FetchL, CommitL, LedgerTyped
  <1>2. CASE FailsL \/ OtherL
    BY <1>2, CountTyped DEF FailsL, OtherL, LedgerTyped
  <1>3. QED
    BY <1>1, <1>2 DEF LedgerNext

LEMMA LedgerInvNext ==
  Typed /\ RoundInv /\ LedgerInv /\ [LedgerNext]_<<vars, ledger>> => LedgerInv'
  <1> SUFFICES ASSUME Typed, RoundInv, LedgerInv, [LedgerNext]_<<vars, ledger>>
               PROVE  LedgerInv'
    OBVIOUS
  <1>1. CASE UNCHANGED <<vars, ledger>>
    BY <1>1 DEF LedgerInv, LedgerTyped, Ordered, Grown, Balanced, Heard, Goals,
                InRound, vars, ledger, feedVars, botVars, history
  <1>2. CASE LedgerNext
    <2>1. LedgerTyped'
      BY <1>2, LedgerTypedNext DEF LedgerInv
    <2>2. QED
      BY <1>2, <2>1, GrownNext, BalancedNext DEF LedgerInv
  <1>3. QED
    BY <1>1, <1>2

\* No guild is ever told of more goals of a game than were scored in it, plus
\* one per attempt cut short by an exception, however many games, guilds,
\* events and failures there are.
THEOREM NoPhantomGoalsEver == LedgerSpec => []NoPhantomGoals
  <1>1. LedgerInv => NoPhantomGoals
    <2> SUFFICES ASSUME LedgerInv, NEW gd \in Recipients, NEW g \in Games
                 PROVE  credited[gd][g] <= scored[g] + failures
      BY DEF NoPhantomGoals
    <2>1. /\ scoredOld[g] \in Nat /\ scoredNew[g] \in Nat /\ scored[g] \in Nat
          /\ credited[gd][g] \in Nat /\ failures \in Nat
          /\ Ordered(g) /\ Balanced(gd, g)
      BY DEF LedgerInv, LedgerTyped, Counters
    <2>2. QED
      BY <2>1 DEF Ordered, Balanced
  <1>2. QED
    BY <1>1, LedgerInitInv, LedgerInvNext, LedgerBot, PTL DEF LedgerSpec
=============================================================================
