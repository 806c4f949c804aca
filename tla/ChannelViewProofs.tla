------------------------- MODULE ChannelViewProofs -------------------------
(***************************************************************************)
(* A channel shows the score the bot compares with, for any games, guilds, *)
(* settings and bounds.  Between rounds that is the old snapshot's; in a   *)
(* round it is the new one's for the games already spoken of.              *)
(***************************************************************************)
EXTENDS ChannelView, GameBreakBotProofs

\* A message is true of the new snapshot: a puck drop is about a game that
\* the old one lacks, any other shows the score.
Sound(m) == /\ m.game \in DOMAIN active
            /\ m.kind = "drop" => m.game \notin DOMAIN old
            /\ m.kind # "drop" => Score(m) = Score(active[m.game])

\* So is what was told in this round.
ToldTrue == InRound => \A gd \in Recipients : \A m \in told[gd] : Sound(m)

\* Game g has been spoken of in this round.
Spoken(gd, g) == InRound /\ g \in Subjects(told[gd])

Shows(gd, g) == /\ Spoken(gd, g) /\ g \notin drifted[gd] =>
                       shown[gd][g] = Score(active[g])
                /\ g \in DOMAIN old \ drifted[gd] /\ ~Spoken(gd, g) =>
                       shown[gd][g] = Score(old[g])

ViewInv == /\ ToldTrue
           /\ \A gd \in Recipients : \A g \in Games : Shows(gd, g)

-----------------------------------------------------------------------------
\* The view only watches the bot.
LEMMA ViewStep == [ViewNext]_<<vars, view>> => [Next]_vars
  BY DEF ViewNext, Abort, Close, Speak, Quiet, Next, Scan

LEMMA ViewBot == ViewSpec => [](Typed /\ RoundInv)
  <1>1. ViewInit => Typed /\ RoundInv
    BY TypedInit, RoundInit DEF ViewInit
  <1>2. Typed /\ RoundInv /\ [ViewNext]_<<vars, view>> => (Typed /\ RoundInv)'
    BY ViewStep, TypedNext, RoundNext
  <1>3. QED
    BY <1>1, <1>2, PTL DEF ViewSpec

LEMMA ViewInvInit == ViewInit => ViewInv
  BY DEF ViewInit, Init, ViewInv, ToldTrue, Shows, Spoken, InRound

-----------------------------------------------------------------------------
\* What changes when messages are heard: a channel shows the new score of
\* the games they are about, but for late puck drops.
LEMMA HearShows ==
  ASSUME Typed, NEW raised \in BOOLEAN, Hear(raised),
         UNCHANGED <<old, active>>,
         \A gd \in Recipients : \A m \in told'[gd] : Sound(m),
         NEW gd \in Recipients, NEW g \in Games
  PROVE  /\ g \in Subjects(told'[gd] \ told[gd]) \ LateDrops(told'[gd] \ told[gd]) =>
               shown'[gd][g] = Score(active[g])
         /\ g \notin Subjects(told'[gd] \ told[gd]) => shown'[gd][g] = shown[gd][g]
         /\ drifted'[gd] = (drifted[gd] \ Subjects(told'[gd] \ told[gd]))
                              \cup LateDrops(told'[gd] \ told[gd])
                              \cup (IF raised THEN Aborted(gd) ELSE {})
  <1> DEFINE new == told'[gd] \ told[gd]
  <1>1. /\ shown'[gd][g] = IF g \in Subjects(new)
                           THEN Score(CHOOSE m \in new : m.game = g)
                           ELSE shown[gd][g]
        /\ drifted'[gd] = (drifted[gd] \ Subjects(new))
                             \cup LateDrops(new)
                             \cup (IF raised THEN Aborted(gd) ELSE {})
    BY DEF Hear
  <1>2. ASSUME g \in Subjects(new) \ LateDrops(new)
        PROVE  Score(CHOOSE m \in new : m.game = g) = Score(active[g])
    <2>1. \E m \in new : m.game = g
      BY <1>2 DEF Subjects
    <2>2. /\ (CHOOSE m \in new : m.game = g) \in new
          /\ (CHOOSE m \in new : m.game = g).game = g
      BY <2>1
    <2>3. PICK m \in new : m = CHOOSE k \in new : k.game = g
      BY <2>2
    <2>4. m.game = g /\ Sound(m)
      BY <2>2, <2>3
    <2>5. CASE m.kind = "drop"
      BY <1>2, <2>3, <2>4, <2>5 DEF LateDrops
    <2>6. CASE m.kind # "drop"
      BY <2>3, <2>4, <2>6 DEF Sound
    <2>7. QED
      BY <2>3, <2>5, <2>6
  <1>3. QED
    BY <1>1, <1>2

\* A step of a round that goes on: messages true of the new snapshot.
LEMMA SpeakKeeps ==
  ASSUME Typed, ViewInv, InRound, Hear(FALSE), UNCHANGED <<old, active>>,
         \A gd \in Recipients : told[gd] \subseteq told'[gd],
         \A gd \in Recipients : \A m \in told'[gd] : Sound(m),
         InRound'
  PROVE  ViewInv'
  <1>1. ToldTrue'
    BY DEF ToldTrue, Sound
  <1>2. ASSUME NEW gd \in Recipients, NEW g \in Games
        PROVE  Shows(gd, g)'
    <2> DEFINE new == told'[gd] \ told[gd]
    <2>1. /\ g \in Subjects(new) \ LateDrops(new) => shown'[gd][g] = Score(active[g])
          /\ g \notin Subjects(new) => shown'[gd][g] = shown[gd][g]
          /\ drifted'[gd] = (drifted[gd] \ Subjects(new)) \cup LateDrops(new)
      BY HearShows
    <2>2. Subjects(told'[gd]) = Subjects(told[gd]) \cup Subjects(new)
      BY DEF Subjects
    <2>3. Spoken(gd, g)' <=> g \in Subjects(told'[gd])
      BY DEF Spoken, Subjects
    <2>4. Spoken(gd, g) <=> g \in Subjects(told[gd])
      BY DEF Spoken
    <2>5. Shows(gd, g)
      BY DEF ViewInv
    <2> HIDE DEF new
    <2>6. QED
      BY <2>1, <2>2, <2>3, <2>4, <2>5 DEF Shows
  <1>3. QED
    BY <1>1, <1>2 DEF ViewInv

\* An attempt is cut short.  A game spoken of is stale unless all it was said
\* shows the old score: then the channel shows that, old and new at once.
LEMMA AbortKeeps ==
  ASSUME Typed, ViewInv, InRound, Hear(TRUE), UNCHANGED <<old, active>>,
         \A gd \in Recipients : told[gd] \subseteq told'[gd],
         \A gd \in Recipients : \A m \in told'[gd] : Sound(m),
         ~InRound'
  PROVE  ViewInv'
  <1>1. ToldTrue'
    BY DEF ToldTrue
  <1>2. ASSUME NEW gd \in Recipients, NEW g \in Games
        PROVE  Shows(gd, g)'
    <2> DEFINE new == told'[gd] \ told[gd]
    <2>1. /\ g \in Subjects(new) \ LateDrops(new) => shown'[gd][g] = Score(active[g])
          /\ g \notin Subjects(new) => shown'[gd][g] = shown[gd][g]
          /\ drifted'[gd] = (drifted[gd] \ Subjects(new)) \cup LateDrops(new)
                               \cup Aborted(gd)
      BY HearShows
    <2>2. Subjects(told'[gd]) = Subjects(told[gd]) \cup Subjects(new)
      BY DEF Subjects
    <2>3. ~Spoken(gd, g)'
      BY DEF Spoken
    <2>4. Spoken(gd, g) <=> g \in Subjects(told[gd])
      BY DEF Spoken
    <2>5. Shows(gd, g)
      BY DEF ViewInv
    <2>6. ASSUME g \in DOMAIN old \ drifted'[gd], g \in Subjects(told'[gd])
          PROVE  Score(active[g]) = Score(old[g])
      <3>1. PICK m \in told'[gd] : m.game = g
        BY <2>6 DEF Subjects
      <3>2. Score(m) = Score(active[g])
        BY <2>6, <3>1 DEF Sound
      <3>3. g \notin Aborted(gd)
        BY <2>1, <2>6
      <3>4. QED
        BY <2>6, <3>1, <3>2, <3>3 DEF Aborted
    <2> HIDE DEF new
    <2>7. ASSUME g \in DOMAIN old \ drifted'[gd]
          PROVE  shown'[gd][g] = Score(old[g])
      <3>1. CASE g \in Subjects(new)
        BY <2>1, <2>2, <2>6, <2>7, <3>1
      <3>2. CASE g \notin Subjects(new) /\ g \in Subjects(told[gd])
        BY <2>1, <2>2, <2>4, <2>5, <2>6, <2>7, <3>2 DEF Shows
      <3>3. CASE g \notin Subjects(new) /\ g \notin Subjects(told[gd])
        BY <2>1, <2>4, <2>5, <2>7, <3>3 DEF Shows
      <3>4. QED
        BY <3>1, <3>2, <3>3
    <2>8. QED
      BY <2>3, <2>7 DEF Shows
  <1>3. QED
    BY <1>1, <1>2 DEF ViewInv

\* What a guild has been told, with a message just delivered, is true.
LEMMA DeliveredTrue ==
  ASSUME Typed, RoundInv, ViewInv, pc = "send", NEW to \in Guilds, to \in guilds,
         Deliver(to) \/ UNCHANGED told
  PROVE  \A gd \in Recipients : /\ told[gd] \subseteq told'[gd]
                                /\ \A m \in told'[gd] : Sound(m)
  <1>1. \A gd \in Recipients : \A m \in told[gd] : Sound(m)
    BY DEF ViewInv, ToldTrue, InRound
  <1>2. CASE UNCHANGED told
    BY <1>1, <1>2
  <1>3. CASE Deliver(to)
    <2>1. to \in Recipients
      BY <1>3, DeliverSound
    <2>2. PICK h : told' = [told EXCEPT ![to] = @ \cup {h}] /\ Ticker!True(h)
      BY <1>3, DeliverSound
    <2>3. Sound(h)
      BY <2>2 DEF Sound, Ticker!True, Ticker!NewlyLive, Ticker!BothHave, Score
    <2>4. told \in [Recipients -> SUBSET MessageRecord]
      BY DEF Typed, TypeOK
    <2>5. ASSUME NEW gd \in Recipients
          PROVE  told'[gd] = IF gd = to THEN told[gd] \cup {h} ELSE told[gd]
      BY <2>1, <2>2, <2>4
    <2>6. QED
      BY <1>1, <2>3, <2>5
  <1>4. QED
    BY <1>2, <1>3

-----------------------------------------------------------------------------
\* The snapshot is committed: whatever was not spoken of has not moved, or is
\* one of the exceptions.
LEMMA CloseKeeps == ASSUME Typed, RoundInv, ViewInv, Close PROVE ViewInv'
  <1>1. /\ InRound /\ ~InRound' /\ old' = active
        /\ UNCHANGED <<active, told, skipped, shown>>
        /\ \A gd \in Recipients : drifted'[gd] = drifted[gd] \cup Unspoken(gd)
    BY DEF Close, Commit, InRound, history
  <1>2. ToldTrue'
    BY <1>1 DEF ToldTrue
  <1>3. Ticker!Advance
    BY CommitAdvances DEF Close
  <1>4. ASSUME NEW gd \in Recipients, NEW g \in Games
        PROVE  Shows(gd, g)'
    <2>1. ~Spoken(gd, g)'
      BY <1>1 DEF Spoken
    <2>2. Shows(gd, g)
      BY DEF ViewInv
    <2>3. ASSUME g \in DOMAIN active, g \notin drifted'[gd]
          PROVE  shown[gd][g] = Score(active[g])
      <3>1. CASE g \in Subjects(told[gd])
        BY <1>1, <2>2, <2>3, <3>1 DEF Shows, Spoken
      <3>2. CASE g \notin Subjects(told[gd])
        <4>1. /\ g \in DOMAIN old /\ g \notin skipped /\ g \notin drifted[gd]
              /\ old[g].state # "FINAL"
          BY <1>1, <2>3, <3>2 DEF Unspoken
        <4>2. old[g].state = "LIVE"
          BY <4>1 DEF Typed, TypeOK, IsSnapshot, IsActive, GameRecord, ApiStates
        <4>3. Ticker!Settled(gd, g)
          BY <1>3, <2>3, <4>1 DEF Ticker!Advance, Ticker!BothHave
        <4>4. ~Ticker!Told(gd, g, {"goal", "reversal"})
          BY <3>2 DEF Ticker!Told, Subjects
        <4>5. Score(active[g]) = Score(old[g])
          BY <4>2, <4>3, <4>4 DEF Ticker!Settled, Ticker!ScoreMoved, Score
        <4>6. QED
          BY <2>2, <3>2, <4>1, <4>5 DEF Shows, Spoken
      <3>3. QED
        BY <3>1, <3>2
    <2>4. QED
      BY <1>1, <2>1, <2>3 DEF Shows
  <1>5. QED
    BY <1>2, <1>4 DEF ViewInv

LEMMA QuietKeeps == ASSUME ViewInv, Quiet PROVE ViewInv'
  <1>1. CASE Fetch
    <2>1. \A gd \in Recipients : told'[gd] = {}
      BY <1>1 DEF Fetch, NothingTold
    <2>2. ToldTrue'
      BY <2>1 DEF ToldTrue
    <2>3. ASSUME NEW gd \in Recipients, NEW g \in Games
          PROVE  Shows(gd, g)'
      BY <1>1, <2>1, <2>3 DEF Quiet, view, Fetch, ViewInv, Shows, Spoken, Subjects, InRound
    <2>4. QED
      BY <2>2, <2>3 DEF ViewInv
  <1>2. CASE FeedStep \/ RequestStop \/ CloseClient
    <2>1. UNCHANGED <<pc, old, active, told, shown, drifted>>
      BY <1>2 DEF Quiet, FeedStep, RequestStop, CloseClient, view, botVars, history
    <2>2. QED
      BY <2>1 DEF ViewInv, ToldTrue, Sound, Shows, Spoken, Subjects, InRound
  <1>3. CASE Start \/ StartFails \/ LoopTest \/ FetchFails \/ WakeUp
    <2>1. /\ ~InRound /\ ~(InRound')
          /\ UNCHANGED <<old, shown, drifted>>
      BY <1>3 DEF Quiet, Start, StartFails, LoopTest, FetchFails, WakeUp, view, InRound
    <2>2. QED
      BY <2>1 DEF ViewInv, ToldTrue, Shows, Spoken
  <1>4. QED
    BY <1>1, <1>2, <1>3 DEF Quiet

LEMMA ViewInvNext ==
  Typed /\ RoundInv /\ ViewInv /\ [ViewNext]_<<vars, view>> => ViewInv'
  <1> SUFFICES ASSUME Typed, RoundInv, ViewInv, [ViewNext]_<<vars, view>>
               PROVE  ViewInv'
    OBVIOUS
  <1>1. CASE UNCHANGED <<vars, view>>
    BY <1>1 DEF vars, view, botVars, history, ViewInv, ToldTrue, Sound, Shows, Spoken, Subjects,
                InRound
  <1>2. ASSUME InRound, UNCHANGED told
        PROVE  \A gd \in Recipients : /\ told[gd] \subseteq told'[gd]
                                      /\ \A m \in told'[gd] : Sound(m)
    BY <1>2 DEF ViewInv, ToldTrue
  <1>3. ASSUME NEW gd \in Guilds, PostFails(gd), Hear(TRUE)
        PROVE  ViewInv'
    <2>1. InRound /\ ~(InRound') /\ UNCHANGED <<old, active>>
      BY <1>3 DEF PostFails, Raise, InRound
    <2>2. QED
      BY <1>3, <2>1, DeliveredTrue, AbortKeeps DEF PostFails
  <1>4. ASSUME NEW g \in Games, CompareFails(g), Hear(TRUE)
        PROVE  ViewInv'
    <2>1. InRound /\ ~(InRound') /\ UNCHANGED <<old, active, told>>
      BY <1>4 DEF CompareFails, Raise, InRound
    <2>2. QED
      BY <1>2, <1>4, <2>1, AbortKeeps
  <1>5. ASSUME NEW gd \in Guilds, Post(gd), Hear(FALSE)
        PROVE  ViewInv'
    <2>1. InRound /\ InRound' /\ UNCHANGED <<old, active>>
      BY <1>5 DEF Post, InRound
    <2>2. QED
      BY <1>5, <2>1, DeliveredTrue, SpeakKeeps DEF Post
  <1>6. ASSUME (\E g \in Games : PuckDrop(g) \/ Compare(g)) \/ Posted, Hear(FALSE)
        PROVE  ViewInv'
    <2>1. InRound /\ InRound' /\ UNCHANGED <<old, active, told>>
      BY <1>6 DEF PuckDrop, Compare, Posted, InRound, history
    <2>2. QED
      BY <1>2, <1>6, <2>1, SpeakKeeps
  <1>7. QED
    BY <1>1, <1>3, <1>4, <1>5, <1>6, CloseKeeps, QuietKeeps DEF ViewNext, Abort, Speak

\* Whenever the bot sleeps, a channel shows the score of every game it will
\* compare with, but for the named exceptions since their last message: for
\* any games, guilds, failures and changes of the API (bot.py's loop).
THEOREM ChannelShowsScoreEver == ViewSpec => []ChannelShowsScore
  <1>1. ViewSpec => []ViewInv
    BY ViewInvInit, ViewInvNext, ViewBot, PTL DEF ViewSpec
  <1>2. Typed /\ ViewInv => ChannelShowsScore
    BY DEF Typed, TypeOK, IsSnapshot, ViewInv, Shows, Spoken, InRound, ChannelShowsScore
  <1>3. QED
    BY <1>1, <1>2, ViewBot, PTL
=============================================================================
