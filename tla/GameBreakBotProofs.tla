------------------------ MODULE GameBreakBotProofs ------------------------
(***************************************************************************)
(* Theorems about the notification server, for any games, guilds, settings *)
(* and bounds: it is type correct, and it implements LiveTicker.           *)
(***************************************************************************)
EXTENDS GameBreakBot, AnnouncementsProofs

-----------------------------------------------------------------------------
(***************************************************************************)
(* Type correctness.                                                       *)
(***************************************************************************)

\* The snapshot made of an answer of the API is one.
LEMMA ActiveGamesIsSnapshot ==
  ASSUME feed \in [Games -> GameRecord]
  PROVE  IsSnapshot(ActiveGames(feed))
  <1> DEFINE D == {g \in Games : IsActive(feed[g])}
  <1>1. /\ DOMAIN ActiveGames(feed) = D
        /\ \A g \in D : ActiveGames(feed)[g] = GameData(feed[g])
        /\ ActiveGames(feed) = [g \in D |-> GameData(feed[g])]
    BY DEF ActiveGames
  <1>2. ASSUME NEW g \in D
        PROVE  GameData(feed[g]) \in {r \in GameRecord : IsActive(r)}
    <2>1. feed[g] \in GameRecord /\ IsActive(feed[g])
      OBVIOUS
    <2>2. QED
      BY <2>1 DEF GameData, GameRecord, IsActive
  <1>3. QED
    BY <1>1, <1>2 DEF IsSnapshot

\* Whatever the API reports next is well formed.
LEMMA FeedNextType ==
  ASSUME FeedTypeOK, FeedNext
  PROVE  FeedTypeOK'
  <1>1. ASSUME NEW g \in Games
        PROVE  /\ feed[g] \in GameRecord
               /\ feed[g].away \in Nat /\ feed[g].home \in Nat
               /\ feed[g].period \in Nat
    BY DEF FeedTypeOK, GameRecord
  <1>2. ASSUME NEW g \in Games, NEW r \in GameRecord, Report(g, r)
        PROVE  FeedTypeOK'
    BY <1>2 DEF FeedTypeOK, Report
  <1>3. ASSUME NEW g \in Games, FaceOff(g)
        PROVE  FeedTypeOK'
    <2>1. [feed[g] EXCEPT !.state = "LIVE", !.period = 1] \in GameRecord
      BY <1>1 DEF GameRecord, ApiStates
    <2>2. QED
      BY <1>2, <1>3, <2>1 DEF FaceOff
  <1>4. ASSUME NEW g \in Games, AwayGoal(g) \/ HomeGoal(g)
        PROVE  FeedTypeOK'
    <2>1. /\ [feed[g] EXCEPT !.away = @ + 1] \in GameRecord
          /\ [feed[g] EXCEPT !.home = @ + 1] \in GameRecord
      BY <1>1 DEF GameRecord
    <2>2. QED
      BY <1>2, <1>4, <2>1 DEF AwayGoal, HomeGoal
  <1>5. ASSUME NEW g \in Games, AwayOverturned(g) \/ HomeOverturned(g)
        PROVE  FeedTypeOK'
    <2>1. /\ feed[g].away > 0 => [feed[g] EXCEPT !.away = @ - 1] \in GameRecord
          /\ feed[g].home > 0 => [feed[g] EXCEPT !.home = @ - 1] \in GameRecord
      BY <1>1 DEF GameRecord
    <2>2. QED
      BY <1>2, <1>5, <2>1 DEF AwayOverturned, HomeOverturned
  <1>6. ASSUME NEW g \in Games, PeriodEnds(g) \/ PeriodStarts(g)
        PROVE  FeedTypeOK'
    <2>1. [feed[g] EXCEPT !.end = TRUE] \in GameRecord
      BY <1>1 DEF GameRecord
    <2>2. [feed[g] EXCEPT !.end = FALSE, !.period = @ + 1] \in GameRecord
      <3>1. feed[g].period + 1 \in Nat
        BY <1>1
      <3>2. QED
        BY <1>1, <3>1 DEF GameRecord
    <2>3. QED
      BY <1>2, <1>6, <2>1, <2>2 DEF PeriodEnds, PeriodStarts
  <1>7. ASSUME NEW g \in Games, RestChanges(g) \/ GameOver(g)
        PROVE  FeedTypeOK'
    <2>1. /\ \A r \in Nat : [feed[g] EXCEPT !.rest = r] \in GameRecord
          /\ [feed[g] EXCEPT !.state = "FINAL"] \in GameRecord
      BY <1>1 DEF GameRecord, ApiStates
    <2>2. 0..MaxRest \subseteq Nat
      BY FeedBounds
    <2>3. QED
      BY <1>2, <1>7, <2>1, <2>2 DEF RestChanges, GameOver
  <1>8. CASE NextDay
    <2>1. Scheduled \in GameRecord
      BY DEF Scheduled, GameRecord, ApiStates
    <2>2. QED
      BY <1>8, <2>1 DEF NextDay, FeedTypeOK
  <1>9. QED
    BY <1>3, <1>4, <1>5, <1>6, <1>7, <1>8 DEF FeedNext

\* The messages due for a game of the new snapshot are well formed.
LEMMA DueType ==
  ASSUME IsSnapshot(old), IsSnapshot(active), NEW g \in DOMAIN active
  PROVE  Due(g) \in Seq(MessageRecord)
  <1>1. g \in Games /\ active[g] \in ActiveRecord
    BY DEF IsSnapshot, ActiveRecord
  <1>2. CASE g \in DOMAIN old
    <2>1. old[g] \in ActiveRecord
      BY <1>2 DEF IsSnapshot, ActiveRecord
    <2>2. Messages(g, old[g], active[g]) \in Seq(GameMessage(g))
      BY <1>1, <2>1, MessagesSound
    <2>3. GameMessage(g) \subseteq MessageRecord
      BY <1>1 DEF GameMessage, MessageRecord
    <2>4. QED
      BY <1>2, <2>2, <2>3, SeqMonotonic DEF Due
  <1>3. CASE g \notin DOMAIN old
    BY <1>3 DEF Due
  <1>4. QED
    BY <1>2, <1>3

\* TypeOK alone is not inductive: a game is visited only if the new snapshot
\* has it, and something is sent only while there is something to send.
Typed == /\ TypeOK
         /\ pending \subseteq DOMAIN active
         /\ pc = "send" <=> outbox # <<>>

LEMMA TypedInit == Init => Typed
  <1> SUFFICES ASSUME Init PROVE Typed
    OBVIOUS
  <1>1. Scheduled \in GameRecord
    BY DEF Scheduled, GameRecord, ApiStates
  <1>2. FeedTypeOK
    BY <1>1 DEF Init, FeedInit, FeedTypeOK
  <1>3. QED
    BY <1>2 DEF Init, Typed, TypeOK, Points, IsSnapshot, NothingTold, Recipients

\* Raising an exception keeps the types.
LEMMA RaiseTyped ==
  ASSUME Typed, Raise, reload' \in BOOLEAN,
         told' \in [Recipients -> SUBSET MessageRecord]
  PROVE  Typed'
  <1>1. outbox' = <<>> /\ pc' = "head" /\ guilds' = {} /\ pending' = {}
    BY DEF Raise
  <1>2. QED
    BY <1>1 DEF Raise, Typed, TypeOK, Points, FeedTypeOK, feedVars, IsSnapshot

\* Delivering the message at hand keeps the type of the history.
LEMMA DeliverType ==
  ASSUME Typed, pc = "send", NEW gd \in Recipients, Deliver(gd)
  PROVE  told' \in [Recipients -> SUBSET MessageRecord]
  <1>1. Head(outbox) \in MessageRecord
    BY HeadTailProperties DEF Typed, TypeOK
  <1>2. QED
    BY <1>1 DEF Deliver, Typed, TypeOK

LEMMA TypedNext == Typed /\ [Next]_vars => Typed'
  <1> SUFFICES ASSUME Typed, [Next]_vars PROVE Typed'
    OBVIOUS
  <1>1. CASE UNCHANGED vars
    BY <1>1 DEF Typed, TypeOK, FeedTypeOK, IsSnapshot, vars, feedVars, botVars,
                history
  <1>2. CASE FeedStep
    <2>1. FeedTypeOK'
      BY <1>2, FeedNextType DEF FeedStep, Typed, TypeOK
    <2>2. QED
      BY <1>2, <2>1 DEF FeedStep, Typed, TypeOK, IsSnapshot, botVars, history
  <1>3. CASE Start \/ StartFails \/ LoopTest \/ WakeUp \/ FetchFails
    BY <1>3 DEF Start, StartFails, LoopTest, WakeUp, FetchFails, Typed, TypeOK,
                FeedTypeOK, IsSnapshot, Points, feedVars, history
  <1>4. CASE RequestStop \/ CloseClient
    BY <1>4 DEF RequestStop, CloseClient, Typed, TypeOK, FeedTypeOK, IsSnapshot,
                feedVars, botVars, history
  <1>5. CASE Fetch
    <2>1. IsSnapshot(active')
      BY <1>5, ActiveGamesIsSnapshot DEF Fetch, Typed, TypeOK, FeedTypeOK
    <2>2. pending' \subseteq DOMAIN active'
      BY <1>5 DEF Fetch
    <2>3. NothingTold \in [Recipients -> SUBSET MessageRecord]
      BY DEF NothingTold
    <2>4. QED
      BY <1>5, <2>1, <2>2, <2>3 DEF Fetch, Typed, TypeOK, FeedTypeOK, IsSnapshot,
                                    Points, feedVars
  <1>6. CASE Commit
    BY <1>6 DEF Commit, Typed, TypeOK, FeedTypeOK, IsSnapshot, Points, feedVars,
                history
  <1>7. ASSUME NEW g \in Games, PuckDrop(g)
        PROVE  Typed'
    <2>1. DropMessage(g) \in MessageRecord
      BY DEF DropMessage, Message, MessageRecord, Kinds, Teams
    <2>2. outbox' \in Seq(MessageRecord) /\ outbox' # <<>>
      BY <1>7, <2>1 DEF PuckDrop
    <2>3. QED
      BY <1>7, <2>2 DEF PuckDrop, Typed, TypeOK, FeedTypeOK, IsSnapshot, Points,
                        feedVars
  <1>8. ASSUME NEW g \in Games, Compare(g)
        PROVE  Typed'
    <2>1. Due(g) \in Seq(MessageRecord)
      BY <1>8, DueType DEF Compare, Typed, TypeOK
    <2>2. pc' \in {"scan", "send"} /\ (pc' = "send" <=> outbox' # <<>>)
      BY <1>8 DEF Compare
    <2>3. QED
      BY <1>8, <2>1, <2>2 DEF Compare, Typed, TypeOK, FeedTypeOK, IsSnapshot,
                              Points, feedVars, history
  <1>9. ASSUME NEW g \in Games, CompareFails(g)
        PROVE  Typed'
    BY <1>9, RaiseTyped DEF CompareFails, Typed, TypeOK
  <1>10. ASSUME NEW gd \in Guilds, Post(gd)
         PROVE  Typed'
    <2>1. told' \in [Recipients -> SUBSET MessageRecord]
      BY <1>10, DeliverType DEF Post, Typed, TypeOK
    <2>2. QED
      BY <1>10, <2>1 DEF Post, Typed, TypeOK, FeedTypeOK, IsSnapshot, feedVars
  <1>11. ASSUME NEW gd \in Guilds, PostFails(gd)
         PROVE  Typed'
    <2>1. told' \in [Recipients -> SUBSET MessageRecord]
      BY <1>11, DeliverType DEF PostFails, Typed, TypeOK
    <2>2. QED
      BY <1>11, <2>1, RaiseTyped DEF PostFails, Typed, TypeOK
  <1>12. CASE Posted
    <2>1. Tail(outbox) \in Seq(MessageRecord)
      BY <1>12, HeadTailProperties DEF Posted, Typed, TypeOK
    <2>2. pc' \in {"scan", "send"} /\ (pc' = "send" <=> outbox' # <<>>)
      BY <1>12 DEF Posted
    <2>3. QED
      BY <1>12, <2>1, <2>2 DEF Posted, Typed, TypeOK, FeedTypeOK, IsSnapshot,
                               Points, feedVars, history
  <1>13. QED
    BY <1>1, <1>2, <1>3, <1>4, <1>5, <1>6, <1>7, <1>8, <1>9, <1>10, <1>11, <1>12
       DEF Next, Scan

\* The strengthened type invariant holds of every behaviour.
THEOREM TypedAlways == Spec => []Typed
  BY TypedInit, TypedNext, PTL DEF Spec

\* TypeOK, for every value of the constants: the snapshots hold only games
\* under way or over, whatever the API answers, and only guilds that follow
\* the NHL and have a channel are ever addressed.
THEOREM TypeCorrect == Spec => []TypeOK
  <1>1. Typed => TypeOK
    BY DEF Typed
  <1>2. QED
    BY <1>1, TypedAlways, PTL

-----------------------------------------------------------------------------
(***************************************************************************)
(* The bot implements LiveTicker.  What holds during a round over the new  *)
(* snapshot: what is still to be sent to a guild is true and unlike all it *)
(* was told, and what is due for a game visited was told or is still to be *)
(* sent.                                                                   *)
(***************************************************************************)

\* The messages of outbox that guild gd has still to receive.
Remaining(gd) == {outbox[i] : i \in {k \in 1..Len(outbox) : k > 1 \/ gd \in guilds}}

\* What guild gd has, or will have if no post fails.
Covered(gd) == told[gd] \cup Remaining(gd)

\* A message can be told: it is true, and new to the guild.
Sendable(gd) == \A m \in Remaining(gd) :
                   /\ Ticker!True(m)
                   /\ \A k \in told[gd] : ~Alike(m, k)

\* No message is about a game to come, or follows a puck drop.
Behind(gd) == \A m \in Covered(gd) :
                 /\ m.game \notin pending
                 /\ m.kind = "drop" => pending = {}

\* Nothing due for a game visited is forgotten, and no game is left out but
\* for a puck drop.
Complete(gd) ==
    /\ \A g \in (DOMAIN old \cap DOMAIN active) \ (pending \cup skipped) :
          \A i \in 1..Len(Due(g)) : Due(g)[i] \in Covered(gd)
    /\ skipped # {} => \E m \in Covered(gd) : m.kind = "drop"

InRound == pc \in {"scan", "send"}

Round == /\ pending # {} => skipped = {}
         /\ \A i, j \in 1..Len(outbox) : i < j => ~Alike(outbox[i], outbox[j])
         /\ \A gd \in Recipients : Sendable(gd) /\ Behind(gd) /\ Complete(gd)

RoundInv == InRound => Round

LEMMA AlikeSymmetric ==
  ASSUME NEW m, NEW k
  PROVE  Alike(m, k) <=> Alike(k, m)
  BY DEF Alike

\* A message true of the two records of a game may be told.
LEMMA TrueOfTicker ==
  ASSUME Typed, NEW g \in DOMAIN old \cap DOMAIN active, NEW m \in GameMessage(g),
         TrueOf(m, old[g], active[g])
  PROVE  Ticker!True(m)
  <1>1. m.game = g
    BY DEF GameMessage
  <1>2. QED
    BY <1>1 DEF TrueOf, Ticker!True, Ticker!BothHave, Ticker!Gained, Ticker!Lost,
                Ticker!PeriodOver

\* What the comparison of a game visited sends.
LEMMA DueSound ==
  ASSUME Typed, NEW g \in DOMAIN active
  PROVE  /\ Due(g) \in Seq(GameMessage(g))
         /\ \A i \in 1..Len(Due(g)) : /\ Ticker!True(Due(g)[i])
                                     /\ Due(g)[i].kind # "drop"
         /\ \A i, j \in 1..Len(Due(g)) : i < j => ~Alike(Due(g)[i], Due(g)[j])
  <1>1. CASE g \in DOMAIN old
    <2> DEFINE s == Messages(g, old[g], active[g])
    <2>1. old[g] \in ActiveRecord /\ active[g] \in ActiveRecord
      BY <1>1 DEF Typed, TypeOK, IsSnapshot, ActiveRecord
    <2>2. /\ s \in Seq(GameMessage(g))
          /\ \A i \in 1..Len(s) : TrueOf(s[i], old[g], active[g])
          /\ \A i, j \in 1..Len(s) : i < j => ~Alike(s[i], s[j])
      BY <2>1, MessagesSound
    <2> HIDE DEF s
    <2>3. ASSUME NEW i \in 1..Len(s)
          PROVE  Ticker!True(s[i]) /\ s[i].kind # "drop"
      <3>1. s[i] \in GameMessage(g) /\ TrueOf(s[i], old[g], active[g])
        BY <2>2, ElementOfSeq
      <3>2. Ticker!True(s[i])
        BY <1>1, <3>1, TrueOfTicker
      <3>3. s[i].kind # "drop"
        BY <3>1 DEF TrueOf
      <3>4. QED
        BY <3>2, <3>3
    <2>4. Due(g) = s
      BY <1>1 DEF Due, s
    <2>5. QED
      BY <2>2, <2>3, <2>4
  <1>2. CASE g \notin DOMAIN old
    BY <1>2 DEF Due
  <1>3. QED
    BY <1>1, <1>2

LEMMA RoundFetch ==
  ASSUME Typed, Fetch
  PROVE  RoundInv'
  <1>1. outbox' = <<>> /\ skipped' = {} /\ told' = NothingTold
    BY DEF Fetch, Typed
  <1>2. \A gd \in Recipients : Covered(gd)' = {} /\ Remaining(gd)' = {}
    BY <1>1 DEF Covered, Remaining, NothingTold
  <1>3. (DOMAIN old \cap DOMAIN active)' \ (pending \cup skipped)' = {}
    BY DEF Fetch
  <1>4. QED
    BY <1>1, <1>2, <1>3 DEF RoundInv, Round, Sendable, Behind, Complete

\* The truth of a message lasts as long as the two snapshots.
LEMMA TruthLasts ==
  ASSUME UNCHANGED <<old, active>>, NEW m
  PROVE  Ticker!True(m)' <=> Ticker!True(m)
  BY DEF Ticker!True, Ticker!NewlyLive, Ticker!BothHave, Ticker!Gained,
         Ticker!Lost, Ticker!PeriodOver

LEMMA DueLasts ==
  ASSUME UNCHANGED <<old, active>>, NEW g
  PROVE  Due(g)' = Due(g)
  BY DEF Due

\* Steps that leave the round alone keep its invariant.
LEMMA RoundStutter ==
  ASSUME RoundInv, InRound' => InRound,
         UNCHANGED <<old, active, pending, outbox, guilds, told, skipped>>
  PROVE  RoundInv'
  <1> SUFFICES ASSUME Round
               PROVE  Round'
    BY DEF RoundInv
  <1>1. ASSUME NEW gd \in Recipients
        PROVE  Remaining(gd)' = Remaining(gd) /\ Covered(gd)' = Covered(gd)
    BY DEF Remaining, Covered
  <1>2. ASSUME NEW gd \in Recipients
        PROVE  Sendable(gd)'
    BY <1>1, TruthLasts DEF Round, Sendable
  <1>3. ASSUME NEW gd \in Recipients
        PROVE  Behind(gd)'
    BY <1>1 DEF Round, Behind
  <1>4. ASSUME NEW gd \in Recipients
        PROVE  Complete(gd)'
    BY <1>1, DueLasts DEF Round, Complete
  <1>5. QED
    BY <1>2, <1>3, <1>4 DEF Round

LEMMA RoundPuckDrop ==
  ASSUME Typed, RoundInv, NEW g \in Games, PuckDrop(g)
  PROVE  RoundInv'
  <1>d. PICK d : d = DropMessage(g)
    OBVIOUS
  <1>1. /\ Round /\ pending # {} /\ outbox = <<>>
        /\ g \in DOMAIN active /\ g \notin DOMAIN old
        /\ active[g].state = "LIVE"
    BY DEF PuckDrop, DropDue, RoundInv, InRound, Typed
  <1>2. /\ outbox' = <<d>> /\ guilds' = Recipients /\ pending' = {}
        /\ skipped' = pending \ {g}
        /\ UNCHANGED <<old, active, told>>
    BY <1>d DEF PuckDrop
  <1>3. d.kind = "drop" /\ d.game = g /\ d.away = 0 /\ d.home = 0
    BY <1>d DEF DropMessage, Message
  <1>4. Ticker!True(d)
    BY <1>1, <1>3 DEF Ticker!True, Ticker!NewlyLive
  <1>5. Len(outbox') = 1 /\ outbox'[1] = d
    BY <1>2
  <1>6. ASSUME NEW gd \in Recipients
        PROVE  /\ Remaining(gd) = {} /\ Remaining(gd)' = {d}
               /\ Covered(gd) = told[gd] /\ Covered(gd)' = told[gd] \cup {d}
    BY <1>1, <1>2, <1>5 DEF Remaining, Covered
  <1>7. ASSUME NEW gd \in Recipients, NEW k \in told[gd]
        PROVE  ~Alike(d, k)
    <2>1. k.game # g /\ k.kind # "drop"
      BY <1>1, <1>6 DEF Round, Behind, PuckDrop
    <2>2. QED
      BY <1>3, <2>1 DEF Alike
  <1>8. ASSUME NEW gd \in Recipients
        PROVE  Sendable(gd)' /\ Behind(gd)'
    <2>1. Ticker!True(d)'
      BY <1>2, <1>4, TruthLasts
    <2>2. QED
      BY <1>2, <1>6, <1>7, <2>1 DEF Sendable, Behind
  <1>9. ASSUME NEW gd \in Recipients
        PROVE  Complete(gd)'
    <2>1. skipped = {}
      BY <1>1 DEF Round
    <2>2. (DOMAIN old \cap DOMAIN active)' \ (pending \cup skipped)'
             \subseteq (DOMAIN old \cap DOMAIN active) \ (pending \cup skipped)
      BY <1>1, <1>2, <2>1
    <2>3. Covered(gd) \subseteq Covered(gd)' /\ d \in Covered(gd)'
      BY <1>6
    <2>4. \A h : Due(h)' = Due(h)
      BY <1>2, DueLasts
    <2>5. QED
      BY <1>1, <1>3, <2>2, <2>3, <2>4 DEF Round, Complete
  <1>10. QED
    BY <1>2, <1>5, <1>8, <1>9 DEF RoundInv, Round

LEMMA RoundCompare ==
  ASSUME Typed, RoundInv, NEW g \in Games, Compare(g)
  PROVE  RoundInv'
  <1>1. /\ Round /\ pending # {} /\ outbox = <<>> /\ skipped = {}
        /\ g \in DOMAIN active /\ g \in pending
    BY DEF Compare, RoundInv, InRound, Round, Typed
  <1>2. /\ outbox' = Due(g) /\ pending' = pending \ {g}
        /\ guilds' = IF Due(g) = <<>> THEN {} ELSE Recipients
        /\ UNCHANGED <<old, active, told, skipped>>
    BY DEF Compare, history
  <1>3. /\ Due(g) \in Seq(GameMessage(g))
        /\ \A i \in 1..Len(Due(g)) : Ticker!True(Due(g)[i]) /\ Due(g)[i].kind # "drop"
        /\ \A i, j \in 1..Len(Due(g)) : i < j => ~Alike(Due(g)[i], Due(g)[j])
    BY <1>1, DueSound
  <1> DEFINE new == {Due(g)[i] : i \in 1..Len(Due(g))}
  <1>4. ASSUME NEW m \in new
        PROVE  m.game = g /\ m.kind # "drop" /\ Ticker!True(m)
    <2>1. PICK i \in 1..Len(Due(g)) : m = Due(g)[i]
      OBVIOUS
    <2>2. m \in GameMessage(g)
      BY <1>3, <2>1, ElementOfSeq
    <2>3. QED
      BY <1>3, <2>1, <2>2 DEF GameMessage
  <1>5. ASSUME NEW gd \in Recipients
        PROVE  /\ Remaining(gd)' = new
               /\ Covered(gd) = told[gd] /\ Covered(gd)' = told[gd] \cup new
    <2>1. Remaining(gd) = {}
      BY <1>1 DEF Remaining
    <2>2. Remaining(gd)' = new
      <3>1. CASE Due(g) = <<>>
        BY <1>2, <3>1 DEF Remaining
      <3>2. CASE Due(g) # <<>>
        BY <1>2, <3>2 DEF Remaining
      <3>3. QED
        BY <3>1, <3>2
    <2>3. QED
      BY <1>2, <2>1, <2>2 DEF Covered
  <1> HIDE DEF new
  <1>6. ASSUME NEW gd \in Recipients
        PROVE  Sendable(gd)'
    <2>1. ASSUME NEW m \in new, NEW k \in told[gd]
          PROVE  ~Alike(m, k)
      <3>1. k.game # g
        BY <1>1, <1>5 DEF Round, Behind
      <3>2. QED
        BY <1>4, <3>1 DEF Alike
    <2>2. ASSUME NEW m \in new
          PROVE  Ticker!True(m)'
      BY <1>2, <1>4, TruthLasts
    <2>3. QED
      BY <1>2, <1>5, <2>1, <2>2 DEF Sendable
  <1>7. ASSUME NEW gd \in Recipients
        PROVE  Behind(gd)'
    BY <1>1, <1>2, <1>4, <1>5 DEF Round, Behind
  <1>8. ASSUME NEW gd \in Recipients
        PROVE  Complete(gd)'
    <2>1. \A h : Due(h)' = Due(h)
      BY <1>2, DueLasts
    <2>2. \A i \in 1..Len(Due(g)) : Due(g)[i] \in Covered(gd)'
      BY <1>5 DEF new
    <2>3. Covered(gd) \subseteq Covered(gd)'
      BY <1>5
    <2>4. QED
      BY <1>1, <1>2, <2>1, <2>2, <2>3 DEF Round, Complete
  <1>9. QED
    BY <1>1, <1>2, <1>3, <1>6, <1>7, <1>8 DEF RoundInv, Round

LEMMA RoundPost ==
  ASSUME Typed, RoundInv, NEW gd \in Guilds, Post(gd)
  PROVE  RoundInv'
  <1>1. /\ Round /\ outbox # <<>> /\ outbox \in Seq(MessageRecord)
        /\ gd \in Recipients /\ gd \in guilds
        /\ told \in [Recipients -> SUBSET MessageRecord]
    BY DEF Post, RoundInv, InRound, Typed, TypeOK
  <1>2. PICK h : h = Head(outbox)
    OBVIOUS
  <1>3. h = outbox[1] /\ 1 \in 1..Len(outbox)
    BY <1>1, <1>2, EmptySeq
  <1>4. /\ told' = [told EXCEPT ![gd] = @ \cup {h}]
        /\ guilds' = guilds \ {gd}
        /\ UNCHANGED <<old, active, pending, outbox, skipped>>
    BY <1>2 DEF Post, Deliver
  <1>5. /\ told'[gd] = told[gd] \cup {h}
        /\ \A other \in Recipients \ {gd} : told'[other] = told[other]
    BY <1>1, <1>4
  <1>6. ASSUME NEW other \in Recipients \ {gd}
        PROVE  /\ Remaining(other)' = Remaining(other)
               /\ Covered(other)' = Covered(other)
    BY <1>4, <1>5 DEF Remaining, Covered
  <1>7. /\ Remaining(gd) = Remaining(gd)' \cup {h}
        /\ \A m \in Remaining(gd)' : \E i \in 1..Len(outbox) : i > 1 /\ m = outbox[i]
    BY <1>1, <1>3, <1>4 DEF Remaining
  <1>8. Covered(gd)' = Covered(gd)
    BY <1>5, <1>7 DEF Covered
  <1>9. ASSUME NEW r \in Recipients
        PROVE  Covered(r)' = Covered(r)
    BY <1>6, <1>8
  <1>10. ASSUME NEW r \in Recipients
         PROVE  Sendable(r)'
    <2>1. ASSUME NEW m \in Remaining(r)'
          PROVE  Ticker!True(m)'
      <3>1. m \in Remaining(r)
        BY <1>6, <1>7
      <3>2. Ticker!True(m)
        BY <1>1, <3>1 DEF Round, Sendable
      <3>3. QED
        BY <1>4, <3>2, TruthLasts
    <2>2. ASSUME NEW m \in Remaining(r)', NEW k \in told'[r]
          PROVE  ~Alike(m, k)
      <3>1. CASE r # gd \/ k # h
        <4>1. m \in Remaining(r) /\ k \in told[r]
          BY <1>5, <1>6, <1>7, <3>1
        <4>2. QED
          BY <1>1, <4>1 DEF Round, Sendable
      <3>2. CASE r = gd /\ k = h
        <4>1. PICK i \in 1..Len(outbox) : i > 1 /\ m = outbox[i]
          BY <1>7, <3>2
        <4>2. ~Alike(outbox[1], outbox[i])
          BY <1>1, <1>3, <4>1 DEF Round
        <4>3. QED
          BY <1>3, <3>2, <4>1, <4>2, AlikeSymmetric
      <3>3. QED
        BY <3>1, <3>2
    <2>3. QED
      BY <2>1, <2>2 DEF Sendable
  <1>11. ASSUME NEW r \in Recipients
         PROVE  Behind(r)' /\ Complete(r)'
    <2>1. Behind(r)'
      BY <1>1, <1>4, <1>9 DEF Round, Behind
    <2>2. Complete(r)'
      BY <1>1, <1>4, <1>9, DueLasts DEF Round, Complete
    <2>3. QED
      BY <2>1, <2>2
  <1>12. QED
    BY <1>1, <1>4, <1>10, <1>11 DEF RoundInv, Round

LEMMA RoundPosted ==
  ASSUME Typed, RoundInv, Posted
  PROVE  RoundInv'
  <1>1. /\ Round /\ outbox # <<>> /\ outbox \in Seq(MessageRecord) /\ guilds = {}
    BY DEF Posted, RoundInv, InRound, Typed, TypeOK
  <1>2. PICK rest : rest = Tail(outbox)
    OBVIOUS
  <1>3. /\ rest \in Seq(MessageRecord) /\ Len(rest) = Len(outbox) - 1
        /\ Len(outbox) \in Nat
        /\ \A i \in 1..Len(rest) : rest[i] = outbox[i + 1]
    BY <1>1, <1>2, HeadTailProperties, LenProperties
  <1>4. /\ outbox' = rest
        /\ guilds' = IF rest = <<>> THEN {} ELSE Recipients
        /\ UNCHANGED <<old, active, pending, told, skipped>>
    BY <1>2 DEF Posted, history
  <1>5. ASSUME NEW gd \in Recipients
        PROVE  Remaining(gd)' = Remaining(gd)
    <2>1. Remaining(gd) = {outbox[i] : i \in {k \in 1..Len(outbox) : k > 1}}
      BY <1>1 DEF Remaining
    <2>2. Remaining(gd)' = {rest[i] : i \in 1..Len(rest)}
      <3>1. CASE rest = <<>>
        BY <1>4, <3>1 DEF Remaining
      <3>2. CASE rest # <<>>
        BY <1>4, <3>2 DEF Remaining
      <3>3. QED
        BY <3>1, <3>2
    <2>3. ASSUME NEW i \in 1..Len(outbox), i > 1
          PROVE  i - 1 \in 1..Len(rest) /\ outbox[i] = rest[i - 1]
      BY <1>3, <2>3
    <2>4. ASSUME NEW i \in 1..Len(rest)
          PROVE  i + 1 \in 1..Len(outbox) /\ i + 1 > 1 /\ rest[i] = outbox[i + 1]
      BY <1>3
    <2>5. Remaining(gd) \subseteq Remaining(gd)'
      BY <2>1, <2>2, <2>3
    <2>6. Remaining(gd)' \subseteq Remaining(gd)
      BY <2>1, <2>2, <2>4
    <2>7. QED
      BY <2>5, <2>6
  <1>6. ASSUME NEW gd \in Recipients
        PROVE  Covered(gd)' = Covered(gd)
    BY <1>4, <1>5 DEF Covered
  <1>7. ASSUME NEW i \in 1..Len(rest), NEW j \in 1..Len(rest), i < j
        PROVE  ~Alike(rest[i], rest[j])
    <2>1. /\ i + 1 \in 1..Len(outbox) /\ j + 1 \in 1..Len(outbox) /\ i + 1 < j + 1
      BY <1>3, <1>7
    <2>2. ~Alike(outbox[i + 1], outbox[j + 1])
      BY <1>1, <2>1 DEF Round
    <2>3. QED
      BY <1>3, <2>2
  <1>8. ASSUME NEW gd \in Recipients
        PROVE  Sendable(gd)' /\ Behind(gd)' /\ Complete(gd)'
    <2>1. Sendable(gd)'
      BY <1>1, <1>4, <1>5, TruthLasts DEF Round, Sendable
    <2>2. Behind(gd)'
      BY <1>1, <1>4, <1>6 DEF Round, Behind
    <2>3. Complete(gd)'
      BY <1>1, <1>4, <1>6, DueLasts DEF Round, Complete
    <2>4. QED
      BY <2>1, <2>2, <2>3
  <1>9. QED
    BY <1>1, <1>4, <1>7, <1>8 DEF RoundInv, Round

LEMMA RoundInit == Init => RoundInv
  BY DEF Init, RoundInv, InRound

LEMMA RoundNext == Typed /\ RoundInv /\ [Next]_vars => RoundInv'
  <1> SUFFICES ASSUME Typed, RoundInv, [Next]_vars
               PROVE  RoundInv'
    OBVIOUS
  <1>1. CASE FeedStep \/ RequestStop \/ CloseClient \/ UNCHANGED vars
    BY <1>1, RoundStutter DEF FeedStep, RequestStop, CloseClient, vars, botVars,
                              history, InRound
  <1>2. CASE Start \/ StartFails \/ LoopTest \/ WakeUp \/ FetchFails \/ Commit
    BY <1>2 DEF Start, StartFails, LoopTest, WakeUp, FetchFails, Commit, RoundInv,
                InRound
  <1>3. ASSUME NEW g \in Games, CompareFails(g)
        PROVE  RoundInv'
    BY <1>3 DEF CompareFails, Raise, RoundInv, InRound
  <1>4. ASSUME NEW gd \in Guilds, PostFails(gd)
        PROVE  RoundInv'
    BY <1>4 DEF PostFails, Raise, RoundInv, InRound
  <1>5. QED
    BY <1>1, <1>2, <1>3, <1>4, RoundFetch, RoundPuckDrop, RoundCompare, RoundPost,
       RoundPosted DEF Next, Scan

-----------------------------------------------------------------------------
(***************************************************************************)
(* Every step of the bot is a step of LiveTicker, or leaves it alone.      *)
(***************************************************************************)

LEMMA InitRefines == Init => Ticker!Init
  BY DEF Init, Ticker!Init, Ticker!IsSnapshot, Ticker!Nothing, NothingTold

LEMMA FetchObserves ==
  ASSUME Typed, Fetch
  PROVE  Ticker!Observe
  <1>1. IsSnapshot(active')
    BY ActiveGamesIsSnapshot DEF Fetch, Typed, TypeOK, FeedTypeOK
  <1>2. QED
    BY <1>1 DEF Fetch, IsSnapshot, NothingTold, Ticker!Observe, Ticker!IsSnapshot,
                Ticker!Nothing

LEMMA PuckDropExcuses ==
  ASSUME Typed, RoundInv, NEW g \in Games, PuckDrop(g)
  PROVE  Ticker!Excuse
  <1>1. skipped = {}
    BY DEF PuckDrop, RoundInv, InRound, Round
  <1>2. Ticker!NewlyLive(g)
    BY DEF PuckDrop, DropDue, Typed, Ticker!NewlyLive
  <1>3. skipped' \in SUBSET (DOMAIN active \ {g})
    BY DEF PuckDrop, Typed
  <1>4. QED
    BY <1>1, <1>2, <1>3 DEF PuckDrop, Ticker!Excuse

\* The message delivered next is true, and unlike all the guild was told.
LEMMA DeliverSound ==
  ASSUME Typed, RoundInv, pc = "send", NEW gd \in Guilds, gd \in guilds,
         Deliver(gd)
  PROVE  /\ gd \in Recipients
         /\ \E h : /\ told' = [told EXCEPT ![gd] = @ \cup {h}]
                  /\ Ticker!True(h)
                  /\ \A k \in told[gd] : ~Alike(h, k)
  <1>1. /\ Round /\ outbox # <<>> /\ outbox \in Seq(MessageRecord)
        /\ gd \in Recipients
    BY DEF RoundInv, InRound, Typed, TypeOK
  <1>2. PICK h : h = Head(outbox)
    OBVIOUS
  <1>3. h \in Remaining(gd)
    <2>1. h = outbox[1] /\ 1 \in 1..Len(outbox)
      BY <1>1, <1>2, EmptySeq
    <2>2. QED
      BY <2>1 DEF Remaining
  <1>4. Ticker!True(h) /\ \A k \in told[gd] : ~Alike(h, k)
    BY <1>1, <1>3 DEF Round, Sendable
  <1>5. QED
    BY <1>1, <1>2, <1>4 DEF Deliver

LEMMA DeliverTells ==
  ASSUME Typed, RoundInv, pc = "send", NEW gd \in Guilds, gd \in guilds,
         Deliver(gd), UNCHANGED <<old, active, skipped>>
  PROVE  Ticker!Telling
  <1>1. gd \in Recipients /\ told \in [Recipients -> SUBSET MessageRecord]
    BY DeliverSound DEF Typed, TypeOK
  <1>2. PICK h : /\ told' = [told EXCEPT ![gd] = @ \cup {h}]
                 /\ Ticker!True(h)
                 /\ \A k \in told[gd] : ~Alike(h, k)
    BY DeliverSound
  <1>3. Ticker!Fresh(gd, h)
    BY <1>2 DEF Alike, ScoreKinds, Ticker!Fresh, Ticker!Drops
  <1>4. Ticker!Tell(gd, h) /\ h \in told'[gd]
    BY <1>1, <1>2, <1>3 DEF Ticker!Tell
  <1>5. QED
    BY <1>1, <1>4 DEF Ticker!Telling

LEMMA CommitAdvances ==
  ASSUME Typed, RoundInv, Commit
  PROVE  Ticker!Advance
  <1>1. /\ Round /\ outbox = <<>> /\ pending = {}
        /\ IsSnapshot(old) /\ IsSnapshot(active)
    BY DEF Commit, RoundInv, InRound, Typed, TypeOK
  <1>2. ASSUME NEW gd \in Recipients
        PROVE  Covered(gd) = told[gd]
    BY <1>1 DEF Covered, Remaining
  <1>3. ASSUME NEW gd \in Recipients, NEW g \in Games \ skipped,
               Ticker!BothHave(g), old[g].state = "LIVE"
        PROVE  Ticker!Settled(gd, g)
    <2> DEFINE s == Messages(g, old[g], active[g])
    <2>1. /\ g \in DOMAIN old \cap DOMAIN active
          /\ old[g] \in ActiveRecord /\ active[g] \in ActiveRecord
      BY <1>1, <1>3 DEF Ticker!BothHave, IsSnapshot, ActiveRecord
    <2>2. Due(g) = s
      BY <2>1 DEF Due
    <2>3. /\ s \in Seq(GameMessage(g))
          /\ \A i \in 1..Len(s) : TrueOf(s[i], old[g], active[g])
      BY <2>1, MessagesSound
    <2>4. /\ active[g].away # old[g].away \/ active[g].home # old[g].home =>
                \E i \in 1..Len(s) : s[i].kind \in ScoreKinds
          /\ active[g].state = "FINAL" => \E i \in 1..Len(s) : s[i].kind = "final"
          /\ /\ active[g].state = "LIVE" /\ active[g].end
             /\ ~old[g].end \/ old[g].period # active[g].period
             => \E i \in 1..Len(s) : s[i].kind = "end"
      BY <1>3, <2>1, MessagesComplete
    <2> HIDE DEF s
    <2>5. ASSUME NEW i \in 1..Len(s)
          PROVE  /\ s[i] \in told[gd] /\ s[i].game = g
                 /\ s[i].away = active[g].away /\ s[i].home = active[g].home
      <3>1. s[i] \in told[gd]
        BY <1>1, <1>2, <2>1, <2>2 DEF Round, Complete
      <3>2. s[i] \in GameMessage(g)
        BY <2>3, ElementOfSeq
      <3>3. QED
        BY <2>3, <3>1, <3>2 DEF GameMessage, TrueOf
    <2>6. QED
      BY <2>4, <2>5 DEF ScoreKinds, Ticker!Settled, Ticker!ScoreMoved, Ticker!Told,
                        Ticker!PeriodOver, Ticker!NewWhistle
  <1>4. ASSUME NEW gd \in Recipients, skipped # {}
        PROVE  Ticker!Drops(gd) # {}
    BY <1>1, <1>2, <1>4 DEF Round, Complete, Ticker!Drops
  <1>5. QED
    BY <1>3, <1>4 DEF Commit, history, Ticker!Advance, Ticker!Settled

LEMMA StepRefines ==
  Typed /\ RoundInv /\ [Next]_vars => [Ticker!Next]_(Ticker!tickerVars)
  <1> SUFFICES ASSUME Typed, RoundInv, [Next]_vars
               PROVE  Ticker!Next \/ UNCHANGED <<old, active, told, skipped>>
    BY DEF Ticker!tickerVars
  <1>1. CASE FeedStep \/ RequestStop \/ CloseClient \/ UNCHANGED vars
    BY <1>1 DEF FeedStep, RequestStop, CloseClient, vars, botVars, history
  <1>2. CASE Start \/ StartFails \/ LoopTest \/ WakeUp \/ FetchFails \/ Posted
    BY <1>2 DEF Start, StartFails, LoopTest, WakeUp, FetchFails, Posted, history
  <1>3. CASE Fetch
    BY <1>3, FetchObserves DEF Ticker!Next
  <1>4. ASSUME NEW g \in Games, PuckDrop(g)
        PROVE  Ticker!Next
    BY <1>4, PuckDropExcuses DEF Ticker!Next
  <1>5. ASSUME NEW g \in Games, Compare(g) \/ CompareFails(g)
        PROVE  UNCHANGED <<old, active, told, skipped>>
    BY <1>5 DEF Compare, CompareFails, Raise, history
  <1>6. ASSUME NEW gd \in Guilds, Post(gd)
        PROVE  Ticker!Next
    BY <1>6, DeliverTells DEF Post, Ticker!Next
  <1>7. ASSUME NEW gd \in Guilds, PostFails(gd)
        PROVE  Ticker!Next \/ UNCHANGED <<old, active, told, skipped>>
    BY <1>7, DeliverTells DEF PostFails, Raise, Ticker!Next
  <1>8. CASE Commit
    BY <1>8, CommitAdvances DEF Ticker!Next
  <1>9. QED
    BY <1>1, <1>2, <1>3, <1>4, <1>5, <1>6, <1>7, <1>8 DEF Next, Scan

\* The bot implements the live ticker, for any games, guilds and settings:
\* however requests fail and the API moves on between two polls, what it
\* posts is true and new, and it gives up its old snapshot only when every
\* guild has been told all that was owed, but for the games that a puck drop
\* cut off.
THEOREM ImplementsTicker == Spec => TickerSpec
  <1>1. Init => Ticker!Init
    BY InitRefines
  <1>2. Typed /\ RoundInv /\ [Next]_vars => [Ticker!Next]_(Ticker!tickerVars)
    BY StepRefines
  <1>3. Spec => []RoundInv
    BY RoundInit, RoundNext, TypedAlways, PTL DEF Spec
  <1>4. QED
    BY <1>1, <1>2, <1>3, TypedAlways, PTL DEF Spec, TickerSpec, Ticker!TickerSpec
=============================================================================
