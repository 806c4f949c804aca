---------------------------- MODULE ChannelView ----------------------------
(***************************************************************************)
(* What a reader of a guild's channel knows: the score shown by the last   *)
(* message about each game.  The bot compares snapshots, not channels, so  *)
(* the two can part; drifted[gd] collects the games for which the code     *)
(* gives them leave to, each by a rule stated below.                       *)
(***************************************************************************)
EXTENDS GameBreakBot

VARIABLES shown,       \* shown[gd][g]: the score last shown, or NotShown
          drifted      \* drifted[gd]: games whose shown score may be stale

view == <<shown, drifted>>

NotShown == [away |-> -1, home |-> -1]
Score(r) == [away |-> r.away, home |-> r.home]

ViewInit == /\ Init
            /\ shown = [gd \in Recipients |-> [g \in Games |-> NotShown]]
            /\ drifted = [gd \in Recipients |-> {}]

\* Games of some messages.
Subjects(received) == {m.game : m \in received}

\* An attempt ends in an exception: what it posted may be overturned before
\* the next one, which compares with the old snapshot and finds no change.
Aborted(gd) == {g \in DOMAIN old :
                   \E m \in told'[gd] : m.game = g /\ Score(m) # Score(old[g])}

\* A game is first seen under way with goals: all a channel gets of them is
\* that the puck was dropped.
LateDrops(received) == {m.game : m \in {k \in received :
                            k.kind = "drop" /\ Score(k) # Score(active[k.game])}}

\* A message shows its score, a puck drop that the game begins, and whatever
\* was stale before is put right.
Hear(raised) ==
    LET new(gd) == told'[gd] \ told[gd]
        stale(gd) == LateDrops(new(gd)) \cup IF raised THEN Aborted(gd) ELSE {}
    IN /\ shown' = [gd \in Recipients |-> [g \in Games |->
                       IF g \in Subjects(new(gd))
                       THEN Score(CHOOSE m \in new(gd) : m.game = g)
                       ELSE shown[gd][g]]]
       /\ drifted' = [gd \in Recipients |->
                         (drifted[gd] \ Subjects(new(gd))) \cup stale(gd)]

Abort == /\ \/ \E gd \in Guilds : PostFails(gd)
            \/ \E g \in Games : CompareFails(g)
         /\ Hear(TRUE)

\* The snapshot becomes the old one without a word about a game it adds, a
\* game that was over before, or a game cut off by a puck drop.
Unspoken(gd) == {g \in DOMAIN active :
                    /\ g \notin Subjects(told[gd])
                    /\ \/ g \notin DOMAIN old
                       \/ g \in skipped
                       \/ old[g].state = "FINAL"}

Close == /\ Commit
         /\ drifted' = [gd \in Recipients |-> drifted[gd] \cup Unspoken(gd)]
         /\ UNCHANGED shown

Speak == /\ \/ \E gd \in Guilds : Post(gd)
            \/ \E g \in Games : PuckDrop(g) \/ Compare(g)
            \/ Posted
         /\ Hear(FALSE)

Quiet == /\ \/ FeedStep
            \/ Start \/ StartFails \/ LoopTest \/ Fetch \/ FetchFails
            \/ WakeUp
            \/ RequestStop \/ CloseClient
         /\ UNCHANGED view

ViewNext == Abort \/ Close \/ Speak \/ Quiet

ViewSpec == ViewInit /\ [][ViewNext]_<<vars, view>>
-----------------------------------------------------------------------------
\* Whenever the bot sleeps, each channel shows the score the bot compares
\* with next, for every game it has ever spoken of, save for the games of
\* the named exceptions since their last message: so a game falls silently
\* behind in no other way, after any sequence of goals, reviews, retries and
\* new days.
ChannelShowsScore ==
    pc = "yield" => \A gd \in Recipients : \A g \in DOMAIN old \ drifted[gd] :
                       shown[gd][g] = Score(old[g])
=============================================================================
