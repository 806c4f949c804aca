----------------------------- MODULE LiveTicker -----------------------------
(***************************************************************************)
(* What a live ticker promises its readers, whatever the code around it    *)
(* looks like.  It holds the snapshot of the games it has reported up to   *)
(* (base), takes a newer one (snap), tells every guild what is different,  *)
(* and may advance its base only once everything owed has been told.       *)
(*                                                                         *)
(* It may give up an attempt and take another snapshot at any time, and    *)
(* must then tell again whatever is owed between the base and that one:    *)
(* delivery is at least once, and at most once within an attempt.  Games   *)
(* may be excused, in an attempt that announces a puck drop.               *)
(***************************************************************************)
EXTENDS Integers

CONSTANTS Games,       \* the keys of the games
          Guilds,      \* the guilds whose channel is told
          Records      \* the records a snapshot may hold of a game

VARIABLES base,        \* everything up to this snapshot has been told
          snap,        \* the newest snapshot taken
          told,        \* told[gd]: what guild gd was told since it was taken
          excused      \* games nothing is owed about in this attempt

tickerVars == <<base, snap, told, excused>>

Nothing == [gd \in Guilds |-> {}]

IsSnapshot(s) == DOMAIN s \subseteq Games /\ s \in [DOMAIN s -> Records]

Init == /\ IsSnapshot(base) /\ DOMAIN base = {}
        /\ snap = base
        /\ told = Nothing
        /\ excused = {}

Observe == /\ IsSnapshot(snap')
           /\ told' = Nothing
           /\ excused' = {}
           /\ UNCHANGED base

-----------------------------------------------------------------------------
Drops(gd) == {m \in told[gd] : m.kind = "drop"}

NewlyLive(g) == g \in DOMAIN snap \ DOMAIN base /\ snap[g].state = "LIVE"
BothHave(g)  == g \in DOMAIN base \cap DOMAIN snap

ScoreMoved(g) == \/ snap[g].away # base[g].away
                 \/ snap[g].home # base[g].home

Gained(g, team) == \/ team = "away" /\ snap[g].away > base[g].away
                   \/ team = "home" /\ snap[g].home > base[g].home

Lost(g, team) == \/ team = "away" /\ snap[g].away < base[g].away
                 \/ team = "home" /\ snap[g].home < base[g].home

\* The whistle of a period of a game under way.
PeriodOver(g) == snap[g].state = "LIVE" /\ snap[g].end

\* The last whistle was not blown when the base was taken.
NewWhistle(g) == \/ ~base[g].end
                 \/ base[g].period # snap[g].period

\* A message may be told if it is true of the newest snapshot, and new.  That
\* a game has begun is true of any that is under way, with goals or without:
\* a puck drop shows no score.
True(m) ==
    LET g == m.game
    IN \/ /\ m.kind = "drop"
          /\ NewlyLive(g)
          /\ m.away = 0 /\ m.home = 0
       \/ /\ BothHave(g)
          /\ m.away = snap[g].away
          /\ m.home = snap[g].home
          /\ base[g].state = "LIVE"
          /\ \/ m.kind = "goal" /\ Gained(g, m.team)
             \/ m.kind = "reversal" /\ Lost(g, m.team)
             \/ m.kind = "final" /\ snap[g].state = "FINAL"
             \/ m.kind = "end" /\ PeriodOver(g) /\ snap[g] # base[g]

\* Within an attempt a guild hears of one goal of a game, of one puck drop,
\* and of nothing twice.
Fresh(gd, m) ==
    /\ m \notin told[gd]
    /\ m.kind = "drop" => Drops(gd) = {}
    /\ m.kind \in {"goal", "reversal"} =>
           \A k \in told[gd] : k.game = m.game => k.kind \notin {"goal", "reversal"}

Tell(gd, m) == /\ True(m)
               /\ Fresh(gd, m)
               /\ told' = [told EXCEPT ![gd] = @ \cup {m}]
               /\ UNCHANGED <<base, snap, excused>>

Telling == \E gd \in Guilds : \E m \in told'[gd] : Tell(gd, m)

Excuse == /\ excused = {}
          /\ \E g \in Games : /\ NewlyLive(g)
                              /\ excused' \in SUBSET (DOMAIN snap \ {g})
          /\ UNCHANGED <<base, snap, told>>

-----------------------------------------------------------------------------
Told(gd, g, kinds) == \E m \in told[gd] : /\ m.game = g
                                          /\ m.kind \in kinds
                                          /\ m.away = snap[g].away
                                          /\ m.home = snap[g].home

\* Guild gd has been told all it is owed about game g.
Settled(gd, g) ==
    base[g].state = "LIVE" =>
        /\ ScoreMoved(g) => Told(gd, g, {"goal", "reversal"})
        /\ snap[g].state = "FINAL" => Told(gd, g, {"final"})
        /\ PeriodOver(g) /\ NewWhistle(g) => Told(gd, g, {"end"})

Advance == /\ \A gd \in Guilds :
                 /\ \A g \in Games \ excused : BothHave(g) => Settled(gd, g)
                 /\ excused # {} => Drops(gd) # {}
           /\ base' = snap
           /\ UNCHANGED <<snap, told, excused>>

Next == Observe \/ Telling \/ Excuse \/ Advance

TickerSpec == Init /\ [][Next]_tickerVars
=============================================================================
