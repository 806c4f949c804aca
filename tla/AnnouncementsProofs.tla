------------------------ MODULE AnnouncementsProofs ------------------------
(***************************************************************************)
(* What the comparison of two records of a game can be relied upon for:    *)
(* the messages are well formed, true of the new record, of different      *)
(* kinds, and leave nothing out.  GameBreakBotProofs rests on these.       *)
(***************************************************************************)
EXTENDS ScoreFeed, Announcements, SequenceTheorems, TLAPS

ActiveRecord == {r \in GameRecord : IsActive(r)}

GameMessage(g) == [kind : Kinds, game : {g}, team : Teams, away : Nat, home : Nat]

ScoreKinds == {"goal", "reversal"}

\* Two messages that one attempt must not both send to a guild.
Alike(m, k) == \/ m.kind = "drop" /\ k.kind = "drop"
               \/ /\ m.game = k.game
                  /\ \/ m.kind = k.kind
                     \/ m.kind \in ScoreKinds /\ k.kind \in ScoreKinds

\* A message, if a condition holds.
One(c, m) == IF c THEN <<m>> ELSE <<>>

-----------------------------------------------------------------------------
\* s is made of x if a, of y if b, of z if c, in this order.
MadeOf(s, a, x, b, y, c, z) ==
    /\ \A i \in 1..Len(s) : \/ a /\ s[i] = x
                            \/ b /\ s[i] = y
                            \/ c /\ s[i] = z
    /\ a => \E i \in 1..Len(s) : s[i] = x
    /\ b => \E i \in 1..Len(s) : s[i] = y
    /\ c => \E i \in 1..Len(s) : s[i] = z
    /\ \A i, j \in 1..Len(s) :
          i < j => \/ s[i] = x /\ s[j] = y
                   \/ s[i] = x /\ s[j] = z
                   \/ s[i] = y /\ s[j] = z

\* Three sequences of at most one element, end to end.
LEMMA ConcatOfOnes ==
  ASSUME NEW S, NEW x \in S, NEW y \in S, NEW z \in S,
         NEW a \in BOOLEAN, NEW b \in BOOLEAN, NEW c \in BOOLEAN
  PROVE  /\ One(a, x) \o One(b, y) \o One(c, z) \in Seq(S)
         /\ MadeOf(One(a, x) \o One(b, y) \o One(c, z), a, x, b, y, c, z)
  <1> DEFINE u == One(a, x)
             v == One(b, y)
             w == One(c, z)
             t == u \o v
             s == t \o w
  <1>1. /\ u \in Seq(S) /\ Len(u) = IF a THEN 1 ELSE 0
        /\ a => u[1] = x
    BY DEF One
  <1>2. /\ v \in Seq(S) /\ Len(v) = IF b THEN 1 ELSE 0
        /\ b => v[1] = y
    BY DEF One
  <1>3. /\ w \in Seq(S) /\ Len(w) = IF c THEN 1 ELSE 0
        /\ c => w[1] = z
    BY DEF One
  <1> HIDE DEF u, v, w
  <1>4. /\ t \in Seq(S)
        /\ Len(t) = Len(u) + Len(v)
        /\ \A i \in 1..Len(u) + Len(v) :
              t[i] = IF i <= Len(u) THEN u[i] ELSE v[i - Len(u)]
    BY <1>1, <1>2, ConcatProperties
  <1> HIDE DEF t
  <1>5. /\ s \in Seq(S)
        /\ Len(s) = Len(t) + Len(w)
        /\ \A i \in 1..Len(t) + Len(w) :
              s[i] = IF i <= Len(t) THEN t[i] ELSE w[i - Len(t)]
    <2>1. t \in Seq(S) /\ w \in Seq(S)
      BY <1>3, <1>4
    <2>2. QED
      BY <2>1, ConcatProperties
  <1> HIDE DEF s
  <1>6. \A i \in 1..Len(s) : s[i] = IF i <= Len(u) THEN u[i]
                                    ELSE IF i <= Len(u) + Len(v) THEN v[i - Len(u)]
                                    ELSE w[i - Len(u) - Len(v)]
    BY <1>1, <1>2, <1>3, <1>4, <1>5
  <1>7. Len(s) = Len(u) + Len(v) + Len(w)
    BY <1>4, <1>5
  <1>8. \A i \in 1..Len(s) : \/ a /\ s[i] = x
                             \/ b /\ s[i] = y
                             \/ c /\ s[i] = z
    BY <1>1, <1>2, <1>3, <1>6, <1>7
  <1>9. /\ a => \E i \in 1..Len(s) : s[i] = x
        /\ b => \E i \in 1..Len(s) : s[i] = y
        /\ c => \E i \in 1..Len(s) : s[i] = z
    <2>1. a => 1 \in 1..Len(s) /\ s[1] = x
      BY <1>1, <1>2, <1>3, <1>6, <1>7
    <2>2. b => Len(u) + 1 \in 1..Len(s) /\ s[Len(u) + 1] = y
      BY <1>1, <1>2, <1>3, <1>6, <1>7
    <2>3. c => Len(u) + Len(v) + 1 \in 1..Len(s) /\ s[Len(u) + Len(v) + 1] = z
      BY <1>1, <1>2, <1>3, <1>6, <1>7
    <2>4. QED
      BY <2>1, <2>2, <2>3
  <1>10. \A i, j \in 1..Len(s) :
            i < j => \/ s[i] = x /\ s[j] = y
                     \/ s[i] = x /\ s[j] = z
                     \/ s[i] = y /\ s[j] = z
    BY <1>1, <1>2, <1>3, <1>6, <1>7
  <1>11. s \in Seq(S) /\ MadeOf(s, a, x, b, y, c, z)
    BY <1>5, <1>8, <1>9, <1>10 DEF MadeOf
  <1>12. QED
    BY <1>11 DEF s, t, u, v, w

-----------------------------------------------------------------------------
\* The score message of a comparison, of whichever team it is credited to.
ScoreMessage(g, o, n) ==
    Message(IF n.away < o.away \/ n.home < o.home THEN "reversal" ELSE "goal", g,
            IF \/ n.away < o.away
               \/ n.away > o.away /\ ~(n.home < o.home)
            THEN "away" ELSE "home", n)

LEMMA ScoreMessageOfGoalMessages ==
  ASSUME NEW g, NEW o \in GameRecord, NEW n \in GameRecord
  PROVE  GoalMessages(g, o, n) =
             One(n.away # o.away \/ n.home # o.home, ScoreMessage(g, o, n))
  <1>1. o.away \in Nat /\ o.home \in Nat /\ n.away \in Nat /\ n.home \in Nat
    BY DEF GameRecord
  <1>2. CASE n.away < o.away
    BY <1>1, <1>2 DEF GoalMessages, One, ScoreMessage
  <1>3. CASE ~(n.away < o.away) /\ n.home < o.home
    BY <1>1, <1>3 DEF GoalMessages, One, ScoreMessage
  <1>4. CASE ~(n.away < o.away) /\ ~(n.home < o.home) /\ n.away > o.away
    BY <1>1, <1>4 DEF GoalMessages, One, ScoreMessage
  <1>5. CASE ~(n.away < o.away) /\ ~(n.home < o.home) /\ ~(n.away > o.away)
    BY <1>1, <1>5 DEF GoalMessages, One, ScoreMessage
  <1>6. QED
    BY <1>2, <1>3, <1>4, <1>5

\* The conditions under which the three kinds of messages are due.
ScoreDue(o, n) == /\ o.state = "LIVE"
                  /\ n.away # o.away \/ n.home # o.home
FinalDue(o, n) == o.state = "LIVE" /\ n.state = "FINAL"
EndDue(o, n)   == /\ o.state = "LIVE"
                  /\ n.state = "LIVE" /\ n.end
                  /\ ~(SameScoreline(o, n) /\ SameClock(o, n))

\* The three branches of the comparison, in one: a score message, then the
\* final score, then the end of the period, each when it is due.
LEMMA MessagesForm ==
  ASSUME NEW g, NEW o \in ActiveRecord, NEW n \in ActiveRecord
  PROVE  Messages(g, o, n) = One(ScoreDue(o, n), ScoreMessage(g, o, n))
                             \o One(FinalDue(o, n), Message("final", g, "none", n))
                             \o One(EndDue(o, n), Message("end", g, "none", n))
  <1> DEFINE S == [kind : Kinds, game : {g}, team : Teams, away : Nat, home : Nat]
             x == ScoreMessage(g, o, n)
             y == Message("final", g, "none", n)
             z == Message("end", g, "none", n)
  <1>1. /\ o \in GameRecord /\ n \in GameRecord
        /\ o.state \in {"LIVE", "FINAL"} /\ n.state \in {"LIVE", "FINAL"}
        /\ n.away \in Nat /\ n.home \in Nat
    BY DEF ActiveRecord, IsActive, GameRecord
  <1>2. x \in S /\ y \in S /\ z \in S
    BY <1>1 DEF ScoreMessage, Message, Kinds, Teams
  <1>3. /\ FinalMessages(g, n) = One(n.state = "FINAL", y)
        /\ EndMessages(g, n) = One(n.state = "LIVE" /\ n.end, z)
    BY DEF FinalMessages, EndMessages, One
  <1> HIDE DEF x, y, z, S
  <1>4. \A a, b \in BOOLEAN :
           /\ One(a, x) \in Seq(S) /\ One(a, y) \in Seq(S) /\ One(a, z) \in Seq(S)
           /\ One(FALSE, x) = <<>> /\ One(FALSE, y) = <<>> /\ One(FALSE, z) = <<>>
    BY <1>2 DEF One
  <1>5. \A s \in Seq(S) : s \o <<>> = s /\ <<>> \o s = s
    BY ConcatEmptySeq
  <1>6. CASE ~SameScoreline(o, n) /\ o.state = "LIVE"
    <2>1. /\ ScoreDue(o, n) <=> (n.away # o.away \/ n.home # o.home)
          /\ FinalDue(o, n) <=> n.state = "FINAL"
          /\ EndDue(o, n) <=> (n.state = "LIVE" /\ n.end)
      BY <1>6 DEF ScoreDue, FinalDue, EndDue
    <2>2. GoalMessages(g, o, n) = One(n.away # o.away \/ n.home # o.home, x)
      BY <1>1, ScoreMessageOfGoalMessages DEF x
    <2>3. QED
      BY <1>3, <1>6, <2>1, <2>2 DEF Messages, One, x, y, z
  <1>7. CASE ~(~SameScoreline(o, n) /\ o.state = "LIVE") /\ n.state # o.state
    <2>1. /\ ~ScoreDue(o, n)
          /\ FinalDue(o, n) <=> n.state = "FINAL"
          /\ ~EndDue(o, n)
      BY <1>1, <1>7 DEF ScoreDue, FinalDue, EndDue, SameScoreline
    <2>2. Messages(g, o, n) = One(n.state = "FINAL", y)
      BY <1>3, <1>7 DEF Messages
    <2>3. /\ One(ScoreDue(o, n), x) = <<>>
          /\ One(EndDue(o, n), z) = <<>>
          /\ One(FinalDue(o, n), y) = One(n.state = "FINAL", y)
      BY <2>1 DEF One
    <2>4. QED
      BY <1>4, <1>5, <2>2, <2>3 DEF x, y, z
  <1>8. CASE /\ ~(~SameScoreline(o, n) /\ o.state = "LIVE")
             /\ n.state = o.state
    <2>1. /\ ~ScoreDue(o, n)
          /\ ~FinalDue(o, n)
          /\ EndDue(o, n) <=> /\ o.state = "LIVE" /\ ~SameClock(o, n)
                              /\ n.state = "LIVE" /\ n.end
      BY <1>1, <1>8 DEF ScoreDue, FinalDue, EndDue, SameScoreline
    <2>2. Messages(g, o, n) = One(EndDue(o, n), z)
      BY <1>3, <1>8, <2>1 DEF Messages, One
    <2>3. /\ One(ScoreDue(o, n), x) = <<>>
          /\ One(FinalDue(o, n), y) = <<>>
      BY <2>1 DEF One
    <2>4. One(EndDue(o, n), z) \in Seq(S)
      BY <1>2 DEF One
    <2>5. QED
      BY <1>5, <2>2, <2>3, <2>4 DEF x, y, z
  <1>9. QED
    BY <1>6, <1>7, <1>8

-----------------------------------------------------------------------------
\* A message m posted about a game is true of its old and new records.
TrueOf(m, o, n) ==
    /\ o.state = "LIVE"
    /\ m.away = n.away /\ m.home = n.home
    /\ \/ /\ m.kind = "goal"
          /\ \/ m.team = "away" /\ n.away > o.away
             \/ m.team = "home" /\ n.home > o.home
       \/ /\ m.kind = "reversal"
          /\ \/ m.team = "away" /\ n.away < o.away
             \/ m.team = "home" /\ n.home < o.home
       \/ m.kind = "final" /\ n.state = "FINAL"
       \/ m.kind = "end" /\ n.state = "LIVE" /\ n.end /\ n # o

\* The shape of the three messages a comparison can send.
LEMMA MessageShapes ==
  ASSUME NEW g, NEW o \in ActiveRecord, NEW n \in ActiveRecord
  PROVE  /\ ScoreMessage(g, o, n) \in GameMessage(g)
         /\ ScoreMessage(g, o, n).kind \in ScoreKinds
         /\ ScoreDue(o, n) => TrueOf(ScoreMessage(g, o, n), o, n)
         /\ Message("final", g, "none", n) \in GameMessage(g)
         /\ FinalDue(o, n) => TrueOf(Message("final", g, "none", n), o, n)
         /\ Message("end", g, "none", n) \in GameMessage(g)
         /\ EndDue(o, n) => TrueOf(Message("end", g, "none", n), o, n)
  <1>1. /\ o \in GameRecord /\ n \in GameRecord
        /\ n.away \in Nat /\ n.home \in Nat
        /\ o.away \in Nat /\ o.home \in Nat
    BY DEF ActiveRecord, GameRecord
  <1>2. /\ ScoreMessage(g, o, n) \in GameMessage(g)
        /\ ScoreMessage(g, o, n).kind \in ScoreKinds
        /\ Message("final", g, "none", n) \in GameMessage(g)
        /\ Message("end", g, "none", n) \in GameMessage(g)
    BY <1>1 DEF ScoreMessage, Message, GameMessage, Kinds, Teams, ScoreKinds
  <1>3. ScoreDue(o, n) => TrueOf(ScoreMessage(g, o, n), o, n)
    BY <1>1 DEF ScoreDue, ScoreMessage, Message, TrueOf
  <1>4. FinalDue(o, n) => TrueOf(Message("final", g, "none", n), o, n)
    BY DEF FinalDue, Message, TrueOf
  <1>5. EndDue(o, n) => TrueOf(Message("end", g, "none", n), o, n)
    BY DEF EndDue, Message, TrueOf, SameScoreline, SameClock
  <1>6. QED
    BY <1>2, <1>3, <1>4, <1>5

\* The messages of a comparison are well formed and about its game, true of
\* the two records, and no two of them are alike.
LEMMA MessagesSound ==
  ASSUME NEW g, NEW o \in ActiveRecord, NEW n \in ActiveRecord
  PROVE  LET s == Messages(g, o, n)
         IN  /\ s \in Seq(GameMessage(g))
             /\ \A i \in 1..Len(s) : TrueOf(s[i], o, n)
             /\ \A i, j \in 1..Len(s) : i < j => ~Alike(s[i], s[j])
  <1> DEFINE x == ScoreMessage(g, o, n)
             y == Message("final", g, "none", n)
             z == Message("end", g, "none", n)
             a == ScoreDue(o, n)
             b == FinalDue(o, n)
             c == EndDue(o, n)
             s == Messages(g, o, n)
  <1>1. a \in BOOLEAN /\ b \in BOOLEAN /\ c \in BOOLEAN
    BY DEF ScoreDue, FinalDue, EndDue, ActiveRecord, GameRecord
  <1>2. x \in GameMessage(g) /\ y \in GameMessage(g) /\ z \in GameMessage(g)
    BY MessageShapes
  <1>3. s = One(a, x) \o One(b, y) \o One(c, z)
    BY MessagesForm
  <1> HIDE DEF x, y, z, a, b, c, s
  <1>4. s \in Seq(GameMessage(g)) /\ MadeOf(s, a, x, b, y, c, z)
    BY <1>1, <1>2, <1>3, ConcatOfOnes
  <1>5. \A i \in 1..Len(s) : TrueOf(s[i], o, n)
    BY <1>4, MessageShapes DEF MadeOf, a, b, c, x, y, z
  <1>6. ~Alike(x, y) /\ ~Alike(x, z) /\ ~Alike(y, z)
    <2>1. x.kind \in ScoreKinds /\ y.kind = "final" /\ z.kind = "end"
      BY MessageShapes DEF x, y, z, Message
    <2>2. QED
      BY <2>1 DEF Alike, ScoreKinds
  <1>7. QED
    BY <1>4, <1>5, <1>6 DEF MadeOf, s

\* The messages of a comparison leave nothing out: a game that was under way
\* gets a score message if its score moved, the final score if it is over,
\* and the end of a period that had not ended before.
LEMMA MessagesComplete ==
  ASSUME NEW g, NEW o \in ActiveRecord, NEW n \in ActiveRecord,
         o.state = "LIVE"
  PROVE  LET s == Messages(g, o, n)
         IN  /\ n.away # o.away \/ n.home # o.home =>
                   \E i \in 1..Len(s) : s[i].kind \in ScoreKinds
             /\ n.state = "FINAL" =>
                   \E i \in 1..Len(s) : s[i].kind = "final"
             /\ /\ n.state = "LIVE" /\ n.end
                /\ ~o.end \/ o.period # n.period
                => \E i \in 1..Len(s) : s[i].kind = "end"
  <1> DEFINE x == ScoreMessage(g, o, n)
             y == Message("final", g, "none", n)
             z == Message("end", g, "none", n)
             a == ScoreDue(o, n)
             b == FinalDue(o, n)
             c == EndDue(o, n)
             s == Messages(g, o, n)
  <1>1. a \in BOOLEAN /\ b \in BOOLEAN /\ c \in BOOLEAN
    BY DEF ScoreDue, FinalDue, EndDue, ActiveRecord, GameRecord
  <1>2. x \in GameMessage(g) /\ y \in GameMessage(g) /\ z \in GameMessage(g)
    BY MessageShapes
  <1>3. s = One(a, x) \o One(b, y) \o One(c, z)
    BY MessagesForm
  <1>4. x.kind \in ScoreKinds /\ y.kind = "final" /\ z.kind = "end"
    BY MessageShapes DEF Message
  <1> HIDE DEF x, y, z, a, b, c, s
  <1>5. MadeOf(s, a, x, b, y, c, z)
    BY <1>1, <1>2, <1>3, ConcatOfOnes
  <1>6. /\ n.away # o.away \/ n.home # o.home => a
        /\ n.state = "FINAL" => b
        /\ /\ n.state = "LIVE" /\ n.end
           /\ ~o.end \/ o.period # n.period
           => c
    BY DEF a, b, c, ScoreDue, FinalDue, EndDue, SameClock, ActiveRecord,
           GameRecord
  <1>7. QED
    BY <1>4, <1>5, <1>6 DEF MadeOf, s
=============================================================================
