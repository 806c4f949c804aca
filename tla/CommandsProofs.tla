--------------------------- MODULE CommandsProofs ---------------------------
(***************************************************************************)
(* Proofs about what the get commands compute: how a long message is cut,  *)
(* for any limit and any message; which division's standings are printed,  *)
(* for any league; what is said of a series; and which games a reply       *)
(* lists, for any games, start times, time zone and length of a game.      *)
(***************************************************************************)
EXTENDS MessageSplit, Standings, SeriesScore, ScoresReport,
        FiniteSetTheorems, WellFoundedInduction, TLAPS

-----------------------------------------------------------------------------
(***************************************************************************)
(* Least elements.  A statement about every number is proved by looking at *)
(* the least number of which it does not hold.                             *)
(***************************************************************************)
Less == {ss \in Nat \X Nat : ss[1] < ss[2]}

LEMMA LessWellFounded == IsWellFoundedOn(Less, Nat)
<1>1. Less = OpToRel(<, Nat)
  BY DEF Less, OpToRel
<1> QED BY <1>1, NatLessThanWellFounded

\* A set of natural numbers that is not empty has a least element.
LEMMA LeastElement ==
    ASSUME NEW T, T \subseteq Nat, T # {}
    PROVE  \E x \in T : \A y \in T : x <= y
<1>1. PICK x \in T : \A y \in T : <<y, x>> \notin Less
  BY LessWellFounded, WFMin
<1>2. ASSUME NEW y \in T PROVE x <= y
  <2>1. x \in Nat /\ y \in Nat
    OBVIOUS
  <2>2. y < x => <<y, x>> \in Less
    BY <2>1 DEF Less
  <2> QED BY <1>1, <2>1, <2>2
<1> QED BY <1>2

\* Induction, for a property given as the set of the numbers that have it.
LEMMA InductionOverSet ==
    ASSUME NEW T, 0 \in T, \A n \in Nat : n \in T => n + 1 \in T
    PROVE  \A n \in Nat : n \in T
<1> DEFINE Missing == {n \in Nat : n \notin T}
<1>1. CASE Missing = {}
  BY <1>1
<1>2. CASE Missing # {}
  <2>1. PICK x \in Missing : \A y \in Missing : x <= y
    <3>1. Missing \subseteq Nat
      OBVIOUS
    <3> HIDE DEF Missing
    <3> QED BY <1>2, <3>1, LeastElement
  <2>2. x \in Nat /\ x # 0 /\ x \notin T
    OBVIOUS
  <2>3. x - 1 \in Nat /\ x - 1 \in T
    BY <2>1, <2>2
  <2>4. (x - 1) + 1 = x
    BY <2>2
  <2> QED BY <2>2, <2>3, <2>4
<1> QED BY <1>1, <1>2

\* Max of a set of natural numbers that has a bound and is not empty.
LEMMA MaxOfBounded ==
    ASSUME NEW S, S \subseteq Nat, S # {}, NEW b \in Nat, \A s \in S : s <= b
    PROVE  Max(S) \in S /\ \A s \in S : s <= Max(S)
<1> DEFINE U == {n \in Nat : \A s \in S : s <= n}
<1>1. PICK x \in U : \A y \in U : x <= y
  <2>1. U \subseteq Nat /\ b \in U
    OBVIOUS
  <2> HIDE DEF U
  <2> QED BY <2>1, LeastElement
<1>2. x \in Nat /\ \A s \in S : s <= x
  OBVIOUS
<1>3. x \in S
  <2> SUFFICES ASSUME x \notin S PROVE FALSE
    OBVIOUS
  <2>1. \A s \in S : s \in Nat /\ s < x
    BY <1>2
  <2>2. x - 1 \in Nat
    <3>1. PICK s \in S : s \in Nat /\ s < x
      BY <2>1
    <3> QED BY <1>2, <3>1
  <2>3. x - 1 \in U
    BY <2>1, <2>2
  <2> HIDE DEF U
  <2> QED BY <1>1, <1>2, <2>3
<1>4. \E m \in S : \A s \in S : m >= s
  BY <1>2, <1>3
<1>5. \A s \in S : Max(S) \in S /\ Max(S) >= s
  BY <1>4 DEF Max
<1> QED BY <1>4, <1>5

LEMMA MinOfSome ==
    ASSUME NEW S, S \subseteq Nat, S # {}
    PROVE  Min(S) \in S /\ \A s \in S : Min(S) <= s
<1>1. PICK m \in S : \A s \in S : m <= s
  BY LeastElement
<1> QED BY <1>1 DEF Min

-----------------------------------------------------------------------------
(***************************************************************************)
(* SeriesScore.                                                            *)
(***************************************************************************)
\* Nobody has more wins than it takes, and not both have them; and the
\* message is about the score there is.
SeriesInv ==
    /\ wins \in [Teams -> 0..Needed]
    /\ \E t \in Teams : wins[t] < Needed
    /\ away \in Teams
    /\ \/ series.verb = "tied" /\ wins[1] = wins[2]
       \/ series = SeriesText(away, wins[away], wins[Other(away)])

LEMMA SeriesInvAlways == SeriesSpec => []SeriesInv
<1> USE DEF Teams, Needed, Other
<1>1. SeriesInit => SeriesInv
  BY DEF SeriesInit, SeriesInv, Told
<1>2. ASSUME SeriesInv, NEW team \in Teams, GameWon(team) PROVE SeriesInv'
  <2>1. /\ wins' \in [Teams -> 0..Needed]
        /\ \E t \in Teams : wins'[t] < Needed
    BY <1>2 DEF GameWon, SeriesInv
  <2> QED BY <1>2, <2>1 DEF GameWon, SeriesInv
<1>3. SeriesInv /\ UNCHANGED seriesVars => SeriesInv'
  BY DEF seriesVars, SeriesInv
<1>4. SeriesInv /\ [SeriesNext]_seriesVars => SeriesInv'
  BY <1>2, <1>3 DEF SeriesNext
<1> QED BY <1>1, <1>4, PTL DEF SeriesSpec

\* All through a series the message names the team that is ahead, with its
\* wins first, but when the home team of the last game has won the series
\* (get_final_discord_string, nhl_gamebreak_lib.py 175-187).
THEOREM SeriesLeaderNamedEver == SeriesSpec => []SeriesLeaderNamed
<1>1. SeriesInv => SeriesLeaderNamed
  <2> SUFFICES ASSUME SeriesInv PROVE SeriesLeaderNamed
    OBVIOUS
  <2> USE DEF Teams, Needed, Other
  <2> DEFINE H == Other(away)
  <2>1. /\ away \in {1, 2} /\ H \in {1, 2} /\ H # away
        /\ wins[1] \in 0..4 /\ wins[2] \in 0..4
        /\ wins[1] < 4 \/ wins[2] < 4
    BY DEF SeriesInv
  <2>2. CASE wins[1] = wins[2]
    <3>1. wins[away] = wins[H]
      BY <2>1, <2>2
    <3> QED BY <2>2, <3>1 DEF SeriesInv, SeriesLeaderNamed, SeriesText, Told
  <2>3. CASE wins[1] # wins[2]
    <3>1. series = SeriesText(away, wins[away], wins[H])
      BY <2>3 DEF SeriesInv
    <3>2. CASE wins[away] > wins[H]
      BY <2>1, <2>3, <3>1, <3>2 DEF SeriesLeaderNamed, SeriesText, Told
    <3>3. CASE wins[away] < wins[H]
      BY <2>1, <2>3, <3>1, <3>3 DEF SeriesLeaderNamed, SeriesText, Told
    <3> QED BY <2>1, <2>3, <3>2, <3>3
  <2> QED BY <2>2, <2>3
<1> QED BY SeriesInvAlways, <1>1, PTL

-----------------------------------------------------------------------------
(***************************************************************************)
(* Standings.                                                              *)
(***************************************************************************)
StandingsInv == /\ league \in Leagues
                /\ request \in Requests \cup {"none"}
                /\ request # "none" => answer = Output(league, request)

LEMMA StandingsInvAlways == StandingsSpec => []StandingsInv
<1>1. StandingsInit => StandingsInv
  BY DEF StandingsInit, StandingsInv
<1>2. StandingsInv /\ [StandingsNext]_standingsVars => StandingsInv'
  BY DEF StandingsInv, StandingsNext, GetStandings, standingsVars, Requests, Known
<1> QED BY <1>1, <1>2, PTL DEF StandingsSpec

\* The entries a request for a division that is there is answered from: as
\* far behind the division as unknown ones come before it.
LEMMA DivisionIdOf ==
    ASSUME NEW l \in Leagues, NEW p \in DOMAIN l
    PROVE  LET strangers == {j \in Before(l, p) : l[j] \notin Known}
           IN /\ IsFiniteSet(strangers) /\ Cardinality(strangers) \in Nat
              /\ DivisionId(l, l[p]) = (p - 1) + Cardinality(strangers)
<1> DEFINE strangers == {j \in Before(l, p) : l[j] \notin Known}
           S == {0} \cup {Counter(l, i) : i \in {j \in DOMAIN l : l[j] = l[p]}}
<1>1. l \in Seq(STRING) /\ DOMAIN l = 1..Len(l) /\ Len(l) \in Nat /\ p \in 1..Len(l)
  BY LeaguesOK
<1>2. {j \in DOMAIN l : l[j] = l[p]} = {p}
  BY LeaguesOK
<1>3. Before(l, p) = 1..(p - 1)
  BY <1>1 DEF Before
<1>4. /\ IsFiniteSet(Before(l, p)) /\ Cardinality(Before(l, p)) = p - 1
  BY <1>1, <1>3, FS_Interval
<1>5. IsFiniteSet(strangers) /\ Cardinality(strangers) \in Nat
  <2>1. strangers \in SUBSET Before(l, p)
    OBVIOUS
  <2> HIDE DEF strangers
  <2> QED BY <1>4, <2>1, FS_Subset, FS_CardinalityType
<1>6. Counter(l, p) = (p - 1) + Cardinality(strangers)
  BY <1>4 DEF Counter
<1>7. S = {0, Counter(l, p)}
  BY <1>2
<1>8. Counter(l, p) \in Nat
  BY <1>1, <1>5, <1>6
<1>9. Max({0, Counter(l, p)}) = Counter(l, p)
  <2> DEFINE c == Counter(l, p)
  <2> HIDE DEF c
  <2>1. c \in Nat
    BY <1>8 DEF c
  <2>2. Max({0, c}) \in {0, c} /\ \A s \in {0, c} : s <= Max({0, c})
    BY <2>1, MaxOfBounded
  <2>3. Max({0, c}) = c
    BY <2>1, <2>2
  <2> QED BY <2>3 DEF c
<1>10. DivisionId(l, l[p]) = Max(S)
  BY DEF DivisionId
<1> QED BY <1>5, <1>6, <1>7, <1>9, <1>10

\* A division is printed by itself exactly if no unknown one comes before it.
LEMMA DivisionPrinted ==
    ASSUME NEW l \in Leagues, NEW p \in DOMAIN l, l[p] \in Known
    PROVE  Output(l, l[p]) = Printed(<<l[p]>>) <=> \A i \in 1..p : l[i] \in Known
<1> DEFINE strangers == {j \in Before(l, p) : l[j] \notin Known}
           c == DivisionId(l, l[p])
<1>1. /\ l \in Seq(STRING) /\ DOMAIN l = 1..Len(l) /\ Len(l) \in Nat /\ p \in 1..Len(l)
      /\ \A i, j \in 1..Len(l) : l[i] = l[j] => i = j
  BY LeaguesOK
<1>2. /\ IsFiniteSet(strangers) /\ Cardinality(strangers) \in Nat
      /\ c = (p - 1) + Cardinality(strangers)
  BY DivisionIdOf
<1>3. Positions(l, l[p]) = {c}
  BY DEF Positions, Known
<1>4. c \in Nat
  BY <1>1, <1>2
<1>5. Cardinality({c}) = 1 /\ Min({c}) = c
  <2> HIDE DEF c
  <2>1. Min({c}) \in {c}
    BY <1>4, MinOfSome
  <2> QED BY <2>1, FS_Singleton
<1>6. Output(l, l[p]) = IF c >= Len(l) THEN Failure ELSE Printed(<<l[c + 1]>>)
  <2> HIDE DEF c
  <2>1. [k \in 1..1 |-> l[c + k]] = <<l[c + 1]>>
    BY <1>4
  <2> QED BY <1>3, <1>5, <2>1 DEF Output
<1>7. Output(l, l[p]) = Printed(<<l[p]>>) <=> c + 1 = p
  <2> HIDE DEF c
  <2>1. CASE c >= Len(l)
    BY <1>1, <1>4, <1>6, <2>1 DEF Failure, Printed
  <2>2. CASE c < Len(l)
    <3>1. c + 1 \in 1..Len(l)
      BY <1>1, <1>4, <2>2
    <3>2. Output(l, l[p]) = Printed(<<l[c + 1]>>)
      BY <1>1, <1>4, <1>6, <2>2
    <3>3. Printed(<<l[c + 1]>>) = Printed(<<l[p]>>) <=> l[c + 1] = l[p]
      BY DEF Printed
    <3> QED BY <1>1, <3>1, <3>2, <3>3
  <2> QED BY <1>1, <1>4, <2>1, <2>2
<1>8. c + 1 = p <=> strangers = {}
  <2>1. Cardinality(strangers) = 0 <=> strangers = {}
    BY <1>2, FS_EmptySet
  <2> HIDE DEF strangers, c
  <2> QED BY <1>1, <1>2, <2>1
<1>9. strangers = {} <=> \A i \in 1..p : l[i] \in Known
  <2>1. Before(l, p) = 1..(p - 1)
    BY <1>1 DEF Before
  <2> QED BY <1>1, <2>1
<1> HIDE DEF strangers, c
<1> QED BY <1>7, <1>8, <1>9

\* The whole league is printed exactly if it has four divisions.
LEMMA LeaguePrinted ==
    ASSUME NEW l \in Leagues
    PROVE  Output(l, "All") = Printed(l) <=> Len(l) = 4
<1>1. l \in Seq(STRING) /\ DOMAIN l = 1..Len(l) /\ Len(l) \in Nat
  BY LeaguesOK
<1>2. Positions(l, "All") = 0..3
  BY DEF Positions
<1>3. Cardinality(0..3) = 4 /\ Min(0..3) = 0
  <2>1. Min(0..3) \in 0..3 /\ \A s \in 0..3 : Min(0..3) <= s
    BY MinOfSome
  <2>2. Cardinality(0..3) = IF 0 > 3 THEN 0 ELSE 3 - 0 + 1
    BY FS_Interval, 0 \in Int, 3 \in Int
  <2>3. Min(0..3) = 0
    BY <2>1
  <2> QED BY <2>2, <2>3
<1>4. Output(l, "All") = IF Len(l) <= 3 THEN Failure ELSE Printed([k \in 1..4 |-> l[0 + k]])
  <2>1. (\E p \in 0..3 : p >= Len(l)) <=> Len(l) <= 3
    BY <1>1
  <2> QED BY <1>2, <1>3, <2>1 DEF Output
<1>5. CASE Len(l) <= 3
  <2>1. Output(l, "All") = Failure
    BY <1>4, <1>5
  <2> QED BY <1>1, <1>5, <2>1 DEF Failure, Printed
<1>6. CASE Len(l) > 3
  <2> DEFINE four == [k \in 1..4 |-> l[0 + k]]
  <2>1. Output(l, "All") = Printed(four)
    BY <1>1, <1>4, <1>6
  <2>2. Printed(four) = Printed(l) <=> four = l
    BY DEF Printed
  <2>3. four = l <=> Len(l) = 4
    <3>1. ASSUME Len(l) = 4 PROVE four = l
      BY <1>1, <3>1
    <3>2. ASSUME four = l PROVE Len(l) = 4
      <4>1. DOMAIN four = 1..4
        OBVIOUS
      <4>2. 1..4 = 1..Len(l)
        BY <1>1, <3>2, <4>1
      <4> QED BY <1>1, <4>2
    <3> QED BY <3>1, <3>2
  <2> QED BY <2>1, <2>2, <2>3
<1> QED BY <1>1, <1>5, <1>6

\* "get standings" prints the division asked for exactly when no unknown one
\* comes before it in the answer, and the whole league exactly if it has four
\* divisions (get_nhl_standings, get_standings.py 10-64).
THEOREM RightWhenKnownFirstEver == StandingsSpec => []RightWhenKnownFirst
<1>1. StandingsInv => RightWhenKnownFirst
  <2> SUFFICES ASSUME StandingsInv PROVE RightWhenKnownFirst
    OBVIOUS
  <2>1. ASSUME request \in Known, InLeague(request)
        PROVE answer = Printed(<<request>>)
                 <=> \A i \in 1..Place(request) : league[i] \in Known
    <3>1. Place(request) \in DOMAIN league /\ league[Place(request)] = request
      BY <2>1 DEF InLeague, Place
    <3>2. answer = Output(league, request) /\ league \in Leagues
      BY <2>1 DEF StandingsInv, Known
    <3> QED BY <2>1, <3>1, <3>2, DivisionPrinted
  <2>2. ASSUME request = "All" PROVE answer = Printed(league) <=> Len(league) = 4
    BY <2>2, LeaguePrinted DEF StandingsInv
  <2> QED BY <2>1, <2>2 DEF RightWhenKnownFirst
<1> QED BY StandingsInvAlways, <1>1, PTL

-----------------------------------------------------------------------------
(***************************************************************************)
(* MessageSplit.                                                           *)
(***************************************************************************)
LEMMA MessageTypeAlways == SplitSpec => [](message \in Seq(Chars))
<1>1. SplitInit => message \in Seq(Chars)
  BY DEF SplitInit
<1>2. message \in Seq(Chars) /\ [SplitNext]_message => (message \in Seq(Chars))'
  BY DEF SplitNext, Write
<1> QED BY <1>1, <1>2, PTL DEF SplitSpec

\* How the number of ASCII characters grows along a message.
LEMMA AsciiCount ==
    ASSUME NEW m \in Seq(Chars)
    PROVE  /\ AsciiUpTo(m, 0) = 0
           /\ \A n \in 1..Len(m) :
                AsciiUpTo(m, n) = AsciiUpTo(m, n - 1) + (IF m[n] = "u" THEN 0 ELSE 1)
           /\ \A n \in 0..Len(m) : AsciiUpTo(m, n) \in 0..n
           /\ \A n \in 0..Len(m) : \A i \in 0..n : AsciiUpTo(m, i) <= AsciiUpTo(m, n)
<1> DEFINE A(n) == {j \in 1..n : m[j] # "u"}
<1>1. ASSUME NEW n \in 0..Len(m)
      PROVE  IsFiniteSet(A(n)) /\ Cardinality(A(n)) \in 0..n
  <2>1. IsFiniteSet(1..n) /\ Cardinality(1..n) = n
    BY FS_Interval
  <2>2. A(n) \in SUBSET (1..n)
    OBVIOUS
  <2> HIDE DEF A
  <2>3. IsFiniteSet(A(n)) /\ Cardinality(A(n)) <= n
    BY <2>1, <2>2, FS_Subset
  <2> QED BY <2>3, FS_CardinalityType
<1>2. Cardinality(A(0)) = 0
  <2>1. A(0) = {}
    OBVIOUS
  <2> QED BY <2>1, FS_EmptySet
<1>3. ASSUME NEW n \in 1..Len(m)
      PROVE  Cardinality(A(n)) = Cardinality(A(n - 1)) + (IF m[n] = "u" THEN 0 ELSE 1)
  <2>1. n - 1 \in 0..Len(m)
    OBVIOUS
  <2>2. IsFiniteSet(A(n - 1)) /\ Cardinality(A(n - 1)) \in Nat
    BY <1>1, <2>1
  <2>3. CASE m[n] = "u"
    <3>1. A(n) = A(n - 1)
      BY <2>3
    <3> HIDE DEF A
    <3> QED BY <2>2, <2>3, <3>1
  <2>4. CASE m[n] # "u"
    <3>1. A(n) = A(n - 1) \cup {n} /\ n \notin A(n - 1)
      BY <2>4
    <3> HIDE DEF A
    <3> QED BY <2>2, <2>4, <3>1, FS_AddElement
  <2> QED BY <2>3, <2>4
<1>4. ASSUME NEW n \in 0..Len(m), NEW i \in 0..n
      PROVE  Cardinality(A(i)) <= Cardinality(A(n))
  <2>1. A(i) \in SUBSET A(n)
    OBVIOUS
  <2> HIDE DEF A
  <2> QED BY <1>1, <2>1, FS_Subset
<1>5. \A n : AsciiUpTo(m, n) = Cardinality(A(n))
  BY DEF AsciiUpTo
<1> HIDE DEF A
<1> QED BY <1>1, <1>2, <1>3, <1>4, <1>5

\* One more character of m.
KeepOne(m, g, n) == IF n = 0 THEN <<>>
                    ELSE IF m[n] = "u" THEN g[n - 1] ELSE Append(g[n - 1], m[n])

\* There is a function that keeps them one by one, for every length.
LEMMA KeepingExists ==
    ASSUME NEW m
    PROVE  \A b \in Nat : \E g : g = [n \in 0..b |-> KeepOne(m, g, n)]
<1> DEFINE T == {b \in Nat : \E g : g = [n \in 0..b |-> KeepOne(m, g, n)]}
<1>1. 0 \in T
  <2> DEFINE g == [n \in 0..0 |-> <<>>]
  <2>1. g = [n \in 0..0 |-> KeepOne(m, g, n)]
    BY DEF KeepOne
  <2> HIDE DEF g
  <2> QED BY <2>1
<1>2. ASSUME NEW b \in Nat, b \in T PROVE b + 1 \in T
  <2>1. PICK g : g = [n \in 0..b |-> KeepOne(m, g, n)]
    BY <1>2
  <2> DEFINE h == [n \in 0..(b + 1) |-> IF n = b + 1 THEN KeepOne(m, g, n) ELSE g[n]]
  <2>2. \A n \in 0..b : h[n] = g[n]
    OBVIOUS
  <2>3. h[b + 1] = KeepOne(m, g, b + 1)
    OBVIOUS
  <2>4. \A n \in 0..b : g[n] = KeepOne(m, g, n)
    <3> DEFINE k == [n \in 0..b |-> KeepOne(m, g, n)]
    <3>1. \A n \in 0..b : k[n] = KeepOne(m, g, n)
      OBVIOUS
    <3>2. g = k
      BY <2>1
    <3> HIDE DEF k
    <3> QED BY <3>1, <3>2
  <2>5. DOMAIN h = 0..(b + 1) /\ h = [n \in DOMAIN h |-> h[n]]
    OBVIOUS
  <2> HIDE DEF h
  <2>6. \A n \in 1..(b + 1) : h[n - 1] = g[n - 1]
    BY <2>2
  <2>7. \A n \in 0..(b + 1) : KeepOne(m, h, n) = KeepOne(m, g, n)
    <3> SUFFICES ASSUME NEW n \in 0..(b + 1) PROVE KeepOne(m, h, n) = KeepOne(m, g, n)
      OBVIOUS
    <3>1. CASE n = 0
      BY <3>1 DEF KeepOne
    <3>2. CASE n # 0
      <4>1. h[n - 1] = g[n - 1]
        BY <2>6, <3>2
      <4> QED BY <4>1 DEF KeepOne
    <3> QED BY <3>1, <3>2
  <2>8. \A n \in 0..(b + 1) : h[n] = KeepOne(m, h, n)
    <3> SUFFICES ASSUME NEW n \in 0..(b + 1) PROVE h[n] = KeepOne(m, g, n)
      BY <2>7
    <3>1. CASE n = b + 1
      BY <2>3, <3>1
    <3>2. CASE n # b + 1
      <4>1. n \in 0..b
        BY <3>2
      <4> QED BY <2>2, <2>4, <4>1
    <3> QED BY <3>1, <3>2
  <2>9. h = [n \in 0..(b + 1) |-> KeepOne(m, h, n)]
    BY <2>5, <2>8
  <2> QED BY <2>9
<1> HIDE DEF T
<1>3. \A b \in Nat : b \in T
  BY <1>1, <1>2, InductionOverSet
<1> QED BY <1>3 DEF T

\* What has been kept of the first b characters of m.
KeptOf(m, s, b) ==
    /\ s \in Seq(Chars)
    /\ Len(s) = AsciiUpTo(m, b)
    /\ \A i \in 1..b : m[i] # "u" => s[AsciiUpTo(m, i)] = m[i]

LEMMA KeptOneMore ==
    ASSUME NEW m \in Seq(Chars), NEW b \in 1..Len(m), NEW s, KeptOf(m, s, b - 1)
    PROVE  KeptOf(m, IF m[b] = "u" THEN s ELSE Append(s, m[b]), b)
<1>1. /\ \A n \in 1..Len(m) :
           AsciiUpTo(m, n) = AsciiUpTo(m, n - 1) + (IF m[n] = "u" THEN 0 ELSE 1)
      /\ \A n \in 0..Len(m) : AsciiUpTo(m, n) \in 0..n
      /\ \A n \in 0..Len(m) : \A i \in 0..n : AsciiUpTo(m, i) <= AsciiUpTo(m, n)
  BY AsciiCount
<1>2. /\ b \in Nat /\ b - 1 \in 0..Len(m) /\ m[b] \in Chars
      /\ \A i \in 1..b : i = b \/ i \in 1..(b - 1)
  OBVIOUS
<1>3. /\ s \in Seq(Chars) /\ Len(s) = AsciiUpTo(m, b - 1)
      /\ \A i \in 1..(b - 1) : m[i] # "u" => s[AsciiUpTo(m, i)] = m[i]
  BY DEF KeptOf
<1>4. CASE m[b] = "u"
  <2>1. AsciiUpTo(m, b) = AsciiUpTo(m, b - 1)
    BY <1>1, <1>2, <1>4
  <2> QED BY <1>2, <1>3, <1>4, <2>1 DEF KeptOf
<1>5. CASE m[b] # "u"
  <2>1. AsciiUpTo(m, b) = Len(s) + 1
    BY <1>1, <1>2, <1>3, <1>5
  <2>2. /\ Append(s, m[b]) \in Seq(Chars) /\ Len(Append(s, m[b])) = Len(s) + 1
        /\ Append(s, m[b])[Len(s) + 1] = m[b]
        /\ \A i \in 1..Len(s) : Append(s, m[b])[i] = s[i]
    BY <1>2, <1>3
  <2>3. ASSUME NEW i \in 1..(b - 1), m[i] # "u" PROVE Append(s, m[b])[AsciiUpTo(m, i)] = m[i]
    <3>1. i \in 1..Len(m) /\ i - 1 \in 0..Len(m) /\ i \in 0..(b - 1)
      BY <1>2
    <3>2. AsciiUpTo(m, i) = AsciiUpTo(m, i - 1) + 1 /\ AsciiUpTo(m, i - 1) \in Nat
      BY <1>1, <2>3, <3>1
    <3>3. AsciiUpTo(m, i) <= Len(s)
      BY <1>1, <1>2, <1>3, <3>1
    <3>4. AsciiUpTo(m, i) \in 1..Len(s)
      BY <1>3, <3>2, <3>3
    <3> QED BY <1>3, <2>2, <2>3, <3>4
  <2> QED BY <1>2, <1>5, <2>1, <2>2, <2>3 DEF KeptOf
<1> QED BY <1>4, <1>5

\* The characters that encode and decode keep: all that are ASCII, in order.
LEMMA AsciiKeeps == ASSUME NEW m \in Seq(Chars) PROVE KeptOf(m, Ascii(m), Len(m))
<1> DEFINE kept[n \in 0..Len(m)] == IF n = 0 THEN <<>>
                                    ELSE IF m[n] = "u" THEN kept[n - 1]
                                         ELSE Append(kept[n - 1], m[n])
<1>1. Ascii(m) = kept[Len(m)]
  BY DEF Ascii
<1>2. Len(m) \in Nat
  OBVIOUS
<1>3. kept = [n \in 0..Len(m) |-> KeepOne(m, kept, n)]
  <2>1. \E g : g = [n \in 0..Len(m) |-> KeepOne(m, g, n)]
    BY <1>2, KeepingExists
  <2> QED BY <2>1 DEF KeepOne
<1> HIDE DEF kept
<1>4. \A n \in 0..Len(m) : kept[n] = KeepOne(m, kept, n)
  <2> DEFINE k == [n \in 0..Len(m) |-> KeepOne(m, kept, n)]
  <2>1. \A n \in 0..Len(m) : k[n] = KeepOne(m, kept, n)
    OBVIOUS
  <2>2. kept = k
    BY <1>3
  <2> HIDE DEF k
  <2> QED BY <2>1, <2>2
<1> DEFINE T == {b \in Nat : b <= Len(m) => KeptOf(m, kept[b], b)}
<1>5. 0 \in T
  <2>1. kept[0] = <<>>
    BY <1>2, <1>4 DEF KeepOne
  <2>2. KeptOf(m, <<>>, 0)
    BY AsciiCount DEF KeptOf
  <2> QED BY <2>1, <2>2
<1>6. ASSUME NEW b \in Nat, b \in T PROVE b + 1 \in T
  <2> SUFFICES ASSUME b + 1 <= Len(m) PROVE KeptOf(m, kept[b + 1], b + 1)
    OBVIOUS
  <2>1. b + 1 \in 1..Len(m) /\ (b + 1) - 1 = b /\ b + 1 # 0
    BY <1>2
  <2>2. KeptOf(m, kept[b], b)
    BY <1>2, <1>6
  <2>3. kept[b + 1] = IF m[b + 1] = "u" THEN kept[b] ELSE Append(kept[b], m[b + 1])
    BY <1>4, <2>1 DEF KeepOne
  <2> HIDE DEF T
  <2> QED BY <2>1, <2>2, <2>3, KeptOneMore
<1> HIDE DEF T
<1>7. \A b \in Nat : b \in T
  BY <1>5, <1>6, InductionOverSet
<1> QED BY <1>1, <1>2, <1>7 DEF T

\* The cut is a break within the limit, after which there is none up to it.
LEMMA CutIs ==
    ASSUME NEW m \in Seq(Chars)
    PROVE  /\ Cut(m) \in 0..Limit
           /\ Cut(m) # 0 => Cut(m) + 1 \in 1..Len(m) /\ m[Cut(m) + 1] = "nl"
           /\ \A k \in 1..Len(m) : m[k] = "nl" /\ k - 1 <= Limit => k - 1 <= Cut(m)
<1> DEFINE S == {i \in Breaks(m) : i <= Limit} \cup {0}
<1>1. Limit \in Nat
  BY LimitOK
<1>2. \A i : i \in Breaks(m) <=> i \in Nat /\ i + 1 \in 1..Len(m) /\ m[i + 1] = "nl"
  BY DEF Breaks
<1>3. S \subseteq Nat /\ S # {} /\ \A s \in S : s <= Limit
  BY <1>1, <1>2
<1>4. Cut(m) = Max(S)
  BY DEF Cut
<1>5. Cut(m) \in S /\ \A s \in S : s <= Cut(m)
  <2> HIDE DEF S
  <2> QED BY <1>1, <1>3, <1>4, MaxOfBounded
<1>6. ASSUME NEW k \in 1..Len(m), m[k] = "nl", k - 1 <= Limit PROVE k - 1 <= Cut(m)
  <2>1. k - 1 \in Nat /\ (k - 1) + 1 = k
    OBVIOUS
  <2>2. k - 1 \in S
    BY <1>2, <1>6, <2>1
  <2> HIDE DEF S
  <2> QED BY <1>5, <2>2
<1>7. Cut(m) \in 0..Limit
  BY <1>1, <1>3, <1>5
<1>8. Cut(m) # 0 => Cut(m) + 1 \in 1..Len(m) /\ m[Cut(m) + 1] = "nl"
  BY <1>2, <1>5
<1> QED BY <1>6, <1>7, <1>8

\* No stretch without a line break is longer than the longest.
LEMMA LongestLineIs ==
    ASSUME NEW m \in Seq(Chars)
    PROVE  /\ LongestLine(m) \in Nat
           /\ \A i, j \in 0..Len(m) :
                i <= j /\ (\A k \in (i + 1)..j : m[k] # "nl") => j - i <= LongestLine(m)
<1> DEFINE Stretches == {q \in (0..Len(m)) \X (0..Len(m)) :
                            q[1] <= q[2] /\ \A k \in (q[1] + 1)..q[2] : m[k] # "nl"}
           S == {0} \cup {p[2] - p[1] : p \in Stretches}
<1>1. Len(m) \in Nat
  OBVIOUS
<1>2. S \subseteq Nat /\ S # {} /\ \A s \in S : s <= Len(m)
  <2>1. \A p \in Stretches : p[2] - p[1] \in 0..Len(m)
    OBVIOUS
  <2> HIDE DEF Stretches
  <2> QED BY <1>1, <2>1
<1>3. LongestLine(m) = Max(S)
  BY DEF LongestLine
<1>4. LongestLine(m) \in S /\ \A s \in S : s <= LongestLine(m)
  <2> HIDE DEF S
  <2> QED BY <1>1, <1>2, <1>3, MaxOfBounded
<1>5. ASSUME NEW i \in 0..Len(m), NEW j \in 0..Len(m), i <= j,
             \A k \in (i + 1)..j : m[k] # "nl"
      PROVE  j - i <= LongestLine(m)
  <2>1. <<i, j>> \in Stretches
    BY <1>5
  <2>2. j - i \in S
    <3> HIDE DEF Stretches
    <3>1. <<i, j>>[2] - <<i, j>>[1] \in S
      BY <2>1
    <3> QED BY <3>1
  <2> HIDE DEF S
  <2> QED BY <1>4, <2>2
<1> HIDE DEF S
<1> QED BY <1>2, <1>4, <1>5

\* Both halves of a message whose lines are short enough, and which is itself
\* not too long for its longest line, are within Discord's limit, whatever the
\* limit and the message (send_discord_message, nhl_gamebreak_lib.py 196-225).
THEOREM HalvesFitEver == SplitSpec => []HalvesFit
<1>1. message \in Seq(Chars) => HalvesFit
  <2> SUFFICES ASSUME message \in Seq(Chars),
                      LongestLine(message) < Limit,
                      Len(message) <= 2 * Limit + 1 - LongestLine(message)
               PROVE  \A half \in Sent(message) : Len(half) <= Limit
    BY DEF HalvesFit
  <2> DEFINE m == message
             c == Cut(m)
             w == LongestLine(m)
  <2>1. Limit \in Nat /\ Len(m) \in Nat /\ w \in Nat
    BY LimitOK, LongestLineIs
  <2>2. /\ c \in 0..Limit
        /\ c # 0 => c + 1 \in 1..Len(m)
        /\ \A k \in 1..Len(m) : m[k] = "nl" /\ k - 1 <= Limit => k - 1 <= c
    BY CutIs
  \* From the cut, or from the second character, to the limit there is no break.
  <2>3. ASSUME Len(m) > Limit PROVE Limit - c <= w
    <3>1. c + 1 \in 0..Len(m) /\ Limit + 1 \in 0..Len(m) /\ c + 1 <= Limit + 1
      BY <2>1, <2>2, <2>3
    <3>2. \A k \in ((c + 1) + 1)..(Limit + 1) : m[k] # "nl"
      <4> SUFFICES ASSUME NEW k \in ((c + 1) + 1)..(Limit + 1), m[k] = "nl" PROVE FALSE
        OBVIOUS
      <4>1. k \in 1..Len(m) /\ k - 1 <= Limit /\ k - 1 > c
        BY <2>1, <2>2, <3>1
      <4> HIDE DEF c
      <4> QED BY <2>1, <2>2, <4>1
    <3>3. (Limit + 1) - (c + 1) <= w
      <4> HIDE DEF c
      <4> QED BY <3>1, <3>2, LongestLineIs
    <3> QED BY <2>1, <2>2, <3>3
  <2>4. CASE IsSplit(m)
    <3>1. Len(m) > Limit /\ c # 0
      BY <2>4 DEF IsSplit
    <3>2. Len(m) - c - 1 <= Limit /\ c <= Len(m)
      BY <2>1, <2>2, <2>3, <3>1
    <3>3. Sent(m) \subseteq {SubSeq(m, 1, c), SubSeq(m, c + 2, Len(m))}
      BY <2>4 DEF Sent, Halves
    <3> HIDE DEF c
    <3>4. Len(SubSeq(m, 1, c)) <= Limit
      BY <2>1, <2>2, <3>1, <3>2
    <3>5. Len(SubSeq(m, c + 2, Len(m))) <= Limit
      BY <2>1, <2>2, <3>1, <3>2
    <3> QED BY <3>3, <3>4, <3>5
  <2>5. CASE ~IsSplit(m)
    <3>1. Len(m) <= Limit
      <4>1. ASSUME Len(m) > Limit PROVE FALSE
        <5>1. c = 0
          BY <2>5, <4>1 DEF IsSplit
        <5> HIDE DEF c
        <5> QED BY <2>1, <2>3, <4>1, <5>1
      <4> QED BY <2>1, <4>1
    <3>2. Sent(m) \subseteq {Ascii(m)}
      BY <2>5 DEF Sent, Halves
    <3>3. Len(Ascii(m)) <= Len(m)
      <4>1. Len(Ascii(m)) = AsciiUpTo(m, Len(m))
        BY AsciiKeeps DEF KeptOf
      <4> QED BY <2>1, <4>1, AsciiCount
    <3>4. Len(Ascii(m)) \in Nat
      BY AsciiKeeps DEF KeptOf
    <3> QED BY <2>1, <3>1, <3>2, <3>3, <3>4
  <2> QED BY <2>4, <2>5
<1> QED BY MessageTypeAlways, <1>1, PTL

\* Whatever is sent is what was to be said: only the line break at the cut is
\* left out of a message in two halves, and only what is not ASCII of a whole
\* one (send_discord_message, nhl_gamebreak_lib.py 196-225).
THEOREM NothingLostEver == SplitSpec => []NothingLost
<1>1. message \in Seq(Chars) => NothingLost
  <2> SUFFICES ASSUME message \in Seq(Chars) PROVE NothingLost
    OBVIOUS
  <2> DEFINE m == message
             c == Cut(m)
  <2>1. CASE IsSplit(m)
    <3>1. m \in Seq(Chars) /\ Len(m) \in Nat
      OBVIOUS
    <3>2. c \in Nat /\ c + 1 \in 1..Len(m) /\ m[c + 1] = "nl"
      BY <2>1, CutIs, LimitOK DEF IsSplit
    <3>3. Halves(m) = <<SubSeq(m, 1, c), SubSeq(m, c + 2, Len(m))>>
      BY <2>1 DEF Halves
    <3> HIDE DEF c
    <3> DEFINE first == SubSeq(m, 1, c)
               second == SubSeq(m, c + 2, Len(m))
    <3>4. /\ first \in Seq(Chars) /\ Len(first) = c
          /\ \A i \in 1..c : first[i] = m[i]
      BY <3>2
    <3>5. /\ second \in Seq(Chars) /\ Len(second) = Len(m) - c - 1
          /\ \A i \in 1..(Len(m) - c - 1) : second[i] = m[c + 1 + i]
      BY <3>2
    <3>6. <<"nl">> \in Seq(Chars) /\ Len(<<"nl">>) = 1 /\ <<"nl">>[1] = "nl"
      BY DEF Chars
    <3>7. Halves(m) = <<first, second>>
      BY <3>3
    <3> HIDE DEF first, second, c, m
    <3> DEFINE start == first \o <<"nl">>
               whole == start \o second
    <3>8. /\ start \in Seq(Chars) /\ Len(start) = c + 1
          /\ \A i \in 1..(c + 1) : start[i] = IF i = c + 1 THEN "nl" ELSE m[i]
      BY <3>2, <3>4, <3>6
    <3> HIDE DEF start
    <3>9. whole \in Seq(Chars) /\ Len(whole) = Len(m)
      <4>1. start \in Seq(Chars) /\ second \in Seq(Chars)
        BY <3>5, <3>8
      <4>2. whole \in Seq(Chars) /\ Len(whole) = Len(start) + Len(second)
        BY <4>1
      <4> QED BY <3>2, <3>5, <3>8, <4>2
    <3>10. ASSUME NEW i \in 1..Len(m) PROVE whole[i] = m[i]
      <4>1. CASE i <= c + 1
        <5>1. i \in 1..Len(start) /\ start \in Seq(Chars) /\ second \in Seq(Chars)
          BY <3>2, <3>5, <3>8, <4>1
        <5>2. whole[i] = start[i]
          BY <5>1
        <5> QED BY <3>2, <3>8, <4>1, <5>2
      <4>2. CASE i > c + 1
        <5>1. i - (c + 1) \in 1..(Len(m) - c - 1) /\ c + 1 + (i - (c + 1)) = i
          BY <3>2, <4>2
        <5>2. whole[i] = second[i - (c + 1)]
          <6>1. /\ start \in Seq(Chars) /\ second \in Seq(Chars)
                /\ Len(start) = c + 1 /\ Len(second) = Len(m) - c - 1
            BY <3>5, <3>8
          <6>2. \A k \in Len(start) + 1..Len(start) + Len(second) :
                   whole[k] = second[k - Len(start)]
            BY <6>1
          <6> HIDE DEF whole
          <6> QED BY <3>1, <3>2, <4>2, <6>1, <6>2
        <5> QED BY <3>5, <5>1, <5>2
      <4>3. i <= c + 1 \/ i > c + 1
        BY <3>1, <3>2
      <4> QED BY <4>1, <4>2, <4>3
    <3>11. whole = m
      <4> HIDE DEF whole
      <4> QED BY <3>1, <3>9, <3>10
    <3>12. Halves(m)[1] = first /\ Halves(m)[2] = second
      BY <3>7
    <3>13. Halves(m)[1] \o <<"nl">> \o Halves(m)[2] = m
      BY <3>11, <3>12 DEF start
    <3> QED BY <2>1, <3>13 DEF NothingLost, m
  <2>2. CASE ~IsSplit(m)
    <3>1. Halves(m) = <<Ascii(m), <<>>>>
      BY <2>2 DEF Halves
    <3>2. KeptOf(m, Ascii(m), Len(m))
      BY AsciiKeeps
    <3> QED BY <2>2, <3>1, <3>2 DEF NothingLost, KeptOf
  <2> QED BY <2>1, <2>2
<1> QED BY MessageTypeAlways, <1>1, PTL

-----------------------------------------------------------------------------
(***************************************************************************)
(* ScoresReport.                                                           *)
(***************************************************************************)
Asked == step \in {"schedule", "replied"}

\* A game under way, for either service, is not older than a game gets.
NotOverdue == \A g \in Games : Live \in {stats[g], latest[g]} => utc <= Start[g] + MaxGame

\* The first request has been answered: what was made of its answer, and what
\* is still known of the games it named.
AnswerKept ==
    Asked => /\ command \in Commands
             /\ asked.live \subseteq asked.active
             /\ \A g \in asked.live : asked.hour <= Start[g] + MaxGame
             /\ \A g \in asked.active : stats[g] # Preview
             /\ scores = IF command.date.word = "yesterday" THEN {}
                         ELSE {g \in asked.active : Reported(command, g, asked.hour)}
             /\ command.what = "schedule" => day = CheckDay(command.date, asked.hour)

\* The second one has: whoever is left out of the answer has begun.
LeftOutBegan == step = "replied" /\ command.what = "schedule" =>
                    \A g \in OnDay(day) \ scheduled : stats[g] # Preview

ReportInv == /\ ReportTypeOK
             /\ step = "scores" => command \in Commands
             /\ NotOverdue
             /\ AnswerKept
             /\ LeftOutBegan
             /\ ListedOnce

USE DEF Preview, Live, Final, Dropped

\* Days are whole numbers.
LEMMA DayType == ASSUME NEW t \in Int PROVE DayOf(t) \in Int
  BY DEF DayOf

LEMMA CheckDayType ==
    ASSUME NEW date \in Dates, NEW hour \in Int PROVE CheckDay(date, hour) \in Int
<1>1. DayOf(Local(hour)) \in Int
  BY ReportBounds, DayType DEF Local
<1>2. date.day \in Int
  BY DEF Dates
<1>3. date.word \in {"today", "tomorrow", "yesterday", "date"}
  BY DEF Dates
<1> QED BY <1>1, <1>2, <1>3 DEF CheckDay

LEMMA ReportInvInit == ReportInit => ReportInv
  BY ReportBounds DEF ReportInit, ReportInv, ReportTypeOK, NotOverdue, AnswerKept, Asked,
     LeftOutBegan, ListedOnce, NotAsked

\* The clock stops for a game that has to end; nothing else looks at it.
LEMMA TickKeeps == ReportInv /\ Tick => ReportInv'
<1> SUFFICES ASSUME ReportInv, Tick PROVE ReportInv'
  OBVIOUS
<1> USE ReportBounds DEF ReportInv, Tick, reply
<1>1. ReportTypeOK'
  BY DEF ReportTypeOK
<1>2. NotOverdue'
  BY DEF NotOverdue, ReportTypeOK
<1>3. AnswerKept'
  BY DEF AnswerKept, Asked
<1>4. LeftOutBegan'
  BY DEF LeftOutBegan
<1> QED BY <1>1, <1>2, <1>3, <1>4 DEF ListedOnce

\* A game that begins was not reported before, and stays begun.
LEMMA PlayKeeps == ASSUME ReportInv, NEW g \in Games, Play(g) PROVE ReportInv'
<1>0. utc \in Int /\ MaxGame \in Int /\ \A h \in Games : Start[h] \in Int
  BY ReportBounds DEF ReportInv, ReportTypeOK
<1> USE ReportBounds DEF ReportInv, Play, reply
<1>1. ReportTypeOK'
  BY DEF ReportTypeOK
<1>2. NotOverdue'
  <2> SUFFICES ASSUME NEW h \in Games, Live \in {stats'[h], latest'[h]}
               PROVE utc' <= Start[h] + MaxGame
    BY DEF NotOverdue
  <2>1. CASE Live \in {stats[h], latest[h]}
    BY <2>1 DEF NotOverdue
  <2>2. CASE Live \notin {stats[h], latest[h]}
    <3>1. h = g /\ stats[g] = Preview
      BY <2>2 DEF ReportTypeOK
    <3>2. utc < Start[g] + MaxGame /\ utc' = utc
      BY <3>1
    <3> HIDE DEF ReportInv, Play
    <3> QED BY <1>0, <3>1, <3>2
  <2> QED BY <2>1, <2>2
<1>3. \A h \in Games : stats[h] # Preview => stats'[h] # Preview
  BY DEF ReportTypeOK
<1>4. AnswerKept'
  <2>1. asked.active \subseteq Games
    BY DEF ReportTypeOK
  <2> QED BY <1>3, <2>1 DEF AnswerKept, Asked
<1>5. LeftOutBegan'
  BY <1>3 DEF LeftOutBegan, OnDay
<1> QED BY <1>1, <1>2, <1>4, <1>5 DEF ListedOnce

\* The score API shows no game under way but one the league shows.
LEMMA RefreshKeeps == ASSUME ReportInv, NEW g \in Games, Refresh(g) PROVE ReportInv'
<1> USE ReportBounds DEF ReportInv, Refresh, reply
<1>1. ReportTypeOK'
  BY DEF ReportTypeOK
<1>2. NotOverdue'
  BY DEF NotOverdue, ReportTypeOK
<1>3. AnswerKept'
  BY DEF AnswerKept, Asked
<1>4. LeftOutBegan'
  BY DEF LeftOutBegan
<1> QED BY <1>1, <1>2, <1>3, <1>4 DEF ListedOnce

LEMMA AskKeeps == ASSUME ReportInv, NEW c \in Commands, Ask(c) PROVE ReportInv'
  BY DEF ReportInv, Ask, ReportTypeOK, NotOverdue, AnswerKept, Asked, LeftOutBegan, ListedOnce

\* What the first request answers is what AnswerKept says of it.
LEMMA GetScoresKeeps == ReportInv /\ GetScores => ReportInv'
<1> SUFFICES ASSUME ReportInv, GetScores PROVE ReportInv'
  OBVIOUS
<1> USE DEF ReportInv, GetScores
<1>1. command \in Commands /\ utc \in Int /\ step = "scores" /\ scheduled = {}
  BY DEF ReportTypeOK
<1>2. CheckDay(command.date, utc) \in Int
  BY <1>1, CheckDayType DEF Commands
<1>3. /\ asked' = [hour |-> utc, active |-> ActiveNow, live |-> {g \in Games : latest[g] = Live}]
      /\ ActiveNow \subseteq Games
  BY DEF ActiveNow
<1>4. ReportTypeOK'
  BY <1>1, <1>2, <1>3 DEF ReportTypeOK
<1>5. NotOverdue'
  BY DEF NotOverdue
<1>6. AnswerKept'
  <2>1. asked'.live \subseteq asked'.active
    BY <1>3 DEF ActiveNow
  <2>2. \A g \in asked'.live : asked'.hour <= Start[g] + MaxGame
    BY <1>3 DEF NotOverdue
  <2>3. \A g \in asked'.active : stats[g] # Preview
    BY <1>3 DEF ActiveNow, ReportTypeOK
  <2>4. scores' = IF command.date.word = "yesterday" THEN {}
                  ELSE {g \in asked'.active : Reported(command, g, asked'.hour)}
    BY <1>3
  <2>5. command.what = "schedule" => day' = CheckDay(command.date, asked'.hour)
    BY <1>3
  <2>6. command' = command /\ stats' = stats
    OBVIOUS
  <2> HIDE DEF GetScores
  <2> QED BY <1>1, <2>1, <2>2, <2>3, <2>4, <2>5, <2>6 DEF AnswerKept, Reported, CheckDay,
            DateToCheck
<1>7. LeftOutBegan'
  BY DEF LeftOutBegan
<1>8. ListedOnce'
  BY <1>1 DEF ListedOnce
<1> QED BY <1>1, <1>4, <1>5, <1>6, <1>7, <1>8

\* The second request lists games that have not begun; those of the first have.
LEMMA GetScheduleKeeps == ReportInv /\ GetSchedule => ReportInv'
<1> SUFFICES ASSUME ReportInv, GetSchedule PROVE ReportInv'
  OBVIOUS
<1> USE DEF ReportInv, GetSchedule
<1>1. ReportTypeOK'
  BY DEF ReportTypeOK, OnDay
<1>2. NotOverdue'
  BY DEF NotOverdue
<1>3. AnswerKept'
  BY DEF AnswerKept, Asked
<1>4. LeftOutBegan'
  BY DEF LeftOutBegan, OnDay
<1>5. \A g \in scores : stats[g] # Preview
  BY DEF AnswerKept, Asked
<1>6. ListedOnce'
  BY <1>5 DEF ListedOnce, ReportTypeOK
<1> QED BY <1>1, <1>2, <1>3, <1>4, <1>6

LEMMA EndKeeps == ReportInv /\ (RequestFails \/ Finish) => ReportInv'
  BY ReportBounds DEF ReportInv, RequestFails, Finish, ReportTypeOK, NotOverdue, AnswerKept,
     Asked, LeftOutBegan, ListedOnce, NotAsked, NoCommand

LEMMA ReportInvAlways == ReportSpec => []ReportInv
<1>1. ReportInv /\ [ReportNext]_reportVars => ReportInv'
  <2> SUFFICES ASSUME ReportInv, [ReportNext]_reportVars PROVE ReportInv'
    OBVIOUS
  <2>1. CASE UNCHANGED reportVars
    BY <2>1 DEF ReportInv, reportVars, ReportTypeOK, NotOverdue, AnswerKept, Asked,
       LeftOutBegan, ListedOnce
  <2> QED BY <2>1, TickKeeps, PlayKeeps, RefreshKeeps, AskKeeps, GetScoresKeeps,
            GetScheduleKeeps, EndKeeps DEF ReportNext
<1> QED BY ReportInvInit, <1>1, PTL DEF ReportSpec

\* A reply starts from nothing and is about games (exec_get_func of
\* get_scores.py and get_schedule.py).
THEOREM ReportTypeCorrect == ReportSpec => []ReportTypeOK
<1>1. ReportInv => ReportTypeOK
  BY DEF ReportInv
<1> QED BY ReportInvAlways, <1>1, PTL

\* A schedule lists no game with its score and with its start, however far the
\* games get between the two requests (get_schedule.py 21-28).
THEOREM ListedOnceEver == ReportSpec => []ListedOnce
<1>1. ReportInv => ListedOnce
  BY DEF ReportInv
<1> QED BY ReportInvAlways, <1>1, PTL

\* A schedule misses a game of the day only if it had begun when the league
\* was asked and the score API did not report it (get_schedule.py 21-28).
THEOREM NothingMissedEver == ReportSpec => []NothingMissed
<1>1. ReportInv => NothingMissed
  <2> SUFFICES ASSUME ReportInv, Replying("schedule", "today"),
                      Local(asked.hour) > DateToCheck(Today, asked.hour),
                      NEW g \in OnDay(DayOf(Local(asked.hour))) \ (scores \cup scheduled),
                      Start[g] > DateToCheck(Today, asked.hour)
               PROVE stats[g] # Preview /\ g \notin asked.active
    BY DEF NothingMissed
  <2> USE DEF ReportInv, Replying
  <2>1. /\ day = DayOf(Local(asked.hour))
        /\ DateToCheck(command.date, asked.hour) = DateToCheck(Today, asked.hour)
    BY DEF AnswerKept, Asked, CheckDay, DateToCheck, Today
  <2>2. stats[g] # Preview
    BY <2>1 DEF LeftOutBegan
  <2>3. Reported(command, g, asked.hour)
    BY <2>1 DEF Reported
  <2>4. g \notin asked.active
    BY <2>3 DEF AnswerKept, Asked
  <2> QED BY <2>2, <2>4
<1> QED BY ReportInvAlways, <1>1, PTL

\* The current scores are those of all games under way on a host far enough
\* behind UTC, and of no earlier day on one that is not too far behind
\* (get_scores.py 24-31).
THEOREM CurrentScoresEver == ReportSpec => []CurrentScores
<1>1. ReportInv => CurrentScores
  <2> SUFFICES ASSUME ReportInv, Replying("scores", "today")
               PROVE /\ Zone >= MaxGame => asked.live \subseteq scores
                     /\ Zone <= 5 /\ Local(asked.hour) > DateToCheck(Today, asked.hour) =>
                          \A g \in scores : DayOf(Local(Start[g])) >= DayOf(Local(asked.hour))
    BY DEF CurrentScores
  <2> DEFINE D == DayOf(Local(asked.hour))
  <2>1. /\ asked.hour \in Int /\ asked.active \subseteq Games
        /\ asked.live \subseteq asked.active
    BY DEF ReportInv, ReportTypeOK, AnswerKept, Asked, Replying
  <2>2. \A g \in asked.live : asked.hour <= Start[g] + MaxGame
    BY DEF ReportInv, AnswerKept, Asked, Replying
  <2>3. D \in Int
    BY <2>1, ReportBounds, DayType DEF Local
  <2>4. /\ DateToCheck(command.date, asked.hour) = 24 * D + 5
        /\ DateToCheck(Today, asked.hour) = 24 * D + 5
    BY DEF Replying, CheckDay, DateToCheck, Today
  <2>5. scores = {g \in asked.active : IF asked.hour - Zone > 24 * D + 5
                                       THEN Start[g] > 24 * D + 5 ELSE TRUE}
    BY <2>4 DEF ReportInv, AnswerKept, Asked, Replying, Reported, Local
  <2>6. ASSUME Zone >= MaxGame PROVE asked.live \subseteq scores
    BY <2>1, <2>2, <2>3, <2>5, <2>6, ReportBounds
  <2>7. ASSUME Zone <= 5, Local(asked.hour) > DateToCheck(Today, asked.hour), NEW g \in scores
        PROVE DayOf(Local(Start[g])) >= D
    <3> HIDE DEF D
    <3>1. Start[g] \in Int /\ Start[g] > 24 * D + 5
      BY <2>1, <2>3, <2>4, <2>5, <2>7, ReportBounds DEF Local
    <3>2. Start[g] - Zone > 24 * D /\ Start[g] - Zone \in Int /\ Zone \in Int
      BY <2>3, <2>7, <3>1, ReportBounds
    <3>3. (Start[g] - Zone) \div 24 >= D
      BY <2>3, <3>2, SMT
    <3> QED BY <3>3 DEF DayOf, Local
  <2> QED BY <2>6, <2>7
<1> QED BY ReportInvAlways, <1>1, PTL
=============================================================================
