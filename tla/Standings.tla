----------------------------- MODULE Standings -----------------------------
(***************************************************************************)
(* get_nhl_standings: which records of the league's answer are printed for *)
(* a division.  The answer is a sequence of divisions, in the API's order; *)
(* the code looks for the four it knows by name, remembers a position for  *)
(* each, and starts from position 0 for those it has not seen.  Positions  *)
(* count from 0, as in the code.                                           *)
(***************************************************************************)
EXTENDS Integers, Sequences, FiniteSets, FiniteSetsExt

CONSTANTS Leagues      \* the answers: sequences of different divisions

ASSUME LeaguesOK ==
    \A l \in Leagues : l \in Seq(STRING) /\ \A i, j \in DOMAIN l : l[i] = l[j] => i = j

Known == {"Central", "East", "West", "North"}

Requests == Known \cup {"All"}

\* What comes of a request: the divisions printed, in order, or an IndexError.
Printed(s) == [raised |-> FALSE, divisions |-> s]
Failure == [raised |-> TRUE, divisions |-> <<>>]

VARIABLES league,      \* the divisions of the answer, in its order
          request,     \* the division asked for
          answer       \* what came of it

standingsVars == <<league, request, answer>>

Before(l, i) == {j \in DOMAIN l : j < i}

\* Mutant: the counter is advanced only past divisions that are unknown.
CounterUnknown(l, i) == Cardinality({j \in Before(l, i) : l[j] \notin Known})

\* The counter when the i-th entry is looked at: it is advanced once for
\* every entry and once more for an entry of no known division.
Counter(l, i) == Cardinality(Before(l, i))
                 + Cardinality({j \in Before(l, i) : l[j] \notin Known})

\* division_ids[d]
DivisionId(l, d) == Max({0} \cup {Counter(l, i) : i \in {j \in DOMAIN l : l[j] = d}})

\* The positions from division_id_min to division_id_max.
Positions(l, r) == IF r = "All" THEN 0..3 ELSE {DivisionId(l, r)}

\* standings[i]["teamRecords"] for each of them, in order.
Output(l, r) == LET ps == Positions(l, r)
                IN IF \E p \in ps : p >= Len(l) THEN Failure
                   ELSE Printed([k \in 1..Cardinality(ps) |-> l[Min(ps) + k]])

StandingsInit == /\ league \in Leagues
        /\ request = "none"
        /\ answer = Printed(<<>>)

\* "!nhl get standings <division>"; without one, "all".  Any other name is
\* refused before the request.
GetStandings(r) == /\ request' = r
                   /\ answer' = Output(league, r)
                   /\ UNCHANGED league

StandingsNext == \E r \in Requests : GetStandings(r)

StandingsSpec == StandingsInit /\ [][StandingsNext]_standingsVars
-----------------------------------------------------------------------------
InLeague(d) == \E i \in DOMAIN league : league[i] = d

\* Where d stands in the league, counted from 1.
Place(d) == CHOOSE i \in DOMAIN league : league[i] = d

\* The help text: "Gets division standings for NHL North, Central, East, and
\* West divisions."  A division of the league, asked for by name, is what is
\* printed.
DivisionAskedFor == request \in Known /\ InLeague(request) => answer = Printed(<<request>>)

\* Exactly when no unknown division comes before the one asked for does the
\* reader get it, and the whole league is printed exactly if it has four.
RightWhenKnownFirst ==
    /\ request \in Known /\ InLeague(request) =>
          (answer = Printed(<<request>>)
             <=> \A i \in 1..Place(request) : league[i] \in Known)
    /\ request = "All" => (answer = Printed(league) <=> Len(league) = 4)
=============================================================================
