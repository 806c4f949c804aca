---------------------------- MODULE MCStandings ----------------------------
(***************************************************************************)
(* Small instances of Standings for TLC.                                   *)
(***************************************************************************)
EXTENDS Standings

\* Every league of up to six divisions, two of which the code does not know.
Divisions == Known \cup {"Metropolitan", "Pacific"}

AnyLeague == {l \in UNION {[1..n -> Divisions] : n \in 0..6} :
                 \A i, j \in DOMAIN l : l[i] = l[j] => i = j}

\* The four divisions of the NHL but for its season of 2021.
ClassicNHL == {<<"Metropolitan", "Atlantic", "Central", "Pacific">>}
=============================================================================
