------------------------------ MODULE Handover ------------------------------
(***************************************************************************)
(* What a reload means for the readers: the instances of Reload, each with *)
(* its polling loop, against one score API.  What the API reports is the   *)
(* number of changes so far; 0 is an answer without games, which the loop  *)
(* takes for not having a snapshot.                                        *)
(*                                                                         *)
(* A round may announce any part of what separates its two snapshots.      *)
(* Which part it is, GameBreakBot says: a puck drop cuts games off, a goal *)
(* and its reversal cancel out, and of a game that is new or was over      *)
(* little or nothing is said.  So nothing is concluded here from a change  *)
(* that is left out; what is asked is who may announce one.                *)
(***************************************************************************)
EXTENDS Reload, Integers, Sequences

CONSTANT MaxChanges    \* bound: changes of the API's answer

ASSUME MaxChanges \in Nat

VARIABLES changes,     \* how many changes there have been
          base,        \* base[p]: changes in old_active_games of instance p
          snap,        \* snap[p]: changes in its active_games
          phase,       \* phase[p]: is it to fetch, or in the round after that
          told,        \* told[p]: the changes it has announced
          witnesses,   \* history: witnesses[c], who was watching at change c
          settled      \* history: settled[c], the reloaded instances whose
                       \* kills had run when change c happened

loops == <<base, snap, phase, told>>
observed == <<changes, witnesses, settled>>
handoverVars == <<vars, loops, observed>>

HandoverInit == /\ Init
                /\ changes = 0
                /\ base = [p \in Pids |-> 0]
                /\ snap = [p \in Pids |-> 0]
                /\ phase = [p \in Pids |-> "fetch"]
                /\ told = [p \in Pids |-> {}]
                /\ witnesses = <<>>
                /\ settled = <<>>

\* p polls and has seen an answer with games.
Watching(p) == st[p] = "polling" /\ snap[p] # 0

\* p was started with --reload, polls, and all its kills have run.
Settled(p) == /\ st[p] = "polling" /\ reloads[p]
              /\ \A q \in Pids : <<p, q>> \notin signals

Change == /\ changes < MaxChanges
          /\ changes' = changes + 1
          /\ witnesses' = Append(witnesses, {p \in Pids : Watching(p)})
          /\ settled' = Append(settled, {p \in Pids : Settled(p)})
          /\ UNCHANGED <<vars, loops>>

\* get_active_games; a request that raises changes nothing.
Fetch(p) == /\ st[p] = "polling" /\ phase[p] = "fetch"
            /\ snap' = [snap EXCEPT ![p] = changes]
            /\ phase' = [phase EXCEPT ![p] = "round"]
            /\ UNCHANGED <<vars, observed, base, told>>

\* Mutant: the test of old_active_games is left out.
DueUntested(p) == (base[p] + 1)..snap[p]

\* What the two snapshots differ in, if there are two.
Due(p) == IF base[p] = 0 THEN {} ELSE (base[p] + 1)..snap[p]

\* A message tells of a change, or of several at once.
Tell(p) == /\ st[p] = "polling" /\ phase[p] = "round"
           /\ \E some \in SUBSET Due(p) \ {{}} :
                 told' = [told EXCEPT ![p] = @ \cup some]
           /\ UNCHANGED <<vars, observed, base, snap, phase>>

\* An exception ends the round; the next compares with the same old snapshot.
Raise(p) == /\ st[p] = "polling" /\ phase[p] = "round"
            /\ Due(p) # {}
            /\ phase' = [phase EXCEPT ![p] = "fetch"]
            /\ UNCHANGED <<vars, observed, base, snap, told>>

\* old_active_games = active_games, and the sleep.
Commit(p) == /\ st[p] = "polling" /\ phase[p] = "round"
             /\ base' = [base EXCEPT ![p] = snap[p]]
             /\ phase' = [phase EXCEPT ![p] = "fetch"]
             /\ UNCHANGED <<vars, observed, snap, told>>

Process == Next /\ UNCHANGED <<loops, observed>>

HandoverNext == \/ Process
                \/ Change
                \/ \E p \in Pids : Fetch(p) \/ Tell(p) \/ Raise(p) \/ Commit(p)

HandoverSpec == HandoverInit /\ [][HandoverNext]_handoverVars
-----------------------------------------------------------------------------
\* A change is announced only by instances that were watching when it
\* happened.  So what happens between the end of the last of them and the
\* first snapshot of its successor is never announced; a restart repeats
\* nothing, reload or not, whatever its predecessors announced; and readers
\* get a change twice only if two instances were watching it at once.
ToldByWitnesses == \A p \in Pids : \A c \in told[p] : p \in witnesses[c]

\* Once a reload is complete the older instances are heard no more: a change
\* that happens then is never announced by one of them, so it comes twice
\* only from an instance started later.
OldFallSilent ==
    \A c \in 1..changes : \A p \in settled[c] : \A q \in before[p] : c \notin told[q]
=============================================================================
