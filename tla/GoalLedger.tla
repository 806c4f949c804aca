----------------------------- MODULE GoalLedger -----------------------------
(***************************************************************************)
(* A ledger kept beside the bot over the whole night: the goals the API    *)
(* ever added to a game against the goal posts each guild ever received    *)
(* for it, and the attempts that ended in an exception.                    *)
(* LiveTicker speaks of one attempt at a time; this speaks of all of them, *)
(* through retries, overturned goals and a new game under the same key.    *)
(***************************************************************************)
EXTENDS GameBreakBot

CONSTANT MaxFailures   \* bound: attempts that may end in an exception

ASSUME MaxFailures \in Nat

VARIABLES scored,      \* scored[g]: goals the API ever reported for game g
          scoredOld,   \* scored, when the answer behind old was taken
          scoredNew,   \* scored, when the answer behind active was taken
          credited,    \* credited[gd][g]: goal posts of game g gd received
          failures     \* attempts that ended in an exception

ledger == <<scored, scoredOld, scoredNew, credited, failures>>

NoGoals == [g \in Games |-> 0]

LedgerInit == /\ Init
              /\ scored = NoGoals
              /\ scoredOld = NoGoals
              /\ scoredNew = NoGoals
              /\ credited = [gd \in Recipients |-> NoGoals]
              /\ failures = 0

\* The goal posts of game g among some messages.
Goals(received, g) == {m \in received : m.kind = "goal" /\ m.game = g}

NewGoal(gd, g) == Goals(told'[gd], g) \ Goals(told[gd], g) # {}

Count ==
    /\ scored' = [g \in Games |->
                     IF \/ feed'[g].away > feed[g].away
                        \/ feed'[g].home > feed[g].home
                     THEN scored[g] + 1 ELSE scored[g]]
    /\ credited' = [gd \in Recipients |-> [g \in Games |->
                     IF NewGoal(gd, g) THEN credited[gd][g] + 1
                                       ELSE credited[gd][g]]]

\* Which step of the bot the ledger follows.
FetchL == /\ Fetch
          /\ scoredNew' = scored
          /\ UNCHANGED <<scored, scoredOld, credited, failures>>

CommitL == /\ Commit
           /\ scoredOld' = scoredNew
           /\ UNCHANGED <<scored, scoredNew, credited, failures>>

FailsL == /\ failures < MaxFailures
          /\ \/ \E gd \in Guilds : PostFails(gd)
             \/ \E g \in Games : CompareFails(g)
          /\ failures' = failures + 1
          /\ Count
          /\ UNCHANGED <<scoredOld, scoredNew>>

OtherL == /\ \/ FeedStep
             \/ Start \/ StartFails \/ LoopTest \/ FetchFails
             \/ \E g \in Games : PuckDrop(g) \/ Compare(g)
             \/ \E gd \in Guilds : Post(gd)
             \/ Posted \/ WakeUp
             \/ RequestStop \/ CloseClient
          /\ Count
          /\ UNCHANGED <<scoredOld, scoredNew, failures>>

LedgerNext == FetchL \/ CommitL \/ FailsL \/ OtherL

LedgerSpec == LedgerInit /\ [][LedgerNext]_<<vars, ledger>>
-----------------------------------------------------------------------------
\* A guild is never told of more goals of a game than the API ever added to
\* it, plus one for every attempt that an exception cut short: coming back to
\* the same answer, overturning and scoring again, or a second game under the
\* same "<away>at<home>" key cannot make the bot invent a goal.
NoPhantomGoals == \A gd \in Recipients : \A g \in Games :
                     credited[gd][g] <= scored[g] + failures
=============================================================================
