---------------------------- MODULE Cooperative -----------------------------
(***************************************************************************)
(* What the tasks of one event loop may rely on, and what the modules of   *)
(* the bot assume of it: at most one of them has the turn, it keeps it     *)
(* until it awaits, yields or ends, nothing is completed behind its back,  *)
(* and a task that awaits a future has the turn again only when that       *)
(* future is done, and then does have it again.                            *)
(***************************************************************************)
CONSTANTS Tasks, Plain, None

Futures == Tasks \cup Plain

VARIABLES status,    \* status[f]: "unborn", "pending" or "done"
          turn,      \* the task that runs, or None
          waiting    \* waiting[t]: the future that t awaits, or None

coopVars == <<status, turn, waiting>>

CoopInit == /\ \E t \in Tasks : status = [f \in Futures |-> IF f \in Plain \cup {t}
                                                           THEN "pending" ELSE "unborn"]
            /\ turn = None
            /\ waiting = [t \in Tasks |-> None]

CanResume(t) == /\ status[t] = "pending"
                /\ waiting[t] # None => status[waiting[t]] = "done"

Resume(t) == /\ turn = None /\ CanResume(t)
             /\ turn' = t
             /\ waiting' = [waiting EXCEPT ![t] = None]
             /\ UNCHANGED status

\* A plain future is done: between turns, or because a task cancels it.
Done(f) == /\ status[f] = "pending"
           /\ status' = [status EXCEPT ![f] = "done"]

CompletePlain(f) == Done(f) /\ UNCHANGED <<turn, waiting>>

Create(t) == /\ turn # None /\ status[t] = "unborn"
             /\ status' = [status EXCEPT ![t] = "pending"]
             /\ UNCHANGED <<turn, waiting>>

\* The turn ends.  A task that was cancelled cancels the plain future it awaits.
Await(f) == /\ turn # None /\ status[f] = "pending"
            /\ turn' = None
            /\ waiting' = [waiting EXCEPT ![turn] = f]
            /\ UNCHANGED status \/ (f \in Plain /\ Done(f))

Yield == /\ turn # None
         /\ turn' = None
         /\ UNCHANGED <<status, waiting>>

End == /\ turn # None
       /\ turn' = None
       /\ Done(turn)
       /\ UNCHANGED waiting

CoopNext == \/ \E t \in Tasks : Resume(t) \/ Create(t)
            \/ \E f \in Plain : CompletePlain(f)
            \/ \E f \in Futures : Await(f)
            \/ Yield \/ End

CoopSafety == CoopInit /\ [][CoopNext]_coopVars

\* No task that can go on is passed over for ever.
CoopSpec == CoopSafety /\ \A t \in Tasks : SF_coopVars(Resume(t))
=============================================================================
