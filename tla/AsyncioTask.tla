---------------------------- MODULE AsyncioTask -----------------------------
(***************************************************************************)
(* What every module of the bot takes for granted: that a handler runs     *)
(* alone from one await to the next, and goes on after what it awaits.     *)
(* The tasks and futures of _asynciomodule.c under one event loop.  A task *)
(* is a future too; a plain future is a sleep or a read.  What a coroutine *)
(* does is its own choice: it may create tasks, cancel any, await a plain  *)
(* future or a task younger than itself, catch what is thrown into it,     *)
(* yield, return or raise.                                                 *)
(***************************************************************************)
EXTENDS Naturals, Sequences

CONSTANTS MaxTasks,        \* bound: tasks 1..MaxTasks, in the order of creation
          Plain,           \* the plain futures
          MaxOps,          \* bound: what the coroutines do between them
          AwaitCancelled   \* may a coroutine that was cancelled while running
                           \* await a task before it yields?

Tasks == 1..MaxTasks
None == 0                  \* no task, no future
Futures == Tasks \cup Plain

ASSUME AsyncioBounds == /\ MaxTasks \in Nat \ {0} /\ MaxOps \in Nat
                        /\ Plain \cap Nat = {}
                        /\ AwaitCancelled \in BOOLEAN

VARIABLES fut_state, fut_exception, fut_callbacks, fut_blocking,
          task_fut_waiter, task_must_cancel,
          suspended,       \* suspended[t]: the future whose await t is in
          ready, ntodo,    \* the loop's queue, and what is left of this iteration
          timers,          \* plain futures whose handle is not in the queue yet
          current,         \* current_tasks[loop]
          got,             \* what the running coroutine got when it was resumed
          ops,
          owed             \* history: tasks whose cancellation was accepted
                           \* and has not reached the coroutine

futureVars == <<fut_state, fut_exception, fut_callbacks, fut_blocking>>
taskVars == <<task_fut_waiter, task_must_cancel, suspended>>
loopVars == <<ready, ntodo, timers>>
asyncioVars == <<futureVars, taskVars, loopVars, current, got, ops, owed>>

Step(t, exc) == [call |-> "step", task |-> t, of |-> exc]
Wakeup(t, f) == [call |-> "wakeup", task |-> t, of |-> f]
Timer(f) == [call |-> "timer", task |-> None, of |-> f]

AsyncioInit ==
  /\ fut_state = [f \in Futures |-> IF f \in Plain \cup {1} THEN "PENDING" ELSE "UNBORN"]
  /\ fut_exception = [f \in Futures |-> "none"]
  /\ fut_callbacks = [f \in Futures |-> <<>>]
  /\ fut_blocking = {}
  /\ task_fut_waiter = [t \in Tasks |-> None]
  /\ task_must_cancel = [t \in Tasks |-> FALSE]
  /\ suspended = [t \in Tasks |-> None]
  /\ ready = <<Step(1, "none")>>
  /\ ntodo = 0
  /\ timers = Plain
  /\ current = None
  /\ got = "value"
  /\ ops = 0
  /\ owed = {}
-----------------------------------------------------------------------------
(* Futures *)
Pending(f) == fut_state[f] = "PENDING"

\* What result() gives: the coroutine that awaits f goes on with this.
Outcome(f) == CASE fut_state[f] = "CANCELLED" -> "cancelled"
                [] fut_state[f] = "FINISHED" ->
                     IF fut_exception[f] = "none" THEN "value" ELSE fut_exception[f]
                [] OTHER -> "pending"

\* Mutant: only the first of those who await f is woken.
WakeFirst(callbacks, f) == [i \in DOMAIN callbacks \cap {1} |-> Wakeup(callbacks[i], f)]

Wakeups(callbacks, f) == [i \in DOMAIN callbacks |-> Wakeup(callbacks[i], f)]

\* f, awaited by callbacks, leaves PENDING: each is scheduled, in order.
Complete(f, state, exc, callbacks, queue) ==
  /\ fut_state' = [fut_state EXCEPT ![f] = state]
  /\ fut_exception' = [fut_exception EXCEPT ![f] = exc]
  /\ fut_callbacks' = [fut_callbacks EXCEPT ![f] = <<>>]
  /\ ready' = queue \o Wakeups(callbacks, f)

SetResult(f, queue) == Complete(f, "FINISHED", "none", fut_callbacks[f], queue)

\* Mutant: the state stays PENDING.
SetErrorOnly(f, exc, queue) == Complete(f, fut_state[f], exc, fut_callbacks[f], queue)

SetException(f, exc, queue) == Complete(f, "FINISHED", exc, fut_callbacks[f], queue)
FutureCancel(f, callbacks) == Complete(f, "CANCELLED", "none", callbacks, ready)
-----------------------------------------------------------------------------
(* The loop *)

\* One pass: what is in the queue now runs, what is added meanwhile does not.
Iterate == /\ current = None /\ ntodo = 0 /\ ready # <<>>
           /\ ntodo' = Len(ready)
           /\ UNCHANGED <<futureVars, taskVars, ready, timers, current, got, ops, owed>>

\* Between two passes the handle of a sleep or a read becomes due.
Due(f) == /\ current = None /\ ntodo = 0 /\ f \in timers
          /\ timers' = timers \ {f}
          /\ ready' = Append(ready, Timer(f))
          /\ UNCHANGED <<futureVars, taskVars, ntodo, current, got, ops, owed>>

Runs(call) == /\ current = None /\ ntodo > 0
              /\ Head(ready).call = call
              /\ ntodo' = ntodo - 1

\* It sets the result, or the error of the read, unless f was cancelled.
RunTimer == /\ Runs("timer")
            /\ LET f == Head(ready).of
               IN  IF Pending(f)
                   THEN \/ SetResult(f, Tail(ready))
                        \/ SetException(f, "error", Tail(ready))
                   ELSE /\ ready' = Tail(ready)
                        /\ UNCHANGED <<fut_state, fut_exception, fut_callbacks>>
            /\ UNCHANGED <<fut_blocking, taskVars, timers, current, got, ops, owed>>
-----------------------------------------------------------------------------
(* Task._step and Task._wakeup *)

\* What is thrown into t: a cancellation that is due replaces anything else.
Thrown(t, exc) == IF task_must_cancel[t] THEN "cancelled" ELSE exc

\* What t goes on with: what is thrown, or the result of what it awaits.
Resumed(t, exc) == CASE exc # "none" -> exc
                     [] exc = "none" /\ suspended[t] = None -> "value"
                     [] OTHER -> Outcome(suspended[t])

\* A task that is done answers with the assertion "already done".
TaskStep(t, exc) ==
  IF Pending(t)
  THEN /\ task_must_cancel' = [task_must_cancel EXCEPT ![t] = FALSE]
       /\ task_fut_waiter' = [task_fut_waiter EXCEPT ![t] = None]
       /\ current' = t
       /\ got' = Resumed(t, Thrown(t, exc))
       /\ owed' = IF Thrown(t, exc) = "cancelled" THEN owed \ {t} ELSE owed
       /\ suspended' = [suspended EXCEPT ![t] = None]
  ELSE UNCHANGED <<taskVars, current, got, owed>>

RunStep == /\ Runs("step")
           /\ TaskStep(Head(ready).task, Head(ready).of)
           /\ ready' = Tail(ready)
           /\ UNCHANGED <<futureVars, timers, ops>>

\* The result itself is not passed on: the coroutine asks the future for it.
WakeupExc(f) == IF Outcome(f) = "value" THEN "none" ELSE Outcome(f)

RunWakeup == /\ Runs("wakeup")
             /\ TaskStep(Head(ready).task, WakeupExc(Head(ready).of))
             /\ ready' = Tail(ready)
             /\ UNCHANGED <<futureVars, timers, ops>>
-----------------------------------------------------------------------------
(* What the running coroutine does without giving up control *)
Acts == current # None /\ ops < MaxOps /\ ops' = ops + 1

CreateTask(t) == /\ Acts
                 /\ fut_state[t] = "UNBORN"
                 /\ \A u \in 1..t - 1 : fut_state[u] # "UNBORN"
                 /\ fut_state' = [fut_state EXCEPT ![t] = "PENDING"]
                 /\ ready' = Append(ready, Step(t, "none"))
                 /\ UNCHANGED <<fut_exception, fut_callbacks, fut_blocking, taskVars,
                                ntodo, timers, current, got, owed>>

\* cancel() is passed on to what t waits for as long as that is a task at work.
PassesOn(t) == Pending(t) /\ task_fut_waiter[t] \in Tasks /\ Pending(task_fut_waiter[t])

Reaches(t, u) == \A S \in SUBSET Tasks :
                   (t \in S /\ \A s \in S : PassesOn(s) => task_fut_waiter[s] \in S) => u \in S

\* Mutant: a task is cancelled like a future by the task that waits for it.
CancelAsFuture(u, t) ==
  /\ Acts
  /\ u = t /\ Pending(t)
  /\ LET f == task_fut_waiter[t]
     IN  IF f # None /\ Pending(f)
         THEN FutureCancel(f, fut_callbacks[f]) /\ UNCHANGED task_must_cancel
         ELSE /\ task_must_cancel' = [task_must_cancel EXCEPT ![t] = TRUE]
              /\ UNCHANGED <<fut_state, fut_exception, fut_callbacks, ready>>
  /\ owed' = owed \cup {t}
  /\ UNCHANGED <<fut_blocking, task_fut_waiter, suspended, ntodo, timers, current, got>>

\* Mutant: the coroutine is cancelled at once, not by what it waits for.
CancelSoon(u, t) ==
  /\ Acts
  /\ Pending(u) /\ Reaches(u, t) /\ ~PassesOn(t)
  /\ task_must_cancel' = [task_must_cancel EXCEPT ![t] = TRUE]
  /\ ready' = IF suspended[t] = None THEN ready ELSE Append(ready, Step(t, "none"))
  /\ owed' = owed \cup {t}
  /\ UNCHANGED <<futureVars, task_fut_waiter, suspended, ntodo, timers, current, got>>

\* u.cancel(), which ends at t: what t waits for is cancelled, or else t is
\* to be cancelled when it is next stepped.
Cancel(u, t) ==
  /\ Acts
  /\ Pending(u) /\ Reaches(u, t) /\ ~PassesOn(t)
  /\ LET f == task_fut_waiter[t]
     IN  IF f \in Plain /\ Pending(f)
         THEN FutureCancel(f, fut_callbacks[f]) /\ UNCHANGED task_must_cancel
         ELSE /\ task_must_cancel' = [task_must_cancel EXCEPT ![t] = TRUE]
              /\ UNCHANGED <<fut_state, fut_exception, fut_callbacks, ready>>
  /\ owed' = owed \cup {t}
  /\ UNCHANGED <<fut_blocking, task_fut_waiter, suspended, ntodo, timers, current, got>>

MayAwait(f) == f \in Plain \/ (f \in current + 1..MaxTasks /\ fut_state[f] # "UNBORN")

\* The iterator of a future that is done does not yield.
AwaitDone(f) == /\ Acts /\ MayAwait(f) /\ ~Pending(f)
                /\ got' = Outcome(f)
                /\ UNCHANGED <<futureVars, taskVars, loopVars, current, owed>>

\* "yield from wasn't used with future": the flag was left set.
AwaitBlocking(f) == /\ Acts /\ f \in fut_blocking /\ Pending(f)
                    /\ MayAwait(f) \/ f = current
                    /\ got' = "error"
                    /\ UNCHANGED <<futureVars, taskVars, loopVars, current, owed>>
-----------------------------------------------------------------------------
(* What ends the step *)
Suspends == current' = None /\ got' = "value"

\* t waits for f; if t is to be cancelled, f is instead, and wakes t with it.
AwaitPending(f) ==
  /\ Acts /\ MayAwait(f) /\ Pending(f) /\ f \notin fut_blocking
  /\ f \in Tasks /\ task_must_cancel[current] => AwaitCancelled
  /\ LET waiting == Append(fut_callbacks[f], current)
     IN  IF task_must_cancel[current]
         THEN FutureCancel(f, waiting)
         ELSE /\ fut_callbacks' = [fut_callbacks EXCEPT ![f] = waiting]
              /\ UNCHANGED <<fut_state, fut_exception, ready>>
  /\ task_must_cancel' = [task_must_cancel EXCEPT ![current] = FALSE]
  /\ task_fut_waiter' = [task_fut_waiter EXCEPT ![current] = f]
  /\ suspended' = [suspended EXCEPT ![current] = f]
  /\ Suspends
  /\ UNCHANGED <<fut_blocking, ntodo, timers, owed>>

StepSoon(exc) == /\ Acts
                 /\ ready' = Append(ready, Step(current, exc))
                 /\ Suspends
                 /\ UNCHANGED <<fut_state, fut_exception, fut_callbacks, taskVars, ntodo,
                                timers, owed>>

\* A bare yield gives up control for one pass.
BareYield == StepSoon("none") /\ UNCHANGED fut_blocking

\* A future of another loop, a generator, anything else: an error is thrown.
BadYield == StepSoon("error") /\ UNCHANGED fut_blocking

\* So it is for the task itself, which keeps the flag of its iterator.
AwaitSelf == /\ StepSoon("error")
             /\ current \notin fut_blocking
             /\ fut_blocking' = fut_blocking \cup {current}

\* The coroutine has ended; its task is done, and its waiters are scheduled.
Ends == /\ current # None
        /\ Suspends
        /\ UNCHANGED <<fut_blocking, task_fut_waiter, suspended, ntodo, timers, ops>>

\* Mutant: it ends with its result even when it was cancelled.
ReturnResult == /\ Ends
                /\ SetResult(current, ready)
                /\ UNCHANGED <<task_must_cancel, owed>>

\* One that was cancelled in its last step does not end with a result.
Return == /\ Ends
          /\ IF task_must_cancel[current] THEN SetException(current, "cancelled", ready)
                                          ELSE SetResult(current, ready)
          /\ task_must_cancel' = [task_must_cancel EXCEPT ![current] = FALSE]
          /\ owed' = IF task_must_cancel[current] THEN owed \ {current} ELSE owed

Raise == /\ Ends
         /\ SetException(current, "error", ready)
         /\ owed' = owed \ {current}
         /\ UNCHANGED task_must_cancel

\* A CancelledError, thrown into the coroutine or raised by it.
RaiseCancelled == /\ Ends
                  /\ FutureCancel(current, fut_callbacks[current])
                  /\ owed' = owed \ {current}
                  /\ UNCHANGED task_must_cancel

LoopStep == Iterate \/ RunTimer \/ RunStep \/ RunWakeup
Leave == Return \/ Raise \/ RaiseCancelled

AsyncioNext == \/ LoopStep \/ Leave
               \/ \E f \in Plain : Due(f)
               \/ \E t \in Tasks : CreateTask(t)
               \/ \E u, t \in Tasks : Cancel(u, t)
               \/ \E f \in Futures : AwaitDone(f) \/ AwaitBlocking(f) \/ AwaitPending(f)
               \/ BareYield \/ BadYield \/ AwaitSelf

\* The loop runs until its tasks are done, a sleep or a read ends, and a
\* coroutine does not run for ever.
AsyncioFairness == /\ WF_asyncioVars(LoopStep)
                   /\ WF_asyncioVars(Leave)
                   /\ \A f \in Plain : WF_asyncioVars(Due(f))

AsyncioSpec == AsyncioInit /\ [][AsyncioNext]_asyncioVars /\ AsyncioFairness
-----------------------------------------------------------------------------
(* Properties *)
Handles == {Step(t, exc) : t \in Tasks, exc \in {"none", "error"}}
             \cup {Wakeup(t, f) : t \in Tasks, f \in Futures}
             \cup {Timer(f) : f \in Plain}

\* Types; a coroutine is never resumed by a future that is still pending.
AsyncioTypeOK ==
  /\ fut_state \in [Futures -> {"UNBORN", "PENDING", "CANCELLED", "FINISHED"}]
  /\ fut_exception \in [Futures -> {"none", "error", "cancelled"}]
  /\ fut_callbacks \in [Futures -> Seq(Tasks)]
  /\ fut_blocking \subseteq Tasks
  /\ task_fut_waiter \in [Tasks -> Futures \cup {None}]
  /\ task_must_cancel \in [Tasks -> BOOLEAN]
  /\ suspended \in [Tasks -> Futures \cup {None}]
  /\ ready \in Seq(Handles)
  /\ ntodo \in 0..Len(ready)
  /\ timers \subseteq Plain
  /\ current \in Tasks \cup {None}
  /\ got \in {"value", "error", "cancelled"}
  /\ ops \in 0..MaxOps
  /\ owed \subseteq Tasks

\* Everything that will step t: itself, a handle in the queue, a callback of
\* a future that is still to be done.
Resumptions(t) == {<<"running", t>> : x \in {t} \cap {current}}
                    \cup {<<"ready", i>> : i \in {j \in DOMAIN ready : ready[j].task = t}}
                    \cup UNION {{<<"waits", f, i>> : i \in {j \in DOMAIN fut_callbacks[f] :
                                                               fut_callbacks[f][j] = t}} :
                                f \in {g \in Futures : Pending(g)}}

\* A task that is not done is stepped by exactly one thing, at any moment: its
\* wakeup is not lost, nor does it come twice, whoever awaits, completes and
\* cancels what in whatever order.
OneResumption == \A t \in Tasks : Pending(t) => \E r \in Resumptions(t) : Resumptions(t) = {r}

\* "A task will be marked as cancelled when the wrapped coroutine terminates
\* with a CancelledError": nothing is left to step a task that is done.
DoneWhenEnded == \A t \in Tasks : Resumptions(t) # {} => Pending(t)

\* A cancellation that cancel() accepted is on its way until the coroutine has
\* it: however it races with the future that t waits for and with the end of t.
CancellationKept == \A t \in owed : /\ Pending(t)
                                    /\ \/ task_must_cancel[t]
                                       \/ \E i \in DOMAIN ready :
                                            /\ ready[i].call = "wakeup" /\ ready[i].task = t
                                            /\ Outcome(ready[i].of) = "cancelled"

\* Every task ends: an await goes on once what it awaits is done.
AllEnd == \A t \in Tasks : Pending(t) ~> ~Pending(t)

\* What the loop promises to its coroutines (Cooperative).
Status == [f \in Futures |-> CASE fut_state[f] = "UNBORN" -> "unborn"
                               [] Pending(f) -> "pending"
                               [] OTHER -> "done"]

Coop == INSTANCE Cooperative WITH status <- Status, turn <- current, waiting <- suspended

\* A coroutine has the loop for itself from one await to the next and goes on
\* after an await exactly when what it awaits is done: also when it is
\* cancelled meanwhile, when the future fails, or when both race.
CooperativeSpec == Coop!CoopSpec
=============================================================================
