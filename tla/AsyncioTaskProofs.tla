------------------------- MODULE AsyncioTaskProofs --------------------------
(***************************************************************************)
(* No wakeup is lost or doubled, for any number of tasks and futures, and, *)
(* when no coroutine awaits a task while it is itself to be cancelled, no  *)
(* cancellation is forgotten and no task stepped when it is done.  A       *)
(* pending task is in one of three places: it runs, the queue holds one    *)
(* handle for it, or the future it awaits is pending and has one callback  *)
(* for it.  So is one that was cancelled as a plain future, but that it    *)
(* has no turn any more.  The queue is a parameter of the parts that speak *)
(* of it, to hold of it with its head taken off.                           *)
(***************************************************************************)
EXTENDS AsyncioTask, SequenceTheorems, TLAPS

\* t is at work, but for one that was cancelled as a plain future.
Active(t) == Pending(t) \/ (AwaitCancelled /\ fut_state[t] = "CANCELLED")

QueueOK(q) == \A i \in DOMAIN q : q[i].call # "timer" =>
                 /\ Active(q[i].task) /\ q[i].task # current
                 /\ q[i].call = "step" => suspended[q[i].task] = None
                 /\ q[i].call = "wakeup" => /\ suspended[q[i].task] = q[i].of
                                            /\ ~Pending(q[i].of)

QueueOnce(q) == \A i, j \in DOMAIN q :
                  (q[i].call # "timer" /\ q[i].task = q[j].task) => i = j

CallbacksOK == \A f \in Futures : \A i \in DOMAIN fut_callbacks[f] :
                 /\ Pending(f) /\ Active(fut_callbacks[f][i])
                 /\ suspended[fut_callbacks[f][i]] = f

CallbacksOnce == \A f \in Futures : \A i, j \in DOMAIN fut_callbacks[f] :
                   fut_callbacks[f][i] = fut_callbacks[f][j] => i = j

Queued(t, q) == \E i \in DOMAIN q : q[i].task = t

CalledBack(t) == /\ suspended[t] # None
                 /\ \E i \in DOMAIN fut_callbacks[suspended[t]] :
                      fut_callbacks[suspended[t]][i] = t

Placed(q) == \A t \in Tasks : Pending(t) => t = current \/ Queued(t, q) \/ CalledBack(t)

RunningOK == current # None => Pending(current) /\ suspended[current] = None

WaitsOK == /\ task_fut_waiter = suspended
           /\ \A t \in Tasks : suspended[t] # None =>
                 Active(t) /\ fut_state[suspended[t]] # "UNBORN"

CancelOK == ~AwaitCancelled =>
              \A t \in owed : /\ Pending(t)
                              /\ \/ task_must_cancel[t]
                                 \/ suspended[t] # None /\ Outcome(suspended[t]) = "cancelled"

PlainBorn == \A f \in Plain : fut_state[f] # "UNBORN"

IInv == /\ AsyncioTypeOK /\ PlainBorn
        /\ QueueOK(ready) /\ QueueOnce(ready) /\ CallbacksOK /\ CallbacksOnce
        /\ Placed(ready) /\ RunningOK /\ WaitsOK /\ CancelOK

-----------------------------------------------------------------------------
(* Values *)
LEMMA NoneIsNothing == /\ None \notin Tasks /\ None \notin Plain /\ None \notin Futures
                       /\ \A t \in Tasks : t \notin Plain /\ t \in Nat
                       /\ 1 \in Tasks
  BY AsyncioBounds DEF None, Tasks, Futures

LEMMA HandleKinds ==
  ASSUME NEW h \in Handles
  PROVE  /\ h.call \in {"step", "wakeup", "timer"}
         /\ h.call = "step" => h.task \in Tasks /\ h.of \in {"none", "error"}
         /\ h.call = "wakeup" => h.task \in Tasks /\ h.of \in Futures
         /\ h.call = "timer" => h.task = None /\ h.of \in Plain
  BY DEF Handles, Step, Wakeup, Timer

LEMMA StepKind ==
  ASSUME NEW t \in Tasks, NEW exc \in {"none", "error"}
  PROVE  /\ Step(t, exc) \in Handles /\ Step(t, exc).call = "step"
         /\ Step(t, exc).task = t /\ Step(t, exc).of = exc
  BY DEF Handles, Step

LEMMA WakeupKind ==
  ASSUME NEW t \in Tasks, NEW f \in Futures
  PROVE  /\ Wakeup(t, f) \in Handles /\ Wakeup(t, f).call = "wakeup"
         /\ Wakeup(t, f).task = t /\ Wakeup(t, f).of = f
  BY DEF Handles, Wakeup

LEMMA TimerKind ==
  ASSUME NEW f \in Plain
  PROVE  /\ Timer(f) \in Handles /\ Timer(f).call = "timer"
         /\ Timer(f).task = None /\ Timer(f).of = f
  BY DEF Handles, Timer

\* The queue, and behind it what is woken.
Lengthened(queue, callbacks, f) == queue \o Wakeups(callbacks, f)

LEMMA WokenQueue ==
  ASSUME NEW callbacks \in Seq(Tasks), NEW f \in Futures, NEW queue \in Seq(Handles)
  PROVE  LET r == Lengthened(queue, callbacks, f)
         IN  /\ r \in Seq(Handles)
             /\ Len(r) = Len(queue) + Len(callbacks)
             /\ \A i \in DOMAIN queue : i \in DOMAIN r /\ r[i] = queue[i]
             /\ \A k \in DOMAIN callbacks : /\ Len(queue) + k \in DOMAIN r
                                            /\ r[Len(queue) + k] = Wakeup(callbacks[k], f)
             /\ \A i \in DOMAIN r : \/ i \in DOMAIN queue /\ r[i] = queue[i]
                                    \/ \E k \in DOMAIN callbacks :
                                         i = Len(queue) + k /\ r[i] = Wakeup(callbacks[k], f)
  <1> DEFINE r == Lengthened(queue, callbacks, f)
  <1> DEFINE w == Wakeups(callbacks, f)
  <1>1. /\ DOMAIN callbacks = 1..Len(callbacks) /\ Len(callbacks) \in Nat
        /\ \A k \in 1..Len(callbacks) : callbacks[k] \in Tasks
    BY LenProperties
  <1>2. \A k \in 1..Len(callbacks) : Wakeup(callbacks[k], f) \in Handles
    BY <1>1, WakeupKind
  <1>3. /\ w \in Seq(Handles) /\ Len(w) = Len(callbacks)
        /\ \A k \in 1..Len(callbacks) : w[k] = Wakeup(callbacks[k], f)
    <2>1. w = [k \in 1..Len(callbacks) |-> Wakeup(callbacks[k], f)]
      BY <1>1 DEF Wakeups
    <2> HIDE DEF w
    <2>2. QED
      BY <2>1, <1>1, <1>2, IsASeq
  <1>4. DOMAIN queue = 1..Len(queue) /\ Len(queue) \in Nat
    BY LenProperties
  <1> HIDE DEF w, r
  <1>5. /\ r \in Seq(Handles) /\ Len(r) = Len(queue) + Len(w)
        /\ \A i \in 1..Len(queue) + Len(w) : r[i] = IF i <= Len(queue) THEN queue[i]
                                                    ELSE w[i - Len(queue)]
    <2>1. r = queue \o w
      BY DEF w, r, Lengthened
    <2>2. /\ queue \o w \in Seq(Handles) /\ Len(queue \o w) = Len(queue) + Len(w)
          /\ \A i \in 1..Len(queue) + Len(w) :
               (queue \o w)[i] = IF i <= Len(queue) THEN queue[i] ELSE w[i - Len(queue)]
      <3>1. w \in Seq(Handles)
        BY <1>3
      <3> HIDE DEF Handles
      <3>2. QED
        BY <3>1, ConcatProperties
    <2>3. QED
      BY ONLY <2>1, <2>2
  <1>6. DOMAIN r = 1..Len(queue) + Len(callbacks)
    BY <1>5, <1>3, LenProperties
  <1>7. \A i \in DOMAIN queue : i \in DOMAIN r /\ r[i] = queue[i]
    BY <1>1, <1>3, <1>4, <1>5, <1>6
  <1>8. \A k \in DOMAIN callbacks : /\ Len(queue) + k \in DOMAIN r
                                    /\ r[Len(queue) + k] = Wakeup(callbacks[k], f)
    <2> TAKE k \in DOMAIN callbacks
    <2>1. Len(queue) + k \in 1..Len(queue) + Len(w) /\ ~(Len(queue) + k <= Len(queue))
          /\ (Len(queue) + k) - Len(queue) = k
      BY <1>1, <1>3, <1>4
    <2>2. QED
      BY <2>1, <1>1, <1>3, <1>5, <1>6
  <1>9. \A i \in DOMAIN r : i \in DOMAIN queue \/ \E k \in DOMAIN callbacks : i = Len(queue) + k
    <2> TAKE i \in DOMAIN r
    <2>1. i \in 1..Len(queue) \/ (i - Len(queue) \in 1..Len(callbacks)
                                  /\ i = Len(queue) + (i - Len(queue)))
      BY <1>1, <1>4, <1>6
    <2>2. QED
      BY <2>1, <1>1, <1>4
  <1>10. QED
    BY <1>3, <1>5, <1>7, <1>8, <1>9 DEF r

-----------------------------------------------------------------------------
(* A future is done.  Those who await it move from its callbacks into the  *)
(* queue; so may the running task, which gives up control by that or by    *)
(* being the one that is done.                                             *)
LEMMA CompleteKeeps ==
  ASSUME AsyncioTypeOK, PlainBorn, CallbacksOK, CallbacksOnce, RunningOK,
         NEW queue \in Seq(Handles), QueueOK(queue), QueueOnce(queue), Placed(queue),
         NEW f \in Futures, Pending(f),
         NEW state \in {"CANCELLED", "FINISHED"}, NEW exc \in {"none", "error", "cancelled"},
         NEW callbacks \in Seq(Tasks),
         Complete(f, state, exc, callbacks, queue),
         current' = current \/ current' = None,
         current' = current => suspended' = suspended,
         current' # current => f = current \/ \E j \in DOMAIN callbacks : callbacks[j] = current,
         f \in Tasks => \/ f = current /\ current' = None
                        \/ AwaitCancelled /\ state = "CANCELLED",
         \A t \in Tasks : t # current => suspended'[t] = suspended[t],
         \A i \in DOMAIN fut_callbacks[f] :
            \E j \in DOMAIN callbacks : callbacks[j] = fut_callbacks[f][i],
         \A j \in DOMAIN callbacks :
            \/ callbacks[j] = current /\ current' = None
            \/ \E i \in DOMAIN fut_callbacks[f] : fut_callbacks[f][i] = callbacks[j],
         \A i, j \in DOMAIN callbacks : callbacks[i] = callbacks[j] => i = j,
         \A j \in DOMAIN callbacks :
            /\ suspended'[callbacks[j]] = f
            /\ \/ callbacks[j] # f
               \/ AwaitCancelled /\ state = "CANCELLED"
  PROVE  /\ fut_state' \in [Futures -> {"UNBORN", "PENDING", "CANCELLED", "FINISHED"}]
         /\ fut_exception' \in [Futures -> {"none", "error", "cancelled"}]
         /\ fut_callbacks' \in [Futures -> Seq(Tasks)]
         /\ ready' \in Seq(Handles) /\ Len(ready') = Len(queue) + Len(callbacks)
         /\ PlainBorn'
         /\ QueueOK(ready)' /\ QueueOnce(ready)' /\ CallbacksOK' /\ CallbacksOnce'
         /\ Placed(ready)'
  <1> DEFINE AsFuture == AwaitCancelled /\ state = "CANCELLED"
  <1>1. /\ fut_state \in [Futures -> {"UNBORN", "PENDING", "CANCELLED", "FINISHED"}]
        /\ fut_exception \in [Futures -> {"none", "error", "cancelled"}]
        /\ fut_callbacks \in [Futures -> Seq(Tasks)]
        /\ suspended \in [Tasks -> Futures \cup {None}]
        /\ current \in Tasks \cup {None}
    BY DEF AsyncioTypeOK
  <1>2. /\ fut_state' = [fut_state EXCEPT ![f] = state]
        /\ fut_exception' = [fut_exception EXCEPT ![f] = exc]
        /\ fut_callbacks' = [fut_callbacks EXCEPT ![f] = <<>>]
        /\ ready' = queue \o Wakeups(callbacks, f)
    BY DEF Complete
  <1>3. /\ ready' \in Seq(Handles) /\ Len(ready') = Len(queue) + Len(callbacks)
        /\ \A i \in DOMAIN queue : i \in DOMAIN ready' /\ ready'[i] = queue[i]
        /\ \A k \in DOMAIN callbacks : /\ Len(queue) + k \in DOMAIN ready'
                                       /\ ready'[Len(queue) + k] = Wakeup(callbacks[k], f)
        /\ \A i \in DOMAIN ready' : \/ i \in DOMAIN queue /\ ready'[i] = queue[i]
                                    \/ \E k \in DOMAIN callbacks :
                                         i = Len(queue) + k /\ ready'[i] = Wakeup(callbacks[k], f)
    <2>1. callbacks \in Seq(Tasks) /\ f \in Futures /\ queue \in Seq(Handles)
      OBVIOUS
    <2>2. ready' = Lengthened(queue, callbacks, f)
      BY <1>2 DEF Lengthened
    <2>3. QED
      BY ONLY <2>1, <2>2, WokenQueue
  <1>4. /\ \A g \in Futures : Pending(g)' <=> (g # f /\ Pending(g))
        /\ \A g \in Futures : Active(g) /\ (g # f \/ AsFuture) =>
             fut_state'[g] = "PENDING" \/ (AwaitCancelled /\ fut_state'[g] = "CANCELLED")
    BY <1>1, <1>2 DEF Pending, Active
  <1>5. \A g \in Futures : g # f => fut_callbacks'[g] = fut_callbacks[g]
    BY <1>1, <1>2
  <1>6. fut_callbacks'[f] = <<>> /\ DOMAIN fut_callbacks'[f] = {}
    BY <1>1, <1>2
  <1>7. \A g \in Futures : \A i \in DOMAIN fut_callbacks[g] :
           /\ fut_callbacks[g][i] \in Tasks /\ fut_callbacks[g][i] # current
           /\ fut_callbacks[g][i] # f \/ AsFuture
    <2> TAKE g \in Futures
    <2> TAKE i \in DOMAIN fut_callbacks[g]
    <2>1. fut_callbacks[g][i] \in Tasks
      BY <1>1, LenProperties
    <2>2. fut_callbacks[g][i] # current
      BY <2>1, NoneIsNothing DEF CallbacksOK, RunningOK
    <2>3. QED
      BY <2>1, <2>2
  <1>8. \A j \in DOMAIN callbacks : callbacks[j] \in Tasks /\ Active(callbacks[j])
    <2>1. \A j \in DOMAIN callbacks : callbacks[j] \in Tasks
      BY LenProperties
    <2>2. Active(current) \/ current = None
      BY DEF RunningOK, Active, Pending
    <2>3. QED
      BY <2>1, <2>2, NoneIsNothing DEF CallbacksOK
  <1>9. \A i \in DOMAIN queue : queue[i] \in Handles
    BY LenProperties
  <1>10. \A i \in DOMAIN queue : queue[i].call # "timer" =>
            /\ queue[i].task \in Tasks /\ (queue[i].task # f \/ AsFuture)
            /\ \A k \in DOMAIN callbacks : queue[i].task # callbacks[k]
    <2> TAKE i \in DOMAIN queue
    <2> HAVE queue[i].call # "timer"
    <2>1. /\ queue[i].call \in {"step", "wakeup"} /\ queue[i].task \in Tasks
          /\ queue[i].call = "wakeup" => queue[i].of \in Futures
      BY <1>9, HandleKinds
    <2>2. /\ queue[i].task # current
          /\ suspended[queue[i].task] = None \/ ~Pending(suspended[queue[i].task])
      BY <2>1 DEF QueueOK
    <2>3. \A k \in DOMAIN callbacks : queue[i].task # callbacks[k]
      BY <2>2, NoneIsNothing DEF CallbacksOK
    <2>4. queue[i].task # f \/ AsFuture
      BY <2>1, <2>2
    <2>5. QED
      BY <2>1, <2>3, <2>4
  <1>11. QueueOK(ready)'
    <2> SUFFICES ASSUME NEW i \in DOMAIN ready', ready'[i].call # "timer"
                 PROVE  /\ Active(ready[i].task)' /\ ready'[i].task # current'
                        /\ ready'[i].call = "step" => suspended'[ready'[i].task] = None
                        /\ ready'[i].call = "wakeup" => /\ suspended'[ready'[i].task] = ready'[i].of
                                                        /\ ~Pending(ready[i].of)'
      BY DEF QueueOK
    <2>1. CASE i \in DOMAIN queue /\ ready'[i] = queue[i]
      <3>1. /\ queue[i].task \in Tasks /\ (queue[i].task # f \/ AsFuture)
            /\ queue[i].call = "wakeup" => queue[i].of \in Futures
        BY <2>1, <1>9, <1>10, HandleKinds
      <3>2. /\ Active(queue[i].task) /\ queue[i].task # current
            /\ queue[i].call = "step" => suspended[queue[i].task] = None
            /\ queue[i].call = "wakeup" => /\ suspended[queue[i].task] = queue[i].of
                                           /\ ~Pending(queue[i].of)
        BY <2>1 DEF QueueOK
      <3>3. queue[i].task \in Futures
        BY <3>1 DEF Futures
      <3>4. Active(ready[i].task)'
        BY <2>1, <3>2, <3>1, <3>3, <1>4 DEF Active, Pending
      <3>5. ready'[i].task # current'
        BY <2>1, <3>1, <3>2, NoneIsNothing
      <3>6. suspended'[ready'[i].task] = suspended[queue[i].task]
        BY <2>1, <3>1, <3>2
      <3>7. queue[i].call = "wakeup" => ~Pending(ready[i].of)'
        BY <2>1, <3>1, <3>2, <1>4 DEF Pending
      <3>8. QED
        BY <2>1, <3>2, <3>4, <3>5, <3>6, <3>7
    <2>2. ASSUME NEW k \in DOMAIN callbacks, ready'[i] = Wakeup(callbacks[k], f)
          PROVE  /\ Active(ready[i].task)' /\ ready'[i].task # current'
                 /\ ready'[i].call = "step" => suspended'[ready'[i].task] = None
                 /\ ready'[i].call = "wakeup" => /\ suspended'[ready'[i].task] = ready'[i].of
                                                 /\ ~Pending(ready[i].of)'
      <3>1. /\ ready'[i].call = "wakeup" /\ ready'[i].task = callbacks[k] /\ ready'[i].of = f
        BY <2>2, <1>8, WakeupKind
      <3>2. /\ callbacks[k] \in Tasks /\ callbacks[k] \in Futures
            /\ callbacks[k] # f \/ AsFuture
        BY <1>8 DEF Futures
      <3>3. Active(ready[i].task)'
        BY <3>1, <3>2, <1>4, <1>8 DEF Active, Pending
      <3>4. ~Pending(ready[i].of)'
        BY <3>1, <1>4 DEF Pending
      <3>5. callbacks[k] # current'
        BY <3>2, <1>7, NoneIsNothing
      <3>6. QED
        BY <3>1, <3>3, <3>4, <3>5
    <2>3. QED
      BY <1>3, <2>1, <2>2
  <1>12. QueueOnce(ready)'
    <2> SUFFICES ASSUME NEW i \in DOMAIN ready', NEW j \in DOMAIN ready',
                        ready'[i].call # "timer", ready'[i].task = ready'[j].task
                 PROVE  i = j
      BY DEF QueueOnce
    <2>1. CASE i \in DOMAIN queue /\ j \in DOMAIN queue
      BY <2>1, <1>3 DEF QueueOnce
    <2>2. ASSUME i \in DOMAIN queue, NEW k \in DOMAIN callbacks,
                 ready'[j] = Wakeup(callbacks[k], f)
          PROVE  FALSE
      <3>1. ready'[j].task = callbacks[k]
        BY <2>2, <1>8, WakeupKind
      <3>2. ready'[i] = queue[i]
        BY <2>2, <1>3
      <3>3. QED
        BY <2>2, <3>1, <3>2, <1>10
    <2>3. ASSUME j \in DOMAIN queue, NEW k \in DOMAIN callbacks,
                 ready'[i] = Wakeup(callbacks[k], f)
          PROVE  FALSE
      <3>1. queue[j].task = callbacks[k] /\ callbacks[k] \in Tasks
        BY <2>3, <1>3, <1>8, WakeupKind
      <3>2. queue[j].call # "timer"
        BY <3>1, <2>3, <1>9, HandleKinds, NoneIsNothing
      <3>3. QED
        BY <2>3, <3>1, <3>2, <1>10
    <2>4. ASSUME NEW k \in DOMAIN callbacks, NEW l \in DOMAIN callbacks,
                 i = Len(queue) + k, j = Len(queue) + l,
                 ready'[i] = Wakeup(callbacks[k], f), ready'[j] = Wakeup(callbacks[l], f)
          PROVE  i = j
      <3>1. callbacks[k] = callbacks[l]
        BY <2>4, <1>8, WakeupKind
      <3>2. QED
        BY <3>1, <2>4
    <2>5. QED
      BY <1>3, <2>1, <2>2, <2>3, <2>4
  <1>13. CallbacksOK'
    <2> SUFFICES ASSUME NEW g \in Futures, NEW i \in DOMAIN fut_callbacks'[g]
                 PROVE  /\ Pending(g)' /\ Active(fut_callbacks[g][i])'
                        /\ suspended'[fut_callbacks'[g][i]] = g
      BY DEF CallbacksOK
    <2>1. g # f /\ fut_callbacks'[g] = fut_callbacks[g]
      BY <1>5, <1>6
    <2>2. /\ Pending(g) /\ Active(fut_callbacks[g][i])
          /\ suspended[fut_callbacks[g][i]] = g
      BY <2>1 DEF CallbacksOK
    <2>3. /\ fut_callbacks[g][i] \in Tasks /\ fut_callbacks[g][i] # current
          /\ fut_callbacks[g][i] # f \/ AsFuture
      BY <2>1, <1>7
    <2>4. suspended'[fut_callbacks'[g][i]] = g
      BY <2>1, <2>2, <2>3
    <2>5. Pending(g)'
      BY <2>1, <2>2, <1>4
    <2>6. Active(fut_callbacks[g][i])'
      <3>1. fut_callbacks[g][i] \in Futures
        BY <2>3 DEF Futures
      <3>2. QED
        BY <3>1, <2>1, <2>2, <2>3, <1>4 DEF Active, Pending
    <2>7. QED
      BY <2>4, <2>5, <2>6
  <1>14. CallbacksOnce'
    BY <1>5, <1>6 DEF CallbacksOnce
  <1>15. Placed(ready)'
    <2> SUFFICES ASSUME NEW t \in Tasks, Pending(t)', t # current'
                 PROVE  Queued(t, ready)' \/ CalledBack(t)'
      BY DEF Placed
    <2>1. t # f /\ Pending(t)
      BY <1>4 DEF Futures
    <2>2. CASE t = current
      <3>1. PICK j \in DOMAIN callbacks : callbacks[j] = t
        BY <2>1, <2>2
      <3>2. ready'[Len(queue) + j].task = t /\ Len(queue) + j \in DOMAIN ready'
        BY <3>1, <1>3, WakeupKind
      <3>3. QED
        BY <3>2 DEF Queued
    <2>3. CASE Queued(t, queue)
      BY <2>3, <1>3 DEF Queued
    <2>4. CASE CalledBack(t) /\ t # current
      <3>1. suspended[t] \in Futures /\ suspended'[t] = suspended[t]
        BY <2>4, <1>1 DEF CalledBack
      <3>2. CASE suspended[t] = f
        <4>1. PICK j \in DOMAIN callbacks : callbacks[j] = t
          BY <2>4, <3>2 DEF CalledBack
        <4>2. ready'[Len(queue) + j].task = t /\ Len(queue) + j \in DOMAIN ready'
          BY <4>1, <1>3, WakeupKind
        <4>3. QED
          BY <4>2 DEF Queued
      <3>3. CASE suspended[t] # f
        BY <3>1, <3>3, <2>4, <1>5 DEF CalledBack
      <3>4. QED
        BY <3>2, <3>3
    <2>5. QED
      BY <2>1, <2>2, <2>3, <2>4 DEF Placed
  <1>16. PlainBorn'
    BY <1>1, <1>2 DEF PlainBorn, Futures
  <1>17. fut_callbacks' \in [Futures -> Seq(Tasks)]
    BY <1>1, <1>2, EmptySeq
  <1>18. QED
    BY <1>1, <1>2, <1>3, <1>11, <1>12, <1>13, <1>14, <1>15, <1>16, <1>17

-----------------------------------------------------------------------------
(* A task that is in none of the places gets a handle: the running one,    *)
(* which gives up control, or a new one.                                   *)
LEMMA StepQueued ==
  ASSUME AsyncioTypeOK, RunningOK, WaitsOK,
         QueueOK(ready), QueueOnce(ready), CallbacksOK, CallbacksOnce, Placed(ready),
         NEW t \in Tasks, NEW exc \in {"none", "error"},
         ready' = Append(ready, Step(t, exc)),
         fut_callbacks' = fut_callbacks, suspended' = suspended,
         \/ t = current /\ current' = None /\ fut_state' = fut_state
         \/ /\ fut_state[t] = "UNBORN" /\ current' = current
            /\ fut_state' = [fut_state EXCEPT ![t] = "PENDING"]
  PROVE  /\ ready' \in Seq(Handles) /\ Len(ready') = Len(ready) + 1
         /\ QueueOK(ready)' /\ QueueOnce(ready)' /\ CallbacksOK' /\ CallbacksOnce'
         /\ Placed(ready)'
  <1>1. /\ fut_state \in [Futures -> {"UNBORN", "PENDING", "CANCELLED", "FINISHED"}]
        /\ fut_callbacks \in [Futures -> Seq(Tasks)]
        /\ suspended \in [Tasks -> Futures \cup {None}]
        /\ current \in Tasks \cup {None} /\ ready \in Seq(Handles)
    BY DEF AsyncioTypeOK
  <1>2. /\ ready' \in Seq(Handles) /\ Len(ready') = Len(ready) + 1 /\ Len(ready) \in Nat
        /\ DOMAIN ready = 1..Len(ready) /\ DOMAIN ready' = 1..Len(ready) + 1
        /\ \A i \in 1..Len(ready) : ready'[i] = ready[i]
        /\ ready'[Len(ready) + 1] = Step(t, exc)
    <2>1. Step(t, exc) \in Handles
      BY StepKind
    <2> HIDE DEF Handles
    <2>2. QED
      BY <1>1, <2>1, AppendProperties, LenProperties
  <1>3. \A i \in DOMAIN ready' : \/ i \in DOMAIN ready /\ ready'[i] = ready[i]
                                 \/ i = Len(ready) + 1 /\ ready'[i] = Step(t, exc)
    BY <1>2
  <1>4. /\ \A g \in Futures : Pending(g)' <=> (g = t \/ Pending(g))
        /\ \A g \in Futures : g = t \/ Active(g) =>
             fut_state'[g] = "PENDING" \/ (AwaitCancelled /\ fut_state'[g] = "CANCELLED")
    BY <1>1, NoneIsNothing DEF Pending, Active, RunningOK, Futures
  <1>5. t \in Futures /\ suspended[t] = None /\ t # current'
    BY <1>1, NoneIsNothing DEF RunningOK, WaitsOK, Active, Pending, Futures
  <1>6. \A i \in DOMAIN ready : ready[i].call # "timer" =>
           /\ ready[i].task \in Tasks /\ ready[i].task # t
           /\ ready[i].call \in {"step", "wakeup"}
           /\ ready[i].call = "wakeup" => ready[i].of \in Futures /\ ready[i].of # t
    <2> TAKE i \in DOMAIN ready
    <2> HAVE ready[i].call # "timer"
    <2>1. /\ ready[i].task \in Tasks /\ ready[i].call \in {"step", "wakeup"}
          /\ ready[i].call = "wakeup" => ready[i].of \in Futures
      BY <1>1, HandleKinds, LenProperties
    <2>2. /\ Active(ready[i].task) /\ ready[i].task # current
          /\ ready[i].call = "wakeup" => /\ suspended[ready[i].task] = ready[i].of
                                         /\ ~Pending(ready[i].of)
      BY DEF QueueOK
    <2>3. ready[i].task # t
      BY <2>2 DEF Active, Pending
    <2>4. ready[i].call = "wakeup" => ready[i].of # t
      BY <2>1, <2>2, NoneIsNothing DEF WaitsOK, RunningOK, Futures
    <2>5. QED
      BY <2>1, <2>3, <2>4
  <1>7. QueueOK(ready)'
    <2> SUFFICES ASSUME NEW i \in DOMAIN ready', ready'[i].call # "timer"
                 PROVE  /\ Active(ready[i].task)' /\ ready'[i].task # current'
                        /\ ready'[i].call = "step" => suspended'[ready'[i].task] = None
                        /\ ready'[i].call = "wakeup" => /\ suspended'[ready'[i].task] = ready'[i].of
                                                        /\ ~Pending(ready[i].of)'
      BY DEF QueueOK
    <2>1. CASE i \in DOMAIN ready /\ ready'[i] = ready[i]
      <3>1. /\ Active(ready[i].task) /\ ready[i].task # current
            /\ ready[i].call = "step" => suspended[ready[i].task] = None
            /\ ready[i].call = "wakeup" => /\ suspended[ready[i].task] = ready[i].of
                                           /\ ~Pending(ready[i].of)
        BY <2>1 DEF QueueOK
      <3>2. ready[i].task \in Futures /\ ready[i].task # None
        BY <2>1, <1>6, NoneIsNothing DEF Futures
      <3>3. Active(ready[i].task)'
        BY <2>1, <3>1, <3>2, <1>4 DEF Active, Pending
      <3>4. ready[i].call = "wakeup" => ~Pending(ready[i].of)'
        BY <2>1, <3>1, <1>4, <1>6 DEF Pending
      <3>5. QED
        BY <2>1, <3>1, <3>2, <3>3, <3>4
    <2>2. CASE i = Len(ready) + 1 /\ ready'[i] = Step(t, exc)
      <3>1. ready'[i].call = "step" /\ ready'[i].task = t
        BY <2>2, StepKind
      <3>2. Active(ready[i].task)'
        BY <3>1, <1>4, <1>5 DEF Active, Pending
      <3>3. QED
        BY <3>1, <3>2, <1>5
    <2>3. QED
      BY <1>3, <2>1, <2>2
  <1>8. QueueOnce(ready)'
    <2> SUFFICES ASSUME NEW i \in DOMAIN ready', NEW j \in DOMAIN ready',
                        ready'[i].call # "timer", ready'[i].task = ready'[j].task
                 PROVE  i = j
      BY DEF QueueOnce
    <2>1. CASE i \in DOMAIN ready /\ j \in DOMAIN ready
      BY <2>1, <1>2 DEF QueueOnce
    <2>2. CASE i \in DOMAIN ready /\ j = Len(ready) + 1
      BY <2>2, <1>2, <1>6, StepKind
    <2>3. CASE i = Len(ready) + 1 /\ j \in DOMAIN ready
      <3>1. ready[j].task = t
        BY <2>3, <1>2, StepKind
      <3>2. ready[j].call # "timer"
        <4>1. ready[j] \in Handles
          BY <2>3, <1>1, LenProperties
        <4>2. QED
          BY <3>1, <4>1, HandleKinds, NoneIsNothing
      <3>3. QED
        BY <2>3, <3>1, <3>2, <1>6
    <2>4. QED
      BY <1>3, <2>1, <2>2, <2>3
  <1>9. CallbacksOK'
    <2> SUFFICES ASSUME NEW g \in Futures, NEW i \in DOMAIN fut_callbacks[g]
                 PROVE  /\ Pending(g)' /\ Active(fut_callbacks[g][i])'
                        /\ suspended[fut_callbacks[g][i]] = g
      BY DEF CallbacksOK, Active, Pending
    <2>1. /\ Pending(g) /\ Active(fut_callbacks[g][i]) /\ suspended[fut_callbacks[g][i]] = g
          /\ fut_callbacks[g][i] \in Futures
      BY <1>1, LenProperties DEF CallbacksOK, Futures
    <2>2. Active(fut_callbacks[g][i])'
      BY <2>1, <1>4 DEF Active, Pending
    <2>3. QED
      BY <2>1, <2>2, <1>4
  <1>10. CallbacksOnce'
    BY DEF CallbacksOnce
  <1>11. Placed(ready)'
    <2> SUFFICES ASSUME NEW u \in Tasks, Pending(u)', u # current'
                 PROVE  Queued(u, ready)' \/ CalledBack(u)'
      BY DEF Placed
    <2>1. CASE u = t
      BY <2>1, <1>2, StepKind DEF Queued
    <2>2. CASE u # t
      <3>1. Pending(u) /\ u # current
        BY <2>2, <1>4 DEF Futures
      <3>2. Queued(u, ready) \/ CalledBack(u)
        BY <3>1 DEF Placed
      <3>3. Queued(u, ready) => Queued(u, ready)'
        BY <1>2 DEF Queued
      <3>4. CalledBack(u) => CalledBack(u)'
        BY DEF CalledBack
      <3>5. QED
        BY <3>2, <3>3, <3>4
    <2>3. QED
      BY <2>1, <2>2
  <1>12. QED
    BY <1>2, <1>7, <1>8, <1>9, <1>10, <1>11

-----------------------------------------------------------------------------
(* The handle at the head of the queue is taken off. *)
LEMMA TailKeeps ==
  ASSUME AsyncioTypeOK, QueueOK(ready), QueueOnce(ready), Placed(ready), ready # <<>>
  PROVE  /\ Head(ready) \in Handles /\ Tail(ready) \in Seq(Handles)
         /\ Len(Tail(ready)) = Len(ready) - 1 /\ Len(ready) \in Nat
         /\ 1 \in DOMAIN ready /\ ready[1] = Head(ready)
         /\ QueueOK(Tail(ready)) /\ QueueOnce(Tail(ready))
         /\ Head(ready).call # "timer" =>
              \A i \in DOMAIN Tail(ready) : Tail(ready)[i].task # Head(ready).task
         /\ \A t \in Tasks : Queued(t, ready) => t = Head(ready).task \/ Queued(t, Tail(ready))
  <1>1. ready \in Seq(Handles)
    BY DEF AsyncioTypeOK
  <1>2. /\ Head(ready) \in Handles /\ Tail(ready) \in Seq(Handles)
        /\ Len(Tail(ready)) = Len(ready) - 1
        /\ \A i \in 1..Len(Tail(ready)) : Tail(ready)[i] = ready[i + 1]
    <2> HIDE DEF Handles
    <2>1. QED
      BY <1>1, HeadTailProperties
  <1>3. /\ Len(ready) \in Nat /\ DOMAIN ready = 1..Len(ready)
        /\ DOMAIN Tail(ready) = 1..Len(ready) - 1
    BY <1>1, <1>2, LenProperties
  <1>4. 1 \in DOMAIN ready /\ ready[1] = Head(ready)
    BY <1>1, <1>3, EmptySeq
  <1>5. \A i \in DOMAIN Tail(ready) : /\ i + 1 \in DOMAIN ready /\ i + 1 # 1
                                      /\ Tail(ready)[i] = ready[i + 1]
    BY <1>2, <1>3
  <1>6. \A i \in DOMAIN ready : i = 1 \/ (i - 1 \in DOMAIN Tail(ready) /\ (i - 1) + 1 = i)
    BY <1>3
  <1>7. QueueOK(Tail(ready))
    BY <1>5 DEF QueueOK
  <1>8. QueueOnce(Tail(ready))
    <2> SUFFICES ASSUME NEW i \in DOMAIN Tail(ready), NEW j \in DOMAIN Tail(ready),
                        Tail(ready)[i].call # "timer",
                        Tail(ready)[i].task = Tail(ready)[j].task
                 PROVE  i = j
      BY DEF QueueOnce
    <2>1. i + 1 = j + 1
      BY <1>5 DEF QueueOnce
    <2>2. QED
      BY <2>1, <1>3
  <1>9. Head(ready).call # "timer" =>
          \A i \in DOMAIN Tail(ready) : Tail(ready)[i].task # Head(ready).task
    BY <1>4, <1>5 DEF QueueOnce
  <1>10. ASSUME NEW t \in Tasks, Queued(t, ready)
         PROVE  t = Head(ready).task \/ Queued(t, Tail(ready))
    <2>1. PICK i \in DOMAIN ready : ready[i].task = t
      BY <1>10 DEF Queued
    <2>2. CASE i = 1
      BY <2>1, <2>2, <1>4
    <2>3. CASE i - 1 \in DOMAIN Tail(ready) /\ (i - 1) + 1 = i
      <3>1. Tail(ready)[i - 1].task = t
        BY <2>1, <2>3, <1>5
      <3>2. QED
        BY <2>3, <3>1 DEF Queued
    <2>4. QED
      BY <2>2, <2>3, <1>6
  <1>11. QED
    BY <1>2, <1>3, <1>4, <1>7, <1>8, <1>9, <1>10

\* What a future that is done gives does not change, and is no longer pending.
LEMMA OutcomeDone ==
  ASSUME AsyncioTypeOK, NEW f \in Futures, ~Pending(f), fut_state[f] # "UNBORN"
  PROVE  Outcome(f) \in {"value", "error", "cancelled"}
  BY DEF AsyncioTypeOK, Outcome, Pending

\* The handle of a task that is done, which may have been cancelled as a plain
\* future: nothing happens but the loss of the handle.
LEMMA NoStepKeeps ==
  ASSUME IInv, current = None, ready # <<>>, ready' = Tail(ready),
         Head(ready).call # "timer", ~Pending(Head(ready).task),
         ntodo > 0, ntodo' = ntodo - 1,
         UNCHANGED <<futureVars, taskVars, timers, current, got, ops, owed>>
  PROVE  IInv'
  <1>1. /\ Head(ready) \in Handles /\ Tail(ready) \in Seq(Handles)
        /\ Len(Tail(ready)) = Len(ready) - 1 /\ Len(ready) \in Nat
        /\ QueueOK(Tail(ready)) /\ QueueOnce(Tail(ready))
        /\ \A u \in Tasks : Queued(u, ready) => u = Head(ready).task \/ Queued(u, Tail(ready))
    BY TailKeeps DEF IInv
  <1>2. /\ fut_state' = fut_state /\ fut_exception' = fut_exception
        /\ fut_callbacks' = fut_callbacks /\ fut_blocking' = fut_blocking
        /\ task_fut_waiter' = task_fut_waiter /\ task_must_cancel' = task_must_cancel
        /\ suspended' = suspended /\ timers' = timers /\ current' = current
        /\ got' = got /\ ops' = ops /\ owed' = owed
    BY DEF futureVars, taskVars
  <1>3. AsyncioTypeOK'
    <2>1. ntodo' \in 0..Len(ready')
      BY <1>1 DEF IInv, AsyncioTypeOK
    <2>2. QED
      BY <1>1, <1>2, <2>1 DEF IInv, AsyncioTypeOK
  <1>4. PlainBorn' /\ WaitsOK' /\ RunningOK' /\ CancelOK' /\ CallbacksOK' /\ CallbacksOnce'
    BY <1>2 DEF IInv, PlainBorn, WaitsOK, CancelOK, RunningOK, Active, Pending, Outcome,
                CallbacksOK, CallbacksOnce
  <1>5. QueueOK(ready)' /\ QueueOnce(ready)'
    BY <1>1, <1>2 DEF QueueOK, QueueOnce, Active, Pending
  <1>6. Placed(ready)'
    <2> SUFFICES ASSUME NEW u \in Tasks, Pending(u)
                 PROVE  Queued(u, Tail(ready)) \/ CalledBack(u)
      BY <1>2 DEF Placed, Queued, CalledBack, Pending
    <2>1. u # Head(ready).task /\ u # current
      BY NoneIsNothing
    <2>2. QED
      BY <1>1, <2>1 DEF IInv, Placed
  <1>7. QED
    BY <1>3, <1>4, <1>5, <1>6 DEF IInv

\* The handle of a task at work resumes it.
LEMMA StepKeeps ==
  ASSUME IInv, current = None, ready # <<>>, ready' = Tail(ready), Pending(Head(ready).task),
         NEW exc \in {"none", "error", "cancelled"},
         Head(ready).call = "step" => exc = Head(ready).of,
         Head(ready).call = "wakeup" => exc = WakeupExc(Head(ready).of),
         Head(ready).call # "timer", TaskStep(Head(ready).task, exc),
         ntodo > 0, ntodo' = ntodo - 1,
         UNCHANGED <<futureVars, timers, ops>>
  PROVE  IInv'
  <1> DEFINE h == Head(ready)
             t == Head(ready).task
  <1>1. /\ h \in Handles /\ Tail(ready) \in Seq(Handles)
        /\ Len(Tail(ready)) = Len(ready) - 1 /\ Len(ready) \in Nat
        /\ 1 \in DOMAIN ready /\ ready[1] = h
        /\ QueueOK(Tail(ready)) /\ QueueOnce(Tail(ready))
        /\ \A i \in DOMAIN Tail(ready) : Tail(ready)[i].task # t
        /\ \A u \in Tasks : Queued(u, ready) => u = t \/ Queued(u, Tail(ready))
    BY TailKeeps DEF IInv
  <1>2. /\ t \in Tasks /\ h.call \in {"step", "wakeup"}
        /\ h.call = "wakeup" => h.of \in Futures
    BY <1>1, HandleKinds
  <1>3. /\ Pending(t) /\ t # current
        /\ h.call = "step" => suspended[t] = None
        /\ h.call = "wakeup" => suspended[t] = h.of /\ ~Pending(h.of)
    BY <1>1, <1>2 DEF QueueOK, IInv
  <1>4. /\ task_must_cancel' = [task_must_cancel EXCEPT ![t] = FALSE]
        /\ task_fut_waiter' = [task_fut_waiter EXCEPT ![t] = None]
        /\ current' = t
        /\ got' = Resumed(t, Thrown(t, exc))
        /\ owed' = IF Thrown(t, exc) = "cancelled" THEN owed \ {t} ELSE owed
        /\ suspended' = [suspended EXCEPT ![t] = None]
    BY <1>3 DEF TaskStep
  <1>5. /\ fut_state' = fut_state /\ fut_exception' = fut_exception
        /\ fut_callbacks' = fut_callbacks /\ fut_blocking' = fut_blocking
        /\ timers' = timers /\ ops' = ops
    BY DEF futureVars
  <1>6. \A g : Pending(g)' <=> Pending(g)
    BY <1>5 DEF Pending
  <1>7. AsyncioTypeOK /\ PlainBorn /\ CallbacksOK /\ CallbacksOnce /\ Placed(ready) /\ WaitsOK
        /\ CancelOK
    BY DEF IInv
  <1>8. /\ task_must_cancel \in [Tasks -> BOOLEAN]
        /\ task_fut_waiter \in [Tasks -> Futures \cup {None}]
        /\ suspended \in [Tasks -> Futures \cup {None}]
        /\ ntodo \in 0..Len(ready) /\ owed \subseteq Tasks
    BY <1>7 DEF AsyncioTypeOK
  <1>9. h.call = "wakeup" => /\ Outcome(h.of) \in {"value", "error", "cancelled"}
                             /\ suspended[t] # None
    BY <1>2, <1>3, <1>7, OutcomeDone, NoneIsNothing DEF WaitsOK
  <1>10. got' \in {"value", "error", "cancelled"}
    <2>1. CASE task_must_cancel[t]
      BY <2>1, <1>4 DEF Resumed, Thrown
    <2>2. CASE ~task_must_cancel[t] /\ exc # "none"
      BY <2>2, <1>4 DEF Resumed, Thrown
    <2>3. CASE ~task_must_cancel[t] /\ exc = "none"
      BY <2>3, <1>2, <1>3, <1>4, <1>9 DEF Resumed, Thrown
    <2>4. QED
      BY <2>1, <2>2, <2>3
  <1>11. ntodo' \in 0..Len(ready')
    BY <1>1, <1>8
  <1>12. AsyncioTypeOK'
    BY <1>1, <1>2, <1>4, <1>5, <1>7, <1>8, <1>10, <1>11 DEF AsyncioTypeOK
  <1>13. QueueOK(ready)'
    <2> SUFFICES ASSUME NEW i \in DOMAIN Tail(ready), Tail(ready)[i].call # "timer"
                 PROVE  /\ Active(Tail(ready)[i].task) /\ Tail(ready)[i].task # t
                        /\ Tail(ready)[i].call = "step" => suspended'[Tail(ready)[i].task] = None
                        /\ Tail(ready)[i].call = "wakeup" =>
                              /\ suspended'[Tail(ready)[i].task] = Tail(ready)[i].of
                              /\ ~Pending(Tail(ready)[i].of)
      BY <1>4, <1>5 DEF QueueOK, Active, Pending
    <2>1. /\ Active(Tail(ready)[i].task)
          /\ Tail(ready)[i].call = "step" => suspended[Tail(ready)[i].task] = None
          /\ Tail(ready)[i].call = "wakeup" =>
                /\ suspended[Tail(ready)[i].task] = Tail(ready)[i].of
                /\ ~Pending(Tail(ready)[i].of)
      BY <1>1 DEF QueueOK
    <2>2. Tail(ready)[i].task \in Tasks
      BY <1>1, HandleKinds, LenProperties
    <2>3. Tail(ready)[i].task # t
      BY <1>1
    <2>4. suspended'[Tail(ready)[i].task] = suspended[Tail(ready)[i].task]
      BY <2>2, <2>3, <1>4, <1>8
    <2>5. QED
      BY <2>1, <2>3, <2>4
  <1>14. QueueOnce(ready)'
    BY <1>1 DEF QueueOnce
  <1>15. CallbacksOK'
    <2> SUFFICES ASSUME NEW f \in Futures, NEW i \in DOMAIN fut_callbacks[f]
                 PROVE  /\ Pending(f) /\ Active(fut_callbacks[f][i])
                        /\ suspended'[fut_callbacks[f][i]] = f
      BY <1>5 DEF CallbacksOK, Active, Pending
    <2>1. /\ Pending(f) /\ Active(fut_callbacks[f][i]) /\ suspended[fut_callbacks[f][i]] = f
      BY <1>7 DEF CallbacksOK
    <2>2. fut_callbacks[f][i] # t
      BY <2>1, <1>2, <1>3, NoneIsNothing
    <2>3. fut_callbacks[f][i] \in Tasks
      BY <1>7, LenProperties DEF AsyncioTypeOK
    <2>4. QED
      BY <2>1, <2>2, <2>3, <1>4, <1>8
  <1>16. CallbacksOnce'
    BY <1>5, <1>7 DEF CallbacksOnce
  <1>17. Placed(ready)'
    <2> SUFFICES ASSUME NEW u \in Tasks, Pending(u), u # t
                 PROVE  Queued(u, Tail(ready)) \/ CalledBack(u)'
      BY <1>4, <1>5 DEF Placed, Pending, Queued
    <2>1. Queued(u, ready) \/ CalledBack(u)
      BY <1>7, NoneIsNothing DEF Placed
    <2>2. Queued(u, ready) => Queued(u, Tail(ready))
      BY <1>1
    <2>3. CalledBack(u) => CalledBack(u)'
      BY <1>4, <1>5, <1>8 DEF CalledBack
    <2>4. QED
      BY <2>1, <2>2, <2>3
  <1>18. RunningOK'
    BY <1>2, <1>3, <1>4, <1>6, <1>8 DEF RunningOK, Pending
  <1>19. WaitsOK'
    <2>1. task_fut_waiter' = suspended'
      BY <1>4, <1>7 DEF WaitsOK
    <2>2. ASSUME NEW u \in Tasks, suspended'[u] # None
          PROVE  Active(u)' /\ fut_state'[suspended'[u]] # "UNBORN"
      <3>1. u # t /\ suspended'[u] = suspended[u]
        BY <2>2, <1>2, <1>4, <1>8
      <3>2. QED
        BY <3>1, <2>2, <1>5, <1>7 DEF WaitsOK, Active, Pending
    <2>3. QED
      BY <2>1, <2>2 DEF WaitsOK
  <1>20. CancelOK'
    <2> SUFFICES ASSUME ~AwaitCancelled, NEW u \in owed'
                 PROVE  /\ Pending(u)
                        /\ \/ task_must_cancel'[u]
                           \/ suspended'[u] # None /\ Outcome(suspended[u])' = "cancelled"
      BY <1>6 DEF CancelOK, Pending
    <2>1. /\ u \in owed /\ u \in Tasks /\ Pending(u)
          /\ task_must_cancel[u] \/ (suspended[u] # None /\ Outcome(suspended[u]) = "cancelled")
      BY <1>4, <1>7, <1>8 DEF CancelOK
    <2>2. u # t
      <3>1. SUFFICES ASSUME u = t
                     PROVE  FALSE
        OBVIOUS
      <3>2. Thrown(t, exc) # "cancelled" /\ ~task_must_cancel[t] /\ exc # "cancelled"
        BY <3>1, <1>4 DEF Thrown
      <3>3. suspended[t] # None /\ Outcome(suspended[t]) = "cancelled"
        BY <2>1, <3>1, <3>2
      <3>4. h.call = "wakeup" /\ exc = WakeupExc(h.of) /\ suspended[t] = h.of
        BY <3>3, <1>2, <1>3
      <3>5. QED
        BY <3>2, <3>3, <3>4 DEF WakeupExc
    <2>3. task_must_cancel'[u] = task_must_cancel[u] /\ suspended'[u] = suspended[u]
      BY <2>1, <2>2, <1>4, <1>8
    <2>4. Outcome(suspended[u])' = Outcome(suspended[u])
      BY <2>3, <1>5 DEF Outcome
    <2>5. QED
      BY <2>1, <2>3, <2>4
  <1>21. PlainBorn'
    BY <1>5, <1>7 DEF PlainBorn
  <1>22. QED
    BY <1>12, <1>13, <1>14, <1>15, <1>16, <1>17, <1>18, <1>19, <1>20, <1>21 DEF IInv

-----------------------------------------------------------------------------
(* The other actions *)
LEMMA AsyncioInitInv == AsyncioInit => IInv
  <1> SUFFICES ASSUME AsyncioInit
               PROVE  IInv
    OBVIOUS
  <1> USE NoneIsNothing
  <1>1. /\ Step(1, "none") \in Handles /\ Step(1, "none").task = 1
        /\ Step(1, "none").call = "step"
    BY StepKind
  <1>2. /\ ready \in Seq(Handles) /\ Len(ready) = 1 /\ DOMAIN ready = {1}
        /\ ready[1] = Step(1, "none")
    BY <1>1 DEF AsyncioInit
  <1>3. \A f \in Futures : /\ Pending(f) <=> (f \in Plain \/ f = 1)
                           /\ fut_callbacks[f] = <<>> /\ DOMAIN fut_callbacks[f] = {}
    BY DEF AsyncioInit, Pending
  <1>4. \A t \in Tasks : suspended[t] = None /\ t \in Futures
    BY DEF AsyncioInit, Futures
  <1>5. AsyncioTypeOK
    <2>1. <<>> \in Seq(Tasks)
      BY EmptySeq
    <2>2. ops \in 0..MaxOps
      BY AsyncioBounds DEF AsyncioInit
    <2>3. QED
      BY <1>2, <2>1, <2>2 DEF AsyncioInit, AsyncioTypeOK
  <1>6. PlainBorn /\ WaitsOK /\ CancelOK /\ RunningOK
    BY <1>4 DEF AsyncioInit, PlainBorn, WaitsOK, CancelOK, RunningOK, Futures
  <1>7. QueueOK(ready) /\ QueueOnce(ready)
    <2>1. current = None
      BY DEF AsyncioInit
    <2>2. Active(1)
      BY <1>3 DEF Active, Pending, Futures
    <2>3. QED
      BY <1>1, <1>2, <1>4, <2>1, <2>2 DEF QueueOK, QueueOnce
  <1>8. CallbacksOK /\ CallbacksOnce
    BY <1>3 DEF CallbacksOK, CallbacksOnce
  <1>9. Placed(ready)
    BY <1>1, <1>2, <1>3 DEF Placed, Queued, Futures
  <1>10. QED
    BY <1>5, <1>6, <1>7, <1>8, <1>9 DEF IInv

\* Nothing but the count of the pass, of the actions and what was got changes.
LEMMA QuietKeeps ==
  ASSUME IInv, UNCHANGED <<futureVars, taskVars, ready, timers, current, owed>>,
         ntodo' \in 0..Len(ready), got' \in {"value", "error", "cancelled"}, ops' \in 0..MaxOps
  PROVE  IInv'
  <1>1. /\ fut_state' = fut_state /\ fut_exception' = fut_exception
        /\ fut_callbacks' = fut_callbacks /\ fut_blocking' = fut_blocking
        /\ task_fut_waiter' = task_fut_waiter /\ task_must_cancel' = task_must_cancel
        /\ suspended' = suspended
        /\ ready' = ready /\ timers' = timers /\ current' = current /\ owed' = owed
    BY DEF futureVars, taskVars
  <1>2. AsyncioTypeOK'
    BY <1>1 DEF IInv, AsyncioTypeOK
  <1>3. PlainBorn' /\ WaitsOK' /\ RunningOK' /\ CancelOK'
    BY <1>1 DEF IInv, PlainBorn, WaitsOK, CancelOK, RunningOK, Active, Pending, Outcome
  <1>4. QueueOK(ready)' /\ QueueOnce(ready)' /\ CallbacksOK' /\ CallbacksOnce'
    BY <1>1 DEF IInv, QueueOK, QueueOnce, CallbacksOK, CallbacksOnce, Active, Pending
  <1>5. Placed(ready)'
    BY <1>1 DEF IInv, Placed, Queued, CalledBack, Pending
  <1>6. QED
    BY <1>2, <1>3, <1>4, <1>5 DEF IInv

LEMMA QueueLen == AsyncioTypeOK => Len(ready) \in Nat /\ (ntodo > 0 => ready # <<>>)
  BY LenProperties, EmptySeq DEF AsyncioTypeOK

LEMMA IterateKeeps == IInv /\ Iterate => IInv'
  <1> SUFFICES ASSUME IInv, Iterate
               PROVE  IInv'
    OBVIOUS
  <1>1. ntodo' \in 0..Len(ready)
    BY QueueLen DEF IInv, Iterate
  <1>2. got' \in {"value", "error", "cancelled"} /\ ops' \in 0..MaxOps
    BY DEF IInv, AsyncioTypeOK, Iterate
  <1>3. UNCHANGED <<futureVars, taskVars, ready, timers, current, owed>>
    BY DEF Iterate
  <1>4. QED
    BY <1>1, <1>2, <1>3, QuietKeeps

LEMMA AwaitNoYieldKeeps ==
  ASSUME IInv, NEW f \in Futures, AwaitDone(f) \/ AwaitBlocking(f)
  PROVE  IInv'
  <1>1. ntodo' \in 0..Len(ready)
    BY DEF IInv, AsyncioTypeOK, AwaitDone, AwaitBlocking, loopVars
  <1>2. got' \in {"value", "error", "cancelled"}
    <2>1. CASE AwaitDone(f)
      <3>1. ~Pending(f) /\ fut_state[f] # "UNBORN" /\ got' = Outcome(f)
        BY <2>1 DEF AwaitDone, MayAwait, IInv, PlainBorn
      <3>2. QED
        BY <3>1, OutcomeDone DEF IInv
    <2>2. CASE AwaitBlocking(f)
      BY <2>2 DEF AwaitBlocking
    <2>3. QED
      BY <2>1, <2>2
  <1>3. ops' \in 0..MaxOps
    BY AsyncioBounds DEF IInv, AsyncioTypeOK, AwaitDone, AwaitBlocking, Acts
  <1>4. UNCHANGED <<futureVars, taskVars, ready, timers, current, owed>>
    BY DEF AwaitDone, AwaitBlocking, loopVars
  <1>5. QED
    BY <1>1, <1>2, <1>3, <1>4, QuietKeeps

LEMMA DueKeeps ==
  ASSUME IInv, NEW f \in Plain, Due(f)
  PROVE  IInv'
  <1>1. /\ fut_state' = fut_state /\ fut_exception' = fut_exception
        /\ fut_callbacks' = fut_callbacks /\ fut_blocking' = fut_blocking
        /\ task_fut_waiter' = task_fut_waiter /\ task_must_cancel' = task_must_cancel
        /\ suspended' = suspended /\ ntodo' = ntodo /\ ntodo = 0
        /\ timers' = timers \ {f} /\ current' = current /\ got' = got
        /\ ops' = ops /\ owed' = owed /\ ready' = Append(ready, Timer(f))
    BY DEF Due, futureVars, taskVars
  <1>2. /\ ready' \in Seq(Handles) /\ Len(ready') = Len(ready) + 1 /\ Len(ready) \in Nat
        /\ DOMAIN ready = 1..Len(ready) /\ DOMAIN ready' = 1..Len(ready) + 1
        /\ \A i \in 1..Len(ready) : ready'[i] = ready[i]
        /\ ready'[Len(ready) + 1] = Timer(f)
    <2>1. Timer(f) \in Handles
      BY TimerKind
    <2>2. ready \in Seq(Handles)
      BY DEF IInv, AsyncioTypeOK
    <2> HIDE DEF Handles
    <2>3. QED
      BY <1>1, <2>1, <2>2, AppendProperties, LenProperties
  <1>3. AsyncioTypeOK'
    BY <1>1, <1>2 DEF IInv, AsyncioTypeOK
  <1>4. PlainBorn' /\ WaitsOK' /\ RunningOK' /\ CancelOK' /\ CallbacksOK' /\ CallbacksOnce'
    BY <1>1 DEF IInv, PlainBorn, WaitsOK, CancelOK, RunningOK, Active, Pending, Outcome,
                CallbacksOK, CallbacksOnce
  <1>5. \A i \in DOMAIN ready' : ready'[i].call # "timer" => i \in DOMAIN ready /\ ready'[i] = ready[i]
    BY <1>2, TimerKind
  <1>6. QueueOK(ready)'
    BY <1>1, <1>5 DEF IInv, QueueOK, Active, Pending
  <1>7. QueueOnce(ready)'
    <2> SUFFICES ASSUME NEW i \in DOMAIN ready', NEW j \in DOMAIN ready',
                        ready'[i].call # "timer", ready'[i].task = ready'[j].task
                 PROVE  i = j
      BY DEF QueueOnce
    <2>1. i \in DOMAIN ready /\ ready'[i] = ready[i]
      BY <1>5
    <2>2. ready[i].task \in Tasks
      BY <2>1, HandleKinds, LenProperties DEF IInv, AsyncioTypeOK
    <2>3. j \in DOMAIN ready /\ ready'[j] = ready[j]
      BY <1>2, <2>1, <2>2, TimerKind, NoneIsNothing
    <2>4. QED
      BY <2>1, <2>3 DEF IInv, QueueOnce
  <1>8. Placed(ready)'
    <2>1. \A t : Queued(t, ready) => Queued(t, ready)'
      BY <1>2 DEF Queued
    <2>2. \A t : CalledBack(t)' <=> CalledBack(t)
      BY <1>1 DEF CalledBack
    <2>3. QED
      BY <1>1, <2>1, <2>2 DEF IInv, Placed, Pending
  <1>9. QED
    BY <1>3, <1>4, <1>6, <1>7, <1>8 DEF IInv

\* Only a pending future changes: the others give what they gave.
LEMMA OutcomesKept ==
  ASSUME AsyncioTypeOK, NEW f \in Futures, Pending(f), NEW state, NEW exc,
         NEW callbacks, NEW queue, Complete(f, state, exc, callbacks, queue)
  PROVE  /\ \A g \in Futures : g # f =>
              /\ fut_state'[g] = fut_state[g] /\ Outcome(g)' = Outcome(g)
              /\ Pending(g)' <=> Pending(g)
         /\ \A g \in Futures : Outcome(g) = "cancelled" => Outcome(g)' = "cancelled"
         /\ fut_state'[f] = state
  <1>1. /\ \A g \in Futures : g # f => /\ fut_state'[g] = fut_state[g]
                                       /\ fut_exception'[g] = fut_exception[g]
        /\ fut_state'[f] = state
    BY DEF AsyncioTypeOK, Complete
  <1>2. Outcome(f) = "pending"
    BY DEF Outcome, Pending
  <1>3. QED
    BY <1>1, <1>2 DEF Outcome, Pending

LEMMA CallbacksAre ==
  ASSUME IInv, NEW f \in Futures
  PROVE  /\ fut_callbacks[f] \in Seq(Tasks)
         /\ \A i \in DOMAIN fut_callbacks[f] :
              /\ fut_callbacks[f][i] \in Tasks /\ fut_callbacks[f][i] # current
              /\ suspended[fut_callbacks[f][i]] = f
         /\ \A i, j \in DOMAIN fut_callbacks[f] :
              fut_callbacks[f][i] = fut_callbacks[f][j] => i = j
  <1>1. fut_callbacks[f] \in Seq(Tasks)
    BY DEF IInv, AsyncioTypeOK
  <1>2. \A i \in DOMAIN fut_callbacks[f] : fut_callbacks[f][i] \in Tasks
    BY <1>1, LenProperties
  <1>3. QED
    BY <1>1, <1>2, NoneIsNothing DEF IInv, CallbacksOK, CallbacksOnce, RunningOK

\* A plain future is done, or the running task is and gives up control.
LEMMA CompleteOwn ==
  ASSUME IInv, NEW queue \in Seq(Handles), QueueOK(queue), QueueOnce(queue), Placed(queue),
         NEW f \in Futures, Pending(f),
         NEW state \in {"CANCELLED", "FINISHED"}, NEW exc \in {"none", "error", "cancelled"},
         Complete(f, state, exc, fut_callbacks[f], queue),
         suspended' = suspended, task_fut_waiter' = task_fut_waiter,
         \/ f \in Plain /\ current' = current
         \/ f = current /\ current' = None
  PROVE  /\ fut_state' \in [Futures -> {"UNBORN", "PENDING", "CANCELLED", "FINISHED"}]
         /\ fut_exception' \in [Futures -> {"none", "error", "cancelled"}]
         /\ fut_callbacks' \in [Futures -> Seq(Tasks)]
         /\ ready' \in Seq(Handles) /\ Len(ready') \in Nat /\ Len(ready') >= Len(queue)
         /\ PlainBorn' /\ RunningOK' /\ WaitsOK'
         /\ QueueOK(ready)' /\ QueueOnce(ready)' /\ CallbacksOK' /\ CallbacksOnce'
         /\ Placed(ready)'
  <1>1. /\ AsyncioTypeOK /\ PlainBorn /\ CallbacksOK /\ CallbacksOnce /\ RunningOK /\ WaitsOK
    BY DEF IInv
  <1> DEFINE callbacks == fut_callbacks[f]
  <1>3. /\ callbacks \in Seq(Tasks)
        /\ \A i \in DOMAIN callbacks :
             callbacks[i] \in Tasks /\ callbacks[i] # current /\ suspended[callbacks[i]] = f
        /\ \A i, j \in DOMAIN callbacks : callbacks[i] = callbacks[j] => i = j
    BY CallbacksAre
  <1>4. Complete(f, state, exc, callbacks, queue)
    OBVIOUS
  <1>5. /\ \A i \in DOMAIN fut_callbacks[f] :
              \E j \in DOMAIN callbacks : callbacks[j] = fut_callbacks[f][i]
        /\ \A j \in DOMAIN callbacks :
              \/ callbacks[j] = current /\ current' = None
              \/ \E i \in DOMAIN fut_callbacks[f] : fut_callbacks[f][i] = callbacks[j]
    OBVIOUS
  <1>6. /\ current' = current \/ current' = None
        /\ current' # current => f = current \/ \E j \in DOMAIN callbacks : callbacks[j] = current
        /\ f \in Tasks => f = current /\ current' = None
    BY NoneIsNothing
  <1>7. \A j \in DOMAIN callbacks : suspended'[callbacks[j]] = f /\ callbacks[j] # f
    BY <1>3, NoneIsNothing
  <1>8. /\ current' = current => suspended' = suspended
        /\ \A t \in Tasks : t # current => suspended'[t] = suspended[t]
    OBVIOUS
  <1> HIDE DEF callbacks
  <1>9. /\ fut_state' \in [Futures -> {"UNBORN", "PENDING", "CANCELLED", "FINISHED"}]
        /\ fut_exception' \in [Futures -> {"none", "error", "cancelled"}]
        /\ fut_callbacks' \in [Futures -> Seq(Tasks)]
        /\ ready' \in Seq(Handles) /\ Len(ready') = Len(queue) + Len(callbacks)
        /\ PlainBorn'
        /\ QueueOK(ready)' /\ QueueOnce(ready)' /\ CallbacksOK' /\ CallbacksOnce'
        /\ Placed(ready)'
    BY <1>1, <1>3, <1>4, <1>5, <1>6, <1>7, <1>8, CompleteKeeps
  <1>10. Len(ready') \in Nat /\ Len(ready') >= Len(queue)
    BY <1>3, <1>9, LenProperties
  <1>11. RunningOK'
    <2>1. CASE current' = None
      BY <2>1 DEF RunningOK
    <2>2. CASE f \in Plain /\ current' = current /\ current # None
      <3>1. current \in Tasks /\ current \in Futures /\ current # f
        BY <2>2, <1>1, NoneIsNothing DEF AsyncioTypeOK, Futures
      <3>2. Pending(current)' <=> fut_state'[current] = "PENDING"
        BY <2>2 DEF Pending
      <3>3. fut_state'[current] = "PENDING"
        BY <3>1, <2>2, <1>1 DEF RunningOK, Pending, Complete, AsyncioTypeOK
      <3>4. QED
        BY <2>2, <3>2, <3>3, <1>1 DEF RunningOK
    <2>3. QED
      BY <2>1, <2>2
  <1>12. WaitsOK'
    <2>1. ASSUME NEW t \in Tasks, suspended[t] # None
          PROVE  Active(t)' /\ fut_state'[suspended[t]] # "UNBORN"
      <3>1. /\ t \in Futures /\ suspended[t] \in Futures
            /\ Active(t) /\ fut_state[suspended[t]] # "UNBORN"
        BY <2>1, <1>1 DEF WaitsOK, AsyncioTypeOK, Futures
      <3>2. t # f
        BY <2>1, <1>1, NoneIsNothing DEF RunningOK
      <3>3. /\ \A g \in Futures : g # f => fut_state'[g] = fut_state[g]
            /\ fut_state'[f] = state
        BY <1>1 DEF AsyncioTypeOK, Complete
      <3>4. Active(t)'
        BY <3>1, <3>2, <3>3 DEF Active, Pending
      <3>5. fut_state'[suspended[t]] # "UNBORN"
        BY <3>1, <3>3
      <3>6. QED
        BY <3>4, <3>5
    <2>2. QED
      BY <2>1, <1>1 DEF WaitsOK
  <1>13. QED
    BY <1>9, <1>10, <1>11, <1>12

LEMMA RunTimerKeeps == IInv /\ RunTimer => IInv'
  <1> SUFFICES ASSUME IInv, RunTimer
               PROVE  IInv'
    OBVIOUS
  <1> DEFINE f == Head(ready).of
  <1>1. /\ current = None /\ ntodo > 0 /\ Head(ready).call = "timer" /\ ntodo' = ntodo - 1
        /\ fut_blocking' = fut_blocking /\ task_fut_waiter' = task_fut_waiter
        /\ task_must_cancel' = task_must_cancel /\ suspended' = suspended
        /\ timers' = timers /\ current' = current /\ got' = got /\ ops' = ops /\ owed' = owed
    BY DEF RunTimer, Runs, taskVars
  <1>2. /\ AsyncioTypeOK /\ PlainBorn /\ CallbacksOK /\ CallbacksOnce /\ Placed(ready)
        /\ WaitsOK /\ CancelOK /\ RunningOK /\ QueueOK(ready) /\ QueueOnce(ready)
    BY DEF IInv
  <1>3. ready # <<>>
    BY <1>1, <1>2, QueueLen
  <1>4. /\ Head(ready) \in Handles /\ Tail(ready) \in Seq(Handles)
        /\ Len(Tail(ready)) = Len(ready) - 1 /\ Len(ready) \in Nat
        /\ QueueOK(Tail(ready)) /\ QueueOnce(Tail(ready))
        /\ \A t \in Tasks : Queued(t, ready) => t = Head(ready).task \/ Queued(t, Tail(ready))
    BY <1>2, <1>3, TailKeeps
  <1>5. f \in Plain /\ f \in Futures /\ f \notin Tasks /\ Head(ready).task = None
    BY <1>1, <1>4, HandleKinds, NoneIsNothing DEF Futures
  <1>6. Placed(Tail(ready))
    BY <1>2, <1>4, <1>5, NoneIsNothing DEF Placed
  <1>7. ntodo \in 0..Len(ready)
    BY <1>2 DEF AsyncioTypeOK
  <1>8. CASE ~Pending(f)
    <2>1. /\ ready' = Tail(ready) /\ fut_state' = fut_state
          /\ fut_exception' = fut_exception /\ fut_callbacks' = fut_callbacks
      BY <1>8 DEF RunTimer
    <2>2. AsyncioTypeOK'
      <3>1. ntodo' \in 0..Len(ready')
        BY <1>1, <1>4, <1>7, <2>1
      <3>2. QED
        BY <1>1, <1>2, <1>4, <2>1, <3>1 DEF AsyncioTypeOK
    <2>3. PlainBorn' /\ WaitsOK' /\ RunningOK' /\ CancelOK' /\ CallbacksOK' /\ CallbacksOnce'
      BY <1>1, <1>2, <2>1 DEF PlainBorn, WaitsOK, CancelOK, RunningOK, Active, Pending, Outcome,
                              CallbacksOK, CallbacksOnce
    <2>4. QueueOK(ready)' /\ QueueOnce(ready)'
      BY <1>1, <1>4, <2>1 DEF QueueOK, QueueOnce, Active, Pending
    <2>5. Placed(ready)'
      BY <1>1, <1>6, <2>1 DEF Placed, Queued, CalledBack, Pending
    <2>6. QED
      BY <2>2, <2>3, <2>4, <2>5 DEF IInv
  <1>9. ASSUME NEW exc \in {"none", "error"}, Pending(f),
               Complete(f, "FINISHED", exc, fut_callbacks[f], Tail(ready))
        PROVE  IInv'
    <2>2. /\ fut_state' \in [Futures -> {"UNBORN", "PENDING", "CANCELLED", "FINISHED"}]
          /\ fut_exception' \in [Futures -> {"none", "error", "cancelled"}]
          /\ fut_callbacks' \in [Futures -> Seq(Tasks)]
          /\ ready' \in Seq(Handles) /\ Len(ready') \in Nat /\ Len(ready') >= Len(Tail(ready))
          /\ PlainBorn' /\ RunningOK' /\ WaitsOK'
          /\ QueueOK(ready)' /\ QueueOnce(ready)' /\ CallbacksOK' /\ CallbacksOnce'
          /\ Placed(ready)'
      <3> HIDE DEF f
      <3>1. QED
        BY <1>1, <1>4, <1>5, <1>6, <1>9, CompleteOwn
    <2>3. /\ \A g \in Futures : g # f => (Pending(g)' <=> Pending(g)) /\ fut_state'[g] = fut_state[g]
          /\ \A g \in Futures : Outcome(g) = "cancelled" => Outcome(g)' = "cancelled"
          /\ fut_state'[f] = "FINISHED"
      <3> HIDE DEF f
      <3>1. QED
        BY <1>2, <1>5, <1>9, OutcomesKept
    <2>4. \A t \in Tasks : t \in Futures /\ t # f
      BY <1>5 DEF Futures
    <2>5. AsyncioTypeOK'
      <3>1. ntodo' \in 0..Len(ready')
        BY <1>1, <1>4, <1>7, <2>2
      <3>2. QED
        BY <1>1, <1>2, <2>2, <3>1 DEF AsyncioTypeOK
    <2>8. CancelOK'
      <3> SUFFICES ASSUME ~AwaitCancelled, NEW t \in owed
                   PROVE  /\ Pending(t)'
                          /\ \/ task_must_cancel[t]
                             \/ suspended[t] # None /\ Outcome(suspended[t])' = "cancelled"
        BY <1>1 DEF CancelOK, Pending, Outcome
      <3>1. t \in Tasks /\ (suspended[t] # None => suspended[t] \in Futures)
        BY <1>2 DEF AsyncioTypeOK
      <3>2. Pending(t) /\ (task_must_cancel[t] \/ (suspended[t] # None /\ Outcome(suspended[t]) = "cancelled"))
        BY <1>2 DEF CancelOK
      <3>3. QED
        BY <3>1, <3>2, <1>1, <2>3, <2>4 DEF Outcome
    <2>9. QED
      BY <2>2, <2>5, <2>8 DEF IInv
  <1>10. QED
    BY <1>8, <1>9 DEF RunTimer, SetResult, SetException

LEMMA CreateTaskKeeps ==
  ASSUME IInv, NEW t \in Tasks, CreateTask(t)
  PROVE  IInv'
  <1>1. /\ current # None /\ ops < MaxOps /\ ops' = ops + 1 /\ fut_state[t] = "UNBORN"
        /\ fut_state' = [fut_state EXCEPT ![t] = "PENDING"]
        /\ ready' = Append(ready, Step(t, "none"))
        /\ fut_exception' = fut_exception /\ fut_callbacks' = fut_callbacks
        /\ fut_blocking' = fut_blocking /\ task_fut_waiter' = task_fut_waiter
        /\ task_must_cancel' = task_must_cancel /\ suspended' = suspended
        /\ ntodo' = ntodo /\ timers' = timers /\ current' = current /\ got' = got /\ owed' = owed
    BY DEF CreateTask, Acts, taskVars
  <1>2. /\ AsyncioTypeOK /\ PlainBorn /\ CallbacksOK /\ CallbacksOnce /\ Placed(ready)
        /\ WaitsOK /\ CancelOK /\ RunningOK /\ QueueOK(ready) /\ QueueOnce(ready)
    BY DEF IInv
  <1>3. /\ ready' \in Seq(Handles) /\ Len(ready') = Len(ready) + 1
        /\ QueueOK(ready)' /\ QueueOnce(ready)' /\ CallbacksOK' /\ CallbacksOnce'
        /\ Placed(ready)'
    BY <1>1, <1>2, StepQueued
  <1>4. \A g \in Futures : fut_state[g] # "UNBORN" =>
           fut_state'[g] = fut_state[g] /\ (Pending(g) => Pending(g)') /\ Outcome(g)' = Outcome(g)
    BY <1>1, <1>2 DEF AsyncioTypeOK, Pending, Outcome
  <1>5. AsyncioTypeOK'
    <2>1. fut_state' \in [Futures -> {"UNBORN", "PENDING", "CANCELLED", "FINISHED"}]
      BY <1>1, <1>2 DEF AsyncioTypeOK
    <2>2. ntodo' \in 0..Len(ready') /\ ops' \in 0..MaxOps
      BY <1>1, <1>2, <1>3, QueueLen, AsyncioBounds DEF AsyncioTypeOK
    <2>3. QED
      BY <1>1, <1>2, <1>3, <2>1, <2>2 DEF AsyncioTypeOK
  <1>6. PlainBorn'
    BY <1>2, <1>4 DEF PlainBorn, Futures
  <1>7. RunningOK'
    <2>1. current \in Futures /\ Pending(current) /\ suspended[current] = None
      BY <1>1, <1>2 DEF RunningOK, AsyncioTypeOK, Futures
    <2>2. QED
      BY <2>1, <1>1, <1>4 DEF RunningOK, Pending
  <1>8. WaitsOK'
    <2>1. ASSUME NEW u \in Tasks, suspended[u] # None
          PROVE  Active(u)' /\ fut_state'[suspended[u]] # "UNBORN"
      <3>1. /\ u \in Futures /\ suspended[u] \in Futures
            /\ Active(u) /\ fut_state[suspended[u]] # "UNBORN"
        BY <2>1, <1>2 DEF WaitsOK, AsyncioTypeOK, Futures
      <3>2. QED
        BY <3>1, <1>4 DEF Active, Pending
    <2>2. QED
      BY <2>1, <1>1, <1>2 DEF WaitsOK
  <1>9. CancelOK'
    <2> SUFFICES ASSUME ~AwaitCancelled, NEW u \in owed
                 PROVE  /\ Pending(u)'
                        /\ \/ task_must_cancel[u]
                           \/ suspended[u] # None /\ Outcome(suspended[u])' = "cancelled"
      BY <1>1 DEF CancelOK, Pending, Outcome
    <2>1. u \in Tasks /\ u \in Futures /\ (suspended[u] # None => suspended[u] \in Futures)
      BY <1>2 DEF AsyncioTypeOK, Futures
    <2>2. /\ Pending(u)
          /\ task_must_cancel[u] \/ (suspended[u] # None /\ Outcome(suspended[u]) = "cancelled")
      BY <1>2 DEF CancelOK
    <2>3. suspended[u] # None => fut_state[suspended[u]] # "UNBORN"
      BY <2>1, <1>2 DEF WaitsOK
    <2>4. QED
      BY <2>1, <2>2, <2>3, <1>1, <1>4 DEF Pending, Outcome
  <1>10. QED
    BY <1>3, <1>5, <1>6, <1>7, <1>8, <1>9 DEF IInv

LEMMA StepSoonKeeps ==
  ASSUME IInv, NEW exc \in {"none", "error"}, StepSoon(exc), fut_blocking' \subseteq Tasks
  PROVE  IInv'
  <1>1. /\ current # None /\ ops < MaxOps /\ ops' = ops + 1
        /\ ready' = Append(ready, Step(current, exc))
        /\ current' = None /\ got' = "value"
        /\ fut_state' = fut_state /\ fut_exception' = fut_exception
        /\ fut_callbacks' = fut_callbacks /\ task_fut_waiter' = task_fut_waiter
        /\ task_must_cancel' = task_must_cancel /\ suspended' = suspended
        /\ ntodo' = ntodo /\ timers' = timers /\ owed' = owed
    BY DEF StepSoon, Acts, Suspends, taskVars
  <1>2. /\ AsyncioTypeOK /\ PlainBorn /\ CallbacksOK /\ CallbacksOnce /\ Placed(ready)
        /\ WaitsOK /\ CancelOK /\ RunningOK /\ QueueOK(ready) /\ QueueOnce(ready)
    BY DEF IInv
  <1>3. current \in Tasks
    BY <1>1, <1>2 DEF AsyncioTypeOK
  <1>4. /\ ready' \in Seq(Handles) /\ Len(ready') = Len(ready) + 1
        /\ QueueOK(ready)' /\ QueueOnce(ready)' /\ CallbacksOK' /\ CallbacksOnce'
        /\ Placed(ready)'
    BY <1>1, <1>2, <1>3, StepQueued
  <1>5. AsyncioTypeOK'
    <2>1. ntodo' \in 0..Len(ready') /\ ops' \in 0..MaxOps
      BY <1>1, <1>2, <1>4, QueueLen, AsyncioBounds DEF AsyncioTypeOK
    <2>2. QED
      BY <1>1, <1>2, <1>4, <2>1 DEF AsyncioTypeOK
  <1>6. PlainBorn' /\ WaitsOK' /\ RunningOK' /\ CancelOK'
    BY <1>1, <1>2 DEF PlainBorn, WaitsOK, CancelOK, RunningOK, Active, Pending, Outcome
  <1>7. QED
    BY <1>4, <1>5, <1>6 DEF IInv

\* The running task is done, and with it what became of its cancellation.
LEMMA EndsKeeps ==
  ASSUME IInv, Ends, NEW state \in {"CANCELLED", "FINISHED"},
         NEW exc \in {"none", "error", "cancelled"},
         Complete(current, state, exc, fut_callbacks[current], ready),
         task_must_cancel' \in [Tasks -> BOOLEAN],
         \A t \in Tasks : t # current => task_must_cancel'[t] = task_must_cancel[t],
         owed' \subseteq owed, owed' = owed \ {current} \/ AwaitCancelled
  PROVE  IInv'
  <1>1. /\ current # None /\ current' = None /\ got' = "value"
        /\ fut_blocking' = fut_blocking /\ task_fut_waiter' = task_fut_waiter
        /\ suspended' = suspended /\ ntodo' = ntodo /\ timers' = timers /\ ops' = ops
    BY DEF Ends, Suspends
  <1>2. /\ AsyncioTypeOK /\ PlainBorn /\ CallbacksOK /\ CallbacksOnce /\ Placed(ready)
        /\ WaitsOK /\ CancelOK /\ RunningOK /\ QueueOK(ready) /\ QueueOnce(ready)
    BY DEF IInv
  <1>3. /\ current \in Tasks /\ current \in Futures /\ Pending(current)
        /\ suspended[current] = None /\ ready \in Seq(Handles)
    BY <1>1, <1>2 DEF AsyncioTypeOK, Futures, RunningOK
  <1>4. /\ fut_state' \in [Futures -> {"UNBORN", "PENDING", "CANCELLED", "FINISHED"}]
        /\ fut_exception' \in [Futures -> {"none", "error", "cancelled"}]
        /\ fut_callbacks' \in [Futures -> Seq(Tasks)]
        /\ ready' \in Seq(Handles) /\ Len(ready') \in Nat /\ Len(ready') >= Len(ready)
        /\ PlainBorn' /\ RunningOK' /\ WaitsOK'
        /\ QueueOK(ready)' /\ QueueOnce(ready)' /\ CallbacksOK' /\ CallbacksOnce'
        /\ Placed(ready)'
    BY <1>1, <1>2, <1>3, CompleteOwn
  <1>5. /\ \A g \in Futures : g # current => (Pending(g)' <=> Pending(g))
        /\ \A g \in Futures : Outcome(g) = "cancelled" => Outcome(g)' = "cancelled"
    BY <1>2, <1>3, OutcomesKept
  <1>6. AsyncioTypeOK'
    <2>1. ntodo' \in 0..Len(ready')
      BY <1>1, <1>2, <1>4, QueueLen DEF AsyncioTypeOK
    <2>2. QED
      BY <1>1, <1>2, <1>4, <2>1 DEF AsyncioTypeOK
  <1>7. CancelOK'
    <2> SUFFICES ASSUME ~AwaitCancelled, NEW t \in owed, t # current
                 PROVE  /\ Pending(t)'
                        /\ \/ task_must_cancel'[t]
                           \/ suspended[t] # None /\ Outcome(suspended[t])' = "cancelled"
      BY <1>1 DEF CancelOK, Pending, Outcome
    <2>1. t \in Tasks /\ t \in Futures /\ (suspended[t] # None => suspended[t] \in Futures)
      BY <1>2 DEF AsyncioTypeOK, Futures
    <2>2. /\ Pending(t)
          /\ task_must_cancel[t] \/ (suspended[t] # None /\ Outcome(suspended[t]) = "cancelled")
      BY <1>2 DEF CancelOK
    <2>3. QED
      BY <2>1, <2>2, <1>1, <1>5 DEF Pending, Outcome
  <1>8. QED
    BY <1>4, <1>6, <1>7 DEF IInv

LEMMA LeaveKeeps == IInv /\ Leave => IInv'
  <1> SUFFICES ASSUME IInv, Leave
               PROVE  IInv'
    OBVIOUS
  <1>1. /\ current # None /\ Ends
    BY DEF Leave, Return, Raise, RaiseCancelled, Ends
  <1>2. /\ current \in Tasks /\ task_must_cancel \in [Tasks -> BOOLEAN]
        /\ task_must_cancel[current] \in BOOLEAN
    BY <1>1 DEF IInv, AsyncioTypeOK
  <1>3. current \in owed => task_must_cancel[current] \/ AwaitCancelled
    BY <1>1, <1>2 DEF IInv, CancelOK, RunningOK
  <1>4. CASE Return
    <2>1. /\ task_must_cancel' = [task_must_cancel EXCEPT ![current] = FALSE]
          /\ owed' \subseteq owed /\ (owed' = owed \ {current} \/ AwaitCancelled)
      BY <1>3, <1>4 DEF Return
    <2>2. CASE task_must_cancel[current]
      <3>1. Complete(current, "FINISHED", "cancelled", fut_callbacks[current], ready)
        BY <1>4, <2>2 DEF Return, SetException
      <3>2. QED
        BY <1>1, <1>2, <2>1, <3>1, EndsKeeps
    <2>3. CASE ~task_must_cancel[current]
      <3>1. Complete(current, "FINISHED", "none", fut_callbacks[current], ready)
        BY <1>4, <2>3 DEF Return, SetResult
      <3>2. QED
        BY <1>1, <1>2, <2>1, <3>1, EndsKeeps
    <2>4. QED
      BY <2>2, <2>3
  <1>5. CASE Raise
    <2>1. /\ Complete(current, "FINISHED", "error", fut_callbacks[current], ready)
          /\ owed' = owed \ {current} /\ task_must_cancel' = task_must_cancel
      BY <1>5 DEF Raise, SetException
    <2>2. QED
      BY <1>1, <1>2, <2>1, EndsKeeps
  <1>6. CASE RaiseCancelled
    <2>1. /\ Complete(current, "CANCELLED", "none", fut_callbacks[current], ready)
          /\ owed' = owed \ {current} /\ task_must_cancel' = task_must_cancel
      BY <1>6 DEF RaiseCancelled, FutureCancel
    <2>2. QED
      BY <1>1, <1>2, <2>1, EndsKeeps
  <1>7. QED
    BY <1>4, <1>5, <1>6 DEF Leave

LEMMA CancelKeeps ==
  ASSUME IInv, NEW u \in Tasks, NEW t \in Tasks, Cancel(u, t)
  PROVE  IInv'
  <1> DEFINE f == task_fut_waiter[t]
  <1>1. /\ current # None /\ ops < MaxOps /\ ops' = ops + 1
        /\ Pending(u) /\ Reaches(u, t)
        /\ owed' = owed \cup {t} /\ fut_blocking' = fut_blocking
        /\ task_fut_waiter' = task_fut_waiter /\ suspended' = suspended
        /\ ntodo' = ntodo /\ timers' = timers /\ current' = current /\ got' = got
    BY DEF Cancel, Acts
  <1>2. /\ AsyncioTypeOK /\ PlainBorn /\ CallbacksOK /\ CallbacksOnce /\ Placed(ready)
        /\ WaitsOK /\ CancelOK /\ RunningOK /\ QueueOK(ready) /\ QueueOnce(ready)
    BY DEF IInv
  <1>3. Pending(t)
    <2> DEFINE S == {s \in Tasks : Pending(s)}
    <2>1. S \in SUBSET Tasks /\ u \in S
      BY <1>1
    <2>2. \A s \in S : PassesOn(s) => task_fut_waiter[s] \in S
      BY DEF PassesOn
    <2>3. t \in S
      BY <1>1, <2>1, <2>2 DEF Reaches
    <2>4. QED
      BY <2>3
  <1>4. ops' \in 0..MaxOps
    BY <1>1, <1>2, AsyncioBounds DEF AsyncioTypeOK
  <1>5. CASE f \in Plain /\ Pending(f)
    <2>1. /\ Complete(f, "CANCELLED", "none", fut_callbacks[f], ready)
          /\ task_must_cancel' = task_must_cancel
      BY <1>5 DEF Cancel, FutureCancel
    <2>2. f \in Futures /\ ready \in Seq(Handles)
      BY <1>2, <1>5 DEF Futures, AsyncioTypeOK
    <2>3. f = suspended[t] /\ f # None
      BY <1>2, <1>5, NoneIsNothing DEF WaitsOK
    <2> HIDE DEF f
    <2>4. /\ fut_state' \in [Futures -> {"UNBORN", "PENDING", "CANCELLED", "FINISHED"}]
          /\ fut_exception' \in [Futures -> {"none", "error", "cancelled"}]
          /\ fut_callbacks' \in [Futures -> Seq(Tasks)]
          /\ ready' \in Seq(Handles) /\ Len(ready') \in Nat /\ Len(ready') >= Len(ready)
          /\ PlainBorn' /\ RunningOK' /\ WaitsOK'
          /\ QueueOK(ready)' /\ QueueOnce(ready)' /\ CallbacksOK' /\ CallbacksOnce'
          /\ Placed(ready)'
      BY <1>1, <1>2, <1>5, <2>1, <2>2, CompleteOwn
    <2>5. /\ \A g \in Futures : g # f => (Pending(g)' <=> Pending(g))
          /\ \A g \in Futures : Outcome(g) = "cancelled" => Outcome(g)' = "cancelled"
          /\ fut_state'[f] = "CANCELLED"
      BY <1>2, <1>5, <2>1, <2>2, OutcomesKept
    <2>6. AsyncioTypeOK'
      <3>1. ntodo' \in 0..Len(ready')
        BY <1>1, <1>2, <2>4, QueueLen DEF AsyncioTypeOK
      <3>2. QED
        BY <1>1, <1>2, <1>4, <2>1, <2>4, <3>1 DEF AsyncioTypeOK
    <2>7. CancelOK'
      <3> SUFFICES ASSUME ~AwaitCancelled, NEW v \in owed \cup {t}
                   PROVE  /\ Pending(v)'
                          /\ \/ task_must_cancel[v]
                             \/ suspended[v] # None /\ Outcome(suspended[v])' = "cancelled"
        BY <1>1, <2>1 DEF CancelOK, Pending, Outcome
      <3>1. /\ v \in Tasks /\ v \in Futures /\ v # f
            /\ (suspended[v] # None => suspended[v] \in Futures)
        BY <1>2, <1>5, NoneIsNothing DEF AsyncioTypeOK, Futures
      <3>2. Pending(v)'
        BY <3>1, <1>2, <1>3, <2>5 DEF CancelOK
      <3>3. CASE v = t
        BY <3>2, <3>3, <1>1, <2>3, <2>5 DEF Outcome
      <3>4. CASE v \in owed
        <4>1. task_must_cancel[v] \/ (suspended[v] # None /\ Outcome(suspended[v]) = "cancelled")
          BY <3>4, <1>2 DEF CancelOK
        <4>2. QED
          BY <3>1, <3>2, <4>1, <1>1, <2>5 DEF Outcome
      <3>5. QED
        BY <3>3, <3>4
    <2>8. QED
      BY <2>4, <2>6, <2>7 DEF IInv
  <1>6. CASE ~(f \in Plain /\ Pending(f))
    <2>1. /\ task_must_cancel' = [task_must_cancel EXCEPT ![t] = TRUE]
          /\ fut_state' = fut_state /\ fut_exception' = fut_exception
          /\ fut_callbacks' = fut_callbacks /\ ready' = ready
      BY <1>6 DEF Cancel
    <2>2. AsyncioTypeOK'
      BY <1>1, <1>2, <1>4, <2>1 DEF AsyncioTypeOK
    <2>3. PlainBorn' /\ WaitsOK' /\ RunningOK' /\ CallbacksOK' /\ CallbacksOnce'
      BY <1>1, <1>2, <2>1 DEF PlainBorn, WaitsOK, RunningOK, Active, Pending, CallbacksOK,
                              CallbacksOnce
    <2>4. QueueOK(ready)' /\ QueueOnce(ready)'
      BY <1>1, <1>2, <2>1 DEF QueueOK, QueueOnce, Active, Pending
    <2>5. Placed(ready)'
      BY <1>1, <1>2, <2>1 DEF Placed, Queued, CalledBack, Pending
    <2>6. CancelOK'
      <3>1. \A v \in Tasks : task_must_cancel[v] => task_must_cancel'[v]
        BY <1>2, <2>1 DEF AsyncioTypeOK
      <3>2. task_must_cancel'[t]
        BY <1>2, <2>1 DEF AsyncioTypeOK
      <3>3. owed \subseteq Tasks
        BY <1>2 DEF AsyncioTypeOK
      <3>4. QED
        BY <1>1, <1>2, <1>3, <2>1, <3>1, <3>2, <3>3 DEF CancelOK, Pending, Outcome
    <2>7. QED
      BY <2>2, <2>3, <2>4, <2>5, <2>6 DEF IInv
  <1>7. QED
    BY <1>5, <1>6

\* The running task joins those who await f.
LEMMA AwaitPendingKeeps ==
  ASSUME IInv, NEW f \in Futures, AwaitPending(f)
  PROVE  IInv'
  <1> DEFINE waiting == Append(fut_callbacks[f], current)
  <1>1. /\ current # None /\ ops < MaxOps /\ ops' = ops + 1
        /\ MayAwait(f) /\ Pending(f)
        /\ task_must_cancel' = [task_must_cancel EXCEPT ![current] = FALSE]
        /\ task_fut_waiter' = [task_fut_waiter EXCEPT ![current] = f]
        /\ suspended' = [suspended EXCEPT ![current] = f]
        /\ current' = None /\ got' = "value" /\ fut_blocking' = fut_blocking
        /\ ntodo' = ntodo /\ timers' = timers /\ owed' = owed
    BY DEF AwaitPending, Acts, Suspends
  <1>2. /\ AsyncioTypeOK /\ PlainBorn /\ CallbacksOK /\ CallbacksOnce /\ Placed(ready)
        /\ WaitsOK /\ CancelOK /\ RunningOK /\ QueueOK(ready) /\ QueueOnce(ready)
    BY DEF IInv
  <1>3. /\ current \in Tasks /\ current \in Futures /\ Pending(current)
        /\ suspended[current] = None /\ ready \in Seq(Handles)
    BY <1>1, <1>2 DEF AsyncioTypeOK, Futures, RunningOK
  <1>4. f # current /\ f # None
    BY <1>1, <1>3, NoneIsNothing DEF MayAwait, Tasks
  <1>5. /\ fut_callbacks[f] \in Seq(Tasks)
        /\ \A i \in DOMAIN fut_callbacks[f] :
             /\ fut_callbacks[f][i] \in Tasks /\ fut_callbacks[f][i] # current
             /\ suspended[fut_callbacks[f][i]] = f
        /\ \A i, j \in DOMAIN fut_callbacks[f] :
             fut_callbacks[f][i] = fut_callbacks[f][j] => i = j
    BY CallbacksAre
  <1>6. /\ waiting \in Seq(Tasks) /\ Len(fut_callbacks[f]) \in Nat
        /\ DOMAIN fut_callbacks[f] = 1..Len(fut_callbacks[f])
        /\ DOMAIN waiting = 1..Len(fut_callbacks[f]) + 1
        /\ \A i \in 1..Len(fut_callbacks[f]) : waiting[i] = fut_callbacks[f][i]
        /\ waiting[Len(fut_callbacks[f]) + 1] = current
    BY <1>3, <1>5, AppendProperties, LenProperties
  <1>7. \A j \in DOMAIN waiting : \/ j \in DOMAIN fut_callbacks[f] /\ waiting[j] = fut_callbacks[f][j]
                                  \/ j = Len(fut_callbacks[f]) + 1 /\ waiting[j] = current
    BY <1>6
  <1> HIDE DEF waiting
  <1>8. \A i, j \in DOMAIN waiting : waiting[i] = waiting[j] => i = j
    BY <1>5, <1>7
  <1>9. /\ suspended \in [Tasks -> Futures \cup {None}]
        /\ task_must_cancel \in [Tasks -> BOOLEAN]
    BY <1>2 DEF AsyncioTypeOK
  <1>10. /\ suspended'[current] = f
         /\ \A t \in Tasks : t # current => /\ suspended'[t] = suspended[t]
                                            /\ task_must_cancel'[t] = task_must_cancel[t]
    BY <1>1, <1>3, <1>9
  <1>11. /\ suspended' \in [Tasks -> Futures \cup {None}]
         /\ task_fut_waiter' = suspended'
         /\ task_must_cancel' \in [Tasks -> BOOLEAN]
    BY <1>1, <1>2, <1>9 DEF WaitsOK
  <1>12. ops' \in 0..MaxOps
    BY <1>1, <1>2, AsyncioBounds DEF AsyncioTypeOK
  <1>13. RunningOK'
    BY <1>1 DEF RunningOK
  <1>14. current \in owed => task_must_cancel[current] \/ AwaitCancelled
    BY <1>2, <1>3 DEF CancelOK
  <1>15. \A t \in owed : t \in Tasks /\ t \in Futures
    BY <1>2 DEF AsyncioTypeOK, Futures
  <1>16. \A t \in Tasks : t \in Futures
    BY DEF Futures
  <1>17. CASE ~task_must_cancel[current]
    <2>1. /\ fut_callbacks' = [fut_callbacks EXCEPT ![f] = waiting]
          /\ fut_state' = fut_state /\ fut_exception' = fut_exception /\ ready' = ready
      BY <1>17 DEF AwaitPending, waiting
    <2>2. fut_callbacks \in [Futures -> Seq(Tasks)]
      BY <1>2 DEF AsyncioTypeOK
    <2>3. AsyncioTypeOK'
      BY <1>1, <1>2, <1>6, <1>11, <1>12, <2>1, <2>2 DEF AsyncioTypeOK
    <2>4. PlainBorn'
      BY <1>2, <2>1 DEF PlainBorn
    <2>5. QueueOK(ready)'
      <3> SUFFICES ASSUME NEW i \in DOMAIN ready, ready[i].call # "timer"
                   PROVE  /\ Active(ready[i].task) /\ ready[i].task # None
                          /\ ready[i].call = "step" => suspended'[ready[i].task] = None
                          /\ ready[i].call = "wakeup" => /\ suspended'[ready[i].task] = ready[i].of
                                                         /\ ~Pending(ready[i].of)
        BY <1>1, <2>1 DEF QueueOK, Active, Pending
      <3>1. ready[i].task \in Tasks
        BY <1>3, HandleKinds, LenProperties
      <3>2. QED
        BY <3>1, <1>2, <1>10, NoneIsNothing DEF QueueOK
    <2>6. QueueOnce(ready)'
      BY <1>2, <2>1 DEF QueueOnce
    <2>7. CallbacksOK'
      <3> SUFFICES ASSUME NEW g \in Futures, NEW i \in DOMAIN fut_callbacks'[g]
                   PROVE  /\ Pending(g) /\ Active(fut_callbacks'[g][i])
                          /\ suspended'[fut_callbacks'[g][i]] = g
        BY <2>1 DEF CallbacksOK, Active, Pending
      <3>1. CASE g # f
        <4>1. fut_callbacks'[g] = fut_callbacks[g]
          BY <3>1, <2>1, <2>2
        <4>2. fut_callbacks[g][i] \in Tasks /\ fut_callbacks[g][i] # current
          BY <4>1, CallbacksAre
        <4>3. QED
          BY <4>1, <4>2, <1>2, <1>10 DEF CallbacksOK
      <3>2. CASE g = f
        <4>1. fut_callbacks'[f] = waiting
          BY <2>1, <2>2
        <4>2. QED
          BY <3>2, <4>1, <1>1, <1>2, <1>3, <1>5, <1>7, <1>10 DEF CallbacksOK, Active, Pending
      <3>3. QED
        BY <3>1, <3>2
    <2>8. CallbacksOnce'
      <3>1. fut_callbacks'[f] = waiting
            /\ \A g \in Futures : g # f => fut_callbacks'[g] = fut_callbacks[g]
        BY <2>1, <2>2
      <3>2. QED
        BY <3>1, <1>2, <1>8 DEF CallbacksOnce
    <2>9. Placed(ready)'
      <3> SUFFICES ASSUME NEW t \in Tasks, Pending(t)
                   PROVE  Queued(t, ready) \/ CalledBack(t)'
        BY <2>1 DEF Placed, Queued, Pending
      <3>1. fut_callbacks'[f] = waiting
            /\ \A g \in Futures : g # f => fut_callbacks'[g] = fut_callbacks[g]
        BY <2>1, <2>2
      <3>2. CASE t = current
        <4>1. Len(fut_callbacks[f]) + 1 \in DOMAIN waiting
          BY <1>6
        <4>2. QED
          BY <3>1, <3>2, <4>1, <1>4, <1>6, <1>10 DEF CalledBack
      <3>3. CASE t # current /\ CalledBack(t)
        <4>1. /\ suspended'[t] = suspended[t] /\ suspended[t] # None /\ suspended[t] \in Futures
          BY <3>3, <1>9, <1>10 DEF CalledBack
        <4>2. PICK i \in DOMAIN fut_callbacks[suspended[t]] : fut_callbacks[suspended[t]][i] = t
          BY <3>3 DEF CalledBack
        <4>3. i \in DOMAIN fut_callbacks'[suspended[t]] /\ fut_callbacks'[suspended[t]][i] = t
          BY <3>1, <4>1, <4>2, <1>6
        <4>4. QED
          BY <4>1, <4>3 DEF CalledBack
      <3>4. QED
        BY <3>2, <3>3, <1>2 DEF Placed
    <2>10. WaitsOK'
      <3>1. ASSUME NEW t \in Tasks, suspended'[t] # None
            PROVE  Active(t) /\ fut_state[suspended'[t]] # "UNBORN"
        <4>1. CASE t = current
          BY <4>1, <1>1, <1>3, <1>10 DEF Active, Pending
        <4>2. CASE t # current
          BY <3>1, <4>2, <1>2, <1>10 DEF WaitsOK
        <4>3. QED
          BY <4>1, <4>2
      <3>2. QED
        BY <3>1, <1>11, <2>1 DEF WaitsOK, Active, Pending
    <2>11. CancelOK'
      BY <1>1, <1>2, <1>10, <1>14, <1>15, <1>17, <2>1 DEF CancelOK, Pending, Outcome
    <2>12. QED
      BY <1>13, <2>3, <2>4, <2>5, <2>6, <2>7, <2>8, <2>9, <2>10, <2>11 DEF IInv
  <1>18. CASE task_must_cancel[current]
    <2>1. (f \in Plain /\ f \notin Tasks) \/ AwaitCancelled
      BY <1>1, <1>18, NoneIsNothing DEF AwaitPending, Futures
    <2>2. Complete(f, "CANCELLED", "none", waiting, ready)
      BY <1>18 DEF AwaitPending, FutureCancel, waiting
    <2>3. /\ current' # current
          /\ \E j \in DOMAIN waiting : waiting[j] = current
      <3>1. Len(fut_callbacks[f]) + 1 \in DOMAIN waiting
        BY <1>6
      <3>2. QED
        BY <3>1, <1>1, <1>6
    <2>4. /\ \A i \in DOMAIN fut_callbacks[f] :
               \E j \in DOMAIN waiting : waiting[j] = fut_callbacks[f][i]
          /\ \A j \in DOMAIN waiting :
               \/ waiting[j] = current /\ current' = None
               \/ \E i \in DOMAIN fut_callbacks[f] : fut_callbacks[f][i] = waiting[j]
      <3>1. \A i \in DOMAIN fut_callbacks[f] : i \in DOMAIN waiting /\ waiting[i] = fut_callbacks[f][i]
        BY <1>6
      <3>2. QED
        BY <3>1, <1>1, <1>7
    <2>5. \A j \in DOMAIN waiting : suspended'[waiting[j]] = f /\ (waiting[j] # f \/ AwaitCancelled)
      BY <1>3, <1>5, <1>7, <1>10, <2>1
    <2>6. /\ waiting \in Seq(Tasks)
          /\ f \in Tasks => (f = current /\ current' = None) \/ AwaitCancelled
          /\ \A t \in Tasks : t # current => suspended'[t] = suspended[t]
      BY <1>6, <1>10, <2>1
    <2>7. /\ fut_state' \in [Futures -> {"UNBORN", "PENDING", "CANCELLED", "FINISHED"}]
          /\ fut_exception' \in [Futures -> {"none", "error", "cancelled"}]
          /\ fut_callbacks' \in [Futures -> Seq(Tasks)]
          /\ ready' \in Seq(Handles) /\ Len(ready') = Len(ready) + Len(waiting)
          /\ PlainBorn'
          /\ QueueOK(ready)' /\ QueueOnce(ready)' /\ CallbacksOK' /\ CallbacksOnce'
          /\ Placed(ready)'
      BY <1>1, <1>2, <1>3, <1>8, <2>2, <2>3, <2>4, <2>5, <2>6, CompleteKeeps
    <2>8. /\ \A g \in Futures : g # f =>
               (Pending(g)' <=> Pending(g)) /\ fut_state'[g] = fut_state[g]
          /\ \A g \in Futures : Outcome(g) = "cancelled" => Outcome(g)' = "cancelled"
          /\ fut_state'[f] = "CANCELLED"
      BY <1>1, <1>2, <2>2, OutcomesKept
    <2>9. AsyncioTypeOK'
      <3>1. ntodo' \in 0..Len(ready')
        <4>1. Len(waiting) \in Nat
          BY <1>6, LenProperties
        <4>2. QED
          BY <1>1, <1>2, <2>7, <4>1, QueueLen DEF AsyncioTypeOK
      <3>2. QED
        BY <1>1, <1>2, <1>11, <1>12, <2>7, <3>1 DEF AsyncioTypeOK
    <2>10. WaitsOK'
      <3>1. ASSUME NEW t \in Tasks, suspended'[t] # None
            PROVE  Active(t)' /\ fut_state'[suspended'[t]] # "UNBORN"
        <4>1. t \in Futures /\ (t # f \/ AwaitCancelled)
          BY <1>16, <2>1
        <4>2. CASE t = current
          BY <4>1, <4>2, <1>3, <1>4, <1>10, <2>8 DEF Active, Pending
        <4>3. CASE t # current
          <5>1. /\ Active(t) /\ suspended'[t] = suspended[t] /\ suspended[t] \in Futures
                /\ fut_state[suspended[t]] # "UNBORN"
            BY <3>1, <4>3, <1>2, <1>9, <1>10 DEF WaitsOK
          <5>2. fut_state'[suspended[t]] # "UNBORN"
            BY <5>1, <2>8
          <5>3. QED
            BY <4>1, <5>1, <5>2, <2>8 DEF Active, Pending
        <4>4. QED
          BY <4>2, <4>3
      <3>2. QED
        BY <3>1, <1>11 DEF WaitsOK
    <2>11. CancelOK'
      <3> SUFFICES ASSUME ~AwaitCancelled, NEW t \in owed
                   PROVE  /\ Pending(t)'
                          /\ \/ task_must_cancel'[t]
                             \/ suspended'[t] # None /\ Outcome(suspended[t])' = "cancelled"
        BY <1>1 DEF CancelOK
      <3>1. t \in Tasks /\ t \in Futures /\ t # f /\ Pending(t)'
        BY <1>2, <1>15, <2>1, <2>8 DEF CancelOK
      <3>2. CASE t = current
        BY <3>1, <3>2, <1>4, <1>10, <2>8 DEF Outcome
      <3>3. CASE t # current
        <4>1. /\ task_must_cancel'[t] = task_must_cancel[t] /\ suspended'[t] = suspended[t]
              /\ suspended[t] # None => suspended[t] \in Futures
          BY <3>1, <3>3, <1>9, <1>10
        <4>2. task_must_cancel[t] \/ (suspended[t] # None /\ Outcome(suspended[t]) = "cancelled")
          BY <1>2 DEF CancelOK
        <4>3. QED
          BY <3>1, <4>1, <4>2, <2>8 DEF Outcome
      <3>4. QED
        BY <3>2, <3>3
    <2>12. QED
      BY <1>13, <2>7, <2>9, <2>10, <2>11 DEF IInv
  <1>19. QED
    BY <1>3, <1>9, <1>17, <1>18

LEMMA RunKeeps == IInv /\ (RunStep \/ RunWakeup) => IInv'
  <1> SUFFICES ASSUME IInv, RunStep \/ RunWakeup
               PROVE  IInv'
    OBVIOUS
  <1>1. /\ current = None /\ ntodo > 0 /\ ntodo' = ntodo - 1 /\ ready' = Tail(ready)
        /\ UNCHANGED <<futureVars, timers, ops>>
    BY DEF RunStep, RunWakeup, Runs
  <1>2. AsyncioTypeOK /\ QueueOK(ready) /\ QueueOnce(ready) /\ Placed(ready) /\ PlainBorn /\ WaitsOK
    BY DEF IInv
  <1>3. ready # <<>>
    BY <1>1, <1>2, QueueLen
  <1>4. Head(ready) \in Handles /\ 1 \in DOMAIN ready /\ ready[1] = Head(ready)
    BY <1>2, <1>3, TailKeeps
  <1>5. CASE RunStep
    <2>1. Head(ready).call = "step" /\ TaskStep(Head(ready).task, Head(ready).of)
      BY <1>5 DEF RunStep, Runs
    <2>2. Head(ready).of \in {"none", "error", "cancelled"}
      BY <1>4, <2>1, HandleKinds
    <2>3. CASE Pending(Head(ready).task)
      BY <1>1, <1>3, <2>1, <2>2, <2>3, StepKeeps
    <2>4. CASE ~Pending(Head(ready).task)
      BY <1>1, <1>3, <2>1, <2>4, NoStepKeeps DEF TaskStep
    <2>5. QED
      BY <2>3, <2>4
  <1>6. CASE RunWakeup
    <2>1. /\ Head(ready).call = "wakeup"
          /\ TaskStep(Head(ready).task, WakeupExc(Head(ready).of))
      BY <1>6 DEF RunWakeup, Runs
    <2>2. /\ Head(ready).of \in Futures /\ Head(ready).task \in Tasks
          /\ suspended[Head(ready).task] = Head(ready).of /\ ~Pending(Head(ready).of)
      BY <1>2, <1>4, <2>1, HandleKinds DEF QueueOK
    <2>3. Outcome(Head(ready).of) \in {"value", "error", "cancelled"}
      BY <1>2, <2>2, OutcomeDone, NoneIsNothing DEF WaitsOK
    <2>4. WakeupExc(Head(ready).of) \in {"none", "error", "cancelled"}
      BY <2>3 DEF WakeupExc
    <2>5. CASE Pending(Head(ready).task)
      BY <1>1, <1>3, <2>1, <2>4, <2>5, StepKeeps
    <2>6. CASE ~Pending(Head(ready).task)
      BY <1>1, <1>3, <2>1, <2>6, NoStepKeeps DEF TaskStep
    <2>7. QED
      BY <2>5, <2>6
  <1>7. QED
    BY <1>5, <1>6

LEMMA AsyncioNextInv ==
  ASSUME IInv, [AsyncioNext]_asyncioVars
  PROVE  IInv'
  <1>1. CASE LoopStep
    BY <1>1, IterateKeeps, RunTimerKeeps, RunKeeps DEF LoopStep
  <1>2. CASE Leave
    BY <1>2, LeaveKeeps
  <1>3. ASSUME NEW f \in Plain, Due(f)
        PROVE  IInv'
    BY <1>3, DueKeeps
  <1>4. ASSUME NEW t \in Tasks, CreateTask(t)
        PROVE  IInv'
    BY <1>4, CreateTaskKeeps
  <1>5. ASSUME NEW u \in Tasks, NEW t \in Tasks, Cancel(u, t)
        PROVE  IInv'
    BY <1>5, CancelKeeps
  <1>6. ASSUME NEW f \in Futures, AwaitDone(f) \/ AwaitBlocking(f)
        PROVE  IInv'
    BY <1>6, AwaitNoYieldKeeps
  <1>7. ASSUME NEW f \in Futures, AwaitPending(f)
        PROVE  IInv'
    BY <1>7, AwaitPendingKeeps
  <1>8. CASE BareYield \/ BadYield \/ AwaitSelf
    <2>1. fut_blocking' \subseteq Tasks
      BY <1>8 DEF BareYield, BadYield, AwaitSelf, StepSoon, Acts, IInv, AsyncioTypeOK
    <2>2. StepSoon("none") \/ StepSoon("error")
      BY <1>8 DEF BareYield, BadYield, AwaitSelf
    <2>3. QED
      BY <2>1, <2>2, StepSoonKeeps
  <1>9. CASE UNCHANGED asyncioVars
    <2>1. /\ UNCHANGED <<futureVars, taskVars, ready, timers, current, owed>>
          /\ ntodo' = ntodo /\ got' = got /\ ops' = ops
      BY <1>9 DEF asyncioVars, loopVars
    <2>2. /\ ntodo' \in 0..Len(ready) /\ got' \in {"value", "error", "cancelled"}
          /\ ops' \in 0..MaxOps
      BY <2>1 DEF IInv, AsyncioTypeOK
    <2>3. QED
      BY <2>1, <2>2, QuietKeeps
  <1>10. QED
    BY <1>1, <1>2, <1>3, <1>4, <1>5, <1>6, <1>7, <1>8, <1>9 DEF AsyncioNext

LEMMA AsyncioInv == AsyncioSpec => []IInv
  <1>1. IInv /\ [AsyncioNext]_asyncioVars => IInv'
    BY AsyncioNextInv
  <1>2. QED
    BY <1>1, AsyncioInitInv, PTL DEF AsyncioSpec

-----------------------------------------------------------------------------
(* What follows *)
LEMMA Places ==
  ASSUME IInv, NEW t \in Tasks
  PROVE  /\ t = current => Pending(t)
         /\ \A i \in DOMAIN ready : ready[i].task = t =>
              /\ Active(t) /\ t # current
              /\ suspended[t] = None \/ ~Pending(suspended[t])
         /\ \A i, j \in DOMAIN ready : ready[i].task = t /\ ready[j].task = t => i = j
         /\ \A f \in Futures : \A i \in DOMAIN fut_callbacks[f] : fut_callbacks[f][i] = t =>
              Active(t) /\ t # current /\ suspended[t] = f /\ Pending(f)
  <1>1. \A i \in DOMAIN ready : ready[i].task = t => ready[i].call \in {"step", "wakeup"}
    BY HandleKinds, NoneIsNothing, LenProperties DEF IInv, AsyncioTypeOK
  <1>2. t = current => Pending(t)
    BY NoneIsNothing DEF IInv, RunningOK
  <1>3. \A i \in DOMAIN ready : ready[i].task = t =>
          /\ Active(t) /\ t # current
          /\ suspended[t] = None \/ ~Pending(suspended[t])
    BY <1>1 DEF IInv, QueueOK
  <1>4. \A i, j \in DOMAIN ready : ready[i].task = t /\ ready[j].task = t => i = j
    BY <1>1 DEF IInv, QueueOnce
  <1>5. \A f \in Futures : \A i \in DOMAIN fut_callbacks[f] : fut_callbacks[f][i] = t =>
          Active(t) /\ t # current /\ suspended[t] = f /\ Pending(f)
    BY CallbacksAre DEF IInv, CallbacksOK
  <1>6. QED
    BY <1>2, <1>3, <1>4, <1>5

\* What is left to step a task finds it at work, unless it was cancelled as a
\* plain future.
SteppedWhenActive == \A t \in Tasks : Resumptions(t) # {} => Active(t)

LEMMA ImpliesSteppedWhenActive == IInv => SteppedWhenActive
  <1> SUFFICES ASSUME IInv, NEW t \in Tasks, NEW r \in Resumptions(t)
               PROVE  Active(t)
    BY DEF SteppedWhenActive
  <1>1. \/ t = current
        \/ \E i \in DOMAIN ready : ready[i].task = t
        \/ \E f \in Futures : \E i \in DOMAIN fut_callbacks[f] : fut_callbacks[f][i] = t
    BY DEF Resumptions
  <1>2. CASE t = current
    BY <1>2, Places DEF Active
  <1>3. QED
    BY <1>1, <1>2, Places

LEMMA ImpliesOneResumption == IInv => OneResumption
  <1> SUFFICES ASSUME IInv, NEW t \in Tasks, Pending(t)
               PROVE  \E r \in Resumptions(t) : Resumptions(t) = {r}
    BY DEF OneResumption
  <1>1. /\ \A i \in DOMAIN ready : ready[i].task = t =>
             t # current /\ (suspended[t] = None \/ ~Pending(suspended[t]))
        /\ \A i, j \in DOMAIN ready : ready[i].task = t /\ ready[j].task = t => i = j
        /\ \A f \in Futures : \A i \in DOMAIN fut_callbacks[f] : fut_callbacks[f][i] = t =>
             t # current /\ suspended[t] = f /\ Pending(f)
    BY Places
  <1>2. t = current \/ Queued(t, ready) \/ CalledBack(t)
    BY DEF IInv, Placed
  <1>3. CASE t = current
    <2>1. Resumptions(t) = {<<"running", t>>}
      BY <1>1, <1>3 DEF Resumptions
    <2>2. QED
      BY <2>1
  <1>4. CASE Queued(t, ready)
    <2>1. PICK i \in DOMAIN ready : ready[i].task = t
      BY <1>4 DEF Queued
    <2>2. {j \in DOMAIN ready : ready[j].task = t} = {i}
      BY <1>1, <2>1
    <2>3. t # current /\ \A f \in Futures : \A j \in DOMAIN fut_callbacks[f] : fut_callbacks[f][j] # t
      BY <1>1, <2>1, NoneIsNothing
    <2>4. Resumptions(t) = {<<"ready", i>>}
      BY <2>2, <2>3 DEF Resumptions
    <2>5. QED
      BY <2>4
  <1>5. CASE CalledBack(t)
    <2> DEFINE f == suspended[t]
    <2>1. f \in Futures
      BY <1>5 DEF CalledBack, IInv, AsyncioTypeOK
    <2>2. PICK i \in DOMAIN fut_callbacks[f] : fut_callbacks[f][i] = t
      BY <1>5 DEF CalledBack
    <2>3. t # current /\ Pending(f) /\ f # None /\ \A j \in DOMAIN ready : ready[j].task # t
      BY <1>1, <2>1, <2>2, NoneIsNothing
    <2>4. \A g \in Futures : \A j \in DOMAIN fut_callbacks[g] :
             fut_callbacks[g][j] = t => g = f /\ j = i
      BY <1>1, <2>1, <2>2, CallbacksAre
    <2> HIDE DEF f
    <2>5. Resumptions(t) = {<<"waits", f, i>>}
      BY <2>1, <2>2, <2>3, <2>4 DEF Resumptions
    <2>6. QED
      BY <2>5
  <1>6. QED
    BY <1>2, <1>3, <1>4, <1>5

LEMMA ImpliesCancellationKept == IInv /\ ~AwaitCancelled => CancellationKept
  <1> SUFFICES ASSUME IInv, ~AwaitCancelled, NEW t \in owed, ~task_must_cancel[t]
               PROVE  /\ Pending(t)
                      /\ \E i \in DOMAIN ready : /\ ready[i].call = "wakeup" /\ ready[i].task = t
                                                 /\ Outcome(ready[i].of) = "cancelled"
    BY DEF CancellationKept, IInv, CancelOK
  <1>1. /\ t \in Tasks /\ Pending(t) /\ suspended[t] # None
        /\ Outcome(suspended[t]) = "cancelled"
    BY DEF IInv, CancelOK, AsyncioTypeOK
  <1>2. suspended[t] \in Futures /\ ~Pending(suspended[t])
    BY <1>1 DEF IInv, AsyncioTypeOK, Outcome, Pending
  <1>3. t # current /\ ~CalledBack(t)
    BY <1>1, <1>2, NoneIsNothing DEF IInv, RunningOK, CalledBack, CallbacksOK
  <1>4. PICK i \in DOMAIN ready : ready[i].task = t
    BY <1>1, <1>3 DEF IInv, Placed, Queued
  <1>5. ready[i].call \in {"step", "wakeup"}
    BY <1>1, <1>4, HandleKinds, NoneIsNothing, LenProperties DEF IInv, AsyncioTypeOK
  <1>6. ready[i].call = "wakeup" /\ ready[i].of = suspended[t]
    BY <1>1, <1>4, <1>5 DEF IInv, QueueOK
  <1>7. QED
    BY <1>1, <1>4, <1>6

\* A coroutine is resumed by nothing but what it awaits, and then with the
\* outcome of it: the bot's code between two awaits may count on that.
THEOREM AsyncioTypeCorrect == AsyncioSpec => []AsyncioTypeOK
  <1>1. IInv => AsyncioTypeOK
    BY DEF IInv
  <1>2. QED
    BY <1>1, AsyncioInv, PTL

\* No wakeup is lost, and none comes twice, whatever is cancelled by whom.
THEOREM OneResumptionEver == AsyncioSpec => []OneResumption
  <1>1. QED
    BY ImpliesOneResumption, AsyncioInv, PTL

\* Of the tasks that are done, only one that was cancelled as a plain future
\* (by line 2112 of _asynciomodule.c) can be stepped again: its own end, and
\* cancel(), never leave a handle or a callback behind.
THEOREM SteppedWhenActiveEver == AsyncioSpec => []SteppedWhenActive
  <1>1. QED
    BY ImpliesSteppedWhenActive, AsyncioInv, PTL

\* So a task that is done is never stepped again where no coroutine awaits a
\* task after it was cancelled in the same step.
THEOREM DoneWhenEndedEver ==
  ASSUME ~AwaitCancelled
  PROVE  AsyncioSpec => []DoneWhenEnded
  <1>1. SteppedWhenActive => DoneWhenEnded
    BY DEF SteppedWhenActive, DoneWhenEnded, Active
  <1>2. QED
    BY <1>1, SteppedWhenActiveEver, PTL

\* No cancellation that was accepted is forgotten.
THEOREM CancellationKeptEver ==
  ASSUME ~AwaitCancelled
  PROVE  AsyncioSpec => []CancellationKept
  <1>1. QED
    BY ImpliesCancellationKept, AsyncioInv, PTL

-----------------------------------------------------------------------------
(* The promise of the loop.  Each action is one of Cooperative or is not   *)
(* seen there: the queue is not, nor is a cancellation before it reaches   *)
(* what the task waits for.                                                *)
LEMMA StatusStep ==
  ASSUME IInv, NEW f \in Futures, Pending(f), NEW state \in {"CANCELLED", "FINISHED"},
         NEW exc, NEW callbacks, NEW queue, Complete(f, state, exc, callbacks, queue)
  PROVE  Status[f] = "pending" /\ Status' = [Status EXCEPT ![f] = "done"]
  <1>1. /\ fut_state' = [fut_state EXCEPT ![f] = state]
        /\ fut_state \in [Futures -> {"UNBORN", "PENDING", "CANCELLED", "FINISHED"}]
    BY DEF Complete, IInv, AsyncioTypeOK
  <1>2. Status[f] = "pending"
    BY DEF Status, Pending
  <1>3. \A g \in Futures : Status'[g] = IF g = f THEN "done" ELSE Status[g]
    BY <1>1 DEF Status, Pending
  <1>4. QED
    BY <1>2, <1>3 DEF Status

LEMMA StatusKept == fut_state' = fut_state => Status' = Status
  BY DEF Status, Pending

LEMMA CoopFutures == Coop!Futures = Futures
  BY DEF Coop!Futures, Futures

LEMMA CoopInitStep == AsyncioInit => Coop!CoopInit
  <1> SUFFICES ASSUME AsyncioInit
               PROVE  Coop!CoopInit
    OBVIOUS
  <1>1. Status = [f \in Futures |-> IF f \in Plain \cup {1} THEN "pending" ELSE "unborn"]
    BY DEF AsyncioInit, Status, Pending
  <1>2. QED
    BY <1>1, NoneIsNothing, CoopFutures DEF AsyncioInit, Coop!CoopInit

LEMMA CoopCompletes ==
  ASSUME IInv, NEW f \in Plain, Pending(f), NEW state \in {"CANCELLED", "FINISHED"}, NEW exc,
         NEW queue, Complete(f, state, exc, fut_callbacks[f], queue),
         current' = current, suspended' = suspended
  PROVE  Coop!CoopNext
  <1>1. f \in Futures
    BY DEF Futures
  <1>2. Status[f] = "pending" /\ Status' = [Status EXCEPT ![f] = "done"]
    BY <1>1, StatusStep
  <1>3. Coop!CompletePlain(f)
    BY <1>2 DEF Coop!CompletePlain, Coop!Done
  <1>4. QED
    BY <1>3 DEF Coop!CoopNext

LEMMA CoopRuns ==
  ASSUME IInv, ~AwaitCancelled,
         current = None, ready # <<>>, Head(ready).call # "timer", NEW exc,
         TaskStep(Head(ready).task, exc), fut_state' = fut_state
  PROVE  Coop!CoopNext
  <1> DEFINE t == Head(ready).task
  <1>1. Head(ready) \in Handles /\ 1 \in DOMAIN ready /\ ready[1] = Head(ready)
    BY TailKeeps DEF IInv
  <1>2. t \in Tasks /\ Head(ready).call \in {"step", "wakeup"}
    BY <1>1, HandleKinds
  <1>3. Pending(t) /\ (suspended[t] = None \/ ~Pending(suspended[t]))
    BY <1>1, <1>2 DEF IInv, QueueOK, Active
  <1>4. current' = t /\ suspended' = [suspended EXCEPT ![t] = None]
    BY <1>3 DEF TaskStep
  <1>5. Status[t] = "pending"
    BY <1>2, <1>3 DEF Status, Futures
  <1>6. suspended[t] # None => Status[suspended[t]] = "done"
    <2>1. suspended[t] # None => suspended[t] \in Futures /\ fut_state[suspended[t]] # "UNBORN"
      BY <1>2 DEF IInv, AsyncioTypeOK, WaitsOK
    <2>2. QED
      BY <2>1, <1>3 DEF Status
  <1>7. Coop!Resume(t)
    BY <1>4, <1>5, <1>6, StatusKept DEF Coop!Resume, Coop!CanResume
  <1>8. QED
    BY <1>2, <1>7 DEF Coop!CoopNext

LEMMA CoopAwaits ==
  ASSUME IInv, ~AwaitCancelled, NEW f \in Futures, AwaitPending(f)
  PROVE  Coop!CoopNext
  <1>1. /\ current # None /\ Pending(f) /\ current' = None
        /\ suspended' = [suspended EXCEPT ![current] = f]
    BY DEF AwaitPending, Acts, Suspends
  <1>2. Status[f] = "pending"
    BY <1>1 DEF Status
  <1>3. CASE ~task_must_cancel[current]
    <2>1. Status' = Status
      BY <1>3, StatusKept DEF AwaitPending
    <2>2. Coop!Await(f)
      BY <1>1, <1>2, <2>1 DEF Coop!Await
    <2>3. QED
      BY <2>2, CoopFutures DEF Coop!CoopNext
  <1>4. CASE task_must_cancel[current]
    <2>1. f \in Plain
      BY <1>4 DEF AwaitPending, Futures
    <2>2. Complete(f, "CANCELLED", "none", Append(fut_callbacks[f], current), ready)
      BY <1>4 DEF AwaitPending, FutureCancel
    <2>3. Status' = [Status EXCEPT ![f] = "done"]
      BY <1>1, <2>2, StatusStep
    <2>4. Coop!Await(f)
      BY <1>1, <1>2, <2>1, <2>3 DEF Coop!Await, Coop!Done
    <2>5. QED
      BY <2>4, CoopFutures DEF Coop!CoopNext
  <1>5. QED
    BY <1>3, <1>4 DEF IInv, AsyncioTypeOK

LEMMA CoopEnds ==
  ASSUME IInv, Leave
  PROVE  Coop!CoopNext
  <1>1. current # None /\ Ends
    BY DEF Leave, Return, Raise, RaiseCancelled, Ends
  <1>2. current \in Tasks /\ current \in Futures /\ Pending(current)
    BY <1>1 DEF IInv, AsyncioTypeOK, RunningOK, Futures
  <1>3. current' = None /\ suspended' = suspended
    BY <1>1 DEF Ends, Suspends
  <1>4. \E state \in {"CANCELLED", "FINISHED"}, exc \in {"none", "error", "cancelled"} :
           Complete(current, state, exc, fut_callbacks[current], ready)
    BY DEF Leave, Return, Raise, RaiseCancelled, SetResult, SetException, FutureCancel
  <1>5. Status[current] = "pending" /\ Status' = [Status EXCEPT ![current] = "done"]
    BY <1>2, <1>4, StatusStep
  <1>6. Coop!End
    BY <1>1, <1>3, <1>5 DEF Coop!End, Coop!Done
  <1>7. QED
    BY <1>6 DEF Coop!CoopNext

LEMMA CoopStep ==
  ASSUME ~AwaitCancelled, IInv, [AsyncioNext]_asyncioVars
  PROVE  [Coop!CoopNext]_(Coop!coopVars)
  <1> USE DEF Coop!coopVars
  <1>1. CASE UNCHANGED asyncioVars
    BY <1>1, StatusKept DEF asyncioVars, futureVars, taskVars
  <1>2. CASE Iterate \/ \E f \in Plain : Due(f)
    BY <1>2, StatusKept DEF Iterate, Due, futureVars, taskVars
  <1>3. CASE RunTimer
    <2>1. current' = current /\ suspended' = suspended /\ ntodo > 0 /\ Head(ready).call = "timer"
      BY <1>3 DEF RunTimer, Runs, taskVars
    <2>2. Head(ready).of \in Plain
      <3>1. ready # <<>>
        BY <2>1, QueueLen DEF IInv
      <3>2. Head(ready) \in Handles
        BY <3>1, TailKeeps DEF IInv
      <3>3. QED
        BY <2>1, <3>2, HandleKinds
    <2>3. CASE ~Pending(Head(ready).of)
      <3>1. fut_state' = fut_state
        BY <1>3, <2>3 DEF RunTimer
      <3>2. QED
        BY <2>1, <3>1, StatusKept
    <2>4. CASE Pending(Head(ready).of)
      <3>1. \E exc \in {"none", "error"} :
               Complete(Head(ready).of, "FINISHED", exc, fut_callbacks[Head(ready).of], Tail(ready))
        BY <1>3, <2>4 DEF RunTimer, SetResult, SetException
      <3>2. QED
        BY <2>1, <2>2, <2>4, <3>1, CoopCompletes
    <2>5. QED
      BY <2>3, <2>4
  <1>4. CASE RunStep \/ RunWakeup
    <2>1. /\ current = None /\ ntodo > 0 /\ Head(ready).call # "timer"
          /\ fut_state' = fut_state
          /\ \E exc : TaskStep(Head(ready).task, exc)
      BY <1>4 DEF RunStep, RunWakeup, Runs, futureVars
    <2>2. ready # <<>>
      BY <2>1, QueueLen DEF IInv
    <2>3. QED
      BY <2>1, <2>2, CoopRuns
  <1>5. CASE Leave
    BY <1>5, CoopEnds
  <1>6. ASSUME NEW t \in Tasks, CreateTask(t)
        PROVE  Coop!CoopNext
    <2>1. /\ current # None /\ current' = current /\ suspended' = suspended
          /\ fut_state[t] = "UNBORN" /\ fut_state' = [fut_state EXCEPT ![t] = "PENDING"]
      BY <1>6 DEF CreateTask, Acts, taskVars
    <2>2. t \in Futures /\ fut_state \in [Futures -> {"UNBORN", "PENDING", "CANCELLED", "FINISHED"}]
      BY DEF IInv, AsyncioTypeOK, Futures
    <2>3. Status[t] = "unborn"
      BY <2>1, <2>2 DEF Status, Pending
    <2>4. \A g \in Futures : Status'[g] = IF g = t THEN "pending" ELSE Status[g]
      BY <2>1, <2>2 DEF Status, Pending
    <2>5. Status' = [Status EXCEPT ![t] = "pending"]
      BY <2>4 DEF Status
    <2>6. Coop!Create(t)
      BY <2>1, <2>3, <2>5 DEF Coop!Create
    <2>7. QED
      BY <2>6 DEF Coop!CoopNext
  <1>7. ASSUME NEW u \in Tasks, NEW t \in Tasks, Cancel(u, t)
        PROVE  [Coop!CoopNext]_(Coop!coopVars)
    <2>1. current' = current /\ suspended' = suspended
      BY <1>7 DEF Cancel
    <2>2. CASE task_fut_waiter[t] \in Plain /\ Pending(task_fut_waiter[t])
      <3>1. Complete(task_fut_waiter[t], "CANCELLED", "none", fut_callbacks[task_fut_waiter[t]], ready)
        BY <1>7, <2>2 DEF Cancel, FutureCancel
      <3>2. QED
        BY <2>1, <2>2, <3>1, CoopCompletes
    <2>3. CASE ~(task_fut_waiter[t] \in Plain /\ Pending(task_fut_waiter[t]))
      <3>1. fut_state' = fut_state
        BY <1>7, <2>3 DEF Cancel
      <3>2. QED
        BY <2>1, <3>1, StatusKept
    <2>4. QED
      BY <2>2, <2>3
  <1>8. ASSUME NEW f \in Futures, AwaitDone(f) \/ AwaitBlocking(f)
        PROVE  UNCHANGED Coop!coopVars
    BY <1>8, StatusKept DEF AwaitDone, AwaitBlocking, futureVars, taskVars
  <1>9. ASSUME NEW f \in Futures, AwaitPending(f)
        PROVE  Coop!CoopNext
    BY <1>9, CoopAwaits
  <1>10. CASE BareYield \/ BadYield \/ AwaitSelf
    <2>1. StepSoon("none") \/ StepSoon("error")
      BY <1>10 DEF BareYield, BadYield, AwaitSelf
    <2>2. /\ current # None /\ current' = None /\ suspended' = suspended /\ fut_state' = fut_state
      BY <2>1 DEF StepSoon, Acts, Suspends, taskVars
    <2>3. Coop!Yield
      BY <2>2, StatusKept DEF Coop!Yield
    <2>4. QED
      BY <2>3 DEF Coop!CoopNext
  <1>11. QED
    BY <1>1, <1>2, <1>3, <1>4, <1>5, <1>6, <1>7, <1>8, <1>9, <1>10 DEF AsyncioNext, LoopStep

\* The loop keeps the promise of Cooperative, but for its fairness: one task at
\* a time, undisturbed until it awaits, and on when what it awaits is done.
THEOREM RefinesCooperative ==
  ASSUME ~AwaitCancelled
  PROVE  AsyncioSpec => Coop!CoopSafety
  <1>1. IInv /\ [AsyncioNext]_asyncioVars => [Coop!CoopNext]_(Coop!coopVars)
    BY CoopStep
  <1>2. QED
    BY <1>1, CoopInitStep, AsyncioInv, PTL DEF AsyncioSpec, Coop!CoopSafety
=============================================================================
