--------------------------- MODULE HandoverProofs ---------------------------
(***************************************************************************)
(* Proofs about Reload, and about Handover, which runs the loop of every   *)
(* process on top of it: for any set of processes and number of changes.   *)
(***************************************************************************)
EXTENDS Handover, TLAPS

-----------------------------------------------------------------------------
(***************************************************************************)
(* The processes.                                                          *)
(***************************************************************************)
\* Nobody is born before it is launched.
Precedes == \A p \in Pids : /\ p \notin before[p]
                            /\ \A q \in before[p] : st[q] # "none"

\* A reloading instance has every process that was there before it on its
\* list, or has spawned its kill, or the process is over.
Chased == \A p \in Pids : \A q \in before[p] :
             reloads[p] /\ Alive(q) =>
                 /\ st[p] = "killing" => q \in targets[p] \/ <<p, q>> \in signals
                 /\ st[p] = "polling" => <<p, q>> \in signals

RInv == TypeOK /\ Precedes /\ Chased

\* The invariant holds before anything is launched.
LEMMA RInvInit == Init => RInv
  BY DEF Init, RInv, TypeOK, Precedes, Chased, States, Alive

\* Every step keeps the types.
LEMMA TypeKept == ASSUME TypeOK, [Next]_vars PROVE TypeOK'
<1> USE DEF TypeOK, States
<1>1. ASSUME NEW p \in Pids, Launch(p) PROVE TypeOK'
  BY <1>1 DEF Launch, Running
<1>2. ASSUME NEW p \in Pids, ListPids(p) PROVE TypeOK'
  BY <1>2 DEF ListPids, Running
<1>3. ASSUME NEW p \in Pids, SpawnKill(p) PROVE TypeOK'
  BY <1>3 DEF SpawnKill
<1>4. ASSUME NEW p \in Pids, EnterLoop(p) PROVE TypeOK'
  BY <1>4 DEF EnterLoop
<1>5. ASSUME NEW p \in Pids, StartFails(p) PROVE TypeOK'
  BY <1>5 DEF StartFails
<1>6. ASSUME NEW p \in Pids, Exits(p) PROVE TypeOK'
  BY <1>6 DEF Exits, Dies
<1>7. ASSUME NEW p \in Pids, NEW q \in Pids, KillRuns(p, q) PROVE TypeOK'
  BY <1>7 DEF KillRuns, Dies
<1>8. CASE UNCHANGED vars
  BY <1>8 DEF vars
<1> QED BY <1>1, <1>2, <1>3, <1>4, <1>5, <1>6, <1>7, <1>8 DEF Next

\* Every step keeps the order of birth.
LEMMA PrecedesKept == ASSUME TypeOK, Precedes, [Next]_vars PROVE Precedes'
<1> USE DEF TypeOK, States, Precedes
<1>1. ASSUME NEW p \in Pids, Launch(p) PROVE Precedes'
  BY <1>1 DEF Launch, Running, Alive
<1>2. ASSUME NEW p \in Pids, ListPids(p) PROVE Precedes'
  BY <1>2 DEF ListPids
<1>3. ASSUME NEW p \in Pids, SpawnKill(p) PROVE Precedes'
  BY <1>3 DEF SpawnKill
<1>4. ASSUME NEW p \in Pids, EnterLoop(p) PROVE Precedes'
  BY <1>4 DEF EnterLoop
<1>5. ASSUME NEW p \in Pids, StartFails(p) PROVE Precedes'
  BY <1>5 DEF StartFails
<1>6. ASSUME NEW p \in Pids, Exits(p) PROVE Precedes'
  BY <1>6 DEF Exits, Dies
<1>7. ASSUME NEW p \in Pids, NEW q \in Pids, KillRuns(p, q) PROVE Precedes'
  BY <1>7 DEF KillRuns, Dies
<1>8. CASE UNCHANGED vars
  BY <1>8 DEF vars
<1> QED BY <1>1, <1>2, <1>3, <1>4, <1>5, <1>6, <1>7, <1>8 DEF Next

\* Every step keeps the chase: the listing finds whatever was alive when the
\* instance was launched and still is, and a kill leaves signals only by
\* ending its process.
LEMMA ChasedKept == ASSUME TypeOK, Precedes, Chased, [Next]_vars PROVE Chased'
<1> USE DEF TypeOK, States, Precedes, Chased, Alive
<1>1. ASSUME NEW p \in Pids, Launch(p) PROVE Chased'
  BY <1>1 DEF Launch, Running
<1>2. ASSUME NEW p \in Pids, ListPids(p) PROVE Chased'
  BY <1>2 DEF ListPids, Running
<1>3. ASSUME NEW p \in Pids, SpawnKill(p) PROVE Chased'
  BY <1>3 DEF SpawnKill
<1>4. ASSUME NEW p \in Pids, EnterLoop(p) PROVE Chased'
  BY <1>4 DEF EnterLoop
<1>5. ASSUME NEW p \in Pids, StartFails(p) PROVE Chased'
  BY <1>5 DEF StartFails
<1>6. ASSUME NEW p \in Pids, Exits(p) PROVE Chased'
  BY <1>6 DEF Exits, Dies
<1>7. ASSUME NEW p \in Pids, NEW q \in Pids, KillRuns(p, q) PROVE Chased'
  BY <1>7 DEF KillRuns, Dies
<1>8. CASE UNCHANGED vars
  BY <1>8 DEF vars
<1> QED BY <1>1, <1>2, <1>3, <1>4, <1>5, <1>6, <1>7, <1>8 DEF Next

\* RInv is an invariant of any number of instances.
LEMMA RInvAlways == Spec => []RInv
<1>1. RInv /\ [Next]_vars => RInv'
  BY TypeKept, PrecedesKept, ChasedKept DEF RInv
<1> QED BY RInvInit, <1>1, PTL DEF Spec

\* Every variable keeps its type, and only an instance that is spawning kills
\* has any left (bot.py's start, its listing and its end).
THEOREM ReloadTypeCorrect == Spec => []TypeOK
<1>1. RInv => TypeOK
  BY DEF RInv
<1> QED BY RInvAlways, <1>1, PTL

\* A reload leaves none of the processes that were there before it, however
\* the starts and ends of any number of instances interleave (bot.py's
\* --reload branch).
THEOREM ReloadReplacesEver == Spec => []ReloadReplaces
<1>1. RInv => ReloadReplaces
  BY DEF RInv, TypeOK, Chased, ReloadReplaces, Running, Alive
<1> QED BY RInvAlways, <1>1, PTL

-----------------------------------------------------------------------------
\* While an instance starts up, nothing that runs is newer than it.
NoneNewer == \A p \in Pids :
                st[p] \in {"starting", "killing"} => Running \ {p} \subseteq before[p]

\* What an instance kills or is going to kill was there before it.
OnlyOlder == /\ \A p \in Pids : targets[p] \subseteq before[p]
             /\ \A p, q \in Pids : <<p, q>> \in signals => q \in before[p] /\ st[p] # "none"

SerialInv == TypeOK /\ (~overlapped => NoneNewer /\ OnlyOlder)

\* One at a time, every step keeps the order.
LEMMA SerialKept ==
    ASSUME SerialInv, [Next]_vars PROVE (~overlapped => NoneNewer /\ OnlyOlder)'
<1> DEFINE Goal == (~overlapped => NoneNewer /\ OnlyOlder)'
<1> USE DEF SerialInv, TypeOK, States, NoneNewer, OnlyOlder, Running, Alive
<1>1. ASSUME NEW p \in Pids, Launch(p) PROVE Goal
  <2>1. SUFFICES ASSUME ~overlapped' PROVE (NoneNewer /\ OnlyOlder)'
    OBVIOUS
  <2>2. ~overlapped /\ Underway = {}
    BY <1>1, <2>1 DEF Launch
  <2>3. \A q \in Pids : st[q] \notin {"starting", "killing"}
    BY <2>2 DEF Underway
  <2>4. NoneNewer'
    BY <1>1, <2>3 DEF Launch
  <2>5. OnlyOlder'
    BY <1>1, <2>2 DEF Launch
  <2> QED BY <2>4, <2>5
<1>2. ASSUME NEW p \in Pids, ListPids(p) PROVE Goal
  BY <1>2 DEF ListPids
<1>3. ASSUME NEW p \in Pids, SpawnKill(p) PROVE Goal
  BY <1>3 DEF SpawnKill
<1>4. ASSUME NEW p \in Pids, EnterLoop(p) PROVE Goal
  BY <1>4 DEF EnterLoop
<1>5. ASSUME NEW p \in Pids, StartFails(p) PROVE Goal
  BY <1>5 DEF StartFails
<1>6. ASSUME NEW p \in Pids, Exits(p) PROVE Goal
  BY <1>6 DEF Exits, Dies
<1>7. ASSUME NEW p \in Pids, NEW q \in Pids, KillRuns(p, q) PROVE Goal
  BY <1>7 DEF KillRuns, Dies
<1>8. CASE UNCHANGED vars
  BY <1>8 DEF vars
<1> QED BY <1>1, <1>2, <1>3, <1>4, <1>5, <1>6, <1>7, <1>8 DEF Next

\* As long as no instance is launched while another starts up, a reload
\* kills only processes that were there before it.
THEOREM SerialReloadKillsOlder == Spec => []SerialKillsPrevious
<1>1. Init => SerialInv
  BY DEF Init, SerialInv, TypeOK, NoneNewer, OnlyOlder, States, Running, Alive
<1>2. SerialInv /\ [Next]_vars => SerialInv'
  BY TypeKept, SerialKept DEF SerialInv
<1>3. SerialInv => SerialKillsPrevious
  BY DEF SerialInv, OnlyOlder, SerialKillsPrevious, OnlyPreviousKilled
<1> QED BY <1>1, <1>2, <1>3, PTL DEF Spec

-----------------------------------------------------------------------------
(***************************************************************************)
(* Their loops.                                                            *)
(***************************************************************************)
Phases == {"fetch", "round"}

HandoverTypeOK == /\ changes \in Nat
                  /\ base \in [Pids -> Nat]
                  /\ snap \in [Pids -> Nat]
                  /\ phase \in [Pids -> Phases]
                  /\ told \in [Pids -> SUBSET (1..changes)]
                  /\ witnesses \in Seq(SUBSET Pids)
                  /\ Len(witnesses) = changes
                  /\ settled \in Seq(SUBSET Pids)
                  /\ Len(settled) = changes
                  /\ \A p \in Pids : base[p] <= snap[p] /\ snap[p] <= changes

\* Up to this change an instance has nothing more to announce.
Since(p) == IF base[p] = 0 THEN snap[p] ELSE base[p]

\* What an instance has announced, and all it may come to announce, it has
\* witnessed; one that does not poll yet has seen nothing.
Witnessed == \A p \in Pids :
    /\ \A c \in told[p] : p \in witnesses[c]
    /\ Watching(p) => \A c \in (Since(p) + 1)..changes : p \in witnesses[c]
    /\ st[p] \notin {"polling", "dead"} => snap[p] = 0

\* Whatever was older than an instance settled at some change is dead.
OldAreDead == \A c \in DOMAIN settled : \A p \in settled[c] :
                 /\ st[p] # "none"
                 /\ \A q \in before[p] : st[q] = "dead" /\ c \notin told[q]

HInv == RInv /\ HandoverTypeOK /\ Witnessed /\ OldAreDead

\* The invariant holds before anything is launched.
LEMMA HInvInit == HandoverInit => HInv
<1> SUFFICES ASSUME HandoverInit PROVE HInv
  OBVIOUS
<1>1. RInv
  BY RInvInit DEF HandoverInit
<1>2. HandoverTypeOK
  BY DEF HandoverInit, HandoverTypeOK, Phases
<1>3. Witnessed
  BY DEF HandoverInit, Witnessed, Watching
<1>4. OldAreDead
  <2>1. Len(settled) = 0 /\ settled \in Seq(SUBSET Pids)
    BY DEF HandoverInit
  <2>2. DOMAIN settled = {}
    BY <2>1
  <2> QED BY <2>2 DEF OldAreDead
<1> QED BY <1>1, <1>2, <1>3, <1>4 DEF HInv

\* The dead stay dead: only what was never started is launched.
LEMMA DeadForGood ==
    ASSUME RInv, [Next]_vars, NEW q \in Pids, st[q] = "dead" PROVE st'[q] = "dead"
<1> USE DEF RInv, TypeOK, States, Alive
<1>1. ASSUME NEW p \in Pids, Launch(p) PROVE st'[q] = "dead"
  BY <1>1 DEF Launch
<1>2. ASSUME NEW p \in Pids, ListPids(p) PROVE st'[q] = "dead"
  BY <1>2 DEF ListPids
<1>3. ASSUME NEW p \in Pids, SpawnKill(p) PROVE st'[q] = "dead"
  BY <1>3 DEF SpawnKill
<1>4. ASSUME NEW p \in Pids, EnterLoop(p) PROVE st'[q] = "dead"
  BY <1>4 DEF EnterLoop
<1>5. ASSUME NEW p \in Pids, StartFails(p) PROVE st'[q] = "dead"
  BY <1>5 DEF StartFails
<1>6. ASSUME NEW p \in Pids, Exits(p) PROVE st'[q] = "dead"
  BY <1>6 DEF Exits, Dies
<1>7. ASSUME NEW p \in Pids, NEW r \in Pids, KillRuns(p, r) PROVE st'[q] = "dead"
  BY <1>7 DEF KillRuns, Dies
<1>8. CASE UNCHANGED vars
  BY <1>8 DEF vars
<1> QED BY <1>1, <1>2, <1>3, <1>4, <1>5, <1>6, <1>7, <1>8 DEF Next

\* Who was there before an instance does not change once it is started.
LEMMA BeforeKept ==
    ASSUME RInv, [Next]_vars, NEW p \in Pids, st[p] # "none" PROVE before'[p] = before[p]
<1> USE DEF RInv, TypeOK
<1>1. ASSUME NEW q \in Pids, Launch(q) PROVE before'[p] = before[p]
  BY <1>1 DEF Launch
<1>2. ASSUME NEW q \in Pids, \/ ListPids(q) \/ SpawnKill(q) \/ EnterLoop(q)
                             \/ StartFails(q) \/ Exits(q)
      PROVE before'[p] = before[p]
  BY <1>2 DEF ListPids, SpawnKill, EnterLoop, StartFails, Exits
<1>3. ASSUME NEW q \in Pids, NEW r \in Pids, KillRuns(q, r) PROVE before'[p] = before[p]
  BY <1>3 DEF KillRuns
<1>4. CASE UNCHANGED vars
  BY <1>4 DEF vars
<1> QED BY <1>1, <1>2, <1>3, <1>4 DEF Next

\* No process becomes one that was never started.
LEMMA StartedForGood ==
    ASSUME RInv, [Next]_vars, NEW p \in Pids, st[p] # "none" PROVE st'[p] # "none"
<1> USE DEF RInv, TypeOK
<1>1. ASSUME NEW q \in Pids, \/ Launch(q) \/ ListPids(q) \/ SpawnKill(q)
                             \/ EnterLoop(q) \/ StartFails(q) \/ Exits(q)
      PROVE st'[p] # "none"
  BY <1>1 DEF Launch, ListPids, SpawnKill, EnterLoop, StartFails, Exits, Dies
<1>2. ASSUME NEW q \in Pids, NEW r \in Pids, KillRuns(q, r) PROVE st'[p] # "none"
  BY <1>2 DEF KillRuns, Dies
<1>3. CASE UNCHANGED vars
  BY <1>3 DEF vars
<1> QED BY <1>1, <1>2, <1>3 DEF Next

\* Every step keeps the types.
LEMMA HandoverTyped ==
    ASSUME HInv, [HandoverNext]_handoverVars PROVE HandoverTypeOK'
<1> USE DEF HInv, HandoverTypeOK, Phases
<1>1. ASSUME Process PROVE HandoverTypeOK'
  BY <1>1 DEF Process, loops, observed
<1>2. ASSUME Change PROVE HandoverTypeOK'
  BY <1>2 DEF Change, loops
<1>3. ASSUME NEW p \in Pids, Fetch(p) PROVE HandoverTypeOK'
  BY <1>3 DEF Fetch, observed
<1>4. ASSUME NEW p \in Pids, Tell(p) PROVE HandoverTypeOK'
  <2>1. Due(p) \subseteq 1..changes
    BY DEF Due
  <2> QED BY <1>4, <2>1 DEF Tell, observed
<1>5. ASSUME NEW p \in Pids, Raise(p) PROVE HandoverTypeOK'
  BY <1>5 DEF Raise, observed
<1>6. ASSUME NEW p \in Pids, Commit(p) PROVE HandoverTypeOK'
  BY <1>6 DEF Commit, observed
<1>7. CASE UNCHANGED handoverVars
  BY <1>7 DEF handoverVars, loops, observed
<1> QED BY <1>1, <1>2, <1>3, <1>4, <1>5, <1>6, <1>7 DEF HandoverNext

\* Who polls did so before, or has just entered the loop; who is not over and
\* does not poll never did.
LEMMA PollingOnce ==
    ASSUME RInv, [Next]_vars, NEW q \in Pids
    PROVE  /\ st'[q] = "polling" => st[q] # "dead"
           /\ st'[q] \notin {"polling", "dead"} => st[q] \notin {"polling", "dead"}
<1> DEFINE Goal == /\ st'[q] = "polling" => st[q] # "dead"
                   /\ st'[q] \notin {"polling", "dead"} => st[q] \notin {"polling", "dead"}
<1> USE DEF RInv, TypeOK, States, Alive
<1>1. ASSUME NEW p \in Pids, Launch(p) \/ ListPids(p) \/ SpawnKill(p) PROVE Goal
  BY <1>1 DEF Launch, ListPids, SpawnKill
<1>2. ASSUME NEW p \in Pids, EnterLoop(p) \/ StartFails(p) PROVE Goal
  BY <1>2 DEF EnterLoop, StartFails
<1>3. ASSUME NEW p \in Pids, Exits(p) PROVE Goal
  BY <1>3 DEF Exits, Dies
<1>4. ASSUME NEW p \in Pids, NEW r \in Pids, KillRuns(p, r) PROVE Goal
  BY <1>4 DEF KillRuns, Dies
<1>5. CASE UNCHANGED vars
  BY <1>5 DEF vars
<1> QED BY <1>1, <1>2, <1>3, <1>4, <1>5 DEF Next

\* Every step keeps the witnesses: what an instance may come to announce it
\* sees happen, since the first snapshot bars it from what was before.
LEMMA WitnessedKept ==
    ASSUME HInv, [HandoverNext]_handoverVars PROVE Witnessed'
<1> USE DEF HInv, HandoverTypeOK, Phases, Witnessed, Watching, Since
<1>1. ASSUME Process PROVE Witnessed'
  <2>1. /\ [Next]_vars
        /\ UNCHANGED <<base, snap, phase, told, changes, witnesses, settled>>
    BY <1>1 DEF Process, loops, observed
  <2> QED BY <2>1, PollingOnce
<1>2. ASSUME Change PROVE Witnessed'
  <2> DEFINE now == {p \in Pids : Watching(p)}
  <2>1. /\ witnesses' = Append(witnesses, now) /\ changes' = changes + 1
        /\ UNCHANGED <<st, base, snap, told>>
    BY <1>2 DEF Change, vars, loops
  <2>2. /\ \A c \in 1..changes : witnesses'[c] = witnesses[c]
        /\ witnesses'[changes + 1] = now
    BY <2>1
  <2>3. \A p \in Pids : told[p] \subseteq 1..changes
    OBVIOUS
  <2>4. \A p \in Pids : Since(p) \in Nat
    OBVIOUS
  <2> HIDE DEF Since
  <2>5. ASSUME NEW p \in Pids, Watching(p), NEW c \in (Since(p) + 1)..(changes + 1)
        PROVE  p \in witnesses'[c]
    <3>1. c \in (Since(p) + 1)..changes \/ c = changes + 1
      BY <2>4
    <3>2. CASE c = changes + 1
      BY <2>2, <2>5, <3>2
    <3>3. CASE c \in (Since(p) + 1)..changes
      <4>1. c \in 1..changes
        BY <2>4, <3>3
      <4> QED BY <2>2, <2>5, <3>3, <4>1
    <3> QED BY <3>1, <3>2, <3>3
  <2>6. \A p \in Pids : Since(p)' = Since(p) /\ Watching(p)' = Watching(p)
    BY <2>1 DEF Since
  <2> QED BY <2>1, <2>2, <2>3, <2>5, <2>6
<1>3. ASSUME NEW p \in Pids, Fetch(p) PROVE Witnessed'
  BY <1>3 DEF Fetch, vars, observed
<1>4. ASSUME NEW p \in Pids, Tell(p) PROVE Witnessed'
  <2>1. Due(p) \subseteq {c \in 1..changes : p \in witnesses[c]}
    <3> SUFFICES ASSUME NEW c \in Due(p) PROVE c \in 1..changes /\ p \in witnesses[c]
      OBVIOUS
    <3>1. base[p] # 0 /\ c \in (base[p] + 1)..snap[p]
      BY DEF Due
    <3>2. Watching(p) /\ c \in (Since(p) + 1)..changes
      BY <1>4, <3>1 DEF Tell
    <3> QED BY <3>1, <3>2
  <2>2. PICK some \in SUBSET Due(p) : told' = [told EXCEPT ![p] = @ \cup some]
    BY <1>4 DEF Tell
  <2>3. UNCHANGED <<st, base, snap, changes, witnesses>>
    BY <1>4 DEF Tell, vars, observed
  <2>4. ASSUME NEW q \in Pids, NEW c \in told'[q] PROVE q \in witnesses[c]
    BY <2>1, <2>2
  <2> QED BY <2>3, <2>4
<1>5. ASSUME NEW p \in Pids, Raise(p) PROVE Witnessed'
  BY <1>5 DEF Raise, vars, observed
<1>6. ASSUME NEW p \in Pids, Commit(p) PROVE Witnessed'
  BY <1>6 DEF Commit, vars, observed
<1>7. CASE UNCHANGED handoverVars
  BY <1>7 DEF handoverVars, vars, loops, observed
<1> QED BY <1>1, <1>2, <1>3, <1>4, <1>5, <1>6, <1>7 DEF HandoverNext

\* Every step keeps the dead silent: a change that happens finds whatever was
\* older than a settled instance dead, and only the living announce.
LEMMA OldKept == ASSUME HInv, [HandoverNext]_handoverVars PROVE OldAreDead'
<1> USE DEF HInv, HandoverTypeOK, OldAreDead
<1>1. ASSUME Process PROVE OldAreDead'
  <2> SUFFICES ASSUME NEW c \in DOMAIN settled', NEW p \in settled'[c]
               PROVE /\ st'[p] # "none"
                     /\ \A q \in before'[p] : st'[q] = "dead" /\ c \notin told'[q]
    OBVIOUS
  <2>1. /\ Next /\ told' = told
        /\ c \in DOMAIN settled /\ p \in settled[c]
    BY <1>1 DEF Process, loops, observed
  <2>2. p \in Pids /\ st[p] # "none"
    BY <2>1
  <2>3. before'[p] = before[p] /\ before[p] \subseteq Pids
    BY <2>1, <2>2, BeforeKept DEF RInv, TypeOK
  <2> QED BY <2>1, <2>2, <2>3, StartedForGood, DeadForGood
<1>2. ASSUME Change PROVE OldAreDead'
  <2> DEFINE now == {p \in Pids : Settled(p)}
  <2>1. /\ settled' = Append(settled, now) /\ changes' = changes + 1
        /\ UNCHANGED <<st, before, told>>
    BY <1>2 DEF Change, vars, loops
  <2> SUFFICES ASSUME NEW c \in DOMAIN settled', NEW p \in settled'[c]
               PROVE /\ st[p] # "none"
                     /\ \A q \in before[p] : st[q] = "dead" /\ c \notin told[q]
    BY <2>1
  <2>2. CASE c \in DOMAIN settled
    BY <2>1, <2>2
  <2>3. CASE c \notin DOMAIN settled
    <3>1. c = changes + 1 /\ p \in now
      BY <2>1, <2>3
    <3>2. p \in Pids /\ st[p] = "polling" /\ reloads[p]
      BY <3>1 DEF Settled
    <3>3. \A q \in before[p] : q \in Pids /\ ~Alive(q) /\ st[q] # "none"
      BY <3>1, <3>2 DEF RInv, Chased, Settled, Precedes, TypeOK
    <3>4. \A q \in before[p] : st[q] = "dead"
      BY <3>3 DEF RInv, TypeOK, States, Alive
    <3>5. \A q \in before[p] : c \notin told[q]
      BY <3>1, <3>3
    <3> QED BY <3>2, <3>4, <3>5
  <2> QED BY <2>2, <2>3
<1>3. ASSUME NEW p \in Pids, Fetch(p) \/ Raise(p) \/ Commit(p) PROVE OldAreDead'
  <2>1. UNCHANGED <<st, before, settled, told>>
    BY <1>3 DEF Fetch, Raise, Commit, vars, observed
  <2> QED BY <2>1
<1>4. ASSUME NEW p \in Pids, Tell(p) PROVE OldAreDead'
  <2>1. /\ st[p] = "polling" /\ UNCHANGED <<st, before, settled>>
        /\ \A q \in Pids : q # p => told'[q] = told[q]
    BY <1>4 DEF Tell, vars, observed
  <2>2. ASSUME NEW c \in DOMAIN settled, NEW r \in settled[c], NEW q \in before[r]
        PROVE st[q] = "dead" /\ c \notin told'[q]
    <3>1. st[q] = "dead" /\ c \notin told[q] /\ q # p
      BY <2>1
    <3>2. q \in Pids
      <4>1. r \in Pids
        OBVIOUS
      <4> QED BY <4>1 DEF RInv, TypeOK
    <3> QED BY <2>1, <3>1, <3>2
  <2> QED BY <2>1, <2>2
<1>5. CASE UNCHANGED handoverVars
  BY <1>5 DEF handoverVars, loops, observed, vars
<1> QED BY <1>1, <1>2, <1>3, <1>4, <1>5 DEF HandoverNext

\* HInv is an invariant of any number of instances and changes.
LEMMA HInvAlways == HandoverSpec => []HInv
<1>1. ASSUME HInv, [HandoverNext]_handoverVars PROVE HInv'
  <2>1. [Next]_vars
    BY <1>1 DEF HandoverNext, Process, Change, Fetch, Tell, Raise, Commit, handoverVars
  <2>2. RInv'
    BY <1>1, <2>1, TypeKept, PrecedesKept, ChasedKept DEF HInv, RInv
  <2> QED BY <1>1, <2>2, HandoverTyped, WitnessedKept, OldKept DEF HInv
<1> QED BY HInvInit, <1>1, PTL DEF HandoverSpec

\* Whatever an instance announces happened while it was watching (bot.py 69,
\* 70, 189): nothing is announced that fell between two instances, and twice
\* only what two of them saw.
THEOREM ToldByWitnessesEver == HandoverSpec => []ToldByWitnesses
<1>1. HInv => ToldByWitnesses
  BY DEF HInv, Witnessed, ToldByWitnesses
<1> QED BY HInvAlways, <1>1, PTL

\* After a reload is complete, what was there before it announces nothing
\* that happens (bot.py 57-59).
THEOREM OldFallSilentEver == HandoverSpec => []OldFallSilent
<1>1. ASSUME HInv PROVE OldFallSilent
  <2>1. DOMAIN settled = 1..changes
    BY <1>1 DEF HInv, HandoverTypeOK
  <2> QED BY <1>1, <2>1 DEF HInv, OldAreDead, OldFallSilent
<1> QED BY HInvAlways, <1>1, PTL
=============================================================================
