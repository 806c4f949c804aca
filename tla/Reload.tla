------------------------------- MODULE Reload -------------------------------
(***************************************************************************)
(* Several instances of bot.py on one host.  An instance started with      *)
(* --reload lists the processes that run "python3.6 ./bot.py", spawns a    *)
(* "kill -9" for each of them but itself, and enters the polling loop; it  *)
(* does not wait for the kills.  An exception before the loop ends the     *)
(* coroutine, but client.run keeps the process, which ps still lists.      *)
(*                                                                         *)
(* A pid stands for one process: pids are not used again.  What else the   *)
(* listing holds (the grep that makes it, over by then) is left out.       *)
(***************************************************************************)
CONSTANT Pids          \* processes that may be started

VARIABLES st,          \* st[p]: how far process p is
          reloads,     \* reloads[p]: was p started with --reload
          targets,     \* targets[p]: pids p has still to send a kill to
          signals,     \* <<p, q>>: a kill of q that p has spawned, not yet run
          before,      \* history: the processes alive when p was started
          overlapped   \* history: was one started while another started up

vars == <<st, reloads, targets, signals, before, overlapped>>

\* "idle": the coroutine is over, the process is not.
States == {"none", "starting", "killing", "polling", "idle", "dead"}

Alive(p) == st[p] \in {"starting", "killing", "polling", "idle"}

Running == {p \in Pids : Alive(p)}

\* Instances that are starting up.
Underway == {p \in Pids : st[p] \in {"starting", "killing"}}

Init == /\ st = [p \in Pids |-> "none"]
        /\ reloads = [p \in Pids |-> FALSE]
        /\ targets = [p \in Pids |-> {}]
        /\ signals = {}
        /\ before = [p \in Pids |-> {}]
        /\ overlapped = FALSE

\* An operator types the command line.
Launch(p) == /\ st[p] = "none"
             /\ st' = [st EXCEPT ![p] = "starting"]
             /\ \E r \in BOOLEAN : reloads' = [reloads EXCEPT ![p] = r]
             /\ before' = [before EXCEPT ![p] = Running]
             /\ overlapped' = (overlapped \/ Underway # {})
             /\ UNCHANGED <<targets, signals>>

\* Mutant: the listing finds only the instances that poll.
ListPolling(p) == /\ st[p] = "starting"
                  /\ reloads[p]
                  /\ st' = [st EXCEPT ![p] = "killing"]
                  /\ targets' = [targets EXCEPT ![p] =
                                    {q \in Pids : st[q] = "polling"} \ {p}]
                  /\ UNCHANGED <<reloads, signals, before, overlapped>>

\* Mutant: the comparison with the process's own pid is left out.
ListItself(p) == /\ st[p] = "starting"
                 /\ reloads[p]
                 /\ st' = [st EXCEPT ![p] = "killing"]
                 /\ targets' = [targets EXCEPT ![p] = Running]
                 /\ UNCHANGED <<reloads, signals, before, overlapped>>

\* get_bot_pids.sh, and the test of each pid against os.getpid().
ListPids(p) == /\ st[p] = "starting"
               /\ reloads[p]
               /\ st' = [st EXCEPT ![p] = "killing"]
               /\ targets' = [targets EXCEPT ![p] = Running \ {p}]
               /\ UNCHANGED <<reloads, signals, before, overlapped>>

\* subprocess.Popen(['kill', '-9', pid]), not waited for.
SpawnKill(p) == /\ st[p] = "killing"
                /\ \E q \in targets[p] :
                      /\ targets' = [targets EXCEPT ![p] = @ \ {q}]
                      /\ signals' = signals \cup {<<p, q>>}
                /\ UNCHANGED <<st, reloads, before, overlapped>>

\* Mutant: the loop is entered before the last kill is spawned.
EnterEarly(p) == /\ \/ st[p] = "starting" /\ ~reloads[p]
                    \/ st[p] = "killing"
                 /\ st' = [st EXCEPT ![p] = "polling"]
                 /\ UNCHANGED <<reloads, targets, signals, before, overlapped>>

\* The first fetch has answered; the loop begins.
EnterLoop(p) == /\ \/ st[p] = "starting" /\ ~reloads[p]
                   \/ st[p] = "killing" /\ targets[p] = {}
                /\ st' = [st EXCEPT ![p] = "polling"]
                /\ UNCHANGED <<reloads, targets, signals, before, overlapped>>

\* An exception before the loop: the emojis, a greeting, Popen, the first
\* fetch.  Kills already spawned run all the same.
StartFails(p) == /\ st[p] \in {"starting", "killing"}
                 /\ st' = [st EXCEPT ![p] = "idle"]
                 /\ targets' = [targets EXCEPT ![p] = {}]
                 /\ UNCHANGED <<reloads, signals, before, overlapped>>

Dies(p) == /\ st' = [st EXCEPT ![p] = IF Alive(p) THEN "dead" ELSE @]
           /\ targets' = [targets EXCEPT ![p] = {}]

\* Mutant: a TERM signal, which an instance in its sleep does not obey.
KillPolite(p, q) == /\ <<p, q>> \in signals
                    /\ signals' = signals \ {<<p, q>>}
                    /\ IF st[q] = "polling" THEN UNCHANGED <<st, targets>>
                                            ELSE Dies(q)
                    /\ UNCHANGED <<reloads, before, overlapped>>

\* A spawned kill -9 runs; p itself may be gone by then, and so may q.
KillRuns(p, q) == /\ <<p, q>> \in signals
                  /\ signals' = signals \ {<<p, q>>}
                  /\ Dies(q)
                  /\ UNCHANGED <<reloads, before, overlapped>>

\* A crash of the process, or its orderly end.
Exits(p) == /\ Alive(p)
            /\ Dies(p)
            /\ UNCHANGED <<reloads, signals, before, overlapped>>

Next == \/ \E p \in Pids : \/ Launch(p) \/ ListPids(p) \/ SpawnKill(p)
                           \/ EnterLoop(p) \/ StartFails(p) \/ Exits(p)
        \/ \E p, q \in Pids : KillRuns(p, q)

Spec == Init /\ [][Next]_vars

\* An instance comes to the end of its start, one way or the other, and the
\* operating system runs the kills it has spawned.
FairSpec == /\ Spec
            /\ \A p \in Pids : WF_vars(\/ ListPids(p) \/ SpawnKill(p)
                                       \/ EnterLoop(p) \/ StartFails(p))
            /\ \A p, q \in Pids : WF_vars(KillRuns(p, q))
-----------------------------------------------------------------------------
\* Every variable has its type, and only an instance that is still spawning
\* kills has any left to spawn.
TypeOK == /\ st \in [Pids -> States]
          /\ reloads \in [Pids -> BOOLEAN]
          /\ targets \in [Pids -> SUBSET Pids]
          /\ signals \subseteq Pids \X Pids
          /\ before \in [Pids -> SUBSET Pids]
          /\ overlapped \in BOOLEAN
          /\ \A p \in Pids : st[p] # "killing" => targets[p] = {}

\* A reloaded instance replaces the others: once it polls and the kills it
\* spawned have run, no process started before it is left, whatever those
\* were doing, also while other instances are started, reload or fail.
ReloadReplaces ==
    \A p \in Pids :
        /\ st[p] = "polling" /\ reloads[p]
        /\ \A q \in Pids : <<p, q>> \notin signals
        => before[p] \cap Running = {}

\* The program says "Killing all previous bot instances": a reload kills
\* only processes that were there before it, never itself or a newer one.
OnlyPreviousKilled == \A p, q \in Pids : <<p, q>> \in signals => q \in before[p]

\* That is so as long as nobody starts an instance while another starts up,
\* whatever else fails, ends or is killed late.
SerialKillsPrevious == ~overlapped => OnlyPreviousKilled

\* A reload gets somewhere: either the instance itself is over, or every
\* process started before it ends and it polls alone of those.
ReloadCompletes ==
    \A p \in Pids : (st[p] = "killing")
        ~> \/ st[p] \in {"idle", "dead"}
           \/ st[p] = "polling" /\ before[p] \cap Running = {}
=============================================================================
