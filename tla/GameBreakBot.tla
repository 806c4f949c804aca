---------------------------- MODULE GameBreakBot ----------------------------
(***************************************************************************)
(* The notification server of bot.py: one coroutine that polls the score   *)
(* API, compares the new snapshot with the previous one and posts what     *)
(* changed to the Discord channels, with the API (ScoreFeed) moving on     *)
(* underneath, requests that fail at every place they can, and a request   *)
(* to stop that the event loop serves only while the coroutine awaits.     *)
(*                                                                         *)
(* Iterating over a dict is modelled by visiting the games in any order,   *)
(* and the guilds of the settings in any order.                            *)
(***************************************************************************)
EXTENDS ScoreFeed, Announcements

CONSTANTS Guilds,      \* settings.guilds of nhl-settings.json
          Leagues,     \* Leagues[gd]: the "leagues" setting of guild gd
          NoChannel,   \* guilds whose channel get_channel does not find
          Unnamed,     \* games of a team missing from nhl-settings.json
          NoSeries     \* playoff games whose "playoffSeries" lacks a team

ASSUME GuildsOK == /\ Leagues \in [Guilds -> {"all", "nhl", "phf"}]
                   /\ NoChannel \subseteq Guilds

VARIABLES
    pc,        \* where the coroutine start_main_loop stands
    old,       \* old_active_games
    active,    \* active_games
    pending,   \* games the loop over active_games has still to visit
    outbox,    \* messages due for the game being visited, in order
    guilds,    \* guilds still to receive the first message of outbox
    reload,    \* the reload flag
    stop,      \* has closing the client been asked for, has it been closed
    told,      \* history: told[gd] is what gd has received since the fetch
    skipped    \* history: games left out by the break after a puck drop

botVars == <<pc, old, active, pending, outbox, guilds, reload>>
history == <<told, skipped>>
vars == <<feedVars, botVars, stop, history>>

Points == {"start", "head", "fetch", "scan", "send", "yield", "done", "dead"}

\* The event loop runs other callbacks: start_main_loop awaits or is over.
LoopFree == pc \in {"start", "send", "yield", "done", "dead"}

\* Where send_discord_message really delivers a message of the NHL.
Recipients == {gd \in Guilds : Leagues[gd] \in {"all", "nhl"}} \ NoChannel

NothingTold == [gd \in Recipients |-> {}]

MessageRecord == [kind : Kinds, game : Games, team : Teams,
                  away : Nat, home : Nat]

-----------------------------------------------------------------------------
Init == /\ FeedInit
        /\ pc = "start"
        /\ old = [g \in {} |-> Scheduled]
        /\ active = [g \in {} |-> Scheduled]
        /\ pending = {}
        /\ outbox = <<>>
        /\ guilds = {}
        /\ reload \in BOOLEAN
        /\ stop = "no"
        /\ told = NothingTold
        /\ skipped = {}

\* The greetings (unless reloading) and the first fetch, whose answer is
\* overwritten before it is used.
Start == /\ pc = "start"
         /\ pc' = "head"
         /\ UNCHANGED <<feedVars, old, active, pending, outbox, guilds, reload,
                        stop, history>>

\* Any exception before the loop ends the coroutine for good.
StartFails == /\ pc = "start"
              /\ pc' = "dead"
              /\ UNCHANGED <<feedVars, old, active, pending, outbox, guilds,
                             reload, stop, history>>

\* Mutant: while True.
LoopForever == /\ pc = "head"
               /\ pc' = "fetch"
               /\ UNCHANGED <<feedVars, old, active, pending, outbox, guilds,
                              reload, stop, history>>

\* while not client.is_closed()
LoopTest == /\ pc = "head"
            /\ pc' = IF stop = "closed" THEN "done" ELSE "fetch"
            /\ UNCHANGED <<feedVars, old, active, pending, outbox, guilds,
                           reload, stop, history>>

\* Mutant: a snapshot once fetched is used again.
FetchOnce == /\ pc = "fetch"
             /\ active' = IF DOMAIN active = {} THEN ActiveGames(feed) ELSE active
             /\ pending' = IF DOMAIN old = {} THEN {} ELSE DOMAIN active'
             /\ pc' = "scan"
             /\ told' = NothingTold
             /\ skipped' = {}
             /\ UNCHANGED <<feedVars, old, outbox, guilds, reload, stop>>

\* The new snapshot; with no previous one there is nothing to visit.
Fetch == /\ pc = "fetch"
         /\ active' = ActiveGames(feed)
         /\ pending' = IF DOMAIN old = {} THEN {} ELSE DOMAIN active'
         /\ pc' = "scan"
         /\ told' = NothingTold
         /\ skipped' = {}
         /\ UNCHANGED <<feedVars, old, outbox, guilds, reload, stop>>

\* The request, the decoding or a malformed game raises: no await, no sleep.
FetchFails == /\ pc = "fetch"
              /\ pc' = "head"
              /\ UNCHANGED <<feedVars, old, active, pending, outbox, guilds,
                             reload, stop, history>>

\* not game in old_active_games and score["state"] == "LIVE" and not reload
DropDue(g) == g \notin DOMAIN old /\ active[g].state = "LIVE" /\ ~reload

\* The puck drop is posted, then a break leaves the games not yet visited.
PuckDrop(g) == /\ pc = "scan"
               /\ g \in pending
               /\ DropDue(g)
               /\ outbox' = <<DropMessage(g)>>
               /\ guilds' = Recipients
               /\ pc' = "send"
               /\ skipped' = pending \ {g}
               /\ pending' = {}
               /\ UNCHANGED <<feedVars, old, active, reload, stop, told>>

\* What is due for game g, if the previous snapshot has it.
Due(g) == IF g \in DOMAIN old THEN Messages(g, old[g], active[g]) ELSE <<>>

\* What raises a KeyError: the series score of a team, which is looked up
\* whether something is due or not, and get_name, while a text is written.
Unwritable(g) == \/ g \in DOMAIN old /\ g \in NoSeries
                 \/ Due(g) # <<>> /\ g \in Unnamed

\* A game for which nothing is due, or some messages that can be written.
Compare(g) == /\ pc = "scan"
              /\ g \in pending
              /\ ~DropDue(g)
              /\ ~Unwritable(g)
              /\ outbox' = Due(g)
              /\ pc' = IF Due(g) = <<>> THEN "scan" ELSE "send"
              /\ guilds' = IF Due(g) = <<>> THEN {} ELSE Recipients
              /\ reload' = FALSE
              /\ pending' = pending \ {g}
              /\ UNCHANGED <<feedVars, old, active, stop, history>>

\* Mutant: the new snapshot becomes the old one after an exception, too.
RaiseAndCommit == /\ pc' = "head"
                  /\ outbox' = <<>>
                  /\ guilds' = {}
                  /\ pending' = {}
                  /\ old' = active
                  /\ UNCHANGED <<feedVars, active, stop, skipped>>

\* The handler of every exception of an iteration: print and go round again,
\* the previous snapshot kept.
Raise == /\ pc' = "head"
         /\ outbox' = <<>>
         /\ guilds' = {}
         /\ pending' = {}
         /\ UNCHANGED <<feedVars, old, active, stop, skipped>>

\* A team's entry is missing: nothing has been posted of this game.
CompareFails(g) == /\ pc = "scan"
                   /\ g \in pending
                   /\ ~DropDue(g)
                   /\ Unwritable(g)
                   /\ reload' = FALSE
                   /\ Raise
                   /\ UNCHANGED told

Deliver(gd) == told' = [told EXCEPT ![gd] = @ \cup {Head(outbox)}]

\* channel.send of the message to one guild's channel.
Post(gd) == /\ pc = "send"
            /\ gd \in guilds
            /\ Deliver(gd)
            /\ guilds' = guilds \ {gd}
            /\ UNCHANGED <<feedVars, pc, old, active, pending, outbox, reload,
                           stop, skipped>>

\* channel.send raises: guilds before this one have the message, those after
\* it do not, and this one may (the answer was lost) or may not.
PostFails(gd) == /\ pc = "send"
                 /\ gd \in guilds
                 /\ Deliver(gd) \/ UNCHANGED told
                 /\ UNCHANGED reload
                 /\ Raise

\* Mutant: the next message goes to the guilds of every league.
PostedToAll == /\ pc = "send"
               /\ guilds = {}
               /\ outbox' = Tail(outbox)
               /\ pc' = IF Tail(outbox) = <<>> THEN "scan" ELSE "send"
               /\ guilds' = IF Tail(outbox) = <<>> THEN {} ELSE Guilds
               /\ UNCHANGED <<feedVars, old, active, pending, reload, stop, history>>

\* The message has gone to every guild: the next one, or the next game.
Posted == /\ pc = "send"
          /\ guilds = {}
          /\ outbox' = Tail(outbox)
          /\ pc' = IF Tail(outbox) = <<>> THEN "scan" ELSE "send"
          /\ guilds' = IF Tail(outbox) = <<>> THEN {} ELSE Recipients
          /\ UNCHANGED <<feedVars, old, active, pending, reload, stop, history>>

\* old_active_games = active_games, then the sleep.
Commit == /\ pc = "scan"
          /\ pending = {}
          /\ old' = active
          /\ pc' = "yield"
          /\ UNCHANGED <<feedVars, active, pending, outbox, guilds, reload, stop,
                         history>>

WakeUp == /\ pc = "yield"
          /\ pc' = "head"
          /\ UNCHANGED <<feedVars, old, active, pending, outbox, guilds, reload,
                         stop, history>>

-----------------------------------------------------------------------------
(***************************************************************************)
(* Around the coroutine: a signal or the gateway asks for the client to be *)
(* closed, at any time; the event loop can do it only at an await.         *)
(***************************************************************************)
RequestStop == /\ stop = "no"
               /\ stop' = "requested"
               /\ UNCHANGED <<feedVars, botVars, history>>

CloseClient == /\ stop = "requested"
               /\ LoopFree
               /\ stop' = "closed"
               /\ UNCHANGED <<feedVars, botVars, history>>

FeedStep == FeedNext /\ UNCHANGED <<botVars, stop, history>>

Scan == \E g \in Games : PuckDrop(g) \/ Compare(g) \/ CompareFails(g)

Next == \/ FeedStep
        \/ Start \/ StartFails
        \/ LoopTest
        \/ Fetch \/ FetchFails
        \/ Scan
        \/ \E gd \in Guilds : Post(gd) \/ PostFails(gd)
        \/ Posted
        \/ Commit \/ WakeUp
        \/ RequestStop \/ CloseClient

Spec == Init /\ [][Next]_vars

(***************************************************************************)
(* Fairness: the interpreter does not stop between two statements, a       *)
(* request ends one way or the other, a fetch that is retried for ever     *)
(* succeeds at last, and the loop serves a pending close at some await if  *)
(* the coroutine keeps awaiting.  That a post succeeds is not assumed.     *)
(***************************************************************************)
Fairness == /\ WF_vars(Start \/ StartFails)
            /\ WF_vars(LoopTest)
            /\ WF_vars(Fetch \/ FetchFails) /\ SF_vars(Fetch)
            /\ WF_vars(Scan)
            /\ WF_vars(\E gd \in Guilds : Post(gd) \/ PostFails(gd))
            /\ WF_vars(Posted)
            /\ WF_vars(Commit)
            /\ WF_vars(WakeUp)
            /\ SF_vars(CloseClient)

FairSpec == Spec /\ Fairness
-----------------------------------------------------------------------------
(***************************************************************************)
(* Properties.                                                             *)
(***************************************************************************)

\* Every variable holds what bot.py can put in it: the two snapshots hold
\* only games under way or over, and only guilds the settings subscribe to
\* the NHL, with a channel, are ever addressed.
TypeOK == /\ FeedTypeOK
          /\ pc \in Points
          /\ IsSnapshot(old) /\ IsSnapshot(active)
          /\ pending \subseteq Games
          /\ outbox \in Seq(MessageRecord)
          /\ guilds \subseteq Recipients
          /\ reload \in BOOLEAN
          /\ stop \in {"no", "requested", "closed"}
          /\ told \in [Recipients -> SUBSET MessageRecord]
          /\ skipped \subseteq Games

Ticker == INSTANCE LiveTicker WITH Guilds <- Recipients, Records <- GameRecord,
                                   base <- old, snap <- active,
                                   excused <- skipped

\* The bot implements the live ticker: every message is true of the newest
\* snapshot and new since the last one committed, no guild gets the same
\* message twice between two fetches, and the previous snapshot is given up
\* only when every guild has been told every goal, final score and end of
\* period that separates the two, but for the games that a puck drop cut
\* off, however the requests fail and the API moves on in between.
TickerSpec == Ticker!TickerSpec

\* If posts fail only finitely often, the bot ends up having compared the
\* last of the API's data: its memory cannot stay behind, or be lost in an
\* endless retry.  (The API's data changes MaxEvents times at most.)
CatchesUp == <>[][~ \E gd \in Guilds : PostFails(gd)]_vars
                => <>[](pc \in {"done", "dead"} \/ old = ActiveGames(feed))

\* A request to close the client ends the loop, although it can be served
\* only at an await, and a failing fetch goes round without one.
StopHonoured == (stop = "requested") ~> (pc \in {"done", "dead"})
=============================================================================
