# Verification of NHL GameBreak Bot

TLA+ models of the bot that announces hockey goals in Discord channels, the TLC
configurations that check them on small instances, and TLAPS proofs of what
holds for every instance. The reference is the source in `src/`: the bot's
Python files, and, for what an `await` means, the asyncio of the interpreter
that is kept beside them. Line numbers below are of those files.

To repeat the work, in this directory: `tlc -config BotGuilds.cfg MCGameBreakBot.tla`
(and the other pairs in the table of runs), and `tlapm GameBreakBotProofs.tla`
(and the seven other `*Proofs.tla`).

## 1. The system

Two programs share a library and a Discord account, and nothing else: they do
not talk to each other, and persist nothing.

| Part | Source | State | Operations | Talks to |
|---|---|---|---|---|
| Notification loop | `bot.py` | `old_active_games`, `active_games`, the `reload` flag, where the coroutine stands | fetch, compare each game, post, commit, sleep; handle exceptions | the score API (request), the delivery part (await), the event loop |
| Reload | `bot.py` 50-59, `get_bot_pids.sh` | the processes of the host | list pids, spawn `kill -9` for each other one | the operating system |
| Game snapshot | `nhl_lib.py` | none | one answer of the API to a dict of games under way or over | the score API |
| What is announced | `bot.py` 84-187 | none | records of a game, old and new, to messages | the texts |
| Texts, lookups, settings | `nhl_gamebreak_lib.py` 17-191 | `nhl-settings.json`, read only | names, emojis, strings | the file |
| Delivery | `nhl_gamebreak_lib.py` 193-231 | none | choose guilds, cut in two, send | Discord (await) |
| Command server | `ai.py` 41-110 | none of its own; one task for each message | work out a reply, send it | Discord events, the `get_*` scripts |
| Console | `ai.py` 112-175 | `console_mode` | turn a line into a call of `on_message` | the terminal, the event loop |
| get scores, get schedule | `get_scores.py`, `get_schedule.py` | the text put together so far | one request to the score API, and for the schedule a second one to the league's API | both APIs, the clock |
| get standings | `get_standings.py` | none | one request, one table | the statistics API |
| Event loop and tasks | `Python-3.6.4/Modules/_asynciomodule.c`, `Lib/asyncio/base_events.py` | futures, tasks, the queue of handles | run, suspend, wake and cancel coroutines | every coroutine of both programs |
| PHF games | `nwhl_lib.py`, `phf/` | none | scrape a site | disabled in `get_active_games` |

What is hard about it:

- **The API moves while the loop awaits.** Several goals, a goal and its
  reversal, a whistle or a whole new day fall between two polls. The loop sees
  snapshots, readers see messages.
- **Failures in the middle of a round.** A round announces several games to
  several guilds, one request at a time. An exception anywhere abandons the
  round, keeps the old snapshot and goes round again, without a sleep, against a
  newer answer.
- **One event loop.** `time.sleep` and blocking requests keep everything else
  waiting; a request to close the client is served at an await or not at all.
- **Several instances.** `--reload` kills the other instances without waiting
  for the kills, and an instance whose coroutine is over is still a process.
- **Concurrent replies.** `on_message` is one task for each message, and the bot
  gets its own messages too. Console lines share one variable across an await.
- **Two services, one reply.** The schedule is made from two answers given at
  different times; games start and end in between, and the clocks are those of
  two time zones.
- **Cancellation.** Closing a client cancels what waits. A cancellation may race
  with the future a task waits for, and with the task's own end.

What would make each part correct:

- Loop: every message true and new; every guild told all it is owed, or the
  snapshot not given up; no invented goals; it catches up; it stops when asked.
- Reload: what was there before is gone; nothing else is.
- Delivery: nothing lost when a message is cut, halves that Discord accepts.
- Command server: it answers people, not itself; whole replies, in order.
- Console: `console_mode` is what it was before a command.
- Scores and schedule: today's games, each once, none missing.
- Standings: the division that was asked for.
- Series: the team that leads is the one named.
- Reload, seen by readers: each change is told by instances that saw it happen,
  and by the older ones no longer once the reload is complete.
- Event loop: one turn at a time, each await resumed once, when it is over.

## 2. The modules

| Module | Models | Lines about |
|---|---|---|
| `ScoreFeed` | the score API as an environment, and `get_nhl_active_games` | `nhl_lib.py` |
| `Announcements` | which messages the comparison of two records yields | `bot.py` 84-187 |
| `LiveTicker` | abstract: what a ticker promises its readers | none of its own |
| `GameBreakBot` | the loop, its failures, the closing of the client; composes the three above | `bot.py`, `send_discord_message` |
| `GoalLedger` | `GameBreakBot` with an account of goals over the whole night | history only |
| `ChannelView` | `GameBreakBot` with what a channel shows | history only |
| `Reload` | several processes of `bot.py` on one host | `bot.py` 30-67, `get_bot_pids.sh` |
| `Handover` | `Reload` with the polling loop of each process, against one API | `bot.py` 66-71, 189-194 |
| `ReplyServer` | the command server, and the console as a source of commands | `ai.py` 40-140 |
| `ScoresReport` | which games a reply to `get scores` or `get schedule` lists | `get_scores.py`, `get_schedule.py`, `nhl_gamebreak_lib.py` 20-31 |
| `Standings` | which divisions are printed, or that the request raises | `get_standings.py` 10-64 |
| `SeriesScore` | what is said of a playoff series | `nhl_gamebreak_lib.py` 175-189 |
| `MessageSplit` | the cut of a long message | `nhl_gamebreak_lib.py` 17-18, 196-225 |
| `Cooperative` | abstract: what a coroutine may rely on | none of its own |
| `AsyncioTask` | tasks, futures and the loop of asyncio | `_asynciomodule.c` 91-311, 988-1019, 1328-1357, 1589-1622, 1885-2368 |
| `MC*` | instances for TLC; `MCCommands` puts the four small models about commands side by side | |
| `*Proofs` | theorems and their proofs | |

### State and actions of `GameBreakBot`

`old`, `active` and `reload` are the variables of the same names; `pending` is
what the `for` over `active_games` has still to visit, `outbox` and `guilds` the
messages and recipients the two nested sends have still to go through, `pc` the
place in the coroutine. `stop` belongs to the client. `told` and `skipped` are
history: what each guild received since the last fetch, and which games a puck
drop's `break` left out.

| Action | Code |
|---|---|
| `Start`, `StartFails` | everything before the loop; an exception there ends the coroutine (197-199) |
| `LoopTest` | `while not client.is_closed()` (67) |
| `Fetch`, `FetchFails` | `get_active_games` (69), the test of `old_active_games` (70) |
| `PuckDrop(g)` | 74-85, with the `break` that ends the round's visits; the message names the teams and shows no score (`DropMessage`) |
| `Compare(g)` | 87-187: nothing due, or the messages of `Announcements!Messages` |
| `CompareFails(g)` | a KeyError: of a missing series score (100, 109), whether anything is due or not, or of a missing name while a text is written |
| `Post(gd)`, `PostFails(gd)`, `Posted` | the loop of `send_discord_message`; the request that raises may have arrived |
| `Raise` (inside the two failures) | 192-194: old snapshot kept, no sleep |
| `Commit`, `WakeUp` | 189, 190-191 |
| `RequestStop`, `CloseClient` | discord.py, around the coroutine |

The dict of games and that of guilds are visited in any order. A message is a
kind, a game, a team and the score shown. The overtime and shootout flags and
the start time are one value (`rest`), since the code asks of them only whether
any changed. The clock is the period and whether it shows "END". A game's key is
a model value: the next day may bring the same key again (`NextDay`).

`LiveTicker` has no `pc`: it observes, tells, excuses games in an attempt that
announces a puck drop, and advances its base snapshot. `GameBreakBot` maps `old`
to `base`, `active` to `snap`, `skipped` to `excused`. Advancing requires that
every guild has been told the change of score, the final and the end of period
that `base` and `snap` imply. The promise is at least once over attempts, and at
most once in each.

### The other modules

- `Reload`: a process is starting, killing, polling, idle (coroutine over,
  process alive: the outer `except` of 197 only prints) or dead. `ListPids` is
  `ps`, `SpawnKill` one `Popen`, `KillRuns` the kill at any later time, also
  after the death of its sender. Pids are not used again.
- `Handover`: what the API reports is the number of changes so far, and 0 an
  answer without games; `base[p]` is `old_active_games` of process `p`, `snap[p]`
  its `active_games`. `Fetch`, `Tell`, `Raise` and `Commit` are the round of
  `GameBreakBot` with messages reduced to the changes they tell. `Tell` announces
  any part of what separates the two snapshots, or nothing: the code passes over
  the games after a puck drop's `break` (85), a goal and its reversal between two
  polls (144), the goals of a game first seen under way (74-85) and changes after
  the final (144), and `GameBreakBot` and `ChannelView` say which. So `Handover`
  allows more than the code does, and its properties are about who may announce
  a change, never about one that is left out. A process that `Reload` lets die
  keeps what it had told.
- `ReplyServer`: `Receive` is `on_message` to its first await, or the exception
  of a get command; `Send` is one `channel.send`. A message is the words the code
  looks for, anywhere in the text and in the code's order (`Reply`, `Gets`). The
  console is one more source whose replies go to the channel of line 52; its
  tasks keep `old_console_mode` (`saved`) and restore it after their
  last half, a task that raises does not. Each channel belongs to one guild of
  the settings.
- `ScoresReport`: hours, games with a hour of start in UTC, and two services:
  `stats` is how far a game is for the league's API, `latest` how far for the
  score API, which follows it and later drops the game. `GetScores` and
  `GetSchedule` are the two requests with what is made of their answers; between
  them the clock ticks and games start, end and are dropped.
- `SeriesScore`: `GameWon` ends a game of the series and announces it; team 1 of
  the message is the away team of that game.
- `MessageSplit`: the message grows a character at a time, so that TLC visits
  every message; positions count from 0 as `find` gives them.
- `Standings`: a league is the sequence of its divisions. A name stands for all
  the names that contain it.
- `AsyncioTask`: `fut_state`, `fut_callbacks`, `fut_blocking`, `task_fut_waiter`
  and `task_must_cancel` are the fields of these names, `ready` and `ntodo` the
  queue of the loop and what is left of this pass. `RunStep` and `RunWakeup` are
  `task_step` and `task_wakeup` up to the call of the coroutine; what the
  coroutine then does is an action each, until one that gives up control
  (`AwaitPending`, `BareYield`, `BadYield`, `AwaitSelf`, `Return`, `Raise`,
  `RaiseCancelled`): the rest of `task_step_impl`. `suspended[t]` is the await the
  coroutine stands in. `Cancel(u, t)` is `u.cancel()`, followed through the tasks
  that wait for one another to the one, `t`, at which it ends. A plain future is
  a sleep or a read of a socket; its handle (`Timer`) comes due between passes.
  A task awaits only younger tasks, as a coroutine that creates what it waits
  for does, so no circle of awaits arises (but for a task that awaits itself,
  which the code refuses). `Cooperative` sees of it which futures are done, who
  has the turn, and who waits for what.

## 3. What is checked

| Run | Module, cfg | Properties | Distinct states |
|---|---|---|---|
| guilds | `MCGameBreakBot`, `BotGuilds` | `TypeOK`, `TickerSpec` | 1 010 000 |
| liveness | `MCGameBreakBot`, `BotLive` | `TickerSpec`, `CatchesUp`, `StopHonoured` | 102 000 |
| goal_ledger | `MCGoalLedger`, `Ledger` | `NoPhantomGoals` | 1 560 000 |
| channel_view | `MCChannelView`, `View` | `ChannelShowsScore` | 1 045 000 |
| reload | `MCReload`, `Reload` | `TypeOK`, `ReloadReplaces`, `SerialKillsPrevious`, `ReloadCompletes` | 83 000 |
| reload_mutual | `MCReload`, `ReloadMutual` | `OnlyPreviousKilled` is **violated** | |
| handover | `MCHandover`, `Handover` | `ToldByWitnesses`, `OldFallSilent` | 3 570 000 |
| replies | `MCReplyServer`, `Replies` | `TypeOK`, `AnswersPeople`, `HalvesInOrder`, `RepliesWhole`, `ModeRestored`, `Answered` | 36 300 |
| commands | `MCCommands`, `Commands` | `ReportTypeOK`, `CurrentScores`, `ListedOnce`, `NothingMissed`, `HalvesFit`, `NothingLost`, `RightWhenKnownFirst`, `SeriesLeaderNamed` | 600 000 |
| standings_help | `MCStandings`, `StandingsHelp` | `DivisionAskedFor` is **violated** | |
| asyncio | `MCAsyncioTask`, `Asyncio` | `AsyncioTypeOK`, `OneResumption`, `DoneWhenEnded`, `CancellationKept`, `AllEnd`, `CooperativeSpec` | 285 000 |
| asyncio_cancel | `MCAsyncioTask`, `AsyncioCancel` | `DoneWhenEnded` is **violated** | |

What they show:

- **TickerSpec** (refinement). No guild is told anything untrue or old, none is
  told the same thing twice in an attempt, and the old snapshot is given up only
  when all that is owed was told, whatever fails. What is excused are the games
  that the `break` at line 85 cuts off, and only in a round with a puck drop.
- **NoPhantomGoals.** Goal posts never outnumber goals plus abandoned attempts.
- **ChannelShowsScore.** Whenever the bot sleeps, a channel shows the score the
  bot will compare with, for each game it has ever spoken of. A puck drop is taken
  to say 0-0, which is all that it lets a reader conclude. The games that may
  differ are named, each by the rule that lets it: new in the snapshot without a
  word, first seen under way with goals (`LateDrops`: "Puck dropped!" is all that
  is posted), over before, cut off by a puck drop, or announced in an attempt that
  was abandoned, until the next message about it that shows a score. The second,
  the fourth and the last are weaknesses of the code: goals are never posted, a
  change is lost, and a goal overturned before the retry is never taken back.
- **CatchesUp, StopHonoured.** If posts fail finitely often the bot ends with
  the API's last data; a close is honoured although it must wait for an await.
- **ReloadReplaces, ReloadCompletes.** A reload gets rid of every process that
  was there, idle ones too. It kills only
  those as long as instances are started one at a time (**SerialKillsPrevious**),
  and others if not (**OnlyPreviousKilled**): the loop at `bot.py` 57 does not
  kill "all previous bot instances" (line 52) but all other ones. Two that reload
  together can kill each other.
- **ToldByWitnesses, OldFallSilent.** An instance announces only what happened
  after its first answer with games. So what falls between the end of one and the
  first answer of the next is never announced, nothing is repeated by a restart,
  and readers get a change twice only if two instances polled when it happened.
  Once a reload is complete the older instances announce nothing that happens
  later. That an instance announces all it saw is not claimed: it does not.
- **AnswersPeople, HalvesInOrder, RepliesWhole, Answered.** Replies may come
  between the halves of another, but neither steal, repeat nor reorder them, and
  an exception in one call costs no other its reply: a command that was read has
  its whole reply (**RepliesWhole**) or its own call is at work on it or raised,
  and in the end it has the reply or its call raised (**Answered**).
- **ModeRestored.** `console_mode` is right again after commands that neither
  overlap nor raise. Where they do, it may stay wrong for good: `ai.py` 117 is
  not in a `finally`.
- **CurrentScores.** `get scores` shows every game under way if the host is at
  least as far behind UTC as a game is long, and, after five in the morning, none
  of the day before if it is no more than five hours behind. `get_scores.py` 24
  compares an hour in UTC with a local one, which leaves room for both in the
  Eastern zone only (`bot.py` 13 and `ai.py` 13 set it).
- **ListedOnce, NothingMissed.** A reply to `get schedule` lists no game twice,
  and in the daytime misses one only if it had begun when the league was asked
  while the score API did not report it, not yet or no longer.
  The order of the requests matters: scores first.
- **SeriesLeaderNamed** says for which series the right team is named: all but
  the one that the home team of the last game has won, where line 185 has the
  losing away team "win series" with fewer games.
- **NothingLost.** The halves of a message are the message, but for the line
  break between them. One that is sent whole keeps its ASCII characters, in their
  order, and nothing else; the halves of one that is cut keep all (line 208 takes
  `message`, not the text encoded at 197).
- **HalvesFit.** Halves meet the limit when the message is at most twice the
  limit, plus one, less its longest line. The bound is tight. A table of
  standings of 32 rows of 115 characters (some 3 800 in all) meets it for the
  limit 1999; one or two more rows would not.
- **RightWhenKnownFirst** says exactly when the right division is printed, and
  **DivisionAskedFor** that the help text's promise (`ai.py` 78) fails for the
  NHL's divisions outside the season of 2021: the counter at `get_standings.py`
  36 and 39 is advanced twice past a division of unknown name.
- **OneResumption, DoneWhenEnded, CancellationKept, AllEnd.** A task that is not
  done is stepped by exactly one thing at any moment, one that is done by
  nothing; an accepted cancellation is on its way until the coroutine has it; and
  every task ends.
- **CooperativeSpec** (refinement). The turn is kept until an await, nothing is
  done behind its holder's back but by itself, and an await is resumed when, and
  only when, what it awaits is done. This is what the other modules assume when
  they make an action of the code between two awaits.
- **DoneWhenEnded is violated** (`asyncio_cancel`) if a coroutine that was
  cancelled while it ran awaits a task before it yields: line 2112 cancels that
  task as a plain future, so it is marked cancelled although its coroutine has
  not ended, and its next step fails with the assertion "already done".
  Neither program of the bot does this; the run `asyncio` and the theorems that need it say so by
  `AwaitCancelled = FALSE`.

Each property has a mutant of the code's model that violates it; the mutants
stand before the definitions they replace, marked "Mutant".

### Bounds

- `MaxScore`, `MaxPeriod`, `MaxEvents` bound the data of the API, not the bot.
  A change of score of one each way covers every branch of the `elif` chain;
  `guilds` has scores up to two and two periods, for two goals of one team
  between polls and for one "END" taken for another. `MaxRest` of one has the
  flags or the start time change and change back. Three to five changes
  suffice for a face-off, a goal, its reversal, and something in between.
- Two games are enough for one to be cut off by, or fail after, the other
  (`liveness` has both named, so that rounds can end); in
  `guilds` and `channel_view` the second is of a team without a name, in
  `goal_ledger` one whose series scores lack a team, so that a round can be lost
  at any point between posts. Four
  guilds are one of each sort (all leagues, NHL, another league, channel not
  found). The runs with histories use one guild, since a guild's history
  depends on the others' only through a post that fails, which fails here too.
- `MaxFailures` bounds the abandoned attempts in `GoalLedger`, whose counter
  they increase; the other runs let posts fail for ever.
- Three processes are the least in which a process is killed by another that
  was not there when it started, while a third is still doing it.
- Two instances suffice for a handover, and each may be the newer one; four
  changes are one before, between and after two snapshots, and one more.
- `MaxWrites` of two has two replies under way at once in one channel, one of
  them from the console, and a command echoed twice.
- A limit of four against nine characters has every position of the cut before,
  at and after the limit, and messages on both sides of the bound.
- The commands are asked for at any of 22 hours, from the evening on to the next
  afternoon, with an evening game, one that crosses midnight UTC and one of the
  next day; games last up to four hours, so that one is under way at five UTC,
  midnight local. Each hour is tried with each state of the games, and commands
  follow one another.
- Three tasks and a plain future have a task awaited by two others, a chain of
  three for a cancellation to pass along, and a cancellation from outside it. Six
  acts of coroutines are enough to create both others, have two of them wait, and
  cancel, with one act left; the loop's own steps and the ends of coroutines are
  not counted.

### Fairness

`FairSpec` of `GameBreakBot` assumes of the interpreter that it does not stop
between statements (weak fairness of each step), that a request ends in one way
or the other, that a fetch retried for ever succeeds at last (strong fairness of
`Fetch`: else the loop would spin for ever at 192, without an await), and that a
pending close is served if the coroutine keeps coming to an await (strong
fairness of `CloseClient`: discord.py schedules it on the same loop). That a
post succeeds is not assumed; `CatchesUp` names it as its hypothesis. For an
unnamed team neither liveness property is claimed: the round is repeated for
ever. `Reload` assumes that a start ends and a spawned kill runs, `ReplyServer`
that each task is run and each request ends. `AsyncioFairness` assumes that the
loop runs what is in its queue, that a sleep or a read ends, and that a coroutine
does not run for ever (`Leave`): without the last nothing could be said of the
others. Deadlock is not checked where the
system may stop: the coroutine ends, processes die, people stop writing, all
tasks are done.

## 4. What is proved

All for arbitrary games, guilds, settings, processes, tasks and bounds. The assumptions
are the named ones on the constants (`FeedBounds`, `GuildsOK`, and so on), and
those the table names.

| Theorem | Module | Says |
|---|---|---|
| `TypeCorrect` | `GameBreakBotProofs` | `Spec => []TypeOK` |
| `ImplementsTicker` | `GameBreakBotProofs` | `Spec => TickerSpec` |
| `ChannelShowsScoreEver` | `ChannelViewProofs` | `ViewSpec => []ChannelShowsScore` |
| `NoPhantomGoalsEver` | `GoalLedgerProofs` | `LedgerSpec => []NoPhantomGoals` |
| `ReloadTypeCorrect` | `HandoverProofs` | `Spec => []TypeOK` |
| `ReloadReplacesEver` | `HandoverProofs` | `Spec => []ReloadReplaces` |
| `SerialReloadKillsOlder` | `HandoverProofs` | `Spec => []SerialKillsPrevious` |
| `ToldByWitnessesEver` | `HandoverProofs` | `HandoverSpec => []ToldByWitnesses` |
| `OldFallSilentEver` | `HandoverProofs` | `HandoverSpec => []OldFallSilent` |
| `AsyncioTypeCorrect` | `AsyncioTaskProofs` | `AsyncioSpec => []AsyncioTypeOK` |
| `OneResumptionEver` | `AsyncioTaskProofs` | `AsyncioSpec => []OneResumption` |
| `SteppedWhenActiveEver` | `AsyncioTaskProofs` | `AsyncioSpec => []SteppedWhenActive` |
| `DoneWhenEndedEver` | `AsyncioTaskProofs` | `AsyncioSpec => []DoneWhenEnded` if `~AwaitCancelled` |
| `CancellationKeptEver` | `AsyncioTaskProofs` | `AsyncioSpec => []CancellationKept` if `~AwaitCancelled` |
| `RefinesCooperative` | `AsyncioTaskProofs` | `AsyncioSpec => Coop!CoopSafety` if `~AwaitCancelled` |
| `ReportTypeCorrect` | `CommandsProofs` | `ReportSpec => []ReportTypeOK` |
| `ListedOnceEver` | `CommandsProofs` | `ReportSpec => []ListedOnce` |
| `NothingMissedEver` | `CommandsProofs` | `ReportSpec => []NothingMissed` |
| `CurrentScoresEver` | `CommandsProofs` | `ReportSpec => []CurrentScores` |
| `HalvesFitEver` | `CommandsProofs` | `SplitSpec => []HalvesFit` |
| `NothingLostEver` | `CommandsProofs` | `SplitSpec => []NothingLost` |
| `RightWhenKnownFirstEver` | `CommandsProofs` | `StandingsSpec => []RightWhenKnownFirst` |
| `SeriesLeaderNamedEver` | `CommandsProofs` | `SeriesSpec => []SeriesLeaderNamed` |
| `ReplyTypeCorrect` | `ReplyServerProofs` | `Spec => []TypeOK` |
| `AnswersPeopleEver` | `ReplyServerProofs` | `Spec => []AnswersPeople` |
| `HalvesInOrderEver` | `ReplyServerProofs` | `Spec => []HalvesInOrder` |
| `RepliesWholeEver` | `ReplyServerProofs` | `Spec => []RepliesWhole` |
| `ModeRestoredEver` | `ReplyServerProofs` | `Spec => []ModeRestored` |

- `AnnouncementsProofs` has the lemmas about `Messages`: its shape (at most one
  goal or reversal, one final, one end, in this order), that each message is
  true of the new record, and that nothing owed is missing. The others rest on
  these and never open the comparison.
- `TypeOK` is not inductive: it does not say that a game still to visit is in
  the new snapshot, so that there is a record to compare. `Typed` adds that, and
  that the coroutine stands at a send exactly while messages are due.
- For the refinement, `RoundInv` states how far a round is, for each guild: what
  is still to be sent to it is true and unlike anything it was told; what it was
  told or will be is about games already visited; and all that is due for those
  is among it, but for the games a puck drop cut off. `Observe` is then what
  `Fetch` does, `Telling` is `Post` or a failed post that arrived, `Excuse` is a
  puck drop that leaves games out, `Advance` is `Commit`, and the rest stutters.
- For the ledger the invariant relates what a guild is credited with to the goals
  at the time of the old snapshot, of the new one, and now, and to the attempts
  cut short; one attempt adds at most one goal post for a game, and only if the
  score of the game grew between the snapshots.
- For the channels, `ViewInv` says what a channel shows in the middle of a round:
  the new score of the games already spoken of, the old one of the others. That a
  commit keeps it rests on the refinement: `Advance` has every change of score
  told. That an exception does rests on `Aborted`: a game that was spoken of and
  is not stale must have the same score in both snapshots. That a message puts
  right what was stale rests on `Sound`: it shows the score of the new snapshot,
  or is a puck drop, and then `LateDrops` has the game unless that score is 0-0.
- For the reload, `Chased` says that each process that was there before is on
  the instance's list, or has its kill under way, or is over; for the serial
  case `NoneNewer` says that nothing running is newer than what starts up.
  `Precedes` is needed for the first: a process to come is nobody's predecessor.
- `HInv` adds to `RInv` what the loops of the instances know: `Witnessed` (an
  instance was watching at every change it has told, and at every one after its
  old snapshot, or after its first if it has no old one) and `OldAreDead` (the processes older than an instance that was settled when
  something happened are dead, and told nothing of it). The dead stay dead, so
  a round of an old instance that is cut off never resumes.
- `ReportInv` keeps, from the first answer to the reply, what that answer allows
  to conclude after the games have moved on (`AnswerKept`, `LeftOutBegan`): the
  games it named are no longer to come, so the second answer cannot list them.
- `ReplyInv` says that each call under way, and each half sent, stands for a
  command that was read (`Answering`), that a command has one call at most,
  which has still to send what comes after all it has sent (`InOrder`), and,
  while console commands come one by one, that the only one under way has the
  mode to go back to (`ModeKnown`). `HalvesInOrder` and `ModeRestored` are not
  inductive without the calls' own state.
- `WholeInv` adds to `RepliesWhole` what a call in the middle of its reply has
  done (`Midway`): the parts before its own have arrived, and what it has left
  are the others, in order. A channel only grows, so what has arrived stays
  (`Longer`), and a message's reply is what it was when it was read.
- The models of the commands compute with the largest of a set, with counts and
  with a recursive function. `CommandsProofs` gets these from one fact, that the
  naturals are well founded under `<` (`WFMin`): a nonempty set of naturals has a
  least element, so a set that has 0 and the successor of what it has is all of
  them (`InductionOverSet`), a bounded set has a largest element (`MaxOfBounded`),
  and the function behind `Ascii` exists and keeps what it should
  (`KeepingExists`, `AsciiKeeps`).
- `HalvesFit`: between the cut and the limit there is no break, so the longest
  line is at least as long as from one to the other, and the second half, which is
  the rest of the message, is short. For the standings, the counter at an entry is
  its place less one, plus the unknown names before it (`DivisionIdOf`); it is the
  right position exactly if there are none.
- For asyncio none of the invariants is inductive. `IInv` counts, for each task,
  the places from which it may be stepped: `QueueOnce` (at most one handle),
  `CallbacksOnce` (at most one callback of at most one pending future) and
  `Placed` (one of running, queued, waiting, as long as it is not done);
  `CallbacksOK` and `WaitsOK` tie a callback to `task_fut_waiter` and to the
  await the coroutine stands in, `PlainBorn` and `QueueOK` keep handles and
  futures that do not exist yet apart, and `CancelOK` says where an accepted
  cancellation is. `OneResumption` is then a reading of `Placed`, and the
  refinement follows action by action: a handle of the queue is one of a future
  that is done, so that `RunWakeup` is `Resume`.
- `CancellationKeptEver`, `DoneWhenEndedEver` and `RefinesCooperative` assume
  `~AwaitCancelled` (the run `asyncio_cancel` shows why). Type correctness and
  `OneResumptionEver` do not: a task cancelled as a plain future keeps its handle
  or callback but takes nobody else's. `SteppedWhenActiveEver`, from which
  `DoneWhenEndedEver` follows, says that such tasks are the only ones that can be
  stepped when they are done: `Active` stands for "pending" throughout `IInv`,
  and is that as long as `AwaitCancelled` is false.

Only model-checked: `CatchesUp`, `StopHonoured`, `ReloadCompletes`, `Answered`,
`AllEnd` and the fairness of `CooperativeSpec`, since liveness is out of the
prover's reach. Every invariant of a passing run is proved, and so are the
refinements `TickerSpec` and, but for its fairness, `CooperativeSpec`.

## 5. What is not modelled, and the plan

Not modelled:

- Wording, emojis, scorers, strength of goals.
- `nwhl_lib.py`: disabled. `send_dm`: never called.
- The use of `console_mode`: its one reader also asks for `from_console`, which
  nobody passes. The terminal library (`asynccmd`) is not in the repository.
- Sorting and layout of the standings.
- `*.save`, `*.old`, `*.pyu`, sample data.
- The vendored interpreter, but for the tasks and futures of asyncio: some
  560 000 of the repository's 567 000 lines are Python 3.6.4 as published. The
  bot has no part in it, and the models above take its semantics for granted, so
  the share of all lines that is modelled is small by nature. The part that the
  other models rest on most, what an `await` is, is modelled and proved about.
- Of asyncio: `remove_done_callback` and callbacks that are plain functions (the
  bot registers none), futures of other classes, debug mode, `run_in_executor`,
  and the re-raise of a BaseException (2063-2067), which leaves the handle and
  stops the loop: neither program raises one inside a task but when it is
  interrupted, and then it ends.
- Time: the 30 seconds of sleep and the duration of requests have no length.

Known from reading, without a property of their own: `get scores tomorrow` puts
today's games under tomorrow's heading, since the score API is asked the same;
between midnight and five `get schedule` shows no scores; a schedule for a day
without games ends in an IndexError (`get_schedule.py` 13), which the model has
as a reply that fails.

Next:

1. The greeting as a step of `GameBreakBot`, and what a channel sees of it.
2. `Handover` on top of `GameBreakBot` itself, in place of its counts of changes:
   then it can be said which changes are lost in a handover and which are passed
   over by an instance that polls all along.
