---------------------------- MODULE ReplyServer ----------------------------
(***************************************************************************)
(* The command server of ai.py.  Every message of every channel, the bot's *)
(* own included, and every line typed at the console becomes a call of     *)
(* on_message; discord.py runs the calls as tasks of one event loop.  A    *)
(* call writes its whole reply before its first await, and then sends it   *)
(* in one or two halves, each an await at which other calls go on.         *)
(*                                                                         *)
(* A text is abstracted to the words the code looks for: "chat" is any     *)
(* text without the "!nhl" prefix, and every other text carries it.  The   *)
(* reply to "get standings" is split in two, any other is not; "nowhere"   *)
(* stands for a command whose reply is for no channel: with "onlyconsole", *)
(* or with a channel= option, whose id stays a string and equals none.     *)
(*                                                                         *)
(* A console line becomes a task of its own: run_until_complete creates it *)
(* before it finds the loop running, and do_nhl passes over the exception. *)
(* The task sets console_mode, runs on_message and sets it back.           *)
(***************************************************************************)
EXTENDS Integers, Sequences

CONSTANTS Channels,    \* channels the bot can read
          Configured,  \* those the settings name for a guild, and it can find
          Home,        \* the channel that console replies are meant for
          Console,     \* the terminal, as one more source of messages
          Texts,       \* what people write
          MaxWrites    \* bound: how often people write

ASSUME ChannelsOK == /\ Configured \subseteq Channels
                     /\ Home \in Channels
                     /\ Console \notin Channels
                     /\ MaxWrites \in Nat

Words == {"chat", "echo", "hello", "get", "scores", "standings", "nowhere"}

ASSUME TextsOK == Texts \subseteq Seq(Words) \ {<<>>}

VARIABLES log,         \* log[src]: the messages of a channel or the console
          seen,        \* seen[src]: how many of them on_message was called for
          tasks,       \* calls of on_message that are sending their reply
          mode,        \* console_mode
          writes,      \* how often people have written
          failed,      \* history: the messages whose call raised
          overlapped   \* history: did two console commands overlap

vars == <<log, seen, tasks, mode, writes, failed, overlapped>>

Sources == Channels \cup {Console}

Chat == <<"chat">>

Init == /\ log = [src \in Sources |-> <<>>]
        /\ seen = [src \in Sources |-> 0]
        /\ tasks = {}
        /\ mode = TRUE
        /\ writes = 0
        /\ failed = {}
        /\ overlapped = FALSE

\* show: the console_mode a console command runs with.
Entry(by, text, show, re, part) ==
    [by |-> by, text |-> text, show |-> show, re |-> re, part |-> part]

\* Someone writes in a channel, or types "nhl" or "noconsole nhl" and a
\* command at the console.
Write(src, text) ==
    /\ writes < MaxWrites
    /\ src = Console => Head(text) # "chat"
    /\ writes' = writes + 1
    /\ \E show \in IF src = Console THEN BOOLEAN ELSE {TRUE} :
          log' = [log EXCEPT ![src] = Append(@, Entry("person", text, show, <<>>, 0))]
    /\ UNCHANGED <<seen, tasks, mode, failed, overlapped>>

-----------------------------------------------------------------------------
Has(text, word) == \E i \in DOMAIN text : text[i] = word

\* The commands are looked for anywhere in the text, and in this order.
Gets(text) == Has(text, "get") /\ ~Has(text, "echo") /\ ~Has(text, "hello")

\* The reply to a command, cut into what send_discord_message sends: an echo
\* leaves out the first word, whichever that is.
Reply(text) == CASE Has(text, "echo")             -> <<Tail(text)>>
                 [] text = <<"get", "standings">> -> <<Chat, Chat>>
                 [] OTHER                         -> <<Chat>>

\* Where the reply is meant to go.
Target(src) == IF src = Console THEN Home ELSE src

\* Mutant: the test of the author is left out.
AnswersAnyone(e) == Head(e.text) # "chat"

\* "we do not want the bot to reply to itself", and only to commands.
Answers(e) == e.by = "person" /\ Head(e.text) # "chat"

\* Mutant: the reply goes to the channel of the message, settings or not.
ReachesAnywhere(src, e) == /\ ~Has(e.text, "nowhere")
                           /\ e.text # <<"echo">>

\* The settings name the channel, and no option diverts the reply; an empty
\* one is not sent.
Reaches(src, e) == /\ Target(src) \in Configured
                   /\ ~Has(e.text, "nowhere")
                   /\ e.text # <<"echo">>

\* Can the reply to a text fail to be written, and must it: a get command's
\* requests may raise, and "!nhl get" alone has no word at echo_split.
Raises(text) == CASE ~Gets(text)      -> {FALSE}
                  [] text = <<"get">> -> {TRUE}
                  [] OTHER            -> BOOLEAN

\* saved: old_console_mode, what a console command is going to restore.
Task(src, n) == [at |-> Target(src), re |-> <<src, n>>, part |-> 1, saved |-> mode,
                 left |-> Reply(log[src][n].text)]

\* The calls that are going to send something for message n of src.
Calls(src, n) == LET e == log[src][n]
                 IN IF Answers(e) /\ Reaches(src, e)
                    THEN {Task(src, n)} ELSE {}

OfConsole(ts) == {t \in ts : t.re[1] = Console}

\* A call that raises, or waits for its request, leaves console_mode as the
\* command wants it; any other has restored it.
Called(src, n, others, new, raised) ==
    /\ tasks' = others \cup new
    /\ failed' = IF raised THEN failed \cup {<<src, n>>} ELSE failed
    /\ mode' = IF src = Console /\ (raised \/ new # {}) THEN log[src][n].show ELSE mode
    /\ overlapped' = (overlapped \/ (src = Console /\ OfConsole(tasks) # {}))

\* Mutant: the reply is kept in a variable shared by all the channels' calls.
ReceiveShared(src) ==
    LET n == seen[src] + 1
    IN /\ seen[src] < Len(log[src])
       /\ seen' = [seen EXCEPT ![src] = n]
       /\ \E raised \in Raises(log[src][n].text) :
             LET new == IF raised THEN {} ELSE Calls(src, n)
             IN Called(src, n, IF new = {} THEN tasks ELSE OfConsole(tasks), new, raised)
       /\ UNCHANGED <<log, writes>>

\* on_message, up to its first await.
Receive(src) ==
    LET n == seen[src] + 1
    IN /\ seen[src] < Len(log[src])
       /\ seen' = [seen EXCEPT ![src] = n]
       /\ \E raised \in Raises(log[src][n].text) :
             Called(src, n, tasks, IF raised THEN {} ELSE Calls(src, n), raised)
       /\ UNCHANGED <<log, writes>>

Posted(t) == [log EXCEPT ![t.at] =
                 Append(@, Entry("bot", Head(t.left), TRUE, t.re, t.part))]

IsLast(t) == Len(t.left) = 1

\* Mutant: the call does not come back to run_command.
NeverRestored(t) == mode

\* console_mode when a call has sent its last half.
Restored(t) == IF IsLast(t) /\ t \in OfConsole(tasks) THEN t.saved ELSE mode

\* Mutant: the halves are sent by two tasks, neither waiting for the other.
SendEither(t) ==
    /\ t \in tasks
    /\ \E i \in DOMAIN t.left :
         /\ log' = [log EXCEPT ![t.at] =
                       Append(@, Entry("bot", t.left[i], TRUE, t.re, t.part + i - 1))]
         /\ tasks' = (tasks \ {t}) \cup
               IF IsLast(t) THEN {}
               ELSE {[t EXCEPT !.left = Tail(@), !.part = IF i = 1 THEN 2 ELSE 1]}
    /\ mode' = Restored(t)
    /\ UNCHANGED <<seen, writes, failed, overlapped>>

\* Mutant: a second half is sent only where there is no first (elif).
SendElse(t) == /\ t \in tasks
               /\ log' = Posted(t)
               /\ tasks' = tasks \ {t}
               /\ mode' = IF t \in OfConsole(tasks) THEN t.saved ELSE mode
               /\ UNCHANGED <<seen, writes, failed, overlapped>>

\* channel.send of the next half.
Send(t) == /\ t \in tasks
           /\ log' = Posted(t)
           /\ tasks' = (tasks \ {t}) \cup
                 IF IsLast(t) THEN {}
                 ELSE {[t EXCEPT !.left = Tail(@), !.part = @ + 1]}
           /\ mode' = Restored(t)
           /\ UNCHANGED <<seen, writes, failed, overlapped>>

\* channel.send raises, and ends the call: the half may have arrived.
SendFails(t) == /\ t \in tasks
                /\ tasks' = tasks \ {t}
                /\ log' = Posted(t) \/ UNCHANGED log
                /\ failed' = failed \cup {t.re}
                /\ UNCHANGED <<seen, mode, writes, overlapped>>

Next == \/ \E src \in Sources, text \in Texts : Write(src, text)
        \/ \E src \in Sources : Receive(src)
        \/ \E t \in tasks : Send(t) \/ SendFails(t)

Spec == Init /\ [][Next]_vars

\* The event loop runs every call, and every request ends.
FairSpec == /\ Spec
            /\ \A src \in Sources : WF_vars(Receive(src))
            /\ WF_vars(\E t \in tasks : Send(t) \/ SendFails(t))
-----------------------------------------------------------------------------
\* Logs hold people's texts and halves of replies, and only channels of the
\* settings have a reply under way.
TypeOK == /\ \A src \in Sources : \A i \in DOMAIN log[src] :
                log[src][i] \in [by : {"person", "bot"}, text : Seq(Words), show : BOOLEAN,
                                 re : {<<>>} \cup (Sources \X Nat), part : 0..2]
          /\ seen \in [Sources -> Nat]
          /\ \A t \in tasks : t.at \in Configured /\ t.left # <<>>
          /\ mode \in BOOLEAN /\ overlapped \in BOOLEAN
          /\ writes \in 0..MaxWrites
          /\ failed \subseteq Sources \X Nat

\* What the bot has said, in the order of the channel.
Said(ch) == {i \in DOMAIN log[ch] : log[ch][i].by = "bot"}

\* The bot never replies to itself: whatever it says answers a command that
\* a person has given before, in that channel or, for the console, meant
\* for it.  It may well echo a command of its own.
AnswersPeople ==
    \A ch \in Channels : \A i \in Said(ch) :
        LET src == log[ch][i].re[1]
            n   == log[ch][i].re[2]
        IN /\ ch \in Configured /\ Target(src) = ch
           /\ n \in 1..seen[src]
           /\ src = ch => n < i
           /\ log[src][n].by = "person" /\ Head(log[src][n].text) # "chat"

\* No half of a reply comes twice, and no second half comes without the
\* first one before it, whatever other replies the channel gets in between
\* and whichever request fails.
HalvesInOrder ==
    \A ch \in Channels : \A i \in Said(ch) :
        LET Same(j, part) == log[ch][j].re = log[ch][i].re /\ log[ch][j].part = part
        IN /\ \A j \in Said(ch) : Same(j, log[ch][i].part) => j = i
           /\ log[ch][i].part = 2 => \E j \in Said(ch) : j < i /\ Same(j, 1)

\* Message n of src has had its whole reply.
Replied(src, n) == LET whole == Reply(log[src][n].text)
                   IN \A k \in DOMAIN whole : \E i \in Said(Target(src)) :
                         LET e == log[Target(src)][i]
                         IN e.re = <<src, n>> /\ e.part = k /\ e.text = whole[k]

Owed(src, n) == n \in DOMAIN log[src] /\ Calls(src, n) # {}

\* A command that was read and gets a reply has it whole, or its own call is
\* still at work on it or has raised: whatever other calls do at their awaits,
\* no half is passed over and no reply given up.
RepliesWhole ==
    \A src \in Sources : \A n \in 1..seen[src] :
        Owed(src, n) => \/ <<src, n>> \in failed
                        \/ \E t \in tasks : t.re = <<src, n>>
                        \/ Replied(src, n)

\* Console commands that come one after the other, and do not raise, leave
\* console_mode as the command line set it.  Where two overlap, or one raises,
\* the mode of one of them may stay for good.
ModeRestored ==
    /\ OfConsole(tasks) = {}
    /\ ~overlapped
    /\ \A n \in 1..seen[Console] : <<Console, n>> \notin failed
    => mode = TRUE

\* Every command that gets a reply at all gets the whole of it, unless its
\* own call raises: no other call, under way at the same time or ending in an
\* exception, can take it away.
Answered == \A src \in Sources : \A n \in 1..(3 * MaxWrites) :
               Owed(src, n) ~> \/ <<src, n>> \in failed
                               \/ Owed(src, n) /\ Replied(src, n)
=============================================================================
