------------------------- MODULE ReplyServerProofs --------------------------
(***************************************************************************)
(* Proofs about ReplyServer, for any channels, texts and number of people. *)
(***************************************************************************)
EXTENDS ReplyServer, TLAPS

Entries == [by : {"person", "bot"}, text : Seq(Words), show : BOOLEAN,
            re : {<<>>} \cup (Sources \X Nat), part : 0..2]

TaskRecords == [at : Channels, re : Sources \X Nat, part : 1..2, saved : BOOLEAN,
                left : Seq(Seq(Words)) \ {<<>>}]

Typed == /\ log \in [Sources -> Seq(Entries)]
         /\ seen \in [Sources -> Nat]
         /\ \A src \in Sources : seen[src] <= Len(log[src])
         /\ \A src \in Sources : \A i \in DOMAIN log[src] :
               log[src][i].by = "person" => log[src][i].text # <<>>
         /\ tasks \subseteq TaskRecords
         /\ \A t \in tasks : t.part + Len(t.left) <= 3
         /\ mode \in BOOLEAN /\ overlapped \in BOOLEAN
         /\ writes \in 0..MaxWrites
         /\ failed \subseteq Sources \X Nat

\* Message re of the logs is a command of a person that has been read, and a
\* reply to it belongs in channel ch.
Owes(ch, re) == /\ ch \in Configured /\ Target(re[1]) = ch
                /\ re[2] \in 1..seen[re[1]]
                /\ log[re[1]][re[2]].by = "person"
                /\ Head(log[re[1]][re[2]].text) # "chat"

\* Calls and what they have sent answer a message each, in the right channel.
Answering == /\ \A t \in tasks : Owes(t.at, t.re)
             /\ \A ch \in Channels : \A i \in Said(ch) :
                   /\ log[ch][i].re \in Sources \X Nat
                   /\ log[ch][i].part \in 1..2
                   /\ Owes(ch, log[ch][i].re)
                   /\ log[ch][i].re[1] = ch => log[ch][i].re[2] < i

\* A message has one call at most, which has still to send what comes after
\* all it has sent.
InOrder == /\ \A t, u \in tasks : t.re = u.re => t = u
           /\ \A t \in tasks : \A i \in Said(t.at) :
                 log[t.at][i].re = t.re => log[t.at][i].part < t.part
           /\ \A t \in tasks : t.part = 2 =>
                 \E i \in Said(t.at) : log[t.at][i].re = t.re /\ log[t.at][i].part = 1
           /\ HalvesInOrder

\* While console commands come one by one, the only one under way knows the
\* mode to go back to.
ModeKnown == /\ ~overlapped
             /\ \A n \in 1..seen[Console] : <<Console, n>> \notin failed
             => /\ OfConsole(tasks) = {} => mode = TRUE
                /\ \A t \in OfConsole(tasks) : t.saved = TRUE
                /\ \A t, u \in OfConsole(tasks) : t = u

ReplyInv == Typed /\ Answering /\ InOrder /\ ModeKnown
-----------------------------------------------------------------------------
\* The reply to any text is one or two halves.
LEMMA ReplyType ==
    ASSUME NEW text \in Seq(Words) \ {<<>>}
    PROVE  /\ Reply(text) \in Seq(Seq(Words)) \ {<<>>}
           /\ Len(Reply(text)) <= 2
<1>1. Chat \in Seq(Words) /\ Tail(text) \in Seq(Words)
  BY DEF Chat, Words
<1>2. CASE Has(text, "echo")
  BY <1>1, <1>2 DEF Reply
<1>3. CASE ~Has(text, "echo") /\ text = <<"get", "standings">>
  BY <1>1, <1>3 DEF Reply
<1>4. CASE ~Has(text, "echo") /\ text # <<"get", "standings">>
  BY <1>1, <1>4 DEF Reply
<1> QED BY <1>2, <1>3, <1>4

\* e is added at the end of a log, and nothing else changes in the logs.
Grown(a, e) ==
    /\ log' \in [Sources -> Seq(Entries)]
    /\ \A s \in Sources : Len(log'[s]) = IF s = a THEN Len(log[s]) + 1 ELSE Len(log[s])
    /\ \A s \in Sources : \A i \in 1..Len(log[s]) : log'[s][i] = log[s][i]
    /\ log'[a][Len(log[a]) + 1] = e

LEMMA AppendGrows ==
    ASSUME log \in [Sources -> Seq(Entries)], NEW a \in Sources, NEW e \in Entries,
           log' = [log EXCEPT ![a] = Append(@, e)]
    PROVE  Grown(a, e)
<1>1. log[a] \in Seq(Entries) /\ log'[a] = Append(log[a], e)
  OBVIOUS
<1>2. \A s \in Sources : s # a => log'[s] = log[s]
  OBVIOUS
<1>3. log' \in [Sources -> Seq(Entries)]
  <2>1. Append(log[a], e) \in Seq(Entries)
    BY <1>1
  <2> QED BY <2>1
<1>4. /\ Len(log'[a]) = Len(log[a]) + 1
      /\ \A i \in 1..Len(log[a]) : log'[a][i] = log[a][i]
      /\ log'[a][Len(log[a]) + 1] = e
  BY <1>1
<1> QED BY <1>2, <1>3, <1>4 DEF Grown

\* The logs, or one of them by one message, have grown.
Longer == /\ log' \in [Sources -> Seq(Entries)]
          /\ \A s \in Sources : Len(log[s]) <= Len(log'[s])
          /\ \A s \in Sources : \A i \in 1..Len(log[s]) : log'[s][i] = log[s][i]

LEMMA GrownLonger ==
    ASSUME Typed, NEW a \in Sources, NEW e, Grown(a, e) PROVE Longer
<1>1. \A s \in Sources : Len(log[s]) \in Nat
  BY DEF Typed
<1> QED BY <1>1 DEF Grown, Longer

\* A message that was read stays what it is.
LEMMA OwesKept ==
    ASSUME Typed, Longer, \A s \in Sources : seen[s] <= seen'[s] /\ seen'[s] \in Nat
    PROVE  \A ch \in Channels, re \in Sources \X Nat : Owes(ch, re) => Owes(ch, re)'
<1> SUFFICES ASSUME NEW ch \in Channels, NEW re \in Sources \X Nat, Owes(ch, re)
             PROVE  Owes(ch, re)'
  OBVIOUS
<1>1. re[1] \in Sources /\ re[2] \in Nat
  OBVIOUS
<1>2. seen[re[1]] \in Nat /\ Len(log[re[1]]) \in Nat /\ seen[re[1]] <= Len(log[re[1]])
  BY <1>1 DEF Typed
<1>3. re[2] \in 1..Len(log[re[1]])
  BY <1>1, <1>2 DEF Owes
<1>4. log'[re[1]][re[2]] = log[re[1]][re[2]]
  BY <1>1, <1>3 DEF Longer
<1>5. re[2] \in 1..seen'[re[1]]
  BY <1>1, <1>2 DEF Owes
<1> QED BY <1>4, <1>5 DEF Owes, Target

\* What the bot has said after a message e was added.
LEMMA SaidGrows ==
    ASSUME Typed, NEW a \in Sources, NEW e, Grown(a, e), NEW ch \in Channels
    PROVE  /\ Said(ch)' = IF ch = a /\ e.by = "bot" THEN Said(ch) \cup {Len(log[ch]) + 1}
                                                    ELSE Said(ch)
           /\ \A i \in Said(ch) : i \in 1..Len(log[ch]) /\ log'[ch][i] = log[ch][i]
<1>1. ch \in Sources /\ log[ch] \in Seq(Entries) /\ log'[ch] \in Seq(Entries)
  BY DEF Typed, Grown, Sources
<1>2. DOMAIN log[ch] = 1..Len(log[ch]) /\ DOMAIN log'[ch] = 1..Len(log'[ch])
      /\ Len(log[ch]) \in Nat
  BY <1>1
<1>3. \A i \in Said(ch) : i \in 1..Len(log[ch]) /\ log'[ch][i] = log[ch][i]
  BY <1>1, <1>2 DEF Said, Grown
<1>4. CASE ch = a
  <2>1. 1..Len(log'[ch]) = 1..Len(log[ch]) \cup {Len(log[ch]) + 1}
    BY <1>1, <1>2, <1>4 DEF Grown
  <2>2. log'[ch][Len(log[ch]) + 1] = e
    BY <1>4 DEF Grown
  <2>3. \A i \in 1..Len(log[ch]) : log'[ch][i] = log[ch][i]
    BY <1>1 DEF Grown
  <2> QED BY <1>2, <1>3, <1>4, <2>1, <2>2, <2>3 DEF Said
<1>5. CASE ch # a
  BY <1>1, <1>2, <1>3, <1>5 DEF Said, Grown
<1> QED BY <1>3, <1>4, <1>5
-----------------------------------------------------------------------------
LEMMA ReplyInvInit == Init => ReplyInv
<1> SUFFICES ASSUME Init PROVE ReplyInv
  OBVIOUS
<1>1. \A src \in Sources : log[src] = <<>>
  BY DEF Init
<1>2. Typed
  <2>1. log \in [Sources -> Seq(Entries)]
    BY DEF Init
  <2>2. \A src \in Sources : Len(log[src]) = 0 /\ DOMAIN log[src] = {}
    BY <1>1
  <2>3. seen \in [Sources -> Nat] /\ \A src \in Sources : seen[src] <= Len(log[src])
    BY <2>2 DEF Init
  <2>4. tasks = {} /\ failed = {} /\ writes \in 0..MaxWrites
    BY ChannelsOK DEF Init
  <2>5. mode \in BOOLEAN /\ overlapped \in BOOLEAN
    BY Zenon DEF Init
  <2> QED BY <2>1, <2>2, <2>3, <2>4, <2>5 DEF Typed
<1>3. \A ch \in Channels : Said(ch) = {}
  BY <1>1 DEF Said, Sources
<1> QED BY <1>2, <1>3 DEF Init, ReplyInv, Answering, InOrder, HalvesInOrder, ModeKnown, OfConsole

\* What a person writes adds nothing to what the bot has said, or owes.
LEMMA WriteKeeps ==
    ASSUME ReplyInv, NEW src \in Sources, NEW text \in Texts, Write(src, text)
    PROVE  ReplyInv'
<1> USE DEF ReplyInv
<1>1. PICK e : /\ e \in Entries /\ e.by = "person" /\ e.text = text
               /\ log' = [log EXCEPT ![src] = Append(@, e)]
  <2>1. PICK show \in BOOLEAN :
           log' = [log EXCEPT ![src] = Append(@, Entry("person", text, show, <<>>, 0))]
    BY DEF Write
  <2>2. text \in Seq(Words)
    BY TextsOK
  <2> DEFINE e == Entry("person", text, show, <<>>, 0)
  <2>3. e \in Entries /\ e.by = "person" /\ e.text = text
    BY <2>2 DEF Entry, Entries
  <2> QED BY <2>1, <2>3
<1>2. Grown(src, e) /\ Longer
  BY <1>1, AppendGrows, GrownLonger DEF Typed
<1>3. /\ UNCHANGED <<seen, tasks, mode, failed, overlapped>>
      /\ writes < MaxWrites /\ writes' = writes + 1
  BY DEF Write
<1>4. \A ch \in Channels, re \in Sources \X Nat : Owes(ch, re) => Owes(ch, re)'
  BY <1>2, <1>3, OwesKept DEF Typed
<1>5. \A ch \in Channels :
         /\ Said(ch)' = Said(ch)
         /\ \A i \in Said(ch) : log'[ch][i] = log[ch][i]
  BY <1>1, <1>2, SaidGrows
<1>6. Typed'
  <2>1. \A s \in Sources : seen[s] <= Len(log'[s])
    <3>1. \A s \in Sources : Len(log[s]) \in Nat /\ Len(log'[s]) \in Nat
      BY <1>2 DEF Typed, Longer
    <3> QED BY <1>2, <3>1 DEF Typed, Longer
  <2>2. \A s \in Sources : \A i \in DOMAIN log'[s] :
           log'[s][i].by = "person" => log'[s][i].text # <<>>
    <3>1. e.text # <<>>
      BY <1>1, TextsOK
    <3> SUFFICES ASSUME NEW s \in Sources, NEW i \in DOMAIN log'[s]
                 PROVE log'[s][i].by = "person" => log'[s][i].text # <<>>
      OBVIOUS
    <3>2. /\ log[s] \in Seq(Entries) /\ log'[s] \in Seq(Entries)
          /\ DOMAIN log'[s] = 1..Len(log'[s]) /\ DOMAIN log[s] = 1..Len(log[s])
          /\ Len(log[s]) \in Nat
      BY <1>2 DEF Grown, Typed
    <3>3. i \in 1..Len(log[s]) \/ (s = src /\ i = Len(log[s]) + 1)
      BY <1>2, <3>2 DEF Grown
    <3> QED BY <1>2, <3>1, <3>2, <3>3 DEF Grown, Typed
  <2>3. writes' \in 0..MaxWrites
    BY <1>3, ChannelsOK DEF Typed
  <2> QED BY <1>2, <1>3, <2>1, <2>2, <2>3 DEF Typed, Longer
<1>7. Answering'
  <2>1. \A t \in tasks : t.at \in Channels /\ t.re \in Sources \X Nat
    BY DEF Typed, TaskRecords
  <2> QED BY <1>3, <1>4, <1>5, <2>1 DEF Answering
<1>8. InOrder'
  <2>1. \A t \in tasks : t.at \in Channels
    BY DEF Typed, TaskRecords
  <2>2. HalvesInOrder'
    BY <1>5 DEF InOrder, HalvesInOrder
  <2> QED BY <1>3, <1>5, <2>1, <2>2 DEF InOrder
<1>9. ModeKnown'
  BY <1>3 DEF ModeKnown, OfConsole
<1> QED BY <1>6, <1>7, <1>8, <1>9

\* A message is read: its call is the only one for it, and has sent nothing.
LEMMA ReceiveKeeps ==
    ASSUME ReplyInv, NEW src \in Sources, Receive(src) PROVE ReplyInv'
<1> USE DEF ReplyInv
<1> DEFINE n == seen[src] + 1
           e == log[src][n]
<1>1. PICK raised \in BOOLEAN :
         Called(src, n, tasks, IF raised THEN {} ELSE Calls(src, n), raised)
  BY DEF Receive, Raises
<1> DEFINE new == IF raised THEN {} ELSE Calls(src, n)
<1>2. /\ tasks' = tasks \cup new
      /\ failed' = IF raised THEN failed \cup {<<src, n>>} ELSE failed
      /\ mode' = IF src = Console /\ (raised \/ new # {}) THEN e.show ELSE mode
      /\ overlapped' = (overlapped \/ (src = Console /\ OfConsole(tasks) # {}))
      /\ seen' = [seen EXCEPT ![src] = n]
      /\ UNCHANGED <<log, writes>>
      /\ seen[src] < Len(log[src])
  BY <1>1 DEF Called, Receive
<1>3. /\ n \in Nat /\ n \in 1..Len(log[src]) /\ n \in DOMAIN log[src] /\ e \in Entries
      /\ seen'[src] = n /\ seen' \in [Sources -> Nat]
      /\ \A s \in Sources : seen[s] <= seen'[s] /\ seen'[s] \in Nat
  BY <1>2 DEF Typed
<1>4. \A ch \in Channels, re \in Sources \X Nat : Owes(ch, re) => Owes(ch, re)'
  <2>1. Longer
    <3>1. \A s \in Sources : Len(log[s]) \in Nat
      BY DEF Typed
    <3> QED BY <1>2, <3>1 DEF Longer, Typed
  <2> QED BY <1>3, <2>1, OwesKept
<1>5. \A t \in new :
         /\ t \in TaskRecords /\ t.part = 1 /\ t.re = <<src, n>> /\ t.saved = mode
         /\ t.part + Len(t.left) <= 3
         /\ Owes(t.at, t.re)'
  <2> SUFFICES ASSUME NEW t \in new
               PROVE /\ t \in TaskRecords /\ t.part = 1 /\ t.re = <<src, n>> /\ t.saved = mode
                     /\ t.part + Len(t.left) <= 3
                     /\ Owes(t.at, t.re)'
    OBVIOUS
  <2>1. t = Task(src, n) /\ Answers(e) /\ Reaches(src, e)
    BY DEF Calls
  <2>2. e.text \in Seq(Words) \ {<<>>}
    BY <1>3, <2>1 DEF Answers, Typed, Entries
  <2>3. Reply(e.text) \in Seq(Seq(Words)) \ {<<>>} /\ Len(Reply(e.text)) <= 2
    BY <2>2, ReplyType
  <2>4. Len(Reply(e.text)) \in Nat
    BY <2>3
  <2>5. Target(src) \in Configured /\ Target(src) \in Channels
    BY <2>1, ChannelsOK DEF Reaches
  <2>6. t.at = Target(src) /\ t.re = <<src, n>> /\ t.part = 1 /\ t.saved = mode
        /\ t.left = Reply(e.text)
    BY <2>1 DEF Task
  <2>7. t \in TaskRecords
    BY <1>3, <2>1, <2>3, <2>5 DEF Task, TaskRecords, Typed
  <2>8. Owes(t.at, t.re)'
    BY <1>2, <1>3, <2>1, <2>5, <2>6 DEF Owes, Answers, Target
  <2> QED BY <2>3, <2>4, <2>6, <2>7, <2>8
<1>6. \A t, u \in new : t = u
  BY DEF Calls
<1>7. \A ch \in Channels, re \in Sources \X Nat : Owes(ch, re) => re # <<src, n>>
  BY <1>3 DEF Owes, Typed
<1>8. \A ch \in Channels : Said(ch)' = Said(ch)
  BY <1>2 DEF Said
<1> HIDE DEF n, e, new
<1>9. Typed'
  <2>1. \A s \in Sources : seen'[s] <= Len(log'[s])
    BY <1>2, <1>3 DEF Typed
  <2>2. e.show \in BOOLEAN
    BY <1>3 DEF Entries
  <2>3. failed' \subseteq Sources \X Nat
    BY <1>2, <1>3 DEF Typed
  <2>4. \A t \in tasks' : t \in TaskRecords /\ t.part + Len(t.left) <= 3
    BY <1>2, <1>5 DEF Typed
  <2> QED BY <1>2, <1>3, <2>1, <2>2, <2>3, <2>4 DEF Typed
<1>10. Answering'
  <2>1. \A t \in tasks : t.at \in Channels /\ t.re \in Sources \X Nat
    BY DEF Typed, TaskRecords
  <2>2. \A t \in tasks' : Owes(t.at, t.re)'
    BY <1>2, <1>4, <1>5, <2>1 DEF Answering
  <2> QED BY <1>2, <1>4, <1>8, <2>2 DEF Answering
<1>11. InOrder'
  <2>1. \A t \in tasks : t.at \in Channels /\ t.re \in Sources \X Nat /\ t.re # <<src, n>>
    BY <1>7 DEF Typed, TaskRecords, Answering
  <2>2. \A t \in new : \A i \in Said(t.at) : log[t.at][i].re # t.re
    BY <1>5, <1>7 DEF TaskRecords, Answering
  <2>3. HalvesInOrder'
    BY <1>2, <1>8 DEF InOrder, HalvesInOrder
  <2>4. \A t \in tasks' : t.at \in Channels
    BY <1>2, <1>5, <2>1 DEF TaskRecords
  <2>5. \A t, u \in tasks' : t.re = u.re => t = u
    BY <1>2, <1>5, <1>6, <2>1 DEF InOrder
  <2>6. \A t \in tasks' : \A i \in Said(t.at) :
           log[t.at][i].re = t.re => log[t.at][i].part < t.part
    BY <1>2, <2>2 DEF InOrder
  <2>7. \A t \in tasks' : t.part = 2 =>
           \E i \in Said(t.at) : log[t.at][i].re = t.re /\ log[t.at][i].part = 1
    BY <1>2, <1>5 DEF InOrder
  <2> QED BY <1>2, <1>8, <2>3, <2>4, <2>5, <2>6, <2>7 DEF InOrder
<1>12. ModeKnown'
  <2> SUFFICES ASSUME ~overlapped', \A k \in 1..seen'[Console] : <<Console, k>> \notin failed'
               PROVE /\ OfConsole(tasks') = {} => mode' = TRUE
                     /\ \A t \in OfConsole(tasks') : t.saved = TRUE
                     /\ \A t, u \in OfConsole(tasks') : t = u
    BY DEF ModeKnown, OfConsole
  <2>1. Console \in Sources
    BY DEF Sources
  <2>2. ~overlapped /\ \A k \in 1..seen[Console] : <<Console, k>> \notin failed
    BY <1>2, <1>3, <2>1 DEF Typed
  <2>3. CASE src # Console
    <3>1. OfConsole(tasks') = OfConsole(tasks)
      BY <1>2, <1>5, <2>3 DEF OfConsole
    <3> QED BY <1>2, <2>2, <2>3, <3>1 DEF ModeKnown
  <2>4. CASE src = Console
    <3>1. OfConsole(tasks) = {} /\ ~raised
      <4>1. OfConsole(tasks) = {}
        BY <1>2, <2>4
      <4>2. n \in 1..seen'[Console]
        BY <1>3, <2>4
      <4>3. <<Console, n>> \notin failed'
        BY <4>2
      <4> QED BY <1>2, <2>4, <4>1, <4>3
    <3>2. mode = TRUE
      BY <2>2, <3>1 DEF ModeKnown
    <3>3. OfConsole(tasks') = new
      BY <1>2, <1>5, <2>4, <3>1 DEF OfConsole
    <3> QED BY <1>2, <1>5, <1>6, <3>1, <3>2, <3>3
  <2> QED BY <2>3, <2>4
<1> QED BY <1>9, <1>10, <1>11, <1>12

\* What t sends next, as it arrives.
Half(t) == Entry("bot", Head(t.left), TRUE, t.re, t.part)

\* A half arrives: it is the next one of its call, and answers what that does.
LEMMA PostedGrows ==
    ASSUME ReplyInv, NEW t \in tasks, log' = Posted(t)
    PROVE  Half(t) \in Entries /\ Half(t).by = "bot" /\ Grown(t.at, Half(t)) /\ Longer
<1>1. t \in TaskRecords
  BY DEF ReplyInv, Typed
<1>2. t.at \in Sources /\ Head(t.left) \in Seq(Words)
  BY <1>1 DEF TaskRecords, Sources
<1>3. Half(t) \in Entries /\ Half(t).by = "bot"
  BY <1>1, <1>2 DEF Half, Entry, Entries, TaskRecords
<1>4. log' = [log EXCEPT ![t.at] = Append(@, Half(t))]
  BY DEF Posted, Half
<1> QED BY <1>2, <1>3, <1>4, AppendGrows, GrownLonger DEF ReplyInv, Typed

\* Logs and calls stay in order when t has sent its next half, or failed to:
\* among the calls that are left, t has at most its next half to send.
Rest(t) == IF IsLast(t) THEN {} ELSE {[t EXCEPT !.left = Tail(@), !.part = @ + 1]}

LEMMA RestType ==
    ASSUME ReplyInv, NEW t \in tasks, NEW u \in Rest(t)
    PROVE  /\ u \in TaskRecords
           /\ u.at = t.at /\ u.re = t.re /\ u.saved = t.saved
           /\ u.part = 2 /\ t.part = 1 /\ u.part + Len(u.left) <= 3
<1>1. t \in TaskRecords /\ t.part + Len(t.left) <= 3
  BY DEF ReplyInv, Typed
<1>2. /\ t.left \in Seq(Seq(Words)) /\ t.left # <<>> /\ Len(t.left) # 1
      /\ t.part \in 1..2
  BY <1>1 DEF Rest, IsLast, TaskRecords
<1>3. Len(t.left) \in Nat /\ Len(t.left) # 0
  BY <1>2
<1>4. t.part = 1 /\ Len(t.left) = 2
  <2>1. \A k \in 1..2, m \in Nat : m # 0 /\ m # 1 /\ k + m <= 3 => k = 1 /\ m = 2
    OBVIOUS
  <2> QED BY <1>1, <1>2, <1>3, <2>1, Zenon
<1>5. /\ Tail(t.left) \in Seq(Seq(Words)) /\ Len(Tail(t.left)) = 1 /\ Tail(t.left) # <<>>
  <2>1. ASSUME NEW S, NEW q \in Seq(S), Len(q) = 2
        PROVE  Tail(q) \in Seq(S) /\ Len(Tail(q)) = 1
    BY <2>1
  <2>2. Tail(t.left) \in Seq(Seq(Words)) /\ Len(Tail(t.left)) = 1
    BY <1>2, <1>4, <2>1
  <2>3. ASSUME NEW S, NEW q \in Seq(S), Len(q) = 1 PROVE q # <<>>
    BY <2>3
  <2> QED BY <2>2, <2>3
<1>6. u = [t EXCEPT !.left = Tail(t.left), !.part = 2]
  BY <1>4 DEF Rest
<1>7. u.at = t.at /\ u.re = t.re /\ u.saved = t.saved /\ u.part = 2 /\ u.left = Tail(t.left)
  BY <1>1, <1>6 DEF TaskRecords
<1>8. u \in TaskRecords
  <2>1. t = [at |-> t.at, re |-> t.re, part |-> t.part, saved |-> t.saved, left |-> t.left]
    BY <1>1 DEF TaskRecords
  <2>2. u = [at |-> t.at, re |-> t.re, part |-> 2, saved |-> t.saved, left |-> Tail(t.left)]
    BY <1>6, <2>1
  <2>3. t.at \in Channels /\ t.re \in Sources \X Nat /\ t.saved \in BOOLEAN
    BY <1>1 DEF TaskRecords
  <2>4. Tail(t.left) \in Seq(Seq(Words)) \ {<<>>} /\ 2 \in 1..2
    BY <1>5
  <2> QED BY <2>2, <2>3, <2>4 DEF TaskRecords
<1>9. u.part + Len(u.left) <= 3
  <2>1. u.part = 2 /\ Len(u.left) = 1
    BY <1>5, <1>7, Zenon
  <2> QED BY <2>1
<1> QED BY <1>4, <1>7, <1>8, <1>9

\* Typed and Answering after a step of t, whether its half arrives or not.
LEMMA TaskStepAnswers ==
    ASSUME ReplyInv, NEW t \in tasks, NEW rest, rest \subseteq Rest(t),
           tasks' = (tasks \ {t}) \cup rest,
           log' = Posted(t) \/ UNCHANGED log,
           UNCHANGED <<seen, writes, overlapped>>,
           failed' \subseteq Sources \X Nat, mode' \in BOOLEAN
    PROVE  Typed' /\ Answering'
<1> USE DEF ReplyInv
<1>1. t \in TaskRecords /\ t.at \in Channels /\ t.at \in Sources
  BY DEF Typed, TaskRecords, Sources
<1>2. \A s \in Sources : Len(log[s]) \in Nat
  BY DEF Typed
<1>3. Longer
  BY <1>2, PostedGrows DEF Longer, Typed
<1>4. \A ch \in Channels, re \in Sources \X Nat : Owes(ch, re) => Owes(ch, re)'
  BY <1>3, OwesKept DEF Typed
<1>5. \A u \in tasks' : /\ u \in TaskRecords /\ u.part + Len(u.left) <= 3
                        /\ Owes(u.at, u.re)
  BY RestType DEF Typed, Answering
<1>6. Typed'
  <2>1. \A s \in Sources : seen[s] <= Len(log'[s])
    <3>1. \A s \in Sources : Len(log'[s]) \in Nat
      BY <1>3 DEF Longer
    <3> QED BY <1>2, <1>3, <3>1 DEF Typed, Longer
  <2>2. \A s \in Sources : \A i \in DOMAIN log'[s] :
           log'[s][i].by = "person" => log'[s][i].text # <<>>
    <3>1. CASE UNCHANGED log
      BY <3>1 DEF Typed
    <3>2. CASE log' = Posted(t)
      <4> SUFFICES ASSUME NEW s \in Sources, NEW i \in DOMAIN log'[s],
                          log'[s][i].by = "person"
                   PROVE log'[s][i].text # <<>>
        OBVIOUS
      <4>1. Half(t).by = "bot" /\ Grown(t.at, Half(t))
        BY <3>2, PostedGrows
      <4>2. /\ log[s] \in Seq(Entries) /\ log'[s] \in Seq(Entries)
            /\ DOMAIN log'[s] = 1..Len(log'[s]) /\ DOMAIN log[s] = 1..Len(log[s])
        BY <1>3 DEF Longer, Typed
      <4>3. i \in 1..Len(log[s]) \/ (s = t.at /\ i = Len(log[s]) + 1)
        BY <1>2, <4>1, <4>2 DEF Grown
      <4>4. i \in 1..Len(log[s])
        BY <4>1, <4>3 DEF Grown
      <4> QED BY <1>3, <4>2, <4>4 DEF Longer, Typed
    <3> QED BY <3>1, <3>2
  <2> QED BY <1>3, <1>5, <2>1, <2>2 DEF Typed, Longer
<1>7. \A u \in tasks' : Owes(u.at, u.re)'
  BY <1>4, <1>5 DEF TaskRecords
<1>8. \A ch \in Channels : \A i \in Said(ch)' :
         /\ log'[ch][i].re \in Sources \X Nat
         /\ log'[ch][i].part \in 1..2
         /\ Owes(ch, log'[ch][i].re)
         /\ log'[ch][i].re[1] = ch => log'[ch][i].re[2] < i
  <2>1. CASE UNCHANGED log
    BY <2>1 DEF Answering, Said
  <2>2. CASE log' = Posted(t)
    <3> SUFFICES ASSUME NEW ch \in Channels, NEW i \in Said(ch)'
                 PROVE /\ log'[ch][i].re \in Sources \X Nat
                       /\ log'[ch][i].part \in 1..2
                       /\ Owes(ch, log'[ch][i].re)
                       /\ log'[ch][i].re[1] = ch => log'[ch][i].re[2] < i
      OBVIOUS
    <3>1. Half(t).by = "bot" /\ Grown(t.at, Half(t))
      BY <2>2, PostedGrows
    <3>2. CASE i \in Said(ch)
      BY <1>1, <3>1, <3>2, SaidGrows DEF Answering
    <3>3. CASE i \notin Said(ch)
      <4>1. ch = t.at /\ i = Len(log[ch]) + 1
        BY <1>1, <3>1, <3>3, SaidGrows
      <4>2. log'[ch][i].re = t.re /\ log'[ch][i].part = t.part
        BY <3>1, <4>1 DEF Grown, Half, Entry
      <4>3. t.re[2] \in Nat /\ seen[ch] \in Nat /\ Len(log[ch]) \in Nat
        BY <1>1, <1>2, <4>1 DEF TaskRecords, Typed
      <4>4. t.re[1] = ch => t.re[2] <= seen[ch] /\ seen[ch] <= Len(log[ch])
        <5>1. t.re[2] \in 1..seen[t.re[1]]
          BY DEF Answering, Owes
        <5>2. seen[ch] <= Len(log[ch])
          BY <1>1, <4>1 DEF Typed
        <5> QED BY <4>3, <5>1, <5>2
      <4> QED BY <1>1, <4>1, <4>2, <4>3, <4>4 DEF TaskRecords, Answering
    <3> QED BY <3>2, <3>3
  <2> QED BY <2>1, <2>2
<1>9. Answering'
  BY <1>4, <1>7, <1>8 DEF Answering
<1> QED BY <1>6, <1>9

\* The half that arrives is one that t had not sent, and the first one is
\* there when the second comes.
LEMMA TaskStepOrder ==
    ASSUME ReplyInv, NEW t \in tasks, NEW rest, rest \subseteq Rest(t),
           tasks' = (tasks \ {t}) \cup rest,
           log' = Posted(t) \/ (rest = {} /\ UNCHANGED log)
    PROVE  InOrder'
<1> USE DEF ReplyInv
<1>1. t \in TaskRecords /\ t.at \in Channels /\ t.at \in Sources
  BY DEF Typed, TaskRecords, Sources
<1>2. \A u \in tasks : u.at \in Channels
  BY DEF Typed, TaskRecords
<1>3. \A u, v \in tasks' : u.re = v.re => u = v
  <2>1. \A u \in tasks \ {t} : u.re # t.re
    BY DEF InOrder
  <2>2. \A u, v \in rest : u = v
    BY DEF Rest
  <2>3. \A u \in rest : u.re = t.re
    BY RestType
  <2> QED BY <2>1, <2>2, <2>3 DEF InOrder
<1>4. CASE rest = {} /\ UNCHANGED log
  <2>1. tasks' \subseteq tasks /\ \A ch \in Channels : Said(ch)' = Said(ch)
    BY <1>4 DEF Said
  <2>2. HalvesInOrder'
    BY <1>4, <2>1 DEF InOrder, HalvesInOrder
  <2>3. /\ \A u \in tasks' : \A k \in Said(u.at) :
              log[u.at][k].re = u.re => log[u.at][k].part < u.part
        /\ \A u \in tasks' : u.part = 2 =>
              \E k \in Said(u.at) : log[u.at][k].re = u.re /\ log[u.at][k].part = 1
    BY <2>1 DEF InOrder
  <2> QED BY <1>2, <1>3, <1>4, <2>1, <2>2, <2>3 DEF InOrder
<1>5. CASE log' = Posted(t)
  <2> DEFINE z == Len(log[t.at]) + 1
  <2>1. Half(t).by = "bot" /\ Grown(t.at, Half(t)) /\ Longer
    BY <1>5, PostedGrows
  <2>2. /\ \A ch \in Channels : Said(ch)' = IF ch = t.at THEN Said(ch) \cup {z} ELSE Said(ch)
        /\ \A ch \in Channels : \A k \in Said(ch) : log'[ch][k] = log[ch][k]
        /\ \A k \in Said(t.at) : k \in 1..Len(log[t.at])
    BY <1>1, <2>1, SaidGrows
  <2>3. log'[t.at][z].re = t.re /\ log'[t.at][z].part = t.part
    BY <2>1 DEF Grown, Half, Entry
  <2>4. /\ Len(log[t.at]) \in Nat /\ z \notin Said(t.at)
        /\ \A k \in Said(t.at) : k \in Nat /\ k < z
    BY <1>1, <2>2 DEF Typed
  <2>5. \A k \in Said(t.at) : log[t.at][k].re = t.re => log[t.at][k].part < t.part
    BY DEF InOrder
  <2> HIDE DEF z
  <2>6. ASSUME NEW u \in tasks', NEW k \in Said(u.at)', log'[u.at][k].re = u.re
        PROVE  log'[u.at][k].part < u.part
    <3>1. CASE u \in tasks \ {t}
      <4>1. u.re # t.re
        BY <3>1 DEF InOrder
      <4>2. k \in Said(u.at)
        BY <1>2, <2>2, <2>3, <2>6, <3>1, <4>1
      <4> QED BY <1>2, <2>2, <2>6, <3>1, <4>2 DEF InOrder
    <3>2. CASE u \in rest
      <4>1. u.at = t.at /\ u.re = t.re /\ u.part = 2 /\ t.part = 1
        BY <3>2, RestType
      <4>2. CASE k = z
        BY <2>3, <4>1, <4>2
      <4>3. CASE k # z
        <5>1. k \in Said(t.at) /\ log'[t.at][k] = log[t.at][k]
          BY <1>1, <2>2, <2>6, <4>1, <4>3
        <5>2. log[t.at][k].part < t.part /\ log[t.at][k].part \in 1..2
          BY <1>1, <2>5, <2>6, <4>1, <5>1 DEF Answering
        <5> QED BY <4>1, <5>1, <5>2
      <4> QED BY <4>2, <4>3
    <3> QED BY <3>1, <3>2
  <2>7. ASSUME NEW u \in tasks', u.part = 2
        PROVE  \E k \in Said(u.at)' : log'[u.at][k].re = u.re /\ log'[u.at][k].part = 1
    <3>1. CASE u \in tasks \ {t}
      <4>1. PICK k \in Said(u.at) : log[u.at][k].re = u.re /\ log[u.at][k].part = 1
        BY <2>7, <3>1 DEF InOrder
      <4> QED BY <1>2, <2>2, <3>1, <4>1
    <3>2. CASE u \in rest
      <4>1. u.at = t.at /\ u.re = t.re /\ t.part = 1
        BY <3>2, RestType
      <4> QED BY <1>1, <2>2, <2>3, <4>1
    <3> QED BY <3>1, <3>2
  <2>8. HalvesInOrder'
    <3> SUFFICES ASSUME NEW ch \in Channels, NEW k \in Said(ch)'
                 PROVE /\ \A j \in Said(ch)' :
                             /\ log'[ch][j].re = log'[ch][k].re
                             /\ log'[ch][j].part = log'[ch][k].part
                             => j = k
                       /\ log'[ch][k].part = 2 =>
                             \E j \in Said(ch)' : /\ j < k
                                                  /\ log'[ch][j].re = log'[ch][k].re
                                                  /\ log'[ch][j].part = 1
      BY DEF HalvesInOrder
    <3>1. ASSUME NEW i \in Said(ch), NEW j \in Said(ch),
                 log[ch][j].re = log[ch][i].re, log[ch][j].part = log[ch][i].part
          PROVE  i = j
      BY <3>1 DEF InOrder, HalvesInOrder
    <3>2. ASSUME NEW i \in Said(ch), log[ch][i].part = 2
          PROVE  \E j \in Said(ch) : /\ j < i
                                     /\ log[ch][j].re = log[ch][i].re
                                     /\ log[ch][j].part = 1
      BY <3>2 DEF InOrder, HalvesInOrder
    <3>3. CASE ch # t.at
      BY <2>2, <3>1, <3>2, <3>3
    <3>4. CASE ch = t.at
      <4>1. Said(ch)' = Said(ch) \cup {z}
        BY <2>2, <3>4
      <4>2. ASSUME NEW j \in Said(ch), log[ch][j].re = t.re PROVE log[ch][j].part # t.part
        <5>1. log[ch][j].part < t.part /\ log[ch][j].part \in 1..2 /\ t.part \in 1..2
          BY <1>1, <2>5, <3>4, <4>2 DEF Answering, TaskRecords
        <5> QED BY <5>1
      <4>3. ASSUME NEW j \in Said(ch)', log'[ch][j].re = log'[ch][k].re,
                   log'[ch][j].part = log'[ch][k].part
            PROVE  j = k
        <5>1. CASE j \in Said(ch) /\ k \in Said(ch)
          BY <2>2, <3>1, <4>3, <5>1
        <5>2. CASE j = z /\ k \in Said(ch)
          BY <2>2, <2>3, <3>4, <4>2, <4>3, <5>2
        <5>3. CASE k = z /\ j \in Said(ch)
          BY <2>2, <2>3, <3>4, <4>2, <4>3, <5>3
        <5> QED BY <4>1, <5>1, <5>2, <5>3
      <4>4. ASSUME log'[ch][k].part = 2
            PROVE  \E j \in Said(ch)' : /\ j < k
                                        /\ log'[ch][j].re = log'[ch][k].re
                                        /\ log'[ch][j].part = 1
        <5>1. CASE k \in Said(ch)
          <6>1. PICK j \in Said(ch) : /\ j < k
                                      /\ log[ch][j].re = log[ch][k].re
                                      /\ log[ch][j].part = 1
            BY <2>2, <3>2, <4>4, <5>1
          <6> QED BY <2>2, <4>1, <5>1, <6>1
        <5>2. CASE k = z
          <6>1. PICK j \in Said(t.at) : log[t.at][j].re = t.re /\ log[t.at][j].part = 1
            BY <2>3, <3>4, <4>4, <5>2 DEF InOrder
          <6> QED BY <2>2, <2>3, <2>4, <3>4, <4>1, <5>2, <6>1
        <5> QED BY <4>1, <5>1, <5>2
      <4> QED BY <4>3, <4>4
    <3> QED BY <3>3, <3>4
  <2> QED BY <1>3, <2>6, <2>7, <2>8 DEF InOrder
<1> QED BY <1>4, <1>5

\* The call of a console command that is not over keeps the mode to restore.
LEMMA SendKeepsMode ==
    ASSUME ReplyInv, NEW t \in tasks, tasks' = (tasks \ {t}) \cup Rest(t),
           mode' = Restored(t), UNCHANGED <<seen, failed, overlapped>>
    PROVE  ModeKnown'
<1> SUFFICES ASSUME ~overlapped, \A k \in 1..seen[Console] : <<Console, k>> \notin failed
             PROVE /\ OfConsole(tasks') = {} => mode' = TRUE
                   /\ \A u \in OfConsole(tasks') : u.saved = TRUE
                   /\ \A u, v \in OfConsole(tasks') : u = v
  BY DEF ModeKnown, OfConsole
<1>1. /\ OfConsole(tasks) = {} => mode = TRUE
      /\ \A u \in OfConsole(tasks) : u.saved = TRUE
      /\ \A u, v \in OfConsole(tasks) : u = v
  BY DEF ReplyInv, ModeKnown
<1>2. \A u \in Rest(t) : u.re = t.re /\ u.saved = t.saved
  BY RestType
<1>3. \A u, v \in Rest(t) : u = v
  BY DEF Rest
<1>4. CASE t \notin OfConsole(tasks)
  <2>1. OfConsole(tasks') = OfConsole(tasks)
    BY <1>2, <1>4 DEF OfConsole
  <2>2. mode' = mode
    BY <1>4 DEF Restored
  <2> QED BY <1>1, <2>1, <2>2
<1>5. CASE t \in OfConsole(tasks)
  <2>1. OfConsole(tasks') = Rest(t)
    BY <1>1, <1>2, <1>5 DEF OfConsole
  <2>2. Rest(t) = {} => IsLast(t)
    BY DEF Rest
  <2>3. Rest(t) = {} => mode' = TRUE
    BY <1>1, <1>5, <2>2 DEF Restored
  <2> QED BY <1>1, <1>2, <1>3, <1>5, <2>1, <2>3
<1> QED BY <1>4, <1>5

LEMMA SendKeeps == ASSUME ReplyInv, NEW t \in tasks, Send(t) PROVE ReplyInv'
<1>1. /\ tasks' = (tasks \ {t}) \cup Rest(t)
      /\ log' = Posted(t) /\ mode' = Restored(t)
      /\ UNCHANGED <<seen, writes, failed, overlapped>>
  BY DEF Send, Rest
<1>2. mode' \in BOOLEAN
  BY <1>1, Zenon DEF ReplyInv, Typed, TaskRecords, Restored
<1>3. failed' \subseteq Sources \X Nat
  BY <1>1 DEF ReplyInv, Typed
<1>4. Typed' /\ Answering'
  BY <1>1, <1>2, <1>3, TaskStepAnswers
<1>5. InOrder'
  BY <1>1, TaskStepOrder
<1>6. ModeKnown'
  BY <1>1, SendKeepsMode
<1> QED BY <1>4, <1>5, <1>6 DEF ReplyInv

LEMMA SendFailsKeeps == ASSUME ReplyInv, NEW t \in tasks, SendFails(t) PROVE ReplyInv'
<1>0. PICK rest \in SUBSET Rest(t) : rest = {}
  OBVIOUS
<1>1. /\ rest \subseteq Rest(t) /\ rest = {}
      /\ tasks' = (tasks \ {t}) \cup rest
      /\ log' = Posted(t) \/ UNCHANGED log
      /\ failed' = failed \cup {t.re}
      /\ UNCHANGED <<seen, mode, writes, overlapped>>
  BY <1>0 DEF SendFails
<1>2. t.re \in Sources \X Nat
  BY DEF ReplyInv, Typed, TaskRecords
<1>3. failed' \subseteq Sources \X Nat /\ mode' \in BOOLEAN
  BY <1>1, <1>2 DEF ReplyInv, Typed
<1>4. Typed' /\ Answering'
  BY <1>1, <1>3, TaskStepAnswers
<1>5. InOrder'
  BY <1>1, TaskStepOrder
<1>6. ModeKnown'
  <2> SUFFICES ASSUME ~overlapped, \A k \in 1..seen[Console] : <<Console, k>> \notin failed'
               PROVE /\ OfConsole(tasks') = {} => mode = TRUE
                     /\ \A u \in OfConsole(tasks') : u.saved = TRUE
                     /\ \A u, v \in OfConsole(tasks') : u = v
    BY <1>1 DEF ModeKnown, OfConsole
  <2>1. t.re[1] # Console
    <3> SUFFICES ASSUME t.re[1] = Console PROVE FALSE
      OBVIOUS
    <3>1. t.re[2] \in 1..seen[Console]
      BY DEF ReplyInv, Answering, Owes
    <3>2. t.re = <<Console, t.re[2]>>
      BY <1>2
    <3> QED BY <1>1, <3>1, <3>2
  <2>2. OfConsole(tasks') = OfConsole(tasks)
    BY <1>1, <2>1 DEF OfConsole
  <2> QED BY <1>1, <2>2 DEF ReplyInv, ModeKnown
<1> QED BY <1>4, <1>5, <1>6 DEF ReplyInv

LEMMA ReplyInvAlways == Spec => []ReplyInv
<1>1. ReplyInv /\ [Next]_vars => ReplyInv'
  <2> SUFFICES ASSUME ReplyInv, [Next]_vars PROVE ReplyInv'
    OBVIOUS
  <2>1. CASE UNCHANGED vars
    <3>0. /\ log' = log /\ seen' = seen /\ tasks' = tasks /\ mode' = mode
          /\ writes' = writes /\ failed' = failed /\ overlapped' = overlapped
      BY <2>1 DEF vars
    <3>1. Typed /\ Answering /\ InOrder /\ ModeKnown
      BY DEF ReplyInv
    <3>2. Typed'
      BY <3>0, <3>1 DEF Typed
    <3>3. Answering'
      <4>1. \A ch, re : Owes(ch, re)' <=> Owes(ch, re)
        BY <3>0, Zenon DEF Owes
      <4>2. \A ch : Said(ch)' = Said(ch)
        BY <3>0, Zenon DEF Said
      <4> QED BY <3>0, <3>1, <4>1, <4>2, Zenon DEF Answering
    <3>4. InOrder'
      <4>1. \A ch : Said(ch)' = Said(ch)
        BY <3>0, Zenon DEF Said
      <4>2. HalvesInOrder'
        BY <3>0, <3>1, <4>1 DEF InOrder, HalvesInOrder
      <4> QED BY <3>0, <3>1, <4>1, <4>2, Zenon DEF InOrder
    <3>5. ModeKnown'
      BY <3>0, <3>1 DEF ModeKnown, OfConsole
    <3> QED BY <3>2, <3>3, <3>4, <3>5 DEF ReplyInv
  <2>2. CASE \E src \in Sources, text \in Texts : Write(src, text)
    <3>1. PICK src \in Sources, text \in Texts : Write(src, text)
      BY <2>2
    <3> QED BY <3>1, WriteKeeps
  <2>3. CASE \E src \in Sources : Receive(src)
    BY <2>3, ReceiveKeeps
  <2>4. CASE \E t \in tasks : Send(t)
    BY <2>4, SendKeeps
  <2>5. CASE \E t \in tasks : SendFails(t)
    BY <2>5, SendFailsKeeps
  <2> QED BY <2>1, <2>2, <2>3, <2>4, <2>5 DEF Next
<1> QED BY ReplyInvInit, <1>1, PTL DEF Spec
-----------------------------------------------------------------------------
\* Logs hold messages of people and halves of replies, and replies are under
\* way in configured channels only (on_message, send_discord_message).
THEOREM ReplyTypeCorrect == Spec => []TypeOK
<1>1. ReplyInv => TypeOK
  <2> SUFFICES ASSUME ReplyInv PROVE TypeOK
    OBVIOUS
  <2>1. \A src \in Sources : \A i \in DOMAIN log[src] : log[src][i] \in Entries
    BY DEF ReplyInv, Typed
  <2>2. \A t \in tasks : t.at \in Configured /\ t.left # <<>>
    BY DEF ReplyInv, Typed, TaskRecords, Answering, Owes
  <2> QED BY <2>1, <2>2 DEF ReplyInv, Typed, TypeOK, Entries
<1> QED BY ReplyInvAlways, <1>1, PTL

\* The bot never answers itself, nor chat: all it says is a reply to a
\* command of a person, where that asked for it (on_message 105-110).
THEOREM AnswersPeopleEver == Spec => []AnswersPeople
<1>1. ReplyInv => AnswersPeople
  <2> SUFFICES ASSUME ReplyInv, NEW ch \in Channels, NEW i \in DOMAIN log[ch],
                      log[ch][i].by = "bot"
               PROVE LET src == log[ch][i].re[1]
                         n   == log[ch][i].re[2]
                     IN /\ ch \in Configured /\ Target(src) = ch
                        /\ n \in 1..seen[src]
                        /\ src = ch => n < i
                        /\ log[src][n].by = "person" /\ Head(log[src][n].text) # "chat"
    BY DEF AnswersPeople, Said
  <2>1. i \in Said(ch)
    BY DEF Said
  <2> QED BY <2>1 DEF ReplyInv, Answering, Owes
<1> QED BY ReplyInvAlways, <1>1, PTL

\* No half of a reply is repeated, or comes before the first one, whatever
\* else is sent or fails meanwhile (send_discord_message 222-225).
THEOREM HalvesInOrderEver == Spec => []HalvesInOrder
<1>1. ReplyInv => HalvesInOrder
  BY DEF ReplyInv, InOrder
<1> QED BY ReplyInvAlways, <1>1, PTL

\* Console commands that neither overlap nor raise give console_mode back
\* (run_command).
THEOREM ModeRestoredEver == Spec => []ModeRestored
<1>1. ReplyInv => ModeRestored
  BY DEF ReplyInv, ModeKnown, ModeRestored
<1> QED BY ReplyInvAlways, <1>1, PTL
-----------------------------------------------------------------------------
(***************************************************************************)
(* Replies are whole.  A call that is under way has sent what comes before *)
(* its part, and has still to send the rest.                               *)
(***************************************************************************)
Whole(re) == Reply(log[re[1]][re[2]].text)

\* Half k of the reply to message re is in the channel.
Arrived(re, k) == \E i \in Said(Target(re[1])) :
                     /\ log[Target(re[1])][i].re = re
                     /\ log[Target(re[1])][i].part = k
                     /\ log[Target(re[1])][i].text = Whole(re)[k]

Midway(t) == /\ Len(Whole(t.re)) = t.part + Len(t.left) - 1
             /\ \A k \in 1..Len(t.left) : t.left[k] = Whole(t.re)[t.part + k - 1]
             /\ \A k \in 1..(t.part - 1) : Arrived(t.re, k)

WholeInv == (\A t \in tasks : Midway(t)) /\ RepliesWhole

LEMMA RepliedMeans ==
    ASSUME NEW src, NEW n
    PROVE  Replied(src, n) <=> \A k \in DOMAIN Whole(<<src, n>>) : Arrived(<<src, n>>, k)
  BY DEF Replied, Arrived, Whole

LEMMA OwedMeans ==
    ASSUME NEW src, NEW n
    PROVE  Owed(src, n) <=> /\ n \in DOMAIN log[src]
                            /\ Answers(log[src][n]) /\ Reaches(src, log[src][n])
  BY DEF Owed, Calls

LEMMA SameLogsLonger == Typed /\ UNCHANGED log => Longer
<1> SUFFICES ASSUME Typed, UNCHANGED log PROVE Longer
  OBVIOUS
<1>1. \A s \in Sources : Len(log[s]) \in Nat
  BY DEF Typed
<1> QED BY <1>1 DEF Longer, Typed

\* What is in a channel stays there, and messages that were read do not change.
LEMMA LongerKeeps ==
    ASSUME ReplyInv, Longer, NEW src \in Sources, NEW n \in 1..seen[src]
    PROVE  /\ log'[src][n] = log[src][n]
           /\ Owed(src, n)' <=> Owed(src, n)
           /\ Whole(<<src, n>>)' = Whole(<<src, n>>)
           /\ \A k : Arrived(<<src, n>>, k) => Arrived(<<src, n>>, k)'
<1>1. \A s \in Sources : /\ log[s] \in Seq(Entries) /\ log'[s] \in Seq(Entries)
                         /\ DOMAIN log[s] = 1..Len(log[s]) /\ Len(log[s]) \in Nat
                         /\ DOMAIN log'[s] = 1..Len(log'[s]) /\ Len(log'[s]) \in Nat
                         /\ Len(log[s]) <= Len(log'[s])
                         /\ \A i \in 1..Len(log[s]) : log'[s][i] = log[s][i]
  BY DEF ReplyInv, Typed, Longer
<1>2. n \in 1..Len(log[src]) /\ n \in 1..Len(log'[src])
  <2>1. seen[src] \in Nat /\ seen[src] <= Len(log[src])
    BY DEF ReplyInv, Typed
  <2> QED BY <1>1, <2>1
<1>3. log'[src][n] = log[src][n]
  BY <1>1, <1>2
<1>4. Owed(src, n)' <=> Owed(src, n)
  <2>1. Owed(src, n)' <=> /\ n \in DOMAIN log'[src]
                          /\ Answers(log'[src][n]) /\ Reaches(src, log'[src][n])
    BY DEF Owed, Calls
  <2> QED BY <1>1, <1>2, <1>3, <2>1, OwedMeans
<1>5. Whole(<<src, n>>)' = Whole(<<src, n>>)
  BY <1>3 DEF Whole
<1>6. ASSUME NEW k, Arrived(<<src, n>>, k) PROVE Arrived(<<src, n>>, k)'
  <2> DEFINE ch == Target(src)
  <2>1. ch \in Sources
    BY ChannelsOK DEF Target, Sources
  <2>2. PICK i \in Said(ch) : /\ log[ch][i].re = <<src, n>> /\ log[ch][i].part = k
                              /\ log[ch][i].text = Whole(<<src, n>>)[k]
    BY <1>6 DEF Arrived
  <2>3. i \in Said(ch)' /\ log'[ch][i] = log[ch][i]
    BY <1>1, <2>1 DEF Said
  <2> QED BY <1>5, <2>2, <2>3 DEF Arrived
<1> QED BY <1>3, <1>4, <1>5, <1>6

LEMMA MidwayKept ==
    ASSUME ReplyInv, Longer, NEW t \in tasks, Midway(t) PROVE Midway(t)'
<1>1. t.re[1] \in Sources /\ t.re = <<t.re[1], t.re[2]>>
  BY DEF ReplyInv, Typed, TaskRecords
<1>2. t.re[2] \in 1..seen[t.re[1]]
  BY DEF ReplyInv, Answering, Owes
<1>3. Whole(t.re)' = Whole(t.re) /\ \A k : Arrived(t.re, k) => Arrived(t.re, k)'
  BY <1>1, <1>2, LongerKeeps
<1> QED BY <1>3 DEF Midway

\* A reply that was whole is, and so is one that another call is at work on.
LEMMA WholeKept ==
    ASSUME ReplyInv, Longer, NEW src \in Sources, NEW n \in 1..seen[src], Replied(src, n)
    PROVE  Replied(src, n)'
<1>1. /\ Whole(<<src, n>>)' = Whole(<<src, n>>)
      /\ \A k : Arrived(<<src, n>>, k) => Arrived(<<src, n>>, k)'
  BY LongerKeeps
<1>2. \A k \in DOMAIN Whole(<<src, n>>) : Arrived(<<src, n>>, k)
  BY RepliedMeans
<1>3. Replied(src, n)' <=>
         \A k \in DOMAIN Whole(<<src, n>>)' : Arrived(<<src, n>>, k)'
  BY DEF Replied, Arrived, Whole
<1> QED BY <1>1, <1>2, <1>3

\* When a half arrives, the call has sent one more.
LEMMA HalfArrives ==
    ASSUME ReplyInv, NEW t \in tasks, Midway(t), log' = Posted(t)
    PROVE  /\ Longer
           /\ Whole(t.re)' = Whole(t.re)
           /\ \A k \in 1..t.part : Arrived(t.re, k)'
<1>1. /\ t.re[1] \in Sources /\ t.re = <<t.re[1], t.re[2]>> /\ t.at \in Sources
      /\ t.at \in Channels /\ t.part \in 1..2 /\ t.left # <<>> /\ t.left \in Seq(Seq(Words))
  BY DEF ReplyInv, Typed, TaskRecords, Sources
<1>2. t.re[2] \in 1..seen[t.re[1]] /\ Target(t.re[1]) = t.at
  BY DEF ReplyInv, Answering, Owes
<1>3. Half(t).by = "bot" /\ Grown(t.at, Half(t)) /\ Longer
  BY PostedGrows
<1>4. Whole(t.re)' = Whole(t.re) /\ \A k : Arrived(t.re, k) => Arrived(t.re, k)'
  BY <1>1, <1>2, <1>3, LongerKeeps
<1>5. Arrived(t.re, t.part)'
  <2> DEFINE z == Len(log[t.at]) + 1
  <2>1. z \in Said(t.at)' /\ log'[t.at][z] = Half(t)
    <3>1. Said(t.at)' = Said(t.at) \cup {z}
      BY <1>1, <1>3, SaidGrows DEF ReplyInv
    <3> QED BY <1>3, <3>1 DEF Grown
  <2>2. Half(t).re = t.re /\ Half(t).part = t.part /\ Half(t).text = Head(t.left)
    BY DEF Half, Entry
  <2>3. Head(t.left) = t.left[1] /\ Len(t.left) \in Nat /\ Len(t.left) # 0
    BY <1>1
  <2>4. Head(t.left) = Whole(t.re)[t.part]
    <3>1. 1 \in 1..Len(t.left) /\ t.part + 1 - 1 = t.part
      BY <1>1, <2>3
    <3> QED BY <2>3, <3>1 DEF Midway
  <2> HIDE DEF z
  <2> QED BY <1>2, <1>4, <2>1, <2>2, <2>4 DEF Arrived
<1>6. \A k \in 1..t.part : k = t.part \/ k \in 1..(t.part - 1)
  BY <1>1
<1> QED BY <1>3, <1>4, <1>5, <1>6 DEF Midway
-----------------------------------------------------------------------------
LEMMA WriteWhole ==
    ASSUME ReplyInv, WholeInv, NEW src \in Sources, NEW text \in Texts, Write(src, text)
    PROVE  WholeInv'
<1>1. Longer
  <2>1. PICK e : e \in Entries /\ log' = [log EXCEPT ![src] = Append(@, e)]
    <3>1. PICK show \in BOOLEAN :
             log' = [log EXCEPT ![src] = Append(@, Entry("person", text, show, <<>>, 0))]
      BY DEF Write
    <3>2. Entry("person", text, show, <<>>, 0) \in Entries
      BY TextsOK DEF Entry, Entries
    <3> QED BY <3>1, <3>2
  <2> QED BY <2>1, AppendGrows, GrownLonger DEF ReplyInv, Typed
<1>2. UNCHANGED <<seen, tasks, failed>>
  BY DEF Write
<1>3. \A t \in tasks' : Midway(t)'
  BY <1>1, <1>2, MidwayKept DEF WholeInv
<1>4. RepliesWhole'
  BY <1>1, <1>2, LongerKeeps, WholeKept DEF WholeInv, RepliesWhole
<1> QED BY <1>3, <1>4 DEF WholeInv

\* A call starts with the whole of its reply to send.
LEMMA ReceiveWhole ==
    ASSUME ReplyInv, WholeInv, NEW src \in Sources, Receive(src) PROVE WholeInv'
<1> DEFINE n == seen[src] + 1
<1>1. PICK raised \in BOOLEAN :
         Called(src, n, tasks, IF raised THEN {} ELSE Calls(src, n), raised)
  BY DEF Receive, Raises
<1> DEFINE new == IF raised THEN {} ELSE Calls(src, n)
<1>2. /\ tasks' = tasks \cup new
      /\ failed' = IF raised THEN failed \cup {<<src, n>>} ELSE failed
      /\ seen' = [seen EXCEPT ![src] = n]
      /\ UNCHANGED log
      /\ seen[src] < Len(log[src])
  BY <1>1 DEF Called, Receive
<1>3. Longer
  BY <1>2, SameLogsLonger DEF ReplyInv
<1>4. \A t \in new : t.re = <<src, n>> /\ Midway(t)'
  <2> SUFFICES ASSUME NEW t \in new PROVE t.re = <<src, n>> /\ Midway(t)'
    OBVIOUS
  <2>1. t = Task(src, n) /\ Answers(log[src][n])
    BY DEF Calls
  <2>2. t.re = <<src, n>> /\ t.part = 1 /\ t.left = Reply(log[src][n].text)
    BY <2>1 DEF Task
  <2>3. t.left = Whole(t.re)'
    BY <1>2, <2>2 DEF Whole
  <2>4. Len(t.left) \in Nat
    <3>1. n \in 1..Len(log[src]) /\ log[src] \in Seq(Entries)
      BY <1>2 DEF ReplyInv, Typed
    <3>2. log[src][n] \in Entries /\ log[src][n].text # <<>>
      BY <2>1, <3>1 DEF ReplyInv, Typed, Answers
    <3>3. log[src][n].text \in Seq(Words) \ {<<>>}
      BY <3>2 DEF Entries
    <3> QED BY <2>2, <3>3, ReplyType
  <2> QED BY <2>2, <2>3, <2>4 DEF Midway
<1>5. \A t \in tasks' : Midway(t)'
  BY <1>2, <1>3, <1>4, MidwayKept DEF WholeInv
<1>6. RepliesWhole'
  <2> SUFFICES ASSUME NEW s \in Sources, NEW k \in 1..seen'[s], Owed(s, k)'
               PROVE  \/ <<s, k>> \in failed' \/ \E t \in tasks' : t.re = <<s, k>>
                      \/ Replied(s, k)'
    BY DEF RepliesWhole
  <2>1. CASE k \in 1..seen[s]
    <3>1. Owed(s, k)
      BY <1>3, <2>1, LongerKeeps
    <3>2. <<s, k>> \in failed \/ (\E t \in tasks : t.re = <<s, k>>) \/ Replied(s, k)
      BY <2>1, <3>1 DEF WholeInv, RepliesWhole
    <3> QED BY <1>2, <1>3, <2>1, <3>2, WholeKept
  <2>2. CASE k \notin 1..seen[s]
    <3>1. s = src /\ k = n
      BY <1>2, <2>2 DEF ReplyInv, Typed
    <3>2. Calls(s, k) # {}
      <4>1. Owed(s, k)
        BY <1>2 DEF Owed, Calls
      <4> QED BY <4>1 DEF Owed
    <3>3. raised \/ new # {}
      BY <3>1, <3>2
    <3> QED BY <1>2, <1>4, <3>1, <3>3
  <2> QED BY <2>1, <2>2
<1> QED BY <1>5, <1>6 DEF WholeInv

\* The last half makes the reply whole; after any other the call goes on.
LEMMA SendWhole == ASSUME ReplyInv, WholeInv, NEW t \in tasks, Send(t) PROVE WholeInv'
<1>1. /\ tasks' = (tasks \ {t}) \cup Rest(t)
      /\ log' = Posted(t)
      /\ UNCHANGED <<seen, failed>>
  BY DEF Send, Rest
<1>2. Midway(t)
  BY DEF WholeInv
<1>3. /\ Longer /\ Whole(t.re)' = Whole(t.re)
      /\ \A k \in 1..t.part : Arrived(t.re, k)'
  BY <1>1, <1>2, HalfArrives
<1>4. /\ t.re[1] \in Sources /\ t.re = <<t.re[1], t.re[2]>>
      /\ t.part \in 1..2 /\ t.left # <<>> /\ t.left \in Seq(Seq(Words))
  BY DEF ReplyInv, Typed, TaskRecords
<1>5. Len(t.left) \in Nat /\ Len(t.left) # 0
  BY <1>4
<1>6. \A u \in Rest(t) : u.re = t.re /\ Midway(u)'
  <2> SUFFICES ASSUME NEW u \in Rest(t) PROVE u.re = t.re /\ Midway(u)'
    OBVIOUS
  <2>1. /\ t.part + Len(t.left) <= 3 /\ u.re = t.re /\ u.part = 2 /\ t.part = 1
        /\ u \in TaskRecords
    BY RestType DEF ReplyInv, Typed
  <2>2. Len(t.left) # 1
    BY DEF Rest, IsLast
  <2>3. Len(t.left) = 2
    <3>1. 1 + Len(t.left) <= 3
      BY <2>1
    <3>2. \A m \in Nat : m # 0 /\ m # 1 /\ 1 + m <= 3 => m = 2
      OBVIOUS
    <3> QED BY <1>5, <2>2, <3>1, <3>2, Zenon
  <2>4. u.left = Tail(t.left)
    BY DEF Rest, ReplyInv, Typed, TaskRecords
  <2>5. Len(u.left) = 1 /\ u.left[1] = t.left[2]
    BY <1>4, <2>3, <2>4
  <2>6. Len(Whole(t.re)) = 2 /\ t.left[2] = Whole(t.re)[2]
    BY <1>2, <2>1, <2>3 DEF Midway
  <2> QED BY <1>3, <2>1, <2>5, <2>6 DEF Midway
<1>7. \A u \in tasks' : Midway(u)'
  BY <1>1, <1>3, <1>6, MidwayKept DEF WholeInv
<1>8. ASSUME Rest(t) = {} PROVE Replied(t.re[1], t.re[2])'
  <2>1. Len(t.left) = 1
    BY <1>8 DEF Rest, IsLast
  <2>2. Len(Whole(t.re)) = t.part
    BY <1>2, <1>4, <2>1 DEF Midway
  <2>3. DOMAIN Whole(t.re) = 1..t.part
    <3>1. log[t.re[1]][t.re[2]].text \in Seq(Words) \ {<<>>}
      <4>1. /\ t.re[2] \in 1..seen[t.re[1]] /\ seen[t.re[1]] <= Len(log[t.re[1]])
            /\ seen[t.re[1]] \in Nat /\ log[t.re[1]] \in Seq(Entries)
            /\ log[t.re[1]][t.re[2]].by = "person"
        BY <1>4 DEF ReplyInv, Typed, Answering, Owes
      <4>2. t.re[2] \in 1..Len(log[t.re[1]])
        BY <4>1
      <4>3. log[t.re[1]][t.re[2]] \in Entries /\ log[t.re[1]][t.re[2]].text # <<>>
        BY <1>4, <4>1, <4>2 DEF ReplyInv, Typed
      <4> QED BY <4>3 DEF Entries
    <3>2. Whole(t.re) \in Seq(Seq(Words))
      BY <3>1, ReplyType DEF Whole
    <3> QED BY <2>2, <3>2
  <2>4. Replied(t.re[1], t.re[2])' <=>
           \A k \in DOMAIN Whole(t.re)' : Arrived(t.re, k)'
    <3>1. \A src, n : Replied(src, n)' <=>
             \A k \in DOMAIN Whole(<<src, n>>)' : Arrived(<<src, n>>, k)'
      BY DEF Replied, Arrived, Whole
    <3> QED BY <1>4, <3>1
  <2> QED BY <1>3, <2>3, <2>4
<1>9. RepliesWhole'
  <2> SUFFICES ASSUME NEW s \in Sources, NEW k \in 1..seen[s], Owed(s, k)'
               PROVE  \/ <<s, k>> \in failed \/ \E u \in tasks' : u.re = <<s, k>>
                      \/ Replied(s, k)'
    BY <1>1 DEF RepliesWhole
  <2>1. <<s, k>> \in failed \/ (\E u \in tasks : u.re = <<s, k>>) \/ Replied(s, k)
    BY <1>3, LongerKeeps DEF WholeInv, RepliesWhole
  <2>2. CASE t.re = <<s, k>>
    <3>1. CASE Rest(t) = {}
      BY <1>8, <2>2, <3>1
    <3>2. CASE Rest(t) # {}
      BY <1>1, <1>6, <2>2, <3>2
    <3> QED BY <3>1, <3>2
  <2>3. CASE t.re # <<s, k>>
    BY <1>1, <1>3, <2>1, <2>3, WholeKept
  <2> QED BY <2>2, <2>3
<1> QED BY <1>7, <1>9 DEF WholeInv

LEMMA SendFailsWhole ==
    ASSUME ReplyInv, WholeInv, NEW t \in tasks, SendFails(t) PROVE WholeInv'
<1>1. /\ tasks' = tasks \ {t}
      /\ log' = Posted(t) \/ UNCHANGED log
      /\ failed' = failed \cup {t.re}
      /\ UNCHANGED seen
  BY DEF SendFails
<1>2. Longer
  BY <1>1, PostedGrows, SameLogsLonger DEF ReplyInv
<1>3. \A u \in tasks' : Midway(u)'
  BY <1>1, <1>2, MidwayKept DEF WholeInv
<1>4. RepliesWhole'
  <2> SUFFICES ASSUME NEW s \in Sources, NEW k \in 1..seen[s], Owed(s, k)'
               PROVE  \/ <<s, k>> \in failed' \/ \E u \in tasks' : u.re = <<s, k>>
                      \/ Replied(s, k)'
    BY <1>1 DEF RepliesWhole
  <2>1. <<s, k>> \in failed \/ (\E u \in tasks : u.re = <<s, k>>) \/ Replied(s, k)
    BY <1>2, LongerKeeps DEF WholeInv, RepliesWhole
  <2> QED BY <1>1, <1>2, <2>1, WholeKept
<1> QED BY <1>3, <1>4 DEF WholeInv

\* A command that was read and gets a reply has it whole, or a call that is at
\* work on it, or one that has raised; nothing another call does changes that
\* (on_message 105-110, send_discord_message 222-225).
THEOREM RepliesWholeEver == Spec => []RepliesWhole
<1>1. Init => WholeInv
  BY DEF Init, WholeInv, RepliesWhole
<1>2. ReplyInv /\ WholeInv /\ [Next]_vars => WholeInv'
  <2> SUFFICES ASSUME ReplyInv, WholeInv, [Next]_vars PROVE WholeInv'
    OBVIOUS
  <2>1. CASE UNCHANGED vars
    <3>1. UNCHANGED <<log, seen, tasks, failed>>
      BY <2>1 DEF vars
    <3>2. Longer
      BY <3>1, SameLogsLonger DEF ReplyInv
    <3>3. \A t \in tasks' : Midway(t)'
      BY <3>1, <3>2, MidwayKept DEF WholeInv
    <3>4. RepliesWhole'
      BY <3>1, <3>2, LongerKeeps, WholeKept DEF WholeInv, RepliesWhole
    <3> QED BY <3>3, <3>4 DEF WholeInv
  <2>2. CASE \E src \in Sources, text \in Texts : Write(src, text)
    <3>1. PICK src \in Sources, text \in Texts : Write(src, text)
      BY <2>2
    <3> QED BY <3>1, WriteWhole
  <2>3. CASE \E src \in Sources : Receive(src)
    BY <2>3, ReceiveWhole
  <2>4. CASE \E t \in tasks : Send(t)
    BY <2>4, SendWhole
  <2>5. CASE \E t \in tasks : SendFails(t)
    BY <2>5, SendFailsWhole
  <2> QED BY <2>1, <2>2, <2>3, <2>4, <2>5 DEF Next
<1>3. WholeInv => RepliesWhole
  BY DEF WholeInv
<1> QED BY ReplyInvAlways, <1>1, <1>2, <1>3, PTL DEF Spec
=============================================================================
