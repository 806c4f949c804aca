---------------------------- MODULE MessageSplit ----------------------------
(***************************************************************************)
(* How send_discord_message cuts a long message in two at a line break.    *)
(* A character is "nl", the line break, "x", any other ASCII character, or *)
(* "u", one outside ASCII.  Positions count from 1 here and from 0 in the  *)
(* code.                                                                   *)
(***************************************************************************)
EXTENDS Integers, Sequences, FiniteSets, FiniteSetsExt

CONSTANTS Limit,       \* max_discord_msg_length
          MaxLength    \* bound: the longest message looked at

ASSUME LimitOK == Limit \in Nat \ {0} /\ MaxLength \in Nat

VARIABLE message       \* the message to be sent, as get_scores and the other
                       \* commands put it together

Chars == {"x", "nl", "u"}

SplitInit == message = <<>>

Write(c) == /\ Len(message) < MaxLength
            /\ message' = Append(message, c)

SplitNext == \E c \in Chars : Write(c)

SplitSpec == SplitInit /\ [][SplitNext]_message
-----------------------------------------------------------------------------
\* message.encode('ascii', 'ignore'), character by character
Ascii(m) == LET kept[n \in 0..Len(m)] == IF n = 0 THEN <<>>
                                         ELSE IF m[n] = "u" THEN kept[n - 1]
                                              ELSE Append(kept[n - 1], m[n])
            IN kept[Len(m)]

\* find(message, '\n'), positions counted from 0.
Breaks(m) == {i - 1 : i \in {j \in DOMAIN m : m[j] = "nl"}}

\* Mutant: the limit counts from 1.
CutLate(m) == Max({i \in Breaks(m) : i <= Limit + 1} \cup {0})

\* The last break that leaves the first half within the limit; 0 for none.
Cut(m) == Max({i \in Breaks(m) : i <= Limit} \cup {0})

IsSplit(m) == Len(m) > Limit /\ Cut(m) # 0

\* Mutant: the second half starts at the character after the next.
HalvesSkip(m) == IF IsSplit(m)
                 THEN <<SubSeq(m, 1, Cut(m)), SubSeq(m, Cut(m) + 3, Len(m))>>
                 ELSE <<Ascii(m), <<>>>>

\* The two halves; the whole message when it is not split.
Halves(m) == IF IsSplit(m)
             THEN <<SubSeq(m, 1, Cut(m)), SubSeq(m, Cut(m) + 2, Len(m))>>
             ELSE <<Ascii(m), <<>>>>

\* What channel.send is called with.
Sent(m) == {Halves(m)[1], Halves(m)[2]} \ {<<>>}
-----------------------------------------------------------------------------
\* The longest stretch without a line break.
LongestLine(m) ==
    Max({0} \cup {p[2] - p[1] : p \in
          {q \in (0..Len(m)) \X (0..Len(m)) :
              q[1] <= q[2] /\ \A k \in (q[1] + 1)..q[2] : m[k] # "nl"}})

\* A message goes out in halves Discord accepts if every line is shorter than
\* a half and the whole shorter than two halves by its longest line, as the
\* table of "get standings" is, which has one row for each team.
HalvesFit == /\ LongestLine(message) < Limit
             /\ Len(message) <= 2 * Limit + 1 - LongestLine(message)
             => \A half \in Sent(message) : Len(half) <= Limit

\* How many of the first i characters of m are ASCII.
AsciiUpTo(m, i) == Cardinality({j \in 1..i : m[j] # "u"})

\* Whatever is sent is what was to be said: put together again, the halves
\* are the message, but for the line break between them; and a message sent
\* whole keeps its ASCII characters, all of them and in their order, and
\* nothing else.
NothingLost ==
    LET h == Halves(message)
    IN IF IsSplit(message)
       THEN h[1] \o <<"nl">> \o h[2] = message
       ELSE /\ h[2] = <<>>
            /\ Len(h[1]) = AsciiUpTo(message, Len(message))
            /\ \A i \in DOMAIN message :
                  message[i] # "u" => h[1][AsciiUpTo(message, i)] = message[i]
=============================================================================
