--------------------------- MODULE MCReplyServer ---------------------------
(***************************************************************************)
(* Small instances of ReplyServer for TLC.                                 *)
(***************************************************************************)
EXTENDS ReplyServer

CONSTANTS c1, c2, tty

\* Commands of each kind, echoed commands, the last in the middle of another
\* one, and chat.
AllTexts == {<<"chat">>, <<"hello">>, <<"get">>, <<"get", "scores">>,
             <<"get", "standings">>, <<"nowhere">>,
             <<"echo">>, <<"echo", "chat">>, <<"echo", "echo", "hello">>,
             <<"hello", "echo", "chat">>}
=============================================================================
