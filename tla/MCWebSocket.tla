---------------------------- MODULE MCWebSocket ----------------------------
(***************************************************************************)
(* WebSocket for TLC: callers send whole and split characters in one or    *)
(* two frames; the peer sends messages in fragments, control frames        *)
(* between them, and frames a client must refuse.  Two peers never stop.   *)
(***************************************************************************)
EXTENDS WebSocket

MCMessages == {Frame("text", TRUE, <<"lead", "tail">>), Frame("text", FALSE, <<"lead">>),
               Frame("cont", TRUE, <<"tail">>), Frame("cont", FALSE, <<>>), Frame("binary", FALSE, <<"char">>)}
Fragments ==
    {Frame("text", FALSE, <<"lead">>), Frame("cont", FALSE, <<"tail">>), Frame("cont", TRUE, <<"tail">>),
     Frame("binary", TRUE, <<"tail">>), Frame("ping", TRUE, <<"char">>)}
AllFrames ==
    Fragments
        \cup {Frame("text", TRUE, <<"char">>), Frame("text", TRUE, <<"lead">>), Frame("cont", FALSE, <<>>)}
        \cup {Frame("pong", TRUE, <<>>), Frame("pong", TRUE, <<"char", "char", "char">>)}
        \cup {Frame("close", TRUE, body) : body \in {<<>>, <<"char", "char", "char">>, <<"bad">>}}
        \cup {Frame("junk", TRUE, <<>>)}
Endless == {Frame("text", FALSE, <<"lead">>), Frame("cont", FALSE, <<"tail">>), Frame("cont", FALSE, <<>>),
            Frame("cont", TRUE, <<"tail">>), Frame("ping", TRUE, <<"char">>), Frame("pong", TRUE, <<>>)}

Use(sends, frames, set, autoReply, h2) ==
    [sends |-> sends, frames |-> frames, endless |-> FALSE, peer |-> set, autoReply |-> autoReply, h2 |-> h2]
EndlessUse(sends, autoReply) ==
    [sends |-> sends, frames |-> 0, endless |-> TRUE, peer |-> Endless, autoReply |-> autoReply, h2 |-> FALSE]
MCCallers ==
    {Use(3, 0, AllFrames, TRUE, FALSE), Use(2, 1, AllFrames, TRUE, FALSE), Use(1, 1, AllFrames, TRUE, TRUE),
     Use(0, 2, AllFrames, TRUE, FALSE), Use(0, 2, AllFrames, FALSE, FALSE), Use(0, 2, AllFrames, FALSE, TRUE),
     Use(0, 3, Fragments, TRUE, FALSE), Use(0, 3, Fragments, FALSE, FALSE),
     EndlessUse(0, TRUE), EndlessUse(0, FALSE)}
=============================================================================
