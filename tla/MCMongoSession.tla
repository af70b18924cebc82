--------------------------- MODULE MCMongoSession ---------------------------
(* An instance of MongoSession for TLC. *)
EXTENDS MongoSession

(* Every order of four requests around a conversation, and pipelines of    *)
(* commands after it.                                                      *)
MCScripts ==
    [1..4 -> {"start", "proof", "wrong", "cmd"}] \cup
    {<<"hello", "start", "proof", "cmd", "cmd">>,
     <<"start", "bad", "proof", "exhaust", "cmd">>,
     <<"start", "proof", "more", "exhaust", "hello">>,
     <<"start", "proof", "cmd", "more", "cmd">>}
=============================================================================
