--------------------------- MODULE MCRedisSession ---------------------------
(* An instance of RedisSession for TLC. *)
EXTENDS RedisSession

(* Every pipeline of three requests, and longer ones that authenticate at  *)
(* once, late, twice or not at all and mix the two sides' answers.         *)
MCScripts ==
    [1..3 -> Kinds] \cup
    {<<"plain", "pinned", "plain", "plain">>, <<"pinned", "auth", "plain", "plain">>,
     <<"hello", "plain", "pinned", "plain">>, <<"wrong", "auth", "hello", "pinned">>,
     <<"plain", "hello", "plain", "auth">>, <<"auth", "plain", "wrong", "plain">>}
=============================================================================
