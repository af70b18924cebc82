---------------------------- MODULE MCPgSession ----------------------------
(* Instances of PgSession for TLC. *)
EXTENDS PgSession

Groups == {<<"P", "E", "S">>, <<"P", "E", "E", "S">>, <<"P", "E", "P", "E", "S">>}

(* Three groups that the server completes, all extended or all simple. *)
CleanScripts ==
    {x \o y \o z : x, y, z \in Groups} \cup {<<"Q", "Q", "Q">>}

FailingCycle == {<<"Q">>, <<"QBad">>, <<"P", "E", "S">>, <<"PBad", "E", "S">>,
                 <<"P", "EBad", "S">>}

(* Three cycles of one query each, any of which may fail. *)
FailingScripts == {x \o y \o z : x, y, z \in FailingCycle}

MCSessions == [script : CleanScripts, pipelined : {TRUE}]
              \cup [script : FailingScripts, pipelined : {FALSE}]

Plan(role, direct, requests, of) ==
    [role |-> role, direct |-> direct, requests |-> requests, of |-> of]

Client == Plan("client", FALSE, <<>>, 1)
Absent == Plan("absent", FALSE, <<>>, 1)

(* One connection, and every session of the tracker. *)
Tracked ==
    {[session |-> s, tls |-> FALSE,
      plan |-> [c \in Conns |-> IF c = 1 THEN Client ELSE Absent]] : s \in MCSessions}

Openings == {<<>>, <<"ssl">>, <<"gss">>, <<"gss", "ssl">>, <<"ssl", "gss">>,
             <<"ssl", "ssl">>, <<"gss", "gss", "ssl">>}

(* One connection that opens in any way, by any client. *)
Opened ==
    {[session |-> [script |-> <<"Q">>, pipelined |-> FALSE], tls |-> t,
      plan |-> [c \in Conns |-> IF c = 1 THEN Plan(r, d, o, 1) ELSE Absent]] :
        t \in BOOLEAN, d \in BOOLEAN, o \in Openings,
        r \in {"client", "stranger", "replica"}}

(* Two sessions that share process IDs, and two cancels of one or both. *)
Cancelled ==
    {[session |-> [script |-> <<>>, pipelined |-> FALSE], tls |-> FALSE,
      plan |-> <<Client, Client, Plan("cancel", FALSE, <<>>, 1),
                 Plan("cancel", FALSE, <<>>, k)>>] : k \in 1..2}

MCWorkloads == Tracked \cup Opened \cup Cancelled
=============================================================================
