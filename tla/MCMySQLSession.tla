--------------------------- MODULE MCMySQLSession ---------------------------
(* Instances of MySQLSession for TLC. *)
EXTENDS MySQLSession

Cmd(k) == [k |-> k, q |-> 0, id |-> 1, parts |-> 1]
Text(k, q) == [Cmd(k) EXCEPT !.q = q]
Big(k, parts) == [Cmd(k) EXCEPT !.q = 1, !.parts = parts]

(* Queries with large and small packets; a statement that is prepared,     *)
(* given long data, executed, closed or lost and prepared again; the other *)
(* shapes of replies; commands that are refused.                           *)
MCScripts ==
    {<<Text("query", 1), Big("query", 3), Cmd("ping")>>,
     <<Text("prepare", 1), Cmd("user"), Cmd("fetch"), Cmd("fields")>>,
     <<Cmd("stats"), Cmd("replica"), Cmd("option"), Cmd("ping")>>,
     <<Big("ping", 2), Big("user", 2), Cmd("gtid"), Cmd("quit"), Cmd("ping")>>}
    \cup {<<Text("prepare", 1)>> \o [middle EXCEPT ![3] = Cmd("execute")] :
            middle \in [1..3 -> {Text("prepare", 2), Cmd("long"), Cmd("execute"),
                                 Cmd("restart"), Cmd("close"), Cmd("reset")}]}

(* One query after another. *)
QueryScripts == {<<Text("query", 1), Text("query", 2)>>}
=============================================================================
