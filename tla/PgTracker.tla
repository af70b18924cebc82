----------------------------- MODULE PgTracker -----------------------------
(***************************************************************************)
(* The PostgreSQL tracker, internal/proxy/postgresadapter/tracker.go, that *)
(* pairs the messages of client and server into query observations, with   *)
(* the two relay goroutines that feed it (postgres.go).                    *)
(*                                                                         *)
(* relayFrontend shows a message to the tracker and then writes it to the  *)
(* server; relayBackend shows it the server's messages.  The tracker's     *)
(* lock makes each a step.  The server is external: it follows the         *)
(* extended-query rules, so after an error it ignores what it reads up to  *)
(* the next Sync.  Messages carry only what the tracker dispatches on.     *)
(***************************************************************************)
EXTENDS Integers, Sequences, FiniteSets

CONSTANTS
    Sessions,   \* what clients do: their messages, a sequence over Kinds,
                \* and whether they send on without awaiting ReadyForQuery
    NetCap      \* messages in flight in each direction

(***************************************************************************)
(* Client messages; the server rejects those marked Bad.                   *)
(*   Q, QBad      Query                                                    *)
(*   P, PBad      Parse or Bind                                            *)
(*   E, EBad      Execute                                                  *)
(*   S            Sync                                                     *)
(***************************************************************************)
Kinds == {"Q", "QBad", "P", "PBad", "E", "EBad", "S"}

Bad == {"QBad", "PBad", "EBad"}

ASSUME PgAssumption ==
    /\ Sessions \subseteq [script : Seq(Kinds), pipelined : BOOLEAN]
    /\ NetCap \in Nat \ {0}

VARIABLES
    script,      \* the messages of this client
    pipelined,   \* it does not await ReadyForQuery
    sent,        \* how many of them were relayed
    toServer,    \* messages on their way to the server, by position
    skipping,    \* the server ignores messages up to the next Sync
    truth,       \* what became of each message at the server (history)
    fromServer,  \* the server's messages: "C", "E", "Z" or "1"
    ready,       \* ReadyForQuery messages the client was sent
    pending,     \* state.pending: position, simple, and error text (or not)
    deferred,    \* state.deferred # nil
    recorded     \* observations: position, outcome, and error text (or not)

vars == <<script, pipelined, sent, toServer, skipping, truth, fromServer, ready,
          pending, deferred, recorded>>

Simple(n) == script[n] \in {"Q", "QBad"}

(* The Query and Sync messages among the first n: each brings one "Z". *)
Cycles(n) == Cardinality({i \in 1..n : script[i] \in {"Q", "QBad", "S"}})

Init ==
    /\ \E s \in Sessions : script = s.script /\ pipelined = s.pipelined
    /\ sent = 0 /\ toServer = <<>> /\ skipping = FALSE
    /\ truth = [n \in 1..Len(script) |-> "none"]
    /\ fromServer = <<>> /\ ready = 0
    /\ pending = <<>> /\ deferred = FALSE /\ recorded = <<>>

-----------------------------------------------------------------------------
(***************************************************************************)
(* tracker.frontend and the write of relayFrontend                         *)
(***************************************************************************)

(* An Execute takes over the error of the Parse or Bind before it. *)
TakesDeferred(n) == ~Simple(n) /\ deferred

(* The client has begun an extended query and not sent its Sync. *)
InCycle == sent > 0 /\ script[sent] \in {"P", "PBad", "E", "EBad"}

Frontend ==
    LET n == sent + 1
        entry == [n |-> n, simple |-> Simple(n), error |-> TakesDeferred(n)]
    IN  /\ sent < Len(script) /\ Len(toServer) < NetCap
        /\ pipelined \/ InCycle \/ ready = Cycles(sent)
        /\ sent' = n
        /\ toServer' = Append(toServer, n)
        /\ IF script[n] \in {"Q", "QBad", "E", "EBad"}
             THEN /\ pending' = Append(pending, entry)
                  /\ deferred' = (deferred /\ ~entry.error)
             ELSE UNCHANGED <<pending, deferred>>
        /\ UNCHANGED <<script, pipelined, skipping, truth, fromServer, ready, recorded>>

-----------------------------------------------------------------------------
(***************************************************************************)
(* The server                                                              *)
(***************************************************************************)
Reply(n) ==
    IF skipping
      THEN IF script[n] = "S" THEN <<"Z">> ELSE <<>>
      ELSE CASE script[n] = "S"    -> <<"Z">>
             [] script[n] = "Q"    -> <<"C", "Z">>
             [] script[n] = "QBad" -> <<"E", "Z">>
             [] script[n] = "P"    -> <<"1">>
             [] script[n] = "E"    -> <<"C">>
             [] OTHER              -> <<"E">>

Server ==
    LET n == Head(toServer)
    IN  /\ toServer # <<>> /\ Len(fromServer) < NetCap
        /\ toServer' = Tail(toServer)
        /\ fromServer' = fromServer \o Reply(n)
        /\ truth' = [truth EXCEPT ![n] =
                       IF skipping /\ script[n] # "S" THEN "skipped"
                       ELSE IF script[n] \in Bad THEN "error" ELSE "ok"]
        /\ skipping' = IF script[n] = "S" THEN FALSE
                       ELSE skipping \/ script[n] \in {"PBad", "EBad"}
        /\ UNCHANGED <<script, pipelined, sent, ready, pending, deferred, recorded>>

-----------------------------------------------------------------------------
(***************************************************************************)
(* tracker.backend and the write of relayBackend                           *)
(***************************************************************************)

(* finishCurrent: record the oldest pending query. *)
Finish(outcome, error) ==
    /\ recorded' = Append(recorded, [n |-> Head(pending).n,
                                     outcome |-> outcome, error |-> error])
    /\ pending' = Tail(pending)

(* ErrorResponse: kept for the next Execute when no query is pending. *)
OnError ==
    IF pending = <<>>
      THEN deferred' = TRUE /\ UNCHANGED <<pending, recorded>>
      ELSE Finish("error", TRUE) /\ UNCHANGED deferred

(* Fault: a command tag ends no query. *)
OnCompleteFault == UNCHANGED <<pending, recorded, deferred>>

(* CommandComplete, EmptyQueryResponse, PortalSuspended: ends an Execute. *)
OnComplete ==
    IF pending # <<>> /\ ~Head(pending).simple
      THEN Finish("ok", Head(pending).error) /\ UNCHANGED deferred
      ELSE UNCHANGED <<pending, recorded, deferred>>

(* Fault: ReadyForQuery ends the oldest query, whatever it is. *)
OnReadyFault ==
    IF pending = <<>> THEN UNCHANGED <<pending, recorded, deferred>>
    ELSE Finish("ok", FALSE) /\ deferred' = FALSE

(* ReadyForQuery: ends a simple query, and an Execute that has an error. *)
OnReady ==
    IF pending = <<>> THEN UNCHANGED <<pending, recorded, deferred>>
    ELSE /\ deferred' = FALSE
         /\ IF Head(pending).simple \/ Head(pending).error
              THEN Finish(IF Head(pending).error THEN "error" ELSE "ok",
                          Head(pending).error)
              ELSE UNCHANGED <<pending, recorded>>

Backend ==
    LET typ == Head(fromServer)
    IN  /\ fromServer # <<>>
        /\ fromServer' = Tail(fromServer)
        /\ CASE typ = "E" -> OnError
             [] typ = "C" -> OnComplete
             [] typ = "Z" -> OnReady
             [] OTHER     -> UNCHANGED <<pending, recorded, deferred>>
        /\ ready' = IF typ = "Z" THEN ready + 1 ELSE ready
        /\ UNCHANGED <<script, pipelined, sent, toServer, skipping, truth>>

Next == Frontend \/ Server \/ Backend

Spec == Init /\ [][Next]_vars

-----------------------------------------------------------------------------
(***************************************************************************)
(* Properties                                                              *)
(***************************************************************************)

(* Every variable has its type, and a query is pending or recorded once. *)
TypeOK ==
    LET entries == [n : 1..Len(script), simple : BOOLEAN, error : BOOLEAN]
    IN  /\ pending \in Seq(entries)
        /\ recorded \in Seq([n : 1..Len(script), outcome : {"ok", "error"},
                             error : BOOLEAN])
        /\ deferred \in BOOLEAN
        /\ fromServer \in Seq({"C", "E", "Z", "1"})
        /\ ready \in 0..Cycles(Len(script))
        /\ Len(recorded) + Len(pending) <= sent

(***************************************************************************)
(* "... correlates frontend and backend protocol messages into query       *)
(* observations" (docs/postgres-compatibility.md): an observation without  *)
(* an error is of a query the server completed, and one with an error is   *)
(* of a query the server rejected or left out because of an earlier error. *)
(***************************************************************************)
Truthful ==
    \A k \in 1..Len(recorded) :
        LET r == recorded[k]
        IN  IF r.outcome = "ok" /\ ~r.error
              THEN truth[r.n] = "ok"
              ELSE r.outcome = "error" /\ truth[r.n] # "ok"

(***************************************************************************)
(* Once the client has its last ReadyForQuery, every query is recorded,    *)
(* exactly once, and nothing of this exchange is left to be blamed on the  *)
(* next one.                                                               *)
(***************************************************************************)
Settled ==
    sent = Len(script) /\ ready = Cycles(sent) /\ fromServer = <<>>
    => /\ pending = <<>> /\ ~deferred
       /\ Len(recorded) = Cardinality({n \in 1..sent :
                             script[n] \in {"Q", "QBad", "E", "EBad"}})
=============================================================================
