--------------------------- MODULE MCHttpExchange ---------------------------
(* Instances of HttpExchange for TLC. *)
EXTENDS HttpExchange

Frame(n) == [length |-> n, valid |-> TRUE]

Bodies == {<<>>, <<Frame(0), Frame(4)>>, <<Frame(1), Frame(0), Frame(1)>>}

BadBody == <<[length |-> 1, valid |-> FALSE], Frame(0)>>

(* A gRPC call of every shape that succeeds, and one that does not. *)
Calls ==
    [kind : {"grpc"}, answer : {"ok"}, request : Bodies, response : Bodies]
    \cup [kind : {"grpc"}, answer : {"ok", "failed", "invalid"},
          request : {<<Frame(1)>>, BadBody}, response : {<<Frame(1)>>, BadBody}]

Plain ==
    [kind : {"http"}, answer : {"ok", "failed"},
     request : {<<>>, <<Frame(4)>>}, response : {<<>>, <<Frame(3)>>, <<Frame(7)>>}]

Sockets ==
    [kind : {"websocket"}, answer : {"upgrade"},
     request : Bodies \cup {BadBody}, response : Bodies]
    \cup [kind : {"websocket"}, answer : {"ok", "failed", "invalid"},
          request : {<<>>}, response : {<<Frame(4)>>}]

Refused ==
    [kind : {"refused"}, answer : {"ok"}, request : {<<>>}, response : {<<>>}]

MCExchanges == Calls \cup Plain \cup Sockets \cup Refused
=============================================================================
