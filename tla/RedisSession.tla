---------------------------- MODULE RedisSession ----------------------------
(***************************************************************************)
(* One client connection of the Redis adapter,                             *)
(* internal/proxy/redisadapter/redis.go: handle and inspectRequest.        *)
(*                                                                         *)
(* Until the client has authenticated, handle answers it alone.  Then it   *)
(* dials the server and three goroutines share the session: one reads      *)
(* requests and, once the main loop has queued them, writes them to the    *)
(* server; one reads the server's frames; the main loop matches both and   *)
(* owns the client's write side.  Each of them takes its steps alone, and  *)
(* they meet in the channels `commands`, `responses` and `errs`.           *)
(*                                                                         *)
(* A request is its position in the client's script; a frame carries the   *)
(* request it answers, or 0.  Bytes, rendering and redaction are left out. *)
(***************************************************************************)
EXTENDS Integers, Sequences, FiniteSets

CONSTANTS
    Scripts,      \* what the client may send: sequences over Kinds
    Passwords,    \* a subset of BOOLEAN: may the listener have a password
    MaxPending,   \* maxPendingCommands, 1024
    ResponseCap,  \* capacity of `responses`, 32
    NetCap,       \* requests in flight to the server, and frames back
    MaxPushes,    \* bound on the frames the server sends unasked
    PushTypes,    \* the types such frames have: "push" '>' '|', or "reply"
    Failures      \* TRUE when connections may break

(***************************************************************************)
(* Kinds of requests, by what inspectRequest does with them:               *)
(*   plain     forwarded once authenticated                                *)
(*   pinned    SELECT and RESET: answered locally                          *)
(*   auth      AUTH with the listener's credentials: answered locally      *)
(*   hello     HELLO with them: forwarded without them                     *)
(*   wrong     AUTH or HELLO with others, or malformed: answered locally   *)
(***************************************************************************)
Kinds == {"plain", "pinned", "auth", "hello", "wrong"}

ASSUME RedisAssumption ==
    /\ Scripts \subseteq Seq(Kinds)
    /\ Passwords \subseteq BOOLEAN /\ Failures \in BOOLEAN
    /\ MaxPending \in Nat \ {0} /\ ResponseCap \in Nat \ {0}
    /\ NetCap \in Nat \ {0} /\ MaxPushes \in Nat
    /\ PushTypes \subseteq {"push", "reply"}

VARIABLES
    script,      \* the requests of this client
    password,    \* the listener has a password
    phase,       \* "auth", "dial", "relay" or "closed"
    read,        \* how many requests were read
    authed,      \* the listener's credentials were given
    reader,      \* the request goroutine
    commands,    \* chan pending: holds one request at most
    accepted,    \* the request whose `accepted` channel is closed, or 0
    queue,       \* requests that wait for their answer
    toServer,    \* requests on their way to the server
    fromServer,  \* frames on their way back
    responses,   \* chan responseEvent
    responder,   \* the goroutine that reads the server's frames is running
    errs,        \* errorsChannel holds an error
    pushes,      \* frames sent unasked
    out,         \* frames written to the client
    recorded,    \* observations: the request and the request answered
    ctxDone,     \* the adapter's context is cancelled
    stuck        \* the main loop is in a write the client does not take

client == <<script, password, read, authed>>
net    == <<toServer, fromServer, pushes>>
seen   == <<out, recorded>>
vars   == <<client, phase, reader, commands, accepted, queue, net, responses,
            responder, errs, seen, ctxDone, stuck>>

Frame(to, type) == [to |-> to, type |-> type]

(* Fault: a command is forwarded whether or not the client authenticated. *)
ForwardsFault(kind, auth) == kind \in {"plain", "hello"}

(* inspectRequest: the request goes to the server ... *)
Forwards(kind, auth) ==
    \/ kind = "plain" /\ auth
    \/ kind = "hello" /\ password

(* ... and whether the client is authenticated after it. *)
AuthedAfter(kind, auth) == auth \/ (password /\ kind \in {"auth", "hello"})

(***************************************************************************)
(* The listener is authenticated from the start when it has no password.   *)
(***************************************************************************)
Init ==
    /\ script \in Scripts /\ password \in Passwords
    /\ phase = IF password THEN "auth" ELSE "dial"
    /\ read = 0
    /\ authed = ~password
    /\ reader = [pc |-> "none", n |-> 0, local |-> FALSE]
    /\ commands = <<>> /\ accepted = 0 /\ queue = <<>>
    /\ toServer = <<>> /\ fromServer = <<>> /\ responses = <<>>
    /\ responder = FALSE /\ errs = FALSE /\ pushes = 0
    /\ out = <<>> /\ recorded = <<>>
    /\ ctxDone = FALSE /\ stuck = FALSE

-----------------------------------------------------------------------------
(***************************************************************************)
(* Before the relay                                                        *)
(***************************************************************************)

(* An answer of Portscope's own: written to the client and recorded. *)
AnswerLocally(n) ==
    /\ out' = Append(out, Frame(n, "reply"))
    /\ recorded' = Append(recorded, [req |-> n, to |-> n])

(* One turn of the loop that runs until the client is authenticated. *)
Authenticate ==
    LET n == read + 1
        kind == script[n]
    IN  /\ phase = "auth" /\ read < Len(script)
        /\ read' = n
        /\ authed' = AuthedAfter(kind, authed)
        /\ IF Forwards(kind, authed)
             THEN /\ phase' = "dial"
                  /\ reader' = [pc |-> "offer", n |-> n, local |-> FALSE]
                  /\ UNCHANGED seen
             ELSE /\ phase' = IF authed' THEN "dial" ELSE "auth"
                  /\ AnswerLocally(n)
                  /\ UNCHANGED reader
        /\ UNCHANGED <<script, password, commands, accepted, queue, net, responses,
                       responder, errs, ctxDone, stuck>>

(* readFrame or the write fails: handle returns. *)
AuthenticateFails ==
    /\ phase = "auth" /\ Failures
    /\ phase' = "closed"
    /\ UNCHANGED <<client, reader, commands, accepted, queue, net, responses,
                   responder, errs, seen, ctxDone, stuck>>

(* dialUpstream authenticates, selects the database; the goroutines start. *)
Dial ==
    /\ phase = "dial"
    /\ phase' = "relay"
    /\ reader' = IF reader.pc = "offer" THEN reader
                                        ELSE [reader EXCEPT !.pc = "read"]
    /\ responder' = TRUE
    /\ UNCHANGED <<client, commands, accepted, queue, net, responses, errs,
                   seen, ctxDone, stuck>>

DialFails ==
    /\ phase = "dial" /\ (Failures \/ ctxDone)
    /\ phase' = "closed"
    /\ reader' = [reader EXCEPT !.pc = "none"]
    /\ UNCHANGED <<client, commands, accepted, queue, net, responses,
                   responder, errs, seen, ctxDone, stuck>>

-----------------------------------------------------------------------------
(***************************************************************************)
(* The request goroutine                                                   *)
(***************************************************************************)
Done == phase = "closed"

ReadRequest ==
    LET n == read + 1
        kind == script[n]
    IN  /\ reader.pc = "read" /\ ~Done /\ read < Len(script)
        /\ read' = n
        /\ authed' = AuthedAfter(kind, authed)
        /\ reader' = [pc |-> "offer", n |-> n, local |-> ~Forwards(kind, authed)]
        /\ UNCHANGED <<script, password, phase, commands, accepted, queue, net,
                       responses, responder, errs, seen, ctxDone, stuck>>

(* commands <- decision *)
Offer ==
    /\ phase = "relay" /\ reader.pc = "offer"
    /\ Len(commands) < MaxPending
    /\ commands' = Append(commands, [n |-> reader.n, local |-> reader.local])
    /\ reader' = [reader EXCEPT !.pc = "await"]
    /\ UNCHANGED <<client, phase, accepted, queue, net, responses, responder,
                   errs, seen, ctxDone, stuck>>

(* Faults: the request is written before the main loop has queued it; the   *)
(* main loop never closes the channel.                                      *)
AwaitedFaultAtOnce == TRUE
AwaitedFaultNever == FALSE

(* <-decision.accepted *)
Awaited == accepted = reader.n

(* The request is queued; unless it is answered locally, write it. *)
Forward ==
    /\ reader.pc = "await" /\ ~Done /\ Awaited
    /\ IF reader.local
         THEN UNCHANGED toServer
         ELSE /\ Len(toServer) < NetCap
              /\ toServer' = Append(toServer, reader.n)
    /\ reader' = [reader EXCEPT !.pc = "read"]
    /\ UNCHANGED <<client, phase, commands, accepted, queue, fromServer,
                   pushes, responses, responder, errs, seen, ctxDone, stuck>>

(* The read or the write fails: report it to the main loop and return. *)
ReaderFails ==
    /\ Failures /\ ~Done
    /\ reader.pc = "read" \/ (reader.pc = "await" /\ Awaited /\ ~reader.local)
    /\ errs' = TRUE
    /\ reader' = [reader EXCEPT !.pc = "none"]
    /\ UNCHANGED <<client, phase, commands, accepted, queue, net, responses,
                   responder, seen, ctxDone, stuck>>

(* Fault: the goroutine does not watch `done` while it waits. *)
ReaderStopsFault == reader.pc = "read"

(* <-done, or the closed connection fails the read. *)
ReaderStops == reader.pc # "none"

ReaderDone ==
    /\ Done /\ ReaderStops
    /\ reader' = [reader EXCEPT !.pc = "none"]
    /\ UNCHANGED <<client, phase, commands, accepted, queue, net, responses,
                   responder, errs, seen, ctxDone, stuck>>

-----------------------------------------------------------------------------
(***************************************************************************)
(* The server, and the goroutine that reads its frames                     *)
(***************************************************************************)

(* A local answer is at the head of the queue. *)
Flushable == queue # <<>> /\ Head(queue).local

ServerAnswers ==
    /\ toServer # <<>> /\ Len(fromServer) < NetCap
    /\ toServer' = Tail(toServer)
    /\ fromServer' = Append(fromServer, Frame(Head(toServer), "reply"))
    /\ UNCHANGED <<client, phase, reader, commands, accepted, queue, pushes,
                   responses, responder, errs, seen, ctxDone, stuck>>

ServerPushes ==
    /\ phase = "relay" /\ pushes < MaxPushes /\ Len(fromServer) < NetCap
    /\ \E type \in PushTypes : fromServer' = Append(fromServer, Frame(0, type))
    /\ pushes' = pushes + 1
    /\ UNCHANGED <<client, phase, reader, commands, accepted, queue, toServer,
                   responses, responder, errs, seen, ctxDone, stuck>>

(* A frame the main loop is still writing has left the channel. *)
InChannel == IF stuck /\ ~Flushable THEN Len(responses) - 1 ELSE Len(responses)

ReadResponse ==
    /\ responder /\ fromServer # <<>> /\ InChannel < ResponseCap
    /\ responses' = Append(responses, Head(fromServer))
    /\ fromServer' = Tail(fromServer)
    /\ UNCHANGED <<client, phase, reader, commands, accepted, queue, toServer,
                   pushes, responder, errs, seen, ctxDone, stuck>>

(* The server closes the connection: the error is the last event. *)
ResponderFails ==
    /\ responder /\ ~Done /\ Failures /\ InChannel < ResponseCap
    /\ responses' = Append(responses, Frame(0, "error"))
    /\ responder' = FALSE
    /\ UNCHANGED <<client, phase, reader, commands, accepted, queue, net, errs,
                   seen, ctxDone, stuck>>

ResponderDone ==
    /\ responder /\ Done
    /\ responder' = FALSE
    /\ UNCHANGED <<client, phase, reader, commands, accepted, queue, net,
                   responses, errs, seen, ctxDone, stuck>>

-----------------------------------------------------------------------------
(***************************************************************************)
(* The main loop                                                           *)
(***************************************************************************)

(* The inner loop: local answers that are due, before anything else. *)
Flush ==
    /\ phase = "relay" /\ Flushable
    /\ AnswerLocally(Head(queue).n)
    /\ queue' = Tail(queue)
    /\ stuck' = FALSE
    /\ UNCHANGED <<client, phase, reader, commands, accepted, net, responses,
                   responder, errs, ctxDone>>

(* The select of the outer loop. *)
Selecting == phase = "relay" /\ ~Flushable /\ ~stuck

(* commandInput is nil while the queue is full. *)
HasRoom == Len(queue) < MaxPending

(* Fault: a request that is answered locally overtakes the others. *)
EnqueuedFault(item) ==
    IF item.local THEN <<item>> \o queue ELSE Append(queue, item)

(* queue = append(queue, item) *)
Enqueued(item) == Append(queue, item)

(* case item := <-commandInput *)
Accept ==
    /\ Selecting /\ commands # <<>> /\ HasRoom
    /\ queue' = Enqueued(Head(commands))
    /\ commands' = Tail(commands)
    /\ accepted' = Head(commands).n
    /\ UNCHANGED <<client, phase, reader, net, responses, responder, errs,
                   seen, ctxDone, stuck>>

(* A frame that answers nothing: of a push type, or nothing is waiting. *)
Unsolicited(frame) == frame.type = "push" \/ queue = <<>>

(* case event := <-responses, and the write of the frame. *)
Respond ==
    LET frame == Head(responses)
    IN  /\ phase = "relay" /\ ~Flushable
        /\ responses # <<>> /\ frame.type # "error"
        /\ responses' = Tail(responses)
        /\ out' = Append(out, frame)
        /\ recorded' = Append(recorded,
                          [req |-> IF Unsolicited(frame) THEN 0
                                   ELSE Head(queue).n,
                           to  |-> frame.to])
        /\ queue' = IF Unsolicited(frame) THEN queue ELSE Tail(queue)
        /\ stuck' = FALSE
        /\ UNCHANGED <<client, phase, reader, commands, accepted, net,
                       responder, errs, ctxDone>>

(***************************************************************************)
(* The write of Flush or Respond does not go through, as the client stops  *)
(* reading.  It has no deadline: the main loop stays in it until the       *)
(* client reads again, which completes it, or its connection fails.        *)
(***************************************************************************)
WriteBlocks ==
    /\ phase = "relay" /\ Failures /\ ~stuck
    /\ Flushable \/ (responses # <<>> /\ Head(responses).type # "error")
    /\ stuck' = TRUE
    /\ UNCHANGED <<client, phase, reader, commands, accepted, queue, net,
                   responses, responder, errs, seen, ctxDone>>

(* An error event of either goroutine, or the cancelled context. *)
Ending ==
    \/ responses # <<>> /\ Head(responses).type = "error"
    \/ errs
    \/ ctxDone

Close ==
    /\ phase' = "closed"
    /\ UNCHANGED <<client, reader, commands, accepted, queue, net, responses,
                   responder, errs, seen, ctxDone, stuck>>

(* handle returns and its deferred calls close both connections. *)
Stop == Selecting /\ Ending /\ Close

(* The client cannot be written to. *)
WriteFails ==
    /\ phase = "relay" /\ Failures
    /\ Flushable \/ responses # <<>>
    /\ Close

Cancel ==
    /\ Failures /\ ~ctxDone
    /\ ctxDone' = TRUE
    /\ UNCHANGED <<client, phase, reader, commands, accepted, queue, net,
                   responses, responder, errs, seen, stuck>>

-----------------------------------------------------------------------------
Reader    == ReadRequest \/ Offer \/ Forward \/ ReaderFails \/ ReaderDone
Responder == ReadResponse \/ ResponderFails \/ ResponderDone
Main      == Authenticate \/ AuthenticateFails \/ Dial \/ DialFails
             \/ Flush \/ Accept \/ Respond \/ Stop \/ WriteFails \/ WriteBlocks

Next == Reader \/ Responder \/ Main \/ ServerAnswers \/ ServerPushes \/ Cancel

Spec == Init /\ [][Next]_vars

(***************************************************************************)
(* Fairness: the goroutines run, the server answers what it reads, and a   *)
(* select whose context is cancelled is not for ever served otherwise.  A  *)
(* write to a client that reads goes through; nothing makes the client     *)
(* read again once it has stopped.                                         *)
(***************************************************************************)
FairSpec ==
    /\ Spec
    /\ WF_vars(ReadRequest) /\ WF_vars(Offer) /\ WF_vars(Forward)
    /\ WF_vars(ReaderDone) /\ WF_vars(ReadResponse) /\ WF_vars(ResponderDone)
    /\ WF_vars(Dial \/ DialFails)
    /\ WF_vars(~stuck /\ Flush) /\ WF_vars(~stuck /\ Respond) /\ WF_vars(Accept)
    /\ WF_vars(ServerAnswers) /\ WF_vars(Stop)

-----------------------------------------------------------------------------
(***************************************************************************)
(* Properties                                                              *)
(***************************************************************************)
Requests == 1..Len(script)
Pair     == [n : Requests, local : BOOLEAN]
Frames   == [to : Requests \cup {0}, type : {"reply", "push", "error"}]

(* Every variable has its type, and the queue its bound. *)
TypeOK ==
    /\ phase \in {"auth", "dial", "relay", "closed"}
    /\ read \in 0..Len(script) /\ authed \in BOOLEAN
    /\ reader.pc \in {"none", "read", "offer", "await"} /\ stuck \in BOOLEAN
    /\ commands \in Seq(Pair) /\ Len(commands) <= 1
    /\ accepted \in Requests \cup {0}
    /\ queue \in Seq(Pair) /\ Len(queue) <= MaxPending
    /\ toServer \in Seq(Requests)
    /\ fromServer \in Seq(Frames) /\ responses \in Seq(Frames)
    /\ out \in Seq(Frames)
    /\ recorded \in Seq([req : Requests \cup {0}, to : Requests \cup {0}])

(* How many of the first k frames the client was sent are answers. *)
AnswersIn(k) == Cardinality({i \in 1..k : out[i].to # 0})

(***************************************************************************)
(* The client's pipeline stays in order: the k-th answer it sees is the    *)
(* answer to its k-th request, whether the server or Portscope gave it     *)
(* (TestLocalResponsesRetainPipelineOrder), before and after the dial.     *)
(***************************************************************************)
AnswersInOrder ==
    \A k \in 1..Len(out) : out[k].to # 0 => out[k].to = AnswersIn(k)

(***************************************************************************)
(* "The adapter ... correlates ordered pipelines, observes errors and push *)
(* frames" (docs/protocols.md): every observation pairs a request with its *)
(* own answer, and an unasked frame with no request.                       *)
(***************************************************************************)
Correlated == \A k \in 1..Len(recorded) : recorded[k].req = recorded[k].to

(***************************************************************************)
(* "Redis listener authentication is terminated before an upstream         *)
(* connection is authenticated" (docs/architecture.md): the server is      *)
(* dialled, and sent a request, only after a request that authenticated    *)
(* the client; AUTH itself never reaches it.                               *)
(***************************************************************************)
NothingBeforeAuth ==
    password =>
        /\ phase \in {"dial", "relay"} =>
              \E n \in 1..read : script[n] \in {"auth", "hello"}
        /\ \A i \in 1..Len(toServer) :
              /\ script[toServer[i]] \notin {"auth", "wrong", "pinned"}
              /\ \E n \in 1..toServer[i] : script[n] \in {"auth", "hello"}

(* The client never stops reading for good. *)
ClientReads == []<>~stuck

(***************************************************************************)
(* No bound of a queue or a channel leaves the three goroutines waiting    *)
(* for each other: every request of a client that reads its answers is     *)
(* answered, unless a connection breaks or the context is cancelled and    *)
(* the session ends.                                                       *)
(***************************************************************************)
AllAnswered ==
    ClientReads =>
        ((phase = "relay") ~> (Done \/ AnswersIn(Len(out)) = Len(script)))

(***************************************************************************)
(* A cancelled context ends the session, once the server was dialled,      *)
(* unless a write to the client blocks for good: handle watches ctx.Done   *)
(* only between its writes, and they have no deadline.  However the        *)
(* session ended, no goroutine is left behind on a channel nobody reads.   *)
(***************************************************************************)
SessionEnds ==
    /\ Done ~> Done /\ reader.pc = "none" /\ ~responder
    /\ ClientReads => (ctxDone /\ phase \in {"dial", "relay"} ~> Done)

=============================================================================
