---------------------------- MODULE AmqpSession -----------------------------
(***************************************************************************)
(* One client connection of the RabbitMQ adapter,                          *)
(* internal/proxy/rabbitadapter: negotiate in handshake.go, the two relay  *)
(* goroutines of adapter.go and the inspector they share, inspect.go.      *)
(*                                                                         *)
(* The adapter ends the client's login itself and logs in to the broker    *)
(* with the configured credentials.  Then each goroutine reads a frame,    *)
(* writes it to the other side and tells the inspector, which pairs        *)
(* methods with their answers and puts contents together, per channel and  *)
(* direction.  The inspector's mutex makes each of its calls one step.     *)
(*                                                                         *)
(* Frames carry an identity, so that a record can be compared with what    *)
(* was exchanged: <<"c2s", n>> is the client's nth frame, <<"s2c", n>> the *)
(* broker's nth.  Arguments and properties are left out.                   *)
(***************************************************************************)
EXTENDS Integers, Sequences, FiniteSets, SequencesExt, Bags

CONSTANTS
    Scripts,       \* what the client may send after the handshake
    Channels,      \* the channels the scripts use
    ServerTunes,   \* the limits the broker may announce
    ClientTunes,   \* the limits the client may ask for
    FrameMin,      \* frameMin, 4096 in the code
    HardFrameMax,  \* hardFrameMax, 128 MiB in the code
    MaxDeliveries, \* bound on the messages the broker delivers to a consumer
    Failures       \* TRUE when connections may break and time out

(***************************************************************************)
(* Frames: a method m, a content header that announces `size` bytes (-1    *)
(* when it cannot be parsed), a body of `size` bytes, a heartbeat or a     *)
(* frame of another type.  `re` is the identity of the request that an     *)
(* answer of the broker belongs to.                                        *)
(***************************************************************************)
NoId == <<"none", 0>>

Frame(type, ch, m, size) ==
    [type |-> type, ch |-> ch, m |-> m, size |-> size, id |-> NoId, re |-> NoId]

NoFrame == Frame("none", 0, "none", 0)

Ids == {"none", "c2s", "s2c"} \X Nat

(* Only a method has a name, and a body is not of negative size. *)
Methods == {"none", "declare", "bind", "get", "open", "consume", "declare-nowait",
            "publish", "close-ok", "start-ok", "update-secret", "declare-ok", "bind-ok",
            "get-ok", "get-empty", "open-ok", "consume-ok", "close", "deliver", "return"}
Frames ==
    {f \in [type : {"none", "method", "header", "body", "beat", "other"},
            ch : Channels \cup {0}, m : Methods, size : Int, id : Ids, re : Ids] :
        (f.type # "method" => f.m = "none") /\ (f.type = "body" => f.size >= 0)}

(* setExpectedResponse: what the synchronous methods wait for.  One of     *)
(* each shape stands for the table's twenty-four; a method with noWait set *)
(* goes by another name and expects nothing.                               *)
Expected(m) ==
    CASE m = "declare"   -> {"declare-ok"}
      [] m = "bind"      -> {"bind-ok"}
      [] m = "get"       -> {"get-ok", "get-empty"}
      [] m = "open"      -> {"open-ok"}
      [] m = "consume"   -> {"consume-ok"}
      [] OTHER           -> {}

(* carriesContent *)
Contents == {"publish", "return", "deliver", "get-ok"}

(* The methods by which the client would replace its credentials.          *)
Credentials == {"start-ok", "update-secret"}

Tunes == [frameMax : Nat, channelMax : Nat]

ASSUME AmqpAssumption ==
    /\ ServerTunes \subseteq Tunes /\ ClientTunes \subseteq Tunes
    /\ FrameMin \in Nat /\ HardFrameMax \in Nat /\ FrameMin < HardFrameMax
    /\ MaxDeliveries \in Nat /\ Failures \in BOOLEAN
    /\ Scripts \subseteq Seq(Frames)
    /\ \A s \in Scripts : \A i \in 1..Len(s) : s[i].id = NoId /\ s[i].re = NoId

Directions == {"c2s", "s2c"}

VARIABLES
    script,      \* the frames this client sends
    phase,       \* the step of negotiate, then "relay", "wait", "fail" or "closed"
    login,       \* the client's credentials were right
    vhost,       \* the client named the listener's virtual host
    broker,      \* what the broker was sent by negotiate
    server,      \* the limits the broker announced
    client,      \* the client's limits, then the connection's
    connect,     \* the outcomes of the CONNECT records
    read,        \* how many of the client's frames were read
    relay,       \* per direction, the goroutine and the frame it holds
    errs,        \* errors in errorsChannel
    pending,     \* inspector.pending
    content,     \* inspector.content
    records,     \* the interactions recorded: a bag
    toBroker,    \* frames on their way to the broker
    outbox,      \* per channel, what the broker has to send
    fromBroker,  \* frames on their way back
    shut,        \* channels the broker closed and the client did not confirm
    made,        \* how many frames the broker sent
    passed,      \* per direction, the frames written (history)
    ctxDone      \* the adapter's context is cancelled

negotiation == <<login, vhost, broker, server, client, connect>>
inspector   == <<pending, content, records>>
net         == <<toBroker, outbox, fromBroker, shut, made>>
vars == <<script, phase, negotiation, read, relay, errs, inspector, net, passed,
          ctxDone>>

NoTune == [frameMax |-> 0, channelMax |-> 0]

Idle == [pc |-> "none", frame |-> NoFrame, prepared |-> FALSE]

NoContent ==
    [frames |-> {}, req |-> NoId, re |-> NoId, m |-> "none", size |-> 0, received |-> 0]

Init ==
    /\ script \in Scripts
    /\ phase = "header" /\ login = FALSE /\ vhost = FALSE /\ broker = <<>>
    /\ server = NoTune /\ client = NoTune /\ connect = <<>>
    /\ read = 0 /\ relay = [d \in Directions |-> Idle] /\ errs = 0
    /\ pending = [ch \in Channels \cup {0} |-> <<>>]
    /\ content = [k \in Directions \X (Channels \cup {0}) |-> NoContent]
    /\ records = EmptyBag
    /\ toBroker = <<>> /\ outbox = [ch \in Channels \cup {0} |-> <<>>]
    /\ fromBroker = <<>> /\ shut = {} /\ made = 0
    /\ passed = [d \in Directions |-> {}]
    /\ ctxDone = FALSE

-----------------------------------------------------------------------------
(***************************************************************************)
(* negotiate: each step reads a message, checks it and sends the next one. *)
(* Every check that fails closes the upstream connection.                  *)
(***************************************************************************)
Steps ==
    {"header", "dial", "tls", "start", "login", "tune", "tune-ok", "open", "open-ok"}

Unrelated == <<script, read, errs, inspector, net, passed, ctxDone>>

(* The client's protocol header. *)
ClientHeader ==
    /\ phase = "header"
    /\ phase' = "dial"
    /\ UNCHANGED <<negotiation, relay, Unrelated>>

(* The TCP connection, within ten seconds; then TLS, if it is configured,  *)
(* or the protocol header to the broker.                                   *)
Dial ==
    /\ phase = "dial" /\ ~ctxDone
    /\ \/ phase' = "start" /\ broker' = Append(broker, "header")
       \/ phase' = "tls" /\ UNCHANGED broker
    /\ UNCHANGED <<login, vhost, server, client, connect, relay, Unrelated>>

(* HandshakeContext, which only a cancel ends while the broker is silent:  *)
(* the connection gets its deadline afterwards.                            *)
Secure ==
    /\ phase = "tls"
    /\ phase' = "start"
    /\ broker' = Append(broker, "header")
    /\ UNCHANGED <<login, vhost, server, client, connect, relay, Unrelated>>

(* The broker's start, which must offer PLAIN, and the listener's. *)
ServerStart ==
    /\ phase = "start"
    /\ phase' = "login"
    /\ UNCHANGED <<negotiation, relay, Unrelated>>

(* validPlainResponse, and the mechanism *)
Accepts(right) == right

(* The client's start-ok, then the configured credentials to the broker. *)
ClientLogin ==
    \E right \in BOOLEAN :
        /\ phase = "login" /\ Accepts(right)
        /\ login' = right
        /\ phase' = "tune"
        /\ broker' = Append(broker, "login")
        /\ UNCHANGED <<vhost, server, client, connect, relay, Unrelated>>

(* The broker's tune is passed on. *)
ServerTune ==
    \E tune \in ServerTunes :
        /\ phase = "tune"
        /\ server' = tune
        /\ phase' = "tune-ok"
        /\ UNCHANGED <<login, vhost, broker, client, connect, relay, Unrelated>>

(* validateTune; 0 is no limit *)
ValidTune(s, c) ==
    /\ c.frameMax = 0 \/ c.frameMax >= FrameMin
    /\ s.frameMax = 0 \/ c.frameMax \in 1..s.frameMax
    /\ s.channelMax = 0 \/ c.channelMax \in 1..s.channelMax

(* The client's tune-ok is passed on. *)
ClientTune ==
    \E tune \in ClientTunes :
        /\ phase = "tune-ok" /\ ValidTune(server, tune)
        /\ client' = tune
        /\ phase' = "open"
        /\ broker' = Append(broker, "tune-ok")
        /\ UNCHANGED <<login, vhost, server, connect, relay, Unrelated>>

(* listenerVHost = options.ListenerVHost *)
SameVHost(right) == right

(* The client's open, which must name the listener's virtual host; the     *)
(* broker, which the adapter is logged in to by now, is sent its own.      *)
ClientOpen ==
    \E right \in BOOLEAN :
        /\ phase = "open" /\ SameVHost(right)
        /\ vhost' = right
        /\ phase' = "open-ok"
        /\ broker' = Append(broker, "open")
        /\ UNCHANGED <<login, server, client, connect, relay, Unrelated>>

(* open-ok is passed on, CONNECT is recorded and the relays are started. *)
ServerOpen ==
    /\ phase = "open-ok"
    /\ phase' = "relay"
    /\ connect' = Append(connect, "ok")
    /\ server' = [server EXCEPT !.channelMax = 0]
    /\ client' = [client EXCEPT !.channelMax = 0]
    /\ relay' = [d \in Directions |-> [Idle EXCEPT !.pc = "read"]]
    /\ UNCHANGED <<login, vhost, broker, Unrelated>>

(* A check fails, a connection breaks or the fifteen seconds are over. *)
NegotiateFails ==
    /\ phase \in Steps
    /\ \/ Failures
       \/ phase \in {"dial", "tls"} /\ ctxDone
       \/ phase = "login" /\ ~Accepts(FALSE)
       \/ phase = "tune-ok" /\ \E tune \in ClientTunes : ~ValidTune(server, tune)
       \/ phase = "open" /\ ~SameVHost(FALSE)
    /\ phase' = "closed"
    /\ connect' = Append(connect, "error")
    /\ UNCHANGED <<login, vhost, broker, server, client, relay, Unrelated>>

Negotiate ==
    ClientHeader \/ Dial \/ Secure \/ ServerStart \/ ClientLogin \/ ServerTune \/ ClientTune
    \/ ClientOpen \/ ServerOpen \/ NegotiateFails

-----------------------------------------------------------------------------
(***************************************************************************)
(* The inspector                                                           *)
(***************************************************************************)

(* An interaction: the request and what answered it, if any, the frames it *)
(* shows and whether its outcome is ok.                                    *)
Record(req, re, frames, ok) == [req |-> req, re |-> re, frames |-> frames, ok |-> ok]

(* recordMethod: a frame by itself; the broker's channel.close is an error. *)
MethodRecord(frame, forced) ==
    Record(NoId, frame.re, {frame.id}, ~forced /\ frame.m # "close")

(* finishContent: a returned message is an error. *)
ContentRecord(state, failed) ==
    Record(state.req, state.re, state.frames, ~failed /\ state.m # "return")

RpcRecord(request, response) ==
    Record(request.id, response.re, {request.id, response.id}, TRUE)

FailedRecord(request) == Record(request.id, NoId, {request.id}, FALSE)

Synchronous(frame) == frame.type = "method" /\ Expected(frame.m) # {}

(* The place in the queue of the request that takePending takes, or 0. *)
Match(frame) ==
    SelectInSeq(pending[frame.ch], LAMBDA request : frame.m \in Expected(request.m))

Taken(frame) == [pending EXCEPT ![frame.ch] = RemoveAt(@, Match(frame))]

Add(bag) == records' = records (+) bag

(* observe, for a method that carries content *)
ObserveContent(d, frame) ==
    LET key     == <<d, frame.ch>>
        answers == d = "s2c" /\ frame.m = "get-ok" /\ Match(frame) # 0
        request == pending[frame.ch][Match(frame)]
    IN  /\ content' = [content EXCEPT ![key] =
              [frames   |-> {frame.id} \cup (IF answers THEN {request.id} ELSE {}),
               req      |-> IF answers THEN request.id ELSE NoId,
               re |-> frame.re, m |-> frame.m, size |-> 0, received |-> 0]]
        /\ pending' = IF answers THEN Taken(frame) ELSE pending
        /\ IF content[key] # NoContent
           THEN Add(SetToBag({ContentRecord(content[key], TRUE)}))
           ELSE UNCHANGED records

(* observe, for another method: an answer, or an event of its own *)
ObserveMethod(d, frame) ==
    /\ UNCHANGED content
    /\ \/ /\ d = "s2c" /\ Match(frame) # 0
          /\ Add(SetToBag({RpcRecord(pending[frame.ch][Match(frame)], frame)}))
          /\ pending' = Taken(frame)
       \/ /\ d = "c2s" \/ Match(frame) = 0
          /\ Add(SetToBag({MethodRecord(frame, FALSE)}))
          /\ UNCHANGED pending

(* observe, for a content header *)
ObserveHeader(d, frame) ==
    LET key   == <<d, frame.ch>>
        state == [content[key] EXCEPT !.frames = @ \cup {frame.id}, !.size = frame.size]
    IN  /\ UNCHANGED pending
        /\ \/ /\ content[key] = NoContent
              /\ Add(SetToBag({MethodRecord(frame, TRUE)}))
              /\ UNCHANGED content
           \/ /\ content[key] # NoContent /\ frame.size <= 0
              /\ Add(SetToBag({ContentRecord(state, frame.size < 0)}))
              /\ content' = [content EXCEPT ![key] = NoContent]
           \/ /\ content[key] # NoContent /\ frame.size > 0
              /\ content' = [content EXCEPT ![key] = state]
              /\ UNCHANGED records

(* state.received >= state.bodySize *)
Complete(state) == state.received >= state.size

(* observe, for a content body *)
ObserveBody(d, frame) ==
    LET key   == <<d, frame.ch>>
        state == [content[key] EXCEPT !.frames = @ \cup {frame.id},
                                      !.received = @ + frame.size]
    IN  /\ UNCHANGED pending
        /\ \/ /\ content[key].size = 0
              /\ Add(SetToBag({MethodRecord(frame, TRUE)}))
              /\ UNCHANGED content
           \/ /\ content[key].size > 0 /\ Complete(state)
              /\ Add(SetToBag({ContentRecord(state, state.received # state.size)}))
              /\ content' = [content EXCEPT ![key] = NoContent]
           \/ /\ content[key].size > 0 /\ ~Complete(state)
              /\ content' = [content EXCEPT ![key] = state]
              /\ UNCHANGED records

Observed(d, frame) ==
    \/ frame.type = "beat" /\ UNCHANGED inspector
    \/ frame.type = "method" /\ frame.m \in Contents /\ ObserveContent(d, frame)
    \/ frame.type = "method" /\ frame.m \notin Contents /\ ObserveMethod(d, frame)
    \/ frame.type = "header" /\ ObserveHeader(d, frame)
    \/ frame.type = "body" /\ ObserveBody(d, frame)
    \/ /\ frame.type = "other"
       /\ Add(SetToBag({MethodRecord(frame, TRUE)}))
       /\ UNCHANGED <<pending, content>>

-----------------------------------------------------------------------------
(***************************************************************************)
(* relayAMQP: one goroutine for each direction                             *)
(***************************************************************************)
Closed == phase \in {"wait", "fail", "closed"}

Breaks == Closed \/ Failures

(* Fault: the channel holds one error, as many as the select takes. *)
ErrorCapFault == 1

(* make(chan error, 2) *)
ErrorCap == 2

Report(d) ==
    /\ errs < ErrorCap /\ errs' = errs + 1
    /\ relay' = [relay EXCEPT ![d].pc = "end"]

(* The bytes of a frame; its eight bytes of framing count as one here. *)
Weight(frame) == IF frame.type = "body" THEN frame.size + 1 ELSE 1

(* readFrame's limit *)
Limit == IF client.frameMax \in 1..(HardFrameMax - 1) THEN client.frameMax
         ELSE HardFrameMax

(* Fault: only the first login is kept from the broker. *)
BlockedFault(d, frame) == d = "c2s" /\ frame.m = "start-ok"

Blocked(d, frame) == d = "c2s" /\ frame.m \in Credentials

(* Fault: a request is filed when the broker has it. *)
PreparesFault(d, frame) == FALSE

(* prepareRequest files a request before it is written. *)
Prepares(d, frame) == d = "c2s" /\ Synchronous(frame)

Incoming(d) ==
    IF d = "c2s" THEN SubSeq(script, read + 1, Len(script)) ELSE fromBroker

Identified(d, frame) == IF d = "c2s" THEN [frame EXCEPT !.id = <<d, read + 1>>] ELSE frame

Advance(d) ==
    /\ read' = IF d = "c2s" THEN read + 1 ELSE read
    /\ fromBroker' = IF d = "s2c" THEN Tail(fromBroker) ELSE fromBroker

Read(d) ==
    LET frame == Identified(d, Head(Incoming(d)))
    IN  /\ relay[d].pc = "read" /\ ~Closed /\ Incoming(d) # <<>>
        /\ Weight(frame) <= Limit /\ ~Blocked(d, frame)
        /\ Advance(d)
        /\ relay' = [relay EXCEPT ![d] =
              [pc |-> "write", frame |-> frame, prepared |-> Prepares(d, frame)]]
        /\ pending' = IF Prepares(d, frame)
                      THEN [pending EXCEPT ![frame.ch] = Append(@, frame)] ELSE pending
        /\ UNCHANGED <<script, phase, negotiation, errs, content, records, toBroker,
                       outbox, shut, made, passed, ctxDone>>

(* The frame is larger than agreed. *)
ReadOversized(d) ==
    /\ relay[d].pc = "read" /\ ~Closed /\ Incoming(d) # <<>>
    /\ Weight(Head(Incoming(d))) > Limit
    /\ Report(d)
    /\ UNCHANGED <<script, phase, negotiation, read, inspector, net, passed, ctxDone>>

(* observeBlocked *)
ReadBlocked(d) ==
    LET frame == Identified(d, Head(Incoming(d)))
    IN  /\ relay[d].pc = "read" /\ ~Closed /\ Incoming(d) # <<>>
        /\ Blocked(d, frame)
        /\ Advance(d)
        /\ Report(d)
        /\ Add(SetToBag({MethodRecord(frame, TRUE)}))
        /\ UNCHANGED <<script, phase, negotiation, pending, content, toBroker, outbox,
                       shut, made, passed, ctxDone>>

(* The connection breaks, or the frame is invalid. *)
ReadFails(d) ==
    /\ relay[d].pc = "read" /\ Breaks
    /\ Report(d)
    /\ UNCHANGED <<script, phase, negotiation, read, inspector, net, passed, ctxDone>>

Write(d) ==
    LET frame == relay[d].frame
    IN  /\ relay[d].pc = "write" /\ ~Closed
        /\ relay' = [relay EXCEPT ![d].pc = IF relay[d].prepared THEN "read" ELSE "observe"]
        /\ toBroker' = IF d = "c2s" THEN Append(toBroker, frame) ELSE toBroker
        /\ passed' = [passed EXCEPT ![d] = @ \cup {frame}]
        /\ UNCHANGED <<script, phase, negotiation, read, errs, inspector, outbox,
                       fromBroker, shut, made, ctxDone>>

WriteFails(d) ==
    /\ relay[d].pc = "write" /\ Breaks
    /\ Report(d)
    /\ UNCHANGED <<script, phase, negotiation, read, inspector, net, passed, ctxDone>>

(* observe files a request that was not prepared; Prepares files them all. *)
Observe(d) ==
    LET frame == relay[d].frame
    IN  /\ relay[d].pc = "observe"
        /\ relay' = [relay EXCEPT ![d].pc = "read"]
        /\ IF d = "c2s" /\ Synchronous(frame)
           THEN /\ pending' = [pending EXCEPT ![frame.ch] = Append(@, frame)]
                /\ UNCHANGED <<content, records>>
           ELSE Observed(d, frame)
        /\ UNCHANGED <<script, phase, negotiation, read, errs, net, passed, ctxDone>>

Relay(d) ==
    Read(d) \/ ReadOversized(d) \/ ReadBlocked(d) \/ ReadFails(d) \/ Write(d)
    \/ WriteFails(d) \/ Observe(d)

-----------------------------------------------------------------------------
(***************************************************************************)
(* relayAMQPConnection                                                     *)
(***************************************************************************)

(* The select, and the two calls of Close: what is on its way is lost. *)
End ==
    /\ phase = "relay"
    /\ \/ errs > 0 /\ errs' = errs - 1
       \/ ctxDone /\ errs' = errs
    /\ phase' = "wait"
    /\ toBroker' = <<>> /\ fromBroker' = <<>>
    /\ outbox' = [ch \in DOMAIN outbox |-> <<>>]
    /\ UNCHANGED <<script, negotiation, read, relay, inspector, shut, made,
                   passed, ctxDone>>

(* Fault: the main goroutine does not wait for the relays. *)
WaitedFault == TRUE

(* relays.Wait() *)
Waited == \A d \in Directions : relay[d].pc = "end"

(* failPending: every request and every content that is left is an error. *)
FailPending ==
    LET requests == UNION {Range(pending[ch]) : ch \in DOMAIN pending}
        states   == Range(content) \ {NoContent}
    IN  /\ phase = "wait" /\ Waited
        /\ phase' = "closed"
        /\ Add(SetToBag({FailedRecord(r) : r \in requests}
                        \cup {ContentRecord(c, TRUE) : c \in states}))
        /\ pending' = [ch \in DOMAIN pending |-> <<>>]
        /\ content' = [k \in DOMAIN content |-> NoContent]
        /\ UNCHANGED <<script, negotiation, read, relay, errs, net, passed, ctxDone>>

(* Once the connections are closed, it makes no difference. *)
Cancel ==
    /\ Failures /\ ~ctxDone /\ ~Closed
    /\ ctxDone' = TRUE
    /\ UNCHANGED <<script, phase, negotiation, read, relay, errs, inspector, net, passed>>

-----------------------------------------------------------------------------
(***************************************************************************)
(* The broker: it handles the frames of a channel in order, and sends the  *)
(* frames of different channels in any order.  It may close a channel      *)
(* instead of answering, and then drops what comes until the client        *)
(* confirms.                                                               *)
(***************************************************************************)
Answer(request, m) == [Frame("method", request.ch, m, 0) EXCEPT !.re = request.id]

Content(frame, parts) ==
    <<frame, Frame("header", frame.ch, "none", parts)>>
        \o [i \in 1..parts |-> Frame("body", frame.ch, "none", 1)]

(* n messages, of three frames each *)
Deliveries(ch, n) ==
    [i \in 1..(3 * n) |-> Content(Frame("method", ch, "deliver", 0), 1)[((i - 1) % 3) + 1]]

Answers(request) ==
    CASE request.m = "declare" ->
            {<<Answer(request, "declare-ok")>>, <<Frame("method", request.ch, "close", 0)>>}
      [] request.m = "bind"    -> {<<Answer(request, "bind-ok")>>}
      [] request.m = "open"    -> {<<Answer(request, "open-ok")>>}
      [] request.m = "consume" ->
            {<<Answer(request, "consume-ok")>> \o Deliveries(request.ch, n) :
                n \in 0..MaxDeliveries}
      [] request.m = "get"     ->
            {<<Answer(request, "get-empty")>>, Content(Answer(request, "get-ok"), 1)}
      [] request.type = "header" /\ request.size = 0 ->
            {<<>>, Content(Frame("method", request.ch, "return", 0), 0)}
      [] OTHER                 -> {<<>>}

BrokerTakes ==
    LET frame == Head(toBroker)
    IN  /\ toBroker # <<>> /\ ~Closed
        /\ toBroker' = Tail(toBroker)
        /\ \/ /\ frame.ch \in shut
              /\ shut' = IF frame.m = "close-ok" THEN shut \ {frame.ch} ELSE shut
              /\ UNCHANGED outbox
           \/ \E answer \in Answers(frame) :
              /\ frame.ch \notin shut
              /\ outbox' = [outbox EXCEPT ![frame.ch] = @ \o answer]
              /\ shut' = IF answer # <<>> /\ answer[1].m = "close"
                         THEN shut \cup {frame.ch} ELSE shut
        /\ UNCHANGED <<script, phase, negotiation, read, relay, errs, inspector,
                       fromBroker, made, passed, ctxDone>>

BrokerSends ==
    \E ch \in Channels :
        /\ outbox[ch] # <<>> /\ ~Closed
        /\ made' = made + 1
        /\ fromBroker' = Append(fromBroker,
                                [Head(outbox[ch]) EXCEPT !.id = <<"s2c", made'>>])
        /\ outbox' = [outbox EXCEPT ![ch] = Tail(@)]
        /\ UNCHANGED <<script, phase, negotiation, read, relay, errs, inspector,
                       toBroker, shut, passed, ctxDone>>

-----------------------------------------------------------------------------
Next ==
    \/ Negotiate \/ End \/ FailPending \/ Cancel
    \/ \E d \in Directions : Relay(d)
    \/ BrokerTakes \/ BrokerSends

Spec == Init /\ [][Next]_vars

(***************************************************************************)
(* Fairness: the steps of the handshake have their deadline, but for TLS   *)
(* with the broker, which a cancel ends and nothing else has to; the main  *)
(* goroutine runs, and so do the relays once the connections are closed    *)
(* and nothing blocks them.  Nothing is assumed of client and broker.      *)
(***************************************************************************)
FairSpec ==
    /\ Spec
    /\ WF_vars((phase # "tls" \/ ctxDone) /\ Negotiate) /\ WF_vars(End) /\ WF_vars(FailPending)
    /\ \A d \in Directions : WF_vars(Closed /\ Relay(d))

-----------------------------------------------------------------------------
(***************************************************************************)
(* Properties                                                              *)
(***************************************************************************)

(***************************************************************************)
(* "It tracks pending synchronous methods per channel and correlates their *)
(* *-ok response" (docs/rabbitmq-compatibility.md): a request that is      *)
(* recorded with an answer is recorded with its own, however the channels  *)
(* and the two goroutines interleave; no answer is taken for that of       *)
(* another request, nor recorded as an event of the broker's own because   *)
(* its request is not pending yet or no longer.                            *)
(***************************************************************************)
Paired == \A r \in DOMAIN records : r.re = r.req \/ (r.re = NoId /\ ~r.ok)

(* A frame is in one record, and that record was made once. *)
Once(id) ==
    \E r \in DOMAIN records :
        /\ id \in r.frames /\ records[r] = 1
        /\ \A q \in DOMAIN records : id \in q.frames => q = r

(* The bytes of the bodies among some of the client's frames. *)
Bytes(ids) ==
    UNION {{i} \X (1..script[i].size) : i \in {j \in ids : script[j].type = "body"}}

(* A published message that is recorded as ok came whole. *)
WholeMessage(r) ==
    LET ids == {id[2] : id \in r.frames}
    IN  /\ r.ok /\ \A id \in r.frames : id[1] = "c2s"
        /\ \E i \in ids : script[i].m = "publish"
        => \E h \in ids : /\ script[h].type = "header"
                          /\ script[h].size = Cardinality(Bytes(ids))

(***************************************************************************)
(* No frame is in two records, and a message is recorded as ok only with   *)
(* its header and bodies of together the announced size; and when the      *)
(* session is over, however it ended, every frame that was passed on (but  *)
(* for heartbeats) is in a record, and every request whose answer reached  *)
(* the client is recorded with it, not failed by the shutdown.             *)
(***************************************************************************)
Accounted ==
    /\ \A r \in DOMAIN records :
          WholeMessage(r) /\ \A id \in r.frames : Once(id)
    /\ phase = "closed" => \A d \in Directions : \A frame \in passed[d] :
          /\ frame.type # "beat" => Once(frame.id)
          /\ frame.re # NoId => \E r \in DOMAIN records : r.req = frame.re /\ r.re = r.req

(* 0 is no limit. *)
Below(asked, announced) == announced = 0 \/ (asked # 0 /\ asked <= announced)

(***************************************************************************)
(* "Application credentials therefore never become broker credentials, and *)
(* a failed listener login cannot trigger upstream authentication"         *)
(* (docs/rabbitmq-compatibility.md): the broker is logged in to only for a *)
(* client that knows the listener's credentials.  Its virtual host is      *)
(* opened, and a frame passed on in either direction, only when the client *)
(* named the listener's virtual host as well, which negotiate checks after *)
(* the broker's login; no frame of the client then replaces the identity,  *)
(* and none is larger than the broker announced, whatever the client asked *)
(* for and however the two limits were agreed on.                          *)
(***************************************************************************)
IdentityKept ==
    /\ "login" \in Range(broker) => login
    /\ "open" \in Range(broker) \/ (\E d \in Directions : passed[d] # {}) => login /\ vhost
    /\ \A d \in Directions : \A frame \in passed[d] :
          /\ frame.m \notin Credentials
          /\ Below(Weight(frame), server.frameMax) /\ Weight(frame) <= HardFrameMax

(* handleConnection returned and its goroutines did. *)
Over == phase = "closed" /\ \A d \in Directions : relay[d].pc \in {"none", "end"}

(***************************************************************************)
(* The handshake ends, unless the broker leaves the adapter's TLS          *)
(* handshake unanswered and nobody cancels; and a connection that could    *)
(* not be negotiated, or whose context is cancelled, or where either relay *)
(* failed, ends: both relays return, nothing is left pending, and CONNECT  *)
(* was recorded once.                                                      *)
(***************************************************************************)
SessionEnds ==
    (phase \in Steps \/ errs > 0 \/ ctxDone) ~>
        \/ phase = "relay" /\ errs = 0 /\ ~ctxDone
        \/ phase = "tls" /\ ~ctxDone
        \/ Over /\ Len(connect) = 1 /\ \A ch \in DOMAIN pending : pending[ch] = <<>>
=============================================================================
