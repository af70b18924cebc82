---------------------------- MODULE HttpExchange ----------------------------
(***************************************************************************)
(* One exchange of the HTTP adapter, internal/proxy/httpadapter: the       *)
(* handler that observes and forwards it (http.go), the gRPC profile that  *)
(* takes message envelopes out of both bodies while they stream (grpc.go), *)
(* and the frames of a connection that was upgraded to WebSocket           *)
(* (websocket.go).                                                         *)
(*                                                                         *)
(* The handler and net/http's transport run at the same time: the          *)
(* transport reads the request body, through the tee that inspects it,     *)
(* before, while and after the response is copied.  Bodies are counted in  *)
(* bytes; a frame is a gRPC message or a WebSocket frame.  Headers,        *)
(* encodings and the rendering of payloads are left out.                   *)
(***************************************************************************)
EXTENDS Integers, Sequences, FiniteSets

CONSTANTS
    Exchanges,        \* what clients ask and servers answer
    HeaderLen,        \* bytes of an envelope or of a frame's header
    Chunks,           \* sizes of a read
    CaptureLimit,     \* captureLimit
    MaxSnapshots,     \* maxGRPCSnapshots
    MaxObservations   \* maxGRPCMessageObservations

Directions == {"request", "response"}

(* An invalid frame has a bad compressed flag or a bad length. *)
Frames == [length : Nat, valid : BOOLEAN]

(***************************************************************************)
(* Kinds: "http", "grpc" and "websocket"; "refused" is a CONNECT, gRPC     *)
(* over HTTP/1, an upgrade to an h2c target or a bad TLS configuration.    *)
(* Answers: "ok", "failed" is a status of 400 or more or a gRPC status,    *)
(* "upgrade" is the 101 that proxyWebSocket gets, and "invalid" a 101      *)
(* without its headers, or HTTP/1 where gRPC needs HTTP/2.                 *)
(***************************************************************************)
ASSUME HttpAssumption ==
    /\ Exchanges \subseteq [kind : {"http", "grpc", "websocket", "refused"},
                            answer : {"ok", "failed", "upgrade", "invalid"},
                            request : Seq(Frames), response : Seq(Frames)]
    /\ \A x \in Exchanges : x.answer = "upgrade" => x.kind = "websocket"
    /\ HeaderLen \in Nat \ {0} /\ Chunks \subseteq Nat \ {0}
    /\ CaptureLimit \in Nat /\ MaxSnapshots \in Nat /\ MaxObservations \in Nat

VARIABLES
    exchange,    \* the exchange
    phase,       \* where the handler is
    err,         \* metadata.err is set, or the status is an error
    chunk,       \* per direction: size of the bytes read, and how many are not parsed
    passed,      \* bytes sent on to the other side
    total,       \* captureBuffer.total
    stream,      \* grpcMessageStream; of a WebSocket direction, its frame
    messages,    \* observations of messages and frames, per direction
    log,         \* observations of exchanges
    copier,      \* copyWebSocketFrames: "run", or how it ended
    closed,      \* the hijacked connections are closed
    stopped,     \* the context is cancelled
    early,       \* history: the server answered before it had the request
    broken       \* history: a connection failed

inspection == <<total, stream, messages>>
socket == <<copier, closed>>
history == <<early, broken>>
vars == <<exchange, phase, err, chunk, passed, inspection, log, socket, stopped, history>>

NoStream == [header |-> 0, active |-> FALSE, length |-> 0, remaining |-> 0,
             capture |-> 0, count |-> 0, snapshots |-> 0, truncated |-> FALSE,
             flawed |-> FALSE]

Both(x) == [d \in Directions |-> x]

Init ==
    /\ exchange \in Exchanges
    /\ phase = "start" /\ err = FALSE
    /\ chunk = Both([size |-> 0, left |-> 0])
    /\ passed = Both(0) /\ total = Both(0)
    /\ stream = Both(NoStream) /\ messages = Both(<<>>) /\ log = <<>>
    /\ copier = Both("run") /\ closed = FALSE /\ stopped = FALSE
    /\ early = FALSE /\ broken = FALSE

-----------------------------------------------------------------------------
(***************************************************************************)
(* The bytes of a body                                                     *)
(***************************************************************************)
Framed == exchange.kind = "grpc" \/ exchange.answer = "upgrade"

(* The position at which frame m of direction d ends. *)
End(d, m) ==
    LET head == IF Framed THEN HeaderLen ELSE 0
        end[i \in 0..m] == IF i = 0 THEN 0 ELSE end[i - 1] + head + exchange[d][i].length
    IN  end[m]

Size(d) == End(d, Len(exchange[d]))

(* The frame whose header ends at position p; anywhere else are other bytes. *)
FrameAt(d, p) ==
    LET at == {m \in 1..Len(exchange[d]) : End(d, m - 1) + HeaderLen = p}
    IN  IF at = {} THEN [length |-> 0, valid |-> FALSE]
        ELSE exchange[d][CHOOSE m \in at : TRUE]

Smaller(a, b) == IF a < b THEN a ELSE b

-----------------------------------------------------------------------------
(***************************************************************************)
(* grpcMessageStream.feed, one iteration of its loop at a time, under the  *)
(* lock of the stream                                                      *)
(***************************************************************************)

(* Fault: the position in the header is not reset. *)
CompletedFault(s) ==
    [s EXCEPT !.active = FALSE, !.capture = 0, !.count = @ + 1,
              !.snapshots = Smaller(MaxSnapshots, @ + 1), !.header = 1]

(* completeMessage *)
Completed(s) ==
    [s EXCEPT !.active = FALSE, !.remaining = 0, !.length = 0, !.capture = 0,
              !.count = @ + 1,
              !.snapshots = Smaller(MaxSnapshots, @ + 1),
              !.truncated = @ \/ s.capture # s.length \/ s.snapshots = MaxSnapshots]

(* The observation of the message that ends. *)
Observation(s) ==
    [n |-> s.count + 1, length |-> s.length, truncated |-> s.capture # s.length]

(* The messages of a gRPC call are observed up to a limit, frames are not. *)
Observable(n) == IF exchange.kind = "grpc" THEN Smaller(n, MaxObservations) ELSE n

Observed(d, s) ==
    messages' = [messages EXCEPT ![d] =
                   IF s.remaining = 0 /\ s.active /\ Len(@) < Observable(Len(@) + 1)
                     THEN Append(@, Observation(s)) ELSE @]

(* The stream after n more bytes of a header that ends at position p. *)
HeaderFed(d, s, n, p) ==
    IF s.header + n < HeaderLen THEN [s EXCEPT !.header = @ + n]
    ELSE LET f == FrameAt(d, p)
         IN  [s EXCEPT !.header = 0, !.active = TRUE, !.length = f.length,
                       !.remaining = f.length, !.capture = 0,
                       !.flawed = @ \/ ~f.valid]

BodyFed(s, n) ==
    [s EXCEPT !.remaining = @ - n,
              !.capture = Smaller(CaptureLimit, @ + n)]

Feed(d) ==
    LET s == stream[d]
        left == chunk[d].left
        n == IF s.active THEN Smaller(left, s.remaining)
             ELSE Smaller(left, HeaderLen - s.header)
        p == total[d] + (chunk[d].size - left) + n
        t == IF s.active THEN BodyFed(s, n) ELSE HeaderFed(d, s, n, p)
    IN  /\ exchange.kind = "grpc" /\ left > 0
        /\ chunk' = [chunk EXCEPT ![d].left = left - n]
        /\ Observed(d, t)
        /\ stream' = [stream EXCEPT ![d] =
                        IF t.active /\ t.remaining = 0 THEN Completed(t) ELSE t]
        /\ UNCHANGED <<exchange, phase, err, passed, total, log, socket, stopped, history>>

(* The stream's lock is held. *)
Locked(d) == chunk[d].left \in 1..(chunk[d].size - 1)

-----------------------------------------------------------------------------
(***************************************************************************)
(* Reads and writes of the two bodies                                      *)
(***************************************************************************)

(* Who still reads: the transport until the handler is done, copyResponse. *)
Reading(d) ==
    IF d = "request"
      THEN exchange.kind # "websocket" /\ phase \in {"trip", "copy", "finish", "summary"}
      ELSE phase = "copy"

Read(d) ==
    /\ Reading(d) /\ ~stopped
    /\ chunk[d].size = 0
    /\ \E k \in Chunks :
         /\ passed[d] + k <= Size(d)
         /\ chunk' = [chunk EXCEPT ![d] =
                        [size |-> k, left |-> IF exchange.kind = "grpc" THEN k ELSE 0]]
    /\ UNCHANGED <<exchange, phase, err, passed, inspection, log, socket, stopped, history>>

(* Fault: a chunk is sent on before it was inspected. *)
InspectedFault(d) == chunk[d].size > 0 /\ ~Locked(d)

(* captureBuffer.Write returned, so the tee, or captureWriter, goes on. *)
Inspected(d) == chunk[d].size > 0 /\ chunk[d].left = 0

(* The bytes are counted and sent on; feed has seen them before. *)
Pass(d) ==
    /\ Inspected(d)
    /\ passed' = [passed EXCEPT ![d] = @ + chunk[d].size]
    /\ total' = [total EXCEPT ![d] = @ + chunk[d].size]
    /\ chunk' = [chunk EXCEPT ![d] = [size |-> 0, left |-> @.left]]
    /\ UNCHANGED <<exchange, phase, err, stream, messages, log, socket, stopped, history>>

-----------------------------------------------------------------------------
(***************************************************************************)
(* The handler                                                             *)
(***************************************************************************)
Goto(p, e) == phase' = p /\ err' = (err \/ e)

Start ==
    /\ phase = "start"
    /\ IF exchange.kind = "refused" THEN Goto("finish", TRUE) ELSE Goto("trip", FALSE)
    /\ UNCHANGED <<exchange, chunk, passed, inspection, log, socket, stopped, history>>

(***************************************************************************)
(* The text of http.Error is written through the capture, too: the parser  *)
(* of a gRPC call takes it for the bad header of a message of more than a  *)
(* gigabyte.                                                               *)
(***************************************************************************)
ErrorText ==
    stream' = [stream EXCEPT !["response"] =
                 IF exchange.kind = "grpc"
                   THEN [@ EXCEPT !.active = TRUE, !.flawed = TRUE] ELSE @]

(* RoundTrip returns an error: the server is away, or the context cancelled. *)
TripFails ==
    /\ phase = "trip"
    /\ Goto("finish", TRUE) /\ broken' = TRUE
    /\ ErrorText
    /\ UNCHANGED <<exchange, chunk, passed, total, messages, log, socket, stopped,
                   early>>

(* RoundTrip returns a response; the server need not have read the request. *)
Answered ==
    /\ phase = "trip" /\ ~stopped
    /\ CASE exchange.answer = "upgrade" -> Goto("hijack", FALSE)
         [] exchange.answer = "invalid" -> Goto("finish", TRUE)
         [] OTHER                       -> Goto("copy", exchange.answer = "failed")
    /\ IF exchange.answer = "invalid" THEN ErrorText ELSE UNCHANGED stream
    /\ early' = (exchange.kind # "websocket" /\ passed["request"] < Size("request"))
    /\ UNCHANGED <<exchange, chunk, passed, total, messages, log, socket, stopped,
                   broken>>

(* copyResponse reads EOF. *)
CopyEnds ==
    /\ phase = "copy" /\ chunk["response"].size = 0
    /\ passed["response"] = Size("response")
    /\ Goto("finish", FALSE)
    /\ UNCHANGED <<exchange, chunk, passed, inspection, log, socket, stopped, history>>

(* Reading the response or writing it to the client fails. *)
CopyFails ==
    /\ phase = "copy" /\ chunk["response"].left = 0
    /\ Goto("finish", TRUE) /\ broken' = TRUE
    /\ chunk' = [chunk EXCEPT !["response"].size = 0]
    /\ total' = [total EXCEPT !["response"] = @ + chunk["response"].size]
    /\ UNCHANGED <<exchange, passed, stream, messages, log, socket, stopped, early>>

Truncated(d) ==
    \/ total[d] > CaptureLimit
    \/ /\ exchange.kind = "grpc"
       /\ stream[d].truncated \/ stream[d].snapshots < stream[d].count

Record(outcome) ==
    log' = Append(log, [outcome |-> outcome,
                        counts |-> [d \in Directions |-> stream[d].count],
                        truncated |-> Truncated("response")])

(* grpcMessageStream.finish finds part of a message. *)
Unfinished(d) == stream[d].active \/ stream[d].header # 0

(* call.request.finish, call.response.finish *)
FinishStreams ==
    /\ phase = "finish" /\ exchange.kind = "grpc" /\ \A d \in Directions : ~Locked(d)
    /\ stream' = [d \in Directions |->
                    [stream[d] EXCEPT !.flawed = @ \/ Unfinished(d)]]
    /\ Goto("summary", FALSE)
    /\ UNCHANGED <<exchange, chunk, passed, total, messages, log, socket, stopped, history>>

(* The two summaries and the observation of the call. *)
RecordCall ==
    /\ phase = "summary" /\ \A d \in Directions : ~Locked(d)
    /\ Record(IF err \/ \E d \in Directions : stream[d].flawed THEN "error" ELSE "ok")
    /\ Goto("over", FALSE)
    /\ UNCHANGED <<exchange, chunk, passed, inspection, socket, stopped, history>>

(* observed, after ServeHTTP returned. *)
RecordExchange ==
    /\ phase = "finish" /\ exchange.kind # "grpc"
    /\ Record(IF err THEN "error" ELSE "ok")
    /\ Goto("over", FALSE)
    /\ UNCHANGED <<exchange, chunk, passed, inspection, socket, stopped, history>>

-----------------------------------------------------------------------------
(***************************************************************************)
(* proxyWebSocket                                                          *)
(***************************************************************************)
Hijack ==
    /\ phase = "hijack"
    /\ Goto("switch", FALSE)
    /\ UNCHANGED <<exchange, chunk, passed, inspection, log, socket, stopped, history>>

HijackFails ==
    /\ phase = "hijack"
    /\ Goto("finish", TRUE) /\ broken' = TRUE
    /\ UNCHANGED <<exchange, chunk, passed, inspection, log, socket, stopped, early>>

(* The 101 is written; recordWebSocketHandshake, and the relays start. *)
Switch ==
    /\ phase = "switch"
    /\ Record("ok") /\ Goto("relay", FALSE)
    /\ UNCHANGED <<exchange, chunk, passed, inspection, socket, stopped, history>>

(* The client is gone; skipObservation is set, so nothing is recorded. *)
SwitchFails ==
    /\ phase = "switch"
    /\ Goto("over", FALSE) /\ broken' = TRUE
    /\ UNCHANGED <<exchange, chunk, passed, inspection, log, socket, stopped, early>>

Relaying == phase \in {"relay", "closing"}

(* forwardWebSocketFrame: the header of the next frame is read and sent. *)
FrameHeader(d) ==
    LET f == exchange[d][stream[d].count + 1]
        s == [NoStream EXCEPT !.active = TRUE, !.length = f.length,
                              !.remaining = f.length, !.count = stream[d].count]
    IN  /\ Relaying /\ copier[d] = "run" /\ ~closed /\ ~stream[d].active
        /\ stream[d].count < Len(exchange[d])
        /\ f.valid
        /\ passed' = [passed EXCEPT ![d] = @ + HeaderLen]
        /\ Observed(d, s)
        /\ stream' = [stream EXCEPT ![d] = IF s.remaining = 0 THEN Completed(s) ELSE s]
        /\ UNCHANGED <<exchange, phase, err, chunk, total, log, socket, stopped, history>>

(* One buffer of the payload; the frame is recorded once all were sent. *)
FrameBody(d) ==
    \E k \in Chunks :
        LET s == BodyFed(stream[d], k)
        IN  /\ Relaying /\ copier[d] = "run" /\ ~closed /\ stream[d].active
            /\ k <= stream[d].remaining
            /\ passed' = [passed EXCEPT ![d] = @ + k]
            /\ Observed(d, s)
            /\ stream' = [stream EXCEPT ![d] = IF s.remaining = 0 THEN Completed(s) ELSE s]
            /\ UNCHANGED <<exchange, phase, err, chunk, total, log, socket, stopped,
                           history>>

(* Reading a frame or writing it fails: a peer left, or both are closed. *)
CopierEnds(d) ==
    /\ Relaying /\ copier[d] = "run"
    /\ copier' = [copier EXCEPT ![d] = IF closed THEN "closed" ELSE "ended"]
    /\ UNCHANGED <<exchange, phase, err, chunk, passed, inspection, log, closed, stopped,
                   history>>

(* Fault: the handler waits for both directions before it closes them. *)
FirstResultFault == \A d \in Directions : copier[d] # "run"

FirstResult == \E d \in Directions : copier[d] # "run"

CloseSocket ==
    /\ phase = "relay" /\ FirstResult
    /\ closed' = TRUE /\ Goto("closing", FALSE)
    /\ UNCHANGED <<exchange, chunk, passed, inspection, log, copier, stopped, history>>

(* The second result; errors of either direction are recorded apart. *)
SocketDone ==
    /\ phase = "closing" /\ \A d \in Directions : copier[d] # "run"
    /\ Goto("over", FALSE)
    /\ UNCHANGED <<exchange, chunk, passed, inspection, log, socket, stopped, history>>

(* The goroutine that waits for the request's context. *)
CloseOnCancel ==
    /\ phase = "relay" /\ stopped /\ ~closed
    /\ closed' = TRUE
    /\ UNCHANGED <<exchange, phase, err, chunk, passed, inspection, log, copier, stopped,
                   history>>

Cancel ==
    /\ ~stopped /\ stopped' = TRUE
    /\ UNCHANGED <<exchange, phase, err, chunk, passed, inspection, log, socket, history>>

-----------------------------------------------------------------------------
Handler ==
    \/ Start \/ TripFails \/ CopyEnds \/ FinishStreams \/ RecordCall \/ RecordExchange
    \/ Switch \/ SwitchFails \/ CloseSocket \/ SocketDone \/ Hijack \/ HijackFails
    \/ Answered \/ CopyFails

Copier(d) == FrameHeader(d) \/ FrameBody(d) \/ CopierEnds(d)

Next ==
    \/ Handler \/ CloseOnCancel \/ Cancel
    \/ \E d \in Directions : Read(d) \/ Feed(d) \/ Pass(d) \/ Copier(d)

Spec == Init /\ [][Next]_vars

(***************************************************************************)
(* The goroutines run, and a call on a closed connection or a cancelled    *)
(* request returns with an error; a client reads what it is sent or        *)
(* leaves.  Apart from that a peer may be silent for ever.                 *)
(***************************************************************************)
FairSpec ==
    /\ Spec
    /\ WF_vars(Start \/ FinishStreams \/ RecordCall \/ RecordExchange \/ Switch
               \/ Hijack \/ CloseSocket \/ SocketDone)
    /\ WF_vars(CloseOnCancel)
    /\ WF_vars(stopped /\ (TripFails \/ CopyFails))
    /\ \A d \in Directions :
         /\ WF_vars(Feed(d)) /\ WF_vars(Pass(d))
         /\ WF_vars(closed /\ CopierEnds(d))

-----------------------------------------------------------------------------
(***************************************************************************)
(* Properties                                                              *)
(***************************************************************************)

(* The frames of direction d that lie in its first b bytes. *)
Whole(d, b) == {m \in 1..Len(exchange[d]) : End(d, m) <= b}

(* The bytes that were parsed. *)
Parsed(d) ==
    IF exchange.kind = "grpc" THEN total[d] + (chunk[d].size - chunk[d].left)
    ELSE passed[d]

(***************************************************************************)
(* "Envelope headers and messages may span any number of HTTP/2 DATA       *)
(* frames" (docs/grpc-compatibility.md): however a body is cut into reads, *)
(* the messages and frames observed are those that lie in the bytes seen   *)
(* so far, in order, with their sizes, marked truncated when they are      *)
(* longer than the capture, and for gRPC up to the limit of observations.  *)
(***************************************************************************)
FramesExact ==
    Framed => \A d \in Directions :
        messages[d] =
            [m \in 1..Observable(Cardinality(Whole(d, Parsed(d)))) |->
                [n |-> m, length |-> exchange[d][m].length,
                 truncated |-> exchange[d][m].length > CaptureLimit]]

(***************************************************************************)
(* An exchange that is over was recorded once (an upgrade the client did   *)
(* not live to see is not).  One recorded as ok was answered without an    *)
(* error and its response reached the client whole.  One recorded as an    *)
(* error, a gRPC call with part of a message included, was refused, failed *)
(* or broken, had a bad envelope, or was answered before the server had    *)
(* the request; and unless it was, the call counts every message.          *)
(***************************************************************************)
RecordTruthful ==
    /\ phase = "over" =>
          Len(log) = 1 \/ (log = <<>> /\ exchange.answer = "upgrade" /\ broken)
    /\ Len(log) <= 1
    /\ \A k \in 1..Len(log) :
         /\ log[k].outcome = "ok" =>
              \/ exchange.answer = "upgrade"
              \/ exchange.answer = "ok" /\ passed["response"] = Size("response")
         /\ log[k].outcome = "error" =>
              \/ exchange.kind = "refused" \/ exchange.answer \in {"failed", "invalid"}
              \/ broken \/ early
              \/ \E d \in Directions : \E m \in 1..Len(exchange[d]) : ~exchange[d][m].valid
         /\ exchange.kind = "grpc" /\ ~broken /\ ~early /\ exchange.answer # "invalid" =>
              log[k].counts = [d \in Directions |-> Len(exchange[d])]
         /\ ~log[k].truncated /\ ~broken
            /\ exchange.answer = "ok" /\ exchange.kind # "refused" =>
              Size("response") <= CaptureLimit

(***************************************************************************)
(* A WebSocket ends for both sides as soon as one of them is gone, and a   *)
(* cancelled context ends every exchange, with all that runs for it.       *)
(***************************************************************************)
ExchangeEnds ==
    /\ (\E d \in Directions : copier[d] # "run")
         ~> (phase = "over" /\ \A d \in Directions : copier[d] # "run")
    /\ stopped ~> phase = "over"
=============================================================================
