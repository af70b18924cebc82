---------------------------- MODULE MongoSession ----------------------------
(***************************************************************************)
(* One client connection of the MongoDB adapter,                           *)
(* internal/proxy/mongoadapter/adapter.go: handleConnection with the local *)
(* authenticator and the upstream authentication.                          *)
(*                                                                         *)
(* One goroutine reads requests: it answers handshakes, authentication and *)
(* unauthorized commands itself, and forwards the others.  Before the      *)
(* first of these it authenticates to the server and starts a second       *)
(* goroutine, which forwards responses and matches them with the pending   *)
(* requests.  The main goroutine waits for the first error, closes both    *)
(* connections and records what is still pending.                          *)
(*                                                                         *)
(* A request is its position in the client's script, which stands for its  *)
(* requestID; 0 is the adapter's own authentication.  Documents are left   *)
(* out.                                                                    *)
(***************************************************************************)
EXTENDS Integers, Sequences, FiniteSets

CONSTANTS
    Scripts,      \* what the client may send: sequences over Kinds
    Listeners,    \* a subset of BOOLEAN: may the listener have credentials
    Upstreams,    \* a subset of BOOLEAN: may the upstream have a username
    MaxBatches,   \* bound on the responses that announce another one
    Failures      \* TRUE when connections may break and answers be wrong

(***************************************************************************)
(* Kinds of requests:                                                      *)
(*   hello     a handshake                                                 *)
(*   start     saslStart that names the listener's user                    *)
(*   bad       saslStart, or another SASL command, that is refused         *)
(*   proof     saslContinue with the proof of the conversation before it   *)
(*   wrong     saslContinue with another one                               *)
(*   cmd       a command with one response                                 *)
(*   more      a command with moreToCome set, which has no response        *)
(*   exhaust   a command whose responses may announce another one          *)
(***************************************************************************)
Commands == {"cmd", "more", "exhaust"}
Kinds == {"hello", "start", "bad", "proof", "wrong"} \cup Commands

ASSUME MongoAssumption ==
    /\ Scripts \subseteq Seq(Kinds)
    /\ Listeners \subseteq BOOLEAN /\ Upstreams \subseteq BOOLEAN
    /\ MaxBatches \in Nat /\ Failures \in BOOLEAN

VARIABLES
    script,         \* the requests of this client
    secured,        \* the listener has credentials
    username,       \* the upstream has a username
    phase,          \* "dial", "open", "closing" or "closed"
    read,           \* how many requests were read
    authenticated,  \* authenticator.authenticated
    conversation,   \* authenticator.conversation # nil
    upstreamAuth,   \* upstreamAuthenticated
    req,            \* where the request goroutine is
    rsp,            \* the upstream reader, and the response it holds
    pending,        \* the keys of pending.items
    errs,           \* errors in errorsChannel
    toServer,       \* requests on their way to the server
    fromServer,     \* responses on their way back
    out,            \* what the client was sent: the requests answered
    recorded,       \* per request, the outcomes recorded
    undelivered,    \* requests whose answer could not be written (history)
    ctxDone         \* the adapter's context is cancelled

config == <<script, secured, username>>
auth   == <<authenticated, conversation, upstreamAuth>>
net    == <<toServer, fromServer>>
seen   == <<out, recorded, undelivered>>
vars   == <<config, phase, read, auth, req, rsp, pending, errs, net, seen, ctxDone>>

Response(to, more) == [to |-> to, more |-> more]

NoReader == [pc |-> "none", frame |-> Response(0, FALSE), found |-> FALSE]

Init ==
    /\ script \in Scripts /\ secured \in Listeners /\ username \in Upstreams
    /\ phase = "dial" /\ read = 0
    /\ authenticated = ~secured
    /\ conversation = FALSE /\ upstreamAuth = FALSE
    /\ req = "none" /\ rsp = NoReader
    /\ pending = {} /\ errs = 0
    /\ toServer = <<>> /\ fromServer = <<>>
    /\ out = <<>> /\ recorded = [n \in 1..Len(script) |-> <<>>]
    /\ undelivered = {} /\ ctxDone = FALSE

(* Both connections are closed: reads and writes fail, but for what the    *)
(* goroutines' readers hold in their buffers.                              *)
Closed == phase \in {"closing", "closed"}

Breaks == Closed \/ Failures

Recorded(n, outcome) == [recorded EXCEPT ![n] = Append(@, outcome)]

(* Fault: the channel holds one error, as many as the main goroutine takes. *)
ErrorCapFault == 1

(* make(chan error, 2) *)
ErrorCap == 2

(* errorsChannel <- err *)
Report == errs < ErrorCap /\ errs' = errs + 1

-----------------------------------------------------------------------------
(***************************************************************************)
(* The main goroutine                                                      *)
(***************************************************************************)

(* openUpstream: the connection, TLS and the server's hello. *)
Dial ==
    /\ phase = "dial"
    /\ phase' = "open" /\ req' = "read"
    /\ UNCHANGED <<config, read, auth, rsp, pending, errs, net, seen, ctxDone>>

DialFails ==
    /\ phase = "dial" /\ (Failures \/ ctxDone)
    /\ phase' = "closed" /\ req' = "end"
    /\ UNCHANGED <<config, read, auth, rsp, pending, errs, net, seen, ctxDone>>

(* The select, and the two calls of Close. *)
End ==
    /\ phase = "open"
    /\ \/ errs > 0 /\ errs' = errs - 1
       \/ ctxDone /\ errs' = errs
    /\ phase' = "closing"
    /\ UNCHANGED <<config, read, auth, req, rsp, pending, net, seen, ctxDone>>

(* Fault: what is pending is not recorded. *)
DrainedFault == recorded

Drained == [n \in 1..Len(script) |->
              IF n \in pending THEN Append(recorded[n], "failed") ELSE recorded[n]]

Drain ==
    /\ phase = "closing"
    /\ phase' = "closed"
    /\ recorded' = Drained
    /\ pending' = {}
    /\ UNCHANGED <<config, read, auth, req, rsp, errs, net, out, undelivered, ctxDone>>

Cancel ==
    /\ Failures /\ ~ctxDone
    /\ ctxDone' = TRUE
    /\ UNCHANGED <<config, phase, read, auth, req, rsp, pending, errs, net, seen>>

-----------------------------------------------------------------------------
(***************************************************************************)
(* localAuthenticator.handle: whether the client is authenticated, and     *)
(* whether a conversation is open, after a request.                        *)
(***************************************************************************)

Authenticates(kind) == secured /\ kind = "proof" /\ conversation

ConversationAfter(kind) ==
    secured /\ \/ kind = "start"
               \/ conversation /\ kind \notin {"proof", "wrong"}

(* Handshakes, authentication, and commands before it are answered here. *)
Local(kind) == kind \notin Commands \/ ~authenticated

(* A request is read, from the connection or from the reader's buffer. *)
Read ==
    LET kind == script[read + 1]
    IN  /\ req = "read" /\ read < Len(script)
        /\ read' = read + 1
        /\ authenticated' = (authenticated \/ Authenticates(kind))
        /\ conversation' = ConversationAfter(kind)
        /\ req' = IF Local(kind) THEN "answer" ELSE "forward"
        /\ UNCHANGED <<config, phase, upstreamAuth, rsp, pending, errs, net, seen,
                       ctxDone>>

(* The connection fails, or the message cannot be parsed. *)
ReadFails ==
    /\ req = "read" /\ Breaks
    /\ req' = "end" /\ Report
    /\ UNCHANGED <<config, phase, read, auth, rsp, pending, net, seen, ctxDone>>

(* makeCommandReply: the local answer, written and recorded. *)
Answer ==
    /\ req = "answer" /\ ~Closed
    /\ req' = "read"
    /\ out' = Append(out, read)
    /\ recorded' = Recorded(read, "answered")
    /\ UNCHANGED <<config, phase, read, auth, rsp, pending, errs, net, undelivered,
                   ctxDone>>

AnswerFails ==
    /\ req = "answer" /\ Breaks
    /\ req' = "end" /\ Report
    /\ undelivered' = undelivered \cup {read}
    /\ UNCHANGED <<config, phase, read, auth, rsp, pending, net, out, recorded, ctxDone>>

-----------------------------------------------------------------------------
(***************************************************************************)
(* Forwarding                                                              *)
(***************************************************************************)

(* Fault: the upstream reader is started before the authentication. *)
ReaderDuringAuthFault == [rsp EXCEPT !.pc = "read"]

(* During authenticate the request goroutine reads the server's answers. *)
ReaderDuringAuth == rsp

(* session.authenticate sends its messages ... *)
Authenticate ==
    /\ req = "forward" /\ ~upstreamAuth /\ username /\ ~Closed
    /\ req' = "auth"
    /\ toServer' = Append(toServer, 0)
    /\ rsp' = ReaderDuringAuth
    /\ UNCHANGED <<config, phase, read, auth, pending, errs, fromServer, seen, ctxDone>>

(* ... and reads its answers, which must be to these. *)
AuthenticateDone ==
    /\ req = "auth" /\ fromServer # <<>> /\ Head(fromServer).to = 0
    /\ fromServer' = Tail(fromServer)
    /\ req' = "put"
    /\ upstreamAuth' = TRUE
    /\ rsp' = [rsp EXCEPT !.pc = "read"]
    /\ UNCHANGED <<config, phase, read, authenticated, conversation, pending, errs,
                   toServer, seen, ctxDone>>

(* A broken connection, the timeout, a rejection or an unexpected answer. *)
AuthenticateFails ==
    /\ Breaks
    /\ req = "auth" \/ (req = "forward" /\ ~upstreamAuth /\ username)
    /\ req' = "end" /\ Report
    /\ recorded' = Recorded(read, "failed")
    /\ UNCHANGED <<config, phase, read, auth, rsp, pending, net, out, undelivered,
                   ctxDone>>

(* No authentication is needed, or it was done; startUpstreamReader. *)
Prepare ==
    /\ req = "forward" /\ (upstreamAuth \/ ~username)
    /\ req' = "put"
    /\ upstreamAuth' = TRUE
    /\ rsp' = IF rsp.pc = "none" THEN [rsp EXCEPT !.pc = "read"] ELSE rsp
    /\ UNCHANGED <<config, phase, read, authenticated, conversation, pending, errs,
                   net, seen, ctxDone>>

(* request.wire.requestID *)
Key == read

(* pending.put, unless no response will come. *)
Put ==
    /\ req = "put"
    /\ req' = "write"
    /\ pending' = IF script[read] = "more" THEN pending ELSE pending \cup {Key}
    /\ UNCHANGED <<config, phase, read, auth, rsp, errs, net, seen, ctxDone>>

Write ==
    /\ req = "write" /\ ~Closed
    /\ req' = "read"
    /\ toServer' = Append(toServer, read)
    /\ recorded' = IF script[read] = "more" THEN Recorded(read, "sent") ELSE recorded
    /\ UNCHANGED <<config, phase, read, auth, rsp, pending, errs, fromServer, out,
                   undelivered, ctxDone>>

(* The request is taken back and recorded with the error. *)
WriteFails ==
    /\ req = "write" /\ Breaks
    /\ req' = "end" /\ Report
    /\ pending' = pending \ {Key}
    /\ recorded' = Recorded(read, "failed")
    /\ UNCHANGED <<config, phase, read, auth, rsp, net, out, undelivered, ctxDone>>

-----------------------------------------------------------------------------
(***************************************************************************)
(* The server, which answers in order, and the upstream reader             *)
(***************************************************************************)
Batches(n, k) == Append([i \in 1..k |-> Response(n, TRUE)], Response(n, FALSE))

Replies(n) ==
    IF n # 0 /\ script[n] = "more" THEN {<<>>}
    ELSE IF n # 0 /\ script[n] = "exhaust" THEN {Batches(n, k) : k \in 0..MaxBatches}
    ELSE {<<Response(n, FALSE)>>}

Server ==
    /\ toServer # <<>> /\ ~Closed
    /\ toServer' = Tail(toServer)
    /\ \E replies \in Replies(Head(toServer)) :
          fromServer' = fromServer \o replies
    /\ UNCHANGED <<config, phase, read, auth, req, rsp, pending, errs, seen, ctxDone>>

(* pending.get: the request stays when another response is announced. *)
PendingAfter(frame) == IF frame.more THEN pending ELSE pending \ {frame.to}

TakeResponse ==
    LET frame == Head(fromServer)
    IN  /\ rsp.pc = "read" /\ fromServer # <<>>
        /\ fromServer' = Tail(fromServer)
        /\ rsp' = [pc |-> "write", frame |-> frame, found |-> frame.to \in pending]
        /\ pending' = PendingAfter(frame)
        /\ UNCHANGED <<config, phase, read, auth, req, errs, toServer, seen, ctxDone>>

DeliverResponse ==
    LET n == rsp.frame.to
    IN  /\ rsp.pc = "write" /\ ~Closed
        /\ rsp' = [rsp EXCEPT !.pc = "read"]
        /\ out' = Append(out, n)
        /\ recorded' = IF rsp.found THEN Recorded(n, "answered") ELSE recorded
        /\ UNCHANGED <<config, phase, read, auth, req, pending, errs, net, undelivered,
                       ctxDone>>

(* The client is gone: a request taken from `pending` is not recorded. *)
DeliverFails ==
    /\ rsp.pc = "write" /\ Breaks
    /\ rsp' = [rsp EXCEPT !.pc = "end"] /\ Report
    /\ undelivered' = undelivered \cup {rsp.frame.to}
    /\ UNCHANGED <<config, phase, read, auth, req, pending, net, out, recorded, ctxDone>>

ResponseFails ==
    /\ rsp.pc = "read" /\ Breaks
    /\ rsp' = [rsp EXCEPT !.pc = "end"] /\ Report
    /\ UNCHANGED <<config, phase, read, auth, req, pending, net, seen, ctxDone>>

-----------------------------------------------------------------------------
Main == Dial \/ DialFails \/ End \/ Drain

Requests == Read \/ ReadFails \/ Answer \/ AnswerFails \/ Authenticate
            \/ AuthenticateDone \/ AuthenticateFails \/ Prepare \/ Put \/ Write
            \/ WriteFails

Responses == TakeResponse \/ DeliverResponse \/ DeliverFails \/ ResponseFails

Next == Main \/ Requests \/ Responses \/ Server \/ Cancel

Spec == Init /\ [][Next]_vars

(***************************************************************************)
(* Fairness: the main goroutine runs (openUpstream has a time limit), and  *)
(* so do the others once the connections are closed and nothing blocks     *)
(* them.  Nothing is assumed of client and server.                         *)
(***************************************************************************)
FairSpec ==
    /\ Spec
    /\ WF_vars(Dial \/ DialFails) /\ WF_vars(End) /\ WF_vars(Drain)
    /\ WF_vars(Closed /\ Requests) /\ WF_vars(Closed /\ Responses)

-----------------------------------------------------------------------------
(***************************************************************************)
(* Properties                                                              *)
(***************************************************************************)
Frames == [to : 0..Len(script), more : BOOLEAN]

(* Every variable has its type. *)
TypeOK ==
    /\ phase \in {"dial", "open", "closing", "closed"}
    /\ read \in 0..Len(script)
    /\ authenticated \in BOOLEAN /\ conversation \in BOOLEAN
    /\ upstreamAuth \in BOOLEAN
    /\ req \in {"none", "read", "answer", "forward", "auth", "put", "write", "end"}
    /\ rsp \in [pc : {"none", "read", "write", "end"}, frame : Frames,
                found : BOOLEAN]
    /\ pending \subseteq 1..read /\ undelivered \subseteq 0..read
    /\ errs \in 0..ErrorCap
    /\ toServer \in Seq(0..read) /\ fromServer \in Seq(Frames)
    /\ out \in Seq(0..read)
    /\ \A n \in 1..Len(script) : recorded[n] \in Seq({"answered", "sent", "failed"})

(* The client proved its identity before request n. *)
ProvedBefore(n) ==
    \E i, j \in 1..(n - 1) :
        /\ i < j /\ script[i] = "start" /\ script[j] = "proof"
        /\ \A m \in (i + 1)..(j - 1) : script[m] \notin {"proof", "wrong"}

(***************************************************************************)
(* "... does not disclose an upstream username or start upstream SCRAM     *)
(* until the listener identity succeeds" (docs/architecture.md), "hello    *)
(* and authentication remain locally terminated so ... credentials cannot  *)
(* cross trust boundaries" (docs/mongodb-compatibility.md): the server is  *)
(* sent nothing, the adapter's own authentication included, before the     *)
(* client completed a SCRAM conversation, and never the client's           *)
(* handshakes; the answers to the adapter's authentication are read by it  *)
(* alone and do not reach the client, nor the client's answers it.         *)
(***************************************************************************)
LegsApart ==
    /\ \A k \in 1..Len(toServer) :
          LET n == toServer[k]
          IN  /\ n # 0 => script[n] \in Commands
              /\ secured => ProvedBefore(IF n = 0 THEN read ELSE n)
    /\ \A k \in 1..Len(out) : out[k] # 0
    /\ req = "auth" /\ fromServer # <<>> => Head(fromServer).to = 0

(* handleConnection returned and its goroutines did. *)
Over == phase = "closed" /\ req = "end" /\ rsp.pc \in {"none", "end"}

(***************************************************************************)
(* When the session is over, every request that was read is recorded and   *)
(* none is pending, whichever goroutine failed first; the exception is a   *)
(* request whose answer could not be written to the client.  And a request *)
(* that was recorded with its one response is not recorded again, as a     *)
(* failure, by the goroutine that drains what is pending.                  *)
(***************************************************************************)
RecordedOnce ==
    /\ Over => /\ pending = {}
               /\ \A n \in 1..read : recorded[n] # <<>> \/ n \in undelivered
    /\ \A n \in 1..Len(script) :
          /\ script[n] # "exhaust"
          /\ \E k \in 1..Len(recorded[n]) : recorded[n][k] = "answered"
          => Len(recorded[n]) = 1

(***************************************************************************)
(* An error of either goroutine, or the cancelled context, ends all three: *)
(* no goroutine is left waiting for a place in the channel of errors.      *)
(***************************************************************************)
SessionEnds == (errs > 0 \/ ctxDone) ~> Over
=============================================================================
