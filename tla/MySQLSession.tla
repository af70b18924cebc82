---------------------------- MODULE MySQLSession ----------------------------
(***************************************************************************)
(* One client connection of the MySQL adapter,                             *)
(* internal/proxy/mysqladapter: handle in mysql.go, the authentication in  *)
(* auth.go and the parser of replies in result.go and packet.go.           *)
(*                                                                         *)
(* One goroutine does everything: it opens the upstream connection, takes  *)
(* the client's login, logs in to the server, and then copies a command to *)
(* the server and its reply to the client, in turn.  It has to know where  *)
(* a reply ends, because only then it reads the next command.  A second    *)
(* goroutine closes both connections when the context is cancelled.        *)
(*                                                                         *)
(* Packets are their kind; a logical packet is one or more physical ones   *)
(* (`parts`), each with a sequence number of its own.  A query is a number *)
(* that stands for its text.  Decoded values are left out.                 *)
(***************************************************************************)
EXTENDS Integers, Sequences, SequencesExt, FiniteSets

CONSTANTS
    Scripts,     \* the commands a client may send
    Ids,         \* the numbers the server gives to statements
    Modes,       \* a subset of BOOLEAN: may clientDeprecateEOF be missing
    Listeners,   \* a subset of BOOLEAN: may the listener require TLS
    Upstreams,   \* the transports the upstream may be configured with
    Plugins,     \* the authentication plugins the server may name
    MaxAuth,     \* bound on the packets exchanged to authenticate
    LongOK,      \* TRUE when an OK packet that ends rows may have nine bytes
    Dumps,       \* TRUE when the server may grant COM_BINLOG_DUMP_GTID
    SequenceMod, \* sequence numbers are counted modulo this, 256 in the code
    Failures     \* TRUE when connections may break and time out

(***************************************************************************)
(* Commands:                                                               *)
(*   query, prepare  with a text q                                         *)
(*   execute, long, close, restart, fetch   of the statement id: long is   *)
(*             COM_STMT_SEND_LONG_DATA, restart COM_STMT_RESET             *)
(*   fields, stats, ping, reset, option, quit                              *)
(*   user      COM_CHANGE_USER                                             *)
(*   replica   COM_BINLOG_DUMP or COM_REGISTER_SLAVE, 0x12 and 0x15        *)
(*   gtid      COM_BINLOG_DUMP_GTID, 0x1e, the third replication command   *)
(***************************************************************************)
StatementCommands == {"execute", "long", "close", "restart", "fetch"}
Commands == {"query", "prepare", "fields", "stats", "ping", "reset", "option",
             "quit", "user", "replica", "gtid"} \cup StatementCommands

(* noResponse; comChangeUser, 0x12 and 0x15, but not 0x1e *)
Silent == {"close", "long", "quit"}
Intercepted == {"user", "replica"}

Command == [k : Commands, q : Nat, id : Ids, parts : Nat \ {0}]

ASSUME MySQLAssumption ==
    /\ Scripts \subseteq Seq(Command)
    /\ Modes \subseteq BOOLEAN /\ Listeners \subseteq BOOLEAN
    /\ Upstreams \subseteq {"plain", "skip", "verify"}
    /\ Plugins \subseteq {"native", "caching", "sha256", "other"}
    /\ Ids \subseteq Nat /\ MaxAuth \in Nat /\ SequenceMod \in Nat \ {0, 1}
    /\ LongOK \in BOOLEAN /\ Dumps \in BOOLEAN /\ Failures \in BOOLEAN

VARIABLES
    script,      \* the commands of this client
    eof,         \* replies have EOF packets: clientDeprecateEOF is not agreed
    pc,          \* where the goroutine is
    proved,      \* the client knew the listener's password
    plugin,      \* activePlugin
    usingTLS,    \* the upstream connection uses TLS
    skipVerify,  \* and its configuration has InsecureSkipVerify
    trusted,     \* the server's certificate is one that verifies
    toAuth,      \* what the server was sent to authenticate
    exchange,    \* how many packets the two sides of the login exchanged
    sequence,    \* the sequence number the goroutine expects next
    read,        \* how many commands were read
    statements,  \* statements: per id, its text and the long data of a value
    reply,       \* the parser: its stage, what is left, what it counted
    toServer,    \* commands the server was sent
    fromServer,  \* packets on their way to the client
    prepared,    \* the server's statements
    truth,       \* per command, what the server did (history)
    records,     \* what was recorded
    mismatch,    \* a check of a sequence number failed
    ctxDone,     \* the adapter's context is cancelled
    cut          \* the connections that the second goroutine closed

config  == <<script, eof>>
tls     == <<usingTLS, skipVerify, trusted>>
login   == <<proved, plugin, tls, toAuth, exchange>>
server  == <<prepared, truth>>
vars == <<config, pc, login, sequence, read, statements, reply, toServer, fromServer,
          server, records, mismatch, ctxDone, cut>>

NoStatement == [q |-> 0, long |-> 0]

NoTruth == [ok |-> FALSE, rows |-> -1, statement |-> NoStatement]

NoReply == [stage |-> "none", left |-> 0, next |-> 0, rows |-> 0, ok |-> TRUE,
            id |-> 0, statement |-> NoStatement]

Record(what, n, ok, rows, statement) ==
    [what |-> what, n |-> n, ok |-> ok, rows |-> rows, statement |-> statement]

Added(what, ok) == Append(records, Record(what, read, ok, 0, NoStatement))

Init ==
    /\ script \in Scripts /\ eof \in Modes
    /\ pc = "dial" /\ proved = FALSE /\ plugin = "native"
    /\ usingTLS = FALSE /\ skipVerify = FALSE /\ trusted = FALSE
    /\ toAuth = <<>> /\ exchange = 1 /\ sequence = 1
    /\ read = 0 /\ statements = [id \in Ids |-> NoStatement]
    /\ reply = NoReply /\ toServer = <<>> /\ fromServer = <<>>
    /\ prepared = [id \in Ids |-> NoStatement]
    /\ truth = [n \in 1..Len(script) |-> NoTruth]
    /\ records = <<>> /\ mismatch = FALSE /\ ctxDone = FALSE /\ cut = {}

-----------------------------------------------------------------------------
(***************************************************************************)
(* The client's login                                                      *)
(***************************************************************************)
Rest == <<sequence, read, statements, reply, toServer, fromServer, server, mismatch,
          ctxDone, cut>>

(* openUpstream reads the server's greeting; the client is sent another. *)
OpenUpstream ==
    /\ pc = "dial" /\ ~ctxDone
    /\ pc' = "hello"
    /\ UNCHANGED <<config, login, records, Rest>>

OpenFails ==
    /\ pc = "dial" /\ (Failures \/ ctxDone)
    /\ pc' = "closed"
    /\ records' = Added("connect", FALSE)
    /\ UNCHANGED <<config, login, Rest>>

(* An SSLRequest is needed exactly when the listener has TLS. *)
Hello ==
    \E ssl \in BOOLEAN, listenerTLS \in Listeners :
        /\ pc = "hello"
        /\ pc' = IF ssl = listenerTLS THEN "login" ELSE "closed"
        /\ UNCHANGED <<config, login, records, Rest>>

(* handshake.username and verifyNativePassword *)
Accepts(right) == right

(* The handshake response; a client of another plugin is switched first. *)
Switch ==
    /\ pc = "login"
    /\ pc' = "switched"
    /\ UNCHANGED <<config, login, records, Rest>>

Login ==
    \E right \in BOOLEAN :
        /\ pc \in {"login", "switched"} /\ Accepts(right)
        /\ proved' = right
        /\ pc' = "auth"
        /\ UNCHANGED <<config, plugin, tls, toAuth, exchange, records, Rest>>

Refuse ==
    /\ pc \in {"login", "switched"} /\ ~Accepts(FALSE)
    /\ pc' = "closed"
    /\ records' = Added("connect", FALSE)
    /\ UNCHANGED <<config, login, Rest>>

(* A malformed packet, a broken connection or the fifteen seconds. *)
LoginFails ==
    /\ pc \in {"hello", "login", "switched"} /\ Failures
    /\ pc' = "closed"
    /\ UNCHANGED <<config, login, records, Rest>>

-----------------------------------------------------------------------------
(***************************************************************************)
(* authenticateUpstream                                                    *)
(***************************************************************************)

(* Fault: the transport is not asked. *)
ResponseFault(p) == IF p = "sha256" THEN "clear" ELSE "hash"

(* authenticationResponseForTransport: a hash of the password, or the      *)
(* password itself, or the request for the server's key.                   *)
Response(p) ==
    IF p = "sha256" THEN (IF usingTLS THEN "clear" ELSE "key") ELSE "hash"

Later == <<read, statements, reply, toServer, fromServer, server, records, mismatch,
           ctxDone, cut>>

Plus(n, k) == (n + k) % SequenceMod

(* The goroutine writes a packet: both sides count it. *)
Send(what, counted) ==
    /\ toAuth' = Append(toAuth, what)
    /\ exchange' = exchange + 1 + counted
    /\ sequence' = Plus(sequence, 1 + counted)

(* The plugin of the greeting; and TLS when it is configured, with a       *)
(* server whose certificate verifies or not.                               *)
AuthStart ==
    /\ pc = "auth"
    /\ pc' = "response"
    /\ plugin' \in Plugins /\ trusted' \in BOOLEAN
    /\ \E upstreamTLS \in Upstreams :
          usingTLS' = (upstreamTLS # "plain") /\ skipVerify' = (upstreamTLS = "skip")
    /\ UNCHANGED <<config, proved, toAuth, exchange, records, Rest>>

(* tlsutil.Client: the handshake asks for a certificate that verifies,     *)
(* unless the configuration opted out of that.                             *)
Secured == usingTLS => trusted \/ skipVerify

(* SSLRequest and the TLS handshake, when the upstream uses TLS, and the   *)
(* handshake response.                                                     *)
AuthRespond ==
    /\ pc = "response" /\ plugin # "other" /\ Secured
    /\ pc' = "answer"
    /\ Send(Response(plugin), IF usingTLS THEN 1 ELSE 0)
    /\ UNCHANGED <<config, proved, plugin, tls, Later>>

(* The server's packet has another number than the one expected. *)
AuthMismatch == pc \in {"answer", "key"} /\ sequence # exchange % SequenceMod

(* An unsupported plugin, TLS that the server has not or that does not     *)
(* verify, a packet with another number, and every other failure close the *)
(* upstream connection; the client is sent an error.                       *)
AuthFails ==
    /\ pc \in {"response", "answer", "key"}
    /\ \/ Failures \/ AuthMismatch \/ exchange >= MaxAuth
       \/ pc = "response" /\ (plugin = "other" \/ ~Secured)
    /\ pc' = "closed"
    /\ mismatch' = AuthMismatch
    /\ records' = Added("connect", FALSE)
    /\ UNCHANGED <<config, login, sequence, read, statements, reply, toServer,
                   fromServer, server, ctxDone, cut>>

(* readPacket, the check of its number, and the next number. *)
Expects ==
    /\ sequence = exchange % SequenceMod
    /\ exchange < MaxAuth

(* The server asks for another plugin. *)
AuthSwitch ==
    \E p \in Plugins \ {"other"} :
        /\ pc = "answer" /\ Expects
        /\ plugin' = p
        /\ Send(Response(p), 1)
        /\ UNCHANGED <<config, pc, proved, tls, Later>>

(* 0x01 0x03: the server knows the hash already.  This packet and the next *)
(* are taken at any time and for any plugin but sha256_password, for which *)
(* every 0x01 packet brings the key.                                       *)
AuthFast ==
    /\ pc = "answer" /\ Expects /\ plugin # "sha256"
    /\ exchange' = exchange + 1
    /\ sequence' = Plus(sequence, 1)
    /\ UNCHANGED <<config, pc, proved, plugin, tls, toAuth, Later>>

(* 0x01 0x04: it wants the password, or sends its key first. *)
AuthFull ==
    /\ pc = "answer" /\ Expects /\ plugin # "sha256"
    /\ pc' = IF usingTLS THEN "answer" ELSE "key"
    /\ Send(IF usingTLS THEN "clear" ELSE "key", 1)
    /\ UNCHANGED <<config, proved, plugin, tls, Later>>

(* The key, for the full authentication or, asked for or not, for          *)
(* sha256_password.                                                        *)
AuthKey ==
    /\ pc = "key" \/ (pc = "answer" /\ plugin = "sha256")
    /\ Expects
    /\ pc' = "answer"
    /\ Send("rsa", 1)
    /\ UNCHANGED <<config, proved, plugin, tls, Later>>

(* 0x00: the client is sent OK and the command phase begins, for which the *)
(* variables of the authentication are forgotten.                          *)
AuthOK ==
    /\ pc = "answer" /\ sequence = exchange % SequenceMod
    /\ pc' = "command"
    /\ records' = Added("connect", TRUE)
    /\ toAuth' = <<>> /\ exchange' = 1 /\ sequence' = 1
    /\ plugin' = "native" /\ usingTLS' = FALSE /\ skipVerify' = FALSE /\ trusted' = FALSE
    /\ UNCHANGED <<config, proved, read, statements, reply, toServer, fromServer,
                   server, mismatch, ctxDone, cut>>

(* The client is gone when it is sent OK: nothing is recorded. *)
OKFails ==
    /\ pc = "answer" /\ sequence = exchange % SequenceMod /\ Failures
    /\ pc' = "closed"
    /\ UNCHANGED <<config, login, records, Rest>>

Authenticate ==
    AuthStart \/ AuthRespond \/ AuthFails \/ AuthSwitch \/ AuthFast \/ AuthFull
    \/ AuthKey \/ AuthOK \/ OKFails

-----------------------------------------------------------------------------
(***************************************************************************)
(* The command loop of handle                                              *)
(***************************************************************************)
Loop == <<config, login, sequence, truth, prepared, mismatch, ctxDone, cut>>

(* parseCommand: the long data that is kept for a statement. *)
Parsed(cmd) ==
    CASE cmd.k = "long" /\ statements[cmd.id] # NoStatement ->
            [statements EXCEPT ![cmd.id].long = @ + 1]
      [] cmd.k \in {"execute", "restart"} -> [statements EXCEPT ![cmd.id].long = 0]
      [] cmd.k = "close" -> [statements EXCEPT ![cmd.id] = NoStatement]
      [] OTHER -> statements

Named(cmd) == IF cmd.k \in StatementCommands THEN statements[cmd.id] ELSE NoStatement

(* Fault: a command that takes two packets is counted as one. *)
NextSequenceFault(cmd) == 1

(* nextSequence: the number of the reply's first packet. *)
NextSequence(cmd) == cmd.parts % SequenceMod

FirstStage(cmd) ==
    CASE cmd.k = "prepare" -> "prepared"
      [] cmd.k \in {"fields", "fetch"} -> "until"
      [] OTHER -> "first"

(* readClientCommand inspects the first byte before it forwards. *)
Forwards(cmd) == cmd.k \notin Intercepted

ReadCommand ==
    LET cmd == script[read + 1]
    IN  /\ pc = "command" /\ read < Len(script) /\ cut = {}
        /\ read' = read + 1
        /\ toServer' = IF Forwards(cmd) THEN Append(toServer, read + 1) ELSE toServer
        /\ statements' = Parsed(cmd)
        /\ \/ /\ cmd.k \in Intercepted \cup Silent
              /\ pc' = IF cmd.k = "quit" THEN "closed" ELSE "command"
              /\ records' = Append(records, Record("command", read + 1,
                                                   cmd.k \in Silent, 0, Named(cmd)))
              /\ UNCHANGED reply
           \/ /\ cmd.k \notin Intercepted \cup Silent
              /\ pc' = "reply"
              /\ reply' = [NoReply EXCEPT !.stage = FirstStage(cmd),
                                          !.next = NextSequence(cmd),
                                          !.statement = Named(cmd)]
              /\ UNCHANGED records
        /\ UNCHANGED <<Loop, fromServer>>

(* recordProtocolFailure, unless the client just left. *)
CommandFails ==
    /\ pc = "command" /\ (Failures \/ "client" \in cut)
    /\ pc' = "closed"
    /\ records' \in {records, Added("protocol", FALSE)}
    /\ UNCHANGED <<Loop, read, statements, reply, toServer, fromServer>>

-----------------------------------------------------------------------------
(***************************************************************************)
(* readCommandResponse: the parser of replies, one logical packet a step   *)
(***************************************************************************)

(* isEOFPacket *)
Ends(p) == p.t = "eof" /\ ~p.long

At(stage, left) == [reply EXCEPT !.stage = stage, !.left = left]

(* The definitions are read: without clientDeprecateEOF a packet follows. *)
Defined == At(IF eof THEN "terminator" ELSE "rows", 0)

(* readMoreResults, when the status says so. *)
Continued(p) == At(IF p.more THEN "first" ELSE "done", 0)

Errored == [At("done", 0) EXCEPT !.ok = FALSE]

CountedRow == [reply EXCEPT !.rows = @ + 1]

(* readGeneralResponse *)
First(p) ==
    CASE p.t = "err" -> Errored
      [] p.t = "ok"  -> Continued(p)
      [] p.t = "text" /\ script[read].k = "stats" -> At("done", 0)
      [] p.t = "count" -> At("defs", p.columns)
      [] OTHER -> At("fail", 0)

(* readResultset *)
Definition(p) == IF reply.left > 1 THEN At("defs", reply.left - 1) ELSE Defined

Terminator(p) == IF Ends(p) THEN At("rows", 0) ELSE At("fail", 0)

Row(p) ==
    CASE p.t = "err" -> Errored
      [] Ends(p) -> Continued(p)
      [] OTHER -> CountedRow

(* readPrepareResponse: the definitions, each group with its terminator. *)
Skipped(p) ==
    LET group(n) == IF n > 0 /\ eof THEN n + 1 ELSE n
    IN  group(p.params) + group(p.columns)

Prepared(p) ==
    CASE p.t = "err" -> Errored
      [] p.t = "prepared" ->
            [At(IF Skipped(p) = 0 THEN "done" ELSE "skip", Skipped(p)) EXCEPT !.id = p.id]
      [] OTHER -> At("fail", 0)

Skip(p) == At(IF reply.left = 1 THEN "done" ELSE "skip", reply.left - 1)

(* readUntilTerminator *)
Until(p) ==
    CASE p.t = "err" -> [Errored EXCEPT !.rows = 0]
      [] Ends(p) -> At("done", 0)
      [] OTHER -> CountedRow

After(p) ==
    CASE reply.stage = "first"      -> First(p)
      [] reply.stage = "defs"       -> Definition(p)
      [] reply.stage = "terminator" -> Terminator(p)
      [] reply.stage = "rows"       -> Row(p)
      [] reply.stage = "prepared"   -> Prepared(p)
      [] reply.stage = "skip"       -> Skip(p)
      [] reply.stage = "until"      -> Until(p)

(* stream.next: a packet with the number expected is passed on and parsed. *)
ReadReply ==
    LET p == Head(fromServer)
    IN  /\ pc = "reply" /\ reply.stage \notin {"done", "fail"} /\ cut = {}
        /\ fromServer # <<>> /\ p.seq = reply.next
        /\ fromServer' = Tail(fromServer)
        /\ reply' = [After(p) EXCEPT !.next = Plus(@, p.parts)]
        /\ UNCHANGED <<Loop, pc, read, statements, toServer, records>>

(* Fault: a statement that the server numbers again keeps its old text. *)
StoredFault(id, q) ==
    [statements[id] EXCEPT !.q = IF @ = 0 THEN q ELSE @]

(* statements[response.statementID] = &preparedStatement{...} *)
Stored(id, q) == [NoStatement EXCEPT !.q = q]

(* The reply is over: it is recorded, and the next command is read. *)
ReplyDone ==
    LET cmd == script[read]
    IN  /\ pc = "reply" /\ reply.stage = "done"
        /\ pc' = "command"
        /\ statements' = IF cmd.k = "prepare" /\ reply.ok
                         THEN [statements EXCEPT ![reply.id] = Stored(reply.id, cmd.q)]
                         ELSE statements
        /\ records' = Append(records, Record("command", read, reply.ok, reply.rows,
                                             reply.statement))
        /\ reply' = NoReply
        /\ UNCHANGED <<Loop, read, toServer, fromServer>>

(* The packet has another number. *)
ReplyMismatch ==
    /\ reply.stage \notin {"done", "fail"}
    /\ fromServer # <<>> /\ Head(fromServer).seq # reply.next

(* The packet has another number, the reply cannot be parsed, or a         *)
(* connection breaks.                                                      *)
ReplyFails ==
    /\ pc = "reply"
    /\ Failures \/ "server" \in cut \/ reply.stage = "fail" \/ ReplyMismatch
    /\ pc' = "closed"
    /\ mismatch' = ReplyMismatch
    /\ records' = Added("protocol", FALSE)
    /\ UNCHANGED <<config, login, sequence, read, statements, reply, toServer,
                   fromServer, server, ctxDone, cut>>

-----------------------------------------------------------------------------
(***************************************************************************)
(* The server                                                              *)
(***************************************************************************)
Packet(t) == [t |-> t, columns |-> 0, params |-> 0, id |-> 0, more |-> FALSE,
              long |-> FALSE, parts |-> 1, seq |-> 0]

OK == Packet("ok")
Err == Packet("err")
More(p) == [p EXCEPT !.more = TRUE]
Terminators == IF eof THEN <<Packet("eof")>> ELSE <<>>

(* What ends the rows: an EOF packet, or an OK packet with its first byte. *)
RowEnds == {Packet("eof")} \cup
           (IF LongOK /\ ~eof THEN {[Packet("eof") EXCEPT !.long = TRUE]} ELSE {})

Definitions(n) == [i \in 1..n |-> Packet("row")]

ResultSet(columns, rows, end) ==
    <<[Packet("count") EXCEPT !.columns = columns]>> \o Definitions(columns)
        \o Terminators \o rows \o <<end>>

BigRow == [Packet("row") EXCEPT !.parts = 2]

(* One result; two, of which the first or the second has rows; three; and  *)
(* rows that break off with an error.                                      *)
Results ==
    {<<OK>>, <<Err>>, ResultSet(1, <<>>, Err),
     <<More(OK)>> \o ResultSet(2, <<BigRow>>, Err),
     ResultSet(1, <<>>, More(Packet("eof"))) \o <<More(OK), Err>>,
     <<Packet("infile")>>}
    \cup {ResultSet(2, <<Packet("row"), BigRow>>, end) : end \in RowEnds}
    \cup {ResultSet(1, <<BigRow>>, More(end)) \o ResultSet(1, <<Packet("row")>>, end)
            : end \in RowEnds}

PreparedOK(id, params, columns) ==
    <<[Packet("prepared") EXCEPT !.id = id, !.params = params, !.columns = columns]>>
        \o Definitions(params) \o (IF params > 0 THEN Terminators ELSE <<>>)
        \o Definitions(columns) \o (IF columns > 0 THEN Terminators ELSE <<>>)

(* A statement gets a number that no other has. *)
PrepareReplies ==
    {<<Err>>} \cup {PreparedOK(id, params, columns) :
        id \in {i \in Ids : prepared[i] = NoStatement},
        params \in {0, 1}, columns \in {0, 2}}

(* The server refuses to send its binary log, or sends event after event,  *)
(* each in a packet with the first byte of an OK packet.                   *)
DumpReplies ==
    {<<Err>>} \cup (IF Dumps THEN {<<OK, OK>>, <<More(OK), OK>>} ELSE {})

Known(cmd) == prepared[cmd.id] # NoStatement

Replies(cmd) ==
    CASE cmd.k \in Silent      -> {<<>>}
      [] cmd.k = "query"       -> Results
      [] cmd.k = "execute"     -> IF Known(cmd) THEN Results ELSE {<<Err>>}
      [] cmd.k = "prepare"     -> PrepareReplies
      [] cmd.k \in {"fields", "fetch"} ->
            {<<Err>>, <<Packet("eof")>>, <<Packet("row"), Packet("eof")>>}
      [] cmd.k = "stats"       -> {<<Packet("text")>>}
      [] cmd.k = "option"      -> {<<Packet("eof")>>}
      [] cmd.k = "restart"     -> IF Known(cmd) THEN {<<OK>>} ELSE {<<Err>>}
      [] cmd.k = "gtid"        -> DumpReplies
      [] OTHER                 -> {<<OK>>}

(* The statements of the server after a command and its reply. *)
PreparedAfter(cmd, answer) ==
    CASE cmd.k = "prepare" /\ answer[1].t = "prepared" ->
            [prepared EXCEPT ![answer[1].id] = [NoStatement EXCEPT !.q = cmd.q]]
      [] cmd.k = "long" /\ Known(cmd) -> [prepared EXCEPT ![cmd.id].long = @ + 1]
      [] cmd.k \in {"execute", "restart"} -> [prepared EXCEPT ![cmd.id].long = 0]
      [] cmd.k = "close" -> [prepared EXCEPT ![cmd.id] = NoStatement]
      [] cmd.k = "reset" -> [id \in Ids |-> NoStatement]
      [] OTHER -> prepared

(* The rows of a reply, or the definitions that FIELD LIST answers with:   *)
(* the packets but for the definitions that the headers announce.          *)
RowsIn(answer) ==
    LET announced == UNION {{i} \X (1..answer[i].columns + answer[i].params) :
                              i \in DOMAIN answer}
    IN  Cardinality({i \in DOMAIN answer : answer[i].t = "row"}) - Cardinality(announced)

(* The packets of a reply are numbered on from those of the command. *)
Numbered(cmd, answer) ==
    LET before(i) == UNION {{j} \X (1..answer[j].parts) : j \in 1..(i - 1)}
    IN  [i \in DOMAIN answer |->
           [answer[i] EXCEPT !.seq = Plus(cmd.parts, Cardinality(before(i)))]]

Serve ==
    LET n   == Head(toServer)
        cmd == script[n]
    IN  /\ toServer # <<>> /\ cut = {}
        /\ toServer' = Tail(toServer)
        /\ \E answer \in Replies(cmd) :
              /\ fromServer' = fromServer \o Numbered(cmd, answer)
              /\ prepared' = PreparedAfter(cmd, answer)
              /\ truth' = [truth EXCEPT ![n] =
                    [ok        |-> \A i \in DOMAIN answer : answer[i].t # "err",
                     rows      |-> RowsIn(answer),
                     statement |-> IF cmd.k \in StatementCommands
                                   THEN prepared[cmd.id] ELSE NoStatement]]
        /\ UNCHANGED <<config, pc, login, sequence, read, statements, reply, records,
                       mismatch, ctxDone, cut>>

-----------------------------------------------------------------------------
Cancel ==
    /\ Failures /\ ~ctxDone /\ pc # "closed"
    /\ ctxDone' = TRUE
    /\ UNCHANGED <<config, pc, login, sequence, read, statements, reply, toServer,
                   fromServer, server, records, mismatch, cut>>

(* Fault: only the client's connection is closed. *)
ClosedByCancelFault == {"client"}

ClosedByCancel == {"client", "server"}

(* The second goroutine; it is started once the upstream is open. *)
CloseOnCancel ==
    /\ ctxDone /\ pc \notin {"dial", "closed"} /\ cut = {}
    /\ cut' = ClosedByCancel
    /\ UNCHANGED <<config, pc, login, sequence, read, statements, reply, toServer,
                   fromServer, server, records, mismatch, ctxDone>>

Handshake == OpenUpstream \/ OpenFails \/ Hello \/ Switch \/ Login \/ Refuse
             \/ LoginFails \/ Authenticate

Replying == ReadReply \/ ReplyDone \/ ReplyFails

Next == Handshake \/ ReadCommand \/ CommandFails \/ Replying \/ Serve \/ Cancel
        \/ CloseOnCancel

Spec == Init /\ [][Next]_vars

(***************************************************************************)
(* Fairness: the handshake has its deadlines, the second goroutine runs,   *)
(* and so does the first one when a connection it waits for is closed.     *)
(* Nothing is assumed of client and server in the command phase.           *)
(***************************************************************************)
FairSpec ==
    /\ Spec
    /\ WF_vars(Handshake) /\ WF_vars(CloseOnCancel)
    /\ WF_vars("client" \in cut /\ CommandFails)
    /\ WF_vars(ReplyDone) /\ WF_vars("server" \in cut /\ ReplyFails)

-----------------------------------------------------------------------------
(***************************************************************************)
(* Properties                                                              *)
(***************************************************************************)

(***************************************************************************)
(* "normal application traffic is forwarded and inspected without changing *)
(* its result" (docs/mysql-compatibility.md): the adapter knows where each *)
(* reply ends.  It takes a command only when the reply before it is passed *)
(* on completely, it never waits for a packet that the server will not     *)
(* send, and it never finds a conforming peer out of sequence, whatever    *)
(* the shape of the reply, its EOF mode and the packets it is split into.  *)
(***************************************************************************)
InStep ==
    /\ pc = "command" => fromServer = <<>>
    /\ pc = "reply" /\ reply.stage \notin {"done", "fail"} =>
          toServer # <<>> \/ fromServer # <<>>
    /\ ~mismatch

Kind(n) == script[n].k

(***************************************************************************)
(* What is recorded of a command is what the server did: every command     *)
(* that was read is recorded once, its outcome is an error exactly when    *)
(* some packet of the reply was one, its rows are those of all results,    *)
(* and the text and the long data shown for an executed statement are      *)
(* those of the statement the server executed under this number.           *)
(***************************************************************************)
Truthful ==
    /\ pc = "command" => Len(records) = read + 1
    /\ \A i \in DOMAIN records :
          LET r == records[i]
          IN  r.what = "command" /\ Kind(r.n) \notin Silent \cup Intercepted =>
                 /\ r.ok = truth[r.n].ok
                 /\ r.ok => r.rows = truth[r.n].rows
                 /\ r.ok /\ Kind(r.n) = "execute" => r.statement = truth[r.n].statement

(***************************************************************************)
(* The upstream password leaves in the clear only inside TLS, with a       *)
(* server whose certificate verified unless the configuration gave that up *)
(* (auth.go:462, tls.go:19), whatever plugins the server asks for and in   *)
(* whatever order; the server is sent nothing, the adapter's own login     *)
(* included, for a client that did not know the listener's password; and   *)
(* no command of readClientCommand's list (mysql.go:231) reaches it.       *)
(* docs/mysql-compatibility.md promises more, a "verified TLS session" and *)
(* that all "replication commands are rejected": neither holds.            *)
(***************************************************************************)
CredentialsSafe ==
    /\ "clear" \in Range(toAuth) => usingTLS /\ (trusted \/ skipVerify)
    /\ toAuth # <<>> \/ toServer # <<>> => proved
    /\ \A i \in DOMAIN toServer : Kind(toServer[i]) \notin {"user", "replica"}

(***************************************************************************)
(* A handshake ends, within its deadlines; and once the context is         *)
(* cancelled the session ends, wherever it waits.                          *)
(***************************************************************************)
SessionEnds ==
    ctxDone \/ pc \notin {"command", "reply", "closed"} ~>
        pc = "closed" \/ (pc \in {"command", "reply"} /\ ~ctxDone)
=============================================================================
