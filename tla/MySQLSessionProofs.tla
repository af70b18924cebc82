------------------------- MODULE MySQLSessionProofs -------------------------
(***************************************************************************)
(* Proofs about MySQLSession, for every script, every plugin and order of  *)
(* the server's packets, and every number of packets of the login: the     *)
(* password stays inside TLS, the parser of replies stays in step with the *)
(* server, and what is recorded is what the server did.                    *)
(***************************************************************************)
EXTENDS MySQLSession, FiniteSetTheorems, WellFoundedInduction, TLAPS

(* Where the goroutine is, in its order. *)
Before == {"dial", "hello", "login", "switched"}
Authenticating == {"auth", "response", "answer", "key"}
Serving == {"command", "reply"}

Proofs == {"hash", "clear", "key", "rsa"}

(* Every variable that the credentials depend on has its type. *)
TypeInv ==
    /\ script \in Seq(Command) /\ read \in 0..Len(script)
    /\ pc \in Before \cup Authenticating \cup Serving \cup {"closed"}
    /\ proved \in BOOLEAN /\ usingTLS \in BOOLEAN
    /\ toAuth \in Seq(Proofs)
    /\ toServer \in Seq(1..Len(script))

(* Nothing is sent for a client before its login, nothing to authenticate  *)
(* before the transport is chosen and secured, and no command before the   *)
(* end of that.                                                            *)
OrderInv ==
    /\ pc \in Authenticating \cup Serving => proved
    /\ pc \in Before \cup {"auth", "response"} \cup Serving => toAuth = <<>>
    /\ pc \in Before \cup Authenticating => toServer = <<>>
    /\ pc \in {"answer", "key"} => Secured

(* The invariant of the proof. *)
CredentialsInv == TypeInv /\ OrderInv /\ CredentialsSafe

-----------------------------------------------------------------------------
(* The password itself is sent only where the transport is TLS. *)
LEMMA SentFacts ==
    ASSUME NEW s \in Seq(Proofs), NEW w \in Proofs
    PROVE  /\ Append(s, w) \in Seq(Proofs) /\ Append(s, w) # <<>>
           /\ "clear" \in Range(Append(s, w)) => "clear" \in Range(s) \/ w = "clear"
  <1>1. /\ Append(s, w) \in Seq(Proofs) /\ Len(Append(s, w)) = Len(s) + 1
        /\ \A i \in 1..Len(s) : Append(s, w)[i] = s[i]
        /\ Append(s, w)[Len(s) + 1] = w /\ Len(s) \in Nat
        /\ Append(s, w) # <<>>
    OBVIOUS
  <1>2. \A i \in 1..(Len(s) + 1) : i \in 1..Len(s) \/ i = Len(s) + 1
    BY <1>1
  <1>3. DOMAIN Append(s, w) = 1..(Len(s) + 1) /\ DOMAIN s = 1..Len(s)
    BY <1>1
  <1> QED
    BY <1>1, <1>2, <1>3 DEF Range

(* The empty sequence is one of any type. *)
LEMMA EmptySeq == \A S : <<>> \in Seq(S)
  OBVIOUS

(* The response to a plugin is the password only inside TLS. *)
LEMMA ResponseFacts ==
    ASSUME NEW p PROVE Response(p) \in Proofs /\ (Response(p) = "clear" => usingTLS)
  BY DEF Response, Proofs

(* At first nothing was sent. *)
LEMMA CredentialsInit == Init => CredentialsInv
  <1> SUFFICES ASSUME Init PROVE CredentialsInv
    OBVIOUS
  <1>1. script \in Seq(Command) /\ Len(script) \in Nat
    BY MySQLAssumption DEF Init
  <1>2. TypeInv
    <2>1. toAuth = <<>> /\ toServer = <<>> /\ read = 0 /\ pc = "dial"
          /\ proved = FALSE /\ usingTLS = FALSE
      BY DEF Init
    <2>2. toAuth \in Seq(Proofs) /\ toServer \in Seq(1..Len(script))
      BY <2>1, EmptySeq
    <2>3. read \in 0..Len(script)
      BY <1>1, <2>1
    <2> QED
      BY <1>1, <2>1, <2>2, <2>3 DEF TypeInv, Before
  <1>3. OrderInv
    BY DEF Init, OrderInv, Before, Authenticating, Serving
  <1>4. Range(toAuth) = {} /\ DOMAIN toServer = {}
    BY DEF Init, Range
  <1>5. CredentialsSafe
    BY <1>4 DEF Init, CredentialsSafe
  <1> QED
    BY <1>2, <1>3, <1>5 DEF CredentialsInv

(* A step that sends nothing and goes on in order keeps the invariant. *)
LEMMA SilentStep ==
    ASSUME CredentialsInv,
           UNCHANGED <<script, read, toServer, toAuth>>,
           pc' \in Before \cup Authenticating \cup Serving \cup {"closed"},
           proved' \in BOOLEAN, usingTLS' \in BOOLEAN, proved => proved',
           Range(toAuth) = {} \/ UNCHANGED tls,
           pc' \in {"answer", "key"} => Secured',
           pc' \in Authenticating \cup Serving => proved',
           pc' \in Before \cup {"auth", "response"} \cup Serving => toAuth = <<>>,
           pc' \in Before \cup Authenticating => toServer = <<>>
    PROVE  CredentialsInv'
  <1>1. TypeInv'
    BY DEF CredentialsInv, TypeInv
  <1>2. OrderInv'
    BY DEF OrderInv
  <1>3. CredentialsSafe'
    BY DEF CredentialsInv, CredentialsSafe, Kind, tls
  <1> QED
    BY <1>1, <1>2, <1>3 DEF CredentialsInv

(* A step that sends a packet of the authentication keeps it. *)
LEMMA AuthStep ==
    ASSUME CredentialsInv, NEW w \in Proofs, w = "clear" => usingTLS,
           UNCHANGED <<script, read, toServer, proved, tls>>, Secured,
           pc \in {"response", "answer", "key"}, pc' \in {"answer", "key"},
           toAuth' = Append(toAuth, w)
    PROVE  CredentialsInv'
  <1>1. /\ toAuth' \in Seq(Proofs)
        /\ "clear" \in Range(toAuth') => "clear" \in Range(toAuth) \/ w = "clear"
    BY SentFacts DEF CredentialsInv, TypeInv
  <1>2. proved /\ toServer = <<>>
    BY DEF CredentialsInv, OrderInv, Authenticating
  <1>3. TypeInv'
    BY <1>1 DEF CredentialsInv, TypeInv, Authenticating, tls
  <1>4. OrderInv'
    BY <1>2 DEF OrderInv, Before, Authenticating, Serving, Secured, tls
  <1>5. CredentialsSafe'
    BY <1>1, <1>2 DEF CredentialsInv, CredentialsSafe, Kind, Secured, tls
  <1> QED
    BY <1>3, <1>4, <1>5 DEF CredentialsInv

(* Every step keeps the invariant. *)
LEMMA CredentialsNext ==
    ASSUME CredentialsInv, [Next]_vars PROVE CredentialsInv'
  <1>0. TypeInv /\ OrderInv /\ CredentialsSafe
    BY DEF CredentialsInv
  <1> USE DEF Before, Authenticating, Serving
  <1>1. CASE OpenUpstream \/ OpenFails \/ Hello \/ Switch \/ Refuse \/ LoginFails
    BY <1>0, <1>1, SilentStep DEF OpenUpstream, OpenFails, Hello, Switch, Refuse, LoginFails,
         config, login, tls, Rest, TypeInv, OrderInv
  <1>2. CASE Login
    BY <1>0, <1>2, SilentStep DEF Login, Accepts, config, tls, Rest, TypeInv, OrderInv
  <1>3. CASE AuthStart
    <2>1. /\ pc = "auth" /\ pc' = "response" /\ usingTLS' \in BOOLEAN
          /\ UNCHANGED <<script, proved, toAuth, read, toServer>>
      BY <1>3, MySQLAssumption DEF AuthStart, config, Rest
    <2>2. toAuth = <<>> /\ toServer = <<>> /\ proved
      BY <1>0, <2>1 DEF OrderInv
    <2>3. Range(toAuth) = {}
      BY <2>2 DEF Range
    <2> QED
      BY <1>0, <2>1, <2>2, <2>3, SilentStep DEF TypeInv
  <1>4. CASE AuthRespond \/ AuthSwitch
    BY <1>0, <1>4, AuthStep, ResponseFacts
       DEF AuthRespond, AuthSwitch, Send, config, Later, OrderInv
  <1>5. CASE AuthFull
    BY <1>0, <1>5, AuthStep DEF AuthFull, Send, config, Later, Proofs, OrderInv
  <1>6. CASE AuthKey
    BY <1>0, <1>6, AuthStep DEF AuthKey, Send, config, Later, Proofs, OrderInv
  <1>7. CASE AuthFails \/ AuthFast \/ OKFails
    <2>1. UNCHANGED tls => (Secured <=> Secured')
      BY DEF tls, Secured
    <2> QED
      BY <1>0, <1>7, <2>1, SilentStep DEF AuthFails, AuthFast, OKFails, config, login, tls,
           Later, Rest, TypeInv, OrderInv
  <1>8. CASE AuthOK
    <2>1. /\ pc' = "command" /\ toAuth' = <<>> /\ usingTLS' = FALSE
          /\ UNCHANGED <<script, proved, read, toServer>> /\ pc = "answer"
      BY <1>8 DEF AuthOK, config
    <2>2. proved /\ toServer = <<>>
      BY <1>0, <2>1 DEF OrderInv
    <2>3. Range(toAuth') = {}
      BY <2>1 DEF Range
    <2>4. TypeInv'
      BY <1>0, <2>1, EmptySeq DEF TypeInv
    <2>5. OrderInv'
      BY <2>1, <2>2 DEF OrderInv
    <2>6. CredentialsSafe'
      BY <1>0, <2>1, <2>2, <2>3 DEF CredentialsSafe, Kind
    <2> QED
      BY <2>4, <2>5, <2>6 DEF CredentialsInv
  <1>9. CASE ReadCommand
    <2> DEFINE n == read + 1
               forwards == Forwards(script[n])
    <2>1. /\ pc = "command" /\ read < Len(script) /\ read' = n
          /\ toServer' = IF forwards THEN Append(toServer, n) ELSE toServer
          /\ pc' \in {"command", "reply", "closed"}
          /\ UNCHANGED <<script, proved, toAuth, tls>>
      BY <1>9 DEF ReadCommand, Loop, config, login, tls
    <2>2. proved /\ toAuth = <<>> /\ n \in 1..Len(script) /\ Len(script) \in Nat
      BY <1>0, <2>1 DEF OrderInv, TypeInv
    <2>3. forwards => Kind(n) \notin {"user", "replica"}
      BY DEF Forwards, Kind, Intercepted
    <2> HIDE DEF forwards, n
    <2>4. toServer \in Seq(1..Len(script))
      BY <1>0 DEF TypeInv
    <2>5. \A i \in DOMAIN toServer' : (toServer'[i] = n /\ forwards)
             \/ (i \in DOMAIN toServer /\ toServer'[i] = toServer[i])
      BY <2>1, <2>2, <2>4
    <2>6. TypeInv'
      <3> DEFINE S == 1..Len(script)
      <3>1. n \in S /\ toServer \in Seq(S)
        BY <2>2, <2>4
      <3> HIDE DEF S
      <3>2. Append(toServer, n) \in Seq(S)
        BY <3>1
      <3>3. toServer' \in Seq(S)
        BY <2>1, <3>1, <3>2
      <3>4. toServer' \in Seq(1..Len(script'))
        BY <2>1, <3>3 DEF S
      <3>5. read' \in 0..Len(script')
        BY <2>1, <2>2
      <3> QED
        BY <1>0, <2>1, <3>4, <3>5 DEF TypeInv, tls
    <2>7. OrderInv'
      BY <2>1, <2>2 DEF OrderInv
    <2>8. CredentialsSafe'
      BY <1>0, <2>1, <2>2, <2>3, <2>5 DEF CredentialsSafe, Kind, tls
    <2> QED
      BY <2>6, <2>7, <2>8 DEF CredentialsInv
  <1>10. CASE CommandFails \/ Replying
    BY <1>0, <1>10, SilentStep DEF CommandFails, Replying, ReadReply, ReplyDone, ReplyFails, Loop,
         config, login, tls, TypeInv, OrderInv
  <1>11. CASE Serve
    <2>1. /\ toServer # <<>> /\ toServer' = Tail(toServer)
          /\ UNCHANGED <<script, pc, proved, tls, toAuth, read>>
      BY <1>11 DEF Serve, config, login, tls
    <2>2. toServer \in Seq(1..Len(script))
      BY <1>0 DEF TypeInv
    <2>3. /\ Tail(toServer) \in Seq(1..Len(script))
          /\ \A i \in DOMAIN Tail(toServer) :
                i + 1 \in DOMAIN toServer /\ Tail(toServer)[i] = toServer[i + 1]
      BY <2>1, <2>2
    <2>4. TypeInv'
      BY <1>0, <2>1, <2>3 DEF TypeInv, tls
    <2>5. OrderInv'
      BY <1>0, <2>1 DEF OrderInv, Secured, tls
    <2>6. CredentialsSafe'
      BY <1>0, <2>1, <2>3 DEF CredentialsSafe, Kind, tls
    <2> QED
      BY <2>4, <2>5, <2>6 DEF CredentialsInv
  <1>12. CASE Cancel \/ CloseOnCancel \/ UNCHANGED vars
    <2>1. UNCHANGED tls => (Secured <=> Secured')
      BY DEF tls, Secured
    <2> QED
      BY <1>0, <1>12, <2>1, SilentStep DEF Cancel, CloseOnCancel, vars, config, login, tls,
           TypeInv, OrderInv
  <1> QED
    BY <1>1, <1>2, <1>3, <1>4, <1>5, <1>6, <1>7, <1>8, <1>9, <1>10, <1>11, <1>12
       DEF Next, Handshake, Authenticate

(***************************************************************************)
(* Whatever packets the server answers with and in whatever order, for     *)
(* every plugin: the password is sent in the clear only inside TLS, with a *)
(* verified server unless InsecureSkipVerify was set; nothing is sent for  *)
(* a client that did not log in; and neither COM_CHANGE_USER nor the two   *)
(* replication commands that readClientCommand knows are passed on.  The   *)
(* server may grant COM_BINLOG_DUMP_GTID: no hypothesis excludes it here.  *)
(***************************************************************************)
THEOREM PasswordStaysInsideTLS == Spec => []CredentialsSafe
  <1>1. CredentialsInv => CredentialsSafe
    BY DEF CredentialsInv
  <1> QED
    BY <1>1, CredentialsInit, CredentialsNext, PTL DEF Spec
-----------------------------------------------------------------------------
(***************************************************************************)
(* The parser of replies.  Only this part of `reply` decides where a reply *)
(* ends and what is recorded of it.                                        *)
(***************************************************************************)
V(stage, left, rows, ok, id) ==
    [stage |-> stage, left |-> left, rows |-> rows, ok |-> ok, id |-> id]

View(r) == V(r.stage, r.left, r.rows, r.ok, r.id)

Over(v) == v.stage \in {"done", "fail"}

(* One packet p of the reply to a command of kind k; e: with EOF packets. *)
Step(e, k, v, p) ==
    LET to(stage, left) == V(stage, left, v.rows, v.ok, v.id)
        errored   == V("done", 0, v.rows, FALSE, v.id)
        continued == to(IF p.more THEN "first" ELSE "done", 0)
        counted   == V(v.stage, v.left, v.rows + 1, v.ok, v.id)
        group(n)  == IF n > 0 /\ e THEN n + 1 ELSE n
        skipped   == group(p.params) + group(p.columns)
        ends      == p.t = "eof" /\ ~p.long
    IN  IF v.stage = "first" THEN
             IF p.t = "err" THEN errored
             ELSE IF p.t = "ok" THEN continued
             ELSE IF p.t = "text" /\ k = "stats" THEN to("done", 0)
             ELSE IF p.t = "count" THEN to("defs", p.columns)
             ELSE to("fail", 0)
        ELSE IF v.stage = "defs" THEN
             IF v.left > 1 THEN to("defs", v.left - 1)
             ELSE to(IF e THEN "terminator" ELSE "rows", 0)
        ELSE IF v.stage = "terminator" THEN
             IF ends THEN to("rows", 0) ELSE to("fail", 0)
        ELSE IF v.stage = "rows" THEN
             IF p.t = "err" THEN errored ELSE IF ends THEN continued ELSE counted
        ELSE IF v.stage = "prepared" THEN
             IF p.t = "err" THEN errored
             ELSE IF p.t = "prepared" THEN
                V(IF skipped = 0 THEN "done" ELSE "skip", skipped, v.rows, v.ok, p.id)
             ELSE to("fail", 0)
        ELSE IF v.stage = "skip" THEN
             to(IF v.left = 1 THEN "done" ELSE "skip", v.left - 1)
        ELSE IF p.t = "err" THEN V("done", 0, 0, FALSE, v.id)
             ELSE IF ends THEN to("done", 0) ELSE counted

(* From v the packets of s, all of them and no more, take the parser to w. *)
Leads(e, k, v, s, w) == \E f :
    /\ f[1] = v /\ f[Len(s) + 1] = w /\ Over(w)
    /\ \A i \in 1..Len(s) : ~Over(f[i]) /\ f[i + 1] = Step(e, k, f[i], s[i])

-----------------------------------------------------------------------------
(* Every variable that the replies depend on has its type. *)
Statement == [q : Nat, long : Nat]

Stages == {"none", "first", "defs", "terminator", "rows", "prepared", "skip", "until",
           "done", "fail"}

PacketTypes == {"ok", "err", "eof", "count", "row", "prepared", "text", "infile"}

Packets == [t : PacketTypes, columns : Nat, params : Nat, id : Nat, more : BOOLEAN,
            long : BOOLEAN, parts : Nat, seq : Nat]

ReplyState == [stage : Stages, left : Int, next : Nat, rows : Nat, ok : BOOLEAN, id : Nat,
               statement : Statement]

RecordState == [what : {"connect", "command", "protocol"}, n : Nat, ok : BOOLEAN, rows : Int, statement : Statement]

Deed == [ok : BOOLEAN, rows : Int, statement : Statement]

ReplyTypes ==
    /\ eof \in BOOLEAN /\ sequence \in Nat /\ exchange \in Nat
    /\ reply \in ReplyState
    /\ statements \in [Ids -> Statement] /\ prepared \in [Ids -> Statement]
    /\ fromServer \in Seq(Packets)
    /\ truth \in [1..Len(script) -> Deed]
    /\ records \in Seq(RecordState)

(* Both sides of the login counted the same packets. *)
CountedInv == pc \in Before \cup Authenticating => sequence = exchange % SequenceMod

(* Nothing happened before the command phase. *)
StartedInv ==
    pc \in Before \cup Authenticating =>
        /\ read = 0 /\ records = <<>> /\ fromServer = <<>>
        /\ statements = [id \in Ids |-> NoStatement]
        /\ prepared = [id \in Ids |-> NoStatement]

Answered(n) == Kind(n) \notin Silent \cup Intercepted

(* Commands wait for the server in their order; only the last is answered. *)
QueueInv ==
    /\ \A i \in 1..Len(toServer) : toServer[i] \in 1..read
    /\ \A i, j \in 1..Len(toServer) : i < j => toServer[i] < toServer[j]
    /\ pc = "command" => \A i \in 1..Len(toServer) : Kind(toServer[i]) \in Silent
    /\ pc = "reply" =>
          /\ read > 0 /\ Answered(read)
          /\ toServer # <<>> =>
                /\ toServer[Len(toServer)] = read
                /\ \A i \in 1..Len(toServer) - 1 : Kind(toServer[i]) \in Silent

(* What the server's statements become by a command other than prepare. *)
Effect(p, cmd) ==
    IF cmd.k = "long" THEN
        IF p[cmd.id] # NoStatement THEN [p EXCEPT ![cmd.id].long = @ + 1] ELSE p
    ELSE IF cmd.k \in {"execute", "restart"} THEN [p EXCEPT ![cmd.id].long = 0]
    ELSE IF cmd.k = "close" THEN [p EXCEPT ![cmd.id] = NoStatement]
    ELSE IF cmd.k = "reset" THEN [id \in Ids |-> NoStatement]
    ELSE p

(* The statements the server has are those the adapter knows. *)
Agree(p, s) == \A id \in Ids : p[id] # NoStatement => s[id] = p[id]

(* g goes through the commands of `queue`, positions in `cmds`. *)
Course(cmds, queue, p, g) ==
    /\ g[1] = p /\ \A i \in 1..Len(queue) + 1 : g[i] \in [Ids -> Statement]
    /\ \A i \in 1..Len(queue) : g[i + 1] = Effect(g[i], cmds[queue[i]])

(* A command the server has not read: its reply is still to come. *)
Asking ==
    LET cmd == script[read]
    IN  /\ fromServer = <<>>
        /\ View(reply) = V(FirstStage(cmd), 0, 0, TRUE, 0)
        /\ reply.next = NextSequence(cmd)

(* What is recorded at the end of the reply is what the server did. *)
Right(w) ==
    LET cmd == script[read]
    IN  w.stage = "done" =>
          /\ w.ok = truth[read].ok
          /\ w.ok => w.rows = truth[read].rows
          /\ w.ok /\ cmd.k = "execute" => reply.statement = truth[read].statement
          /\ w.ok /\ cmd.k = "prepare" =>
                w.id \in Ids /\ prepared[w.id] = [q |-> cmd.q, long |-> 0]

(* The packets on their way are numbered on from the one expected. *)
Chained(s, next) ==
    /\ s # <<>> => s[1].seq = next
    /\ \A i \in 1..Len(s) - 1 : s[i + 1].seq = Plus(s[i].seq, s[i].parts)

Hearing(w) ==
    /\ Leads(eof, Kind(read), View(reply), fromServer, w) /\ Right(w)
    /\ \A id \in Ids :
          prepared[id] # NoStatement =>
             \/ statements[id] = prepared[id]
             \/ Kind(read) = "prepare" /\ w.stage = "done" /\ w.ok /\ id = w.id

ReplyInv ==
    /\ pc = "reply" => reply.stage # "none"
    /\ pc = "command" =>
          fromServer = <<>> /\ \E g : /\ Course(script, toServer, prepared, g)
                                      /\ Agree(g[Len(toServer) + 1], statements)
    /\ pc = "reply" /\ toServer # <<>> =>
          Asking /\ \E g :
             /\ Course(script, toServer, prepared, g)
             /\ Agree(g[Len(toServer) + 1], statements)
             /\ LET cmd == script[read]
                    named == g[Len(toServer)][cmd.id]
                IN  cmd.k = "execute" /\ named # NoStatement => reply.statement = named
    /\ pc = "reply" /\ toServer = <<>> =>
          Chained(fromServer, reply.next) /\ \E w : Hearing(w)

(* A record of a reply says what was done; the rest of it is settled. *)
Honest(r, cmds, n, queue, deeds) ==
    r.what = "command" /\ cmds[r.n].k \notin Silent \cup Intercepted =>
        /\ r.n \in 1..n /\ \A i \in 1..Len(queue) : queue[i] # r.n
        /\ r.ok = deeds[r.n].ok
        /\ r.ok => r.rows = deeds[r.n].rows
        /\ r.ok /\ cmds[r.n].k = "execute" => r.statement = deeds[r.n].statement

RecordInv ==
    /\ pc = "command" => Len(records) = read + 1
    /\ pc = "reply" => Len(records) = read
    /\ \A i \in 1..Len(records) : Honest(records[i], script, read, toServer, truth)

SessionInv ==
    /\ CredentialsInv /\ ReplyTypes /\ CountedInv /\ StartedInv /\ QueueInv /\ ReplyInv
    /\ RecordInv /\ ~mismatch

-----------------------------------------------------------------------------
(* Division with remainder. *)
LEMMA Euclid ==
    ASSUME NEW m \in Nat, m > 0, NEW x \in Nat
    PROVE  \E q \in Nat : \E r \in 0..(m - 1) : x = (m * q) + r /\ r = (x % m)
<1>1. x = (m * (x \div m)) + (x % m) OBVIOUS
<1>2. x \div m \in Nat /\ (x % m) \in 0..(m - 1) OBVIOUS
<1> QED BY <1>1, <1>2

(* There is one remainder. *)
LEMMA Remainder ==
    ASSUME NEW m \in Nat, m > 0, NEW a \in Nat, NEW b \in 0..(m - 1),
           NEW c \in Nat, NEW d \in 0..(m - 1), (m * a) + b = (m * c) + d
    PROVE  b = d
<1>1. ASSUME a < c PROVE FALSE
  <2>1. (m * c) - (m * a) = m * (c - a) OBVIOUS
  <2>2. c - a >= 1 BY <1>1
  <2>3. m * (c - a) >= m BY <2>2
  <2> QED BY <2>1, <2>3
<1>2. ASSUME c < a PROVE FALSE
  <2>1. (m * a) - (m * c) = m * (a - c) OBVIOUS
  <2>2. a - c >= 1 BY <1>2
  <2>3. m * (a - c) >= m BY <2>2
  <2> QED BY <2>1, <2>3
<1>3. a = c BY <1>1, <1>2
<1> QED BY <1>3

(* Counting modulo SequenceMod step by step or at once is the same. *)
LEMMA PlusSteps ==
    ASSUME NEW x \in Nat, NEW k \in Nat
    PROVE  /\ Plus(x % SequenceMod, k) = (x + k) % SequenceMod
           /\ Plus(x, k) \in Nat
<1> DEFINE m == SequenceMod
<1>1. m \in Nat /\ m > 0 BY MySQLAssumption
<1>2. PICK q \in Nat, r \in 0..(m - 1) : x = (m * q) + r /\ r = (x % m)
  BY <1>1, Euclid
<1>3. r \in Nat /\ r + k \in Nat /\ x + k \in Nat BY <1>1
<1>4. PICK q2 \in Nat, r2 \in 0..(m - 1) : r + k = (m * q2) + r2 /\ r2 = ((r + k) % m)
  BY <1>1, <1>3, Euclid
<1>5. PICK q3 \in Nat, r3 \in 0..(m - 1) : x + k = (m * q3) + r3 /\ r3 = ((x + k) % m)
  BY <1>1, <1>3, Euclid
<1> HIDE DEF m
<1>6. (m * q3) + r3 = (m * (q + q2)) + r2
  <2>1. m * (q + q2) = (m * q) + (m * q2) BY <1>1
  <2> QED BY <1>1, <1>2, <1>4, <1>5, <2>1
<1>7. r2 = r3
  <2>1. q + q2 \in Nat OBVIOUS
  <2> QED BY <1>1, <1>6, <2>1, Remainder
<1>8. ((x % m) + k) % m = (x + k) % m BY <1>2, <1>4, <1>5, <1>7
<1>9. (x + k) % m \in Nat BY <1>1, <1>5
<1> QED BY <1>8, <1>9 DEF Plus, m

-----------------------------------------------------------------------------
(* A packet before a sequence of packets. *)
LEMMA Consing ==
    ASSUME NEW S, NEW p \in S, NEW s \in Seq(S)
    PROVE  /\ <<p>> \o s \in Seq(S) /\ Len(<<p>> \o s) = Len(s) + 1 /\ Len(s) \in Nat
           /\ (<<p>> \o s)[1] = p
           /\ \A i \in 1..Len(s) : (<<p>> \o s)[i + 1] = s[i]
<1>1. <<p>> \in Seq(S) /\ Len(<<p>>) = 1 /\ <<p>>[1] = p OBVIOUS
<1> QED BY <1>1

(* Concatenation is associative. *)
LEMMA Joining ==
    ASSUME NEW S, NEW a \in Seq(S), NEW b \in Seq(S), NEW c \in Seq(S)
    PROVE  (a \o b) \o c = a \o (b \o c) /\ a \o b \in Seq(S)
OBVIOUS

(* A parser that is over reads nothing more. *)
LEMMA LeadsNone ==
    ASSUME NEW e, NEW k, NEW v, Over(v) PROVE Leads(e, k, v, <<>>, v)
<1> DEFINE f == [i \in 1..1 |-> v]
<1>1. f[1] = v /\ Len(<<>>) = 0 OBVIOUS
<1>2. \A i \in 1..0 : FALSE OBVIOUS
<1> HIDE DEF f
<1>3. /\ f[1] = v /\ f[Len(<<>>) + 1] = v /\ Over(v)
      /\ \A i \in 1..Len(<<>>) : ~Over(f[i]) /\ f[i + 1] = Step(e, k, f[i], <<>>[i])
  BY <1>1, <1>2
<1> QED BY <1>3, Zenon DEF Leads

(* A packet that is read, and then the others. *)
LEMMA LeadsCons ==
    ASSUME NEW e, NEW k, NEW v, NEW S, NEW p \in S, NEW s \in Seq(S), NEW w, ~Over(v),
           Leads(e, k, Step(e, k, v, p), s, w)
    PROVE  Leads(e, k, v, <<p>> \o s, w)
<1>1. PICK f : /\ f[1] = Step(e, k, v, p) /\ f[Len(s) + 1] = w /\ Over(w)
               /\ \A i \in 1..Len(s) : ~Over(f[i]) /\ f[i + 1] = Step(e, k, f[i], s[i])
  BY Zenon DEF Leads
<1> DEFINE g == [i \in 1..Len(s) + 2 |-> IF i = 1 THEN v ELSE f[i - 1]]
           t == <<p>> \o s
<1>2. /\ Len(t) = Len(s) + 1 /\ Len(s) \in Nat /\ t[1] = p
      /\ \A i \in 1..Len(s) : t[i + 1] = s[i]
  BY Consing
<1>3. g[1] = v /\ \A i \in 1..Len(s) + 1 : g[i + 1] = f[i] BY <1>2
<1> HIDE DEF g, t
<1>4. g[Len(t) + 1] = w BY <1>1, <1>2, <1>3
<1>5. ASSUME NEW i \in 1..Len(t) PROVE ~Over(g[i]) /\ g[i + 1] = Step(e, k, g[i], t[i])
  <2>1. CASE i = 1
    <3>1. g[1] = v /\ t[1] = p /\ g[1 + 1] = f[1] BY <1>2, <1>3
    <3> QED BY <1>1, <2>1, <3>1, Zenon
  <2>2. CASE i # 1
    <3>1. PICK j \in 1..Len(s) : i = j + 1
      <4>1. i - 1 \in 1..Len(s) /\ i = (i - 1) + 1 BY <1>2, <2>2
      <4> QED BY <4>1
    <3>2. j \in 1..Len(s) + 1 /\ j + 1 \in 1..Len(s) + 1 BY <1>2
    <3>3. g[j + 1] = f[j] /\ g[(j + 1) + 1] = f[j + 1] /\ t[j + 1] = s[j]
      BY <1>2, <1>3, <3>2, Zenon
    <3>4. ~Over(f[j]) /\ f[j + 1] = Step(e, k, f[j], s[j]) BY <1>1
    <3> QED BY <3>1, <3>3, <3>4, Zenon
  <2> QED BY <2>1, <2>2
<1>6. Leads(e, k, v, t, w) BY <1>1, <1>3, <1>4, <1>5, Zenon DEF Leads
<1> QED BY <1>6 DEF t

(* Reading a packet leaves the others. *)
LEMMA LeadsTail ==
    ASSUME NEW e, NEW k, NEW v, NEW S, NEW s \in Seq(S), NEW w, s # <<>>,
           Leads(e, k, v, s, w)
    PROVE  ~Over(v) /\ Leads(e, k, Step(e, k, v, s[1]), Tail(s), w)
<1>1. PICK f : /\ f[1] = v /\ f[Len(s) + 1] = w /\ Over(w)
               /\ \A i \in 1..Len(s) : ~Over(f[i]) /\ f[i + 1] = Step(e, k, f[i], s[i])
  BY Zenon DEF Leads
<1> DEFINE t == Tail(s)
           g == [i \in 1..Len(s) |-> f[i + 1]]
<1>2. /\ Len(s) \in Nat /\ Len(s) > 0 /\ Len(t) = Len(s) - 1
      /\ \A i \in 1..Len(t) : t[i] = s[i + 1]
  OBVIOUS
<1>3. \A i \in 1..Len(s) : g[i] = f[i + 1] OBVIOUS
<1> HIDE DEF t, g
<1>4. 1 \in 1..Len(s) /\ Len(t) + 1 \in 1..Len(s) /\ Len(t) + 1 = Len(s) BY <1>2
<1>5. ~Over(v) /\ g[1] = Step(e, k, v, s[1])
  <2>1. ~Over(f[1]) /\ f[1 + 1] = Step(e, k, f[1], s[1]) BY <1>1, <1>4, Zenon
  <2>2. g[1] = f[1 + 1] BY <1>3, <1>4, Zenon
  <2> QED BY <1>1, <2>1, <2>2, Zenon
<1>6. g[Len(t) + 1] = w
  <2>1. g[Len(s)] = f[Len(s) + 1] BY <1>3, <1>4
  <2> QED BY <1>1, <1>4, <2>1
<1>7. ASSUME NEW i \in 1..Len(t) PROVE ~Over(g[i]) /\ g[i + 1] = Step(e, k, g[i], t[i])
  <2>1. i \in 1..Len(s) /\ i + 1 \in 1..Len(s) BY <1>2
  <2>2. g[i] = f[i + 1] /\ g[i + 1] = f[(i + 1) + 1] /\ t[i] = s[i + 1]
    BY <1>2, <1>3, <2>1, Zenon
  <2>3. ~Over(f[i + 1]) /\ f[(i + 1) + 1] = Step(e, k, f[i + 1], s[i + 1])
    BY <1>1, <2>1, Zenon
  <2> QED BY <2>2, <2>3, Zenon
<1>8. Leads(e, k, Step(e, k, v, s[1]), t, w) BY <1>1, <1>5, <1>6, <1>7, Zenon DEF Leads
<1> QED BY <1>5, <1>8 DEF t

(* The end of a reply is known from the parser alone. *)
LEMMA LeadsOver ==
    ASSUME NEW e, NEW k, NEW v, NEW S, NEW s \in Seq(S), NEW w, Leads(e, k, v, s, w)
    PROVE  /\ Over(v) => s = <<>> /\ v = w
           /\ ~Over(v) => s # <<>>
<1>1. PICK f : /\ f[1] = v /\ f[Len(s) + 1] = w /\ Over(w)
               /\ \A i \in 1..Len(s) : ~Over(f[i])
  BY Zenon DEF Leads
<1>2. Len(s) \in Nat /\ (s = <<>> <=> Len(s) = 0) OBVIOUS
<1>3. CASE Len(s) = 0 BY <1>1, <1>2, <1>3
<1>4. CASE Len(s) # 0
  <2>1. 1 \in 1..Len(s) BY <1>2, <1>4
  <2> QED BY <1>1, <1>2, <1>4, <2>1
<1> QED BY <1>3, <1>4

(* Induction over the naturals, for a set instead of a predicate. *)
LEMMA SetInduction ==
    ASSUME NEW S \in SUBSET Nat, 0 \in S, \A n \in S : n + 1 \in S
    PROVE  \A n \in Nat : n \in S
<1> DEFINE R == OpToRel(<, Nat)
           T == Nat \ S
<1>1. IsWellFoundedOn(R, Nat) BY NatLessThanWellFounded
<1>2. \A y, x \in Nat : y < x => <<y, x>> \in R BY DEF OpToRel
<1> HIDE DEF R
<1>3. ASSUME T # {} PROVE FALSE
  <2>1. PICK x \in T : \A y \in T : ~(<<y, x>> \in R)
    BY <1>1, <1>3, WFMin, Zenon
  <2>2. x - 1 \in Nat /\ x - 1 < x BY <2>1
  <2>3. x - 1 \in S BY <1>2, <2>1, <2>2
  <2>4. x - 1 + 1 = x BY <2>1
  <2> QED BY <2>1, <2>3, <2>4
<1> QED BY <1>3

-----------------------------------------------------------------------------
(* How many rows a reply has: its row packets, but for the definitions. *)
Rowed(s) == {i \in 1..Len(s) : s[i].t = "row"}

Announced(s) == UNION {{i} \X (1..s[i].columns + s[i].params) : i \in 1..Len(s)}

Clean(s) == \A i \in 1..Len(s) : s[i].t # "err"

(* s is a sequence of packets with m rows, and with an error unless b. *)
Holds(s, m, b) ==
    /\ s \in Seq(Packets) /\ (Clean(s) <=> b)
    /\ IsFiniteSet(Rowed(s)) /\ IsFiniteSet(Announced(s))
    /\ RowsIn(s) = m

(* What a packet adds. *)
Worth(p) == (IF p.t = "row" THEN 1 ELSE 0) - (p.columns + p.params)

(* As many pairs in one block as it is long. *)
LEMMA Block ==
    ASSUME NEW j, NEW n \in Nat
    PROVE  IsFiniteSet({j} \X (1..n)) /\ Cardinality({j} \X (1..n)) = n
<1>1. IsFiniteSet({j}) /\ Cardinality({j}) = 1 BY FS_Singleton
<1>2. IsFiniteSet(1..n) /\ Cardinality(1..n) = n BY FS_Interval
<1>3. /\ IsFiniteSet({j} \X (1..n))
      /\ Cardinality({j} \X (1..n)) = Cardinality({j}) * Cardinality(1..n)
  BY <1>1, <1>2, FS_Product
<1> QED BY <1>1, <1>2, <1>3

(* A set and its image under a function that maps nothing twice. *)
LEMMA SameSize ==
    ASSUME NEW A, NEW B, IsFiniteSet(A), NEW f \in [A -> B],
           \A x, y \in A : f[x] = f[y] => x = y, \A z \in B : \E x \in A : f[x] = z
    PROVE  IsFiniteSet(B) /\ Cardinality(B) = Cardinality(A)
<1>1. f \in Bijection(A, B) BY DEF Bijection, Injection, Surjection, IsInjective
<1>2. ExistsBijection(A, B) BY <1>1 DEF ExistsBijection
<1> QED BY <1>2, FS_Bijection

(* Disjoint finite sets. *)
LEMMA Apart ==
    ASSUME NEW A, NEW B, IsFiniteSet(A), IsFiniteSet(B), A \cap B = {}
    PROVE  /\ IsFiniteSet(A \cup B)
           /\ Cardinality(A \cup B) = Cardinality(A) + Cardinality(B)
<1>1. /\ IsFiniteSet(A \cup B)
      /\ Cardinality(A \cup B) = Cardinality(A) + Cardinality(B) - Cardinality(A \cap B)
  BY FS_Union
<1>2. Cardinality(A \cap B) = 0 BY FS_EmptySet
<1>3. Cardinality(A) \in Nat /\ Cardinality(B) \in Nat BY FS_CardinalityType
<1> QED BY <1>1, <1>2, <1>3

(* No packets, no rows. *)
LEMMA HoldsNone == Holds(<<>>, 0, TRUE)
<1>1. Len(<<>>) = 0 /\ \A i \in 1..0 : FALSE OBVIOUS
<1>2. Rowed(<<>>) = {} BY <1>1 DEF Rowed
<1>3. Announced(<<>>) = {} BY <1>1 DEF Announced
<1>4. Clean(<<>>) BY <1>1 DEF Clean
<1>5. DOMAIN <<>> = 1..0 OBVIOUS
<1>6. RowsIn(<<>>) = Cardinality(Rowed(<<>>)) - Cardinality(Announced(<<>>))
  BY <1>1, <1>5, Zenon DEF RowsIn, Rowed, Announced
<1>7. IsFiniteSet({}) /\ Cardinality({}) = 0 BY FS_EmptySet
<1>8. <<>> \in Seq(Packets) BY EmptySeq
<1>9. RowsIn(<<>>) = 0
  <2>1. RowsIn(<<>>) = Cardinality({}) - Cardinality({}) BY <1>2, <1>3, <1>6, Zenon
  <2>2. 0 - 0 = 0 OBVIOUS
  <2> QED BY <1>7, <2>1, <2>2, Zenon
<1> QED BY <1>2, <1>3, <1>4, <1>7, <1>8, <1>9 DEF Holds

(* A packet before others adds what it is worth. *)
LEMMA HoldsCons ==
    ASSUME NEW s, NEW m \in Int, NEW b \in BOOLEAN, Holds(s, m, b), NEW p \in Packets
    PROVE  Holds(<<p>> \o s, m + Worth(p), b /\ p.t # "err")
<1> DEFINE t == <<p>> \o s
           c == p.columns + p.params
<1>1. /\ s \in Seq(Packets) /\ (Clean(s) <=> b)
      /\ IsFiniteSet(Rowed(s)) /\ IsFiniteSet(Announced(s)) /\ RowsIn(s) = m
  BY DEF Holds
<1>2. /\ t \in Seq(Packets) /\ Len(t) = Len(s) + 1 /\ Len(s) \in Nat /\ t[1] = p
      /\ \A i \in 1..Len(s) : t[i + 1] = s[i]
  BY <1>1, Consing
<1>3. c \in Nat
  <2>1. p.columns \in Nat /\ p.params \in Nat BY DEF Packets
  <2> QED BY <2>1
<1>4. \A i \in 1..Len(t) : i = 1 \/ \E j \in 1..Len(s) : i = j + 1
  <2> SUFFICES ASSUME NEW i \in 1..Len(t), i # 1 PROVE \E j \in 1..Len(s) : i = j + 1
    OBVIOUS
  <2>1. i - 1 \in 1..Len(s) /\ i = (i - 1) + 1 BY <1>2
  <2> QED BY <2>1
<1>5. 1 \in 1..Len(t) /\ \A j \in 1..Len(s) : j + 1 \in 1..Len(t) /\ j + 1 # 1 BY <1>2
<1> HIDE DEF t, c
<1>6. /\ IsFiniteSet(Rowed(t))
      /\ Cardinality(Rowed(t)) = Cardinality(Rowed(s)) + (IF p.t = "row" THEN 1 ELSE 0)
  <2> DEFINE A == Rowed(s)
             B == {i + 1 : i \in A}
             f == [i \in A |-> i + 1]
  <2>0. A \subseteq Nat BY <1>2 DEF Rowed
  <2>1. IsFiniteSet(B) /\ Cardinality(B) = Cardinality(A)
    <3>1. /\ f \in [A -> B] /\ \A x, y \in A : f[x] = f[y] => x = y
          /\ \A z \in B : \E x \in A : f[x] = z
      BY <2>0
    <3> HIDE DEF A, B, f
    <3>2. IsFiniteSet(A) BY <1>1 DEF A
    <3> QED BY <3>1, <3>2, SameSize
  <2>2. \A i : i \in Rowed(t) <=> (i = 1 /\ p.t = "row") \/ i \in B
    <3>1. ASSUME NEW i \in Rowed(t) PROVE (i = 1 /\ p.t = "row") \/ i \in B
      <4>1. i \in 1..Len(t) /\ t[i].t = "row" BY DEF Rowed
      <4>2. CASE i = 1 BY <1>2, <4>1, <4>2
      <4>3. CASE i # 1
        <5>1. PICK j \in 1..Len(s) : i = j + 1 BY <1>4, <4>1, <4>3
        <5>2. j \in A BY <1>2, <4>1, <5>1 DEF Rowed
        <5> QED BY <5>1, <5>2
      <4> QED BY <4>2, <4>3
    <3>2. 1 \in Rowed(t) <=> p.t = "row" BY <1>2, <1>5 DEF Rowed
    <3>3. ASSUME NEW i \in A PROVE i + 1 \in Rowed(t) BY <1>2, <1>5 DEF Rowed
    <3> QED BY <3>1, <3>2, <3>3
  <2>3. 1 \notin B
    <3>1. \A i \in 1..Len(s) : i + 1 # 1 BY <1>2
    <3>2. \A i \in A : i \in 1..Len(s) BY DEF Rowed
    <3> HIDE DEF A
    <3> QED BY <3>1, <3>2
  <2>4. Cardinality(A) \in Nat BY <1>1, FS_CardinalityType
  <2> HIDE DEF A, B, f
  <2>5. CASE p.t = "row"
    <3>1. Rowed(t) = B \cup {1} BY <2>2, <2>5
    <3>2. IsFiniteSet(B \cup {1}) /\ Cardinality(B \cup {1}) = Cardinality(B) + 1
      BY <2>1, <2>3, FS_AddElement
    <3> QED BY <2>1, <2>5, <3>1, <3>2 DEF A
  <2>6. CASE p.t # "row"
    <3>1. Rowed(t) = B BY <2>2, <2>6
    <3> QED BY <2>1, <2>4, <2>6, <3>1 DEF A
  <2> QED BY <2>5, <2>6
<1>7. /\ IsFiniteSet(Announced(t))
      /\ Cardinality(Announced(t)) = Cardinality(Announced(s)) + c
  <2> DEFINE A == Announced(s)
             B == {<<z[1] + 1, z[2]>> : z \in A}
             f == [z \in A |-> <<z[1] + 1, z[2]>>]
             C == {1} \X (1..c)
             D(i) == {i} \X (1..t[i].columns + t[i].params)
  <2>0. \A z : z \in A <=> \E i \in 1..Len(s) : \E x \in 1..s[i].columns + s[i].params :
                             z = <<i, x>>
    BY DEF Announced
  <2>1. \A z : z \in Announced(t) <=>
           \E i \in 1..Len(t) : \E x \in 1..t[i].columns + t[i].params : z = <<i, x>>
    BY DEF Announced
  <2>2. \A z \in A : z[1] \in 1..Len(s) /\ z = <<z[1], z[2]>> BY <2>0
  <2>3. IsFiniteSet(B) /\ Cardinality(B) = Cardinality(A)
    <3>1. f \in [A -> B] /\ \A z \in B : \E x \in A : f[x] = z OBVIOUS
    <3>2. ASSUME NEW x \in A, NEW y \in A, f[x] = f[y] PROVE x = y
      <4>1. f[x] = <<x[1] + 1, x[2]>> /\ f[y] = <<y[1] + 1, y[2]>> OBVIOUS
      <4>2. x[1] + 1 = y[1] + 1 /\ x[2] = y[2] BY <3>2, <4>1
      <4>3. x[1] \in Nat /\ y[1] \in Nat BY <2>2
      <4>4. x[1] = y[1] BY <4>2, <4>3
      <4>5. x = <<x[1], x[2]>> /\ y = <<y[1], y[2]>> BY <2>2
      <4> QED BY <4>2, <4>4, <4>5, Zenon
    <3> HIDE DEF A, B, f
    <3>3. IsFiniteSet(A) BY <1>1 DEF A
    <3> QED BY <3>1, <3>2, <3>3, SameSize
  <2>4. IsFiniteSet(C) /\ Cardinality(C) = c BY <1>3, Block
  <2>5. ASSUME NEW z PROVE z \in Announced(t) <=> z \in C \cup B
    <3>1. ASSUME z \in Announced(t) PROVE z \in C \cup B
      <4>0. PICK i \in 1..Len(t) : \E x \in 1..t[i].columns + t[i].params : z = <<i, x>>
        BY <2>1, <3>1
      <4>1. PICK x \in 1..t[i].columns + t[i].params : z = <<i, x>> BY <4>0
      <4>2. CASE i = 1
        <5>1. x \in 1..c BY <1>2, <4>1, <4>2 DEF c
        <5> QED BY <4>1, <4>2, <5>1
      <4>3. CASE i # 1
        <5>1. PICK j \in 1..Len(s) : i = j + 1 BY <1>4, <4>3
        <5>2. x \in 1..s[j].columns + s[j].params BY <1>2, <4>1, <5>1
        <5>3. <<j, x>> \in A BY <2>0, <5>2
        <5>4. z = <<<<j, x>>[1] + 1, <<j, x>>[2]>> BY <4>1, <5>1
        <5> HIDE DEF A
        <5> QED BY <5>3, <5>4
      <4> QED BY <4>2, <4>3
    <3>2. ASSUME z \in C PROVE z \in Announced(t)
      <4>1. PICK x \in 1..c : z = <<1, x>> BY <3>2
      <4>2. x \in 1..t[1].columns + t[1].params BY <1>2, <4>1 DEF c
      <4> QED BY <1>5, <2>1, <4>1, <4>2
    <3>3. ASSUME z \in B PROVE z \in Announced(t)
      <4>1. PICK y \in A : z = <<y[1] + 1, y[2]>> BY <3>3
      <4>5. PICK j \in 1..Len(s) : \E x \in 1..s[j].columns + s[j].params : y = <<j, x>>
        BY <2>0, <4>1
      <4>2. PICK x \in 1..s[j].columns + s[j].params : y = <<j, x>> BY <4>5
      <4>3. z = <<j + 1, x>> BY <4>1, <4>2
      <4>4. x \in 1..t[j + 1].columns + t[j + 1].params BY <1>2, <4>2
      <4> QED BY <1>5, <2>1, <4>3, <4>4
    <3> QED BY <3>1, <3>2, <3>3
  <2>6. C \cap B = {}
    <3>1. ASSUME NEW z \in B PROVE z[1] # 1
      <4>1. PICK y \in A : z = <<y[1] + 1, y[2]>> OBVIOUS
      <4>2. y[1] \in 1..Len(s) BY <2>2
      <4>3. y[1] + 1 # 1 BY <1>2, <4>2
      <4> QED BY <4>1, <4>3
    <3>2. \A z \in C : z[1] = 1 OBVIOUS
    <3> QED BY <3>1, <3>2
  <2> HIDE DEF A, B, C, f
  <2>7. Announced(t) = C \cup B BY <2>5
  <2>8. /\ IsFiniteSet(C \cup B)
        /\ Cardinality(C \cup B) = Cardinality(C) + Cardinality(B)
    BY <2>3, <2>4, <2>6, Apart
  <2>9. Cardinality(A) \in Nat BY <1>1, FS_CardinalityType DEF A
  <2> QED BY <1>3, <2>3, <2>4, <2>7, <2>8, <2>9 DEF A
<1>8. Clean(t) <=> b /\ p.t # "err"
  <2>1. ASSUME Clean(t) PROVE Clean(s) /\ p.t # "err" BY <1>2, <1>5, <2>1 DEF Clean
  <2>2. ASSUME Clean(s), p.t # "err" PROVE Clean(t)
    <3> SUFFICES ASSUME NEW i \in 1..Len(t) PROVE t[i].t # "err" BY DEF Clean
    <3>1. CASE i = 1 BY <1>2, <2>2, <3>1
    <3>2. CASE i # 1
      <4>1. PICK j \in 1..Len(s) : i = j + 1 BY <1>4, <3>2
      <4> QED BY <1>2, <2>2, <4>1 DEF Clean
    <3> QED BY <3>1, <3>2
  <2> QED BY <1>1, <2>1, <2>2
<1>9. \A x \in Seq(Packets) : RowsIn(x) = Cardinality(Rowed(x)) - Cardinality(Announced(x))
  <2> SUFFICES ASSUME NEW x \in Seq(Packets)
               PROVE  RowsIn(x) = Cardinality(Rowed(x)) - Cardinality(Announced(x))
    OBVIOUS
  <2>1. DOMAIN x = 1..Len(x) OBVIOUS
  <2> QED BY <2>1, Zenon DEF RowsIn, Rowed, Announced
<1>10. RowsIn(t) = m + Worth(p)
  <2>1. Cardinality(Rowed(s)) \in Nat /\ Cardinality(Announced(s)) \in Nat
    BY <1>1, FS_CardinalityType
  <2>2. m = Cardinality(Rowed(s)) - Cardinality(Announced(s)) BY <1>1, <1>9
  <2>3. RowsIn(t) = Cardinality(Rowed(t)) - Cardinality(Announced(t)) BY <1>2, <1>9
  <2>4. Worth(p) = (IF p.t = "row" THEN 1 ELSE 0) - c BY DEF Worth, c
  <2> QED BY <1>3, <1>6, <1>7, <2>1, <2>2, <2>3, <2>4
<1>11. Holds(t, m + Worth(p), b /\ p.t # "err")
  BY <1>2, <1>6, <1>7, <1>8, <1>10 DEF Holds
<1> QED BY <1>11 DEF t

-----------------------------------------------------------------------------
(* From v the packets of s take the parser to w; they have m rows, and an  *)
(* error unless b.                                                         *)
Reads(k, v, s, w, m, b) == Leads(eof, k, v, s, w) /\ Holds(s, m, b)

(* A plain packet of type t, and one with all that a reply sets. *)
Plainly(p, t) ==
    /\ p \in Packets /\ p.t = t /\ p.columns = 0 /\ p.params = 0 /\ p.id = 0
    /\ p.long = FALSE

(* The packets of the server. *)
LEMMA PacketFields ==
    /\ \A t \in PacketTypes : Plainly(Packet(t), t) /\ Packet(t).more = FALSE
                         /\ Packet(t).parts = 1
    /\ Plainly(BigRow, "row") /\ Plainly(OK, "ok") /\ OK.more = FALSE /\ Plainly(Err, "err")
    /\ Plainly(More(OK), "ok") /\ More(OK).more = TRUE
    /\ Plainly(More(Packet("eof")), "eof") /\ More(Packet("eof")).more = TRUE
<1>1. ASSUME NEW t \in PacketTypes
      PROVE  /\ Plainly(Packet(t), t) /\ Packet(t).more = FALSE /\ Packet(t).parts = 1
  BY DEF Plainly, Packet, Packets
<1>2. ASSUME NEW t, NEW p, Plainly(p, t)
      PROVE  Plainly([p EXCEPT !.parts = 2], t)
  BY <1>2 DEF Plainly, Packets
<1>3. ASSUME NEW t, NEW p, Plainly(p, t)
      PROVE  Plainly([p EXCEPT !.more = TRUE], t) /\ [p EXCEPT !.more = TRUE].more = TRUE
  BY <1>3 DEF Plainly, Packets
<1>4. {"row", "ok", "err", "eof"} \subseteq PacketTypes BY DEF PacketTypes
<1>5. Plainly(BigRow, "row") BY <1>1, <1>2, <1>4 DEF BigRow
<1>6. Plainly(OK, "ok") /\ Plainly(Err, "err") /\ OK.more = FALSE BY <1>1, <1>4 DEF OK, Err
<1>7. Plainly(More(OK), "ok") /\ More(OK).more = TRUE BY <1>3, <1>6 DEF More
<1>8. Plainly(More(Packet("eof")), "eof") /\ More(Packet("eof")).more = TRUE
  BY <1>1, <1>3, <1>4 DEF More
<1> QED BY <1>1, <1>5, <1>6, <1>7, <1>8

(* The parts of a view. *)
LEMMA ViewFields ==
    \A stage, left, rows, ok, id :
        LET v == V(stage, left, rows, ok, id)
        IN  v.stage = stage /\ v.left = left /\ v.rows = rows /\ v.ok = ok /\ v.id = id
BY DEF V

(* One packet and then the others, with what they add up to. *)
LEMMA ReadsCons ==
    ASSUME NEW k, NEW v, NEW u, NEW s, NEW w, NEW m \in Int, NEW b \in BOOLEAN,
           NEW p \in Packets, ~Over(v), Step(eof, k, v, p) = u, Reads(k, u, s, w, m, b),
           NEW n, n = m + Worth(p), NEW c \in BOOLEAN, c <=> b /\ p.t # "err"
    PROVE  Reads(k, v, <<p>> \o s, w, n, c)
<1>1. s \in Seq(Packets) /\ Holds(s, m, b) /\ Leads(eof, k, Step(eof, k, v, p), s, w)
  BY DEF Reads, Holds
<1>2. Leads(eof, k, v, <<p>> \o s, w) BY <1>1, LeadsCons
<1>3. Holds(<<p>> \o s, m + Worth(p), b /\ p.t # "err") BY <1>1, HoldsCons
<1>4. Holds(<<p>> \o s, n, c) BY <1>3 DEF Holds
<1> QED BY <1>2, <1>4 DEF Reads

(* A reply that is over. *)
LEMMA ReadsNone ==
    ASSUME NEW k, NEW v, Over(v) PROVE Reads(k, v, <<>>, v, 0, TRUE)
BY LeadsNone, HoldsNone DEF Reads

(* What a plain packet is worth. *)
LEMMA PlainWorth ==
    ASSUME NEW p, NEW t, Plainly(p, t)
    PROVE  Worth(p) = IF t = "row" THEN 1 ELSE 0
BY DEF Plainly, Worth

(* A row, a terminator, an end of rows and a result without rows. *)
LEMMA RowRead ==
    ASSUME NEW k, NEW n \in Nat, NEW ok, NEW id, NEW s, NEW w, NEW m \in Int,
           NEW b \in BOOLEAN, NEW p, Plainly(p, "row"), NEW stage \in {"rows", "until"},
           Reads(k, V(stage, 0, n + 1, ok, id), s, w, m, b)
    PROVE  Reads(k, V(stage, 0, n, ok, id), <<p>> \o s, w, m + 1, b)
<1> DEFINE v == V(stage, 0, n, ok, id)
           u == V(stage, 0, n + 1, ok, id)
<1>1. v.stage = stage /\ v.left = 0 /\ v.rows = n /\ v.ok = ok /\ v.id = id
  BY ViewFields
<1>2. p \in Packets /\ p.t = "row" BY DEF Plainly
<1> HIDE DEF v
<1>3. ~Over(v) BY <1>1 DEF Over
<1>4. Step(eof, k, v, p) = u BY <1>1, <1>2 DEF Step
<1>5. Worth(p) = 1 BY PlainWorth
<1> HIDE DEF u
<1>6. Reads(k, u, s, w, m, b) BY DEF u
<1>7. b <=> b /\ p.t # "err" BY <1>2
<1>8. Reads(k, v, <<p>> \o s, w, m + 1, b) BY <1>2, <1>3, <1>4, <1>5, <1>6, <1>7, ReadsCons
<1> QED BY <1>8 DEF v

(* An EOF packet ends the rows, and another result may follow. *)
LEMMA EndRead ==
    ASSUME NEW k, NEW n \in Nat, NEW ok, NEW id, NEW s, NEW w, NEW m \in Int,
           NEW b \in BOOLEAN, NEW p, Plainly(p, "eof"), p.more \in BOOLEAN,
           Reads(k, V(IF p.more THEN "first" ELSE "done", 0, n, ok, id), s, w, m, b)
    PROVE  Reads(k, V("rows", 0, n, ok, id), <<p>> \o s, w, m, b)
<1> DEFINE v == V("rows", 0, n, ok, id)
           u == V(IF p.more THEN "first" ELSE "done", 0, n, ok, id)
<1>1. v.stage = "rows" /\ v.left = 0 /\ v.rows = n /\ v.ok = ok /\ v.id = id
  BY ViewFields
<1>2. p \in Packets /\ p.t = "eof" /\ p.long = FALSE BY DEF Plainly
<1> HIDE DEF v
<1>3. ~Over(v) BY <1>1 DEF Over
<1>4. Step(eof, k, v, p) = u BY <1>1, <1>2 DEF Step
<1>5. Worth(p) = 0 BY PlainWorth
<1> HIDE DEF u
<1>6. Reads(k, u, s, w, m, b) BY DEF u
<1>7. (b <=> b /\ p.t # "err") /\ m = m + Worth(p) BY <1>2, <1>5
<1>8. Reads(k, v, <<p>> \o s, w, m, b) BY <1>2, <1>3, <1>4, <1>6, <1>7, ReadsCons
<1> QED BY <1>8 DEF v

(* A result without rows, and another one may follow. *)
LEMMA OkRead ==
    ASSUME NEW k, NEW n \in Nat, NEW ok, NEW id, NEW s, NEW w, NEW m \in Int,
           NEW b \in BOOLEAN, NEW p, Plainly(p, "ok"), p.more \in BOOLEAN,
           Reads(k, V(IF p.more THEN "first" ELSE "done", 0, n, ok, id), s, w, m, b)
    PROVE  Reads(k, V("first", 0, n, ok, id), <<p>> \o s, w, m, b)
<1> DEFINE v == V("first", 0, n, ok, id)
           u == V(IF p.more THEN "first" ELSE "done", 0, n, ok, id)
<1>1. v.stage = "first" /\ v.left = 0 /\ v.rows = n /\ v.ok = ok /\ v.id = id
  BY ViewFields
<1>2. p \in Packets /\ p.t = "ok" BY DEF Plainly
<1> HIDE DEF v
<1>3. ~Over(v) BY <1>1 DEF Over
<1>4. Step(eof, k, v, p) = u BY <1>1, <1>2 DEF Step
<1>5. Worth(p) = 0 BY PlainWorth
<1> HIDE DEF u
<1>6. Reads(k, u, s, w, m, b) BY DEF u
<1>7. (b <=> b /\ p.t # "err") /\ m = m + Worth(p) BY <1>2, <1>5
<1>8. Reads(k, v, <<p>> \o s, w, m, b) BY <1>2, <1>3, <1>4, <1>6, <1>7, ReadsCons
<1> QED BY <1>8 DEF v

(* Sequences of the same length with the same elements are equal. *)
LEMMA SeqEqual ==
    ASSUME NEW S, NEW a \in Seq(S), NEW b \in Seq(S), Len(a) = Len(b),
           \A i \in 1..Len(a) : a[i] = b[i]
    PROVE  a = b
OBVIOUS

(* The definitions of one or two columns. *)
LEMMA DefinitionsAre ==
    LET p == Packet("row")
    IN  /\ Definitions(0) = <<>> /\ Definitions(1) = <<p>> /\ Definitions(2) = <<p>> \o <<p>>
<1> DEFINE p == Packet("row")
<1>1. Definitions(0) = <<>> BY DEF Definitions
<1> HIDE DEF p
<1>2. [i \in 1..1 |-> p] = <<p>> OBVIOUS
<1>3. [i \in 1..2 |-> p] = <<p>> \o <<p>>
  <2> DEFINE a == <<p>>
             t == [i \in 1..2 |-> p]
  <2>1. a \in Seq({p}) /\ Len(a) = 1 /\ a[1] = p OBVIOUS
  <2>2. t \in Seq({p}) /\ Len(t) = 2 /\ t[1] = p /\ t[2] = p OBVIOUS
  <2> HIDE DEF t
  <2>3. a \o a \in Seq({p}) /\ Len(a \o a) = 2 /\ (a \o a)[1] = p /\ (a \o a)[2] = p
    <3>1. p \in {p} /\ 1 \in 1..Len(a) BY <2>1
    <3>2. /\ <<p>> \o a \in Seq({p}) /\ Len(<<p>> \o a) = Len(a) + 1
          /\ (<<p>> \o a)[1] = p /\ \A i \in 1..Len(a) : (<<p>> \o a)[i + 1] = a[i]
      BY <2>1, <3>1, Consing
    <3>3. (a \o a)[1 + 1] = a[1] BY <3>1, <3>2, Zenon
    <3> QED BY <2>1, <3>2, <3>3
  <2> HIDE DEF a
  <2>4. t = a \o a
    <3>1. \A i \in 1..2 : t[i] = (a \o a)[i] BY <2>2, <2>3
    <3> QED BY <2>2, <2>3, <3>1, SeqEqual
  <2> QED BY <2>4 DEF a, t
<1> QED BY <1>1, <1>2, <1>3 DEF Definitions, p

(* A definition is skipped, and the terminator after the last of them. *)
LEMMA DefinitionRead ==
    ASSUME NEW k, NEW c \in {1, 2}, NEW n \in Nat, NEW ok, NEW id, NEW s, NEW w,
           NEW m \in Int, NEW b \in BOOLEAN,
           Reads(k, IF c = 1 THEN V(IF eof THEN "terminator" ELSE "rows", 0, n, ok, id)
                    ELSE V("defs", 1, n, ok, id), s, w, m, b)
    PROVE  Reads(k, V("defs", c, n, ok, id), <<Packet("row")>> \o s, w, m + 1, b)
<1> DEFINE v == V("defs", c, n, ok, id)
           u == IF c = 1 THEN V(IF eof THEN "terminator" ELSE "rows", 0, n, ok, id)
                ELSE V("defs", 1, n, ok, id)
           p == Packet("row")
<1>1. v.stage = "defs" /\ v.left = c /\ v.rows = n /\ v.ok = ok /\ v.id = id
  BY ViewFields
<1>2. p \in Packets /\ p.t = "row" /\ Plainly(p, "row")
  BY PacketFields DEF Plainly, PacketTypes
<1> HIDE DEF v, p
<1>3. ~Over(v) BY <1>1 DEF Over
<1>4. Step(eof, k, v, p) = u
  <2>1. CASE c = 1 BY <1>1, <2>1 DEF Step
  <2>2. CASE c = 2 BY <1>1, <2>2 DEF Step
  <2> QED BY <2>1, <2>2
<1> HIDE DEF u
<1>5. Worth(p) = 1 BY <1>2, PlainWorth
<1>6. Reads(k, u, s, w, m, b) BY DEF u
<1>7. (b <=> b /\ p.t # "err") BY <1>2
<1>8. Reads(k, v, <<p>> \o s, w, m + 1, b) BY <1>2, <1>3, <1>4, <1>5, <1>6, <1>7, ReadsCons
<1> QED BY <1>8 DEF v, p

(* The terminator of the definitions, where there is one. *)
LEMMA TerminatorRead ==
    ASSUME NEW k, NEW n \in Nat, NEW ok, NEW id, NEW s \in Seq(Packets), NEW w,
           NEW m \in Int, NEW b \in BOOLEAN, eof \in BOOLEAN,
           Reads(k, V("rows", 0, n, ok, id), s, w, m, b)
    PROVE  Reads(k, V(IF eof THEN "terminator" ELSE "rows", 0, n, ok, id),
                 Terminators \o s, w, m, b)
<1>1. CASE ~eof
  <2>1. Terminators = <<>> BY <1>1 DEF Terminators
  <2>2. <<>> \o s = s OBVIOUS
  <2> QED BY <1>1, <2>1, <2>2
<1>2. CASE eof
  <2> DEFINE v == V("terminator", 0, n, ok, id)
             u == V("rows", 0, n, ok, id)
             p == Packet("eof")
  <2>1. v.stage = "terminator" /\ v.left = 0 /\ v.rows = n /\ v.ok = ok /\ v.id = id
    BY ViewFields
  <2>2. p \in Packets /\ p.t = "eof" /\ p.long = FALSE /\ Plainly(p, "eof")
    BY PacketFields DEF Plainly, PacketTypes
  <2>3. Terminators = <<p>> BY <1>2 DEF Terminators
  <2> HIDE DEF v, p
  <2>4. ~Over(v) BY <2>1 DEF Over
  <2>5. Step(eof, k, v, p) = u BY <2>1, <2>2 DEF Step
  <2> HIDE DEF u
  <2>6. Worth(p) = 0 BY <2>2, PlainWorth
  <2>7. Reads(k, u, s, w, m, b) BY DEF u
  <2>8. (b <=> b /\ p.t # "err") /\ m = m + Worth(p) BY <2>2, <2>6
  <2>9. Reads(k, v, <<p>> \o s, w, m, b) BY <2>2, <2>4, <2>5, <2>7, <2>8, ReadsCons
  <2> QED BY <1>2, <2>3, <2>9 DEF v
<1> QED BY <1>1, <1>2

(* A result with rows: its count, its definitions, and then the rows. *)
LEMMA ResultRead ==
    ASSUME NEW k, NEW c \in {1, 2}, NEW n \in Nat, NEW ok, NEW id,
           NEW rows \in Seq(Packets), NEW end \in Packets, NEW s \in Seq(Packets), NEW w,
           NEW m \in Int, NEW b \in BOOLEAN, eof \in BOOLEAN,
           Reads(k, V("rows", 0, n, ok, id), rows \o (<<end>> \o s), w, m, b)
    PROVE  Reads(k, V("first", 0, n, ok, id), ResultSet(c, rows, end) \o s, w, m, b)
<1> DEFINE h == [Packet("count") EXCEPT !.columns = c]
           d == Packet("row")
           x == rows \o (<<end>> \o s)
           y == Terminators \o x
           v == V("first", 0, n, ok, id)
<1>1. h \in Packets /\ h.t = "count" /\ h.columns = c /\ h.params = 0
  <2>1. Plainly(Packet("count"), "count") BY PacketFields DEF PacketTypes
  <2>2. c \in Nat OBVIOUS
  <2>3. ASSUME NEW p \in Packets, NEW l \in Nat, p.t = "count", p.params = 0
        PROVE  LET q == [p EXCEPT !.columns = l]
               IN  q \in Packets /\ q.t = "count" /\ q.columns = l /\ q.params = 0
    BY <2>3 DEF Packets
  <2>4. /\ Packet("count") \in Packets /\ Packet("count").t = "count"
        /\ Packet("count").params = 0
    BY <2>1 DEF Plainly
  <2> QED BY <2>2, <2>3, <2>4, Zenon
<1>2. d \in Packets /\ Packet("eof") \in Packets
  BY PacketFields DEF Plainly, PacketTypes
<1>3. Worth(h) = 0 - c BY <1>1 DEF Worth
<1> HIDE DEF h, d
<1>4. <<h>> \in Seq(Packets) /\ <<d>> \in Seq(Packets) /\ <<end>> \in Seq(Packets)
      /\ Terminators \in Seq(Packets)
  BY <1>1, <1>2, EmptySeq DEF Terminators
<1>5. Definitions(c) = IF c = 1 THEN <<d>> ELSE <<d>> \o <<d>>
  BY DefinitionsAre DEF d
<1>6. Definitions(c) \in Seq(Packets) BY <1>4, <1>5, Joining
<1>7. <<end>> \o s \in Seq(Packets) /\ x \in Seq(Packets) /\ y \in Seq(Packets)
  BY <1>4, Joining
<1>8. ResultSet(c, rows, end) \o s = <<h>> \o (Definitions(c) \o y)
  <2> DEFINE D == Definitions(c)
             T == Terminators
             E == <<end>>
             H == <<h>>
  <2>1. ResultSet(c, rows, end) = (((H \o D) \o T) \o rows) \o E BY DEF ResultSet, h
  <2> HIDE DEF D, T, E, H
  <2>2. D \in Seq(Packets) /\ T \in Seq(Packets) /\ E \in Seq(Packets) /\ H \in Seq(Packets)
    BY <1>4, <1>6 DEF D, T, E, H
  <2>3. \A f, g, i \in Seq(Packets) : (f \o g) \o i = f \o (g \o i) /\ f \o g \in Seq(Packets)
    BY Joining
  <2> DEFINE P == Seq(Packets)
  <2> HIDE DEF P
  <2>4. \A f, g, i \in P : (f \o g) \o i = f \o (g \o i) /\ f \o g \in P
    BY <2>3, Zenon DEF P
  <2>5. D \in P /\ T \in P /\ E \in P /\ H \in P /\ rows \in P /\ s \in P
    BY <2>2, Zenon DEF P
  <2>6. H \o D \in P /\ E \o s \in P BY <2>4, <2>5, Zenon
  <2>7. (H \o D) \o T \in P /\ rows \o (E \o s) \in P BY <2>4, <2>5, <2>6, Zenon
  <2>8. ((H \o D) \o T) \o rows \in P /\ T \o (rows \o (E \o s)) \in P
    BY <2>4, <2>5, <2>7, Zenon
  <2>9. /\ ((((H \o D) \o T) \o rows) \o E) \o s = (((H \o D) \o T) \o rows) \o (E \o s)
        /\ (((H \o D) \o T) \o rows) \o (E \o s) = ((H \o D) \o T) \o (rows \o (E \o s))
    <3>1. PICK X : X = ((H \o D) \o T) \o rows OBVIOUS
    <3>2. PICK Y : Y = (H \o D) \o T OBVIOUS
    <3>3. PICK Z : Z = E \o s OBVIOUS
    <3>4. X \in P /\ E \in P /\ s \in P BY <2>5, <2>8, <3>1, Zenon
    <3>5. (X \o E) \o s = X \o (E \o s) BY <2>4, <3>4, Zenon
    <3>6. Y \in P /\ rows \in P /\ Z \in P BY <2>5, <2>6, <2>7, <3>2, <3>3, Zenon
    <3>7. (Y \o rows) \o Z = Y \o (rows \o Z) BY <2>4, <3>6, Zenon
    <3> QED BY <3>1, <3>2, <3>3, <3>5, <3>7, Zenon
  <2>10. ((H \o D) \o T) \o (rows \o (E \o s)) = (H \o D) \o (T \o (rows \o (E \o s)))
    <3>1. PICK X : X = rows \o (E \o s) OBVIOUS
    <3>2. PICK Y : Y = H \o D OBVIOUS
    <3>3. X \in P /\ Y \in P /\ T \in P BY <2>5, <2>6, <2>7, <3>1, <3>2, Zenon
    <3>4. (Y \o T) \o X = Y \o (T \o X) BY <2>4, <3>3, Zenon
    <3> QED BY <3>1, <3>2, <3>4, Zenon
  <2>11. (H \o D) \o (T \o (rows \o (E \o s))) = H \o (D \o (T \o (rows \o (E \o s))))
    <3>1. PICK X : X = T \o (rows \o (E \o s)) OBVIOUS
    <3>2. H \in P /\ D \in P /\ X \in P BY <2>5, <2>8, <3>1, Zenon
    <3>3. (H \o D) \o X = H \o (D \o X) BY <2>4, <3>2, Zenon
    <3> QED BY <3>1, <3>3, Zenon
  <2>12. ResultSet(c, rows, end) \o s = H \o (D \o (T \o (rows \o (E \o s))))
    BY <2>1, <2>9, <2>10, <2>11, Zenon
  <2> QED BY <2>12, Zenon DEF D, T, E, H
<1>9. Reads(k, V(IF eof THEN "terminator" ELSE "rows", 0, n, ok, id), y, w, m, b)
  BY <1>7, TerminatorRead
<1> HIDE DEF x, y
<1>10. Reads(k, V("defs", c, n, ok, id), Definitions(c) \o y, w, m + c, b)
  <2>1. Reads(k, V("defs", 1, n, ok, id), <<d>> \o y, w, m + 1, b)
    BY <1>9, DefinitionRead DEF d
  <2>2. CASE c = 1 BY <1>5, <2>1, <2>2
  <2>3. CASE c = 2
    <3>1. m + 1 \in Int /\ (m + 1) + 1 = m + 2 OBVIOUS
    <3>2. Reads(k, V("defs", 2, n, ok, id), <<d>> \o (<<d>> \o y), w, (m + 1) + 1, b)
      BY <2>1, <3>1, DefinitionRead DEF d
    <3>3. (<<d>> \o <<d>>) \o y = <<d>> \o (<<d>> \o y) BY <1>4, <1>7, Joining
    <3>4. Definitions(2) = <<d>> \o <<d>> BY <1>5, <2>3
    <3> QED BY <2>3, <3>1, <3>2, <3>3, <3>4
  <2> QED BY <2>2, <2>3
<1>11. v.stage = "first" /\ v.left = 0 /\ v.rows = n /\ v.ok = ok /\ v.id = id
  BY ViewFields
<1> HIDE DEF v
<1>12. ~Over(v) BY <1>11 DEF Over
<1>13. Step(eof, k, v, h) = V("defs", c, n, ok, id) BY <1>1, <1>11 DEF Step
<1>14. m + c \in Int /\ m = (m + c) + Worth(h) /\ (b <=> b /\ h.t # "err") BY <1>1, <1>3
<1>15. Reads(k, v, <<h>> \o (Definitions(c) \o y), w, m, b)
  BY <1>1, <1>10, <1>12, <1>13, <1>14, ReadsCons
<1> QED BY <1>8, <1>15 DEF v


-----------------------------------------------------------------------------
(* Read from `stage` with n rows counted, s has r rows and an error unless *)
(* b, and if it can be parsed at all that is what the parser finds.        *)
Goes(k, stage, n, s, r, b) == \E w :
    /\ Reads(k, V(stage, 0, n, TRUE, 0), s, w, r, b)
    /\ w.stage = "done" => w.ok = b /\ (b => w.rows = n + r)

(* A sequence of one packet, and of two. *)
LEMMA Unit ==
    ASSUME NEW S, NEW p \in S
    PROVE  <<p>> = <<p>> \o <<>> /\ <<p>> \in Seq(S)
OBVIOUS

(* Two packets before others. *)
LEMMA Pair ==
    ASSUME NEW S, NEW p \in S, NEW q \in S
    PROVE  <<p, q>> = <<p>> \o <<q>> /\ <<p, q>> \in Seq(S)
<1> DEFINE a == <<p, q>>
           c == <<p>> \o <<q>>
<1>1. a \in Seq(S) /\ Len(a) = 2 /\ a[1] = p /\ a[2] = q OBVIOUS
<1>2. <<q>> \in Seq(S) /\ Len(<<q>>) = 1 /\ <<q>>[1] = q /\ 1 \in 1..1 OBVIOUS
<1>3. /\ c \in Seq(S) /\ Len(c) = Len(<<q>>) + 1 /\ c[1] = p
      /\ \A i \in 1..Len(<<q>>) : c[i + 1] = <<q>>[i]
  BY <1>2, Consing
<1>4. Len(c) = 2 /\ c[1 + 1] = q BY <1>2, <1>3
<1> HIDE DEF a, c
<1>5. \A i \in 1..2 : a[i] = c[i] BY <1>1, <1>3, <1>4
<1>6. a = c BY <1>1, <1>3, <1>4, <1>5, SeqEqual
<1> QED BY <1>1, <1>6 DEF a, c

(* The end of a reply. *)
LEMMA GoesDone ==
    ASSUME NEW k, NEW n \in Nat PROVE Goes(k, "done", n, <<>>, 0, TRUE)
<1> DEFINE v == V("done", 0, n, TRUE, 0)
<1>1. v.stage = "done" /\ v.rows = n /\ v.ok = TRUE BY DEF V
<1> HIDE DEF v
<1>2. Over(v) BY <1>1 DEF Over
<1>3. Reads(k, v, <<>>, v, 0, TRUE) BY <1>2, ReadsNone
<1>4. n + 0 = n OBVIOUS
<1> QED BY <1>1, <1>3, <1>4 DEF Goes, v

(* A row is counted. *)
LEMMA GoesRow ==
    ASSUME NEW k, NEW stage \in {"rows", "until"}, NEW n \in Nat, NEW s, NEW r \in Int,
           NEW b \in BOOLEAN, NEW p, Plainly(p, "row"), Goes(k, stage, n + 1, s, r, b)
    PROVE  Goes(k, stage, n, <<p>> \o s, r + 1, b)
<1>1. PICK w : /\ Reads(k, V(stage, 0, n + 1, TRUE, 0), s, w, r, b)
               /\ w.stage = "done" => w.ok = b /\ (b => w.rows = (n + 1) + r)
  BY Zenon DEF Goes
<1>2. Reads(k, V(stage, 0, n, TRUE, 0), <<p>> \o s, w, r + 1, b) BY <1>1, RowRead
<1>3. (n + 1) + r = n + (r + 1) OBVIOUS
<1> QED BY <1>1, <1>2, <1>3, Zenon DEF Goes

(* The rows end. *)
LEMMA GoesEnd ==
    ASSUME NEW k, NEW n \in Nat, NEW s, NEW r \in Int, NEW b \in BOOLEAN, NEW p,
           Plainly(p, "eof"), p.more \in BOOLEAN,
           Goes(k, IF p.more THEN "first" ELSE "done", n, s, r, b)
    PROVE  Goes(k, "rows", n, <<p>> \o s, r, b)
<1> DEFINE u == V(IF p.more THEN "first" ELSE "done", 0, n, TRUE, 0)
<1>1. PICK w : /\ Reads(k, u, s, w, r, b)
               /\ w.stage = "done" => w.ok = b /\ (b => w.rows = n + r)
  BY Zenon DEF Goes
<1>2. Reads(k, V("rows", 0, n, TRUE, 0), <<p>> \o s, w, r, b) BY <1>1, EndRead
<1> QED BY <1>1, <1>2, Zenon DEF Goes

(* A result without rows. *)
LEMMA GoesOk ==
    ASSUME NEW k, NEW n \in Nat, NEW s, NEW r \in Int, NEW b \in BOOLEAN, NEW p,
           Plainly(p, "ok"), p.more \in BOOLEAN,
           Goes(k, IF p.more THEN "first" ELSE "done", n, s, r, b)
    PROVE  Goes(k, "first", n, <<p>> \o s, r, b)
<1> DEFINE u == V(IF p.more THEN "first" ELSE "done", 0, n, TRUE, 0)
<1>1. PICK w : /\ Reads(k, u, s, w, r, b)
               /\ w.stage = "done" => w.ok = b /\ (b => w.rows = n + r)
  BY Zenon DEF Goes
<1>2. Reads(k, V("first", 0, n, TRUE, 0), <<p>> \o s, w, r, b) BY <1>1, OkRead
<1> QED BY <1>1, <1>2, Zenon DEF Goes

(* An error ends a reply wherever it comes. *)
LEMMA GoesErr ==
    ASSUME NEW k, NEW stage \in {"first", "rows", "prepared", "until"}, NEW n \in Nat
    PROVE  Goes(k, stage, n, <<Err>> \o <<>>, 0, FALSE)
<1> DEFINE v == V(stage, 0, n, TRUE, 0)
           u == V("done", 0, IF stage = "until" THEN 0 ELSE n, FALSE, 0)
<1>1. v.stage = stage /\ v.left = 0 /\ v.rows = n /\ v.ok = TRUE /\ v.id = 0
  BY DEF V
<1>2. Err \in Packets /\ Err.t = "err" /\ Plainly(Err, "err")
  BY PacketFields DEF Plainly
<1>3. u.stage = "done" /\ u.ok = FALSE BY DEF V
<1> HIDE DEF v
<1>4. ~Over(v) BY <1>1 DEF Over
<1>5. Step(eof, k, v, Err) = u
  <2>1. CASE stage = "first" BY <1>1, <1>2, <2>1 DEF Step
  <2>2. CASE stage = "rows" BY <1>1, <1>2, <2>2 DEF Step
  <2>3. CASE stage = "prepared" BY <1>1, <1>2, <2>3 DEF Step
  <2>4. CASE stage = "until" BY <1>1, <1>2, <2>4 DEF Step
  <2> QED BY <2>1, <2>2, <2>3, <2>4
<1> HIDE DEF u
<1>0. Over(u) BY <1>3 DEF Over
<1>6. Reads(k, u, <<>>, u, 0, TRUE) BY <1>0, ReadsNone
<1>7. Worth(Err) = 0 BY <1>2, PlainWorth
<1>8. 0 = 0 + Worth(Err) /\ (FALSE <=> TRUE /\ Err.t # "err") /\ 0 \in Int BY <1>2, <1>7
<1>9. Reads(k, v, <<Err>> \o <<>>, u, 0, FALSE) BY <1>2, <1>4, <1>5, <1>6, <1>8, ReadsCons
<1> QED BY <1>3, <1>9, Zenon DEF Goes, v

(* A result with rows. *)
LEMMA GoesResult ==
    ASSUME NEW k, NEW c \in {1, 2}, NEW n \in Nat, NEW rows \in Seq(Packets),
           NEW end \in Packets, NEW s \in Seq(Packets), NEW r \in Int, NEW b \in BOOLEAN,
           eof \in BOOLEAN, Goes(k, "rows", n, rows \o (<<end>> \o s), r, b)
    PROVE  Goes(k, "first", n, ResultSet(c, rows, end) \o s, r, b)
<1> DEFINE x == rows \o (<<end>> \o s)
<1>1. PICK w : /\ Reads(k, V("rows", 0, n, TRUE, 0), x, w, r, b)
               /\ w.stage = "done" => w.ok = b /\ (b => w.rows = n + r)
  BY Zenon DEF Goes
<1>2. Reads(k, V("first", 0, n, TRUE, 0), ResultSet(c, rows, end) \o s, w, r, b)
  BY <1>1, ResultRead
<1> QED BY <1>1, <1>2, Zenon DEF Goes

(* A result set is a sequence of packets. *)
LEMMA ResultType ==
    ASSUME NEW c \in {1, 2}, NEW rows \in Seq(Packets), NEW end \in Packets, eof \in BOOLEAN
    PROVE  /\ ResultSet(c, rows, end) \in Seq(Packets)
           /\ ResultSet(c, rows, end) = ResultSet(c, rows, end) \o <<>>
<1>1. /\ [Packet("count") EXCEPT !.columns = c] \in Packets /\ Packet("row") \in Packets
      /\ Packet("eof") \in Packets
  <2>1. /\ Plainly(Packet("count"), "count") /\ Plainly(Packet("row"), "row")
        /\ Plainly(Packet("eof"), "eof")
    BY PacketFields DEF PacketTypes
  <2>2. \A p \in Packets : \A x \in Nat : [p EXCEPT !.columns = x] \in Packets BY DEF Packets
  <2>3. c \in Nat OBVIOUS
  <2> QED BY <2>1, <2>2, <2>3, Zenon DEF Plainly
<1> DEFINE H == <<[Packet("count") EXCEPT !.columns = c]>>
           D == Definitions(c)
           T == Terminators
           E == <<end>>
<1>2. H \in Seq(Packets) /\ T \in Seq(Packets) /\ E \in Seq(Packets)
  BY <1>1, EmptySeq DEF Terminators
<1>3. D \in Seq(Packets) BY <1>1 DEF Definitions
<1>4. ResultSet(c, rows, end) = (((H \o D) \o T) \o rows) \o E BY Zenon DEF ResultSet
<1> HIDE DEF H, D, T, E
<1>5. H \o D \in Seq(Packets) BY <1>2, <1>3, Joining
<1>6. (H \o D) \o T \in Seq(Packets) BY <1>2, <1>5, Joining
<1>7. ((H \o D) \o T) \o rows \in Seq(Packets) BY <1>6, Joining
<1>8. (((H \o D) \o T) \o rows) \o E \in Seq(Packets) BY <1>2, <1>7, Joining
<1>9. \A x \in Seq(Packets) : x = x \o <<>> OBVIOUS
<1> QED BY <1>4, <1>8, <1>9

(* One packet that ends the reply, or that cannot be parsed. *)
LEMMA GoesLast ==
    ASSUME NEW k, NEW stage \in {"first", "until"}, NEW p, NEW t, Plainly(p, t),
           p.more = FALSE,
           \/ stage = "first" /\ t \in {"ok", "eof", "infile"}
           \/ stage = "first" /\ k = "stats" /\ t = "text"
           \/ stage = "until" /\ t = "eof",
           NEW n \in Nat
    PROVE  Goes(k, stage, n, <<p>> \o <<>>, 0, TRUE)
<1> DEFINE v == V(stage, 0, n, TRUE, 0)
           over == IF stage = "first" /\ t \in {"eof", "infile"} THEN "fail" ELSE "done"
           u == V(over, 0, n, TRUE, 0)
<1>1. v.stage = stage /\ v.left = 0 /\ v.rows = n /\ v.ok = TRUE /\ v.id = 0 BY DEF V
<1>2. p \in Packets /\ p.t = t /\ p.long = FALSE BY DEF Plainly
<1>3. u.stage \in {"done", "fail"} /\ u.ok = TRUE /\ u.rows = n BY DEF V
<1> HIDE DEF v
<1>4. ~Over(v) BY <1>1 DEF Over
<1>5. Step(eof, k, v, p) = u
  <2>1. CASE stage = "first" /\ t = "ok" BY <1>1, <1>2, <2>1 DEF Step
  <2>2. CASE stage = "first" /\ t = "eof" BY <1>1, <1>2, <2>2 DEF Step
  <2>3. CASE stage = "first" /\ t = "infile" BY <1>1, <1>2, <2>3 DEF Step
  <2>4. CASE stage = "first" /\ k = "stats" /\ t = "text" BY <1>1, <1>2, <2>4 DEF Step
  <2>5. CASE stage = "until" /\ t = "eof" BY <1>1, <1>2, <2>5 DEF Step
  <2> QED BY <2>1, <2>2, <2>3, <2>4, <2>5
<1>6. t # "row" /\ t # "err" OBVIOUS
<1> HIDE DEF u
<1>7. Over(u) BY <1>3 DEF Over
<1>8. Reads(k, u, <<>>, u, 0, TRUE) BY <1>7, ReadsNone
<1>9. Worth(p) = 0 BY <1>6, PlainWorth
<1>10. 0 = 0 + Worth(p) /\ (TRUE <=> TRUE /\ p.t # "err") /\ 0 \in Int
  BY <1>2, <1>6, <1>9
<1>11. Reads(k, v, <<p>> \o <<>>, u, 0, TRUE) BY <1>2, <1>4, <1>5, <1>8, <1>10, ReadsCons
<1>12. u.rows = n + 0 BY <1>3
<1> QED BY <1>3, <1>11, <1>12, Zenon DEF Goes, v

(* Every result of a query is found as it is. *)
LEMMA ResultsGo ==
    ASSUME NEW k, eof \in BOOLEAN, ~LongOK, NEW answer \in Results
    PROVE  \E r \in Int, b \in BOOLEAN : Goes(k, "first", 0, answer, r, b)
<1> DEFINE P == Seq(Packets)
           R == Packet("row")
           F == Packet("eof")
           M == More(F)
           N == More(OK)
<1>1. RowEnds = {F} BY DEF RowEnds
<1>2. /\ Plainly(R, "row") /\ Plainly(BigRow, "row") /\ Plainly(F, "eof") /\ F.more = FALSE
      /\ Plainly(M, "eof") /\ M.more = TRUE /\ Plainly(OK, "ok") /\ OK.more = FALSE
      /\ Plainly(N, "ok") /\ N.more = TRUE /\ Plainly(Err, "err")
      /\ Plainly(Packet("infile"), "infile") /\ Packet("infile").more = FALSE
  BY PacketFields DEF PacketTypes
<1>3. \/ answer = <<OK>> \/ answer = <<Err>> \/ answer = ResultSet(1, <<>>, Err)
      \/ answer = <<N>> \o ResultSet(2, <<BigRow>>, Err)
      \/ answer = ResultSet(1, <<>>, M) \o <<N, Err>>
      \/ answer = <<Packet("infile")>>
      \/ answer = ResultSet(2, <<R, BigRow>>, F)
      \/ answer = ResultSet(1, <<BigRow>>, M) \o ResultSet(1, <<R>>, F)
  BY <1>1, Zenon DEF Results
<1>4. /\ R \in Packets /\ BigRow \in Packets /\ F \in Packets /\ M \in Packets
      /\ OK \in Packets /\ N \in Packets /\ Err \in Packets /\ Packet("infile") \in Packets
  BY <1>2 DEF Plainly
<1> HIDE DEF R, F, M, N
<1>5. \A p \in Packets : <<p>> = <<p>> \o <<>> /\ <<p>> \in P BY Unit
<1>6. \A p, q \in Packets : <<p, q>> = <<p>> \o <<q>> /\ <<p, q>> \in P BY Pair
<1>7. <<>> \in P /\ \A s \in P : <<>> \o s = s /\ s = s \o <<>> BY EmptySeq
<1>8. 0 \in Int /\ 1 \in Int /\ 2 \in Int /\ 0 \in Nat /\ 1 \in Nat /\ 2 \in Nat
      /\ 0 + 1 = 1 /\ 1 + 1 = 2 OBVIOUS
<1>9. \A f, g, i \in P : (f \o g) \o i = f \o (g \o i) /\ f \o g \in P BY Joining
<1>10. \A c \in {1, 2} : \A rows \in P : \A end \in Packets :
          /\ ResultSet(c, rows, end) \in P
          /\ ResultSet(c, rows, end) = ResultSet(c, rows, end) \o <<>>
  BY ResultType
<1> HIDE DEF P
<1>11. \A n \in Nat : Goes(k, "rows", n, <<Err>> \o <<>>, 0, FALSE) BY GoesErr
<1>12. Goes(k, "first", 0, <<Err>> \o <<>>, 0, FALSE) BY <1>8, GoesErr
<1>13. CASE answer = <<OK>>
  <2>1. Goes(k, "first", 0, <<OK>> \o <<>>, 0, TRUE) BY <1>2, <1>8, GoesLast
  <2> QED BY <1>4, <1>5, <1>8, <1>13, <2>1
<1>14. CASE answer = <<Err>> BY <1>4, <1>5, <1>8, <1>12, <1>14
<1>15. CASE answer = <<Packet("infile")>>
  <2>1. Goes(k, "first", 0, <<Packet("infile")>> \o <<>>, 0, TRUE)
    BY <1>2, <1>8, GoesLast
  <2> QED BY <1>4, <1>5, <1>8, <1>15, <2>1
<1>16. <<Err>> \o <<>> \in P /\ <<F>> \o <<>> \in P /\ <<Err>> \in P /\ <<F>> \in P
  BY <1>4, <1>5
<1>17. CASE answer = ResultSet(1, <<>>, Err)
  <2>1. Goes(k, "rows", 0, <<>> \o (<<Err>> \o <<>>), 0, FALSE)
    BY <1>7, <1>8, <1>11, <1>16
  <2>2. Goes(k, "first", 0, ResultSet(1, <<>>, Err) \o <<>>, 0, FALSE)
    BY <1>4, <1>7, <1>8, <2>1, GoesResult DEF P
  <2>3. ResultSet(1, <<>>, Err) = ResultSet(1, <<>>, Err) \o <<>>
    BY <1>4, <1>7, <1>10
  <2> QED BY <1>8, <1>17, <2>2, <2>3
<1>18. CASE answer = <<N>> \o ResultSet(2, <<BigRow>>, Err)
  <2>1. Goes(k, "rows", 0, <<BigRow>> \o (<<Err>> \o <<>>), 0 + 1, FALSE)
    <3>1. Goes(k, "rows", 0 + 1, <<Err>> \o <<>>, 0, FALSE) BY <1>8, <1>11
    <3> QED BY <1>2, <1>8, <3>1, GoesRow
  <2>2. Goes(k, "first", 0, ResultSet(2, <<BigRow>>, Err) \o <<>>, 1, FALSE)
    <3>1. <<BigRow>> \in P BY <1>4, <1>5
    <3>2. Goes(k, "rows", 0, <<BigRow>> \o (<<Err>> \o <<>>), 1, FALSE) BY <1>8, <2>1
    <3> QED BY <1>4, <1>7, <1>8, <3>1, <3>2, GoesResult DEF P
  <2>3. ResultSet(2, <<BigRow>>, Err) = ResultSet(2, <<BigRow>>, Err) \o <<>>
    <3>1. <<BigRow>> \in P BY <1>4, <1>5
    <3> QED BY <1>4, <1>10, <3>1
  <2>4. Goes(k, "first", 0, ResultSet(2, <<BigRow>>, Err), 1, FALSE) BY <2>2, <2>3
  <2>5. Goes(k, "first", 0, <<N>> \o ResultSet(2, <<BigRow>>, Err), 1, FALSE)
    BY <1>2, <1>8, <2>4, GoesOk
  <2> QED BY <1>8, <1>18, <2>5
<1>19. CASE answer = ResultSet(1, <<>>, M) \o <<N, Err>>
  <2>1. Goes(k, "first", 0, <<N>> \o (<<Err>> \o <<>>), 0, FALSE)
    BY <1>2, <1>8, <1>12, GoesOk
  <2>2. <<N, Err>> = <<N>> \o (<<Err>> \o <<>>) /\ <<N, Err>> \in P
    BY <1>4, <1>5, <1>6
  <2>3. Goes(k, "first", 0, <<N, Err>>, 0, FALSE) BY <2>1, <2>2
  <2>4. Goes(k, "rows", 0, <<M>> \o <<N, Err>>, 0, FALSE) BY <1>2, <1>8, <2>3, GoesEnd
  <2>5. <<>> \o (<<M>> \o <<N, Err>>) = <<M>> \o <<N, Err>>
    BY <1>4, <1>5, <1>7, <1>9, <2>2
  <2>6. Goes(k, "rows", 0, <<>> \o (<<M>> \o <<N, Err>>), 0, FALSE) BY <2>4, <2>5
  <2>7. Goes(k, "first", 0, ResultSet(1, <<>>, M) \o <<N, Err>>, 0, FALSE)
    BY <1>4, <1>7, <1>8, <2>2, <2>6, GoesResult DEF P
  <2> QED BY <1>8, <1>19, <2>7
<1>20. \A n \in Nat : Goes(k, "rows", n, <<F>> \o <<>>, 0, TRUE)
  <2> TAKE n \in Nat
  <2>1. Goes(k, "done", n, <<>>, 0, TRUE) BY GoesDone
  <2> QED BY <1>2, <1>8, <2>1, GoesEnd
<1>21. CASE answer = ResultSet(2, <<R, BigRow>>, F)
  <2> DEFINE x == <<F>> \o <<>>
  <2>1. Goes(k, "rows", 2, x, 0, TRUE) BY <1>8, <1>20
  <2>2. x \in P BY <1>16
  <2> HIDE DEF x
  <2>3. Goes(k, "rows", 1, <<BigRow>> \o x, 1, TRUE)
    <3>1. Goes(k, "rows", 1 + 1, x, 0, TRUE) BY <1>8, <2>1
    <3>2. Goes(k, "rows", 1, <<BigRow>> \o x, 0 + 1, TRUE) BY <1>2, <1>8, <3>1, GoesRow
    <3> QED BY <1>8, <3>2
  <2>4. Goes(k, "rows", 0, <<R>> \o (<<BigRow>> \o x), 2, TRUE)
    <3>1. Goes(k, "rows", 0 + 1, <<BigRow>> \o x, 1, TRUE) BY <1>8, <2>3
    <3>2. Goes(k, "rows", 0, <<R>> \o (<<BigRow>> \o x), 1 + 1, TRUE)
      BY <1>2, <1>8, <3>1, GoesRow
    <3> QED BY <1>8, <3>2
  <2>5. <<R>> \in P /\ <<BigRow>> \in P BY <1>4, <1>5
  <2>6. <<R, BigRow>> \o x = <<R>> \o (<<BigRow>> \o x) /\ <<R, BigRow>> \in P
    <3>1. <<R, BigRow>> = <<R>> \o <<BigRow>> /\ <<R, BigRow>> \in P BY <1>4, <1>6
    <3>2. (<<R>> \o <<BigRow>>) \o x = <<R>> \o (<<BigRow>> \o x)
      BY <1>9, <2>2, <2>5, Zenon
    <3> QED BY <3>1, <3>2
  <2>7. Goes(k, "rows", 0, <<R, BigRow>> \o (<<F>> \o <<>>), 2, TRUE) BY <2>4, <2>6 DEF x
  <2>8. Goes(k, "first", 0, ResultSet(2, <<R, BigRow>>, F) \o <<>>, 2, TRUE)
    BY <1>4, <1>7, <1>8, <2>6, <2>7, GoesResult DEF P
  <2>9. ResultSet(2, <<R, BigRow>>, F) = ResultSet(2, <<R, BigRow>>, F) \o <<>>
    BY <1>4, <1>10, <2>6
  <2> QED BY <1>8, <1>21, <2>8, <2>9
<1>22. CASE answer = ResultSet(1, <<BigRow>>, M) \o ResultSet(1, <<R>>, F)
  <2> DEFINE x == <<F>> \o <<>>
             y == ResultSet(1, <<R>>, F)
  <2>1. Goes(k, "rows", 2, x, 0, TRUE) BY <1>8, <1>20
  <2>2. <<R>> \in P /\ <<BigRow>> \in P BY <1>4, <1>5
  <2>3. Goes(k, "rows", 1, <<R>> \o (<<F>> \o <<>>), 1, TRUE)
    <3> HIDE DEF x
    <3>1. Goes(k, "rows", 1 + 1, x, 0, TRUE) BY <1>8, <2>1
    <3>2. Goes(k, "rows", 1, <<R>> \o x, 0 + 1, TRUE) BY <1>2, <1>8, <3>1, GoesRow
    <3> QED BY <1>8, <3>2 DEF x
  <2>4. Goes(k, "first", 1, y \o <<>>, 1, TRUE)
    BY <1>4, <1>7, <1>8, <2>2, <2>3, GoesResult DEF P
  <2>5. y = y \o <<>> /\ y \in P BY <1>4, <1>10, <2>2
  <2> HIDE DEF x, y
  <2>6. Goes(k, "first", 1, y, 1, TRUE) BY <2>4, <2>5
  <2>7. Goes(k, "rows", 1, <<M>> \o y, 1, TRUE) BY <1>2, <1>8, <2>6, GoesEnd
  <2>8. Goes(k, "rows", 0, <<BigRow>> \o (<<M>> \o y), 2, TRUE)
    <3>1. Goes(k, "rows", 0 + 1, <<M>> \o y, 1, TRUE) BY <1>8, <2>7
    <3>2. Goes(k, "rows", 0, <<BigRow>> \o (<<M>> \o y), 1 + 1, TRUE)
      BY <1>2, <1>8, <3>1, GoesRow
    <3> QED BY <1>8, <3>2
  <2>9. Goes(k, "first", 0, ResultSet(1, <<BigRow>>, M) \o y, 2, TRUE)
    BY <1>4, <1>8, <2>2, <2>5, <2>8, GoesResult DEF P
  <2> QED BY <1>8, <1>22, <2>9 DEF y
<1> QED
  BY <1>3, <1>13, <1>14, <1>15, <1>17, <1>18, <1>19, <1>21, <1>22

-----------------------------------------------------------------------------
(* The parser with l packets to skip before a prepared statement is known. *)
Skips(l, id) == V(IF l = 0 THEN "done" ELSE "skip", l, 0, TRUE, id)

(* The packets of n definitions, and what announces them. *)
Group(n) == IF n > 0 /\ eof THEN n + 1 ELSE n

GroupSent(n) == Definitions(n) \o (IF n > 0 THEN Terminators ELSE <<>>)

(* One packet is skipped. *)
LEMMA SkipRead ==
    ASSUME NEW k, NEW l \in Nat, NEW id, NEW s, NEW w, NEW m \in Int, NEW t \in {"row", "eof"},
           NEW p, Plainly(p, t), Reads(k, Skips(l, id), s, w, m, TRUE), NEW n,
           n = m + (IF t = "row" THEN 1 ELSE 0)
    PROVE  Reads(k, Skips(l + 1, id), <<p>> \o s, w, n, TRUE)
<1> DEFINE v == Skips(l + 1, id)
           u == Skips(l, id)
<1>1. v.stage = "skip" /\ v.left = l + 1 /\ v.rows = 0 /\ v.ok = TRUE /\ v.id = id
  <2>1. l + 1 # 0 OBVIOUS
  <2> QED BY <2>1 DEF V, Skips
<1>2. p \in Packets /\ p.t = t BY DEF Plainly
<1> HIDE DEF v
<1>3. ~Over(v) BY <1>1 DEF Over
<1>4. Step(eof, k, v, p) = u
  <2>1. Step(eof, k, v, p) =
          V(IF v.left = 1 THEN "done" ELSE "skip", v.left - 1, v.rows, v.ok, v.id)
    BY <1>1 DEF Step
  <2>2. (v.left = 1 <=> l = 0) /\ v.left - 1 = l BY <1>1
  <2> QED BY <1>1, <2>1, <2>2 DEF Skips
<1> HIDE DEF u
<1>5. n = m + Worth(p) BY PlainWorth
<1>6. Reads(k, u, s, w, m, TRUE) BY DEF u
<1>7. (TRUE <=> TRUE /\ p.t # "err") BY <1>2
<1>8. Reads(k, v, <<p>> \o s, w, n, TRUE) BY <1>2, <1>3, <1>4, <1>5, <1>6, <1>7, ReadsCons
<1> QED BY <1>8 DEF v

(* A group of definitions with its terminator is skipped. *)
LEMMA GroupRead ==
    ASSUME NEW k, NEW c \in {0, 1, 2}, NEW l \in Nat, NEW id, NEW s \in Seq(Packets), NEW w,
           NEW m \in Int, eof \in BOOLEAN, Reads(k, Skips(l, id), s, w, m, TRUE)
    PROVE  /\ Reads(k, Skips(l + Group(c), id), GroupSent(c) \o s, w, m + c, TRUE)
           /\ GroupSent(c) \in Seq(Packets) /\ Group(c) \in Nat
<1> DEFINE R == Packet("row")
           F == Packet("eof")
           P == Seq(Packets)
<1>1. Plainly(R, "row") /\ Plainly(F, "eof") /\ R \in Packets /\ F \in Packets
  BY PacketFields DEF PacketTypes, Plainly
<1>2. Terminators = IF eof THEN <<F>> ELSE <<>> BY DEF Terminators
<1>3. /\ Definitions(0) = <<>> /\ Definitions(1) = <<R>>
      /\ Definitions(2) = <<R>> \o <<R>>
  BY DefinitionsAre
<1> HIDE DEF R, F
<1>4. <<>> \in P /\ <<R>> \in P /\ <<F>> \in P BY <1>1, EmptySeq
<1>5. \A x \in P : <<>> \o x = x /\ x \o <<>> = x OBVIOUS
<1>6. \A f, g, i \in P : (f \o g) \o i = f \o (g \o i) /\ f \o g \in P BY Joining
<1>7. s \in P OBVIOUS
<1> HIDE DEF P
<1>8. CASE c = 0
  <2>1. GroupSent(0) = <<>> BY <1>3, <1>4, <1>5 DEF GroupSent
  <2>2. Group(0) = 0 /\ l + 0 = l /\ m + 0 = m BY DEF Group
  <2>3. GroupSent(0) \o s = s BY <1>5, <1>7, <2>1
  <2>4. Reads(k, Skips(l + Group(0), id), GroupSent(0) \o s, w, m + 0, TRUE)
    BY <2>2, <2>3
  <2>5. GroupSent(0) \in Seq(Packets) BY <1>4, <2>1 DEF P
  <2>6. Group(0) \in Nat BY <2>2
  <2> QED BY <1>8, <2>4, <2>5, <2>6, Zenon
<1> DEFINE d == l + (IF eof THEN 1 ELSE 0)
           x == Terminators \o s
<1>9. Terminators \in P /\ x \in P /\ d \in Nat
  <2>1. Terminators \in P BY <1>2, <1>4
  <2>2. x \in P BY <1>6, <1>7, <2>1, Zenon
  <2> QED BY <2>1, <2>2
<1>10. Reads(k, Skips(d, id), x, w, m, TRUE)
  <2>1. CASE ~eof
    <3>1. x = s /\ d = l BY <1>2, <1>5, <1>7, <2>1
    <3> QED BY <3>1
  <2>2. CASE eof
    <3>1. x = <<F>> \o s /\ d = l + 1 BY <1>2, <2>2
    <3>2. m = m + 0 OBVIOUS
    <3>3. Reads(k, Skips(l + 1, id), <<F>> \o s, w, m, TRUE) BY <1>1, <3>2, SkipRead
    <3> QED BY <3>1, <3>3
  <2> QED BY <2>1, <2>2
<1>11. Reads(k, Skips(d + 1, id), <<R>> \o x, w, m + 1, TRUE)
  <2> HIDE DEF d, x
  <2> QED BY <1>1, <1>9, <1>10, SkipRead
<1>12. CASE c = 1
  <2>1. GroupSent(1) = <<R>> \o Terminators BY <1>3 DEF GroupSent
  <2>0. PICK r : r = <<R>> OBVIOUS
  <2>2. GroupSent(1) \o s = <<R>> \o x
    <3>1. r \in P /\ Terminators \in P /\ s \in P BY <1>4, <1>7, <1>9, <2>0
    <3>2. (r \o Terminators) \o s = r \o (Terminators \o s) BY <1>6, <3>1, Zenon
    <3> QED BY <2>0, <2>1, <3>2
  <2>3. l + Group(1) = d + 1 /\ Group(1) \in Nat BY DEF Group
  <2>4. GroupSent(1) \in P
    <3>1. r \in P /\ Terminators \in P BY <1>4, <1>9, <2>0
    <3>2. r \o Terminators \in P BY <1>6, <3>1, Zenon
    <3> QED BY <2>0, <2>1, <3>2
  <2> QED BY <1>11, <1>12, <2>2, <2>3, <2>4 DEF P
<1>13. CASE c = 2
  <2>1. GroupSent(2) = (<<R>> \o <<R>>) \o Terminators
    <3>1. 2 > 0 OBVIOUS
    <3> QED BY <1>3, <3>1, Zenon DEF GroupSent
  <2> HIDE DEF d
  <2>0. PICK r : r = <<R>> OBVIOUS
  <2>2. r \in P /\ r \o r \in P
    <3>1. r \in P BY <1>4, <2>0
    <3> QED BY <1>6, <3>1, Zenon
  <2>9. PICK y : y = r \o r OBVIOUS
  <2>3. GroupSent(2) \o s = <<R>> \o (<<R>> \o x)
    <3>1. y \in P /\ Terminators \in P /\ s \in P BY <1>7, <1>9, <2>2, <2>9
    <3>2. (y \o Terminators) \o s = y \o x BY <1>6, <3>1, Zenon
    <3> HIDE DEF x
    <3>3. x \in P /\ r \in P BY <1>9, <2>2
    <3>4. (r \o r) \o x = r \o (r \o x) BY <1>6, <3>3, Zenon
    <3> QED BY <2>0, <2>1, <2>9, <3>2, <3>4
  <2>4. GroupSent(2) \in P
    <3>1. y \in P /\ Terminators \in P BY <1>9, <2>2, <2>9
    <3>2. y \o Terminators \in P BY <1>6, <3>1, Zenon
    <3> QED BY <2>0, <2>1, <2>9, <3>2
  <2>5. l + Group(2) = (d + 1) + 1 /\ Group(2) \in Nat /\ (m + 1) + 1 = m + 2 /\ m + 1 \in Int
        /\ d + 1 \in Nat
    BY <1>9 DEF Group, d
  <2>6. Reads(k, Skips((d + 1) + 1, id), <<R>> \o (<<R>> \o x), w, (m + 1) + 1, TRUE)
    <3> HIDE DEF x
    <3>1. (m + 1) + 1 = (m + 1) + (IF "row" = "row" THEN 1 ELSE 0) OBVIOUS
    <3> QED BY <1>1, <1>11, <2>5, <3>1, SkipRead
  <2> QED BY <1>13, <2>3, <2>4, <2>5, <2>6 DEF P
<1> QED BY <1>8, <1>12, <1>13

(* A statement is prepared: the parser ends with its number. *)
LEMMA PreparedRead ==
    ASSUME NEW k, NEW id \in Nat, NEW a \in {0, 1}, NEW c \in {0, 2}, eof \in BOOLEAN
    PROVE  LET s == PreparedOK(id, a, c)
           IN  /\ Reads(k, V("prepared", 0, 0, TRUE, 0), s, Skips(0, id), 0, TRUE)
               /\ s[1].t = "prepared" /\ s[1].id = id
<1> DEFINE h == [Packet("prepared") EXCEPT !.id = id, !.params = a, !.columns = c]
           w == Skips(0, id)
           v == V("prepared", 0, 0, TRUE, 0)
           P == Seq(Packets)
           A == GroupSent(a)
           C == GroupSent(c)
<1>1. /\ h \in Packets /\ h.t = "prepared" /\ h.id = id /\ h.params = a /\ h.columns = c
  <2>1. Packet("prepared") \in Packets /\ Packet("prepared").t = "prepared"
    BY PacketFields DEF PacketTypes, Plainly
  <2>2. a \in Nat /\ c \in Nat OBVIOUS
  <2>3. PICK p : p = Packet("prepared") OBVIOUS
  <2>4. p \in Packets /\ p.t = "prepared" BY <2>1, <2>3
  <2>5. LET q == [p EXCEPT !.id = id, !.params = a, !.columns = c]
        IN  /\ q \in Packets /\ q.t = "prepared" /\ q.id = id /\ q.params = a
            /\ q.columns = c
    BY <2>2, <2>4 DEF Packets
  <2> QED BY <2>3, <2>5, Zenon
<1>2. w.stage = "done" /\ w.ok = TRUE /\ w.rows = 0 /\ w.id = id BY DEF Skips, V
<1>3. v.stage = "prepared" /\ v.rows = 0 /\ v.ok = TRUE BY DEF V
<1>4. Worth(h) = 0 - (c + a) BY <1>1 DEF Worth
<1>5. PreparedOK(id, a, c) =
        (((<<h>> \o Definitions(a)) \o (IF a > 0 THEN Terminators ELSE <<>>))
           \o Definitions(c)) \o (IF c > 0 THEN Terminators ELSE <<>>)
  BY Zenon DEF PreparedOK
<1> HIDE DEF h, w, v
<1>6. Reads(k, w, <<>>, w, 0, TRUE)
  <2>1. Over(w) BY <1>2 DEF Over
  <2> QED BY <2>1, ReadsNone
<1>7. <<>> \in Seq(Packets) BY EmptySeq
<1>8. /\ Reads(k, Skips(0 + Group(c), id), C \o <<>>, w, 0 + c, TRUE)
      /\ C \in Seq(Packets) /\ Group(c) \in Nat
  <2>1. w = Skips(0, id) BY DEF w
  <2>2. Reads(k, Skips(0, id), <<>>, w, 0, TRUE) BY <1>6, <2>1, Zenon
  <2>3. c \in {0, 1, 2} /\ 0 \in Nat /\ 0 \in Int OBVIOUS
  <2> QED BY <1>7, <2>2, <2>3, GroupRead
<1>9. C \o <<>> = C BY <1>8
<1>10. Reads(k, Skips(Group(c), id), C, w, c, TRUE)
  <2>1. 0 + Group(c) = Group(c) /\ 0 + c = c BY <1>8
  <2> QED BY <1>8, <1>9, <2>1
<1>11. /\ Reads(k, Skips(Group(c) + Group(a), id), A \o C, w, c + a, TRUE)
       /\ A \in Seq(Packets) /\ Group(a) \in Nat
  <2>1. c \in Int OBVIOUS
  <2> HIDE DEF C
  <2> QED BY <1>8, <1>10, <2>1, GroupRead
<1>12. Step(eof, k, v, h) = Skips(Group(c) + Group(a), id)
  <2> DEFINE g(n) == IF n > 0 /\ eof THEN n + 1 ELSE n
             z == g(h.params) + g(h.columns)
  <2>1. Step(eof, k, v, h) = V(IF z = 0 THEN "done" ELSE "skip", z, v.rows, v.ok, h.id)
    BY <1>1, <1>3 DEF Step
  <2>2. z = Group(c) + Group(a) BY <1>1, <1>8, <1>11 DEF Group
  <2> HIDE DEF z
  <2> QED BY <1>1, <1>3, <2>1, <2>2 DEF Skips
<1>13. ~Over(v) BY <1>3 DEF Over
<1>14. c + a \in Int /\ 0 = (c + a) + Worth(h) /\ (TRUE <=> TRUE /\ h.t # "err")
  BY <1>1, <1>4
<1>15. Reads(k, v, <<h>> \o (A \o C), w, 0, TRUE)
  <2> HIDE DEF A, C
  <2> QED BY <1>1, <1>11, <1>12, <1>13, <1>14, ReadsCons
<1>16. PreparedOK(id, a, c) = <<h>> \o (A \o C)
  <2> DEFINE H == <<h>>
             D == Definitions(a)
             E == Definitions(c)
             T == IF a > 0 THEN Terminators ELSE <<>>
             U == IF c > 0 THEN Terminators ELSE <<>>
  <2>1. Packet("row") \in Packets /\ Packet("eof") \in Packets
    BY PacketFields DEF PacketTypes, Plainly
  <2>2. H \in P /\ T \in P /\ U \in P BY <1>1, <1>7, <2>1 DEF Terminators
  <2>3. D \in P /\ E \in P BY <2>1 DEF Definitions
  <2>4. A = D \o T /\ C = E \o U BY DEF GroupSent
  <2>5. PreparedOK(id, a, c) = (((H \o D) \o T) \o E) \o U BY <1>5
  <2>6. \A f, g, i \in P : (f \o g) \o i = f \o (g \o i) /\ f \o g \in P BY Joining
  <2> HIDE DEF H, D, E, T, U, P, A, C
  <2>7. (H \o D) \o T = H \o A
    <3>1. H \in P /\ D \in P /\ T \in P BY <2>2, <2>3
    <3>2. (H \o D) \o T = H \o (D \o T) BY <2>6, <3>1, Zenon
    <3> QED BY <2>4, <3>2
  <2>8. A \in P /\ C \in P /\ H \o A \in P
    <3>1. A \in P /\ C \in P BY <2>2, <2>3, <2>4, <2>6, Zenon
    <3> QED BY <2>2, <2>6, <3>1, Zenon
  <2>9. ((H \o A) \o E) \o U = (H \o A) \o C
    <3>0. PICK y : y = H \o A OBVIOUS
    <3>1. y \in P /\ E \in P /\ U \in P BY <2>2, <2>3, <2>8, <3>0
    <3>2. (y \o E) \o U = y \o (E \o U) BY <2>6, <3>1, Zenon
    <3> QED BY <2>4, <3>0, <3>2
  <2>10. (H \o A) \o C = H \o (A \o C)
    <3>1. H \in P /\ A \in P /\ C \in P BY <2>2, <2>8
    <3> QED BY <2>6, <3>1, Zenon
  <2> QED BY <2>5, <2>7, <2>9, <2>10, Zenon DEF H
<1>17. (<<h>> \o (A \o C))[1] = h
  <2>1. A \o C \in Seq(Packets)
    <3> HIDE DEF A, C
    <3> QED BY <1>8, <1>11, Joining
  <2> HIDE DEF A, C
  <2>2. PICK x : x = A \o C OBVIOUS
  <2>3. x \in Seq(Packets) BY <2>1, <2>2
  <2>4. (<<h>> \o x)[1] = h BY <1>1, <2>3, Consing
  <2> QED BY <2>2, <2>4
<1> QED BY <1>1, <1>2, <1>15, <1>16, <1>17, Zenon DEF v, w

-----------------------------------------------------------------------------
(* The parser, begun for cmd, reads all of s and no more; unless it gives  *)
(* up it then knows the outcome, the rows and the number of a statement.   *)
Fits(cmd, s) == \E w, r, b :
    /\ r \in Int /\ b \in BOOLEAN
    /\ Reads(cmd.k, V(FirstStage(cmd), 0, 0, TRUE, 0), s, w, r, b)
    /\ w.stage = "done" => w.ok = b /\ (b => w.rows = r)
    /\ cmd.k = "prepare" =>
          /\ s[1].t = "prepared" =>
                w.stage = "done" /\ w.ok = TRUE /\ w.id = s[1].id /\ w.id \in Ids
          /\ w.stage = "done" /\ w.ok = TRUE => s[1].t = "prepared"

(* The stage a reply begins with. *)
LEMMA FirstStageIs ==
    ASSUME NEW cmd
    PROVE  /\ cmd.k = "prepare" => FirstStage(cmd) = "prepared"
           /\ cmd.k \in {"fields", "fetch"} => FirstStage(cmd) = "until"
           /\ cmd.k \notin {"prepare", "fields", "fetch"} => FirstStage(cmd) = "first"
           /\ FirstStage(cmd) \in {"prepared", "until", "first"}
<1>1. CASE cmd.k = "prepare"
  <2>1. FirstStage(cmd) = "prepared" BY <1>1, Zenon DEF FirstStage
  <2> QED BY <1>1, <2>1
<1>2. CASE cmd.k \in {"fields", "fetch"}
  <2>1. FirstStage(cmd) = "until" BY <1>2, Zenon DEF FirstStage
  <2> QED BY <1>2, <2>1
<1>3. CASE cmd.k \notin {"prepare", "fields", "fetch"}
  <2>1. FirstStage(cmd) = "first" BY <1>3, Zenon DEF FirstStage
  <2> QED BY <1>3, <2>1
<1> QED BY <1>1, <1>2, <1>3

(* What the server may answer to which command. *)
LEMMA RepliesAre ==
    ASSUME NEW cmd \in Command, cmd.k \notin Silent \cup Intercepted, ~Dumps,
           NEW answer \in Replies(cmd)
    PROVE  \/ cmd.k \in {"query", "execute"} /\ answer \in Results
           \/ cmd.k = "prepare" /\ \E id \in Ids, a \in {0, 1}, c \in {0, 2} :
                                      answer = PreparedOK(id, a, c)
           \/ answer = <<Err>>
           \/ cmd.k \in {"fields", "fetch"}
                /\ answer \in {<<Packet("eof")>>, <<Packet("row"), Packet("eof")>>}
           \/ cmd.k = "stats" /\ answer = <<Packet("text")>>
           \/ cmd.k = "option" /\ answer = <<Packet("eof")>>
           \/ cmd.k \in {"restart", "ping", "reset"} /\ answer = <<OK>>
<1>0. cmd.k \notin Silent BY DEF Silent
<1>1. cmd.k \in {"query", "prepare", "fields", "stats", "ping", "reset", "option",
                 "gtid", "execute", "restart", "fetch"}
  BY DEF Command, Commands, StatementCommands, Silent, Intercepted
<1>2. CASE cmd.k = "query"
  <2>1. Replies(cmd) = Results BY <1>0, <1>2, Zenon DEF Replies
  <2> QED BY <1>2, <2>1
<1>3. CASE cmd.k = "execute"
  <2>0. cmd.k # "query"
    BY <1>3
  <2>1. Replies(cmd) = IF Known(cmd) THEN Results ELSE {<<Err>>}
    BY <1>0, <1>3, <2>0, Zenon DEF Replies
  <2> QED BY <1>3, <2>1
<1>4. CASE cmd.k = "prepare"
  <2>0. cmd.k # "query" /\ cmd.k # "execute"
    BY <1>4
  <2>1. Replies(cmd) = PrepareReplies BY <1>0, <1>4, <2>0, Zenon DEF Replies
  <2> QED BY <1>4, <2>1 DEF PrepareReplies
<1>5. CASE cmd.k \in {"fields", "fetch"}
  <2>0. cmd.k # "query" /\ cmd.k # "execute" /\ cmd.k # "prepare"
    BY <1>5
  <2>1. Replies(cmd) = {<<Err>>, <<Packet("eof")>>, <<Packet("row"), Packet("eof")>>}
    BY <1>0, <1>5, <2>0, Zenon DEF Replies
  <2> QED BY <1>5, <2>1
<1>6. CASE cmd.k = "stats"
  <2>0. cmd.k # "query" /\ cmd.k # "execute" /\ cmd.k # "prepare"
        /\ cmd.k \notin {"fields", "fetch"}
    BY <1>6
  <2>1. Replies(cmd) = {<<Packet("text")>>} BY <1>0, <1>6, <2>0, Zenon DEF Replies
  <2> QED BY <1>6, <2>1
<1>7. CASE cmd.k = "option"
  <2>0. cmd.k # "query" /\ cmd.k # "execute" /\ cmd.k # "prepare"
        /\ cmd.k \notin {"fields", "fetch"} /\ cmd.k # "stats"
    BY <1>7
  <2>1. Replies(cmd) = {<<Packet("eof")>>} BY <1>0, <1>7, <2>0, Zenon DEF Replies
  <2> QED BY <1>7, <2>1
<1>8. CASE cmd.k = "restart"
  <2>0. cmd.k # "query" /\ cmd.k # "execute" /\ cmd.k # "prepare"
        /\ cmd.k \notin {"fields", "fetch"} /\ cmd.k # "stats" /\ cmd.k # "option"
    BY <1>8
  <2>1. Replies(cmd) = IF Known(cmd) THEN {<<OK>>} ELSE {<<Err>>}
    BY <1>0, <1>8, <2>0, Zenon DEF Replies
  <2> QED BY <1>8, <2>1
<1>9. CASE cmd.k \in {"ping", "reset"}
  <2>0. cmd.k # "query" /\ cmd.k # "execute" /\ cmd.k # "prepare"
        /\ cmd.k \notin {"fields", "fetch"} /\ cmd.k # "stats" /\ cmd.k # "option"
        /\ cmd.k # "restart" /\ cmd.k # "gtid"
    BY <1>9
  <2>1. Replies(cmd) = {<<OK>>} BY <1>0, <1>9, <2>0, Zenon DEF Replies
  <2> QED BY <1>9, <2>1
<1>10. CASE cmd.k = "gtid"
  <2>0. cmd.k # "query" /\ cmd.k # "execute" /\ cmd.k # "prepare"
        /\ cmd.k \notin {"fields", "fetch"} /\ cmd.k # "stats" /\ cmd.k # "option"
        /\ cmd.k # "restart"
    BY <1>10
  <2>1. Replies(cmd) = DumpReplies BY <1>0, <1>10, <2>0, Zenon DEF Replies
  <2> QED BY <2>1 DEF DumpReplies
<1> QED BY <1>1, <1>2, <1>3, <1>4, <1>5, <1>6, <1>7, <1>8, <1>9, <1>10

(* What is read as it is, for a command that prepares nothing, fits. *)
LEMMA GoesFits ==
    ASSUME NEW cmd, NEW s, NEW r \in Int, NEW b \in BOOLEAN, NEW stage,
           FirstStage(cmd) = stage, Goes(cmd.k, stage, 0, s, r, b),
           cmd.k = "prepare" => b = FALSE /\ s[1].t # "prepared"
    PROVE  Fits(cmd, s)
<1>1. PICK w : /\ Reads(cmd.k, V(FirstStage(cmd), 0, 0, TRUE, 0), s, w, r, b)
               /\ w.stage = "done" => w.ok = b /\ (b => w.rows = 0 + r)
  BY Zenon DEF Goes
<1>2. 0 + r = r OBVIOUS
<1>3. w.stage = "done" => w.ok = b /\ (b => w.rows = r) BY <1>1, <1>2, Zenon
<1>4. cmd.k = "prepare" =>
          /\ s[1].t = "prepared" =>
                w.stage = "done" /\ w.ok = TRUE /\ w.id = s[1].id /\ w.id \in Ids
          /\ w.stage = "done" /\ w.ok = TRUE => s[1].t = "prepared"
  BY <1>1, Zenon
<1> QED BY <1>1, <1>3, <1>4, Zenon DEF Fits

(* Every reply fits its command. *)
LEMMA RepliesFit ==
    ASSUME NEW cmd \in Command, cmd.k \notin Silent \cup Intercepted, eof \in BOOLEAN,
           ~LongOK, ~Dumps, NEW answer \in Replies(cmd)
    PROVE  Fits(cmd, answer)
<1> DEFINE R == Packet("row")
           F == Packet("eof")
<1>1. /\ Plainly(R, "row") /\ Plainly(F, "eof") /\ F.more = FALSE
      /\ Plainly(OK, "ok") /\ OK.more = FALSE /\ Plainly(Err, "err")
      /\ Plainly(Packet("text"), "text") /\ Packet("text").more = FALSE
  BY PacketFields DEF PacketTypes
<1>2. /\ R \in Packets /\ F \in Packets /\ OK \in Packets /\ Err \in Packets
      /\ Packet("text") \in Packets /\ Err.t = "err"
  BY <1>1 DEF Plainly
<1>3. \A p \in Packets : <<p>> = <<p>> \o <<>> /\ <<p>> \in Seq(Packets) BY Unit
<1>4. 0 \in Nat /\ 0 \in Int /\ 1 \in Int /\ 0 + 1 = 1 OBVIOUS
<1> HIDE DEF R, F
<1>5. CASE cmd.k \in {"query", "execute"} /\ answer \in Results
  <2>1. PICK r \in Int, b \in BOOLEAN : Goes(cmd.k, "first", 0, answer, r, b)
    BY <1>5, ResultsGo
  <2>2. FirstStage(cmd) = "first" /\ cmd.k # "prepare" BY <1>5, FirstStageIs
  <2> QED BY <2>1, <2>2, GoesFits
<1>6. CASE cmd.k = "prepare" /\ \E id \in Ids, a \in {0, 1}, c \in {0, 2} :
                                    answer = PreparedOK(id, a, c)
  <2>1. PICK id \in Ids, a \in {0, 1}, c \in {0, 2} : answer = PreparedOK(id, a, c)
    BY <1>6
  <2>2. id \in Nat BY MySQLAssumption
  <2>3. LET w == Skips(0, id)
        IN  /\ Reads(cmd.k, V("prepared", 0, 0, TRUE, 0), answer, w, 0, TRUE)
            /\ w.stage = "done" /\ w.ok = TRUE /\ w.rows = 0 /\ w.id = id
            /\ answer[1].t = "prepared" /\ answer[1].id = id
    <3>1. LET s == PreparedOK(id, a, c)
          IN  /\ Reads(cmd.k, V("prepared", 0, 0, TRUE, 0), s, Skips(0, id), 0, TRUE)
              /\ s[1].t = "prepared" /\ s[1].id = id
      BY <2>2, PreparedRead
    <3> DEFINE w == Skips(0, id)
    <3>2. w.stage = "done" /\ w.ok = TRUE /\ w.rows = 0 /\ w.id = id BY DEF Skips, V
    <3> QED BY <2>1, <3>1, <3>2, Zenon
  <2>4. FirstStage(cmd) = "prepared" BY <1>6, FirstStageIs
  <2> QED BY <1>4, <2>3, <2>4, Zenon DEF Fits
<1>7. CASE answer = <<Err>>
  <2>1. PICK stage \in {"prepared", "until", "first"} : FirstStage(cmd) = stage
    BY FirstStageIs
  <2>2. Goes(cmd.k, stage, 0, <<Err>> \o <<>>, 0, FALSE) BY <1>4, GoesErr
  <2>3. Goes(cmd.k, stage, 0, answer, 0, FALSE) BY <1>2, <1>3, <1>7, <2>2
  <2>4. answer[1].t # "prepared" BY <1>2, <1>7
  <2> QED BY <1>4, <2>1, <2>3, <2>4, GoesFits
<1>8. CASE cmd.k \in {"fields", "fetch"} /\ answer = <<F>>
  <2>1. FirstStage(cmd) = "until" /\ cmd.k # "prepare" BY <1>8, FirstStageIs
  <2>2. Goes(cmd.k, "until", 0, <<F>> \o <<>>, 0, TRUE) BY <1>1, <1>4, GoesLast
  <2>3. Goes(cmd.k, "until", 0, answer, 0, TRUE) BY <1>2, <1>3, <1>8, <2>2
  <2> QED BY <1>4, <2>1, <2>3, GoesFits
<1>9. CASE cmd.k \in {"fields", "fetch"} /\ answer = <<R, F>>
  <2>1. FirstStage(cmd) = "until" /\ cmd.k # "prepare" BY <1>9, FirstStageIs
  <2>2. Goes(cmd.k, "until", 0 + 1, <<F>> \o <<>>, 0, TRUE) BY <1>1, <1>4, GoesLast
  <2>3. Goes(cmd.k, "until", 0 + 1, <<F>>, 0, TRUE) BY <1>2, <1>3, <2>2
  <2>4. Goes(cmd.k, "until", 0, <<R>> \o <<F>>, 0 + 1, TRUE) BY <1>1, <1>4, <2>3, GoesRow
  <2>5. answer = <<R>> \o <<F>> BY <1>2, <1>9, Pair
  <2>6. Goes(cmd.k, "until", 0, answer, 1, TRUE) BY <1>4, <2>4, <2>5
  <2> QED BY <1>4, <2>1, <2>6, GoesFits
<1>10. CASE cmd.k = "stats" /\ answer = <<Packet("text")>>
  <2>1. FirstStage(cmd) = "first" /\ cmd.k # "prepare" BY <1>10, FirstStageIs
  <2>2. Goes(cmd.k, "first", 0, <<Packet("text")>> \o <<>>, 0, TRUE)
    BY <1>1, <1>4, <1>10, GoesLast
  <2>3. Goes(cmd.k, "first", 0, answer, 0, TRUE) BY <1>2, <1>3, <1>10, <2>2
  <2> QED BY <1>4, <2>1, <2>3, GoesFits
<1>11. CASE cmd.k = "option" /\ answer = <<F>>
  <2>1. FirstStage(cmd) = "first" /\ cmd.k # "prepare" BY <1>11, FirstStageIs
  <2>2. Goes(cmd.k, "first", 0, <<F>> \o <<>>, 0, TRUE) BY <1>1, <1>4, GoesLast
  <2>3. Goes(cmd.k, "first", 0, answer, 0, TRUE) BY <1>2, <1>3, <1>11, <2>2
  <2> QED BY <1>4, <2>1, <2>3, GoesFits
<1>12. CASE cmd.k \in {"restart", "ping", "reset"} /\ answer = <<OK>>
  <2>1. FirstStage(cmd) = "first" /\ cmd.k # "prepare" BY <1>12, FirstStageIs
  <2>2. Goes(cmd.k, "first", 0, <<OK>> \o <<>>, 0, TRUE) BY <1>1, <1>4, GoesLast
  <2>3. Goes(cmd.k, "first", 0, answer, 0, TRUE) BY <1>2, <1>3, <1>12, <2>2
  <2> QED BY <1>4, <2>1, <2>3, GoesFits
<1> QED
  BY <1>5, <1>6, <1>7, <1>8, <1>9, <1>10, <1>11, <1>12, RepliesAre DEF R, F

-----------------------------------------------------------------------------
(* The physical packets of a reply before its i-th logical one. *)
Earlier(s, i) == UNION {{j} \X (1..s[j].parts) : j \in 1..(i - 1)}

(* There are as many more after the i-th as it has. *)
LEMMA EarlierGrows ==
    ASSUME NEW s \in Seq(Packets), NEW i \in 1..Len(s), IsFiniteSet(Earlier(s, i))
    PROVE  /\ IsFiniteSet(Earlier(s, i + 1)) /\ s[i].parts \in Nat
           /\ Cardinality(Earlier(s, i + 1)) = Cardinality(Earlier(s, i)) + s[i].parts
<1> DEFINE A == Earlier(s, i)
           B == {i} \X (1..s[i].parts)
<1>1. s[i] \in Packets /\ i \in Nat OBVIOUS
<1>2. s[i].parts \in Nat BY <1>1 DEF Packets
<1>3. IsFiniteSet(B) /\ Cardinality(B) = s[i].parts BY <1>2, Block
<1>4. \A z : z \in A <=> \E j \in 1..(i - 1) : z \in {j} \X (1..s[j].parts)
  BY DEF Earlier
<1>5. \A z : z \in Earlier(s, i + 1) <=> \E j \in 1..i : z \in {j} \X (1..s[j].parts)
  <2>1. (i + 1) - 1 = i BY <1>1
  <2>2. Earlier(s, i + 1) = UNION {{j} \X (1..s[j].parts) : j \in 1..i}
    BY <2>1, Zenon DEF Earlier
  <2> QED BY <2>2
<1>6. \A j \in 1..i : j \in 1..(i - 1) \/ j = i BY <1>1
<1>7. \A j \in 1..(i - 1) : j \in 1..i /\ j # i BY <1>1
<1>8. i \in 1..i BY <1>1
<1>9. \A j, z : z \in {j} \X (1..s[j].parts) => z[1] = j OBVIOUS
<1>10. Earlier(s, i + 1) = A \cup B
  <2> DEFINE C(j) == {j} \X (1..s[j].parts)
  <2>1. /\ \A z : z \in A <=> \E j \in 1..(i - 1) : z \in C(j)
        /\ \A z : z \in Earlier(s, i + 1) <=> \E j \in 1..i : z \in C(j)
        /\ B = C(i)
    BY <1>4, <1>5
  <2> HIDE DEF A, B, C
  <2> QED BY <1>6, <1>7, <1>8, <2>1
<1>11. A \cap B = {}
  <2>1. \A z \in A : z[1] # i
    <3> TAKE z \in A
    <3>1. PICK j \in 1..(i - 1) : z \in {j} \X (1..s[j].parts) BY <1>4
    <3>2. z[1] = j BY <1>9, <3>1
    <3> QED BY <1>7, <3>2
  <2>2. \A z \in B : z[1] = i OBVIOUS
  <2> HIDE DEF A, B
  <2> QED BY <2>1, <2>2
<1> HIDE DEF A, B
<1>12. IsFiniteSet(A) BY DEF A
<1>13. IsFiniteSet(A \cup B) /\ Cardinality(A \cup B) = Cardinality(A) + Cardinality(B)
  BY <1>3, <1>11, <1>12, Apart
<1> QED BY <1>2, <1>3, <1>10, <1>13 DEF A

(* They are finitely many. *)
LEMMA EarlierFinite ==
    ASSUME NEW s \in Seq(Packets), NEW i \in 1..Len(s)
    PROVE  IsFiniteSet(Earlier(s, i)) /\ Cardinality(Earlier(s, i)) \in Nat
<1> DEFINE S == {n \in Nat : n + 1 \in 1..Len(s) => IsFiniteSet(Earlier(s, n + 1))}
<1>1. S \in SUBSET Nat OBVIOUS
<1>2. 0 \in S
  <2>1. (0 + 1) - 1 = 0 /\ 1..0 = {} OBVIOUS
  <2>2. Earlier(s, 0 + 1) = UNION {{j} \X (1..s[j].parts) : j \in {}}
    BY <2>1, Zenon DEF Earlier
  <2>3. UNION {{j} \X (1..s[j].parts) : j \in {}} = {} OBVIOUS
  <2> QED BY <2>2, <2>3, FS_EmptySet
<1>3. ASSUME NEW n \in S PROVE n + 1 \in S
  <2>1. n \in Nat /\ (n + 1 \in 1..Len(s) => IsFiniteSet(Earlier(s, n + 1))) OBVIOUS
  <2>2. ASSUME (n + 1) + 1 \in 1..Len(s) PROVE IsFiniteSet(Earlier(s, (n + 1) + 1))
    <3>1. n + 1 \in 1..Len(s) BY <2>1, <2>2
    <3> QED BY <2>1, <3>1, EarlierGrows
  <2> QED BY <2>1, <2>2
<1> HIDE DEF S
<1>4. \A n \in Nat : n \in S BY <1>1, <1>2, <1>3, SetInduction
<1>5. i - 1 \in Nat /\ (i - 1) + 1 = i OBVIOUS
<1>6. i - 1 \in S BY <1>4, <1>5
<1>7. IsFiniteSet(Earlier(s, i))
  <2>1. (i - 1) + 1 \in 1..Len(s) => IsFiniteSet(Earlier(s, (i - 1) + 1)) BY <1>6 DEF S
  <2> QED BY <1>5, <2>1
<1> QED BY <1>7, FS_CardinalityType

(* q is p but for its number. *)
Alike(p, q) ==
    /\ q \in Packets /\ q.t = p.t /\ q.columns = p.columns /\ q.params = p.params
    /\ q.id = p.id /\ q.more = p.more /\ q.long = p.long /\ q.parts = p.parts

(* The packets of a reply are numbered on from those of the command. *)
LEMMA NumberedIs ==
    ASSUME NEW cmd \in Command, NEW s \in Seq(Packets)
    PROVE  LET t == Numbered(cmd, s)
           IN  /\ t \in Seq(Packets) /\ Len(t) = Len(s)
               /\ \A i \in 1..Len(s) : Alike(s[i], t[i])
               /\ Chained(t, NextSequence(cmd))
<1> DEFINE t == Numbered(cmd, s)
           N(i) == Plus(cmd.parts, Cardinality(Earlier(s, i)))
<1>1. cmd.parts \in Nat BY DEF Command
<1>2. DOMAIN s = 1..Len(s) /\ Len(s) \in Nat /\ \A i \in 1..Len(s) : s[i] \in Packets
  OBVIOUS
<1>3. t = [i \in 1..Len(s) |-> [s[i] EXCEPT !.seq = N(i)]]
  BY <1>2, Zenon DEF Numbered, Earlier
<1>4. \A i \in 1..Len(s) : N(i) \in Nat
  <2> TAKE i \in 1..Len(s)
  <2>1. Cardinality(Earlier(s, i)) \in Nat BY EarlierFinite
  <2> QED BY <1>1, <2>1, PlusSteps
<1>5. ASSUME NEW p \in Packets, NEW n \in Nat
      PROVE  Alike(p, [p EXCEPT !.seq = n]) /\ [p EXCEPT !.seq = n].seq = n
  BY <1>5 DEF Alike, Packets
<1> HIDE DEF t, N
<1>6. \A i \in 1..Len(s) : t[i] = [s[i] EXCEPT !.seq = N(i)] BY <1>3
<1>7. \A i \in 1..Len(s) : Alike(s[i], t[i]) /\ t[i].seq = N(i)
  <2> TAKE i \in 1..Len(s)
  <2>1. s[i] \in Packets /\ N(i) \in Nat /\ t[i] = [s[i] EXCEPT !.seq = N(i)]
    BY <1>2, <1>4, <1>6
  <2> QED BY <1>5, <2>1, Zenon
<1>8. t \in Seq(Packets) /\ Len(t) = Len(s)
  <2>1. \A i \in 1..Len(s) : t[i] \in Packets BY <1>7 DEF Alike
  <2>2. \E f : t = [i \in 1..Len(s) |-> f[i]]
    <3> DEFINE f == [i \in 1..Len(s) |-> [s[i] EXCEPT !.seq = N(i)]]
    <3>1. \A i \in 1..Len(s) : f[i] = [s[i] EXCEPT !.seq = N(i)] OBVIOUS
    <3>2. f = [i \in 1..Len(s) |-> f[i]] OBVIOUS
    <3> HIDE DEF f
    <3>3. t = f BY <1>3 DEF f
    <3> QED BY <3>2, <3>3, Zenon
  <2>3. PICK f : t = [i \in 1..Len(s) |-> f[i]] BY <2>2
  <2>4. \A i \in 1..Len(s) : f[i] \in Packets BY <2>1, <2>3
  <2> QED BY <1>2, <2>3, <2>4
<1>9. t # <<>> => t[1].seq = NextSequence(cmd)
  <2> SUFFICES ASSUME t # <<>> PROVE t[1].seq = NextSequence(cmd) OBVIOUS
  <2>1. 1 \in 1..Len(s) BY <1>2, <1>8
  <2>2. 1 - 1 = 0 /\ 1..0 = {} OBVIOUS
  <2>3. Earlier(s, 1) = UNION {{j} \X (1..s[j].parts) : j \in {}}
    BY <2>2, Zenon DEF Earlier
  <2>4. UNION {{j} \X (1..s[j].parts) : j \in {}} = {} OBVIOUS
  <2>5. Cardinality(Earlier(s, 1)) = 0 BY <2>3, <2>4, FS_EmptySet
  <2>6. N(1) = Plus(cmd.parts, 0) BY <2>5 DEF N
  <2>7. cmd.parts + 0 = cmd.parts BY <1>1
  <2>8. N(1) = NextSequence(cmd) BY <2>6, <2>7, Zenon DEF Plus, NextSequence
  <2> QED BY <1>7, <2>1, <2>8
<1>10. \A i \in 1..Len(t) - 1 : t[i + 1].seq = Plus(t[i].seq, t[i].parts)
  <2> TAKE i \in 1..Len(t) - 1
  <2>1. i \in 1..Len(s) /\ i + 1 \in 1..Len(s) BY <1>2, <1>8
  <2>2. IsFiniteSet(Earlier(s, i)) /\ Cardinality(Earlier(s, i)) \in Nat
    BY <2>1, EarlierFinite
  <2>3. /\ s[i].parts \in Nat
        /\ Cardinality(Earlier(s, i + 1)) = Cardinality(Earlier(s, i)) + s[i].parts
    BY <2>1, <2>2, EarlierGrows
  <2>4. PICK x : x = cmd.parts + Cardinality(Earlier(s, i)) OBVIOUS
  <2>5. x \in Nat BY <1>1, <2>2, <2>4
  <2>6. Plus(x % SequenceMod, s[i].parts) = (x + s[i].parts) % SequenceMod
    BY <2>3, <2>5, PlusSteps
  <2>7. x + s[i].parts = cmd.parts + Cardinality(Earlier(s, i + 1))
    BY <1>1, <2>2, <2>3, <2>4
  <2>8. N(i) = x % SequenceMod /\ N(i + 1) = (x + s[i].parts) % SequenceMod
    BY <2>4, <2>7, Zenon DEF N, Plus
  <2>9. t[i].seq = N(i) /\ t[i + 1].seq = N(i + 1) /\ t[i].parts = s[i].parts
    BY <1>7, <2>1 DEF Alike
  <2> QED BY <2>6, <2>8, <2>9, Zenon
<1>11. Chained(t, NextSequence(cmd)) BY <1>9, <1>10, Zenon DEF Chained
<1> QED BY <1>7, <1>8, <1>11 DEF t

(* The parser does not look at the number. *)
LEMMA StepAlike ==
    ASSUME NEW e, NEW k, NEW v, NEW p, NEW q, Alike(p, q)
    PROVE  Step(e, k, v, q) = Step(e, k, v, p)
BY DEF Step, Alike

(* So it goes through numbered packets in the same way. *)
LEMMA LeadsAlike ==
    ASSUME NEW e, NEW k, NEW v, NEW s, NEW t, NEW w, Leads(e, k, v, s, w), Len(t) = Len(s),
           \A i \in 1..Len(s) : Alike(s[i], t[i])
    PROVE  Leads(e, k, v, t, w)
<1>1. PICK f : /\ f[1] = v /\ f[Len(s) + 1] = w /\ Over(w)
               /\ \A i \in 1..Len(s) : ~Over(f[i]) /\ f[i + 1] = Step(e, k, f[i], s[i])
  BY Zenon DEF Leads
<1>2. ASSUME NEW i \in 1..Len(t) PROVE ~Over(f[i]) /\ f[i + 1] = Step(e, k, f[i], t[i])
  <2>1. i \in 1..Len(s) OBVIOUS
  <2>2. Step(e, k, f[i], t[i]) = Step(e, k, f[i], s[i]) BY <2>1, StepAlike
  <2> QED BY <1>1, <2>1, <2>2, Zenon
<1> QED BY <1>1, <1>2, Zenon DEF Leads

-----------------------------------------------------------------------------
(* r is the parser with another view. *)
Became(r, stage, left, rows, ok, id) ==
    /\ r \in ReplyState /\ r.next = reply.next /\ r.statement = reply.statement
    /\ View(r) = V(stage, left, rows, ok, id)

(* The ways in which a packet changes the parser. *)
LEMMA Becoming ==
    ASSUME reply \in ReplyState
    PROVE  /\ \A stage \in Stages, left \in Int :
                 /\ Became(At(stage, left), stage, left, reply.rows, reply.ok, reply.id)
                 /\ \A id \in Nat : Became([At(stage, left) EXCEPT !.id = id],
                                           stage, left, reply.rows, reply.ok, id)
           /\ Became(Errored, "done", 0, reply.rows, FALSE, reply.id)
           /\ Became([Errored EXCEPT !.rows = 0], "done", 0, 0, FALSE, reply.id)
           /\ Became(CountedRow, reply.stage, reply.left, reply.rows + 1, reply.ok, reply.id)
<1>2. ASSUME NEW r \in ReplyState, NEW id \in Nat
      PROVE  LET q == [r EXCEPT !.id = id]
             IN  /\ q \in ReplyState /\ q.stage = r.stage /\ q.left = r.left
                 /\ q.rows = r.rows /\ q.ok = r.ok /\ q.id = id /\ q.next = r.next
                 /\ q.statement = r.statement
  BY <1>2 DEF ReplyState
<1>3. ASSUME NEW r \in ReplyState
      PROVE  LET q == [r EXCEPT !.ok = FALSE]
             IN  /\ q \in ReplyState /\ q.stage = r.stage /\ q.left = r.left
                 /\ q.rows = r.rows /\ q.ok = FALSE /\ q.id = r.id /\ q.next = r.next
                 /\ q.statement = r.statement
  BY <1>3 DEF ReplyState
<1>4. ASSUME NEW r \in ReplyState, NEW n \in Nat
      PROVE  LET q == [r EXCEPT !.rows = n]
             IN  /\ q \in ReplyState /\ q.stage = r.stage /\ q.left = r.left
                 /\ q.rows = n /\ q.ok = r.ok /\ q.id = r.id /\ q.next = r.next
                 /\ q.statement = r.statement
  BY <1>4 DEF ReplyState
<1>5. ASSUME NEW stage \in Stages, NEW left \in Int
      PROVE  LET q == At(stage, left)
             IN  /\ q \in ReplyState /\ q.stage = stage /\ q.left = left
                 /\ q.rows = reply.rows /\ q.ok = reply.ok /\ q.id = reply.id
                 /\ q.next = reply.next /\ q.statement = reply.statement
  BY <1>5 DEF At, ReplyState
<1>6. "done" \in Stages /\ 0 \in Int /\ 0 \in Nat BY DEF Stages
<1>7. ASSUME NEW stage \in Stages, NEW left \in Int
      PROVE  /\ Became(At(stage, left), stage, left, reply.rows, reply.ok, reply.id)
             /\ \A id \in Nat : Became([At(stage, left) EXCEPT !.id = id],
                                       stage, left, reply.rows, reply.ok, id)
  <2>1. Became(At(stage, left), stage, left, reply.rows, reply.ok, reply.id)
    BY <1>5, Zenon DEF Became, View
  <2>2. PICK r : r = At(stage, left) OBVIOUS
  <2>3. ASSUME NEW id \in Nat
        PROVE Became([r EXCEPT !.id = id], stage, left, reply.rows, reply.ok, id)
    <3>1. /\ r \in ReplyState /\ r.stage = stage /\ r.left = left
          /\ r.rows = reply.rows /\ r.ok = reply.ok /\ r.id = reply.id
          /\ r.next = reply.next /\ r.statement = reply.statement
      BY <1>5, <2>2, Zenon
    <3> QED BY <1>2, <3>1, Zenon DEF Became, View
  <2> QED BY <2>1, <2>2, <2>3, Zenon
<1>8. PICK d : d = At("done", 0) OBVIOUS
<1>9. /\ d \in ReplyState /\ d.stage = "done" /\ d.left = 0 /\ d.rows = reply.rows
      /\ d.id = reply.id /\ d.next = reply.next /\ d.statement = reply.statement
  BY <1>5, <1>6, <1>8, Zenon
<1>10. Errored = [d EXCEPT !.ok = FALSE] BY <1>8, Zenon DEF Errored
<1>11. /\ Errored \in ReplyState /\ Errored.stage = "done" /\ Errored.left = 0
       /\ Errored.rows = reply.rows /\ Errored.ok = FALSE /\ Errored.id = reply.id
       /\ Errored.next = reply.next /\ Errored.statement = reply.statement
  BY <1>3, <1>9, <1>10, Zenon
<1>12. Became(Errored, "done", 0, reply.rows, FALSE, reply.id)
  BY <1>11, Zenon DEF Became, View
<1>13. Became([Errored EXCEPT !.rows = 0], "done", 0, 0, FALSE, reply.id)
  <2>1. PICK r : r = Errored OBVIOUS
  <2>2. /\ r \in ReplyState /\ r.stage = "done" /\ r.left = 0 /\ r.ok = FALSE
        /\ r.id = reply.id /\ r.next = reply.next /\ r.statement = reply.statement
    BY <1>11, <2>1, Zenon
  <2>3. PICK q : q = [r EXCEPT !.rows = 0] OBVIOUS
  <2>4. /\ q \in ReplyState /\ q.stage = r.stage /\ q.left = r.left /\ q.rows = 0
        /\ q.ok = r.ok /\ q.id = r.id /\ q.next = r.next /\ q.statement = r.statement
    BY <1>4, <1>6, <2>2, <2>3, Zenon
  <2>5. Became(q, "done", 0, 0, FALSE, reply.id) BY <2>2, <2>4, Zenon DEF Became, View
  <2> QED BY <2>1, <2>3, <2>5, Zenon
<1>14. Became(CountedRow, reply.stage, reply.left, reply.rows + 1, reply.ok, reply.id)
  <2>1. reply.rows + 1 \in Nat BY DEF ReplyState
  <2>2. CountedRow = [reply EXCEPT !.rows = reply.rows + 1] BY DEF CountedRow
  <2> QED BY <1>4, <2>1, <2>2, Zenon DEF Became, View
<1> QED BY <1>7, <1>12, <1>13, <1>14

(* A packet takes the parser one step. *)
LEMMA AfterIsStep ==
    ASSUME reply \in ReplyState, eof \in BOOLEAN, NEW p \in Packets,
           reply.stage \notin {"none", "done", "fail"}
    PROVE  LET r == After(p)
           IN  /\ r \in ReplyState /\ r.next = reply.next /\ r.statement = reply.statement
               /\ View(r) = Step(eof, Kind(read), View(reply), p)
<1> DEFINE v == View(reply)
           k == Kind(read)
           Stepped(r) == /\ r \in ReplyState /\ r.next = reply.next
                        /\ r.statement = reply.statement /\ View(r) = Step(eof, k, v, p)
<1>1. /\ v.stage = reply.stage /\ v.left = reply.left /\ v.rows = reply.rows
      /\ v.ok = reply.ok /\ v.id = reply.id
  BY DEF View, V
<1>2. /\ reply.stage \in Stages /\ reply.left \in Int /\ reply.rows \in Nat
      /\ reply.ok \in BOOLEAN /\ reply.id \in Nat
  BY DEF ReplyState
<1>3. /\ p.t \in PacketTypes /\ p.columns \in Nat /\ p.params \in Nat /\ p.id \in Nat
      /\ p.more \in BOOLEAN /\ p.long \in BOOLEAN
  BY DEF Packets
<1>4. Stages = {"none", "first", "defs", "terminator", "rows", "prepared", "skip", "until",
           "done", "fail"} BY DEF Stages
<1> HIDE DEF v, k
<1>5. ASSUME NEW r, NEW stage, NEW left, NEW rows, NEW ok, NEW id,
             Became(r, stage, left, rows, ok, id),
             Step(eof, k, v, p) = V(stage, left, rows, ok, id)
      PROVE  Stepped(r)
  BY <1>5, Zenon DEF Became
<1>6. ASSUME NEW stage \in Stages, NEW left \in Int,
             Step(eof, k, v, p) = V(stage, left, v.rows, v.ok, v.id)
      PROVE  Stepped(At(stage, left))
  <2>1. Became(At(stage, left), stage, left, reply.rows, reply.ok, reply.id)
    BY Becoming, Zenon
  <2>2. Step(eof, k, v, p) = V(stage, left, reply.rows, reply.ok, reply.id)
    BY <1>1, <1>6, Zenon
  <2> HIDE DEF Stepped
  <2> QED BY <1>5, <2>1, <2>2, Zenon
<1>7. ASSUME Step(eof, k, v, p) = V("done", 0, v.rows, FALSE, v.id) PROVE Stepped(Errored)
  <2>1. Became(Errored, "done", 0, reply.rows, FALSE, reply.id) BY Becoming, Zenon
  <2>2. Step(eof, k, v, p) = V("done", 0, reply.rows, FALSE, reply.id)
    BY <1>1, <1>7, Zenon
  <2> HIDE DEF Stepped
  <2> QED BY <1>5, <2>1, <2>2, Zenon
<1>8. ASSUME Step(eof, k, v, p) = V(v.stage, v.left, v.rows + 1, v.ok, v.id)
      PROVE  Stepped(CountedRow)
  <2>1. Became(CountedRow, reply.stage, reply.left, reply.rows + 1, reply.ok, reply.id)
    BY Becoming, Zenon
  <2>2. Step(eof, k, v, p) =
          V(reply.stage, reply.left, reply.rows + 1, reply.ok, reply.id)
    BY <1>1, <1>8, Zenon
  <2> HIDE DEF Stepped
  <2> QED BY <1>5, <2>1, <2>2, Zenon
<1> HIDE DEF Stepped
<1>9. 0 \in Int OBVIOUS
<1>10. ASSUME reply.stage = "first" PROVE Stepped(After(p))
  <2>1. After(p) = First(p) BY <1>10, Zenon DEF After
  <2>2. CASE p.t = "err"
    <3>1. First(p) = Errored BY <2>2, Zenon DEF First
    <3>2. Step(eof, k, v, p) = V("done", 0, v.rows, FALSE, v.id)
      BY <1>1, <1>10, <2>2 DEF Step
    <3> QED BY <1>7, <2>1, <3>1, <3>2
  <2>3. CASE p.t = "ok"
    <3>1. First(p) = At(IF p.more THEN "first" ELSE "done", 0)
      BY <2>3, Zenon DEF First, Continued
    <3>2. PICK st : st = IF p.more THEN "first" ELSE "done" OBVIOUS
    <3>3. Step(eof, k, v, p) = V(st, 0, v.rows, v.ok, v.id)
      BY <1>1, <1>10, <2>3, <3>2 DEF Step
    <3>4. st \in Stages BY <1>4, <3>2
    <3>5. Stepped(At(st, 0)) BY <1>6, <1>9, <3>3, <3>4
    <3> QED BY <2>1, <3>1, <3>2, <3>5, Zenon
  <2>4. CASE p.t = "text" /\ k = "stats"
    <3>0. p.t # "err" /\ p.t # "ok" /\ script[read].k = "stats" BY <2>4 DEF k, Kind
    <3>1. First(p) = At("done", 0) BY <2>4, <3>0, Zenon DEF First
    <3>2. Step(eof, k, v, p) = V("done", 0, v.rows, v.ok, v.id)
      BY <1>1, <1>10, <2>4 DEF Step
    <3>3. "done" \in Stages BY <1>4
    <3> QED BY <1>6, <1>9, <2>1, <3>1, <3>2, <3>3
  <2>5. CASE p.t = "count"
    <3>0. p.t # "err" /\ p.t # "ok" /\ p.t # "text" BY <2>5
    <3>1. First(p) = At("defs", p.columns) BY <2>5, <3>0, Zenon DEF First
    <3>2. Step(eof, k, v, p) = V("defs", p.columns, v.rows, v.ok, v.id)
      BY <1>1, <1>10, <2>5 DEF Step
    <3>3. "defs" \in Stages /\ p.columns \in Int BY <1>3, <1>4
    <3> QED BY <1>6, <2>1, <3>1, <3>2, <3>3
  <2>6. CASE p.t \notin {"err", "ok", "count"} /\ ~(p.t = "text" /\ k = "stats")
    <3>0. /\ p.t # "err" /\ p.t # "ok" /\ p.t # "count"
          /\ ~(p.t = "text" /\ script[read].k = "stats")
      BY <2>6 DEF k, Kind
    <3>1. First(p) = At("fail", 0) BY <3>0, Zenon DEF First
    <3>2. Step(eof, k, v, p) = V("fail", 0, v.rows, v.ok, v.id)
      BY <1>1, <1>10, <2>6 DEF Step
    <3>3. "fail" \in Stages BY <1>4
    <3> QED BY <1>6, <1>9, <2>1, <3>1, <3>2, <3>3
  <2> QED BY <2>2, <2>3, <2>4, <2>5, <2>6
<1>11. ASSUME reply.stage = "defs" PROVE Stepped(After(p))
  <2>1. After(p) = Definition(p) BY <1>11, Zenon DEF After
  <2>2. CASE reply.left > 1
    <3>1. Definition(p) = At("defs", reply.left - 1) BY <2>2 DEF Definition
    <3>2. Step(eof, k, v, p) = V("defs", reply.left - 1, v.rows, v.ok, v.id)
      BY <1>1, <1>11, <2>2 DEF Step
    <3>3. "defs" \in Stages /\ reply.left - 1 \in Int BY <1>2, <1>4
    <3> QED BY <1>6, <2>1, <3>1, <3>2, <3>3
  <2>3. CASE ~(reply.left > 1)
    <3>1. PICK st : st = IF eof THEN "terminator" ELSE "rows" OBVIOUS
    <3>2. Definition(p) = At(st, 0) BY <2>3, <3>1 DEF Definition, Defined
    <3>3. Step(eof, k, v, p) = V(st, 0, v.rows, v.ok, v.id)
      BY <1>1, <1>11, <2>3, <3>1 DEF Step
    <3>4. st \in Stages BY <1>4, <3>1
    <3> QED BY <1>6, <1>9, <2>1, <3>2, <3>3, <3>4
  <2> QED BY <2>2, <2>3
<1>12. ASSUME reply.stage = "terminator" PROVE Stepped(After(p))
  <2>1. After(p) = Terminator(p) BY <1>12, Zenon DEF After
  <2>2. PICK st : st = IF p.t = "eof" /\ ~p.long THEN "rows" ELSE "fail" OBVIOUS
  <2>3. Terminator(p) = At(st, 0) BY <2>2 DEF Terminator, Ends
  <2>4. Step(eof, k, v, p) = V(st, 0, v.rows, v.ok, v.id) BY <1>1, <1>12, <2>2 DEF Step
  <2>5. st \in Stages BY <1>4, <2>2
  <2> QED BY <1>6, <1>9, <2>1, <2>3, <2>4, <2>5
<1>13. ASSUME reply.stage = "rows" PROVE Stepped(After(p))
  <2>1. After(p) = Row(p) BY <1>13, Zenon DEF After
  <2>2. CASE p.t = "err"
    <3>1. Row(p) = Errored
      <4>1. ~Ends(p) BY <2>2 DEF Ends
      <4> QED BY <2>2, <4>1, Zenon DEF Row
    <3>2. Step(eof, k, v, p) = V("done", 0, v.rows, FALSE, v.id)
      BY <1>1, <1>13, <2>2 DEF Step
    <3> QED BY <1>7, <2>1, <3>1, <3>2
  <2>3. CASE Ends(p)
    <3>0. p.t = "eof" /\ ~p.long /\ p.t # "err" BY <2>3 DEF Ends
    <3>1. Row(p) = At(IF p.more THEN "first" ELSE "done", 0)
      BY <2>3, <3>0, Zenon DEF Row, Continued
    <3>2. PICK st : st = IF p.more THEN "first" ELSE "done" OBVIOUS
    <3>3. Step(eof, k, v, p) = V(st, 0, v.rows, v.ok, v.id)
      BY <1>1, <1>13, <3>0, <3>2 DEF Step
    <3>4. st \in Stages BY <1>4, <3>2
    <3>5. Stepped(At(st, 0)) BY <1>6, <1>9, <3>3, <3>4
    <3> QED BY <2>1, <3>1, <3>2, <3>5, Zenon
  <2>4. CASE p.t # "err" /\ ~Ends(p)
    <3>1. Row(p) = CountedRow BY <2>4, Zenon DEF Row
    <3>2. Step(eof, k, v, p) = V(v.stage, v.left, v.rows + 1, v.ok, v.id)
      BY <1>1, <1>13, <2>4 DEF Step, Ends
    <3> QED BY <1>8, <2>1, <3>1, <3>2
  <2> QED BY <2>2, <2>3, <2>4
<1>14. ASSUME reply.stage = "prepared" PROVE Stepped(After(p))
  <2>1. After(p) = Prepared(p) BY <1>14, Zenon DEF After
  <2>2. CASE p.t = "err"
    <3>1. Prepared(p) = Errored BY <2>2, Zenon DEF Prepared
    <3>2. Step(eof, k, v, p) = V("done", 0, v.rows, FALSE, v.id)
      BY <1>1, <1>14, <2>2 DEF Step
    <3> QED BY <1>7, <2>1, <3>1, <3>2
  <2>3. CASE p.t = "prepared"
    <3>1. PICK z : z = Skipped(p) OBVIOUS
    <3>2. z \in Int BY <1>3, <3>1 DEF Skipped
    <3>3. PICK st : st = IF z = 0 THEN "done" ELSE "skip" OBVIOUS
    <3>4. Prepared(p) = [At(st, z) EXCEPT !.id = p.id]
      <4>1. Prepared(p) = [At(IF Skipped(p) = 0 THEN "done" ELSE "skip", Skipped(p))
                             EXCEPT !.id = p.id]
        BY <2>3, Zenon DEF Prepared
      <4> QED BY <3>1, <3>3, <4>1, Zenon
    <3>5. Step(eof, k, v, p) = V(st, z, v.rows, v.ok, p.id)
      <4> DEFINE g(n) == IF n > 0 /\ eof THEN n + 1 ELSE n
                 y == g(p.params) + g(p.columns)
      <4>1. z = y BY <3>1 DEF Skipped
      <4>2. Step(eof, k, v, p) = V(IF y = 0 THEN "done" ELSE "skip", y, v.rows, v.ok, p.id)
        BY <1>1, <1>14, <2>3 DEF Step
      <4> HIDE DEF y
      <4> QED BY <3>3, <4>1, <4>2
    <3>6. st \in Stages BY <1>4, <3>3
    <3>7. Became([At(st, z) EXCEPT !.id = p.id], st, z, reply.rows, reply.ok, p.id)
      BY <1>3, <3>2, <3>6, Becoming, Zenon
    <3>8. Step(eof, k, v, p) = V(st, z, reply.rows, reply.ok, p.id)
      BY <1>1, <3>5, Zenon
    <3>9. Stepped([At(st, z) EXCEPT !.id = p.id]) BY <1>5, <3>7, <3>8, Zenon
    <3> QED BY <2>1, <3>4, <3>9, Zenon
  <2>4. CASE p.t # "err" /\ p.t # "prepared"
    <3>1. Prepared(p) = At("fail", 0) BY <2>4, Zenon DEF Prepared
    <3>2. Step(eof, k, v, p) = V("fail", 0, v.rows, v.ok, v.id)
      BY <1>1, <1>14, <2>4 DEF Step
    <3>3. "fail" \in Stages BY <1>4
    <3> QED BY <1>6, <1>9, <2>1, <3>1, <3>2, <3>3
  <2> QED BY <2>2, <2>3, <2>4
<1>15. ASSUME reply.stage = "skip" PROVE Stepped(After(p))
  <2>1. After(p) = Skip(p) BY <1>15, Zenon DEF After
  <2>2. PICK st : st = IF reply.left = 1 THEN "done" ELSE "skip" OBVIOUS
  <2>3. Skip(p) = At(st, reply.left - 1) BY <2>2 DEF Skip
  <2>4. Step(eof, k, v, p) = V(st, reply.left - 1, v.rows, v.ok, v.id)
    BY <1>1, <1>15, <2>2 DEF Step
  <2>5. st \in Stages /\ reply.left - 1 \in Int BY <1>2, <1>4, <2>2
  <2> QED BY <1>6, <2>1, <2>3, <2>4, <2>5
<1>16. ASSUME reply.stage = "until" PROVE Stepped(After(p))
  <2>1. After(p) = Until(p) BY <1>16, Zenon DEF After
  <2>2. CASE p.t = "err"
    <3>1. Until(p) = [Errored EXCEPT !.rows = 0]
      <4>1. ~Ends(p) BY <2>2 DEF Ends
      <4> QED BY <2>2, <4>1, Zenon DEF Until
    <3>2. Step(eof, k, v, p) = V("done", 0, 0, FALSE, v.id) BY <1>1, <1>16, <2>2 DEF Step
    <3>3. Became([Errored EXCEPT !.rows = 0], "done", 0, 0, FALSE, reply.id)
      BY Becoming, Zenon
    <3>4. Step(eof, k, v, p) = V("done", 0, 0, FALSE, reply.id) BY <1>1, <3>2, Zenon
    <3>5. Stepped([Errored EXCEPT !.rows = 0]) BY <1>5, <3>3, <3>4, Zenon
    <3> QED BY <2>1, <3>1, <3>5, Zenon
  <2>3. CASE Ends(p)
    <3>0. p.t = "eof" /\ ~p.long /\ p.t # "err" BY <2>3 DEF Ends
    <3>1. Until(p) = At("done", 0) BY <2>3, <3>0, Zenon DEF Until
    <3>2. Step(eof, k, v, p) = V("done", 0, v.rows, v.ok, v.id)
      BY <1>1, <1>16, <3>0 DEF Step
    <3>3. "done" \in Stages BY <1>4
    <3> QED BY <1>6, <1>9, <2>1, <3>1, <3>2, <3>3
  <2>4. CASE p.t # "err" /\ ~Ends(p)
    <3>1. Until(p) = CountedRow BY <2>4, Zenon DEF Until
    <3>2. Step(eof, k, v, p) = V(v.stage, v.left, v.rows + 1, v.ok, v.id)
      BY <1>1, <1>16, <2>4 DEF Step, Ends
    <3> QED BY <1>8, <2>1, <3>1, <3>2
  <2> QED BY <2>2, <2>3, <2>4
<1>17. Stepped(After(p))
  BY <1>2, <1>4, <1>10, <1>11, <1>12, <1>13, <1>14, <1>15, <1>16
<1> QED BY <1>17 DEF Stepped, v, k

-----------------------------------------------------------------------------
(* Statements are equal when their parts are. *)
LEMMA StatementEqual ==
    ASSUME NEW a \in Statement, NEW b \in Statement, a.q = b.q, a.long = b.long
    PROVE  a = b
BY DEF Statement

(* What happens to one statement. *)
LEMMA StatementFacts ==
    /\ NoStatement \in Statement /\ NoStatement.q = 0 /\ NoStatement.long = 0
    /\ \A a \in Statement : /\ [a EXCEPT !.long = a.long + 1] \in Statement
                            /\ [a EXCEPT !.long = 0] \in Statement
    /\ [NoStatement EXCEPT !.long = 0] = NoStatement
    /\ \A q \in Nat : LET a == [NoStatement EXCEPT !.q = q]
                      IN  a \in Statement /\ a.q = q /\ a.long = 0
<1>1. NoStatement \in Statement /\ NoStatement.q = 0 /\ NoStatement.long = 0
  BY DEF NoStatement, Statement
<1>2. ASSUME NEW a \in Statement
      PROVE  /\ [a EXCEPT !.long = a.long + 1] \in Statement
             /\ [a EXCEPT !.long = 0] \in Statement
             /\ [a EXCEPT !.long = 0].q = a.q /\ [a EXCEPT !.long = 0].long = 0
  BY <1>2 DEF Statement
<1>3. [NoStatement EXCEPT !.long = 0] = NoStatement
  <2>1. PICK a : a = NoStatement OBVIOUS
  <2>2. a \in Statement /\ a.q = 0 /\ a.long = 0 BY <1>1, <2>1
  <2>3. [a EXCEPT !.long = 0] = a BY <1>2, <2>2, StatementEqual
  <2> QED BY <2>1, <2>3
<1>4. ASSUME NEW a \in Statement, NEW q \in Nat
      PROVE  LET b == [a EXCEPT !.q = q] IN b \in Statement /\ b.q = q /\ b.long = a.long
  BY <1>4 DEF Statement
<1>5. ASSUME NEW q \in Nat
      PROVE  LET a == [NoStatement EXCEPT !.q = q]
             IN  a \in Statement /\ a.q = q /\ a.long = 0
  BY <1>1, <1>4, <1>5, Zenon
<1> QED BY <1>1, <1>2, <1>3, <1>5

(* A function with another value in one place. *)
LEMMA Replaced ==
    ASSUME NEW S, NEW T, NEW f \in [S -> T], NEW x \in S, NEW y \in T
    PROVE  LET g == [f EXCEPT ![x] = y]
           IN  /\ g \in [S -> T] /\ g[x] = y /\ \A z \in S : z # x => g[z] = f[z]
OBVIOUS

(* What a command does to one statement. *)
Single(k, a) ==
    IF k = "long" THEN IF a # NoStatement THEN [a EXCEPT !.long = a.long + 1] ELSE a
    ELSE IF k \in {"execute", "restart"} THEN [a EXCEPT !.long = 0]
    ELSE IF k = "close" THEN NoStatement
    ELSE a

(* The effect of a command on the statements, one by one. *)
LEMMA EffectIs ==
    ASSUME NEW p \in [Ids -> Statement], NEW cmd \in Command
    PROVE  /\ Effect(p, cmd) \in [Ids -> Statement]
           /\ cmd.k = "reset" => \A id \in Ids : Effect(p, cmd)[id] = NoStatement
           /\ cmd.k # "reset" =>
                /\ Effect(p, cmd)[cmd.id] = Single(cmd.k, p[cmd.id])
                /\ \A id \in Ids : id # cmd.id => Effect(p, cmd)[id] = p[id]
           /\ cmd.k # "reset" /\ Single(cmd.k, p[cmd.id]) = p[cmd.id] => Effect(p, cmd) = p
<1>1. cmd.id \in Ids /\ p[cmd.id] \in Statement BY DEF Command
<1>2. PICK a : a = p[cmd.id] OBVIOUS
<1>3. a \in Statement BY <1>1, <1>2
<1>4. /\ [a EXCEPT !.long = a.long + 1] \in Statement /\ [a EXCEPT !.long = 0] \in Statement
      /\ NoStatement \in Statement
  BY <1>3, StatementFacts, Zenon
<1>5. ASSUME NEW y \in Statement, Effect(p, cmd) = [p EXCEPT ![cmd.id] = y],
             cmd.k # "reset", Single(cmd.k, a) = y
      PROVE  /\ Effect(p, cmd) \in [Ids -> Statement]
             /\ Effect(p, cmd)[cmd.id] = Single(cmd.k, p[cmd.id])
             /\ \A id \in Ids : id # cmd.id => Effect(p, cmd)[id] = p[id]
             /\ Single(cmd.k, p[cmd.id]) = p[cmd.id] => Effect(p, cmd) = p
  <2>1. LET g == [p EXCEPT ![cmd.id] = y]
        IN  /\ g \in [Ids -> Statement] /\ g[cmd.id] = y
            /\ \A z \in Ids : z # cmd.id => g[z] = p[z]
    BY <1>1, Replaced
  <2>2. y = p[cmd.id] => [p EXCEPT ![cmd.id] = y] = p OBVIOUS
  <2> QED BY <1>2, <1>5, <2>1, <2>2, Zenon
<1>6. CASE cmd.k = "long" /\ a # NoStatement
  <2>1. Effect(p, cmd) = [p EXCEPT ![cmd.id] = [a EXCEPT !.long = a.long + 1]]
    BY <1>2, <1>6 DEF Effect
  <2>2. Single(cmd.k, a) = [a EXCEPT !.long = a.long + 1] BY <1>6 DEF Single
  <2>3. cmd.k # "reset" BY <1>6
  <2> QED BY <1>4, <1>5, <2>1, <2>2, <2>3, Zenon
<1>7. CASE cmd.k \in {"execute", "restart"}
  <2>1. Effect(p, cmd) = [p EXCEPT ![cmd.id] = [a EXCEPT !.long = 0]]
    BY <1>2, <1>7 DEF Effect
  <2>2. Single(cmd.k, a) = [a EXCEPT !.long = 0] BY <1>7 DEF Single
  <2>3. cmd.k # "reset" BY <1>7
  <2> QED BY <1>4, <1>5, <2>1, <2>2, <2>3, Zenon
<1>8. CASE cmd.k = "close"
  <2>1. Effect(p, cmd) = [p EXCEPT ![cmd.id] = NoStatement] BY <1>8 DEF Effect
  <2>2. Single(cmd.k, a) = NoStatement BY <1>8 DEF Single
  <2>3. cmd.k # "reset" BY <1>8
  <2> QED BY <1>4, <1>5, <2>1, <2>2, <2>3, Zenon
<1>9. CASE cmd.k = "reset"
  <2>1. Effect(p, cmd) = [id \in Ids |-> NoStatement] BY <1>9 DEF Effect
  <2> QED BY <1>4, <1>9, <2>1
<1>10. CASE /\ cmd.k \notin {"execute", "restart", "close", "reset"}
            /\ ~(cmd.k = "long" /\ a # NoStatement)
  <2>1. Effect(p, cmd) = p BY <1>2, <1>10 DEF Effect
  <2>2. Single(cmd.k, a) = a BY <1>10 DEF Single
  <2> QED BY <1>2, <1>10, <2>1, <2>2
<1> QED BY <1>6, <1>7, <1>8, <1>9, <1>10

(* parseCommand does the same, but for a reset of the connection. *)
LEMMA ParsedIs ==
    ASSUME NEW cmd \in Command, statements \in [Ids -> Statement]
    PROVE  /\ cmd.k # "reset" => Parsed(cmd) = Effect(statements, cmd)
           /\ cmd.k = "reset" => Parsed(cmd) = statements
           /\ Parsed(cmd) \in [Ids -> Statement]
<1>0. Effect(statements, cmd) \in [Ids -> Statement] BY EffectIs
<1>1. CASE cmd.k = "long" /\ statements[cmd.id] # NoStatement
  <2>1. Parsed(cmd) = [statements EXCEPT ![cmd.id].long = @ + 1]
    BY <1>1, Zenon DEF Parsed
  <2>2. Effect(statements, cmd) = [statements EXCEPT ![cmd.id].long = @ + 1]
    BY <1>1 DEF Effect
  <2>3. cmd.k # "reset" BY <1>1
  <2> QED BY <1>0, <2>1, <2>2, <2>3, Zenon
<1>2. CASE cmd.k \in {"execute", "restart"}
  <2>0. cmd.k # "long" BY <1>2
  <2>1. Parsed(cmd) = [statements EXCEPT ![cmd.id].long = 0]
    BY <1>2, <2>0, Zenon DEF Parsed
  <2>2. Effect(statements, cmd) = [statements EXCEPT ![cmd.id].long = 0]
    BY <1>2 DEF Effect
  <2>3. cmd.k # "reset" BY <1>2
  <2> QED BY <1>0, <2>1, <2>2, <2>3, Zenon
<1>3. CASE cmd.k = "close"
  <2>0. cmd.k # "long" /\ cmd.k \notin {"execute", "restart"} BY <1>3
  <2>1. Parsed(cmd) = [statements EXCEPT ![cmd.id] = NoStatement]
    BY <1>3, <2>0, Zenon DEF Parsed
  <2>2. Effect(statements, cmd) = [statements EXCEPT ![cmd.id] = NoStatement]
    BY <1>3 DEF Effect
  <2>3. cmd.k # "reset" BY <1>3
  <2> QED BY <1>0, <2>1, <2>2, <2>3, Zenon
<1>4. CASE /\ cmd.k \notin {"execute", "restart", "close"}
           /\ ~(cmd.k = "long" /\ statements[cmd.id] # NoStatement)
  <2>0. cmd.k # "close" BY <1>4
  <2>1. Parsed(cmd) = statements BY <1>4, <2>0, Zenon DEF Parsed
  <2>2. cmd.k # "reset" => Effect(statements, cmd) = statements BY <1>4 DEF Effect
  <2> QED BY <2>1, <2>2
<1> QED BY <1>1, <1>2, <1>3, <1>4

(* Where they agreed before a command, they agree after it. *)
LEMMA AgreeAfter ==
    ASSUME NEW cmd \in Command, statements \in [Ids -> Statement],
           NEW p \in [Ids -> Statement], Agree(p, statements)
    PROVE  Agree(Effect(p, cmd), Parsed(cmd))
<1> SUFFICES ASSUME NEW id \in Ids, Effect(p, cmd)[id] # NoStatement
             PROVE  Parsed(cmd)[id] = Effect(p, cmd)[id]
  BY DEF Agree
<1>1. cmd.k # "reset" BY EffectIs
<1>2. Parsed(cmd) = Effect(statements, cmd) BY <1>1, ParsedIs
<1>3. cmd.id \in Ids BY DEF Command
<1>4. /\ Effect(p, cmd)[cmd.id] = Single(cmd.k, p[cmd.id])
      /\ \A i \in Ids : i # cmd.id => Effect(p, cmd)[i] = p[i]
  BY <1>1, EffectIs
<1>5. /\ Effect(statements, cmd)[cmd.id] = Single(cmd.k, statements[cmd.id])
      /\ \A i \in Ids : i # cmd.id => Effect(statements, cmd)[i] = statements[i]
  BY <1>1, EffectIs
<1>6. CASE id # cmd.id
  <2>1. p[id] # NoStatement BY <1>4, <1>6
  <2>2. statements[id] = p[id] BY <2>1 DEF Agree
  <2> QED BY <1>2, <1>4, <1>5, <1>6, <2>2
<1>7. CASE id = cmd.id
  <2>1. Single(cmd.k, NoStatement) = NoStatement
    BY StatementFacts DEF Single
  <2>2. p[cmd.id] # NoStatement BY <1>4, <1>7, <2>1
  <2>3. statements[cmd.id] = p[cmd.id] BY <1>3, <2>2 DEF Agree
  <2> QED BY <1>2, <1>4, <1>5, <1>7, <2>3
<1> QED BY <1>6, <1>7

-----------------------------------------------------------------------------
(* No command waits. *)
LEMMA CourseNone ==
    ASSUME NEW cmds, NEW p \in [Ids -> Statement]
    PROVE  \E g : Course(cmds, <<>>, p, g) /\ g[Len(<<>>) + 1] = p
<1> DEFINE g == [i \in 1..1 |-> p]
<1>1. Len(<<>>) = 0 /\ 0 + 1 = 1 /\ \A i \in 1..0 : FALSE OBVIOUS
<1>2. g[1] = p /\ \A i \in 1..1 : g[i] = p OBVIOUS
<1> HIDE DEF g
<1>3. Course(cmds, <<>>, p, g) BY <1>1, <1>2 DEF Course
<1> QED BY <1>1, <1>2, <1>3

(* One command more waits. *)
LEMMA CourseAppend ==
    ASSUME NEW cmds, NEW S, NEW queue \in Seq(S), NEW n \in S, NEW p, NEW g,
           Course(cmds, queue, p, g), cmds[n] \in Command
    PROVE  \E h : /\ Course(cmds, Append(queue, n), p, h)
                  /\ h[Len(Append(queue, n))] = g[Len(queue) + 1]
                  /\ h[Len(Append(queue, n)) + 1] = Effect(g[Len(queue) + 1], cmds[n])
<1> DEFINE q == Append(queue, n)
           l == Len(queue)
           x == Effect(g[l + 1], cmds[n])
           h == [i \in 1..l + 2 |-> IF i = l + 2 THEN x ELSE g[i]]
<1>1. /\ Len(q) = l + 1 /\ l \in Nat /\ q[l + 1] = n
      /\ \A i \in 1..l : q[i] = queue[i]
  OBVIOUS
<1>2. /\ g[1] = p /\ \A i \in 1..l + 1 : g[i] \in [Ids -> Statement]
      /\ \A i \in 1..l : g[i + 1] = Effect(g[i], cmds[queue[i]])
  BY DEF Course
<1>3. h[l + 2] = x /\ \A i \in 1..l + 1 : h[i] = g[i] BY <1>1
<1>4. x \in [Ids -> Statement]
  <2>1. g[l + 1] \in [Ids -> Statement] BY <1>1, <1>2
  <2> QED BY <2>1, EffectIs
<1> HIDE DEF q, l, h, x
<1>5. 1 \in 1..l + 1 /\ Len(q) + 1 = l + 2 BY <1>1
<1>6. h[1] = p BY <1>2, <1>3, <1>5
<1>7. ASSUME NEW i \in 1..Len(q) + 1 PROVE h[i] \in [Ids -> Statement]
  <2>1. i = l + 2 \/ i \in 1..l + 1 BY <1>1, <1>5
  <2> QED BY <1>2, <1>3, <1>4, <2>1
<1>8. ASSUME NEW i \in 1..Len(q) PROVE h[i + 1] = Effect(h[i], cmds[q[i]])
  <2>1. CASE i = l + 1
    <3>1. i + 1 = l + 2 /\ i \in 1..l + 1 BY <1>1, <2>1
    <3>2. h[i + 1] = x /\ h[i] = g[l + 1] /\ q[i] = n BY <1>1, <1>3, <2>1, <3>1
    <3> QED BY <3>2 DEF x, l
  <2>2. CASE i # l + 1
    <3>1. i \in 1..l /\ i + 1 \in 1..l + 1 /\ i \in 1..l + 1 BY <1>1, <2>2
    <3>2. h[i + 1] = g[i + 1] /\ h[i] = g[i] /\ q[i] = queue[i] BY <1>1, <1>3, <3>1
    <3>3. g[i + 1] = Effect(g[i], cmds[queue[i]]) BY <1>2, <3>1
    <3> QED BY <3>2, <3>3
  <2> QED BY <2>1, <2>2
<1>9. Course(cmds, q, p, h) BY <1>6, <1>7, <1>8, Zenon DEF Course
<1>10. l + 1 \in 1..l + 1 BY <1>1
<1>11. h[Len(q)] = g[l + 1] /\ h[Len(q) + 1] = x BY <1>1, <1>3, <1>5, <1>10
<1> QED BY <1>9, <1>11 DEF q, l, x

(* The first command is done. *)
LEMMA CourseTail ==
    ASSUME NEW cmds, NEW S, NEW queue \in Seq(S), queue # <<>>, NEW p, NEW g,
           Course(cmds, queue, p, g)
    PROVE  \E h : /\ Course(cmds, Tail(queue), Effect(p, cmds[queue[1]]), h)
                  /\ h[Len(Tail(queue)) + 1] = g[Len(queue) + 1]
                  /\ Tail(queue) # <<>> => h[Len(Tail(queue))] = g[Len(queue)]
<1> DEFINE q == Tail(queue)
           l == Len(queue)
           h == [i \in 1..l |-> g[i + 1]]
<1>1. /\ Len(q) = l - 1 /\ l \in Nat /\ l > 0 /\ q \in Seq(S)
      /\ \A i \in 1..Len(q) : q[i] = queue[i + 1]
  OBVIOUS
<1>2. /\ g[1] = p /\ \A i \in 1..l + 1 : g[i] \in [Ids -> Statement]
      /\ \A i \in 1..l : g[i + 1] = Effect(g[i], cmds[queue[i]])
  BY DEF Course
<1>3. \A i \in 1..l : h[i] = g[i + 1] OBVIOUS
<1>0. q # <<>> => Len(q) > 0 BY <1>1
<1> HIDE DEF q, l, h
<1>4. 1 \in 1..l /\ Len(q) + 1 = l BY <1>1
<1>5. h[1] = Effect(p, cmds[queue[1]])
  <2>1. h[1] = g[1 + 1] /\ g[1 + 1] = Effect(g[1], cmds[queue[1]])
    BY <1>2, <1>3, <1>4, Zenon
  <2> QED BY <1>2, <2>1, Zenon
<1>6. ASSUME NEW i \in 1..Len(q) + 1 PROVE h[i] \in [Ids -> Statement]
  <2>1. i \in 1..l /\ i + 1 \in 1..l + 1 BY <1>1, <1>4
  <2> QED BY <1>2, <1>3, <2>1
<1>7. ASSUME NEW i \in 1..Len(q) PROVE h[i + 1] = Effect(h[i], cmds[q[i]])
  <2>1. i \in 1..l /\ i + 1 \in 1..l BY <1>1, <1>4
  <2>2. h[i + 1] = g[(i + 1) + 1] /\ h[i] = g[i + 1] /\ q[i] = queue[i + 1]
    BY <1>1, <1>3, <2>1, Zenon
  <2>3. g[(i + 1) + 1] = Effect(g[i + 1], cmds[queue[i + 1]]) BY <1>2, <2>1, Zenon
  <2> QED BY <2>2, <2>3, Zenon
<1>8. Course(cmds, q, Effect(p, cmds[queue[1]]), h) BY <1>5, <1>6, <1>7, Zenon DEF Course
<1>9. h[Len(q) + 1] = g[l + 1]
  <2>1. l \in 1..l BY <1>1
  <2> QED BY <1>3, <1>4, <2>1
<1>10. q # <<>> => h[Len(q)] = g[l]
  <2> SUFFICES ASSUME q # <<>> PROVE h[Len(q)] = g[l] OBVIOUS
  <2>1. Len(q) \in 1..l /\ Len(q) + 1 = l BY <1>0, <1>1
  <2>2. h[Len(q)] = g[Len(q) + 1] BY <1>3, <2>1
  <2> QED BY <2>1, <2>2
<1> QED BY <1>8, <1>9, <1>10 DEF q, l

(* The server's own effect of a command. *)
LEMMA PreparedAfterIs ==
    ASSUME NEW cmd \in Command, NEW answer, prepared \in [Ids -> Statement],
           cmd.k = "prepare" => answer[1].t # "prepared"
    PROVE  PreparedAfter(cmd, answer) = Effect(prepared, cmd)
<1>0. ~(cmd.k = "prepare" /\ answer[1].t = "prepared") OBVIOUS
<1>1. CASE cmd.k = "long" /\ prepared[cmd.id] # NoStatement
  <2>0. Known(cmd) BY <1>1 DEF Known
  <2>1. PreparedAfter(cmd, answer) = [prepared EXCEPT ![cmd.id].long = @ + 1]
    BY <1>0, <1>1, <2>0, Zenon DEF PreparedAfter
  <2>2. Effect(prepared, cmd) = [prepared EXCEPT ![cmd.id].long = @ + 1]
    BY <1>1 DEF Effect
  <2> QED BY <2>1, <2>2, Zenon
<1>2. CASE cmd.k \in {"execute", "restart"}
  <2>0. cmd.k # "long" BY <1>2
  <2>1. PreparedAfter(cmd, answer) = [prepared EXCEPT ![cmd.id].long = 0]
    BY <1>0, <1>2, <2>0, Zenon DEF PreparedAfter
  <2>2. Effect(prepared, cmd) = [prepared EXCEPT ![cmd.id].long = 0]
    BY <1>2 DEF Effect
  <2> QED BY <2>1, <2>2, Zenon
<1>3. CASE cmd.k = "close"
  <2>0. cmd.k # "long" /\ cmd.k \notin {"execute", "restart"} BY <1>3
  <2>1. PreparedAfter(cmd, answer) = [prepared EXCEPT ![cmd.id] = NoStatement]
    BY <1>0, <1>3, <2>0, Zenon DEF PreparedAfter
  <2>2. Effect(prepared, cmd) = [prepared EXCEPT ![cmd.id] = NoStatement]
    BY <1>3 DEF Effect
  <2> QED BY <2>1, <2>2, Zenon
<1>4. CASE cmd.k = "reset"
  <2>0. cmd.k # "long" /\ cmd.k \notin {"execute", "restart"} /\ cmd.k # "close" BY <1>4
  <2>1. PreparedAfter(cmd, answer) = [id \in Ids |-> NoStatement]
    BY <1>0, <1>4, <2>0, Zenon DEF PreparedAfter
  <2>2. Effect(prepared, cmd) = [id \in Ids |-> NoStatement] BY <1>4 DEF Effect
  <2> QED BY <2>1, <2>2, Zenon
<1>5. CASE /\ cmd.k \notin {"execute", "restart", "close", "reset"}
           /\ ~(cmd.k = "long" /\ prepared[cmd.id] # NoStatement)
  <2>0. /\ ~(cmd.k = "long" /\ Known(cmd)) /\ cmd.k \notin {"execute", "restart"}
        /\ cmd.k # "close" /\ cmd.k # "reset"
    BY <1>5 DEF Known
  <2>1. PreparedAfter(cmd, answer) = prepared BY <1>0, <2>0, Zenon DEF PreparedAfter
  <2>2. Effect(prepared, cmd) = prepared BY <1>5 DEF Effect
  <2> QED BY <2>1, <2>2, Zenon
<1> QED BY <1>1, <1>2, <1>3, <1>4, <1>5

(* A new statement. *)
LEMMA PreparedNew ==
    ASSUME NEW cmd \in Command, NEW answer, cmd.k = "prepare", answer[1].t = "prepared",
           answer[1].id \in Ids, prepared \in [Ids -> Statement]
    PROVE  LET p == PreparedAfter(cmd, answer)
               id == answer[1].id
           IN  /\ p \in [Ids -> Statement] /\ p[id] = [q |-> cmd.q, long |-> 0]
               /\ \A i \in Ids : i # id => p[i] = prepared[i]
<1> DEFINE id == answer[1].id
           a == [NoStatement EXCEPT !.q = cmd.q]
<1>1. PreparedAfter(cmd, answer) = [prepared EXCEPT ![id] = a]
  BY Zenon DEF PreparedAfter
<1>2. cmd.q \in Nat BY DEF Command
<1>3. a \in Statement /\ a.q = cmd.q /\ a.long = 0 BY <1>2, StatementFacts, Zenon
<1>4. PICK b : b = [q |-> cmd.q, long |-> 0] OBVIOUS
<1>5. b \in Statement /\ b.q = cmd.q /\ b.long = 0 BY <1>2, <1>4 DEF Statement
<1> HIDE DEF a, id
<1>6. a = b BY <1>3, <1>5, StatementEqual
<1>7. id \in Ids BY DEF id
<1>8. LET g == [prepared EXCEPT ![id] = a]
      IN  /\ g \in [Ids -> Statement] /\ g[id] = a
          /\ \A z \in Ids : z # id => g[z] = prepared[z]
  BY <1>3, <1>7, Replaced
<1> QED BY <1>1, <1>4, <1>6, <1>8, Zenon DEF id

-----------------------------------------------------------------------------
(* One element more. *)
LEMMA Appended ==
    ASSUME NEW S, NEW s \in Seq(S), NEW x \in S
    PROVE  /\ Append(s, x) \in Seq(S) /\ Len(Append(s, x)) = Len(s) + 1 /\ Len(s) \in Nat
           /\ \A i \in 1..Len(Append(s, x)) :
                 \/ i \in 1..Len(s) /\ Append(s, x)[i] = s[i]
                 \/ i = Len(s) + 1 /\ Append(s, x)[i] = x
OBVIOUS

(* A record stays honest when commands are read and answered after it. *)
LEMMA HonestKept ==
    ASSUME NEW r, NEW cmds, NEW n \in Nat, NEW m \in Nat, n <= m, NEW queue, NEW later,
           NEW deeds, NEW done, Honest(r, cmds, n, queue, deeds),
           \A i \in 1..Len(later) : later[i] > n \/ \E j \in 1..Len(queue) : later[i] = queue[j],
           \A x \in 1..n : (\A j \in 1..Len(queue) : queue[j] # x) => done[x] = deeds[x]
    PROVE  Honest(r, cmds, m, later, done)
<1> SUFFICES ASSUME r.what = "command", cmds[r.n].k \notin Silent \cup Intercepted
             PROVE  /\ r.n \in 1..m /\ \A i \in 1..Len(later) : later[i] # r.n
                    /\ r.ok = done[r.n].ok
                    /\ r.ok => r.rows = done[r.n].rows
                    /\ r.ok /\ cmds[r.n].k = "execute" => r.statement = done[r.n].statement
  BY Zenon DEF Honest
<1>1. /\ r.n \in 1..n /\ \A i \in 1..Len(queue) : queue[i] # r.n
      /\ r.ok = deeds[r.n].ok
      /\ r.ok => r.rows = deeds[r.n].rows
      /\ r.ok /\ cmds[r.n].k = "execute" => r.statement = deeds[r.n].statement
  BY Zenon DEF Honest
<1>2. done[r.n] = deeds[r.n] BY <1>1
<1>3. r.n \in 1..m BY <1>1
<1>4. ASSUME NEW i \in 1..Len(later) PROVE later[i] # r.n BY <1>1
<1> QED BY <1>1, <1>2, <1>3, <1>4, Zenon

(* A record of something else says nothing of a reply. *)
LEMMA HonestOther ==
    ASSUME NEW r, NEW cmds, NEW n, NEW queue, NEW deeds,
           r.what # "command" \/ cmds[r.n].k \in Silent \cup Intercepted
    PROVE  Honest(r, cmds, n, queue, deeds)
BY DEF Honest

(* The parts of a record. *)
LEMMA RecordIs ==
    ASSUME NEW what \in {"connect", "command", "protocol"}, NEW n \in Nat, NEW ok \in BOOLEAN,
           NEW rows \in Int, NEW a \in Statement
    PROVE  LET r == Record(what, n, ok, rows, a)
           IN  /\ r \in RecordState /\ r.what = what /\ r.n = n /\ r.ok = ok /\ r.rows = rows
               /\ r.statement = a
BY DEF Record, RecordState

(* A record that is added for what is not a reply. *)
LEMMA AddedIs ==
    ASSUME SessionInv, NEW what \in {"connect", "protocol"}, NEW ok \in BOOLEAN
    PROVE  /\ Added(what, ok) \in Seq(RecordState) /\ Len(Added(what, ok)) = Len(records) + 1
           /\ \A i \in 1..Len(Added(what, ok)) :
                 Honest(Added(what, ok)[i], script, read, toServer, truth)
<1>1. /\ read \in Nat /\ records \in Seq(RecordState)
      /\ \A i \in 1..Len(records) : Honest(records[i], script, read, toServer, truth)
  BY DEF SessionInv, CredentialsInv, TypeInv, ReplyTypes, RecordInv
<1>2. PICK r : r = Record(what, read, ok, 0, NoStatement) OBVIOUS
<1>3. r \in RecordState /\ r.what = what
  <2>1. what \in {"connect", "command", "protocol"} /\ 0 \in Int OBVIOUS
  <2>2. NoStatement \in Statement BY StatementFacts
  <2> QED BY <1>1, <1>2, <2>1, <2>2, RecordIs
<1>4. PICK s : s = Append(records, r) OBVIOUS
<1>5. Added(what, ok) = s BY <1>2, <1>4, Zenon DEF Added
<1>6. /\ s \in Seq(RecordState) /\ Len(s) = Len(records) + 1
      /\ \A i \in 1..Len(s) : \/ i \in 1..Len(records) /\ s[i] = records[i]
                              \/ i = Len(records) + 1 /\ s[i] = r
  BY <1>1, <1>3, <1>4, Appended
<1>7. Honest(r, script, read, toServer, truth)
  <2>1. r.what # "command" BY <1>3
  <2> QED BY <2>1, HonestOther
<1>8. \A i \in 1..Len(s) : Honest(s[i], script, read, toServer, truth)
  BY <1>1, <1>6, <1>7, Zenon
<1> QED BY <1>5, <1>6, <1>8, Zenon

-----------------------------------------------------------------------------
(* A step of the login. *)
HandshakeMove ==
    /\ UNCHANGED <<config, read, statements, reply, toServer, fromServer, server>>
    /\ pc \in Before \cup Authenticating
    /\ \/ pc' \in Before \cup Authenticating /\ records' = records
       \/ pc' = "closed" /\ records' \in {records, Added("connect", FALSE)}
       \/ pc' = "command" /\ records' = Added("connect", TRUE)
    /\ ~mismatch' /\ sequence' \in Nat /\ exchange' \in Nat
    /\ pc' \in Before \cup Authenticating => sequence' = exchange' % SequenceMod

(* Both sides count on. *)
LEMMA CountedOn ==
    ASSUME exchange \in Nat, sequence = exchange % SequenceMod, NEW c \in Nat
    PROVE  /\ Plus(sequence, c) = (exchange + c) % SequenceMod /\ Plus(sequence, c) \in Nat
           /\ exchange + c \in Nat
<1>1. Plus(exchange % SequenceMod, c) = (exchange + c) % SequenceMod BY PlusSteps
<1>2. (exchange + c) % SequenceMod \in Nat
  <2>1. Plus(exchange, c) \in Nat BY PlusSteps
  <2> QED BY <2>1 DEF Plus
<1> QED BY <1>1, <1>2

(* What every action of the login does. *)
LEMMA HandshakeMoves ==
    ASSUME SessionInv, Handshake PROVE HandshakeMove
<1>1. exchange \in Nat /\ sequence \in Nat /\ ~mismatch BY DEF SessionInv, ReplyTypes
<1>2. pc \in Before \cup Authenticating => sequence = exchange % SequenceMod
  BY DEF SessionInv, CountedInv
<1> USE DEF HandshakeMove, Rest, Later, config, server, login, Before, Authenticating
<1>3. CASE OpenUpstream BY <1>1, <1>2, <1>3 DEF OpenUpstream
<1>4. CASE OpenFails BY <1>1, <1>2, <1>4 DEF OpenFails
<1>5. CASE Hello BY <1>1, <1>2, <1>5 DEF Hello
<1>6. CASE Switch BY <1>1, <1>2, <1>6 DEF Switch
<1>7. CASE Login BY <1>1, <1>2, <1>7 DEF Login
<1>8. CASE Refuse BY <1>1, <1>2, <1>8 DEF Refuse
<1>9. CASE LoginFails BY <1>1, <1>2, <1>9 DEF LoginFails
<1>10. CASE AuthStart BY <1>1, <1>2, <1>10 DEF AuthStart
<1>11. CASE AuthRespond
  <2>1. PICK c \in Nat : c = 1 + (IF usingTLS THEN 1 ELSE 0)
    <3>1. 1 + (IF usingTLS THEN 1 ELSE 0) \in Nat OBVIOUS
    <3> QED BY <3>1
  <2>2. pc = "response" BY <1>11 DEF AuthRespond
  <2>3. /\ Plus(sequence, c) = (exchange + c) % SequenceMod /\ Plus(sequence, c) \in Nat
        /\ exchange + c \in Nat
    BY <1>1, <1>2, <2>2, CountedOn
  <2>4. sequence' = Plus(sequence, c) BY <1>11, <2>1 DEF AuthRespond, Send
  <2>5. exchange' = exchange + c BY <1>1, <1>11, <2>1 DEF AuthRespond, Send
  <2> QED BY <1>1, <1>11, <2>3, <2>4, <2>5 DEF AuthRespond
<1>12. CASE AuthFails
  <2>1. ~AuthMismatch BY <1>2 DEF AuthMismatch
  <2> QED BY <1>1, <1>2, <1>12, <2>1 DEF AuthFails
<1>13. CASE AuthSwitch
  <2>1. pc = "answer" /\ sequence' = Plus(sequence, 2) /\ exchange' = exchange + 2
    BY <1>1, <1>13 DEF AuthSwitch, Send
  <2>2. /\ Plus(sequence, 2) = (exchange + 2) % SequenceMod /\ Plus(sequence, 2) \in Nat
        /\ exchange + 2 \in Nat
    BY <1>1, <1>2, <2>1, CountedOn
  <2> QED BY <1>1, <1>13, <2>1, <2>2 DEF AuthSwitch
<1>14. CASE AuthFast
  <2>1. pc = "answer" /\ sequence' = Plus(sequence, 1) /\ exchange' = exchange + 1
    BY <1>1, <1>14 DEF AuthFast
  <2>2. /\ Plus(sequence, 1) = (exchange + 1) % SequenceMod /\ Plus(sequence, 1) \in Nat
        /\ exchange + 1 \in Nat
    BY <1>1, <1>2, <2>1, CountedOn
  <2> QED BY <1>1, <1>14, <2>1, <2>2 DEF AuthFast
<1>15. CASE AuthFull
  <2>1. pc = "answer" /\ sequence' = Plus(sequence, 2) /\ exchange' = exchange + 2
    BY <1>1, <1>15 DEF AuthFull, Send
  <2>2. /\ Plus(sequence, 2) = (exchange + 2) % SequenceMod /\ Plus(sequence, 2) \in Nat
        /\ exchange + 2 \in Nat
    BY <1>1, <1>2, <2>1, CountedOn
  <2> QED BY <1>1, <1>15, <2>1, <2>2 DEF AuthFull
<1>16. CASE AuthKey
  <2>1. sequence' = Plus(sequence, 2) /\ exchange' = exchange + 2 /\ pc \in {"key", "answer"}
    BY <1>1, <1>16 DEF AuthKey, Send
  <2>2. /\ Plus(sequence, 2) = (exchange + 2) % SequenceMod /\ Plus(sequence, 2) \in Nat
        /\ exchange + 2 \in Nat
    BY <1>1, <1>2, <2>1, CountedOn
  <2> QED BY <1>1, <1>16, <2>1, <2>2 DEF AuthKey
<1>17. CASE AuthOK BY <1>1, <1>2, <1>17 DEF AuthOK
<1>18. CASE OKFails BY <1>1, <1>2, <1>18 DEF OKFails
<1> QED
  BY <1>3, <1>4, <1>5, <1>6, <1>7, <1>8, <1>9, <1>10, <1>11, <1>12, <1>13, <1>14, <1>15,
     <1>16, <1>17, <1>18 DEF Handshake, Authenticate

(* The rest of the invariant: everything but the credentials. *)
ReplyPart ==
    /\ ReplyTypes /\ CountedInv /\ StartedInv /\ QueueInv /\ ReplyInv /\ RecordInv
    /\ ~mismatch

(* The login does not begin the command phase too early. *)
LEMMA HandshakeKeeps ==
    ASSUME SessionInv, HandshakeMove PROVE ReplyPart'
<1>0. /\ script' = script /\ eof' = eof /\ read' = read /\ statements' = statements
      /\ reply' = reply /\ toServer' = toServer /\ fromServer' = fromServer
      /\ prepared' = prepared /\ truth' = truth
  BY DEF HandshakeMove, config, server
<1>1. /\ pc \in Before \cup Authenticating /\ read = 0 /\ records = <<>>
      /\ fromServer = <<>> /\ statements = [id \in Ids |-> NoStatement]
      /\ prepared = [id \in Ids |-> NoStatement] /\ toServer = <<>>
  BY DEF HandshakeMove, SessionInv, StartedInv, CredentialsInv, OrderInv
<1>2. /\ records' \in Seq(RecordState)
      /\ \A i \in 1..Len(records') : Honest(records'[i], script, read, toServer, truth)
      /\ pc' = "command" => Len(records') = 1
  <2>1. CASE records' = records
    <3>1. pc' # "command"
      <4>1. Len(records) = 0 BY <1>1
      <4>2. pc' = "command" => Len(records') = Len(records) + 1
        BY AddedIs DEF HandshakeMove, Before, Authenticating
      <4> QED BY <2>1, <4>1, <4>2
    <3> QED BY <2>1, <3>1 DEF SessionInv, ReplyTypes, RecordInv
  <2>2. CASE records' = Added("connect", FALSE)
    <3>2. Len(records) = 0 BY <1>1
    <3>3. /\ records' \in Seq(RecordState) /\ Len(records') = Len(records) + 1
          /\ \A i \in 1..Len(records') : Honest(records'[i], script, read, toServer, truth)
      <4>1. PICK t \in BOOLEAN : t = FALSE OBVIOUS
      <4>2. records' = Added("connect", t) BY <2>2, <4>1
      <4>3. PICK s : s = records' OBVIOUS
      <4>4. /\ s \in Seq(RecordState) /\ Len(s) = Len(records) + 1
            /\ \A i \in 1..Len(s) : Honest(s[i], script, read, toServer, truth)
        BY <4>2, <4>3, AddedIs
      <4> QED BY <4>3, <4>4
    <3>4. Len(records') = 1 BY <3>2, <3>3
    <3> QED BY <3>3, <3>4
  <2>3. CASE records' = Added("connect", TRUE)
    <3>2. Len(records) = 0 BY <1>1
    <3>3. /\ records' \in Seq(RecordState) /\ Len(records') = Len(records) + 1
          /\ \A i \in 1..Len(records') : Honest(records'[i], script, read, toServer, truth)
      <4>1. PICK t \in BOOLEAN : t = TRUE OBVIOUS
      <4>2. records' = Added("connect", t) BY <2>3, <4>1
      <4>3. PICK s : s = records' OBVIOUS
      <4>4. /\ s \in Seq(RecordState) /\ Len(s) = Len(records) + 1
            /\ \A i \in 1..Len(s) : Honest(s[i], script, read, toServer, truth)
        BY <4>2, <4>3, AddedIs
      <4> QED BY <4>3, <4>4
    <3>4. Len(records') = 1 BY <3>2, <3>3
    <3> QED BY <3>3, <3>4
  <2> QED BY <2>1, <2>2, <2>3 DEF HandshakeMove
<1>3. pc' # "reply" BY DEF HandshakeMove, Before, Authenticating
<1>4. ReplyTypes' BY <1>0, <1>2 DEF HandshakeMove, SessionInv, ReplyTypes
<1>5. CountedInv' BY DEF HandshakeMove, CountedInv
<1>6. StartedInv'
  <2>1. pc' \in Before \cup Authenticating => records' = records
    BY DEF HandshakeMove, Before, Authenticating
  <2> QED BY <1>0, <1>1, <2>1 DEF StartedInv
<1>7. QueueInv'
  <2>1. Len(<<>>) = 0 /\ \A i \in 1..0 : FALSE OBVIOUS
  <2> QED BY <1>0, <1>1, <1>3, <2>1 DEF QueueInv
<1>8. ReplyInv'
  <2>1. prepared \in [Ids -> Statement] BY DEF SessionInv, ReplyTypes
  <2>2. PICK g : Course(script, <<>>, prepared, g) /\ g[Len(<<>>) + 1] = prepared
    BY <2>1, CourseNone
  <2>3. Agree(prepared, statements) BY <1>1 DEF Agree
  <2>4. Agree(g[Len(<<>>) + 1], statements) BY <2>2, <2>3
  <2> QED BY <1>0, <1>1, <1>3, <2>2, <2>4 DEF ReplyInv
<1>9. RecordInv'
  <2>1. read + 1 = 1 BY <1>1
  <2> QED BY <1>0, <1>2, <1>3, <2>1 DEF RecordInv
<1> QED BY <1>4, <1>5, <1>6, <1>7, <1>8, <1>9 DEF ReplyPart, HandshakeMove

-----------------------------------------------------------------------------
(* What changes nothing of the session. *)
LEMMA SameSession ==
    ASSUME SessionInv,
           UNCHANGED <<script, eof, pc, sequence, exchange, read, statements, reply, toServer,
                       fromServer, prepared, truth, records, mismatch>>
    PROVE  ReplyPart'
<1>1. ReplyTypes' BY DEF SessionInv, ReplyTypes
<1>2. CountedInv' BY DEF SessionInv, CountedInv
<1>3. StartedInv' BY DEF SessionInv, StartedInv
<1>4. QueueInv' BY DEF SessionInv, QueueInv, Answered, Kind
<1>5. ReplyInv'
  BY DEF SessionInv, ReplyInv, Asking, Hearing, Right, View, FirstStage, NextSequence, Kind
<1>6. RecordInv' BY DEF SessionInv, RecordInv
<1> QED BY <1>1, <1>2, <1>3, <1>4, <1>5, <1>6 DEF ReplyPart, SessionInv

(* The session is over. *)
LEMMA CloseKeeps ==
    ASSUME SessionInv, pc' = "closed", ~mismatch',
           records' = records \/ records' = Added("protocol", FALSE),
           UNCHANGED <<script, eof, sequence, exchange, read, statements, reply, toServer,
                       fromServer, prepared, truth>>
    PROVE  ReplyPart'
<1>1. /\ records' \in Seq(RecordState)
      /\ \A i \in 1..Len(records') : Honest(records'[i], script, read, toServer, truth)
  <2>1. CASE records' = records BY <2>1 DEF SessionInv, ReplyTypes, RecordInv
  <2>2. CASE records' = Added("protocol", FALSE)
    <3>1. PICK t \in BOOLEAN : t = FALSE OBVIOUS
    <3>2. PICK s : s = Added("protocol", t) OBVIOUS
    <3>3. /\ s \in Seq(RecordState) /\ Len(s) = Len(records) + 1
          /\ \A i \in 1..Len(s) : Honest(s[i], script, read, toServer, truth)
      BY <3>2, AddedIs
    <3>4. records' = s BY <2>2, <3>1, <3>2
    <3> QED BY <3>3, <3>4
  <2> QED BY <2>1, <2>2
<1>2. ReplyTypes' BY <1>1 DEF SessionInv, ReplyTypes
<1>3. CountedInv' /\ StartedInv'
  BY DEF CountedInv, StartedInv, Before, Authenticating
<1>4. QueueInv' BY DEF SessionInv, QueueInv
<1>5. ReplyInv' BY DEF ReplyInv
<1>6. RecordInv' BY <1>1 DEF RecordInv
<1> QED BY <1>2, <1>3, <1>4, <1>5, <1>6 DEF ReplyPart

(* A command cannot be read. *)
LEMMA CommandFailsKeeps == ASSUME SessionInv, CommandFails PROVE ReplyPart'
<1>1. ~mismatch BY DEF SessionInv
<1>2. /\ pc' = "closed" /\ ~mismatch' /\ (records' = records \/ records' = Added("protocol", FALSE))
      /\ UNCHANGED <<script, eof, sequence, exchange, read, statements, reply, toServer,
                     fromServer, prepared, truth>>
  BY <1>1 DEF CommandFails, Loop, config, login
<1> QED BY <1>2, CloseKeeps

(* No packet of a reply has another number than the one expected. *)
LEMMA NoMismatch == ASSUME SessionInv, pc = "reply" PROVE ~ReplyMismatch
<1> SUFFICES ASSUME ReplyMismatch PROVE FALSE OBVIOUS
<1>1. fromServer # <<>> /\ Head(fromServer).seq # reply.next BY DEF ReplyMismatch
<1>2. toServer = <<>> BY <1>1 DEF SessionInv, ReplyInv, Asking
<1>3. Chained(fromServer, reply.next) BY <1>2 DEF SessionInv, ReplyInv
<1>4. fromServer \in Seq(Packets) BY DEF SessionInv, ReplyTypes
<1>5. Head(fromServer) = fromServer[1] BY <1>1, <1>4
<1> QED BY <1>1, <1>3, <1>5 DEF Chained

(* A reply is broken off. *)
LEMMA ReplyFailsKeeps == ASSUME SessionInv, ReplyFails PROVE ReplyPart'
<1>1. pc = "reply" BY DEF ReplyFails
<1>2. ~ReplyMismatch BY <1>1, NoMismatch
<1>3. /\ pc' = "closed" /\ ~mismatch' /\ (records' = records \/ records' = Added("protocol", FALSE))
      /\ UNCHANGED <<script, eof, sequence, exchange, read, statements, reply, toServer,
                     fromServer, prepared, truth>>
  BY <1>2 DEF ReplyFails, config, login, server
<1> QED BY <1>3, CloseKeeps

(* Cancellation leaves the session alone. *)
LEMMA CancelKeeps ==
    ASSUME SessionInv, Cancel \/ CloseOnCancel \/ UNCHANGED vars PROVE ReplyPart'
<1>1. UNCHANGED <<script, eof, pc, sequence, exchange, read, statements, reply, toServer,
                  fromServer, prepared, truth, records, mismatch>>
  BY DEF Cancel, CloseOnCancel, vars, config, login, server
<1> QED BY <1>1, SameSession

-----------------------------------------------------------------------------
(* A parser that was started is started still. *)
LEMMA StepStarted ==
    ASSUME NEW e, NEW k, NEW v, NEW p, v.stage # "none"
    PROVE  Step(e, k, v, p).stage # "none"
<1>1. PICK x : x = v.stage OBVIOUS
<1>2. x # "none" BY <1>1
<1> QED BY <1>1, <1>2 DEF Step, V

(* The rest of the packets is numbered on. *)
LEMMA ChainedTail ==
    ASSUME NEW s \in Seq(Packets), s # <<>>, NEW next, Chained(s, next)
    PROVE  Chained(Tail(s), Plus(next, s[1].parts))
<1> DEFINE t == Tail(s)
           l == Len(s)
<1>1. /\ l \in Nat /\ l > 0 /\ Len(t) = l - 1 /\ t \in Seq(Packets)
      /\ \A i \in 1..Len(t) : t[i] = s[i + 1]
  OBVIOUS
<1>2. t # <<>> => Len(t) > 0 BY <1>1
<1>3. s[1].seq = next /\ \A i \in 1..l - 1 : s[i + 1].seq = Plus(s[i].seq, s[i].parts)
  BY DEF Chained
<1> HIDE DEF t, l
<1>4. ASSUME t # <<>> PROVE t[1].seq = Plus(next, s[1].parts)
  <2>1. 1 \in 1..Len(t) /\ 1 \in 1..l - 1 BY <1>1, <1>2, <1>4
  <2> QED BY <1>1, <1>3, <2>1
<1>5. ASSUME NEW i \in 1..Len(t) - 1 PROVE t[i + 1].seq = Plus(t[i].seq, t[i].parts)
  <2>1. i \in 1..Len(t) /\ i + 1 \in 1..Len(t) /\ i + 1 \in 1..l - 1 BY <1>1
  <2> QED BY <1>1, <1>3, <2>1
<1> QED BY <1>4, <1>5 DEF Chained, t

(* A packet of the reply is parsed. *)
LEMMA ReadReplyKeeps == ASSUME SessionInv, ReadReply PROVE ReplyPart'
<1>0. PICK p : p = Head(fromServer) OBVIOUS
<1>1. /\ pc = "reply" /\ reply.stage \notin {"done", "fail"} /\ fromServer # <<>>
      /\ p.seq = reply.next /\ fromServer' = Tail(fromServer)
      /\ reply' = [After(p) EXCEPT !.next = Plus(After(p).next, p.parts)]
  BY <1>0, Zenon DEF ReadReply
<1>2. UNCHANGED <<script, eof, sequence, exchange, truth, prepared, mismatch, pc, read,
                  statements, toServer, records>>
  BY DEF ReadReply, Loop, config, login
<1>3. /\ reply \in ReplyState /\ eof \in BOOLEAN /\ fromServer \in Seq(Packets)
      /\ reply.stage # "none"
  BY <1>1 DEF SessionInv, ReplyTypes, ReplyInv
<1>4. toServer = <<>> BY <1>1 DEF SessionInv, ReplyInv, Asking
<1>5. Chained(fromServer, reply.next) /\ \E w : Hearing(w)
  BY <1>1, <1>4 DEF SessionInv, ReplyInv
<1>6. PICK w : Hearing(w) BY <1>5
<1>7. p = fromServer[1] /\ p \in Packets /\ Tail(fromServer) \in Seq(Packets)
  <2>1. Len(fromServer) \in Nat /\ Len(fromServer) > 0 BY <1>1, <1>3
  <2> QED BY <1>0, <1>1, <1>3, <2>1
<1>8. PICK r : r = After(p) OBVIOUS
<1>9. /\ r \in ReplyState /\ r.next = reply.next /\ r.statement = reply.statement
      /\ View(r) = Step(eof, Kind(read), View(reply), p)
  BY <1>1, <1>3, <1>7, <1>8, AfterIsStep
<1>10. PICK n : n = Plus(reply.next, p.parts) OBVIOUS
<1>11. n \in Nat
  <2>1. reply.next \in Nat /\ p.parts \in Nat BY <1>3, <1>7 DEF ReplyState, Packets
  <2> QED BY <1>10, <2>1, PlusSteps
<1>12. reply' = [r EXCEPT !.next = n] BY <1>1, <1>8, <1>9, <1>10
<1>13. /\ reply' \in ReplyState /\ reply'.next = n /\ reply'.statement = reply.statement
       /\ reply'.stage = r.stage /\ reply'.left = r.left /\ reply'.rows = r.rows
       /\ reply'.ok = r.ok /\ reply'.id = r.id
  BY <1>9, <1>11, <1>12 DEF ReplyState
<1>14. View(reply') = View(r) BY <1>13, Zenon DEF View
<1>15. reply'.stage # "none"
  <2>1. View(reply).stage = reply.stage /\ View(r).stage = r.stage BY DEF View, V
  <2> QED BY <1>3, <1>9, <1>13, <2>1, StepStarted
<1>16. Chained(fromServer', reply'.next)
  BY <1>1, <1>3, <1>5, <1>7, <1>10, <1>13, ChainedTail
<1>17. Leads(eof, Kind(read), View(reply'), fromServer', w)
  <2>1. Leads(eof, Kind(read), View(reply), fromServer, w) BY <1>6 DEF Hearing
  <2>2. Leads(eof, Kind(read), Step(eof, Kind(read), View(reply), fromServer[1]),
              Tail(fromServer), w)
    BY <1>1, <1>3, <2>1, LeadsTail
  <2> QED BY <1>1, <1>7, <1>9, <1>14, <2>2
<1>18. Hearing(w)'
  <2>1. Kind(read)' = Kind(read) BY <1>2 DEF Kind
  <2>2. Leads(eof', Kind(read)', View(reply'), fromServer', w) BY <1>2, <1>17, <2>1
  <2>3. Right(w)' BY <1>2, <1>6, <1>13 DEF Hearing, Right
  <2>4. \A id \in Ids :
          prepared'[id] # NoStatement =>
             \/ statements'[id] = prepared'[id]
             \/ Kind(read)' = "prepare" /\ w.stage = "done" /\ w.ok /\ id = w.id
    BY <1>2, <1>6, <2>1 DEF Hearing
  <2> QED BY <2>2, <2>3, <2>4, Zenon DEF Hearing
<1>19. ReplyTypes' BY <1>1, <1>2, <1>7, <1>13 DEF SessionInv, ReplyTypes
<1>20. CountedInv' /\ StartedInv'
  BY <1>1, <1>2 DEF CountedInv, StartedInv, Before, Authenticating
<1>21. QueueInv' BY <1>2 DEF SessionInv, QueueInv, Answered, Kind
<1>22. ReplyInv' BY <1>1, <1>2, <1>4, <1>15, <1>16, <1>18 DEF ReplyInv
<1>23. RecordInv' BY <1>2 DEF SessionInv, RecordInv
<1> QED BY <1>2, <1>19, <1>20, <1>21, <1>22, <1>23 DEF ReplyPart, SessionInv

-----------------------------------------------------------------------------
(* The reply is over and recorded. *)
LEMMA ReplyDoneKeeps == ASSUME SessionInv, ReplyDone PROVE ReplyPart'
<1> DEFINE cmd == script[read]
           x == [NoStatement EXCEPT !.q = cmd.q]
<1>1. /\ pc = "reply" /\ reply.stage = "done" /\ pc' = "command" /\ reply' = NoReply
      /\ statements' = IF cmd.k = "prepare" /\ reply.ok
                       THEN [statements EXCEPT ![reply.id] = x] ELSE statements
      /\ records' = Append(records, Record("command", read, reply.ok, reply.rows,
                                           reply.statement))
  BY DEF ReplyDone, Stored
<1>2. UNCHANGED <<script, eof, sequence, exchange, truth, prepared, mismatch, read,
                  toServer, fromServer>>
  BY DEF ReplyDone, Loop, config, login
<1>3. /\ reply \in ReplyState /\ eof \in BOOLEAN /\ fromServer \in Seq(Packets)
      /\ statements \in [Ids -> Statement] /\ prepared \in [Ids -> Statement]
      /\ records \in Seq(RecordState) /\ script \in Seq(Command) /\ read \in 0..Len(script)
      /\ Len(script) \in Nat
  BY DEF SessionInv, ReplyTypes, CredentialsInv, TypeInv
<1>4. read \in 1..Len(script) /\ Answered(read) /\ read \in Nat
  BY <1>1, <1>3 DEF SessionInv, QueueInv
<1>5. cmd \in Command BY <1>3, <1>4
<1>6. toServer = <<>>
  <2> SUFFICES ASSUME toServer # <<>> PROVE FALSE OBVIOUS
  <2>1. View(reply) = V(FirstStage(cmd), 0, 0, TRUE, 0) BY <1>1 DEF SessionInv, ReplyInv, Asking
  <2>2. reply.stage = FirstStage(cmd) BY <2>1 DEF View, V
  <2>3. FirstStage(cmd) \in {"prepared", "until", "first"} BY FirstStageIs
  <2> QED BY <1>1, <2>2, <2>3
<1>7. PICK w : Hearing(w) BY <1>1, <1>6 DEF SessionInv, ReplyInv
<1>8. View(reply).stage = reply.stage /\ View(reply).rows = reply.rows
      /\ View(reply).ok = reply.ok /\ View(reply).id = reply.id
  BY DEF View, V
<1>9. fromServer = <<>> /\ View(reply) = w
  <2>1. Leads(eof, Kind(read), View(reply), fromServer, w) BY <1>7 DEF Hearing
  <2>2. Over(View(reply)) BY <1>1, <1>8 DEF Over
  <2> QED BY <1>3, <2>1, <2>2, LeadsOver
<1>10. /\ reply.ok = truth[read].ok
       /\ reply.ok => reply.rows = truth[read].rows
       /\ reply.ok /\ cmd.k = "execute" => reply.statement = truth[read].statement
       /\ reply.ok /\ cmd.k = "prepare" =>
             reply.id \in Ids /\ prepared[reply.id] = [q |-> cmd.q, long |-> 0]
  BY <1>1, <1>7, <1>8, <1>9 DEF Hearing, Right
<1>11. \A id \in Ids : prepared[id] # NoStatement =>
          \/ statements[id] = prepared[id]
          \/ cmd.k = "prepare" /\ reply.ok /\ id = reply.id
  BY <1>7, <1>8, <1>9 DEF Hearing, Kind
<1>12. reply.ok \in BOOLEAN /\ reply.rows \in Nat /\ reply.rows \in Int
       /\ reply.statement \in Statement
  BY <1>3 DEF ReplyState
<1>13. statements' \in [Ids -> Statement] /\ Agree(prepared, statements')
  <2>1. CASE cmd.k = "prepare" /\ reply.ok
    <3>1. reply.id \in Ids /\ prepared[reply.id] = [q |-> cmd.q, long |-> 0]
      BY <1>10, <2>1
    <3>2. cmd.q \in Nat BY <1>5 DEF Command
    <3>3. x \in Statement /\ x.q = cmd.q /\ x.long = 0 BY <3>2, StatementFacts, Zenon
    <3>4. PICK b : b = prepared[reply.id] OBVIOUS
    <3>5. b \in Statement /\ b.q = cmd.q /\ b.long = 0
      <4>1. b \in Statement BY <1>3, <3>1, <3>4
      <4> QED BY <3>1, <3>4, <4>1
    <3> HIDE DEF x
    <3>6. x = b BY <3>3, <3>5, StatementEqual
    <3>7. PICK f : f = [statements EXCEPT ![reply.id] = x] OBVIOUS
    <3>8. f \in [Ids -> Statement] /\ f[reply.id] = x
          /\ \A z \in Ids : z # reply.id => f[z] = statements[z]
      BY <1>3, <3>1, <3>3, <3>7, Replaced
    <3>9. statements' = f BY <1>1, <2>1, <3>7
    <3>10. Agree(prepared, f) BY <1>11, <3>4, <3>6, <3>8 DEF Agree
    <3> QED BY <3>8, <3>9, <3>10
  <2>2. CASE ~(cmd.k = "prepare" /\ reply.ok)
    <3>1. statements' = statements BY <1>1, <2>2
    <3> QED BY <1>3, <1>11, <2>2, <3>1 DEF Agree
  <2> QED BY <2>1, <2>2
<1> HIDE DEF x
<1>14. PICK r : r = Record("command", read, reply.ok, reply.rows, reply.statement) OBVIOUS
<1>15. /\ r \in RecordState /\ r.what = "command" /\ r.n = read /\ r.ok = reply.ok
       /\ r.rows = reply.rows /\ r.statement = reply.statement
  BY <1>4, <1>12, <1>14, RecordIs
<1>16. Honest(r, script, read, toServer, truth)
  <2>1. read \in 1..read /\ \A i \in 1..Len(toServer) : toServer[i] # read
    BY <1>4, <1>6
  <2> QED BY <1>10, <1>15, <2>1 DEF Honest
<1>17. /\ records' \in Seq(RecordState) /\ Len(records') = Len(records) + 1
       /\ \A i \in 1..Len(records') : \/ i \in 1..Len(records) /\ records'[i] = records[i]
                                      \/ i = Len(records) + 1 /\ records'[i] = r
  BY <1>1, <1>3, <1>14, <1>15, Appended
<1>18. Len(records) = read
       /\ \A i \in 1..Len(records) : Honest(records[i], script, read, toServer, truth)
  BY <1>1 DEF SessionInv, RecordInv
<1>19. \A i \in 1..Len(records') : Honest(records'[i], script, read, toServer, truth)
  BY <1>16, <1>17, <1>18, Zenon
<1>20. NoReply \in ReplyState BY StatementFacts DEF NoReply, ReplyState, Stages
<1>21. ReplyTypes' BY <1>1, <1>2, <1>13, <1>17, <1>20 DEF SessionInv, ReplyTypes
<1>22. CountedInv' /\ StartedInv'
  BY <1>1 DEF CountedInv, StartedInv, Before, Authenticating
<1>23. QueueInv' BY <1>1, <1>2, <1>6 DEF QueueInv
<1>24. ReplyInv'
  <2>1. PICK g : Course(script, <<>>, prepared, g) /\ g[Len(<<>>) + 1] = prepared
    BY <1>3, CourseNone
  <2>2. Agree(g[Len(<<>>) + 1], statements') BY <1>13, <2>1
  <2> QED BY <1>1, <1>2, <1>6, <1>9, <2>1, <2>2 DEF ReplyInv
<1>25. RecordInv' BY <1>1, <1>2, <1>17, <1>18, <1>19 DEF RecordInv
<1> QED BY <1>2, <1>21, <1>22, <1>23, <1>24, <1>25 DEF ReplyPart, SessionInv

-----------------------------------------------------------------------------
(* The command that is read. *)
Reading(n, cmd) ==
    /\ n = read + 1 /\ cmd = script[n] /\ cmd \in Command /\ n \in 1..Len(script) /\ n \in Nat
    /\ pc = "command" /\ read < n /\ read \in Nat /\ read' = n /\ statements' = Parsed(cmd)
    /\ toServer' = IF cmd.k \notin Intercepted THEN Append(toServer, n) ELSE toServer
    /\ UNCHANGED <<script, eof, sequence, exchange, truth, prepared, mismatch, fromServer>>

(* What is read is the next command. *)
LEMMA ReadCommandReads == ASSUME SessionInv, ReadCommand PROVE \E n, cmd : Reading(n, cmd)
<1> DEFINE n == read + 1
           cmd == script[n]
<1>1. /\ pc = "command" /\ read < Len(script) /\ read' = n /\ statements' = Parsed(cmd)
      /\ toServer' = IF cmd.k \notin Intercepted THEN Append(toServer, n) ELSE toServer
  BY DEF ReadCommand, Forwards
<1>2. UNCHANGED <<script, eof, sequence, exchange, truth, prepared, mismatch, fromServer>>
  BY DEF ReadCommand, Loop, config, login
<1>3. script \in Seq(Command) /\ read \in 0..Len(script) /\ Len(script) \in Nat
  BY DEF SessionInv, CredentialsInv, TypeInv
<1>4. read \in Nat /\ n \in 1..Len(script) /\ n \in Nat /\ read < n BY <1>1, <1>3
<1>5. cmd \in Command BY <1>3, <1>4
<1> HIDE DEF n
<1>6. Reading(n, cmd) BY <1>1, <1>2, <1>4, <1>5 DEF Reading, n
<1> QED BY <1>6

(* The queue with the command. *)
LEMMA ReadQueue ==
    ASSUME SessionInv, NEW n, NEW cmd, Reading(n, cmd)
    PROVE  /\ toServer \in Seq(Nat) /\ toServer' \in Seq(Nat)
           /\ \A i \in 1..Len(toServer') :
                 \/ i \in 1..Len(toServer) /\ toServer'[i] = toServer[i]
                 \/ /\ i = Len(toServer) + 1 /\ toServer'[i] = n /\ cmd.k \notin Intercepted
                    /\ Len(toServer') = Len(toServer) + 1
           /\ cmd.k \notin Intercepted =>
                 toServer'[Len(toServer')] = n /\ Len(toServer') = Len(toServer) + 1
           /\ cmd.k \in Intercepted => toServer' = toServer
           /\ \A i \in 1..Len(toServer) : toServer[i] \in 1..read /\ Kind(toServer[i]) \in Silent
           /\ \A i, j \in 1..Len(toServer) : i < j => toServer[i] < toServer[j]
<1>1. toServer \in Seq(1..Len(script)) /\ Len(script) \in Nat
  BY DEF SessionInv, CredentialsInv, TypeInv
<1>2. toServer \in Seq(Nat)
  <2>1. /\ Len(toServer) \in Nat /\ DOMAIN toServer = 1..Len(toServer)
        /\ \A i \in 1..Len(toServer) : toServer[i] \in 1..Len(script)
    BY <1>1
  <2>2. \A i \in 1..Len(toServer) : toServer[i] \in Nat BY <1>1, <2>1
  <2> QED BY <1>1, <2>1, <2>2
<1>3. /\ \A i \in 1..Len(toServer) : toServer[i] \in 1..read /\ Kind(toServer[i]) \in Silent
      /\ \A i, j \in 1..Len(toServer) : i < j => toServer[i] < toServer[j]
  BY DEF SessionInv, QueueInv, Reading
<1>4. PICK q : q = Append(toServer, n) OBVIOUS
<1>5. /\ q \in Seq(Nat) /\ Len(q) = Len(toServer) + 1 /\ Len(toServer) \in Nat
      /\ \A i \in 1..Len(q) : \/ i \in 1..Len(toServer) /\ q[i] = toServer[i]
                              \/ i = Len(toServer) + 1 /\ q[i] = n
  <2>1. n \in Nat BY DEF Reading
  <2> QED BY <1>2, <1>4, <2>1, Appended
<1>6. q[Len(q)] = n BY <1>5
<1>7. CASE cmd.k \in Intercepted
  <2>1. toServer' = toServer BY <1>7 DEF Reading
  <2> QED BY <1>2, <1>3, <1>7, <2>1
<1>8. CASE cmd.k \notin Intercepted
  <2>1. toServer' = q BY <1>4, <1>8 DEF Reading
  <2> QED BY <1>2, <1>3, <1>5, <1>6, <1>8, <2>1
<1> QED BY <1>7, <1>8

(* The queue stays in order. *)
LEMMA ReadOrdered ==
    ASSUME SessionInv, NEW n, NEW cmd, Reading(n, cmd)
    PROVE  /\ \A i \in 1..Len(toServer') : toServer'[i] \in 1..n
           /\ \A i, j \in 1..Len(toServer') : i < j => toServer'[i] < toServer'[j]
           /\ cmd.k \in Silent \cup Intercepted =>
                 \A i \in 1..Len(toServer') : script[toServer'[i]].k \in Silent
           /\ \A i \in 1..Len(toServer') - 1 : script[toServer'[i]].k \in Silent
<1>1. /\ read \in Nat /\ n \in Nat /\ n = read + 1 /\ cmd = script[n] BY DEF Reading
<1>2. PICK q : q = toServer' OBVIOUS
<1>3. /\ toServer \in Seq(Nat) /\ q \in Seq(Nat)
      /\ \A i \in 1..Len(q) :
            \/ i \in 1..Len(toServer) /\ q[i] = toServer[i]
            \/ /\ i = Len(toServer) + 1 /\ q[i] = n /\ cmd.k \notin Intercepted
               /\ Len(q) = Len(toServer) + 1
      /\ \A i \in 1..Len(toServer) : toServer[i] \in 1..read /\ script[toServer[i]].k \in Silent
      /\ \A i, j \in 1..Len(toServer) : i < j => toServer[i] < toServer[j]
  BY <1>2, ReadQueue DEF Kind
<1>4. cmd.k \in Intercepted => q = toServer BY <1>2, ReadQueue
<1>5. Len(q) \in Nat /\ Len(toServer) \in Nat BY <1>3
<1>6. ASSUME NEW i \in 1..Len(q) PROVE q[i] \in 1..n
  <2>1. n \in 1..n /\ \A a : a \in 1..read => a \in 1..n BY <1>1
  <2>2. CASE i \in 1..Len(toServer) /\ q[i] = toServer[i]
    <3>1. toServer[i] \in 1..read BY <1>3, <2>2
    <3> QED BY <2>1, <2>2, <3>1
  <2>3. CASE q[i] = n BY <2>1, <2>3
  <2> QED BY <1>3, <2>2, <2>3
<1>7. ASSUME NEW i \in 1..Len(q), NEW j \in 1..Len(q), i < j PROVE q[i] < q[j]
  <2>1. i \in 1..Len(toServer) /\ q[i] = toServer[i] BY <1>3, <1>5, <1>7
  <2>2. toServer[i] \in 1..read BY <1>3, <2>1
  <2>3. CASE j \in 1..Len(toServer)
    <3>1. q[j] = toServer[j] BY <1>3, <1>5, <1>7, <2>3
    <3>2. toServer[i] < toServer[j] BY <1>3, <1>7, <2>1, <2>3
    <3> QED BY <2>1, <3>1, <3>2
  <2>4. CASE j \notin 1..Len(toServer)
    <3>1. q[j] = n BY <1>3, <1>7, <2>4
    <3> QED BY <1>1, <2>1, <2>2, <3>1
  <2> QED BY <2>3, <2>4
<1>8. ASSUME cmd.k \in Silent \cup Intercepted, NEW i \in 1..Len(q)
      PROVE  script[q[i]].k \in Silent
  <2>1. CASE i \in 1..Len(toServer) /\ q[i] = toServer[i] BY <1>3, <2>1
  <2>2. CASE q[i] = n /\ cmd.k \notin Intercepted BY <1>1, <1>8, <2>2
  <2> QED BY <1>3, <2>1, <2>2
<1>9. ASSUME NEW i \in 1..Len(q) - 1 PROVE script[q[i]].k \in Silent
  <2>1. i \in 1..Len(q) BY <1>5
  <2>2. i \in 1..Len(toServer) /\ q[i] = toServer[i] BY <1>3, <1>5, <2>1
  <2> QED BY <1>3, <2>2
<1> QED BY <1>2, <1>6, <1>7, <1>8, <1>9

(* The records before the command stay honest. *)
LEMMA ReadHonest ==
    ASSUME SessionInv, NEW n, NEW cmd, Reading(n, cmd)
    PROVE  \A i \in 1..Len(records) : Honest(records[i], script, n, toServer', truth)
<1> SUFFICES ASSUME NEW i \in 1..Len(records)
             PROVE  Honest(records[i], script, n, toServer', truth)
  OBVIOUS
<1>1. Honest(records[i], script, read, toServer, truth) BY DEF SessionInv, RecordInv
<1>2. read \in Nat /\ n \in Nat /\ read <= n /\ n > read BY DEF Reading
<1>3. ASSUME NEW j \in 1..Len(toServer')
      PROVE  toServer'[j] > read \/ \E l \in 1..Len(toServer) : toServer'[j] = toServer[l]
  <2>1. \/ j \in 1..Len(toServer) /\ toServer'[j] = toServer[j]
        \/ toServer'[j] = n
    BY ReadQueue
  <2> QED BY <1>2, <2>1
<1>4. PICK q : q = toServer' OBVIOUS
<1>5. Honest(records[i], script, n, q, truth)
  <2>1. \A j \in 1..Len(q) : q[j] > read \/ \E l \in 1..Len(toServer) : q[j] = toServer[l]
    BY <1>3, <1>4
  <2>2. PICK r : r = records[i] OBVIOUS
  <2>3. Honest(r, script, read, toServer, truth) BY <1>1, <2>2
  <2>4. \A x \in 1..read : (\A j \in 1..Len(toServer) : toServer[j] # x) => truth[x] = truth[x]
    OBVIOUS
  <2>5. Honest(r, script, n, q, truth) BY <1>2, <2>1, <2>3, <2>4, HonestKept, Zenon
  <2> QED BY <2>2, <2>5
<1> QED BY <1>4, <1>5

(* The types, and what concerns the login, of the state with the command. *)
LEMMA ReadTypes ==
    ASSUME SessionInv, NEW n, NEW cmd, Reading(n, cmd), reply' \in ReplyState,
           records' \in Seq(RecordState), pc' \in {"command", "reply", "closed"}
    PROVE  ReplyTypes' /\ CountedInv' /\ StartedInv'
<1>1. cmd \in Command /\ statements' = Parsed(cmd) BY DEF Reading
<1>2. statements \in [Ids -> Statement] BY DEF SessionInv, ReplyTypes
<1>3. statements' \in [Ids -> Statement] BY <1>1, <1>2, ParsedIs
<1>4. ReplyTypes' BY <1>3 DEF SessionInv, ReplyTypes, Reading
<1>5. CountedInv' /\ StartedInv' BY DEF CountedInv, StartedInv, Before, Authenticating
<1> QED BY <1>4, <1>5

(* The statement that a command names. *)
LEMMA NamedIs ==
    ASSUME NEW cmd \in Command, statements \in [Ids -> Statement]
    PROVE  /\ Named(cmd) \in Statement
           /\ cmd.k = "execute" => Named(cmd) = statements[cmd.id]
<1>1. cmd.id \in Ids BY DEF Command
<1> QED BY <1>1, StatementFacts DEF Named, StatementCommands

(* A command without a reply is recorded at once. *)
LEMMA ReadSilent ==
    ASSUME SessionInv, ReadCommand, NEW n, NEW cmd, Reading(n, cmd),
           cmd.k \in Silent \cup Intercepted
    PROVE  ReplyPart'
<1>1. /\ pc' \in {"command", "closed"} /\ reply' = reply
      /\ records' = Append(records, Record("command", n, cmd.k \in Silent, 0, Named(cmd)))
  BY DEF ReadCommand, Reading
<1>2. /\ cmd = script[n] /\ cmd \in Command /\ n \in Nat /\ n = read + 1 /\ read' = n
      /\ script' = script /\ truth' = truth /\ prepared' = prepared
      /\ fromServer' = fromServer /\ pc = "command" /\ ~mismatch'
      /\ statements' = Parsed(cmd)
  BY DEF Reading, SessionInv
<1>3. /\ statements \in [Ids -> Statement] /\ prepared \in [Ids -> Statement]
      /\ records \in Seq(RecordState) /\ reply \in ReplyState
  BY DEF SessionInv, ReplyTypes
<1>4. PICK t \in BOOLEAN : t = (cmd.k \in Silent)
  <2>1. CASE cmd.k \in Silent
    <3>1. (cmd.k \in Silent) = TRUE BY <2>1
    <3> QED BY <3>1, Zenon
  <2>2. CASE cmd.k \notin Silent
    <3>1. (cmd.k \in Silent) = FALSE BY <2>2
    <3> QED BY <3>1, Zenon
  <2> QED BY <2>1, <2>2
<1>5. PICK r : r = Record("command", n, t, 0, Named(cmd)) OBVIOUS
<1>6. r \in RecordState /\ r.n = n
  <2>1. Named(cmd) \in Statement BY <1>2, <1>3, NamedIs
  <2>2. 0 \in Int OBVIOUS
  <2> QED BY <1>2, <1>5, <2>1, <2>2, RecordIs
<1>7. records' = Append(records, r) BY <1>1, <1>4, <1>5, Zenon
<1>8. /\ records' \in Seq(RecordState) /\ Len(records') = Len(records) + 1
      /\ \A i \in 1..Len(records') : \/ i \in 1..Len(records) /\ records'[i] = records[i]
                                     \/ i = Len(records) + 1 /\ records'[i] = r
  BY <1>3, <1>6, <1>7, Appended
<1>9. ReplyTypes' /\ CountedInv' /\ StartedInv'
  <2>1. reply' \in ReplyState /\ pc' \in {"command", "reply", "closed"} BY <1>1, <1>3
  <2> QED BY <1>8, <2>1, ReadTypes
<1>10. QueueInv'
  <2>1. PICK q : q = toServer' OBVIOUS
  <2>2. /\ \A i \in 1..Len(q) : q[i] \in 1..n
        /\ \A i, j \in 1..Len(q) : i < j => q[i] < q[j]
        /\ \A i \in 1..Len(q) : script[q[i]].k \in Silent
    BY <2>1, ReadOrdered
  <2> QED BY <1>1, <1>2, <2>1, <2>2 DEF QueueInv, Kind
<1>11. ReplyInv'
  <2>1. PICK g : /\ Course(script, toServer, prepared, g)
                 /\ Agree(g[Len(toServer) + 1], statements)
    BY <1>2 DEF SessionInv, ReplyInv
  <2>2. fromServer = <<>> BY <1>2 DEF SessionInv, ReplyInv
  <2>3. \E h : /\ Course(script, toServer', prepared, h)
               /\ Agree(h[Len(toServer') + 1], statements')
    <3>1. CASE cmd.k \in Intercepted
      <4>1. toServer' = toServer BY <3>1, ReadQueue
      <4>2. Parsed(cmd) = statements
        <5>1. cmd.k \in {"user", "replica"} BY <3>1 DEF Intercepted
        <5>2. Parsed(cmd) = Effect(statements, cmd) BY <1>2, <1>3, <5>1, ParsedIs
        <5> QED BY <5>1, <5>2 DEF Effect
      <4> QED BY <1>2, <2>1, <4>1, <4>2
    <3>2. CASE cmd.k \notin Intercepted
      <4>1. toServer' = Append(toServer, n) BY <3>2 DEF Reading
      <4>2. toServer \in Seq(Nat) /\ Len(toServer) \in Nat BY ReadQueue
      <4>3. PICK h : /\ Course(script, Append(toServer, n), prepared, h)
                     /\ h[Len(Append(toServer, n)) + 1] = Effect(g[Len(toServer) + 1], cmd)
        BY <1>2, <2>1, <4>2, CourseAppend
      <4>4. g[Len(toServer) + 1] \in [Ids -> Statement]
        <5>1. Len(toServer) + 1 \in 1..Len(toServer) + 1 BY <4>2
        <5> QED BY <2>1, <5>1 DEF Course
      <4>5. Agree(Effect(g[Len(toServer) + 1], cmd), Parsed(cmd))
        BY <1>2, <1>3, <2>1, <4>4, AgreeAfter
      <4> QED BY <1>2, <4>1, <4>3, <4>5
    <3> QED BY <3>1, <3>2
  <2> QED BY <1>1, <1>2, <2>2, <2>3 DEF ReplyInv
<1>12. RecordInv'
  <2>1. Len(records) = read + 1 BY <1>2 DEF SessionInv, RecordInv
  <2>2. Len(records') = n + 1 BY <1>2, <1>8, <2>1
  <2>3. PICK q : q = toServer' OBVIOUS
  <2>4. \A i \in 1..Len(records) : Honest(records[i], script, n, q, truth)
    BY <2>3, ReadHonest
  <2>5. Honest(r, script, n, q, truth) BY <1>2, <1>6, HonestOther
  <2>6. \A i \in 1..Len(records') : Honest(records'[i], script, n, q, truth)
    BY <1>8, <2>4, <2>5, Zenon
  <2> QED BY <1>1, <1>2, <2>2, <2>3, <2>6 DEF RecordInv
<1> QED BY <1>2, <1>9, <1>10, <1>11, <1>12 DEF ReplyPart

(* The reply to a command is expected. *)
LEMMA ReadAnswered ==
    ASSUME SessionInv, ReadCommand, NEW n, NEW cmd, Reading(n, cmd),
           cmd.k \notin Silent \cup Intercepted
    PROVE  ReplyPart'
<1>1. /\ pc' = "reply" /\ records' = records
      /\ reply' = [NoReply EXCEPT !.stage = FirstStage(cmd), !.next = NextSequence(cmd),
                                  !.statement = Named(cmd)]
  BY DEF ReadCommand, Reading
<1>2. /\ cmd = script[n] /\ cmd \in Command /\ n \in Nat /\ n = read + 1 /\ read' = n
      /\ script' = script /\ truth' = truth /\ prepared' = prepared
      /\ fromServer' = fromServer /\ pc = "command" /\ ~mismatch' /\ read \in Nat
      /\ statements' = Parsed(cmd)
  BY DEF Reading, SessionInv
<1>3. /\ statements \in [Ids -> Statement] /\ prepared \in [Ids -> Statement]
      /\ records \in Seq(RecordState)
  BY DEF SessionInv, ReplyTypes
<1>4. PICK stage, next, named : /\ stage = FirstStage(cmd) /\ next = NextSequence(cmd)
                                /\ named = Named(cmd)
  OBVIOUS
<1>5. stage \in Stages /\ stage # "none" /\ next \in Nat /\ named \in Statement
  <2>1. stage \in {"prepared", "until", "first"} BY <1>4, FirstStageIs
  <2>2. named \in Statement BY <1>2, <1>3, <1>4, NamedIs
  <2>3. next \in Nat
    <3>1. cmd.parts \in Nat BY <1>2 DEF Command
    <3>2. 0 \in Nat OBVIOUS
    <3>3. Plus(cmd.parts, 0) \in Nat BY <3>1, <3>2, PlusSteps
    <3>4. cmd.parts + 0 = cmd.parts BY <3>1
    <3> QED BY <1>4, <3>3, <3>4 DEF Plus, NextSequence
  <2> QED BY <2>1, <2>2, <2>3 DEF Stages
<1>6. reply' = [NoReply EXCEPT !.stage = stage, !.next = next, !.statement = named]
  BY <1>1, <1>4, Zenon
<1>7. /\ NoReply \in ReplyState /\ NoReply.left = 0 /\ NoReply.rows = 0
      /\ NoReply.ok = TRUE /\ NoReply.id = 0
  BY StatementFacts DEF NoReply, ReplyState, Stages
<1>8. /\ reply' \in ReplyState /\ reply'.stage = stage /\ reply'.next = next
      /\ reply'.statement = named /\ reply'.left = 0 /\ reply'.rows = 0
      /\ reply'.ok = TRUE /\ reply'.id = 0
  BY <1>5, <1>6, <1>7 DEF ReplyState
<1>9. ReplyTypes' /\ CountedInv' /\ StartedInv'
  <2>1. records' \in Seq(RecordState) /\ pc' \in {"command", "reply", "closed"} BY <1>1, <1>3
  <2> QED BY <1>8, <2>1, ReadTypes
<1>10. toServer' = Append(toServer, n) /\ toServer' # <<>>
  <2>1. toServer' = Append(toServer, n) BY DEF Reading
  <2>2. toServer \in Seq(Nat) BY ReadQueue
  <2> QED BY <1>2, <2>1, <2>2
<1>11. QueueInv'
  <2>1. PICK q : q = toServer' OBVIOUS
  <2>2. /\ \A i \in 1..Len(q) : q[i] \in 1..n
        /\ \A i, j \in 1..Len(q) : i < j => q[i] < q[j]
        /\ \A i \in 1..Len(q) - 1 : script[q[i]].k \in Silent
    BY <2>1, ReadOrdered
  <2>3. q[Len(q)] = n BY <2>1, ReadQueue
  <2>4. n > 0 BY <1>2
  <2> QED BY <1>1, <1>2, <2>1, <2>2, <2>3, <2>4 DEF QueueInv, Kind, Answered
<1>12. ReplyInv'
  <2>1. PICK g : /\ Course(script, toServer, prepared, g)
                 /\ Agree(g[Len(toServer) + 1], statements)
    BY <1>2 DEF SessionInv, ReplyInv
  <2>2. fromServer = <<>> BY <1>2 DEF SessionInv, ReplyInv
  <2>3. toServer \in Seq(Nat) /\ Len(toServer) \in Nat BY ReadQueue
  <2>4. PICK h : /\ Course(script, Append(toServer, n), prepared, h)
                 /\ h[Len(Append(toServer, n))] = g[Len(toServer) + 1]
                 /\ h[Len(Append(toServer, n)) + 1] = Effect(g[Len(toServer) + 1], cmd)
    BY <1>2, <2>1, <2>3, CourseAppend
  <2>5. g[Len(toServer) + 1] \in [Ids -> Statement]
    <3>1. Len(toServer) + 1 \in 1..Len(toServer) + 1 BY <2>3
    <3> QED BY <2>1, <3>1 DEF Course
  <2>6. Agree(Effect(g[Len(toServer) + 1], cmd), Parsed(cmd))
    BY <1>2, <1>3, <2>1, <2>5, AgreeAfter
  <2>7. /\ Course(script, toServer', prepared, h)
        /\ Agree(h[Len(toServer') + 1], statements')
    BY <1>2, <1>10, <2>4, <2>6
  <2>8. cmd.k = "execute" /\ h[Len(toServer')][cmd.id] # NoStatement =>
           reply'.statement = h[Len(toServer')][cmd.id]
    <3>1. h[Len(toServer')] = g[Len(toServer) + 1] BY <1>10, <2>4
    <3>2. cmd.id \in Ids BY <1>2 DEF Command
    <3>3. cmd.k = "execute" => named = statements[cmd.id] BY <1>2, <1>3, <1>4, NamedIs
    <3> QED BY <1>8, <2>1, <3>1, <3>2, <3>3 DEF Agree
  <2>9. Asking'
    <3>1. View(reply') = V(stage, 0, 0, TRUE, 0) BY <1>8, Zenon DEF View
    <3>2. FirstStage(cmd) = stage /\ NextSequence(cmd) = next BY <1>4
    <3> QED BY <1>2, <1>8, <2>2, <3>1, <3>2 DEF Asking
  <2> QED BY <1>1, <1>2, <1>5, <1>8, <1>10, <2>7, <2>8, <2>9 DEF ReplyInv
<1>13. RecordInv'
  <2>1. Len(records) = read + 1 BY <1>2 DEF SessionInv, RecordInv
  <2>2. PICK q : q = toServer' OBVIOUS
  <2>3. \A i \in 1..Len(records) : Honest(records[i], script, n, q, truth)
    BY <2>2, ReadHonest
  <2> QED BY <1>1, <1>2, <2>1, <2>2, <2>3 DEF RecordInv
<1> QED BY <1>2, <1>9, <1>11, <1>12, <1>13 DEF ReplyPart

(* A command is read. *)
LEMMA ReadCommandKeeps == ASSUME SessionInv, ReadCommand PROVE ReplyPart'
<1>1. PICK n, cmd : Reading(n, cmd) BY ReadCommandReads
<1> QED BY <1>1, ReadSilent, ReadAnswered

-----------------------------------------------------------------------------
(* The server reads the command n and answers it. *)
Served(n, cmd, answer) ==
    /\ toServer # <<>> /\ n = toServer[1] /\ cmd = script[n] /\ cmd \in Command
    /\ n \in 1..read /\ n \in 1..Len(script) /\ read \in Nat
    /\ cmd.k \notin Intercepted /\ answer \in Replies(cmd)
    /\ toServer \in Seq(Nat) /\ toServer' = Tail(toServer)
    /\ fromServer' = fromServer \o Numbered(cmd, answer)
    /\ prepared' = PreparedAfter(cmd, answer)
    /\ truth' = [truth EXCEPT ![n] =
          [ok        |-> \A i \in DOMAIN answer : answer[i].t # "err",
           rows      |-> RowsIn(answer),
           statement |-> IF cmd.k \in StatementCommands THEN prepared[cmd.id] ELSE NoStatement]]
    /\ UNCHANGED <<script, eof, pc, sequence, exchange, read, statements, reply, records,
                   mismatch>>

(* It serves its commands in their order. *)
LEMMA ServeServes == ASSUME SessionInv, Serve PROVE \E n, cmd, answer : Served(n, cmd, answer)
<1>1. toServer # <<>> BY DEF Serve
<1>2. /\ toServer \in Seq(1..Len(script)) /\ Len(script) \in Nat /\ script \in Seq(Command)
      /\ read \in 0..Len(script)
  BY DEF SessionInv, CredentialsInv, TypeInv
<1>3. /\ Len(toServer) \in Nat /\ Len(toServer) > 0 /\ DOMAIN toServer = 1..Len(toServer)
      /\ \A i \in 1..Len(toServer) : toServer[i] \in 1..Len(script)
  BY <1>1, <1>2
<1>4. toServer \in Seq(Nat)
  <2>1. \A i \in 1..Len(toServer) : toServer[i] \in Nat BY <1>2, <1>3
  <2> QED BY <1>2, <1>3, <2>1
<1>5. PICK n : n = toServer[1] OBVIOUS
<1>6. Head(toServer) = n BY <1>3, <1>4, <1>5
<1>7. PICK cmd : cmd = script[n] OBVIOUS
<1>8. 1 \in 1..Len(toServer) /\ 1 \in DOMAIN toServer BY <1>3
<1>9. n \in 1..Len(script) BY <1>3, <1>5, <1>8
<1>10. cmd \in Command BY <1>2, <1>7, <1>9
<1>11. n \in 1..read BY <1>5, <1>8 DEF SessionInv, QueueInv
<1>12. cmd.k \notin Intercepted
  BY <1>5, <1>7, <1>8 DEF SessionInv, CredentialsInv, CredentialsSafe, Kind, Intercepted
<1>13. read \in Nat BY <1>2
<1>14. PICK answer \in Replies(cmd) :
          /\ fromServer' = fromServer \o Numbered(cmd, answer)
          /\ prepared' = PreparedAfter(cmd, answer)
          /\ truth' = [truth EXCEPT ![n] =
                [ok        |-> \A i \in DOMAIN answer : answer[i].t # "err",
                 rows      |-> RowsIn(answer),
                 statement |-> IF cmd.k \in StatementCommands THEN prepared[cmd.id]
                               ELSE NoStatement]]
  BY <1>6, <1>7, Zenon DEF Serve
<1>15. /\ toServer' = Tail(toServer)
       /\ UNCHANGED <<script, eof, pc, sequence, exchange, read, statements, reply, records,
                      mismatch>>
  BY DEF Serve, config, login
<1>16. Served(n, cmd, answer)
  BY <1>1, <1>4, <1>5, <1>7, <1>9, <1>10, <1>11, <1>12, <1>13, <1>14, <1>15, Zenon DEF Served
<1> QED BY <1>16

(* Nothing answers a silent command. *)
LEMMA SilentReply ==
    ASSUME NEW cmd, cmd.k \in Silent, NEW answer \in Replies(cmd) PROVE answer = <<>>
<1>0. /\ cmd.k # "query" /\ cmd.k # "execute" /\ cmd.k # "prepare"
      /\ cmd.k \notin {"fields", "fetch"} /\ cmd.k # "stats" /\ cmd.k # "option"
      /\ cmd.k # "restart" /\ cmd.k # "gtid"
  BY DEF Silent
<1>1. Replies(cmd) = {<<>>} BY <1>0, Zenon DEF Replies
<1> QED BY <1>1

(* The packets of every answer can be counted. *)
LEMMA ServedHolds ==
    ASSUME SessionInv, ~LongOK, ~Dumps, NEW n, NEW cmd, NEW answer, Served(n, cmd, answer)
    PROVE  /\ cmd.k \in Silent => answer = <<>>
           /\ cmd.k \notin Silent => Fits(cmd, answer)
           /\ \E m \in Int, b \in BOOLEAN : Holds(answer, m, b)
<1>1. /\ cmd \in Command /\ cmd.k \notin Intercepted /\ answer \in Replies(cmd) /\ eof \in BOOLEAN
  BY DEF Served, SessionInv, ReplyTypes
<1>2. CASE cmd.k \in Silent
  <2>1. answer = <<>> BY <1>1, <1>2, SilentReply
  <2>2. PICK t \in BOOLEAN : t = TRUE OBVIOUS
  <2>3. Holds(<<>>, 0, t) BY <2>2, HoldsNone
  <2>4. 0 \in Int OBVIOUS
  <2>5. \E m \in Int, b \in BOOLEAN : Holds(answer, m, b) BY <2>1, <2>3, <2>4, Zenon
  <2> QED BY <1>2, <2>1, <2>5
<1>3. CASE cmd.k \notin Silent
  <2>1. cmd.k \notin Silent \cup Intercepted BY <1>1, <1>3
  <2>2. Fits(cmd, answer) BY <1>1, <2>1, RepliesFit
  <2>3. \E m \in Int, b \in BOOLEAN : Holds(answer, m, b) BY <2>2, Zenon DEF Fits, Reads
  <2> QED BY <1>3, <2>2, <2>3
<1> QED BY <1>2, <1>3

(* What the server did is written down. *)
LEMMA ServedDeed ==
    ASSUME SessionInv, NEW n, NEW cmd, NEW answer, Served(n, cmd, answer),
           NEW m \in Int, NEW b \in BOOLEAN, Holds(answer, m, b)
    PROVE  /\ truth' \in [1..Len(script) -> Deed]
           /\ truth'[n].ok = b /\ truth'[n].rows = m
           /\ cmd.k = "execute" => truth'[n].statement = prepared[cmd.id]
           /\ \A x \in 1..Len(script) : x # n => truth'[x] = truth[x]
<1>1. /\ prepared \in [Ids -> Statement] /\ truth \in [1..Len(script) -> Deed]
      /\ cmd \in Command /\ n \in 1..Len(script)
  BY DEF Served, SessionInv, ReplyTypes
<1>2. PICK a : a = IF cmd.k \in StatementCommands THEN prepared[cmd.id] ELSE NoStatement
  OBVIOUS
<1>3. a \in Statement /\ (cmd.k = "execute" => a = prepared[cmd.id])
  <2>1. cmd.id \in Ids BY <1>1 DEF Command
  <2> QED BY <1>1, <1>2, <2>1, StatementFacts DEF StatementCommands
<1>4. RowsIn(answer) = m BY DEF Holds
<1>5. (\A i \in DOMAIN answer : answer[i].t # "err") = b
  <2>1. answer \in Seq(Packets) /\ (Clean(answer) <=> b) BY DEF Holds
  <2>2. DOMAIN answer = 1..Len(answer) BY <2>1
  <2>3. (\A i \in DOMAIN answer : answer[i].t # "err") <=> b BY <2>1, <2>2 DEF Clean
  <2> QED BY <2>3
<1>6. PICK d : d = [ok |-> b, rows |-> m, statement |-> a] OBVIOUS
<1>7. d \in Deed /\ d.ok = b /\ d.rows = m /\ d.statement = a BY <1>3, <1>6 DEF Deed
<1>8. truth' = [truth EXCEPT ![n] = d] BY <1>2, <1>4, <1>5, <1>6, Zenon DEF Served
<1>9. LET f == [truth EXCEPT ![n] = d]
      IN  /\ f \in [1..Len(script) -> Deed] /\ f[n] = d
          /\ \A x \in 1..Len(script) : x # n => f[x] = truth[x]
  BY <1>1, <1>7, Replaced
<1> QED BY <1>3, <1>7, <1>8, <1>9, Zenon

(* What becomes of the server's statements. *)
LEMMA ServedPrepared ==
    ASSUME SessionInv, ~LongOK, ~Dumps, NEW n, NEW cmd, NEW answer, Served(n, cmd, answer)
    PROVE  /\ prepared' \in [Ids -> Statement]
           /\ cmd.k = "prepare" /\ answer[1].t = "prepared" =>
                 /\ prepared'[answer[1].id] = [q |-> cmd.q, long |-> 0]
                 /\ \A i \in Ids : i # answer[1].id => prepared'[i] = prepared[i]
           /\ ~(cmd.k = "prepare" /\ answer[1].t = "prepared") =>
                 prepared' = Effect(prepared, cmd)
<1>1. /\ prepared \in [Ids -> Statement] /\ cmd \in Command
      /\ prepared' = PreparedAfter(cmd, answer)
  BY DEF Served, SessionInv, ReplyTypes
<1>2. CASE cmd.k = "prepare" /\ answer[1].t = "prepared"
  <2>1. cmd.k \notin Silent BY <1>2 DEF Silent
  <2>2. Fits(cmd, answer) BY <2>1, ServedHolds
  <2>3. answer[1].id \in Ids BY <1>2, <2>2 DEF Fits
  <2> QED BY <1>1, <1>2, <2>3, PreparedNew
<1>3. CASE ~(cmd.k = "prepare" /\ answer[1].t = "prepared")
  <2>1. prepared' = Effect(prepared, cmd) BY <1>1, <1>3, PreparedAfterIs
  <2>2. Effect(prepared, cmd) \in [Ids -> Statement] BY <1>1, EffectIs
  <2> QED BY <1>3, <2>1, <2>2
<1> QED BY <1>2, <1>3

(* The queue without its first command. *)
LEMMA ServedQueue ==
    ASSUME SessionInv, NEW n, NEW cmd, NEW answer, Served(n, cmd, answer)
    PROVE  LET q == Tail(toServer)
           IN  /\ q \in Seq(Nat) /\ Len(q) = Len(toServer) - 1 /\ Len(toServer) \in Nat
               /\ Len(toServer) > 0
               /\ \A i \in 1..Len(q) :
                     i + 1 \in 1..Len(toServer) /\ q[i] = toServer[i + 1] /\ q[i] # n
<1>1. toServer \in Seq(Nat) /\ toServer # <<>> /\ n = toServer[1] BY DEF Served
<1>2. PICK q : q = Tail(toServer) OBVIOUS
<1>3. /\ q \in Seq(Nat) /\ Len(q) = Len(toServer) - 1 /\ Len(toServer) \in Nat
      /\ Len(toServer) > 0 /\ \A i \in 1..Len(q) : q[i] = toServer[i + 1]
  BY <1>1, <1>2
<1>4. ASSUME NEW i \in 1..Len(q)
      PROVE  i + 1 \in 1..Len(toServer) /\ q[i] = toServer[i + 1] /\ q[i] # n
  <2>1. i + 1 \in 1..Len(toServer) /\ 1 \in 1..Len(toServer) /\ 1 < i + 1 BY <1>3
  <2>2. toServer[1] < toServer[i + 1] BY <2>1 DEF SessionInv, QueueInv
  <2>3. toServer[1] \in Nat /\ toServer[i + 1] \in Nat BY <1>1, <2>1
  <2> QED BY <1>1, <1>3, <2>1, <2>2, <2>3
<1> QED BY <1>2, <1>3, <1>4

(* Everything but the reply itself. *)
LEMMA ServedRest ==
    ASSUME SessionInv, ~LongOK, ~Dumps, NEW n, NEW cmd, NEW answer, Served(n, cmd, answer)
    PROVE  ReplyTypes' /\ CountedInv' /\ StartedInv' /\ QueueInv' /\ RecordInv' /\ ~mismatch'
<1>1. /\ cmd \in Command /\ toServer' = Tail(toServer) /\ read \in Nat
      /\ fromServer' = fromServer \o Numbered(cmd, answer)
      /\ UNCHANGED <<script, eof, pc, sequence, exchange, read, statements, reply, records,
                     mismatch>>
  BY DEF Served
<1>2. PICK m \in Int, b \in BOOLEAN : Holds(answer, m, b) BY ServedHolds
<1>3. /\ truth' \in [1..Len(script) -> Deed]
      /\ \A x \in 1..Len(script) : x # n => truth'[x] = truth[x]
  BY <1>2, ServedDeed
<1>4. fromServer' \in Seq(Packets)
  <2>1. answer \in Seq(Packets) BY <1>2 DEF Holds
  <2>2. PICK t : t = Numbered(cmd, answer) OBVIOUS
  <2>3. t \in Seq(Packets) BY <1>1, <2>1, <2>2, NumberedIs
  <2>4. fromServer \in Seq(Packets) BY DEF SessionInv, ReplyTypes
  <2> HIDE DEF Packets
  <2>5. fromServer \o t \in Seq(Packets) BY <2>3, <2>4
  <2> QED BY <1>1, <2>2, <2>5
<1>5. prepared' \in [Ids -> Statement] BY ServedPrepared
<1>6. ReplyTypes' BY <1>1, <1>3, <1>4, <1>5 DEF SessionInv, ReplyTypes
<1>7. pc \notin Before \cup Authenticating
  <2>1. toServer # <<>> BY DEF Served
  <2> QED BY <2>1 DEF SessionInv, CredentialsInv, OrderInv
<1>8. CountedInv' /\ StartedInv' BY <1>1, <1>7 DEF CountedInv, StartedInv
<1>9. PICK q : q = Tail(toServer) OBVIOUS
<1>10. /\ q \in Seq(Nat) /\ Len(q) = Len(toServer) - 1 /\ Len(toServer) \in Nat
       /\ Len(toServer) > 0
       /\ \A i \in 1..Len(q) :
             i + 1 \in 1..Len(toServer) /\ q[i] = toServer[i + 1] /\ q[i] # n
  BY <1>9, ServedQueue
<1>11. QueueInv'
  <2>1. \A i \in 1..Len(q) : q[i] \in 1..read BY <1>10 DEF SessionInv, QueueInv
  <2>2. ASSUME NEW i \in 1..Len(q), NEW j \in 1..Len(q), i < j PROVE q[i] < q[j]
    <3>1. i + 1 < j + 1 BY <1>10, <2>2
    <3>2. toServer[i + 1] < toServer[j + 1] BY <1>10, <3>1 DEF SessionInv, QueueInv
    <3> QED BY <1>10, <3>2
  <2>3. pc = "command" => \A i \in 1..Len(q) : script[q[i]].k \in Silent
    BY <1>10 DEF SessionInv, QueueInv, Kind
  <2>4. ASSUME pc = "reply"
        PROVE  /\ read > 0 /\ Answered(read)
               /\ q # <<>> => /\ q[Len(q)] = read
                              /\ \A i \in 1..Len(q) - 1 : script[q[i]].k \in Silent
    <3>1. /\ read > 0 /\ Answered(read) /\ toServer[Len(toServer)] = read
          /\ \A i \in 1..Len(toServer) - 1 : script[toServer[i]].k \in Silent
      BY <2>4 DEF SessionInv, QueueInv, Served, Kind
    <3>2. ASSUME q # <<>> PROVE q[Len(q)] = read
      <4>1. Len(q) \in 1..Len(q) /\ Len(q) + 1 = Len(toServer) BY <1>10, <3>2
      <4> QED BY <1>10, <3>1, <4>1
    <3>3. ASSUME NEW i \in 1..Len(q) - 1 PROVE script[q[i]].k \in Silent
      <4>1. i \in 1..Len(q) /\ i + 1 \in 1..Len(toServer) - 1 BY <1>10
      <4> QED BY <1>10, <3>1, <4>1
    <3> QED BY <3>1, <3>2, <3>3
  <2> QED BY <1>1, <1>9, <2>1, <2>2, <2>3, <2>4 DEF QueueInv, Kind, Answered
<1>12. RecordInv'
  <2>1. PICK done : done = truth' OBVIOUS
  <2>2. ASSUME NEW i \in 1..Len(records) PROVE Honest(records[i], script, read, q, done)
    <3>1. PICK r : r = records[i] OBVIOUS
    <3>2. Honest(r, script, read, toServer, truth) BY <3>1 DEF SessionInv, RecordInv
    <3>3. \A j \in 1..Len(q) : q[j] > read \/ \E l \in 1..Len(toServer) : q[j] = toServer[l]
      BY <1>10
    <3>4. ASSUME NEW x \in 1..read, \A j \in 1..Len(toServer) : toServer[j] # x
          PROVE  done[x] = truth[x]
      <4>1. x # n
        <5>1. 1 \in 1..Len(toServer) /\ n = toServer[1] BY <1>10 DEF Served
        <5> QED BY <3>4, <5>1
      <4>2. x \in 1..Len(script)
        BY DEF SessionInv, CredentialsInv, TypeInv
      <4> QED BY <1>3, <2>1, <4>1, <4>2
    <3>5. read <= read BY <1>1
    <3>6. Honest(r, script, read, q, done)
      BY <1>1, <3>2, <3>3, <3>4, <3>5, HonestKept, Zenon
    <3> QED BY <3>1, <3>6
  <2> QED BY <1>1, <1>9, <2>1, <2>2 DEF SessionInv, RecordInv
<1> QED BY <1>1, <1>6, <1>8, <1>11, <1>12 DEF SessionInv

(* A silent command changes only the statements. *)
LEMMA ServedSilent ==
    ASSUME SessionInv, ~LongOK, ~Dumps, NEW n, NEW cmd, NEW answer, Served(n, cmd, answer),
           cmd.k \in Silent
    PROVE  ReplyInv'
<1>1. /\ toServer' = Tail(toServer) /\ toServer \in Seq(Nat) /\ toServer # <<>>
      /\ n = toServer[1] /\ cmd = script[n] /\ cmd \in Command
      /\ fromServer' = fromServer \o Numbered(cmd, answer)
      /\ UNCHANGED <<script, eof, pc, read, statements, reply>>
  BY DEF Served
<1>2. answer = <<>> BY ServedHolds
<1>3. fromServer' = fromServer
  <2>1. PICK t : t = Numbered(cmd, <<>>) OBVIOUS
  <2>2. <<>> \in Seq(Packets) /\ Len(<<>>) = 0 BY EmptySeq
  <2>3. t \in Seq(Packets) /\ Len(t) = 0 BY <1>1, <2>1, <2>2, NumberedIs
  <2>4. t = <<>> BY <2>3
  <2>5. fromServer \in Seq(Packets) BY DEF SessionInv, ReplyTypes
  <2>6. fromServer \o <<>> = fromServer BY <2>5
  <2> QED BY <1>1, <1>2, <2>1, <2>4, <2>6
<1>4. prepared' = Effect(prepared, cmd)
  <2>1. cmd.k # "prepare" BY DEF Silent
  <2> QED BY <2>1, ServedPrepared
<1>5. ASSUME NEW g, Course(script, toServer, prepared, g)
      PROVE  \E h : /\ Course(script, toServer', prepared', h)
                    /\ h[Len(toServer') + 1] = g[Len(toServer) + 1]
                    /\ toServer' # <<>> => h[Len(toServer')] = g[Len(toServer)]
  <2>1. PICK h : /\ Course(script, Tail(toServer), Effect(prepared, script[toServer[1]]), h)
                 /\ h[Len(Tail(toServer)) + 1] = g[Len(toServer) + 1]
                 /\ Tail(toServer) # <<>> => h[Len(Tail(toServer))] = g[Len(toServer)]
    <3>1. PICK p, q, cmds : p = prepared /\ q = toServer /\ cmds = script OBVIOUS
    <3>2. q \in Seq(Nat) /\ q # <<>> /\ Course(cmds, q, p, g) BY <1>1, <1>5, <3>1
    <3>3. \E h : /\ Course(cmds, Tail(q), Effect(p, cmds[q[1]]), h)
                 /\ h[Len(Tail(q)) + 1] = g[Len(q) + 1]
                 /\ Tail(q) # <<>> => h[Len(Tail(q))] = g[Len(q)]
      BY <3>2, CourseTail
    <3> QED BY <3>1, <3>3, Zenon
  <2>2. Course(script, toServer', prepared', h)
    <3>1. prepared' = Effect(prepared, script[toServer[1]]) BY <1>1, <1>4
    <3> QED BY <1>1, <2>1, <3>1
  <2>3. h[Len(toServer') + 1] = g[Len(toServer) + 1] BY <1>1, <2>1
  <2>4. toServer' # <<>> => h[Len(toServer')] = g[Len(toServer)] BY <1>1, <2>1
  <2> QED BY <2>2, <2>3, <2>4
<1>6. ASSUME pc = "command"
      PROVE  fromServer = <<>> /\ \E h : /\ Course(script, toServer', prepared', h)
                                         /\ Agree(h[Len(toServer') + 1], statements)
  <2>1. PICK g : /\ Course(script, toServer, prepared, g)
                 /\ Agree(g[Len(toServer) + 1], statements)
    BY <1>6 DEF SessionInv, ReplyInv
  <2>2. fromServer = <<>> BY <1>6 DEF SessionInv, ReplyInv
  <2>3. PICK h : /\ Course(script, toServer', prepared', h)
                 /\ h[Len(toServer') + 1] = g[Len(toServer) + 1]
    BY <1>5, <2>1
  <2> QED BY <2>1, <2>2, <2>3
<1>7. ASSUME pc = "reply"
      PROVE  /\ toServer' # <<>> /\ reply.stage # "none" /\ Asking
             /\ \E h : /\ Course(script, toServer', prepared', h)
                       /\ Agree(h[Len(toServer') + 1], statements)
                       /\ script[read].k = "execute"
                             /\ h[Len(toServer')][script[read].id] # NoStatement =>
                          reply.statement = h[Len(toServer')][script[read].id]
  <2>1. toServer' # <<>>
    <3>1. toServer[Len(toServer)] = read /\ Answered(read)
      BY <1>1, <1>7 DEF SessionInv, QueueInv
    <3>2. n # read BY <1>1, <3>1 DEF Answered, Kind
    <3>3. Len(toServer) # 1 BY <1>1, <3>1, <3>2
    <3>4. Len(Tail(toServer)) = Len(toServer) - 1 /\ Len(toServer) \in Nat BY <1>1
    <3>5. Len(Tail(toServer)) # 0 BY <3>3, <3>4
    <3>6. Len(<<>>) = 0 OBVIOUS
    <3>7. Tail(toServer) # <<>> BY <3>5, <3>6
    <3> QED BY <1>1, <3>7
  <2>2. Asking /\ reply.stage # "none" BY <1>1, <1>7 DEF SessionInv, ReplyInv
  <2>3. PICK g : /\ Course(script, toServer, prepared, g)
                 /\ Agree(g[Len(toServer) + 1], statements)
                 /\ script[read].k = "execute"
                       /\ g[Len(toServer)][script[read].id] # NoStatement =>
                    reply.statement = g[Len(toServer)][script[read].id]
    BY <1>1, <1>7 DEF SessionInv, ReplyInv
  <2>4. PICK h : /\ Course(script, toServer', prepared', h)
                 /\ h[Len(toServer') + 1] = g[Len(toServer) + 1]
                 /\ toServer' # <<>> => h[Len(toServer')] = g[Len(toServer)]
    BY <1>5, <2>3
  <2>5. h[Len(toServer')] = g[Len(toServer)] BY <2>1, <2>4
  <2>6. Agree(h[Len(toServer') + 1], statements) BY <2>3, <2>4
  <2> QED BY <2>1, <2>2, <2>3, <2>4, <2>5, <2>6
<1>8. Asking => Asking' BY <1>1, <1>3 DEF Asking, View, V, FirstStage, NextSequence
<1> QED BY <1>1, <1>3, <1>6, <1>7, <1>8 DEF ReplyInv

(* A command with a reply: the reply is on its way, and it is the right one. *)
LEMMA ServedAnswered ==
    ASSUME SessionInv, ~LongOK, ~Dumps, NEW n, NEW cmd, NEW answer, Served(n, cmd, answer),
           cmd.k \notin Silent
    PROVE  ReplyInv'
<1>1. /\ toServer' = Tail(toServer) /\ toServer \in Seq(Nat) /\ toServer # <<>>
      /\ n = toServer[1] /\ cmd = script[n] /\ cmd \in Command /\ read \in Nat
      /\ fromServer' = fromServer \o Numbered(cmd, answer) /\ cmd.k \notin Intercepted
      /\ UNCHANGED <<script, eof, pc, read, statements, reply>>
  BY DEF Served
<1>2. Len(toServer) \in Nat /\ Len(toServer) > 0 /\ 1 \in 1..Len(toServer) BY <1>1
<1>3. pc # "command"
  <2>1. script[toServer[1]].k \notin Silent BY <1>1
  <2> QED BY <1>2, <2>1 DEF SessionInv, QueueInv, Kind
<1>4. CASE pc # "reply" BY <1>1, <1>3, <1>4 DEF ReplyInv
<1>5. CASE pc = "reply"
  <2>1. /\ toServer[Len(toServer)] = read
        /\ \A i \in 1..Len(toServer) - 1 : script[toServer[i]].k \in Silent
    BY <1>1, <1>5 DEF SessionInv, QueueInv, Kind
  <2>2. Len(toServer) = 1
    <3> SUFFICES ASSUME Len(toServer) # 1 PROVE FALSE OBVIOUS
    <3>0. PICK l \in Nat : l = Len(toServer) BY <1>2
    <3>1. 1 \in 1..Len(toServer) - 1
      <4>1. l > 0 /\ l # 1 BY <1>2, <3>0
      <4>2. 1 \in 1..l - 1 BY <4>1
      <4> QED BY <3>0, <4>2
    <3> QED BY <1>1, <2>1, <3>1
  <2>3. n = read /\ toServer' = <<>>
    <3>1. Tail(toServer) = <<>> BY <1>1, <2>2
    <3> QED BY <1>1, <2>1, <2>2, <3>1
  <2>4. /\ fromServer = <<>> /\ View(reply) = V(FirstStage(cmd), 0, 0, TRUE, 0)
        /\ reply.next = NextSequence(cmd) /\ reply.stage # "none"
    BY <1>1, <1>5, <2>3 DEF SessionInv, ReplyInv, Asking
  <2>5. PICK g : /\ Course(script, toServer, prepared, g)
                 /\ Agree(g[Len(toServer) + 1], statements)
                 /\ cmd.k = "execute" /\ g[Len(toServer)][cmd.id] # NoStatement =>
                       reply.statement = g[Len(toServer)][cmd.id]
    BY <1>1, <1>5, <2>3 DEF SessionInv, ReplyInv
  <2>6. /\ Agree(Effect(prepared, cmd), statements)
        /\ cmd.k = "execute" /\ prepared[cmd.id] # NoStatement =>
              reply.statement = prepared[cmd.id]
    <3>1. g[1] = prepared /\ g[1 + 1] = Effect(g[1], script[toServer[1]])
      BY <1>2, <2>5 DEF Course
    <3>2. g[Len(toServer)] = prepared /\ g[Len(toServer) + 1] = Effect(prepared, cmd)
      BY <1>1, <2>2, <3>1
    <3> QED BY <2>5, <3>2
  <2>7. Fits(cmd, answer) BY ServedHolds
  <2>8. PICK w, m, b :
          /\ m \in Int /\ b \in BOOLEAN
          /\ Reads(cmd.k, V(FirstStage(cmd), 0, 0, TRUE, 0), answer, w, m, b)
          /\ w.stage = "done" => w.ok = b /\ (b => w.rows = m)
          /\ cmd.k = "prepare" =>
                /\ answer[1].t = "prepared" =>
                      w.stage = "done" /\ w.ok = TRUE /\ w.id = answer[1].id /\ w.id \in Ids
                /\ w.stage = "done" /\ w.ok = TRUE => answer[1].t = "prepared"
    BY <2>7, Zenon DEF Fits
  <2>9. /\ Leads(eof, cmd.k, View(reply), answer, w) /\ Holds(answer, m, b)
        /\ answer \in Seq(Packets)
    BY <2>4, <2>8 DEF Reads, Holds
  <2>10. PICK t : t = Numbered(cmd, answer) OBVIOUS
  <2>11. /\ t \in Seq(Packets) /\ Len(t) = Len(answer)
         /\ \A i \in 1..Len(answer) : Alike(answer[i], t[i])
         /\ Chained(t, NextSequence(cmd))
    BY <1>1, <2>9, <2>10, NumberedIs
  <2>12. fromServer' = t
    <3>1. <<>> \o t = t BY <2>11
    <3> QED BY <1>1, <2>4, <2>10, <3>1
  <2>13. Leads(eof, cmd.k, View(reply), fromServer', w)
    BY <2>9, <2>11, <2>12, LeadsAlike
  <2>14. /\ truth'[n].ok = b /\ truth'[n].rows = m
         /\ cmd.k = "execute" => truth'[n].statement = prepared[cmd.id]
    BY <2>8, <2>9, ServedDeed
  <2>15. w.stage = "done" =>
           /\ w.ok = truth'[n].ok
           /\ w.ok => w.rows = truth'[n].rows
    BY <2>8, <2>14
  <2>16. ASSUME w.stage = "done", w.ok, cmd.k = "execute"
         PROVE  reply.statement = truth'[n].statement
    <3>1. b BY <2>8, <2>16
    <3>2. prepared[cmd.id] # NoStatement
      <4> SUFFICES ASSUME prepared[cmd.id] = NoStatement PROVE FALSE OBVIOUS
      <4>1. ~Known(cmd) BY DEF Known
      <4>2. answer = <<Err>>
        <5>1. /\ cmd.k # "query" /\ cmd.k \notin Silent BY <2>16
        <5>2. Replies(cmd) = IF Known(cmd) THEN Results ELSE {<<Err>>}
          BY <2>16, <5>1, Zenon DEF Replies
        <5>3. answer \in Replies(cmd) BY DEF Served
        <5> QED BY <4>1, <5>2, <5>3
      <4>3. Err.t = "err" BY PacketFields DEF Plainly
      <4>4. Len(answer) = 1 /\ answer[1] = Err BY <4>2
      <4>5. ~Clean(answer) BY <4>3, <4>4 DEF Clean
      <4> QED BY <2>9, <3>1, <4>5 DEF Holds
    <3> QED BY <2>6, <2>14, <2>16, <3>2
  <2>17. ASSUME w.stage = "done", w.ok, cmd.k = "prepare"
         PROVE  w.id \in Ids /\ prepared'[w.id] = [q |-> cmd.q, long |-> 0]
    <3>1. b /\ w.ok = b BY <2>8, <2>17
    <3>2. w.ok = TRUE BY <2>8, <3>1
    <3>3. answer[1].t = "prepared" BY <2>8, <2>17, <3>2
    <3>4. w.id = answer[1].id /\ w.id \in Ids BY <2>8, <2>17, <3>3
    <3>5. prepared'[answer[1].id] = [q |-> cmd.q, long |-> 0]
      BY <2>17, <3>3, ServedPrepared
    <3> QED BY <3>4, <3>5
  <2>18. Right(w)' BY <1>1, <2>3, <2>15, <2>16, <2>17 DEF Right
  <2>19. ASSUME NEW id \in Ids, prepared'[id] # NoStatement
         PROVE  \/ statements[id] = prepared'[id]
                \/ cmd.k = "prepare" /\ w.stage = "done" /\ w.ok /\ id = w.id
    <3>1. CASE ~(cmd.k = "prepare" /\ answer[1].t = "prepared")
      <4>1. prepared' = Effect(prepared, cmd) BY <3>1, ServedPrepared
      <4> QED BY <2>6, <2>19, <4>1 DEF Agree
    <3>2. CASE cmd.k = "prepare" /\ answer[1].t = "prepared"
      <4>0. \A i \in Ids : i # answer[1].id => prepared'[i] = prepared[i]
        <5>1. w.id = answer[1].id /\ w.id \in Ids BY <2>8, <3>2
        <5>2. prepared' = PreparedAfter(cmd, answer) /\ prepared \in [Ids -> Statement]
          BY DEF Served, SessionInv, ReplyTypes
        <5>3. answer[1].id \in Ids BY <5>1
        <5> QED BY <1>1, <3>2, <5>2, <5>3, PreparedNew
      <4>1. w.stage = "done" /\ w.ok /\ w.id = answer[1].id BY <2>8, <3>2
      <4>2. CASE id = w.id BY <3>2, <4>1, <4>2
      <4>3. CASE id # w.id
        <5>1. Effect(prepared, cmd) = prepared BY <3>2 DEF Effect
        <5>2. prepared'[id] = prepared[id] BY <4>0, <4>1, <4>3
        <5> QED BY <2>6, <2>19, <5>1, <5>2 DEF Agree
      <4> QED BY <4>2, <4>3
    <3> QED BY <3>1, <3>2
  <2>20. Hearing(w)'
    <3>1. Kind(read)' = cmd.k BY <1>1, <2>3 DEF Kind
    <3>2. Leads(eof', Kind(read)', View(reply'), fromServer', w) BY <1>1, <2>13, <3>1
    <3>3. \A id \in Ids :
            prepared'[id] # NoStatement =>
               \/ statements'[id] = prepared'[id]
               \/ Kind(read)' = "prepare" /\ w.stage = "done" /\ w.ok /\ id = w.id
      BY <1>1, <2>19, <3>1
    <3> QED BY <2>18, <3>2, <3>3, Zenon DEF Hearing
  <2>21. Chained(fromServer', reply'.next) BY <1>1, <2>4, <2>11, <2>12
  <2> QED BY <1>1, <1>5, <2>3, <2>4, <2>20, <2>21 DEF ReplyInv
<1> QED BY <1>4, <1>5

(* The server serves a command. *)
LEMMA ServeKeeps == ASSUME SessionInv, ~LongOK, ~Dumps, Serve PROVE ReplyPart'
<1>1. PICK n, cmd, answer : Served(n, cmd, answer) BY ServeServes
<1>2. ReplyTypes' /\ CountedInv' /\ StartedInv' /\ QueueInv' /\ RecordInv' /\ ~mismatch'
  BY <1>1, ServedRest
<1>3. ReplyInv' BY <1>1, ServedSilent, ServedAnswered
<1> QED BY <1>2, <1>3 DEF ReplyPart

-----------------------------------------------------------------------------
(* At first there is no reply. *)
LEMMA SessionInit == Init => SessionInv
<1> SUFFICES ASSUME Init PROVE SessionInv OBVIOUS
<1>1. CredentialsInv BY CredentialsInit
<1>2. /\ eof \in Modes /\ pc = "dial" /\ exchange = 1 /\ sequence = 1 /\ read = 0
      /\ statements = [id \in Ids |-> NoStatement] /\ reply = NoReply /\ toServer = <<>>
      /\ fromServer = <<>> /\ prepared = [id \in Ids |-> NoStatement]
      /\ truth = [n \in 1..Len(script) |-> NoTruth] /\ records = <<>> /\ mismatch = FALSE
  BY DEF Init
<1>3. ReplyTypes
  <2>1. eof \in BOOLEAN BY <1>2, MySQLAssumption
  <2>2. NoReply \in ReplyState BY StatementFacts DEF NoReply, ReplyState, Stages
  <2>3. NoTruth \in Deed BY StatementFacts DEF NoTruth, Deed
  <2>4. NoStatement \in Statement BY StatementFacts
  <2>5. fromServer \in Seq(Packets) /\ records \in Seq(RecordState) BY <1>2, EmptySeq
  <2>6. truth \in [1..Len(script) -> Deed] BY <1>2, <2>3
  <2>7. /\ statements \in [Ids -> Statement] /\ prepared \in [Ids -> Statement]
    BY <1>2, <2>4
  <2>8. sequence \in Nat /\ exchange \in Nat /\ reply \in ReplyState BY <1>2, <2>2
  <2> QED BY <2>1, <2>5, <2>6, <2>7, <2>8 DEF ReplyTypes
<1>4. CountedInv
  <2>1. SequenceMod \in Nat /\ SequenceMod > 1 BY MySQLAssumption
  <2>2. 1 % SequenceMod = 1
    <3>1. PICK q \in Nat : \E r \in 0..(SequenceMod - 1) :
             1 = (SequenceMod * q) + r /\ r = (1 % SequenceMod)
      BY <2>1, Euclid
    <3>2. PICK r \in 0..(SequenceMod - 1) :
             1 = (SequenceMod * q) + r /\ r = (1 % SequenceMod)
      BY <3>1
    <3>3. /\ (SequenceMod * 0) + 1 = (SequenceMod * q) + r /\ 1 \in 0..(SequenceMod - 1)
          /\ 0 \in Nat /\ SequenceMod > 0
      BY <2>1, <3>2
    <3>4. 1 = r BY <2>1, <3>3, Remainder
    <3> QED BY <3>2, <3>4
  <2> QED BY <1>2, <2>2 DEF CountedInv
<1>5. StartedInv BY <1>2 DEF StartedInv
<1>6. QueueInv BY <1>2 DEF QueueInv
<1>7. ReplyInv BY <1>2 DEF ReplyInv
<1>8. RecordInv BY <1>2 DEF RecordInv
<1> QED BY <1>1, <1>2, <1>3, <1>4, <1>5, <1>6, <1>7, <1>8 DEF SessionInv

(* Every step keeps the invariant. *)
LEMMA SessionNext == ASSUME SessionInv, ~LongOK, ~Dumps, [Next]_vars PROVE SessionInv'
<1>1. CredentialsInv'
  <2>1. CredentialsInv BY DEF SessionInv
  <2> QED BY <2>1, CredentialsNext
<1>2. ReplyPart'
  <2>1. CASE Handshake BY <2>1, HandshakeMoves, HandshakeKeeps
  <2>2. CASE ReadCommand BY <2>2, ReadCommandKeeps
  <2>3. CASE CommandFails BY <2>3, CommandFailsKeeps
  <2>4. CASE ReadReply BY <2>4, ReadReplyKeeps
  <2>5. CASE ReplyDone BY <2>5, ReplyDoneKeeps
  <2>6. CASE ReplyFails BY <2>6, ReplyFailsKeeps
  <2>7. CASE Serve BY <2>7, ServeKeeps
  <2>8. CASE Cancel \/ CloseOnCancel \/ UNCHANGED vars BY <2>8, CancelKeeps
  <2> QED
    BY <2>1, <2>2, <2>3, <2>4, <2>5, <2>6, <2>7, <2>8 DEF Next, Replying
<1> QED BY <1>1, <1>2 DEF SessionInv, ReplyPart

(* What the invariant says of the replies. *)
LEMMA SessionShows == SessionInv => InStep /\ Truthful
<1> SUFFICES ASSUME SessionInv PROVE InStep /\ Truthful OBVIOUS
<1>1. InStep
  <2>1. pc = "command" => fromServer = <<>> BY DEF SessionInv, ReplyInv
  <2>2. ASSUME pc = "reply", reply.stage \notin {"done", "fail"}, toServer = <<>>
        PROVE  fromServer # <<>>
    <3>1. PICK w : Hearing(w) BY <2>2 DEF SessionInv, ReplyInv
    <3>2. Leads(eof, Kind(read), View(reply), fromServer, w) BY <3>1 DEF Hearing
    <3>3. View(reply).stage = reply.stage BY DEF View, V
    <3>4. ~Over(View(reply)) BY <2>2, <3>3 DEF Over
    <3>5. fromServer \in Seq(Packets) BY DEF SessionInv, ReplyTypes
    <3> QED BY <3>2, <3>4, <3>5, LeadsOver
  <2> QED BY <2>1, <2>2 DEF InStep, SessionInv
<1>2. Truthful
  <2>1. records \in Seq(RecordState) BY DEF SessionInv, ReplyTypes
  <2>2. DOMAIN records = 1..Len(records) BY <2>1
  <2>3. \A i \in 1..Len(records) : Honest(records[i], script, read, toServer, truth)
    BY DEF SessionInv, RecordInv
  <2>4. pc = "command" => Len(records) = read + 1 BY DEF SessionInv, RecordInv
  <2>5. ASSUME NEW i \in DOMAIN records, records[i].what = "command",
               Kind(records[i].n) \notin Silent \cup Intercepted
        PROVE  LET r == records[i]
               IN  /\ r.ok = truth[r.n].ok
                   /\ r.ok => r.rows = truth[r.n].rows
                   /\ r.ok /\ Kind(r.n) = "execute" => r.statement = truth[r.n].statement
    BY <2>2, <2>3, <2>5 DEF Honest, Kind
  <2> QED BY <2>4, <2>5 DEF Truthful
<1> QED BY <1>1, <1>2

(***************************************************************************)
(* docs/mysql-compatibility.md: traffic "is forwarded and inspected        *)
(* without changing its result".  For every script, every reply of the     *)
(* model, EOF mode and number of packets, the parser of result.go knows    *)
(* where each reply ends: it never waits for a packet that does not come,  *)
(* leaves none behind, and never finds a packet out of sequence.  The      *)
(* hypothesis excludes what the parser is known not to recognise, an OK    *)
(* packet of nine bytes or more that ends the rows.                        *)
(***************************************************************************)
THEOREM RepliesStayInStep == ASSUME LongOK = FALSE, Dumps = FALSE PROVE Spec => []InStep
<1>1. ~LongOK /\ ~Dumps OBVIOUS
<1>2. SessionInv /\ [Next]_vars => SessionInv' BY <1>1, SessionNext
<1>3. SessionInv => InStep BY SessionShows
<1> QED BY <1>2, <1>3, SessionInit, PTL DEF Spec

(***************************************************************************)
(* Under the same hypothesis what is recorded of a command is what the     *)
(* server did: the outcome, the rows of all results together, and the text *)
(* and the long data of the statement it executed under that number.       *)
(***************************************************************************)
THEOREM RecordsAreTrue == ASSUME LongOK = FALSE, Dumps = FALSE PROVE Spec => []Truthful
<1>1. ~LongOK /\ ~Dumps OBVIOUS
<1>2. SessionInv /\ [Next]_vars => SessionInv' BY <1>1, SessionNext
<1>3. SessionInv => Truthful BY SessionShows
<1> QED BY <1>2, <1>3, SessionInit, PTL DEF Spec
=============================================================================
