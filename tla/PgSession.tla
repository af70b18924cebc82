----------------------------- MODULE PgSession -----------------------------
(***************************************************************************)
(* The connections of a PostgreSQL listener,                               *)
(* internal/proxy/postgresadapter/postgres.go and auth.go: how a client    *)
(* opens one, how Portscope authenticates it and opens its own session at  *)
(* the server, the cancel keys that all connections of an Adapter share,   *)
(* and the cancel requests that use them.  The messages of connection Main *)
(* are those of PgTracker.                                                 *)
(*                                                                         *)
(* The server hands out process IDs again once a session ended; its secret *)
(* is new for every session, and so is the key Portscope draws at random.  *)
(***************************************************************************)
EXTENDS PgTracker

CONSTANTS
    Conns,        \* client connections
    Main,         \* the one whose messages are tracked
    Pids,         \* process IDs of the server
    Workloads,    \* what the connections of a behaviour do
    MaxAttempts   \* startup packets acceptStartup reads

(***************************************************************************)
(* What a connection is: "client" with the listener's credentials,         *)
(* "stranger" without them, "replica" asks for replication, and "cancel"   *)
(* sends a CancelRequest with the key that connection `of` was given.      *)
(***************************************************************************)
Plans == [role : {"client", "stranger", "replica", "cancel", "absent"},
          direct : BOOLEAN,               \* TLS without an SSLRequest
          requests : Seq({"ssl", "gss"}), \* packets before the last one
          of : Conns]

ASSUME PgSessionAssumption ==
    /\ Main \in Conns /\ IsFiniteSet(Conns) /\ Pids \subseteq Nat \ {0}
    /\ MaxAttempts \in Nat /\ MaxAttempts >= 3
    /\ \A w \in Workloads :
         /\ w.session \in [script : Seq(Kinds), pipelined : BOOLEAN]
         /\ w.tls \in BOOLEAN
         /\ w.plan \in [Conns -> Plans]

VARIABLES
    plan, listenerTLS,  \* the workload: what each connection does, and the listener
    phase,              \* where each handler is
    attempts, secure,   \* acceptStartup: packets read, usingTLS
    backend,            \* at the server: process ID of the session of c, or 0
    upPid,              \* session.pid, as the handler read it
    cancels,            \* adapter.cancels: local key -> the server's key
    known,              \* the key each client was given
    target,             \* forwardCancel: what the lookup returned
    hits,               \* history: cancel connections and what they cancelled
    stopped             \* the context is cancelled

opening == <<plan, listenerTLS, attempts, secure>>
session == <<backend, upPid>>
keys == <<cancels, known, target>>
sessionVars == <<opening, phase, session, keys, hits, stopped>>

NoKey == <<"none", 0>>
None == [pid |-> 0, secret |-> Main]

SessionInit ==
    /\ \E w \in Workloads :
         /\ plan = w.plan /\ listenerTLS = w.tls
         /\ script = w.session.script /\ pipelined = w.session.pipelined
    /\ sent = 0 /\ toServer = <<>> /\ skipping = FALSE
    /\ truth = [n \in 1..Len(script) |-> "none"]
    /\ fromServer = <<>> /\ ready = 0
    /\ pending = <<>> /\ deferred = FALSE /\ recorded = <<>>
    /\ phase = [c \in Conns |-> IF plan[c].role = "absent" THEN "over" ELSE "peek"]
    /\ attempts = [c \in Conns |-> 0] /\ secure = [c \in Conns |-> FALSE]
    /\ backend = [c \in Conns |-> 0] /\ upPid = [c \in Conns |-> 0]
    /\ cancels = [k \in {} |-> None]
    /\ known = [c \in Conns |-> NoKey] /\ target = [c \in Conns |-> None]
    /\ hits = {} /\ stopped = FALSE

Goto(c, p) == phase' = [phase EXCEPT ![c] = p]

-----------------------------------------------------------------------------
(***************************************************************************)
(* acceptStartup                                                           *)
(***************************************************************************)

(* The first byte tells direct TLS, which a plaintext listener refuses. *)
Peek(c) ==
    /\ phase[c] = "peek"
    /\ IF ~plan[c].direct THEN Goto(c, "startup") /\ UNCHANGED secure
       ELSE IF ~listenerTLS THEN Goto(c, "over") /\ UNCHANGED secure
       ELSE Goto(c, "startup") /\ secure' = [secure EXCEPT ![c] = TRUE]
    /\ UNCHANGED <<vars, plan, listenerTLS, attempts, session, keys, hits, stopped>>

(* The packet that the loop of acceptStartup reads next. *)
Packet(c) ==
    IF attempts[c] < Len(plan[c].requests) THEN plan[c].requests[attempts[c] + 1]
    ELSE IF plan[c].role = "cancel" THEN "cancel" ELSE "start"

(* Fault: the loop gives up one packet too early. *)
MoreAttemptsFault(c) == attempts[c] < MaxAttempts - 1

MoreAttempts(c) == attempts[c] < MaxAttempts

(* A startup packet has to come over TLS when the listener has it. *)
StartAccepted(c) == listenerTLS => secure[c]

(* Where the packet leads, and whether TLS is used from then on. *)
AfterPacket(c, kind) ==
    CASE kind = "ssl"   -> IF secure[c] THEN "over" ELSE "startup"
      [] kind = "gss"   -> IF secure[c] THEN "over" ELSE "startup"
      [] kind = "cancel" -> "lookup"
      [] kind = "start" -> IF StartAccepted(c) THEN "scram" ELSE "over"

ReadStartup(c) ==
    LET kind == Packet(c)
    IN  /\ phase[c] = "startup" /\ MoreAttempts(c)
        /\ kind = "cancel" => known[plan[c].of] # NoKey
        /\ attempts' = [attempts EXCEPT ![c] = @ + 1]
        /\ secure' = [secure EXCEPT ![c] =
                        @ \/ (kind = "ssl" /\ listenerTLS)]
        /\ Goto(c, AfterPacket(c, kind))
        /\ UNCHANGED <<vars, plan, listenerTLS, session, keys, hits, stopped>>

TooManyRequests(c) ==
    /\ phase[c] = "startup" /\ ~MoreAttempts(c)
    /\ Goto(c, "over")
    /\ UNCHANGED <<vars, opening, session, keys, hits, stopped>>

(* The 20 s deadline, or a client that leaves, ends what is not yet relayed. *)
SetupFails(c) ==
    /\ phase[c] \in {"peek", "startup", "scram", "dial", "auth"}
    /\ Goto(c, "over")
    /\ backend' = [backend EXCEPT ![c] = 0]
    /\ UNCHANGED <<vars, opening, upPid, keys, hits, stopped>>

-----------------------------------------------------------------------------
(***************************************************************************)
(* handle: authentication on both sides                                    *)
(***************************************************************************)

(* authenticateListener, after the checks of replication and user name. *)
Authenticated(c) == plan[c].role = "client"

AuthenticateListener(c) ==
    /\ phase[c] = "scram"
    /\ Goto(c, IF Authenticated(c) THEN "dial" ELSE "over")
    /\ UNCHANGED <<vars, opening, session, keys, hits, stopped>>

FreePids == Pids \ {backend[d] : d \in Conns}

(* openUpstream: the server gives the new session a process ID of its own. *)
OpenUpstream(c) ==
    /\ phase[c] = "dial" /\ ~stopped
    /\ \E p \in FreePids : backend' = [backend EXCEPT ![c] = p]
    /\ Goto(c, "auth")
    /\ UNCHANGED <<vars, opening, upPid, keys, hits, stopped>>

(* authenticateUpstream: reads up to ReadyForQuery, BackendKeyData included. *)
AuthenticateUpstream(c) ==
    /\ phase[c] = "auth" /\ backend[c] # 0
    /\ upPid' = [upPid EXCEPT ![c] = backend[c]]
    /\ Goto(c, "register")
    /\ UNCHANGED <<vars, opening, backend, keys, hits, stopped>>

-----------------------------------------------------------------------------
(***************************************************************************)
(* handle: the session                                                     *)
(***************************************************************************)

(* Fault: the key is made from the server's process ID. *)
LocalKeyFault(c) == <<"local", upPid[c]>>

(* randomCancelKey: a key of its own for every connection. *)
LocalKey(c) == <<"random", c>>

Register(c) ==
    /\ phase[c] = "register"
    /\ cancels' = [k \in DOMAIN cancels \cup {LocalKey(c)} |->
                     IF k = LocalKey(c) THEN [pid |-> upPid[c], secret |-> c]
                     ELSE cancels[k]]
    /\ Goto(c, "greet")
    /\ UNCHANGED <<vars, opening, session, known, target, hits, stopped>>

(* The server's startup messages, BackendKeyData with the local key. *)
Greet(c) ==
    /\ phase[c] = "greet"
    /\ known' = [known EXCEPT ![c] = LocalKey(c)]
    /\ Goto(c, "relay")
    /\ UNCHANGED <<vars, opening, session, cancels, target, hits, stopped>>

(***************************************************************************)
(* The first relay that fails ends handle, as does a client that left      *)
(* before it was greeted: the client closes, the server does, or the       *)
(* goroutine that watches the context closes both.                         *)
(***************************************************************************)
RelayEnds(c) ==
    /\ phase[c] \in {"greet", "relay"}
    /\ Goto(c, "ending")
    /\ UNCHANGED <<vars, opening, session, keys, hits, stopped>>

(* Fault: the key is kept when its session ends. *)
WithoutKeyFault(c) == cancels

WithoutKey(c) == [k \in DOMAIN cancels \ {LocalKey(c)} |-> cancels[k]]

(* The deferred calls of handle, the last deferred first. *)
Unregister(c) ==
    /\ phase[c] = "ending"
    /\ cancels' = WithoutKey(c)
    /\ Goto(c, "closing")
    /\ UNCHANGED <<vars, opening, session, known, target, hits, stopped>>

CloseServer(c) ==
    /\ phase[c] = "closing"
    /\ backend' = [backend EXCEPT ![c] = 0]
    /\ Goto(c, "over")
    /\ UNCHANGED <<vars, opening, upPid, keys, hits, stopped>>

(* The server ends a session by itself; its process ID is free again. *)
ServerDrops(c) ==
    /\ backend[c] # 0 /\ phase[c] \in {"auth", "register", "greet", "relay"}
    /\ backend' = [backend EXCEPT ![c] = 0]
    /\ UNCHANGED <<vars, opening, phase, upPid, keys, hits, stopped>>

-----------------------------------------------------------------------------
(***************************************************************************)
(* forwardCancel: the lock covers the lookup and not what follows          *)
(***************************************************************************)
Lookup(c) ==
    LET key == known[plan[c].of]
    IN  /\ phase[c] = "lookup"
        /\ IF key \in DOMAIN cancels
             THEN target' = [target EXCEPT ![c] = cancels[key]] /\ Goto(c, "send")
             ELSE Goto(c, "over") /\ UNCHANGED target
        /\ UNCHANGED <<vars, opening, session, cancels, known, hits, stopped>>

(* The sessions a server cancels: process ID and secret have to match. *)
Victims(t) == {v \in Conns : backend[v] = t.pid /\ v = t.secret}

SendCancel(c) ==
    /\ phase[c] = "send"
    /\ hits' = hits \cup ({c} \X Victims(target[c]))
    /\ Goto(c, "over")
    /\ UNCHANGED <<vars, opening, session, keys, stopped>>

(* The server cannot be reached, or refuses TLS. *)
SendCancelFails(c) ==
    /\ phase[c] = "send"
    /\ Goto(c, "over")
    /\ UNCHANGED <<vars, opening, session, keys, hits, stopped>>

-----------------------------------------------------------------------------
Stop ==
    /\ ~stopped /\ stopped' = TRUE
    /\ UNCHANGED <<vars, opening, phase, session, keys, hits>>

(* The relays of connection Main. *)
Relay ==
    /\ phase[Main] = "relay" /\ backend[Main] # 0
    /\ Next
    /\ UNCHANGED sessionVars

(* Steps of a handler that only wait for itself or for a deadline. *)
Handler(c) ==
    \/ Peek(c) \/ ReadStartup(c) \/ TooManyRequests(c) \/ AuthenticateListener(c)
    \/ OpenUpstream(c) \/ AuthenticateUpstream(c) \/ Register(c) \/ Greet(c)
    \/ Unregister(c) \/ CloseServer(c) \/ Lookup(c)

Environment(c) ==
    SetupFails(c) \/ RelayEnds(c) \/ ServerDrops(c) \/ SendCancel(c)
    \/ SendCancelFails(c)

SessionNext ==
    \/ Relay \/ Stop
    \/ \E c \in Conns : Handler(c) \/ Environment(c)

(***************************************************************************)
(* Handlers are goroutines: what they can do they do.  The deadline of     *)
(* setup expires.  A relay ends when the server is gone or the context is  *)
(* cancelled, since both connections are closed then.  Nothing bounds the  *)
(* time forwardCancel waits for the server's answer to an SSLRequest: no   *)
(* fairness is assumed of SendCancel.                                      *)
(***************************************************************************)
SessionSpec == SessionInit /\ [][SessionNext]_<<vars, sessionVars>>

SessionFairSpec ==
    /\ SessionSpec
    /\ \A c \in Conns :
         /\ WF_<<vars, sessionVars>>(Handler(c))
         /\ WF_<<vars, sessionVars>>(SetupFails(c))
         /\ WF_<<vars, sessionVars>>(RelayEnds(c) /\ (stopped \/ backend[c] = 0))

-----------------------------------------------------------------------------
(***************************************************************************)
(* Properties                                                              *)
(***************************************************************************)

(***************************************************************************)
(* "A matching CancelRequest is translated back to the actual upstream     *)
(* key" (docs/postgres-compatibility.md): while a session is relayed the   *)
(* key its client was given stands for that session, and a cancel          *)
(* interrupts no other one, although the session it names may have ended   *)
(* between the lookup and the send, and its process ID been used again.    *)
(***************************************************************************)
CancelsOwn ==
    /\ \A c \in Conns : phase[c] = "relay" =>
         /\ known[c] \in DOMAIN cancels
         /\ cancels[known[c]] = [pid |-> upPid[c], secret |-> c]
    /\ \A h \in hits : h[2] = plan[h[1]].of

(* What drivers send before the startup packet, and the listener supports. *)
Usual(c) ==
    /\ ~plan[c].direct \/ (listenerTLS /\ plan[c].requests = <<>>)
    /\ plan[c].requests \in {<<>>, <<"ssl">>, <<"gss">>, <<"gss", "ssl">>}
    /\ listenerTLS => plan[c].direct \/ plan[c].requests \in {<<"ssl">>, <<"gss", "ssl">>}

(***************************************************************************)
(* "Plaintext is rejected when listener TLS is required", and the server   *)
(* hears only of clients that authenticated to the listener; on the other  *)
(* hand acceptStartup turns no client away that asks for encryption the    *)
(* way drivers do, GSS first and TLS next.                                 *)
(***************************************************************************)
Admission ==
    \A c \in Conns :
        /\ phase[c] \in {"dial", "auth", "register", "greet", "relay"} \/ backend[c] # 0
           => plan[c].role = "client" /\ (listenerTLS => secure[c])
        /\ Usual(c) /\ phase[c] = "startup"
           => MoreAttempts(c) /\ AfterPacket(c, Packet(c)) # "over"

(***************************************************************************)
(* After the context is cancelled every handler returns, whatever phase it *)
(* is in, but for one that is sending a cancel; no session is left at the  *)
(* server and no key in the map.                                           *)
(***************************************************************************)
SessionsEnd ==
    stopped ~> /\ \A c \in Conns : phase[c] \in {"over", "send"} /\ backend[c] = 0
               /\ cancels = <<>>
=============================================================================
