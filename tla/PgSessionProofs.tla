-------------------------- MODULE PgSessionProofs --------------------------
(***************************************************************************)
(* Proofs about PgSession, for any number of connections, process IDs and  *)
(* workloads: a cancel reaches the session it names and no other; only     *)
(* clients that authenticated, over TLS where the listener has it, are     *)
(* heard of at the server; and what the tracker records of a session it    *)
(* can follow is what happened, each query once.                           *)
(*                                                                         *)
(* For the first two the inductive invariant says what the map of cancel   *)
(* keys holds between Register and Unregister, where the handlers can be   *)
(* while a session is open, and how far acceptStartup has read.  For the   *)
(* tracker it says how the queue of pending queries relates to what is on  *)
(* its way to the server and back.                                         *)
(***************************************************************************)
EXTENDS PgSession, FiniteSetTheorems, TLAPS

Phases == {"peek", "startup", "scram", "dial", "auth", "register", "greet", "relay",
           "ending", "closing", "lookup", "send", "over"}

SessionTypeOK ==
    /\ plan \in [Conns -> Plans] /\ listenerTLS \in BOOLEAN
    /\ phase \in [Conns -> Phases]
    /\ attempts \in [Conns -> Nat] /\ secure \in [Conns -> BOOLEAN]
    /\ backend \in [Conns -> Nat] /\ upPid \in [Conns -> Nat]
    /\ DOMAIN known = Conns
    /\ target \in [Conns -> [pid : Nat, secret : Conns]]
    /\ hits \in SUBSET (Conns \X Conns)

(* Handlers that hold an entry of the map of cancel keys. *)
Registered == {"greet", "relay", "ending"}

(* The map holds the server's key of every registered session and nothing else. *)
KeysInv ==
    /\ \A k \in DOMAIN cancels : \E c \in Conns :
         k = LocalKey(c) /\ cancels[k] = [pid |-> upPid[c], secret |-> c]
                         /\ phase[c] \in Registered
    /\ \A c \in Conns : phase[c] \in Registered => LocalKey(c) \in DOMAIN cancels
    /\ \A c \in Conns : known[c] \in {NoKey, LocalKey(c)}
    /\ \A c \in Conns : phase[c] = "relay" => known[c] = LocalKey(c)

(* What a cancel connection looked up is the key of the session it names. *)
CancelInv ==
    /\ \A c \in Conns : phase[c] = "send" => target[c].secret = plan[c].of
    /\ \A h \in hits : h[2] = plan[h[1]].of

(* Handlers past the listener's authentication. *)
Opened == {"dial", "auth", "register", "greet", "relay", "ending", "closing"}

AdmitInv ==
    /\ \A c \in Conns : phase[c] = "scram" => StartAccepted(c)
    /\ \A c \in Conns : phase[c] \in Opened => Authenticated(c) /\ StartAccepted(c)
    /\ \A c \in Conns : backend[c] # 0 => phase[c] \in Opened

(* The loop read n packets of plan p; TLS is on if one of them was granted it. *)
ReadSoFar(n, usingTLS, p, tls) ==
    /\ n <= Len(p.requests)
    /\ p.direct => tls
    /\ usingTLS <=> p.direct \/ (tls /\ \E i \in 1..n : p.requests[i] = "ssl")

StartupInv ==
    /\ \A c \in Conns : phase[c] = "peek" => attempts[c] = 0 /\ ~secure[c]
    /\ \A c \in Conns :
         phase[c] = "startup" => ReadSoFar(attempts[c], secure[c], plan[c], listenerTLS)

IInv == SessionTypeOK /\ KeysInv /\ CancelInv /\ AdmitInv /\ StartupInv

USE DEF Phases

-----------------------------------------------------------------------------

(* A random local key is not the key of another connection, and never the   *)
(* one a client has that was given none.                                    *)
LEMMA KeysDiffer ==
    ASSUME NEW c, NEW d
    PROVE  /\ LocalKey(c) = LocalKey(d) => c = d
           /\ LocalKey(c) # NoKey
  BY DEF LocalKey, NoKey

(* Another packet read extends the positions read by one. *)
LEMMA IntervalStep ==
    ASSUME NEW n \in Nat
    PROVE  \A i : i \in 1..(n + 1) <=> i \in 1..n \/ i = n + 1
  OBVIOUS

(* The state SessionInit describes satisfies the invariant. *)
LEMMA InitInv == SessionInit => IInv
  <1> SUFFICES ASSUME SessionInit PROVE IInv
    OBVIOUS
  <1>1. PICK w \in Workloads : plan = w.plan /\ listenerTLS = w.tls
    BY DEF SessionInit
  <1>2. plan \in [Conns -> Plans] /\ listenerTLS \in BOOLEAN
    BY <1>1, PgSessionAssumption
  <1>3. \A c \in Conns : phase[c] \in {"over", "peek"}
    BY DEF SessionInit
  <1>4. SessionTypeOK
    BY <1>2, PgSessionAssumption DEF SessionInit, SessionTypeOK, None
  <1>5. KeysInv
    BY <1>3 DEF SessionInit, KeysInv, Registered
  <1>6. CancelInv
    BY <1>3 DEF SessionInit, CancelInv
  <1>7. AdmitInv
    BY <1>3 DEF SessionInit, AdmitInv, Opened
  <1>8. StartupInv
    BY <1>3 DEF SessionInit, StartupInv
  <1> QED BY <1>4, <1>5, <1>6, <1>7, <1>8 DEF IInv

(* Every step of a connection keeps the types of the session's state. *)
LEMMA TypeStep ==
    ASSUME IInv, NEW c \in Conns, Handler(c) \/ Environment(c)
    PROVE  SessionTypeOK'
  <1> USE DEF IInv, SessionTypeOK, opening, session, keys, Goto
  <1>1. CASE Peek(c)
    BY <1>1 DEF Peek
  <1>2. CASE ReadStartup(c)
    <2>1. AfterPacket(c, Packet(c)) \in Phases
      BY DEF AfterPacket, Packet, Plans
    <2> QED BY <1>2, <2>1 DEF ReadStartup
  <1>3. CASE TooManyRequests(c) \/ AuthenticateListener(c) \/ RelayEnds(c)
               \/ SendCancelFails(c)
    BY <1>3 DEF TooManyRequests, AuthenticateListener, RelayEnds, SendCancelFails
  <1>4. CASE SetupFails(c) \/ CloseServer(c) \/ ServerDrops(c)
    BY <1>4 DEF SetupFails, CloseServer, ServerDrops
  <1>5. CASE OpenUpstream(c)
    BY <1>5, PgSessionAssumption DEF OpenUpstream, FreePids
  <1>6. CASE AuthenticateUpstream(c)
    BY <1>6 DEF AuthenticateUpstream
  <1>7. CASE Register(c) \/ Unregister(c)
    BY <1>7 DEF Register, Unregister
  <1>8. CASE Greet(c)
    BY <1>8 DEF Greet
  <1>9. CASE Lookup(c)
    <2>1. CASE known[plan[c].of] \in DOMAIN cancels
      <3>1. cancels[known[plan[c].of]] \in [pid : Nat, secret : Conns]
        BY <2>1 DEF KeysInv
      <3> QED BY <1>9, <2>1, <3>1 DEF Lookup
    <2>2. CASE known[plan[c].of] \notin DOMAIN cancels
      BY <1>9, <2>2 DEF Lookup
    <2> QED BY <2>1, <2>2
  <1>10. CASE SendCancel(c)
    <2>1. Victims(target[c]) \subseteq Conns
      BY DEF Victims
    <2> QED BY <1>10, <2>1 DEF SendCancel
  <1> QED
    BY <1>1, <1>2, <1>3, <1>4, <1>5, <1>6, <1>7, <1>8, <1>9, <1>10
    DEF Handler, Environment

(***************************************************************************)
(* What AfterPacket leads to: TLS or GSS keeps reading unless it is asked  *)
(* for a second time, a startup packet goes on to authentication if it     *)
(* came the way the listener asks for.                                     *)
(***************************************************************************)
LEMMA PacketOutcome ==
    ASSUME IInv, NEW c \in Conns
    PROVE  LET next == AfterPacket(c, Packet(c))
           IN  /\ next \in {"over", "startup", "lookup", "scram"}
               /\ next = "scram" => StartAccepted(c) /\ Packet(c) = "start"
               /\ next = "startup" => Packet(c) \in {"ssl", "gss"} /\ ~secure[c]
               /\ next = "over" => \/ Packet(c) \in {"ssl", "gss"} /\ secure[c]
                                   \/ Packet(c) = "start" /\ ~StartAccepted(c)
  <1> DEFINE kind == Packet(c)
  <1>1. kind \in {"ssl", "gss", "cancel", "start"}
    BY DEF IInv, SessionTypeOK, Packet, Plans
  <1> HIDE DEF kind
  <1>2. CASE kind = "ssl"
    <2>1. AfterPacket(c, "ssl") = IF secure[c] THEN "over" ELSE "startup"
      BY DEF AfterPacket
    <2> QED BY <1>2, <2>1 DEF kind
  <1>3. CASE kind = "gss"
    <2>1. AfterPacket(c, "gss") = IF secure[c] THEN "over" ELSE "startup"
      BY DEF AfterPacket
    <2> QED BY <1>3, <2>1 DEF kind
  <1>4. CASE kind = "cancel"
    BY <1>4 DEF AfterPacket, kind
  <1>5. CASE kind = "start"
    BY <1>5 DEF AfterPacket, kind
  <1> QED BY <1>1, <1>2, <1>3, <1>4, <1>5

(* What the usual clients ask for before they start: TLS last, if at all. *)
LEMMA UsualRequests ==
    \A s \in {<<>>, <<"ssl">>, <<"gss">>, <<"gss", "ssl">>} :
       /\ Len(s) \in {0, 1, 2}
       /\ \A i \in 1..Len(s) : s[i] \in {"ssl", "gss"} /\ (i < Len(s) => s[i] = "gss")
       /\ s \in {<<"ssl">>, <<"gss", "ssl">>} => \E i \in 1..Len(s) : s[i] = "ssl"
<1>1. ASSUME NEW s, s = <<>>
      PROVE  Len(s) = 0 /\ s # <<"ssl">> /\ s # <<"gss", "ssl">>
  BY <1>1
<1>2. ASSUME NEW s, s = <<"ssl">> PROVE Len(s) = 1 /\ s[1] = "ssl"
  BY <1>2
<1>3. ASSUME NEW s, s = <<"gss">>
      PROVE  Len(s) = 1 /\ s[1] = "gss" /\ s # <<"ssl">> /\ s # <<"gss", "ssl">>
  <2>1. Len(s) = 1 /\ s[1] = "gss" BY <1>3
  <2>2. <<"ssl">>[1] = "ssl" /\ Len(<<"gss", "ssl">>) = 2 OBVIOUS
  <2> QED BY <2>1, <2>2
<1>4. ASSUME NEW s, s = <<"gss", "ssl">>
      PROVE  Len(s) = 2 /\ s[1] = "gss" /\ s[2] = "ssl"
  BY <1>4
<1> QED
  <2> SUFFICES ASSUME NEW s, s \in {<<>>, <<"ssl">>, <<"gss">>, <<"gss", "ssl">>}
               PROVE  /\ Len(s) \in {0, 1, 2}
                      /\ \A i \in 1..Len(s) :
                            s[i] \in {"ssl", "gss"} /\ (i < Len(s) => s[i] = "gss")
                      /\ s \in {<<"ssl">>, <<"gss", "ssl">>} =>
                            \E i \in 1..Len(s) : s[i] = "ssl"
    OBVIOUS
  <2>0. /\ \A i \in 1..0 : FALSE
        /\ \A i \in 1..1 : i = 1
        /\ \A i \in 1..2 : i = 1 \/ i = 2
        /\ 1 \in 1..1 /\ 2 \in 1..2 /\ ~(2 < 2) /\ ~(1 < 1)
    OBVIOUS
  <2>1. CASE s = <<>> BY <1>1, <2>0, <2>1, Zenon
  <2>2. CASE s = <<"ssl">> BY <1>2, <2>0, <2>2, Zenon
  <2>3. CASE s = <<"gss">> BY <1>3, <2>0, <2>3, Zenon
  <2>4. CASE s = <<"gss", "ssl">> BY <1>4, <2>0, <2>4, Zenon
  <2> QED BY <2>1, <2>2, <2>3, <2>4

(* Every step of a connection keeps the map of cancel keys in step with it. *)
LEMMA KeysStep ==
    ASSUME IInv, NEW c \in Conns, Handler(c) \/ Environment(c)
    PROVE  KeysInv'
  <1> USE DEF SessionTypeOK, opening, session, keys, Goto, Registered
  <1> SessionTypeOK /\ KeysInv
    BY DEF IInv
  <1>1. CASE /\ UNCHANGED <<cancels, upPid, known>>
             /\ \E p \in Phases \ Registered : phase' = [phase EXCEPT ![c] = p]
             /\ phase[c] \notin Registered
    <2>1. \A d \in Conns : phase'[d] \in Registered <=> phase[d] \in Registered
      BY <1>1
    <2>2. \A d \in Conns : phase'[d] = "relay" => phase[d] = "relay"
      BY <1>1
    <2>3. \A d \in Conns : LocalKey(d)' = LocalKey(d)
      BY DEF LocalKey
    <2> QED BY <1>1, <2>1, <2>2, <2>3 DEF KeysInv, NoKey
  <1>2. CASE Peek(c) \/ TooManyRequests(c) \/ AuthenticateListener(c) \/ CloseServer(c)
             \/ SetupFails(c) \/ OpenUpstream(c) \/ Lookup(c) \/ SendCancel(c)
             \/ SendCancelFails(c)
    BY <1>1, <1>2 DEF Peek, TooManyRequests, AuthenticateListener, CloseServer,
         SetupFails, OpenUpstream, Lookup, SendCancel, SendCancelFails
  <1>3. CASE ReadStartup(c)
    BY <1>1, <1>3, PacketOutcome DEF ReadStartup
  <1>4. CASE AuthenticateUpstream(c)
    <2>1. \A d \in Conns : phase'[d] \in Registered <=> phase[d] \in Registered
      BY <1>4 DEF AuthenticateUpstream
    <2>2. \A d \in Conns : phase[d] \in Registered => upPid'[d] = upPid[d]
      BY <1>4 DEF AuthenticateUpstream
    <2>3. \A d \in Conns : phase'[d] = "relay" => phase[d] = "relay"
      BY <1>4 DEF AuthenticateUpstream
    <2>4. UNCHANGED <<cancels, known>>
      BY <1>4 DEF AuthenticateUpstream
    <2> QED BY <2>1, <2>2, <2>3, <2>4 DEF KeysInv, LocalKey, NoKey
  <1>5. CASE Register(c)
    <2>1. /\ DOMAIN cancels' = DOMAIN cancels \cup {LocalKey(c)}
          /\ cancels'[LocalKey(c)] = [pid |-> upPid[c], secret |-> c]
          /\ \A k \in DOMAIN cancels \ {LocalKey(c)} : cancels'[k] = cancels[k]
      BY <1>5 DEF Register
    <2>2. /\ phase[c] = "register" /\ phase' = [phase EXCEPT ![c] = "greet"]
          /\ UNCHANGED <<upPid, known>>
      BY <1>5 DEF Register
    <2> HIDE DEF SessionTypeOK
    <2>3. \A d \in Conns : LocalKey(d)' = LocalKey(d) /\ NoKey' = NoKey
      BY DEF LocalKey, NoKey
    <2>4. ASSUME NEW k \in DOMAIN cancels'
          PROVE  \E d \in Conns : k = LocalKey(d) /\ phase'[d] \in Registered
                          /\ cancels'[k] = [pid |-> upPid'[d], secret |-> d]
      BY <2>1, <2>2 DEF KeysInv, SessionTypeOK
    <2>5. \A d \in Conns : phase'[d] \in Registered => LocalKey(d) \in DOMAIN cancels'
      BY <2>1, <2>2 DEF KeysInv, SessionTypeOK
    <2>6. \A d \in Conns : phase'[d] = "relay" => phase[d] = "relay"
      BY <2>2 DEF SessionTypeOK
    <2> QED BY <2>2, <2>3, <2>4, <2>5, <2>6 DEF KeysInv
  <1>6. CASE Greet(c)
    <2>1. /\ phase[c] = "greet" /\ phase' = [phase EXCEPT ![c] = "relay"]
          /\ known' = [known EXCEPT ![c] = LocalKey(c)]
          /\ UNCHANGED <<upPid, cancels>>
      BY <1>6 DEF Greet
    <2>2. \A d \in Conns : phase'[d] \in Registered <=> phase[d] \in Registered
      BY <2>1
    <2> QED BY <2>1, <2>2 DEF KeysInv, LocalKey, NoKey
  <1>7. CASE RelayEnds(c)
    <2>1. /\ phase[c] \in {"greet", "relay"} /\ phase' = [phase EXCEPT ![c] = "ending"]
          /\ UNCHANGED <<upPid, cancels, known>>
      BY <1>7 DEF RelayEnds
    <2>2. \A d \in Conns : phase'[d] \in Registered <=> phase[d] \in Registered
      BY <2>1
    <2> QED BY <2>1, <2>2 DEF KeysInv, LocalKey, NoKey
  <1>8. CASE Unregister(c)
    <2>1. /\ DOMAIN cancels' = DOMAIN cancels \ {LocalKey(c)}
          /\ \A k \in DOMAIN cancels \ {LocalKey(c)} : cancels'[k] = cancels[k]
      BY <1>8 DEF Unregister, WithoutKey
    <2>2. /\ phase[c] = "ending" /\ phase' = [phase EXCEPT ![c] = "closing"]
          /\ UNCHANGED <<upPid, known>>
      BY <1>8 DEF Unregister
    <2>3. \A d \in Conns : LocalKey(d)' = LocalKey(d) /\ NoKey' = NoKey
      BY DEF LocalKey, NoKey
    <2>4. ASSUME NEW k \in DOMAIN cancels'
          PROVE  \E d \in Conns : k = LocalKey(d) /\ phase'[d] \in Registered
                          /\ cancels'[k] = [pid |-> upPid'[d], secret |-> d]
      BY <2>1, <2>2 DEF KeysInv
    <2>5. \A d \in Conns : phase'[d] \in Registered => LocalKey(d) \in DOMAIN cancels'
      BY <2>1, <2>2, KeysDiffer DEF KeysInv
    <2>6. \A d \in Conns : phase'[d] = "relay" => phase[d] = "relay"
      BY <2>2
    <2> QED BY <2>2, <2>3, <2>4, <2>5, <2>6 DEF KeysInv
  <1>9. CASE ServerDrops(c)
    BY <1>9 DEF ServerDrops, KeysInv, LocalKey, NoKey
  <1> QED
    BY <1>2, <1>3, <1>4, <1>5, <1>6, <1>7, <1>8, <1>9 DEF Handler, Environment

(* Every step of a connection keeps a cancel with the session it names. *)
LEMMA CancelStep ==
    ASSUME IInv, NEW c \in Conns, Handler(c) \/ Environment(c)
    PROVE  CancelInv'
  <1> USE DEF SessionTypeOK, opening, session, keys, Goto
  <1> SessionTypeOK /\ KeysInv /\ CancelInv
    BY DEF IInv
  <1>1. CASE /\ UNCHANGED <<plan, target, hits>>
             /\ \E p \in Phases \ {"send"} : phase' = [phase EXCEPT ![c] = p]
    BY <1>1 DEF CancelInv
  <1>2. CASE Lookup(c)
    <2>1. CASE known[plan[c].of] \in DOMAIN cancels
      <3>1. PICK d \in Conns : /\ known[plan[c].of] = LocalKey(d)
                               /\ cancels[known[plan[c].of]].secret = d
        BY <2>1 DEF KeysInv
      <3>2. plan[c].of \in Conns
        BY DEF Plans
      <3>3. d = plan[c].of
        BY <3>1, <3>2, KeysDiffer DEF KeysInv
      <3> QED BY <1>2, <2>1, <3>1, <3>3 DEF Lookup, CancelInv
    <2>2. CASE known[plan[c].of] \notin DOMAIN cancels
      BY <1>2, <2>2 DEF Lookup, CancelInv
    <2> QED BY <2>1, <2>2
  <1>3. CASE SendCancel(c)
    <2>1. \A v \in Victims(target[c]) : v = plan[c].of
      BY <1>3 DEF SendCancel, Victims, CancelInv
    <2>2. \A h \in {c} \X Victims(target[c]) : h[2] = plan[h[1]].of
      BY <2>1
    <2>3. /\ hits' = hits \cup ({c} \X Victims(target[c]))
          /\ phase' = [phase EXCEPT ![c] = "over"] /\ UNCHANGED <<plan, target>>
      BY <1>3 DEF SendCancel
    <2> QED BY <2>2, <2>3 DEF CancelInv
  <1>4. CASE ReadStartup(c)
    BY <1>1, <1>4, PacketOutcome DEF ReadStartup
  <1>5. CASE ServerDrops(c)
    BY <1>5 DEF ServerDrops, CancelInv
  <1>6. CASE Peek(c) \/ TooManyRequests(c) \/ AuthenticateListener(c) \/ SetupFails(c)
             \/ OpenUpstream(c) \/ AuthenticateUpstream(c) \/ Register(c) \/ Greet(c)
             \/ RelayEnds(c) \/ Unregister(c) \/ CloseServer(c) \/ SendCancelFails(c)
    BY <1>1, <1>6 DEF Peek, TooManyRequests, AuthenticateListener, SetupFails,
         OpenUpstream, AuthenticateUpstream, Register, Greet, RelayEnds, Unregister,
         CloseServer, SendCancelFails
  <1> QED BY <1>2, <1>3, <1>4, <1>5, <1>6 DEF Handler, Environment

(* Every step of a connection leaves the server to admitted clients. *)
LEMMA AdmitStep ==
    ASSUME IInv, NEW c \in Conns, Handler(c) \/ Environment(c)
    PROVE  AdmitInv'
  <1> USE DEF SessionTypeOK, opening, session, keys, Goto, Opened, StartAccepted,
              Authenticated
  <1> SessionTypeOK /\ AdmitInv
    BY DEF IInv
  <1>1. CASE Peek(c)
    <2>1. /\ phase[c] = "peek" /\ UNCHANGED <<plan, backend, listenerTLS>>
          /\ \/ phase' = [phase EXCEPT ![c] = "startup"]
             \/ phase' = [phase EXCEPT ![c] = "over"]
          /\ \A d \in Conns : d # c => secure'[d] = secure[d]
      BY <1>1 DEF Peek
    <2>2. /\ phase'[c] \in {"startup", "over"}
          /\ \A d \in Conns : d # c => phase'[d] = phase[d]
      BY <2>1
    <2>3. backend[c] = 0 BY <2>1 DEF AdmitInv
    <2>4. phase'[c] # "scram" /\ phase'[c] \notin Opened /\ backend'[c] = 0
      BY <2>1, <2>2, <2>3
    <2>5. ASSUME NEW d \in Conns, d # c
          PROVE  /\ phase'[d] = "scram" => StartAccepted(d)'
                 /\ phase'[d] \in Opened => Authenticated(d)' /\ StartAccepted(d)'
                 /\ backend'[d] # 0 => phase'[d] \in Opened
      BY <2>1, <2>2, <2>5 DEF AdmitInv
    <2> QED BY <2>4, <2>5 DEF AdmitInv
  <1>2. CASE ReadStartup(c)
    <2>1. /\ phase[c] = "startup" /\ phase' = [phase EXCEPT ![c] = AfterPacket(c, Packet(c))]
          /\ UNCHANGED <<plan, listenerTLS, backend>>
          /\ \A d \in Conns \ {c} : secure'[d] = secure[d]
          /\ secure[c] => secure'[c]
      BY <1>2 DEF ReadStartup
    <2>2. /\ AfterPacket(c, Packet(c)) \notin Opened
          /\ AfterPacket(c, Packet(c)) = "scram" => StartAccepted(c)
      BY PacketOutcome
    <2> HIDE DEF StartAccepted
    <2>3. \A d \in Conns : StartAccepted(d) => StartAccepted(d)'
      BY <2>1 DEF StartAccepted
    <2> QED BY <2>1, <2>2, <2>3 DEF AdmitInv
  <1>3. CASE TooManyRequests(c) \/ SetupFails(c) \/ CloseServer(c)
    BY <1>3 DEF TooManyRequests, SetupFails, CloseServer, AdmitInv
  <1>4. CASE AuthenticateListener(c)
    BY <1>4 DEF AuthenticateListener, AdmitInv
  <1>5. CASE OpenUpstream(c)
    BY <1>5 DEF OpenUpstream, AdmitInv
  <1>6. CASE /\ phase[c] \in Opened /\ \E p \in Opened : phase' = [phase EXCEPT ![c] = p]
             /\ UNCHANGED <<plan, listenerTLS, secure, backend>>
    BY <1>6 DEF AdmitInv
  <1>7. CASE ServerDrops(c)
    BY <1>7 DEF ServerDrops, AdmitInv
  <1>8. CASE /\ phase[c] \notin Opened
             /\ \E p \in {"send", "over"} : phase' = [phase EXCEPT ![c] = p]
             /\ UNCHANGED <<plan, listenerTLS, secure, backend>>
    BY <1>8 DEF AdmitInv
  <1>9. CASE AuthenticateUpstream(c) \/ Register(c) \/ Greet(c) \/ RelayEnds(c)
             \/ Unregister(c)
    BY <1>6, <1>9 DEF AuthenticateUpstream, Register, Greet, RelayEnds, Unregister
  <1>10. CASE Lookup(c)
    BY <1>8, <1>10 DEF Lookup
  <1>11. CASE SendCancel(c) \/ SendCancelFails(c)
    BY <1>8, <1>11 DEF SendCancel, SendCancelFails
  <1> QED
    BY <1>1, <1>2, <1>3, <1>4, <1>5, <1>7, <1>9, <1>10, <1>11 DEF Handler, Environment

(* Every step of a connection keeps count of the packets acceptStartup read. *)
LEMMA StartupStep ==
    ASSUME IInv, NEW c \in Conns, Handler(c) \/ Environment(c)
    PROVE  StartupInv'
  <1> USE DEF SessionTypeOK, opening, session, keys, Goto
  <1> SessionTypeOK /\ StartupInv
    BY DEF IInv
  <1>1. CASE Peek(c)
    <2>1. plan[c].requests \in Seq({"ssl", "gss"}) /\ plan[c].direct \in BOOLEAN
      BY DEF Plans
    <2>2. \A d \in Conns \ {c} : phase'[d] = phase[d] /\ secure'[d] = secure[d]
      BY <1>1 DEF Peek
    <2>3. /\ phase'[c] \in {"startup", "over"}
          /\ phase'[c] = "startup" => /\ secure'[c] <=> plan[c].direct
                                      /\ plan[c].direct => listenerTLS
          /\ attempts[c] = 0 /\ UNCHANGED <<plan, listenerTLS, attempts>>
      BY <1>1, <2>1 DEF Peek, StartupInv
    <2>4. /\ attempts'[c] <= Len(plan[c].requests)
          /\ ~ \E i \in 1..attempts'[c] : plan[c].requests[i] = "ssl"
      BY <2>1, <2>3
    <2>5. phase'[c] = "startup" => ReadSoFar(attempts'[c], secure'[c], plan'[c], listenerTLS')
      BY <2>3, <2>4 DEF ReadSoFar
    <2> QED BY <2>2, <2>3, <2>5 DEF StartupInv
  <1>2. CASE ReadStartup(c)
    <2>1. /\ phase[c] = "startup" /\ UNCHANGED <<plan, listenerTLS>>
          /\ phase' = [phase EXCEPT ![c] = AfterPacket(c, Packet(c))]
          /\ attempts' = [attempts EXCEPT ![c] = @ + 1]
          /\ secure' = [secure EXCEPT ![c] = @ \/ (Packet(c) = "ssl" /\ listenerTLS)]
      BY <1>2 DEF ReadStartup
    <2>2. \A d \in Conns \ {c} : /\ phase'[d] = phase[d] /\ secure'[d] = secure[d]
                                 /\ attempts'[d] = attempts[d]
      BY <2>1
    <2>3. phase'[c] \in {"over", "startup", "lookup", "scram"}
      BY <2>1, PacketOutcome
    <2>4. ASSUME phase'[c] = "startup"
          PROVE  ReadSoFar(attempts'[c], secure'[c], plan'[c], listenerTLS')
      <3>1. /\ Packet(c) \in {"ssl", "gss"} /\ ~secure[c]
            /\ phase'[c] = AfterPacket(c, Packet(c))
        BY <2>1, <2>4, PacketOutcome
      <3>2. /\ attempts[c] < Len(plan[c].requests)
            /\ Packet(c) = plan[c].requests[attempts[c] + 1]
        BY <3>1 DEF Packet
      <3>3. plan[c].requests \in Seq({"ssl", "gss"}) /\ plan[c].direct \in BOOLEAN
        BY DEF Plans
      <3>4. attempts'[c] = attempts[c] + 1 /\ attempts[c] \in Nat
        BY <2>1
      <3>5. (\E i \in 1..attempts'[c] : plan[c].requests[i] = "ssl")
            <=> \/ \E i \in 1..attempts[c] : plan[c].requests[i] = "ssl"
                \/ plan[c].requests[attempts[c] + 1] = "ssl"
        <4>1. \A i : i \in 1..(attempts[c] + 1) <=> i \in 1..attempts[c] \/ i = attempts[c] + 1
          BY <3>4, IntervalStep
        <4> QED BY <3>4, <4>1, Zenon
      <3>6. secure'[c] <=> Packet(c) = "ssl" /\ listenerTLS
        BY <2>1, <3>1
      <3> QED BY <2>1, <3>1, <3>2, <3>3, <3>4, <3>5, <3>6 DEF StartupInv, ReadSoFar
    <2> QED BY <2>1, <2>2, <2>3, <2>4 DEF StartupInv
  <1>3. CASE /\ UNCHANGED <<plan, listenerTLS, attempts, secure>>
             /\ \E p \in Phases \ {"peek", "startup"} : phase' = [phase EXCEPT ![c] = p]
    BY <1>3 DEF StartupInv
  <1>4. CASE ServerDrops(c)
    BY <1>4 DEF ServerDrops, StartupInv
  <1>5. CASE TooManyRequests(c) \/ AuthenticateListener(c) \/ SetupFails(c)
             \/ OpenUpstream(c) \/ AuthenticateUpstream(c) \/ Register(c) \/ Greet(c)
             \/ RelayEnds(c) \/ Unregister(c) \/ CloseServer(c) \/ Lookup(c)
             \/ SendCancel(c) \/ SendCancelFails(c)
    BY <1>3, <1>5 DEF TooManyRequests, AuthenticateListener, SetupFails, OpenUpstream,
         AuthenticateUpstream, Register, Greet, RelayEnds, Unregister, CloseServer,
         Lookup, SendCancel, SendCancelFails
  <1> QED BY <1>1, <1>2, <1>4, <1>5 DEF Handler, Environment

-----------------------------------------------------------------------------

(* The invariant holds in every state of every behaviour. *)
LEMMA Invariance == SessionSpec => []IInv
  <1>1. SessionInit => IInv
    BY InitInv
  <1>2. IInv /\ [SessionNext]_<<vars, sessionVars>> => IInv'
    <2> SUFFICES ASSUME IInv, [SessionNext]_<<vars, sessionVars>> PROVE IInv'
      OBVIOUS
    <2>1. CASE UNCHANGED sessionVars
      BY <2>1 DEF IInv, sessionVars, opening, session, keys, SessionTypeOK, KeysInv,
           CancelInv, AdmitInv, StartupInv, LocalKey, NoKey, StartAccepted, Authenticated
    <2>2. CASE Stop
      BY <2>2 DEF Stop, IInv, sessionVars, opening, session, keys, SessionTypeOK, KeysInv,
           CancelInv, AdmitInv, StartupInv, LocalKey, NoKey, StartAccepted, Authenticated
    <2>3. CASE \E c \in Conns : Handler(c) \/ Environment(c)
      BY <2>3, TypeStep, KeysStep, CancelStep, AdmitStep, StartupStep DEF IInv
    <2> QED BY <2>1, <2>2, <2>3 DEF SessionNext, Relay
  <1> QED BY <1>1, <1>2, PTL DEF SessionSpec

(***************************************************************************)
(* "A matching CancelRequest is translated back to the actual upstream     *)
(* key": whatever the handlers of postgres.go interleave, the key a        *)
(* relayed client was given stands for its own session in adapter.cancels, *)
(* and what forwardCancel sends interrupts the session it names or none.   *)
(***************************************************************************)
THEOREM CancelsReachTheirOwn == SessionSpec => []CancelsOwn
  <1>1. IInv => CancelsOwn
    <2> SUFFICES ASSUME IInv PROVE CancelsOwn
      OBVIOUS
    <2>1. ASSUME NEW c \in Conns, phase[c] = "relay"
          PROVE  /\ known[c] \in DOMAIN cancels
                 /\ cancels[known[c]] = [pid |-> upPid[c], secret |-> c]
      <3>1. known[c] = LocalKey(c) /\ LocalKey(c) \in DOMAIN cancels
        BY <2>1 DEF IInv, KeysInv, Registered
      <3>2. PICK d \in Conns : /\ LocalKey(c) = LocalKey(d)
                               /\ cancels[LocalKey(c)] = [pid |-> upPid[d], secret |-> d]
        BY <3>1 DEF IInv, KeysInv
      <3> QED BY <3>1, <3>2, KeysDiffer
    <2> QED BY <2>1 DEF IInv, CancelInv, CancelsOwn
  <1> QED BY <1>1, Invariance, PTL

(***************************************************************************)
(* The listener's checks cannot be got around: a session at the server     *)
(* belongs to a client that authenticated, over TLS where the listener has *)
(* it; and acceptStartup turns no client away that asks for encryption the *)
(* way drivers do.                                                         *)
(***************************************************************************)
THEOREM OnlyAdmittedReachServer == SessionSpec => []Admission
  <1>1. IInv => Admission
    <2> SUFFICES ASSUME IInv, NEW c \in Conns
                 PROVE  /\ phase[c] \in {"dial", "auth", "register", "greet", "relay"}
                           \/ backend[c] # 0
                           => plan[c].role = "client" /\ (listenerTLS => secure[c])
                        /\ Usual(c) /\ phase[c] = "startup"
                           => MoreAttempts(c) /\ AfterPacket(c, Packet(c)) # "over"
      BY DEF Admission
    <2>1. phase[c] \in {"dial", "auth", "register", "greet", "relay"} \/ backend[c] # 0
          => plan[c].role = "client" /\ (listenerTLS => secure[c])
      BY DEF IInv, AdmitInv, Opened, Authenticated, StartAccepted
    <2>2. ASSUME Usual(c), phase[c] = "startup"
          PROVE  MoreAttempts(c) /\ AfterPacket(c, Packet(c)) # "over"
      <3> DEFINE rs == plan[c].requests
                 n  == attempts[c]
      <3>1. /\ n \in Nat /\ n <= Len(rs)
            /\ plan[c].direct => listenerTLS
            /\ secure[c] <=> plan[c].direct \/ (listenerTLS /\ \E i \in 1..n : rs[i] = "ssl")
        BY <2>2 DEF IInv, SessionTypeOK, StartupInv, ReadSoFar
      <3>2. /\ ~plan[c].direct \/ (listenerTLS /\ rs = <<>>)
            /\ rs \in {<<>>, <<"ssl">>, <<"gss">>, <<"gss", "ssl">>}
            /\ listenerTLS => plan[c].direct \/ rs \in {<<"ssl">>, <<"gss", "ssl">>}
        BY <2>2 DEF Usual
      <3>3. MoreAttempts(c)
        <4>2. Len(rs) \in {0, 1, 2}
          BY <3>2, UsualRequests, Zenon
        <4>3. n \in Nat /\ n <= Len(rs) /\ MaxAttempts \in Nat /\ MaxAttempts >= 3
          BY <3>1, PgSessionAssumption
        <4>4. \A k \in {0, 1, 2}, i, m \in Nat : i <= k /\ m >= 3 => i < m
          OBVIOUS
        <4> QED BY <4>2, <4>3, <4>4, Zenon DEF MoreAttempts
      <3>4. CASE n < Len(rs)
        <4>1. Packet(c) = rs[n + 1]
          BY <3>4 DEF Packet
        <4>2. ~secure[c] /\ rs[n + 1] \in {"ssl", "gss"}
          <5>1. /\ n \in Nat /\ Len(rs) \in Nat /\ n + 1 \in 1..Len(rs)
                /\ \A i \in 1..n : i \in 1..Len(rs) /\ i < Len(rs)
            BY <3>1, <3>4
          <5>2. rs[n + 1] \in {"ssl", "gss"} /\ \A i \in 1..n : rs[i] = "gss"
            <6>1. \A i \in 1..Len(rs) :
                     rs[i] \in {"ssl", "gss"} /\ (i < Len(rs) => rs[i] = "gss")
              BY <3>2, UsualRequests, Zenon
            <6> QED BY <5>1, <6>1, Zenon
          <5>3. ~plan[c].direct
            BY <3>2, <3>4, <5>1
          <5> QED BY <3>1, <5>2, <5>3
        <4> QED BY <3>3, <4>1, <4>2, PacketOutcome
      <3>5. CASE n >= Len(rs)
        <4>1. Packet(c) \in {"cancel", "start"}
          BY <3>1, <3>5 DEF Packet
        <4>2. listenerTLS => secure[c]
          <5>1. n = Len(rs)
            BY <3>1, <3>5
          <5>2. listenerTLS => plan[c].direct \/ \E i \in 1..Len(rs) : rs[i] = "ssl"
            BY <3>2, UsualRequests, Zenon
          <5> QED BY <3>1, <5>1, <5>2
        <4> QED BY <3>3, <4>1, <4>2, PacketOutcome DEF StartAccepted
      <3> QED BY <3>1, <3>2, <3>4, <3>5
    <2> QED BY <2>1, <2>2
  <1> QED BY <1>1, Invariance, PTL

-----------------------------------------------------------------------------
(***************************************************************************)
(* The tracker.  A session it can follow has a script of one of three      *)
(* forms: queries of the simple protocol that all succeed; groups of the   *)
(* extended protocol in which nothing fails, each up to a Sync; or, from a *)
(* client that awaits ReadyForQuery, cycles of one query each, which may   *)
(* fail at its Parse, its Bind or its Execute.                             *)
(***************************************************************************)
Ends == {"Q", "QBad", "S"}

Queries == {"Q", "QBad", "E", "EBad"}

Plain == \A n \in 1..Len(script) : script[n] = "Q"

Extended ==
    /\ \A n \in 1..Len(script) : script[n] \in {"P", "E", "S"}
    /\ script # <<>> => script[Len(script)] = "S"

OneByOne ==
    /\ ~pipelined
    /\ script # <<>> => script[Len(script)] \in Ends
    /\ \A n \in 1..Len(script) :
         LET before == IF n = 1 THEN "S" ELSE script[n - 1]
         IN  /\ script[n] = "S" => before \in {"E", "EBad"}
             /\ script[n] # "S" => before \in {"P", "PBad"} \cup Ends
             /\ script[n] \in {"Q", "QBad"} => before \in Ends

Followable == Plain \/ Extended \/ OneByOne

(* How many messages the server has read. *)
Served == sent - Len(toServer)

Entries == [n : Nat, simple : BOOLEAN, error : BOOLEAN]

Entry(n, error) == [n |-> n, simple |-> Simple(n), error |-> error]

TrackType ==
    /\ script \in Seq(Kinds) /\ pipelined \in BOOLEAN
    /\ sent \in 0..Len(script) /\ ready \in Nat
    /\ toServer \in Seq(Nat) /\ Len(toServer) <= sent
    /\ \A i \in 1..Len(toServer) : toServer[i] = Served + i
    /\ fromServer \in Seq({"C", "E", "Z", "1"})
    /\ pending \in Seq(Entries)
    /\ recorded \in Seq([n : Nat, outcome : {"ok", "error"}, error : BOOLEAN])
    /\ deferred \in BOOLEAN /\ skipping \in BOOLEAN
    /\ truth \in [1..Len(script) -> {"none", "ok", "error", "skipped"}]
    /\ \A n \in 1..Len(script) : n > Served => truth[n] = "none"

(* An observation is true already, or will be: the server skips its query. *)
Honest(k) == LET r == recorded[k] IN
    /\ r.n \in 1..sent /\ script[r.n] \in Queries
    /\ r.outcome = "ok" /\ ~r.error => r.n <= Served /\ truth[r.n] = "ok"
    /\ r.outcome = "ok" => ~r.error
    /\ r.outcome = "error" => truth[r.n] # "ok" /\ (r.n > Served => skipping)

(* How many of the first n messages of a script are of these kinds. *)
Count(s, kinds, n) == Cardinality({i \in 1..n : s[i] \in kinds})

Tallied ==
    /\ \A k \in 1..Len(recorded) : Honest(k)
    /\ Len(recorded) + Len(pending) = Count(script, Queries, sent)

-----------------------------------------------------------------------------
(* Simple queries that succeed: two answers each, the last one counts. *)
PlainInv ==
    /\ ~skipping /\ ~deferred
    /\ ready <= Served
    /\ \A n \in 1..Served : truth[n] = "ok"
    /\ Len(pending) = sent - ready
    /\ \A j \in 1..Len(pending) : pending[j] = Entry(ready + j, FALSE)
    /\ Len(fromServer) \in {2 * (Served - ready), 2 * (Served - ready) - 1}
    /\ \A j \in Nat :
         /\ 2 * j < Len(fromServer) => fromServer[Len(fromServer) - 2 * j] = "Z"
         /\ 2 * j + 1 < Len(fromServer) => fromServer[Len(fromServer) - 2 * j - 1] = "C"

-----------------------------------------------------------------------------
(* Extended queries that succeed: one answer to each message. *)
Answer(n) == IF script[n] = "P" THEN "1" ELSE IF script[n] = "E" THEN "C" ELSE "Z"

(* The messages whose answer reached the tracker. *)
Got == Served - Len(fromServer)

ExtendedInv ==
    /\ ~skipping /\ ~deferred
    /\ \A n \in 1..Served : truth[n] = "ok"
    /\ Got >= 0 /\ ready = Cycles(Got)
    /\ \A i \in 1..Len(fromServer) : fromServer[i] = Answer(Got + i)
    /\ \A i \in 1..Len(pending) :
         /\ pending[i].n \in Got + 1..sent /\ script[pending[i].n] = "E"
         /\ ~pending[i].simple /\ ~pending[i].error
    /\ \A i, j \in 1..Len(pending) : i < j => pending[i].n < pending[j].n
    /\ \A n \in Got + 1..sent :
         script[n] = "E" => \E i \in 1..Len(pending) : pending[i].n = n

-----------------------------------------------------------------------------
(* One query at a time. *)

(* The server has read the Sync that ends the cycle. *)
Synced == script[sent] = "S" /\ toServer = <<>>

(* The Execute of the cycle was sent, and it is message Asked. *)
HasAsked == script[sent] \in {"E", "EBad", "S"}
Asked == IF script[sent] = "S" THEN sent - 1 ELSE sent

Failed == HasAsked /\ Asked <= Served => truth[Asked] # "ok"

(* The query is pending from its Execute on. *)
Waiting(error) == pending = IF HasAsked THEN <<Entry(Asked, error)>> ELSE <<>>

(* The server's answer to Parse and Bind, then `last`, then that to Sync. *)
Answers(last) ==
    LET n == IF Synced THEN Len(fromServer) - 1 ELSE Len(fromServer)
    IN  /\ n > 0 /\ fromServer[n] = last
        /\ \A i \in 1..n - 1 : fromServer[i] = "1"
        /\ Synced => fromServer[n + 1] = "Z"

Rest == IF Synced THEN <<"Z">> ELSE <<>>

(* The server has answered Parse and Bind at most. *)
Preparing ==
    /\ ~skipping /\ ~deferred /\ Waiting(FALSE)
    /\ \A i \in 1..Len(fromServer) : fromServer[i] = "1"
    /\ HasAsked => Asked > Served

(* It completed the Execute, and the tracker does not know. *)
Completing ==
    /\ ~skipping /\ ~deferred /\ Waiting(FALSE) /\ HasAsked
    /\ Asked <= Served /\ truth[Asked] = "ok" /\ Answers("C")

(* The tracker recorded the query. *)
Completed ==
    /\ ~skipping /\ ~deferred /\ pending = <<>> /\ HasAsked
    /\ Asked <= Served /\ fromServer = Rest

(* The server rejected a message, and the tracker does not know. *)
Failing ==
    /\ skipping = ~Synced /\ ~deferred /\ Waiting(FALSE) /\ Failed /\ Answers("E")

(* The error waits for the Execute, was taken over by it, or was recorded. *)
Told ==
    /\ skipping = ~Synced /\ Failed /\ fromServer = Rest
    /\ \/ deferred /\ ~HasAsked /\ pending = <<>>
       \/ ~deferred /\ HasAsked /\ Waiting(TRUE)
       \/ ~deferred /\ HasAsked /\ pending = <<>>

(* A simple query: on its way, answered, or answered but for ReadyForQuery. *)
Querying ==
    /\ ~skipping /\ ~deferred
    /\ \/ toServer = <<sent>> /\ fromServer = <<>> /\ pending = <<Entry(sent, FALSE)>>
       \/ /\ toServer = <<>> /\ pending = <<Entry(sent, FALSE)>>
          /\ \/ /\ script[sent] = "Q" /\ truth[sent] = "ok"
                /\ fromServer \in {<<"C", "Z">>, <<"Z">>}
             \/ script[sent] = "QBad" /\ truth[sent] = "error" /\ fromServer = <<"E", "Z">>
       \/ toServer = <<>> /\ pending = <<>> /\ script[sent] = "QBad" /\ fromServer = <<"Z">>

Quiet ==
    toServer = <<>> /\ fromServer = <<>> /\ pending = <<>> /\ ~deferred /\ ~skipping

AtEnd == sent = 0 \/ script[sent] \in Ends

(* The client has every answer, or awaits the one that ends the cycle. *)
Counted == Cycles(sent) = IF Quiet \/ ~AtEnd THEN ready ELSE ready + 1

(* Of the messages the server has not read only the last can end a cycle. *)
OneCycle == \A m \in Served + 1..sent - 1 : script[m] \notin Ends

Stage ==
    \/ AtEnd /\ Quiet
    \/ sent > 0 /\ Simple(sent) /\ Querying
    \/ /\ sent > 0 /\ ~Simple(sent)
       /\ Preparing \/ Completing \/ Completed \/ Failing \/ Told

OneByOneInv == Counted /\ OneCycle /\ Stage

TrackInv ==
    /\ TrackType /\ Tallied
    /\ Plain => PlainInv
    /\ Extended => ExtendedInv
    /\ OneByOne => OneByOneInv

-----------------------------------------------------------------------------
(* Counting the messages of a script one by one. *)
LEMMA Counting ==
    ASSUME NEW s, NEW K
    PROVE  /\ \A n \in Nat : Count(s, K, n) \in Nat
           /\ Count(s, K, 0) = 0
<1> DEFINE C(n) == {i \in 1..n : s[i] \in K}
<1>1. ASSUME NEW n \in Nat PROVE IsFiniteSet(C(n)) /\ Cardinality(C(n)) \in Nat
  <2>1. IsFiniteSet(1..n) BY FS_Interval
  <2>2. C(n) \in SUBSET (1..n) OBVIOUS
  <2> QED BY <2>1, <2>2, FS_Subset, FS_CardinalityType
<1>2. Cardinality(C(0)) = 0
  <2>1. C(0) = {} OBVIOUS
  <2> QED BY <2>1, FS_EmptySet
<1> QED BY <1>1, <1>2 DEF Count

(* One message more. *)
LEMMA CountNext ==
    ASSUME NEW s, NEW K, NEW n \in Nat
    PROVE  Count(s, K, n + 1) = IF s[n + 1] \in K THEN Count(s, K, n) + 1 ELSE Count(s, K, n)
<1> DEFINE C(m) == {i \in 1..m : s[i] \in K}
<1>1. IsFiniteSet(C(n))
  <2>1. IsFiniteSet(1..n) BY FS_Interval
  <2>2. C(n) \in SUBSET (1..n) OBVIOUS
  <2> QED BY <2>1, <2>2, FS_Subset
<1>2. CASE s[n + 1] \in K
  <2>1. C(n + 1) = C(n) \cup {n + 1} /\ n + 1 \notin C(n) BY <1>2
  <2>2. Count(s, K, n) = Cardinality(C(n)) /\ Count(s, K, n + 1) = Cardinality(C(n + 1))
    BY DEF Count
  <2> HIDE DEF C
  <2>3. Cardinality(C(n) \cup {n + 1}) = Cardinality(C(n)) + 1
    BY <1>1, <2>1, FS_AddElement, Zenon
  <2> QED BY <1>2, <2>1, <2>2, <2>3
<1>3. CASE s[n + 1] \notin K
  <2>1. C(n + 1) = C(n) BY <1>3
  <2> QED BY <1>3, <2>1 DEF Count
<1> QED BY <1>2, <1>3

(* More messages hold as many or more, and one more if the last one counts. *)
LEMMA CountGrows ==
    ASSUME NEW s, NEW K, NEW m \in Nat, NEW n \in Nat, m < n
    PROVE  /\ Count(s, K, m) <= Count(s, K, n)
           /\ s[n] \in K => Count(s, K, m) < Count(s, K, n)
<1> DEFINE C(k) == {i \in 1..k : s[i] \in K}
<1>1. IsFiniteSet(C(n)) /\ C(m) \in SUBSET C(n)
  <2>1. IsFiniteSet(1..n) BY FS_Interval
  <2>2. C(n) \in SUBSET (1..n) OBVIOUS
  <2> QED BY <2>1, <2>2, FS_Subset
<1>2. s[n] \in K => C(m) # C(n)
  <2>1. s[n] \in K => n \in C(n) /\ n \notin C(m) OBVIOUS
  <2> QED BY <2>1, Zenon
<1>3. Count(s, K, m) = Cardinality(C(m)) /\ Count(s, K, n) = Cardinality(C(n))
  BY DEF Count
<1> HIDE DEF C
<1>4. Cardinality(C(m)) <= Cardinality(C(n))
      /\ (Cardinality(C(m)) = Cardinality(C(n)) => C(n) = C(m))
  BY <1>1, FS_Subset, Zenon
<1>5. Count(s, K, m) \in Nat /\ Count(s, K, n) \in Nat BY Counting
<1> QED BY <1>2, <1>3, <1>4, <1>5

(* The cycles among the first n messages. *)
LEMMA CyclesCount == \A n : Cycles(n) = Count(script, Ends, n)
  BY DEF Cycles, Count, Ends

(* What the server answers. *)
LEMMA ReplyArms ==
    ASSUME NEW n
    PROVE  /\ script[n] = "S" => Reply(n) = <<"Z">>
           /\ skipping /\ script[n] # "S" => Reply(n) = <<>>
           /\ ~skipping =>
                /\ script[n] = "Q" => Reply(n) = <<"C", "Z">>
                /\ script[n] = "QBad" => Reply(n) = <<"E", "Z">>
                /\ script[n] = "P" => Reply(n) = <<"1">>
                /\ script[n] = "E" => Reply(n) = <<"C">>
                /\ script[n] \in {"PBad", "EBad"} => Reply(n) = <<"E">>
<1>1. script[n] = "S" => Reply(n) = <<"Z">> BY Zenon DEF Reply
<1>2. skipping /\ script[n] # "S" => Reply(n) = <<>> BY Zenon DEF Reply
<1>3. ~skipping /\ script[n] = "Q" => Reply(n) = <<"C", "Z">> BY Zenon DEF Reply
<1>4. ~skipping /\ script[n] = "QBad" => Reply(n) = <<"E", "Z">> BY Zenon DEF Reply
<1>5. ~skipping /\ script[n] = "P" => Reply(n) = <<"1">> BY Zenon DEF Reply
<1>6. ~skipping /\ script[n] = "E" => Reply(n) = <<"C">> BY Zenon DEF Reply
<1>7. ~skipping /\ script[n] \in {"PBad", "EBad"} => Reply(n) = <<"E">>
  BY Zenon DEF Reply
<1> QED BY <1>1, <1>2, <1>3, <1>4, <1>5, <1>6, <1>7

(* What the tracker does with a message of the server. *)
LEMMA BackendArms ==
    ASSUME Backend
    PROVE  /\ fromServer # <<>> /\ fromServer' = Tail(fromServer)
           /\ Head(fromServer) = "E" => OnError /\ ready' = ready
           /\ Head(fromServer) = "C" => OnComplete /\ ready' = ready
           /\ Head(fromServer) = "Z" => OnReady /\ ready' = ready + 1
           /\ Head(fromServer) = "1" => /\ UNCHANGED <<pending, recorded, deferred>>
                                        /\ ready' = ready
           /\ UNCHANGED <<script, pipelined, sent, toServer, skipping, truth>>
<1> DEFINE typ == Head(fromServer)
<1>1. /\ fromServer # <<>> /\ fromServer' = Tail(fromServer)
      /\ ready' = IF typ = "Z" THEN ready + 1 ELSE ready
      /\ UNCHANGED <<script, pipelined, sent, toServer, skipping, truth>>
  BY Zenon DEF Backend
<1>2. (CASE typ = "E" -> OnError
         [] typ = "C" -> OnComplete
         [] typ = "Z" -> OnReady
         [] OTHER     -> UNCHANGED <<pending, recorded, deferred>>)
  BY Zenon DEF Backend
<1> HIDE DEF typ
<1>3. typ = "E" => OnError BY <1>2, Zenon
<1>4. typ = "C" => OnComplete BY <1>2, Zenon
<1>5. typ = "Z" => OnReady BY <1>2, Zenon
<1>6. typ = "1" => UNCHANGED <<pending, recorded, deferred>> BY <1>2, Zenon
<1>7. typ = "E" => ready' = ready BY <1>1, Zenon
<1>8. typ = "C" => ready' = ready BY <1>1, Zenon
<1>9. typ = "1" => ready' = ready BY <1>1, Zenon
<1>10. typ = "Z" => ready' = ready + 1 BY <1>1, Zenon
<1> QED BY <1>1, <1>3, <1>4, <1>5, <1>6, <1>7, <1>8, <1>9, <1>10, Zenon DEF typ

-----------------------------------------------------------------------------
(* Sequences: appending, taking the head, and sequences of one message. *)
LEMMA Appending ==
    ASSUME NEW S, NEW s \in Seq(S), NEW e \in S
    PROVE  /\ Append(s, e) \in Seq(S) /\ Len(Append(s, e)) = Len(s) + 1
           /\ \A i \in 1..Len(s) : Append(s, e)[i] = s[i]
           /\ Append(s, e)[Len(s) + 1] = e
OBVIOUS

(* Taking the head of a sequence. *)
LEMMA Taking ==
    ASSUME NEW S, NEW s \in Seq(S), s # <<>>
    PROVE  /\ Len(s) \in Nat /\ Len(s) > 0 /\ Head(s) = s[1] /\ s[1] \in S
           /\ Tail(s) \in Seq(S) /\ Len(Tail(s)) = Len(s) - 1
           /\ \A i \in 1..Len(s) - 1 : Tail(s)[i] = s[i + 1]
OBVIOUS

(* A sequence is empty when its length is zero. *)
LEMMA Emptiness ==
    ASSUME NEW S, NEW s \in Seq(S)
    PROVE  Len(s) \in Nat /\ (s = <<>> <=> Len(s) = 0)
OBVIOUS

(* A query sent before it was read: what the relay writes follows in order. *)
LEMMA Frontwards ==
    ASSUME TrackType, Frontend
    PROVE  /\ sent + 1 \in 1..Len(script) /\ sent' = sent + 1
           /\ toServer' = Append(toServer, sent + 1) /\ Served' = Served
           /\ Len(toServer') = Len(toServer) + 1 /\ toServer' \in Seq(Nat)
           /\ \A i \in 1..Len(toServer') : toServer'[i] = Served + i
           /\ script[sent + 1] \in Queries =>
                /\ pending' = Append(pending, Entry(sent + 1, TakesDeferred(sent + 1)))
                /\ deferred' = (deferred /\ ~TakesDeferred(sent + 1))
           /\ script[sent + 1] \notin Queries => UNCHANGED <<pending, deferred>>
           /\ UNCHANGED <<script, pipelined, skipping, truth, fromServer, ready, recorded>>
<1>1. /\ sent \in 0..Len(script) /\ sent < Len(script) /\ Len(script) \in Nat
      /\ sent' = sent + 1 /\ toServer' = Append(toServer, sent + 1)
  BY DEF TrackType, Frontend
<1>2. sent + 1 \in 1..Len(script) /\ sent + 1 \in Nat /\ sent \in Nat BY <1>1
<1>3. toServer \in Seq(Nat) BY DEF TrackType
<1>4. /\ toServer' \in Seq(Nat) /\ Len(toServer') = Len(toServer) + 1
      /\ \A i \in 1..Len(toServer) : toServer'[i] = toServer[i]
      /\ toServer'[Len(toServer) + 1] = sent + 1
  BY <1>1, <1>2, <1>3, Appending
<1>5. Len(toServer) \in Nat BY <1>3
<1>6. Served' = Served /\ Served + Len(toServer) = sent
  BY <1>1, <1>2, <1>4, <1>5 DEF Served
<1>7. ASSUME NEW i \in 1..Len(toServer') PROVE toServer'[i] = Served + i
  <2>1. CASE i = Len(toServer) + 1
    <3>1. Served + i = sent + 1 BY <2>1, <1>2, <1>5 DEF Served
    <3> QED BY <2>1, <3>1, <1>4
  <2>2. CASE i # Len(toServer) + 1
    <3>1. i \in 1..Len(toServer) BY <2>2, <1>4, <1>5
    <3> QED BY <3>1, <1>4 DEF TrackType
  <2> QED BY <2>1, <2>2
<1>8. /\ script[sent + 1] \in Queries =>
           /\ pending' = Append(pending, Entry(sent + 1, TakesDeferred(sent + 1)))
           /\ deferred' = (deferred /\ ~TakesDeferred(sent + 1))
      /\ script[sent + 1] \notin Queries => UNCHANGED <<pending, deferred>>
      /\ UNCHANGED <<script, pipelined, skipping, truth, fromServer, ready, recorded>>
  BY Zenon DEF Frontend, Queries, Entry
<1> QED BY <1>1, <1>2, <1>4, <1>6, <1>7, <1>8

(* The server reads the message after those it has read. *)
LEMMA Serving ==
    ASSUME TrackType, Server
    PROVE  /\ Served \in Nat /\ Served + 1 \in 1..sent /\ Head(toServer) = Served + 1
           /\ script[Served + 1] \in Kinds /\ Served + 1 \in 1..Len(script)
           /\ Len(toServer) \in Nat /\ Len(toServer) > 0
           /\ toServer' = Tail(toServer) /\ Len(toServer') = Len(toServer) - 1
           /\ toServer' \in Seq(Nat) /\ Served' = Served + 1
           /\ \A i \in 1..Len(toServer') : toServer'[i] = Served' + i
           /\ fromServer' = fromServer \o Reply(Served + 1)
           /\ truth' = [truth EXCEPT ![Served + 1] =
                          IF skipping /\ script[Served + 1] # "S" THEN "skipped"
                          ELSE IF script[Served + 1] \in Bad THEN "error" ELSE "ok"]
           /\ skipping' = IF script[Served + 1] = "S" THEN FALSE
                          ELSE skipping \/ script[Served + 1] \in {"PBad", "EBad"}
           /\ UNCHANGED <<script, pipelined, sent, ready, pending, deferred, recorded>>
<1>1. /\ toServer # <<>> /\ toServer \in Seq(Nat) /\ Len(toServer) <= sent
      /\ sent \in Nat /\ sent <= Len(script) /\ Len(script) \in Nat
      /\ \A i \in 1..Len(toServer) : toServer[i] = Served + i
  BY DEF TrackType, Server
<1>2. /\ Len(toServer) \in Nat /\ Len(toServer) > 0 /\ Head(toServer) = toServer[1]
      /\ Tail(toServer) \in Seq(Nat) /\ Len(Tail(toServer)) = Len(toServer) - 1
      /\ \A i \in 1..Len(toServer) - 1 : Tail(toServer)[i] = toServer[i + 1]
  BY <1>1, Taking
<1>3. Served = sent - Len(toServer) /\ Served \in Nat
      /\ Served + 1 \in 1..sent /\ Served + 1 \in 1..Len(script)
  BY <1>1, <1>2 DEF Served
<1>4. Head(toServer) = Served + 1 BY <1>1, <1>2
<1>5. script[Served + 1] \in Kinds BY <1>3 DEF TrackType
<1>6. toServer' = Tail(toServer) /\ sent' = sent BY DEF Server
<1>7. Served' = Served + 1 BY <1>1, <1>2, <1>3, <1>6 DEF Served
<1>8. ASSUME NEW i \in 1..Len(toServer') PROVE toServer'[i] = Served' + i
  <2>1. i \in 1..Len(toServer) - 1 /\ i + 1 \in 1..Len(toServer) BY <1>2, <1>6
  <2>2. toServer'[i] = Served + (i + 1) BY <2>1, <1>1, <1>2, <1>6
  <2> QED BY <2>2, <1>3, <1>7, <2>1
<1>9. /\ fromServer' = fromServer \o Reply(Served + 1)
      /\ truth' = [truth EXCEPT ![Served + 1] =
                     IF skipping /\ script[Served + 1] # "S" THEN "skipped"
                     ELSE IF script[Served + 1] \in Bad THEN "error" ELSE "ok"]
      /\ skipping' = IF script[Served + 1] = "S" THEN FALSE
                     ELSE skipping \/ script[Served + 1] \in {"PBad", "EBad"}
      /\ UNCHANGED <<script, pipelined, sent, ready, pending, deferred, recorded>>
  BY <1>4, Zenon DEF Server
<1> QED BY <1>1, <1>2, <1>3, <1>4, <1>5, <1>6, <1>7, <1>8, <1>9

(* The answer to a message is a sequence of the server's messages. *)
LEMMA ReplyType ==
    ASSUME TrackType, NEW n, script[n] \in Kinds
    PROVE  Reply(n) \in Seq({"C", "E", "Z", "1"})
<1> DEFINE M == {"C", "E", "Z", "1"}
<1>1. /\ <<"Z">> \in Seq(M) /\ <<"C", "Z">> \in Seq(M) /\ <<"E", "Z">> \in Seq(M)
      /\ <<"1">> \in Seq(M) /\ <<"C">> \in Seq(M) /\ <<"E">> \in Seq(M) /\ <<>> \in Seq(M)
  OBVIOUS
<1> HIDE DEF M
<1>2. /\ script[n] \in Kinds BY DEF TrackType
<1>3. Reply(n) \in {<<"Z">>, <<"C", "Z">>, <<"E", "Z">>, <<"1">>, <<"C">>, <<"E">>, <<>>}
  <2>1. CASE script[n] = "S" BY <2>1, ReplyArms, Zenon
  <2>2. CASE skipping /\ script[n] # "S" BY <2>2, ReplyArms, Zenon
  <2>3. CASE ~skipping /\ script[n] # "S"
    BY <2>3, <1>2, ReplyArms, Zenon DEF Kinds
  <2> QED BY <2>1, <2>2, <2>3
<1>4. Reply(n) \in Seq(M) BY <1>1, <1>3, Zenon
<1> QED BY <1>4 DEF M

(* The oldest pending query. *)
LEMMA HeadOfPending ==
    ASSUME TrackType, pending # <<>>
    PROVE  /\ Len(pending) \in Nat /\ Len(pending) > 0
           /\ Head(pending) = pending[1] /\ Head(pending) \in Entries
           /\ Head(pending).n \in Nat
           /\ Head(pending).simple \in BOOLEAN /\ Head(pending).error \in BOOLEAN
           /\ Tail(pending) \in Seq(Entries) /\ Len(Tail(pending)) = Len(pending) - 1
           /\ \A i \in 1..Len(pending) - 1 : Tail(pending)[i] = pending[i + 1]
<1>1. pending \in Seq(Entries) BY DEF TrackType
<1>2. /\ Len(pending) \in Nat /\ Len(pending) > 0
      /\ Head(pending) = pending[1] /\ Head(pending) \in Entries
      /\ Tail(pending) \in Seq(Entries) /\ Len(Tail(pending)) = Len(pending) - 1
      /\ \A i \in 1..Len(pending) - 1 : Tail(pending)[i] = pending[i + 1]
  BY <1>1, Taking
<1>3. \A e \in Entries : e.n \in Nat /\ e.simple \in BOOLEAN /\ e.error \in BOOLEAN
  BY DEF Entries
<1> QED BY <1>2, <1>3

(* The tracker leaves its queue alone, or records the oldest pending query. *)
Recording ==
    \/ UNCHANGED <<pending, recorded>> /\ deferred' \in BOOLEAN
    \/ /\ pending # <<>> /\ pending' = Tail(pending) /\ deferred' \in BOOLEAN
       /\ \E o \in {"ok", "error"}, e \in BOOLEAN :
            recorded' = Append(recorded, [n |-> Head(pending).n, outcome |-> o, error |-> e])

(* Every message of the server is handled in one of these two ways. *)
LEMMA Recorder ==
    ASSUME TrackType, Backend
    PROVE  Recording
<1>0. Head(fromServer) \in {"C", "E", "Z", "1"} BY BackendArms, Taking DEF TrackType
<1>1. CASE Head(fromServer) = "1" BY <1>1, BackendArms DEF TrackType, Recording
<1>2. CASE Head(fromServer) = "C"
  <2>0. OnComplete BY <1>2, BackendArms
  <2>1. CASE pending # <<>> /\ ~Head(pending).simple
    <3>1. Finish("ok", Head(pending).error) /\ deferred' = deferred
      BY <2>0, <2>1 DEF OnComplete, Recording
    <3>2. Head(pending).error \in BOOLEAN BY <2>1, HeadOfPending
    <3> QED BY <2>1, <3>1, <3>2, Zenon DEF Finish, TrackType, Recording
  <2>2. CASE ~(pending # <<>> /\ ~Head(pending).simple)
    BY <2>0, <2>2 DEF OnComplete, TrackType, Recording
  <2> QED BY <2>1, <2>2
<1>3. CASE Head(fromServer) = "E"
  <2>0. OnError BY <1>3, BackendArms
  <2> QED BY <2>0, Zenon DEF OnError, Finish, TrackType, Recording
<1>4. CASE Head(fromServer) = "Z"
  <2>0. OnReady BY <1>4, BackendArms
  <2>1. CASE pending = <<>> BY <2>0, <2>1 DEF OnReady, TrackType, Recording
  <2>2. CASE pending # <<>>
    <3>1. Head(pending).error \in BOOLEAN BY <2>2, HeadOfPending
    <3>2. deferred' = FALSE BY <2>0, <2>2 DEF OnReady, Recording
    <3>3. CASE Head(pending).simple \/ Head(pending).error
      <4>1. Finish(IF Head(pending).error THEN "error" ELSE "ok", Head(pending).error)
        BY <2>0, <2>2, <3>3 DEF OnReady, Recording
      <4> QED BY <2>2, <3>1, <3>2, <4>1, Zenon DEF Finish, Recording
    <3>4. CASE ~(Head(pending).simple \/ Head(pending).error)
      BY <2>0, <2>2, <3>2, <3>4 DEF OnReady, Recording
    <3> QED BY <3>3, <3>4
  <2> QED BY <2>1, <2>2
<1> QED BY <1>0, <1>1, <1>2, <1>3, <1>4

(* Every step leaves every variable its type. *)
LEMMA TrackTypeStep ==
    ASSUME TrackType, Next
    PROVE  TrackType'
<1>1. CASE Frontend
  <2>0. sent + 1 \in Nat /\ sent \in Nat /\ Len(toServer) \in Nat
        /\ Len(toServer) <= sent /\ Len(script) \in Nat
    BY <1>1, Frontwards DEF TrackType
  <2>1. Entry(sent + 1, TakesDeferred(sent + 1)) \in Entries
    <3>1. TakesDeferred(sent + 1) \in BOOLEAN BY DEF TakesDeferred, Simple
    <3>2. Simple(sent + 1) \in BOOLEAN BY DEF Simple
    <3> QED BY <2>0, <3>1, <3>2 DEF Entry, Entries
  <2>2. pending' \in Seq(Entries)
    <3>1. pending \in Seq(Entries) BY DEF TrackType
    <3>2. Append(pending, Entry(sent + 1, TakesDeferred(sent + 1))) \in Seq(Entries)
      BY <2>1, <3>1, Appending, Zenon
    <3>3. \/ pending' = Append(pending, Entry(sent + 1, TakesDeferred(sent + 1)))
          \/ pending' = pending
      BY <1>1, Frontwards, Zenon
    <3> QED BY <3>1, <3>2, <3>3, Zenon
  <2>3. deferred' \in BOOLEAN BY <1>1, Frontwards DEF TrackType
  <2>4. sent' \in 0..Len(script') /\ ready' \in Nat /\ Len(toServer') <= sent'
    <3>1. /\ sent + 1 \in 1..Len(script) /\ sent' = sent + 1 /\ script' = script
          /\ Len(toServer') = Len(toServer) + 1 /\ ready' = ready
      BY <1>1, Frontwards
    <3>2. ready \in Nat BY DEF TrackType
    <3>3. sent' \in 0..Len(script) BY <2>0, <3>1
    <3>4. Len(toServer') <= sent' BY <2>0, <3>1
    <3> QED BY <3>1, <3>2, <3>3, <3>4
  <2> QED BY <1>1, <2>2, <2>3, <2>4, Frontwards DEF TrackType
<1>2. CASE Server
  <2>1. fromServer' \in Seq({"C", "E", "Z", "1"})
    <3>1. Reply(Served + 1) \in Seq({"C", "E", "Z", "1"}) BY <1>2, Serving, ReplyType
    <3>2. \A S : \A s, t \in Seq(S) : s \o t \in Seq(S) OBVIOUS
    <3>3. fromServer \in Seq({"C", "E", "Z", "1"}) BY DEF TrackType
    <3>4. fromServer' = fromServer \o Reply(Served + 1) BY <1>2, Serving
    <3>5. fromServer \o Reply(Served + 1) \in Seq({"C", "E", "Z", "1"})
      BY <3>1, <3>2, <3>3, Zenon
    <3> QED BY <3>4, <3>5, Zenon
  <2>2. truth' \in [1..Len(script) -> {"none", "ok", "error", "skipped"}]
    BY <1>2, Serving DEF TrackType
  <2>3. skipping' \in BOOLEAN BY <1>2, Serving DEF TrackType
  <2>4. \A n \in 1..Len(script) : n > Served + 1 => truth'[n] = "none"
    <3>1. /\ truth \in [1..Len(script) -> {"none", "ok", "error", "skipped"}]
          /\ \A n \in 1..Len(script) : n > Served => truth[n] = "none"
      BY Zenon DEF TrackType
    <3>2. ASSUME NEW n \in 1..Len(script), n # Served + 1 PROVE truth'[n] = truth[n]
      <4>1. \A D, R, v, p : \A f \in [D -> R] : \A i \in D :
              [f EXCEPT ![p] = v][i] = IF i = p THEN v ELSE f[i]
        OBVIOUS
      <4>2. truth' = [truth EXCEPT ![Served + 1] =
                        IF skipping /\ script[Served + 1] # "S" THEN "skipped"
                        ELSE IF script[Served + 1] \in Bad THEN "error" ELSE "ok"]
        BY <1>2, Serving, Zenon
      <4>3. truth'[n] = IF n = Served + 1
                          THEN IF skipping /\ script[Served + 1] # "S" THEN "skipped"
                               ELSE IF script[Served + 1] \in Bad THEN "error" ELSE "ok"
                          ELSE truth[n]
        BY <3>1, <4>1, <4>2, Zenon
      <4> QED BY <3>2, <4>3, Zenon
    <3>4. Served \in Nat /\ \A n \in 1..Len(script) : n \in Nat
      <4>1. Len(script) \in Nat BY DEF TrackType
      <4> QED BY <4>1, <1>2, Serving
    <3>5. ASSUME NEW n \in 1..Len(script), n > Served + 1 PROVE truth'[n] = "none"
      <4>1. n > Served /\ n # Served + 1 BY <3>4, <3>5
      <4>2. truth[n] = "none" BY <3>1, <4>1, Zenon
      <4> QED BY <3>2, <4>1, <4>2, Zenon
    <3> QED BY <3>5
  <2>5. Len(toServer') <= sent'
    <3>1. Len(toServer) \in Nat /\ Len(toServer) <= sent /\ sent \in Nat
      BY DEF TrackType
    <3> QED BY <1>2, <3>1, Serving
  <2>6. UNCHANGED <<script, pipelined, sent, ready, pending, deferred, recorded>>
        /\ toServer' \in Seq(Nat) /\ Served' = Served + 1
        /\ \A i \in 1..Len(toServer') : toServer'[i] = Served' + i
    BY <1>2, Serving
  <2> QED BY <2>1, <2>2, <2>3, <2>4, <2>5, <2>6 DEF TrackType
<1>3. CASE Backend
  <2>0. /\ fromServer # <<>> /\ fromServer' = Tail(fromServer)
        /\ UNCHANGED <<script, pipelined, sent, toServer, skipping, truth>>
    BY <1>3, BackendArms
  <2>1. Served' = Served BY <2>0 DEF Served
  <2>2. fromServer' \in Seq({"C", "E", "Z", "1"}) /\ Head(fromServer) \in {"C", "E", "Z", "1"}
    BY <2>0, Taking DEF TrackType
  <2>3. ready' \in Nat BY <1>3, <2>2, BackendArms DEF TrackType
  <2>4. Recording BY <1>3, Recorder
  <2>5. pending' \in Seq(Entries) /\ deferred' \in BOOLEAN
        /\ recorded' \in Seq([n : Nat, outcome : {"ok", "error"}, error : BOOLEAN])
    <3>1. CASE UNCHANGED <<pending, recorded>> /\ deferred' \in BOOLEAN
      BY <3>1 DEF TrackType
    <3>2. ASSUME NEW o \in {"ok", "error"}, NEW e \in BOOLEAN,
                 pending # <<>>, pending' = Tail(pending), deferred' \in BOOLEAN,
                 recorded' = Append(recorded, [n |-> Head(pending).n, outcome |-> o, error |-> e])
          PROVE  pending' \in Seq(Entries) /\ deferred' \in BOOLEAN
                 /\ recorded' \in Seq([n : Nat, outcome : {"ok", "error"}, error : BOOLEAN])
      <4>1. pending \in Seq(Entries) /\ pending' \in Seq(Entries) /\ Head(pending) \in Entries
        BY <3>2, Taking DEF TrackType
      <4>2. [n |-> Head(pending).n, outcome |-> o, error |-> e]
              \in [n : Nat, outcome : {"ok", "error"}, error : BOOLEAN]
        BY <4>1 DEF Entries
      <4> QED BY <3>2, <4>1, <4>2, Appending DEF TrackType
    <3> QED BY <2>4, <3>1, <3>2, Zenon DEF Recording
  <2> QED BY <2>0, <2>1, <2>2, <2>3, <2>5 DEF TrackType
<1> QED BY <1>1, <1>2, <1>3 DEF Next

(***************************************************************************)
(* The tally: every query that was sent is pending or recorded, and what   *)
(* was recorded stays true, whatever the server does with the messages it  *)
(* has yet to read, when no Sync but the last is among those it skips.     *)
(***************************************************************************)
LEMMA TalliedStep ==
    ASSUME TrackType, Tallied, Next,
           skipping => \A i \in 1..Len(toServer) - 1 : script[toServer[i]] # "S",
           \A k \in 1..Len(recorded') : k > Len(recorded) => Honest(k)'
    PROVE  Tallied'
<1>0. recorded \in Seq([n : Nat, outcome : {"ok", "error"}, error : BOOLEAN])
      /\ sent \in Nat /\ Len(recorded) \in Nat /\ Len(pending) \in Nat
      /\ Len(toServer) \in Nat /\ Served = sent - Len(toServer)
  BY DEF TrackType, Served
<1>1. CASE Frontend
  <2>1. ASSUME NEW k \in 1..Len(recorded') PROVE Honest(k)'
    <3>1. Honest(k) /\ recorded' = recorded BY <1>1, Frontwards DEF Tallied
    <3>2. /\ sent' = sent + 1 /\ script' = script /\ Served' = Served
          /\ truth' = truth /\ skipping' = skipping
      BY <1>1, Frontwards
    <3> QED BY <3>1, <3>2, <1>0 DEF Honest
  <2>2. Count(script', Queries, sent') =
          IF script[sent + 1] \in Queries THEN Count(script, Queries, sent) + 1
                                          ELSE Count(script, Queries, sent)
    <3>1. script' = script /\ sent' = sent + 1 BY <1>1, Frontwards
    <3>2. Count(script, Queries, sent + 1) =
            IF script[sent + 1] \in Queries THEN Count(script, Queries, sent) + 1
                                            ELSE Count(script, Queries, sent)
      BY <1>0, CountNext
    <3> QED BY <3>1, <3>2, Zenon
  <2>3. Len(pending') = IF script[sent + 1] \in Queries THEN Len(pending) + 1
                                                        ELSE Len(pending)
    <3>1. pending \in Seq(Entries) BY DEF TrackType
    <3>2. \A S, e : \A s \in Seq(S) : Len(Append(s, e)) = Len(s) + 1 OBVIOUS
    <3>3. CASE script[sent + 1] \in Queries
      <4>1. pending' = Append(pending, Entry(sent + 1, TakesDeferred(sent + 1)))
        BY <1>1, <3>3, Frontwards, Zenon
      <4> QED BY <3>1, <3>2, <3>3, <4>1, Zenon
    <3>4. CASE script[sent + 1] \notin Queries
      BY <1>1, <3>4, Frontwards
    <3> QED BY <3>3, <3>4
  <2>4. Len(recorded') + Len(pending') = Count(script', Queries, sent')
    <3>1. Len(recorded') = Len(recorded) BY <1>1, Frontwards
    <3>2. Len(recorded) + Len(pending) = Count(script, Queries, sent)
      BY DEF Tallied
    <3> QED BY <1>0, <2>2, <2>3, <3>1, <3>2
  <2> QED BY <2>1, <2>4 DEF Tallied
<1>2. CASE Server
  <2>0. /\ Served \in Nat /\ Served' = Served + 1 /\ recorded' = recorded
        /\ script' = script /\ sent' = sent /\ pending' = pending
    BY <1>2, Serving
  <2>1. ASSUME NEW k \in 1..Len(recorded') PROVE Honest(k)'
    <3> DEFINE m == recorded[k].n
               o == recorded[k].outcome
    <3>1. Honest(k) BY <2>0 DEF Tallied
    <3>2. m \in 1..sent /\ script[m] \in Queries /\ m \in 1..Len(script)
      BY <3>1 DEF Honest, TrackType
    <3>3. /\ m # Served + 1 => truth'[m] = truth[m]
          /\ m = Served + 1 /\ skipping => truth'[m] = "skipped"
      <4>1. truth \in [1..Len(script) -> {"none", "ok", "error", "skipped"}]
        BY DEF TrackType
      <4>2. script[m] # "S" BY <3>2 DEF Queries
      <4>3. truth' = [truth EXCEPT ![Served + 1] =
                        IF skipping /\ script[Served + 1] # "S" THEN "skipped"
                        ELSE IF script[Served + 1] \in Bad THEN "error" ELSE "ok"]
        BY <1>2, Serving, Zenon
      <4>4. \A D, R, v, p : \A f \in [D -> R] : \A n \in D :
              [f EXCEPT ![p] = v][n] = IF n = p THEN v ELSE f[n]
        OBVIOUS
      <4> HIDE DEF m
      <4>5. truth'[m] = IF m = Served + 1
                          THEN IF skipping /\ script[Served + 1] # "S" THEN "skipped"
                               ELSE IF script[Served + 1] \in Bad THEN "error" ELSE "ok"
                          ELSE truth[m]
        BY <3>2, <4>1, <4>3, <4>4, Zenon
      <4> QED BY <4>2, <4>5, Zenon
    <3>4. m > Served + 1 /\ skipping => skipping'
      <4> SUFFICES ASSUME m > Served + 1, skipping PROVE skipping'
        OBVIOUS
      <4>0. /\ Served \in Nat /\ sent \in Nat /\ Len(toServer) \in Nat
            /\ Served + Len(toServer) = sent
        <5>1. /\ sent \in 0..Len(script) /\ toServer \in Seq(Nat) /\ Len(toServer) <= sent
              /\ script \in Seq(Kinds)
          BY <1>0 DEF TrackType
        <5>2. Len(script) \in Nat /\ Len(toServer) \in Nat BY <5>1
        <5> QED BY <5>1, <5>2 DEF Served
      <4>1. 1 \in 1..Len(toServer) - 1 /\ toServer[1] = Served + 1
        <5>1. m \in 1..sent BY <3>2
        <5> HIDE DEF m
        <5>2. 1 \in 1..Len(toServer) - 1 /\ 1 \in 1..Len(toServer) BY <4>0, <5>1
        <5>3. \A i \in 1..Len(toServer) : toServer[i] = Served + i BY DEF TrackType
        <5> QED BY <5>2, <5>3
      <4>2. script[Served + 1] # "S" BY <4>1
      <4>3. skipping' = IF script[Served + 1] = "S" THEN FALSE
                        ELSE skipping \/ script[Served + 1] \in {"PBad", "EBad"}
        BY <1>2, Serving, Zenon
      <4> QED BY <4>2, <4>3
    <3>5. /\ o = "ok" /\ ~recorded[k].error => m <= Served /\ truth[m] = "ok"
          /\ o = "ok" => ~recorded[k].error
          /\ o = "error" => truth[m] # "ok" /\ (m > Served => skipping)
      BY <3>1 DEF Honest
    <3>6. m \in Nat /\ (m > Served + 1 => m > Served) /\ (m = Served + 1 => m > Served)
          /\ (m <= Served => m # Served + 1 /\ m <= Served + 1)
      BY <2>0, <3>2
    <3>7. /\ o = "ok" /\ ~recorded[k].error => m <= Served + 1 /\ truth'[m] = "ok"
          /\ o = "error" => truth'[m] # "ok" /\ (m > Served + 1 => skipping')
      <4> HIDE DEF m, o
      <4>1. "skipped" # "ok" OBVIOUS
      <4> QED BY <3>3, <3>4, <3>5, <3>6, <4>1, Zenon
    <3> QED BY <2>0, <3>2, <3>5, <3>7 DEF Honest
  <2> QED BY <2>0, <2>1 DEF Tallied
<1>3. CASE Backend
  <2>0. /\ script' = script /\ sent' = sent /\ Served' = Served
        /\ truth' = truth /\ skipping' = skipping
    BY <1>3, BackendArms DEF Served
  <2>1. \/ recorded' = recorded /\ pending' = pending
        \/ /\ Len(recorded') = Len(recorded) + 1 /\ Len(pending') = Len(pending) - 1
           /\ \A k \in 1..Len(recorded) : recorded'[k] = recorded[k]

    <3>2. Recording BY <1>3, Recorder
    <3>3. CASE UNCHANGED <<pending, recorded>> BY <3>3
    <3>4. ASSUME NEW e, pending # <<>>, pending' = Tail(pending),
                 recorded' = Append(recorded, e)
          PROVE  /\ Len(recorded') = Len(recorded) + 1 /\ Len(pending') = Len(pending) - 1
                 /\ \A k \in 1..Len(recorded) : recorded'[k] = recorded[k]
      <4>1. /\ Len(Append(recorded, e)) = Len(recorded) + 1
            /\ \A k \in 1..Len(recorded) : Append(recorded, e)[k] = recorded[k]
        <5> DEFINE R == [n : Nat, outcome : {"ok", "error"}, error : BOOLEAN]
        <5>1. recorded \in Seq(R) BY <1>0
        <5> HIDE DEF R
        <5> QED BY <5>1
      <4>2. Len(Tail(pending)) = Len(pending) - 1 BY <3>4, HeadOfPending
      <4> QED BY <3>4, <4>1, <4>2, Zenon
    <3> QED BY <3>2, <3>3, <3>4, Zenon DEF Recording
  <2>2. ASSUME NEW k \in 1..Len(recorded') PROVE Honest(k)'
    <3>1. CASE k \in 1..Len(recorded)
      <4>1. Honest(k) /\ recorded'[k] = recorded[k] BY <2>1, <3>1 DEF Tallied
      <4> QED BY <2>0, <4>1 DEF Honest
    <3>2. CASE k \notin 1..Len(recorded)
      <4>1. k > Len(recorded) BY <1>0, <2>1, <3>2
      <4> QED BY <4>1
    <3> QED BY <3>1, <3>2
  <2>3. Len(recorded') + Len(pending') = Count(script', Queries, sent')
    <3>1. Len(recorded) + Len(pending) = Count(script, Queries, sent)
      BY DEF Tallied
    <3> QED BY <1>0, <2>0, <2>1, <3>1
  <2> QED BY <2>2, <2>3 DEF Tallied
<1> QED BY <1>1, <1>2, <1>3 DEF Next

-----------------------------------------------------------------------------
(* What a step records is true. *)
Fresh == \A k \in 1..Len(recorded') : k > Len(recorded) => Honest(k)'

(* A step that records nothing. *)
LEMMA NothingFresh ==
    ASSUME TrackType, recorded' = recorded
    PROVE  Fresh
<1>1. Len(recorded) \in Nat BY DEF TrackType
<1> QED BY <1>1 DEF Fresh

(* A step that records one query. *)
LEMMA OneFresh ==
    ASSUME TrackType, NEW n, NEW o, NEW e,
           recorded' = Append(recorded, [n |-> n, outcome |-> o, error |-> e]),
           UNCHANGED <<script, sent, toServer, truth, skipping>>,
           n \in 1..sent, script[n] \in Queries,
           o = "ok" => ~e,
           o = "ok" => n <= Served /\ truth[n] = "ok",
           o = "error" => truth[n] # "ok" /\ (n > Served => skipping)
    PROVE  Fresh
<1> DEFINE R == [n : Nat, outcome : {"ok", "error"}, error : BOOLEAN]
           r == [n |-> n, outcome |-> o, error |-> e]
<1>1. recorded \in Seq(R) BY DEF TrackType
<1>2. r.n = n /\ r.outcome = o /\ r.error = e OBVIOUS
<1> HIDE DEF R, r
<1>3. /\ Len(recorded) \in Nat /\ Len(recorded') = Len(recorded) + 1
      /\ recorded'[Len(recorded) + 1] = r
  <2>1. recorded' = Append(recorded, r) BY DEF r
  <2> QED BY <1>1, <2>1
<1>4. ASSUME NEW k \in 1..Len(recorded'), k > Len(recorded) PROVE Honest(k)'
  <2>1. k = Len(recorded) + 1 BY <1>3, <1>4
  <2>2. recorded'[k] = r BY <1>3, <2>1
  <2>3. Served' = Served BY DEF Served
  <2> QED BY <1>2, <2>2, <2>3 DEF Honest
<1> QED BY <1>4 DEF Fresh

-----------------------------------------------------------------------------
(* In a script of successful simple queries every message ends a cycle. *)
LEMMA PlainCycles ==
    ASSUME TrackType, Plain, PlainInv
    PROVE  ready = Cycles(sent) => ready = sent
<1>1. \A n \in Nat : n <= Len(script) => Cycles(n) = n
  <2>1. ASSUME NEW n \in Nat, n <= Len(script) PROVE Cycles(n) = n
    <3>1. \A i \in 1..n : script[i] = "Q" BY <2>1 DEF TrackType, Plain
    <3>2. {i \in 1..n : script[i] \in {"Q", "QBad", "S"}} = 1..n BY <3>1
    <3>3. Cardinality(1..n) = n BY FS_Interval
    <3> QED BY <3>2, <3>3 DEF Cycles
  <2> QED BY <2>1
<1>2. sent \in Nat /\ sent <= Len(script) BY DEF TrackType
<1> QED BY <1>1, <1>2, Zenon

(* Simple queries that succeed are recorded as such, each at its "Z". *)
LEMMA PlainStep ==
    ASSUME TrackType, TrackType', Plain, PlainInv, Next
    PROVE  PlainInv' /\ Fresh
<1>0. /\ \A n \in 1..Len(script) : script[n] = "Q"
      /\ sent \in Nat /\ sent <= Len(script) /\ Len(script) \in Nat
      /\ ready \in Nat /\ ready <= Served /\ Served = sent - Len(toServer)
      /\ Len(toServer) \in Nat /\ Len(toServer) <= sent
      /\ pending \in Seq(Entries) /\ Len(pending) = sent - ready
      /\ fromServer \in Seq({"C", "E", "Z", "1"}) /\ Len(fromServer) \in Nat
  <2>1. /\ script \in Seq(Kinds) /\ toServer \in Seq(Nat) /\ ready \in Nat
        /\ sent \in 0..Len(script) /\ Len(toServer) <= sent
        /\ fromServer \in Seq({"C", "E", "Z", "1"}) /\ pending \in Seq(Entries)
    BY DEF TrackType
  <2>2. Len(script) \in Nat /\ Len(toServer) \in Nat /\ Len(fromServer) \in Nat
    BY <2>1
  <2>3. ready <= Served /\ Len(pending) = sent - ready BY DEF PlainInv
  <2>4. sent \in Nat /\ sent <= Len(script) BY <2>1, <2>2
  <2>5. \A n \in 1..Len(script) : script[n] = "Q" BY DEF Plain
  <2> QED BY <2>1, <2>2, <2>3, <2>4, <2>5, Zenon DEF Served
<1>01. /\ Served \in Nat /\ ready \in Nat /\ sent \in Nat /\ Len(fromServer) \in Nat
       /\ ready <= Served /\ Served <= sent /\ Len(pending) = sent - ready
       /\ Len(pending) \in Nat
  BY <1>0
<1>1. CASE Frontend
  <2>0. /\ sent + 1 \in 1..Len(script) /\ sent' = sent + 1 /\ Served' = Served
        /\ UNCHANGED <<script, pipelined, skipping, truth, fromServer, ready, recorded>>
    BY <1>1, Frontwards
  <2>1. TakesDeferred(sent + 1) = FALSE
    BY DEF PlainInv, TakesDeferred
  <2>2. pending' = Append(pending, Entry(sent + 1, FALSE)) /\ ~deferred'
    <3>1. script[sent + 1] \in Queries BY <1>0, <2>0 DEF Queries
    <3>2. ~deferred BY DEF PlainInv
    <3> QED BY <1>1, <2>1, <3>1, <3>2, Frontwards
  <2>3. /\ Len(pending') = Len(pending) + 1
        /\ \A j \in 1..Len(pending) : pending'[j] = pending[j]
        /\ pending'[Len(pending) + 1] = Entry(sent + 1, FALSE)
    <3>1. \A S : \A s \in Seq(S) : \A e : /\ Len(Append(s, e)) = Len(s) + 1
                                          /\ \A j \in 1..Len(s) : Append(s, e)[j] = s[j]
                                          /\ Append(s, e)[Len(s) + 1] = e
      OBVIOUS
    <3>2. pending \in Seq(Entries) BY <1>0
    <3> QED BY <2>2, <3>1, <3>2, Zenon
  <2>4. ASSUME NEW j \in 1..Len(pending') PROVE pending'[j] = Entry(ready + j, FALSE)'
    <3>1. Entry(ready + j, FALSE)' = Entry(ready + j, FALSE) BY <2>0 DEF Entry, Simple
    <3>2. CASE j \in 1..Len(pending)
      <4>1. pending[j] = Entry(ready + j, FALSE) BY <3>2 DEF PlainInv
      <4> QED BY <2>3, <3>1, <3>2, <4>1, Zenon
    <3>3. CASE j \notin 1..Len(pending)
      <4>1. j = Len(pending) + 1 /\ ready + j = sent + 1 BY <1>0, <2>3, <3>3
      <4> QED BY <2>3, <3>1, <4>1
    <3> QED BY <3>2, <3>3
  <2>5. Len(pending') = sent' - ready' BY <1>0, <2>0, <2>3
  <2> QED BY <2>0, <2>2, <2>4, <2>5, NothingFresh DEF PlainInv
<1>2. CASE Server
  <2>0. /\ Served + 1 \in 1..sent /\ Served + 1 \in 1..Len(script)
        /\ Served' = Served + 1
        /\ UNCHANGED <<script, pipelined, sent, ready, pending, deferred, recorded>>
    BY <1>2, Serving
  <2>1. script[Served + 1] = "Q" BY <1>0, <2>0
  <2>2. Reply(Served + 1) = <<"C", "Z">> /\ ~skipping
    BY <2>1, ReplyArms DEF PlainInv
  <2>3. /\ Len(fromServer') = Len(fromServer) + 2
        /\ \A i \in 1..Len(fromServer) : fromServer'[i] = fromServer[i]
        /\ fromServer'[Len(fromServer) + 1] = "C" /\ fromServer'[Len(fromServer) + 2] = "Z"
    <3>1. fromServer' = fromServer \o <<"C", "Z">> BY <1>2, <2>2, Serving
    <3> QED BY <1>0, <3>1
  <2>4. ~skipping' BY <1>2, <2>1, <2>2, Serving
  <2>5. \A n \in 1..Served + 1 : truth'[n] = "ok"
    <3>1. truth' = [truth EXCEPT ![Served + 1] = "ok"]
      BY <1>2, <2>1, <2>2, Serving DEF Bad
    <3>2. truth \in [1..Len(script) -> {"none", "ok", "error", "skipped"}]
          /\ \A n \in 1..Served : truth[n] = "ok"
      BY DEF TrackType, PlainInv
    <3>3. ASSUME NEW n \in 1..Served + 1 PROVE truth'[n] = "ok"
      <4>1. n \in 1..Len(script) /\ (n = Served + 1 \/ n \in 1..Served)
        <5>1. Len(script) \in Nat /\ sent <= Len(script) BY <1>0
        <5> QED BY <5>1, <1>01, <2>0
      <4> QED BY <3>1, <3>2, <4>1
    <3> QED BY <3>3
  <2>6. ASSUME NEW j \in Nat
        PROVE  /\ 2 * j < Len(fromServer') => fromServer'[Len(fromServer') - 2 * j] = "Z"
               /\ 2 * j + 1 < Len(fromServer')
                    => fromServer'[Len(fromServer') - 2 * j - 1] = "C"
    <3>1. CASE j = 0
      <4>1. Len(fromServer') - 2 * j = Len(fromServer) + 2
            /\ Len(fromServer') - 2 * j - 1 = Len(fromServer) + 1
        BY <1>0, <2>3, <3>1
      <4> QED BY <2>3, <4>1
    <3>2. CASE j # 0
      <4>1. PICK m \in Nat : j = m + 1
        <5>1. j - 1 \in Nat /\ j = (j - 1) + 1 BY <3>2
        <5> QED BY <5>1
      <4>2. /\ Len(fromServer') - 2 * j = Len(fromServer) - 2 * m
            /\ Len(fromServer') - 2 * j - 1 = Len(fromServer) - 2 * m - 1
            /\ 2 * j < Len(fromServer') =>
                 2 * m < Len(fromServer) /\ Len(fromServer) - 2 * m \in 1..Len(fromServer)
            /\ 2 * j + 1 < Len(fromServer') =>
                 /\ 2 * m + 1 < Len(fromServer)
                 /\ Len(fromServer) - 2 * m - 1 \in 1..Len(fromServer)
        BY <1>0, <2>3, <4>1
      <4>3. /\ 2 * m < Len(fromServer) => fromServer[Len(fromServer) - 2 * m] = "Z"
            /\ 2 * m + 1 < Len(fromServer) => fromServer[Len(fromServer) - 2 * m - 1] = "C"
        BY DEF PlainInv
      <4> QED BY <2>3, <4>2, <4>3, Zenon
    <3> QED BY <3>1, <3>2
  <2>7. Len(fromServer') \in {2 * (Served' - ready'), 2 * (Served' - ready') - 1}
    <3>1. Len(fromServer) \in {2 * (Served - ready), 2 * (Served - ready) - 1}
      BY DEF PlainInv
    <3>2. Len(fromServer') = Len(fromServer) + 2 /\ Served' = Served + 1 /\ ready' = ready
      BY <2>0, <2>3
    <3> QED BY <1>01, <3>1, <3>2
  <2>8. /\ ready' <= Served' /\ Len(pending') = sent' - ready' /\ ~deferred'
        /\ \A j \in 1..Len(pending') : pending'[j] = Entry(ready + j, FALSE)'
    <3>1. \A j : Entry(ready + j, FALSE)' = Entry(ready + j, FALSE) BY <2>0 DEF Entry, Simple
    <3>2. ~deferred /\ \A j \in 1..Len(pending) : pending[j] = Entry(ready + j, FALSE)
      BY DEF PlainInv
    <3>3. ready' <= Served' /\ Len(pending') = sent' - ready' BY <1>01, <2>0
    <3> QED BY <2>0, <3>1, <3>2, <3>3, Zenon
  <2> QED BY <2>0, <2>4, <2>5, <2>6, <2>7, <2>8, NothingFresh DEF PlainInv
<1>3. CASE Backend
  <2> DEFINE L == Len(fromServer)
  <2>0. /\ fromServer # <<>> /\ fromServer' = Tail(fromServer) /\ Served' = Served
        /\ UNCHANGED <<script, pipelined, sent, toServer, skipping, truth>>
    BY <1>3, BackendArms DEF Served
  <2>1. /\ L \in Nat /\ L > 0 /\ Head(fromServer) = fromServer[1]
        /\ Len(fromServer') = L - 1
        /\ \A i \in 1..L - 1 : fromServer'[i] = fromServer[i + 1]
    BY <1>0, <2>0, Taking
  <2>2. L \in {2 * (Served - ready), 2 * (Served - ready) - 1} BY DEF PlainInv
  <2>3. ready < Served /\ ready + 1 \in 1..Served /\ Len(pending) > 0
    BY <1>0, <1>01, <2>1, <2>2
  <2>4. pending # <<>> /\ Head(pending) = Entry(ready + 1, FALSE)
    <3>1. pending # <<>> BY <1>0, <2>3
    <3>2. pending[1] = Entry(ready + 1, FALSE)
      <4>1. 1 \in 1..Len(pending) BY <1>01, <2>3
      <4> QED BY <4>1 DEF PlainInv
    <3> QED BY <3>1, <3>2, HeadOfPending
  <2>5. /\ Head(pending).n = ready + 1 /\ Head(pending).simple /\ ~Head(pending).error
    <3>1. Simple(ready + 1) BY <1>0, <1>01, <2>3 DEF Simple
    <3> QED BY <2>4, <3>1 DEF Entry
  <2>6. ASSUME NEW j \in Nat
        PROVE  /\ 2 * j < Len(fromServer') => fromServer'[Len(fromServer') - 2 * j] = "Z"
               /\ 2 * j + 1 < Len(fromServer')
                    => fromServer'[Len(fromServer') - 2 * j - 1] = "C"
    <3>1. /\ 2 * j < L - 1 => /\ 2 * j < L /\ L - 1 - 2 * j \in 1..L - 1
                              /\ (L - 1 - 2 * j) + 1 = L - 2 * j
          /\ 2 * j + 1 < L - 1 => /\ 2 * j + 1 < L /\ L - 1 - 2 * j - 1 \in 1..L - 1
                                  /\ (L - 1 - 2 * j - 1) + 1 = L - 2 * j - 1
      BY <2>1
    <3>2. /\ 2 * j < L => fromServer[L - 2 * j] = "Z"
          /\ 2 * j + 1 < L => fromServer[L - 2 * j - 1] = "C"
      BY DEF PlainInv
    <3>3. /\ 2 * j < L - 1 => fromServer'[L - 1 - 2 * j] = fromServer[(L - 1 - 2 * j) + 1]
          /\ 2 * j + 1 < L - 1 =>
               fromServer'[L - 1 - 2 * j - 1] = fromServer[(L - 1 - 2 * j - 1) + 1]
      BY <2>1, <3>1, Zenon
    <3> HIDE DEF L
    <3> QED BY <2>1, <3>1, <3>2, <3>3
  <2>7. CASE L = 2 * (Served - ready)
    <3>1. PICK m \in Nat : m = Served - ready - 1 /\ 2 * m + 1 < L /\ L - 2 * m - 1 = 1
      <4>1. Served - ready - 1 \in Nat BY <1>01, <2>3
      <4> QED BY <1>01, <2>3, <2>7, <4>1
    <3>2. Head(fromServer) = "C"
      <4>1. fromServer[L - 2 * m - 1] = "C" BY <3>1 DEF PlainInv
      <4> QED BY <2>1, <3>1, <4>1
    <3>3. UNCHANGED <<pending, recorded, deferred, ready>>
      BY <1>3, <2>5, <3>2, BackendArms DEF OnComplete
    <3>4. Len(fromServer') = 2 * (Served' - ready') - 1
      BY <2>0, <2>1, <2>7, <3>3
    <3>5. \A j : Entry(ready + j, FALSE)' = Entry(ready + j, FALSE)
      BY <2>0, <3>3 DEF Entry, Simple
    <3>6. ~deferred' /\ \A j \in 1..Len(pending') : pending'[j] = Entry(ready + j, FALSE)'
      BY <3>3, <3>5 DEF PlainInv
    <3>7. /\ ~skipping' /\ ready' <= Served' /\ Len(pending') = sent' - ready'
          /\ \A n \in 1..Served' : truth'[n] = "ok"
      BY <1>0, <2>0, <3>3 DEF PlainInv
    <3>8. recorded' = recorded BY <3>3
    <3> QED BY <2>6, <3>4, <3>6, <3>7, <3>8, NothingFresh DEF PlainInv
  <2>8. CASE L = 2 * (Served - ready) - 1
    <3>1. PICK m \in Nat : m = Served - ready - 1 /\ 2 * m < L /\ L - 2 * m = 1
      <4>1. Served - ready - 1 \in Nat BY <1>01, <2>3
      <4> QED BY <1>01, <2>3, <2>8, <4>1
    <3>2. Head(fromServer) = "Z"
      <4>1. fromServer[L - 2 * m] = "Z" BY <3>1 DEF PlainInv
      <4> QED BY <2>1, <3>1, <4>1
    <3>3. /\ ready' = ready + 1 /\ ~deferred' /\ pending' = Tail(pending)
          /\ recorded' = Append(recorded, [n |-> ready + 1, outcome |-> "ok",
                                           error |-> FALSE])
      <4>1. OnReady /\ ready' = ready + 1 BY <1>3, <3>2, BackendArms
      <4>2. Head(pending).error = FALSE BY <2>4, <2>5, HeadOfPending
      <4>3. deferred' = FALSE /\ Finish("ok", FALSE)
        BY <2>4, <2>5, <4>1, <4>2, Zenon DEF OnReady
      <4> QED BY <2>5, <4>1, <4>3, Zenon DEF Finish
    <3>4. Fresh
      <4>1. ready + 1 \in 1..sent /\ script[ready + 1] \in Queries
            /\ ready + 1 <= Served /\ truth[ready + 1] = "ok"
        BY <1>0, <1>01, <2>3 DEF PlainInv, Queries
      <4> QED BY <2>0, <3>3, <4>1, OneFresh
    <3>5. Len(fromServer') = 2 * (Served' - ready')
      BY <1>01, <2>0, <2>1, <2>8, <3>3
    <3>6. /\ Len(pending') = Len(pending) - 1
          /\ \A j \in 1..Len(pending) - 1 : pending'[j] = pending[j + 1]
      BY <2>4, <3>3, HeadOfPending
    <3>7. ASSUME NEW j \in 1..Len(pending') PROVE pending'[j] = Entry(ready + j, FALSE)'
      <4>1. Entry(ready + j, FALSE)' = Entry(ready + 1 + j, FALSE)
        BY <2>0, <3>3 DEF Entry, Simple
      <4>2. j \in 1..Len(pending) - 1 /\ j + 1 \in 1..Len(pending)
            /\ ready + 1 + j = ready + (j + 1)
        BY <1>0, <3>6
      <4>3. pending[j + 1] = Entry(ready + (j + 1), FALSE) BY <4>2 DEF PlainInv
      <4> QED BY <3>6, <4>1, <4>2, <4>3
    <3>8. ready' <= Served' /\ Len(pending') = sent' - ready'
      BY <1>0, <1>01, <2>0, <2>3, <3>3, <3>6
    <3> QED BY <2>0, <2>6, <3>3, <3>4, <3>5, <3>7, <3>8 DEF PlainInv
  <2> QED BY <2>2, <2>7, <2>8
<1> QED BY <1>1, <1>2, <1>3 DEF Next

-----------------------------------------------------------------------------
(* Extended queries that succeed are recorded in their order, each at its "C". *)
LEMMA ExtendedStep ==
    ASSUME TrackType, TrackType', Extended, ExtendedInv, Next
    PROVE  ExtendedInv' /\ Fresh
<1> DEFINE N == Len(script)
           L == Len(fromServer)
           G == Got
<1>0. /\ \A n \in 1..N : script[n] \in {"P", "E", "S"}
      /\ pending \in Seq(Entries) /\ fromServer \in Seq({"C", "E", "Z", "1"})
      /\ ~skipping /\ ~deferred
  BY DEF Extended, TrackType, ExtendedInv
<1>01. /\ Served \in Nat /\ ready \in Nat /\ sent \in Nat /\ L \in Nat /\ N \in Nat
       /\ G \in Nat /\ G = Served - L /\ Served <= sent /\ sent <= N /\ Len(pending) \in Nat
  <2>1. /\ ready \in Nat /\ sent \in Nat /\ sent <= N /\ N \in Nat
        /\ toServer \in Seq(Nat) /\ Len(toServer) <= sent
        /\ Served = sent - Len(toServer) /\ G = Served - L /\ G >= 0
    BY DEF TrackType, ExtendedInv, Got, Served
  <2>2. L \in Nat /\ Len(toServer) \in Nat /\ Len(pending) \in Nat BY <1>0, <2>1
  <2> QED BY <2>1, <2>2
<1>02. ready = Cycles(G) /\ \A n \in 1..Served : truth[n] = "ok"
  BY DEF ExtendedInv
<1>03. \A i \in 1..L : fromServer[i] = Answer(G + i)
  BY DEF ExtendedInv
<1>04. \A i \in 1..Len(pending) :
         /\ pending[i].n \in G + 1..sent /\ script[pending[i].n] = "E"
         /\ ~pending[i].simple /\ ~pending[i].error
  BY DEF ExtendedInv
<1>05. \A i, j \in 1..Len(pending) : i < j => pending[i].n < pending[j].n
  BY DEF ExtendedInv
<1>06. \A n \in G + 1..sent :
         script[n] = "E" => \E i \in 1..Len(pending) : pending[i].n = n
  BY DEF ExtendedInv
<1> HIDE DEF N, L, G
<1>1. CASE Frontend
  <2>0. /\ sent + 1 \in 1..N /\ sent' = sent + 1 /\ Served' = Served
        /\ UNCHANGED <<script, pipelined, skipping, truth, fromServer, ready, recorded>>
    BY <1>1, Frontwards DEF N
  <2>1. Got' = G BY <2>0, <1>01 DEF Got, G
  <2>2. /\ Fresh /\ ~skipping' /\ Got' >= 0 /\ ready' = Cycles(Got)'
        /\ \A n \in 1..Served' : truth'[n] = "ok"
        /\ \A i \in 1..Len(fromServer') : fromServer'[i] = Answer(Got + i)'
    <3>1. Cycles(Got)' = Cycles(G) BY <2>0, <2>1 DEF Cycles
    <3>2. \A i : Answer(Got + i)' = Answer(G + i) BY <2>0, <2>1 DEF Answer
    <3>3. Len(fromServer') = L BY <2>0 DEF L
    <3>4. Fresh BY <2>0, NothingFresh
    <3>5. Got' >= 0 BY <1>01, <2>1
    <3> QED BY <1>0, <1>02, <1>03, <2>0, <2>1, <3>1, <3>2, <3>3, <3>4, <3>5, Zenon
  <2>3. CASE script[sent + 1] = "E"
    <3>1. /\ pending' = Append(pending, Entry(sent + 1, FALSE)) /\ ~deferred'
      <4>1. script[sent + 1] \in Queries BY <2>3 DEF Queries
      <4>2. TakesDeferred(sent + 1) = FALSE BY <1>0 DEF TakesDeferred
      <4> QED BY <1>0, <1>1, <4>1, <4>2, Frontwards
    <3>2. /\ Len(pending') = Len(pending) + 1
          /\ \A j \in 1..Len(pending) : pending'[j] = pending[j]
          /\ pending'[Len(pending) + 1] = Entry(sent + 1, FALSE)
      <4>1. \A S : \A s \in Seq(S) : \A e : /\ Len(Append(s, e)) = Len(s) + 1
                                            /\ \A j \in 1..Len(s) : Append(s, e)[j] = s[j]
                                            /\ Append(s, e)[Len(s) + 1] = e
        OBVIOUS
      <4>2. pending \in Seq(Entries) BY <1>0
      <4> QED BY <3>1, <4>1, <4>2, Zenon
    <3>3. /\ pending'[Len(pending) + 1].n = sent + 1
          /\ ~pending'[Len(pending) + 1].simple /\ ~pending'[Len(pending) + 1].error
      <4>1. Simple(sent + 1) = FALSE BY <2>3 DEF Simple
      <4>2. \A a, b, c : [n |-> a, simple |-> b, error |-> c].n = a
                         /\ [n |-> a, simple |-> b, error |-> c].simple = b
                         /\ [n |-> a, simple |-> b, error |-> c].error = c
        OBVIOUS
      <4>3. /\ Entry(sent + 1, FALSE).n = sent + 1
            /\ Entry(sent + 1, FALSE).simple = FALSE
            /\ Entry(sent + 1, FALSE).error = FALSE
        BY <4>1, <4>2, Zenon DEF Entry
      <4> QED BY <3>2, <4>3, Zenon
    <3>4. ASSUME NEW i \in 1..Len(pending')
          PROVE  /\ pending'[i].n \in G + 1..sent + 1 /\ script[pending'[i].n] = "E"
                 /\ ~pending'[i].simple /\ ~pending'[i].error
      <4>1. i \in 1..Len(pending) \/ i = Len(pending) + 1 BY <1>01, <3>2
      <4>2. G + 1 \in Nat /\ \A n \in G + 1..sent : n \in G + 1..sent + 1 BY <1>01
      <4>3. sent + 1 \in G + 1..sent + 1 BY <1>01
      <4>4. CASE i \in 1..Len(pending) BY <1>04, <3>2, <4>2, <4>4, Zenon
      <4>5. CASE i = Len(pending) + 1 BY <2>3, <3>3, <4>3, <4>5, Zenon
      <4> QED BY <4>1, <4>4, <4>5
    <3>5. ASSUME NEW i \in 1..Len(pending'), NEW j \in 1..Len(pending'), i < j
          PROVE  pending'[i].n < pending'[j].n
      <4>1. i \in 1..Len(pending) /\ (j \in 1..Len(pending) \/ j = Len(pending) + 1)
        BY <1>01, <3>2, <3>5
      <4>2. CASE j \in 1..Len(pending) BY <1>05, <3>2, <3>5, <4>1, <4>2, Zenon
      <4>3. CASE j = Len(pending) + 1
        <5>1. pending'[i].n \in G + 1..sent BY <1>04, <3>2, <4>1, Zenon
        <5>2. pending'[j].n = sent + 1 BY <3>3, <4>3
        <5> QED BY <1>01, <5>1, <5>2
      <4> QED BY <4>1, <4>2, <4>3
    <3>6. ASSUME NEW n \in G + 1..sent + 1, script[n] = "E"
          PROVE  \E i \in 1..Len(pending') : pending'[i].n = n
      <4>1. CASE n = sent + 1
        <5>1. Len(pending) + 1 \in 1..Len(pending') BY <1>01, <3>2
        <5> QED BY <3>3, <4>1, <5>1, Zenon
      <4>2. CASE n # sent + 1
        <5>1. n \in G + 1..sent BY <1>01, <4>2
        <5>2. PICK i \in 1..Len(pending) : pending[i].n = n BY <1>06, <3>6, <5>1
        <5>3. i \in 1..Len(pending') BY <1>01, <3>2
        <5> QED BY <3>2, <5>2, <5>3, Zenon
      <4> QED BY <4>1, <4>2
    <3> QED BY <2>0, <2>1, <2>2, <3>1, <3>4, <3>5, <3>6 DEF ExtendedInv
  <2>4. CASE script[sent + 1] # "E"
    <3>1. UNCHANGED <<pending, deferred>>
      <4>1. script[sent + 1] \notin Queries BY <1>0, <2>0, <2>4 DEF Queries
      <4> QED BY <1>1, <4>1, Frontwards
    <3>2. \A i \in 1..Len(pending') :
            /\ pending'[i].n \in G + 1..sent + 1 /\ script[pending'[i].n] = "E"
            /\ ~pending'[i].simple /\ ~pending'[i].error
      <4>1. \A n \in G + 1..sent : n \in G + 1..sent + 1 BY <1>01
      <4> QED BY <1>04, <3>1, <4>1, Zenon
    <3>3. ASSUME NEW n \in G + 1..sent + 1, script[n] = "E"
          PROVE  \E i \in 1..Len(pending') : pending'[i].n = n
      <4>1. n \in G + 1..sent BY <1>01, <2>4, <3>3
      <4> QED BY <1>06, <3>1, <3>3, <4>1, Zenon
    <3>4. \A i, j \in 1..Len(pending') : i < j => pending'[i].n < pending'[j].n
      BY <1>05, <3>1
    <3> QED BY <1>0, <2>0, <2>1, <2>2, <3>1, <3>2, <3>3, <3>4 DEF ExtendedInv
  <2> QED BY <2>3, <2>4
<1>2. CASE Server
  <2>0. /\ Served + 1 \in 1..sent /\ Served + 1 \in 1..N
        /\ Served' = Served + 1
        /\ UNCHANGED <<script, pipelined, sent, ready, pending, deferred, recorded>>
    BY <1>2, Serving DEF N
  <2>1. Reply(Served + 1) = <<Answer(Served + 1)>>
    <3>1. script[Served + 1] \in {"P", "E", "S"} BY <1>0, <2>0
    <3> QED BY <1>0, <3>1, ReplyArms DEF Answer
  <2>2. /\ Len(fromServer') = L + 1
        /\ \A i \in 1..L : fromServer'[i] = fromServer[i]
        /\ fromServer'[L + 1] = Answer(Served + 1)
    <3>1. fromServer' = fromServer \o <<Answer(Served + 1)>> BY <1>2, <2>1, Serving
    <3> QED BY <1>0, <3>1 DEF L
  <2>3. Got' = G BY <1>01, <2>0, <2>2 DEF Got
  <2>4. ~skipping'
    <3>1. script[Served + 1] \in {"P", "E", "S"} BY <1>0, <2>0
    <3> QED BY <1>0, <1>2, <3>1, Serving
  <2>5. \A n \in 1..Served + 1 : truth'[n] = "ok"
    <3>0. script[Served + 1] \in {"P", "E", "S"} BY <1>0, <2>0
    <3>1. truth' = [truth EXCEPT ![Served + 1] = "ok"]
      BY <1>0, <1>2, <3>0, Serving DEF Bad
    <3>2. truth \in [1..N -> {"none", "ok", "error", "skipped"}]
      BY DEF TrackType, N
    <3>3. ASSUME NEW n \in 1..Served + 1 PROVE truth'[n] = "ok"
      <4>1. n \in 1..N /\ (n = Served + 1 \/ n \in 1..Served) BY <1>01, <2>0
      <4> QED BY <1>02, <3>1, <3>2, <4>1
    <3> QED BY <3>3
  <2>6. ASSUME NEW i \in 1..Len(fromServer') PROVE fromServer'[i] = Answer(Got + i)'
    <3>1. Answer(Got + i)' = Answer(G + i) BY <2>0, <2>3 DEF Answer
    <3>2. CASE i \in 1..L BY <1>03, <2>2, <3>1, <3>2
    <3>3. CASE i \notin 1..L
      <4>1. i = L + 1 /\ G + i = Served + 1 BY <1>01, <2>2, <3>3
      <4> QED BY <2>2, <3>1, <4>1
    <3> QED BY <3>2, <3>3
  <2>7. Got' >= 0 /\ ready' = Cycles(Got)'
    <3>1. Cycles(Got)' = Cycles(G) BY <2>0, <2>3 DEF Cycles
    <3> QED BY <1>01, <1>02, <2>0, <2>3, <3>1
  <2> QED BY <1>0, <1>04, <1>05, <1>06, <2>0, <2>3, <2>4, <2>5, <2>6, <2>7, NothingFresh
       DEF ExtendedInv
<1>3. CASE Backend
  <2>0. /\ fromServer # <<>> /\ fromServer' = Tail(fromServer) /\ Served' = Served
        /\ UNCHANGED <<script, pipelined, sent, toServer, skipping, truth>>
    BY <1>3, BackendArms DEF Served
  <2>1. /\ L > 0 /\ Head(fromServer) = fromServer[1] /\ Len(fromServer') = L - 1
        /\ \A i \in 1..L - 1 : fromServer'[i] = fromServer[i + 1]
    BY <1>0, <2>0, Taking DEF L
  <2>2. Got' = G + 1 /\ G + 1 \in 1..Served /\ G + 1 \in 1..N /\ G + 1 \in G + 1..sent
    BY <1>01, <2>0, <2>1 DEF Got
  <2>3. Head(fromServer) = Answer(G + 1) /\ script[G + 1] \in {"P", "E", "S"}
    <3>1. 1 \in 1..L BY <1>01, <2>1
    <3> QED BY <1>0, <1>03, <2>1, <2>2, <3>1
  <2>4. ASSUME NEW i \in 1..Len(fromServer') PROVE fromServer'[i] = Answer(Got + i)'
    <3>1. Answer(Got + i)' = Answer(G + 1 + i) BY <2>0, <2>2 DEF Answer
    <3>2. i \in 1..L - 1 /\ i + 1 \in 1..L /\ G + 1 + i = G + (i + 1) BY <1>01, <2>1
    <3> QED BY <1>03, <2>1, <3>1, <3>2
  <2>5. Cycles(Got)' = IF script[G + 1] = "S" THEN Cycles(G) + 1 ELSE Cycles(G)
    <3>1. Cycles(Got)' = Cycles(G + 1) BY <2>0, <2>2 DEF Cycles
    <3>2. Count(script, Ends, G + 1) = IF script[G + 1] \in Ends THEN Count(script, Ends, G) + 1
                                                                ELSE Count(script, Ends, G)
      BY <1>01, CountNext
    <3>3. script[G + 1] \in Ends <=> script[G + 1] = "S" BY <2>3 DEF Ends
    <3>4. Cycles(G) = Count(script, Ends, G) /\ Cycles(G + 1) = Count(script, Ends, G + 1)
      BY CyclesCount
    <3> QED BY <3>1, <3>2, <3>3, <3>4, Zenon
  <2>6. ~skipping' /\ \A n \in 1..Served' : truth'[n] = "ok" BY <1>0, <1>02, <2>0
  <2>7. CASE script[G + 1] # "E"
    <3>1. UNCHANGED <<pending, recorded>> /\ ~deferred' /\ ready' = Cycles(Got)'
      <4>1. CASE script[G + 1] = "P"
        <5>1. Head(fromServer) = "1" BY <2>3, <4>1 DEF Answer
        <5> QED BY <1>0, <1>02, <1>3, <2>5, <4>1, <5>1, BackendArms
      <4>2. CASE script[G + 1] = "S"
        <5>1. Head(fromServer) = "Z" BY <2>3, <4>2 DEF Answer
        <5>2. OnReady /\ ready' = ready + 1 BY <1>3, <5>1, BackendArms
        <5>3. pending # <<>> => ~Head(pending).simple /\ ~Head(pending).error
          <6>1. ASSUME pending # <<>> PROVE Head(pending) = pending[1] /\ 1 \in 1..Len(pending)
            BY <6>1, HeadOfPending
          <6> QED BY <1>04, <6>1
        <5>4. UNCHANGED <<pending, recorded>> /\ ~deferred'
          BY <1>0, <5>2, <5>3 DEF OnReady
        <5> QED BY <1>02, <2>5, <4>2, <5>2, <5>4
      <4> QED BY <2>3, <2>7, <4>1, <4>2
    <3>2. ASSUME NEW i \in 1..Len(pending)
          PROVE  pending[i].n \in G + 1 + 1..sent
      <4>1. pending[i].n \in G + 1..sent /\ pending[i].n # G + 1 BY <1>04, <2>7
      <4> QED BY <1>01, <4>1
    <3>3. \A n \in G + 1 + 1..sent : n \in G + 1..sent BY <1>01
    <3> QED BY <1>01, <1>04, <1>05, <1>06, <2>0, <2>2, <2>4, <2>6, <3>1, <3>2, <3>3, NothingFresh
         DEF ExtendedInv
  <2>8. CASE script[G + 1] = "E"
    <3>1. Head(fromServer) = "C" BY <2>3, <2>8 DEF Answer
    <3>2. PICK i \in 1..Len(pending) : pending[i].n = G + 1 BY <1>06, <2>2, <2>8
    <3>3. i = 1
      <4>1. 1 \in 1..Len(pending) BY <1>01, <3>2
      <4>2. pending[1].n \in G + 1..sent BY <1>04, <4>1
      <4>3. 1 < i => pending[1].n < G + 1 BY <1>05, <3>2, <4>1
      <4> QED BY <1>01, <3>2, <4>2, <4>3
    <3>4. /\ pending # <<>> /\ Head(pending).n = G + 1
          /\ ~Head(pending).simple /\ Head(pending).error = FALSE
      <4>1. pending # <<>> BY <1>01, <3>2
      <4>2. Head(pending) = pending[1] /\ Head(pending).error \in BOOLEAN
        BY <4>1, HeadOfPending
      <4> QED BY <1>04, <3>2, <3>3, <4>1, <4>2
    <3>5. /\ pending' = Tail(pending) /\ ~deferred' /\ ready' = ready
          /\ recorded' = Append(recorded, [n |-> G + 1, outcome |-> "ok", error |-> FALSE])
      <4>1. OnComplete /\ ready' = ready BY <1>3, <3>1, BackendArms
      <4>2. Finish("ok", FALSE) /\ deferred' = deferred
        BY <3>4, <4>1, Zenon DEF OnComplete
      <4> QED BY <1>0, <3>4, <4>1, <4>2, Zenon DEF Finish
    <3>6. Fresh
      <4>1. G + 1 \in 1..sent /\ script[G + 1] \in Queries
            /\ G + 1 <= Served /\ truth[G + 1] = "ok"
        BY <1>01, <1>02, <2>2, <2>8 DEF Queries
      <4> QED BY <2>0, <3>5, <4>1, OneFresh
    <3>7. /\ Len(pending') = Len(pending) - 1
          /\ \A j \in 1..Len(pending) - 1 : pending'[j] = pending[j + 1]
      BY <3>4, <3>5, HeadOfPending
    <3>8. \A j \in 1..Len(pending') : j + 1 \in 1..Len(pending) /\ 1 < j + 1
                                      /\ pending'[j] = pending[j + 1]
      BY <1>01, <3>7
    <3>9. ASSUME NEW j \in 1..Len(pending')
          PROVE  /\ pending'[j].n \in G + 1 + 1..sent /\ script[pending'[j].n] = "E"
                 /\ ~pending'[j].simple /\ ~pending'[j].error
      <4>1. pending[1].n = G + 1 /\ 1 \in 1..Len(pending) BY <1>01, <3>2, <3>3
      <4>2. pending[1].n < pending[j + 1].n BY <1>05, <3>8, <4>1, Zenon
      <4>3. /\ pending'[j].n \in G + 1..sent /\ script[pending'[j].n] = "E"
            /\ ~pending'[j].simple /\ ~pending'[j].error
        BY <1>04, <3>8, Zenon
      <4>4. G + 1 < pending'[j].n BY <3>8, <4>1, <4>2
      <4> QED BY <1>01, <4>3, <4>4
    <3>10. ASSUME NEW j \in 1..Len(pending'), NEW k \in 1..Len(pending'), j < k
           PROVE  pending'[j].n < pending'[k].n
      <4>1. j + 1 < k + 1 BY <1>01, <3>7, <3>10
      <4> QED BY <1>05, <3>8, <4>1, Zenon
    <3>11. ASSUME NEW n \in G + 1 + 1..sent, script[n] = "E"
           PROVE  \E j \in 1..Len(pending') : pending'[j].n = n
      <4>1. n \in G + 1..sent /\ n # G + 1 BY <1>01
      <4>2. PICK j \in 1..Len(pending) : pending[j].n = n BY <1>06, <3>11, <4>1
      <4>3. j # 1 BY <3>2, <3>3, <4>1, <4>2
      <4>4. j - 1 \in 1..Len(pending') /\ (j - 1) + 1 = j BY <1>01, <3>7, <4>3
      <4> QED BY <3>8, <4>2, <4>4
    <3>12. ready' = Cycles(Got)' BY <1>02, <2>5, <2>8, <3>5
    <3> QED BY <1>01, <2>0, <2>2, <2>4, <2>6, <3>5, <3>6, <3>9, <3>10, <3>11, <3>12
         DEF ExtendedInv
  <2> QED BY <2>7, <2>8
<1> QED BY <1>1, <1>2, <1>3 DEF Next

-----------------------------------------------------------------------------
(* Sequences of one message and of two. *)
LEMMA Few ==
    /\ \A x : /\ <<x>> # <<>> /\ Head(<<x>>) = x /\ Tail(<<x>>) = <<>> /\ Len(<<x>>) = 1
              /\ Append(<<>>, x) = <<x>>
    /\ \A x, y : <<x, y>> # <<>> /\ Head(<<x, y>>) = x /\ Tail(<<x, y>>) = <<y>>
<1>1. \A x : <<x>> # <<>> /\ Head(<<x>>) = x /\ Tail(<<x>>) = <<>> /\ Len(<<x>>) = 1
  OBVIOUS
<1>2. \A x : Append(<<>>, x) = <<x>> OBVIOUS
<1>3. \A x, y : <<x, y>> # <<>> /\ Head(<<x, y>>) = x /\ Tail(<<x, y>>) = <<y>>
  OBVIOUS
<1> QED BY <1>1, <1>2, <1>3, Zenon

(* How the messages of a script of single queries follow each other. *)
LEMMA Following ==
    ASSUME TrackType, OneByOne, NEW n \in 1..Len(script)
    PROVE  /\ script[n] \in Kinds
           /\ n = 1 => script[n] # "S"
           /\ n > 1 =>
                /\ script[n] = "S" => script[n - 1] \in {"E", "EBad"}
                /\ script[n - 1] \in {"E", "EBad"} => script[n] = "S"
                /\ script[n - 1] \in {"P", "PBad"} => script[n] \in {"P", "PBad", "E", "EBad"}
<1>1. script[n] \in Kinds BY DEF TrackType
<1>2. n = 1 => script[n] # "S" BY DEF OneByOne
<1>3. ASSUME n > 1
      PROVE  /\ script[n] = "S" => script[n - 1] \in {"E", "EBad"}
             /\ script[n - 1] \in {"E", "EBad"} => script[n] = "S"
             /\ script[n - 1] \in {"P", "PBad"} => script[n] \in {"P", "PBad", "E", "EBad"}
  <2> DEFINE b == script[n - 1]
  <2>1. /\ script[n] = "S" => b \in {"E", "EBad"}
        /\ script[n] # "S" => b \in {"P", "PBad"} \cup Ends
        /\ script[n] \in {"Q", "QBad"} => b \in Ends
    BY <1>3 DEF OneByOne
  <2>2. b \in {"E", "EBad"} => b \notin {"P", "PBad"} \cup Ends BY DEF Ends
  <2>3. b \in {"P", "PBad"} => b \notin Ends /\ b \notin {"E", "EBad"} BY DEF Ends
  <2>4. script[n] \in {"Q", "QBad"} \cup {"P", "PBad", "E", "EBad"} \cup {"S"}
    BY <1>1 DEF Kinds
  <2> QED BY <2>1, <2>2, <2>3, <2>4
<1> QED BY <1>1, <1>2, <1>3

(* The integers of this part. *)
LEMMA Numbers ==
    ASSUME TrackType
    PROVE  /\ sent \in Nat /\ ready \in Nat /\ Len(script) \in Nat /\ sent <= Len(script)
           /\ Len(toServer) \in Nat /\ Len(fromServer) \in Nat
           /\ Served \in Nat /\ Served + Len(toServer) = sent /\ Served <= sent
           /\ (toServer = <<>> <=> Served = sent)
<1>1. /\ sent \in Nat /\ ready \in Nat /\ Len(script) \in Nat /\ sent <= Len(script)
      /\ toServer \in Seq(Nat) /\ Len(toServer) <= sent /\ Served = sent - Len(toServer)
      /\ fromServer \in Seq({"C", "E", "Z", "1"})
  BY DEF TrackType, Served
<1>2. Len(toServer) \in Nat /\ (toServer = <<>> <=> Len(toServer) = 0)
  BY <1>1, Emptiness
<1>3. Len(fromServer) \in Nat BY <1>1
<1> QED BY <1>1, <1>2, <1>3

(* The Execute of a cycle, and the Sync that follows it. *)
LEMMA Asking ==
    ASSUME TrackType, OneByOne, sent > 0, HasAsked
    PROVE  /\ Asked \in 1..sent /\ script[Asked] \in {"E", "EBad"}
           /\ \A m \in 1..sent : m > Asked => m = sent /\ script[m] = "S" /\ Asked = m - 1
<1>1. sent \in 1..Len(script) BY Numbers
<1>2. CASE script[sent] = "S"
  <2>1. sent > 1 /\ script[sent - 1] \in {"E", "EBad"} BY <1>1, <1>2, Following
  <2>2. Asked = sent - 1 BY <1>2 DEF Asked
  <2> QED BY <1>1, <1>2, <2>1, <2>2
<1>3. CASE script[sent] # "S"
  <2>1. Asked = sent /\ script[sent] \in {"E", "EBad"} BY <1>3 DEF Asked, HasAsked
  <2> QED BY <1>1, <2>1
<1> QED BY <1>2, <1>3

(* What the client sends next, once it may. *)
LEMMA OneByOneFront ==
    ASSUME TrackType, TrackType', OneByOne, OneByOneInv, Frontend
    PROVE  OneByOneInv'
<1> PICK n : n = sent + 1 OBVIOUS
<1>0. /\ n \in 1..Len(script) /\ sent' = n /\ Served' = Served
      /\ toServer' = Append(toServer, n)
      /\ UNCHANGED <<script, pipelined, skipping, truth, fromServer, ready, recorded>>
  BY Frontwards
<1>1. /\ sent \in Nat /\ Served \in Nat /\ Served <= sent /\ ready \in Nat
      /\ n > 0 /\ n > Served /\ n \in Nat /\ n - 1 = sent
  BY Numbers
<1>2. toServer' # <<>> /\ ~Quiet' /\ ~Synced'
  <2>1. Len(toServer') = Len(toServer) + 1 /\ Len(toServer) \in Nat BY Frontwards, Numbers
  <2>2. toServer' # <<>> BY <2>1
  <2> QED BY <2>2 DEF Quiet, Synced
<1>3. Cycles(sent)' = IF script[n] \in Ends THEN Cycles(sent) + 1 ELSE Cycles(sent)
  <2>1. Cycles(sent)' = Cycles(n) BY <1>0 DEF Cycles
  <2>2. Count(script, Ends, n) = IF script[n] \in Ends THEN Count(script, Ends, sent) + 1
                                                     ELSE Count(script, Ends, sent)
    BY <1>1, CountNext
  <2> QED BY <2>1, <2>2, CyclesCount, Zenon
<1>4. AtEnd' <=> script[n] \in Ends
  BY <1>0, <1>1 DEF AtEnd
<1>5. /\ script[n] \in {"Q", "QBad", "E", "EBad"} =>
           pending' = Append(pending, Entry(n, TakesDeferred(n)))
           /\ deferred' = (deferred /\ ~TakesDeferred(n))
      /\ script[n] \in {"P", "PBad", "S"} => UNCHANGED <<pending, deferred>>
  BY Frontwards DEF Queries
<1>6. Entry(n, FALSE)' = Entry(n, FALSE) /\ Entry(n, TRUE)' = Entry(n, TRUE)
  BY <1>0, Zenon DEF Entry, Simple
<1>7. /\ HasAsked' <=> script[n] \in {"E", "EBad", "S"}
      /\ Asked' = IF script[n] = "S" THEN sent ELSE n
  <2>1. Asked' = IF script[n] = "S" THEN n - 1 ELSE n BY <1>0 DEF Asked
  <2>2. n - 1 = sent BY <1>1
  <2> QED BY <1>0, <2>1, <2>2 DEF HasAsked
<1>8. Rest' = <<>> BY <1>2 DEF Rest
<1>9. CASE AtEnd
  <2>1. Quiet
    <3>1. ~InCycle BY <1>1, <1>9 DEF InCycle, AtEnd, Ends
    <3>2. ready = Cycles(sent) BY <3>1 DEF Frontend, OneByOne
    <3>3. ready # ready + 1 BY <1>1
    <3> QED BY <1>9, <3>2, <3>3 DEF OneByOneInv, Counted
  <2>2. /\ toServer = <<>> /\ fromServer' = <<>> /\ pending = <<>> /\ ~deferred /\ ~skipping'
        /\ Served = sent
    BY <1>0, <2>1, Numbers DEF Quiet
  <2>3. script[n] \in {"Q", "QBad", "P", "PBad", "E", "EBad"}
    <3>1. script[n] \in Kinds /\ (n = 1 => script[n] # "S")
          /\ (n > 1 /\ script[n] = "S" => script[n - 1] \in {"E", "EBad"})
      BY <1>0, Following
    <3>2. n = 1 \/ (n > 1 /\ n - 1 = sent /\ sent # 0) BY <1>1
    <3>3. script[sent] \in {"E", "EBad"} => script[sent] \notin Ends BY DEF Ends
    <3> QED BY <1>9, <3>1, <3>2, <3>3 DEF AtEnd, Kinds
  <2>4. OneCycle'
    <3>1. \A m : m \notin n..n - 1 BY <1>1
    <3>2. Served' + 1 = n /\ sent' - 1 = n - 1 BY <1>0, <1>1, <2>2
    <3> QED BY <3>1, <3>2, Zenon DEF OneCycle
  <2>5. TakesDeferred(n) = FALSE BY <2>2 DEF TakesDeferred
  <2>6. script[n] \in {"Q", "QBad", "E", "EBad"} => pending' = <<Entry(n, FALSE)>> /\ ~deferred'
    BY <1>5, <2>2, <2>5, Few
  <2>7. toServer' = <<n>> BY <1>0, <2>2, Few
  <2>8. CASE script[n] \in {"Q", "QBad"}
    <3>1. Querying'
      <4>1. pending' = <<Entry(sent, FALSE)'>>
        <5>1. Entry(sent, FALSE)' = Entry(n, FALSE)' BY <1>0, Zenon DEF Entry, Simple
        <5>2. pending' = <<Entry(n, FALSE)>> BY <2>6, <2>8
        <5> QED BY <1>6, <5>1, <5>2, Zenon
      <4> QED BY <1>0, <2>2, <2>6, <2>7, <2>8, <4>1 DEF Querying
    <3>2. sent' > 0 /\ Simple(sent)' BY <1>0, <1>1, <2>8 DEF Simple
    <3>3. Counted'
      <4>1. AtEnd' /\ Cycles(sent)' = Cycles(sent) + 1 BY <1>3, <1>4, <2>8 DEF Ends
      <4>2. ready = Cycles(sent) BY <1>9, <2>1 DEF OneByOneInv, Counted
      <4> QED BY <1>0, <1>2, <4>1, <4>2 DEF Counted
    <3> QED BY <2>4, <3>1, <3>2, <3>3 DEF OneByOneInv, Stage
  <2>9. CASE script[n] \in {"P", "PBad", "E", "EBad"}
    <3>1. Preparing'
      <4>1. CASE script[n] \in {"E", "EBad"}
        <5>1. HasAsked' /\ Asked' = n BY <1>7, <4>1
        <5>2. Waiting(FALSE)'
          <6>1. pending' = <<Entry(n, FALSE)'>> BY <1>6, <2>6, <4>1
          <6>2. Entry(Asked, FALSE)' = Entry(n, FALSE)' BY <5>1, Zenon DEF Entry, Simple
          <6> QED BY <5>1, <6>1, <6>2 DEF Waiting
        <5>3. \A i \in 1..Len(fromServer') : fromServer'[i] = "1" BY <2>2
        <5>4. ~deferred' BY <2>6, <4>1
        <5>5. Asked' > Served' BY <1>0, <1>1, <5>1
        <5> QED BY <2>2, <5>2, <5>3, <5>4, <5>5 DEF Preparing
      <4>2. CASE script[n] \in {"P", "PBad"}
        <5>1. ~HasAsked' BY <1>7, <4>2
        <5>2. Waiting(FALSE)' /\ ~deferred' BY <1>5, <2>2, <4>2, <5>1 DEF Waiting
        <5>3. \A i \in 1..Len(fromServer') : fromServer'[i] = "1" BY <2>2
        <5> QED BY <2>2, <5>1, <5>2, <5>3 DEF Preparing
      <4> QED BY <2>9, <4>1, <4>2
    <3>2. sent' > 0 /\ ~Simple(sent)' BY <1>0, <1>1, <2>9 DEF Simple
    <3>3. Counted'
      <4>1. ~AtEnd' /\ Cycles(sent)' = Cycles(sent) BY <1>3, <1>4, <2>9 DEF Ends
      <4>2. ready = Cycles(sent) BY <1>9, <2>1 DEF OneByOneInv, Counted
      <4> QED BY <1>0, <4>1, <4>2 DEF Counted
    <3> QED BY <2>4, <3>1, <3>2, <3>3 DEF OneByOneInv, Stage
  <2> QED BY <2>3, <2>8, <2>9
<1>10. CASE ~AtEnd
  <2>1. /\ sent > 0 /\ sent \in 1..Len(script) /\ n > 1 /\ n - 1 = sent
        /\ script[sent] \in {"P", "PBad", "E", "EBad"}
    <3>1. sent # 0 /\ script[sent] \notin Ends BY <1>10 DEF AtEnd
    <3>2. sent \in 1..Len(script) BY <1>1, <3>1, Numbers
    <3>3. script[sent] \in Kinds BY <3>2, Following
    <3>4. script[sent] \in {"P", "PBad", "E", "EBad"} BY <3>1, <3>3 DEF Kinds, Ends
    <3> QED BY <1>1, <3>1, <3>2, <3>4
  <2>2. /\ script[sent] \in {"E", "EBad"} => script[n] = "S"
        /\ script[sent] \in {"P", "PBad"} => script[n] \in {"P", "PBad", "E", "EBad"}
    BY <1>0, <2>1, Following
  <2>3. ~Simple(sent) /\ ~Synced /\ Rest = <<>> BY <2>1 DEF Simple, Synced, Rest
  <2>4. Preparing \/ Completing \/ Completed \/ Failing \/ Told
    BY <1>10, <2>3 DEF OneByOneInv, Stage
  <2>5. sent' > 0 /\ ~Simple(sent)'
    BY <1>0, <1>1, <2>1, <2>2 DEF Simple
  <2>6. OneCycle'
    <3>1. ASSUME NEW m \in Served + 1..n - 1 PROVE script[m] \notin Ends
      <4>1. m \in Served + 1..sent - 1 \/ m = sent BY <1>1, <2>1
      <4>2. script[sent] \notin Ends BY <2>1 DEF Ends
      <4> QED BY <4>1, <4>2 DEF OneByOneInv, OneCycle
    <3> QED BY <1>0, <3>1 DEF OneCycle
  <2>7. Counted'
    <3>1. ready = Cycles(sent) BY <1>10 DEF OneByOneInv, Counted
    <3> QED BY <1>0, <1>2, <1>3, <1>4, <3>1 DEF Counted
  <2>8. \A last : Answers(last)' <=> Answers(last)
    BY <1>0, <1>2, <2>3 DEF Answers
  <2>9. (Preparing \/ Completing \/ Completed \/ Failing \/ Told)'
    <3>1. CASE script[n] \in {"P", "PBad"}
      <4>1. script[sent] \in {"P", "PBad"} BY <2>1, <2>2, <3>1
      <4>2. ~HasAsked /\ ~HasAsked' BY <1>7, <3>1, <4>1 DEF HasAsked
      <4>3. UNCHANGED <<pending, deferred>> BY <1>5, <3>1
      <4>4. \A e : Waiting(e)' <=> Waiting(e) BY <4>2, <4>3 DEF Waiting
      <4>5. Preparing => Preparing' BY <1>0, <4>2, <4>3, <4>4 DEF Preparing
      <4>6. Failing => Failing'
        BY <1>0, <1>2, <2>3, <2>8, <4>2, <4>3, <4>4 DEF Failing, Failed
      <4>7. Told => Told'
        BY <1>0, <1>2, <1>8, <2>3, <4>2, <4>3, <4>4 DEF Told, Failed
      <4> QED BY <2>4, <4>2, <4>5, <4>6, <4>7 DEF Completing, Completed
    <3>2. CASE script[n] \in {"E", "EBad"}
      <4>1. script[sent] \in {"P", "PBad"} BY <2>1, <2>2, <3>2
      <4>2. ~HasAsked /\ HasAsked' /\ Asked' = n BY <1>7, <3>2, <4>1 DEF HasAsked
      <4>3. Asked' > Served' BY <1>0, <1>1, <4>2
      <4>4. Failed' BY <1>0, <1>1, <4>2 DEF Failed
      <4>5. TakesDeferred(n) <=> deferred BY <3>2 DEF TakesDeferred, Simple
      <4>6. \A e : Entry(Asked, e)' = Entry(n, e) BY <1>0, <4>2, Zenon DEF Entry, Simple
      <4>7. pending = <<>> /\ ~deferred => Waiting(FALSE)' /\ ~deferred'
        <5> SUFFICES ASSUME pending = <<>>, ~deferred PROVE Waiting(FALSE)' /\ ~deferred'
          OBVIOUS
        <5>1. TakesDeferred(n) = FALSE BY DEF TakesDeferred
        <5>2. pending' = <<Entry(n, FALSE)>> BY <1>5, <3>2, <5>1, Few
        <5> QED BY <1>5, <3>2, <4>2, <4>6, <5>2 DEF Waiting
      <4>8. pending = <<>> /\ deferred => Waiting(TRUE)' /\ ~deferred'
        <5> SUFFICES ASSUME pending = <<>>, deferred PROVE Waiting(TRUE)' /\ ~deferred'
          OBVIOUS
        <5>1. TakesDeferred(n) = TRUE
          <6>1. deferred = TRUE BY DEF TrackType
          <6> QED BY <3>2, <6>1 DEF TakesDeferred, Simple
        <5>2. pending' = <<Entry(n, TRUE)>> BY <1>5, <3>2, <5>1, Few
        <5> QED BY <1>5, <3>2, <4>2, <4>6, <5>1, <5>2 DEF Waiting
      <4>9. Preparing => Preparing'
        BY <1>0, <4>2, <4>3, <4>7 DEF Preparing, Waiting
      <4>10. Failing => Failing'
        BY <1>0, <1>2, <2>3, <2>8, <4>2, <4>4, <4>7 DEF Failing, Waiting
      <4>11. Told => Told'
        BY <1>0, <1>2, <1>8, <2>3, <4>2, <4>4, <4>8 DEF Told
      <4> QED BY <2>4, <4>2, <4>9, <4>10, <4>11 DEF Completing, Completed
    <3>3. CASE script[n] = "S"
      <4>1. script[sent] \in {"E", "EBad"} BY <2>1, <2>2, <3>3
      <4>2. HasAsked /\ HasAsked' /\ Asked' = Asked
        BY <1>7, <3>3, <4>1 DEF HasAsked, Asked
      <4>3. UNCHANGED <<pending, deferred>> BY <1>5, <3>3
      <4>4. \A e : Waiting(e)' <=> Waiting(e)
        <5>1. \A e : Entry(Asked, e)' = Entry(Asked, e) BY <1>0, <4>2, Zenon DEF Entry, Simple
        <5> QED BY <4>2, <4>3, <5>1 DEF Waiting
      <4>5. Preparing => Preparing' BY <1>0, <4>2, <4>3, <4>4 DEF Preparing
      <4>6. Failing => Failing'
        BY <1>0, <1>2, <2>3, <2>8, <4>2, <4>3, <4>4 DEF Failing, Failed
      <4>7. Told => Told'
        BY <1>0, <1>2, <1>8, <2>3, <4>2, <4>3, <4>4 DEF Told, Failed
      <4>8. Completing => Completing'
        BY <1>0, <2>8, <4>2, <4>3, <4>4 DEF Completing
      <4>9. Completed => Completed'
        BY <1>0, <1>8, <2>3, <4>2, <4>3 DEF Completed
      <4> QED BY <2>4, <4>5, <4>6, <4>7, <4>8, <4>9
    <3> QED BY <2>1, <2>2, <3>1, <3>2, <3>3
  <2> QED BY <2>5, <2>6, <2>7, <2>9 DEF OneByOneInv, Stage
<1> QED BY <1>9, <1>10

(* While the client sends nothing its cycle is the same. *)
LEMMA SameCycle ==
    ASSUME script' = script, sent' = sent
    PROVE  /\ HasAsked' <=> HasAsked
           /\ Asked' = Asked
           /\ AtEnd' <=> AtEnd
           /\ Simple(sent)' <=> Simple(sent)
           /\ Cycles(sent)' = Cycles(sent)
           /\ \A e : Entry(Asked, e)' = Entry(Asked, e)
           /\ \A e : Entry(sent, e)' = Entry(sent, e)
<1>1. HasAsked' <=> HasAsked BY DEF HasAsked
<1>2. Asked' = Asked BY DEF Asked
<1>3. AtEnd' <=> AtEnd BY DEF AtEnd
<1>4. Simple(sent)' <=> Simple(sent) BY DEF Simple
<1>5. Cycles(sent)' = Cycles(sent) BY DEF Cycles
<1>6. \A e : Entry(Asked, e)' = Entry(Asked, e) BY <1>2, Zenon DEF Entry, Simple
<1>7. \A e : Entry(sent, e)' = Entry(sent, e) BY Zenon DEF Entry, Simple
<1> QED BY <1>1, <1>2, <1>3, <1>4, <1>5, <1>6, <1>7

(* The server reads a message of the cycle. *)
LEMMA OneByOneServe ==
    ASSUME TrackType, TrackType', OneByOne, OneByOneInv, Server
    PROVE  OneByOneInv'
<1> PICK m : m = Served + 1 OBVIOUS
<1>0. /\ m \in Nat /\ m \in 1..sent /\ m \in 1..Len(script) /\ script[m] \in Kinds
      /\ Served \in Nat /\ Served + 1 = m /\ Served' = m /\ sent \in Nat
      /\ fromServer' = fromServer \o Reply(m)
      /\ skipping' = IF script[m] = "S" THEN FALSE
                     ELSE skipping \/ script[m] \in {"PBad", "EBad"}
      /\ UNCHANGED <<script, pipelined, sent, ready, pending, deferred, recorded>>
  <2>1. /\ Served \in Nat /\ m \in 1..sent /\ m \in 1..Len(script) /\ script[m] \in Kinds
        /\ Served' = m
        /\ fromServer' = fromServer \o Reply(m)
        /\ skipping' = IF script[m] = "S" THEN FALSE
                       ELSE skipping \/ script[m] \in {"PBad", "EBad"}
        /\ UNCHANGED <<script, pipelined, sent, ready, pending, deferred, recorded>>
    BY Serving, Zenon
  <2>2. sent \in Nat BY Numbers
  <2> QED BY <2>1, <2>2
<1>1. toServer # <<>> /\ ~Quiet /\ ~Synced /\ sent > 0
  BY <1>0 DEF Server, Quiet, Synced
<1>2. /\ toServer' = <<>> <=> m = sent
      /\ Len(toServer) = 1 => m = sent
  <2>1. Len(toServer') = Len(toServer) - 1 /\ Len(toServer) \in Nat
        /\ Served + Len(toServer) = sent /\ toServer' \in Seq(Nat)
    BY Serving, Numbers
  <2>2. toServer' = <<>> <=> Len(toServer') = 0 BY <2>1, Emptiness
  <2> QED BY <1>0, <2>1, <2>2
<1>3. /\ HasAsked' <=> HasAsked
      /\ Asked' = Asked
      /\ AtEnd' <=> AtEnd
      /\ Simple(sent)' <=> Simple(sent)
      /\ Cycles(sent)' = Cycles(sent)
      /\ \A e : Entry(Asked, e)' = Entry(Asked, e)
      /\ \A e : Entry(sent, e)' = Entry(sent, e)
  BY <1>0, SameCycle
<1>4. /\ \A k \in 1..Len(script) : k # m => truth'[k] = truth[k]
      /\ truth'[m] = IF skipping /\ script[m] # "S" THEN "skipped"
                     ELSE IF script[m] \in Bad THEN "error" ELSE "ok"
  <2>1. truth' = [truth EXCEPT ![m] =
                    IF skipping /\ script[m] # "S" THEN "skipped"
                    ELSE IF script[m] \in Bad THEN "error" ELSE "ok"]
    BY Serving, Zenon
  <2>2. \A D, R, v, p : \A f \in [D -> R] : \A i \in D :
          [f EXCEPT ![p] = v][i] = IF i = p THEN v ELSE f[i]
    OBVIOUS
  <2>3. truth \in [1..Len(script) -> {"none", "ok", "error", "skipped"}]
    BY DEF TrackType
  <2>4. ASSUME NEW k \in 1..Len(script)
        PROVE  truth'[k] = IF k = m THEN IF skipping /\ script[m] # "S" THEN "skipped"
                                         ELSE IF script[m] \in Bad THEN "error" ELSE "ok"
                                    ELSE truth[k]
    BY <2>1, <2>2, <2>3, Zenon
  <2> QED BY <1>0, <2>4, Zenon
<1>5. OneCycle'
  <2>1. \A k \in m + 1..sent - 1 : k \in Served + 1..sent - 1 BY <1>0
  <2> QED BY <1>0, <2>1, Zenon DEF OneByOneInv, OneCycle
<1>6. m < sent => script[m] \notin Ends
  <2>1. m < sent => m \in Served + 1..sent - 1 BY <1>0
  <2> QED BY <2>1 DEF OneByOneInv, OneCycle
<1>7. Cycles(sent) = IF ~AtEnd THEN ready ELSE ready + 1
  BY <1>1 DEF OneByOneInv, Counted
<1>8. (AtEnd => ~Quiet') => Counted'
  BY <1>0, <1>3, <1>7 DEF Counted
<1>9. m < sent => ~Quiet' BY <1>0, <1>2 DEF Quiet
<1>10. CASE Simple(sent)
  <2>1. Querying BY <1>1, <1>10 DEF OneByOneInv, Stage
  <2>2. /\ toServer = <<sent>> /\ fromServer = <<>> /\ pending = <<Entry(sent, FALSE)>>
        /\ ~skipping /\ ~deferred
    BY <1>1, <2>1 DEF Querying
  <2>3. m = sent /\ toServer' = <<>> BY <1>2, <2>2, Few
  <2>4. script[m] \in {"Q", "QBad"} BY <1>10, <2>3 DEF Simple
  <2>5. ~skipping' BY <1>0, <2>2, <2>4
  <2>6. CASE script[m] = "Q"
    <3>1. Reply(m) = <<"C", "Z">> BY <2>2, <2>6, ReplyArms
    <3>2. fromServer' = <<"C", "Z">> BY <1>0, <2>2, <3>1
    <3>3. truth'[sent] = "ok" BY <1>4, <2>2, <2>3, <2>6 DEF Bad
    <3>4. Querying' BY <1>0, <1>3, <2>2, <2>3, <2>5, <2>6, <3>2, <3>3 DEF Querying
    <3>5. ~Quiet' BY <3>2, Few DEF Quiet
    <3> QED BY <1>0, <1>1, <1>3, <1>5, <1>8, <1>10, <3>4, <3>5 DEF OneByOneInv, Stage
  <2>7. CASE script[m] = "QBad"
    <3>1. Reply(m) = <<"E", "Z">> BY <2>2, <2>7, ReplyArms
    <3>2. fromServer' = <<"E", "Z">> BY <1>0, <2>2, <3>1
    <3>3. truth'[sent] = "error" BY <1>4, <2>2, <2>3, <2>7 DEF Bad
    <3>4. Querying' BY <1>0, <1>3, <2>2, <2>3, <2>5, <2>7, <3>2, <3>3 DEF Querying
    <3>5. ~Quiet' BY <3>2, Few DEF Quiet
    <3> QED BY <1>0, <1>1, <1>3, <1>5, <1>8, <1>10, <3>4, <3>5 DEF OneByOneInv, Stage
  <2> QED BY <2>4, <2>6, <2>7
<1>11. CASE ~Simple(sent)
  <2>1. Preparing \/ Completing \/ Completed \/ Failing \/ Told
    BY <1>1, <1>11 DEF OneByOneInv, Stage
  <2> SUFFICES ASSUME TRUE
               PROVE  /\ (Preparing \/ Completing \/ Completed \/ Failing \/ Told)'
                      /\ AtEnd => ~Quiet'
    BY <1>0, <1>1, <1>3, <1>5, <1>8, <1>11 DEF OneByOneInv, Stage
  <2>2. HasAsked => /\ Asked \in 1..sent /\ Asked \in Nat /\ Asked \in 1..Len(script)
                    /\ script[Asked] \in {"E", "EBad"}
                    /\ m > Asked => m = sent /\ script[m] = "S" /\ Asked < m
    <3>1. Asked \in 1..sent => Asked \in 1..Len(script) BY Numbers
    <3> QED BY <1>0, <1>1, <3>1, Asking
  <2>3. script[m] \in {"P", "PBad", "E", "EBad", "S"}
    <3>1. script[sent] \notin {"Q", "QBad"} BY <1>11 DEF Simple
    <3> QED BY <1>0, <1>6, <3>1 DEF Kinds, Ends
  <2>4. script[m] \in {"E", "EBad"} => HasAsked /\ Asked = m
    <3> SUFFICES ASSUME script[m] \in {"E", "EBad"} PROVE HasAsked /\ Asked = m
      OBVIOUS
    <3>1. CASE m = sent BY <3>1 DEF HasAsked, Asked
    <3>2. CASE m < sent
      <4>1. /\ m + 1 \in 1..Len(script) /\ m + 1 > 1 /\ (m + 1) - 1 = m
            /\ (m + 1 = sent \/ m + 1 \in Served + 1..sent - 1)
        BY <1>0, <3>2, Numbers
      <4>2. script[m + 1] = "S" BY <4>1, Following
      <4>3. m + 1 = sent
        <5>1. m + 1 \notin Served + 1..sent - 1
          BY <4>2 DEF OneByOneInv, OneCycle, Ends
        <5> QED BY <4>1, <5>1
      <4>4. sent - 1 = m BY <1>0, <4>3
      <4> QED BY <4>2, <4>3, <4>4 DEF HasAsked, Asked
    <3> QED BY <1>0, <3>1, <3>2
  <2>5. script[m] = "S" => m = sent /\ HasAsked /\ Asked = m - 1 /\ Asked <= Served
    <3> SUFFICES ASSUME script[m] = "S"
                 PROVE  m = sent /\ HasAsked /\ Asked = m - 1 /\ Asked <= Served
      OBVIOUS
    <3>1. m = sent BY <1>0, <1>6 DEF Ends
    <3> QED BY <1>0, <3>1 DEF HasAsked, Asked
  <2>6. script[m] # "S" => ~Synced'
    BY <1>0, <1>2 DEF Synced
  <2>7. script[m] = "S" => Synced'
    BY <1>0, <1>2, <2>5 DEF Synced
  <2>8. \A e : Waiting(e) => Waiting(e)'
    BY <1>0, <1>3 DEF Waiting
  <2>9. AtEnd => script[m] = "S" \/ m < sent
    <3>1. AtEnd => script[sent] = "S" BY <1>1, <1>11 DEF AtEnd, Ends, Simple
    <3> QED BY <1>0, <3>1
  <2>10. fromServer \in Seq({"C", "E", "Z", "1"}) /\ Len(fromServer) \in Nat
    BY DEF TrackType
  <2>11. \A t : fromServer' = fromServer \o <<t>> =>
           /\ Len(fromServer') = Len(fromServer) + 1
           /\ \A i \in 1..Len(fromServer) : fromServer'[i] = fromServer[i]
           /\ fromServer'[Len(fromServer) + 1] = t
           /\ fromServer' # <<>>
    BY <2>10
  <2>12. script[m] = "S" =>
           /\ fromServer' = fromServer \o <<"Z">> /\ ~skipping' /\ Synced'
           /\ m = sent /\ HasAsked /\ Asked <= Served /\ ~Quiet'
    <3> SUFFICES ASSUME script[m] = "S"
                 PROVE  /\ fromServer' = fromServer \o <<"Z">> /\ ~skipping' /\ Synced'
                        /\ m = sent /\ HasAsked /\ Asked <= Served /\ ~Quiet'
      OBVIOUS
    <3>1. fromServer' = fromServer \o <<"Z">> BY <1>0, ReplyArms
    <3>2. ~Quiet' BY <2>11, <3>1 DEF Quiet
    <3> QED BY <1>0, <2>5, <2>7, <3>1, <3>2
  <2>13. AtEnd => ~Quiet' BY <1>9, <2>9, <2>12
  <2>14. \A last : script[m] = "S" /\ Answers(last) => Answers(last)'
    <3> SUFFICES ASSUME NEW last, script[m] = "S", Answers(last) PROVE Answers(last)'
      OBVIOUS
    <3> DEFINE n == Len(fromServer)
    <3>1. /\ n > 0 /\ fromServer[n] = last /\ \A i \in 1..n - 1 : fromServer[i] = "1"
      BY <1>1 DEF Answers
    <3>2. /\ Len(fromServer') = n + 1 /\ fromServer'[n + 1] = "Z"
          /\ \A i \in 1..n : fromServer'[i] = fromServer[i]
      BY <2>11, <2>12
    <3>3. Len(fromServer') - 1 = n /\ n \in 1..n /\ \A i \in 1..n - 1 : i \in 1..n
      BY <2>10, <3>1, <3>2
    <3> HIDE DEF n
    <3>4. /\ fromServer'[n] = last /\ \A i \in 1..n - 1 : fromServer'[i] = "1"
      BY <3>1, <3>2, <3>3, Zenon
    <3> QED BY <2>12, <3>1, <3>2, <3>3, <3>4 DEF Answers
  <2>15. HasAsked /\ Asked # m => truth'[Asked] = truth[Asked] BY <1>4, <2>2
  <2>16. script[m] = "S" /\ Failed => Failed'
    BY <1>0, <1>3, <2>2, <2>5, <2>12, <2>15 DEF Failed
  <2>17. skipping /\ script[m] # "S" =>
           /\ fromServer' = fromServer /\ skipping' /\ ~Synced'
           /\ Failed => Failed'
    <3> SUFFICES ASSUME skipping, script[m] # "S"
                 PROVE  /\ fromServer' = fromServer /\ skipping' /\ ~Synced'
                        /\ Failed => Failed'
      OBVIOUS
    <3>1. fromServer' = fromServer
      <4>1. Reply(m) = <<>> BY ReplyArms
      <4>2. \A S : \A s \in Seq(S) : s \o <<>> = s OBVIOUS
      <4> QED BY <1>0, <2>10, <4>1, <4>2, Zenon
    <3>2. Failed => Failed'
      <4>1. CASE HasAsked /\ Asked = m
        <5>1. truth'[Asked] = "skipped" BY <1>4, <4>1
        <5> QED BY <1>3, <5>1 DEF Failed
      <4>2. CASE HasAsked /\ Asked # m
        <5>1. Asked <= m => Asked <= Served BY <1>0, <2>2, <4>2
        <5> QED BY <1>0, <1>3, <2>15, <4>2, <5>1 DEF Failed
      <4>3. CASE ~HasAsked BY <1>3, <4>3 DEF Failed
      <4> QED BY <4>1, <4>2, <4>3
    <3> QED BY <1>0, <2>6, <3>1, <3>2
  <2>18. CASE Preparing
    <3>1. /\ ~skipping /\ ~deferred /\ Waiting(FALSE)
          /\ \A i \in 1..Len(fromServer) : fromServer[i] = "1"
          /\ HasAsked => Asked > Served
      BY <2>18 DEF Preparing
    <3>2. script[m] # "S"
      <4>1. HasAsked => ~(Asked <= Served) BY <1>0, <2>2, <3>1
      <4> QED BY <2>5, <4>1
    <3>3. script[m] \in {"P", "PBad"} /\ HasAsked => Asked > m
      BY <1>0, <2>2, <3>1
    <3>4. \A t, last : fromServer' = fromServer \o <<t>> /\ t = last => Answers(last)'
      <4> SUFFICES ASSUME NEW t, fromServer' = fromServer \o <<t>> PROVE Answers(t)'
        OBVIOUS
      <4>1. /\ Len(fromServer') = Len(fromServer) + 1
            /\ fromServer'[Len(fromServer) + 1] = t
            /\ \A i \in 1..Len(fromServer) : fromServer'[i] = "1"
        BY <2>11, <3>1, Zenon
      <4>2. (Len(fromServer) + 1) - 1 = Len(fromServer) /\ Len(fromServer) + 1 > 0
        BY <2>10
      <4> QED BY <2>6, <3>2, <4>1, <4>2 DEF Answers
    <3>5. CASE script[m] = "P"
      <4>1. fromServer' = fromServer \o <<"1">> BY <1>0, <3>1, <3>5, ReplyArms
      <4>2. \A i \in 1..Len(fromServer') : fromServer'[i] = "1"
        <5>1. \A i \in 1..Len(fromServer) + 1 :
                i \in 1..Len(fromServer) \/ i = Len(fromServer) + 1
          BY <2>10
        <5> QED BY <2>11, <3>1, <4>1, <5>1, Zenon
      <4>3. ~skipping' BY <1>0, <3>1, <3>5
      <4> QED BY <1>0, <1>3, <2>8, <2>13, <3>1, <3>3, <3>5, <4>2, <4>3 DEF Preparing
    <3>6. CASE script[m] = "PBad"
      <4>1. fromServer' = fromServer \o <<"E">> BY <1>0, <3>1, <3>6, ReplyArms
      <4>2. Answers("E")' BY <3>4, <4>1
      <4>3. skipping' = TRUE BY <1>0, <3>6
      <4>4. Failed' BY <1>0, <1>3, <2>2, <3>3, <3>6 DEF Failed
      <4> QED BY <1>0, <2>6, <2>8, <2>13, <3>1, <3>2, <4>2, <4>3, <4>4 DEF Failing
    <3>7. CASE script[m] = "E"
      <4>1. fromServer' = fromServer \o <<"C">> BY <1>0, <3>1, <3>7, ReplyArms
      <4>2. Answers("C")' BY <3>4, <4>1
      <4>3. ~skipping' BY <1>0, <3>1, <3>7
      <4>4. truth'[m] = "ok" BY <1>4, <3>1, <3>7 DEF Bad
      <4>5. HasAsked' /\ Asked' = m /\ Served' = m /\ m <= m BY <1>0, <1>3, <2>4, <3>7
      <4>6. Waiting(FALSE)' /\ ~deferred' BY <1>0, <2>8, <3>1
      <4>7. Completing' BY <4>2, <4>3, <4>4, <4>5, <4>6 DEF Completing
      <4> QED BY <2>13, <4>7
    <3>8. CASE script[m] = "EBad"
      <4>1. fromServer' = fromServer \o <<"E">> BY <1>0, <3>1, <3>8, ReplyArms
      <4>2. Answers("E")' BY <3>4, <4>1
      <4>3. skipping' = TRUE BY <1>0, <3>8
      <4>4. truth'[m] = "error" BY <1>4, <3>1, <3>8 DEF Bad
      <4>5. Failed' BY <1>3, <2>4, <3>8, <4>4 DEF Failed
      <4> QED BY <1>0, <2>6, <2>8, <2>13, <3>1, <3>2, <4>2, <4>3, <4>5 DEF Failing
    <3> QED BY <2>3, <3>2, <3>5, <3>6, <3>7, <3>8
  <2>19. CASE Completing
    <3>1. /\ ~deferred /\ Waiting(FALSE) /\ HasAsked /\ Asked <= Served
          /\ truth[Asked] = "ok" /\ Answers("C")
      BY <2>19 DEF Completing
    <3>2. script[m] = "S" /\ Asked # m /\ Asked <= m BY <1>0, <2>2, <3>1
    <3>3. Answers("C")' BY <2>14, <3>1, <3>2
    <3> QED BY <1>0, <1>3, <2>8, <2>12, <2>13, <2>15, <3>1, <3>2, <3>3 DEF Completing
  <2>20. CASE Completed
    <3>1. /\ ~deferred /\ pending = <<>> /\ HasAsked /\ Asked <= Served
          /\ fromServer = <<>>
      BY <1>1, <2>20 DEF Completed, Rest
    <3>2. script[m] = "S" /\ Asked <= m BY <1>0, <2>2, <3>1
    <3>3. fromServer' = <<"Z">> BY <2>12, <3>1, <3>2
    <3>4. Rest' = <<"Z">> BY <2>12, <3>2 DEF Rest
    <3> QED BY <1>0, <1>3, <2>12, <2>13, <3>1, <3>2, <3>3, <3>4 DEF Completed
  <2>21. CASE Failing
    <3>1. skipping /\ ~deferred /\ Waiting(FALSE) /\ Failed /\ Answers("E")
      BY <1>1, <2>21 DEF Failing
    <3>2. CASE script[m] = "S"
      <4>1. Answers("E")' /\ Failed' BY <2>14, <2>16, <3>1, <3>2
      <4>2. skipping' = FALSE /\ Synced' = TRUE BY <1>0, <2>12, <3>2 DEF Synced
      <4> QED BY <1>0, <2>8, <2>13, <3>1, <4>1, <4>2 DEF Failing
    <3>3. CASE script[m] # "S"
      <4>1. fromServer' = fromServer /\ Failed' BY <2>17, <3>1, <3>3
      <4>2. skipping' = TRUE /\ Synced' = FALSE
        <5>1. skipping' \in BOOLEAN BY DEF TrackType
        <5> QED BY <2>17, <3>1, <3>3, <5>1 DEF Synced
      <4>3. Answers("E")' BY <1>1, <2>17, <3>1, <3>3, <4>1 DEF Answers
      <4> QED BY <1>0, <2>8, <2>13, <3>1, <4>1, <4>2, <4>3 DEF Failing
    <3> QED BY <3>2, <3>3
  <2>22. CASE Told
    <3>1. /\ skipping /\ Failed /\ fromServer = <<>>
          /\ \/ deferred /\ ~HasAsked /\ pending = <<>>
             \/ ~deferred /\ HasAsked /\ Waiting(TRUE)
             \/ ~deferred /\ HasAsked /\ pending = <<>>
      BY <1>1, <2>22 DEF Told, Rest
    <3>2. \/ deferred' /\ ~HasAsked' /\ pending' = <<>>
          \/ ~deferred' /\ HasAsked' /\ Waiting(TRUE)'
          \/ ~deferred' /\ HasAsked' /\ pending' = <<>>
      BY <1>0, <1>3, <2>8, <3>1, Zenon
    <3>3. CASE script[m] = "S"
      <4>1. Failed' BY <2>16, <3>1, <3>3
      <4>2. skipping' = FALSE /\ Synced' = TRUE BY <1>0, <2>12, <3>3 DEF Synced
      <4>3. fromServer' = <<"Z">> BY <2>12, <3>1, <3>3
      <4> QED BY <2>13, <3>2, <4>1, <4>2, <4>3 DEF Told, Rest
    <3>4. CASE script[m] # "S"
      <4>1. fromServer' = <<>> /\ Failed' BY <2>17, <3>1, <3>4
      <4>2. skipping' = TRUE /\ Synced' = FALSE
        <5>1. skipping' \in BOOLEAN BY DEF TrackType
        <5> QED BY <2>17, <3>1, <3>4, <5>1 DEF Synced
      <4> QED BY <2>13, <3>2, <4>1, <4>2 DEF Told, Rest
    <3> QED BY <3>3, <3>4
  <2> QED BY <2>1, <2>18, <2>19, <2>20, <2>21, <2>22
<1> QED BY <1>10, <1>11

(* The tracker is shown a message of the cycle. *)
LEMMA OneByOneBack ==
    ASSUME TrackType, TrackType', OneByOne, OneByOneInv, Backend
    PROVE  OneByOneInv' /\ Fresh
<1> DEFINE L == Len(fromServer)
           h == Head(fromServer)
<1>0. /\ fromServer # <<>> /\ fromServer' = Tail(fromServer)
      /\ UNCHANGED <<script, pipelined, sent, toServer, skipping, truth>>
  BY BackendArms
<1>1. /\ h = "E" => OnError /\ ready' = ready
      /\ h = "C" => OnComplete /\ ready' = ready
      /\ h = "Z" => OnReady /\ ready' = ready + 1
      /\ h = "1" => UNCHANGED <<pending, recorded, deferred>> /\ ready' = ready
  BY BackendArms
<1>2. /\ L \in Nat /\ L > 0 /\ h = fromServer[1] /\ Len(fromServer') = L - 1
      /\ \A i \in 1..L - 1 : fromServer'[i] = fromServer[i + 1]
  <2>1. fromServer \in Seq({"C", "E", "Z", "1"}) BY DEF TrackType
  <2> QED BY <1>0, <2>1, Taking
<1>3. /\ HasAsked' <=> HasAsked
      /\ Asked' = Asked
      /\ AtEnd' <=> AtEnd
      /\ Simple(sent)' <=> Simple(sent)
      /\ Cycles(sent)' = Cycles(sent)
      /\ \A e : Entry(Asked, e)' = Entry(Asked, e)
      /\ \A e : Entry(sent, e)' = Entry(sent, e)
  BY <1>0, SameCycle
<1>4. /\ Served' = Served /\ (Synced' <=> Synced) /\ (Failed' <=> Failed) /\ Rest' = Rest
      /\ \A e : pending' = pending /\ Waiting(e) => Waiting(e)'
  <2>1. Served' = Served BY <1>0 DEF Served
  <2>2. Synced' <=> Synced BY <1>0 DEF Synced
  <2>3. Failed' <=> Failed BY <1>0, <1>3, <2>1 DEF Failed
  <2>4. Rest' = Rest BY <2>2 DEF Rest
  <2>5. \A e : pending' = pending /\ Waiting(e) => Waiting(e)' BY <1>3 DEF Waiting
  <2> QED BY <2>1, <2>2, <2>3, <2>4, <2>5
<1>5. OneCycle'
  BY <1>0, <1>4 DEF OneByOneInv, OneCycle
<1>6. ~Quiet /\ sent > 0 /\ ready \in Nat /\ sent \in Nat /\ Served \in Nat
      /\ sent \in 1..Len(script) /\ (toServer = <<>> <=> Served = sent)
  <2>1. ~Quiet BY <1>0 DEF Quiet
  <2>2. sent > 0 BY <2>1 DEF OneByOneInv, Stage
  <2> QED BY <2>1, <2>2, Numbers
<1>7. Cycles(sent) = IF AtEnd THEN ready + 1 ELSE ready
  BY <1>6 DEF OneByOneInv, Counted
(* What is left to show once the step is known not to end the cycle. *)
<1>8. ASSUME ready' = ready, AtEnd => ~Quiet' PROVE Counted'
  BY <1>3, <1>7, <1>8 DEF Counted
<1>9. ASSUME ready' = ready + 1, AtEnd, Quiet' PROVE Counted' /\ Stage'
  BY <1>3, <1>7, <1>9 DEF Counted, Stage
<1>10. \A x : pending = <<x>> => pending # <<>> /\ Head(pending) = x /\ Tail(pending) = <<>>
  BY Few, Zenon
<1>11. \A k, e : /\ Entry(k, e).n = k /\ Entry(k, e).simple = Simple(k)
                 /\ Entry(k, e).error = e
  BY Zenon DEF Entry
<1>12. truth \in [1..Len(script) -> {"none", "ok", "error", "skipped"}]
       /\ \A n \in 1..Len(script) : n > Served => truth[n] = "none"
  BY DEF TrackType
<1>13. CASE Simple(sent)
  <2>1. Querying BY <1>6, <1>13 DEF OneByOneInv, Stage
  <2>2. ~skipping /\ ~deferred /\ toServer = <<>>
    BY <1>0, <2>1 DEF Querying
  <2>3. AtEnd BY <1>13 DEF AtEnd, Simple, Ends
  <2>4. script[sent] \in Queries /\ sent \in 1..sent /\ sent <= Served
    BY <1>6, <1>13, <2>2 DEF Queries, Simple
  <2>5. CASE /\ script[sent] = "Q" /\ truth[sent] = "ok" /\ fromServer = <<"C", "Z">>
             /\ pending = <<Entry(sent, FALSE)>>
    <3>1. h = "C" /\ fromServer' = <<"Z">> BY <1>0, <2>5, Few
    <3>2. Head(pending).simple
      <4>1. Head(pending) = Entry(sent, FALSE) BY <1>10, <2>5
      <4>2. Simple(sent) = TRUE BY <1>13 DEF Simple
      <4> QED BY <1>11, <4>1, <4>2
    <3>3. UNCHANGED <<pending, recorded, deferred, ready>>
      BY <1>1, <3>1, <3>2 DEF OnComplete
    <3>4. Querying' BY <1>0, <1>3, <2>2, <2>5, <3>1, <3>3 DEF Querying
    <3>5. ~Quiet' BY <3>1, Few DEF Quiet
    <3> QED BY <1>3, <1>5, <1>6, <1>8, <1>13, <1>0, <3>3, <3>4, <3>5, NothingFresh
         DEF OneByOneInv, Stage
  <2>6. CASE /\ script[sent] = "Q" /\ truth[sent] = "ok" /\ fromServer = <<"Z">>
             /\ pending = <<Entry(sent, FALSE)>>
    <3>1. h = "Z" /\ fromServer' = <<>> BY <1>0, <2>6, Few
    <3>2. /\ pending # <<>> /\ Head(pending).n = sent /\ Head(pending).simple
          /\ Head(pending).error = FALSE /\ Tail(pending) = <<>>
      <4>1. pending # <<>> /\ Head(pending) = Entry(sent, FALSE) /\ Tail(pending) = <<>>
        BY <1>10, <2>6
      <4>2. Simple(sent) = TRUE BY <1>13 DEF Simple
      <4> QED BY <1>11, <4>1, <4>2
    <3>3. OnReady /\ ready' = ready + 1 BY <1>1, <3>1
    <3>4. deferred' = FALSE /\ Finish("ok", FALSE)
      BY <3>2, <3>3, Zenon DEF OnReady
    <3>5. /\ pending' = <<>>
          /\ recorded' = Append(recorded, [n |-> sent, outcome |-> "ok", error |-> FALSE])
      BY <3>2, <3>4, Zenon DEF Finish
    <3>6. Fresh BY <1>0, <2>4, <2>6, <3>5, OneFresh
    <3>7. Quiet' BY <1>0, <2>2, <3>1, <3>4, <3>5 DEF Quiet
    <3> QED BY <1>5, <1>9, <2>3, <3>3, <3>6, <3>7 DEF OneByOneInv
  <2>7. CASE /\ script[sent] = "QBad" /\ truth[sent] = "error" /\ fromServer = <<"E", "Z">>
             /\ pending = <<Entry(sent, FALSE)>>
    <3>1. h = "E" /\ fromServer' = <<"Z">> BY <1>0, <2>7, Few
    <3>2. pending # <<>> /\ Head(pending).n = sent /\ Tail(pending) = <<>>
      <4>1. pending # <<>> /\ Head(pending) = Entry(sent, FALSE) /\ Tail(pending) = <<>>
        BY <1>10, <2>7
      <4> QED BY <1>11, <4>1
    <3>3. OnError /\ ready' = ready BY <1>1, <3>1
    <3>4. /\ pending' = <<>> /\ deferred' = deferred
          /\ recorded' = Append(recorded, [n |-> sent, outcome |-> "error", error |-> TRUE])
      BY <3>2, <3>3, Zenon DEF OnError, Finish
    <3>5. Fresh
      <4>1. "error" # "ok" /\ ~(sent > Served) BY <1>6, <2>4
      <4> QED BY <1>0, <2>4, <2>7, <3>4, <4>1, OneFresh
    <3>6. Querying' BY <1>0, <1>3, <2>2, <2>7, <3>1, <3>4 DEF Querying
    <3>7. ~Quiet' BY <3>1, Few DEF Quiet
    <3> QED BY <1>3, <1>5, <1>6, <1>8, <1>13, <1>0, <3>3, <3>5, <3>6, <3>7
         DEF OneByOneInv, Stage
  <2>8. CASE pending = <<>> /\ script[sent] = "QBad" /\ fromServer = <<"Z">>
    <3>1. h = "Z" /\ fromServer' = <<>> BY <1>0, <2>8, Few
    <3>2. OnReady /\ ready' = ready + 1 BY <1>1, <3>1
    <3>3. UNCHANGED <<pending, recorded, deferred>> BY <2>8, <3>2 DEF OnReady
    <3>4. Quiet' BY <1>0, <2>2, <2>8, <3>1, <3>3 DEF Quiet
    <3> QED BY <1>5, <1>9, <2>3, <3>2, <3>3, <3>4, NothingFresh DEF OneByOneInv
  <2>9. \/ toServer = <<sent>> /\ fromServer = <<>>
        \/ /\ script[sent] = "Q" /\ truth[sent] = "ok" /\ fromServer = <<"C", "Z">>
           /\ pending = <<Entry(sent, FALSE)>>
        \/ /\ script[sent] = "Q" /\ truth[sent] = "ok" /\ fromServer = <<"Z">>
           /\ pending = <<Entry(sent, FALSE)>>
        \/ /\ script[sent] = "QBad" /\ truth[sent] = "error" /\ fromServer = <<"E", "Z">>
           /\ pending = <<Entry(sent, FALSE)>>
        \/ pending = <<>> /\ script[sent] = "QBad" /\ fromServer = <<"Z">>
    BY <2>1, Zenon DEF Querying
  <2> QED BY <1>0, <2>5, <2>6, <2>7, <2>8, <2>9
<1>14. CASE ~Simple(sent)
  <2>1. Preparing \/ Completing \/ Completed \/ Failing \/ Told
    BY <1>6, <1>14 DEF OneByOneInv, Stage
  <2>2. AtEnd => HasAsked /\ script[sent] = "S"
    BY <1>6, <1>14 DEF AtEnd, Simple, Ends, HasAsked
  (* Steps that do not end the cycle. *)
  <2>3. ASSUME ready' = ready, AtEnd => ~Quiet', Fresh,
               (Preparing \/ Completing \/ Completed \/ Failing \/ Told)'
        PROVE  OneByOneInv' /\ Fresh
    <3>1. sent' > 0 /\ ~Simple(sent)' BY <1>0, <1>3, <1>6, <1>14
    <3> QED BY <1>5, <1>8, <2>3, <3>1 DEF OneByOneInv, Stage
  <2>4. HasAsked => /\ Asked \in 1..sent /\ Asked \in 1..Len(script) /\ Asked \in Nat
                    /\ script[Asked] \in Queries /\ ~Simple(Asked)
    <3>1. HasAsked => Asked \in 1..sent /\ script[Asked] \in {"E", "EBad"} BY <1>6, Asking
    <3>2. Asked \in 1..sent => Asked \in 1..Len(script) /\ Asked \in Nat BY <1>6
    <3> QED BY <3>1, <3>2 DEF Queries, Simple
  <2>5. \A e : HasAsked /\ Waiting(e) =>
           /\ pending # <<>> /\ Head(pending).n = Asked /\ Head(pending).error = e
           /\ Head(pending).simple = FALSE /\ Tail(pending) = <<>>
    <3> SUFFICES ASSUME NEW e, HasAsked, Waiting(e)
                 PROVE  /\ pending # <<>> /\ Head(pending).n = Asked /\ Head(pending).error = e
                        /\ Head(pending).simple = FALSE /\ Tail(pending) = <<>>
      OBVIOUS
    <3>1. pending = <<Entry(Asked, e)>> BY DEF Waiting
    <3>2. pending # <<>> /\ Head(pending) = Entry(Asked, e) /\ Tail(pending) = <<>>
      BY <1>10, <3>1
    <3>3. Simple(Asked) = FALSE BY <2>4 DEF Simple
    <3> QED BY <1>11, <3>2, <3>3
  <2>6. \A e : HasAsked /\ Waiting(e) /\ pending' = pending => ~Quiet'
    BY <2>5 DEF Quiet
  <2>7. Synced => Served = sent /\ HasAsked /\ Asked <= Served /\ AtEnd
    <3> SUFFICES ASSUME Synced PROVE Served = sent /\ HasAsked /\ Asked <= Served /\ AtEnd
      OBVIOUS
    <3>1. toServer = <<>> /\ script[sent] = "S" BY DEF Synced
    <3> QED BY <1>6, <3>1 DEF HasAsked, Asked, AtEnd, Ends
  <2>8. AtEnd /\ ~Synced => toServer # <<>>
    BY <2>2 DEF Synced
  (* Several messages before the one that matters. *)
  <2>9. ASSUME NEW last, last # "1", Answers(last), h # last
        PROVE  h = "1" /\ Answers(last)'
    <3> DEFINE n == IF Synced THEN L - 1 ELSE L
    <3>1. /\ n > 0 /\ fromServer[n] = last
          /\ \A i \in 1..n - 1 : fromServer[i] = "1"
          /\ Synced => fromServer[n + 1] = "Z"
      BY <2>9 DEF Answers
    <3>2. n \in Nat /\ n <= L /\ (Synced => n + 1 <= L) /\ (Synced => n = L - 1)
          /\ (~Synced => n = L)
      <4>1. CASE Synced BY <1>2, <3>1, <4>1
      <4>2. CASE ~Synced BY <1>2, <4>2
      <4> QED BY <4>1, <4>2
    <3> HIDE DEF n
    <3>3. n > 1
      <4>1. n # 1 BY <1>2, <2>9, <3>1
      <4> QED BY <3>1, <3>2, <4>1
    <3>4. h = "1"
      <4>1. 1 \in 1..n - 1 BY <3>2, <3>3
      <4> QED BY <1>2, <3>1, <4>1
    <3>5. PICK k \in Nat : n = k + 1
      <4>1. n - 1 \in Nat /\ n = (n - 1) + 1 BY <3>2, <3>3
      <4> QED BY <4>1
    <3>6. k > 0 /\ k \in 1..L - 1 /\ (Synced => k + 1 \in 1..L - 1)
          /\ \A i \in 1..k - 1 : i \in 1..L - 1 /\ i + 1 \in 1..n - 1
      BY <1>2, <3>2, <3>3, <3>5
    <3>7. /\ fromServer'[k] = last
          /\ \A i \in 1..k - 1 : fromServer'[i] = "1"
          /\ Synced => fromServer'[k + 1] = "Z"
      <4>1. fromServer'[k] = last BY <1>2, <3>1, <3>5, <3>6
      <4>2. \A i \in 1..k - 1 : fromServer'[i] = "1" BY <1>2, <3>1, <3>6
      <4>3. Synced => fromServer'[k + 1] = "Z" BY <1>2, <3>1, <3>5, <3>6
      <4> QED BY <4>1, <4>2, <4>3
    <3>8. (IF Synced THEN Len(fromServer') - 1 ELSE Len(fromServer')) = k
      <4>1. CASE Synced BY <1>2, <3>2, <3>5, <4>1
      <4>2. CASE ~Synced BY <1>2, <3>2, <3>5, <4>2
      <4> QED BY <4>1, <4>2
    <3>9. (IF Synced' THEN Len(fromServer') - 1 ELSE Len(fromServer')) = k
      BY <1>4, <3>8
    <3> QED BY <1>4, <3>4, <3>6, <3>7, <3>9 DEF Answers
  (* The one that matters. *)
  <2>10. ASSUME NEW last, last # "1", Answers(last), h = last
         PROVE  fromServer' = Rest'
    <3> DEFINE n == IF Synced THEN L - 1 ELSE L
    <3>1. /\ n > 0 /\ \A i \in 1..n - 1 : fromServer[i] = "1"
          /\ Synced => fromServer[n + 1] = "Z"
      BY <2>10 DEF Answers
    <3>2. n = 1
      <4>1. n \in Nat
        <5>1. CASE Synced BY <1>2, <5>1
        <5>2. CASE ~Synced BY <1>2, <5>2
        <5> QED BY <5>1, <5>2
      <4> HIDE DEF n
      <4>2. n > 1 => 1 \in 1..n - 1 BY <4>1
      <4>3. ~(n > 1) BY <1>2, <2>10, <3>1, <4>2
      <4> QED BY <3>1, <4>1, <4>3
    <3>3. fromServer' \in Seq({"C", "E", "Z", "1"}) BY DEF TrackType
    <3>4. CASE Synced
      <4>0. n = L - 1 BY <3>4
      <4>1. L = 2
        <5> HIDE DEF n, L
        <5> QED BY <1>2, <3>2, <4>0
      <4>2. Len(fromServer') = 1 /\ fromServer'[1] = "Z" BY <1>2, <3>1, <3>2, <3>4, <4>1
      <4>3. \A S : \A s \in Seq(S) : Len(s) = 1 => s = <<s[1]>> OBVIOUS
      <4>4. fromServer' = <<"Z">> BY <3>3, <4>2, <4>3
      <4> QED BY <1>4, <3>4, <4>4 DEF Rest
    <3>5. CASE ~Synced
      <4>1. L = 1 BY <3>2, <3>5
      <4>2. Len(fromServer') = 0 BY <1>2, <4>1
      <4>3. fromServer' = <<>> BY <3>3, <4>2, Emptiness
      <4> QED BY <1>4, <3>5, <4>3 DEF Rest
    <3> QED BY <3>4, <3>5
  <2>11. AtEnd /\ fromServer' = Rest' => ~Quiet'
    <3>1. Synced => Rest' # <<>> BY <1>4, Few DEF Rest
    <3> QED BY <1>0, <2>8, <3>1 DEF Quiet
  <2>12. CASE Preparing
    <3>1. /\ ~skipping /\ ~deferred /\ Waiting(FALSE)
          /\ \A i \in 1..L : fromServer[i] = "1"
          /\ HasAsked => Asked > Served
      BY <2>12 DEF Preparing
    <3>2. h = "1" BY <1>2, <3>1
    <3>3. UNCHANGED <<pending, recorded, deferred>> /\ ready' = ready BY <1>1, <3>2
    <3>4. \A i \in 1..Len(fromServer') : fromServer'[i] = "1"
      <4>1. \A i \in 1..L - 1 : i + 1 \in 1..L BY <1>2
      <4> QED BY <1>2, <3>1, <4>1
    <3>5. Preparing' BY <1>0, <1>3, <1>4, <3>1, <3>3, <3>4 DEF Preparing
    <3>6. AtEnd => ~Quiet' BY <2>2, <2>6, <3>1, <3>3
    <3> QED BY <2>3, <3>3, <3>5, <3>6, NothingFresh
  <2>13. CASE Completing
    <3>1. /\ ~skipping /\ ~deferred /\ Waiting(FALSE) /\ HasAsked
          /\ Asked <= Served /\ truth[Asked] = "ok" /\ Answers("C")
      BY <2>13 DEF Completing
    <3>2. CASE h # "C"
      <4>1. h = "1" /\ Answers("C")' BY <2>9, <3>1, <3>2
      <4>2. UNCHANGED <<pending, recorded, deferred>> /\ ready' = ready BY <1>1, <4>1
      <4>3. Completing' BY <1>0, <1>3, <1>4, <3>1, <4>1, <4>2 DEF Completing
      <4>4. ~Quiet' BY <2>6, <3>1, <4>2
      <4> QED BY <2>3, <4>2, <4>3, <4>4, NothingFresh
    <3>3. CASE h = "C"
      <4>1. fromServer' = Rest' BY <2>10, <3>1, <3>3
      <4>2. /\ pending # <<>> /\ Head(pending).n = Asked /\ Head(pending).error = FALSE
            /\ Head(pending).simple = FALSE /\ Tail(pending) = <<>>
        BY <2>5, <3>1
      <4>3. OnComplete /\ ready' = ready BY <1>1, <3>3
      <4>4. Finish("ok", FALSE) /\ deferred' = deferred
        BY <4>2, <4>3, Zenon DEF OnComplete
      <4>5. /\ pending' = <<>>
            /\ recorded' = Append(recorded, [n |-> Asked, outcome |-> "ok", error |-> FALSE])
        BY <4>2, <4>4, Zenon DEF Finish
      <4>6. Fresh BY <1>0, <2>4, <3>1, <4>5, OneFresh
      <4>7. Completed' BY <1>0, <1>3, <1>4, <3>1, <4>1, <4>4, <4>5 DEF Completed
      <4> QED BY <2>3, <2>11, <4>1, <4>3, <4>6, <4>7
    <3> QED BY <3>2, <3>3
  <2>14. CASE Completed
    <3>1. ~skipping /\ ~deferred /\ pending = <<>> /\ fromServer = Rest
      BY <2>14 DEF Completed
    <3>2. Synced /\ fromServer = <<"Z">> BY <1>0, <3>1 DEF Rest
    <3>3. h = "Z" /\ fromServer' = <<>> BY <1>0, <3>2, Few
    <3>4. OnReady /\ ready' = ready + 1 BY <1>1, <3>3
    <3>5. UNCHANGED <<pending, recorded, deferred>> BY <3>1, <3>4 DEF OnReady
    <3>6. Quiet' BY <1>0, <3>1, <3>2, <3>3, <3>5 DEF Quiet, Synced
    <3> QED BY <1>5, <1>9, <2>7, <3>2, <3>4, <3>5, <3>6, NothingFresh DEF OneByOneInv
  <2>15. HasAsked /\ Failed /\ skipping = ~Synced =>
           truth[Asked] # "ok" /\ (Asked > Served => skipping)
    <3> SUFFICES ASSUME HasAsked, Failed, skipping = ~Synced
                 PROVE  truth[Asked] # "ok" /\ (Asked > Served => skipping)
      OBVIOUS
    <3>1. Asked > Served => truth[Asked] = "none" BY <1>12, <2>4
    <3>2. Asked <= Served => truth[Asked] # "ok" BY DEF Failed
    <3>3. Asked > Served \/ Asked <= Served BY <1>6, <2>4
    <3>4. Asked > Served => ~Synced BY <1>6, <2>4, <2>7
    <3> QED BY <3>1, <3>2, <3>3, <3>4
  <2>16. CASE Failing
    <3>1. skipping = ~Synced /\ ~deferred /\ Waiting(FALSE) /\ Failed /\ Answers("E")
      BY <2>16 DEF Failing
    <3>2. CASE h # "E"
      <4>1. h = "1" /\ Answers("E")' BY <2>9, <3>1, <3>2
      <4>2. UNCHANGED <<pending, recorded, deferred>> /\ ready' = ready BY <1>1, <4>1
      <4>3. skipping' = ~Synced' BY <1>0, <1>4, <3>1
      <4>4. Failing' BY <1>4, <3>1, <4>1, <4>2, <4>3 DEF Failing
      <4>5. AtEnd => ~Quiet' BY <2>2, <2>6, <3>1, <4>2
      <4> QED BY <2>3, <4>2, <4>4, <4>5, NothingFresh
    <3>3. CASE h = "E"
      <4>1. fromServer' = Rest' BY <2>10, <3>1, <3>3
      <4>2. OnError /\ ready' = ready BY <1>1, <3>3
      <4>3. skipping' = ~Synced' BY <1>0, <1>4, <3>1
      <4>4. CASE HasAsked
        <5>1. pending # <<>> /\ Head(pending).n = Asked /\ Tail(pending) = <<>>
          BY <2>5, <3>1, <4>4
        <5>2. /\ pending' = <<>> /\ deferred' = deferred
              /\ recorded' = Append(recorded, [n |-> Asked, outcome |-> "error",
                                               error |-> TRUE])
          BY <4>2, <5>1, Zenon DEF OnError, Finish
        <5>3. Fresh BY <1>0, <2>4, <2>15, <3>1, <4>4, <5>2, OneFresh
        <5>4. Told' BY <1>3, <1>4, <3>1, <4>1, <4>3, <4>4, <5>2 DEF Told
        <5> QED BY <2>3, <2>11, <4>1, <4>2, <5>3, <5>4
      <4>5. CASE ~HasAsked
        <5>1. pending = <<>> BY <3>1, <4>5 DEF Waiting
        <5>2. deferred' = TRUE /\ UNCHANGED <<pending, recorded>>
          BY <4>2, <5>1 DEF OnError
        <5>3. Told' BY <1>3, <1>4, <3>1, <4>1, <4>3, <4>5, <5>1, <5>2 DEF Told
        <5> QED BY <2>3, <2>11, <4>1, <4>2, <5>2, <5>3, NothingFresh
      <4> QED BY <4>4, <4>5
    <3> QED BY <3>2, <3>3
  <2>17. CASE Told
    <3>1. /\ skipping = ~Synced /\ Failed /\ fromServer = Rest
          /\ \/ deferred /\ ~HasAsked /\ pending = <<>>
             \/ ~deferred /\ HasAsked /\ Waiting(TRUE)
             \/ ~deferred /\ HasAsked /\ pending = <<>>
      BY <2>17 DEF Told
    <3>2. Synced /\ fromServer = <<"Z">> BY <1>0, <3>1 DEF Rest
    <3>3. HasAsked /\ AtEnd /\ ~skipping /\ toServer = <<>>
      BY <2>7, <3>1, <3>2 DEF Synced
    <3>4. h = "Z" /\ fromServer' = <<>> BY <1>0, <3>2, Few
    <3>5. OnReady /\ ready' = ready + 1 BY <1>1, <3>4
    <3>6. CASE ~deferred /\ pending = <<>>
      <4>1. UNCHANGED <<pending, recorded, deferred>> BY <3>5, <3>6 DEF OnReady
      <4>2. Quiet' BY <1>0, <3>3, <3>4, <3>6, <4>1 DEF Quiet
      <4> QED BY <1>5, <1>9, <3>3, <3>5, <4>1, <4>2, NothingFresh DEF OneByOneInv
    <3>7. CASE ~deferred /\ Waiting(TRUE)
      <4>1. /\ pending # <<>> /\ Head(pending).n = Asked /\ Head(pending).error = TRUE
            /\ Tail(pending) = <<>>
        BY <2>5, <3>3, <3>7
      <4>2. deferred' = FALSE /\ Finish("error", TRUE)
        BY <3>5, <4>1, Zenon DEF OnReady
      <4>3. /\ pending' = <<>>
            /\ recorded' = Append(recorded, [n |-> Asked, outcome |-> "error",
                                             error |-> TRUE])
        BY <4>1, <4>2, Zenon DEF Finish
      <4>4. Fresh BY <1>0, <2>4, <2>15, <3>1, <3>3, <4>3, OneFresh
      <4>5. Quiet' BY <1>0, <3>3, <3>4, <4>2, <4>3 DEF Quiet
      <4> QED BY <1>5, <1>9, <3>3, <3>5, <4>4, <4>5 DEF OneByOneInv
    <3> QED BY <3>1, <3>3, <3>6, <3>7
  <2> QED BY <2>1, <2>12, <2>13, <2>14, <2>16, <2>17
<1> QED BY <1>13, <1>14

-----------------------------------------------------------------------------
(* Nothing was sent: the invariant holds. *)
LEMMA TrackInit ==
    ASSUME SessionInit
    PROVE  TrackInv
<1>0. /\ sent = 0 /\ toServer = <<>> /\ skipping = FALSE
      /\ truth = [n \in 1..Len(script) |-> "none"]
      /\ fromServer = <<>> /\ ready = 0
      /\ pending = <<>> /\ deferred = FALSE /\ recorded = <<>>
  BY DEF SessionInit
<1>1. script \in Seq(Kinds) /\ pipelined \in BOOLEAN
  BY PgSessionAssumption DEF SessionInit
<1>2. Len(script) \in Nat /\ Served = 0 /\ Got = 0
  <2>1. Len(script) \in Nat BY <1>1
  <2>2. Len(toServer) = 0 /\ Len(fromServer) = 0 /\ sent = 0 BY <1>0
  <2>3. Served = 0 BY <2>2 DEF Served
  <2> QED BY <2>1, <2>2, <2>3 DEF Got
<1>3. \A S : <<>> \in Seq(S) OBVIOUS
<1>4. Count(script, Queries, 0) = 0 /\ Cycles(0) = 0
  <2>1. Count(script, Queries, 0) = 0 BY Counting, Zenon
  <2>2. Count(script, Ends, 0) = 0 BY Counting, Zenon
  <2>3. Cycles(0) = Count(script, Ends, 0) BY CyclesCount, Zenon
  <2> QED BY <2>1, <2>2, <2>3, Zenon
<1>5. TrackType
  <2>1. truth \in [1..Len(script) -> {"none", "ok", "error", "skipped"}]
        /\ \A n \in 1..Len(script) : truth[n] = "none"
    BY <1>0
  <2>2. sent \in 0..Len(script) /\ ready \in Nat BY <1>0, <1>2
  <2>3. Len(toServer) <= sent BY <1>0
  <2>4. \A i \in 1..Len(toServer) : toServer[i] = Served + i
    <3>1. \A i \in 1..0 : FALSE OBVIOUS
    <3>2. Len(toServer) = 0 BY <1>0
    <3> QED BY <3>1, <3>2, Zenon
  <2>5. /\ toServer \in Seq(Nat) /\ fromServer \in Seq({"C", "E", "Z", "1"})
        /\ pending \in Seq(Entries)
        /\ recorded \in Seq([n : Nat, outcome : {"ok", "error"}, error : BOOLEAN])
    BY <1>0, <1>3, Zenon
  <2>6. deferred \in BOOLEAN /\ skipping \in BOOLEAN BY <1>0
  <2> QED BY <1>1, <2>1, <2>2, <2>3, <2>4, <2>5, <2>6, Zenon DEF TrackType
<1>6. Tallied
  <2>1. \A k \in 1..0 : FALSE OBVIOUS
  <2>2. Len(recorded) = 0 /\ Len(pending) = 0 BY <1>0
  <2> QED BY <1>0, <1>4, <2>1, <2>2 DEF Tallied
<1>7. Len(pending) = 0 /\ Len(fromServer) = 0 BY <1>0
<1>8. PlainInv BY <1>0, <1>2, <1>7 DEF PlainInv
<1>9. ExtendedInv BY <1>0, <1>2, <1>4, <1>7 DEF ExtendedInv
<1>10. OneByOneInv
  <2>1. AtEnd /\ Quiet BY <1>0 DEF AtEnd, Quiet
  <2>2. OneCycle BY <1>0, <1>2 DEF OneCycle
  <2> QED BY <1>0, <1>4, <2>1, <2>2 DEF OneByOneInv, Counted, Stage
<1> QED BY <1>5, <1>6, <1>8, <1>9, <1>10 DEF TrackInv

(* Each step of the relays keeps it, for a script the tracker can follow. *)
LEMMA TrackStep ==
    ASSUME TrackInv, Followable, Next
    PROVE  TrackInv' /\ Followable'
<1>1. TrackType /\ TrackType' BY TrackTypeStep DEF TrackInv
<1>2. script' = script /\ pipelined' = pipelined
  BY <1>1, Frontwards, Serving, BackendArms DEF Next
<1>3. (Plain' <=> Plain) /\ (Extended' <=> Extended) /\ (OneByOne' <=> OneByOne)
  BY <1>2 DEF Plain, Extended, OneByOne
<1>4. Plain => PlainInv' /\ Fresh /\ ~skipping
  <2> SUFFICES ASSUME Plain PROVE PlainInv' /\ Fresh /\ ~skipping OBVIOUS
  <2>1. PlainInv BY DEF TrackInv
  <2> QED BY <1>1, <2>1, PlainStep DEF PlainInv
<1>5. Extended => ExtendedInv' /\ Fresh /\ ~skipping
  <2> SUFFICES ASSUME Extended PROVE ExtendedInv' /\ Fresh /\ ~skipping OBVIOUS
  <2>1. ExtendedInv BY DEF TrackInv
  <2> QED BY <1>1, <2>1, ExtendedStep DEF ExtendedInv
<1>6. OneByOne => OneByOneInv' /\ Fresh
                  /\ \A i \in 1..Len(toServer) - 1 : script[toServer[i]] # "S"
  <2> SUFFICES ASSUME OneByOne
               PROVE  OneByOneInv' /\ Fresh
                      /\ \A i \in 1..Len(toServer) - 1 : script[toServer[i]] # "S"
    OBVIOUS
  <2>1. OneByOneInv BY DEF TrackInv
  <2>2. OneByOneInv' /\ Fresh
    <3>1. CASE Frontend
      <4>1. recorded' = recorded BY <1>1, <3>1, Frontwards
      <4> QED BY <1>1, <2>1, <3>1, <4>1, OneByOneFront, NothingFresh
    <3>2. CASE Server
      <4>1. recorded' = recorded BY <1>1, <3>2, Serving
      <4> QED BY <1>1, <2>1, <3>2, <4>1, OneByOneServe, NothingFresh
    <3>3. CASE Backend BY <1>1, <2>1, <3>3, OneByOneBack
    <3> QED BY <3>1, <3>2, <3>3 DEF Next
  <2>3. ASSUME NEW i \in 1..Len(toServer) - 1 PROVE script[toServer[i]] # "S"
    <3>1. /\ Served \in Nat /\ sent \in Nat /\ Len(toServer) \in Nat
          /\ Served + Len(toServer) = sent
      BY <1>1, Numbers
    <3>2. i \in 1..Len(toServer) /\ Served + i \in Served + 1..sent - 1 BY <3>1
    <3>3. toServer[i] = Served + i BY <1>1, <3>2 DEF TrackType
    <3>4. script[Served + i] \notin Ends BY <2>1, <3>2 DEF OneByOneInv, OneCycle
    <3> QED BY <3>3, <3>4 DEF Ends
  <2> QED BY <2>2, <2>3
<1>7. Fresh BY <1>4, <1>5, <1>6 DEF Followable
<1>8. skipping => \A i \in 1..Len(toServer) - 1 : script[toServer[i]] # "S"
  BY <1>4, <1>5, <1>6 DEF Followable
<1>9. Tallied'
  <2>1. Tallied BY DEF TrackInv
  <2>2. \A k \in 1..Len(recorded') : k > Len(recorded) => Honest(k)' BY <1>7 DEF Fresh
  <2> QED BY <1>1, <1>8, <2>1, <2>2, TalliedStep
<1> QED BY <1>1, <1>3, <1>4, <1>5, <1>6, <1>9 DEF TrackInv, Followable

(* The invariant of the tracker holds in every state of such a session. *)
LEMMA TrackInvariance == SessionSpec /\ Followable => [](TrackInv /\ Followable)
<1>1. SessionInit => TrackInv BY TrackInit
<1>2. TrackInv /\ Followable /\ [SessionNext]_<<vars, sessionVars>>
      => (TrackInv /\ Followable)'
  <2> SUFFICES ASSUME TrackInv, Followable, [SessionNext]_<<vars, sessionVars>>
               PROVE  (TrackInv /\ Followable)'
    OBVIOUS
  <2>1. CASE Relay BY <2>1, TrackStep DEF Relay
  <2>2. CASE UNCHANGED vars
    <3>1. /\ script' = script /\ pipelined' = pipelined /\ sent' = sent
          /\ toServer' = toServer /\ skipping' = skipping /\ truth' = truth
          /\ fromServer' = fromServer /\ ready' = ready /\ pending' = pending
          /\ deferred' = deferred /\ recorded' = recorded
      BY <2>2 DEF vars
    <3>2. (Plain' <=> Plain) /\ (Extended' <=> Extended) /\ (OneByOne' <=> OneByOne)
      BY <3>1 DEF Plain, Extended, OneByOne
    <3>3. Served' = Served /\ (TrackType' <=> TrackType)
      BY <3>1, Zenon DEF Served, TrackType
    <3>4. Tallied' <=> Tallied
      BY <3>1, <3>3, Zenon DEF Tallied, Honest
    <3>5. PlainInv' <=> PlainInv
      BY <3>1, <3>3, Zenon DEF PlainInv, Entry, Simple
    <3>6. ExtendedInv' <=> ExtendedInv
      <4>1. Got' = Got BY <3>1, <3>3 DEF Got
      <4>2. Cycles(Got)' = Cycles(Got) BY <3>1, <4>1 DEF Cycles
      <4> QED BY <3>1, <3>3, <4>1, <4>2, Zenon DEF ExtendedInv, Answer
    <3>7. /\ (Quiet' <=> Quiet) /\ (AtEnd' <=> AtEnd)
          /\ (OneCycle' <=> OneCycle) /\ Cycles(sent)' = Cycles(sent)
      BY <3>1, <3>3, Zenon DEF Quiet, AtEnd, OneCycle, Cycles
    <3>8. /\ (Synced' <=> Synced) /\ (HasAsked' <=> HasAsked) /\ Asked' = Asked
          /\ (Failed' <=> Failed) /\ Rest' = Rest
      BY <3>1, <3>3, Zenon DEF Synced, HasAsked, Asked, Failed, Rest
    <3>9. Simple(sent)' <=> Simple(sent) BY <3>1 DEF Simple
    <3>10. Querying' <=> Querying BY <3>1, Zenon DEF Querying, Entry, Simple
    <3>11. \A e \in BOOLEAN : Waiting(e)' <=> Waiting(e)
      BY <3>1, <3>8, Zenon DEF Waiting, Entry, Simple
    <3>12. \A a \in {"C", "E"} : Answers(a)' <=> Answers(a)
      BY <3>1, <3>8, Zenon DEF Answers
    <3>13. /\ (Preparing' <=> Preparing) /\ (Completing' <=> Completing)
           /\ (Completed' <=> Completed) /\ (Failing' <=> Failing) /\ (Told' <=> Told)
      BY <3>1, <3>3, <3>8, <3>11, <3>12, Zenon DEF Preparing, Completing, Completed, Failing, Told
    <3>14. OneByOneInv' <=> OneByOneInv
      BY <3>1, <3>7, <3>9, <3>10, <3>13, Zenon DEF OneByOneInv, Counted, Stage
    <3> QED BY <3>2, <3>3, <3>4, <3>5, <3>6, <3>14 DEF TrackInv, Followable
  <2>3. CASE Stop BY <2>2, <2>3 DEF Stop
  <2>4. ASSUME NEW c \in Conns, Handler(c) \/ Environment(c) PROVE UNCHANGED vars
    BY <2>4, Zenon DEF Handler, Environment, Peek, ReadStartup, TooManyRequests,
         AuthenticateListener, OpenUpstream, AuthenticateUpstream, Register, Greet,
         Unregister, CloseServer, Lookup, SetupFails, RelayEnds, ServerDrops, SendCancel,
         SendCancelFails
  <2>5. CASE UNCHANGED <<vars, sessionVars>> BY <2>2, <2>5
  <2> QED BY <2>1, <2>2, <2>3, <2>4, <2>5 DEF SessionNext
<1> QED BY <1>1, <1>2, PTL DEF SessionSpec

(***************************************************************************)
(* What the tracker records is what happened: for every script it can      *)
(* follow, however the relays and the server interleave, an observation    *)
(* without an error is of a query the server completed, and one with an    *)
(* error of a query it rejected or left out.                               *)
(***************************************************************************)
THEOREM ObservationsAreTrue == SessionSpec /\ Followable => []Truthful
<1>1. TrackInv => Truthful
  <2> SUFFICES ASSUME TrackInv, NEW k \in 1..Len(recorded)
               PROVE  IF recorded[k].outcome = "ok" /\ ~recorded[k].error
                        THEN truth[recorded[k].n] = "ok"
                        ELSE recorded[k].outcome = "error" /\ truth[recorded[k].n] # "ok"
    BY DEF Truthful
  <2>1. Honest(k) BY DEF TrackInv, Tallied
  <2>2. recorded[k].outcome \in {"ok", "error"}
    <3> DEFINE R == [n : Nat, outcome : {"ok", "error"}, error : BOOLEAN]
    <3>1. recorded \in Seq(R) BY DEF TrackInv, TrackType
    <3>2. \A r \in R : r.outcome \in {"ok", "error"} OBVIOUS
    <3> HIDE DEF R
    <3>3. recorded[k] \in R BY <3>1
    <3> QED BY <3>2, <3>3
  <2> QED BY <2>1, <2>2 DEF Honest
<1> QED BY <1>1, TrackInvariance, PTL

(***************************************************************************)
(* Nothing of an exchange is left over: once the client has its last       *)
(* ReadyForQuery, every query of such a script was recorded exactly once,  *)
(* and no query and no error waits in the tracker's state.                 *)
(***************************************************************************)
THEOREM ExchangesSettle == SessionSpec /\ Followable => []Settled
<1>1. TrackInv /\ Followable => Settled
  <2> SUFFICES ASSUME TrackInv, Followable,
                      sent = Len(script), ready = Cycles(sent), fromServer = <<>>
               PROVE  /\ pending = <<>> /\ ~deferred
                      /\ Len(recorded) = Cardinality({n \in 1..sent :
                                           script[n] \in {"Q", "QBad", "E", "EBad"}})
    BY DEF Settled
  <2>0. TrackType BY DEF TrackInv
  <2>1. /\ sent \in Nat /\ ready \in Nat /\ Served \in Nat /\ Served <= sent
        /\ pending \in Seq(Entries) /\ Len(pending) \in Nat /\ Len(recorded) \in Nat
        /\ (pending = <<>> <=> Len(pending) = 0) /\ script \in Seq(Kinds)
    BY <2>0, Numbers, Emptiness DEF TrackType
  <2>2. Plain => pending = <<>> /\ ~deferred
    <3> SUFFICES ASSUME Plain PROVE pending = <<>> /\ ~deferred OBVIOUS
    <3>1. PlainInv BY DEF TrackInv
    <3>2. ready = sent BY <2>0, <3>1, PlainCycles
    <3>3. Len(pending) = sent - ready /\ ~deferred BY <3>1 DEF PlainInv
    <3> QED BY <2>1, <3>2, <3>3
  <2>3. Extended => pending = <<>> /\ ~deferred
    <3> SUFFICES ASSUME Extended PROVE pending = <<>> /\ ~deferred OBVIOUS
    <3>1. ExtendedInv BY DEF TrackInv
    <3>2. Got = Served BY <2>1 DEF Got
    <3>3. ready = Cycles(Served) /\ ~deferred
          /\ \A i \in 1..Len(pending) : pending[i].n \in Served + 1..sent
      BY <3>1, <3>2 DEF ExtendedInv
    <3>4. Served = sent
      <4>1. ASSUME Served < sent PROVE FALSE
        <5>1. sent > 0 /\ script # <<>> BY <2>1, <4>1
        <5>2. script[sent] \in Ends BY <5>1 DEF Extended, Ends
        <5>3. Count(script, Ends, Served) < Count(script, Ends, sent)
          BY <2>1, <4>1, <5>2, CountGrows
        <5>4. Count(script, Ends, Served) \in Nat BY <2>1, Counting
        <5>5. Cycles(Served) = Count(script, Ends, Served)
          BY <2>1, CyclesCount
        <5>6. Cycles(sent) = Count(script, Ends, sent) BY <2>1, CyclesCount
        <5>7. Cycles(Served) = Cycles(sent) BY <3>3
        <5> HIDE DEF Count
        <5>8. Count(script, Ends, Served) = Count(script, Ends, sent)
          BY <5>5, <5>6, <5>7, Zenon
        <5> QED BY <5>3, <5>4, <5>8
      <4> QED BY <2>1, <4>1
    <3>5. Len(pending) = 0
      <4>1. Len(pending) > 0 => 1 \in 1..Len(pending) BY <2>1
      <4>2. \A k : k \notin Served + 1..sent BY <2>1, <3>4
      <4>3. ~(Len(pending) > 0) BY <3>3, <4>1, <4>2
      <4> QED BY <2>1, <4>3
    <3> QED BY <2>1, <3>3, <3>5
  <2>4. OneByOne => pending = <<>> /\ ~deferred
    <3> SUFFICES ASSUME OneByOne PROVE pending = <<>> /\ ~deferred OBVIOUS
    <3>1. OneByOneInv BY DEF TrackInv
    <3>2. AtEnd
      <4>1. sent # 0 => script # <<>> BY <2>1
      <4> QED BY <4>1 DEF AtEnd, OneByOne
    <3>3. Quiet
      <4>1. ready # ready + 1 BY <2>1
      <4> QED BY <3>1, <3>2, <4>1 DEF OneByOneInv, Counted
    <3> QED BY <3>3 DEF Quiet
  <2>5. pending = <<>> /\ ~deferred BY <2>2, <2>3, <2>4 DEF Followable
  <2>6. Len(recorded) = Count(script, Queries, sent)
    <3>1. Len(recorded) + Len(pending) = Count(script, Queries, sent)
      BY DEF TrackInv, Tallied
    <3> QED BY <2>1, <2>5, <3>1
  <2> QED BY <2>5, <2>6 DEF Count, Queries
<1> QED BY <1>1, TrackInvariance, PTL

=============================================================================
