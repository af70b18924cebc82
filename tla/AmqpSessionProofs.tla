------------------------- MODULE AmqpSessionProofs --------------------------
(***************************************************************************)
(* Proofs about AmqpSession, for every script, set of channels and limit.  *)
(*                                                                         *)
(* An answer finds its own request at the head of the channel's queue.     *)
(* A request is filed before it is written, so it is pending while it is   *)
(* on its way to the broker and while its answer is on its way back        *)
(* (FiledInv); the answers of a channel come back in the order of their    *)
(* requests (OrderInv); and no request is pending before one that is being *)
(* answered unless its own answer is on its way too (NoGapInv).            *)
(*                                                                         *)
(* Every frame that was told to the inspector is in one place: a record, a *)
(* queue of requests or an unfinished content (ApartInv), and what it has  *)
(* not been told of is in none (FreshInv).  A content counts the bytes of  *)
(* its own bodies (MessageInv), so that a message is whole when it has as  *)
(* many as announced; and at the end the queues and contents are empty     *)
(* (EmptyInv), so that what was passed on (PassedInv) is in a record.      *)
(***************************************************************************)
EXTENDS AmqpSession, FiniteSetTheorems, TLAPS

Chans == Channels \cup {0}

(* The client's nth frame, with its identity. *)
Request(n) == [script[n] EXCEPT !.id = <<"c2s", n>>]
Requests == {Request(n) : n \in 1..Len(script)}

(* What the synchronous methods wait for. *)
Responses == {"declare-ok", "bind-ok", "get-ok", "get-empty", "open-ok", "consume-ok"}

(* Frame f of the broker answers frame n of the client. *)
AnswersTo(f, n) ==
    /\ f.re = <<"c2s", n>> /\ f.ch = script[n].ch /\ f.type = "method"
    /\ f.m \in Expected(script[n].m)

(* The frames of the broker: an answer to a frame, or an event. *)
BrokerFrames ==
    {f \in Frames :
        /\ f.m \notin Credentials
        /\ \/ f.re = NoId /\ f.m \notin Responses
           \/ \E n \in 1..Len(script) : AnswersTo(f, n)}

Relays == [pc : {"none", "read", "write", "observe", "end"}, frame : Frames,
           prepared : BOOLEAN]
Phases == Steps \cup {"relay", "wait", "fail", "closed"}

(* Every variable has its type. *)
TypeInv ==
    /\ script \in Scripts /\ phase \in Phases
    /\ login \in BOOLEAN /\ vhost \in BOOLEAN /\ broker \in Seq({"header", "login", "tune-ok", "open"})
    /\ server \in Tunes /\ client \in Tunes
    /\ read \in 0..Len(script) /\ relay \in [Directions -> Relays]
    /\ toBroker \in Seq(Requests)
    /\ outbox \in [Chans -> Seq(BrokerFrames)]
    /\ fromBroker \in Seq(BrokerFrames)
    /\ made \in Nat /\ passed \in [Directions -> SUBSET Frames]
    /\ relay["c2s"].pc \in {"write", "observe"} => relay["c2s"].frame \in Requests
    /\ relay["s2c"].pc \in {"write", "observe"} => relay["s2c"].frame \in BrokerFrames
    /\ \A ch \in Chans : \A i \in 1..Len(outbox[ch]) : outbox[ch][i].ch = ch

(* Before and after the relays run nothing is held and nothing is on its way. *)
PhaseInv ==
    /\ phase \in Steps => /\ \A d \in Directions : relay[d].pc = "none"
                          /\ \A d \in Directions : passed[d] = {}
    /\ phase # "relay" => /\ toBroker = <<>> /\ fromBroker = <<>>
                          /\ \A ch \in Chans : outbox[ch] = <<>>
    /\ phase \in Steps \cup {"closed"} =>
          \A d \in Directions : relay[d].pc \in {"none", "end"}

(* What the client and the broker may have been passed. *)
Allowed(f) ==
    /\ f.m \notin Credentials
    /\ Below(Weight(f), client.frameMax) /\ Weight(f) <= HardFrameMax

(* A frame that is about to be written was checked. *)
CheckedInv == \A d \in Directions : relay[d].pc = "write" => Allowed(relay[d].frame)

(* Once the client's limits are agreed on they are within the broker's, and *)
(* what was checked before stays known while frames are passed on.          *)
AgreedInv ==
    /\ phase \in {"open", "open-ok", "relay", "wait"} => Below(client.frameMax, server.frameMax)
    /\ phase \in {"tune", "tune-ok", "open", "open-ok", "relay", "wait"} => login
    /\ phase \in {"open-ok", "relay", "wait"} => vhost

-----------------------------------------------------------------------------
(* The broker's frame that its relay holds. *)
Holding == relay["s2c"].pc \in {"write", "observe"}
Held == relay["s2c"].frame

(* The answer to frame n is on its way. *)
InFlight(n) ==
    \/ Holding /\ Held.re = <<"c2s", n>>
    \/ \E i \in 1..Len(fromBroker) : fromBroker[i].re = <<"c2s", n>>
    \/ \E ch \in Chans : \E i \in 1..Len(outbox[ch]) : outbox[ch][i].re = <<"c2s", n>>

Pending(n) ==
    \E i \in 1..Len(pending[script[n].ch]) : pending[script[n].ch][i] = Request(n)

OnItsWay(n) == \E i \in 1..Len(toBroker) : toBroker[i] = Request(n)

States == [frames : SUBSET Ids, req : Ids, re : Ids, m : Methods, size : Int,
           received : Int]

(* Where the queues and the contents get their frames from. *)
PlacesInv ==
    /\ pending \in [Chans -> Seq(Requests)]
    /\ content \in [Directions \X Chans -> States]
    /\ phase \in Steps => \A ch \in Chans : pending[ch] = <<>>
    /\ relay["c2s"].pc = "write" =>
          \E n \in 1..Len(script) :
              /\ n = read /\ relay["c2s"].frame = Request(n)
              /\ relay["c2s"].prepared <=> Synchronous(Request(n))
              /\ Synchronous(Request(n)) => Pending(n)
    /\ relay["c2s"].pc = "observe" => ~Synchronous(relay["c2s"].frame)
    /\ relay["s2c"].pc = "write" => ~relay["s2c"].prepared
    /\ \A ch \in Chans : \A i \in 1..Len(pending[ch]) :
          pending[ch][i].ch = ch /\ Synchronous(pending[ch][i])

(* f comes back before g, if both are answers on one channel. *)
Before(f, g) == f.ch = g.ch /\ f.re # NoId /\ g.re # NoId => f.re[2] < g.re[2]

(* The answers of a channel keep the order of their requests. *)
OrderInv ==
    /\ \A i, j \in 1..Len(fromBroker) : i < j => Before(fromBroker[i], fromBroker[j])
    /\ \A ch \in Chans : \A i, j \in 1..Len(outbox[ch]) :
          i < j => Before(outbox[ch][i], outbox[ch][j])
    /\ \A i \in 1..Len(fromBroker), ch \in Chans : \A j \in 1..Len(outbox[ch]) :
          Before(fromBroker[i], outbox[ch][j])
    /\ Holding =>
          /\ \A i \in 1..Len(fromBroker) : Before(Held, fromBroker[i])
          /\ \A ch \in Chans : \A i \in 1..Len(outbox[ch]) : Before(Held, outbox[ch][i])

(* Frames were read in order; those the broker has not taken came last. *)
Taking(n) == n <= read /\ (relay["c2s"].pc = "write" => n < read)

QueuesRise ==
    /\ \A i, j \in 1..Len(toBroker) : i < j => toBroker[i].id[2] < toBroker[j].id[2]
    /\ \A ch \in Chans : \A i, j \in 1..Len(pending[ch]) :
          i < j => pending[ch][i].id[2] < pending[ch][j].id[2]

RisingInv ==
    /\ QueuesRise
    /\ \A n \in 1..Len(script) : Pending(n) => n <= read
    /\ \A n \in 1..Len(script) : OnItsWay(n) \/ InFlight(n) => Taking(n)
    /\ \A m, n \in 1..Len(script) : InFlight(m) /\ OnItsWay(n) => m < n

(* A request is pending while it or its answer is on its way. *)
FiledInv ==
    \A n \in 1..Len(script) :
        InFlight(n) \/ (OnItsWay(n) /\ Synchronous(Request(n))) => Pending(n)

(* A pending request has its answer on its way, is on its way itself, was  *)
(* read last, or its channel is shut; so none before an answer waits.      *)
NoGapInv ==
    relay["s2c"].pc # "end" =>
        /\ \A n, p \in 1..Len(script) :
              /\ InFlight(n) /\ Pending(p) /\ script[p].ch = script[n].ch /\ p < n
              => InFlight(p)
        /\ phase = "relay" => \A p \in 1..Len(script) :
              Pending(p) /\ script[p].ch \notin shut =>
                  \/ InFlight(p) \/ OnItsWay(p)
                  \/ p = read /\ relay["c2s"].pc \in {"write", "end"}

(* A message belongs to the request that its method answers. *)
ContentInv == \A k \in Directions \X Chans : content[k].re = content[k].req

PairInv ==
    /\ PlacesInv /\ OrderInv /\ RisingInv /\ FiledInv /\ NoGapInv
    /\ ContentInv /\ Paired

-----------------------------------------------------------------------------
(***************************************************************************)
(* Lemmas about the model's operators                                      *)
(***************************************************************************)

(* What Append and Tail do to a sequence, index by index. *)
LEMMA SeqSteps ==
    ASSUME NEW S, NEW s \in Seq(S), NEW e \in S
    PROVE  /\ Append(s, e) \in Seq(S) /\ Len(Append(s, e)) = Len(s) + 1
           /\ \A i \in 1..Len(s) : Append(s, e)[i] = s[i]
           /\ Append(s, e)[Len(s) + 1] = e
           /\ s # <<>> => /\ Head(s) \in S /\ Tail(s) \in Seq(S)
                          /\ Len(s) >= 1 /\ Head(s) = s[1]
                          /\ Len(Tail(s)) = Len(s) - 1
                          /\ \A i \in 1..(Len(s) - 1) : Tail(s)[i] = s[i + 1]
  OBVIOUS

(* What a synchronous method waits for, as setExpectedResponse lists it. *)
LEMMA ExpectedFacts ==
    ASSUME NEW m, NEW a
    PROVE  a \in Expected(m) <=>
             \/ m = "declare" /\ a = "declare-ok"
             \/ m = "bind" /\ a = "bind-ok"
             \/ m = "get" /\ a \in {"get-ok", "get-empty"}
             \/ m = "open" /\ a = "open-ok"
             \/ m = "consume" /\ a = "consume-ok"
  BY Zenon DEF Expected

(* The scripts hold frames without an identity. *)
LEMMA ScriptFacts ==
    ASSUME script \in Scripts
    PROVE  /\ script \in Seq(Frames) /\ Len(script) \in Nat
           /\ \A n \in 1..Len(script) :
                 script[n] \in Frames /\ script[n].id = NoId /\ script[n].re = NoId
  BY AmqpAssumption

(* A frame of the client is the script's, but for its identity. *)
LEMMA RequestFacts ==
    ASSUME script \in Scripts, NEW n \in 1..Len(script)
    PROVE  /\ Request(n) \in Frames /\ Request(n) \in Requests
           /\ Request(n).id = <<"c2s", n>> /\ Request(n).id[2] = n
           /\ Request(n).re = NoId /\ Request(n).ch = script[n].ch
           /\ Request(n).m = script[n].m /\ Request(n).type = script[n].type
           /\ Request(n).size = script[n].size
  <1>1. script[n] \in Frames /\ script[n].re = NoId /\ n \in Nat
    BY ScriptFacts
  <1>2. Request(n) \in Frames
    BY <1>1 DEF Request, Frames, Ids
  <1> QED
    BY <1>1, <1>2 DEF Request, Requests, Frames, Ids

(* A frame of the client is known by its number. *)
LEMMA RequestNumber ==
    ASSUME script \in Scripts, NEW f \in Requests
    PROVE  /\ f.id[2] \in 1..Len(script) /\ f = Request(f.id[2]) /\ f \in Frames
           /\ f.re = NoId /\ f.ch \in Chans /\ f.ch = script[f.id[2]].ch
           /\ f.m = script[f.id[2]].m /\ f.id = <<"c2s", f.id[2]>>
  <1>1. PICK n \in 1..Len(script) : f = Request(n)
    BY DEF Requests
  <1>2. f.id[2] = n /\ f.id = <<"c2s", n>> /\ f \in Frames /\ f.re = NoId
        /\ f.ch = script[n].ch /\ f.m = script[n].m
    BY <1>1, RequestFacts
  <1>3. f.ch \in Chans
    BY <1>2 DEF Frames, Chans
  <1> QED
    BY <1>1, <1>2, <1>3

(* The script, and with it what the peers may send, never changes. *)
LEMMA ScriptStays ==
    ASSUME [Next]_vars
    PROVE  /\ script' = script /\ Requests' = Requests /\ BrokerFrames' = BrokerFrames
           /\ \A n : Request(n)' = Request(n)
  <1>1. script' = script
    <2>1. CASE Negotiate
      BY <2>1 DEF Negotiate, ClientHeader, Dial, Secure, ServerStart, ClientLogin, ServerTune,
           ClientTune, ClientOpen, ServerOpen, NegotiateFails, Unrelated
    <2>2. ASSUME NEW d \in Directions, Relay(d) PROVE script' = script
      BY <2>2 DEF Relay, Read, ReadOversized, ReadBlocked, ReadFails, Write, WriteFails, Observe
    <2>3. CASE End \/ FailPending \/ Cancel \/ BrokerTakes \/ BrokerSends
      BY <2>3 DEF End, FailPending, Cancel, BrokerTakes, BrokerSends
    <2> QED
      BY <2>1, <2>2, <2>3 DEF Next, vars
  <1>2. \A n : Request(n)' = Request(n)
    BY <1>1 DEF Request
  <1>3. Requests' = Requests
    BY <1>1 DEF Request, Requests
  <1>4. BrokerFrames' = BrokerFrames
    BY <1>1 DEF BrokerFrames, AnswersTo
  <1> QED
    BY <1>1, <1>2, <1>3, <1>4

(* What a relay reads next. *)
LEMMA IncomingFacts ==
    ASSUME TypeInv, NEW d \in Directions, Incoming(d) # <<>>
    PROVE  /\ d = "c2s" => /\ read < Len(script) /\ read + 1 \in 1..Len(script)
                           /\ Head(Incoming(d)) = script[read + 1]
                           /\ Identified(d, Head(Incoming(d))) = Request(read + 1)
           /\ d = "s2c" => /\ fromBroker # <<>> /\ Head(fromBroker) \in BrokerFrames
                           /\ Identified(d, Head(Incoming(d))) = Head(fromBroker)
           /\ Weight(Identified(d, Head(Incoming(d)))) = Weight(Head(Incoming(d)))
           /\ Identified(d, Head(Incoming(d))) \in Frames
  <1>1. CASE d = "c2s"
    <2>1. Incoming(d) = SubSeq(script, read + 1, Len(script))
      BY <1>1 DEF Incoming
    <2>2. script \in Seq(Frames) /\ read \in 0..Len(script) /\ Len(script) \in Nat
      BY ScriptFacts DEF TypeInv
    <2>3. read < Len(script)
      BY <2>1, <2>2
    <2>4. Head(Incoming(d)) = script[read + 1] /\ read + 1 \in 1..Len(script)
      BY <2>1, <2>2, <2>3
    <2>5. Identified(d, Head(Incoming(d))) = Request(read + 1)
      BY <1>1, <2>4 DEF Identified, Request
    <2>6. Request(read + 1) \in Frames /\ Request(read + 1).type = script[read + 1].type
          /\ Request(read + 1).size = script[read + 1].size
      BY <2>4, RequestFacts DEF TypeInv
    <2> QED
      BY <1>1, <2>3, <2>4, <2>5, <2>6 DEF Weight
  <1>2. CASE d = "s2c"
    BY <1>2, SeqSteps DEF TypeInv, Incoming, Identified, BrokerFrames
  <1> QED
    BY <1>1, <1>2 DEF Directions

(* The concatenation of two sequences, index by index. *)
LEMMA ConcatFacts ==
    ASSUME NEW S, NEW s \in Seq(S), NEW t \in Seq(S)
    PROVE  /\ s \o t \in Seq(S) /\ Len(s \o t) = Len(s) + Len(t)
           /\ \A i \in 1..Len(s) : (s \o t)[i] = s[i]
           /\ \A i \in (Len(s) + 1)..(Len(s) + Len(t)) : (s \o t)[i] = t[i - Len(s)]
  OBVIOUS

(* A frame without an identity has its fields. *)
LEMMA FrameFacts ==
    ASSUME NEW t \in {"method", "header", "body"}, NEW ch \in Chans,
           NEW m \in Methods, NEW n \in Int,
           t # "method" => m = "none", t = "body" => n >= 0
    PROVE  /\ Frame(t, ch, m, n) \in Frames /\ Frame(t, ch, m, n).ch = ch
           /\ Frame(t, ch, m, n).re = NoId /\ Frame(t, ch, m, n).m = m
           /\ Frame(t, ch, m, n).type = t
  <1>1. NoId \in Ids
    BY DEF NoId, Ids
  <1> QED
    BY <1>1 DEF Frame, Frames, Chans

(* An event of the broker is a frame that answers nothing. *)
LEMMA EventFacts ==
    ASSUME NEW ch \in Chans, NEW t \in {"method", "header", "body"},
           NEW m \in {"close", "deliver", "return", "none"}, NEW n \in Int,
           t # "method" => m = "none", t = "body" => n >= 0
    PROVE  Frame(t, ch, m, n) \in BrokerFrames /\ Frame(t, ch, m, n).ch = ch
           /\ Frame(t, ch, m, n).re = NoId /\ Frame(t, ch, m, n).m = m
  <1>1. m \in Methods
    BY DEF Methods
  <1>2. /\ Frame(t, ch, m, n) \in Frames /\ Frame(t, ch, m, n).ch = ch
        /\ Frame(t, ch, m, n).re = NoId /\ Frame(t, ch, m, n).m = m
    BY <1>1, FrameFacts
  <1>3. m \notin Credentials /\ m \notin Responses
    BY DEF Credentials, Responses
  <1> QED
    BY <1>2, <1>3 DEF BrokerFrames

(* The broker's answer to a synchronous method. *)
LEMMA AnswerFacts ==
    ASSUME script \in Scripts, NEW frame \in Requests, NEW m \in Expected(frame.m)
    PROVE  /\ Answer(frame, m) \in BrokerFrames /\ Answer(frame, m).ch = frame.ch
           /\ Answer(frame, m).re = frame.id /\ Answer(frame, m).m = m
           /\ Answer(frame, m).type = "method"
  <1>1. /\ frame.id \in Ids /\ frame.ch \in Chans /\ frame.id[2] \in 1..Len(script)
        /\ frame.id = <<"c2s", frame.id[2]>> /\ frame.ch = script[frame.id[2]].ch
        /\ frame.m = script[frame.id[2]].m
    BY RequestNumber DEF Frames
  <1>2. m \in {"declare-ok", "bind-ok", "get-ok", "get-empty", "open-ok", "consume-ok"}
    BY ExpectedFacts
  <1>3. /\ Answer(frame, m) \in Frames /\ Answer(frame, m).ch = frame.ch
        /\ Answer(frame, m).re = frame.id /\ Answer(frame, m).m = m
        /\ Answer(frame, m).type = "method"
    <2> DEFINE f == Frame("method", frame.ch, m, 0)
    <2>1. f \in Frames /\ f.ch = frame.ch /\ f.m = m /\ f.type = "method"
      <3>1. m \in Methods /\ 0 \in Int
        BY <1>2 DEF Methods
      <3> QED
        BY <1>1, <3>1, FrameFacts
    <2>2. Answer(frame, m) = [f EXCEPT !.re = frame.id]
      BY DEF Answer
    <2> QED
      BY <1>1, <2>1, <2>2 DEF Frames
  <1>4. AnswersTo(Answer(frame, m), frame.id[2])
    BY <1>1, <1>3 DEF AnswersTo
  <1>5. Answer(frame, m).m \notin Credentials
    BY <1>2, <1>3 DEF Credentials
  <1> QED
    BY <1>1, <1>3, <1>4, <1>5 DEF BrokerFrames

(* Frames of one channel of which only the first may be an answer. *)
Led(s, ch) ==
    /\ s \in Seq(BrokerFrames)
    /\ \A i \in 1..Len(s) : s[i].ch = ch /\ (i > 1 => s[i].re = NoId)

(* A message after its method, with no body or one. *)
LEMMA ContentFacts ==
    ASSUME NEW f \in BrokerFrames, NEW parts \in {0, 1}, f.ch \in Chans
    PROVE  /\ Led(Content(f, parts), f.ch) /\ Len(Content(f, parts)) = 2 + parts
           /\ Content(f, parts)[1] = f
  <1>0. parts \in Nat /\ parts \in Int /\ 1 \in Int /\ 1 >= 0
    OBVIOUS
  <1> DEFINE h == Frame("header", f.ch, "none", parts)
             b == Frame("body", f.ch, "none", 1)
             t == [i \in 1..parts |-> b]
             s == <<f, h>>
  <1>1. h \in BrokerFrames /\ h.ch = f.ch /\ h.re = NoId
    BY <1>0, EventFacts
  <1>2. b \in BrokerFrames /\ b.ch = f.ch /\ b.re = NoId
    BY <1>0, EventFacts
  <1> HIDE DEF h, b
  <1>3. t \in Seq(BrokerFrames) /\ Len(t) = parts /\ \A i \in 1..parts : t[i] = b
    BY <1>2
  <1>4. s \in Seq(BrokerFrames) /\ Len(s) = 2 /\ s[1] = f /\ s[2] = h
    BY <1>1
  <1>5. Content(f, parts) = s \o t
    BY DEF Content, h, b
  <1> HIDE DEF s, t
  <1>6. s \o t \in Seq(BrokerFrames) /\ Len(s \o t) = 2 + parts /\ (s \o t)[1] = f
        /\ (s \o t)[2] = h /\ \A i \in 3..(2 + parts) : (s \o t)[i] = b
    <2>1. /\ s \o t \in Seq(BrokerFrames) /\ Len(s \o t) = Len(s) + Len(t)
          /\ \A i \in 1..Len(s) : (s \o t)[i] = s[i]
          /\ \A i \in (Len(s) + 1)..(Len(s) + Len(t)) : (s \o t)[i] = t[i - Len(s)]
      BY <1>3, <1>4, ConcatFacts, Zenon
    <2> QED
      BY <1>0, <1>3, <1>4, <2>1
  <1>7. \A i \in 1..(2 + parts) : i = 1 \/ i = 2 \/ i \in 3..(2 + parts)
    OBVIOUS
  <1>8. \A i \in 1..(2 + parts) :
           (s \o t)[i].ch = f.ch /\ (i > 1 => (s \o t)[i].re = NoId)
    BY <1>1, <1>2, <1>6, <1>7
  <1>9. Led(s \o t, f.ch)
    BY <1>6, <1>8 DEF Led
  <1> QED
    BY <1>5, <1>6, <1>9

(* An answer and events of its channel after it. *)
LEMMA LedFacts ==
    ASSUME NEW ch \in Chans, NEW f \in BrokerFrames, f.ch = ch
    PROVE  Led(<<f>>, ch) /\ Len(<<f>>) = 1 /\ <<f>>[1] = f
  BY DEF Led

(* A frame and deliveries of its channel after it. *)
LEMMA DeliveriesFacts ==
    ASSUME NEW ch \in Chans, NEW n \in Nat, NEW f \in BrokerFrames, f.ch = ch
    PROVE  /\ Led(<<f>> \o Deliveries(ch, n), ch)
           /\ <<f>> \o Deliveries(ch, n) # <<>> /\ (<<f>> \o Deliveries(ch, n))[1] = f
  <1> DEFINE g == Frame("method", ch, "deliver", 0)
             c == Content(g, 1)
             t == Deliveries(ch, n)
             s == <<f>>
  <1>1. g \in BrokerFrames /\ g.ch = ch /\ g.re = NoId
    BY EventFacts
  <1>2. c \in Seq(BrokerFrames) /\ Len(c) = 3 /\ c[1] = g
        /\ \A i \in 1..3 : c[i].ch = ch /\ (i > 1 => c[i].re = NoId)
    BY <1>1, ContentFacts DEF Led
  <1>3. \A i \in 1..3 : c[i] \in BrokerFrames /\ c[i].ch = ch /\ c[i].re = NoId
    BY <1>1, <1>2
  <1>4. t = [i \in 1..(3 * n) |-> c[((i - 1) % 3) + 1]]
    BY DEF Deliveries
  <1>5. \A i \in 1..(3 * n) : ((i - 1) % 3) + 1 \in 1..3
    OBVIOUS
  <1> HIDE DEF g, c, t
  <1>6. /\ t \in Seq(BrokerFrames) /\ Len(t) \in Nat
        /\ \A i \in 1..Len(t) : t[i].ch = ch /\ t[i].re = NoId
    BY <1>3, <1>4, <1>5, 3 * n \in Nat
  <1>7. s \in Seq(BrokerFrames) /\ Len(s) = 1 /\ s[1] = f
    OBVIOUS
  <1> HIDE DEF s
  <1>8. /\ s \o t \in Seq(BrokerFrames) /\ Len(s \o t) = 1 + Len(t) /\ (s \o t)[1] = f
        /\ \A i \in 2..(1 + Len(t)) : (s \o t)[i] = t[i - 1]
    <2>1. /\ s \o t \in Seq(BrokerFrames) /\ Len(s \o t) = Len(s) + Len(t)
          /\ \A i \in 1..Len(s) : (s \o t)[i] = s[i]
          /\ \A i \in (Len(s) + 1)..(Len(s) + Len(t)) : (s \o t)[i] = t[i - Len(s)]
      BY <1>6, <1>7, ConcatFacts, Zenon
    <2> QED
      BY <1>6, <1>7, <2>1
  <1>9. Led(s \o t, ch)
    BY <1>6, <1>8 DEF Led
  <1> QED
    BY <1>6, <1>8, <1>9 DEF s, t

(* What the broker sends for a frame: a synchronous method is answered, or *)
(* its channel is closed; nothing else is answered.                        *)
LEMMA AnswersFacts ==
    ASSUME script \in Scripts, NEW frame \in Requests, NEW answer \in Answers(frame)
    PROVE  /\ Led(answer, frame.ch)
           /\ answer # <<>> => answer[1].re \in {NoId, frame.id}
           /\ Synchronous(frame) =>
                 answer # <<>> /\ (answer[1].re = frame.id \/ answer[1].m = "close")
           /\ ~Synchronous(frame) => \A i \in 1..Len(answer) : answer[i].re = NoId
  <1>0. /\ frame \in Frames /\ frame.ch \in Chans
        /\ \A m \in {"declare", "bind", "open", "consume", "get"} :
              frame.m = m => frame.type = "method"
        /\ 0 \in Int
    BY RequestNumber DEF Frames
  <1> DEFINE ch == frame.ch
  <1>e. \A s : s = <<>> => /\ Led(s, ch) /\ \A i \in 1..Len(s) : s[i].re = NoId
    BY DEF Led
  <1>c. LET f == Frame("method", ch, "close", 0)
        IN  f \in BrokerFrames /\ f.ch = ch /\ f.re = NoId /\ f.m = "close"
    BY <1>0, EventFacts
  <1>1. CASE frame.m = "declare"
    <2>1. Answers(frame) =
            {<<Answer(frame, "declare-ok")>>, <<Frame("method", frame.ch, "close", 0)>>}
      BY <1>0, <1>1, Zenon DEF Answers
    <2>2. Synchronous(frame) /\ "declare-ok" \in Expected(frame.m)
      BY <1>0, <1>1, ExpectedFacts DEF Synchronous
    <2>3. Answer(frame, "declare-ok") \in BrokerFrames
          /\ Answer(frame, "declare-ok").ch = ch /\ Answer(frame, "declare-ok").re = frame.id
      BY <2>2, AnswerFacts
    <2>4. CASE answer = <<Answer(frame, "declare-ok")>>
      BY <1>0, <2>2, <2>3, <2>4, LedFacts
    <2>5. CASE answer = <<Frame("method", frame.ch, "close", 0)>>
      BY <1>0, <1>c, <2>2, <2>5, LedFacts
    <2> QED
      BY <2>1, <2>4, <2>5
  <1>2. ASSUME NEW m, NEW ok, frame.m = m, <<m, ok>> \in {<<"bind", "bind-ok">>,
                                                          <<"open", "open-ok">>}
        PROVE  /\ Led(answer, ch) /\ Synchronous(frame)
               /\ answer # <<>> /\ answer[1].re = frame.id
    <2>1. Answers(frame) = {<<Answer(frame, ok)>>}
      <3>1. CASE frame.m = "bind" /\ ok = "bind-ok"
        BY <1>0, <3>1, Zenon DEF Answers
      <3>2. CASE frame.m = "open" /\ ok = "open-ok"
        BY <1>0, <3>2, Zenon DEF Answers
      <3> QED
        BY <1>2, <3>1, <3>2
    <2>2. Synchronous(frame) /\ ok \in Expected(frame.m)
      BY <1>0, <1>2, ExpectedFacts DEF Synchronous
    <2>3. Answer(frame, ok) \in BrokerFrames
          /\ Answer(frame, ok).ch = ch /\ Answer(frame, ok).re = frame.id
      BY <2>2, AnswerFacts
    <2>4. answer = <<Answer(frame, ok)>>
      BY <2>1
    <2>5. Led(answer, ch) /\ Len(answer) = 1 /\ answer[1] = Answer(frame, ok)
      BY <1>0, <2>3, <2>4, LedFacts
    <2>6. answer # <<>>
      BY <2>4
    <2> QED
      BY <2>2, <2>3, <2>5, <2>6
  <1>3. CASE frame.m \in {"bind", "open"}
    BY <1>2, <1>3
  <1>4. CASE frame.m = "consume"
    <2>1. Answers(frame) = {<<Answer(frame, "consume-ok")>> \o Deliveries(frame.ch, n) :
                               n \in 0..MaxDeliveries}
      BY <1>0, <1>4, Zenon DEF Answers
    <2>2. Synchronous(frame) /\ "consume-ok" \in Expected(frame.m)
      BY <1>0, <1>4, ExpectedFacts DEF Synchronous
    <2>3. Answer(frame, "consume-ok") \in BrokerFrames
          /\ Answer(frame, "consume-ok").ch = ch /\ Answer(frame, "consume-ok").re = frame.id
      BY <2>2, AnswerFacts
    <2>4. PICK n \in 0..MaxDeliveries :
             answer = <<Answer(frame, "consume-ok")>> \o Deliveries(frame.ch, n)
      BY <2>1
    <2>5. n \in Nat
      BY AmqpAssumption
    <2>6. Led(answer, ch) /\ answer # <<>> /\ answer[1] = Answer(frame, "consume-ok")
      BY <1>0, <2>3, <2>4, <2>5, DeliveriesFacts
    <2> QED
      BY <2>2, <2>3, <2>6
  <1>5. CASE frame.m = "get"
    <2>1. Answers(frame) = {<<Answer(frame, "get-empty")>>, Content(Answer(frame, "get-ok"), 1)}
      BY <1>0, <1>5, Zenon DEF Answers
    <2>2. Synchronous(frame) /\ {"get-ok", "get-empty"} \subseteq Expected(frame.m)
      BY <1>0, <1>5, ExpectedFacts DEF Synchronous
    <2>3. \A ok \in {"get-ok", "get-empty"} : Answer(frame, ok) \in BrokerFrames
             /\ Answer(frame, ok).ch = ch /\ Answer(frame, ok).re = frame.id
      BY <2>2, AnswerFacts
    <2>4. CASE answer = <<Answer(frame, "get-empty")>>
      BY <1>0, <2>2, <2>3, <2>4, LedFacts
    <2>5. CASE answer = Content(Answer(frame, "get-ok"), 1)
      <3>1. Led(answer, ch) /\ Len(answer) = 3 /\ answer[1] = Answer(frame, "get-ok")
        BY <1>0, <2>3, <2>5, ContentFacts
      <3>2. answer # <<>>
        BY <3>1 DEF Led
      <3> QED
        BY <2>2, <2>3, <3>1, <3>2
    <2> QED
      BY <2>1, <2>4, <2>5
  <1>6. CASE frame.m \notin {"declare", "bind", "open", "consume", "get"}
    <2>1. ~Synchronous(frame)
      BY <1>6, ExpectedFacts DEF Synchronous
    <2>2. CASE frame.type = "header" /\ frame.size = 0
      <3> DEFINE g == Frame("method", ch, "return", 0)
      <3>1. Answers(frame) = {<<>>, Content(Frame("method", frame.ch, "return", 0), 0)}
        BY <1>0, <1>6, <2>2, Zenon DEF Answers
      <3>2. g \in BrokerFrames /\ g.ch = ch /\ g.re = NoId
        BY <1>0, EventFacts
      <3> HIDE DEF g
      <3>3. CASE answer = Content(g, 0)
        <4>1. Led(answer, ch) /\ answer[1] = g
          BY <1>0, <3>2, <3>3, ContentFacts
        <4>2. \A i \in 1..Len(answer) : answer[i].re = NoId
          BY <3>2, <4>1 DEF Led
        <4> QED
          BY <2>1, <3>2, <4>1, <4>2
      <3> QED
        BY <1>e, <2>1, <3>1, <3>3 DEF g
    <2>3. CASE ~(frame.type = "header" /\ frame.size = 0)
      <3>1. Answers(frame) = {<<>>}
        BY <1>6, <2>3, Zenon DEF Answers
      <3> QED
        BY <1>e, <2>1, <3>1
    <2> QED
      BY <2>2, <2>3
  <1> QED
    BY <1>1, <1>3, <1>4, <1>5, <1>6

-----------------------------------------------------------------------------
(***************************************************************************)
(* The types, and what may be passed on                                    *)
(***************************************************************************)

(* Nothing is held in the first state. *)
LEMMA TypeInit ==
    Init => TypeInv /\ PhaseInv /\ CheckedInv /\ IdentityKept
  <1> SUFFICES ASSUME Init PROVE TypeInv /\ PhaseInv /\ CheckedInv /\ IdentityKept
    OBVIOUS
  <1> USE DEF Init
  <1>1. NoFrame \in Frames
    BY DEF NoFrame, Frame, Frames, Methods, NoId, Ids
  <1>2. relay \in [Directions -> Relays] /\ \A d \in Directions : relay[d].pc = "none"
    BY <1>1 DEF Idle, Relays
  <1>3. "c2s" \in Directions /\ "s2c" \in Directions
    BY DEF Directions
  <1>4. Len(script) \in Nat
    BY ScriptFacts
  <1>5. /\ outbox \in [Chans -> Seq(BrokerFrames)]
        /\ \A ch \in Chans : outbox[ch] = <<>> /\ Len(outbox[ch]) = 0
    BY DEF Chans
  <1>6. TypeInv
    <2>1. broker \in Seq({"header", "login", "tune-ok", "open"}) /\ toBroker \in Seq(Requests)
          /\ fromBroker \in Seq(BrokerFrames)
      OBVIOUS
    <2>2. NoTune \in Tunes /\ passed \in [Directions -> SUBSET Frames]
      BY DEF NoTune, Tunes
    <2>3. phase \in Phases /\ made \in Nat /\ read \in 0..Len(script)
      BY <1>4 DEF Phases, Steps
    <2>4. \A ch \in Chans : \A i \in 1..Len(outbox[ch]) : outbox[ch][i].ch = ch
      BY <1>5
    <2> QED
      BY <1>2, <1>3, <1>5, <2>1, <2>2, <2>3, <2>4 DEF TypeInv
  <1>7. PhaseInv /\ CheckedInv
    BY <1>2, <1>5 DEF PhaseInv, CheckedInv, Steps
  <1>8. Range(broker) = {}
    BY DEF Range
  <1> QED
    BY <1>6, <1>7, <1>8 DEF IdentityKept

(* Every step keeps the types. *)
LEMMA TypeNext ==
    ASSUME TypeInv, [Next]_vars PROVE TypeInv'
  <1>0. /\ script' = script /\ Requests' = Requests /\ BrokerFrames' = BrokerFrames
        /\ "c2s" \in Directions /\ "s2c" \in Directions /\ Len(script) \in Nat
    BY ScriptStays, ScriptFacts DEF Directions, TypeInv
  <1> USE <1>0
  <1> DEFINE Steady == UNCHANGED <<read, toBroker, outbox, fromBroker, made, passed>>
             Roles == {"header", "login", "tune-ok", "open"}
  <1>1. CASE Negotiate
    <2>1. broker' \in Seq(Roles)
      <3> DEFINE R == Roles
      <3>1. broker \in Seq(R) /\ \A r \in R : Append(broker, r) \in Seq(R)
        BY DEF TypeInv
      <3>2. broker' = broker \/ \E r \in R : broker' = Append(broker, r)
        BY <1>1 DEF Negotiate, ClientHeader, Dial, Secure, ServerStart, ClientLogin, ServerTune,
             ClientTune, ClientOpen, ServerOpen, NegotiateFails, negotiation
      <3> QED
        BY <3>1, <3>2
    <2>2. login' \in BOOLEAN /\ vhost' \in BOOLEAN /\ phase' \in Phases
      BY <1>1 DEF TypeInv, Negotiate, ClientHeader, Dial, Secure, ServerStart, ClientLogin,
           ServerTune, ClientTune, ClientOpen, ServerOpen, NegotiateFails, negotiation,
           Phases, Steps
    <2>3. server' \in Tunes /\ client' \in Tunes
      <3>1. /\ \/ server' = server \/ server' \in ServerTunes
               \/ server' = [server EXCEPT !.channelMax = 0]
            /\ \/ client' = client \/ client' \in ClientTunes
               \/ client' = [client EXCEPT !.channelMax = 0]
        BY <1>1 DEF Negotiate, ClientHeader, Dial, Secure, ServerStart, ClientLogin, ServerTune,
             ClientTune, ClientOpen, ServerOpen, NegotiateFails, negotiation
      <3>2. [server EXCEPT !.channelMax = 0] \in Tunes /\ [client EXCEPT !.channelMax = 0] \in Tunes
        BY DEF TypeInv, Tunes
      <3> QED
        BY <3>1, <3>2, AmqpAssumption DEF TypeInv
    <2>4. /\ relay' \in [Directions -> Relays]
          /\ relay' = relay \/ \A d \in Directions : relay'[d].pc = "read"
      <3>1. NoFrame \in Frames
        BY DEF NoFrame, Frame, Frames, Methods, NoId, Ids
      <3>2. relay' = relay \/ relay' = [d \in Directions |-> [Idle EXCEPT !.pc = "read"]]
        BY <1>1 DEF Negotiate, ClientHeader, Dial, Secure, ServerStart, ClientLogin, ServerTune,
             ClientTune, ClientOpen, ServerOpen, NegotiateFails
      <3>3. [Idle EXCEPT !.pc = "read"] \in Relays /\ [Idle EXCEPT !.pc = "read"].pc = "read"
        BY <3>1 DEF Idle, Relays
      <3> QED
        BY <3>2, <3>3 DEF TypeInv
    <2>5. Steady
      BY <1>1 DEF Negotiate, ClientHeader, Dial, Secure, ServerStart, ClientLogin, ServerTune,
           ClientTune, ClientOpen, ServerOpen, NegotiateFails, Unrelated, net
    <2> QED
      BY <2>1, <2>2, <2>3, <2>4, <2>5 DEF TypeInv
  <1>2. ASSUME NEW d \in Directions, Read(d) PROVE TypeInv'
    <2> DEFINE frame == Identified(d, Head(Incoming(d)))
    <2>1. /\ frame \in Frames /\ (d = "c2s" => frame \in Requests /\ read < Len(script))
          /\ (d = "s2c" => frame \in BrokerFrames /\ fromBroker # <<>>)
      BY <1>2, IncomingFacts, RequestFacts DEF Read, TypeInv
    <2>2. /\ relay' = [relay EXCEPT ![d] =
                 [pc |-> "write", frame |-> frame, prepared |-> Prepares(d, frame)]]
          /\ read' = IF d = "c2s" THEN read + 1 ELSE read
          /\ fromBroker' = IF d = "s2c" THEN Tail(fromBroker) ELSE fromBroker
          /\ UNCHANGED <<phase, negotiation, toBroker, outbox, made, passed>>
      BY <1>2 DEF Read, Advance
    <2>3. Prepares(d, frame) \in BOOLEAN
      BY DEF Prepares, Synchronous
    <2> HIDE DEF frame
    <2>4. relay' \in [Directions -> Relays]
      <3> DEFINE b == Prepares(d, frame)
      <3> HIDE DEF b
      <3>1. relay' = [relay EXCEPT ![d] = [pc |-> "write", frame |-> frame, prepared |-> b]]
            /\ b \in BOOLEAN
        BY <2>2, <2>3 DEF b
      <3> QED
        BY <2>1, <3>1 DEF TypeInv, Relays
    <2>5. /\ relay'[d].frame = frame /\ \A e \in Directions \ {d} : relay'[e] = relay[e]
      BY <2>2 DEF TypeInv
    <2>6. fromBroker' \in Seq(BrokerFrames) /\ read' \in 0..Len(script)
      BY <2>1, <2>2, SeqSteps DEF TypeInv, Directions
    <2> QED
      BY <2>1, <2>2, <2>4, <2>5, <2>6 DEF TypeInv, negotiation, Directions
  <1>3. ASSUME NEW d \in Directions,
               ReadOversized(d) \/ ReadBlocked(d) \/ ReadFails(d) \/ WriteFails(d)
        PROVE  TypeInv'
    <2>1. /\ relay' = [relay EXCEPT ![d].pc = "end"]
          /\ UNCHANGED <<phase, negotiation, toBroker, outbox, made, passed>>
          /\ \/ UNCHANGED <<read, fromBroker>>
             \/ d = "c2s" /\ Incoming(d) # <<>> /\ Advance(d)
      BY <1>3 DEF ReadOversized, ReadBlocked, ReadFails, WriteFails, Report, Blocked, net
    <2>2. /\ relay' \in [Directions -> Relays] /\ relay'[d].pc = "end"
          /\ \A e \in Directions \ {d} : relay'[e] = relay[e]
      BY <2>1 DEF TypeInv, Relays
    <2>3. read' \in 0..Len(script) /\ fromBroker' = fromBroker
      BY <2>1, IncomingFacts DEF TypeInv, Advance
    <2> QED
      BY <2>1, <2>2, <2>3 DEF TypeInv, negotiation, Directions
  <1>4. ASSUME NEW d \in Directions, Write(d) PROVE TypeInv'
    <2>1. /\ relay[d].pc = "write" /\ relay[d].frame \in Frames
          /\ (d = "c2s" => relay[d].frame \in Requests)
      BY <1>4 DEF Write, TypeInv, Relays
    <2>2. PICK pc \in {"read", "observe"} : relay' = [relay EXCEPT ![d].pc = pc]
      BY <1>4 DEF Write
    <2>3. /\ relay' \in [Directions -> Relays] /\ relay'[d].frame = relay[d].frame
          /\ \A e \in Directions \ {d} : relay'[e] = relay[e]
      BY <2>2 DEF TypeInv, Relays
    <2>4. toBroker' \in Seq(Requests)
      BY <1>4, <2>1, SeqSteps DEF Write, TypeInv
    <2>5. passed' \in [Directions -> SUBSET Frames]
      BY <1>4, <2>1 DEF Write, TypeInv
    <2>6. UNCHANGED <<phase, negotiation, read, outbox, fromBroker, made>>
      BY <1>4 DEF Write
    <2> QED
      BY <2>1, <2>3, <2>4, <2>5, <2>6 DEF TypeInv, negotiation, Directions
  <1>5. ASSUME NEW d \in Directions, Observe(d) PROVE TypeInv'
    <2>1. /\ relay' = [relay EXCEPT ![d].pc = "read"]
          /\ UNCHANGED <<phase, negotiation, read, net, passed>>
      BY <1>5 DEF Observe
    <2>2. /\ relay' \in [Directions -> Relays] /\ relay'[d].pc = "read"
          /\ \A e \in Directions \ {d} : relay'[e] = relay[e]
      BY <2>1 DEF TypeInv, Relays
    <2> QED
      BY <2>1, <2>2 DEF TypeInv, negotiation, net, Directions
  <1>6. CASE End
    <2>1. outbox' \in [Chans -> Seq(BrokerFrames)] /\ \A ch \in Chans : outbox'[ch] = <<>>
      BY <1>6 DEF End, TypeInv
    <2>2. toBroker' \in Seq(Requests) /\ fromBroker' \in Seq(BrokerFrames)
      BY <1>6 DEF End
    <2>3. /\ phase' = "wait" /\ UNCHANGED <<negotiation, read, relay, made, passed>>
      BY <1>6 DEF End
    <2> QED
      BY <2>1, <2>2, <2>3 DEF TypeInv, Phases, negotiation
  <1>7. CASE FailPending \/ Cancel
    <2>1. /\ phase' \in {phase, "closed"}
          /\ UNCHANGED <<negotiation, read, relay, net, passed>>
      BY <1>7 DEF FailPending, Cancel
    <2> QED
      BY <2>1 DEF TypeInv, Phases, negotiation, net
  <1>8. CASE BrokerTakes
    <2> DEFINE frame == Head(toBroker)
    <2>1. frame \in Requests /\ toBroker' \in Seq(Requests)
      BY <1>8, SeqSteps DEF BrokerTakes, TypeInv
    <2>2. /\ outbox' = outbox \/ \E answer \in Answers(frame) :
                 outbox' = [outbox EXCEPT ![frame.ch] = @ \o answer]
          /\ UNCHANGED <<phase, negotiation, read, relay, fromBroker, made, passed>>
      BY <1>8 DEF BrokerTakes
    <2> HIDE DEF frame
    <2>3. frame.ch \in Chans
      BY <2>1, RequestNumber DEF TypeInv
    <2>4. /\ outbox' \in [Chans -> Seq(BrokerFrames)]
          /\ \A ch \in Chans : \A i \in 1..Len(outbox'[ch]) : outbox'[ch][i].ch = ch
      <3>1. CASE outbox' = outbox
        BY <3>1 DEF TypeInv
      <3>2. ASSUME NEW answer \in Answers(frame),
                   outbox' = [outbox EXCEPT ![frame.ch] = @ \o answer]
            PROVE  <2>4
        <4>1. /\ answer \in Seq(BrokerFrames) /\ Len(answer) \in Nat
              /\ \A i \in 1..Len(answer) : answer[i].ch = frame.ch
          BY <2>1, AnswersFacts DEF Led, TypeInv
        <4> DEFINE o == outbox[frame.ch]
                   t == o \o answer
        <4>2. o \in Seq(BrokerFrames) /\ Len(o) \in Nat
              /\ \A i \in 1..Len(o) : o[i].ch = frame.ch
          BY <2>3 DEF TypeInv
        <4> HIDE DEF o
        <4>3. /\ t \in Seq(BrokerFrames) /\ Len(t) = Len(o) + Len(answer)
              /\ \A i \in 1..Len(o) : t[i] = o[i]
              /\ \A i \in (Len(o) + 1)..(Len(o) + Len(answer)) : t[i] = answer[i - Len(o)]
          BY <4>1, <4>2, ConcatFacts, Zenon
        <4>4. \A i \in 1..Len(t) : t[i].ch = frame.ch
          <5> SUFFICES ASSUME NEW i \in 1..Len(t) PROVE t[i].ch = frame.ch
            OBVIOUS
          <5>1. CASE i \in 1..Len(o)
            BY <4>2, <4>3, <5>1
          <5>2. CASE i \in (Len(o) + 1)..(Len(o) + Len(answer)) /\ i - Len(o) \in 1..Len(answer)
            BY <4>1, <4>3, <5>2
          <5> QED
            BY <4>1, <4>2, <4>3, <5>1, <5>2
        <4> HIDE DEF t
        <4>5. outbox' = [outbox EXCEPT ![frame.ch] = t]
          BY <3>2 DEF t, o
        <4> QED
          BY <2>3, <4>3, <4>4, <4>5 DEF TypeInv
      <3> QED
        BY <2>2, <3>1, <3>2
    <2> QED
      BY <2>1, <2>2, <2>4 DEF TypeInv, negotiation
  <1>9. CASE BrokerSends
    <2>1. PICK ch \in Channels :
             /\ outbox[ch] # <<>> /\ made' = made + 1
             /\ fromBroker' = Append(fromBroker,
                                     [Head(outbox[ch]) EXCEPT !.id = <<"s2c", made'>>])
             /\ outbox' = [outbox EXCEPT ![ch] = Tail(@)]
             /\ UNCHANGED <<phase, negotiation, read, relay, toBroker, passed>>
      BY <1>9 DEF BrokerSends
    <2> DEFINE o == outbox[ch]
               f == [Head(o) EXCEPT !.id = <<"s2c", made + 1>>]
    <2>2. ch \in Chans /\ o \in Seq(BrokerFrames)
      BY DEF Chans, TypeInv
    <2>3. /\ Head(o) \in BrokerFrames /\ Head(o) = o[1] /\ Tail(o) \in Seq(BrokerFrames)
          /\ Len(Tail(o)) = Len(o) - 1 /\ Len(o) \in Nat
          /\ \A i \in 1..(Len(o) - 1) : Tail(o)[i] = o[i + 1]
      BY <2>1, <2>2, SeqSteps
    <2>4. f \in BrokerFrames
      <3>1. <<"s2c", made + 1>> \in Ids
        BY DEF TypeInv, Ids
      <3> QED
        BY <2>3, <3>1 DEF BrokerFrames, Frames, AnswersTo
    <2>5. fromBroker' \in Seq(BrokerFrames)
      BY <2>1, <2>4, SeqSteps DEF TypeInv
    <2>6. outbox' = [outbox EXCEPT ![ch] = Tail(o)]
      BY <2>1
    <2>7. \A i \in 1..Len(Tail(o)) : Tail(o)[i].ch = ch
      BY <2>2, <2>3 DEF TypeInv
    <2> HIDE DEF o, f
    <2>8. /\ outbox' \in [Chans -> Seq(BrokerFrames)]
          /\ \A c \in Chans : \A i \in 1..Len(outbox'[c]) : outbox'[c][i].ch = c
      BY <2>2, <2>3, <2>6, <2>7 DEF TypeInv
    <2> QED
      BY <2>1, <2>5, <2>8 DEF TypeInv, negotiation
  <1>10. CASE UNCHANGED vars
    BY <1>10 DEF vars, TypeInv, negotiation, net
  <1> QED
    BY <1>1, <1>2, <1>3, <1>4, <1>5, <1>6, <1>7, <1>8, <1>9, <1>10 DEF Next, Relay

(* A relay ends: nothing is held by it any more. *)
LEMMA EndFacts ==
    ASSUME TypeInv, NEW d \in Directions,
           ReadOversized(d) \/ ReadBlocked(d) \/ ReadFails(d) \/ WriteFails(d)
    PROVE  /\ relay[d].pc \in {"read", "write"}
           /\ relay' = [relay EXCEPT ![d].pc = "end"] /\ relay'[d].pc = "end"
           /\ relay'[d].frame = relay[d].frame
           /\ \A e \in Directions \ {d} : relay'[e] = relay[e]
           /\ UNCHANGED <<phase, negotiation, pending, content, toBroker, outbox, made, shut,
                          fromBroker, passed>>
           /\ read' = read \/ (d = "c2s" /\ relay[d].pc = "read" /\ read' = read + 1)
           /\ \/ records' = records
              \/ \E f : f.re = NoId /\ records' = records (+) SetToBag({MethodRecord(f, TRUE)})
  <1>1. /\ relay[d].pc \in {"read", "write"}
        /\ relay' = [relay EXCEPT ![d].pc = "end"]
        /\ UNCHANGED <<phase, negotiation, pending, content, toBroker, outbox, made, shut, passed>>
        /\ \/ UNCHANGED <<read, fromBroker>>
           \/ d = "c2s" /\ relay[d].pc = "read" /\ Advance(d)
        /\ \/ records' = records
           \/ \E f : f.re = NoId /\ records' = records (+) SetToBag({MethodRecord(f, TRUE)})
    <2>1. CASE ReadBlocked(d)
      <3>f. PICK f : f = Identified(d, Head(Incoming(d)))
        OBVIOUS
      <3>1. d = "c2s" /\ Incoming(d) # <<>>
        BY <2>1 DEF ReadBlocked, Blocked
      <3>2. f.re = NoId
        BY <3>f, <3>1, IncomingFacts, RequestFacts DEF TypeInv
      <3> QED
        BY <2>1, <3>f, <3>1, <3>2 DEF ReadBlocked, Report, Add
    <2>2. CASE ReadOversized(d) \/ ReadFails(d) \/ WriteFails(d)
      BY <2>2 DEF ReadOversized, ReadFails, WriteFails, Report, net, inspector
    <2> QED
      BY <2>1, <2>2
  <1>2. /\ relay'[d].pc = "end" /\ relay'[d].frame = relay[d].frame
        /\ \A e \in Directions \ {d} : relay'[e] = relay[e]
    BY <1>1 DEF TypeInv, Relays
  <1> QED
    BY <1>1, <1>2 DEF Advance

(* A step of negotiate leaves the relays and the network alone; only the   *)
(* last one starts the relays.                                             *)
LEMMA NegotiateFacts ==
    ASSUME TypeInv, Negotiate
    PROVE  /\ phase \in Steps /\ UNCHANGED Unrelated
           /\ \/ relay' = relay /\ phase' # "relay"
              \/ /\ phase = "open-ok" /\ phase' = "relay"
                 /\ \A d \in Directions : relay'[d].pc = "read"
  BY DEF Negotiate, ClientHeader, Dial, Secure, ServerStart, ClientLogin, ServerTune, ClientTune,
       ClientOpen, ServerOpen, NegotiateFails, Steps, Idle

(* A relay holds the frame that it read. *)
LEMMA ReadFacts ==
    ASSUME TypeInv, NEW d \in Directions, Read(d)
    PROVE  LET frame == Identified(d, Head(Incoming(d)))
           IN  /\ frame \in Frames /\ phase \notin {"wait", "fail", "closed"}
               /\ relay[d].pc = "read" /\ relay'[d].pc = "write" /\ relay'[d].frame = frame
               /\ relay'[d].prepared = Prepares(d, frame)
               /\ \A e \in Directions \ {d} : relay'[e] = relay[e]
               /\ d = "c2s" => /\ frame = Request(read + 1) /\ read < Len(script)
                               /\ read' = read + 1 /\ fromBroker' = fromBroker
               /\ d = "s2c" => /\ frame = Head(fromBroker) /\ frame \in BrokerFrames
                               /\ fromBroker # <<>> /\ fromBroker' = Tail(fromBroker)
                               /\ read' = read
               /\ frame.m \notin Credentials /\ Weight(frame) <= Limit
               /\ pending' = IF Prepares(d, frame)
                             THEN [pending EXCEPT ![frame.ch] = Append(@, frame)] ELSE pending
               /\ UNCHANGED <<phase, negotiation, content, records, toBroker, outbox, shut,
                              made, passed>>
  <1> DEFINE frame == Identified(d, Head(Incoming(d)))
  <1>1. /\ frame \in Frames
        /\ d = "c2s" => frame = Request(read + 1) /\ read < Len(script)
        /\ d = "s2c" => /\ frame = Head(fromBroker) /\ frame \in BrokerFrames
                        /\ fromBroker # <<>>
    BY IncomingFacts DEF Read
  <1>2. /\ relay[d].pc = "read" /\ phase \notin {"wait", "fail", "closed"}
        /\ relay' = [relay EXCEPT ![d] =
                 [pc |-> "write", frame |-> frame, prepared |-> Prepares(d, frame)]]
        /\ read' = IF d = "c2s" THEN read + 1 ELSE read
        /\ fromBroker' = IF d = "s2c" THEN Tail(fromBroker) ELSE fromBroker
        /\ Weight(frame) <= Limit /\ ~Blocked(d, frame)
        /\ pending' = IF Prepares(d, frame)
                      THEN [pending EXCEPT ![frame.ch] = Append(@, frame)] ELSE pending
        /\ UNCHANGED <<phase, negotiation, content, records, toBroker, outbox, shut, made, passed>>
    BY DEF Read, Advance, Closed
  <1>3. frame.m \notin Credentials
    BY <1>1, <1>2 DEF Blocked, BrokerFrames, Directions
  <1> HIDE DEF frame
  <1>4. /\ relay'[d].pc = "write" /\ relay'[d].frame = frame
        /\ relay'[d].prepared = Prepares(d, frame)
        /\ \A e \in Directions \ {d} : relay'[e] = relay[e]
    BY <1>2 DEF TypeInv
  <1> QED
    BY <1>1, <1>2, <1>3, <1>4 DEF frame, Directions

(* A relay writes the frame that it holds. *)
LEMMA WriteFacts ==
    ASSUME TypeInv, NEW d \in Directions, Write(d)
    PROVE  /\ relay[d].pc = "write" /\ phase \notin {"wait", "fail", "closed"}
           /\ relay'[d].pc = (IF relay[d].prepared THEN "read" ELSE "observe")
           /\ relay'[d].frame = relay[d].frame
           /\ \A e \in Directions \ {d} : relay'[e] = relay[e]
           /\ toBroker' = IF d = "c2s" THEN Append(toBroker, relay[d].frame) ELSE toBroker
           /\ passed' = [passed EXCEPT ![d] = @ \cup {relay[d].frame}]
           /\ UNCHANGED <<phase, negotiation, read, inspector, outbox, fromBroker, shut, made>>
  BY DEF Write, Closed, TypeInv, Relays

(* A relay tells the inspector of the frame that it wrote. *)
LEMMA ObserveFacts ==
    ASSUME TypeInv, NEW d \in Directions, Observe(d)
    PROVE  /\ relay[d].pc = "observe" /\ relay'[d].pc = "read"
           /\ \A e \in Directions \ {d} : relay'[e] = relay[e]
           /\ UNCHANGED <<phase, negotiation, read, net, passed>>
  BY DEF Observe, TypeInv, Relays

(* Nothing is on its way before the relays start and after they are told to end. *)
LEMMA PhaseNext ==
    ASSUME TypeInv, PhaseInv, [Next]_vars PROVE PhaseInv'
  <1>0. "c2s" \in Directions /\ "s2c" \in Directions /\ DOMAIN outbox = Chans
    BY DEF Directions, TypeInv
  <1> USE <1>0
  <1>1. CASE Negotiate
    BY <1>1, NegotiateFacts DEF PhaseInv, Unrelated, net, Steps
  <1>2. ASSUME NEW d \in Directions, Read(d) PROVE PhaseInv'
    <2>1. phase = "relay"
      BY <1>2, ReadFacts DEF PhaseInv, TypeInv, Phases
    <2> QED
      BY <1>2, <2>1, ReadFacts DEF PhaseInv, Steps
  <1>3. ASSUME NEW d \in Directions,
               ReadOversized(d) \/ ReadBlocked(d) \/ ReadFails(d) \/ WriteFails(d)
        PROVE  PhaseInv'
    <2>1. /\ relay[d].pc \in {"read", "write"} /\ relay'[d].pc = "end"
          /\ \A e \in Directions \ {d} : relay'[e] = relay[e]
          /\ UNCHANGED <<phase, toBroker, outbox, fromBroker, passed>>
      BY <1>3, EndFacts, Zenon
    <2>2. phase \notin Steps \cup {"closed"}
      BY <2>1 DEF PhaseInv
    <2> QED
      BY <2>1, <2>2 DEF PhaseInv
  <1>4. ASSUME NEW d \in Directions, Write(d) PROVE PhaseInv'
    <2>1. phase = "relay"
      BY <1>4, WriteFacts DEF PhaseInv, TypeInv, Phases
    <2> QED
      BY <1>4, <2>1, WriteFacts DEF PhaseInv, Steps
  <1>5. ASSUME NEW d \in Directions, Observe(d) PROVE PhaseInv'
    <2>1. phase \notin Steps \cup {"closed"}
      BY <1>5, ObserveFacts DEF PhaseInv
    <2> QED
      BY <1>5, <2>1, ObserveFacts DEF PhaseInv, net
  <1>6. CASE End
    BY <1>6 DEF End, PhaseInv, Steps
  <1>7. CASE FailPending
    BY <1>7 DEF FailPending, PhaseInv, Steps, Waited, net
  <1>8. CASE Cancel
    BY <1>8 DEF Cancel, PhaseInv, net
  <1>9. CASE BrokerTakes
    <2>1. phase = "relay" /\ UNCHANGED <<phase, relay, passed>>
      BY <1>9 DEF BrokerTakes, PhaseInv
    <2> QED
      BY <2>1 DEF PhaseInv, Steps
  <1>10. CASE BrokerSends
    <2>1. phase = "relay" /\ UNCHANGED <<phase, relay, passed>>
      BY <1>10 DEF BrokerSends, PhaseInv, Chans
    <2> QED
      BY <2>1 DEF PhaseInv, Steps
  <1>11. CASE UNCHANGED vars
    BY <1>11 DEF vars, PhaseInv, net
  <1> QED
    BY <1>1, <1>2, <1>3, <1>4, <1>5, <1>6, <1>7, <1>8, <1>9, <1>10, <1>11 DEF Next, Relay

(* A frame within readFrame's limit is within both of the limits. *)
LEMMA LimitFacts ==
    ASSUME TypeInv, NEW f \in Frames, Weight(f) <= Limit, f.m \notin Credentials
    PROVE  Allowed(f)
  <1>1. client.frameMax \in Nat
    BY DEF TypeInv, Tunes
  <1>2. Weight(f) \in Nat /\ Weight(f) # 0
    BY DEF Weight, Frames
  <1> QED
    BY <1>1, <1>2, AmqpAssumption DEF Allowed, Below, Limit

(* A frame within the client's limit is within the broker's. *)
LEMMA BothLimits ==
    ASSUME TypeInv, NEW f, Below(Weight(f), client.frameMax),
           Weight(f) \in Nat, Below(client.frameMax, server.frameMax)
    PROVE  Below(Weight(f), server.frameMax)
  <1>1. client.frameMax \in Nat /\ server.frameMax \in Nat
    BY DEF TypeInv, Tunes
  <1> QED
    BY <1>1 DEF Below

(* Every step of negotiate that goes on has checked what it needs. *)
LEMMA AgreedNext ==
    ASSUME TypeInv, PhaseInv, AgreedInv, [Next]_vars
    PROVE  AgreedInv'
  <1>1. CASE Negotiate
    <2>1. ASSUME ClientTune PROVE Below(client'.frameMax, server'.frameMax)
      <3>1. ValidTune(server, client') /\ server' = server
        BY <2>1 DEF ClientTune
      <3>2. server.frameMax \in Nat
        BY DEF TypeInv, Tunes
      <3> QED
        BY <3>1, <3>2 DEF ValidTune, Below
    <2>2. ASSUME ServerOpen
          PROVE  client'.frameMax = client.frameMax /\ server'.frameMax = server.frameMax
      BY <2>2 DEF ServerOpen, TypeInv, Tunes
    <2>3. CASE ClientTune
      BY <2>1, <2>3 DEF ClientTune, AgreedInv
    <2>4. CASE ServerOpen
      BY <2>2, <2>4 DEF ServerOpen, AgreedInv, Below
    <2>5. CASE ~ClientTune /\ ~ServerOpen
      BY <1>1, <2>5 DEF Negotiate, ClientHeader, Dial, Secure, ServerStart, ClientLogin,
           ServerTune, ClientOpen, NegotiateFails, negotiation, Accepts, SameVHost,
           AgreedInv, Below
    <2> QED
      BY <2>3, <2>4, <2>5
  <1>2. CASE ~Negotiate
    <2>1. /\ UNCHANGED negotiation
          /\ phase' = phase \/ (phase = "relay" /\ phase' = "wait") \/ phase' = "closed"
      BY <1>2 DEF Next, Relay, Read, ReadOversized, ReadBlocked, ReadFails, Write,
           WriteFails, Observe, End, FailPending, Cancel, BrokerTakes, BrokerSends, vars
    <2> QED
      BY <2>1 DEF AgreedInv, Below, negotiation
  <1> QED
    BY <1>1, <1>2

(* What is written was checked, and what was passed on was written. *)
LEMMA IdentityNext ==
    ASSUME TypeInv, PhaseInv, CheckedInv, AgreedInv, IdentityKept, [Next]_vars
    PROVE  CheckedInv' /\ IdentityKept'
  <1>0. "c2s" \in Directions /\ "s2c" \in Directions /\ TypeInv'
    BY TypeNext DEF Directions
  <1> USE <1>0
  <1> DEFINE Fits(f) == /\ f.m \notin Credentials
                        /\ Below(Weight(f), server.frameMax) /\ Weight(f) <= HardFrameMax
             Passed == \A d \in Directions : \A f \in passed[d] : Fits(f)
             LoggedIn == "login" \in Range(broker) => login
             Opened == "open" \in Range(broker) => login /\ vhost
             Served == (\E d \in Directions : passed[d] # {}) => login /\ vhost
  <1>i. IdentityKept <=> LoggedIn /\ Opened /\ Served /\ Passed
    BY DEF IdentityKept
  <1>j. IdentityKept' <=> LoggedIn' /\ Opened' /\ Served' /\ Passed'
    BY DEF IdentityKept
  <1>k. ASSUME UNCHANGED <<negotiation, passed>> PROVE IdentityKept'
    BY <1>k DEF IdentityKept, negotiation, Below, Weight
  <1>1. CASE Negotiate
    <2>1. phase \in Steps /\ passed' = passed /\ passed = [d \in Directions |-> {}]
          /\ \A d \in Directions : relay'[d].pc # "write"
      BY <1>1, NegotiateFacts DEF PhaseInv, Unrelated, TypeInv
    <2>2. CheckedInv' /\ Passed' /\ Served'
      BY <2>1 DEF CheckedInv
    <2>3. LoggedIn' /\ Opened'
      <3> DEFINE R == {"header", "login", "tune-ok", "open"}
      <3>1. broker \in Seq(R)
        BY DEF TypeInv
      <3>2. \A r \in R :
               /\ "login" \in Range(Append(broker, r)) => r = "login" \/ "login" \in Range(broker)
               /\ "open" \in Range(Append(broker, r)) => r = "open" \/ "open" \in Range(broker)
        BY <3>1, SeqSteps DEF Range
      <3>3. /\ \/ broker' = broker
               \/ \E r \in {"header", "tune-ok"} : broker' = Append(broker, r)
               \/ broker' = Append(broker, "login") /\ login'
               \/ broker' = Append(broker, "open") /\ login /\ vhost'
            /\ login => login'
            /\ vhost => vhost'
        BY <1>1 DEF Negotiate, ClientHeader, Dial, Secure, ServerStart, ClientLogin, ServerTune,
             ClientTune, ClientOpen, ServerOpen, NegotiateFails, negotiation, Accepts,
             SameVHost, AgreedInv
      <3> QED
        BY <1>i, <3>2, <3>3
    <2> QED
      BY <1>j, <2>2, <2>3
  <1>2. ASSUME NEW d \in Directions, Read(d) PROVE CheckedInv' /\ IdentityKept'
    <2>1. /\ relay'[d].frame \in Frames /\ relay'[d].frame.m \notin Credentials
          /\ Weight(relay'[d].frame) <= Limit
          /\ \A e \in Directions \ {d} : relay'[e] = relay[e]
          /\ UNCHANGED <<phase, negotiation, passed>>
      BY <1>2, ReadFacts
    <2>2. Allowed(relay'[d].frame)
      BY <2>1, LimitFacts
    <2>4. CheckedInv'
      <3> SUFFICES ASSUME NEW e \in Directions, relay'[e].pc = "write"
                   PROVE  Allowed(relay[e].frame)'
        BY DEF CheckedInv
      <3>1. Allowed(relay'[e].frame)
        BY <2>1, <2>2 DEF CheckedInv
      <3> QED
        BY <2>1, <3>1 DEF negotiation, Allowed, Below, Weight
    <2> QED
      BY <1>k, <2>1, <2>4
  <1>3. ASSUME NEW d \in Directions,
               ReadOversized(d) \/ ReadBlocked(d) \/ ReadFails(d) \/ WriteFails(d)
        PROVE  CheckedInv' /\ IdentityKept'
    <2>1. /\ relay'[d].pc = "end" /\ \A e \in Directions \ {d} : relay'[e] = relay[e]
          /\ UNCHANGED <<phase, negotiation, passed>>
      BY <1>3, EndFacts
    <2>2. CheckedInv'
      BY <2>1 DEF negotiation, CheckedInv, Allowed, Below, Weight
    <2> QED
      BY <1>k, <2>1, <2>2
  <1>4. ASSUME NEW d \in Directions, Write(d) PROVE CheckedInv' /\ IdentityKept'
    <2>1. /\ relay[d].pc = "write" /\ relay'[d].pc # "write"
          /\ \A e \in Directions \ {d} : relay'[e] = relay[e]
          /\ passed' = [passed EXCEPT ![d] = @ \cup {relay[d].frame}]
          /\ UNCHANGED <<phase, negotiation>>
      BY <1>4, WriteFacts
    <2>2. CheckedInv'
      BY <2>1 DEF negotiation, CheckedInv, Allowed, Below, Weight
    <2>3. phase = "relay"
      <3>1. phase \notin {"wait", "fail", "closed"}
        BY <1>4 DEF Write, Closed
      <3>2. phase \notin Steps
        BY <2>1 DEF PhaseInv
      <3> QED
        BY <3>1, <3>2 DEF TypeInv, Phases
    <2>4. Allowed(relay[d].frame) /\ Weight(relay[d].frame) \in Nat
      <3>1. relay[d].frame \in Frames
        BY DEF TypeInv, Relays
      <3> QED
        BY <2>1, <3>1 DEF CheckedInv, Weight, Frames
    <2>5. Fits(relay[d].frame) /\ login /\ vhost
      BY <2>3, <2>4, BothLimits DEF Allowed, AgreedInv
    <2>6. \A f : Fits(f) => Fits(f)'
      BY <2>1 DEF negotiation, Below, Weight
    <2>7. Passed'
      BY <1>i, <2>1, <2>5, <2>6 DEF TypeInv
    <2>8. LoggedIn' /\ Opened' /\ Served'
      BY <1>i, <2>1, <2>5 DEF negotiation
    <2> QED
      BY <1>j, <2>2, <2>7, <2>8
  <1>5. ASSUME NEW d \in Directions, Observe(d) PROVE CheckedInv' /\ IdentityKept'
    <2>1. /\ relay'[d].pc = "read" /\ \A e \in Directions \ {d} : relay'[e] = relay[e]
          /\ UNCHANGED <<phase, negotiation, passed>>
      BY <1>5, ObserveFacts
    <2>2. CheckedInv'
      BY <2>1 DEF negotiation, CheckedInv, Allowed, Below, Weight
    <2> QED
      BY <1>k, <2>1, <2>2
  <1>6. CASE End \/ FailPending \/ Cancel \/ BrokerTakes \/ BrokerSends \/ UNCHANGED vars
    <2>1. /\ phase' \in {phase, "wait", "closed"} /\ UNCHANGED <<relay, negotiation, passed>>
      BY <1>6 DEF End, FailPending, Cancel, BrokerTakes, BrokerSends, vars
    <2>2. CheckedInv'
      BY <2>1 DEF negotiation, CheckedInv, Allowed, Below, Weight
    <2> QED
      BY <1>k, <2>1, <2>2
  <1> QED
    BY <1>1, <1>2, <1>3, <1>4, <1>5, <1>6 DEF Next, Relay

(***************************************************************************)
(* negotiate and relayAMQP: the broker is logged in to only for a client   *)
(* that knew the listener's credentials, and its virtual host opened and   *)
(* frames passed on only for one that also named the listener's; no frame  *)
(* of the client replaces the identity, and every frame that is passed on  *)
(* is within what the broker announced.                                    *)
(***************************************************************************)
THEOREM BrokerKnowsOnlyTheAdapter == Spec => []IdentityKept
  <1> DEFINE IInv == TypeInv /\ PhaseInv /\ CheckedInv /\ AgreedInv /\ IdentityKept
  <1>1. Init => IInv
    BY TypeInit DEF Init, AgreedInv
  <1>2. IInv /\ [Next]_vars => IInv'
    BY TypeNext, PhaseNext, AgreedNext, IdentityNext
  <1> QED
    BY <1>1, <1>2, PTL DEF Spec

-----------------------------------------------------------------------------
(***************************************************************************)
(* Answers and their requests                                              *)
(***************************************************************************)

(* A bag to which a set is added has the elements of both. *)
LEMMA AddedFacts ==
    ASSUME NEW b, NEW S PROVE DOMAIN (b (+) SetToBag(S)) = DOMAIN b \cup S
  BY DEF (+), SetToBag

(* Taking the first element of a queue leaves its tail. *)
LEMMA RemoveFirstFacts ==
    ASSUME NEW S, NEW s \in Seq(S), s # <<>>
    PROVE  RemoveAt(s, 1) = Tail(s)
  <1> DEFINE a == SubSeq(s, 1, 1 - 1)
             b == SubSeq(s, 1 + 1, Len(s))
  <1>1. a = <<>> /\ b = Tail(s) /\ b \in Seq(S)
    OBVIOUS
  <1>2. RemoveAt(s, 1) = a \o b
    BY DEF RemoveAt
  <1> HIDE DEF a, b
  <1> QED
    BY <1>1, <1>2

(* takePending takes the first request that waits for the method. *)
LEMMA MatchFirst ==
    ASSUME NEW frame, NEW S, pending[frame.ch] \in Seq(S), pending[frame.ch] # <<>>,
           frame.m \in Expected(pending[frame.ch][1].m)
    PROVE  Match(frame) = 1
  <1> DEFINE q == pending[frame.ch]
             I == {i \in 1..Len(q) : frame.m \in Expected(q[i].m)}
  <1>1. Match(frame) = IF I # {} THEN Min(I) ELSE 0
    BY DEF Match, SelectInSeq
  <1>2. 1 \in I /\ \A i \in I : i \in Nat /\ 1 <= i
    OBVIOUS
  <1> HIDE DEF I
  <1>3. Min(I) = 1
    BY <1>2 DEF Min
  <1> QED
    BY <1>1, <1>2, <1>3

(* It takes none when none waits for it. *)
LEMMA MatchNone ==
    ASSUME NEW frame, \A m : frame.m \notin Expected(m)
    PROVE  Match(frame) = 0
  <1> DEFINE q == pending[frame.ch]
             I == {i \in 1..Len(q) : frame.m \in Expected(q[i].m)}
  <1>1. Match(frame) = IF I # {} THEN Min(I) ELSE 0
    BY DEF Match, SelectInSeq
  <1>2. I = {}
    OBVIOUS
  <1> QED
    BY <1>1, <1>2

(* What the inspector does with a frame, if an answer finds its request.   *)
LEMMA ObservedFacts ==
    ASSUME PlacesInv, ContentInv, Paired,
           NEW d \in Directions, NEW frame \in Frames, Observed(d, frame),
           d = "c2s" => frame.re = NoId,
           d = "s2c" /\ frame.re = NoId => Match(frame) = 0,
           d = "s2c" /\ frame.re # NoId =>
               /\ Match(frame) = 1 /\ pending[frame.ch][1].id = frame.re
               /\ frame.type = "method" /\ frame.m \in Responses
    PROVE  /\ content' \in [Directions \X Chans -> States] /\ ContentInv' /\ Paired'
           /\ pending' = IF d = "s2c" /\ frame.re # NoId THEN Taken(frame) ELSE pending
  <1> DEFINE key == <<d, frame.ch>>
             K == Directions \X Chans
  <1>1. /\ key \in K /\ content \in [K -> States] /\ content[key] \in States
        /\ NoId \in Ids /\ frame.id \in Ids /\ frame.re \in Ids /\ frame.m \in Methods
        /\ frame.size \in Int
    BY DEF PlacesInv, Frames, Chans, NoId, Ids
  <1>2. NoContent \in States /\ NoContent.re = NoContent.req
    BY <1>1 DEF NoContent, States, Methods
  <1>3. \A s, f : content[key].re = content[key].req /\ MethodRecord(f, TRUE).re = f.re
           /\ MethodRecord(f, TRUE).req = NoId /\ MethodRecord(f, FALSE).re = f.re
           /\ MethodRecord(f, FALSE).req = NoId
           /\ ContentRecord(s, TRUE).re = s.re /\ ContentRecord(s, TRUE).req = s.req
           /\ ContentRecord(s, FALSE).re = s.re /\ ContentRecord(s, FALSE).req = s.req
    BY <1>1 DEF ContentInv, MethodRecord, ContentRecord, Record
  <1>4. ASSUME NEW r, records' = records (+) SetToBag({r}), r.re = r.req PROVE Paired'
    <2>1. DOMAIN records' = DOMAIN records \cup {r}
      BY <1>4, AddedFacts
    <2> QED
      BY <1>4, <2>1 DEF Paired
  <1>5. ASSUME records' = records PROVE Paired'
    BY <1>5 DEF Paired
  <1>6. ASSUME NEW s \in States, s.re = s.req, content' = [content EXCEPT ![key] = s]
        PROVE  content' \in [K -> States] /\ ContentInv'
    BY <1>1, <1>6 DEF ContentInv
  <1>7. ASSUME content' = content PROVE content' \in [K -> States] /\ ContentInv'
    BY <1>1, <1>7 DEF ContentInv
  <1> HIDE DEF K
  <1>8. CASE frame.type = "beat" /\ UNCHANGED inspector
    BY <1>5, <1>7, <1>8 DEF inspector, K
  <1>9. CASE frame.type = "method" /\ frame.m \in Contents /\ ObserveContent(d, frame)
    <2> DEFINE answers == d = "s2c" /\ frame.m = "get-ok" /\ Match(frame) # 0
               request == pending[frame.ch][Match(frame)]
               s == [frames   |-> {frame.id} \cup (IF answers THEN {request.id} ELSE {}),
                     req      |-> IF answers THEN request.id ELSE NoId,
                     re |-> frame.re, m |-> frame.m, size |-> 0, received |-> 0]
    <2>1. /\ content' = [content EXCEPT ![key] = s]
          /\ pending' = IF answers THEN Taken(frame) ELSE pending
          /\ \/ records' = records (+) SetToBag({ContentRecord(content[key], TRUE)})
             \/ records' = records
      BY <1>9 DEF ObserveContent, Add
    <2>2. answers <=> d = "s2c" /\ frame.re # NoId
      BY <1>9 DEF Contents, Responses, Directions
    <2>3. answers => request.id = frame.re
      BY <2>2
    <2>4. ~answers => frame.re = NoId
      BY <2>2 DEF Directions
    <2>5. s \in States /\ s.re = s.req
      <3>1. CASE answers
        <4>1. s = [frames |-> {frame.id} \cup {frame.re}, req |-> frame.re,
                   re |-> frame.re, m |-> frame.m, size |-> 0, received |-> 0]
          BY <2>3, <3>1
        <4> QED
          BY <1>1, <4>1 DEF States
      <3>2. CASE ~answers
        <4>1. s = [frames |-> {frame.id} \cup {}, req |-> NoId,
                   re |-> NoId, m |-> frame.m, size |-> 0, received |-> 0]
          BY <2>4, <3>2
        <4> QED
          BY <1>1, <4>1 DEF States
      <3> QED
        BY <3>1, <3>2
    <2> HIDE DEF s, answers
    <2>6. content' \in [K -> States] /\ ContentInv'
      BY <1>6, <2>1, <2>5
    <2>7. Paired'
      BY <1>3, <1>4, <1>5, <2>1
    <2> QED
      BY <2>1, <2>2, <2>6, <2>7 DEF K
  <1>10. CASE frame.type = "method" /\ frame.m \notin Contents /\ ObserveMethod(d, frame)
    <2>1. CASE d = "s2c" /\ Match(frame) # 0
      <3>1. frame.re # NoId /\ Match(frame) = 1
        BY <2>1
      <3>2. /\ records' = records (+) SetToBag({RpcRecord(pending[frame.ch][1], frame)})
            /\ pending' = Taken(frame) /\ content' = content
        BY <1>10, <2>1, <3>1 DEF ObserveMethod, Add
      <3>3. RpcRecord(pending[frame.ch][1], frame).re = RpcRecord(pending[frame.ch][1], frame).req
        BY <2>1, <3>1 DEF RpcRecord, Record
      <3> QED
        BY <1>4, <1>7, <2>1, <3>1, <3>2, <3>3 DEF K
    <2>2. CASE ~(d = "s2c" /\ Match(frame) # 0)
      <3>1. /\ records' = records (+) SetToBag({MethodRecord(frame, FALSE)})
            /\ pending' = pending /\ content' = content
        BY <1>10, <2>2 DEF ObserveMethod, Add
      <3>2. ~(d = "s2c" /\ frame.re # NoId) /\ frame.re = NoId
        BY <2>2 DEF Directions
      <3> QED
        BY <1>3, <1>4, <1>7, <3>1, <3>2 DEF K
    <2> QED
      BY <2>1, <2>2
  <1>11. CASE frame.type = "header" /\ ObserveHeader(d, frame)
    <2> DEFINE s == [content[key] EXCEPT !.frames = @ \cup {frame.id}, !.size = frame.size]
    <2>1. s \in States /\ s.re = s.req
      BY <1>1, <1>3 DEF States
    <2>2. /\ pending' = pending
          /\ content' = content \/ content' = [content EXCEPT ![key] = NoContent]
             \/ content' = [content EXCEPT ![key] = s]
          /\ \/ records' = records
             \/ records' = records (+) SetToBag({MethodRecord(frame, TRUE)})
             \/ records' = records (+) SetToBag({ContentRecord(s, TRUE)})
             \/ records' = records (+) SetToBag({ContentRecord(s, FALSE)})
      <3>1. (frame.size < 0) \in BOOLEAN
        OBVIOUS
      <3> QED
        BY <1>11, <3>1 DEF ObserveHeader, Add
    <2> HIDE DEF s
    <2>5. ~(d = "s2c" /\ frame.re # NoId) /\ frame.re = NoId
      BY <1>11 DEF Directions
    <2>3. Paired'
      BY <1>3, <1>4, <1>5, <2>1, <2>2, <2>5
    <2>4. content' \in [K -> States] /\ ContentInv'
      BY <1>2, <1>6, <1>7, <2>1, <2>2
    <2> QED
      BY <2>2, <2>3, <2>4, <2>5 DEF K
  <1>12. CASE frame.type = "body" /\ ObserveBody(d, frame)
    <2> DEFINE s == [content[key] EXCEPT !.frames = @ \cup {frame.id},
                                         !.received = @ + frame.size]
    <2>1. s \in States /\ s.re = s.req
      <3> DEFINE c == content[key]
                 n == c.received + frame.size
      <3>1. c \in States /\ c.re = c.req /\ n \in Int /\ c.frames \cup {frame.id} \in SUBSET Ids
        BY <1>1, <1>3 DEF States
      <3>2. s = [c EXCEPT !.frames = c.frames \cup {frame.id}, !.received = n]
        BY <3>1 DEF States
      <3> HIDE DEF c, n
      <3> QED
        BY <3>1, <3>2 DEF States
    <2>2. /\ pending' = pending
          /\ content' = content \/ content' = [content EXCEPT ![key] = NoContent]
             \/ content' = [content EXCEPT ![key] = s]
          /\ \/ records' = records
             \/ records' = records (+) SetToBag({MethodRecord(frame, TRUE)})
             \/ records' = records (+) SetToBag({ContentRecord(s, TRUE)})
             \/ records' = records (+) SetToBag({ContentRecord(s, FALSE)})
      <3>1. (s.received # s.size) \in BOOLEAN
        OBVIOUS
      <3> QED
        BY <1>12, <3>1 DEF ObserveBody, Add
    <2> HIDE DEF s
    <2>5. ~(d = "s2c" /\ frame.re # NoId) /\ frame.re = NoId
      BY <1>12 DEF Directions
    <2>3. Paired'
      BY <1>3, <1>4, <1>5, <2>1, <2>2, <2>5
    <2>4. content' \in [K -> States] /\ ContentInv'
      BY <1>2, <1>6, <1>7, <2>1, <2>2
    <2> QED
      BY <2>2, <2>3, <2>4, <2>5 DEF K
  <1>13. CASE /\ frame.type = "other" /\ UNCHANGED <<pending, content>>
              /\ records' = records (+) SetToBag({MethodRecord(frame, TRUE)})
    <2>1. ~(d = "s2c" /\ frame.re # NoId) /\ frame.re = NoId
      BY <1>13 DEF Directions
    <2> QED
      BY <1>3, <1>4, <1>7, <1>13, <2>1 DEF K
  <1> QED
    BY <1>8, <1>9, <1>10, <1>11, <1>12, <1>13 DEF Observed, Add

(* A frame of the broker answers the frame it names, or nothing. *)
LEMMA BrokerFrameFacts ==
    ASSUME NEW f \in BrokerFrames
    PROVE  /\ f \in Frames
           /\ \A n \in 1..Len(script) : f.re = <<"c2s", n>> =>
                 /\ AnswersTo(f, n) /\ f.re # NoId /\ f.re[2] = n
                 /\ f.m \in Responses /\ f.type = "method" /\ f.ch = script[n].ch
           /\ f.re # NoId => \E n \in 1..Len(script) : f.re = <<"c2s", n>>
           /\ f.re = NoId => \A m : f.m \notin Expected(m)
  <1>1. f \in Frames
    BY DEF BrokerFrames
  <1>2. ASSUME NEW n \in 1..Len(script), f.re = <<"c2s", n>>
        PROVE  /\ AnswersTo(f, n) /\ f.re # NoId /\ f.re[2] = n
               /\ f.m \in Responses /\ f.type = "method" /\ f.ch = script[n].ch
    <2>1. f.re # NoId /\ f.re[2] = n
      BY <1>2 DEF NoId
    <2>2. PICK k \in 1..Len(script) : AnswersTo(f, k)
      BY <2>1 DEF BrokerFrames
    <2>3. k = n
      BY <1>2, <2>2 DEF AnswersTo
    <2>4. f.m \in Responses
      BY <2>2, ExpectedFacts DEF AnswersTo, Responses
    <2> QED
      BY <2>1, <2>2, <2>3, <2>4 DEF AnswersTo
  <1>3. f.re # NoId => \E n \in 1..Len(script) : f.re = <<"c2s", n>>
    BY DEF BrokerFrames, AnswersTo
  <1>4. ASSUME f.re = NoId PROVE \A m : f.m \notin Expected(m)
    <2>1. \A n \in 1..Len(script) : ~AnswersTo(f, n)
      BY <1>4 DEF AnswersTo, NoId
    <2>2. f.m \notin Responses
      BY <2>1 DEF BrokerFrames
    <2> QED
      BY <2>2, ExpectedFacts DEF Responses
  <1> QED
    BY <1>1, <1>2, <1>3, <1>4

(* The answer that its relay holds is the first of its channel. *)
LEMMA HeldFirst ==
    ASSUME TypeInv, OrderInv, Holding,
           NEW n \in 1..Len(script), NEW p \in 1..Len(script), Held.re = <<"c2s", n>>,
           InFlight(p), script[p].ch = script[n].ch
    PROVE  ~(p < n)
  <1> SUFFICES ASSUME p < n PROVE FALSE
    OBVIOUS
  <1>0. Len(script) \in Nat /\ n \in Nat /\ p \in Nat
    BY ScriptFacts DEF TypeInv
  <1>1. Held \in BrokerFrames
    BY DEF TypeInv, Held, Holding
  <1>2. Held.ch = script[n].ch /\ Held.re[2] = n /\ Held.re # NoId
    BY <1>1, BrokerFrameFacts
  <1>3. \A f \in BrokerFrames : f.re = <<"c2s", p>> => ~Before(Held, f)
    <2> SUFFICES ASSUME NEW f \in BrokerFrames, f.re = <<"c2s", p>>, Before(Held, f)
                 PROVE  FALSE
      OBVIOUS
    <2>1. f.ch = script[p].ch /\ f.re # NoId /\ f.re[2] = p
      BY BrokerFrameFacts
    <2> QED
      BY <1>0, <1>2, <2>1 DEF Before
  <1>4. Held.re # <<"c2s", p>>
    BY <1>0
  <1>5. ASSUME NEW j \in 1..Len(fromBroker), fromBroker[j].re = <<"c2s", p>> PROVE FALSE
    <2>1. fromBroker[j] \in BrokerFrames /\ Before(Held, fromBroker[j])
      BY DEF TypeInv, OrderInv
    <2> QED
      BY <1>3, <1>5, <2>1
  <1>6. ASSUME NEW ch \in Chans, NEW j \in 1..Len(outbox[ch]), outbox[ch][j].re = <<"c2s", p>>
        PROVE  FALSE
    <2>1. outbox[ch][j] \in BrokerFrames /\ Before(Held, outbox[ch][j])
      BY DEF TypeInv, OrderInv
    <2> QED
      BY <1>3, <1>6, <2>1
  <1> QED
    BY <1>4, <1>5, <1>6 DEF InFlight

(***************************************************************************)
(* The answer that its relay holds finds its request at the head of the    *)
(* queue; an event finds none.                                             *)
(***************************************************************************)
LEMMA MatchFacts ==
    ASSUME TypeInv, PairInv, relay["s2c"].pc = "observe"
    PROVE  /\ Held \in BrokerFrames
           /\ Held.re = NoId => Match(Held) = 0
           /\ Held.re # NoId =>
                 /\ Match(Held) = 1 /\ pending[Held.ch] \in Seq(Requests)
                 /\ pending[Held.ch] # <<>> /\ pending[Held.ch][1].id = Held.re
                 /\ Held.type = "method" /\ Held.m \in Responses /\ Held.ch \in Chans
  <1>1. Held \in BrokerFrames /\ Holding
    BY DEF TypeInv, Held, Holding
  <1>2. ASSUME Held.re # NoId
        PROVE  /\ Match(Held) = 1 /\ pending[Held.ch] \in Seq(Requests)
               /\ pending[Held.ch] # <<>> /\ pending[Held.ch][1].id = Held.re
               /\ Held.type = "method" /\ Held.m \in Responses /\ Held.ch \in Chans
    <2>1. PICK n \in 1..Len(script) : Held.re = <<"c2s", n>>
      BY <1>1, <1>2, BrokerFrameFacts
    <2>2. /\ AnswersTo(Held, n) /\ Held.ch = script[n].ch /\ Held.type = "method"
          /\ Held.m \in Responses /\ Held.re[2] = n /\ Held.ch \in Chans
      BY <1>1, <2>1, BrokerFrameFacts DEF Frames, Chans
    <2>3. InFlight(n)
      BY <1>1, <2>1 DEF InFlight
    <2> DEFINE q == pending[Held.ch]
    <2>4. q \in Seq(Requests) /\ Len(q) \in Nat
      BY <2>2 DEF PairInv, PlacesInv
    <2>5. PICK i \in 1..Len(q) : q[i] = Request(n)
      BY <2>2, <2>3 DEF PairInv, FiledInv, Pending
    <2>6. q # <<>> /\ 1 \in 1..Len(q) /\ q[1] \in Requests
      BY <2>4, <2>5
    <2>7. PICK p \in 1..Len(script) : q[1] = Request(p) /\ q[1].id[2] = p
      BY <2>6, RequestNumber DEF TypeInv
    <2>8. script[p].ch = Held.ch
      <3>1. q[1].ch = Held.ch
        BY <2>2, <2>6 DEF PairInv, PlacesInv
      <3> QED
        BY <2>7, <3>1, RequestFacts DEF TypeInv
    <2>9. p = n
      <3> SUFFICES ASSUME p # n PROVE FALSE
        OBVIOUS
      <3>1. i # 1 /\ Request(n).id[2] = n
        BY <2>5, <2>7, RequestFacts DEF TypeInv
      <3>2. 1 < i /\ q[1].id[2] < q[i].id[2]
        BY <2>2, <2>4, <2>5, <2>6, <3>1 DEF PairInv, RisingInv, QueuesRise
      <3>3. p < n
        BY <2>5, <2>7, <3>1, <3>2
      <3>4. Pending(p)
        BY <2>6, <2>7, <2>8 DEF Pending
      <3>5. InFlight(p)
        BY <2>2, <2>3, <2>8, <3>3, <3>4 DEF PairInv, NoGapInv
      <3> QED
        BY <1>1, <2>1, <2>2, <2>8, <3>3, <3>5, HeldFirst DEF PairInv
    <2>10. q[1].m = script[n].m /\ q[1].id = Held.re
      BY <2>1, <2>7, <2>9, RequestFacts DEF TypeInv
    <2>11. Match(Held) = 1
      BY <2>2, <2>4, <2>6, <2>10, MatchFirst DEF AnswersTo
    <2> QED
      BY <2>2, <2>4, <2>6, <2>10, <2>11
  <1>3. Held.re = NoId => Match(Held) = 0
    BY <1>1, BrokerFrameFacts, MatchNone
  <1> QED
    BY <1>1, <1>2, <1>3

(* The places of the two relays. *)
LEMMA DirectionFacts == "c2s" \in Directions /\ "s2c" \in Directions /\ "c2s" # "s2c"
  BY DEF Directions

(* What is not touched keeps what is said of it. *)
LEMMA QuietFacts ==
    ASSUME script' = script
    PROVE  /\ UNCHANGED <<content, records>> /\ ContentInv /\ Paired => ContentInv' /\ Paired'
           /\ UNCHANGED <<outbox, fromBroker>> /\ (Holding' => Holding)
                 /\ relay'["s2c"].frame = relay["s2c"].frame /\ OrderInv => OrderInv'
           /\ UNCHANGED <<outbox, fromBroker>> /\ (Holding' <=> Holding)
                 /\ relay'["s2c"].frame = relay["s2c"].frame =>
                 \A n : InFlight(n)' <=> InFlight(n)
           /\ UNCHANGED pending => \A n : Pending(n)' <=> Pending(n)
           /\ UNCHANGED toBroker => \A n : OnItsWay(n)' <=> OnItsWay(n)
  <1>1. UNCHANGED <<content, records>> /\ ContentInv /\ Paired => ContentInv' /\ Paired'
    BY DEF ContentInv, Paired
  <1>2. UNCHANGED <<outbox, fromBroker>> /\ (Holding' => Holding)
           /\ relay'["s2c"].frame = relay["s2c"].frame /\ OrderInv => OrderInv'
    BY DEF OrderInv, Held
  <1>3. UNCHANGED <<outbox, fromBroker>> /\ (Holding' <=> Holding)
           /\ relay'["s2c"].frame = relay["s2c"].frame =>
           \A n : InFlight(n)' <=> InFlight(n)
    BY DEF InFlight, Held
  <1>4. UNCHANGED pending => \A n : Pending(n)' <=> Pending(n)
    BY DEF Pending, Request
  <1>5. UNCHANGED toBroker => \A n : OnItsWay(n)' <=> OnItsWay(n)
    BY DEF OnItsWay, Request
  <1> QED
    BY <1>1, <1>2, <1>3, <1>4, <1>5

(* A request is filed before it is written, and it alone. *)
LEMMA FiledByRead ==
    ASSUME TypeInv, PairInv, [Next]_vars, Read("c2s")
    PROVE  \A n \in 1..Len(script) : Pending(n)' <=>
              Pending(n) \/ (Synchronous(Request(read + 1)) /\ n = read + 1)
  <1> DEFINE r == read + 1
             f == Request(r)
             N == 1..Len(script)
  <1>0. /\ script' = script /\ Requests' = Requests /\ \A n : Request(n)' = Request(n)
        /\ Len(script) \in Nat
    BY ScriptStays, ScriptFacts DEF TypeInv
  <1>1. /\ relay["c2s"].pc = "read" /\ relay'["c2s"].pc = "write" /\ relay'["c2s"].frame = f
        /\ relay'["c2s"].prepared = Prepares("c2s", f) /\ relay'["s2c"] = relay["s2c"]
        /\ read < Len(script) /\ read' = r
        /\ pending' = IF Prepares("c2s", f)
                      THEN [pending EXCEPT ![f.ch] = Append(@, f)] ELSE pending
        /\ UNCHANGED <<phase, content, records, toBroker, outbox, fromBroker, shut>>
    BY DirectionFacts, ReadFacts
  <1>2. /\ r \in N /\ read \in Nat /\ r > read
    BY <1>0, <1>1 DEF TypeInv
  <1>3. /\ f \in Requests /\ f.ch \in Chans /\ f.id[2] = r /\ f.ch = script[r].ch
        /\ (Prepares("c2s", f) <=> Synchronous(f)) /\ f = Request(r)
    BY <1>2, RequestFacts, RequestNumber DEF TypeInv, Prepares
  <1> HIDE DEF f, r
  <1>4. ASSUME NEW ch \in Chans
        PROVE  /\ pending[ch] \in Seq(Requests) /\ Len(pending[ch]) \in Nat
               /\ \/ ch = f.ch /\ Synchronous(f) /\ pending'[ch] = Append(pending[ch], f)
                  \/ ~(ch = f.ch /\ Synchronous(f)) /\ pending'[ch] = pending[ch]
    BY <1>1, <1>3 DEF PairInv, PlacesInv
  <1>5. \A n \in N : Pending(n)' <=> Pending(n) \/ (Synchronous(f) /\ n = r)
    <2> SUFFICES ASSUME NEW n \in N
                 PROVE  Pending(n)' <=> Pending(n) \/ (Synchronous(f) /\ n = r)
      OBVIOUS
    <2> DEFINE ch == script[n].ch
               q == pending[ch]
    <2>1. ch \in Chans /\ Request(n).id[2] = n /\ Request(n).ch = ch
      BY RequestFacts, RequestNumber DEF TypeInv
    <2>2. Pending(n)' <=> \E i \in 1..Len(pending'[ch]) : pending'[ch][i] = Request(n)
      BY <1>0 DEF Pending
    <2>3. CASE ch = f.ch /\ Synchronous(f) /\ pending'[ch] = Append(q, f)
      <3>1. /\ q \in Seq(Requests) /\ Len(q) \in Nat /\ Len(Append(q, f)) = Len(q) + 1
            /\ \A i \in 1..Len(q) : Append(q, f)[i] = q[i]
            /\ Append(q, f)[Len(q) + 1] = f
        BY <1>3, <1>4, <2>1, SeqSteps
      <3>2. f = Request(n) <=> n = r
        BY <1>3, <2>1
      <3> HIDE DEF q
      <3>3. (\E i \in 1..(Len(q) + 1) : Append(q, f)[i] = Request(n)) <=>
               (\E i \in 1..Len(q) : q[i] = Request(n)) \/ f = Request(n)
        BY <3>1
      <3> QED
        BY <2>2, <2>3, <3>1, <3>2, <3>3 DEF Pending, q
    <2>4. CASE ~(ch = f.ch /\ Synchronous(f)) /\ pending'[ch] = q
      BY <1>3, <2>2, <2>4 DEF Pending
    <2> QED
      BY <1>4, <2>1, <2>3, <2>4
  <1> QED
    BY <1>5 DEF f, r

(* The client's relay reads: a synchronous method is filed last. *)
LEMMA PairClientRead ==
    ASSUME TypeInv, PhaseInv, PairInv, [Next]_vars, Read("c2s")
    PROVE  PairInv'
  <1> DEFINE r == read + 1
             f == Request(r)
             N == 1..Len(script)
  <1>0. /\ script' = script /\ Requests' = Requests /\ \A n : Request(n)' = Request(n)
        /\ Len(script) \in Nat
    BY ScriptStays, ScriptFacts DEF TypeInv
  <1>1. /\ relay["c2s"].pc = "read" /\ relay'["c2s"].pc = "write" /\ relay'["c2s"].frame = f
        /\ relay'["c2s"].prepared = Prepares("c2s", f) /\ relay'["s2c"] = relay["s2c"]
        /\ read < Len(script) /\ read' = r
        /\ pending' = IF Prepares("c2s", f)
                      THEN [pending EXCEPT ![f.ch] = Append(@, f)] ELSE pending
        /\ UNCHANGED <<phase, content, records, toBroker, outbox, fromBroker, shut>>
    BY DirectionFacts, ReadFacts
  <1>2. /\ r \in N /\ read \in Nat /\ r > read
    BY <1>0, <1>1 DEF TypeInv
  <1>3. /\ f \in Requests /\ f.ch \in Chans /\ f.id[2] = r /\ f.ch = script[r].ch
        /\ (Prepares("c2s", f) <=> Synchronous(f)) /\ f = Request(r)
    BY <1>2, RequestFacts, RequestNumber DEF TypeInv, Prepares
  <1>4. /\ \A n : InFlight(n)' <=> InFlight(n)
        /\ \A n : OnItsWay(n)' <=> OnItsWay(n)
        /\ OrderInv' /\ ContentInv' /\ Paired'
    BY <1>0, <1>1, QuietFacts DEF Holding, PairInv
  <1> HIDE DEF f, r
  <1>5. ASSUME NEW ch \in Chans
        PROVE  /\ pending[ch] \in Seq(Requests) /\ Len(pending[ch]) \in Nat
               /\ \/ ch = f.ch /\ Synchronous(f) /\ pending'[ch] = Append(pending[ch], f)
                  \/ ~(ch = f.ch /\ Synchronous(f)) /\ pending'[ch] = pending[ch]
    BY <1>1, <1>3 DEF PairInv, PlacesInv
  <1>6. pending' \in [Chans -> Seq(Requests)]
    <2>1. Append(pending[f.ch], f) \in Seq(Requests)
      BY <1>3, <1>5, SeqSteps
    <2> QED
      BY <1>1, <2>1 DEF PairInv, PlacesInv
  <1>7. \A n \in N : Pending(n)' <=> Pending(n) \/ (Synchronous(f) /\ n = r)
    BY FiledByRead DEF f, r
  <1>8. PlacesInv'
    <2>1. \A ch \in Chans : \A i \in 1..Len(pending'[ch]) :
             pending'[ch][i].ch = ch /\ Synchronous(pending'[ch][i])
      <3> SUFFICES ASSUME NEW ch \in Chans, NEW i \in 1..Len(pending'[ch])
                   PROVE  pending'[ch][i].ch = ch /\ Synchronous(pending'[ch][i])
        OBVIOUS
      <3>1. \A j \in 1..Len(pending[ch]) :
               pending[ch][j].ch = ch /\ Synchronous(pending[ch][j])
        BY DEF PairInv, PlacesInv
      <3>2. CASE ch = f.ch /\ Synchronous(f) /\ pending'[ch] = Append(pending[ch], f)
        <4>1. /\ Len(pending'[ch]) = Len(pending[ch]) + 1 /\ Len(pending[ch]) \in Nat
              /\ \A j \in 1..Len(pending[ch]) : pending'[ch][j] = pending[ch][j]
              /\ pending'[ch][Len(pending[ch]) + 1] = f
          BY <1>3, <1>5, <3>2, SeqSteps
        <4>2. CASE i \in 1..Len(pending[ch])
          BY <3>1, <4>1, <4>2
        <4>3. CASE i = Len(pending[ch]) + 1
          BY <3>2, <4>1, <4>3
        <4> QED
          BY <4>1, <4>2, <4>3
      <3> QED
        BY <1>5, <3>1, <3>2
    <2>2. phase \notin Steps
      BY <1>1, DirectionFacts DEF PhaseInv
    <2>3. \E n \in N : /\ n = read' /\ relay'["c2s"].frame = Request(n)'
                       /\ relay'["c2s"].prepared <=> Synchronous(Request(n))'
                       /\ Synchronous(Request(n))' => Pending(n)'
      <3>1. PICK n \in N : n = r
        BY <1>2
      <3>2. Request(n)' = f /\ (Synchronous(f) => Pending(n)')
        BY <1>0, <1>3, <1>7, <3>1
      <3>3. Synchronous(Request(n))' <=> Synchronous(f)
        BY <3>2 DEF Synchronous
      <3>4. relay'["c2s"].prepared <=> Synchronous(f)
        BY <1>1, <1>3
      <3> QED
        BY <1>1, <3>1, <3>2, <3>3, <3>4
    <2> QED
      BY <1>0, <1>1, <1>6, <2>1, <2>2, <2>3 DEF PairInv, PlacesInv
  <1>9. RisingInv'
    <2>1. \A ch \in Chans : \A i, j \in 1..Len(pending'[ch]) :
             i < j => pending'[ch][i].id[2] < pending'[ch][j].id[2]
      <3> SUFFICES ASSUME NEW ch \in Chans, NEW i \in 1..Len(pending'[ch]),
                          NEW j \in 1..Len(pending'[ch]), i < j
                   PROVE  pending'[ch][i].id[2] < pending'[ch][j].id[2]
        OBVIOUS
      <3> DEFINE q == pending[ch]
      <3>1. CASE ch = f.ch /\ Synchronous(f) /\ pending'[ch] = Append(q, f)
        <4>1. /\ Len(pending'[ch]) = Len(q) + 1 /\ Len(q) \in Nat
              /\ \A k \in 1..Len(q) : pending'[ch][k] = q[k]
              /\ pending'[ch][Len(q) + 1] = f
          BY <1>3, <1>5, <3>1, SeqSteps
        <4>2. CASE j \in 1..Len(q)
          <5>1. i \in 1..Len(q)
            BY <4>1, <4>2
          <5> QED
            BY <4>1, <4>2, <5>1 DEF PairInv, RisingInv, QueuesRise
        <4>3. CASE j = Len(q) + 1
          <5>1. i \in 1..Len(q) /\ q[i] \in Requests
            BY <1>5, <4>1, <4>3
          <5>2. q[i].id[2] \in N /\ q[i] = Request(q[i].id[2]) /\ q[i].ch = ch
                /\ script[q[i].id[2]].ch = ch
            <6>1. script \in Scripts BY DEF TypeInv
            <6>2. q[i].id[2] \in N /\ q[i] = Request(q[i].id[2])
                  /\ q[i].ch = script[q[i].id[2]].ch
              BY <5>1, <6>1, RequestNumber
            <6>3. q[i].ch = ch BY <5>1 DEF PairInv, PlacesInv
            <6> QED BY <6>2, <6>3
          <5>3. Pending(q[i].id[2])
            BY <5>1, <5>2 DEF Pending
          <5>4. q[i].id[2] <= read
            BY <5>2, <5>3 DEF PairInv, RisingInv
          <5>5. q[i].id[2] < r
            BY <1>0, <1>2, <5>2, <5>4
          <5> QED
            BY <1>3, <4>1, <4>3, <5>1, <5>5
        <4> QED
          BY <4>1, <4>2, <4>3
      <3> QED
        BY <1>5, <3>1 DEF PairInv, RisingInv, QueuesRise
    <2>2. \A n \in N : Pending(n)' => n <= read'
      BY <1>1, <1>2, <1>7 DEF PairInv, RisingInv
    <2>3. \A n \in N : OnItsWay(n)' \/ InFlight(n)' => Taking(n)'
      <3>1. \A n \in N : Taking(n) => Taking(n)'
        BY <1>1, <1>2 DEF Taking, r
      <3> QED
        BY <1>4, <3>1 DEF PairInv, RisingInv
    <2> QED
      BY <1>0, <1>1, <1>4, <2>1, <2>2, <2>3 DEF PairInv, RisingInv, QueuesRise
  <1>10. FiledInv'
    BY <1>0, <1>4, <1>7 DEF PairInv, FiledInv
  <1>11. NoGapInv'
    <2> SUFFICES ASSUME relay["s2c"].pc # "end"
                 PROVE  /\ \A n, p \in N :
                              /\ InFlight(n)' /\ Pending(p)' /\ script[p].ch = script[n].ch
                              /\ p < n
                              => InFlight(p)'
                        /\ phase = "relay" => \A p \in N :
                              Pending(p)' /\ script[p].ch \notin shut =>
                                  \/ InFlight(p)' \/ OnItsWay(p)'
                                  \/ p = read' /\ relay'["c2s"].pc \in {"write", "end"}
      BY <1>0, <1>1 DEF NoGapInv
    <2>1. ASSUME NEW n \in N, NEW p \in N, InFlight(n)', Pending(p)',
                 script[p].ch = script[n].ch, p < n
          PROVE  InFlight(p)'
      <3>1. InFlight(n) /\ n <= read
        BY <1>4, <2>1 DEF PairInv, RisingInv, Taking
      <3>2. Pending(p)
        BY <1>2, <1>7, <2>1, <3>1
      <3> QED
        BY <1>4, <2>1, <3>1, <3>2 DEF PairInv, NoGapInv
    <2>2. ASSUME phase = "relay", NEW p \in N, Pending(p)', script[p].ch \notin shut
          PROVE  \/ InFlight(p)' \/ OnItsWay(p)'
                 \/ p = read' /\ relay'["c2s"].pc \in {"write", "end"}
      <3>1. CASE p = r
        BY <1>1, <3>1
      <3>2. CASE Pending(p)
        BY <1>1, <1>4, <2>2, <3>2 DEF PairInv, NoGapInv
      <3> QED
        BY <1>7, <2>2, <3>1, <3>2
    <2> QED
      BY <2>1, <2>2
  <1> QED
    BY <1>4, <1>8, <1>9, <1>10, <1>11 DEF PairInv

(* The client's relay writes: the frame is the last on its way. *)
LEMMA PairClientWrite ==
    ASSUME TypeInv, PhaseInv, PairInv, [Next]_vars, Write("c2s")
    PROVE  PairInv'
  <1> DEFINE N == 1..Len(script)
  <1>0. /\ script' = script /\ Requests' = Requests /\ \A n : Request(n)' = Request(n)
        /\ Len(script) \in Nat
    BY ScriptStays, ScriptFacts DEF TypeInv
  <1>1. /\ relay["c2s"].pc = "write" /\ relay'["s2c"] = relay["s2c"]
        /\ relay'["c2s"].pc = (IF relay["c2s"].prepared THEN "read" ELSE "observe")
        /\ relay'["c2s"].frame = relay["c2s"].frame
        /\ toBroker' = Append(toBroker, relay["c2s"].frame)
        /\ UNCHANGED <<phase, read, pending, content, records, outbox, fromBroker, shut>>
    BY DirectionFacts, WriteFacts DEF inspector
  <1>2. PICK n \in N : /\ n = read /\ relay["c2s"].frame = Request(n)
                       /\ relay["c2s"].prepared <=> Synchronous(Request(n))
                       /\ Synchronous(Request(n)) => Pending(n)
    BY <1>1 DEF PairInv, PlacesInv
  <1>3. /\ \A m : InFlight(m)' <=> InFlight(m)
        /\ \A m : Pending(m)' <=> Pending(m)
        /\ OrderInv' /\ ContentInv' /\ Paired'
    BY <1>0, <1>1, QuietFacts DEF Holding, PairInv
  <1>4. /\ toBroker \in Seq(Requests) /\ Len(toBroker) \in Nat /\ Request(n) \in Requests
        /\ Len(toBroker') = Len(toBroker) + 1
        /\ \A i \in 1..Len(toBroker) : toBroker'[i] = toBroker[i]
        /\ toBroker'[Len(toBroker) + 1] = Request(n)
    BY <1>1, <1>2, SeqSteps, RequestFacts DEF TypeInv
  <1>5. \A m \in N : OnItsWay(m)' <=> OnItsWay(m) \/ m = n
    <2> SUFFICES ASSUME NEW m \in N PROVE OnItsWay(m)' <=> OnItsWay(m) \/ m = n
      OBVIOUS
    <2>1. Request(n) = Request(m) <=> m = n
      BY RequestFacts DEF TypeInv
    <2>2. (\E i \in 1..(Len(toBroker) + 1) : toBroker'[i] = Request(m)) <=>
             (\E i \in 1..Len(toBroker) : toBroker[i] = Request(m)) \/ Request(n) = Request(m)
      BY <1>4
    <2> QED
      BY <1>0, <1>4, <2>1, <2>2 DEF OnItsWay
  <1>6. PlacesInv'
    <2>1. relay'["c2s"].pc # "write"
      BY <1>1
    <2>2. relay'["c2s"].pc = "observe" => ~Synchronous(relay'["c2s"].frame)
      BY <1>1, <1>2
    <2> QED
      BY <1>0, <1>1, <2>1, <2>2 DEF PairInv, PlacesInv
  <1>7. RisingInv'
    <2>1. \A m \in N : OnItsWay(m) \/ InFlight(m) => m < n
      BY <1>1, <1>2 DEF PairInv, RisingInv, Taking
    <2>2. \A i, j \in 1..Len(toBroker') : i < j => toBroker'[i].id[2] < toBroker'[j].id[2]
      <3> SUFFICES ASSUME NEW i \in 1..Len(toBroker'), NEW j \in 1..Len(toBroker'), i < j
                   PROVE  toBroker'[i].id[2] < toBroker'[j].id[2]
        OBVIOUS
      <3>1. i \in 1..Len(toBroker) /\ toBroker[i] \in Requests
        BY <1>4
      <3>2. CASE j \in 1..Len(toBroker)
        BY <1>4, <3>1, <3>2 DEF PairInv, RisingInv, QueuesRise
      <3>3. CASE j = Len(toBroker) + 1
        <4>1. toBroker[i].id[2] \in N /\ toBroker[i] = Request(toBroker[i].id[2])
          BY <3>1, RequestNumber DEF TypeInv
        <4>2. OnItsWay(toBroker[i].id[2])
          BY <3>1, <4>1 DEF OnItsWay
        <4>3. Request(n).id[2] = n
          BY RequestFacts DEF TypeInv
        <4> QED
          BY <1>4, <2>1, <3>1, <3>3, <4>1, <4>2, <4>3
      <3> QED
        BY <1>4, <3>2, <3>3
    <2>3. QueuesRise'
      BY <1>1, <2>2 DEF PairInv, RisingInv, QueuesRise
    <2>4. \A m \in N : OnItsWay(m)' \/ InFlight(m)' => Taking(m)'
      <3>1. \A m \in N : Taking(m) \/ m = n => Taking(m)'
        BY <1>0, <1>1, <1>2 DEF Taking
      <3> QED
        BY <1>3, <1>5, <3>1 DEF PairInv, RisingInv
    <2>5. \A m, k \in N : InFlight(m)' /\ OnItsWay(k)' => m < k
      BY <1>3, <1>5, <2>1 DEF PairInv, RisingInv
    <2> QED
      BY <1>0, <1>1, <1>3, <2>3, <2>4, <2>5 DEF PairInv, RisingInv
  <1>8. FiledInv'
    BY <1>0, <1>2, <1>3, <1>5 DEF PairInv, FiledInv
  <1>9. NoGapInv'
    BY <1>0, <1>1, <1>2, <1>3, <1>5 DEF PairInv, NoGapInv
  <1> QED
    BY <1>3, <1>6, <1>7, <1>8, <1>9 DEF PairInv

(* The client's relay ends: what it held was read last. *)
LEMMA PairClientEnd ==
    ASSUME TypeInv, PhaseInv, PairInv, [Next]_vars,
           ReadOversized("c2s") \/ ReadBlocked("c2s") \/ ReadFails("c2s") \/ WriteFails("c2s")
    PROVE  PairInv'
  <1> DEFINE N == 1..Len(script)
  <1>0. /\ script' = script /\ Requests' = Requests /\ \A n : Request(n)' = Request(n)
        /\ Len(script) \in Nat /\ read \in Nat
    BY ScriptStays, ScriptFacts DEF TypeInv
  <1>1. /\ relay["c2s"].pc \in {"read", "write"} /\ relay'["c2s"].pc = "end"
        /\ relay'["s2c"] = relay["s2c"]
        /\ UNCHANGED <<phase, pending, content, toBroker, outbox, fromBroker, shut>>
        /\ read' = read \/ (relay["c2s"].pc = "read" /\ read' = read + 1)
        /\ \/ records' = records
           \/ \E f : f.re = NoId /\ records' = records (+) SetToBag({MethodRecord(f, TRUE)})
    BY DirectionFacts, EndFacts
  <1>2. /\ \A m : InFlight(m)' <=> InFlight(m)
        /\ \A m : Pending(m)' <=> Pending(m)
        /\ \A m : OnItsWay(m)' <=> OnItsWay(m)
        /\ OrderInv'
    BY <1>0, <1>1, QuietFacts DEF Holding, PairInv
  <1>3. ContentInv' /\ Paired'
    <2>1. CASE records' = records
      BY <1>1, <2>1 DEF ContentInv, Paired, PairInv
    <2>2. ASSUME NEW f, f.re = NoId,
                 records' = records (+) SetToBag({MethodRecord(f, TRUE)})
          PROVE  ContentInv' /\ Paired'
      <3>1. DOMAIN records' = DOMAIN records \cup {MethodRecord(f, TRUE)}
        BY <2>2, AddedFacts
      <3>2. MethodRecord(f, TRUE).re = MethodRecord(f, TRUE).req
        BY <2>2 DEF MethodRecord, Record
      <3> QED
        BY <1>1, <3>1, <3>2 DEF ContentInv, Paired, PairInv
    <2> QED
      BY <1>1, <2>1, <2>2
  <1>4. PlacesInv'
    BY <1>0, <1>1 DEF PairInv, PlacesInv
  <1>5. RisingInv'
    <2>1. \A n \in N : (Taking(n) => Taking(n)') /\ (n <= read => n <= read')
      BY <1>0, <1>1 DEF Taking
    <2>2. QueuesRise'
      BY <1>1 DEF PairInv, RisingInv, QueuesRise
    <2> QED
      BY <1>0, <1>2, <2>1, <2>2 DEF PairInv, RisingInv
  <1>6. FiledInv'
    BY <1>0, <1>2 DEF PairInv, FiledInv
  <1>7. NoGapInv'
    BY <1>0, <1>1, <1>2 DEF PairInv, NoGapInv
  <1> QED
    BY <1>2, <1>3, <1>4, <1>5, <1>6, <1>7 DEF PairInv

(* The client's relay observes: the inspector files nothing more. *)
LEMMA PairClientObserve ==
    ASSUME TypeInv, PhaseInv, PairInv, [Next]_vars, Observe("c2s")
    PROVE  PairInv'
  <1> DEFINE frame == relay["c2s"].frame
  <1>0. /\ script' = script /\ Requests' = Requests /\ \A n : Request(n)' = Request(n)
    BY ScriptStays DEF TypeInv
  <1>1. /\ relay["c2s"].pc = "observe" /\ relay'["c2s"].pc = "read"
        /\ relay'["s2c"] = relay["s2c"]
        /\ UNCHANGED <<phase, read, toBroker, outbox, fromBroker, shut>>
    BY DirectionFacts, ObserveFacts DEF net
  <1>2. ~Synchronous(frame) /\ frame \in Frames /\ frame.re = NoId
    BY <1>1, RequestNumber DEF TypeInv, PairInv, PlacesInv
  <1>3. Observed("c2s", frame)
    BY <1>2 DEF Observe
  <1>4. /\ content' \in [Directions \X Chans -> States] /\ ContentInv' /\ Paired'
        /\ pending' = pending
    BY <1>2, <1>3, DirectionFacts, ObservedFacts DEF PairInv
  <1>5. /\ \A m : InFlight(m)' <=> InFlight(m)
        /\ \A m : Pending(m)' <=> Pending(m)
        /\ \A m : OnItsWay(m)' <=> OnItsWay(m)
        /\ OrderInv'
    BY <1>0, <1>1, <1>4, QuietFacts DEF Holding, PairInv
  <1>6. PlacesInv'
    BY <1>0, <1>1, <1>4 DEF PairInv, PlacesInv
  <1>7. RisingInv'
    <2>1. \A n : Taking(n) <=> Taking(n)'
      BY <1>1 DEF Taking
    <2>2. QueuesRise'
      BY <1>1, <1>4 DEF PairInv, RisingInv, QueuesRise
    <2> QED
      BY <1>0, <1>1, <1>5, <2>1, <2>2 DEF PairInv, RisingInv
  <1>8. FiledInv'
    BY <1>0, <1>5 DEF PairInv, FiledInv
  <1>9. NoGapInv'
    BY <1>0, <1>1, <1>5 DEF PairInv, NoGapInv
  <1> QED
    BY <1>4, <1>5, <1>6, <1>7, <1>8, <1>9 DEF PairInv

(* The broker's relay reads: the first frame is held. *)
LEMMA PairBrokerRead ==
    ASSUME TypeInv, PhaseInv, PairInv, [Next]_vars, Read("s2c")
    PROVE  PairInv'
  <1> DEFINE b == fromBroker
  <1>0. /\ script' = script /\ Requests' = Requests /\ \A n : Request(n)' = Request(n)
    BY ScriptStays DEF TypeInv
  <1>1. /\ relay["s2c"].pc = "read" /\ relay'["s2c"].pc = "write"
        /\ relay'["s2c"].frame = Head(b) /\ relay'["c2s"] = relay["c2s"]
        /\ b # <<>> /\ fromBroker' = Tail(b) /\ pending' = pending
        /\ ~relay'["s2c"].prepared
        /\ UNCHANGED <<phase, read, content, records, toBroker, outbox, shut>>
    <2> DEFINE d == "s2c"
               frame == Identified(d, Head(Incoming(d)))
    <2>1. d \in Directions /\ d # "c2s" /\ "c2s" \in Directions \ {d}
      BY DirectionFacts
    <2>2. /\ relay[d].pc = "read" /\ relay'[d].pc = "write" /\ relay'[d].frame = frame
          /\ relay'[d].prepared = Prepares(d, frame)
          /\ \A e \in Directions \ {d} : relay'[e] = relay[e]
          /\ frame = Head(fromBroker) /\ fromBroker # <<>> /\ fromBroker' = Tail(fromBroker)
          /\ read' = read
          /\ pending' = IF Prepares(d, frame)
                        THEN [pending EXCEPT ![frame.ch] = Append(@, frame)] ELSE pending
          /\ UNCHANGED <<phase, content, records, toBroker, outbox, shut>>
      BY <2>1, ReadFacts
    <2>3. ~Prepares(d, frame)
      BY <2>1 DEF Prepares
    <2> HIDE DEF frame
    <2>4. relay'["c2s"] = relay["c2s"]
      BY <2>1, <2>2
    <2> QED
      BY <2>2, <2>3, <2>4
  <1>2. /\ b \in Seq(BrokerFrames) /\ Len(b) \in Nat /\ Len(b) >= 1 /\ Head(b) = b[1]
        /\ Len(Tail(b)) = Len(b) - 1
        /\ \A i \in 1..(Len(b) - 1) : Tail(b)[i] = b[i + 1]
    BY <1>1, SeqSteps DEF TypeInv
  <1>3. ~Holding /\ Holding'
    BY <1>1 DEF Holding
  <1>4. /\ \A m : Pending(m)' <=> Pending(m)
        /\ \A m : OnItsWay(m)' <=> OnItsWay(m)
        /\ ContentInv' /\ Paired'
    BY <1>0, <1>1, QuietFacts DEF PairInv
  <1>5. \A n : InFlight(n)' <=> InFlight(n)
    <2> SUFFICES ASSUME NEW n PROVE InFlight(n)' <=> InFlight(n)
      OBVIOUS
    <2>1. (\E i \in 1..Len(b) : b[i].re = <<"c2s", n>>) <=>
             \/ Head(b).re = <<"c2s", n>>
             \/ \E i \in 1..Len(Tail(b)) : Tail(b)[i].re = <<"c2s", n>>
      <3>1. ASSUME NEW i \in 1..Len(b), b[i].re = <<"c2s", n>>
            PROVE  \/ Head(b).re = <<"c2s", n>>
                   \/ \E j \in 1..Len(Tail(b)) : Tail(b)[j].re = <<"c2s", n>>
        <4>1. CASE i = 1
          BY <1>2, <3>1, <4>1
        <4>2. CASE i # 1
          <5>1. i - 1 \in 1..Len(Tail(b)) /\ Tail(b)[i - 1] = b[i]
            BY <1>2, <4>2
          <5> QED
            BY <3>1, <5>1
        <4> QED
          BY <4>1, <4>2
      <3>2. ASSUME NEW j \in 1..Len(Tail(b)), Tail(b)[j].re = <<"c2s", n>>
            PROVE  \E i \in 1..Len(b) : b[i].re = <<"c2s", n>>
        <4>1. j + 1 \in 1..Len(b) /\ Tail(b)[j] = b[j + 1]
          BY <1>2
        <4> QED
          BY <3>2, <4>1
      <3>3. 1 \in 1..Len(b)
        BY <1>2
      <3> QED
        BY <1>2, <3>1, <3>2, <3>3
    <2> QED
      BY <1>1, <1>3, <2>1 DEF InFlight, Held
  <1>6. OrderInv'
    <2>1. \A i, j \in 1..Len(Tail(b)) : i < j => Before(Tail(b)[i], Tail(b)[j])
      <3> SUFFICES ASSUME NEW i \in 1..Len(Tail(b)), NEW j \in 1..Len(Tail(b)), i < j
                   PROVE  Before(Tail(b)[i], Tail(b)[j])
        OBVIOUS
      <3>1. /\ i + 1 \in 1..Len(b) /\ j + 1 \in 1..Len(b) /\ i + 1 < j + 1
            /\ Tail(b)[i] = b[i + 1] /\ Tail(b)[j] = b[j + 1]
        BY <1>2
      <3> QED
        BY <3>1 DEF PairInv, OrderInv
    <2>2. \A i \in 1..Len(Tail(b)) : Tail(b)[i] = b[i + 1] /\ i + 1 \in 1..Len(b) /\ 1 < i + 1
      BY <1>2
    <2>3. 1 \in 1..Len(b)
      BY <1>2
    <2>4. \A i \in 1..Len(Tail(b)) : Before(Head(b), Tail(b)[i])
      BY <1>2, <2>2, <2>3 DEF PairInv, OrderInv
    <2>5. \A ch \in Chans : \A j \in 1..Len(outbox[ch]) :
             Before(Head(b), outbox[ch][j])
             /\ \A i \in 1..Len(Tail(b)) : Before(Tail(b)[i], outbox[ch][j])
      BY <1>2, <2>2, <2>3 DEF PairInv, OrderInv
    <2>6. \A ch \in Chans : \A i, j \in 1..Len(outbox[ch]) :
             i < j => Before(outbox[ch][i], outbox[ch][j])
      BY DEF PairInv, OrderInv
    <2> HIDE DEF b
    <2>7. Held' = Head(b)
      BY <1>1 DEF Held
    <2> QED
      BY <1>1, <2>1, <2>4, <2>5, <2>6, <2>7 DEF OrderInv
  <1>7. PlacesInv'
    BY <1>0, <1>1, <1>4 DEF PairInv, PlacesInv
  <1>8. RisingInv'
    <2>1. \A n : Taking(n) <=> Taking(n)'
      BY <1>1 DEF Taking
    <2>2. QueuesRise'
      BY <1>1 DEF PairInv, RisingInv, QueuesRise
    <2> QED
      BY <1>0, <1>1, <1>4, <1>5, <2>1, <2>2 DEF PairInv, RisingInv
  <1>9. FiledInv'
    BY <1>0, <1>4, <1>5 DEF PairInv, FiledInv
  <1>10. NoGapInv'
    BY <1>0, <1>1, <1>4, <1>5 DEF PairInv, NoGapInv
  <1> QED
    BY <1>4, <1>6, <1>7, <1>8, <1>9, <1>10 DEF PairInv

(* The broker's relay writes, or the relays stay as they are. *)
LEMMA PairBrokerWrite ==
    ASSUME TypeInv, PhaseInv, PairInv, [Next]_vars,
           Write("s2c") \/ Cancel \/ UNCHANGED vars
    PROVE  PairInv'
  <1>0. /\ script' = script /\ Requests' = Requests /\ \A n : Request(n)' = Request(n)
    BY ScriptStays DEF TypeInv
  <1>1. /\ relay'["c2s"] = relay["c2s"] /\ relay'["s2c"].frame = relay["s2c"].frame
        /\ \/ relay'["s2c"] = relay["s2c"]
           \/ relay["s2c"].pc = "write" /\ relay'["s2c"].pc = "observe"
        /\ UNCHANGED <<phase, read, pending, content, records, toBroker, outbox, fromBroker, shut>>
    <2>1. CASE Write("s2c")
      <3>1. relay["s2c"].pc = "write" => ~relay["s2c"].prepared
        BY DEF PairInv, PlacesInv
      <3> QED
        BY <2>1, <3>1, DirectionFacts, WriteFacts DEF inspector
    <2>2. CASE Cancel \/ UNCHANGED vars
      BY <2>2 DEF Cancel, vars, inspector, net
    <2> QED
      BY <2>1, <2>2
  <1>2. /\ \A m : InFlight(m)' <=> InFlight(m)
        /\ \A m : Pending(m)' <=> Pending(m)
        /\ \A m : OnItsWay(m)' <=> OnItsWay(m)
        /\ OrderInv' /\ ContentInv' /\ Paired'
    BY <1>0, <1>1, QuietFacts DEF Holding, PairInv
  <1>3. PlacesInv'
    BY <1>0, <1>1, <1>2 DEF PairInv, PlacesInv
  <1>4. RisingInv'
    <2>1. \A n : Taking(n) <=> Taking(n)'
      BY <1>1 DEF Taking
    <2>2. QueuesRise'
      BY <1>1 DEF PairInv, RisingInv, QueuesRise
    <2> QED
      BY <1>0, <1>1, <1>2, <2>1, <2>2 DEF PairInv, RisingInv
  <1>5. FiledInv'
    BY <1>0, <1>2 DEF PairInv, FiledInv
  <1>6. NoGapInv'
    BY <1>0, <1>1, <1>2 DEF PairInv, NoGapInv
  <1> QED
    BY <1>2, <1>3, <1>4, <1>5, <1>6 DEF PairInv

(* The broker's relay ends: no answer is observed any more. *)
LEMMA PairBrokerEnd ==
    ASSUME TypeInv, PhaseInv, PairInv, [Next]_vars,
           ReadOversized("s2c") \/ ReadBlocked("s2c") \/ ReadFails("s2c") \/ WriteFails("s2c")
    PROVE  PairInv'
  <1>0. /\ script' = script /\ Requests' = Requests /\ \A n : Request(n)' = Request(n)
    BY ScriptStays DEF TypeInv
  <1>1. /\ relay'["s2c"].pc = "end" /\ relay'["s2c"].frame = relay["s2c"].frame
        /\ relay'["c2s"] = relay["c2s"]
        /\ UNCHANGED <<phase, read, pending, content, toBroker, outbox, fromBroker, shut>>
        /\ \/ records' = records
           \/ \E f : f.re = NoId /\ records' = records (+) SetToBag({MethodRecord(f, TRUE)})
    <2> DEFINE d == "s2c"
               R == \/ records' = records
                    \/ \E f : f.re = NoId /\ records' = records (+) SetToBag({MethodRecord(f, TRUE)})
    <2>1. /\ relay'[d].pc = "end" /\ relay'[d].frame = relay[d].frame
          /\ \A e \in Directions \ {d} : relay'[e] = relay[e]
          /\ UNCHANGED <<phase, pending, content, toBroker, outbox, fromBroker, shut>>
          /\ read' = read \/ d = "c2s"
          /\ R
      BY DirectionFacts, EndFacts, Zenon
    <2> HIDE DEF R
    <2>2. "c2s" \in Directions \ {d} /\ d # "c2s"
      BY DirectionFacts
    <2>3. relay'["c2s"] = relay["c2s"] /\ read' = read
      BY <2>1, <2>2
    <2> QED
      BY <2>1, <2>3 DEF R
  <1>2. /\ \A m : Pending(m)' <=> Pending(m)
        /\ \A m : OnItsWay(m)' <=> OnItsWay(m)
        /\ OrderInv'
    BY <1>0, <1>1, QuietFacts DEF Holding, PairInv
  <1>3. \A m : InFlight(m)' => InFlight(m)
    BY <1>1 DEF InFlight, Holding
  <1>4. ContentInv' /\ Paired'
    <2>1. CASE records' = records
      BY <1>1, <2>1 DEF ContentInv, Paired, PairInv
    <2>2. ASSUME NEW f, f.re = NoId,
                 records' = records (+) SetToBag({MethodRecord(f, TRUE)})
          PROVE  ContentInv' /\ Paired'
      <3>1. DOMAIN records' = DOMAIN records \cup {MethodRecord(f, TRUE)}
        BY <2>2, AddedFacts
      <3>2. MethodRecord(f, TRUE).re = MethodRecord(f, TRUE).req
        BY <2>2 DEF MethodRecord, Record
      <3> QED
        BY <1>1, <3>1, <3>2 DEF ContentInv, Paired, PairInv
    <2> QED
      BY <1>1, <2>1, <2>2
  <1>5. PlacesInv'
    BY <1>0, <1>1, <1>2 DEF PairInv, PlacesInv
  <1>6. RisingInv'
    <2>1. \A n : Taking(n) <=> Taking(n)'
      BY <1>1 DEF Taking
    <2>2. QueuesRise'
      BY <1>1 DEF PairInv, RisingInv, QueuesRise
    <2> QED
      BY <1>0, <1>1, <1>2, <1>3, <2>1, <2>2 DEF PairInv, RisingInv
  <1>7. FiledInv'
    BY <1>0, <1>2, <1>3 DEF PairInv, FiledInv
  <1>8. NoGapInv'
    BY <1>1 DEF NoGapInv
  <1> QED
    BY <1>2, <1>4, <1>5, <1>6, <1>7, <1>8 DEF PairInv

(* The answer that is observed takes its own request from the queue, and no other. *)
LEMMA TakenFacts ==
    ASSUME TypeInv, PairInv, script' = script, \A n : Request(n)' = Request(n),
           relay["s2c"].pc = "observe", Held.re # NoId, pending' = Taken(Held),
           toBroker' = toBroker
    PROVE  \E n \in 1..Len(script) :
              /\ Held.re = <<"c2s", n>> /\ Held.ch = script[n].ch /\ Pending(n)
              /\ \A m \in 1..Len(script) : Pending(m)' <=> Pending(m) /\ m # n
              /\ pending' \in [Chans -> Seq(Requests)] /\ QueuesRise'
              /\ \A ch \in Chans : \A i \in 1..Len(pending'[ch]) :
                    pending'[ch][i].ch = ch /\ Synchronous(pending'[ch][i])
  <1> DEFINE N == 1..Len(script)
  <1>s. script' = script /\ (\A n : Request(n)' = Request(n)) /\ Len(script) \in Nat
    BY ScriptFacts DEF TypeInv
  <1>o. relay["s2c"].pc = "observe" /\ Held.re # NoId /\ toBroker' = toBroker
    OBVIOUS
  <1>h. Held \in BrokerFrames /\ Held.re # NoId
    BY MatchFacts
  <1>p. pending' = Taken(Held) /\ Held.re # NoId
    OBVIOUS
  <1>1. PICK n \in N : Held.re = <<"c2s", n>>
    BY <1>h, BrokerFrameFacts
  <1>2. Held.ch = script[n].ch /\ Held.re[2] = n /\ n \in Nat
    BY <1>s, <1>h, <1>1, BrokerFrameFacts
  <1> DEFINE c == Held.ch
             q == pending[c]
  <1>3. /\ Match(Held) = 1 /\ q \in Seq(Requests) /\ q # <<>>
        /\ q[1].id = <<"c2s", n>> /\ c \in Chans
    BY <1>o, <1>1, MatchFacts
  <1>4. /\ Tail(q) \in Seq(Requests) /\ Len(q) \in Nat /\ Len(q) >= 1
        /\ Len(Tail(q)) = Len(q) - 1 /\ q[1] \in Requests /\ q[1].id[2] = n
        /\ \A i \in 1..(Len(q) - 1) : Tail(q)[i] = q[i + 1]
    BY <1>3, SeqSteps
  <1>5. pending' = [pending EXCEPT ![c] = Tail(q)]
    BY <1>p, <1>3, RemoveFirstFacts DEF Taken
  <1>6. /\ pending'[c] = Tail(q)
        /\ \A ch \in Chans : ch # c => pending'[ch] = pending[ch]
        /\ pending' \in [Chans -> Seq(Requests)]
    BY <1>3, <1>4, <1>5 DEF PairInv, PlacesInv
  <1>7. \A ch \in Chans : \A i \in 1..Len(pending'[ch]) :
          \/ pending'[ch][i] = pending[ch][i] /\ i \in 1..Len(pending[ch]) /\ ch # c
          \/ /\ pending'[ch][i] = pending[ch][i + 1] /\ i + 1 \in 1..Len(pending[ch])
             /\ ch = c
    <2>1. ASSUME NEW i \in 1..Len(pending'[c])
          PROVE  pending'[c][i] = pending[c][i + 1] /\ i + 1 \in 1..Len(pending[c])
      <3> HIDE DEF c
      <3>1. i \in 1..(Len(q) - 1)
        BY <1>4, <1>6
      <3>2. i + 1 \in 1..Len(q) /\ Tail(q)[i] = q[i + 1]
        BY <1>4, <3>1
      <3> QED
        BY <1>6, <3>2
    <2> HIDE DEF q, c
    <2> QED
      BY <1>6, <2>1
  <1> HIDE DEF q, c
  <1>8. QueuesRise'
    <2>1. ASSUME NEW ch \in Chans, NEW i \in 1..Len(pending'[ch]),
                 NEW j \in 1..Len(pending'[ch]), i < j
          PROVE  pending'[ch][i].id[2] < pending'[ch][j].id[2]
      <3>1. CASE ch = c
        <4>1. /\ pending'[ch][i] = pending[ch][i + 1] /\ i + 1 \in 1..Len(pending[ch])
              /\ pending'[ch][j] = pending[ch][j + 1] /\ j + 1 \in 1..Len(pending[ch])
          BY <1>7, <3>1
        <4>2. i + 1 < j + 1
          BY <2>1
        <4> QED
          BY <4>1, <4>2 DEF PairInv, RisingInv, QueuesRise
      <3>2. CASE ch # c
        <4>1. pending'[ch] = pending[ch]
          BY <1>6, <3>2
        <4> QED
          BY <2>1, <4>1 DEF PairInv, RisingInv, QueuesRise
      <3> QED
        BY <3>1, <3>2
    <2> QED
      BY <1>o, <2>1 DEF PairInv, RisingInv, QueuesRise
  <1>9. \A ch \in Chans : \A i \in 1..Len(pending'[ch]) :
          pending'[ch][i].ch = ch /\ Synchronous(pending'[ch][i])
    <2> DEFINE P(ch, i) == pending[ch][i].ch = ch /\ Synchronous(pending[ch][i])
    <2>1. \A ch \in Chans : \A i \in 1..Len(pending[ch]) : P(ch, i)
      BY DEF PairInv, PlacesInv
    <2> SUFFICES ASSUME NEW ch \in Chans, NEW i \in 1..Len(pending'[ch])
                 PROVE  pending'[ch][i].ch = ch /\ Synchronous(pending'[ch][i])
      OBVIOUS
    <2>2. PICK j \in 1..Len(pending[ch]) : pending'[ch][i] = pending[ch][j]
      BY <1>7
    <2>3. P(ch, j)
      BY <2>1
    <2> QED
      BY <2>2, <2>3
  <1>11. \A m \in N : script[m].ch \in Chans /\ Request(m).id = <<"c2s", m>>
           /\ Request(m).id[2] = m
    BY RequestFacts, ScriptFacts DEF TypeInv, Frames, Chans
  <1>12. ASSUME NEW m \in N, Pending(m)' PROVE Pending(m) /\ m # n
    <2>1. PICK i \in 1..Len(pending'[script[m].ch]) :
             pending'[script[m].ch][i] = Request(m)
      BY <1>s, <1>12 DEF Pending
    <2>2. Pending(m)
      <3>1. PICK j \in 1..Len(pending[script[m].ch]) :
               pending'[script[m].ch][i] = pending[script[m].ch][j]
        BY <1>7, <1>11
      <3> QED
        BY <2>1, <3>1 DEF Pending
    <2>3. CASE script[m].ch = c
      <3>1. pending[c][i + 1] = Request(m) /\ i + 1 \in 1..Len(pending[c]) /\ 1 < i + 1
        BY <1>7, <1>11, <2>1, <2>3
      <3>2. 1 \in 1..Len(pending[c]) /\ pending[c][1].id[2] = n
        BY <1>4, <3>1 DEF q
      <3>3. pending[c][1].id[2] < pending[c][i + 1].id[2]
        BY <1>3, <3>1, <3>2 DEF PairInv, RisingInv, QueuesRise
      <3> QED
        BY <1>11, <2>2, <3>1, <3>2, <3>3
    <2> QED
      BY <1>2, <2>2, <2>3 DEF c
  <1>13. ASSUME NEW m \in N, Pending(m), m # n PROVE Pending(m)'
    <2>1. PICK i \in 1..Len(pending[script[m].ch]) : pending[script[m].ch][i] = Request(m)
      BY <1>13 DEF Pending
    <2>2. CASE script[m].ch = c
      <3>1. i # 1
        BY <1>4, <1>11, <1>13, <2>1, <2>2 DEF q
      <3>2. i - 1 \in 1..(Len(q) - 1) /\ q[i] = Request(m) /\ (i - 1) + 1 = i
        BY <1>4, <2>1, <2>2, <3>1 DEF q
      <3>3. pending'[c][i - 1] = Request(m) /\ i - 1 \in 1..Len(pending'[c])
        BY <1>4, <1>6, <3>2
      <3> QED
        BY <1>s, <2>2, <3>3 DEF Pending
    <2>3. CASE script[m].ch # c
      BY <1>s, <1>6, <1>11, <2>1, <2>3 DEF Pending
    <2> QED
      BY <2>2, <2>3
  <1>14. Pending(n)
    <2>1. PICK m \in N : q[1] = Request(m)
      BY <1>4 DEF Requests
    <2>2. m = n
      BY <1>4, <1>11, <2>1
    <2>3. 1 \in 1..Len(q)
      BY <1>4
    <2> QED
      BY <1>2, <2>1, <2>2, <2>3 DEF Pending, q, c
  <1>15. \A m \in N : Pending(m)' <=> Pending(m) /\ m # n
    BY <1>12, <1>13
  <1> QED
    BY <1>1, <1>2, <1>6, <1>8, <1>9, <1>14, <1>15

(* The broker's relay observes: an answer takes its own request, the first *)
(* of the channel's queue; an event takes none.                            *)
LEMMA PairBrokerObserve ==
    ASSUME TypeInv, PhaseInv, PairInv, [Next]_vars, Observe("s2c")
    PROVE  PairInv'
  <1> DEFINE N == 1..Len(script)
  <1>0. /\ script' = script /\ Requests' = Requests /\ \A n : Request(n)' = Request(n)
        /\ Len(script) \in Nat
    BY ScriptStays, ScriptFacts DEF TypeInv
  <1>1. /\ relay["s2c"].pc = "observe" /\ relay'["s2c"].pc = "read"
        /\ relay'["s2c"].frame = relay["s2c"].frame /\ relay'["c2s"] = relay["c2s"]
        /\ UNCHANGED <<phase, read, toBroker, outbox, fromBroker, shut>>
    <2>1. relay' = [relay EXCEPT !["s2c"].pc = "read"]
      BY DEF Observe
    <2>2. relay'["s2c"].frame = relay["s2c"].frame
      BY <2>1, DirectionFacts DEF TypeInv, Relays
    <2> QED
      BY <2>2, DirectionFacts, ObserveFacts DEF net
  <1>2. /\ Held \in BrokerFrames /\ Held \in Frames /\ Holding /\ ~Holding'
        /\ Held' = Held
    BY <1>1, MatchFacts, BrokerFrameFacts DEF Holding, Held
  <1>3. Observed("s2c", Held)
    BY DirectionFacts DEF Observe, Held
  <1>4. /\ content' \in [Directions \X Chans -> States] /\ ContentInv' /\ Paired'
        /\ pending' = IF Held.re # NoId THEN Taken(Held) ELSE pending
    <2>1. /\ Held.re = NoId => Match(Held) = 0
          /\ Held.re # NoId => /\ Match(Held) = 1 /\ pending[Held.ch][1].id = Held.re
                               /\ Held.type = "method" /\ Held.m \in Responses
      BY <1>1, MatchFacts
    <2> QED
      BY <1>2, <1>3, <2>1, DirectionFacts, ObservedFacts DEF PairInv
  <1>5. /\ \A m : OnItsWay(m)' <=> OnItsWay(m)
        /\ OrderInv'
    BY <1>0, <1>1, <1>2, QuietFacts DEF PairInv
  <1>6. \A m : InFlight(m) <=> InFlight(m)' \/ Held.re = <<"c2s", m>>
    BY <1>1, <1>2 DEF InFlight
  <1>7. /\ \A m \in N : Pending(m)' => Pending(m)
        /\ \A m \in N : /\ Pending(m)
                        /\ InFlight(m)' \/ OnItsWay(m) \/ (m = read /\ relay["c2s"].pc = "write")
                        => Pending(m)'
        /\ \A m \in N : InFlight(m) /\ Pending(m)' => InFlight(m)'
        /\ pending' \in [Chans -> Seq(Requests)] /\ QueuesRise'
        /\ phase \in Steps => \A ch \in Chans : pending'[ch] = <<>>
        /\ \A ch \in Chans : \A i \in 1..Len(pending'[ch]) :
              pending'[ch][i].ch = ch /\ Synchronous(pending'[ch][i])
    <2>1. CASE Held.re = NoId
      <3>1. pending' = pending
        BY <1>4, <2>1
      <3>2. \A m : Pending(m)' <=> Pending(m)
        BY <1>0, <3>1, QuietFacts
      <3>3. \A m : Held.re # <<"c2s", m>>
        BY <2>1 DEF NoId
      <3>4. QueuesRise'
        BY <1>1, <3>1 DEF PairInv, RisingInv, QueuesRise
      <3> QED
        BY <1>6, <3>1, <3>2, <3>3, <3>4 DEF PairInv, PlacesInv
    <2>2. CASE Held.re # NoId
      <3>1. PICK n \in N :
              /\ Held.re = <<"c2s", n>> /\ Held.ch = script[n].ch /\ Pending(n)
              /\ \A m \in N : Pending(m)' <=> Pending(m) /\ m # n
              /\ pending' \in [Chans -> Seq(Requests)] /\ QueuesRise'
              /\ \A ch \in Chans : \A i \in 1..Len(pending'[ch]) :
                    pending'[ch][i].ch = ch /\ Synchronous(pending'[ch][i])
        BY <1>0, <1>1, <1>4, <2>2, TakenFacts
      <3>2. Held.ch = script[n].ch /\ Held.re[2] = n /\ n \in Nat
        BY <1>0, <1>2, <3>1, BrokerFrameFacts
      <3>10. phase \notin Steps
        BY <1>1, DirectionFacts DEF PhaseInv
      <3>14. InFlight(n)
        BY <1>6, <3>1
      <3>15. ~InFlight(n)'
        <4>1. \A f \in BrokerFrames : f.re = <<"c2s", n>> => ~Before(Held, f)
          <5> SUFFICES ASSUME NEW f \in BrokerFrames, f.re = <<"c2s", n>>, Before(Held, f)
                       PROVE  FALSE
            OBVIOUS
          <5>1. f.ch = script[n].ch /\ f.re # NoId /\ f.re[2] = n
            BY BrokerFrameFacts
          <5> QED
            BY <2>2, <3>2, <5>1 DEF Before
        <4>2. \A i \in 1..Len(fromBroker) : fromBroker[i].re # <<"c2s", n>>
          BY <1>2, <4>1 DEF PairInv, OrderInv, TypeInv
        <4>3. \A ch \in Chans : \A i \in 1..Len(outbox[ch]) : outbox[ch][i].re # <<"c2s", n>>
          <5> SUFFICES ASSUME NEW ch \in Chans, NEW i \in 1..Len(outbox[ch])
                       PROVE  outbox[ch][i].re # <<"c2s", n>>
            OBVIOUS
          <5>1. outbox[ch][i] \in BrokerFrames /\ Before(Held, outbox[ch][i])
            BY <1>2 DEF PairInv, OrderInv, TypeInv
          <5> QED
            BY <4>1, <5>1
        <4> QED
          BY <1>1, <1>2, <4>2, <4>3 DEF InFlight
      <3>16. ~OnItsWay(n) /\ ~(n = read /\ relay["c2s"].pc = "write")
        BY <3>2, <3>14 DEF PairInv, RisingInv, Taking
      <3>17. \A m \in N : InFlight(m) /\ m # n => InFlight(m)'
        BY <1>6, <3>1
      <3> QED
        BY <3>1, <3>10, <3>15, <3>16, <3>17
    <2> QED
      BY <2>1, <2>2
  <1>8. PlacesInv'
    <2>1. relay'["c2s"].pc = "write" =>
            \E n \in 1..Len(script') :
              /\ n = read' /\ relay'["c2s"].frame = Request(n)'
              /\ relay'["c2s"].prepared <=> Synchronous(Request(n)')
              /\ Synchronous(Request(n)') => Pending(n)'
      BY <1>0, <1>1, <1>7 DEF PairInv, PlacesInv
    <2> QED
      BY <1>0, <1>1, <1>4, <1>7, <2>1 DEF PairInv, PlacesInv
  <1>9. RisingInv'
    <2>1. \A n : Taking(n) <=> Taking(n)'
      BY <1>1 DEF Taking
    <2> QED
      BY <1>0, <1>1, <1>5, <1>6, <1>7, <2>1 DEF PairInv, RisingInv
  <1>10. FiledInv'
    BY <1>0, <1>5, <1>6, <1>7 DEF PairInv, FiledInv
  <1>11. NoGapInv'
    BY <1>0, <1>1, <1>5, <1>6, <1>7 DEF PairInv, NoGapInv
  <1> QED
    BY <1>4, <1>5, <1>8, <1>9, <1>10, <1>11 DEF PairInv

(* The broker sends the next frame of a channel: it stays on its way. *)
LEMMA PairBrokerSends ==
    ASSUME TypeInv, PhaseInv, PairInv, [Next]_vars, BrokerSends
    PROVE  PairInv'
  <1>0. /\ script' = script /\ Requests' = Requests /\ \A n : Request(n)' = Request(n)
    BY ScriptStays DEF TypeInv
  <1> DEFINE b == fromBroker
  <1>1. PICK c \in Chans :
          /\ outbox[c] # <<>>
          /\ fromBroker' = Append(b, [Head(outbox[c]) EXCEPT !.id = <<"s2c", made'>>])
          /\ outbox' = [outbox EXCEPT ![c] = Tail(@)]
          /\ UNCHANGED <<phase, read, relay, pending, content, records, toBroker, shut>>
    BY DEF BrokerSends, inspector, Chans
  <1> DEFINE o == outbox[c]
             g == [Head(o) EXCEPT !.id = <<"s2c", made'>>]
  <1>2. /\ o \in Seq(BrokerFrames) /\ Len(o) \in Nat /\ Len(o) >= 1 /\ o[1] \in BrokerFrames
        /\ Tail(o) \in Seq(BrokerFrames) /\ Len(Tail(o)) = Len(o) - 1 /\ Head(o) = o[1]
        /\ \A i \in 1..(Len(o) - 1) : Tail(o)[i] = o[i + 1]
        /\ o[1].ch = c /\ 1 \in 1..Len(o)
    <2>1. o \in Seq(BrokerFrames) /\ o # <<>>
      BY <1>1 DEF TypeInv
    <2>2. /\ Len(o) \in Nat /\ Len(o) >= 1 /\ o[1] \in BrokerFrames
          /\ Tail(o) \in Seq(BrokerFrames) /\ Len(Tail(o)) = Len(o) - 1 /\ Head(o) = o[1]
          /\ \A i \in 1..(Len(o) - 1) : Tail(o)[i] = o[i + 1]
      BY <2>1, SeqSteps
    <2>3. 1 \in 1..Len(o)
      BY <2>2
    <2>4. o[1].ch = c
      BY <2>3 DEF TypeInv
    <2> QED
      BY <2>1, <2>2, <2>3, <2>4
  <1>3. g.re = o[1].re /\ g.ch = o[1].ch
    BY <1>2 DEF BrokerFrames, Frames
  <1> HIDE DEF g
  <1>4. /\ b \in Seq(BrokerFrames) /\ Len(b) \in Nat
        /\ Len(fromBroker') = Len(b) + 1
        /\ \A i \in 1..Len(b) : fromBroker'[i] = b[i]
        /\ fromBroker'[Len(b) + 1] = g
    BY <1>1 DEF TypeInv, g
  <1>5. /\ outbox'[c] = Tail(o)
        /\ \A ch \in Chans : ch # c => outbox'[ch] = outbox[ch]
    BY <1>1 DEF TypeInv
  <1> HIDE DEF b, o
  <1>6. \A i \in 1..Len(fromBroker') :
          \/ i \in 1..Len(b) /\ fromBroker'[i] = b[i]
          \/ i = Len(b) + 1 /\ fromBroker'[i] = g
    BY <1>4
  <1>7. \A j \in 1..Len(outbox'[c]) : j + 1 \in 1..Len(o) /\ 1 < j + 1 /\ outbox'[c][j] = o[j + 1]
    BY <1>2, <1>5
  <1>8. /\ \A m : Pending(m)' <=> Pending(m)
        /\ \A m : OnItsWay(m)' <=> OnItsWay(m)
        /\ ContentInv' /\ Paired'
    BY <1>0, <1>1, QuietFacts DEF PairInv
  <1>9. Holding' <=> Holding
    BY <1>1 DEF Holding
  <1>10. \A m : InFlight(m)' <=> InFlight(m)
    <2> SUFFICES ASSUME NEW m PROVE InFlight(m)' <=> InFlight(m)
      OBVIOUS
    <2> DEFINE e == <<"c2s", m>>
    <2>1. Holding' /\ Held'.re = e <=> Holding /\ Held.re = e
      BY <1>1, <1>9 DEF Held
    <2>2. ASSUME NEW i \in 1..Len(fromBroker'), fromBroker'[i].re = e PROVE InFlight(m)
      <3>1. CASE i \in 1..Len(b) /\ fromBroker'[i] = b[i]
        BY <2>2, <3>1 DEF InFlight, b
      <3>2. CASE fromBroker'[i] = g
        <4>1. o[1].re = e
          BY <1>3, <2>2, <3>2
        <4> QED
          BY <1>1, <1>2, <4>1 DEF InFlight, o
      <3> QED
        BY <1>6, <3>1, <3>2
    <2>3. ASSUME NEW ch \in Chans, NEW j \in 1..Len(outbox'[ch]), outbox'[ch][j].re = e
          PROVE  InFlight(m)
      <3>1. CASE ch = c
        <4>1. j + 1 \in 1..Len(o) /\ o[j + 1].re = e
          BY <1>7, <2>3, <3>1
        <4> QED
          BY <4>1 DEF InFlight, o
      <3>2. CASE ch # c
        BY <1>5, <2>3, <3>2 DEF InFlight
      <3> QED
        BY <3>1, <3>2
    <2>4. ASSUME NEW i \in 1..Len(fromBroker), fromBroker[i].re = e PROVE InFlight(m)'
      <3>1. i \in 1..Len(fromBroker') /\ fromBroker'[i].re = e
        BY <1>4, <2>4 DEF b
      <3> QED
        BY <3>1 DEF InFlight
    <2>5. ASSUME NEW ch \in Chans, NEW j \in 1..Len(outbox[ch]), outbox[ch][j].re = e
          PROVE  InFlight(m)'
      <3>1. CASE ch = c /\ j = 1
        <4>1. fromBroker'[Len(b) + 1].re = e /\ Len(b) + 1 \in 1..Len(fromBroker')
          BY <1>3, <1>4, <2>5, <3>1 DEF o
        <4> QED
          BY <4>1 DEF InFlight
      <3>2. CASE ch = c /\ j # 1
        <4>1. j \in 1..Len(o) /\ o[j].re = e
          BY <2>5, <3>2 DEF o
        <4>2. j - 1 \in 1..(Len(o) - 1) /\ (j - 1) + 1 = j
          BY <1>2, <3>2, <4>1
        <4>3. j - 1 \in 1..Len(outbox'[c]) /\ outbox'[c][j - 1].re = e
          BY <1>2, <1>5, <4>1, <4>2
        <4> QED
          BY <4>3 DEF InFlight
      <3>3. CASE ch # c
        BY <1>5, <2>5, <3>3 DEF InFlight
      <3> QED
        BY <3>1, <3>2, <3>3
    <2>6. CASE InFlight(m)
      BY <2>1, <2>4, <2>5, <2>6 DEF InFlight
    <2>7. CASE InFlight(m)'
      BY <2>1, <2>2, <2>3, <2>7 DEF InFlight
    <2> QED
      BY <2>6, <2>7
  <1>11. OrderInv'
    <2>0. \A f : (Before(f, g) <=> Before(f, o[1])) /\ (Before(g, f) <=> Before(o[1], f))
      BY <1>3 DEF Before
    <2>1. ASSUME NEW i \in 1..Len(fromBroker'), NEW j \in 1..Len(fromBroker'), i < j
          PROVE  Before(fromBroker'[i], fromBroker'[j])
      <3>1. i \in 1..Len(b) /\ fromBroker'[i] = b[i]
        BY <1>4, <1>6, <2>1
      <3>2. CASE j \in 1..Len(b) /\ fromBroker'[j] = b[j]
        BY <2>1, <3>1, <3>2 DEF PairInv, OrderInv, b
      <3>3. CASE fromBroker'[j] = g
        <4>1. Before(b[i], o[1])
          BY <1>2, <3>1 DEF PairInv, OrderInv, b, o
        <4> QED
          BY <2>0, <3>1, <3>3, <4>1
      <3> QED
        BY <1>6, <3>2, <3>3
    <2>2. ASSUME NEW ch \in Chans, NEW i \in 1..Len(outbox'[ch]), NEW j \in 1..Len(outbox'[ch]),
                 i < j
          PROVE  Before(outbox'[ch][i], outbox'[ch][j])
      <3>1. CASE ch = c
        <4>1. /\ i + 1 \in 1..Len(o) /\ j + 1 \in 1..Len(o) /\ i + 1 < j + 1
              /\ outbox'[ch][i] = o[i + 1] /\ outbox'[ch][j] = o[j + 1]
          BY <1>2, <1>7, <2>2, <3>1
        <4> QED
          BY <4>1 DEF PairInv, OrderInv, o
      <3>2. CASE ch # c
        <4>1. outbox'[ch] = outbox[ch]
          BY <1>5, <3>2
        <4> QED
          BY <2>2, <4>1 DEF PairInv, OrderInv
      <3> QED
        BY <3>1, <3>2
    <2>3. ASSUME NEW ch \in Chans, NEW j \in 1..Len(outbox'[ch])
          PROVE  /\ Before(g, outbox'[ch][j])
                 /\ \A i \in 1..Len(b) : Before(b[i], outbox'[ch][j])
                 /\ Holding => Before(Held, outbox'[ch][j])
      <3>1. CASE ch = c
        <4>1. j + 1 \in 1..Len(o) /\ 1 < j + 1 /\ outbox'[ch][j] = o[j + 1]
          BY <1>7, <3>1
        <4>2. Before(o[1], o[j + 1])
          BY <1>2, <4>1 DEF PairInv, OrderInv, o
        <4>3. /\ \A i \in 1..Len(b) : Before(b[i], o[j + 1])
              /\ Holding => Before(Held, o[j + 1])
          BY <4>1 DEF PairInv, OrderInv, b, o
        <4> QED
          BY <2>0, <4>1, <4>2, <4>3
      <3>2. CASE ch # c
        <4>1. outbox'[ch] = outbox[ch]
          BY <1>5, <3>2
        <4>2. outbox[ch][j].ch = ch /\ g.ch = c
          BY <1>2, <1>3, <2>3, <4>1 DEF TypeInv
        <4>3. Before(g, outbox[ch][j])
          BY <3>2, <4>2 DEF Before
        <4>4. /\ \A i \in 1..Len(b) : Before(b[i], outbox[ch][j])
              /\ Holding => Before(Held, outbox[ch][j])
          BY <2>3, <4>1 DEF PairInv, OrderInv, b
        <4> QED
          BY <4>1, <4>3, <4>4
      <3> QED
        BY <3>1, <3>2
    <2>4. ASSUME NEW i \in 1..Len(fromBroker'), Holding PROVE Before(Held, fromBroker'[i])
      <3>1. CASE i \in 1..Len(b) /\ fromBroker'[i] = b[i]
        BY <2>4, <3>1 DEF PairInv, OrderInv, b
      <3>2. CASE fromBroker'[i] = g
        <4>1. Before(Held, o[1])
          BY <1>2, <2>4 DEF PairInv, OrderInv, o
        <4> QED
          BY <2>0, <3>2, <4>1
      <3> QED
        BY <1>6, <3>1, <3>2
    <2>5. \A i \in 1..Len(fromBroker'), ch \in Chans : \A j \in 1..Len(outbox'[ch]) :
             Before(fromBroker'[i], outbox'[ch][j])
      BY <1>6, <2>3
    <2>6. Held' = Held
      BY <1>1 DEF Held
    <2> QED
      BY <1>9, <2>1, <2>2, <2>3, <2>4, <2>5, <2>6 DEF OrderInv
  <1>12. PlacesInv'
    BY <1>0, <1>1, <1>8 DEF PairInv, PlacesInv
  <1>13. RisingInv'
    <2>1. \A n : Taking(n) <=> Taking(n)'
      BY <1>1 DEF Taking
    <2>2. QueuesRise'
      BY <1>1 DEF PairInv, RisingInv, QueuesRise
    <2> QED
      BY <1>0, <1>1, <1>8, <1>10, <2>1, <2>2 DEF PairInv, RisingInv
  <1>14. FiledInv'
    BY <1>0, <1>8, <1>10 DEF PairInv, FiledInv
  <1>15. NoGapInv'
    BY <1>0, <1>1, <1>8, <1>10 DEF PairInv, NoGapInv
  <1> QED
    BY <1>8, <1>11, <1>12, <1>13, <1>14, <1>15 DEF PairInv

(* The client does not reopen a channel that the broker closed. *)
NoConfirm == \A s \in Scripts : \A i \in 1..Len(s) : s[i].m # "close-ok"

(***************************************************************************)
(* The broker takes a frame.  Its answer is the last of the channel, and   *)
(* the requests before it have theirs on the way.                          *)
(***************************************************************************)
LEMMA PairBrokerTakes ==
    ASSUME TypeInv, PhaseInv, PairInv, [Next]_vars, BrokerTakes, NoConfirm
    PROVE  PairInv'
  <1> DEFINE N == 1..Len(script)
             t == toBroker
             frame == Head(t)
             n == frame.id[2]
             c == frame.ch
  <1>0. /\ script' = script /\ Requests' = Requests /\ \A m : Request(m)' = Request(m)
        /\ Len(script) \in Nat
    BY ScriptStays, ScriptFacts DEF TypeInv
  <1>1. /\ t # <<>> /\ toBroker' = Tail(t)
        /\ UNCHANGED <<phase, read, relay, pending, content, records, fromBroker>>
        /\ \/ /\ c \in shut
              /\ shut' = IF frame.m = "close-ok" THEN shut \ {c} ELSE shut
              /\ outbox' = outbox
           \/ \E answer \in Answers(frame) :
              /\ c \notin shut
              /\ outbox' = [outbox EXCEPT ![c] = @ \o answer]
              /\ shut' = IF answer # <<>> /\ answer[1].m = "close"
                         THEN shut \cup {c} ELSE shut
    BY DEF BrokerTakes, inspector
  <1>2. /\ t \in Seq(Requests) /\ Len(t) \in Nat /\ Len(t) >= 1
        /\ frame \in Requests /\ frame = t[1]
        /\ Len(Tail(t)) = Len(t) - 1 /\ \A i \in 1..(Len(t) - 1) : Tail(t)[i] = t[i + 1]
    BY <1>1, SeqSteps DEF TypeInv
  <1> HIDE DEF t, frame
  <1>3. /\ n \in N /\ frame = Request(n) /\ c \in Chans /\ c = script[n].ch
        /\ frame.m = script[n].m /\ frame.id = <<"c2s", n>> /\ frame.id # NoId
    <2>1. /\ n \in N /\ frame = Request(n) /\ c \in Chans /\ c = script[n].ch
          /\ frame.m = script[n].m /\ frame.id = <<"c2s", n>>
      BY <1>2, RequestNumber DEF TypeInv
    <2> HIDE DEF n
    <2> QED
      BY <2>1 DEF NoId
  <1>4. frame.m # "close-ok" /\ phase = "relay"
    <2>1. frame.m # "close-ok"
      BY <1>3 DEF NoConfirm, TypeInv
    <2>2. phase = "relay"
      BY <1>1 DEF PhaseInv, t
    <2> QED
      BY <2>1, <2>2
  <1> HIDE DEF n, c
  <1>5. OnItsWay(n) /\ Taking(n) /\ \A m \in N : InFlight(m) => m < n
    <2>1. 1 \in 1..Len(toBroker) /\ toBroker[1] = Request(n)
      BY <1>2, <1>3 DEF t
    <2>2. OnItsWay(n)
      BY <2>1 DEF OnItsWay
    <2> QED
      BY <1>3, <2>2 DEF PairInv, RisingInv
  <1>6. \A m \in N : OnItsWay(m)' <=> OnItsWay(m) /\ m # n
    <2> SUFFICES ASSUME NEW m \in N PROVE OnItsWay(m)' <=> OnItsWay(m) /\ m # n
      OBVIOUS
    <2>1. Request(m).id[2] = m
      BY RequestFacts DEF TypeInv
    <2>2. ASSUME OnItsWay(m)' PROVE OnItsWay(m) /\ m # n
      <3>1. PICK i \in 1..Len(Tail(t)) : Tail(t)[i] = Request(m)
        BY <1>0, <1>1, <2>2 DEF OnItsWay
      <3>2. i + 1 \in 1..Len(t) /\ t[i + 1] = Request(m) /\ 1 \in 1..Len(t) /\ 1 < i + 1
        BY <1>2, <3>1
      <3>3. t[1].id[2] < t[i + 1].id[2]
        BY <3>2 DEF PairInv, RisingInv, QueuesRise, t
      <3>4. n < m
        BY <1>2, <2>1, <3>2, <3>3 DEF n
      <3> QED
        BY <1>3, <3>2, <3>4 DEF OnItsWay, t
    <2>3. ASSUME OnItsWay(m), m # n PROVE OnItsWay(m)'
      <3>1. PICK i \in 1..Len(t) : t[i] = Request(m)
        BY <2>3 DEF OnItsWay, t
      <3>2. i # 1
        BY <1>2, <2>1, <2>3, <3>1 DEF n
      <3>3. i - 1 \in 1..(Len(t) - 1) /\ (i - 1) + 1 = i
        BY <1>2, <3>1, <3>2
      <3>4. i - 1 \in 1..Len(Tail(t)) /\ Tail(t)[i - 1] = Request(m)
        BY <1>2, <3>1, <3>3
      <3> QED
        BY <1>0, <1>1, <3>4 DEF OnItsWay
    <2> QED
      BY <2>2, <2>3
  <1>7. ASSUME NEW m \in N, OnItsWay(m) PROVE n <= m
    <2>1. Request(m).id[2] = m
      BY RequestFacts DEF TypeInv
    <2>2. PICK i \in 1..Len(t) : t[i] = Request(m)
      BY <1>7 DEF OnItsWay, t
    <2>3. CASE i = 1
      BY <1>2, <1>3, <2>1, <2>2, <2>3 DEF n
    <2>4. CASE i # 1
      <3>1. 1 < i /\ 1 \in 1..Len(t)
        BY <1>2, <2>2, <2>4
      <3>2. t[1].id[2] < t[i].id[2]
        BY <3>1 DEF PairInv, RisingInv, QueuesRise, t
      <3>3. t[1].id[2] = n
        BY <1>2 DEF n
      <3> QED
        BY <1>3, <2>1, <2>2, <3>2, <3>3
    <2> QED
      BY <2>3, <2>4
  <1>8. /\ \A m : Pending(m)' <=> Pending(m)
        /\ ContentInv' /\ Paired'
    BY <1>0, <1>1, QuietFacts DEF PairInv
  <1>9. (Holding' <=> Holding) /\ Held' = Held
    BY <1>1 DEF Holding, Held
  <1>10. \E new \in BOOLEAN :
           /\ \A m : InFlight(m)' <=> InFlight(m) \/ (m = n /\ new)
           /\ new => Synchronous(frame) /\ c \notin shut
           /\ Synchronous(frame) /\ c \notin shut' => new
           /\ shut \subseteq shut' /\ OrderInv'
    <2>1. CASE c \in shut /\ shut' = shut /\ outbox' = outbox
      <3>1. \A m : InFlight(m)' <=> InFlight(m)
        BY <1>0, <1>1, <1>9, <2>1, QuietFacts DEF Held
      <3>2. OrderInv'
        BY <1>0, <1>1, <1>9, <2>1, QuietFacts DEF Held, PairInv
      <3> QED
        BY <2>1, <3>1, <3>2
    <2>2. ASSUME NEW answer \in Answers(frame), c \notin shut,
                 outbox' = [outbox EXCEPT ![c] = @ \o answer],
                 shut' = IF answer # <<>> /\ answer[1].m = "close"
                         THEN shut \cup {c} ELSE shut
          PROVE  \E new \in BOOLEAN :
                   /\ \A m : InFlight(m)' <=> InFlight(m) \/ (m = n /\ new)
                   /\ new => Synchronous(frame) /\ c \notin shut
                   /\ Synchronous(frame) /\ c \notin shut' => new
                   /\ shut \subseteq shut' /\ OrderInv'
      <3> DEFINE o == outbox[c]
                 L == Len(o)
                 A == Len(answer)
                 new == answer # <<>> /\ answer[1].re = frame.id
      <3>1. /\ Led(answer, c)
            /\ answer # <<>> => answer[1].re \in {NoId, frame.id}
            /\ Synchronous(frame) =>
                  answer # <<>> /\ (answer[1].re = frame.id \/ answer[1].m = "close")
            /\ ~Synchronous(frame) => \A i \in 1..Len(answer) : answer[i].re = NoId
        BY <1>2, AnswersFacts DEF TypeInv, c
      <3>2. /\ answer \in Seq(BrokerFrames) /\ A \in Nat
            /\ \A i \in 1..A : answer[i].ch = c /\ (i > 1 => answer[i].re = NoId)
            /\ o \in Seq(BrokerFrames) /\ L \in Nat
            /\ (answer # <<>> <=> A >= 1)
        <4>1. answer \in Seq(BrokerFrames)
              /\ \A i \in 1..A : answer[i].ch = c /\ (i > 1 => answer[i].re = NoId)
          BY <3>1 DEF Led
        <4>2. o \in Seq(BrokerFrames) BY <1>3 DEF TypeInv
        <4>3. A \in Nat /\ L \in Nat BY <4>1, <4>2
        <4>4. answer # <<>> <=> A >= 1 BY <4>1
        <4> QED BY <4>1, <4>2, <4>3, <4>4
      <3>3. /\ Len(o \o answer) = L + A
            /\ \A i \in 1..L : (o \o answer)[i] = o[i]
            /\ \A i \in (L + 1)..(L + A) : (o \o answer)[i] = answer[i - L]
        <4>1. o \in Seq(BrokerFrames) /\ answer \in Seq(BrokerFrames)
          BY <3>2
        <4> HIDE DEF o
        <4> QED BY <4>1, ConcatFacts, Zenon
      <3>4. /\ outbox'[c] = o \o answer
            /\ \A ch \in Chans : ch # c => outbox'[ch] = outbox[ch]
        BY <1>3, <2>2 DEF TypeInv
      <3>5. new \in BOOLEAN /\ (new => Synchronous(frame))
        <4>1. A >= 1 => 1 \in 1..A
          BY <3>2
        <4> QED
          BY <1>3, <3>1, <3>2, <4>1
      <3>6. Synchronous(frame) /\ c \notin shut' => new
        BY <2>2, <3>1
      <3> HIDE DEF o, L, A
      <3>7. \A ch \in Chans : \A j \in 1..Len(outbox'[ch]) :
              \/ j \in 1..Len(outbox[ch]) /\ outbox'[ch][j] = outbox[ch][j]
              \/ /\ ch = c /\ j > L /\ j - L \in 1..A
                 /\ outbox'[ch][j] = answer[j - L]
        <4> SUFFICES ASSUME NEW j \in 1..Len(outbox'[c])
                     PROVE  \/ j \in 1..L /\ outbox'[c][j] = o[j]
                            \/ j > L /\ j - L \in 1..A /\ outbox'[c][j] = answer[j - L]
          BY <3>4 DEF o, L
        <4>1. j \in 1..(L + A)
          BY <3>3, <3>4
        <4>2. CASE j <= L
          BY <3>2, <3>3, <3>4, <4>1, <4>2
        <4>3. CASE j > L
          <5>1. j \in (L + 1)..(L + A) /\ j - L \in 1..A
            BY <3>2, <4>1, <4>3
          <5> QED
            BY <3>3, <3>4, <4>3, <5>1
        <4> QED
          BY <3>2, <4>1, <4>2, <4>3
      <3>8. \A ch \in Chans : \A j \in 1..Len(outbox[ch]) :
              j \in 1..Len(outbox'[ch]) /\ outbox'[ch][j] = outbox[ch][j]
        <4> SUFFICES ASSUME NEW j \in 1..L
                     PROVE  j \in 1..Len(outbox'[c]) /\ outbox'[c][j] = o[j]
          BY <3>4 DEF o, L
        <4>1. j \in 1..(L + A)
          BY <3>2
        <4> QED
          BY <3>3, <3>4, <4>1
      <3>9. ASSUME new PROVE L + 1 \in 1..Len(outbox'[c]) /\ outbox'[c][L + 1] = answer[1]
        <4>1. A >= 1
          BY <3>2, <3>9
        <4>2. L + 1 \in (L + 1)..(L + A) /\ (L + 1) - L = 1 /\ L + 1 \in 1..(L + A)
          BY <3>2, <4>1
        <4> QED
          BY <3>3, <3>4, <4>2
      <3>10. \A i \in 1..A : answer[i].re = NoId \/ (i = 1 /\ new /\ answer[i].re = frame.id)
        BY <3>1, <3>2
      <3> HIDE DEF new
      <3>11. \A m : InFlight(m)' <=> InFlight(m) \/ (m = n /\ new)
        <4> SUFFICES ASSUME NEW m PROVE InFlight(m)' <=> InFlight(m) \/ (m = n /\ new)
          OBVIOUS
        <4> DEFINE e == <<"c2s", m>>
        <4>1. ASSUME NEW ch \in Chans, NEW j \in 1..Len(outbox'[ch]), outbox'[ch][j].re = e
              PROVE  InFlight(m) \/ (m = n /\ new)
          <5>1. CASE j \in 1..Len(outbox[ch]) /\ outbox'[ch][j] = outbox[ch][j]
            BY <4>1, <5>1 DEF InFlight
          <5>2. CASE j - L \in 1..A /\ outbox'[ch][j] = answer[j - L]
            <6>1. answer[j - L].re = e /\ e # NoId
              BY <4>1, <5>2 DEF NoId
            <6>2. new /\ e = frame.id
              BY <3>10, <5>2, <6>1
            <6> QED
              BY <1>3, <6>2
          <5> QED
            BY <3>7, <5>1, <5>2
        <4>2. ASSUME m = n, new PROVE InFlight(m)'
          <5>1. L + 1 \in 1..Len(outbox'[c]) /\ outbox'[c][L + 1].re = e
            BY <1>3, <3>9, <4>2 DEF new
          <5> QED
            BY <1>3, <5>1 DEF InFlight
        <4>3. (\E ch \in Chans : \E i \in 1..Len(outbox[ch]) : outbox[ch][i].re = e)
                => InFlight(m)'
          BY <3>8 DEF InFlight
        <4> QED
          BY <1>1, <1>9, <4>1, <4>2, <4>3 DEF InFlight
      <3>12. OrderInv'
        <4>1. ASSUME NEW x \in BrokerFrames, NEW i \in 1..A,
                     \A m : x.re = <<"c2s", m>> => InFlight(m)
              PROVE  Before(x, answer[i])
          <5>1. CASE answer[i].re = NoId
            BY <5>1 DEF Before
          <5>2. CASE x.re = NoId
            BY <5>2 DEF Before
          <5>3. CASE x.re # NoId /\ answer[i].re = frame.id
            <6>1. PICK m \in N : x.re = <<"c2s", m>>
              BY <5>3, BrokerFrameFacts
            <6>2. x.re[2] = m /\ m < n
              BY <1>5, <4>1, <6>1
            <6>3. answer[i].re[2] = n
              BY <1>3, <5>3
            <6> QED
              BY <6>2, <6>3 DEF Before
          <5> QED
            BY <3>10, <5>1, <5>2, <5>3
        <4>2. \A f : \A i \in 1..A : i > 1 => Before(f, answer[i])
          BY <3>10 DEF Before
        <4>3. ASSUME NEW ch \in Chans, NEW i \in 1..Len(outbox'[ch]),
                     NEW j \in 1..Len(outbox'[ch]), i < j
              PROVE  Before(outbox'[ch][i], outbox'[ch][j])
          <5>1. CASE j \in 1..Len(outbox[ch]) /\ outbox'[ch][j] = outbox[ch][j]
            <6>0. outbox[ch] \in Seq(BrokerFrames) /\ Len(outbox[ch]) \in Nat
              BY DEF TypeInv
            <6>1. i \in 1..Len(outbox[ch])
              BY <4>3, <5>1, <6>0
            <6>2. outbox'[ch][i] = outbox[ch][i]
              BY <3>8, <6>1
            <6> QED
              BY <4>3, <5>1, <6>1, <6>2 DEF PairInv, OrderInv
          <5>2. CASE ch = c /\ j > L /\ j - L \in 1..A /\ outbox'[ch][j] = answer[j - L]
            <6>1. CASE i \in 1..Len(outbox[ch]) /\ outbox'[ch][i] = outbox[ch][i]
              <7>1. outbox[ch][i] \in BrokerFrames
                BY <6>1 DEF TypeInv
              <7>2. \A m : outbox[ch][i].re = <<"c2s", m>> => InFlight(m)
                BY <6>1 DEF InFlight
              <7> QED
                BY <4>1, <5>2, <6>1, <7>1, <7>2
            <6>2. CASE i > L
              <7>1. j - L > 1
                BY <3>2, <4>3, <5>2, <6>2
              <7> QED
                BY <4>2, <5>2, <7>1
            <6> QED
              BY <3>7, <6>1, <6>2
          <5> QED
            BY <3>7, <5>1, <5>2
        <4>4. ASSUME NEW x \in BrokerFrames, \A m : x.re = <<"c2s", m>> => InFlight(m),
                     NEW ch \in Chans, NEW j \in 1..Len(outbox'[ch]),
                     j \in 1..Len(outbox[ch]) => Before(x, outbox[ch][j])
              PROVE  Before(x, outbox'[ch][j])
          BY <3>7, <4>1, <4>4
        <4>5. ASSUME NEW i \in 1..Len(fromBroker), NEW ch \in Chans,
                     NEW j \in 1..Len(outbox'[ch])
              PROVE  Before(fromBroker[i], outbox'[ch][j])
          <5>1. fromBroker[i] \in BrokerFrames
            BY DEF TypeInv
          <5>2. \A m : fromBroker[i].re = <<"c2s", m>> => InFlight(m)
            BY DEF InFlight
          <5>3. j \in 1..Len(outbox[ch]) => Before(fromBroker[i], outbox[ch][j])
            BY DEF PairInv, OrderInv
          <5> QED
            BY <4>4, <5>1, <5>2, <5>3
        <4>6. ASSUME Holding, NEW ch \in Chans, NEW j \in 1..Len(outbox'[ch])
              PROVE  Before(Held, outbox'[ch][j])
          <5>1. Held \in BrokerFrames
            BY <4>6 DEF TypeInv, Holding, Held
          <5>2. \A m : Held.re = <<"c2s", m>> => InFlight(m)
            BY <4>6 DEF InFlight
          <5>3. j \in 1..Len(outbox[ch]) => Before(Held, outbox[ch][j])
            BY <4>6 DEF PairInv, OrderInv
          <5> QED
            BY <4>4, <5>1, <5>2, <5>3
        <4>7. /\ \A i, j \in 1..Len(fromBroker) : i < j => Before(fromBroker[i], fromBroker[j])
              /\ Holding => \A i \in 1..Len(fromBroker) : Before(Held, fromBroker[i])
          BY DEF PairInv, OrderInv
        <4> QED
          BY <1>1, <1>9, <4>3, <4>5, <4>6, <4>7 DEF OrderInv
      <3> QED
        BY <2>2, <3>5, <3>6, <3>11, <3>12
    <2> QED
      BY <1>1, <1>4, <2>1, <2>2
  <1>11. PICK new \in BOOLEAN :
           /\ \A m : InFlight(m)' <=> InFlight(m) \/ (m = n /\ new)
           /\ new => Synchronous(frame) /\ c \notin shut
           /\ Synchronous(frame) /\ c \notin shut' => new
           /\ shut \subseteq shut' /\ OrderInv'
    BY <1>10
  <1>12. PlacesInv'
    BY <1>0, <1>1, <1>8 DEF PairInv, PlacesInv
  <1>13. RisingInv'
    <2>1. \A m : Taking(m) <=> Taking(m)'
      BY <1>1 DEF Taking
    <2>2. QueuesRise'
      <3>1. ASSUME NEW i \in 1..Len(Tail(t)), NEW j \in 1..Len(Tail(t)), i < j
            PROVE  Tail(t)[i].id[2] < Tail(t)[j].id[2]
        <4>1. /\ i + 1 \in 1..Len(t) /\ j + 1 \in 1..Len(t) /\ i + 1 < j + 1
              /\ Tail(t)[i] = t[i + 1] /\ Tail(t)[j] = t[j + 1]
          BY <1>2, <3>1
        <4> QED
          BY <4>1 DEF PairInv, RisingInv, QueuesRise, t
      <3> QED
        BY <1>1, <3>1 DEF PairInv, RisingInv, QueuesRise
    <2>3. \A m \in N : Pending(m)' => m <= read
      BY <1>8 DEF PairInv, RisingInv
    <2>4. \A m \in N : OnItsWay(m)' \/ InFlight(m)' => Taking(m)
      BY <1>5, <1>6, <1>11 DEF PairInv, RisingInv
    <2>5. \A m, k \in N : InFlight(m)' /\ OnItsWay(k)' => m < k
      <3> SUFFICES ASSUME NEW m \in N, NEW k \in N, InFlight(m)', OnItsWay(k)'
                   PROVE  m < k
        OBVIOUS
      <3>1. OnItsWay(k) /\ k # n /\ n <= k
        BY <1>6, <1>7
      <3>2. InFlight(m) \/ m = n
        BY <1>11
      <3> QED
        BY <1>3, <3>1, <3>2 DEF PairInv, RisingInv
    <2> QED
      BY <1>0, <1>1, <2>1, <2>2, <2>3, <2>4, <2>5 DEF RisingInv
  <1>14. FiledInv'
    <2>1. \A m \in N : InFlight(m)' \/ (OnItsWay(m)' /\ Synchronous(Request(m))) => Pending(m)
      BY <1>3, <1>5, <1>6, <1>11 DEF PairInv, FiledInv
    <2> QED
      BY <1>0, <1>8, <2>1 DEF FiledInv
  <1>15. NoGapInv'
    <2> SUFFICES ASSUME relay["s2c"].pc # "end"
                 PROVE  /\ \A k, p \in N :
                             /\ InFlight(k)' /\ Pending(p)' /\ script[p].ch = script[k].ch /\ p < k
                             => InFlight(p)'
                        /\ \A p \in N : Pending(p)' /\ script[p].ch \notin shut' =>
                             \/ InFlight(p)' \/ OnItsWay(p)'
                             \/ p = read /\ relay["c2s"].pc \in {"write", "end"}
      BY <1>0, <1>1 DEF NoGapInv
    <2>1. \A p \in N : Pending(p) /\ script[p].ch \notin shut =>
            \/ InFlight(p) \/ OnItsWay(p)
            \/ p = read /\ relay["c2s"].pc \in {"write", "end"}
      BY <1>4 DEF PairInv, NoGapInv
    <2>2. ASSUME NEW k \in N, NEW p \in N, InFlight(k)', Pending(p)',
                 script[p].ch = script[k].ch, p < k
          PROVE  InFlight(p)'
      <3>1. Pending(p)
        BY <1>8, <2>2
      <3>2. CASE InFlight(k)
        BY <1>11, <2>2, <3>1, <3>2 DEF PairInv, NoGapInv
      <3>3. CASE k = n /\ new
        <4>1. script[p].ch \notin shut
          BY <1>3, <1>11, <2>2, <3>3
        <4>2. ~OnItsWay(p)
          BY <1>3, <1>7, <2>2, <3>3
        <4>3. p # read
          BY <1>3, <1>5, <2>2, <3>3 DEF Taking, TypeInv
        <4> QED
          BY <1>11, <2>1, <3>1, <4>1, <4>2, <4>3
      <3> QED
        BY <1>11, <2>2, <3>2, <3>3
    <2>3. ASSUME NEW p \in N, Pending(p)', script[p].ch \notin shut'
          PROVE  \/ InFlight(p)' \/ OnItsWay(p)'
                 \/ p = read /\ relay["c2s"].pc \in {"write", "end"}
      <3>1. Pending(p) /\ script[p].ch \notin shut
        BY <1>8, <1>11, <2>3
      <3>2. CASE p = n
        <4>1. Synchronous(frame)
          BY <1>3, <3>1, <3>2 DEF PairInv, PlacesInv, Pending
        <4> QED
          BY <1>3, <1>11, <2>3, <3>2, <4>1
      <3>3. CASE p # n
        BY <1>6, <1>11, <2>1, <3>1, <3>3
      <3> QED
        BY <3>2, <3>3
    <2> QED
      BY <2>2, <2>3
  <1> QED
    BY <1>8, <1>11, <1>12, <1>13, <1>14, <1>15 DEF PairInv

(* The connections are closed: what a relay holds is all that is left. *)
LEMMA PairEnd ==
    ASSUME TypeInv, PhaseInv, PairInv, [Next]_vars, End
    PROVE  PairInv'
  <1> DEFINE N == 1..Len(script)
  <1>0. /\ script' = script /\ Requests' = Requests /\ \A n : Request(n)' = Request(n)
    BY ScriptStays DEF TypeInv
  <1>1. /\ phase = "relay" /\ phase' = "wait" /\ toBroker' = <<>> /\ fromBroker' = <<>>
        /\ \A ch \in Chans : outbox'[ch] = <<>>
        /\ UNCHANGED <<read, relay, pending, content, records, shut>>
    BY DEF End, inspector, TypeInv
  <1>2. /\ \A m : Pending(m)' <=> Pending(m)
        /\ ContentInv' /\ Paired'
    BY <1>0, <1>1, QuietFacts DEF PairInv
  <1>3. (Holding' <=> Holding) /\ Held' = Held
    BY <1>1 DEF Holding, Held
  <1>4. \A m : InFlight(m)' <=> Holding /\ Held.re = <<"c2s", m>>
    BY <1>1, <1>3 DEF InFlight
  <1>5. \A m : InFlight(m)' => InFlight(m)
    BY <1>4 DEF InFlight
  <1>6. \A m : ~OnItsWay(m)'
    BY <1>1 DEF OnItsWay
  <1>7. OrderInv'
    BY <1>1 DEF OrderInv
  <1>8. PlacesInv'
    BY <1>0, <1>1, <1>2 DEF PairInv, PlacesInv, Steps
  <1>9. RisingInv'
    <2>1. \A n : Taking(n) <=> Taking(n)'
      BY <1>1 DEF Taking
    <2>2. QueuesRise'
      BY <1>1 DEF PairInv, RisingInv, QueuesRise
    <2> QED
      BY <1>0, <1>1, <1>2, <1>5, <1>6, <2>1, <2>2 DEF PairInv, RisingInv
  <1>10. FiledInv'
    BY <1>0, <1>2, <1>5, <1>6 DEF PairInv, FiledInv
  <1>11. NoGapInv'
    <2> SUFFICES ASSUME relay["s2c"].pc # "end", NEW n \in N, NEW p \in N,
                        InFlight(n)', Pending(p)', script[p].ch = script[n].ch, p < n
                 PROVE  FALSE
      BY <1>0, <1>1 DEF NoGapInv
    <2>1. InFlight(p)
      BY <1>2, <1>5 DEF PairInv, NoGapInv
    <2> QED
      BY <1>4, <2>1, HeldFirst DEF PairInv
  <1> QED
    BY <1>2, <1>7, <1>8, <1>9, <1>10, <1>11 DEF PairInv

(* Nothing is held, filed or on its way. *)
Quiet ==
    /\ toBroker = <<>> /\ fromBroker = <<>> /\ ~Holding
    /\ \A ch \in Chans : outbox[ch] = <<>> /\ pending[ch] = <<>>
    /\ \A n \in 1..Len(script) : script[n].ch \in Chans

(* Then there is nothing to be in order. *)
LEMMA QuietState == Quiet => OrderInv /\ RisingInv /\ FiledInv /\ NoGapInv
  <1> SUFFICES ASSUME Quiet PROVE OrderInv /\ RisingInv /\ FiledInv /\ NoGapInv
    OBVIOUS
  <1>1. \A n : ~InFlight(n) /\ ~OnItsWay(n)
    BY DEF Quiet, InFlight, OnItsWay
  <1>2. \A n \in 1..Len(script) : ~Pending(n)
    BY DEF Quiet, Pending
  <1>3. OrderInv
    BY DEF Quiet, OrderInv
  <1>4. QueuesRise
    BY DEF Quiet, QueuesRise
  <1> QED
    BY <1>1, <1>2, <1>3, <1>4 DEF RisingInv, FiledInv, NoGapInv

(* The same of the next state. *)
LEMMA QuietNext == Quiet' => OrderInv' /\ RisingInv' /\ FiledInv' /\ NoGapInv'
  BY QuietState, PTL

(* The session is over: what is left is recorded as failed. *)
LEMMA PairFailPending ==
    ASSUME TypeInv, PhaseInv, PairInv, [Next]_vars, FailPending
    PROVE  PairInv'
  <1> DEFINE requests == UNION {Range(pending[ch]) : ch \in DOMAIN pending}
             states == Range(content) \ {NoContent}
             K == Directions \X Chans
  <1>0. script' = script /\ Requests' = Requests /\ \A n \in 1..Len(script) : script[n].ch \in Chans
    BY ScriptStays, ScriptFacts DEF TypeInv, Frames, Chans
  <1>1. /\ phase = "wait" /\ \A d \in Directions : relay[d].pc = "end"
        /\ phase' = "closed" /\ relay' = relay
        /\ records' = records (+) SetToBag({FailedRecord(r) : r \in requests}
                                           \cup {ContentRecord(c, TRUE) : c \in states})
        /\ pending' = [ch \in DOMAIN pending |-> <<>>]
        /\ content' = [k \in DOMAIN content |-> NoContent]
        /\ UNCHANGED <<toBroker, outbox, fromBroker>>
    BY DEF FailPending, Waited, net, Add
  <1> HIDE DEF requests
  <1>2. pending \in [Chans -> Seq(Requests)] /\ content \in [K -> States]
    BY DEF PairInv, PlacesInv
  <1>3. /\ pending' \in [Chans -> Seq(Requests)]
        /\ \A ch \in Chans : pending'[ch] = <<>>
    BY <1>1, <1>2
  <1>4. Quiet'
    <2>1. toBroker = <<>> /\ fromBroker = <<>> /\ \A ch \in Chans : outbox[ch] = <<>>
      BY <1>1 DEF PhaseInv
    <2>2. relay'["s2c"].pc = "end"
      BY <1>1, DirectionFacts
    <2> QED
      BY <1>0, <1>1, <1>3, <2>1, <2>2 DEF Quiet, Holding
  <1>5. NoContent \in States /\ NoContent.re = NoContent.req
    BY DEF NoContent, States, Methods, Ids, NoId
  <1>6. content' \in [K -> States] /\ \A k \in K : content'[k] = NoContent
    BY <1>1, <1>2, <1>5
  <1>7. ContentInv'
    BY <1>5, <1>6 DEF ContentInv
  <1>8. Paired'
    <2>1. DOMAIN records' = DOMAIN records \cup ({FailedRecord(r) : r \in requests}
                                                 \cup {ContentRecord(c, TRUE) : c \in states})
      BY <1>1, AddedFacts
    <2>2. \A r : FailedRecord(r).re = NoId /\ ~FailedRecord(r).ok
      BY DEF FailedRecord, Record
    <2>3. \A c \in states : ContentRecord(c, TRUE).re = ContentRecord(c, TRUE).req
      <3> SUFFICES ASSUME NEW c \in states PROVE c.re = c.req
        BY DEF ContentRecord, Record
      <3>1. PICK k \in K : c = content[k]
        BY <1>2 DEF Range
      <3> QED
        BY <3>1 DEF PairInv, ContentInv
    <2> HIDE DEF states
    <2> QED
      BY <2>1, <2>2, <2>3 DEF PairInv, Paired
  <1>9. PlacesInv'
    <2>1. relay'["c2s"].pc = "end" /\ relay'["s2c"].pc = "end"
      BY <1>1, DirectionFacts
    <2>2. phase' \notin Steps
      BY <1>1 DEF Steps
    <2>3. \A ch \in Chans : Len(pending'[ch]) = 0
      BY <1>3
    <2> QED
      BY <1>0, <1>3, <1>6, <2>1, <2>2, <2>3 DEF PlacesInv
  <1> QED
    BY <1>4, <1>7, <1>8, <1>9, QuietNext DEF PairInv

(* Nothing is filed before the relays run. *)
LEMMA PairNegotiate ==
    ASSUME TypeInv, PhaseInv, PairInv, [Next]_vars, Negotiate
    PROVE  PairInv'
  <1>0. script' = script /\ Requests' = Requests /\ \A n \in 1..Len(script) : script[n].ch \in Chans
    BY ScriptStays, ScriptFacts DEF TypeInv, Frames, Chans
  <1>1. /\ phase \in Steps /\ relay'["c2s"].pc \in {"none", "read"}
        /\ relay'["s2c"].pc \in {"none", "read"}
        /\ UNCHANGED <<pending, content, records, toBroker, outbox, fromBroker>>
    <2>1. phase \in Steps /\ UNCHANGED Unrelated
      BY NegotiateFacts
    <2>2. \A d \in Directions : relay'[d].pc \in {"none", "read"}
      BY NegotiateFacts DEF PhaseInv
    <2> QED
      BY <2>1, <2>2, DirectionFacts DEF Unrelated, inspector, net
  <1>2. \A ch \in Chans : pending[ch] = <<>>
    BY <1>1 DEF PairInv, PlacesInv
  <1>3. Quiet'
    <2>1. toBroker = <<>> /\ fromBroker = <<>> /\ \A ch \in Chans : outbox[ch] = <<>>
      BY <1>1 DEF PhaseInv, Steps
    <2> QED
      BY <1>0, <1>1, <1>2, <2>1 DEF Quiet, Holding
  <1>4. ContentInv' /\ Paired'
    BY <1>0, <1>1, QuietFacts DEF PairInv
  <1>5. PlacesInv'
    <2>1. \A ch \in Chans : Len(pending'[ch]) = 0
      BY <1>1, <1>2
    <2> QED
      BY <1>0, <1>1, <1>2, <2>1 DEF PairInv, PlacesInv
  <1> QED
    BY <1>3, <1>4, <1>5, QuietNext DEF PairInv

(* Nor at first. *)
LEMMA PairInit == Init => PairInv
  <1> SUFFICES ASSUME Init PROVE PairInv
    OBVIOUS
  <1>0. \A n \in 1..Len(script) : script[n].ch \in Chans
    BY ScriptFacts DEF Init, Frames, Chans
  <1>1. relay["c2s"].pc = "none" /\ relay["s2c"].pc = "none"
    BY DirectionFacts DEF Init, Idle
  <1>2. /\ pending = [ch \in Chans |-> <<>>]
        /\ content = [k \in Directions \X Chans |-> NoContent]
        /\ outbox = [ch \in Chans |-> <<>>]
    BY DEF Init, Chans
  <1>3. Quiet
    BY <1>0, <1>1, <1>2 DEF Quiet, Init, Holding
  <1>4. NoContent \in States /\ NoContent.re = NoContent.req
    BY DEF NoContent, States, Methods, Ids, NoId
  <1>5. PlacesInv /\ ContentInv
    BY <1>1, <1>2, <1>4 DEF PlacesInv, ContentInv
  <1>6. DOMAIN records = {}
    BY DEF Init, EmptyBag, SetToBag
  <1> QED
    BY <1>3, <1>5, <1>6, QuietState DEF PairInv, Paired

(* Every step keeps the requests with their answers. *)
LEMMA PairNext ==
    ASSUME NoConfirm, TypeInv, PhaseInv, PairInv, [Next]_vars PROVE PairInv'
  <1>1. CASE Negotiate
    BY <1>1, PairNegotiate
  <1>2. CASE End
    BY <1>2, PairEnd
  <1>3. CASE FailPending
    BY <1>3, PairFailPending
  <1>4. CASE Cancel \/ UNCHANGED vars
    BY <1>4, PairBrokerWrite
  <1>5. CASE Relay("c2s")
    BY <1>5, PairClientRead, PairClientWrite, PairClientEnd, PairClientObserve DEF Relay
  <1>6. CASE Relay("s2c")
    BY <1>6, PairBrokerRead, PairBrokerWrite, PairBrokerEnd, PairBrokerObserve DEF Relay
  <1>7. CASE BrokerTakes
    BY <1>7, PairBrokerTakes
  <1>8. CASE BrokerSends
    BY <1>8, PairBrokerSends
  <1> QED
    BY <1>1, <1>2, <1>3, <1>4, <1>5, <1>6, <1>7, <1>8 DEF Next, Directions

(***************************************************************************)
(* docs/rabbitmq-compatibility.md's correlation: a request that is         *)
(* recorded with an answer is recorded with its own, for every number of   *)
(* channels, every script and every interleaving of the goroutines with    *)
(* the broker, for clients that do not reopen a channel the broker closed. *)
(***************************************************************************)
THEOREM AnswersFindTheirRequests ==
    ASSUME NoConfirm PROVE Spec => []Paired
  <1>1. Init => TypeInv /\ PhaseInv /\ PairInv
    BY TypeInit, PairInit
  <1>2. TypeInv /\ PhaseInv /\ PairInv /\ [Next]_vars => PairInv'
    BY PairNext
  <1>3. TypeInv /\ PhaseInv /\ [Next]_vars => TypeInv' /\ PhaseInv'
    BY TypeNext, PhaseNext
  <1>4. PairInv => Paired
    BY DEF PairInv
  <1> QED
    BY <1>1, <1>2, <1>3, <1>4, PTL DEF Spec

-----------------------------------------------------------------------------
(***************************************************************************)
(* Every frame is in one place                                             *)
(***************************************************************************)
Keys == Directions \X Chans

(* The three places: a record, a queue of requests, an unfinished content. *)
Recorded(id) == \E r \in DOMAIN records : id \in r.frames
Filed(id) == \E n \in 1..Len(script) : id = <<"c2s", n>> /\ Pending(n)
Gathered(id) == \E k \in Keys : id \in content[k].frames
Known(id) == Recorded(id) \/ Filed(id) \/ Gathered(id)

(* A frame is in one of them only, and in one record or content. *)
ApartInv ==
    /\ \A r \in DOMAIN records : records[r] = 1 /\ r.frames # {}
    /\ \A r, q \in DOMAIN records : \A id \in r.frames : id \in q.frames => r = q
    /\ \A n \in 1..Len(script) : Pending(n) => ~Recorded(<<"c2s", n>>)
    /\ \A k \in Keys : \A id \in content[k].frames :
          /\ ~Recorded(id) /\ ~Filed(id)
          /\ \A j \in Keys : id \in content[j].frames => j = k
    /\ \A k \in Keys : content[k].frames = {} => content[k] = NoContent

(* The frames that were read from the client or made by the broker. *)
Sent == ({"c2s"} \X (1..read)) \cup ({"s2c"} \X (1..made))

SentInv ==
    /\ \A r \in DOMAIN records : r.frames \subseteq Sent
    /\ \A k \in Keys : content[k].frames \subseteq Sent

(* What a relay holds and what is on its way from the broker is new. *)
ClientNew ==
    relay["c2s"].pc \in {"write", "observe"} =>
        \E n \in 1..Len(script) :
            /\ n = read /\ relay["c2s"].frame = Request(n)
            /\ ~Synchronous(Request(n)) => ~Known(<<"c2s", n>>)

NewIds == {id \in {"s2c"} \X (1..made) : ~Known(id)}

BrokerNew ==
    /\ Holding => /\ Held.id \in NewIds
                  /\ \A i \in 1..Len(fromBroker) : fromBroker[i].id # Held.id
    /\ \A i \in 1..Len(fromBroker) :
          /\ fromBroker[i].id \in NewIds
          /\ \A j \in 1..Len(fromBroker) : fromBroker[i].id = fromBroker[j].id => i = j

FreshInv == SentInv /\ ClientNew /\ BrokerNew

(* A request has its answer, in a record or in a content that will be one. *)
Answered(id) ==
    \/ \E r \in DOMAIN records : r.req = id /\ r.re = r.req
    \/ \E k \in Keys : content[k].req = id

(* What was passed on is in a place, or is being observed. *)
PassedInv ==
    /\ passed["c2s"] \subseteq Requests
    /\ \A d \in Directions : \A f \in passed[d] :
          \/ relay[d].pc = "observe" /\ relay[d].frame = f
          \/ /\ f.type # "beat" => Known(f.id)
             /\ f.re # NoId => Answered(f.re)

(* Before and after the relays run, nothing is left to be recorded. *)
EmptyInv ==
    phase \in Steps \cup {"closed"} =>
        /\ \A ch \in Chans : pending[ch] = <<>>
        /\ \A k \in Keys : content[k] = NoContent

(* The numbers of some frames. *)
Numbers(ids) == {id[2] : id \in ids}

(* Frame n of the client was observed, or filed. *)
Done(n) == n < read \/ (n = read /\ relay["c2s"].pc = "read")

(* Frame n begins a message on channel ch. *)
Begins(s, n, ch) == s[n].type = "method" /\ s[n].m \in Contents /\ s[n].ch = ch

(* Frame n holds bytes of a message on channel ch. *)
Holds(s, n, ch) == s[n].type = "body" /\ s[n].size > 0 /\ s[n].ch = ch

(* A content of channel ch holds frames of one message: received counts    *)
(* the bytes of its bodies, and its header is among them once it came.     *)
Message(c, ch) ==
    /\ c.frames \subseteq {"c2s"} \X (1..Len(script))
    /\ IsFiniteSet(Bytes(Numbers(c.frames)))
    /\ c.received = Cardinality(Bytes(Numbers(c.frames)))
    /\ c.size >= 0
    /\ c.size > 0 => \E n \in Numbers(c.frames) :
                        script[n].type = "header" /\ script[n].size = c.size
    /\ \A n \in Numbers(c.frames) : script[n].ch = ch
    /\ \A n \in Numbers(c.frames) : Holds(script, n, ch) =>
          \A k \in (n + 1)..Len(script) : Done(k) => ~Begins(script, k, ch)

(* The contents of the client hold such frames; those of the broker hold   *)
(* one of the broker's.                                                    *)
ClientMessages ==
    \A ch \in Chans, c \in States : c = content[<<"c2s", ch>>] => Message(c, ch)

BrokerMessages ==
    \A ch \in Chans : content[<<"s2c", ch>>].frames # {} =>
        \E id \in content[<<"s2c", ch>>].frames : id[1] = "s2c"

MessageInv ==
    ClientMessages /\ BrokerMessages /\ \A r \in DOMAIN records : WholeMessage(r)

(* A header that announces no bytes comes first after its method: no body  *)
(* of an earlier message on its channel is still waiting for one.          *)
Headed ==
    \A s \in Scripts : \A i, j \in 1..Len(s) :
        /\ i < j /\ Holds(s, i, s[j].ch) /\ s[j].type = "header" /\ s[j].size = 0
        => \E k \in (i + 1)..(j - 1) : Begins(s, k, s[j].ch)
-----------------------------------------------------------------------------
(* A record that is new to the bag is in it once. *)
LEMMA AddOne ==
    ASSUME NEW b, \A e \in DOMAIN b : b[e] = 1, NEW S, S \cap DOMAIN b = {}
    PROVE  /\ DOMAIN (b (+) SetToBag(S)) = DOMAIN b \cup S
           /\ \A e \in DOMAIN b \cup S : (b (+) SetToBag(S))[e] = 1
  <1>1. DOMAIN SetToBag(S) = S /\ \A e \in S : SetToBag(S)[e] = 1
    BY DEF SetToBag
  <1> QED
    BY <1>1 DEF (+)

(* A step moves frames from a content and a queue, and one that is new, to *)
(* records and to that content: they stay apart.                           *)
LEMMA Ledger ==
    ASSUME ApartInv, script' = script, NEW new, ~Known(new), NEW k \in Keys,
           NEW T, \A id \in T : Filed(id),
           \A id : Filed(id)' <=> Filed(id) /\ id \notin T,
           NEW R, DOMAIN records' = DOMAIN records \cup R,
           \A r \in DOMAIN records' : records'[r] = 1,
           \A r \in R : r.frames # {} /\ \A q \in R : q = r,
           \A j \in Keys : j # k => content'[j] = content[j],
           content'[k].frames = {} => content'[k] = NoContent,
           \A r \in R : \A id \in r.frames : id \notin content'[k].frames,
           \A id : id \in content'[k].frames \/ (\E r \in R : id \in r.frames) <=>
                       id \in content[k].frames \/ id = new \/ id \in T
    PROVE  ApartInv' /\ \A id : Known(id)' <=> Known(id) \/ id = new
  <1> DEFINE In(id) == \E r \in R : id \in r.frames
  <1>1. \A id : Recorded(id)' <=> Recorded(id) \/ In(id)
    BY DEF Recorded
  <1>2. \A id : Gathered(id)' <=> id \in content'[k].frames
                                    \/ \E j \in Keys : j # k /\ id \in content[j].frames
    BY DEF Gathered
  <1>3. \A id : Gathered(id) <=> id \in content[k].frames
                                    \/ \E j \in Keys : j # k /\ id \in content[j].frames
    BY DEF Gathered
  <1>4. \A id : id \in content'[k].frames \/ In(id) <=>
                    id \in content[k].frames \/ id = new \/ id \in T
    OBVIOUS
  <1>5. \A id : /\ ~(Recorded(id) /\ Filed(id)) /\ ~(Recorded(id) /\ Gathered(id))
                /\ ~(Filed(id) /\ Gathered(id))
    BY DEF ApartInv, Filed, Gathered
  <1>6. ASSUME NEW id, id \in content[k].frames, NEW j \in Keys, id \in content[j].frames
        PROVE  j = k
    BY <1>6 DEF ApartInv
  <1>7. \A id : Known(id)' <=> Known(id) \/ id = new
    BY <1>1, <1>2, <1>3, <1>4 DEF Known
  <1>8. ASSUME NEW id, In(id)
        PROVE  /\ ~Recorded(id) /\ ~Filed(id)'
               /\ \A j \in Keys : j # k => id \notin content[j].frames
    <2>1. id \in content[k].frames \/ id = new \/ id \in T
      BY <1>4, <1>8
    <2>2. CASE id \in content[k].frames
      BY <1>3, <1>5, <1>6, <2>2
    <2>3. CASE id = new
      BY <1>3, <2>3 DEF Known
    <2>4. CASE id \in T
      BY <1>3, <1>5, <2>4
    <2> QED
      BY <2>1, <2>2, <2>3, <2>4
  <1>9. ASSUME NEW id, id \in content'[k].frames
        PROVE  /\ ~Recorded(id) /\ ~Filed(id)'
               /\ \A j \in Keys : j # k => id \notin content[j].frames
    <2>1. id \in content[k].frames \/ id = new \/ id \in T
      BY <1>4, <1>9
    <2>2. CASE id \in content[k].frames
      BY <1>3, <1>5, <1>6, <2>2
    <2>3. CASE id = new
      BY <1>3, <2>3 DEF Known
    <2>4. CASE id \in T
      BY <1>3, <1>5, <2>4
    <2> QED
      BY <2>1, <2>2, <2>3, <2>4
  <1>10. \A id : In(id) => id \notin content'[k].frames
    OBVIOUS
  <1>11. \A r \in DOMAIN records' : records'[r] = 1 /\ r.frames # {}
    BY DEF ApartInv
  <1>12. ASSUME NEW r \in DOMAIN records', NEW q \in DOMAIN records', NEW id \in r.frames,
                id \in q.frames
         PROVE  r = q
    <2>1. CASE r \in DOMAIN records /\ q \in DOMAIN records
      BY <1>12, <2>1 DEF ApartInv
    <2>2. CASE r \in R /\ q \in R
      BY <2>2
    <2>3. CASE r \in R /\ q \in DOMAIN records
      BY <1>8, <1>12, <2>3 DEF Recorded
    <2>4. CASE r \in DOMAIN records /\ q \in R
      BY <1>8, <1>12, <2>4 DEF Recorded
    <2> QED
      BY <2>1, <2>2, <2>3, <2>4
  <1> HIDE DEF In
  <1>13. \A id : Filed(id)' => ~Recorded(id)'
    BY <1>1, <1>5, <1>8
  <1>14. \A n \in 1..Len(script) : Pending(n)' => Filed(<<"c2s", n>>)'
    BY DEF Filed
  <1>15. ASSUME NEW j \in Keys, NEW id \in content'[j].frames
         PROVE  /\ ~Recorded(id)' /\ ~Filed(id)'
                /\ \A i \in Keys : id \in content'[i].frames => i = j
    <2>1. CASE j = k
      BY <1>1, <1>9, <1>10, <1>15, <2>1
    <2>2. CASE j # k
      <3>1. id \in content[j].frames
        BY <1>15, <2>2
      <3>2. ~Recorded(id) /\ ~Filed(id)
        BY <3>1 DEF ApartInv
      <3>3. ~In(id) /\ id \notin content'[k].frames
        BY <1>8, <1>9, <2>2, <3>1
      <3>4. \A i \in Keys : i # k /\ id \in content'[i].frames => i = j
        BY <3>1 DEF ApartInv
      <3> QED
        BY <1>1, <3>2, <3>3, <3>4
    <2> QED
      BY <2>1, <2>2
  <1>16. \A j \in Keys : content'[j].frames = {} => content'[j] = NoContent
    BY DEF ApartInv
  <1> QED
    BY <1>7, <1>11, <1>12, <1>13, <1>14, <1>15, <1>16 DEF ApartInv

(***************************************************************************)
(* What the inspector does with a frame, apart from a heartbeat            *)
(***************************************************************************)

(* The request that an answer of the broker takes from its queue. *)
Took(d, frame) == IF d = "s2c" /\ frame.re # NoId THEN {frame.re} ELSE {}

(* It is recorded on its own, or with the request that it answers. *)
Event(d, frame, r) ==
    /\ content' = content /\ records' = records (+) SetToBag({r})
    /\ r.frames = {frame.id} \cup Took(d, frame)
    /\ Took(d, frame) # {} => r.req = frame.re /\ r.re = frame.re
    /\ frame.type = "method" => frame.m \notin Contents
    /\ r.ok => frame.type = "method"

(* It begins a content; one that was not finished is recorded as failed. *)
Begin(d, frame, c) ==
    LET k == <<d, frame.ch>>
    IN  /\ frame.type = "method" /\ frame.m \in Contents
        /\ content' = [content EXCEPT ![k] = c]
        /\ c.frames = {frame.id} \cup Took(d, frame)
        /\ c.req = frame.re /\ c.size = 0 /\ c.received = 0
        /\ content[k] = NoContent => records' = records
        /\ content[k] # NoContent =>
              records' = records (+) SetToBag({ContentRecord(content[k], TRUE)})

(* It is the last of a content. *)
Finish(d, frame, r) ==
    LET k == <<d, frame.ch>>
    IN  /\ content[k] # NoContent /\ Took(d, frame) = {} /\ frame.re = NoId
        /\ content' = [content EXCEPT ![k] = NoContent]
        /\ records' = records (+) SetToBag({r})
        /\ r.frames = content[k].frames \cup {frame.id}
        /\ r.req = content[k].req /\ r.re = content[k].re
        /\ r.ok => \/ frame.type = "header" /\ frame.size = 0
                   \/ /\ frame.type = "body" /\ content[k].size > 0
                      /\ content[k].received + frame.size = content[k].size

(* It belongs to a content that is not finished yet. *)
Grow(d, frame, c) ==
    LET k == <<d, frame.ch>>
    IN  /\ content[k] # NoContent /\ Took(d, frame) = {} /\ frame.re = NoId
        /\ content' = [content EXCEPT ![k] = c] /\ records' = records
        /\ c.frames = content[k].frames \cup {frame.id} /\ c.req = content[k].req
        /\ \/ /\ frame.type = "header" /\ frame.size > 0
              /\ c.size = frame.size /\ c.received = content[k].received
           \/ /\ frame.type = "body" /\ c.size = content[k].size
              /\ c.received = content[k].received + frame.size

(* A frame that is not an answer of the broker is an event, begins a       *)
(* content, continues it or ends it; an answer is one of the first two.    *)
LEMMA ObservedMoves ==
    ASSUME PlacesInv, NEW d \in Directions, NEW frame \in Frames, Observed(d, frame),
           frame.type # "beat",
           d = "c2s" => frame.re = NoId,
           d = "s2c" /\ frame.re = NoId => Match(frame) = 0,
           d = "s2c" /\ frame.re # NoId =>
               /\ Match(frame) = 1 /\ pending[frame.ch][1].id = frame.re
               /\ frame.type = "method" /\ frame.m \in Responses
    PROVE  \E x : Event(d, frame, x) \/ Begin(d, frame, x) \/ Finish(d, frame, x)
                  \/ Grow(d, frame, x)
  <1> DEFINE key == <<d, frame.ch>>
             old == content[key]
  <1>1. old \in States /\ frame.size \in Int
    BY DEF PlacesInv, Frames, Chans
  <1>2. frame.type # "method" => frame.re = NoId /\ Took(d, frame) = {}
    BY DEF Took, Directions
  <1>3. ASSUME frame.type # "method" \/ (frame.m \notin Contents /\ Took(d, frame) = {}),
               NEW b \in BOOLEAN, frame.type # "method" => b = TRUE,
               content' = content, records' = records (+) SetToBag({MethodRecord(frame, b)})
        PROVE  Event(d, frame, MethodRecord(frame, b))
    <2> DEFINE r == MethodRecord(frame, b)
    <2>1. r.frames = {frame.id} /\ (r.ok => b # TRUE)
      BY DEF MethodRecord, Record
    <2>2. Took(d, frame) = {}
      BY <1>2, <1>3
    <2> HIDE DEF r
    <2> QED
      BY <1>3, <2>1, <2>2 DEF Event, r
  <1>4. CASE frame.type = "method" /\ frame.m \in Contents /\ ObserveContent(d, frame)
    <2> DEFINE answers == d = "s2c" /\ frame.m = "get-ok" /\ Match(frame) # 0
               request == pending[frame.ch][Match(frame)]
               s == [frames   |-> {frame.id} \cup (IF answers THEN {request.id} ELSE {}),
                     req      |-> IF answers THEN request.id ELSE NoId,
                     re |-> frame.re, m |-> frame.m, size |-> 0, received |-> 0]
    <2>1. /\ content' = [content EXCEPT ![key] = s]
          /\ old = NoContent => records' = records
          /\ old # NoContent => records' = records (+) SetToBag({ContentRecord(old, TRUE)})
      BY <1>4 DEF ObserveContent, Add
    <2>2. answers <=> d = "s2c" /\ frame.re # NoId
      BY <1>4 DEF Contents, Responses, Directions
    <2>3. answers => request.id = frame.re
      BY <2>2
    <2>4. ~answers => frame.re = NoId
      BY <2>2 DEF Directions
    <2>5. /\ s.frames = {frame.id} \cup Took(d, frame) /\ s.req = frame.re
          /\ s.size = 0 /\ s.received = 0
      BY <2>2, <2>3, <2>4 DEF Took
    <2> HIDE DEF s, answers, request
    <2>6. Begin(d, frame, s)
      BY <1>4, <2>1, <2>5 DEF Begin
    <2> QED
      BY <2>6
  <1>5. CASE frame.type = "method" /\ frame.m \notin Contents /\ ObserveMethod(d, frame)
    <2>1. CASE d = "s2c" /\ Match(frame) # 0
      <3> DEFINE r == RpcRecord(pending[frame.ch][1], frame)
      <3>1. frame.re # NoId /\ Match(frame) = 1 /\ pending[frame.ch][1].id = frame.re
        BY <2>1
      <3>2. records' = records (+) SetToBag({r}) /\ content' = content
        BY <1>5, <2>1, <3>1 DEF ObserveMethod, Add
      <3>3. r.frames = {frame.id} \cup {frame.re} /\ r.req = frame.re /\ r.re = frame.re
        BY <3>1 DEF RpcRecord, Record
      <3> HIDE DEF r
      <3>4. Event(d, frame, r)
        BY <1>5, <2>1, <3>1, <3>2, <3>3 DEF Event, Took
      <3> QED
        BY <3>4
    <2>2. CASE ~(d = "s2c" /\ Match(frame) # 0)
      <3>1. records' = records (+) SetToBag({MethodRecord(frame, FALSE)}) /\ content' = content
        BY <1>5, <2>2 DEF ObserveMethod, Add
      <3>2. Took(d, frame) = {}
        BY <2>2 DEF Took
      <3> QED
        BY <1>3, <1>5, <3>1, <3>2
    <2> QED
      BY <2>1, <2>2
  <1>6. CASE frame.type = "header" /\ ObserveHeader(d, frame)
    <2> DEFINE s == [old EXCEPT !.frames = @ \cup {frame.id}, !.size = frame.size]
    <2>1. /\ s.frames = old.frames \cup {frame.id} /\ s.size = frame.size
          /\ s.req = old.req /\ s.re = old.re /\ s.received = old.received
      BY <1>1 DEF States
    <2>2. \/ old = NoContent /\ content' = content
             /\ records' = records (+) SetToBag({MethodRecord(frame, TRUE)})
          \/ old # NoContent /\ frame.size <= 0
             /\ records' = records (+) SetToBag({ContentRecord(s, frame.size < 0)})
             /\ content' = [content EXCEPT ![key] = NoContent]
          \/ old # NoContent /\ frame.size > 0 /\ records' = records
             /\ content' = [content EXCEPT ![key] = s]
      BY <1>6 DEF ObserveHeader, Add
    <2> HIDE DEF s
    <2>3. CASE old = NoContent /\ content' = content
               /\ records' = records (+) SetToBag({MethodRecord(frame, TRUE)})
      BY <1>3, <1>6, <2>3
    <2>4. CASE old # NoContent /\ frame.size <= 0
               /\ records' = records (+) SetToBag({ContentRecord(s, frame.size < 0)})
               /\ content' = [content EXCEPT ![key] = NoContent]
      <3> DEFINE r == ContentRecord(s, frame.size < 0)
      <3>1. /\ r.frames = s.frames /\ r.req = s.req /\ r.re = s.re
            /\ r.ok => ~(frame.size < 0)
        BY DEF ContentRecord, Record
      <3>2. r.ok => frame.size = 0
        BY <1>1, <2>4, <3>1
      <3> HIDE DEF r
      <3>3. Finish(d, frame, r)
        BY <1>2, <1>6, <2>1, <2>4, <3>1, <3>2 DEF Finish, r
      <3> QED
        BY <3>3
    <2>5. CASE old # NoContent /\ frame.size > 0 /\ records' = records
               /\ content' = [content EXCEPT ![key] = s]
      <3>1. Grow(d, frame, s)
        BY <1>2, <1>6, <2>1, <2>5 DEF Grow
      <3> QED
        BY <3>1
    <2> QED
      BY <2>2, <2>3, <2>4, <2>5
  <1>7. CASE frame.type = "body" /\ ObserveBody(d, frame)
    <2> DEFINE n == old.received + frame.size
               s == [old EXCEPT !.frames = @ \cup {frame.id}, !.received = @ + frame.size]
    <2>1. /\ s.frames = old.frames \cup {frame.id} /\ s.size = old.size
          /\ s.req = old.req /\ s.re = old.re /\ s.received = n
      BY <1>1 DEF States
    <2>2. \/ content' = content
             /\ records' = records (+) SetToBag({MethodRecord(frame, TRUE)})
          \/ old.size > 0
             /\ records' = records (+) SetToBag({ContentRecord(s, s.received # s.size)})
             /\ content' = [content EXCEPT ![key] = NoContent]
          \/ old.size > 0 /\ records' = records
             /\ content' = [content EXCEPT ![key] = s]
      BY <1>7 DEF ObserveBody, Add
    <2>3. old.size > 0 => old # NoContent
      BY DEF NoContent
    <2> HIDE DEF s
    <2>4. CASE content' = content
               /\ records' = records (+) SetToBag({MethodRecord(frame, TRUE)})
      BY <1>3, <1>7, <2>4
    <2>5. CASE old.size > 0
               /\ records' = records (+) SetToBag({ContentRecord(s, s.received # s.size)})
               /\ content' = [content EXCEPT ![key] = NoContent]
      <3> DEFINE r == ContentRecord(s, s.received # s.size)
      <3>1. /\ r.frames = s.frames /\ r.req = s.req /\ r.re = s.re
            /\ r.ok => s.received = s.size
        BY DEF ContentRecord, Record
      <3> HIDE DEF r
      <3>2. Finish(d, frame, r)
        BY <1>2, <1>7, <2>1, <2>3, <2>5, <3>1 DEF Finish, r
      <3> QED
        BY <3>2
    <2>6. CASE old.size > 0 /\ records' = records /\ content' = [content EXCEPT ![key] = s]
      <3>1. Grow(d, frame, s)
        BY <1>2, <1>7, <2>1, <2>3, <2>6 DEF Grow
      <3> QED
        BY <3>1
    <2> QED
      BY <2>2, <2>4, <2>5, <2>6
  <1>8. CASE /\ frame.type = "other" /\ UNCHANGED <<pending, content>>
             /\ records' = records (+) SetToBag({MethodRecord(frame, TRUE)})
    BY <1>3, <1>8
  <1> QED
    BY <1>4, <1>5, <1>6, <1>7, <1>8 DEF Observed, Add

(* The frames stay apart, whatever the inspector does with the new one. *)
LEMMA ApartMoves ==
    ASSUME ApartInv, PlacesInv, script' = script, NEW d \in Directions, NEW frame \in Frames,
           ~Known(frame.id), \A id \in Took(d, frame) : Filed(id),
           \A id : Filed(id)' <=> Filed(id) /\ id \notin Took(d, frame),
           NEW x, Event(d, frame, x) \/ Begin(d, frame, x) \/ Finish(d, frame, x)
                  \/ Grow(d, frame, x)
    PROVE  ApartInv' /\ \A id : Known(id)' <=> Known(id) \/ id = frame.id
  <1> DEFINE k == <<d, frame.ch>>
             T == Took(d, frame)
             new == frame.id
  <1>1. k \in Keys /\ content \in [Keys -> States] /\ content[k] \in States
    BY DEF Keys, Chans, Frames, PlacesInv
  <1>2. \A r \in DOMAIN records : records[r] = 1 /\ r.frames # {}
    BY DEF ApartInv
  <1>3. ASSUME NEW r, r.frames # {}, \A id \in r.frames : id \in content[k].frames \/ id = new \/ id \in T,
               records' = records (+) SetToBag({r})
        PROVE  /\ DOMAIN records' = DOMAIN records \cup {r}
               /\ \A q \in DOMAIN records' : records'[q] = 1
    <2>1. PICK id : id \in r.frames
      BY <1>3
    <2>2. ~Recorded(id)
      BY <1>1, <1>3, <2>1 DEF ApartInv, Known, Filed
    <2>3. {r} \cap DOMAIN records = {}
      BY <2>1, <2>2 DEF Recorded
    <2> QED
      BY <1>2, <1>3, <2>3, AddOne
  <1>4. NoContent.frames = {}
    BY DEF NoContent
  <1>5. content[k] # NoContent => content[k].frames # {}
    BY <1>1 DEF ApartInv
  <1>6. new \notin content[k].frames /\ T \cap content[k].frames = {}
    BY <1>1 DEF ApartInv, Known, Gathered
  <1>7. \A c : content' = [content EXCEPT ![k] = c] =>
                  content'[k] = c /\ \A j \in Keys : j # k => content'[j] = content[j]
    BY <1>1
  <1>8. ASSUME NEW R, DOMAIN records' = DOMAIN records \cup R,
               \A r \in DOMAIN records' : records'[r] = 1,
               \A r \in R : r.frames # {} /\ \A q \in R : q = r,
               \A j \in Keys : j # k => content'[j] = content[j],
               content'[k].frames = {} => content'[k] = NoContent,
               \A r \in R : \A id \in r.frames : id \notin content'[k].frames,
               \A id : id \in content'[k].frames \/ (\E r \in R : id \in r.frames) <=>
                           id \in content[k].frames \/ id = new \/ id \in T
        PROVE  ApartInv' /\ \A id : Known(id)' <=> Known(id) \/ id = new
    <2> HIDE DEF k, T, new
    <2>1. ~Known(new) /\ (\A id \in T : Filed(id))
          /\ \A id : Filed(id)' <=> Filed(id) /\ id \notin T
      BY DEF T, new
    <2> QED
      BY <1>1, <1>8, <2>1, Ledger, ZenonT(60)
  <1>9. CASE Event(d, frame, x)
    <2>1. /\ content' = content /\ records' = records (+) SetToBag({x})
          /\ x.frames = {new} \cup T
      BY <1>9 DEF Event
    <2>2. x.frames # {} /\ \A id \in x.frames : id \in content[k].frames \/ id = new \/ id \in T
      BY <2>1
    <2> HIDE DEF k, T, new
    <2>r. PICK R : R = {x}
      OBVIOUS
    <2>3. /\ DOMAIN records' = DOMAIN records \cup R
          /\ \A q \in DOMAIN records' : records'[q] = 1
      BY <1>3, <2>1, <2>2, <2>r
    <2>4. \A r \in R : \A id \in r.frames : id \notin content'[k].frames
      BY <1>6, <2>1, <2>r
    <2>5. \A id : id \in content'[k].frames \/ (\E r \in R : id \in r.frames) <=>
                      id \in content[k].frames \/ id = new \/ id \in T
      BY <2>1, <2>r
    <2>6. content'[k].frames = {} => content'[k] = NoContent
      BY <1>5, <2>1
    <2>7. \A r \in R : r.frames # {} /\ \A q \in R : q = r
      BY <2>2, <2>r
    <2>8. \A j \in Keys : j # k => content'[j] = content[j]
      BY <2>1
    <2> QED
      BY <1>8, <2>3, <2>4, <2>5, <2>6, <2>7, <2>8 DEF new
  <1>10. CASE Begin(d, frame, x)
    <2> DEFINE o == ContentRecord(content[k], TRUE)
               R == IF content[k] = NoContent THEN {} ELSE {o}
    <2>1. /\ content' = [content EXCEPT ![k] = x]
          /\ x.frames = {new} \cup T
          /\ content[k] = NoContent => records' = records
          /\ content[k] # NoContent => records' = records (+) SetToBag({o})
      BY <1>10 DEF Begin
    <2>2. o.frames = content[k].frames
      BY DEF ContentRecord, Record
    <2> HIDE DEF o, k, T, new
    <2>3. content'[k] = x /\ \A j \in Keys : j # k => content'[j] = content[j]
      BY <1>7, <2>1
    <2>4. /\ DOMAIN records' = DOMAIN records \cup R
          /\ \A q \in DOMAIN records' : records'[q] = 1
      <3>1. CASE content[k] = NoContent
        BY <1>2, <2>1, <3>1
      <3>2. CASE content[k] # NoContent
        <4>1. o.frames # {} /\ \A id \in o.frames : id \in content[k].frames \/ id = new \/ id \in T
          BY <1>5, <2>2, <3>2
        <4> QED
          BY <1>3, <2>1, <3>2, <4>1
      <3> QED
        BY <3>1, <3>2
    <2>5. \A r \in R : r.frames # {} /\ \A q \in R : q = r
      BY <1>5, <2>2
    <2>6. \A r \in R : \A id \in r.frames : id \notin content'[k].frames
      BY <1>6, <2>1, <2>2, <2>3
    <2>7. \A id : id \in content'[k].frames \/ (\E r \in R : id \in r.frames) <=>
                      id \in content[k].frames \/ id = new \/ id \in T
      BY <1>4, <2>1, <2>2, <2>3
    <2>8. content'[k].frames # {}
      BY <2>1, <2>3
    <2> HIDE DEF R
    <2> QED
      BY <1>8, <2>3, <2>4, <2>5, <2>6, <2>7, <2>8 DEF new
  <1>11. CASE Finish(d, frame, x)
    <2>1. /\ content' = [content EXCEPT ![k] = NoContent] /\ T = {}
          /\ x.frames = content[k].frames \cup {new}
          /\ records' = records (+) SetToBag({x})
      BY <1>11 DEF Finish
    <2>2. x.frames # {} /\ \A id \in x.frames : id \in content[k].frames \/ id = new \/ id \in T
      BY <2>1
    <2> HIDE DEF k, T, new
    <2>3. content'[k] = NoContent /\ \A j \in Keys : j # k => content'[j] = content[j]
      BY <1>7, <2>1
    <2>4. /\ DOMAIN records' = DOMAIN records \cup {x}
          /\ \A q \in DOMAIN records' : records'[q] = 1
      BY <1>3, <2>1, <2>2
    <2>5. \A r \in {x} : \A id \in r.frames : id \notin content'[k].frames
      BY <1>4, <2>3
    <2>6. \A id : id \in content'[k].frames \/ (\E r \in {x} : id \in r.frames) <=>
                      id \in content[k].frames \/ id = new \/ id \in T
      BY <1>4, <2>1, <2>3
    <2>7. \A r \in {x} : r.frames # {} /\ \A q \in {x} : q = r
      BY <2>2
    <2> QED
      BY <1>8, <2>3, <2>4, <2>5, <2>6, <2>7, ZenonT(60) DEF new
  <1>12. CASE Grow(d, frame, x)
    <2>1. /\ content' = [content EXCEPT ![k] = x] /\ T = {} /\ records' = records
          /\ x.frames = content[k].frames \cup {new}
      BY <1>12 DEF Grow
    <2> HIDE DEF k, T, new
    <2>2. content'[k] = x /\ \A j \in Keys : j # k => content'[j] = content[j]
      BY <1>7, <2>1
    <2>r. PICK R : R = {}
      OBVIOUS
    <2>3. DOMAIN records' = DOMAIN records \cup R /\ \A q \in DOMAIN records' : records'[q] = 1
      BY <1>2, <2>r, <2>1
    <2>4. \A id : id \in content'[k].frames \/ (\E r \in R : id \in r.frames) <=>
                      id \in content[k].frames \/ id = new \/ id \in T
      BY <2>r, <2>1, <2>2
    <2>5. content'[k].frames # {}
      BY <2>1, <2>2
    <2>6. \A r \in R : r.frames # {} /\ \A q \in R : q = r
      BY <2>r
    <2>7. \A r \in R : \A id \in r.frames : id \notin content'[k].frames
      BY <2>r
    <2> QED
      BY <1>8, <2>2, <2>3, <2>4, <2>5, <2>6, <2>7 DEF new
  <1> QED
    BY <1>9, <1>10, <1>11, <1>12

(* What is known of the frame that a relay tells the inspector of. *)
LEMMA ObserveCase ==
    ASSUME TypeInv, PairInv, FreshInv, [Next]_vars, NEW d \in Directions, Observe(d),
           NEW frame, frame = relay[d].frame
    PROVE  /\ frame \in Frames /\ ~Known(frame.id)
           /\ d = "c2s" => /\ frame.re = NoId
                           /\ \E n \in 1..Len(script) : n = read /\ frame = Request(n)
           /\ d = "s2c" => frame \in BrokerFrames /\ frame = Held /\ Holding
           /\ \A id \in Took(d, frame) : Filed(id)
           /\ \A id : Filed(id)' <=> Filed(id) /\ id \notin Took(d, frame)
           /\ frame.type = "beat" => /\ UNCHANGED <<pending, content, records>>
                                     /\ frame.re = NoId
           /\ frame.type # "beat" =>
                 \E x : Event(d, frame, x) \/ Begin(d, frame, x) \/ Finish(d, frame, x)
                        \/ Grow(d, frame, x)
  <1>0. /\ script' = script /\ Requests' = Requests /\ \A n : Request(n)' = Request(n)
        /\ Len(script) \in Nat /\ script \in Scripts
    BY ScriptStays, ScriptFacts DEF TypeInv
  <1>1. relay[d].pc = "observe" /\ toBroker' = toBroker
    BY ObserveFacts DEF net
  <1>2. PlacesInv /\ ContentInv /\ Paired
    BY DEF PairInv
  <1>3. CASE d = "c2s"
    <2>n. PICK n \in 1..Len(script) :
             /\ n = read /\ frame = Request(n)
             /\ ~Synchronous(Request(n)) => ~Known(<<"c2s", n>>)
      BY <1>1, <1>3 DEF FreshInv, ClientNew
    <2>1. ~Synchronous(frame)
      BY <1>1, <1>2, <1>3 DEF PlacesInv
    <2>2. frame \in Frames /\ frame.re = NoId /\ frame.id = <<"c2s", n>>
      BY <1>0, <2>n, RequestFacts
    <2>3. ~Known(frame.id)
      BY <2>n, <2>1, <2>2
    <2>4. Observed(d, frame)
      BY <1>3, <2>1 DEF Observe
    <2>5. Took(d, frame) = {}
      BY <1>3 DEF Took
    <2>6. d # "s2c"
      BY <1>3
    <2>7. pending' = pending
      BY <1>2, <2>2, <2>4, <2>6, ObservedFacts
    <2>8. \A id : Filed(id)' <=> Filed(id)
      BY <1>0, <2>7 DEF Filed, Pending
    <2>9. frame.type # "beat" =>
             \E x : Event(d, frame, x) \/ Begin(d, frame, x) \/ Finish(d, frame, x)
                    \/ Grow(d, frame, x)
      BY <1>2, <2>2, <2>4, <2>6, ObservedMoves
    <2>10. frame.type = "beat" => UNCHANGED <<pending, content, records>>
      BY <2>4 DEF Observed, inspector
    <2> QED
      BY <1>3, <2>n, <2>2, <2>3, <2>5, <2>6, <2>8, <2>9, <2>10
  <1>4. CASE d = "s2c"
    <2>1. /\ frame = Held /\ frame \in BrokerFrames /\ frame \in Frames /\ Holding
          /\ relay["s2c"].pc = "observe"
      BY <1>1, <1>4, MatchFacts, BrokerFrameFacts DEF Held, Holding
    <2>2. /\ frame.re = NoId => Match(frame) = 0
          /\ frame.re # NoId => /\ Match(frame) = 1 /\ pending[frame.ch][1].id = frame.re
                                /\ frame.type = "method" /\ frame.m \in Responses
      BY <2>1, MatchFacts
    <2>3. ~Known(frame.id)
      BY <2>1 DEF FreshInv, BrokerNew, NewIds
    <2>4. Observed(d, frame)
      BY <1>4, DirectionFacts DEF Observe
    <2>5. d # "c2s"
      BY <1>4, DirectionFacts
    <2>6. pending' = IF frame.re # NoId THEN Taken(frame) ELSE pending
      BY <1>2, <1>4, <2>1, <2>2, <2>4, <2>5, ObservedFacts
    <2>7. frame.type # "beat" =>
             \E x : Event(d, frame, x) \/ Begin(d, frame, x) \/ Finish(d, frame, x)
                    \/ Grow(d, frame, x)
      BY <1>2, <2>1, <2>2, <2>4, <2>5, ObservedMoves
    <2>8. frame.type = "beat" => UNCHANGED <<pending, content, records>> /\ frame.re = NoId
      BY <2>2, <2>4 DEF Observed, inspector
    <2>9. /\ \A id \in Took(d, frame) : Filed(id)
          /\ \A id : Filed(id)' <=> Filed(id) /\ id \notin Took(d, frame)
      <3>1. CASE frame.re = NoId
        <4>1. Took(d, frame) = {} /\ pending' = pending
          BY <2>6, <3>1 DEF Took
        <4> QED
          BY <1>0, <4>1 DEF Filed, Pending
      <3>2. CASE frame.re # NoId
        <4>1. PICK n \in 1..Len(script) :
                 /\ Held.re = <<"c2s", n>> /\ Pending(n)
                 /\ \A m \in 1..Len(script) : Pending(m)' <=> Pending(m) /\ m # n
          BY <1>0, <1>1, <2>1, <2>6, <3>2, TakenFacts
        <4>2. Took(d, frame) = {<<"c2s", n>>}
          BY <1>4, <2>1, <3>2, <4>1 DEF Took
        <4>3. \A m : <<"c2s", m>> = <<"c2s", n>> <=> m = n
          OBVIOUS
        <4> QED
          BY <1>0, <4>1, <4>2, <4>3 DEF Filed
      <3> QED
        BY <3>1, <3>2
    <2> QED
      BY <2>1, <2>3, <2>5, <2>7, <2>8, <2>9
  <1> QED
    BY <1>3, <1>4 DEF Directions

(* A relay observes: the frame is in one place now, unless it is a heartbeat. *)
LEMMA ApartObserve ==
    ASSUME TypeInv, PairInv, FreshInv, ApartInv, [Next]_vars, NEW d \in Directions, Observe(d),
           NEW frame, frame = relay[d].frame
    PROVE  /\ ApartInv'
           /\ \A id : Known(id)' <=> Known(id) \/ (id = frame.id /\ frame.type # "beat")
  <1>0. script' = script /\ PlacesInv
    BY ScriptStays DEF PairInv
  <1>1. /\ frame \in Frames /\ ~Known(frame.id) /\ \A id \in Took(d, frame) : Filed(id)
        /\ \A id : Filed(id)' <=> Filed(id) /\ id \notin Took(d, frame)
    BY ObserveCase
  <1>2. CASE frame.type = "beat"
    <2>1. UNCHANGED <<pending, content, records>> /\ frame.re = NoId
      BY <1>2, ObserveCase
    <2>2. \A id : Filed(id)' <=> Filed(id)
      BY <1>1, <2>1 DEF Took
    <2>3. \A n : Pending(n)' <=> Pending(n)
      BY <1>0, <2>1, QuietFacts
    <2>4. \A id : (Recorded(id)' <=> Recorded(id)) /\ (Gathered(id)' <=> Gathered(id))
      BY <2>1 DEF Recorded, Gathered
    <2>5. ApartInv'
      BY <1>0, <2>1, <2>2, <2>3, <2>4 DEF ApartInv
    <2> QED
      BY <1>2, <2>2, <2>4, <2>5 DEF Known
  <1>3. CASE frame.type # "beat"
    <2>1. PICK x : Event(d, frame, x) \/ Begin(d, frame, x) \/ Finish(d, frame, x)
                   \/ Grow(d, frame, x)
      BY <1>3, ObserveCase
    <2>2. ApartInv' /\ \A id : Known(id)' <=> Known(id) \/ id = frame.id
      BY <1>0, <1>1, <2>1, ApartMoves
    <2> QED
      BY <1>3, <2>2
  <1> QED
    BY <1>2, <1>3

(* What is in a place was sent. *)
LEMMA SentFacts ==
    ASSUME TypeInv, PairInv, SentInv PROVE \A id : Known(id) => id \in Sent
  <1>1. \A id : Recorded(id) \/ Gathered(id) => id \in Sent
    BY DEF SentInv, Recorded, Gathered
  <1>2. \A id : Filed(id) => id \in Sent
    <2> SUFFICES ASSUME NEW n \in 1..Len(script), Pending(n) PROVE <<"c2s", n>> \in Sent
      BY DEF Filed
    <2>1. n <= read /\ n \in Nat /\ read \in Nat
      BY ScriptFacts DEF PairInv, RisingInv, TypeInv
    <2>2. n \in 1..read
      BY <2>1
    <2> QED
      BY <2>2 DEF Sent
  <1> QED
    BY <1>1, <1>2 DEF Known

(* If all that is in a place was sent, the invariant holds. *)
LEMMA SentNext ==
    ASSUME TypeInv, PairInv, SentInv, read' \in Nat, made' \in Nat, read <= read', made <= made',
           \A id : Known(id)' => Known(id) \/ id \in Sent'
    PROVE  SentInv'
  <1>1. read \in Nat /\ made \in Nat
    BY ScriptFacts DEF TypeInv
  <1>2. 1..read \subseteq 1..read' /\ 1..made \subseteq 1..made'
    BY <1>1
  <1>3. Sent \subseteq Sent'
    BY <1>2 DEF Sent
  <1>4. \A id : Known(id)' => id \in Sent'
    BY <1>3, SentFacts
  <1>5. \A r \in DOMAIN records' : \A id \in r.frames : Known(id)'
    BY DEF Known, Recorded
  <1>6. \A k \in Keys : \A id \in content'[k].frames : Known(id)'
    BY DEF Known, Gathered
  <1>7. \A r \in DOMAIN records' : r.frames \subseteq Sent'
    BY <1>4, <1>5
  <1>8. \A k \in Keys : content'[k].frames \subseteq Sent'
    BY <1>4, <1>6
  <1> QED
    BY <1>7, <1>8 DEF SentInv

(* The client's frame that is read next, and the broker's that is made next, are new. *)
LEMMA NextIsNew ==
    ASSUME TypeInv, PairInv, SentInv
    PROVE  ~Known(<<"c2s", read + 1>>) /\ ~Known(<<"s2c", made + 1>>)
  <1>1. read \in Nat /\ made \in Nat
    BY ScriptFacts DEF TypeInv
  <1>2. read + 1 \notin 1..read /\ made + 1 \notin 1..made
    BY <1>1
  <1>3. <<"c2s", read + 1>> \notin Sent /\ <<"s2c", made + 1>> \notin Sent
    BY <1>2 DEF Sent
  <1> QED
    BY <1>3, SentFacts

(* Without the inspector nothing changes its place. *)
LEMMA QuietPlaces ==
    ASSUME script' = script, UNCHANGED <<pending, content, records>>
    PROVE  /\ \A id : Known(id)' <=> Known(id)
           /\ \A id : Answered(id)' <=> Answered(id)
           /\ ApartInv => ApartInv'
  <1>1. \A n : Pending(n)' <=> Pending(n)
    BY QuietFacts
  <1>2. \A id : Filed(id)' <=> Filed(id)
    BY <1>1 DEF Filed
  <1>3. \A id : (Recorded(id)' <=> Recorded(id)) /\ (Gathered(id)' <=> Gathered(id))
    BY DEF Recorded, Gathered
  <1>4. ApartInv => ApartInv'
    BY <1>1, <1>2, <1>3 DEF ApartInv
  <1> QED
    BY <1>2, <1>3, <1>4 DEF Known, Answered

(* The broker's frames stay new while what is put in a place is not theirs. *)
LEMMA BrokerNewStays ==
    ASSUME TypeInv, BrokerNew, made' = made, fromBroker' = fromBroker, Holding' => Holding,
           Held' = Held, NEW new, \A id : Known(id)' => Known(id) \/ id = new,
           new \notin {"s2c"} \X (1..made) \/ (Holding /\ new = Held.id /\ ~Holding')
    PROVE  BrokerNew'
  <1>1. \A id : id \in NewIds /\ id # new => id \in NewIds'
    BY DEF NewIds
  <1>2. \A i \in 1..Len(fromBroker) : fromBroker[i].id \in NewIds /\ fromBroker[i].id # new
    BY DEF BrokerNew, NewIds
  <1>3. Holding' => Held.id \in NewIds /\ Held.id # new
    BY DEF BrokerNew, NewIds
  <1> QED
    BY <1>1, <1>2, <1>3 DEF BrokerNew

(* What was passed on stays in its place while no relay finishes observing. *)
LEMMA PassedStays ==
    ASSUME PassedInv, Requests' = Requests, passed' = passed,
           \A id : Known(id) => Known(id)',
           \A id : id # NoId /\ Answered(id) => Answered(id)',
           \A d \in Directions : relay[d].pc = "observe" =>
               relay'[d].pc = "observe" /\ relay'[d].frame = relay[d].frame
    PROVE  PassedInv'
  <1>1. passed'["c2s"] \subseteq Requests'
    BY DEF PassedInv
  <1>2. ASSUME NEW d \in Directions, NEW f \in passed'[d]
        PROVE  \/ relay'[d].pc = "observe" /\ relay'[d].frame = f
               \/ /\ f.type # "beat" => Known(f.id)'
                  /\ f.re # NoId => Answered(f.re)'
    BY <1>2 DEF PassedInv
  <1> QED
    BY <1>1, <1>2 DEF PassedInv

PlaceInv == ApartInv /\ FreshInv /\ PassedInv

(* The client's relay reads: what it files was in no place. *)
LEMMA PlaceClientRead ==
    ASSUME TypeInv, PairInv, PlaceInv, [Next]_vars, Read("c2s")
    PROVE  PlaceInv'
  <1>r. PICK r : r = read + 1
    OBVIOUS
  <1> DEFINE f == Request(r)
             new == <<"c2s", r>>
  <1>0. /\ script' = script /\ Requests' = Requests /\ \A n : Request(n)' = Request(n)
        /\ Len(script) \in Nat /\ script \in Scripts
    BY ScriptStays, ScriptFacts DEF TypeInv
  <1>1. /\ relay["c2s"].pc = "read" /\ relay'["c2s"].pc = "write" /\ relay'["c2s"].frame = f
        /\ relay'["s2c"] = relay["s2c"] /\ read < Len(script) /\ read' = r
        /\ UNCHANGED <<content, records, fromBroker>>
    BY <1>r, DirectionFacts, ReadFacts
  <1>2. made' = made /\ passed' = passed
    BY DEF Read
  <1>3. r \in 1..Len(script) /\ read \in Nat /\ made \in Nat /\ r \in Nat /\ read <= r
        /\ r \in 1..r /\ r >= 1
    BY <1>r, <1>0, <1>1 DEF TypeInv
  <1>4. ~Known(new)
    BY <1>r, NextIsNew DEF PlaceInv, FreshInv
  <1>5. \A n \in 1..Len(script) : Pending(n)' <=> Pending(n) \/ (Synchronous(f) /\ n = r)
    BY <1>r, FiledByRead
  <1> HIDE DEF f
  <1>6. \A id : Filed(id)' <=> Filed(id) \/ (Synchronous(f) /\ id = new)
    <2>1. \A n : <<"c2s", n>> = new <=> n = r
      OBVIOUS
    <2> QED
      BY <1>0, <1>3, <1>5, <2>1 DEF Filed
  <1>7. \A id : (Recorded(id)' <=> Recorded(id)) /\ (Gathered(id)' <=> Gathered(id))
    BY <1>1 DEF Recorded, Gathered
  <1>8. \A id : Known(id)' <=> Known(id) \/ (Synchronous(f) /\ id = new)
    BY <1>6, <1>7 DEF Known
  <1>9. ApartInv'
    <2>1. \A n \in 1..Len(script) : Pending(n)' => ~Recorded(<<"c2s", n>>)
      BY <1>4, <1>5 DEF PlaceInv, ApartInv, Known
    <2>2. \A k \in Keys : \A id \in content[k].frames : ~Recorded(id) /\ ~Filed(id)'
      <3> SUFFICES ASSUME NEW k \in Keys, NEW id \in content[k].frames
                   PROVE  ~Recorded(id) /\ ~Filed(id)'
        OBVIOUS
      <3>1. ~Recorded(id) /\ ~Filed(id)
        BY DEF PlaceInv, ApartInv
      <3>2. id # new
        BY <1>4 DEF Known, Gathered
      <3> QED
        BY <1>6, <3>1, <3>2
    <2> QED
      BY <1>0, <1>1, <1>7, <2>1, <2>2 DEF PlaceInv, ApartInv
  <1>10. SentInv'
    <2>1. new \in Sent'
      BY <1>1, <1>3 DEF Sent
    <2>2. \A id : Known(id)' => Known(id) \/ id \in Sent'
      BY <1>8, <2>1
    <2>3. read' \in Nat /\ made' \in Nat /\ read <= read' /\ made <= made'
      BY <1>1, <1>2, <1>3
    <2> QED
      BY <2>2, <2>3, SentNext DEF PlaceInv, FreshInv
  <1>11. ClientNew'
    <2>1. Request(r)' = f
      BY <1>0 DEF f
    <2>2. ~Synchronous(f) => ~Known(new)'
      BY <1>4, <1>8
    <2> QED
      BY <1>0, <1>1, <1>3, <2>1, <2>2 DEF ClientNew
  <1>12. BrokerNew'
    <2>1. (Holding' <=> Holding) /\ Held' = Held
      BY <1>1 DEF Holding, Held
    <2>2. new \notin {"s2c"} \X (1..made)
      OBVIOUS
    <2>3. \A id : Known(id)' => Known(id) \/ id = new
      BY <1>8
    <2> HIDE DEF new
    <2> QED
      BY <1>1, <1>2, <2>1, <2>2, <2>3, BrokerNewStays DEF PlaceInv, FreshInv
  <1>13. PassedInv'
    <2>1. \A id : Answered(id) => Answered(id)'
      BY <1>1 DEF Answered
    <2>2. \A id : Known(id) => Known(id)'
      BY <1>8
    <2>3. \A d \in Directions : relay[d].pc = "observe" =>
             relay'[d].pc = "observe" /\ relay'[d].frame = relay[d].frame
      BY <1>1 DEF Directions
    <2> QED
      BY <1>0, <1>2, <2>1, <2>2, <2>3, PassedStays DEF PlaceInv
  <1> QED
    BY <1>9, <1>10, <1>11, <1>12, <1>13 DEF PlaceInv, FreshInv

(* A step without the inspector, in which a relay only stops or starts. *)
LEMMA PlaceQuiet ==
    ASSUME TypeInv, PairInv, PlaceInv, [Next]_vars,
           UNCHANGED <<pending, content, records, read, made, passed>>,
           fromBroker' = fromBroker \/ fromBroker' = <<>>,
           \A d \in Directions :
              \/ relay'[d] = relay[d]
              \/ relay[d].pc # "observe" /\ relay'[d].pc \notin {"write", "observe"}
    PROVE  PlaceInv'
  <1>0. /\ script' = script /\ Requests' = Requests /\ \A n : Request(n)' = Request(n)
        /\ read \in Nat /\ made \in Nat
    BY ScriptStays, ScriptFacts DEF TypeInv
  <1>1. /\ \A id : Known(id)' <=> Known(id)
        /\ \A id : Answered(id)' <=> Answered(id)
        /\ ApartInv'
    BY <1>0, QuietPlaces DEF PlaceInv
  <1>2. SentInv'
    <2>1. read' \in Nat /\ made' \in Nat /\ read <= read' /\ made <= made'
      BY <1>0
    <2> QED
      BY <1>1, <2>1, SentNext DEF PlaceInv, FreshInv
  <1>3. ClientNew'
    <2>1. relay'["c2s"] = relay["c2s"] \/ relay'["c2s"].pc \notin {"write", "observe"}
      BY DirectionFacts
    <2> QED
      BY <1>0, <1>1, <2>1 DEF PlaceInv, FreshInv, ClientNew
  <1>4. BrokerNew'
    <2>1. Holding' => Holding /\ relay'["s2c"] = relay["s2c"]
      BY DirectionFacts DEF Holding
    <2>2. Holding' => Held' = Held
      BY <2>1 DEF Held
    <2>3. \A id : id \in NewIds' <=> id \in NewIds
      BY <1>1 DEF NewIds
    <2> QED
      BY <2>1, <2>2, <2>3 DEF PlaceInv, FreshInv, BrokerNew
  <1>5. PassedInv'
    <2>1. \A d \in Directions : relay[d].pc = "observe" =>
             relay'[d].pc = "observe" /\ relay'[d].frame = relay[d].frame
      OBVIOUS
    <2> QED
      BY <1>0, <1>1, <2>1, PassedStays DEF PlaceInv
  <1> QED
    BY <1>1, <1>2, <1>3, <1>4, <1>5 DEF PlaceInv, FreshInv

(* The main goroutine, the handshake, and the broker when it takes a frame. *)
LEMMA PlaceOther ==
    ASSUME TypeInv, PhaseInv, PairInv, PlaceInv, [Next]_vars,
           Negotiate \/ End \/ Cancel \/ BrokerTakes \/ UNCHANGED vars
    PROVE  PlaceInv'
  <1>1. CASE Negotiate
    <2>1. phase \in Steps /\ UNCHANGED Unrelated
          /\ (relay' = relay \/ \A d \in Directions : relay'[d].pc = "read")
      BY <1>1, NegotiateFacts
    <2>2. \A d \in Directions : relay[d].pc = "none"
      BY <2>1 DEF PhaseInv
    <2>3. \A d \in Directions :
              \/ relay'[d] = relay[d]
              \/ relay[d].pc # "observe" /\ relay'[d].pc \notin {"write", "observe"}
      BY <2>1, <2>2
    <2>4. UNCHANGED <<pending, content, records, read, made, passed, fromBroker>>
      BY <2>1 DEF Unrelated, inspector, net
    <2> QED
      BY <2>3, <2>4, PlaceQuiet
  <1>2. CASE End \/ Cancel \/ BrokerTakes \/ UNCHANGED vars
    <2>1. /\ UNCHANGED <<pending, content, records, read, made, passed>>
          /\ fromBroker' = fromBroker \/ fromBroker' = <<>>
          /\ relay' = relay
      BY <1>2 DEF End, Cancel, BrokerTakes, vars, inspector, net
    <2> QED
      BY <2>1, PlaceQuiet
  <1> QED
    BY <1>1, <1>2

(* The broker sends a frame that was in no place. *)
LEMMA PlaceBrokerSends ==
    ASSUME TypeInv, PairInv, PlaceInv, [Next]_vars, BrokerSends
    PROVE  PlaceInv'
  <1>m. PICK m : m = made + 1
    OBVIOUS
  <1>0. /\ script' = script /\ Requests' = Requests /\ \A n : Request(n)' = Request(n)
        /\ read \in Nat /\ made \in Nat /\ m \in Nat
    BY <1>m, ScriptStays, ScriptFacts DEF TypeInv
  <1> DEFINE b == fromBroker
  <1>1. PICK c \in Chans :
          /\ outbox[c] # <<>> /\ made' = m
          /\ fromBroker' = Append(b, [Head(outbox[c]) EXCEPT !.id = <<"s2c", m>>])
          /\ UNCHANGED <<read, relay, pending, content, records, passed>>
    BY <1>m DEF BrokerSends, inspector, Chans
  <1> DEFINE g == [Head(outbox[c]) EXCEPT !.id = <<"s2c", m>>]
  <1>2. g \in BrokerFrames /\ g.id = <<"s2c", m>> /\ b \in Seq(BrokerFrames)
    <2>1. outbox[c] \in Seq(BrokerFrames)
      BY DEF TypeInv
    <2>2. Head(outbox[c]) \in BrokerFrames
      BY <1>1, <2>1, SeqSteps
    <2>3. <<"s2c", m>> \in Ids
      BY <1>0 DEF Ids
    <2> QED
      BY <2>2, <2>3 DEF BrokerFrames, Frames, AnswersTo, TypeInv
  <1> HIDE DEF g, b
  <1>3. /\ Len(b) \in Nat /\ Len(Append(b, g)) = Len(b) + 1
        /\ \A i \in 1..Len(b) : Append(b, g)[i] = b[i]
        /\ Append(b, g)[Len(b) + 1] = g
    BY <1>2, SeqSteps
  <1>4. fromBroker' = Append(b, g)
    BY <1>1 DEF g
  <1>5. /\ \A id : Known(id)' <=> Known(id)
        /\ \A id : Answered(id)' <=> Answered(id)
        /\ ApartInv'
    BY <1>0, <1>1, QuietPlaces DEF PlaceInv
  <1>6. ~Known(<<"s2c", m>>)
    BY <1>m, NextIsNew DEF PlaceInv, FreshInv
  <1>7. SentInv'
    <2>1. read' \in Nat /\ made' \in Nat /\ read <= read' /\ made <= made'
      BY <1>m, <1>0, <1>1
    <2> QED
      BY <1>5, <2>1, SentNext DEF PlaceInv, FreshInv
  <1>8. ClientNew'
    BY <1>0, <1>1, <1>5 DEF PlaceInv, FreshInv, ClientNew
  <1>9. BrokerNew'
    <2>1. (Holding' <=> Holding) /\ Held' = Held
      BY <1>1 DEF Holding, Held
    <2>2. m \in 1..m /\ 1..made \subseteq 1..m /\ m \notin 1..made
      BY <1>m, <1>0
    <2>3. \A id : id \in NewIds => id \in NewIds' /\ id # g.id
      BY <1>1, <1>2, <1>5, <2>2 DEF NewIds
    <2>4. g.id \in NewIds'
      BY <1>1, <1>2, <1>5, <1>6, <2>2 DEF NewIds
    <2>5. /\ \A i \in 1..Len(b) : b[i].id \in NewIds
          /\ \A i, j \in 1..Len(b) : b[i].id = b[j].id => i = j
          /\ Holding => Held.id \in NewIds /\ \A i \in 1..Len(b) : b[i].id # Held.id
      BY DEF PlaceInv, FreshInv, BrokerNew, b
    <2>6. \A i \in 1..(Len(b) + 1) : i \in 1..Len(b) \/ i = Len(b) + 1
      BY <1>3
    <2>7. \A i \in 1..Len(fromBroker') :
             \/ i \in 1..Len(b) /\ fromBroker'[i] = b[i]
             \/ i = Len(b) + 1 /\ fromBroker'[i] = g
      BY <1>3, <1>4, <2>6
    <2>8. \A i \in 1..Len(fromBroker') : fromBroker'[i].id \in NewIds'
      BY <2>3, <2>4, <2>5, <2>7
    <2>9. \A i, j \in 1..Len(fromBroker') : fromBroker'[i].id = fromBroker'[j].id => i = j
      BY <2>3, <2>5, <2>7
    <2>10. Holding => Held.id \in NewIds' /\ \A i \in 1..Len(fromBroker') : fromBroker'[i].id # Held.id
      BY <2>3, <2>5, <2>7
    <2> QED
      BY <2>1, <2>8, <2>9, <2>10 DEF BrokerNew
  <1>10. PassedInv'
    BY <1>0, <1>1, <1>5, PassedStays DEF PlaceInv
  <1> QED
    BY <1>5, <1>7, <1>8, <1>9, <1>10 DEF PlaceInv, FreshInv

(* The broker's relay reads: the first frame is as new as it was. *)
LEMMA PlaceBrokerRead ==
    ASSUME TypeInv, PairInv, PlaceInv, [Next]_vars, Read("s2c")
    PROVE  PlaceInv'
  <1> DEFINE b == fromBroker
  <1>0. /\ script' = script /\ Requests' = Requests /\ \A n : Request(n)' = Request(n)
        /\ read \in Nat /\ made \in Nat
    BY ScriptStays, ScriptFacts DEF TypeInv
  <1>1. /\ relay["s2c"].pc = "read" /\ relay'["s2c"].frame = Head(b)
        /\ relay'["c2s"] = relay["c2s"]
        /\ b # <<>> /\ fromBroker' = Tail(b)
        /\ UNCHANGED <<read, pending, content, records, made, passed>>
    <2> DEFINE d == "s2c"
               frame == Identified(d, Head(Incoming(d)))
    <2>1. d \in Directions /\ d # "c2s" /\ "c2s" \in Directions \ {d}
      BY DirectionFacts
    <2>2. /\ relay[d].pc = "read" /\ relay'[d].frame = frame
          /\ \A e \in Directions \ {d} : relay'[e] = relay[e]
          /\ frame = Head(fromBroker) /\ fromBroker # <<>> /\ fromBroker' = Tail(fromBroker)
          /\ read' = read
          /\ pending' = IF Prepares(d, frame)
                        THEN [pending EXCEPT ![frame.ch] = Append(@, frame)] ELSE pending
          /\ UNCHANGED <<content, records>>
      BY <2>1, ReadFacts
    <2>3. ~Prepares(d, frame)
      BY <2>1 DEF Prepares
    <2> HIDE DEF frame
    <2>4. relay'["c2s"] = relay["c2s"]
      BY <2>1, <2>2
    <2>5. made' = made /\ passed' = passed
      BY DEF Read
    <2> QED
      BY <2>2, <2>3, <2>4, <2>5
  <1>2. /\ b \in Seq(BrokerFrames) /\ Len(b) \in Nat /\ Len(b) >= 1 /\ Head(b) = b[1]
        /\ Len(Tail(b)) = Len(b) - 1
        /\ \A i \in 1..(Len(b) - 1) : Tail(b)[i] = b[i + 1]
    BY <1>1, SeqSteps DEF TypeInv
  <1>3. /\ \A id : Known(id)' <=> Known(id)
        /\ \A id : Answered(id)' <=> Answered(id)
        /\ ApartInv'
    BY <1>0, <1>1, QuietPlaces DEF PlaceInv
  <1>4. SentInv'
    <2>1. read' \in Nat /\ made' \in Nat /\ read <= read' /\ made <= made'
      BY <1>0, <1>1
    <2> QED
      BY <1>3, <2>1, SentNext DEF PlaceInv, FreshInv
  <1>5. ClientNew'
    BY <1>0, <1>1, <1>3 DEF PlaceInv, FreshInv, ClientNew
  <1>6. BrokerNew'
    <2>1. Held' = b[1]
      BY <1>1, <1>2 DEF Held
    <2>2. \A id : id \in NewIds' <=> id \in NewIds
      BY <1>1, <1>3 DEF NewIds
    <2>3. /\ \A i \in 1..Len(b) : b[i].id \in NewIds
          /\ \A i, j \in 1..Len(b) : b[i].id = b[j].id => i = j
      BY DEF PlaceInv, FreshInv, BrokerNew
    <2> HIDE DEF b
    <2>4. \A i \in 1..Len(Tail(b)) : Tail(b)[i] = b[i + 1] /\ i + 1 \in 1..Len(b) /\ i + 1 # 1
      BY <1>2
    <2>5. 1 \in 1..Len(b)
      BY <1>2
    <2>6. \A i \in 1..Len(Tail(b)) : Tail(b)[i].id \in NewIds' /\ Tail(b)[i].id # b[1].id
      BY <2>2, <2>3, <2>4, <2>5
    <2>7. ASSUME NEW i \in 1..Len(Tail(b)), NEW j \in 1..Len(Tail(b)), Tail(b)[i].id = Tail(b)[j].id
          PROVE  i = j
      <3>1. i + 1 = j + 1
        BY <2>3, <2>4, <2>7
      <3> QED
        BY <1>2, <3>1
    <2>8. b[1].id \in NewIds'
      BY <2>2, <2>3, <2>5
    <2> QED
      BY <1>1, <2>1, <2>6, <2>7, <2>8 DEF BrokerNew
  <1>7. PassedInv'
    <2>1. \A d \in Directions : relay[d].pc = "observe" =>
             relay'[d].pc = "observe" /\ relay'[d].frame = relay[d].frame
      BY <1>1 DEF Directions
    <2> QED
      BY <1>0, <1>1, <1>3, <2>1, PassedStays DEF PlaceInv
  <1> QED
    BY <1>3, <1>4, <1>5, <1>6, <1>7 DEF PlaceInv, FreshInv

(* A relay writes: the frame is observed next, unless it is filed. *)
LEMMA PlaceWrite ==
    ASSUME TypeInv, PairInv, PlaceInv, [Next]_vars, NEW d \in Directions, Write(d)
    PROVE  PlaceInv'
  <1>f. PICK f : f = relay[d].frame
    OBVIOUS
  <1>0. /\ script' = script /\ Requests' = Requests /\ \A n : Request(n)' = Request(n)
        /\ read \in Nat /\ made \in Nat /\ script \in Scripts
    BY ScriptStays, ScriptFacts DEF TypeInv
  <1>1. /\ relay[d].pc = "write" /\ relay'[d].frame = f
        /\ relay'[d].pc = (IF relay[d].prepared THEN "read" ELSE "observe")
        /\ \A e \in Directions \ {d} : relay'[e] = relay[e]
        /\ passed' = [passed EXCEPT ![d] = @ \cup {f}]
        /\ UNCHANGED <<read, pending, content, records, fromBroker, made>>
    BY <1>f, WriteFacts DEF inspector
  <1>2. /\ \A id : Known(id)' <=> Known(id)
        /\ \A id : Answered(id)' <=> Answered(id)
        /\ ApartInv'
    BY <1>0, <1>1, QuietPlaces DEF PlaceInv
  <1>3. SentInv'
    <2>1. read' \in Nat /\ made' \in Nat /\ read <= read' /\ made <= made'
      BY <1>0, <1>1
    <2> QED
      BY <1>2, <2>1, SentNext DEF PlaceInv, FreshInv
  <1>4. /\ relay'["c2s"].pc \in {"write", "observe"} =>
              relay["c2s"].pc \in {"write", "observe"} /\ relay'["c2s"].frame = relay["c2s"].frame
        /\ Holding' => Holding /\ relay'["s2c"].frame = relay["s2c"].frame
    BY <1>f, <1>1 DEF Holding, Directions
  <1>5. ClientNew'
    BY <1>0, <1>1, <1>2, <1>4 DEF PlaceInv, FreshInv, ClientNew
  <1>6. BrokerNew'
    <2>1. \A id : id \in NewIds' <=> id \in NewIds
      BY <1>1, <1>2 DEF NewIds
    <2>2. Holding' => Held' = Held
      BY <1>4 DEF Held
    <2> QED
      BY <1>1, <1>4, <2>1, <2>2 DEF PlaceInv, FreshInv, BrokerNew
  <1>7. relay[d].prepared => f.re = NoId /\ Known(f.id)
    <2> SUFFICES ASSUME relay[d].prepared PROVE f.re = NoId /\ Known(f.id)
      OBVIOUS
    <2>1. d = "c2s"
      BY <1>1 DEF PairInv, PlacesInv, Directions
    <2>2. PICK n \in 1..Len(script) : f = Request(n) /\ Pending(n)
      BY <1>f, <1>1, <2>1 DEF PairInv, PlacesInv
    <2>3. f.re = NoId /\ f.id = <<"c2s", n>>
      BY <1>0, <2>2, RequestFacts
    <2> QED
      BY <2>2, <2>3 DEF Known, Filed
  <1>8. PassedInv'
    <2>1. passed'["c2s"] \subseteq Requests
      <3>1. d = "c2s" => f \in Requests
        BY <1>f, <1>1 DEF TypeInv
      <3> QED
        BY <1>1, <3>1, DirectionFacts DEF PlaceInv, PassedInv, TypeInv
    <2>2. ASSUME NEW e \in Directions, NEW g \in passed'[e]
          PROVE  \/ relay'[e].pc = "observe" /\ relay'[e].frame = g
                 \/ /\ g.type # "beat" => Known(g.id)
                    /\ g.re # NoId => Answered(g.re)
      <3>1. CASE e = d /\ g = f
        BY <1>1, <1>7, <3>1
      <3>2. CASE e = d /\ g # f
        <4>1. g \in passed[d]
          BY <1>1, <2>2, <3>2 DEF TypeInv
        <4> QED
          BY <1>1, <3>2, <4>1 DEF PlaceInv, PassedInv
      <3>3. CASE e # d
        <4>1. g \in passed[e] /\ relay'[e] = relay[e]
          BY <1>1, <2>2, <3>3 DEF TypeInv
        <4> QED
          BY <4>1 DEF PlaceInv, PassedInv
      <3> QED
        BY <3>1, <3>2, <3>3
    <2> QED
      BY <1>0, <1>2, <2>1, <2>2 DEF PassedInv
  <1> QED
    BY <1>2, <1>3, <1>5, <1>6, <1>8 DEF PlaceInv, FreshInv

(* A relay ends; a blocked frame is recorded. *)
LEMMA PlaceEnd ==
    ASSUME TypeInv, PairInv, PlaceInv, [Next]_vars, NEW d \in Directions,
           ReadOversized(d) \/ ReadBlocked(d) \/ ReadFails(d) \/ WriteFails(d)
    PROVE  PlaceInv'
  <1>0. /\ script' = script /\ Requests' = Requests /\ \A n : Request(n)' = Request(n)
        /\ read \in Nat /\ made \in Nat /\ script \in Scripts /\ Len(script) \in Nat
    BY ScriptStays, ScriptFacts DEF TypeInv
  <1>1. /\ relay[d].pc \in {"read", "write"} /\ relay'[d].pc = "end"
        /\ \A e \in Directions \ {d} : relay'[e] = relay[e]
        /\ UNCHANGED <<pending, content, made, fromBroker, passed>>
    BY EndFacts
  <1>2. \A e \in Directions :
              \/ relay'[e] = relay[e]
              \/ relay[e].pc # "observe" /\ relay'[e].pc \notin {"write", "observe"}
    BY <1>1
  <1>3. CASE ReadOversized(d) \/ ReadFails(d) \/ WriteFails(d)
    <2>1. read' = read /\ records' = records
      BY <1>3 DEF ReadOversized, ReadFails, WriteFails, inspector
    <2> QED
      BY <1>1, <1>2, <2>1, PlaceQuiet
  <1>4. CASE ReadBlocked(d)
    <2>r. PICK n : n = read + 1
      OBVIOUS
    <2>f. PICK f : f = Request(n)
      OBVIOUS
    <2>1. d = "c2s"
      BY <1>4 DEF ReadBlocked, Blocked
    <2>2. /\ Identified(d, Head(Incoming(d))) = f /\ n \in 1..Len(script)
      BY <1>4, <2>r, <2>f, <2>1, IncomingFacts DEF ReadBlocked
    <2>3. read' = n /\ records' = records (+) SetToBag({MethodRecord(f, TRUE)})
      BY <1>4, <2>r, <2>1, <2>2 DEF ReadBlocked, Advance, Add
    <2>4. f \in Frames /\ f.id = <<"c2s", n>>
      BY <1>0, <2>f, <2>2, RequestFacts
    <2>5. ~Known(f.id)
      BY <2>r, <2>4, NextIsNew DEF PlaceInv, FreshInv
    <2>6. Took("c2s", f) = {}
      BY DEF Took
    <2>7. Event("c2s", f, MethodRecord(f, TRUE))
      <3>1. MethodRecord(f, TRUE).frames = {f.id} /\ ~MethodRecord(f, TRUE).ok
        BY DEF MethodRecord, Record
      <3>2. f.m \notin Contents
        BY <1>4, <2>1, <2>2 DEF ReadBlocked, Blocked, Credentials, Contents
      <3> QED
        BY <1>1, <2>3, <2>6, <3>1, <3>2 DEF Event
    <2>8. \A id : Filed(id)' <=> Filed(id) /\ id \notin Took("c2s", f)
      BY <1>0, <1>1, <2>6 DEF Filed, Pending
    <2>9. ApartInv' /\ \A id : Known(id)' <=> Known(id) \/ id = f.id
      <3>1. PlacesInv /\ ApartInv
        BY DEF PairInv, PlaceInv
      <3>2. \A id \in Took("c2s", f) : Filed(id)
        BY <2>6
      <3> QED
        BY <1>0, <2>4, <2>5, <2>7, <2>8, <3>1, <3>2, ApartMoves, DirectionFacts
    <2>10. SentInv'
      <3>1. n \in 1..n /\ n \in Nat /\ read <= n
        BY <1>0, <2>r
      <3>2. f.id \in Sent'
        BY <2>3, <2>4, <3>1 DEF Sent
      <3>3. \A id : Known(id)' => Known(id) \/ id \in Sent'
        BY <2>9, <3>2
      <3>4. read' \in Nat /\ made' \in Nat /\ read <= read' /\ made <= made'
        BY <1>0, <1>1, <2>3, <3>1
      <3> QED
        BY <3>3, <3>4, SentNext DEF PlaceInv, FreshInv
    <2>11. ClientNew'
      BY <1>1, <2>1 DEF ClientNew
    <2>12. BrokerNew'
      <3>1. (Holding' <=> Holding) /\ Held' = Held
        BY <1>1, <2>1, DirectionFacts DEF Holding, Held
      <3>2. f.id \notin {"s2c"} \X (1..made)
        BY <2>4
      <3>3. \A id : Known(id)' => Known(id) \/ id = f.id
        BY <2>9
      <3> QED
        BY <1>1, <3>1, <3>2, <3>3, BrokerNewStays DEF PlaceInv, FreshInv
    <2>13. PassedInv'
      <3>1. \A e \in Directions : relay[e].pc = "observe" =>
               relay'[e].pc = "observe" /\ relay'[e].frame = relay[e].frame
        BY <1>1
      <3>2. \A id : Known(id) => Known(id)'
        BY <2>9
      <3>3. \A id : Answered(id) => Answered(id)'
        <4>1. DOMAIN records' = DOMAIN records \cup {MethodRecord(f, TRUE)}
          BY <2>3, AddedFacts
        <4> QED
          BY <1>1, <4>1 DEF Answered
      <3> QED
        BY <1>0, <1>1, <3>1, <3>2, <3>3, PassedStays DEF PlaceInv
    <2> QED
      BY <2>9, <2>10, <2>11, <2>12, <2>13 DEF PlaceInv, FreshInv
  <1> QED
    BY <1>3, <1>4

(* An answer stays with its request, and a new one is found with its own. *)
LEMMA AnsweredMoves ==
    ASSUME PlacesInv, ContentInv, NEW d \in Directions, NEW frame \in Frames,
           d = "c2s" => frame.re = NoId,
           NEW x, Event(d, frame, x) \/ Begin(d, frame, x) \/ Finish(d, frame, x)
                  \/ Grow(d, frame, x)
    PROVE  /\ \A id : id # NoId /\ Answered(id) => Answered(id)'
           /\ frame.re # NoId => Answered(frame.re)'
  <1> DEFINE k == <<d, frame.ch>>
             old == content[k]
  <1>1. k \in Keys /\ content \in [Keys -> States] /\ old.re = old.req
    BY DEF Keys, Chans, Frames, PlacesInv, ContentInv
  <1>2. NoContent.req = NoId
    BY DEF NoContent
  <1>3. frame.re # NoId => Took(d, frame) # {}
    BY DEF Took, Directions
  <1>4. \A c : content' = [content EXCEPT ![k] = c] =>
                  content'[k] = c /\ \A j \in Keys : j # k => content'[j] = content[j]
    BY <1>1
  <1>5. \A r : records' = records (+) SetToBag({r}) => DOMAIN records' = DOMAIN records \cup {r}
    BY AddedFacts
  <1>6. ASSUME DOMAIN records \subseteq DOMAIN records',
               \A j \in Keys : j # k => content'[j] = content[j],
               \/ old.req \in {content'[k].req, NoId}
               \/ \E r \in DOMAIN records' : r.req = old.req /\ r.re = old.re
        PROVE  \A id : id # NoId /\ Answered(id) => Answered(id)'
    <2> SUFFICES ASSUME NEW id, id # NoId, Answered(id) PROVE Answered(id)'
      OBVIOUS
    <2>1. CASE \E r \in DOMAIN records : r.req = id /\ r.re = r.req
      BY <1>6, <2>1 DEF Answered
    <2>2. ASSUME NEW j \in Keys, content[j].req = id PROVE Answered(id)'
      <3>1. CASE j = k
        BY <1>1, <1>6, <2>2, <3>1 DEF Answered
      <3>2. CASE j # k
        BY <1>6, <2>2, <3>2 DEF Answered
      <3> QED
        BY <3>1, <3>2
    <2> QED
      BY <2>1, <2>2 DEF Answered
  <1>7. CASE Event(d, frame, x)
    <2>1. content' = content /\ DOMAIN records' = DOMAIN records \cup {x}
          /\ (Took(d, frame) # {} => x.req = frame.re /\ x.re = frame.re)
      BY <1>5, <1>7 DEF Event
    <2>2. frame.re # NoId => Answered(frame.re)'
      BY <1>3, <2>1 DEF Answered
    <2> QED
      BY <1>6, <2>1, <2>2
  <1>8. CASE Begin(d, frame, x)
    <2> DEFINE o == ContentRecord(old, TRUE)
    <2>1. /\ content' = [content EXCEPT ![k] = x] /\ x.req = frame.re
          /\ old = NoContent => records' = records
          /\ old # NoContent => records' = records (+) SetToBag({o})
      BY <1>8 DEF Begin
    <2>2. o.req = old.req /\ o.re = old.re
      BY DEF ContentRecord, Record
    <2> HIDE DEF o
    <2>3. content'[k] = x /\ \A j \in Keys : j # k => content'[j] = content[j]
      BY <1>4, <2>1
    <2>4. old # NoContent => DOMAIN records' = DOMAIN records \cup {o}
      BY <1>5, <2>1
    <2>5. frame.re # NoId => Answered(frame.re)'
      BY <1>1, <2>1, <2>3 DEF Answered
    <2>6. DOMAIN records \subseteq DOMAIN records'
      BY <2>1, <2>4
    <2>7. \/ old.req = NoId
          \/ \E r \in DOMAIN records' : r.req = old.req /\ r.re = old.re
      BY <1>2, <2>2, <2>4
    <2> QED
      BY <1>6, <2>3, <2>5, <2>6, <2>7
  <1>9. CASE Finish(d, frame, x)
    <2>1. /\ content' = [content EXCEPT ![k] = NoContent] /\ frame.re = NoId
          /\ x.req = old.req /\ x.re = old.re
          /\ DOMAIN records' = DOMAIN records \cup {x}
      BY <1>5, <1>9 DEF Finish
    <2>2. \A j \in Keys : j # k => content'[j] = content[j]
      BY <1>4, <2>1
    <2>3. \E r \in DOMAIN records' : r.req = old.req /\ r.re = old.re
      BY <2>1
    <2> QED
      BY <1>6, <2>1, <2>2, <2>3
  <1>10. CASE Grow(d, frame, x)
    <2>1. /\ content' = [content EXCEPT ![k] = x] /\ frame.re = NoId
          /\ x.req = old.req /\ records' = records
      BY <1>10 DEF Grow
    <2>2. content'[k] = x /\ \A j \in Keys : j # k => content'[j] = content[j]
      BY <1>4, <2>1
    <2> QED
      BY <1>6, <2>1, <2>2
  <1> QED
    BY <1>7, <1>8, <1>9, <1>10

(* A relay observes: the frame that it passed on has its place now. *)
LEMMA PlaceObserve ==
    ASSUME TypeInv, PairInv, PlaceInv, [Next]_vars, NEW d \in Directions, Observe(d)
    PROVE  PlaceInv'
  <1>f. PICK f : f = relay[d].frame
    OBVIOUS
  <1>0. /\ script' = script /\ Requests' = Requests /\ \A n : Request(n)' = Request(n)
        /\ read \in Nat /\ made \in Nat /\ script \in Scripts
    BY ScriptStays, ScriptFacts DEF TypeInv
  <1>i. ApartInv /\ FreshInv /\ PassedInv /\ PlacesInv /\ ContentInv
    BY DEF PlaceInv, PairInv
  <1>1. /\ relay[d].pc = "observe" /\ relay'[d].pc = "read"
        /\ \A e \in Directions \ {d} : relay'[e] = relay[e]
        /\ UNCHANGED <<read, fromBroker, made, passed>>
    BY ObserveFacts DEF net
  <1>2. /\ ApartInv'
        /\ \A id : Known(id)' <=> Known(id) \/ (id = f.id /\ f.type # "beat")
    BY <1>f, <1>i, ApartObserve
  <1>3. /\ f \in Frames /\ (d = "c2s" => f.re = NoId)
        /\ d = "c2s" => \E n \in 1..Len(script) : n = read /\ f = Request(n)
        /\ d = "s2c" => f = Held /\ Holding
    BY <1>f, <1>i, ObserveCase
  <1>4. /\ d = "c2s" => \E n \in 1..Len(script) : n = read /\ f.id = <<"c2s", n>>
        /\ d = "s2c" => f.id \in {"s2c"} \X (1..made)
    BY <1>0, <1>i, <1>3, RequestFacts DEF FreshInv, BrokerNew, NewIds
  <1>5. f.id \in Sent
    <2>1. CASE d = "c2s"
      <3>1. PICK n \in 1..Len(script) : n = read /\ f.id = <<"c2s", n>>
        BY <1>4, <2>1
      <3>2. n \in 1..read
        BY <1>0, <3>1
      <3> QED
        BY <3>1, <3>2 DEF Sent
    <2> QED
      BY <1>4, <2>1 DEF Sent, Directions
  <1>6. SentInv'
    <2>1. Sent' = Sent
      BY <1>1 DEF Sent
    <2>2. \A id : Known(id)' => Known(id) \/ id \in Sent'
      BY <1>2, <1>5, <2>1
    <2>3. read' \in Nat /\ made' \in Nat /\ read <= read' /\ made <= made'
      BY <1>0, <1>1
    <2> QED
      BY <1>i, <2>2, <2>3, SentNext DEF FreshInv
  <1>7. ClientNew'
    <2>1. CASE d = "c2s"
      BY <1>1, <2>1 DEF ClientNew
    <2>2. CASE d = "s2c"
      <3>1. relay'["c2s"] = relay["c2s"]
        BY <1>1, <2>2, DirectionFacts
      <3>2. \A n : <<"c2s", n>> # f.id
        BY <1>4, <2>2
      <3>3. \A n : Known(<<"c2s", n>>)' => Known(<<"c2s", n>>)
        BY <1>2, <3>2
      <3> QED
        BY <1>0, <1>1, <1>i, <3>1, <3>3 DEF FreshInv, ClientNew
    <2> QED
      BY <2>1, <2>2 DEF Directions
  <1>8. BrokerNew'
    <2>1. Held' = Held /\ (Holding' => Holding)
      <3>1. relay'["s2c"].frame = relay["s2c"].frame
        BY DirectionFacts DEF Observe, TypeInv, Relays
      <3> QED
        BY <1>1, <3>1 DEF Held, Holding, Directions
    <2>2. \A id : Known(id)' => Known(id) \/ id = f.id
      BY <1>2
    <2>3. f.id \notin {"s2c"} \X (1..made) \/ (Holding /\ f.id = Held.id /\ ~Holding')
      BY <1>1, <1>3, <1>4 DEF Holding, Directions
    <2> QED
      BY <1>1, <1>i, <2>1, <2>2, <2>3, BrokerNewStays DEF FreshInv
  <1>9. /\ \A id : id # NoId /\ Answered(id) => Answered(id)'
        /\ f.re # NoId => Answered(f.re)'
    <2>1. CASE f.type = "beat"
      <3>1. UNCHANGED <<pending, content, records>> /\ f.re = NoId
        BY <1>f, <1>i, <2>1, ObserveCase
      <3> QED
        BY <1>0, <3>1, QuietPlaces
    <2>2. CASE f.type # "beat"
      <3>1. PICK x : Event(d, f, x) \/ Begin(d, f, x) \/ Finish(d, f, x) \/ Grow(d, f, x)
        BY <1>f, <1>i, <2>2, ObserveCase
      <3> QED
        BY <1>i, <1>3, <3>1, AnsweredMoves
    <2> QED
      BY <2>1, <2>2
  <1>10. PassedInv'
    <2>1. \A id : Known(id) => Known(id)'
      BY <1>2
    <2>2. f.type # "beat" => Known(f.id)'
      BY <1>2
    <2>3. ASSUME NEW e \in Directions, NEW g \in passed[e]
          PROVE  \/ relay'[e].pc = "observe" /\ relay'[e].frame = g
                 \/ /\ g.type # "beat" => Known(g.id)'
                    /\ g.re # NoId => Answered(g.re)'
      <3>1. CASE e = d /\ g = f
        BY <1>9, <2>2, <3>1
      <3>2. CASE ~(e = d /\ g = f)
        <4>1. \/ e # d /\ relay[e].pc = "observe" /\ relay[e].frame = g
              \/ /\ g.type # "beat" => Known(g.id)
                 /\ g.re # NoId => Answered(g.re)
          BY <1>f, <1>i, <2>3, <3>2 DEF PassedInv
        <4> QED
          BY <1>1, <1>9, <2>1, <4>1
      <3> QED
        BY <3>1, <3>2
    <2> QED
      BY <1>0, <1>1, <1>i, <2>3 DEF PassedInv
  <1> QED
    BY <1>2, <1>6, <1>7, <1>8, <1>10 DEF PlaceInv, FreshInv

(* The session is over: what is left goes from its place to a record. *)
LEMMA PlaceFailPending ==
    ASSUME TypeInv, PhaseInv, PairInv, PlaceInv, [Next]_vars, FailPending
    PROVE  PlaceInv'
  <1> DEFINE requests == UNION {Range(pending[ch]) : ch \in DOMAIN pending}
             states == Range(content) \ {NoContent}
             R == {FailedRecord(q) : q \in requests} \cup {ContentRecord(c, TRUE) : c \in states}
  <1>0. /\ script' = script /\ Requests' = Requests /\ \A n : Request(n)' = Request(n)
        /\ read \in Nat /\ made \in Nat /\ script \in Scripts
    BY ScriptStays, ScriptFacts DEF TypeInv
  <1>1. /\ phase = "wait" /\ \A d \in Directions : relay[d].pc = "end"
        /\ relay' = relay /\ records' = records (+) SetToBag(R)
        /\ pending' = [ch \in DOMAIN pending |-> <<>>]
        /\ content' = [k \in DOMAIN content |-> NoContent]
        /\ UNCHANGED <<read, made, fromBroker, passed>>
    BY DEF FailPending, Waited, net, Add
  <1>2. /\ pending \in [Chans -> Seq(Requests)] /\ content \in [Keys -> States]
        /\ \A ch \in Chans : \A i \in 1..Len(pending[ch]) : pending[ch][i].ch = ch
    BY DEF PairInv, PlacesInv, Keys
  <1>i. ApartInv /\ FreshInv /\ PassedInv /\ ContentInv
    BY DEF PlaceInv, PairInv
  <1>3. \A q : q \in requests <=> \E n \in 1..Len(script) : q = Request(n) /\ Pending(n)
    <2>1. \A q : q \in requests <=>
             \E ch \in Chans : \E i \in 1..Len(pending[ch]) : pending[ch][i] = q
      BY <1>2 DEF Range
    <2>2. ASSUME NEW ch \in Chans, NEW i \in 1..Len(pending[ch])
          PROVE  \E n \in 1..Len(script) : pending[ch][i] = Request(n) /\ Pending(n)
      <3>1. pending[ch][i] \in Requests /\ pending[ch][i].ch = ch
        BY <1>2
      <3>2. PICK n \in 1..Len(script) : pending[ch][i] = Request(n) /\ script[n].ch = ch
        BY <1>0, <3>1, RequestNumber
      <3> QED
        BY <3>2 DEF Pending
    <2>3. \A n \in 1..Len(script) : script[n].ch \in Chans
      BY <1>0, ScriptFacts DEF Frames, Chans
    <2> HIDE DEF requests
    <2>4. ASSUME NEW q \in requests
          PROVE  \E n \in 1..Len(script) : q = Request(n) /\ Pending(n)
      <3>1. PICK ch \in Chans, i \in Nat : i \in 1..Len(pending[ch]) /\ pending[ch][i] = q
        BY <2>1, <2>4, <1>2
      <3> QED
        BY <2>2, <3>1
    <2>5. ASSUME NEW n \in 1..Len(script), Pending(n) PROVE Request(n) \in requests
      BY <2>1, <2>3, <2>5 DEF Pending
    <2> QED
      BY <2>4, <2>5
  <1>4. \A c : c \in states <=> c # NoContent /\ \E k \in Keys : c = content[k]
    BY <1>2 DEF Range
  <1>5. \A n \in 1..Len(script) : /\ FailedRecord(Request(n)).frames = {<<"c2s", n>>}
                                  /\ FailedRecord(Request(n)).req = <<"c2s", n>>
    BY <1>0, RequestFacts DEF FailedRecord, Record
  <1>6. \A c : /\ ContentRecord(c, TRUE).frames = c.frames /\ ContentRecord(c, TRUE).req = c.req
               /\ ContentRecord(c, TRUE).re = c.re
    BY DEF ContentRecord, Record
  <1> HIDE DEF requests, states
  <1>7. \A r \in R :
           \/ \E n \in 1..Len(script) : /\ Pending(n) /\ r = FailedRecord(Request(n))
                                        /\ r.frames = {<<"c2s", n>>}
           \/ \E k \in Keys : /\ content[k] # NoContent /\ r = ContentRecord(content[k], TRUE)
                              /\ r.frames = content[k].frames
    <2>1. ASSUME NEW q \in requests
          PROVE  \E n \in 1..Len(script) : /\ Pending(n) /\ FailedRecord(q) = FailedRecord(Request(n))
                                           /\ FailedRecord(q).frames = {<<"c2s", n>>}
      BY <1>3, <1>5, <2>1
    <2>2. ASSUME NEW c \in states
          PROVE  \E k \in Keys : /\ content[k] # NoContent
                                 /\ ContentRecord(c, TRUE) = ContentRecord(content[k], TRUE)
                                 /\ ContentRecord(c, TRUE).frames = content[k].frames
      <3>1. PICK k \in Keys : c # NoContent /\ c = content[k]
        BY <1>4, <2>2
      <3>2. ContentRecord(c, TRUE).frames = c.frames
        BY <1>6
      <3> QED
        BY <3>1, <3>2
    <2> QED
      BY <2>1, <2>2
  <1>8. \A n \in 1..Len(script) : Pending(n) => FailedRecord(Request(n)) \in R
    BY <1>3
  <1>9. \A k \in Keys : content[k] # NoContent => ContentRecord(content[k], TRUE) \in R
    BY <1>4
  <1> HIDE DEF R
  <1>10. \A id : (\E r \in R : id \in r.frames) <=> Filed(id) \/ Gathered(id)
    <2>1. ASSUME NEW id, NEW r \in R, id \in r.frames PROVE Filed(id) \/ Gathered(id)
      BY <1>7, <2>1 DEF Filed, Gathered
    <2>2. ASSUME NEW id, Filed(id) PROVE \E r \in R : id \in r.frames
      BY <1>5, <1>8, <2>2 DEF Filed
    <2>3. ASSUME NEW id, Gathered(id) PROVE \E r \in R : id \in r.frames
      <3>1. PICK k \in Keys : id \in content[k].frames
        BY <2>3 DEF Gathered
      <3>2. content[k] # NoContent
        BY <3>1 DEF NoContent
      <3> QED
        BY <1>6, <1>9, <3>1, <3>2
    <2> QED
      BY <2>1, <2>2, <2>3
  <1>11. \A r \in R : r.frames # {}
    BY <1>7, <1>i DEF ApartInv
  <1>12. \A id : Filed(id) \/ Gathered(id) => ~Recorded(id)
    BY <1>i DEF ApartInv, Filed, Gathered
  <1>13. ASSUME NEW r \in R, NEW q \in R, NEW id \in r.frames, id \in q.frames PROVE r = q
    <2>1. CASE \E n \in 1..Len(script) : /\ Pending(n) /\ r = FailedRecord(Request(n))
                                         /\ r.frames = {<<"c2s", n>>}
      <3>1. PICK n \in 1..Len(script) : /\ Pending(n) /\ r = FailedRecord(Request(n))
                                        /\ r.frames = {<<"c2s", n>>}
        BY <2>1
      <3>2. id = <<"c2s", n>> /\ Filed(id)
        BY <1>13, <3>1 DEF Filed
      <3>3. \A k \in Keys : id \notin content[k].frames
        BY <1>i, <3>2 DEF ApartInv
      <3>4. PICK m \in 1..Len(script) : /\ q = FailedRecord(Request(m))
                                        /\ q.frames = {<<"c2s", m>>}
        BY <1>7, <1>13, <3>3
      <3>5. m = n
        BY <1>13, <3>2, <3>4
      <3> QED
        BY <3>1, <3>4, <3>5
    <2>2. CASE \E k \in Keys : /\ content[k] # NoContent /\ r = ContentRecord(content[k], TRUE)
                               /\ r.frames = content[k].frames
      <3>1. PICK k \in Keys : r = ContentRecord(content[k], TRUE) /\ r.frames = content[k].frames
        BY <2>2
      <3>2. id \in content[k].frames /\ ~Filed(id)
        BY <1>i, <1>13, <3>1 DEF ApartInv
      <3>3. \A n \in 1..Len(script) : Pending(n) => id # <<"c2s", n>>
        BY <3>2 DEF Filed
      <3>4. PICK j \in Keys : q = ContentRecord(content[j], TRUE) /\ q.frames = content[j].frames
        BY <1>7, <1>13, <3>3
      <3>5. j = k
        BY <1>i, <1>13, <3>2, <3>4 DEF ApartInv
      <3> QED
        BY <3>1, <3>4, <3>5
    <2> QED
      BY <1>7, <2>1, <2>2
  <1>14. /\ DOMAIN records' = DOMAIN records \cup R
         /\ \A r \in DOMAIN records' : records'[r] = 1
    <2>1. R \cap DOMAIN records = {}
      BY <1>10, <1>11, <1>12 DEF Recorded
    <2>2. \A r \in DOMAIN records : records[r] = 1
      BY <1>i DEF ApartInv
    <2> QED
      BY <1>1, <2>1, <2>2, AddOne
  <1>15. \A id : Recorded(id)' <=> Recorded(id) \/ Filed(id) \/ Gathered(id)
    BY <1>10, <1>14 DEF Recorded
  <1>16. /\ \A k \in Keys : content'[k] = NoContent /\ content'[k].frames = {}
         /\ \A n \in 1..Len(script) : ~Pending(n)'
    <2>1. \A ch \in Chans : Len(pending'[ch]) = 0
      BY <1>1, <1>2
    <2>2. \A n \in 1..Len(script) : script[n].ch \in Chans
      BY <1>0, ScriptFacts DEF Frames, Chans
    <2>3. \A n \in 1..Len(script) : ~Pending(n)'
      BY <1>0, <2>1, <2>2 DEF Pending
    <2>4. \A k \in Keys : content'[k] = NoContent
      BY <1>1, <1>2
    <2>5. NoContent.frames = {}
      BY DEF NoContent
    <2> QED
      BY <2>3, <2>4, <2>5
  <1>17. \A id : ~Filed(id)' /\ ~Gathered(id)'
    BY <1>0, <1>16 DEF Filed, Gathered
  <1>18. \A id : Known(id)' <=> Known(id)
    BY <1>15, <1>17 DEF Known
  <1>19. ApartInv'
    <2>1. \A r, q \in DOMAIN records' : \A id \in r.frames : id \in q.frames => r = q
      <3> SUFFICES ASSUME NEW r \in DOMAIN records', NEW q \in DOMAIN records',
                          NEW id \in r.frames, id \in q.frames
                   PROVE  r = q
        OBVIOUS
      <3>1. CASE r \in R /\ q \in R
        BY <1>13, <3>1
      <3>2. CASE r \in DOMAIN records /\ q \in DOMAIN records
        BY <1>i, <3>2 DEF ApartInv
      <3>3. r \in R => ~Recorded(id)
        BY <1>10, <1>12
      <3>4. q \in R => ~Recorded(id)
        BY <1>10, <1>12
      <3> QED
        BY <1>14, <3>1, <3>2, <3>3, <3>4 DEF Recorded
    <2>2. \A r \in DOMAIN records' : records'[r] = 1 /\ r.frames # {}
      BY <1>11, <1>14, <1>i DEF ApartInv
    <2> QED
      BY <1>0, <1>16, <2>1, <2>2 DEF ApartInv
  <1>20. SentInv'
    <2>1. read' \in Nat /\ made' \in Nat /\ read <= read' /\ made <= made'
      BY <1>0, <1>1
    <2> QED
      BY <1>18, <1>i, <2>1, SentNext DEF FreshInv
  <1>21. ClientNew' /\ BrokerNew'
    <2>1. fromBroker' = <<>>
      BY <1>1 DEF PhaseInv
    <2> QED
      BY <1>1, <2>1, DirectionFacts DEF ClientNew, BrokerNew, Holding
  <1>22. PassedInv'
    <2>1. \A id : id # NoId /\ Answered(id) => Answered(id)'
      <3> SUFFICES ASSUME NEW id, id # NoId, Answered(id)
                   PROVE  \E r \in DOMAIN records' : r.req = id /\ r.re = r.req
        BY DEF Answered
      <3>1. CASE \E r \in DOMAIN records : r.req = id /\ r.re = r.req
        BY <1>14, <3>1
      <3>2. ASSUME NEW k \in Keys, content[k].req = id
            PROVE  \E r \in DOMAIN records' : r.req = id /\ r.re = r.req
        <4>1. content[k] # NoContent
          BY <3>2 DEF NoContent
        <4>2. ContentRecord(content[k], TRUE) \in DOMAIN records'
          BY <1>9, <1>14, <4>1
        <4>3. content[k].re = content[k].req
          BY <1>i DEF ContentInv, Keys
        <4> QED
          BY <1>6, <3>2, <4>2, <4>3
      <3> QED
        BY <3>1, <3>2 DEF Answered
    <2> QED
      BY <1>0, <1>1, <1>18, <1>i, <2>1, PassedStays
  <1> QED
    BY <1>19, <1>20, <1>21, <1>22 DEF PlaceInv, FreshInv

(* Every step keeps the frames in their places. *)
LEMMA PlaceNext ==
    ASSUME TypeInv, PhaseInv, PairInv, PlaceInv, [Next]_vars PROVE PlaceInv'
  <1>1. CASE Negotiate \/ End \/ Cancel \/ BrokerTakes \/ UNCHANGED vars
    BY <1>1, PlaceOther
  <1>2. CASE FailPending
    BY <1>2, PlaceFailPending
  <1>3. CASE BrokerSends
    BY <1>3, PlaceBrokerSends
  <1>4. ASSUME NEW d \in Directions, Relay(d) PROVE PlaceInv'
    <2>1. CASE Read(d)
      <3>1. Read("c2s") \/ Read("s2c")
        BY <2>1 DEF Directions
      <3> QED
        BY <3>1, PlaceClientRead, PlaceBrokerRead
    <2>2. CASE ReadOversized(d) \/ ReadBlocked(d) \/ ReadFails(d) \/ WriteFails(d)
      BY <2>2, PlaceEnd
    <2>3. CASE Write(d)
      BY <2>3, PlaceWrite
    <2>4. CASE Observe(d)
      BY <2>4, PlaceObserve
    <2> QED
      BY <1>4, <2>1, <2>2, <2>3, <2>4 DEF Relay
  <1> QED
    BY <1>1, <1>2, <1>3, <1>4 DEF Next

(* Nothing is filed or gathered before the relays start, and the main      *)
(* goroutine leaves nothing behind them.                                   *)
LEMMA EmptyNext ==
    ASSUME TypeInv, PhaseInv, PairInv, EmptyInv, [Next]_vars PROVE EmptyInv'
  <1>0. DOMAIN pending = Chans /\ DOMAIN content = Keys
    BY DEF PairInv, PlacesInv, Keys
  <1>1. CASE Negotiate
    <2>1. phase \in Steps /\ UNCHANGED <<pending, content>>
      BY <1>1, NegotiateFacts DEF Unrelated, inspector
    <2> QED
      BY <2>1 DEF EmptyInv
  <1>2. CASE FailPending
    <2>1. /\ pending' = [ch \in Chans |-> <<>>]
          /\ content' = [k \in Keys |-> NoContent]
      BY <1>0, <1>2 DEF FailPending
    <2> QED
      BY <2>1 DEF EmptyInv
  <1>3. CASE End
    <2>1. phase' = "wait"
      BY <1>3 DEF End
    <2> QED
      BY <2>1 DEF EmptyInv, Steps
  <1>4. CASE Cancel \/ BrokerTakes \/ BrokerSends \/ UNCHANGED vars
    <2>1. UNCHANGED <<phase, pending, content>>
      BY <1>4 DEF Cancel, BrokerTakes, BrokerSends, vars, inspector
    <2> QED
      BY <2>1 DEF EmptyInv
  <1>5. ASSUME NEW d \in Directions, Relay(d) PROVE EmptyInv'
    <2>1. phase' = phase /\ relay[d].pc \in {"read", "write", "observe"}
      BY <1>5 DEF Relay, Read, ReadOversized, ReadBlocked, ReadFails, Write, WriteFails, Observe
    <2>2. phase' \notin Steps \cup {"closed"}
      BY <2>1 DEF PhaseInv
    <2> QED
      BY <2>2 DEF EmptyInv
  <1> QED
    BY <1>1, <1>2, <1>3, <1>4, <1>5 DEF Next

-----------------------------------------------------------------------------
(***************************************************************************)
(* Bytes of a message                                                      *)
(***************************************************************************)

(* As many pairs in one block as it is long. *)
LEMMA Block ==
    ASSUME NEW j, NEW n \in Nat
    PROVE  IsFiniteSet({j} \X (1..n)) /\ Cardinality({j} \X (1..n)) = n
  <1>1. IsFiniteSet({j}) /\ Cardinality({j}) = 1
    BY FS_Singleton
  <1>2. IsFiniteSet(1..n) /\ Cardinality(1..n) = n
    BY FS_Interval
  <1>3. /\ IsFiniteSet({j} \X (1..n))
        /\ Cardinality({j} \X (1..n)) = Cardinality({j}) * Cardinality(1..n)
    BY <1>1, <1>2, FS_Product
  <1> QED
    BY <1>1, <1>2, <1>3

(* Finite sets with nothing in common. *)
LEMMA Disjoint ==
    ASSUME NEW A, NEW B, IsFiniteSet(A), IsFiniteSet(B), A \cap B = {}
    PROVE  /\ IsFiniteSet(A \cup B)
           /\ Cardinality(A \cup B) = Cardinality(A) + Cardinality(B)
  <1>1. /\ IsFiniteSet(A \cup B)
        /\ Cardinality(A \cup B) = Cardinality(A) + Cardinality(B) - Cardinality(A \cap B)
    BY FS_Union
  <1>2. Cardinality(A \cap B) = 0
    BY FS_EmptySet
  <1>3. Cardinality(A) \in Nat /\ Cardinality(B) \in Nat
    BY FS_CardinalityType
  <1> QED
    BY <1>1, <1>2, <1>3

(* What a frame adds to the bytes of others. *)
LEMMA BytesGrow ==
    ASSUME script \in Scripts, NEW S \in SUBSET (1..Len(script)), IsFiniteSet(Bytes(S)),
           NEW n \in 1..Len(script), n \notin S
    PROVE  /\ IsFiniteSet(Bytes(S \cup {n})) /\ Cardinality(Bytes(S)) \in Nat
           /\ script[n].type = "body" =>
                 Cardinality(Bytes(S \cup {n})) = Cardinality(Bytes(S)) + script[n].size
           /\ script[n].type # "body" =>
                 Cardinality(Bytes(S \cup {n})) = Cardinality(Bytes(S))
  <1>1. Cardinality(Bytes(S)) \in Nat
    BY FS_CardinalityType
  <1>2. CASE script[n].type = "body"
    <2> DEFINE B == {n} \X (1..script[n].size)
               A == Bytes(S)
    <2>1. script[n].size \in Nat
      BY <1>2, ScriptFacts DEF Frames
    <2>2. IsFiniteSet(B) /\ Cardinality(B) = script[n].size
      BY <2>1, Block
    <2>3. Bytes(S \cup {n}) = A \cup B
      BY <1>2 DEF Bytes
    <2>4. A \cap B = {}
      BY DEF Bytes
    <2> HIDE DEF A, B
    <2>5. IsFiniteSet(A)
      BY DEF A
    <2>6. IsFiniteSet(A \cup B) /\ Cardinality(A \cup B) = Cardinality(A) + Cardinality(B)
      BY <2>2, <2>4, <2>5, Disjoint
    <2> QED
      BY <1>1, <1>2, <2>2, <2>3, <2>6 DEF A
  <1>3. CASE script[n].type # "body"
    <2>1. Bytes(S \cup {n}) = Bytes(S)
      BY <1>3 DEF Bytes
    <2> QED
      BY <1>1, <1>3, <2>1
  <1> QED
    BY <1>2, <1>3

(* Nothing has no bytes. *)
LEMMA NoBytes ==
    ASSUME NEW S, \A n \in S : script[n].type = "body" => 1..script[n].size = {}
    PROVE  IsFiniteSet(Bytes(S)) /\ Cardinality(Bytes(S)) = 0
  <1>1. Bytes(S) = {}
    BY DEF Bytes
  <1> QED
    BY <1>1, FS_EmptySet

(* A message of the script is as it was, unless its channel begins another. *)
LEMMA MessageStays ==
    ASSUME script' = script, NEW ch, NEW c, Message(c, ch),
           \A k \in 1..Len(script) : Done(k)' /\ Begins(script, k, ch) => Done(k)
    PROVE  Message(c, ch)'
  <1>1. Bytes(Numbers(c.frames))' = Bytes(Numbers(c.frames))
    BY DEF Bytes
  <1>2. \A n \in Numbers(c.frames) : Holds(script, n, ch) =>
          \A k \in (n + 1)..Len(script) : Done(k)' => ~Begins(script, k, ch)
    <2> SUFFICES ASSUME NEW n \in Numbers(c.frames), Holds(script, n, ch),
                        NEW k \in (n + 1)..Len(script), Done(k)', Begins(script, k, ch)
                 PROVE  FALSE
      OBVIOUS
    <2>1. n \in 1..Len(script)
      BY DEF Message, Numbers
    <2>2. k \in 1..Len(script)
      BY <2>1
    <2> QED
      BY <2>2 DEF Message
  <1> QED
    BY <1>1, <1>2 DEF Message, Holds, Begins

(* So is a record of one. *)
LEMMA WholeStays ==
    ASSUME script' = script, NEW r PROVE WholeMessage(r)' <=> WholeMessage(r)
  BY DEF WholeMessage, Bytes

(* No frames are a message without a byte. *)
LEMMA MessageNone ==
    ASSUME NEW ch, NEW c, c.frames = {}, c.size = 0, c.received = 0
    PROVE  Message(c, ch)
  <1> DEFINE S == Numbers(c.frames)
  <1>1. \A n \in S : FALSE
    BY DEF Numbers
  <1> HIDE DEF S
  <1>2. IsFiniteSet(Bytes(S)) /\ Cardinality(Bytes(S)) = 0
    BY <1>1, NoBytes
  <1> QED
    BY <1>1, <1>2 DEF Message, S

(* Records that are not ok, or hold a frame of the broker, are not wanting. *)
LEMMA WholeFacts ==
    ASSUME NEW r
    PROVE  /\ ~r.ok => WholeMessage(r)
           /\ (\E id \in r.frames : id[1] # "c2s") => WholeMessage(r)
  BY DEF WholeMessage

(* A step that adds records of whole messages and begins none. *)
LEMMA MessageQuiet ==
    ASSUME MessageInv, script' = script, content' = content,
           \A k \in 1..Len(script) :
              Done(k)' /\ script[k].type = "method" /\ script[k].m \in Contents => Done(k),
           NEW R, DOMAIN records' \subseteq DOMAIN records \cup R,
           \A r \in R : WholeMessage(r)
    PROVE  MessageInv'
  <1>1. ClientMessages'
    <2> SUFFICES ASSUME NEW ch \in Chans, NEW c \in States, c = content[<<"c2s", ch>>]
                 PROVE  Message(c, ch)'
      BY DEF ClientMessages
    <2>1. Message(c, ch)
      BY DEF MessageInv, ClientMessages
    <2>2. \A k \in 1..Len(script) : Done(k)' /\ Begins(script, k, ch) => Done(k)
      BY DEF Begins
    <2> QED
      BY <2>1, <2>2, MessageStays
  <1>2. BrokerMessages'
    BY DEF MessageInv, BrokerMessages
  <1>3. \A r \in DOMAIN records' : WholeMessage(r)'
    BY WholeStays DEF MessageInv
  <1> QED
    BY <1>1, <1>2, <1>3 DEF MessageInv

(* A step that leaves no content. *)
LEMMA MessageEmpty ==
    ASSUME MessageInv, script' = script, \A k \in Keys : content'[k] = NoContent,
           NEW R, DOMAIN records' \subseteq DOMAIN records \cup R,
           \A r \in R : WholeMessage(r)
    PROVE  MessageInv'
  <1>0. \A ch \in Chans : <<"c2s", ch>> \in Keys /\ <<"s2c", ch>> \in Keys
    BY DirectionFacts DEF Keys
  <1>1. ClientMessages'
    <2> SUFFICES ASSUME NEW ch \in Chans, NEW c \in States, c = content'[<<"c2s", ch>>]
                 PROVE  Message(c, ch)'
      BY DEF ClientMessages
    <2>1. c = NoContent
      BY <1>0
    <2>2. NoContent.frames = {} /\ NoContent.size = 0 /\ NoContent.received = 0
      BY DEF NoContent
    <2>3. Message(c, ch)
      BY <2>1, <2>2, MessageNone
    <2>4. \A n \in Numbers(c.frames) : FALSE
      BY <2>1, <2>2 DEF Numbers
    <2>5. Bytes(Numbers(c.frames))' = Bytes(Numbers(c.frames))
      BY DEF Bytes
    <2> QED
      BY <2>3, <2>4, <2>5 DEF Message
  <1>2. BrokerMessages'
    <2>1. NoContent.frames = {}
      BY DEF NoContent
    <2>2. \A ch \in Chans : content'[<<"s2c", ch>>].frames = {}
      BY <1>0, <2>1
    <2> QED
      BY <2>2 DEF BrokerMessages
  <1>3. \A r \in DOMAIN records' : WholeMessage(r)'
    BY WholeStays DEF MessageInv
  <1> QED
    BY <1>1, <1>2, <1>3 DEF MessageInv

(* The steps that do not tell the inspector of a frame. *)
LEMMA MessageOther ==
    ASSUME TypeInv, PairInv, EmptyInv, MessageInv, [Next]_vars,
           ~\E d \in Directions : Observe(d)
    PROVE  MessageInv'
  <1>0. script' = script /\ read \in Nat /\ script \in Scripts
    BY ScriptStays, ScriptFacts DEF TypeInv
  <1>e. PICK R : R = {}
    OBVIOUS
  <1>1. CASE Negotiate
    <2>1. phase \in Steps /\ UNCHANGED <<content, records>>
      BY <1>1, NegotiateFacts DEF Unrelated, inspector
    <2>2. \A k \in Keys : content'[k] = NoContent
      BY <2>1 DEF EmptyInv
    <2>3. DOMAIN records' \subseteq DOMAIN records \cup R /\ \A r \in R : WholeMessage(r)
      BY <1>e, <2>1
    <2> QED
      BY <1>0, <2>2, <2>3, MessageEmpty
  <1>2. CASE FailPending
    <2>1. PICK requests, states :
             /\ content' = [k \in DOMAIN content |-> NoContent]
             /\ records' = records (+) SetToBag({FailedRecord(r) : r \in requests}
                                \cup {ContentRecord(c, TRUE) : c \in states})
      BY <1>2 DEF FailPending, Add
    <2>r. PICK Q : Q = {FailedRecord(r) : r \in requests}
                        \cup {ContentRecord(c, TRUE) : c \in states}
      OBVIOUS
    <2>2. \A k \in Keys : content'[k] = NoContent
      BY <2>1 DEF PairInv, PlacesInv, Keys
    <2>3. \A r : ~FailedRecord(r).ok
      BY DEF FailedRecord, Record
    <2>4. \A c : ~ContentRecord(c, TRUE).ok
      BY DEF ContentRecord, Record
    <2>5. \A r \in Q : WholeMessage(r)
      BY <2>r, <2>3, <2>4, WholeFacts
    <2>6. DOMAIN records' \subseteq DOMAIN records \cup Q
      BY <2>1, <2>r, AddedFacts
    <2> QED
      BY <1>0, <2>2, <2>5, <2>6, MessageEmpty
  <1>3. CASE End \/ Cancel \/ BrokerTakes \/ BrokerSends \/ UNCHANGED vars
    <2>1. UNCHANGED <<read, relay, content, records>>
      BY <1>3 DEF End, Cancel, BrokerTakes, BrokerSends, vars, inspector
    <2>2. \A k \in 1..Len(script) : Done(k)' => Done(k)
      BY <2>1 DEF Done
    <2>3. DOMAIN records' \subseteq DOMAIN records \cup R /\ \A r \in R : WholeMessage(r)
      BY <1>e, <2>1
    <2> QED
      BY <1>0, <2>1, <2>2, <2>3, MessageQuiet
  <1>4. ASSUME NEW d \in Directions, Read(d) PROVE MessageInv'
    <2>1. /\ UNCHANGED <<content, records>> /\ relay[d].pc = "read" /\ relay'[d].pc = "write"
          /\ \A e \in Directions \ {d} : relay'[e] = relay[e]
          /\ d = "c2s" => read' = read + 1
          /\ d = "s2c" => read' = read
      BY <1>4, ReadFacts
    <2>2. \A k \in 1..Len(script) : Done(k)' => Done(k)
      <3>1. CASE d = "c2s"
        BY <1>0, <2>1, <3>1 DEF Done
      <3>2. CASE d = "s2c"
        BY <2>1, <3>2, DirectionFacts DEF Done
      <3> QED
        BY <3>1, <3>2 DEF Directions
    <2>3. DOMAIN records' \subseteq DOMAIN records \cup R /\ \A r \in R : WholeMessage(r)
      BY <1>e, <2>1
    <2> QED
      BY <1>0, <2>1, <2>2, <2>3, MessageQuiet
  <1>5. ASSUME NEW d \in Directions, Write(d) PROVE MessageInv'
    <2>1. /\ UNCHANGED <<content, records, read>> /\ relay[d].pc = "write"
          /\ relay'[d].pc = (IF relay[d].prepared THEN "read" ELSE "observe")
          /\ \A e \in Directions \ {d} : relay'[e] = relay[e]
      BY <1>5, WriteFacts DEF inspector
    <2>2. \A k \in 1..Len(script) :
             Done(k)' /\ script[k].type = "method" /\ script[k].m \in Contents => Done(k)
      <3>1. CASE d = "c2s"
        <4>1. PICK n \in 1..Len(script) :
                 n = read /\ (relay["c2s"].prepared <=> Synchronous(Request(n)))
          BY <2>1, <3>1 DEF PairInv, PlacesInv
        <4>2. Synchronous(Request(n)) => script[n].m \notin Contents
          <5>1. Request(n).m = script[n].m
            BY <1>0, RequestFacts
          <5>2. \A a : a \in Expected(Request(n).m) => Request(n).m \notin Contents
            BY ExpectedFacts DEF Contents
          <5>3. Expected(Request(n).m) # {} => \E a : a \in Expected(Request(n).m)
            OBVIOUS
          <5> QED
            BY <5>1, <5>2, <5>3 DEF Synchronous
        <4> QED
          BY <2>1, <3>1, <4>1, <4>2 DEF Done
      <3>2. CASE d = "s2c"
        BY <2>1, <3>2, DirectionFacts DEF Done
      <3> QED
        BY <3>1, <3>2 DEF Directions
    <2>3. DOMAIN records' \subseteq DOMAIN records \cup R /\ \A r \in R : WholeMessage(r)
      BY <1>e, <2>1
    <2> QED
      BY <1>0, <2>1, <2>2, <2>3, MessageQuiet
  <1>6. ASSUME NEW d \in Directions,
               ReadOversized(d) \/ ReadBlocked(d) \/ ReadFails(d) \/ WriteFails(d)
        PROVE  MessageInv'
    <2>1. /\ relay[d].pc \in {"read", "write"} /\ relay'[d].pc = "end"
          /\ \A e \in Directions \ {d} : relay'[e] = relay[e]
          /\ content' = content
          /\ read' = read \/ (d = "c2s" /\ relay[d].pc = "read" /\ read' = read + 1)
          /\ \/ records' = records
             \/ \E f : f.re = NoId /\ records' = records (+) SetToBag({MethodRecord(f, TRUE)})
      BY <1>6, EndFacts
    <2>2. \A k \in 1..Len(script) : Done(k)' => Done(k)
      <3>1. CASE d = "c2s"
        BY <1>0, <2>1, <3>1 DEF Done
      <3>2. CASE d = "s2c"
        BY <2>1, <3>2, DirectionFacts DEF Done
      <3> QED
        BY <3>1, <3>2 DEF Directions
    <2>3. \E Q : DOMAIN records' \subseteq DOMAIN records \cup Q /\ \A r \in Q : WholeMessage(r)
      <3>1. CASE records' = records
        BY <1>e, <3>1
      <3>2. ASSUME NEW f, f.re = NoId,
                 records' = records (+) SetToBag({MethodRecord(f, TRUE)})
            PROVE  \E Q : DOMAIN records' \subseteq DOMAIN records \cup Q
                          /\ \A r \in Q : WholeMessage(r)
        <4>1. ~MethodRecord(f, TRUE).ok
          BY DEF MethodRecord, Record
        <4>2. WholeMessage(MethodRecord(f, TRUE))
          BY <4>1, WholeFacts
        <4>q. PICK Q : Q = {MethodRecord(f, TRUE)}
          OBVIOUS
        <4>3. DOMAIN records' \subseteq DOMAIN records \cup Q
          BY <3>2, <4>q, AddedFacts
        <4>4. \A r \in Q : WholeMessage(r)
          BY <4>q, <4>2
        <4> QED
          BY <4>3, <4>4
      <3> QED
        BY <2>1, <3>1, <3>2
    <2>4. PICK Q : DOMAIN records' \subseteq DOMAIN records \cup Q /\ \A r \in Q : WholeMessage(r)
      BY <2>3
    <2> QED
      BY <1>0, <2>1, <2>2, <2>4, MessageQuiet
  <1> QED
    BY <1>1, <1>2, <1>3, <1>4, <1>5, <1>6 DEF Next, Relay

(* The number of one frame more. *)
LEMMA NumbersMore ==
    ASSUME NEW A, NEW n PROVE Numbers(A \cup {<<"c2s", n>>}) = Numbers(A) \cup {n}
  <1>1. <<"c2s", n>>[2] = n
    OBVIOUS
  <1>2. \A i : i \in Numbers(A \cup {<<"c2s", n>>}) <=> i \in Numbers(A) \/ i = n
    BY <1>1 DEF Numbers
  <1> QED
    BY <1>2

(* Message, of the next state. *)
LEMMA MessageMade ==
    ASSUME script' = script, NEW ch, NEW c, NEW S, S = Numbers(c.frames),
           c.frames \subseteq {"c2s"} \X (1..Len(script)),
           IsFiniteSet(Bytes(S)), c.received = Cardinality(Bytes(S)), c.size >= 0,
           c.size > 0 => \E n \in S : script[n].type = "header" /\ script[n].size = c.size,
           \A n \in S : script[n].ch = ch,
           \A n \in S : Holds(script, n, ch) =>
              \A k \in (n + 1)..Len(script) : Done(k)' => ~Begins(script, k, ch)
    PROVE  Message(c, ch)'
  <1>1. Bytes(S)' = Bytes(S)
    BY DEF Bytes
  <1> QED
    BY <1>1 DEF Message

(* The client's relay has observed its last frame: a content changes on    *)
(* the channel of that frame only.                                         *)
LEMMA ClientContents ==
    ASSUME PlacesInv, MessageInv, script' = script, NEW n \in 1..Len(script),
           script[n].ch \in Chans, \A k \in 1..Len(script) : Done(k)' => Done(k) \/ k = n,
           NEW c, content' = [content EXCEPT ![<<"c2s", script[n].ch>>] = c],
           Message(c, script[n].ch)',
           NEW R, DOMAIN records' \subseteq DOMAIN records \cup R,
           \A r \in R : WholeMessage(r)
    PROVE  MessageInv'
  <1> DEFINE key == <<"c2s", script[n].ch>>
  <1>0. /\ \A ch \in Chans : <<"c2s", ch>> \in Keys /\ <<"s2c", ch>> \in Keys
        /\ content \in [Keys -> States]
    BY DirectionFacts DEF Keys, PlacesInv
  <1>1. content'[key] = c /\ \A k \in Keys : k # key => content'[k] = content[k]
    BY <1>0
  <1>2. ClientMessages'
    <2> SUFFICES ASSUME NEW ch \in Chans, NEW s \in States, s = content'[<<"c2s", ch>>]
                 PROVE  Message(s, ch)'
      BY DEF ClientMessages
    <2>1. CASE ch = script[n].ch
      BY <1>1, <2>1
    <2>2. CASE ch # script[n].ch
      <3>1. s = content[<<"c2s", ch>>]
        BY <1>0, <1>1, <2>2
      <3>2. Message(s, ch)
        BY <3>1 DEF MessageInv, ClientMessages
      <3>3. \A k \in 1..Len(script) : Done(k)' /\ Begins(script, k, ch) => Done(k)
        BY <2>2 DEF Begins
      <3> QED
        BY <3>2, <3>3, MessageStays
    <2> QED
      BY <2>1, <2>2
  <1>3. BrokerMessages'
    <2>1. \A ch \in Chans : content'[<<"s2c", ch>>] = content[<<"s2c", ch>>]
      BY <1>0, <1>1
    <2> QED
      BY <2>1 DEF MessageInv, BrokerMessages
  <1>4. \A r \in DOMAIN records' : WholeMessage(r)'
    BY WholeStays DEF MessageInv
  <1> QED
    BY <1>2, <1>3, <1>4 DEF MessageInv

(* The inspector is told of a frame of the client: it counts the bytes of  *)
(* the message, and ends it when it has as many as its header announced.   *)
LEMMA MessageClientObserve ==
    ASSUME TypeInv, PairInv, PlaceInv, MessageInv, Headed, [Next]_vars, Observe("c2s")
    PROVE  MessageInv'
  <1>0. /\ script' = script /\ read \in Nat /\ script \in Scripts /\ Len(script) \in Nat
    BY ScriptStays, ScriptFacts DEF TypeInv
  <1>i. ApartInv /\ FreshInv /\ PlacesInv
    BY DEF PlaceInv, PairInv
  <1>f. PICK f : f = relay["c2s"].frame
    OBVIOUS
  <1>1. /\ relay["c2s"].pc = "observe" /\ relay'["c2s"].pc = "read" /\ read' = read
    BY ObserveFacts, DirectionFacts
  <1>2. /\ ~Known(f.id)
        /\ \E m \in 1..Len(script) : m = read /\ f = Request(m)
        /\ f.type = "beat" => UNCHANGED <<pending, content, records>>
        /\ f.type # "beat" =>
              \E x : Event("c2s", f, x) \/ Begin("c2s", f, x) \/ Finish("c2s", f, x)
                     \/ Grow("c2s", f, x)
    BY <1>f, <1>i, ObserveCase, DirectionFacts
  <1>n. PICK n \in 1..Len(script) : n = read /\ f = Request(n)
    BY <1>2
  <1>3. /\ f.id = <<"c2s", n>> /\ f.ch = script[n].ch /\ f.m = script[n].m
        /\ f.type = script[n].type /\ f.size = script[n].size
    BY <1>0, <1>n, RequestFacts
  <1>4. /\ \A k \in 1..Len(script) : Done(k)' => Done(k) \/ k = n
        /\ \A k \in 1..Len(script) : k < n => Done(k)
        /\ \A k \in 1..Len(script) : Done(k)' => k <= n
    BY <1>0, <1>1, <1>n DEF Done
  <1>5. script[n].ch \in Chans /\ script[n].size \in Int
    BY <1>0, ScriptFacts DEF Frames, Chans
  <1>o. PICK old : old = content[<<"c2s", script[n].ch>>]
    OBVIOUS
  <1>6. /\ old \in States /\ old.received \in Int /\ old.size \in Int
        /\ Message(old, script[n].ch)
    <2>1. <<"c2s", script[n].ch>> \in Directions \X Chans
      BY <1>5, DirectionFacts
    <2>2. old \in States
      BY <1>i, <1>o, <2>1 DEF PlacesInv
    <2> QED
      BY <1>5, <1>o, <2>2 DEF MessageInv, ClientMessages, States
  <1>s. PICK S : S = Numbers(old.frames)
    OBVIOUS
  <1>7. /\ S \in SUBSET (1..Len(script)) /\ \A i \in S : <<"c2s", i>> \in old.frames
        /\ n \notin S /\ \A i \in S : i < n
    <2>1. ASSUME NEW i \in S PROVE i \in 1..Len(script) /\ <<"c2s", i>> \in old.frames
      <3>1. PICK id \in old.frames : i = id[2]
        BY <1>s, <2>1 DEF Numbers
      <3>2. id \in {"c2s"} \X (1..Len(script))
        BY <1>6, <3>1 DEF Message
      <3> QED
        BY <3>1, <3>2
    <2>2. ASSUME NEW i \in S PROVE i <= read /\ i # n
      <3>1. <<"c2s", script[n].ch>> \in Keys
        BY <1>5, DirectionFacts DEF Keys
      <3>2. <<"c2s", i>> \in Sent
        BY <1>i, <1>o, <2>1, <3>1 DEF FreshInv, SentInv
      <3>3. i # n
        BY <1>2, <1>3, <1>o, <2>1, <3>1 DEF Known, Gathered
      <3> QED
        BY <3>2, <3>3 DEF Sent
    <2>3. ASSUME NEW i \in S PROVE i < n
      <3>1. i \in 1..Len(script) /\ i <= read /\ i # n
        BY <2>1, <2>2
      <3> QED
        BY <1>0, <1>n, <3>1
    <2>4. S \in SUBSET (1..Len(script))
      BY <2>1
    <2> QED
      BY <2>1, <2>2, <2>3, <2>4
  <1>8. /\ IsFiniteSet(Bytes(S)) /\ old.received = Cardinality(Bytes(S)) /\ old.size >= 0
        /\ old.size > 0 =>
              \E i \in S : script[i].type = "header" /\ script[i].size = old.size
        /\ \A i \in S : script[i].ch = script[n].ch
        /\ \A i \in S : Holds(script, i, script[n].ch) =>
              \A k \in (i + 1)..Len(script) : Done(k) => ~Begins(script, k, script[n].ch)
        /\ old.frames \subseteq {"c2s"} \X (1..Len(script))
    BY <1>6, <1>s DEF Message
  <1>t. PICK T : T = S \cup {n}
    OBVIOUS
  <1>9. /\ IsFiniteSet(Bytes(T)) /\ Cardinality(Bytes(S)) \in Nat
        /\ script[n].type = "body" => Cardinality(Bytes(T)) = Cardinality(Bytes(S)) + script[n].size
        /\ script[n].type # "body" => Cardinality(Bytes(T)) = Cardinality(Bytes(S))
    BY <1>0, <1>7, <1>8, <1>t, BytesGrow
  <1>10. CASE f.type = "beat"
    <2>e. PICK R : R = {}
      OBVIOUS
    <2>1. content' = content /\ records' = records
      BY <1>2, <1>10
    <2>2. \A k \in 1..Len(script) :
             Done(k)' /\ script[k].type = "method" /\ script[k].m \in Contents => Done(k)
      BY <1>3, <1>4, <1>10
    <2>3. DOMAIN records' \subseteq DOMAIN records \cup R /\ \A r \in R : WholeMessage(r)
      BY <2>e, <2>1
    <2> QED
      BY <1>0, <2>1, <2>2, <2>3, MessageQuiet
  <1>11. ASSUME NEW x, Event("c2s", f, x) PROVE MessageInv'
    <2>r. PICK R : R = {x}
      OBVIOUS
    <2>1. /\ content' = content /\ records' = records (+) SetToBag(R)
          /\ x.frames = {<<"c2s", n>>}
          /\ script[n].type = "method" => script[n].m \notin Contents
          /\ x.ok => script[n].type = "method"
      BY <1>3, <1>11, <2>r DEF Event, Took
    <2>2. \A k \in 1..Len(script) :
             Done(k)' /\ script[k].type = "method" /\ script[k].m \in Contents => Done(k)
      BY <1>4, <2>1
    <2>3. WholeMessage(x)
      <3>1. {id[2] : id \in x.frames} = {n}
        BY <2>1
      <3>2. x.ok => script[n].m # "publish"
        BY <2>1 DEF Contents
      <3> QED
        BY <3>1, <3>2 DEF WholeMessage
    <2>4. DOMAIN records' \subseteq DOMAIN records \cup R
      BY <2>1, AddedFacts
    <2>5. \A r \in R : WholeMessage(r)
      BY <2>r, <2>3
    <2> QED
      BY <1>0, <2>1, <2>2, <2>4, <2>5, MessageQuiet
  <1>12. ASSUME NEW x, Begin("c2s", f, x) PROVE MessageInv'
    <2>1. /\ content' = [content EXCEPT ![<<"c2s", script[n].ch>>] = x]
          /\ script[n].type = "method" /\ x.size = 0 /\ x.received = 0
          /\ x.frames = {<<"c2s", n>>}
          /\ \/ records' = records
             \/ records' = records (+) SetToBag({ContentRecord(old, TRUE)})
      BY <1>3, <1>o, <1>12 DEF Begin, Took
    <2>s. PICK U : U = Numbers(x.frames)
      OBVIOUS
    <2>2. U = {n}
      BY <2>1, <2>s DEF Numbers
    <2>3. IsFiniteSet(Bytes(U)) /\ Cardinality(Bytes(U)) = 0
      BY <2>1, <2>2, NoBytes
    <2>4. Message(x, script[n].ch)'
      <3>1. \A i \in U : ~Holds(script, i, script[n].ch)
        BY <2>1, <2>2 DEF Holds
      <3>2. x.frames \subseteq {"c2s"} \X (1..Len(script))
        BY <2>1
      <3>3. \A i \in U : script[i].ch = script[n].ch
        BY <2>2
      <3>4. x.size >= 0 /\ ~(x.size > 0)
        BY <2>1
      <3> QED
        BY <1>0, <2>s, <2>1, <2>3, <3>1, <3>2, <3>3, <3>4, MessageMade
    <2>r. PICK R : R = {ContentRecord(old, TRUE)}
      OBVIOUS
    <2>5. DOMAIN records' \subseteq DOMAIN records \cup R
      BY <2>1, <2>r, AddedFacts
    <2>6. ~ContentRecord(old, TRUE).ok
      BY DEF ContentRecord, Record
    <2>7. \A r \in R : WholeMessage(r)
      BY <2>r, <2>6, WholeFacts
    <2> QED
      BY <1>0, <1>4, <1>5, <1>i, <2>1, <2>4, <2>5, <2>7, ClientContents
  <1>13. ASSUME NEW x, Finish("c2s", f, x) PROVE MessageInv'
    <2>n. PICK none : none = NoContent
      OBVIOUS
    <2>r. PICK R : R = {x}
      OBVIOUS
    <2>1. /\ content' = [content EXCEPT ![<<"c2s", script[n].ch>>] = none]
          /\ records' = records (+) SetToBag(R)
          /\ x.frames = old.frames \cup {<<"c2s", n>>}
          /\ x.ok => \/ script[n].type = "header" /\ script[n].size = 0
                     \/ /\ script[n].type = "body" /\ old.size > 0
                        /\ old.received + script[n].size = old.size
      BY <1>3, <1>o, <1>13, <2>n, <2>r DEF Finish
    <2>2. Message(none, script[n].ch)'
      <3>s. PICK U : U = Numbers(none.frames)
        OBVIOUS
      <3>1. none.frames = {} /\ none.size = 0 /\ none.received = 0
        BY <2>n DEF NoContent
      <3>2. \A i \in U : FALSE
        BY <3>s, <3>1 DEF Numbers
      <3>3. IsFiniteSet(Bytes(U)) /\ Cardinality(Bytes(U)) = 0
        BY <3>2, NoBytes
      <3>4. none.size >= 0 /\ ~(none.size > 0)
        BY <3>1
      <3> QED
        BY <1>0, <3>s, <3>1, <3>2, <3>3, <3>4, MessageMade
    <2>3. Numbers(x.frames) = T
      BY <1>s, <1>t, <2>1, NumbersMore
    <2>4. x.ok => \E h \in T : /\ script[h].type = "header"
                               /\ script[h].size = Cardinality(Bytes(T))
      <3> SUFFICES ASSUME x.ok
                   PROVE  \E h \in T : /\ script[h].type = "header"
                                       /\ script[h].size = Cardinality(Bytes(T))
        OBVIOUS
      <3>1. CASE script[n].type = "header" /\ script[n].size = 0
        <4>1. \A i \in S : ~Holds(script, i, script[n].ch)
          <5> SUFFICES ASSUME NEW i \in S, Holds(script, i, script[n].ch) PROVE FALSE
            OBVIOUS
          <5>1. i \in 1..Len(script) /\ i < n
            BY <1>7
          <5>2. PICK k \in (i + 1)..(n - 1) : Begins(script, k, script[n].ch)
            BY <1>0, <3>1, <5>1 DEF Headed
          <5>3. k \in (i + 1)..Len(script) /\ k \in 1..Len(script) /\ k < n
            BY <5>1, <5>2
          <5> QED
            BY <1>4, <1>8, <5>2, <5>3
        <4>2. \A i \in S : script[i].type = "body" => 1..script[i].size = {}
          <5> SUFFICES ASSUME NEW i \in S, script[i].type = "body"
                       PROVE  1..script[i].size = {}
            OBVIOUS
          <5>1. script[i].size \in Int /\ ~(script[i].size > 0)
            BY <1>0, <1>7, <1>8, <4>1, ScriptFacts DEF Holds, Frames
          <5> QED
            BY <5>1
        <4>3. Cardinality(Bytes(S)) = 0
          BY <4>2, NoBytes
        <4> QED
          BY <1>9, <1>t, <3>1, <4>3
      <3>2. CASE /\ script[n].type = "body" /\ old.size > 0
                 /\ old.received + script[n].size = old.size
        <4>1. PICK h \in S : script[h].type = "header" /\ script[h].size = old.size
          BY <1>8, <3>2
        <4>2. Cardinality(Bytes(T)) = old.size
          BY <1>8, <1>9, <3>2
        <4> QED
          BY <1>t, <4>1, <4>2
      <3> QED
        BY <2>1, <3>1, <3>2
    <2>5. WholeMessage(x)
      BY <2>3, <2>4 DEF WholeMessage, Numbers
    <2>6. DOMAIN records' \subseteq DOMAIN records \cup R
      BY <2>1, AddedFacts
    <2>7. \A r \in R : WholeMessage(r)
      BY <2>r, <2>5
    <2> QED
      BY <1>0, <1>4, <1>5, <1>i, <2>1, <2>2, <2>6, <2>7, ClientContents
  <1>14. ASSUME NEW x, Grow("c2s", f, x) PROVE MessageInv'
    <2>1. /\ content' = [content EXCEPT ![<<"c2s", script[n].ch>>] = x]
          /\ records' = records /\ x.frames = old.frames \cup {<<"c2s", n>>}
          /\ \/ /\ script[n].type = "header" /\ script[n].size > 0
                /\ x.size = script[n].size /\ x.received = old.received
             \/ /\ script[n].type = "body" /\ x.size = old.size
                /\ x.received = old.received + script[n].size
      BY <1>3, <1>o, <1>14 DEF Grow
    <2>2. T = Numbers(x.frames)
      BY <1>s, <1>t, <2>1, NumbersMore
    <2>3. x.frames \subseteq {"c2s"} \X (1..Len(script))
      BY <1>8, <2>1
    <2>4. x.received = Cardinality(Bytes(T)) /\ x.size >= 0
      BY <1>5, <1>6, <1>8, <1>9, <2>1
    <2>5. x.size > 0 => \E i \in T : script[i].type = "header" /\ script[i].size = x.size
      BY <1>8, <1>t, <2>1
    <2>6. \A i \in T : script[i].ch = script[n].ch
      BY <1>8, <1>t
    <2>7. \A i \in T : Holds(script, i, script[n].ch) =>
             \A k \in (i + 1)..Len(script) : Done(k)' => ~Begins(script, k, script[n].ch)
      <3> SUFFICES ASSUME NEW i \in T, Holds(script, i, script[n].ch),
                          NEW k \in (i + 1)..Len(script), Done(k)'
                   PROVE  ~Begins(script, k, script[n].ch)
        OBVIOUS
      <3>1. i \in 1..Len(script) /\ k \in 1..Len(script) /\ k <= n
        <4>1. i \in 1..Len(script)
          BY <1>7, <1>t
        <4>2. k \in 1..Len(script)
          BY <1>0, <4>1
        <4> QED
          BY <1>4, <4>1, <4>2
      <3>2. CASE k = n
        BY <2>1, <3>2 DEF Begins
      <3>3. CASE k # n
        <4>1. i # n
          BY <3>1, <3>3
        <4> QED
          BY <1>4, <1>8, <1>t, <3>1, <3>3, <4>1
      <3> QED
        BY <3>2, <3>3
    <2>8. Message(x, script[n].ch)'
      BY <1>0, <1>9, <2>2, <2>3, <2>4, <2>5, <2>6, <2>7, MessageMade
    <2>e. PICK R : R = {}
      OBVIOUS
    <2>9. DOMAIN records' \subseteq DOMAIN records \cup R /\ \A r \in R : WholeMessage(r)
      BY <2>e, <2>1
    <2> QED
      BY <1>0, <1>4, <1>5, <1>i, <2>1, <2>8, <2>9, ClientContents
  <1> QED
    BY <1>2, <1>10, <1>11, <1>12, <1>13, <1>14

(* The inspector is told of a frame of the broker: the client's contents   *)
(* are not touched.                                                        *)
LEMMA MessageBrokerObserve ==
    ASSUME TypeInv, PairInv, PlaceInv, MessageInv, [Next]_vars, Observe("s2c")
    PROVE  MessageInv'
  <1>0. /\ script' = script /\ script \in Scripts
    BY ScriptStays DEF TypeInv
  <1>i. ApartInv /\ FreshInv /\ PlacesInv
    BY DEF PlaceInv, PairInv
  <1>f. PICK f : f = relay["s2c"].frame
    OBVIOUS
  <1>1. relay'["c2s"] = relay["c2s"] /\ read' = read
    BY ObserveFacts, DirectionFacts
  <1>2. /\ f \in Frames /\ f = Held /\ Holding
        /\ f.type = "beat" => UNCHANGED <<pending, content, records>>
        /\ f.type # "beat" =>
              \E x : Event("s2c", f, x) \/ Begin("s2c", f, x) \/ Finish("s2c", f, x)
                     \/ Grow("s2c", f, x)
    BY <1>f, <1>i, ObserveCase, DirectionFacts
  <1>3. f.id[1] = "s2c"
    <2>1. f.id \in {"s2c"} \X (1..made)
      BY <1>2, <1>i DEF FreshInv, BrokerNew, NewIds
    <2> QED
      BY <2>1
  <1>4. \A k \in 1..Len(script) : Done(k)' => Done(k)
    BY <1>1 DEF Done
  <1>k. PICK key : key = <<"s2c", f.ch>>
    OBVIOUS
  <1>5. /\ \A ch \in Chans : /\ <<"c2s", ch>> \in Keys /\ <<"s2c", ch>> \in Keys
                             /\ <<"c2s", ch>> # key
        /\ content \in [Keys -> States] /\ f.ch \in Chans /\ key \in Keys
    BY <1>2, <1>i, <1>k, DirectionFacts DEF Keys, PlacesInv, Frames, Chans
  <1>6. CASE f.type = "beat"
    <2>e. PICK R : R = {}
      OBVIOUS
    <2>1. content' = content /\ records' = records
      BY <1>2, <1>6
    <2>2. DOMAIN records' \subseteq DOMAIN records \cup R /\ \A r \in R : WholeMessage(r)
      BY <2>e, <2>1
    <2> QED
      BY <1>0, <1>4, <2>1, <2>2, MessageQuiet
  <1>7. ASSUME NEW x, Event("s2c", f, x) PROVE MessageInv'
    <2>r. PICK R : R = {x}
      OBVIOUS
    <2>1. content' = content /\ records' = records (+) SetToBag(R) /\ f.id \in x.frames
      BY <1>7, <2>r DEF Event
    <2>2. WholeMessage(x)
      BY <1>3, <2>1, WholeFacts
    <2>3. DOMAIN records' \subseteq DOMAIN records \cup R
      BY <2>1, AddedFacts
    <2>4. \A r \in R : WholeMessage(r)
      BY <2>r, <2>2
    <2> QED
      BY <1>0, <1>4, <2>1, <2>3, <2>4, MessageQuiet
  <1>8. ASSUME NEW c, content' = [content EXCEPT ![key] = c],
               c.frames # {} => \E id \in c.frames : id[1] = "s2c",
               NEW R, DOMAIN records' \subseteq DOMAIN records \cup R,
               \A r \in R : WholeMessage(r)
        PROVE  MessageInv'
    <2>1. content'[key] = c /\ \A k \in Keys : k # key => content'[k] = content[k]
      BY <1>5, <1>8
    <2>2. ClientMessages'
      <3> SUFFICES ASSUME NEW ch \in Chans, NEW s \in States, s = content'[<<"c2s", ch>>]
                   PROVE  Message(s, ch)'
        BY DEF ClientMessages
      <3>1. s = content[<<"c2s", ch>>]
        BY <1>5, <2>1
      <3>2. Message(s, ch)
        BY <3>1 DEF MessageInv, ClientMessages
      <3> QED
        BY <1>0, <1>4, <3>2, MessageStays
    <2>3. BrokerMessages'
      <3> SUFFICES ASSUME NEW ch \in Chans, NEW F, F = content'[<<"s2c", ch>>].frames,
                          F # {}
                   PROVE  \E id \in F : id[1] = "s2c"
        BY DEF BrokerMessages
      <3>1. CASE <<"s2c", ch>> = key
        BY <1>8, <2>1, <3>1
      <3>2. CASE <<"s2c", ch>> # key
        <4>1. content'[<<"s2c", ch>>] = content[<<"s2c", ch>>]
          BY <1>5, <2>1, <3>2
        <4> QED
          BY <4>1 DEF MessageInv, BrokerMessages
      <3> QED
        BY <3>1, <3>2
    <2>4. \A r \in DOMAIN records' : WholeMessage(r)'
      BY <1>0, <1>8, WholeStays DEF MessageInv
    <2> QED
      BY <2>2, <2>3, <2>4 DEF MessageInv
  <1>9. content[key] # NoContent => \E id \in content[key].frames : id[1] = "s2c"
    <2>1. content[key] # NoContent => content[key].frames # {}
      BY <1>5, <1>i DEF ApartInv
    <2> QED
      BY <1>5, <1>k, <2>1 DEF MessageInv, BrokerMessages
  <1>10. ASSUME NEW x, Begin("s2c", f, x) PROVE MessageInv'
    <2>r. PICK R : R = {ContentRecord(content[key], TRUE)}
      OBVIOUS
    <2>1. /\ content' = [content EXCEPT ![key] = x] /\ f.id \in x.frames
          /\ records' = records \/ records' = records (+) SetToBag(R)
      BY <1>10, <1>k, <2>r DEF Begin
    <2>2. ~ContentRecord(content[key], TRUE).ok
      BY DEF ContentRecord, Record
    <2>3. \A r \in R : WholeMessage(r)
      BY <2>r, <2>2, WholeFacts
    <2>4. DOMAIN records' \subseteq DOMAIN records \cup R
      BY <2>1, AddedFacts
    <2>5. \E id \in x.frames : id[1] = "s2c"
      BY <1>3, <2>1
    <2> QED
      BY <1>8, <2>1, <2>3, <2>4, <2>5
  <1>11. ASSUME NEW x, Finish("s2c", f, x) PROVE MessageInv'
    <2>r. PICK R : R = {x}
      OBVIOUS
    <2>n. PICK none : none = NoContent
      OBVIOUS
    <2>1. /\ content' = [content EXCEPT ![key] = none] /\ content[key] # NoContent
          /\ records' = records (+) SetToBag(R) /\ f.id \in x.frames
      BY <1>11, <1>k, <2>r, <2>n DEF Finish
    <2>2. WholeMessage(x)
      BY <1>3, <2>1, WholeFacts
    <2>3. \A r \in R : WholeMessage(r)
      BY <2>r, <2>2
    <2>4. DOMAIN records' \subseteq DOMAIN records \cup R
      BY <2>1, AddedFacts
    <2>5. none.frames = {}
      BY <2>n DEF NoContent
    <2> QED
      BY <1>8, <2>1, <2>3, <2>4, <2>5
  <1>12. ASSUME NEW x, Grow("s2c", f, x) PROVE MessageInv'
    <2>e. PICK R : R = {}
      OBVIOUS
    <2>1. /\ content' = [content EXCEPT ![key] = x] /\ records' = records /\ f.id \in x.frames
      BY <1>12, <1>k DEF Grow
    <2>2. DOMAIN records' \subseteq DOMAIN records \cup R /\ \A r \in R : WholeMessage(r)
      BY <2>e, <2>1
    <2>3. \E id \in x.frames : id[1] = "s2c"
      BY <1>3, <2>1
    <2> QED
      BY <1>8, <2>1, <2>2, <2>3
  <1> QED
    BY <1>2, <1>6, <1>7, <1>10, <1>11, <1>12

(* At first there is nothing to account for. *)
LEMMA PlaceInit == Init => PlaceInv /\ EmptyInv /\ MessageInv
  <1> SUFFICES ASSUME Init PROVE PlaceInv /\ EmptyInv /\ MessageInv
    OBVIOUS
  <1>1. /\ relay["c2s"].pc = "none" /\ relay["s2c"].pc = "none"
        /\ \A d \in Directions : passed[d] = {}
    BY DirectionFacts DEF Init, Idle
  <1>2. pending = [ch \in Chans |-> <<>>] /\ content = [k \in Keys |-> NoContent]
    BY DEF Init, Chans, Keys
  <1>3. DOMAIN records = {}
    BY DEF Init, EmptyBag, SetToBag
  <1>4. \A n \in 1..Len(script) : script[n].ch \in Chans
    BY ScriptFacts DEF Init, Frames, Chans
  <1>5. NoContent.frames = {} /\ NoContent.size = 0 /\ NoContent.received = 0
    BY DEF NoContent
  <1>6. \A k \in Keys : content[k] = NoContent /\ content[k].frames = {}
    BY <1>2, <1>5
  <1>7. \A n \in 1..Len(script) : ~Pending(n)
    BY <1>2, <1>4 DEF Pending
  <1>8. EmptyInv
    BY <1>2 DEF EmptyInv
  <1>9. ApartInv
    BY <1>3, <1>6, <1>7 DEF ApartInv
  <1>10. FreshInv
    <2>1. SentInv
      BY <1>3, <1>6 DEF SentInv
    <2>2. Len(fromBroker) = 0
      BY DEF Init
    <2> QED
      BY <1>1, <2>1, <2>2 DEF FreshInv, ClientNew, BrokerNew, Holding
  <1>11. PassedInv
    BY <1>1, DirectionFacts DEF PassedInv
  <1>12. MessageInv
    <2>1. \A ch \in Chans : <<"c2s", ch>> \in Keys /\ <<"s2c", ch>> \in Keys
      BY DirectionFacts DEF Keys
    <2>2. ClientMessages
      <3> SUFFICES ASSUME NEW ch \in Chans, NEW c \in States, c = content[<<"c2s", ch>>]
                   PROVE  Message(c, ch)
        BY DEF ClientMessages
      <3>1. c = NoContent
        BY <1>6, <2>1
      <3> QED
        BY <1>5, <3>1, MessageNone
    <2>3. BrokerMessages
      BY <1>6, <2>1 DEF BrokerMessages
    <2> QED
      BY <1>3, <2>2, <2>3 DEF MessageInv
  <1> QED
    BY <1>8, <1>9, <1>10, <1>11, <1>12 DEF PlaceInv

(* What is in one place at the end is in one record. *)
LEMMA AccountedFollows ==
    ASSUME TypeInv, PhaseInv, PlaceInv, EmptyInv, MessageInv PROVE Accounted
  <1>i. ApartInv /\ PassedInv
    BY DEF PlaceInv
  <1>1. \A id : Recorded(id) => Once(id)
    BY <1>i DEF ApartInv, Recorded, Once
  <1>2. \A r \in DOMAIN records : WholeMessage(r) /\ \A id \in r.frames : Once(id)
    BY <1>1 DEF MessageInv, Recorded
  <1>3. ASSUME phase = "closed", NEW d \in Directions, NEW frame \in passed[d]
        PROVE  /\ frame.type # "beat" => Once(frame.id)
               /\ frame.re # NoId => \E r \in DOMAIN records : r.req = frame.re /\ r.re = r.req
    <2>1. /\ \A ch \in Chans : pending[ch] = <<>>
          /\ \A k \in Keys : content[k] = NoContent
      BY <1>3 DEF EmptyInv
    <2>2. relay[d].pc # "observe"
      BY <1>3 DEF PhaseInv
    <2>3. /\ frame.type # "beat" => Known(frame.id)
          /\ frame.re # NoId => Answered(frame.re)
      BY <1>i, <1>3, <2>2 DEF PassedInv
    <2>4. \A n \in 1..Len(script) : ~Pending(n)
      <3>1. \A n \in 1..Len(script) : script[n].ch \in Chans
        BY ScriptFacts DEF TypeInv, Frames, Chans
      <3>2. \A ch \in Chans : Len(pending[ch]) = 0
        BY <2>1
      <3> QED
        BY <3>1, <3>2 DEF Pending
    <2>5. NoContent.frames = {} /\ NoContent.req = NoId
      BY DEF NoContent
    <2>6. \A id : Known(id) => Recorded(id)
      BY <2>1, <2>4, <2>5 DEF Known, Filed, Gathered
    <2>7. frame.re # NoId => \E r \in DOMAIN records : r.req = frame.re /\ r.re = r.req
      BY <2>1, <2>3, <2>5 DEF Answered
    <2> QED
      BY <1>1, <2>3, <2>6, <2>7
  <1> QED
    BY <1>2, <1>3 DEF Accounted

(* Every step keeps the messages and the records of them whole. *)
LEMMA MessageNext ==
    ASSUME Headed, TypeInv, PairInv, PlaceInv, EmptyInv, MessageInv, [Next]_vars
    PROVE  MessageInv'
  <1>1. CASE ~\E d \in Directions : Observe(d)
    BY <1>1, MessageOther
  <1>2. CASE \E d \in Directions : Observe(d)
    <2>1. Observe("c2s") \/ Observe("s2c")
      BY <1>2 DEF Directions
    <2> QED
      BY <2>1, MessageClientObserve, MessageBrokerObserve
  <1> QED
    BY <1>1, <1>2

(***************************************************************************)
(* No frame is recorded twice, however many channels, requests, messages   *)
(* and broken connections there are; a message of the client that is       *)
(* recorded as ok came whole; and when the session is over, every frame    *)
(* that was passed on is in a record, with the request that it answers.    *)
(* For clients that do not reopen a channel the broker closed, and whose   *)
(* headers that announce nothing are not in the middle of another message: *)
(* the inspector ends the message that is open then, complete or not       *)
(* (inspect.go:143).                                                       *)
(***************************************************************************)
THEOREM EveryFrameIsAccounted ==
    ASSUME NoConfirm, Headed PROVE Spec => []Accounted
  <1> DEFINE IInv == TypeInv /\ PhaseInv /\ PairInv /\ PlaceInv /\ EmptyInv /\ MessageInv
  <1>1. Init => IInv
    BY TypeInit, PairInit, PlaceInit
  <1>2. IInv /\ [Next]_vars => IInv'
    <2> SUFFICES ASSUME IInv, [Next]_vars PROVE IInv'
      OBVIOUS
    <2>1. TypeInv' /\ PhaseInv'
      BY TypeNext, PhaseNext
    <2>2. PairInv' /\ PlaceInv'
      BY PairNext, PlaceNext
    <2>3. EmptyInv' /\ MessageInv'
      BY EmptyNext, MessageNext
    <2> QED
      BY <2>1, <2>2, <2>3
  <1>3. IInv => Accounted
    BY AccountedFollows
  <1> QED
    BY <1>1, <1>2, <1>3, PTL DEF Spec
=============================================================================
