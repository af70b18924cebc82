------------------------- MODULE RedisSessionProofs -------------------------
(***************************************************************************)
(* Proofs about RedisSession, for every script, bound and channel size.    *)
(*                                                                         *)
(* The pipeline keeps its order because every request that was read and    *)
(* not yet answered has one place.  The queue, then the channel `commands` *)
(* and then the request goroutine hold consecutive requests, from the one  *)
(* after the last answer to the last one read (PlacesInv).  The requests   *)
(* that are in flight (to the server, back, or in `responses`) are exactly *)
(* those of the queue that Portscope does not answer itself, and they are  *)
(* in rising order from the client's end to the server's (FlightInv).  So  *)
(* when the main loop selects, with no local answer due, the frame it      *)
(* receives answers the head of the queue.                                 *)
(***************************************************************************)
EXTENDS RedisSession, FiniteSetTheorems, TLAPS

(* Every variable has its type; a frame that answers nothing is a push.    *)
TypeInv ==
    /\ script \in Scripts /\ password \in BOOLEAN
    /\ phase \in {"auth", "dial", "relay", "closed"}
    /\ read \in 0..Len(script) /\ authed \in BOOLEAN
    /\ reader \in [pc : {"none", "read", "offer", "await"}, n : 0..Len(script),
                   local : BOOLEAN]
    /\ reader.pc \in {"offer", "await"} => reader.n # 0
    /\ commands \in Seq(Pair) /\ queue \in Seq(Pair)
    /\ accepted \in Requests \cup {0}
    /\ toServer \in Seq(Requests)
    /\ fromServer \in Seq(Frames) /\ responses \in Seq(Frames)
    /\ out \in Seq(Frames)
    /\ recorded \in Seq([req : Requests \cup {0}, to : Requests \cup {0}])

(***************************************************************************)
(* A request authenticated the client before the server is dialled, and    *)
(* before the request that the request goroutine would forward.            *)
(***************************************************************************)
GivenBy(scr, n) == \E m \in 1..n : scr[m] \in {"auth", "hello"}

Cleared(scr, pass, n) ==
    scr[n] \notin {"auth", "wrong", "pinned"} /\ (pass => GivenBy(scr, n))

AuthInv ==
    /\ password /\ authed => GivenBy(script, read)
    /\ phase \in {"dial", "relay"} \/ reader.pc # "none" => authed
    /\ reader.pc \in {"offer", "await"} /\ ~reader.local =>
          Cleared(script, password, reader.n)
    /\ \A i \in 1..Len(toServer) : Cleared(script, password, toServer[i])

-----------------------------------------------------------------------------
(* How many of the first k frames of s are answers; of all the client saw. *)
CountIn(s, k) == Cardinality({i \in 1..k : s[i].to # 0})

Answered == CountIn(out, Len(out))

(***************************************************************************)
(* Where the requests are that were read and not answered.                 *)
(***************************************************************************)
PlacesInv ==
    phase # "closed" =>
        /\ phase = "auth" => reader.pc = "none"
        /\ phase = "dial" => reader.pc \in {"none", "offer"}
        /\ phase # "relay" =>
              /\ commands = <<>> /\ queue = <<>> /\ accepted = 0
              /\ toServer = <<>> /\ fromServer = <<>> /\ responses = <<>>
              /\ ~responder
        /\ \A i \in 1..Len(queue) : queue[i].n = Answered + i
        /\ \A i \in 1..Len(commands) : commands[i].n = Answered + Len(queue) + i
        /\ reader.pc # "await" => commands = <<>>
        /\ Len(commands) <= 1
        /\ reader.pc = "offer" => read = Answered + Len(queue) + 1
        /\ reader.pc # "offer" => read = Answered + Len(queue) + Len(commands)
        /\ reader.pc \in {"offer", "await"} => reader.n = read
        /\ accepted <= Answered + Len(queue)

(***************************************************************************)
(* Frames and requests in flight: n is carried by one of them; the answers *)
(* among them rise; those of one sequence precede those of another.        *)
(***************************************************************************)
Carries(s, n) == \E i \in 1..Len(s) : s[i].to = n
Sent(s, n) == \E i \in 1..Len(s) : s[i] = n

Rising(s) ==
    \A i, j \in 1..Len(s) :
        i < j /\ s[i].to # 0 /\ s[j].to # 0 => s[i].to < s[j].to
RisingSent(s) == \A i, j \in 1..Len(s) : i < j => s[i] < s[j]

Below(R, s, t) ==
    \A m, n \in R : Carries(s, m) /\ Carries(t, n) => m < n
BelowSent(R, s, t) ==
    \A m, n \in R : Carries(s, m) /\ Sent(t, n) => m < n

(* Request n is in the queue and waits for an answer of the server. *)
Expected(q, n) == \E j \in 1..Len(q) : q[j].n = n /\ ~q[j].local

(* The reader waits, or it gave up before it wrote the last request. *)
Unwritten(r) == r.pc \in {"await", "none"}

(* Request n is on its way: to the server, back, or in `responses`. *)
Flying(rs, fs, ts, n) == Carries(rs, n) \/ Carries(fs, n) \/ Sent(ts, n)

InFlight(n) == Flying(responses, fromServer, toServer, n)

(* All that flies rises from the client's end to the server's. *)
Ordered(R, rs, fs, ts) ==
    /\ Rising(rs) /\ Rising(fs) /\ RisingSent(ts)
    /\ Below(R, rs, fs) /\ BelowSent(R, rs, ts) /\ BelowSent(R, fs, ts)

FlightInv ==
    phase # "closed" =>
        /\ Ordered(Requests, responses, fromServer, toServer)
        /\ \A n \in Requests : InFlight(n) => Expected(queue, n)
        /\ \A n \in Requests :
              Expected(queue, n) => InFlight(n) \/ (n = read /\ Unwritten(reader))
        /\ reader.pc = "await" =>
              /\ ~InFlight(reader.n)
              /\ ~reader.local => Expected(queue, reader.n) \/ commands # <<>>
              /\ \A i \in 1..Len(queue) :
                    queue[i].n = reader.n => queue[i].local = reader.local
              /\ \A i \in 1..Len(commands) : commands[i].local = reader.local

(* A frame answers a request, or it is a push or the end of the stream. *)
Marked(s) ==
    \A i \in 1..Len(s) : IF s[i].to = 0 THEN s[i].type \in {"push", "error"}
                                        ELSE s[i].type = "reply"

FramesInv == Marked(fromServer) /\ Marked(responses)

-----------------------------------------------------------------------------
(***************************************************************************)
(* Lemmas about sequences                                                  *)
(***************************************************************************)

(* What Append and Tail do to a sequence, index by index. *)
LEMMA SeqSteps ==
    ASSUME NEW S, NEW s \in Seq(S), NEW e \in S
    PROVE  /\ Append(s, e) \in Seq(S) /\ Len(Append(s, e)) = Len(s) + 1
           /\ \A i \in 1..Len(s) : Append(s, e)[i] = s[i]
           /\ Append(s, e)[Len(s) + 1] = e
           /\ s # <<>> => /\ Head(s) \in S /\ Tail(s) \in Seq(S)
                          /\ Len(s) >= 1 /\ Head(s) = s[1]
                          /\ Len(Tail(s)) = Len(s) - 1
                          /\ \A i \in 1..(Len(s) - 1) : Tail(s)[i] = s[i + 1]
  OBVIOUS

(* The numbers up to n + 1 are those up to n, and n + 1. *)
LEMMA OneMore ==
    ASSUME NEW n \in Nat
    PROVE  \A i : i \in 1..(n + 1) <=> i \in 1..n \/ i = n + 1
  OBVIOUS

(* The numbers from 1 to n are 1 and the successors of those up to n - 1.  *)
LEMMA FirstAndRest ==
    ASSUME NEW n \in Nat, n >= 1
    PROVE  \A i : i \in 1..n <=> i = 1 \/ \E j \in 1..(n - 1) : i = j + 1
<1>1. ASSUME NEW i \in 1..n, i # 1 PROVE \E j \in 1..(n - 1) : i = j + 1
  <2>1. i - 1 \in 1..(n - 1) /\ i = (i - 1) + 1 BY <1>1
  <2> QED BY <2>1
<1> QED BY <1>1

(* A frame that is appended joins those that are carried. *)
LEMMA CarriesAppend ==
    ASSUME NEW S, NEW s \in Seq(S), NEW e \in S, NEW n
    PROVE  Carries(Append(s, e), n) <=> Carries(s, n) \/ e.to = n
<1> DEFINE t == Append(s, e)
<1>1. /\ Len(t) = Len(s) + 1 /\ Len(s) \in Nat
      /\ \A i \in 1..Len(s) : t[i] = s[i]
      /\ t[Len(s) + 1] = e
  BY SeqSteps
<1>2. \A i : i \in 1..Len(t) <=> i \in 1..Len(s) \/ i = Len(s) + 1
  BY <1>1, OneMore
<1> HIDE DEF t
<1>3. Carries(t, n) <=> Carries(s, n) \/ e.to = n
  BY <1>1, <1>2, Zenon DEF Carries
<1> QED BY <1>3 DEF t

(* What carries an answer to n is the head or in the tail. *)
LEMMA CarriesHeadTail ==
    ASSUME NEW S, NEW s \in Seq(S), s # <<>>, NEW n
    PROVE  Carries(s, n) <=> Head(s).to = n \/ Carries(Tail(s), n)
<1> DEFINE t == Tail(s)
<1>1. /\ Len(s) >= 1 /\ Head(s) = s[1] /\ Len(t) = Len(s) - 1 /\ Len(s) \in Nat
      /\ \A i \in 1..(Len(s) - 1) : t[i] = s[i + 1]
  OBVIOUS
<1>3. 1 \in 1..Len(s) /\ \A j \in 1..Len(t) : j + 1 \in 1..Len(s) /\ s[j + 1] = t[j]
  BY <1>1
<1>4. \A i \in 1..Len(s) : i = 1 \/ (i - 1 \in 1..Len(t) /\ s[i] = t[i - 1])
  <2> SUFFICES ASSUME NEW i \in 1..Len(s), i # 1
               PROVE  i - 1 \in 1..Len(t) /\ s[i] = t[i - 1]
    OBVIOUS
  <2>1. i - 1 \in 1..Len(t) /\ i - 1 + 1 = i BY <1>1
  <2> QED BY <1>3, <2>1
<1> HIDE DEF t
<1>5. ASSUME Carries(s, n) PROVE Head(s).to = n \/ Carries(t, n)
  BY <1>1, <1>4, <1>5, Zenon DEF Carries
<1>6. ASSUME Head(s).to = n PROVE Carries(s, n)
  BY <1>1, <1>3, <1>6, Zenon DEF Carries
<1>7. ASSUME Carries(t, n) PROVE Carries(s, n)
  BY <1>3, <1>7, Zenon DEF Carries
<1>8. Carries(s, n) <=> Head(s).to = n \/ Carries(t, n)
  BY <1>5, <1>6, <1>7, Zenon
<1> QED BY <1>8 DEF t

(* The same of the requests that were sent ... *)
LEMMA SentAppend ==
    ASSUME NEW S, NEW s \in Seq(S), NEW e \in S, NEW n
    PROVE  Sent(Append(s, e), n) <=> Sent(s, n) \/ e = n
<1> DEFINE t == Append(s, e)
<1>1. /\ Len(t) = Len(s) + 1 /\ Len(s) \in Nat
      /\ \A i \in 1..Len(s) : t[i] = s[i]
      /\ t[Len(s) + 1] = e
  BY SeqSteps
<1>2. \A i : i \in 1..Len(t) <=> i \in 1..Len(s) \/ i = Len(s) + 1
  BY <1>1, OneMore
<1> HIDE DEF t
<1>3. Sent(t, n) <=> Sent(s, n) \/ e = n
  BY <1>1, <1>2, Zenon DEF Sent
<1> QED BY <1>3 DEF t

(* A request that was sent is the head or in the tail. *)
LEMMA SentHeadTail ==
    ASSUME NEW S, NEW s \in Seq(S), s # <<>>, NEW n
    PROVE  Sent(s, n) <=> Head(s) = n \/ Sent(Tail(s), n)
<1> DEFINE t == Tail(s)
<1>1. /\ Len(s) >= 1 /\ Head(s) = s[1] /\ Len(t) = Len(s) - 1 /\ Len(s) \in Nat
      /\ \A i \in 1..(Len(s) - 1) : t[i] = s[i + 1]
  OBVIOUS
<1>2. \A i : i \in 1..Len(s) <=> i = 1 \/ \E j \in 1..Len(t) : i = j + 1
  BY <1>1, FirstAndRest
<1> HIDE DEF t
<1>3. Sent(s, n) <=> s[1] = n \/ \E j \in 1..Len(t) : s[j + 1] = n
  BY <1>2, Zenon DEF Sent
<1>4. Sent(t, n) <=> \E j \in 1..Len(t) : s[j + 1] = n
  BY <1>1 DEF Sent
<1>5. Sent(s, n) <=> Head(s) = n \/ Sent(t, n)
  BY <1>1, <1>3, <1>4
<1> QED BY <1>5 DEF t

(* ... and of the requests the queue expects an answer to. *)
LEMMA ExpectedAppend ==
    ASSUME NEW S, NEW s \in Seq(S), NEW e \in S, NEW n
    PROVE  Expected(Append(s, e), n) <=> Expected(s, n) \/ (e.n = n /\ ~e.local)
<1> DEFINE t == Append(s, e)
<1>1. /\ Len(t) = Len(s) + 1 /\ Len(s) \in Nat
      /\ \A i \in 1..Len(s) : t[i] = s[i]
      /\ t[Len(s) + 1] = e
  BY SeqSteps
<1>2. \A i : i \in 1..Len(t) <=> i \in 1..Len(s) \/ i = Len(s) + 1
  BY <1>1, OneMore
<1> HIDE DEF t
<1>3. Expected(t, n) <=> Expected(s, n) \/ (e.n = n /\ ~e.local)
  BY <1>1, <1>2, Zenon DEF Expected
<1> QED BY <1>3 DEF t

(* An answer that is expected belongs to the head or to the tail. *)
LEMMA ExpectedHeadTail ==
    ASSUME NEW S, NEW s \in Seq(S), s # <<>>, NEW n
    PROVE  Expected(s, n) <=>
             (Head(s).n = n /\ ~Head(s).local) \/ Expected(Tail(s), n)
<1> DEFINE t == Tail(s)
<1>1. /\ Len(s) >= 1 /\ Head(s) = s[1] /\ Len(t) = Len(s) - 1 /\ Len(s) \in Nat
      /\ \A i \in 1..(Len(s) - 1) : t[i] = s[i + 1]
  OBVIOUS
<1>3. 1 \in 1..Len(s) /\ \A j \in 1..Len(t) : j + 1 \in 1..Len(s) /\ s[j + 1] = t[j]
  BY <1>1
<1>4. \A i \in 1..Len(s) : i = 1 \/ (i - 1 \in 1..Len(t) /\ s[i] = t[i - 1])
  <2> SUFFICES ASSUME NEW i \in 1..Len(s), i # 1
               PROVE  i - 1 \in 1..Len(t) /\ s[i] = t[i - 1]
    OBVIOUS
  <2>1. i - 1 \in 1..Len(t) /\ i - 1 + 1 = i BY <1>1
  <2> QED BY <1>3, <2>1
<1> HIDE DEF t
<1>5. ASSUME Expected(s, n)
      PROVE  (Head(s).n = n /\ ~Head(s).local) \/ Expected(t, n)
  BY <1>1, <1>4, <1>5, Zenon DEF Expected
<1>6. ASSUME Head(s).n = n, ~Head(s).local PROVE Expected(s, n)
  BY <1>1, <1>3, <1>6, Zenon DEF Expected
<1>7. ASSUME Expected(t, n) PROVE Expected(s, n)
  BY <1>3, <1>7, Zenon DEF Expected
<1>8. Expected(s, n) <=> (Head(s).n = n /\ ~Head(s).local) \/ Expected(t, n)
  BY <1>5, <1>6, <1>7, Zenon
<1> QED BY <1>8 DEF t

(* A rising sequence stays so when what is appended is above all of it ... *)
LEMMA RisingAppend ==
    ASSUME NEW S, NEW s \in Seq(S), NEW e \in S, Rising(s),
           e.to # 0 => \A i \in 1..Len(s) : s[i].to # 0 => s[i].to < e.to
    PROVE  Rising(Append(s, e))
<1> DEFINE t == Append(s, e)
<1>1. /\ Len(t) = Len(s) + 1 /\ Len(s) \in Nat
      /\ \A i \in 1..Len(s) : t[i] = s[i]
      /\ t[Len(s) + 1] = e
  BY SeqSteps
<1> HIDE DEF t
<1>2. ASSUME NEW i \in 1..Len(t), NEW j \in 1..Len(t), i < j,
             t[i].to # 0, t[j].to # 0
      PROVE  t[i].to < t[j].to
  <2>1. i \in 1..Len(s) /\ (j \in 1..Len(s) \/ j = Len(s) + 1) BY <1>1, <1>2
  <2>2. CASE j \in 1..Len(s) BY <1>1, <1>2, <2>1, <2>2 DEF Rising
  <2>3. CASE j = Len(s) + 1 BY <1>1, <1>2, <2>1, <2>3
  <2> QED BY <2>1, <2>2, <2>3
<1>3. Rising(t) BY <1>2 DEF Rising
<1> QED BY <1>3 DEF t

(* ... and without its head, which is below the others. *)
LEMMA RisingTail ==
    ASSUME NEW S, NEW s \in Seq(S), s # <<>>, Rising(s)
    PROVE  /\ Rising(Tail(s))
           /\ \A n : Carries(Tail(s), n) /\ n # 0 /\ Head(s).to # 0 => Head(s).to < n
<1> DEFINE t == Tail(s)
<1>1. /\ Len(s) >= 1 /\ Head(s) = s[1] /\ Len(t) = Len(s) - 1 /\ Len(s) \in Nat
      /\ \A i \in 1..(Len(s) - 1) : t[i] = s[i + 1]
  OBVIOUS
<1> HIDE DEF t
<1>2. \A i \in 1..Len(t) : t[i] = s[i + 1] /\ i + 1 \in 1..Len(s) /\ 1 < i + 1
                           /\ 1 \in 1..Len(s)
  BY <1>1
<1>3. Rising(t) 
  <2>1. \A i, j \in 1..Len(t) : i < j => i + 1 < j + 1 BY <1>1
  <2> QED BY <1>2, <2>1 DEF Rising
<1>4. \A n : Carries(t, n) /\ n # 0 /\ Head(s).to # 0 => Head(s).to < n
  BY <1>1, <1>2 DEF Rising, Carries
<1> QED BY <1>3, <1>4 DEF t

(* A later request keeps the requests rising. *)
LEMMA RisingSentAppend ==
    ASSUME NEW S, NEW s \in Seq(S), NEW e \in S, RisingSent(s),
           \A i \in 1..Len(s) : s[i] < e
    PROVE  RisingSent(Append(s, e))
<1> DEFINE t == Append(s, e)
<1>1. /\ Len(t) = Len(s) + 1 /\ Len(s) \in Nat
      /\ \A i \in 1..Len(s) : t[i] = s[i]
      /\ t[Len(s) + 1] = e
  BY SeqSteps
<1> HIDE DEF t
<1>2. ASSUME NEW i \in 1..Len(t), NEW j \in 1..Len(t), i < j
      PROVE  t[i] < t[j]
  <2>1. i \in 1..Len(s) /\ (j \in 1..Len(s) \/ j = Len(s) + 1) BY <1>1, <1>2
  <2>2. CASE j \in 1..Len(s) BY <1>1, <1>2, <2>1, <2>2 DEF RisingSent
  <2>3. CASE j = Len(s) + 1 BY <1>1, <1>2, <2>1, <2>3
  <2> QED BY <2>1, <2>2, <2>3
<1>3. RisingSent(t) BY <1>2 DEF RisingSent
<1> QED BY <1>3 DEF t

(* Requests that rise go on rising without the first. *)
LEMMA RisingSentTail ==
    ASSUME NEW S, NEW s \in Seq(S), s # <<>>, RisingSent(s)
    PROVE  /\ RisingSent(Tail(s))
           /\ \A n : Sent(Tail(s), n) => Head(s) < n
<1> DEFINE t == Tail(s)
<1>1. /\ Len(s) >= 1 /\ Head(s) = s[1] /\ Len(t) = Len(s) - 1 /\ Len(s) \in Nat
      /\ \A i \in 1..(Len(s) - 1) : t[i] = s[i + 1]
  OBVIOUS
<1> HIDE DEF t
<1>2. \A i \in 1..Len(t) : t[i] = s[i + 1] /\ i + 1 \in 1..Len(s) /\ 1 < i + 1
                           /\ 1 \in 1..Len(s)
  BY <1>1
<1>3. RisingSent(t)
  <2>1. \A i, j \in 1..Len(t) : i < j => i + 1 < j + 1 BY <1>1
  <2> QED BY <1>2, <2>1 DEF RisingSent
<1>4. \A n : Sent(t, n) => Head(s) < n
  BY <1>1, <1>2 DEF RisingSent, Sent
<1> QED BY <1>3, <1>4 DEF t

(* A frame that is appended, or taken from the front, leaves all marked.   *)
LEMMA MarkedSteps ==
    ASSUME NEW S, NEW s \in Seq(S), Marked(s)
    PROVE  /\ \A e \in S : Marked(<<e>>) => Marked(Append(s, e))
           /\ s # <<>> => Marked(Tail(s)) /\ Marked(<<Head(s)>>)
<1>1. ASSUME NEW e \in S, Marked(<<e>>) PROVE Marked(Append(s, e))
  <2>1. /\ Len(Append(s, e)) = Len(s) + 1 /\ Len(s) \in Nat
        /\ \A i \in 1..Len(s) : Append(s, e)[i] = s[i]
        /\ Append(s, e)[Len(s) + 1] = e
    BY SeqSteps
  <2>2. IF e.to = 0 THEN e.type \in {"push", "error"} ELSE e.type = "reply"
    BY <1>1 DEF Marked
  <2> QED BY <2>1, <2>2 DEF Marked
<1>2. ASSUME s # <<>> PROVE Marked(Tail(s)) /\ Marked(<<Head(s)>>)
  <2>1. /\ Len(s) >= 1 /\ Head(s) = s[1] /\ Len(Tail(s)) = Len(s) - 1
        /\ Len(s) \in Nat
        /\ \A i \in 1..(Len(s) - 1) : Tail(s)[i] = s[i + 1]
    BY <1>2
  <2>2. IF s[1].to = 0 THEN s[1].type \in {"push", "error"} ELSE s[1].type = "reply"
    BY <2>1 DEF Marked
  <2>3. Marked(<<Head(s)>>) BY <2>1, <2>2 DEF Marked
  <2>4. Marked(Tail(s)) BY <2>1 DEF Marked
  <2> QED BY <2>3, <2>4
<1> QED BY <1>1, <1>2

(* A frame that is appended counts when it is an answer. *)
LEMMA CountAppend ==
    ASSUME NEW S, NEW s \in Seq(S), NEW e \in S
    PROVE  /\ CountIn(s, Len(s)) \in Nat
           /\ \A k \in 1..Len(s) : CountIn(Append(s, e), k) = CountIn(s, k)
           /\ e.to # 0 => CountIn(Append(s, e), Len(s) + 1) = CountIn(s, Len(s)) + 1
           /\ e.to = 0 => CountIn(Append(s, e), Len(s) + 1) = CountIn(s, Len(s))
<1> DEFINE t == Append(s, e)
           A(k) == {i \in 1..k : s[i].to # 0}
           B(k) == {i \in 1..k : t[i].to # 0}
<1>1. /\ Len(t) = Len(s) + 1 /\ Len(s) \in Nat
      /\ \A i \in 1..Len(s) : t[i] = s[i]
      /\ t[Len(s) + 1] = e
  BY SeqSteps
<1> HIDE DEF t
<1>2. \A k \in 1..Len(s) : B(k) = A(k) BY <1>1
<1>3. IsFiniteSet(A(Len(s))) /\ Cardinality(A(Len(s))) \in Nat
  <2>1. IsFiniteSet(1..Len(s)) BY <1>1, FS_Interval
  <2>2. A(Len(s)) \subseteq 1..Len(s) OBVIOUS
  <2> QED BY <2>1, <2>2, FS_Subset, FS_CardinalityType
<1>4. ASSUME e.to # 0
      PROVE  Cardinality(B(Len(s) + 1)) = Cardinality(A(Len(s))) + 1
  <2>1. B(Len(s) + 1) = A(Len(s)) \cup {Len(s) + 1} BY <1>1, <1>4
  <2>2. Len(s) + 1 \notin A(Len(s)) BY <1>1
  <2> QED BY <1>3, <2>1, <2>2, FS_AddElement
<1>5. ASSUME e.to = 0
      PROVE  Cardinality(B(Len(s) + 1)) = Cardinality(A(Len(s)))
  <2>1. B(Len(s) + 1) = A(Len(s)) BY <1>1, <1>5
  <2> QED BY <2>1
<1> QED BY <1>2, <1>3, <1>4, <1>5 DEF CountIn, t

-----------------------------------------------------------------------------
(***************************************************************************)
(* Types                                                                   *)
(***************************************************************************)

(* The facts about the constants and the script that the proofs use. *)
LEMMA ScriptFacts ==
    ASSUME script \in Scripts
    PROVE  /\ Len(script) \in Nat
           /\ \A n \in 1..Len(script) : script[n] \in Kinds
  BY RedisAssumption

(* Every variable has its type at first. *)
LEMMA TypeInit == Init => TypeInv
  BY RedisAssumption DEF Init, TypeInv, Requests, Pair, Frames

(* No step changes the script or the listener. *)
LEMMA ConfigStep == [Next]_vars => UNCHANGED <<script, password>>
  BY DEF Next, vars, Reader, Responder, Main, client, net, seen,
         ReadRequest, Offer, Forward, ReaderFails, ReaderDone, ReadResponse, ResponderFails, ResponderDone,
         Authenticate, AuthenticateFails, Dial, DialFails, Flush, Accept, Respond,
         Stop, WriteFails, WriteBlocks, ServerAnswers, ServerPushes, Cancel, Close

(* Every type is kept. *)
LEMMA TypeStep == TypeInv /\ [Next]_vars => TypeInv'
<1> SUFFICES ASSUME TypeInv, [Next]_vars PROVE TypeInv'
  OBVIOUS
<1> DEFINE Note == [req : Requests \cup {0}, to : Requests \cup {0}]
           Reads == [pc : {"none", "read", "offer", "await"}, n : 0..Len(script),
                     local : BOOLEAN]
<1>0. /\ script' = script /\ password' = password
      /\ Requests' = Requests /\ Pair' = Pair /\ Frames' = Frames
      /\ Note' = Note /\ Reads' = Reads /\ Len(script') = Len(script)
  BY ConfigStep DEF Requests, Pair, Frames
<1>a. Len(script) \in Nat BY ScriptFacts DEF TypeInv
<1>b. \A n \in Requests : n \in 1..Len(script) /\ n \in 0..Len(script) /\ n # 0
  BY <1>a DEF Requests
<1>c. \A n \in 0..Len(script) : n # 0 => n \in Requests BY <1>a DEF Requests
<1>d. \A n \in Requests \cup {0}, t \in {"reply", "push", "error"} : Frame(n, t) \in Frames
  BY DEF Frame, Frames
<1>e. \A n \in Requests \cup {0}, m \in Requests \cup {0} :
        [req |-> n, to |-> m] \in Note
  OBVIOUS
<1>f. \A n \in Requests, b \in BOOLEAN : [n |-> n, local |-> b] \in Pair BY DEF Pair
<1>g. /\ \A x \in Pair : x.n \in Requests /\ x.local \in BOOLEAN
      /\ \A x \in Frames : x.to \in Requests \cup {0}
  BY DEF Pair, Frames
<1>h. TypeInv <=>
        /\ script \in Scripts /\ password \in BOOLEAN
        /\ phase \in {"auth", "dial", "relay", "closed"}
        /\ read \in 0..Len(script) /\ authed \in BOOLEAN
        /\ reader \in Reads
        /\ reader.pc \in {"offer", "await"} => reader.n # 0
        /\ commands \in Seq(Pair) /\ queue \in Seq(Pair)
        /\ accepted \in Requests \cup {0}
        /\ toServer \in Seq(Requests)
        /\ fromServer \in Seq(Frames) /\ responses \in Seq(Frames)
        /\ out \in Seq(Frames)
        /\ recorded \in Seq(Note)
  BY DEF TypeInv
<1>i. \A pc \in {"none", "read", "offer", "await"} :
         LET r == [reader EXCEPT !.pc = pc]
         IN  /\ r \in Reads /\ r.pc = pc /\ r.n = reader.n
             /\ pc \in {"none", "read"} => ~(r.pc \in {"offer", "await"})
  BY <1>h
<1>j. reader.n \in 0..Len(script) /\ reader.local \in BOOLEAN BY <1>h
<1>k. \A n \in 0..Len(script), b \in BOOLEAN :
         LET r == [pc |-> "offer", n |-> n, local |-> b]
         IN  r \in Reads /\ r.n = n
  OBVIOUS
<1> HIDE DEF Note, Reads
<1>S. SUFFICES
        /\ phase' \in {"auth", "dial", "relay", "closed"}
        /\ read' \in 0..Len(script) /\ authed' \in BOOLEAN
        /\ reader' \in Reads
        /\ reader'.pc \in {"offer", "await"} => reader'.n # 0
        /\ commands' \in Seq(Pair) /\ queue' \in Seq(Pair)
        /\ accepted' \in Requests \cup {0}
        /\ toServer' \in Seq(Requests)
        /\ fromServer' \in Seq(Frames) /\ responses' \in Seq(Frames)
        /\ out' \in Seq(Frames)
        /\ recorded' \in Seq(Note)
  BY <1>0, <1>h DEF TypeInv, Note, Reads
<1> USE <1>h DEF client, net, seen
<1>1. CASE ReadRequest
  <2>1. read + 1 \in 0..Len(script) /\ read + 1 # 0 BY <1>a, <1>1 DEF ReadRequest
  <2>2. AuthedAfter(script[read + 1], authed) \in BOOLEAN
        /\ (~Forwards(script[read + 1], authed)) \in BOOLEAN
    BY DEF AuthedAfter, Forwards
  <2>3. reader' \in Reads /\ reader'.n = read + 1
    BY <1>1, <1>k, <2>1, <2>2 DEF ReadRequest
  <2> QED BY <1>1, <2>1, <2>2, <2>3 DEF ReadRequest
<1>2. CASE Offer
  <2>1. [n |-> reader.n, local |-> reader.local] \in Pair
    BY <1>c, <1>f, <1>j, <1>2 DEF Offer
  <2>2. commands' \in Seq(Pair) BY <1>2, <2>1 DEF Offer
  <2> QED BY <1>2, <1>i, <2>2 DEF Offer
<1>3. CASE Forward
  <2>1. reader.n \in Requests BY <1>c, <1>j, <1>3 DEF Forward
  <2>2. toServer' = toServer \/ toServer' = Append(toServer, reader.n)
    BY <1>3, Zenon DEF Forward, net
  <2>3. toServer \in Seq(Requests) BY <1>h
  <2>4. Append(toServer, reader.n) \in Seq(Requests) BY <2>1, <2>3, SeqSteps, Zenon
  <2>5. toServer' \in Seq(Requests) BY <2>2, <2>3, <2>4, Zenon
  <2> QED BY <1>3, <1>i, <2>5 DEF Forward
<1>4. CASE ReaderFails BY <1>4, <1>i DEF ReaderFails
<1>5. CASE ReaderDone BY <1>5, <1>i DEF ReaderDone
<1>6. CASE ReadResponse
  <2>1. Head(fromServer) \in Frames /\ Tail(fromServer) \in Seq(Frames)
    BY <1>6 DEF ReadResponse
  <2> QED BY <1>6, <2>1 DEF ReadResponse
<1>7. CASE ResponderFails
  <2>1. responses' \in Seq(Frames) BY <1>7, <1>d DEF ResponderFails
  <2> QED BY <1>7, <2>1 DEF ResponderFails
<1>8. CASE ResponderDone BY <1>8, <1>i DEF ResponderDone
<1>9. CASE Authenticate
  <2> DEFINE n == read + 1
  <2>1. n \in 0..Len(script) /\ n # 0 /\ n \in Requests
    BY <1>a, <1>c, <1>9 DEF Authenticate
  <2>2. AuthedAfter(script[n], authed) \in BOOLEAN BY DEF AuthedAfter
  <2>3. CASE Forwards(script[n], authed)
    <3>1. reader' \in Reads /\ reader'.n = n
      BY <1>9, <1>k, <2>1, <2>3 DEF Authenticate
    <3> QED BY <1>9, <2>1, <2>2, <2>3, <3>1 DEF Authenticate
  <2>4. CASE ~Forwards(script[n], authed)
    <3>1. /\ out' = Append(out, Frame(n, "reply"))
          /\ recorded' = Append(recorded, [req |-> n, to |-> n])
          /\ phase' \in {"auth", "dial"} /\ reader' = reader
      BY <1>9, <2>4 DEF Authenticate, AnswerLocally
    <3>2. out' \in Seq(Frames) /\ recorded' \in Seq(Note)
      BY <1>d, <1>e, <2>1, <3>1
    <3> QED BY <1>9, <2>1, <2>2, <3>1, <3>2 DEF Authenticate
  <2> QED BY <2>3, <2>4
<1>10. CASE AuthenticateFails BY <1>10, <1>i DEF AuthenticateFails
<1>11. CASE Dial BY <1>11, <1>i DEF Dial
<1>12. CASE DialFails BY <1>12, <1>i DEF DialFails
<1>13. CASE Flush
  <2> DEFINE n == Head(queue).n
  <2>1. Head(queue) \in Pair /\ Tail(queue) \in Seq(Pair) BY <1>13 DEF Flush, Flushable
  <2>2. n \in Requests BY <1>g, <2>1
  <2>3. /\ out' = Append(out, Frame(n, "reply"))
        /\ recorded' = Append(recorded, [req |-> n, to |-> n])
    BY <1>13 DEF Flush, AnswerLocally
  <2>4. out' \in Seq(Frames) /\ recorded' \in Seq(Note) BY <1>d, <1>e, <2>2, <2>3
  <2> QED BY <1>13, <2>1, <2>4 DEF Flush
<1>14. CASE Accept
  <2>1. Head(commands) \in Pair /\ Tail(commands) \in Seq(Pair) BY <1>14 DEF Accept
  <2>2. queue' \in Seq(Pair) /\ accepted' \in Requests
    BY <1>g, <1>14, <2>1 DEF Accept, Enqueued
  <2> QED BY <1>14, <2>1, <2>2 DEF Accept
<1>15. CASE Respond
  <2> DEFINE frame == Head(responses)
             r == IF Unsolicited(frame) THEN 0 ELSE Head(queue).n
  <2>1. frame \in Frames /\ Tail(responses) \in Seq(Frames) BY <1>15 DEF Respond
  <2>2. queue # <<>> => Head(queue) \in Pair /\ Tail(queue) \in Seq(Pair) OBVIOUS
  <2>3. r \in Requests \cup {0} /\ frame.to \in Requests \cup {0}
    BY <1>g, <2>1, <2>2 DEF Unsolicited
  <2>4. queue' \in Seq(Pair) BY <1>15, <2>2 DEF Respond, Unsolicited
  <2>5. out' = Append(out, frame) /\ recorded' = Append(recorded, [req |-> r, to |-> frame.to])
    BY <1>15 DEF Respond
  <2> HIDE DEF frame, r
  <2>6. out' \in Seq(Frames) /\ recorded' \in Seq(Note) BY <1>e, <2>1, <2>3, <2>5
  <2> QED BY <1>15, <2>1, <2>4, <2>6 DEF Respond, frame
<1>16. CASE Stop BY <1>16, <1>i DEF Stop, Close
<1>17. CASE WriteFails BY <1>17, <1>i DEF WriteFails, Close
<1>18. CASE ServerAnswers
  <2>1. Head(toServer) \in Requests /\ Tail(toServer) \in Seq(Requests)
    BY <1>18 DEF ServerAnswers
  <2>2. fromServer' \in Seq(Frames) BY <1>18, <1>d, <2>1 DEF ServerAnswers
  <2> QED BY <1>18, <2>1, <2>2 DEF ServerAnswers
<1>19. CASE ServerPushes
  <2>1. PICK type \in PushTypes : fromServer' = Append(fromServer, Frame(0, type))
    BY <1>19 DEF ServerPushes
  <2>2. Frame(0, type) \in Frames BY <1>d, RedisAssumption
  <2>3. fromServer' \in Seq(Frames) BY <2>1, <2>2
  <2> QED BY <1>19, <2>3 DEF ServerPushes
<1>20. CASE Cancel BY <1>20, <1>i DEF Cancel
<1>22. CASE WriteBlocks BY <1>22, <1>i DEF WriteBlocks
<1>21. CASE UNCHANGED vars BY <1>21 DEF vars
<1> QED
  BY <1>1, <1>2, <1>3, <1>4, <1>5, <1>6, <1>7, <1>8, <1>9, <1>10, <1>11, <1>12, <1>13, <1>14, <1>15, <1>16, <1>17, <1>18, <1>19, <1>20, <1>21, <1>22
     DEF Next, Reader, Responder, Main

-----------------------------------------------------------------------------
(***************************************************************************)
(* Authentication                                                          *)
(***************************************************************************)

(* What was given by request n was given by the next one too. *)
LEMMA GivenLater ==
    ASSUME NEW scr, NEW n \in Nat
    PROVE  /\ GivenBy(scr, n) => GivenBy(scr, n + 1)
           /\ scr[n + 1] \in {"auth", "hello"} => GivenBy(scr, n + 1)
  BY OneMore DEF GivenBy

(***************************************************************************)
(* inspectRequest: after a request the client is authenticated only if it  *)
(* gave the credentials, and what is forwarded is cleared.                 *)
(***************************************************************************)
LEMMA Inspected ==
    ASSUME TypeInv, AuthInv, read < Len(script)
    PROVE  /\ password /\ AuthedAfter(script[read + 1], authed) =>
                 GivenBy(script, read + 1)
           /\ Forwards(script[read + 1], authed) =>
                 Cleared(script, password, read + 1)
<1>1. read \in Nat BY ScriptFacts DEF TypeInv
<1>2. password /\ authed => GivenBy(script, read + 1) BY <1>1, GivenLater DEF AuthInv
<1>3. script[read + 1] \in {"auth", "hello"} => GivenBy(script, read + 1)
  BY <1>1, GivenLater
<1>4. password /\ AuthedAfter(script[read + 1], authed) => GivenBy(script, read + 1)
  BY <1>2, <1>3 DEF AuthedAfter
<1>5. Forwards(script[read + 1], authed) => Cleared(script, password, read + 1)
  BY <1>2, <1>3 DEF Forwards, Cleared
<1> QED BY <1>4, <1>5

(* Nothing was sent before authentication at first. *)
LEMMA AuthInit == Init => AuthInv
<1> SUFFICES ASSUME Init PROVE AuthInv
  OBVIOUS
<1>1. /\ authed = ~password /\ password \in BOOLEAN
      /\ phase = (IF password THEN "auth" ELSE "dial")
      /\ reader.pc = "none" /\ Len(toServer) = 0
  BY RedisAssumption DEF Init
<1>2. ~(password /\ authed) BY <1>1, Zenon
<1>3. phase \in {"dial", "relay"} => ~password BY <1>1
<1>4. phase \in {"dial", "relay"} => authed BY <1>1, <1>3, Zenon
<1> QED BY <1>1, <1>2, <1>4 DEF AuthInv

(* Every step keeps AuthInv. *)
LEMMA AuthStep == TypeInv /\ AuthInv /\ [Next]_vars => AuthInv'
<1> SUFFICES ASSUME TypeInv, AuthInv, [Next]_vars PROVE AuthInv'
  OBVIOUS
<1>0. script' = script /\ password' = password BY ConfigStep
<1>a. ASSUME UNCHANGED <<read, authed, toServer>>,
             phase' \in {"dial", "relay"} \/ reader'.pc # "none" => authed,
             reader'.pc \in {"offer", "await"} =>
                /\ reader.pc \in {"offer", "await"}
                /\ reader'.n = reader.n /\ reader'.local = reader.local
      PROVE  AuthInv'
  BY <1>0, <1>a DEF AuthInv
<1>b. /\ reader = [pc |-> reader.pc, n |-> reader.n, local |-> reader.local]
      /\ \A pc : LET r == [reader EXCEPT !.pc = pc]
                 IN  r.pc = pc /\ r.n = reader.n /\ r.local = reader.local
  BY DEF TypeInv
<1> USE DEF client, net, seen
<1>1. CASE ReadRequest
  <2>1. /\ password /\ authed' => GivenBy(script, read')
        /\ reader.pc = "read" /\ toServer' = toServer
        /\ reader' = [pc |-> "offer", n |-> read + 1,
                      local |-> ~Forwards(script[read + 1], authed)]
        /\ phase' = phase /\ read' = read + 1
    BY <1>1, Inspected DEF ReadRequest
  <2>2. authed /\ authed' BY <1>1, <2>1 DEF AuthInv, ReadRequest, AuthedAfter
  <2>3. /\ reader'.pc = "offer" /\ reader'.n = read + 1
        /\ reader'.local = ~Forwards(script[read + 1], authed)
    BY <2>1
  <2>4. Forwards(script[read + 1], authed) => Cleared(script, password, read + 1)
    BY <1>1, Inspected DEF ReadRequest
  <2>5. ~reader'.local => Cleared(script, password, reader'.n)
    BY <2>3, <2>4, Zenon
  <2> QED BY <1>0, <2>1, <2>2, <2>3, <2>5 DEF AuthInv
<1>2. CASE Offer
  BY <1>2, <1>a, <1>b DEF Offer, AuthInv
<1>3. CASE Forward
  <2>0. \/ toServer' = toServer
        \/ toServer' = Append(toServer, reader.n) /\ ~reader.local
    BY <1>3, Zenon DEF Forward
  <2>1. /\ \/ toServer' = toServer
           \/ toServer' = Append(toServer, reader.n) /\ ~reader.local
        /\ reader.pc = "await" /\ reader'.pc = "read"
    BY <1>3, <1>b, <2>0 DEF Forward
  <2>2. UNCHANGED <<read, authed, phase>> /\ phase # "closed"
    BY <1>3 DEF Forward, Done
  <2>3. authed BY <2>1, <2>2 DEF AuthInv
  <2>4. \A i \in 1..Len(toServer') : Cleared(script, password, toServer'[i])
    <3>1. CASE toServer' = toServer BY <3>1 DEF AuthInv
    <3>2. CASE toServer' = Append(toServer, reader.n) /\ ~reader.local
      <4>1. Cleared(script, password, reader.n) BY <2>1, <3>2 DEF AuthInv
      <4>2. reader.n \in Requests BY <2>1, ScriptFacts DEF TypeInv, Requests
      <4>3. toServer \in Seq(Requests) BY DEF TypeInv
      <4>4. /\ Len(toServer') = Len(toServer) + 1 /\ Len(toServer) \in Nat
            /\ \A i \in 1..Len(toServer) : toServer'[i] = toServer[i]
            /\ toServer'[Len(toServer) + 1] = reader.n
        BY <3>2, <4>2, <4>3, SeqSteps
      <4> QED BY <4>1, <4>4 DEF AuthInv
    <3> QED BY <2>1, <3>1, <3>2
  <2> QED BY <1>0, <2>1, <2>2, <2>3, <2>4 DEF AuthInv
<1>4. CASE ReaderFails
  BY <1>4, <1>a, <1>b DEF ReaderFails, AuthInv
<1>5. CASE ReaderDone
  BY <1>5, <1>a, <1>b DEF ReaderDone, AuthInv
<1>6. CASE ReadResponse
  BY <1>6, <1>a, <1>b DEF ReadResponse, AuthInv
<1>7. CASE ResponderFails
  BY <1>7, <1>a, <1>b DEF ResponderFails, AuthInv
<1>8. CASE ResponderDone
  BY <1>8, <1>a, <1>b DEF ResponderDone, AuthInv
<1>9. CASE Authenticate
  <2>1. /\ password /\ authed' => GivenBy(script, read')
        /\ toServer' = toServer /\ read' = read + 1 /\ phase = "auth"
    BY <1>9, Inspected DEF Authenticate
  <2>2. CASE Forwards(script[read + 1], authed)
    <3>1. authed' BY <1>9, <2>2 DEF Authenticate, AuthedAfter, Forwards
    <3>2. reader' = [pc |-> "offer", n |-> read + 1, local |-> FALSE]
      BY <1>9, <2>2 DEF Authenticate
    <3>3. Cleared(script, password, read + 1) BY <1>9, <2>2, Inspected DEF Authenticate
    <3> QED BY <1>0, <2>1, <3>1, <3>2, <3>3 DEF AuthInv
  <2>3. CASE ~Forwards(script[read + 1], authed)
    <3>1. /\ reader' = reader
          /\ phase' = IF authed' THEN "dial" ELSE "auth"
      BY <1>9, <2>3 DEF Authenticate
    <3>2. authed => authed' BY <1>9 DEF Authenticate, AuthedAfter
    <3> QED BY <1>0, <2>1, <3>1, <3>2 DEF AuthInv
  <2> QED BY <2>2, <2>3
<1>10. CASE AuthenticateFails
  BY <1>10, <1>a, <1>b DEF AuthenticateFails, AuthInv
<1>11. CASE Dial
  BY <1>11, <1>a, <1>b DEF Dial, AuthInv
<1>12. CASE DialFails
  BY <1>12, <1>a, <1>b DEF DialFails, AuthInv
<1>13. CASE Flush
  BY <1>13, <1>a, <1>b DEF Flush, AuthInv
<1>14. CASE Accept
  BY <1>14, <1>a, <1>b DEF Accept, AuthInv
<1>15. CASE Respond
  BY <1>15, <1>a, <1>b DEF Respond, AuthInv
<1>16. CASE Stop
  BY <1>16, <1>a, <1>b DEF Stop, AuthInv, Close
<1>17. CASE WriteFails
  BY <1>17, <1>a, <1>b DEF WriteFails, AuthInv, Close
<1>18. CASE ServerAnswers
  <2>1. /\ UNCHANGED <<read, authed, phase, reader>> /\ toServer # <<>>
        /\ toServer' = Tail(toServer)
    BY <1>18 DEF ServerAnswers
  <2>2. toServer \in Seq(Requests) BY DEF TypeInv
  <2>3. \A i \in 1..Len(toServer') :
           i + 1 \in 1..Len(toServer) /\ toServer'[i] = toServer[i + 1]
    BY <2>1, <2>2
  <2> QED BY <1>0, <2>1, <2>3 DEF AuthInv
<1>19. CASE ServerPushes
  BY <1>19, <1>a, <1>b DEF ServerPushes, AuthInv
<1>20. CASE Cancel
  BY <1>20, <1>a, <1>b DEF Cancel, AuthInv
<1>22. CASE WriteBlocks
  BY <1>22, <1>a, <1>b DEF WriteBlocks, AuthInv
<1>21. CASE UNCHANGED vars BY <1>21, <1>a DEF vars, AuthInv
<1> QED
  BY <1>1, <1>2, <1>3, <1>4, <1>5, <1>6, <1>7, <1>8, <1>9, <1>10, <1>11, <1>12, <1>13, <1>14, <1>15, <1>16, <1>17, <1>18, <1>19, <1>20, <1>21, <1>22
     DEF Next, Reader, Responder, Main

(***************************************************************************)
(* "Redis listener authentication is terminated before an upstream         *)
(* connection is authenticated": for every script, nothing is dialled or   *)
(* forwarded before a request that authenticated the client.               *)
(***************************************************************************)
THEOREM NothingIsSentBeforeAuth == Spec => []NothingBeforeAuth
<1>1. Init => TypeInv /\ AuthInv BY TypeInit, AuthInit
<1>2. TypeInv /\ AuthInv /\ [Next]_vars => (TypeInv /\ AuthInv)'
  BY TypeStep, AuthStep
<1>3. TypeInv /\ AuthInv => NothingBeforeAuth
  BY DEF AuthInv, NothingBeforeAuth, Cleared, GivenBy
<1> QED BY <1>1, <1>2, <1>3, PTL DEF Spec

-----------------------------------------------------------------------------
(***************************************************************************)
(* What is in flight                                                       *)
(***************************************************************************)

(* A frame that answers nothing changes nothing. *)
LEMMA FlyingPush ==
    ASSUME NEW R, R \subseteq Nat \ {0}, NEW S, NEW T,
           NEW rs \in Seq(S), NEW fs \in Seq(S), NEW ts \in Seq(T),
           Ordered(R, rs, fs, ts), NEW e \in S, e.to = 0
    PROVE  /\ Ordered(R, Append(rs, e), fs, ts) /\ Ordered(R, rs, Append(fs, e), ts)
           /\ \A n \in R : /\ Flying(Append(rs, e), fs, ts, n) <=> Flying(rs, fs, ts, n)
                           /\ Flying(rs, Append(fs, e), ts, n) <=> Flying(rs, fs, ts, n)
<1>1. \A n \in R : /\ Carries(Append(rs, e), n) <=> Carries(rs, n)
                   /\ Carries(Append(fs, e), n) <=> Carries(fs, n)
  <2> TAKE n \in R
  <2>1. e.to # n OBVIOUS
  <2> QED BY <2>1, CarriesAppend
<1>2. Rising(Append(rs, e)) /\ Rising(Append(fs, e)) BY RisingAppend DEF Ordered
<1>3. Ordered(R, Append(rs, e), fs, ts)
  BY <1>1, <1>2, Zenon DEF Ordered, Below, BelowSent
<1>4. Ordered(R, rs, Append(fs, e), ts)
  BY <1>1, <1>2, Zenon DEF Ordered, Below, BelowSent
<1>5. \A n \in R : /\ Flying(Append(rs, e), fs, ts, n) <=> Flying(rs, fs, ts, n)
                   /\ Flying(rs, Append(fs, e), ts, n) <=> Flying(rs, fs, ts, n)
  BY <1>1, Zenon DEF Flying
<1> QED BY <1>3, <1>4, <1>5

(* The goroutine that reads the server's frames moves the first of them. *)
LEMMA FlyingMove ==
    ASSUME NEW R, R \subseteq Nat \ {0}, NEW S, NEW T,
           \A e \in S : e.to \in R \cup {0},
           NEW rs \in Seq(S), NEW fs \in Seq(S), NEW ts \in Seq(T),
           Ordered(R, rs, fs, ts), fs # <<>>
    PROVE  /\ Ordered(R, Append(rs, Head(fs)), Tail(fs), ts)
           /\ \A n \in R : Flying(Append(rs, Head(fs)), Tail(fs), ts, n)
                             <=> Flying(rs, fs, ts, n)
<1> DEFINE e == Head(fs)
           ra == Append(rs, e)
           ft == Tail(fs)
<1>1. e \in S /\ ft \in Seq(S) OBVIOUS
<1>2. \A n \in R : Carries(ra, n) <=> Carries(rs, n) \/ e.to = n
  BY <1>1, CarriesAppend, Zenon
<1>3. \A n \in R : Carries(fs, n) <=> e.to = n \/ Carries(ft, n)
  BY CarriesHeadTail, Zenon
<1>4. Rising(fs) /\ Rising(rs) /\ RisingSent(ts) /\ Below(R, rs, fs)
      /\ BelowSent(R, rs, ts) /\ BelowSent(R, fs, ts)
  BY DEF Ordered
<1>5. Rising(ft) /\ \A n : Carries(ft, n) /\ n # 0 /\ e.to # 0 => e.to < n
  BY <1>4, RisingTail, Zenon
<1>6. Rising(ra)
  <2>1. ASSUME e.to # 0, NEW i \in 1..Len(rs), rs[i].to # 0
        PROVE  rs[i].to < e.to
    <3>1. rs[i] \in S BY <2>1
    <3>2. e.to \in R /\ rs[i].to \in R BY <1>1, <2>1, <3>1
    <3>3. Carries(rs, rs[i].to) BY <2>1, Zenon DEF Carries
    <3>4. Carries(fs, e.to) BY <1>3, <3>2, Zenon
    <3> QED BY <1>4, <3>2, <3>3, <3>4, Zenon DEF Below
  <2>2. e.to # 0 => \A i \in 1..Len(rs) : rs[i].to # 0 => rs[i].to < e.to
    BY <2>1, Zenon
  <2> QED BY <1>1, <1>4, <2>2, RisingAppend, Zenon
<1> HIDE DEF ra, ft, e
<1>7. \A n \in R : n # 0 OBVIOUS
<1>8. Below(R, ra, ft)
  <2> SUFFICES ASSUME NEW m \in R, NEW n \in R, Carries(ra, m), Carries(ft, n)
               PROVE  m < n
    BY Zenon DEF Below
  <2>1. CASE Carries(rs, m) BY <1>3, <1>4, <2>1, Zenon DEF Below
  <2>2. CASE e.to = m BY <1>5, <1>7, <2>2, Zenon
  <2> QED BY <1>2, <2>1, <2>2, Zenon
<1>9. BelowSent(R, ra, ts) BY <1>2, <1>3, <1>4, Zenon DEF BelowSent
<1>10. BelowSent(R, ft, ts) BY <1>3, <1>4, Zenon DEF BelowSent
<1>11. Ordered(R, ra, ft, ts)
  BY <1>4, <1>5, <1>6, <1>8, <1>9, <1>10, Zenon DEF Ordered
<1>12. \A n \in R : Flying(ra, ft, ts, n) <=> Flying(rs, fs, ts, n)
  BY <1>2, <1>3, Zenon DEF Flying
<1> QED BY <1>11, <1>12 DEF ra, ft, e

(* The server answers the first request it was sent. *)
LEMMA FlyingAnswer ==
    ASSUME NEW R, R \subseteq Nat \ {0}, NEW S,
           \A x \in S : x.to \in R \cup {0},
           NEW rs \in Seq(S), NEW fs \in Seq(S), NEW ts \in Seq(R),
           Ordered(R, rs, fs, ts), ts # <<>>,
           NEW e \in S, e.to = Head(ts)
    PROVE  /\ Ordered(R, rs, Append(fs, e), Tail(ts))
           /\ \A n \in R : Flying(rs, Append(fs, e), Tail(ts), n)
                             <=> Flying(rs, fs, ts, n)
<1> DEFINE fa == Append(fs, e)
           tt == Tail(ts)
<1>1. Head(ts) \in R /\ tt \in Seq(R) OBVIOUS
<1>2. \A n \in R : Carries(fa, n) <=> Carries(fs, n) \/ e.to = n
  BY CarriesAppend, Zenon
<1>3. \A n \in R : Sent(ts, n) <=> e.to = n \/ Sent(tt, n)
  BY SentHeadTail, Zenon
<1>4. Rising(fs) /\ Rising(rs) /\ RisingSent(ts) /\ Below(R, rs, fs)
      /\ BelowSent(R, rs, ts) /\ BelowSent(R, fs, ts)
  BY DEF Ordered
<1>5. RisingSent(tt) /\ \A n : Sent(tt, n) => e.to < n
  BY <1>4, RisingSentTail, Zenon
<1>6. Rising(fa)
  <2>1. ASSUME NEW i \in 1..Len(fs), fs[i].to # 0 PROVE fs[i].to < e.to
    <3>1. fs[i] \in S BY <2>1
    <3>2. e.to \in R /\ fs[i].to \in R BY <1>1, <2>1, <3>1
    <3>3. Carries(fs, fs[i].to) BY <2>1, Zenon DEF Carries
    <3>4. Sent(ts, e.to) BY <1>3, <3>2, Zenon
    <3> QED BY <1>4, <3>2, <3>3, <3>4, Zenon DEF BelowSent
  <2>2. e.to # 0 => \A i \in 1..Len(fs) : fs[i].to # 0 => fs[i].to < e.to
    BY <2>1, Zenon
  <2> QED BY <1>4, <2>2, RisingAppend, Zenon
<1> HIDE DEF fa, tt
<1>7. Below(R, rs, fa) BY <1>2, <1>3, <1>4, Zenon DEF Below, BelowSent
<1>8. BelowSent(R, rs, tt) BY <1>3, <1>4, Zenon DEF BelowSent
<1>9. BelowSent(R, fa, tt)
  <2> SUFFICES ASSUME NEW m \in R, NEW n \in R, Carries(fa, m), Sent(tt, n)
               PROVE  m < n
    BY Zenon DEF BelowSent
  <2>1. CASE Carries(fs, m) BY <1>3, <1>4, <2>1, Zenon DEF BelowSent
  <2>2. CASE e.to = m BY <1>5, <2>2, Zenon
  <2> QED BY <1>2, <2>1, <2>2, Zenon
<1>10. Ordered(R, rs, fa, tt)
  BY <1>4, <1>5, <1>6, <1>7, <1>8, <1>9, Zenon DEF Ordered
<1>11. \A n \in R : Flying(rs, fa, tt, n) <=> Flying(rs, fs, ts, n)
  BY <1>2, <1>3, Zenon DEF Flying
<1> QED BY <1>10, <1>11 DEF fa, tt

(* The main loop takes the first frame; all the others answer later ones. *)
LEMMA FlyingTake ==
    ASSUME NEW R, R \subseteq Nat \ {0}, NEW S, NEW T,
           \A e \in S : e.to \in R \cup {0},
           NEW rs \in Seq(S), NEW fs \in Seq(S), NEW ts \in Seq(T),
           Ordered(R, rs, fs, ts), rs # <<>>
    PROVE  /\ Ordered(R, Tail(rs), fs, ts)
           /\ \A n \in R : /\ Flying(rs, fs, ts, n) <=>
                                Head(rs).to = n \/ Flying(Tail(rs), fs, ts, n)
                           /\ Head(rs).to # 0 /\ Flying(Tail(rs), fs, ts, n) =>
                                Head(rs).to < n
<1> DEFINE e == Head(rs)
           rt == Tail(rs)
<1>1. e \in S /\ rt \in Seq(S) OBVIOUS
<1>2. \A n \in R : Carries(rs, n) <=> e.to = n \/ Carries(rt, n)
  BY CarriesHeadTail, Zenon
<1>3. Rising(fs) /\ Rising(rs) /\ RisingSent(ts) /\ Below(R, rs, fs)
      /\ BelowSent(R, rs, ts) /\ BelowSent(R, fs, ts)
  BY DEF Ordered
<1>4. Rising(rt) /\ \A n : Carries(rt, n) /\ n # 0 /\ e.to # 0 => e.to < n
  BY <1>3, RisingTail, Zenon
<1>5. e.to \in R \cup {0} BY <1>1
<1> HIDE DEF rt, e
<1>6. Ordered(R, rt, fs, ts)
  BY <1>2, <1>3, <1>4, Zenon DEF Ordered, Below, BelowSent
<1>7. \A n \in R : Flying(rs, fs, ts, n) <=> e.to = n \/ Flying(rt, fs, ts, n)
  BY <1>2, Zenon DEF Flying
<1>8. \A n \in R : e.to # 0 /\ Flying(rt, fs, ts, n) => e.to < n
  <2> SUFFICES ASSUME NEW n \in R, e.to # 0, Flying(rt, fs, ts, n) PROVE e.to < n
    OBVIOUS
  <2>1. e.to \in R /\ n # 0 /\ Carries(rs, e.to) BY <1>2, <1>5
  <2> QED BY <1>3, <1>4, <2>1, Zenon DEF Flying, Below, BelowSent
<1> QED BY <1>6, <1>7, <1>8 DEF rt, e

(* A request is sent after all that flies. *)
LEMMA FlyingSend ==
    ASSUME NEW R, R \subseteq Nat \ {0}, NEW S,
           NEW rs \in Seq(S), NEW fs \in Seq(S), NEW ts \in Seq(R),
           Ordered(R, rs, fs, ts), NEW k \in R,
           \A n \in R : Flying(rs, fs, ts, n) => n < k
    PROVE  /\ Ordered(R, rs, fs, Append(ts, k))
           /\ \A n \in R : Flying(rs, fs, Append(ts, k), n) <=>
                             n = k \/ Flying(rs, fs, ts, n)
<1> DEFINE ta == Append(ts, k)
<1>1. \A n \in R : Sent(ta, n) <=> Sent(ts, n) \/ k = n BY SentAppend, Zenon
<1>2. Rising(fs) /\ Rising(rs) /\ RisingSent(ts) /\ Below(R, rs, fs)
      /\ BelowSent(R, rs, ts) /\ BelowSent(R, fs, ts)
  BY DEF Ordered
<1>3. RisingSent(ta)
  <2>1. \A i \in 1..Len(ts) : ts[i] \in R OBVIOUS
  <2>2. \A i \in 1..Len(ts) : Sent(ts, ts[i]) BY Zenon DEF Sent
  <2>3. \A i \in 1..Len(ts) : ts[i] < k BY <2>1, <2>2, Zenon DEF Flying
  <2> QED BY <1>2, <2>3, RisingSentAppend, Zenon
<1> HIDE DEF ta
<1>4. BelowSent(R, rs, ta) /\ BelowSent(R, fs, ta)
  BY <1>1, <1>2, Zenon DEF BelowSent, Flying
<1>5. Ordered(R, rs, fs, ta) BY <1>2, <1>3, <1>4, Zenon DEF Ordered
<1>6. \A n \in R : Flying(rs, fs, ta, n) <=> n = k \/ Flying(rs, fs, ts, n)
  BY <1>1, Zenon DEF Flying
<1> QED BY <1>5, <1>6 DEF ta

-----------------------------------------------------------------------------
(***************************************************************************)
(* The places of the requests                                              *)
(***************************************************************************)

(* The sizes are numbers, and the frames carry requests or nothing. *)
LEMMA Sizes ==
    ASSUME TypeInv
    PROVE  /\ Answered \in Nat /\ Len(queue) \in Nat /\ Len(commands) \in Nat
           /\ read \in Nat /\ reader.n \in Nat /\ accepted \in Nat
           /\ Len(script) \in Nat /\ Requests = 1..Len(script)
           /\ Requests \subseteq Nat \ {0}
           /\ \A e \in Frames : e.to \in Requests \cup {0}
           /\ \A x \in Pair : x.n \in Requests /\ x.local \in BOOLEAN
<1>1. Len(script) \in Nat BY ScriptFacts DEF TypeInv
<1>2. Answered \in Nat
  <2>1. out \in Seq(Frames) /\ Frame(0, "push") \in Frames
    BY DEF TypeInv, Frame, Frames
  <2> QED BY <2>1, CountAppend DEF Answered
<1>3. Len(queue) \in Nat /\ Len(commands) \in Nat BY DEF TypeInv
<1>4. read \in Nat /\ reader.n \in Nat /\ accepted \in Nat
  BY <1>1 DEF TypeInv, Requests
<1>5. Requests = 1..Len(script) /\ Requests \subseteq Nat \ {0}
  BY <1>1 DEF Requests
<1>6. /\ \A e \in Frames : e.to \in Requests \cup {0}
      /\ \A x \in Pair : x.n \in Requests /\ x.local \in BOOLEAN
  BY DEF Frames, Pair
<1> QED BY <1>1, <1>2, <1>3, <1>4, <1>5, <1>6

(* A frame that the client is sent keeps the order when it is the next     *)
(* answer, or none.                                                        *)
LEMMA NextAnswer ==
    ASSUME TypeInv, AnswersInOrder, NEW e \in Frames, out' = Append(out, e),
           e.to # 0 => e.to = Answered + 1
    PROVE  /\ AnswersInOrder'
           /\ e.to # 0 => Answered' = Answered + 1
           /\ e.to = 0 => Answered' = Answered
<1>1. out \in Seq(Frames) BY DEF TypeInv
<1>2. /\ Len(out') = Len(out) + 1 /\ Len(out) \in Nat
      /\ \A i \in 1..Len(out) : out'[i] = out[i]
      /\ out'[Len(out) + 1] = e
  BY <1>1, SeqSteps
<1>3. /\ \A k \in 1..Len(out) : CountIn(out', k) = CountIn(out, k)
      /\ e.to # 0 => CountIn(out', Len(out) + 1) = Answered + 1
      /\ e.to = 0 => CountIn(out', Len(out) + 1) = Answered
  BY <1>1, CountAppend DEF Answered
<1>4. /\ e.to # 0 => Answered' = Answered + 1
      /\ e.to = 0 => Answered' = Answered
  BY <1>2, <1>3 DEF Answered
<1>5. ASSUME NEW k \in 1..Len(out'), out'[k].to # 0
      PROVE  out'[k].to = CountIn(out', k)
  <2>1. k \in 1..Len(out) \/ k = Len(out) + 1 BY <1>2
  <2>2. CASE k \in 1..Len(out)
    BY <1>2, <1>3, <1>5, <2>2 DEF AnswersInOrder, AnswersIn, CountIn
  <2>3. CASE k = Len(out) + 1 BY <1>2, <1>3, <1>5, <2>3
  <2> QED BY <2>1, <2>2, <2>3
<1>6. AnswersInOrder' BY <1>5 DEF AnswersInOrder, AnswersIn, CountIn
<1> QED BY <1>4, <1>6

(***************************************************************************)
(* The heart of the matter: when the main loop selects, a frame that       *)
(* answers a request answers the head of the queue, and any other is a     *)
(* push.                                                                   *)
(***************************************************************************)
LEMMA HeadIsAnswered ==
    ASSUME TypeInv, PlacesInv, FlightInv, FramesInv, phase = "relay", ~Flushable,
           responses # <<>>, Head(responses).type # "error"
    PROVE  /\ Head(responses).to = 0 => Head(responses).type = "push"
           /\ Head(responses).to # 0 =>
                 /\ queue # <<>> /\ Head(responses).type = "reply"
                 /\ Head(queue).n = Head(responses).to
                 /\ Head(queue).n = Answered + 1 /\ ~Head(queue).local
<1> DEFINE f == Head(responses)
<1>0. /\ responses \in Seq(Frames) /\ fromServer \in Seq(Frames)
      /\ toServer \in Seq(Requests) /\ queue \in Seq(Pair)
  BY DEF TypeInv
<1>1. f \in Frames /\ Marked(<<f>>) BY <1>0, MarkedSteps DEF FramesInv
<1>2. IF f.to = 0 THEN f.type \in {"push", "error"} ELSE f.type = "reply"
  BY <1>1 DEF Marked
<1>3. ASSUME f.to # 0
      PROVE  /\ queue # <<>> /\ Head(queue).n = f.to
             /\ Head(queue).n = Answered + 1 /\ ~Head(queue).local
  <2>1. f.to \in Requests BY <1>1, <1>3, Sizes
  <2>2. Ordered(Requests, responses, fromServer, toServer) BY DEF FlightInv
  <2>3. \A n \in Requests :
           /\ InFlight(n) <=> f.to = n \/ Flying(Tail(responses), fromServer, toServer, n)
           /\ Flying(Tail(responses), fromServer, toServer, n) => f.to < n
    BY <1>0, <1>3, <2>2, Sizes, FlyingTake DEF InFlight
  <2>4. Expected(queue, f.to) BY <2>1, <2>3 DEF FlightInv
  <2>5. PICK j \in 1..Len(queue) : queue[j].n = f.to /\ ~queue[j].local
    BY <2>4 DEF Expected
  <2>6. queue # <<>> /\ 1 \in 1..Len(queue) /\ Head(queue) = queue[1]
    BY <1>0, <2>5
  <2>7. ~queue[1].local BY <2>6 DEF Flushable
  <2>8. queue[1].n = Answered + 1 /\ queue[j].n = Answered + j
        /\ read >= Answered + Len(queue)
    BY <2>5, <2>6, Sizes DEF PlacesInv
  <2>9. queue[1].n \in Requests BY <1>0, <2>6, Sizes
  <2>10. Expected(queue, queue[1].n) BY <2>6, <2>7 DEF Expected
  <2>11. ASSUME j # 1 PROVE FALSE
    <3>1. queue[1].n < f.to /\ queue[1].n # read
      BY <2>5, <2>8, <2>11, Sizes
    <3>2. InFlight(queue[1].n) BY <2>9, <2>10, <3>1 DEF FlightInv
    <3>3. f.to < queue[1].n BY <2>3, <2>9, <3>1, <3>2, Sizes
    <3> QED BY <2>1, <2>9, <3>1, <3>3, Sizes
  <2> QED BY <2>5, <2>6, <2>7, <2>8, <2>11
<1> QED BY <1>2, <1>3

(***************************************************************************)
(* Every step keeps the frames marked, when the server pushes nothing but  *)
(* push frames.                                                            *)
(***************************************************************************)
LEMMA FramesStep ==
    ASSUME PushTypes \subseteq {"push"}, TypeInv, FramesInv, [Next]_vars
    PROVE  FramesInv'
<1>0. fromServer \in Seq(Frames) /\ responses \in Seq(Frames) BY DEF TypeInv
<1>a. ASSUME UNCHANGED <<fromServer, responses>> PROVE FramesInv'
  BY <1>a DEF FramesInv
<1> USE DEF client, net, seen
<1>1. CASE ReadRequest
  BY <1>1, <1>a DEF ReadRequest
<1>2. CASE Offer
  BY <1>2, <1>a DEF Offer
<1>3. CASE Forward
  BY <1>3, <1>a DEF Forward
<1>4. CASE ReaderFails
  BY <1>4, <1>a DEF ReaderFails
<1>5. CASE ReaderDone
  BY <1>5, <1>a DEF ReaderDone
<1>6. CASE ReadResponse
  <2>1. /\ Head(fromServer) \in Frames /\ Marked(<<Head(fromServer)>>)
        /\ Marked(Tail(fromServer))
    BY <1>6, <1>0, MarkedSteps DEF ReadResponse, FramesInv
  <2>2. Marked(Append(responses, Head(fromServer)))
    BY <1>0, <2>1, MarkedSteps DEF FramesInv
  <2> QED BY <1>6, <2>1, <2>2 DEF ReadResponse, FramesInv
<1>7. CASE ResponderFails
  <2>1. Frame(0, "error") \in Frames /\ Marked(<<Frame(0, "error")>>)
    BY DEF Frame, Frames, Marked
  <2>2. Marked(Append(responses, Frame(0, "error")))
    BY <1>0, <2>1, MarkedSteps DEF FramesInv
  <2> QED BY <1>7, <2>2 DEF ResponderFails, FramesInv
<1>8. CASE ResponderDone
  BY <1>8, <1>a DEF ResponderDone
<1>9. CASE Authenticate
  BY <1>9, <1>a DEF Authenticate
<1>10. CASE AuthenticateFails
  BY <1>10, <1>a DEF AuthenticateFails
<1>11. CASE Dial
  BY <1>11, <1>a DEF Dial
<1>12. CASE DialFails
  BY <1>12, <1>a DEF DialFails
<1>13. CASE Flush
  BY <1>13, <1>a DEF Flush
<1>14. CASE Accept
  BY <1>14, <1>a DEF Accept
<1>15. CASE Respond
  <2>1. Marked(Tail(responses)) BY <1>15, <1>0, MarkedSteps DEF Respond, FramesInv
  <2> QED BY <1>15, <2>1 DEF Respond, FramesInv
<1>16. CASE Stop
  BY <1>16, <1>a DEF Stop, Close
<1>17. CASE WriteFails
  BY <1>17, <1>a DEF WriteFails, Close
<1>18. CASE ServerAnswers
  <2> DEFINE e == Frame(Head(toServer), "reply")
  <2>1. Head(toServer) \in Requests BY <1>18 DEF ServerAnswers, TypeInv
  <2>2. Head(toServer) # 0 BY <2>1, Sizes
  <2>3. e \in Frames /\ Marked(<<e>>) BY <2>1, <2>2 DEF Frame, Frames, Marked
  <2>4. Marked(Append(fromServer, e)) BY <1>0, <2>3, MarkedSteps DEF FramesInv
  <2> QED BY <1>18, <2>4 DEF ServerAnswers, FramesInv
<1>19. CASE ServerPushes
  <2>1. fromServer' = Append(fromServer, Frame(0, "push"))
    BY <1>19 DEF ServerPushes
  <2>2. Frame(0, "push") \in Frames /\ Marked(<<Frame(0, "push")>>)
    BY DEF Frame, Frames, Marked
  <2>3. Marked(Append(fromServer, Frame(0, "push")))
    BY <1>0, <2>2, MarkedSteps DEF FramesInv
  <2> QED BY <1>19, <2>1, <2>3 DEF ServerPushes, FramesInv
<1>20. CASE Cancel
  BY <1>20, <1>a DEF Cancel
<1>22. CASE WriteBlocks
  BY <1>22, <1>a DEF WriteBlocks
<1>21. CASE UNCHANGED vars BY <1>21, <1>a DEF vars
<1> QED
  BY <1>1, <1>2, <1>3, <1>4, <1>5, <1>6, <1>7, <1>8, <1>9, <1>10, <1>11, <1>12, <1>13, <1>14, <1>15, <1>16, <1>17, <1>18, <1>19, <1>20, <1>21, <1>22
     DEF Next, Reader, Responder, Main

(***************************************************************************)
(* A frame the client is sent is recorded with the request it answers, and *)
(* it is the next answer or a push.                                        *)
(***************************************************************************)
Emits ==
    \/ UNCHANGED <<out, recorded>>
    \/ \E e \in Frames :
          /\ out' = Append(out, e)
          /\ recorded' = Append(recorded, [req |-> e.to, to |-> e.to])
          /\ e.to # 0 => e.to = Answered + 1

(* Every step sends the client what its place in the queue allows. *)
LEMMA EmitStep ==
    ASSUME TypeInv, PlacesInv, FlightInv, FramesInv, [Next]_vars
    PROVE  Emits
<1>a. ASSUME UNCHANGED <<out, recorded>> PROVE Emits BY <1>a DEF Emits
<1>b. ASSUME NEW n \in Requests, n = Answered + 1, AnswerLocally(n) PROVE Emits
  <2>1. Frame(n, "reply") \in Frames /\ Frame(n, "reply").to = n
    BY DEF Frame, Frames
  <2> QED BY <1>b, <2>1 DEF Emits, AnswerLocally
<1> USE DEF client, net, seen
<1>1. CASE ReadRequest
  BY <1>1, <1>a DEF ReadRequest
<1>2. CASE Offer
  BY <1>2, <1>a DEF Offer
<1>3. CASE Forward
  BY <1>3, <1>a DEF Forward
<1>4. CASE ReaderFails
  BY <1>4, <1>a DEF ReaderFails
<1>5. CASE ReaderDone
  BY <1>5, <1>a DEF ReaderDone
<1>6. CASE ReadResponse
  BY <1>6, <1>a DEF ReadResponse
<1>7. CASE ResponderFails
  BY <1>7, <1>a DEF ResponderFails
<1>8. CASE ResponderDone
  BY <1>8, <1>a DEF ResponderDone
<1>9. CASE Authenticate
  <2>1. read + 1 \in Requests BY <1>9, Sizes DEF Authenticate
  <2>2. read = Answered BY <1>9, Sizes DEF Authenticate, PlacesInv
  <2>3. UNCHANGED seen \/ AnswerLocally(read + 1) BY <1>9 DEF Authenticate
  <2> QED BY <1>a, <1>b, <2>1, <2>2, <2>3
<1>10. CASE AuthenticateFails
  BY <1>10, <1>a DEF AuthenticateFails
<1>11. CASE Dial
  BY <1>11, <1>a DEF Dial
<1>12. CASE DialFails
  BY <1>12, <1>a DEF DialFails
<1>13. CASE Flush
  <2>1. queue \in Seq(Pair) /\ queue # <<>> BY <1>13 DEF Flush, Flushable, TypeInv
  <2>2. Head(queue) \in Pair /\ Head(queue) = queue[1] /\ 1 \in 1..Len(queue)
    BY <2>1
  <2>3. Head(queue).n \in Requests BY <2>2, Sizes
  <2>4. Head(queue).n = Answered + 1 BY <1>13, <2>2 DEF Flush, PlacesInv
  <2> QED BY <1>13, <1>b, <2>3, <2>4 DEF Flush
<1>14. CASE Accept
  BY <1>14, <1>a DEF Accept
<1>15. CASE Respond
  <2> DEFINE e == Head(responses)
  <2>1. /\ responses # <<>> /\ e.type # "error" /\ phase = "relay" /\ ~Flushable
        /\ out' = Append(out, e)
        /\ recorded' = Append(recorded, [req |-> IF Unsolicited(e) THEN 0
                                                 ELSE Head(queue).n, to |-> e.to])
    BY <1>15 DEF Respond, Selecting
  <2>2. e \in Frames BY <2>1 DEF TypeInv
  <2>3. /\ e.to = 0 => Unsolicited(e)
        /\ e.to # 0 => ~Unsolicited(e) /\ Head(queue).n = e.to /\ e.to = Answered + 1
    BY <2>1, HeadIsAnswered DEF Unsolicited
  <2> HIDE DEF e
  <2>4. recorded' = Append(recorded, [req |-> e.to, to |-> e.to]) BY <2>1, <2>3
  <2> QED BY <2>1, <2>2, <2>3, <2>4 DEF Emits
<1>16. CASE Stop
  BY <1>16, <1>a DEF Stop, Close
<1>17. CASE WriteFails
  BY <1>17, <1>a DEF WriteFails, Close
<1>18. CASE ServerAnswers
  BY <1>18, <1>a DEF ServerAnswers
<1>19. CASE ServerPushes
  BY <1>19, <1>a DEF ServerPushes
<1>20. CASE Cancel
  BY <1>20, <1>a DEF Cancel
<1>22. CASE WriteBlocks
  BY <1>22, <1>a DEF WriteBlocks
<1>21. CASE UNCHANGED vars BY <1>21, <1>a DEF vars
<1> QED
  BY <1>1, <1>2, <1>3, <1>4, <1>5, <1>6, <1>7, <1>8, <1>9, <1>10, <1>11, <1>12, <1>13, <1>14, <1>15, <1>16, <1>17, <1>18, <1>19, <1>20, <1>21, <1>22
     DEF Next, Reader, Responder, Main

(* Such a step keeps the answers in order and the observations paired. *)
LEMMA EmitKeeps ==
    ASSUME TypeInv, AnswersInOrder, Correlated, Emits
    PROVE  AnswersInOrder' /\ Correlated'
<1>1. CASE UNCHANGED <<out, recorded>>
  BY <1>1 DEF AnswersInOrder, AnswersIn, Correlated
<1>2. CASE ~UNCHANGED <<out, recorded>>
  <2>1. PICK e \in Frames :
          /\ out' = Append(out, e)
          /\ recorded' = Append(recorded, [req |-> e.to, to |-> e.to])
          /\ e.to # 0 => e.to = Answered + 1
    BY <1>2 DEF Emits
  <2>2. AnswersInOrder' BY <2>1, NextAnswer
  <2> DEFINE Note == [req : Requests \cup {0}, to : Requests \cup {0}]
             x == [req |-> e.to, to |-> e.to]
  <2>3. recorded \in Seq(Note) /\ x \in Note BY Sizes DEF TypeInv
  <2>4. x.req = x.to OBVIOUS
  <2> HIDE DEF Note, x
  <2>5. recorded' = Append(recorded, x) BY <2>1 DEF x
  <2>6. /\ Len(recorded') = Len(recorded) + 1 /\ Len(recorded) \in Nat
        /\ \A i \in 1..Len(recorded) : recorded'[i] = recorded[i]
        /\ recorded'[Len(recorded) + 1] = x
    BY <2>3, <2>5, SeqSteps
  <2>7. Correlated' BY <2>4, <2>6 DEF Correlated
  <2> QED BY <2>2, <2>7
<1> QED BY <1>1, <1>2

(* Every step keeps the places of the requests. *)
LEMMA PlacesStep ==
    ASSUME TypeInv, PlacesInv, FlightInv, FramesInv, AnswersInOrder, [Next]_vars
    PROVE  PlacesInv'
<1>0. /\ Answered \in Nat /\ Len(queue) \in Nat /\ Len(commands) \in Nat
      /\ read \in Nat /\ accepted \in Nat
      /\ queue \in Seq(Pair) /\ commands \in Seq(Pair)
  BY Sizes DEF TypeInv
<1>a. ASSUME phase' = "closed" PROVE PlacesInv' BY <1>a DEF PlacesInv
<1>b. out' = out => Answered' = Answered BY DEF Answered
<1>c. ASSUME UNCHANGED <<phase, reader, commands, queue, accepted, read, out>>,
             phase = "relay" \/ UNCHANGED <<net, responses, responder>>
      PROVE  PlacesInv'
  BY <1>b, <1>c DEF PlacesInv, net
<1>d. \A pc : LET r == [reader EXCEPT !.pc = pc] IN r.pc = pc /\ r.n = reader.n
  BY DEF TypeInv
<1>h. ASSUME phase = "relay", phase' = "relay",
             UNCHANGED <<reader, commands, accepted, read>>,
             Answered' + Len(queue') = Answered + Len(queue),
             \A i \in 1..Len(queue') : queue'[i].n = Answered' + i
      PROVE  PlacesInv'
  BY <1>h DEF PlacesInv
<1>e. fromServer # <<>> \/ toServer # <<>> => phase \in {"relay", "closed"}
  BY DEF PlacesInv, TypeInv
<1>f. responder => phase \in {"relay", "closed"} BY DEF PlacesInv, TypeInv
<1>g. reader.pc \in {"read", "await"} => phase \in {"relay", "closed"}
  BY DEF PlacesInv, TypeInv
<1> USE DEF client, net, seen
<1>1. CASE ReadRequest
  <2>1. phase = "relay" /\ phase' = "relay" BY <1>1, <1>g DEF ReadRequest, Done
  <2>2. /\ reader'.pc = "offer" /\ reader'.n = read + 1 /\ read' = read + 1
        /\ reader.pc = "read" /\ out' = out
        /\ UNCHANGED <<commands, queue, accepted>>
    BY <1>1 DEF ReadRequest
  <2>3. commands = <<>> /\ read = Answered + Len(queue)
    BY <1>0, <2>1, <2>2 DEF PlacesInv
  <2> QED BY <1>0, <1>b, <2>1, <2>2, <2>3 DEF PlacesInv
<1>2. CASE Offer
  <2>1. /\ phase = "relay" /\ phase' = "relay" /\ reader.pc = "offer"
        /\ reader'.pc = "await" /\ reader'.n = reader.n /\ out' = out
        /\ UNCHANGED <<queue, accepted, read>>
    BY <1>2, <1>d DEF Offer
  <2>2. /\ commands = <<>> /\ read = Answered + Len(queue) + 1 /\ reader.n = read
    BY <1>0, <2>1 DEF PlacesInv
  <2>3. /\ Len(commands') = 1 /\ commands'[1].n = reader.n
    BY <1>2, <2>2 DEF Offer
  <2> QED BY <1>0, <1>b, <2>1, <2>2, <2>3 DEF PlacesInv
<1>3. CASE Forward
  <2>1. /\ phase = "relay" /\ phase' = "relay" /\ reader.pc = "await"
        /\ reader'.pc = "read" /\ accepted = reader.n /\ out' = out
        /\ UNCHANGED <<queue, accepted, read, commands, fromServer, responses>>
    BY <1>3, <1>d, <1>g DEF Forward, Done, Awaited
  <2>2. Len(commands) = 0 BY <1>0, <2>1 DEF PlacesInv
  <2>3. commands = <<>> BY <1>0, <2>2
  <2> QED BY <1>0, <1>b, <2>1, <2>2, <2>3 DEF PlacesInv
<1>4. CASE ReaderFails
  <2>1. /\ phase = "relay" /\ phase' = "relay"
        /\ reader'.pc = "none" /\ out' = out
        /\ reader.pc = "read" \/ (reader.pc = "await" /\ accepted = reader.n)
        /\ UNCHANGED <<queue, accepted, read, commands>>
    BY <1>4, <1>d, <1>g DEF ReaderFails, Done, Awaited
  <2>2. Len(commands) = 0 BY <1>0, <2>1 DEF PlacesInv
  <2>3. commands = <<>> BY <1>0, <2>2
  <2> QED BY <1>0, <1>b, <2>1, <2>2, <2>3 DEF PlacesInv
<1>5. CASE ReaderDone
  BY <1>5, <1>a DEF ReaderDone, Done
<1>6. CASE ReadResponse
  <2>1. CASE phase = "closed" BY <1>6, <1>a, <2>1 DEF ReadResponse
  <2>2. CASE phase = "relay" BY <1>6, <1>c, <2>2 DEF ReadResponse
  <2> QED BY <1>6, <1>e, <2>1, <2>2 DEF ReadResponse
<1>7. CASE ResponderFails
  BY <1>7, <1>c, <1>f DEF ResponderFails, Done
<1>8. CASE ResponderDone
  BY <1>8, <1>a DEF ResponderDone, Done
<1>9. CASE Authenticate
  <2> DEFINE n == read + 1
  <2>1. /\ phase = "auth" /\ reader.pc = "none" /\ read' = n
        /\ commands = <<>> /\ queue = <<>> /\ accepted = 0
        /\ toServer = <<>> /\ fromServer = <<>> /\ responses = <<>> /\ ~responder
        /\ UNCHANGED <<commands, accepted, queue, net, responses, responder>>
    BY <1>9 DEF Authenticate, PlacesInv
  <2>2. read = Answered /\ Len(queue) = 0 /\ Len(commands) = 0
    BY <1>0, <2>1 DEF PlacesInv
  <2>3. CASE Forwards(script[n], authed)
    <3>1. /\ phase' = "dial" /\ out' = out
          /\ reader' = [pc |-> "offer", n |-> n, local |-> FALSE]
      BY <1>9, <2>3 DEF Authenticate
    <3>2. reader'.pc = "offer" /\ reader'.n = n BY <3>1
    <3> QED BY <1>0, <1>b, <2>1, <2>2, <3>1, <3>2 DEF PlacesInv
  <2>4. CASE ~Forwards(script[n], authed)
    <3>1. /\ phase' \in {"auth", "dial"} /\ out' = Append(out, Frame(n, "reply"))
          /\ reader' = reader
      BY <1>9, <2>4 DEF Authenticate, AnswerLocally
    <3>2. n \in Requests BY <1>9, Sizes DEF Authenticate
    <3>3. Frame(n, "reply") \in Frames /\ Frame(n, "reply").to = n /\ n # 0
      BY <1>0, <3>2 DEF Frame, Frames
    <3>4. Answered' = Answered + 1 BY <2>2, <3>1, <3>3, NextAnswer
    <3> QED BY <1>0, <2>1, <2>2, <3>1, <3>4 DEF PlacesInv
  <2> QED BY <2>3, <2>4
<1>10. CASE AuthenticateFails
  BY <1>10, <1>a DEF AuthenticateFails
<1>11. CASE Dial
  <2>1. /\ phase = "dial" /\ phase' = "relay"
        /\ commands = <<>> /\ queue = <<>> /\ accepted = 0
        /\ reader.pc \in {"none", "offer"} /\ out' = out
        /\ UNCHANGED <<commands, queue, accepted, read>>
    BY <1>11 DEF Dial, PlacesInv
  <2>2. \/ reader.pc = "offer" /\ reader' = reader
        \/ reader.pc = "none" /\ reader'.pc = "read"
    BY <1>11, <1>d, <2>1 DEF Dial
  <2> QED BY <1>0, <1>b, <2>1, <2>2 DEF PlacesInv
<1>12. CASE DialFails
  BY <1>12, <1>a DEF DialFails
<1>13. CASE Flush
  <2> DEFINE n == Head(queue).n
  <2>1. /\ phase = "relay" /\ phase' = "relay" /\ queue # <<>>
        /\ queue' = Tail(queue) /\ UNCHANGED <<reader, commands, accepted, read>>
        /\ out' = Append(out, Frame(n, "reply"))
    BY <1>13 DEF Flush, Flushable, AnswerLocally
  <2>2. /\ Len(queue) >= 1 /\ Len(queue') = Len(queue) - 1 /\ Head(queue) = queue[1]
        /\ \A i \in 1..(Len(queue) - 1) : queue'[i] = queue[i + 1]
        /\ Head(queue) \in Pair /\ 1 \in 1..Len(queue)
    BY <1>0, <2>1
  <2>3. n \in Requests /\ n # 0 BY <2>2, Sizes
  <2>4. n = Answered + 1 BY <2>1, <2>2 DEF PlacesInv
  <2>5. Frame(n, "reply") \in Frames /\ Frame(n, "reply").to = n
    BY <2>3 DEF Frame, Frames
  <2>6. Answered' = Answered + 1 BY <2>1, <2>3, <2>4, <2>5, NextAnswer
  <2>7. \A i \in 1..Len(queue') : queue'[i].n = Answered + 1 + i
    <3>1. \A i \in 1..Len(queue') : i + 1 \in 1..Len(queue) BY <1>0, <2>2
    <3> QED BY <1>0, <2>1, <2>2, <3>1 DEF PlacesInv
  <2>8. Answered' + Len(queue') = Answered + Len(queue) BY <1>0, <2>2, <2>6
  <2>9. \A i \in 1..Len(queue') : queue'[i].n = Answered' + i BY <2>6, <2>7
  <2> QED BY <1>h, <2>1, <2>8, <2>9
<1>14. CASE Accept
  <2> DEFINE c == Head(commands)
  <2>1. /\ phase = "relay" /\ phase' = "relay" /\ commands # <<>>
        /\ queue' = Append(queue, c) /\ commands' = Tail(commands)
        /\ accepted' = c.n /\ out' = out /\ UNCHANGED <<reader, read>>
    BY <1>14 DEF Accept, Enqueued, Selecting
  <2>2. /\ reader.pc = "await" /\ Len(commands) = 1 /\ c = commands[1]
        /\ c.n = Answered + Len(queue) + 1 /\ commands' = <<>> /\ c \in Pair
    <3>1. reader.pc = "await" BY <2>1 DEF PlacesInv
    <3>0. Len(commands) <= 1 BY <2>1 DEF PlacesInv
    <3>a. commands \in Seq(Pair) /\ commands # <<>> BY <1>0, <2>1
    <3>b. Len(commands) >= 1 BY <3>a
    <3>c. c = commands[1] /\ c \in Pair BY <3>a
    <3>2. Len(commands) = 1 /\ c = commands[1] /\ c \in Pair
      <4>1. Len(commands) \in Nat BY <3>a
      <4>2. \A m \in Nat : m <= 1 /\ m >= 1 => m = 1 OBVIOUS
      <4>3. Len(commands) = 1 BY <3>0, <3>b, <4>1, <4>2, Zenon
      <4> QED BY <3>c, <4>3
    <3>3. c.n = Answered + Len(queue) + 1 BY <2>1, <3>2 DEF PlacesInv
    <3>4. Tail(commands) \in Seq(Pair) /\ Len(Tail(commands)) = Len(commands) - 1
      BY <3>a
    <3>d. Len(Tail(commands)) = 0 BY <3>2, <3>4
    <3>5. commands' = <<>> BY <2>1, <3>4, <3>d
    <3> QED BY <3>1, <3>2, <3>3, <3>5
  <2> HIDE DEF c
  <2>3. /\ Len(queue') = Len(queue) + 1
        /\ \A i \in 1..Len(queue) : queue'[i] = queue[i]
        /\ queue'[Len(queue) + 1] = c
    BY <1>0, <2>1, <2>2, SeqSteps
  <2>4. \A i \in 1..Len(queue') : queue'[i].n = Answered + i
    <3>1. \A i \in 1..Len(queue) : queue[i].n = Answered + i BY <2>1 DEF PlacesInv
    <3>2. \A i \in 1..Len(queue') : i \in 1..Len(queue) \/ i = Len(queue) + 1
      BY <1>0, <2>3
    <3>3. queue'[Len(queue) + 1].n = Answered + (Len(queue) + 1)
      BY <1>0, <2>2, <2>3
    <3> QED BY <2>3, <3>1, <3>2, <3>3, Zenon
  <2>5. read = Answered + Len(queue) + 1 /\ reader.n = read
    BY <1>0, <2>1, <2>2 DEF PlacesInv
  <2>6. Len(commands') = 0 /\ Answered' = Answered BY <1>b, <2>1, <2>2
  <2>7. /\ read = Answered' + Len(queue') + Len(commands')
        /\ accepted' <= Answered' + Len(queue')
    <3>1. Answered \in Nat /\ Len(queue) \in Nat BY <1>0
    <3>2. Len(queue') = Len(queue) + 1 BY <2>3
    <3>3. accepted' = Answered + Len(queue) + 1 BY <2>1, <2>2
    <3> QED BY <2>5, <2>6, <3>1, <3>2, <3>3
  <2> QED BY <2>1, <2>2, <2>4, <2>5, <2>6, <2>7 DEF PlacesInv
<1>15. CASE Respond
  <2> DEFINE e == Head(responses)
  <2>1. /\ responses # <<>> /\ e.type # "error" /\ phase = "relay" /\ ~Flushable
        /\ out' = Append(out, e) /\ phase' = "relay"
        /\ queue' = IF Unsolicited(e) THEN queue ELSE Tail(queue)
        /\ UNCHANGED <<reader, commands, accepted, read>>
    BY <1>15 DEF Respond, Selecting
  <2>2. e \in Frames BY <2>1 DEF TypeInv
  <2>3. CASE e.to = 0
    <3>1. Unsolicited(e) BY <2>1, <2>3, HeadIsAnswered DEF Unsolicited
    <3>2. Answered' = Answered BY <2>1, <2>2, <2>3, NextAnswer
    <3> QED BY <2>1, <3>1, <3>2 DEF PlacesInv
  <2>4. CASE e.to # 0
    <3>1. ~Unsolicited(e) /\ queue # <<>> /\ e.to = Answered + 1
      BY <2>1, <2>4, HeadIsAnswered DEF Unsolicited
    <3>2. Answered' = Answered + 1 BY <2>1, <2>2, <2>4, <3>1, NextAnswer
    <3>3. /\ Len(queue) >= 1 /\ Len(queue') = Len(queue) - 1
          /\ \A i \in 1..(Len(queue) - 1) : queue'[i] = queue[i + 1]
      BY <1>0, <2>1, <3>1
    <3>4. \A i \in 1..Len(queue') : queue'[i].n = Answered + 1 + i
      <4>1. \A i \in 1..Len(queue') : i + 1 \in 1..Len(queue) BY <1>0, <3>3
      <4> QED BY <1>0, <2>1, <3>3, <4>1 DEF PlacesInv
    <3>5. Answered' + Len(queue') = Answered + Len(queue) BY <1>0, <3>2, <3>3
    <3>6. \A i \in 1..Len(queue') : queue'[i].n = Answered' + i BY <3>2, <3>4
    <3> QED BY <1>h, <2>1, <3>5, <3>6
  <2> QED BY <2>3, <2>4
<1>16. CASE Stop
  BY <1>16, <1>a DEF Stop, Close
<1>17. CASE WriteFails
  BY <1>17, <1>a DEF WriteFails, Close
<1>18. CASE ServerAnswers
  <2>1. CASE phase = "closed" BY <1>18, <1>a, <2>1 DEF ServerAnswers
  <2>2. CASE phase = "relay" BY <1>18, <1>c, <2>2 DEF ServerAnswers
  <2> QED BY <1>18, <1>e, <2>1, <2>2 DEF ServerAnswers
<1>19. CASE ServerPushes
  BY <1>19, <1>c DEF ServerPushes
<1>20. CASE Cancel
  BY <1>20, <1>c DEF Cancel
<1>22. CASE WriteBlocks
  BY <1>22, <1>c DEF WriteBlocks
<1>21. CASE UNCHANGED vars BY <1>21, <1>c DEF vars
<1> QED
  BY <1>1, <1>2, <1>3, <1>4, <1>5, <1>6, <1>7, <1>8, <1>9, <1>10, <1>11, <1>12, <1>13, <1>14, <1>15, <1>16, <1>17, <1>18, <1>19, <1>20, <1>21, <1>22
     DEF Next, Reader, Responder, Main

-----------------------------------------------------------------------------
(* Nothing is expected while nothing is queued and nothing flies. *)
LEMMA FlightEmpty ==
    ASSUME queue = <<>>, responses = <<>>, fromServer = <<>>, toServer = <<>>,
           reader.pc # "await"
    PROVE  FlightInv
<1>1. /\ Len(queue) = 0 /\ Len(responses) = 0 /\ Len(fromServer) = 0
      /\ Len(toServer) = 0
  OBVIOUS
<1>2. \A n : ~InFlight(n) /\ ~Expected(queue, n)
  BY <1>1 DEF InFlight, Flying, Carries, Sent, Expected
<1>3. Ordered(Requests, responses, fromServer, toServer)
  BY <1>1 DEF Ordered, Rising, RisingSent, Below, BelowSent, Carries, Sent
<1> QED BY <1>2, <1>3 DEF FlightInv

(* Queues that are empty after a step agree: nothing is in flight. *)
LEMMA FlightEmptyNext ==
    ASSUME queue' = <<>>, responses' = <<>>, fromServer' = <<>>, toServer' = <<>>,
           reader'.pc # "await"
    PROVE  FlightInv'
<1>1. /\ Len(queue') = 0 /\ Len(responses') = 0 /\ Len(fromServer') = 0
      /\ Len(toServer') = 0
  OBVIOUS
<1>2. \A n : ~InFlight(n)' /\ ~Expected(queue', n)
  BY <1>1 DEF InFlight, Flying, Carries, Sent, Expected
<1>3. Ordered(Requests', responses', fromServer', toServer')
  BY <1>1 DEF Ordered, Rising, RisingSent, Below, BelowSent, Carries, Sent
<1> QED BY <1>2, <1>3 DEF FlightInv

(* Every step keeps what is in flight in its order. *)
LEMMA FlightStep ==
    ASSUME PushTypes \subseteq {"push"}, TypeInv, PlacesInv, FlightInv, FramesInv,
           [Next]_vars
    PROVE  FlightInv'
<1>0. /\ queue \in Seq(Pair) /\ commands \in Seq(Pair)
      /\ responses \in Seq(Frames) /\ fromServer \in Seq(Frames)
      /\ toServer \in Seq(Requests)
  BY DEF TypeInv
<1>1a. Requests' = Requests BY ConfigStep DEF Requests
<1>2a. /\ Requests \subseteq Nat \ {0}
       /\ \A e \in Frames : e.to \in Requests \cup {0}
       /\ Answered \in Nat /\ Len(queue) \in Nat /\ Len(commands) \in Nat
       /\ read \in Nat
  BY Sizes
<1>a. ASSUME phase' = "closed" PROVE FlightInv' BY <1>a DEF FlightInv
<1>b. ASSUME UNCHANGED <<phase, reader, commands, queue, read>>,
             phase # "closed" =>
                /\ Ordered(Requests, responses', fromServer', toServer')
                /\ \A n \in Requests :
                      Flying(responses', fromServer', toServer', n) <=> InFlight(n)
      PROVE  FlightInv'
  <2> SUFFICES ASSUME phase # "closed" PROVE FlightInv' BY <1>b DEF FlightInv
  <2>1. \A n \in Requests : InFlight(n)' <=> InFlight(n) BY <1>b DEF InFlight
  <2>2. reader.pc = "await" => reader.n \in Requests
    BY Sizes DEF TypeInv
  <2> QED BY <1>1a, <1>b, <2>1, <2>2 DEF FlightInv
<1>c. ASSUME UNCHANGED <<phase, reader, commands, queue, read, net, responses>>
      PROVE  FlightInv'
  BY <1>1a, <1>c DEF FlightInv, InFlight, net
<1>d. \A pc : LET r == [reader EXCEPT !.pc = pc]
              IN  r.pc = pc /\ r.n = reader.n /\ r.local = reader.local
  BY DEF TypeInv
<1>e. reader.pc \in {"read", "await"} => phase \in {"relay", "closed"}
  BY DEF PlacesInv, TypeInv
<1>f. ASSUME phase # "closed" PROVE Ordered(Requests, responses, fromServer, toServer)
  BY <1>f DEF FlightInv
<1>g. ASSUME phase # "closed", reader.pc \in {"read", "offer"}
      PROVE  \A n \in Requests : Expected(queue, n) <=> InFlight(n)
  BY <1>g DEF FlightInv, Unwritten
<1>h. ASSUME phase # "closed", NEW n, Expected(queue, n)
      PROVE  n >= Answered + 1 /\ n <= Answered + Len(queue) /\ n <= read /\ n \in Nat
  <2>1. PICK j \in 1..Len(queue) : queue[j].n = n BY <1>h DEF Expected
  <2>2. n = Answered + j /\ read >= Answered + Len(queue)
    BY <1>2a, <1>h, <2>1 DEF PlacesInv
  <2> QED BY <1>2a, <2>1, <2>2
<1> USE DEF client, net, seen
<1>1. CASE ReadRequest
  <2>1. /\ phase' = phase /\ phase # "closed" /\ reader.pc = "read"
        /\ reader'.pc = "offer"
        /\ UNCHANGED <<commands, queue, net, responses>>
    BY <1>1 DEF ReadRequest, Done
  <2>2. \A n \in Requests : Expected(queue, n) <=> InFlight(n) BY <1>g, <2>1
  <2>3. \A n : InFlight(n)' <=> InFlight(n) BY <2>1 DEF InFlight
  <2> QED BY <1>1a, <1>f, <2>1, <2>2, <2>3 DEF FlightInv
<1>2. CASE Offer
  <2>1. /\ phase' = phase /\ phase # "closed" /\ reader.pc = "offer"
        /\ reader'.pc = "await" /\ reader'.n = reader.n /\ reader'.local = reader.local
        /\ UNCHANGED <<queue, net, responses, read>>
    BY <1>2, <1>d DEF Offer
  <2>2. \A n \in Requests : Expected(queue, n) <=> InFlight(n) BY <1>g, <2>1
  <2>3. \A n : InFlight(n)' <=> InFlight(n) BY <2>1 DEF InFlight
  <2>4. /\ commands = <<>> /\ reader.n = read /\ read = Answered + Len(queue) + 1
        /\ \A i \in 1..Len(queue) : queue[i].n = Answered + i
    BY <2>1 DEF PlacesInv
  <2>5. reader.n \in Requests BY <2>1, Sizes DEF TypeInv
  <2>6. ~Expected(queue, reader.n) BY <1>2a, <1>h, <2>1, <2>4
  <2>7. /\ Len(commands') = 1 /\ commands'[1].local = reader.local
        /\ commands' # <<>>
    BY <1>2, <2>4 DEF Offer
  <2>8. \A i \in 1..Len(queue) : queue[i].n # reader.n BY <1>2a, <2>4
  <2> QED BY <1>1a, <1>f, <2>1, <2>2, <2>3, <2>5, <2>6, <2>7, <2>8 DEF FlightInv
<1>3. CASE Forward
  <2>1. /\ phase' = phase /\ phase # "closed" /\ reader.pc = "await"
        /\ reader'.pc = "read" /\ accepted = reader.n
        /\ UNCHANGED <<queue, commands, responses, fromServer, read>>
    BY <1>3, <1>d DEF Forward, Done, Awaited
  <2>2. reader.n = read /\ reader.n \in Requests BY <2>1, Sizes DEF TypeInv, PlacesInv
  <2>3. CASE reader.local
    <3>1. toServer' = toServer BY <1>3, <2>3 DEF Forward
    <3>2. \A n : InFlight(n)' <=> InFlight(n) BY <2>1, <3>1 DEF InFlight
    <3>3. ~Expected(queue, reader.n) BY <2>1, <2>3 DEF FlightInv, Expected
    <3>4. \A n \in Requests : Expected(queue, n) => InFlight(n)
      BY <2>1, <2>2, <3>3 DEF FlightInv
    <3> QED BY <1>1a, <1>f, <2>1, <3>1, <3>2, <3>4 DEF FlightInv
  <2>4. CASE ~reader.local
    <3>1. toServer' = Append(toServer, reader.n) BY <1>3, <2>4 DEF Forward
    <3>2. Len(commands) = 0
      BY <1>2a, <2>1, <2>2 DEF PlacesInv
    <3>3. Expected(queue, reader.n) BY <1>0, <2>1, <2>4, <3>2 DEF FlightInv
    <3>4. \A n \in Requests : InFlight(n) => n < reader.n
      <4> SUFFICES ASSUME NEW n \in Requests, InFlight(n) PROVE n < reader.n
        OBVIOUS
      <4>1. n # reader.n BY <2>1 DEF FlightInv
      <4>2. Expected(queue, n) BY <2>1 DEF FlightInv
      <4>3. n <= read BY <1>h, <2>1, <4>2
      <4> QED BY <1>2a, <2>2, <4>1, <4>3
    <3>5. /\ Ordered(Requests, responses, fromServer, toServer')
          /\ \A n \in Requests : Flying(responses, fromServer, toServer', n) <=>
                                   n = reader.n \/ InFlight(n)
      <4>1. Ordered(Requests, responses, fromServer, toServer) BY <1>f, <2>1
      <4>2. \A n \in Requests :
               Flying(responses, fromServer, toServer, n) => n < reader.n
        BY <3>4 DEF InFlight
      <4>3. /\ Ordered(Requests, responses, fromServer, Append(toServer, reader.n))
            /\ \A n \in Requests :
                  Flying(responses, fromServer, Append(toServer, reader.n), n) <=>
                     n = reader.n \/ Flying(responses, fromServer, toServer, n)
        BY <1>0, <1>2a, <2>2, <4>1, <4>2, FlyingSend, Zenon
      <4> QED BY <3>1, <4>3 DEF InFlight
    <3>6. \A n \in Requests : InFlight(n)' <=> n = reader.n \/ InFlight(n)
      BY <2>1, <3>5 DEF InFlight
    <3>7. \A n \in Requests : /\ InFlight(n) => Expected(queue, n)
                              /\ Expected(queue, n) => InFlight(n) \/ n = read
      BY <2>1 DEF FlightInv
    <3> QED BY <1>1a, <2>1, <2>2, <3>3, <3>5, <3>6, <3>7 DEF FlightInv
  <2> QED BY <2>3, <2>4
<1>4. CASE ReaderFails
  <2>1. /\ phase' = phase /\ reader'.pc = "none" /\ phase # "closed"
        /\ UNCHANGED <<queue, commands, net, responses, read>>
    BY <1>4, <1>d DEF ReaderFails, Done
  <2>2. \A n : InFlight(n)' <=> InFlight(n) BY <2>1 DEF InFlight
  <2>3. Unwritten(reader') BY <2>1 DEF Unwritten
  <2> QED BY <1>1a, <1>f, <2>1, <2>2, <2>3 DEF FlightInv
<1>5. CASE ReaderDone
  BY <1>5, <1>a DEF ReaderDone, Done
<1>6. CASE ReadResponse
  <2>1. /\ UNCHANGED <<phase, reader, commands, queue, read, toServer>>
        /\ fromServer # <<>> /\ fromServer' = Tail(fromServer)
        /\ responses' = Append(responses, Head(fromServer))
    BY <1>6 DEF ReadResponse
  <2>2. phase # "closed" =>
           /\ Ordered(Requests, responses', fromServer', toServer')
           /\ \A n \in Requests :
                 Flying(responses', fromServer', toServer', n) <=> InFlight(n)
    BY <1>0, <1>2a, <1>f, <2>1, FlyingMove DEF InFlight
  <2> QED BY <1>b, <2>1, <2>2
<1>7. CASE ResponderFails
  <2>1. /\ UNCHANGED <<phase, reader, commands, queue, read, toServer, fromServer>>
        /\ responses' = Append(responses, Frame(0, "error"))
    BY <1>7 DEF ResponderFails
  <2> DEFINE e == Frame(0, "error")
  <2>2. e \in Frames /\ e.to = 0 BY DEF Frame, Frames
  <2> HIDE DEF e
  <2>3. ASSUME phase # "closed"
        PROVE  /\ Ordered(Requests, responses', fromServer', toServer')
               /\ \A n \in Requests :
                     Flying(responses', fromServer', toServer', n) <=> InFlight(n)
    <3>1. Ordered(Requests, responses, fromServer, toServer) BY <1>f, <2>3
    <3>2. /\ Ordered(Requests, Append(responses, e), fromServer, toServer)
          /\ \A n \in Requests :
                Flying(Append(responses, e), fromServer, toServer, n) <=>
                   Flying(responses, fromServer, toServer, n)
      BY <1>0, <1>2a, <2>2, <3>1, FlyingPush, Zenon
    <3>3. responses' = Append(responses, e) BY <2>1 DEF e
    <3> QED BY <2>1, <3>2, <3>3 DEF InFlight
  <2> QED BY <1>b, <2>1, <2>3
<1>8. CASE ResponderDone
  BY <1>8, <1>a DEF ResponderDone, Done
<1>9. CASE Authenticate
  <2>1. /\ phase = "auth" /\ reader.pc = "none"
        /\ queue = <<>> /\ responses = <<>> /\ fromServer = <<>> /\ toServer = <<>>
        /\ UNCHANGED <<queue, responses, net>>
    BY <1>9 DEF Authenticate, PlacesInv
  <2>2. reader'.pc # "await"
    <3>1. \/ reader' = [pc |-> "offer", n |-> read + 1, local |-> FALSE]
          \/ reader' = reader
      BY <1>9 DEF Authenticate
    <3> QED BY <2>1, <3>1
  <2>3. /\ queue' = <<>> /\ responses' = <<>> /\ fromServer' = <<>>
        /\ toServer' = <<>>
    BY <2>1
  <2> QED BY <2>2, <2>3, FlightEmptyNext
<1>10. CASE AuthenticateFails
  BY <1>10, <1>a DEF AuthenticateFails
<1>11. CASE Dial
  <2>1. /\ phase = "dial" /\ reader.pc \in {"none", "offer"}
        /\ queue = <<>> /\ responses = <<>> /\ fromServer = <<>> /\ toServer = <<>>
        /\ UNCHANGED <<queue, responses, net>>
    BY <1>11 DEF Dial, PlacesInv
  <2>2. reader'.pc # "await" BY <1>11, <1>d, <2>1 DEF Dial
  <2>3. /\ queue' = <<>> /\ responses' = <<>> /\ fromServer' = <<>>
        /\ toServer' = <<>>
    BY <2>1
  <2> QED BY <2>2, <2>3, FlightEmptyNext
<1>12. CASE DialFails
  BY <1>12, <1>a DEF DialFails
<1>13. CASE Flush
  <2>1. /\ phase = "relay" /\ phase' = "relay" /\ queue # <<>> /\ Head(queue).local
        /\ queue' = Tail(queue)
        /\ UNCHANGED <<reader, commands, read, net, responses>>
    BY <1>13 DEF Flush, Flushable
  <2>2. /\ Len(queue') = Len(queue) - 1
        /\ \A i \in 1..(Len(queue) - 1) : queue'[i] = queue[i + 1]
    BY <1>0, <2>1
  <2>3. \A n : Expected(queue', n) <=> Expected(queue, n)
    BY <1>0, <2>1, ExpectedHeadTail
  <2>4. \A n : InFlight(n)' <=> InFlight(n) BY <2>1 DEF InFlight
  <2>5. \A i \in 1..Len(queue') : i + 1 \in 1..Len(queue) BY <1>2a, <2>2
  <2>6. reader.pc = "await" => \A i \in 1..Len(queue') :
           queue'[i].n = reader.n => queue'[i].local = reader.local
    BY <2>1, <2>2, <2>5 DEF FlightInv
  <2> QED BY <1>1a, <2>1, <2>3, <2>4, <2>6 DEF FlightInv
<1>14. CASE Accept
  <2> DEFINE c == Head(commands)
  <2>1. /\ phase = "relay" /\ phase' = "relay" /\ commands # <<>>
        /\ queue' = Append(queue, c) /\ commands' = Tail(commands)
        /\ UNCHANGED <<reader, read, net, responses>>
    BY <1>14 DEF Accept, Enqueued, Selecting
  <2>2. reader.pc = "await" /\ reader.n = read BY <2>1 DEF PlacesInv
  <2>3. c = commands[1] /\ 1 \in 1..Len(commands) /\ c \in Pair
    <3>1. commands \in Seq(Pair) /\ commands # <<>> BY <1>0, <2>1
    <3>2. Len(commands) >= 1 BY <3>1
    <3>3. c = commands[1] /\ c \in Pair BY <3>1
    <3> QED BY <1>2a, <3>2, <3>3
  <2>4. Len(commands) = 1
    <3>1. Len(commands) <= 1 BY <2>1 DEF PlacesInv
    <3>2. \A k \in Nat : k <= 1 /\ 1 \in 1..k => k = 1 OBVIOUS
    <3> QED BY <1>2a, <2>3, <3>1, <3>2, Zenon
  <2>5. c.local = reader.local BY <2>1, <2>2, <2>3 DEF FlightInv
  <2>6. c.n = reader.n
    <3>1. c.n = Answered + Len(queue) + 1 BY <2>1, <2>3 DEF PlacesInv
    <3>2. read = Answered + Len(queue) + Len(commands) BY <2>1, <2>2 DEF PlacesInv
    <3>3. read = Answered + Len(queue) + 1 BY <2>4, <3>2
    <3> QED BY <2>2, <3>1, <3>3
  <2>7. Len(commands') = 0 BY <1>0, <2>1, <2>4
  <2> HIDE DEF c
  <2>8. /\ Len(queue') = Len(queue) + 1
        /\ \A i \in 1..Len(queue) : queue'[i] = queue[i]
        /\ queue'[Len(queue) + 1] = c
    BY <1>0, <2>1, <2>3, SeqSteps
  <2>9. \A n : Expected(queue', n) <=> Expected(queue, n) \/ (c.n = n /\ ~c.local)
    BY <1>0, <2>1, <2>3, ExpectedAppend
  <2>10. \A n : InFlight(n)' <=> InFlight(n) BY <2>1 DEF InFlight
  <2>11. \A n \in Requests : InFlight(n)' => Expected(queue', n)
    BY <2>1, <2>9, <2>10 DEF FlightInv
  <2>12. \A n \in Requests :
           Expected(queue', n) => InFlight(n)' \/ (n = read' /\ Unwritten(reader'))
    BY <2>1, <2>2, <2>6, <2>9, <2>10 DEF FlightInv, Unwritten
  <2>13. ~reader.local => Expected(queue', reader.n)
    BY <2>5, <2>6, <2>9, Zenon
  <2>14. \A i \in 1..Len(queue') :
           queue'[i].n = reader.n => queue'[i].local = reader.local
    <3>1. \A i \in 1..Len(queue') : i \in 1..Len(queue) \/ i = Len(queue) + 1
      BY <1>2a, <2>8
    <3>2. \A i \in 1..Len(queue) :
             queue[i].n = reader.n => queue[i].local = reader.local
      BY <2>1, <2>2 DEF FlightInv
    <3> QED BY <2>5, <2>8, <3>1, <3>2, Zenon
  <2>15. ~InFlight(reader.n)' BY <2>1, <2>2, <2>10 DEF FlightInv
  <2> QED BY <1>1a, <1>f, <2>1, <2>7, <2>11, <2>12, <2>13, <2>14, <2>15 DEF FlightInv
<1>15. CASE Respond
  <2> DEFINE e == Head(responses)
             Rest(n) == Flying(Tail(responses), fromServer, toServer, n)
  <2>1. /\ responses # <<>> /\ e.type # "error" /\ phase = "relay" /\ ~Flushable
        /\ phase' = "relay" /\ responses' = Tail(responses)
        /\ queue' = IF Unsolicited(e) THEN queue ELSE Tail(queue)
        /\ UNCHANGED <<reader, commands, read, net>>
    BY <1>15 DEF Respond, Selecting
  <2>2. e \in Frames BY <1>0, <2>1
  <2>3. /\ Ordered(Requests, Tail(responses), fromServer, toServer)
        /\ \A n \in Requests : /\ InFlight(n) <=> e.to = n \/ Rest(n)
                               /\ e.to # 0 /\ Rest(n) => e.to < n
    BY <1>0, <1>2a, <1>f, <2>1, FlyingTake DEF InFlight
  <2>4. \A n : InFlight(n)' <=> Rest(n) BY <2>1 DEF InFlight
  <2>5. CASE e.to = 0
    <3>1. Unsolicited(e) BY <2>1, <2>5, HeadIsAnswered DEF Unsolicited
    <3>2. \A n \in Requests : Rest(n) <=> InFlight(n) BY <1>2a, <2>3, <2>5
    <3> QED BY <1>b, <2>1, <2>3, <3>1, <3>2
  <2>6. CASE e.to # 0
    <3>1. /\ ~Unsolicited(e) /\ queue # <<>> /\ e.to = Head(queue).n
          /\ ~Head(queue).local
      BY <2>1, <2>6, HeadIsAnswered DEF Unsolicited
    <3>1a. e.to = Answered + 1 /\ e.to \in Requests
      BY <1>2a, <2>1, <2>2, <2>6, HeadIsAnswered
    <3>2. queue' = Tail(queue) BY <2>1, <3>1
    <3>3. /\ Len(queue') = Len(queue) - 1 /\ Head(queue) = queue[1]
          /\ Len(queue) >= 1
          /\ \A i \in 1..(Len(queue) - 1) : queue'[i] = queue[i + 1]
      BY <1>0, <3>1, <3>2
    <3>4. \A i \in 1..Len(queue') : i + 1 \in 1..Len(queue) BY <1>2a, <3>3
    <3>5. \A n : Expected(queue, n) <=> e.to = n \/ Expected(queue', n)
      BY <1>0, <3>1, <3>2, ExpectedHeadTail
    <3>6. ~Expected(queue', e.to)
      <4>1. \A i \in 1..Len(queue') : queue'[i].n = Answered + (i + 1)
        BY <2>1, <3>3, <3>4 DEF PlacesInv
      <4>2. \A i \in 1..Len(queue') : queue'[i].n # e.to BY <1>2a, <3>1a, <4>1
      <4> QED BY <4>2 DEF Expected
    <3> HIDE DEF e, Rest
    <3>7. ~Rest(e.to) BY <1>2a, <2>3, <2>6, <3>1a
    <3>8. \A n \in Requests : Rest(n) => Expected(queue', n)
      <4> SUFFICES ASSUME NEW n \in Requests, Rest(n) PROVE Expected(queue', n)
        OBVIOUS
      <4>1. n # e.to BY <3>7
      <4>2. Expected(queue, n) BY <2>1, <2>3 DEF FlightInv
      <4> QED BY <3>5, <4>1, <4>2
    <3>9. \A n \in Requests :
             Expected(queue', n) => Rest(n) \/ (n = read /\ Unwritten(reader))
      <4> SUFFICES ASSUME NEW n \in Requests, Expected(queue', n)
                   PROVE  Rest(n) \/ (n = read /\ Unwritten(reader))
        OBVIOUS
      <4>1. n # e.to BY <3>6
      <4>2. Expected(queue, n) BY <3>5
      <4> QED BY <2>1, <2>3, <4>1, <4>2 DEF FlightInv
    <3>10. ASSUME reader.pc = "await"
           PROVE  /\ ~Rest(reader.n)
                  /\ ~reader.local => Expected(queue', reader.n) \/ commands # <<>>
                  /\ \A i \in 1..Len(queue') :
                        queue'[i].n = reader.n => queue'[i].local = reader.local
      <4>1. reader.n \in Requests BY <3>10, Sizes DEF TypeInv
      <4>2. ~InFlight(reader.n) BY <2>1, <3>10 DEF FlightInv
      <4>3. ~Rest(reader.n) /\ reader.n # e.to BY <2>3, <3>1a, <4>1, <4>2
      <4>4. ~reader.local => Expected(queue, reader.n) \/ commands # <<>>
        BY <2>1, <3>10 DEF FlightInv
      <4>5. ~reader.local => Expected(queue', reader.n) \/ commands # <<>>
        BY <3>5, <4>3, <4>4
      <4>6. \A i \in 1..Len(queue') :
               queue'[i].n = reader.n => queue'[i].local = reader.local
        BY <2>1, <3>3, <3>4, <3>10 DEF FlightInv
      <4> QED BY <4>3, <4>5, <4>6
    <3>11. Ordered(Requests, responses', fromServer', toServer')
      BY <2>1, <2>3
    <3> QED BY <1>1a, <2>1, <2>4, <3>8, <3>9, <3>10, <3>11 DEF FlightInv
  <2> QED BY <2>5, <2>6
<1>16. CASE Stop
  BY <1>16, <1>a DEF Stop, Close
<1>17. CASE WriteFails
  BY <1>17, <1>a DEF WriteFails, Close
<1>18. CASE ServerAnswers
  <2> DEFINE e == Frame(Head(toServer), "reply")
  <2>1. /\ UNCHANGED <<phase, reader, commands, queue, read, responses>>
        /\ toServer # <<>> /\ toServer' = Tail(toServer)
        /\ fromServer' = Append(fromServer, e)
    BY <1>18 DEF ServerAnswers
  <2>2. Head(toServer) \in Requests BY <1>0, <2>1
  <2>3. e \in Frames /\ e.to = Head(toServer) BY <2>2 DEF Frame, Frames
  <2> HIDE DEF e
  <2>4. phase # "closed" =>
           /\ Ordered(Requests, responses', fromServer', toServer')
           /\ \A n \in Requests :
                 Flying(responses', fromServer', toServer', n) <=> InFlight(n)
    BY <1>0, <1>2a, <1>f, <2>1, <2>3, FlyingAnswer DEF InFlight
  <2> QED BY <1>b, <2>1, <2>4
<1>19. CASE ServerPushes
  <2>1. /\ UNCHANGED <<phase, reader, commands, queue, read, toServer, responses>>
        /\ fromServer' = Append(fromServer, Frame(0, "push"))
    BY <1>19 DEF ServerPushes
  <2>2. Frame(0, "push") \in Frames /\ Frame(0, "push").to = 0 BY DEF Frame, Frames
  <2> DEFINE e == Frame(0, "push")
  <2> HIDE DEF e
  <2>e. e \in Frames /\ e.to = 0 /\ fromServer' = Append(fromServer, e)
    BY <2>1, <2>2 DEF e
  <2>3. phase # "closed" =>
           /\ Ordered(Requests, responses', fromServer', toServer')
           /\ \A n \in Requests :
                 Flying(responses', fromServer', toServer', n) <=> InFlight(n)
    <3> SUFFICES ASSUME phase # "closed"
                 PROVE  /\ Ordered(Requests, responses', fromServer', toServer')
                        /\ \A n \in Requests :
                              Flying(responses', fromServer', toServer', n) <=> InFlight(n)
      OBVIOUS
    <3>1. Ordered(Requests, responses, fromServer, toServer) BY <1>f
    <3>2. /\ Requests \subseteq Nat \ {0} /\ responses \in Seq(Frames)
          /\ fromServer \in Seq(Frames) /\ toServer \in Seq(Requests)
          /\ e \in Frames /\ e.to = 0
      BY <1>0, <1>2a, <2>e
    <3>3. /\ Ordered(Requests, responses, Append(fromServer, e), toServer)
          /\ \A n \in Requests : Flying(responses, Append(fromServer, e), toServer, n)
                                   <=> Flying(responses, fromServer, toServer, n)
      BY <3>1, <3>2, FlyingPush, Zenon
    <3> QED BY <2>1, <2>e, <3>3, Zenon DEF InFlight
  <2> QED BY <1>b, <2>1, <2>3
<1>20. CASE Cancel
  BY <1>20, <1>c DEF Cancel
<1>22. CASE WriteBlocks
  BY <1>22, <1>c DEF WriteBlocks
<1>21. CASE UNCHANGED vars BY <1>21, <1>c DEF vars
<1> QED
  BY <1>1, <1>2, <1>3, <1>4, <1>5, <1>6, <1>7, <1>8, <1>9, <1>10, <1>11, <1>12, <1>13, <1>14, <1>15, <1>16, <1>17, <1>18, <1>19, <1>20, <1>21, <1>22
     DEF Next, Reader, Responder, Main

-----------------------------------------------------------------------------
(* The inductive invariant of the pipeline. *)
PipelineInv ==
    /\ TypeInv /\ PlacesInv /\ FlightInv /\ FramesInv
    /\ AnswersInOrder /\ Correlated

(* The pipeline is empty at first. *)
LEMMA PipelineInit == Init => PipelineInv
<1> SUFFICES ASSUME Init PROVE PipelineInv
  OBVIOUS
<1>1. TypeInv BY TypeInit
<1>2. /\ queue = <<>> /\ commands = <<>> /\ responses = <<>> /\ fromServer = <<>>
      /\ toServer = <<>> /\ out = <<>> /\ recorded = <<>> /\ accepted = 0
      /\ reader.pc = "none" /\ ~responder /\ read = 0 /\ phase \in {"auth", "dial"}
  BY DEF Init
<1>3. Len(out) = 0 /\ Len(recorded) = 0 /\ Len(responses) = 0 /\ Len(fromServer) = 0
      /\ Len(queue) = 0 /\ Len(commands) = 0
  BY <1>2
<1>4. Answered = 0
  <2>1. {i \in 1..Len(out) : out[i].to # 0} = {} BY <1>3
  <2> QED BY <2>1, FS_EmptySet DEF Answered, CountIn
<1>5. PlacesInv BY <1>2, <1>3, <1>4 DEF PlacesInv
<1>6. FlightInv BY <1>2, FlightEmpty
<1>7. FramesInv /\ AnswersInOrder /\ Correlated
  BY <1>3 DEF FramesInv, Marked, AnswersInOrder, Correlated
<1> QED BY <1>1, <1>5, <1>6, <1>7 DEF PipelineInv

(* Every step keeps the invariant of the pipeline. *)
LEMMA PipelineStep ==
    ASSUME PushTypes \subseteq {"push"}
    PROVE  PipelineInv /\ [Next]_vars => PipelineInv'
<1> SUFFICES ASSUME PipelineInv, [Next]_vars PROVE PipelineInv'
  OBVIOUS
<1>1. /\ TypeInv /\ PlacesInv /\ FlightInv /\ FramesInv
      /\ AnswersInOrder /\ Correlated
  BY DEF PipelineInv
<1>2. TypeInv' BY <1>1, TypeStep
<1>3. PlacesInv' BY <1>1, PlacesStep
<1>4. FlightInv' BY <1>1, FlightStep
<1>5. FramesInv' BY <1>1, FramesStep
<1>6. AnswersInOrder' /\ Correlated' BY <1>1, EmitStep, EmitKeeps
<1> QED BY <1>2, <1>3, <1>4, <1>5, <1>6 DEF PipelineInv

(***************************************************************************)
(* For every script, channel size and failure: the client sees the answers *)
(* in the order of its requests, whether the server or Portscope gives     *)
(* them, as long as the server sends nothing unasked but push frames.      *)
(***************************************************************************)
THEOREM PipelineKeepsOrder ==
    ASSUME PushTypes \subseteq {"push"}
    PROVE  Spec => []AnswersInOrder
<1>1. PipelineInv => AnswersInOrder BY DEF PipelineInv
<1> QED BY <1>1, PipelineInit, PipelineStep, PTL DEF Spec

(***************************************************************************)
(* Under the same condition every observation pairs a request with its own *)
(* answer, and a push frame with no request.                               *)
(***************************************************************************)
THEOREM ObservationsAreCorrelated ==
    ASSUME PushTypes \subseteq {"push"}
    PROVE  Spec => []Correlated
<1>1. PipelineInv => Correlated BY DEF PipelineInv
<1> QED BY <1>1, PipelineInit, PipelineStep, PTL DEF Spec

=============================================================================
