------------------------- MODULE HttpExchangeProofs -------------------------
(***************************************************************************)
(* Proofs about the HTTP adapter, for any exchanges, sizes of reads and    *)
(* limits.                                                                 *)
(***************************************************************************)
EXTENDS HttpExchange, FiniteSetTheorems, WellFoundedInduction, TLAPS

StreamState ==
    [header : Nat, active : BOOLEAN, length : Nat, remaining : Nat, capture : Nat,
     count : Nat, snapshots : Nat, truncated : BOOLEAN, flawed : BOOLEAN]

Message == [n : Nat, length : Nat, truncated : BOOLEAN]

Entry == [outcome : {"ok", "error"}, counts : [Directions -> Nat], truncated : BOOLEAN]

TypeOK ==
    /\ exchange \in Exchanges
    /\ phase \in {"start", "trip", "copy", "finish", "summary", "over",
                  "hijack", "switch", "relay", "closing"}
    /\ err \in BOOLEAN /\ broken \in BOOLEAN /\ early \in BOOLEAN
    /\ chunk \in [Directions -> [size : Nat, left : Nat]]
    /\ passed \in [Directions -> Nat] /\ total \in [Directions -> Nat]
    /\ stream \in [Directions -> StreamState]
    /\ messages \in [Directions -> Seq(Message)]
    /\ log \in Seq(Entry)

(* Where an exchange can be, given what was asked and answered. *)
Routed ==
    /\ phase \in {"hijack", "switch", "relay", "closing"} => exchange.answer = "upgrade"
    /\ phase = "copy" => exchange.answer \in {"ok", "failed"}
    /\ phase = "summary" => exchange.kind = "grpc"
    /\ phase \in {"start", "trip", "copy", "hijack", "switch"} => ~broken
    /\ phase \notin {"start", "finish", "over"} => exchange.kind # "refused"

(***************************************************************************)
(* The response is read only while it is copied; no more is read than is   *)
(* there; what was counted was sent on, unless the copy failed.            *)
(***************************************************************************)
Flowing ==
    /\ \A d \in Directions : /\ chunk[d].left <= chunk[d].size
                             /\ total[d] + chunk[d].size <= Size(d)
    /\ phase # "copy" => chunk["response"].size = 0
    /\ exchange.answer = "upgrade" =>
         \A d \in Directions : chunk[d].size = 0 /\ total[d] = 0
    /\ exchange.answer # "upgrade" =>
         /\ total["request"] = passed["request"]
         /\ ~broken => total["response"] = passed["response"]
    /\ phase \in {"start", "trip"} =>
         /\ total["response"] = 0 /\ stream["response"] = NoStream
         /\ messages["response"] = <<>>

(* The observations of the first n frames. *)
Exact(d, n) ==
    [m \in 1..n |-> [n |-> m, length |-> exchange[d][m].length,
                     truncated |-> exchange[d][m].length > CaptureLimit]]

(***************************************************************************)
(* The parser is where the bytes are: it has whole frames, and of the next *)
(* frame part of the header, or the header and part of the payload.        *)
(***************************************************************************)
InFrame(d, s, b) ==
    /\ s.count + 1 <= Len(exchange[d])
    /\ s.header = 0
    /\ s.length = exchange[d][s.count + 1].length
    /\ s.remaining >= 1 /\ s.remaining <= s.length
    /\ b + s.remaining = End(d, s.count + 1)
    /\ s.capture = Smaller(CaptureLimit, s.length - s.remaining)

Between(d, s, b) ==
    /\ s.count <= Len(exchange[d])
    /\ s.header < HeaderLen
    /\ exchange.answer = "upgrade" => s.header = 0
    /\ b = End(d, s.count) + s.header

InStep(d) ==
    /\ IF stream[d].active THEN InFrame(d, stream[d], Parsed(d))
       ELSE Between(d, stream[d], Parsed(d))
    /\ messages[d] = Exact(d, Observable(stream[d].count))

(* The text of an error went through the parser of a gRPC response. *)
Misled ==
    /\ exchange.kind = "grpc" /\ phase \in {"finish", "summary", "over"}
    /\ total["response"] = 0 /\ chunk["response"].size = 0
    /\ messages["response"] = <<>>
    /\ broken \/ exchange.answer = "invalid"

Parsing ==
    Framed => \A d \in Directions : InStep(d) \/ (d = "response" /\ Misled)

(* What a handler that is about to record the exchange knows of it. *)
Known ==
    /\ phase \in {"start", "trip"} => ~err /\ ~early
    /\ phase = "copy" => (err <=> exchange.answer = "failed")
    /\ phase \in {"finish", "summary"} =>
         /\ ~err => /\ exchange.answer = "ok" /\ exchange.kind # "refused"
                    /\ ~broken
         /\ err => \/ exchange.kind = "refused" \/ exchange.answer \in {"failed", "invalid"}
                   \/ broken
         /\ ~broken /\ exchange.kind # "refused" /\ exchange.answer # "invalid" =>
              /\ passed["response"] = Size("response")
              /\ exchange.answer \in {"ok", "failed"}

(* The server had the request when it answered, or it is known not to have. *)
Delivered ==
    phase \notin {"start", "trip"} /\ exchange.kind = "grpc" /\ ~broken /\ ~early =>
        passed["request"] = Size("request")

(* A stream is flawed for a reason. *)
Blamed ==
    \A d \in Directions :
        exchange.kind = "grpc" /\ stream[d].flawed =>
            \/ broken \/ early \/ exchange.answer = "invalid"
            \/ \E m \in 1..Len(exchange[d]) : ~exchange[d][m].valid

(* When the exchange is recorded. *)
Logged ==
    /\ phase \notin {"relay", "closing", "over"} => log = <<>>
    /\ phase \in {"relay", "closing"} => Len(log) = 1

Inv == TypeOK /\ Routed /\ Flowing /\ Parsing /\ Known /\ Delivered /\ Blamed /\ Logged

-----------------------------------------------------------------------------
(***************************************************************************)
(* The positions of frames                                                 *)
(***************************************************************************)

(* Induction over the naturals, for a set instead of a predicate. *)
LEMMA SetInduction ==
    ASSUME NEW S \in SUBSET Nat, 0 \in S, \A n \in S : n + 1 \in S
    PROVE  \A n \in Nat : n \in S
<1> DEFINE R == OpToRel(<, Nat)
           T == Nat \ S
<1>1. IsWellFoundedOn(R, Nat) BY NatLessThanWellFounded
<1>2. \A y, x \in Nat : y < x => <<y, x>> \in R BY DEF OpToRel
<1> HIDE DEF R
<1>3. ASSUME T # {} PROVE FALSE
  <2>1. PICK x \in T : \A y \in T : ~(<<y, x>> \in R)
    BY <1>1, <1>3, WFMin, Zenon
  <2>2. x - 1 \in Nat /\ x - 1 < x BY <2>1
  <2>3. x - 1 \in S BY <1>2, <2>1, <2>2
  <2>4. x - 1 + 1 = x BY <2>1
  <2> QED BY <2>1, <2>3, <2>4
<1> QED BY <1>3

(* The table that End(d, m) looks at, for frames x and headers of a size. *)
Ends(x, head, m) ==
    CHOOSE end : end = [i \in 0..m |-> IF i = 0 THEN 0
                                       ELSE end[i - 1] + head + x[i].length]

(* The table that is defined by its own entries exists. *)
LEMMA EndsExist ==
    ASSUME NEW x \in Seq(Frames), NEW head \in Nat, NEW m \in 0..Len(x)
    PROVE  /\ Ends(x, head, m) \in [0..m -> Nat]
           /\ \A i \in 0..m : Ends(x, head, m)[i] =
                IF i = 0 THEN 0 ELSE Ends(x, head, m)[i - 1] + head + x[i].length
<1> DEFINE Good(g, k) ==
             /\ g \in [0..k -> Nat]
             /\ \A i \in 0..k : g[i] = IF i = 0 THEN 0 ELSE g[i - 1] + head + x[i].length
           S == {k \in Nat : k <= m => \E g : Good(g, k)}
<1>0. \A i \in 1..Len(x) : x[i].length \in Nat
  <2>1. \A i \in 1..Len(x) : x[i] \in Frames OBVIOUS
  <2> QED BY <2>1 DEF Frames
<1>00. m \in Nat OBVIOUS
<1>1. 0 \in S
  <2>1. Good([i \in 0..0 |-> 0], 0) OBVIOUS
  <2> QED BY <2>1
<1>2. ASSUME NEW k \in Nat, NEW g, Good(g, k), k + 1 <= m PROVE k + 1 \in S
  <2>1. k \in Nat /\ k + 1 \in Nat /\ k + 1 \in 1..Len(x) BY <1>2, <1>00
  <2>2. Good(g, k) BY <1>2
  <2> DEFINE e == [i \in 0..(k + 1) |-> IF i <= k THEN g[i]
                                        ELSE g[k] + head + x[k + 1].length]
  <2>3. e \in [0..(k + 1) -> Nat]
    <3>1. \A i \in 0..(k + 1) : i <= k => i \in 0..k BY <2>1
    <3>2. g[k] \in Nat /\ x[k + 1].length \in Nat BY <1>0, <2>1, <2>2
    <3>3. g[k] + head + x[k + 1].length \in Nat BY <3>2
    <3>4. \A i \in 0..k : g[i] \in Nat BY <2>2
    <3>5. \A i \in 0..(k + 1) :
            (IF i <= k THEN g[i] ELSE g[k] + head + x[k + 1].length) \in Nat
      BY <3>1, <3>3, <3>4, Zenon
    <3> QED BY <3>5, Zenon
  <2>4. ASSUME NEW i \in 0..(k + 1)
        PROVE  e[i] = IF i = 0 THEN 0 ELSE e[i - 1] + head + x[i].length
    <3>1. CASE i <= k
      <4>1. i \in 0..k /\ (i # 0 => i - 1 \in 0..(k + 1) /\ i - 1 <= k) BY <2>1, <3>1
      <4>2. g[i] = IF i = 0 THEN 0 ELSE g[i - 1] + head + x[i].length BY <2>2, <4>1
      <4> QED BY <3>1, <4>1, <4>2
    <3>2. CASE ~(i <= k)
      <4>1. i = k + 1 /\ k \in 0..(k + 1) /\ i - 1 = k BY <2>1, <3>2
      <4>2. e[k] = g[k] BY <2>1, <4>1
      <4> QED BY <2>1, <3>2, <4>1, <4>2
    <3> QED BY <3>1, <3>2
  <2>5. Good(e, k + 1) BY <2>3, <2>4, Zenon
  <2> HIDE DEF e
  <2> QED BY <2>1, <2>5, Zenon
<1>3. m \in S
  <2>1. \A k \in Nat : k + 1 <= m => k <= m BY <1>00
  <2>2. \A k \in Nat : k + 1 \in Nat OBVIOUS
  <2>3. ASSUME NEW k \in S PROVE k + 1 \in S
    <3>1. CASE k + 1 <= m BY <1>2, <2>1, <3>1, Zenon
    <3>2. CASE ~(k + 1 <= m) BY <2>2, <3>2, Zenon
    <3> QED BY <3>1, <3>2
  <2>4. S \in SUBSET Nat OBVIOUS
  <2> HIDE DEF S
  <2> QED BY <1>00, <1>1, <2>3, <2>4, SetInduction
<1>4. PICK g : Good(g, m) BY <1>00, <1>3
<1>5. g = [i \in 0..m |-> IF i = 0 THEN 0 ELSE g[i - 1] + head + x[i].length]
  BY <1>4, Zenon
<1> DEFINE f == Ends(x, head, m)
<1>6. f = [i \in 0..m |-> IF i = 0 THEN 0 ELSE f[i - 1] + head + x[i].length]
  BY <1>5, Zenon DEF Ends
<1> HIDE DEF f
<1>7. \A i \in 0..m : f[i] = IF i = 0 THEN 0 ELSE f[i - 1] + head + x[i].length
  BY <1>6, Zenon
<1>8. f = [i \in 0..m |-> f[i]] BY <1>6, Zenon
<1>9. \A i \in 0..m : f[i] = g[i]
  <2> DEFINE Q == {k \in Nat : k \in 0..m => f[k] = g[k]}
  <2>1. 0 \in Q BY <1>4, <1>7
  <2>2. ASSUME NEW k \in Q PROVE k + 1 \in Q
    <3>1. CASE k + 1 \in 0..m
      <4>1. f[k] = g[k] BY <3>1
      <4>2. f[k + 1] = f[k] + head + x[k + 1].length BY <3>1, <1>7
      <4>3. g[k + 1] = g[k] + head + x[k + 1].length BY <3>1, <1>4
      <4> QED BY <4>1, <4>2, <4>3
    <3> QED BY <3>1
  <2>3. \A k \in Nat : k \in Q BY <2>1, <2>2, SetInduction
  <2> QED BY <2>3
<1>10. \A i \in 0..m : f[i] \in Nat BY <1>4, <1>9
<1>11. f \in [0..m -> Nat] BY <1>8, <1>10, Zenon
<1> QED BY <1>7, <1>11 DEF f

(* A longer table begins with the shorter ones. *)
LEMMA EndsAgree ==
    ASSUME NEW x \in Seq(Frames), NEW head \in Nat, NEW m \in 0..Len(x), NEW k \in 0..m
    PROVE  Ends(x, head, m)[k] = Ends(x, head, k)[k]
<1> DEFINE f == Ends(x, head, m)
           g == Ends(x, head, k)
           Q == {j \in Nat : j \in 0..k => f[j] = g[j]}
<1>1. \A i \in 0..m : f[i] = IF i = 0 THEN 0 ELSE f[i - 1] + head + x[i].length
  BY EndsExist
<1>2. \A i \in 0..k : g[i] = IF i = 0 THEN 0 ELSE g[i - 1] + head + x[i].length
  <2>1. k \in 0..Len(x) OBVIOUS
  <2> QED BY EndsExist, <2>1
<1> HIDE DEF f, g
<1>3. 0 \in Q BY <1>1, <1>2
<1>4. ASSUME NEW j \in Q PROVE j + 1 \in Q
  <2>1. CASE j + 1 \in 0..k
    <3>1. f[j] = g[j] BY <2>1
    <3>2. f[j + 1] = f[j] + head + x[j + 1].length BY <2>1, <1>1
    <3>3. g[j + 1] = g[j] + head + x[j + 1].length BY <2>1, <1>2
    <3> QED BY <3>1, <3>2, <3>3
  <2> QED BY <2>1
<1>5. \A j \in Nat : j \in Q BY <1>3, <1>4, SetInduction
<1> QED BY <1>5 DEF f, g

(* The size of a frame's header in this exchange. *)
Lead == IF Framed THEN HeaderLen ELSE 0

(* The frames of an exchange. *)
LEMMA ExchangeType ==
    ASSUME exchange \in Exchanges, NEW d \in Directions
    PROVE  /\ exchange[d] \in Seq(Frames) /\ Lead \in Nat /\ Len(exchange[d]) \in Nat
           /\ \A m \in 1..Len(exchange[d]) : exchange[d][m] \in Frames
           /\ exchange.answer = "upgrade" => exchange.kind = "websocket"
<1>1. exchange[d] \in Seq(Frames) BY HttpAssumption DEF Directions
<1> QED BY <1>1, HttpAssumption DEF Lead

(* A frame ends its header and its payload after the frame before it. *)
LEMMA EndStep ==
    ASSUME exchange \in Exchanges, NEW d \in Directions
    PROVE  /\ End(d, 0) = 0
           /\ \A m \in 0..Len(exchange[d]) : End(d, m) \in Nat
           /\ \A m \in 1..Len(exchange[d]) :
                End(d, m) = End(d, m - 1) + Lead + exchange[d][m].length
<1> DEFINE x == exchange[d]
           h == Lead
<1>1. x \in Seq(Frames) /\ h \in Nat /\ Len(x) \in Nat BY ExchangeType
<1>2. \A m : End(d, m) = Ends(x, h, m)[m] BY Zenon DEF End, Ends, Lead
<1> HIDE DEF x, h
<1>3. ASSUME NEW m \in 0..Len(x) PROVE End(d, m) \in Nat
  <2>1. Ends(x, h, m) \in [0..m -> Nat] BY <1>1, EndsExist, Zenon
  <2>2. m \in 0..m BY <1>1
  <2> QED BY <1>2, <2>1, <2>2, Zenon
<1>4. End(d, 0) = 0
  <2>1. 0 \in 0..Len(x) /\ 0 \in 0..0 BY <1>1
  <2>2. Ends(x, h, 0)[0] = 0 BY <1>1, <2>1, EndsExist
  <2> QED BY <1>2, <2>2
<1>5. ASSUME NEW m \in 1..Len(x)
      PROVE  End(d, m) = End(d, m - 1) + h + x[m].length
  <2>1. m \in 0..Len(x) /\ m - 1 \in 0..m /\ m \in 0..m /\ m # 0 BY <1>1
  <2>2. Ends(x, h, m)[m] = Ends(x, h, m)[m - 1] + h + x[m].length
    BY <1>1, <2>1, EndsExist
  <2>3. Ends(x, h, m)[m - 1] = Ends(x, h, m - 1)[m - 1] BY <1>1, <2>1, EndsAgree
  <2> QED BY <1>2, <2>2, <2>3
<1> QED BY <1>3, <1>4, <1>5 DEF x, h

(* Later frames end later. *)
LEMMA EndMonotone ==
    ASSUME exchange \in Exchanges, NEW d \in Directions
    PROVE  /\ \A m, k \in 0..Len(exchange[d]) : m <= k => End(d, m) <= End(d, k)
           /\ \A m, k \in 0..Len(exchange[d]) :
                m < k => End(d, m) + Lead + exchange[d][m + 1].length <= End(d, k)
<1> DEFINE N == Len(exchange[d])
           E(m) == End(d, m)
           L(m) == exchange[d][m].length
<1>1. N \in Nat /\ Lead \in Nat BY ExchangeType
<1>2. \A m \in 1..N : exchange[d][m] \in Frames BY ExchangeType
<1>3. \A m \in 1..N : L(m) \in Nat BY <1>2 DEF Frames
<1>4. \A m \in 0..N : E(m) \in Nat BY EndStep
<1>5. \A m \in 1..N : E(m) = E(m - 1) + Lead + L(m) BY EndStep
<1> HIDE DEF N, E, L
<1>6. ASSUME NEW m \in 0..N PROVE \A k \in 0..N : m <= k => E(m) <= E(k)
  <2> DEFINE S == {k \in Nat : k \in 0..N /\ m <= k => E(m) <= E(k)}
  <2>1. 0 \in S BY <1>1, <1>4
  <2>2. ASSUME NEW k \in S PROVE k + 1 \in S
    <3>1. CASE k + 1 \in 0..N /\ m <= k
      <4>1. E(m) <= E(k) BY <3>1, <1>1
      <4>2. E(k + 1) = E(k) + Lead + L(k + 1)
        <5>1. k + 1 \in 1..N /\ (k + 1) - 1 = k BY <1>1, <3>1
        <5> QED BY <1>5, <5>1
      <4>3. L(k + 1) \in Nat /\ E(k) \in Nat /\ E(m) \in Nat BY <1>1, <1>3, <1>4, <3>1
      <4> QED BY <1>1, <4>1, <4>2, <4>3
    <3>2. CASE k + 1 \in 0..N /\ m = k + 1 BY <1>4, <3>2
    <3> QED BY <3>1, <3>2, <1>1
  <2>3. S \in SUBSET Nat OBVIOUS
  <2>4. \A k \in Nat : k \in S BY <2>1, <2>2, <2>3, SetInduction
  <2> QED BY <2>4
<1>7. ASSUME NEW m \in 0..N, NEW k \in 0..N, m < k
      PROVE  E(m) + Lead + L(m + 1) <= E(k)
  <2>1. m + 1 \in 1..N /\ m + 1 \in 0..N /\ m + 1 <= k /\ (m + 1) - 1 = m BY <1>1, <1>7
  <2>2. E(m + 1) = E(m) + Lead + L(m + 1) BY <1>5, <2>1
  <2>3. E(m + 1) <= E(k) BY <1>6, <2>1
  <2> QED BY <2>2, <2>3
<1> QED BY <1>6, <1>7 DEF N, E, L

(* What a framed exchange's positions are, in one place. *)
LEMMA Positions ==
    ASSUME exchange \in Exchanges, Framed, NEW d \in Directions
    PROVE  LET N == Len(exchange[d])
           IN  /\ N \in Nat /\ HeaderLen \in Nat /\ HeaderLen >= 1
               /\ End(d, 0) = 0 /\ Size(d) = End(d, N)
               /\ \A m \in 0..N : End(d, m) \in Nat
               /\ \A m \in 1..N : exchange[d][m].length \in Nat
               /\ \A m \in 1..N :
                    End(d, m) = End(d, m - 1) + HeaderLen + exchange[d][m].length
               /\ \A m, k \in 0..N : m <= k => End(d, m) <= End(d, k)
               /\ \A m, k \in 0..N : m < k => End(d, m) + HeaderLen <= End(d, k)
<1> DEFINE N == Len(exchange[d])
<1>1. N \in Nat /\ Lead = HeaderLen BY ExchangeType DEF Lead
<1>2. HeaderLen \in Nat /\ HeaderLen >= 1 BY HttpAssumption
<1>3. \A m \in 1..N : exchange[d][m] \in Frames BY ExchangeType
<1>4. \A m \in 1..N : exchange[d][m].length \in Nat BY <1>3 DEF Frames
<1>5. /\ End(d, 0) = 0
      /\ \A m \in 0..N : End(d, m) \in Nat
      /\ \A m \in 1..N : End(d, m) = End(d, m - 1) + HeaderLen + exchange[d][m].length
  BY <1>1, EndStep
<1>6. /\ \A m, k \in 0..N : m <= k => End(d, m) <= End(d, k)
      /\ \A m, k \in 0..N : m < k => End(d, m) + HeaderLen + exchange[d][m + 1].length
                                       <= End(d, k)
  BY <1>1, EndMonotone
<1>7. Size(d) = End(d, N) BY DEF Size
<1> HIDE DEF N
<1>8. ASSUME NEW m \in 0..N, NEW k \in 0..N, m < k
      PROVE  End(d, m) + HeaderLen <= End(d, k)
  <2>1. m + 1 \in 1..N BY <1>1, <1>8
  <2>2. exchange[d][m + 1].length \in Nat BY <1>4, <2>1
  <2>3. End(d, m) + HeaderLen + exchange[d][m + 1].length <= End(d, k) BY <1>6, <1>8
  <2> QED BY <1>2, <1>5, <2>2, <2>3
<1> QED BY <1>1, <1>2, <1>4, <1>5, <1>6, <1>7, <1>8 DEF N

(* A header that starts where frame c ends is the header of the next frame. *)
LEMMA FrameFound ==
    ASSUME exchange \in Exchanges, Framed, NEW d \in Directions,
           NEW c \in Nat, c + 1 <= Len(exchange[d])
    PROVE  FrameAt(d, End(d, c) + HeaderLen) = exchange[d][c + 1]
<1> DEFINE N == Len(exchange[d])
           E(m) == End(d, m)
           at == {m \in 1..N : E(m - 1) + HeaderLen = E(c) + HeaderLen}
<1>1. /\ N \in Nat /\ HeaderLen \in Nat /\ HeaderLen >= 1
      /\ \A m \in 0..N : E(m) \in Nat
      /\ \A m, k \in 0..N : m < k => E(m) + HeaderLen <= E(k)
  BY Positions
<1> HIDE DEF N, E
<1>2. c + 1 <= N BY DEF N
<1>3. at = {c + 1}
  <2>1. c + 1 \in at BY <1>1, <1>2
  <2>2. ASSUME NEW m \in at PROVE m = c + 1
    <3>1. m \in 1..N /\ m - 1 \in 0..N /\ c \in 0..N BY <1>1, <1>2
    <3>2. E(m - 1) = E(c) BY <1>1, <3>1
    <3>3. ~(m - 1 < c) /\ ~(c < m - 1) BY <1>1, <3>1, <3>2
    <3> QED BY <1>1, <3>1, <3>3
  <2> QED BY <2>1, <2>2
<1>4. FrameAt(d, E(c) + HeaderLen) =
        IF at = {} THEN [length |-> 0, valid |-> FALSE]
        ELSE exchange[d][CHOOSE m \in at : TRUE]
  BY Zenon DEF FrameAt, N, E
<1>5. (CHOOSE m \in at : TRUE) = c + 1 BY <1>3
<1> QED BY <1>3, <1>4, <1>5 DEF E

(* The whole frames in the bytes up to a position within frame c + 1. *)
LEMMA WholeFrames ==
    ASSUME exchange \in Exchanges, Framed, NEW d \in Directions,
           NEW c \in 0..Len(exchange[d]), NEW b \in Nat,
           End(d, c) <= b, c + 1 <= Len(exchange[d]) => b < End(d, c + 1)
    PROVE  Cardinality(Whole(d, b)) = c
<1> DEFINE N == Len(exchange[d])
           E(m) == End(d, m)
<1>1. /\ N \in Nat
      /\ \A m \in 0..N : E(m) \in Nat
      /\ \A m, k \in 0..N : m <= k => E(m) <= E(k)
  BY Positions
<1>2. E(c) <= b /\ (c + 1 <= N => b < E(c + 1)) /\ c \in 0..N OBVIOUS
<1>3. Whole(d, b) = {m \in 1..N : E(m) <= b} BY DEF Whole
<1> HIDE DEF N, E
<1>4. ASSUME NEW m \in 1..N PROVE E(m) <= b <=> m \in 1..c
  <2>1. CASE m <= c
    <3>1. E(m) <= E(c) BY <1>1, <1>2, <2>1
    <3>2. E(m) \in Nat /\ E(c) \in Nat BY <1>1, <1>2
    <3> QED BY <1>1, <1>2, <2>1, <3>1, <3>2
  <2>2. CASE ~(m <= c)
    <3>1. c + 1 <= N /\ c + 1 <= m /\ c + 1 \in 0..N /\ m \in 0..N BY <1>1, <1>2, <2>2
    <3>2. E(c + 1) <= E(m) BY <1>1, <3>1
    <3>3. E(m) \in Nat /\ E(c + 1) \in Nat BY <1>1, <3>1
    <3> QED BY <1>1, <1>2, <2>2, <3>1, <3>2, <3>3
  <2> QED BY <2>1, <2>2
<1>5. Whole(d, b) = 1..c BY <1>1, <1>2, <1>3, <1>4
<1>6. Cardinality(1..c) = IF 1 > c THEN 0 ELSE c - 1 + 1 BY <1>1, <1>2, FS_Interval
<1>7. (IF 1 > c THEN 0 ELSE c - 1 + 1) = c BY <1>1, <1>2
<1> QED BY <1>5, <1>6, <1>7

-----------------------------------------------------------------------------
(***************************************************************************)
(* What the operations on a stream do                                      *)
(***************************************************************************)

(* A stream with another value of one field is a stream. *)
LEMMA StreamUpdates ==
    ASSUME NEW s \in StreamState
    PROVE  /\ \A n \in Nat : /\ [s EXCEPT !.header = n] \in StreamState
                             /\ [s EXCEPT !.length = n] \in StreamState
                             /\ [s EXCEPT !.remaining = n] \in StreamState
                             /\ [s EXCEPT !.capture = n] \in StreamState
                             /\ [s EXCEPT !.count = n] \in StreamState
                             /\ [s EXCEPT !.snapshots = n] \in StreamState
           /\ \A b \in BOOLEAN : /\ [s EXCEPT !.active = b] \in StreamState
                                 /\ [s EXCEPT !.truncated = b] \in StreamState
                                 /\ [s EXCEPT !.flawed = b] \in StreamState
BY DEF StreamState

(* completeMessage leaves the position in the header alone. *)
LEMMA CompletedFacts ==
    ASSUME NEW s \in StreamState
    PROVE  /\ Completed(s) \in StreamState
           /\ Completed(s).count = s.count + 1 /\ ~Completed(s).active
           /\ Completed(s).header = s.header /\ Completed(s).flawed = s.flawed
<1> DEFINE k == Smaller(MaxSnapshots, s.snapshots + 1)
           t == s.truncated \/ s.capture # s.length \/ s.snapshots = MaxSnapshots
           s1 == [s EXCEPT !.active = FALSE]
           s2 == [s1 EXCEPT !.remaining = 0]
           s3 == [s2 EXCEPT !.length = 0]
           s4 == [s3 EXCEPT !.capture = 0]
           s5 == [s4 EXCEPT !.count = s.count + 1]
           s6 == [s5 EXCEPT !.snapshots = k]
           s7 == [s6 EXCEPT !.truncated = t]
<1>1. MaxSnapshots \in Nat BY HttpAssumption
<1>2. k \in Nat /\ s.count + 1 \in Nat BY <1>1 DEF Smaller, StreamState
<1>3. t \in BOOLEAN OBVIOUS
<1>4. Completed(s) = s7 BY DEF Completed, StreamState
<1> HIDE DEF k, t
<1>5. s3 \in StreamState
  <2>1. s1 \in StreamState BY StreamUpdates
  <2>2. s2 \in StreamState BY <2>1, StreamUpdates
  <2> QED BY <2>2, StreamUpdates
<1> HIDE DEF s3
<1>6. s5 \in StreamState
  <2>1. s4 \in StreamState BY <1>5, StreamUpdates
  <2> QED BY <2>1, <1>2, StreamUpdates
<1> HIDE DEF s5
<1>7. s7 \in StreamState
  <2>1. s6 \in StreamState BY <1>6, <1>2, StreamUpdates
  <2> QED BY <2>1, <1>3, StreamUpdates
<1> HIDE DEF s7
<1> QED BY <1>4, <1>7 DEF s7, s5, s3, StreamState

(* The payload that is fed is counted and captured up to the limit. *)
LEMMA BodyFedFacts ==
    ASSUME NEW s \in StreamState, NEW n \in Nat, n <= s.remaining
    PROVE  LET t == BodyFed(s, n)
           IN  /\ t \in StreamState
               /\ t.remaining = s.remaining - n
               /\ t.capture = Smaller(CaptureLimit, s.capture + n)
               /\ t.header = s.header /\ t.active = s.active /\ t.length = s.length
               /\ t.count = s.count /\ t.flawed = s.flawed
<1> DEFINE k == Smaller(CaptureLimit, s.capture + n)
           s1 == [s EXCEPT !.remaining = s.remaining - n]
           s2 == [s1 EXCEPT !.capture = k]
<1>1. CaptureLimit \in Nat BY HttpAssumption
<1>2. k \in Nat /\ s.remaining - n \in Nat BY <1>1 DEF Smaller, StreamState
<1>3. BodyFed(s, n) = s2 BY DEF BodyFed, StreamState
<1> HIDE DEF k
<1>4. s2 \in StreamState
  <2>1. s1 \in StreamState BY <1>2, StreamUpdates
  <2> QED BY <2>1, <1>2, StreamUpdates
<1>5. /\ s2.remaining = s.remaining - n /\ s2.capture = k
      /\ s2.header = s.header /\ s2.active = s.active /\ s2.length = s.length
      /\ s2.count = s.count /\ s2.flawed = s.flawed
  BY DEF StreamState
<1> HIDE DEF s2
<1> QED BY <1>3, <1>4, <1>5 DEF k

(* FrameAt gives a frame, one of the direction or an invalid one. *)
LEMMA FrameAtType ==
    ASSUME exchange \in Exchanges, NEW d \in Directions, NEW p
    PROVE  FrameAt(d, p) \in Frames
<1> DEFINE at == {m \in 1..Len(exchange[d]) : End(d, m - 1) + HeaderLen = p}
<1>1. \A m \in 1..Len(exchange[d]) : exchange[d][m] \in Frames BY ExchangeType
<1>2. CASE at = {}
  <2>1. FrameAt(d, p) = [length |-> 0, valid |-> FALSE] BY <1>2 DEF FrameAt
  <2> QED BY <2>1 DEF Frames
<1>3. CASE at # {}
  <2>1. (CHOOSE m \in at : TRUE) \in at BY <1>3
  <2>2. FrameAt(d, p) = exchange[d][CHOOSE m \in at : TRUE] BY <1>3, Zenon DEF FrameAt
  <2>3. (CHOOSE m \in at : TRUE) \in 1..Len(exchange[d]) BY <2>1
  <2> QED BY <1>1, <2>2, <2>3
<1> QED BY <1>2, <1>3

(* A header that is not complete grows; a complete one starts a frame. *)
LEMMA HeaderFedFacts ==
    ASSUME exchange \in Exchanges, NEW d \in Directions,
           NEW s \in StreamState, NEW n \in Nat, NEW p
    PROVE  LET t == HeaderFed(d, s, n, p)
               f == FrameAt(d, p)
           IN  /\ t \in StreamState /\ t.count = s.count
               /\ s.header + n < HeaderLen =>
                    /\ t.header = s.header + n /\ t.active = s.active
                    /\ t.flawed = s.flawed
               /\ ~(s.header + n < HeaderLen) =>
                    /\ t.header = 0 /\ t.active /\ t.length = f.length
                    /\ t.remaining = f.length /\ t.capture = 0
                    /\ t.flawed = (s.flawed \/ ~f.valid)
<1> DEFINE f == FrameAt(d, p)
           t == HeaderFed(d, s, n, p)
<1>1. f \in Frames BY FrameAtType
<1>2. f.length \in Nat /\ f.valid \in BOOLEAN BY <1>1 DEF Frames
<1>3. CASE s.header + n < HeaderLen
  <2>1. t = [header |-> s.header + n, active |-> s.active, length |-> s.length,
             remaining |-> s.remaining, capture |-> s.capture, count |-> s.count,
             snapshots |-> s.snapshots, truncated |-> s.truncated, flawed |-> s.flawed]
    BY <1>3 DEF HeaderFed, StreamState
  <2> HIDE DEF t
  <2>2. t \in StreamState BY <2>1 DEF StreamState
  <2> QED BY <1>3, <2>1, <2>2 DEF t
<1>4. CASE ~(s.header + n < HeaderLen)
  <2> DEFINE w == s.flawed \/ ~f.valid
             s1 == [s EXCEPT !.header = 0]
             s2 == [s1 EXCEPT !.active = TRUE]
             s3 == [s2 EXCEPT !.length = f.length]
             s4 == [s3 EXCEPT !.remaining = f.length]
             s5 == [s4 EXCEPT !.capture = 0]
             s6 == [s5 EXCEPT !.flawed = w]
  <2>1. t = s6 BY <1>4 DEF HeaderFed, StreamState
  <2>2. w \in BOOLEAN OBVIOUS
  <2> HIDE DEF t, f, w
  <2>3. s3 \in StreamState
    <3>1. s1 \in StreamState BY StreamUpdates
    <3>2. s2 \in StreamState BY <3>1, StreamUpdates
    <3> QED BY <1>2, <3>2, StreamUpdates
  <2> HIDE DEF s3
  <2>4. s6 \in StreamState
    <3>1. s4 \in StreamState BY <1>2, <2>3, StreamUpdates
    <3>2. s5 \in StreamState BY <3>1, StreamUpdates
    <3> QED BY <2>2, <3>2, StreamUpdates
  <2>5. /\ s6.count = s.count /\ s6.header = 0 /\ s6.active /\ s6.length = f.length
        /\ s6.remaining = f.length /\ s6.capture = 0 /\ s6.flawed = w
    BY DEF s3, StreamState
  <2> HIDE DEF s6
  <2>6. t \in StreamState BY <2>1, <2>4
  <2>7. /\ t.count = s.count /\ t.header = 0 /\ t.active /\ t.length = f.length
        /\ t.remaining = f.length /\ t.capture = 0 /\ t.flawed = w
    BY <2>1, <2>5, Zenon
  <2> QED BY <1>4, <2>6, <2>7, Zenon DEF t, f, w
<1> QED BY <1>3, <1>4

(* The stream of a frame whose header was read. *)
Opened(f, c) ==
    [NoStream EXCEPT !.active = TRUE, !.length = f.length, !.remaining = f.length,
                     !.count = c]

(* A frame is opened with nothing captured and all of its payload to come. *)
LEMMA OpenedFacts ==
    ASSUME NEW f \in Frames, NEW c \in Nat
    PROVE  LET t == Opened(f, c)
           IN  /\ t \in StreamState /\ t.count = c /\ t.header = 0 /\ t.active
               /\ t.length = f.length /\ t.remaining = f.length /\ t.capture = 0
               /\ ~t.flawed
<1> DEFINE s1 == [NoStream EXCEPT !.active = TRUE]
           s2 == [s1 EXCEPT !.length = f.length]
           s3 == [s2 EXCEPT !.remaining = f.length]
           s4 == [s3 EXCEPT !.count = c]
<1>1. f.length \in Nat BY DEF Frames
<1>2. Opened(f, c) = s4 BY DEF Opened
<1>3. NoStream \in StreamState BY DEF NoStream, StreamState
<1>4. s4 \in StreamState
  <2>1. s1 \in StreamState BY <1>3, StreamUpdates
  <2>2. s2 \in StreamState BY <1>1, <2>1, StreamUpdates
  <2>3. s3 \in StreamState BY <1>1, <2>2, StreamUpdates
  <2> QED BY <2>3, StreamUpdates
<1>5. /\ s4.count = c /\ s4.header = 0 /\ s4.active
      /\ s4.length = f.length /\ s4.remaining = f.length /\ s4.capture = 0
      /\ ~s4.flawed
  BY DEF NoStream
<1> HIDE DEF s4
<1> QED BY <1>2, <1>4, <1>5

(* A message that is observed has the type of one. *)
LEMMA ObservationType ==
    ASSUME NEW s \in StreamState
    PROVE  Observation(s) \in Message
<1>1. s.count + 1 \in Nat /\ s.length \in Nat BY DEF StreamState
<1>2. (s.capture # s.length) \in BOOLEAN OBVIOUS
<1> QED BY <1>1, <1>2 DEF Observation, Message

-----------------------------------------------------------------------------
(***************************************************************************)
(* Steps                                                                   *)
(***************************************************************************)

(* No step changes what is exchanged, so positions stay where they are. *)
LEMMA Frozen ==
    ASSUME exchange' = exchange
    PROVE  /\ \A d, m : End(d, m)' = End(d, m)
           /\ \A d : Size(d)' = Size(d)
           /\ Framed' <=> Framed
           /\ \A n : Observable(n)' = Observable(n)
           /\ \A d, n : Exact(d, n)' = Exact(d, n)
<1>1. Framed' <=> Framed BY DEF Framed
<1>2. \A d, m : End(d, m)' = End(d, m) BY <1>1, Zenon DEF End
<1>3. \A d : Size(d)' = Size(d) BY <1>2, Zenon DEF Size
<1>4. \A n : Observable(n)' = Observable(n) BY Zenon DEF Observable
<1>5. \A d, n : Exact(d, n)' = Exact(d, n) BY Zenon DEF Exact
<1> QED BY <1>1, <1>2, <1>3, <1>4, <1>5

(* The exchange is fixed. *)
LEMMA SameExchange ==
    ASSUME [Next]_vars PROVE exchange' = exchange
BY DEF Next, vars, Handler, Copier, Start, TripFails, CopyEnds, FinishStreams, RecordCall,
       RecordExchange, Switch, SwitchFails, CloseSocket, SocketDone, Hijack, HijackFails,
       Answered, CopyFails, CloseOnCancel, Cancel, Read, Feed, Pass, FrameHeader,
       FrameBody, CopierEnds

(* What feed does to its chunk, and with which part of it. *)
LEMMA FeedShape ==
    ASSUME Inv, NEW d \in Directions, Feed(d)
    PROVE  \E n \in Nat, t \in StreamState :
             /\ exchange.kind = "grpc" /\ n >= 1 /\ n <= chunk[d].left
             /\ chunk' \in [Directions -> [size : Nat, left : Nat]]
             /\ chunk'[d].size = chunk[d].size /\ chunk'[d].left = chunk[d].left - n
             /\ \A e \in Directions : e # d => chunk'[e] = chunk[e]
             /\ Observed(d, t)
             /\ stream' = [stream EXCEPT ![d] =
                             IF t.active /\ t.remaining = 0 THEN Completed(t) ELSE t]
             /\ InStep(d)
             /\ stream[d].active =>
                  /\ n = Smaller(chunk[d].left, stream[d].remaining)
                  /\ n <= stream[d].remaining /\ t = BodyFed(stream[d], n)
             /\ ~stream[d].active =>
                  /\ n = Smaller(chunk[d].left, HeaderLen - stream[d].header)
                  /\ t = HeaderFed(d, stream[d], n, Parsed(d) + n)
<1> DEFINE s == stream[d]
           c == chunk[d]
           left == chunk[d].left
           n == IF s.active THEN Smaller(left, s.remaining)
                ELSE Smaller(left, HeaderLen - s.header)
           p == total[d] + (chunk[d].size - left) + n
           t == IF s.active THEN BodyFed(s, n) ELSE HeaderFed(d, s, n, p)
<1>1. /\ exchange.kind = "grpc" /\ left > 0
      /\ chunk' = [chunk EXCEPT ![d].left = left - n]
      /\ Observed(d, t)
      /\ stream' = [stream EXCEPT ![d] =
                      IF t.active /\ t.remaining = 0 THEN Completed(t) ELSE t]
  BY Zenon DEF Feed
<1>2. /\ c \in [size : Nat, left : Nat] /\ s \in StreamState /\ HeaderLen \in Nat
      /\ total[d] \in Nat
      /\ chunk \in [Directions -> [size : Nat, left : Nat]]
      /\ exchange \in Exchanges
  BY HttpAssumption DEF Inv, TypeOK
<1>3. /\ left \in Nat /\ c.size \in Nat /\ s.remaining \in Nat /\ s.header \in Nat
      /\ s.active \in BOOLEAN
  BY <1>2 DEF StreamState
<1>4. left <= c.size BY DEF Inv, Flowing
<1>5. InStep(d)
  <2>1. Framed BY <1>1 DEF Framed
  <2>2. ~(d = "response" /\ Misled) BY <1>1, <1>3, <1>4 DEF Misled
  <2> QED BY <2>1, <2>2 DEF Inv, Parsing
<1>6. s.active => s.remaining >= 1 BY <1>5 DEF InStep, InFrame
<1>7. ~s.active => s.header < HeaderLen BY <1>5 DEF InStep, Between
<1>8. Parsed(d) = total[d] + (c.size - left) BY <1>1 DEF Parsed
<1> HIDE DEF s, c, left
<1>9. n \in Nat /\ n >= 1 /\ n <= left /\ (s.active => n <= s.remaining)
  BY <1>1, <1>2, <1>3, <1>6, <1>7 DEF Smaller
<1> HIDE DEF n
<1>10. t \in StreamState
  <2>1. s.active => BodyFed(s, n) \in StreamState BY <1>2, <1>9, BodyFedFacts
  <2>2. ~s.active => HeaderFed(d, s, n, p) \in StreamState
    BY <1>2, <1>9, HeaderFedFacts
  <2> QED BY <1>3, <2>1, <2>2
<1>11. /\ chunk' \in [Directions -> [size : Nat, left : Nat]]
       /\ chunk'[d].size = chunk[d].size /\ chunk'[d].left = left - n
       /\ \A e \in Directions : e # d => chunk'[e] = chunk[e]
  <2> DEFINE e == [c EXCEPT !.left = left - n]
  <2>1. left - n \in Nat BY <1>3, <1>9
  <2>2. e \in [size : Nat, left : Nat] /\ e.size = c.size /\ e.left = left - n
    BY <1>2, <2>1
  <2>3. chunk' = [chunk EXCEPT ![d] = e] BY <1>1, Zenon DEF c
  <2> HIDE DEF e
  <2> QED BY <1>2, <2>2, <2>3 DEF c
<1>12. p = Parsed(d) + n BY <1>8 DEF c, left
<1>13. n = IF s.active THEN Smaller(left, s.remaining)
           ELSE Smaller(left, HeaderLen - s.header)
  BY DEF n
<1>14. (s.active => t = BodyFed(s, n)) /\ (~s.active => t = HeaderFed(d, s, n, Parsed(d) + n))
  BY <1>3, <1>12
<1> HIDE DEF t
<1> QED BY <1>1, <1>5, <1>9, <1>10, <1>11, <1>13, <1>14 DEF s, left

(* The observations of some frames are a sequence, and one more extends it. *)
LEMMA ExactFacts ==
    ASSUME exchange \in Exchanges, NEW d \in Directions, NEW k \in 0..Len(exchange[d])
    PROVE  /\ Exact(d, k) \in Seq(Message) /\ Len(Exact(d, k)) = k
           /\ k + 1 <= Len(exchange[d]) =>
                Exact(d, k + 1) =
                  Append(Exact(d, k), [n |-> k + 1, length |-> exchange[d][k + 1].length,
                                       truncated |-> exchange[d][k + 1].length > CaptureLimit])
<1> DEFINE N == Len(exchange[d])
           o(m) == [n |-> m, length |-> exchange[d][m].length,
                    truncated |-> exchange[d][m].length > CaptureLimit]
<1>1. N \in Nat /\ \A m \in 1..N : exchange[d][m] \in Frames BY ExchangeType
<1>2. \A m \in 1..N : exchange[d][m].length \in Nat BY <1>1 DEF Frames
<1>3. \A m \in 1..N : o(m) \in Message
  <2> TAKE m \in 1..N
  <2>1. m \in Nat /\ (exchange[d][m].length > CaptureLimit) \in BOOLEAN BY <1>1
  <2> QED BY <1>2, <2>1 DEF Message
<1>4. \A j : Exact(d, j) = [m \in 1..j |-> o(m)] BY DEF Exact
<1> HIDE DEF N, o
<1>5. k \in 0..N BY DEF N
<1>6. ASSUME NEW j \in 0..N
      PROVE  Exact(d, j) \in Seq(Message) /\ Len(Exact(d, j)) = j
  <2>1. \A m \in 1..j : o(m) \in Message BY <1>1, <1>3
  <2>2. j \in Nat BY <1>1
  <2>3. [m \in 1..j |-> o(m)] \in Seq(Message) BY <2>1, <2>2
  <2>4. Len([m \in 1..j |-> o(m)]) = j BY <2>2
  <2> QED BY <1>4, <2>3, <2>4
<1>7. ASSUME k + 1 <= N PROVE Exact(d, k + 1) = Append(Exact(d, k), o(k + 1))
  <2>1. k + 1 \in 0..N /\ k + 1 \in 1..N BY <1>1, <1>5, <1>7
  <2> DEFINE a == Exact(d, k + 1)
             b == Append(Exact(d, k), o(k + 1))
  <2>2. a \in Seq(Message) /\ Len(a) = k + 1 BY <1>6, <2>1
  <2>3. Exact(d, k) \in Seq(Message) /\ Len(Exact(d, k)) = k BY <1>5, <1>6
  <2>4. o(k + 1) \in Message BY <1>3, <2>1
  <2>5. b \in Seq(Message) /\ Len(b) = k + 1 BY <2>3, <2>4
  <2>6. \A m \in 1..(k + 1) : a[m] = o(m) BY <1>4
  <2>7. \A m \in 1..k : Exact(d, k)[m] = o(m) BY <1>4
  <2>8. \A m \in 1..(k + 1) : b[m] = o(m)
    <3> TAKE m \in 1..(k + 1)
    <3>1. CASE m = k + 1 BY <2>3, <2>4, <3>1
    <3>2. CASE m # k + 1
      <4>1. m \in 1..k BY <1>5, <3>2
      <4>2. b[m] = Exact(d, k)[m] BY <2>3, <2>4, <4>1
      <4> QED BY <2>7, <4>1, <4>2
    <3> QED BY <3>1, <3>2
  <2> HIDE DEF a, b
  <2> QED BY <2>2, <2>5, <2>6, <2>8 DEF a, b
<1> QED BY <1>5, <1>6, <1>7 DEF N, o

(* A step observes the frame it completes, and nothing else. *)
LEMMA ObservedFacts ==
    ASSUME TypeOK, NEW d \in Directions, NEW s \in StreamState, Observed(d, s)
    PROVE  /\ messages' \in [Directions -> Seq(Message)]
           /\ \A e \in Directions : e # d => messages'[e] = messages[e]
           /\ ~(s.active /\ s.remaining = 0) => messages'[d] = messages[d]
           /\ s.active /\ s.remaining = 0 =>
                messages'[d] = IF Len(messages[d]) < Observable(Len(messages[d]) + 1)
                                 THEN Append(messages[d], Observation(s)) ELSE messages[d]
<1> DEFINE m == messages[d]
           v == IF s.remaining = 0 /\ s.active /\ Len(m) < Observable(Len(m) + 1)
                  THEN Append(m, Observation(s)) ELSE m
<1>1. messages' = [messages EXCEPT ![d] = v] BY DEF Observed
<1>2. messages \in [Directions -> Seq(Message)] /\ m \in Seq(Message) BY DEF TypeOK
<1>3. Observation(s) \in Message BY ObservationType
<1>4. v \in Seq(Message) BY <1>2, <1>3
<1>5. s.active /\ s.remaining = 0 =>
        v = IF Len(m) < Observable(Len(m) + 1) THEN Append(m, Observation(s)) ELSE m
  OBVIOUS
<1>6. ~(s.active /\ s.remaining = 0) => v = m OBVIOUS
<1> HIDE DEF m, v
<1>7. messages' \in [Directions -> Seq(Message)] /\ messages'[d] = v
      /\ \A e \in Directions : e # d => messages'[e] = messages[e]
  BY <1>1, <1>2, <1>4
<1> QED BY <1>5, <1>6, <1>7 DEF m

(* The observation of a frame that was captured as far as the limit goes. *)
LEMMA ObservedExact ==
    ASSUME TypeOK, NEW d \in Directions, NEW s \in StreamState, Observed(d, s),
           s.active, s.remaining = 0, exchange' = exchange,
           messages[d] = Exact(d, Observable(s.count)),
           s.count + 1 <= Len(exchange[d]),
           s.length = exchange[d][s.count + 1].length,
           s.capture = Smaller(CaptureLimit, s.length)
    PROVE  messages'[d] = Exact(d, Observable(s.count + 1))
<1> DEFINE c == s.count
           N == Len(exchange[d])
           k == Observable(c)
<1>1. /\ messages'[d] = IF Len(messages[d]) < Observable(Len(messages[d]) + 1)
                          THEN Append(messages[d], Observation(s)) ELSE messages[d]
  BY ObservedFacts
<1>2. exchange \in Exchanges /\ N \in Nat /\ MaxObservations \in Nat /\ CaptureLimit \in Nat
  BY HttpAssumption, ExchangeType DEF TypeOK
<1>3. c \in Nat /\ s.length \in Nat /\ c + 1 <= N BY DEF StreamState
<1>4. \A j \in Nat : Observable(j) = IF exchange.kind = "grpc" /\ ~(j < MaxObservations)
                                       THEN MaxObservations ELSE j
  BY DEF Observable, Smaller
<1>5. k \in 0..N BY <1>2, <1>3, <1>4
<1>6. Len(messages[d]) = k BY <1>2, <1>5, ExactFacts
<1>7. Observation(s) = [n |-> c + 1, length |-> exchange[d][c + 1].length,
                        truncated |-> exchange[d][c + 1].length > CaptureLimit]
  <2>1. (s.capture # s.length) = (s.length > CaptureLimit) BY <1>2, <1>3 DEF Smaller
  <2> QED BY <2>1 DEF Observation
<1> HIDE DEF c, N, k
<1>8. CASE k = c /\ Observable(c + 1) = c + 1
  <2>1. Exact(d, c + 1) = Append(Exact(d, c), Observation(s))
    BY <1>2, <1>3, <1>5, <1>7, <1>8, ExactFacts DEF N
  <2>2. Len(messages[d]) < Observable(Len(messages[d]) + 1) BY <1>3, <1>6, <1>8
  <2> QED BY <1>1, <1>8, <2>1, <2>2 DEF k, c
<1>9. CASE exchange.kind = "grpc" /\ ~(c + 1 < MaxObservations) /\ c + 1 # MaxObservations
  <2>1. k = MaxObservations /\ Observable(c + 1) = MaxObservations
    BY <1>2, <1>3, <1>4, <1>9 DEF k
  <2>2. Observable(k + 1) = MaxObservations BY <1>2, <1>4, <1>9, <2>1
  <2>3. ~(Len(messages[d]) < Observable(Len(messages[d]) + 1))
    BY <1>2, <1>6, <2>1, <2>2
  <2> QED BY <1>1, <2>1, <2>3 DEF k, c
<1>10. CASE exchange.kind # "grpc" \/ c + 1 <= MaxObservations
  <2>1. k = c /\ Observable(c + 1) = c + 1 BY <1>2, <1>3, <1>4, <1>10 DEF k
  <2> QED BY <1>8, <2>1
<1> QED BY <1>2, <1>3, <1>9, <1>10

(* A frame whose payload has come so far is one the parser is in, or done with. *)
LEMMA Advanced ==
    ASSUME TypeOK, Framed, NEW d \in Directions, NEW t \in StreamState, NEW b \in Nat,
           exchange' = exchange, Observed(d, t),
           messages[d] = Exact(d, Observable(t.count)),
           t.active, t.header = 0, t.count + 1 <= Len(exchange[d]),
           t.length = exchange[d][t.count + 1].length, t.remaining <= t.length,
           b + t.remaining = End(d, t.count + 1),
           t.capture = Smaller(CaptureLimit, t.length - t.remaining)
    PROVE  LET u == IF t.active /\ t.remaining = 0 THEN Completed(t) ELSE t
           IN  /\ u \in StreamState
               /\ u.flawed = t.flawed
               /\ IF u.active THEN InFrame(d, u, b) ELSE Between(d, u, b)
               /\ messages'[d] = Exact(d, Observable(u.count))
<1>1. t.remaining \in Nat /\ t.count \in Nat /\ t.length \in Nat BY DEF StreamState
<1>2. CASE t.remaining = 0
  <2> DEFINE u == Completed(t)
  <2>1. u \in StreamState /\ u.count = t.count + 1 /\ ~u.active /\ u.header = 0
        /\ u.flawed = t.flawed
    BY CompletedFacts
  <2>2. messages'[d] = Exact(d, Observable(t.count + 1)) BY <1>1, <1>2, ObservedExact
  <2>3. b = End(d, t.count + 1) BY <1>2
  <2>4. HeaderLen \in Nat /\ HeaderLen >= 1 BY HttpAssumption
  <2> HIDE DEF u
  <2>5. Between(d, u, b) BY <1>1, <2>1, <2>3, <2>4 DEF Between
  <2>6. (IF t.active /\ t.remaining = 0 THEN Completed(t) ELSE t) = u
    BY <1>2 DEF u
  <2> QED BY <2>1, <2>2, <2>5, <2>6
<1>3. CASE t.remaining # 0
  <2>1. messages'[d] = messages[d] BY <1>3, ObservedFacts
  <2>2. InFrame(d, t, b) BY <1>1, <1>3 DEF InFrame
  <2>3. (IF t.active /\ t.remaining = 0 THEN Completed(t) ELSE t) = t BY <1>3
  <2> QED BY <2>1, <2>2, <2>3
<1> QED BY <1>2, <1>3

(* InStep, of the state after a step. *)
LEMMA InStepPrime ==
    ASSUME exchange' = exchange, NEW d \in Directions,
           IF stream'[d].active THEN InFrame(d, stream'[d], Parsed(d)')
           ELSE Between(d, stream'[d], Parsed(d)'),
           messages'[d] = Exact(d, Observable(stream'[d].count))
    PROVE  InStep(d)'
<1>1. /\ \A m : End(d, m)' = End(d, m)
      /\ \A n : Observable(n)' = Observable(n)
      /\ \A n : Exact(d, n)' = Exact(d, n)
  BY Frozen
<1>2. messages'[d] = Exact(d, Observable(stream[d].count))'
  BY Zenon DEF Exact, Observable
<1>3. CASE stream'[d].active
  <2>1. InFrame(d, stream'[d], Parsed(d)') BY <1>3
  <2>2. InFrame(d, stream[d], Parsed(d))' BY <1>1, <2>1, Zenon DEF InFrame
  <2> QED BY <1>2, <1>3, <2>2, Zenon DEF InStep
<1>4. CASE ~stream'[d].active
  <2>1. Between(d, stream'[d], Parsed(d)') BY <1>4
  <2>2. Between(d, stream[d], Parsed(d))' BY <1>1, <2>1, Zenon DEF Between
  <2> QED BY <1>2, <1>4, <2>2, Zenon DEF InStep
<1> QED BY <1>3, <1>4

(* A direction that a step leaves alone stays in step. *)
LEMMA InStepSame ==
    ASSUME exchange' = exchange, NEW d \in Directions, InStep(d),
           stream'[d].active = stream[d].active,
           stream'[d].header = stream[d].header, stream'[d].count = stream[d].count,
           stream'[d].length = stream[d].length,
           stream'[d].remaining = stream[d].remaining,
           stream'[d].capture = stream[d].capture,
           messages'[d] = messages[d], Parsed(d)' = Parsed(d)
    PROVE  InStep(d)'
<1>1. IF stream'[d].active THEN InFrame(d, stream'[d], Parsed(d)')
      ELSE Between(d, stream'[d], Parsed(d)')
  BY DEF InStep, InFrame, Between
<1>2. messages'[d] = Exact(d, Observable(stream'[d].count)) BY DEF InStep
<1> QED BY <1>1, <1>2, InStepPrime

(* feed keeps the parser in step, and blames only a bad header. *)
LEMMA FeedParses ==
    ASSUME Inv, NEW d \in Directions, Feed(d)
    PROVE  /\ InStep(d)'
           /\ stream' \in [Directions -> StreamState]
           /\ \A e \in Directions : e # d => stream'[e] = stream[e]
           /\ stream'[d].flawed =>
                stream[d].flawed \/ \E m \in 1..Len(exchange[d]) : ~exchange[d][m].valid
<1> DEFINE s == stream[d]
           P == Parsed(d)
           N == Len(exchange[d])
<1>1. PICK n \in Nat, t \in StreamState :
             /\ exchange.kind = "grpc" /\ n >= 1 /\ n <= chunk[d].left
             /\ chunk' \in [Directions -> [size : Nat, left : Nat]]
             /\ chunk'[d].size = chunk[d].size /\ chunk'[d].left = chunk[d].left - n
             /\ \A e \in Directions : e # d => chunk'[e] = chunk[e]
             /\ Observed(d, t)
             /\ stream' = [stream EXCEPT ![d] =
                             IF t.active /\ t.remaining = 0 THEN Completed(t) ELSE t]
             /\ InStep(d)
             /\ s.active =>
                  /\ n = Smaller(chunk[d].left, s.remaining)
                  /\ n <= s.remaining /\ t = BodyFed(s, n)
             /\ ~s.active =>
                  /\ n = Smaller(chunk[d].left, HeaderLen - s.header)
                  /\ t = HeaderFed(d, s, n, P + n)
  BY FeedShape
<1> DEFINE u == IF t.active /\ t.remaining = 0 THEN Completed(t) ELSE t
<1>2. /\ exchange' = exchange /\ total' = total BY DEF Feed
<1>3. TypeOK /\ exchange \in Exchanges /\ s \in StreamState /\ HeaderLen \in Nat
      /\ stream \in [Directions -> StreamState] /\ total[d] \in Nat
      /\ chunk[d] \in [size : Nat, left : Nat] /\ CaptureLimit \in Nat
  BY HttpAssumption DEF Inv, TypeOK
<1>4. chunk[d].left \in Nat /\ chunk[d].size \in Nat BY <1>3
<1>5. /\ s.remaining \in Nat /\ s.header \in Nat /\ s.active \in BOOLEAN /\ s.count \in Nat
      /\ s.length \in Nat /\ s.flawed \in BOOLEAN
  BY <1>3 DEF StreamState
<1>6. Framed BY <1>1 DEF Framed
<1>7. chunk[d].left <= chunk[d].size /\ total[d] + chunk[d].size <= Size(d)
  BY DEF Inv, Flowing
<1>8. P = total[d] + (chunk[d].size - chunk[d].left) /\ P \in Nat /\ P + n <= Size(d)
  <2>1. P = total[d] + (chunk[d].size - chunk[d].left) BY <1>1 DEF Parsed
  <2>2. Size(d) \in Nat BY <1>3, <1>6, Positions
  <2> QED BY <1>1, <1>3, <1>4, <1>7, <2>1, <2>2
<1>9. Parsed(d)' = P + n
  <2>1. Parsed(d)' = total[d] + (chunk[d].size - (chunk[d].left - n))
    BY <1>1, <1>2 DEF Parsed
  <2> QED BY <1>1, <1>3, <1>4, <1>8, <2>1
<1>10. stream'[d] = u /\ \A e \in Directions : e # d => stream'[e] = stream[e]
  BY <1>1, <1>3
<1>11. ASSUME u \in StreamState PROVE stream' \in [Directions -> StreamState]
  <2> HIDE DEF u
  <2>1. stream' = [stream EXCEPT ![d] = u] BY <1>1 DEF u
  <2> QED BY <1>3, <1>11, <2>1
<1>12. messages[d] = Exact(d, Observable(s.count)) BY <1>1 DEF InStep
<1> HIDE DEF s, P, u
<1>13. CASE s.active
  <2>1. InFrame(d, s, P) BY <1>1, <1>13 DEF InStep, s, P
  <2>2. /\ s.count + 1 <= N /\ s.header = 0 /\ s.length = exchange[d][s.count + 1].length
        /\ s.remaining <= s.length /\ P + s.remaining = End(d, s.count + 1)
        /\ s.capture = Smaller(CaptureLimit, s.length - s.remaining)
    BY <2>1 DEF InFrame
  <2>3. n <= s.remaining /\ t = BodyFed(s, n) BY <1>1, <1>13
  <2>4. /\ t.remaining = s.remaining - n
        /\ t.capture = Smaller(CaptureLimit, s.capture + n)
        /\ t.header = s.header /\ t.active = s.active /\ t.length = s.length
        /\ t.count = s.count /\ t.flawed = s.flawed
    BY <1>3, <2>3, BodyFedFacts
  <2>5. t.capture = Smaller(CaptureLimit, t.length - t.remaining)
    <3>1. \A a, l, r, k \in Nat : r <= l /\ k <= r =>
            Smaller(a, Smaller(a, l - r) + k) = Smaller(a, l - (r - k))
      BY DEF Smaller
    <3>2. Smaller(CaptureLimit, Smaller(CaptureLimit, s.length - s.remaining) + n) =
            Smaller(CaptureLimit, s.length - (s.remaining - n))
      <4>1. /\ s.length \in Nat /\ s.remaining \in Nat /\ n \in Nat /\ CaptureLimit \in Nat
            /\ s.remaining <= s.length /\ n <= s.remaining
        BY <1>3, <1>5, <2>2, <2>3
      <4> QED BY <3>1, <4>1
    <3> QED BY <2>2, <2>4, <3>2
  <2>6. P + n \in Nat /\ (P + n) + t.remaining = End(d, t.count + 1)
        /\ t.remaining <= t.length
    <3>1. \A l, r, k, a, e \in Nat : r <= l /\ k <= r /\ a + r = e =>
            a + k \in Nat /\ (a + k) + (r - k) = e /\ r - k <= l
      OBVIOUS
    <3>2. End(d, s.count + 1) \in Nat BY <1>5, <1>8, <2>2
    <3>3. P + n \in Nat /\ (P + n) + (s.remaining - n) = End(d, s.count + 1)
          /\ s.remaining - n <= s.length
      <4>1. /\ s.length \in Nat /\ s.remaining \in Nat /\ n \in Nat /\ P \in Nat
            /\ s.remaining <= s.length /\ n <= s.remaining
            /\ P + s.remaining = End(d, s.count + 1)
        BY <1>5, <1>8, <2>2, <2>3
      <4> QED BY <3>1, <3>2, <4>1
    <3> QED BY <2>4, <3>3
  <2>7. /\ messages[d] = Exact(d, Observable(t.count)) /\ t.active /\ t.header = 0
        /\ t.count + 1 <= Len(exchange[d])
        /\ t.length = exchange[d][t.count + 1].length
    BY <1>12, <1>13, <2>2, <2>4
  <2>8. /\ u \in StreamState /\ u.flawed = t.flawed
        /\ IF u.active THEN InFrame(d, u, P + n) ELSE Between(d, u, P + n)
        /\ messages'[d] = Exact(d, Observable(u.count))
    BY <1>1, <1>2, <1>3, <1>6, <2>5, <2>6, <2>7, Advanced DEF u
  <2>9. InStep(d)'
    BY <1>2, <1>9, <1>10, <2>8, InStepPrime
  <2> QED BY <1>10, <1>11, <2>4, <2>8, <2>9 DEF s
<1>14. CASE ~s.active /\ s.header + n < HeaderLen
  <2>1. Between(d, s, P) BY <1>1, <1>14 DEF InStep, s, P
  <2>2. t = HeaderFed(d, s, n, P + n) BY <1>1, <1>14
  <2>3. /\ t.header = s.header + n /\ t.active = s.active /\ t.flawed = s.flawed
        /\ t.count = s.count
    BY <1>3, <1>14, <2>2, HeaderFedFacts
  <2>4. u = t BY <1>14, <2>3 DEF u
  <2>5. messages'[d] = messages[d] BY <1>1, <1>3, <1>14, <2>3, ObservedFacts
  <2>6. exchange.answer # "upgrade" BY <1>1, <1>3, HttpAssumption
  <2>7. P + n = End(d, t.count) + t.header
    <3>1. End(d, s.count) \in Nat
      <4>1. s.count \in 0..N BY <1>5, <2>1 DEF Between
      <4> QED BY <1>3, <1>6, <4>1, Positions
    <3> QED BY <1>5, <2>1, <2>3, <3>1 DEF Between
  <2>8. Between(d, u, P + n)
    BY <1>14, <2>1, <2>3, <2>4, <2>6, <2>7 DEF Between
  <2>9. InStep(d)'
    <3>1. ~u.active /\ messages'[d] = Exact(d, Observable(u.count))
      BY <1>12, <1>14, <2>3, <2>4, <2>5
    <3> QED BY <1>2, <1>9, <1>10, <2>8, <3>1, InStepPrime
  <2> QED BY <1>10, <1>11, <2>3, <2>4, <2>9 DEF s
<1>15. CASE ~s.active /\ ~(s.header + n < HeaderLen)
  <2>1. Between(d, s, P) BY <1>1, <1>15 DEF InStep, s, P
  <2>2. /\ t = HeaderFed(d, s, n, P + n)
        /\ n = Smaller(chunk[d].left, HeaderLen - s.header)
    BY <1>1, <1>15
  <2>3. s.count \in 0..N /\ s.header < HeaderLen /\ P = End(d, s.count) + s.header
    BY <1>5, <2>1 DEF Between
  <2>4. /\ N \in Nat /\ HeaderLen >= 1 /\ Size(d) = End(d, N)
        /\ \A m \in 0..N : End(d, m) \in Nat
        /\ \A m \in 1..N : exchange[d][m].length \in Nat
        /\ \A m \in 1..N : End(d, m) = End(d, m - 1) + HeaderLen + exchange[d][m].length
    BY <1>3, <1>6, Positions
  <2>5. End(d, s.count) \in Nat /\ End(d, N) \in Nat BY <2>3, <2>4
  <2>6. s.header + n = HeaderLen
    BY <1>1, <1>3, <1>4, <1>5, <1>15, <2>2, <2>3 DEF Smaller
  <2>7. P + n = End(d, s.count) + HeaderLen BY <1>1, <1>5, <2>3, <2>5, <2>6
  <2>8. s.count + 1 <= N
    <3>1. CASE s.count = N BY <1>3, <1>8, <2>4, <2>5, <2>7, <3>1
    <3> QED BY <2>3, <2>4, <3>1
  <2> DEFINE f == exchange[d][s.count + 1]
  <2>9. FrameAt(d, P + n) = f BY <1>3, <1>5, <1>6, <2>7, <2>8, FrameFound
  <2>10. s.count + 1 \in 1..N /\ (s.count + 1) - 1 = s.count
    <3>1. \A c, m \in Nat : c + 1 <= m => c + 1 \in 1..m /\ (c + 1) - 1 = c OBVIOUS
    <3> QED BY <1>5, <2>4, <2>8, <3>1, Zenon
  <2>11. f.length \in Nat /\ End(d, s.count + 1) = End(d, s.count) + HeaderLen + f.length
    BY <2>4, <2>10
  <2>12. /\ t.count = s.count /\ t.header = 0 /\ t.active /\ t.length = f.length
         /\ t.remaining = f.length /\ t.capture = 0
         /\ t.flawed = (s.flawed \/ ~f.valid)
    BY <1>3, <1>15, <2>2, <2>9, HeaderFedFacts
  <2>13. t.capture = Smaller(CaptureLimit, t.length - t.remaining)
    BY <1>3, <2>11, <2>12 DEF Smaller
  <2>14. P + n \in Nat /\ (P + n) + t.remaining = End(d, t.count + 1)
         /\ t.remaining <= t.length
    BY <1>8, <2>7, <2>11, <2>12, <2>5
  <2>15. /\ messages[d] = Exact(d, Observable(t.count))
         /\ t.count + 1 <= Len(exchange[d])
         /\ t.length = exchange[d][t.count + 1].length
    BY <1>12, <2>8, <2>12
  <2>16. /\ u \in StreamState /\ u.flawed = t.flawed
         /\ IF u.active THEN InFrame(d, u, P + n) ELSE Between(d, u, P + n)
         /\ messages'[d] = Exact(d, Observable(u.count))
    BY <1>1, <1>2, <1>3, <1>6, <2>12, <2>13, <2>14, <2>15, Advanced DEF u
  <2>17. InStep(d)'
    BY <1>2, <1>9, <1>10, <2>16, InStepPrime
  <2>18. u.flawed => s.flawed \/ \E m \in 1..N : ~exchange[d][m].valid
    BY <2>10, <2>12, <2>16
  <2> QED BY <1>10, <1>11, <2>16, <2>17, <2>18 DEF s
<1> QED BY <1>13, <1>14, <1>15

(* An upgraded connection's frames: each step of a copier keeps it in step. *)
LEMMA FrameParses ==
    ASSUME Inv, NEW d \in Directions, FrameHeader(d) \/ FrameBody(d)
    PROVE  /\ InStep(d)'
           /\ stream' \in [Directions -> StreamState]
           /\ \A e \in Directions : e # d => stream'[e] = stream[e]
           /\ exchange.kind = "websocket"
           /\ \E b \in Nat : passed' = [passed EXCEPT ![d] = b]
           /\ \E t \in StreamState : Observed(d, t)
<1> DEFINE s == stream[d]
           P == passed[d]
           N == Len(exchange[d])
<1>1. exchange' = exchange BY DEF FrameHeader, FrameBody
<1>2. TypeOK /\ exchange \in Exchanges /\ s \in StreamState /\ HeaderLen \in Nat
      /\ stream \in [Directions -> StreamState] /\ CaptureLimit \in Nat
      /\ P \in Nat /\ passed \in [Directions -> Nat] /\ Chunks \subseteq Nat
  BY HttpAssumption DEF Inv, TypeOK
<1>3. /\ s.remaining \in Nat /\ s.header \in Nat /\ s.active \in BOOLEAN /\ s.count \in Nat
      /\ s.length \in Nat
  BY <1>2 DEF StreamState
<1>4. exchange.answer = "upgrade" BY DEF Inv, Routed, FrameHeader, FrameBody, Relaying
<1>5. exchange.kind = "websocket" /\ Framed BY <1>2, <1>4, HttpAssumption DEF Framed
<1>6. InStep(d) BY <1>5 DEF Inv, Parsing, Misled
<1>7. Parsed(d) = P /\ Parsed(d)' = passed'[d] BY <1>1, <1>5 DEF Parsed
<1>8. messages[d] = Exact(d, Observable(s.count)) BY <1>6 DEF InStep
<1> DEFINE U(t) == IF t.active /\ t.remaining = 0 THEN Completed(t) ELSE t
<1>9. ASSUME NEW t \in StreamState, NEW b \in Nat, Observed(d, t),
             passed' = [passed EXCEPT ![d] = b],
             stream' = [stream EXCEPT ![d] = IF t.remaining = 0 THEN Completed(t) ELSE t],
             t.active, t.header = 0, t.count = s.count, t.count + 1 <= N,
             t.length = exchange[d][t.count + 1].length, t.remaining <= t.length,
             b + t.remaining = End(d, t.count + 1),
             t.capture = Smaller(CaptureLimit, t.length - t.remaining)
      PROVE  InStep(d)' /\ stream' \in [Directions -> StreamState]
  <2>1. messages[d] = Exact(d, Observable(t.count)) BY <1>8, <1>9
  <2>2. /\ U(t) \in StreamState
        /\ IF U(t).active THEN InFrame(d, U(t), b) ELSE Between(d, U(t), b)
        /\ messages'[d] = Exact(d, Observable(U(t).count))
    BY <1>1, <1>2, <1>5, <1>9, <2>1, Advanced
  <2>3. (IF t.remaining = 0 THEN Completed(t) ELSE t) = U(t) BY <1>9
  <2> HIDE DEF U
  <2>4. stream' = [stream EXCEPT ![d] = U(t)] BY <1>9, <2>3
  <2>5. stream' \in [Directions -> StreamState] /\ stream'[d] = U(t) BY <1>2, <2>2, <2>4
  <2>6. passed'[d] = b BY <1>2, <1>9
  <2>7. InStep(d)' BY <1>1, <1>7, <2>2, <2>5, <2>6, InStepPrime
  <2> QED BY <2>5, <2>7
<1> HIDE DEF P, U, s
<1>10. CASE FrameHeader(d)
  <2> DEFINE f == exchange[d][s.count + 1]
             t == Opened(f, s.count)
  <2>1. /\ ~s.active /\ s.count < N
        /\ passed' = [passed EXCEPT ![d] = P + HeaderLen]
        /\ Observed(d, t)
        /\ stream' = [stream EXCEPT ![d] = IF t.remaining = 0 THEN Completed(t) ELSE t]
    BY <1>2, <1>10, Zenon DEF FrameHeader, Opened, P, s
  <2>2. Between(d, s, P) BY <1>6, <1>7, <2>1 DEF InStep, s
  <2>3. s.header = 0 /\ P = End(d, s.count) + 0 BY <1>4, <2>2 DEF Between
  <2>4. /\ N \in Nat
        /\ \A m \in 0..N : End(d, m) \in Nat
        /\ \A m \in 1..N : End(d, m) = End(d, m - 1) + HeaderLen + exchange[d][m].length
    BY <1>2, <1>5, Positions
  <2>5. s.count + 1 \in 1..N /\ (s.count + 1) - 1 = s.count /\ s.count + 1 <= N
    <3>1. \A c, m \in Nat : c < m => c + 1 \in 1..m /\ (c + 1) - 1 = c /\ c + 1 <= m OBVIOUS
    <3> QED BY <1>3, <2>1, <2>4, <3>1, Zenon
  <2>6. f \in Frames BY <1>2, <2>5, ExchangeType
  <2>7. f.length \in Nat BY <2>6 DEF Frames
  <2>8. End(d, s.count + 1) = End(d, s.count) + HeaderLen + f.length BY <2>4, <2>5
  <2>9. /\ t \in StreamState /\ t.count = s.count /\ t.header = 0 /\ t.active
        /\ t.length = f.length /\ t.remaining = f.length /\ t.capture = 0
    BY <1>3, <2>6, OpenedFacts
  <2>10. t.capture = Smaller(CaptureLimit, t.length - t.remaining)
    BY <1>2, <2>7, <2>9 DEF Smaller
  <2>11. P + HeaderLen \in Nat /\ (P + HeaderLen) + t.remaining = End(d, t.count + 1)
         /\ t.remaining <= t.length
    <3>1. P \in Nat BY <1>2 DEF P
    <3>2. \A a, h, l, e, r \in Nat : a = r + 0 /\ e = r + h + l =>
            a + h \in Nat /\ (a + h) + l = e /\ l <= l
      OBVIOUS
    <3>3. End(d, s.count) \in Nat /\ End(d, s.count + 1) \in Nat
      BY <1>2, <2>3, <2>4, <2>5, <2>7, <2>8, <3>1
    <3>4. P + HeaderLen \in Nat /\ (P + HeaderLen) + f.length = End(d, s.count + 1)
          /\ f.length <= f.length
      <4> HIDE DEF f
      <4>1. /\ P \in Nat /\ HeaderLen \in Nat /\ f.length \in Nat
            /\ End(d, s.count + 1) \in Nat /\ End(d, s.count) \in Nat
            /\ P = End(d, s.count) + 0
            /\ End(d, s.count + 1) = End(d, s.count) + HeaderLen + f.length
        BY <1>2, <2>3, <2>7, <2>8, <3>1, <3>3
      <4> QED BY <3>2, <4>1
    <3> QED BY <2>9, <3>4
  <2>12. t.count + 1 <= N /\ t.length = exchange[d][t.count + 1].length BY <2>5, <2>9
  <2> HIDE DEF t, f
  <2>13. InStep(d)' /\ stream' \in [Directions -> StreamState]
    BY <1>9, <2>1, <2>9, <2>10, <2>11, <2>12, Zenon
  <2>14. \A e \in Directions : e # d => stream'[e] = stream[e] BY <1>2, <2>1
  <2> QED BY <1>5, <2>1, <2>9, <2>11, <2>13, <2>14
<1>11. CASE FrameBody(d)
  <2>1. PICK k \in Chunks :
        /\ s.active /\ k <= s.remaining
        /\ passed' = [passed EXCEPT ![d] = P + k]
        /\ Observed(d, BodyFed(s, k))
        /\ stream' = [stream EXCEPT ![d] = IF BodyFed(s, k).remaining = 0
                                             THEN Completed(BodyFed(s, k)) ELSE BodyFed(s, k)]
    BY <1>2, <1>11, Zenon DEF FrameBody, P, s
  <2> DEFINE t == BodyFed(s, k)
  <2>2. k \in Nat BY <1>2, <2>1
  <2>3. InFrame(d, s, P) BY <1>6, <1>7, <2>1 DEF InStep, s
  <2>4. /\ s.count + 1 <= N /\ s.header = 0 /\ s.length = exchange[d][s.count + 1].length
        /\ s.remaining <= s.length /\ P + s.remaining = End(d, s.count + 1)
        /\ s.capture = Smaller(CaptureLimit, s.length - s.remaining)
    BY <2>3 DEF InFrame
  <2>5. /\ t \in StreamState
        /\ t.remaining = s.remaining - k
        /\ t.capture = Smaller(CaptureLimit, s.capture + k)
        /\ t.header = s.header /\ t.active = s.active /\ t.length = s.length
        /\ t.count = s.count
    BY <1>2, <2>1, <2>2, BodyFedFacts
  <2>6. t.capture = Smaller(CaptureLimit, t.length - t.remaining)
    <3>1. \A a, l, r, i \in Nat : r <= l /\ i <= r =>
            Smaller(a, Smaller(a, l - r) + i) = Smaller(a, l - (r - i))
      BY DEF Smaller
    <3>2. /\ s.length \in Nat /\ s.remaining \in Nat /\ k \in Nat /\ CaptureLimit \in Nat
          /\ s.remaining <= s.length /\ k <= s.remaining
      BY <1>2, <1>3, <2>1, <2>2, <2>4
    <3>3. Smaller(CaptureLimit, Smaller(CaptureLimit, s.length - s.remaining) + k) =
            Smaller(CaptureLimit, s.length - (s.remaining - k))
      BY <3>1, <3>2
    <3> QED BY <2>4, <2>5, <3>3
  <2>7. P + k \in Nat /\ (P + k) + t.remaining = End(d, t.count + 1)
        /\ t.remaining <= t.length
    <3>1. \A l, r, i, a, e \in Nat : r <= l /\ i <= r /\ a + r = e =>
            a + i \in Nat /\ (a + i) + (r - i) = e /\ r - i <= l
      OBVIOUS
    <3>2. /\ s.length \in Nat /\ s.remaining \in Nat /\ k \in Nat /\ P \in Nat
          /\ s.remaining <= s.length /\ k <= s.remaining
          /\ P + s.remaining = End(d, s.count + 1)
      <4>1. P \in Nat BY <1>2 DEF P
      <4> QED BY <1>3, <2>1, <2>2, <2>4, <4>1
    <3>3. End(d, s.count + 1) \in Nat BY <3>2
    <3>4. P + k \in Nat /\ (P + k) + (s.remaining - k) = End(d, s.count + 1)
          /\ s.remaining - k <= s.length
      BY <3>1, <3>2, <3>3
    <3> QED BY <2>5, <3>4
  <2>8. /\ t.active /\ t.header = 0 /\ t.count + 1 <= N
        /\ t.length = exchange[d][t.count + 1].length
    BY <2>1, <2>4, <2>5
  <2>9. /\ Observed(d, t)
        /\ stream' = [stream EXCEPT ![d] = IF t.remaining = 0 THEN Completed(t) ELSE t]
    BY <2>1
  <2> HIDE DEF t
  <2>10. InStep(d)' /\ stream' \in [Directions -> StreamState]
    BY <1>9, <2>1, <2>5, <2>6, <2>7, <2>8, <2>9
  <2>11. \A e \in Directions : e # d => stream'[e] = stream[e] BY <1>2, <2>9
  <2> QED BY <1>5, <2>1, <2>5, <2>7, <2>9, <2>10, <2>11
<1> QED BY <1>10, <1>11

-----------------------------------------------------------------------------
(* The entry that a record adds. *)
NewEntry(outcome) ==
    [outcome |-> outcome, counts |-> [d \in Directions |-> stream[d].count],
     truncated |-> Truncated("response")]

(* A record is the first entry of the log. *)
LEMMA RecordFacts ==
    ASSUME TypeOK, log = <<>>, NEW o \in {"ok", "error"}, Record(o)
    PROVE  /\ log' \in Seq(Entry) /\ Len(log') = 1 /\ log'[1] = NewEntry(o)
<1>1. \A d \in Directions : stream[d] \in StreamState BY DEF TypeOK
<1>2. \A d \in Directions : stream[d].count \in Nat BY <1>1 DEF StreamState
<1>3. [d \in Directions |-> stream[d].count] \in [Directions -> Nat] BY <1>2
<1>4. Truncated("response") \in BOOLEAN BY DEF Truncated
<1>5. NewEntry(o) \in Entry BY <1>3, <1>4 DEF NewEntry, Entry
<1>6. log' = Append(log, NewEntry(o)) BY DEF Record, NewEntry
<1>7. log \in Seq(Entry) BY DEF TypeOK
<1> HIDE DEF NewEntry
<1>8. Len(log) = 0 OBVIOUS
<1> QED BY <1>5, <1>6, <1>7, <1>8

(* The text of an error disturbs the parser of a gRPC response only. *)
LEMMA ErrorTextFacts ==
    ASSUME TypeOK, ErrorText
    PROVE  /\ stream' \in [Directions -> StreamState]
           /\ stream'["request"] = stream["request"]
           /\ exchange.kind # "grpc" => stream' = stream
<1> DEFINE s == stream["response"]
           s1 == [s EXCEPT !.active = TRUE]
           s2 == [s1 EXCEPT !.flawed = TRUE]
           t == IF exchange.kind = "grpc" THEN s2 ELSE s
<1>1. /\ stream \in [Directions -> StreamState] /\ s \in StreamState
      /\ "response" \in Directions /\ "request" \in Directions
  BY DEF TypeOK, Directions
<1>2. s1 \in StreamState BY <1>1, StreamUpdates
<1>3. s2 \in StreamState BY <1>2, StreamUpdates
<1>4. stream' = [stream EXCEPT !["response"] = t] BY Zenon DEF ErrorText
<1>5. t \in StreamState BY <1>1, <1>3
<1>6. exchange.kind # "grpc" => t = s OBVIOUS
<1> HIDE DEF t
<1>7. stream' \in [Directions -> StreamState] /\ stream'["request"] = stream["request"]
  BY <1>1, <1>4, <1>5
<1>8. ASSUME exchange.kind # "grpc" PROVE stream' = stream
  <2>1. stream' = [stream EXCEPT !["response"] = stream["response"]]
    BY <1>4, <1>6, <1>8
  <2> QED BY <1>1, <2>1
<1> QED BY <1>7, <1>8

(* What FinishStreams leaves alone. *)
LEMMA FinishFacts ==
    ASSUME TypeOK, FinishStreams
    PROVE  /\ stream' \in [Directions -> StreamState]
           /\ \A d \in Directions :
                /\ stream'[d].active = stream[d].active
                /\ stream'[d].header = stream[d].header
                /\ stream'[d].count = stream[d].count
                /\ stream'[d].length = stream[d].length
                /\ stream'[d].remaining = stream[d].remaining
                /\ stream'[d].capture = stream[d].capture
                /\ stream'[d].flawed => stream[d].flawed \/ Unfinished(d)
<1>1. stream' = [d \in Directions |-> [stream[d] EXCEPT !.flawed = @ \/ Unfinished(d)]]
  BY DEF FinishStreams
<1>2. ASSUME NEW d \in Directions
      PROVE  LET t == [stream[d] EXCEPT !.flawed = @ \/ Unfinished(d)]
             IN  /\ t \in StreamState
                 /\ t.active = stream[d].active /\ t.header = stream[d].header
                 /\ t.count = stream[d].count /\ t.length = stream[d].length
                 /\ t.remaining = stream[d].remaining /\ t.capture = stream[d].capture
                 /\ t.flawed => stream[d].flawed \/ Unfinished(d)
  <2> DEFINE s == stream[d]
             w == s.flawed \/ Unfinished(d)
             t == [s EXCEPT !.flawed = w]
  <2>1. s \in StreamState /\ w \in BOOLEAN BY DEF TypeOK
  <2>2. w => s.flawed \/ Unfinished(d) OBVIOUS
  <2> HIDE DEF s, w
  <2>3. t \in StreamState BY <2>1, StreamUpdates
  <2>4. /\ t.active = s.active /\ t.header = s.header /\ t.count = s.count
        /\ t.length = s.length /\ t.remaining = s.remaining /\ t.capture = s.capture
        /\ t.flawed = w
    BY <2>1 DEF StreamState
  <2>5. [stream[d] EXCEPT !.flawed = @ \/ Unfinished(d)] = t BY DEF s, w
  <2> HIDE DEF t
  <2> QED BY <2>2, <2>3, <2>4, <2>5 DEF s
<1> DEFINE f(d) == [stream[d] EXCEPT !.flawed = @ \/ Unfinished(d)]
<1>3. \A d \in Directions : stream'[d] = f(d) BY <1>1
<1>4. \A d \in Directions : f(d) \in StreamState BY <1>2
<1>5. stream' \in [Directions -> StreamState] BY <1>1, <1>4, Zenon
<1> QED BY <1>2, <1>3, <1>5, Zenon

(* Bytes that are read, or sent on. *)
LEMMA ChunkFacts ==
    ASSUME TypeOK, NEW d \in Directions
    PROVE  /\ Read(d) =>
                \E k \in Nat :
                  /\ chunk' \in [Directions -> [size : Nat, left : Nat]]
                  /\ chunk'[d].size = k /\ chunk'[d].left <= k
                  /\ exchange.kind = "grpc" => chunk'[d].left = k
                  /\ passed[d] + k <= Size(d) /\ chunk[d].size = 0
                  /\ \A e \in Directions : e # d => chunk'[e] = chunk[e]
           /\ Pass(d) =>
                  /\ chunk' \in [Directions -> [size : Nat, left : Nat]]
                  /\ chunk'[d].size = 0 /\ chunk'[d].left = 0
                  /\ chunk[d].left = 0 /\ chunk[d].size > 0
                  /\ \A e \in Directions : e # d => chunk'[e] = chunk[e]
                  /\ passed' \in [Directions -> Nat] /\ total' \in [Directions -> Nat]
                  /\ passed'[d] = passed[d] + chunk[d].size
                  /\ total'[d] = total[d] + chunk[d].size
                  /\ \A e \in Directions : e # d => /\ passed'[e] = passed[e]
                                                    /\ total'[e] = total[e]
<1>1. /\ chunk \in [Directions -> [size : Nat, left : Nat]]
      /\ passed \in [Directions -> Nat] /\ total \in [Directions -> Nat]
      /\ Chunks \subseteq Nat
  BY HttpAssumption DEF TypeOK
<1>2. chunk[d] \in [size : Nat, left : Nat] BY <1>1
<1>3. ASSUME Read(d)
      PROVE  \E k \in Nat :
                  /\ chunk' \in [Directions -> [size : Nat, left : Nat]]
                  /\ chunk'[d].size = k /\ chunk'[d].left <= k
                  /\ exchange.kind = "grpc" => chunk'[d].left = k
                  /\ passed[d] + k <= Size(d) /\ chunk[d].size = 0
                  /\ \A e \in Directions : e # d => chunk'[e] = chunk[e]
  <2>1. PICK k \in Chunks :
          /\ passed[d] + k <= Size(d)
          /\ chunk' = [chunk EXCEPT ![d] =
                         [size |-> k, left |-> IF exchange.kind = "grpc" THEN k ELSE 0]]
    BY <1>3 DEF Read
  <2> DEFINE l == IF exchange.kind = "grpc" THEN k ELSE 0
             e0 == [size |-> k, left |-> l]
  <2>2. k \in Nat /\ l \in Nat /\ l <= k /\ (exchange.kind = "grpc" => l = k) BY <1>1
  <2> HIDE DEF l
  <2>3. e0 \in [size : Nat, left : Nat] /\ e0.size = k /\ e0.left = l BY <2>2
  <2>4. chunk' = [chunk EXCEPT ![d] = e0] BY <2>1 DEF l
  <2> HIDE DEF e0
  <2>5. /\ chunk' \in [Directions -> [size : Nat, left : Nat]] /\ chunk'[d] = e0
        /\ \A e \in Directions : e # d => chunk'[e] = chunk[e]
    BY <1>1, <2>3, <2>4
  <2>6. chunk[d].size = 0 BY <1>3 DEF Read
  <2> QED BY <2>1, <2>2, <2>3, <2>5, <2>6
<1>4. ASSUME Pass(d)
      PROVE  /\ chunk' \in [Directions -> [size : Nat, left : Nat]]
             /\ chunk'[d].size = 0 /\ chunk'[d].left = 0
             /\ chunk[d].left = 0 /\ chunk[d].size > 0
             /\ \A e \in Directions : e # d => chunk'[e] = chunk[e]
             /\ passed' \in [Directions -> Nat] /\ total' \in [Directions -> Nat]
             /\ passed'[d] = passed[d] + chunk[d].size
             /\ total'[d] = total[d] + chunk[d].size
             /\ \A e \in Directions : e # d => /\ passed'[e] = passed[e]
                                               /\ total'[e] = total[e]
  <2>1. /\ passed' = [passed EXCEPT ![d] = passed[d] + chunk[d].size]
        /\ total' = [total EXCEPT ![d] = total[d] + chunk[d].size]
        /\ chunk[d].left = 0 /\ chunk[d].size > 0
    BY <1>1, <1>4 DEF Pass, Inspected
  <2>2. chunk' = [chunk EXCEPT ![d] = [size |-> 0, left |-> chunk[d].left]]
    BY <1>1, <1>4, Zenon DEF Pass
  <2> DEFINE e0 == [size |-> 0, left |-> 0]
  <2>3. e0 \in [size : Nat, left : Nat] /\ e0.size = 0 /\ e0.left = 0 OBVIOUS
  <2>4. chunk' = [chunk EXCEPT ![d] = e0] BY <2>1, <2>2
  <2> HIDE DEF e0
  <2>5. /\ chunk' \in [Directions -> [size : Nat, left : Nat]] /\ chunk'[d] = e0
        /\ \A e \in Directions : e # d => chunk'[e] = chunk[e]
    BY <1>1, <2>3, <2>4
  <2>6. passed[d] + chunk[d].size \in Nat /\ total[d] + chunk[d].size \in Nat BY <1>1, <1>2
  <2> QED BY <1>1, <2>1, <2>3, <2>5, <2>6
<1> QED BY <1>3, <1>4

(* A copy that fails has counted the chunk it could not send. *)
LEMMA CopyFailsFacts ==
    ASSUME TypeOK, CopyFails
    PROVE  /\ chunk' \in [Directions -> [size : Nat, left : Nat]]
           /\ chunk'["response"].size = 0 /\ chunk'["response"].left = 0
           /\ chunk["response"].left = 0 /\ chunk'["request"] = chunk["request"]
           /\ total' \in [Directions -> Nat] /\ total'["request"] = total["request"]
           /\ total'["response"] = total["response"] + chunk["response"].size
<1> DEFINE c == chunk["response"]
           e == [c EXCEPT !.size = 0]
<1>1. /\ chunk \in [Directions -> [size : Nat, left : Nat]] /\ total \in [Directions -> Nat]
      /\ "response" \in Directions /\ "request" \in Directions
      /\ c \in [size : Nat, left : Nat] /\ c.left = 0
  BY DEF TypeOK, Directions, CopyFails
<1>2. chunk' = [chunk EXCEPT !["response"] = e] BY Zenon DEF CopyFails
<1>3. e \in [size : Nat, left : Nat] /\ e.size = 0 /\ e.left = 0 BY <1>1
<1>4. total' = [total EXCEPT !["response"] = total["response"] + c.size]
  BY DEF CopyFails
<1>5. total["response"] + c.size \in Nat BY <1>1
<1> HIDE DEF e
<1> QED BY <1>1, <1>2, <1>3, <1>4, <1>5

(* Types are kept. *)
LEMMA TypeStep ==
    ASSUME Inv, [Next]_vars
    PROVE  TypeOK'
<1> USE DEF Inv
<1>0. TypeOK BY DEF Inv
<1>x. exchange' = exchange /\ (phase \notin {"relay", "closing", "over"} => log = <<>>)
  BY SameExchange DEF Logged
<1>h. \A p, e : Goto(p, e) => phase' = p /\ err' \in BOOLEAN BY DEF Goto
<1>1. CASE Start BY <1>0, <1>1, <1>h DEF TypeOK, Start, inspection, history
<1>2. CASE TripFails
  <2>1. stream' \in [Directions -> StreamState] BY <1>0, <1>2, ErrorTextFacts DEF TripFails
  <2> QED BY <1>0, <1>2, <1>h, <2>1 DEF TypeOK, TripFails
<1>3. CASE CopyEnds BY <1>0, <1>3, <1>h DEF TypeOK, CopyEnds, inspection, history
<1>4. CASE FinishStreams
  <2>1. stream' \in [Directions -> StreamState] BY <1>0, <1>4, FinishFacts
  <2> QED BY <1>0, <1>4, <1>h, <2>1 DEF TypeOK, FinishStreams, history
<1>5. CASE RecordCall
  <2>1. log' \in Seq(Entry)
    <3>1. log = <<>> BY <1>5, <1>x DEF RecordCall
    <3>2. CASE Record("error") BY <1>0, <3>1, <3>2, RecordFacts
    <3>3. CASE Record("ok") BY <1>0, <3>1, <3>3, RecordFacts
    <3> QED BY <1>5, <3>2, <3>3 DEF RecordCall
  <2> QED BY <1>0, <1>5, <1>h, <2>1 DEF TypeOK, RecordCall, inspection, history
<1>6. CASE RecordExchange
  <2>1. log' \in Seq(Entry)
    <3>1. log = <<>> BY <1>6, <1>x DEF RecordExchange
    <3>2. CASE Record("error") BY <1>0, <3>1, <3>2, RecordFacts
    <3>3. CASE Record("ok") BY <1>0, <3>1, <3>3, RecordFacts
    <3> QED BY <1>6, <3>2, <3>3 DEF RecordExchange
  <2> QED BY <1>0, <1>6, <1>h, <2>1 DEF TypeOK, RecordExchange, inspection, history
<1>7. CASE Switch
  <2>1. log' \in Seq(Entry) BY <1>0, <1>7, <1>x, RecordFacts DEF Switch
  <2> QED BY <1>0, <1>7, <1>h, <2>1 DEF TypeOK, Switch, inspection, history
<1>8. CASE SwitchFails BY <1>0, <1>8, <1>h DEF TypeOK, SwitchFails, inspection
<1>9. CASE CloseSocket BY <1>0, <1>9, <1>h DEF TypeOK, CloseSocket, inspection, history
<1>10. CASE SocketDone BY <1>0, <1>10, <1>h DEF TypeOK, SocketDone, inspection, history
<1>11. CASE Hijack BY <1>0, <1>11, <1>h DEF TypeOK, Hijack, inspection, history
<1>12. CASE HijackFails BY <1>0, <1>12, <1>h DEF TypeOK, HijackFails, inspection
<1>13. CASE Answered
  <2>1. stream' \in [Directions -> StreamState]
    BY <1>0, <1>13, ErrorTextFacts DEF Answered, TypeOK
  <2>2. phase' \in {"hijack", "finish", "copy"} /\ err' \in BOOLEAN
    <3>1. \/ Goto("hijack", FALSE) \/ Goto("finish", TRUE)
          \/ Goto("copy", exchange.answer = "failed")
      BY <1>13, Zenon DEF Answered
    <3> QED BY <1>h, <3>1
  <2> QED BY <1>0, <1>13, <2>1, <2>2 DEF TypeOK, Answered
<1>14. CASE CopyFails
  BY <1>0, <1>14, <1>h, CopyFailsFacts DEF TypeOK, CopyFails
<1>15. CASE CloseOnCancel BY <1>0, <1>15 DEF TypeOK, CloseOnCancel, inspection, history
<1>16. CASE Cancel BY <1>0, <1>16 DEF TypeOK, Cancel, inspection, history
<1>17. ASSUME NEW d \in Directions, Read(d) PROVE TypeOK'
  <2>1. chunk' \in [Directions -> [size : Nat, left : Nat]] BY <1>0, <1>17, ChunkFacts
  <2> QED BY <1>0, <1>17, <2>1 DEF TypeOK, Read, inspection, history
<1>18. ASSUME NEW d \in Directions, Feed(d) PROVE TypeOK'
  <2>1. stream' \in [Directions -> StreamState] BY <1>18, FeedParses
  <2>2. /\ chunk' \in [Directions -> [size : Nat, left : Nat]]
        /\ \E t \in StreamState : Observed(d, t)
    BY <1>18, FeedShape
  <2>3. messages' \in [Directions -> Seq(Message)] BY <1>0, <2>2, ObservedFacts
  <2> QED BY <1>0, <1>18, <2>1, <2>2, <2>3 DEF TypeOK, Feed, history
<1>19. ASSUME NEW d \in Directions, Pass(d) PROVE TypeOK'
  BY <1>0, <1>19, ChunkFacts DEF TypeOK, Pass, history
<1>20. ASSUME NEW d \in Directions, FrameHeader(d) \/ FrameBody(d) PROVE TypeOK'
  <2>1. /\ stream' \in [Directions -> StreamState]
        /\ \E b \in Nat : passed' = [passed EXCEPT ![d] = b]
        /\ \E t \in StreamState : Observed(d, t)
    BY <1>20, FrameParses
  <2>2. messages' \in [Directions -> Seq(Message)] BY <1>0, <2>1, ObservedFacts
  <2>3. passed' \in [Directions -> Nat] BY <1>0, <2>1 DEF TypeOK
  <2> QED BY <1>0, <1>20, <2>1, <2>2, <2>3 DEF TypeOK, FrameHeader, FrameBody, history
<1>21. ASSUME NEW d \in Directions, CopierEnds(d) PROVE TypeOK'
  BY <1>0, <1>21 DEF TypeOK, CopierEnds, inspection, history
<1>22. CASE UNCHANGED vars BY <1>0, <1>22 DEF TypeOK, vars, inspection, history
<1> QED BY <1>1, <1>2, <1>3, <1>4, <1>5, <1>6, <1>7, <1>8, <1>9, <1>10, <1>11, <1>12,
           <1>13, <1>14, <1>15, <1>16, <1>17, <1>18, <1>19, <1>20, <1>21, <1>22
        DEF Next, Handler, Copier

(* Where an answer takes the handler. *)
LEMMA AnsweredFacts ==
    ASSUME TypeOK, Answered
    PROVE  /\ phase = "trip"
           /\ exchange.answer = "upgrade" => phase' = "hijack" /\ err' = (err \/ FALSE)
           /\ exchange.answer = "invalid" => phase' = "finish" /\ err' /\ ErrorText
           /\ exchange.answer # "invalid" => stream' = stream
           /\ exchange.answer \notin {"upgrade", "invalid"} =>
                /\ phase' = "copy" /\ err' = (err \/ exchange.answer = "failed")
                /\ exchange.answer \in {"ok", "failed"}
<1>1. exchange.answer \in {"ok", "failed", "upgrade", "invalid"}
  BY HttpAssumption DEF TypeOK
<1> DEFINE a == exchange.answer
<1>2. a = "upgrade" => Goto("hijack", FALSE) BY Zenon DEF Answered
<1>3. a = "invalid" => Goto("finish", TRUE)
  <2>1. a = "invalid" => a # "upgrade" OBVIOUS
  <2> QED BY <2>1, Zenon DEF Answered
<1>4. a # "upgrade" /\ a # "invalid" => Goto("copy", a = "failed") BY Zenon DEF Answered
<1>5. phase = "trip" /\ IF a = "invalid" THEN ErrorText ELSE UNCHANGED stream
  BY DEF Answered
<1> QED BY <1>1, <1>2, <1>3, <1>4, <1>5 DEF Goto

(* The handler and the copy take the exchange where its answer leads. *)
LEMMA ControlStep ==
    ASSUME Inv, [Next]_vars, TypeOK'
    PROVE  Routed' /\ Known' /\ Logged'
<1>0. TypeOK /\ Routed /\ Known /\ Logged /\ Flowing BY DEF Inv
<1>x. exchange' = exchange BY SameExchange
<1>t. /\ exchange.kind \in {"http", "grpc", "websocket", "refused"}
      /\ exchange.answer \in {"ok", "failed", "upgrade", "invalid"}
      /\ err \in BOOLEAN /\ broken \in BOOLEAN
      /\ exchange.answer = "upgrade" => exchange.kind = "websocket"
  BY <1>0, HttpAssumption DEF TypeOK
<1>s. Size("response")' = Size("response") BY <1>x, Frozen
<1>r. "response" \in Directions BY DEF Directions
<1> DEFINE K == Routed' /\ Known' /\ Logged'
           Same == UNCHANGED <<phase, err, broken, early, log>>
<1>e. \A o \in {"ok", "error"} : log = <<>> /\ Record(o) => Len(log') = 1
  BY <1>0, RecordFacts
<1>a. ASSUME Same, passed'["response"] = passed["response"] PROVE K
  BY <1>0, <1>a, <1>x, <1>s DEF Routed, Known, Logged
<1>1. CASE Start
  BY <1>0, <1>1, <1>x, <1>t, <1>s
  DEF Start, Goto, Routed, Known, Logged, history, inspection
<1>2. CASE TripFails
  BY <1>0, <1>2, <1>x, <1>t, <1>s
  DEF TripFails, Goto, Routed, Known, Logged, history, inspection
<1>3. CASE CopyEnds
  BY <1>0, <1>3, <1>x, <1>t, <1>s
  DEF CopyEnds, Goto, Routed, Known, Logged, history, inspection
<1>4. CASE FinishStreams
  BY <1>0, <1>4, <1>x, <1>t, <1>s
  DEF FinishStreams, Goto, Routed, Known, Logged, history, inspection
<1>5. CASE RecordCall
  <2>1. log = <<>> BY <1>0, <1>5 DEF RecordCall, Logged
  <2>2. Record("ok") \/ Record("error") BY <1>5 DEF RecordCall
  <2>3. Len(log') = 1 BY <1>e, <2>1, <2>2
  <2> QED BY <1>0, <1>5, <1>x, <1>t, <2>3
          DEF RecordCall, Goto, Routed, Known, Logged, history
<1>6. CASE RecordExchange
  <2>1. log = <<>> BY <1>0, <1>6 DEF RecordExchange, Logged
  <2>2. Record("ok") \/ Record("error") BY <1>6 DEF RecordExchange
  <2>3. Len(log') = 1 BY <1>e, <2>1, <2>2
  <2> QED BY <1>0, <1>6, <1>x, <1>t, <2>3
          DEF RecordExchange, Goto, Routed, Known, Logged, history
<1>7. CASE Switch
  <2>1. log = <<>> BY <1>0, <1>7 DEF Switch, Logged
  <2>2. Len(log') = 1 BY <1>e, <1>7, <2>1 DEF Switch
  <2> QED BY <1>0, <1>7, <1>x, <1>t, <2>2
          DEF Switch, Goto, Routed, Known, Logged, history
<1>8. CASE SwitchFails
  BY <1>0, <1>8, <1>x, <1>t, <1>s
  DEF SwitchFails, Goto, Routed, Known, Logged, history, inspection
<1>9. CASE CloseSocket
  BY <1>0, <1>9, <1>x, <1>t, <1>s
  DEF CloseSocket, Goto, Routed, Known, Logged, history, inspection
<1>10. CASE SocketDone
  BY <1>0, <1>10, <1>x, <1>t, <1>s
  DEF SocketDone, Goto, Routed, Known, Logged, history, inspection
<1>11. CASE Hijack
  BY <1>0, <1>11, <1>x, <1>t, <1>s
  DEF Hijack, Goto, Routed, Known, Logged, history, inspection
<1>12. CASE HijackFails
  BY <1>0, <1>12, <1>x, <1>t, <1>s
  DEF HijackFails, Goto, Routed, Known, Logged, history, inspection
<1>13. CASE Answered
  <2>1. UNCHANGED <<broken, log, passed>> BY <1>13 DEF Answered
  <2> QED BY <1>0, <1>13, <1>x, <1>t, <1>s, <2>1, AnsweredFacts DEF Routed, Known, Logged
<1>14. CASE CopyFails
  BY <1>0, <1>14, <1>x, <1>t, <1>s DEF CopyFails, Goto, Routed, Known, Logged
<1>15. CASE CloseOnCancel BY <1>15, <1>a DEF CloseOnCancel, history
<1>16. CASE Cancel BY <1>16, <1>a DEF Cancel, history
<1>17. ASSUME NEW d \in Directions, Read(d) PROVE K BY <1>17, <1>a DEF Read, history
<1>18. ASSUME NEW d \in Directions, Feed(d) PROVE K BY <1>18, <1>a DEF Feed, history
<1>19. ASSUME NEW d \in Directions, Pass(d) PROVE K
  <2>1. Same BY <1>19 DEF Pass, history
  <2>2. phase = "copy" \/ passed'["response"] = passed["response"]
    <3>1. CASE d = "response"
      <4>1. chunk["response"].size > 0 BY <1>19, <3>1 DEF Pass, Inspected
      <4> QED BY <1>0, <4>1 DEF Flowing
    <3>2. CASE d # "response" BY <1>0, <1>19, <1>r, <3>2, ChunkFacts
    <3> QED BY <3>1, <3>2
  <2> QED BY <1>0, <1>a, <1>x, <2>1, <2>2 DEF Routed, Known, Logged
<1>20. ASSUME NEW d \in Directions, FrameHeader(d) \/ FrameBody(d) PROVE K
  <2>1. Same /\ phase \in {"relay", "closing"}
    BY <1>20 DEF FrameHeader, FrameBody, history, Relaying
  <2> QED BY <1>0, <1>x, <2>1 DEF Routed, Known, Logged
<1>21. ASSUME NEW d \in Directions, CopierEnds(d) PROVE K
  BY <1>21, <1>a DEF CopierEnds, history
<1>22. CASE UNCHANGED vars BY <1>22, <1>a DEF vars, history
<1> QED BY <1>1, <1>2, <1>3, <1>4, <1>5, <1>6, <1>7, <1>8, <1>9, <1>10, <1>11, <1>12,
           <1>13, <1>14, <1>15, <1>16, <1>17, <1>18, <1>19, <1>20, <1>21, <1>22
        DEF Next, Handler, Copier

(* Bytes are read, counted and sent on in this order. *)
LEMMA FlowingStep ==
    ASSUME Inv, [Next]_vars, TypeOK'
    PROVE  Flowing' /\ Delivered'
<1>0. TypeOK /\ Routed /\ Known /\ Delivered /\ Flowing BY DEF Inv
<1>x. exchange' = exchange BY SameExchange
<1>t. /\ exchange.kind \in {"http", "grpc", "websocket", "refused"}
      /\ exchange.answer \in {"ok", "failed", "upgrade", "invalid"}
      /\ exchange.answer = "upgrade" => exchange.kind = "websocket"
      /\ broken \in BOOLEAN /\ early \in BOOLEAN
  BY <1>0, HttpAssumption DEF TypeOK
<1>s. \A d : Size(d)' = Size(d) BY <1>x, Frozen
<1>r. "response" \in Directions /\ "request" \in Directions
      /\ \A d \in Directions : d = "response" \/ d = "request"
  BY DEF Directions
<1>n. \A d \in Directions : /\ passed[d] \in Nat /\ total[d] \in Nat /\ Size(d) \in Nat
                            /\ chunk[d].size \in Nat /\ chunk[d].left \in Nat
  <2> TAKE d \in Directions
  <2>1. exchange \in Exchanges /\ chunk[d] \in [size : Nat, left : Nat] BY <1>0 DEF TypeOK
  <2>2. Len(exchange[d]) \in 0..Len(exchange[d])
    <3>1. Len(exchange[d]) \in Nat BY <2>1, ExchangeType
    <3> QED BY <3>1
  <2>3. Size(d) \in Nat BY <2>1, <2>2, EndStep DEF Size
  <2> QED BY <1>0, <2>1, <2>3 DEF TypeOK
<1> DEFINE K == Flowing' /\ Delivered'
           Still == UNCHANGED <<chunk, passed, total>>
<1>1. CASE Start
  BY <1>0, <1>1, <1>x, <1>t, <1>s
  DEF Start, Goto, Routed, Flowing, Delivered, history, inspection
<1>2. CASE CopyEnds
  BY <1>0, <1>2, <1>x, <1>t, <1>s
  DEF CopyEnds, Goto, Routed, Flowing, Delivered, history, inspection
<1>3. CASE RecordCall
  BY <1>0, <1>3, <1>x, <1>t, <1>s
  DEF RecordCall, Goto, Routed, Flowing, Delivered, history, inspection
<1>4. CASE RecordExchange
  BY <1>0, <1>4, <1>x, <1>t, <1>s
  DEF RecordExchange, Goto, Routed, Flowing, Delivered, history, inspection
<1>5. CASE Switch
  BY <1>0, <1>5, <1>x, <1>t, <1>s
  DEF Switch, Goto, Routed, Flowing, Delivered, history, inspection
<1>6. CASE SwitchFails
  BY <1>0, <1>6, <1>x, <1>t, <1>s
  DEF SwitchFails, Goto, Routed, Flowing, Delivered, history, inspection
<1>7. CASE CloseSocket
  BY <1>0, <1>7, <1>x, <1>t, <1>s
  DEF CloseSocket, Goto, Routed, Flowing, Delivered, history, inspection
<1>8. CASE SocketDone
  BY <1>0, <1>8, <1>x, <1>t, <1>s
  DEF SocketDone, Goto, Routed, Flowing, Delivered, history, inspection
<1>9. CASE Hijack
  BY <1>0, <1>9, <1>x, <1>t, <1>s
  DEF Hijack, Goto, Routed, Flowing, Delivered, history, inspection
<1>10. CASE HijackFails
  BY <1>0, <1>10, <1>x, <1>t, <1>s
  DEF HijackFails, Goto, Routed, Flowing, Delivered, history, inspection
<1>11. CASE TripFails
  BY <1>0, <1>11, <1>x, <1>t, <1>s DEF TripFails, Goto, Routed, Flowing, Delivered
<1>12. CASE FinishStreams
  BY <1>0, <1>12, <1>x, <1>t, <1>s
  DEF FinishStreams, Goto, Routed, Flowing, Delivered, history
<1>13. CASE Answered
  <2>1. Still /\ broken' = broken
        /\ early' = (exchange.kind # "websocket" /\ passed["request"] < Size("request"))
    BY <1>13 DEF Answered
  <2>2. phase = "trip" /\ phase' \in {"hijack", "finish", "copy"}
    BY <1>0, <1>13, <1>t, AnsweredFacts
  <2>3. passed["request"] <= Size("request") \/ exchange.answer = "upgrade"
    BY <1>0, <1>n, <1>r DEF Flowing
  <2>4. Delivered'
    <3>1. ~early' => ~(exchange.kind # "websocket" /\ passed["request"] < Size("request"))
      BY <2>1
    <3>2. ASSUME exchange.kind = "grpc", ~early'
          PROVE  passed["request"] = Size("request")
      <4>1. ~(passed["request"] < Size("request")) BY <3>1, <3>2
      <4>2. passed["request"] <= Size("request") BY <1>t, <2>3, <3>2
      <4>3. passed["request"] \in Nat /\ Size("request") \in Nat BY <1>n, <1>r
      <4> QED BY <4>1, <4>2, <4>3
    <3>3. passed' = passed /\ Size("request")' = Size("request") /\ exchange' = exchange
      BY <1>s, <1>x, <2>1
    <3> QED BY <3>2, <3>3 DEF Delivered
  <2>5. Flowing' BY <1>0, <1>x, <1>s, <2>1, <2>2 DEF Flowing
  <2> QED BY <2>4, <2>5
<1>14. CASE CopyFails
  <2>1. /\ UNCHANGED <<passed, early>> /\ phase = "copy" /\ phase' = "finish" /\ broken'
    BY <1>14 DEF CopyFails, Goto
  <2>2. exchange.answer # "upgrade" BY <1>0, <2>1 DEF Routed
  <2>3. /\ chunk'["response"].size = 0 /\ chunk'["response"].left = 0
        /\ chunk'["request"] = chunk["request"] /\ total'["request"] = total["request"]
        /\ total'["response"] = total["response"] + chunk["response"].size
    BY <1>0, <1>14, CopyFailsFacts
  <2>4. Delivered' BY <2>1 DEF Delivered
  <2>5. \A d \in Directions : chunk'[d].left <= chunk'[d].size
                              /\ total'[d] + chunk'[d].size <= Size(d)
    BY <1>0, <1>n, <1>r, <2>3 DEF Flowing
  <2>6. Flowing' BY <1>0, <1>x, <1>s, <2>1, <2>2, <2>3, <2>5 DEF Flowing
  <2> QED BY <2>4, <2>6
<1>15. CASE CloseOnCancel
  BY <1>0, <1>15, <1>x, <1>s DEF CloseOnCancel, Flowing, Delivered, history, inspection
<1>16. CASE Cancel
  BY <1>0, <1>16, <1>x, <1>s DEF Cancel, Flowing, Delivered, history, inspection
<1>17. ASSUME NEW d \in Directions, Read(d) PROVE K
  <2>1. /\ UNCHANGED <<phase, broken, early, passed, total, stream, messages>>
        /\ Reading(d)
    BY <1>17 DEF Read, history, inspection
  <2>2. PICK k \in Nat :
          /\ chunk'[d].size = k /\ chunk'[d].left <= k
          /\ passed[d] + k <= Size(d)
          /\ \A e \in Directions : e # d => chunk'[e] = chunk[e]
    BY <1>0, <1>17, ChunkFacts
  <2>3. exchange.answer # "upgrade" BY <1>0, <1>t, <2>1, <1>r DEF Reading, Routed
  <2>4. total[d] = passed[d] BY <1>0, <1>r, <2>1, <2>3 DEF Reading, Routed, Flowing
  <2>5. \A e \in Directions : chunk'[e].left <= chunk'[e].size
                              /\ total[e] + chunk'[e].size <= Size(e)
    BY <1>0, <1>n, <2>2, <2>4 DEF Flowing
  <2>6. phase # "copy" => chunk'["response"].size = 0
    BY <1>0, <1>r, <2>1, <2>2 DEF Flowing, Reading
  <2>7. Flowing' BY <1>0, <1>x, <1>s, <2>1, <2>3, <2>5, <2>6 DEF Flowing
  <2>8. Delivered' BY <1>0, <1>x, <1>s, <2>1 DEF Delivered
  <2> QED BY <2>7, <2>8
<1>18. ASSUME NEW d \in Directions, Feed(d) PROVE K
  <2>1. UNCHANGED <<phase, broken, early, passed, total>>
    BY <1>18 DEF Feed, history
  <2>2. PICK n \in Nat, t \in StreamState :
          /\ n <= chunk[d].left /\ n >= 1
          /\ chunk'[d].size = chunk[d].size /\ chunk'[d].left = chunk[d].left - n
          /\ \A e \in Directions : e # d => chunk'[e] = chunk[e]
          /\ Observed(d, t)
    BY <1>18, FeedShape
  <2>3. \A e \in Directions : chunk'[e].size = chunk[e].size /\ chunk'[e].left <= chunk'[e].size
    BY <1>0, <1>n, <2>2 DEF Flowing
  <2>4. phase \in {"start", "trip"} =>
          stream'["response"] = stream["response"] /\ messages'["response"] = messages["response"]
    <3>1. ASSUME phase \in {"start", "trip"} PROVE d # "response"
      BY <1>0, <1>n, <1>r, <2>2, <3>1 DEF Flowing
    <3>2. \A e \in Directions : e # d => stream'[e] = stream[e] BY <1>18, FeedParses
    <3>3. \A e \in Directions : e # d => messages'[e] = messages[e]
      BY <1>0, <2>2, ObservedFacts
    <3> QED BY <1>r, <3>1, <3>2, <3>3
  <2>5. Flowing' BY <1>0, <1>r, <1>x, <1>s, <2>1, <2>3, <2>4 DEF Flowing
  <2>6. Delivered' BY <1>0, <1>x, <1>s, <2>1 DEF Delivered
  <2> QED BY <2>5, <2>6
<1>19. ASSUME NEW d \in Directions, Pass(d) PROVE K
  <2>1. UNCHANGED <<phase, broken, early, stream, messages>> BY <1>19 DEF Pass, history
  <2>2. /\ chunk'[d].size = 0 /\ chunk'[d].left = 0 /\ chunk[d].size > 0
        /\ \A e \in Directions : e # d => chunk'[e] = chunk[e]
        /\ passed'[d] = passed[d] + chunk[d].size
        /\ total'[d] = total[d] + chunk[d].size
        /\ \A e \in Directions : e # d => passed'[e] = passed[e] /\ total'[e] = total[e]
    BY <1>0, <1>19, ChunkFacts
  <2>3. exchange.answer # "upgrade" BY <1>0, <1>n, <2>2 DEF Flowing
  <2>4. phase = "copy" \/ d = "request" BY <1>0, <1>n, <1>r, <2>2 DEF Flowing
  <2>5. \A e \in Directions : chunk'[e].left <= chunk'[e].size
                              /\ total'[e] + chunk'[e].size <= Size(e)
    BY <1>0, <1>n, <2>2 DEF Flowing
  <2>6. total'["request"] = passed'["request"]
        /\ (~broken => total'["response"] = passed'["response"])
    BY <1>0, <1>n, <1>r, <2>2, <2>3, <2>4 DEF Flowing
  <2>7. phase # "copy" => chunk'["response"].size = 0
    BY <1>0, <1>r, <2>2, <2>4 DEF Flowing
  <2>8. phase \in {"start", "trip"} => total'["response"] = 0
    BY <1>0, <1>r, <2>2, <2>4 DEF Flowing
  <2>9. Flowing' BY <1>0, <1>x, <1>s, <2>1, <2>3, <2>5, <2>6, <2>7, <2>8 DEF Flowing
  <2>10. Delivered'
    <3>1. CASE d = "request"
      <4>1. passed["request"] # Size("request")
        BY <1>0, <1>n, <1>r, <2>2, <2>3, <3>1 DEF Flowing
      <4> QED BY <1>0, <1>x, <2>1, <4>1 DEF Delivered
    <3>2. CASE d # "request" BY <1>0, <1>r, <1>x, <1>s, <2>1, <2>2, <3>2 DEF Delivered
    <3> QED BY <3>1, <3>2
  <2> QED BY <2>9, <2>10
<1>20. ASSUME NEW d \in Directions, FrameHeader(d) \/ FrameBody(d) PROVE K
  <2>1. UNCHANGED <<phase, broken, chunk, total>> /\ phase \in {"relay", "closing"}
    BY <1>20 DEF FrameHeader, FrameBody, history, Relaying
  <2>2. exchange.answer = "upgrade" /\ exchange.kind # "grpc" BY <1>0, <1>t, <2>1 DEF Routed
  <2> QED BY <1>0, <1>x, <1>s, <2>1, <2>2 DEF Flowing, Delivered
<1>21. ASSUME NEW d \in Directions, CopierEnds(d) PROVE K
  BY <1>0, <1>21, <1>x, <1>s DEF CopierEnds, Flowing, Delivered, history, inspection
<1>22. CASE UNCHANGED vars
  BY <1>0, <1>22, <1>x, <1>s DEF vars, Flowing, Delivered, history, inspection
<1> QED BY <1>1, <1>2, <1>3, <1>4, <1>5, <1>6, <1>7, <1>8, <1>9, <1>10, <1>11, <1>12,
           <1>13, <1>14, <1>15, <1>16, <1>17, <1>18, <1>19, <1>20, <1>21, <1>22
        DEF Next, Handler, Copier

(* A call that is complete on both sides was parsed to its end. *)
LEMMA AtEnd ==
    ASSUME Inv, exchange.kind = "grpc", phase \in {"finish", "summary"},
           ~broken, ~early, exchange.answer # "invalid", NEW d \in Directions
    PROVE  ~Unfinished(d) /\ stream[d].count = Len(exchange[d])
<1> DEFINE s == stream[d]
           N == Len(exchange[d])
<1>1. TypeOK /\ Flowing /\ Known /\ Delivered /\ Parsing BY DEF Inv
<1>2. /\ exchange \in Exchanges /\ s \in StreamState /\ chunk[d] \in [size : Nat, left : Nat]
      /\ passed[d] \in Nat /\ total[d] \in Nat /\ HeaderLen \in Nat
  BY <1>1, HttpAssumption DEF TypeOK
<1>3. /\ chunk[d].size \in Nat /\ chunk[d].left \in Nat
      /\ s.header \in Nat /\ s.count \in Nat /\ s.remaining \in Nat /\ s.active \in BOOLEAN
  BY <1>2 DEF StreamState
<1>4. Framed /\ exchange.answer # "upgrade" BY <1>2, HttpAssumption DEF Framed
<1>5. /\ N \in Nat /\ Size(d) = End(d, N)
      /\ \A m \in 0..N : End(d, m) \in Nat
      /\ \A m, k \in 0..N : m <= k => End(d, m) <= End(d, k)
      /\ \A m, k \in 0..N : m < k => End(d, m) + HeaderLen <= End(d, k)
  BY <1>2, <1>4, Positions
<1>6. InStep(d) BY <1>1, <1>4 DEF Parsing, Misled
<1>7. Parsed(d) = End(d, N)
  <2>1. passed[d] = Size(d)
    <3>1. CASE d = "request" BY <1>1, <3>1 DEF Delivered
    <3>2. CASE d = "response" BY <1>1, <3>2 DEF Known
    <3> QED BY <3>1, <3>2 DEF Directions
  <2>2. total[d] = passed[d] BY <1>1, <1>4 DEF Flowing, Directions
  <2>3. End(d, N) \in Nat /\ chunk[d].left <= chunk[d].size
        /\ total[d] + chunk[d].size <= Size(d)
    BY <1>1, <1>5 DEF Flowing
  <2>4. chunk[d].size = 0 /\ chunk[d].left = 0 BY <1>2, <1>3, <1>5, <2>1, <2>2, <2>3
  <2>5. Parsed(d) = total[d] + (chunk[d].size - chunk[d].left) BY DEF Parsed
  <2> QED BY <1>2, <1>5, <2>1, <2>2, <2>4, <2>5
<1>8. IF s.active THEN InFrame(d, s, End(d, N)) ELSE Between(d, s, End(d, N))
  BY <1>6, <1>7 DEF InStep
<1> HIDE DEF s, N
<1>9. ~s.active
  <2> SUFFICES ASSUME s.active PROVE FALSE OBVIOUS
  <2>1. /\ s.count + 1 <= N /\ s.remaining >= 1
        /\ End(d, N) + s.remaining = End(d, s.count + 1)
    BY <1>8 DEF InFrame, N
  <2>2. s.count + 1 \in 0..N /\ N \in 0..N
    <3>1. \A c, m \in Nat : c + 1 <= m => c + 1 \in 0..m /\ m \in 0..m OBVIOUS
    <3> QED BY <1>3, <1>5, <2>1, <3>1
  <2>3. End(d, s.count + 1) <= End(d, N) BY <1>5, <2>1, <2>2
  <2>4. End(d, N) \in Nat BY <1>5, <2>2
  <2> QED BY <1>3, <2>1, <2>3, <2>4
<1>10. s.count <= N /\ s.header < HeaderLen /\ End(d, N) = End(d, s.count) + s.header
  BY <1>8, <1>9 DEF Between, N
<1>11. s.count \in 0..N /\ N \in 0..N
  <2>1. \A c, m \in Nat : c <= m => c \in 0..m /\ m \in 0..m OBVIOUS
  <2> QED BY <1>3, <1>5, <1>10, <2>1
<1>12. End(d, s.count) \in Nat /\ End(d, N) \in Nat BY <1>5, <1>11
<1>13. s.count = N
  <2>1. CASE s.count < N
    <3>1. End(d, s.count) + HeaderLen <= End(d, N) BY <1>5, <1>11, <2>1
    <3> QED BY <1>2, <1>3, <1>10, <1>12, <3>1
  <2> QED BY <1>3, <1>5, <1>10, <2>1
<1>14. s.header = 0 BY <1>3, <1>10, <1>12, <1>13
<1> QED BY <1>9, <1>13, <1>14 DEF Unfinished, s, N

(* A direction whose bytes and parser a step leaves alone. *)
LEMMA ParsingKept ==
    ASSUME exchange' = exchange, NEW d \in Directions,
           InStep(d) \/ (d = "response" /\ Misled),
           stream'[d].active = stream[d].active,
           stream'[d].header = stream[d].header, stream'[d].count = stream[d].count,
           stream'[d].length = stream[d].length,
           stream'[d].remaining = stream[d].remaining,
           stream'[d].capture = stream[d].capture,
           messages'[d] = messages[d], Parsed(d)' = Parsed(d),
           d = "response" /\ Misled => Misled'
    PROVE  InStep(d)' \/ (d = "response" /\ Misled')
<1>1. CASE InStep(d) BY <1>1, InStepSame
<1>2. CASE d = "response" /\ Misled BY <1>2
<1> QED BY <1>1, <1>2

(* The parsers stay where the bytes are; a flaw has a cause. *)
LEMMA ParsingStep ==
    ASSUME Inv, [Next]_vars, TypeOK', Flowing'
    PROVE  Parsing' /\ Blamed'
<1>0. TypeOK /\ Routed /\ Known /\ Parsing /\ Flowing /\ Blamed BY DEF Inv
<1>x. exchange' = exchange BY SameExchange
<1>t. /\ exchange.kind \in {"http", "grpc", "websocket", "refused"}
      /\ exchange.answer \in {"ok", "failed", "upgrade", "invalid"}
      /\ exchange.answer = "upgrade" => exchange.kind = "websocket"
      /\ broken \in BOOLEAN /\ early \in BOOLEAN
  BY <1>0, HttpAssumption DEF TypeOK
<1>r. "response" \in Directions /\ "request" \in Directions
      /\ \A d \in Directions : d = "response" \/ d = "request"
  BY DEF Directions
<1>n. \A d \in Directions : /\ passed[d] \in Nat /\ total[d] \in Nat
                            /\ chunk[d].size \in Nat /\ chunk[d].left \in Nat
                            /\ chunk[d].left <= chunk[d].size
  <2> TAKE d \in Directions
  <2>1. chunk[d] \in [size : Nat, left : Nat] BY <1>0 DEF TypeOK
  <2> QED BY <1>0, <2>1 DEF TypeOK, Flowing
<1>f. Framed' <=> Framed BY <1>x, Frozen
<1>g. Framed => \A d \in Directions : InStep(d) \/ (d = "response" /\ Misled)
  BY <1>0 DEF Parsing
<1>h. Framed => exchange.kind = "grpc" \/ exchange.answer = "upgrade" BY DEF Framed
<1> DEFINE K == Parsing' /\ Blamed'
           Still == UNCHANGED <<chunk, passed, total, stream, messages>>
           Onward == /\ phase \in {"finish", "summary", "over"} =>
                          phase' \in {"finish", "summary", "over"}
                     /\ broken => broken'
                     /\ early => early'
           Reason(d) == \/ broken \/ early \/ exchange.answer = "invalid"
                        \/ \E m \in 1..Len(exchange[d]) : ~exchange[d][m].valid
<1>m. ASSUME Onward, Misled, total'["response"] = total["response"],
             chunk'["response"].size = chunk["response"].size,
             messages'["response"] = messages["response"]
      PROVE  Misled'
  BY <1>m, <1>x DEF Misled
<1>b. ASSUME broken => broken', early => early',
             \A d \in Directions : stream'[d].flawed => stream[d].flawed \/ Reason(d)
      PROVE  Blamed'
  <2> SUFFICES ASSUME NEW d \in Directions, exchange.kind = "grpc", stream'[d].flawed
               PROVE  \/ broken' \/ early' \/ exchange.answer = "invalid"
                      \/ \E m \in 1..Len(exchange[d]) : ~exchange[d][m].valid
    BY <1>x, Zenon DEF Blamed
  <2>1. Reason(d) BY <1>0, <1>b, Zenon DEF Blamed
  <2> QED BY <1>b, <2>1
<1>k. ASSUME Still, Onward PROVE K
  <2>1. ASSUME NEW d \in Directions PROVE Parsed(d)' = Parsed(d)
    BY <1>k, <1>x DEF Parsed
  <2>2. Misled => Misled' BY <1>k, <1>m
  <2>3. ASSUME Framed, NEW d \in Directions
        PROVE  InStep(d)' \/ (d = "response" /\ Misled')
    BY <1>g, <1>k, <1>x, <2>1, <2>2, <2>3, ParsingKept
  <2>4. Parsing' BY <1>f, <2>3 DEF Parsing
  <2>5. Blamed' BY <1>k, <1>b
  <2> QED BY <2>4, <2>5
<1>1. CASE Start BY <1>1, <1>k DEF Start, Goto, history, inspection
<1>2. CASE CopyEnds BY <1>2, <1>k DEF CopyEnds, Goto, history, inspection
<1>3. CASE RecordCall BY <1>3, <1>k DEF RecordCall, Goto, history, inspection
<1>4. CASE RecordExchange BY <1>4, <1>k DEF RecordExchange, Goto, history, inspection
<1>5. CASE Switch BY <1>5, <1>k DEF Switch, Goto, history, inspection
<1>6. CASE SwitchFails BY <1>6, <1>k DEF SwitchFails, Goto, history, inspection
<1>7. CASE CloseSocket BY <1>7, <1>k DEF CloseSocket, Goto, history, inspection
<1>8. CASE SocketDone BY <1>8, <1>k DEF SocketDone, Goto, history, inspection
<1>9. CASE Hijack BY <1>9, <1>k DEF Hijack, Goto, history, inspection
<1>10. CASE HijackFails BY <1>10, <1>k DEF HijackFails, Goto, history, inspection
<1>11. CASE TripFails
  <2>1. /\ UNCHANGED <<chunk, passed, total, messages, early>> /\ broken'
        /\ phase = "trip" /\ phase' = "finish" /\ ErrorText
    BY <1>11 DEF TripFails, Goto
  <2>2. /\ stream'["request"] = stream["request"]
        /\ exchange.kind # "grpc" => stream' = stream
    BY <1>0, <2>1, ErrorTextFacts
  <2>3. ASSUME NEW d \in Directions PROVE Parsed(d)' = Parsed(d)
    BY <1>x, <2>1 DEF Parsed
  <2>4. exchange.kind = "grpc" => Misled' BY <1>0, <1>x, <2>1 DEF Flowing, Misled
  <2>5. ASSUME Framed, NEW d \in Directions
        PROVE  InStep(d)' \/ (d = "response" /\ Misled')
    <3>1. CASE d = "response" /\ exchange.kind = "grpc" BY <2>4, <3>1
    <3>2. CASE ~(d = "response" /\ exchange.kind = "grpc")
      <4>1. stream'[d] = stream[d] BY <1>r, <2>2, <3>2
      <4>2. ~Misled BY <2>1 DEF Misled
      <4> QED BY <1>g, <1>x, <2>1, <2>3, <2>5, <4>1, <4>2, ParsingKept
    <3> QED BY <3>1, <3>2
  <2>6. Parsing' BY <1>f, <2>5 DEF Parsing
  <2>7. Blamed' BY <2>1 DEF Blamed
  <2> QED BY <2>6, <2>7
<1>12. CASE FinishStreams
  <2>1. /\ UNCHANGED <<chunk, passed, total, messages, early, broken>>
        /\ phase = "finish" /\ phase' = "summary" /\ exchange.kind = "grpc"
    BY <1>12 DEF FinishStreams, Goto, history
  <2>2. \A d \in Directions :
           /\ stream'[d].active = stream[d].active
           /\ stream'[d].header = stream[d].header
           /\ stream'[d].count = stream[d].count
           /\ stream'[d].length = stream[d].length
           /\ stream'[d].remaining = stream[d].remaining
           /\ stream'[d].capture = stream[d].capture
           /\ stream'[d].flawed => stream[d].flawed \/ Unfinished(d)
    BY <1>0, <1>12, FinishFacts
  <2>3. ASSUME NEW d \in Directions PROVE Parsed(d)' = Parsed(d)
    BY <1>x, <2>1 DEF Parsed
  <2>4. Misled => Misled' BY <1>m, <2>1
  <2>5. ASSUME Framed, NEW d \in Directions
        PROVE  InStep(d)' \/ (d = "response" /\ Misled')
    BY <1>g, <1>x, <2>1, <2>2, <2>3, <2>4, <2>5, ParsingKept
  <2>6. Parsing' BY <1>f, <2>5 DEF Parsing
  <2>7. \A d \in Directions : Unfinished(d) => Reason(d) BY <2>1, AtEnd
  <2>8. Blamed' BY <1>b, <2>1, <2>2, <2>7
  <2> QED BY <2>6, <2>8
<1>13. CASE Answered
  <2>1. /\ UNCHANGED <<chunk, passed, total, messages, broken>> /\ phase = "trip"
        /\ exchange.answer = "invalid" => phase' = "finish" /\ ErrorText
        /\ exchange.answer # "invalid" => stream' = stream
        /\ ~early
    BY <1>0, <1>13, AnsweredFacts DEF Answered, Known
  <2>2. CASE exchange.answer # "invalid"
    <3>1. Onward BY <2>1
    <3> QED BY <1>k, <2>1, <2>2, <3>1
  <2>3. CASE exchange.answer = "invalid"
    <3>1. stream'["request"] = stream["request"] BY <1>0, <2>1, <2>3, ErrorTextFacts
    <3>2. ASSUME NEW d \in Directions PROVE Parsed(d)' = Parsed(d)
      BY <1>x, <2>1 DEF Parsed
    <3>3. exchange.kind = "grpc" => Misled'
      BY <1>0, <1>x, <2>1, <2>3 DEF Flowing, Misled
    <3>4. ASSUME Framed, NEW d \in Directions
          PROVE  InStep(d)' \/ (d = "response" /\ Misled')
      <4>1. exchange.kind = "grpc" BY <1>h, <2>3, <3>4
      <4>2. CASE d = "response" BY <3>3, <4>1, <4>2
      <4>3. CASE d # "response"
        <5>1. stream'[d] = stream[d] BY <1>r, <3>1, <4>3
        <5> QED BY <1>g, <1>x, <2>1, <3>2, <3>4, <4>3, <5>1, ParsingKept
      <4> QED BY <4>2, <4>3
    <3>5. Parsing' BY <1>f, <3>4 DEF Parsing
    <3>6. Blamed' BY <1>x, <2>3 DEF Blamed
    <3> QED BY <3>5, <3>6
  <2> QED BY <2>2, <2>3
<1>14. CASE CopyFails
  <2>1. /\ UNCHANGED <<passed, stream, messages, early>> /\ broken'
        /\ phase = "copy" /\ phase' = "finish"
    BY <1>14 DEF CopyFails, Goto
  <2>2. /\ chunk'["response"].size = 0 /\ chunk'["response"].left = 0
        /\ chunk["response"].left = 0
        /\ chunk'["request"] = chunk["request"] /\ total'["request"] = total["request"]
        /\ total'["response"] = total["response"] + chunk["response"].size
    BY <1>0, <1>14, CopyFailsFacts
  <2>3. ASSUME NEW d \in Directions PROVE Parsed(d)' = Parsed(d)
    <3>1. CASE d = "request" BY <1>x, <2>1, <2>2, <3>1 DEF Parsed
    <3>2. CASE d = "response"
      <4>1. total'[d] + (chunk'[d].size - chunk'[d].left) =
              total[d] + (chunk[d].size - chunk[d].left)
        BY <1>n, <2>2, <3>2
      <4> QED BY <1>x, <2>1, <4>1 DEF Parsed
    <3> QED BY <1>r, <3>1, <3>2
  <2>4. ~Misled BY <2>1 DEF Misled
  <2>5. ASSUME Framed, NEW d \in Directions
        PROVE  InStep(d)' \/ (d = "response" /\ Misled')
    BY <1>g, <1>x, <2>1, <2>3, <2>4, <2>5, ParsingKept
  <2>6. Parsing' BY <1>f, <2>5 DEF Parsing
  <2>7. Blamed' BY <2>1 DEF Blamed
  <2> QED BY <2>6, <2>7
<1>15. CASE CloseOnCancel BY <1>15, <1>k DEF CloseOnCancel, history, inspection
<1>16. CASE Cancel BY <1>16, <1>k DEF Cancel, history, inspection
<1>17. ASSUME NEW d \in Directions, Read(d) PROVE K
  <2>1. /\ UNCHANGED <<phase, broken, early, passed, total, stream, messages>>
        /\ Reading(d)
    BY <1>17 DEF Read, history, inspection
  <2>2. PICK k \in Nat :
          /\ chunk'[d].size = k /\ chunk[d].size = 0
          /\ exchange.kind = "grpc" => chunk'[d].left = k
          /\ \A e \in Directions : e # d => chunk'[e] = chunk[e]
    BY <1>0, <1>17, ChunkFacts
  <2>3. ASSUME NEW e \in Directions PROVE Parsed(e)' = Parsed(e)
    <3>1. CASE e # d BY <1>x, <2>1, <2>2, <3>1 DEF Parsed
    <3>2. CASE e = d /\ exchange.kind = "grpc"
      <4>1. total'[d] + (chunk'[d].size - chunk'[d].left) =
              total[d] + (chunk[d].size - chunk[d].left)
        BY <1>n, <2>1, <2>2, <3>2
      <4> QED BY <1>x, <2>1, <3>2, <4>1 DEF Parsed
    <3>3. CASE exchange.kind # "grpc" BY <1>x, <2>1, <3>3 DEF Parsed
    <3> QED BY <3>1, <3>2, <3>3
  <2>4. Misled => Misled'
    <3>1. Misled => d # "response" BY <2>1 DEF Misled, Reading
    <3> QED BY <1>m, <1>r, <2>1, <2>2, <3>1
  <2>5. ASSUME Framed, NEW e \in Directions
        PROVE  InStep(e)' \/ (e = "response" /\ Misled')
    BY <1>g, <1>x, <2>1, <2>3, <2>4, <2>5, ParsingKept
  <2>6. Parsing' BY <1>f, <2>5 DEF Parsing
  <2>7. Blamed' BY <1>b, <2>1
  <2> QED BY <2>6, <2>7
<1>18. ASSUME NEW d \in Directions, Feed(d) PROVE K
  <2>1. UNCHANGED <<phase, broken, early, passed, total>> BY <1>18 DEF Feed, history
  <2>2. /\ InStep(d)'
        /\ \A e \in Directions : e # d => stream'[e] = stream[e]
        /\ stream'[d].flawed =>
             stream[d].flawed \/ \E m \in 1..Len(exchange[d]) : ~exchange[d][m].valid
    BY <1>18, FeedParses
  <2>3. PICK n \in Nat, t \in StreamState :
          /\ chunk'[d].size = chunk[d].size
          /\ \A e \in Directions : e # d => chunk'[e] = chunk[e]
          /\ Observed(d, t)
    BY <1>18, FeedShape
  <2>4. \A e \in Directions : e # d => messages'[e] = messages[e]
    BY <1>0, <2>3, ObservedFacts
  <2>5. ASSUME NEW e \in Directions, e # d PROVE Parsed(e)' = Parsed(e)
    BY <1>x, <2>1, <2>3, <2>5 DEF Parsed
  <2>6. ASSUME Framed, NEW e \in Directions
        PROVE  InStep(e)' \/ (e = "response" /\ Misled')
    <3>1. CASE e = d BY <2>2, <3>1
    <3>2. CASE e # d
      <4>1. e = "response" /\ Misled => Misled' BY <1>m, <1>r, <2>1, <2>3, <2>4, <3>2
      <4> QED BY <1>g, <1>x, <2>1, <2>2, <2>4, <2>5, <2>6, <3>2, <4>1, ParsingKept
    <3> QED BY <3>1, <3>2
  <2>7. Parsing' BY <1>f, <2>6 DEF Parsing
  <2>8. Blamed' BY <1>b, <2>1, <2>2
  <2> QED BY <2>7, <2>8
<1>19. ASSUME NEW d \in Directions, Pass(d) PROVE K
  <2>1. UNCHANGED <<phase, broken, early, stream, messages>> BY <1>19 DEF Pass, history
  <2>2. /\ chunk'[d].size = 0 /\ chunk'[d].left = 0 /\ chunk[d].size > 0
        /\ chunk[d].left = 0
        /\ \A e \in Directions : e # d => chunk'[e] = chunk[e]
        /\ passed'[d] = passed[d] + chunk[d].size
        /\ total'[d] = total[d] + chunk[d].size
        /\ \A e \in Directions : e # d => passed'[e] = passed[e] /\ total'[e] = total[e]
    BY <1>0, <1>19, ChunkFacts
  <2>3. exchange.answer # "upgrade" BY <1>0, <1>n, <2>2 DEF Flowing
  <2>4. ASSUME Framed, NEW e \in Directions PROVE Parsed(e)' = Parsed(e)
    <3>1. exchange.kind = "grpc" BY <1>h, <2>3, <2>4
    <3>2. CASE e # d BY <1>x, <2>1, <2>2, <3>2 DEF Parsed
    <3>3. CASE e = d
      <4>1. total'[d] + (chunk'[d].size - chunk'[d].left) =
              total[d] + (chunk[d].size - chunk[d].left)
        BY <1>n, <2>2
      <4> QED BY <1>x, <3>1, <3>3, <4>1 DEF Parsed
    <3> QED BY <3>2, <3>3
  <2>5. Misled => Misled'
    <3>1. Misled => d # "response" BY <1>n, <2>2 DEF Misled
    <3> QED BY <1>m, <1>r, <2>1, <2>2, <3>1
  <2>6. ASSUME Framed, NEW e \in Directions
        PROVE  InStep(e)' \/ (e = "response" /\ Misled')
    BY <1>g, <1>x, <2>1, <2>4, <2>5, <2>6, ParsingKept
  <2>7. Parsing' BY <1>f, <2>6 DEF Parsing
  <2>8. Blamed' BY <1>b, <2>1
  <2> QED BY <2>7, <2>8
<1>20. ASSUME NEW d \in Directions, FrameHeader(d) \/ FrameBody(d) PROVE K
  <2>1. UNCHANGED <<phase, broken, early, chunk, total>>
    BY <1>20 DEF FrameHeader, FrameBody, history
  <2>2. /\ InStep(d)' /\ exchange.kind = "websocket"
        /\ \A e \in Directions : e # d => stream'[e] = stream[e]
        /\ \E b \in Nat : passed' = [passed EXCEPT ![d] = b]
        /\ \E t \in StreamState : Observed(d, t)
    BY <1>20, FrameParses
  <2>3. \A e \in Directions : e # d => passed'[e] = passed[e] BY <1>0, <2>2 DEF TypeOK
  <2>4. \A e \in Directions : e # d => messages'[e] = messages[e]
    BY <1>0, <2>2, ObservedFacts
  <2>5. ASSUME NEW e \in Directions, e # d PROVE Parsed(e)' = Parsed(e)
    BY <1>x, <2>1, <2>3, <2>5 DEF Parsed
  <2>6. ~Misled BY <2>2 DEF Misled
  <2>7. ASSUME Framed, NEW e \in Directions
        PROVE  InStep(e)' \/ (e = "response" /\ Misled')
    <3>1. CASE e = d BY <2>2, <3>1
    <3>2. CASE e # d BY <1>g, <1>x, <2>2, <2>4, <2>5, <2>6, <2>7, <3>2, ParsingKept
    <3> QED BY <3>1, <3>2
  <2>8. Parsing' BY <1>f, <2>7 DEF Parsing
  <2>9. Blamed' BY <1>x, <2>2 DEF Blamed
  <2> QED BY <2>8, <2>9
<1>21. ASSUME NEW d \in Directions, CopierEnds(d) PROVE K
  BY <1>21, <1>k DEF CopierEnds, history, inspection
<1>22. CASE UNCHANGED vars BY <1>22, <1>k DEF vars, history, inspection
<1> QED BY <1>1, <1>2, <1>3, <1>4, <1>5, <1>6, <1>7, <1>8, <1>9, <1>10, <1>11, <1>12,
           <1>13, <1>14, <1>15, <1>16, <1>17, <1>18, <1>19, <1>20, <1>21, <1>22
        DEF Next, Handler, Copier

-----------------------------------------------------------------------------
(***************************************************************************)
(* The theorems                                                            *)
(***************************************************************************)

(* Nothing was read, seen or recorded when a request arrives. *)
LEMMA InitInv == Init => Inv
<1> SUFFICES ASSUME Init PROVE Inv OBVIOUS
<1>1. exchange \in Exchanges /\ \A d \in Directions : exchange[d] \in Seq(Frames)
  BY ExchangeType DEF Init
<1>2. NoStream \in StreamState BY DEF NoStream, StreamState
<1>3. \A S : <<>> \in Seq(S) OBVIOUS
<1>4. TypeOK
  <2>1. stream \in [Directions -> StreamState] BY <1>2 DEF Init, Both
  <2>2. messages \in [Directions -> Seq(Message)] /\ log \in Seq(Entry)
    BY <1>3 DEF Init, Both
  <2>3. /\ chunk \in [Directions -> [size : Nat, left : Nat]]
        /\ passed \in [Directions -> Nat] /\ total \in [Directions -> Nat]
    BY DEF Init, Both
  <2> QED BY <1>1, <2>1, <2>2, <2>3 DEF Init, TypeOK
<1>5. \A d \in Directions : /\ stream[d] = NoStream /\ messages[d] = <<>>
                            /\ passed[d] = 0 /\ total[d] = 0
                            /\ chunk[d].size = 0 /\ chunk[d].left = 0
  BY DEF Init, Both
<1>6. phase = "start" /\ ~err /\ ~early /\ ~broken /\ log = <<>> BY DEF Init
<1>7. Routed /\ Known /\ Logged /\ Delivered BY <1>6 DEF Routed, Known, Logged, Delivered
<1>8. Flowing
  <2>1. \A d \in Directions : Size(d) \in Nat
    <3> TAKE d \in Directions
    <3>1. Len(exchange[d]) \in Nat BY <1>1
    <3>2. Len(exchange[d]) \in 0..Len(exchange[d]) BY <3>1
    <3> QED BY <1>1, <3>2, EndStep DEF Size
  <2>2. "response" \in Directions /\ "request" \in Directions BY DEF Directions
  <2>3. \A d \in Directions : /\ chunk[d].left <= chunk[d].size
                              /\ total[d] + chunk[d].size <= Size(d)
    BY <1>5, <2>1
  <2> QED BY <1>5, <2>2, <2>3 DEF Flowing
<1>9. Parsing
  <2> SUFFICES ASSUME Framed, NEW d \in Directions PROVE InStep(d) BY DEF Parsing
  <2>1. End(d, 0) = 0 /\ HeaderLen >= 1 /\ HeaderLen \in Nat /\ Len(exchange[d]) \in Nat
    BY <1>1, Positions
  <2>2. Parsed(d) = 0 BY <1>5 DEF Parsed
  <2>3. Between(d, stream[d], Parsed(d)) /\ ~stream[d].active /\ stream[d].count = 0
    BY <1>5, <2>1, <2>2 DEF Between, NoStream
  <2>4. Observable(0) = 0 BY HttpAssumption DEF Observable, Smaller
  <2>5. Exact(d, 0) \in Seq(Message) /\ Len(Exact(d, 0)) = 0
    <3>1. 0 \in 0..Len(exchange[d]) BY <2>1
    <3> QED BY <1>1, <3>1, ExactFacts
  <2>6. Exact(d, 0) = <<>> BY <2>5
  <2> QED BY <1>5, <2>3, <2>4, <2>6 DEF InStep
<1>10. Blamed BY <1>5 DEF Blamed, NoStream
<1> QED BY <1>4, <1>7, <1>8, <1>9, <1>10 DEF Inv

(* Every step keeps the invariant. *)
LEMMA InvStep == Inv /\ [Next]_vars => Inv'
<1> SUFFICES ASSUME Inv, [Next]_vars PROVE Inv' OBVIOUS
<1>1. TypeOK' BY TypeStep
<1>2. Routed' /\ Known' /\ Logged' BY <1>1, ControlStep
<1>3. Flowing' /\ Delivered' BY <1>1, FlowingStep
<1>4. Parsing' /\ Blamed' BY <1>1, <1>3, ParsingStep
<1> QED BY <1>1, <1>2, <1>3, <1>4 DEF Inv

(* A parser that is in step has observed the frames in the bytes it saw. *)
LEMMA FramesFromInv == Inv => FramesExact
<1> SUFFICES ASSUME Inv, Framed, NEW d \in Directions
             PROVE  messages[d] = Exact(d, Observable(Cardinality(Whole(d, Parsed(d)))))
  BY DEF FramesExact, Exact
<1> DEFINE s == stream[d]
           P == Parsed(d)
           N == Len(exchange[d])
<1>1. /\ exchange \in Exchanges /\ s \in StreamState /\ HeaderLen \in Nat
      /\ passed[d] \in Nat /\ total[d] \in Nat /\ chunk[d] \in [size : Nat, left : Nat]
      /\ MaxObservations \in Nat
  BY HttpAssumption DEF Inv, TypeOK
<1>2. /\ s.count \in Nat /\ s.header \in Nat /\ s.remaining \in Nat /\ s.length \in Nat
      /\ s.active \in BOOLEAN /\ chunk[d].left \in Nat /\ chunk[d].size \in Nat
  BY <1>1 DEF StreamState
<1>3. /\ N \in Nat /\ HeaderLen >= 1
      /\ End(d, 0) = 0
      /\ \A m \in 0..N : End(d, m) \in Nat
      /\ \A m \in 1..N : exchange[d][m].length \in Nat
      /\ \A m \in 1..N : End(d, m) = End(d, m - 1) + HeaderLen + exchange[d][m].length
      /\ \A m, k \in 0..N : m < k => End(d, m) + HeaderLen <= End(d, k)
  BY <1>1, Positions
<1>4. chunk[d].left <= chunk[d].size BY DEF Inv, Flowing
<1>5. P \in Nat BY <1>1, <1>2, <1>4 DEF Parsed
<1>6. ASSUME NEW c \in 0..N, End(d, c) <= P, c + 1 <= N => P < End(d, c + 1)
      PROVE  Cardinality(Whole(d, P)) = c
  BY <1>1, <1>5, <1>6, WholeFrames
<1>7. ASSUME InStep(d) PROVE Cardinality(Whole(d, P)) = s.count
  <2>0. IF s.active THEN InFrame(d, s, P) ELSE Between(d, s, P) BY <1>7 DEF InStep
  <2> HIDE DEF s, P, N
  <2>1. CASE s.active
    <3>1. /\ s.count + 1 <= N /\ s.remaining >= 1 /\ s.remaining <= s.length
          /\ P + s.remaining = End(d, s.count + 1)
          /\ s.length = exchange[d][s.count + 1].length
      BY <2>0, <2>1 DEF InFrame, N
    <3>2. s.count \in 0..N /\ s.count + 1 \in 1..N /\ s.count + 1 \in 0..N
          /\ (s.count + 1) - 1 = s.count
      <4>1. \A c, m \in Nat : c + 1 <= m => c \in 0..m /\ c + 1 \in 1..m /\ c + 1 \in 0..m
                                            /\ (c + 1) - 1 = c
        OBVIOUS
      <4> QED BY <1>2, <1>3, <3>1, <4>1
    <3>3. /\ End(d, s.count + 1) = End(d, s.count) + HeaderLen + s.length
          /\ End(d, s.count) \in Nat
      BY <1>3, <3>1, <3>2
    <3>4. End(d, s.count) <= P /\ P < End(d, s.count + 1)
      BY <1>1, <1>2, <1>5, <3>1, <3>3
    <3> QED BY <1>6, <3>2, <3>4
  <2>2. CASE ~s.active
    <3>1. s.count <= N /\ s.header < HeaderLen /\ P = End(d, s.count) + s.header
      BY <2>0, <2>2 DEF Between, N
    <3>2. s.count \in 0..N BY <1>2, <1>3, <3>1
    <3>3. End(d, s.count) \in Nat BY <1>3, <3>2
    <3>4. ASSUME s.count + 1 <= N PROVE P < End(d, s.count + 1)
      <4>1. s.count + 1 \in 0..N /\ s.count < s.count + 1 BY <1>2, <1>3, <3>4
      <4>2. End(d, s.count) + HeaderLen <= End(d, s.count + 1) BY <1>3, <3>2, <4>1
      <4>3. End(d, s.count + 1) \in Nat BY <1>3, <4>1
      <4> QED BY <1>1, <1>2, <3>1, <3>3, <4>2, <4>3
    <3>5. End(d, s.count) <= P BY <1>2, <3>1, <3>3
    <3> QED BY <1>6, <3>2, <3>4, <3>5
  <2> QED BY <1>2, <2>1, <2>2
<1>8. CASE InStep(d) BY <1>7, <1>8 DEF InStep
<1>9. CASE d = "response" /\ Misled
  <2>1. P = 0 BY <1>2, <1>4, <1>9 DEF Misled, Parsed
  <2>2. 0 \in 0..N BY <1>3
  <2>3. 0 + 1 <= N => P < End(d, 0 + 1)
    <3> SUFFICES ASSUME 0 + 1 <= N PROVE P < End(d, 1) OBVIOUS
    <3>1. 1 \in 0..N BY <1>3
    <3>2. End(d, 0) + HeaderLen <= End(d, 1) /\ End(d, 1) \in Nat BY <1>3, <2>2, <3>1
    <3> QED BY <1>1, <1>3, <2>1, <3>2
  <2>4. Cardinality(Whole(d, P)) = 0 BY <1>3, <1>6, <2>1, <2>2, <2>3
  <2>5. Observable(0) = 0 BY <1>1 DEF Observable, Smaller
  <2>6. Exact(d, 0) \in Seq(Message) /\ Len(Exact(d, 0)) = 0 BY <1>1, <2>2, ExactFacts
  <2>7. Exact(d, 0) = <<>> BY <2>6
  <2>8. messages[d] = <<>> BY <1>9 DEF Misled
  <2> QED BY <2>4, <2>5, <2>7, <2>8
<1> QED BY <1>8, <1>9 DEF Inv, Parsing

(***************************************************************************)
(* However the bodies are cut into reads, and however the two directions   *)
(* interleave, the messages and frames observed are those in the bytes     *)
(* parsed so far, in order, with their sizes: feed, completeMessage and    *)
(* forwardWebSocketFrame.                                                  *)
(***************************************************************************)
THEOREM FramesAreExact == Spec => []FramesExact
<1>1. Spec => []Inv BY InitInv, InvStep, PTL DEF Spec
<1> QED BY <1>1, FramesFromInv, PTL

(* What RecordTruthful says of one entry. *)
Truthful(e) ==
    /\ e.outcome = "ok" =>
         \/ exchange.answer = "upgrade"
         \/ exchange.answer = "ok" /\ passed["response"] = Size("response")
    /\ e.outcome = "error" =>
         \/ exchange.kind = "refused" \/ exchange.answer \in {"failed", "invalid"}
         \/ broken \/ early
         \/ \E d \in Directions : \E m \in 1..Len(exchange[d]) : ~exchange[d][m].valid
    /\ exchange.kind = "grpc" /\ ~broken /\ ~early /\ exchange.answer # "invalid" =>
         e.counts = [d \in Directions |-> Len(exchange[d])]
    /\ ~e.truncated /\ ~broken
       /\ exchange.answer = "ok" /\ exchange.kind # "refused" =>
         Size("response") <= CaptureLimit

(* An exchange that is recorded is complete, or its record says why it is not. *)
LEMMA EntryTruthful ==
    ASSUME Inv, NEW o \in {"ok", "error"},
           \/ /\ phase = "summary"
              /\ o = IF err \/ \E d \in Directions : stream[d].flawed THEN "error" ELSE "ok"
           \/ /\ phase = "finish" /\ exchange.kind # "grpc"
              /\ o = IF err THEN "error" ELSE "ok"
           \/ phase = "switch" /\ o = "ok"
    PROVE  Truthful(NewEntry(o))
<1> DEFINE e == NewEntry(o)
<1>1. TypeOK /\ Routed /\ Known /\ Flowing /\ Blamed BY DEF Inv
<1>2. /\ exchange.kind \in {"http", "grpc", "websocket", "refused"}
      /\ exchange.answer \in {"ok", "failed", "upgrade", "invalid"}
      /\ exchange.answer = "upgrade" => exchange.kind = "websocket"
      /\ CaptureLimit \in Nat /\ err \in BOOLEAN /\ broken \in BOOLEAN
  BY <1>1, HttpAssumption DEF TypeOK
<1>3. /\ e.outcome = o /\ e.counts = [d \in Directions |-> stream[d].count]
      /\ e.truncated = Truncated("response")
  BY DEF NewEntry
<1> HIDE DEF e
<1>4. o = "ok" => \/ exchange.answer = "upgrade"
                  \/ exchange.answer = "ok" /\ passed["response"] = Size("response")
  <2>1. CASE phase = "switch" BY <1>1, <2>1 DEF Routed
  <2>2. CASE phase # "switch"
    <3>1. o = "ok" => ~err /\ phase \in {"finish", "summary"} BY <2>2
    <3> QED BY <1>1, <3>1 DEF Known
  <2> QED BY <2>1, <2>2
<1>5. o = "error" =>
         \/ exchange.kind = "refused" \/ exchange.answer \in {"failed", "invalid"}
         \/ broken \/ early
         \/ \E d \in Directions : \E m \in 1..Len(exchange[d]) : ~exchange[d][m].valid
  <2> SUFFICES ASSUME o = "error"
               PROVE  \/ exchange.kind = "refused" \/ exchange.answer \in {"failed", "invalid"}
                      \/ broken \/ early
                      \/ \E d \in Directions : \E m \in 1..Len(exchange[d]) :
                           ~exchange[d][m].valid
    OBVIOUS
  <2>1. phase \in {"finish", "summary"} OBVIOUS
  <2>2. CASE err BY <1>1, <2>1, <2>2 DEF Known
  <2>3. CASE ~err
    <3>1. phase = "summary" /\ \E d \in Directions : stream[d].flawed BY <2>3
    <3>2. exchange.kind = "grpc" BY <1>1, <3>1 DEF Routed
    <3> QED BY <1>1, <3>1, <3>2 DEF Blamed
  <2> QED BY <2>2, <2>3
<1>6. ASSUME exchange.kind = "grpc", ~broken, ~early, exchange.answer # "invalid"
      PROVE  e.counts = [d \in Directions |-> Len(exchange[d])]
  <2>1. phase \in {"finish", "summary"} BY <1>1, <1>2, <1>6 DEF Routed
  <2>2. \A d \in Directions : stream[d].count = Len(exchange[d]) BY <1>6, <2>1, AtEnd
  <2> QED BY <1>3, <2>2
<1>7. ASSUME ~e.truncated, ~broken, exchange.answer = "ok", exchange.kind # "refused"
      PROVE  Size("response") <= CaptureLimit
  <2>1. phase \in {"finish", "summary"} BY <1>1, <1>7 DEF Routed
  <2>2. passed["response"] = Size("response") BY <1>1, <1>7, <2>1 DEF Known
  <2>3. total["response"] = passed["response"] BY <1>1, <1>7 DEF Flowing
  <2>4. ~(total["response"] > CaptureLimit) BY <1>3, <1>7 DEF Truncated
  <2>5. total["response"] \in Nat BY <1>1 DEF TypeOK, Directions
  <2> QED BY <1>2, <2>2, <2>3, <2>4, <2>5
<1> QED BY <1>3, <1>4, <1>5, <1>6, <1>7, Zenon DEF Truthful, e

(* The log after a step is what it was, or the first entry. *)
LEMMA LogStep ==
    ASSUME Inv, RecordTruthful, [Next]_vars, Inv'
    PROVE  RecordTruthful'
<1>0. TypeOK /\ Routed /\ Flowing /\ Logged BY DEF Inv
<1>x. exchange' = exchange BY SameExchange
<1>t. /\ exchange.answer \in {"ok", "failed", "upgrade", "invalid"}
      /\ exchange.answer = "upgrade" => exchange.kind = "websocket"
  BY <1>0, HttpAssumption DEF TypeOK
<1>s. Size("response")' = Size("response") BY <1>x, Frozen
<1>r. "response" \in Directions BY DEF Directions
<1>p. /\ Len(log) <= 1
      /\ \A k \in 1..Len(log) : Truthful(log[k])
      /\ phase = "over" => Len(log) = 1 \/ (log = <<>> /\ exchange.answer = "upgrade" /\ broken)
  BY Zenon DEF RecordTruthful, Truthful
<1> DEFINE Passed == passed'["response"] = passed["response"] \/ exchange.answer = "upgrade"
           Kept == /\ log' = log /\ (broken => broken')
                   /\ log = <<>> \/ ((early => early') /\ Passed)
<1>k. ASSUME Kept,
             phase' = "over" =>
               Len(log) = 1 \/ (log = <<>> /\ exchange.answer = "upgrade" /\ broken')
      PROVE  RecordTruthful'
  <2>1. ASSUME NEW k \in 1..Len(log) PROVE Truthful(log[k])'
    <3>1. Truthful(log[k]) BY <1>p
    <3>2. log # <<>> BY <2>1
    <3>3. (early => early') /\ Passed /\ log'[k] = log[k] BY <1>k, <3>2
    <3> QED BY <1>k, <1>x, <1>s, <3>1, <3>3 DEF Truthful
  <2>2. \A k \in 1..Len(log') : Truthful(log[k])' BY <1>k, <2>1
  <2>3. Len(log') <= 1 BY <1>k, <1>p
  <2>4. phase' = "over" => Len(log') = 1 \/ (log' = <<>> /\ exchange'.answer = "upgrade" /\ broken')
    BY <1>k, <1>x
  <2> QED BY <2>2, <2>3, <2>4, Zenon DEF RecordTruthful, Truthful
<1>q. ASSUME NEW o \in {"ok", "error"}, log = <<>>, Record(o),
             UNCHANGED <<broken, early, passed>>,
             \/ /\ phase = "summary"
                /\ o = IF err \/ \E d \in Directions : stream[d].flawed THEN "error" ELSE "ok"
             \/ /\ phase = "finish" /\ exchange.kind # "grpc"
                /\ o = IF err THEN "error" ELSE "ok"
             \/ phase = "switch" /\ o = "ok"
      PROVE  RecordTruthful'
  <2>1. Len(log') = 1 /\ log'[1] = NewEntry(o) BY <1>0, <1>q, RecordFacts
  <2>2. Truthful(NewEntry(o)) BY <1>q, EntryTruthful
  <2> DEFINE e == NewEntry(o)
  <2> HIDE DEF e
  <2>3. Truthful(log[1])'
    <3>1. Truthful(e) /\ log'[1] = e BY <2>1, <2>2 DEF e
    <3> QED BY <1>q, <1>x, <1>s, <3>1 DEF Truthful
  <2>4. 1..Len(log') = {1} BY <2>1
  <2>5. \A k \in 1..Len(log') : Truthful(log[k])' BY <2>3, <2>4
  <2>6. Len(log') <= 1 BY <2>1
  <2> QED BY <2>1, <2>5, <2>6, Zenon DEF RecordTruthful, Truthful
<1>1. CASE Start
  BY <1>0, <1>1, <1>k, <1>p DEF Start, Goto, Routed, Logged, history, inspection
<1>2. CASE TripFails
  BY <1>0, <1>2, <1>k, <1>p DEF TripFails, Goto, Routed, Logged, history, inspection
<1>3. CASE CopyEnds
  BY <1>0, <1>3, <1>k, <1>p DEF CopyEnds, Goto, Routed, Logged, history, inspection
<1>4. CASE FinishStreams
  BY <1>0, <1>4, <1>k, <1>p DEF FinishStreams, Goto, Routed, Logged, history, inspection
<1>5. CASE CloseSocket
  BY <1>0, <1>5, <1>k, <1>p DEF CloseSocket, Goto, Routed, Logged, history, inspection
<1>6. CASE SocketDone
  BY <1>0, <1>6, <1>k, <1>p DEF SocketDone, Goto, Routed, Logged, history, inspection
<1>7. CASE Hijack
  BY <1>0, <1>7, <1>k, <1>p DEF Hijack, Goto, Routed, Logged, history, inspection
<1>8. CASE HijackFails
  BY <1>0, <1>8, <1>k, <1>p DEF HijackFails, Goto, Routed, Logged, history, inspection
<1>9. CASE CopyFails
  BY <1>0, <1>9, <1>k, <1>p DEF CopyFails, Goto, Routed, Logged, history, inspection
<1>10. CASE SwitchFails
  BY <1>0, <1>10, <1>k, <1>p DEF SwitchFails, Goto, Routed, Logged, history, inspection
<1>11. CASE RecordCall
  <2>1. log = <<>> /\ phase = "summary" /\ UNCHANGED <<broken, early, passed>>
    BY <1>0, <1>11 DEF RecordCall, Logged, history
  <2> DEFINE o == IF err \/ \E d \in Directions : stream[d].flawed THEN "error" ELSE "ok"
  <2>2. Record(o) /\ o \in {"ok", "error"} BY <1>11 DEF RecordCall
  <2> QED BY <1>q, <2>1, <2>2
<1>12. CASE RecordExchange
  <2>1. /\ log = <<>> /\ phase = "finish" /\ UNCHANGED <<broken, early, passed>>
        /\ exchange.kind # "grpc"
    BY <1>0, <1>12 DEF RecordExchange, Logged, history
  <2> DEFINE o == IF err THEN "error" ELSE "ok"
  <2>2. Record(o) /\ o \in {"ok", "error"} BY <1>12 DEF RecordExchange
  <2> QED BY <1>q, <2>1, <2>2
<1>13. CASE Switch
  <2>1. log = <<>> /\ phase = "switch" /\ UNCHANGED <<broken, early, passed>> /\ Record("ok")
    BY <1>0, <1>13 DEF Switch, Logged, history
  <2> QED BY <1>q, <2>1
<1>14. CASE Answered
  <2>1. phase = "trip" /\ phase' \in {"hijack", "finish", "copy"}
    BY <1>0, <1>14, <1>t, AnsweredFacts
  <2>2. log' = log /\ broken' = broken /\ log = <<>>
    BY <1>0, <1>14, <2>1 DEF Answered, Logged
  <2> QED BY <1>k, <2>1, <2>2
<1>15. CASE CloseOnCancel BY <1>15, <1>k, <1>p DEF CloseOnCancel, history, inspection
<1>16. CASE Cancel BY <1>16, <1>k, <1>p DEF Cancel, history, inspection
<1>17. ASSUME NEW d \in Directions, Read(d) PROVE RecordTruthful'
  BY <1>17, <1>k, <1>p DEF Read, history
<1>18. ASSUME NEW d \in Directions, Feed(d) PROVE RecordTruthful'
  BY <1>18, <1>k, <1>p DEF Feed, history
<1>19. ASSUME NEW d \in Directions, Pass(d) PROVE RecordTruthful'
  <2>1. UNCHANGED <<phase, broken, early, log>> BY <1>19 DEF Pass, history
  <2>2. log = <<>> \/ passed'["response"] = passed["response"]
    <3>1. CASE d = "response"
      <4>1. chunk["response"].size > 0 BY <1>19, <3>1 DEF Pass, Inspected
      <4>2. phase = "copy" BY <1>0, <4>1 DEF Flowing
      <4> QED BY <1>0, <4>2 DEF Logged
    <3>2. CASE d # "response" BY <1>0, <1>19, <1>r, <3>2, ChunkFacts
    <3> QED BY <3>1, <3>2
  <2> QED BY <1>k, <1>p, <2>1, <2>2
<1>20. ASSUME NEW d \in Directions, FrameHeader(d) \/ FrameBody(d) PROVE RecordTruthful'
  <2>1. UNCHANGED <<phase, broken, early, log>> /\ phase \in {"relay", "closing"}
    BY <1>20 DEF FrameHeader, FrameBody, history, Relaying
  <2>2. exchange.answer = "upgrade" BY <1>0, <2>1 DEF Routed
  <2> QED BY <1>k, <1>p, <2>1, <2>2
<1>21. ASSUME NEW d \in Directions, CopierEnds(d) PROVE RecordTruthful'
  BY <1>21, <1>k, <1>p DEF CopierEnds, history, inspection
<1>22. CASE UNCHANGED vars BY <1>22, <1>k, <1>p DEF vars, history, inspection
<1> QED BY <1>1, <1>2, <1>3, <1>4, <1>5, <1>6, <1>7, <1>8, <1>9, <1>10, <1>11, <1>12,
           <1>13, <1>14, <1>15, <1>16, <1>17, <1>18, <1>19, <1>20, <1>21, <1>22
        DEF Next, Handler, Copier

(***************************************************************************)
(* The record of an exchange (observed, recordWebSocketHandshake, and the  *)
(* summaries of a gRPC call) is made once and says what happened: ok only  *)
(* when the whole response went through, an error only for a cause, every  *)
(* message counted unless something failed, and nothing left out of the    *)
(* capture without saying so.                                              *)
(***************************************************************************)
THEOREM RecordIsTruthful == Spec => []RecordTruthful
<1>1. Spec => []Inv BY InitInv, InvStep, PTL DEF Spec
<1>2. Init => RecordTruthful
  <2> SUFFICES ASSUME Init PROVE RecordTruthful OBVIOUS
  <2>1. log = <<>> /\ phase = "start" BY DEF Init
  <2>2. Len(log) = 0 /\ 1..Len(log) = {} BY <2>1
  <2> QED BY <2>1, <2>2 DEF RecordTruthful
<1>3. Inv /\ Inv' /\ RecordTruthful /\ [Next]_vars => RecordTruthful' BY LogStep
<1> QED BY <1>1, <1>2, <1>3, PTL DEF Spec
=============================================================================
