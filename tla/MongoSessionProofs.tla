------------------------- MODULE MongoSessionProofs -------------------------
(***************************************************************************)
(* Proofs about MongoSession, for every script, listener and upstream.     *)
(*                                                                         *)
(* The two legs stay apart because the request goroutine is alone with the *)
(* server until it authenticated (LegInv), and it begins that only for a   *)
(* command of a client that completed a conversation (ProofInv).           *)
(*                                                                         *)
(* Every request that was read is in one hand: the request goroutine has   *)
(* it, it is pending, the upstream reader holds its response, or it is     *)
(* recorded (KeptInv).  A request that was recorded with its response left *)
(* all the others (OnceInv), since a response can only be on its way for a *)
(* request that the request goroutine wrote (SentInv).                     *)
(***************************************************************************)
EXTENDS MongoSession, SequenceTheorems, TLAPS

Outcomes == {"answered", "sent", "failed"}

(* Every variable has its type. *)
TypeInv ==
    /\ script \in Scripts /\ secured \in BOOLEAN /\ username \in BOOLEAN
    /\ phase \in {"dial", "open", "closing", "closed"}
    /\ read \in 0..Len(script)
    /\ authenticated \in BOOLEAN /\ conversation \in BOOLEAN
    /\ upstreamAuth \in BOOLEAN
    /\ req \in {"none", "read", "answer", "forward", "auth", "put", "write", "end"}
    /\ rsp \in [pc : {"none", "read", "write", "end"}, frame : Frames,
                found : BOOLEAN]
    /\ pending \subseteq 1..Len(script) /\ undelivered \subseteq 0..Len(script)
    /\ toServer \in Seq(0..Len(script)) /\ fromServer \in Seq(Frames)
    /\ out \in Seq(0..Len(script))
    /\ recorded \in [1..Len(script) -> Seq(Outcomes)]

(* The request goroutine works on the request it read last. *)
Working == req \in {"answer", "forward", "auth", "put", "write"}

(***************************************************************************)
(* An open conversation was started by the client, an authenticated client *)
(* completed one, and what is forwarded is a command of such a client.     *)
(***************************************************************************)
StartedBy(scr, n) ==
    \E i \in 1..n : /\ scr[i] = "start"
                    /\ \A m \in (i + 1)..n : scr[m] \notin {"proof", "wrong"}

Cleared(n) == script[n] \in Commands /\ (secured => ProvedBefore(n))

ProofInv ==
    /\ conversation => StartedBy(script, read)
    /\ secured /\ authenticated => ProvedBefore(read + 1)
    /\ Working => read # 0
    /\ Working /\ req # "answer" => Cleared(read)
    /\ \A k \in 1..Len(toServer) :
          /\ toServer[k] # 0 => Cleared(toServer[k])
          /\ toServer[k] = 0 /\ secured => ProvedBefore(read)

(***************************************************************************)
(* Until the adapter authenticated, the reader of responses has not begun  *)
(* and nothing but that authentication is on its way; then nothing is that *)
(* is not the client's.                                                    *)
(***************************************************************************)
NonZero(s) == \A k \in 1..Len(s) : s[k] # 0
NonZeroFrames(s) == \A k \in 1..Len(s) : s[k].to # 0

LegInv ==
    /\ ~upstreamAuth =>
          /\ rsp.pc = "none" /\ req \notin {"put", "write"}
          /\ req \notin {"auth", "end"} => toServer = <<>> /\ fromServer = <<>>
          /\ req = "auth" =>
                \/ toServer = <<0>> /\ fromServer = <<>>
                \/ toServer = <<>> /\ fromServer = <<Response(0, FALSE)>>
    /\ upstreamAuth =>
          /\ req # "auth" /\ NonZero(toServer) /\ NonZeroFrames(fromServer)
          /\ rsp.pc = "write" => rsp.frame.to # 0
    /\ NonZero(out)
    /\ phase = "dial" => req = "none"

-----------------------------------------------------------------------------
(***************************************************************************)
(* What is on its way is for requests that were written, so not for the    *)
(* one that is being worked on; only exhaust cursors announce more.        *)
(***************************************************************************)
Written(n) == n <= read /\ (Working => n < read)

Announced(scr, frame) == frame.more => frame.to # 0 /\ scr[frame.to] = "exhaust"

SentInv ==
    /\ \A k \in 1..Len(toServer) : Written(toServer[k])
    /\ \A k \in 1..Len(fromServer) :
          Written(fromServer[k].to) /\ Announced(script, fromServer[k])
    /\ rsp.pc = "write" => Written(rsp.frame.to) /\ Announced(script, rsp.frame)

(* The upstream reader holds the response to request n. *)
Held(n) == rsp.pc = "write" /\ rsp.found /\ rsp.frame.to = n

(* No request that was read is lost. *)
KeptInv ==
    /\ phase = "dial" => pending = {}
    /\ phase = "closed" => pending \subseteq (IF req = "write" THEN {read} ELSE {})
    /\ req = "write" /\ script[read] # "more" /\ phase # "closed" => read \in pending
    /\ \A n \in 1..read :
          \/ recorded[n] # <<>> \/ n \in undelivered
          \/ n \in pending \/ Held(n)
          \/ Working /\ n = read

(***************************************************************************)
(* A request is recorded only after it left `pending` and the reader's     *)
(* hands, but for one with several responses.                              *)
(***************************************************************************)
Unanswered(s) == \A k \in 1..Len(s) : s[k] # "answered"

Once(n) ==
    /\ n > read => recorded[n] = <<>>
    /\ Working /\ n = read => Unanswered(recorded[n])
    /\ script[n] = "more" => n \notin pending
    /\ script[n] # "exhaust" =>
          /\ n \in pending => recorded[n] = <<>>
          /\ Held(n) => n \notin pending /\ recorded[n] = <<>>
          /\ Unanswered(recorded[n]) \/ Len(recorded[n]) = 1

OnceInv ==
    /\ pending \subseteq 1..read
    /\ Working /\ req # "write" => read \notin pending /\ recorded[read] = <<>>
    /\ \A n \in 1..Len(script) : Once(n)

-----------------------------------------------------------------------------
(***************************************************************************)
(* Lemmas about sequences and the server                                   *)
(***************************************************************************)

(* What Append and Tail do to a sequence, index by index. *)
LEMMA SeqSteps ==
    ASSUME NEW S, NEW s \in Seq(S), NEW e \in S
    PROVE  /\ Append(s, e) \in Seq(S) /\ Len(Append(s, e)) = Len(s) + 1
           /\ Len(s) \in Nat
           /\ \A i \in 1..Len(s) : Append(s, e)[i] = s[i]
           /\ Append(s, e)[Len(s) + 1] = e
           /\ \A i \in 1..(Len(s) + 1) : i \in 1..Len(s) \/ i = Len(s) + 1
  OBVIOUS

(* The head and the tail of a sequence that is not empty. *)
LEMMA SeqTail ==
    ASSUME NEW S, NEW s \in Seq(S), s # <<>>
    PROVE  /\ Head(s) \in S /\ Tail(s) \in Seq(S) /\ Head(s) = s[1]
           /\ 1 \in 1..Len(s)
           /\ \A i \in 1..Len(Tail(s)) : i + 1 \in 1..Len(s) /\ Tail(s)[i] = s[i + 1]
  OBVIOUS

(* An element of a concatenation is one of either part. *)
LEMMA SeqConcat ==
    ASSUME NEW S, NEW s \in Seq(S), NEW t \in Seq(S)
    PROVE  /\ s \o t \in Seq(S)
           /\ \A i \in 1..Len(s \o t) :
                 \/ i \in 1..Len(s) /\ (s \o t)[i] = s[i]
                 \/ \E j \in 1..Len(t) : (s \o t)[i] = t[j]
<1>1. s \o t \in Seq(S) /\ Len(s \o t) = Len(s) + Len(t)
      /\ Len(s) \in Nat /\ Len(t) \in Nat
  OBVIOUS
<1>2. ASSUME NEW i \in 1..Len(s \o t)
      PROVE  \/ i \in 1..Len(s) /\ (s \o t)[i] = s[i]
             \/ \E j \in 1..Len(t) : (s \o t)[i] = t[j]
  <2>1. CASE i <= Len(s)
    <3>1. i \in 1..Len(s) BY <1>1, <2>1
    <3>2. (s \o t)[i] = s[i] BY <1>1, <3>1, ConcatProperties
    <3> QED BY <3>1, <3>2
  <2>2. CASE i > Len(s)
    <3>1. i - Len(s) \in 1..Len(t) /\ ~(i <= Len(s)) BY <1>1, <2>2
    <3>2. (s \o t)[i] = t[i - Len(s)] BY <1>1, <3>1, ConcatProperties
    <3> QED BY <3>1, <3>2
  <2> QED BY <1>1, <2>1, <2>2
<1> QED BY <1>1, <1>2

(* The facts about the constants and the script that the proofs use. *)
LEMMA ScriptFacts ==
    ASSUME script \in Scripts
    PROVE  Len(script) \in Nat /\ \A n \in 1..Len(script) : script[n] \in Kinds
  BY MongoAssumption

(* Every response to request n is to it, and announces another one only    *)
(* when it is an exhaust cursor's.                                         *)
LEMMA RepliesFacts ==
    ASSUME script \in Scripts, NEW n \in 0..Len(script), NEW r \in Replies(n)
    PROVE  /\ r \in Seq(Frames)
           /\ \A i \in 1..Len(r) : r[i].to = n /\ Announced(script, r[i])
           /\ n = 0 => r = <<Response(0, FALSE)>>
<1>0. Len(script) \in Nat /\ n \in Nat BY ScriptFacts
<1>1. \A b \in BOOLEAN : /\ Response(n, b) \in Frames /\ Response(n, b).to = n
                         /\ Response(n, b).more = b
  BY DEF Response, Frames
<1>2. CASE n # 0 /\ script[n] = "more"
  <2>1. r = <<>> BY <1>2 DEF Replies
  <2> QED BY <1>2, <2>1
<1>3. CASE n # 0 /\ script[n] = "exhaust"
  <2>1. PICK k \in 0..MaxBatches : r = Batches(n, k) BY <1>3 DEF Replies
  <2> DEFINE f == [i \in 1..k |-> Response(n, TRUE)]
  <2>2. k \in Nat BY MongoAssumption
  <2>3a. f \in [1..k -> Frames] BY <1>1
  <2>4. \A i \in 1..k : f[i] = Response(n, TRUE) OBVIOUS
  <2>5. r = Append(f, Response(n, FALSE)) BY <2>1 DEF Batches
  <2> HIDE DEF f
  <2>3. f \in Seq(Frames) /\ Len(f) = k BY <2>2, <2>3a
  <2>6. /\ r \in Seq(Frames) /\ Len(r) = k + 1
        /\ \A i \in 1..k : r[i] = f[i]
        /\ r[k + 1] = Response(n, FALSE)
    <3> DEFINE e == Response(n, FALSE)
    <3>1. e \in Frames BY <1>1
    <3>2. r = Append(f, e) BY <2>5
    <3> HIDE DEF e
    <3>3. /\ Append(f, e) \in Seq(Frames) /\ Len(Append(f, e)) = Len(f) + 1
          /\ \A i \in 1..Len(f) : Append(f, e)[i] = f[i]
          /\ Append(f, e)[Len(f) + 1] = e
      BY <2>3, <3>1, SeqSteps
    <3>4. /\ r \in Seq(Frames) /\ Len(r) = k + 1
          /\ \A i \in 1..k : r[i] = f[i]
          /\ r[k + 1] = e
      BY <2>3, <3>2, <3>3
    <3> QED BY <3>4 DEF e
  <2>6a. \A i \in 1..Len(r) : i \in 1..k \/ i = k + 1 BY <2>2, <2>6
  <2>7. \A i \in 1..Len(r) : r[i].to = n
    BY <1>1, <2>4, <2>6, <2>6a
  <2> QED BY <1>3, <2>6, <2>7 DEF Announced
<1>4. CASE n = 0 \/ script[n] \notin {"more", "exhaust"}
  <2> DEFINE e == Response(n, FALSE)
  <2>1. r = <<e>> BY <1>4 DEF Replies
  <2>2. e \in Frames /\ e.to = n /\ e.more = FALSE BY <1>1
  <2>3. n = 0 => e = Response(0, FALSE) OBVIOUS
  <2> HIDE DEF e
  <2>4. Len(r) = 1 /\ r[1] = e /\ r \in Seq(Frames) BY <2>1, <2>2
  <2>5. \A i \in 1..Len(r) : r[i] = e BY <2>4
  <2>6. \A i \in 1..Len(r) : r[i].to = n /\ ~r[i].more BY <2>2, <2>5, Zenon
  <2> QED BY <2>1, <2>3, <2>4, <2>6 DEF Announced
<1> QED BY <1>2, <1>3, <1>4

-----------------------------------------------------------------------------
(***************************************************************************)
(* Types                                                                   *)
(***************************************************************************)
LEMMA TypeInit == Init => TypeInv
<1> SUFFICES ASSUME Init PROVE TypeInv
  OBVIOUS
<1>1. Len(script) \in Nat BY ScriptFacts DEF Init
<1>2. NoReader \in [pc : {"none", "read", "write", "end"}, frame : Frames,
                    found : BOOLEAN]
  BY <1>1 DEF NoReader, Response, Frames
<1>3. recorded \in [1..Len(script) -> Seq(Outcomes)] BY DEF Init
<1>4. /\ secured \in BOOLEAN /\ username \in BOOLEAN
      /\ (~secured) \in BOOLEAN
  BY MongoAssumption DEF Init
<1>5. /\ toServer \in Seq(0..Len(script)) /\ fromServer \in Seq(Frames)
      /\ out \in Seq(0..Len(script))
  BY DEF Init
<1>6. /\ authenticated \in BOOLEAN /\ conversation \in BOOLEAN
      /\ upstreamAuth \in BOOLEAN /\ rsp = NoReader
  BY <1>4, Zenon DEF Init
<1>7. /\ read \in 0..Len(script) /\ pending \subseteq 1..Len(script)
      /\ undelivered \subseteq 0..Len(script) /\ script \in Scripts
      /\ phase = "dial" /\ req = "none"
  BY <1>1 DEF Init
<1> QED BY <1>2, <1>3, <1>4, <1>5, <1>6, <1>7 DEF TypeInv

(* No step changes what the connection was given. *)
LEMMA ConfigStep == [Next]_vars => UNCHANGED config
  BY DEF Next, vars, Main, Requests, Responses,
         Dial, DialFails, End, Drain, Read, ReadFails, Answer, AnswerFails,
         Authenticate, AuthenticateDone, AuthenticateFails, Prepare, Put, Write, WriteFails,
         TakeResponse, DeliverResponse, DeliverFails, ResponseFails, Server, Cancel

(* A request gets one more outcome, and no other changes. *)
LEMMA RecordedFacts ==
    ASSUME TypeInv, NEW n \in 1..Len(script), NEW o \in Outcomes
    PROVE  LET r == Recorded(n, o)
           IN  /\ r \in [1..Len(script) -> Seq(Outcomes)]
               /\ r[n] = Append(recorded[n], o)
               /\ \A m \in 1..Len(script) : m # n => r[m] = recorded[m]
  BY DEF TypeInv, Recorded

(* Every type is kept. *)
LEMMA TypeStep ==
    ASSUME TypeInv, Working => read # 0, [Next]_vars
    PROVE  TypeInv'
<1> DEFINE Reads == [pc : {"none", "read", "write", "end"}, frame : Frames,
                     found : BOOLEAN]
           Notes == [1..Len(script) -> Seq(Outcomes)]
<1>0. /\ script' = script /\ secured' = secured /\ username' = username
      /\ Frames' = Frames /\ Reads' = Reads /\ Notes' = Notes
      /\ Len(script') = Len(script)
  BY ConfigStep DEF config, Frames
<1>a. Len(script) \in Nat /\ read \in Nat BY ScriptFacts DEF TypeInv
<1>b. read # 0 => read \in 1..Len(script) BY <1>a DEF TypeInv
<1>c. \A n \in 0..Len(script), o \in Outcomes : Recorded(n, o) \in Notes
  <2>1. \A n \in 1..Len(script), o \in Outcomes : Recorded(n, o) \in Notes
    BY RecordedFacts
  <2>2. \A o \in Outcomes : Recorded(0, o) = recorded
    BY <1>a DEF TypeInv, Recorded
  <2>3. recorded \in Notes BY DEF TypeInv
  <2>4. \A n \in 0..Len(script) : n = 0 \/ n \in 1..Len(script) BY <1>a
  <2> QED BY <2>1, <2>2, <2>3, <2>4
<1>d. /\ rsp.frame.to \in 0..Len(script)
      /\ \A pc \in {"none", "read", "write", "end"} : [rsp EXCEPT !.pc = pc] \in Reads
      /\ \A f \in Frames, b \in BOOLEAN :
            [pc |-> "write", frame |-> f, found |-> b] \in Reads
  BY DEF TypeInv, Frames
<1>e. \A f \in Frames : f.to \in 0..Len(script) BY DEF Frames
<1>f. "answered" \in Outcomes /\ "sent" \in Outcomes /\ "failed" \in Outcomes
  BY DEF Outcomes
<1>h. TypeInv <=>
    /\ script \in Scripts /\ secured \in BOOLEAN /\ username \in BOOLEAN
    /\ phase \in {"dial", "open", "closing", "closed"}
    /\ read \in 0..Len(script)
    /\ authenticated \in BOOLEAN /\ conversation \in BOOLEAN
    /\ upstreamAuth \in BOOLEAN
    /\ req \in {"none", "read", "answer", "forward", "auth", "put", "write", "end"}
    /\ rsp \in Reads
    /\ pending \subseteq 1..Len(script) /\ undelivered \subseteq 0..Len(script)
    /\ toServer \in Seq(0..Len(script)) /\ fromServer \in Seq(Frames)
    /\ out \in Seq(0..Len(script))
    /\ recorded \in Notes
  BY DEF TypeInv
<1> HIDE DEF Reads, Notes
<1>S. SUFFICES
    /\ phase' \in {"dial", "open", "closing", "closed"}
    /\ read' \in 0..Len(script)
    /\ authenticated' \in BOOLEAN /\ conversation' \in BOOLEAN
    /\ upstreamAuth' \in BOOLEAN
    /\ req' \in {"none", "read", "answer", "forward", "auth", "put", "write", "end"}
    /\ rsp' \in Reads
    /\ pending' \subseteq 1..Len(script) /\ undelivered' \subseteq 0..Len(script)
    /\ toServer' \in Seq(0..Len(script)) /\ fromServer' \in Seq(Frames)
    /\ out' \in Seq(0..Len(script))
    /\ recorded' \in Notes
  BY <1>0, <1>h DEF TypeInv, Reads, Notes
<1> USE <1>h DEF config, auth, net, seen
<1>1. CASE Dial
  BY <1>1, <1>d DEF Dial
<1>2. CASE DialFails
  BY <1>2, <1>d DEF DialFails
<1>3. CASE End
  BY <1>3, <1>d DEF End
<1>4. CASE Drain
  <2>1. recorded' \in [1..Len(script) -> Seq(Outcomes)]
    <3>1. \A n \in 1..Len(script) : recorded[n] \in Seq(Outcomes) BY DEF Notes
    <3>2. \A n \in 1..Len(script) : Append(recorded[n], "failed") \in Seq(Outcomes)
      BY <1>f, <3>1
    <3> QED BY <1>4, <3>1, <3>2 DEF Drain, Drained
  <2> QED BY <1>4, <2>1 DEF Drain, Notes
<1>5. CASE Read
  <2>1. read' \in 0..Len(script) BY <1>5, <1>a DEF Read
  <2>2. authenticated' \in BOOLEAN /\ conversation' \in BOOLEAN
    BY <1>5 DEF Read, ConversationAfter
  <2> QED BY <1>5, <2>1, <2>2 DEF Read
<1>6. CASE ReadFails
  BY <1>6, <1>d DEF ReadFails
<1>7. CASE Answer
  <2>1. read \in 1..Len(script) BY <1>7, <1>b DEF Answer, Working
  <2>2. recorded' \in Notes BY <1>7, <1>c, <1>f, <2>1 DEF Answer
  <2>3. out' \in Seq(0..Len(script)) BY <1>7 DEF Answer
  <2> QED BY <1>7, <2>2, <2>3 DEF Answer
<1>8. CASE AnswerFails
  BY <1>8, <1>d DEF AnswerFails
<1>9. CASE Authenticate
  <2>1. 0 \in 0..Len(script) BY <1>a
  <2>2. toServer' \in Seq(0..Len(script)) BY <1>9, <2>1 DEF Authenticate
  <2> QED BY <1>9, <2>2 DEF Authenticate, ReaderDuringAuth
<1>10. CASE AuthenticateDone
  <2>1. fromServer' \in Seq(Frames) BY <1>10, SeqTail DEF AuthenticateDone
  <2> QED BY <1>10, <1>d, <2>1 DEF AuthenticateDone
<1>11. CASE AuthenticateFails
  <2>1. read \in 1..Len(script) BY <1>11, <1>b DEF AuthenticateFails, Working
  <2>2. recorded' \in Notes BY <1>11, <1>c, <1>f, <2>1 DEF AuthenticateFails
  <2> QED BY <1>11, <2>2 DEF AuthenticateFails
<1>12. CASE Prepare
  BY <1>12, <1>d DEF Prepare
<1>13. CASE Put
  <2>1. read \in 1..Len(script) BY <1>13, <1>b DEF Put, Working
  <2> QED BY <1>13, <2>1 DEF Put, Key
<1>14. CASE Write
  <2>1. read \in 1..Len(script) BY <1>14, <1>b DEF Write, Working
  <2>2. recorded' \in Notes BY <1>14, <1>c, <1>f, <2>1 DEF Write
  <2>3. toServer' \in Seq(0..Len(script)) BY <1>14 DEF Write
  <2> QED BY <1>14, <2>2, <2>3 DEF Write
<1>15. CASE WriteFails
  <2>1. read \in 1..Len(script) BY <1>15, <1>b DEF WriteFails, Working
  <2>2. recorded' \in Notes BY <1>15, <1>c, <1>f, <2>1 DEF WriteFails
  <2> QED BY <1>15, <2>2 DEF WriteFails
<1>16. CASE TakeResponse
  <2>1. Head(fromServer) \in Frames /\ fromServer' \in Seq(Frames)
    BY <1>16, SeqTail DEF TakeResponse
  <2>2. rsp' \in Reads
    <3>1. (Head(fromServer).to \in pending) \in BOOLEAN OBVIOUS
    <3>2. rsp' = [pc |-> "write", frame |-> Head(fromServer),
                  found |-> Head(fromServer).to \in pending]
      BY <1>16 DEF TakeResponse
    <3> QED BY <1>d, <2>1, <3>1, <3>2, Zenon
  <2> QED BY <1>16, <2>1, <2>2 DEF TakeResponse, PendingAfter
<1>17. CASE DeliverResponse
  <2>1. out' \in Seq(0..Len(script)) /\ rsp' \in Reads
    BY <1>17, <1>d DEF DeliverResponse
  <2>2. recorded' \in Notes BY <1>17, <1>c, <1>d, <1>f DEF DeliverResponse
  <2> QED BY <1>17, <2>1, <2>2 DEF DeliverResponse
<1>18. CASE DeliverFails
  BY <1>18, <1>d DEF DeliverFails
<1>19. CASE ResponseFails
  BY <1>19, <1>d DEF ResponseFails
<1>20. CASE Server
  <2>1. Head(toServer) \in 0..Len(script) /\ toServer' \in Seq(0..Len(script))
    BY <1>20, SeqTail DEF Server
  <2>2. PICK r \in Replies(Head(toServer)) : fromServer' = fromServer \o r
    BY <1>20 DEF Server
  <2>3. r \in Seq(Frames) BY <2>1, RepliesFacts
  <2>4. fromServer' \in Seq(Frames) BY <2>2, <2>3
  <2> QED BY <1>20, <2>1, <2>4 DEF Server
<1>21. CASE Cancel
  BY <1>21, <1>d DEF Cancel
<1>22. CASE UNCHANGED vars BY <1>22, <1>d DEF vars
<1> QED
  BY <1>1, <1>2, <1>3, <1>4, <1>5, <1>6, <1>7, <1>8, <1>9, <1>10, <1>11, <1>12, <1>13, <1>14, <1>15, <1>16, <1>17, <1>18, <1>19, <1>20, <1>21, <1>22
     DEF Next, Main, Requests, Responses

-----------------------------------------------------------------------------
(***************************************************************************)
(* The client proves its identity                                          *)
(***************************************************************************)

(* A conversation that is open continues, is completed or begins.          *)
LEMMA Conversations ==
    ASSUME NEW n \in Nat
    PROVE  /\ ProvedBefore(n) => ProvedBefore(n + 1)
           /\ StartedBy(script, n) /\ script[n + 1] = "proof" => ProvedBefore(n + 2)
           /\ StartedBy(script, n) /\ script[n + 1] \notin {"proof", "wrong"} =>
                 StartedBy(script, n + 1)
           /\ script[n + 1] = "start" => StartedBy(script, n + 1)
<1>1. ASSUME ProvedBefore(n) PROVE ProvedBefore(n + 1)
  <2>1. PICK i \in 1..(n - 1), j \in 1..(n - 1) :
           /\ i < j /\ script[i] = "start" /\ script[j] = "proof"
           /\ \A m \in (i + 1)..(j - 1) : script[m] \notin {"proof", "wrong"}
    BY <1>1 DEF ProvedBefore
  <2>2. i \in 1..((n + 1) - 1) /\ j \in 1..((n + 1) - 1) OBVIOUS
  <2> QED BY <2>1, <2>2 DEF ProvedBefore
<1>2. ASSUME StartedBy(script, n), script[n + 1] = "proof" PROVE ProvedBefore(n + 2)
  <2>1. PICK i \in 1..n : /\ script[i] = "start"
                          /\ \A m \in (i + 1)..n : script[m] \notin {"proof", "wrong"}
    BY <1>2 DEF StartedBy
  <2>2. /\ i \in 1..((n + 2) - 1) /\ n + 1 \in 1..((n + 2) - 1) /\ i < n + 1
        /\ (n + 1) - 1 = n
    OBVIOUS
  <2> QED BY <1>2, <2>1, <2>2 DEF ProvedBefore
<1>3. ASSUME StartedBy(script, n), script[n + 1] \notin {"proof", "wrong"}
      PROVE  StartedBy(script, n + 1)
  <2>1. PICK i \in 1..n : /\ script[i] = "start"
                          /\ \A m \in (i + 1)..n : script[m] \notin {"proof", "wrong"}
    BY <1>3 DEF StartedBy
  <2>2. /\ i \in 1..(n + 1)
        /\ \A m \in (i + 1)..(n + 1) : m \in (i + 1)..n \/ m = n + 1
    OBVIOUS
  <2> QED BY <1>3, <2>1, <2>2 DEF StartedBy
<1>4. ASSUME script[n + 1] = "start" PROVE StartedBy(script, n + 1)
  <2>1. n + 1 \in 1..(n + 1) /\ \A m \in ((n + 1) + 1)..(n + 1) : FALSE OBVIOUS
  <2> QED BY <1>4, <2>1 DEF StartedBy
<1> QED BY <1>1, <1>2, <1>3, <1>4

(* Nobody authenticated and nothing is sent at first. *)
LEMMA ProofInit == Init => ProofInv
<1> SUFFICES ASSUME Init PROVE ProofInv
  OBVIOUS
<1>1. Len(toServer) = 0 BY DEF Init
<1>2. \A k \in 1..Len(toServer) : FALSE BY <1>1
<1>3. ~conversation /\ ~(secured /\ authenticated) /\ ~Working
  BY DEF Init, Working
<1> QED BY <1>2, <1>3 DEF ProofInv

(* Every step keeps ProofInv. *)
LEMMA ProofStep ==
    ASSUME TypeInv, ProofInv, [Next]_vars
    PROVE  ProofInv'
<1>0. /\ script' = script /\ secured' = secured BY ConfigStep DEF config
<1>b. /\ \A n : ProvedBefore(n)' <=> ProvedBefore(n)
      /\ \A n : Cleared(n)' <=> Cleared(n)
  BY <1>0 DEF Cleared, ProvedBefore
<1>n. read \in Nat /\ read \in 0..Len(script) BY ScriptFacts DEF TypeInv
<1>a. ASSUME UNCHANGED <<read, conversation, authenticated>>,
             Working' => Working,
             Working' /\ req' # "answer" => Working /\ req # "answer",
             \A k \in 1..Len(toServer') :
                /\ toServer'[k] # 0 => Cleared(toServer'[k])
                /\ toServer'[k] = 0 /\ secured => ProvedBefore(read)
      PROVE  ProofInv'
  <2>1. (conversation => StartedBy(script, read))' BY <1>0, <1>a DEF ProofInv
  <2>2. (secured /\ authenticated => ProvedBefore(read + 1))'
    BY <1>0, <1>a DEF ProofInv, ProvedBefore
  <2>3. (Working => read # 0)' BY <1>a DEF ProofInv
  <2>4. (Working /\ req # "answer" => Cleared(read))'
    BY <1>0, <1>a DEF ProofInv, Cleared, ProvedBefore
  <2>5. (\A k \in 1..Len(toServer) :
           /\ toServer[k] # 0 => Cleared(toServer[k])
           /\ toServer[k] = 0 /\ secured => ProvedBefore(read))'
    BY <1>0, <1>a DEF Cleared, ProvedBefore
  <2> QED BY <2>1, <2>2, <2>3, <2>4, <2>5 DEF ProofInv
<1>c. \A k \in 1..Len(toServer) :
         /\ toServer[k] # 0 => Cleared(toServer[k])
         /\ toServer[k] = 0 /\ secured => ProvedBefore(read)
  BY DEF ProofInv
<1>d. ASSUME UNCHANGED <<read, conversation, authenticated, toServer>>,
             Working' => Working,
             Working' /\ req' # "answer" => Working /\ req # "answer"
      PROVE  ProofInv'
  BY <1>a, <1>c, <1>d
<1> USE DEF config, auth, net, seen
<1>1. CASE Dial
  BY <1>1, <1>d DEF Dial, Working
<1>2. CASE DialFails
  BY <1>2, <1>d DEF DialFails, Working
<1>3. CASE End
  BY <1>3, <1>d DEF End, Working
<1>4. CASE Drain
  BY <1>4, <1>d DEF Drain, Working
<1>5. CASE Read
  <2>1. /\ read' = read + 1 /\ toServer' = toServer /\ req = "read"
        /\ read < Len(script) /\ read' # 0
    BY <1>5, <1>n DEF Read
  <2> DEFINE kind == script[read + 1]
  <2>2. conversation' => StartedBy(script', read')
    <3>1. conversation' =>
             \/ kind = "start"
             \/ conversation /\ kind \notin {"proof", "wrong"}
      BY <1>5 DEF Read, ConversationAfter
    <3> QED BY <1>0, <1>n, <2>1, <3>1, Conversations DEF ProofInv
  <2>3. secured /\ authenticated' => ProvedBefore(read + 2)
    <3>1. authenticated' => authenticated \/ (kind = "proof" /\ conversation)
      BY <1>5 DEF Read, Authenticates
    <3>2. secured /\ authenticated => ProvedBefore((read + 1) + 1)
      BY <1>n, Conversations DEF ProofInv
    <3>3. (read + 1) + 1 = read + 2 BY <1>n
    <3> QED BY <1>n, <3>1, <3>2, <3>3, Conversations DEF ProofInv
  <2>4. Working' /\ req' # "answer" => Cleared(read + 1)
    <3>1. Working' /\ req' # "answer" => kind \in Commands /\ authenticated
      BY <1>5 DEF Read, Working, Local
    <3> QED BY <3>1 DEF Cleared, ProofInv
  <2>5. \A k \in 1..Len(toServer) :
           /\ toServer[k] # 0 => Cleared(toServer[k])
           /\ toServer[k] = 0 /\ secured => ProvedBefore(read + 1)
    BY <1>c, <1>n, Conversations
  <2>6. read' + 1 = read + 2 BY <1>n, <2>1
  <2>7. (secured /\ authenticated => ProvedBefore(read + 1))'
    BY <1>0, <2>3, <2>6 DEF ProvedBefore
  <2>8. (Working /\ req # "answer" => Cleared(read))'
    BY <1>0, <2>1, <2>4 DEF Cleared, ProvedBefore
  <2>9. (\A k \in 1..Len(toServer) :
           /\ toServer[k] # 0 => Cleared(toServer[k])
           /\ toServer[k] = 0 /\ secured => ProvedBefore(read))'
    BY <1>0, <2>1, <2>5 DEF Cleared, ProvedBefore
  <2> QED BY <2>1, <2>2, <2>7, <2>8, <2>9 DEF ProofInv
<1>6. CASE ReadFails
  BY <1>6, <1>d DEF ReadFails, Working
<1>7. CASE Answer
  BY <1>7, <1>d DEF Answer, Working
<1>8. CASE AnswerFails
  BY <1>8, <1>d DEF AnswerFails, Working
<1>9. CASE Authenticate
  <2>1. /\ UNCHANGED <<read, conversation, authenticated>> /\ Working
        /\ req = "forward" /\ req' = "auth" /\ toServer' = Append(toServer, 0)
    BY <1>9 DEF Authenticate, Working
  <2>2. secured => ProvedBefore(read) BY <2>1 DEF ProofInv, Cleared
  <2>3. toServer \in Seq(0..Len(script)) /\ 0 \in 0..Len(script) BY <1>n DEF TypeInv
  <2>4. \A k \in 1..Len(toServer') : \/ k \in 1..Len(toServer) /\ toServer'[k] = toServer[k]
                                     \/ toServer'[k] = 0
    BY <2>1, <2>3, SeqSteps
  <2>5. \A k \in 1..Len(toServer') :
           /\ toServer'[k] # 0 => Cleared(toServer'[k])
           /\ toServer'[k] = 0 /\ secured => ProvedBefore(read)
    BY <1>c, <2>2, <2>4
  <2> QED BY <1>a, <2>1, <2>5
<1>10. CASE AuthenticateDone
  BY <1>10, <1>d DEF AuthenticateDone, Working
<1>11. CASE AuthenticateFails
  BY <1>11, <1>d DEF AuthenticateFails, Working
<1>12. CASE Prepare
  BY <1>12, <1>d DEF Prepare, Working
<1>13. CASE Put
  BY <1>13, <1>d DEF Put, Working
<1>14. CASE Write
  <2>1. /\ UNCHANGED <<read, conversation, authenticated>> /\ Working
        /\ req = "write" /\ req' = "read" /\ toServer' = Append(toServer, read)
    BY <1>14 DEF Write, Working
  <2>2. Cleared(read) /\ read # 0 BY <2>1 DEF ProofInv
  <2>3. toServer \in Seq(0..Len(script)) BY DEF TypeInv
  <2>4. \A k \in 1..Len(toServer') : \/ k \in 1..Len(toServer) /\ toServer'[k] = toServer[k]
                                     \/ toServer'[k] = read
    BY <1>n, <2>1, <2>3, SeqSteps
  <2>5. \A k \in 1..Len(toServer') :
           /\ toServer'[k] # 0 => Cleared(toServer'[k])
           /\ toServer'[k] = 0 /\ secured => ProvedBefore(read)
    BY <1>c, <2>2, <2>4
  <2>6. ~Working' BY <2>1 DEF Working
  <2> QED BY <1>a, <2>1, <2>5, <2>6
<1>15. CASE WriteFails
  BY <1>15, <1>d DEF WriteFails, Working
<1>16. CASE TakeResponse
  BY <1>16, <1>d DEF TakeResponse, Working
<1>17. CASE DeliverResponse
  BY <1>17, <1>d DEF DeliverResponse, Working
<1>18. CASE DeliverFails
  BY <1>18, <1>d DEF DeliverFails, Working
<1>19. CASE ResponseFails
  BY <1>19, <1>d DEF ResponseFails, Working
<1>20. CASE Server
  <2>1. /\ UNCHANGED <<read, conversation, authenticated, req>>
        /\ toServer # <<>> /\ toServer' = Tail(toServer)
    BY <1>20 DEF Server
  <2>2. \A k \in 1..Len(toServer') :
           k + 1 \in 1..Len(toServer) /\ toServer'[k] = toServer[k + 1]
    BY <2>1, SeqTail DEF TypeInv
  <2>3. \A k \in 1..Len(toServer') :
           /\ toServer'[k] # 0 => Cleared(toServer'[k])
           /\ toServer'[k] = 0 /\ secured => ProvedBefore(read)
    BY <1>c, <2>2
  <2> QED BY <1>a, <2>1, <2>3 DEF Working
<1>21. CASE Cancel
  BY <1>21, <1>d DEF Cancel, Working
<1>22. CASE UNCHANGED vars BY <1>22, <1>d DEF vars, Working
<1> QED
  BY <1>1, <1>2, <1>3, <1>4, <1>5, <1>6, <1>7, <1>8, <1>9, <1>10, <1>11, <1>12, <1>13, <1>14, <1>15, <1>16, <1>17, <1>18, <1>19, <1>20, <1>21, <1>22
     DEF Next, Main, Requests, Responses

(***************************************************************************)
(* The two legs                                                            *)
(***************************************************************************)
LEMMA LegInit == Init => LegInv
<1> SUFFICES ASSUME Init PROVE LegInv
  OBVIOUS
<1>1. rsp.pc = "none" BY DEF Init, NoReader
<1>2. Len(out) = 0 BY DEF Init
<1> QED BY <1>1, <1>2 DEF Init, LegInv, NonZero

(* Every step keeps the legs apart. *)
LEMMA LegStep ==
    ASSUME TypeInv, ProofInv, LegInv, [Next]_vars
    PROVE  LegInv'
<1>0. /\ toServer \in Seq(0..Len(script)) /\ fromServer \in Seq(Frames)
      /\ out \in Seq(0..Len(script)) /\ read \in 0..Len(script)
      /\ Len(script) \in Nat
  BY ScriptFacts DEF TypeInv
<1>a. ASSUME UNCHANGED <<upstreamAuth, toServer, fromServer, out>>,
             rsp' = rsp \/ (rsp.pc # "none" /\ rsp'.pc \in {"read", "end"}),
             \/ req' = req \/ req' = "end"
             \/ req \notin {"auth", "end", "put", "write"}
                /\ req' \notin {"auth", "end", "put", "write"}
             \/ upstreamAuth /\ req' # "auth"
             \/ req = "none" /\ req' = "read",
             phase' = "dial" => phase = "dial" /\ req' = req
      PROVE  LegInv'
  BY <1>a DEF LegInv
<1>b. ASSUME NEW n \in 0..Len(script), n # 0, out' = Append(out, n)
      PROVE  NonZero(out')
  <2>1. \A k \in 1..Len(out') : out'[k] = n \/ (k \in 1..Len(out) /\ out'[k] = out[k])
    BY <1>0, <1>b, SeqSteps
  <2> QED BY <1>b, <2>1 DEF LegInv, NonZero
<1>d. /\ \A pc : [rsp EXCEPT !.pc = pc].pc = pc
      /\ phase = "dial" => req = "none"
  BY DEF TypeInv, LegInv
<1> USE DEF config, auth, net, seen
<1>1. CASE Dial
  <2>1. req = "none" BY <1>1 DEF Dial, LegInv
  <2> QED BY <1>1, <1>a, <1>d, <2>1 DEF Dial
<1>2. CASE DialFails
  BY <1>2, <1>a, <1>d DEF DialFails
<1>3. CASE End
  BY <1>3, <1>a, <1>d DEF End
<1>4. CASE Drain
  BY <1>4, <1>a, <1>d DEF Drain
<1>5. CASE Read
  BY <1>5, <1>a, <1>d DEF Read
<1>6. CASE ReadFails
  BY <1>6, <1>a, <1>d DEF ReadFails
<1>7. CASE Answer
  <2>1. read # 0 BY <1>7 DEF Answer, ProofInv, Working
  <2>2. NonZero(out') BY <1>7, <1>0, <1>b, <2>1 DEF Answer
  <2> QED BY <1>7, <2>2 DEF Answer, LegInv
<1>8. CASE AnswerFails
  BY <1>8, <1>a, <1>d DEF AnswerFails
<1>9. CASE Authenticate
  <2>1. /\ toServer = <<>> /\ fromServer = <<>> BY <1>9 DEF Authenticate, LegInv
  <2>2. toServer' = <<0>> BY <1>9, <2>1 DEF Authenticate
  <2> QED BY <1>9, <2>1, <2>2 DEF Authenticate, LegInv, ReaderDuringAuth
<1>10. CASE AuthenticateDone
  <2>1. /\ toServer = <<>> /\ fromServer = <<Response(0, FALSE)>>
    BY <1>10 DEF AuthenticateDone, LegInv
  <2>2. Len(toServer') = 0 /\ Len(fromServer') = 0
    BY <1>10, <2>1 DEF AuthenticateDone
  <2>3. NonZero(toServer') /\ NonZeroFrames(fromServer')
    BY <2>2 DEF NonZero, NonZeroFrames
  <2> QED BY <1>10, <1>d, <2>3 DEF AuthenticateDone, LegInv
<1>11. CASE AuthenticateFails
  BY <1>11, <1>a, <1>d DEF AuthenticateFails
<1>12. CASE Prepare
  <2>1. CASE upstreamAuth
    BY <1>12, <1>d, <2>1 DEF Prepare, LegInv
  <2>2. CASE ~upstreamAuth
    <3>1. toServer = <<>> /\ fromServer = <<>> BY <1>12, <2>2 DEF Prepare, LegInv
    <3>2. NonZero(toServer) /\ NonZeroFrames(fromServer)
      BY <3>1 DEF NonZero, NonZeroFrames
    <3> QED BY <1>12, <1>d, <2>2, <3>2 DEF Prepare, LegInv
  <2> QED BY <2>1, <2>2
<1>13. CASE Put
  <2>1. upstreamAuth BY <1>13 DEF Put, LegInv
  <2> QED BY <1>13, <1>a, <1>d, <2>1 DEF Put
<1>14. CASE Write
  <2>1. upstreamAuth /\ read # 0 BY <1>14 DEF Write, LegInv, ProofInv, Working
  <2>2. \A k \in 1..Len(toServer') :
           toServer'[k] = read \/ (k \in 1..Len(toServer) /\ toServer'[k] = toServer[k])
    BY <1>14, <1>0, SeqSteps DEF Write
  <2>3. NonZero(toServer') BY <2>1, <2>2 DEF LegInv, NonZero
  <2> QED BY <1>14, <2>1, <2>3 DEF Write, LegInv
<1>15. CASE WriteFails
  <2>1. upstreamAuth BY <1>15 DEF WriteFails, LegInv
  <2> QED BY <1>15, <1>a, <1>d, <2>1 DEF WriteFails
<1>16. CASE TakeResponse
  <2>1. upstreamAuth BY <1>16 DEF TakeResponse, LegInv
  <2>2. /\ Head(fromServer).to # 0 /\ NonZeroFrames(fromServer')
    <3>1. /\ Head(fromServer) = fromServer[1] /\ 1 \in 1..Len(fromServer)
          /\ \A k \in 1..Len(fromServer') : k + 1 \in 1..Len(fromServer)
                                            /\ fromServer'[k] = fromServer[k + 1]
      BY <1>16, <1>0, SeqTail DEF TakeResponse
    <3>2. NonZeroFrames(fromServer) BY <2>1 DEF LegInv
    <3> QED BY <3>1, <3>2 DEF NonZeroFrames
  <2>3. rsp'.frame = Head(fromServer) BY <1>16 DEF TakeResponse
  <2> QED BY <1>16, <2>1, <2>2, <2>3 DEF TakeResponse, LegInv
<1>17. CASE DeliverResponse
  <2>1. upstreamAuth /\ rsp.frame.to # 0 BY <1>17 DEF DeliverResponse, LegInv
  <2>2. rsp.frame.to \in 0..Len(script) BY DEF TypeInv, Frames
  <2>3. NonZero(out') BY <1>17, <1>b, <2>1, <2>2 DEF DeliverResponse
  <2> QED BY <1>17, <1>d, <2>1, <2>3 DEF DeliverResponse, LegInv
<1>18. CASE DeliverFails
  BY <1>18, <1>a, <1>d DEF DeliverFails
<1>19. CASE ResponseFails
  BY <1>19, <1>a, <1>d DEF ResponseFails
<1>20. CASE Server
  <2>1. /\ toServer # <<>> /\ toServer' = Tail(toServer)
        /\ UNCHANGED <<upstreamAuth, rsp, req, out, phase>>
    BY <1>20 DEF Server
  <2>2. PICK r \in Replies(Head(toServer)) : fromServer' = fromServer \o r
    BY <1>20 DEF Server
  <2>3. /\ Head(toServer) \in 0..Len(script) /\ Head(toServer) = toServer[1]
        /\ 1 \in 1..Len(toServer)
        /\ \A k \in 1..Len(toServer') : k + 1 \in 1..Len(toServer)
                                        /\ toServer'[k] = toServer[k + 1]
    BY <1>0, <2>1, SeqTail
  <2>4. /\ r \in Seq(Frames) /\ \A i \in 1..Len(r) : r[i].to = Head(toServer)
        /\ Head(toServer) = 0 => r = <<Response(0, FALSE)>>
    <3>1. script \in Scripts BY DEF TypeInv
    <3> QED BY <2>3, <3>1, RepliesFacts, Zenon
  <2>5. CASE upstreamAuth
    <3>1. NonZero(toServer') /\ Head(toServer) # 0
      BY <2>3, <2>5 DEF LegInv, NonZero
    <3>2. NonZeroFrames(fromServer')
      <4>1. \A i \in 1..Len(fromServer') :
               \/ i \in 1..Len(fromServer) /\ fromServer'[i] = fromServer[i]
               \/ \E j \in 1..Len(r) : fromServer'[i] = r[j]
        <5>1. fromServer \in Seq(Frames) /\ r \in Seq(Frames) BY <1>0, <2>4
        <5>2. \A i \in 1..Len(fromServer \o r) :
                 \/ i \in 1..Len(fromServer) /\ (fromServer \o r)[i] = fromServer[i]
                 \/ \E j \in 1..Len(r) : (fromServer \o r)[i] = r[j]
          BY <5>1, SeqConcat
        <5>3. fromServer' = fromServer \o r BY <2>2
        <5> QED BY <5>2, <5>3, Zenon
      <4>2. NonZeroFrames(fromServer) BY <2>5 DEF LegInv
      <4> QED BY <2>4, <3>1, <4>1, <4>2 DEF NonZeroFrames
    <3> QED BY <2>1, <2>5, <3>1, <3>2 DEF LegInv
  <2>6. CASE ~upstreamAuth /\ req = "auth"
    <3>1. toServer = <<0>> /\ fromServer = <<>> BY <2>1, <2>6 DEF LegInv
    <3>2. toServer' = <<>> /\ Head(toServer) = 0 BY <2>1, <3>1
    <3>3. fromServer' = <<Response(0, FALSE)>>
      BY <2>2, <2>4, <3>1, <3>2, ConcatEmptySeq
    <3> QED BY <2>1, <2>6, <3>2, <3>3 DEF LegInv
  <2>7. CASE ~upstreamAuth /\ req # "auth"
    BY <2>1, <2>7 DEF LegInv
  <2> QED BY <2>5, <2>6, <2>7
<1>21. CASE Cancel
  BY <1>21, <1>a, <1>d DEF Cancel
<1>22. CASE UNCHANGED vars BY <1>22, <1>a DEF vars
<1> QED
  BY <1>1, <1>2, <1>3, <1>4, <1>5, <1>6, <1>7, <1>8, <1>9, <1>10, <1>11, <1>12, <1>13, <1>14, <1>15, <1>16, <1>17, <1>18, <1>19, <1>20, <1>21, <1>22
     DEF Next, Main, Requests, Responses

(***************************************************************************)
(* "... does not disclose an upstream username or start upstream SCRAM     *)
(* until the listener identity succeeds": for every script, the server is  *)
(* sent nothing before the client completed a conversation, and neither    *)
(* leg's authentication is seen on the other.                              *)
(***************************************************************************)
THEOREM LegsStayApart == Spec => []LegsApart
<1> DEFINE IInv == TypeInv /\ ProofInv /\ LegInv
<1>1. Init => IInv BY TypeInit, ProofInit, LegInit
<1>2. IInv /\ [Next]_vars => IInv'
  <2> SUFFICES ASSUME IInv, [Next]_vars PROVE IInv'
    OBVIOUS
  <2>1. Working => read # 0 BY DEF ProofInv
  <2> QED BY <2>1, TypeStep, ProofStep, LegStep
<1>3. IInv => LegsApart
  <2> SUFFICES ASSUME IInv PROVE LegsApart
    OBVIOUS
  <2>1. \A k \in 1..Len(toServer) :
           LET n == toServer[k]
           IN  /\ n # 0 => script[n] \in Commands
               /\ secured => ProvedBefore(IF n = 0 THEN read ELSE n)
    BY DEF ProofInv, Cleared
  <2>2. \A k \in 1..Len(out) : out[k] # 0 BY DEF LegInv, NonZero
  <2>3. req = "auth" /\ fromServer # <<>> => Head(fromServer).to = 0
    BY DEF LegInv, Response
  <2> QED BY <2>1, <2>2, <2>3 DEF LegsApart
<1> QED BY <1>1, <1>2, <1>3, PTL DEF Spec

-----------------------------------------------------------------------------
(***************************************************************************)
(* Every request is recorded once                                          *)
(***************************************************************************)

(* Nothing is on its way at first. *)
LEMMA SentInit == Init => SentInv
<1> SUFFICES ASSUME Init PROVE SentInv
  OBVIOUS
<1>1. Len(toServer) = 0 /\ Len(fromServer) = 0 /\ rsp.pc = "none"
  BY DEF Init, NoReader
<1>2. /\ \A k \in 1..Len(toServer) : FALSE
      /\ \A k \in 1..Len(fromServer) : FALSE
  BY <1>1
<1> QED BY <1>1, <1>2 DEF SentInv

(* Every step keeps what is on its way for requests that were written. *)
LEMMA SentStep ==
    ASSUME TypeInv, ProofInv, SentInv, [Next]_vars
    PROVE  SentInv'
<1> DEFINE WP(n) == n <= read' /\ (Working' => n < read')
<1>f. \A f \in Frames : f.to \in 0..Len(script) BY DEF Frames
<1>0. /\ toServer \in Seq(0..Len(script)) /\ fromServer \in Seq(Frames)
      /\ \A k \in 1..Len(toServer) : toServer[k] \in 0..Len(script)
      /\ \A k \in 1..Len(fromServer) : fromServer[k].to \in 0..Len(script)
      /\ read \in 0..Len(script) /\ read \in Nat /\ Len(script) \in Nat
      /\ script' = script
      /\ rsp.frame.to \in 0..Len(script)
  <2>1. /\ toServer \in Seq(0..Len(script)) /\ fromServer \in Seq(Frames)
        /\ Len(script) \in Nat /\ script' = script /\ rsp.frame \in Frames
        /\ read \in 0..Len(script) /\ read \in Nat
    BY ScriptFacts, ConfigStep DEF TypeInv, config
  <2>2. \A k \in 1..Len(toServer) : toServer[k] \in 0..Len(script) BY <2>1
  <2>3. \A k \in 1..Len(fromServer) : fromServer[k] \in Frames BY <2>1
  <2> QED BY <1>f, <2>1, <2>2, <2>3
<1>s. \A k \in 1..Len(toServer) : Written(toServer[k]) BY DEF SentInv
<1>t. \A k \in 1..Len(fromServer) :
         Written(fromServer[k].to) /\ Announced(script, fromServer[k])
  BY DEF SentInv
<1>b. ASSUME \A n \in 0..Len(script) : Written(n) => WP(n),
             \/ toServer' = toServer
             \/ \A k \in 1..Len(toServer') : WP(toServer'[k]),
             \/ fromServer' = fromServer
             \/ \A k \in 1..Len(fromServer') :
                   WP(fromServer'[k].to) /\ Announced(script, fromServer'[k]),
             \/ rsp' = rsp
             \/ rsp'.pc # "write"
             \/ WP(rsp'.frame.to) /\ Announced(script, rsp'.frame)
      PROVE  SentInv'
  <2>1. \A k \in 1..Len(toServer') : WP(toServer'[k]) BY <1>0, <1>s, <1>b
  <2>2. \A k \in 1..Len(fromServer') :
           WP(fromServer'[k].to) /\ Announced(script, fromServer'[k])
    BY <1>0, <1>t, <1>b
  <2>3. rsp'.pc = "write" => WP(rsp'.frame.to) /\ Announced(script, rsp'.frame)
    BY <1>0, <1>b DEF SentInv
  <2> QED BY <1>0, <2>1, <2>2, <2>3 DEF SentInv, Announced, Written
<1>a. ASSUME \A n \in 0..Len(script) : Written(n) => WP(n),
             UNCHANGED <<toServer, fromServer>>, rsp' = rsp \/ rsp'.pc # "write"
      PROVE  SentInv'
  BY <1>a, <1>b
<1>c. ASSUME read' = read, Working' => Working,
             UNCHANGED <<toServer, fromServer>>, rsp' = rsp \/ rsp'.pc # "write"
      PROVE  SentInv'
  <2>1. \A n \in 0..Len(script) : Written(n) => WP(n) BY <1>c DEF Written
  <2> QED BY <1>a, <1>c, <2>1
<1>d. \A pc : [rsp EXCEPT !.pc = pc].pc = pc BY DEF TypeInv
<1> USE DEF config, auth, net, seen
<1>1. CASE Dial
  BY <1>1, <1>c, <1>d DEF Dial, Working
<1>2. CASE DialFails
  BY <1>2, <1>c, <1>d DEF DialFails, Working
<1>3. CASE End
  BY <1>3, <1>c, <1>d DEF End, Working
<1>4. CASE Drain
  BY <1>4, <1>c, <1>d DEF Drain, Working
<1>5. CASE Read
  <2>1. /\ read' = read + 1 /\ ~Working
    BY <1>5 DEF Read, Working
  <2>2. \A n \in 0..Len(script) : Written(n) => WP(n)
    BY <2>1, <1>0 DEF Written
  <2> QED BY <1>5, <1>a, <2>2 DEF Read
<1>6. CASE ReadFails
  BY <1>6, <1>c, <1>d DEF ReadFails, Working
<1>7. CASE Answer
  BY <1>7, <1>c, <1>d DEF Answer, Working
<1>8. CASE AnswerFails
  BY <1>8, <1>c, <1>d DEF AnswerFails, Working
<1>9. CASE Authenticate
  <2>1. /\ Working /\ Working' /\ read' = read /\ toServer' = Append(toServer, 0)
        /\ rsp' = rsp /\ fromServer' = fromServer
    BY <1>9 DEF Authenticate, Working, ReaderDuringAuth
  <2>2. WP(0) BY <1>0, <2>1 DEF ProofInv, Written
  <2>3. \A n \in 0..Len(script) : Written(n) => WP(n) BY <2>1 DEF Written
  <2>4. \A k \in 1..Len(toServer') :
           toServer'[k] = 0 \/ (k \in 1..Len(toServer) /\ toServer'[k] = toServer[k])
    BY <1>0, <2>1, SeqSteps
  <2>5. \A k \in 1..Len(toServer') : WP(toServer'[k])
    BY <1>0, <1>s, <2>2, <2>3, <2>4
  <2> QED BY <1>b, <2>1, <2>3, <2>5
<1>10. CASE AuthenticateDone
  <2>1. /\ Working /\ Working' /\ read' = read /\ toServer' = toServer
        /\ fromServer # <<>> /\ fromServer' = Tail(fromServer)
        /\ rsp'.pc # "write"
    BY <1>10, <1>d DEF AuthenticateDone, Working
  <2>2. \A n \in 0..Len(script) : Written(n) => WP(n) BY <2>1 DEF Written
  <2>3. \A k \in 1..Len(fromServer') :
           k + 1 \in 1..Len(fromServer) /\ fromServer'[k] = fromServer[k + 1]
    BY <1>0, <2>1, SeqTail
  <2>4. \A k \in 1..Len(fromServer') :
           WP(fromServer'[k].to) /\ Announced(script, fromServer'[k])
    BY <1>0, <1>t, <2>2, <2>3
  <2> QED BY <1>b, <1>s, <2>1, <2>2, <2>4
<1>11. CASE AuthenticateFails
  BY <1>11, <1>c, <1>d DEF AuthenticateFails, Working
<1>12. CASE Prepare
  BY <1>12, <1>c, <1>d DEF Prepare, Working
<1>13. CASE Put
  BY <1>13, <1>c, <1>d DEF Put, Working
<1>14. CASE Write
  <2>1. /\ ~Working' /\ read' = read /\ toServer' = Append(toServer, read)
        /\ rsp' = rsp /\ fromServer' = fromServer
    BY <1>14 DEF Write, Working
  <2>2. WP(read) BY <1>0, <2>1 DEF Written
  <2>3. \A n \in 0..Len(script) : Written(n) => WP(n) BY <2>1 DEF Written
  <2>4. \A k \in 1..Len(toServer') :
           toServer'[k] = read \/ (k \in 1..Len(toServer) /\ toServer'[k] = toServer[k])
    BY <1>0, <2>1, SeqSteps
  <2>5. \A k \in 1..Len(toServer') : WP(toServer'[k])
    BY <1>0, <1>s, <2>2, <2>3, <2>4
  <2> QED BY <1>b, <2>1, <2>3, <2>5
<1>15. CASE WriteFails
  BY <1>15, <1>c, <1>d DEF WriteFails, Working
<1>16. CASE TakeResponse
  <2>1. /\ read' = read /\ Working' = Working /\ toServer' = toServer
        /\ fromServer # <<>> /\ fromServer' = Tail(fromServer)
        /\ rsp'.frame = Head(fromServer)
    BY <1>16 DEF TakeResponse, Working
  <2>2. \A n \in 0..Len(script) : Written(n) => WP(n) BY <2>1 DEF Written
  <2>3. /\ Head(fromServer) = fromServer[1] /\ 1 \in 1..Len(fromServer)
        /\ \A k \in 1..Len(fromServer') :
             k + 1 \in 1..Len(fromServer) /\ fromServer'[k] = fromServer[k + 1]
    BY <1>0, <2>1, SeqTail
  <2>4. \A k \in 1..Len(fromServer') :
           WP(fromServer'[k].to) /\ Announced(script, fromServer'[k])
    BY <1>0, <1>t, <2>2, <2>3
  <2>5. WP(rsp'.frame.to) /\ Announced(script, rsp'.frame)
    BY <1>0, <1>t, <2>1, <2>2, <2>3
  <2> QED BY <1>b, <1>s, <2>1, <2>2, <2>4, <2>5
<1>17. CASE DeliverResponse
  BY <1>17, <1>c, <1>d DEF DeliverResponse, Working
<1>18. CASE DeliverFails
  BY <1>18, <1>c, <1>d DEF DeliverFails, Working
<1>19. CASE ResponseFails
  BY <1>19, <1>c, <1>d DEF ResponseFails, Working
<1>20. CASE Server
  <2>1. /\ toServer # <<>> /\ toServer' = Tail(toServer)
        /\ read' = read /\ Working' = Working /\ rsp' = rsp
    BY <1>20 DEF Server, Working
  <2>2. PICK r \in Replies(Head(toServer)) : fromServer' = fromServer \o r
    BY <1>20 DEF Server
  <2>3. \A n \in 0..Len(script) : Written(n) => WP(n) BY <2>1 DEF Written
  <2>4. /\ Head(toServer) \in 0..Len(script) /\ Head(toServer) = toServer[1]
        /\ 1 \in 1..Len(toServer)
        /\ \A k \in 1..Len(toServer') : k + 1 \in 1..Len(toServer)
                                        /\ toServer'[k] = toServer[k + 1]
    BY <1>0, <2>1, SeqTail
  <2>5. /\ r \in Seq(Frames)
        /\ \A i \in 1..Len(r) : r[i].to = Head(toServer) /\ Announced(script, r[i])
    <3>1. script \in Scripts BY DEF TypeInv
    <3> QED BY <2>4, <3>1, RepliesFacts, Zenon
  <2>6. \A k \in 1..Len(toServer') : WP(toServer'[k])
    BY <1>0, <1>s, <2>3, <2>4
  <2>7. WP(Head(toServer)) BY <1>s, <2>3, <2>4
  <2>8. \A i \in 1..Len(fromServer') :
           \/ i \in 1..Len(fromServer) /\ fromServer'[i] = fromServer[i]
           \/ \E j \in 1..Len(r) : fromServer'[i] = r[j]
    BY <1>0, <2>2, <2>5, SeqConcat
  <2>9. \A k \in 1..Len(fromServer') :
           WP(fromServer'[k].to) /\ Announced(script, fromServer'[k])
    BY <1>0, <1>t, <2>3, <2>5, <2>7, <2>8
  <2> QED BY <1>b, <2>1, <2>3, <2>6, <2>9
<1>21. CASE Cancel
  BY <1>21, <1>c, <1>d DEF Cancel, Working
<1>22. CASE UNCHANGED vars BY <1>22, <1>c, <1>d DEF vars, Working
<1> QED
  BY <1>1, <1>2, <1>3, <1>4, <1>5, <1>6, <1>7, <1>8, <1>9, <1>10, <1>11, <1>12, <1>13, <1>14, <1>15, <1>16, <1>17, <1>18, <1>19, <1>20, <1>21, <1>22
     DEF Next, Main, Requests, Responses

(* Nothing was read at first. *)
LEMMA KeptInit == Init => KeptInv
<1> SUFFICES ASSUME Init PROVE KeptInv
  OBVIOUS
<1>1. \A n \in 1..read : FALSE BY DEF Init
<1> QED BY <1>1 DEF Init, KeptInv

(* Every step keeps each request that was read in some hand. *)
LEMMA KeptStep ==
    ASSUME TypeInv, ProofInv, LegInv, SentInv, KeptInv, [Next]_vars
    PROVE  KeptInv'
<1> DEFINE Safe(n) == \/ recorded[n] # <<>> \/ n \in undelivered
                      \/ n \in pending \/ Held(n)
                      \/ Working /\ n = read
<1>0. /\ script' = script /\ Len(script) \in Nat /\ read \in Nat
      /\ read \in 0..Len(script)
      /\ \A n \in 1..read : n \in 1..Len(script)
      /\ Working => read # 0 /\ read \in 1..read /\ read \in 1..Len(script)
      /\ pending \subseteq 1..Len(script)
      /\ \A n \in 1..Len(script) : recorded[n] \in Seq(Outcomes)
  <2>1. /\ script' = script /\ Len(script) \in Nat /\ read \in 0..Len(script)
        /\ pending \subseteq 1..Len(script)
        /\ recorded \in [1..Len(script) -> Seq(Outcomes)]
    BY ScriptFacts, ConfigStep DEF TypeInv, config
  <2>2. Working => read # 0 BY DEF ProofInv
  <2> QED BY <2>1, <2>2
<1>s. \A n \in 1..read : Safe(n) BY DEF KeptInv
<1>d. \A pc : [rsp EXCEPT !.pc = pc].pc = pc BY DEF TypeInv
<1>e. \A x \in Seq(Outcomes), o \in Outcomes : Append(x, o) # <<>>
  <2> TAKE x \in Seq(Outcomes), o \in Outcomes
  <2>1. Len(Append(x, o)) = Len(x) + 1 /\ Len(x) \in Nat BY SeqSteps
  <2>2. Len(<<>>) = 0 OBVIOUS
  <2> QED BY <2>1, <2>2
<1>q. \A m \in 1..Len(script), o \in {"answered", "sent", "failed"} :
         /\ Recorded(m, o)[m] # <<>>
         /\ \A n \in 1..Len(script) : recorded[n] # <<>> => Recorded(m, o)[n] # <<>>
  <2> TAKE m \in 1..Len(script), o \in {"answered", "sent", "failed"}
  <2>1. o \in Outcomes BY DEF Outcomes
  <2>2. /\ Recorded(m, o)[m] = Append(recorded[m], o)
        /\ \A n \in 1..Len(script) : n # m => Recorded(m, o)[n] = recorded[n]
    BY <2>1, RecordedFacts
  <2> QED BY <1>0, <1>e, <2>1, <2>2
<1>r. Working => \A o \in {"answered", "sent", "failed"}, n \in 1..read :
         n = read \/ recorded[n] # <<>> => Recorded(read, o)[n] # <<>>
  BY <1>0, <1>q
<1>a. ASSUME UNCHANGED <<read, recorded, undelivered, pending>>,
             \A n : Held(n) => Held(n)',
             Working => Working',
             req' = "write" <=> req = "write",
             phase' = phase \/ (phase # "closed" /\ phase' \notin {"dial", "closed"})
      PROVE  KeptInv'
  <2>1. \A n \in 1..read' : Safe(n)' BY <1>s, <1>a
  <2>2. ((phase = "dial" => pending = {})
         /\ (phase = "closed" => pending \subseteq (IF req = "write" THEN {read} ELSE {}))
         /\ (req = "write" /\ script[read] # "more" /\ phase # "closed" => read \in pending))'
    BY <1>0, <1>a DEF KeptInv
  <2> QED BY <2>1, <2>2 DEF KeptInv
<1> USE DEF config, auth, net, seen
<1>1. CASE Dial
  <2>1. req = "none" BY <1>1 DEF Dial, LegInv
  <2> QED BY <1>1, <1>a, <2>1 DEF Dial, Working, Held
<1>2. CASE DialFails
  <2>1. /\ UNCHANGED <<read, recorded, undelivered, rsp>> /\ pending' = {} /\ ~Working
        /\ pending = {} /\ phase' = "closed" /\ req' = "end"
    <3>1. req = "none" BY <1>2 DEF DialFails, LegInv
    <3> QED BY <1>2, <3>1 DEF DialFails, KeptInv, Working
  <2>2. \A n \in 1..read' : Safe(n)' BY <1>s, <2>1 DEF Held
  <2> QED BY <1>0, <2>1, <2>2 DEF KeptInv
<1>3. CASE End
  BY <1>3, <1>a, <1>d DEF End, Working, Held
<1>4. CASE Drain
  <2>1. /\ UNCHANGED <<read, undelivered, rsp, req>> /\ pending' = {}
        /\ phase' = "closed" /\ recorded' = Drained
    BY <1>4 DEF Drain
  <2>2. \A n \in 1..read : n \in pending \/ recorded[n] # <<>> => recorded'[n] # <<>>
    <3> TAKE n \in 1..read
    <3>1. recorded'[n] = IF n \in pending THEN Append(recorded[n], "failed") ELSE recorded[n]
      BY <1>0, <2>1 DEF Drained
    <3>2. Append(recorded[n], "failed") # <<>> BY <1>0, <1>e DEF Outcomes
    <3> QED BY <3>1, <3>2
  <2>3. \A n \in 1..read' : Safe(n)' BY <1>s, <2>1, <2>2 DEF Held, Working
  <2> QED BY <2>1, <2>3 DEF KeptInv
<1>5. CASE Read
  <2>1. /\ UNCHANGED <<phase, recorded, undelivered, rsp, pending>> /\ ~Working
        /\ req = "read" /\ req' \notin {"read", "write"} /\ Working' /\ read' = read + 1
    BY <1>5 DEF Read, Working
  <2>2. \A n \in 1..read' : n \in 1..read \/ n = read' BY <1>0, <2>1
  <2>3. \A n \in 1..read' : Safe(n)' BY <1>s, <2>1, <2>2 DEF Held
  <2> QED BY <2>1, <2>3 DEF KeptInv
<1>6. CASE ReadFails
  BY <1>6, <1>a, <1>d DEF ReadFails, Working, Held
<1>7. CASE Answer
  <2>1. /\ UNCHANGED <<phase, undelivered, rsp, pending, read>> /\ Working
        /\ req = "answer" /\ req' = "read" /\ recorded' = Recorded(read, "answered")
    BY <1>7 DEF Answer, Working
  <2>2. \A n \in 1..read : n = read \/ recorded[n] # <<>> => recorded'[n] # <<>>
    BY <1>r, <2>1
  <2>3. \A n \in 1..read' : Safe(n)' BY <1>s, <2>1, <2>2 DEF Held
  <2> QED BY <2>1, <2>3 DEF KeptInv
<1>8. CASE AnswerFails
  <2>1. /\ UNCHANGED <<phase, recorded, rsp, pending, read>> /\ Working
        /\ req = "answer" /\ req' = "end" /\ undelivered' = undelivered \cup {read}
    BY <1>8 DEF AnswerFails, Working
  <2>2. \A n \in 1..read' : Safe(n)' BY <1>s, <2>1 DEF Held
  <2> QED BY <2>1, <2>2 DEF KeptInv
<1>9. CASE Authenticate
  BY <1>9, <1>a, <1>d DEF Authenticate, ReaderDuringAuth, Working, Held
<1>10. CASE AuthenticateDone
  <2>1. rsp.pc = "none" BY <1>10 DEF AuthenticateDone, LegInv
  <2> QED BY <1>10, <1>a, <2>1 DEF AuthenticateDone, Working, Held
<1>11. CASE AuthenticateFails
  <2>1. /\ UNCHANGED <<phase, undelivered, rsp, pending, read>> /\ Working
        /\ req \in {"auth", "forward"} /\ req' = "end"
        /\ recorded' = Recorded(read, "failed")
    BY <1>11 DEF AuthenticateFails, Working
  <2>2. \A n \in 1..read : n = read \/ recorded[n] # <<>> => recorded'[n] # <<>>
    BY <1>r, <2>1
  <2>3. \A n \in 1..read' : Safe(n)' BY <1>s, <2>1, <2>2 DEF Held
  <2> QED BY <2>1, <2>3 DEF KeptInv
<1>12. CASE Prepare
  BY <1>12, <1>a, <1>d DEF Prepare, Working, Held
<1>13. CASE Put
  <2>1. /\ UNCHANGED <<phase, undelivered, rsp, recorded, read>> /\ Working /\ Working'
        /\ req = "put" /\ req' = "write" /\ phase # "dial"
        /\ pending' = IF script[read] = "more" THEN pending ELSE pending \cup {read}
    BY <1>13 DEF Put, Working, Key, LegInv
  <2>2. \A n \in 1..read' : Safe(n)' BY <1>s, <2>1 DEF Held
  <2> QED BY <1>0, <2>1, <2>2 DEF KeptInv
<1>14. CASE Write
  <2>1. /\ UNCHANGED <<phase, undelivered, rsp, pending, read>> /\ Working
        /\ req = "write" /\ req' = "read" /\ phase # "closed"
        /\ recorded' = IF script[read] = "more" THEN Recorded(read, "sent") ELSE recorded
    BY <1>14 DEF Write, Working, Closed
  <2>2. script[read] # "more" => read \in pending BY <2>1 DEF KeptInv
  <2>3. \A n \in 1..read : recorded[n] # <<>> => recorded'[n] # <<>>
    BY <1>r, <2>1
  <2>4. script[read] = "more" => recorded'[read] # <<>> BY <1>r, <1>0, <2>1
  <2>5. \A n \in 1..read' : Safe(n)' BY <1>s, <2>1, <2>2, <2>3, <2>4 DEF Held
  <2> QED BY <2>1, <2>5 DEF KeptInv
<1>15. CASE WriteFails
  <2>1. /\ UNCHANGED <<phase, undelivered, rsp, read>> /\ Working
        /\ req = "write" /\ req' = "end" /\ pending' = pending \ {read}
        /\ recorded' = Recorded(read, "failed")
    BY <1>15 DEF WriteFails, Working, Key
  <2>2. \A n \in 1..read : n = read \/ recorded[n] # <<>> => recorded'[n] # <<>>
    BY <1>r, <2>1
  <2>3. \A n \in 1..read' : Safe(n)' BY <1>s, <2>1, <2>2 DEF Held
  <2> QED BY <2>1, <2>3 DEF KeptInv
<1>16. CASE TakeResponse
  <2> DEFINE f == Head(fromServer)
  <2>0. (f.to \in pending) \in BOOLEAN OBVIOUS
  <2>1. /\ UNCHANGED <<phase, undelivered, recorded, read, req>> /\ rsp.pc = "read"
        /\ fromServer # <<>>
        /\ rsp' = [pc |-> "write", frame |-> f, found |-> f.to \in pending]
        /\ pending' = IF f.more THEN pending ELSE pending \ {f.to}
    BY <1>16 DEF TakeResponse, PendingAfter
  <2>2. Working => f.to < read
    <3>1. f = fromServer[1] /\ 1 \in 1..Len(fromServer) BY <2>1, SeqTail DEF TypeInv
    <3> QED BY <3>1 DEF SentInv, Written
  <2>3. rsp'.pc = "write" /\ rsp'.frame.to = f.to /\ rsp'.found = (f.to \in pending)
    BY <2>0, <2>1, Zenon
  <2> HIDE DEF f
  <2>4. \A n \in 1..read' : Safe(n)' BY <1>s, <2>1, <2>3 DEF Held, Working
  <2>5. pending' \subseteq pending /\ \A n \in pending : n # f.to => n \in pending'
    BY <2>1
  <2>6. req = "write" => f.to # read BY <1>0, <2>2 DEF Working
  <2> QED BY <1>0, <2>1, <2>4, <2>5, <2>6 DEF KeptInv
<1>17. CASE DeliverResponse
  <2>1. /\ UNCHANGED <<phase, undelivered, read, req, pending>> /\ rsp.pc = "write"
        /\ rsp'.pc = "read"
        /\ recorded' = IF rsp.found THEN Recorded(rsp.frame.to, "answered") ELSE recorded
    BY <1>17, <1>d DEF DeliverResponse
  <2>2. rsp.frame.to \in 1..Len(script)
    <3>1. rsp.frame.to \in 0..Len(script) BY DEF TypeInv, Frames
    <3>2. rsp.frame.to # 0 BY <2>1 DEF LegInv
    <3> QED BY <1>0, <3>1, <3>2
  <2>3. \A n \in 1..read : Held(n) \/ recorded[n] # <<>> => recorded'[n] # <<>>
    BY <1>0, <1>q, <2>1, <2>2 DEF Held
  <2>4. \A n \in 1..read' : Safe(n)' BY <1>s, <2>1, <2>3 DEF Working
  <2> QED BY <1>0, <2>1, <2>4 DEF KeptInv
<1>18. CASE DeliverFails
  <2>1. /\ UNCHANGED <<phase, recorded, read, req, pending>> /\ rsp.pc = "write"
        /\ undelivered' = undelivered \cup {rsp.frame.to}
    BY <1>18 DEF DeliverFails
  <2>2. \A n \in 1..read' : Safe(n)' BY <1>s, <2>1 DEF Working, Held
  <2> QED BY <1>0, <2>1, <2>2 DEF KeptInv
<1>19. CASE ResponseFails
  BY <1>19, <1>a, <1>d DEF ResponseFails, Working, Held
<1>20. CASE Server
  BY <1>20, <1>a, <1>d DEF Server, Working, Held
<1>21. CASE Cancel
  BY <1>21, <1>a, <1>d DEF Cancel, Working, Held
<1>22. CASE UNCHANGED vars BY <1>22, <1>a, <1>d DEF vars, Working, Held
<1> QED
  BY <1>1, <1>2, <1>3, <1>4, <1>5, <1>6, <1>7, <1>8, <1>9, <1>10, <1>11, <1>12, <1>13, <1>14, <1>15, <1>16, <1>17, <1>18, <1>19, <1>20, <1>21, <1>22
     DEF Next, Main, Requests, Responses

(* What one more outcome does to those of a request. *)
LEMMA OutcomeSteps ==
    /\ Unanswered(<<>>)
    /\ \A s \in Seq(Outcomes), o \in Outcomes :
          Unanswered(s) /\ o # "answered" => Unanswered(Append(s, o))
    /\ \A o \in Outcomes : Len(Append(<<>>, o)) = 1
<1>1. Len(<<>>) = 0 OBVIOUS
<1>2. Unanswered(<<>>) BY <1>1 DEF Unanswered
<1>3. ASSUME NEW s \in Seq(Outcomes), NEW o \in Outcomes, Unanswered(s), o # "answered"
      PROVE  Unanswered(Append(s, o))
  BY <1>3, SeqSteps DEF Unanswered
<1>4. \A o \in Outcomes : Len(Append(<<>>, o)) = 1 OBVIOUS
<1> QED BY <1>2, <1>3, <1>4

(* Nothing is recorded at first. *)
LEMMA OnceInit == Init => OnceInv
<1> SUFFICES ASSUME Init PROVE OnceInv
  OBVIOUS
<1>1. pending = {} /\ ~Working BY DEF Init, Working
<1>2. \A n \in 1..Len(script) : recorded[n] = <<>> BY DEF Init
<1>3. \A n \in 1..Len(script) : ~Held(n) BY DEF Init, Held, NoReader
<1>4. \A n \in 1..Len(script) : Once(n) BY <1>1, <1>2, <1>3, OutcomeSteps DEF Once
<1> QED BY <1>1, <1>4 DEF OnceInv

(* Every step keeps what is pending or held apart from what was recorded. *)
LEMMA OnceStep ==
    ASSUME TypeInv, ProofInv, LegInv, SentInv, OnceInv, [Next]_vars
    PROVE  OnceInv'
<1>0. /\ script' = script /\ Len(script) \in Nat /\ read \in Nat
      /\ read \in 0..Len(script)
      /\ Working => read # 0 /\ read \in 1..read /\ read \in 1..Len(script)
      /\ \A n \in 1..Len(script) : recorded[n] \in Seq(Outcomes)
  <2>1. /\ script' = script /\ Len(script) \in Nat /\ read \in 0..Len(script)
        /\ recorded \in [1..Len(script) -> Seq(Outcomes)]
    BY ScriptFacts, ConfigStep DEF TypeInv, config
  <2>2. Working => read # 0 BY DEF ProofInv
  <2> QED BY <2>1, <2>2
<1>d. \A pc : [rsp EXCEPT !.pc = pc].pc = pc BY DEF TypeInv
<1>h. rsp.pc = "write" => rsp.frame.to <= read /\ (Working => rsp.frame.to < read)
  BY DEF SentInv, Written
<1>i. pending \subseteq 1..read BY DEF OnceInv
<1>j. Working /\ req # "write" => read \notin pending /\ recorded[read] = <<>>
  BY DEF OnceInv
<1>o. \A n \in 1..Len(script) : Once(n) BY DEF OnceInv
<1>r. \A m \in 1..Len(script), o \in {"answered", "sent", "failed"} :
         /\ Recorded(m, o)[m] = Append(recorded[m], o)
         /\ \A n \in 1..Len(script) : n # m => Recorded(m, o)[n] = recorded[n]
  BY RecordedFacts DEF Outcomes
<1>a. ASSUME UNCHANGED <<read, recorded, pending>>,
             \A n : Held(n)' => Held(n),
             Working' => Working,
             Working' /\ req' # "write" => Working /\ req # "write"
      PROVE  OnceInv'
  <2>1. ASSUME NEW n \in 1..Len(script) PROVE Once(n)'
    BY <1>0, <1>a, <1>o DEF Once
  <2>2. (Working /\ req # "write" => read \notin pending /\ recorded[read] = <<>>)'
    BY <1>a, <1>j
  <2> QED BY <1>0, <1>a, <1>i, <2>1, <2>2 DEF OnceInv
<1>g. ASSUME NEW o \in {"answered", "sent", "failed"},
             Working, ~Working', UNCHANGED <<read, rsp>>,
             recorded' = Recorded(read, o),
             pending' \subseteq pending, read \notin pending',
             o # "answered" \/ recorded[read] = <<>>
      PROVE  OnceInv'
  <2>1. ASSUME NEW n \in 1..Len(script) PROVE Once(n)'
    <3>1. CASE n = read
      <4>1. recorded'[n] = Append(recorded[n], o) BY <1>g, <1>r, <3>1
      <4>2. ~Held(n)' BY <1>0, <1>g, <1>h, <3>1 DEF Held
      <4>3. Unanswered(recorded[n]) BY <1>g, <1>o, <3>1 DEF Once
      <4>4. Unanswered(recorded'[n]) \/ Len(recorded'[n]) = 1
        BY <1>0, <1>g, <3>1, <4>1, <4>3, OutcomeSteps DEF Outcomes
      <4> QED BY <1>0, <1>g, <3>1, <4>2, <4>4 DEF Once
    <3>2. CASE n # read
      <4>1. recorded'[n] = recorded[n] BY <1>0, <1>g, <1>r, <3>2
      <4> QED BY <1>0, <1>g, <1>o, <3>2, <4>1 DEF Once, Held
    <3> QED BY <3>1, <3>2
  <2> QED BY <1>0, <1>g, <1>i, <2>1 DEF OnceInv
<1> USE DEF config, auth, net, seen
<1>1. CASE Dial
  <2>1. req = "none" BY <1>1 DEF Dial, LegInv
  <2> QED BY <1>1, <1>a, <2>1 DEF Dial, Working, Held
<1>2. CASE DialFails
  BY <1>2, <1>a, <1>d DEF DialFails, Working, Held
<1>3. CASE End
  BY <1>3, <1>a, <1>d DEF End, Working, Held
<1>4. CASE Drain
  <2>1. /\ UNCHANGED <<read, rsp, req>> /\ pending' = {} /\ recorded' = Drained
    BY <1>4 DEF Drain
  <2>2. \A n \in 1..Len(script) :
           recorded'[n] = IF n \in pending THEN Append(recorded[n], "failed")
                          ELSE recorded[n]
    BY <2>1 DEF Drained
  <2>3. ASSUME NEW n \in 1..Len(script) PROVE Once(n)'
    <3>1. CASE n \in pending
      <4>1. recorded'[n] = Append(recorded[n], "failed") BY <2>2, <3>1
      <4>2. n \in 1..read BY <1>i, <3>1
      <4>3. Unanswered(recorded[n]) => Unanswered(recorded'[n])
        BY <1>0, <4>1, OutcomeSteps DEF Outcomes
      <4>4. script[n] # "exhaust" => Unanswered(recorded[n]) /\ ~Held(n)
        BY <1>o, <3>1, OutcomeSteps DEF Once
      <4> QED BY <1>0, <1>o, <2>1, <4>2, <4>3, <4>4 DEF Once, Held, Working
    <3>2. CASE n \notin pending
      <4>1. recorded'[n] = recorded[n] BY <2>2, <3>2
      <4> QED BY <1>0, <1>o, <2>1, <4>1 DEF Once, Held, Working
    <3> QED BY <3>1, <3>2
  <2>4. (Working /\ req # "write" => read \notin pending /\ recorded[read] = <<>>)'
    BY <1>0, <1>j, <2>1, <2>2 DEF Working
  <2> QED BY <1>0, <2>1, <2>3, <2>4 DEF OnceInv
<1>5. CASE Read
  <2>1. /\ UNCHANGED <<recorded, rsp, pending>> /\ ~Working /\ read < Len(script)
        /\ Working' /\ read' = read + 1
    BY <1>5 DEF Read, Working
  <2>2. /\ read' \in 1..Len(script) /\ read' > read /\ read' \notin 1..read
        /\ \A n \in 1..Len(script) : n > read' => n > read
        /\ 1..read \subseteq 1..read'
    BY <1>0, <2>1
  <2>3. recorded[read'] = <<>> /\ read' \notin pending BY <1>i, <1>o, <2>2 DEF Once
  <2>4. ASSUME NEW n \in 1..Len(script) PROVE Once(n)'
    <3>1. n = read' => Unanswered(recorded[n]) BY <2>3, OutcomeSteps
    <3> QED BY <1>0, <1>o, <2>1, <2>2, <3>1 DEF Once, Held
  <2>5. pending' \subseteq 1..read' BY <1>i, <2>1, <2>2
  <2> QED BY <1>0, <2>1, <2>3, <2>4, <2>5 DEF OnceInv
<1>6. CASE ReadFails
  BY <1>6, <1>a, <1>d DEF ReadFails, Working, Held
<1>7. CASE Answer
  <2>1. /\ UNCHANGED <<rsp, pending, read>> /\ Working /\ ~Working' /\ req # "write"
        /\ recorded' = Recorded(read, "answered")
    BY <1>7 DEF Answer, Working
  <2> QED BY <1>g, <1>j, <2>1
<1>8. CASE AnswerFails
  BY <1>8, <1>a, <1>d DEF AnswerFails, Working, Held
<1>9. CASE Authenticate
  BY <1>9, <1>a, <1>d DEF Authenticate, ReaderDuringAuth, Working, Held
<1>10. CASE AuthenticateDone
  <2>1. rsp.pc = "none" BY <1>10 DEF AuthenticateDone, LegInv
  <2> QED BY <1>10, <1>a, <1>d, <2>1 DEF AuthenticateDone, Working, Held
<1>11. CASE AuthenticateFails
  <2>1. /\ UNCHANGED <<rsp, pending, read>> /\ Working /\ ~Working' /\ req # "write"
        /\ recorded' = Recorded(read, "failed")
    BY <1>11 DEF AuthenticateFails, Working
  <2> QED BY <1>g, <1>j, <2>1
<1>12. CASE Prepare
  BY <1>12, <1>a, <1>d DEF Prepare, Working, Held
<1>13. CASE Put
  <2>1. /\ UNCHANGED <<rsp, recorded, read>> /\ Working /\ Working'
        /\ req = "put" /\ req' = "write"
        /\ pending' = IF script[read] = "more" THEN pending ELSE pending \cup {read}
    BY <1>13 DEF Put, Working, Key
  <2>2. recorded[read] = <<>> /\ ~Held(read) /\ read \in 1..read BY <1>0, <1>h, <1>j, <2>1 DEF Held
  <2>3. ASSUME NEW n \in 1..Len(script) PROVE Once(n)'
    <3>1. n = read \/ (n \in pending' <=> n \in pending) BY <2>1
    <3>2. script[n] = "more" => n \notin pending' BY <1>o, <2>1 DEF Once
    <3> QED BY <1>0, <1>o, <2>1, <2>2, <3>1, <3>2 DEF Once, Held
  <2>4. pending' \subseteq 1..read BY <1>i, <2>1, <2>2
  <2> QED BY <1>0, <2>1, <2>3, <2>4 DEF OnceInv
<1>14. CASE Write
  <2>1. /\ UNCHANGED <<rsp, pending, read>> /\ Working /\ ~Working'
        /\ recorded' = IF script[read] = "more" THEN Recorded(read, "sent") ELSE recorded
    BY <1>14 DEF Write, Working
  <2>2. CASE script[read] = "more"
    <3>1. read \notin pending BY <1>0, <1>o, <2>1, <2>2 DEF Once
    <3> QED BY <1>g, <2>1, <2>2, <3>1
  <2>3. CASE script[read] # "more"
    BY <1>a, <2>1, <2>3 DEF Held
  <2> QED BY <2>2, <2>3
<1>15. CASE WriteFails
  <2>1. /\ UNCHANGED <<rsp, read>> /\ Working /\ ~Working'
        /\ pending' = pending \ {read} /\ recorded' = Recorded(read, "failed")
    BY <1>15 DEF WriteFails, Working, Key
  <2> QED BY <1>g, <2>1
<1>16. CASE TakeResponse
  <2> DEFINE f == Head(fromServer)
  <2>0. (f.to \in pending) \in BOOLEAN OBVIOUS
  <2>1. /\ UNCHANGED <<recorded, read, req>> /\ fromServer # <<>>
        /\ rsp' = [pc |-> "write", frame |-> f, found |-> f.to \in pending]
        /\ pending' = IF f.more THEN pending ELSE pending \ {f.to}
    BY <1>16 DEF TakeResponse, PendingAfter
  <2>2. f.more => script[f.to] = "exhaust"
    <3>1. f = fromServer[1] /\ 1 \in 1..Len(fromServer) BY <2>1, SeqTail DEF TypeInv
    <3> QED BY <3>1 DEF SentInv, Announced
  <2>3. rsp'.pc = "write" /\ rsp'.frame.to = f.to /\ rsp'.found = (f.to \in pending)
    BY <2>0, <2>1, Zenon
  <2> HIDE DEF f
  <2>4. ASSUME NEW n \in 1..Len(script) PROVE Once(n)'
    <3>1. Held(n)' => n = f.to /\ n \in pending BY <2>3 DEF Held
    <3>2. /\ n \in pending' => n \in pending
          /\ script[n] # "exhaust" /\ n = f.to => n \notin pending'
      BY <2>1, <2>2
    <3> QED BY <1>0, <1>o, <2>1, <3>1, <3>2 DEF Once, Working
  <2>5. pending' \subseteq pending BY <2>1
  <2> QED BY <1>0, <1>i, <1>j, <2>1, <2>4, <2>5 DEF OnceInv, Working
<1>17. CASE DeliverResponse
  <2>1. /\ UNCHANGED <<read, req, pending>> /\ rsp.pc = "write" /\ rsp'.pc = "read"
        /\ recorded' = IF rsp.found THEN Recorded(rsp.frame.to, "answered") ELSE recorded
    BY <1>17, <1>d DEF DeliverResponse
  <2>2. CASE ~rsp.found
    BY <1>a, <2>1, <2>2 DEF Held, Working
  <2>3. CASE rsp.found
    <3> DEFINE m == rsp.frame.to
    <3>1. m \in 1..Len(script) /\ m <= read /\ (Working => m < read)
      <4>1. m \in 0..Len(script) BY DEF TypeInv, Frames
      <4>2. m # 0 BY <2>1 DEF LegInv
      <4> QED BY <1>0, <1>h, <2>1, <4>1, <4>2
    <3>2. Held(m) /\ \A n : ~Held(n)' BY <2>1, <2>3 DEF Held
    <3> HIDE DEF m
    <3>3. /\ recorded'[m] = Append(recorded[m], "answered")
          /\ \A n \in 1..Len(script) : n # m => recorded'[n] = recorded[n]
      BY <1>r, <2>1, <2>3, <3>1 DEF m
    <3>4. ASSUME NEW n \in 1..Len(script) PROVE Once(n)'
      <4>1. CASE n # m
        BY <1>0, <1>o, <2>1, <3>2, <3>3, <4>1 DEF Once, Working
      <4>2. CASE n = m
        <5>1. script[n] # "exhaust" => recorded[n] = <<>> /\ n \notin pending
          BY <1>o, <3>2, <4>2 DEF Once
        <5>2. script[n] # "exhaust" => Len(recorded'[n]) = 1
          BY <3>3, <4>2, <5>1, OutcomeSteps DEF Outcomes
        <5>3. ~(n > read) /\ ~(Working /\ n = read) BY <1>0, <3>1, <4>2
        <5> QED BY <1>0, <1>o, <2>1, <3>2, <4>2, <5>1, <5>2, <5>3 DEF Once, Working
      <4> QED BY <4>1, <4>2
    <3>5. (Working /\ req # "write" => read \notin pending /\ recorded[read] = <<>>)'
      <4>1. Working => read # m BY <1>0, <3>1
      <4> QED BY <1>0, <1>j, <2>1, <3>3, <4>1 DEF Working
    <3> QED BY <1>0, <1>i, <2>1, <3>4, <3>5 DEF OnceInv
  <2> QED BY <2>2, <2>3
<1>18. CASE DeliverFails
  BY <1>18, <1>a, <1>d DEF DeliverFails, Working, Held
<1>19. CASE ResponseFails
  BY <1>19, <1>a, <1>d DEF ResponseFails, Working, Held
<1>20. CASE Server
  BY <1>20, <1>a, <1>d DEF Server, Working, Held
<1>21. CASE Cancel
  BY <1>21, <1>a, <1>d DEF Cancel, Working, Held
<1>22. CASE UNCHANGED vars BY <1>22, <1>a, <1>d DEF vars, Working, Held
<1> QED
  BY <1>1, <1>2, <1>3, <1>4, <1>5, <1>6, <1>7, <1>8, <1>9, <1>10, <1>11, <1>12, <1>13, <1>14, <1>15, <1>16, <1>17, <1>18, <1>19, <1>20, <1>21, <1>22
     DEF Next, Main, Requests, Responses

(***************************************************************************)
(* Whichever goroutine fails first, and for every script: when the session *)
(* is over no request that was read is missing from the record or still    *)
(* pending, but for those whose answer could not be written, and one that  *)
(* was recorded with its one response is not recorded again as failed.     *)
(***************************************************************************)
THEOREM RequestsRecordedOnce == Spec => []RecordedOnce
<1> DEFINE IInv == /\ TypeInv /\ ProofInv /\ LegInv
                   /\ SentInv /\ KeptInv /\ OnceInv
<1>1. Init => IInv BY TypeInit, ProofInit, LegInit, SentInit, KeptInit, OnceInit
<1>2. IInv /\ [Next]_vars => IInv'
  <2> SUFFICES ASSUME IInv, [Next]_vars PROVE IInv'
    OBVIOUS
  <2>1. Working => read # 0 BY DEF ProofInv
  <2> QED BY <2>1, TypeStep, ProofStep, LegStep, SentStep, KeptStep, OnceStep
<1>3. IInv => RecordedOnce
  <2> SUFFICES ASSUME IInv PROVE RecordedOnce
    OBVIOUS
  <2>1. Over => /\ pending = {}
                /\ \A n \in 1..read : recorded[n] # <<>> \/ n \in undelivered
    <3> SUFFICES ASSUME Over
                 PROVE  /\ pending = {}
                        /\ \A n \in 1..read : recorded[n] # <<>> \/ n \in undelivered
      OBVIOUS
    <3>1. phase = "closed" /\ req = "end" /\ rsp.pc # "write" /\ ~Working
      BY DEF Over, Working
    <3>2. pending = {} BY <3>1 DEF KeptInv
    <3> QED BY <3>1, <3>2 DEF KeptInv, Held
  <2>2. ASSUME NEW n \in 1..Len(script), script[n] # "exhaust",
               \E k \in 1..Len(recorded[n]) : recorded[n][k] = "answered"
        PROVE  Len(recorded[n]) = 1
    BY <2>2 DEF OnceInv, Once, Unanswered
  <2> QED BY <2>1, <2>2 DEF RecordedOnce
<1> QED BY <1>1, <1>2, <1>3, PTL DEF Spec

=============================================================================
