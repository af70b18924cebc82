----------------------- MODULE ObservationStoreProofs -----------------------
(***************************************************************************)
(* Proofs about ObservationStore, for every retention, every number of     *)
(* recorded interactions and every sequence of faults, crashes and         *)
(* restarts.                                                               *)
(*                                                                         *)
(* The journal is only ever appended to, emptied or replaced, so the       *)
(* argument is about what these do to the interactions it decodes to       *)
(* (DecodeAppend, DecodeEncode), and about the newest of them              *)
(* (NewestAppend: keeping the newest of all of them, or only of the newest *)
(* ones and the next, is the same).                                        *)
(***************************************************************************)
EXTENDS ObservationStore, FiniteSetTheorems, WellFoundedInduction, TLAPS

(* Every variable of the store has its type; nothing is left in memory     *)
(* when the program is down.                                               *)
TypeInv ==
    /\ up \in BOOLEAN /\ lastError \in BOOLEAN /\ open \in BOOLEAN
    /\ saved \in BOOLEAN /\ compacted \in BOOLEAN
    /\ items \in Seq(1..MaxRecords) /\ Len(items) <= Max
    /\ writes \in Nat /\ count \in 0..MaxRecords /\ faults \in Nat
    /\ journal \in Seq(Line) /\ (open => journal # <<>>)
    /\ ~up => writes = 0 /\ ~lastError

(* Until a file operation fails, nothing is lost or left unfinished. *)
FaultlessInv == faults = 0 => saved /\ ~open

(***************************************************************************)
(* How far the journal is ahead of the ring: not at all while the ring     *)
(* fills up, and by the writes since the last compaction when it is full,  *)
(* of which there are fewer than Quota.                                    *)
(***************************************************************************)
BoundInv ==
    /\ Len(items) = Max => writes <= Quota - 1
    /\ compacted /\ up =>
          /\ Len(items) < Max => Len(Decode(journal)) <= Len(items)
          /\ Len(items) = Max => Len(Decode(journal)) <= Max + writes
    /\ JournalBounded

-----------------------------------------------------------------------------
(***************************************************************************)
(* Lemmas about the newest elements of a sequence                          *)
(***************************************************************************)

(* The quota is at least one. *)
LEMMA QuotaFacts == Quota \in Nat /\ Quota >= 1
  BY StoreAssumption DEF Quota

(* What Newest keeps: as many elements as it may, from the end. *)
LEMMA NewestFacts ==
    ASSUME NEW S, NEW s \in Seq(S), NEW n \in Nat \ {0}
    PROVE  /\ Newest(s, n) \in Seq(S)
           /\ Len(s) > n => Len(Newest(s, n)) = n
           /\ Len(s) <= n => Newest(s, n) = s
           /\ \A i \in 1..Len(Newest(s, n)) :
                 Newest(s, n)[i] = s[Len(s) - Len(Newest(s, n)) + i]
<1>1. Len(s) \in Nat OBVIOUS
<1>2. CASE Len(s) <= n
  <2>1. Newest(s, n) = s BY <1>1, <1>2 DEF Newest
  <2>2. \A i \in 1..Len(s) : Len(s) - Len(s) + i = i BY <1>1
  <2> QED BY <1>1, <1>2, <2>1, <2>2
<1>3. CASE Len(s) > n
  <2> DEFINE a == Len(s) - n + 1
             t == SubSeq(s, a, Len(s))
  <2>1. Newest(s, n) = t BY <1>3 DEF Newest
  <2>2. a \in 1..Len(s) /\ Len(s) - a + 1 = n BY <1>1, <1>3
  <2>3. t \in Seq(S) /\ Len(t) = n /\ \A i \in 1..n : t[i] = s[a + i - 1]
    <3>1. \A i \in a..Len(s) : s[i] \in S BY <1>1, <2>2
    <3>2. a \in Int /\ Len(s) \in Int BY <1>1
    <3>3. t \in Seq(S) BY <3>1, <3>2
    <3>4. Len(t) = n BY <1>1, <2>2, <3>2
    <3>5. \A i \in 1..n : t[i] = s[a + i - 1] BY <1>1, <2>2, <3>2
    <3> QED BY <3>3, <3>4, <3>5
  <2>4. \A i \in 1..n : a + i - 1 = Len(s) - n + i BY <1>1
  <2>5. Newest(s, n) \in Seq(S) /\ Len(Newest(s, n)) = n /\ ~(Len(s) <= n)
    BY <1>1, <1>3, <2>1, <2>3
  <2>6. \A i \in 1..n : t[i] = s[Len(s) - n + i]
    BY <2>3, <2>4
  <2> HIDE DEF t
  <2> QED BY <2>1, <2>5, <2>6
<1> QED BY <1>1, <1>2, <1>3

(* Only the newest elements matter when another one is added. *)
LEMMA NewestAppend ==
    ASSUME NEW S, NEW s \in Seq(S), NEW e \in S, NEW n \in Nat \ {0}
    PROVE  Newest(Append(s, e), n) = Newest(Append(Newest(s, n), e), n)
<1> DEFINE t == Newest(s, n)
           x == Newest(Append(s, e), n)
           y == Newest(Append(t, e), n)
<1>1. /\ Len(s) \in Nat /\ t \in Seq(S) /\ Len(t) \in Nat
      /\ Len(s) > n => Len(t) = n
      /\ Len(s) <= n => t = s
      /\ \A i \in 1..Len(t) : t[i] = s[Len(s) - Len(t) + i]
  <2>1. t \in Seq(S) BY NewestFacts, Zenon
  <2>2. Len(s) \in Nat /\ Len(t) \in Nat BY <2>1
  <2> QED BY <2>1, <2>2, NewestFacts, Zenon
<1> HIDE DEF t
<1>2. CASE Len(s) <= n
  BY <1>1, <1>2 DEF t
<1>3. CASE Len(s) > n
  <2>1. /\ Append(s, e) \in Seq(S) /\ Len(Append(s, e)) = Len(s) + 1
        /\ \A i \in 1..Len(s) : Append(s, e)[i] = s[i]
        /\ Append(s, e)[Len(s) + 1] = e
    OBVIOUS
  <2>2. /\ Append(t, e) \in Seq(S) /\ Len(Append(t, e)) = n + 1
        /\ \A i \in 1..n : Append(t, e)[i] = t[i]
        /\ Append(t, e)[n + 1] = e
    BY <1>1, <1>3
  <2>3. /\ x \in Seq(S) /\ Len(x) = n
        /\ \A i \in 1..n : x[i] = Append(s, e)[Len(s) + 1 - n + i]
    <3>1. Len(s) + 1 > n /\ \A i \in 1..n : (Len(s) + 1) - n + i = Len(s) + 1 - n + i
      BY <1>1, <1>3
    <3>2. /\ x \in Seq(S)
          /\ Len(Append(s, e)) > n => Len(x) = n
          /\ \A i \in 1..Len(x) : x[i] = Append(s, e)[Len(Append(s, e)) - Len(x) + i]
      BY <2>1, NewestFacts, Zenon
    <3>3. Len(x) = n BY <2>1, <3>1, <3>2
    <3> QED BY <2>1, <3>1, <3>2, <3>3
  <2>4. /\ y \in Seq(S) /\ Len(y) = n
        /\ \A i \in 1..n : y[i] = Append(t, e)[1 + i]
    <3>1. \A i \in 1..n : (n + 1) - n + i = 1 + i OBVIOUS
    <3>2. /\ y \in Seq(S)
          /\ Len(Append(t, e)) > n => Len(y) = n
          /\ \A i \in 1..Len(y) : y[i] = Append(t, e)[Len(Append(t, e)) - Len(y) + i]
      BY <2>2, NewestFacts, Zenon
    <3>3. Len(y) = n BY <2>2, <3>2
    <3> QED BY <2>2, <3>1, <3>2, <3>3
  <2>5. ASSUME NEW i \in 1..n PROVE x[i] = y[i]
    <3>1. CASE i = n
      <4>1. Len(s) + 1 - n + i = Len(s) + 1 /\ 1 + i = n + 1 BY <1>1, <3>1
      <4> QED BY <2>1, <2>2, <2>3, <2>4, <4>1
    <3>2. CASE i # n
      <4>1. /\ Len(s) + 1 - n + i \in 1..Len(s) /\ 1 + i \in 1..n
            /\ Len(s) - n + (1 + i) = Len(s) + 1 - n + i
        BY <1>1, <1>3, <3>2
      <4>2. x[i] = s[Len(s) + 1 - n + i] BY <2>1, <2>3, <4>1
      <4>3. y[i] = t[1 + i] BY <2>2, <2>4, <4>1
      <4>4. t[1 + i] = s[Len(s) - n + (1 + i)] BY <1>1, <1>3, <4>1
      <4> QED BY <4>1, <4>2, <4>3, <4>4
    <3> QED BY <3>1, <3>2
  <2> HIDE DEF x, y
  <2>6. x = y BY <2>3, <2>4, <2>5
  <2> QED BY <2>6 DEF x, y, t
<1> QED BY <1>1, <1>2, <1>3

(* The last element is kept, and so is being empty. *)
LEMMA NewestLast ==
    ASSUME NEW S, NEW s \in Seq(S), NEW n \in Nat \ {0}, s # <<>>
    PROVE  /\ Newest(s, n) # <<>>
           /\ Newest(s, n)[Len(Newest(s, n))] = s[Len(s)]
<1> DEFINE t == Newest(s, n)
<1>1. Len(s) \in Nat /\ Len(s) >= 1 OBVIOUS
<1>2. /\ t \in Seq(S) /\ Len(t) \in Nat
      /\ Len(s) > n => Len(t) = n
      /\ Len(s) <= n => t = s
      /\ \A i \in 1..Len(t) : t[i] = s[Len(s) - Len(t) + i]
  <2>1. t \in Seq(S) BY NewestFacts, Zenon
  <2>2. Len(t) \in Nat BY <2>1
  <2> QED BY <2>1, <2>2, NewestFacts, Zenon
<1> HIDE DEF t
<1>3. Len(t) >= 1 BY <1>1, <1>2
<1>4. Len(t) \in 1..Len(t) /\ Len(s) - Len(t) + Len(t) = Len(s) BY <1>1, <1>2, <1>3
<1>5. t # <<>> BY <1>3
<1> QED BY <1>2, <1>4, <1>5 DEF t

-----------------------------------------------------------------------------
(***************************************************************************)
(* Lemmas about the lines of the journal                                   *)
(***************************************************************************)

(* A set of numbers that is not empty has a least one. *)
LEMMA LeastNat ==
    ASSUME NEW T, T \subseteq Nat, T # {}
    PROVE  \E x \in T : \A y \in T : x <= y
<1> DEFINE R == OpToRel(<, Nat)
<1>1. IsWellFoundedOn(R, Nat) BY NatLessThanWellFounded
<1>2. \A y, x \in Nat : y < x => <<y, x>> \in R BY DEF OpToRel
<1> HIDE DEF R
<1>3. \E x \in T : \A y \in T : ~(<<y, x>> \in R) BY <1>1, WFMin
<1>4. PICK x \in T : \A y \in T : ~(<<y, x>> \in R) BY <1>3
<1>5. ASSUME NEW y \in T PROVE x <= y
  <2>1. x \in Nat /\ y \in Nat OBVIOUS
  <2>2. ~(y < x) BY <1>2, <1>4, <2>1
  <2> QED BY <2>1, <2>2
<1> QED BY <1>5

(* Counting the members of a set of places, one place after the other. *)
LEMMA RankFacts ==
    ASSUME NEW n \in Nat, NEW G, G \subseteq 1..n
    PROVE  /\ IsFiniteSet(G) /\ Cardinality(G) \in Nat
           /\ \A m \in 0..n : Rank(G, m) \in Nat
           /\ Rank(G, 0) = 0 /\ Rank(G, n) = Cardinality(G)
           /\ \A m \in 1..n :
                 Rank(G, m) = IF m \in G THEN Rank(G, m - 1) + 1 ELSE Rank(G, m - 1)
           /\ \A m \in 0..n : Rank(G, m) <= Cardinality(G)
<1>0. \A j \in G : j \in Nat /\ j >= 1 /\ j <= n OBVIOUS
<1>1. IsFiniteSet(1..n) BY FS_Interval
<1>2. \A H : H \subseteq G => IsFiniteSet(H) /\ Cardinality(H) \in Nat
                              /\ Cardinality(H) <= Cardinality(G)
  <2>1. IsFiniteSet(G) BY <1>1, FS_Subset
  <2> QED BY <2>1, FS_Subset, FS_CardinalityType
<1>3. /\ IsFiniteSet(G) /\ Cardinality(G) \in Nat
      /\ \A m \in 0..n : Rank(G, m) \in Nat /\ Rank(G, m) <= Cardinality(G)
  <2>1. \A m \in 0..n : {j \in G : j <= m} \subseteq G OBVIOUS
  <2> QED BY <1>2, <2>1, Zenon DEF Rank
<1>4. Rank(G, 0) = 0
  <2>0. \A j \in G : ~(j <= 0) BY <1>0
  <2>1. {j \in G : j <= 0} = {} BY <2>0, Zenon
  <2> QED BY <2>1, FS_EmptySet DEF Rank
<1>5. Rank(G, n) = Cardinality(G)
  <2>1. {j \in G : j <= n} = G BY <1>0
  <2> QED BY <2>1 DEF Rank
<1>6. ASSUME NEW m \in 1..n
      PROVE  Rank(G, m) = IF m \in G THEN Rank(G, m - 1) + 1 ELSE Rank(G, m - 1)
  <2> DEFINE A == {j \in G : j <= m - 1}
             B == {j \in G : j <= m}
  <2>0. /\ \A j \in G : j <= m <=> (j <= m - 1 \/ j = m)
        /\ ~(m <= m - 1)
    BY <1>0
  <2>1. CASE m \in G
    <3>1. B = A \cup {m} /\ m \notin A BY <2>0, <2>1, Zenon
    <3>2. IsFiniteSet(A) BY <1>2
    <3> HIDE DEF A, B
    <3>3. Cardinality(B) = Cardinality(A) + 1 BY <3>1, <3>2, FS_AddElement
    <3> QED BY <2>1, <3>3 DEF A, B, Rank
  <2>2. CASE m \notin G
    <3>1. B = A BY <2>0, <2>2, Zenon
    <3> QED BY <2>2, <3>1 DEF Rank
  <2> QED BY <2>1, <2>2
<1> QED BY <1>3, <1>4, <1>5, <1>6

(* Every rank is that of a member. *)
LEMMA RankOnto ==
    ASSUME NEW n \in Nat, NEW G, G \subseteq 1..n, NEW k \in 1..Cardinality(G)
    PROVE  \E i \in G : Rank(G, i) = k
<1> DEFINE T == {m \in 0..n : k <= Rank(G, m)}
<1>1. /\ Cardinality(G) \in Nat /\ \A m \in 0..n : Rank(G, m) \in Nat
      /\ Rank(G, 0) = 0 /\ Rank(G, n) = Cardinality(G)
      /\ \A m \in 1..n :
            Rank(G, m) = IF m \in G THEN Rank(G, m - 1) + 1 ELSE Rank(G, m - 1)
  BY RankFacts
<1>2. T \subseteq Nat /\ n \in T BY <1>1
<1>3. PICK m \in T : \A y \in T : m <= y BY <1>2, LeastNat
<1>4. m \in 1..n /\ m - 1 \in 0..n BY <1>1
<1>5. m - 1 \notin T BY <1>3, <1>4
<1>6. Rank(G, m - 1) < k /\ k <= Rank(G, m) /\ Rank(G, m - 1) \in Nat
  BY <1>1, <1>4, <1>5
<1> HIDE DEF T
<1>7. m \in G /\ Rank(G, m) = k BY <1>1, <1>4, <1>6
<1> QED BY <1>7

(* Every element of a sequence over S is in S. *)
LEMMA SeqElement ==
    ASSUME NEW S, NEW s \in Seq(S)
    PROVE  \A i \in 1..Len(s) : s[i] \in S
  OBVIOUS

(* A function over the first n numbers is a sequence. *)
LEMMA FunctionIsSeq ==
    ASSUME NEW S, NEW n \in Nat, NEW f \in [1..n -> S]
    PROVE  f \in Seq(S) /\ Len(f) = n
  OBVIOUS

(* The line that Decode takes its kth interaction from. *)
Place(good, k) == CHOOSE i \in good : Rank(good, i) = k

(* A journal decodes to one interaction for each line that is valid. *)
LEMMA DecodeFacts ==
    ASSUME NEW lines \in Seq(Line)
    PROVE  /\ Len(lines) \in Nat /\ Valid(lines) \subseteq 1..Len(lines)
           /\ Cardinality(Valid(lines)) \in Nat
           /\ Decode(lines) \in Seq(1..MaxRecords)
           /\ Len(Decode(lines)) = Cardinality(Valid(lines))
           /\ \A k \in 1..Cardinality(Valid(lines)) :
                 /\ Place(Valid(lines), k) \in Valid(lines)
                 /\ Rank(Valid(lines), Place(Valid(lines), k)) = k
                 /\ Decode(lines)[k] = lines[Place(Valid(lines), k)].item
<1> DEFINE G == Valid(lines)
           c == Cardinality(G)
<1>1. Len(lines) \in Nat OBVIOUS
<1>2. G \subseteq 1..Len(lines) BY DEF Valid
<1>3. c \in Nat BY <1>1, <1>2, RankFacts
<1>4. ASSUME NEW k \in 1..c
      PROVE  Place(G, k) \in G /\ Rank(G, Place(G, k)) = k
  <2>1. \E i \in G : Rank(G, i) = k BY <1>1, <1>2, RankOnto
  <2> QED BY <2>1, Zenon DEF Place
<1>5. \A i \in G : lines[i].item \in 1..MaxRecords
  <2>1. \A i \in 1..Len(lines) : lines[i] \in Line OBVIOUS
  <2>2. \A x \in Line : x.item \in 1..MaxRecords BY DEF Line
  <2> QED BY <1>2, <2>1, <2>2
<1>6. Decode(lines) = [k \in 1..c |-> lines[Place(G, k)].item]
  BY DEF Decode, Place
<1> HIDE DEF G, c
<1>7. \A k \in 1..c : lines[Place(G, k)].item \in 1..MaxRecords BY <1>4, <1>5
<1>8. Decode(lines) \in [1..c -> 1..MaxRecords] BY <1>6, <1>7
<1>9. Decode(lines) \in Seq(1..MaxRecords) /\ Len(Decode(lines)) = c
  BY <1>3, <1>8, FunctionIsSeq
<1>10. \A k \in 1..c : Decode(lines)[k] = lines[Place(G, k)].item BY <1>6
<1> QED BY <1>1, <1>2, <1>3, <1>4, <1>9, <1>10 DEF G, c

(* An empty journal has no interactions. *)
LEMMA DecodeEmpty == Decode(<<>>) = <<>>
<1>1. <<>> \in Seq(Line) OBVIOUS
<1>2. Valid(<<>>) = {} BY DEF Valid
<1>3. Cardinality(Valid(<<>>)) = 0 BY <1>2, FS_EmptySet, Zenon
<1>4. /\ Decode(<<>>) \in Seq(1..MaxRecords)
      /\ Len(Decode(<<>>)) = Cardinality(Valid(<<>>))
  BY <1>1, DecodeFacts, Zenon
<1> QED BY <1>3, <1>4

(* A valid line adds its interaction, another one adds nothing. *)
LEMMA DecodeAppend ==
    ASSUME NEW lines \in Seq(Line), NEW line \in Line
    PROVE  Decode(Append(lines, line)) =
              IF line.valid THEN Append(Decode(lines), line.item) ELSE Decode(lines)
<1> DEFINE n == Len(lines)
           L == Append(lines, line)
           G == Valid(lines)
           H == Valid(L)
           c == Cardinality(G)
<1>1. /\ n \in Nat /\ L \in Seq(Line) /\ Len(L) = n + 1
      /\ \A i \in 1..n : L[i] = lines[i]
      /\ L[n + 1] = line
      /\ \A i : i \in 1..(n + 1) <=> i \in 1..n \/ i = n + 1
      /\ n + 1 \notin 1..n
      /\ line.valid \in BOOLEAN
  BY DEF Line
<1> DEFINE D == Decode(lines)
           E == Decode(L)
<1>2. /\ G \subseteq 1..n /\ c \in Nat /\ D \in Seq(1..MaxRecords) /\ Len(D) = c
      /\ \A k \in 1..c : /\ Place(G, k) \in G /\ Rank(G, Place(G, k)) = k
                         /\ D[k] = lines[Place(G, k)].item
  BY DecodeFacts
<1> DEFINE h == Cardinality(H)
<1>3. /\ H \subseteq 1..(n + 1) /\ h \in Nat /\ E \in Seq(1..MaxRecords) /\ Len(E) = h
      /\ \A k \in 1..h : /\ Place(H, k) \in H /\ Rank(H, Place(H, k)) = k
                         /\ E[k] = L[Place(H, k)].item
  BY <1>1, DecodeFacts
<1>4. H = IF line.valid THEN G \cup {n + 1} ELSE G
  <2>1. \A i : i \in H <=> i \in 1..(n + 1) /\ L[i].valid BY <1>1 DEF Valid
  <2>2. \A i : i \in G <=> i \in 1..n /\ lines[i].valid BY DEF Valid
  <2> HIDE DEF L, G, H
  <2>3. \A i : i \in H <=> i \in G \/ (i = n + 1 /\ line.valid)
    BY <1>1, <2>1, <2>2, Zenon
  <2> HIDE DEF n
  <2> QED BY <2>3, Zenon
<1> HIDE DEF n, L, G, H, D, E
<1>5. CASE ~line.valid
  <2>1. H = G /\ h = c BY <1>4, <1>5, Zenon
  <2>2. \A k \in 1..c : E[k] = D[k]
    <3> TAKE k \in 1..c
    <3>1. Place(H, k) = Place(G, k) /\ Place(G, k) \in 1..n BY <1>2, <2>1
    <3> QED BY <1>1, <1>2, <1>3, <2>1, <3>1
  <2> HIDE DEF c, h
  <2>3. E = D BY <1>2, <1>3, <2>1, <2>2
  <2> QED BY <1>5, <2>3 DEF D, E, L
<1>6. CASE line.valid
  <2>1. H = G \cup {n + 1} /\ n + 1 \notin G BY <1>1, <1>2, <1>4, <1>6, Zenon
  <2>2. h = c + 1
    <3>1. IsFiniteSet(G) BY <1>1, <1>2, RankFacts
    <3> QED BY <2>1, <3>1, FS_AddElement
  <2>3. /\ \A i \in G : Rank(H, i) = Rank(G, i) /\ Rank(G, i) <= c
        /\ Rank(H, n + 1) = c + 1
    <3>1. \A i \in G : i \in 1..n /\ i \in 0..n BY <1>1, <1>2
    <3>2. \A i \in 1..n : ~(n + 1 <= i) BY <1>1
    <3>3. \A i \in G : {j \in H : j <= i} = {j \in G : j <= i}
      BY <2>1, <3>1, <3>2, Zenon
    <3>4. \A i \in G : Rank(G, i) <= c BY <1>1, <1>2, <3>1, RankFacts
    <3>5. Rank(H, n + 1) = h
      <4>1. n + 1 \in Nat BY <1>1
      <4> QED BY <1>3, <4>1, RankFacts
    <3> QED BY <2>2, <3>3, <3>4, <3>5 DEF Rank
  <2>4. ASSUME NEW k \in 1..c PROVE E[k] = D[k]
    <3>1. k \in 1..h /\ k # c + 1 BY <1>2, <2>2
    <3>2. Place(H, k) \in G BY <1>3, <2>1, <2>3, <3>1
    <3>3. Place(H, k) = Place(G, k)
      <4>1. \A i : (i \in H /\ Rank(H, i) = k) <=> (i \in G /\ Rank(G, i) = k)
        BY <2>1, <2>3, <3>1, Zenon
      <4> QED BY <4>1, Zenon DEF Place
    <3>4. Place(H, k) \in 1..n BY <1>2, <3>2
    <3> QED BY <1>1, <1>2, <1>3, <3>1, <3>3, <3>4
  <2>5. E[c + 1] = line.item
    <3>1. c + 1 \in 1..h BY <1>2, <2>2
    <3>2. Place(H, c + 1) \notin G
      <4>1. \A i \in G : Rank(H, i) # c + 1
        <5> TAKE i \in G
        <5>1. i \in 0..n BY <1>1, <1>2
        <5>2. Rank(G, i) \in Nat BY <1>1, <1>2, <5>1, RankFacts
        <5> QED BY <1>2, <2>3, <5>2
      <4> QED BY <1>3, <3>1, <4>1
    <3>3. Place(H, c + 1) = n + 1 BY <1>3, <2>1, <3>1, <3>2
    <3> QED BY <1>1, <1>3, <3>1, <3>3
  <2> HIDE DEF c, h
  <2>6. line.item \in 1..MaxRecords BY DEF Line
  <2>7. /\ Append(D, line.item) \in Seq(1..MaxRecords)
        /\ Len(Append(D, line.item)) = c + 1
        /\ \A k \in 1..c : Append(D, line.item)[k] = D[k]
        /\ Append(D, line.item)[c + 1] = line.item
    BY <1>2, <2>6
  <2>8. \A k \in 1..(c + 1) : k \in 1..c \/ k = c + 1 BY <1>2
  <2>9. \A k \in 1..(c + 1) : E[k] = Append(D, line.item)[k]
    BY <2>4, <2>5, <2>7, <2>8
  <2>10. E = Append(D, line.item) BY <1>2, <1>3, <2>2, <2>7, <2>9
  <2> QED BY <1>6, <2>10 DEF D, E, L
<1> QED BY <1>1, <1>5, <1>6

(* A journal that was rewritten decodes to what was written. *)
LEMMA DecodeEncode ==
    ASSUME NEW s \in Seq(1..MaxRecords)
    PROVE  Encode(s) \in Seq(Line) /\ Decode(Encode(s)) = s
<1> DEFINE n == Len(s)
           L == Encode(s)
           G == Valid(L)
<1>1. n \in Nat OBVIOUS
<1>2. \A m \in 1..MaxRecords : LineOf(m) \in Line /\ LineOf(m).valid /\ LineOf(m).item = m
  <2> TAKE m \in 1..MaxRecords
  <2>1. (m \in Long) \in BOOLEAN OBVIOUS
  <2>2. LineOf(m) = [item |-> m, valid |-> TRUE, long |-> m \in Long] BY DEF LineOf
  <2>3. LineOf(m) \in Line
    <3> DEFINE l == m \in Long
    <3>1. l \in BOOLEAN OBVIOUS
    <3>2. LineOf(m) = [item |-> m, valid |-> TRUE, long |-> l] BY <2>2
    <3> HIDE DEF l
    <3> QED BY <3>1, <3>2 DEF Line
  <2> QED BY <2>2, <2>3
<1>3. /\ L \in Seq(Line) /\ Len(L) = n
      /\ \A i \in 1..n : L[i] = LineOf(s[i]) /\ s[i] \in 1..MaxRecords
  <2>1. \A i \in 1..n : s[i] \in 1..MaxRecords BY SeqElement
  <2>2. L = [i \in 1..n |-> LineOf(s[i])] BY DEF Encode
  <2>3. L \in [1..n -> Line] BY <1>2, <2>1, <2>2
  <2> HIDE DEF L, n
  <2> QED BY <1>1, <2>1, <2>2, <2>3, FunctionIsSeq
<1>4. G = 1..n BY <1>2, <1>3 DEF Valid
<1>5. Cardinality(1..n) = n
  <2>1. /\ 1 \in Int /\ n \in Int /\ (IF 1 > n THEN 0 ELSE n - 1 + 1) = n
    BY <1>1
  <2> HIDE DEF n
  <2> QED BY <2>1, FS_Interval
<1> HIDE DEF L
<1>6. /\ Decode(L) \in Seq(1..MaxRecords) /\ Len(Decode(L)) = n
      /\ \A k \in 1..n : /\ Place(1..n, k) \in 1..n /\ Rank(1..n, Place(1..n, k)) = k
                         /\ Decode(L)[k] = L[Place(1..n, k)].item
  BY <1>3, <1>4, <1>5, DecodeFacts
<1>7. \A k \in 1..n : Rank(1..n, k) = k
  <2> TAKE k \in 1..n
  <2>1. {j \in 1..n : j <= k} = 1..k BY <1>1
  <2>2. Cardinality(1..k) = k BY FS_Interval
  <2> QED BY <2>1, <2>2 DEF Rank
<1>8. \A k \in 1..n : Place(1..n, k) = k BY <1>6, <1>7
<1>9. \A k \in 1..n : Decode(L)[k] = s[k] BY <1>2, <1>3, <1>6, <1>8
<1>10. Decode(L) = s BY <1>1, <1>6, <1>9
<1> QED BY <1>3, <1>10 DEF L

(***************************************************************************)
(* The file after an append: one more interaction when the line was        *)
(* written whole and on a line of its own, and never more than one.        *)
(***************************************************************************)
LEMMA AppendedFacts ==
    ASSUME journal \in Seq(Line), open \in BOOLEAN, open => journal # <<>>,
           NEW n \in 1..MaxRecords, NEW outcome \in AppendOutcomes
    PROVE  LET after == Appended(n, outcome)
           IN  /\ after \in Seq(Line)
               /\ Len(Decode(after)) <= Len(Decode(journal)) + 1
               /\ OpenAfter(outcome) => after # <<>>
               /\ ~open /\ outcome \in {"ok", "close", "unended"} =>
                     Decode(after) = Append(Decode(journal), n)
               /\ open /\ outcome = "ok" =>
                     after # <<>> /\ ~after[Len(after)].valid
<1> DEFINE after == Appended(n, outcome)
           J == Decode(journal)
<1>0. /\ Len(journal) \in Nat /\ J \in Seq(1..MaxRecords) /\ Len(J) \in Nat
  BY DecodeFacts
<1>1. /\ LineOf(n) \in Line /\ LineOf(n).item = n /\ LineOf(n).valid = TRUE
      /\ LineOf(n).long \in BOOLEAN
  <2> DEFINE l == n \in Long
  <2>1. l \in BOOLEAN OBVIOUS
  <2>2. LineOf(n) = [item |-> n, valid |-> TRUE, long |-> l] BY DEF LineOf
  <2> HIDE DEF l
  <2> QED BY <2>1, <2>2 DEF Line
<1>2. Broken(LineOf(n)) \in Line /\ Broken(LineOf(n)).valid = FALSE
      /\ Broken(LineOf(n)).long \in BOOLEAN
  BY <1>1 DEF Broken, Line
<1>3. CASE outcome = "failed"
  <2>1. after = journal BY <1>3, Zenon DEF Appended
  <2>2. ~(outcome \in {"ok", "close", "unended"}) /\ outcome # "ok" BY <1>3
  <2>3. OpenAfter(outcome) = open BY <1>3 DEF OpenAfter
  <2> QED BY <1>0, <2>1, <2>2, <2>3
<1>4. CASE open /\ outcome # "failed"
  <2> DEFINE line == IF outcome = "torn" THEN Broken(LineOf(n)) ELSE LineOf(n)
             front == SubSeq(journal, 1, Len(journal) - 1)
             last == journal[Len(journal)]
             new == [item |-> n, valid |-> FALSE, long |-> last.long \/ line.long]
  <2>1. after = Append(front, new) BY <1>4, Zenon DEF Appended
  <2>2. Len(journal) >= 1 BY <1>0, <1>4
  <2>3. /\ front \in Seq(Line) /\ last \in Line /\ journal = Append(front, last)
    BY <1>0, <2>2
  <2>4. last.long \in BOOLEAN /\ line.long \in BOOLEAN BY <1>1, <1>2, <2>3 DEF Line
  <2>5. new \in Line /\ new.valid = FALSE
    <3> DEFINE l == last.long \/ line.long
    <3>1. l \in BOOLEAN BY <2>4, Zenon
    <3>2. new = [item |-> n, valid |-> FALSE, long |-> l] OBVIOUS
    <3> HIDE DEF l, new
    <3> QED BY <3>1, <3>2 DEF Line
  <2> HIDE DEF front, last, new
  <2>6. Decode(after) = Decode(front) BY <2>1, <2>3, <2>5, DecodeAppend
  <2>7. Len(Decode(front)) <= Len(J) /\ Len(Decode(front)) \in Nat
    <3>1. Decode(front) \in Seq(1..MaxRecords) /\ Len(Decode(front)) \in Nat
      BY <2>3, DecodeFacts
    <3>2. J = IF last.valid THEN Append(Decode(front), last.item) ELSE Decode(front)
      BY <2>3, DecodeAppend
    <3>3. last.item \in 1..MaxRecords BY <2>3 DEF Line
    <3>4. Len(Append(Decode(front), last.item)) = Len(Decode(front)) + 1 BY <3>1, <3>3
    <3> QED BY <3>1, <3>2, <3>4
  <2>8. /\ after \in Seq(Line) /\ after # <<>> /\ after[Len(after)] = new
    BY <2>1, <2>3, <2>5
  <2> HIDE DEF after, J
  <2>9. Len(Decode(after)) <= Len(J) + 1 BY <1>0, <2>6, <2>7
  <2> QED BY <1>4, <2>5, <2>8, <2>9 DEF after, J
<1>5. CASE ~open /\ outcome # "failed"
  <2> DEFINE line == IF outcome = "torn" THEN Broken(LineOf(n)) ELSE LineOf(n)
  <2>1. after = Append(journal, line) BY <1>5, Zenon DEF Appended
  <2>2. line \in Line /\ line.valid \in BOOLEAN BY <1>1, <1>2
  <2>3. outcome # "torn" => line.valid /\ line.item = n BY <1>1
  <2> HIDE DEF line
  <2>4. Decode(after) = IF line.valid THEN Append(J, line.item) ELSE J
    BY <2>1, <2>2, DecodeAppend
  <2>5. line.item \in 1..MaxRecords BY <2>2 DEF Line
  <2>6. Len(Append(J, line.item)) = Len(J) + 1 BY <1>0, <2>5
  <2>7. after \in Seq(Line) /\ after # <<>> BY <2>1, <2>2
  <2> HIDE DEF after, J
  <2>8. Len(Decode(after)) <= Len(J) + 1 BY <1>0, <2>4, <2>6
  <2>9. outcome \in {"ok", "close", "unended"} => Decode(after) = Append(J, n)
    BY <2>3, <2>4
  <2> QED BY <1>5, <2>7, <2>8, <2>9 DEF after, J
<1> QED BY <1>3, <1>4, <1>5

-----------------------------------------------------------------------------
(***************************************************************************)
(* The steps                                                               *)
(***************************************************************************)

(* A browser that comes, reads or goes changes nothing but its channel. *)
LEMMA EventSteps ==
    ASSUME NEW s, Subscribe(s) \/ Deliver(s) \/ Unsubscribe(s)
    PROVE  UNCHANGED <<up, items, writes, lastError, journal, open, count, faults, saved,
                       compacted>>
  BY DEF Subscribe, Deliver, Unsubscribe, mem, file, ghosts

(***************************************************************************)
(* Record: the ring ends with the new interaction, and the journal was     *)
(* either replaced by the ring or appended to.                             *)
(***************************************************************************)
LEMMA RecordFacts ==
    ASSUME TypeInv, NEW outcome \in Appends, NEW renamed \in BOOLEAN,
           Record(outcome, renamed)
    PROVE  LET n == count + 1
               ring == Newest(Append(items, n), Max)
           IN  /\ n \in 1..MaxRecords /\ items' = ring
               /\ ring \in Seq(1..MaxRecords) /\ Len(ring) <= Max
               /\ ring # <<>> /\ ring[Len(ring)] = n
               /\ Len(items) < Max => Len(ring) = Len(items) + 1
               /\ Len(items) = Max => Len(ring) = Max
               /\ journal' \in Seq(Line) /\ (open' => journal' # <<>>)
               /\ Due(ring) /\ renamed => Decode(journal') = ring /\ ~open'
               /\ ~(Due(ring) /\ renamed) =>
                     /\ journal' = Appended(n, outcome) /\ open' = OpenAfter(outcome)
                     /\ Len(Decode(journal')) <= Len(Decode(journal)) + 1
                     /\ ~open /\ outcome \in {"ok", "close", "unended"} =>
                           Decode(journal') = Append(Decode(journal), n)
                     /\ open /\ outcome = "ok" => ~journal'[Len(journal')].valid
<1> DEFINE n == count + 1
           ring == Newest(Append(items, n), Max)
<1>0. /\ Max \in Nat /\ Max # 0 /\ MaxRecords \in Nat /\ outcome \in AppendOutcomes
      /\ Max \in Nat \ {0}
  BY StoreAssumption
<1>1. n \in 1..MaxRecords /\ items' = ring BY <1>0 DEF TypeInv, Record
<1>2. /\ items \in Seq(1..MaxRecords) /\ Len(items) \in Nat /\ Len(items) <= Max
      /\ Append(items, n) \in Seq(1..MaxRecords)
      /\ Len(Append(items, n)) = Len(items) + 1 /\ Append(items, n) # <<>>
      /\ Append(items, n)[Len(items) + 1] = n
  <2>1. items \in Seq(1..MaxRecords) /\ Len(items) <= Max BY DEF TypeInv
  <2> HIDE DEF n
  <2> QED BY <1>1, <2>1
<1>3. /\ ring \in Seq(1..MaxRecords)
      /\ Len(Append(items, n)) > Max => Len(ring) = Max
      /\ Len(Append(items, n)) <= Max => ring = Append(items, n)
  BY <1>0, <1>2, NewestFacts, Zenon
<1>4. ring # <<>> /\ ring[Len(ring)] = n
  BY <1>0, <1>2, NewestLast
<1>5. /\ Len(ring) <= Max
      /\ Len(items) < Max => Len(ring) = Len(items) + 1
      /\ Len(items) = Max => Len(ring) = Max
  BY <1>0, <1>2, <1>3
<1>6. /\ journal \in Seq(Line) /\ open \in BOOLEAN /\ (open => journal # <<>>)
  BY DEF TypeInv
<1>7. CASE Due(ring) /\ renamed
  <2>1. journal' = Encode(ring) /\ open' = FALSE BY <1>7 DEF Record
  <2> HIDE DEF ring, n
  <2>2. journal' \in Seq(Line) /\ Decode(journal') = ring
    BY <1>3, <2>1, DecodeEncode
  <2> QED BY <1>1, <1>3, <1>4, <1>5, <1>7, <2>1, <2>2 DEF ring, n
<1>8. CASE ~(Due(ring) /\ renamed)
  <2>1. journal' = Appended(n, outcome) /\ open' = OpenAfter(outcome)
    BY <1>8 DEF Record
  <2> HIDE DEF ring, n
  <2>2. /\ journal' \in Seq(Line) /\ (open' => journal' # <<>>)
        /\ Len(Decode(journal')) <= Len(Decode(journal)) + 1
        /\ ~open /\ outcome \in {"ok", "close", "unended"} =>
              Decode(journal') = Append(Decode(journal), n)
        /\ open /\ outcome = "ok" => ~journal'[Len(journal')].valid
    BY <1>0, <1>1, <1>6, <2>1, AppendedFacts
  <2> QED BY <1>1, <1>3, <1>4, <1>5, <1>8, <2>1, <2>2 DEF ring, n
<1> QED BY <1>7, <1>8

(***************************************************************************)
(* OpenStore: the ring is what the journal shows, which decodes to it when *)
(* it was compacted.                                                       *)
(***************************************************************************)
LEMMA OpenFacts ==
    ASSUME TypeInv, OpenStore
    PROVE  /\ items' = Replay /\ items' \in Seq(1..MaxRecords) /\ Len(items') <= Max
           /\ journal' \in Seq(Line) /\ (open' => journal' # <<>>) /\ open' \in BOOLEAN
           /\ Decode(journal') = items' /\ Replay' = items'
<1>0. /\ Max \in Nat /\ Max \in Nat \ {0} BY StoreAssumption
<1>1. /\ journal \in Seq(Line) /\ open \in BOOLEAN /\ (open => journal # <<>>)
      /\ items' = Newest(Decode(journal), Max)
  BY DEF TypeInv, OpenStore, Replay
<1>2. Decode(journal) \in Seq(1..MaxRecords) /\ Len(Decode(journal)) \in Nat
  BY <1>1, DecodeFacts
<1>3. /\ items' \in Seq(1..MaxRecords)
      /\ Len(Decode(journal)) > Max => Len(items') = Max
      /\ Len(Decode(journal)) <= Max => items' = Decode(journal)
  BY <1>0, <1>1, <1>2, NewestFacts
<1>4. Len(items') <= Max BY <1>0, <1>2, <1>3
<1>5. Newest(items', Max) = items' BY <1>0, <1>3, <1>4, NewestFacts
<1>6. /\ journal' \in Seq(Line) /\ (open' => journal' # <<>>) /\ open' \in BOOLEAN
      /\ Decode(journal') = items'
  <2>1. CASE Len(Decode(journal)) > Max
    <3>1. journal' = Encode(items') /\ open' = FALSE BY <2>1 DEF OpenStore
    <3> QED BY <1>3, <3>1, DecodeEncode
  <2>2. CASE Len(Decode(journal)) <= Max
    <3>1. journal' = journal /\ open' = open BY <1>0, <1>2, <2>2 DEF OpenStore, file
    <3> QED BY <1>1, <1>3, <2>2, <3>1
  <2> QED BY <1>0, <1>2, <2>1, <2>2
<1>7. Replay' = items' BY <1>5, <1>6 DEF Replay
<1> QED BY <1>1, <1>3, <1>4, <1>6, <1>7 DEF Replay

(* Every variable has its type at first. *)
LEMMA TypeInit == Init => TypeInv
<1> SUFFICES ASSUME Init PROVE TypeInv
  OBVIOUS
<1>0. Max \in Nat /\ MaxRecords \in Nat BY StoreAssumption
<1>1. /\ items = <<>> /\ journal = <<>> /\ up /\ lastError = FALSE /\ open = FALSE
      /\ saved = TRUE /\ compacted = TRUE /\ writes = 0 /\ count = 0 /\ faults = 0
      /\ up = TRUE
  BY DEF Init
<1>2. \A x : x = <<>> => /\ x \in Seq(Line) /\ x \in Seq(1..MaxRecords)
                         /\ Len(x) <= Max
  BY <1>0
<1>3. /\ items \in Seq(1..MaxRecords) /\ Len(items) <= Max /\ journal \in Seq(Line)
  BY <1>1, <1>2, Zenon
<1>4. count \in 0..MaxRecords BY <1>0, <1>1
<1> QED BY <1>1, <1>3, <1>4 DEF TypeInv

(* Every step keeps the types. *)
LEMMA TypeStep ==
    ASSUME TypeInv, [Next]_vars
    PROVE  TypeInv'
<1>0. /\ Max \in Nat /\ MaxRecords \in Nat BY StoreAssumption
<1>e. \A x : x = <<>> => /\ x \in Seq(Line) /\ x \in Seq(1..MaxRecords)
                         /\ Len(x) <= Max
  BY <1>0
<1>1. ASSUME NEW outcome \in Appends, NEW renamed \in BOOLEAN, Record(outcome, renamed)
      PROVE  TypeInv'
  <2> DEFINE full == Due(items')
             failed == (IF outcome = "ok" THEN 0 ELSE 1)
                       + (IF full /\ ~renamed THEN 1 ELSE 0)
  <2>1. /\ items' \in Seq(1..MaxRecords) /\ Len(items') <= Max
        /\ journal' \in Seq(Line) /\ (open' => journal' # <<>>)
        /\ count' \in 0..MaxRecords
    <3>1. count' = count + 1 BY <1>1 DEF Record
    <3>2. 1..MaxRecords \subseteq 0..MaxRecords BY <1>0
    <3> QED BY <1>1, <3>1, <3>2, RecordFacts
  <2>2. /\ items' = Newest(Append(items, count + 1), Max)
        /\ writes' = IF full THEN 0 ELSE writes + 1
        /\ lastError' = (failed > 0) /\ up' = up /\ up
        /\ faults' = faults + failed
        /\ saved' = \/ full /\ renamed
                    \/ saved /\ ~open /\ outcome \in {"ok", "close", "unended"}
        /\ compacted' = IF full THEN renamed ELSE compacted
    BY <1>1 DEF Record
  <2>3. failed \in Nat OBVIOUS
  <2>4. open' \in BOOLEAN
    <3>1. open' \in {FALSE, OpenAfter(outcome)} BY <1>1 DEF Record
    <3>2. (outcome \in {"torn", "unended"}) \in BOOLEAN OBVIOUS
    <3>3. open \in BOOLEAN BY DEF TypeInv
    <3>4. OpenAfter(outcome) \in BOOLEAN BY <3>2, <3>3, Zenon DEF OpenAfter
    <3> QED BY <3>1, <3>4, Zenon
  <2>5. full \in BOOLEAN BY DEF Due
  <2> HIDE DEF full, failed
  <2>6. writes' \in Nat /\ faults' \in Nat BY <2>2, <2>3 DEF TypeInv
  <2>7. saved' \in BOOLEAN /\ compacted' \in BOOLEAN /\ lastError' \in BOOLEAN
    <3>1. (failed > 0) \in BOOLEAN BY <2>3
    <3>2. saved \in BOOLEAN /\ open \in BOOLEAN /\ compacted \in BOOLEAN BY DEF TypeInv
    <3> QED BY <2>2, <2>5, <3>1, <3>2, Zenon
  <2> QED BY <2>1, <2>2, <2>4, <2>6, <2>7 DEF TypeInv
<1>2. CASE Clear
  <2>1. /\ items' = <<>> /\ writes' = 0 /\ lastError' = FALSE /\ journal' = <<>>
        /\ open' = FALSE /\ saved' = TRUE /\ compacted' = TRUE
        /\ UNCHANGED <<up, count, faults>>
    BY <1>2 DEF Clear
  <2>2. items' \in Seq(1..MaxRecords) /\ Len(items') <= Max /\ journal' \in Seq(Line)
    BY <1>e, <2>1, Zenon
  <2> QED BY <2>1, <2>2 DEF TypeInv
<1>3. ASSUME NEW truncated \in BOOLEAN, ClearFails(truncated)
      PROVE  TypeInv'
  <2>1. /\ items' = <<>> /\ writes' = 0 /\ lastError' = TRUE /\ up
        /\ (journal' = <<>> /\ open' = FALSE) \/ (journal' = journal /\ open' = open)
        /\ saved' = truncated /\ compacted' = truncated /\ faults' = faults + 1
        /\ UNCHANGED <<up, count>>
    BY <1>3 DEF ClearFails, file
  <2>2. items' \in Seq(1..MaxRecords) /\ Len(items') <= Max BY <1>e, <2>1, Zenon
  <2>3. journal' \in Seq(Line) /\ (open' => journal' # <<>>) /\ open' \in BOOLEAN
    <3>1. CASE journal' = <<>> /\ open' = FALSE BY <1>e, <3>1, Zenon
    <3>2. CASE journal' = journal /\ open' = open BY <3>2 DEF TypeInv
    <3> QED BY <2>1, <3>1, <3>2
  <2> QED BY <2>1, <2>2, <2>3 DEF TypeInv
<1>4. ASSUME NEW s \in Subscribers, Subscribe(s) \/ Deliver(s) \/ Unsubscribe(s)
      PROVE  TypeInv'
  BY <1>4, EventSteps DEF TypeInv
<1>5. CASE Crash
  <2>1. /\ items' = <<>> /\ writes' = 0 /\ lastError' = FALSE /\ up' = FALSE
        /\ UNCHANGED <<journal, open, count, faults, saved, compacted>>
    BY <1>5 DEF Crash, file, ghosts
  <2>2. items' \in Seq(1..MaxRecords) /\ Len(items') <= Max BY <1>e, <2>1, Zenon
  <2> QED BY <2>1, <2>2 DEF TypeInv
<1>6. CASE OpenStore
  BY <1>6, OpenFacts DEF OpenStore, TypeInv
<1>7. CASE UNCHANGED vars
  BY <1>7 DEF vars, mem, file, ghosts, TypeInv
<1> QED BY <1>1, <1>2, <1>3, <1>4, <1>5, <1>6, <1>7 DEF Next

(* Every step keeps what the journal shows equal to what the ring holds. *)
LEMMA ReplayStep ==
    ASSUME TypeInv, ReplayShowsItems, [Next]_vars
    PROVE  ReplayShowsItems'
<1>0. Max \in Nat \ {0} BY StoreAssumption
<1>e. Newest(<<>>, Max) = <<>>
  <2>1. Len(<<>>) = 0 /\ ~(0 > Max) BY <1>0
  <2> QED BY <2>1 DEF Newest
<1>1. ASSUME NEW outcome \in Appends, NEW renamed \in BOOLEAN, Record(outcome, renamed)
      PROVE  ReplayShowsItems'
  <2> DEFINE n == count + 1
             ring == Newest(Append(items, n), Max)
  <2>1. /\ n \in 1..MaxRecords /\ items' = ring
        /\ ring \in Seq(1..MaxRecords) /\ Len(ring) <= Max
        /\ Due(ring) /\ renamed => Decode(journal') = ring
        /\ ~(Due(ring) /\ renamed) =>
              (~open /\ outcome \in {"ok", "close", "unended"} =>
                   Decode(journal') = Append(Decode(journal), n))
    BY <1>1, RecordFacts
  <2>2. /\ up /\ saved' => \/ Due(ring) /\ renamed
                           \/ saved /\ ~open /\ outcome \in {"ok", "close", "unended"}
    BY <1>1 DEF Record
  <2>3. up BY <1>1 DEF Record
  <2>4. CASE Due(ring) /\ renamed
    <3>1. Newest(ring, Max) = ring BY <1>0, <2>1, NewestFacts
    <3> QED BY <2>1, <2>4, <3>1 DEF ReplayShowsItems, Replay
  <2>5. CASE ~(Due(ring) /\ renamed) /\ saved'
    <3>1. Decode(journal') = Append(Decode(journal), n) BY <2>1, <2>2, <2>3, <2>5
    <3>2. Newest(Decode(journal), Max) = items
      BY <2>2, <2>3, <2>5 DEF ReplayShowsItems, Replay
    <3>3. Decode(journal) \in Seq(1..MaxRecords) BY DecodeFacts DEF TypeInv
    <3> HIDE DEF n
    <3>4. Newest(Append(Decode(journal), n), Max) = Newest(Append(items, n), Max)
      BY <1>0, <2>1, <3>2, <3>3, NewestAppend
    <3> QED BY <2>1, <3>1, <3>4 DEF ReplayShowsItems, Replay
  <2> QED BY <2>4, <2>5 DEF ReplayShowsItems
<1>2. CASE Clear
  BY <1>2, <1>e, DecodeEmpty DEF Clear, ReplayShowsItems, Replay
<1>3. ASSUME NEW truncated \in BOOLEAN, ClearFails(truncated)
      PROVE  ReplayShowsItems'
  BY <1>3, <1>e, DecodeEmpty DEF ClearFails, ReplayShowsItems, Replay
<1>4. ASSUME NEW s \in Subscribers, Subscribe(s) \/ Deliver(s) \/ Unsubscribe(s)
      PROVE  ReplayShowsItems'
  BY <1>4, EventSteps DEF ReplayShowsItems, Replay
<1>5. CASE Crash
  BY <1>5 DEF Crash, ReplayShowsItems
<1>6. CASE OpenStore
  BY <1>6, OpenFacts DEF ReplayShowsItems
<1>7. CASE UNCHANGED vars
  BY <1>7 DEF vars, mem, file, ghosts, ReplayShowsItems, Replay
<1> QED BY <1>1, <1>2, <1>3, <1>4, <1>5, <1>6, <1>7 DEF Next

(* The store is empty at first. *)
LEMMA StoreInit == Init => FaultlessInv /\ ReplayShowsItems /\ BoundInv /\ HealthyIsDurable
<1> SUFFICES ASSUME Init PROVE FaultlessInv /\ ReplayShowsItems /\ BoundInv /\ HealthyIsDurable
  OBVIOUS
<1>0. Max \in Nat /\ Max # 0 /\ Quota \in Nat /\ Quota >= 1 BY StoreAssumption, QuotaFacts
<1>1. /\ items = <<>> /\ journal = <<>> /\ saved /\ ~open /\ writes = 0
  BY DEF Init
<1>2. Decode(journal) = <<>> /\ Len(items) = 0 BY <1>1, DecodeEmpty
<1>3. Len(Decode(journal)) = 0 BY <1>2
<1>4. Replay = items BY <1>0, <1>1, <1>2, <1>3 DEF Replay, Newest
<1>5. BoundInv BY <1>0, <1>1, <1>2, <1>3 DEF BoundInv, JournalBounded
<1> QED BY <1>1, <1>4, <1>5 DEF FaultlessInv, ReplayShowsItems, HealthyIsDurable

(* Every step keeps the journal near the ring. *)
LEMMA BoundStep ==
    ASSUME TypeInv, BoundInv, [Next]_vars
    PROVE  BoundInv'
<1>0. /\ Max \in Nat /\ Max # 0 /\ Quota \in Nat /\ Quota >= 1 /\ writes \in Nat
  BY StoreAssumption, QuotaFacts DEF TypeInv
<1>d. /\ Len(Decode(journal)) \in Nat /\ Len(items) \in Nat /\ Len(items) <= Max
  BY DecodeFacts DEF TypeInv
<1>e. \A x : x = <<>> => Len(x) = 0 OBVIOUS
<1>b. /\ Len(items) = Max => writes <= Quota - 1
      /\ compacted /\ up =>
            /\ Len(items) < Max => Len(Decode(journal)) <= Len(items)
            /\ Len(items) = Max => Len(Decode(journal)) <= Max + writes
      /\ compacted => Len(Decode(journal)) <= Max + Quota - 1
  BY DEF BoundInv, JournalBounded
<1>j. ASSUME NEW d \in Nat, NEW l \in Nat, NEW w \in Nat, l <= Max,
             d = Len(Decode(journal')), l = Len(items'), w = writes',
             l = Max => w <= Quota - 1,
             compacted' => (l < Max => d <= l) /\ (l = Max => d <= Max + w)
      PROVE  BoundInv'
  <2>1. compacted' => d <= Max + Quota - 1 BY <1>0, <1>j
  <2> QED BY <1>j, <2>1 DEF BoundInv, JournalBounded
<1>1. ASSUME NEW outcome \in Appends, NEW renamed \in BOOLEAN, Record(outcome, renamed)
      PROVE  BoundInv'
  <2> DEFINE ring == Newest(Append(items, count + 1), Max)
             full == Due(ring)
             d == Len(Decode(journal'))
  <2>1. /\ items' = ring /\ ring \in Seq(1..MaxRecords) /\ Len(ring) <= Max
        /\ Len(items) < Max => Len(ring) = Len(items) + 1
        /\ Len(items) = Max => Len(ring) = Max
        /\ journal' \in Seq(Line)
        /\ full /\ renamed => Decode(journal') = ring
        /\ ~(full /\ renamed) => d <= Len(Decode(journal)) + 1
    BY <1>1, RecordFacts
  <2>2. /\ writes' = IF full THEN 0 ELSE writes + 1
        /\ compacted' = IF full THEN renamed ELSE compacted
        /\ up
    BY <1>1 DEF Record
  <2>3. full <=> Len(ring) = Max /\ writes + 1 >= Quota BY DEF Due
  <2>4. d \in Nat BY <2>1, DecodeFacts
  <2>5. Len(ring) \in Nat BY <2>1
  <2> HIDE DEF ring, full
  <2>6. writes' \in Nat BY <1>0, <2>2
  <2>7. Len(ring) = Max => writes' <= Quota - 1 BY <1>0, <2>2, <2>3
  <2>8. CASE full
    <3>1. compacted' => d = Len(ring) BY <2>1, <2>2, <2>8
    <3>2. Len(ring) = Max BY <2>3, <2>8
    <3>3. compacted' => (Len(ring) < Max => d <= Len(ring))
                        /\ (Len(ring) = Max => d <= Max + writes')
      BY <1>0, <2>4, <2>6, <3>1, <3>2
    <3> QED BY <1>j, <2>1, <2>4, <2>5, <2>6, <2>7, <3>3
  <2>9. CASE ~full
    <3>1. /\ d <= Len(Decode(journal)) + 1 /\ writes' = writes + 1
          /\ compacted' = compacted
      BY <2>1, <2>2, <2>9
    <3> DEFINE j == Len(Decode(journal))
               m == Len(items)
               k == Len(ring)
    <3>2. /\ j \in Nat /\ m \in Nat /\ k \in Nat /\ m <= Max /\ d <= j + 1
          /\ m < Max => k = m + 1
          /\ m = Max => k = Max
          /\ compacted' => (m < Max => j <= m) /\ (m = Max => j <= Max + writes)
      BY <1>b, <1>d, <2>1, <2>2, <2>5, <3>1
    <3> HIDE DEF j, m, k, d
    <3>3. compacted' => (k < Max => d <= k) /\ (k = Max => d <= Max + writes')
      BY <1>0, <2>4, <3>1, <3>2
    <3> QED BY <1>j, <2>1, <2>4, <2>5, <2>6, <2>7, <3>3 DEF k, d
  <2> QED BY <2>8, <2>9
<1>2. CASE Clear
  <2>1. Len(items') = 0 /\ writes' = 0 /\ Len(Decode(journal')) = 0
    BY <1>2, <1>e, DecodeEmpty DEF Clear
  <2> QED BY <1>0, <1>j, <2>1
<1>3. ASSUME NEW truncated \in BOOLEAN, ClearFails(truncated)
      PROVE  BoundInv'
  <2>1. /\ Len(items') = 0 /\ writes' = 0
        /\ compacted' => Len(Decode(journal')) = 0
    BY <1>3, <1>e, DecodeEmpty DEF ClearFails
  <2> QED BY <1>0, <2>1 DEF BoundInv, JournalBounded
<1>4. ASSUME NEW s \in Subscribers, Subscribe(s) \/ Deliver(s) \/ Unsubscribe(s)
      PROVE  BoundInv'
  BY <1>4, EventSteps DEF BoundInv, JournalBounded
<1>5. CASE Crash
  <2>1. /\ Len(items') = 0 /\ writes' = 0 /\ up' = FALSE
        /\ journal' = journal /\ compacted' = compacted
    BY <1>5, <1>e DEF Crash, file, ghosts
  <2> QED BY <1>0, <1>b, <2>1 DEF BoundInv, JournalBounded
<1>6. CASE OpenStore
  <2>1. /\ items' \in Seq(1..MaxRecords) /\ Len(items') <= Max
        /\ Decode(journal') = items'
    BY <1>6, OpenFacts
  <2>2. writes' = 0 BY <1>6 DEF OpenStore, TypeInv
  <2>3. Len(items') \in Nat BY <2>1
  <2> QED BY <1>0, <1>j, <2>1, <2>2, <2>3
<1>7. CASE UNCHANGED vars
  BY <1>7 DEF vars, mem, file, ghosts, BoundInv, JournalBounded
<1> QED BY <1>1, <1>2, <1>3, <1>4, <1>5, <1>6, <1>7 DEF Next

(* Every step keeps what health reports true of the newest interaction. *)
LEMMA HealthyStep ==
    ASSUME TypeInv, HealthyIsDurable, [Next]_vars
    PROVE  HealthyIsDurable'
<1>0. Max \in Nat \ {0} BY StoreAssumption
<1>1. ASSUME NEW outcome \in Appends, NEW renamed \in BOOLEAN, Record(outcome, renamed)
      PROVE  HealthyIsDurable'
  <2> DEFINE n == count + 1
             ring == Newest(Append(items, n), Max)
             full == Due(ring)
             failed == (IF outcome = "ok" THEN 0 ELSE 1)
                       + (IF full /\ ~renamed THEN 1 ELSE 0)
  <2>1. /\ n \in 1..MaxRecords /\ items' = ring
        /\ ring \in Seq(1..MaxRecords) /\ Len(ring) <= Max
        /\ ring # <<>> /\ ring[Len(ring)] = n
        /\ journal' \in Seq(Line)
        /\ full /\ renamed => Decode(journal') = ring
        /\ ~(full /\ renamed) =>
              /\ journal' = Appended(n, outcome)
              /\ ~open /\ outcome \in {"ok", "close", "unended"} =>
                    Decode(journal') = Append(Decode(journal), n)
              /\ open /\ outcome = "ok" => ~journal'[Len(journal')].valid
    BY <1>1, RecordFacts
  <2>2. lastError' = (failed > 0) BY <1>1 DEF Record
  <2> SUFFICES ASSUME ~lastError'
               PROVE  \/ journal' # <<>> /\ ~journal'[Len(journal')].valid
                      \/ Replay' # <<>> /\ Replay'[Len(Replay')] = items'[Len(items')]
    BY DEF HealthyIsDurable
  <2>3. outcome = "ok" /\ (full => renamed)
    <3>1. ~(failed > 0) BY <2>2, Zenon
    <3> HIDE DEF full
    <3> QED BY <3>1
  <2>4. CASE full /\ renamed
    <3>1. Newest(ring, Max) = ring BY <1>0, <2>1, NewestFacts
    <3> QED BY <2>1, <2>4, <3>1 DEF Replay
  <2>5. CASE ~(full /\ renamed) /\ open
    <3>1. journal' # <<>>
      <4>1. /\ journal \in Seq(Line) /\ SubSeq(journal, 1, Len(journal) - 1) \in Seq(Line)
        <5>1. journal \in Seq(Line) /\ journal # <<>> BY <2>5 DEF TypeInv
        <5>2. Len(journal) \in Nat /\ Len(journal) >= 1 BY <5>1
        <5> QED BY <5>1, <5>2
      <4>2. outcome # "failed" BY <2>3
      <4>3. \E x : journal' = Append(SubSeq(journal, 1, Len(journal) - 1), x)
        BY <2>1, <2>5, <4>2, Zenon DEF Appended
      <4> QED BY <4>1, <4>3
    <3> QED BY <2>1, <2>3, <2>5, <3>1
  <2>6. CASE ~(full /\ renamed) /\ ~open
    <3>1. Decode(journal') = Append(Decode(journal), n) BY <2>1, <2>3, <2>6
    <3>2. Decode(journal) \in Seq(1..MaxRecords) BY DecodeFacts DEF TypeInv
    <3> HIDE DEF n
    <3>3. /\ Decode(journal') \in Seq(1..MaxRecords) /\ Decode(journal') # <<>>
          /\ Decode(journal')[Len(Decode(journal'))] = n
      BY <2>1, <3>1, <3>2
    <3>4. Replay' # <<>> /\ Replay'[Len(Replay')] = n
      BY <1>0, <3>3, NewestLast DEF Replay
    <3> QED BY <2>1, <3>4
  <2> QED BY <2>4, <2>5, <2>6
<1>2. CASE Clear
  BY <1>2 DEF Clear, HealthyIsDurable
<1>3. ASSUME NEW truncated \in BOOLEAN, ClearFails(truncated)
      PROVE  HealthyIsDurable'
  BY <1>3 DEF ClearFails, HealthyIsDurable
<1>4. ASSUME NEW s \in Subscribers, Subscribe(s) \/ Deliver(s) \/ Unsubscribe(s)
      PROVE  HealthyIsDurable'
  BY <1>4, EventSteps DEF HealthyIsDurable, Replay
<1>5. CASE Crash
  BY <1>5 DEF Crash, HealthyIsDurable
<1>6. CASE OpenStore
  <2>1. Replay' = items' BY <1>6, OpenFacts
  <2> QED BY <2>1 DEF HealthyIsDurable
<1>7. CASE UNCHANGED vars
  BY <1>7 DEF vars, mem, file, ghosts, HealthyIsDurable, Replay
<1> QED BY <1>1, <1>2, <1>3, <1>4, <1>5, <1>6, <1>7 DEF Next

(* No step without a fault loses a line or leaves one unfinished. *)
LEMMA FaultlessStep ==
    ASSUME TypeInv, FaultlessInv, [Next]_vars
    PROVE  FaultlessInv' /\ (faults' = 0 => faults = 0)
<1>0. faults \in Nat BY DEF TypeInv
<1>1. ASSUME NEW outcome \in Appends, NEW renamed \in BOOLEAN, Record(outcome, renamed)
      PROVE  FaultlessInv' /\ (faults' = 0 => faults = 0)
  <2> DEFINE full == Due(Newest(Append(items, count + 1), Max))
             failed == (IF outcome = "ok" THEN 0 ELSE 1)
                       + (IF full /\ ~renamed THEN 1 ELSE 0)
  <2>1. /\ faults' = faults + failed
        /\ saved' = \/ full /\ renamed
                    \/ saved /\ ~open /\ outcome \in {"ok", "close", "unended"}
        /\ open' = IF full /\ renamed THEN FALSE ELSE OpenAfter(outcome)
    BY <1>1 DEF Record
  <2>2. faults' = 0 => faults = 0 /\ outcome = "ok" BY <1>0, <2>1
  <2> QED BY <2>1, <2>2 DEF FaultlessInv, OpenAfter
<1>2. CASE Clear
  BY <1>2 DEF Clear, FaultlessInv
<1>3. ASSUME NEW truncated \in BOOLEAN, ClearFails(truncated)
      PROVE  FaultlessInv' /\ (faults' = 0 => faults = 0)
  BY <1>0, <1>3 DEF ClearFails, FaultlessInv
<1>4. ASSUME NEW s \in Subscribers, Subscribe(s) \/ Deliver(s) \/ Unsubscribe(s)
      PROVE  FaultlessInv' /\ (faults' = 0 => faults = 0)
  BY <1>4, EventSteps DEF FaultlessInv
<1>5. CASE Crash
  BY <1>5 DEF Crash, FaultlessInv, file, ghosts
<1>6. CASE OpenStore
  BY <1>6 DEF OpenStore, FaultlessInv, file
<1>7. CASE UNCHANGED vars
  BY <1>7 DEF vars, file, ghosts, FaultlessInv
<1> QED BY <1>1, <1>2, <1>3, <1>4, <1>5, <1>6, <1>7 DEF Next

-----------------------------------------------------------------------------
(***************************************************************************)
(* Theorems                                                                *)
(***************************************************************************)

(* What every reachable state satisfies. *)
StoreInv ==
    /\ TypeInv /\ FaultlessInv /\ ReplayShowsItems /\ BoundInv /\ HealthyIsDurable

(* The invariant of the store holds always. *)
LEMMA StoreInvariant == Spec => []StoreInv
<1>1. Init => StoreInv BY TypeInit, StoreInit DEF StoreInv
<1>2. StoreInv /\ [Next]_vars => StoreInv'
  BY TypeStep, FaultlessStep, ReplayStep, BoundStep, HealthyStep DEF StoreInv
<1> QED BY <1>1, <1>2, PTL DEF Spec

(***************************************************************************)
(* A restart shows what was shown before, for every retention and after    *)
(* every sequence of faults and crashes, unless an append was lost since   *)
(* the file was last rewritten.                                            *)
(***************************************************************************)
THEOREM RestartShowsTheSame == Spec => []ReplayShowsItems
<1>1. StoreInv => ReplayShowsItems BY DEF StoreInv
<1> QED BY <1>1, StoreInvariant, PTL

(***************************************************************************)
(* "The interaction journal is periodically compacted to its retention     *)
(* window": it never holds as much as a quota of lines more than the       *)
(* retention, unless a compaction fails.                                   *)
(***************************************************************************)
THEOREM JournalStaysBounded == Spec => []JournalBounded
<1>1. StoreInv => JournalBounded BY DEF StoreInv, BoundInv
<1> QED BY <1>1, StoreInvariant, PTL

(***************************************************************************)
(* When health reports no failure of persistence, the newest interaction   *)
(* survives a restart, unless it was appended to an unfinished line.       *)
(***************************************************************************)
THEOREM HealthMeansDurable == Spec => []HealthyIsDurable
<1>1. StoreInv => HealthyIsDurable BY DEF StoreInv
<1> QED BY <1>1, StoreInvariant, PTL

(***************************************************************************)
(* Until a file operation fails, the store with its journal, compactions,  *)
(* crashes and restarts implements the log that knows nothing of them.     *)
(***************************************************************************)
THEOREM StoreImplementsLog == Spec => ImplementsLog
<1>1. Init => Log!LogInit
  BY DEF Init, Log!LogInit
<1> DEFINE A == faults' = 0 => Log!LogNext
           v == <<Log!logVars, faults>>
<1>2. StoreInv /\ [Next]_vars => [A]_v
  <2> SUFFICES ASSUME StoreInv, [Next]_vars, faults' = 0, ~UNCHANGED v
               PROVE  Log!LogNext
    OBVIOUS
  <2>0. /\ TypeInv /\ saved /\ ~open /\ faults = 0 /\ (up => Replay = items)
    BY FaultlessStep DEF StoreInv, FaultlessInv, ReplayShowsItems
  <2>u. Log!logVars = <<IF up THEN items ELSE Replay, count>> BY DEF Log!logVars
  <2>1. ASSUME NEW outcome \in Appends, NEW renamed \in BOOLEAN, Record(outcome, renamed)
        PROVE  Log!LogNext
    <3>1. /\ up /\ up' = up /\ count' = count + 1
          /\ items' = Newest(Append(items, count + 1), Max)
      BY <2>1 DEF Record
    <3> QED BY <3>1 DEF Log!LogNext, Log!Add, Log!Newest, Newest
  <2>2. CASE Clear
    BY <2>2 DEF Clear, Log!LogNext, Log!Forget
  <2>3. ASSUME NEW truncated \in BOOLEAN, ClearFails(truncated)
        PROVE  Log!LogNext
    BY <2>0, <2>3 DEF ClearFails
  <2>4. ASSUME NEW s \in Subscribers, Subscribe(s) \/ Deliver(s) \/ Unsubscribe(s)
        PROVE  Log!LogNext
    <3>1. UNCHANGED v BY <2>4, EventSteps DEF Log!logVars, Replay
    <3> QED BY <3>1
  <2>5. CASE Crash
    <3>1. /\ up /\ up' = FALSE /\ UNCHANGED <<journal, count, faults>>
      BY <2>5 DEF Crash, file, ghosts
    <3>2. Replay' = items BY <2>0, <3>1 DEF Replay
    <3>3. UNCHANGED v BY <3>1, <3>2 DEF Log!logVars
    <3> QED BY <3>3
  <2>6. CASE OpenStore
    <3>1. ~up /\ up' /\ items' = Replay /\ UNCHANGED <<count, faults>>
      BY <2>6 DEF OpenStore
    <3>2. UNCHANGED v BY <3>1 DEF Log!logVars
    <3> QED BY <3>2
  <2>7. CASE UNCHANGED vars
    <3>1. UNCHANGED v BY <2>7 DEF vars, mem, file, ghosts, Log!logVars, Replay
    <3> QED BY <3>1
  <2> QED BY <2>1, <2>2, <2>3, <2>4, <2>5, <2>6, <2>7 DEF Next
<1> HIDE DEF A, v
<1>3. Spec => [][A]_v BY <1>2, StoreInvariant, PTL DEF Spec
<1> QED BY <1>1, <1>3, PTL DEF Spec, ImplementsLog, A, v
=============================================================================
