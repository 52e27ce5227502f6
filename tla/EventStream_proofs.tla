------------------------- MODULE EventStream_proofs -------------------------
(***************************************************************************)
(* Proofs about the event stream, for any number of handlers, clients,     *)
(* events and restarts.  A replay writes a set of events in order: that    *)
(* this can be done is shown by counting (an event's place is the number   *)
(* of events up to it).  What a message route writes differs because it is *)
(* subscribed only to what the service does not hold yet.                  *)
(***************************************************************************)
EXTENDS EventStream, FunctionTheorems, FiniteSetTheorems, SequenceTheorems, TLAPS

-----------------------------------------------------------------------------
(* Sorting, and the largest of a set *)

Rising(s) == \A i, j \in 1..Len(s) : i < j => s[i] < s[j]

\* The number of elements of S up to e.
Place(S, e) == Cardinality({d \in S : d <= e})

LEMMA PlaceRises ==
    ASSUME NEW S, S \subseteq Nat, IsFiniteSet(S), NEW d \in S, NEW e \in S
    PROVE  /\ Place(S, e) \in 1..Cardinality(S)
           /\ d < e => Place(S, d) < Place(S, e)
<1> DEFINE UpTo(x) == {y \in S : y <= x}
<1>1. \A x \in S : IsFiniteSet(UpTo(x)) /\ Cardinality(UpTo(x)) <= Cardinality(S)
  BY FS_Subset
<1>2. Cardinality(S) \in Nat /\ \A x \in S : Cardinality(UpTo(x)) \in Nat
  BY <1>1, FS_CardinalityType
<1>3. Cardinality(UpTo(e)) # 0
  <2>1. e \in UpTo(e) BY SMT
  <2>2. QED BY <2>1, <1>1, FS_EmptySet
<1>4. ASSUME d < e PROVE Cardinality(UpTo(d)) < Cardinality(UpTo(e))
  <2>1. UpTo(d) \in SUBSET UpTo(e) /\ e \in UpTo(e) /\ e \notin UpTo(d)
    <3>1. d \in Nat /\ e \in Nat /\ \A y \in S : y \in Nat BY Zenon
    <3>2. \A y \in S : y <= d => y <= e BY <3>1, <1>4, SMT
    <3>3. ~ (e <= d) /\ e <= e BY <3>1, <1>4, SMT
    <3>4. QED BY <3>2, <3>3
  <2>2. /\ Cardinality(UpTo(d)) <= Cardinality(UpTo(e))
        /\ Cardinality(UpTo(d)) = Cardinality(UpTo(e)) => UpTo(d) = UpTo(e)
    <3> HIDE DEF UpTo
    <3>1. QED BY <2>1, <1>1, FS_Subset
  <2>3. Cardinality(UpTo(d)) # Cardinality(UpTo(e)) BY <2>1, <2>2
  <2>4. QED
    <3> HIDE DEF UpTo
    <3>1. QED BY <2>2, <2>3, <1>2, SMT
<1>5. Place(S, e) = Cardinality(UpTo(e)) /\ Place(S, d) = Cardinality(UpTo(d))
  BY DEF Place
<1>6. QED
  <2> HIDE DEF UpTo
  <2>1. QED BY <1>1, <1>2, <1>3, <1>4, <1>5, SMT

\* Every finite set of numbers has its elements in one ascending sequence.
LEMMA AscendingSorts ==
    ASSUME NEW S, S \subseteq Nat, IsFiniteSet(S)
    PROVE  /\ Ascending(S) \in Seq(S)
           /\ Rising(Ascending(S))
           /\ \A e \in S : \E i \in 1..Len(Ascending(S)) : Ascending(S)[i] = e
<1> DEFINE n == Cardinality(S)
           D == 1..n
           place == [e \in S |-> Place(S, e)]
           sorted == [i \in D |-> CHOOSE e \in S : place[e] = i]
           Sorts(s) == \A i, j \in DOMAIN s : i < j => s[i] < s[j]
<1>1. n \in Nat /\ IsFiniteSet(D) /\ Cardinality(D) = n
  <2>1. n \in Nat BY FS_CardinalityType
  <2>2. QED BY <2>1, FS_Interval
<1>2. place \in [S -> D] /\ \A d, e \in S : d < e => place[d] < place[e]
  BY PlaceRises
<1>3. \A d, e \in S : place[d] = place[e] => d = e
  <2>1. \A d, e \in S : d \in Nat /\ e \in Nat /\ place[d] \in Int
    BY <1>1, <1>2
  <2> HIDE DEF place
  <2>2. QED BY <1>2, <2>1, SMT
<1>4. \A i \in D : \E e \in S : place[e] = i
  <2> HIDE DEF place, D, n
  <2>1. place \in Injection(S, D) BY <1>2, <1>3, Fun_IsInj
  <2>2. Cardinality(S) = Cardinality(D) BY <1>1 DEF n
  <2>3. place \in Surjection(S, D) BY <1>1, <2>1, <2>2, FS_Injection
  <2>4. QED BY <2>3, Fun_SurjectionProperties
<1>5. sorted \in [D -> S] /\ \A i \in D : place[sorted[i]] = i
  <2> HIDE DEF place
  <2>1. \A i \in D : sorted[i] \in S /\ place[sorted[i]] = i BY <1>4
  <2>2. QED BY <2>1
<1>6. sorted \in SetToSeqs(S) /\ Sorts(sorted)
  <2> HIDE DEF place, sorted
  <2>1. \A i, j \in D : i # j => sorted[i] # sorted[j] BY <1>5
  <2>2. \A i, j \in D : i < j => sorted[i] < sorted[j]
    <3>1. TAKE i, j \in D
    <3>2. HAVE i < j
    <3>3. sorted[i] \in S /\ sorted[j] \in S /\ sorted[i] \in Nat /\ sorted[j] \in Nat
      BY <1>5
    <3>4. ~ (sorted[j] < sorted[i])
      <4>1. place[sorted[i]] = i /\ place[sorted[j]] = j BY <1>5
      <4>2. sorted[j] < sorted[i] => j < i BY <1>2, <3>3, <4>1
      <4>3. QED BY <1>1, <3>2, <4>2, SMT
    <3>5. sorted[i] # sorted[j] BY <3>2, <2>1, <1>1, SMT
    <3>6. QED BY <3>3, <3>4, <3>5, SMT
  <2>3. DOMAIN sorted = D BY <1>5
  <2>4. QED BY <2>1, <2>2, <2>3, <1>5 DEF SetToSeqs
<1>7. Ascending(S) \in SetToSeqs(S) /\ Sorts(Ascending(S))
  <2> HIDE DEF place, sorted
  <2>1. QED BY <1>6 DEF Ascending
<1> DEFINE s == Ascending(S)
<1>8. s \in [D -> S] /\ \A i, j \in D : i # j => s[i] # s[j]
  BY <1>7 DEF SetToSeqs
<1> HIDE DEF place, sorted, s, D, n
<1>9. Len(s) = n /\ DOMAIN s = D /\ s \in Seq(S)
  BY <1>1, <1>8, SeqDef DEF D
<1>10. s \in Surjection(D, S)
  <2>1. s \in Injection(D, S) BY <1>8, Fun_IsInj
  <2>2. QED BY <1>1, <2>1, FS_Injection DEF n
<1>11. Rising(s)
  BY <1>7, <1>9 DEF Rising, s, D
<1>12. \A e \in S : \E i \in 1..Len(s) : s[i] = e
  BY <1>9, <1>10, Fun_SurjectionProperties DEF D
<1>13. QED BY <1>9, <1>11, <1>12 DEF s

\* A non-empty set of numbers up to n has a largest one.
LEMMA LargestOf ==
    ASSUME NEW n \in Nat, NEW S, S \subseteq 1..n, S # {}
    PROVE  MaxOf(S) \in S /\ \A d \in S : d <= MaxOf(S)
<1>1. IsFiniteSet(S) /\ S \subseteq Nat
  <2>1. IsFiniteSet(1..n) BY FS_Interval
  <2>2. S \in SUBSET (1..n) OBVIOUS
  <2>3. IsFiniteSet(S) BY <2>1, <2>2, FS_Subset
  <2>4. S \subseteq Nat BY SMT
  <2>5. QED BY <2>3, <2>4
<1> DEFINE s == Ascending(S)
<1>2. /\ s \in Seq(S) /\ Rising(s)
      /\ \A e \in S : \E i \in 1..Len(s) : s[i] = e
  BY <1>1, AscendingSorts
<1> HIDE DEF s
<1>3. Len(s) \in Nat /\ Len(s) # 0
  <2>1. Len(s) \in Nat BY <1>2, LenProperties
  <2>2. \E i \in 1..Len(s) : TRUE BY <1>2
  <2>3. QED BY <2>1, <2>2, SMT
<1>4. s[Len(s)] \in S BY <1>2, <1>3, ElementOfSeq, SMT
<1>5. \A d \in S : d <= s[Len(s)]
  <2>1. TAKE d \in S
  <2>2. PICK i \in 1..Len(s) : s[i] = d BY <1>2
  <2>3. CASE i = Len(s)
    <3>1. d \in Nat BY <1>1
    <3>2. QED BY <3>1, <2>2, <2>3, SMT
  <2>4. CASE i < Len(s)
    <3>1. s[i] < s[Len(s)] BY <2>4, <1>2, <1>3, SMT DEF Rising
    <3>2. d \in Nat /\ s[Len(s)] \in Nat BY <1>1, <1>4
    <3>3. QED BY <3>1, <3>2, <2>2, SMT
  <2>5. QED BY <2>3, <2>4, <1>3, SMT
<1>6. QED BY <1>4, <1>5 DEF MaxOf

-----------------------------------------------------------------------------
(* Sequences that rise *)

LEMMA RisingPrefix ==
    ASSUME NEW s \in Seq(Nat), NEW t \in Seq(Nat), Rising(s \o t)
    PROVE  Rising(s) /\ Rising(s \o << >>)
<1>1. Len(s) \in Nat /\ Len(t) \in Nat BY LenProperties
<1>2. /\ Len(s \o t) = Len(s) + Len(t)
      /\ \A i \in 1..Len(s) : (s \o t)[i] = s[i]
  <2>1. \A i \in 1..Len(s) : i \in 1..(Len(s) + Len(t)) /\ i <= Len(s) BY <1>1, SMT
  <2>2. QED BY <2>1, ConcatProperties
<1>3. \A i \in 1..Len(s) : i \in 1..Len(s \o t) BY <1>1, <1>2, SMT
<1>4. Rising(s) BY <1>2, <1>3 DEF Rising
<1>5. QED BY <1>4, ConcatEmptySeq

LEMMA RisingConcat ==
    ASSUME NEW s \in Seq(Nat), NEW t \in Seq(Nat), Rising(s), Rising(t), NEW m \in Nat,
           \A i \in 1..Len(s) : s[i] <= m, \A i \in 1..Len(t) : m < t[i]
    PROVE  Rising(s \o t)
<1>1. Len(s) \in Nat /\ Len(t) \in Nat BY LenProperties
<1>2. Len(s \o t) = Len(s) + Len(t) BY ConcatProperties
<1>3. SUFFICES ASSUME NEW i \in 1..(Len(s) + Len(t)), NEW j \in 1..(Len(s) + Len(t)), i < j
               PROVE  (s \o t)[i] < (s \o t)[j]
  BY <1>2 DEF Rising
<1>4. /\ (s \o t)[i] = IF i <= Len(s) THEN s[i] ELSE t[i - Len(s)]
      /\ (s \o t)[j] = IF j <= Len(s) THEN s[j] ELSE t[j - Len(s)]
  BY ConcatProperties
<1>5. CASE j <= Len(s)
  <2>1. i \in 1..Len(s) /\ j \in 1..Len(s) BY <1>1, <1>3, <1>5, SMT
  <2>2. QED BY <1>4, <2>1, <1>3, <1>5, SMT DEF Rising
<1>6. CASE i > Len(s)
  <2>1. i - Len(s) \in 1..Len(t) /\ j - Len(s) \in 1..Len(t) /\ i - Len(s) < j - Len(s)
    BY <1>1, <1>3, <1>6, SMT
  <2>2. t[i - Len(s)] < t[j - Len(s)] BY <2>1 DEF Rising
  <2>3. ~ (i <= Len(s)) /\ ~ (j <= Len(s)) BY <1>1, <1>3, <1>6, SMT
  <2>4. QED BY <1>4, <2>2, <2>3
<1>7. CASE i <= Len(s) /\ j > Len(s)
  <2>1. i \in 1..Len(s) /\ j - Len(s) \in 1..Len(t) BY <1>1, <1>3, <1>7, SMT
  <2>2. s[i] <= m /\ m < t[j - Len(s)] BY <2>1
  <2>3. s[i] \in Nat /\ t[j - Len(s)] \in Nat BY <2>1, ElementOfSeq
  <2>4. ~ (j <= Len(s)) BY <1>1, <1>3, <1>7, SMT
  <2>5. s[i] < t[j - Len(s)] BY <2>2, <2>3, SMT
  <2>6. QED BY <1>4, <1>7, <2>4, <2>5
<1>8. QED BY <1>1, <1>3, <1>5, <1>6, <1>7, SMT

LEMMA BoundConcat ==
    ASSUME NEW s \in Seq(Nat), NEW t \in Seq(Nat), NEW m \in Nat, NEW l \in Nat, m <= l,
           \A i \in 1..Len(s) : s[i] <= m, \A i \in 1..Len(t) : t[i] <= l
    PROVE  \A i \in 1..Len(s \o t) : (s \o t)[i] <= l
<1>1. Len(s) \in Nat /\ Len(t) \in Nat BY LenProperties
<1>2. Len(s \o t) = Len(s) + Len(t) BY ConcatProperties
<1>3. TAKE i \in 1..Len(s \o t)
<1>4. (s \o t)[i] = IF i <= Len(s) THEN s[i] ELSE t[i - Len(s)] BY <1>2, ConcatProperties
<1>5. CASE i <= Len(s)
  <2>1. i \in 1..Len(s) BY <1>1, <1>2, <1>5, SMT
  <2>2. s[i] \in Nat /\ s[i] <= m BY <2>1, ElementOfSeq
  <2>3. QED BY <1>4, <1>5, <2>2, SMT
<1>6. CASE i > Len(s)
  <2>1. i - Len(s) \in 1..Len(t) /\ ~ (i <= Len(s)) BY <1>1, <1>2, <1>6, SMT
  <2>2. QED BY <1>4, <2>1
<1>7. QED BY <1>1, <1>2, <1>5, <1>6, SMT

\* What the client reads goes from one end of the stream to the other.
LEMMA ReadKeeps ==
    ASSUME NEW s \in Seq(Nat), NEW t \in Seq(Nat), t # << >>
    PROVE  /\ Append(s, Head(t)) \in Seq(Nat) /\ Tail(t) \in Seq(Nat)
           /\ Append(s, Head(t)) \o Tail(t) = s \o t
<1>1. Head(t) \in Nat /\ Tail(t) \in Seq(Nat) BY HeadTailProperties
<1>2. << Head(t) >> \in Seq(Nat) BY <1>1
<1>3. Append(s, Head(t)) = s \o << Head(t) >> BY <1>1, AppendIsConcat
<1>4. t = << Head(t) >> \o Tail(t)
  <2>1. Len(t) \in Nat /\ Len(t) # 0 BY LenProperties, EmptySeq, SMT
  <2>2. 1 \in 1..Len(t) /\ Len(t) \in 1..Len(t) /\ Len(t) >= 1 BY <2>1, SMT
  <2>3. SubSeq(t, 1, Len(t)) = << t[1] >> \o SubSeq(t, 2, Len(t))
    BY <2>2, SubSeqRecursiveFirst, SMT
  <2>4. SubSeq(t, 1, Len(t)) = t BY SubSeqFull
  <2>5. Tail(t) = SubSeq(t, 2, Len(t)) BY TailIsSubSeq
  <2>6. Head(t) = t[1] BY SMT
  <2>7. QED BY <2>3, <2>4, <2>5, <2>6
<1>5. (s \o << Head(t) >>) \o Tail(t) = s \o (<< Head(t) >> \o Tail(t))
  BY <1>1, <1>2, ConcatAssociative
<1>6. Append(s, Head(t)) \in Seq(Nat) BY <1>1, AppendProperties
<1>7. QED BY <1>1, <1>3, <1>4, <1>5, <1>6

LEMMA ConcatRegroups ==
    ASSUME NEW s \in Seq(Nat), NEW t \in Seq(Nat), NEW u \in Seq(Nat)
    PROVE  s \o (t \o u) = (s \o t) \o u
  BY ConcatAssociative

\* An element of a concatenation, as a set.
LEMMA ConcatToSet ==
    ASSUME NEW s \in Seq(Nat), NEW t \in Seq(Nat)
    PROVE  ToSet(s \o t) = ToSet(s) \cup ToSet(t)
<1>1. Range(s \o t) = Range(s) \cup Range(t) BY RangeConcatenation
<1>2. QED BY <1>1 DEF Range, ToSet

-----------------------------------------------------------------------------
(* One stream: what its route r, what is under way p and what the client   *)
(* has read q have to do with each other.                                  *)

Route == [pc : {"closed", "reading", "replaying", "finding", "live"},
          last : Nat, snap : SUBSET Nat, base : Nat, from : Nat]

EndOf(q) == IF q = << >> THEN 0 ELSE Last(q)

\* A stream that has not replayed yet starts at the client's cursor, with an
\* empty pipe; then nothing written lies above the route's last event, and all
\* that the query found is on its way or read.
Fits(r, p, q) ==
    /\ r.pc \in {"closed", "reading", "replaying"} => p = << >>
    /\ r.pc \in {"reading", "replaying"} => r.last = EndOf(q) /\ r.from = r.last
    /\ r.pc = "replaying" => r.snap = {e \in 1..r.base : e > r.last}
    /\ r.pc \in {"finding", "live"} =>
          /\ \A i \in 1..Len(q \o p) : (q \o p)[i] <= r.last
          /\ \A e \in 1..r.base : r.from < e => e \in ToSet(q) \cup ToSet(p)
    /\ Rising(q \o p)

\* The cursor is the highest event the client has read.
LEMMA EndIsHighest ==
    ASSUME NEW q \in Seq(Nat), Rising(q)
    PROVE  EndOf(q) \in Nat /\ \A i \in 1..Len(q) : q[i] <= EndOf(q)
<1>1. Len(q) \in Nat /\ (q # << >> => Len(q) # 0) /\ (q = << >> => Len(q) = 0)
  BY LenProperties, EmptySeq, SMT
<1>2. CASE q = << >> BY <1>1, <1>2, SMT DEF EndOf
<1>3. CASE q # << >>
  <2>1. Len(q) \in 1..Len(q) BY <1>1, <1>3, SMT
  <2>2. EndOf(q) = q[Len(q)] /\ q[Len(q)] \in Nat BY <1>3, <2>1, ElementOfSeq DEF EndOf, Last
  <2>3. ASSUME NEW i \in 1..Len(q) PROVE q[i] <= q[Len(q)]
    <3>1. q[i] \in Nat BY ElementOfSeq
    <3>2. CASE i = Len(q) BY <3>1, <3>2, SMT
    <3>3. CASE i < Len(q) BY <3>1, <3>3, <2>1, <2>2, SMT DEF Rising
    <3>4. QED BY <3>2, <3>3, <1>1, SMT
  <2>4. QED BY <2>2, <2>3
<1>4. QED BY <1>2, <1>3

LEMMA ClosedFits ==
    ASSUME NEW p \in Seq(Nat), NEW q \in Seq(Nat), Rising(q \o p)
    PROVE  Fits(Closed, << >>, q)
<1>1. Rising(q \o << >>) BY RisingPrefix
<1>2. QED BY <1>1 DEF Fits, Closed

LEMMA ConnectFits ==
    ASSUME NEW p \in Seq(Nat), NEW q \in Seq(Nat), NEW r \in Route,
           Fits(r, p, q), r.pc = "closed"
    PROVE  Fits([Closed EXCEPT !.pc = "reading", !.last = EndOf(q), !.from = EndOf(q)], p, q)
  BY DEF Fits, Closed

LEMMA ReadLogFits ==
    ASSUME NEW p \in Seq(Nat), NEW q \in Seq(Nat), NEW r \in Route, NEW n \in Nat,
           Fits(r, p, q), r.pc = "reading"
    PROVE  Fits([r EXCEPT !.pc = "replaying", !.base = n, !.snap = {e \in 1..n : e > r.last}], p, q)
  BY DEF Fits, Route

\* What a replay writes, given what the service holds in memory, and the last
\* event it leaves the route with.
Found(r, M) == r.snap \cup {e \in M : e > r.last}
LastFound(r, M) == IF Found(r, M) = {} THEN r.last ELSE MaxOf(Found(r, M))

Replayed(r, M) == [r EXCEPT !.pc = "finding", !.snap = {}, !.last = LastFound(r, M)]

LEMMA ReplayFits ==
    ASSUME NEW p \in Seq(Nat), NEW q \in Seq(Nat), NEW r \in Route,
           NEW n \in Nat, NEW M, M \subseteq 1..n,
           Fits(r, p, q), r.pc = "replaying"
    PROVE  /\ p \o Ascending(Found(r, M)) \in Seq(Nat) /\ Replayed(r, M) \in Route
           /\ Fits(Replayed(r, M), p \o Ascending(Found(r, M)), q)
<1> DEFINE S == Found(r, M)
           l == LastFound(r, M)
           t == Ascending(S)
<1>0. S = r.snap \cup {e \in M : e > r.last} /\ l = IF S = {} THEN r.last ELSE MaxOf(S)
  BY DEF Found, LastFound
<1> HIDE DEF S, l
<1>1. /\ p = << >> /\ r.last = EndOf(q) /\ r.from = r.last
      /\ r.snap = {e \in 1..r.base : e > r.last} /\ Rising(q \o p)
  BY DEF Fits
<1>2. r.last \in Nat /\ r.base \in Nat BY DEF Route
<1>3. Rising(q) BY <1>1, ConcatEmptySeq
<1>4. S \subseteq Nat /\ IsFiniteSet(S) /\ \A e \in S : r.last < e
  <2>1. IsFiniteSet(1..r.base) /\ IsFiniteSet(1..n)
    <3>1. 1 \in Int /\ r.base \in Int /\ n \in Int BY <1>2
    <3>2. QED BY <3>1, FS_Interval
  <2>2. r.snap \in SUBSET (1..r.base) /\ {e \in M : e > r.last} \in SUBSET (1..n) BY <1>1
  <2>3. IsFiniteSet(r.snap) /\ IsFiniteSet({e \in M : e > r.last})
    BY <2>1, <2>2, FS_Subset
  <2>4. IsFiniteSet(S) BY <1>0, <2>3, FS_Union
  <2>5. ASSUME NEW e \in S PROVE e \in Nat /\ r.last < e
    <3>1. e \in 1..r.base \/ e \in 1..n BY <1>0, <1>1
    <3>2. e \in Nat BY <3>1, <1>2, SMT
    <3>3. e > r.last BY <1>0, <1>1
    <3>4. QED BY <3>2, <3>3, <1>2, SMT
  <2>6. QED BY <2>4, <2>5
<1>5. /\ t \in Seq(S) /\ t \in Seq(Nat) /\ Rising(t)
      /\ \A e \in S : \E i \in 1..Len(t) : t[i] = e
      /\ \A i \in 1..Len(t) : t[i] \in S
  <2>1. t \in Seq(S) /\ Rising(t) /\ \A e \in S : \E i \in 1..Len(t) : t[i] = e
    BY <1>4, AscendingSorts
  <2> HIDE DEF t
  <2>2. QED BY <2>1, <1>4, SeqMonotonic, ElementOfSeq
<1> HIDE DEF t
<1>6. p \o t = t BY <1>1, <1>5, ConcatEmptySeq
<1>7. l \in Nat /\ r.last <= l /\ \A e \in S : e <= l
  <2>1. CASE S = {} BY <2>1, <1>0, <1>2, SMT
  <2>2. CASE S # {}
    <3>1. PICK m \in Nat : S \subseteq 1..m
      <4>1. S \subseteq 1..(IF n < r.base THEN r.base ELSE n) BY <1>0, <1>1, <1>2, <1>4, SMT
      <4>2. QED BY <4>1, <1>2
    <3>2. MaxOf(S) \in S /\ \A d \in S : d <= MaxOf(S) BY <2>2, <3>1, LargestOf
    <3>3. l = MaxOf(S) BY <1>0, <2>2
    <3>4. l \in Nat /\ r.last < l BY <3>2, <3>3, <1>4
    <3>5. r.last <= l BY <3>4, <1>2, SMT
    <3>6. QED BY <3>2, <3>3, <3>4, <3>5
  <2>3. QED BY <2>1, <2>2
<1>8. \A i \in 1..Len(q) : q[i] <= r.last BY <1>1, <1>3, EndIsHighest
<1>9. Rising(q \o t) BY <1>2, <1>3, <1>4, <1>5, <1>8, RisingConcat
<1>10. \A i \in 1..Len(q \o t) : (q \o t)[i] <= l
  BY <1>2, <1>5, <1>7, <1>8, BoundConcat
<1>11. \A e \in 1..r.base : r.from < e => e \in ToSet(t)
  <2>1. TAKE e \in 1..r.base
  <2>2. HAVE r.from < e
  <2>3. e \in S BY <1>0, <1>1, <1>2, <2>2, SMT
  <2>4. DOMAIN t = 1..Len(t) BY <1>5, LenProperties
  <2>5. QED BY <1>5, <2>3, <2>4 DEF ToSet
<1> DEFINE u == Replayed(r, M)
<1>12. u.pc = "finding" /\ u.last = l /\ u.base = r.base /\ u.from = r.from
       /\ u \in Route
  BY <1>7 DEF Route, Replayed, l
<1> HIDE DEF u
<1>13. Fits(u, t, q) BY <1>9, <1>10, <1>11, <1>12 DEF Fits
<1>14. QED BY <1>5, <1>6, <1>12, <1>13 DEF t, u, S

LEMMA SubscribeFits ==
    ASSUME NEW p \in Seq(Nat), NEW q \in Seq(Nat), NEW r \in Route,
           Fits(r, p, q), r.pc = "finding"
    PROVE  Fits([r EXCEPT !.pc = "live"], p, q)
  BY DEF Fits, Route

LEMMA ReadFits ==
    ASSUME NEW p \in Seq(Nat), NEW q \in Seq(Nat), NEW r \in Route,
           Fits(r, p, q), p # << >>
    PROVE  Fits(r, Tail(p), Append(q, Head(p)))
<1>1. /\ Append(q, Head(p)) \in Seq(Nat) /\ Tail(p) \in Seq(Nat)
      /\ Append(q, Head(p)) \o Tail(p) = q \o p
  BY ReadKeeps
<1>2. ToSet(Append(q, Head(p))) \cup ToSet(Tail(p)) = ToSet(q) \cup ToSet(p)
  BY <1>1, ConcatToSet
<1>3. r.pc \in {"finding", "live"} BY DEF Fits, Route
<1>4. QED BY <1>1, <1>2, <1>3 DEF Fits

LEMMA PublishFits ==
    ASSUME NEW p \in Seq(Nat), NEW q \in Seq(Nat), NEW r \in Route, NEW e \in Nat,
           Fits(r, p, q), r.pc = "live", e > r.last
    PROVE  Fits([r EXCEPT !.last = e], Append(p, e), q)
<1>1. r.last \in Nat BY DEF Route
<1>2. /\ \A i \in 1..Len(q \o p) : (q \o p)[i] <= r.last
      /\ \A d \in 1..r.base : r.from < d => d \in ToSet(q) \cup ToSet(p)
      /\ Rising(q \o p)
  BY DEF Fits
<1> DEFINE t == << e >>
<1>3. t \in Seq(Nat) /\ Len(t) = 1 /\ t[1] = e BY SMT
<1>4. Append(p, e) = p \o t BY AppendIsConcat
<1> HIDE DEF t
<1>5. q \o p \in Seq(Nat) /\ p \o t \in Seq(Nat) BY <1>3, ConcatProperties
<1>6. q \o (p \o t) = (q \o p) \o t BY <1>3, ConcatRegroups
<1>7. Rising(t) BY <1>3, SMT DEF Rising
<1>8. \A i \in 1..Len(t) : r.last < t[i] /\ t[i] <= e BY <1>1, <1>3, SMT
<1>9. Rising((q \o p) \o t) BY <1>1, <1>2, <1>3, <1>5, <1>7, <1>8, RisingConcat
<1>10. \A i \in 1..Len((q \o p) \o t) : ((q \o p) \o t)[i] <= e
  <2>1. r.last <= e BY <1>1, SMT
  <2>2. QED BY <1>1, <1>2, <1>3, <1>5, <1>8, <2>1, BoundConcat
<1>11. ToSet(p) \subseteq ToSet(p \o t) BY <1>3, ConcatToSet
<1> DEFINE u == [r EXCEPT !.last = e]
<1>12. u.pc = "live" /\ u.last = e /\ u.base = r.base /\ u.from = r.from BY DEF Route
<1> HIDE DEF u
<1>13. Fits(u, p \o t, q) BY <1>2, <1>6, <1>9, <1>10, <1>11, <1>12 DEF Fits
<1>14. QED BY <1>4, <1>13 DEF u

-----------------------------------------------------------------------------
(* The inductive invariant *)

Writing == [pc : {"idle", "latest", "publish"}, event : Nat]

\* A handler publishes an event of the log; one that will ask for the latest
\* event of its run has stored one.
WritersTyped ==
    /\ writer \in [Writers -> Writing]
    /\ \A w \in Writers :
          /\ writer[w].pc = "publish" => writer[w].event \in Events
          /\ writer[w].pc = "latest" =>
                writer[w].event \in Events /\ log[writer[w].event] = RunOf[w]

StreamTyped ==
    /\ log \in Seq({RunOf[w] : w \in Writers})
    /\ memory \subseteq Events
    /\ route \in [Clients -> Route]
    /\ pipe \in [Clients -> Seq(Nat)]
    /\ received \in [Clients -> Seq(Nat)]

StreamInv ==
    /\ StreamTyped
    /\ WritersTyped
    /\ \A c \in Clients : Fits(route[c], pipe[c], received[c])

LEMMA ClosedTyped == Closed \in Route
  BY DEF Closed, Route

LEMMA EmptyPipe == << >> \in Seq(Nat)
  BY EmptySeq

LEMMA StreamInit == Init => StreamInv
<1> SUFFICES ASSUME Init PROVE StreamInv
  OBVIOUS
<1>1. log \in Seq({RunOf[w] : w \in Writers}) BY EmptySeq DEF Init
<1>2. StreamTyped BY <1>1, ClosedTyped, EmptyPipe DEF Init, StreamTyped
<1>3. WritersTyped BY DEF Init, WritersTyped, Writing, Idle
<1>4. Rising(<< >> \o << >>)
  <2>1. << >> \o << >> = << >> BY EmptyPipe, ConcatEmptySeq
  <2>2. Len(<< >>) = 0 BY EmptySeq
  <2>3. QED BY <2>1, <2>2, SMT DEF Rising
<1>5. Fits(Closed, << >>, << >>) BY <1>4, EmptyPipe, ClosedFits
<1>6. QED BY <1>2, <1>3, <1>5 DEF Init, StreamInv

\* A step that leaves the streams alone only has to keep the log's types.
LEMMA StreamsAlone ==
    ASSUME StreamInv, UNCHANGED <<route, pipe, received>>
    PROVE  \A c \in Clients : Fits(route[c], pipe[c], received[c])'
  BY DEF StreamInv

LEMMA AppendStep ==
    ASSUME StreamInv, NEW w \in Writers, NEW own \in BOOLEAN, AppendEvent(w, own)
    PROVE  StreamInv'
<1> DEFINE Runs == {RunOf[v] : v \in Writers}
<1>1. log \in Seq(Runs) /\ RunOf[w] \in Runs BY DEF StreamInv, StreamTyped
<1> HIDE DEF Runs
<1>2. /\ log' \in Seq(Runs) /\ Len(log) \in Nat /\ Len(log') = Len(log) + 1
      /\ \A i \in 1..Len(log) : log'[i] = log[i]
      /\ log'[Len(log) + 1] = RunOf[w]
  BY <1>1, AppendProperties, LenProperties DEF AppendEvent
<1>3. Events \subseteq Events' /\ Len(log) + 1 \in Events' BY <1>2, SMT DEF Events
<1>4. StreamTyped' BY <1>2, <1>3 DEF AppendEvent, StreamInv, StreamTyped, Runs
<1>5. WritersTyped'
  <2>1. \A e \in Events : log'[e] = log[e] BY <1>2 DEF Events
  <2>2. ASSUME NEW v \in Writers, v # w
        PROVE  /\ writer'[v].pc = "publish" => writer'[v].event \in Events'
               /\ writer'[v].pc = "latest" =>
                     writer'[v].event \in Events' /\ log'[writer'[v].event] = RunOf[v]
    <3>1. writer'[v] = writer[v] BY <2>2 DEF AppendEvent, StreamInv, WritersTyped
    <3>2. QED BY <3>1, <2>1, <1>3 DEF StreamInv, WritersTyped
  <2>3. /\ writer'[w].pc \in {"publish", "latest"} /\ writer'[w].event = Len(log) + 1
        /\ writer'[w] \in Writing
    BY <1>2 DEF AppendEvent, StreamInv, WritersTyped, Writing
  <2>4. writer' \in [Writers -> Writing]
    BY <1>2 DEF AppendEvent, StreamInv, WritersTyped, Writing
  <2>5. /\ writer'[w].event \in Events'
        /\ log'[writer'[w].event] = RunOf[w]
    BY <1>2, <1>3, <2>3
  <2>6. QED BY <2>2, <2>4, <2>5 DEF WritersTyped
<1>6. QED BY <1>4, <1>5, StreamsAlone DEF AppendEvent, StreamInv

LEMMA ReadLatestStep ==
    ASSUME StreamInv, NEW w \in Writers, ReadLatest(w)
    PROVE  StreamInv'
<1> DEFINE S == {e \in Events : log[e] = RunOf[w]}
<1>1. Len(log) \in Nat BY LenProperties DEF StreamInv, StreamTyped
<1>2. S \subseteq 1..Len(log) /\ S # {} BY DEF ReadLatest, StreamInv, WritersTyped, Events
<1> HIDE DEF S
<1>3. MaxOf(S) \in S BY <1>1, <1>2, LargestOf
<1>4. MaxOf(S) \in Events /\ MaxOf(S) \in Nat
  <2>1. MaxOf(S) \in 1..Len(log) BY <1>2, <1>3
  <2>2. QED BY <2>1, <1>1 DEF Events
<1>5. StreamTyped' /\ UNCHANGED Events BY DEF ReadLatest, StreamInv, StreamTyped, Events
<1>6. WritersTyped'
  <2>1. /\ writer' = [writer EXCEPT ![w] = [pc |-> "publish", event |-> MaxOf(S)]]
        /\ UNCHANGED log
    BY DEF ReadLatest, S
  <2>2. QED BY <1>4, <1>5, <2>1 DEF StreamInv, WritersTyped, Writing
<1>7. QED BY <1>5, <1>6, StreamsAlone DEF ReadLatest, StreamInv

LEMMA PublishStep ==
    ASSUME StreamInv, NEW w \in Writers, Publish(w)
    PROVE  StreamInv'
<1> DEFINE e == writer[w].event
           hears(c) == e \notin memory /\ route[c].pc = "live" /\ e > route[c].last
<1>1. Len(log) \in Nat BY LenProperties DEF StreamInv, StreamTyped
<1>2. e \in Events /\ e \in Nat BY <1>1 DEF Publish, StreamInv, WritersTyped, Events
<1>3. /\ memory' = memory \cup {e}
      /\ writer' = [writer EXCEPT ![w] = Idle]
      /\ UNCHANGED <<log, received>>
  BY DEF Publish
<1>4. /\ route' = [c \in Clients |->
                      IF hears(c) THEN [route[c] EXCEPT !.last = e] ELSE route[c]]
      /\ pipe' = [c \in Clients |-> IF hears(c) THEN Append(pipe[c], e) ELSE pipe[c]]
  <2>1. CASE e \in memory
    <3>1. UNCHANGED <<route, pipe>> BY <2>1 DEF Publish
    <3>2. \A c \in Clients : ~ hears(c) BY <2>1
    <3>3. route = [c \in Clients |-> route[c]] /\ pipe = [c \in Clients |-> pipe[c]]
      BY DEF StreamInv, StreamTyped
    <3> HIDE DEF hears
    <3>4. QED BY <3>1, <3>2, <3>3
  <2>2. CASE e \notin memory BY <2>2 DEF Publish, Deliver
  <2>3. QED BY <2>1, <2>2
<1> HIDE DEF e
<1>5. ASSUME NEW c \in Clients
      PROVE  /\ pipe'[c] \in Seq(Nat) /\ route'[c] \in Route
             /\ Fits(route'[c], pipe'[c], received'[c])
  <2>1. /\ pipe[c] \in Seq(Nat) /\ received[c] \in Seq(Nat) /\ route[c] \in Route
        /\ Fits(route[c], pipe[c], received[c])
    BY DEF StreamInv, StreamTyped
  <2>2. CASE hears(c)
    <3>1. /\ route'[c] = [route[c] EXCEPT !.last = e] /\ pipe'[c] = Append(pipe[c], e)
          /\ received'[c] = received[c]
      BY <1>3, <1>4, <2>2
    <3>2. pipe'[c] \in Seq(Nat) BY <3>1, <2>1, <1>2, AppendProperties
    <3>3. route'[c] \in Route BY <3>1, <2>1, <1>2 DEF Route
    <3>4. Fits(route'[c], pipe'[c], received'[c]) BY <3>1, <2>1, <2>2, <1>2, PublishFits
    <3>5. QED BY <3>2, <3>3, <3>4
  <2>3. CASE ~ hears(c) BY <1>3, <1>4, <2>1, <2>3
  <2>4. QED BY <2>2, <2>3
<1>6. StreamTyped'
  <2>1. pipe' \in [Clients -> Seq(Nat)] /\ route' \in [Clients -> Route]
    <3>1. DOMAIN pipe' = Clients /\ DOMAIN route' = Clients BY <1>4
    <3>2. pipe' = [c \in Clients |-> pipe'[c]] /\ route' = [c \in Clients |-> route'[c]]
      BY <1>4
    <3>3. QED BY <1>5, <3>1, <3>2
  <2>2. QED BY <1>2, <1>3, <2>1 DEF StreamInv, StreamTyped, Events
<1>7. WritersTyped' BY <1>3 DEF StreamInv, WritersTyped, Writing, Idle, Events
<1>8. QED BY <1>5, <1>6, <1>7 DEF StreamInv

LEMMA AnswerStep ==
    ASSUME StreamInv, NEW w \in Writers, Answer(w)
    PROVE  StreamInv'
<1>1. StreamTyped' /\ UNCHANGED Events BY DEF Answer, StreamInv, StreamTyped, Events
<1>2. WritersTyped' BY <1>1 DEF Answer, StreamInv, WritersTyped, Writing, Idle
<1>3. QED BY <1>1, <1>2, StreamsAlone DEF Answer, StreamInv

LEMMA TurnStep ==
    ASSUME StreamInv, NEW w \in Turns,
           EndTurn(w) \/ \E how \in {"live", "direct"} : BeginTurn(w, how)
    PROVE  StreamInv'
<1>1. UNCHANGED <<log, memory, writer, route, pipe, received>>
  BY DEF EndTurn, BeginTurn
<1>2. StreamTyped' /\ WritersTyped'
  BY <1>1 DEF StreamInv, StreamTyped, WritersTyped, Events
<1>3. QED BY <1>1, <1>2, StreamsAlone DEF StreamInv

\* A step on the stream of one client.
OneStream(c, r, p, q) ==
    /\ route' = [route EXCEPT ![c] = r]
    /\ pipe' = [pipe EXCEPT ![c] = p]
    /\ received' = [received EXCEPT ![c] = q]
    /\ UNCHANGED serverVars

LEMMA OneStreamStep ==
    ASSUME StreamInv, NEW c \in Clients, NEW r \in Route, NEW p \in Seq(Nat),
           NEW q \in Seq(Nat), Fits(r, p, q), OneStream(c, r, p, q)
    PROVE  StreamInv'
<1>1. StreamTyped' /\ WritersTyped'
  BY DEF StreamInv, StreamTyped, WritersTyped, OneStream, serverVars, Events
<1>2. \A d \in Clients : Fits(route'[d], pipe'[d], received'[d])
  <2>1. TAKE d \in Clients
  <2>2. CASE d = c BY <2>2 DEF OneStream, StreamInv, StreamTyped
  <2>3. CASE d # c
    <3>1. route'[d] = route[d] /\ pipe'[d] = pipe[d] /\ received'[d] = received[d]
      BY <2>3 DEF OneStream, StreamInv, StreamTyped
    <3>2. QED BY <3>1 DEF StreamInv
  <2>4. QED BY <2>2, <2>3
<1>3. QED BY <1>1, <1>2 DEF StreamInv

LEMMA ClientStep ==
    ASSUME StreamInv, NEW c \in Clients,
           Connect(c) \/ Serve(c) \/ Read(c) \/ Disconnect(c)
    PROVE  StreamInv'
<1> DEFINE r == route[c]
           p == pipe[c]
           q == received[c]
<1>1. /\ r \in Route /\ p \in Seq(Nat) /\ q \in Seq(Nat) /\ Fits(r, p, q)
      /\ pipe = [pipe EXCEPT ![c] = p] /\ received = [received EXCEPT ![c] = q]
      /\ route = [route EXCEPT ![c] = r]
  BY DEF StreamInv, StreamTyped
<1>2. Rising(q \o p) BY <1>1 DEF Fits
<1>3. Rising(q) BY <1>1, <1>2, RisingPrefix
<1>4. Len(log) \in Nat BY LenProperties DEF StreamInv, StreamTyped
<1>5. CASE Connect(c)
  <2> DEFINE u == [Closed EXCEPT !.pc = "reading", !.last = EndOf(q), !.from = EndOf(q)]
  <2>1. EndOf(q) \in Nat BY <1>1, <1>3, EndIsHighest
  <2>2. u \in Route BY <2>1 DEF Route, Closed
  <2>3. Fits(u, p, q) BY <1>1, <1>5, ConnectFits DEF Connect
  <2>4. OneStream(c, u, p, q)
    BY <1>1, <1>5 DEF Connect, OneStream, Cursor, EndOf, serverVars
  <2>5. QED BY <1>1, <2>2, <2>3, <2>4, OneStreamStep
<1>6. CASE ReadLog(c)
  <2> DEFINE u == [r EXCEPT !.pc = "replaying", !.base = Len(log),
                            !.snap = {e \in 1..Len(log) : e > r.last}]
  <2>1. u \in Route
    <3>1. {e \in 1..Len(log) : e > r.last} \in SUBSET Nat BY <1>4, SMT
    <3>2. QED BY <3>1, <1>1, <1>4 DEF Route
  <2>2. Fits(u, p, q) BY <1>1, <1>4, <1>6, ReadLogFits DEF ReadLog
  <2>3. OneStream(c, u, p, q)
    <3>1. route' = [route EXCEPT ![c] = u]
      BY <1>1, <1>6 DEF ReadLog, Events, StreamInv, StreamTyped, Route
    <3>2. QED BY <3>1, <1>1, <1>6 DEF ReadLog, OneStream
  <2>4. QED BY <1>1, <2>1, <2>2, <2>3, OneStreamStep
<1>7. CASE Replay(c)
  <2> DEFINE u == Replayed(r, memory)
             t == p \o Ascending(Found(r, memory))
  <2>1. memory \subseteq 1..Len(log) BY DEF StreamInv, StreamTyped, Events
  <2>2. r.pc = "replaying" BY <1>7 DEF Replay
  <2>3. t \in Seq(Nat) /\ u \in Route /\ Fits(u, t, q)
    <3> HIDE DEF p, q, r
    <3>1. QED BY <1>1, <1>4, <2>1, <2>2, ReplayFits
  <2>4. OneStream(c, u, t, q)
    <3>1. route' = [route EXCEPT ![c] = u]
      BY <1>1, <1>7 DEF Replay, StreamInv, StreamTyped, Route, Replayed, LastFound, Found
    <3>2. pipe' = [pipe EXCEPT ![c] = t] BY <1>1, <1>7 DEF Replay, Found
    <3>3. QED BY <3>1, <3>2, <1>1, <1>7 DEF Replay, OneStream
  <2> HIDE DEF u, t
  <2>5. QED BY <1>1, <2>3, <2>4, OneStreamStep
<1>8. CASE Subscribe(c)
  <2> DEFINE u == [r EXCEPT !.pc = "live"]
  <2>1. u \in Route BY <1>1 DEF Route
  <2>2. Fits(u, p, q) BY <1>1, <1>8, SubscribeFits DEF Subscribe
  <2>3. OneStream(c, u, p, q)
    <3>1. route' = [route EXCEPT ![c] = u]
      BY <1>1, <1>8 DEF Subscribe, StreamInv, StreamTyped, Route
    <3>2. QED BY <3>1, <1>1, <1>8 DEF Subscribe, OneStream
  <2>4. QED BY <1>1, <2>1, <2>2, <2>3, OneStreamStep
<1>9. CASE Read(c)
  <2>1. p # << >> BY <1>9 DEF Read
  <2>2. Append(q, Head(p)) \in Seq(Nat) /\ Tail(p) \in Seq(Nat) BY <1>1, <2>1, ReadKeeps
  <2>3. Fits(r, Tail(p), Append(q, Head(p))) BY <1>1, <2>1, ReadFits
  <2>4. OneStream(c, r, Tail(p), Append(q, Head(p)))
    <3>1. /\ pipe' = [pipe EXCEPT ![c] = Tail(p)]
          /\ received' = [received EXCEPT ![c] = Append(q, Head(p))]
      BY <1>9 DEF Read
    <3>2. QED BY <3>1, <1>1, <1>9 DEF Read, OneStream
  <2>5. QED BY <1>1, <2>2, <2>3, <2>4, OneStreamStep
<1>10. CASE Disconnect(c)
  <2>1. Fits(Closed, << >>, q) BY <1>1, <1>2, ClosedFits
  <2>2. OneStream(c, Closed, << >>, q) BY <1>1, <1>10 DEF Disconnect, OneStream
  <2>3. QED BY <1>1, <2>1, <2>2, ClosedTyped, EmptyPipe, OneStreamStep
<1>11. QED BY <1>5, <1>6, <1>7, <1>8, <1>9, <1>10 DEF Serve

LEMMA RestartStep ==
    ASSUME StreamInv, Restart
    PROVE  StreamInv'
<1>1. StreamTyped' BY ClosedTyped, EmptyPipe DEF StreamInv, StreamTyped, Restart, Events
<1>2. WritersTyped' BY DEF Restart, WritersTyped, Writing, Idle
<1>3. ASSUME NEW c \in Clients PROVE Fits(Closed, << >>, received[c])
  BY ClosedFits DEF StreamInv, StreamTyped, Fits
<1>4. QED BY <1>1, <1>2, <1>3 DEF StreamInv, Restart

LEMMA StreamNext == StreamInv /\ [Next]_vars => StreamInv'
<1> SUFFICES ASSUME StreamInv, [Next]_vars PROVE StreamInv'
  OBVIOUS
<1>1. ASSUME NEW w \in Writers, Write(w) \/ \E own \in BOOLEAN : AppendEvent(w, own)
      PROVE  StreamInv'
  BY <1>1, AppendStep, ReadLatestStep, AnswerStep, PublishStep DEF Write
<1>2. CASE UNCHANGED vars
  <2>1. UNCHANGED <<log, memory, writer, route, pipe, received>>
    BY <1>2 DEF vars, serverVars
  <2>2. StreamTyped' /\ WritersTyped'
    BY <2>1 DEF StreamInv, StreamTyped, WritersTyped, Events
  <2>3. QED BY <2>1, <2>2, StreamsAlone DEF StreamInv
<1>3. QED BY <1>1, <1>2, TurnStep, ClientStep, RestartStep DEF Next

-----------------------------------------------------------------------------
(* The streams of the message routes *)

Distinct(s) == \A i, j \in 1..Len(s) : s[i] = s[j] => i = j

\* A subscribed route has written only what the service holds; a direct reply
\* has written only what lies below the event it is about to write.
TurnFits(w) ==
    /\ turn[w] = "none" => sent[w] = << >>
    /\ turn[w] = "live" => \A i \in 1..Len(sent[w]) : sent[w][i] \in memory
    /\ turn[w] = "direct" => \A i \in 1..Len(sent[w]) :
          /\ sent[w][i] <= Len(log)
          /\ writer[w].pc # "idle" => sent[w][i] < writer[w].event
    /\ Distinct(sent[w])

TurnTyped ==
    /\ turn \in [Turns -> {"none", "live", "direct", "ended"}]
    /\ sent \in [Turns -> Seq(Nat)]

TurnInv == TurnTyped /\ \A w \in Turns : TurnFits(w)

LEMMA DistinctAppend ==
    ASSUME NEW s \in Seq(Nat), Distinct(s), NEW e \in Nat,
           \A i \in 1..Len(s) : s[i] # e
    PROVE  /\ Append(s, e) \in Seq(Nat) /\ Distinct(Append(s, e))
           /\ \A i \in 1..Len(Append(s, e)) :
                 (i \in 1..Len(s) /\ Append(s, e)[i] = s[i]) \/ Append(s, e)[i] = e
<1>1. Len(s) \in Nat BY LenProperties
<1>2. /\ Append(s, e) \in Seq(Nat) /\ Len(Append(s, e)) = Len(s) + 1
      /\ \A i \in 1..Len(s) : Append(s, e)[i] = s[i]
      /\ Append(s, e)[Len(s) + 1] = e
  BY AppendProperties
<1>3. \A i \in 1..Len(Append(s, e)) : i \in 1..Len(s) \/ i = Len(s) + 1 BY <1>1, <1>2, SMT
<1> DEFINE t == Append(s, e)
<1> HIDE DEF t
<1>4. Distinct(t) BY <1>2, <1>3, Zenon DEF Distinct, t
<1>5. QED BY <1>2, <1>3, <1>4 DEF t

LEMMA TurnInit == Init => TurnInv
<1> SUFFICES ASSUME Init PROVE TurnInv
  OBVIOUS
<1>1. << >> \in Seq(Nat) /\ Len(<< >>) = 0 BY EmptySeq
<1>2. Distinct(<< >>) BY <1>1, SMT DEF Distinct
<1>3. QED BY <1>1, <1>2 DEF Init, TurnInv, TurnTyped, TurnFits

\* A turn whose route, handler and log are left alone.
TurnsAlone == UNCHANGED <<log, writer, turn, sent>> /\ memory \subseteq memory'

LEMMA TurnsStay == ASSUME TurnInv, TurnsAlone PROVE TurnInv'
<1>1. TurnTyped' BY DEF TurnInv, TurnTyped, TurnsAlone
<1>2. ASSUME NEW w \in Turns PROVE TurnFits(w)'
  BY DEF TurnInv, TurnFits, TurnsAlone, Distinct
<1>3. QED BY <1>1, <1>2 DEF TurnInv

LEMMA TurnAppend ==
    ASSUME StreamInv, TurnInv, NEW w \in Writers, NEW own \in BOOLEAN, AppendEvent(w, own)
    PROVE  TurnInv'
<1>1. Len(log) \in Nat /\ Len(log') = Len(log) + 1
  <2>1. log \in Seq({RunOf[v] : v \in Writers}) BY DEF StreamInv, StreamTyped
  <2>2. RunOf[w] \in {RunOf[v] : v \in Writers} OBVIOUS
  <2> DEFINE R == {RunOf[v] : v \in Writers}
  <2> HIDE DEF R
  <2>3. QED BY <2>1, <2>2, AppendProperties, LenProperties DEF AppendEvent, R
<1>2. UNCHANGED <<memory, turn, sent>> BY DEF AppendEvent, turnVars
<1>3. \A v \in Writers : writer'[v] = writer[v] \/ writer'[v].event = Len(log) + 1
  BY DEF AppendEvent, StreamInv, WritersTyped
<1>4. TurnTyped' BY <1>2 DEF TurnInv, TurnTyped
<1>5. ASSUME NEW v \in Turns PROVE TurnFits(v)'
  <2>1. TurnFits(v) /\ sent[v] \in Seq(Nat) /\ v \in Writers
    BY StreamAssumption DEF TurnInv, TurnTyped
  <2>2. \A i \in 1..Len(sent[v]) : sent[v][i] \in Nat BY <2>1, ElementOfSeq
  <2>3. ASSUME turn[v] = "direct", NEW i \in 1..Len(sent[v])
        PROVE  /\ sent[v][i] <= Len(log')
               /\ writer'[v].pc # "idle" => sent[v][i] < writer'[v].event
    <3>1. sent[v][i] <= Len(log) /\ sent[v][i] < Len(log) + 1 /\ sent[v][i] <= Len(log')
      BY <1>1, <2>1, <2>2, <2>3 DEF TurnFits
    <3>2. QED BY <1>3, <2>1, <2>3, <3>1 DEF TurnFits
  <2>4. QED BY <1>2, <2>1, <2>3 DEF TurnFits, Distinct
<1>6. QED BY <1>4, <1>5 DEF TurnInv

LEMMA TurnReadLatest ==
    ASSUME StreamInv, TurnInv, NEW w \in Writers, ReadLatest(w)
    PROVE  TurnInv'
<1> DEFINE S == {e \in Events : log[e] = RunOf[w]}
<1>1. Len(log) \in Nat BY LenProperties DEF StreamInv, StreamTyped
<1>2. writer[w].event \in S /\ S \subseteq 1..Len(log)
  BY DEF ReadLatest, StreamInv, WritersTyped, Events
<1>3. /\ writer' = [writer EXCEPT ![w] = [pc |-> "publish", event |-> MaxOf(S)]]
      /\ UNCHANGED <<log, memory, turn, sent>>
  BY DEF ReadLatest, turnVars
<1> HIDE DEF S
<1>4. MaxOf(S) \in S /\ writer[w].event <= MaxOf(S) BY <1>1, <1>2, LargestOf
<1>5. MaxOf(S) \in Nat /\ writer[w].event \in Nat /\ writer[w].pc = "latest"
  <2>1. \A d \in 1..Len(log) : d \in Nat BY <1>1
  <2>2. QED BY <1>2, <1>4, <2>1 DEF ReadLatest
<1>6. TurnTyped' BY <1>3 DEF TurnInv, TurnTyped
<1>7. ASSUME NEW v \in Turns PROVE TurnFits(v)'
  <2>1. TurnFits(v) /\ sent[v] \in Seq(Nat) /\ v \in Writers
    BY StreamAssumption DEF TurnInv, TurnTyped
  <2>2. \A i \in 1..Len(sent[v]) : sent[v][i] \in Nat BY <2>1, ElementOfSeq
  <2>3. CASE v # w
    <3>1. writer'[v] = writer[v] BY <1>3, <2>1, <2>3 DEF StreamInv, WritersTyped
    <3>2. QED BY <1>3, <2>1, <3>1 DEF TurnFits, Distinct
  <2>4. CASE v = w
    <3>1. writer'[v].event = MaxOf(S) BY <1>3, <2>1, <2>4 DEF StreamInv, WritersTyped
    <3>2. turn[v] = "direct" => \A i \in 1..Len(sent[v]) : sent[v][i] < MaxOf(S)
      BY <1>4, <1>5, <2>1, <2>2, <2>4 DEF TurnFits
    <3>3. QED BY <1>3, <2>1, <3>1, <3>2 DEF TurnFits, Distinct
  <2>5. QED BY <2>3, <2>4
<1>8. QED BY <1>6, <1>7 DEF TurnInv

LEMMA TurnAnswer ==
    ASSUME StreamInv, TurnInv, NEW w \in Writers, Answer(w)
    PROVE  TurnInv'
<1> DEFINE e == writer[w].event
<1>1. Len(log) \in Nat BY LenProperties DEF StreamInv, StreamTyped
<1>2. e \in Nat /\ e <= Len(log)
  <2>1. e \in 1..Len(log) BY DEF Answer, StreamInv, WritersTyped, Events
  <2>2. QED BY <1>1, <2>1
<1>3. /\ w \in Turns /\ turn[w] = "direct" /\ writer[w].pc = "publish"
      /\ sent' = [sent EXCEPT ![w] = Append(@, e)]
      /\ writer' = [writer EXCEPT ![w] = Idle]
      /\ UNCHANGED <<log, memory, turn>>
  BY DEF Answer, Answering
<1>4. TurnFits(w) /\ sent[w] \in Seq(Nat) BY <1>3 DEF TurnInv, TurnTyped
<1>5. \A i \in 1..Len(sent[w]) : sent[w][i] \in Nat /\ sent[w][i] < e /\ sent[w][i] <= Len(log)
  BY <1>3, <1>4, ElementOfSeq DEF TurnFits
<1> HIDE DEF e
<1>6. /\ Append(sent[w], e) \in Seq(Nat) /\ Distinct(Append(sent[w], e))
      /\ \A i \in 1..Len(Append(sent[w], e)) : Append(sent[w], e)[i] <= Len(log)
  <2>1. \A i \in 1..Len(sent[w]) : sent[w][i] # e BY <1>2, <1>5, SMT
  <2>2. Distinct(sent[w]) BY <1>4 DEF TurnFits
  <2> DEFINE s == Append(sent[w], e)
  <2>3. /\ s \in Seq(Nat) /\ Distinct(s)
        /\ \A i \in 1..Len(s) : (i \in 1..Len(sent[w]) /\ s[i] = sent[w][i]) \/ s[i] = e
    BY <1>2, <1>4, <2>1, <2>2, DistinctAppend
  <2> HIDE DEF s
  <2>4. \A i \in 1..Len(s) : s[i] <= Len(log) BY <1>2, <1>5, <2>3, Zenon
  <2>5. QED BY <2>3, <2>4 DEF s
<1>7. TurnTyped' BY <1>3, <1>6 DEF TurnInv, TurnTyped
<1>8. ASSUME NEW v \in Turns PROVE TurnFits(v)'
  <2>1. TurnFits(v) /\ v \in Writers BY StreamAssumption DEF TurnInv
  <2>2. CASE v = w
    <3>1. sent'[v] = Append(sent[w], e) /\ writer'[v].pc = "idle" /\ turn'[v] = "direct"
      BY <1>3, <2>1, <2>2 DEF TurnInv, TurnTyped, StreamInv, WritersTyped, Idle
    <3>2. UNCHANGED log BY <1>3
    <3> DEFINE s == Append(sent[w], e)
    <3> HIDE DEF s
    <3>3. sent'[v] = s /\ Distinct(s) /\ \A i \in 1..Len(s) : s[i] <= Len(log)
      BY <1>6, <3>1 DEF s
    <3>4. QED BY <3>1, <3>2, <3>3 DEF TurnFits, Distinct
  <2>3. CASE v # w
    <3>1. sent'[v] = sent[v] /\ writer'[v] = writer[v]
      BY <1>3, <2>1, <2>3 DEF TurnInv, TurnTyped, StreamInv, WritersTyped
    <3>2. UNCHANGED <<log, memory, turn>> BY <1>3
    <3>3. QED BY <2>1, <3>1, <3>2 DEF TurnFits, Distinct
  <2>4. QED BY <2>2, <2>3
<1>9. QED BY <1>7, <1>8 DEF TurnInv

\* The check of publishEvent: what is delivered is not held yet, so that no
\* subscribed route has written it.
LEMMA TurnPublish ==
    ASSUME StreamInv, TurnInv, NEW w \in Writers, Publish(w)
    PROVE  TurnInv'
<1> DEFINE e == writer[w].event
           gets(v) == e \notin memory /\ turn[v] = "live" /\ RunOf[v] = log[e]
<1>1. e \in Nat
  BY DEF StreamInv, WritersTyped, Writing
<1>2. /\ ~ Answering(w) /\ memory' = memory \cup {e}
      /\ writer' = [writer EXCEPT ![w] = Idle] /\ UNCHANGED <<log, turn>>
  BY DEF Publish
<1>3. \A v \in Turns : sent'[v] = IF gets(v) THEN Append(sent[v], e) ELSE sent[v]
  BY DEF Publish, Deliver, Listens
<1>4. DOMAIN sent' = Turns /\ sent' = [v \in Turns |-> sent'[v]]
  BY DEF Publish, Deliver, TurnInv, TurnTyped
<1> HIDE DEF e
<1>5. ASSUME NEW v \in Turns PROVE sent'[v] \in Seq(Nat) /\ TurnFits(v)'
  <2>1. TurnFits(v) /\ v \in Writers /\ sent[v] \in Seq(Nat)
    BY StreamAssumption DEF TurnInv, TurnTyped
  <2>2. CASE gets(v)
    <3>1. sent'[v] = Append(sent[v], e) /\ turn'[v] = "live" BY <1>2, <1>3, <2>2
    <3>2. \A i \in 1..Len(sent[v]) : sent[v][i] \in memory /\ sent[v][i] # e
      BY <2>1, <2>2 DEF TurnFits
    <3>3. /\ Append(sent[v], e) \in Seq(Nat) /\ Distinct(Append(sent[v], e))
          /\ \A i \in 1..Len(Append(sent[v], e)) : Append(sent[v], e)[i] \in memory \cup {e}
      BY <1>1, <2>1, <3>2, DistinctAppend DEF TurnFits
    <3>4. QED BY <1>2, <3>1, <3>3 DEF TurnFits
  <2>3. CASE ~ gets(v)
    <3>1. sent'[v] = sent[v] BY <1>3, <2>3
    <3>2. turn[v] = "direct" => writer'[v] = writer[v]
      BY <1>2, <2>1 DEF Answering, StreamInv, WritersTyped
    <3>3. QED BY <1>2, <2>1, <3>1, <3>2 DEF TurnFits, Distinct
  <2>4. QED BY <2>2, <2>3
<1>6. TurnTyped' BY <1>2, <1>4, <1>5 DEF TurnInv, TurnTyped
<1>7. QED BY <1>5, <1>6 DEF TurnInv

LEMMA TurnRoute ==
    ASSUME TurnInv, NEW w \in Turns,
           EndTurn(w) \/ \E how \in {"live", "direct"} : BeginTurn(w, how)
    PROVE  TurnInv'
<1>1. UNCHANGED <<log, memory, writer, sent>> BY DEF EndTurn, BeginTurn
<1>2. /\ turn' \in [Turns -> {"none", "live", "direct", "ended"}]
      /\ \A v \in Turns : \/ turn'[v] = turn[v]
                           \/ turn'[v] = "ended"
                           \/ (turn[v] = "none" /\ turn'[v] \in {"live", "direct"})
  <2>1. CASE EndTurn(w)
    <3>1. turn' = [turn EXCEPT ![w] = "ended"] BY <2>1 DEF EndTurn
    <3>2. QED BY <3>1 DEF TurnInv, TurnTyped
  <2>2. ASSUME NEW how \in {"live", "direct"}, BeginTurn(w, how)
        PROVE  /\ turn' \in [Turns -> {"none", "live", "direct", "ended"}]
               /\ \A v \in Turns : turn'[v] = turn[v] \/ (turn[v] = "none" /\ turn'[v] = how)
    <3>1. turn' = [turn EXCEPT ![w] = how] /\ turn[w] = "none" BY <2>2 DEF BeginTurn
    <3>2. QED BY <3>1 DEF TurnInv, TurnTyped
  <2>3. QED BY <2>1, <2>2
<1>3. ASSUME NEW v \in Turns PROVE TurnFits(v)'
  <2>1. TurnFits(v) BY DEF TurnInv
  <2>2. CASE turn'[v] = turn[v] BY <1>1, <2>1, <2>2 DEF TurnFits, Distinct
  <2>3. CASE turn'[v] = "ended" BY <1>1, <2>1, <2>3 DEF TurnFits, Distinct
  <2>4. CASE turn[v] = "none" /\ turn'[v] \in {"live", "direct"}
    <3>1. sent'[v] = << >> BY <1>1, <2>1, <2>4 DEF TurnFits
    <3>2. \A i \in 1..Len(sent'[v]) : FALSE BY <3>1, EmptySeq, SMT
    <3>3. QED BY <2>4, <3>2 DEF TurnFits, Distinct
  <2>5. QED BY <1>2, <2>2, <2>3, <2>4
<1>4. QED BY <1>1, <1>2, <1>3 DEF TurnInv, TurnTyped

LEMMA TurnRestart == ASSUME TurnInv, Restart PROVE TurnInv'
<1>1. /\ turn' \in [Turns -> {"none", "live", "direct", "ended"}] /\ UNCHANGED sent
      /\ \A v \in Turns : (turn'[v] = "none" /\ turn[v] = "none") \/ turn'[v] = "ended"
  BY DEF Restart, TurnInv, TurnTyped
<1>2. \A v \in Turns : TurnFits(v)' BY <1>1 DEF TurnInv, TurnFits, Distinct
<1>3. QED BY <1>1, <1>2 DEF TurnInv, TurnTyped

LEMMA TurnNext == StreamInv /\ TurnInv /\ [Next]_vars => TurnInv'
<1> SUFFICES ASSUME StreamInv, TurnInv, [Next]_vars PROVE TurnInv'
  OBVIOUS
<1>1. ASSUME NEW w \in Writers, Write(w) \/ \E own \in BOOLEAN : AppendEvent(w, own)
      PROVE  TurnInv'
  BY <1>1, TurnAppend, TurnReadLatest, TurnAnswer, TurnPublish DEF Write
<1>2. ASSUME NEW c \in Clients, Connect(c) \/ Serve(c) \/ Read(c) \/ Disconnect(c)
      PROVE  TurnInv'
  <2>1. TurnsAlone
    BY <1>2 DEF Serve, Connect, ReadLog, Replay, Subscribe, Read, Disconnect,
                TurnsAlone, serverVars, turnVars
  <2>2. QED BY <2>1, TurnsStay
<1>3. CASE UNCHANGED vars
  <2>1. TurnsAlone BY <1>3 DEF vars, serverVars, turnVars, TurnsAlone
  <2>2. QED BY <2>1, TurnsStay
<1>4. QED BY <1>1, <1>2, <1>3, TurnRoute, TurnRestart DEF Next

LEMMA StreamAlways == Spec => [](StreamInv /\ TurnInv)
<1>1. Init => StreamInv /\ TurnInv BY StreamInit, TurnInit
<1>2. StreamInv /\ TurnInv /\ [Next]_vars => (StreamInv /\ TurnInv)'
  BY StreamNext, TurnNext
<1>3. QED BY <1>1, <1>2, PTL DEF Spec

-----------------------------------------------------------------------------
(* Theorems *)

\* The SSE route sends a client no event twice and none out of order, and a
\* message route sends none twice, for any number of handlers that publish in
\* another order than they append, of connections, of turns and of restarts.
THEOREM EventsSentOnce == Spec => []SentOnce
<1>1. StreamInv /\ TurnInv => SentOnce
  BY DEF StreamInv, Fits, Rising, TurnInv, TurnFits, Distinct, SentOnce
<1>2. QED BY <1>1, StreamAlways, PTL

\* Once a route has replayed, all that its query found above the cursor is on
\* its way to the client or has been read.
THEOREM NothingLostBelow == Spec => []ReplayComplete
<1>1. StreamInv => ReplayComplete
  <2> SUFFICES ASSUME StreamInv, NEW c \in Clients, route[c].pc \in {"finding", "live"},
                      NEW e \in Events, route[c].from < e /\ e <= route[c].base
               PROVE  e \in ToSet(received[c]) \cup ToSet(pipe[c])
    BY DEF ReplayComplete
  <2>1. Len(log) \in Nat BY LenProperties DEF StreamInv, StreamTyped
  <2>2. route[c].base \in Nat BY DEF StreamInv, StreamTyped, Route
  <2>3. e \in 1..route[c].base BY <2>1, <2>2, SMT DEF Events
  <2>4. QED BY <2>3 DEF StreamInv, Fits
<1>2. QED BY <1>1, StreamAlways, PTL
=============================================================================
