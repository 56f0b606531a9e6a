-------------------------- MODULE BatchJobs_proofs --------------------------
(***************************************************************************)
(* Machine-checked proofs about BatchJobs, for any rows, any number of     *)
(* batches and any max_size: its invariant, and that it implements         *)
(* JobReport.  The first part shows what topological_sort does: the rounds *)
(* of its loop exist as a function, which a least counterexample proves,   *)
(* and the order and the queue together list different rows, each after    *)
(* its parent.  The second half of the module is about Services.           *)
(***************************************************************************)
EXTENDS BatchJobs, FiniteSetTheorems, SequenceTheorems, WellFoundedInduction, TLAPS

-----------------------------------------------------------------------------
(* topological_sort *)

(* A set of numbers has a least one. *)
LEMMA LeastNumber ==
  ASSUME NEW N, N \subseteq Nat, N # {}
  PROVE  \E n \in N : \A m \in N : n <= m
<1>1. \E n \in N : \A m \in N : <<m, n>> \notin OpToRel(<, Nat)
  BY NatLessThanWellFounded, WFMin
<1>2. ASSUME NEW m \in Nat, NEW n \in Nat, m < n
      PROVE  <<m, n>> \in OpToRel(<, Nat)
  <2> DEFINE p == <<m, n>>
  <2>1. p \in Nat \X Nat /\ p[1] < p[2]
    BY <1>2
  <2> HIDE DEF p
  <2>2. p \in {ss \in Nat \X Nat : ss[1] < ss[2]}
    BY <2>1
  <2> QED  BY <2>2 DEF OpToRel, p
<1> HIDE DEF OpToRel
<1>3. PICK n \in N : \A m \in N : ~ (m < n)
  BY <1>1, <1>2
<1> QED  BY <1>3

(* A round of the loop. *)
First == [queue |-> SetToSeq(Roots), order |-> <<>>]

After(r) ==
  IF r.queue = <<>> THEN r
  ELSE [queue |-> Tail(r.queue) \o SetToSeq(Children(Head(r.queue))),
        order |-> Append(r.order, Head(r.queue))]

IsRounds(f, n) == f = [i \in 0..n |-> IF i = 0 THEN First ELSE After(f[i - 1])]

LEMMA RoundsExist == ASSUME NEW n \in Nat PROVE \E f : IsRounds(f, n)
<1> DEFINE Bad == {i \in Nat : ~\E f : IsRounds(f, i)}
<1> SUFFICES ASSUME Bad # {} PROVE FALSE
  OBVIOUS
<1>1. PICK m \in Bad : \A i \in Bad : m <= i
  BY LeastNumber
<1>2. CASE m = 0
  <2> DEFINE g == [i \in 0..0 |-> First]
  <2>1. IsRounds(g, 0)
    BY DEF IsRounds
  <2> QED
    BY <1>1, <1>2, <2>1
<1>3. CASE m # 0
  <2>1. m - 1 \in Nat /\ m - 1 \notin Bad
    BY <1>1, <1>3
  <2>2. PICK f : IsRounds(f, m - 1)
    BY <2>1
  <2> DEFINE g == [i \in 0..m |-> IF i = m THEN After(f[m - 1]) ELSE f[i]]
  <2>3. \A i \in 0..m : i # m => g[i] = IF i = 0 THEN First ELSE After(g[i - 1])
    BY <2>1, <2>2, <1>3 DEF IsRounds
  <2>4. g[m] = After(g[m - 1])
    BY <2>1
  <2> HIDE DEF g
  <2>5. g = [i \in 0..m |-> g[i]]
    BY DEF g
  <2>6. \A i \in 0..m : g[i] = IF i = 0 THEN First ELSE After(g[i - 1])
    BY <1>3, <2>3, <2>4
  <2>7. IsRounds(g, m)
    BY <2>5, <2>6 DEF IsRounds
  <2> QED
    BY <1>1, <2>7
<1> QED
  BY <1>2, <1>3

LEMMA RoundsAre ==
  ASSUME Cardinality(Item) \in Nat
  PROVE  \E f : IsRounds(f, Cardinality(Item)) /\ Rounds = f[Cardinality(Item)]
<1> DEFINE N == Cardinality(Item)
           F(f) == [n \in 0..N |->
                      IF n = 0 THEN [queue |-> SetToSeq(Roots), order |-> <<>>]
                      ELSE LET r == f[n - 1]
                           IN  IF r.queue = <<>> THEN r
                               ELSE [queue |-> Tail(r.queue) \o SetToSeq(Children(Head(r.queue))),
                                     order |-> Append(r.order, Head(r.queue))]]
           g == CHOOSE f : f = F(f)
<1>1. Rounds = g[N]
  BY DEF Rounds
<1>2. \A f : F(f) = [i \in 0..N |-> IF i = 0 THEN First ELSE After(f[i - 1])]
  BY DEF First, After
<1>3. PICK f : IsRounds(f, N)
  BY RoundsExist
<1>4. f = F(f)
  BY <1>2, <1>3 DEF IsRounds
<1> HIDE DEF F
<1>5. g = F(g)
  BY <1>4
<1>6. IsRounds(g, N)
  BY <1>2, <1>5 DEF IsRounds
<1> QED
  BY <1>1, <1>6

(* The sequence of a set. *)
LEMMA SequenceOfSet ==
  ASSUME NEW S, IsFiniteSet(S)
  PROVE  LET s == SetToSeq(S)
         IN  /\ s \in Seq(S)
             /\ \A i, j \in 1..Len(s) : s[i] = s[j] => i = j
             /\ \A x \in S : \E i \in 1..Len(s) : s[i] = x
<1> DEFINE n == Cardinality(S)
           s == SetToSeq(S)
<1>1. n \in Nat /\ ExistsBijection(1..n, S)
  BY FS_CardinalityType
<1>2. \E f \in [1..n -> S] : IsInjective(f)
  BY <1>1 DEF ExistsBijection, Bijection, Injection
<1>3. s \in [1..n -> S] /\ IsInjective(s)
  BY <1>2 DEF SetToSeq
<1> HIDE DEF s
<1>4. s \in Seq(S) /\ Len(s) = n
  BY <1>1, <1>3
<1>5. s \in Injection(1..n, S)
  BY <1>3 DEF Injection
<1>6. Cardinality(1..n) = n
  BY <1>1, FS_Interval
<1>7. s \in Surjection(1..n, S)
  BY <1>5, <1>6, FS_Injection
<1> QED
  BY <1>3, <1>4, <1>7 DEF IsInjective, Surjection, s

(* The rows in the order in which they come out, those that are still in   *)
(* the queue last: each once, after the row it refers to; none is left out *)
(* that refers to none or to one that is out.                              *)
Line(r) == r.order \o r.queue

InLine(r, x) == \E i \in 1..Len(Line(r)) : Line(r)[i] = x

SoundRound(r, n) ==
  /\ r.queue \in Seq(Item) /\ r.order \in Seq(Item)
  /\ Len(r.order) <= n /\ (r.queue # <<>> => Len(r.order) = n)
  /\ \A i, j \in 1..Len(Line(r)) : Line(r)[i] = Line(r)[j] => i = j
  /\ \A i \in 1..Len(Line(r)) :
       \/ Line(r)[i] \in Roots
       \/ \E j \in 1..Len(r.order) : j < i /\ parent[Line(r)[i]] = r.order[j]
  /\ \A x \in Roots : InLine(r, x)
  /\ \A i \in 1..Len(r.order) : \A x \in Children(r.order[i]) : InLine(r, x)

LEMMA FirstIsSound ==
  ASSUME IsFiniteSet(Item)
  PROVE  SoundRound(First, 0)
<1> DEFINE s == SetToSeq(Roots)
<1>1. Roots \subseteq Item /\ IsFiniteSet(Roots)
  BY FS_Subset DEF Roots
<1>2. /\ s \in Seq(Roots)
      /\ \A i, j \in 1..Len(s) : s[i] = s[j] => i = j
      /\ \A x \in Roots : \E i \in 1..Len(s) : s[i] = x
  BY <1>1, SequenceOfSet
<1> HIDE DEF s
<1>3. s \in Seq(Item)
  BY <1>1, <1>2, SeqMonotonic
<1>4. First.queue = s /\ First.order = <<>> /\ Len(First.order) = 0 /\ <<>> \in Seq(Item)
  BY EmptySeq DEF First, s
<1>5. Line(First) = s
  BY <1>3, <1>4, ConcatEmptySeq DEF Line
<1>6. \A i \in 1..Len(s) : s[i] \in Roots
  BY <1>2, ElementOfSeq
<1> QED
  BY <1>2, <1>3, <1>4, <1>5, <1>6 DEF SoundRound, InLine

LEMMA LineGrows ==
  ASSUME NEW S, NEW o \in Seq(S), NEW q \in Seq(S), q # <<>>, NEW kids \in Seq(S)
  PROVE  Append(o, Head(q)) \o (Tail(q) \o kids) = (o \o q) \o kids
<1> DEFINE h == <<Head(q)>>
           t == Tail(q)
<1>1. h \in Seq(S) /\ t \in Seq(S) /\ Append(o, Head(q)) = o \o h
  BY HeadTailProperties
<1>2. h \o t = q
  <2>1. Len(q) \in Nat \ {0} /\ Len(t) = Len(q) - 1 /\ Head(q) = q[1]
        /\ \A i \in 1..Len(t) : t[i] = q[i + 1]
    BY HeadTailProperties, EmptySeq
  <2>2. Len(h) = 1 /\ h[1] = Head(q)
    OBVIOUS
  <2> HIDE DEF h, t
  <2>3. /\ h \o t \in Seq(S) /\ Len(h \o t) = Len(q)
        /\ \A i \in 1..Len(q) : (h \o t)[i] = IF i <= 1 THEN h[i] ELSE t[i - 1]
    BY <1>1, <2>1, <2>2, ConcatProperties
  <2>4. \A i \in 1..Len(q) : (h \o t)[i] = q[i]
    <3> SUFFICES ASSUME NEW i \in 1..Len(q) PROVE (h \o t)[i] = q[i]
      OBVIOUS
    <3>1. CASE i = 1
      BY <2>1, <2>2, <2>3, <3>1
    <3>2. CASE i # 1
      <4>1. i - 1 \in 1..Len(t) /\ (i - 1) + 1 = i
        BY <2>1, <3>2
      <4> QED
        BY <2>1, <2>3, <3>2, <4>1
    <3> QED
      BY <3>1, <3>2
  <2> QED
    BY <2>3, <2>4, SeqEqual
<1> HIDE DEF h, t
<1>3. t \o kids \in Seq(S)
  BY <1>1, ConcatProperties
<1>4. (o \o h) \o (t \o kids) = o \o (h \o (t \o kids))
  <2> DEFINE w == t \o kids
  <2> HIDE DEF w
  <2>1. w \in Seq(S) /\ h \in Seq(S)
    BY <1>1, <1>3 DEF w
  <2>2. (o \o h) \o w = o \o (h \o w)
    BY <2>1, ConcatAssociative
  <2> QED
    BY <2>2 DEF w
<1>5. h \o (t \o kids) = (h \o t) \o kids
  BY <1>1, ConcatAssociative
<1>6. (o \o q) \o kids = o \o (q \o kids)
  BY ConcatAssociative
<1> QED
  BY <1>1, <1>2, <1>4, <1>5, <1>6 DEF t

LEMMA AfterIsSound ==
  ASSUME IsFiniteSet(Item), NEW n \in Nat, NEW r, SoundRound(r, n)
  PROVE  SoundRound(After(r), n + 1)
<1>1. CASE r.queue = <<>>
  <2>1. Len(r.order) \in Nat
    BY LenProperties DEF SoundRound
  <2>2. After(r) = r /\ Len(r.order) <= n + 1
    BY <1>1, <2>1 DEF After, SoundRound
  <2> QED
    BY <1>1, <2>2 DEF SoundRound
<1>2. CASE r.queue # <<>>
  <2> DEFINE L == Len(r.order)
             h == Head(r.queue)
             kids == SetToSeq(Children(h))
             K == Len(kids)
             t == After(r)
             a == Line(r)
             b == Line(t)
             M == Len(a)
  <2>0. r.queue \in Seq(Item) /\ r.order \in Seq(Item) /\ L = n
    BY <1>2 DEF SoundRound
  <2>1. Children(h) \subseteq Item /\ IsFiniteSet(Children(h))
    BY FS_Subset DEF Children
  <2>2. /\ kids \in Seq(Children(h))
        /\ \A i, j \in 1..K : kids[i] = kids[j] => i = j
        /\ \A x \in Children(h) : \E i \in 1..K : kids[i] = x
    BY <2>1, SequenceOfSet
  <2>3. kids \in Seq(Item) /\ K \in Nat /\ \A i \in 1..K : kids[i] \in Children(h)
    BY <2>1, <2>2, SeqMonotonic, ElementOfSeq, LenProperties
  <2>4. t.queue = Tail(r.queue) \o kids /\ t.order = Append(r.order, h)
    BY <1>2 DEF After
  <2> HIDE DEF kids, t
  <2>5. /\ h \in Item /\ Tail(r.queue) \in Seq(Item)
        /\ h = r.queue[1] /\ Len(r.queue) \in Nat \ {0} /\ L \in Nat
    BY <1>2, <2>0, HeadTailProperties, LenProperties, EmptySeq
  <2>6. /\ t.order \in Seq(Item) /\ Len(t.order) = L + 1 /\ t.order[L + 1] = h
        /\ \A i \in 1..L : t.order[i] = r.order[i]
    <3> HIDE DEF h
    <3>1. /\ Append(r.order, h) \in Seq(Item) /\ Len(Append(r.order, h)) = L + 1
          /\ \A i \in 1..L : Append(r.order, h)[i] = r.order[i]
          /\ Append(r.order, h)[L + 1] = h
      BY <2>0, <2>5, AppendProperties
    <3> QED
      BY <2>4, <3>1
  <2>7. t.queue \in Seq(Item)
    BY <2>3, <2>4, <2>5, ConcatProperties
  <2>8. /\ a \in Seq(Item) /\ M = L + Len(r.queue)
        /\ \A i \in 1..(L + Len(r.queue)) : a[i] = IF i <= L THEN r.order[i] ELSE r.queue[i - L]
    BY <2>0, ConcatProperties DEF Line
  <2>9. b = a \o kids
    <3>1. Append(r.order, h) \o (Tail(r.queue) \o kids) = (r.order \o r.queue) \o kids
      <4>1. r.queue \in Seq(Item) /\ r.order \in Seq(Item) /\ kids \in Seq(Item) /\ r.queue # <<>>
        BY <1>2, <2>0, <2>3
      <4>2. \A o, q, k \in Seq(Item) : q # <<>> =>
              Append(o, Head(q)) \o (Tail(q) \o k) = (o \o q) \o k
        BY LineGrows
      <4> QED
        BY <4>1, <4>2, Zenon
    <3> QED
      BY <2>4, <3>1 DEF Line
  <2>10. M \in Nat /\ L + 1 <= M /\ a[L + 1] = h /\ \A i \in 1..L : a[i] = r.order[i]
    <3> HIDE DEF a, M, L, h
    <3>1. M \in Nat /\ L + 1 <= M /\ L + 1 \in 1..(L + Len(r.queue)) /\ ~(L + 1 <= L) /\ (L + 1) - L = 1
      BY <2>5, <2>8
    <3>2. \A i \in 1..L : i \in 1..(L + Len(r.queue)) /\ i <= L
      BY <2>5
    <3>3. a[L + 1] = h
      BY <2>5, <2>8, <3>1
    <3> QED
      BY <2>8, <3>1, <3>2, <3>3
  <2> HIDE DEF L, h, M, K, a, b
  <2>11. /\ Len(b) = M + K
         /\ \A i \in 1..(M + K) : b[i] = IF i <= M THEN a[i] ELSE kids[i - M]
    BY <2>3, <2>8, <2>9, ConcatProperties DEF M, K
  <2>12. /\ \A i \in 1..M : i \in 1..Len(b) /\ b[i] = a[i]
         /\ \A i \in 1..K : M + i \in 1..Len(b) /\ b[M + i] = kids[i]
         /\ \A i \in 1..Len(b) : i \notin 1..M => i - M \in 1..K /\ b[i] = kids[i - M]
    <3>1. \A i \in 1..K : M + i \in 1..(M + K) /\ ~(M + i <= M) /\ (M + i) - M = i
      BY <2>3, <2>10
    <3>2. \A i \in 1..M : i \in 1..(M + K) /\ i <= M
      BY <2>3, <2>10
    <3>3. \A i \in 1..(M + K) : i \notin 1..M => i - M \in 1..K /\ ~(i <= M)
      BY <2>3, <2>10
    <3> QED
      BY <2>11, <3>1, <3>2, <3>3
  <2>13. /\ \A i, j \in 1..M : a[i] = a[j] => i = j
         /\ \A i \in 1..M : a[i] \in Roots \/ \E j \in 1..L : j < i /\ parent[a[i]] = r.order[j]
         /\ \A x \in Roots : \E i \in 1..M : a[i] = x
         /\ \A i \in 1..L : \A x \in Children(r.order[i]) : \E j \in 1..M : a[j] = x
    BY DEF SoundRound, InLine, a, M, L
  <2>14. ASSUME NEW i \in 1..M, a[i] \in Children(h) PROVE FALSE
    <3>1. parent[a[i]] = h /\ h \in Item
      BY <2>5, <2>14 DEF Children
    <3>2. a[i] \notin Roots
      BY <3>1 DEF Roots
    <3>3. PICK j \in 1..L : parent[a[i]] = r.order[j]
      BY <2>13, <3>2
    <3>4. a[j] = a[L + 1] /\ j \in 1..M /\ L + 1 \in 1..M /\ j # L + 1
      BY <2>5, <2>10, <3>1, <3>3
    <3> QED
      BY <2>13, <3>4
  <2>15. ASSUME NEW i \in 1..Len(b), NEW j \in 1..Len(b), b[i] = b[j] PROVE i = j
    <3>1. CASE i \in 1..M /\ j \in 1..M
      BY <2>12, <2>13, <2>15, <3>1
    <3>2. CASE i \in 1..M /\ j \notin 1..M
      BY <2>3, <2>12, <2>14, <2>15, <3>2
    <3>3. CASE i \notin 1..M /\ j \in 1..M
      BY <2>3, <2>12, <2>14, <2>15, <3>3
    <3>4. CASE i \notin 1..M /\ j \notin 1..M
      <4>1. i - M = j - M
        <5>1. i - M \in 1..K /\ j - M \in 1..K /\ kids[i - M] = kids[j - M]
          BY <2>12, <2>15, <3>4
        <5> QED
          BY <2>2, <5>1
      <4> QED
        BY <2>10, <4>1
    <3> QED
      BY <3>1, <3>2, <3>3, <3>4
  <2>16. ASSUME NEW i \in 1..Len(b)
         PROVE  b[i] \in Roots \/ \E j \in 1..(L + 1) : j < i /\ parent[b[i]] = t.order[j]
    <3>1. CASE i \in 1..M
      <4>1. CASE a[i] \in Roots
        BY <2>12, <3>1, <4>1
      <4>2. CASE a[i] \notin Roots
        <5>1. PICK j \in 1..L : j < i /\ parent[a[i]] = r.order[j]
          BY <2>13, <3>1, <4>2
        <5>2. j \in 1..(L + 1) /\ t.order[j] = r.order[j]
          BY <2>5, <2>6, <5>1
        <5> QED
          BY <2>12, <3>1, <5>1, <5>2
      <4> QED
        BY <4>1, <4>2
    <3>2. CASE i \notin 1..M
      <4>1. b[i] \in Children(h)
        BY <2>3, <2>12, <3>2
      <4>2. parent[b[i]] = t.order[L + 1]
        BY <2>6, <4>1 DEF Children
      <4>3. L + 1 \in 1..(L + 1) /\ L + 1 < i
        BY <2>5, <2>10, <3>2
      <4> QED
        BY <4>2, <4>3
    <3> QED
      BY <3>1, <3>2
  <2>17. \A x \in Roots : \E i \in 1..Len(b) : b[i] = x
    BY <2>12, <2>13
  <2>18. ASSUME NEW i \in 1..(L + 1), NEW x \in Children(t.order[i])
         PROVE  \E j \in 1..Len(b) : b[j] = x
    <3>1. CASE i = L + 1
      BY <2>2, <2>6, <2>12, <3>1
    <3>2. CASE i # L + 1
      <4>1. i \in 1..L
        BY <2>5, <3>2
      <4> QED
        BY <2>6, <2>12, <2>13, <4>1
    <3> QED
      BY <3>1, <3>2
  <2>19. L + 1 <= n + 1 /\ L + 1 = n + 1
    BY <2>0, <2>5
  <2> QED
    BY <2>6, <2>7, <2>15, <2>16, <2>17, <2>18, <2>19 DEF SoundRound, InLine, b, t, L
<1> QED
  BY <1>1, <1>2

LEMMA RoundsAreSound ==
  ASSUME IsFiniteSet(Item)
  PROVE  SoundRound(Rounds, Cardinality(Item))
<1> DEFINE N == Cardinality(Item)
<1>1. N \in Nat
  BY FS_CardinalityType
<1>2. PICK f : IsRounds(f, N) /\ Rounds = f[N]
  BY <1>1, RoundsAre
<1> HIDE DEF N
<1> DEFINE Bad == {n \in 0..N : ~SoundRound(f[n], n)}
<1>3. ASSUME Bad # {} PROVE FALSE
  <2>1. PICK m \in Bad : \A n \in Bad : m <= n
    <3>1. Bad \subseteq Nat
      BY <1>1
    <3> HIDE DEF Bad
    <3> QED
      BY <1>3, <3>1, LeastNumber
  <2>2. CASE m = 0
    BY <1>1, <1>2, <2>1, <2>2, FirstIsSound DEF IsRounds
  <2>3. CASE m # 0
    <3>1. m \in 1..N /\ m - 1 \in 0..N /\ m - 1 \in Nat /\ (m - 1) + 1 = m /\ ~(m <= m - 1)
      BY <1>1, <2>1, <2>3
    <3>2. f[m] = After(f[m - 1])
      BY <1>2, <3>1, <2>3 DEF IsRounds
    <3>3. SoundRound(f[m - 1], m - 1)
      BY <2>1, <3>1
    <3>4. SoundRound(After(f[m - 1]), (m - 1) + 1)
      BY <3>1, <3>3, AfterIsSound
    <3> QED
      BY <2>1, <3>1, <3>2, <3>4
  <2> QED
    BY <2>2, <2>3
<1> QED
  BY <1>1, <1>2, <1>3 DEF N

(* topological_sort, for any finite set of rows and any references: every  *)
(* row comes out once, after its parent, or some rows refer to each other  *)
(* in a circle.                                                            *)
THEOREM SortsOrRefuses ==
  ASSUME IsFiniteSet(Item)
  PROVE  LET order0 == Rounds.order
         IN  /\ order0 \in Seq(Item)
             /\ Len(order0) = Cardinality(Item) =>
                  /\ ToSet(order0) = Item
                  /\ \A i, j \in DOMAIN order0 : parent[order0[i]] = order0[j] => j < i
             /\ Len(order0) # Cardinality(Item) =>
                  \E S \in SUBSET Item \ {{}} : \A i \in S : parent[i] \in S
<1> DEFINE r == Rounds
           o == r.order
           q == r.queue
           N == Cardinality(Item)
           L == Len(o)
           a == Line(r)
<1>1. SoundRound(r, N) /\ N \in Nat
  BY RoundsAreSound, FS_CardinalityType
<1> HIDE DEF r
<1>2. o \in Seq(Item) /\ q \in Seq(Item) /\ L \in Nat /\ DOMAIN o = 1..L
  BY <1>1, LenProperties DEF SoundRound
<1>3. /\ Len(a) = L + Len(q) /\ Len(q) \in Nat
      /\ \A i \in 1..(L + Len(q)) : a[i] = IF i <= L THEN o[i] ELSE q[i - L]
  BY <1>2, ConcatProperties, LenProperties DEF Line
<1> HIDE DEF a
<1>4. \A i \in 1..L : i \in 1..Len(a) /\ a[i] = o[i] /\ o[i] \in Item
  <2> SUFFICES ASSUME NEW i \in 1..L PROVE i \in 1..Len(a) /\ a[i] = o[i] /\ o[i] \in Item
    OBVIOUS
  <2>1. o[i] \in Item
    BY <1>2, ElementOfSeq
  <2> HIDE DEF L
  <2>2. i \in 1..(L + Len(q)) /\ i <= L
    BY <1>2, <1>3
  <2> QED
    BY <1>3, <2>1, <2>2
<1>5. \A i, j \in 1..L : o[i] = o[j] => i = j
  BY <1>1, <1>4 DEF SoundRound, a
<1>6. o \in Injection(1..L, Item)
  BY <1>2, <1>5, LenProperties DEF Injection, IsInjective
<1>7. Cardinality(1..L) = L
  BY <1>2, FS_Interval
<1>8. L <= N /\ (L = N => o \in Surjection(1..L, Item))
  BY <1>6, <1>7, FS_Injection
<1>9. L = N => ToSet(o) = Item
  BY <1>2, <1>4, <1>8 DEF ToSet, Surjection
<1>10. ASSUME NEW i \in 1..L, NEW j \in 1..L, parent[o[i]] = o[j] PROVE j < i
  <2>1. a[i] \notin Roots
    BY <1>4, <1>10 DEF Roots
  <2>2. PICK m \in 1..L : m < i /\ parent[a[i]] = o[m]
    BY <1>1, <1>4, <2>1 DEF SoundRound, a
  <2>3. m = j
    BY <1>4, <1>5, <1>10, <2>2
  <2> QED
    BY <2>2, <2>3
<1>11. ASSUME L # N PROVE \E S \in SUBSET Item \ {{}} : \A i \in S : parent[i] \in S
  <2> DEFINE S == Item \ ToSet(o)
  <2>1. q = <<>> /\ Len(q) = 0
    BY <1>1, <1>11, EmptySeq DEF SoundRound
  <2>2. \A i \in 1..Len(a) : i \in 1..L /\ a[i] = o[i]
    BY <1>2, <1>3, <2>1
  <2>3. S # {}
    <3> SUFFICES ASSUME S = {} PROVE FALSE
      OBVIOUS
    <3>1. \A x \in Item : \E i \in 1..L : o[i] = x
      BY <1>2 DEF ToSet
    <3>2. o \in [1..L -> Item]
      BY <1>2, LenProperties
    <3>3. o \in Surjection(1..L, Item)
      BY <3>1, <3>2 DEF Surjection
    <3>4. IsFiniteSet(1..L)
      BY <1>2, FS_Interval
    <3>5. N = L
      BY <1>6, <1>7, <3>3, <3>4, FS_Surjection
    <3> QED
      BY <1>11, <3>5
  <2>4. ASSUME NEW i \in S, parent[i] \notin S PROVE FALSE
    <3>1. CASE parent[i] \notin Item
      <4>1. i \in Roots
        BY <3>1 DEF Roots
      <4>2. PICK j \in 1..Len(a) : a[j] = i
        BY <1>1, <4>1 DEF SoundRound, InLine, a
      <4> QED
        BY <1>2, <2>2, <4>2 DEF ToSet
    <3>2. CASE parent[i] \in Item
      <4>1. PICK m \in 1..L : parent[i] = o[m]
        BY <1>2, <2>4, <3>2 DEF ToSet
      <4>2. i \in Children(o[m])
        BY <4>1 DEF Children
      <4>3. PICK j \in 1..Len(a) : a[j] = i
        BY <1>1, <4>2 DEF SoundRound, InLine, a
      <4> QED
        BY <1>2, <2>2, <4>3 DEF ToSet
    <3> QED
      BY <3>1, <3>2
  <2> QED
    BY <2>3, <2>4
<1> QED
  BY <1>2, <1>9, <1>10, <1>11 DEF r

-----------------------------------------------------------------------------
(* Tasks *)

LEMMA Batches == ASSUME BatchAssumption, TypeOK
  PROVE  /\ count \in Nat /\ Batch \subseteq 1..MaxBatches /\ 0 \notin Batch
         /\ \A b \in Batch : batch[b] \in Task
         /\ results \in Seq(Result) /\ Len(results) \in Nat
         /\ \A i \in 1..Len(results) : results[i] \in Result
<1>1. count \in Nat /\ MaxBatches \in Nat
  BY DEF TypeOK, BatchAssumption
<1>2. results \in Seq(Result) /\ Len(results) \in Nat /\ \A i \in 1..Len(results) : results[i] \in Result
  BY LenProperties, ElementOfSeq DEF TypeOK
<1> QED
  BY <1>1, <1>2 DEF TypeOK, Batch

(* A step of task b. *)
Moves(b, t) ==
  /\ count' = count /\ batch' = [c \in Batch |-> batch'[c]]
  /\ batch'[b] = t /\ \A c \in Batch \ {b} : batch'[c] = batch[c]

LEMMA MovesOf ==
  ASSUME TypeOK, NEW b \in Batch, NEW t, count' = count, batch' = [batch EXCEPT ![b] = t]
  PROVE  Moves(b, t)
BY DEF TypeOK, Moves

LEMMA GotoOf ==
  ASSUME BatchAssumption, TypeOK, NEW b \in Batch, NEW pc, count' = count, Goto(b, pc),
         pc \in Working \cup Pushed \cup Ended \cup {"unsent", "queued"}
  PROVE  /\ Moves(b, batch'[b]) /\ batch'[b] \in Task /\ batch'[b].pc = pc
         /\ batch'[b].outcome = batch[b].outcome /\ batch'[b].stop = batch[b].stop
         /\ batch'[b].taken = batch[b].taken
<1> DEFINE t == [batch[b] EXCEPT !.pc = pc]
<1>1. batch' = [batch EXCEPT ![b] = t]
  BY DEF Goto
<1>2. batch[b] \in Task
  BY Batches
<1>3. /\ t \in Task /\ t.pc = pc /\ t.outcome = batch[b].outcome /\ t.stop = batch[b].stop
      /\ t.taken = batch[b].taken
  BY <1>2 DEF Task
<1> HIDE DEF t
<1>4. Moves(b, t) /\ batch'[b] = t
  BY <1>1, MovesOf DEF Moves
<1> QED
  BY <1>3, <1>4

(* The types after a step of a task. *)
LEMMA TypesOfMove ==
  ASSUME BatchJobsInv, NEW b \in Batch, NEW t \in Task, Moves(b, t), SoundTask(t),
         UNCHANGED <<parent, order>>,
         launch' = launch \/ (launch' = "sent" /\ launch = "send"),
         results' \in Seq(Result), locker' \in 0..MaxBatches,
         messages' \in Seq({"success", "failure"}), disturbed' \in BOOLEAN,
         faults' \in 0..MaxFaults
  PROVE  TypeOK' /\ ParentsComeFirst' /\ SoundTasks' /\ Launched'
<1>1. Batch' = Batch
  BY DEF Moves, Batch
<1>2. batch' \in [Batch -> Task]
  BY DEF BatchJobsInv, TypeOK, Moves
<1>3. TypeOK'
  BY <1>1, <1>2 DEF BatchJobsInv, TypeOK, Moves
<1>4. ParentsComeFirst'
  BY DEF BatchJobsInv, ParentsComeFirst
<1>5. SoundTasks' /\ Launched'
  BY <1>1 DEF BatchJobsInv, SoundTasks, Moves, Launched
<1> QED
  BY <1>3, <1>4, <1>5

(* A step of a task that pushes no result: what is true of a result stays  *)
(* true.                                                                   *)
LEMMA TruthKept ==
  ASSUME NEW b \in Batch, NEW t, Moves(b, t),
         t.stop # 0 <=> batch[b].stop # 0, t.outcome = batch[b].outcome
  PROVE  /\ Batch' = Batch
         /\ \A r : TrueResult(r)' <=> TrueResult(r)
         /\ \A s : Complete(s)' <=> Complete(s)
         /\ AllPushed' <=> AllPushed
<1>1. Batch' = Batch
  BY DEF Moves, Batch
<1>2. \A c \in Batch : /\ batch'[c].stop # 0 <=> batch[c].stop # 0
                      /\ batch'[c].outcome = batch[c].outcome
  BY DEF Moves
<1>3. \A r : TrueResult(r)' <=> TrueResult(r)
  BY <1>1, <1>2 DEF TrueResult
<1>4. \A s : Complete(s)' <=> Complete(s)
  BY <1>1, <1>3 DEF Complete
<1>5. AllPushed' <=> AllPushed
  BY <1>1, <1>2 DEF AllPushed, Moves
<1> QED
  BY <1>1, <1>3, <1>4, <1>5

(* A step of a task that goes on and has not seen all results. *)
LEMMA StepsOn ==
  ASSUME BatchAssumption, BatchJobsInv, NEW b \in Batch, NEW pc, Goto(b, pc),
         UNCHANGED <<parent, count, order, results, messages, disturbed>>,
         pc \in (Working \cup Pushed \cup Ended \cup {"unsent", "queued"})
                \ {"take", "drop", "publish"},
         \A t : SoundTask(batch[b]) /\ t.pc = pc /\ t.outcome = batch[b].outcome /\ t.stop = batch[b].stop
                => SoundTask(t),
         launch' = launch \/ (launch' = "sent" /\ launch = "send"),
         locker' \in 0..MaxBatches, faults' \in 0..MaxFaults,
         ~disturbed => /\ pc \in Guarded => locker' = b
                       /\ \A c \in Batch \ {b} : batch[c].pc \in Guarded => locker' = c
  PROVE  BatchJobsInv'
<1>1. TypeOK /\ SoundTask(batch[b])
  BY DEF BatchJobsInv, SoundTasks
<1>2. /\ Moves(b, batch'[b]) /\ batch'[b] \in Task /\ batch'[b].pc = pc
      /\ batch'[b].outcome = batch[b].outcome /\ batch'[b].stop = batch[b].stop
      /\ batch'[b].taken = batch[b].taken
  BY <1>1, GotoOf
<1>3. SoundTask(batch'[b])
  BY <1>1, <1>2
<1>4. TypeOK' /\ ParentsComeFirst' /\ SoundTasks' /\ Launched'
  BY <1>1, <1>2, <1>3, TypesOfMove DEF TypeOK
<1>5. /\ Batch' = Batch
      /\ \A r : TrueResult(r)' <=> TrueResult(r)
      /\ \A s : Complete(s)' <=> Complete(s)
      /\ AllPushed' <=> AllPushed
  BY <1>2, TruthKept
<1>6. SoundResults'
  BY <1>5 DEF BatchJobsInv, SoundResults, Distinct
<1>7. /\ \A c \in Batch : batch'[c].taken = batch[c].taken
      /\ \A c \in Batch : batch'[c].pc \in {"take", "drop", "publish"} => batch'[c].pc = batch[c].pc
      /\ \A c \in Batch : batch'[c].pc \in Guarded => (c = b /\ pc \in Guarded) \/ (c # b /\ batch[c].pc \in Guarded)
  BY <1>2 DEF Moves
<1>8. \A c \in Batch : Final(c)' => Final(c)
  BY <1>7 DEF Final
<1>9. SoundFinal'
  BY <1>5, <1>7, <1>8 DEF BatchJobsInv, SoundFinal
<1>10. ASSUME ~disturbed PROVE \A c \in Batch : batch'[c].pc \in Guarded => locker' = c
  BY <1>7, <1>10
<1>11. OneFinal'
  BY <1>5, <1>7, <1>8, <1>10 DEF BatchJobsInv, OneFinal
<1> QED
  BY <1>4, <1>6, <1>9, <1>11 DEF BatchJobsInv

(* Who is at the list has the lock. *)
LEMMA Holders ==
  ASSUME BatchJobsInv, ~disturbed
  PROVE  \A c \in Batch : batch[c].pc \in Guarded => locker = c
BY DEF BatchJobsInv, OneFinal

LEMMA SendKeeps ==
  ASSUME BatchAssumption, BatchJobsInv, NEW b \in Batch, Send(b)
  PROVE  BatchJobsInv'
<1>1. Goto(b, "queued") /\ UNCHANGED <<parent, count, order, results, locker, messages, disturbed, faults>>
      /\ batch[b].pc = "unsent" /\ (launch' = launch \/ (launch' = "sent" /\ launch = "send"))
  BY DEF Send, Goto
<1>2. ASSUME NEW t, SoundTask(batch[b]), t.pc = "queued", t.outcome = batch[b].outcome,
             t.stop = batch[b].stop
      PROVE  SoundTask(t)
  BY <1>1, <1>2 DEF SoundTask, Pushed, Guarded
<1> QED
  BY <1>1, <1>2, StepsOn, Holders DEF Working, Pushed, Guarded, BatchJobsInv, TypeOK

LEMMA StartKeeps ==
  ASSUME BatchAssumption, BatchJobsInv, NEW b \in Batch, Start(b)
  PROVE  BatchJobsInv'
<1>1. Goto(b, "view") /\ UNCHANGED <<parent, count, order, launch, results, locker, messages, disturbed, faults>>
      /\ batch[b].pc = "queued"
  BY DEF Start
<1>2. ASSUME NEW t, SoundTask(batch[b]), t.pc = "view", t.outcome = batch[b].outcome,
             t.stop = batch[b].stop
      PROVE  SoundTask(t)
  BY <1>1, <1>2 DEF SoundTask, Pushed, Guarded
<1> QED
  BY <1>1, <1>2, StepsOn, Holders DEF Working, Pushed, Guarded, BatchJobsInv, TypeOK

LEMMA AcquireKeeps ==
  ASSUME BatchAssumption, BatchJobsInv, NEW b \in Batch, Acquire(b)
  PROVE  BatchJobsInv'
<1>1. Goto(b, "look") /\ UNCHANGED <<parent, count, order, launch, results, messages, disturbed, faults>>
      /\ batch[b].pc = "lock" /\ locker' = b /\ locker = 0
  BY DEF Acquire
<1>2. ASSUME NEW t, SoundTask(batch[b]), t.pc = "look", t.outcome = batch[b].outcome,
             t.stop = batch[b].stop
      PROVE  SoundTask(t)
  BY <1>1, <1>2 DEF SoundTask, Pushed, Guarded
<1>3. locker' \in 0..MaxBatches /\ 0 \notin Batch
  BY <1>1, Batches DEF BatchJobsInv
<1>4. ~disturbed => \A c \in Batch \ {b} : batch[c].pc \in Guarded => locker' = c
  BY <1>1, <1>3, Holders
<1> QED
  BY <1>1, <1>2, <1>3, <1>4, StepsOn DEF Working, Pushed, Guarded, BatchJobsInv, TypeOK

LEMMA LookKeeps ==
  ASSUME BatchAssumption, BatchJobsInv, NEW b \in Batch, Look(b)
  PROVE  BatchJobsInv'
<1> DEFINE pc == IF results # <<>> THEN "check" ELSE "release"
<1>1. /\ Goto(b, pc) /\ batch[b].pc = "look"
      /\ UNCHANGED <<parent, count, order, launch, results, locker, messages, disturbed, faults>>
  BY DEF Look
<1>2. pc \in {"check", "release"}
  OBVIOUS
<1> HIDE DEF pc
<1>3. ASSUME NEW t, SoundTask(batch[b]), t.pc = pc, t.outcome = batch[b].outcome,
             t.stop = batch[b].stop
      PROVE  SoundTask(t)
  BY <1>1, <1>2, <1>3 DEF SoundTask, Pushed, Guarded
<1>4. ~disturbed => locker' = b
  BY <1>1, Holders DEF Guarded
<1> QED
  BY <1>1, <1>2, <1>3, <1>4, StepsOn, Holders DEF Working, Pushed, Guarded, BatchJobsInv, TypeOK

LEMMA ReleaseKeeps ==
  ASSUME BatchAssumption, BatchJobsInv, NEW b \in Batch, Release(b)
  PROVE  BatchJobsInv'
<1> DEFINE pc == IF locker = b THEN "done" ELSE "broken"
<1>1. Goto(b, pc) /\ UNCHANGED <<parent, count, order, launch, results, messages, disturbed, faults>>
      /\ batch[b].pc = "release" /\ locker' = IF locker = b THEN 0 ELSE locker
  BY DEF Release
<1>2. pc \in {"done", "broken"}
  OBVIOUS
<1> HIDE DEF pc
<1>3. ASSUME NEW t, SoundTask(batch[b]), t.pc = pc, t.outcome = batch[b].outcome,
             t.stop = batch[b].stop
      PROVE  SoundTask(t)
  BY <1>1, <1>2, <1>3 DEF SoundTask, Pushed, Guarded
<1>4. locker' \in 0..MaxBatches
  BY <1>1 DEF BatchJobsInv, TypeOK, BatchAssumption
<1>5. ~disturbed => \A c \in Batch \ {b} : batch[c].pc \in Guarded => locker' = c
  BY <1>1, Holders
<1> QED
  BY <1>1, <1>2, <1>3, <1>4, <1>5, StepsOn DEF Ended, Working, Pushed, Guarded, BatchJobsInv, TypeOK

LEMMA CrashKeeps ==
  ASSUME BatchAssumption, BatchJobsInv, NEW b \in Batch, Crash(b)
  PROVE  BatchJobsInv'
<1>1. Goto(b, "lost") /\ UNCHANGED <<parent, count, order, launch, results, locker, messages, disturbed>>
      /\ faults < MaxFaults /\ faults' = faults + 1
  BY DEF Crash
<1>2. ASSUME NEW t, SoundTask(batch[b]), t.pc = "lost", t.outcome = batch[b].outcome,
             t.stop = batch[b].stop
      PROVE  SoundTask(t)
  BY <1>1, <1>2 DEF SoundTask, Pushed, Guarded
<1>3. faults' \in 0..MaxFaults
  BY <1>1 DEF BatchJobsInv, TypeOK, BatchAssumption
<1> QED
  BY <1>1, <1>2, <1>3, StepsOn, Holders DEF Ended, Working, Pushed, Guarded, BatchJobsInv, TypeOK

(* As long as a task has pushed nothing, nobody has seen all results. *)
LEMMA NobodyFinal ==
  ASSUME BatchJobsInv, NEW b \in Batch, batch[b].stop = 0
  PROVE  messages = <<>> /\ \A c \in Batch : batch[c].pc \notin {"take", "drop", "publish"}
<1>1. ~AllPushed
  BY DEF AllPushed
<1> QED
  BY <1>1 DEF BatchJobsInv, SoundFinal, Final

(* A step of a task, while nobody has seen all results, that reads none.   *)
LEMMA BeforeFinal ==
  ASSUME BatchJobsInv, NEW b \in Batch, NEW t, Moves(b, t), UNCHANGED <<locker, messages, disturbed>>,
         batch[b].stop = 0, t.pc \in Working \cup {"lock"}, t.taken = batch[b].taken,
         \A r : TrueResult(r) => TrueResult(r)'
  PROVE  SoundFinal' /\ OneFinal'
<1>1. Batch' = Batch
  BY DEF Moves, Batch
<1>2. messages = <<>> /\ \A c \in Batch : batch[c].pc \notin {"take", "drop", "publish"}
  BY NobodyFinal
<1>3. /\ \A c \in Batch : batch'[c].pc \notin {"take", "drop", "publish"}
      /\ \A c \in Batch : batch'[c].taken = batch[c].taken
      /\ \A c \in Batch : batch'[c].pc \in Guarded => batch[c].pc \in Guarded
  BY <1>2 DEF Moves, Working, Guarded
<1>4. \A c \in Batch : ~Final(c)'
  BY <1>3 DEF Final
<1>5. SoundFinal'
  BY <1>1, <1>2, <1>3, <1>4 DEF BatchJobsInv, SoundFinal
<1>6. OneFinal'
  BY <1>1, <1>2, <1>3, <1>4, Holders DEF OneFinal
<1> QED
  BY <1>5, <1>6

LEMMA ViewKeeps ==
  ASSUME BatchAssumption, BatchJobsInv, NEW b \in Batch, NEW o \in {"accepted",
         "rejected"}, View(b, o)
  PROVE  BatchJobsInv'
<1> DEFINE t == [batch[b] EXCEPT !.pc = "push", !.outcome = o]
<1>1. /\ TypeOK /\ batch[b].pc = "view" /\ batch' = [batch EXCEPT ![b] = t]
      /\ UNCHANGED <<parent, count, order, launch, results, locker, messages, disturbed, faults>>
  BY DEF View, BatchJobsInv
<1>2. batch[b] \in Task /\ SoundTask(batch[b])
  BY <1>1, Batches DEF BatchJobsInv, SoundTasks
<1>3. /\ t \in Task /\ t.pc = "push" /\ t.outcome = o /\ t.stop = batch[b].stop /\ batch[b].stop = 0
      /\ t.taken = batch[b].taken
  BY <1>1, <1>2 DEF Task, Working, SoundTask
<1> HIDE DEF t
<1>4. Moves(b, t) /\ Batch' = Batch
  BY <1>1, MovesOf DEF Moves, Batch
<1>5. SoundTask(t)
  BY <1>3 DEF SoundTask, Pushed, Guarded
<1>6. TypeOK' /\ ParentsComeFirst' /\ SoundTasks' /\ Launched'
  BY <1>1, <1>3, <1>4, <1>5, TypesOfMove DEF TypeOK
<1>7. \A r : TrueResult(r) => TrueResult(r)'
  BY <1>3, <1>4 DEF TrueResult, Moves
<1>8. SoundFinal' /\ OneFinal'
  BY <1>1, <1>3, <1>4, <1>7, BeforeFinal DEF Working
<1>9. SoundResults'
  BY <1>1, <1>7 DEF BatchJobsInv, SoundResults, Distinct
<1> QED
  BY <1>6, <1>8, <1>9 DEF BatchJobsInv

-----------------------------------------------------------------------------
(* The list *)

(* A list of results of different tasks is not longer than the import has  *)
(* batches, and as long only if every task is on it.                       *)
LEMMA ResultsFit ==
  ASSUME BatchAssumption, TypeOK, NEW s \in Seq(Result), Distinct(s),
         \A i \in 1..Len(s) : s[i].index \in Batch
  PROVE  /\ Len(s) \in Nat /\ Len(s) <= count
         /\ Len(s) = count => \A b \in Batch : \E i \in 1..Len(s) : s[i].index = b
<1> DEFINE I == 1..Len(s)
           f == [i \in I |-> s[i].index]
<1>1. Len(s) \in Nat /\ count \in Nat
  BY Batches, LenProperties
<1>2. IsFiniteSet(Batch) /\ Cardinality(Batch) = count
  BY <1>1, FS_Interval DEF Batch
<1>3. Cardinality(I) = Len(s)
  BY <1>1, FS_Interval
<1>4. f \in Injection(I, Batch)
  BY DEF Distinct, Injection, IsInjective
<1> HIDE DEF I, f
<1>5. /\ Cardinality(I) <= Cardinality(Batch)
      /\ Cardinality(I) = Cardinality(Batch) <=> f \in Surjection(I, Batch)
  BY <1>2, <1>4, FS_Injection
<1>6. f \in Surjection(I, Batch) => \A b \in Batch : \E i \in I : s[i].index = b
  BY DEF f, Surjection
<1> QED
  BY <1>1, <1>2, <1>3, <1>5, <1>6 DEF I

LEMMA PushKeeps ==
  ASSUME BatchAssumption, BatchJobsInv, NEW b \in Batch, Push(b)
  PROVE  BatchJobsInv'
<1> DEFINE r == [index |-> b, status |-> batch[b].outcome = "accepted"]
           s == <<r>> \o results
           t1 == [batch[b] EXCEPT !.pc = "size"]
           t == [t1 EXCEPT !.stop = Len(s)]
<1>1. /\ TypeOK /\ batch[b].pc = "push" /\ batch' = [batch EXCEPT ![b] = t] /\ results' = s
      /\ UNCHANGED <<parent, count, order, launch, locker, messages, disturbed, faults>>
  BY DEF Push, BatchJobsInv
<1>2. /\ batch[b] \in Task /\ SoundTask(batch[b]) /\ results \in Seq(Result)
      /\ Len(results) \in Nat
      /\ b \in 1..MaxBatches /\ count \in Nat
  BY <1>1, Batches DEF BatchJobsInv, SoundTasks
<1>3. batch[b].stop = 0 /\ batch[b].outcome # "pending"
  BY <1>1, <1>2 DEF SoundTask
<1>4. r \in Result /\ r.index = b /\ (r.status <=> batch[b].outcome = "accepted")
  BY <1>2 DEF Result
<1> HIDE DEF r
<1>5. /\ s \in Seq(Result) /\ Len(s) = Len(results) + 1 /\ s[1] = r
      /\ \A i \in 2..Len(s) : s[i] = results[i - 1] /\ i - 1 \in 1..Len(results)
  <2>1. <<r>> \in Seq(Result) /\ Len(<<r>>) = 1 /\ <<r>>[1] = r
    BY <1>4
  <2>2. /\ s \in Seq(Result) /\ Len(s) = 1 + Len(results)
        /\ \A i \in 1..(1 + Len(results)) : s[i] = IF i <= 1 THEN <<r>>[i] ELSE results[i - 1]
    BY <1>2, <2>1, ConcatProperties
  <2> HIDE DEF s
  <2> QED
    BY <1>2, <2>1, <2>2
<1> HIDE DEF s
<1>6. \A i \in 1..Len(s) : i = 1 \/ i \in 2..Len(s)
  BY <1>2, <1>5
<1>7. \A i \in 1..Len(results) : TrueResult(results[i]) /\ results[i].index # b
  BY <1>3 DEF BatchJobsInv, SoundResults, TrueResult
<1>8. Distinct(s)
  <2> SUFFICES ASSUME NEW i \in 1..Len(s), NEW j \in 1..Len(s), s[i].index = s[j].index PROVE i = j
    BY DEF Distinct
  <2>1. CASE i = 1 /\ j = 1
    BY <2>1
  <2>2. CASE i = 1 /\ j # 1
    BY <2>2, <1>4, <1>5, <1>6, <1>7
  <2>3. CASE i # 1 /\ j = 1
    BY <2>3, <1>4, <1>5, <1>6, <1>7
  <2>4. CASE i # 1 /\ j # 1
    <3>1. /\ i - 1 \in 1..Len(results) /\ j - 1 \in 1..Len(results)
          /\ results[i - 1].index = results[j - 1].index
      BY <2>4, <1>5, <1>6
    <3>2. i - 1 = j - 1
      BY <3>1 DEF BatchJobsInv, SoundResults, Distinct
    <3> QED
      BY <3>2
  <2> QED
    BY <2>1, <2>2, <2>3, <2>4
<1>9. \A i \in 1..Len(s) : s[i].index \in Batch
  BY <1>4, <1>5, <1>6, <1>7 DEF TrueResult
<1>10. Len(s) \in Nat /\ Len(s) <= count /\ Len(s) >= 1 /\ Len(s) <= MaxBatches
  <2>1. Len(s) \in Nat /\ Len(s) <= count
    BY <1>1, <1>5, <1>8, <1>9, ResultsFit
  <2> QED
    BY <1>1, <1>2, <1>5, <2>1 DEF TypeOK, BatchAssumption
<1>11. /\ t1 \in Task /\ t1.outcome = batch[b].outcome /\ t1.taken = batch[b].taken
       /\ t1.pc = "size"
  BY <1>2 DEF Task, Working, Pushed
<1> HIDE DEF t1
<1>12. /\ t \in Task /\ t.pc = t1.pc /\ t.outcome = batch[b].outcome /\ t.stop = Len(s)
       /\ t.taken = batch[b].taken
  BY <1>10, <1>11 DEF Task, BatchAssumption
<1> HIDE DEF t
<1>13. SoundTask(t)
  BY <1>3, <1>10, <1>11, <1>12 DEF SoundTask, Pushed, Guarded, BatchAssumption
<1>14. Moves(b, t) /\ Batch' = Batch
  BY <1>1, MovesOf DEF Moves, Batch
<1>15. TypeOK' /\ ParentsComeFirst' /\ SoundTasks' /\ Launched'
  BY <1>1, <1>5, <1>12, <1>13, <1>14, TypesOfMove DEF TypeOK
<1>16. \A x : TrueResult(x) => TrueResult(x)'
  BY <1>3, <1>10, <1>12, <1>14 DEF TrueResult, Moves
<1>17. \A x : x = r => TrueResult(x)'
  BY <1>4, <1>10, <1>12, <1>14 DEF TrueResult, Moves
<1>18. \A i \in 1..Len(s) : \A x : x = s[i] => TrueResult(x)'
  BY <1>5, <1>6, <1>7, <1>16, <1>17
<1>19. SoundResults'
  BY <1>1, <1>8, <1>18 DEF SoundResults, Distinct
<1>20. SoundFinal' /\ OneFinal'
  BY <1>1, <1>3, <1>11, <1>12, <1>14, <1>16, BeforeFinal DEF Working
<1> QED
  BY <1>15, <1>19, <1>20 DEF BatchJobsInv

LEMMA MeasureKeeps ==
  ASSUME BatchAssumption, BatchJobsInv, NEW b \in Batch, Measure(b)
  PROVE  BatchJobsInv'
<1>1. /\ TypeOK /\ batch[b].pc = "size"
      /\ UNCHANGED <<parent, count, order, launch, results, locker, messages, disturbed, faults>>
  BY DEF Measure, BatchJobsInv
<1>2. CASE MaxSize >= Len(results)
  <2>1. Goto(b, "lock")
    BY <1>2, <1>1, Batches DEF Measure, Goto, BatchAssumption
  <2>2. ASSUME NEW t, SoundTask(batch[b]), t.pc = "lock", t.outcome = batch[b].outcome,
               t.stop = batch[b].stop
        PROVE  SoundTask(t)
    BY <1>1, <2>2 DEF SoundTask, Pushed, Guarded
  <2> QED
    BY <1>1, <2>1, <2>2, StepsOn, Holders DEF Working, Pushed, Guarded, TypeOK
<1>3. CASE MaxSize < Len(results)
  <2> DEFINE t1 == [batch[b] EXCEPT !.pc = "trim"]
             t == [t1 EXCEPT !.stop = Len(results)]
  <2>1. batch' = [batch EXCEPT ![b] = t]
    BY <1>3 DEF Measure
  <2>2. /\ batch[b] \in Task /\ SoundTask(batch[b]) /\ results \in Seq(Result)
        /\ Distinct(results) /\ \A i \in 1..Len(results) : results[i].index \in Batch
    BY <1>1, Batches DEF BatchJobsInv, SoundTasks, SoundResults, TrueResult
  <2>3. Len(results) \in Nat /\ Len(results) <= count
    BY <1>1, <2>2, ResultsFit
  <2>4. Len(results) \in 0..MaxBatches /\ Len(results) # 0
    BY <1>1, <1>3, <2>3 DEF TypeOK, BatchAssumption
  <2>5. t1 \in Task /\ t1.pc = "trim" /\ t1.outcome = batch[b].outcome /\ t1.taken = batch[b].taken
    BY <2>2 DEF Task, Working
  <2> HIDE DEF t1
  <2>6. /\ t \in Task /\ t.pc = "trim" /\ t.outcome = batch[b].outcome /\ t.stop = Len(results)
        /\ t.taken = batch[b].taken
    BY <2>4, <2>5 DEF Task
  <2> HIDE DEF t
  <2>7. batch[b].stop # 0 /\ batch[b].outcome # "pending"
    BY <1>1, <2>2 DEF SoundTask
  <2>8. SoundTask(t)
    BY <1>3, <2>4, <2>6, <2>7 DEF SoundTask, Pushed, Guarded
  <2>9. Moves(b, t)
    BY <1>1, <2>1, MovesOf
  <2>10. TypeOK' /\ ParentsComeFirst' /\ SoundTasks' /\ Launched'
    BY <1>1, <2>6, <2>8, <2>9, TypesOfMove DEF TypeOK
  <2>11. /\ Batch' = Batch
         /\ \A r : TrueResult(r)' <=> TrueResult(r)
         /\ \A s : Complete(s)' <=> Complete(s)
         /\ AllPushed' <=> AllPushed
    BY <2>4, <2>6, <2>7, <2>9, TruthKept
  <2>12. SoundResults'
    BY <1>1, <2>11 DEF BatchJobsInv, SoundResults, Distinct
  <2>13. /\ \A c \in Batch : batch'[c].taken = batch[c].taken
         /\ \A c \in Batch : batch'[c].pc \in Guarded \cup {"publish"} => batch'[c].pc = batch[c].pc
    BY <2>6, <2>9 DEF Moves, Guarded
  <2>14. \A c \in Batch : Final(c)' => Final(c)
    BY <2>13 DEF Final, Guarded
  <2>15. SoundFinal'
    BY <1>1, <2>11, <2>13, <2>14 DEF BatchJobsInv, SoundFinal
  <2>16. OneFinal'
    BY <1>1, <2>11, <2>13, <2>14 DEF BatchJobsInv, OneFinal, Guarded
  <2> QED
    BY <2>10, <2>12, <2>15, <2>16 DEF BatchJobsInv
<1> QED
  BY <1>1, <1>2, <1>3, Batches DEF BatchAssumption

(* Part of a list of results of different tasks is one. *)
LEMMA PartOfList ==
  ASSUME NEW s \in Seq(Result), NEW m \in Nat \ {0}, NEW n \in Nat,
         n <= Len(s), Distinct(s),
         \A i \in 1..Len(s) : TrueResult(s[i])
  PROVE  LET part == SubSeq(s, m, n)
         IN  /\ part \in Seq(Result) /\ Distinct(part)
             /\ \A i \in 1..Len(part) : TrueResult(part[i])
             /\ s = <<>> => part = <<>>
<1> DEFINE L == Len(s)
           part == SubSeq(s, m, n)
<1>1. L \in Nat /\ n <= L /\ \A i \in 1..L : s[i] \in Result
  BY LenProperties, ElementOfSeq
<1>2. \A i \in m..n : i \in 1..L /\ s[i] \in Result
  BY <1>1
<1>3. /\ part \in Seq(Result) /\ Len(part) = (IF m <= n THEN n - m + 1 ELSE 0)
      /\ \A i \in 1..(n - m + 1) : part[i] = s[m + i - 1]
  BY <1>1, <1>2, SubSeqProperties
<1> HIDE DEF part
<1>4. \A i \in 1..Len(part) : m + i - 1 \in 1..L /\ part[i] = s[m + i - 1]
  <2> HIDE DEF L
  <2> QED
    BY <1>1, <1>3
<1>5. Distinct(part)
  <2> SUFFICES ASSUME NEW i \in 1..Len(part), NEW j \in 1..Len(part), part[i].index = part[j].index
               PROVE  i = j
    BY DEF Distinct
  <2>1. m + i - 1 = m + j - 1
    BY <1>4 DEF Distinct
  <2> QED
    BY <2>1
<1>6. \A i \in 1..Len(part) : TrueResult(part[i])
  BY <1>4
<1>7. ASSUME s = <<>> PROVE part = <<>>
  <2>1. Len(part) = 0
    BY <1>1, <1>3, <1>7
  <2> QED
    BY <1>3, <2>1, EmptySeq
<1> QED
  BY <1>3, <1>5, <1>6, <1>7 DEF part

LEMMA TrimKeeps ==
  ASSUME BatchAssumption, BatchJobsInv, NEW b \in Batch, Trim(b)
  PROVE  BatchJobsInv'
<1> DEFINE m == batch[b].stop - MaxSize + 1
           n == IF batch[b].stop + 1 <= Len(results) THEN batch[b].stop + 1 ELSE Len(results)
           part == SubSeq(results, m, n)
<1>1. /\ TypeOK /\ batch[b].pc = "trim" /\ Goto(b, "lock") /\ results' = part
      /\ disturbed' = (disturbed \/ Taking)
      /\ UNCHANGED <<parent, count, order, launch, locker, messages, faults>>
  BY DEF Trim, Kept, BatchJobsInv
<1>2. /\ batch[b] \in Task /\ SoundTask(batch[b]) /\ results \in Seq(Result)
  BY <1>1, Batches DEF BatchJobsInv, SoundTasks
<1>3. m \in Nat \ {0} /\ n \in Nat /\ n <= Len(results)
  BY <1>1, <1>2, LenProperties DEF SoundTask, Task, BatchAssumption
<1>4. Distinct(results) /\ \A i \in 1..Len(results) : TrueResult(results[i])
  BY DEF BatchJobsInv, SoundResults
<1> HIDE DEF m, n
<1>5. /\ part \in Seq(Result) /\ Distinct(part) /\ \A i \in 1..Len(part) : TrueResult(part[i])
      /\ results = <<>> => part = <<>>
  BY <1>2, <1>3, <1>4, PartOfList
<1> HIDE DEF part
<1>6. /\ Moves(b, batch'[b]) /\ batch'[b] \in Task /\ batch'[b].pc = "lock"
      /\ batch'[b].outcome = batch[b].outcome /\ batch'[b].stop = batch[b].stop
      /\ batch'[b].taken = batch[b].taken
  BY <1>1, GotoOf DEF Pushed
<1>7. SoundTask(batch'[b])
  BY <1>1, <1>2, <1>6 DEF SoundTask, Pushed, Guarded
<1>8. disturbed' \in BOOLEAN
  BY <1>1
<1>9. TypeOK' /\ ParentsComeFirst' /\ SoundTasks' /\ Launched'
  BY <1>1, <1>5, <1>6, <1>7, <1>8, TypesOfMove DEF TypeOK
<1>10. /\ Batch' = Batch
       /\ \A r : TrueResult(r)' <=> TrueResult(r)
       /\ \A s : Complete(s)' <=> Complete(s)
       /\ AllPushed' <=> AllPushed
  BY <1>6, TruthKept
<1>11. SoundResults'
  BY <1>1, <1>5, <1>10 DEF SoundResults, Distinct
<1>12. /\ \A c \in Batch : batch'[c].taken = batch[c].taken
       /\ \A c \in Batch : batch'[c].pc \in Guarded \cup {"publish"} => batch'[c].pc = batch[c].pc
  BY <1>6 DEF Moves, Guarded
<1>13. \A c \in Batch : Final(c)' => Final(c)
  BY <1>12 DEF Final, Guarded
<1>14. SoundFinal'
  BY <1>1, <1>10, <1>12, <1>13 DEF BatchJobsInv, SoundFinal
<1>15. ASSUME ~disturbed' PROVE ~disturbed /\ \A c \in Batch : batch'[c].pc # "take"
  BY <1>1, <1>12, <1>15 DEF Taking, Guarded
<1>16. OneFinal'
  <2> SUFFICES ASSUME ~disturbed' PROVE OneFinal'
    BY DEF OneFinal
  <2>1. \A c \in Batch : batch'[c].pc \in Guarded => locker' = c
    BY <1>1, <1>12, <1>15, Holders
  <2>2. \A c, d \in Batch : Final(c)' /\ Final(d)' => c = d
    BY <1>13, <1>15 DEF BatchJobsInv, OneFinal
  <2>3. \A c \in Batch : Final(c)' => messages' = <<>>
    BY <1>1, <1>13, <1>15 DEF BatchJobsInv, OneFinal
  <2>4. \A c \in Batch : batch'[c].pc \in {"drop", "publish"} => Complete(batch[c].taken)
    BY <1>12, <1>15 DEF BatchJobsInv, OneFinal, Guarded
  <2>5. (messages' # <<>> \/ \E c \in Batch : batch'[c].pc = "publish") => results' = <<>>
    BY <1>1, <1>5, <1>12, <1>15 DEF BatchJobsInv, OneFinal
  <2> QED
    BY <1>10, <1>12, <1>15, <2>1, <2>2, <2>3, <2>4, <2>5 DEF OneFinal
<1> QED
  BY <1>9, <1>11, <1>14, <1>16 DEF BatchJobsInv

(* A list as long as the import has batches has a result of each.          *)
LEMMA FullList ==
  ASSUME BatchAssumption, BatchJobsInv, NEW b \in Batch, Len(results) = count
  PROVE  Complete(ToSet(results)) /\ AllPushed /\ results # <<>>
<1>1. /\ TypeOK /\ results \in Seq(Result) /\ Len(results) \in Nat
      /\ \A i \in 1..Len(results) : results[i] \in Result
  BY Batches DEF BatchJobsInv
<1>2. Distinct(results) /\ \A i \in 1..Len(results) : TrueResult(results[i])
  BY DEF BatchJobsInv, SoundResults
<1>3. \A c \in Batch : \E i \in 1..Len(results) : results[i].index = c
  BY <1>1, <1>2, ResultsFit DEF TrueResult
<1>4. \A r : r \in ToSet(results) <=> \E i \in 1..Len(results) : r = results[i]
  BY <1>1, LenProperties DEF ToSet
<1>5. Complete(ToSet(results))
  BY <1>2, <1>3, <1>4 DEF Complete
<1>6. \A c \in Batch : batch[c].stop # 0
  BY <1>2, <1>3 DEF TrueResult
<1>7. count # 0
  BY <1>1, Batches DEF Batch
<1>8. results # <<>>
  BY <1>7
<1> QED
  BY <1>5, <1>6, <1>7, <1>8 DEF AllPushed

LEMMA CheckKeeps ==
  ASSUME BatchAssumption, BatchJobsInv, NEW b \in Batch, Check(b)
  PROVE  BatchJobsInv'
<1>1. /\ TypeOK /\ batch[b].pc = "check"
      /\ UNCHANGED <<parent, count, order, launch, results, locker, messages, disturbed, faults>>
  BY DEF Check, BatchJobsInv
<1>2. batch[b] \in Task /\ SoundTask(batch[b])
  BY <1>1, Batches DEF BatchJobsInv, SoundTasks
<1>3. CASE Len(results) # count
  <2>1. Goto(b, "release")
    BY <1>3 DEF Check
  <2>2. ASSUME NEW t, SoundTask(batch[b]), t.pc = "release", t.outcome = batch[b].outcome,
               t.stop = batch[b].stop
        PROVE  SoundTask(t)
    BY <1>1, <2>2 DEF SoundTask, Pushed, Guarded
  <2> QED
    BY <1>1, <2>1, <2>2, StepsOn, Holders DEF Working, Pushed, Guarded, TypeOK
<1>4. CASE Len(results) = count
  <2>1. Goto(b, "take")
    BY <1>4 DEF Check
  <2>2. Complete(ToSet(results)) /\ AllPushed /\ results # <<>>
    BY <1>4, FullList
  <2>3. /\ Moves(b, batch'[b]) /\ batch'[b] \in Task /\ batch'[b].pc = "take"
        /\ batch'[b].outcome = batch[b].outcome /\ batch'[b].stop = batch[b].stop
        /\ batch'[b].taken = batch[b].taken
    BY <1>1, <2>1, GotoOf DEF Pushed, Guarded
  <2>4. SoundTask(batch'[b])
    BY <1>1, <1>2, <2>3 DEF SoundTask, Pushed, Guarded
  <2>5. TypeOK' /\ ParentsComeFirst' /\ SoundTasks' /\ Launched'
    BY <1>1, <2>3, <2>4, TypesOfMove DEF TypeOK
  <2>6. /\ Batch' = Batch
        /\ \A r : TrueResult(r)' <=> TrueResult(r)
        /\ \A s : Complete(s)' <=> Complete(s)
        /\ AllPushed' <=> AllPushed
    BY <2>3, TruthKept
  <2>7. SoundResults'
    BY <1>1, <2>6 DEF BatchJobsInv, SoundResults, Distinct
  <2>8. /\ \A c \in Batch : batch'[c].taken = batch[c].taken
        /\ \A c \in Batch \ {b} : batch'[c].pc = batch[c].pc
    BY <2>3 DEF Moves
  <2>9. SoundFinal'
    BY <1>1, <2>2, <2>6, <2>8 DEF BatchJobsInv, SoundFinal
  <2>10. OneFinal'
    <3> SUFFICES ASSUME ~disturbed PROVE OneFinal'
      BY <1>1 DEF OneFinal
    <3>1. locker = b /\ \A c \in Batch \ {b} : batch[c].pc \notin Guarded
      BY <1>1, Holders DEF Guarded
    <3>2. messages = <<>> /\ \A c \in Batch : batch[c].pc # "publish"
      BY <2>2 DEF BatchJobsInv, OneFinal
    <3>3. \A c \in Batch : batch'[c].pc \in Guarded \cup {"publish"} => c = b
      BY <2>8, <3>1, <3>2
    <3>4. \A c \in Batch : Final(c)' => c = b
      BY <3>3 DEF Final, Guarded
    <3>5. \A c \in Batch : batch'[c].pc \notin {"drop", "publish"}
      BY <2>3, <3>3 DEF Guarded
    <3> QED
      BY <1>1, <2>2, <2>6, <3>1, <3>2, <3>3, <3>4, <3>5 DEF OneFinal
  <2> QED
    BY <2>5, <2>7, <2>9, <2>10 DEF BatchJobsInv
<1> QED
  BY <1>3, <1>4

LEMMA TakeKeeps ==
  ASSUME BatchAssumption, BatchJobsInv, NEW b \in Batch, Take(b)
  PROVE  BatchJobsInv'
<1> DEFINE all == ToSet(results)
           t1 == [batch[b] EXCEPT !.pc = "drop"]
           t == [t1 EXCEPT !.taken = all]
<1>1. /\ TypeOK /\ batch[b].pc = "take" /\ batch' = [batch EXCEPT ![b] = t]
      /\ UNCHANGED <<parent, count, order, launch, results, locker, messages, disturbed, faults>>
  BY DEF Take, BatchJobsInv
<1>2. /\ batch[b] \in Task /\ SoundTask(batch[b]) /\ results \in Seq(Result)
      /\ \A i \in 1..Len(results) : results[i] \in Result
  BY <1>1, Batches DEF BatchJobsInv, SoundTasks
<1>3. all \in SUBSET Result /\ \A r \in all : TrueResult(r)
  BY <1>2, LenProperties DEF ToSet, BatchJobsInv, SoundResults
<1>4. ~disturbed => Complete(all)
  BY <1>1 DEF BatchJobsInv, OneFinal
<1> HIDE DEF all
<1>5. /\ t1 \in Task /\ t1.pc = "drop" /\ t1.outcome = batch[b].outcome /\ t1.stop = batch[b].stop
  BY <1>2 DEF Task, Pushed, Guarded
<1> HIDE DEF t1
<1>6. /\ t \in Task /\ t.pc = "drop" /\ t.outcome = batch[b].outcome /\ t.stop = batch[b].stop
      /\ t.taken = all
  BY <1>3, <1>5 DEF Task
<1> HIDE DEF t
<1>7. SoundTask(t)
  BY <1>1, <1>2, <1>6 DEF SoundTask, Pushed, Guarded
<1>8. Moves(b, t)
  BY <1>1, MovesOf
<1>9. TypeOK' /\ ParentsComeFirst' /\ SoundTasks' /\ Launched'
  BY <1>1, <1>6, <1>7, <1>8, TypesOfMove DEF TypeOK
<1>10. /\ Batch' = Batch
       /\ \A r : TrueResult(r)' <=> TrueResult(r)
       /\ \A s : Complete(s)' <=> Complete(s)
       /\ AllPushed' <=> AllPushed
  BY <1>6, <1>8, TruthKept
<1>11. SoundResults'
  BY <1>1, <1>10 DEF BatchJobsInv, SoundResults, Distinct
<1>12. batch'[b] = t /\ \A c \in Batch \ {b} : batch'[c] = batch[c]
  BY <1>8 DEF Moves
<1>13. \A c \in Batch : Final(c)' <=> Final(c)
  BY <1>1, <1>6, <1>12 DEF Final
<1>14. \A c \in Batch : \A r \in batch'[c].taken : TrueResult(r)
  BY <1>3, <1>6, <1>12 DEF BatchJobsInv, SoundFinal
<1>15. SoundFinal'
  BY <1>1, <1>10, <1>13, <1>14 DEF BatchJobsInv, SoundFinal
<1>16. OneFinal'
  <2> SUFFICES ASSUME ~disturbed PROVE OneFinal'
    BY <1>1 DEF OneFinal
  <2>1. \A c \in Batch : batch'[c].pc \in Guarded => locker' = c
    BY <1>1, <1>6, <1>12, Holders DEF Guarded
  <2>2. \A c \in Batch : Final(c) => c = b
    BY <1>1 DEF BatchJobsInv, OneFinal, Final
  <2>3. \A c \in Batch : batch'[c].pc \in {"take", "drop", "publish"} => c = b
    BY <2>2, <1>12 DEF Final
  <2>4. messages' = <<>>
    BY <1>1 DEF BatchJobsInv, OneFinal, Final
  <2>5. \A c \in Batch : batch'[c].pc # "take" /\ batch'[c].pc # "publish"
    BY <1>6, <1>12, <2>3
  <2>6. \A c \in Batch : batch'[c].pc \in {"drop", "publish"} => Complete(batch'[c].taken)
    BY <1>4, <1>6, <1>12, <2>3
  <2> QED
    BY <1>10, <1>13, <2>1, <2>2, <2>4, <2>5, <2>6 DEF OneFinal
<1> QED
  BY <1>9, <1>11, <1>15, <1>16 DEF BatchJobsInv

LEMMA DropKeeps ==
  ASSUME BatchAssumption, BatchJobsInv, NEW b \in Batch, Drop(b)
  PROVE  BatchJobsInv'
<1>1. /\ TypeOK /\ batch[b].pc = "drop" /\ Goto(b, "publish") /\ results' = <<>>
      /\ UNCHANGED <<parent, count, order, launch, locker, messages, disturbed, faults>>
  BY DEF Drop, BatchJobsInv
<1>2. batch[b] \in Task /\ SoundTask(batch[b])
  BY <1>1, Batches DEF BatchJobsInv, SoundTasks
<1>3. /\ Moves(b, batch'[b]) /\ batch'[b] \in Task /\ batch'[b].pc = "publish"
      /\ batch'[b].outcome = batch[b].outcome /\ batch'[b].stop = batch[b].stop
      /\ batch'[b].taken = batch[b].taken
  BY <1>1, GotoOf DEF Pushed
<1>4. SoundTask(batch'[b])
  BY <1>1, <1>2, <1>3 DEF SoundTask, Pushed, Guarded
<1>5. TypeOK' /\ ParentsComeFirst' /\ SoundTasks' /\ Launched'
  BY <1>1, <1>3, <1>4, TypesOfMove DEF TypeOK
<1>6. /\ Batch' = Batch
      /\ \A r : TrueResult(r)' <=> TrueResult(r)
      /\ \A s : Complete(s)' <=> Complete(s)
      /\ AllPushed' <=> AllPushed
  BY <1>3, TruthKept
<1>7. SoundResults'
  BY <1>1, EmptySeq DEF SoundResults, Distinct
<1>8. /\ \A c \in Batch : batch'[c].taken = batch[c].taken
      /\ \A c \in Batch \ {b} : batch'[c].pc = batch[c].pc
  BY <1>3 DEF Moves
<1>9. \A c \in Batch : Final(c)' <=> Final(c)
  BY <1>1, <1>3, <1>8 DEF Final
<1>10. SoundFinal'
  BY <1>1, <1>6, <1>8, <1>9 DEF BatchJobsInv, SoundFinal
<1>11. OneFinal'
  <2> SUFFICES ASSUME ~disturbed PROVE OneFinal'
    BY <1>1 DEF OneFinal
  <2>1. \A c \in Batch : batch'[c].pc \in Guarded => locker' = c
    BY <1>1, <1>3, <1>8, Holders DEF Guarded
  <2>2. \A c \in Batch : Final(c) => c = b
    BY <1>1 DEF BatchJobsInv, OneFinal, Final
  <2>3. messages' = <<>> /\ Complete(batch[b].taken)
    BY <1>1 DEF BatchJobsInv, OneFinal, Final
  <2>4. \A c \in Batch : batch'[c].pc \in {"take", "drop", "publish"} => c = b
    BY <1>9, <2>2 DEF Final
  <2>5. \A c \in Batch : batch'[c].pc # "take"
    BY <1>3, <2>4
  <2>6. \A c \in Batch : batch'[c].pc \in {"drop", "publish"} => Complete(batch'[c].taken)
    BY <1>8, <2>3, <2>4
  <2> QED
    BY <1>1, <1>6, <1>9, <2>1, <2>2, <2>3, <2>5, <2>6 DEF OneFinal
<1> QED
  BY <1>5, <1>7, <1>10, <1>11 DEF BatchJobsInv

LEMMA PublishKeeps ==
  ASSUME BatchAssumption, BatchJobsInv, NEW b \in Batch, Publish(b)
  PROVE  BatchJobsInv'
<1> DEFINE m == IF \A r \in batch[b].taken : r.status THEN "success" ELSE "failure"
<1>1. /\ TypeOK /\ batch[b].pc = "publish" /\ Goto(b, "release") /\ messages' = Append(messages, m)
      /\ UNCHANGED <<parent, count, order, launch, results, locker, disturbed, faults>>
  BY DEF Publish, BatchJobsInv
<1>2. m \in {"success", "failure"}
  OBVIOUS
<1> HIDE DEF m
<1>3. messages' \in Seq({"success", "failure"})
  BY <1>1, <1>2 DEF TypeOK
<1>4. batch[b] \in Task /\ SoundTask(batch[b])
  BY <1>1, Batches DEF BatchJobsInv, SoundTasks
<1>5. /\ Moves(b, batch'[b]) /\ batch'[b] \in Task /\ batch'[b].pc = "release"
      /\ batch'[b].outcome = batch[b].outcome /\ batch'[b].stop = batch[b].stop
      /\ batch'[b].taken = batch[b].taken
  BY <1>1, GotoOf DEF Pushed
<1>6. SoundTask(batch'[b])
  BY <1>1, <1>4, <1>5 DEF SoundTask, Pushed, Guarded
<1>7. TypeOK' /\ ParentsComeFirst' /\ SoundTasks' /\ Launched'
  BY <1>1, <1>3, <1>5, <1>6, TypesOfMove DEF TypeOK
<1>8. /\ Batch' = Batch
      /\ \A r : TrueResult(r)' <=> TrueResult(r)
      /\ \A s : Complete(s)' <=> Complete(s)
      /\ AllPushed' <=> AllPushed
  BY <1>5, TruthKept
<1>9. SoundResults'
  BY <1>1, <1>8 DEF BatchJobsInv, SoundResults, Distinct
<1>10. /\ \A c \in Batch : batch'[c].taken = batch[c].taken
       /\ \A c \in Batch \ {b} : batch'[c].pc = batch[c].pc
  BY <1>5 DEF Moves
<1>11. \A c \in Batch : Final(c)' => Final(c) /\ c # b
  BY <1>5, <1>10 DEF Final
<1>12. Final(b) /\ AllPushed
  BY <1>1 DEF BatchJobsInv, SoundFinal, Final
<1>13. SoundFinal'
  BY <1>8, <1>10, <1>11, <1>12 DEF BatchJobsInv, SoundFinal
<1>14. OneFinal'
  <2> SUFFICES ASSUME ~disturbed PROVE OneFinal'
    BY <1>1 DEF OneFinal
  <2>1. \A c \in Batch : batch'[c].pc \in Guarded => locker' = c
    BY <1>1, <1>5, <1>10, Holders DEF Guarded
  <2>2. \A c \in Batch : ~Final(c)'
    BY <1>11, <1>12 DEF BatchJobsInv, OneFinal
  <2>3. \A c \in Batch : batch'[c].pc \notin {"take", "drop", "publish"}
    BY <2>2 DEF Final
  <2>4. results' = <<>>
    BY <1>1 DEF BatchJobsInv, OneFinal
  <2> QED
    BY <1>8, <2>1, <2>2, <2>3, <2>4 DEF OneFinal
<1> QED
  BY <1>7, <1>9, <1>13, <1>14 DEF BatchJobsInv

-----------------------------------------------------------------------------
(* Steps that are not a task's *)

(* A step that leaves the tasks and what they have pushed; it may disturb. *)
LEMMA TasksKept ==
  ASSUME BatchJobsInv, UNCHANGED <<parent, count, order, launch, batch, messages>>,
         results' = results \/ results' = <<>>,
         locker' \in 0..MaxBatches, disturbed' \in BOOLEAN, faults' \in 0..MaxFaults,
         ~disturbed' => /\ ~disturbed
                        /\ \A c \in Batch : batch[c].pc \in Guarded => locker' = c
                        /\ results' = results \/ ~Taking
  PROVE  BatchJobsInv'
<1>1. Batch' = Batch
  BY DEF Batch
<1>2. results' \in Seq(Result)
  BY EmptySeq DEF BatchJobsInv, TypeOK
<1>3. TypeOK' /\ ParentsComeFirst' /\ Launched'
  BY <1>1, <1>2 DEF BatchJobsInv, TypeOK, ParentsComeFirst, Launched
<1>4. SoundTasks'
  BY <1>1 DEF BatchJobsInv, SoundTasks
<1>5. \A r : TrueResult(r)' <=> TrueResult(r)
  BY <1>1 DEF TrueResult
<1>6. SoundResults'
  <2>1. CASE results' = results
    BY <1>5, <2>1 DEF BatchJobsInv, SoundResults, Distinct
  <2>2. CASE results' = <<>>
    BY <2>2, EmptySeq DEF SoundResults, Distinct
  <2> QED
    BY <2>1, <2>2
<1>7. (\A s : Complete(s)' <=> Complete(s)) /\ (AllPushed' <=> AllPushed)
  BY <1>1, <1>5 DEF Complete, AllPushed
<1>8. \A c \in Batch : Final(c)' <=> Final(c)
  BY DEF Final
<1>9. SoundFinal'
  BY <1>1, <1>5, <1>7, <1>8 DEF BatchJobsInv, SoundFinal
<1>10. OneFinal'
  <2> SUFFICES ASSUME ~disturbed' PROVE OneFinal'
    BY DEF OneFinal
  <2>1. ASSUME NEW c \in Batch, batch[c].pc = "take" PROVE Complete(ToSet(results)) /\ results' = results
    BY <2>1 DEF Taking, BatchJobsInv, OneFinal
  <2>2. \A c \in Batch : batch[c].pc \in {"drop", "publish"} => Complete(batch[c].taken)
    BY DEF BatchJobsInv, OneFinal
  <2>3. (messages # <<>> \/ \E c \in Batch : batch[c].pc = "publish") => results' = <<>>
    BY DEF BatchJobsInv, OneFinal
  <2>4. /\ \A c, d \in Batch : Final(c) /\ Final(d) => c = d
        /\ \A c \in Batch : Final(c) => messages = <<>>
    BY DEF BatchJobsInv, OneFinal
  <2> QED
    BY <1>1, <1>7, <1>8, <2>1, <2>2, <2>3, <2>4 DEF OneFinal
<1> QED
  BY <1>3, <1>4, <1>6, <1>9, <1>10 DEF BatchJobsInv

LEMMA LockExpiresKeeps ==
  ASSUME BatchAssumption, BatchJobsInv, LockExpires
  PROVE  BatchJobsInv'
<1>1. /\ UNCHANGED <<parent, count, order, launch, batch, results, messages>> /\ locker' = 0
      /\ faults' = faults \/ (faults < MaxFaults /\ faults' = faults + 1)
      /\ disturbed' = disturbed \/ disturbed' = (disturbed \/ batch[locker].pc \in Guarded)
  BY DEF LockExpires
<1>2. disturbed' \in BOOLEAN
  BY <1>1 DEF BatchJobsInv, TypeOK
<1>3. locker' \in 0..MaxBatches /\ faults' \in 0..MaxFaults
  BY <1>1 DEF BatchJobsInv, TypeOK, BatchAssumption
<1>4. ASSUME ~disturbed' PROVE ~disturbed /\ \A c \in Batch : batch[c].pc \notin Guarded
  <2>1. CASE batch[locker].pc \in Ended /\ UNCHANGED <<faults, disturbed>>
    BY <1>4, <2>1, Holders DEF Ended, Guarded
  <2>2. CASE disturbed' = (disturbed \/ batch[locker].pc \in Guarded)
    BY <1>4, <2>2, Holders
  <2> QED
    BY <2>1, <2>2 DEF LockExpires
<1> QED
  BY <1>1, <1>2, <1>3, <1>4, TasksKept

LEMMA ListExpiresKeeps ==
  ASSUME BatchAssumption, BatchJobsInv, ListExpires
  PROVE  BatchJobsInv'
<1>1. /\ UNCHANGED <<parent, count, order, launch, batch, locker, messages>> /\ results' = <<>>
      /\ faults' = faults + 1 /\ faults < MaxFaults /\ disturbed' = (disturbed \/ Taking)
  BY DEF ListExpires
<1>2. locker' \in 0..MaxBatches /\ faults' \in 0..MaxFaults /\ disturbed' \in BOOLEAN
  BY <1>1 DEF BatchJobsInv, TypeOK, BatchAssumption
<1> QED
  BY <1>1, <1>2, TasksKept, Holders

LEMMA SendFailsKeeps ==
  ASSUME BatchAssumption, BatchJobsInv, SendFails
  PROVE  BatchJobsInv'
<1> DEFINE lost(b) == [batch[b] EXCEPT !.pc = "lost"]
           after(b) == IF batch[b].pc = "unsent" THEN lost(b) ELSE batch[b]
<1>1. /\ TypeOK /\ launch = "send" /\ launch' = "failed" /\ faults < MaxFaults
      /\ faults' = faults + 1
      /\ batch' = [b \in Batch |-> after(b)]
      /\ UNCHANGED <<parent, count, order, results, locker, messages, disturbed>>
  BY DEF SendFails, BatchJobsInv
<1>2. Batch' = Batch
  BY <1>1 DEF Batch
<1>3. \A b \in Batch : batch[b] \in Task /\ SoundTask(batch[b])
  BY <1>1, Batches DEF BatchJobsInv, SoundTasks
<1>4. ASSUME NEW b \in Batch
      PROVE  /\ after(b) \in Task /\ SoundTask(after(b)) /\ after(b).taken = batch[b].taken
             /\ after(b).stop = batch[b].stop /\ after(b).outcome = batch[b].outcome
             /\ after(b).pc = batch[b].pc \/ (batch[b].pc = "unsent" /\ after(b).pc = "lost")
  <2>1. CASE batch[b].pc = "unsent"
    <3>1. /\ lost(b) \in Task /\ lost(b).pc = "lost" /\ lost(b).taken = batch[b].taken
          /\ lost(b).stop = batch[b].stop /\ lost(b).outcome = batch[b].outcome
      BY <1>3 DEF Task, Ended
    <3>2. after(b) = lost(b)
      BY <2>1
    <3> HIDE DEF lost, after
    <3>3. SoundTask(lost(b))
      BY <1>3, <2>1, <3>1 DEF SoundTask, Pushed, Guarded
    <3> QED
      BY <2>1, <3>1, <3>2, <3>3
  <2>2. CASE batch[b].pc # "unsent"
    BY <1>3, <2>2
  <2> QED
    BY <2>1, <2>2
<1> HIDE DEF after
<1>5. \A b \in Batch : batch'[b] = after(b)
  BY <1>1
<1>6. batch' \in [Batch -> Task]
  BY <1>1, <1>4
<1>7. faults' \in 0..MaxFaults
  BY <1>1 DEF TypeOK, BatchAssumption
<1>8. TypeOK' /\ ParentsComeFirst' /\ Launched'
  BY <1>1, <1>2, <1>6, <1>7 DEF BatchJobsInv, TypeOK, ParentsComeFirst, Launched
<1>9. SoundTasks'
  BY <1>2, <1>4, <1>5 DEF SoundTasks
<1>10. \A r : TrueResult(r)' <=> TrueResult(r)
  BY <1>2, <1>4, <1>5 DEF TrueResult
<1>11. SoundResults'
  BY <1>1, <1>10 DEF BatchJobsInv, SoundResults, Distinct
<1>12. (\A s : Complete(s)' <=> Complete(s)) /\ (AllPushed' <=> AllPushed)
  BY <1>1, <1>2, <1>4, <1>5, <1>10 DEF Complete, AllPushed
<1>13. \A b \in Batch :
         /\ batch'[b].taken = batch[b].taken
         /\ batch'[b].pc \in Guarded \cup {"publish"} => batch'[b].pc = batch[b].pc
  BY <1>4, <1>5 DEF Guarded
<1>14. \A b \in Batch : Final(b)' => Final(b)
  BY <1>13 DEF Final, Guarded
<1>15. SoundFinal'
  BY <1>1, <1>2, <1>10, <1>12, <1>13, <1>14 DEF BatchJobsInv, SoundFinal
<1>16. OneFinal'
  BY <1>1, <1>2, <1>12, <1>13, <1>14 DEF BatchJobsInv, OneFinal, Guarded
<1> QED
  BY <1>8, <1>9, <1>11, <1>15, <1>16 DEF BatchJobsInv

(* Before the rows are split nothing has happened. *)
LEMMA NothingYet ==
  ASSUME BatchAssumption, BatchJobsInv, launch = "sort"
  PROVE  count = 0 /\ results = <<>> /\ messages = <<>> /\ order = <<>> /\ Batch = {}
<1>1. count = 0 /\ order = <<>> /\ Batch = {}
  BY DEF BatchJobsInv, Launched, Batch
<1>2. messages = <<>>
  BY <1>1 DEF BatchJobsInv, SoundFinal, AllPushed
<1>3. results \in Seq(Result) /\ \A i \in 1..Len(results) : results[i].index \in Batch
  BY DEF BatchJobsInv, TypeOK, SoundResults, TrueResult
<1>4. Len(results) = 0
  BY <1>1, <1>3, LenProperties
<1> QED
  BY <1>1, <1>2, <1>3, <1>4, EmptySeq

(* The tasks are there, and none has done anything; or there is none.      *)
LEMMA CutKeeps ==
  ASSUME BatchAssumption, BatchJobsInv, launch = "sort", NEW n \in 0..MaxBatches, Cut(n),
         UNCHANGED <<parent, results, locker, messages, disturbed, faults>>,
         order' \in Seq(Item), ParentsComeFirst'
  PROVE  BatchJobsInv'
<1>1. /\ results = <<>> /\ messages = <<>> /\ Batch' = 1..n
      /\ count' = n /\ batch' = [b \in 1..n |-> Unsent] /\ launch' \in {"send", "sent"}
  BY NothingYet DEF Batch, Cut
<1>2. /\ Unsent \in Task /\ SoundTask(Unsent) /\ Unsent.pc = "unsent" /\ Unsent.taken = {}
  BY DEF Unsent, Task, SoundTask, Pushed, Guarded, BatchAssumption
<1>3. \A b \in 1..n : batch'[b] = Unsent
  BY <1>1
<1>4. TypeOK'
  BY <1>1, <1>2 DEF BatchJobsInv, TypeOK
<1>5. SoundTasks' /\ Launched'
  BY <1>1, <1>2, <1>3 DEF SoundTasks, Launched
<1>6. SoundResults'
  BY <1>1, EmptySeq DEF SoundResults, Distinct
<1>7. \A b \in 1..n : ~Final(b)' /\ batch'[b].pc \notin Guarded /\ batch'[b].pc # "publish"
  BY <1>2, <1>3 DEF Final, Guarded
<1>8. SoundFinal'
  BY <1>1, <1>2, <1>3, <1>7 DEF SoundFinal
<1>9. OneFinal'
  BY <1>1, <1>7 DEF OneFinal, Guarded
<1> QED
  BY <1>4, <1>5, <1>6, <1>8, <1>9 DEF BatchJobsInv

LEMMA SplitKeeps ==
  ASSUME BatchAssumption, BatchJobsInv, NEW n \in 0..MaxBatches, Split(n)
  PROVE  BatchJobsInv'
<1>1. /\ launch = "sort" /\ Cut(n)
      /\ UNCHANGED <<parent, order, results, locker, messages, disturbed, faults>>
  BY DEF Split
<1>2. launch' # "refused"
  BY <1>1 DEF Cut
<1>3. order' \in Seq(Item) /\ ParentsComeFirst'
  BY <1>1, <1>2 DEF BatchJobsInv, TypeOK, ParentsComeFirst
<1> QED
  BY <1>1, <1>3, CutKeeps

LEMMA SortKeeps == ASSUME BatchAssumption, BatchJobsInv, Sort PROVE BatchJobsInv'
<1> DEFINE o == Rounds.order
           n == IF Item = {} THEN 0 ELSE 1
<1>1. /\ launch = "sort" /\ UNCHANGED <<parent, results, locker, messages, disturbed, faults>> /\ TypeOK
      /\ order = <<>> /\ count = 0
  BY NothingYet DEF Sort, BatchJobsInv
<1>2. /\ o \in Seq(Item)
      /\ Len(o) = Cardinality(Item) =>
           ToSet(o) = Item /\ \A i, j \in DOMAIN o : parent[o[i]] = o[j] => j < i
      /\ Len(o) # Cardinality(Item) => \E S \in SUBSET Item \ {{}} : \A i \in S : parent[i] \in S
  BY SortsOrRefuses DEF BatchAssumption
<1>3. CASE Len(o) = Cardinality(Item)
  <2>1. order' = o /\ Cut(n)
    BY <1>3 DEF Sort
  <2>2. n \in 0..MaxBatches
    BY DEF BatchAssumption
  <2> HIDE DEF o, n
  <2>3. launch' # "refused"
    BY <2>1 DEF Cut
  <2>4. ParentsComeFirst'
    BY <1>1, <1>2, <1>3, <2>1, <2>3 DEF ParentsComeFirst
  <2> QED
    BY <1>1, <1>2, <2>1, <2>2, <2>4, CutKeeps
<1>4. CASE Len(o) # Cardinality(Item)
  <2>1. launch' = "refused" /\ UNCHANGED <<order, count, batch>>
    BY <1>4 DEF Sort
  <2>2. Batch' = Batch /\ Batch = {}
    BY <1>1, <2>1 DEF Batch
  <2>3. TypeOK'
    BY <1>1, <2>1, <2>2 DEF TypeOK
  <2>4. ParentsComeFirst'
    BY <1>1, <1>2, <1>4, <2>1 DEF ParentsComeFirst
  <2>5. results' = <<>> /\ messages' = <<>>
    BY <1>1, NothingYet
  <2>6. SoundTasks' /\ Launched'
    BY <1>1, <2>1, <2>2 DEF SoundTasks, Launched
  <2>7. SoundResults'
    BY <2>5, EmptySeq DEF SoundResults, Distinct
  <2>8. SoundFinal' /\ OneFinal'
    BY <2>2, <2>5 DEF SoundFinal, OneFinal
  <2> QED
    BY <2>3, <2>4, <2>6, <2>7, <2>8 DEF BatchJobsInv
<1> QED
  BY <1>3, <1>4

LEMMA BatchJobsInvInit == ASSUME BatchAssumption, Init PROVE BatchJobsInv
<1>1. /\ Batch = {} /\ batch = <<>> /\ results = <<>> /\ messages = <<>> /\ launch = "sort" /\ count = 0
      /\ order = <<>>
  BY DEF Init, Batch
<1>2. TypeOK
  <2>1. batch \in [Batch -> Task]
    BY <1>1
  <2>2. order \in Seq(Item) /\ results \in Seq(Result) /\ messages \in Seq({"success", "failure"})
    BY <1>1, EmptySeq
  <2>3. count \in 0..MaxBatches /\ locker \in 0..MaxBatches /\ faults \in 0..MaxFaults
    BY DEF Init, BatchAssumption
  <2> QED
    BY <2>1, <2>2, <2>3 DEF Init, TypeOK
<1>3. ParentsComeFirst /\ Launched /\ SoundTasks /\ SoundFinal /\ OneFinal
  BY <1>1 DEF ParentsComeFirst, Launched, SoundTasks, SoundFinal, OneFinal
<1>4. SoundResults
  BY <1>1, EmptySeq DEF SoundResults, Distinct
<1> QED
  BY <1>2, <1>3, <1>4 DEF BatchJobsInv

LEMMA BatchJobsInvNext ==
  ASSUME BatchAssumption, BatchJobsInv, [Next]_vars
  PROVE  BatchJobsInv'
<1>1. ASSUME NEW b \in Batch, Work(b) PROVE BatchJobsInv'
  BY <1>1, StartKeeps, PushKeeps, MeasureKeeps, TrimKeeps, AcquireKeeps, LookKeeps, CheckKeeps, TakeKeeps,
     DropKeeps, PublishKeeps, ReleaseKeeps, ViewKeeps DEF Work
<1>2. ASSUME NEW b \in Batch, Send(b) \/ Crash(b) PROVE BatchJobsInv'
  BY <1>2, SendKeeps, CrashKeeps
<1>3. CASE UNCHANGED vars
  BY <1>3, TasksKept, Holders DEF vars, BatchJobsInv, TypeOK
<1>4. CASE \E n \in 0..MaxBatches : Split(n)
  BY <1>4, SplitKeeps
<1> QED
  BY <1>1, <1>2, <1>3, <1>4, SortKeeps, SendFailsKeeps, LockExpiresKeeps,
     ListExpiresKeeps DEF Next

(* import_data, topological_sort and background_task_view_set_job: rows     *)
(* come after their parents or the import is refused; the list has one true *)
(* result of a task at most; who goes to read the list comes after all      *)
(* tasks; and unless the lock ran out on a task at the list, or the list    *)
(* changed between the looks of one, one task reads it, with all results.   *)
THEOREM BatchesAreSound == Spec => []BatchJobsInv
<1>1. Init => BatchJobsInv
  BY BatchJobsInvInit, BatchAssumption
<1>2. BatchJobsInv /\ [Next]_vars => BatchJobsInv'
  BY BatchJobsInvNext, BatchAssumption
<1> QED
  BY <1>1, <1>2, PTL DEF Spec

-----------------------------------------------------------------------------
(* What the user sees *)

OutcomeOf(t) == IF t.pc = "lost" /\ t.outcome = "pending" THEN "lost" ELSE t.outcome

LEMMA OutcomeIs == Outcome = [b \in Batch |-> OutcomeOf(batch[b])]
BY DEF Outcome, OutcomeOf

(* A step of a task that the user does not see. *)
LEMMA OutcomeKept ==
  ASSUME NEW b \in Batch, NEW t, Moves(b, t), OutcomeOf(t) = OutcomeOf(batch[b])
  PROVE  Outcome' = Outcome
<1>1. Batch' = Batch
  BY DEF Moves, Batch
<1>2. \A c \in Batch : OutcomeOf(batch'[c]) = OutcomeOf(batch[c])
  BY DEF Moves
<1>3. Outcome' = [c \in Batch |-> OutcomeOf(batch'[c])]
  BY <1>1 DEF Outcome, OutcomeOf
<1> QED
  BY <1>2, <1>3, OutcomeIs

LEMMA Unseen ==
  ASSUME UNCHANGED <<Outcome, messages>>, disturbed' = disturbed \/ disturbed' = TRUE
  PROVE  Report!Next \/ UNCHANGED Report!vars
BY DEF Report!Next, Report!Disturb, Report!vars

(* A step that ends one part of the import. *)
LEMMA EndsOne ==
  ASSUME BatchJobsInv, NEW b \in Batch, NEW t, Moves(b, t), OutcomeOf(batch[b]) = "pending",
         OutcomeOf(t) \in {"accepted", "rejected", "lost"}, UNCHANGED <<messages, disturbed>>
  PROVE  Report!Next
<1> DEFINE o == OutcomeOf(t)
<1>1. Batch' = Batch
  BY DEF Moves, Batch
<1>2. \A c \in Batch : OutcomeOf(batch'[c]) = IF c \in {b} THEN o ELSE OutcomeOf(batch[c])
  BY DEF Moves
<1> HIDE DEF o
<1>3. Outcome' = [c \in Batch |-> OutcomeOf(batch'[c])]
  BY <1>1 DEF Outcome, OutcomeOf
<1>4. DOMAIN Outcome = Batch /\ \A c \in Batch : Outcome[c] = OutcomeOf(batch[c])
  BY OutcomeIs
<1>5. Outcome' = [c \in DOMAIN Outcome |-> IF c \in {b} THEN o ELSE Outcome[c]]
  BY <1>2, <1>3, <1>4
<1>6. Report!Finish({b}, o)
  BY <1>4, <1>5 DEF Report!Finish
<1>7. {b} \in SUBSET DOMAIN Outcome /\ o \in {"accepted", "rejected", "lost"}
  BY <1>4 DEF o
<1> QED
  BY <1>6, <1>7 DEF Report!Next

(* A task that goes to another label without an end. *)
LEMMA GotoUnseen ==
  ASSUME BatchAssumption, BatchJobsInv, NEW b \in Batch, NEW pc, Goto(b, pc), count' = count,
         batch[b].pc # "lost", pc # "lost",
         pc \in Working \cup Pushed \cup Ended \cup {"unsent", "queued"}
  PROVE  Outcome' = Outcome
<1>1. /\ Moves(b, batch'[b]) /\ batch'[b].pc = pc /\ batch'[b].outcome = batch[b].outcome
  BY GotoOf DEF BatchJobsInv
<1> QED
  BY <1>1, OutcomeKept DEF OutcomeOf

(* Steps of a task from one label to another. *)
LEMMA WalkUnseen ==
  ASSUME BatchAssumption, BatchJobsInv, NEW b \in Batch,
         Send(b) \/ Start(b) \/ Trim(b) \/ Acquire(b) \/ Look(b) \/ Check(b) \/ Drop(b) \/ Release(b)
  PROVE  Report!Next \/ UNCHANGED Report!vars
<1>1. /\ count' = count /\ messages' = messages /\ batch[b].pc # "lost"
      /\ \E pc \in {"queued", "view", "lock", "look", "check", "take", "publish", "release",
                    "done", "broken"} : Goto(b, pc)
  BY DEF Send, Start, Trim, Acquire, Look, Check, Drop, Release, Goto
<1>2. Outcome' = Outcome
  BY <1>1, GotoUnseen DEF Working, Pushed, Guarded, Ended
<1>3. disturbed' = disturbed \/ disturbed' = TRUE
  BY DEF Send, Start, Trim, Acquire, Look, Check, Drop, Release, BatchJobsInv, TypeOK
<1> QED
  BY <1>1, <1>2, <1>3, Unseen

LEMMA PushUnseen ==
  ASSUME BatchAssumption, BatchJobsInv, NEW b \in Batch, Push(b)
  PROVE  Report!Next \/ UNCHANGED Report!vars
<1> DEFINE s == <<[index |-> b, status |-> batch[b].outcome = "accepted"]>> \o results
           t1 == [batch[b] EXCEPT !.pc = "size"]
           t == [t1 EXCEPT !.stop = Len(s)]
<1>1. /\ TypeOK /\ batch[b].pc = "push" /\ batch' = [batch EXCEPT ![b] = t]
      /\ UNCHANGED <<count, messages, disturbed>> /\ batch[b] \in Task
  BY Batches DEF Push, BatchJobsInv
<1> HIDE DEF s
<1>2. t.outcome = batch[b].outcome /\ t.pc # "lost"
  BY <1>1 DEF Task
<1> HIDE DEF t, t1
<1>3. Moves(b, t)
  BY <1>1, MovesOf
<1>4. Outcome' = Outcome
  BY <1>1, <1>2, <1>3, OutcomeKept DEF OutcomeOf
<1> QED
  BY <1>1, <1>4, Unseen

LEMMA MeasureUnseen ==
  ASSUME BatchAssumption, BatchJobsInv, NEW b \in Batch, Measure(b)
  PROVE  Report!Next \/ UNCHANGED Report!vars
<1>1. /\ TypeOK /\ batch[b].pc = "size" /\ UNCHANGED <<count, messages, disturbed>> /\ batch[b] \in Task
  BY Batches DEF Measure, BatchJobsInv
<1>2. CASE ~(MaxSize < Len(results))
  <2>1. Goto(b, "lock")
    BY <1>2 DEF Measure, Goto
  <2>2. Outcome' = Outcome
    BY <1>1, <2>1, GotoUnseen DEF Pushed
  <2> QED
    BY <1>1, <2>2, Unseen
<1>3. CASE MaxSize < Len(results)
  <2> DEFINE t1 == [batch[b] EXCEPT !.pc = "trim"]
             t == [t1 EXCEPT !.stop = Len(results)]
  <2>1. batch' = [batch EXCEPT ![b] = t]
    BY <1>3 DEF Measure
  <2>2. t.outcome = batch[b].outcome /\ t.pc # "lost"
    BY <1>1 DEF Task
  <2> HIDE DEF t, t1
  <2>3. Moves(b, t)
    BY <1>1, <2>1, MovesOf
  <2>4. Outcome' = Outcome
    BY <1>1, <2>2, <2>3, OutcomeKept DEF OutcomeOf
  <2> QED
    BY <1>1, <2>4, Unseen
<1> QED
  BY <1>2, <1>3

LEMMA TakeUnseen ==
  ASSUME BatchAssumption, BatchJobsInv, NEW b \in Batch, Take(b)
  PROVE  Report!Next \/ UNCHANGED Report!vars
<1> DEFINE t1 == [batch[b] EXCEPT !.pc = "drop"]
           t == [t1 EXCEPT !.taken = ToSet(results)]
<1>1. /\ TypeOK /\ batch[b].pc = "take" /\ batch' = [batch EXCEPT ![b] = t]
      /\ UNCHANGED <<count, messages, disturbed>> /\ batch[b] \in Task
  BY Batches DEF Take, BatchJobsInv
<1>2. t.outcome = batch[b].outcome /\ t.pc # "lost"
  BY <1>1 DEF Task
<1> HIDE DEF t, t1
<1>3. Moves(b, t)
  BY <1>1, MovesOf
<1>4. Outcome' = Outcome
  BY <1>1, <1>2, <1>3, OutcomeKept DEF OutcomeOf
<1> QED
  BY <1>1, <1>4, Unseen

(* The view ends its part, and so does a crash before it has returned. *)
LEMMA ViewEnds ==
  ASSUME BatchAssumption, BatchJobsInv, NEW b \in Batch, NEW o \in {"accepted",
         "rejected"}, View(b, o)
  PROVE  Report!Next
<1> DEFINE t == [batch[b] EXCEPT !.pc = "push", !.outcome = o]
<1>1. /\ TypeOK /\ batch[b].pc = "view" /\ batch' = [batch EXCEPT ![b] = t]
      /\ UNCHANGED <<count, messages, disturbed>> /\ batch[b] \in Task /\ SoundTask(batch[b])
  BY Batches DEF View, BatchJobsInv, SoundTasks
<1>2. t.pc = "push" /\ t.outcome = o /\ batch[b].outcome = "pending"
  BY <1>1 DEF Task, SoundTask
<1> HIDE DEF t
<1>3. Moves(b, t)
  BY <1>1, MovesOf
<1>4. OutcomeOf(batch[b]) = "pending" /\ OutcomeOf(t) = o
  BY <1>1, <1>2 DEF OutcomeOf
<1> QED
  BY <1>1, <1>3, <1>4, EndsOne

LEMMA CrashEnds ==
  ASSUME BatchAssumption, BatchJobsInv, NEW b \in Batch, Crash(b)
  PROVE  Report!Next \/ UNCHANGED Report!vars
<1>1. Goto(b, "lost") /\ UNCHANGED <<count, messages, disturbed>> /\ batch[b].pc # "lost"
  BY DEF Crash, Working, Pushed, Guarded
<1>2. /\ Moves(b, batch'[b]) /\ batch'[b].pc = "lost" /\ batch'[b].outcome = batch[b].outcome
  BY <1>1, GotoOf DEF BatchJobsInv, Ended
<1>3. CASE batch[b].outcome = "pending"
  <2>1. OutcomeOf(batch[b]) = "pending" /\ OutcomeOf(batch'[b]) = "lost"
    BY <1>1, <1>2, <1>3 DEF OutcomeOf
  <2> QED
    BY <1>1, <1>2, <2>1, EndsOne
<1>4. CASE batch[b].outcome # "pending"
  <2>1. OutcomeOf(batch'[b]) = OutcomeOf(batch[b])
    BY <1>1, <1>2, <1>4 DEF OutcomeOf
  <2> QED
    BY <1>1, <1>2, <2>1, OutcomeKept, Unseen
<1> QED
  BY <1>3, <1>4

LEMMA SendFailsEnds ==
  ASSUME BatchAssumption, BatchJobsInv, SendFails
  PROVE  Report!Next
<1> DEFINE lost(b) == [batch[b] EXCEPT !.pc = "lost"]
           after(b) == IF batch[b].pc = "unsent" THEN lost(b) ELSE batch[b]
           parts == {b \in Batch : batch[b].pc = "unsent"}
<1>1. batch' = [b \in Batch |-> after(b)] /\ UNCHANGED <<count, messages, disturbed>>
  BY DEF SendFails
<1>2. Batch' = Batch
  BY <1>1 DEF Batch
<1>3. \A b \in Batch : batch[b] \in Task /\ SoundTask(batch[b])
  BY Batches DEF BatchJobsInv, SoundTasks
<1>4. \A b \in parts : batch[b].outcome = "pending" /\ batch[b].pc # "lost"
  BY <1>3 DEF SoundTask
<1>5. \A b \in Batch : lost(b).pc = "lost" /\ lost(b).outcome = batch[b].outcome
  BY <1>3 DEF Task
<1> HIDE DEF lost
<1>6. \A b \in Batch : OutcomeOf(after(b)) = IF b \in parts THEN "lost" ELSE OutcomeOf(batch[b])
  BY <1>4, <1>5 DEF OutcomeOf
<1>7. \A b \in Batch : batch'[b] = after(b)
  BY <1>1
<1>8. Outcome' = [b \in Batch |-> OutcomeOf(batch'[b])]
  BY <1>2 DEF Outcome, OutcomeOf
<1>9. DOMAIN Outcome = Batch /\ \A b \in Batch : Outcome[b] = OutcomeOf(batch[b])
  BY OutcomeIs
<1>10. \A b \in parts : Outcome[b] = "pending"
  BY <1>4, <1>9 DEF OutcomeOf
<1> HIDE DEF after
<1>11. Outcome' = [b \in DOMAIN Outcome |-> IF b \in parts THEN "lost" ELSE Outcome[b]]
  BY <1>6, <1>7, <1>8, <1>9
<1>12. parts \in SUBSET DOMAIN Outcome
  BY <1>9
<1> HIDE DEF parts
<1>13. Report!Finish(parts, "lost")
  BY <1>1, <1>10, <1>11 DEF Report!Finish
<1> QED
  BY <1>12, <1>13 DEF Report!Next

(* Cutting the rows into batches divides the import. *)
LEMMA CutDivides ==
  ASSUME BatchAssumption, BatchJobsInv, launch = "sort", NEW n \in Nat, Cut(n),
         UNCHANGED <<messages, disturbed>>
  PROVE  Report!Next
<1>1. Batch = {} /\ Batch' = 1..n /\ batch' = [b \in 1..n |-> Unsent]
  BY NothingYet DEF Batch, Cut
<1>2. Outcome = <<>>
  BY <1>1, OutcomeIs
<1>3. Unsent.pc = "unsent" /\ Unsent.outcome = "pending"
  BY DEF Unsent
<1>4. Outcome' = [b \in 1..n |-> "pending"]
  BY <1>1, <1>3 DEF Outcome
<1>5. Outcome' = [b \in DOMAIN Outcome' |-> "pending"]
  BY <1>4
<1> QED
  BY <1>2, <1>5 DEF Report!Divide, Report!Next

LEMMA PublishReports ==
  ASSUME BatchAssumption, BatchJobsInv, NEW b \in Batch, Publish(b)
  PROVE  Report!Next
<1> DEFINE s == batch[b].taken
           m == IF \A r \in s : r.status THEN "success" ELSE "failure"
<1>1. /\ batch[b].pc = "publish" /\ Goto(b, "release") /\ count' = count
      /\ messages' = Append(messages, m) /\ disturbed' = disturbed
  BY DEF Publish
<1>2. /\ AllPushed /\ \A r \in s : TrueResult(r)
      /\ ~disturbed => messages = <<>> /\ Complete(s)
  BY <1>1 DEF BatchJobsInv, SoundFinal, OneFinal, Final
<1> HIDE DEF s
<1>3. DOMAIN Outcome = Batch /\ \A c \in Batch : Outcome[c] = OutcomeOf(batch[c])
  BY OutcomeIs
<1>4. \A c \in Batch : batch[c] \in Task /\ SoundTask(batch[c])
  BY Batches DEF BatchJobsInv, SoundTasks
<1>5. \A c \in Batch : Outcome[c] = batch[c].outcome /\ Outcome[c] \in {"accepted", "rejected"}
  BY <1>2, <1>3, <1>4 DEF SoundTask, OutcomeOf, Task, AllPushed
<1>6. Report!Accepted <=> \A c \in Batch : batch[c].outcome = "accepted"
  BY <1>3, <1>5 DEF Report!Accepted
<1>7. m = "failure" => ~Report!Accepted
  BY <1>2, <1>6 DEF TrueResult
<1>8. ASSUME ~disturbed, m = "success", NEW c \in Batch PROVE batch[c].outcome = "accepted"
  <2>1. PICK r \in s : r.index = c
    BY <1>2, <1>8 DEF Complete
  <2> QED
    BY <1>2, <1>8, <2>1 DEF TrueResult
<1>9. m \in {"success", "failure"}
  OBVIOUS
<1> HIDE DEF m
<1>10. Outcome' = Outcome
  <2>1. Moves(b, batch'[b]) /\ batch'[b].pc = "release" /\ batch'[b].outcome = batch[b].outcome
    BY <1>1, GotoOf DEF BatchJobsInv, Pushed
  <2> QED
    BY <1>1, <2>1, OutcomeKept DEF OutcomeOf
<1>11. Outcome # <<>>
  BY <1>3
<1>12. Report!Report(m)
  BY <1>1, <1>2, <1>3, <1>5, <1>6, <1>7, <1>8, <1>10, <1>11 DEF Report!Report
<1> QED
  BY <1>9, <1>12 DEF Report!Next

LEMMA SortDivides ==
  ASSUME BatchAssumption, BatchJobsInv, Sort
  PROVE  Report!Next \/ UNCHANGED Report!vars
<1> DEFINE n == IF Item = {} THEN 0 ELSE 1
<1>1. CASE Len(Rounds.order) = Cardinality(Item)
  <2>1. launch = "sort" /\ Cut(n) /\ n \in Nat /\ UNCHANGED <<messages, disturbed>>
    BY <1>1 DEF Sort
  <2> HIDE DEF n
  <2> QED
    BY <2>1, CutDivides
<1>2. CASE Len(Rounds.order) # Cardinality(Item)
  <2>1. UNCHANGED <<count, batch, messages, disturbed>>
    BY <1>2 DEF Sort
  <2>2. Outcome' = Outcome
    BY <2>1 DEF Outcome, Batch
  <2> QED
    BY <2>1, <2>2, Unseen
<1> QED
  BY <1>1, <1>2

LEMMA SeenOrUnseen ==
  ASSUME BatchAssumption, BatchJobsInv, [Next]_vars PROVE Report!Next \/ UNCHANGED Report!vars
<1>1. ASSUME NEW b \in Batch, Work(b) PROVE Report!Next \/ UNCHANGED Report!vars
  BY <1>1, WalkUnseen, PushUnseen, MeasureUnseen, TakeUnseen, PublishReports, ViewEnds DEF Work
<1>2. ASSUME NEW b \in Batch, Send(b) \/ Crash(b) PROVE Report!Next \/ UNCHANGED Report!vars
  BY <1>2, WalkUnseen, CrashEnds
<1>3. CASE UNCHANGED <<count, batch, messages>> /\ (disturbed' = disturbed \/ disturbed' = TRUE)
  <2>1. Outcome' = Outcome
    BY <1>3 DEF Outcome, Batch
  <2> QED
    BY <1>3, <2>1, Unseen
<1>4. CASE \E n \in 0..MaxBatches : Split(n)
  <2>1. PICK n \in 0..MaxBatches : Split(n)
    BY <1>4
  <2>2. n \in Nat /\ launch = "sort" /\ Cut(n) /\ UNCHANGED <<messages, disturbed>>
    BY <2>1 DEF Split, BatchAssumption
  <2> QED
    BY <2>2, CutDivides
<1>5. CASE LockExpires \/ ListExpires \/ UNCHANGED vars
  <2>1. UNCHANGED <<count, batch, messages>>
    BY <1>5 DEF LockExpires, ListExpires, vars
  <2>2. disturbed' = disturbed \/ disturbed' = TRUE
    BY <1>5 DEF LockExpires, ListExpires, vars, BatchJobsInv, TypeOK
  <2> QED
    BY <1>3, <2>1, <2>2
<1> QED
  BY <1>1, <1>2, <1>4, <1>5, SortDivides, SendFailsEnds DEF Next

(* run_view_by_celery_task and background_task_view_set_job: however the    *)
(* tasks overlap, fail, lose the lock or their results, a message comes     *)
(* after all have answered, and one that tells a failure is right.  Unless  *)
(* a task was disturbed while it was at the list there is one message at    *)
(* most, and one that tells a success is right too.                         *)
THEOREM ReportsOnceAndTruly == Spec => OneTrueReport
<1>1. Init => BatchJobsInv
  BY BatchJobsInvInit, BatchAssumption
<1>2. BatchJobsInv /\ [Next]_vars => BatchJobsInv'
  BY BatchJobsInvNext, BatchAssumption
<1>3. Init => Report!Init
  <2>1. Init => Batch = {} /\ messages = <<>> /\ disturbed = FALSE
    BY DEF Init, Batch
  <2>2. Batch = {} => Outcome = <<>>
    BY OutcomeIs
  <2> QED
    BY <2>1, <2>2 DEF Report!Init
<1>4. BatchJobsInv /\ [Next]_vars => [Report!Next]_(Report!vars)
  BY SeenOrUnseen, BatchAssumption
<1> QED
  BY <1>1, <1>2, <1>3, <1>4, PTL DEF Spec, OneTrueReport, Report!Spec

-----------------------------------------------------------------------------
(* The processes that run the tasks: machine-checked proofs about Services, *)
(* for any services, lists, commands, retries, processes and faults that    *)
(* meet its assumption.  A service has one process.  The argument looks at  *)
(* the frames of all commands that are at the service: unless the service   *)
(* raced, one command has them; what they are at says what the pid file     *)
(* holds; and a frame that starts a service is the lowest of its command,   *)
(* so that there is one.  The names that BatchJobs uses for something else  *)
(* are renamed.                                                             *)

CONSTANTS
  Service, Command, Lists, None, MaxRetry, MaxPid, MaxLosses

VARIABLES
  proc, pidFile, daemon, command, losses, raced, upset

V == INSTANCE Services WITH faults <- losses, MaxFaults <- MaxLosses

-----------------------------------------------------------------------------
(* Frames *)

Plans ==
  {V!Plan("start"), V!Plan("stop"), V!Plan("stop_all"), V!Plan("restart"),
   <<"start", "enter", "watch", "stop">>, <<"enter", "watch", "stop">>,
   <<"watch", "stop">>, <<"signal">>}

Starting == {"restart", "spawn", "write"}

AFrame ==
  [plan : Plans, todo : Seq(Service), at : Starting \cup {"next", "kill", "wait", "unlink"},
   s : Service \cup {None}, p : V!Pid \cup {None}]

ACommand ==
  [begun : BOOLEAN, on : Seq(Service), stack : Seq(AFrame), daemon : BOOLEAN, leave : BOOLEAN,
   term : BOOLEAN, retry : [Service -> Nat]]

SoundFrame(f) ==
  /\ f.at \in Starting => Head(f.plan) \in {"start", "watch"}
  /\ f.at \in {"kill", "wait", "unlink"} => Head(f.plan) = "stop"
  /\ f.at = "next" => f.s = None
  /\ f.at # "next" => f.todo # <<>> /\ f.s \in Service
  /\ f.at = "write" => f.p \in V!Pid

(* Only the lowest frame is not a handler's. *)
SoundStack(st) ==
  \A i \in 1..Len(st) : SoundFrame(st[i]) /\ (i < Len(st) => st[i].plan = <<"stop">>)

Below(st) == {st[i] : i \in 2..Len(st)}
Frames(st) == {st[i] : i \in 1..Len(st)}

LEMMA PlanSteps ==
  ASSUME NEW plan \in Plans
  PROVE  /\ plan # <<>>
         /\ Head(plan) \in {"prepare", "start", "enter", "watch"} => Tail(plan) \in Plans
         /\ Tail(plan) # <<>> => Tail(plan) \in Plans
         /\ plan = <<"stop">> => Tail(plan) = <<>> /\ Head(plan) = "stop"
<1>1. /\ <<"prepare", "start", "enter", "watch", "stop">> # <<>>
      /\ Head(<<"prepare", "start", "enter", "watch", "stop">>) = "prepare"
      /\ Tail(<<"prepare", "start", "enter", "watch", "stop">>) = <<"start", "enter", "watch", "stop">>
  OBVIOUS
<1>2. /\ <<"stop">> # <<>>
      /\ Head(<<"stop">>) = "stop"
      /\ Tail(<<"stop">>) = <<>>
  OBVIOUS
<1>3. /\ <<"stop", "signal">> # <<>>
      /\ Head(<<"stop", "signal">>) = "stop"
      /\ Tail(<<"stop", "signal">>) = <<"signal">>
  OBVIOUS
<1>4. /\ <<"stop", "prepare", "start", "enter", "watch", "stop">> # <<>>
      /\ Head(<<"stop", "prepare", "start", "enter", "watch", "stop">>) = "stop"
      /\ Tail(<<"stop", "prepare", "start", "enter", "watch", "stop">>) = <<"prepare", "start", "enter", "watch", "stop">>
  OBVIOUS
<1>5. /\ <<"start", "enter", "watch", "stop">> # <<>>
      /\ Head(<<"start", "enter", "watch", "stop">>) = "start"
      /\ Tail(<<"start", "enter", "watch", "stop">>) = <<"enter", "watch", "stop">>
  OBVIOUS
<1>6. /\ <<"enter", "watch", "stop">> # <<>>
      /\ Head(<<"enter", "watch", "stop">>) = "enter"
      /\ Tail(<<"enter", "watch", "stop">>) = <<"watch", "stop">>
  OBVIOUS
<1>7. /\ <<"watch", "stop">> # <<>>
      /\ Head(<<"watch", "stop">>) = "watch"
      /\ Tail(<<"watch", "stop">>) = <<"stop">>
  OBVIOUS
<1>8. /\ <<"signal">> # <<>>
      /\ Head(<<"signal">>) = "signal"
      /\ Tail(<<"signal">>) = <<>>
  OBVIOUS
<1>9. Plans = {<<"prepare", "start", "enter", "watch", "stop">>,
              <<"stop">>,
              <<"stop", "signal">>,
              <<"stop", "prepare", "start", "enter", "watch", "stop">>,
              <<"start", "enter", "watch", "stop">>,
              <<"enter", "watch", "stop">>,
              <<"watch", "stop">>,
              <<"signal">>}
  BY DEF Plans, V!Plan
<1> DEFINE Good(x) == /\ x # <<>>
                      /\ Head(x) \in {"prepare", "start", "enter", "watch"} => Tail(x) \in Plans
                      /\ Tail(x) # <<>> => Tail(x) \in Plans
                      /\ x = <<"stop">> => Tail(x) = <<>> /\ Head(x) = "stop"
<1>10. Good(<<"prepare", "start", "enter", "watch", "stop">>)
  BY <1>2, <1>1, <1>9
<1>11. Good(<<"stop">>)
  BY <1>2, <1>2, <1>9
<1>12. Good(<<"stop", "signal">>)
  BY <1>2, <1>3, <1>9
<1>13. Good(<<"stop", "prepare", "start", "enter", "watch", "stop">>)
  BY <1>2, <1>4, <1>9
<1>14. Good(<<"start", "enter", "watch", "stop">>)
  BY <1>2, <1>5, <1>9
<1>15. Good(<<"enter", "watch", "stop">>)
  BY <1>2, <1>6, <1>9
<1>16. Good(<<"watch", "stop">>)
  BY <1>2, <1>7, <1>9
<1>17. Good(<<"signal">>)
  BY <1>2, <1>8, <1>9
<1> HIDE DEF Good
<1>18. Good(plan)
  BY <1>9, <1>10, <1>11, <1>12, <1>13, <1>14, <1>15, <1>16, <1>17
<1> QED
  BY <1>18 DEF Good

-----------------------------------------------------------------------------
(* Stacks *)

(* The top frame gives way to another. *)
LEMMA Replaced ==
  ASSUME NEW st \in Seq(AFrame), st # <<>>, SoundStack(st), NEW f \in AFrame, SoundFrame(f),
         f.plan = <<"stop">> \/ Len(st) = 1
  PROVE  LET n == <<f>> \o Tail(st)
         IN  /\ n \in Seq(AFrame) /\ SoundStack(n) /\ n # <<>> /\ Head(n) = f
             /\ Frames(n) = {f} \cup Below(st) /\ Below(n) = Below(st)
<1> DEFINE t == Tail(st)
           n == <<f>> \o t
<1>1. /\ Len(st) \in Nat /\ Len(st) >= 1 /\ t \in Seq(AFrame) /\ Len(t) = Len(st) - 1
      /\ \A i \in 1..Len(t) : t[i] = st[i + 1]
  BY HeadTailProperties, EmptySeq, LenProperties
<1>2. <<f>> \in Seq(AFrame) /\ Len(<<f>>) = 1 /\ <<f>>[1] = f
  OBVIOUS
<1> HIDE DEF t
<1>3. /\ n \in Seq(AFrame) /\ Len(n) = 1 + Len(t)
      /\ \A i \in 1..(1 + Len(t)) : n[i] = IF i <= 1 THEN <<f>>[i] ELSE t[i - 1]
  BY <1>1, <1>2, ConcatProperties
<1> HIDE DEF n
<1>4. Len(n) = Len(st) /\ n[1] = f
  BY <1>1, <1>2, <1>3
<1>5. \A i \in 2..Len(st) : i \in 1..Len(st) /\ i # 1 /\ n[i] = st[i]
  <2> SUFFICES ASSUME NEW i \in 2..Len(st) PROVE n[i] = st[i]
    BY <1>1
  <2>1. n[i] = t[i - 1] /\ i - 1 \in 1..Len(t) /\ (i - 1) + 1 = i
    BY <1>1, <1>3
  <2>2. t[i - 1] = st[(i - 1) + 1]
    BY <1>1, <2>1
  <2> QED
    BY <2>1, <2>2
<1>6. \A i \in 1..Len(st) : i = 1 \/ i \in 2..Len(st)
  BY <1>1
<1>7. SoundStack(n)
  <2> SUFFICES ASSUME NEW i \in 1..Len(n) PROVE SoundFrame(n[i]) /\ (i < Len(n) => n[i].plan = <<"stop">>)
    BY DEF SoundStack
  <2>1. CASE i = 1
    BY <1>1, <1>4, <2>1
  <2>2. CASE i # 1
    BY <1>4, <1>5, <1>6, <2>2 DEF SoundStack
  <2> QED
    BY <2>1, <2>2
<1>8. Below(n) = Below(st)
  BY <1>4, <1>5 DEF Below
<1>9. Frames(n) = {f} \cup Below(n)
  BY <1>1, <1>4, <1>5, <1>6 DEF Frames, Below
<1>10. n # <<>> /\ Head(n) = f
  <2>1. n # <<>>
    BY <1>1, <1>4
  <2> QED
    BY <1>3, <1>4, <2>1
<1> QED
  BY <1>3, <1>7, <1>8, <1>9, <1>10 DEF n, t

(* The frames of a stack. *)
LEMMA TopAndBelow ==
  ASSUME NEW st \in Seq(AFrame), st # <<>>
  PROVE  /\ Frames(st) = {Head(st)} \cup Below(st) /\ Head(st) \in AFrame
         /\ Len(st) \in Nat /\ Len(st) >= 1
         /\ SoundStack(st) => SoundFrame(Head(st))
         /\ SoundStack(st) /\ Head(st).plan # <<"stop">> => Len(st) = 1
         /\ ~(Len(st) > 1) => Len(st) = 1 /\ Below(st) = {}
<1>1. Len(st) \in Nat /\ Len(st) >= 1 /\ Head(st) = st[1] /\ st[1] \in AFrame
  BY EmptySeq, LenProperties
<1>2. \A i \in 1..Len(st) : i = 1 \/ i \in 2..Len(st)
  BY <1>1
<1>3. 1 \in 1..Len(st) /\ \A i \in 2..Len(st) : i \in 1..Len(st)
  BY <1>1
<1>4. Frames(st) = {Head(st)} \cup Below(st)
  BY <1>1, <1>2, <1>3 DEF Frames, Below
<1>5. ASSUME SoundStack(st), Head(st).plan # <<"stop">> PROVE ~(1 < Len(st))
  BY <1>1, <1>3, <1>5 DEF SoundStack
<1>6. ASSUME ~(Len(st) > 1) PROVE Len(st) = 1 /\ Below(st) = {}
  <2> DEFINE L == Len(st)
  <2>1. L \in Nat /\ L >= 1 /\ ~(1 < L)
    BY <1>1, <1>6
  <2> HIDE DEF L
  <2>2. L = 1 /\ 2..L = {}
    BY <2>1
  <2> QED
    BY <2>2 DEF Below, L
<1>7. SoundStack(st) => SoundFrame(Head(st))
  BY <1>1, <1>3 DEF SoundStack
<1>8. ASSUME SoundStack(st), Head(st).plan # <<"stop">> PROVE Len(st) = 1
  <2> DEFINE L == Len(st)
  <2>1. L \in Nat /\ L >= 1 /\ ~(1 < L)
    BY <1>1, <1>5, <1>8
  <2> HIDE DEF L
  <2>2. L = 1
    BY <2>1
  <2> QED
    BY <2>2 DEF L
<1> QED
  BY <1>1, <1>4, <1>6, <1>7, <1>8

(* The top frame goes. *)
LEMMA Popped ==
  ASSUME NEW st \in Seq(AFrame), st # <<>>, SoundStack(st)
  PROVE  LET n == Tail(st) IN n \in Seq(AFrame) /\ SoundStack(n) /\ Frames(n) = Below(st)
<1> DEFINE n == Tail(st)
<1>1. /\ Len(st) \in Nat /\ Len(st) >= 1 /\ n \in Seq(AFrame) /\ Len(n) = Len(st) - 1
      /\ \A i \in 1..Len(n) : n[i] = st[i + 1]
  BY HeadTailProperties, EmptySeq, LenProperties
<1> HIDE DEF n
<1>2. \A i \in 1..Len(n) : i + 1 \in 2..Len(st) /\ i + 1 \in 1..Len(st) /\ (i < Len(n) => i + 1 < Len(st))
  BY <1>1
<1>3. \A i \in 2..Len(st) : i - 1 \in 1..Len(n) /\ n[i - 1] = st[i]
  <2> SUFFICES ASSUME NEW i \in 2..Len(st) PROVE i - 1 \in 1..Len(n) /\ n[i - 1] = st[i]
    OBVIOUS
  <2>1. i - 1 \in 1..Len(n) /\ (i - 1) + 1 = i
    BY <1>1
  <2>2. n[i - 1] = st[(i - 1) + 1]
    BY <1>1, <2>1
  <2> QED
    BY <2>1, <2>2
<1>4. SoundStack(n)
  BY <1>1, <1>2 DEF SoundStack
<1>5. Frames(n) = Below(st)
  <2>1. ASSUME NEW f \in Frames(n) PROVE f \in Below(st)
    <3>1. PICK i \in 1..Len(n) : f = n[i]
      BY DEF Frames
    <3>2. i + 1 \in 2..Len(st) /\ f = st[i + 1]
      BY <1>1, <1>2, <3>1
    <3> QED
      BY <3>2 DEF Below
  <2>2. ASSUME NEW f \in Below(st) PROVE f \in Frames(n)
    <3>1. PICK i \in 2..Len(st) : f = st[i]
      BY DEF Below
    <3> QED
      BY <1>3, <3>1 DEF Frames
  <2> QED
    BY <2>1, <2>2
<1> QED
  BY <1>1, <1>4, <1>5 DEF n

(* The handler's frame comes on top. *)
LEMMA PushedOn ==
  ASSUME NEW st \in Seq(AFrame), SoundStack(st), NEW f \in AFrame, SoundFrame(f), f.plan = <<"stop">>
  PROVE  LET n == <<f>> \o st
         IN  n \in Seq(AFrame) /\ SoundStack(n) /\ Frames(n) = {f} \cup Frames(st)
<1> DEFINE n == <<f>> \o st
<1>1. <<f>> \in Seq(AFrame) /\ Len(<<f>>) = 1 /\ <<f>>[1] = f /\ Len(st) \in Nat
  OBVIOUS
<1>2. /\ n \in Seq(AFrame) /\ Len(n) = 1 + Len(st)
      /\ \A i \in 1..(1 + Len(st)) : n[i] = IF i <= 1 THEN <<f>>[i] ELSE st[i - 1]
  BY <1>1, ConcatProperties
<1> HIDE DEF n
<1>3. 1 \in 1..Len(n) /\ n[1] = f
  BY <1>1, <1>2
<1>4. \A i \in 1..Len(n) : i = 1 \/ (i - 1 \in 1..Len(st) /\ n[i] = st[i - 1] /\ (i < Len(n) => i - 1 < Len(st)))
  BY <1>1, <1>2
<1>5. \A i \in 1..Len(st) : i + 1 \in 1..Len(n) /\ n[i + 1] = st[i]
  <2> SUFFICES ASSUME NEW i \in 1..Len(st) PROVE i + 1 \in 1..Len(n) /\ n[i + 1] = st[i]
    OBVIOUS
  <2>1. i + 1 \in 1..Len(n) /\ ~(i + 1 <= 1) /\ (i + 1) - 1 = i
    BY <1>1, <1>2
  <2>2. n[i + 1] = st[(i + 1) - 1]
    BY <1>2, <2>1
  <2> QED
    BY <2>1, <2>2
<1>6. SoundStack(n)
  <2> SUFFICES ASSUME NEW i \in 1..Len(n) PROVE SoundFrame(n[i]) /\ (i < Len(n) => n[i].plan = <<"stop">>)
    BY DEF SoundStack
  <2> QED
    BY <1>3, <1>4 DEF SoundStack
<1>7. Frames(n) = {f} \cup Frames(st)
  <2>1. \A i \in 1..Len(n) : n[i] = f \/ \E j \in 1..Len(st) : n[i] = st[j]
    <3> SUFFICES ASSUME NEW i \in 1..Len(n), i # 1 PROVE \E j \in 1..Len(st) : n[i] = st[j]
      BY <1>3
    <3> DEFINE j == i - 1
    <3>1. j \in 1..Len(st) /\ n[i] = st[j]
      BY <1>4
    <3> QED
      BY <3>1
  <2>2. \A j \in 1..Len(st) : \E i \in 1..Len(n) : n[i] = st[j]
    BY <1>5
  <2> HIDE DEF n
  <2> QED
    <3>1. \A x : x \in Frames(n) <=> \E i \in 1..Len(n) : x = n[i]
      BY Zenon DEF Frames
    <3>2. \A x : x \in Frames(st) <=> \E i \in 1..Len(st) : x = st[i]
      BY Zenon DEF Frames
    <3>3. \A i \in 1..Len(n) : n[i] = f \/ n[i] \in Frames(st)
      <4> SUFFICES ASSUME NEW i \in 1..Len(n), n[i] # f PROVE n[i] \in Frames(st)
        OBVIOUS
      <4>1. PICK k \in 1..Len(st) : n[i] = st[k]
        BY <2>1
      <4> QED
        BY <3>2, <4>1
    <3>4. \A k \in 1..Len(st) : st[k] \in Frames(n)
      <4> SUFFICES ASSUME NEW k \in 1..Len(st) PROVE st[k] \in Frames(n)
        OBVIOUS
      <4>1. PICK i \in 1..Len(n) : n[i] = st[k]
        BY <2>2
      <4> QED
        BY <3>1, <4>1
    <3>5. f \in Frames(n)
      BY <1>3, <3>1
    <3>6. Frames(n) \subseteq {f} \cup Frames(st)
      BY <3>1, <3>3
    <3>7. Frames(st) \subseteq Frames(n)
      BY <3>2, <3>4
    <3> QED
      BY <3>5, <3>6, <3>7
<1> QED
  BY <1>2, <1>6, <1>7 DEF n

(* A stack of one frame. *)
LEMMA OneFrame ==
  ASSUME NEW f \in AFrame, SoundFrame(f)
  PROVE  <<f>> \in Seq(AFrame) /\ SoundStack(<<f>>) /\ Frames(<<f>>) = {f} /\ Below(<<f>>) = {}
<1> DEFINE n == <<f>>
<1>1. n \in Seq(AFrame) /\ Len(n) = 1 /\ n[1] = f
  OBVIOUS
<1> HIDE DEF n
<1>2. SoundStack(n)
  BY <1>1 DEF SoundStack
<1>3. Frames(n) = {f} /\ Below(n) = {}
  BY <1>1 DEF Frames, Below
<1> QED
  BY <1>1, <1>2, <1>3 DEF n

LEMMA NoFrame == <<>> \in Seq(AFrame) /\ SoundStack(<<>>) /\ Frames(<<>>) = {}
<1>1. <<>> \in Seq(AFrame) /\ Len(<<>>) = 0
  OBVIOUS
<1> QED
  BY <1>1 DEF SoundStack, Frames

-----------------------------------------------------------------------------
(* A service *)

On(fs, s) == \E f \in fs : f.s = s

(* A service s that no two commands worked on, as the frames fs[c] of each *)
(* command, the pid file, the processes of s and the living ones say: one  *)
(* command works on it; a process of it is in the file, or being written   *)
(* to it; there is none when one is started; and the file is removed only  *)
(* when it names no process.                                               *)
SoundFor(s, fs, file, ps, living) ==
  /\ \A c, d \in Command : On(fs[c], s) /\ On(fs[d], s) => c = d
  /\ \A p \in ps : p = file \/ \E c \in Command : \E f \in fs[c] : f.at = "write" /\ f.s = s /\ f.p = p
  /\ \A c \in Command : \A f \in fs[c] : f.s = s =>
       /\ f.at \in {"spawn", "write"} => file = None
       /\ f.at = "spawn" => ps = {}
       /\ f.at = "unlink" => file \notin living

(* A step of command c that starts nothing and leaves the file. *)
QuietChange(s, fs, gs, file, ps, qs, living, after, c) ==
  /\ SoundFor(s, fs, file, ps, living)
  /\ \A d \in Command \ {c} : gs[d] = fs[d]
  /\ qs \subseteq ps
  /\ file \in after => file \in living
  /\ \A g \in gs[c] : g \in fs[c] \/
       (g.s = s => /\ g.at \notin {"spawn", "write"}
                   /\ g.at = "unlink" => file \notin after
                   /\ On(fs[c], s) \/ \A d \in Command \ {c} : ~On(fs[d], s))
  /\ \A g \in fs[c] : g.at = "write" /\ g.s = s => g \in gs[c]

LEMMA QuietFor ==
  ASSUME NEW s, NEW fs, NEW gs, NEW file, NEW ps, NEW qs, NEW living, NEW after, NEW c,
         QuietChange(s, fs, gs, file, ps, qs, living, after, c)
  PROVE  SoundFor(s, gs, file, qs, after)
<1> USE DEF QuietChange
<1>1. \A d \in Command : On(gs[d], s) => On(fs[d], s) \/ d = c
  BY DEF On
<1>2. On(gs[c], s) => On(fs[c], s) \/ \A d \in Command \ {c} : ~On(fs[d], s)
  BY DEF On
<1>3. ASSUME NEW d \in Command, NEW e \in Command, On(gs[d], s), On(gs[e], s) PROVE d = e
  <2>1. CASE d = c \/ e = c
    BY <1>1, <1>2, <1>3, <2>1 DEF SoundFor
  <2>2. CASE d # c /\ e # c
    BY <1>1, <1>3, <2>2 DEF SoundFor
  <2> QED
    BY <2>1, <2>2
<1>4. ASSUME NEW p \in qs, p # file
      PROVE  \E d \in Command : \E f \in gs[d] : f.at = "write" /\ f.s = s /\ f.p = p
  <2>1. PICK d \in Command : \E f \in fs[d] : f.at = "write" /\ f.s = s /\ f.p = p
    BY <1>4 DEF SoundFor
  <2>2. PICK f \in fs[d] : f.at = "write" /\ f.s = s /\ f.p = p
    BY <2>1
  <2>3. f \in gs[d]
    BY <2>2
  <2> QED
    BY <2>2, <2>3
<1>5. ASSUME NEW d \in Command, NEW f \in gs[d], f.s = s
      PROVE  /\ f.at \in {"spawn", "write"} => file = None
             /\ f.at = "spawn" => qs = {}
             /\ f.at = "unlink" => file \notin after
  <2>1. CASE f \in fs[d]
    BY <1>5, <2>1 DEF SoundFor
  <2>2. CASE f \notin fs[d]
    BY <1>5, <2>2
  <2> QED
    BY <2>1, <2>2
<1> QED
  BY <1>3, <1>4, <1>5 DEF SoundFor

(* The command with frame t alone starts the service, *)
StartChange(s, fs, gs, file, ps, living, c, t, f) ==
  /\ c \in Command
  /\ SoundFor(s, fs, file, ps, living)
  /\ ps \subseteq living
  /\ file \notin living
  /\ \A d \in Command \ {c} : gs[d] = fs[d] /\ ~On(fs[d], s)
  /\ fs[c] = {t}
  /\ t.at # "write"
  /\ gs[c] = {f}
  /\ f.at = "spawn"

LEMMA StartFor ==
  ASSUME NEW s, NEW fs, NEW gs, NEW file, NEW ps, NEW living, NEW c, NEW t, NEW f,
         StartChange(s, fs, gs, file, ps, living, c, t, f)
  PROVE  SoundFor(s, gs, None, ps, living)
<1> USE DEF StartChange
<1>1. ps = {}
  <2> SUFFICES ASSUME NEW p \in ps PROVE FALSE
    OBVIOUS
  <2>1. PICK d \in Command : \E g \in fs[d] : g.at = "write" /\ g.s = s
    BY DEF SoundFor
  <2> QED
    BY <2>1 DEF On
<1>2. \A d \in Command : On(gs[d], s) => d = c
  BY DEF On
<1> QED
  BY <1>1, <1>2 DEF SoundFor, On

(* opens its process *)
SpawnChange(s, fs, gs, file, ps, living, after, c, t, f, p) ==
  /\ c \in Command
  /\ SoundFor(s, fs, file, ps, living)
  /\ \A d \in Command \ {c} : gs[d] = fs[d]
  /\ fs[c] = {t}
  /\ t.at = "spawn"
  /\ t.s = s
  /\ gs[c] = {f}
  /\ f.at = "write"
  /\ f.s = s
  /\ f.p = p

LEMMA SpawnFor ==
  ASSUME NEW s, NEW fs, NEW gs, NEW file, NEW ps, NEW living, NEW after, NEW c, NEW t, NEW f, NEW p,
         SpawnChange(s, fs, gs, file, ps, living, after, c, t, f, p)
  PROVE  SoundFor(s, gs, file, {p}, after)
<1> USE DEF SpawnChange
<1>1. \A d \in Command \ {c} : ~On(gs[d], s)
  BY DEF SoundFor, On
<1>2. \A d \in Command : On(gs[d], s) => d = c
  BY <1>1
<1>3. file = None
  BY DEF SoundFor
<1>4. \A d \in Command : \A g \in gs[d] : g.s = s => g = f
  BY <1>1 DEF On
<1>5. \E d \in Command : \E g \in gs[d] : g.at = "write" /\ g.s = s /\ g.p = p
  OBVIOUS
<1> QED
  BY <1>2, <1>3, <1>4, <1>5 DEF SoundFor

(* and writes its pid. *)
WriteChange(s, fs, gs, file, ps, living, c, t, f) ==
  /\ c \in Command
  /\ SoundFor(s, fs, file, ps, living)
  /\ None \notin ps
  /\ \A d \in Command \ {c} : gs[d] = fs[d]
  /\ fs[c] = {t}
  /\ t.at = "write"
  /\ t.s = s
  /\ gs[c] = {f}
  /\ f.s # s

LEMMA WriteFor ==
  ASSUME NEW s, NEW fs, NEW gs, NEW file, NEW ps, NEW living, NEW c, NEW t, NEW f,
         WriteChange(s, fs, gs, file, ps, living, c, t, f)
  PROVE  SoundFor(s, gs, t.p, ps, living)
<1> USE DEF WriteChange
<1>1. \A d \in Command \ {c} : ~On(fs[d], s)
  BY DEF SoundFor, On
<1>2. \A d \in Command : ~On(gs[d], s)
  BY <1>1 DEF On
<1>3. file = None
  BY DEF SoundFor
<1>4. \A p \in ps : p = t.p
  <2> SUFFICES ASSUME NEW p \in ps PROVE p = t.p
    OBVIOUS
  <2>1. PICK d \in Command : \E g \in fs[d] : g.at = "write" /\ g.s = s /\ g.p = p
    BY <1>3 DEF SoundFor
  <2> QED
    BY <1>1, <2>1 DEF On
<1> QED
  BY <1>2, <1>4 DEF SoundFor, On

(* A command removes the pid file. *)
UnlinkChange(s, fs, gs, file, ps, living, c, t, f, rest) ==
  /\ c \in Command
  /\ SoundFor(s, fs, file, ps, living)
  /\ ps \subseteq living
  /\ None \notin living
  /\ \A d \in Command \ {c} : gs[d] = fs[d]
  /\ fs[c] = {t} \cup rest
  /\ t.at = "unlink"
  /\ t.s = s
  /\ gs[c] = {f} \cup rest
  /\ f.s # s

LEMMA UnlinkFor ==
  ASSUME NEW s, NEW fs, NEW gs, NEW file, NEW ps, NEW living, NEW c, NEW t, NEW f, NEW rest,
         UnlinkChange(s, fs, gs, file, ps, living, c, t, f, rest)
  PROVE  SoundFor(s, gs, None, ps, living)
<1> USE DEF UnlinkChange
<1>1. file \notin ps
  BY DEF SoundFor
<1>2. \A d \in Command : On(gs[d], s) => On(fs[d], s)
  BY DEF On
<1>3. ASSUME NEW p \in ps
      PROVE  \E d \in Command : \E g \in gs[d] : g.at = "write" /\ g.s = s /\ g.p = p
  <2>1. PICK d \in Command : \E g \in fs[d] : g.at = "write" /\ g.s = s /\ g.p = p
    BY <1>1, <1>3 DEF SoundFor
  <2>2. PICK g \in fs[d] : g.at = "write" /\ g.s = s /\ g.p = p
    BY <2>1
  <2>3. g \in gs[d]
    BY <2>2
  <2> QED
    BY <2>2, <2>3
<1>4. ASSUME NEW d \in Command, NEW g \in gs[d], g.s = s PROVE g \in fs[d]
  BY <1>4
<1> QED
  BY <1>2, <1>3, <1>4 DEF SoundFor

-----------------------------------------------------------------------------
(* The invariant *)

Living == {p \in V!Pid : V!Alive(p)}
FramesOf == [c \in Command |-> Frames(command[c].stack)]

Process == [of : Service \cup {None}, state : {"free", "up", "dying"}, group : Command \cup {None}]

HasType ==
  /\ proc \in [V!Pid -> Process]
  /\ pidFile \in [Service -> V!Pid \cup {None}]
  /\ daemon \in Command \cup {None}
  /\ command \in [Command -> ACommand]
  /\ losses \in 0..MaxLosses /\ raced \in SUBSET Service /\ upset \in BOOLEAN

SoundCommands ==
  \A c \in Command : SoundStack(command[c].stack) /\ (V!Lives(c) => command[c].begun)

SoundServices ==
  \A s \in Service \ raced : SoundFor(s, FramesOf, pidFile[s], V!Processes(s), Living)

ServicesInv == HasType /\ SoundCommands /\ SoundServices

-----------------------------------------------------------------------------
(* Commands *)

LEMMA Updates ==
  ASSUME NEW k \in ACommand, NEW n \in Seq(AFrame)
  PROVE  LET x == [k EXCEPT !.stack = n]
         IN  x \in ACommand /\ x.stack = n /\ x.begun = k.begun /\ x.on = k.on
<1> QED
  BY DEF ACommand

LEMMA EndedCommand ==
  /\ V!New \in ACommand /\ V!New.stack = <<>>
  /\ V!Ended \in ACommand /\ V!Ended.stack = <<>> /\ V!Ended.begun
<1>1. <<>> \in Seq(AFrame) /\ <<>> \in Seq(Service)
  OBVIOUS
<1>2. [s \in Service |-> 0] \in [Service -> Nat]
  OBVIOUS
<1>3. V!New \in ACommand /\ V!New.stack = <<>>
  BY <1>1, <1>2 DEF V!New, ACommand
<1>4. V!Ended \in ACommand /\ V!Ended.stack = <<>> /\ V!Ended.begun
  BY <1>1, <1>2 DEF V!New, V!Ended, ACommand
<1> QED
  BY <1>3, <1>4

(* One command changes. *)
LEMMA Changed ==
  ASSUME HasType, SoundCommands, NEW c \in Command, NEW x \in ACommand, SoundStack(x.stack), x.begun,
         command' = [command EXCEPT ![c] = x]
  PROVE  /\ command' \in [Command -> ACommand] /\ SoundCommands'
         /\ FramesOf'[c] = Frames(x.stack)
         /\ \A d \in Command \ {c} : FramesOf'[d] = FramesOf[d]
<1>1. command \in [Command -> ACommand]
  BY DEF HasType
<1>2. command'[c] = x /\ \A d \in Command \ {c} : command'[d] = command[d]
  BY <1>1
<1>3. command' \in [Command -> ACommand]
  BY <1>1
<1>4. SoundCommands'
  BY <1>2 DEF SoundCommands, V!Lives
<1>5. FramesOf'[c] = Frames(x.stack) /\ \A d \in Command \ {c} : FramesOf'[d] = FramesOf[d]
  BY <1>2 DEF FramesOf
<1> QED
  BY <1>3, <1>4, <1>5

(* The frames of a command that lives. *)
LEMMA LivingCommand ==
  ASSUME HasType, SoundCommands, NEW c \in Command, V!Lives(c)
  PROVE  /\ command[c] \in ACommand /\ command[c].begun /\ command[c].on \in Seq(Service)
         /\ command[c].stack \in Seq(AFrame) /\ command[c].stack # <<>>
         /\ SoundStack(command[c].stack)
         /\ V!Top(c) \in AFrame /\ SoundFrame(V!Top(c))
         /\ FramesOf[c] = {V!Top(c)} \cup Below(command[c].stack)
         /\ Len(command[c].stack) \in Nat /\ Len(command[c].stack) >= 1
         /\ V!Top(c).plan # <<"stop">> => Len(command[c].stack) = 1 /\ Below(command[c].stack) = {}
         /\ ~(Len(command[c].stack) > 1) => Len(command[c].stack) = 1 /\ Below(command[c].stack) = {}
<1>1. command[c] \in ACommand /\ command[c].begun
  BY DEF HasType, SoundCommands
<1>2. command[c].stack \in Seq(AFrame) /\ command[c].on \in Seq(Service)
  BY <1>1 DEF ACommand
<1>3. command[c].stack # <<>> /\ SoundStack(command[c].stack)
  BY DEF V!Lives, SoundCommands
<1> DEFINE st == command[c].stack
<1>4. FramesOf[c] = Frames(st)
  BY DEF FramesOf
<1>5. V!Top(c) = Head(st)
  BY DEF V!Top
<1> HIDE DEF st
<1>6. /\ Frames(st) = {Head(st)} \cup Below(st) /\ Head(st) \in AFrame
      /\ SoundFrame(Head(st))
      /\ Len(st) \in Nat /\ Len(st) >= 1
      /\ Head(st).plan # <<"stop">> => Len(st) = 1
      /\ ~(Len(st) > 1) => Len(st) = 1 /\ Below(st) = {}
  BY <1>2, <1>3, TopAndBelow DEF st
<1>7. Len(st) = 1 => ~(Len(st) > 1)
  BY <1>6
<1> QED
  BY <1>1, <1>2, <1>3, <1>4, <1>5, <1>6, <1>7 DEF st

(* The top frame of a command that lives becomes f. *)
LEMMA Goes ==
  ASSUME HasType, SoundCommands, NEW c \in Command, V!Lives(c), NEW f \in AFrame, SoundFrame(f),
         f.plan = V!Top(c).plan \/ V!Top(c).plan # <<"stop">>,
         NEW x \in ACommand, x.begun, x.stack = <<f>> \o Tail(command[c].stack),
         command' = [command EXCEPT ![c] = x]
  PROVE  /\ command' \in [Command -> ACommand] /\ SoundCommands'
         /\ FramesOf'[c] = {f} \cup Below(command[c].stack)
         /\ \A d \in Command \ {c} : FramesOf'[d] = FramesOf[d]
<1>1. SoundStack(x.stack) /\ Frames(x.stack) = {f} \cup Below(command[c].stack)
  BY LivingCommand, Replaced
<1> QED
  BY <1>1, Changed

LEMMA GoStep ==
  ASSUME HasType, SoundCommands, NEW c \in Command, V!Lives(c), NEW f \in AFrame, SoundFrame(f),
         f.plan = V!Top(c).plan \/ V!Top(c).plan # <<"stop">>, V!Go(c, f)
  PROVE  /\ command' \in [Command -> ACommand] /\ SoundCommands'
         /\ FramesOf'[c] = {f} \cup Below(command[c].stack)
         /\ \A d \in Command \ {c} : FramesOf'[d] = FramesOf[d]
<1> DEFINE n == <<f>> \o Tail(command[c].stack)
           x == [command[c] EXCEPT !.stack = n]
<1>1. n \in Seq(AFrame)
  BY LivingCommand, Replaced
<1> HIDE DEF n
<1>2. x \in ACommand /\ x.begun /\ x.stack = n
  BY <1>1, LivingCommand, Updates
<1>3. command' = [command EXCEPT ![c] = x]
  BY DEF V!Go, n
<1> HIDE DEF x
<1> QED
  BY <1>2, <1>3, Goes DEF n

(* Only one command works on a service. *)
LEMMA WorksOn ==
  ASSUME HasType, NEW d \in Command, NEW s
  PROVE  V!Works(d, s) <=> On(FramesOf[d], s)
<1>1. command[d].stack \in Seq(AFrame)
  BY DEF HasType, ACommand
<1> DEFINE st == command[d].stack
<1>2. DOMAIN st = 1..Len(st)
  BY <1>1
<1>3. FramesOf[d] = Frames(st)
  BY DEF FramesOf
<1> HIDE DEF st
<1>4. (\E i \in DOMAIN st : st[i].s = s) <=> On(Frames(st), s)
  BY <1>2 DEF On, Frames
<1> QED
  BY <1>3, <1>4 DEF V!Works, st

LEMMA RunningIs ==
  ASSUME V!ServicesAssumption, HasType, NEW s \in Service
  PROVE  V!Running(s) <=> pidFile[s] \in Living
BY DEF HasType, V!Running, Living, V!Alive, V!ServicesAssumption, V!Pid

LEMMA ProcessesLive ==
  ASSUME V!ServicesAssumption, NEW s
  PROVE  V!Processes(s) \subseteq Living /\ None \notin Living
BY DEF V!Processes, Living, V!Alive

LEMMA RaceIs ==
  ASSUME HasType, NEW c \in Command, NEW s \in Service, V!Race(c, s)
  PROVE  /\ raced \subseteq raced' /\ raced' \in SUBSET Service
         /\ s \notin raced' => \A d \in Command \ {c} : ~On(FramesOf[d], s)
BY WorksOn DEF V!Race, HasType

-----------------------------------------------------------------------------
(* Steps that start nothing *)

(* A step of command c that starts no process and leaves the pid files.    *)
LEMMA Quiet ==
  ASSUME V!ServicesAssumption, ServicesInv, HasType', SoundCommands', NEW c,
         raced \subseteq raced', pidFile' = pidFile,
         \A p \in V!Pid : proc'[p] # V!Free => proc[p] # V!Free /\ proc'[p].of = proc[p].of,
         \A d \in Command \ {c} : FramesOf'[d] = FramesOf[d],
         \A s \in Service \ raced' :
           /\ \A g \in FramesOf'[c] : g \in FramesOf[c] \/
                (g.s = s => /\ g.at \notin {"spawn", "write"}
                            /\ g.at = "unlink" => pidFile[s] \notin Living
                            /\ On(FramesOf[c], s) \/ \A d \in Command \ {c} : ~On(FramesOf[d], s))
           /\ \A g \in FramesOf[c] : g.at = "write" /\ g.s = s => g \in FramesOf'[c]
  PROVE  ServicesInv'
<1>1. Living' \subseteq Living
  BY DEF Living, V!Alive
<1>2. \A s : V!Processes(s)' \subseteq V!Processes(s)
  BY DEF V!Processes, V!Alive
<1>3. ASSUME NEW s \in Service, s \notin raced'
      PROVE  SoundFor(s, FramesOf', pidFile'[s], V!Processes(s)', Living')
  <2> DEFINE fs == FramesOf
             gs == FramesOf'
             file == pidFile[s]
             ps == V!Processes(s)
             qs == V!Processes(s)'
             living == Living
             after == Living'
  <2>1. SoundFor(s, fs, file, ps, living)
    BY <1>3 DEF ServicesInv, SoundServices
  <2>2. \A d \in Command \ {c} : gs[d] = fs[d]
    OBVIOUS
  <2>3. qs \subseteq ps /\ (file \in after => file \in living)
    BY <1>1, <1>2
  <2>4. /\ \A g \in gs[c] : g \in fs[c] \/
             (g.s = s => /\ g.at \notin {"spawn", "write"}
                         /\ g.at = "unlink" => file \notin after
                         /\ On(fs[c], s) \/ \A d \in Command \ {c} : ~On(fs[d], s))
        /\ \A g \in fs[c] : g.at = "write" /\ g.s = s => g \in gs[c]
    BY <1>1, <1>3
  <2>5. pidFile'[s] = file
    OBVIOUS
  <2> HIDE DEF fs, gs, file, ps, qs, living, after
  <2>6. QuietChange(s, fs, gs, file, ps, qs, living, after, c)
    BY <2>1, <2>2, <2>3, <2>4 DEF QuietChange
  <2>7. SoundFor(s, gs, file, qs, after)
    BY <2>6, QuietFor
  <2> QED
    BY <2>5, <2>7 DEF gs, qs, after
<1>4. SoundServices'
  BY <1>3 DEF SoundServices
<1> QED
  BY <1>4 DEF ServicesInv

(* A step that only replaces the top frame of c, *)
LEMMA QuietTop ==
  ASSUME V!ServicesAssumption, ServicesInv, HasType', SoundCommands', NEW c \in Command, V!Lives(c), NEW f,
         raced \subseteq raced', pidFile' = pidFile,
         \A p \in V!Pid : proc'[p] # V!Free => proc[p] # V!Free /\ proc'[p].of = proc[p].of,
         \A d \in Command \ {c} : FramesOf'[d] = FramesOf[d],
         FramesOf'[c] = {f} \cup Below(command[c].stack), V!Top(c).at # "write",
         f.at \notin {"spawn", "write"}, f.at = "unlink" => pidFile[f.s] \notin Living,
         f.s = None \/ f.s = V!Top(c).s \/ f.s \in raced' \/ \A d \in Command \ {c} : ~On(FramesOf[d], f.s)
  PROVE  ServicesInv'
<1>1. FramesOf[c] = {V!Top(c)} \cup Below(command[c].stack)
  BY LivingCommand DEF ServicesInv
<1>2. None \notin Service
  BY DEF V!ServicesAssumption
<1>3. On(FramesOf[c], V!Top(c).s)
  BY <1>1 DEF On
<1>4. ASSUME NEW s \in Service \ raced', NEW g \in FramesOf'[c], g \notin FramesOf[c], g.s = s
      PROVE  /\ g.at \notin {"spawn", "write"}
             /\ g.at = "unlink" => pidFile[s] \notin Living
             /\ On(FramesOf[c], s) \/ \A d \in Command \ {c} : ~On(FramesOf[d], s)
  <2>1. g = f
    BY <1>1, <1>4
  <2> QED
    BY <1>2, <1>3, <1>4, <2>1
<1>5. ASSUME NEW g \in FramesOf[c], g.at = "write" PROVE g \in FramesOf'[c]
  BY <1>1, <1>5
<1> QED
  BY <1>4, <1>5, Quiet

(* or takes frames away, none of which is writing a pid file to keep. *)
LEMMA QuietLess ==
  ASSUME V!ServicesAssumption, ServicesInv, HasType', SoundCommands', NEW c \in Command,
         raced \subseteq raced', pidFile' = pidFile,
         \A p \in V!Pid : proc'[p] # V!Free => proc[p] # V!Free /\ proc'[p].of = proc[p].of,
         \A d \in Command \ {c} : FramesOf'[d] = FramesOf[d],
         FramesOf'[c] \subseteq FramesOf[c],
         \A g \in FramesOf[c] : g.at = "write" => g \in FramesOf'[c] \/ g.s \in raced'
  PROVE  ServicesInv'
<1>1. \A s \in Service \ raced' : \A g \in FramesOf[c] : g.at = "write" /\ g.s = s => g \in FramesOf'[c]
  OBVIOUS
<1>2. \A g \in FramesOf'[c] : g \in FramesOf[c]
  OBVIOUS
<1> QED
  BY <1>1, <1>2, Quiet

(* The end of a command. *)
LEMMA EndStep ==
  ASSUME V!ServicesAssumption, ServicesInv, NEW c \in Command, V!Lives(c),
         command' = [command EXCEPT ![c] = V!Ended], daemon' \in Command \cup {None},
         pidFile' = pidFile, proc' \in [V!Pid -> Process], losses' \in 0..MaxLosses, upset' \in BOOLEAN,
         raced \subseteq raced', raced' \in SUBSET Service,
         \A p \in V!Pid : proc'[p] # V!Free => proc[p] # V!Free /\ proc'[p].of = proc[p].of,
         \A g \in FramesOf[c] : g.at = "write" => g.s \in raced'
  PROVE  ServicesInv'
<1>1. /\ command' \in [Command -> ACommand] /\ SoundCommands'
      /\ FramesOf'[c] = {} /\ \A d \in Command \ {c} : FramesOf'[d] = FramesOf[d]
  BY Changed, EndedCommand, NoFrame DEF ServicesInv
<1>2. HasType'
  BY <1>1 DEF HasType, ServicesInv
<1> QED
  BY <1>1, <1>2, QuietLess

(* Frames that go on *)

LEMMA GoAt ==
  ASSUME NEW c \in Command, V!Top(c) \in AFrame, SoundFrame(V!Top(c)), V!Top(c).todo # <<>>, NEW s \in Service,
         NEW a \in Starting \cup {"kill", "wait", "unlink"}, a # "write",
         a \in Starting => Head(V!Top(c).plan) \in {"start", "watch"},
         a \in {"kill", "wait", "unlink"} => Head(V!Top(c).plan) = "stop", V!At(c, s, a)
  PROVE  \E f \in AFrame : /\ SoundFrame(f) /\ f.plan = V!Top(c).plan /\ f.s = s /\ f.at = a
                           /\ V!Go(c, f)
<1> DEFINE t == V!Top(c)
           f == [t EXCEPT !.s = s, !.at = a]
<1>1. V!Go(c, f)
  BY DEF V!At
<1>2. t \in AFrame /\ t.todo # <<>>
  OBVIOUS
<1> HIDE DEF t
<1>3. f \in AFrame /\ f.plan = t.plan /\ f.todo = t.todo /\ f.s = s /\ f.at = a
  BY <1>2 DEF AFrame
<1> HIDE DEF f
<1>4. a # "next"
  BY DEF Starting
<1>5. SoundFrame(f)
  BY <1>2, <1>3, <1>4 DEF SoundFrame, t
<1> QED
  BY <1>1, <1>3, <1>5 DEF t

LEMMA GoDone ==
  ASSUME NEW c \in Command, V!Top(c) \in AFrame, V!Top(c).todo # <<>>, NEW s, V!Done(c, s)
  PROVE  \E f \in AFrame : /\ SoundFrame(f) /\ f.plan = V!Top(c).plan /\ f.s = None /\ f.at = "next"
                           /\ V!Go(c, f)
<1> DEFINE t == V!Top(c)
           ss == Tail(t.todo)
           f == [t EXCEPT !.todo = ss, !.at = "next", !.s = None, !.p = None]
<1>1. V!Go(c, f)
  BY DEF V!Done
<1>2. t \in AFrame /\ t.todo # <<>>
  OBVIOUS
<1> HIDE DEF t
<1>3. ss \in Seq(Service)
  BY <1>2, HeadTailProperties, EmptySeq DEF AFrame
<1> HIDE DEF ss
<1>4. f \in AFrame /\ f.plan = t.plan /\ f.s = None /\ f.at = "next"
  BY <1>2, <1>3 DEF AFrame
<1> HIDE DEF f
<1>5. SoundFrame(f)
  BY <1>4 DEF SoundFrame, Starting
<1> QED
  BY <1>1, <1>4, <1>5 DEF t

LEMMA FrameTodo ==
  ASSUME NEW t \in AFrame, t.at = "next", SoundFrame(t), NEW on \in Seq(Service),
         NEW f, f = [t EXCEPT !.todo = on]
  PROVE  f \in AFrame /\ SoundFrame(f) /\ f.s = None /\ f.at = "next"
<1>1. t.s = None
  BY DEF SoundFrame
<1>2. f \in AFrame /\ f.plan = t.plan /\ f.s = None /\ f.at = "next"
  BY <1>1 DEF AFrame
<1>3. SoundFrame(f)
  BY <1>2 DEF SoundFrame, Starting
<1> QED
  BY <1>2, <1>3

LEMMA FramePlan ==
  ASSUME NEW t \in AFrame, t.at = "next", SoundFrame(t), NEW plan \in Plans,
         NEW f, f = [t EXCEPT !.plan = plan]
  PROVE  f \in AFrame /\ SoundFrame(f) /\ f.s = None /\ f.at = "next"
<1>1. t.s = None
  BY DEF SoundFrame
<1>2. f \in AFrame /\ f.plan = plan /\ f.s = None /\ f.at = "next"
  BY <1>1 DEF AFrame
<1>3. SoundFrame(f)
  BY <1>2 DEF SoundFrame, Starting
<1> QED
  BY <1>2, <1>3

(* Where a frame of each phase is. *)
LEMMA Phases ==
  ASSUME NEW t \in AFrame, SoundFrame(t)
  PROVE  /\ Head(t.plan) \in {"prepare", "enter", "signal"} => t.at = "next"
         /\ t.at # "next" => t.todo # <<>> /\ t.s \in Service
         /\ t.at \in {"spawn", "write", "restart"} => t.plan # <<"stop">>
         /\ Head(t.plan) # "stop" => t.plan # <<"stop">>
         /\ t.at \in {"kill", "wait", "unlink"} => Head(t.plan) = "stop"
         /\ t.plan \in Plans /\ t.todo \in Seq(Service)
<1>1. Head(<<"stop">>) = "stop"
  OBVIOUS
<1>2. /\ t.at \in Starting \cup {"next", "kill", "wait", "unlink"}
      /\ t.plan \in Plans /\ t.todo \in Seq(Service)
  BY DEF AFrame
<1> QED
  BY <1>1, <1>2 DEF SoundFrame, Starting

(* The top frame of c goes on as f, and no process is started. *)
LEMMA GoQuiet ==
  ASSUME V!ServicesAssumption, ServicesInv, NEW c \in Command, V!Lives(c), NEW f \in AFrame, SoundFrame(f),
         f.plan = V!Top(c).plan \/ V!Top(c).plan # <<"stop">>, V!Go(c, f),
         UNCHANGED <<proc, pidFile, daemon, losses, upset>>,
         raced \subseteq raced', raced' \in SUBSET Service,
         V!Top(c).at # "write", f.at \notin {"spawn", "write"}, f.at = "unlink" => pidFile[f.s] \notin Living,
         f.s = None \/ f.s = V!Top(c).s \/ f.s \in raced' \/ \A d \in Command \ {c} : ~On(FramesOf[d], f.s)
  PROVE  ServicesInv'
<1>1. /\ command' \in [Command -> ACommand] /\ SoundCommands'
      /\ FramesOf'[c] = {f} \cup Below(command[c].stack)
      /\ \A d \in Command \ {c} : FramesOf'[d] = FramesOf[d]
  BY GoStep DEF ServicesInv
<1>2. HasType'
  BY <1>1 DEF HasType, ServicesInv
<1>3. \A p \in V!Pid : proc'[p] # V!Free => proc[p] # V!Free /\ proc'[p].of = proc[p].of
  OBVIOUS
<1> QED
  BY <1>1, <1>2, <1>3, QuietTop

LEMMA TurnStep ==
  ASSUME V!ServicesAssumption, ServicesInv, NEW c \in Command, V!Turn(c)
  PROVE  ServicesInv'
<1> DEFINE t == V!Top(c)
           again == V!Phase(c) = "watch" /\ ~command[c].leave
           rest == IF again THEN t.plan ELSE Tail(t.plan)
           st == command[c].stack
<1>1. V!Lives(c) /\ HasType /\ SoundCommands /\ t.at = "next"
  BY DEF V!Turn, ServicesInv
<1>2. /\ t \in AFrame /\ SoundFrame(t) /\ command[c].on \in Seq(Service) /\ command[c].begun
      /\ command[c] \in ACommand /\ st \in Seq(AFrame) /\ st # <<>> /\ SoundStack(st)
      /\ FramesOf[c] = {t} \cup Below(st)
      /\ ~(Len(st) > 1) => Below(st) = {}
  BY <1>1, LivingCommand
<1>3. t.plan \in Plans /\ V!Phase(c) = Head(t.plan)
  BY <1>2, Phases DEF V!Phase
<1>4. UNCHANGED <<proc, pidFile, losses, raced, upset>>
  BY DEF V!Turn
<1>5. IF rest # <<>>
      THEN V!Go(c, [t EXCEPT !.plan = rest, !.todo = command[c].on]) /\ UNCHANGED daemon
      ELSE IF Len(st) > 1
      THEN command' = [command EXCEPT ![c].stack = Tail(@)] /\ UNCHANGED daemon
      ELSE V!Ends(c)
  BY DEF V!Turn
<1>6. raced \subseteq raced' /\ raced' \in SUBSET Service
  BY <1>1, <1>4 DEF HasType
<1>7. CASE rest # <<>>
  <2>1. rest \in Plans
    BY <1>3, <1>7, PlanSteps
  <2>2. t.plan # <<"stop">>
    <3>1. t.plan = <<"stop">> => Tail(t.plan) = <<>> /\ Head(t.plan) = "stop"
      BY <1>3, PlanSteps
    <3> QED
      BY <1>3, <1>7, <3>1
  <2> DEFINE on == command[c].on
             f == [t EXCEPT !.plan = rest, !.todo = on]
  <2>3. f \in AFrame /\ SoundFrame(f) /\ f.s = None /\ f.at = "next"
    <3>1. t \in AFrame /\ SoundFrame(t) /\ t.at = "next" /\ on \in Seq(Service) /\ rest \in Plans
      BY <1>1, <1>2, <2>1
    <3> HIDE DEF t, on, rest
    <3> DEFINE e == [t EXCEPT !.plan = rest]
    <3>2. e \in AFrame /\ SoundFrame(e) /\ e.s = None /\ e.at = "next"
      BY <3>1, FramePlan
    <3>3. f = [e EXCEPT !.todo = on]
      OBVIOUS
    <3> HIDE DEF e, f
    <3> QED
      BY <3>1, <3>2, <3>3, FrameTodo
  <2>4. V!Go(c, f) /\ UNCHANGED daemon
    BY <1>5, <1>7
  <2> HIDE DEF f
  <2>5. UNCHANGED <<proc, pidFile, daemon, losses, upset>>
    BY <1>4, <2>4
  <2>6. t.at # "write" /\ f.at \notin {"spawn", "write"} /\ f.at # "unlink"
    BY <1>1, <2>3
  <2> QED
    BY <1>1, <1>6, <2>2, <2>3, <2>4, <2>5, <2>6, GoQuiet DEF t
<1>8. CASE rest = <<>> /\ Len(st) > 1
  <2> DEFINE n == Tail(st)
             x == [command[c] EXCEPT !.stack = n]
  <2>1. n \in Seq(AFrame) /\ SoundStack(n) /\ Frames(n) = Below(st)
    BY <1>2, Popped
  <2>2. command' = [command EXCEPT ![c] = x] /\ UNCHANGED daemon
    BY <1>5, <1>8
  <2> HIDE DEF n
  <2>3. x \in ACommand /\ x.stack = n /\ x.begun
    BY <1>2, <2>1, Updates
  <2> HIDE DEF x
  <2>4. /\ command' \in [Command -> ACommand] /\ SoundCommands'
        /\ FramesOf'[c] = Below(st)
        /\ \A d \in Command \ {c} : FramesOf'[d] = FramesOf[d]
    BY <1>1, <2>1, <2>2, <2>3, Changed
  <2>5. HasType'
    BY <1>1, <1>4, <2>2, <2>4 DEF HasType
  <2>6. FramesOf'[c] \subseteq FramesOf[c] /\ \A g \in FramesOf[c] : g.at = "write" => g \in FramesOf'[c]
    BY <1>1, <1>2, <2>4
  <2>7. pidFile' = pidFile /\ \A p \in V!Pid : proc'[p] # V!Free => proc[p] # V!Free /\ proc'[p].of = proc[p].of
    BY <1>4
  <2> QED
    BY <1>6, <2>4, <2>5, <2>6, <2>7, QuietLess
<1>9. CASE rest = <<>> /\ ~(Len(st) > 1)
  <2>1. V!Ends(c)
    BY <1>5, <1>9
  <2>2. FramesOf[c] = {t}
    BY <1>2, <1>9
  <2>3. command' = [command EXCEPT ![c] = V!Ended] /\ daemon' \in Command \cup {None}
    BY <1>1, <2>1 DEF V!Ends, HasType
  <2>4. proc' \in [V!Pid -> Process] /\ losses' \in 0..MaxLosses /\ upset' \in BOOLEAN /\ pidFile' = pidFile
    BY <1>1, <1>4 DEF HasType
  <2>5. \A g \in FramesOf[c] : g.at = "write" => g.s \in raced'
    BY <1>1, <2>2
  <2>6. \A p \in V!Pid : proc'[p] # V!Free => proc[p] # V!Free /\ proc'[p].of = proc[p].of
    BY <1>4
  <2> QED
    BY <1>1, <1>6, <2>3, <2>4, <2>5, <2>6, EndStep
<1> QED
  BY <1>7, <1>8, <1>9

LEMMA PrepareStep ==
  ASSUME V!ServicesAssumption, ServicesInv, NEW c \in Command, V!Prepare(c)
  PROVE  ServicesInv'
<1> DEFINE t == V!Top(c)
           rest == Tail(t.plan)
<1>1. V!Lives(c) /\ HasType /\ SoundCommands /\ Head(t.plan) = "prepare"
  BY DEF V!Prepare, ServicesInv, V!Phase
<1>2. t \in AFrame /\ SoundFrame(t) /\ FramesOf[c] = {t} \cup Below(command[c].stack)
      /\ (t.plan # <<"stop">> => Below(command[c].stack) = {})
  BY <1>1, LivingCommand
<1>3. t.plan \in Plans /\ t.plan # <<"stop">> /\ t.at = "next" /\ t.todo \in Seq(Service)
  BY <1>1, <1>2, Phases
<1>4. UNCHANGED <<proc, pidFile, losses, raced, upset>>
  BY DEF V!Prepare
<1>5. raced \subseteq raced' /\ raced' \in SUBSET Service
  BY <1>1, <1>4 DEF HasType
<1>6. CASE V!Go(c, [t EXCEPT !.plan = Tail(@)]) /\ UNCHANGED daemon
  <2>1. rest \in Plans
    BY <1>1, <1>3, PlanSteps
  <2> DEFINE f == [t EXCEPT !.plan = rest]
  <2>2. V!Go(c, f) /\ UNCHANGED daemon
    BY <1>6
  <2> HIDE DEF rest
  <2>3. f \in AFrame /\ SoundFrame(f) /\ f.s = None /\ f.at = "next"
    BY <1>2, <1>3, <2>1, FramePlan
  <2> HIDE DEF f
  <2>4. UNCHANGED <<proc, pidFile, daemon, losses, upset>>
    BY <1>4, <2>2
  <2>5. t.at # "write" /\ f.at \notin {"spawn", "write"} /\ f.at # "unlink"
    BY <1>3, <2>3
  <2> QED
    BY <1>1, <1>3, <1>5, <2>2, <2>3, <2>4, <2>5, GoQuiet DEF t
<1>7. CASE V!Ends(c)
  <2>1. command' = [command EXCEPT ![c] = V!Ended] /\ daemon' \in Command \cup {None}
    BY <1>1, <1>7 DEF V!Ends, HasType
  <2>2. proc' \in [V!Pid -> Process] /\ losses' \in 0..MaxLosses /\ upset' \in BOOLEAN /\ pidFile' = pidFile
    BY <1>1, <1>4 DEF HasType
  <2>3. \A g \in FramesOf[c] : g.at = "write" => g.s \in raced'
    BY <1>2, <1>3
  <2>4. \A p \in V!Pid : proc'[p] # V!Free => proc[p] # V!Free /\ proc'[p].of = proc[p].of
    BY <1>4
  <2> QED
    BY <1>1, <1>5, <2>1, <2>2, <2>3, <2>4, EndStep
<1> QED
  BY <1>6, <1>7 DEF V!Prepare

(* The top frame of a command, and the service it is at. *)
LEMMA FrontFrame ==
  ASSUME ServicesInv, NEW c \in Command, V!Lives(c)
  PROVE  /\ HasType /\ SoundCommands /\ V!Top(c) \in AFrame /\ SoundFrame(V!Top(c))
         /\ FramesOf[c] = {V!Top(c)} \cup Below(command[c].stack)
         /\ V!Top(c).plan # <<"stop">> => Below(command[c].stack) = {}
         /\ V!Top(c).at # "next" => V!Top(c).todo # <<>> /\ V!Top(c).s \in Service
         /\ V!Top(c).at \in {"spawn", "write", "restart"} => V!Top(c).plan # <<"stop">>
         /\ V!Phase(c) # "stop" => V!Top(c).plan # <<"stop">>
         /\ V!Top(c).at \in {"kill", "wait", "unlink"} => Head(V!Top(c).plan) = "stop"
         /\ V!Phase(c) \in {"prepare", "enter", "signal"} => V!Top(c).at = "next"
<1>1. /\ HasType /\ SoundCommands /\ V!Top(c) \in AFrame /\ SoundFrame(V!Top(c))
      /\ FramesOf[c] = {V!Top(c)} \cup Below(command[c].stack)
      /\ V!Top(c).plan # <<"stop">> => Below(command[c].stack) = {}
  BY LivingCommand DEF ServicesInv
<1> QED
  BY <1>1, Phases DEF V!Phase

LEMMA WaitStep ==
  ASSUME V!ServicesAssumption, ServicesInv, NEW c \in Command, V!Wait(c)
  PROVE  ServicesInv'
<1> DEFINE t == V!Top(c)
<1>1. V!Lives(c) /\ t.at = "wait" /\ UNCHANGED <<proc, pidFile, daemon, losses, raced, upset>>
  BY DEF V!Wait
<1>2. /\ HasType /\ SoundCommands /\ t \in AFrame /\ SoundFrame(t) /\ t.todo # <<>>
      /\ t.s \in Service
      /\ Head(t.plan) = "stop"
  BY <1>1, FrontFrame
<1>3. raced \subseteq raced' /\ raced' \in SUBSET Service
  BY <1>1, <1>2 DEF HasType
<1>4. CASE V!Done(c, t.s)
  <2>1. PICK f \in AFrame : SoundFrame(f) /\ f.plan = t.plan /\ f.s = None /\ f.at = "next" /\ V!Go(c, f)
    BY <1>2, <1>4, GoDone
  <2> QED
    BY <1>1, <1>3, <2>1, GoQuiet DEF t
<1>5. CASE ~V!Running(t.s) /\ V!At(c, t.s, "unlink")
  <2>1. PICK f \in AFrame : SoundFrame(f) /\ f.plan = t.plan /\ f.s = t.s /\ f.at = "unlink" /\ V!Go(c, f)
    BY <1>2, <1>5, GoAt DEF Starting
  <2>2. pidFile[f.s] \notin Living
    BY <1>2, <1>5, <2>1, RunningIs
  <2> QED
    BY <1>1, <1>3, <2>1, <2>2, GoQuiet DEF t
<1> QED
  BY <1>4, <1>5 DEF V!Wait

LEMMA StopServiceStep ==
  ASSUME V!ServicesAssumption, ServicesInv, NEW c \in Command, NEW s \in Service, V!StopService(c, s)
  PROVE  ServicesInv'
<1> DEFINE t == V!Top(c)
<1>1. /\ V!Lives(c) /\ t.at = "next" /\ t.todo # <<>> /\ Head(t.plan) = "stop"
      /\ UNCHANGED <<proc, pidFile, daemon, losses, upset>>
  BY DEF V!StopService, V!In, V!Now, V!Phase
<1>2. HasType /\ SoundCommands /\ t \in AFrame /\ SoundFrame(t)
  BY <1>1, FrontFrame
<1>3. CASE V!Done(c, s) /\ UNCHANGED raced
  <2>1. PICK f \in AFrame : SoundFrame(f) /\ f.plan = t.plan /\ f.s = None /\ f.at = "next" /\ V!Go(c, f)
    BY <1>1, <1>2, <1>3, GoDone
  <2>2. raced \subseteq raced' /\ raced' \in SUBSET Service
    BY <1>2, <1>3 DEF HasType
  <2> QED
    BY <1>1, <2>1, <2>2, GoQuiet DEF t
<1>4. CASE V!At(c, s, "kill") /\ V!Race(c, s)
  <2>1. PICK f \in AFrame : SoundFrame(f) /\ f.plan = t.plan /\ f.s = s /\ f.at = "kill" /\ V!Go(c, f)
    BY <1>1, <1>2, <1>4, GoAt DEF Starting
  <2>2. /\ raced \subseteq raced' /\ raced' \in SUBSET Service
        /\ s \notin raced' => \A d \in Command \ {c} : ~On(FramesOf[d], s)
    BY <1>2, <1>4, RaceIs
  <2> QED
    BY <1>1, <2>1, <2>2, GoQuiet DEF t
<1> QED
  BY <1>3, <1>4 DEF V!StopService

LEMMA WatchStep ==
  ASSUME V!ServicesAssumption, ServicesInv, NEW c \in Command, NEW s \in Service, V!Watch(c, s)
  PROVE  ServicesInv'
<1> DEFINE t == V!Top(c)
           st == command[c].stack
<1>1. /\ V!Lives(c) /\ t.at = "next" /\ t.todo # <<>> /\ Head(t.plan) = "watch"
      /\ UNCHANGED <<proc, pidFile, daemon, losses, upset>>
  BY DEF V!Watch, V!In, V!Now, V!Phase
<1>2. /\ HasType /\ SoundCommands /\ t \in AFrame /\ SoundFrame(t) /\ t.plan # <<"stop">>
      /\ command[c] \in ACommand /\ command[c].begun /\ command[c].on \in Seq(Service)
      /\ st \in Seq(AFrame) /\ st # <<>> /\ SoundStack(st)
  BY <1>1, FrontFrame, LivingCommand DEF V!Phase
<1>3. \A p \in V!Pid : proc'[p] # V!Free => proc[p] # V!Free /\ proc'[p].of = proc[p].of
  BY <1>1
<1>4. CASE V!Done(c, s) /\ UNCHANGED raced
  <2>1. PICK f \in AFrame : SoundFrame(f) /\ f.plan = t.plan /\ f.s = None /\ f.at = "next" /\ V!Go(c, f)
    BY <1>1, <1>2, <1>4, GoDone
  <2>2. raced \subseteq raced' /\ raced' \in SUBSET Service
    BY <1>2, <1>4 DEF HasType
  <2> QED
    BY <1>1, <2>1, <2>2, GoQuiet DEF t
<1>5. ASSUME UNCHANGED raced,
             command' = [command EXCEPT ![c].leave = TRUE,
               ![c].stack = <<[V!Top(c) EXCEPT !.plan = Tail(@), !.todo = command[c].on]>> \o Tail(@)]
      PROVE  ServicesInv'
  <2> DEFINE rest == Tail(t.plan)
             on == command[c].on
             e == [t EXCEPT !.plan = rest]
             f == [e EXCEPT !.todo = on]
             k == [command[c] EXCEPT !.leave = TRUE]
             n == <<f>> \o Tail(st)
             x == [k EXCEPT !.stack = n]
  <2>1. command' = [command EXCEPT ![c] = x]
    BY <1>2, <1>5 DEF ACommand
  <2>2. rest \in Plans
    BY <1>1, <1>2, PlanSteps, Phases
  <2>3. f \in AFrame /\ SoundFrame(f) /\ f.s = None /\ f.at = "next"
    <3> HIDE DEF t, rest
    <3>1. e \in AFrame /\ SoundFrame(e) /\ e.s = None /\ e.at = "next"
      BY <1>1, <1>2, <2>2, FramePlan
    <3>2. on \in Seq(Service)
      BY <1>2
    <3> HIDE DEF e, on
    <3> QED
      BY <3>1, <3>2, FrameTodo
  <2> HIDE DEF f, rest, on, e
  <2>4. k \in ACommand /\ k.begun
    BY <1>2 DEF ACommand
  <2>5. n \in Seq(AFrame)
    BY <1>1, <1>2, <2>3, Replaced, FrontFrame, LivingCommand
  <2> HIDE DEF k, n
  <2>6. x \in ACommand /\ x.begun /\ x.stack = n
    BY <2>4, <2>5, Updates
  <2> HIDE DEF x
  <2>7. /\ command' \in [Command -> ACommand] /\ SoundCommands'
        /\ FramesOf'[c] = {f} \cup Below(command[c].stack)
        /\ \A d \in Command \ {c} : FramesOf'[d] = FramesOf[d]
    BY <1>1, <1>2, <2>1, <2>3, <2>6, Goes DEF n
  <2>8. HasType' /\ raced \subseteq raced'
    BY <1>1, <1>2, <1>5, <2>7 DEF HasType
  <2>9. t.at # "write" /\ f.at \notin {"spawn", "write"} /\ f.at # "unlink"
    BY <1>1, <2>3
  <2>10. pidFile' = pidFile
    BY <1>1
  <2> QED
    BY <1>1, <1>3, <2>3, <2>7, <2>8, <2>9, <2>10, QuietTop DEF t
<1>6. ASSUME V!Race(c, s),
             command' = [command EXCEPT ![c].retry[s] = @ + 1,
               ![c].stack = <<[V!Top(c) EXCEPT !.s = s, !.at = "restart"]>> \o Tail(@)]
      PROVE  ServicesInv'
  <2> DEFINE f == [t EXCEPT !.s = s, !.at = "restart"]
             m == [command[c].retry EXCEPT ![s] = @ + 1]
             k == [command[c] EXCEPT !.retry = m]
             n == <<f>> \o Tail(st)
             x == [k EXCEPT !.stack = n]
  <2>1. command' = [command EXCEPT ![c] = x]
    BY <1>2, <1>6 DEF ACommand
  <2>2. m \in [Service -> Nat]
    BY <1>2 DEF ACommand
  <2>3. f \in AFrame /\ f.plan = t.plan /\ f.todo = t.todo /\ f.s = s /\ f.at = "restart"
    <3> HIDE DEF t
    <3> QED
      BY <1>2 DEF AFrame, Starting
  <2> HIDE DEF f, m
  <2>4. SoundFrame(f)
    BY <1>1, <1>2, <2>3 DEF SoundFrame, Starting
  <2>5. k \in ACommand /\ k.begun
    BY <1>2, <2>2 DEF ACommand
  <2>6. n \in Seq(AFrame)
    BY <1>1, <1>2, <2>3, <2>4, Replaced, FrontFrame, LivingCommand
  <2> HIDE DEF k, n
  <2>7. x \in ACommand /\ x.begun /\ x.stack = n
    BY <2>5, <2>6, Updates
  <2> HIDE DEF x
  <2>8. /\ command' \in [Command -> ACommand] /\ SoundCommands'
        /\ FramesOf'[c] = {f} \cup Below(command[c].stack)
        /\ \A d \in Command \ {c} : FramesOf'[d] = FramesOf[d]
    BY <1>1, <1>2, <2>1, <2>3, <2>4, <2>7, Goes DEF n
  <2>9. /\ raced \subseteq raced' /\ raced' \in SUBSET Service
        /\ s \notin raced' => \A d \in Command \ {c} : ~On(FramesOf[d], s)
    BY <1>2, <1>6, RaceIs
  <2>10. HasType'
    BY <1>1, <1>2, <2>8, <2>9 DEF HasType
  <2>11. t.at # "write" /\ f.at \notin {"spawn", "write"} /\ f.at # "unlink"
    BY <1>1, <2>3
  <2>12. pidFile' = pidFile
    BY <1>1
  <2> QED
    BY <1>1, <1>3, <2>3, <2>8, <2>9, <2>10, <2>11, <2>12, QuietTop DEF t
<1> QED
  BY <1>4, <1>5, <1>6 DEF V!Watch

LEMMA InterruptedIs ==
  ASSUME HasType, NEW c \in Command, NEW g \in Below(command[c].stack), g.s \in Service
  PROVE  g.s \in V!Interrupted(c)
BY DEF Below, V!Interrupted

LEMMA KillStep ==
  ASSUME V!ServicesAssumption, ServicesInv, NEW c \in Command, V!Kill(c)
  PROVE  ServicesInv'
<1> DEFINE t == V!Top(c)
           st == command[c].stack
           p == pidFile[t.s]
           mine(q) == IF p = None THEN proc[q].group = c ELSE q = p
<1>1. V!Lives(c) /\ t.at = "kill" /\ pidFile' = pidFile /\ losses' = losses
  BY DEF V!Kill
<1>2. /\ HasType /\ SoundCommands /\ t \in AFrame /\ SoundFrame(t) /\ t.todo # <<>>
      /\ t.s \in Service
      /\ Head(t.plan) = "stop" /\ FramesOf[c] = {t} \cup Below(st)
  BY <1>1, FrontFrame
<1>3. /\ command[c] \in ACommand /\ command[c].begun
      /\ st \in Seq(AFrame) /\ st # <<>> /\ SoundStack(st)
      /\ t.plan # <<"stop">> => Len(st) = 1
  BY <1>1, <1>2, LivingCommand
<1>4. proc' = [q \in V!Pid |-> IF V!Alive(q) /\ mine(q) THEN [proc[q] EXCEPT !.state = "dying"] ELSE proc[q]]
  BY DEF V!Kill
<1>5. \A q \in V!Pid : proc[q] \in Process
  BY <1>2 DEF HasType
<1>6. \A q \in V!Pid : proc'[q] = proc[q] \/ (proc[q] # V!Free /\ proc'[q] = [proc[q] EXCEPT !.state = "dying"])
  BY <1>4 DEF V!Alive
<1>7. \A r \in Process : [r EXCEPT !.state = "dying"] \in Process /\ [r EXCEPT !.state = "dying"].of = r.of
  BY DEF Process
<1>8. proc' \in [V!Pid -> Process]
  BY <1>4, <1>5, <1>7
<1>9. \A q \in V!Pid : proc'[q] # V!Free => proc[q] # V!Free /\ proc'[q].of = proc[q].of
  BY <1>5, <1>6, <1>7
<1>10. ASSUME command' = [command EXCEPT ![c].term = @ \/ p = None,
                 ![c].stack = <<[V!Top(c) EXCEPT !.at = "wait"]>> \o Tail(@)],
              UNCHANGED <<daemon, raced, upset>>
       PROVE  ServicesInv'
  <2> DEFINE f == [t EXCEPT !.at = "wait"]
             b == command[c].term \/ p = None
             k == [command[c] EXCEPT !.term = b]
             n == <<f>> \o Tail(st)
             x == [k EXCEPT !.stack = n]
  <2>1. command' = [command EXCEPT ![c] = x]
    BY <1>3, <1>10 DEF ACommand
  <2>2. b \in BOOLEAN
    BY <1>3 DEF ACommand
  <2>3. f \in AFrame /\ f.plan = t.plan /\ f.todo = t.todo /\ f.s = t.s /\ f.at = "wait"
    <3> HIDE DEF t
    <3> QED
      BY <1>2 DEF AFrame, Starting
  <2> HIDE DEF f, b
  <2>4. SoundFrame(f)
    BY <1>1, <1>2, <2>3 DEF SoundFrame, Starting
  <2>5. k \in ACommand /\ k.begun
    BY <1>3, <2>2 DEF ACommand
  <2>6. n \in Seq(AFrame)
    BY <1>3, <2>3, <2>4, Replaced
  <2> HIDE DEF k, n
  <2>7. x \in ACommand /\ x.begun /\ x.stack = n
    BY <2>5, <2>6, Updates
  <2> HIDE DEF x
  <2>8. /\ command' \in [Command -> ACommand] /\ SoundCommands'
        /\ FramesOf'[c] = {f} \cup Below(command[c].stack)
        /\ \A d \in Command \ {c} : FramesOf'[d] = FramesOf[d]
    BY <1>1, <1>2, <2>1, <2>3, <2>4, <2>7, Goes DEF n
  <2>9. HasType' /\ raced \subseteq raced'
    BY <1>1, <1>2, <1>8, <1>10, <2>8 DEF HasType
  <2>10. t.at # "write" /\ f.at \notin {"spawn", "write"} /\ f.at # "unlink"
    BY <1>1, <2>3
  <2>11. pidFile' = pidFile
    BY <1>1
  <2> QED
    BY <1>1, <1>9, <2>3, <2>8, <2>9, <2>10, <2>11, QuietTop DEF t
<1>11. ASSUME V!Ends(c), raced' = raced \cup V!Interrupted(c), upset' = TRUE
       PROVE  ServicesInv'
  <2>1. command' = [command EXCEPT ![c] = V!Ended] /\ daemon' \in Command \cup {None}
    BY <1>2, <1>11 DEF V!Ends, HasType
  <2>2. losses' \in 0..MaxLosses /\ upset' \in BOOLEAN /\ pidFile' = pidFile
    BY <1>1, <1>2, <1>11 DEF HasType
  <2>3. V!Interrupted(c) \subseteq Service
    BY DEF V!Interrupted
  <2>4. raced \subseteq raced' /\ raced' \in SUBSET Service
    BY <1>2, <1>11, <2>3 DEF HasType
  <2>5. \A g \in Below(st) : g \in AFrame /\ SoundFrame(g)
    <3>1. \A i \in 1..Len(st) : st[i] \in AFrame /\ SoundFrame(st[i])
      BY <1>3 DEF SoundStack
    <3>2. \A i \in 2..Len(st) : i \in 1..Len(st)
      BY <1>3, LenProperties
    <3> HIDE DEF st
    <3> QED
      BY <3>1, <3>2 DEF Below
  <2>6. ASSUME NEW g \in FramesOf[c], g.at = "write" PROVE g.s \in raced'
    <3>1. g \in Below(st)
      BY <1>1, <1>2, <2>6
    <3>2. g.s \in Service
      BY <2>5, <2>6, <3>1 DEF SoundFrame
    <3> QED
      BY <1>2, <1>11, <3>1, <3>2, InterruptedIs
  <2> QED
    BY <1>1, <1>8, <1>9, <2>1, <2>2, <2>4, <2>6, EndStep
<1> QED
  BY <1>10, <1>11 DEF V!Kill

-----------------------------------------------------------------------------
(* Steps that start a service, or change a pid file *)

(* They change one service. *)
OneChange(c, z) ==
  /\ raced \subseteq raced'
  /\ \A s \in Service \ {z} : /\ pidFile'[s] = pidFile[s] /\ V!Processes(s)' \subseteq V!Processes(s)
                              /\ pidFile[s] \in Living' => pidFile[s] \in Living
  /\ \A d \in Command \ {c} : FramesOf'[d] = FramesOf[d]
  /\ \E t, f, rest : /\ FramesOf[c] = {t} \cup rest /\ FramesOf'[c] = {f} \cup rest
                     /\ f.s = z \/ f.s = None
                     /\ t.at = "write" => t.s = z
  /\ z \notin raced' => SoundFor(z, FramesOf', pidFile'[z], V!Processes(z)', Living')

LEMMA OneService ==
  ASSUME V!ServicesAssumption, ServicesInv, NEW c \in Command, NEW z \in Service, OneChange(c, z)
  PROVE  SoundServices'
<1> USE DEF OneChange
<1>0. PICK t, f, rest : /\ FramesOf[c] = {t} \cup rest /\ FramesOf'[c] = {f} \cup rest
                        /\ f.s = z \/ f.s = None
                        /\ t.at = "write" => t.s = z
  OBVIOUS
<1>1. ASSUME NEW s \in Service, s \notin raced', s # z
      PROVE  SoundFor(s, FramesOf', pidFile'[s], V!Processes(s)', Living')
  <2> DEFINE fs == FramesOf
             gs == FramesOf'
             file == pidFile[s]
             ps == V!Processes(s)
             qs == V!Processes(s)'
             living == Living
             after == Living'
  <2>1. SoundFor(s, fs, file, ps, living)
    BY <1>1 DEF ServicesInv, SoundServices
  <2>2. \A d \in Command \ {c} : gs[d] = fs[d]
    OBVIOUS
  <2>3. qs \subseteq ps /\ (file \in after => file \in living) /\ pidFile'[s] = file
    BY <1>1
  <2>4. f.s # s
    BY <1>0, <1>1 DEF V!ServicesAssumption
  <2>5. fs[c] = {t} \cup rest /\ gs[c] = {f} \cup rest
    BY <1>0
  <2> HIDE DEF fs, gs, file, ps, qs, living, after
  <2>6. /\ \A g \in gs[c] : g \in fs[c] \/
             (g.s = s => /\ g.at \notin {"spawn", "write"}
                         /\ g.at = "unlink" => file \notin after
                         /\ On(fs[c], s) \/ \A d \in Command \ {c} : ~On(fs[d], s))
        /\ \A g \in fs[c] : g.at = "write" /\ g.s = s => g \in gs[c]
    BY <1>0, <1>1, <2>4, <2>5
  <2>7. QuietChange(s, fs, gs, file, ps, qs, living, after, c)
    BY <2>1, <2>2, <2>3, <2>6 DEF QuietChange
  <2>8. SoundFor(s, gs, file, qs, after)
    BY <2>7, QuietFor
  <2> QED
    BY <2>3, <2>8 DEF gs, qs, after
<1> QED
  BY <1>1 DEF SoundServices

LEMMA SoundNow ==
  ASSUME ServicesInv, NEW s \in Service, s \notin raced
  PROVE  SoundFor(s, FramesOf, pidFile[s], V!Processes(s), Living)
BY DEF ServicesInv, SoundServices

LEMMA StartServiceStep ==
  ASSUME V!ServicesAssumption, ServicesInv, NEW c \in Command, NEW s \in Service, V!StartService(c, s)
  PROVE  ServicesInv'
<1> DEFINE t == V!Top(c)
           rest == Below(command[c].stack)
<1>1. /\ V!Lives(c) /\ UNCHANGED <<proc, daemon, losses, upset>>
      /\ (t.at = "next" /\ t.todo # <<>> /\ Head(t.plan) = "start") \/ (t.at = "restart" /\ s = t.s)
  BY DEF V!StartService, V!In, V!Now, V!Phase
<1>2. /\ HasType /\ SoundCommands /\ t \in AFrame /\ SoundFrame(t) /\ t.todo # <<>>
      /\ Head(t.plan) \in {"start", "watch"} /\ t.plan # <<"stop">>
      /\ FramesOf[c] = {t} \cup rest /\ rest = {} /\ t.at # "write"
  <2>1. /\ HasType /\ SoundCommands /\ t \in AFrame /\ SoundFrame(t)
        /\ FramesOf[c] = {t} \cup rest
        /\ t.plan # <<"stop">> => rest = {}
    BY <1>1, FrontFrame
  <2>2. t.todo # <<>> /\ Head(t.plan) \in {"start", "watch"} /\ t.at # "write"
    BY <1>1, <2>1 DEF SoundFrame, Starting
  <2>3. t.plan # <<"stop">>
    BY <1>1, <2>2, FrontFrame DEF V!Phase
  <2> QED
    BY <2>1, <2>2, <2>3
<1>3. CASE V!Done(c, s) /\ UNCHANGED <<pidFile, raced>>
  <2>1. PICK f \in AFrame : SoundFrame(f) /\ f.plan = t.plan /\ f.s = None /\ f.at = "next" /\ V!Go(c, f)
    BY <1>2, <1>3, GoDone
  <2>2. raced \subseteq raced' /\ raced' \in SUBSET Service
    BY <1>2, <1>3 DEF HasType
  <2>3. UNCHANGED <<proc, pidFile, daemon, losses, upset>>
    BY <1>1, <1>3
  <2> QED
    BY <1>1, <1>2, <2>1, <2>2, <2>3, GoQuiet DEF t
<1>4. CASE ~V!Running(s) /\ V!At(c, s, "spawn") /\ pidFile' = [pidFile EXCEPT ![s] = None] /\ V!Race(c, s)
  <2>1. PICK f \in AFrame : SoundFrame(f) /\ f.plan = t.plan /\ f.s = s /\ f.at = "spawn" /\ V!Go(c, f)
    BY <1>2, <1>4, GoAt DEF Starting
  <2>2. /\ raced \subseteq raced' /\ raced' \in SUBSET Service
        /\ s \notin raced' => \A d \in Command \ {c} : ~On(FramesOf[d], s)
    BY <1>2, <1>4, RaceIs
  <2>3. /\ command' \in [Command -> ACommand] /\ SoundCommands'
        /\ FramesOf'[c] = {f} \cup rest
        /\ \A d \in Command \ {c} : FramesOf'[d] = FramesOf[d]
    BY <1>1, <1>2, <2>1, GoStep
  <2>4. HasType'
    BY <1>1, <1>2, <1>4, <2>2, <2>3 DEF HasType
  <2>5. pidFile'[s] = None /\ \A z \in Service \ {s} : pidFile'[z] = pidFile[z]
    BY <1>2, <1>4 DEF HasType
  <2>6. Living' = Living /\ \A z : V!Processes(z)' = V!Processes(z)
    BY <1>1 DEF Living, V!Processes, V!Alive
  <2>7. ASSUME s \notin raced'
        PROVE  SoundFor(s, FramesOf', pidFile'[s], V!Processes(s)', Living')
    <3> DEFINE fs == FramesOf
               gs == FramesOf'
               file == pidFile[s]
               ps == V!Processes(s)
               living == Living
    <3>1. SoundFor(s, fs, file, ps, living)
      BY <2>2, <2>7, SoundNow
    <3>2. ps \subseteq living /\ file \notin living
      BY <1>2, <1>4, ProcessesLive, RunningIs
    <3>3. /\ \A d \in Command \ {c} : gs[d] = fs[d] /\ ~On(fs[d], s)
          /\ fs[c] = {t} /\ t.at # "write" /\ gs[c] = {f} /\ f.at = "spawn"
      BY <1>2, <2>1, <2>2, <2>3, <2>7
    <3> HIDE DEF fs, gs, file, ps, living
    <3>4. StartChange(s, fs, gs, file, ps, living, c, t, f)
      BY <3>1, <3>2, <3>3 DEF StartChange
    <3>5. SoundFor(s, gs, None, ps, living)
      BY <3>4, StartFor
    <3> QED
      BY <2>5, <2>6, <3>5 DEF gs, ps, living
  <2>8. SoundServices'
    <3>1. /\ raced \subseteq raced' /\ t.at # "write" /\ f.s = s
          /\ FramesOf[c] = {t} \cup rest /\ FramesOf'[c] = {f} \cup rest
          /\ \A d \in Command \ {c} : FramesOf'[d] = FramesOf[d]
      BY <1>2, <2>1, <2>2, <2>3
    <3>2. \A z \in Service \ {s} : /\ pidFile'[z] = pidFile[z] /\ V!Processes(z)' \subseteq V!Processes(z)
                                   /\ pidFile[z] \in Living' => pidFile[z] \in Living
      BY <2>5, <2>6
    <3> HIDE DEF t, rest
    <3>3. \E k, g, r : /\ FramesOf[c] = {k} \cup r /\ FramesOf'[c] = {g} \cup r
                       /\ g.s = s \/ g.s = None
                       /\ k.at = "write" => k.s = s
      BY <3>1
    <3>4. OneChange(c, s)
      BY <2>7, <3>1, <3>2, <3>3 DEF OneChange
    <3> QED
      BY <3>4, OneService
  <2> QED
    BY <2>3, <2>4, <2>8 DEF ServicesInv
<1> QED
  BY <1>3, <1>4 DEF V!StartService

LEMMA SpawnStep ==
  ASSUME V!ServicesAssumption, ServicesInv, NEW c \in Command, V!Spawn(c)
  PROVE  ServicesInv'
<1>0. PICK s : s = V!Top(c).s
  OBVIOUS
<1> DEFINE t == V!Top(c)
           rest == Below(command[c].stack)
           group == IF V!Phase(c) = "watch" THEN c ELSE None
           born(u) == [of |-> u, state |-> "up", group |-> group]
<1>1. PICK p \in V!Unused : proc' = [proc EXCEPT ![p] = born(s)] /\ V!Go(c, [V!Top(c) EXCEPT !.at = "write", !.p = p])
  BY <1>0 DEF V!Spawn
<1>2. V!Lives(c) /\ t.at = "spawn" /\ UNCHANGED <<pidFile, daemon, losses, raced, upset>>
  BY DEF V!Spawn
<1>3. /\ HasType /\ SoundCommands /\ t \in AFrame /\ SoundFrame(t) /\ t.todo # <<>>
      /\ s \in Service /\ t.s = s
      /\ t.plan # <<"stop">> /\ FramesOf[c] = {t} \cup rest /\ rest = {}
      /\ Head(t.plan) \in {"start", "watch"}
  <2>1. Head(t.plan) \in {"start", "watch"}
    BY <1>2, FrontFrame DEF SoundFrame, Starting
  <2> QED
    BY <1>0, <1>2, <2>1, FrontFrame
<1>4. p \in V!Pid /\ proc[p] = V!Free /\ \A z \in Service : pidFile[z] # p
  BY DEF V!Unused
<1> DEFINE f == [t EXCEPT !.at = "write", !.p = p]
<1>5. f \in AFrame /\ f.plan = t.plan /\ f.todo = t.todo /\ f.s = s /\ f.at = "write" /\ f.p = p
  <2>1. t \in AFrame
    BY <1>3
  <2> HIDE DEF t
  <2> QED
    BY <1>3, <1>4, <2>1 DEF AFrame, Starting
<1>6. V!Go(c, f)
  BY <1>1
<1> HIDE DEF f
<1>7. SoundFrame(f)
  BY <1>3, <1>4, <1>5 DEF SoundFrame, Starting
<1>8. /\ command' \in [Command -> ACommand] /\ SoundCommands'
      /\ FramesOf'[c] = {f} \cup rest
      /\ \A d \in Command \ {c} : FramesOf'[d] = FramesOf[d]
  BY <1>2, <1>3, <1>5, <1>6, <1>7, GoStep
<1>9. born(s) \in Process /\ born(s).of = s /\ born(s) # V!Free
  BY <1>3 DEF Process, V!Free
<1> HIDE DEF born
<1>10. HasType'
  BY <1>1, <1>2, <1>3, <1>4, <1>8, <1>9 DEF HasType
<1>11. proc'[p] = born(s) /\ \A q \in V!Pid \ {p} : proc'[q] = proc[q]
  BY <1>1, <1>3, <1>4 DEF HasType
<1>12. \A z \in Service : pidFile'[z] = pidFile[z] /\ (pidFile[z] \in Living' => pidFile[z] \in Living)
  BY <1>2, <1>4, <1>11 DEF Living, V!Alive
<1>13. \A z \in Service \ {s} : V!Processes(z)' \subseteq V!Processes(z)
  BY <1>4, <1>9, <1>11 DEF V!Processes, V!Alive
<1>14. V!Processes(s)' = V!Processes(s) \cup {p}
  <2>1. p # None
    BY <1>4 DEF V!ServicesAssumption, V!Pid
  <2>2. \A q \in V!Pid : q \in V!Processes(s)' <=> q \in V!Processes(s) \/ q = p
    BY <1>4, <1>9, <1>11, <2>1 DEF V!Processes, V!Alive
  <2>3. V!Processes(s)' \subseteq V!Pid /\ V!Processes(s) \subseteq V!Pid
    BY DEF V!Processes, V!Pid
  <2> QED
    BY <1>4, <2>2, <2>3
<1>15. ASSUME s \notin raced'
       PROVE  SoundFor(s, FramesOf', pidFile'[s], V!Processes(s)', Living')
  <2> DEFINE fs == FramesOf
             gs == FramesOf'
             file == pidFile[s]
             ps == V!Processes(s)
             living == Living
             after == Living'
             k == t
  <2>1. SoundFor(s, fs, file, ps, living)
    BY <1>2, <1>3, <1>15, SoundNow
  <2>2. /\ \A d \in Command \ {c} : gs[d] = fs[d]
        /\ fs[c] = {k} /\ k.at = "spawn" /\ k.s = s /\ gs[c] = {f} /\ f.at = "write"
        /\ f.s = s /\ f.p = p
    BY <1>2, <1>3, <1>5, <1>8
  <2> HIDE DEF fs, gs, file, ps, living, after, k
  <2>3. ps = {}
    BY <2>1, <2>2 DEF SoundFor
  <2>4. SpawnChange(s, fs, gs, file, ps, living, after, c, k, f, p)
    BY <2>1, <2>2 DEF SpawnChange
  <2>5. SoundFor(s, gs, file, {p}, after)
    BY <2>4, SpawnFor
  <2>6. V!Processes(s)' = {p} /\ pidFile'[s] = file
    BY <1>2, <1>14, <2>3 DEF ps, file
  <2> QED
    BY <2>5, <2>6 DEF gs, after
<1>16. SoundServices'
  <2>1. raced \subseteq raced' /\ t.at # "write" /\ s \in Service /\ f.s = s
    BY <1>2, <1>3, <1>5
  <2>2. /\ FramesOf[c] = {t} \cup rest /\ FramesOf'[c] = {f} \cup rest
        /\ \A d \in Command \ {c} : FramesOf'[d] = FramesOf[d]
    BY <1>3, <1>8
  <2>3. \A z \in Service \ {s} : /\ pidFile'[z] = pidFile[z] /\ V!Processes(z)' \subseteq V!Processes(z)
                                 /\ pidFile[z] \in Living' => pidFile[z] \in Living
    BY <1>12, <1>13
  <2> HIDE DEF t, rest
  <2>4. \E k, g, r : /\ FramesOf[c] = {k} \cup r /\ FramesOf'[c] = {g} \cup r
                     /\ g.s = s \/ g.s = None
                     /\ k.at = "write" => k.s = s
    BY <2>1, <2>2
  <2>5. OneChange(c, s)
    BY <1>15, <2>1, <2>2, <2>3, <2>4 DEF OneChange
  <2> QED
    BY <2>1, <2>5, OneService
<1> QED
  BY <1>8, <1>10, <1>16 DEF ServicesInv

LEMMA WritePidStep ==
  ASSUME V!ServicesAssumption, ServicesInv, NEW c \in Command, V!WritePid(c)
  PROVE  ServicesInv'
<1>0. PICK s : s = V!Top(c).s
  OBVIOUS
<1> DEFINE t == V!Top(c)
           rest == Below(command[c].stack)
<1>1. /\ V!Lives(c) /\ t.at = "write" /\ t.s = s
      /\ UNCHANGED <<proc, daemon, losses, raced, upset>>
      /\ pidFile' = [pidFile EXCEPT ![s] = t.p] /\ V!Done(c, s)
  BY <1>0 DEF V!WritePid
<1>2. /\ HasType /\ SoundCommands /\ t \in AFrame /\ SoundFrame(t) /\ t.todo # <<>>
      /\ s \in Service
      /\ FramesOf[c] = {t} \cup rest /\ t.p \in V!Pid /\ rest = {}
  BY <1>1, FrontFrame DEF SoundFrame
<1>3. PICK f \in AFrame : SoundFrame(f) /\ f.plan = t.plan /\ f.s = None /\ f.at = "next" /\ V!Go(c, f)
  BY <1>1, <1>2, GoDone
<1>4. /\ command' \in [Command -> ACommand] /\ SoundCommands'
      /\ FramesOf'[c] = {f} \cup rest
      /\ \A d \in Command \ {c} : FramesOf'[d] = FramesOf[d]
  BY <1>1, <1>2, <1>3, GoStep
<1>5. pidFile'[s] = t.p /\ \A z \in Service \ {s} : pidFile'[z] = pidFile[z]
  BY <1>1, <1>2 DEF HasType
<1>6. HasType'
  BY <1>1, <1>2, <1>4 DEF HasType
<1>7. Living' = Living /\ \A z : V!Processes(z)' = V!Processes(z)
  BY <1>1 DEF Living, V!Processes, V!Alive
<1>8. f.s # s
  BY <1>2, <1>3 DEF V!ServicesAssumption
<1>9. ASSUME s \notin raced'
      PROVE  SoundFor(s, FramesOf', pidFile'[s], V!Processes(s)', Living')
  <2> DEFINE fs == FramesOf
             gs == FramesOf'
             file == pidFile[s]
             ps == V!Processes(s)
             living == Living
             k == t
             r == rest
  <2>1. SoundFor(s, fs, file, ps, living)
    BY <1>1, <1>2, <1>9, SoundNow
  <2>2. ps \subseteq living /\ None \notin living
    BY ProcessesLive
  <2>3. /\ \A d \in Command \ {c} : gs[d] = fs[d]
        /\ fs[c] = {k} \cup r /\ k.at = "write" /\ k.s = s /\ gs[c] = {f} \cup r /\ r = {}
    BY <1>1, <1>2, <1>4
  <2>4. pidFile'[s] = k.p /\ V!Processes(s)' = ps
    BY <1>5, <1>7
  <2> HIDE DEF fs, gs, file, ps, living, k, r
  <2>5. WriteChange(s, fs, gs, file, ps, living, c, k, f)
    BY <1>8, <2>1, <2>2, <2>3 DEF WriteChange
  <2>6. SoundFor(s, gs, k.p, ps, living)
    BY <2>5, WriteFor
  <2> QED
    BY <1>7, <2>4, <2>6 DEF gs, living
<1>10. SoundServices'
  <2>1. /\ raced \subseteq raced' /\ s \in Service /\ (t.at = "write" => t.s = s) /\ f.s = None
        /\ FramesOf[c] = {t} \cup rest /\ FramesOf'[c] = {f} \cup rest
        /\ \A d \in Command \ {c} : FramesOf'[d] = FramesOf[d]
    BY <1>1, <1>2, <1>3, <1>4
  <2>2. \A z \in Service \ {s} : /\ pidFile'[z] = pidFile[z] /\ V!Processes(z)' \subseteq V!Processes(z)
                                 /\ pidFile[z] \in Living' => pidFile[z] \in Living
    BY <1>5, <1>7
  <2> HIDE DEF t, rest
  <2>3. \E k, g, r : /\ FramesOf[c] = {k} \cup r /\ FramesOf'[c] = {g} \cup r
                     /\ g.s = s \/ g.s = None
                     /\ k.at = "write" => k.s = s
    BY <2>1
  <2>4. OneChange(c, s)
    BY <1>9, <2>1, <2>2, <2>3 DEF OneChange
  <2> QED
    BY <2>1, <2>4, OneService
<1> QED
  BY <1>4, <1>6, <1>10 DEF ServicesInv

LEMMA UnlinkStep ==
  ASSUME V!ServicesAssumption, ServicesInv, NEW c \in Command, V!Unlink(c)
  PROVE  ServicesInv'
<1>0. PICK s : s = V!Top(c).s
  OBVIOUS
<1> DEFINE t == V!Top(c)
           rest == Below(command[c].stack)
<1>1. /\ V!Lives(c) /\ t.at = "unlink" /\ t.s = s
      /\ UNCHANGED <<proc, daemon, losses, raced, upset>>
      /\ pidFile' = [pidFile EXCEPT ![s] = None] /\ V!Done(c, s)
  BY <1>0 DEF V!Unlink
<1>2. /\ HasType /\ SoundCommands /\ t \in AFrame /\ SoundFrame(t) /\ t.todo # <<>>
      /\ s \in Service
      /\ FramesOf[c] = {t} \cup rest
  BY <1>1, FrontFrame
<1>3. PICK f \in AFrame : SoundFrame(f) /\ f.plan = t.plan /\ f.s = None /\ f.at = "next" /\ V!Go(c, f)
  BY <1>1, <1>2, GoDone
<1>4. /\ command' \in [Command -> ACommand] /\ SoundCommands'
      /\ FramesOf'[c] = {f} \cup rest
      /\ \A d \in Command \ {c} : FramesOf'[d] = FramesOf[d]
  BY <1>1, <1>2, <1>3, GoStep
<1>5. pidFile'[s] = None /\ \A z \in Service \ {s} : pidFile'[z] = pidFile[z]
  BY <1>1, <1>2 DEF HasType
<1>6. HasType'
  BY <1>1, <1>2, <1>4 DEF HasType
<1>7. Living' = Living /\ \A z : V!Processes(z)' = V!Processes(z)
  BY <1>1 DEF Living, V!Processes, V!Alive
<1>8. f.s # s
  BY <1>2, <1>3 DEF V!ServicesAssumption
<1>9. ASSUME s \notin raced'
      PROVE  SoundFor(s, FramesOf', pidFile'[s], V!Processes(s)', Living')
  <2> DEFINE fs == FramesOf
             gs == FramesOf'
             file == pidFile[s]
             ps == V!Processes(s)
             living == Living
             k == t
             r == rest
  <2>1. SoundFor(s, fs, file, ps, living)
    BY <1>1, <1>2, <1>9, SoundNow
  <2>2. ps \subseteq living /\ None \notin living
    BY ProcessesLive
  <2>3. /\ \A d \in Command \ {c} : gs[d] = fs[d]
        /\ fs[c] = {k} \cup r /\ k.at = "unlink" /\ k.s = s /\ gs[c] = {f} \cup r
    BY <1>1, <1>2, <1>4
  <2>4. pidFile'[s] = None /\ V!Processes(s)' = ps
    BY <1>5, <1>7
  <2> HIDE DEF fs, gs, file, ps, living, k, r
  <2>5. UnlinkChange(s, fs, gs, file, ps, living, c, k, f, r)
    BY <1>8, <2>1, <2>2, <2>3 DEF UnlinkChange
  <2>6. SoundFor(s, gs, None, ps, living)
    BY <2>5, UnlinkFor
  <2> QED
    BY <1>7, <2>4, <2>6 DEF gs, living
<1>10. SoundServices'
  <2>1. /\ raced \subseteq raced' /\ s \in Service /\ (t.at = "write" => t.s = s) /\ f.s = None
        /\ FramesOf[c] = {t} \cup rest /\ FramesOf'[c] = {f} \cup rest
        /\ \A d \in Command \ {c} : FramesOf'[d] = FramesOf[d]
    BY <1>1, <1>2, <1>3, <1>4
  <2>2. \A z \in Service \ {s} : /\ pidFile'[z] = pidFile[z] /\ V!Processes(z)' \subseteq V!Processes(z)
                                 /\ pidFile[z] \in Living' => pidFile[z] \in Living
    BY <1>5, <1>7
  <2> HIDE DEF t, rest
  <2>3. \E k, g, r : /\ FramesOf[c] = {k} \cup r /\ FramesOf'[c] = {g} \cup r
                     /\ g.s = s \/ g.s = None
                     /\ k.at = "write" => k.s = s
    BY <2>1
  <2>4. OneChange(c, s)
    BY <1>9, <2>1, <2>2, <2>3 DEF OneChange
  <2> QED
    BY <2>1, <2>4, OneService
<1> QED
  BY <1>4, <1>6, <1>10 DEF ServicesInv

-----------------------------------------------------------------------------
(* The other steps *)

LEMMA SameRaced ==
  ASSUME HasType, UNCHANGED raced
  PROVE  raced \subseteq raced' /\ raced' \in SUBSET Service
BY DEF HasType

LEMMA EnterStep ==
  ASSUME V!ServicesAssumption, ServicesInv, NEW c \in Command, V!Enter(c)
  PROVE  ServicesInv'
<1> DEFINE t == V!Top(c)
           rest == Tail(t.plan)
           on == command[c].on
<1>1. V!Lives(c) /\ Head(t.plan) = "enter" /\ UNCHANGED <<proc, pidFile, losses, raced, upset>>
  BY DEF V!Enter, V!Phase
<1>2. /\ HasType /\ SoundCommands /\ t \in AFrame /\ SoundFrame(t) /\ t.at = "next"
      /\ t.plan # <<"stop">>
      /\ FramesOf[c] = {t} \cup Below(command[c].stack) /\ Below(command[c].stack) = {}
      /\ command[c] \in ACommand /\ command[c].begun /\ on \in Seq(Service)
      /\ t.plan \in Plans
  BY <1>1, FrontFrame, LivingCommand, Phases DEF V!Phase
<1>3. raced \subseteq raced' /\ raced' \in SUBSET Service
  BY <1>1, <1>2, SameRaced
<1>4. /\ pidFile' = pidFile /\ proc' \in [V!Pid -> Process] /\ losses' \in 0..MaxLosses
      /\ upset' \in BOOLEAN
      /\ \A p \in V!Pid : proc'[p] # V!Free => proc[p] # V!Free /\ proc'[p].of = proc[p].of
  BY <1>1, <1>2 DEF HasType
<1>5. \A g \in FramesOf[c] : g.at # "write"
  BY <1>2
<1>6. ASSUME daemon' = c,
             command' = [command EXCEPT ![c].daemon = TRUE,
               ![c].stack = <<[V!Top(c) EXCEPT !.plan = Tail(@), !.todo = command[c].on]>>]
      PROVE  ServicesInv'
  <2> DEFINE e == [t EXCEPT !.plan = rest]
             f == [e EXCEPT !.todo = on]
             k == [command[c] EXCEPT !.daemon = TRUE]
             n == <<f>>
             x == [k EXCEPT !.stack = n]
  <2>1. command' = [command EXCEPT ![c] = x]
    BY <1>2, <1>6 DEF ACommand
  <2>2. rest \in Plans
    BY <1>1, <1>2, PlanSteps
  <2>3. f \in AFrame /\ SoundFrame(f) /\ f.s = None /\ f.at = "next"
    <3> HIDE DEF t, rest
    <3>1. e \in AFrame /\ SoundFrame(e) /\ e.s = None /\ e.at = "next"
      BY <1>2, <2>2, FramePlan
    <3> HIDE DEF e, on
    <3> QED
      BY <1>2, <3>1, FrameTodo
  <2> HIDE DEF f
  <2>4. k \in ACommand /\ k.begun
    BY <1>2 DEF ACommand
  <2>5. n \in Seq(AFrame) /\ SoundStack(n) /\ Frames(n) = {f}
    BY <2>3, OneFrame
  <2> HIDE DEF k, n
  <2>6. x \in ACommand /\ x.begun /\ x.stack = n
    BY <2>4, <2>5, Updates
  <2> HIDE DEF x
  <2>7. /\ command' \in [Command -> ACommand] /\ SoundCommands'
        /\ FramesOf'[c] = {f} /\ \A d \in Command \ {c} : FramesOf'[d] = FramesOf[d]
    BY <1>2, <2>1, <2>5, <2>6, Changed
  <2>8. HasType'
    BY <1>2, <1>3, <1>4, <1>6, <2>7 DEF HasType
  <2>9. FramesOf'[c] = {f} \cup Below(command[c].stack) /\ t.at # "write"
        /\ f.at \notin {"spawn", "write"} /\ f.at # "unlink"
    BY <1>2, <2>3, <2>7
  <2> QED
    BY <1>1, <1>3, <1>4, <2>3, <2>7, <2>8, <2>9, QuietTop DEF t
<1>7. ASSUME UNCHANGED daemon, command' = [command EXCEPT ![c] = V!Ended] PROVE ServicesInv'
  <2>1. daemon' \in Command \cup {None}
    BY <1>2, <1>7 DEF HasType
  <2> QED
    BY <1>1, <1>3, <1>4, <1>5, <1>7, <2>1, EndStep
<1> QED
  BY <1>6, <1>7 DEF V!Enter

LEMMA KillCommandStep ==
  ASSUME V!ServicesAssumption, ServicesInv, NEW c \in Command, V!KillCommand(c)
  PROVE  ServicesInv'
<1>1. /\ V!Lives(c) /\ command' = [command EXCEPT ![c] = V!Ended] /\ upset' = TRUE
      /\ losses < MaxLosses /\ losses' = losses + 1 /\ UNCHANGED <<proc, pidFile, daemon>>
      /\ raced' = raced \cup {s \in Service : V!Works(c, s)}
  BY DEF V!KillCommand
<1>2. HasType /\ SoundCommands
  BY DEF ServicesInv
<1>3. losses' \in 0..MaxLosses
  BY <1>1, <1>2 DEF HasType, V!ServicesAssumption
<1>4. /\ pidFile' = pidFile /\ proc' \in [V!Pid -> Process] /\ upset' \in BOOLEAN
      /\ daemon' \in Command \cup {None}
      /\ \A p \in V!Pid : proc'[p] # V!Free => proc[p] # V!Free /\ proc'[p].of = proc[p].of
      /\ raced \subseteq raced' /\ raced' \in SUBSET Service
  BY <1>1, <1>2 DEF HasType
<1>5. ASSUME NEW g \in FramesOf[c], g.at = "write" PROVE g.s \in raced'
  <2> DEFINE st == command[c].stack
  <2>1. st \in Seq(AFrame) /\ SoundStack(st) /\ FramesOf[c] = Frames(st)
    BY <1>1, <1>2, LivingCommand DEF FramesOf
  <2> HIDE DEF st
  <2>2. SoundFrame(g)
    BY <2>1 DEF SoundStack, Frames
  <2>3. g.s \in Service
    BY <1>5, <2>2 DEF SoundFrame
  <2>4. On(FramesOf[c], g.s)
    BY DEF On
  <2> QED
    BY <1>1, <1>2, <2>3, <2>4, WorksOn
<1> QED
  BY <1>1, <1>3, <1>4, <1>5, EndStep

LEMMA SignalStep ==
  ASSUME V!ServicesAssumption, ServicesInv, NEW c \in Command, V!Signal(c)
  PROVE  ServicesInv'
<1> DEFINE t == V!Top(c)
<1>1. /\ V!Lives(c) /\ Head(t.plan) = "signal"
      /\ UNCHANGED <<proc, pidFile, losses, raced, upset>>
      /\ daemon' = None
      /\ command' = [d \in Command |->
           IF d = c THEN V!Ended
           ELSE IF d = daemon /\ V!Lives(d) THEN [command[d] EXCEPT !.term = TRUE]
           ELSE command[d]]
  BY DEF V!Signal, V!Phase
<1>2. /\ HasType /\ SoundCommands /\ t.at = "next"
      /\ FramesOf[c] = {t} \cup Below(command[c].stack) /\ Below(command[c].stack) = {}
  BY <1>1, FrontFrame DEF V!Phase
<1>3. \A k \in ACommand : LET x == [k EXCEPT !.term = TRUE]
                          IN  x \in ACommand /\ x.stack = k.stack /\ x.begun = k.begun
  BY DEF ACommand
<1>4. \A d \in Command : command[d] \in ACommand
  BY <1>2 DEF HasType
<1>5. \A d \in Command \ {c} : /\ command'[d] \in ACommand
                               /\ command'[d].stack = command[d].stack
                               /\ command'[d].begun = command[d].begun
  BY <1>1, <1>3, <1>4
<1>6. command'[c] = V!Ended
  BY <1>1
<1>7. command' \in [Command -> ACommand]
  <2>1. \A d \in Command : command'[d] \in ACommand
    BY <1>5, <1>6, EndedCommand
  <2> QED
    BY <1>1, <2>1
<1>8. SoundCommands'
  BY <1>2, <1>5, <1>6, EndedCommand, NoFrame DEF SoundCommands, V!Lives
<1>9. FramesOf'[c] = {} /\ \A d \in Command \ {c} : FramesOf'[d] = FramesOf[d]
  BY <1>5, <1>6, EndedCommand, NoFrame DEF FramesOf
<1>10. HasType' /\ raced \subseteq raced'
  BY <1>1, <1>2, <1>7 DEF HasType
<1>11. /\ pidFile' = pidFile
       /\ \A p \in V!Pid : proc'[p] # V!Free => proc[p] # V!Free /\ proc'[p].of = proc[p].of
       /\ FramesOf'[c] \subseteq FramesOf[c]
       /\ \A g \in FramesOf[c] : g.at # "write"
  BY <1>1, <1>2, <1>9
<1> QED
  BY <1>8, <1>9, <1>10, <1>11, QuietLess

LEMMA NewFrame ==
  ASSUME V!ServicesAssumption, NEW plan \in Plans, NEW on \in Seq(Service)
  PROVE  LET f == V!Frame(plan, on)
         IN  f \in AFrame /\ SoundFrame(f) /\ f.plan = plan /\ f.s = None /\ f.at = "next"
<1> DEFINE f == V!Frame(plan, on)
<1>1. f \in AFrame /\ f.plan = plan /\ f.s = None /\ f.at = "next"
  BY DEF AFrame, V!Frame
<1> HIDE DEF f
<1>2. SoundFrame(f)
  BY <1>1 DEF SoundFrame, Starting
<1> QED
  BY <1>1, <1>2 DEF f

LEMMA BeginStep ==
  ASSUME V!ServicesAssumption, ServicesInv, NEW c \in Command, V!Begin(c)
  PROVE  ServicesInv'
<1>1. HasType /\ SoundCommands /\ command[c] \in ACommand /\ ~command[c].begun
  BY DEF ServicesInv, HasType, V!Begin
<1>2. PICK op \in {"start", "stop", "stop_all", "restart"}, ss \in Lists :
        command' = [command EXCEPT ![c].begun = TRUE, ![c].on = ss, ![c].stack = <<V!Frame(V!Plan(op), ss)>>]
  BY DEF V!Begin
<1>3. UNCHANGED <<proc, pidFile, daemon, losses, raced, upset>>
  BY DEF V!Begin
<1>4. V!Plan(op) \in Plans /\ ss \in Seq(Service)
  BY <1>2 DEF Plans, V!ServicesAssumption
<1> DEFINE f == V!Frame(V!Plan(op), ss)
           n == <<f>>
           k == [command[c] EXCEPT !.begun = TRUE]
           m == [k EXCEPT !.on = ss]
           x == [m EXCEPT !.stack = n]
<1>5. command' = [command EXCEPT ![c] = x]
  BY <1>1, <1>2 DEF ACommand
<1>6. f \in AFrame /\ SoundFrame(f) /\ f.s = None /\ f.at = "next"
  BY <1>4, NewFrame
<1> HIDE DEF f
<1>7. n \in Seq(AFrame) /\ SoundStack(n) /\ Frames(n) = {f}
  BY <1>6, OneFrame
<1> HIDE DEF n
<1>8. k \in ACommand /\ k.begun
  BY <1>1 DEF ACommand
<1> HIDE DEF k
<1>9. m \in ACommand /\ m.begun
  BY <1>4, <1>8 DEF ACommand
<1> HIDE DEF m
<1>10. x \in ACommand /\ x.begun /\ x.stack = n
  BY <1>7, <1>9, Updates
<1> HIDE DEF x
<1>11. /\ command' \in [Command -> ACommand] /\ SoundCommands'
       /\ FramesOf'[c] = {f} /\ \A d \in Command \ {c} : FramesOf'[d] = FramesOf[d]
  BY <1>1, <1>5, <1>7, <1>10, Changed
<1>12. HasType' /\ raced \subseteq raced'
  BY <1>1, <1>3, <1>11 DEF HasType
<1>13. FramesOf[c] = {}
  BY <1>1, NoFrame DEF SoundCommands, V!Lives, FramesOf
<1>14. /\ pidFile' = pidFile
       /\ \A p \in V!Pid : proc'[p] # V!Free => proc[p] # V!Free /\ proc'[p].of = proc[p].of
  BY <1>3
<1>15. \A s \in Service \ raced' : \A g \in FramesOf'[c] : g.s # s
  BY <1>6, <1>11 DEF V!ServicesAssumption
<1>16. \A s \in Service \ raced' :
         /\ \A g \in FramesOf'[c] : g \in FramesOf[c] \/
              (g.s = s => /\ g.at \notin {"spawn", "write"}
                          /\ g.at = "unlink" => pidFile[s] \notin Living
                          /\ On(FramesOf[c], s) \/ \A d \in Command \ {c} : ~On(FramesOf[d], s))
         /\ \A g \in FramesOf[c] : g.at = "write" /\ g.s = s => g \in FramesOf'[c]
  BY <1>13, <1>15
<1> QED
  BY <1>11, <1>12, <1>14, <1>16, Quiet

LEMMA HandleStep ==
  ASSUME V!ServicesAssumption, ServicesInv, NEW c \in Command, V!Handle(c)
  PROVE  ServicesInv'
<1> DEFINE st == command[c].stack
           on == command[c].on
           f == V!Frame(<<"stop">>, on)
           n == <<f>> \o st
           k == [command[c] EXCEPT !.term = FALSE]
           m == [k EXCEPT !.leave = TRUE]
           x == [m EXCEPT !.stack = n]
<1>1. V!Lives(c) /\ UNCHANGED <<proc, pidFile, daemon, losses, raced, upset>>
  BY DEF V!Handle
<1>2. /\ HasType /\ SoundCommands /\ command[c] \in ACommand /\ command[c].begun
      /\ on \in Seq(Service)
      /\ st \in Seq(AFrame) /\ SoundStack(st) /\ FramesOf[c] = Frames(st)
  BY <1>1, LivingCommand DEF ServicesInv, FramesOf
<1>3. command' = [command EXCEPT ![c] = x]
  BY <1>2 DEF V!Handle, ACommand
<1>4. <<"stop">> \in Plans
  BY DEF Plans, V!Plan
<1>5. f \in AFrame /\ SoundFrame(f) /\ f.plan = <<"stop">> /\ f.s = None /\ f.at = "next"
  <2> HIDE DEF on
  <2> QED
    BY <1>2, <1>4, NewFrame
<1> HIDE DEF f
<1>6. n \in Seq(AFrame) /\ SoundStack(n) /\ Frames(n) = {f} \cup Frames(st)
  BY <1>2, <1>5, PushedOn
<1> HIDE DEF n
<1>7. k \in ACommand /\ k.begun
  BY <1>2 DEF ACommand
<1> HIDE DEF k
<1>8. m \in ACommand /\ m.begun
  BY <1>7 DEF ACommand
<1> HIDE DEF m
<1>9. x \in ACommand /\ x.begun /\ x.stack = n
  BY <1>6, <1>8, Updates
<1> HIDE DEF x
<1>10. /\ command' \in [Command -> ACommand] /\ SoundCommands'
       /\ FramesOf'[c] = {f} \cup FramesOf[c] /\ \A d \in Command \ {c} : FramesOf'[d] = FramesOf[d]
  BY <1>2, <1>3, <1>6, <1>9, Changed
<1>11. HasType' /\ raced \subseteq raced'
  BY <1>1, <1>2, <1>10 DEF HasType
<1>12. /\ pidFile' = pidFile
       /\ \A p \in V!Pid : proc'[p] # V!Free => proc[p] # V!Free /\ proc'[p].of = proc[p].of
  BY <1>1
<1>13. \A s \in Service \ raced' : f.s # s
  BY <1>5 DEF V!ServicesAssumption
<1>14. \A s \in Service \ raced' :
         /\ \A g \in FramesOf'[c] : g \in FramesOf[c] \/
              (g.s = s => /\ g.at \notin {"spawn", "write"}
                          /\ g.at = "unlink" => pidFile[s] \notin Living
                          /\ On(FramesOf[c], s) \/ \A d \in Command \ {c} : ~On(FramesOf[d], s))
         /\ \A g \in FramesOf[c] : g.at = "write" /\ g.s = s => g \in FramesOf'[c]
  BY <1>10, <1>13
<1> QED
  BY <1>10, <1>11, <1>12, <1>14, Quiet

(* The operating system changes no frame. *)
LEMMA SystemStep ==
  ASSUME V!ServicesAssumption, ServicesInv, UNCHANGED <<pidFile, daemon, command, raced, upset>>,
         losses' \in 0..MaxLosses, proc' \in [V!Pid -> Process],
         \A p \in V!Pid : proc'[p] # V!Free => proc[p] # V!Free /\ proc'[p].of = proc[p].of
  PROVE  ServicesInv'
<1>1. HasType'
  BY DEF ServicesInv, HasType
<1>2. SoundCommands' /\ FramesOf' = FramesOf
  BY DEF ServicesInv, SoundCommands, V!Lives, FramesOf
<1>3. raced \subseteq raced' /\ pidFile' = pidFile
  OBVIOUS
<1> QED
  BY <1>1, <1>2, <1>3, Quiet

LEMMA ExitStep ==
  ASSUME V!ServicesAssumption, ServicesInv, NEW p \in V!Pid, V!Exit(p)
  PROVE  ServicesInv'
<1>1. proc \in [V!Pid -> Process] /\ losses' \in 0..MaxLosses
  BY DEF ServicesInv, HasType, V!Exit
<1>2. V!Free \in Process
  BY DEF V!Free, Process
<1>3. proc' = [proc EXCEPT ![p] = V!Free]
  BY DEF V!Exit
<1>4. proc' \in [V!Pid -> Process] /\ \A q \in V!Pid : proc'[q] # V!Free => proc[q] # V!Free /\ proc'[q].of = proc[q].of
  BY <1>1, <1>2, <1>3
<1> QED
  BY <1>1, <1>4, SystemStep DEF V!Exit

LEMMA CrashStep ==
  ASSUME V!ServicesAssumption, ServicesInv, NEW p \in V!Pid, V!Crash(p)
  PROVE  ServicesInv'
<1>1. proc \in [V!Pid -> Process] /\ proc[p] \in Process
  BY DEF ServicesInv, HasType
<1>2. losses' \in 0..MaxLosses
  BY DEF ServicesInv, HasType, V!Crash, V!ServicesAssumption
<1> DEFINE r == [proc[p] EXCEPT !.state = "dying"]
<1>3. proc' = [proc EXCEPT ![p] = r] /\ proc[p].state = "up"
  BY DEF V!Crash
<1>4. r \in Process /\ r.of = proc[p].of /\ proc[p] # V!Free
  BY <1>1, <1>3 DEF Process, V!Free
<1> HIDE DEF r
<1>5. proc' \in [V!Pid -> Process] /\ \A q \in V!Pid : proc'[q] # V!Free => proc[q] # V!Free /\ proc'[q].of = proc[q].of
  BY <1>1, <1>3, <1>4
<1> QED
  BY <1>2, <1>5, SystemStep DEF V!Crash

-----------------------------------------------------------------------------
(* The invariant holds *)

LEMMA InvInit == ASSUME V!ServicesAssumption PROVE V!Init => ServicesInv
<1> SUFFICES ASSUME V!Init PROVE ServicesInv
  OBVIOUS
<1>1. V!Free \in Process /\ V!New \in ACommand /\ V!New.stack = <<>> /\ 0 \in 0..MaxLosses
  BY EndedCommand DEF V!Free, Process, V!ServicesAssumption
<1>2. \A c \in Command : command[c] = V!New
  BY DEF V!Init
<1>3. command \in [Command -> ACommand] /\ proc \in [V!Pid -> Process]
  BY <1>1 DEF V!Init
<1>4. HasType
  BY <1>1, <1>3 DEF V!Init, HasType
<1>5. SoundCommands /\ \A c \in Command : FramesOf[c] = {}
  BY <1>1, <1>2, NoFrame DEF SoundCommands, V!Lives, FramesOf
<1>6. \A s \in Service : V!Processes(s) = {}
  BY DEF V!Init, V!Processes, V!Alive
<1>7. SoundServices
  BY <1>5, <1>6 DEF SoundServices, SoundFor, On
<1> QED
  BY <1>4, <1>5, <1>7 DEF ServicesInv

LEMMA InvStep == ASSUME V!ServicesAssumption PROVE ServicesInv /\ [V!Next]_(V!vars) => ServicesInv'
<1> SUFFICES ASSUME ServicesInv, [V!Next]_(V!vars) PROVE ServicesInv'
  OBVIOUS
<1>1. ASSUME NEW c \in Command, V!Begin(c) PROVE ServicesInv'
  BY <1>1, BeginStep
<1>2. ASSUME NEW c \in Command, V!KillCommand(c) PROVE ServicesInv'
  BY <1>2, KillCommandStep
<1>3. ASSUME NEW c \in Command, V!Step(c) PROVE ServicesInv'
  <2>1. CASE V!Handle(c)
    BY <2>1, HandleStep
  <2>2. CASE V!Turn(c)
    BY <2>2, TurnStep
  <2>3. CASE V!Prepare(c)
    BY <2>3, PrepareStep
  <2>4. CASE V!Spawn(c)
    BY <2>4, SpawnStep
  <2>5. CASE V!WritePid(c)
    BY <2>5, WritePidStep
  <2>6. CASE V!Enter(c)
    BY <2>6, EnterStep
  <2>7. CASE V!Kill(c)
    BY <2>7, KillStep
  <2>8. CASE V!Wait(c)
    BY <2>8, WaitStep
  <2>9. CASE V!Unlink(c)
    BY <2>9, UnlinkStep
  <2>10. CASE V!Signal(c)
    BY <2>10, SignalStep
  <2>11. ASSUME NEW s \in Service, V!StartService(c, s) PROVE ServicesInv'
    BY <2>11, StartServiceStep
  <2>12. ASSUME NEW s \in Service, V!Watch(c, s) PROVE ServicesInv'
    BY <2>12, WatchStep
  <2>13. ASSUME NEW s \in Service, V!StopService(c, s) PROVE ServicesInv'
    BY <2>13, StopServiceStep
  <2> QED
    BY <1>3, <2>1, <2>2, <2>3, <2>4, <2>5, <2>6, <2>7, <2>8, <2>9, <2>10, <2>11, <2>12, <2>13 DEF V!Step
<1>4. ASSUME NEW p \in V!Pid, V!Exit(p) PROVE ServicesInv'
  BY <1>4, ExitStep
<1>5. ASSUME NEW p \in V!Pid, V!Crash(p) PROVE ServicesInv'
  BY <1>5, CrashStep
<1>6. CASE UNCHANGED V!vars
  <2>1. proc' \in [V!Pid -> Process] /\ losses' \in 0..MaxLosses
        /\ \A p \in V!Pid : proc'[p] # V!Free => proc[p] # V!Free /\ proc'[p].of = proc[p].of
    BY <1>6 DEF V!vars, ServicesInv, HasType
  <2> QED
    BY <1>6, <2>1, SystemStep DEF V!vars
<1> QED
  BY <1>1, <1>2, <1>3, <1>4, <1>5, <1>6 DEF V!Next

(* A command writes one pid at a time. *)
LEMMA OneWriter ==
  ASSUME NEW st \in Seq(AFrame), SoundStack(st), NEW f \in Frames(st), NEW g \in Frames(st),
         f.at = "write", g.at = "write"
  PROVE  f = g
<1>1. PICK i \in 1..Len(st) : f = st[i]
  BY DEF Frames
<1>2. PICK j \in 1..Len(st) : g = st[j]
  BY DEF Frames
<1>3. SoundFrame(f) /\ SoundFrame(g) /\ f \in AFrame /\ g \in AFrame
  BY <1>1, <1>2 DEF SoundStack
<1>4. f.plan # <<"stop">> /\ g.plan # <<"stop">>
  BY <1>3, Phases
<1>5. ~(i < Len(st)) /\ ~(j < Len(st))
  BY <1>1, <1>2, <1>4 DEF SoundStack
<1>6. i = j
  <2> DEFINE L == Len(st)
  <2>1. L \in Nat /\ i \in 1..L /\ j \in 1..L /\ ~(i < L) /\ ~(j < L)
    BY <1>5, LenProperties
  <2> HIDE DEF L
  <2> QED
    BY <2>1
<1> QED
  BY <1>1, <1>2, <1>6

LEMMA CardinalityIs == \A S : V!Cardinality(S) = Cardinality(S)
BY DEF V!Cardinality, Cardinality

LEMMA InvOneProcess == ASSUME V!ServicesAssumption PROVE ServicesInv => V!OneProcessPerService
<1> SUFFICES ASSUME ServicesInv, NEW s \in Service \ raced
             PROVE  Cardinality(V!Processes(s)) <= 1
  BY CardinalityIs DEF V!OneProcessPerService
<1>1. SoundFor(s, FramesOf, pidFile[s], V!Processes(s), Living)
  BY SoundNow
<1>2. None \notin V!Processes(s)
  BY ProcessesLive
<1>3. ASSUME NEW c \in Command, NEW d \in Command, NEW f \in FramesOf[c], NEW g \in FramesOf[d],
             f.at = "write", g.at = "write", f.s = s, g.s = s
      PROVE  f = g
  <2>1. c = d
    BY <1>1, <1>3 DEF SoundFor, On
  <2> DEFINE st == command[c].stack
  <2>2. st \in Seq(AFrame) /\ SoundStack(st) /\ FramesOf[c] = Frames(st)
    BY DEF ServicesInv, HasType, ACommand, SoundCommands, FramesOf
  <2> HIDE DEF st
  <2> QED
    BY <1>3, <2>1, <2>2, OneWriter
<1>4. ASSUME NEW p \in V!Processes(s), NEW q \in V!Processes(s) PROVE p = q
  <2>1. CASE p = pidFile[s] /\ q = pidFile[s]
    BY <2>1
  <2>2. ASSUME NEW x \in V!Processes(s), x # pidFile[s], NEW y \in V!Processes(s) PROVE x = y
    <3>1. PICK c \in Command : \E f \in FramesOf[c] : f.at = "write" /\ f.s = s /\ f.p = x
      BY <1>1, <2>2 DEF SoundFor
    <3>2. PICK f \in FramesOf[c] : f.at = "write" /\ f.s = s /\ f.p = x
      BY <3>1
    <3>3. pidFile[s] = None
      BY <1>1, <3>2 DEF SoundFor
    <3>4. PICK d \in Command : \E g \in FramesOf[d] : g.at = "write" /\ g.s = s /\ g.p = y
      BY <1>1, <1>2, <2>2, <3>3 DEF SoundFor
    <3>5. PICK g \in FramesOf[d] : g.at = "write" /\ g.s = s /\ g.p = y
      BY <3>4
    <3>6. f = g
      BY <1>3, <3>2, <3>5
    <3> QED
      BY <3>2, <3>5, <3>6
  <2> QED
    BY <2>1, <2>2
<1>5. CASE V!Processes(s) = {}
  BY <1>5, FS_EmptySet
<1>6. ASSUME NEW p \in V!Processes(s) PROVE Cardinality(V!Processes(s)) <= 1
  <2>1. V!Processes(s) = {p}
    BY <1>4, <1>6
  <2>2. Cardinality({p}) = 1
    BY FS_Singleton
  <2> QED
    BY <2>1, <2>2
<1> QED
  BY <1>5, <1>6

(* The invariant, from the first command on (BaseService, ServicesUtil and  *)
(* the handler of the daemon): its types, what a frame can be at, and that  *)
(* unless a service raced one command works on it, its processes are in the *)
(* pid file or about to be, there is none when one is started, and the pid  *)
(* file is removed only when it names no process.                           *)
THEOREM ServicesInvariance == ASSUME V!ServicesAssumption PROVE V!Spec => []ServicesInv
<1>1. V!Init => ServicesInv
  BY InvInit
<1>2. ServicesInv /\ [V!Next]_(V!vars) => ServicesInv'
  BY InvStep
<1> QED
  BY <1>1, <1>2, PTL DEF V!Spec

(* A service has one process, unless two commands worked on it at once, a   *)
(* command was killed at that, or the daemon's signal handler died of an    *)
(* exception on top of it (BaseService.start and stop), for any commands    *)
(* that interleave and however the operating system and faults strike.      *)
THEOREM OneProcessEach == ASSUME V!ServicesAssumption PROVE V!Spec => []V!OneProcessPerService
<1>1. ServicesInv => V!OneProcessPerService
  BY InvOneProcess
<1> QED
  BY <1>1, ServicesInvariance, PTL

===============================================================================
