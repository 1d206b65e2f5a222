--------------------------- MODULE SequenceLemmas ---------------------------
(***************************************************************************)
(* Facts about the operators on numbers and sequences that the models use. *)
(***************************************************************************)
EXTENDS SequencesExt, Integers, SequenceTheorems, FiniteSetTheorems,
        WellFoundedInduction, TLAPS

\* The quotient and the remainder of a number below the divisor.
LEMMA DivSmall ==
  ASSUME NEW n \in Nat \ {0}, NEW x \in 0 .. n - 1
  PROVE  x % n = x /\ x \div n = 0
  BY SMT

\* Every non-empty set of natural numbers has a least element.
LEMMA LeastNat ==
  ASSUME NEW T \in SUBSET Nat, T # {}
  PROVE  \E x \in T : \A y \in T : x <= y
<1> DEFINE R == OpToRel(<, Nat)
<1>1. \E x \in T : \A y \in T : ~(<<y, x>> \in R)
  <2>1. IsWellFoundedOn(R, Nat)
    BY NatLessThanWellFounded
  <2> HIDE DEF R
  <2> QED
    BY <2>1, WFMin
<1>2. \A x, y \in Nat : x < y => <<x, y>> \in R
  BY DEF OpToRel
<1> HIDE DEF R
<1>3. PICK x \in T : \A y \in T : ~(<<y, x>> \in R)
  BY <1>1
<1>4. \A y \in T : ~(y < x)
  BY <1>2, <1>3
<1> QED
  BY <1>4

\* The least element that Min chooses.
LEMMA MinIsLeast ==
  ASSUME NEW T \in SUBSET Nat, T # {}
  PROVE  Min(T) \in T /\ \A y \in T : Min(T) <= y
  BY LeastNat DEF Min

\* A function on 1 .. k is a sequence of length k.
LEMMA FunctionIsSeq ==
  ASSUME NEW S, NEW k \in Nat, NEW f \in [1 .. k -> S]
  PROVE  f \in Seq(S) /\ Len(f) = k
  OBVIOUS

\* Sequences of up to two elements.
LEMMA ShortSeqs ==
  ASSUME NEW x, NEW y
  PROVE  /\ Append(<<>>, x) = <<x>> /\ Append(<<x>>, y) = <<x, y>>
         /\ Head(<<x>>) = x /\ Head(<<x, y>>) = x
         /\ Tail(<<x>>) = <<>> /\ Tail(<<x, y>>) = <<y>>
         /\ <<x>> # <<>> /\ <<x, y>> # <<>>
<1>1. Append(<<>>, x) = <<x>>
  OBVIOUS
<1>2. Append(<<x>>, y) = <<x, y>>
  <2> DEFINE S == {x, y}
             s == <<x>>
  <2>0. s \in Seq(S) /\ y \in S /\ Len(s) = 1 /\ s[1] = x
    OBVIOUS
  <2> HIDE DEF S, s
  <2>1. /\ Append(s, y) \in Seq(S) /\ Len(Append(s, y)) = 2
        /\ Append(s, y)[1] = x /\ Append(s, y)[2] = y
    <3>1. /\ Append(s, y) \in Seq(S) /\ Len(Append(s, y)) = Len(s) + 1
          /\ \A i \in 1 .. Len(s) : Append(s, y)[i] = s[i]
          /\ Append(s, y)[Len(s) + 1] = y
      <4>1. s \in Seq(S) /\ y \in S
        BY <2>0
      <4> QED
        BY <4>1, AppendProperties
    <3> QED
      BY <2>0, <3>1
  <2>2. <<x, y>> \in Seq(S) /\ Len(<<x, y>>) = 2 /\ <<x, y>>[1] = x /\ <<x, y>>[2] = y
    BY DEF S
  <2> DEFINE t == Append(s, y)
             u == <<x, y>>
  <2>3. \A i \in 1 .. 2 : t[i] = u[i]
    BY <2>1, <2>2
  <2> HIDE DEF t, u
  <2>4. t = u
    BY <2>1, <2>2, <2>3, SeqEqual DEF t, u
  <2> QED
    BY <2>4 DEF s, t, u
<1>3. Tail(<<x>>) = <<>>
  OBVIOUS
<1>4. Tail(<<x, y>>) = <<y>>
  OBVIOUS
<1>5. Head(<<x>>) = x /\ Head(<<x, y>>) = x /\ <<x>> # <<>> /\ <<x, y>> # <<>>
  OBVIOUS
<1> QED
  BY <1>1, <1>2, <1>3, <1>4, <1>5

\* Taking out one element of a sequence.
LEMMA RemoveAtFacts ==
  ASSUME NEW S, NEW s \in Seq(S), NEW i \in 1 .. Len(s)
  PROVE  /\ RemoveAt(s, i) \in Seq(S) /\ Len(RemoveAt(s, i)) = Len(s) - 1
         /\ \A k \in 1 .. Len(s) - 1 : RemoveAt(s, i)[k] = s[IF k < i THEN k ELSE k + 1]
<1> DEFINE a == SubSeq(s, 1, i - 1)
           b == SubSeq(s, i + 1, Len(s))
<1>0. Len(s) \in Nat /\ i \in Nat /\ 1 <= i /\ i <= Len(s) /\ \A k \in 1 .. Len(s) : s[k] \in S
  BY LenProperties, ElementOfSeq
<1>1. /\ a \in Seq(S) /\ Len(a) = i - 1
      /\ \A k \in 1 .. i - 1 : a[k] = s[k]
  <2>1. \A k \in 1 .. i - 1 : s[k] \in S
    BY <1>0
  <2>2. /\ a \in Seq(S) /\ Len(a) = IF 1 <= i - 1 THEN (i - 1) - 1 + 1 ELSE 0
        /\ \A k \in 1 .. (i - 1) - 1 + 1 : a[k] = s[1 + k - 1]
    BY <1>0, <2>1, SubSeqProperties
  <2> HIDE DEF a
  <2> QED
    BY <1>0, <2>2
<1>2. /\ b \in Seq(S) /\ Len(b) = Len(s) - i
      /\ \A k \in 1 .. Len(s) - i : b[k] = s[i + k]
  <2>1. \A k \in i + 1 .. Len(s) : s[k] \in S
    BY <1>0
  <2>2. /\ b \in Seq(S) /\ Len(b) = IF i + 1 <= Len(s) THEN Len(s) - (i + 1) + 1 ELSE 0
        /\ \A k \in 1 .. Len(s) - (i + 1) + 1 : b[k] = s[i + 1 + k - 1]
    BY <1>0, <2>1, SubSeqProperties
  <2> HIDE DEF b
  <2> QED
    BY <1>0, <2>2
<1>3. RemoveAt(s, i) = a \o b
  BY DEF RemoveAt
<1> HIDE DEF a, b
<1>4. /\ a \o b \in Seq(S) /\ Len(a \o b) = Len(a) + Len(b)
      /\ \A k \in 1 .. Len(a) + Len(b) : (a \o b)[k] = IF k <= Len(a) THEN a[k] ELSE b[k - Len(a)]
  <2>1. a \in Seq(S) /\ b \in Seq(S)
    BY <1>1, <1>2
  <2> QED
    BY <2>1, ConcatProperties
<1>5. ASSUME NEW k \in 1 .. Len(s) - 1
      PROVE  (a \o b)[k] = s[IF k < i THEN k ELSE k + 1]
  <2>1. CASE k < i
    BY <1>0, <1>1, <1>2, <1>4, <2>1
  <2>2. CASE ~(k < i)
    <3>1. k - (i - 1) \in 1 .. Len(s) - i /\ i + (k - (i - 1)) = k + 1
      BY <1>0, <2>2
    <3>2. (a \o b)[k] = b[k - (i - 1)]
      BY <1>0, <1>1, <1>2, <1>4, <2>2
    <3>3. b[k - (i - 1)] = s[i + (k - (i - 1))]
      BY <1>2, <3>1
    <3> QED
      BY <2>2, <3>1, <3>2, <3>3
  <2> QED
    BY <2>1, <2>2
<1> QED
  BY <1>0, <1>1, <1>2, <1>3, <1>4, <1>5

\* The elements of a sequence are all different.
Distinct(s) == \A i, j \in 1 .. Len(s) : s[i] = s[j] => i = j

\* Taking an element out of a list that has it once.
LEMMA RemoveFirstFacts ==
  ASSUME NEW S, NEW s \in Seq(S), Distinct(s), NEW e \in ToSet(s)
  PROVE  /\ RemoveFirst(s, e) \in Seq(S) /\ Distinct(RemoveFirst(s, e))
         /\ ToSet(RemoveFirst(s, e)) = ToSet(s) \ {e}
<1> DEFINE I == {i \in 1 .. Len(s) : s[i] = e}
           t == RemoveFirst(s, e)
<1>0. Len(s) \in Nat /\ DOMAIN s = 1 .. Len(s)
  BY LenProperties
<1>1. \E i \in 1 .. Len(s) : s[i] = e
  BY <1>0 DEF ToSet
<1>2. PICK i \in 1 .. Len(s) : s[i] = e /\ t = RemoveAt(s, i)
  <2>1. t = RemoveAt(s, Min(I))
    BY <1>1 DEF RemoveFirst, SelectInSeq
  <2>2. I \in SUBSET Nat /\ I # {}
    BY <1>0, <1>1
  <2>3. Min(I) \in I
    BY <2>2, MinIsLeast
  <2> QED
    BY <2>1, <2>3
<1> HIDE DEF t
<1>3. /\ t \in Seq(S) /\ Len(t) = Len(s) - 1
      /\ \A k \in 1 .. Len(s) - 1 : t[k] = s[IF k < i THEN k ELSE k + 1]
  BY <1>2, RemoveAtFacts
<1>4. Distinct(t)
  <2> SUFFICES ASSUME NEW j \in 1 .. Len(s) - 1, NEW k \in 1 .. Len(s) - 1, t[j] = t[k]
               PROVE  j = k
    BY <1>3 DEF Distinct
  <2> DEFINE At(m) == IF m < i THEN m ELSE m + 1
  <2>1. At(j) \in 1 .. Len(s) /\ At(k) \in 1 .. Len(s)
    BY <1>0
  <2>2. s[At(j)] = s[At(k)]
    BY <1>3
  <2>3. At(j) = At(k)
    BY <2>1, <2>2 DEF Distinct
  <2> QED
    BY <1>0, <2>3
<1>5. DOMAIN t = 1 .. Len(s) - 1
  BY <1>3, LenProperties
<1>6. \A x \in ToSet(t) : x \in ToSet(s) /\ x # e
  <2> SUFFICES ASSUME NEW k \in 1 .. Len(s) - 1 PROVE t[k] \in ToSet(s) /\ t[k] # e
    BY <1>5 DEF ToSet
  <2>1. t[k] = s[IF k < i THEN k ELSE k + 1]
    BY <1>3
  <2>2. (IF k < i THEN k ELSE k + 1) \in 1 .. Len(s) /\ (IF k < i THEN k ELSE k + 1) # i
    BY <1>0
  <2> QED
    BY <1>0, <1>2, <2>1, <2>2 DEF Distinct, ToSet
<1>7. \A x \in ToSet(s) : x # e => x \in ToSet(t)
  <2> SUFFICES ASSUME NEW k \in 1 .. Len(s), s[k] # e PROVE s[k] \in ToSet(t)
    BY <1>0 DEF ToSet
  <2>1. CASE k < i
    <3>1. k \in 1 .. Len(s) - 1 /\ t[k] = s[k]
      BY <1>0, <1>3, <2>1
    <3> QED
      BY <1>5, <3>1 DEF ToSet
  <2>2. CASE k > i
    <3>1. k - 1 \in 1 .. Len(s) - 1 /\ t[k - 1] = s[k]
      BY <1>0, <1>3, <2>2
    <3> QED
      BY <1>5, <3>1 DEF ToSet
  <2> QED
    BY <1>0, <1>2, <2>1, <2>2
<1> QED
  BY <1>3, <1>4, <1>6, <1>7 DEF t

\* Adding a new element at the end of a list.
LEMMA AppendFacts ==
  ASSUME NEW S, NEW s \in Seq(S), Distinct(s), NEW e \in S, e \notin ToSet(s)
  PROVE  /\ Append(s, e) \in Seq(S) /\ Distinct(Append(s, e))
         /\ ToSet(Append(s, e)) = ToSet(s) \cup {e}
<1> DEFINE t == Append(s, e)
<1>0. Len(s) \in Nat /\ DOMAIN s = 1 .. Len(s)
  BY LenProperties
<1>1. /\ t \in Seq(S) /\ Len(t) = Len(s) + 1
      /\ \A i \in 1 .. Len(s) : t[i] = s[i]
      /\ t[Len(s) + 1] = e
  BY AppendProperties
<1> HIDE DEF t
<1>2. DOMAIN t = 1 .. Len(s) + 1
  BY <1>1, LenProperties
<1>3. \A i \in 1 .. Len(s) : s[i] # e
  BY <1>0 DEF ToSet
<1>4. Distinct(t)
  BY <1>0, <1>1, <1>3 DEF Distinct
<1>5. ToSet(t) = ToSet(s) \cup {e}
  BY <1>0, <1>1, <1>2 DEF ToSet
<1> QED
  BY <1>1, <1>4, <1>5 DEF t

\* Taking the first element off a list.
LEMMA TailFacts ==
  ASSUME NEW S, NEW s \in Seq(S), Distinct(s), s # <<>>
  PROVE  /\ Head(s) \in S /\ Head(s) \in ToSet(s)
         /\ Tail(s) \in Seq(S) /\ Distinct(Tail(s))
         /\ ToSet(Tail(s)) = ToSet(s) \ {Head(s)}
<1> DEFINE t == Tail(s)
<1>0. /\ Len(s) \in Nat \ {0} /\ DOMAIN s = 1 .. Len(s)
      /\ \A i \in 1 .. Len(s) : s[i] \in S
  BY LenProperties, ElementOfSeq, EmptySeq
<1>1. Head(s) = s[1]
  BY HeadTailProperties
<1>2. /\ t \in Seq(S) /\ Len(t) = Len(s) - 1
      /\ \A i \in 1 .. Len(s) - 1 : t[i] = s[i + 1]
  BY HeadTailProperties
<1> HIDE DEF t
<1>3. DOMAIN t = 1 .. Len(s) - 1
  BY <1>2, LenProperties
<1>4. Distinct(t)
  <2> SUFFICES ASSUME NEW i \in 1 .. Len(s) - 1, NEW j \in 1 .. Len(s) - 1, t[i] = t[j]
               PROVE  i = j
    BY <1>2 DEF Distinct
  <2>1. i + 1 \in 1 .. Len(s) /\ j + 1 \in 1 .. Len(s) /\ s[i + 1] = s[j + 1]
    BY <1>0, <1>2
  <2>2. i + 1 = j + 1
    BY <2>1 DEF Distinct
  <2> QED
    BY <2>2
<1>5. ASSUME NEW x \in ToSet(t)
      PROVE  x \in ToSet(s) /\ x # s[1]
  <2>1. PICK i \in 1 .. Len(s) - 1 : x = t[i]
    BY <1>3 DEF ToSet
  <2>2. i + 1 \in 1 .. Len(s) /\ x = s[i + 1] /\ 1 \in 1 .. Len(s) /\ i + 1 # 1
    BY <1>0, <1>2, <2>1
  <2> QED
    BY <1>0, <2>2 DEF ToSet, Distinct
<1>6. ASSUME NEW x \in ToSet(s), x # s[1]
      PROVE  x \in ToSet(t)
  <2>1. PICK i \in 1 .. Len(s) : x = s[i]
    BY <1>0 DEF ToSet
  <2>2. i - 1 \in 1 .. Len(s) - 1 /\ (i - 1) + 1 = i
    BY <1>0, <1>6, <2>1
  <2>3. t[i - 1] = x
    BY <1>2, <2>1, <2>2
  <2> QED
    BY <1>3, <2>2, <2>3 DEF ToSet
<1>7. s[1] \in S /\ s[1] \in ToSet(s)
  BY <1>0 DEF ToSet
<1>8. ToSet(t) = ToSet(s) \ {s[1]}
  BY <1>5, <1>6
<1> QED
  BY <1>1, <1>2, <1>4, <1>7, <1>8 DEF t

\* A function on 1 .. k whose values are all different has k of them.
LEMMA DistinctValues ==
  ASSUME NEW k \in Nat, NEW V, NEW f \in [1 .. k -> V],
         \A i, j \in 1 .. k : f[i] = f[j] => i = j,
         \A v \in V : \E i \in 1 .. k : f[i] = v
  PROVE  IsFiniteSet(V) /\ Cardinality(V) = k
<1>1. f \in Bijection(1 .. k, V)
  BY DEF Bijection, Injection, Surjection, IsInjective
<1>2. ExistsBijection(1 .. k, V)
  BY <1>1 DEF ExistsBijection
<1>3. IsFiniteSet(1 .. k) /\ Cardinality(1 .. k) = k
  <2>1. IsFiniteSet(1 .. k) /\ Cardinality(1 .. k) = IF 1 > k THEN 0 ELSE k - 1 + 1
    BY FS_Interval
  <2> QED
    BY <2>1
<1> QED
  BY <1>2, <1>3, FS_Bijection

\* A list without repetitions has as many elements as its length says.
LEMMA DistinctCard ==
  ASSUME NEW S, NEW s \in Seq(S), Distinct(s)
  PROVE  IsFiniteSet(ToSet(s)) /\ Cardinality(ToSet(s)) = Len(s) /\ Len(s) \in Nat
<1>1. Len(s) \in Nat /\ s \in [1 .. Len(s) -> S] /\ DOMAIN s = 1 .. Len(s)
  BY LenProperties
<1>2. /\ s \in [1 .. Len(s) -> ToSet(s)]
      /\ \A v \in ToSet(s) : \E i \in 1 .. Len(s) : s[i] = v
  BY <1>1 DEF ToSet
<1>3. \A i, j \in 1 .. Len(s) : s[i] = s[j] => i = j
  BY DEF Distinct
<1> QED
  BY <1>1, <1>2, <1>3, DistinctValues

\* Two disjoint finite sets.
LEMMA DisjointCard ==
  ASSUME NEW S, NEW T, IsFiniteSet(S), IsFiniteSet(T), S \cap T = {}
  PROVE  /\ IsFiniteSet(S \cup T)
         /\ Cardinality(S \cup T) = Cardinality(S) + Cardinality(T)
         /\ Cardinality(S) \in Nat /\ Cardinality(T) \in Nat
<1>1. /\ IsFiniteSet(S \cup T)
      /\ Cardinality(S \cup T) = Cardinality(S) + Cardinality(T) - Cardinality(S \cap T)
  BY FS_Union
<1>2. Cardinality(S \cap T) = 0
  BY FS_EmptySet
<1>3. Cardinality(S) \in Nat /\ Cardinality(T) \in Nat
  BY FS_CardinalityType
<1> QED
  BY <1>1, <1>2, <1>3

\* Division with remainder.
LEMMA DivMod ==
  ASSUME NEW n \in Nat \ {0}, NEW x \in Nat
  PROVE  x % n \in 0 .. n - 1 /\ \E q \in Int : x = n * q + (x % n)
<1>1. x % n \in 0 .. n - 1
  BY SMT
<1>2. x \div n \in Int
  BY SMT
<1>3. x = n * (x \div n) + (x % n)
  BY SMT
<1> QED
  BY <1>1, <1>2, <1>3, Zenon

\* The remainder is determined.
LEMMA RemainderUnique ==
  ASSUME NEW n \in Nat \ {0}, NEW a \in Int, NEW b \in Int,
         NEW r \in 0 .. n - 1, NEW s \in 0 .. n - 1, n * a + r = n * b + s
  PROVE  r = s
  BY SMT

\* Multiplication distributes.
LEMMA Distribute ==
  ASSUME NEW n \in Int, NEW a \in Int, NEW b \in Int
  PROVE  /\ n * (a + b) = n * a + n * b /\ n * (a - b) = n * a - n * b
         /\ n * a \in Int /\ n * b \in Int
  BY SMT

\* Adding a multiple of the divisor leaves the remainder.
LEMMA ModWrap ==
  ASSUME NEW n \in Nat \ {0}, NEW w \in Nat, w % n = 0, NEW x \in Nat
  PROVE  (x + w) % n = x % n
<1>0. x + w \in Nat
  OBVIOUS
<1>1. PICK a \in Int : x = n * a + (x % n)
  BY DivMod
<1>2. PICK b \in Int : w = n * b + (w % n)
  BY DivMod
<1>3. PICK c \in Int : x + w = n * c + ((x + w) % n)
  BY <1>0, DivMod
<1>4. x % n \in 0 .. n - 1 /\ (x + w) % n \in 0 .. n - 1
  BY <1>0, DivMod
<1> DEFINE r == x % n
           s == (x + w) % n
<1> HIDE DEF r, s
<1>5. n * (a + b) + r = n * c + s
  <2>1. n * (a + b) = n * a + n * b /\ n * a \in Int /\ n * b \in Int /\ n * c \in Int
    BY Distribute
  <2>2. x = n * a + r /\ w = n * b + 0 /\ x + w = n * c + s /\ r \in Int /\ s \in Int
    BY <1>1, <1>2, <1>3, <1>4 DEF r, s
  <2> QED
    BY <2>1, <2>2
<1>6. r = s
  <2>1. r \in 0 .. n - 1 /\ s \in 0 .. n - 1
    BY <1>4 DEF r, s
  <2>2. a + b \in Int
    OBVIOUS
  <2> QED
    BY <1>5, <2>1, <2>2, RemainderUnique
<1> QED
  BY <1>6 DEF r, s

\* Two numbers less than the divisor apart have different remainders.
LEMMA ModDistinct ==
  ASSUME NEW n \in Nat \ {0}, NEW j \in 1 .. n - 1, NEW x \in Nat
  PROVE  (x + j) % n # x % n
<1> SUFFICES ASSUME (x + j) % n = x % n PROVE FALSE
  OBVIOUS
<1>0. x + j \in Nat
  OBVIOUS
<1>1. PICK a \in Int : x = n * a + (x % n)
  BY DivMod
<1>3. PICK c \in Int : x + j = n * c + ((x + j) % n)
  BY <1>0, DivMod
<1>4. x % n \in 0 .. n - 1
  BY DivMod
<1> DEFINE r == x % n
<1> HIDE DEF r
<1>5. j = n * (c - a)
  <2>1. n * (c - a) = n * c - n * a /\ n * a \in Int /\ n * c \in Int
    BY Distribute
  <2>2. x = n * a + r /\ x + j = n * c + r /\ r \in Int
    BY <1>1, <1>3, <1>4 DEF r
  <2> QED
    BY <2>1, <2>2
<1>6. PICK d \in Int : d = c - a
  OBVIOUS
<1>7. d <= 0 \/ d >= 1
  OBVIOUS
<1> QED
  BY <1>5, <1>6, <1>7

\* Induction along an interval.
LEMMA Along ==
  ASSUME NEW n \in Nat, NEW T \in SUBSET (0 .. n), 0 \in T,
         \A i \in 1 .. n : i - 1 \in T => i \in T
  PROVE  T = 0 .. n
<1> DEFINE U == (0 .. n) \ T
<1> SUFFICES ASSUME U # {} PROVE FALSE
  OBVIOUS
<1>1. U \in SUBSET Nat
  OBVIOUS
<1>2. PICK m \in U : \A y \in U : m <= y
  BY <1>1, LeastNat
<1>3. m \in 1 .. n /\ m - 1 \in 0 .. n
  BY <1>2
<1>4. m - 1 \in T
  BY <1>2, <1>3
<1> QED
  BY <1>2, <1>3, <1>4

\* The function that begins with x0 and goes on by F.
StepByStep(g, n, x0, F) ==
  /\ g[0] = x0
  /\ \A i \in 1 .. n : g[i] = F[<<i, g[i - 1]>>]

\* A function on an interval can be defined step by step.
LEMMA Recursion ==
  ASSUME NEW V, NEW n \in Nat, NEW x0 \in V, NEW F \in [(1 .. n) \X V -> V]
  PROVE  \E g \in [0 .. n -> V] : StepByStep(g, n, x0, F)
<1> USE DEF StepByStep
<1> DEFINE P(m) == \E g \in [0 .. m -> V] : g[0] = x0 /\ \A i \in 1 .. m : g[i] = F[<<i, g[i - 1]>>]
           T == {m \in 0 .. n : P(m)}
<1>1. T \in SUBSET (0 .. n)
  OBVIOUS
<1>2. 0 \in T
  <2>1. [i \in 0 .. 0 |-> x0] \in [0 .. 0 -> V]
    OBVIOUS
  <2>2. P(0)
    <3> WITNESS [i \in 0 .. 0 |-> x0] \in [0 .. 0 -> V]
    <3> QED
      OBVIOUS
  <2> QED
    BY <2>2
<1>3. ASSUME NEW m \in 1 .. n, m - 1 \in T
      PROVE  m \in T
  <2>1. PICK g \in [0 .. m - 1 -> V] :
               g[0] = x0 /\ \A i \in 1 .. m - 1 : g[i] = F[<<i, g[i - 1]>>]
    BY <1>3
  <2>2. g[m - 1] \in V
    BY <2>1
  <2>3. PICK y \in V : y = F[<<m, g[m - 1]>>]
    BY <2>2
  <2> DEFINE h == [i \in 0 .. m |-> IF i = m THEN y ELSE g[i]]
  <2>4. h \in [0 .. m -> V]
    BY <2>1
  <2>5. h[0] = x0 /\ \A i \in 1 .. m : h[i] = F[<<i, h[i - 1]>>]
    <3>1. h[0] = x0
      BY <2>1
    <3>2. ASSUME NEW i \in 1 .. m
          PROVE  h[i] = F[<<i, h[i - 1]>>]
      <4>1. CASE i = m
        <5>1. h[m] = y /\ h[m - 1] = g[m - 1]
          OBVIOUS
        <5> QED
          BY <5>1, <4>1, <2>3
      <4>2. CASE i # m
        <5>1. i \in 1 .. m - 1 /\ h[i] = g[i] /\ h[i - 1] = g[i - 1]
          BY <4>2
        <5> QED
          BY <5>1, <2>1
      <4> QED
        BY <4>1, <4>2
    <3> QED
      BY <3>1, <3>2
  <2> HIDE DEF h
  <2> QED
    BY <2>4, <2>5
<1> HIDE DEF T
<1>4. T = 0 .. n
  BY <1>1, <1>2, <1>3, Along
<1>5. n \in T
  BY <1>4
<1> QED
  BY <1>5 DEF T
=============================================================================
