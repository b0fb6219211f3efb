------------------------------ MODULE ListProofs ------------------------------
(***************************************************************************)
(* Facts about lists of distinct elements and about least and greatest     *)
(* elements that the proofs of several components use.                     *)
(***************************************************************************)
EXTENDS Integers, FiniteSets, SequencesExt, SequenceTheorems, FiniteSetTheorems,
        NaturalsInduction, WellFoundedInduction, TLAPS

\* A set of naturals that is not empty has a least element.
LEMMA LeastExists ==
    ASSUME NEW T, T \subseteq Nat, T # {}
    PROVE  \E n \in T : \A k \in T : n <= k
<1> DEFINE Less == {p \in Nat \X Nat : p[1] < p[2]}
<1>1. \E n \in T : \A k \in T : ~(<<k, n>> \in Less)
  <2>1. IsWellFoundedOn(Less, Nat)
      BY NatLessThanWellFounded DEF OpToRel
  <2> HIDE DEF Less
  <2> QED
      BY <2>1, WFMin
<1>2. PICK n \in T : \A k \in T : ~(<<k, n>> \in Less)
    BY <1>1
<1>3. ASSUME NEW k \in T PROVE n <= k
  <2>1. k < n => <<k, n>> \in Less
      OBVIOUS
  <2> QED
      BY <2>1, <1>2
<1> QED
    BY <1>3

\* A bounded set of naturals has a greatest element.
LEMMA GreatestExists ==
    ASSUME NEW m \in Nat, NEW S, S \subseteq 0..m, S # {}
    PROVE  \E x \in S : \A y \in S : y <= x
<1> DEFINE T == {n \in Nat : m - n \in S}
<1>1. T \subseteq Nat /\ T # {}
  <2>1. PICK x \in S : TRUE
      OBVIOUS
  <2>2. m - x \in Nat /\ m - (m - x) = x
      BY <2>1
  <2>3. m - x \in T
      BY <2>1, <2>2
  <2> QED
      BY <2>3
<1>2. \E n \in T : \A k \in T : n <= k
  <2> HIDE DEF T
  <2> QED
      BY <1>1, LeastExists
<1>3. PICK n \in T : \A k \in T : n <= k
    BY <1>2
<1>4. ASSUME NEW y \in S PROVE y <= m - n
  <2>1. m - y \in Nat /\ m - (m - y) = y
      OBVIOUS
  <2>2. m - y \in T
      BY <2>1
  <2>3. n <= m - y
      BY <1>3, <2>2
  <2> QED
      BY <2>3
<1> QED
    BY <1>4

-----------------------------------------------------------------------------

\* The elements of a list are those at its indices.
LEMMA ListElements ==
    ASSUME NEW S, NEW s \in Seq(S)
    PROVE  /\ Len(s) \in Nat /\ DOMAIN s = 1..Len(s)
           /\ ToSet(s) \subseteq S
           /\ \A e : e \in ToSet(s) <=> \E i \in 1..Len(s) : s[i] = e
           /\ s # <<>> => 1 \in 1..Len(s) /\ Head(s) = s[1] /\ Head(s) \in ToSet(s)
<1>1. Len(s) \in Nat /\ DOMAIN s = 1..Len(s) /\ \A i \in 1..Len(s) : s[i] \in S
    BY LenProperties, ElementOfSeq
<1>2. s # <<>> => Len(s) > 0
    BY EmptySeq, <1>1
<1>3. s # <<>> => Head(s) = s[1]
    BY <1>1, <1>2
<1> QED
    BY <1>1, <1>2, <1>3 DEF ToSet

\* list_push_back of a new element.
LEMMA AppendList ==
    ASSUME NEW S, NEW s \in Seq(S), NEW e \in S
    PROVE  /\ Append(s, e) \in Seq(S)
           /\ ToSet(Append(s, e)) = ToSet(s) \cup {e}
           /\ IsInjective(s) /\ e \notin ToSet(s) => IsInjective(Append(s, e))
<1> DEFINE a == Append(s, e)
<1>1. /\ a \in Seq(S) /\ Len(a) = Len(s) + 1
      /\ \A i \in 1..Len(s) : a[i] = s[i]
      /\ a[Len(s) + 1] = e
    BY AppendProperties
<1>2. Len(s) \in Nat /\ DOMAIN s = 1..Len(s) /\ DOMAIN a = 1..Len(s) + 1
    BY <1>1, LenProperties
<1>3. \A i \in 1..Len(s) + 1 : i \in 1..Len(s) \/ i = Len(s) + 1
    BY <1>2
<1>4. Len(s) + 1 \in DOMAIN a /\ 1..Len(s) \subseteq DOMAIN a
    BY <1>2
<1> HIDE DEF a
<1>5. ToSet(a) = ToSet(s) \cup {e}
    BY <1>1, <1>2, <1>3, <1>4 DEF ToSet
<1>6. IsInjective(s) /\ e \notin ToSet(s) => IsInjective(a)
    BY <1>1, <1>2, <1>3 DEF ToSet, IsInjective
<1> QED
    BY <1>1, <1>5, <1>6 DEF a

\* list_remove of the element at place i.
LEMMA RemoveAtList ==
    ASSUME NEW S, NEW s \in Seq(S), NEW i \in 1..Len(s)
    PROVE  /\ RemoveAt(s, i) \in Seq(S)
           /\ Len(RemoveAt(s, i)) = Len(s) - 1
           /\ \A j \in 1..Len(s) - 1 : RemoveAt(s, i)[j] = IF j < i THEN s[j] ELSE s[j + 1]
           /\ IsInjective(s) => /\ IsInjective(RemoveAt(s, i))
                                /\ ToSet(RemoveAt(s, i)) = ToSet(s) \ {s[i]}
<1> DEFINE n == Len(s)
           a == SubSeq(s, 1, i - 1)
           b == SubSeq(s, i + 1, n)
           r == RemoveAt(s, i)
<1>0. n \in Nat /\ DOMAIN s = 1..n /\ \A j \in 1..n : s[j] \in S
    BY LenProperties, ElementOfSeq
<1>1. a \in Seq(S) /\ Len(a) = i - 1 /\ \A j \in 1..i - 1 : a[j] = s[j]
  <2>1. 1 \in Int /\ i - 1 \in Int /\ \A j \in 1..i - 1 : s[j] \in S
      BY <1>0
  <2>2. /\ a \in Seq(S) /\ Len(a) = IF 1 <= i - 1 THEN (i - 1) - 1 + 1 ELSE 0
        /\ \A j \in 1..(i - 1) - 1 + 1 : a[j] = s[1 + j - 1]
      BY <2>1, SubSeqProperties
  <2>3. (i - 1) - 1 + 1 = i - 1 /\ \A j \in 1..i - 1 : 1 + j - 1 = j
      BY <1>0
  <2> QED
      BY <2>2, <2>3, <1>0
<1>2. b \in Seq(S) /\ Len(b) = n - i /\ \A j \in 1..n - i : b[j] = s[i + j]
  <2>1. i + 1 \in Int /\ n \in Int /\ \A j \in i + 1..n : s[j] \in S
      BY <1>0
  <2>2. /\ b \in Seq(S) /\ Len(b) = IF i + 1 <= n THEN n - (i + 1) + 1 ELSE 0
        /\ \A j \in 1..n - (i + 1) + 1 : b[j] = s[i + 1 + j - 1]
      BY <2>1, SubSeqProperties
  <2>3. n - (i + 1) + 1 = n - i /\ Len(b) = n - i
    <3>1. n \in Nat /\ i \in 1..n
        BY <1>0
    <3>2. n - (i + 1) + 1 = n - i /\ (i + 1 <= n \/ n - i = 0)
        BY <3>1
    <3> QED
        BY <3>2, <2>2
  <2>4. ASSUME NEW j \in 1..n - i PROVE b[j] = s[i + j]
    <3>1. i + 1 + j - 1 = i + j
        BY <1>0
    <3> QED
        BY <3>1, <2>2, <2>3
  <2> QED
      BY <2>2, <2>3, <2>4
<1>3. r = a \o b
    BY DEF RemoveAt
<1> HIDE DEF a, b, r
<1>4. /\ r \in Seq(S) /\ Len(r) = n - 1
      /\ \A j \in 1..n - 1 : r[j] = IF j <= i - 1 THEN a[j] ELSE b[j - (i - 1)]
  <2>1. /\ r \in Seq(S) /\ Len(r) = Len(a) + Len(b)
        /\ \A j \in 1..Len(a) + Len(b) : r[j] = IF j <= Len(a) THEN a[j] ELSE b[j - Len(a)]
      BY <1>1, <1>2, <1>3, ConcatProperties
  <2> QED
      BY <2>1, <1>0, <1>1, <1>2
<1>5. \A j \in 1..n - 1 : r[j] = IF j < i THEN s[j] ELSE s[j + 1]
  <2> SUFFICES ASSUME NEW j \in 1..n - 1
               PROVE  r[j] = IF j < i THEN s[j] ELSE s[j + 1]
      OBVIOUS
  <2>1. n \in Nat /\ i \in 1..n
      BY <1>0
  <2>2. CASE j < i
    <3>1. j <= i - 1 /\ j \in 1..i - 1
        BY <2>1, <2>2
    <3>2. r[j] = a[j] /\ a[j] = s[j]
        BY <3>1, <1>1, <1>4
    <3> QED
        BY <3>2, <2>2
  <2>3. CASE ~(j < i)
    <3>1. ~(j <= i - 1) /\ j - (i - 1) \in 1..n - i /\ i + (j - (i - 1)) = j + 1
        BY <2>1, <2>3
    <3>2. r[j] = b[j - (i - 1)]
        BY <3>1, <1>4
    <3>3. b[j - (i - 1)] = s[i + (j - (i - 1))]
        BY <3>1, <1>2
    <3> QED
        BY <3>1, <3>2, <3>3, <2>3
  <2> QED
      BY <2>2, <2>3
<1>6. DOMAIN r = 1..n - 1
    BY <1>4, LenProperties
<1>7. ASSUME IsInjective(s) PROVE IsInjective(r)
  <2>1. ASSUME NEW j \in 1..n - 1, NEW k \in 1..n - 1, r[j] = r[k] PROVE j = k
    <3> DEFINE P(x) == IF x < i THEN x ELSE x + 1
    <3>1. P(j) \in 1..n /\ P(k) \in 1..n /\ (P(j) = P(k) => j = k)
        BY <1>0
    <3>2. r[j] = s[P(j)] /\ r[k] = s[P(k)]
        BY <1>5
    <3> HIDE DEF P
    <3>3. P(j) = P(k)
        BY <3>1, <3>2, <2>1, <1>0, <1>7 DEF IsInjective
    <3> QED
        BY <3>1, <3>3
  <2> QED
      BY <2>1, <1>6 DEF IsInjective
<1>8. ASSUME IsInjective(s) PROVE ToSet(r) = ToSet(s) \ {s[i]}
  <2>1. ASSUME NEW j \in 1..n - 1 PROVE r[j] \in ToSet(s) \ {s[i]}
      BY <1>0, <1>5, <1>8 DEF IsInjective, ToSet
  <2>2. ASSUME NEW j \in 1..n, j # i PROVE \E k \in 1..n - 1 : r[k] = s[j]
    <3>1. CASE j < i
        BY <3>1, <1>0, <1>5
    <3>2. CASE j > i
      <4>1. j - 1 \in 1..n - 1 /\ ~(j - 1 < i) /\ (j - 1) + 1 = j
          BY <3>2, <1>0
      <4> QED
          BY <4>1, <1>5
    <3> QED
        BY <3>1, <3>2, <2>2, <1>0
  <2>3. ToSet(r) \subseteq ToSet(s) \ {s[i]}
      BY <2>1, <1>6 DEF ToSet
  <2>4. ASSUME NEW e \in ToSet(s), e # s[i] PROVE e \in ToSet(r)
    <3>1. PICK j \in 1..n : s[j] = e
        BY <1>0 DEF ToSet
    <3>2. \E k \in 1..n - 1 : r[k] = e
        BY <3>1, <2>2, <2>4
    <3> QED
        BY <3>2, <1>6 DEF ToSet
  <2> QED
      BY <2>3, <2>4
<1> QED
    BY <1>4, <1>5, <1>7, <1>8 DEF r

\* list_pop_front.
LEMMA TailList ==
    ASSUME NEW S, NEW s \in Seq(S), s # <<>>
    PROVE  /\ Tail(s) \in Seq(S)
           /\ IsInjective(s) => /\ IsInjective(Tail(s))
                                /\ ToSet(Tail(s)) = ToSet(s) \ {Head(s)}
<1> DEFINE t == Tail(s)
<1>1. /\ t \in Seq(S) /\ Len(t) = Len(s) - 1 /\ \A i \in 1..Len(t) : t[i] = s[i + 1]
    BY HeadTailProperties
<1>2. /\ Len(s) \in Nat /\ DOMAIN s = 1..Len(s) /\ DOMAIN t = 1..Len(s) - 1
      /\ Head(s) = s[1] /\ 1 \in 1..Len(s)
    BY <1>1, LenProperties, ListElements
<1> HIDE DEF t
<1>3. ASSUME IsInjective(s) PROVE IsInjective(t)
  <2>1. ASSUME NEW j \in 1..Len(s) - 1, NEW k \in 1..Len(s) - 1, t[j] = t[k] PROVE j = k
    <3>1. j + 1 \in 1..Len(s) /\ k + 1 \in 1..Len(s) /\ (j + 1 = k + 1 => j = k)
        BY <1>2
    <3>2. t[j] = s[j + 1] /\ t[k] = s[k + 1]
        BY <1>1, <1>2
    <3>3. j + 1 = k + 1
        BY <3>1, <3>2, <2>1, <1>2, <1>3 DEF IsInjective
    <3> QED
        BY <3>1, <3>3
  <2> QED
      BY <2>1, <1>2 DEF IsInjective
<1>4. ASSUME IsInjective(s) PROVE ToSet(t) = ToSet(s) \ {Head(s)}
  <2>1. ASSUME NEW j \in 1..Len(s) - 1 PROVE t[j] \in ToSet(s) \ {s[1]}
      BY <1>1, <1>2, <1>4 DEF IsInjective, ToSet
  <2>2. ASSUME NEW j \in 1..Len(s), j # 1 PROVE \E k \in 1..Len(s) - 1 : t[k] = s[j]
    <3>1. j - 1 \in 1..Len(s) - 1 /\ (j - 1) + 1 = j
        BY <2>2, <1>2
    <3> QED
        BY <3>1, <1>1, <1>2
  <2>3. ToSet(t) \subseteq ToSet(s) \ {Head(s)}
      BY <2>1, <1>2 DEF ToSet
  <2>4. ASSUME NEW e \in ToSet(s), e # Head(s) PROVE e \in ToSet(t)
    <3>1. PICK j \in 1..Len(s) : s[j] = e
        BY <1>2 DEF ToSet
    <3>2. \E k \in 1..Len(s) - 1 : t[k] = e
        BY <3>1, <2>2, <2>4, <1>2
    <3> QED
        BY <3>2, <1>2 DEF ToSet
  <2> QED
      BY <2>3, <2>4
<1> QED
    BY <1>1, <1>3, <1>4 DEF t

\* Removing an element leaves the others, in their order.
LEMMA RemoveAtOthers ==
    ASSUME NEW S, NEW s \in Seq(S), NEW i \in 1..Len(s)
    PROVE  /\ DOMAIN RemoveAt(s, i) = 1..Len(s) - 1
           /\ \E P \in [1..Len(s) - 1 -> 1..Len(s)] :
                  /\ \A j \in 1..Len(s) - 1 : P[j] # i /\ RemoveAt(s, i)[j] = s[P[j]]
                  /\ \A j, l \in 1..Len(s) - 1 : j < l => P[j] < P[l]
           /\ \A k \in 1..Len(s) : k # i => s[k] \in ToSet(RemoveAt(s, i))
<1> DEFINE n == Len(s)
           r == RemoveAt(s, i)
<1>1. n \in Nat /\ DOMAIN s = 1..n
    BY LenProperties
<1>2. /\ r \in Seq(S) /\ Len(r) = n - 1
      /\ \A j \in 1..n - 1 : r[j] = IF j < i THEN s[j] ELSE s[j + 1]
    BY RemoveAtList
<1>3. DOMAIN r = 1..n - 1
    BY <1>2, LenProperties
<1> HIDE DEF n, r
<1> DEFINE P == [j \in 1..n - 1 |-> IF j < i THEN j ELSE j + 1]
<1>0. i \in 1..n
    BY DEF n
<1>4. \A j \in 1..n - 1 : P[j] \in 1..n /\ P[j] # i /\ r[j] = s[P[j]]
    BY <1>0, <1>1, <1>2
<1>5. \A j, l \in 1..n - 1 : j < l => P[j] < P[l]
    BY <1>0, <1>1
<1>8. P \in [1..n - 1 -> 1..n]
    BY <1>4
<1>6. ASSUME NEW k \in 1..n, k # i PROVE \E j \in 1..n - 1 : P[j] = k
  <2>1. CASE k < i
      BY <2>1, <1>0, <1>1
  <2>2. CASE k > i
    <3>1. k - 1 \in 1..n - 1 /\ ~(k - 1 < i) /\ (k - 1) + 1 = k
        BY <2>2, <1>0, <1>1
    <3> QED
        BY <3>1
  <2> QED
      BY <2>1, <2>2, <1>6, <1>0, <1>1
<1> HIDE DEF P
<1>7. \A k \in 1..n : k # i => s[k] \in ToSet(r)
    BY <1>3, <1>4, <1>6 DEF ToSet
<1> QED
    BY <1>3, <1>4, <1>5, <1>7, <1>8 DEF n, r

\* One list after another.
LEMMA ConcatList ==
    ASSUME NEW S, NEW s \in Seq(S), NEW t \in Seq(S)
    PROVE  /\ s \o t \in Seq(S) /\ Len(s \o t) = Len(s) + Len(t)
           /\ DOMAIN (s \o t) = 1..Len(s) + Len(t)
           /\ \A i \in 1..Len(s) + Len(t) :
                  \/ i \in 1..Len(s) /\ (s \o t)[i] = s[i]
                  \/ i - Len(s) \in 1..Len(t) /\ (s \o t)[i] = t[i - Len(s)]
           /\ ToSet(s \o t) = ToSet(s) \cup ToSet(t)
<1> DEFINE c == s \o t
           m == Len(s)
           n == Len(t)
<1>1. /\ c \in Seq(S) /\ Len(c) = m + n
      /\ \A i \in 1..m + n : c[i] = IF i <= m THEN s[i] ELSE t[i - m]
    BY ConcatProperties
<1>2. m \in Nat /\ n \in Nat /\ DOMAIN s = 1..m /\ DOMAIN t = 1..n /\ DOMAIN c = 1..m + n
    BY <1>1, LenProperties
<1> HIDE DEF c, m, n
<1>3. \A i \in 1..m + n : \/ i \in 1..m /\ c[i] = s[i]
                          \/ i - m \in 1..n /\ c[i] = t[i - m]
    BY <1>1, <1>2
<1>4. \A i \in 1..m : i \in 1..m + n /\ c[i] = s[i]
    BY <1>1, <1>2
<1>5. \A i \in 1..n : m + i \in 1..m + n /\ c[m + i] = t[i]
  <2> SUFFICES ASSUME NEW i \in 1..n PROVE m + i \in 1..m + n /\ c[m + i] = t[i]
      OBVIOUS
  <2>1. m + i \in 1..m + n /\ ~(m + i <= m) /\ (m + i) - m = i
      BY <1>2
  <2> QED
      BY <2>1, <1>1
<1>6. ToSet(c) = ToSet(s) \cup ToSet(t)
  <2>1. ToSet(c) \subseteq ToSet(s) \cup ToSet(t)
      BY <1>2, <1>3 DEF ToSet
  <2>2. ToSet(s) \cup ToSet(t) \subseteq ToSet(c)
      BY <1>2, <1>4, <1>5 DEF ToSet
  <2> QED
      BY <2>1, <2>2
<1> QED
    BY <1>1, <1>2, <1>3, <1>6 DEF c, m, n

\* The least of a set of indices.
LEMMA MinOfIndices ==
    ASSUME NEW T, T \subseteq Nat, T # {}
    PROVE  Min(T) \in T /\ \A k \in T : Min(T) <= k
    BY LeastExists DEF Min

\* A list of one element.
LEMMA SingletonList ==
    ASSUME NEW S, NEW e \in S
    PROVE  /\ <<e>> \in Seq(S) /\ Len(<<e>>) = 1 /\ <<e>>[1] = e
           /\ ToSet(<<e>>) = {e}
<1>1. <<e>> \in Seq(S) /\ Len(<<e>>) = 1 /\ <<e>>[1] = e
    OBVIOUS
<1>2. DOMAIN <<e>> = {1}
    BY <1>1, LenProperties
<1> QED
    BY <1>1, <1>2 DEF ToSet

\* list_push_front.
LEMMA ConsList ==
    ASSUME NEW S, NEW s \in Seq(S), NEW e \in S
    PROVE  /\ Cons(e, s) \in Seq(S)
           /\ ToSet(Cons(e, s)) = ToSet(s) \cup {e}
           /\ IsInjective(s) /\ e \notin ToSet(s) => IsInjective(Cons(e, s))
<1> DEFINE o == <<e>>
           c == Cons(e, s)
           n == Len(s)
<1>1. o \in Seq(S) /\ Len(o) = 1 /\ o[1] = e /\ ToSet(o) = {e} /\ c = o \o s
    BY SingletonList DEF Cons
<1> HIDE DEF o, c
<1>2. /\ c \in Seq(S) /\ DOMAIN c = 1..1 + n /\ ToSet(c) = ToSet(s) \cup {e}
      /\ \A i \in 1..1 + n : \/ i \in 1..1 /\ c[i] = o[i]
                             \/ i - 1 \in 1..n /\ c[i] = s[i - 1]
  <2>1. /\ o \o s \in Seq(S) /\ DOMAIN (o \o s) = 1..Len(o) + Len(s)
        /\ \A i \in 1..Len(o) + Len(s) :
               \/ i \in 1..Len(o) /\ (o \o s)[i] = o[i]
               \/ i - Len(o) \in 1..Len(s) /\ (o \o s)[i] = s[i - Len(o)]
        /\ ToSet(o \o s) = ToSet(o) \cup ToSet(s)
    <3>1. o \in Seq(S)
        BY <1>1
    <3> QED
        BY <3>1, ConcatList
  <2> QED
      BY <2>1, <1>1
<1>3. n \in Nat /\ DOMAIN s = 1..n
    BY LenProperties
<1> HIDE DEF n
<1>4. ASSUME IsInjective(s), e \notin ToSet(s) PROVE IsInjective(c)
  <2>1. \A i \in 1..1 + n : \/ i = 1 /\ c[i] = e
                            \/ i - 1 \in DOMAIN s /\ c[i] = s[i - 1] /\ c[i] # e
    <3>1. \A k \in 1..n : s[k] # e
        BY <1>3, <1>4 DEF ToSet
    <3> QED
        BY <3>1, <1>1, <1>2, <1>3
  <2>2. ASSUME NEW i \in 1..1 + n, NEW j \in 1..1 + n, c[i] = c[j] PROVE i = j
    <3>1. CASE i = 1 \/ j = 1
        BY <3>1, <2>1, <2>2, <1>3
    <3>2. CASE i # 1 /\ j # 1
      <4>1. /\ i - 1 \in DOMAIN s /\ j - 1 \in DOMAIN s /\ s[i - 1] = s[j - 1]
          BY <3>2, <2>1, <2>2
      <4>2. i - 1 = j - 1
          BY <4>1, <1>4 DEF IsInjective
      <4> QED
          BY <4>2, <1>3
    <3> QED
        BY <3>1, <3>2
  <2> QED
      BY <2>2, <1>2 DEF IsInjective
<1> QED
    BY <1>2, <1>4 DEF c

\* A sequence without repetitions of all elements of a finite set.
LEMMA SetToSeqsLists ==
    ASSUME NEW S, IsFiniteSet(S), NEW r \in SetToSeqs(S)
    PROVE  r \in Seq(S) /\ IsInjective(r) /\ ToSet(r) = S
<1> DEFINE n == Cardinality(S)
<1>1. n \in Nat
    BY FS_CardinalityType
<1>2. r \in [1..n -> S] /\ \A i, j \in 1..n : i # j => r[i] # r[j]
    BY DEF SetToSeqs
<1>3. ASSUME NEW x \in S, x \notin ToSet(r) PROVE FALSE
  <2>1. r \in [1..n -> S \ {x}]
      BY <1>2, <1>3 DEF ToSet
  <2>2. IsFiniteSet(S \ {x}) /\ Cardinality(S \ {x}) = n - 1
      BY <1>3, FS_RemoveElement
  <2>3. IsFiniteSet(1..n) /\ Cardinality(1..n) = n
      BY <1>1, FS_Interval
  <2> HIDE DEF n
  <2>4. \E i, j \in 1..n : i # j /\ r[i] = r[j]
      BY <1>1, <2>1, <2>2, <2>3, FS_PigeonHole
  <2> QED
      BY <2>4, <1>2
<1> HIDE DEF n
<1>4. ToSet(r) = S
    BY <1>2, <1>3 DEF ToSet
<1> QED
    BY <1>1, <1>2, <1>4 DEF IsInjective

\* A list cut after its first n elements.
LEMMA SplitList ==
    ASSUME NEW S, NEW s \in Seq(S), NEW n \in 0..Len(s)
    PROVE  /\ SubSeq(s, 1, n) \in Seq(S) /\ Len(SubSeq(s, 1, n)) = n
           /\ \A i \in 1..n : SubSeq(s, 1, n)[i] = s[i]
           /\ SubSeq(s, n + 1, Len(s)) \in Seq(S)
           /\ Len(SubSeq(s, n + 1, Len(s))) = Len(s) - n
           /\ \A i \in 1..Len(s) - n : SubSeq(s, n + 1, Len(s))[i] = s[n + i]
<1> DEFINE m == Len(s)
           a == SubSeq(s, 1, n)
           b == SubSeq(s, n + 1, m)
<1>0. m \in Nat /\ n \in 0..m /\ \A j \in 1..m : s[j] \in S
    BY LenProperties, ElementOfSeq
<1>1. a \in Seq(S) /\ Len(a) = n /\ \A j \in 1..n : a[j] = s[j]
  <2>1. 1 \in Int /\ n \in Int /\ \A j \in 1..n : s[j] \in S
      BY <1>0
  <2>2. /\ a \in Seq(S) /\ Len(a) = IF 1 <= n THEN n - 1 + 1 ELSE 0
        /\ \A j \in 1..n - 1 + 1 : a[j] = s[1 + j - 1]
      BY <2>1, SubSeqProperties
  <2>3. n - 1 + 1 = n /\ \A j \in 1..n : 1 + j - 1 = j
      BY <1>0
  <2> QED
      BY <2>2, <2>3, <1>0
<1>2. b \in Seq(S) /\ Len(b) = m - n /\ \A j \in 1..m - n : b[j] = s[n + j]
  <2>1. n + 1 \in Int /\ m \in Int /\ \A j \in n + 1..m : s[j] \in S
      BY <1>0
  <2>2. /\ b \in Seq(S) /\ Len(b) = IF n + 1 <= m THEN m - (n + 1) + 1 ELSE 0
        /\ \A j \in 1..m - (n + 1) + 1 : b[j] = s[n + 1 + j - 1]
      BY <2>1, SubSeqProperties
  <2> HIDE DEF m, a, b
  <2>3. m - (n + 1) + 1 = m - n /\ (n + 1 <= m \/ m - n = 0)
      BY <1>0
  <2>4. ASSUME NEW j \in 1..m - n PROVE b[j] = s[n + j]
    <3>1. n + 1 + j - 1 = n + j
        BY <1>0
    <3> QED
        BY <3>1, <2>2, <2>3
  <2> QED
      BY <2>2, <2>3, <2>4
<1> QED
    BY <1>1, <1>2

\* list_insert before the element at place k, or at the end.
LEMMA InsertAtList ==
    ASSUME NEW S, NEW s \in Seq(S), NEW k \in 1..Len(s) + 1, NEW e \in S
    PROVE  /\ InsertAt(s, k, e) \in Seq(S)
           /\ Len(InsertAt(s, k, e)) = Len(s) + 1
           /\ \A i \in 1..Len(s) + 1 :
                  InsertAt(s, k, e)[i] = IF i < k THEN s[i] ELSE IF i = k THEN e ELSE s[i - 1]
           /\ ToSet(InsertAt(s, k, e)) = ToSet(s) \cup {e}
           /\ IsInjective(s) /\ e \notin ToSet(s) => IsInjective(InsertAt(s, k, e))
<1> DEFINE m == Len(s)
           a == SubSeq(s, 1, k - 1)
           b == SubSeq(s, k, m)
           c == a \o <<e>>
           r == InsertAt(s, k, e)
<1>0. m \in Nat /\ k \in 1..m + 1 /\ DOMAIN s = 1..m /\ \A j \in 1..m : s[j] \in S
    BY LenProperties, ElementOfSeq
<1>1. /\ a \in Seq(S) /\ Len(a) = k - 1 /\ \A i \in 1..k - 1 : a[i] = s[i]
      /\ b \in Seq(S) /\ Len(b) = m - (k - 1) /\ \A i \in 1..m - (k - 1) : b[i] = s[(k - 1) + i]
  <2>1. k - 1 \in 0..Len(s) /\ (k - 1) + 1 = k
      BY <1>0
  <2> QED
      BY <2>1, SplitList
<1>2. r = c \o b
    BY DEF InsertAt
<1> HIDE DEF m, a, b, r
<1>3. /\ c \in Seq(S) /\ Len(c) = k /\ c[k] = e
      /\ \A i \in 1..k - 1 : c[i] = s[i]
  <2>1. <<e>> \in Seq(S) /\ Len(<<e>>) = 1 /\ <<e>>[1] = e
      BY SingletonList
  <2>2. /\ c \in Seq(S) /\ Len(c) = Len(a) + 1
        /\ \A i \in 1..Len(a) + 1 : c[i] = IF i <= Len(a) THEN a[i] ELSE <<e>>[i - Len(a)]
      BY <1>1, <2>1, ConcatProperties
  <2>3. Len(a) + 1 = k /\ k - Len(a) = 1 /\ k \in 1..k /\ ~(k <= Len(a))
      BY <1>0, <1>1
  <2>4. c[k] = e
      BY <2>1, <2>2, <2>3
  <2>5. ASSUME NEW i \in 1..k - 1 PROVE c[i] = s[i]
    <3>1. i \in 1..Len(a) + 1 /\ i <= Len(a)
        BY <1>0, <1>1
    <3> QED
        BY <2>2, <3>1, <1>1
  <2> QED
      BY <2>2, <2>3, <2>4, <2>5
<1> HIDE DEF c
<1>4. /\ r \in Seq(S) /\ Len(r) = m + 1
      /\ \A i \in 1..m + 1 : r[i] = IF i <= k THEN c[i] ELSE b[i - k]
  <2>1. /\ r \in Seq(S) /\ Len(r) = Len(c) + Len(b)
        /\ \A i \in 1..Len(c) + Len(b) : r[i] = IF i <= Len(c) THEN c[i] ELSE b[i - Len(c)]
    <3>1. c \in Seq(S) /\ b \in Seq(S)
        BY <1>1, <1>3
    <3>2. /\ c \o b \in Seq(S) /\ Len(c \o b) = Len(c) + Len(b)
          /\ \A i \in 1..Len(c) + Len(b) : (c \o b)[i] = IF i <= Len(c) THEN c[i] ELSE b[i - Len(c)]
        BY <3>1, ConcatProperties
    <3> QED
        BY <3>2, <1>2
  <2>2. Len(c) + Len(b) = m + 1
      BY <1>0, <1>1, <1>3
  <2> QED
      BY <2>1, <2>2, <1>3
<1>5. ASSUME NEW i \in 1..m + 1
      PROVE  r[i] = IF i < k THEN s[i] ELSE IF i = k THEN e ELSE s[i - 1]
  <2>1. CASE i < k
    <3>1. i \in 1..k - 1 /\ i <= k
        BY <2>1, <1>0
    <3> QED
        BY <2>1, <3>1, <1>3, <1>4
  <2>2. CASE i = k
      BY <2>2, <1>0, <1>3, <1>4
  <2>3. CASE i > k
    <3>1. i - k \in 1..m - (k - 1) /\ (k - 1) + (i - k) = i - 1 /\ ~(i <= k) /\ ~(i < k)
        BY <2>3, <1>0
    <3>2. b[i - k] = s[i - 1]
        BY <3>1, <1>1
    <3> QED
        BY <2>3, <3>1, <3>2, <1>4
  <2> QED
      BY <2>1, <2>2, <2>3, <1>0
<1>6. DOMAIN r = 1..m + 1
    BY <1>4, LenProperties
<1>7. ToSet(r) = ToSet(s) \cup {e}
  <2>1. ASSUME NEW i \in 1..m + 1 PROVE r[i] \in ToSet(s) \cup {e}
    <3>1. i < k => i \in 1..m
        BY <1>0
    <3>2. i > k => i - 1 \in 1..m
        BY <1>0
    <3>3. i < k \/ i = k \/ i > k
        BY <1>0
    <3> QED
        BY <3>1, <3>2, <3>3, <1>0, <1>5 DEF ToSet
  <2>2. r[k] = e
      BY <1>0, <1>5
  <2>3. ASSUME NEW j \in 1..m PROVE \E i \in 1..m + 1 : r[i] = s[j]
    <3>1. CASE j < k
      <4>1. j \in 1..m + 1
          BY <1>0
      <4> QED
          BY <3>1, <4>1, <1>5
    <3>2. CASE ~(j < k)
      <4>1. j + 1 \in 1..m + 1 /\ ~(j + 1 < k) /\ j + 1 # k /\ (j + 1) - 1 = j
          BY <3>2, <1>0
      <4> QED
          BY <4>1, <1>5
    <3> QED
        BY <3>1, <3>2
  <2> QED
      BY <2>1, <2>2, <2>3, <1>0, <1>6 DEF ToSet
<1>8. ASSUME IsInjective(s), e \notin ToSet(s) PROVE IsInjective(r)
  <2>1. ASSUME NEW i \in 1..m + 1, NEW j \in 1..m + 1, r[i] = r[j] PROVE i = j
    <3> DEFINE P(x) == IF x < k THEN x ELSE x - 1
    <3>1. \A x \in 1..m + 1 : x # k => P(x) \in 1..m
        BY <1>0
    <3>2. i # k /\ j # k /\ P(i) = P(j) => i = j
        BY <1>0
    <3>3. \A x \in 1..m + 1 : x # k => r[x] = s[P(x)]
        BY <1>5
    <3>4. r[k] = e
        BY <1>0, <1>5
    <3> HIDE DEF P
    <3>5. \A x \in 1..m + 1 : x # k => r[x] \in ToSet(s)
        BY <3>1, <3>3, <1>0 DEF ToSet
    <3>6. i = k <=> j = k
        BY <3>4, <3>5, <2>1, <1>8
    <3>7. i # k => P(i) = P(j)
        BY <3>1, <3>3, <3>6, <2>1, <1>0, <1>8 DEF IsInjective
    <3> QED
        BY <3>2, <3>6, <3>7
  <2> QED
      BY <2>1, <1>6 DEF IsInjective
<1> QED
    BY <1>4, <1>5, <1>7, <1>8 DEF m, r

\* A list has finitely many elements.
LEMMA ListFinite ==
    ASSUME NEW S, NEW s \in Seq(S)
    PROVE  IsFiniteSet(ToSet(s))
<1>1. Len(s) \in Nat /\ DOMAIN s = 1..Len(s)
    BY LenProperties
<1>2. IsFiniteSet(1..Len(s))
    BY <1>1, FS_Interval
<1>3. s \in Surjection(1..Len(s), ToSet(s))
    BY <1>1, ElementOfSeq DEF Surjection, ToSet
<1> QED
    BY <1>2, <1>3, FS_Surjection
=============================================================================
