---------------------------- MODULE Lists_proofs ----------------------------
(***************************************************************************)
(* What the functions of list.c do to the members of a list, of any type:  *)
(* whom it holds, that it holds nobody twice, and its order.               *)
(***************************************************************************)
EXTENDS Lists, SequenceTheorems, WellFoundedInduction, TLAPS

\* Induction, for a set in the place of a predicate.
LEMMA Induction ==
    ASSUME NEW S, 0 \in S, \A n \in Nat : n \in S => n + 1 \in S
    PROVE  \A n \in Nat : n \in S
<1> DEFINE Below == OpToRel(<, Nat)
           Outside == Nat \ S
<1>1. IsWellFoundedOn(Below, Nat)
    BY NatLessThanWellFounded
<1>2. \A m, n \in Nat : m < n => <<m, n>> \in Below
    BY DEF OpToRel
<1> HIDE DEF Below
<1>3. SUFFICES ASSUME Outside # {} PROVE FALSE
    OBVIOUS
<1>4. Outside \subseteq Nat
    OBVIOUS
<1> HIDE DEF Outside
<1>5. PICK n \in Outside : \A m \in Outside : ~(<<m, n>> \in Below)
    BY <1>1, <1>3, <1>4, WFMin
<1>6. n \in Nat /\ n \notin S
    BY DEF Outside
<1>7. n - 1 \in Nat /\ n - 1 < n /\ (n - 1) + 1 = n
    BY <1>6
<1>8. n - 1 \in S
    BY <1>2, <1>5, <1>6, <1>7 DEF Outside
<1> QED BY <1>6, <1>7, <1>8

\* A set of numbers that is not empty has a least one.
LEMMA LeastIs ==
    ASSUME NEW P \in SUBSET Nat, P # {}
    PROVE  \E p \in P : \A q \in P : p <= q
<1> DEFINE Below == OpToRel(<, Nat)
<1>1. IsWellFoundedOn(Below, Nat)
    BY NatLessThanWellFounded
<1>2. \A m, n \in Nat : m < n => <<m, n>> \in Below
    BY DEF OpToRel
<1> HIDE DEF Below
<1>3. PICK p \in P : \A q \in P : ~(<<q, p>> \in Below)
    BY <1>1, WFMin
<1>4. \A q \in P : p \in Nat /\ q \in Nat /\ ~(q < p)
    BY <1>2, <1>3
<1>5. \A q \in P : p <= q
    BY <1>4
<1> QED BY <1>5

Elements(f) == {f[i] : i \in DOMAIN f}
Distinct(f) == \A i, j \in DOMAIN f : i # j => f[i] # f[j]

\* Nobody is in an empty list, and only in an empty one.
LEMMA NobodyIn ==
    ASSUME NEW T, NEW s \in Seq(T)
    PROVE  Elements(s) = {} <=> s = <<>>
<1>1. DOMAIN s = 1 .. Len(s) /\ Len(s) \in Nat
    OBVIOUS
<1>2. ASSUME Elements(s) = {} PROVE s = <<>>
    <2>1. \A i \in 1 .. Len(s) : FALSE
        BY <1>1, <1>2 DEF Elements
    <2> QED BY <1>1, <2>1
<1>3. ASSUME s = <<>> PROVE Elements(s) = {}
    BY <1>3 DEF Elements
<1> QED BY <1>2, <1>3

-----------------------------------------------------------------------------
(* Members put in and taken out. *)

\* t is s with e put in at place i, and s with the member at i taken out.
PutIn(T, s, i, e, t) ==
    /\ t \in Seq(T) /\ Len(t) = Len(s) + 1 /\ t[i] = e
    /\ \A k \in 1 .. Len(s) : IF k < i THEN t[k] = s[k] ELSE t[k + 1] = s[k]
TakenOut(T, s, i, t) ==
    /\ t \in Seq(T) /\ Len(t) = Len(s) - 1
    /\ \A k \in 1 .. Len(t) : t[k] = IF k < i THEN s[k] ELSE s[k + 1]

SortedBy(s, v) == \A i, j \in DOMAIN s : i < j => v[s[i]] <= v[s[j]]

LEMMA InsertAtIs ==
    ASSUME NEW T, NEW s \in Seq(T), NEW i \in 1 .. Len(s) + 1, NEW e \in T
    PROVE  PutIn(T, s, i, e, InsertAt(s, i, e))
<1> DEFINE N == Len(s)
           a == SubSeq(s, 1, i - 1)
           b == SubSeq(s, i, N)
           m == a \o <<e>>
           t == m \o b
<1>1. N \in Nat /\ i \in Int /\ 1 <= i /\ i <= N + 1 /\ \A k \in 1 .. N : s[k] \in T
    OBVIOUS
<1>2. a \in Seq(T) /\ Len(a) = i - 1 /\ \A k \in 1 .. i - 1 : a[k] = s[k]
    <2>1. \A k \in 1 .. i - 1 : s[k] \in T
        BY <1>1
    <2>2. /\ a \in Seq(T) /\ Len(a) = (IF 1 <= i - 1 THEN i - 1 - 1 + 1 ELSE 0)
          /\ \A k \in 1 .. i - 1 - 1 + 1 : a[k] = s[1 + k - 1]
        BY <1>1, <2>1, SubSeqProperties
    <2> QED BY <1>1, <2>2
<1>3. b \in Seq(T) /\ Len(b) = N - i + 1 /\ \A k \in 1 .. N - i + 1 : b[k] = s[i + k - 1]
    <2>1. \A k \in i .. N : s[k] \in T
        BY <1>1
    <2>2. /\ b \in Seq(T) /\ Len(b) = (IF i <= N THEN N - i + 1 ELSE 0)
          /\ \A k \in 1 .. N - i + 1 : b[k] = s[i + k - 1]
        BY <1>1, <2>1, SubSeqProperties
    <2> QED BY <1>1, <2>2
<1>4. InsertAt(s, i, e) = t
    BY DEF InsertAt
<1> HIDE DEF N, a, b
<1>5. m \in Seq(T) /\ Len(m) = i /\ m[i] = e /\ \A k \in 1 .. i - 1 : m[k] = s[k]
    <2>1. <<e>> \in Seq(T) /\ Len(<<e>>) = 1 /\ <<e>>[1] = e
        OBVIOUS
    <2> DEFINE u == <<e>>
    <2> HIDE DEF u
    <2>2. /\ a \o u \in Seq(T) /\ Len(a \o u) = Len(a) + Len(u)
          /\ \A k \in 1 .. Len(a) + Len(u) : (a \o u)[k] = IF k <= Len(a) THEN a[k] ELSE u[k - Len(a)]
        BY <1>2, <2>1, ConcatProperties DEF u
    <2>3. i \in 1 .. i /\ ~(i <= i - 1) /\ i - (i - 1) = 1 /\ i - 1 + 1 = i
        BY <1>1
    <2>4. \A k \in 1 .. i - 1 : k \in 1 .. i /\ k <= i - 1
        BY <1>1
    <2> QED BY <1>2, <2>1, <2>2, <2>3, <2>4 DEF u
<1> HIDE DEF m
<1>6. /\ t \in Seq(T) /\ Len(t) = i + (N - i + 1)
      /\ \A k \in 1 .. i + (N - i + 1) : t[k] = IF k <= i THEN m[k] ELSE b[k - i]
    <2>1. /\ t \in Seq(T) /\ Len(t) = Len(m) + Len(b)
          /\ \A k \in 1 .. Len(m) + Len(b) : t[k] = IF k <= Len(m) THEN m[k] ELSE b[k - Len(m)]
        BY <1>3, <1>5, ConcatProperties
    <2> HIDE DEF t
    <2> QED BY <1>3, <1>5, <2>1
<1> HIDE DEF t
<1>7. ASSUME NEW k \in 1 .. N PROVE IF k < i THEN t[k] = s[k] ELSE t[k + 1] = s[k]
    <2>1. CASE k < i
        <3>1. k \in 1 .. i - 1 /\ k \in 1 .. i + (N - i + 1) /\ k <= i
            BY <1>1, <2>1
        <3> QED BY <1>5, <1>6, <2>1, <3>1
    <2>2. CASE ~(k < i)
        <3>1. /\ k + 1 \in 1 .. i + (N - i + 1) /\ ~(k + 1 <= i)
              /\ k + 1 - i \in 1 .. N - i + 1 /\ i + (k + 1 - i) - 1 = k
            BY <1>1, <2>2
        <3> QED BY <1>3, <1>6, <2>2, <3>1
    <2> QED BY <2>1, <2>2
<1>8. t[i] = e /\ Len(t) = N + 1
    <2>1. i \in 1 .. i + (N - i + 1) /\ i <= i /\ i + (N - i + 1) = N + 1
        BY <1>1
    <2> QED BY <1>5, <1>6, <2>1
<1> QED BY <1>4, <1>6, <1>7, <1>8 DEF PutIn, N

LEMMA AppendIs ==
    ASSUME NEW T, NEW s \in Seq(T), NEW e \in T
    PROVE  Len(s) + 1 \in 1 .. Len(s) + 1 /\ PutIn(T, s, Len(s) + 1, e, Append(s, e))
<1>1. Len(s) \in Nat /\ Append(s, e) \in Seq(T) /\ Len(Append(s, e)) = Len(s) + 1
    OBVIOUS
<1>2. Append(s, e)[Len(s) + 1] = e /\ \A k \in 1 .. Len(s) : k < Len(s) + 1 /\ Append(s, e)[k] = s[k]
    OBVIOUS
<1> QED BY <1>1, <1>2 DEF PutIn

LEMMA RemoveAtIs ==
    ASSUME NEW T, NEW s \in Seq(T), NEW i \in 1 .. Len(s)
    PROVE  TakenOut(T, s, i, RemoveAt(s, i))
<1> DEFINE N == Len(s)
           a == SubSeq(s, 1, i - 1)
           b == SubSeq(s, i + 1, N)
           t == a \o b
<1>1. N \in Nat /\ i \in Int /\ 1 <= i /\ i <= N /\ \A k \in 1 .. N : s[k] \in T
    OBVIOUS
<1>2. a \in Seq(T) /\ Len(a) = i - 1 /\ \A k \in 1 .. i - 1 : a[k] = s[k]
    <2>1. \A k \in 1 .. i - 1 : s[k] \in T
        BY <1>1
    <2>2. /\ a \in Seq(T) /\ Len(a) = (IF 1 <= i - 1 THEN i - 1 - 1 + 1 ELSE 0)
          /\ \A k \in 1 .. i - 1 - 1 + 1 : a[k] = s[1 + k - 1]
        BY <1>1, <2>1, SubSeqProperties
    <2> QED BY <1>1, <2>2
<1>3. b \in Seq(T) /\ Len(b) = N - i /\ \A k \in 1 .. N - i : b[k] = s[i + k]
    <2>1. \A k \in i + 1 .. N : s[k] \in T
        BY <1>1
    <2>2. /\ b \in Seq(T) /\ Len(b) = (IF i + 1 <= N THEN N - (i + 1) + 1 ELSE 0)
          /\ \A k \in 1 .. N - (i + 1) + 1 : b[k] = s[i + 1 + k - 1]
        BY <1>1, <2>1, SubSeqProperties
    <2>3. N - (i + 1) + 1 = N - i /\ \A k \in 1 .. N - i : i + 1 + k - 1 = i + k
        BY <1>1
    <2>4. Len(b) = N - i
        BY <1>1, <2>2
    <2> HIDE DEF b
    <2> QED BY <2>2, <2>3, <2>4
<1>4. RemoveAt(s, i) = t
    BY DEF RemoveAt
<1> HIDE DEF N, a, b
<1>5. /\ t \in Seq(T) /\ Len(t) = i - 1 + (N - i)
      /\ \A k \in 1 .. i - 1 + (N - i) : t[k] = IF k <= i - 1 THEN a[k] ELSE b[k - (i - 1)]
    <2>1. /\ t \in Seq(T) /\ Len(t) = Len(a) + Len(b)
          /\ \A k \in 1 .. Len(a) + Len(b) : t[k] = IF k <= Len(a) THEN a[k] ELSE b[k - Len(a)]
        BY <1>2, <1>3, ConcatProperties
    <2> HIDE DEF t
    <2> QED BY <1>2, <1>3, <2>1
<1> HIDE DEF t
<1>6. i - 1 + (N - i) = N - 1
    BY <1>1
<1>7. ASSUME NEW k \in 1 .. N - 1 PROVE t[k] = IF k < i THEN s[k] ELSE s[k + 1]
    <2>1. CASE k < i
        <3>1. k \in 1 .. i - 1 /\ k <= i - 1
            BY <1>1, <2>1
        <3> QED BY <1>2, <1>5, <1>6, <2>1, <3>1
    <2>2. CASE ~(k < i)
        <3>1. ~(k <= i - 1) /\ k - (i - 1) \in 1 .. N - i /\ i + (k - (i - 1)) = k + 1
            BY <1>1, <2>2
        <3> QED BY <1>3, <1>5, <1>6, <2>2, <3>1
    <2> QED BY <2>1, <2>2
<1> QED BY <1>4, <1>5, <1>6, <1>7 DEF TakenOut, N

LEMMA PutInList ==
    ASSUME NEW T, NEW s \in Seq(T), NEW i \in 1 .. Len(s) + 1, NEW e \in T, NEW t,
           PutIn(T, s, i, e, t), Distinct(s), e \notin Elements(s)
    PROVE  Distinct(t) /\ Elements(t) = Elements(s) \cup {e}
<1> DEFINE N == Len(s)
           From(k) == IF k < i THEN k ELSE k - 1
<1>1. /\ N \in Nat /\ i \in Int /\ 1 <= i /\ i <= N + 1 /\ DOMAIN s = 1 .. N /\ DOMAIN t = 1 .. N + 1
      /\ t[i] = e /\ \A k \in 1 .. N : IF k < i THEN t[k] = s[k] ELSE t[k + 1] = s[k]
    <2>1. t \in Seq(T) /\ Len(t) = N + 1
        BY DEF PutIn
    <2>2. DOMAIN t = 1 .. Len(t)
        BY <2>1
    <2> QED BY <2>1, <2>2 DEF PutIn
<1> HIDE DEF N
<1>2. ASSUME NEW k \in 1 .. N + 1, k # i PROVE From(k) \in 1 .. N /\ t[k] = s[From(k)]
    <2>1. CASE k < i
        <3>1. k \in 1 .. N
            BY <1>1, <2>1
        <3> QED BY <1>1, <2>1, <3>1
    <2>2. CASE ~(k < i)
        <3>1. k - 1 \in 1 .. N /\ ~(k - 1 < i) /\ (k - 1) + 1 = k
            BY <1>1, <1>2, <2>2
        <3> QED BY <1>1, <2>2, <3>1
    <2> QED BY <2>1, <2>2
<1>3. \A k, l \in 1 .. N + 1 : k # i /\ l # i /\ From(k) = From(l) => k = l
    BY <1>1
<1> HIDE DEF From
<1>4. \A k \in 1 .. N : s[k] # e
    BY <1>1 DEF Elements
<1>5. Distinct(t)
    <2> SUFFICES ASSUME NEW k \in 1 .. N + 1, NEW l \in 1 .. N + 1, t[k] = t[l] PROVE k = l
        BY <1>1 DEF Distinct
    <2>1. CASE k = i /\ l # i
        BY <1>1, <1>2, <1>4, <2>1
    <2>2. CASE k # i /\ l = i
        BY <1>1, <1>2, <1>4, <2>2
    <2>3. CASE k # i /\ l # i
        <3>1. From(k) \in 1 .. N /\ From(l) \in 1 .. N /\ s[From(k)] = s[From(l)]
            BY <1>2, <2>3
        <3>2. From(k) = From(l)
            BY <1>1, <3>1 DEF Distinct
        <3> QED BY <1>3, <2>3, <3>2
    <2> QED BY <2>1, <2>2, <2>3
<1>6. Elements(t) \subseteq Elements(s) \cup {e}
    BY <1>1, <1>2 DEF Elements
<1>7. e \in Elements(t)
    BY <1>1 DEF Elements
<1>8. ASSUME NEW k \in 1 .. N PROVE s[k] \in Elements(t)
    <2>1. k \in 1 .. N + 1 /\ k + 1 \in 1 .. N + 1
        BY <1>1
    <2> QED BY <1>1, <2>1 DEF Elements
<1>9. Elements(s) \subseteq Elements(t)
    <2>1. Elements(s) = {s[k] : k \in 1 .. N}
        BY <1>1 DEF Elements
    <2> QED BY <1>8, <2>1
<1> QED BY <1>5, <1>6, <1>7, <1>9

\* The order is kept when nothing before e is greater and nothing behind it less.
LEMMA PutInOrder ==
    ASSUME NEW T, NEW s \in Seq(T), NEW i \in 1 .. Len(s) + 1, NEW e \in T, NEW t,
           PutIn(T, s, i, e, t), NEW v \in [T -> Int], SortedBy(s, v),
           \A k \in 1 .. Len(s) : (k < i => v[s[k]] <= v[e]) /\ (k >= i => v[e] <= v[s[k]])
    PROVE  SortedBy(t, v)
<1> DEFINE N == Len(s)
           From(k) == IF k < i THEN k ELSE k - 1
<1>1. /\ N \in Nat /\ i \in Int /\ 1 <= i /\ i <= N + 1 /\ DOMAIN s = 1 .. N /\ DOMAIN t = 1 .. N + 1
      /\ t[i] = e /\ \A k \in 1 .. N : IF k < i THEN t[k] = s[k] ELSE t[k + 1] = s[k]
    <2>1. t \in Seq(T) /\ Len(t) = N + 1
        BY DEF PutIn
    <2>2. DOMAIN t = 1 .. Len(t)
        BY <2>1
    <2>3. t[i] = e /\ \A k \in 1 .. N : IF k < i THEN t[k] = s[k] ELSE t[k + 1] = s[k]
        BY DEF PutIn
    <2>4. N \in Nat /\ DOMAIN s = 1 .. N /\ i \in Int /\ 1 <= i /\ i <= N + 1
        OBVIOUS
    <2> QED BY <2>1, <2>2, <2>3, <2>4
<1>2. \A k \in 1 .. N : (k < i => v[s[k]] <= v[e]) /\ (k >= i => v[e] <= v[s[k]])
    OBVIOUS
<1> HIDE DEF N
<1>3. ASSUME NEW k \in 1 .. N + 1, k # i
      PROVE  From(k) \in 1 .. N /\ t[k] = s[From(k)] /\ (k < i <=> From(k) < i)
    <2>1. CASE k < i
        <3>1. k \in 1 .. N
            BY <1>1, <2>1
        <3> QED BY <1>1, <2>1, <3>1
    <2>2. CASE ~(k < i)
        <3>1. k - 1 \in 1 .. N /\ ~(k - 1 < i) /\ (k - 1) + 1 = k
            BY <1>1, <1>3, <2>2
        <3> QED BY <1>1, <2>2, <3>1
    <2> QED BY <2>1, <2>2
<1>4. \A k, l \in 1 .. N + 1 : k # i /\ l # i /\ k < l => From(k) < From(l)
    BY <1>1
<1> HIDE DEF From
<1> SUFFICES ASSUME NEW k \in 1 .. N + 1, NEW l \in 1 .. N + 1, k < l PROVE v[t[k]] <= v[t[l]]
    BY <1>1 DEF SortedBy
<1>5. CASE k # i /\ l # i
    <2>1. /\ From(k) \in 1 .. N /\ From(l) \in 1 .. N /\ From(k) < From(l)
          /\ t[k] = s[From(k)] /\ t[l] = s[From(l)]
        BY <1>3, <1>4, <1>5
    <2> QED BY <1>1, <2>1 DEF SortedBy
<1>6. CASE k = i
    <2>1. l # i /\ ~(l < i)
        BY <1>1, <1>6
    <2>2. From(l) \in 1 .. N /\ From(l) >= i /\ t[l] = s[From(l)]
        BY <1>1, <1>3, <2>1
    <2> QED BY <1>1, <1>2, <1>6, <2>2
<1>7. CASE l = i
    <2>1. k # i /\ k < i
        BY <1>1, <1>7
    <2>2. From(k) \in 1 .. N /\ From(k) < i /\ t[k] = s[From(k)]
        BY <1>3, <2>1
    <2> QED BY <1>1, <1>2, <1>7, <2>2
<1> QED BY <1>5, <1>6, <1>7

LEMMA TakenOutList ==
    ASSUME NEW T, NEW s \in Seq(T), NEW i \in 1 .. Len(s), NEW t,
           TakenOut(T, s, i, t), Distinct(s)
    PROVE  /\ Distinct(t) /\ Elements(t) = Elements(s) \ {s[i]}
           /\ \A v \in [T -> Int] : SortedBy(s, v) => SortedBy(t, v)
<1> DEFINE N == Len(s)
           Into(k) == IF k < i THEN k ELSE k + 1
<1>1. /\ N \in Nat /\ i \in Int /\ 1 <= i /\ i <= N /\ DOMAIN s = 1 .. N /\ DOMAIN t = 1 .. N - 1
      /\ \A k \in 1 .. N - 1 : t[k] = IF k < i THEN s[k] ELSE s[k + 1]
    <2>1. t \in Seq(T) /\ Len(t) = N - 1
        BY DEF TakenOut
    <2>2. DOMAIN t = 1 .. Len(t)
        BY <2>1
    <2> QED BY <2>1, <2>2 DEF TakenOut
<1> HIDE DEF N
<1>2. \A k \in 1 .. N - 1 : Into(k) \in 1 .. N /\ Into(k) # i /\ t[k] = s[Into(k)]
    BY <1>1
<1>3. \A k, l \in 1 .. N - 1 : (Into(k) = Into(l) => k = l) /\ (k < l => Into(k) < Into(l))
    BY <1>1
<1>4. \A l \in 1 .. N : l # i => \E k \in 1 .. N - 1 : Into(k) = l
    <2> SUFFICES ASSUME NEW l \in 1 .. N, l # i PROVE \E k \in 1 .. N - 1 : Into(k) = l
        OBVIOUS
    <2>1. CASE l < i
        <3>1. l \in 1 .. N - 1
            BY <1>1, <2>1
        <3> QED BY <2>1, <3>1
    <2>2. CASE ~(l < i)
        <3>1. l - 1 \in 1 .. N - 1 /\ ~(l - 1 < i) /\ (l - 1) + 1 = l
            BY <1>1, <2>2
        <3>2. Into(l - 1) = l
            BY <3>1
        <3> HIDE DEF Into
        <3> QED BY <3>1, <3>2
    <2> QED BY <2>1, <2>2
<1> HIDE DEF Into
<1>5. Distinct(t)
    BY <1>1, <1>2, <1>3 DEF Distinct
<1>6. Elements(t) = Elements(s) \ {s[i]}
    <2>1. \A k \in 1 .. N : k # i => s[k] # s[i]
        BY <1>1 DEF Distinct
    <2>2. ASSUME NEW l \in 1 .. N, s[l] # s[i] PROVE s[l] \in Elements(t)
        <3>1. PICK k \in 1 .. N - 1 : Into(k) = l
            BY <1>4, <2>2
        <3> QED BY <1>1, <1>2, <3>1 DEF Elements
    <2>3. \A k \in 1 .. N - 1 : t[k] \in Elements(s) \ {s[i]}
        BY <1>1, <1>2, <2>1 DEF Elements
    <2> QED BY <1>1, <2>2, <2>3 DEF Elements
<1>7. ASSUME NEW v \in [T -> Int], SortedBy(s, v) PROVE SortedBy(t, v)
    <2> SUFFICES ASSUME NEW k \in 1 .. N - 1, NEW l \in 1 .. N - 1, k < l PROVE v[t[k]] <= v[t[l]]
        BY <1>1 DEF SortedBy
    <2>1. Into(k) \in 1 .. N /\ Into(l) \in 1 .. N /\ Into(k) < Into(l) /\ t[k] = s[Into(k)] /\ t[l] = s[Into(l)]
        BY <1>2, <1>3
    <2> QED BY <1>1, <1>7, <2>1 DEF SortedBy
<1> QED BY <1>5, <1>6, <1>7

\* A list that a member leaves.
LEMMA WithoutIs ==
    ASSUME NEW T, NEW s \in Seq(T), Distinct(s), NEW r
    PROVE  /\ Without(s, r) \in Seq(T) /\ Distinct(Without(s, r))
           /\ Elements(Without(s, r)) = Elements(s) \ {r}
           /\ r \notin Elements(s) => Without(s, r) = s
           /\ \A v \in [T -> Int] : SortedBy(s, v) => SortedBy(Without(s, r), v)
<1>1. CASE r \notin Elements(s)
    BY <1>1 DEF Without, Elements
<1>2. CASE r \in Elements(s)
    <2> DEFINE i == PlaceOf(s, r)
               t == RemoveAt(s, i)
    <2>1. i \in 1 .. Len(s) /\ s[i] = r
        BY <1>2 DEF PlaceOf, Elements
    <2>2. Without(s, r) = t
        BY <1>2 DEF Without, Elements
    <2> HIDE DEF i
    <2>3. TakenOut(T, s, i, t)
        BY <2>1, RemoveAtIs
    <2> HIDE DEF t
    <2>4. t \in Seq(T)
        BY <2>3 DEF TakenOut
    <2> QED BY <1>2, <2>1, <2>2, <2>3, <2>4, TakenOutList
<1> QED BY <1>1, <1>2

\* A sorted list that a member enters.
LEMMA ListInsertIs ==
    ASSUME NEW T, NEW s \in Seq(T), Distinct(s), NEW r \in T, r \notin Elements(s),
           NEW v \in [T -> Int], NEW largest \in Int
    PROVE  LET t == vListInsert(s, r, v, largest)
           IN  /\ t \in Seq(T) /\ Distinct(t) /\ Elements(t) = Elements(s) \cup {r}
               /\ SortedBy(s, v) /\ (\A a \in T : v[a] <= largest) => SortedBy(t, v)
<1> DEFINE later == {i \in DOMAIN s : v[s[i]] > v[r]}
           first == CHOOSE i \in later : \A j \in later : i <= j
           t == vListInsert(s, r, v, largest)
<1>1. Len(s) \in Nat /\ DOMAIN s = 1 .. Len(s) /\ v[r] \in Int /\ \A k \in 1 .. Len(s) : v[s[k]] \in Int /\ s[k] \in T
    OBVIOUS
<1>2. CASE v[r] = largest \/ later = {}
    <2> DEFINE i == Len(s) + 1
    <2>1. t = Append(s, r)
        BY <1>2 DEF vListInsert
    <2>2. i \in 1 .. Len(s) + 1 /\ PutIn(T, s, i, r, t)
        BY <2>1, AppendIs
    <2>3. t \in Seq(T) /\ Distinct(t) /\ Elements(t) = Elements(s) \cup {r}
        <3>1. t \in Seq(T)
            BY <2>2 DEF PutIn
        <3> HIDE DEF t, i
        <3> QED BY <2>2, <3>1, PutInList
    <2>4. ASSUME SortedBy(s, v), \A a \in T : v[a] <= largest PROVE SortedBy(t, v)
        <3>1. ASSUME NEW k \in 1 .. Len(s) PROVE v[s[k]] <= v[r]
            <4>1. CASE v[r] = largest
                BY <1>1, <2>4, <4>1
            <4>2. CASE later = {}
                BY <1>1, <4>2
            <4> QED BY <1>2, <4>1, <4>2
        <3>2. \A k \in 1 .. Len(s) : (k < i => v[s[k]] <= v[r]) /\ (k >= i => v[r] <= v[s[k]])
            BY <1>1, <3>1
        <3> HIDE DEF t, i
        <3> QED BY <2>2, <2>4, <3>2, PutInOrder
    <2> QED BY <2>3, <2>4
<1>3. CASE ~(v[r] = largest \/ later = {})
    <2>1. t = InsertAt(s, first, r)
        BY <1>3 DEF vListInsert
    <2>2. first \in later /\ \A j \in later : first <= j
        <3>1. later \in SUBSET (Nat \ {0}) /\ later # {}
            BY <1>1, <1>3
        <3> HIDE DEF later
        <3>2. \E i \in later : \A j \in later : i <= j
            BY <3>1, LeastIs
        <3> QED BY <3>2
    <2> HIDE DEF first
    <2>3. first \in 1 .. Len(s) + 1 /\ first \in 1 .. Len(s) /\ v[s[first]] > v[r]
        BY <1>1, <2>2
    <2>4. PutIn(T, s, first, r, t)
        BY <2>1, <2>3, InsertAtIs
    <2>5. t \in Seq(T) /\ Distinct(t) /\ Elements(t) = Elements(s) \cup {r}
        <3>1. t \in Seq(T)
            BY <2>4 DEF PutIn
        <3> HIDE DEF t
        <3> QED BY <2>3, <2>4, <3>1, PutInList
    <2>6. ASSUME SortedBy(s, v) PROVE SortedBy(t, v)
        <3>1. ASSUME NEW k \in 1 .. Len(s) PROVE (k < first => v[s[k]] <= v[r]) /\ (k >= first => v[r] <= v[s[k]])
            <4>1. CASE k < first
                <5>1. k \notin later /\ ~(k >= first)
                    BY <2>2, <2>3, <4>1
                <5> QED BY <1>1, <5>1
            <4>2. CASE k = first
                BY <1>1, <2>3, <4>2
            <4>3. CASE k > first
                <5>1. v[s[first]] <= v[s[k]]
                    BY <1>1, <2>3, <2>6, <4>3 DEF SortedBy
                <5>2. ~(k < first)
                    BY <2>3, <4>3
                <5> QED BY <1>1, <2>3, <5>1, <5>2
            <4> QED BY <2>3, <4>1, <4>2, <4>3
        <3> HIDE DEF t
        <3> QED BY <2>3, <2>4, <2>6, <3>1, PutInOrder
    <2> QED BY <2>5, <2>6
<1> QED BY <1>2, <1>3

GoodReady(T, l) == /\ l \in [items : Seq(T), index : Nat]
                /\ Distinct(l.items) /\ l.index <= Len(l.items)

LEMMA ReadyInsertIs ==
    ASSUME NEW T, NEW l, GoodReady(T, l), NEW r \in T, r \notin Elements(l.items)
    PROVE  LET m == vListInsertEnd(l, r)
           IN  GoodReady(T, m) /\ Elements(m.items) = Elements(l.items) \cup {r}
<1> DEFINE s == l.items
           m == vListInsertEnd(l, r)
<1>1. s \in Seq(T) /\ Distinct(s) /\ l.index \in Nat /\ l.index <= Len(s) /\ Len(s) \in Nat
    BY DEF GoodReady
<1>2. CASE l.index = 0
    <2>1. m = [l EXCEPT !.items = Append(l.items, r)]
        BY <1>2 DEF vListInsertEnd
    <2>2. m.items = Append(s, r) /\ m.index = 0 /\ m = [items |-> m.items, index |-> m.index]
        BY <1>2, <2>1 DEF GoodReady
    <2> HIDE DEF m, s
    <2>3. Len(s) + 1 \in 1 .. Len(s) + 1 /\ PutIn(T, s, Len(s) + 1, r, m.items)
        BY <1>1, <2>2, AppendIs
    <2>4. m.items \in Seq(T) /\ Len(m.items) \in Nat
        BY <2>3 DEF PutIn
    <2>5. Distinct(m.items) /\ Elements(m.items) = Elements(s) \cup {r}
        BY <1>1, <2>3, <2>4, PutInList DEF s
    <2> QED BY <2>2, <2>4, <2>5 DEF GoodReady, m, s
<1>3. CASE l.index # 0
    <2>1. m = [items |-> InsertAt(s, l.index, r), index |-> l.index + 1]
        BY <1>3 DEF vListInsertEnd
    <2> DEFINE i == l.index
               t == InsertAt(s, i, r)
    <2>2. i \in 1 .. Len(s) + 1
        BY <1>1, <1>3
    <2> HIDE DEF m, s, i
    <2>3. PutIn(T, s, i, r, t)
        BY <1>1, <2>2, InsertAtIs
    <2> HIDE DEF t
    <2>4. t \in Seq(T) /\ Len(t) = Len(s) + 1
        BY <2>3 DEF PutIn
    <2>5. Distinct(t) /\ Elements(t) = Elements(s) \cup {r}
        BY <1>1, <2>2, <2>3, <2>4, PutInList DEF s
    <2>6. m = [items |-> t, index |-> i + 1] /\ i + 1 \in Nat /\ i + 1 <= Len(t)
        BY <1>1, <2>1, <2>4 DEF t, i
    <2> QED BY <2>4, <2>5, <2>6 DEF GoodReady, m, s
<1> QED BY <1>2, <1>3

LEMMA ReadyRemoveIs ==
    ASSUME NEW T, NEW l, GoodReady(T, l), NEW r
    PROVE  LET m == uxListRemove(l, r)
           IN  /\ GoodReady(T, m) /\ Elements(m.items) = Elements(l.items) \ {r}
               /\ r \notin Elements(l.items) => m = l
<1> DEFINE s == l.items
           m == uxListRemove(l, r)
<1>1. s \in Seq(T) /\ Distinct(s) /\ l.index \in Nat /\ l.index <= Len(s) /\ Len(s) \in Nat
    BY DEF GoodReady
<1>2. CASE r \notin Elements(s)
    BY <1>2 DEF uxListRemove, Contains_, Elements
<1>3. CASE r \in Elements(s)
    <2> DEFINE i == PlaceOf(s, r)
               t == RemoveAt(s, i)
               n == IF i <= l.index THEN l.index - 1 ELSE l.index
    <2>1. i \in 1 .. Len(s) /\ s[i] = r
        BY <1>1, <1>3 DEF PlaceOf, Elements
    <2>2. m = [items |-> t, index |-> n]
        BY <1>3 DEF uxListRemove, Contains_, Elements
    <2> HIDE DEF i, m, s
    <2>3. TakenOut(T, s, i, t)
        BY <1>1, <2>1, RemoveAtIs
    <2> HIDE DEF t
    <2>4. t \in Seq(T) /\ Len(t) = Len(s) - 1
        BY <2>3 DEF TakenOut
    <2>5. Distinct(t) /\ Elements(t) = Elements(s) \ {r}
        BY <1>1, <2>1, <2>3, TakenOutList
    <2>6. n \in Nat /\ n <= Len(t)
        BY <1>1, <2>1, <2>4
    <2> HIDE DEF n
    <2> QED BY <1>3, <2>2, <2>4, <2>5, <2>6 DEF GoodReady, m, s
<1> QED BY <1>2, <1>3

LEMMA ReadyNextIs ==
    ASSUME NEW T, NEW l, GoodReady(T, l), l.items # <<>>
    PROVE  LET m == listGET_OWNER_OF_NEXT_ENTRY(l)
           IN  GoodReady(T, m) /\ m.items = l.items /\ Owner(m) \in Elements(l.items)
<1> DEFINE s == l.items
           m == listGET_OWNER_OF_NEXT_ENTRY(l)
           n == IF l.index < Len(s) THEN l.index + 1 ELSE 1
<1>1. s \in Seq(T) /\ Distinct(s) /\ l.index \in Nat /\ l.index <= Len(s) /\ Len(s) \in Nat /\ Len(s) # 0
    BY DEF GoodReady
<1>2. m = [l EXCEPT !.index = n]
    BY DEF listGET_OWNER_OF_NEXT_ENTRY
<1>3. m.items = s /\ m.index = n /\ m = [items |-> s, index |-> n]
    BY <1>2 DEF GoodReady
<1>4. n \in 1 .. Len(s) /\ n \in Nat /\ n <= Len(s)
    BY <1>1
<1> HIDE DEF n, m
<1> QED BY <1>1, <1>3, <1>4 DEF GoodReady, Owner, Elements, m

=============================================================================
