---------------------------- MODULE Heap_proofs ----------------------------
(***************************************************************************)
(* The blocks of a heap always tile it, and a request is met exactly when  *)
(* it can be: proofs.  Sums over finite sets come first.                   *)
(***************************************************************************)
EXTENDS Heap, Lists_proofs, FiniteSetTheorems

\* Induction over the subsets of a finite set, by one element at a time.
LEMMA SubsetInduction ==
    ASSUME NEW S, IsFiniteSet(S), NEW F, {} \in F,
           \A T \in SUBSET S : T # {} /\ (\A x \in T : T \ {x} \in F) => T \in F
    PROVE  \A T \in SUBSET S : T \in F
<1> DEFINE Sizes == {n \in Nat : \A T \in SUBSET S : Cardinality(T) = n => T \in F}
<1>1. \A T \in SUBSET S : IsFiniteSet(T) /\ Cardinality(T) \in Nat
    BY FS_Subset, FS_CardinalityType
<1>2. 0 \in Sizes
    BY <1>1, FS_EmptySet
<1>3. ASSUME NEW n \in Nat, n \in Sizes, NEW T \in SUBSET S, Cardinality(T) = n + 1 PROVE T \in F
    <2>1. T # {}
        <3>1. n + 1 # 0
            OBVIOUS
        <3> QED BY <1>3, <3>1, FS_EmptySet
    <2>2. ASSUME NEW x \in T PROVE T \ {x} \in F
        <3>1. Cardinality(T \ {x}) = Cardinality(T) - 1
            BY <1>1, FS_RemoveElement
        <3>2. Cardinality(T \ {x}) = n
            BY <1>1, <1>3, <3>1
        <3> QED BY <1>3, <3>2
    <2> QED BY <2>1, <2>2
<1>4. \A n \in Nat : n \in Sizes => n + 1 \in Sizes
    BY <1>3
<1> HIDE DEF Sizes
<1>5. \A n \in Nat : n \in Sizes
    BY <1>2, <1>4, Induction
<1> QED BY <1>1, <1>5 DEF Sizes

-----------------------------------------------------------------------------
(* Sums. *)

\* g adds up f over every subset of S, whatever the order.
Adds(g, f, S) ==
    /\ g \in [SUBSET S -> Int]
    /\ g[{}] = 0
    /\ \A T \in SUBSET S : \A x \in T : g[T] = f[x] + g[T \ {x}]

LEMMA SumsExist ==
    ASSUME NEW S, IsFiniteSet(S), NEW f, \A x \in S : f[x] \in Int
    PROVE  \E g : Adds(g, f, S)
<1> DEFINE F == {R \in SUBSET S : \E g : Adds(g, f, R)}
<1>1. {} \in F
    <2>1. Adds([T \in SUBSET {} |-> 0], f, {})
        BY DEF Adds
    <2> QED BY <2>1
<1>2. ASSUME NEW R \in SUBSET S, NEW y \in S \ R, R \in F PROVE R \cup {y} \in F
    <2>1. PICK g : Adds(g, f, R)
        BY <1>2
    <2> USE DEF Adds
    <2> DEFINE Q == R \cup {y}
               k == [T \in SUBSET Q |-> IF y \in T THEN f[y] + g[T \ {y}] ELSE g[T]]
    <2>2. \A T \in SUBSET Q : T \ {y} \in SUBSET R /\ (y \notin T => T \in SUBSET R)
        OBVIOUS
    <2>3. k \in [SUBSET Q -> Int]
        BY <2>1, <2>2
    <2>4. k[{}] = 0
        BY <2>1
    <2>5. ASSUME NEW T \in SUBSET Q, NEW x \in T PROVE k[T] = f[x] + k[T \ {x}]
        <3>1. CASE x = y
            BY <3>1, <2>5
        <3>2. CASE x # y /\ y \in T
            <4>1. g[T \ {y}] = f[x] + g[(T \ {y}) \ {x}]
                BY <3>2, <2>1, <2>2, <2>5
            <4>2. (T \ {y}) \ {x} = (T \ {x}) \ {y}
                OBVIOUS
            <4>3. k[T] = f[y] + g[T \ {y}] /\ k[T \ {x}] = f[y] + g[(T \ {x}) \ {y}]
                BY <3>2, <2>5
            <4>4. f[x] \in Int /\ f[y] \in Int /\ g[(T \ {x}) \ {y}] \in Int
                BY <3>2, <2>1, <2>2, <2>5
            <4>5. g[T \ {y}] = f[x] + g[(T \ {x}) \ {y}]
                BY <4>1, <4>2
            <4>6. f[y] + (f[x] + g[(T \ {x}) \ {y}]) = f[x] + (f[y] + g[(T \ {x}) \ {y}])
                BY <4>4
            <4> HIDE DEF k
            <4> QED BY <4>3, <4>5, <4>6
        <3>3. CASE y \notin T
            <4>1. T \in SUBSET R /\ y \notin T \ {x}
                BY <3>3, <2>2
            <4> QED BY <3>3, <4>1, <2>1, <2>5
        <3> QED BY <3>1, <3>2, <3>3
    <2>6. Adds(k, f, Q)
        BY <2>3, <2>4, <2>5
    <2>7. \E h : Adds(h, f, Q)
        <3> HIDE DEF k
        <3> QED BY <2>6
    <2>8. Q \in SUBSET S
        OBVIOUS
    <2> QED BY <2>7, <2>8
<1> HIDE DEF F
<1>3. ASSUME NEW R \in SUBSET S, R # {}, \A x \in R : R \ {x} \in F PROVE R \in F
    <2>1. PICK x \in R : TRUE
        BY <1>3
    <2>2. R = (R \ {x}) \cup {x} /\ x \in S \ (R \ {x}) /\ R \ {x} \in SUBSET S
        BY <2>1
    <2>3. R \ {x} \in F
        BY <1>3
    <2>4. (R \ {x}) \cup {x} \in F
        BY <1>2, <2>2, <2>3
    <2> QED BY <2>2, <2>4
<1>5. \A R \in SUBSET S : R \in F
    BY <1>1, <1>3, SubsetInduction
<1>4. S \in F
    BY <1>5
<1> QED BY <1>4 DEF F

\* The fold is that function.
LEMMA SumIs ==
    ASSUME NEW S, IsFiniteSet(S), NEW f, \A x \in S : f[x] \in Int,
           NEW g, Adds(g, f, S), NEW U \in SUBSET S
    PROVE  SumOf(f, U) = g[U]
<1> USE DEF Adds
<1> DEFINE Body(h) == [s \in SUBSET U |-> IF s = {} THEN 0 ELSE LET x == CHOOSE x \in s : TRUE
                                                                 IN  f[x] + h[s \ {x}]]
           it == CHOOSE h : h = Body(h)
           k  == [s \in SUBSET U |-> g[s]]
<1>1. SumOf(f, U) = it[U]
    BY DEF SumOf, MapThenSumSet, MapThenFoldSet
<1>2. k = Body(k)
    <2>1. ASSUME NEW s \in SUBSET U, s # {} PROVE g[s] = f[CHOOSE x \in s : TRUE] + k[s \ {CHOOSE x \in s : TRUE}]
        BY <2>1
    <2> QED BY <2>1
<1>3. it = Body(it)
    BY <1>2
<1> HIDE DEF it
<1>4. IsFiniteSet(U)
    BY FS_Subset
<1> DEFINE F == {s \in SUBSET U : it[s] = g[s]}
<1>5. {} \in F
    BY <1>3
<1>6. ASSUME NEW s \in SUBSET U, s # {}, \A x \in s : s \ {x} \in F PROVE s \in F
    <2> USE DEF F
    <2> DEFINE x == CHOOSE x \in s : TRUE
    <2>1. x \in s
        BY <1>6
    <2>2. it[s] = f[x] + it[s \ {x}]
        BY <1>3, <1>6
    <2> HIDE DEF x
    <2>3. it[s \ {x}] = g[s \ {x}] /\ g[s] = f[x] + g[s \ {x}]
        BY <1>6, <2>1
    <2> QED BY <2>2, <2>3
<1> HIDE DEF F
<1>7. \A s \in SUBSET U : s \in F
    BY <1>4, <1>5, <1>6, SubsetInduction
<1>8. U \in F
    BY <1>7
<1> QED BY <1>1, <1>8 DEF F

\* A sum, by any of its elements.
LEMMA SumRemove ==
    ASSUME NEW S, IsFiniteSet(S), NEW f, \A x \in S : f[x] \in Int
    PROVE  /\ SumOf(f, S) \in Int
           /\ SumOf(f, {}) = 0
           /\ \A x \in S : SumOf(f, S) = f[x] + SumOf(f, S \ {x})
<1>1. PICK g : Adds(g, f, S)
    BY SumsExist
<1>2. \A T \in SUBSET S : SumOf(f, T) = g[T]
    BY <1>1, SumIs
<1>3. SumOf(f, S) = g[S] /\ SumOf(f, {}) = g[{}] /\ \A x \in S : SumOf(f, S \ {x}) = g[S \ {x}]
    BY <1>2
<1> QED BY <1>1, <1>3 DEF Adds

\* It depends on the values over the set alone, and is as large as any of
\* them when none is negative.
LEMMA SumAgree ==
    ASSUME NEW S, IsFiniteSet(S), NEW f, NEW g, \A x \in S : f[x] \in Int /\ f[x] = g[x]
    PROVE  SumOf(f, S) = SumOf(g, S)
<1> DEFINE F == {T \in SUBSET S : SumOf(f, T) = SumOf(g, T)}
<1>1. \A T \in SUBSET S : IsFiniteSet(T)
    BY FS_Subset
<1>2. {} \in F
    <2>1. SumOf(f, {}) = 0 /\ SumOf(g, {}) = 0
        BY SumRemove
    <2> QED BY <2>1
<1>3. ASSUME NEW T \in SUBSET S, T # {}, \A x \in T : T \ {x} \in F PROVE T \in F
    <2>1. PICK x \in T : TRUE
        BY <1>3
    <2>2. SumOf(f, T) = f[x] + SumOf(f, T \ {x})
        BY <1>1, SumRemove
    <2>3. SumOf(g, T) = g[x] + SumOf(g, T \ {x})
        BY <1>1, SumRemove
    <2>4. SumOf(f, T \ {x}) = SumOf(g, T \ {x})
        BY <1>3
    <2>5. f[x] = g[x]
        OBVIOUS
    <2> QED BY <2>2, <2>3, <2>4, <2>5
<1> HIDE DEF F
<1>4. \A T \in SUBSET S : T \in F
    BY <1>2, <1>3, SubsetInduction
<1>5. S \in F
    BY <1>4
<1> QED BY <1>5 DEF F

LEMMA SumBounds ==
    ASSUME NEW S, IsFiniteSet(S), NEW f, \A x \in S : f[x] \in Nat
    PROVE  SumOf(f, S) \in Nat /\ \A x \in S : f[x] <= SumOf(f, S)
<1> DEFINE F == {T \in SUBSET S : SumOf(f, T) \in Nat}
<1>1. \A T \in SUBSET S : IsFiniteSet(T) /\ \A x \in T : f[x] \in Int
    BY FS_Subset
<1>2. {} \in F
    <2>1. SumOf(f, {}) = 0
        BY SumRemove
    <2> QED BY <2>1
<1>3. ASSUME NEW T \in SUBSET S, T # {}, \A x \in T : T \ {x} \in F PROVE T \in F
    <2>1. PICK x \in T : TRUE
        BY <1>3
    <2>2. SumOf(f, T) = f[x] + SumOf(f, T \ {x})
        BY <1>1, SumRemove
    <2>3. SumOf(f, T \ {x}) \in Nat /\ f[x] \in Nat
        BY <1>3
    <2> QED BY <2>2, <2>3
<1> HIDE DEF F
<1>4. \A T \in SUBSET S : T \in F
    BY <1>2, <1>3, SubsetInduction
<1>5. SumOf(f, S) \in Nat
    BY <1>4 DEF F
<1>6. ASSUME NEW x \in S PROVE f[x] <= SumOf(f, S)
    <2>1. SumOf(f, S) = f[x] + SumOf(f, S \ {x})
        BY SumRemove
    <2>2. SumOf(f, S \ {x}) \in Nat /\ f[x] \in Nat
        BY <1>4 DEF F
    <2> QED BY <2>1, <2>2
<1> QED BY <1>5, <1>6

\* What two elements bring may be brought by one of them.
LEMMA SumJoin ==
    ASSUME NEW S, IsFiniteSet(S), NEW a \in S, NEW c \in S, a # c,
           NEW f, \A x \in S : f[x] \in Int,
           NEW g, g[a] = f[a] + f[c], \A x \in S \ {a, c} : g[x] = f[x]
    PROVE  SumOf(g, S \ {c}) = SumOf(f, S)
<1> DEFINE V == (S \ {c}) \ {a}
<1>1. IsFiniteSet(S \ {c}) /\ IsFiniteSet(V)
    BY FS_RemoveElement
<1>2. a \in S \ {c} /\ V \subseteq S /\ V = S \ {a, c}
    OBVIOUS
<1>3. SumOf(f, S) = f[c] + SumOf(f, S \ {c})
    BY SumRemove
<1>4. SumOf(f, S \ {c}) = f[a] + SumOf(f, V)
    BY <1>1, <1>2, SumRemove
<1>5. \A x \in S \ {c} : g[x] \in Int
    BY <1>2
<1>6. SumOf(g, S \ {c}) = g[a] + SumOf(g, V)
    BY <1>1, <1>2, <1>5, SumRemove
<1>7. SumOf(f, V) = SumOf(g, V)
    <2>1. \A x \in V : f[x] \in Int /\ f[x] = g[x]
        BY <1>2
    <2> QED BY <1>1, <2>1, SumAgree
<1>8. SumOf(f, V) \in Int /\ f[a] \in Int /\ f[c] \in Int
    <2>1. \A x \in V : f[x] \in Int
        BY <1>2
    <2> QED BY <1>1, <2>1, SumRemove
<1> HIDE DEF V
<1> QED BY <1>3, <1>4, <1>6, <1>7, <1>8

-----------------------------------------------------------------------------
(* Tilings.  sz gives each block its size. *)

Within(sz, r) == {b \in DOMAIN sz : r[1] <= b /\ b < r[2]}

\* No block reaches into the next, or over the end of a region or into the
\* first block of one; the blocks of a region add up to it.  Where a region
\* ends there is at most a marker.
Tiled(sz, R) ==
    /\ IsFiniteSet(DOMAIN sz) /\ sz \in [DOMAIN sz -> Nat] /\ DOMAIN sz \subseteq Nat
    /\ \A a, b \in DOMAIN sz : a < b => a + sz[a] <= b
    /\ \A r \in R :
        /\ r[1] \in Nat /\ r[2] \in Nat
        /\ \A b \in DOMAIN sz : b < r[1] => b + sz[b] < r[1]
        /\ \A b \in DOMAIN sz : b < r[2] => b + sz[b] <= r[2]
        /\ r[2] \in DOMAIN sz => sz[r[2]] = 0
        /\ SumOf(sz, Within(sz, r)) = r[2] - r[1]

Joined(sz, a, c)  == [x \in DOMAIN sz \ {c} |-> IF x = a THEN sz[a] + sz[c] ELSE sz[x]]
Divided(sz, b, n) == [x \in DOMAIN sz \cup {b + n} |->
                        IF x = b THEN n ELSE IF x = b + n THEN sz[b] - n ELSE sz[x]]

LEMMA JoinTiles ==
    ASSUME NEW sz, NEW R, Tiled(sz, R),
           NEW a \in DOMAIN sz, NEW c \in DOMAIN sz, a # c, a + sz[a] = c
    PROVE  Tiled(Joined(sz, a, c), R)
<1> DEFINE D == DOMAIN sz
           to == Joined(sz, a, c)
<1>1. DOMAIN to = D \ {c} /\ to[a] = sz[a] + sz[c] /\ \A x \in D \ {a, c} : to[x] = sz[x]
    BY DEF Joined
<1>2. \A x \in D : x \in Nat /\ sz[x] \in Nat
    BY DEF Tiled
<1>3. a < c
    BY <1>2
<1>4. \A x \in D \ {c} : to[x] \in Nat
    BY <1>1, <1>2
<1>5. to \in [D \ {c} -> Nat]
    BY <1>1, <1>4 DEF Joined
<1>6. IsFiniteSet(D \ {c})
    BY FS_RemoveElement DEF Tiled
<1> HIDE DEF to
<1>7. ASSUME NEW x \in D \ {c}, NEW y \in D \ {c}, x < y PROVE x + to[x] <= y
    <2>1. CASE x = a
        <3>1. a + sz[a] <= y
            BY <1>7, <2>1 DEF Tiled
        <3>2. c < y
            BY <1>2, <1>7, <3>1
        <3>3. c + sz[c] <= y
            BY <1>7, <3>2 DEF Tiled
        <3> QED BY <1>1, <1>2, <2>1, <3>3
    <2>2. CASE x # a
        BY <1>1, <1>7, <2>2 DEF Tiled
    <2> QED BY <2>1, <2>2
<1>8. ASSUME NEW r \in R
      PROVE  /\ r[1] \in Nat /\ r[2] \in Nat
             /\ \A b \in D \ {c} : b < r[1] => b + to[b] < r[1]
             /\ \A b \in D \ {c} : b < r[2] => b + to[b] <= r[2]
             /\ r[2] \in D \ {c} => to[r[2]] = 0
             /\ SumOf(to, Within(to, r)) = r[2] - r[1]
    <2>1. r[1] \in Nat /\ r[2] \in Nat
        BY DEF Tiled
    <2>2. ASSUME NEW b \in D \ {c}, b < r[1] PROVE b + to[b] < r[1]
        <3>1. CASE b = a
            <4>1. c < r[1]
                BY <2>2, <3>1 DEF Tiled
            <4>2. c + sz[c] < r[1]
                BY <4>1 DEF Tiled
            <4> QED BY <1>1, <1>2, <3>1, <4>2
        <3>2. CASE b # a
            BY <1>1, <2>2, <3>2 DEF Tiled
        <3> QED BY <3>1, <3>2
    <2>3. a < r[2] => c + sz[c] <= r[2]
        <3>1. SUFFICES ASSUME a < r[2] PROVE c + sz[c] <= r[2]
            OBVIOUS
        <3>2. c <= r[2]
            BY <3>1 DEF Tiled
        <3>3. CASE c < r[2]
            BY <3>3 DEF Tiled
        <3>4. CASE c = r[2]
            <4>1. sz[c] = 0
                BY <3>4 DEF Tiled
            <4> QED BY <4>1, <3>4, <2>1
        <3> QED BY <1>2, <2>1, <3>2, <3>3, <3>4
    <2>4. ASSUME NEW b \in D \ {c}, b < r[2] PROVE b + to[b] <= r[2]
        <3>1. CASE b = a
            BY <1>1, <1>2, <2>1, <2>3, <2>4, <3>1
        <3>2. CASE b # a
            BY <1>1, <2>4, <3>2 DEF Tiled
        <3> QED BY <3>1, <3>2
    <2>5. ASSUME r[2] \in D \ {c} PROVE to[r[2]] = 0
        <3>1. sz[r[2]] = 0
            BY <2>5 DEF Tiled
        <3>2. r[2] # a
            BY <1>2, <1>3, <3>1, <2>1
        <3> QED BY <1>1, <2>5, <3>1, <3>2
    <2>6. SumOf(to, Within(to, r)) = r[2] - r[1]
        <3> DEFINE W == Within(sz, r)
        <3>1. SumOf(sz, W) = r[2] - r[1] /\ IsFiniteSet(W)
            BY FS_Subset DEF Tiled, Within
        <3>2. Within(to, r) = W \ {c}
            BY <1>1 DEF Within
        <3>3. \A x \in W : x \in D /\ sz[x] \in Int
            BY <1>2 DEF Within
        <3>4. CASE a \in W /\ c \in W
            <4>1. \A x \in W \ {a, c} : to[x] = sz[x]
                BY <1>1, <3>3
            <4>2. to[a] = sz[a] + sz[c]
                BY <1>1
            <4> HIDE DEF W
            <4>3. SumOf(to, W \ {c}) = SumOf(sz, W)
                BY <3>1, <3>3, <3>4, <4>1, <4>2, SumJoin
            <4> QED BY <3>1, <3>2, <4>3
        <3>5. CASE a \in W /\ c \notin W
            <4>1. a < r[2] /\ r[1] <= a
                BY <3>5 DEF Within
            <4>2. c = r[2]
                <5>1. c <= r[2]
                    BY <4>1 DEF Tiled
                <5>2. ~(c < r[2])
                    BY <1>2, <1>3, <2>1, <3>5, <4>1 DEF Within
                <5> QED BY <1>2, <2>1, <5>1, <5>2
            <4>3. sz[c] = 0
                BY <4>2 DEF Tiled
            <4>4. \A x \in W : sz[x] \in Int /\ sz[x] = to[x]
                BY <1>1, <1>2, <3>3, <3>5, <4>3
            <4>5. W \ {c} = W
                BY <3>5
            <4> HIDE DEF W
            <4>6. SumOf(sz, W) = SumOf(to, W)
                BY <3>1, <4>4, SumAgree
            <4> QED BY <3>1, <3>2, <4>5, <4>6
        <3>6. CASE a \notin W
            <4>1. c \notin W
                <5>1. CASE a < r[1]
                    <6>1. a + sz[a] < r[1]
                        BY <5>1 DEF Tiled
                    <6> QED BY <1>2, <2>1, <6>1 DEF Within
                <5>2. CASE a >= r[2]
                    BY <1>2, <1>3, <2>1, <5>2 DEF Within
                <5> QED BY <1>2, <2>1, <3>6, <5>1, <5>2 DEF Within
            <4>2. \A x \in W : sz[x] \in Int /\ sz[x] = to[x]
                BY <1>1, <3>3, <3>6, <4>1
            <4>3. W \ {c} = W
                BY <4>1
            <4> HIDE DEF W
            <4>4. SumOf(sz, W) = SumOf(to, W)
                BY <3>1, <4>2, SumAgree
            <4> QED BY <3>1, <3>2, <4>3, <4>4
        <3> QED BY <3>4, <3>5, <3>6
    <2> QED BY <2>1, <2>2, <2>4, <2>5, <2>6
<1>9. DOMAIN to = D \ {c}
    BY <1>1
<1>10. D \ {c} \subseteq Nat
    BY <1>2
<1> HIDE DEF D
<1>11. Tiled(to, R)
    BY <1>5, <1>6, <1>7, <1>8, <1>9, <1>10 DEF Tiled
<1> QED BY <1>11 DEF to

LEMMA DivideTiles ==
    ASSUME NEW sz, NEW R, Tiled(sz, R), NEW b \in DOMAIN sz, NEW n \in Nat, 0 < n, n < sz[b]
    PROVE  b + n \notin DOMAIN sz /\ Tiled(Divided(sz, b, n), R)
<1> DEFINE D == DOMAIN sz
           d == b + n
           to == Divided(sz, b, n)
<1>1. \A x \in D : x \in Nat /\ sz[x] \in Nat
    BY DEF Tiled
<1>2. d \notin D
    <2>1. SUFFICES ASSUME d \in D PROVE FALSE
        OBVIOUS
    <2>2. b < d
        BY <1>1
    <2>3. b + sz[b] <= d
        BY <2>1, <2>2 DEF Tiled
    <2> QED BY <1>1, <2>3
<1>3. /\ DOMAIN to = D \cup {d} /\ to[b] = n /\ to[d] = sz[b] - n /\ d \in Nat
      /\ \A x \in D \ {b} : to[x] = sz[x]
    BY <1>1, <1>2 DEF Divided
<1>4. \A x \in D \cup {d} : to[x] \in Nat /\ x \in Nat
    <2>1. to[b] \in Nat /\ to[d] \in Nat
        BY <1>1, <1>3
    <2> QED BY <1>1, <1>3, <2>1
<1>5. to \in [D \cup {d} -> Nat]
    BY <1>3, <1>4 DEF Divided
<1>6. IsFiniteSet(D \cup {d})
    BY FS_AddElement DEF Tiled
<1> HIDE DEF to
<1>7. ASSUME NEW x \in D \cup {d}, NEW y \in D \cup {d}, x < y PROVE x + to[x] <= y
    <2>1. CASE x = d
        <3>1. y \in D /\ b < y
            BY <1>1, <1>7, <2>1
        <3>2. b + sz[b] <= y
            BY <3>1 DEF Tiled
        <3> QED BY <1>1, <1>3, <2>1, <3>1, <3>2
    <2>2. CASE x = b
        <3>1. CASE y = d
            BY <1>3, <2>2, <3>1
        <3>2. CASE y # d
            <4>1. b + sz[b] <= y
                BY <1>7, <2>2, <3>2 DEF Tiled
            <4> QED BY <1>1, <1>3, <1>4, <2>2, <4>1
        <3> QED BY <3>1, <3>2
    <2>3. CASE x \in D \ {b}
        <3>1. CASE y = d
            <4>1. x < b
                <5>1. SUFFICES ASSUME b < x PROVE FALSE
                    BY <1>1, <2>3
                <5>2. b + sz[b] <= x
                    BY <2>3, <5>1 DEF Tiled
                <5> QED BY <1>1, <1>7, <3>1, <5>2, <2>3
            <4>2. x + sz[x] <= b
                BY <2>3, <4>1 DEF Tiled
            <4> QED BY <1>1, <1>3, <2>3, <3>1, <4>2
        <3>2. CASE y # d
            BY <1>3, <1>7, <2>3, <3>2 DEF Tiled
        <3> QED BY <3>1, <3>2
    <2> QED BY <2>1, <2>2, <2>3
<1>8. ASSUME NEW r \in R
      PROVE  /\ r[1] \in Nat /\ r[2] \in Nat
             /\ \A x \in D \cup {d} : x < r[1] => x + to[x] < r[1]
             /\ \A x \in D \cup {d} : x < r[2] => x + to[x] <= r[2]
             /\ r[2] \in D \cup {d} => to[r[2]] = 0
             /\ SumOf(to, Within(to, r)) = r[2] - r[1]
    <2>1. r[1] \in Nat /\ r[2] \in Nat
        BY DEF Tiled
    <2>2. (b < r[1] => b + sz[b] < r[1]) /\ (b < r[2] => b + sz[b] <= r[2])
        BY DEF Tiled
    <2>3. ASSUME NEW x \in D \cup {d}, x < r[1] PROVE x + to[x] < r[1]
        <3>1. CASE x \in D \ {b}
            BY <1>3, <2>3, <3>1 DEF Tiled
        <3>2. CASE x \in {b, d}
            BY <1>1, <1>3, <2>1, <2>2, <2>3, <3>2
        <3> QED BY <3>1, <3>2
    <2>4. ASSUME NEW x \in D \cup {d}, x < r[2] PROVE x + to[x] <= r[2]
        <3>1. CASE x \in D \ {b}
            BY <1>3, <2>4, <3>1 DEF Tiled
        <3>2. CASE x \in {b, d}
            BY <1>1, <1>3, <2>1, <2>2, <2>4, <3>2
        <3> QED BY <3>1, <3>2
    <2>5. ASSUME r[2] \in D \cup {d} PROVE to[r[2]] = 0
        <3>1. CASE r[2] = d
            BY <1>1, <2>1, <2>2, <3>1
        <3>2. CASE r[2] # d
            <4>1. sz[r[2]] = 0
                BY <2>5, <3>2 DEF Tiled
            <4>2. r[2] # b
                BY <1>1, <4>1
            <4> QED BY <1>3, <2>5, <3>2, <4>1, <4>2
        <3> QED BY <3>1, <3>2
    <2>6. SumOf(to, Within(to, r)) = r[2] - r[1]
        <3> DEFINE W == Within(sz, r)
        <3>1. SumOf(sz, W) = r[2] - r[1] /\ IsFiniteSet(W)
            BY FS_Subset DEF Tiled, Within
        <3>2. b \in W <=> d \in Within(to, r)
            BY <1>1, <1>3, <2>1, <2>2 DEF Within
        <3>3. Within(to, r) = IF b \in W THEN W \cup {d} ELSE W
            BY <1>3, <3>2 DEF Within
        <3>4. \A x \in W : x \in D /\ sz[x] \in Int
            BY <1>1 DEF Within
        <3>5. CASE b \in W
            <4> DEFINE V == W \cup {d}
            <4>1. IsFiniteSet(V) /\ V \ {d} = W /\ b \in V /\ d \in V /\ b # d
                BY <1>1, <1>2, <3>1, <3>4, <3>5, FS_AddElement
            <4>2. \A x \in V : to[x] \in Int
                BY <1>4, <3>4
            <4>3. sz[b] = to[b] + to[d]
                BY <1>1, <1>3
            <4>4. \A x \in V \ {b, d} : sz[x] = to[x]
                BY <1>3, <3>4
            <4> HIDE DEF V, W
            <4>5. SumOf(sz, V \ {d}) = SumOf(to, V)
                BY <4>1, <4>2, <4>3, <4>4, SumJoin
            <4> QED BY <3>1, <3>3, <3>5, <4>1, <4>5 DEF V
        <3>6. CASE b \notin W
            <4>1. \A x \in W : sz[x] \in Int /\ sz[x] = to[x]
                BY <1>3, <3>4, <3>6
            <4> HIDE DEF W
            <4>2. SumOf(sz, W) = SumOf(to, W)
                BY <3>1, <4>1, SumAgree
            <4> QED BY <3>1, <3>3, <3>6, <4>2
        <3> QED BY <3>5, <3>6
    <2> QED BY <2>1, <2>3, <2>4, <2>5, <2>6
<1>9. DOMAIN to = D \cup {d} /\ D \cup {d} \subseteq Nat
    BY <1>1, <1>3
<1> HIDE DEF D
<1>10. Tiled(to, R)
    BY <1>5, <1>6, <1>7, <1>8, <1>9 DEF Tiled
<1> QED BY <1>2, <1>10 DEF to, D

-----------------------------------------------------------------------------
(* Alignment. *)

Aligned(a) == a % portBYTE_ALIGNMENT = 0

LEMMA Alignment ==
    ASSUME NEW a \in Int
    PROVE  /\ AlignDown(a) \in Int /\ AlignUp(a) \in Int
           /\ Aligned(AlignDown(a)) /\ Aligned(AlignUp(a))
           /\ a - portBYTE_ALIGNMENT < AlignDown(a) /\ AlignDown(a) <= a
           /\ a <= AlignUp(a) /\ AlignUp(a) < a + portBYTE_ALIGNMENT
           /\ Aligned(a) <=> \E k \in Int : a = k * portBYTE_ALIGNMENT
<1> DEFINE N == portBYTE_ALIGNMENT
<1>1. N \in Nat \ {0}
    BY HeapAssumption
<1> HIDE DEF N
<1>2. ASSUME NEW x \in Int
      PROVE  /\ x \div N \in Int /\ x % N \in 0 .. N - 1 /\ x = (x \div N) * N + (x % N)
             /\ x - (x % N) = (x \div N) * N /\ (x \div N) * N \in Int
    BY <1>1
<1>3. ASSUME NEW k \in Int PROVE (k * N) % N = 0
    <2>1. (k * N + 0) % N = 0
        BY <1>1
    <2>2. k * N \in Int
        BY <1>1
    <2> QED BY <2>1, <2>2
<1>4. \A x \in Int : x - (x % N) \in Int /\ (x - (x % N)) % N = 0 /\ x - N < x - (x % N) /\ x - (x % N) <= x
    <2> SUFFICES ASSUME NEW x \in Int
                 PROVE  x - (x % N) \in Int /\ (x - (x % N)) % N = 0 /\ x - N < x - (x % N) /\ x - (x % N) <= x
        OBVIOUS
    <2>1. (x - (x % N)) % N = 0
        BY <1>2, <1>3
    <2>2. x % N \in Int /\ x % N < N /\ 0 <= x % N
        BY <1>1, <1>2
    <2> QED BY <1>1, <2>1, <2>2
<1>5. a % N = 0 <=> \E k \in Int : a = k * N
    <2>1. ASSUME a % N = 0 PROVE \E k \in Int : a = k * N
        <3>1. a = (a \div N) * N + 0
            BY <1>2, <2>1
        <3>2. a = (a \div N) * N
            BY <1>2, <3>1
        <3> QED BY <1>2, <3>2
    <2>2. ASSUME NEW k \in Int, a = k * N PROVE a % N = 0
        BY <1>3, <2>2
    <2> QED BY <2>1, <2>2
<1>6. a + N - 1 \in Int
    BY <1>1
<1>7. /\ AlignDown(a) \in Int /\ Aligned(AlignDown(a))
      /\ a - N < AlignDown(a) /\ AlignDown(a) <= a
    BY <1>4 DEF AlignDown, Aligned, N
<1>8. /\ AlignUp(a) \in Int /\ Aligned(AlignUp(a))
      /\ (a + N - 1) - N < AlignUp(a) /\ AlignUp(a) <= a + N - 1
    BY <1>4, <1>6 DEF AlignDown, AlignUp, Aligned, N
<1>9. a <= AlignUp(a) /\ AlignUp(a) < a + N
    BY <1>1, <1>8
<1> QED BY <1>5, <1>7, <1>8, <1>9 DEF Aligned, N

LEMMA AlignedSum ==
    ASSUME NEW a \in Int, NEW b \in Int, Aligned(a), Aligned(b)
    PROVE  Aligned(a + b) /\ Aligned(a - b)
<1> DEFINE N == portBYTE_ALIGNMENT
<1>1. N \in Nat \ {0}
    BY HeapAssumption
<1>2. PICK k \in Int : a = k * N
    BY Alignment
<1>3. PICK m \in Int : b = m * N
    BY Alignment
<1> HIDE DEF N
<1>4. k * N + m * N = (k + m) * N /\ k * N - m * N = (k - m) * N
    BY <1>1
<1>5. a + b = (k + m) * N /\ a - b = (k - m) * N /\ k + m \in Int /\ k - m \in Int
    BY <1>2, <1>3, <1>4
<1>6. a + b \in Int /\ a - b \in Int
    OBVIOUS
<1> QED BY <1>5, <1>6, Alignment DEF N

-----------------------------------------------------------------------------
(* The books.  Of the blocks of sz those of U are loose, free or just      *)
(* about to be; those of T are in use, and w is what was asked for them; x *)
(* bytes are free; E is the last end marker.                               *)

\* A block of so many bytes has room for a request of n, or its size wraps.
Room(size, n) == size >= n + xHeapStructSize \/ Wraps(n)

Ledger(sz, U, T, E, R, x, w) ==
    /\ Tiled(sz, R)
    /\ U \subseteq DOMAIN sz /\ T \subseteq DOMAIN sz /\ U \cap T = {}
    /\ DOMAIN sz \subseteq U \cup T \cup {E}
    /\ \A r \in R : E \in Nat => E >= r[2]
    /\ \A b \in DOMAIN sz : Aligned(b)
    /\ x = SumOf(sz, U)
    /\ T \subseteq DOMAIN w
    /\ \A b \in T : w[b] \in Nat /\ Room(sz[b], w[b])

LEMMA LedgerFinite ==
    ASSUME NEW sz, NEW U, NEW T, NEW E, NEW R, NEW x, NEW w, Ledger(sz, U, T, E, R, x, w)
    PROVE  /\ IsFiniteSet(U) /\ x \in Nat
           /\ \A b \in DOMAIN sz : b \in Nat /\ sz[b] \in Nat
           /\ \A b \in U : b \in DOMAIN sz /\ sz[b] \in Nat /\ sz[b] \in Int /\ sz[b] <= x
<1>1. IsFiniteSet(U)
    BY FS_Subset DEF Ledger, Tiled
<1>2. \A b \in DOMAIN sz : b \in Nat /\ sz[b] \in Nat
    BY DEF Ledger, Tiled
<1>3. \A b \in U : b \in DOMAIN sz /\ sz[b] \in Nat /\ sz[b] \in Int
    BY <1>2 DEF Ledger
<1>4. SumOf(sz, U) \in Nat /\ \A b \in U : sz[b] <= SumOf(sz, U)
    BY <1>1, <1>3, SumBounds
<1> QED BY <1>1, <1>2, <1>3, <1>4 DEF Ledger

LEMMA JoinLedger ==
    ASSUME NEW sz, NEW U, NEW T, NEW E, NEW R, NEW x, NEW w, Ledger(sz, U, T, E, R, x, w),
           NEW a \in U, NEW c \in U, a # c, a + sz[a] = c
    PROVE  Ledger(Joined(sz, a, c), U \ {c}, T, E, R, x, w)
<1> DEFINE to == Joined(sz, a, c)
<1>1. a \in DOMAIN sz /\ c \in DOMAIN sz
    BY DEF Ledger
<1>2. Tiled(to, R)
    BY <1>1, JoinTiles DEF Ledger
<1>3. DOMAIN to = DOMAIN sz \ {c} /\ to[a] = sz[a] + sz[c] /\ \A b \in DOMAIN sz \ {a, c} : to[b] = sz[b]
    BY <1>1 DEF Joined
<1>4. IsFiniteSet(U) /\ \A b \in U : sz[b] \in Int
    BY LedgerFinite
<1> HIDE DEF to
<1>5. \A b \in U \ {a, c} : to[b] = sz[b]
    BY <1>3 DEF Ledger
<1>6. SumOf(to, U \ {c}) = SumOf(sz, U)
    BY <1>3, <1>4, <1>5, SumJoin
<1>7. U \ {c} \subseteq DOMAIN to /\ T \subseteq DOMAIN to /\ (U \ {c}) \cap T = {}
      /\ DOMAIN to \subseteq (U \ {c}) \cup T \cup {E}
    BY <1>3 DEF Ledger
<1>8. \A b \in T : to[b] = sz[b]
    BY <1>3 DEF Ledger
<1>9. \A b \in DOMAIN to : Aligned(b)
    BY <1>3 DEF Ledger
<1>10. Ledger(to, U \ {c}, T, E, R, x, w)
    BY <1>2, <1>6, <1>7, <1>8, <1>9 DEF Ledger
<1> QED BY <1>10 DEF to

LEMMA DivideLedger ==
    ASSUME NEW sz, NEW U, NEW T, NEW E, NEW R, NEW x, NEW w, Ledger(sz, U, T, E, R, x, w),
           NEW b \in U, NEW n \in Nat, 0 < n, n < sz[b], Aligned(n)
    PROVE  b + n \notin DOMAIN sz /\ Ledger(Divided(sz, b, n), U \cup {b + n}, T, E, R, x, w)
<1> DEFINE d == b + n
           to == Divided(sz, b, n)
           V == U \cup {d}
<1>1. b \in DOMAIN sz /\ b \in Nat /\ sz[b] \in Nat
    BY LedgerFinite
<1>2. d \notin DOMAIN sz /\ Tiled(to, R)
    BY <1>1, DivideTiles DEF Ledger
<1>3. /\ DOMAIN to = DOMAIN sz \cup {d} /\ to[b] = n /\ to[d] = sz[b] - n /\ sz[b] = to[b] + to[d]
      /\ \A y \in DOMAIN sz \ {b} : to[y] = sz[y]
    BY <1>1, <1>2 DEF Divided
<1>4. IsFiniteSet(U) /\ IsFiniteSet(V) /\ \A y \in U : sz[y] \in Int
    BY LedgerFinite, FS_AddElement
<1>5. V \ {d} = U /\ b \in V /\ d \in V /\ b # d
    BY <1>1, <1>2 DEF Ledger
<1> HIDE DEF to, d
<1>6. \A y \in V \ {b, d} : sz[y] = to[y]
    BY <1>3 DEF Ledger
<1>7. \A y \in V : to[y] \in Int
    BY <1>1, <1>3, <1>4, <1>6
<1>8. SumOf(sz, U) = SumOf(to, V)
    <2>1. SumOf(sz, V \ {d}) = SumOf(to, V)
        <3> HIDE DEF V
        <3> QED BY <1>3, <1>4, <1>5, <1>6, <1>7, SumJoin
    <2> QED BY <1>5, <2>1
<1>9. V \subseteq DOMAIN to /\ T \subseteq DOMAIN to /\ V \cap T = {}
      /\ DOMAIN to \subseteq V \cup T \cup {E}
    BY <1>2, <1>3 DEF Ledger
<1>10. \A y \in T : to[y] = sz[y]
    BY <1>3 DEF Ledger
<1>11. \A y \in DOMAIN to : Aligned(y)
    <2>1. Aligned(d)
        BY <1>1, AlignedSum DEF Ledger, d
    <2> QED BY <1>3, <2>1 DEF Ledger
<1>12. Ledger(to, V, T, E, R, x, w)
    <2> HIDE DEF V
    <2> QED BY <1>2, <1>8, <1>9, <1>10, <1>11 DEF Ledger
<1> QED BY <1>2, <1>12 DEF to, d

LEMMA TakeLedger ==
    ASSUME NEW sz, NEW U, NEW T, NEW E, NEW R, NEW x, NEW w, Ledger(sz, U, T, E, R, x, w),
           NEW b \in U, NEW n \in Nat, Room(sz[b], n)
    PROVE  Ledger(sz, U \ {b}, T \cup {b}, E, R, x - sz[b], With(w, b, n))
<1> DEFINE v == With(w, b, n)
<1>1. DOMAIN v = DOMAIN w \cup {b} /\ v[b] = n /\ \A y \in DOMAIN w \ {b} : v[y] = w[y]
    BY DEF With
<1>2. IsFiniteSet(U) /\ IsFiniteSet(U \ {b}) /\ sz[b] \in Int /\ \A y \in U : sz[y] \in Int
    BY LedgerFinite, FS_RemoveElement
<1>3. SumOf(sz, U) = sz[b] + SumOf(sz, U \ {b}) /\ SumOf(sz, U \ {b}) \in Int
    BY <1>2, SumRemove
<1>4. x - sz[b] = SumOf(sz, U \ {b})
    BY <1>2, <1>3 DEF Ledger
<1> HIDE DEF v
<1>5. T \cup {b} \subseteq DOMAIN v
    BY <1>1 DEF Ledger
<1>6. \A y \in T \cup {b} : v[y] \in Nat /\ Room(sz[y], v[y])
    BY <1>1 DEF Ledger
<1>7. /\ U \ {b} \subseteq DOMAIN sz /\ T \cup {b} \subseteq DOMAIN sz
      /\ (U \ {b}) \cap (T \cup {b}) = {} /\ DOMAIN sz \subseteq (U \ {b}) \cup (T \cup {b}) \cup {E}
    BY DEF Ledger
<1>8. Ledger(sz, U \ {b}, T \cup {b}, E, R, x - sz[b], v)
    BY <1>4, <1>5, <1>6, <1>7 DEF Ledger
<1> QED BY <1>8 DEF v

LEMMA ReleaseLedger ==
    ASSUME NEW sz, NEW U, NEW T, NEW E, NEW R, NEW x, NEW w, Ledger(sz, U, T, E, R, x, w),
           NEW b \in T
    PROVE  Ledger(sz, U \cup {b}, T \ {b}, E, R, x + sz[b], Drop(w, b))
<1> DEFINE V == U \cup {b}
<1>1. DOMAIN Drop(w, b) = DOMAIN w \ {b} /\ \A y \in DOMAIN w \ {b} : Drop(w, b)[y] = w[y]
    BY DEF Drop
<1>2. IsFiniteSet(V) /\ sz[b] \in Int /\ \A y \in V : sz[y] \in Int
    <2>1. b \in DOMAIN sz
        BY DEF Ledger
    <2> QED BY <2>1, LedgerFinite, FS_AddElement
<1>3. b \in V /\ V \ {b} = U
    BY DEF Ledger
<1>4. SumOf(sz, V) = sz[b] + SumOf(sz, V \ {b})
    <2> HIDE DEF V
    <2> QED BY <1>2, <1>3, SumRemove
<1>5. x + sz[b] = SumOf(sz, V)
    <2>1. x \in Int
        BY LedgerFinite
    <2>2. x = SumOf(sz, U)
        BY DEF Ledger
    <2>3. SumOf(sz, V \ {b}) = x
        BY <1>3, <2>2
    <2> HIDE DEF V
    <2> QED BY <1>2, <1>4, <2>1, <2>3
<1>6. /\ V \subseteq DOMAIN sz /\ T \ {b} \subseteq DOMAIN sz
      /\ V \cap (T \ {b}) = {} /\ DOMAIN sz \subseteq V \cup (T \ {b}) \cup {E}
    BY DEF Ledger
<1>7. T \ {b} \subseteq DOMAIN Drop(w, b)
    BY <1>1 DEF Ledger
<1>8. \A y \in T \ {b} : Drop(w, b)[y] \in Nat /\ Room(sz[y], Drop(w, b)[y])
    BY <1>1 DEF Ledger
<1> HIDE DEF V
<1>9. Ledger(sz, V, T \ {b}, E, R, x + sz[b], Drop(w, b))
    BY <1>5, <1>6, <1>7, <1>8 DEF Ledger
<1> QED BY <1>9 DEF V

-----------------------------------------------------------------------------
(* Lists. *)

Ascending(f) == \A i, j \in DOMAIN f : i < j => f[i] < f[j]

LEMMA FirstOfIs ==
    ASSUME NEW P \in SUBSET (Nat \ {0})
    PROVE  /\ P = {} => FirstOf(P) = 0
           /\ P # {} => FirstOf(P) \in P /\ \A p \in P : FirstOf(P) <= p
<1>1. ASSUME P # {} PROVE \E p \in P : \A q \in P : p <= q
    BY <1>1, LeastIs
<1>2. ASSUME P # {} PROVE Min(P) \in P /\ \A p \in P : Min(P) <= p
    BY <1>1, <1>2 DEF Min
<1> QED BY <1>2 DEF FirstOf

\* The list f with the places i + 1 .. j replaced by m.
Spliced(f, i, m, j) == SubSeq(f, 1, i) \o m \o SubSeq(f, j + 1, Len(f))

LEMMA SpliceIs ==
    ASSUME NEW f \in Seq(Nat), NEW i \in 0 .. Len(f), NEW j \in i .. Len(f), NEW m \in Seq(Nat)
    PROVE  LET t == Spliced(f, i, m, j)
           IN  /\ t \in Seq(Nat) /\ Len(t) = i + Len(m) + (Len(f) - j)
               /\ DOMAIN t = 1 .. i + Len(m) + (Len(f) - j)
               /\ \A k \in 1 .. i : t[k] = f[k]
               /\ \A k \in 1 .. Len(m) : t[i + k] = m[k]
               /\ \A k \in j + 1 .. Len(f) : t[k - j + i + Len(m)] = f[k]
<1> DEFINE p == SubSeq(f, 1, i)
           q == SubSeq(f, j + 1, Len(f))
           pm == p \o m
<1>1. i \in Int /\ j \in Int /\ Len(f) \in Nat /\ Len(m) \in Nat /\ 0 <= i /\ i <= j /\ j <= Len(f)
    OBVIOUS
<1>2. \A k \in 1 .. Len(f) : f[k] \in Nat
    OBVIOUS
<1>3. p \in Seq(Nat) /\ Len(p) = i /\ \A k \in 1 .. i : p[k] = f[k]
    <2>1. \A k \in 1 .. i : f[k] \in Nat
        BY <1>1, <1>2
    <2>2. p \in Seq(Nat) /\ Len(p) = (IF 1 <= i THEN i - 1 + 1 ELSE 0) /\ \A k \in 1 .. i - 1 + 1 : p[k] = f[1 + k - 1]
        BY <1>1, <2>1, SubSeqProperties
    <2> QED BY <1>1, <2>2
<1>4. q \in Seq(Nat) /\ Len(q) = Len(f) - j /\ \A k \in 1 .. Len(f) - j : q[k] = f[j + k]
    <2>1. \A k \in j + 1 .. Len(f) : f[k] \in Nat
        BY <1>1, <1>2
    <2>2. j + 1 \in Int
        BY <1>1
    <2>3. /\ q \in Seq(Nat) /\ Len(q) = (IF j + 1 <= Len(f) THEN Len(f) - (j + 1) + 1 ELSE 0)
          /\ \A k \in 1 .. Len(f) - (j + 1) + 1 : q[k] = f[(j + 1) + k - 1]
        <3> DEFINE a == j + 1
                   n == Len(f)
        <3>1. a \in Int /\ n \in Int
            BY <1>1
        <3>2. \A k \in a .. n : f[k] \in Nat
            BY <2>1
        <3> HIDE DEF a, n
        <3>3. /\ SubSeq(f, a, n) \in Seq(Nat)
              /\ Len(SubSeq(f, a, n)) = (IF a <= n THEN n - a + 1 ELSE 0)
              /\ \A k \in 1 .. n - a + 1 : SubSeq(f, a, n)[k] = f[a + k - 1]
            BY <3>1, <3>2, SubSeqProperties
        <3> QED BY <3>3 DEF a, n
    <2>4. \A k \in 1 .. Len(f) - j : k \in 1 .. Len(f) - (j + 1) + 1 /\ (j + 1) + k - 1 = j + k
        BY <1>1
    <2>5. Len(q) = Len(f) - j
        BY <1>1, <2>3
    <2> QED BY <2>3, <2>4, <2>5
<1> HIDE DEF p, q
<1>5. /\ pm \in Seq(Nat) /\ Len(pm) = i + Len(m)
      /\ \A k \in 1 .. i + Len(m) : pm[k] = IF k <= i THEN p[k] ELSE m[k - i]
    BY <1>3, ConcatProperties
<1> HIDE DEF pm
<1> DEFINE t == pm \o q
<1>6. /\ t \in Seq(Nat) /\ Len(t) = i + Len(m) + (Len(f) - j)
      /\ \A k \in 1 .. i + Len(m) + (Len(f) - j) : t[k] = IF k <= i + Len(m) THEN pm[k] ELSE q[k - (i + Len(m))]
    <2>1. /\ t \in Seq(Nat) /\ Len(t) = Len(pm) + Len(q)
          /\ \A k \in 1 .. Len(pm) + Len(q) : t[k] = IF k <= Len(pm) THEN pm[k] ELSE q[k - Len(pm)]
        BY <1>4, <1>5, ConcatProperties
    <2>2. Len(pm) = i + Len(m) /\ Len(q) = Len(f) - j
        BY <1>4, <1>5
    <2> QED BY <2>1, <2>2
<1>7. DOMAIN t = 1 .. i + Len(m) + (Len(f) - j)
    BY <1>6
<1> HIDE DEF t
<1>8. ASSUME NEW k \in 1 .. i PROVE t[k] = f[k]
    <2>1. k \in 1 .. i + Len(m) + (Len(f) - j) /\ k \in 1 .. i + Len(m) /\ k <= i + Len(m) /\ k <= i
        BY <1>1
    <2>2. t[k] = pm[k]
        BY <1>6, <2>1
    <2>3. pm[k] = p[k]
        BY <1>5, <2>1
    <2> QED BY <1>3, <2>2, <2>3
<1>9. ASSUME NEW k \in 1 .. Len(m) PROVE t[i + k] = m[k]
    <2>1. i + k \in 1 .. i + Len(m) /\ ~(i + k <= i) /\ (i + k) - i = k
        BY <1>1
    <2>2. i + k \in 1 .. i + Len(m) + (Len(f) - j)
        BY <1>1
    <2>3. t[i + k] = pm[i + k]
        <3>1. i + k <= i + Len(m)
            BY <1>1
        <3> DEFINE l == i + k
        <3> HIDE DEF l
        <3>2. l <= i + Len(m) /\ l \in 1 .. i + Len(m) + (Len(f) - j)
            BY <2>2, <3>1 DEF l
        <3> QED BY <1>6, <3>2 DEF l
    <2>4. pm[i + k] = m[(i + k) - i]
        BY <1>5, <2>1
    <2> QED BY <2>1, <2>3, <2>4
<1>10. ASSUME NEW k \in j + 1 .. Len(f) PROVE t[k - j + i + Len(m)] = f[k]
    <2> DEFINE l == k - j + i + Len(m)
    <2>1. /\ l \in 1 .. i + Len(m) + (Len(f) - j) /\ ~(l <= i + Len(m)) /\ l - (i + Len(m)) = k - j
          /\ k - j \in 1 .. Len(f) - j /\ j + (k - j) = k
        BY <1>1
    <2> HIDE DEF l
    <2>2. t[l] = f[k]
        BY <1>4, <1>6, <2>1
    <2> QED BY <2>2 DEF l
<1>11. t = Spliced(f, i, m, j)
    BY DEF Spliced, t, pm, p, q
<1> QED BY <1>6, <1>7, <1>8, <1>9, <1>10, <1>11

\* What such a list holds: nothing twice, and in order when what is put in is
\* where it belongs.
SplicedRight(f, i, m, j) ==
    LET t == Spliced(f, i, m, j)
    IN  /\ t \in Seq(Nat) /\ Distinct(t)
        /\ Elements(t) = {f[k] : k \in 1 .. i} \cup Elements(m) \cup {f[k] : k \in j + 1 .. Len(f)}
        /\ /\ Ascending(f)
           /\ \A e \in Elements(m) : /\ \A k \in 1 .. i : f[k] < e
                                     /\ \A k \in j + 1 .. Len(f) : e < f[k]
           => Ascending(t)

LEMMA SpliceElements ==
    ASSUME NEW f \in Seq(Nat), NEW i \in 0 .. Len(f), NEW j \in i .. Len(f), NEW m \in Seq(Nat),
           Len(m) \in 0 .. 1, Distinct(f), \A e \in Elements(m) : e \notin Elements(f)
    PROVE  SplicedRight(f, i, m, j)
<1> DEFINE t == Spliced(f, i, m, j)
           N == Len(f)
           M == Len(m)
<1>1. i \in Int /\ j \in Int /\ N \in Nat /\ M \in 0 .. 1 /\ 0 <= i /\ i <= j /\ j <= N
    <2>1. Len(f) \in Nat /\ Len(m) \in Nat
        OBVIOUS
    <2>2. Len(m) \in 0 .. 1
        BY <2>1
    <2> QED BY <2>1, <2>2
<1>2. DOMAIN f = 1 .. N /\ DOMAIN m = 1 .. M
    OBVIOUS
<1>3. /\ t \in Seq(Nat) /\ DOMAIN t = 1 .. i + M + (N - j)
      /\ \A k \in 1 .. i : t[k] = f[k]
      /\ \A k \in 1 .. M : t[i + k] = m[k]
      /\ \A k \in j + 1 .. N : t[k - j + i + M] = f[k]
    <2> HIDE DEF t
    <2>1. /\ t \in Seq(Nat) /\ DOMAIN t = 1 .. i + Len(m) + (Len(f) - j)
          /\ \A k \in 1 .. i : t[k] = f[k]
          /\ \A k \in 1 .. Len(m) : t[i + k] = m[k]
          /\ \A k \in j + 1 .. Len(f) : t[k - j + i + Len(m)] = f[k]
        BY SpliceIs, ZenonT(30) DEF t
    <2> QED BY <2>1
<1> HIDE DEF t, N, M
<1>  DEFINE K == i + M + (N - j)
<1>0. K \in Int /\ DOMAIN t = 1 .. K /\ K = i + M + (N - j)
    BY <1>1, <1>3
<1> HIDE DEF K
<1>a. \A k \in 1 .. i : t[k] = f[k]
    BY <1>3
<1>b. \A l \in DOMAIN t : l \in Int /\ 1 <= l /\ l <= i + M + (N - j)
    BY <1>0
<1>c. M \in Int
    BY <1>1
<1>d. /\ \A k \in Int : 1 <= k /\ k <= i => k \in 1 .. i
      /\ \A k \in 1 .. i : k \in 1 .. N
    BY <1>1
<1>e. \A k, l \in DOMAIN t : k < l /\ l <= i + 1 => k \in 1 .. i
    BY <1>b, <1>1
<1>4. ASSUME NEW l \in DOMAIN t
      PROVE  \/ l \in 1 .. i /\ t[l] = f[l]
             \/ M = 1 /\ l = i + 1 /\ t[l] = m[1]
             \/ l > i + M /\ l - i - M + j \in j + 1 .. N /\ t[l] = f[l - i - M + j]
    <2>1. CASE l <= i
        <3>1. l \in 1 .. i
            BY <1>b, <1>d, <2>1
        <3> QED BY <1>a, <3>1
    <2>2. CASE l > i /\ l <= i + M
        <3>1. M = 1 /\ l = i + 1 /\ 1 \in 1 .. M
            BY <1>1, <1>3, <2>2
        <3> QED BY <1>3, <3>1
    <2>3. CASE l > i + M
        <3> DEFINE k == l - i - M + j
        <3>1. k \in j + 1 .. N /\ k - j + i + M = l
            BY <1>b, <1>c, <1>1, <2>3
        <3> HIDE DEF k
        <3>2. t[l] = f[k]
            BY <1>3, <3>1
        <3> QED BY <2>3, <3>1, <3>2 DEF k
    <2> QED BY <1>1, <1>3, <2>1, <2>2, <2>3
<1>5. Elements(t) = {f[k] : k \in 1 .. i} \cup Elements(m) \cup {f[k] : k \in j + 1 .. N}
    <2>1. ASSUME NEW e \in Elements(t)
          PROVE  e \in {f[k] : k \in 1 .. i} \cup Elements(m) \cup {f[k] : k \in j + 1 .. N}
        <3>1. PICK l \in DOMAIN t : e = t[l]
            BY DEF Elements
        <3>2. CASE M = 1 /\ t[l] = m[1]
            BY <1>2, <3>1, <3>2 DEF Elements
        <3> QED BY <1>4, <3>1, <3>2
    <2>2. ASSUME NEW k \in 1 .. i PROVE f[k] \in Elements(t)
        <3>1. k \in DOMAIN t
            BY <1>1, <1>3
        <3> QED BY <1>3, <3>1 DEF Elements
    <2>3. ASSUME NEW k \in 1 .. M PROVE m[k] \in Elements(t)
        <3>1. i + k \in DOMAIN t
            BY <1>1, <1>3
        <3> QED BY <1>3, <3>1 DEF Elements
    <2>4. ASSUME NEW k \in j + 1 .. N PROVE f[k] \in Elements(t)
        <3>1. k - j + i + M \in DOMAIN t
            BY <1>1, <1>3
        <3> QED BY <1>3, <3>1 DEF Elements
    <2>5. \A e \in Elements(m) : e \in Elements(t)
        BY <1>2, <2>3 DEF Elements
    <2> QED BY <2>1, <2>2, <2>4, <2>5
<1>6. M = 1 => m[1] \in Elements(m) /\ \A k \in 1 .. N : m[1] # f[k]
    BY <1>2 DEF Elements
<1>7. ASSUME NEW k \in DOMAIN t, NEW l \in DOMAIN t, k < l PROVE t[k] # t[l]
    <2>1. \A x, y \in 1 .. N : x < y => f[x] # f[y]
        BY <1>1, <1>2 DEF Distinct
    <2>2. CASE l \in 1 .. i /\ t[l] = f[l]
        <3>0. k \in 1 .. i
            BY <1>1, <1>e, <1>7, <2>2
        <3>1. k \in 1 .. N /\ l \in 1 .. N /\ t[k] = f[k]
            BY <1>a, <1>d, <2>2, <3>0
        <3> QED BY <1>7, <2>1, <2>2, <3>1
    <2>3. CASE M = 1 /\ l = i + 1 /\ t[l] = m[1]
        <3>0. k \in 1 .. i
            BY <1>1, <1>e, <1>7, <2>3
        <3>1. k \in 1 .. N /\ t[k] = f[k]
            BY <1>a, <1>d, <3>0
        <3> QED BY <1>6, <2>3, <3>1
    <2>4. CASE l > i + M /\ l - i - M + j \in j + 1 .. N /\ t[l] = f[l - i - M + j]
        <3> DEFINE y == l - i - M + j
        <3>1. y \in 1 .. N /\ y > j /\ t[l] = f[y]
            BY <1>1, <2>4
        <3>2. CASE k \in 1 .. i /\ t[k] = f[k]
            <4> HIDE DEF y
            <4>1. k \in 1 .. N /\ k < y
                <5>1. k \in 1 .. N /\ k <= i /\ k \in Int /\ y \in Int
                    BY <1>1, <1>d, <3>1, <3>2
                <5> QED BY <1>1, <3>1, <5>1
            <4> QED BY <2>1, <3>1, <3>2, <4>1
        <3>3. CASE M = 1 /\ k = i + 1 /\ t[k] = m[1]
            <4> HIDE DEF y
            <4> QED BY <1>6, <3>1, <3>3
        <3>4. CASE k > i + M /\ k - i - M + j \in j + 1 .. N /\ t[k] = f[k - i - M + j]
            <4> DEFINE x == k - i - M + j
            <4>1. x \in 1 .. N /\ x < y /\ t[k] = f[x]
                <5>1. x < y
                    <6>1. k \in Int /\ l \in Int /\ i \in Int /\ j \in Int /\ k < l
                        BY <1>b, <1>1, <1>7
                    <6> QED BY <1>c, <6>1
                <5>2. x \in 1 .. N
                    BY <1>1, <3>4
                <5> QED BY <3>4, <5>1, <5>2
            <4> HIDE DEF x, y
            <4> QED BY <2>1, <3>1, <4>1
        <3> HIDE DEF y
        <3> QED BY <1>4, <3>2, <3>3, <3>4
    <2> QED BY <1>4, <2>2, <2>3, <2>4
<1>8. Distinct(t)
    <2>1. \A k, l \in DOMAIN t : k # l => k < l \/ l < k
        BY <1>3
    <2> QED BY <1>7, <2>1 DEF Distinct
<1>9. ASSUME Ascending(f),
             \A e \in Elements(m) : /\ \A k \in 1 .. i : f[k] < e
                                    /\ \A k \in j + 1 .. N : e < f[k],
             NEW k \in DOMAIN t, NEW l \in DOMAIN t, k < l
      PROVE  t[k] < t[l]
    <2>1. \A x, y \in 1 .. N : x < y => f[x] < f[y]
        BY <1>2, <1>9 DEF Ascending
    <2>2. CASE l \in 1 .. i /\ t[l] = f[l]
        <3>0. k \in 1 .. i
            BY <1>1, <1>e, <1>9, <2>2
        <3>1. k \in 1 .. N /\ l \in 1 .. N /\ t[k] = f[k]
            BY <1>a, <1>d, <2>2, <3>0
        <3> QED BY <1>9, <2>1, <2>2, <3>1
    <2>3. CASE M = 1 /\ l = i + 1 /\ t[l] = m[1]
        <3>0. k \in 1 .. i
            BY <1>1, <1>e, <1>9, <2>3
        <3>1. k \in 1 .. i /\ t[k] = f[k]
            BY <1>a, <3>0
        <3> QED BY <1>6, <1>9, <2>3, <3>1
    <2>4. CASE l > i + M /\ l - i - M + j \in j + 1 .. N /\ t[l] = f[l - i - M + j]
        <3> DEFINE y == l - i - M + j
        <3>1. y \in 1 .. N /\ y \in j + 1 .. N /\ y > j /\ t[l] = f[y]
            BY <1>1, <2>4
        <3>2. CASE k \in 1 .. i /\ t[k] = f[k]
            <4> HIDE DEF y
            <4>1. k \in 1 .. N /\ k < y
                <5>1. k \in 1 .. N /\ k <= i /\ k \in Int /\ y \in Int
                    BY <1>1, <1>d, <3>1, <3>2
                <5> QED BY <1>1, <3>1, <5>1
            <4> QED BY <2>1, <3>1, <3>2, <4>1
        <3>3. CASE M = 1 /\ k = i + 1 /\ t[k] = m[1]
            <4> HIDE DEF y
            <4> QED BY <1>6, <1>9, <3>1, <3>3
        <3>4. CASE k > i + M /\ k - i - M + j \in j + 1 .. N /\ t[k] = f[k - i - M + j]
            <4> DEFINE x == k - i - M + j
            <4>1. x \in 1 .. N /\ x < y /\ t[k] = f[x]
                <5>1. x < y
                    <6>1. k \in Int /\ l \in Int /\ i \in Int /\ j \in Int /\ k < l
                        BY <1>b, <1>1, <1>9
                    <6> QED BY <1>c, <6>1
                <5>2. x \in 1 .. N
                    BY <1>1, <3>4
                <5> QED BY <3>4, <5>1, <5>2
            <4> HIDE DEF x, y
            <4> QED BY <2>1, <3>1, <4>1
        <3> HIDE DEF y
        <3> QED BY <1>4, <3>2, <3>3, <3>4
    <2> QED BY <1>4, <2>2, <2>3, <2>4
<1> QED BY <1>3, <1>5, <1>8, <1>9 DEF SplicedRight, Ascending, t, N

\* One element more or less.
LEMMA SpliceSet ==
    ASSUME NEW f \in Seq(Nat), Distinct(f), NEW i \in 0 .. Len(f)
    PROVE  /\ {f[k] : k \in 1 .. i} \cup {f[k] : k \in i + 1 .. Len(f)} = Elements(f)
           /\ i < Len(f) => {f[k] : k \in 1 .. i} \cup {f[k] : k \in (i + 1) + 1 .. Len(f)} = Elements(f) \ {f[i + 1]}
<1> DEFINE N == Len(f)
<1>1. N \in Nat /\ DOMAIN f = 1 .. N /\ i \in Int /\ 0 <= i /\ i <= N
    OBVIOUS
<1> HIDE DEF N
<1>2. {f[k] : k \in 1 .. i} \cup {f[k] : k \in i + 1 .. N} = Elements(f)
    BY <1>1 DEF Elements
<1>3. ASSUME i < N PROVE {f[k] : k \in 1 .. i} \cup {f[k] : k \in (i + 1) + 1 .. N} = Elements(f) \ {f[i + 1]}
    <2>1. i + 1 \in 1 .. N
        BY <1>1, <1>3
    <2>2. \A k \in 1 .. N : k # i + 1 => f[k] # f[i + 1]
        BY <1>1, <2>1 DEF Distinct
    <2>3. \A k \in 1 .. N : k = i + 1 \/ k \in 1 .. i \/ k \in (i + 1) + 1 .. N
        BY <1>1
    <2>4. \A k \in 1 .. i : k \in 1 .. N /\ k # i + 1
        BY <1>1
    <2>5. \A k \in (i + 1) + 1 .. N : k \in 1 .. N /\ k # i + 1
        BY <1>1
    <2> QED BY <1>1, <2>1, <2>2, <2>3, <2>4, <2>5 DEF Elements
<1> QED BY <1>2, <1>3 DEF N

-----------------------------------------------------------------------------
(* The states of the heaps that link their free blocks.                    *)

HeapRecord(h) ==
    h = [field \in {"pxEnd", "free", "size", "taken", "wanted", "regions", "xFreeBytesRemaining",
                    "xMinimumEverFreeBytesRemaining", "xNumberOfSuccessfulAllocations",
                    "xNumberOfSuccessfulFrees", "failed"} |-> h[field]]

\* The books are right when the blocks of U are loose; the list holds some of
\* them, each once.
Sound(h, U) ==
    /\ HeapRecord(h)
    /\ h.free \in Seq(Nat) /\ Distinct(h.free) /\ Elements(h.free) \subseteq U
    /\ Ledger(h.size, U, h.taken, h.pxEnd, h.regions, h.xFreeBytesRemaining, h.wanted)
    /\ h.xMinimumEverFreeBytesRemaining \in Int
    /\ h.xMinimumEverFreeBytesRemaining <= h.xFreeBytesRemaining
    /\ h.failed = {}

\* The list is in order, and no free block reaches another, markers aside.
Apart(h) ==
    /\ Ascending(h.free)
    /\ \A a, c \in Elements(h.free) : a + h.size[a] = c => h.size[c] = 0

\* No request that was met was so large that its size could wrap.
Modest(h) == \A b \in h.taken : h.wanted[b] < xBlockAllocatedBit

\* The fields that a block on its way into the list or out of it leaves alone.
SameBooks(h, k) ==
    /\ k.pxEnd = h.pxEnd /\ k.taken = h.taken /\ k.wanted = h.wanted /\ k.regions = h.regions
    /\ k.xFreeBytesRemaining = h.xFreeBytesRemaining /\ k.failed = h.failed
    /\ k.xMinimumEverFreeBytesRemaining = h.xMinimumEverFreeBytesRemaining

Relinked(h, size, free) == [h EXCEPT !.size = size, !.free = free]

LEMMA RelinkedFields ==
    ASSUME NEW h, HeapRecord(h), NEW size, NEW free
    PROVE  LET k == Relinked(h, size, free)
           IN  HeapRecord(k) /\ SameBooks(h, k) /\ k.size = size /\ k.free = free
BY DEF HeapRecord, SameBooks, Relinked

\* A block leaves the list.
LEMMA Unlink ==
    ASSUME NEW h, NEW U, Sound(h, U), NEW i \in DOMAIN h.free
    PROVE  LET k == [h EXCEPT !.free = RemoveAt(@, i)]
           IN  /\ Sound(k, U) /\ Elements(k.free) = Elements(h.free) \ {h.free[i]}
               /\ SameBooks(h, k) /\ k.size = h.size
               /\ Apart(h) => Apart(k)
<1> DEFINE f == h.free
           k == [h EXCEPT !.free = RemoveAt(@, i)]
           p == i - 1
           t == Spliced(f, p, <<>>, i)
<1>1. f \in Seq(Nat) /\ Distinct(f) /\ HeapRecord(h)
    BY DEF Sound
<1>2. i \in 1 .. Len(f) /\ p \in 0 .. Len(f) /\ i \in p .. Len(f) /\ p + 1 = i /\ p < Len(f)
    BY <1>1
<1>3. <<>> \in Seq(Nat) /\ Len(<<>>) = 0 /\ Elements(<<>>) = {}
    BY DEF Elements
<1> HIDE DEF f, p
<1>4. t = RemoveAt(f, i)
    <2>1. \A l \in 1 .. p : f[l] \in Nat
        BY <1>1, <1>2
    <2>2. SubSeq(f, 1, p) \in Seq(Nat)
        BY <1>2, <2>1, SubSeqProperties DEF p
    <2>3. SubSeq(f, 1, p) \o <<>> = SubSeq(f, 1, p)
        BY <2>2, ConcatEmptySeq
    <2> QED BY <2>3 DEF Spliced, RemoveAt, p
<1>5. /\ t \in Seq(Nat) /\ Distinct(t)
      /\ Elements(t) = {f[l] : l \in 1 .. p} \cup {f[l] : l \in i + 1 .. Len(f)}
      /\ Ascending(f) => Ascending(t)
    <2>1. Len(<<>>) \in 0 .. 1
        BY <1>3
    <2>2. \A e \in Elements(<<>>) : e \notin Elements(f)
        BY <1>3
    <2>3. SplicedRight(f, p, <<>>, i)
        BY <1>1, <1>2, <1>3, <2>1, <2>2, SpliceElements
    <2> QED BY <1>3, <2>3 DEF SplicedRight
<1>6. Elements(t) = Elements(f) \ {f[i]}
    BY <1>1, <1>2, <1>5, SpliceSet
<1>7. k = Relinked(h, h.size, t)
    BY <1>1, <1>4 DEF Relinked, HeapRecord, f
<1> HIDE DEF k, t
<1>8. HeapRecord(k) /\ SameBooks(h, k) /\ k.size = h.size /\ k.free = t
    BY <1>1, <1>7, RelinkedFields
<1>9. Sound(k, U)
    BY <1>5, <1>6, <1>8 DEF Sound, SameBooks, f
<1>10. Apart(h) => Apart(k)
    BY <1>5, <1>6, <1>8 DEF Apart, f
<1> QED BY <1>6, <1>8, <1>9, <1>10 DEF k, f

\* A loose block is divided.
LEMMA Divide ==
    ASSUME NEW h, NEW U, Sound(h, U), NEW b \in U, b \notin Elements(h.free),
           NEW n \in Nat, 0 < n, n < h.size[b], Aligned(n)
    PROVE  LET k == Sized(Sized(h, b + n, h.size[b] - n), b, n)
           IN  /\ b + n \notin DOMAIN h.size /\ Sound(k, U \cup {b + n})
               /\ k.free = h.free /\ SameBooks(h, k) /\ k.size[b] = n
               /\ Apart(h) => Apart(k)
<1> DEFINE k == Sized(Sized(h, b + n, h.size[b] - n), b, n)
           to == Divided(h.size, b, n)
<1>1. HeapRecord(h) /\ Ledger(h.size, U, h.taken, h.pxEnd, h.regions, h.xFreeBytesRemaining, h.wanted)
    BY DEF Sound
<1>2. b \in DOMAIN h.size
    BY <1>1 DEF Ledger
<1>3. /\ b + n \notin DOMAIN h.size
      /\ Ledger(to, U \cup {b + n}, h.taken, h.pxEnd, h.regions, h.xFreeBytesRemaining, h.wanted)
    BY <1>1, DivideLedger
<1>4. HeapRecord(k) /\ SameBooks(h, k) /\ k.free = h.free /\ k.size = With(With(h.size, b + n, h.size[b] - n), b, n)
    BY <1>1 DEF HeapRecord, SameBooks, Sized
<1>5. With(With(h.size, b + n, h.size[b] - n), b, n) = to
    BY <1>2 DEF With, Divided
<1>6. to[b] = n /\ \A a \in DOMAIN h.size \ {b} : to[a] = h.size[a]
    BY <1>2, <1>3 DEF Divided
<1> HIDE DEF k, to
<1>7. Sound(k, U \cup {b + n})
    BY <1>3, <1>4, <1>5 DEF Sound, SameBooks
<1>8. ASSUME Apart(h) PROVE Apart(k)
    <2>1. \A a \in Elements(h.free) : a \in DOMAIN h.size \ {b}
        BY <1>1 DEF Sound, Ledger
    <2>2. \A a \in Elements(h.free) : k.size[a] = h.size[a]
        BY <1>4, <1>5, <1>6, <2>1
    <2> QED BY <1>4, <1>8, <2>2 DEF Apart
<1> QED BY <1>3, <1>4, <1>5, <1>6, <1>7, <1>8 DEF k

-----------------------------------------------------------------------------
(* A block is put into a list in the order of the addresses. *)

\* What stays in front of it, and what becomes of it there.
Place(f, b)    == LET next == FirstOf({i \in DOMAIN f : f[i] >= b}) IN IF next = 0 THEN Len(f) ELSE next - 1
Joins(h, b)    == LET p == Place(h.free, b) IN p > 0 /\ h.free[p] + h.size[h.free[p]] = b
Start(h, b)    == IF Joins(h, b) THEN h.free[Place(h.free, b)] ELSE b
AtStart(h, b)  == IF Joins(h, b) THEN Joined(h.size, Start(h, b), b) ELSE h.size
Merges(h, b)   == LET p == Place(h.free, b)
                  IN  p < Len(h.free) /\ Start(h, b) + AtStart(h, b)[Start(h, b)] = h.free[p + 1]
Merged(h, b)   == IF Merges(h, b) THEN Joined(AtStart(h, b), Start(h, b), h.free[Place(h.free, b) + 1])
                  ELSE AtStart(h, b)
Newcomer(h, b) == IF Joins(h, b) THEN <<>> ELSE <<b>>
Beyond(h, b)   == IF Merges(h, b) THEN Place(h.free, b) + 1 ELSE Place(h.free, b)

LEMMA PlaceIs ==
    ASSUME NEW f \in Seq(Nat), Ascending(f), NEW b \in Nat, b \notin Elements(f)
    PROVE  LET p == Place(f, b)
           IN  /\ p \in 0 .. Len(f)
               /\ \A k \in 1 .. p : f[k] < b
               /\ \A k \in p + 1 .. Len(f) : b < f[k]
<1> DEFINE P == {i \in DOMAIN f : f[i] >= b}
           N == Len(f)
           next == FirstOf(P)
           p == Place(f, b)
<1>1. N \in Nat /\ DOMAIN f = 1 .. N /\ \A k \in 1 .. N : f[k] \in Nat /\ f[k] # b
    BY DEF Elements
<1>2. P \in SUBSET (Nat \ {0})
    BY <1>1
<1>3. p = IF next = 0 THEN N ELSE next - 1
    BY DEF Place
<1> HIDE DEF N, p
<1>4. CASE P = {}
    <2>1. next = 0
        BY <1>2, <1>4, FirstOfIs
    <2>2. \A k \in 1 .. N : f[k] < b
        BY <1>1, <1>4
    <2> QED BY <1>1, <1>3, <2>1, <2>2 DEF p, N
<1>5. CASE P # {}
    <2>1. next \in P /\ \A q \in P : next <= q
        BY <1>2, <1>5, FirstOfIs
    <2> HIDE DEF next
    <2>2. next \in 1 .. N /\ f[next] >= b
        BY <1>1, <2>1
    <2> HIDE DEF P
    <2>3. p \in 0 .. N /\ p + 1 = next
        BY <1>1, <1>3, <2>2
    <2>4. ASSUME NEW k \in 1 .. p PROVE f[k] < b
        <3>1. k \in 1 .. N /\ ~(next <= k)
            BY <1>1, <2>3, <2>2
        <3>2. k \notin P
            BY <2>1, <3>1
        <3> QED BY <1>1, <3>1, <3>2 DEF P
    <2>5. ASSUME NEW k \in p + 1 .. N PROVE b < f[k]
        <3>1. k \in 1 .. N /\ (k = next \/ next < k)
            BY <1>1, <2>2, <2>3
        <3>2. f[next] <= f[k]
            <4>1. next < k => f[next] < f[k]
                BY <1>1, <2>2, <3>1 DEF Ascending
            <4> QED BY <1>1, <2>2, <3>1, <4>1
        <3> QED BY <1>1, <2>2, <3>1, <3>2
    <2> QED BY <2>3, <2>4, <2>5 DEF p, N
<1> QED BY <1>4, <1>5

LEMMA InsertIs ==
    ASSUME NEW h, HeapRecord(h), h.free \in Seq(Nat), Ascending(h.free),
           NEW b \in Nat, b \notin Elements(h.free), b \in DOMAIN h.size,
           \A a \in Elements(h.free) : a \in DOMAIN h.size
    PROVE  LET k == prvInsertBlockIntoFreeList(h, b)
           IN  /\ HeapRecord(k) /\ SameBooks(h, k) /\ k.size = Merged(h, b)
               /\ k.free = Spliced(h.free, Place(h.free, b), Newcomer(h, b), Beyond(h, b))
<1> DEFINE f == h.free
           N == Len(f)
           p == Place(f, b)
           next == FirstOf({i \in DOMAIN f : f[i] >= b})
           before == IF next = 0 THEN f ELSE SubSeq(f, 1, next - 1)
           after  == IF next = 0 THEN <<>> ELSE SubSeq(f, next, N)
           joins  == before # <<>> /\ Last(before) + h.size[Last(before)] = b
           start  == IF joins THEN Last(before) ELSE b
           h1     == IF joins THEN Absorb(h, start, b) ELSE h
           merges == after # <<>> /\ start + h1.size[start] = Head(after)
           h2     == IF merges THEN Absorb(h1, start, Head(after)) ELSE h1
           free   == before \o (IF joins THEN <<>> ELSE <<b>>) \o (IF merges THEN Tail(after) ELSE after)
           k      == [h2 EXCEPT !.free = free]
<1>1. k = prvInsertBlockIntoFreeList(h, b)
    BY DEF prvInsertBlockIntoFreeList
<1>2. f \in Seq(Nat) /\ N \in Nat /\ DOMAIN f = 1 .. N /\ \A i \in 1 .. N : f[i] \in Nat
    OBVIOUS
<1>3. p \in 0 .. N
    BY PlaceIs
<1>4. p = IF next = 0 THEN N ELSE next - 1
    BY DEF Place
<1>5. next \in Nat
    <2>1. {i \in DOMAIN f : f[i] >= b} \in SUBSET (Nat \ {0})
        BY <1>2
    <2> QED BY <2>1, FirstOfIs
<1> HIDE DEF f, p, next, N
<1>6. before = SubSeq(f, 1, p) /\ after = SubSeq(f, p + 1, N)
    <2>1. CASE next = 0
        <3>1. p = N
            BY <1>4, <2>1
        <3>2. SubSeq(f, 1, N) = f
            BY <1>2, SubSeqFull DEF N
        <3>3. SubSeq(f, N + 1, N) = <<>>
            BY <1>2, SubSeqEmpty
        <3> QED BY <2>1, <3>1, <3>2, <3>3
    <2>2. CASE next # 0
        <3>1. p = next - 1 /\ p + 1 = next
            BY <1>4, <1>5, <2>2
        <3> QED BY <2>2, <3>1
    <2> QED BY <2>1, <2>2
<1> HIDE DEF before, after
<1>7. /\ p > 0 => before # <<>> /\ Last(before) = f[p] /\ f[p] \in Elements(f)
      /\ p = 0 => before = <<>>
    <2>1. \A i \in 1 .. p : f[i] \in Nat
        BY <1>2, <1>3
    <2>2. /\ before \in Seq(Nat) /\ Len(before) = (IF 1 <= p THEN p - 1 + 1 ELSE 0)
          /\ \A i \in 1 .. p - 1 + 1 : before[i] = f[1 + i - 1]
        BY <1>3, <1>6, <2>1, SubSeqProperties
    <2>3. ASSUME p > 0 PROVE before # <<>> /\ Last(before) = f[p] /\ f[p] \in Elements(f)
        <3>1. Len(before) = p /\ p \in 1 .. p - 1 + 1 /\ 1 + p - 1 = p /\ p \in 1 .. N
            BY <1>2, <1>3, <2>2, <2>3
        <3>2. before[p] = f[p]
            BY <2>2, <3>1
        <3>3. before # <<>>
            BY <2>3, <3>1, <1>3
        <3> QED BY <1>2, <3>1, <3>2, <3>3 DEF Last, Elements
    <2>4. ASSUME p = 0 PROVE before = <<>>
        BY <1>2, <1>6, <2>4, SubSeqEmpty
    <2> QED BY <2>3, <2>4
<1>8. /\ p < N => /\ after # <<>> /\ Head(after) = f[p + 1] /\ Tail(after) = SubSeq(f, (p + 1) + 1, N)
                 /\ f[p + 1] \in Elements(f)
      /\ p = N => after = <<>>
    <2>1. ASSUME p < N PROVE /\ after # <<>> /\ Head(after) = f[p + 1] /\ Tail(after) = SubSeq(f, (p + 1) + 1, N)
                             /\ f[p + 1] \in Elements(f)
        <3>1. p + 1 \in 1 .. Len(f) /\ N \in p + 1 .. Len(f) /\ p + 1 \in Int
            BY <1>2, <1>3, <2>1 DEF N
        <3>2. Head(after) = f[p + 1] /\ Tail(after) = SubSeq(f, (p + 1) + 1, N)
            BY <1>2, <1>6, <3>1, HeadTailOfSubSeq
        <3>3. Len(after) = N - (p + 1) + 1
            <4>1. \A i \in p + 1 .. N : f[i] \in Nat
                BY <1>2, <1>3
            <4> QED BY <1>2, <1>6, <2>1, <3>1, <4>1, SubSeqProperties
        <3>4. after # <<>>
            BY <1>2, <1>3, <2>1, <3>3
        <3> QED BY <1>2, <3>1, <3>2, <3>4 DEF Elements, N
    <2>2. ASSUME p = N PROVE after = <<>>
        BY <1>2, <1>6, <2>2, SubSeqEmpty
    <2> QED BY <2>1, <2>2
<1>9. (joins <=> Joins(h, b)) /\ start = Start(h, b) /\ start \in DOMAIN h.size /\ (joins => start # b)
    <2>1. joins <=> p > 0 /\ f[p] + h.size[f[p]] = b
        BY <1>3, <1>7
    <2>2. joins <=> Joins(h, b)
        BY <2>1 DEF Joins, f, p
    <2>3. start = IF joins THEN f[p] ELSE b
        BY <1>3, <1>7
    <2> QED BY <1>3, <1>7, <2>2, <2>3 DEF Start, f, p
<1>10. HeapRecord(h1) /\ SameBooks(h, h1) /\ h1.size = AtStart(h, b) /\ (joins => DOMAIN h1.size = DOMAIN h.size \ {b})
    <2>1. CASE joins
        <3>1. h1 = Absorb(h, start, b)
            BY <2>1
        <3>2. /\ HeapRecord(Absorb(h, start, b)) /\ SameBooks(h, Absorb(h, start, b))
              /\ Absorb(h, start, b).size = Drop(With(h.size, start, h.size[start] + h.size[b]), b)
            BY DEF HeapRecord, SameBooks, Absorb
        <3>3. Drop(With(h.size, start, h.size[start] + h.size[b]), b) = Joined(h.size, start, b)
            BY <1>9 DEF Drop, With, Joined
        <3>4. AtStart(h, b) = Joined(h.size, start, b)
            BY <1>9, <2>1 DEF AtStart
        <3>5. DOMAIN Joined(h.size, start, b) = DOMAIN h.size \ {b}
            BY DEF Joined
        <3> QED BY <3>1, <3>2, <3>3, <3>4, <3>5
    <2>2. CASE ~joins
        BY <1>9, <2>2 DEF SameBooks, AtStart
    <2> QED BY <2>1, <2>2
<1> HIDE DEF h1, start, joins
<1>11. (merges <=> Merges(h, b)) /\ HeapRecord(h2) /\ SameBooks(h, h2) /\ h2.size = Merged(h, b)
    <2>1. merges <=> p < N /\ start + h1.size[start] = f[p + 1]
        BY <1>2, <1>3, <1>8
    <2>2. merges <=> Merges(h, b)
        BY <1>9, <1>10, <2>1 DEF Merges, f, p, N
    <2>3. CASE merges
        <3> DEFINE c == f[p + 1]
        <3>1. c = Head(after) /\ c \in Elements(f)
            BY <1>8, <2>1, <2>3
        <3> HIDE DEF c
        <3>2. h2 = Absorb(h1, start, c)
            BY <2>3, <3>1
        <3>3. /\ HeapRecord(Absorb(h1, start, c)) /\ SameBooks(h1, Absorb(h1, start, c))
              /\ Absorb(h1, start, c).size = Drop(With(h1.size, start, h1.size[start] + h1.size[c]), c)
            BY <1>10 DEF HeapRecord, SameBooks, Absorb
        <3>4. start \in DOMAIN h1.size
            BY <1>9, <1>10 DEF h1
        <3>5. Drop(With(h1.size, start, h1.size[start] + h1.size[c]), c) = Joined(h1.size, start, c)
            BY <3>4 DEF Drop, With, Joined
        <3>6. Merged(h, b) = Joined(h1.size, start, c)
            BY <1>9, <1>10, <2>2, <2>3 DEF Merged, c, f, p
        <3> HIDE DEF h2
        <3> QED BY <1>10, <2>2, <3>2, <3>3, <3>5, <3>6 DEF SameBooks
    <2>4. CASE ~merges
        BY <1>10, <2>2, <2>4 DEF Merged
    <2> QED BY <2>3, <2>4
<1>12. free = Spliced(f, p, Newcomer(h, b), Beyond(h, b))
    <2>1. (IF joins THEN <<>> ELSE <<b>>) = Newcomer(h, b)
        BY <1>9 DEF Newcomer
    <2>2. (IF merges THEN Tail(after) ELSE after) = SubSeq(f, Beyond(h, b) + 1, N)
        <3>1. merges => p < N
            BY <1>2, <1>3, <1>8
        <3>2. Beyond(h, b) = IF merges THEN p + 1 ELSE p
            BY <1>11 DEF Beyond, f, p
        <3> HIDE DEF merges
        <3> QED BY <1>6, <1>8, <3>1, <3>2
    <2> HIDE DEF merges
    <2> QED BY <1>6, <2>1, <2>2 DEF Spliced, N
<1> HIDE DEF free, h2
<1>13. HeapRecord(k) /\ SameBooks(h2, k) /\ k.size = h2.size /\ k.free = free
    BY <1>11 DEF HeapRecord, SameBooks
<1> HIDE DEF k
<1>14. SameBooks(h, k)
    BY <1>11, <1>13 DEF SameBooks
<1> QED BY <1>1, <1>11, <1>12, <1>13, <1>14 DEF f, p

\* The block is in the list, or part of one that is.
Listed(h, U, b, k) ==
    LET V == U \ (Elements(h.free) \cup {b})
    IN  /\ HeapRecord(k) /\ SameBooks(h, k)
        /\ Elements(k.free) \cap V = {} /\ Sound(k, Elements(k.free) \cup V)
        /\ \A v \in V : k.size[v] = h.size[v]

LEMMA InsertInOrder ==
    ASSUME NEW h, NEW U, Sound(h, U), Apart(h), NEW b \in U, b \notin Elements(h.free)
    PROVE  LET k == prvInsertBlockIntoFreeList(h, b) IN Listed(h, U, b, k) /\ Apart(k)
<1> DEFINE f  == h.free
           sz == h.size
           F  == Elements(f)
           N  == Len(f)
           V  == U \ (F \cup {b})
           p  == Place(f, b)
           s  == Start(h, b)
           c  == f[p + 1]
           sz1 == AtStart(h, b)
           sz2 == Merged(h, b)
           U1 == IF Joins(h, b) THEN U \ {b} ELSE U
           U2 == IF Merges(h, b) THEN U1 \ {c} ELSE U1
           Books(z, L) == Ledger(z, L, h.taken, h.pxEnd, h.regions, h.xFreeBytesRemaining, h.wanted)
           k  == prvInsertBlockIntoFreeList(h, b)
<1>1. /\ HeapRecord(h) /\ f \in Seq(Nat) /\ Distinct(f) /\ F \subseteq U /\ Books(sz, U) /\ Ascending(f)
      /\ \A a, d \in F : a + sz[a] = d => sz[d] = 0
    BY DEF Sound, Apart
<1>2. /\ b \notin F /\ b \in DOMAIN sz /\ b \in Nat /\ sz[b] \in Nat
      /\ \A a \in U : a \in DOMAIN sz /\ a \in Nat /\ sz[a] \in Nat
    <2>1. \A a \in U : a \in DOMAIN sz
        BY <1>1 DEF Ledger
    <2>2. \A a \in DOMAIN sz : a \in Nat /\ sz[a] \in Nat
        BY <1>1, LedgerFinite
    <2> QED BY <2>1, <2>2
<1>3. /\ p \in 0 .. N /\ N \in Nat /\ DOMAIN f = 1 .. N
      /\ \A i \in 1 .. p : f[i] < b
      /\ \A i \in p + 1 .. N : b < f[i]
    <2>1. p \in 0 .. Len(f) /\ (\A i \in 1 .. p : f[i] < b) /\ \A i \in p + 1 .. Len(f) : b < f[i]
        BY <1>1, <1>2, PlaceIs
    <2> QED BY <1>1, <2>1
<1>4. /\ HeapRecord(k) /\ SameBooks(h, k) /\ k.size = sz2
      /\ k.free = Spliced(f, p, Newcomer(h, b), Beyond(h, b))
    BY <1>1, <1>2, InsertIs
<1>5. /\ \A a \in F : a < b => p > 0 /\ a <= f[p]
      /\ \A a \in F : a > b => p < N /\ f[p + 1] <= a
      /\ p > 0 => f[p] \in F /\ f[p] < b
      /\ p < N => c \in F /\ b < c
    <2> HIDE DEF f, p, N
    <2>1. \A i \in 1 .. N : f[i] \in F /\ f[i] \in Nat
        BY <1>1, <1>2, <1>3 DEF Elements, F
    <2>2. \A i, j \in 1 .. N : i < j => f[i] < f[j]
        BY <1>1, <1>3 DEF Ascending
    <2>3. p > 0 => p \in 1 .. N /\ p \in 1 .. p
        BY <1>3
    <2>4. p < N => p + 1 \in 1 .. N /\ p + 1 \in p + 1 .. N
        BY <1>3
    <2>5. ASSUME NEW a \in F, a < b PROVE p > 0 /\ a <= f[p]
        <3>1. PICK i \in 1 .. N : a = f[i]
            BY <1>3 DEF Elements
        <3>2. ~(b < a)
            BY <1>1, <1>2, <2>5
        <3>3. i \notin p + 1 .. N
            BY <1>3, <3>1, <3>2
        <3>4. i = p \/ i < p
            BY <1>3, <3>3
        <3>5. p > 0 /\ p \in 1 .. N
            BY <1>3, <3>4
        <3>6. i < p => f[i] < f[p]
            BY <2>2, <3>5
        <3> QED BY <2>1, <3>1, <3>4, <3>5, <3>6
    <2>6. ASSUME NEW a \in F, a > b PROVE p < N /\ f[p + 1] <= a
        <3>1. PICK i \in 1 .. N : a = f[i]
            BY <1>3 DEF Elements
        <3>2. ~(a < b)
            BY <1>1, <1>2, <2>6
        <3>3. i \notin 1 .. p
            BY <1>3, <3>1, <3>2
        <3>4. i = p + 1 \/ p + 1 < i
            BY <1>3, <3>3
        <3>5. p < N /\ p + 1 \in 1 .. N
            BY <1>3, <3>4
        <3>6. p + 1 < i => f[p + 1] < f[i]
            BY <2>2, <3>5
        <3> QED BY <2>1, <3>1, <3>4, <3>5, <3>6
    <2> QED BY <1>3, <2>1, <2>3, <2>4, <2>5, <2>6
<1>6. /\ Joins(h, b) => p > 0 /\ f[p] + sz[f[p]] = b
      /\ Joins(h, b) <=> p > 0 /\ f[p] + sz[f[p]] = b
      /\ s = IF Joins(h, b) THEN f[p] ELSE b
      /\ sz1 = IF Joins(h, b) THEN Joined(sz, s, b) ELSE sz
      /\ Merges(h, b) <=> p < N /\ s + sz1[s] = c
      /\ sz2 = IF Merges(h, b) THEN Joined(sz1, s, c) ELSE sz1
    BY DEF Joins, Start, AtStart, Merges, Merged
<1> HIDE DEF f, p, s, sz1, sz2, c, N, k, F, sz
<1>7. s \in U /\ s \in U1 /\ s <= b /\ (Joins(h, b) => s < b /\ s \in F)
    BY <1>1, <1>2, <1>5, <1>6
<1>8. Books(sz1, U1)
    <2>1. CASE Joins(h, b)
        <3>1. s + sz[s] = b /\ s # b
            BY <1>2, <1>6, <1>7, <2>1
        <3>2. Ledger(Joined(sz, s, b), U \ {b}, h.taken, h.pxEnd, h.regions, h.xFreeBytesRemaining, h.wanted)
            BY <1>1, <1>7, <3>1, JoinLedger
        <3> QED BY <1>6, <2>1, <3>2
    <2>2. CASE ~Joins(h, b)
        BY <1>1, <1>6, <2>2
    <2> QED BY <2>1, <2>2
<1>9. /\ DOMAIN sz1 = IF Joins(h, b) THEN DOMAIN sz \ {b} ELSE DOMAIN sz
      /\ \A x \in DOMAIN sz1 : x # s => sz1[x] = sz[x]
    BY <1>6 DEF Joined
<1>10. Merges(h, b) => c \in F /\ c # s /\ c # b /\ c \in U1 /\ b < c
    BY <1>1, <1>2, <1>5, <1>6, <1>7
<1>11. Books(sz2, U2)
    <2>1. CASE Merges(h, b)
        <3>1. s + sz1[s] = c
            BY <1>6, <2>1
        <3>2. Ledger(Joined(sz1, s, c), U1 \ {c}, h.taken, h.pxEnd, h.regions, h.xFreeBytesRemaining, h.wanted)
            <4> HIDE DEF U1
            <4> QED BY <1>7, <1>8, <1>10, <2>1, <3>1, JoinLedger
        <3> QED BY <1>6, <2>1, <3>2
    <2>2. CASE ~Merges(h, b)
        BY <1>6, <1>8, <2>2
    <2> QED BY <2>1, <2>2
<1>12. /\ DOMAIN sz2 = IF Merges(h, b) THEN DOMAIN sz1 \ {c} ELSE DOMAIN sz1
       /\ \A x \in DOMAIN sz2 : x # s => sz2[x] = sz1[x]
       /\ \A x \in DOMAIN sz2 : x # s => sz2[x] = sz[x]
    BY <1>6, <1>9 DEF Joined
<1> DEFINE m  == Newcomer(h, b)
           j  == Beyond(h, b)
           F2 == Elements(k.free)
<1>13. /\ m = IF Joins(h, b) THEN <<>> ELSE <<b>>
       /\ j = IF Merges(h, b) THEN p + 1 ELSE p
    BY DEF Newcomer, Beyond, f, p
<1>14. /\ m \in Seq(Nat) /\ Len(m) \in 0 .. 1 /\ Elements(m) = (IF Joins(h, b) THEN {} ELSE {b})
       /\ j \in p .. N
    <2>1. m \in Seq(Nat) /\ Len(m) \in 0 .. 1
        BY <1>2, <1>13
    <2>2. Elements(m) = (IF Joins(h, b) THEN {} ELSE {b})
        BY <1>13 DEF Elements
    <2>3. j \in p .. N
        BY <1>3, <1>6, <1>13
    <2> QED BY <2>1, <2>2, <2>3
<1> HIDE DEF m, j
<1>15. SplicedRight(f, p, m, j)
    <2>1. \A e \in Elements(m) : e \notin Elements(f)
        BY <1>2, <1>14 DEF F
    <2>2. p \in 0 .. Len(f) /\ j \in p .. Len(f)
        BY <1>3, <1>14 DEF N
    <2> QED BY <1>1, <1>14, <2>1, <2>2, SpliceElements
<1>16. /\ k.free \in Seq(Nat) /\ Distinct(k.free) /\ Ascending(k.free)
       /\ F2 = {f[i] : i \in 1 .. p} \cup Elements(m) \cup {f[i] : i \in j + 1 .. N}
    <2>1. \A e \in Elements(m) : /\ \A i \in 1 .. p : f[i] < e
                                 /\ \A i \in j + 1 .. N : e < f[i]
        <3>1. \A i \in j + 1 .. N : i \in p + 1 .. N
            BY <1>3, <1>14
        <3> QED BY <1>3, <1>14, <3>1
    <2> QED BY <1>1, <1>4, <1>15, <2>1 DEF SplicedRight, f, m, j, N, p
<1>17. F2 = (F \ (IF Merges(h, b) THEN {c} ELSE {})) \cup (IF Joins(h, b) THEN {} ELSE {b})
    <2>1. p \in 0 .. Len(f)
        BY <1>3 DEF N
    <2>2. /\ {f[i] : i \in 1 .. p} \cup {f[i] : i \in p + 1 .. N} = F
          /\ p < N => {f[i] : i \in 1 .. p} \cup {f[i] : i \in (p + 1) + 1 .. N} = F \ {c}
        BY <1>1, <2>1, SpliceSet DEF F, N, c
    <2>3. CASE Merges(h, b)
        <3>1. p < N /\ j = p + 1
            BY <1>6, <1>13, <2>3
        <3> QED BY <1>2, <1>14, <1>16, <2>2, <2>3, <3>1
    <2>4. CASE ~Merges(h, b)
        BY <1>13, <1>14, <1>16, <2>2, <2>4
    <2> QED BY <2>3, <2>4
<1>18. U2 = F2 \cup V /\ F2 \cap V = {}
    BY <1>1, <1>2, <1>10, <1>17
<1> HIDE DEF F2
<1>19. Sound(k, F2 \cup V)
    <2>1. Ledger(sz2, F2 \cup V, h.taken, h.pxEnd, h.regions, h.xFreeBytesRemaining, h.wanted)
        BY <1>11, <1>18
    <2> QED BY <1>4, <1>16, <2>1 DEF Sound, SameBooks, F2
<1>20. ASSUME NEW v \in V PROVE sz2[v] = sz[v]
    <2>1. v \in DOMAIN sz2
        BY <1>11, <1>18 DEF Ledger
    <2>2. v # s
        BY <1>7, <1>6, <1>18
    <2> QED BY <1>12, <2>1, <2>2
<1>21. Listed(h, U, b, k)
    BY <1>4, <1>18, <1>19, <1>20 DEF Listed, F2, F, f, sz
<1>22. ASSUME NEW x \in F2, NEW y \in F2, x + sz2[x] = y PROVE sz2[y] = 0
    <2>1. /\ x \in DOMAIN sz2 /\ y \in DOMAIN sz2 /\ x \in Nat /\ y \in Nat /\ sz2[x] \in Nat /\ sz2[y] \in Nat
          /\ x \in DOMAIN sz1 /\ y \in DOMAIN sz1 /\ x \in U /\ y \in U
        <3>1. x \in DOMAIN sz2 /\ y \in DOMAIN sz2
            BY <1>11, <1>18 DEF Ledger
        <3>2. \A a \in DOMAIN sz2 : a \in Nat /\ sz2[a] \in Nat
            BY <1>11, LedgerFinite
        <3>3. x \in U2 /\ y \in U2
            BY <1>18
        <3> QED BY <1>12, <3>1, <3>2, <3>3
    <2>2. \A a \in F2 : a # s => a \in F /\ sz2[a] = sz[a]
        <3>1. \A a \in F2 : a \in DOMAIN sz2
            BY <1>11, <1>18 DEF Ledger
        <3> QED BY <1>6, <1>12, <1>17, <3>1
    <2>3. \A a, d \in DOMAIN sz : a < d => a + sz[a] <= d
        BY <1>1 DEF Ledger, Tiled
    <2>4. \A a, d \in DOMAIN sz1 : a < d => a + sz1[a] <= d
        BY <1>8 DEF Ledger, Tiled
    <2>5. CASE x # s /\ y # s
        BY <1>1, <1>22, <2>2, <2>5
    <2>6. CASE x = y
        BY <1>22, <2>1, <2>6
    <2>7. CASE x # s /\ y = s
        <3>1. x < s
            BY <1>22, <2>1, <2>7
        <3>2. x \in F /\ x + sz[x] = s
            BY <1>22, <2>2, <2>7
        <3>3. CASE Joins(h, b)
            <4>1. sz[s] = 0
                BY <1>1, <1>7, <3>2, <3>3
            <4>2. s + sz[s] = b
                BY <1>6, <3>3
            <4> QED BY <1>2, <1>7, <3>3, <4>1, <4>2
        <3>4. CASE ~Joins(h, b)
            <4>1. s = b /\ p > 0 /\ x <= f[p] /\ f[p] \in F /\ f[p] < b
                BY <1>5, <1>6, <3>1, <3>2, <3>4
            <4>2. x # f[p]
                BY <1>6, <3>2, <3>4, <4>1
            <4>3. x < f[p]
                BY <1>1, <1>2, <2>1, <4>1, <4>2
            <4>4. x + sz[x] <= f[p]
                BY <1>1, <1>2, <2>3, <3>2, <4>1, <4>3
            <4> QED BY <1>1, <1>2, <3>2, <4>1, <4>4
        <3> QED BY <3>3, <3>4
    <2>8. CASE x = s /\ y # s
        <3>1. s < y /\ y \in F
            BY <1>22, <2>1, <2>2, <2>8
        <3>2. y > b
            <4>1. y # b
                BY <1>2, <3>1
            <4>2. y < b => y <= f[p] /\ f[p] \in Nat /\ f[p] < b
                BY <1>1, <1>2, <1>5, <3>1
            <4>3. ~(y < b)
                BY <1>6, <2>1, <3>1, <4>2, <1>2
            <4> QED BY <1>2, <2>1, <4>1, <4>3
        <3>3. p < N /\ c <= y /\ c \in F /\ b < c
            BY <1>5, <3>1, <3>2 DEF c
        <3>4. CASE Merges(h, b)
            <4>1. sz2[s] = sz1[s] + sz1[c] /\ s + sz1[s] = c
                BY <1>6, <1>7, <1>10, <2>1, <2>8, <3>4, <1>12 DEF Joined
            <4>2. sz1[c] = sz[c] /\ sz1[s] \in Nat /\ sz1[c] \in Nat
                <5>1. c \in DOMAIN sz1 /\ s \in DOMAIN sz1
                    BY <1>7, <1>8, <1>10, <3>4 DEF Ledger
                <5>2. \A a \in DOMAIN sz1 : sz1[a] \in Nat
                    BY <1>8, LedgerFinite
                <5> QED BY <1>9, <1>10, <3>4, <5>1, <5>2
            <4>3. s \in Nat /\ c \in Nat
                BY <1>1, <1>2, <1>7, <3>3
            <4>4. c + sz[c] = y
                BY <1>22, <2>8, <4>1, <4>2, <4>3
            <4>5. sz[y] = 0
                BY <1>1, <3>1, <3>3, <4>4
            <4> QED BY <2>2, <2>8, <4>5
        <3>5. CASE ~Merges(h, b)
            <4>1. s + sz1[s] = y /\ y # c
                BY <1>6, <1>22, <2>8, <3>3, <3>5
            <4>2. c \in DOMAIN sz1 /\ s < c /\ c < y
                <5>1. c \in DOMAIN sz /\ c # b
                    BY <1>1, <1>2, <3>3 DEF Ledger
                <5>2. c \in DOMAIN sz1 /\ c \in Nat
                    BY <1>1, <1>2, <1>9, <3>3, <5>1
                <5>3. b \in Nat /\ s \in Nat /\ s <= b
                    BY <1>2, <1>6, <1>7, <2>1, <2>8
                <5> QED BY <2>1, <3>3, <4>1, <5>2, <5>3
            <4>3. s + sz1[s] <= c
                BY <2>1, <2>4, <2>8, <4>2
            <4> QED BY <1>1, <1>2, <2>1, <3>3, <4>1, <4>2, <4>3
        <3> QED BY <3>4, <3>5
    <2> QED BY <2>5, <2>6, <2>7, <2>8
<1>23. Apart(k)
    BY <1>4, <1>16, <1>22 DEF Apart, F2
<1> QED BY <1>21, <1>23 DEF k

-----------------------------------------------------------------------------
(* A block is put into a list in the order of the sizes. *)

LEMMA InsertBySize ==
    ASSUME NEW h, NEW U, Sound(h, U), NEW b \in U, b \notin Elements(h.free)
    PROVE  Listed(h, U, b, prvInsertBlockIntoFreeList_2(h, b))
<1> DEFINE f == h.free
           N == Len(f)
           P == {i \in DOMAIN f : h.size[f[i]] >= h.size[b]}
           next == FirstOf(P)
           p == IF next = 0 THEN N ELSE next - 1
           t == Spliced(f, p, <<b>>, p)
           V == U \ (Elements(f) \cup {b})
           k == prvInsertBlockIntoFreeList_2(h, b)
<1>1. /\ HeapRecord(h) /\ f \in Seq(Nat) /\ Distinct(f) /\ Elements(f) \subseteq U
      /\ Ledger(h.size, U, h.taken, h.pxEnd, h.regions, h.xFreeBytesRemaining, h.wanted)
    BY DEF Sound
<1>2. b \in Nat
    <2>1. b \in DOMAIN h.size
        BY <1>1 DEF Ledger
    <2> QED BY <1>1, <2>1, LedgerFinite
<1>3. N \in Nat /\ DOMAIN f = 1 .. N /\ \A i \in 1 .. N : f[i] \in Nat
    BY <1>1
<1>4. next \in 0 .. N
    <2>1. P \in SUBSET (Nat \ {0}) /\ P \subseteq 1 .. N
        BY <1>3
    <2>2. P = {} => next = 0
        BY <2>1, FirstOfIs
    <2>3. P # {} => next \in P
        BY <2>1, FirstOfIs
    <2> HIDE DEF next, P
    <2>4. 0 \in 0 .. N /\ 1 .. N \subseteq 0 .. N
        BY <1>3
    <2> QED BY <2>1, <2>2, <2>3, <2>4
<1>5. k = [h EXCEPT !.free = IF next = 0 THEN Append(@, b) ELSE InsertAt(@, next, b)]
    BY DEF prvInsertBlockIntoFreeList_2
<1>6. HeapRecord(k) /\ SameBooks(h, k) /\ k.size = h.size /\ k.free = IF next = 0 THEN Append(f, b) ELSE InsertAt(f, next, b)
    BY <1>1, <1>5 DEF HeapRecord, SameBooks
<1> HIDE DEF f, N, next, k
<1>7. p \in 0 .. N
    BY <1>3, <1>4
<1>8. k.free = t
    <2>1. CASE next = 0
        <3>1. SubSeq(f, 1, N) = f /\ SubSeq(f, N + 1, N) = <<>>
            BY <1>1, <1>3, SubSeqFull, SubSeqEmpty DEF N
        <3>2. Append(f, b) = f \o <<b>>
            BY <1>1, <1>2, AppendIsConcat
        <3>3. f \o <<b>> \in Seq(Nat)
            BY <1>1, <1>2, ConcatProperties
        <3>4. (f \o <<b>>) \o <<>> = f \o <<b>>
            BY <3>3, ConcatEmptySeq
        <3> QED BY <1>6, <2>1, <3>1, <3>2, <3>4 DEF Spliced, N
    <2>2. CASE next # 0
        <3>1. p = next - 1 /\ p + 1 = next
            BY <1>4, <2>2
        <3> QED BY <1>6, <2>2, <3>1 DEF Spliced, InsertAt, N
    <2> QED BY <2>1, <2>2
<1> HIDE DEF p
<1>9. SplicedRight(f, p, <<b>>, p)
    <2>1. <<b>> \in Seq(Nat) /\ Len(<<b>>) \in 0 .. 1
        BY <1>2
    <2>2. \A e \in Elements(<<b>>) : e \notin Elements(f)
        BY DEF Elements, f
    <2>3. p \in 0 .. Len(f) /\ p \in p .. Len(f)
        BY <1>7, <1>3 DEF N
    <2> QED BY <1>1, <2>1, <2>2, <2>3, SpliceElements
<1>10. t \in Seq(Nat) /\ Distinct(t) /\ Elements(t) = Elements(f) \cup {b}
    <2>1. {f[i] : i \in 1 .. p} \cup {f[i] : i \in p + 1 .. Len(f)} = Elements(f)
        <3>1. p \in 0 .. Len(f)
            BY <1>7 DEF N
        <3> QED BY <1>1, <3>1, SpliceSet
    <2>2. Elements(<<b>>) = {b}
        BY DEF Elements
    <2>3. /\ t \in Seq(Nat) /\ Distinct(t)
          /\ Elements(t) = {f[i] : i \in 1 .. p} \cup Elements(<<b>>) \cup {f[i] : i \in p + 1 .. Len(f)}
        BY <1>9 DEF SplicedRight
    <2> QED BY <2>1, <2>2, <2>3
<1> HIDE DEF t
<1>11. Elements(k.free) \cup V = U /\ Elements(k.free) \cap V = {}
    BY <1>1, <1>8, <1>10
<1>12. Sound(k, U)
    BY <1>1, <1>6, <1>8, <1>10 DEF Sound, SameBooks
<1> QED BY <1>6, <1>11, <1>12 DEF Listed, k, f

-----------------------------------------------------------------------------
(* Allocation and release. *)

\* Every loose block is in the list.
Whole(h) == Sound(h, Elements(h.free))

LEMMA Take ==
    ASSUME NEW h, NEW U, Sound(h, U), NEW b \in U, b \notin Elements(h.free),
           NEW n \in Nat, Room(h.size[b], n)
    PROVE  LET k == Used(h, b, n)
           IN  /\ Sound(k, U \ {b}) /\ k.free = h.free /\ k.size = h.size
               /\ k.regions = h.regions /\ k.pxEnd = h.pxEnd /\ k.taken = h.taken \cup {b}
               /\ k.wanted = With(h.wanted, b, n)
<1> DEFINE k == Used(h, b, n)
           left == h.xFreeBytesRemaining - h.size[b]
<1>1. /\ HeapRecord(h) /\ h.free \in Seq(Nat) /\ Distinct(h.free) /\ Elements(h.free) \subseteq U
      /\ Ledger(h.size, U, h.taken, h.pxEnd, h.regions, h.xFreeBytesRemaining, h.wanted)
      /\ h.xMinimumEverFreeBytesRemaining \in Int /\ h.failed = {}
    BY DEF Sound
<1>2. /\ HeapRecord(k) /\ k.free = h.free /\ k.size = h.size /\ k.regions = h.regions /\ k.pxEnd = h.pxEnd
      /\ k.taken = h.taken \cup {b} /\ k.wanted = With(h.wanted, b, n) /\ k.failed = h.failed
      /\ k.xFreeBytesRemaining = left
      /\ k.xMinimumEverFreeBytesRemaining =
            IF left < h.xMinimumEverFreeBytesRemaining THEN left ELSE h.xMinimumEverFreeBytesRemaining
    BY <1>1 DEF HeapRecord, Used
<1>3. h.xFreeBytesRemaining \in Nat /\ h.size[b] \in Nat
    BY <1>1, LedgerFinite
<1>4. Ledger(h.size, U \ {b}, h.taken \cup {b}, h.pxEnd, h.regions, left, With(h.wanted, b, n))
    BY <1>1, TakeLedger
<1>5. left \in Int
    BY <1>3
<1> HIDE DEF k, left
<1>6. /\ k.xMinimumEverFreeBytesRemaining \in Int
      /\ k.xMinimumEverFreeBytesRemaining <= k.xFreeBytesRemaining
    BY <1>1, <1>2, <1>5
<1>7. Sound(k, U \ {b})
    BY <1>1, <1>2, <1>4, <1>6 DEF Sound
<1> QED BY <1>2, <1>7 DEF k

LEMMA Split4 ==
    ASSUME NEW h, NEW b, Sound(h, Elements(h.free) \cup {b}), b \notin Elements(h.free), Apart(h),
           NEW n \in Nat, 0 < n, n <= h.size[b], Aligned(n)
    PROVE  LET k == Split(h, b, n, prvInsertBlockIntoFreeList)
           IN  /\ Sound(k, Elements(k.free) \cup {b}) /\ b \notin Elements(k.free) /\ Apart(k)
               /\ k.size[b] >= n /\ SameBooks(h, k)
<1> DEFINE U == Elements(h.free) \cup {b}
           g == Sized(Sized(h, b + n, h.size[b] - n), b, n)
           W == U \cup {b + n}
           k == Split(h, b, n, prvInsertBlockIntoFreeList)
<1>1. k = IF h.size[b] - n > heapMINIMUM_BLOCK_SIZE THEN prvInsertBlockIntoFreeList(g, b + n) ELSE h
    BY DEF Split
<1>2. h.size[b] \in Nat /\ b \in Nat /\ U \subseteq DOMAIN h.size
    <2>1. Ledger(h.size, U, h.taken, h.pxEnd, h.regions, h.xFreeBytesRemaining, h.wanted)
        BY DEF Sound
    <2>2. b \in U /\ U \subseteq DOMAIN h.size
        BY <2>1 DEF Ledger
    <2> HIDE DEF U
    <2> QED BY <2>1, <2>2, LedgerFinite
<1>3. CASE h.size[b] - n > heapMINIMUM_BLOCK_SIZE
    <2>1. n < h.size[b]
        BY <1>2, <1>3, HeapAssumption DEF heapMINIMUM_BLOCK_SIZE
    <2>2. /\ b + n \notin DOMAIN h.size /\ Sound(g, W) /\ g.free = h.free /\ SameBooks(h, g) /\ g.size[b] = n
          /\ Apart(g)
        BY <2>1, Divide
    <2> HIDE DEF g
    <2>3. b + n \in W /\ b + n \notin Elements(g.free)
        BY <1>2, <2>2
    <2>4. Listed(g, W, b + n, k) /\ Apart(k)
        <3> HIDE DEF W
        <3> QED BY <1>1, <1>3, <2>2, <2>3, InsertInOrder
    <2> HIDE DEF k
    <2>5. W \ (Elements(g.free) \cup {b + n}) = {b}
        BY <1>2, <2>2
    <2>6. /\ SameBooks(g, k) /\ Elements(k.free) \cap {b} = {} /\ Sound(k, Elements(k.free) \cup {b})
          /\ \A v \in {b} : k.size[v] = g.size[v]
        BY <2>4, <2>5 DEF Listed
    <2>7. SameBooks(h, k)
        BY <2>2, <2>6 DEF SameBooks
    <2>8. k.size[b] >= n
        BY <2>2, <2>6
    <2> QED BY <2>4, <2>6, <2>7, <2>8 DEF k
<1>4. CASE ~(h.size[b] - n > heapMINIMUM_BLOCK_SIZE)
    BY <1>1, <1>2, <1>4 DEF SameBooks
<1> QED BY <1>3, <1>4

LEMMA Split2 ==
    ASSUME NEW h, NEW b, Sound(h, Elements(h.free) \cup {b}), b \notin Elements(h.free),
           NEW n \in Nat, 0 < n, n <= h.size[b], Aligned(n)
    PROVE  LET k == Split(h, b, n, prvInsertBlockIntoFreeList_2)
           IN  /\ Sound(k, Elements(k.free) \cup {b}) /\ b \notin Elements(k.free)
               /\ k.size[b] >= n /\ SameBooks(h, k)
<1> DEFINE U == Elements(h.free) \cup {b}
           g == Sized(Sized(h, b + n, h.size[b] - n), b, n)
           W == U \cup {b + n}
           k == Split(h, b, n, prvInsertBlockIntoFreeList_2)
<1>1. k = IF h.size[b] - n > heapMINIMUM_BLOCK_SIZE THEN prvInsertBlockIntoFreeList_2(g, b + n) ELSE h
    BY DEF Split
<1>2. h.size[b] \in Nat /\ b \in Nat /\ U \subseteq DOMAIN h.size
    <2>1. Ledger(h.size, U, h.taken, h.pxEnd, h.regions, h.xFreeBytesRemaining, h.wanted)
        BY DEF Sound
    <2>2. b \in U /\ U \subseteq DOMAIN h.size
        BY <2>1 DEF Ledger
    <2> HIDE DEF U
    <2> QED BY <2>1, <2>2, LedgerFinite
<1>3. CASE h.size[b] - n > heapMINIMUM_BLOCK_SIZE
    <2>1. n < h.size[b]
        BY <1>2, <1>3, HeapAssumption DEF heapMINIMUM_BLOCK_SIZE
    <2>2. b + n \notin DOMAIN h.size /\ Sound(g, W) /\ g.free = h.free /\ SameBooks(h, g) /\ g.size[b] = n
        BY <2>1, Divide
    <2> HIDE DEF g
    <2>3. b + n \in W /\ b + n \notin Elements(g.free)
        BY <1>2, <2>2
    <2>4. Listed(g, W, b + n, k)
        <3> HIDE DEF W
        <3> QED BY <1>1, <1>3, <2>2, <2>3, InsertBySize
    <2> HIDE DEF k
    <2>5. W \ (Elements(g.free) \cup {b + n}) = {b}
        BY <1>2, <2>2
    <2>6. /\ SameBooks(g, k) /\ Elements(k.free) \cap {b} = {} /\ Sound(k, Elements(k.free) \cup {b})
          /\ \A v \in {b} : k.size[v] = g.size[v]
        BY <2>4, <2>5 DEF Listed
    <2>7. SameBooks(h, k)
        BY <2>2, <2>6 DEF SameBooks
    <2>8. k.size[b] >= n
        BY <2>2, <2>6
    <2> QED BY <2>6, <2>7, <2>8 DEF k
<1>4. CASE ~(h.size[b] - n > heapMINIMUM_BLOCK_SIZE)
    BY <1>1, <1>2, <1>4 DEF SameBooks
<1> QED BY <1>3, <1>4

LEMMA Sizes ==
    /\ portBYTE_ALIGNMENT \in Nat \ {0} /\ xHeapStructSize \in Nat /\ xHeapStructSize <= portBYTE_ALIGNMENT
    /\ xBlockAllocatedBit \in Nat /\ 2 * portBYTE_ALIGNMENT <= xBlockAllocatedBit
    /\ SizeT \in Nat \ {0} /\ SizeT = 2 * xBlockAllocatedBit /\ portBYTE_ALIGNMENT <= SizeT
<1>1. /\ portBYTE_ALIGNMENT \in Nat \ {0} /\ xHeapStructSize \in Nat /\ xHeapStructSize <= portBYTE_ALIGNMENT
      /\ xBlockAllocatedBit \in Nat /\ 2 * portBYTE_ALIGNMENT <= xBlockAllocatedBit
    BY HeapAssumption
<1> QED BY <1>1 DEF SizeT

\* A size_t, rounded up to the alignment, is a multiple of it, or wraps to one.
LEMMA AlignUpWraps ==
    ASSUME NEW a \in 0 .. SizeT - 1
    PROVE  /\ AlignUp(a) % SizeT \in 0 .. SizeT - 1 /\ Aligned(AlignUp(a) % SizeT)
           /\ AlignUp(a) < SizeT => AlignUp(a) % SizeT = AlignUp(a)
           /\ AlignUp(a) >= SizeT => AlignUp(a) % SizeT = AlignUp(a) - SizeT
<1> DEFINE S == SizeT
           u == AlignUp(a)
<1>1. S \in Nat \ {0} /\ portBYTE_ALIGNMENT <= S /\ Aligned(S)
    BY HeapAssumption DEF SizeT, Aligned
<1> HIDE DEF S
<1>2. a \in Int /\ 0 <= a /\ a < S
    BY <1>1 DEF S
<1>3. u \in Int /\ Aligned(u) /\ a <= u /\ u < a + portBYTE_ALIGNMENT
    BY <1>2, Alignment
<1> HIDE DEF u
<1>4. 0 <= u /\ u < S + S
    BY <1>1, <1>2, <1>3, HeapAssumption
<1>5. CASE u < S
    <2>1. u % S = u
        BY <1>1, <1>3, <1>4, <1>5
    <2> QED BY <1>1, <1>3, <1>4, <1>5, <2>1 DEF S, u
<1>6. CASE u >= S
    <2>1. u - S \in 0 .. S - 1
        BY <1>1, <1>3, <1>4, <1>6
    <2>2. u % S = u - S
        <3>1. ((u - S) + 1 * S) % S = (u - S) % S /\ (u - S) % S = u - S
            BY <1>1, <2>1
        <3>2. (u - S) + 1 * S = u
            BY <1>1, <1>3
        <3> QED BY <3>1, <3>2
    <2>3. Aligned(u - S)
        BY <1>1, <1>3, AlignedSum
    <2> QED BY <1>1, <1>3, <1>6, <2>1, <2>2, <2>3 DEF S, u
<1> QED BY <1>1, <1>3, <1>5, <1>6

LEMMA RoundedIs ==
    ASSUME NEW n \in Nat, n < SizeT
    PROVE  /\ Rounded(n) \in Nat /\ Aligned(Rounded(n))
           /\ Rounded(n) >= n + xHeapStructSize \/ Wraps(n) \/ n = 0
           /\ Rounded(n) # 0 => n # 0
           /\ n < xBlockAllocatedBit => ~Wraps(n) /\ (Rounded(n) = 0 <=> n = 0)
<1> DEFINE S == SizeT
           s == n + xHeapStructSize
<1>1. S \in Nat \ {0} /\ S = 2 * xBlockAllocatedBit /\ 2 * portBYTE_ALIGNMENT <= xBlockAllocatedBit
    BY Sizes
<1> HIDE DEF S
<1>2. n \in Nat /\ n < S /\ s \in Nat /\ n <= s
    BY <1>1, Sizes DEF S
<1>3. s % S \in 0 .. S - 1
    BY <1>1, <1>2
<1>4. /\ AlignUp(s % S) % S \in 0 .. S - 1 /\ Aligned(AlignUp(s % S) % S)
      /\ AlignUp(s % S) < S => AlignUp(s % S) % S = AlignUp(s % S)
    BY <1>3, AlignUpWraps DEF S
<1>5. n < xBlockAllocatedBit => ~Wraps(n)
    BY <1>1, <1>2, Sizes DEF Wraps
<1>6. CASE n = 0
    <2>1. Rounded(n) = 0
        BY <1>6 DEF Rounded
    <2>2. Aligned(0)
        <3>1. 0 = 0 * portBYTE_ALIGNMENT
            BY Sizes
        <3> QED BY <3>1, Alignment
    <2> QED BY <1>5, <1>6, <2>1, <2>2
<1>7. CASE n # 0
    <2>1. Rounded(n) = AlignUp(s % S) % S
        BY <1>7 DEF Rounded, S
    <2>2. Rounded(n) \in Nat /\ Aligned(Rounded(n))
        BY <1>1, <1>4, <2>1
    <2>3. ASSUME ~Wraps(n) PROVE Rounded(n) >= s
        <3>1. s + portBYTE_ALIGNMENT <= S
            BY <1>1, <1>2, <2>3, Sizes DEF Wraps, S
        <3>2. s < S /\ s % S = s
            BY <1>1, <1>2, <3>1, Sizes
        <3>3. AlignUp(s) \in Int /\ s <= AlignUp(s) /\ AlignUp(s) < s + portBYTE_ALIGNMENT
            BY <1>2, Alignment
        <3> HIDE DEF s
        <3>4. AlignUp(s) < S
            BY <1>1, <1>2, <3>1, <3>3, Sizes
        <3> QED BY <1>4, <2>1, <3>2, <3>3, <3>4
    <2> QED BY <1>2, <1>5, <1>7, <2>2, <2>3
<1> QED BY <1>6, <1>7

\* The first block that fits, if there is one.
LEMMA FittingIs ==
    ASSUME NEW h, h.free \in Seq(Nat), NEW size
    PROVE  /\ Fitting(h, size) # 0 => /\ Fitting(h, size) \in DOMAIN h.free
                                      /\ h.size[h.free[Fitting(h, size)]] >= size
           /\ Fitting(h, size) = 0 => \A i \in DOMAIN h.free : ~(h.size[h.free[i]] >= size)
<1> DEFINE P == {j \in DOMAIN h.free : h.size[h.free[j]] >= size}
<1>1. P \in SUBSET (Nat \ {0}) /\ Fitting(h, size) = FirstOf(P)
    BY DEF Fitting
<1>2. P = {} => FirstOf(P) = 0
    BY <1>1, FirstOfIs
<1>3. P # {} => FirstOf(P) \in P
    BY <1>1, FirstOfIs
<1>4. P # {} => FirstOf(P) # 0
    BY <1>1, <1>3
<1> QED BY <1>1, <1>2, <1>3, <1>4

\* Block i of the list is in use, and the books are right.
Allocated(h, i, n, k) ==
    /\ Whole(k) /\ k.regions = h.regions /\ k.pxEnd = h.pxEnd
    /\ k.taken = h.taken \cup {h.free[i]} /\ h.free[i] \notin h.taken
    /\ k.wanted = With(h.wanted, h.free[i], n)

\* Block b of d is in use, by a request of n bytes.
InUse(d, b, n, k) ==
    /\ Whole(k) /\ k.free = d.free /\ k.size = d.size
    /\ k.regions = d.regions /\ k.pxEnd = d.pxEnd /\ k.taken = d.taken \cup {b}
    /\ k.wanted = With(d.wanted, b, n)

LEMMA TakeLoose ==
    ASSUME NEW d, NEW b, Sound(d, Elements(d.free) \cup {b}), b \notin Elements(d.free),
           NEW n \in Nat, n < SizeT, Rounded(n) # 0, d.size[b] >= Rounded(n)
    PROVE  InUse(d, b, n, Used(d, b, n))
<1> DEFINE U == Elements(d.free) \cup {b}
           k == Used(d, b, n)
<1>1. Sound(d, U) /\ b \in U /\ b \notin Elements(d.free) /\ U \ {b} = Elements(d.free) /\ n \in Nat
    OBVIOUS
<1> HIDE DEF U
<1>2. Room(d.size[b], n)
    <2>1. Ledger(d.size, U, d.taken, d.pxEnd, d.regions, d.xFreeBytesRemaining, d.wanted)
        BY <1>1 DEF Sound
    <2>2. b \in DOMAIN d.size
        BY <1>1, <2>1 DEF Ledger
    <2>3. d.size[b] \in Nat
        BY <2>1, <2>2, LedgerFinite
    <2>4. /\ Rounded(n) \in Nat /\ xHeapStructSize \in Nat
          /\ Rounded(n) >= n + xHeapStructSize \/ Wraps(n)
        BY Sizes, RoundedIs
    <2> QED BY <1>1, <2>3, <2>4 DEF Room
<1>3. /\ Sound(k, U \ {b}) /\ k.free = d.free /\ k.size = d.size
      /\ k.regions = d.regions /\ k.pxEnd = d.pxEnd /\ k.taken = d.taken \cup {b}
      /\ k.wanted = With(d.wanted, b, n)
    BY <1>1, <1>2, Take
<1> HIDE DEF k
<1>4. Whole(k)
    BY <1>1, <1>3 DEF Whole
<1> QED BY <1>1, <1>3, <1>4 DEF InUse, k

LEMMA Allocation4 ==
    ASSUME NEW h, Whole(h), Apart(h), NEW i \in DOMAIN h.free,
           NEW n \in Nat, n < SizeT, Rounded(n) # 0, h.size[h.free[i]] >= Rounded(n)
    PROVE  LET k == Used(Split([h EXCEPT !.free = RemoveAt(@, i)], h.free[i], Rounded(n),
                               prvInsertBlockIntoFreeList), h.free[i], n)
           IN  Allocated(h, i, n, k) /\ Apart(k)
<1> DEFINE b == h.free[i]
           g == [h EXCEPT !.free = RemoveAt(@, i)]
           d == Split(g, b, Rounded(n), prvInsertBlockIntoFreeList)
           k == Used(d, b, n)
<1>1. b \in Elements(h.free)
    BY DEF Elements
<1>2. /\ Sound(g, Elements(h.free)) /\ Elements(g.free) = Elements(h.free) \ {b}
      /\ SameBooks(h, g) /\ g.size = h.size /\ Apart(g)
    BY Unlink DEF Whole
<1> HIDE DEF g, b
<1>3. Elements(g.free) \cup {b} = Elements(h.free) /\ b \notin Elements(g.free)
    BY <1>1, <1>2
<1>4. /\ n \in Nat /\ Rounded(n) \in Nat /\ Aligned(Rounded(n)) /\ 0 < Rounded(n)
      /\ Rounded(n) >= n + xHeapStructSize \/ Wraps(n)
    BY RoundedIs
<1>5. g.size[b] \in Nat /\ Rounded(n) <= g.size[b]
    <2>1. Ledger(g.size, Elements(h.free), g.taken, g.pxEnd, g.regions, g.xFreeBytesRemaining, g.wanted)
        BY <1>2 DEF Sound
    <2>2. g.size[b] \in Nat
        BY <1>1, <2>1, LedgerFinite
    <2> QED BY <1>2, <1>4, <2>2 DEF b
<1>6. /\ Sound(d, Elements(d.free) \cup {b}) /\ b \notin Elements(d.free) /\ Apart(d)
      /\ d.size[b] >= Rounded(n) /\ SameBooks(g, d)
    BY <1>2, <1>3, <1>4, <1>5, Split4
<1> HIDE DEF d
<1>7. InUse(d, b, n, k)
    <2>1. Sound(d, Elements(d.free) \cup {b}) /\ b \notin Elements(d.free) /\ d.size[b] >= Rounded(n)
        BY <1>6
    <2> QED BY <2>1, TakeLoose
<1> HIDE DEF k
<1>8. Apart(k)
    BY <1>6, <1>7 DEF Apart, InUse
<1>9. b \notin h.taken
    BY <1>1 DEF Whole, Sound, Ledger
<1> QED BY <1>2, <1>6, <1>7, <1>8, <1>9 DEF Allocated, InUse, SameBooks, k, d, b, g

LEMMA Allocation2 ==
    ASSUME NEW h, Whole(h), NEW i \in DOMAIN h.free,
           NEW n \in Nat, n < SizeT, Rounded(n) # 0, h.size[h.free[i]] >= Rounded(n)
    PROVE  LET k == Used(Split([h EXCEPT !.free = RemoveAt(@, i)], h.free[i], Rounded(n),
                               prvInsertBlockIntoFreeList_2), h.free[i], n)
           IN  Allocated(h, i, n, k)
<1> DEFINE b == h.free[i]
           g == [h EXCEPT !.free = RemoveAt(@, i)]
           d == Split(g, b, Rounded(n), prvInsertBlockIntoFreeList_2)
           k == Used(d, b, n)
<1>1. b \in Elements(h.free)
    BY DEF Elements
<1>2. /\ Sound(g, Elements(h.free)) /\ Elements(g.free) = Elements(h.free) \ {b}
      /\ SameBooks(h, g) /\ g.size = h.size
    BY Unlink DEF Whole
<1> HIDE DEF g, b
<1>3. Elements(g.free) \cup {b} = Elements(h.free) /\ b \notin Elements(g.free)
    BY <1>1, <1>2
<1>4. /\ n \in Nat /\ Rounded(n) \in Nat /\ Aligned(Rounded(n)) /\ 0 < Rounded(n)
      /\ Rounded(n) >= n + xHeapStructSize \/ Wraps(n)
    BY RoundedIs
<1>5. g.size[b] \in Nat /\ Rounded(n) <= g.size[b]
    <2>1. Ledger(g.size, Elements(h.free), g.taken, g.pxEnd, g.regions, g.xFreeBytesRemaining, g.wanted)
        BY <1>2 DEF Sound
    <2>2. g.size[b] \in Nat
        BY <1>1, <2>1, LedgerFinite
    <2> QED BY <1>2, <1>4, <2>2 DEF b
<1>6. /\ Sound(d, Elements(d.free) \cup {b}) /\ b \notin Elements(d.free)
      /\ d.size[b] >= Rounded(n) /\ SameBooks(g, d)
    BY <1>2, <1>3, <1>4, <1>5, Split2
<1> HIDE DEF d
<1>7. InUse(d, b, n, k)
    <2>1. Sound(d, Elements(d.free) \cup {b}) /\ b \notin Elements(d.free) /\ d.size[b] >= Rounded(n)
        BY <1>6
    <2> QED BY <2>1, TakeLoose
<1> HIDE DEF k
<1>8. b \notin h.taken
    BY <1>1 DEF Whole, Sound, Ledger
<1> QED BY <1>2, <1>6, <1>7, <1>8 DEF Allocated, InUse, SameBooks, k, d, b, g

LEMMA Release ==
    ASSUME NEW h, Whole(h), NEW b \in h.taken
    PROVE  LET k == [h EXCEPT !.taken = @ \ {b}, !.wanted = Drop(@, b),
                              !.xFreeBytesRemaining = @ + h.size[b],
                              !.xNumberOfSuccessfulFrees = @ + 1]
           IN  /\ Sound(k, Elements(h.free) \cup {b}) /\ b \notin Elements(k.free)
               /\ k.free = h.free /\ k.pxEnd = h.pxEnd /\ k.regions = h.regions
               /\ k.taken = h.taken \ {b} /\ (Apart(h) => Apart(k)) /\ (Modest(h) => Modest(k))
<1> DEFINE k == [h EXCEPT !.taken = @ \ {b}, !.wanted = Drop(@, b),
                          !.xFreeBytesRemaining = @ + h.size[b],
                          !.xNumberOfSuccessfulFrees = @ + 1]
<1>1. /\ HeapRecord(h) /\ h.free \in Seq(Nat) /\ Distinct(h.free)
      /\ Ledger(h.size, Elements(h.free), h.taken, h.pxEnd, h.regions, h.xFreeBytesRemaining, h.wanted)
      /\ h.xMinimumEverFreeBytesRemaining \in Int /\ h.failed = {}
      /\ h.xMinimumEverFreeBytesRemaining <= h.xFreeBytesRemaining
    BY DEF Whole, Sound
<1>2. /\ HeapRecord(k) /\ k.free = h.free /\ k.size = h.size /\ k.regions = h.regions /\ k.pxEnd = h.pxEnd
      /\ k.taken = h.taken \ {b} /\ k.wanted = Drop(h.wanted, b) /\ k.failed = h.failed
      /\ k.xFreeBytesRemaining = h.xFreeBytesRemaining + h.size[b]
      /\ k.xMinimumEverFreeBytesRemaining = h.xMinimumEverFreeBytesRemaining
    BY <1>1 DEF HeapRecord
<1> HIDE DEF k
<1>3. b \in DOMAIN h.size /\ b \notin Elements(h.free)
    BY <1>1 DEF Ledger
<1>4. h.size[b] \in Nat /\ h.xFreeBytesRemaining \in Nat
    BY <1>1, <1>3, LedgerFinite
<1>5. Ledger(h.size, Elements(h.free) \cup {b}, h.taken \ {b}, h.pxEnd, h.regions,
             h.xFreeBytesRemaining + h.size[b], Drop(h.wanted, b))
    BY <1>1, ReleaseLedger
<1>6. k.xMinimumEverFreeBytesRemaining <= k.xFreeBytesRemaining
    BY <1>1, <1>2, <1>4
<1>7. Sound(k, Elements(h.free) \cup {b})
    BY <1>1, <1>2, <1>5, <1>6 DEF Sound
<1>8. Apart(h) => Apart(k)
    BY <1>2 DEF Apart
<1>9. Modest(h) => Modest(k)
    <2>1. \A y \in h.taken \ {b} : Drop(h.wanted, b)[y] = h.wanted[y]
        BY <1>1 DEF Drop, Ledger
    <2> QED BY <1>2, <2>1 DEF Modest
<1> QED BY <1>2, <1>3, <1>7, <1>8, <1>9 DEF k

LEMMA Free4 ==
    ASSUME NEW h, Whole(h), Apart(h), Modest(h), NEW b \in h.taken
    PROVE  LET k == vPortFree(h, b)
           IN  Whole(k) /\ Apart(k) /\ Modest(k) /\ k.pxEnd = h.pxEnd /\ k.regions = h.regions
<1> DEFINE g == [h EXCEPT !.taken = @ \ {b}, !.wanted = Drop(@, b),
                          !.xFreeBytesRemaining = @ + h.size[b],
                          !.xNumberOfSuccessfulFrees = @ + 1]
           k == prvInsertBlockIntoFreeList(g, b)
           U == Elements(h.free) \cup {b}
<1>1. vPortFree(h, b) = k
    BY DEF vPortFree
<1>2. /\ Sound(g, U) /\ b \notin Elements(g.free) /\ g.free = h.free /\ Apart(g) /\ Modest(g)
      /\ g.pxEnd = h.pxEnd /\ g.regions = h.regions
    BY Release
<1> HIDE DEF g
<1>3. Listed(g, U, b, k) /\ Apart(k)
    <2>1. b \in U
        OBVIOUS
    <2> HIDE DEF U
    <2> QED BY <1>2, <2>1, InsertInOrder
<1> HIDE DEF k
<1>4. U \ (Elements(g.free) \cup {b}) = {}
    BY <1>2
<1>5. Sound(k, Elements(k.free) \cup {}) /\ SameBooks(g, k)
    BY <1>3, <1>4 DEF Listed
<1>6. Whole(k)
    <2>1. Elements(k.free) \cup {} = Elements(k.free)
        OBVIOUS
    <2> QED BY <1>5, <2>1 DEF Whole
<1>7. Modest(k)
    BY <1>2, <1>5 DEF Modest, SameBooks
<1> QED BY <1>1, <1>2, <1>3, <1>5, <1>6, <1>7 DEF SameBooks

LEMMA Free2 ==
    ASSUME NEW h, Whole(h), NEW b \in h.taken
    PROVE  LET k == vPortFree_2(h, b)
           IN  Whole(k) /\ k.pxEnd = h.pxEnd /\ k.regions = h.regions
<1> DEFINE g == [h EXCEPT !.taken = @ \ {b}, !.wanted = Drop(@, b),
                          !.xFreeBytesRemaining = @ + h.size[b],
                          !.xNumberOfSuccessfulFrees = @ + 1]
           k == prvInsertBlockIntoFreeList_2(g, b)
           U == Elements(h.free) \cup {b}
<1>1. vPortFree_2(h, b) = k
    BY DEF vPortFree_2
<1>2. /\ Sound(g, U) /\ b \notin Elements(g.free) /\ g.free = h.free
      /\ g.pxEnd = h.pxEnd /\ g.regions = h.regions
    BY Release
<1> HIDE DEF g
<1>3. Listed(g, U, b, k)
    <2>1. b \in U
        OBVIOUS
    <2> HIDE DEF U
    <2> QED BY <1>2, <2>1, InsertBySize
<1> HIDE DEF k
<1>4. U \ (Elements(g.free) \cup {b}) = {}
    BY <1>2
<1>5. Sound(k, Elements(k.free) \cup {}) /\ SameBooks(g, k)
    BY <1>3, <1>4 DEF Listed
<1>6. Whole(k)
    <2>1. Elements(k.free) \cup {} = Elements(k.free)
        OBVIOUS
    <2> QED BY <1>5, <2>1 DEF Whole
<1> QED BY <1>1, <1>2, <1>5, <1>6 DEF SameBooks

\* When pvPortMalloc takes a block, and what becomes of the heap.
Fits(h, n) ==
    /\ n < xBlockAllocatedBit /\ n # 0 /\ Rounded(n) <= h.xFreeBytesRemaining
    /\ \E b \in Elements(h.free) : h.size[b] >= Rounded(n)

LEMMA Allocate4 ==
    ASSUME NEW h, Whole(h), Apart(h), Modest(h), NEW n \in Nat, n < SizeT
    PROVE  LET k == Allocate(h, n)
           IN  /\ Whole(k) /\ Apart(k) /\ Modest(k) /\ k.pxEnd = h.pxEnd /\ k.regions = h.regions
               /\ k.taken # h.taken <=> Fits(h, n)
<1> DEFINE i == Fitting(h, Rounded(n))
           k == Allocate(h, n)
           meets == n < xBlockAllocatedBit /\ n # 0 /\ Rounded(n) <= h.xFreeBytesRemaining /\ i # 0
<1>1. h.free \in Seq(Nat) /\ h.xFreeBytesRemaining \in Nat /\ xBlockAllocatedBit \in Nat
    <2>1. Ledger(h.size, Elements(h.free), h.taken, h.pxEnd, h.regions, h.xFreeBytesRemaining, h.wanted)
        BY DEF Whole, Sound
    <2> QED BY <2>1, LedgerFinite, HeapAssumption DEF Whole, Sound
<1>2. n \in Nat /\ Rounded(n) \in Nat /\ (n < xBlockAllocatedBit => (Rounded(n) = 0 <=> n = 0))
    BY RoundedIs
<1>3. /\ i # 0 => i \in DOMAIN h.free /\ h.size[h.free[i]] >= Rounded(n)
      /\ i = 0 => \A j \in DOMAIN h.free : ~(h.size[h.free[j]] >= Rounded(n))
    BY <1>1, FittingIs
<1>4. meets <=> Fits(h, n)
    BY <1>3 DEF Fits, Elements
<1>5. CASE meets
    <2>1. k = Used(Split([h EXCEPT !.free = RemoveAt(@, i)], h.free[i], Rounded(n),
                         prvInsertBlockIntoFreeList), h.free[i], n)
        BY <1>1, <1>2, <1>5 DEF Allocate
    <2>2. Allocated(h, i, n, k) /\ Apart(k)
        <3> HIDE DEF i, k
        <3> QED BY <1>2, <1>3, <1>5, <2>1, Allocation4
    <2>3. Modest(k)
        <3> DEFINE b == h.free[i]
        <3>1. b \notin h.taken /\ k.taken = h.taken \cup {b} /\ k.wanted = With(h.wanted, b, n)
            BY <2>2 DEF Allocated
        <3>2. h.taken \subseteq DOMAIN h.wanted
            BY DEF Whole, Sound, Ledger
        <3> HIDE DEF b, k
        <3>3. k.wanted[b] = n /\ \A a \in h.taken : k.wanted[a] = h.wanted[a]
            BY <3>1, <3>2 DEF With
        <3> QED BY <1>5, <3>1, <3>3 DEF Modest
    <2> QED BY <1>4, <1>5, <2>2, <2>3 DEF Allocated
<1>6. CASE ~meets
    <2>1. k = h
        BY <1>1, <1>2, <1>6 DEF Allocate
    <2> QED BY <1>4, <1>6, <2>1
<1> QED BY <1>5, <1>6

LEMMA Allocate2 ==
    ASSUME NEW h, Whole(h), h.regions # {}, NEW n \in Nat, n < SizeT
    PROVE  LET k == pvPortMalloc_2(h, n)
           IN  Whole(k) /\ k.pxEnd = h.pxEnd /\ k.regions = h.regions
<1> DEFINE i == Fitting(h, Rounded(n))
           k == pvPortMalloc_2(h, n)
           fails == Rounded(n) = 0 \/ Rounded(n) >= configADJUSTED_HEAP_SIZE \/ i = 0
<1>1. h.free \in Seq(Nat)
    BY DEF Whole, Sound
<1>2. i # 0 => i \in DOMAIN h.free /\ h.size[h.free[i]] >= Rounded(n)
    BY <1>1, FittingIs
<1>3. CASE ~fails
    <2>1. Rounded(n) # 0
        BY <1>3
    <2>2. k = Used(Split([h EXCEPT !.free = RemoveAt(@, i)], h.free[i], Rounded(n),
                         prvInsertBlockIntoFreeList_2), h.free[i], n)
        BY <1>3 DEF pvPortMalloc_2
    <2>3. Allocated(h, i, n, k)
        <3> HIDE DEF i, k
        <3> QED BY <1>2, <1>3, <2>1, <2>2, Allocation2
    <2> QED BY <2>3 DEF Allocated
<1>4. CASE fails
    <2>1. k = h
        BY <1>4 DEF pvPortMalloc_2
    <2> QED BY <2>1
<1> QED BY <1>3, <1>4

-----------------------------------------------------------------------------
(* The heap at first: one region after another, each beyond those before.  *)

LEMMA NewBlock ==
    ASSUME NEW sz, NEW R, Tiled(sz, R), NEW lo \in Nat, NEW n \in Nat, 0 < n,
           \A b \in DOMAIN sz : b + sz[b] < lo,
           \A r \in R : r[1] < lo /\ r[2] < lo
    PROVE  Tiled(With(sz, lo, n), R \cup {<<lo, lo + n>>})
<1> DEFINE D  == DOMAIN sz
           to == With(sz, lo, n)
           reg == <<lo, lo + n>>
<1>1. /\ IsFiniteSet(D) /\ \A b \in D : b \in Nat /\ sz[b] \in Nat /\ b < lo
      /\ \A a, b \in D : a < b => a + sz[a] <= b
    <2>1. IsFiniteSet(D) /\ (\A a, b \in D : a < b => a + sz[a] <= b) /\ \A b \in D : b \in Nat /\ sz[b] \in Nat
        BY DEF Tiled
    <2> QED BY <2>1
<1>2. lo \notin D
    BY <1>1
<1>3. DOMAIN to = D \cup {lo} /\ to[lo] = n /\ \A b \in D : to[b] = sz[b]
    BY <1>2 DEF With
<1>4. to \in [D \cup {lo} -> Nat]
    BY <1>1 DEF With
<1> HIDE DEF to
<1>5. IsFiniteSet(D \cup {lo})
    BY <1>1, FS_AddElement
<1>6. \A a, b \in D \cup {lo} : a < b => a + to[a] <= b
    BY <1>1, <1>3
<1>7. ASSUME NEW r \in R
      PROVE  /\ r[1] \in Nat /\ r[2] \in Nat
             /\ \A b \in D \cup {lo} : b < r[1] => b + to[b] < r[1]
             /\ \A b \in D \cup {lo} : b < r[2] => b + to[b] <= r[2]
             /\ r[2] \in D \cup {lo} => to[r[2]] = 0
             /\ SumOf(to, Within(to, r)) = r[2] - r[1]
    <2>1. /\ r[1] \in Nat /\ r[2] \in Nat
          /\ \A b \in D : b < r[1] => b + sz[b] < r[1]
          /\ \A b \in D : b < r[2] => b + sz[b] <= r[2]
          /\ r[2] \in D => sz[r[2]] = 0
          /\ SumOf(sz, Within(sz, r)) = r[2] - r[1]
        BY DEF Tiled
    <2>2. r[1] < lo /\ r[2] < lo /\ ~(lo < r[1]) /\ ~(lo < r[2]) /\ r[2] # lo
        BY <2>1
    <2>3. Within(to, r) = Within(sz, r)
        BY <1>3, <2>2 DEF Within
    <2>4. SumOf(sz, Within(sz, r)) = SumOf(to, Within(sz, r))
        <3>1. IsFiniteSet(Within(sz, r))
            BY <1>1, FS_Subset DEF Within
        <3>2. \A x \in Within(sz, r) : sz[x] \in Int /\ sz[x] = to[x]
            BY <1>1, <1>3 DEF Within
        <3> QED BY <3>1, <3>2, SumAgree
    <2> QED BY <1>3, <2>1, <2>2, <2>3, <2>4
<1>8. /\ reg[1] = lo /\ reg[2] = lo + n /\ lo + n \in Nat
      /\ \A b \in D \cup {lo} : b < lo => b + to[b] < lo
      /\ \A b \in D \cup {lo} : b < lo + n => b + to[b] <= lo + n
      /\ lo + n \notin D \cup {lo}
      /\ SumOf(to, Within(to, reg)) = (lo + n) - lo
    <2>1. Within(to, reg) = {lo}
        BY <1>1, <1>3 DEF Within
    <2>2. SumOf(to, {lo}) = n
        <3>0. to[lo] \in Int
            BY <1>3
        <3>1. IsFiniteSet({lo}) /\ \A x \in {lo} : to[x] \in Int
            BY <3>0, FS_Singleton
        <3>2. {lo} \ {lo} = {}
            OBVIOUS
        <3>3. SumOf(to, {lo}) = to[lo] + SumOf(to, {lo} \ {lo}) /\ SumOf(to, {}) = 0
            BY <3>1, SumRemove
        <3> QED BY <1>3, <3>2, <3>3
    <2> QED BY <1>1, <1>3, <2>1, <2>2
<1> HIDE DEF reg
<1>9. \A r \in R \cup {reg} :
        /\ r[1] \in Nat /\ r[2] \in Nat
        /\ \A b \in D \cup {lo} : b < r[1] => b + to[b] < r[1]
        /\ \A b \in D \cup {lo} : b < r[2] => b + to[b] <= r[2]
        /\ r[2] \in D \cup {lo} => to[r[2]] = 0
        /\ SumOf(to, Within(to, r)) = r[2] - r[1]
    <2>1. /\ reg[1] \in Nat /\ reg[2] \in Nat
          /\ \A b \in D \cup {lo} : b < reg[1] => b + to[b] < reg[1]
          /\ \A b \in D \cup {lo} : b < reg[2] => b + to[b] <= reg[2]
          /\ reg[2] \in D \cup {lo} => to[reg[2]] = 0
          /\ SumOf(to, Within(to, reg)) = reg[2] - reg[1]
        BY <1>8
    <2> QED BY <1>7, <2>1
<1>10. \A b \in D \cup {lo} : b \in Nat
    BY <1>1
<1>11. Tiled(to, R \cup {reg})
    BY <1>3, <1>4, <1>5, <1>6, <1>9, <1>10 DEF Tiled
<1> QED BY <1>11 DEF to, reg

LEMMA NewMarker ==
    ASSUME NEW sz, NEW R, Tiled(sz, R), NEW e \in Nat,
           \A b \in DOMAIN sz : b < e /\ b + sz[b] <= e,
           \A r \in R : r[1] <= e /\ r[2] <= e
    PROVE  Tiled(With(sz, e, 0), R)
<1> DEFINE D  == DOMAIN sz
           to == With(sz, e, 0)
<1>1. /\ IsFiniteSet(D) /\ \A b \in D : b \in Nat /\ sz[b] \in Nat
      /\ \A a, b \in D : a < b => a + sz[a] <= b
    BY DEF Tiled
<1>2. e \notin D
    BY <1>1
<1>3. DOMAIN to = D \cup {e} /\ to[e] = 0 /\ \A b \in D : to[b] = sz[b]
    BY <1>2 DEF With
<1>4. to \in [D \cup {e} -> Nat]
    BY <1>1 DEF With
<1> HIDE DEF to
<1>5. IsFiniteSet(D \cup {e})
    BY <1>1, FS_AddElement
<1>6. \A a, b \in D \cup {e} : a < b => a + to[a] <= b
    BY <1>1, <1>3
<1>7. ASSUME NEW r \in R
      PROVE  /\ r[1] \in Nat /\ r[2] \in Nat
             /\ \A b \in D \cup {e} : b < r[1] => b + to[b] < r[1]
             /\ \A b \in D \cup {e} : b < r[2] => b + to[b] <= r[2]
             /\ r[2] \in D \cup {e} => to[r[2]] = 0
             /\ SumOf(to, Within(to, r)) = r[2] - r[1]
    <2>1. /\ r[1] \in Nat /\ r[2] \in Nat
          /\ \A b \in D : b < r[1] => b + sz[b] < r[1]
          /\ \A b \in D : b < r[2] => b + sz[b] <= r[2]
          /\ r[2] \in D => sz[r[2]] = 0
          /\ SumOf(sz, Within(sz, r)) = r[2] - r[1]
        BY DEF Tiled
    <2>2. ~(e < r[1]) /\ ~(e < r[2])
        BY <2>1
    <2>3. Within(to, r) = Within(sz, r)
        BY <1>3, <2>2 DEF Within
    <2>4. SumOf(sz, Within(sz, r)) = SumOf(to, Within(sz, r))
        <3>1. IsFiniteSet(Within(sz, r))
            BY <1>1, FS_Subset DEF Within
        <3>2. \A x \in Within(sz, r) : sz[x] \in Int /\ sz[x] = to[x]
            BY <1>1, <1>3 DEF Within
        <3> QED BY <3>1, <3>2, SumAgree
    <2> QED BY <1>3, <2>1, <2>2, <2>3, <2>4
<1>8. \A b \in D \cup {e} : b \in Nat
    BY <1>1
<1>9. Tiled(to, R)
    BY <1>3, <1>4, <1>5, <1>6, <1>7, <1>8 DEF Tiled
<1> QED BY <1>9 DEF to

\* With nothing in use, the last marker joins the loose blocks.
LEMMA RegionLedger ==
    ASSUME NEW sz, NEW U, NEW E, NEW R, NEW x, NEW w, Ledger(sz, U, {}, E, R, x, w),
           NEW lo \in Nat, NEW end \in Nat, Aligned(lo), Aligned(end), lo < end,
           \A b \in DOMAIN sz : b + sz[b] < lo,
           \A r \in R : r[1] < lo /\ r[2] < lo,
           NEW M, M = (IF E \in DOMAIN sz THEN {E} ELSE {}), M \cap U = {}, \A b \in M : sz[b] = 0
    PROVE  Ledger(With(With(sz, lo, end - lo), end, 0), U \cup M \cup {lo}, {}, end,
                  R \cup {<<lo, end>>}, x + end - lo, w)
<1> DEFINE D  == DOMAIN sz
           s1 == With(sz, lo, end - lo)
           to == With(s1, end, 0)
           V  == U \cup M
           W  == V \cup {lo}
           R2 == R \cup {<<lo, end>>}
<1>1. /\ Tiled(sz, R) /\ U \subseteq D /\ D \subseteq U \cup {E} /\ \A b \in D : Aligned(b)
      /\ x = SumOf(sz, U) /\ \A r \in R : r[2] \in Nat
    BY DEF Ledger, Tiled
<1>2. /\ IsFiniteSet(U) /\ x \in Nat
      /\ \A b \in D : b \in Nat /\ sz[b] \in Nat
      /\ \A b \in U : b \in D /\ sz[b] \in Nat /\ sz[b] \in Int
    BY LedgerFinite
<1>3. lo + (end - lo) = end /\ end - lo \in Nat /\ 0 < end - lo
    OBVIOUS
<1>4. Tiled(s1, R2)
    <2>1. Tiled(s1, R \cup {<<lo, lo + (end - lo)>>})
        BY <1>1, <1>3, NewBlock
    <2> QED BY <1>3, <2>1
<1>5. \A b \in D : b < lo
    BY <1>2
<1>6. /\ DOMAIN s1 = D \cup {lo} /\ s1[lo] = end - lo /\ \A b \in D : s1[b] = sz[b]
    BY <1>2, <1>5 DEF With
<1> HIDE DEF s1
<1>7. Tiled(to, R2)
    <2>1. \A b \in DOMAIN s1 : b < end /\ b + s1[b] <= end
        BY <1>2, <1>5, <1>6
    <2>2. \A r \in R2 : r[1] <= end /\ r[2] <= end
        <3>1. \A r \in R : r[1] \in Nat /\ r[2] \in Nat
            BY <1>1 DEF Tiled
        <3> QED BY <3>1
    <2> HIDE DEF R2
    <2> QED BY <1>4, <2>1, <2>2, NewMarker
<1>8. /\ DOMAIN to = D \cup {lo, end} /\ to[lo] = end - lo /\ to[end] = 0 /\ \A b \in D : to[b] = sz[b]
    BY <1>2, <1>5, <1>6 DEF With
<1> HIDE DEF to
<1>9. V \subseteq D /\ D \subseteq V /\ IsFiniteSet(V) /\ lo \notin V
    <2>1. V = D
        BY <1>1
    <2>2. IsFiniteSet(D)
        BY <1>1 DEF Tiled
    <2> QED BY <1>2, <1>5, <2>1, <2>2
<1>10. SumOf(to, V) = x
    <2>1. SumOf(sz, V) = SumOf(to, V)
        BY <1>2, <1>8, <1>9, SumAgree
    <2>2. SumOf(sz, V) = SumOf(sz, U)
        <3>1. CASE E \in D
            <4>1. E \in V /\ V \ {E} = U /\ sz[E] = 0
                BY <3>1
            <4>2. SumOf(sz, V) = sz[E] + SumOf(sz, V \ {E})
                <5> HIDE DEF V
                <5> QED BY <1>2, <1>9, <4>1, SumRemove
            <4>3. SumOf(sz, V \ {E}) = SumOf(sz, U)
                BY <4>1
            <4>4. SumOf(sz, U) \in Nat
                BY <1>1, <1>2
            <4> HIDE DEF V
            <4> QED BY <4>1, <4>2, <4>3, <4>4
        <3>2. CASE E \notin D
            <4>1. V = U
                BY <3>2
            <4> QED BY <4>1
        <3> QED BY <3>1, <3>2
    <2> QED BY <1>1, <2>1, <2>2
<1>11. x + end - lo = SumOf(to, W)
    <2>1. IsFiniteSet(W) /\ lo \in W /\ W \ {lo} = V
        BY <1>9, FS_AddElement
    <2>2. \A b \in W : to[b] \in Int
        BY <1>2, <1>3, <1>8, <1>9
    <2> HIDE DEF W, V
    <2>3. SumOf(to, W) = to[lo] + SumOf(to, W \ {lo})
        BY <2>1, <2>2, SumRemove
    <2>4. to[lo] = end - lo
        BY <1>8
    <2>5. SumOf(to, W) = (end - lo) + x
        BY <1>10, <2>1, <2>3, <2>4
    <2>6. x + end - lo = (end - lo) + x
        BY <1>2
    <2> QED BY <2>5, <2>6
<1>12. W \subseteq DOMAIN to /\ DOMAIN to \subseteq W \cup {} \cup {end}
    BY <1>8, <1>9
<1>13. \A r \in R2 : end >= r[2]
    <2>1. \A r \in R : r[2] \in Nat /\ r[2] < lo
        BY <1>1
    <2> QED BY <2>1
<1>14. \A b \in DOMAIN to : Aligned(b)
    BY <1>1, <1>8
<1> HIDE DEF W, R2
<1>15. Ledger(to, W, {}, end, R2, x + end - lo, w)
    BY <1>7, <1>11, <1>12, <1>13, <1>14 DEF Ledger
<1> QED BY <1>15 DEF to, s1, W, V, R2

LEMMA AppendUp ==
    ASSUME NEW f \in Seq(Nat), Ascending(f), NEW e \in Nat, \A x \in Elements(f) : x < e
    PROVE  LET t == Append(f, e)
           IN  t \in Seq(Nat) /\ Ascending(t) /\ Distinct(t) /\ Elements(t) = Elements(f) \cup {e}
<1> DEFINE t == Append(f, e)
           N == Len(f)
<1>1. N \in Nat /\ DOMAIN f = 1 .. N /\ \A i \in 1 .. N : f[i] \in Nat /\ f[i] < e
    BY DEF Elements
<1>2. /\ t \in Seq(Nat) /\ DOMAIN t = 1 .. N + 1 /\ t[N + 1] = e
      /\ \A i \in 1 .. N : t[i] = f[i]
    BY AppendProperties
<1> HIDE DEF t, N
<1>3. \A i \in 1 .. N + 1 : i \in 1 .. N \/ i = N + 1
    BY <1>1
<1>4. \A i \in 1 .. N : i \in 1 .. N + 1 /\ i # N + 1
    BY <1>1
<1>5. Elements(t) = Elements(f) \cup {e}
    <2>1. N + 1 \in 1 .. N + 1
        BY <1>1
    <2> QED BY <1>1, <1>2, <1>3, <1>4, <2>1 DEF Elements
<1>6. ASSUME NEW i \in 1 .. N + 1, NEW j \in 1 .. N + 1, i < j PROVE t[i] < t[j]
    <2>1. i \in 1 .. N
        BY <1>1, <1>6
    <2>2. CASE j = N + 1
        BY <1>1, <1>2, <2>1, <2>2
    <2>3. CASE j # N + 1
        <3>1. j \in 1 .. N
            BY <1>3, <2>3
        <3> QED BY <1>1, <1>2, <1>6, <2>1, <3>1 DEF Ascending
    <2> QED BY <2>2, <2>3
<1>7. Ascending(t)
    BY <1>2, <1>6 DEF Ascending
<1>8. Distinct(t)
    <2>1. \A i \in 1 .. N + 1 : t[i] \in Nat
        BY <1>1, <1>2, <1>3
    <2>2. \A i, j \in 1 .. N + 1 : i # j => i < j \/ j < i
        BY <1>1
    <2> QED BY <1>2, <1>6, <2>1, <2>2 DEF Distinct
<1> QED BY <1>2, <1>5, <1>7, <1>8 DEF t

\* Nothing is in use, and no block, marker or region is beyond top.
Fresh(h, top) ==
    /\ Whole(h) /\ Apart(h) /\ h.taken = {}
    /\ \A b \in DOMAIN h.size : b + h.size[b] <= top
    /\ \A r \in h.regions : r[1] <= top /\ r[2] <= top
    /\ h.pxEnd = NoBlock => h.free = <<>>
    /\ h.pxEnd # NoBlock => /\ h.pxEnd \in DOMAIN h.size /\ h.size[h.pxEnd] = 0
                            /\ \A b \in Elements(h.free) : b < h.pxEnd

\* k is h with one region more.
Extended(h, lo, end, k) ==
    /\ HeapRecord(k) /\ k.pxEnd = end /\ k.size = With(With(h.size, lo, end - lo), end, 0)
    /\ k.free = (IF h.pxEnd = NoBlock THEN h.free ELSE Append(h.free, h.pxEnd)) \o <<lo>>
    /\ k.taken = h.taken /\ k.wanted = h.wanted /\ k.regions = h.regions \cup {<<lo, end>>}
    /\ k.xFreeBytesRemaining = h.xFreeBytesRemaining + end - lo
    /\ k.xMinimumEverFreeBytesRemaining = h.xMinimumEverFreeBytesRemaining + end - lo
    /\ k.failed = h.failed

LEMMA Extend ==
    ASSUME NEW h, NEW top \in Int, Fresh(h, top),
           NEW lo \in Nat, NEW end \in Nat, Aligned(lo), Aligned(end), top < lo, lo < end,
           NEW k, Extended(h, lo, end, k)
    PROVE  Fresh(k, end) /\ k.pxEnd # NoBlock /\ k.regions # {} /\ k.xFreeBytesRemaining # 0
<1> DEFINE sz == h.size
           f  == h.free
           F  == Elements(f)
           E  == h.pxEnd
           M  == IF E \in DOMAIN sz THEN {E} ELSE {}
           g  == IF E = NoBlock THEN f ELSE Append(f, E)
           t  == Append(g, lo)
           to == With(With(sz, lo, end - lo), end, 0)
<1>1. /\ HeapRecord(h) /\ f \in Seq(Nat) /\ Distinct(f) /\ Ascending(f)
      /\ Ledger(sz, F, {}, E, h.regions, h.xFreeBytesRemaining, h.wanted)
      /\ h.xMinimumEverFreeBytesRemaining \in Int /\ h.failed = {}
      /\ h.xMinimumEverFreeBytesRemaining <= h.xFreeBytesRemaining
      /\ \A a, c \in F : a + sz[a] = c => sz[c] = 0
    BY DEF Fresh, Whole, Sound, Apart
<1>2. /\ F \subseteq DOMAIN sz /\ h.xFreeBytesRemaining \in Nat
      /\ \A b \in DOMAIN sz : b \in Nat /\ sz[b] \in Nat
    <2>1. F \subseteq DOMAIN sz
        BY <1>1 DEF Ledger
    <2> QED BY <1>1, <2>1, LedgerFinite
<1>3. \A b \in DOMAIN sz : b + sz[b] < lo /\ b < lo
    BY <1>2 DEF Fresh
<1>4. \A r \in h.regions : r[1] < lo /\ r[2] < lo
    <2>1. \A r \in h.regions : r[1] \in Nat /\ r[2] \in Nat /\ r[1] <= top /\ r[2] <= top
        BY <1>1 DEF Ledger, Tiled, Fresh
    <2> QED BY <2>1
<1>5. /\ E = NoBlock => M = {} /\ f = <<>>
      /\ E # NoBlock => M = {E} /\ E \in DOMAIN sz /\ sz[E] = 0 /\ E \in Nat /\ \A b \in F : b < E
      /\ NoBlock \notin Nat
    BY <1>2, HeapAssumption DEF Fresh
<1>6. M \cap F = {} /\ \A b \in M : sz[b] = 0
    BY <1>2, <1>5
<1>7. Ledger(to, F \cup M \cup {lo}, {}, end, h.regions \cup {<<lo, end>>},
             h.xFreeBytesRemaining + end - lo, h.wanted)
    <2>1. M = IF E \in DOMAIN sz THEN {E} ELSE {}
        OBVIOUS
    <2>2. \A b \in DOMAIN sz : b + sz[b] < lo
        BY <1>3
    <2> HIDE DEF M, F, sz, E
    <2> QED BY <1>1, <1>4, <1>6, <2>1, <2>2, RegionLedger DEF to
<1>8. g \in Seq(Nat) /\ Ascending(g) /\ Elements(g) = F \cup M
    <2>1. CASE E = NoBlock
        BY <1>1, <1>5, <2>1
    <2>2. CASE E # NoBlock
        <3>1. E \in Nat /\ \A x \in Elements(f) : x < E
            BY <1>5, <2>2
        <3> HIDE DEF f, E
        <3>2. Append(f, E) \in Seq(Nat) /\ Ascending(Append(f, E)) /\ Elements(Append(f, E)) = Elements(f) \cup {E}
            BY <1>1, <3>1, AppendUp
        <3> QED BY <1>5, <2>2, <3>2
    <2> QED BY <2>1, <2>2
<1>9. \A x \in F \cup M : x \in DOMAIN sz /\ x < lo /\ x \in Nat
    BY <1>2, <1>3, <1>5
<1>10. /\ t \in Seq(Nat) /\ Ascending(t) /\ Distinct(t) /\ Elements(t) = F \cup M \cup {lo}
    <2>1. \A x \in Elements(g) : x < lo
        BY <1>8, <1>9
    <2> HIDE DEF g
    <2> QED BY <1>8, <2>1, AppendUp
<1>11. k.free = t
    <2>1. k.free = g \o <<lo>>
        BY DEF Extended
    <2> HIDE DEF g
    <2> QED BY <1>8, <2>1, AppendIsConcat
<1>12. /\ DOMAIN to = DOMAIN sz \cup {lo, end} /\ to[lo] = end - lo /\ to[end] = 0
       /\ \A b \in DOMAIN sz : to[b] = sz[b]
    <2>1. \A b \in DOMAIN sz : b # lo /\ b # end
        BY <1>2, <1>3
    <2> QED BY <2>1 DEF With
<1>13. /\ HeapRecord(k) /\ k.pxEnd = end /\ k.size = to /\ k.taken = {} /\ k.wanted = h.wanted
       /\ k.regions = h.regions \cup {<<lo, end>>} /\ k.failed = {}
       /\ k.xFreeBytesRemaining = h.xFreeBytesRemaining + end - lo
       /\ k.xMinimumEverFreeBytesRemaining = h.xMinimumEverFreeBytesRemaining + end - lo
    BY <1>1 DEF Extended, Fresh
<1> HIDE DEF to, t, g, M, F, f, sz, E
<1>14. /\ k.xMinimumEverFreeBytesRemaining \in Int
       /\ k.xMinimumEverFreeBytesRemaining <= k.xFreeBytesRemaining /\ k.xFreeBytesRemaining # 0
    BY <1>1, <1>2, <1>13
<1>15. Whole(k)
    BY <1>7, <1>10, <1>11, <1>13, <1>14 DEF Whole, Sound
<1>16. ASSUME NEW a \in F \cup M \cup {lo}, NEW c \in F \cup M \cup {lo}, a + to[a] = c PROVE to[c] = 0
    <2>1. CASE a = lo
        BY <1>9, <1>12, <1>16, <2>1
    <2>2. CASE a # lo /\ c = lo
        BY <1>3, <1>9, <1>12, <1>16, <2>2
    <2>3. CASE a \in F /\ c \in F
        BY <1>1, <1>9, <1>12, <1>16, <2>3
    <2>4. CASE c \in M
        BY <1>6, <1>9, <1>12, <2>4
    <2>5. CASE a \in M /\ c \in F
        <3>1. to[a] = 0 /\ a = E /\ E # NoBlock
            BY <1>5, <1>6, <1>9, <1>12, <2>5
        <3>2. c < E /\ E \in Nat
            BY <1>5, <2>5, <3>1
        <3> QED BY <1>9, <1>16, <2>5, <3>1, <3>2
    <2> QED BY <2>1, <2>2, <2>3, <2>4, <2>5
<1>17. Apart(k)
    BY <1>10, <1>11, <1>13, <1>16 DEF Apart
<1>18. \A b \in DOMAIN to : b + to[b] <= end
    <2>1. \A b \in DOMAIN sz : b + to[b] <= end
        BY <1>2, <1>3, <1>12
    <2> QED BY <1>12, <2>1
<1>19. \A r \in k.regions : r[1] <= end /\ r[2] <= end
    <2>1. \A r \in h.regions : r[1] \in Nat /\ r[2] \in Nat
        BY <1>1 DEF Ledger, Tiled
    <2> QED BY <1>4, <1>13, <2>1
<1>20. \A b \in F \cup M \cup {lo} : b < end
    BY <1>9
<1>21. Fresh(k, end)
    BY <1>10, <1>11, <1>12, <1>13, <1>15, <1>17, <1>18, <1>19, <1>20, HeapAssumption DEF Fresh
<1> QED BY <1>13, <1>14, <1>21, HeapAssumption

LEMMA UninitialisedIs ==
    Fresh(Uninitialised, -1)
<1> DEFINE h == Uninitialised
<1>1. /\ HeapRecord(h) /\ h.pxEnd = NoBlock /\ h.free = <<>> /\ h.size = <<>> /\ h.taken = {}
      /\ h.wanted = <<>> /\ h.regions = {} /\ h.xFreeBytesRemaining = 0
      /\ h.xMinimumEverFreeBytesRemaining = 0 /\ h.failed = {}
    BY DEF HeapRecord, Uninitialised
<1> HIDE DEF h
<1>2. DOMAIN <<>> = {} /\ <<>> \in [{} -> Nat] /\ <<>> \in Seq(Nat) /\ IsFiniteSet({})
    BY FS_EmptySet
<1>3. SumOf(<<>>, {}) = 0
    BY <1>2, SumRemove
<1>4. Tiled(<<>>, {})
    BY <1>2 DEF Tiled
<1>5. Ledger(<<>>, {}, {}, NoBlock, {}, 0, <<>>)
    BY <1>2, <1>3, <1>4 DEF Ledger
<1>6. Elements(<<>>) = {} /\ Distinct(<<>>) /\ Ascending(<<>>)
    BY DEF Elements, Distinct, Ascending
<1>7. Whole(h) /\ Apart(h)
    <2>1. Elements(h.free) = {} /\ Distinct(h.free) /\ Ascending(h.free) /\ h.free \in Seq(Nat)
        BY <1>1, <1>2, <1>6
    <2>2. Ledger(h.size, Elements(h.free), h.taken, h.pxEnd, h.regions, h.xFreeBytesRemaining, h.wanted)
        BY <1>1, <1>5, <2>1
    <2>3. Whole(h)
        BY <1>1, <2>1, <2>2 DEF Whole, Sound
    <2> QED BY <2>1, <2>3 DEF Apart
<1>8. Fresh(h, -1)
    BY <1>1, <1>2, <1>7 DEF Fresh
<1> QED BY <1>8 DEF h

\* One array is one region.
LEMMA InitialisedIs ==
    LET k == prvHeapInit
    IN  Whole(k) /\ Apart(k) /\ k.taken = {} /\ k.pxEnd # NoBlock /\ k.regions # {}
<1> DEFINE h   == Uninitialised
           lo  == AlignUp(ucHeap)
           end == AlignDown(lo + configTOTAL_HEAP_SIZE - (lo - ucHeap) - xHeapStructSize)
           k   == prvHeapInit
<1>1. /\ HeapRecord(h) /\ h.pxEnd = NoBlock /\ h.free = <<>> /\ h.size = <<>> /\ h.taken = {}
      /\ h.wanted = <<>> /\ h.regions = {} /\ h.xFreeBytesRemaining = 0
      /\ h.xMinimumEverFreeBytesRemaining = 0 /\ h.failed = {}
    BY DEF HeapRecord, Uninitialised
<1>2. /\ k = [h EXCEPT !.pxEnd = end, !.free = <<lo>>, !.size = With([b \in {lo} |-> end - lo], end, 0),
                       !.regions = {<<lo, end>>},
                       !.xFreeBytesRemaining = end - lo, !.xMinimumEverFreeBytesRemaining = end - lo]
    BY DEF prvHeapInit
<1> HIDE DEF h, k
<1>3. lo \in Nat /\ Aligned(lo) /\ lo < ucHeap + portBYTE_ALIGNMENT
    <2>1. ucHeap \in Nat /\ ucHeap \in Int
        BY HeapAssumption
    <2>2. lo \in Int /\ Aligned(lo) /\ ucHeap <= lo /\ lo < ucHeap + portBYTE_ALIGNMENT
        BY <2>1, Alignment
    <2> HIDE DEF lo
    <2> QED BY <2>1, <2>2
<1>4. end \in Int /\ Aligned(end) /\ ucHeap + configTOTAL_HEAP_SIZE - xHeapStructSize - portBYTE_ALIGNMENT < end
    <2> DEFINE a == lo + configTOTAL_HEAP_SIZE - (lo - ucHeap) - xHeapStructSize
    <2>1. a \in Int /\ a = ucHeap + configTOTAL_HEAP_SIZE - xHeapStructSize
        <3> HIDE DEF lo
        <3> QED BY <1>3, HeapAssumption
    <2>2. end = AlignDown(a)
        OBVIOUS
    <2> HIDE DEF a, end
    <2>3. AlignDown(a) \in Int /\ Aligned(AlignDown(a)) /\ a - portBYTE_ALIGNMENT < AlignDown(a)
        BY <2>1, Alignment
    <2> QED BY <2>1, <2>2, <2>3, HeapAssumption
<1> HIDE DEF lo, end
<1>5. end \in Nat /\ lo < end
    BY <1>3, <1>4, HeapAssumption
<1>6. /\ HeapRecord(k) /\ k.pxEnd = end /\ k.free = <<lo>> /\ k.size = With([b \in {lo} |-> end - lo], end, 0)
      /\ k.taken = h.taken /\ k.wanted = h.wanted /\ k.failed = h.failed /\ k.regions = {<<lo, end>>}
      /\ k.xFreeBytesRemaining = end - lo /\ k.xMinimumEverFreeBytesRemaining = end - lo
    BY <1>1, <1>2 DEF HeapRecord
<1>7. With(<<>>, lo, end - lo) = [b \in {lo} |-> end - lo]
    <2>1. DOMAIN <<>> \cup {lo} = {lo}
        OBVIOUS
    <2> QED BY <2>1 DEF With
<1>8. <<>> \o <<lo>> = <<lo>>
    BY <1>3
<1>9. end - lo = 0 + end - lo
    BY <1>3, <1>5
<1>10. Extended(h, lo, end, k)
    BY <1>1, <1>6, <1>7, <1>8, <1>9 DEF Extended
<1>11. Fresh(k, end) /\ k.pxEnd # NoBlock /\ k.regions # {}
    <2>1. -1 \in Int /\ -1 < lo
        BY <1>3
    <2> QED BY <1>3, <1>4, <1>5, <1>10, <2>1, UninitialisedIs, Extend DEF h
<1> QED BY <1>11 DEF Fresh, k

\* The regions of heap_5, one by one.
LEMMA DefineRegionIs ==
    ASSUME NEW h, NEW top \in Int, Fresh(h, top), h.pxEnd # NoBlock => h.pxEnd <= top,
           NEW region \in [start : Nat, size : Nat],
           RegionStart(region) < RegionEnd(region), top < RegionStart(region)
    PROVE  LET k == DefineRegion(h, region)
           IN  /\ Fresh(k, RegionEnd(region)) /\ k.pxEnd # NoBlock /\ k.pxEnd <= RegionEnd(region)
               /\ k.regions # {} /\ k.xFreeBytesRemaining # 0
<1> DEFINE lo  == RegionStart(region)
           end == RegionEnd(region)
           k   == DefineRegion(h, region)
<1>1. /\ lo \in Nat /\ Aligned(lo)
    <2>1. region.start \in Nat /\ region.start \in Int
        OBVIOUS
    <2>2. lo \in Int /\ Aligned(lo) /\ region.start <= lo
        BY <2>1, Alignment DEF RegionStart
    <2> HIDE DEF lo
    <2> QED BY <2>1, <2>2
<1>2. end \in Nat /\ Aligned(end)
    <2>1. region.start + region.size - xHeapStructSize \in Int
        BY HeapAssumption
    <2>2. end \in Int /\ Aligned(end)
        BY <2>1, Alignment DEF RegionEnd
    <2> HIDE DEF lo, end
    <2>3. lo < end
        BY DEF lo, end
    <2> QED BY <1>1, <2>2, <2>3
<1>3. HeapRecord(h) /\ h.failed = {} /\ (h.pxEnd # NoBlock => h.pxEnd \in Nat)
    <2>1. HeapRecord(h) /\ h.failed = {}
        BY DEF Fresh, Whole, Sound
    <2>2. Ledger(h.size, Elements(h.free), h.taken, h.pxEnd, h.regions, h.xFreeBytesRemaining, h.wanted)
        BY DEF Fresh, Whole, Sound
    <2>3. h.pxEnd # NoBlock => h.pxEnd \in Nat
        BY <2>2, LedgerFinite DEF Fresh
    <2> QED BY <2>1, <2>3
<1>4. h.pxEnd = NoBlock \/ lo > h.pxEnd
    <2> HIDE DEF lo
    <2>1. top < lo
        BY DEF lo
    <2> QED BY <1>1, <1>3, <2>1
<1>5. Claim(h, h.pxEnd = NoBlock \/ lo > h.pxEnd, "vPortDefineHeapRegions") = h
    BY <1>4 DEF Claim
<1>6. k = [Sized(Sized(h, lo, end - lo), end, 0) EXCEPT
            !.pxEnd = end,
            !.free = (IF h.pxEnd = NoBlock THEN @ ELSE Append(@, h.pxEnd)) \o <<lo>>,
            !.regions = @ \cup {<<lo, end>>},
            !.xFreeBytesRemaining = @ + end - lo,
            !.xMinimumEverFreeBytesRemaining = @ + end - lo]
    BY <1>5 DEF DefineRegion
<1> HIDE DEF lo, end, k
<1>7. Extended(h, lo, end, k)
    BY <1>3, <1>6 DEF Extended, HeapRecord, Sized
<1>8. top < lo /\ lo < end
    BY DEF lo, end
<1>9. Fresh(k, end) /\ k.pxEnd # NoBlock /\ k.regions # {} /\ k.xFreeBytesRemaining # 0
    BY <1>1, <1>2, <1>7, <1>8, Extend
<1>10. k.pxEnd = end
    BY <1>7 DEF Extended
<1> QED BY <1>2, <1>9, <1>10 DEF k, end

LEMMA RegionsDefined ==
    LET k == vPortDefineHeapRegions(Uninitialised, HeapRegions)
    IN  Whole(k) /\ Apart(k) /\ k.taken = {} /\ k.pxEnd # NoBlock /\ k.regions # {}
<1> DEFINE h1 == Uninitialised
           N  == Len(HeapRegions)
           At(g, i) == IF i = 0 THEN h1 ELSE DefineRegion(g[i - 1], HeapRegions[i])
           it == CHOOSE g : g = [i \in 0 .. N |-> At(g, i)]
           S  == {n \in Nat : n <= N => \E g : \A i \in 0 .. n : g[i] = At(g, i)}
           k  == vPortDefineHeapRegions(h1, HeapRegions)
<1>1. N \in Nat /\ N # 0 /\ DOMAIN HeapRegions = 1 .. N
    BY HeapAssumption
<1>2. h1.pxEnd = NoBlock /\ h1.failed = {}
    BY DEF Uninitialised
<1> HIDE DEF N, h1
<1>3. Claim(h1, h1.pxEnd = NoBlock, "vPortDefineHeapRegions: twice") = h1
    BY <1>2 DEF Claim
<1>4. k = Claim(it[N], it[N].xFreeBytesRemaining # 0, "vPortDefineHeapRegions: none")
    BY <1>3, ZenonT(30) DEF vPortDefineHeapRegions, N
<1>5. 0 \in S
    <2>1. \A i \in 0 .. 0 : i = 0
        OBVIOUS
    <2>2. \A i \in 0 .. 0 : [j \in {0} |-> h1][i] = At([j \in {0} |-> h1], i)
        BY <2>1
    <2>3. \E g : \A i \in 0 .. 0 : g[i] = At(g, i)
        <3> HIDE DEF At
        <3> QED BY <2>2
    <2> QED BY <2>3
<1>6. ASSUME NEW n \in Nat, n \in S PROVE n + 1 \in S
    <2>1. SUFFICES ASSUME n + 1 <= N PROVE \E g : \A i \in 0 .. n + 1 : g[i] = At(g, i)
        OBVIOUS
    <2>2. PICK g : \A i \in 0 .. n : g[i] = At(g, i)
        BY <1>1, <1>6, <2>1
    <2> DEFINE f == [i \in 0 .. n + 1 |-> IF i <= n THEN g[i] ELSE DefineRegion(g[n], HeapRegions[n + 1])]
    <2>3. ASSUME NEW i \in 0 .. n + 1 PROVE f[i] = At(f, i)
        <3>1. CASE i <= n
            <4>1. i \in 0 .. n /\ f[i] = g[i] /\ (i # 0 => i - 1 \in 0 .. n + 1 /\ i - 1 <= n)
                BY <3>1
            <4>2. i # 0 => f[i - 1] = g[i - 1]
                BY <4>1
            <4> HIDE DEF f
            <4> QED BY <2>2, <4>1, <4>2
        <3>2. CASE ~(i <= n)
            <4>1. i = n + 1 /\ i # 0 /\ i - 1 = n /\ n \in 0 .. n + 1
                BY <3>2
            <4>2. f[n] = g[n] /\ f[i] = DefineRegion(g[n], HeapRegions[n + 1])
                BY <3>2, <4>1
            <4> HIDE DEF f
            <4> QED BY <4>1, <4>2
        <3> QED BY <3>1, <3>2
    <2> HIDE DEF f, At
    <2> QED BY <2>3
<1> HIDE DEF S
<1>7. N \in S
    BY <1>1, <1>5, <1>6, Induction
<1>8. it = [i \in 0 .. N |-> At(it, i)]
    <2>1. PICK g : \A i \in 0 .. N : g[i] = At(g, i)
        BY <1>1, <1>7 DEF S
    <2> DEFINE f == [i \in 0 .. N |-> g[i]]
    <2>2. ASSUME NEW i \in 0 .. N PROVE f[i] = At(f, i)
        <3>1. f[i] = g[i] /\ (i # 0 => i - 1 \in 0 .. N)
            BY <1>1
        <3>2. i # 0 => f[i - 1] = g[i - 1]
            BY <3>1
        <3> HIDE DEF f
        <3> QED BY <2>1, <3>1, <3>2
    <2>3. f = [i \in 0 .. N |-> At(f, i)]
        <3> HIDE DEF At
        <3>1. [i \in 0 .. N |-> f[i]] = [i \in 0 .. N |-> At(f, i)]
            BY <2>2
        <3> QED BY <3>1
    <2> HIDE DEF f, At
    <2> QED BY <2>3
<1>9. it[0] = h1 /\ \A i \in 1 .. N : it[i] = DefineRegion(it[i - 1], HeapRegions[i])
    <2>1. \A i \in 0 .. N : it[i] = At(it, i)
        <3> HIDE DEF At, it
        <3> QED BY <1>8
    <2>2. 0 \in 0 .. N /\ \A i \in 1 .. N : i \in 0 .. N /\ i # 0
        BY <1>1
    <2> HIDE DEF it
    <2> QED BY <2>1, <2>2
<1> HIDE DEF it, At
<1> DEFINE Top(i) == IF i = 0 THEN -1 ELSE RegionEnd(HeapRegions[i])
           Good(h, i) == Fresh(h, Top(i)) /\ (h.pxEnd # NoBlock => h.pxEnd <= Top(i))
           Some(h) == h.pxEnd # NoBlock /\ h.regions # {} /\ h.xFreeBytesRemaining # 0
           P == {n \in Nat : n <= N => Good(it[n], n) /\ (n # 0 => Some(it[n]))}
<1>10. 0 \in P
    <2>1. Good(h1, 0)
        BY <1>2, UninitialisedIs DEF h1
    <2> HIDE DEF Good, Some
    <2> QED BY <1>9, <2>1
<1>11. ASSUME NEW n \in Nat, n \in P PROVE n + 1 \in P
    <2>1. SUFFICES ASSUME n + 1 <= N PROVE Good(it[n + 1], n + 1) /\ Some(it[n + 1])
        <3> HIDE DEF Good, Some
        <3> QED OBVIOUS
    <2> DEFINE region == HeapRegions[n + 1]
    <2>2. n + 1 \in 1 .. N /\ (n + 1) - 1 = n /\ n <= N /\ n + 1 # 0
        BY <1>1, <2>1
    <2>3. Good(it[n], n)
        <3> HIDE DEF Good, Some
        <3> QED BY <1>11, <2>2
    <2>4. region \in [start : Nat, size : Nat] /\ RegionStart(region) < RegionEnd(region)
        <3>1. n + 1 \in DOMAIN HeapRegions
            BY <1>1, <2>2
        <3>2. /\ HeapRegions \in Seq([start : Nat, size : Nat])
              /\ \A i \in DOMAIN HeapRegions : RegionStart(HeapRegions[i]) < RegionEnd(HeapRegions[i])
            BY HeapAssumption
        <3>3. HeapRegions[n + 1] \in [start : Nat, size : Nat]
            BY <2>2, <3>2, ElementOfSeq DEF N
        <3> QED BY <3>1, <3>2, <3>3
    <2>5. \A r \in [start : Nat, size : Nat] : RegionStart(r) \in Nat /\ RegionEnd(r) \in Int
        <3> SUFFICES ASSUME NEW r \in [start : Nat, size : Nat]
                     PROVE  RegionStart(r) \in Nat /\ RegionEnd(r) \in Int
            OBVIOUS
        <3>1. r.start \in Int /\ 0 <= r.start /\ r.start + r.size - xHeapStructSize \in Int
            BY HeapAssumption
        <3>2. RegionStart(r) \in Int /\ r.start <= RegionStart(r) /\ RegionEnd(r) \in Int
            BY <3>1, Alignment DEF RegionStart, RegionEnd
        <3> QED BY <3>1, <3>2
    <2>6. Top(n) \in Int /\ Top(n) < RegionStart(region)
        <3>1. CASE n = 0
            BY <2>4, <2>5, <3>1
        <3>2. CASE n # 0
            <4>1. n + 1 \in 2 .. Len(HeapRegions) /\ n \in DOMAIN HeapRegions
                BY <1>1, <2>2, <3>2 DEF N
            <4>2. RegionEnd(HeapRegions[(n + 1) - 1]) < RegionStart(HeapRegions[n + 1])
                <5>1. \A i \in 2 .. Len(HeapRegions) : RegionEnd(HeapRegions[i - 1]) < RegionStart(HeapRegions[i])
                    BY HeapAssumption
                <5> QED BY <4>1, <5>1
            <4>3. HeapRegions[n] \in [start : Nat, size : Nat]
                <5>1. HeapRegions \in Seq([start : Nat, size : Nat]) /\ n \in 1 .. Len(HeapRegions)
                    BY <1>1, <4>1, HeapAssumption DEF N
                <5> QED BY <5>1, ElementOfSeq
            <4>4. RegionEnd(HeapRegions[n]) \in Int
                BY <2>5, <4>3
            <4> QED BY <2>2, <3>2, <4>2, <4>4
        <3> QED BY <3>1, <3>2
    <2>7. it[n + 1] = DefineRegion(it[n], region)
        BY <1>9, <2>2
    <2>8. Fresh(it[n], Top(n)) /\ (it[n].pxEnd # NoBlock => it[n].pxEnd <= Top(n))
        BY <2>3
    <2>9. Top(n + 1) = RegionEnd(region)
        BY <2>2
    <2> HIDE DEF Top, region
    <2> QED BY <2>4, <2>6, <2>7, <2>8, <2>9, DefineRegionIs
<1>12. N \in P
    <2> HIDE DEF P
    <2> QED BY <1>1, <1>10, <1>11, Induction
<1>13. Good(it[N], N) /\ Some(it[N])
    <2> HIDE DEF Good, Some
    <2> QED BY <1>1, <1>12
<1>14. k = it[N]
    BY <1>4, <1>13 DEF Claim
<1> HIDE DEF k, Top
<1>15. Whole(k) /\ Apart(k) /\ k.taken = {} /\ k.pxEnd # NoBlock /\ k.regions # {}
    BY <1>13, <1>14 DEF Fresh
<1> QED BY <1>15 DEF k, h1

\* heap_2 has no marker.
LEMMA InitialisedIs_2 ==
    LET k == prvHeapInit_2
    IN  Whole(k) /\ k.regions # {}
<1> DEFINE h   == Uninitialised
           lo  == AlignDown(ucHeap + portBYTE_ALIGNMENT)
           n   == configADJUSTED_HEAP_SIZE
           k   == prvHeapInit_2
           to  == [b \in {lo} |-> n]
<1>1. /\ HeapRecord(h) /\ h.taken = {} /\ h.wanted = <<>> /\ h.failed = {}
    BY DEF HeapRecord, Uninitialised
<1>2. /\ k = [h EXCEPT !.pxEnd = NoBlock, !.free = <<lo>>, !.size = to, !.regions = {<<lo, lo + n>>},
                       !.xFreeBytesRemaining = n, !.xMinimumEverFreeBytesRemaining = n]
    BY DEF prvHeapInit_2
<1> HIDE DEF h, k
<1>3. lo \in Nat /\ Aligned(lo)
    <2>1. ucHeap + portBYTE_ALIGNMENT \in Int /\ ucHeap \in Nat
        BY HeapAssumption
    <2>2. lo \in Int /\ Aligned(lo) /\ (ucHeap + portBYTE_ALIGNMENT) - portBYTE_ALIGNMENT < lo
        BY <2>1, Alignment
    <2> HIDE DEF lo
    <2> QED BY <2>1, <2>2, HeapAssumption
<1>4. n \in Nat /\ 0 < n
    BY HeapAssumption DEF configADJUSTED_HEAP_SIZE
<1> HIDE DEF lo, n, to
<1>5. /\ HeapRecord(k) /\ k.pxEnd = NoBlock /\ k.free = <<lo>> /\ k.size = to
      /\ k.taken = {} /\ k.wanted = <<>> /\ k.failed = {} /\ k.regions = {<<lo, lo + n>>}
      /\ k.xFreeBytesRemaining = n /\ k.xMinimumEverFreeBytesRemaining = n
    BY <1>1, <1>2 DEF HeapRecord
<1>6. /\ Whole(Uninitialised) /\ Uninitialised.size = <<>> /\ Uninitialised.regions = {}
    BY UninitialisedIs DEF Fresh, Uninitialised
<1>7. Tiled(<<>>, {}) /\ DOMAIN <<>> = {}
    BY <1>6 DEF Whole, Sound, Ledger
<1>8. With(<<>>, lo, n) = to
    <2>1. DOMAIN <<>> \cup {lo} = {lo}
        OBVIOUS
    <2> QED BY <2>1 DEF With, to
<1>9. Tiled(to, {<<lo, lo + n>>})
    <2>1. Tiled(With(<<>>, lo, n), {} \cup {<<lo, lo + n>>})
        BY <1>3, <1>4, <1>7, NewBlock
    <2>2. {} \cup {<<lo, lo + n>>} = {<<lo, lo + n>>}
        OBVIOUS
    <2> QED BY <1>8, <2>1, <2>2
<1>10. DOMAIN to = {lo} /\ to[lo] = n
    BY DEF to
<1>11. SumOf(to, {lo}) = n
    <2>1. to[lo] \in Int
        BY <1>4, <1>10
    <2>2. IsFiniteSet({lo}) /\ \A x \in {lo} : to[x] \in Int
        BY <2>1, FS_Singleton
    <2>3. SumOf(to, {lo}) = to[lo] + SumOf(to, {lo} \ {lo}) /\ SumOf(to, {}) = 0
        BY <2>2, SumRemove
    <2>4. {lo} \ {lo} = {}
        OBVIOUS
    <2> QED BY <1>4, <1>10, <2>3, <2>4
<1>12. Ledger(to, {lo}, {}, NoBlock, {<<lo, lo + n>>}, n, <<>>)
    BY <1>3, <1>9, <1>10, <1>11, HeapAssumption DEF Ledger
<1>13. <<lo>> \in Seq(Nat) /\ Elements(<<lo>>) = {lo} /\ Distinct(<<lo>>)
    BY <1>3 DEF Elements, Distinct
<1>14. Ledger(k.size, Elements(k.free), k.taken, k.pxEnd, k.regions, k.xFreeBytesRemaining, k.wanted)
    BY <1>5, <1>12, <1>13
<1>15. Whole(k)
    <2>1. k.free \in Seq(Nat) /\ Distinct(k.free)
        BY <1>5, <1>13
    <2>2. /\ k.xMinimumEverFreeBytesRemaining \in Int
          /\ k.xMinimumEverFreeBytesRemaining <= k.xFreeBytesRemaining
        BY <1>4, <1>5
    <2> QED BY <1>5, <1>14, <2>1, <2>2 DEF Whole, Sound
<1> QED BY <1>5, <1>15 DEF k

-----------------------------------------------------------------------------
(* heap_1: the blocks in use lie one after the other, from the start of    *)
(* the array to the next free byte.                                        *)

Bottom == AlignDown(ucHeap + portBYTE_ALIGNMENT)

Bump(h) ==
    /\ HeapRecord(h) /\ h.free = <<>> /\ h.failed = {}
    /\ h.regions \subseteq {<<Bottom, Bottom + configADJUSTED_HEAP_SIZE>>}
    /\ h.xFreeBytesRemaining \in Nat /\ h.xMinimumEverFreeBytesRemaining \in Int
    /\ h.xMinimumEverFreeBytesRemaining <= h.xFreeBytesRemaining
    /\ IsFiniteSet(h.taken) /\ DOMAIN h.size = h.taken /\ h.taken \subseteq DOMAIN h.wanted
    /\ h.xFreeBytesRemaining = configADJUSTED_HEAP_SIZE - SumOf(h.size, h.taken)
    /\ Aligned(configADJUSTED_HEAP_SIZE - h.xFreeBytesRemaining)
    /\ \A b \in h.taken :
        /\ b \in Nat /\ h.size[b] \in Nat /\ h.size[b] > 0 /\ Aligned(b)
        /\ h.wanted[b] \in Nat /\ h.size[b] >= h.wanted[b]
        /\ b + h.size[b] <= Bottom + (configADJUSTED_HEAP_SIZE - h.xFreeBytesRemaining)
    /\ \A a, b \in h.taken : a # b => a + h.size[a] <= b \/ b + h.size[b] <= a

LEMMA BottomIs ==
    /\ Bottom \in Nat /\ Aligned(Bottom) /\ Aligned(0)
    /\ configADJUSTED_HEAP_SIZE \in Nat
<1>1. ucHeap + portBYTE_ALIGNMENT \in Int /\ ucHeap \in Nat
    BY HeapAssumption
<1>2. Bottom \in Int /\ Aligned(Bottom) /\ (ucHeap + portBYTE_ALIGNMENT) - portBYTE_ALIGNMENT < Bottom
    BY <1>1, Alignment DEF Bottom
<1>3. Bottom \in Nat
    BY <1>1, <1>2, HeapAssumption
<1>4. configADJUSTED_HEAP_SIZE \in Nat
    BY HeapAssumption DEF configADJUSTED_HEAP_SIZE
<1>5. Aligned(Bottom - Bottom) /\ Bottom - Bottom = 0
    BY <1>2, <1>3, AlignedSum
<1>6. Aligned(0)
    BY <1>5
<1> QED BY <1>2, <1>3, <1>4, <1>6

LEMMA BumpStarts ==
    Bump([Uninitialised EXCEPT !.xFreeBytesRemaining = configADJUSTED_HEAP_SIZE])
<1> DEFINE h == [Uninitialised EXCEPT !.xFreeBytesRemaining = configADJUSTED_HEAP_SIZE]
<1>1. /\ HeapRecord(h) /\ h.free = <<>> /\ h.size = <<>> /\ h.taken = {} /\ h.wanted = <<>>
      /\ h.regions = {} /\ h.xFreeBytesRemaining = configADJUSTED_HEAP_SIZE
      /\ h.xMinimumEverFreeBytesRemaining = 0 /\ h.failed = {}
    BY DEF HeapRecord, Uninitialised
<1> HIDE DEF h
<1>2. IsFiniteSet({}) /\ SumOf(h.size, {}) = 0 /\ DOMAIN <<>> = {}
    <2>1. IsFiniteSet({}) /\ \A x \in {} : h.size[x] \in Int
        BY FS_EmptySet
    <2> QED BY <2>1, SumRemove
<1>3. configADJUSTED_HEAP_SIZE \in Nat /\ Aligned(0)
    BY BottomIs
<1>4. configADJUSTED_HEAP_SIZE - 0 = configADJUSTED_HEAP_SIZE
      /\ configADJUSTED_HEAP_SIZE - configADJUSTED_HEAP_SIZE = 0
    BY <1>3
<1>5. Bump(h)
    BY <1>1, <1>2, <1>3, <1>4 DEF Bump
<1> QED BY <1>5 DEF h

LEMMA BumpStep ==
    ASSUME NEW h, Bump(h), NEW n \in Nat, n < SizeT
    PROVE  Bump(pvPortMalloc_1(h, n))
<1> DEFINE N    == configADJUSTED_HEAP_SIZE
           next == N - h.xFreeBytesRemaining
           size == AlignUp(n) % SizeT
           end  == (next + size) % SizeT
           b    == Bottom + next
           k    == pvPortMalloc_1(h, n)
           to   == With(h.size, b, size)
           left == h.xFreeBytesRemaining - to[b]
           T    == h.taken
<1>1. k = IF end >= N \/ end <= next THEN h
          ELSE [Used(Sized(h, b, size), b, n) EXCEPT !.regions = {<<Bottom, Bottom + N>>}]
    BY DEF pvPortMalloc_1, Bottom
<1>2. /\ N \in Nat /\ Bottom \in Nat /\ Aligned(Bottom)
    BY BottomIs
<1>3. /\ HeapRecord(h) /\ h.free = <<>> /\ h.failed = {}
      /\ h.xFreeBytesRemaining \in Nat /\ h.xMinimumEverFreeBytesRemaining \in Int
      /\ h.xMinimumEverFreeBytesRemaining <= h.xFreeBytesRemaining
      /\ IsFiniteSet(T) /\ DOMAIN h.size = T /\ T \subseteq DOMAIN h.wanted
      /\ h.xFreeBytesRemaining = N - SumOf(h.size, T) /\ Aligned(next)
      /\ \A a \in T : /\ a \in Nat /\ h.size[a] \in Nat /\ h.size[a] > 0 /\ Aligned(a)
                      /\ h.wanted[a] \in Nat /\ h.size[a] >= h.wanted[a] /\ a + h.size[a] <= b
      /\ \A a, c \in T : a # c => a + h.size[a] <= c \/ c + h.size[c] <= a
    BY DEF Bump
<1>4. size \in Nat /\ size < SizeT /\ Aligned(size) /\ (n <= size \/ size = 0)
    <2> DEFINE u == AlignUp(n)
    <2>1. SizeT \in Nat \ {0} /\ portBYTE_ALIGNMENT \in Nat /\ portBYTE_ALIGNMENT <= SizeT
          /\ Aligned(SizeT)
        BY HeapAssumption DEF SizeT, Aligned
    <2>2. /\ size \in 0 .. SizeT - 1 /\ Aligned(size)
          /\ u < SizeT => size = u
          /\ u >= SizeT => size = u - SizeT
        <3>1. n \in 0 .. SizeT - 1
            BY <2>1
        <3> QED BY <3>1, AlignUpWraps
    <2>3. n \in Int /\ n < SizeT
        BY <2>1
    <2>4. u \in Int /\ Aligned(u) /\ n <= u /\ u < n + portBYTE_ALIGNMENT
        BY <2>3, Alignment
    <2> HIDE DEF size, u
    <2>5. ASSUME u >= SizeT PROVE size = 0
        <3>1. size < portBYTE_ALIGNMENT
            BY <2>1, <2>2, <2>3, <2>4, <2>5
        <3>2. size % portBYTE_ALIGNMENT = size
            BY <2>1, <2>2, <3>1
        <3> QED BY <2>2, <3>2 DEF Aligned
    <2> QED BY <2>1, <2>2, <2>4, <2>5
<1>5. SumOf(h.size, T) \in Nat /\ next = SumOf(h.size, T)
    <2>1. \A a \in T : h.size[a] \in Nat
        BY <1>3
    <2>2. SumOf(h.size, T) \in Nat
        BY <1>3, <2>1, SumBounds
    <2> QED BY <1>2, <1>3, <2>2
<1>5a. ASSUME ~(end >= N \/ end <= next) PROVE size # 0 /\ next + size < N
    <2> DEFINE x == h.xFreeBytesRemaining
    <2>1. SizeT \in Nat \ {0} /\ N \in Nat /\ N <= SizeT
        BY <1>2, HeapAssumption DEF SizeT, configADJUSTED_HEAP_SIZE
    <2>2. next \in Nat /\ next <= N
        <3>1. x \in Nat /\ next = N - x
            BY <1>3
        <3>2. next \in Nat
            BY <1>5
        <3> HIDE DEF N, next, x
        <3> QED BY <2>1, <3>1, <3>2
    <2> HIDE DEF N, next, size
    <2>3. next + size < SizeT => end = next + size
        BY <1>4, <2>1, <2>2
    <2>4. ASSUME next + size >= SizeT PROVE FALSE
        <3>1. next + size - SizeT \in 0 .. SizeT - 1 /\ next + size - SizeT <= next
            BY <1>4, <2>1, <2>2, <2>4
        <3>2. ((next + size - SizeT) + 1 * SizeT) % SizeT = next + size - SizeT
            BY <2>1, <3>1
        <3>3. (next + size - SizeT) + 1 * SizeT = next + size
            BY <1>4, <2>1, <2>2
        <3> QED BY <1>5a, <3>1, <3>2, <3>3
    <2>5. next + size < SizeT
        BY <1>4, <2>1, <2>2, <2>4
    <2> HIDE DEF end
    <2> QED BY <1>4, <1>5a, <2>1, <2>2, <2>3, <2>5
<1> HIDE DEF N, next, size, end
<1>6. b \in Nat /\ Aligned(b)
    <2>1. Bottom \in Int /\ next \in Int /\ b \in Nat
        BY <1>2, <1>5
    <2>2. Aligned(Bottom + next)
        BY <1>2, <1>3, <2>1, AlignedSum
    <2> QED BY <2>1, <2>2
<1> HIDE DEF b
<1>7. CASE end >= N \/ end <= next
    BY <1>1, <1>7
<1>8. CASE ~(end >= N \/ end <= next)
    <2> DEFINE h1 == Sized(h, b, size)
               h2 == Used(h1, b, n)
               w  == With(h.wanted, b, n)
               S  == T \cup {b}
    <2>1. HeapRecord(h1) /\ SameBooks(h, h1) /\ h1.free = h.free /\ h1.size = to
        BY <1>3 DEF HeapRecord, SameBooks, Sized
    <2> HIDE DEF h1
    <2>2. /\ HeapRecord(h2) /\ h2.free = <<>> /\ h2.size = to /\ h2.failed = {}
          /\ h2.taken = S /\ h2.wanted = w /\ h2.xFreeBytesRemaining = left
          /\ h2.xMinimumEverFreeBytesRemaining =
                IF left < h.xMinimumEverFreeBytesRemaining THEN left ELSE h.xMinimumEverFreeBytesRemaining
        BY <1>3, <2>1 DEF HeapRecord, SameBooks, Used
    <2> HIDE DEF h2
    <2>3. k = [h2 EXCEPT !.regions = {<<Bottom, Bottom + N>>}]
        BY <1>1, <1>8 DEF h2, h1
    <2>4. /\ HeapRecord(k) /\ k.free = <<>> /\ k.size = to /\ k.failed = {}
          /\ k.taken = S /\ k.wanted = w /\ k.xFreeBytesRemaining = left
          /\ k.xMinimumEverFreeBytesRemaining =
                IF left < h.xMinimumEverFreeBytesRemaining THEN left ELSE h.xMinimumEverFreeBytesRemaining
          /\ k.regions = {<<Bottom, Bottom + N>>}
        BY <2>2, <2>3 DEF HeapRecord
    <2> HIDE DEF k
    <2>5. b \notin T
        BY <1>3, <1>6
    <2>6. DOMAIN to = S /\ to[b] = size /\ \A a \in T : to[a] = h.size[a]
        BY <1>3, <2>5 DEF With
    <2>7. DOMAIN w = DOMAIN h.wanted \cup {b} /\ w[b] = n /\ \A a \in T : w[a] = h.wanted[a]
        BY <1>3, <2>5 DEF With
    <2>8. left = h.xFreeBytesRemaining - size
        BY <2>6
    <2> HIDE DEF to, w, left, T
    <2>9. IsFiniteSet(S)
        BY <1>3, FS_AddElement
    <2>10. SumOf(to, S) = size + SumOf(h.size, T)
        <3>1. \A a \in T : h.size[a] \in Int /\ h.size[a] = to[a]
            BY <1>3, <2>6
        <3>2. SumOf(h.size, T) = SumOf(to, T)
            BY <1>3, <3>1, SumAgree
        <3>3. \A a \in S : to[a] \in Int
            BY <1>4, <2>6, <3>1
        <3>4. b \in S /\ S \ {b} = T
            BY <2>5
        <3> HIDE DEF S
        <3>5. SumOf(to, S) = to[b] + SumOf(to, S \ {b})
            BY <2>9, <3>3, <3>4, SumRemove
        <3> QED BY <2>6, <3>2, <3>4, <3>5
    <2>11. next = N - h.xFreeBytesRemaining /\ b = Bottom + next
        BY DEF next, b
    <2>12. /\ left \in Nat /\ left = N - SumOf(to, S) /\ N - left = next + size
           /\ b + size = Bottom + (N - left) /\ 0 < size
        <3> DEFINE x == h.xFreeBytesRemaining
                   s == SumOf(h.size, T)
        <3>1. /\ x \in Nat /\ s \in Nat /\ N \in Nat /\ size \in Nat /\ Bottom \in Nat
              /\ x = N - s /\ next = s /\ next = N - x /\ b = Bottom + next
            BY <1>2, <1>3, <1>4, <1>5, <2>11
        <3>2. size # 0 /\ next + size < N
            BY <1>8, <1>5a
        <3>3. left = x - size /\ SumOf(to, S) = size + s
            BY <2>8, <2>10
        <3> HIDE DEF x, s, S
        <3> QED BY <3>1, <3>2, <3>3
    <2>13. Aligned(N - left)
        BY <1>3, <1>4, <1>5, <2>12, AlignedSum
    <2>14. /\ k.xMinimumEverFreeBytesRemaining \in Int
           /\ k.xMinimumEverFreeBytesRemaining <= k.xFreeBytesRemaining
        BY <1>3, <2>4, <2>12
    <2>15. ASSUME NEW a \in S
           PROVE  /\ a \in Nat /\ to[a] \in Nat /\ to[a] > 0 /\ Aligned(a)
                  /\ w[a] \in Nat /\ to[a] >= w[a] /\ a + to[a] <= Bottom + (N - left)
        <3>1. CASE a = b
            <4>1. n <= size /\ n \in Nat
                BY <1>4, <1>8, <1>5a
            <4> QED BY <1>2, <1>4, <1>6, <2>6, <2>7, <2>12, <3>1, <4>1
        <3>2. CASE a # b
            <4>1. a \in T
                BY <3>2
            <4>2. a + h.size[a] <= b /\ b <= b + size /\ a + h.size[a] \in Nat
                BY <1>3, <1>4, <1>6, <4>1
            <4>3. b + size \in Nat
                BY <1>4, <1>6
            <4>4. a + h.size[a] <= b + size
                BY <1>6, <4>2, <4>3
            <4> QED BY <1>3, <2>6, <2>7, <2>12, <4>1, <4>4
        <3> QED BY <3>1, <3>2
    <2>16. ASSUME NEW a \in S, NEW c \in S, a # c PROVE a + to[a] <= c \/ c + to[c] <= a
        <3>1. CASE a \in T /\ c \in T
            BY <1>3, <2>6, <2>16, <3>1
        <3>2. CASE a = b /\ c \in T
            BY <1>3, <2>6, <3>2
        <3>3. CASE a \in T /\ c = b
            BY <1>3, <2>6, <3>3
        <3> QED BY <2>16, <3>1, <3>2, <3>3
    <2>17. S \subseteq DOMAIN w
        BY <1>3, <2>7
    <2> HIDE DEF S
    <2>18. Bump(k)
        BY <2>4, <2>6, <2>9, <2>12, <2>13, <2>14, <2>15, <2>16, <2>17 DEF Bump, N
    <2> QED BY <2>18 DEF k
<1> QED BY <1>7, <1>8

-----------------------------------------------------------------------------
(* The invariant of the heaps. *)

HeapInv ==
    /\ part \in Allocators
    /\ part = "heap_1" => Bump(heap)
    /\ part = "heap_2" => Whole(heap)
    /\ part \in {"heap_4", "heap_5"} => Whole(heap) /\ Apart(heap) /\ Modest(heap)
    /\ part = "heap_4" => (heap.pxEnd = NoBlock => heap.regions = {})
    /\ part = "heap_5" => heap.pxEnd # NoBlock

\* One of four cases, by the allocator a program is linked with.
LEMMA HeapInvStarts ==
    HeapInit => HeapInv
<1> SUFFICES ASSUME HeapInit PROVE HeapInv
    OBVIOUS
<1>1. part \in Allocators
    BY DEF HeapInit
<1>2. CASE part = "heap_1"
    BY <1>2, BumpStarts DEF HeapInit, HeapInv, Allocators
<1>3. CASE part \in {"heap_2", "heap_4"}
    <2>1. heap = Uninitialised
        BY <1>3 DEF HeapInit
    <2>2. Whole(heap) /\ Apart(heap) /\ heap.regions = {} /\ Modest(heap)
        BY <2>1, UninitialisedIs DEF Fresh, Uninitialised, Modest
    <2> QED BY <1>3, <2>2 DEF HeapInv, Allocators
<1>4. CASE part = "heap_5"
    <2>1. heap = vPortDefineHeapRegions(Uninitialised, HeapRegions)
        BY <1>4 DEF HeapInit
    <2>2. Whole(heap) /\ Apart(heap) /\ Modest(heap) /\ heap.pxEnd # NoBlock
        BY <2>1, RegionsDefined DEF Modest
    <2> QED BY <1>4, <2>2 DEF HeapInv, Allocators
<1> QED BY <1>1, <1>2, <1>3, <1>4 DEF Allocators

LEMMA Malloc4 ==
    ASSUME NEW h, Whole(h), Apart(h), Modest(h), h.pxEnd = NoBlock => h.regions = {}, NEW n \in Nat, n < SizeT
    PROVE  LET k == pvPortMalloc(h, n)
           IN  /\ Whole(k) /\ Apart(k) /\ Modest(k) /\ (k.pxEnd = NoBlock => k.regions = {})
               /\ h.regions # {} => (k.taken # h.taken <=> Fits(h, n))
<1> DEFINE g == IF h.pxEnd = NoBlock THEN prvHeapInit ELSE h
           k == pvPortMalloc(h, n)
<1>1. k = Allocate(g, n)
    BY DEF pvPortMalloc
<1>2. Whole(g) /\ Apart(g) /\ Modest(g) /\ g.pxEnd # NoBlock /\ (h.regions # {} => g = h)
    BY InitialisedIs DEF Modest
<1> HIDE DEF g
<1>3. /\ Whole(k) /\ Apart(k) /\ Modest(k) /\ k.pxEnd = g.pxEnd
      /\ k.taken # g.taken <=> Fits(g, n)
    BY <1>1, <1>2, Allocate4
<1> QED BY <1>2, <1>3

LEMMA Malloc2 ==
    ASSUME NEW h, Whole(h), NEW n \in Nat, n < SizeT
    PROVE  Whole(pvPortMalloc_2(h, n))
<1>1. CASE h.regions # {}
    BY <1>1, Allocate2
<1>2. CASE h.regions = {}
    <2>1. Whole(prvHeapInit_2) /\ prvHeapInit_2.regions # {}
        BY InitialisedIs_2
    <2>2. pvPortMalloc_2(h, n) = pvPortMalloc_2(prvHeapInit_2, n)
        BY <1>2, <2>1 DEF pvPortMalloc_2
    <2> QED BY <2>1, <2>2, Allocate2
<1> QED BY <1>1, <1>2

LEMMA HeapInvKept ==
    HeapInv /\ [HeapNext]_heapVars => HeapInv'
<1> SUFFICES ASSUME HeapInv, [HeapNext]_heapVars PROVE HeapInv'
    OBVIOUS
<1>1. part \in Allocators
    BY DEF HeapInv
<1>2. CASE MallocStep
    <2>1. PICK n \in Requests : heap' = Malloc(heap, n)
        BY <1>2 DEF MallocStep
    <2>2. n \in Nat /\ n < SizeT /\ part' = part
        BY <1>2, HeapAssumption, Sizes DEF MallocStep
    <2>3. CASE part = "heap_1"
        <3>1. heap' = pvPortMalloc_1(heap, n)
            BY <2>1, <2>3 DEF Malloc
        <3>2. Bump(heap')
            BY <2>2, <2>3, <3>1, BumpStep DEF HeapInv
        <3> QED BY <2>2, <2>3, <3>2 DEF HeapInv, Allocators
    <2>4. CASE part = "heap_2"
        <3>1. heap' = pvPortMalloc_2(heap, n)
            BY <2>1, <2>4 DEF Malloc
        <3>2. Whole(heap')
            BY <2>2, <2>4, <3>1, Malloc2 DEF HeapInv
        <3> QED BY <2>2, <2>4, <3>2 DEF HeapInv, Allocators
    <2>5. CASE part = "heap_4"
        <3>1. heap' = pvPortMalloc(heap, n)
            BY <2>1, <2>5 DEF Malloc
        <3>2. Whole(heap') /\ Apart(heap') /\ Modest(heap') /\ (heap'.pxEnd = NoBlock => heap'.regions = {})
            BY <2>2, <2>5, <3>1, Malloc4 DEF HeapInv
        <3> QED BY <2>2, <2>5, <3>2 DEF HeapInv, Allocators
    <2>6. CASE part = "heap_5"
        <3>1. heap' = Allocate(heap, n)
            BY <2>1, <2>6 DEF Malloc, pvPortMalloc_5, HeapInv
        <3>2. Whole(heap') /\ Apart(heap') /\ Modest(heap') /\ heap'.pxEnd # NoBlock
            BY <2>2, <2>6, <3>1, Allocate4 DEF HeapInv
        <3> QED BY <2>2, <2>6, <3>2 DEF HeapInv, Allocators
    <2> QED BY <1>1, <2>3, <2>4, <2>5, <2>6 DEF Allocators
<1>3. CASE FreeStep
    <2>1. PICK b \in heap.taken : heap' = IF part = "heap_2" THEN vPortFree_2(heap, b) ELSE vPortFree(heap, b)
        BY <1>3 DEF FreeStep
    <2>2. part' = part /\ part \in {"heap_2", "heap_4", "heap_5"}
        BY <1>3 DEF FreeStep, Allocators
    <2>3. CASE part = "heap_2"
        <3>1. Whole(heap')
            BY <2>1, <2>3, Free2 DEF HeapInv
        <3> QED BY <2>2, <2>3, <3>1 DEF HeapInv, Allocators
    <2>4. CASE part \in {"heap_4", "heap_5"}
        <3>1. heap' = vPortFree(heap, b)
            BY <2>1, <2>4
        <3>2. Whole(heap') /\ Apart(heap') /\ Modest(heap') /\ heap'.pxEnd = heap.pxEnd /\ heap'.regions = heap.regions
            BY <2>4, <3>1, Free4 DEF HeapInv
        <3> QED BY <2>2, <2>4, <3>2 DEF HeapInv, Allocators
    <2> QED BY <2>2, <2>3, <2>4
<1>4. CASE UNCHANGED heapVars
    BY <1>4 DEF HeapInv, heapVars
<1> QED BY <1>2, <1>3, <1>4 DEF HeapNext

\* Whatever the sizes asked for and however the program frees: the heap is as
\* the invariant says (heap_1.c, heap_2.c, heap_4.c, heap_5.c).
THEOREM HeapInvariant ==
    HeapSpec => []HeapInv
BY HeapInvStarts, HeapInvKept, PTL DEF HeapSpec

-----------------------------------------------------------------------------
(* What follows from it. *)

LEMMA ListCount ==
    ASSUME NEW f \in Seq(Nat), Distinct(f)
    PROVE  Cardinality(Elements(f)) = Len(f)
<1> DEFINE N == Len(f)
           T == Elements(f)
<1>1. N \in Nat /\ DOMAIN f = 1 .. N /\ f = [i \in 1 .. N |-> f[i]]
    OBVIOUS
<1> HIDE DEF N
<1>2. \A i \in 1 .. N : f[i] \in T
    BY <1>1 DEF Elements
<1>3. f \in [1 .. N -> T]
    <2> HIDE DEF T
    <2> QED BY <1>1, <1>2
<1>4. \A t \in T : \E i \in 1 .. N : f[i] = t
    BY <1>1 DEF Elements
<1> HIDE DEF T
<1>5. f \in Surjection(1 .. N, T)
    BY <1>3, <1>4 DEF Surjection
<1>6. \A i, j \in 1 .. N : f[i] = f[j] => i = j
    BY <1>1 DEF Distinct
<1>7. f \in Injection(1 .. N, T)
    BY <1>1, <1>3, <1>6 DEF Injection, IsInjective
<1>8. IsFiniteSet(1 .. N) /\ Cardinality(1 .. N) = N
    <2>1. 1 \in Int /\ N \in Int
        BY <1>1
    <2>2. IsFiniteSet(1 .. N) /\ Cardinality(1 .. N) = IF 1 > N THEN 0 ELSE N - 1 + 1
        BY <2>1, FS_Interval
    <2> QED BY <1>1, <2>2
<1>9. Cardinality(T) = Cardinality(1 .. N)
    BY <1>5, <1>7, <1>8, FS_Surjection
<1> QED BY <1>8, <1>9 DEF N, T

LEMMA LinkedTiles ==
    ASSUME Whole(heap), part \in {"heap_2", "heap_4", "heap_5"},
           part \in {"heap_4", "heap_5"} => Apart(heap) /\ Modest(heap)
    PROVE  BlocksTile
<1> DEFINE sz == heap.size
<1>1. /\ heap.free \in Seq(Nat) /\ Distinct(heap.free) /\ heap.failed = {}
      /\ Ledger(sz, FreeBlocks, heap.taken, heap.pxEnd, heap.regions, heap.xFreeBytesRemaining, heap.wanted)
      /\ heap.xMinimumEverFreeBytesRemaining <= heap.xFreeBytesRemaining
    BY DEF Whole, Sound, FreeBlocks, Elements
<1>2. /\ \A b \in DOMAIN sz : b \in Nat /\ sz[b] \in Nat /\ Aligned(b)
      /\ DOMAIN sz \subseteq FreeBlocks \cup heap.taken \cup {heap.pxEnd}
      /\ FreeBlocks \cap heap.taken = {}
      /\ heap.xFreeBytesRemaining = SumOf(sz, FreeBlocks)
      /\ \A b \in heap.taken :
            b \in DOMAIN sz /\ heap.wanted[b] \in Nat
            /\ Room(sz[b], heap.wanted[b])
    <2>1. \A b \in DOMAIN sz : b \in Nat /\ sz[b] \in Nat
        BY <1>1, LedgerFinite
    <2> QED BY <1>1, <2>1 DEF Ledger
<1>3. ASSUME NEW region \in heap.regions
      PROVE  LET blocks == InRegion(region)
             IN  /\ \A a, b \in blocks : a # b => a + heap.size[a] <= b \/ b + heap.size[b] <= a
                 /\ blocks \subseteq FreeBlocks \cup heap.taken
                 /\ part # "heap_1" => SizesOf(blocks) = region[2] - region[1]
                 /\ \A b \in blocks : b + heap.size[b] <= region[2]
    <2> DEFINE blocks == InRegion(region)
    <2>1. blocks = Within(sz, region)
        BY DEF InRegion, Within
    <2>2. \A b \in blocks : b \in DOMAIN sz /\ b < region[2]
        BY DEF InRegion
    <2>3. /\ \A a, b \in DOMAIN sz : a < b => a + sz[a] <= b
          /\ \A b \in DOMAIN sz : b < region[2] => b + sz[b] <= region[2]
          /\ SumOf(sz, Within(sz, region)) = region[2] - region[1]
          /\ region[2] \in Nat
          /\ heap.pxEnd \in Nat => heap.pxEnd >= region[2]
        BY <1>1 DEF Ledger, Tiled
    <2>4. ASSUME NEW a \in blocks, NEW b \in blocks, a # b PROVE a + sz[a] <= b \/ b + sz[b] <= a
        <3>1. a < b \/ b < a
            BY <1>2, <2>2, <2>4
        <3> QED BY <2>2, <2>3, <3>1
    <2>5. blocks \subseteq FreeBlocks \cup heap.taken
        <3>1. heap.pxEnd \notin blocks
            BY <1>2, <2>2, <2>3
        <3> QED BY <1>2, <2>2, <3>1
    <2>6. SizesOf(blocks) = region[2] - region[1]
        BY <2>1, <2>3 DEF SizesOf
    <2>7. \A b \in blocks : b + sz[b] <= region[2]
        BY <2>2, <2>3
    <2> QED BY <2>4, <2>5, <2>6, <2>7
<1>4. Cardinality(FreeBlocks) = Len(heap.free)
    BY <1>1, ListCount DEF FreeBlocks, Elements
<1>5. ASSUME NEW b \in heap.taken
      PROVE  b % portBYTE_ALIGNMENT = 0 /\ (HasRoom(b) \/ (part = "heap_2" /\ Wraps(heap.wanted[b])))
    <2>1. part # "heap_2" => ~Wraps(heap.wanted[b])
        <3>1. heap.wanted[b] \in Nat /\ (part # "heap_2" => heap.wanted[b] < xBlockAllocatedBit)
            BY <1>2 DEF Modest
        <3> QED BY <3>1, Sizes DEF Wraps
    <2>2. heap.size[b] >= heap.wanted[b] + xHeapStructSize \/ Wraps(heap.wanted[b])
        BY <1>2 DEF Room
    <2>3. HasRoom(b) <=> heap.size[b] >= heap.wanted[b] + xHeapStructSize
        BY DEF HasRoom
    <2>4. b % portBYTE_ALIGNMENT = 0
        BY <1>2 DEF Aligned
    <2> QED BY <2>1, <2>2, <2>3, <2>4
<1>6. part \in {"heap_4", "heap_5"} => \A a, b \in FreeBlocks : a + sz[a] = b => sz[b] = 0
    BY DEF Apart, FreeBlocks, Elements
<1>7. part # "heap_1"
    OBVIOUS
<1>8. heap.xFreeBytesRemaining = SizesOf(FreeBlocks)
    BY <1>2 DEF SizesOf
<1> QED BY <1>1, <1>2, <1>3, <1>4, <1>5, <1>6, <1>7, <1>8 DEF BlocksTile

LEMMA BumpTiles ==
    ASSUME Bump(heap), part = "heap_1"
    PROVE  BlocksTile
<1> DEFINE sz == heap.size
           N  == configADJUSTED_HEAP_SIZE
<1>1. /\ heap.free = <<>> /\ heap.failed = {} /\ DOMAIN sz = heap.taken
      /\ heap.regions \subseteq {<<Bottom, Bottom + N>>}
      /\ heap.xFreeBytesRemaining \in Nat /\ heap.xMinimumEverFreeBytesRemaining <= heap.xFreeBytesRemaining
      /\ heap.xFreeBytesRemaining = N - SumOf(sz, heap.taken)
      /\ \A b \in heap.taken : /\ b \in Nat /\ sz[b] \in Nat /\ Aligned(b) /\ sz[b] >= heap.wanted[b]
                               /\ heap.wanted[b] \in Nat
                               /\ b + sz[b] <= Bottom + (N - heap.xFreeBytesRemaining)
      /\ \A a, b \in heap.taken : a # b => a + sz[a] <= b \/ b + sz[b] <= a
    BY DEF Bump
<1>2. N \in Nat /\ Bottom \in Nat
    BY BottomIs
<1>3. FreeBlocks = {} /\ Cardinality({}) = 0 /\ Len(<<>>) = 0
    BY <1>1, FS_EmptySet DEF FreeBlocks
<1>4. ASSUME NEW region \in heap.regions
      PROVE  LET blocks == InRegion(region)
             IN  /\ \A a, b \in blocks : a # b => a + heap.size[a] <= b \/ b + heap.size[b] <= a
                 /\ blocks \subseteq FreeBlocks \cup heap.taken
                 /\ part # "heap_1" => SizesOf(blocks) = region[2] - region[1]
                 /\ \A b \in blocks : b + heap.size[b] <= region[2]
    <2> DEFINE blocks == InRegion(region)
    <2>1. blocks \subseteq heap.taken
        BY <1>1 DEF InRegion
    <2>2. region[2] = Bottom + N
        BY <1>1
    <2> HIDE DEF N
    <2>3. ASSUME NEW b \in blocks PROVE b + sz[b] <= region[2]
        <3>1. /\ b \in Nat /\ sz[b] \in Nat /\ heap.xFreeBytesRemaining \in Nat
              /\ b + sz[b] <= Bottom + (N - heap.xFreeBytesRemaining)
            BY <1>1, <2>1
        <3> HIDE DEF sz
        <3> QED BY <1>2, <2>2, <3>1
    <2> QED BY <1>1, <2>1, <2>3
<1>5. \A b \in heap.taken : b % portBYTE_ALIGNMENT = 0 /\ HasRoom(b)
    BY <1>1 DEF Aligned, HasRoom
<1>6. heap.xFreeBytesRemaining = N - SizesOf(heap.taken)
    BY <1>1 DEF SizesOf
<1> QED BY <1>1, <1>3, <1>4, <1>5, <1>6 DEF BlocksTile

\* However a program asks and frees, of whichever sizes a size_t holds: the
\* blocks cover the memory once, the counts are right, every block has room for
\* what was asked - in heap_2, unless the size that was asked wraps - and in
\* heap_4 and heap_5 no two free blocks are left apart that touch.
THEOREM BlocksAlwaysTile ==
    HeapSpec => []BlocksTile
<1>1. HeapInv => BlocksTile
    <2> SUFFICES ASSUME HeapInv PROVE BlocksTile
        OBVIOUS
    <2>1. CASE part = "heap_1"
        BY <2>1, BumpTiles DEF HeapInv
    <2>2. CASE part = "heap_2"
        BY <2>2, LinkedTiles DEF HeapInv
    <2>3. CASE part \in {"heap_4", "heap_5"}
        BY <2>3, LinkedTiles DEF HeapInv
    <2> QED BY <2>1, <2>2, <2>3 DEF HeapInv, Allocators
<1> QED BY <1>1, HeapInvariant, PTL

LEMMA MaxIs ==
    ASSUME NEW S \in SUBSET Nat, 0 \in S, NEW u \in Nat, \A s \in S : s <= u
    PROVE  Max(S) \in S /\ \A s \in S : s <= Max(S)
<1> DEFINE Below == OpToRel(<, Nat)
           Q == {m \in Nat : \A s \in S : s <= m}
<1>1. IsWellFoundedOn(Below, Nat)
    BY NatLessThanWellFounded
<1>2. \A m, n \in Nat : m < n => <<m, n>> \in Below
    BY DEF OpToRel
<1> HIDE DEF Below
<1>3. u \in Q /\ Q \subseteq Nat
    OBVIOUS
<1> HIDE DEF Q
<1>4. PICK m \in Q : \A q \in Q : ~(<<q, m>> \in Below)
    BY <1>1, <1>3, WFMin
<1>5. m \in Nat /\ \A s \in S : s <= m
    BY DEF Q
<1>6. m \in S
    <2>1. SUFFICES ASSUME m \notin S PROVE FALSE
        OBVIOUS
    <2>2. m # 0 /\ m - 1 \in Nat /\ m - 1 < m
        BY <1>5, <2>1
    <2>3. \A s \in S : s <= m - 1
        BY <1>5, <2>1
    <2>4. m - 1 \in Q
        BY <2>2, <2>3 DEF Q
    <2> QED BY <1>2, <1>4, <1>5, <2>2, <2>4
<1>7. \E x \in S : \A y \in S : x >= y
    BY <1>5, <1>6
<1>8. Max(S) \in S /\ \A y \in S : Max(S) >= y
    BY <1>7 DEF Max
<1> QED BY <1>8

\* The largest block that the statistics tell.
LEMMA LargestIs ==
    ASSUME NEW h, Whole(h)
    PROVE  LET largest == vPortGetHeapStats(h).largest
           IN  /\ largest \in Nat /\ largest <= h.xFreeBytesRemaining
               /\ \A b \in Elements(h.free) : h.size[b] \in Nat /\ h.size[b] <= largest
               /\ largest > 0 => \E b \in Elements(h.free) : h.size[b] = largest
<1> DEFINE S == {0} \cup {h.size[h.free[i]] : i \in DOMAIN h.free}
           x == h.xFreeBytesRemaining
<1>1. Ledger(h.size, Elements(h.free), h.taken, h.pxEnd, h.regions, x, h.wanted)
    BY DEF Whole, Sound
<1>2. x \in Nat /\ \A b \in Elements(h.free) : h.size[b] \in Nat /\ h.size[b] <= x
    BY <1>1, LedgerFinite
<1>3. \A s \in S : s = 0 \/ \E b \in Elements(h.free) : h.size[b] = s
    BY DEF Elements
<1>4. \A b \in Elements(h.free) : h.size[b] \in S
    BY DEF Elements
<1>5. vPortGetHeapStats(h).largest = Max(S)
    BY DEF vPortGetHeapStats
<1>6. 0 \in S
    OBVIOUS
<1> HIDE DEF S, x
<1>7. S \in SUBSET Nat /\ \A s \in S : s <= x
    BY <1>2, <1>3
<1>8. Max(S) \in S /\ \A s \in S : s <= Max(S)
    BY <1>2, <1>6, <1>7, MaxIs
<1> DEFINE largest == vPortGetHeapStats(h).largest
<1>9. largest \in S /\ \A s \in S : s <= largest
    BY <1>5, <1>8
<1> HIDE DEF largest
<1>10. largest \in Nat /\ largest <= x
    BY <1>7, <1>9
<1>11. \A b \in Elements(h.free) : h.size[b] \in Nat /\ h.size[b] <= largest
    BY <1>2, <1>4, <1>9
<1>12. largest > 0 => \E b \in Elements(h.free) : h.size[b] = largest
    BY <1>3, <1>9
<1> QED BY <1>10, <1>11, <1>12 DEF x, largest

\* A request is met exactly when the largest free block has room for it.
THEOREM RequestsAlwaysMet ==
    HeapSpec => []RequestsMet
<1>1. HeapInv => RequestsMet
    <2> SUFFICES ASSUME HeapInv, part \in {"heap_4", "heap_5"}, heap.regions # {} PROVE RequestsMet
        BY DEF RequestsMet
    <2> DEFINE stats == IF part = "heap_4" THEN vPortGetHeapStats(heap) ELSE vPortGetHeapStats_5(heap)
               largest == vPortGetHeapStats(heap).largest
    <2>1. Whole(heap) /\ Apart(heap) /\ Modest(heap) /\ heap.pxEnd # NoBlock
        BY DEF HeapInv
    <2>2. /\ stats.largest = largest /\ stats.available = heap.xFreeBytesRemaining
          /\ stats.walked = (heap.pxEnd = NoBlock \/ heap.free # <<>>)
        BY DEF vPortGetHeapStats, vPortGetHeapStats_5
    <2>3. /\ largest \in Nat /\ largest <= heap.xFreeBytesRemaining
          /\ \A b \in Elements(heap.free) : heap.size[b] \in Nat /\ heap.size[b] <= largest
          /\ largest > 0 => \E b \in Elements(heap.free) : heap.size[b] = largest
        BY <2>1, LargestIs
    <2> HIDE DEF stats, largest
    <2>4. ASSUME NEW n \in Requests \ {0}
          PROVE  Malloc(heap, n).taken # heap.taken <=> n < xBlockAllocatedBit /\ Rounded(n) <= stats.largest
        <3>1. n \in Nat /\ n < SizeT /\ n # 0
            BY HeapAssumption, Sizes
        <3>2. Malloc(heap, n).taken # heap.taken <=> Fits(heap, n)
            <4>1. Malloc(heap, n) = Allocate(heap, n)
                BY <2>1 DEF Malloc, pvPortMalloc, pvPortMalloc_5
            <4> QED BY <2>1, <3>1, <4>1, Allocate4
        <3>3. Rounded(n) \in Nat /\ (n < xBlockAllocatedBit => Rounded(n) # 0)
            BY <3>1, RoundedIs
        <3>4. heap.xFreeBytesRemaining \in Nat
            BY <2>1, LedgerFinite DEF Whole, Sound
        <3>5. ASSUME Rounded(n) # 0
              PROVE  (\E b \in Elements(heap.free) : heap.size[b] >= Rounded(n)) <=> Rounded(n) <= largest
            BY <2>3, <3>3, <3>5
        <3>6. Rounded(n) <= largest => Rounded(n) <= heap.xFreeBytesRemaining
            BY <2>3, <3>3, <3>4
        <3> QED BY <2>2, <3>1, <3>2, <3>3, <3>5, <3>6 DEF Fits
    <2>5. stats.largest > 0 => stats.walked /\ stats.available >= stats.largest
        <3>1. ASSUME largest > 0 PROVE heap.free # <<>>
            <4>1. PICK b \in Elements(heap.free) : TRUE
                BY <2>3, <3>1
            <4> QED BY <4>1 DEF Elements
        <3>2. heap.xFreeBytesRemaining \in Nat
            BY <2>1, LedgerFinite DEF Whole, Sound
        <3> QED BY <2>2, <2>3, <3>1, <3>2
    <2> QED BY <2>4, <2>5 DEF RequestsMet, stats
<1> QED BY <1>1, HeapInvariant, PTL

=============================================================================
