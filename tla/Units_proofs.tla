---------------------------- MODULE Units_proofs ----------------------------
(***************************************************************************)
(* Proofs about the units beside the pipeline: the divider and the         *)
(* multiplier, the stack of return addresses, the local memories, and the  *)
(* machine timer with its driver.                                          *)
(***************************************************************************)
EXTENDS ReturnStack, Mtimer, LoadStore, Divider, Multiplier,
        WellFoundedInduction, NaturalsInduction, TLAPS

-----------------------------------------------------------------------------
(* The divider and the multiplier, at every width.  What they need of powers of
   two and of quotients comes first. *)

\* Induction, for a set in the place of a predicate.
LEMMA Induction ==
    ASSUME NEW S, 0 \in S, \A n \in Nat : n \in S => n + 1 \in S
    PROVE  \A n \in Nat : n \in S
<1> DEFINE Below == OpToRel(<, Nat)
           Outside == Nat \ S
<1>1. IsWellFoundedOn(Below, Nat)
    BY NatLessThanWellFounded
<1>2. \A m, n \in Nat : m < n => <<m, n>> \in Below
    BY DEF OpToRel
<1> HIDE DEF Below
<1>3. SUFFICES ASSUME Outside # {} PROVE FALSE
    OBVIOUS
<1>4. Outside \subseteq Nat
    OBVIOUS
<1> HIDE DEF Outside
<1>5. PICK n \in Outside : \A m \in Outside : ~(<<m, n>> \in Below)
    BY <1>1, <1>3, <1>4, WFMin
<1>6. n \in Nat /\ n \notin S
    BY DEF Outside
<1>7. n - 1 \in Nat /\ n - 1 < n /\ (n - 1) + 1 = n
    BY <1>6
<1>8. n - 1 \in S
    BY <1>2, <1>5, <1>6, <1>7 DEF Outside
<1> QED BY <1>6, <1>7, <1>8

-----------------------------------------------------------------------------
\* Quotient and remainder are what they should be, and nothing else is.
LEMMA QuotientAndRemainder ==
    ASSUME NEW N \in Nat \ {0}, NEW x \in Int
    PROVE  /\ x \div N \in Int
           /\ x % N \in 0 .. N - 1
           /\ x = (x \div N) * N + (x % N)
OBVIOUS

\* There is one quotient and one remainder.
LEMMA QuotientUnique ==
    ASSUME NEW N \in Nat \ {0}, NEW k \in Int, NEW r \in 0 .. N - 1
    PROVE  (k * N + r) \div N = k /\ (k * N + r) % N = r
OBVIOUS

\* A number below N is its own residue.
LEMMA SmallResidue ==
    ASSUME NEW N \in Nat \ {0}, NEW r \in 0 .. N - 1
    PROVE  r % N = r /\ r \div N = 0
OBVIOUS

\* Whole multiples of N change the quotient and not the residue.
LEMMA SameResidue ==
    ASSUME NEW N \in Nat \ {0}, NEW x \in Int, NEW k \in Int
    PROVE  (x + k * N) % N = x % N /\ (x + k * N) \div N = (x \div N) + k
<1> DEFINE q == x \div N
           r == x % N
<1>1. q \in Int /\ r \in 0 .. N - 1 /\ x = q * N + r
    BY QuotientAndRemainder
<1> HIDE DEF q, r
<1>2. q + k \in Int /\ x + k * N = (q + k) * N + r
    BY <1>1
<1>3. (x + k * N) \div N = q + k /\ (x + k * N) % N = r
    BY <1>1, <1>2, QuotientUnique
<1> QED BY <1>3 DEF q, r

\* A quotient by twice a number is the half of the quotient by the number.
LEMMA HalfQuotient ==
    ASSUME NEW M \in Nat \ {0}, NEW x \in Nat
    PROVE  /\ x \div (2 * M) \in Nat /\ x \div M \in Nat
           /\ x \div M <= x
           /\ x \div M = 2 * (x \div (2 * M)) + ((x \div M) % 2)
<1> DEFINE q == x \div M
           r == x % M
           h == q \div 2
           b == q % 2
<1>1. q \in Int /\ r \in 0 .. M - 1 /\ x = q * M + r
    BY QuotientAndRemainder
<1> HIDE DEF q, r
<1>2. q \in Nat /\ q <= x
    BY <1>1
<1>3. h \in Nat /\ b \in 0 .. 1 /\ q = 2 * h + b
    BY <1>2
<1> HIDE DEF h, b
<1> DEFINE N == 2 * M
           s == b * M + r
<1>4. x = h * N + s /\ s \in 0 .. N - 1 /\ N \in Nat \ {0}
    <2>1. b * M \in 0 .. M
        BY <1>3
    <2>2. s \in 0 .. N - 1
        BY <1>1, <2>1
    <2>3. x = h * N + s
        BY <1>1, <1>3
    <2> QED BY <2>2, <2>3
<1>5. x \div (2 * M) = x \div N
    OBVIOUS
<1> HIDE DEF N, s
<1>6. x \div N = h
    BY <1>3, <1>4, QuotientUnique
<1> QED BY <1>2, <1>3, <1>5, <1>6 DEF q, b, N

-----------------------------------------------------------------------------
(***************************************************************************)
(* The divider.                                                            *)
(***************************************************************************)
\* Powers of two up to the width are positive.
LEMMA DividerPositive == \A n \in 0 .. DW : 2 ^ n \in Nat \ {0}
<1> DEFINE S == {n \in Nat : n <= DW => 2 ^ n \in Nat \ {0}}
<1>1. 0 \in S
    OBVIOUS
<1>2. ASSUME NEW n \in Nat, n \in S PROVE n + 1 \in S
    <2>1. SUFFICES ASSUME n + 1 <= DW PROVE 2 ^ (n + 1) \in Nat \ {0}
        OBVIOUS
    <2>2. 2 ^ (n + 1) = 2 * 2 ^ n /\ 2 ^ n \in Nat \ {0}
        BY <1>2, <2>1, DividerAssumption, DividerPowers
    <2> QED BY <2>2
<1> HIDE DEF S
<1>3. \A n \in Nat : n \in S
    BY <1>1, <1>2, Induction
<1> QED BY <1>3, DividerAssumption DEF S

\* The range of a word is even, and at least four.
LEMMA WrapIs == Wrap \in Nat /\ Wrap >= 4 /\ Wrap = 2 * (Wrap \div 2)
<1>1. 2 ^ DW = 2 * 2 ^ (DW - 1)
    <2>1. DW - 1 \in 0 .. DW - 1 /\ (DW - 1) + 1 = DW
        BY DividerAssumption
    <2> QED BY <2>1, DividerPowers
<1>2. 2 ^ (DW - 1) = 2 * 2 ^ (DW - 2)
    <2>1. DW - 2 \in 0 .. DW - 1 /\ (DW - 2) + 1 = DW - 1
        BY DividerAssumption
    <2> QED BY <2>1, DividerPowers
<1>3. 2 ^ (DW - 2) \in Nat \ {0}
    BY DividerPositive, DividerAssumption
<1> QED BY <1>1, <1>2, <1>3 DEF Wrap

\* The seen part of the dividend, one bit later.
LEMMA SeenNext ==
    ASSUME NEW a \in DivWord, NEW c \in 0 .. DW - 1
    PROVE  /\ Bit(a, DW - 1 - c) \in 0 .. 1
           /\ a \div 2 ^ (DW - c) \in Nat
           /\ a \div 2 ^ (DW - (c + 1)) =
                  2 * (a \div 2 ^ (DW - c)) + Bit(a, DW - 1 - c)
           /\ a \div 2 ^ (DW - (c + 1)) <= a
<1> DEFINE M == 2 ^ (DW - 1 - c)
<1>1. DW - 1 - c \in 0 .. DW - 1 /\ (DW - 1 - c) + 1 = DW - c /\ DW - (c + 1) = DW - 1 - c
    BY DividerAssumption
<1>2. M \in Nat \ {0}
    BY <1>1, DividerAssumption, DividerPositive
<1>3. 2 ^ (DW - c) = 2 * M /\ 2 ^ (DW - (c + 1)) = M
    BY <1>1, DividerPowers
<1>4. a \in Nat
    BY WrapIs DEF DivWord
<1> HIDE DEF M
<1>5. /\ a \div (2 * M) \in Nat /\ a \div M \in Nat
      /\ a \div M <= a
      /\ a \div M = 2 * (a \div (2 * M)) + ((a \div M) % 2)
    BY <1>2, <1>4, HalfQuotient
<1>6. Bit(a, DW - 1 - c) = (a \div M) % 2
    BY DEF Bit, M
<1>7. (a \div M) % 2 \in 0 .. 1
    BY <1>5
<1> QED BY <1>3, <1>5, <1>6, <1>7

\* None of the dividend is seen at the start, all of it at the end.
LEMMA SeenEnds ==
    ASSUME NEW a \in DivWord
    PROVE  a \div 2 ^ (DW - 0) = 0 /\ a \div 2 ^ (DW - DW) = a
<1>1. a \in 0 .. Wrap - 1 /\ Wrap \in Nat \ {0}
    BY WrapIs DEF DivWord
<1>2. a \div Wrap = 0
    BY <1>1, SmallResidue
<1>3. 2 ^ (DW - 0) = Wrap
    BY DividerAssumption DEF Wrap
<1>4. DW - DW = 0 /\ 2 ^ 0 = 1 /\ a \div 1 = a
    BY <1>1, DividerAssumption
<1> QED BY <1>2, <1>3, <1>4

\* Negation of a word.
LEMMA NegateIs ==
    ASSUME NEW w \in DivWord
    PROVE  /\ Negate(w) = IF w = 0 THEN 0 ELSE Wrap - w
           /\ Negate(w) \in DivWord
           /\ Negate(w) = (-w) % Wrap
           /\ w = w % Wrap
<1>1. w \in 0 .. Wrap - 1 /\ Wrap \in Nat \ {0}
    BY WrapIs DEF DivWord
<1>2. Wrap % Wrap = 0 /\ w % Wrap = w
    <2>1. 1 * Wrap + 0 = Wrap
        BY <1>1
    <2>2. (1 * Wrap + 0) % Wrap = 0
        BY <1>1, QuotientUnique
    <2> QED BY <1>1, <2>1, <2>2, SmallResidue
<1>3. CASE w = 0
    BY <1>1, <1>2, <1>3, SmallResidue DEF Negate, DivWord
<1>4. CASE w # 0
    <2>1. Wrap - w \in 0 .. Wrap - 1
        BY <1>1, <1>4
    <2>2. (Wrap - w) % Wrap = Wrap - w
        BY <1>1, <2>1, SmallResidue
    <2>3. -w \in Int /\ -w + 1 * Wrap = Wrap - w
        BY <1>1
    <2>4. (-w + 1 * Wrap) % Wrap = (-w) % Wrap
        BY <1>1, <2>3, SameResidue
    <2> QED BY <1>2, <1>4, <2>1, <2>2, <2>3, <2>4 DEF Negate, DivWord
<1> QED BY <1>3, <1>4

\* The magnitude of a word, by the signedness of operation o.
AbsWord(o, w) == IF o \in SignedOps /\ Negative(w) THEN Negate(w) ELSE w

\* A word as o reads it: its magnitude is that of the number.
ReadAs(o, w) == IF o \in SignedOps THEN AsSigned(w) ELSE w

\* The magnitude of a word is that of the number it is read as, and negative
\* numbers are the negative words of the signed operations.
LEMMA AbsWordIs ==
    ASSUME NEW o, NEW w \in DivWord
    PROVE  /\ AbsWord(o, w) \in DivWord
           /\ (AbsWord(o, w) = 0) <=> (w = 0)
           /\ ReadAs(o, w) \in Int
           /\ Abs(ReadAs(o, w)) = AbsWord(o, w)
           /\ (ReadAs(o, w) = 0) <=> (w = 0)
           /\ (ReadAs(o, w) < 0) <=> (o \in SignedOps /\ Negative(w))
<1>1. w \in 0 .. Wrap - 1 /\ Wrap \in Nat /\ Wrap >= 4 /\ Wrap = 2 * (Wrap \div 2)
    BY WrapIs DEF DivWord
<1>2. Wrap \div 2 \in Nat /\ (Negative(w) <=> w >= Wrap \div 2)
    BY <1>1 DEF Negative
<1>3. Negate(w) = IF w = 0 THEN 0 ELSE Wrap - w
    BY NegateIs
<1>4. CASE o \in SignedOps /\ Negative(w)
    <2>1. w # 0 /\ ReadAs(o, w) = w - Wrap /\ AbsWord(o, w) = Wrap - w
        BY <1>1, <1>2, <1>3, <1>4 DEF ReadAs, AsSigned, AbsWord
    <2> QED BY <1>1, <1>4, <2>1 DEF Abs, DivWord
<1>5. CASE ~(o \in SignedOps /\ Negative(w))
    <2>1. ReadAs(o, w) = w /\ AbsWord(o, w) = w
        BY <1>5 DEF ReadAs, AsSigned, AbsWord
    <2> QED BY <1>1, <1>5, <2>1 DEF Abs, DivWord
<1> QED BY <1>4, <1>5

\* Division of magnitudes, truncated towards zero.
LEMMA Truncated ==
    ASSUME NEW x \in Int, NEW y \in Int, y # 0, NEW q \in Nat, NEW r \in Nat,
           q * Abs(y) + r = Abs(x), r < Abs(y)
    PROVE  /\ Abs(x) \div Abs(y) = q
           /\ (x < 0 <=> y < 0) => x - q * y = IF x < 0 THEN -r ELSE r
           /\ ~(x < 0 <=> y < 0) => x - (-q) * y = IF x < 0 THEN -r ELSE r
<1>1. Abs(y) \in Nat \ {0} /\ Abs(x) \in Nat /\ r \in 0 .. Abs(y) - 1
    BY DEF Abs
<1>2. Abs(x) \div Abs(y) = q
    BY <1>1, QuotientUnique
<1>3. x = IF x < 0 THEN -(q * Abs(y) + r) ELSE q * Abs(y) + r
    BY DEF Abs
<1>4. CASE x < 0 /\ y < 0
    BY <1>2, <1>3, <1>4 DEF Abs
<1>5. CASE x < 0 /\ ~(y < 0)
    BY <1>2, <1>3, <1>5 DEF Abs
<1>6. CASE ~(x < 0) /\ y < 0
    BY <1>2, <1>3, <1>6 DEF Abs
<1>7. CASE ~(x < 0) /\ ~(y < 0)
    BY <1>2, <1>3, <1>7 DEF Abs
<1> QED BY <1>4, <1>5, <1>6, <1>7

\* The result the divider shows is the defined one, when its registers hold the
\* quotient and the remainder of the magnitudes.
LEMMA DefinedIs ==
    ASSUME NEW o \in SignedOps \cup UnsignedOps, NEW a \in DivWord, NEW b \in DivWord,
           b # 0, NEW q \in DivWord, NEW r \in DivWord,
           q * AbsWord(o, b) + r = AbsWord(o, a), r < AbsWord(o, b)
    PROVE  Defined(o, a, b) =
               IF o \in {"DIV", "DIVU"}
               THEN IF o = "DIV" /\ Negative(a) # Negative(b) THEN Negate(q) ELSE q
               ELSE IF o = "REM" /\ Negative(a) THEN Negate(r) ELSE r
<1> DEFINE x == ReadAs(o, a)
           y == ReadAs(o, b)
           t == Abs(x) \div Abs(y)
<1>1. /\ x \in Int /\ y \in Int /\ y # 0
      /\ Abs(x) = AbsWord(o, a) /\ Abs(y) = AbsWord(o, b)
      /\ (x < 0) <=> (o \in SignedOps /\ Negative(a))
      /\ (y < 0) <=> (o \in SignedOps /\ Negative(b))
    BY AbsWordIs
<1>2. q \in Nat /\ r \in Nat
    BY WrapIs DEF DivWord
<1>3. /\ Negate(q) = (-q) % Wrap /\ q = q % Wrap
      /\ Negate(r) = (-r) % Wrap /\ r = r % Wrap
    BY NegateIs
<1>4. Defined(o, a, b) =
          LET d == t * (IF (x < 0) # (y < 0) THEN -1 ELSE 1)
          IN  (IF o \in {"DIV", "DIVU"} THEN d ELSE x - d * y) % Wrap
    BY <1>1 DEF Defined, ReadAs
<1> HIDE DEF x, y
<1>5. /\ t = q
      /\ (x < 0 <=> y < 0) => x - q * y = IF x < 0 THEN -r ELSE r
      /\ ~(x < 0 <=> y < 0) => x - (-q) * y = IF x < 0 THEN -r ELSE r
    <2>1. q * Abs(y) + r = Abs(x) /\ r < Abs(y)
        BY <1>1
    <2> QED BY <1>1, <1>2, <2>1, Truncated
<1> HIDE DEF t
<1>6. x - (IF (x < 0) # (y < 0) THEN -q ELSE q) * y = IF x < 0 THEN -r ELSE r
    <2>1. CASE x < 0 <=> y < 0
        BY <1>5, <2>1
    <2>2. CASE ~(x < 0 <=> y < 0)
        BY <1>5, <2>2
    <2> QED BY <2>1, <2>2
<1>7. t * (IF (x < 0) # (y < 0) THEN -1 ELSE 1) = IF (x < 0) # (y < 0) THEN -q ELSE q
    BY <1>2, <1>5
<1>8. Defined(o, a, b) = (IF o \in {"DIV", "DIVU"}
                         THEN IF (x < 0) # (y < 0) THEN -q ELSE q
                         ELSE IF x < 0 THEN -r ELSE r) % Wrap
    BY <1>4, <1>6, <1>7
<1>9. CASE o \in SignedOps
    <2>1. ((x < 0) # (y < 0)) <=> (Negative(a) # Negative(b))
        BY <1>1, <1>9, WrapIs DEF Negative, DivWord
    <2>2. o = "DIV" \/ o = "REM"
        BY <1>9 DEF SignedOps
    <2> QED BY <1>1, <1>3, <1>8, <1>9, <2>1, <2>2
<1>10. CASE o \notin SignedOps
    <2>1. ~(x < 0) /\ ~(y < 0)
        BY <1>1, <1>10
    <2>2. o = "DIVU" \/ o = "REMU"
        BY <1>10 DEF UnsignedOps
    <2> QED BY <1>1, <1>3, <1>8, <2>1, <2>2
<1> QED BY <1>9, <1>10

-----------------------------------------------------------------------------
\* What the registers hold of the operands, whenever they were loaded: the
\* magnitudes and the flags go by the operation before.
Loaded ==
    /\ dividendAbs = AbsWord(before, divd)
    /\ divisorAbs = AbsWord(before, divs)
    /\ quoNeg = (before \in SignedOps /\ Negative(divd) # Negative(divs))
    /\ remNeg = (before \in SignedOps /\ Negative(divd))

\* The loop is over.
Divided ==
    state = "END" /\ divs # 0 => /\ quo * divisorAbs + rem = dividendAbs
                                 /\ rem < divisorAbs

(***************************************************************************)
(* The inductive invariant: CorrectAfterSameSign speaks of the one cycle   *)
(* of ready, Divided carries the result of the loop there, and Loaded the  *)
(* operands.                                                               *)
(***************************************************************************)
DividerInv ==
    DividerTypeOK /\ rem \in DivWord /\ Loaded /\ PartialDivision /\ Divided
    /\ CorrectAfterSameSign

\* The invariant holds at reset.
LEMMA DividerInvInit == DividerInit => DividerInv
<1> SUFFICES ASSUME DividerInit PROVE DividerInv
    OBVIOUS
<1>1. 0 \in DivWord /\ Wrap \in Nat /\ Wrap >= 4 /\ Wrap \div 2 > 0 /\ Wrap \div 2 \in Nat
    BY WrapIs DEF DivWord
<1>2. 0 \in 0 .. 2 * Wrap - 1 /\ 0 \in 0 .. DW - 1 /\ ~Negative(0)
    BY <1>1, DividerAssumption DEF Negative
<1>3. DividerTypeOK /\ rem \in DivWord
    BY <1>1, <1>2 DEF DividerInit, DividerTypeOK, SignedOps, UnsignedOps
<1>4. Loaded
    BY <1>2 DEF DividerInit, Loaded, AbsWord
<1> QED BY <1>3, <1>4 DEF DividerInv, DividerInit, PartialDivision, Divided, CorrectAfterSameSign

\* A start loads the operands and has seen no bit yet.
LEMMA StartKeeps ==
    ASSUME DividerInv, NEW o \in Ops, NEW a \in DivWord, NEW b \in DivWord, Start(o, a, b)
    PROVE  DividerInv'
<1>1. /\ Magnitude(a) = AbsWord(div_op, a) /\ Magnitude(b) = AbsWord(div_op, b)
      /\ Magnitude(a) \in DivWord /\ Magnitude(b) \in DivWord
      /\ b # 0 => Magnitude(b) # 0
    BY AbsWordIs DEF Magnitude, AbsWord
<1>2. 0 \in DivWord /\ Wrap \in Nat /\ Wrap >= 4
    BY WrapIs DEF DivWord
<1>3. DividerTypeOK' /\ (rem \in DivWord)'
    <2>1. 0 \in 0 .. 2 * Wrap - 1 /\ 0 \in 0 .. DW - 1 /\ o \in SignedOps \cup UnsignedOps
        BY <1>2, DividerAssumption
    <2>2. quoNeg' \in BOOLEAN /\ remNeg' \in BOOLEAN
        BY DEF Start, RemSign
    <2> QED BY <1>1, <1>2, <2>1, <2>2 DEF DividerInv, DividerTypeOK, Start
<1>4. Loaded'
    BY <1>1 DEF Start, Loaded, AbsWord, RemSign, Negative, Negate
<1>5. PartialDivision'
    <2>1. SUFFICES ASSUME b # 0
                   PROVE  0 * Magnitude(b) + 0 = Magnitude(a) \div 2 ^ (DW - 0) /\ 0 < Magnitude(b)
        BY DEF Start, PartialDivision, Seen
    <2>2. Magnitude(b) \in Nat \ {0}
        BY <1>1, <1>2, <2>1 DEF DivWord
    <2>3. Magnitude(a) \div 2 ^ (DW - 0) = 0
        BY <1>1, SeenEnds
    <2> QED BY <2>2, <2>3
<1> QED BY <1>3, <1>4, <1>5 DEF DividerInv, Start, Divided, CorrectAfterSameSign

\* One iteration takes quotient and remainder one bit further.
LEMMA IterateKeeps ==
    ASSUME DividerInv, Iterate
    PROVE  DividerInv'
<1>1. /\ Wrap \in Nat /\ Wrap >= 4
      /\ quo \in 0 .. Wrap - 1 /\ rem \in 0 .. Wrap - 1 /\ cnt \in 0 .. DW - 1
      /\ dividendAbs \in 0 .. Wrap - 1 /\ divisorAbs \in 0 .. Wrap - 1
      /\ dividendAbs \in DivWord /\ DW \in Nat \ {0, 1}
    BY WrapIs, DividerAssumption DEF DividerInv, DividerTypeOK, DivWord
<1>2. Loaded' /\ CorrectAfterSameSign'
    BY DEF DividerInv, Iterate, Loaded, CorrectAfterSameSign, operands, AbsWord, Negative, Negate
<1>3. CASE divs = 0
    <2>1. DividerTypeOK' /\ (rem \in DivWord)'
        <3>1. DW - 1 \in 0 .. DW - 1
            BY <1>1
        <3> QED BY <1>3, <3>1 DEF DividerInv, DividerTypeOK, Iterate, operands
    <2>2. PartialDivision' /\ Divided'
        BY <1>3 DEF Iterate, operands, PartialDivision, Divided
    <2> QED BY <1>2, <2>1, <2>2 DEF DividerInv
<1>4. CASE divs # 0
    <2> DEFINE bit == Bit(dividendAbs, DW - 1 - cnt)
               seen == dividendAbs \div 2 ^ (DW - cnt)
               turned == dividendAbs \div 2 ^ (DW - (cnt + 1))
               taken == IF Subtracts THEN 1 ELSE 0
               more == 2 * quo + taken
               left == Shifted - taken * divisorAbs
    <2>1. /\ bit \in 0 .. 1 /\ seen \in Nat /\ turned = 2 * seen + bit /\ turned <= dividendAbs
        BY <1>1, SeenNext
    <2>2. quo * divisorAbs + rem = seen /\ rem < divisorAbs
        BY <1>4 DEF DividerInv, PartialDivision, Seen, Iterate
    <2>3. Shifted = 2 * rem + bit /\ (Subtracts <=> Shifted >= divisorAbs)
        BY DEF Shifted, Subtracts
    <2> HIDE DEF bit, seen, turned
    <2>4. taken \in 0 .. 1 /\ left \in Nat /\ left < divisorAbs
        <3>1. CASE Subtracts
            BY <1>1, <2>1, <2>2, <2>3, <3>1
        <3>2. CASE ~Subtracts
            BY <1>1, <2>1, <2>2, <2>3, <3>2
        <3> QED BY <3>1, <3>2
    <2>5. left = Shifted - (IF Subtracts THEN divisorAbs ELSE 0)
        BY <1>1
    <2> HIDE DEF taken
    <2>6. more * divisorAbs + left = turned
        <3>1. more * divisorAbs + left = 2 * (quo * divisorAbs) + Shifted
            BY <1>1, <2>1, <2>3, <2>4
        <3> QED BY <1>1, <2>1, <2>2, <2>3, <3>1
    <2>7. more \in 0 .. Wrap - 1 /\ more % Wrap = more
        <3>1. more \in Nat /\ divisorAbs >= 1
            BY <1>1, <2>2, <2>4
        <3>2. more <= more * divisorAbs
            BY <1>1, <3>1
        <3>3. more <= dividendAbs
            BY <1>1, <2>1, <2>4, <2>6, <3>1, <3>2
        <3> QED BY <1>1, <3>1, <3>3, SmallResidue
    <2>8. rem' = left /\ quo' = more /\ cnt' = (cnt + 1) % DW
        BY <1>4, <2>5, <2>7 DEF Iterate, taken
    <2>9. (cnt + 1) % DW = IF cnt = DW - 1 THEN 0 ELSE cnt + 1
        <3>1. CASE cnt = DW - 1
            <4>1. (1 * DW + 0) % DW = 0
                BY <1>1, QuotientUnique
            <4> QED BY <1>1, <3>1, <4>1
        <3>2. CASE cnt # DW - 1
            BY <1>1, <3>2, SmallResidue
        <3> QED BY <3>1, <3>2
    <2>10. DividerTypeOK' /\ (rem \in DivWord)'
        <3>1. left \in 0 .. Wrap - 1 /\ left \in 0 .. 2 * Wrap - 1
            BY <1>1, <2>4
        <3>2. cnt' \in 0 .. DW - 1
            BY <1>1, <2>8, <2>9
        <3>3. rem' \in DivWord /\ quo' \in DivWord /\ rem' \in 0 .. 2 * Wrap - 1
            BY <2>7, <2>8, <3>1 DEF DivWord
        <3> QED BY <3>2, <3>3 DEF DividerInv, DividerTypeOK, Iterate, operands
    <2>11. PartialDivision'
        <3>1. SUFFICES ASSUME state' = "CALC" PROVE (quo * divisorAbs + rem = Seen /\ rem < divisorAbs)'
            BY DEF PartialDivision
        <3>2. cnt' = cnt + 1 /\ divisorAbs' = divisorAbs /\ dividendAbs' = dividendAbs
            BY <2>8, <2>9, <3>1 DEF Iterate, LastBit, operands
        <3> QED BY <2>4, <2>6, <2>8, <3>2 DEF Seen, turned
    <2>12. Divided'
        <3>1. SUFFICES ASSUME state' = "END"
                       PROVE  (quo * divisorAbs + rem = dividendAbs /\ rem < divisorAbs)'
            BY DEF Divided
        <3>2. cnt + 1 = DW /\ divisorAbs' = divisorAbs /\ dividendAbs' = dividendAbs
            BY <1>1, <3>1 DEF Iterate, LastBit, operands
        <3>3. turned = dividendAbs
            BY <1>1, <3>2, SeenEnds DEF turned
        <3> QED BY <2>4, <2>6, <2>8, <3>2, <3>3
    <2> QED BY <1>2, <2>10, <2>11, <2>12 DEF DividerInv
<1> QED BY <1>3, <1>4

\* The result that ready announces is the defined one, if the magnitudes were
\* chosen by the signedness of the operation itself.
LEMMA FinishKeeps ==
    ASSUME DividerInv, Finish
    PROVE  DividerInv'
<1>1. /\ Wrap \in Nat /\ Wrap >= 4
      /\ quo \in DivWord /\ rem \in DivWord /\ divd \in DivWord /\ divs \in DivWord
      /\ div_op \in SignedOps \cup UnsignedOps
    BY WrapIs DEF DividerInv, DividerTypeOK
<1>2. rem % Wrap = rem /\ Negate(quo) \in DivWord /\ Negate(rem) \in DivWord
    BY <1>1, NegateIs
<1>3. result' = IF div_op \in {"DIV", "DIVU"}
                THEN IF divs = 0 THEN Wrap - 1 ELSE Quotient
                ELSE IF divs = 0 THEN divd ELSE Remainder
    BY <1>1 DEF Finish
<1>4. result' \in DivWord
    BY <1>1, <1>2, <1>3 DEF Quotient, Remainder, DivWord
<1>5. DividerTypeOK' /\ (rem \in DivWord)'
    BY <1>1, <1>4 DEF DividerInv, DividerTypeOK, Finish, operands
<1>6. Loaded' /\ PartialDivision' /\ Divided'
    BY DEF DividerInv, Finish, Loaded, PartialDivision, Divided, operands, AbsWord, Negative, Negate
<1>7. CorrectAfterSameSign'
    <2>1. SUFFICES ASSUME before \in SignedOps <=> div_op \in SignedOps
                   PROVE  result' = Defined(div_op, divd, divs)
        BY DEF CorrectAfterSameSign, Correct, Finish, operands, Defined, AsSigned, Negative
    <2>2. CASE divs = 0
        <3>1. Defined(div_op, divd, divs) =
                  (IF div_op \in {"DIV", "DIVU"} THEN -1 ELSE ReadAs(div_op, divd)) % Wrap
            <4>1. ReadAs(div_op, divs) = 0
                BY <1>1, <2>2, AbsWordIs
            <4> QED BY <4>1 DEF Defined, ReadAs
        <3>2. (-1) % Wrap = Wrap - 1
            <4>1. (-1) * Wrap + (Wrap - 1) = -1 /\ Wrap - 1 \in 0 .. Wrap - 1 /\ Wrap \in Nat \ {0}
                BY <1>1
            <4>2. ((-1) * Wrap + (Wrap - 1)) % Wrap = Wrap - 1
                BY <4>1, QuotientUnique
            <4> QED BY <4>1, <4>2
        <3>3. ReadAs(div_op, divd) % Wrap = divd
            <4>1. ReadAs(div_op, divd) = divd \/ ReadAs(div_op, divd) = divd + (-1) * Wrap
                BY <1>1 DEF ReadAs, AsSigned, DivWord
            <4>2. (divd + (-1) * Wrap) % Wrap = divd % Wrap
                BY <1>1, SameResidue DEF DivWord
            <4>3. divd % Wrap = divd
                BY <1>1, NegateIs
            <4> QED BY <4>1, <4>2, <4>3
        <3> QED BY <1>3, <2>2, <3>1, <3>2, <3>3
    <2>3. CASE divs # 0
        <3>1. quo * AbsWord(div_op, divs) + rem = AbsWord(div_op, divd) /\ rem < AbsWord(div_op, divs)
            <4>1. AbsWord(div_op, divs) = divisorAbs /\ AbsWord(div_op, divd) = dividendAbs
                BY <2>1 DEF DividerInv, Loaded, AbsWord
            <4> QED BY <2>3, <4>1 DEF DividerInv, Divided, Finish
        <3>2. Defined(div_op, divd, divs) =
                  IF div_op \in {"DIV", "DIVU"}
                  THEN IF div_op = "DIV" /\ Negative(divd) # Negative(divs) THEN Negate(quo) ELSE quo
                  ELSE IF div_op = "REM" /\ Negative(divd) THEN Negate(rem) ELSE rem
            BY <1>1, <2>3, <3>1, DefinedIs
        <3>3. div_op = "DIV" => (quoNeg <=> Negative(divd) # Negative(divs))
            BY <2>1 DEF DividerInv, Loaded, SignedOps
        <3>4. div_op = "REM" => (remNeg <=> Negative(divd))
            BY <2>1 DEF DividerInv, Loaded, SignedOps
        <3> QED BY <1>2, <1>3, <2>3, <3>2, <3>3, <3>4 DEF Quotient, Remainder
    <2> QED BY <2>2, <2>3
<1> QED BY <1>5, <1>6, <1>7 DEF DividerInv

\* The divider keeps its types and its invariant.
THEOREM DividerInvariant == DividerSpec => []DividerInv
<1>1. DividerInv /\ [DividerNext]_dividerVars => DividerInv'
    <2> SUFFICES ASSUME DividerInv, [DividerNext]_dividerVars PROVE DividerInv'
        OBVIOUS
    <2>1. CASE \E o \in Ops, a, b \in DivWord : Start(o, a, b)
        BY <2>1, StartKeeps
    <2>2. CASE DividerIdle
        BY <2>2 DEF DividerIdle, DividerInv, DividerTypeOK, Loaded, PartialDivision, Divided, Seen,
                    CorrectAfterSameSign, operands, AbsWord, Negative, Negate
    <2>3. CASE DividerStep
        BY <2>3, IterateKeeps, FinishKeeps DEF DividerStep
    <2>4. CASE UNCHANGED dividerVars
        BY <2>4 DEF dividerVars, DividerInv, DividerTypeOK, Loaded, PartialDivision, Divided, Seen,
                    CorrectAfterSameSign, Correct, Defined, AsSigned, operands, AbsWord, Negative, Negate
    <2> QED BY <2>1, <2>2, <2>3, <2>4 DEF DividerNext
<1> QED BY <1>1, DividerInvInit, PTL DEF DividerSpec

\* At every width the loop is a long division (div.v:154-179).
THEOREM DividesBitByBit == DividerSpec => []PartialDivision
<1>1. DividerInv => PartialDivision
    BY DEF DividerInv
<1> QED BY <1>1, DividerInvariant, PTL

\* A result shown is right whenever the operation before had the same signedness
\* (div.v:128-144 chooses the magnitudes by that operation).
THEOREM DividerCorrect == DividerSpec => []CorrectAfterSameSign
<1>1. DividerInv => CorrectAfterSameSign
    BY DEF DividerInv
<1> QED BY <1>1, DividerInvariant, PTL

-----------------------------------------------------------------------------
(***************************************************************************)
(* The multiplier.  The proof follows the recoding of b: the value above   *)
(* bit k (High), the digit each partial product stands for (Digits), the   *)
(* sum so far in closed form (Booth), and that the adder tree computes it. *)
(***************************************************************************)
\* Powers of two up to the widest wire are positive.
LEMMA MultiplierPositive == \A n \in 0 .. 2 * W + 2 : 2^n \in Nat \ {0}
<1> DEFINE S == {n \in Nat : n <= 2 * W + 2 => 2^n \in Nat \ {0}}
<1>1. 0 \in S
    OBVIOUS
<1>2. ASSUME NEW n \in Nat, n \in S PROVE n + 1 \in S
    <2>1. SUFFICES ASSUME n + 1 <= 2 * W + 2 PROVE 2^(n + 1) \in Nat \ {0}
        OBVIOUS
    <2>2. 2^(n + 1) = 2 * 2^n /\ 2^n \in Nat \ {0}
        BY <1>2, <2>1, MultiplierAssumption, MultiplierPowers
    <2> QED BY <2>2
<1> HIDE DEF S
<1>3. \A n \in Nat : n \in S
    BY <1>1, <1>2, Induction
<1> QED BY <1>3, MultiplierAssumption DEF S

\* The powers at the widths of the wires.
LEMMA Widths ==
    /\ 2^(W - 1) \in Nat \ {0} /\ 2^W = 2 * 2^(W - 1)
    /\ 2^(W + 1) = 2 * 2^W /\ 2^(W + 3) = 8 * 2^W /\ 2^(W + 4) = 16 * 2^W
<1>1. W - 1 \in 0 .. 2 * W + 1 /\ W + 3 \in 0 .. 2 * W + 1
      /\ (W - 1) + 1 = W /\ (W + 1) + 1 = W + 2 /\ (W + 2) + 1 = W + 3 /\ (W + 3) + 1 = W + 4
    BY MultiplierAssumption
<1>2. W \in 0 .. 2 * W + 1 /\ W + 1 \in 0 .. 2 * W + 1 /\ W + 2 \in 0 .. 2 * W + 1
    BY <1>1, MultiplierAssumption
<1>3. 2^(W - 1) \in Nat \ {0}
    BY <1>1, MultiplierPositive
<1>4. 2^W = 2 * 2^(W - 1) /\ 2^(W + 1) = 2 * 2^W
    BY <1>1, <1>2, MultiplierPowers
<1>5. 2^(W + 2) = 2 * 2^(W + 1) /\ 2^(W + 3) = 2 * 2^(W + 2) /\ 2^(W + 4) = 2 * 2^(W + 3)
    BY <1>1, <1>2, MultiplierPowers
<1> QED BY <1>3, <1>4, <1>5

\* The product wire has two bits more than both halves.
LEMMA WideProduct == 2^(2 * W + 2) = (4 * 2^W) * 2^W
<1> DEFINE S == {n \in Nat : n <= W => 2^(W + n) = 2^n * 2^W}
<1>1. 0 \in S
    <2>1. W + 0 = W /\ 2^0 = 1 /\ 2^W \in Nat
        BY MultiplierAssumption, Widths
    <2> QED BY <2>1
<1>2. ASSUME NEW n \in Nat, n \in S PROVE n + 1 \in S
    <2>1. SUFFICES ASSUME n + 1 <= W PROVE 2^(W + (n + 1)) = 2^(n + 1) * 2^W
        OBVIOUS
    <2>2. n \in 0 .. 2 * W + 1 /\ W + n \in 0 .. 2 * W + 1 /\ W + (n + 1) = (W + n) + 1 /\ n <= W
        BY <2>1, MultiplierAssumption
    <2>3. 2^(n + 1) = 2 * 2^n /\ 2^(W + (n + 1)) = 2 * 2^(W + n)
        BY <2>2, MultiplierPowers
    <2>4. 2^(W + n) = 2^n * 2^W
        BY <1>2, <2>2
    <2>5. 2^n \in Nat /\ 2^W \in Nat
        BY <2>2, MultiplierPositive, MultiplierAssumption, Widths
    <2> QED BY <2>3, <2>4, <2>5
<1> HIDE DEF S
<1>3. W \in S
    BY <1>1, <1>2, Induction, MultiplierAssumption
<1>4. 2^(W + W) = 2^W * 2^W
    BY <1>3, MultiplierAssumption DEF S
<1>5. W + W \in 0 .. 2 * W + 1 /\ (W + W) + 1 = 2 * W + 1
      /\ 2 * W + 1 \in 0 .. 2 * W + 1 /\ (2 * W + 1) + 1 = 2 * W + 2
    BY MultiplierAssumption
<1>6. 2^(2 * W + 1) = 2 * 2^(W + W) /\ 2^(2 * W + 2) = 2 * 2^(2 * W + 1)
    BY <1>5, MultiplierPowers
<1>7. 2^W \in Nat
    BY Widths
<1> QED BY <1>4, <1>6, <1>7

-----------------------------------------------------------------------------
\* A value that fits a wire is what the wire holds.
LEMMA SignedFits ==
    ASSUME NEW n \in Nat, NEW h \in Nat \ {0}, 2^(n - 1) = h, 2^n = 2 * h,
           NEW x \in Int, -h <= x, x < h
    PROVE  Signed(x, n) = x
<1>1. CASE x >= 0
    <2>1. x % (2 * h) = x
        BY <1>1, SmallResidue
    <2> QED BY <1>1, <2>1 DEF Signed
<1>2. CASE x < 0
    <2>1. x + 2 * h \in 0 .. 2 * h - 1 /\ 2 * h \in Nat \ {0}
        BY <1>2
    <2>2. (-1) * (2 * h) + (x + 2 * h) = x
        OBVIOUS
    <2>3. ((-1) * (2 * h) + (x + 2 * h)) % (2 * h) = x + 2 * h
        BY <2>1, QuotientUnique
    <2> QED BY <1>2, <2>2, <2>3 DEF Signed
<1> QED BY <1>1, <1>2

\* A word read with its sign.
LEMMA SignedWord ==
    ASSUME NEW w \in Word
    PROVE  /\ Signed(w, W) = IF w >= 2^(W - 1) THEN w - 2^W ELSE w
           /\ Signed(w, W) \in Int
           /\ -(2^(W - 1)) <= Signed(w, W) /\ Signed(w, W) < 2^(W - 1)
<1>1. w \in 0 .. 2^W - 1 /\ 2^W \in Nat \ {0}
    BY Widths DEF Word
<1>2. w % 2^W = w
    BY <1>1, SmallResidue
<1>3. Signed(w, W) = IF w >= 2^(W - 1) THEN w - 2^W ELSE w
    BY <1>2 DEF Signed
<1> QED BY <1>1, <1>3, Widths

\* The operands as numbers, and b with its lowest bits gone.
Second  == IF func3 = "mulh" THEN Signed(rs2, W) ELSE rs2
High(k) == OperandB \div 2^k

\* The first operand lies between the negative and the positive power of W.
LEMMA FirstOperand ==
    ASSUME rs1 \in Word
    PROVE  OperandA \in Int /\ -(2^W) <= OperandA /\ OperandA <= 2^W
<1>1. Signed(rs1, W) \in Int /\ -(2^(W - 1)) <= Signed(rs1, W) /\ Signed(rs1, W) < 2^(W - 1)
    BY SignedWord
<1>2. rs1 \in 0 .. 2^W - 1
    BY DEF Word
<1> QED BY <1>1, <1>2, Widths DEF OperandA

\* The bits of b, one by one, and what is above each.
LEMMA Bits ==
    ASSUME rs2 \in Word
    PROVE  /\ OperandB \in 0 .. 2^(W + 1) - 1
           /\ \A k \in Int : BitOfB(k) \in 0 .. 1
           /\ \A k \in 0 .. W + 1 : High(k) \in Nat
           /\ \A k \in 0 .. W : High(k) = 2 * High(k + 1) + BitOfB(k)
           /\ High(0) = OperandB /\ High(W + 1) = 0
           /\ BitOfB(-1) = 0 /\ BitOfB(W + 1) = BitOfB(W)
<1>1. \A k \in 0 .. W + 1 : 2^k \in Nat \ {0}
    BY MultiplierPositive, MultiplierAssumption
<1>2. OperandB \in 0 .. 2^(W + 1) - 1 /\ OperandB \in Nat
    <2>1. Second \in Int
        BY SignedWord, Widths DEF Second, Word
    <2>2. OperandB = Second % 2^(W + 1) /\ 2^(W + 1) \in Nat \ {0}
        BY Widths DEF OperandB, Unsigned, Second
    <2>3. Second % 2^(W + 1) \in 0 .. 2^(W + 1) - 1
        BY <2>1, <2>2, QuotientAndRemainder
    <2> QED BY <2>2, <2>3
<1>3. ASSUME NEW k \in 0 .. W
      PROVE  High(k) = 2 * High(k + 1) + BitOfB(k) /\ High(k) % 2 \in 0 .. 1
    <2>1. k \in 0 .. 2 * W + 1 /\ k \in 0 .. W + 1 /\ ~(k < 0) /\ ~(k > W)
        BY MultiplierAssumption
    <2>2. 2^(k + 1) = 2 * 2^k /\ 2^k \in Nat \ {0}
        BY <1>1, <2>1, MultiplierPowers
    <2>3. BitOfB(k) = High(k) % 2
        BY <2>1 DEF BitOfB, High
    <2>4. OperandB \div 2^k \in Nat
          /\ OperandB \div 2^k = 2 * (OperandB \div (2 * 2^k)) + ((OperandB \div 2^k) % 2)
        BY <1>2, <2>2, HalfQuotient
    <2> QED BY <2>2, <2>3, <2>4 DEF High
<1>4. ASSUME NEW k \in Int PROVE BitOfB(k) \in 0 .. 1
    <2>1. CASE k < 0
        BY <2>1 DEF BitOfB
    <2>2. CASE ~(k < 0)
        <3> DEFINE n == IF k > W THEN W ELSE k
        <3>1. n \in 0 .. W /\ BitOfB(k) = High(n) % 2
            BY <2>2, MultiplierAssumption DEF BitOfB, High
        <3> HIDE DEF n
        <3> QED BY <1>3, <3>1
    <2> QED BY <2>1, <2>2
<1>5. \A k \in 0 .. W + 1 : High(k) \in Nat
    BY <1>1, <1>2, HalfQuotient DEF High
<1>6. High(0) = OperandB
    <2>1. 2^0 = 1 /\ OperandB \div 1 = OperandB
        BY <1>2
    <2> QED BY <2>1 DEF High
<1>7. High(W + 1) = 0
    <2>1. 2^(W + 1) \in Nat \ {0}
        BY Widths
    <2> QED BY <1>2, <2>1, SmallResidue DEF High
<1>8. BitOfB(-1) = 0 /\ BitOfB(W + 1) = BitOfB(W)
    BY MultiplierAssumption DEF BitOfB
<1> QED BY <1>2, <1>3, <1>4, <1>5, <1>6, <1>7, <1>8

\* The multiple that three bits choose is the Booth digit they stand for.
LEMMA Digits ==
    ASSUME rs2 \in Word, NEW i \in Nat
    PROVE  Multiple(Sel(i)) = BitOfB(2 * i - 1) + BitOfB(2 * i) - 2 * BitOfB(2 * i + 1)
<1> DEFINE h == BitOfB(2 * i + 1)
           m == BitOfB(2 * i)
           l == BitOfB(2 * i - 1)
<1>1. h \in 0 .. 1 /\ m \in 0 .. 1 /\ l \in 0 .. 1
    BY Bits
<1>2. Sel(i) = 4 * h + 2 * m + l
    BY DEF Sel
<1> HIDE DEF h, m, l
<1>3. Multiple(Sel(i)) = l + m - 2 * h
    <2>1. CASE h = 0 /\ m = 0
        BY <1>1, <1>2, <2>1 DEF Multiple
    <2>2. CASE h = 0 /\ m = 1
        BY <1>1, <1>2, <2>2 DEF Multiple
    <2>3. CASE h = 1 /\ m = 0
        BY <1>1, <1>2, <2>3 DEF Multiple
    <2>4. CASE h = 1 /\ m = 1
        BY <1>1, <1>2, <2>4 DEF Multiple
    <2> QED BY <1>1, <2>1, <2>2, <2>3, <2>4
<1> QED BY <1>3 DEF h, m, l

\* No partial product overflows its wire.
LEMMA PartialProductIs ==
    ASSUME rs1 \in Word, rs2 \in Word, NEW i \in 0 .. W \div 2
    PROVE  PartialProduct(i) =
               (BitOfB(2 * i - 1) + BitOfB(2 * i) - 2 * BitOfB(2 * i + 1)) * OperandA * 2^(2 * i)
<1> DEFINE d == BitOfB(2 * i - 1) + BitOfB(2 * i) - 2 * BitOfB(2 * i + 1)
<1>1. i \in Nat
    BY MultiplierAssumption
<1>2. d \in -2 .. 2 /\ Multiple(Sel(i)) = d
    BY <1>1, Bits, Digits
<1> HIDE DEF d
<1>3. /\ d * OperandA \in Int
      /\ -(8 * 2^W) <= d * OperandA /\ d * OperandA < 8 * 2^W
    <2>1. 2^W \in Nat \ {0} /\ OperandA \in Int /\ -(2^W) <= OperandA /\ OperandA <= 2^W
        BY Widths, FirstOperand
    <2>2. d \in {-2, -1, 0, 1, 2}
        BY <1>2
    <2> QED BY <2>1, <2>2
<1>4. Signed(d * OperandA, W + 4) = d * OperandA
    <2>1. W + 4 \in Nat /\ (W + 4) - 1 = W + 3 /\ 8 * 2^W \in Nat \ {0}
          /\ 2^(W + 3) = 8 * 2^W /\ 2^(W + 4) = 2 * (8 * 2^W)
        BY Widths, MultiplierAssumption
    <2> DEFINE z == d * OperandA
               h == 8 * 2^W
    <2>2. z \in Int /\ -h <= z /\ z < h /\ h \in Nat \ {0}
        BY <1>3, <2>1
    <2>3. 2^((W + 4) - 1) = h /\ 2^(W + 4) = 2 * h
        BY <2>1
    <2> HIDE DEF z, h
    <2>4. Signed(z, W + 4) = z
        BY <2>1, <2>2, <2>3, SignedFits
    <2> QED BY <2>4 DEF z
<1> QED BY <1>2, <1>4 DEF PartialProduct, d

\* The wire of b holds the second operand: its top bit is the sign.
LEMMA SecondOperand ==
    ASSUME rs2 \in Word
    PROVE  Second \in Int /\ OperandB - 2 * BitOfB(W) * 2^W = Second /\ High(W) = BitOfB(W)
<1>1. Second \in Int /\ -(2^(W - 1)) <= Second /\ Second < 2^W
    BY SignedWord, Widths DEF Second, Word
<1>2. OperandB = Second % (2 * 2^W) /\ 2^W \in Nat \ {0}
    BY Widths DEF OperandB, Unsigned, Second
<1>3. High(W) = BitOfB(W)
    <2>1. W \in 0 .. W /\ High(W) = 2 * High(W + 1) + BitOfB(W) /\ High(W + 1) = 0 /\ BitOfB(W) \in 0 .. 1
        BY Bits, MultiplierAssumption
    <2> QED BY <2>1
<1>4. High(W) = OperandB \div 2^W
    BY DEF High
<1>5. CASE Second >= 0
    <2>1. OperandB = Second
        <3> DEFINE N == 2 * 2^W
        <3>1. N \in Nat \ {0} /\ Second \in 0 .. N - 1 /\ OperandB = Second % N
            BY <1>1, <1>2, <1>5
        <3> HIDE DEF N
        <3> QED BY <3>1, SmallResidue
    <2>2. OperandB \div 2^W = 0
        BY <1>1, <1>2, <1>5, <2>1, SmallResidue
    <2> QED BY <1>1, <1>2, <1>3, <1>4, <2>1, <2>2
<1>6. CASE Second < 0
    <2>1. OperandB = Second + 2 * 2^W
        <3> DEFINE N == 2 * 2^W
                   r == Second + N
        <3>1. N \in Nat \ {0} /\ r \in 0 .. N - 1 /\ (-1) * N + r = Second /\ OperandB = Second % N
            BY <1>1, <1>2, <1>6, Widths
        <3>2. OperandB = ((-1) * N + r) % N
            BY <3>1
        <3> HIDE DEF N, r
        <3>3. ((-1) * N + r) % N = r
            BY <3>1, QuotientUnique
        <3> QED BY <3>2, <3>3 DEF N, r
    <2>2. OperandB \div 2^W = 1
        <3> DEFINE N == 2^W
                   r == Second + N
        <3>1. N \in Nat \ {0} /\ r \in 0 .. N - 1 /\ OperandB = 1 * N + r
            BY <1>1, <1>2, <1>6, <2>1, Widths
        <3> HIDE DEF N, r
        <3>2. (1 * N + r) \div N = 1
            BY <3>1, QuotientUnique
        <3> QED BY <3>1, <3>2 DEF N
    <2> QED BY <1>1, <1>2, <1>3, <1>4, <2>1, <2>2
<1> QED BY <1>1, <1>3, <1>5, <1>6

(***************************************************************************)
(* Booth's sum, part by part: what the first n + 1 partial products come   *)
(* to, and the whole product in the last.                                  *)
(***************************************************************************)
Booth(n) ==
    IF n = W \div 2 THEN OperandA * Second
    ELSE OperandA * (OperandB - (High(2 * n + 2) + BitOfB(2 * n + 1)) * 2^(2 * n + 2))

\* One more digit, as arithmetic: p is the weight of the digit l + m - 2h.
LEMMA BoothAlgebra ==
    ASSUME NEW a \in Int, NEW b \in Int, NEW above \in Int, NEW here \in Int, NEW p \in Int,
           NEW h \in Int, NEW m \in Int, NEW l \in Int, here = 4 * above + 2 * h + m
    PROVE  a * (b - (above + h) * (4 * p)) = a * (b - (here + l) * p) + (l + m - 2 * h) * a * p
<1>1. (b - (here + l) * p) + (l + m - 2 * h) * p = b - (above + h) * (4 * p)
    OBVIOUS
<1>2. (l + m - 2 * h) * a * p = a * ((l + m - 2 * h) * p)
    OBVIOUS
<1> DEFINE u == b - (here + l) * p
           v == (l + m - 2 * h) * p
<1>3. u \in Int /\ v \in Int
    OBVIOUS
<1> HIDE DEF u, v
<1>4. a * (u + v) = a * u + a * v
    BY <1>3
<1> QED BY <1>1, <1>2, <1>4 DEF u, v

\* Booth(n) is Booth(n - 1) and one partial product more.
LEMMA BoothStep ==
    ASSUME rs1 \in Word, rs2 \in Word
    PROVE  /\ Booth(0) = PartialProduct(0)
           /\ \A n \in 1 .. W \div 2 : Booth(n) = Booth(n - 1) + PartialProduct(n)
           /\ \A n \in 0 .. W \div 2 : Booth(n) \in Int
<1> DEFINE half == W \div 2
           Before(n) == OperandA * (OperandB - (High(2 * n) + BitOfB(2 * n - 1)) * 2^(2 * n))
<1>1. half \in Nat \ {0} /\ W = 2 * half
    BY MultiplierAssumption
<1>2. OperandA \in Int /\ OperandB \in Int
    BY FirstOperand, Bits, Widths
<1>3. ASSUME NEW n \in 0 .. half
      PROVE  /\ PartialProduct(n) = (BitOfB(2 * n - 1) + BitOfB(2 * n) - 2 * BitOfB(2 * n + 1))
                                         * OperandA * 2^(2 * n)
             /\ BitOfB(2 * n - 1) \in Int /\ BitOfB(2 * n) \in Int /\ BitOfB(2 * n + 1) \in Int
             /\ High(2 * n) \in Int /\ 2^(2 * n) \in Int /\ PartialProduct(n) \in Int
    <2>1. 2 * n \in 0 .. W + 1 /\ 2 * n - 1 \in Int /\ 2 * n + 1 \in Int /\ 2 * n \in 0 .. 2 * W + 2
        BY <1>1
    <2>2. BitOfB(2 * n - 1) \in Int /\ BitOfB(2 * n) \in Int /\ BitOfB(2 * n + 1) \in Int
        BY <2>1, Bits
    <2>3. High(2 * n) \in Int /\ 2^(2 * n) \in Int
        BY <2>1, Bits, MultiplierPositive
    <2>4. PartialProduct(n) = (BitOfB(2 * n - 1) + BitOfB(2 * n) - 2 * BitOfB(2 * n + 1))
                                  * OperandA * 2^(2 * n)
        BY PartialProductIs
    <2> QED BY <1>2, <2>2, <2>3, <2>4
<1>4. ASSUME NEW n \in 0 .. half - 1
      PROVE  Booth(n) = Before(n) + PartialProduct(n)
    <2>1. /\ 2 * n \in 0 .. W /\ 2 * n + 1 \in 0 .. W /\ (2 * n + 1) + 1 = 2 * n + 2
          /\ 2 * n + 2 \in 0 .. W + 1 /\ n \in 0 .. half /\ n # half
          /\ 2 * n \in 0 .. 2 * W + 1 /\ 2 * n + 1 \in 0 .. 2 * W + 1
        BY <1>1
    <2>2. High(2 * n) = 2 * High(2 * n + 1) + BitOfB(2 * n)
        BY <2>1, Bits
    <2>3. High(2 * n + 1) = 2 * High(2 * n + 2) + BitOfB(2 * n + 1) /\ High(2 * n + 2) \in Int
        BY <2>1, Bits
    <2>4. 2^(2 * n + 1) = 2 * 2^(2 * n) /\ 2^(2 * n + 2) = 2 * 2^(2 * n + 1)
        BY <2>1, MultiplierPowers
    <2>5. High(2 * n) = 4 * High(2 * n + 2) + 2 * BitOfB(2 * n + 1) + BitOfB(2 * n)
          /\ 2^(2 * n + 2) = 4 * 2^(2 * n)
        BY <1>3, <2>1, <2>2, <2>3, <2>4
    <2>6. Booth(n) = OperandA * (OperandB - (High(2 * n + 2) + BitOfB(2 * n + 1)) * (4 * 2^(2 * n)))
        BY <2>1, <2>5 DEF Booth
    <2> QED BY <1>2, <1>3, <2>1, <2>3, <2>5, <2>6, BoothAlgebra
<1>5. Booth(0) = PartialProduct(0)
    <2>1. 0 \in 0 .. half - 1 /\ 2 * 0 = 0 /\ 0 - 1 = -1 /\ 2^0 = 1
        BY <1>1
    <2>2. High(0) = OperandB /\ BitOfB(-1) = 0
        BY Bits
    <2>3. Before(0) = 0
        BY <1>2, <2>1, <2>2
    <2>4. PartialProduct(0) \in Int
        BY <1>1, <1>3, <2>1
    <2> HIDE DEF Before
    <2> QED BY <1>4, <2>1, <2>3, <2>4
<1>6. ASSUME NEW n \in 1 .. half PROVE Before(n) = Booth(n - 1)
    <2>1. n - 1 # half /\ 2 * (n - 1) + 2 = 2 * n /\ 2 * (n - 1) + 1 = 2 * n - 1
        BY <1>1
    <2> QED BY <2>1 DEF Booth
<1>7. Booth(half) = Before(half) + PartialProduct(half)
    <2>1. half \in 0 .. half /\ half \in Nat
        BY <1>1
    <2>2. OperandB - 2 * BitOfB(W) * 2^W = Second /\ High(W) = BitOfB(W) /\ Second \in Int
        BY SecondOperand
    <2>3. BitOfB(W + 1) = BitOfB(W)
        BY Bits
    <2> DEFINE l == BitOfB(W - 1)
               m == BitOfB(W)
               p == 2^W
    <2>4. PartialProduct(half) = (l + m - 2 * m) * OperandA * p
          /\ l \in Int /\ m \in Int /\ p \in Int
        BY <1>1, <1>3, <2>1, <2>3
    <2>5. Before(half) = OperandA * (OperandB - (m + l) * p)
        BY <1>1, <2>2
    <2>6. Booth(half) = OperandA * (OperandB - 2 * m * p)
        BY <2>2 DEF Booth
    <2> HIDE DEF l, m, p, Before
    <2>7. OperandA * (OperandB - 2 * m * p) = OperandA * (OperandB - (m + l) * p) + (l + m - 2 * m) * OperandA * p
        <3> DEFINE u == OperandB - (m + l) * p
                   v == (l + m - 2 * m) * p
        <3>1. u + v = OperandB - 2 * m * p /\ u \in Int /\ v \in Int
            BY <1>2, <2>4
        <3>2. (l + m - 2 * m) * OperandA * p = OperandA * v
            BY <1>2, <2>4
        <3> HIDE DEF u, v
        <3>3. OperandA * (u + v) = OperandA * u + OperandA * v
            BY <1>2, <3>1
        <3> QED BY <3>1, <3>2, <3>3 DEF u
    <2> QED BY <2>4, <2>5, <2>6, <2>7
<1>8. ASSUME NEW n \in 0 .. half PROVE Booth(n) \in Int
    <2>1. Second \in Int
        BY SecondOperand
    <2>2. CASE n = half
        BY <1>2, <2>1, <2>2 DEF Booth
    <2>3. CASE n # half
        <3>1. n \in 0 .. half - 1 /\ Before(n) \in Int /\ PartialProduct(n) \in Int
            BY <1>1, <1>2, <1>3, <2>3
        <3> HIDE DEF Before
        <3> QED BY <1>4, <3>1
    <2> QED BY <2>2, <2>3
<1> HIDE DEF Before
<1>9. ASSUME NEW n \in 1 .. half PROVE Booth(n) = Booth(n - 1) + PartialProduct(n)
    <2>1. CASE n = half
        BY <1>6, <1>7, <2>1
    <2>2. CASE n # half
        <3>1. n \in 0 .. half - 1
            BY <1>1, <2>2
        <3> QED BY <1>4, <1>6, <3>1
    <2> QED BY <2>1, <2>2
<1> QED BY <1>5, <1>8, <1>9

\* The adder tree adds them up.
LEMMA SumsAreBooth ==
    ASSUME rs1 \in Word, rs2 \in Word
    PROVE  Sums[W \div 2] = OperandA * Second
<1> DEFINE half == W \div 2
           Tree(g) == [n \in 0 .. half |->
                          IF n = 0 THEN PartialProduct(0) ELSE g[n - 1] + PartialProduct(n)]
           witness == [n \in 0 .. half |-> Booth(n)]
<1>1. half \in Nat \ {0}
    BY MultiplierAssumption
<1>2. /\ Booth(0) = PartialProduct(0)
      /\ \A n \in 1 .. half : Booth(n) = Booth(n - 1) + PartialProduct(n)
    BY BoothStep
<1>3. Sums = CHOOSE g : g = Tree(g)
    BY DEF Sums
<1> HIDE DEF half
<1>4. witness = Tree(witness)
    <2>1. ASSUME NEW n \in 0 .. half PROVE witness[n] = Tree(witness)[n]
        <3>1. CASE n = 0
            BY <1>2, <3>1
        <3>2. CASE n # 0
            <4>1. n \in 1 .. half /\ n - 1 \in 0 .. half
                BY <1>1, <3>2
            <4> QED BY <1>2, <3>2, <4>1
        <3> QED BY <3>1, <3>2
    <2> QED BY <2>1
<1>5. Sums = Tree(Sums)
    <2> HIDE DEF Tree, witness
    <2> QED BY <1>3, <1>4
<1> DEFINE S == {n \in Nat : n <= half => Sums[n] = Booth(n)}
<1>6. 0 \in S
    <2>1. 0 \in 0 .. half
        BY <1>1
    <2>2. Tree(Sums)[0] = PartialProduct(0)
        BY <2>1
    <2> HIDE DEF Tree
    <2> QED BY <1>2, <1>5, <2>2
<1>7. ASSUME NEW n \in Nat, n \in S PROVE n + 1 \in S
    <2>1. SUFFICES ASSUME n + 1 <= half PROVE Sums[n + 1] = Booth(n + 1)
        OBVIOUS
    <2>2. n + 1 \in 1 .. half /\ n + 1 \in 0 .. half /\ (n + 1) - 1 = n /\ n <= half /\ n + 1 # 0
        BY <1>1, <2>1
    <2>3. Tree(Sums)[n + 1] = Sums[n] + PartialProduct(n + 1)
        BY <2>2
    <2>4. Sums[n + 1] = Sums[n] + PartialProduct(n + 1)
        <3> HIDE DEF Tree
        <3> QED BY <1>5, <2>3
    <2> QED BY <1>2, <1>7, <2>2, <2>4
<1> HIDE DEF S, Tree
<1>8. half \in S
    BY <1>1, <1>6, <1>7, Induction
<1>9. Sums[half] = Booth(half)
    BY <1>1, <1>8 DEF S
<1> QED BY <1>9 DEF Booth, half

\* The low and the high half survive the carries dropped above them.
LEMMA ResultHalves ==
    ASSUME NEW M \in Nat \ {0}, NEW z \in Int
    PROVE  /\ (z % ((4 * M) * M)) % M = z % M
           /\ ((z % ((4 * M) * M)) \div M) % M = (z \div M) % M
<1> DEFINE N == (4 * M) * M
           q == z \div N
           r == z % N
           k == (-q) * (4 * M)
<1>1. N \in Nat \ {0}
    OBVIOUS
<1>2. q \in Int /\ r \in Int /\ z = q * N + r
    <2> HIDE DEF N
    <2> QED BY <1>1, QuotientAndRemainder
<1> HIDE DEF q, r
<1>3. k \in Int /\ r = z + k * M
    BY <1>2
<1> HIDE DEF k
<1>4. r % M = z % M /\ r \div M = (z \div M) + k
    BY <1>3, SameResidue
<1>5. k = (-4 * q) * M /\ -4 * q \in Int /\ z \div M \in Int
    BY <1>2, QuotientAndRemainder DEF k
<1> DEFINE j == -4 * q
           y == z \div M
<1>6. j \in Int /\ y \in Int /\ k = j * M
    BY <1>5
<1> HIDE DEF j, y
<1>7. (y + j * M) % M = y % M
    BY <1>6, SameResidue
<1> QED BY <1>4, <1>6, <1>7 DEF r, y

\* The selected half, for each of the four instructions.
LEMMA SettledExact ==
    ASSUME func3 \in Func3, rs1 \in Word, rs2 \in Word
    PROVE  LET a == IF func3 = "mulhu" THEN rs1 ELSE Signed(rs1, W)
               b == IF func3 \in {"mulhu", "mulhsu"} THEN rs2 ELSE Signed(rs2, W)
           IN  Selected = Unsigned(IF func3 = "mul" THEN a * b ELSE (a * b) \div 2^W, W)
<1> DEFINE M == 2^W
           a == IF func3 = "mulhu" THEN rs1 ELSE Signed(rs1, W)
           b == IF func3 \in {"mulhu", "mulhsu"} THEN rs2 ELSE Signed(rs2, W)
           z == OperandA * Second
<1>1. M \in Nat \ {0} /\ OperandA \in Int /\ Second \in Int /\ z \in Int
    BY Widths, FirstOperand, SecondOperand
<1>2. Product = z % ((4 * M) * M)
    BY SumsAreBooth, WideProduct DEF Product, Unsigned
<1>3. Product % M = z % M /\ (Product \div M) % M = (z \div M) % M
    <2> HIDE DEF M, z
    <2> QED BY <1>1, <1>2, ResultHalves
<1>4. a = OperandA
    BY DEF OperandA
<1>5. CASE func3 = "mul"
    <2>1. Selected = z % M
        BY <1>3, <1>5 DEF Selected
    <2>2. b = Signed(rs2, W) /\ Second = rs2
        BY <1>5 DEF Second
    <2>3. \E k \in Int : a * b = z + k * M
        <3>1. CASE rs2 >= 2^(W - 1)
            <4>1. b = Second + (-1) * M
                BY <1>1, <2>2, <3>1, SignedWord
            <4>2. a * b = z + (-a) * M /\ -a \in Int
                BY <1>1, <1>4, <4>1
            <4> QED BY <4>2
        <3>2. CASE ~(rs2 >= 2^(W - 1))
            <4>1. b = Second
                BY <2>2, <3>2, SignedWord
            <4>2. a * b = z + 0 * M
                BY <1>1, <1>4, <4>1
            <4> QED BY <4>2
        <3> QED BY <3>1, <3>2
    <2>4. (a * b) % M = z % M
        <3> HIDE DEF M, z, a, b
        <3> QED BY <1>1, <2>3, SameResidue
    <2>5. Selected = Unsigned(a * b, W)
        <3> HIDE DEF z, a, b
        <3> QED BY <2>1, <2>4 DEF Unsigned
    <2> HIDE DEF z, M
    <2> QED BY <1>5, <2>5
<1>6. CASE func3 # "mul"
    <2>1. Selected = (z \div M) % M
        BY <1>3, <1>6 DEF Selected
    <2>2. b = Second
        BY <1>6 DEF Second, Func3
    <2> QED BY <1>4, <1>6, <2>1, <2>2 DEF Unsigned
<1> QED BY <1>5, <1>6

\* Nothing but the instruction and its result.
MultiplierInv == func3 \in Func3 /\ rs1 \in Word /\ rs2 \in Word /\ Exact

(***************************************************************************)
(* The multiplier, at every even width: the four instructions return the   *)
(* half of the product they should (mul.v:28-90).                          *)
(***************************************************************************)
THEOREM MultiplierExact == MultiplierSpec => []Exact
<1>1. MultiplierInit => MultiplierInv
    BY DEF MultiplierInit, MultiplierInv, Exact
<1>2. MultiplierInv /\ [Settle]_multiplierVars => MultiplierInv'
    <2> SUFFICES ASSUME MultiplierInv, [Settle]_multiplierVars PROVE MultiplierInv'
        OBVIOUS
    <2>1. CASE Settle
        <3>1. rd' = Selected /\ func3' = func3 /\ rs1' = rs1 /\ rs2' = rs2
            BY <2>1 DEF Settle
        <3> QED BY <3>1, SettledExact DEF MultiplierInv, Exact, Signed, Unsigned
    <2>2. CASE UNCHANGED multiplierVars
        BY <2>2 DEF multiplierVars, MultiplierInv, Exact, Signed, Unsigned
    <2> QED BY <2>1, <2>2
<1>3. MultiplierInv => Exact
    BY DEF MultiplierInv
<1> QED BY <1>1, <1>2, <1>3, PTL DEF MultiplierSpec

-----------------------------------------------------------------------------
(* The stack of return addresses, of any depth: until a call finds it full, or
   a call or a return acts twice or on a wrong path, it holds the open calls. *)

\* A return is fetched only while a call is open.
Nested == op \in {"ret", "both"} => open # <<>>

IInv == TypeOK /\ Nested /\ HoldsOpenCalls

\* The open calls after what is fetched, as a sequence.
LEMMA AfterType ==
    ASSUME TypeOK, Nested
    PROVE  /\ After(open) \in Seq(Addr)
           /\ op = "other" => After(open) = open
           /\ op = "call" => /\ Len(After(open)) = Len(open) + 1
                             /\ After(open)[Len(open) + 1] = addr
                             /\ \A i \in 1 .. Len(open) : After(open)[i] = open[i]
           /\ op = "ret" => /\ Len(After(open)) = Len(open) - 1
                            /\ \A i \in 1 .. Len(open) - 1 : After(open)[i] = open[i]
           /\ op = "both" => /\ Len(After(open)) = Len(open)
                             /\ After(open)[Len(open)] = addr
                             /\ \A i \in 1 .. Len(open) - 1 : After(open)[i] = open[i]
<1>1. CASE op = "other"
  BY <1>1 DEF TypeOK, After
<1>2. CASE op = "call"
  BY <1>2 DEF TypeOK, After
<1>3. CASE op \in {"ret", "both"}
  <2> DEFINE rest == Closed(open)
  <2>1. Len(open) \in Nat \ {0}
    BY <1>3 DEF TypeOK, Nested
  <2>2. /\ rest \in Seq(Addr)
        /\ Len(rest) = Len(open) - 1
        /\ \A i \in 1 .. Len(open) - 1 : rest[i] = open[i]
    BY <2>1 DEF TypeOK, Closed
  <2>3. CASE op = "ret"
    BY <2>2, <2>3 DEF After
  <2>4. CASE op = "both"
    <3>1. After(open) = Append(rest, addr)
      BY <2>4 DEF After
    <3> HIDE DEF rest
    <3> QED
      BY <2>1, <2>2, <2>4, <3>1 DEF TypeOK
  <2> QED
    BY <1>3, <2>3, <2>4
<1> QED
  BY <1>1, <1>2, <1>3 DEF TypeOK

\* The stack's own edge keeps its pointer and its entries in range.
LEMMA EdgeType ==
    ASSUME TypeOK, StackEdge
    PROVE  /\ ras_mem' \in [0 .. DEPTH - 1 -> Addr \cup {0}]
           /\ sp_index' \in 0 .. DEPTH
BY StackAssumption DEF TypeOK, StackEdge, Slot, push, pop, empty, full

\* A step that fetches next leaves the new fetch properly nested.
LEMMA FetchNested ==
    ASSUME NEW calls \in Seq(Addr), Fetch(calls), open' = calls
    PROVE  Nested' /\ op' \in {"call", "ret", "both", "other"} /\ addr' \in Addr
BY DEF Fetch, Nested

\* Moving on keeps stack and open calls in step.
LEMMA MoveHolds ==
    ASSUME IInv, Move
    PROVE  HoldsOpenCalls'
<1> SUFFICES ASSUME ~ lost', ~ skewed'
             PROVE  /\ sp_index' = Len(open')
                    /\ \A i \in 1 .. Len(open') : ras_mem'[i - 1] = open'[i]
  BY DEF HoldsOpenCalls
<1>0. open' = After(open) /\ open' \in Seq(Addr)
  BY AfterType DEF IInv, Move
<1>1. CASE Settled(open')
  BY <1>1, <1>0 DEF Settled
<1>2. CASE ~ Settled(open')
  <2>1. ~ lost /\ ~ skewed /\ ~ (op = "call" /\ full)
    BY <1>2 DEF Move
  <2>2. sp_index = Len(open) /\ \A i \in 1 .. Len(open) : ras_mem[i - 1] = open[i]
    BY <2>1 DEF IInv, HoldsOpenCalls
  <2>3. CASE op = "other"
    BY <1>0, <2>2, <2>3, AfterType DEF IInv, TypeOK, Move, StackEdge, push, pop
  <2>4. CASE op = "call"
    <3>1. sp_index' = sp_index + 1 /\ ras_mem' = [ras_mem EXCEPT ![sp_index] = addr]
      BY <2>1, <2>4 DEF Move, StackEdge, push, pop, Slot
    <3>2. sp_index \in 0 .. DEPTH - 1
      BY <2>1, <2>4, StackAssumption DEF IInv, TypeOK, full
    <3> QED
      BY <1>0, <2>2, <2>4, <3>1, <3>2, AfterType DEF IInv, TypeOK
  <2>5. CASE op = "ret"
    <3>1. Len(open) \in Nat \ {0}
      BY <2>5 DEF IInv, TypeOK, Nested
    <3>2. sp_index' = sp_index - 1 /\ ras_mem' = ras_mem
      BY <2>2, <2>5, <3>1 DEF Move, StackEdge, push, pop, empty
    <3> QED
      BY <1>0, <2>2, <2>5, <3>1, <3>2, AfterType DEF IInv, TypeOK
  <2>6. CASE op = "both"
    <3>1. Len(open) \in Nat \ {0}
      BY <2>6 DEF IInv, TypeOK, Nested
    <3>2. sp_index' = sp_index /\ ras_mem' = [ras_mem EXCEPT ![sp_index - 1] = addr]
      BY <2>2, <2>6, <3>1 DEF Move, StackEdge, push, pop, empty, Slot
    <3>3. sp_index - 1 \in 0 .. DEPTH - 1
      BY <2>2, <3>1, StackAssumption DEF IInv, TypeOK
    <3> QED
      BY <1>0, <2>2, <2>6, <3>1, <3>2, <3>3, AfterType DEF IInv, TypeOK
  <2> QED
    BY <2>3, <2>4, <2>5, <2>6 DEF IInv, TypeOK
<1> QED
  BY <1>1, <1>2

\* Acting where it should not, the stack either says so or is empty again.
LEMMA SkewHolds ==
    ASSUME IInv, Skew
    PROVE  HoldsOpenCalls'
<1> SUFFICES ASSUME ~ skewed' PROVE sp_index' = Len(open') /\ open' = <<>>
  BY DEF HoldsOpenCalls
<1>1. Settled(open)
  BY DEF Skew
<1> QED
  BY <1>1 DEF Skew, Settled

LEMMA Inductive == Spec => []IInv
<1>1. Init => IInv
  BY StackAssumption DEF Init, IInv, TypeOK, Nested, HoldsOpenCalls
<1>2. IInv /\ [Next]_vars => IInv'
  <2> SUFFICES ASSUME IInv, [Next]_vars PROVE IInv'
    OBVIOUS
  <2>1. CASE Move
    <3>1. After(open) \in Seq(Addr)
      BY AfterType DEF IInv
    <3>2. open' = After(open) /\ Fetch(After(open)) /\ StackEdge
      BY <2>1 DEF Move
    <3>3. lost' \in BOOLEAN /\ skewed' \in BOOLEAN
      BY <2>1 DEF Move
    <3> QED
      BY <2>1, <3>1, <3>2, <3>3, MoveHolds, EdgeType, FetchNested DEF IInv, TypeOK
  <2>2. CASE Hold
    BY <2>2, SkewHolds, EdgeType DEF IInv, TypeOK, Nested, Hold, Skew
  <2>3. CASE Squash
    <3>1. Skew /\ Fetch(open)
      BY <2>3 DEF Squash
    <3>2. open \in Seq(Addr) /\ open' = open /\ StackEdge /\ lost' = lost
          /\ skewed' \in BOOLEAN
      BY <3>1 DEF IInv, TypeOK, Skew
    <3> QED
      BY <3>1, <3>2, SkewHolds, EdgeType, FetchNested DEF IInv, TypeOK
  <2>4. CASE UNCHANGED vars
    BY <2>4 DEF vars, IInv, TypeOK, Nested, HoldsOpenCalls
  <2> QED
    BY <2>1, <2>2, <2>3, <2>4 DEF Next
<1> QED
  BY <1>1, <1>2, PTL DEF Spec

(***************************************************************************)
(* The stack pointer of ras_stack.v stays within its DEPTH + 1 values.     *)
(***************************************************************************)
THEOREM StackTyped == Spec => []TypeOK
BY Inductive, PTL DEF IInv

(***************************************************************************)
(* ras_stack.v is a stack of the program's open calls, whatever its depth, *)
(* until one finds it full or one acts twice.                              *)
(***************************************************************************)
THEOREM StackCorrect == Spec => []HoldsOpenCalls
BY Inductive, PTL DEF IInv

-----------------------------------------------------------------------------
(* The local memories implement an array of bytes, for every depth, every width
   of the address and every program whose accesses are aligned and inside the
   memory, and by words in instruction memory. *)

\* Sizes as the wires allow, and a program that makes only such accesses.
Handled ==
    /\ Depth \in Nat \ {0} /\ Words \in Nat /\ Depth <= Words
    /\ Image \subseteq Bytes!Word
    /\ Parameters
    /\ \A a \in Accesses : Handles(a)

Contents == [r \in {"ilm", "dlm"} |-> [n \in 0 .. 4 * Depth - 1 |->
               IF r = "ilm" THEN ilm[n \div 4][n % 4] ELSE dlm[n \div 4][n % 4]]]

\* No access is out of range, so none is cut off.
MemoryInv == LoadStoreTypeOK /\ data_err = FALSE

-----------------------------------------------------------------------------
LEMMA Sizes ==
    ASSUME NEW kind \in Bytes!Loads \cup Bytes!Stores
    PROVE  Bytes!Size(kind) \in {1, 2, 4}
  BY DEF Bytes!Loads, Bytes!Stores, Bytes!Size

\* A handled access touches lanes of one word.
LEMMA OneWord ==
    ASSUME Handled, NEW a \in Accesses
    PROVE  /\ Index(a.addr) \in 0 .. Depth - 1
           /\ Offset(a.addr) \in 0 .. 3
           /\ a.addr = 4 * Index(a.addr) + Offset(a.addr)
           /\ Offset(a.addr) + Bytes!Size(a.op) <= 4
           /\ Bytes!Size(a.op) \in {1, 2, 4}
           /\ a.addr + Bytes!Size(a.op) <= 4 * Depth
           /\ a.addr \in Nat
<1>1. /\ a.addr \in Nat /\ Bytes!Size(a.op) \in {1, 2, 4}
      /\ a.addr % Bytes!Size(a.op) = 0 /\ a.addr + Bytes!Size(a.op) <= 4 * Depth
      /\ Depth \in Nat /\ Words \in Nat /\ Depth <= Words
  BY Sizes DEF Handled, Handles, Bytes!Legal
<1>2. /\ a.addr \div 4 \in 0 .. Depth - 1 /\ a.addr % 4 \in 0 .. 3
      /\ a.addr = 4 * (a.addr \div 4) + (a.addr % 4)
  BY <1>1, SMT
<1>3. (a.addr \div 4) % Words = a.addr \div 4
  <2>1. Depth \in Nat /\ Words \in Nat /\ Depth <= Words
    BY <1>1
  <2>2. \A i \in 0 .. Depth - 1 : i % Words = i
    BY <2>1, SMT
  <2> QED
    BY <1>2, <2>2
<1>4. (a.addr % 4) + Bytes!Size(a.op) <= 4
  BY <1>1, SMT
<1> QED
  BY <1>1, <1>2, <1>3, <1>4 DEF Index, Offset

\* Byte n of a memory is lane n % 4 of word n \div 4.
LEMMA ByteOfWord ==
    ASSUME NEW w \in Nat, NEW l \in 0 .. 3
    PROVE  (4 * w + l) \div 4 = w /\ (4 * w + l) % 4 = l
  BY SMT

LEMMA LaneOfByte ==
    ASSUME NEW n \in 0 .. 4 * Depth - 1, Depth \in Nat
    PROVE  n \div 4 \in 0 .. Depth - 1 /\ n % 4 \in 0 .. 3 /\ n = 4 * (n \div 4) + (n % 4)
  BY SMT

\* Extension keeps bytes bytes.
LEMMA ExtendedTyped ==
    ASSUME Handled, NEW kind \in Bytes!Loads, NEW word \in Bytes!Word
    PROVE  Bytes!Extended(kind, word) \in Bytes!Word
<1>1. Bytes!Size(kind) \in {1, 2, 4} /\ (kind \in {"lb", "lh"} => Bytes!Size(kind) \in {1, 2})
  BY DEF Bytes!Loads, Bytes!Size
<1>2. 0 \in Byte /\ 255 \in Byte
  BY DEF Handled, Handles, Parameters
<1> QED
  BY <1>1, <1>2 DEF Bytes!Extended, Bytes!SignByte, Bytes!Word, Bytes!Lanes

\* Only the lanes that are read matter.
LEMMA ExtendedSame ==
    ASSUME NEW kind \in Bytes!Loads, NEW v, NEW w, \A i \in 0 .. 3 : i < Bytes!Size(kind) => v[i] = w[i]
    PROVE  Bytes!Extended(kind, v) = Bytes!Extended(kind, w)
<1>1. Bytes!Size(kind) \in {1, 2, 4} /\ (kind \in {"lb", "lh"} => Bytes!Size(kind) \in {1, 2})
  BY DEF Bytes!Loads, Bytes!Size
<1>2. kind \in {"lb", "lh"} => v[Bytes!Size(kind) - 1] = w[Bytes!Size(kind) - 1]
  BY <1>1
<1> QED
  BY <1>1, <1>2 DEF Bytes!Extended, Bytes!Lanes

-----------------------------------------------------------------------------
(* One access. *)

LEMMA DlmTyped ==
    ASSUME Handled, MemoryInv, NEW a \in Accesses
    PROVE  DlmRead(a) \in Bytes!Word /\ DlmStored(a) \in Bytes!Word
<1>a. Index(a.addr) \in 0 .. Depth - 1 /\ Offset(a.addr) \in 0 .. 3
  BY OneWord
<1>b. dlm[Index(a.addr)] \in Bytes!Word /\ mem_rd_data \in Bytes!Word
  BY <1>a DEF MemoryInv, LoadStoreTypeOK
<1>c. a.data \in Bytes!Word /\ 0 \in Byte
  BY DEF Handled, Handles, Parameters
<1>1. /\ Index(a.addr) \in 0 .. Depth - 1 /\ Offset(a.addr) \in 0 .. 3
      /\ dlm[Index(a.addr)] \in Bytes!Word /\ mem_rd_data \in Bytes!Word /\ a.data \in Bytes!Word
      /\ 0 \in Byte
  BY <1>a, <1>b, <1>c
<1>2. DlmRead(a) \in Bytes!Word
  BY <1>1 DEF DlmRead, Bytes!Word, Bytes!Lanes
<1>3. DlmStored(a) \in Bytes!Word
  BY <1>1 DEF DlmStored, Bytes!Word, Bytes!Lanes
<1> QED
  BY <1>2, <1>3

LEMMA AtRestTyped ==
    ASSUME Handled, MemoryInv
    PROVE  DlmAtRest \in Bytes!Word
<1>1. 0 \in 0 .. Depth - 1
  BY DEF Handled
<1> QED
  BY <1>1 DEF DlmAtRest, MemoryInv, LoadStoreTypeOK

LEMMA MemoryStep ==
    ASSUME Handled, MemoryInv, [LoadStoreNext]_memoryVars
    PROVE  MemoryInv'
<1>1. ASSUME NEW a \in Accesses, Dlm(a) PROVE MemoryInv'
  <2>1. ~(Index(a.addr) > Depth - 1)
    BY OneWord DEF Handled, Handles
  <2>a. data_err' = FALSE /\ access' \in Accesses /\ ilm' = ilm
    <3>1. data_err' = (Index(a.addr) > Depth - 1)
      BY <1>1 DEF Dlm
    <3>2. (Index(a.addr) > Depth - 1) = FALSE
      BY <2>1
    <3>3. data_err' = FALSE
      BY <3>1, <3>2, Zenon
    <3> QED
      BY <1>1, <3>3 DEF Dlm
  <2>2. mem_rd_data' = DlmRead(a) /\ mem_rd_data' \in Bytes!Word
    BY <1>1, <2>1, DlmTyped DEF Dlm
  <2>3. rd_data' \in Bytes!Word
    <3>1. rd_data' = IF a.op \in Bytes!Loads THEN Bytes!Extended(a.op, DlmRead(a)) ELSE rd_data
      BY <1>1, <2>1 DEF Dlm
    <3> QED
      BY <3>1, DlmTyped, ExtendedTyped DEF MemoryInv, LoadStoreTypeOK
  <2>4. dlm' \in [0 .. Depth - 1 -> Bytes!Word]
    <3>1. dlm' = dlm \/ dlm' = [dlm EXCEPT ![Index(a.addr)] = DlmStored(a)]
      BY <1>1 DEF Dlm
    <3> QED
      BY <3>1, DlmTyped DEF MemoryInv, LoadStoreTypeOK
  <2> QED
    BY <2>a, <2>2, <2>3, <2>4 DEF MemoryInv, LoadStoreTypeOK
<1>2. ASSUME NEW a \in Accesses, Ilm(a) PROVE MemoryInv'
  <2>1. /\ a.data \in Bytes!Word /\ ilm[Index(a.addr)] \in Bytes!Word
        /\ DlmAtRest \in Bytes!Word
    BY OneWord, AtRestTyped DEF Handled, Handles, MemoryInv, LoadStoreTypeOK
  <2>2. CASE a.op \in Bytes!Stores
    BY <1>2, <2>1, <2>2, OneWord DEF Ilm, MemoryInv, LoadStoreTypeOK
  <2>3. CASE a.op \notin Bytes!Stores
    <3>1. a.op \in Bytes!Loads
      BY <2>3 DEF Handled, Handles
    <3> QED
      BY <1>2, <2>1, <2>3, <3>1, ExtendedTyped DEF Ilm, MemoryInv, LoadStoreTypeOK
  <2> QED
    BY <2>2, <2>3
<1>3. CASE Idle
  BY <1>3, AtRestTyped DEF Idle, MemoryInv, LoadStoreTypeOK
<1>4. CASE UNCHANGED memoryVars
  BY <1>4 DEF memoryVars, MemoryInv, LoadStoreTypeOK
<1> QED
  BY <1>1, <1>2, <1>3, <1>4 DEF LoadStoreNext

LEMMA MemoryInit ==
    ASSUME Handled, LoadStoreInit
    PROVE  MemoryInv
  BY DEF Handled, Handles, LoadStoreInit, MemoryInv, LoadStoreTypeOK

-----------------------------------------------------------------------------
(* Refinement. *)

\* The bytes a load is to deliver are the lanes it reads.
LEMMA LoadsLanes ==
    ASSUME Handled, MemoryInv, NEW a \in Accesses, a.region = "dlm",
           NEW i \in 0 .. 3, i < Bytes!Size(a.op)
    PROVE  Contents["dlm"][a.addr + i] = DlmRead(a)[i]
<1> DEFINE w == Index(a.addr)
           l == Offset(a.addr)
<1>1. /\ w \in 0 .. Depth - 1 /\ l \in 0 .. 3 /\ a.addr = 4 * w + l
      /\ l + Bytes!Size(a.op) <= 4 /\ Bytes!Size(a.op) \in {1, 2, 4}
      /\ a.addr + Bytes!Size(a.op) <= 4 * Depth /\ a.addr \in Nat /\ Depth \in Nat
  BY OneWord DEF Handled, Handles
<1> HIDE DEF w, l
<1>2. l + i \in 0 .. 3 /\ a.addr + i \in 0 .. 4 * Depth - 1 /\ a.addr + i = 4 * w + (l + i)
  BY <1>1
<1>3. (a.addr + i) \div 4 = w /\ (a.addr + i) % 4 = l + i
  BY <1>1, <1>2, ByteOfWord
<1>4. Contents["dlm"][a.addr + i] = dlm[w][l + i]
  BY <1>2, <1>3 DEF Contents
<1>5. DlmRead(a)[i] = dlm[w][i + l]
  BY <1>1, <1>2 DEF DlmRead, MemoryInv, Strobed, Bytes!Lanes, w, l
<1> QED
  BY <1>1, <1>2, <1>4, <1>5

LEMMA LoadsWord ==
    ASSUME Handled, MemoryInv, NEW a \in Accesses, a.region = "ilm", NEW i \in 0 .. 3
    PROVE  Contents["ilm"][a.addr + i] = ilm[Index(a.addr)][i]
<1> DEFINE w == Index(a.addr)
<1>1. /\ w \in 0 .. Depth - 1 /\ Bytes!Size(a.op) = 4
      /\ Offset(a.addr) \in 0 .. 3 /\ a.addr = 4 * w + Offset(a.addr)
      /\ Offset(a.addr) + Bytes!Size(a.op) <= 4
      /\ a.addr + Bytes!Size(a.op) <= 4 * Depth /\ a.addr \in Nat /\ Depth \in Nat
  BY OneWord DEF Handled, Handles
<1> HIDE DEF w
<1>2. a.addr = 4 * w /\ a.addr + i \in 0 .. 4 * Depth - 1 /\ a.addr + i = 4 * w + i
  BY <1>1
<1>3. (a.addr + i) \div 4 = w /\ (a.addr + i) % 4 = i
  BY <1>1, <1>2, ByteOfWord
<1> QED
  BY <1>2, <1>3 DEF Contents, w

\* A store changes the bytes it names.
Changed(a, old) ==
    [n \in 0 .. 4 * Depth - 1 |-> IF n \in a.addr .. a.addr + Bytes!Size(a.op) - 1
                                  THEN a.data[n - a.addr] ELSE old[n]]

LEMMA StoresLanes ==
    ASSUME Handled, MemoryInv, NEW a \in Accesses,
           dlm' = [dlm EXCEPT ![Index(a.addr)] = DlmStored(a)]
    PROVE  [n \in 0 .. 4 * Depth - 1 |-> dlm'[n \div 4][n % 4]] = Changed(a, Contents["dlm"])
<1> DEFINE w == Index(a.addr)
           l == Offset(a.addr)
<1>1. /\ w \in 0 .. Depth - 1 /\ l \in 0 .. 3 /\ a.addr = 4 * w + l
      /\ l + Bytes!Size(a.op) <= 4 /\ Bytes!Size(a.op) \in {1, 2, 4} /\ Depth \in Nat
      /\ a.addr \in Nat
  BY OneWord DEF Handled, Handles
<1> HIDE DEF w, l
<1> SUFFICES ASSUME NEW n \in 0 .. 4 * Depth - 1
             PROVE  dlm'[n \div 4][n % 4] = Changed(a, Contents["dlm"])[n]
  BY DEF Changed
<1>2. n \div 4 \in 0 .. Depth - 1 /\ n % 4 \in 0 .. 3 /\ n = 4 * (n \div 4) + (n % 4)
  BY <1>1, LaneOfByte
<1>3. Contents["dlm"][n] = dlm[n \div 4][n % 4]
  BY DEF Contents
<1>4. CASE n \in a.addr .. a.addr + Bytes!Size(a.op) - 1
  <2> DEFINE i == n - a.addr
  <2>1. i \in 0 .. 3 /\ i < Bytes!Size(a.op) /\ l + i \in 0 .. 3 /\ n = 4 * w + (l + i)
    BY <1>1, <1>4
  <2>2. n \div 4 = w /\ n % 4 = l + i
    BY <1>1, <2>1, ByteOfWord
  <2>3. dlm'[n \div 4][n % 4] = DlmStored(a)[l + i]
    BY <1>1, <2>2 DEF MemoryInv, LoadStoreTypeOK, w
  <2>4. (l + i) - l = i /\ l + i >= l
    BY <1>1, <2>1
  <2>5. DlmStored(a)[l + i] = a.data[i]
    <3> HIDE DEF i
    <3> QED
      BY <1>1, <2>1, <2>4 DEF DlmStored, Strobed, Bytes!Lanes, l
  <2> QED
    BY <1>4, <2>3, <2>5 DEF Changed
<1>5. CASE n \notin a.addr .. a.addr + Bytes!Size(a.op) - 1
  <2>1. dlm'[n \div 4][n % 4] = dlm[n \div 4][n % 4]
    <3>1. CASE n \div 4 # w
      BY <1>1, <1>2, <3>1 DEF MemoryInv, LoadStoreTypeOK, w
    <3>2. CASE n \div 4 = w
      <4>1. dlm'[n \div 4] = DlmStored(a)
        BY <1>1, <3>2 DEF MemoryInv, LoadStoreTypeOK, w
      <4>2. ~(n % 4 >= l /\ (n % 4) - l < Bytes!Size(a.op))
        BY <1>1, <1>2, <1>5, <3>2
      <4>3. DlmStored(a)[n % 4] = dlm[w][n % 4]
        BY <1>2, <4>2 DEF DlmStored, Strobed, Bytes!Lanes, w, l
      <4> QED
        BY <3>2, <4>1, <4>3
    <3> QED
      BY <3>1, <3>2
  <2> QED
    BY <1>3, <1>5, <2>1 DEF Changed
<1> QED
  BY <1>4, <1>5

LEMMA StoresWord ==
    ASSUME Handled, MemoryInv, NEW a \in Accesses, a.region = "ilm",
           ilm' = [ilm EXCEPT ![Index(a.addr)] = a.data]
    PROVE  [n \in 0 .. 4 * Depth - 1 |-> ilm'[n \div 4][n % 4]] = Changed(a, Contents["ilm"])
<1> DEFINE w == Index(a.addr)
<1>1. /\ w \in 0 .. Depth - 1 /\ Bytes!Size(a.op) = 4
      /\ Offset(a.addr) \in 0 .. 3 /\ a.addr = 4 * w + Offset(a.addr)
      /\ Offset(a.addr) + Bytes!Size(a.op) <= 4 /\ a.addr \in Nat /\ Depth \in Nat
  BY OneWord DEF Handled, Handles
<1> HIDE DEF w
<1>a. a.addr = 4 * w
  BY <1>1
<1> SUFFICES ASSUME NEW n \in 0 .. 4 * Depth - 1
             PROVE  ilm'[n \div 4][n % 4] = Changed(a, Contents["ilm"])[n]
  BY DEF Changed
<1>2. n \div 4 \in 0 .. Depth - 1 /\ n % 4 \in 0 .. 3 /\ n = 4 * (n \div 4) + (n % 4)
  BY <1>1, LaneOfByte
<1>3. Contents["ilm"][n] = ilm[n \div 4][n % 4]
  BY DEF Contents
<1>4. CASE n \div 4 = w
  <2>1. n \in a.addr .. a.addr + Bytes!Size(a.op) - 1 /\ n - a.addr = n % 4
    BY <1>1, <1>a, <1>2, <1>4
  <2>2. ilm'[n \div 4] = a.data
    BY <1>1, <1>4 DEF MemoryInv, LoadStoreTypeOK, w
  <2> QED
    BY <2>1, <2>2 DEF Changed
<1>5. CASE n \div 4 # w
  <2>1. n \notin a.addr .. a.addr + Bytes!Size(a.op) - 1
    BY <1>1, <1>a, <1>2, <1>5
  <2>2. ilm'[n \div 4] = ilm[n \div 4]
    BY <1>1, <1>2, <1>5 DEF MemoryInv, LoadStoreTypeOK, w
  <2> QED
    BY <1>3, <2>1, <2>2 DEF Changed
<1> QED
  BY <1>4, <1>5

LEMMA LoadRefines ==
    ASSUME Handled, MemoryInv, NEW a \in Accesses, Dlm(a) \/ Ilm(a), a.op \in Bytes!Loads
    PROVE  Bytes!Load(a) /\ Contents' = Contents
<1> DEFINE wanted == [i \in Bytes!Lanes |-> IF i < Bytes!Size(a.op)
                                            THEN Contents[a.region][a.addr + i] ELSE 0]
<1>1. a.op \notin Bytes!Stores /\ ~(Index(a.addr) > Depth - 1) /\ Index(a.addr) \in 0 .. Depth - 1
  BY OneWord DEF Bytes!Loads, Bytes!Stores, Handled
<1>2. dlm' = dlm /\ ilm' = ilm
  BY <1>1 DEF Dlm, Ilm
<1>3. rd_data' = Bytes!Extended(a.op, wanted)
  <2>1. CASE Dlm(a)
    <3>1. a.region = "dlm" /\ rd_data' = Bytes!Extended(a.op, DlmRead(a))
      BY <1>1, <2>1 DEF Dlm
    <3>2. \A i \in 0 .. 3 : i < Bytes!Size(a.op) => DlmRead(a)[i] = wanted[i]
      BY <3>1, LoadsLanes DEF Bytes!Lanes
    <3> HIDE DEF wanted
    <3> QED
      BY <3>1, <3>2, ExtendedSame
  <2>2. CASE Ilm(a)
    <3>1. a.region = "ilm" /\ rd_data' = Bytes!Extended(a.op, ilm[Index(a.addr)])
      BY <1>1, <2>2 DEF Ilm
    <3>2. \A i \in 0 .. 3 : i < Bytes!Size(a.op) => ilm[Index(a.addr)][i] = wanted[i]
      BY <3>1, LoadsWord DEF Bytes!Lanes
    <3> HIDE DEF wanted
    <3> QED
      BY <3>1, <3>2, ExtendedSame
  <2> QED
    BY <2>1, <2>2
<1>4. Contents' = Contents
  BY <1>2 DEF Contents
<1> QED
  BY <1>3, <1>4 DEF Bytes!Load, Contents

LEMMA StoreRefines ==
    ASSUME Handled, MemoryInv, NEW a \in Accesses, Dlm(a) \/ Ilm(a), a.op \in Bytes!Stores
    PROVE  Bytes!Store(a)
<1>1. ~(Index(a.addr) > Depth - 1) /\ Index(a.addr) \in 0 .. Depth - 1
  BY OneWord DEF Handled, Handles
<1>2. CASE Dlm(a)
  <2>0. a.op \notin Bytes!Loads /\ Index(a.addr) <= Depth - 1 /\ ~data_err
    BY <1>1 DEF Bytes!Loads, Bytes!Stores, MemoryInv, Handled
  <2>a. a.region = "dlm" /\ ilm' = ilm /\ rd_data' = rd_data
    BY <1>2, <2>0 DEF Dlm
  <2>b. dlm' = [dlm EXCEPT ![Index(a.addr)] = DlmStored(a)]
    BY <1>2, <2>0 DEF Dlm
  <2>1. /\ a.region = "dlm" /\ ilm' = ilm /\ rd_data' = rd_data
        /\ dlm' = [dlm EXCEPT ![Index(a.addr)] = DlmStored(a)]
    BY <2>a, <2>b
  <2>2. Contents' = [Contents EXCEPT !["dlm"] = Changed(a, Contents["dlm"])]
    <3>1. /\ DOMAIN Contents = {"ilm", "dlm"} /\ Contents' = [r \in {"ilm", "dlm"} |-> Contents'[r]]
      BY DEF Contents
    <3>2. Contents'["ilm"] = Contents["ilm"]
      BY <2>1 DEF Contents
    <3>3. Contents'["dlm"] = Changed(a, Contents["dlm"])
      BY <2>1, StoresLanes DEF Contents
    <3> QED BY <3>1, <3>2, <3>3
  <2> QED
    BY <2>1, <2>2 DEF Bytes!Store, Contents, Changed
<1>3. CASE Ilm(a)
  <2>1. /\ a.region = "ilm" /\ dlm' = dlm /\ rd_data' = rd_data
        /\ ilm' = [ilm EXCEPT ![Index(a.addr)] = a.data]
    BY <1>1, <1>3 DEF Ilm
  <2>2. Contents' = [Contents EXCEPT !["ilm"] = Changed(a, Contents["ilm"])]
    <3>1. /\ DOMAIN Contents = {"ilm", "dlm"} /\ Contents' = [r \in {"ilm", "dlm"} |-> Contents'[r]]
      BY DEF Contents
    <3>2. Contents'["dlm"] = Contents["dlm"]
      BY <2>1 DEF Contents
    <3>3. Contents'["ilm"] = Changed(a, Contents["ilm"])
      BY <2>1, StoresWord DEF Contents
    <3> QED BY <3>1, <3>2, <3>3
  <2> QED
    BY <2>1, <2>2 DEF Bytes!Store, Contents, Changed
<1> QED
  BY <1>2, <1>3

LEMMA StepRefines ==
    ASSUME Handled, MemoryInv, [LoadStoreNext]_memoryVars
    PROVE  Bytes!Next \/ UNCHANGED Bytes!vars
<1>1. MemoryInv'
  BY MemoryStep
<1>2. ASSUME NEW a \in Accesses, Dlm(a) \/ Ilm(a) PROVE Bytes!Access(a)
  <2>1. Bytes!Legal(a) /\ access' = a /\ data_err = FALSE /\ data_err' = FALSE
    BY <1>1, <1>2 DEF Handled, Handles, Dlm, Ilm, MemoryInv
  <2>2. Bytes!Load(a) \/ Bytes!Store(a)
    BY <1>2, LoadRefines, StoreRefines DEF Handled, Handles
  <2> QED
    BY <2>1, <2>2 DEF Bytes!Access
<1>3. CASE Idle \/ UNCHANGED memoryVars
  BY <1>1, <1>3 DEF Idle, memoryVars, MemoryInv, Bytes!vars
<1> QED
  BY <1>2, <1>3 DEF LoadStoreNext, Bytes!Next

LEMMA InitRefines ==
    ASSUME Handled, LoadStoreInit
    PROVE  Bytes!Init
<1>1. MemoryInv /\ Depth \in Nat
  BY MemoryInit DEF Handled, Handles
<1>2. \A n \in 0 .. 4 * Depth - 1 : dlm[n \div 4][n % 4] \in Byte /\ ilm[n \div 4][n % 4] \in Byte
  BY <1>1, LaneOfByte DEF MemoryInv, LoadStoreTypeOK, Bytes!Word, Bytes!Lanes
<1> QED
  BY <1>1, <1>2 DEF MemoryInv, LoadStoreTypeOK, Bytes!Init

(***************************************************************************)
(* Sub-word loads and stores of any sizes and offsets, in any order, agree *)
(* on which byte each of them means (alu.v:216-255, data_lm.v:44-95,       *)
(* instruction_lm.v:26-48).                                                *)
(***************************************************************************)
THEOREM ByteRefinement == ASSUME Handled PROVE LoadStoreSpec => ImplementsBytes
<1>1. LoadStoreInit => MemoryInv /\ Bytes!Init
  BY MemoryInit, InitRefines
<1>2. MemoryInv /\ [LoadStoreNext]_memoryVars => MemoryInv' /\ [Bytes!Next]_(Bytes!vars)
  BY MemoryStep, StepRefines
<1> QED
  BY <1>1, <1>2, PTL DEF LoadStoreSpec, ImplementsBytes, Bytes!Spec

-----------------------------------------------------------------------------
(* The machine timer and its driver, for every width of the registers, every
   interval and every bound: the time read is one of the call, no tick is
   counted before its time, and the deadlines keep to their grid. *)

-----------------------------------------------------------------------------
LEMMA Constants == Half \in Nat \ {0} /\ Ticks \in Nat \ {0} /\ End \in Nat
  BY TimerAssumption

(* Division with remainder, and the halves of a register. *)

LEMMA Division ==
    ASSUME NEW t \in Nat, NEW d \in Nat \ {0}
    PROVE  /\ t \div d \in Nat
           /\ t % d \in 0 .. d - 1
           /\ t = d * (t \div d) + (t % d)
  BY SMT

LEMMA Ordered ==
    ASSUME NEW d \in Nat \ {0}, NEW p \in Nat, NEW q \in Nat, NEW r \in 0 .. d - 1,
           NEW s \in 0 .. d - 1, d * p + r <= d * q + s
    PROVE  p <= q
<1> SUFFICES ASSUME p >= q + 1 PROVE FALSE
  OBVIOUS
<1>1. d * p >= d * (q + 1)
  BY SMT
<1>2. d * (q + 1) = d * q + d
  BY SMT
<1> QED
  BY <1>1, <1>2

LEMMA Unique ==
    ASSUME NEW d \in Nat \ {0}, NEW q \in Nat, NEW r \in 0 .. d - 1
    PROVE  (d * q + r) \div d = q /\ (d * q + r) % d = r
<1> DEFINE t == d * q + r
<1>1. t \in Nat
  BY SMT
<1>2. t \div d \in Nat /\ t % d \in 0 .. d - 1 /\ t = d * (t \div d) + (t % d)
  BY <1>1, Division
<1>3. t \div d <= q /\ q <= t \div d
  BY <1>2, Ordered
<1> QED
  BY <1>2, <1>3

LEMMA HiMonotone ==
    ASSUME NEW s \in Nat, NEW t \in Nat, s <= t
    PROVE  HiOf(s) <= HiOf(t)
  BY TimerAssumption, Division, Ordered DEF HiOf

LEMMA HalfTypes ==
    ASSUME NEW t \in Times
    PROVE  HiOf(t) \in Halves /\ LoOf(t) \in Halves
<1>1. t \in Nat /\ t <= Half * (Half - 1) + (Half - 1)
  BY TimerAssumption, SMT DEF Times
<1>2. HiOf(t) \in Nat /\ LoOf(t) \in Halves /\ t = Half * HiOf(t) + LoOf(t)
  BY <1>1, TimerAssumption, Division DEF HiOf, LoOf, Halves
<1>3. HiOf(t) <= Half - 1
  BY <1>1, <1>2, TimerAssumption, Ordered DEF Halves
<1> QED
  BY <1>2, <1>3, TimerAssumption DEF Halves

LEMMA EndInTimes == 0 .. End + Ticks \subseteq Times
<1>1. (Half - 1) * Half <= Half * Half - 1
  BY TimerAssumption, SMT
<1> QED
  BY <1>1, TimerAssumption DEF Times

LEMMA WholeOfHalves ==
    ASSUME NEW t \in Nat
    PROVE  Whole(HiOf(t), LoOf(t)) = t
  BY TimerAssumption, Division DEF HiOf, LoOf, Whole

LEMMA HalvesOfWhole ==
    ASSUME NEW h \in Halves, NEW l \in Halves
    PROVE  /\ Whole(h, l) \in Times
           /\ HiOf(Whole(h, l)) = h
           /\ LoOf(Whole(h, l)) = l
  BY TimerAssumption, Unique DEF Whole, HiOf, LoOf, Times, Halves

(***************************************************************************)
(* The inductive invariant.  Chosen: the deadline to write is known.       *)
(***************************************************************************)
Chosen == Writes \cup {"enable", "mret"}

OnGrid(n) == \E j \in Nat : j >= n /\ next = system_startup_time + j * Ticks

\* Who runs the driver follows from the enables.
CallerOK ==
    /\ at = "idle" => mie
    /\ at # "idle" /\ who = "handler" => mtie /\ at # "enable"
    /\ at # "idle" /\ who = "config" =>
          /\ ~mtie /\ mie
          /\ at \notin ReadsCompare \cup {"mret"}
          /\ timer_tick_count = 0

\* What the halves of the time read so far are halves of.
ReadingOK ==
    /\ since <= mtimer_counter
    /\ at = "time_lo" => hi <= HiOf(mtimer_counter)
    /\ at = "time_check" =>
          \E t \in since .. mtimer_counter : hi <= HiOf(t) /\ lo = LoOf(t)
    /\ at \in Chosen => since <= now /\ now <= mtimer_counter

\* The compare register against the deadline.
CompareOK ==
    /\ at \in ReadsCompare => mtimer_cmp = next /\ next <= mtimer_counter
    /\ at \in {"cmp_read_lo", "cmp_read_check"} => hi = HiOf(mtimer_cmp)
    /\ at = "cmp_read_check" => lo = LoOf(mtimer_cmp)
    /\ at = "write_lo" => HiOf(mtimer_cmp) = HiOf(next)
    /\ at \in {"enable", "mret"} => mtimer_cmp = next
    /\ at = "idle" /\ mtie =>
          mtimer_cmp = next /\ (mtimer_happend => next <= mtimer_counter)

\* The deadline against the ticks counted.
GridOK ==
    /\ mtie \/ at \in Chosen =>
          timer_tick_count * Ticks <= mtimer_counter - system_startup_time
    /\ at \in Chosen \/ (at = "idle" /\ mtie) => next > now /\ OnGrid(timer_tick_count + 1)
    /\ at \in ReadsCompare => OnGrid(timer_tick_count)
    /\ at \in ReadsTime /\ who = "handler" => OnGrid(timer_tick_count + 1)

TimerInv == TimerTypeOK /\ CallerOK /\ ReadingOK /\ CompareOK /\ GridOK

-----------------------------------------------------------------------------
(* The grid of deadlines. *)

\* A deadline moved on by an interval is one tick further on the grid.
LEMMA GridAdvance ==
    ASSUME NEW base \in Nat, NEW j \in Nat, NEW m \in Nat
    PROVE  base + j * Ticks + Ticks * m = base + (j + m) * Ticks
  BY TimerAssumption, SMT

\* mtimer_schedule_next: a deadline that has passed at t moves on to one after
\* t, by whole intervals and by no more than it must.
LEMMA MovedOn ==
    ASSUME NEW deadline \in Nat, NEW t \in Nat, deadline <= t
    PROVE  \E m \in Nat : /\ m = (t - deadline) \div Ticks + 1
                          /\ deadline + Ticks * m > t
                          /\ deadline + Ticks * m <= t + Ticks
<1> DEFINE gap == t - deadline
           q == gap \div Ticks
<1>1. gap \in Nat
  OBVIOUS
<1>2. q \in Nat /\ gap % Ticks \in 0 .. Ticks - 1 /\ gap = Ticks * q + (gap % Ticks)
  BY <1>1, TimerAssumption, Division
<1>3. Ticks * (q + 1) = Ticks * q + Ticks
  <2> HIDE DEF q
  <2> QED
    BY <1>2, TimerAssumption, SMT
<1>4. Ticks * (q + 1) > gap /\ Ticks * (q + 1) <= gap + Ticks
  <2> HIDE DEF q, gap
  <2> QED
    BY <1>1, <1>2, <1>3, TimerAssumption
<1>5. Ticks * (q + 1) \in Nat
  BY <1>2, TimerAssumption
<1>6. deadline + Ticks * (q + 1) > t /\ deadline + Ticks * (q + 1) <= t + Ticks
  <2> HIDE DEF q
  <2> QED
    BY <1>4, <1>5, TimerAssumption
<1> QED
  BY <1>2, <1>6

\* As many intervals as ticks: the deadline is not before its tick's time.
LEMMA GridBound ==
    ASSUME NEW base \in Nat, NEW j \in Nat, NEW n \in Nat, j >= n
    PROVE  /\ base + n * Ticks <= base + j * Ticks
           /\ (j * Ticks) % Ticks = 0
           /\ n <= n * Ticks
<1>1. Ticks * n <= Ticks * j /\ Ticks * n >= n
  BY TimerAssumption, SMT
<1>2. (Ticks * j + 0) % Ticks = 0
  BY TimerAssumption, Unique
<1> QED
  BY <1>1, <1>2, TimerAssumption

-----------------------------------------------------------------------------
(* The inductive invariant. *)

LEMMA TimerInitInv == TimerInit => TimerInv
<1> SUFFICES ASSUME TimerInit PROVE TimerInv
  OBVIOUS
<1>1. Half * Half - 1 \in Times /\ 0 \in Times /\ End \in Times
  <2>1. (Half - 1) * Half <= Half * Half - 1
    BY TimerAssumption, SMT
  <2> QED
    BY <2>1, TimerAssumption DEF Times
<1>2. TimerTypeOK
  <2>1. 0 \in Halves /\ 0 \in 0 .. End /\ 0 \in 0 .. End + Ticks
    BY TimerAssumption DEF Halves
  <2>2. mtimer_cmp \in Times
    BY <1>1 DEF TimerInit
  <2> QED
    BY <2>1, <2>2 DEF TimerInit, TimerTypeOK, Steps
<1>3. CallerOK /\ ReadingOK /\ CompareOK /\ GridOK
  BY TimerAssumption
     DEF TimerInit, CallerOK, ReadingOK, CompareOK, GridOK, ReadsTime, ReadsCompare, Writes, Chosen
<1> QED
  BY <1>2, <1>3 DEF TimerInv

\* What every clock edge does.
LEMMA EdgeForward ==
    ASSUME TimerTypeOK, Edge
    PROVE  /\ mtimer_counter' \in 0 .. End
           /\ mtimer_counter' >= mtimer_counter
           /\ mtimer_happend' \in BOOLEAN
           /\ mtimer_happend' = (mtimer_counter >= mtimer_cmp)
<1>1. mtimer_counter \in 0 .. End /\ End \in Nat
  BY TimerAssumption DEF TimerTypeOK
<1>2. mtimer_counter' \in 0 .. End /\ mtimer_counter' >= mtimer_counter
  BY <1>1 DEF Edge
<1>3. mtimer_happend' = (mtimer_counter >= mtimer_cmp)
  BY DEF Edge, Reached
<1>4. mtimer_happend' \in BOOLEAN
  BY <1>3
<1> QED
  BY <1>2, <1>3, <1>4

\* A tick on the grid is not before its time.
LEMMA GridDue ==
    ASSUME TimerTypeOK, NEW n \in Nat, OnGrid(n)
    PROVE  /\ n * Ticks \in Nat /\ n <= n * Ticks
           /\ system_startup_time + n * Ticks <= next
           /\ (next - system_startup_time) % Ticks = 0
<1>1. system_startup_time \in Nat
  BY Constants DEF TimerTypeOK
<1>2. PICK j \in Nat : j >= n /\ next = system_startup_time + j * Ticks
  BY DEF OnGrid
<1>3. n * Ticks \in Nat /\ j * Ticks \in Nat
  BY Constants
<1>4. next - system_startup_time = j * Ticks
  BY <1>1, <1>2, <1>3
<1> QED
  BY <1>1, <1>2, <1>3, <1>4, GridBound

\* A step that leaves the deadline and the ticks alone keeps the grid.
LEMMA GridKept ==
    ASSUME TimerTypeOK, GridOK, Edge,
           UNCHANGED <<timer_tick_count, system_startup_time, next, now>>,
           mtie' \/ at' \in Chosen => mtie \/ at \in Chosen,
           at' \in Chosen \/ (at' = "idle" /\ mtie') => at \in Chosen \/ (at = "idle" /\ mtie),
           at' \in ReadsCompare => at \in ReadsCompare,
           at' \in ReadsTime /\ who' = "handler" => at \in ReadsTime /\ who = "handler"
    PROVE  GridOK'
<1>1. timer_tick_count \in Nat /\ system_startup_time \in Nat /\ mtimer_counter \in Nat
  BY TimerAssumption DEF TimerTypeOK
<1>2. timer_tick_count * Ticks \in Nat
  BY <1>1, TimerAssumption
<1>3. mtie' \/ at' \in Chosen =>
         timer_tick_count' * Ticks <= mtimer_counter' - system_startup_time'
  <2> SUFFICES ASSUME mtie' \/ at' \in Chosen
               PROVE  timer_tick_count * Ticks <= mtimer_counter' - system_startup_time
    OBVIOUS
  <2>1. timer_tick_count * Ticks <= mtimer_counter - system_startup_time
    BY DEF GridOK
  <2>2. mtimer_counter' >= mtimer_counter /\ mtimer_counter' \in Nat
    BY EdgeForward, TimerAssumption
  <2> QED
    BY <1>1, <1>2, <2>1, <2>2
<1>4. \A n : OnGrid(n) => OnGrid(n)'
  BY DEF OnGrid
<1> QED
  BY <1>3, <1>4 DEF GridOK, OnGrid

\* Time passing keeps what has been read.
LEMMA ReadingKept ==
    ASSUME TimerTypeOK, ReadingOK, Edge, UNCHANGED <<hi, lo, now, since, at>>
    PROVE  ReadingOK'
<1>1. /\ mtimer_counter' >= mtimer_counter /\ mtimer_counter' \in Nat /\ mtimer_counter \in Nat
      /\ hi \in Nat /\ since \in Nat /\ now \in Nat
  BY EdgeForward, Constants DEF TimerTypeOK, Halves
<1>2. HiOf(mtimer_counter) <= HiOf(mtimer_counter') /\ HiOf(mtimer_counter) \in Nat
      /\ HiOf(mtimer_counter') \in Nat
  BY <1>1, HiMonotone, Division, Constants DEF HiOf
<1>3. at' = "time_lo" => hi' <= HiOf(mtimer_counter')
  BY <1>1, <1>2 DEF ReadingOK
<1>4. since .. mtimer_counter \subseteq since .. mtimer_counter'
  BY <1>1
<1> QED
  BY <1>1, <1>3, <1>4 DEF ReadingOK

\* The time read is one of the call.
LEMMA TimeOfCall ==
    ASSUME TimerInv, TimeRead
    PROVE  now' \in since .. mtimer_counter
<1>1. PICK t \in since .. mtimer_counter : hi <= HiOf(t) /\ lo = LoOf(t)
  BY DEF TimerInv, ReadingOK, TimeRead
<1>2. t \in Nat /\ mtimer_counter \in Nat /\ t <= mtimer_counter
  BY Constants DEF TimerInv, TimerTypeOK
<1>3. HiOf(t) \in Nat /\ HiOf(mtimer_counter) \in Nat
  BY <1>2, Constants, Division DEF HiOf
<1>4. hi = HiOf(t)
  BY <1>1, <1>2, <1>3, HiMonotone DEF TimeRead, SameHi
<1>5. now' = t
  BY <1>1, <1>2, <1>4, WholeOfHalves DEF TimeRead
<1> QED
  BY <1>1, <1>5

\* The deadline chosen then lies after that time, on the grid, in range.
LEMMA DeadlineChosen ==
    ASSUME TimerInv, TimeRead
    PROVE  /\ next' > now' /\ next' \in 0 .. End + Ticks
           /\ OnGrid(timer_tick_count + 1)'
<1>1. /\ now' \in 0 .. End
      /\ next \in 0 .. End + Ticks /\ system_startup_time \in Nat /\ timer_tick_count \in Nat
  BY TimeOfCall, Constants DEF TimerInv, TimerTypeOK
<1>2. CASE who = "config"
  <2>1. next' = now' + Ticks /\ system_startup_time' = now' /\ timer_tick_count' = 0
    BY <1>2 DEF TimeRead, TimerInv, CallerOK
  <2>2. next' = system_startup_time' + 1 * Ticks
    BY <2>1, <1>1, Constants
  <2>3. OnGrid(timer_tick_count + 1)'
    BY <2>1, <2>2 DEF OnGrid
  <2>4. now' + Ticks > now' /\ now' + Ticks \in 0 .. End + Ticks
    <3>1. \A t \in 0 .. End : t + Ticks > t /\ t + Ticks \in 0 .. End + Ticks
      BY Constants
    <3> QED
      BY <1>1, <3>1
  <2> QED
    BY <2>1, <2>3, <2>4
<1>3. CASE who # "config"
  <2>1. /\ next' = Later(next)
        /\ system_startup_time' = system_startup_time /\ timer_tick_count' = timer_tick_count
    BY <1>3 DEF TimeRead
  <2>2. PICK j \in Nat : j >= timer_tick_count + 1 /\ next = system_startup_time + j * Ticks
    BY <1>3 DEF TimeRead, TimerInv, TimerTypeOK, GridOK, OnGrid, ReadsTime
  <2>3. CASE next > now'
    <3>1. next' = next
      BY <2>1, <2>3 DEF Later
    <3> QED
      BY <1>1, <2>1, <2>2, <2>3, <3>1 DEF OnGrid
  <2>4. CASE ~(next > now')
    <3>1. PICK m \in Nat : /\ m = (now' - next) \div Ticks + 1
                           /\ next + Ticks * m > now'
                           /\ next + Ticks * m <= now' + Ticks
      <4>1. next \in Nat /\ now' \in Nat /\ next <= now'
        BY <1>1, <2>4, Constants
      <4> QED
        BY <4>1, MovedOn
    <3>2. next' = next + Ticks * m
      BY <2>1, <2>4, <3>1 DEF Later
    <3>3. next' = system_startup_time + (j + m) * Ticks
      BY <1>1, <2>2, <3>2, GridAdvance
    <3>4. j + m \in Nat /\ j + m >= timer_tick_count + 1
      BY <1>1, <2>2
    <3>5. OnGrid(timer_tick_count + 1)'
      BY <2>1, <3>3, <3>4 DEF OnGrid
    <3>6. Ticks * m \in Nat
      BY Constants
    <3>7. next + Ticks * m \in 0 .. End + Ticks
      <4>1. \A t \in 0 .. End, d \in Nat : d <= t + Ticks => d \in 0 .. End + Ticks
        BY Constants
      <4>2. next + Ticks * m \in Nat
        BY <1>1, <3>6, Constants
      <4> QED
        BY <1>1, <3>1, <4>1, <4>2
    <3> QED
      BY <3>1, <3>2, <3>5, <3>7
  <2> QED
    BY <2>3, <2>4, <1>1
<1> QED
  BY <1>2, <1>3

\* The store of a half leaves a time in the compare register.
LEMMA StoredHalves ==
    ASSUME TimerInv, at \in Writes
    PROVE  /\ Stored \in Times
           /\ at = "write_hi" => HiOf(Stored) = HiOf(next)
           /\ at = "write_lo" => Stored = next
<1>1. mtimer_cmp \in Times /\ next \in Times /\ next \in Nat /\ Half - 1 \in Halves
  BY EndInTimes, Constants DEF TimerInv, TimerTypeOK, Halves, Times
<1>2. /\ HiOf(mtimer_cmp) \in Halves /\ LoOf(mtimer_cmp) \in Halves
      /\ HiOf(next) \in Halves /\ LoOf(next) \in Halves
  BY <1>1, HalfTypes
<1>3. CASE at = "write_max"
  BY <1>1, <1>2, <1>3, HalvesOfWhole DEF Stored
<1>4. CASE at = "write_hi"
  BY <1>1, <1>2, <1>4, HalvesOfWhole DEF Stored
<1>5. CASE at = "write_lo"
  <2>1. Stored = Whole(HiOf(next), LoOf(next))
    BY <1>5 DEF Stored, TimerInv, CompareOK
  <2> QED
    BY <1>1, <1>5, <2>1, WholeOfHalves
<1> QED
  BY <1>3, <1>4, <1>5 DEF Writes

LEMMA ConfigStep ==
    ASSUME TimerInv, Config, Edge
    PROVE  TimerInv'
<1> USE DEF ReadsTime, ReadsCompare, Writes, Chosen
<1>1. TimerTypeOK'
  <2>1. timer_tick_count' \in 0 .. End /\ since' \in 0 .. End
    BY Constants DEF TimerInv, TimerTypeOK, Config
  <2> QED
    BY <2>1, EdgeForward DEF TimerInv, TimerTypeOK, Config, Steps
<1>2. CallerOK'
  BY DEF TimerInv, TimerTypeOK, CallerOK, Config, Steps, Untouched, driver, enables
<1>3. ReadingOK'
  BY EdgeForward, Constants DEF TimerInv, TimerTypeOK, ReadingOK, Config, Steps, Untouched, driver, enables
<1>4. CompareOK'
  BY EdgeForward, Constants DEF TimerInv, TimerTypeOK, CompareOK, CallerOK, Config, Steps, Untouched, driver, enables
<1>5. GridOK'
  BY DEF GridOK, Config
<1> QED
  BY <1>1, <1>2, <1>3, <1>4, <1>5 DEF TimerInv

LEMMA InterruptStep ==
    ASSUME TimerInv, Interrupt, Edge
    PROVE  TimerInv'
<1> USE DEF ReadsTime, ReadsCompare, Writes, Chosen
<1>0. /\ timer_tick_count \in Nat /\ timer_tick_count + 1 <= End
      /\ (timer_tick_count + 1) * Ticks <= mtimer_counter - system_startup_time
      /\ OnGrid(timer_tick_count + 1)
  <2>1. timer_tick_count \in Nat /\ mtimer_counter \in 0 .. End /\ system_startup_time \in Nat
    BY Constants DEF TimerInv, TimerTypeOK
  <2>2. OnGrid(timer_tick_count + 1) /\ next <= mtimer_counter /\ next \in Nat
    BY Constants DEF TimerInv, TimerTypeOK, CompareOK, GridOK, Interrupt
  <2>3. /\ system_startup_time + (timer_tick_count + 1) * Ticks <= next
        /\ (timer_tick_count + 1) * Ticks \in Nat
        /\ timer_tick_count + 1 <= (timer_tick_count + 1) * Ticks
    BY <2>1, <2>2, GridDue DEF TimerInv
  <2> QED
    BY <2>1, <2>2, <2>3, Constants
<1>1. TimerTypeOK'
  <2>1. timer_tick_count' \in 0 .. End
    BY <1>0, Constants DEF Interrupt
  <2> QED
    BY <2>1, EdgeForward DEF TimerInv, TimerTypeOK, Interrupt, Steps
<1>2. CallerOK'
  BY DEF TimerInv, TimerTypeOK, CallerOK, Interrupt, Steps, Untouched, driver, enables
<1>3. ReadingOK'
  BY EdgeForward, Constants DEF TimerInv, TimerTypeOK, ReadingOK, Interrupt, Steps, Untouched, driver, enables
<1>4. CompareOK'
  BY EdgeForward, Constants DEF TimerInv, TimerTypeOK, CompareOK, CallerOK, Interrupt, Steps, Untouched, driver, enables
<1>5. GridOK'
  <2>1. timer_tick_count' * Ticks <= mtimer_counter' - system_startup_time'
    <3>1. system_startup_time \in Nat /\ mtimer_counter \in Nat /\ mtimer_counter' \in Nat
          /\ mtimer_counter' >= mtimer_counter
      BY EdgeForward, Constants DEF TimerInv, TimerTypeOK
    <3>2. (timer_tick_count + 1) * Ticks \in Nat
      BY <1>0, Constants
    <3> QED
      BY <1>0, <3>1, <3>2 DEF Interrupt
  <2>2. OnGrid(timer_tick_count)'
    BY <1>0 DEF OnGrid, Interrupt
  <2> QED
    BY <2>1, <2>2 DEF GridOK, Interrupt
<1> QED
  BY <1>1, <1>2, <1>3, <1>4, <1>5 DEF TimerInv

LEMMA ReadHiStep ==
    ASSUME TimerInv, ReadHi, Edge
    PROVE  TimerInv'
<1> USE DEF ReadsTime, ReadsCompare, Writes, Chosen
<1>1. TimerTypeOK'
  <2>1. mtimer_counter \in Times /\ mtimer_cmp \in Times
    BY EndInTimes, Constants DEF TimerInv, TimerTypeOK, Times
  <2>2. hi' \in Halves
    BY <2>1, HalfTypes DEF ReadHi
  <2> QED
    BY <2>2, EdgeForward, Constants DEF TimerInv, TimerTypeOK, ReadHi, Steps, Untouched
<1>2. CallerOK'
  BY DEF TimerInv, TimerTypeOK, CallerOK, ReadHi, Steps, Untouched, driver, enables
<1>3. ReadingOK'
  <2>1. since' <= mtimer_counter'
    BY EdgeForward, Constants DEF TimerInv, TimerTypeOK, ReadingOK, ReadHi
  <2>2. at' = "time_lo" => hi' <= HiOf(mtimer_counter')
    <3> SUFFICES ASSUME at' = "time_lo" PROVE HiOf(mtimer_counter) <= HiOf(mtimer_counter')
      BY DEF ReadHi
    <3> QED
      BY EdgeForward, Constants, HiMonotone DEF TimerInv, TimerTypeOK
  <2> QED
    BY <2>1, <2>2 DEF ReadingOK, ReadHi
<1>4. CompareOK'
  BY EdgeForward, Constants DEF TimerInv, TimerTypeOK, CompareOK, CallerOK, ReadHi, Steps, Untouched, driver, enables
<1>5. GridOK'
  BY GridKept DEF TimerInv, CallerOK, ReadHi, Untouched, driver, enables
<1> QED
  BY <1>1, <1>2, <1>3, <1>4, <1>5 DEF TimerInv

LEMMA ReadLoStep ==
    ASSUME TimerInv, ReadLo, Edge
    PROVE  TimerInv'
<1> USE DEF ReadsTime, ReadsCompare, Writes, Chosen
<1>1. TimerTypeOK'
  <2>1. mtimer_counter \in Times /\ mtimer_cmp \in Times
    BY EndInTimes, Constants DEF TimerInv, TimerTypeOK, Times
  <2>2. lo' \in Halves
    BY <2>1, HalfTypes DEF ReadLo
  <2> QED
    BY <2>2, EdgeForward, Constants DEF TimerInv, TimerTypeOK, ReadLo, Steps, Untouched
<1>2. CallerOK'
  BY DEF TimerInv, TimerTypeOK, CallerOK, ReadLo, Steps, Untouched, driver, enables
<1>3. ReadingOK'
  BY EdgeForward, Constants DEF TimerInv, TimerTypeOK, ReadingOK, ReadLo, Steps, Untouched, driver, enables
<1>4. CompareOK'
  BY EdgeForward, Constants DEF TimerInv, TimerTypeOK, CompareOK, CallerOK, ReadLo, Steps, Untouched, driver, enables
<1>5. GridOK'
  BY GridKept DEF TimerInv, CallerOK, ReadLo, Untouched, driver, enables
<1> QED
  BY <1>1, <1>2, <1>3, <1>4, <1>5 DEF TimerInv

LEMMA TimeReadStep ==
    ASSUME TimerInv, TimeRead, Edge
    PROVE  TimerInv'
<1> USE DEF ReadsTime, ReadsCompare, Writes, Chosen
<1>1. TimerTypeOK'
  <2>1. now' \in 0 .. End /\ system_startup_time' \in 0 .. End
    BY TimeOfCall, Constants DEF TimerInv, TimerTypeOK, TimeRead
  <2> QED
    BY <2>1, DeadlineChosen, EdgeForward DEF TimerInv, TimerTypeOK, TimeRead, Steps, Untouched
<1>2. CallerOK'
  BY DEF TimerInv, TimerTypeOK, CallerOK, TimeRead, Steps, Untouched, driver, enables
<1>3. ReadingOK'
  BY TimeOfCall, EdgeForward, Constants DEF TimerInv, TimerTypeOK, ReadingOK, TimeRead
<1>4. CompareOK'
  BY EdgeForward, Constants DEF TimerInv, TimerTypeOK, CompareOK, CallerOK, TimeRead, Steps, Untouched, driver, enables
<1>5. GridOK'
  <2>1. timer_tick_count' * Ticks <= mtimer_counter' - system_startup_time'
    <3>1. /\ mtimer_counter' >= mtimer_counter /\ mtimer_counter' \in Nat /\ mtimer_counter \in Nat
          /\ timer_tick_count \in Nat /\ system_startup_time \in Nat /\ now' \in Nat
          /\ now' <= mtimer_counter /\ timer_tick_count * Ticks \in Nat
      BY TimeOfCall, EdgeForward, Constants DEF TimerInv, TimerTypeOK
    <3>2. CASE who = "config"
      <4>1. timer_tick_count' = 0 /\ system_startup_time' = now'
        BY <3>2 DEF TimeRead, TimerInv, CallerOK
      <4> QED
        <5>1. \A c, p, t \in Nat : c >= p /\ t <= p => 0 * Ticks <= c - t
          BY Constants
        <5> QED
          BY <3>1, <4>1, <5>1
    <3>3. CASE who # "config"
      <4>1. /\ timer_tick_count' = timer_tick_count /\ system_startup_time' = system_startup_time
            /\ timer_tick_count * Ticks <= mtimer_counter - system_startup_time
        BY <3>3 DEF TimeRead, TimerInv, TimerTypeOK, CallerOK, GridOK
      <4> QED
        BY <3>1, <4>1
    <3> QED
      BY <3>2, <3>3
  <2> QED
    BY <2>1, DeadlineChosen DEF GridOK, TimeRead
<1> QED
  BY <1>1, <1>2, <1>3, <1>4, <1>5 DEF TimerInv

LEMMA CompareReadStep ==
    ASSUME TimerInv, CompareRead, Edge
    PROVE  TimerInv'
<1> USE DEF ReadsTime, ReadsCompare, Writes, Chosen
<1>0. /\ next' = next + Ticks /\ next \in 0 .. End
      /\ timer_tick_count \in Nat /\ system_startup_time \in Nat
  <2>1. mtimer_cmp = next /\ next <= mtimer_counter /\ hi = HiOf(mtimer_cmp) /\ lo = LoOf(mtimer_cmp)
    BY DEF TimerInv, CompareOK, CompareRead
  <2> QED
    BY <2>1, WholeOfHalves, Constants DEF TimerInv, TimerTypeOK, CompareRead
<1>1. TimerTypeOK'
  BY <1>0, EdgeForward, Constants DEF TimerInv, TimerTypeOK, CompareRead, Steps, Untouched
<1>2. CallerOK'
  BY DEF TimerInv, TimerTypeOK, CallerOK, CompareRead, Steps, Untouched, driver, enables
<1>3. ReadingOK'
  BY EdgeForward, Constants DEF TimerInv, TimerTypeOK, ReadingOK, CompareRead, Steps, Untouched, driver, enables
<1>4. CompareOK'
  BY EdgeForward, Constants DEF TimerInv, TimerTypeOK, CompareOK, CallerOK, CompareRead, Steps, Untouched, driver, enables
<1>5. GridOK'
  <2>1. PICK j \in Nat : j >= timer_tick_count /\ next = system_startup_time + j * Ticks
    BY DEF TimerInv, GridOK, OnGrid, CompareRead
  <2>2. next' = system_startup_time + (j + 1) * Ticks
    BY <1>0, <2>1, GridAdvance, Constants
  <2>3. OnGrid(timer_tick_count + 1)'
    BY <1>0, <2>1, <2>2 DEF OnGrid, CompareRead
  <2>4. timer_tick_count * Ticks <= mtimer_counter - system_startup_time
    BY DEF TimerInv, TimerTypeOK, CallerOK, GridOK, CompareRead
  <2>5. timer_tick_count' * Ticks <= mtimer_counter' - system_startup_time'
    <3>1. /\ mtimer_counter' >= mtimer_counter /\ mtimer_counter' \in Nat /\ mtimer_counter \in Nat
          /\ timer_tick_count * Ticks \in Nat
      BY <1>0, EdgeForward, Constants DEF TimerInv, TimerTypeOK
    <3> QED
      BY <1>0, <2>4, <3>1 DEF CompareRead
  <2> QED
    BY <2>3, <2>5 DEF GridOK, CompareRead
<1> QED
  BY <1>1, <1>2, <1>3, <1>4, <1>5 DEF TimerInv

LEMMA ReadAgainStep ==
    ASSUME TimerInv, ReadAgain, Edge
    PROVE  TimerInv'
<1> USE DEF ReadsTime, ReadsCompare, Writes, Chosen
<1>1. TimerTypeOK'
  BY EdgeForward, Constants DEF TimerInv, TimerTypeOK, ReadAgain, Steps, Untouched, driver, enables
<1>2. CallerOK'
  BY DEF TimerInv, TimerTypeOK, CallerOK, ReadAgain, Steps, Untouched, driver, enables
<1>3. ReadingOK'
  BY EdgeForward, Constants DEF TimerInv, TimerTypeOK, ReadingOK, ReadAgain, Steps, Untouched, driver, enables
<1>4. CompareOK'
  BY EdgeForward, Constants DEF TimerInv, TimerTypeOK, CompareOK, CallerOK, ReadAgain, Steps, Untouched, driver, enables
<1>5. GridOK'
  BY GridKept DEF TimerInv, CallerOK, ReadAgain, Untouched, driver, enables
<1> QED
  BY <1>1, <1>2, <1>3, <1>4, <1>5 DEF TimerInv

LEMMA WriteCompareStep ==
    ASSUME TimerInv, WriteCompare, Edge
    PROVE  TimerInv'
<1> USE DEF ReadsTime, ReadsCompare, Writes, Chosen
<1>1. TimerTypeOK'
  BY StoredHalves, EdgeForward DEF TimerInv, TimerTypeOK, WriteCompare, Steps, driver, enables
<1>2. CallerOK'
  BY DEF TimerInv, TimerTypeOK, CallerOK, WriteCompare, Steps, Untouched, driver, enables
<1>3. ReadingOK'
  BY EdgeForward, Constants DEF TimerInv, TimerTypeOK, ReadingOK, WriteCompare, Steps, Untouched, driver, enables
<1>4. CompareOK'
  BY StoredHalves DEF CompareOK, WriteCompare, driver
<1>5. GridOK'
  BY GridKept DEF TimerInv, CallerOK, WriteCompare, Untouched, driver, enables
<1> QED
  BY <1>1, <1>2, <1>3, <1>4, <1>5 DEF TimerInv

LEMMA EnableStep ==
    ASSUME TimerInv, Enable, Edge
    PROVE  TimerInv'
<1> USE DEF ReadsTime, ReadsCompare, Writes, Chosen
<1>1. TimerTypeOK'
  BY EdgeForward, Constants DEF TimerInv, TimerTypeOK, Enable, Steps, Untouched, driver, enables
<1>2. CallerOK'
  BY DEF TimerInv, TimerTypeOK, CallerOK, Enable
<1>3. ReadingOK'
  BY EdgeForward, Constants DEF TimerInv, TimerTypeOK, ReadingOK, Enable, Steps, Untouched, driver, enables
<1>4. CompareOK'
  BY EdgeForward, Constants DEF TimerInv, TimerTypeOK, CompareOK, CallerOK, Enable, Steps, Untouched, driver, enables
<1>5. GridOK'
  BY GridKept DEF TimerInv, CallerOK, Enable, Untouched, driver, enables
<1> QED
  BY <1>1, <1>2, <1>3, <1>4, <1>5 DEF TimerInv

LEMMA ReturnStep ==
    ASSUME TimerInv, Return, Edge
    PROVE  TimerInv'
<1> USE DEF ReadsTime, ReadsCompare, Writes, Chosen
<1>1. TimerTypeOK'
  BY EdgeForward, Constants DEF TimerInv, TimerTypeOK, Return, Steps, Untouched, driver, enables
<1>2. CallerOK'
  BY DEF TimerInv, TimerTypeOK, CallerOK, Return, Steps, Untouched, driver, enables
<1>3. ReadingOK'
  BY EdgeForward, Constants DEF TimerInv, TimerTypeOK, ReadingOK, Return, Steps, Untouched, driver, enables
<1>4. CompareOK'
  BY EdgeForward, Constants DEF TimerInv, TimerTypeOK, CompareOK, CallerOK, Return, Steps, Untouched, driver, enables
<1>5. GridOK'
  BY GridKept DEF TimerInv, CallerOK, Return, Untouched, driver, enables
<1> QED
  BY <1>1, <1>2, <1>3, <1>4, <1>5 DEF TimerInv

LEMMA PauseStep ==
    ASSUME TimerInv, Pause, Edge
    PROVE  TimerInv'
<1> USE DEF ReadsTime, ReadsCompare, Writes, Chosen
<1>1. TimerTypeOK'
  BY EdgeForward, Constants DEF TimerInv, TimerTypeOK, Pause, Steps, Untouched, driver, enables
<1>2. CallerOK'
  BY DEF TimerInv, TimerTypeOK, CallerOK, Pause, Steps, Untouched, driver, enables
<1>3. ReadingOK'
  BY ReadingKept DEF TimerInv, Pause, driver
<1>4. CompareOK'
  BY EdgeForward, Constants DEF TimerInv, TimerTypeOK, CompareOK, CallerOK, Pause, Steps, Untouched, driver, enables
<1>5. GridOK'
  BY GridKept DEF TimerInv, CallerOK, Pause, Untouched, driver, enables
<1> QED
  BY <1>1, <1>2, <1>3, <1>4, <1>5 DEF TimerInv

-----------------------------------------------------------------------------
LEMMA TimerInvariant == TimerSpec => []TimerInv
<1>1. TimerInv /\ [TimerNext]_timerVars => TimerInv'
  <2> SUFFICES ASSUME TimerInv, [TimerNext]_timerVars PROVE TimerInv'
    OBVIOUS
  <2>1. CASE UNCHANGED timerVars
    BY <2>1 DEF TimerInv, TimerTypeOK, CallerOK, ReadingOK, CompareOK, GridOK, OnGrid,
                timerVars, hardware, enables, driver
  <2>2. CASE TimerNext
    BY <2>2, ConfigStep, InterruptStep, ReadHiStep, ReadLoStep, TimeReadStep, CompareReadStep,
       ReadAgainStep, WriteCompareStep, EnableStep, ReturnStep, PauseStep
       DEF TimerNext, Access
  <2> QED
    BY <2>1, <2>2
<1> QED
  BY TimerInitInv, <1>1, PTL DEF TimerSpec

(***************************************************************************)
(* The time mtimer_read_time returns (mtimer.c:22-30) is one the counter   *)
(* showed during the call, whatever the width of the halves.               *)
(***************************************************************************)
THEOREM TimeCorrect == TimerSpec => []TimeReadInCall
<1>1. TimerInv => TimeReadInCall
  BY DEF TimerInv, ReadingOK, TimeReadInCall, Chosen, Writes
<1> QED
  BY TimerInvariant, <1>1, PTL

(***************************************************************************)
(* mtime_handler (mtimer.c:102-113) counts no tick before its time.          *)
(***************************************************************************)
THEOREM TicksCorrect == TimerSpec => []TicksInTime
<1>1. TimerInv => TicksInTime
  BY DEF TimerInv, GridOK, TicksInTime
<1> QED
  BY TimerInvariant, <1>1, PTL

(***************************************************************************)
(* However late the handler runs, the deadlines stay on the grid of the    *)
(* start-up time (mtimer.c:83-100), each after the time it was chosen at.  *)
(***************************************************************************)
THEOREM DeadlinesCorrect == TimerSpec => []NoDrift
<1>1. TimerInv => NoDrift
  <2> SUFFICES ASSUME TimerInv, mtie, at = "idle"
               PROVE  /\ mtimer_cmp = next
                      /\ (next - system_startup_time) % Ticks = 0
                      /\ next > now
    BY DEF NoDrift
  <2>1. timer_tick_count + 1 \in Nat /\ OnGrid(timer_tick_count + 1)
    BY Constants DEF TimerInv, TimerTypeOK, GridOK
  <2> QED
    BY <2>1, GridDue DEF TimerInv, CompareOK, GridOK
<1> QED
  BY TimerInvariant, <1>1, PTL

=============================================================================
