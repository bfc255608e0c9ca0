-------------------------- MODULE Software_proofs --------------------------
(***************************************************************************)
(* The state machine of CoreMark tells numbers apart, and the co-routines  *)
(* forget nobody: proofs.                                                  *)
(***************************************************************************)
EXTENDS CoreState, Croutine, Heap_proofs

-----------------------------------------------------------------------------
(* The grammar of numbers, of the first n symbols of a text, and which      *)
(* symbol takes a number of one kind to one of another.                     *)

DigitsIn(s, a, b)     == \A i \in a .. b : ee_isdigit(s[i])
FirstDigit(s, n)      == IF n > 0 /\ s[1] \in Sign THEN 2 ELSE 1
MantissaTo(s, f, b)   == \E d \in f .. b : s[d] = Point /\ DigitsIn(s, f, d - 1) /\ DigitsIn(s, d + 1, b)
ExponentAt(s, f, e)   == MantissaTo(s, f, e - 1) /\ s[e] \in Exp /\ s[e + 1] \in Sign

SpelledTo(s, n, kind) ==
    LET f == FirstDigit(s, n)
    IN  CASE kind = "START"      -> n = 0
          [] kind = "S1"         -> n = 1 /\ f = 2
          [] kind = "INT"        -> n >= f /\ DigitsIn(s, f, n)
          [] kind = "FLOAT"      -> MantissaTo(s, f, n)
          [] kind = "S2"         -> n > 0 /\ MantissaTo(s, f, n - 1) /\ s[n] \in Exp
          [] kind = "EXPONENT"   -> n > 0 /\ ExponentAt(s, f, n - 1)
          [] kind = "SCIENTIFIC" -> \E e \in 2 .. n - 2 : ExponentAt(s, f, e) /\ DigitsIn(s, e + 2, n)

\* What is spelled depends on the first n symbols only.
LEMMA SameSpelling ==
    ASSUME NEW n \in Nat, NEW s, NEW u, \A i \in 1 .. n : u[i] = s[i], NEW kind \in Kinds,
           SpelledTo(s, n, kind)
    PROVE  SpelledTo(u, n, kind)
<1> DEFINE f == FirstDigit(s, n)
<1>1. FirstDigit(u, n) = f /\ f \in 1 .. 2
    <2>1. n > 0 => 1 \in 1 .. n
        OBVIOUS
    <2> QED BY <2>1 DEF FirstDigit
<1> HIDE DEF f
<1>2. ASSUME NEW a \in Nat, NEW b \in Int, a >= 1, b <= n, DigitsIn(s, a, b) PROVE DigitsIn(u, a, b)
    <2>1. \A i \in a .. b : i \in 1 .. n
        BY <1>2
    <2> QED BY <1>2, <2>1 DEF DigitsIn
<1>3. ASSUME NEW b \in Int, b <= n, MantissaTo(s, f, b) PROVE MantissaTo(u, f, b)
    <2>1. PICK d \in f .. b : s[d] = Point /\ DigitsIn(s, f, d - 1) /\ DigitsIn(s, d + 1, b)
        BY <1>3 DEF MantissaTo
    <2>2. /\ d \in 1 .. n /\ d - 1 \in Int /\ d - 1 <= n /\ d + 1 \in Nat /\ d + 1 >= 1
          /\ f \in Nat /\ f >= 1
        BY <1>1, <1>3
    <2>3. DigitsIn(u, f, d - 1)
        BY <1>2, <2>1, <2>2
    <2>4. DigitsIn(u, d + 1, b)
        BY <1>2, <1>3, <2>1, <2>2
    <2> QED BY <2>1, <2>2, <2>3, <2>4 DEF MantissaTo
<1>4. ASSUME NEW e \in Int, e + 1 <= n, ExponentAt(s, f, e) PROVE ExponentAt(u, f, e)
    <2>1. MantissaTo(s, f, e - 1) /\ s[e] \in Exp /\ s[e + 1] \in Sign
        BY <1>4 DEF ExponentAt
    <2>2. PICK d \in f .. e - 1 : TRUE
        BY <2>1 DEF MantissaTo
    <2>3. e \in 1 .. n /\ e + 1 \in 1 .. n /\ e - 1 \in Int /\ e - 1 <= n
        BY <1>1, <1>4, <2>2
    <2>4. MantissaTo(u, f, e - 1)
        BY <1>3, <2>1, <2>3
    <2> QED BY <2>1, <2>3, <2>4 DEF ExponentAt
<1>5. CASE kind = "START"
    BY <1>5 DEF SpelledTo
<1>6. CASE kind = "S1"
    BY <1>1, <1>6 DEF SpelledTo, f
<1>7. CASE kind = "INT"
    <2>1. n >= f /\ DigitsIn(s, f, n)
        BY <1>7 DEF SpelledTo, f
    <2>2. DigitsIn(u, f, n)
        BY <1>1, <1>2, <2>1
    <2> QED BY <1>1, <1>7, <2>1, <2>2 DEF SpelledTo
<1>8. CASE kind = "FLOAT"
    <2>1. MantissaTo(u, f, n)
        BY <1>3, <1>8 DEF SpelledTo, f
    <2> QED BY <1>1, <1>8, <2>1 DEF SpelledTo
<1>9. CASE kind = "S2"
    <2>1. n > 0 /\ MantissaTo(s, f, n - 1) /\ s[n] \in Exp
        BY <1>9 DEF SpelledTo, f
    <2>2. MantissaTo(u, f, n - 1) /\ u[n] \in Exp
        BY <1>3, <2>1
    <2> QED BY <1>1, <1>9, <2>1, <2>2 DEF SpelledTo
<1>10. CASE kind = "EXPONENT"
    <2>1. n > 0 /\ ExponentAt(s, f, n - 1)
        BY <1>10 DEF SpelledTo, f
    <2>2. ExponentAt(u, f, n - 1)
        BY <1>4, <2>1
    <2> QED BY <1>1, <1>10, <2>1, <2>2 DEF SpelledTo
<1>11. CASE kind = "SCIENTIFIC"
    <2>1. PICK e \in 2 .. n - 2 : ExponentAt(s, f, e) /\ DigitsIn(s, e + 2, n)
        BY <1>11 DEF SpelledTo, f
    <2>2. ExponentAt(u, f, e) /\ DigitsIn(u, e + 2, n)
        BY <1>2, <1>4, <2>1
    <2> QED BY <1>1, <1>11, <2>2 DEF SpelledTo
<1> QED BY <1>5, <1>6, <1>7, <1>8, <1>9, <1>10, <1>11 DEF Kinds, States

LEMMA SpelledIs ==
    ASSUME NEW s \in Seq(Int), NEW kind \in Kinds
    PROVE  Spelled(s, kind) <=> SpelledTo(s, Len(s), kind)
<1> DEFINE n == Len(s)
<1>1. n \in Nat /\ (n - 1) + 1 <= n /\ \A e \in 2 .. n - 2 : e + 1 <= n
    OBVIOUS
<1>2. n > 0 <=> \E d \in 1 .. n : TRUE
    BY <1>1
<1> HIDE DEF n
<1>3. CASE kind \in {"START", "S1", "INT", "FLOAT", "S2"}
    BY <1>1, <1>3 DEF Spelled, SpelledTo, FirstDigit, DigitsIn, MantissaTo, n
<1>4. CASE kind = "EXPONENT"
    BY <1>1, <1>4 DEF Spelled, SpelledTo, FirstDigit, DigitsIn, MantissaTo, ExponentAt, n
<1>5. CASE kind = "SCIENTIFIC"
    BY <1>1, <1>5 DEF Spelled, SpelledTo, FirstDigit, DigitsIn, MantissaTo, ExponentAt, n
<1> QED BY <1>3, <1>4, <1>5 DEF Kinds, States

LEMMA SpelledPrefix ==
    ASSUME NEW s \in Seq(Int), NEW n \in 0 .. Len(s), NEW kind \in Kinds
    PROVE  Spelled(SubSeq(s, 1, n), kind) <=> SpelledTo(s, n, kind)
<1> DEFINE u == SubSeq(s, 1, n)
<1>1. Len(s) \in Nat /\ n \in Nat /\ n <= Len(s) /\ \A i \in 1 .. Len(s) : s[i] \in Int
    OBVIOUS
<1>2. u \in Seq(Int) /\ Len(u) = n /\ \A i \in 1 .. n : u[i] = s[i]
    <2>1. \A i \in 1 .. n : s[i] \in Int
        BY <1>1
    <2>2. /\ u \in Seq(Int) /\ Len(u) = (IF 1 <= n THEN n - 1 + 1 ELSE 0)
          /\ \A i \in 1 .. n - 1 + 1 : u[i] = s[1 + i - 1]
        BY <1>1, <2>1, SubSeqProperties
    <2> QED BY <1>1, <2>2
<1> HIDE DEF u
<1>3. Spelled(u, kind) <=> SpelledTo(u, n, kind)
    BY <1>2, SpelledIs
<1>4. SpelledTo(u, n, kind) => SpelledTo(s, n, kind)
    BY <1>1, <1>2, SameSpelling
<1>5. SpelledTo(s, n, kind) => SpelledTo(u, n, kind)
    BY <1>1, <1>2, SameSpelling
<1> QED BY <1>3, <1>4, <1>5 DEF u


-----------------------------------------------------------------------------
(* One symbol more. *)

\* The numbers that take ch to one of this kind.
Before(kind, ch) ==
    CASE kind = "START"      -> {}
      [] kind = "S1"         -> IF ch \in Sign THEN {"START"} ELSE {}
      [] kind = "INT"        -> IF ee_isdigit(ch) THEN {"START", "S1", "INT"} ELSE {}
      [] kind = "FLOAT"      -> IF ch = Point THEN {"START", "S1", "INT"}
                                ELSE IF ee_isdigit(ch) THEN {"FLOAT"} ELSE {}
      [] kind = "S2"         -> IF ch \in Exp THEN {"FLOAT"} ELSE {}
      [] kind = "EXPONENT"   -> IF ch \in Sign THEN {"S2"} ELSE {}
      [] kind = "SCIENTIFIC" -> IF ee_isdigit(ch) THEN {"EXPONENT", "SCIENTIFIC"} ELSE {}

LEMMA NextStateIs ==
    ASSUME NEW state \in States, NEW ch \in Int, NEW kind \in Kinds
    PROVE  /\ NextState(state, ch) \in States
           /\ NextState(state, ch) = kind <=> state \in Before(kind, ch)
<1>1. /\ ch = Point => ch \notin Exp /\ ch \notin Sign /\ ~ee_isdigit(ch)
      /\ ch \in Exp => ch \notin Sign /\ ~ee_isdigit(ch)
      /\ ch \in Sign => ~ee_isdigit(ch)
    BY DEF Point, Exp, Sign, ee_isdigit
<1> QED BY <1>1 DEF NextState, AfterExponent, Before, States, Kinds

LEMMA SpelledNext ==
    ASSUME NEW s \in Seq(Int), NEW n \in 0 .. Len(s) - 1, NEW kind \in Kinds
    PROVE  SpelledTo(s, n + 1, kind) <=>
               \E before \in Before(kind, s[n + 1]) : SpelledTo(s, n, before)
<1> DEFINE ch == s[n + 1]
           f == FirstDigit(s, n + 1)
<1>1. n \in Nat /\ n + 1 \in 1 .. Len(s) /\ ch \in Int
    OBVIOUS
<1>2. /\ ch = Point => ch \notin Exp /\ ch \notin Sign /\ ~ee_isdigit(ch)
      /\ ch \in Exp => ch \notin Sign /\ ~ee_isdigit(ch)
      /\ ch \in Sign => ~ee_isdigit(ch)
    <2> HIDE DEF ch
    <2> QED BY <1>1 DEF Point, Exp, Sign, ee_isdigit
<1>3. /\ f \in 1 .. 2 /\ (n > 0 => FirstDigit(s, n) = f)
      /\ n = 0 => FirstDigit(s, n) = 1 /\ (f = 2 <=> ch \in Sign)
    BY <1>1 DEF FirstDigit
<1> HIDE DEF f, ch
\* The digits, and the mantissas, up to n + 1 and up to n.
<1>4. ASSUME NEW a \in Nat, a <= n + 1 PROVE DigitsIn(s, a, n + 1) <=> DigitsIn(s, a, n) /\ ee_isdigit(ch)
    <2>1. \A i \in Int : i \in a .. n + 1 <=> i \in a .. n \/ i = n + 1
        BY <1>1, <1>4
    <2>2. n + 1 \in a .. n + 1
        BY <1>1, <1>4
    <2> QED BY <2>1, <2>2 DEF DigitsIn, ch
<1>5. MantissaTo(s, f, n + 1) <=> \/ f <= n + 1 /\ ch = Point /\ DigitsIn(s, f, n)
                                  \/ ee_isdigit(ch) /\ MantissaTo(s, f, n)
    <2>1. ASSUME NEW d \in f .. n + 1, d # n + 1
          PROVE  d \in f .. n /\ (DigitsIn(s, d + 1, n + 1) <=> DigitsIn(s, d + 1, n) /\ ee_isdigit(ch))
        <3>1. d \in f .. n /\ d + 1 \in Nat /\ d + 1 <= n + 1
            BY <1>1, <1>3, <2>1
        <3> QED BY <1>4, <3>1
    <2>2. DigitsIn(s, (n + 1) + 1, n + 1) /\ (n + 1) - 1 = n
        BY <1>1 DEF DigitsIn
    <2>3. f <= n + 1 <=> n + 1 \in f .. n + 1
        BY <1>1, <1>3
    <2>4. \A d \in f .. n : d \in f .. n + 1 /\ d # n + 1
        BY <1>1, <1>3
    <2>5. ASSUME MantissaTo(s, f, n + 1)
          PROVE  \/ f <= n + 1 /\ ch = Point /\ DigitsIn(s, f, n)
                 \/ ee_isdigit(ch) /\ MantissaTo(s, f, n)
        <3>1. PICK d \in f .. n + 1 : s[d] = Point /\ DigitsIn(s, f, d - 1) /\ DigitsIn(s, d + 1, n + 1)
            BY <2>5 DEF MantissaTo
        <3>2. CASE d = n + 1
            BY <2>2, <2>3, <3>1, <3>2 DEF ch
        <3>3. CASE d # n + 1
            BY <2>1, <3>1, <3>3 DEF MantissaTo
        <3> QED BY <3>2, <3>3
    <2>6. ASSUME f <= n + 1, ch = Point, DigitsIn(s, f, n) PROVE MantissaTo(s, f, n + 1)
        <3>1. s[n + 1] = Point /\ DigitsIn(s, f, (n + 1) - 1) /\ DigitsIn(s, (n + 1) + 1, n + 1)
            BY <2>2, <2>6 DEF ch
        <3> QED BY <2>3, <2>6, <3>1 DEF MantissaTo
    <2>7. ASSUME ee_isdigit(ch), MantissaTo(s, f, n) PROVE MantissaTo(s, f, n + 1)
        <3>1. PICK d \in f .. n : s[d] = Point /\ DigitsIn(s, f, d - 1) /\ DigitsIn(s, d + 1, n)
            BY <2>7 DEF MantissaTo
        <3>2. d \in f .. n + 1 /\ DigitsIn(s, d + 1, n + 1)
            BY <2>1, <2>4, <2>7, <3>1
        <3> QED BY <3>1, <3>2 DEF MantissaTo
    <2> QED BY <2>5, <2>6, <2>7
<1>6. \A b \in Int : b < f => ~MantissaTo(s, f, b)
    BY <1>3 DEF MantissaTo
<1>7. DigitsIn(s, 2, 1) /\ DigitsIn(s, 1, 0)
    BY DEF DigitsIn
<1>8. CASE kind = "START"
    BY <1>1, <1>8 DEF SpelledTo, Before
<1>9. CASE kind = "S1"
    <2>1. SpelledTo(s, n + 1, kind) <=> n = 0 /\ f = 2
        BY <1>1, <1>9 DEF SpelledTo, f
    <2>2. SpelledTo(s, n, "START") <=> n = 0
        BY DEF SpelledTo
    <2> QED BY <1>3, <1>9, <2>1, <2>2 DEF Before, ch
<1>10. (n + 1 >= f /\ DigitsIn(s, f, n)) /\ (n = 0 => f = 1) <=>
           (SpelledTo(s, n, "START") /\ f = 1) \/ SpelledTo(s, n, "S1") \/ SpelledTo(s, n, "INT")
    <2>1. /\ SpelledTo(s, n, "START") <=> n = 0
          /\ SpelledTo(s, n, "S1") <=> n = 1 /\ FirstDigit(s, n) = 2
          /\ SpelledTo(s, n, "INT") <=> n >= FirstDigit(s, n) /\ DigitsIn(s, FirstDigit(s, n), n)
        BY DEF SpelledTo
    <2>2. CASE n = 0
        <3>1. ~(n = 1) /\ ~(n >= 1) /\ n + 1 >= 1
            BY <2>2
        <3> QED BY <1>3, <1>7, <2>1, <2>2, <3>1
    <2>3. CASE n > 0
        <3>1. FirstDigit(s, n) = f /\ n + 1 >= f /\ n # 0
            <4>1. f = 1 \/ f = 2
                BY <1>3
            <4>2. n + 1 >= f /\ n # 0
                BY <1>1, <2>3, <4>1
            <4> QED BY <1>3, <2>3, <4>2
        <3>2. n >= f \/ (n = 1 /\ f = 2)
            <4>1. n \in Nat /\ n >= 1 /\ (n = 1 \/ n >= 2)
                BY <1>1, <2>3
            <4>2. f = 1 \/ f = 2
                BY <1>3
            <4>3. CASE f = 1
                BY <4>1, <4>3
            <4>4. CASE f = 2
                BY <4>1, <4>4
            <4> QED BY <4>2, <4>3, <4>4
        <3>3. n = 1 /\ f = 2 => DigitsIn(s, f, n)
            BY <1>7
        <3>4. /\ ~SpelledTo(s, n, "START")
              /\ SpelledTo(s, n, "S1") <=> n = 1 /\ f = 2
              /\ SpelledTo(s, n, "INT") <=> n >= f /\ DigitsIn(s, f, n)
            BY <2>1, <3>1
        <3> QED BY <3>1, <3>2, <3>3, <3>4
    <2> QED BY <1>1, <2>2, <2>3
<1>11. CASE kind = "INT"
    <2>1. SpelledTo(s, n + 1, kind) <=> n + 1 >= f /\ DigitsIn(s, f, n) /\ ee_isdigit(ch)
        <3>1. SpelledTo(s, n + 1, kind) <=> n + 1 >= f /\ DigitsIn(s, f, n + 1)
            BY <1>11 DEF SpelledTo, f
        <3>2. f \in Nat /\ (n + 1 >= f => f <= n + 1)
            BY <1>1, <1>3
        <3> QED BY <1>4, <3>1, <3>2
    <2>2. ee_isdigit(ch) => (n = 0 => f = 1)
        BY <1>2, <1>3
    <2>3. (\E before \in Before(kind, ch) : SpelledTo(s, n, before)) <=>
              ee_isdigit(ch) /\ (SpelledTo(s, n, "START") \/ SpelledTo(s, n, "S1") \/ SpelledTo(s, n, "INT"))
        BY <1>11 DEF Before
    <2>4. SpelledTo(s, n, "START") => n = 0
        BY DEF SpelledTo
    <2> QED BY <1>10, <2>1, <2>2, <2>3, <2>4 DEF ch
<1>12. CASE kind = "FLOAT"
    <2>1. SpelledTo(s, n + 1, kind) <=> \/ f <= n + 1 /\ ch = Point /\ DigitsIn(s, f, n)
                                        \/ ee_isdigit(ch) /\ MantissaTo(s, f, n)
        BY <1>5, <1>12 DEF SpelledTo, f
    <2>2. ch = Point => (n = 0 => f = 1)
        BY <1>2, <1>3
    <2>3. (\E before \in Before(kind, ch) : SpelledTo(s, n, before)) <=>
              \/ ch = Point /\ (SpelledTo(s, n, "START") \/ SpelledTo(s, n, "S1") \/ SpelledTo(s, n, "INT"))
              \/ ee_isdigit(ch) /\ SpelledTo(s, n, "FLOAT")
        BY <1>2, <1>12 DEF Before
    <2>4. SpelledTo(s, n, "FLOAT") <=> MantissaTo(s, f, n)
        <3>1. CASE n > 0
            BY <1>3, <3>1 DEF SpelledTo
        <3>2. CASE n = 0
            BY <1>3, <1>6, <3>2 DEF SpelledTo, MantissaTo
        <3> QED BY <1>1, <3>1, <3>2
    <2>5. f <= n + 1 <=> n + 1 >= f
        BY <1>1, <1>3
    <2>6. SpelledTo(s, n, "START") => n = 0
        BY DEF SpelledTo
    <2> QED BY <1>10, <2>1, <2>2, <2>3, <2>4, <2>5, <2>6 DEF ch
<1>13. CASE kind = "S2"
    <2>1. SpelledTo(s, n + 1, kind) <=> MantissaTo(s, f, n) /\ ch \in Exp
        <3>1. n + 1 > 0 /\ (n + 1) - 1 = n
            BY <1>1
        <3> QED BY <1>13, <3>1 DEF SpelledTo, f, ch
    <2>2. SpelledTo(s, n, "FLOAT") <=> MantissaTo(s, f, n)
        <3>1. CASE n > 0
            BY <1>3, <3>1 DEF SpelledTo
        <3>2. CASE n = 0
            BY <1>3, <1>6, <3>2 DEF SpelledTo, MantissaTo
        <3> QED BY <1>1, <3>1, <3>2
    <2> QED BY <1>13, <2>1, <2>2 DEF Before, ch
<1>14. CASE kind = "EXPONENT"
    <2>1. n + 1 > 0 /\ (n + 1) - 1 = n
        BY <1>1
    <2>2. SpelledTo(s, n + 1, kind) <=> MantissaTo(s, f, n - 1) /\ s[n] \in Exp /\ ch \in Sign
        BY <1>14, <2>1 DEF SpelledTo, ExponentAt, f, ch
    <2>3. SpelledTo(s, n, "S2") <=> MantissaTo(s, f, n - 1) /\ s[n] \in Exp
        <3>1. CASE n > 0
            BY <1>3, <3>1 DEF SpelledTo
        <3>2. CASE n = 0
            BY <1>3, <1>6, <3>2 DEF SpelledTo
        <3> QED BY <1>1, <3>1, <3>2
    <2> QED BY <1>14, <2>2, <2>3 DEF Before, ch
<1>15. CASE kind = "SCIENTIFIC"
    <2>1. ASSUME NEW e \in 2 .. n - 1
          PROVE  /\ DigitsIn(s, e + 2, n + 1) <=> DigitsIn(s, e + 2, n) /\ ee_isdigit(ch)
                 /\ n > 0 /\ (e \in 2 .. n - 2 \/ e = n - 1)
        <3>1. e + 2 \in Nat /\ e + 2 <= n + 1
            BY <1>1
        <3> QED BY <1>1, <1>4, <3>1
    <2>2. DigitsIn(s, (n - 1) + 2, n) /\ (n + 1) - 2 = n - 1
        BY <1>1 DEF DigitsIn
    <2>3. SpelledTo(s, n + 1, kind) <=> \E e \in 2 .. n - 1 : ExponentAt(s, f, e) /\ DigitsIn(s, e + 2, n + 1)
        BY <1>15, <2>2 DEF SpelledTo, f
    <2>4. SpelledTo(s, n + 1, kind) <=>
              \E e \in 2 .. n - 1 : ExponentAt(s, f, e) /\ DigitsIn(s, e + 2, n) /\ ee_isdigit(ch)
        BY <2>1, <2>3
    <2>5. SpelledTo(s, n, "SCIENTIFIC") <=> \E e \in 2 .. n - 2 : ExponentAt(s, f, e) /\ DigitsIn(s, e + 2, n)
        <3>1. CASE n > 0
            BY <1>3, <3>1 DEF SpelledTo
        <3>2. CASE n = 0
            BY <3>2 DEF SpelledTo
        <3> QED BY <1>1, <3>1, <3>2
    <2>6. SpelledTo(s, n, "EXPONENT") <=> n - 1 \in 2 .. n - 1 /\ ExponentAt(s, f, n - 1)
        <3>1. SpelledTo(s, n, "EXPONENT") <=> n > 0 /\ ExponentAt(s, f, n - 1)
            <4>1. CASE n > 0
                BY <1>3, <4>1 DEF SpelledTo
            <4>2. CASE n = 0
                BY <4>2 DEF SpelledTo
            <4> QED BY <1>1, <4>1, <4>2
        <3>2. ExponentAt(s, f, n - 1) => f <= n - 2
            BY <1>1, <1>3, <1>6 DEF ExponentAt
        <3> QED BY <1>1, <1>3, <3>1, <3>2
    <2>7. \A e \in 2 .. n - 2 : e \in 2 .. n - 1
        BY <1>1
    <2>8. (\E e \in 2 .. n - 1 : ExponentAt(s, f, e) /\ DigitsIn(s, e + 2, n)) <=>
              SpelledTo(s, n, "EXPONENT") \/ SpelledTo(s, n, "SCIENTIFIC")
        BY <2>1, <2>2, <2>5, <2>6, <2>7
    <2> QED BY <1>15, <2>4, <2>8 DEF Before, ch
<1> QED BY <1>8, <1>9, <1>11, <1>12, <1>13, <1>14, <1>15 DEF Kinds, States

-----------------------------------------------------------------------------
(* The scan. *)

\* The walk satisfies its equation.
LEMMA WalkIs ==
    ASSUME NEW s \in Seq(Int), NEW p \in 1 .. Len(s) + 1
    PROVE  LET walk == Walk(s, p)
           IN  \A n \in 0 .. Len(s) + 1 - p :
                   /\ walk[n] \in States
                   /\ walk[n] = IF n = 0 THEN "START" ELSE NextState(walk[n - 1], s[p + n - 1])
<1> DEFINE N == Len(s) + 1 - p
           At(g, n) == IF n = 0 THEN "START" ELSE NextState(g[n - 1], s[p + n - 1])
           walk == CHOOSE g : g = [n \in 0 .. N |-> At(g, n)]
           S == {m \in Nat : m <= N => \E g \in [0 .. m -> States] : \A n \in 0 .. m : g[n] = At(g, n)}
<1>1. N \in Nat /\ \A n \in 1 .. N : p + n - 1 \in 1 .. Len(s)
    OBVIOUS
<1>2. walk = Walk(s, p)
    BY DEF Walk
<1>3. \A n \in 1 .. N : s[p + n - 1] \in Int
    BY <1>1
<1> HIDE DEF N
<1>4. 0 \in S
    <2>1. \A n \in 0 .. 0 : n = 0
        OBVIOUS
    <2> DEFINE g == [n \in 0 .. 0 |-> "START"]
    <2>2. g \in [0 .. 0 -> States] /\ \A n \in 0 .. 0 : g[n] = At(g, n)
        BY <2>1 DEF States
    <2> QED BY <2>2
<1>5. ASSUME NEW m \in Nat, m \in S PROVE m + 1 \in S
    <2> SUFFICES ASSUME m + 1 <= N
                 PROVE  \E g \in [0 .. m + 1 -> States] : \A n \in 0 .. m + 1 : g[n] = At(g, n)
        OBVIOUS
    <2>1. PICK g \in [0 .. m -> States] : \A n \in 0 .. m : g[n] = At(g, n)
        BY <1>1, <1>5
    <2> DEFINE next == NextState(g[m], s[p + (m + 1) - 1])
               h == [n \in 0 .. m + 1 |-> IF n = m + 1 THEN next ELSE g[n]]
    <2>2. next \in States
        <3>1. g[m] \in States
            BY <2>1
        <3>2. s[p + (m + 1) - 1] \in Int
            <4>1. m + 1 \in 1 .. N
                BY <1>1
            <4> QED BY <1>3, <4>1
        <3>3. "START" \in Kinds
            BY DEF Kinds, States
        <3> QED BY <3>1, <3>2, <3>3, NextStateIs
    <2>3. \A n \in 0 .. m + 1 : n = m + 1 \/ n \in 0 .. m
        OBVIOUS
    <2>4. ASSUME NEW n \in 0 .. m + 1 PROVE h[n] = At(h, n)
        <3>1. CASE n = m + 1
            <4>1. n # 0 /\ n - 1 = m /\ m \in 0 .. m + 1 /\ m # m + 1
                BY <3>1
            <4>2. h[n] = next /\ h[n - 1] = g[m]
                BY <3>1, <4>1
            <4> HIDE DEF h
            <4> QED BY <3>1, <4>1, <4>2
        <3>2. CASE n \in 0 .. m
            <4>1. n # m + 1 /\ h[n] = g[n]
                BY <3>2
            <4>2. n # 0 => n - 1 \in 0 .. m + 1 /\ n - 1 # m + 1
                BY <3>2
            <4>3. n # 0 => h[n - 1] = g[n - 1]
                BY <4>2
            <4>4. g[n] = At(g, n)
                BY <2>1, <3>2
            <4> HIDE DEF h
            <4> QED BY <4>1, <4>3, <4>4
        <3> QED BY <2>3, <3>1, <3>2
    <2>5. h \in [0 .. m + 1 -> States]
        BY <2>1, <2>2, <2>3
    <2> HIDE DEF h
    <2> QED BY <2>4, <2>5
<1>6. N \in S
    <2> HIDE DEF S
    <2>1. \A n \in Nat : n \in S
        BY <1>4, <1>5, Induction
    <2> QED BY <1>1, <2>1
<1>7. PICK g \in [0 .. N -> States] : \A n \in 0 .. N : g[n] = At(g, n)
    BY <1>1, <1>6
<1>8. g = [n \in 0 .. N |-> At(g, n)]
    BY <1>7
<1>9. walk = [n \in 0 .. N |-> At(walk, n)]
    BY <1>8
<1> HIDE DEF walk
<1>10. ASSUME NEW n \in 0 .. N PROVE walk[n] = At(walk, n)
    BY <1>9
<1>11. \A n \in Nat : n <= N => walk[n] \in States
    <2> DEFINE T == {n \in Nat : n <= N => walk[n] \in States}
    <2>1. 0 \in T
        BY <1>1, <1>10 DEF States
    <2>2. ASSUME NEW n \in Nat, n \in T PROVE n + 1 \in T
        <3> SUFFICES ASSUME n + 1 <= N PROVE walk[n + 1] \in States
            OBVIOUS
        <3>1. n + 1 \in 0 .. N /\ n + 1 \in 1 .. N /\ n + 1 # 0 /\ (n + 1) - 1 = n /\ n <= N
            BY <1>1
        <3> DEFINE ch == s[p + (n + 1) - 1]
        <3>2. walk[n] \in States /\ ch \in Int
            BY <1>3, <2>2, <3>1
        <3>3. walk[n + 1] = NextState(walk[n], ch)
            BY <1>10, <3>1
        <3>4. NextState(walk[n], ch) \in States
            <4>1. "START" \in Kinds
                BY DEF Kinds, States
            <4> HIDE DEF ch
            <4> QED BY <3>2, <4>1, NextStateIs
        <3> HIDE DEF ch
        <3> QED BY <3>3, <3>4
    <2> HIDE DEF T
    <2>3. \A n \in Nat : n \in T
        BY <2>1, <2>2, Induction
    <2> QED BY <2>3 DEF T
<1> QED BY <1>1, <1>2, <1>10, <1>11 DEF N

\* After n symbols the state is the kind of number they spell.
LEMMA WalkSpells ==
    ASSUME NEW s \in Seq(Int)
    PROVE  LET walk == Walk(s, 1)
           IN  \A n \in 0 .. Len(s), kind \in Kinds : walk[n] = kind <=> SpelledTo(s, n, kind)
<1> DEFINE walk == Walk(s, 1)
           N == Len(s)
           S == {n \in Nat : n <= N => \A kind \in Kinds : walk[n] = kind <=> SpelledTo(s, n, kind)}
<1>1. N \in Nat /\ N + 1 - 1 = N /\ 1 \in 1 .. N + 1
    OBVIOUS
<1>2. \A n \in 0 .. N : /\ walk[n] \in States
                        /\ walk[n] = IF n = 0 THEN "START" ELSE NextState(walk[n - 1], s[1 + n - 1])
    BY <1>1, WalkIs
<1> HIDE DEF walk
<1>3. 0 \in S
    <2>1. walk[0] = "START"
        BY <1>1, <1>2
    <2>2. ASSUME NEW n \in Nat, n = 0, NEW kind \in Kinds PROVE kind = "START" <=> SpelledTo(s, n, kind)
        <3>1. FirstDigit(s, n) = 1 /\ ~(n > 0) /\ n # 1 /\ ~(n >= 1)
            BY <2>2 DEF FirstDigit
        <3>2. ~MantissaTo(s, 1, n)
            BY <2>2 DEF MantissaTo
        <3>3. \A e \in 2 .. n - 2 : FALSE
            BY <2>2
        <3>4. CASE kind = "START"
            BY <2>2, <3>4 DEF SpelledTo
        <3>5. CASE kind \in {"S1", "INT"}
            BY <3>1, <3>5 DEF SpelledTo
        <3>6. CASE kind \in {"FLOAT", "S2", "EXPONENT"}
            BY <3>1, <3>2, <3>6 DEF SpelledTo
        <3>7. CASE kind = "SCIENTIFIC"
            BY <3>3, <3>7 DEF SpelledTo
        <3> QED BY <3>4, <3>5, <3>6, <3>7 DEF Kinds, States
    <2> QED BY <2>1, <2>2
<1>4. ASSUME NEW n \in Nat, n \in S PROVE n + 1 \in S
    <2> SUFFICES ASSUME n + 1 <= N, NEW kind \in Kinds
                 PROVE  walk[n + 1] = kind <=> SpelledTo(s, n + 1, kind)
        OBVIOUS
    <2>1. /\ n \in 0 .. N /\ n \in 0 .. N - 1 /\ n + 1 \in 0 .. N /\ n + 1 # 0 /\ (n + 1) - 1 = n
          /\ 1 + (n + 1) - 1 = n + 1 /\ n + 1 \in 1 .. N /\ n <= N
        BY <1>1
    <2>2. walk[n + 1] = NextState(walk[n], s[n + 1]) /\ walk[n] \in States /\ s[n + 1] \in Int
        BY <1>2, <2>1
    <2>3. walk[n + 1] = kind <=> walk[n] \in Before(kind, s[n + 1])
        BY <2>2, NextStateIs
    <2>4. \A before \in Before(kind, s[n + 1]) : before \in Kinds
        BY DEF Before, Kinds, States
    <2>5. \A before \in Kinds : walk[n] = before <=> SpelledTo(s, n, before)
        BY <1>4, <2>1
    <2>6. SpelledTo(s, n + 1, kind) <=> \E before \in Before(kind, s[n + 1]) : SpelledTo(s, n, before)
        BY <2>1, SpelledNext
    <2> QED BY <2>3, <2>4, <2>5, <2>6
<1> HIDE DEF S
<1>5. \A n \in Nat : n \in S
    BY <1>3, <1>4, Induction
<1> QED BY <1>1, <1>5 DEF S, walk

\* A prefix without its last member.
LEMMA PrefixOfPrefix ==
    ASSUME NEW s \in Seq(Int), NEW n \in 1 .. Len(s)
    PROVE  SubSeq(SubSeq(s, 1, n), 1, Len(SubSeq(s, 1, n)) - 1) = SubSeq(s, 1, n - 1)
<1> DEFINE u == SubSeq(s, 1, n)
           v == SubSeq(u, 1, n - 1)
           w == SubSeq(s, 1, n - 1)
<1>1. Len(s) \in Nat /\ n \in Nat /\ n <= Len(s) /\ n >= 1 /\ \A i \in 1 .. Len(s) : s[i] \in Int
    OBVIOUS
<1>2. u \in Seq(Int) /\ Len(u) = n /\ \A i \in 1 .. n : u[i] = s[i]
    <2>1. \A i \in 1 .. n : s[i] \in Int
        BY <1>1
    <2>2. /\ u \in Seq(Int) /\ Len(u) = (IF 1 <= n THEN n - 1 + 1 ELSE 0)
          /\ \A i \in 1 .. n - 1 + 1 : u[i] = s[1 + i - 1]
        BY <1>1, <2>1, SubSeqProperties
    <2> QED BY <1>1, <2>2
<1>3. w \in Seq(Int) /\ Len(w) = n - 1 /\ \A i \in 1 .. n - 1 : w[i] = s[i]
    <2>1. \A i \in 1 .. n - 1 : s[i] \in Int
        BY <1>1
    <2>2. /\ w \in Seq(Int) /\ Len(w) = (IF 1 <= n - 1 THEN n - 1 - 1 + 1 ELSE 0)
          /\ \A i \in 1 .. n - 1 - 1 + 1 : w[i] = s[1 + i - 1]
        BY <1>1, <2>1, SubSeqProperties
    <2> QED BY <1>1, <2>2
<1> HIDE DEF u
<1>4. v \in Seq(Int) /\ Len(v) = n - 1 /\ \A i \in 1 .. n - 1 : v[i] = u[i]
    <2>1. \A i \in 1 .. n - 1 : u[i] \in Int
        BY <1>1, <1>2
    <2>2. /\ v \in Seq(Int) /\ Len(v) = (IF 1 <= n - 1 THEN n - 1 - 1 + 1 ELSE 0)
          /\ \A i \in 1 .. n - 1 - 1 + 1 : v[i] = u[1 + i - 1]
        BY <1>1, <1>2, <2>1, SubSeqProperties
    <2> QED BY <1>1, <2>2
<1> HIDE DEF v, w
<1>5. v = w
    <2>1. \A i \in 1 .. n - 1 : v[i] = w[i]
        <3>1. \A i \in 1 .. n - 1 : i \in 1 .. n
            BY <1>1
        <3> QED BY <1>2, <1>3, <1>4, <3>1
    <2> QED BY <1>3, <1>4, <2>1, SeqEqual
<1> QED BY <1>2, <1>5 DEF u, v, w

-----------------------------------------------------------------------------
(* The token. *)

\* The scan ends: there is a first place where it stops.
LEMMA FirstStop ==
    ASSUME NEW s \in Seq(Int), NEW walk
    PROVE  \E n \in 0 .. Len(s) : Stops(s, 1, walk, n) /\ \A l \in 0 .. n - 1 : ~Stops(s, 1, walk, l)
<1> DEFINE N == Len(s)
           S == {n \in Nat : n <= N => \A l \in 0 .. n : ~Stops(s, 1, walk, l)}
<1>1. N \in Nat
    OBVIOUS
<1>2. Stops(s, 1, walk, N)
    BY <1>1 DEF Stops, AtEnd
<1> SUFFICES ASSUME \A n \in 0 .. N : Stops(s, 1, walk, n) => \E l \in 0 .. n - 1 : Stops(s, 1, walk, l)
             PROVE  FALSE
    OBVIOUS
<1> HIDE DEF N
<1>3. 0 \in S
    <2>1. 0 \in 0 .. N /\ \A l \in 0 .. 0 - 1 : FALSE
        BY <1>1
    <2>2. \A l \in 0 .. 0 : l = 0
        OBVIOUS
    <2>3. ~Stops(s, 1, walk, 0)
        BY <2>1
    <2> QED BY <2>2, <2>3
<1>4. ASSUME NEW n \in Nat, n \in S PROVE n + 1 \in S
    <2> SUFFICES ASSUME n + 1 <= N, NEW l \in 0 .. n + 1 PROVE ~Stops(s, 1, walk, l)
        OBVIOUS
    <2>1. n <= N /\ n + 1 \in 0 .. N /\ (n + 1) - 1 = n /\ (l \in 0 .. n \/ l = n + 1)
        BY <1>1
    <2>2. \A m \in 0 .. n : ~Stops(s, 1, walk, m)
        BY <1>4, <2>1
    <2>3. ~Stops(s, 1, walk, n + 1)
        BY <2>1, <2>2
    <2> QED BY <2>1, <2>2, <2>3
<1>5. N \in S
    <2> HIDE DEF S
    <2>1. \A n \in Nat : n \in S
        BY <1>3, <1>4, Induction
    <2> QED BY <1>1, <2>1
<1> QED BY <1>1, <1>2, <1>5

\* What core_state_transition returns, of the place where it stops.
LEMMA TokenIs ==
    ASSUME NEW s \in Seq(Int)
    PROVE  LET walk == Walk(s, 1)
               t    == core_state_transition(s, 1)
           IN  \E n \in 0 .. Len(s) :
                   /\ Stops(s, 1, walk, n) /\ \A l \in 0 .. n - 1 : ~Stops(s, 1, walk, l)
                   /\ t.state = walk[n]
                   /\ AtEnd(s, 1 + n) \/ walk[n] = "INVALID" => t.p = 1 + n
                   /\ ~(AtEnd(s, 1 + n) \/ walk[n] = "INVALID") => t.p = 1 + n + 1
<1> DEFINE walk == Walk(s, 1)
           n == CHOOSE m \in 0 .. Len(s) + 1 - 1 :
                    Stops(s, 1, walk, m) /\ \A l \in 0 .. m - 1 : ~Stops(s, 1, walk, l)
           over == AtEnd(s, 1 + n) \/ walk[n] = "INVALID"
           counts == TransitionCounts([i \in 1 .. n + 1 |-> walk[i - 1]])
           t == [p |-> IF over THEN 1 + n ELSE 1 + n + 1, state |-> walk[n], counts |-> counts]
<1>1. core_state_transition(s, 1) = t
    BY DEF core_state_transition
<1>2. Len(s) + 1 - 1 = Len(s)
    OBVIOUS
<1>3. n \in 0 .. Len(s) /\ Stops(s, 1, walk, n) /\ \A l \in 0 .. n - 1 : ~Stops(s, 1, walk, l)
    <2> HIDE DEF walk
    <2> QED BY <1>2, FirstStop
<1> HIDE DEF n, walk, counts
<1>4. t.state = walk[n] /\ (over => t.p = 1 + n) /\ (~over => t.p = 1 + n + 1)
    OBVIOUS
<1> HIDE DEF t
<1> QED BY <1>1, <1>3, <1>4 DEF walk

\* TokensExact of one text and what the scan of it returns.
ExactToken(s, t) ==
    LET ended == t.p > 1 /\ s[t.p - 1] = Comma /\ t.state # "INVALID"
        u     == SubSeq(s, 1, IF ended THEN t.p - 2 ELSE t.p - 1)
    IN  /\ \A kind \in Kinds : t.state = kind <=> Spelled(u, kind)
        /\ t.state = "INVALID" => \E kind \in Kinds : Spelled(SubSeq(u, 1, Len(u) - 1), kind)
        /\ t.state # "INVALID" /\ ~ended => AtEnd(s, t.p)

LEMMA TokenIsExact ==
    ASSUME NEW s \in Seq(Int)
    PROVE  ExactToken(s, core_state_transition(s, 1))
<1> DEFINE walk == Walk(s, 1)
           t == core_state_transition(s, 1)
           ended == t.p > 1 /\ s[t.p - 1] = Comma /\ t.state # "INVALID"
           last == IF ended THEN t.p - 2 ELSE t.p - 1
<1>1. PICK n \in 0 .. Len(s) :
          /\ Stops(s, 1, walk, n) /\ \A l \in 0 .. n - 1 : ~Stops(s, 1, walk, l)
          /\ t.state = walk[n]
          /\ AtEnd(s, 1 + n) \/ walk[n] = "INVALID" => t.p = 1 + n
          /\ ~(AtEnd(s, 1 + n) \/ walk[n] = "INVALID") => t.p = 1 + n + 1
    BY TokenIs
<1>2. \A m \in 0 .. Len(s), kind \in Kinds : walk[m] = kind <=> SpelledTo(s, m, kind)
    BY WalkSpells
<1>3. \A m \in 0 .. Len(s) : walk[m] \in States /\ (m = 0 => walk[m] = "START")
    <2>1. 1 \in 1 .. Len(s) + 1 /\ Len(s) + 1 - 1 = Len(s)
        OBVIOUS
    <2> QED BY <2>1, WalkIs
<1>4. n \in Nat /\ Len(s) \in Nat /\ n <= Len(s)
    BY <1>1
<1> HIDE DEF walk, t
<1>5. n > 0 => /\ n - 1 \in 0 .. n - 1 /\ n - 1 \in 0 .. Len(s) /\ 1 + (n - 1) = n
               /\ walk[n - 1] # "INVALID" /\ s[n] # Comma
    <2> SUFFICES ASSUME n > 0
                 PROVE  /\ n - 1 \in 0 .. n - 1 /\ n - 1 \in 0 .. Len(s) /\ 1 + (n - 1) = n
                        /\ walk[n - 1] # "INVALID" /\ s[n] # Comma
        OBVIOUS
    <2>1. n - 1 \in 0 .. n - 1 /\ n - 1 \in 0 .. Len(s) /\ 1 + (n - 1) = n
        BY <1>4
    <2>2. ~Stops(s, 1, walk, n - 1)
        BY <1>1, <2>1
    <2> QED BY <2>1, <2>2 DEF Stops
\* The n symbols scanned are the token.
<1>6. /\ last = n
      /\ t.state # "INVALID" /\ ~ended => AtEnd(s, t.p)
    <2>1. CASE walk[n] = "INVALID"
        <3>1. t.p = 1 + n /\ t.state = "INVALID" /\ (1 + n) - 1 = n
            BY <1>1, <1>4, <2>1
        <3> QED BY <3>1
    <2>2. CASE walk[n] # "INVALID" /\ AtEnd(s, 1 + n)
        <3>1. t.p = 1 + n /\ (1 + n) - 1 = n /\ (1 + n > 1 <=> n > 0)
            BY <1>1, <1>4, <2>2
        <3>2. ~ended
            BY <1>5, <3>1
        <3> QED BY <2>2, <3>1, <3>2
    <2>3. CASE walk[n] # "INVALID" /\ ~AtEnd(s, 1 + n)
        <3>1. t.p = 1 + n + 1 /\ (1 + n + 1) - 1 = 1 + n /\ (1 + n + 1) - 2 = n /\ 1 + n + 1 > 1
            BY <1>1, <1>4, <2>3
        <3>2. s[1 + n] = Comma /\ t.state # "INVALID"
            BY <1>1, <2>3 DEF Stops
        <3>3. ended
            BY <3>1, <3>2
        <3> QED BY <3>1, <3>3
    <2> QED BY <2>1, <2>2, <2>3
<1> DEFINE u == SubSeq(s, 1, n)
<1>7. \A kind \in Kinds : t.state = kind <=> Spelled(u, kind)
    <2>1. ASSUME NEW kind \in Kinds PROVE t.state = kind <=> Spelled(u, kind)
        <3>1. Spelled(u, kind) <=> SpelledTo(s, n, kind)
            BY SpelledPrefix
        <3> QED BY <1>1, <1>2, <3>1
    <2> QED BY <2>1
<1>8. t.state = "INVALID" => \E kind \in Kinds : Spelled(SubSeq(u, 1, Len(u) - 1), kind)
    <2> SUFFICES ASSUME t.state = "INVALID"
                 PROVE  \E kind \in Kinds : Spelled(SubSeq(u, 1, Len(u) - 1), kind)
        OBVIOUS
    <2>1. n > 0
        BY <1>1, <1>3, <1>4
    <2>2. walk[n - 1] \in Kinds
        BY <1>3, <1>5, <2>1 DEF Kinds
    <2>3. Spelled(SubSeq(s, 1, n - 1), walk[n - 1])
        <3>1. SpelledTo(s, n - 1, walk[n - 1])
            BY <1>2, <1>5, <2>1, <2>2
        <3> QED BY <1>5, <2>1, <2>2, <3>1, SpelledPrefix
    <2>4. SubSeq(u, 1, Len(u) - 1) = SubSeq(s, 1, n - 1)
        BY <1>4, <2>1, PrefixOfPrefix
    <2> QED BY <2>2, <2>3, <2>4
<1> HIDE DEF last, ended, u
<1>9. /\ \A kind \in Kinds : t.state = kind <=> Spelled(SubSeq(s, 1, last), kind)
      /\ t.state = "INVALID" =>
             \E kind \in Kinds : Spelled(SubSeq(SubSeq(s, 1, last), 1, Len(SubSeq(s, 1, last)) - 1), kind)
    BY <1>6, <1>7, <1>8 DEF u
<1> QED BY <1>6, <1>9 DEF ExactToken, last, ended, t

-----------------------------------------------------------------------------
(* The theorem. *)

TextInv == /\ text \in TextInputs
           /\ token = NoToken \/ token = core_state_transition(text, 1)

LEMMA TextInvInductive == TextSpec => []TextInv
<1>1. TextInit => TextInv
    BY DEF TextInit, TextInv
<1>2. TextInv /\ [Recognise]_textVars => TextInv'
    BY DEF TextInv, Recognise, textVars
<1> QED BY <1>1, <1>2, PTL DEF TextSpec

\* Of every text the scan finds a token of the kind the grammar of numbers
\* says, for it ends at a comma, at the NUL or behind the first symbol that fits
\* no number (core_state.c:192-270).
THEOREM TokensAlwaysExact == TextSpec => []TokensExact
<1>1. TextInv => TokensExact
    <2> SUFFICES ASSUME TextInv, token # NoToken PROVE ExactToken(text, token)
        BY DEF TokensExact, ExactToken
    <2>1. text \in Seq(Int)
        <3>1. text \in Seq(0 .. 255)
            BY TextAssumption DEF TextInv
        <3>2. 0 .. 255 \subseteq Int
            OBVIOUS
        <3> QED BY <3>1, <3>2, SeqMonotonic
    <2>2. ExactToken(text, core_state_transition(text, 1))
        BY <2>1, TokenIsExact
    <2> QED BY <2>2 DEF TextInv
<1> QED BY <1>1, TextInvInductive, PTL

-----------------------------------------------------------------------------
(* The memory. *)

Phases == {"call", "delayed", "yielded", "blocked", "second"}

CoType ==
    [pxReadyCoRoutineLists : [CoPriorities -> [items : Seq(CoRoutines), index : Nat]],
     pxDelayed : Seq(CoRoutines), pxOverflowDelayed : Seq(CoRoutines), xPendingReady : Seq(CoRoutines),
     pxCurrentCoRoutine : CoRoutines \cup {NoCo}, uxTopCoRoutineReadyPriority : Nat,
     xCoRoutineTickCount : 0 .. CoTickMod - 1, xLastTickCount : 0 .. CoTickMod - 1,
     xPassedTicks : Nat, now : 0 .. CoTickMod - 1,
     wake : [CoRoutines -> 0 .. CoTickMod - 1], event : [CoRoutines -> Int],
     uxState : [CoRoutines -> [line : Nat, phase : Phases]],
     uxMessagesWaiting : [CoQueues -> Nat],
     toSend : [CoQueues -> Seq(CoRoutines)], toReceive : [CoQueues -> Seq(CoRoutines)],
     left : [CoRoutines -> Nat], early : BOOLEAN, skipped : SUBSET CoQueues, calls : Int]

\* What a step does not touch.
SameReady(x, y) == y.pxReadyCoRoutineLists = x.pxReadyCoRoutineLists
SameSleep(x, y) == y.pxDelayed = x.pxDelayed /\ y.pxOverflowDelayed = x.pxOverflowDelayed
SameWaits(x, y) == y.xPendingReady = x.xPendingReady /\ y.toSend = x.toSend /\ y.toReceive = x.toReceive
SameTimes(x, y) == /\ y.wake = x.wake /\ y.left = x.left /\ y.early = x.early
                   /\ y.xCoRoutineTickCount = x.xCoRoutineTickCount
SameTop(x, y)   == y.uxTopCoRoutineReadyPriority = x.uxTopCoRoutineReadyPriority
SameCo(x, y)    == y.pxCurrentCoRoutine = x.pxCurrentCoRoutine
SameState(x, y) == y.uxState = x.uxState
SameQueue(x, y) == y.uxMessagesWaiting = x.uxMessagesWaiting /\ y.skipped = x.skipped

\* No list holds a co-routine twice, and the ready lists only those of their
\* priority.
GoodLists(x) ==
    /\ \A p \in CoPriorities :
        /\ GoodReady(CoRoutines, x.pxReadyCoRoutineLists[p])
        /\ \A r \in Elements(x.pxReadyCoRoutineLists[p].items) : CoPriority[r] = p
    /\ Distinct(x.pxDelayed) /\ Distinct(x.pxOverflowDelayed) /\ Distinct(x.xPendingReady)
    /\ \A q \in CoQueues : Distinct(x.toSend[q]) /\ Distinct(x.toReceive[q])

ReadyIn(x, p)  == Elements(x.pxReadyCoRoutineLists[p].items)
ReadySet(x)    == {r \in CoRoutines : r \in ReadyIn(x, CoPriority[r])}

LEMMA ReadyIs ==
    ASSUME NEW x \in CoType, GoodLists(x), NEW r \in CoRoutines
    PROVE  /\ CoPriority[r] \in CoPriorities /\ CoPriority[r] \in Nat
           /\ InReadyCo(x, r) <=> r \in ReadySet(x)
           /\ \A p \in CoPriorities : Contains_(x.pxReadyCoRoutineLists[p], r) <=> r \in ReadyIn(x, p)
           /\ \A p \in CoPriorities : r \in ReadyIn(x, p) => p = CoPriority[r]
<1>1. CoPriority[r] \in CoPriorities /\ CoPriority[r] \in Nat
    BY CoAssumption DEF CoPriorities
<1>2. \A p \in CoPriorities : Contains_(x.pxReadyCoRoutineLists[p], r) <=> r \in ReadyIn(x, p)
    BY DEF Contains_, ReadyIn, Elements
<1>3. \A p \in CoPriorities : r \in ReadyIn(x, p) => p = CoPriority[r]
    BY DEF GoodLists, ReadyIn
<1> QED BY <1>1, <1>2, <1>3 DEF InReadyCo, ReadySet

LEMMA RemoveGenericIs ==
    ASSUME NEW x \in CoType, GoodLists(x), NEW r \in CoRoutines
    PROVE  LET y == RemoveGeneric(x, r)
           IN  /\ y \in CoType /\ GoodLists(y)
               /\ \A p \in CoPriorities : ReadyIn(y, p) = ReadyIn(x, p) \ {r}
               /\ Elements(y.pxDelayed) = Elements(x.pxDelayed) \ {r}
               /\ Elements(y.pxOverflowDelayed) = Elements(x.pxOverflowDelayed) \ {r}
               /\ \A v \in [CoRoutines -> Int] : SortedBy(x.pxDelayed, v) => SortedBy(y.pxDelayed, v)
               /\ \A v \in [CoRoutines -> Int] : SortedBy(x.pxOverflowDelayed, v) => SortedBy(y.pxOverflowDelayed, v)
               /\ SameWaits(x, y) /\ SameTimes(x, y) /\ SameTop(x, y) /\ SameCo(x, y) /\ SameState(x, y) /\ SameQueue(x, y)
<1> DEFINE ready == [p \in CoPriorities |-> uxListRemove(x.pxReadyCoRoutineLists[p], r)]
           delayed == Without(x.pxDelayed, r)
           over == Without(x.pxOverflowDelayed, r)
           y == [x EXCEPT !.pxReadyCoRoutineLists = ready, !.pxDelayed = delayed, !.pxOverflowDelayed = over]
<1>1. RemoveGeneric(x, r) = y
    BY DEF RemoveGeneric
<1>2. ASSUME NEW p \in CoPriorities
      PROVE  /\ GoodReady(CoRoutines, ready[p]) /\ ready[p] \in [items : Seq(CoRoutines), index : Nat]
             /\ Elements(ready[p].items) = Elements(x.pxReadyCoRoutineLists[p].items) \ {r}
    <2>1. GoodReady(CoRoutines, x.pxReadyCoRoutineLists[p])
        BY DEF GoodLists
    <2>2. ready[p] = uxListRemove(x.pxReadyCoRoutineLists[p], r)
        OBVIOUS
    <2> HIDE DEF ready
    <2>3. GoodReady(CoRoutines, ready[p]) /\ Elements(ready[p].items) = Elements(x.pxReadyCoRoutineLists[p].items) \ {r}
        BY <2>1, <2>2, ReadyRemoveIs
    <2> QED BY <2>3 DEF GoodReady
<1>3. /\ delayed \in Seq(CoRoutines) /\ Distinct(delayed) /\ Elements(delayed) = Elements(x.pxDelayed) \ {r}
      /\ \A v \in [CoRoutines -> Int] : SortedBy(x.pxDelayed, v) => SortedBy(delayed, v)
    <2>1. x.pxDelayed \in Seq(CoRoutines) /\ Distinct(x.pxDelayed)
        BY DEF GoodLists, CoType
    <2> QED BY <2>1, WithoutIs
<1>4. /\ over \in Seq(CoRoutines) /\ Distinct(over) /\ Elements(over) = Elements(x.pxOverflowDelayed) \ {r}
      /\ \A v \in [CoRoutines -> Int] : SortedBy(x.pxOverflowDelayed, v) => SortedBy(over, v)
    <2>1. x.pxOverflowDelayed \in Seq(CoRoutines) /\ Distinct(x.pxOverflowDelayed)
        BY DEF GoodLists, CoType
    <2> QED BY <2>1, WithoutIs
<1>5. ready \in [CoPriorities -> [items : Seq(CoRoutines), index : Nat]]
    BY <1>2
<1> HIDE DEF ready, delayed, over
<1>6. /\ y.pxReadyCoRoutineLists = ready /\ y.pxDelayed = delayed /\ y.pxOverflowDelayed = over
      /\ SameWaits(x, y) /\ SameTimes(x, y) /\ SameTop(x, y) /\ SameCo(x, y) /\ SameState(x, y) /\ SameQueue(x, y)
    BY DEF CoType, SameWaits, SameTimes, SameTop, SameCo, SameState, SameQueue
<1>7. y \in CoType
    BY <1>3, <1>4, <1>5 DEF CoType
<1> HIDE DEF y
<1>8. \A p \in CoPriorities : ReadyIn(y, p) = ReadyIn(x, p) \ {r}
    BY <1>2, <1>6 DEF ReadyIn
<1>9. GoodLists(y)
    <2>1. \A p \in CoPriorities : /\ GoodReady(CoRoutines, y.pxReadyCoRoutineLists[p])
                                  /\ \A s \in Elements(y.pxReadyCoRoutineLists[p].items) : CoPriority[s] = p
        BY <1>2, <1>6 DEF GoodLists
    <2> QED BY <1>3, <1>4, <1>6, <2>1 DEF GoodLists, SameWaits
<1> QED BY <1>1, <1>3, <1>4, <1>6, <1>7, <1>8, <1>9

\* The waiting lists without one co-routine.
LEMMA RemoveEventIs ==
    ASSUME NEW x \in CoType, GoodLists(x), NEW r \in CoRoutines
    PROVE  LET y == RemoveEventCo(x, r)
           IN  /\ y \in CoType /\ GoodLists(y)
               /\ Elements(y.xPendingReady) = Elements(x.xPendingReady) \ {r}
               /\ \A q \in CoQueues : /\ Elements(y.toSend[q]) = Elements(x.toSend[q]) \ {r}
                                      /\ Elements(y.toReceive[q]) = Elements(x.toReceive[q]) \ {r}
                                      /\ r \notin Elements(x.toSend[q]) => y.toSend[q] = x.toSend[q]
                                      /\ r \notin Elements(x.toReceive[q]) => y.toReceive[q] = x.toReceive[q]
               /\ SameReady(x, y) /\ SameSleep(x, y) /\ SameTimes(x, y) /\ SameTop(x, y) /\ SameCo(x, y)
               /\ SameState(x, y) /\ SameQueue(x, y)
<1> DEFINE send == [q \in CoQueues |-> Without(x.toSend[q], r)]
           receive == [q \in CoQueues |-> Without(x.toReceive[q], r)]
           pending == Without(x.xPendingReady, r)
           y == [x EXCEPT !.toSend = send, !.toReceive = receive, !.xPendingReady = pending]
<1>1. RemoveEventCo(x, r) = y
    BY DEF RemoveEventCo
<1>2. ASSUME NEW q \in CoQueues
      PROVE  /\ send[q] \in Seq(CoRoutines) /\ Distinct(send[q])
             /\ Elements(send[q]) = Elements(x.toSend[q]) \ {r}
             /\ r \notin Elements(x.toSend[q]) => send[q] = x.toSend[q]
    <2>1. x.toSend[q] \in Seq(CoRoutines) /\ Distinct(x.toSend[q])
        BY DEF GoodLists, CoType
    <2>2. send[q] = Without(x.toSend[q], r)
        OBVIOUS
    <2> HIDE DEF send
    <2> QED BY <2>1, <2>2, WithoutIs
<1>3. ASSUME NEW q \in CoQueues
      PROVE  /\ receive[q] \in Seq(CoRoutines) /\ Distinct(receive[q])
             /\ Elements(receive[q]) = Elements(x.toReceive[q]) \ {r}
             /\ r \notin Elements(x.toReceive[q]) => receive[q] = x.toReceive[q]
    <2>1. x.toReceive[q] \in Seq(CoRoutines) /\ Distinct(x.toReceive[q])
        BY DEF GoodLists, CoType
    <2>2. receive[q] = Without(x.toReceive[q], r)
        OBVIOUS
    <2> HIDE DEF receive
    <2> QED BY <2>1, <2>2, WithoutIs
<1>4. /\ pending \in Seq(CoRoutines) /\ Distinct(pending)
      /\ Elements(pending) = Elements(x.xPendingReady) \ {r}
    <2>1. x.xPendingReady \in Seq(CoRoutines) /\ Distinct(x.xPendingReady)
        BY DEF GoodLists, CoType
    <2> QED BY <2>1, WithoutIs
<1>5. send \in [CoQueues -> Seq(CoRoutines)] /\ receive \in [CoQueues -> Seq(CoRoutines)]
    BY <1>2, <1>3
<1> HIDE DEF send, receive, pending
<1>6. /\ y.toSend = send /\ y.toReceive = receive /\ y.xPendingReady = pending
      /\ SameReady(x, y) /\ SameSleep(x, y) /\ SameTimes(x, y) /\ SameTop(x, y) /\ SameCo(x, y)
      /\ SameState(x, y) /\ SameQueue(x, y)
    BY DEF CoType, SameReady, SameSleep, SameTimes, SameTop, SameCo, SameState, SameQueue
<1>7. y \in CoType
    BY <1>4, <1>5 DEF CoType
<1> HIDE DEF y
<1>8. GoodLists(y)
    BY <1>2, <1>3, <1>4, <1>6 DEF GoodLists, SameReady, SameSleep
<1> QED BY <1>1, <1>2, <1>3, <1>4, <1>6, <1>7, <1>8

\* A co-routine that becomes ready.
LEMMA AddReadyIs ==
    ASSUME NEW x \in CoType, GoodLists(x), NEW r \in CoRoutines, r \notin ReadySet(x)
    PROVE  LET y == prvAddCoRoutineToReadyQueue(x, r)
           IN  /\ y \in CoType /\ GoodLists(y)
               /\ \A p \in CoPriorities :
                      ReadyIn(y, p) = IF p = CoPriority[r] THEN ReadyIn(x, p) \cup {r} ELSE ReadyIn(x, p)
               /\ y.uxTopCoRoutineReadyPriority = IF CoPriority[r] > x.uxTopCoRoutineReadyPriority
                                                  THEN CoPriority[r] ELSE x.uxTopCoRoutineReadyPriority
               /\ SameSleep(x, y) /\ SameWaits(x, y) /\ SameTimes(x, y) /\ SameCo(x, y)
               /\ SameState(x, y) /\ SameQueue(x, y)
<1> DEFINE P == CoPriority[r]
           old == x.pxReadyCoRoutineLists
           new == vListInsertEnd(old[P], r)
           ready == [old EXCEPT ![P] = new]
           top == IF P > x.uxTopCoRoutineReadyPriority THEN P ELSE x.uxTopCoRoutineReadyPriority
           y == [x EXCEPT !.uxTopCoRoutineReadyPriority = top, !.pxReadyCoRoutineLists = ready]
<1>1. P \in CoPriorities /\ P \in Nat
    BY ReadyIs
<1>2. old \in [CoPriorities -> [items : Seq(CoRoutines), index : Nat]]
    BY DEF CoType
<1>3. prvAddCoRoutineToReadyQueue(x, r) = y
    <2>1. prvAddCoRoutineToReadyQueue(x, r) =
              [x EXCEPT !.uxTopCoRoutineReadyPriority = top, !.pxReadyCoRoutineLists[P] = new]
        BY DEF prvAddCoRoutineToReadyQueue
    <2> HIDE DEF new, top
    <2> QED BY <2>1
<1>4. GoodReady(CoRoutines, new) /\ Elements(new.items) = Elements(old[P].items) \cup {r}
    <2>1. GoodReady(CoRoutines, old[P])
        BY <1>1 DEF GoodLists
    <2>2. r \notin Elements(old[P].items)
        BY DEF ReadySet, ReadyIn
    <2> HIDE DEF old, P
    <2> QED BY <2>1, <2>2, ReadyInsertIs
<1> HIDE DEF new
<1>5. \A p \in CoPriorities : ready[p] = IF p = P THEN new ELSE old[p]
    BY <1>2
<1>6. ready \in [CoPriorities -> [items : Seq(CoRoutines), index : Nat]]
    <2>1. new \in [items : Seq(CoRoutines), index : Nat]
        BY <1>4 DEF GoodReady
    <2> HIDE DEF old
    <2> QED BY <1>2, <2>1
<1>7. top \in Nat
    BY <1>1 DEF CoType
<1> HIDE DEF ready, top
<1>8. /\ y.pxReadyCoRoutineLists = ready /\ y.uxTopCoRoutineReadyPriority = top
      /\ SameSleep(x, y) /\ SameWaits(x, y) /\ SameTimes(x, y) /\ SameCo(x, y)
      /\ SameState(x, y) /\ SameQueue(x, y)
    BY DEF CoType, SameSleep, SameWaits, SameTimes, SameCo, SameState, SameQueue
<1>9. y \in CoType
    BY <1>6, <1>7 DEF CoType
<1> HIDE DEF y
<1>10. \A p \in CoPriorities : ReadyIn(y, p) = IF p = P THEN ReadyIn(x, p) \cup {r} ELSE ReadyIn(x, p)
    BY <1>4, <1>5, <1>8 DEF ReadyIn
<1>11. GoodLists(y)
    <2>1. \A p \in CoPriorities : GoodReady(CoRoutines, y.pxReadyCoRoutineLists[p])
        BY <1>4, <1>5, <1>8 DEF GoodLists
    <2>2. \A p \in CoPriorities : \A s \in Elements(y.pxReadyCoRoutineLists[p].items) : CoPriority[s] = p
        BY <1>4, <1>5, <1>8 DEF GoodLists
    <2> QED BY <1>8, <2>1, <2>2 DEF GoodLists, SameSleep, SameWaits
<1> QED BY <1>3, <1>8, <1>9, <1>10, <1>11 DEF top

\* The current co-routine goes to sleep.
LEMMA DelayIs ==
    ASSUME NEW x \in CoType, GoodLists(x), NEW ticks \in 0 .. CoTickMod - 1,
           x.pxCurrentCoRoutine \in CoRoutines
    PROVE  LET r    == x.pxCurrentCoRoutine
               now  == x.xCoRoutineTickCount
               wake == (now + ticks) % CoTickMod
               y    == vCoRoutineAddToDelayedList(x, ticks)
               D(z) == Elements(z.pxDelayed)
               O(z) == Elements(z.pxOverflowDelayed)
           IN  /\ y \in CoType /\ GoodLists(y)
               /\ \A p \in CoPriorities : ReadyIn(y, p) = ReadyIn(x, p) \ {r}
               /\ y.wake = [x.wake EXCEPT ![r] = wake] /\ y.left = [x.left EXCEPT ![r] = ticks]
               /\ y.early = x.early /\ y.xCoRoutineTickCount = now
               /\ \/ wake = now + ticks /\ D(y) = D(x) \cup {r} /\ O(y) = O(x) \ {r}
                  \/ wake = now + ticks - CoTickMod /\ D(y) = D(x) \ {r} /\ O(y) = O(x) \cup {r}
               /\ r \notin D(x) /\ SortedBy(x.pxDelayed, x.wake) => SortedBy(y.pxDelayed, y.wake)
               /\ r \notin O(x) /\ SortedBy(x.pxOverflowDelayed, x.wake) => SortedBy(y.pxOverflowDelayed, y.wake)
               /\ SameWaits(x, y) /\ SameTop(x, y) /\ SameCo(x, y) /\ SameState(x, y) /\ SameQueue(x, y)
<1> DEFINE r    == x.pxCurrentCoRoutine
           now  == x.xCoRoutineTickCount
           wake == (now + ticks) % CoTickMod
           x0   == RemoveGeneric(x, r)
           x1   == [x0 EXCEPT !.wake[r] = wake, !.left[r] = ticks]
           d    == vListInsert(x1.pxDelayed, r, x1.wake, CoTickMod - 1)
           o    == vListInsert(x1.pxOverflowDelayed, r, x1.wake, CoTickMod - 1)
           y    == vCoRoutineAddToDelayedList(x, ticks)
<1>1. y = IF wake < now THEN [x1 EXCEPT !.pxOverflowDelayed = o] ELSE [x1 EXCEPT !.pxDelayed = d]
    BY DEF vCoRoutineAddToDelayedList
<1>2. /\ now \in 0 .. CoTickMod - 1 /\ CoTickMod \in Nat \ {0} /\ wake \in 0 .. CoTickMod - 1
      /\ (wake = now + ticks /\ ~(wake < now)) \/ (wake = now + ticks - CoTickMod /\ wake < now)
    <2>1. now \in 0 .. CoTickMod - 1 /\ CoTickMod \in Nat \ {0}
        BY CoAssumption DEF CoType
    <2> DEFINE sum == now + ticks
    <2>2. sum \in Nat /\ sum < 2 * CoTickMod /\ sum >= now
        BY <2>1
    <2>3. CASE sum < CoTickMod
        <3>1. sum % CoTickMod = sum
            BY <2>1, <2>2, <2>3
        <3> QED BY <2>1, <2>2, <2>3, <3>1
    <2>4. CASE sum >= CoTickMod
        <3>1. sum % CoTickMod = sum - CoTickMod
            BY <2>1, <2>2, <2>4
        <3> QED BY <2>1, <2>2, <2>4, <3>1
    <2> QED BY <2>1, <2>2, <2>3, <2>4
<1> HIDE DEF wake, now, y
<1>3. /\ x0 \in CoType /\ GoodLists(x0)
      /\ \A p \in CoPriorities : ReadyIn(x0, p) = ReadyIn(x, p) \ {r}
      /\ Elements(x0.pxDelayed) = Elements(x.pxDelayed) \ {r}
      /\ Elements(x0.pxOverflowDelayed) = Elements(x.pxOverflowDelayed) \ {r}
      /\ \A v \in [CoRoutines -> Int] : SortedBy(x.pxDelayed, v) => SortedBy(x0.pxDelayed, v)
      /\ \A v \in [CoRoutines -> Int] : SortedBy(x.pxOverflowDelayed, v) => SortedBy(x0.pxOverflowDelayed, v)
      /\ SameWaits(x, x0) /\ SameTimes(x, x0) /\ SameTop(x, x0) /\ SameCo(x, x0) /\ SameState(x, x0) /\ SameQueue(x, x0)
    BY RemoveGenericIs
<1> HIDE DEF x0
<1>4. /\ x1.wake = [x.wake EXCEPT ![r] = wake] /\ x1.left = [x.left EXCEPT ![r] = ticks]
      /\ SameReady(x0, x1) /\ SameSleep(x0, x1) /\ SameWaits(x0, x1) /\ SameTop(x0, x1) /\ SameCo(x0, x1)
      /\ SameState(x0, x1) /\ SameQueue(x0, x1)
      /\ x1.early = x0.early /\ x1.xCoRoutineTickCount = x0.xCoRoutineTickCount
    BY <1>3 DEF CoType, SameReady, SameSleep, SameWaits, SameTimes, SameTop, SameCo, SameState, SameQueue
<1>5. x1 \in CoType
    <2>1. /\ [x0.wake EXCEPT ![r] = wake] \in [CoRoutines -> 0 .. CoTickMod - 1]
          /\ [x0.left EXCEPT ![r] = ticks] \in [CoRoutines -> Nat]
        <3>1. x0.wake \in [CoRoutines -> 0 .. CoTickMod - 1] /\ x0.left \in [CoRoutines -> Nat]
            BY <1>3 DEF CoType
        <3>2. ticks \in Nat /\ wake \in 0 .. CoTickMod - 1
            BY <1>2
        <3> QED BY <3>1, <3>2
    <2> QED BY <1>3, <2>1 DEF CoType
<1> HIDE DEF x1, r
<1>6. r \in CoRoutines /\ x1.wake \in [CoRoutines -> Int] /\ CoTickMod - 1 \in Int
      /\ \A a \in CoRoutines : x1.wake[a] <= CoTickMod - 1
    <2>1. r \in CoRoutines /\ x1.wake \in [CoRoutines -> 0 .. CoTickMod - 1]
        BY <1>5 DEF CoType, r
    <2>2. \A a \in CoRoutines : x1.wake[a] \in 0 .. CoTickMod - 1
        BY <2>1
    <2> QED BY <1>2, <2>1, <2>2
<1>7. /\ d \in Seq(CoRoutines) /\ Distinct(d) /\ Elements(d) = Elements(x0.pxDelayed) \cup {r}
      /\ SortedBy(x0.pxDelayed, x1.wake) => SortedBy(d, x1.wake)
    <2>1. x1.pxDelayed = x0.pxDelayed /\ x0.pxDelayed \in Seq(CoRoutines) /\ Distinct(x0.pxDelayed)
        BY <1>3, <1>4 DEF SameSleep, GoodLists, CoType
    <2>2. r \notin Elements(x0.pxDelayed)
        BY <1>3
    <2> QED BY <1>6, <2>1, <2>2, ListInsertIs
<1>8. /\ o \in Seq(CoRoutines) /\ Distinct(o) /\ Elements(o) = Elements(x0.pxOverflowDelayed) \cup {r}
      /\ SortedBy(x0.pxOverflowDelayed, x1.wake) => SortedBy(o, x1.wake)
    <2>1. /\ x1.pxOverflowDelayed = x0.pxOverflowDelayed
          /\ x0.pxOverflowDelayed \in Seq(CoRoutines) /\ Distinct(x0.pxOverflowDelayed)
        BY <1>3, <1>4 DEF SameSleep, GoodLists, CoType
    <2>2. r \notin Elements(x0.pxOverflowDelayed)
        BY <1>3
    <2> QED BY <1>6, <2>1, <2>2, ListInsertIs
<1>9. ASSUME NEW s \in Seq(CoRoutines), r \notin Elements(s), SortedBy(s, x.wake) PROVE SortedBy(s, x1.wake)
    <2>1. x.wake \in [CoRoutines -> Int]
        BY <1>2 DEF CoType
    <2>2. \A i \in DOMAIN s : s[i] # r /\ s[i] \in CoRoutines
        BY <1>9 DEF Elements
    <2>3. \A i \in DOMAIN s : x1.wake[s[i]] = x.wake[s[i]]
        BY <1>4, <2>1, <2>2
    <2> QED BY <1>9, <2>3 DEF SortedBy
<1>12. r \notin Elements(x.pxDelayed) /\ SortedBy(x.pxDelayed, x.wake) => SortedBy(x0.pxDelayed, x1.wake)
    <2>1. x.wake \in [CoRoutines -> Int] /\ x0.pxDelayed \in Seq(CoRoutines) /\ r \notin Elements(x0.pxDelayed)
        BY <1>2, <1>3 DEF CoType
    <2> QED BY <1>3, <1>9, <2>1
<1>13. r \notin Elements(x.pxOverflowDelayed) /\ SortedBy(x.pxOverflowDelayed, x.wake)
           => SortedBy(x0.pxOverflowDelayed, x1.wake)
    <2>1. /\ x.wake \in [CoRoutines -> Int] /\ x0.pxOverflowDelayed \in Seq(CoRoutines)
          /\ r \notin Elements(x0.pxOverflowDelayed)
        BY <1>2, <1>3 DEF CoType
    <2> QED BY <1>3, <1>9, <2>1
<1> HIDE DEF d, o
<1>10. CASE wake < now
    <2> DEFINE z == [x1 EXCEPT !.pxOverflowDelayed = o]
    <2>1. /\ z.pxOverflowDelayed = o /\ z.pxDelayed = x1.pxDelayed
          /\ SameReady(x1, z) /\ SameWaits(x1, z) /\ SameTimes(x1, z) /\ SameTop(x1, z) /\ SameCo(x1, z)
          /\ SameState(x1, z) /\ SameQueue(x1, z)
        BY <1>5 DEF CoType, SameReady, SameWaits, SameTimes, SameTop, SameCo, SameState, SameQueue
    <2>2. z \in CoType
        BY <1>5, <1>8 DEF CoType
    <2>3. y = z /\ wake = now + ticks - CoTickMod
        BY <1>1, <1>2, <1>10
    <2> HIDE DEF z
    <2>4. GoodLists(z)
        BY <1>3, <1>4, <1>8, <2>1 DEF GoodLists, SameReady, SameSleep, SameWaits
    <2>5. \A p \in CoPriorities : ReadyIn(z, p) = ReadyIn(x, p) \ {r}
        BY <1>3, <1>4, <2>1 DEF ReadyIn, SameReady
    <2>6. /\ Elements(z.pxDelayed) = Elements(x.pxDelayed) \ {r}
          /\ Elements(z.pxOverflowDelayed) = Elements(x.pxOverflowDelayed) \cup {r}
        BY <1>3, <1>4, <1>8, <2>1 DEF SameSleep
    <2>7. /\ r \notin Elements(x.pxDelayed) /\ SortedBy(x.pxDelayed, x.wake) => SortedBy(z.pxDelayed, z.wake)
          /\ r \notin Elements(x.pxOverflowDelayed) /\ SortedBy(x.pxOverflowDelayed, x.wake)
                 => SortedBy(z.pxOverflowDelayed, z.wake)
        BY <1>4, <1>7, <1>8, <1>12, <1>13, <2>1 DEF SameSleep, SameTimes
    <2>8. /\ z.wake = [x.wake EXCEPT ![r] = wake] /\ z.left = [x.left EXCEPT ![r] = ticks]
          /\ z.early = x.early /\ z.xCoRoutineTickCount = now
        BY <1>3, <1>4, <2>1 DEF SameTimes, now
    <2>9. SameWaits(x, z) /\ SameTop(x, z) /\ SameCo(x, z) /\ SameState(x, z) /\ SameQueue(x, z)
        BY <1>3, <1>4, <2>1 DEF SameWaits, SameTop, SameCo, SameState, SameQueue
    <2> QED BY <2>2, <2>3, <2>4, <2>5, <2>6, <2>7, <2>8, <2>9 DEF y, r, now, wake
<1>11. CASE ~(wake < now)
    <2> DEFINE z == [x1 EXCEPT !.pxDelayed = d]
    <2>1. /\ z.pxDelayed = d /\ z.pxOverflowDelayed = x1.pxOverflowDelayed
          /\ SameReady(x1, z) /\ SameWaits(x1, z) /\ SameTimes(x1, z) /\ SameTop(x1, z) /\ SameCo(x1, z)
          /\ SameState(x1, z) /\ SameQueue(x1, z)
        BY <1>5 DEF CoType, SameReady, SameWaits, SameTimes, SameTop, SameCo, SameState, SameQueue
    <2>2. z \in CoType
        BY <1>5, <1>7 DEF CoType
    <2>3. y = z /\ wake = now + ticks
        BY <1>1, <1>2, <1>11
    <2> HIDE DEF z
    <2>4. GoodLists(z)
        BY <1>3, <1>4, <1>7, <2>1 DEF GoodLists, SameReady, SameSleep, SameWaits
    <2>5. \A p \in CoPriorities : ReadyIn(z, p) = ReadyIn(x, p) \ {r}
        BY <1>3, <1>4, <2>1 DEF ReadyIn, SameReady
    <2>6. /\ Elements(z.pxDelayed) = Elements(x.pxDelayed) \cup {r}
          /\ Elements(z.pxOverflowDelayed) = Elements(x.pxOverflowDelayed) \ {r}
        BY <1>3, <1>4, <1>7, <2>1 DEF SameSleep
    <2>7. /\ r \notin Elements(x.pxDelayed) /\ SortedBy(x.pxDelayed, x.wake) => SortedBy(z.pxDelayed, z.wake)
          /\ r \notin Elements(x.pxOverflowDelayed) /\ SortedBy(x.pxOverflowDelayed, x.wake)
                 => SortedBy(z.pxOverflowDelayed, z.wake)
        BY <1>4, <1>7, <1>8, <1>12, <1>13, <2>1 DEF SameSleep, SameTimes
    <2>8. /\ z.wake = [x.wake EXCEPT ![r] = wake] /\ z.left = [x.left EXCEPT ![r] = ticks]
          /\ z.early = x.early /\ z.xCoRoutineTickCount = now
        BY <1>3, <1>4, <2>1 DEF SameTimes, now
    <2>9. SameWaits(x, z) /\ SameTop(x, z) /\ SameCo(x, z) /\ SameState(x, z) /\ SameQueue(x, z)
        BY <1>3, <1>4, <2>1 DEF SameWaits, SameTop, SameCo, SameState, SameQueue
    <2> QED BY <2>2, <2>3, <2>4, <2>5, <2>6, <2>7, <2>8, <2>9 DEF y, r, now, wake
<1> QED BY <1>10, <1>11

-----------------------------------------------------------------------------
(* The inductive invariant. *)

Ops == {"crQUEUE_SEND", "crQUEUE_RECEIVE"}

\* The co-routines in an event list, and what they wait for: messages or free places.
Waiters(x, op, q) == Elements(IF op = "crQUEUE_SEND" THEN x.toSend[q] ELSE x.toReceive[q])
Supply(x, op, q)  == IF op = "crQUEUE_SEND" THEN CoLength[q] - x.uxMessagesWaiting[q] ELSE x.uxMessagesWaiting[q]

MacroOf(x, r) == CoProgram[r][x.uxState[r].line]
Calls(x, r, op, q)  == x.uxState[r].phase \in {"blocked", "second"} /\ MacroOf(x, r).op = op /\ MacroOf(x, r).q = q
WokenOf(x, op, q)   == {r \in CoRoutines : Calls(x, r, op, q) /\ r \notin Waiters(x, op, q)}

\* A co-routine is in one of the ready and delayed lists.
Apart3(x) == LET D == Elements(x.pxDelayed)
                 O == Elements(x.pxOverflowDelayed)
             IN  ReadySet(x) \cap D = {} /\ ReadySet(x) \cap O = {} /\ D \cap O = {}
Placed(x) == ReadySet(x) \cup Elements(x.pxDelayed) \cup Elements(x.pxOverflowDelayed) = CoRoutines

\* Every macro is one of the program, and only queue macros block.
StateOK(x) ==
    \A r \in CoRoutines : /\ x.uxState[r].line \in 1 .. Len(CoProgram[r])
                          /\ x.uxState[r].phase \in {"blocked", "second"} => MacroOf(x, r).op \in Ops

\* Who waits is not ready and is in the macro he waits in; who was told waits no more.
WaitsOK(x) ==
    /\ \A op \in Ops, q \in CoQueues : \A r \in Waiters(x, op, q) :
        r \notin ReadySet(x) /\ x.uxState[r].phase = "blocked" /\ Calls(x, r, op, q)
    /\ \A r \in Elements(x.xPendingReady) :
        r \notin ReadySet(x) /\ \A op \in Ops, q \in CoQueues : r \notin Waiters(x, op, q)

\* The wake time of who sleeps is as far off as he has ticks to go, and the
\* delayed lists are sorted by it.
TimesOK(x) ==
    /\ ~x.early
    /\ SortedBy(x.pxDelayed, x.wake) /\ SortedBy(x.pxOverflowDelayed, x.wake)
    /\ \A r \in Elements(x.pxDelayed) : x.wake[r] = x.xCoRoutineTickCount + x.left[r]
    /\ \A r \in Elements(x.pxOverflowDelayed) : x.wake[r] + CoTickMod = x.xCoRoutineTickCount + x.left[r]
Asleep(x) == \A r \in Elements(x.pxDelayed) : x.left[r] > 0

TopOK(x) == \A p \in CoPriorities : ReadyIn(x, p) # {} => p <= x.uxTopCoRoutineReadyPriority

\* No more messages, or free places, than co-routines that were woken for them.
HeededBy(x, op, q, n) ==
    Waiters(x, op, q) # {} => Supply(x, op, q) <= Cardinality(WokenOf(x, op, q)) + n
QueueOK(x) ==
    \A q \in CoQueues :
        /\ x.uxMessagesWaiting[q] <= CoLength[q]
        /\ q \notin x.skipped => \A op \in Ops : HeededBy(x, op, q, 0)

Unstarted(x) ==
    /\ x.pxDelayed = <<>> /\ x.pxOverflowDelayed = <<>> /\ x.xPendingReady = <<>>
    /\ \A q \in CoQueues : x.toSend[q] = <<>> /\ x.toReceive[q] = <<>>

CoPlaces == {"create", "pending", "ticks", "expire", "select", "run"}

Well(x)    == x \in CoType /\ GoodLists(x) /\ Apart3(x) /\ StateOK(x) /\ WaitsOK(x) /\ TimesOK(x) /\ TopOK(x)
SoundCo(x) == Well(x) /\ QueueOK(x)

CoInv ==
    /\ SoundCo(c) /\ at \in CoPlaces
    /\ at = "create" => Unstarted(c)
    /\ at # "create" => Placed(c)
    /\ at # "expire" => Asleep(c)
    /\ at = "run" => c.pxCurrentCoRoutine \in ReadySet(c)

-----------------------------------------------------------------------------
(* Steps that leave a part of the memory alone. *)

LEMMA KeptReady ==
    ASSUME NEW x, NEW y, SameReady(x, y)
    PROVE  /\ ReadySet(y) = ReadySet(x) /\ \A p : ReadyIn(y, p) = ReadyIn(x, p)
           /\ SameSleep(x, y) => Apart3(y) = Apart3(x) /\ Placed(y) = Placed(x)
           /\ SameTop(x, y) => TopOK(y) = TopOK(x)
<1>1. \A p : ReadyIn(y, p) = ReadyIn(x, p)
    BY DEF SameReady, ReadyIn
<1>2. ReadySet(y) = ReadySet(x)
    BY <1>1 DEF ReadySet
<1> QED BY <1>1, <1>2 DEF SameSleep, SameTop, Apart3, Placed, TopOK

LEMMA KeptTimes ==
    ASSUME NEW x, NEW y, SameSleep(x, y), SameTimes(x, y), TimesOK(x)
    PROVE  TimesOK(y) /\ Asleep(y) = Asleep(x)
BY DEF SameSleep, SameTimes, TimesOK, Asleep

LEMMA KeptLists ==
    ASSUME NEW x, NEW y, SameReady(x, y), SameSleep(x, y), SameWaits(x, y), GoodLists(x)
    PROVE  GoodLists(y)
BY DEF SameReady, SameSleep, SameWaits, GoodLists

LEMMA KeptCalls ==
    ASSUME NEW x, NEW y, SameState(x, y)
    PROVE  /\ StateOK(y) = StateOK(x) /\ \A r, op, q : Calls(y, r, op, q) = Calls(x, r, op, q)
           /\ \A r : MacroOf(y, r) = MacroOf(x, r)
BY DEF SameState, StateOK, Calls, MacroOf

LEMMA KeptWaits ==
    ASSUME NEW x, NEW y, SameWaits(x, y), SameState(x, y)
    PROVE  /\ \A op, q : Waiters(y, op, q) = Waiters(x, op, q) /\ WokenOf(y, op, q) = WokenOf(x, op, q)
           /\ ReadySet(y) = ReadySet(x) => WaitsOK(y) = WaitsOK(x)
           /\ SameQueue(x, y) => QueueOK(y) = QueueOK(x)
<1>1. \A op, q : Waiters(y, op, q) = Waiters(x, op, q)
    BY DEF SameWaits, Waiters
<1>2. \A r, op, q : Calls(y, r, op, q) = Calls(x, r, op, q)
    BY KeptCalls
<1>3. \A op, q : WokenOf(y, op, q) = WokenOf(x, op, q)
    BY <1>1, <1>2 DEF WokenOf
<1>4. SameQueue(x, y) => \A op, q : Supply(y, op, q) = Supply(x, op, q)
    BY DEF SameQueue, Supply
<1>5. ReadySet(y) = ReadySet(x) => WaitsOK(y) = WaitsOK(x)
    BY <1>1, <1>2 DEF WaitsOK, SameWaits, SameState
<1>6. SameQueue(x, y) => QueueOK(y) = QueueOK(x)
    BY <1>1, <1>3, <1>4 DEF QueueOK, SameQueue, HeededBy
<1> QED BY <1>1, <1>3, <1>5, <1>6

-----------------------------------------------------------------------------
(* The first waiter of a queue is told. *)

LEMMA HeadIs ==
    ASSUME NEW s \in Seq(CoRoutines)
    PROVE  /\ s # <<>> => Head(s) \in Elements(s) /\ Head(s) \in CoRoutines /\ Head(s) = s[1] /\ 1 \in DOMAIN s
           /\ s = <<>> <=> Elements(s) = {}
           /\ Elements(s) \subseteq CoRoutines
<1>1. Len(s) \in Nat /\ DOMAIN s = 1 .. Len(s) /\ (s # <<>> => Len(s) # 0 /\ Head(s) = s[1])
    OBVIOUS
<1>2. s # <<>> => 1 \in DOMAIN s
    BY <1>1
<1>3. \A i \in DOMAIN s : s[i] \in CoRoutines
    BY <1>1
<1>4. s = <<>> => DOMAIN s = {}
    BY <1>1
<1>5. s # <<>> => Head(s) \in Elements(s) /\ Head(s) \in CoRoutines
    BY <1>1, <1>2, <1>3 DEF Elements
<1>6. s = <<>> => Elements(s) = {}
    BY <1>4 DEF Elements
<1>7. Elements(s) \subseteq CoRoutines
    BY <1>3 DEF Elements
<1> QED BY <1>1, <1>2, <1>5, <1>6, <1>7

\* r leaves its event list for the list of those that an event made ready.
Told(x, y, r) ==
    /\ y \in CoType /\ GoodLists(y)
    /\ Elements(y.xPendingReady) = Elements(x.xPendingReady) \cup {r}
    /\ \A op \in Ops, q \in CoQueues : Waiters(y, op, q) = Waiters(x, op, q) \ {r}
    /\ SameReady(x, y) /\ SameSleep(x, y) /\ SameTimes(x, y) /\ SameTop(x, y) /\ SameCo(x, y)
    /\ SameState(x, y) /\ SameQueue(x, y)

LEMMA WaitersIs ==
    ASSUME NEW x \in CoType, GoodLists(x), NEW r \in CoRoutines,
           NEW op \in Ops, NEW q \in CoQueues
    PROVE  Waiters(RemoveEventCo(x, r), op, q) = Waiters(x, op, q) \ {r}
<1> DEFINE y == RemoveEventCo(x, r)
<1>1. \A k \in CoQueues : /\ Elements(y.toSend[k]) = Elements(x.toSend[k]) \ {r}
                          /\ Elements(y.toReceive[k]) = Elements(x.toReceive[k]) \ {r}
                          /\ r \notin Elements(x.toSend[k]) => y.toSend[k] = x.toSend[k]
                          /\ r \notin Elements(x.toReceive[k]) => y.toReceive[k] = x.toReceive[k]
    BY RemoveEventIs, Zenon
<1> HIDE DEF y
<1>2. Waiters(y, op, q) = Waiters(x, op, q) \ {r}
    BY <1>1 DEF Waiters
<1> QED BY <1>2 DEF y

LEMMA TellIs ==
    ASSUME NEW x \in CoType, GoodLists(x), NEW r \in CoRoutines, r \notin Elements(x.xPendingReady)
    PROVE  Told(x, [RemoveEventCo(x, r) EXCEPT !.xPendingReady = Append(@, r)], r)
<1> DEFINE z == RemoveEventCo(x, r)
           s == z.xPendingReady
           t == Append(s, r)
           y == [z EXCEPT !.xPendingReady = t]
<1>1. /\ z \in CoType /\ GoodLists(z) /\ Elements(s) = Elements(x.xPendingReady) \ {r}
      /\ SameReady(x, z) /\ SameSleep(x, z) /\ SameTimes(x, z) /\ SameTop(x, z) /\ SameCo(x, z)
      /\ SameState(x, z) /\ SameQueue(x, z)
    BY RemoveEventIs
<1>2. \A op \in Ops, q \in CoQueues : Waiters(z, op, q) = Waiters(x, op, q) \ {r}
    BY WaitersIs
<1> HIDE DEF z
<1>3. s \in Seq(CoRoutines) /\ Distinct(s)
    BY <1>1 DEF CoType, GoodLists
<1>4. PutIn(CoRoutines, s, Len(s) + 1, r, t) /\ t \in Seq(CoRoutines) /\ Len(s) + 1 \in 1 .. Len(s) + 1
    BY <1>3, AppendIs DEF PutIn
<1>5. Distinct(t) /\ Elements(t) = Elements(s) \cup {r}
    BY <1>1, <1>3, <1>4, PutInList
<1> HIDE DEF t
<1>6. /\ y.xPendingReady = t /\ y.toSend = z.toSend /\ y.toReceive = z.toReceive
      /\ SameReady(z, y) /\ SameSleep(z, y) /\ SameTimes(z, y) /\ SameTop(z, y) /\ SameCo(z, y)
      /\ SameState(z, y) /\ SameQueue(z, y)
    BY <1>1 DEF CoType, SameReady, SameSleep, SameTimes, SameTop, SameCo, SameState, SameQueue
<1>7. y \in CoType
    BY <1>1, <1>4 DEF CoType
<1> HIDE DEF y, s
<1>8. GoodLists(y)
    BY <1>1, <1>5, <1>6 DEF GoodLists, SameReady, SameSleep
<1>9. \A op \in Ops, q \in CoQueues : Waiters(y, op, q) = Waiters(z, op, q)
    BY <1>6 DEF Waiters
<1>10. /\ SameReady(x, y) /\ SameSleep(x, y) /\ SameTimes(x, y) /\ SameTop(x, y) /\ SameCo(x, y)
       /\ SameState(x, y) /\ SameQueue(x, y)
    BY <1>1, <1>6 DEF SameReady, SameSleep, SameTimes, SameTop, SameCo, SameState, SameQueue
<1>11. Elements(y.xPendingReady) = Elements(x.xPendingReady) \cup {r}
    BY <1>1, <1>5, <1>6
<1>12. Told(x, y, r)
    BY <1>2, <1>7, <1>8, <1>9, <1>10, <1>11 DEF Told
<1> QED BY <1>12 DEF y, z, s, t

EventList(x, op, q) == IF op = "crQUEUE_SEND" THEN x.toSend[q] ELSE x.toReceive[q]

LEMMA SignalIs ==
    ASSUME NEW x \in CoType, GoodLists(x), WaitsOK(x), NEW op \in Ops, NEW q \in CoQueues
    PROVE  LET y == Signal(x, EventList(x, op, q)).x
           IN  \/ Waiters(x, op, q) = {} /\ y = x
               \/ \E r \in Waiters(x, op, q) : r \in CoRoutines /\ Told(x, y, r)
<1> DEFINE list == EventList(x, op, q)
           y == Signal(x, list).x
<1>1. list \in Seq(CoRoutines) /\ Waiters(x, op, q) = Elements(list)
    BY DEF CoType, EventList, Waiters
<1>2. CASE list = <<>>
    BY <1>1, <1>2, HeadIs DEF Signal
<1>3. CASE list # <<>>
    <2> DEFINE r == Head(list)
    <2>1. r \in Elements(list) /\ r \in CoRoutines
        BY <1>1, <1>3, HeadIs
    <2>2. r \notin Elements(x.xPendingReady)
        BY <1>1, <2>1 DEF WaitsOK
    <2>3. y = [RemoveEventCo(x, r) EXCEPT !.xPendingReady = Append(@, r)]
        BY <1>3 DEF Signal, xCoRoutineRemoveFromEventList
    <2> HIDE DEF y, r
    <2>4. Told(x, y, r)
        BY <2>1, <2>2, <2>3, TellIs
    <2> QED BY <1>1, <2>1, <2>4 DEF y
<1> QED BY <1>2, <1>3

-----------------------------------------------------------------------------
(* How many were woken. *)

LEMMA WokenFinite ==
    ASSUME NEW x, NEW op, NEW q
    PROVE  IsFiniteSet(WokenOf(x, op, q)) /\ Cardinality(WokenOf(x, op, q)) \in Nat
<1>1. WokenOf(x, op, q) \subseteq CoRoutines
    BY DEF WokenOf
<1> QED BY <1>1, CoAssumption, FS_Subset, FS_CardinalityType

LEMMA CallsOnce ==
    ASSUME NEW x, NEW r, NEW op, NEW q, NEW op2, NEW q2, Calls(x, r, op, q), Calls(x, r, op2, q2)
    PROVE  op = op2 /\ q = q2
BY DEF Calls

LEMMA SupplyIs ==
    ASSUME NEW x \in CoType, NEW op, NEW q \in CoQueues
    PROVE  Supply(x, op, q) \in Int /\ CoLength[q] \in Nat \ {0} /\ x.uxMessagesWaiting[q] \in Nat
<1>1. CoLength[q] \in Nat \ {0}
    BY CoAssumption
<1>2. x.uxMessagesWaiting[q] \in Nat
    BY DEF CoType
<1> QED BY <1>1, <1>2 DEF Supply

\* Whoever is told is one more that was woken.
LEMMA ToldCounts ==
    ASSUME NEW x \in CoType, WaitsOK(x), NEW op \in Ops, NEW q \in CoQueues,
           NEW r \in Waiters(x, op, q), r \in CoRoutines, NEW y, Told(x, y, r),
           NEW op2 \in Ops, NEW q2 \in CoQueues, NEW n \in Int, HeededBy(x, op2, q2, n)
    PROVE  HeededBy(y, op2, q2, IF op2 = op /\ q2 = q THEN n - 1 ELSE n)
<1> DEFINE W == WokenOf(x, op2, q2)
           V == WokenOf(y, op2, q2)
<1>1. \A o \in Ops, k \in CoQueues : Waiters(y, o, k) = Waiters(x, o, k) \ {r}
    BY DEF Told
<1>2. \A a, o, k : Calls(y, a, o, k) = Calls(x, a, o, k)
    BY KeptCalls DEF Told
<1>3. Supply(y, op2, q2) = Supply(x, op2, q2)
    BY DEF Told, SameQueue, Supply
<1>4. Supply(x, op2, q2) \in Int
    BY SupplyIs
<1>5. Calls(x, r, op, q)
    BY DEF WaitsOK
<1>6. IsFiniteSet(W) /\ IsFiniteSet(V) /\ Cardinality(W) \in Nat /\ Cardinality(V) \in Nat
    BY WokenFinite
<1>7. Waiters(y, op2, q2) # {} => Waiters(x, op2, q2) # {}
    BY <1>1
<1>8. CASE op2 = op /\ q2 = q
    <2>1. V = W \cup {r} /\ r \notin W
        BY <1>1, <1>2, <1>5, <1>8 DEF WokenOf
    <2>2. Cardinality(V) = Cardinality(W) + 1
        BY <1>6, <2>1, FS_AddElement
    <2> HIDE DEF V, W
    <2> QED BY <1>3, <1>4, <1>6, <1>7, <1>8, <2>2 DEF HeededBy, V, W
<1>9. CASE ~(op2 = op /\ q2 = q)
    <2>1. ~Calls(x, r, op2, q2)
        BY <1>5, <1>9, CallsOnce
    <2>2. V = W
        BY <1>1, <1>2, <2>1 DEF WokenOf
    <2> QED BY <1>3, <1>7, <1>9, <2>2 DEF HeededBy
<1> QED BY <1>8, <1>9

LEMMA ToldKeeps ==
    ASSUME NEW x \in CoType, WaitsOK(x), NEW op \in Ops, NEW q \in CoQueues,
           NEW r \in Waiters(x, op, q), r \in CoRoutines, NEW y, Told(x, y, r)
    PROVE  WaitsOK(y)
<1>1. \A o \in Ops, k \in CoQueues : Waiters(y, o, k) = Waiters(x, o, k) \ {r}
    BY DEF Told
<1>2. \A a, o, k : Calls(y, a, o, k) = Calls(x, a, o, k)
    BY KeptCalls DEF Told
<1>3. ReadySet(y) = ReadySet(x) /\ y.uxState = x.uxState /\ Elements(y.xPendingReady) = Elements(x.xPendingReady) \cup {r}
    BY KeptReady DEF Told, SameState
<1>4. r \notin ReadySet(x)
    BY DEF WaitsOK
<1> QED BY <1>1, <1>2, <1>3, <1>4 DEF WaitsOK

-----------------------------------------------------------------------------
(* A message comes or goes. *)

\* All but the queues is the same.
SameRest(x, y) == /\ SameReady(x, y) /\ SameSleep(x, y) /\ SameTimes(x, y) /\ SameTop(x, y) /\ SameCo(x, y)
                  /\ SameState(x, y)

LEMMA KeptWell ==
    ASSUME NEW x, NEW y, Well(x), y \in CoType, SameRest(x, y), SameWaits(x, y)
    PROVE  Well(y) /\ Placed(y) = Placed(x) /\ Asleep(y) = Asleep(x) /\ ReadySet(y) = ReadySet(x)
<1>1. GoodLists(y)
    BY KeptLists DEF Well, SameRest
<1>2. ReadySet(y) = ReadySet(x) /\ Apart3(y) /\ Placed(y) = Placed(x) /\ TopOK(y)
    BY KeptReady DEF Well, SameRest
<1>3. TimesOK(y) /\ Asleep(y) = Asleep(x)
    BY KeptTimes DEF Well, SameRest
<1>4. StateOK(y)
    BY KeptCalls DEF Well, SameRest
<1>5. WaitsOK(y)
    BY <1>2, KeptWaits DEF Well, SameRest
<1> QED BY <1>1, <1>2, <1>3, <1>4, <1>5 DEF Well

\* The co-routines that wait for messages, or for free places, of a queue may
\* be short of d wake-ups.
Change(op, op2, d) == IF op2 = op THEN d ELSE 0 - d

MessageCounted(x, y, q, d) ==
    /\ y \in CoType /\ SameRest(x, y) /\ SameWaits(x, y) /\ y.skipped = x.skipped
    /\ y.uxMessagesWaiting = [x.uxMessagesWaiting EXCEPT ![q] = x.uxMessagesWaiting[q] + d]
    /\ \A op2 \in Ops, q2 \in CoQueues, n \in Int : HeededBy(x, op2, q2, n) =>
           HeededBy(y, op2, q2, IF q2 = q THEN n + Change("crQUEUE_RECEIVE", op2, d) ELSE n)

LEMMA CountIs ==
    ASSUME NEW x \in CoType, NEW q \in CoQueues, NEW d \in Int, x.uxMessagesWaiting[q] + d \in Nat
    PROVE  MessageCounted(x, [x EXCEPT !.uxMessagesWaiting[q] = x.uxMessagesWaiting[q] + d], q, d)
<1> DEFINE f == [x.uxMessagesWaiting EXCEPT ![q] = x.uxMessagesWaiting[q] + d]
           y == [x EXCEPT !.uxMessagesWaiting = f]
<1>1. f \in [CoQueues -> Nat] /\ x.uxMessagesWaiting \in [CoQueues -> Nat]
    BY DEF CoType
<1>2. \A k \in CoQueues : f[k] = IF k = q THEN x.uxMessagesWaiting[k] + d ELSE x.uxMessagesWaiting[k]
    BY <1>1
<1> HIDE DEF f
<1>3. SameRest(x, y) /\ SameWaits(x, y) /\ y.skipped = x.skipped /\ y.uxMessagesWaiting = f
    BY DEF CoType, SameRest, SameReady, SameSleep, SameTimes, SameTop, SameCo, SameState, SameWaits
<1>4. y \in CoType
    BY <1>1 DEF CoType
<1> HIDE DEF y
<1>5. ASSUME NEW op2 \in Ops, NEW q2 \in CoQueues, NEW n \in Int, HeededBy(x, op2, q2, n)
      PROVE  HeededBy(y, op2, q2, IF q2 = q THEN n + Change("crQUEUE_RECEIVE", op2, d) ELSE n)
    <2> DEFINE W == Cardinality(WokenOf(x, op2, q2))
    <2>1. Waiters(y, op2, q2) = Waiters(x, op2, q2) /\ WokenOf(y, op2, q2) = WokenOf(x, op2, q2)
        BY <1>3, KeptWaits DEF SameRest
    <2>2. W \in Nat
        BY WokenFinite
    <2>3. CoLength[q2] \in Nat /\ x.uxMessagesWaiting[q2] \in Nat
        BY SupplyIs
    <2>4. Waiters(y, op2, q2) # {} => Supply(x, op2, q2) <= W + n
        BY <1>5, <2>1 DEF HeededBy
    <2> HIDE DEF W
    <2>5. op2 = "crQUEUE_SEND" \/ op2 = "crQUEUE_RECEIVE"
        BY DEF Ops
    <2>6. Waiters(y, op2, q2) # {} => Supply(y, op2, q2) <= W + (IF q2 = q THEN n + Change("crQUEUE_RECEIVE", op2, d) ELSE n)
        BY <1>2, <1>3, <2>2, <2>3, <2>4, <2>5 DEF Supply, Change
    <2> QED BY <2>1, <2>6 DEF HeededBy, W
<1>6. MessageCounted(x, y, q, d)
    BY <1>3, <1>4, <1>5 DEF MessageCounted, f
<1> QED BY <1>6 DEF y, f

\* The queue has d messages more, the first of those that wait for this is
\* told, and the others may be one wake-up short.
Served(x, y, op, q) ==
    /\ Well(y) /\ Placed(y) = Placed(x) /\ Asleep(y) = Asleep(x) /\ ReadySet(y) = ReadySet(x)
    /\ SameRest(x, y) /\ y.skipped = x.skipped
    /\ \A o \in Ops, k \in CoQueues : Waiters(y, o, k) \subseteq Waiters(x, o, k)
    /\ \A k \in CoQueues : y.uxMessagesWaiting[k] <= CoLength[k]
    /\ \A o \in Ops, k \in CoQueues :
           k \notin x.skipped => HeededBy(y, o, k, IF k = q /\ o # op THEN 0 - 1 ELSE 0)

LEMMA ServedIs ==
    ASSUME NEW x, SoundCo(x), NEW q \in CoQueues, NEW op \in Ops, NEW d \in {1, 0 - 1},
           d = (IF op = "crQUEUE_RECEIVE" THEN 1 ELSE 0 - 1),
           x.uxMessagesWaiting[q] + d \in 0 .. CoLength[q]
    PROVE  LET z == [x EXCEPT !.uxMessagesWaiting[q] = x.uxMessagesWaiting[q] + d]
           IN  Served(x, Signal(z, EventList(x, op, q)).x, op, q)
<1> DEFINE z == [x EXCEPT !.uxMessagesWaiting[q] = x.uxMessagesWaiting[q] + d]
           y == Signal(z, EventList(x, op, q)).x
<1> SUFFICES Served(x, y, op, q)
    OBVIOUS
<1>1. x \in CoType /\ Well(x) /\ QueueOK(x)
    BY DEF SoundCo, Well
<1>2. x.uxMessagesWaiting[q] + d \in Nat /\ d \in Int
    BY SupplyIs, <1>1
<1>c. MessageCounted(x, z, q, d)
    BY <1>1, <1>2, CountIs
<1> HIDE DEF z
<1>3. /\ z \in CoType /\ SameRest(x, z) /\ SameWaits(x, z) /\ z.skipped = x.skipped
      /\ z.uxMessagesWaiting = [x.uxMessagesWaiting EXCEPT ![q] = x.uxMessagesWaiting[q] + d]
      /\ \A o \in Ops, k \in CoQueues, n \in Int : HeededBy(x, o, k, n) =>
             HeededBy(z, o, k, IF k = q THEN n + Change("crQUEUE_RECEIVE", o, d) ELSE n)
    BY <1>c DEF MessageCounted
<1>4. Well(z) /\ Placed(z) = Placed(x) /\ Asleep(z) = Asleep(x) /\ ReadySet(z) = ReadySet(x)
    BY <1>1, <1>3, KeptWell
<1>5. \A k \in CoQueues : z.uxMessagesWaiting[k] <= CoLength[k]
    <2>1. x.uxMessagesWaiting \in [CoQueues -> Nat]
        BY <1>1 DEF CoType
    <2>2. \A k \in CoQueues : k # q => z.uxMessagesWaiting[k] = x.uxMessagesWaiting[k]
        BY <1>3, <2>1
    <2>3. z.uxMessagesWaiting[q] = x.uxMessagesWaiting[q] + d
        BY <1>3, <2>1
    <2>4. \A k \in CoQueues : x.uxMessagesWaiting[k] <= CoLength[k]
        BY <1>1 DEF QueueOK
    <2>5. z.uxMessagesWaiting[q] <= CoLength[q]
        BY <2>3
    <2> QED BY <2>2, <2>4, <2>5
<1>6. ASSUME NEW o \in Ops, NEW k \in CoQueues, k \notin x.skipped
      PROVE  HeededBy(z, o, k, IF k # q THEN 0 ELSE IF o = op THEN 1 ELSE 0 - 1)
    <2>1. HeededBy(x, o, k, 0)
        BY <1>1, <1>6 DEF QueueOK
    <2>2. HeededBy(z, o, k, IF k = q THEN 0 + Change("crQUEUE_RECEIVE", o, d) ELSE 0)
        BY <1>3, <2>1
    <2>3. 0 + Change("crQUEUE_RECEIVE", o, d) = IF o = op THEN 1 ELSE 0 - 1
        BY DEF Change, Ops
    <2> QED BY <2>2, <2>3
<1>7. \A o, k : Waiters(z, o, k) = Waiters(x, o, k)
    BY <1>3, KeptWaits DEF SameRest
<1>8. z \in CoType /\ GoodLists(z) /\ WaitsOK(z) /\ EventList(z, op, q) = EventList(x, op, q)
    BY <1>3, <1>4 DEF Well, EventList, SameWaits
<1>9. \/ Waiters(z, op, q) = {} /\ y = z
      \/ \E r \in Waiters(z, op, q) : r \in CoRoutines /\ Told(z, y, r)
    BY <1>8, SignalIs
<1> HIDE DEF y
<1>10. CASE Waiters(z, op, q) = {} /\ y = z
    <2>1. ASSUME NEW o \in Ops, NEW k \in CoQueues, k \notin x.skipped
          PROVE  HeededBy(z, o, k, IF k = q /\ o # op THEN 0 - 1 ELSE 0)
        <3>1. CASE k = q /\ o = op
            BY <1>10, <3>1 DEF HeededBy
        <3>2. CASE ~(k = q /\ o = op)
            BY <1>6, <2>1, <3>2
        <3> QED BY <3>1, <3>2
    <2>2. Served(x, z, op, q)
        BY <1>3, <1>4, <1>5, <1>7, <2>1 DEF Served
    <2> QED BY <1>10, <2>2
<1>11. ASSUME NEW r \in Waiters(z, op, q), r \in CoRoutines, Told(z, y, r)
       PROVE  Served(x, y, op, q)
    <2>1. y \in CoType /\ GoodLists(y) /\ SameRest(z, y) /\ SameQueue(z, y)
        BY <1>11 DEF Told, SameRest
    <2>2. WaitsOK(y)
        BY <1>8, <1>11, ToldKeeps
    <2>3. ReadySet(y) = ReadySet(z) /\ Apart3(y) /\ Placed(y) = Placed(z) /\ TopOK(y)
        BY <1>4, <2>1, KeptReady DEF Well, SameRest
    <2>4. TimesOK(y) /\ Asleep(y) = Asleep(z)
        BY <1>4, <2>1, KeptTimes DEF Well, SameRest
    <2>5. StateOK(y)
        BY <1>4, <2>1, KeptCalls DEF Well, SameRest
    <2>6. Well(y)
        BY <2>1, <2>2, <2>3, <2>4, <2>5 DEF Well
    <2>7. ASSUME NEW o \in Ops, NEW k \in CoQueues, k \notin x.skipped
          PROVE  HeededBy(y, o, k, IF k = q /\ o # op THEN 0 - 1 ELSE 0)
        <3> DEFINE n == IF k # q THEN 0 ELSE IF o = op THEN 1 ELSE 0 - 1
        <3>1. HeededBy(z, o, k, n) /\ n \in Int
            BY <1>6, <2>7
        <3>2. (IF o = op /\ k = q THEN n - 1 ELSE n) = IF k = q /\ o # op THEN 0 - 1 ELSE 0
            OBVIOUS
        <3> HIDE DEF n
        <3>3. HeededBy(y, o, k, IF o = op /\ k = q THEN n - 1 ELSE n)
            BY <1>8, <1>11, <3>1, ToldCounts
        <3> QED BY <3>2, <3>3
    <2>8. SameRest(x, y) /\ y.skipped = x.skipped /\ y.uxMessagesWaiting = z.uxMessagesWaiting
        BY <1>3, <2>1 DEF SameRest, SameReady, SameSleep, SameTimes, SameTop, SameCo, SameState, SameQueue
    <2>9. \A o \in Ops, k \in CoQueues : Waiters(y, o, k) \subseteq Waiters(x, o, k)
        BY <1>7, <1>11 DEF Told
    <2> QED BY <1>4, <1>5, <2>3, <2>4, <2>6, <2>7, <2>8, <2>9 DEF Served
<1>12. CASE \E r \in Waiters(z, op, q) : r \in CoRoutines /\ Told(z, y, r)
    BY <1>11, <1>12
<1> QED BY <1>9, <1>10, <1>12

-----------------------------------------------------------------------------
(* A co-routine goes on in its program. *)

Steady(x, me, st) ==
    /\ st \in [line : Nat, phase : Phases] /\ st.line \in 1 .. Len(CoProgram[me])
    /\ st.phase \in {"blocked", "second"} => CoProgram[me][st.line].op \in Ops
    /\ \A o \in Ops, k \in CoQueues : me \notin Waiters(x, o, k)

Moved(x, y, me) ==
    /\ Well(y) /\ Placed(y) = Placed(x) /\ Asleep(y) = Asleep(x) /\ ReadySet(y) = ReadySet(x)
    /\ SameWaits(x, y) /\ SameQueue(x, y) /\ SameCo(x, y)
    /\ \A o \in Ops, k \in CoQueues, n \in Int : HeededBy(x, o, k, n) =>
           HeededBy(y, o, k, IF Calls(x, me, o, k) /\ ~Calls(y, me, o, k) THEN n + 1 ELSE n)

LEMMA MovedIs ==
    ASSUME NEW x, Well(x), NEW me \in CoRoutines, NEW st, Steady(x, me, st)
    PROVE  LET y == [x EXCEPT !.uxState[me] = st]
           IN  Moved(x, y, me) /\ y.uxState[me] = st
<1> DEFINE f == [x.uxState EXCEPT ![me] = st]
           y == [x EXCEPT !.uxState = f]
<1> SUFFICES Moved(x, y, me) /\ y.uxState[me] = st
    OBVIOUS
<1>1. x \in CoType /\ x.uxState \in [CoRoutines -> [line : Nat, phase : Phases]]
    BY DEF Well, CoType
<1>2. f \in [CoRoutines -> [line : Nat, phase : Phases]] /\ f[me] = st
      /\ \A r \in CoRoutines : r # me => f[r] = x.uxState[r]
    BY <1>1 DEF Steady
<1> HIDE DEF f
<1>3. /\ SameReady(x, y) /\ SameSleep(x, y) /\ SameTimes(x, y) /\ SameTop(x, y) /\ SameCo(x, y)
      /\ SameWaits(x, y) /\ SameQueue(x, y) /\ y.uxState = f
    BY <1>1 DEF CoType, SameReady, SameSleep, SameTimes, SameTop, SameCo, SameWaits, SameQueue
<1>4. y \in CoType
    BY <1>1, <1>2 DEF CoType
<1> HIDE DEF y
<1>5. GoodLists(y) /\ Apart3(y) /\ Placed(y) = Placed(x) /\ ReadySet(y) = ReadySet(x) /\ TopOK(y)
    BY <1>3, KeptLists, KeptReady DEF Well
<1>6. TimesOK(y) /\ Asleep(y) = Asleep(x)
    BY <1>3, KeptTimes DEF Well
<1>7. \A r \in CoRoutines : r # me => MacroOf(y, r) = MacroOf(x, r) /\ y.uxState[r] = x.uxState[r]
    BY <1>2, <1>3 DEF MacroOf
<1>8. \A r \in CoRoutines : r # me => \A o, k : Calls(y, r, o, k) = Calls(x, r, o, k)
    BY <1>7 DEF Calls
<1>9. MacroOf(y, me) = CoProgram[me][st.line] /\ y.uxState[me] = st
    BY <1>2, <1>3 DEF MacroOf
<1>10. StateOK(y)
    BY <1>7, <1>9 DEF StateOK, Steady, Well
<1>11. \A o \in Ops, k \in CoQueues : Waiters(y, o, k) = Waiters(x, o, k) /\ Waiters(x, o, k) \subseteq CoRoutines
    <2>1. \A k \in CoQueues : x.toSend[k] \in Seq(CoRoutines) /\ x.toReceive[k] \in Seq(CoRoutines)
        BY <1>1 DEF CoType
    <2>2. \A k \in CoQueues : Elements(x.toSend[k]) \subseteq CoRoutines /\ Elements(x.toReceive[k]) \subseteq CoRoutines
        BY <2>1, HeadIs
    <2> QED BY <1>3, <2>2 DEF Waiters, SameWaits
<1>12. WaitsOK(y)
    <2>1. ASSUME NEW o \in Ops, NEW k \in CoQueues, NEW r \in Waiters(y, o, k)
          PROVE  r \notin ReadySet(y) /\ y.uxState[r].phase = "blocked" /\ Calls(y, r, o, k)
        <3>1. r \in Waiters(x, o, k) /\ r \in CoRoutines /\ r # me
            BY <1>11, <2>1 DEF Steady
        <3> QED BY <1>5, <1>7, <1>8, <3>1 DEF WaitsOK, Well
    <2>2. \A r \in Elements(y.xPendingReady) :
              r \notin ReadySet(y) /\ \A o \in Ops, k \in CoQueues : r \notin Waiters(y, o, k)
        BY <1>3, <1>5, <1>11 DEF WaitsOK, SameWaits, Well
    <2> QED BY <2>1, <2>2 DEF WaitsOK
<1>13. Well(y)
    BY <1>4, <1>5, <1>6, <1>10, <1>12 DEF Well
<1>14. ASSUME NEW o \in Ops, NEW k \in CoQueues, NEW n \in Int, HeededBy(x, o, k, n)
       PROVE  HeededBy(y, o, k, IF Calls(x, me, o, k) /\ ~Calls(y, me, o, k) THEN n + 1 ELSE n)
    <2> DEFINE V == WokenOf(x, o, k)
               W == WokenOf(y, o, k)
    <2>1. Waiters(y, o, k) = Waiters(x, o, k) /\ me \notin Waiters(x, o, k)
        BY <1>11 DEF Steady
    <2>2. Supply(y, o, k) = Supply(x, o, k) /\ Supply(x, o, k) \in Int
        BY <1>1, <1>3, SupplyIs DEF SameQueue, Supply
    <2>3. IsFiniteSet(W) /\ IsFiniteSet(V) /\ Cardinality(W) \in Nat /\ Cardinality(V) \in Nat
        BY WokenFinite
    <2>4. \A r \in CoRoutines : r # me => (r \in W <=> r \in V)
        BY <1>8, <2>1 DEF WokenOf
    <2>5. (me \in V <=> Calls(x, me, o, k)) /\ (me \in W <=> Calls(y, me, o, k)) /\ V \subseteq CoRoutines /\ W \subseteq CoRoutines
        BY <2>1 DEF WokenOf
    <2>6. Waiters(y, o, k) # {} => Supply(y, o, k) <= Cardinality(V) + n
        BY <1>14, <2>1, <2>2 DEF HeededBy
    <2> HIDE DEF V, W
    <2>7. CASE me \in V /\ me \notin W
        <3>1. V = W \cup {me}
            BY <2>4, <2>5, <2>7
        <3>2. Cardinality(V) = Cardinality(W) + 1
            BY <2>3, <2>7, <3>1, FS_AddElement
        <3> QED BY <2>2, <2>3, <2>5, <2>6, <2>7, <3>2 DEF HeededBy, W
    <2>8. CASE ~(me \in V /\ me \notin W)
        <3>1. V \subseteq W
            BY <2>4, <2>5, <2>8
        <3>2. Cardinality(V) <= Cardinality(W)
            BY <2>3, <3>1, FS_Subset
        <3> QED BY <2>2, <2>3, <2>5, <2>6, <2>8, <3>2 DEF HeededBy, W
    <2> QED BY <2>7, <2>8
<1> QED BY <1>3, <1>5, <1>6, <1>9, <1>13, <1>14 DEF Moved

NextMacro(x, me) == [line |-> (x.uxState[me].line % Len(CoProgram[me])) + 1, phase |-> "call"]

LEMMA SteadyIs ==
    ASSUME NEW x, Well(x), NEW me \in CoRoutines, \A o \in Ops, k \in CoQueues : me \notin Waiters(x, o, k)
    PROVE  /\ Steady(x, me, NextMacro(x, me))
           /\ \A phase \in Phases : (phase \in {"blocked", "second"} => MacroOf(x, me).op \in Ops) =>
                  Steady(x, me, [x.uxState[me] EXCEPT !.phase = phase])
<1> DEFINE N == Len(CoProgram[me])
           s == x.uxState[me]
<1>1. s \in [line : Nat, phase : Phases] /\ s.line \in 1 .. N
    BY DEF Well, CoType, StateOK
<1>2. N \in Nat \ {0}
    <2>1. CoProgram[me] \in Seq(Macros) /\ CoProgram[me] # <<>>
        BY CoAssumption
    <2> QED BY <2>1
<1>3. (s.line % N) + 1 \in 1 .. N /\ (s.line % N) + 1 \in Nat
    <2> HIDE DEF N, s
    <2>1. s.line \in Nat
        BY <1>1
    <2> QED BY <1>2, <2>1
<1>4. Steady(x, me, NextMacro(x, me))
    BY <1>3 DEF Steady, NextMacro, Phases
<1>5. ASSUME NEW phase \in Phases, phase \in {"blocked", "second"} => MacroOf(x, me).op \in Ops
      PROVE  Steady(x, me, [x.uxState[me] EXCEPT !.phase = phase])
    <2> DEFINE st == [s EXCEPT !.phase = phase]
    <2> HIDE DEF s
    <2>1. st \in [line : Nat, phase : Phases] /\ st.line = s.line /\ st.phase = phase
        BY <1>1
    <2> HIDE DEF st
    <2>2. Steady(x, me, st)
        BY <1>1, <1>5, <2>1 DEF Steady, MacroOf, s
    <2> QED BY <2>2 DEF st, s
<1> QED BY <1>4, <1>5

-----------------------------------------------------------------------------
(* A co-routine that was told, or whose time has come, is ready again. *)

Readied(x, y, r) ==
    /\ y \in CoType /\ GoodLists(y)
    /\ \A p \in CoPriorities : ReadyIn(y, p) = IF p = CoPriority[r] THEN ReadyIn(x, p) \cup {r} ELSE ReadyIn(x, p) \ {r}
    /\ Elements(y.pxDelayed) = Elements(x.pxDelayed) \ {r}
    /\ Elements(y.pxOverflowDelayed) = Elements(x.pxOverflowDelayed) \ {r}
    /\ SortedBy(x.pxDelayed, x.wake) => SortedBy(y.pxDelayed, y.wake)
    /\ SortedBy(x.pxOverflowDelayed, x.wake) => SortedBy(y.pxOverflowDelayed, y.wake)
    /\ Elements(y.xPendingReady) = Elements(x.xPendingReady) \ {r}
    /\ \A o \in Ops, k \in CoQueues : Waiters(y, o, k) = Waiters(x, o, k) \ {r}
    /\ y.uxTopCoRoutineReadyPriority = IF CoPriority[r] > x.uxTopCoRoutineReadyPriority
                                       THEN CoPriority[r] ELSE x.uxTopCoRoutineReadyPriority
    /\ SameTimes(x, y) /\ SameCo(x, y) /\ SameState(x, y) /\ SameQueue(x, y)

LEMMA ReadiedCounts ==
    ASSUME NEW x \in CoType, NEW r \in CoRoutines, NEW y, Readied(x, y, r),
           NEW o \in Ops, NEW k \in CoQueues, HeededBy(x, o, k, 0)
    PROVE  HeededBy(y, o, k, 0)
<1> DEFINE V == WokenOf(x, o, k)
           W == WokenOf(y, o, k)
<1>1. Waiters(y, o, k) = Waiters(x, o, k) \ {r}
    BY DEF Readied
<1>2. \A a : Calls(y, a, o, k) = Calls(x, a, o, k)
    BY KeptCalls DEF Readied
<1>3. Supply(y, o, k) = Supply(x, o, k) /\ Supply(x, o, k) \in Int
    BY SupplyIs DEF Readied, SameQueue, Supply
<1>4. IsFiniteSet(W) /\ Cardinality(W) \in Nat /\ Cardinality(V) \in Nat
    BY WokenFinite
<1>5. V \subseteq W
    BY <1>1, <1>2 DEF WokenOf
<1> HIDE DEF V, W
<1>6. Cardinality(V) <= Cardinality(W)
    BY <1>4, <1>5, FS_Subset
<1> QED BY <1>1, <1>3, <1>4, <1>6 DEF HeededBy, V, W

LEMMA ReadiedKeeps ==
    ASSUME NEW x, SoundCo(x), NEW r \in CoRoutines, NEW y, Readied(x, y, r)
    PROVE  /\ SoundCo(y) /\ (Placed(x) => Placed(y)) /\ (Asleep(x) => Asleep(y))
           /\ ReadySet(y) = ReadySet(x) \cup {r}
<1>1. x \in CoType /\ GoodLists(x) /\ Well(x)
    BY DEF SoundCo, Well
<1>2. \A a \in CoRoutines : CoPriority[a] \in CoPriorities /\ CoPriority[a] \in Nat
    BY CoAssumption DEF CoPriorities
<1>3. ReadySet(y) = ReadySet(x) \cup {r}
    BY <1>2 DEF ReadySet, Readied
<1>4. Apart3(y) /\ (Placed(x) => Placed(y))
    BY <1>1, <1>3 DEF Apart3, Placed, Readied, Well
<1>5. TimesOK(y) /\ (Asleep(x) => Asleep(y))
    BY <1>1 DEF TimesOK, Asleep, Readied, SameTimes, Well
<1>6. StateOK(y) /\ \A a, o, k : Calls(y, a, o, k) = Calls(x, a, o, k)
    BY <1>1, KeptCalls DEF Readied, Well
<1>7. WaitsOK(y)
    BY <1>1, <1>3, <1>6 DEF WaitsOK, Readied, SameState, Well
<1>8. TopOK(y)
    <2>1. x.uxTopCoRoutineReadyPriority \in Nat
        BY <1>1 DEF CoType
    <2>2. \A p \in CoPriorities : p \in Nat
        BY CoAssumption DEF CoPriorities
    <2>3. ASSUME NEW p \in CoPriorities, ReadyIn(y, p) # {}
          PROVE  p <= y.uxTopCoRoutineReadyPriority
        <3>1. p # CoPriority[r] => ReadyIn(x, p) # {}
            BY <2>3 DEF Readied
        <3>2. p # CoPriority[r] => p <= x.uxTopCoRoutineReadyPriority
            BY <1>1, <3>1 DEF TopOK, Well
        <3> QED BY <1>2, <2>1, <2>2, <3>2 DEF Readied
    <2> QED BY <2>3 DEF TopOK
<1>9. Well(y)
    BY <1>4, <1>5, <1>6, <1>7, <1>8 DEF Well, Readied
<1>10. QueueOK(y)
    <2>1. \A k \in CoQueues : y.uxMessagesWaiting[k] <= CoLength[k]
        BY DEF QueueOK, Readied, SameQueue, SoundCo
    <2>2. ASSUME NEW o \in Ops, NEW k \in CoQueues, k \notin y.skipped PROVE HeededBy(y, o, k, 0)
        <3>1. HeededBy(x, o, k, 0)
            BY <2>2 DEF QueueOK, Readied, SameQueue, SoundCo
        <3> QED BY <1>1, <3>1, ReadiedCounts
    <2> QED BY <2>1, <2>2 DEF QueueOK
<1> QED BY <1>3, <1>4, <1>5, <1>9, <1>10 DEF SoundCo

LEMMA PendingReadied ==
    ASSUME NEW x \in CoType, GoodLists(x), NEW r \in CoRoutines
    PROVE  Readied(x, prvAddCoRoutineToReadyQueue(RemoveGeneric(RemoveEventCo(x, r), r), r), r)
<1> DEFINE u == RemoveEventCo(x, r)
           v == RemoveGeneric(u, r)
           y == prvAddCoRoutineToReadyQueue(v, r)
<1>1. /\ u \in CoType /\ GoodLists(u) /\ Elements(u.xPendingReady) = Elements(x.xPendingReady) \ {r}
      /\ SameReady(x, u) /\ SameSleep(x, u) /\ SameTimes(x, u) /\ SameTop(x, u) /\ SameCo(x, u)
      /\ SameState(x, u) /\ SameQueue(x, u)
    BY RemoveEventIs
<1>2. \A o \in Ops, k \in CoQueues : Waiters(u, o, k) = Waiters(x, o, k) \ {r}
    BY WaitersIs
<1> HIDE DEF u
<1>3. /\ v \in CoType /\ GoodLists(v)
      /\ \A p \in CoPriorities : ReadyIn(v, p) = ReadyIn(u, p) \ {r}
      /\ Elements(v.pxDelayed) = Elements(u.pxDelayed) \ {r}
      /\ Elements(v.pxOverflowDelayed) = Elements(u.pxOverflowDelayed) \ {r}
      /\ \A w \in [CoRoutines -> Int] : SortedBy(u.pxDelayed, w) => SortedBy(v.pxDelayed, w)
      /\ \A w \in [CoRoutines -> Int] : SortedBy(u.pxOverflowDelayed, w) => SortedBy(v.pxOverflowDelayed, w)
      /\ SameWaits(u, v) /\ SameTimes(u, v) /\ SameTop(u, v) /\ SameCo(u, v) /\ SameState(u, v) /\ SameQueue(u, v)
    BY <1>1, RemoveGenericIs
<1> HIDE DEF v
<1>4. r \notin ReadySet(v)
    BY <1>3, CoAssumption DEF ReadySet, CoPriorities
<1>5. /\ y \in CoType /\ GoodLists(y)
      /\ \A p \in CoPriorities :
             ReadyIn(y, p) = IF p = CoPriority[r] THEN ReadyIn(v, p) \cup {r} ELSE ReadyIn(v, p)
      /\ y.uxTopCoRoutineReadyPriority = IF CoPriority[r] > v.uxTopCoRoutineReadyPriority
                                         THEN CoPriority[r] ELSE v.uxTopCoRoutineReadyPriority
      /\ SameSleep(v, y) /\ SameWaits(v, y) /\ SameTimes(v, y) /\ SameCo(v, y)
      /\ SameState(v, y) /\ SameQueue(v, y)
    BY <1>3, <1>4, AddReadyIs
<1> HIDE DEF y
<1>6. SameTimes(x, y) /\ SameCo(x, y) /\ SameState(x, y) /\ SameQueue(x, y)
    BY <1>1, <1>3, <1>5 DEF SameTimes, SameCo, SameState, SameQueue
<1>7. \A p \in CoPriorities : ReadyIn(y, p) = IF p = CoPriority[r] THEN ReadyIn(x, p) \cup {r} ELSE ReadyIn(x, p) \ {r}
    <2>1. \A p : ReadyIn(u, p) = ReadyIn(x, p)
        BY <1>1, KeptReady
    <2> QED BY <1>3, <1>5, <2>1
<1>8. /\ Elements(y.pxDelayed) = Elements(x.pxDelayed) \ {r}
      /\ Elements(y.pxOverflowDelayed) = Elements(x.pxOverflowDelayed) \ {r}
    BY <1>1, <1>3, <1>5 DEF SameSleep
<1>9. x.wake \in [CoRoutines -> Int] /\ y.wake = x.wake
    BY <1>6 DEF CoType, SameTimes
<1>10. /\ SortedBy(x.pxDelayed, x.wake) => SortedBy(y.pxDelayed, y.wake)
       /\ SortedBy(x.pxOverflowDelayed, x.wake) => SortedBy(y.pxOverflowDelayed, y.wake)
    BY <1>1, <1>3, <1>5, <1>9 DEF SameSleep
<1>11. Elements(y.xPendingReady) = Elements(x.xPendingReady) \ {r}
    BY <1>1, <1>3, <1>5 DEF SameWaits
<1>12. \A o, k : Waiters(y, o, k) = Waiters(u, o, k)
    BY <1>3, <1>5 DEF SameWaits, Waiters
<1>13. y.uxTopCoRoutineReadyPriority = IF CoPriority[r] > x.uxTopCoRoutineReadyPriority
                                       THEN CoPriority[r] ELSE x.uxTopCoRoutineReadyPriority
    BY <1>1, <1>3, <1>5 DEF SameTop
<1>14. Readied(x, y, r)
    BY <1>2, <1>5, <1>6, <1>7, <1>8, <1>10, <1>11, <1>12, <1>13 DEF Readied
<1> QED BY <1>14 DEF y, v, u

LEMMA ExpiredReadied ==
    ASSUME NEW x \in CoType, GoodLists(x), NEW r \in CoRoutines
    PROVE  Readied(x, prvAddCoRoutineToReadyQueue(RemoveEventCo(RemoveGeneric(x, r), r), r), r)
<1> DEFINE v == RemoveGeneric(x, r)
           u == RemoveEventCo(v, r)
           y == prvAddCoRoutineToReadyQueue(u, r)
<1>1. /\ v \in CoType /\ GoodLists(v)
      /\ \A p \in CoPriorities : ReadyIn(v, p) = ReadyIn(x, p) \ {r}
      /\ Elements(v.pxDelayed) = Elements(x.pxDelayed) \ {r}
      /\ Elements(v.pxOverflowDelayed) = Elements(x.pxOverflowDelayed) \ {r}
      /\ \A w \in [CoRoutines -> Int] : SortedBy(x.pxDelayed, w) => SortedBy(v.pxDelayed, w)
      /\ \A w \in [CoRoutines -> Int] : SortedBy(x.pxOverflowDelayed, w) => SortedBy(v.pxOverflowDelayed, w)
      /\ SameWaits(x, v) /\ SameTimes(x, v) /\ SameTop(x, v) /\ SameCo(x, v) /\ SameState(x, v) /\ SameQueue(x, v)
    BY RemoveGenericIs
<1> HIDE DEF v
<1>2. /\ u \in CoType /\ GoodLists(u) /\ Elements(u.xPendingReady) = Elements(v.xPendingReady) \ {r}
      /\ SameReady(v, u) /\ SameSleep(v, u) /\ SameTimes(v, u) /\ SameTop(v, u) /\ SameCo(v, u)
      /\ SameState(v, u) /\ SameQueue(v, u)
    BY <1>1, RemoveEventIs
<1>3. \A o \in Ops, k \in CoQueues : Waiters(u, o, k) = Waiters(v, o, k) \ {r}
    BY <1>1, WaitersIs
<1> HIDE DEF u
<1>4. \A p : ReadyIn(u, p) = ReadyIn(v, p)
    BY <1>2, KeptReady
<1>5. r \notin ReadySet(u)
    BY <1>1, <1>4, CoAssumption DEF ReadySet, CoPriorities
<1>6. /\ y \in CoType /\ GoodLists(y)
      /\ \A p \in CoPriorities :
             ReadyIn(y, p) = IF p = CoPriority[r] THEN ReadyIn(u, p) \cup {r} ELSE ReadyIn(u, p)
      /\ y.uxTopCoRoutineReadyPriority = IF CoPriority[r] > u.uxTopCoRoutineReadyPriority
                                         THEN CoPriority[r] ELSE u.uxTopCoRoutineReadyPriority
      /\ SameSleep(u, y) /\ SameWaits(u, y) /\ SameTimes(u, y) /\ SameCo(u, y)
      /\ SameState(u, y) /\ SameQueue(u, y)
    BY <1>2, <1>5, AddReadyIs
<1> HIDE DEF y
<1>7. SameTimes(x, y) /\ SameCo(x, y) /\ SameState(x, y) /\ SameQueue(x, y)
    BY <1>1, <1>2, <1>6 DEF SameTimes, SameCo, SameState, SameQueue
<1>8. \A p \in CoPriorities : ReadyIn(y, p) = IF p = CoPriority[r] THEN ReadyIn(x, p) \cup {r} ELSE ReadyIn(x, p) \ {r}
    BY <1>1, <1>4, <1>6
<1>9. /\ Elements(y.pxDelayed) = Elements(x.pxDelayed) \ {r}
      /\ Elements(y.pxOverflowDelayed) = Elements(x.pxOverflowDelayed) \ {r}
    BY <1>1, <1>2, <1>6 DEF SameSleep
<1>10. x.wake \in [CoRoutines -> Int] /\ y.wake = x.wake
    BY <1>7 DEF CoType, SameTimes
<1>11. /\ SortedBy(x.pxDelayed, x.wake) => SortedBy(y.pxDelayed, y.wake)
       /\ SortedBy(x.pxOverflowDelayed, x.wake) => SortedBy(y.pxOverflowDelayed, y.wake)
    BY <1>1, <1>2, <1>6, <1>10 DEF SameSleep
<1>12. Elements(y.xPendingReady) = Elements(x.xPendingReady) \ {r}
    BY <1>1, <1>2, <1>6 DEF SameWaits
<1>13. \A o, k : Waiters(y, o, k) = Waiters(u, o, k) /\ Waiters(v, o, k) = Waiters(x, o, k)
    BY <1>1, <1>6 DEF SameWaits, Waiters
<1>14. y.uxTopCoRoutineReadyPriority = IF CoPriority[r] > x.uxTopCoRoutineReadyPriority
                                       THEN CoPriority[r] ELSE x.uxTopCoRoutineReadyPriority
    BY <1>1, <1>2, <1>6 DEF SameTop
<1>15. Readied(x, y, r)
    BY <1>3, <1>6, <1>7, <1>8, <1>9, <1>11, <1>12, <1>13, <1>14 DEF Readied
<1> QED BY <1>15 DEF y, v, u

-----------------------------------------------------------------------------
(* The scheduler. *)

LEMMA KeptSound ==
    ASSUME NEW x, NEW y, SoundCo(x), y \in CoType, SameRest(x, y), SameWaits(x, y), SameQueue(x, y)
    PROVE  SoundCo(y) /\ Placed(y) = Placed(x) /\ Asleep(y) = Asleep(x) /\ ReadySet(y) = ReadySet(x)
<1>1. QueueOK(y)
    BY KeptWaits DEF SoundCo, SameRest
<1> QED BY <1>1, KeptWell DEF SoundCo

LEMMA PendingKeeps ==
    ASSUME CoInv, prvCheckPendingReadyList
    PROVE  CoInv'
<1>1. SoundCo(c) /\ c \in CoType /\ GoodLists(c) /\ Placed(c) /\ Asleep(c) /\ at = "pending"
    BY DEF CoInv, SoundCo, Well, prvCheckPendingReadyList
<1>2. CASE c.xPendingReady = <<>>
    <2> DEFINE passed == (c.now + CoTickMod - c.xLastTickCount) % CoTickMod
    <2>1. at' = "ticks" /\ c' = [c EXCEPT !.xPassedTicks = passed]
        BY <1>2 DEF prvCheckPendingReadyList
    <2>2. passed \in Nat
        <3>1. CoTickMod \in Nat \ {0} /\ c.now \in 0 .. CoTickMod - 1 /\ c.xLastTickCount \in 0 .. CoTickMod - 1
            BY <1>1, CoAssumption DEF CoType
        <3>2. c.now + CoTickMod - c.xLastTickCount \in Int
            BY <3>1
        <3> QED BY <3>1, <3>2
    <2> HIDE DEF passed
    <2>3. c' \in CoType
        BY <1>1, <2>1, <2>2 DEF CoType
    <2>4. SameRest(c, c') /\ SameWaits(c, c') /\ SameQueue(c, c')
        BY <1>1, <2>1 DEF CoType, SameRest, SameReady, SameSleep, SameTimes, SameTop, SameCo, SameState, SameWaits, SameQueue
    <2>5. SoundCo(c') /\ Placed(c') /\ Asleep(c')
        BY <1>1, <2>3, <2>4, KeptSound
    <2> QED BY <2>1, <2>5 DEF CoInv, CoPlaces
<1>3. CASE c.xPendingReady # <<>>
    <2> DEFINE r == Head(c.xPendingReady)
    <2>1. c' = prvAddCoRoutineToReadyQueue(RemoveGeneric(RemoveEventCo(c, r), r), r) /\ at' = at
        BY <1>3 DEF prvCheckPendingReadyList
    <2>2. r \in CoRoutines
        BY <1>1, <1>3, HeadIs DEF CoType
    <2> HIDE DEF r
    <2>3. Readied(c, c', r)
        BY <1>1, <2>1, <2>2, PendingReadied
    <2>4. SoundCo(c') /\ Placed(c') /\ Asleep(c')
        BY <1>1, <2>2, <2>3, ReadiedKeeps
    <2> QED BY <1>1, <2>1, <2>4 DEF CoInv, CoPlaces
<1> QED BY <1>2, <1>3

\* The last tick before the counter starts again finds nobody in the list of
\* this turn, and those of the next turn have a turn less to go.
LEMMA PassTickKeeps ==
    ASSUME CoInv, PassTick
    PROVE  CoInv'
<1>1. SoundCo(c) /\ Well(c) /\ c \in CoType /\ GoodLists(c) /\ Placed(c) /\ Asleep(c) /\ at = "ticks" /\ TimesOK(c)
    BY DEF CoInv, SoundCo, Well, PassTick
<1>2. CASE c.xPassedTicks = 0
    <2>1. at' = "select" /\ c' = [c EXCEPT !.xLastTickCount = c.xCoRoutineTickCount]
        BY <1>2 DEF PassTick
    <2>2. c.xCoRoutineTickCount \in 0 .. CoTickMod - 1
        BY <1>1 DEF CoType
    <2>3. c' \in CoType
        BY <1>1, <2>1, <2>2 DEF CoType
    <2>4. SameRest(c, c') /\ SameWaits(c, c') /\ SameQueue(c, c')
        BY <1>1, <2>1 DEF CoType, SameRest, SameReady, SameSleep, SameTimes, SameTop, SameCo, SameState, SameWaits, SameQueue
    <2>5. SoundCo(c') /\ Placed(c') /\ Asleep(c')
        BY <1>1, <2>3, <2>4, KeptSound
    <2> QED BY <2>1, <2>5 DEF CoInv, CoPlaces
<1>3. CASE c.xPassedTicks # 0
    <2> DEFINE tick == (c.xCoRoutineTickCount + 1) % CoTickMod
               left == [r \in CoRoutines |-> IF c.left[r] = 0 THEN 0 ELSE c.left[r] - 1]
               passed == c.xPassedTicks - 1
               D == IF tick # 0 THEN c.pxDelayed ELSE c.pxOverflowDelayed
               O == IF tick # 0 THEN c.pxOverflowDelayed ELSE c.pxDelayed
               y == [c EXCEPT !.xCoRoutineTickCount = tick, !.xPassedTicks = passed, !.left = left,
                              !.pxDelayed = D, !.pxOverflowDelayed = O]
    <2>1. at' = "expire" /\ c' = y
        <3>1. at' = "expire" /\ c' = IF tick # 0 THEN [c EXCEPT !.xCoRoutineTickCount = tick, !.xPassedTicks = passed, !.left = left]
              ELSE [c EXCEPT !.xCoRoutineTickCount = tick, !.xPassedTicks = passed, !.left = left,
                             !.pxDelayed = c.pxOverflowDelayed, !.pxOverflowDelayed = c.pxDelayed]
            BY <1>1, <1>3 DEF PassTick, CoType
        <3> HIDE DEF tick, left, passed
        <3> QED BY <1>1, <3>1 DEF CoType
    <2>2. /\ CoTickMod \in Nat \ {0} /\ c.xCoRoutineTickCount \in 0 .. CoTickMod - 1
          /\ tick \in 0 .. CoTickMod - 1
          /\ tick = IF c.xCoRoutineTickCount = CoTickMod - 1 THEN 0 ELSE c.xCoRoutineTickCount + 1
        <3>1. CoTickMod \in Nat \ {0} /\ c.xCoRoutineTickCount \in 0 .. CoTickMod - 1
            BY <1>1, CoAssumption DEF CoType
        <3> DEFINE m == c.xCoRoutineTickCount
        <3> HIDE DEF m
        <3>2. m \in 0 .. CoTickMod - 1
            BY <3>1 DEF m
        <3>3. (m + 1) % CoTickMod = IF m = CoTickMod - 1 THEN 0 ELSE m + 1
            <4>1. CASE m = CoTickMod - 1
                BY <3>1, <4>1
            <4>2. CASE m # CoTickMod - 1
                BY <3>1, <3>2, <4>2
            <4> QED BY <4>1, <4>2
        <3> QED BY <3>1, <3>2, <3>3 DEF m
    <2>3. left \in [CoRoutines -> Nat] /\ passed \in Nat
        <3>1. c.left \in [CoRoutines -> Nat] /\ c.xPassedTicks \in Nat
            BY <1>1 DEF CoType
        <3>2. \A r \in CoRoutines : c.left[r] \in Nat
            BY <3>1
        <3> QED BY <1>3, <3>1, <3>2
    <2>4. /\ D \in Seq(CoRoutines) /\ O \in Seq(CoRoutines) /\ Distinct(D) /\ Distinct(O)
          /\ SortedBy(D, c.wake) /\ SortedBy(O, c.wake)
        BY <1>1 DEF CoType, GoodLists, TimesOK
    <2>5. \A r \in CoRoutines : c.left[r] \in Nat /\ c.wake[r] \in 0 .. CoTickMod - 1
                                /\ (c.left[r] > 0 => left[r] = c.left[r] - 1)
        <3>1. c.left \in [CoRoutines -> Nat] /\ c.wake \in [CoRoutines -> 0 .. CoTickMod - 1]
            BY <1>1 DEF CoType
        <3> HIDE DEF tick, passed
        <3> QED BY <3>1
    <2>6. \A r \in Elements(c.pxDelayed) : r \in CoRoutines /\ c.wake[r] = c.xCoRoutineTickCount + c.left[r] /\ c.left[r] > 0
        BY <1>1, HeadIs DEF TimesOK, Asleep, CoType
    <2>7. \A r \in Elements(c.pxOverflowDelayed) : r \in CoRoutines /\ c.wake[r] + CoTickMod = c.xCoRoutineTickCount + c.left[r]
        BY <1>1, HeadIs DEF TimesOK, CoType
    <2> HIDE DEF left, passed
    <2>8. /\ \A r \in Elements(D) : c.wake[r] = tick + left[r]
          /\ \A r \in Elements(O) : c.wake[r] + CoTickMod = tick + left[r]
        <3>1. CASE tick # 0
            <4>1. D = c.pxDelayed /\ O = c.pxOverflowDelayed /\ tick = c.xCoRoutineTickCount + 1
                BY <2>2, <3>1
            <4> HIDE DEF tick, D, O
            <4> QED BY <2>2, <2>5, <2>6, <2>7, <4>1
        <3>2. CASE tick = 0
            <4>1. D = c.pxOverflowDelayed /\ O = c.pxDelayed /\ c.xCoRoutineTickCount = CoTickMod - 1
                BY <2>2, <3>2
            <4> HIDE DEF tick, D, O
            <4>2. Elements(c.pxDelayed) = {}
                BY <2>2, <2>5, <2>6, <4>1
            <4> QED BY <2>2, <2>5, <2>7, <3>2, <4>1, <4>2
        <3> QED BY <3>1, <3>2
    <2>10. Elements(D) \cup Elements(O) = Elements(c.pxDelayed) \cup Elements(c.pxOverflowDelayed)
           /\ Elements(D) \cap Elements(O) = Elements(c.pxDelayed) \cap Elements(c.pxOverflowDelayed)
        OBVIOUS
    <2> HIDE DEF tick, D, O
    <2>11. y \in CoType
        BY <1>1, <2>2, <2>3, <2>4 DEF CoType
    <2>12. /\ y.pxDelayed = D /\ y.pxOverflowDelayed = O /\ y.left = left /\ y.xCoRoutineTickCount = tick
           /\ y.wake = c.wake /\ y.early = c.early
           /\ SameReady(c, y) /\ SameWaits(c, y) /\ SameTop(c, y) /\ SameState(c, y) /\ SameQueue(c, y)
        BY <1>1 DEF CoType, SameReady, SameWaits, SameTop, SameState, SameQueue
    <2> HIDE DEF y
    <2>13. GoodLists(y)
        BY <1>1, <2>4, <2>12 DEF GoodLists, SameReady, SameWaits
    <2>14. ReadySet(y) = ReadySet(c) /\ TopOK(y)
        BY <1>1, <2>12, KeptReady DEF Well
    <2>15. Apart3(y) /\ Placed(y)
        BY <1>1, <2>10, <2>12, <2>14 DEF Apart3, Placed, Well
    <2>16. TimesOK(y)
        BY <1>1, <2>4, <2>8, <2>12 DEF TimesOK
    <2>17. StateOK(y) /\ WaitsOK(y) /\ QueueOK(y)
        BY <1>1, <2>12, <2>14, KeptCalls, KeptWaits DEF SoundCo, Well
    <2>18. SoundCo(y)
        BY <2>11, <2>13, <2>14, <2>15, <2>16, <2>17 DEF SoundCo, Well
    <2> QED BY <2>1, <2>15, <2>18 DEF CoInv, CoPlaces
<1> QED BY <1>2, <1>3

\* The head of the list is the first whose time comes, and its time came just now.
LEMMA ExpireKeeps ==
    ASSUME CoInv, Expire
    PROVE  CoInv'
<1> DEFINE r == Head(c.pxDelayed)
           tick == c.xCoRoutineTickCount
<1>1. SoundCo(c) /\ c \in CoType /\ GoodLists(c) /\ Placed(c) /\ at = "expire" /\ TimesOK(c)
    BY DEF CoInv, SoundCo, Well, Expire
<1>2. tick \in Nat /\ c.pxDelayed \in Seq(CoRoutines) /\ \A a \in CoRoutines : c.wake[a] \in Nat /\ c.left[a] \in Nat
    BY <1>1, CoAssumption DEF CoType
<1>3. /\ c.pxDelayed # <<>> => r \in Elements(c.pxDelayed) /\ r \in CoRoutines /\ r = c.pxDelayed[1] /\ 1 \in DOMAIN c.pxDelayed
      /\ c.pxDelayed = <<>> => Elements(c.pxDelayed) = {}
      /\ Elements(c.pxDelayed) \subseteq CoRoutines
    BY <1>2, HeadIs
<1>4. \A a \in Elements(c.pxDelayed) : c.wake[a] = tick + c.left[a]
    BY <1>1 DEF TimesOK
<1>5. CASE c.pxDelayed = <<>> \/ tick < c.wake[r]
    <2>1. at' = "ticks" /\ c' = c
        BY <1>1, <1>5 DEF Expire
    <2>2. ASSUME NEW a \in Elements(c.pxDelayed) PROVE c.left[a] > 0
        <3>1. c.pxDelayed # <<>> /\ tick < c.wake[r] /\ a \in CoRoutines
            BY <1>3, <1>5
        <3>2. PICK i \in DOMAIN c.pxDelayed : c.pxDelayed[i] = a
            BY DEF Elements
        <3>3. i \in 1 .. Len(c.pxDelayed)
            BY <1>2
        <3>4. c.wake[r] <= c.wake[a]
            <4>1. CASE i = 1
                BY <1>2, <1>3, <3>1, <3>2, <4>1
            <4>2. CASE i # 1
                BY <1>1, <1>3, <3>1, <3>2, <3>3, <4>2 DEF TimesOK, SortedBy
            <4> QED BY <4>1, <4>2
        <3> QED BY <1>2, <1>3, <1>4, <3>1, <3>4
    <2>3. Asleep(c)
        BY <2>2 DEF Asleep
    <2> QED BY <1>1, <2>1, <2>3 DEF CoInv, CoPlaces
<1>6. CASE ~(c.pxDelayed = <<>> \/ tick < c.wake[r])
    <2> DEFINE z == prvAddCoRoutineToReadyQueue(RemoveEventCo(RemoveGeneric(c, r), r), r)
    <2>1. c' = [z EXCEPT !.early = z.early \/ c.left[r] > 0] /\ at' = at
        BY <1>6 DEF Expire
    <2>2. r \in CoRoutines /\ c.left[r] = 0
        BY <1>2, <1>3, <1>4, <1>6
    <2> HIDE DEF r
    <2>3. Readied(c, z, r)
        BY <1>1, <2>2, ExpiredReadied
    <2> HIDE DEF z
    <2>4. SoundCo(z) /\ Placed(z)
        BY <1>1, <2>2, <2>3, ReadiedKeeps
    <2>5. z \in CoType /\ z.early \in BOOLEAN
        BY <2>4 DEF SoundCo, Well, CoType
    <2>6. c' = [z EXCEPT !.early = z.early]
        BY <2>1, <2>2, <2>5
    <2>7. c' = z
        BY <2>5, <2>6 DEF CoType
    <2> QED BY <1>1, <2>1, <2>4, <2>7 DEF CoInv, CoPlaces
<1> QED BY <1>5, <1>6

LEMMA TopIs ==
    ASSUME NEW S \in SUBSET Nat, S # {}, NEW top \in Nat, \A p \in S : p <= top
    PROVE  \E p \in S : \A p2 \in S : p2 <= p
<1> DEFINE T == {top + 1 - p : p \in S}
<1>1. T \in SUBSET (Nat \ {0}) /\ T # {}
    <2>1. \A p \in S : top + 1 - p \in Nat \ {0}
        OBVIOUS
    <2>2. PICK p \in S : TRUE
        OBVIOUS
    <2>3. top + 1 - p \in T
        OBVIOUS
    <2> QED BY <2>1, <2>3
<1> DEFINE n == FirstOf(T)
<1>2. n \in T /\ \A m \in T : n <= m
    BY <1>1, FirstOfIs
<1> HIDE DEF n
<1>3. PICK p \in S : n = top + 1 - p
    BY <1>2
<1>4. ASSUME NEW p2 \in S PROVE p2 <= p
    <2>1. top + 1 - p2 \in T
        OBVIOUS
    <2>2. n <= top + 1 - p2
        BY <1>2, <2>1
    <2>3. p \in Nat /\ p2 \in Nat
        OBVIOUS
    <2> QED BY <1>3, <2>2, <2>3
<1> QED BY <1>4

\* The priority that is looked at first is that of the most urgent ready
\* co-routine, and the co-routine chosen is one of those.
LEMMA ScheduleKeeps ==
    ASSUME CoInv, vCoRoutineSchedule
    PROVE  CoInv'
<1> DEFINE highest == c.uxTopCoRoutineReadyPriority
           ready == {p \in CoPriorities : p <= highest /\ c.pxReadyCoRoutineLists[p].items # <<>>}
           top   == CHOOSE p \in ready : \A p2 \in ready : p2 <= p
           list  == listGET_OWNER_OF_NEXT_ENTRY(c.pxReadyCoRoutineLists[top])
<1>1. SoundCo(c) /\ Well(c) /\ c \in CoType /\ GoodLists(c) /\ Placed(c) /\ Asleep(c) /\ at = "select" /\ TopOK(c)
    BY DEF CoInv, SoundCo, Well, vCoRoutineSchedule
<1>2. highest \in Nat /\ CoPriorities \in SUBSET Nat
    BY <1>1, CoAssumption DEF CoType, CoPriorities
<1>3. \A p \in CoPriorities : /\ c.pxReadyCoRoutineLists[p].items \in Seq(CoRoutines)
                             /\ GoodReady(CoRoutines, c.pxReadyCoRoutineLists[p])
                             /\ \A r \in ReadyIn(c, p) : CoPriority[r] = p /\ r \in CoRoutines
    <2>1. \A p \in CoPriorities : c.pxReadyCoRoutineLists[p].items \in Seq(CoRoutines)
        BY <1>1 DEF CoType
    <2>2. \A p \in CoPriorities : ReadyIn(c, p) \subseteq CoRoutines
        BY <2>1, HeadIs DEF ReadyIn
    <2> QED BY <1>1, <2>1, <2>2 DEF GoodLists, ReadyIn
<1>4. \A p \in CoPriorities : c.pxReadyCoRoutineLists[p].items = <<>> <=> ReadyIn(c, p) = {}
    BY <1>3, HeadIs DEF ReadyIn
<1>5. \A p \in CoPriorities : p \in ready <=> ReadyIn(c, p) # {}
    BY <1>1, <1>4 DEF TopOK
<1>6. CASE ready = {}
    <2>1. c' = [c EXCEPT !.uxTopCoRoutineReadyPriority = 0] /\ at' = "pending"
        BY <1>6 DEF vCoRoutineSchedule
    <2>2. c' \in CoType /\ c'.uxTopCoRoutineReadyPriority = 0
        BY <1>1, <2>1 DEF CoType
    <2>3. /\ SameReady(c, c') /\ SameSleep(c, c') /\ SameTimes(c, c') /\ SameCo(c, c') /\ SameState(c, c')
          /\ SameWaits(c, c') /\ SameQueue(c, c')
        BY <1>1, <2>1 DEF CoType, SameReady, SameSleep, SameTimes, SameCo, SameState, SameWaits, SameQueue
    <2>4. /\ GoodLists(c') /\ Apart3(c') /\ Placed(c') /\ StateOK(c') /\ WaitsOK(c') /\ QueueOK(c')
          /\ TimesOK(c') /\ Asleep(c')
        BY <1>1, <2>3, KeptReady, KeptLists, KeptTimes, KeptCalls, KeptWaits DEF SoundCo, Well
    <2>5. TopOK(c')
        BY <1>5, <1>6, <2>3, KeptReady DEF TopOK
    <2> QED BY <2>1, <2>2, <2>4, <2>5 DEF CoInv, SoundCo, Well, CoPlaces
<1>7. CASE ready # {}
    <2>1. top \in ready /\ \A p2 \in ready : p2 <= top
        <3>1. ready \in SUBSET Nat /\ \A p \in ready : p <= highest
            BY <1>2
        <3> HIDE DEF ready
        <3>2. \E p \in ready : \A p2 \in ready : p2 <= p
            BY <1>2, <1>7, <3>1, TopIs
        <3> QED BY <3>2
    <2> DEFINE f == [c.pxReadyCoRoutineLists EXCEPT ![top] = list]
               y == [c EXCEPT !.uxTopCoRoutineReadyPriority = top, !.pxReadyCoRoutineLists = f,
                              !.pxCurrentCoRoutine = Owner(list)]
    <2>2. c' = y /\ at' = "run"
        BY <1>7 DEF vCoRoutineSchedule
    <2>3. top \in CoPriorities /\ top \in Nat /\ ReadyIn(c, top) # {} /\ c.pxReadyCoRoutineLists[top].items # <<>>
        BY <1>2, <1>5, <2>1
    <2> HIDE DEF top
    <2>4. GoodReady(CoRoutines, list) /\ list.items = c.pxReadyCoRoutineLists[top].items /\ Owner(list) \in ReadyIn(c, top)
        BY <1>3, <2>3, ReadyNextIs DEF ReadyIn
    <2> HIDE DEF list
    <2>5. \A p \in CoPriorities : f[p] = IF p = top THEN list ELSE c.pxReadyCoRoutineLists[p]
        BY <1>1 DEF CoType
    <2>6. f \in [CoPriorities -> [items : Seq(CoRoutines), index : Nat]]
        BY <1>1, <2>4 DEF CoType, GoodReady
    <2> HIDE DEF f
    <2>7. Owner(list) \in CoRoutines /\ CoPriority[Owner(list)] = top
        BY <1>3, <2>3, <2>4
    <2>8. y \in CoType
        BY <1>1, <2>3, <2>6, <2>7 DEF CoType
    <2>9. /\ y.pxReadyCoRoutineLists = f /\ y.uxTopCoRoutineReadyPriority = top /\ y.pxCurrentCoRoutine = Owner(list)
          /\ SameSleep(c, y) /\ SameTimes(c, y) /\ SameState(c, y) /\ SameWaits(c, y) /\ SameQueue(c, y)
        BY <1>1 DEF CoType, SameSleep, SameTimes, SameState, SameWaits, SameQueue
    <2> HIDE DEF y
    <2>10. \A p \in CoPriorities : ReadyIn(y, p) = ReadyIn(c, p)
        BY <2>4, <2>5, <2>9 DEF ReadyIn
    <2>11. ReadySet(y) = ReadySet(c)
        <3>1. \A r \in CoRoutines : CoPriority[r] \in CoPriorities
            BY DEF CoPriorities
        <3> QED BY <2>10, <3>1 DEF ReadySet
    <2>12. GoodLists(y)
        <3>1. \A p \in CoPriorities : /\ GoodReady(CoRoutines, y.pxReadyCoRoutineLists[p])
                                      /\ \A r \in Elements(y.pxReadyCoRoutineLists[p].items) : CoPriority[r] = p
            BY <1>3, <2>4, <2>5, <2>9 DEF ReadyIn
        <3> QED BY <1>1, <2>9, <3>1 DEF GoodLists, SameSleep, SameWaits
    <2>13. Apart3(y) /\ Placed(y)
        BY <1>1, <2>9, <2>11 DEF Apart3, Placed, SameSleep, Well
    <2>14. /\ StateOK(y) /\ WaitsOK(y) /\ QueueOK(y) /\ TimesOK(y) /\ Asleep(y)
        BY <1>1, <2>9, <2>11, KeptTimes, KeptCalls, KeptWaits DEF SoundCo, Well
    <2>15. TopOK(y)
        BY <1>5, <2>1, <2>9, <2>10 DEF TopOK
    <2>16. Owner(list) \in ReadySet(y)
        BY <2>4, <2>7, <2>11 DEF ReadySet
    <2> QED BY <2>2, <2>8, <2>9, <2>12, <2>13, <2>14, <2>15, <2>16 DEF CoInv, SoundCo, Well, CoPlaces
<1> QED BY <1>6, <1>7

-----------------------------------------------------------------------------
(* The co-routine that runs. *)

LEMMA RunIs ==
    ASSUME CoInv, Running
    PROVE  /\ SoundCo(c) /\ Well(c) /\ c \in CoType /\ GoodLists(c) /\ Placed(c) /\ Asleep(c)
           /\ Me \in CoRoutines /\ Me \in ReadySet(c) /\ Macro = MacroOf(c, Me) /\ Macro \in Macros
           /\ \A o \in Ops, k \in CoQueues : Me \notin Waiters(c, o, k)
           /\ Me \notin Elements(c.xPendingReady) /\ Phase \in Phases
<1>1. SoundCo(c) /\ Well(c) /\ c \in CoType /\ GoodLists(c) /\ Placed(c) /\ Asleep(c) /\ Me \in ReadySet(c)
    BY DEF CoInv, Running, SoundCo, Well, Me
<1>2. Me \in CoRoutines
    BY <1>1 DEF ReadySet
<1>3. /\ \A o \in Ops, k \in CoQueues : Me \notin Waiters(c, o, k)
      /\ Me \notin Elements(c.xPendingReady)
    BY <1>1 DEF Well, WaitsOK
<1>4. Macro = MacroOf(c, Me)
    BY DEF Macro, MacroOf
<1>5. MacroOf(c, Me) \in Macros
    <2>1. CoProgram[Me] \in Seq(Macros)
        BY <1>2, CoAssumption
    <2>2. c.uxState[Me].line \in 1 .. Len(CoProgram[Me])
        BY <1>1, <1>2 DEF Well, StateOK
    <2> QED BY <2>1, <2>2 DEF MacroOf
<1>6. Phase \in Phases
    BY <1>1, <1>2 DEF CoType, Phase, Phases
<1> QED BY <1>1, <1>2, <1>3, <1>4, <1>5, <1>6

LEMMA MovedKeeps ==
    ASSUME NEW x, QueueOK(x), NEW y, NEW me, Moved(x, y, me),
           \A o \in Ops, k \in CoQueues :
               k \notin x.skipped /\ Calls(x, me, o, k) /\ ~Calls(y, me, o, k) => HeededBy(y, o, k, 0)
    PROVE  SoundCo(y)
<1>1. \A k \in CoQueues : y.uxMessagesWaiting[k] <= CoLength[k]
    BY DEF QueueOK, Moved, SameQueue
<1>2. ASSUME NEW o \in Ops, NEW k \in CoQueues, k \notin y.skipped PROVE HeededBy(y, o, k, 0)
    <2>1. k \notin x.skipped /\ HeededBy(x, o, k, 0)
        BY <1>2 DEF QueueOK, Moved, SameQueue
    <2>2. HeededBy(y, o, k, IF Calls(x, me, o, k) /\ ~Calls(y, me, o, k) THEN 0 + 1 ELSE 0)
        BY <2>1 DEF Moved
    <2> QED BY <2>1, <2>2
<1> QED BY <1>1, <1>2 DEF Moved, SoundCo, QueueOK

LEMMA ResumedKeeps ==
    ASSUME CoInv, Resumed
    PROVE  CoInv'
<1>1. Running /\ c' = NextLine(c) /\ at' = at /\ Phase \in {"delayed", "yielded"} /\ at = "run"
    BY DEF Resumed, Continue, Running
<1>2. /\ SoundCo(c) /\ Well(c) /\ Placed(c) /\ Asleep(c) /\ Me \in CoRoutines /\ Me \in ReadySet(c)
      /\ \A o \in Ops, k \in CoQueues : Me \notin Waiters(c, o, k)
    BY <1>1, RunIs
<1>3. c' = [c EXCEPT !.uxState[Me] = NextMacro(c, Me)]
    BY <1>1 DEF NextLine, NextMacro
<1>4. Moved(c, c', Me)
    BY <1>2, <1>3, SteadyIs, MovedIs
<1>5. \A o, k : ~Calls(c, Me, o, k)
    BY <1>1 DEF Calls, Phase
<1>6. SoundCo(c')
    BY <1>2, <1>4, <1>5, MovedKeeps DEF SoundCo
<1> QED BY <1>1, <1>2, <1>4, <1>6 DEF CoInv, Moved, SameCo, Me, CoPlaces

LEMMA DelayKeeps ==
    ASSUME NEW x, SoundCo(x), Placed(x), Asleep(x), x.pxCurrentCoRoutine \in ReadySet(x),
           NEW ticks \in 1 .. CoTickMod - 1
    PROVE  LET y == vCoRoutineAddToDelayedList(x, ticks)
           IN  /\ SoundCo(y) /\ Placed(y) /\ Asleep(y) /\ ReadySet(y) = ReadySet(x) \ {x.pxCurrentCoRoutine}
               /\ SameWaits(x, y) /\ SameCo(x, y) /\ SameState(x, y) /\ SameQueue(x, y)
<1> DEFINE r == x.pxCurrentCoRoutine
           now == x.xCoRoutineTickCount
           wake == (now + ticks) % CoTickMod
           y == vCoRoutineAddToDelayedList(x, ticks)
           D(z) == Elements(z.pxDelayed)
           O(z) == Elements(z.pxOverflowDelayed)
<1>1. x \in CoType /\ GoodLists(x) /\ Well(x) /\ r \in CoRoutines /\ CoTickMod \in Nat \ {0} /\ ticks \in 0 .. CoTickMod - 1
    BY CoAssumption DEF SoundCo, Well, ReadySet
<1>2. /\ y \in CoType /\ GoodLists(y)
      /\ \A p \in CoPriorities : ReadyIn(y, p) = ReadyIn(x, p) \ {r}
      /\ y.wake = [x.wake EXCEPT ![r] = wake] /\ y.left = [x.left EXCEPT ![r] = ticks]
      /\ y.early = x.early /\ y.xCoRoutineTickCount = now
      /\ \/ wake = now + ticks /\ D(y) = D(x) \cup {r} /\ O(y) = O(x) \ {r}
         \/ wake = now + ticks - CoTickMod /\ D(y) = D(x) \ {r} /\ O(y) = O(x) \cup {r}
      /\ r \notin D(x) /\ SortedBy(x.pxDelayed, x.wake) => SortedBy(y.pxDelayed, y.wake)
      /\ r \notin O(x) /\ SortedBy(x.pxOverflowDelayed, x.wake) => SortedBy(y.pxOverflowDelayed, y.wake)
      /\ SameWaits(x, y) /\ SameTop(x, y) /\ SameCo(x, y) /\ SameState(x, y) /\ SameQueue(x, y)
    BY <1>1, DelayIs
<1> HIDE DEF y, wake
<1> SUFFICES SoundCo(y) /\ Placed(y) /\ Asleep(y) /\ ReadySet(y) = ReadySet(x) \ {r}
    BY <1>2 DEF y
<1>3. r \notin D(x) /\ r \notin O(x) /\ D(x) \subseteq CoRoutines /\ O(x) \subseteq CoRoutines
    <2>1. x.pxDelayed \in Seq(CoRoutines) /\ x.pxOverflowDelayed \in Seq(CoRoutines)
        BY <1>1 DEF CoType
    <2> QED BY <1>1, <2>1, HeadIs DEF Well, Apart3
<1>4. ReadySet(y) = ReadySet(x) \ {r}
    <2>1. \A a \in CoRoutines : CoPriority[a] \in CoPriorities
        BY DEF CoPriorities
    <2> QED BY <1>2, <2>1 DEF ReadySet
<1>5. Apart3(y) /\ Placed(y)
    BY <1>1, <1>2, <1>3, <1>4 DEF Apart3, Placed, Well
<1>6. now \in Int /\ x.wake \in [CoRoutines -> 0 .. CoTickMod - 1] /\ x.left \in [CoRoutines -> Nat]
    BY <1>1 DEF CoType
<1>7. y.wake[r] = wake /\ y.left[r] = ticks
      /\ \A a \in CoRoutines : a # r => y.wake[a] = x.wake[a] /\ y.left[a] = x.left[a]
    BY <1>1, <1>2, <1>6
<1>8. \A a \in D(x) : a # r /\ a \in CoRoutines /\ x.wake[a] = now + x.left[a] /\ x.left[a] > 0
    BY <1>1, <1>3 DEF TimesOK, Asleep, Well
<1>9. \A a \in O(x) : a # r /\ a \in CoRoutines /\ x.wake[a] + CoTickMod = now + x.left[a]
    BY <1>1, <1>3 DEF TimesOK, Well
<1>10. /\ \A a \in D(y) : y.wake[a] = now + y.left[a] /\ y.left[a] > 0
       /\ \A a \in O(y) : y.wake[a] + CoTickMod = now + y.left[a]
    <2>1. CASE wake = now + ticks /\ D(y) = D(x) \cup {r} /\ O(y) = O(x) \ {r}
        BY <1>7, <1>8, <1>9, <2>1
    <2>2. CASE wake = now + ticks - CoTickMod /\ D(y) = D(x) \ {r} /\ O(y) = O(x) \cup {r}
        <3>1. wake + CoTickMod = now + ticks
            BY <1>1, <1>6, <2>2
        <3> QED BY <1>7, <1>8, <1>9, <2>2, <3>1
    <2> QED BY <1>2, <2>1, <2>2
<1>11. TimesOK(y) /\ Asleep(y)
    BY <1>1, <1>2, <1>3, <1>10 DEF TimesOK, Asleep, Well
<1>12. StateOK(y) /\ QueueOK(y)
    BY <1>1, <1>2, KeptCalls, KeptWaits DEF SoundCo, Well
<1>13. WaitsOK(y)
    <2>1. \A o, k : Waiters(y, o, k) = Waiters(x, o, k)
        BY <1>2, KeptWaits
    <2>2. \A a, o, k : Calls(y, a, o, k) = Calls(x, a, o, k)
        BY <1>2, KeptCalls
    <2> QED BY <1>1, <1>2, <1>4, <2>1, <2>2 DEF WaitsOK, Well, SameWaits, SameState
<1>14. TopOK(y)
    BY <1>1, <1>2 DEF TopOK, SameTop, Well
<1> QED BY <1>2, <1>4, <1>5, <1>11, <1>12, <1>13, <1>14 DEF SoundCo, Well

LEMMA DelayedKeeps ==
    ASSUME CoInv, crDELAY
    PROVE  CoInv'
<1> DEFINE z == IF Macro.ticks > 0 THEN vCoRoutineAddToDelayedList(c, Macro.ticks) ELSE c
<1>1. /\ Running /\ at = "run" /\ Phase = "call" /\ Macro.op = "crDELAY"
      /\ c' = [z EXCEPT !.uxState[Me].phase = "delayed"] /\ at' = "pending"
    BY DEF crDELAY, Return, Running
<1>2. /\ SoundCo(c) /\ Well(c) /\ Placed(c) /\ Asleep(c) /\ Me \in CoRoutines /\ Me \in ReadySet(c)
      /\ \A o \in Ops, k \in CoQueues : Me \notin Waiters(c, o, k)
      /\ Macro \in Macros
    BY <1>1, RunIs
<1>3. Macro.ticks \in 0 .. CoTickMod - 1 /\ CoTickMod \in Nat \ {0}
    BY <1>2, CoAssumption DEF Macros
<1>4. SoundCo(z) /\ Placed(z) /\ Asleep(z) /\ SameWaits(c, z) /\ SameState(c, z)
    <2>1. CASE Macro.ticks > 0
        <3> DEFINE ticks == Macro.ticks
        <3>1. ticks \in 1 .. CoTickMod - 1 /\ z = vCoRoutineAddToDelayedList(c, ticks) /\ c.pxCurrentCoRoutine \in ReadySet(c)
            BY <1>2, <1>3, <2>1 DEF Me
        <3> HIDE DEF z, ticks
        <3> QED BY <1>2, <3>1, DelayKeeps
    <2>2. CASE ~(Macro.ticks > 0)
        BY <1>2, <2>2 DEF SameWaits, SameState
    <2> QED BY <2>1, <2>2
<1> HIDE DEF z
<1>5. \A o \in Ops, k \in CoQueues : Me \notin Waiters(z, o, k)
    BY <1>2, <1>4, KeptWaits
<1>6. c' = [z EXCEPT !.uxState[Me] = [z.uxState[Me] EXCEPT !.phase = "delayed"]]
    BY <1>1
<1>7. Well(z) /\ QueueOK(z)
    BY <1>4 DEF SoundCo
<1>8. Steady(z, Me, [z.uxState[Me] EXCEPT !.phase = "delayed"])
    BY <1>2, <1>5, <1>7, SteadyIs DEF Phases
<1>9. Moved(z, c', Me)
    BY <1>2, <1>6, <1>7, <1>8, MovedIs
<1>10. \A o, k : ~Calls(z, Me, o, k)
    BY <1>1, <1>4 DEF Calls, Phase, SameState
<1>11. SoundCo(c')
    BY <1>7, <1>9, <1>10, MovedKeeps
<1> QED BY <1>1, <1>4, <1>9, <1>11 DEF CoInv, Moved, CoPlaces

\* Who waits for a queue is in its event list, in the call that waits.
WaitJoined(x, y) ==
    /\ Well(y) /\ Placed(y) = Placed(x) /\ Asleep(y) = Asleep(x)
    /\ SameQueue(x, y)
    /\ \A o \in Ops, k \in CoQueues : HeededBy(x, o, k, 0) => HeededBy(y, o, k, 0)

JoinHyp(x, op, q, me) ==
    /\ Well(x) /\ me \in CoRoutines /\ op \in Ops /\ q \in CoQueues /\ me \notin ReadySet(x)
    /\ \A o \in Ops, k \in CoQueues : me \notin Waiters(x, o, k)
    /\ me \notin Elements(x.xPendingReady)
    /\ MacroOf(x, me).op = op /\ MacroOf(x, me).q = q /\ x.uxState[me].phase = "call"
    /\ Supply(x, op, q) <= 0

\* list is the event list of the queue with the co-routine in it.
JoinedList(x, op, q, me, list) ==
    /\ list \in Seq(CoRoutines) /\ Distinct(list) /\ Elements(list) = Waiters(x, op, q) \cup {me}

LEMMA JoinedListIs ==
    ASSUME NEW x, NEW op, NEW q, NEW me, JoinHyp(x, op, q, me)
    PROVE  JoinedList(x, op, q, me, vListInsert(EventList(x, op, q), me, x.event, CoTickMod - 1))
<1> DEFINE s == EventList(x, op, q)
           v == x.event
           m == CoTickMod - 1
<1>1. x \in CoType /\ GoodLists(x) /\ op \in Ops /\ q \in CoQueues /\ me \in CoRoutines
    BY DEF JoinHyp, Well
<1>2. s \in Seq(CoRoutines) /\ Distinct(s) /\ Elements(s) = Waiters(x, op, q)
    BY <1>1 DEF CoType, EventList, GoodLists, Waiters, Ops
<1>3. me \notin Elements(s)
    BY <1>1, <1>2 DEF JoinHyp
<1>4. v \in [CoRoutines -> Int] /\ m \in Int
    BY <1>1, CoAssumption DEF CoType
<1> HIDE DEF s, v, m
<1>5. JoinedList(x, op, q, me, vListInsert(s, me, v, m))
    BY <1>1, <1>2, <1>3, <1>4, ListInsertIs DEF JoinedList
<1> QED BY <1>5 DEF s, v, m

LEMMA JoinedIs ==
    ASSUME NEW x, NEW op, NEW q, NEW me, JoinHyp(x, op, q, me), NEW list, JoinedList(x, op, q, me, list)
    PROVE  LET s == IF op = "crQUEUE_SEND" THEN [x.toSend EXCEPT ![q] = list] ELSE x.toSend
               t == IF op = "crQUEUE_SEND" THEN x.toReceive ELSE [x.toReceive EXCEPT ![q] = list]
               f == [x.uxState EXCEPT ![me] = [@ EXCEPT !.phase = "blocked"]]
           IN  WaitJoined(x, [x EXCEPT !.toSend = s, !.toReceive = t, !.uxState = f])
<1> DEFINE s == IF op = "crQUEUE_SEND" THEN [x.toSend EXCEPT ![q] = list] ELSE x.toSend
           t == IF op = "crQUEUE_SEND" THEN x.toReceive ELSE [x.toReceive EXCEPT ![q] = list]
           f == [x.uxState EXCEPT ![me] = [@ EXCEPT !.phase = "blocked"]]
           y == [x EXCEPT !.toSend = s, !.toReceive = t, !.uxState = f]
<1> SUFFICES WaitJoined(x, y)
    OBVIOUS
<1>1. /\ x \in CoType /\ GoodLists(x) /\ Well(x) /\ op \in Ops /\ q \in CoQueues /\ me \in CoRoutines
      /\ x.uxState \in [CoRoutines -> [line : Nat, phase : Phases]]
      /\ x.toSend \in [CoQueues -> Seq(CoRoutines)] /\ x.toReceive \in [CoQueues -> Seq(CoRoutines)]
      /\ list \in Seq(CoRoutines)
    BY DEF JoinHyp, JoinedList, Well, CoType
<1>2. /\ s \in [CoQueues -> Seq(CoRoutines)] /\ t \in [CoQueues -> Seq(CoRoutines)]
      /\ \A k \in CoQueues : /\ s[k] = IF op = "crQUEUE_SEND" /\ k = q THEN list ELSE x.toSend[k]
                             /\ t[k] = IF op = "crQUEUE_RECEIVE" /\ k = q THEN list ELSE x.toReceive[k]
    BY <1>1 DEF Ops
<1>3. /\ f \in [CoRoutines -> [line : Nat, phase : Phases]]
      /\ \A r \in CoRoutines : f[r].line = x.uxState[r].line /\ f[r].phase = IF r = me THEN "blocked" ELSE x.uxState[r].phase
    BY <1>1 DEF Phases
<1> HIDE DEF s, t, f
<1>4. /\ y.toSend = s /\ y.toReceive = t /\ y.uxState = f /\ y.xPendingReady = x.xPendingReady
      /\ SameReady(x, y) /\ SameSleep(x, y) /\ SameTimes(x, y) /\ SameTop(x, y) /\ SameQueue(x, y)
    BY <1>1 DEF CoType, SameReady, SameSleep, SameTimes, SameTop, SameQueue
<1>5. y \in CoType
    BY <1>1, <1>2, <1>3 DEF CoType
<1> HIDE DEF y
<1>6. Apart3(y) /\ Placed(y) = Placed(x) /\ ReadySet(y) = ReadySet(x) /\ TopOK(y)
    BY <1>1, <1>4, KeptReady DEF Well
<1>7. TimesOK(y) /\ Asleep(y) = Asleep(x)
    BY <1>1, <1>4, KeptTimes DEF Well
<1>8. GoodLists(y)
    BY <1>1, <1>2, <1>4 DEF GoodLists, SameReady, SameSleep, JoinedList
<1>9. \A r \in CoRoutines : /\ MacroOf(y, r) = MacroOf(x, r) /\ y.uxState[r].line = x.uxState[r].line
                            /\ y.uxState[r].phase = IF r = me THEN "blocked" ELSE x.uxState[r].phase
    BY <1>3, <1>4 DEF MacroOf
<1>10. \A r \in CoRoutines : \A o \in Ops, k \in CoQueues :
           Calls(y, r, o, k) <=> IF r = me THEN o = op /\ k = q ELSE Calls(x, r, o, k)
    BY <1>9 DEF Calls, JoinHyp
<1>11. \A o \in Ops, k \in CoQueues :
           /\ Waiters(y, o, k) = IF o = op /\ k = q THEN Waiters(x, o, k) \cup {me} ELSE Waiters(x, o, k)
           /\ Waiters(x, o, k) \subseteq CoRoutines
    <2>1. \A k \in CoQueues : Elements(x.toSend[k]) \subseteq CoRoutines /\ Elements(x.toReceive[k]) \subseteq CoRoutines
        BY <1>1, HeadIs
    <2>2. Elements(list) = Waiters(x, op, q) \cup {me}
        BY DEF JoinedList
    <2> QED BY <1>1, <1>2, <1>4, <2>1, <2>2 DEF Waiters, Ops
<1>12. StateOK(y)
    BY <1>1, <1>9 DEF StateOK, Well, JoinHyp
<1>13. WaitsOK(y)
    <2>1. ASSUME NEW o \in Ops, NEW k \in CoQueues, NEW r \in Waiters(y, o, k)
          PROVE  r \notin ReadySet(y) /\ y.uxState[r].phase = "blocked" /\ Calls(y, r, o, k)
        <3>1. r \in CoRoutines
            BY <1>1, <1>11
        <3>2. CASE r = me
            <4>1. o = op /\ k = q
                BY <1>11, <3>2 DEF JoinHyp
            <4> QED BY <1>1, <1>6, <1>9, <1>10, <3>2, <4>1 DEF JoinHyp
        <3>3. CASE r # me
            <4>1. r \in Waiters(x, o, k)
                BY <1>11, <3>3
            <4> QED BY <1>1, <1>6, <1>9, <1>10, <3>1, <3>3, <4>1 DEF WaitsOK, Well
        <3> QED BY <3>2, <3>3
    <2>2. ASSUME NEW r \in Elements(y.xPendingReady)
          PROVE  r \notin ReadySet(y) /\ \A o \in Ops, k \in CoQueues : r \notin Waiters(y, o, k)
        <3>1. r # me /\ r \in Elements(x.xPendingReady)
            BY <1>4 DEF JoinHyp
        <3>2. r \notin ReadySet(x) /\ \A o \in Ops, k \in CoQueues : r \notin Waiters(x, o, k)
            BY <1>1, <3>1 DEF WaitsOK, Well
        <3>3. \A o \in Ops, k \in CoQueues : r \notin Waiters(y, o, k)
            BY <1>11, <3>1, <3>2
        <3> QED BY <1>6, <3>2, <3>3
    <2> QED BY <2>1, <2>2 DEF WaitsOK
<1>14. Well(y)
    BY <1>5, <1>6, <1>7, <1>8, <1>12, <1>13 DEF Well
<1>15. ASSUME NEW o \in Ops, NEW k \in CoQueues, HeededBy(x, o, k, 0)
       PROVE  HeededBy(y, o, k, 0)
    <2>1. Supply(y, o, k) = Supply(x, o, k) /\ Supply(x, o, k) \in Int
        BY <1>1, <1>4, SupplyIs DEF SameQueue, Supply
    <2>2. Cardinality(WokenOf(y, o, k)) \in Nat
        BY WokenFinite
    <2>3. CASE o = op /\ k = q
        BY <2>1, <2>2, <2>3 DEF HeededBy, JoinHyp
    <2>4. CASE ~(o = op /\ k = q)
        <3>1. ~Calls(x, me, o, k)
            BY DEF JoinHyp, Calls
        <3>2. WokenOf(y, o, k) = WokenOf(x, o, k) /\ Waiters(y, o, k) = Waiters(x, o, k)
            BY <1>10, <1>11, <2>4, <3>1 DEF WokenOf
        <3> QED BY <1>15, <2>1, <3>2 DEF HeededBy
    <2> QED BY <2>3, <2>4
<1> QED BY <1>4, <1>6, <1>7, <1>14, <1>15 DEF WaitJoined

LEMMA GiveUpKeeps ==
    ASSUME CoInv, Running, Macro.op \in Ops, Supply(c, Macro.op, Macro.q) <= 0, c' = NextLine(c), at' = at
    PROVE  CoInv'
<1> DEFINE op == Macro.op
           q == Macro.q
<1>1. /\ SoundCo(c) /\ Well(c) /\ c \in CoType /\ QueueOK(c) /\ Placed(c) /\ Asleep(c) /\ Me \in CoRoutines /\ Me \in ReadySet(c)
      /\ \A o \in Ops, k \in CoQueues : Me \notin Waiters(c, o, k)
      /\ Macro = MacroOf(c, Me) /\ at = "run"
    BY RunIs DEF SoundCo, Running
<1>2. c' = [c EXCEPT !.uxState[Me] = NextMacro(c, Me)]
    BY DEF NextLine, NextMacro
<1>3. Moved(c, c', Me)
    BY <1>1, <1>2, SteadyIs, MovedIs
<1>4. ASSUME NEW o \in Ops, NEW k \in CoQueues, Calls(c, Me, o, k) PROVE HeededBy(c', o, k, 0)
    <2>1. o = op /\ k = q
        BY <1>1, <1>4 DEF Calls
    <2>2. Supply(c', o, k) = Supply(c, o, k) /\ Supply(c, o, k) \in Int
        BY <1>1, <1>3, SupplyIs DEF Moved, SameQueue, Supply
    <2>3. Cardinality(WokenOf(c', o, k)) \in Nat
        BY WokenFinite
    <2> QED BY <2>1, <2>2, <2>3 DEF HeededBy
<1>5. SoundCo(c')
    BY <1>1, <1>3, <1>4, MovedKeeps
<1> QED BY <1>1, <1>3, <1>5 DEF CoInv, Moved, SameCo, Me, CoPlaces

\* The co-routine that finds the queue full, or empty, waits, or gives up; one
\* that does not goes on with the call.
ListName(op) == IF op = "crQUEUE_SEND" THEN "toSend" ELSE "toReceive"

LEMMA WaitKeeps ==
    ASSUME CoInv, Running, Phase \in {"call", "blocked"}, Macro.op \in Ops,
           NEW no \in BOOLEAN, no => Supply(c, Macro.op, Macro.q) <= 0,
           WaitFor(no, ListName(Macro.op))
    PROVE  CoInv'
<1> DEFINE op == Macro.op
           q == Macro.q
           ticks == IF Phase = "call" THEN Macro.ticks ELSE 0
           z == vCoRoutineAddToDelayedList(c, ticks)
<1>1. /\ SoundCo(c) /\ Well(c) /\ c \in CoType /\ QueueOK(c) /\ Placed(c) /\ Asleep(c) /\ Me \in CoRoutines /\ Me \in ReadySet(c)
      /\ \A o \in Ops, k \in CoQueues : Me \notin Waiters(c, o, k)
      /\ Macro \in Macros /\ Macro = MacroOf(c, Me) /\ Me \notin Elements(c.xPendingReady)
    BY RunIs DEF SoundCo
<1>2. Macro.ticks \in 0 .. CoTickMod - 1 /\ CoTickMod \in Nat \ {0} /\ q \in CoQueues /\ at = "run"
    BY <1>1, CoAssumption DEF Macros, Ops, Running
<1>3. CASE no /\ ticks > 0
    <2> DEFINE list == vListInsert(EventList(z, op, q), Me, z.event, CoTickMod - 1)
               s == IF op = "crQUEUE_SEND" THEN [z.toSend EXCEPT ![q] = list] ELSE z.toSend
               t == IF op = "crQUEUE_SEND" THEN z.toReceive ELSE [z.toReceive EXCEPT ![q] = list]
               f == [z.uxState EXCEPT ![Me] = [@ EXCEPT !.phase = "blocked"]]
               y == [z EXCEPT !.toSend = s, !.toReceive = t, !.uxState = f]
    <2>1. Phase = "call" /\ ticks = Macro.ticks /\ ticks \in 1 .. CoTickMod - 1
        BY <1>2, <1>3
    <2>2. SoundCo(z) /\ Placed(z) /\ Asleep(z) /\ ReadySet(z) = ReadySet(c) \ {Me} /\ SameWaits(c, z) /\ SameState(c, z) /\ SameQueue(c, z)
        <3> DEFINE n == ticks
        <3> HIDE DEF n
        <3>1. n \in 1 .. CoTickMod - 1 /\ c.pxCurrentCoRoutine \in ReadySet(c)
            BY <1>1, <2>1 DEF n, Me
        <3>2. LET u == vCoRoutineAddToDelayedList(c, n)
              IN  SoundCo(u) /\ Placed(u) /\ Asleep(u) /\ ReadySet(u) = ReadySet(c) \ {c.pxCurrentCoRoutine} /\ SameWaits(c, u) /\ SameState(c, u) /\ SameQueue(c, u)
            BY <1>1, <3>1, DelayKeeps
        <3> QED BY <3>2 DEF n, Me
    <2>3. at' = "pending" /\ c' = y
        <3>1. CASE op = "crQUEUE_SEND"
            <4>1. at' = "pending" /\ c' = [[z EXCEPT !.toSend[q] = vListInsert(@, Me, z.event, CoTickMod - 1)] EXCEPT !.uxState[Me].phase = "blocked"]
                BY <1>3, <3>1 DEF WaitFor, Return, ListName
            <4>2. list = vListInsert(z.toSend[q], Me, z.event, CoTickMod - 1) /\ z \in CoType
                BY <2>2, <3>1 DEF EventList, SoundCo, Well
            <4> HIDE DEF z, list
            <4>3. c' = [[z EXCEPT !.toSend[q] = list] EXCEPT !.uxState[Me].phase = "blocked"]
                BY <4>1, <4>2
            <4>4. s = [z.toSend EXCEPT ![q] = list] /\ t = z.toReceive
                BY <3>1
            <4> HIDE DEF s, t
            <4>5. c' = [z EXCEPT !.toSend = s, !.toReceive = t, !.uxState = f]
                BY <4>2, <4>3, <4>4 DEF CoType
            <4> QED BY <4>1, <4>5
        <3>2. CASE op = "crQUEUE_RECEIVE"
            <4>1. at' = "pending" /\ c' = [[z EXCEPT !.toReceive[q] = vListInsert(@, Me, z.event, CoTickMod - 1)] EXCEPT !.uxState[Me].phase = "blocked"]
                BY <1>3, <3>2 DEF WaitFor, Return, ListName
            <4>2. list = vListInsert(z.toReceive[q], Me, z.event, CoTickMod - 1) /\ z \in CoType
                BY <2>2, <3>2 DEF EventList, SoundCo, Well
            <4> HIDE DEF z, list
            <4>3. c' = [[z EXCEPT !.toReceive[q] = list] EXCEPT !.uxState[Me].phase = "blocked"]
                BY <4>1, <4>2
            <4>4. s = z.toSend /\ t = [z.toReceive EXCEPT ![q] = list]
                BY <3>2
            <4> HIDE DEF s, t
            <4>5. c' = [z EXCEPT !.toSend = s, !.toReceive = t, !.uxState = f]
                BY <4>2, <4>3, <4>4 DEF CoType
            <4> QED BY <4>1, <4>5
        <3> QED BY <3>1, <3>2 DEF Ops
    <2>4. JoinHyp(z, op, q, Me)
        <3>1. Well(z) /\ Me \notin ReadySet(z) /\ \A o \in Ops, k \in CoQueues : Me \notin Waiters(z, o, k)
            BY <1>1, <2>2, KeptWaits DEF SoundCo
        <3>2. MacroOf(z, Me) = Macro /\ z.uxState[Me].phase = "call" /\ Me \notin Elements(z.xPendingReady)
            BY <1>1, <2>1, <2>2 DEF MacroOf, SameState, SameWaits, Phase
        <3>3. Supply(z, op, q) = Supply(c, op, q)
            BY <2>2 DEF SameQueue, Supply
        <3> HIDE DEF z
        <3> QED BY <1>1, <1>2, <1>3, <3>1, <3>2, <3>3 DEF JoinHyp
    <2>5. JoinedList(z, op, q, Me, list)
        <3> HIDE DEF z
        <3> QED BY <2>4, JoinedListIs
    <2>6. WaitJoined(z, y)
        <3> HIDE DEF z, list
        <3> QED BY <2>4, <2>5, JoinedIs
    <2>7. QueueOK(z) /\ Placed(z) /\ Asleep(z)
        BY <2>2 DEF SoundCo
    <2> HIDE DEF z, y
    <2>8. QueueOK(y)
        BY <2>6, <2>7 DEF QueueOK, WaitJoined, SameQueue
    <2>9. SoundCo(y) /\ Placed(y) /\ Asleep(y)
        BY <2>6, <2>7, <2>8 DEF WaitJoined, SoundCo
    <2> QED BY <2>3, <2>9 DEF CoInv, CoPlaces
<1>4. CASE no /\ ticks = 0
    <2>1. c' = NextLine(c) /\ at' = at
        BY <1>4 DEF WaitFor, Continue
    <2> QED BY <1>4, <2>1, GiveUpKeeps
<1>5. CASE ~no
    <2> DEFINE st == [c.uxState[Me] EXCEPT !.phase = "second"]
    <2>1. c' = [c EXCEPT !.uxState[Me] = st] /\ at' = at
        BY <1>5 DEF WaitFor, Continue
    <2>2. Steady(c, Me, st)
        BY <1>1, SteadyIs DEF Phases
    <2> HIDE DEF st
    <2>3. Moved(c, c', Me) /\ c'.uxState[Me] = st
        BY <1>1, <2>1, <2>2, MovedIs
    <2>4. MacroOf(c', Me) = MacroOf(c, Me) /\ c'.uxState[Me].phase = "second"
        <3>1. c.uxState[Me] \in [line : Nat, phase : Phases]
            BY <1>1 DEF CoType
        <3>2. st.line = c.uxState[Me].line /\ st.phase = "second"
            BY <3>1 DEF st
        <3> QED BY <2>3, <3>2 DEF MacroOf
    <2>5. \A o, k : Calls(c, Me, o, k) => Calls(c', Me, o, k)
        BY <2>4 DEF Calls
    <2>6. SoundCo(c')
        BY <1>1, <2>3, <2>5, MovedKeeps
    <2> QED BY <1>1, <1>2, <2>1, <2>3, <2>6 DEF CoInv, Moved, SameCo, Me, CoPlaces
<1>6. (no /\ ticks > 0) \/ (no /\ ticks = 0) \/ ~no
    BY <1>2
<1> QED BY <1>3, <1>4, <1>5, <1>6

LEMMA SendKeeps ==
    ASSUME CoInv, xQueueCRSend
    PROVE  CoInv'
<1>1. /\ Running /\ Phase \in {"call", "blocked"} /\ Macro.op = "crQUEUE_SEND" /\ WaitFor(Full(c, Macro.q), ListName(Macro.op))
      /\ Macro.op \in Ops
    BY DEF xQueueCRSend, ListName, Ops
<1>2. c \in CoType /\ Macro \in Macros
    BY <1>1, RunIs
<1>3. Macro.q \in CoQueues
    BY <1>1, <1>2 DEF Macros
<1>4. Full(c, Macro.q) => Supply(c, Macro.op, Macro.q) <= 0
    BY <1>1, <1>2, <1>3, SupplyIs DEF Full, Supply
<1>5. Full(c, Macro.q) \in BOOLEAN
    BY DEF Full
<1> QED BY <1>1, <1>4, <1>5, WaitKeeps

LEMMA ReceiveKeeps ==
    ASSUME CoInv, xQueueCRReceive
    PROVE  CoInv'
<1>1. /\ Running /\ Phase \in {"call", "blocked"} /\ Macro.op = "crQUEUE_RECEIVE" /\ WaitFor(Empty(c, Macro.q), ListName(Macro.op))
      /\ Macro.op \in Ops
    BY DEF xQueueCRReceive, ListName, Ops
<1>2. c \in CoType /\ Macro \in Macros
    BY <1>1, RunIs
<1>3. Macro.q \in CoQueues
    BY <1>1, <1>2 DEF Macros
<1>4. Empty(c, Macro.q) => Supply(c, Macro.op, Macro.q) <= 0
    BY <1>1, <1>2, <1>3, SupplyIs DEF Empty, Supply
<1>5. Empty(c, Macro.q) \in BOOLEAN
    BY DEF Empty
<1> QED BY <1>1, <1>4, <1>5, WaitKeeps

\* A message more, or less: who waits for it on the other side is told.
Exchanged(x, op, q) ==
    IF op = "crQUEUE_RECEIVE" THEN Signal(Put(x, q), x.toReceive[q]) ELSE Signal(Get(x, q), x.toSend[q])

LEMMA ExchangeIs ==
    ASSUME NEW x, SoundCo(x), NEW q \in CoQueues, NEW op \in Ops,
           IF op = "crQUEUE_RECEIVE" THEN ~Full(x, q) ELSE ~Empty(x, q)
    PROVE  Served(x, Exchanged(x, op, q).x, op, q)
<1> DEFINE m == x.uxMessagesWaiting[q]
<1>1. x \in CoType /\ m \in Nat /\ CoLength[q] \in Nat /\ m <= CoLength[q]
    BY SupplyIs DEF SoundCo, Well, QueueOK
<1>2. CASE op = "crQUEUE_RECEIVE"
    <2>1. Exchanged(x, op, q) = Signal([x EXCEPT !.uxMessagesWaiting[q] = m + 1], EventList(x, op, q))
        BY <1>2 DEF Exchanged, Put, EventList
    <2>2. m + 1 \in 0 .. CoLength[q]
        BY <1>1, <1>2 DEF Full
    <2> QED BY <1>2, <2>1, <2>2, ServedIs
<1>3. CASE op = "crQUEUE_SEND"
    <2> DEFINE d == 0 - 1
    <2>1. Exchanged(x, op, q) = Signal([x EXCEPT !.uxMessagesWaiting[q] = m - 1], EventList(x, op, q))
        BY <1>3 DEF Exchanged, Get, EventList
    <2>2. m - 1 \in 0 .. CoLength[q] /\ m - 1 = m + d /\ d \in {1, 0 - 1} /\ d = IF op = "crQUEUE_RECEIVE" THEN 1 ELSE 0 - 1
        BY <1>1, <1>3 DEF Empty
    <2> HIDE DEF d
    <2>3. Served(x, Signal([x EXCEPT !.uxMessagesWaiting[q] = m + d], EventList(x, op, q)).x, op, q)
        BY <2>2, ServedIs
    <2> QED BY <2>1, <2>2, <2>3
<1> QED BY <1>2, <1>3 DEF Ops

LEMMA LooserStill ==
    ASSUME NEW x \in CoType, NEW o, NEW k \in CoQueues, HeededBy(x, o, k, 0 - 1)
    PROVE  HeededBy(x, o, k, 0)
<1>1. Supply(x, o, k) \in Int /\ Cardinality(WokenOf(x, o, k)) \in Nat
    BY SupplyIs, WokenFinite
<1> QED BY <1>1 DEF HeededBy

LEMMA TransferKeeps ==
    ASSUME CoInv, Transfer
    PROVE  CoInv'
<1> DEFINE op == Macro.op
           q == Macro.q
           other == IF op = "crQUEUE_SEND" THEN "crQUEUE_RECEIVE" ELSE "crQUEUE_SEND"
           none == IF op = "crQUEUE_SEND" THEN Full(c, q) ELSE Empty(c, q)
           done == IF op = "crQUEUE_SEND" THEN Signal(Put(c, q), c.toReceive[q]) ELSE Signal(Get(c, q), c.toSend[q])
           y == done.x
<1>1. /\ Running /\ at = "run" /\ Phase = "second"
      /\ \/ none /\ c' = NextLine(c) /\ at' = at
         \/ ~none /\ done.ret /\ c' = [y EXCEPT !.uxState[Me].phase = "yielded"] /\ at' = "pending"
         \/ ~none /\ c' = NextLine(y) /\ at' = at
    BY DEF Transfer, Return, Continue, Running
<1>2. /\ SoundCo(c) /\ Well(c) /\ c \in CoType /\ QueueOK(c) /\ Placed(c) /\ Asleep(c) /\ Me \in CoRoutines /\ Me \in ReadySet(c)
      /\ \A o \in Ops, k \in CoQueues : Me \notin Waiters(c, o, k)
      /\ Macro \in Macros /\ Macro = MacroOf(c, Me)
    BY <1>1, RunIs DEF SoundCo
<1>3. op \in Ops /\ q \in CoQueues
    <2>1. op \in Ops
        BY <1>1, <1>2 DEF Well, StateOK, Phase
    <2> QED BY <1>2, <2>1 DEF Macros, Ops
<1>4. CASE none /\ c' = NextLine(c) /\ at' = at
    <2>1. Supply(c, op, q) <= 0
        BY <1>2, <1>3, <1>4, SupplyIs DEF Full, Empty, Supply, Ops
    <2> QED BY <1>1, <1>3, <1>4, <2>1, GiveUpKeeps
<1>5. CASE /\ ~none
           /\ \/ c' = [y EXCEPT !.uxState[Me].phase = "yielded"] /\ at' = "pending"
              \/ c' = NextLine(y) /\ at' = at
    <2>1. Served(c, y, other, q)
        <3>1. other \in Ops /\ (IF other = "crQUEUE_RECEIVE" THEN ~Full(c, q) ELSE ~Empty(c, q)) /\ done = Exchanged(c, other, q)
            BY <1>3, <1>5 DEF Ops, Exchanged
        <3> HIDE DEF done, other
        <3> QED BY <1>2, <1>3, <3>1, ExchangeIs
    <2> HIDE DEF done
    <2>2. /\ Well(y) /\ Placed(y) /\ Asleep(y) /\ Me \in ReadySet(y) /\ SameRest(c, y) /\ y.skipped = c.skipped
          /\ \A o \in Ops, k \in CoQueues : Me \notin Waiters(y, o, k)
        BY <1>2, <2>1 DEF Served
    <2>3. MacroOf(y, Me) = Macro /\ y.uxState[Me].phase = "second" /\ Calls(y, Me, op, q)
        BY <1>1, <1>2, <2>2 DEF MacroOf, SameRest, SameState, Calls, Phase
    <2>4. Moved(y, c', Me) /\ c'.uxState[Me].phase \in {"yielded", "call"}
        <3>1. CASE c' = [y EXCEPT !.uxState[Me].phase = "yielded"]
            <4> DEFINE st == [y.uxState[Me] EXCEPT !.phase = "yielded"]
            <4>1. c' = [y EXCEPT !.uxState[Me] = st]
                BY <3>1
            <4>2. Steady(y, Me, st)
                BY <1>2, <2>2, SteadyIs DEF Phases
            <4>3. st.phase = "yielded"
                BY <1>2, <2>2 DEF Well, CoType
            <4> HIDE DEF st
            <4> QED BY <1>2, <2>2, <4>1, <4>2, <4>3, MovedIs
        <3>2. CASE c' = NextLine(y)
            <4>1. c' = [y EXCEPT !.uxState[Me] = NextMacro(y, Me)]
                BY <3>2 DEF NextLine, NextMacro
            <4>2. Steady(y, Me, NextMacro(y, Me)) /\ NextMacro(y, Me).phase = "call"
                BY <1>2, <2>2, SteadyIs DEF NextMacro
            <4> QED BY <1>2, <2>2, <4>1, <4>2, MovedIs
        <3> QED BY <1>5, <3>1, <3>2
    <2>5. y \in CoType /\ c' \in CoType
        BY <2>2, <2>4 DEF Moved, Well
    <2>6. ASSUME NEW o \in Ops, NEW k \in CoQueues, k \notin c'.skipped PROVE HeededBy(c', o, k, 0)
        <3> DEFINE n == IF k = q /\ o # other THEN 0 - 1 ELSE 0
        <3>1. k \notin c.skipped
            BY <2>2, <2>4, <2>6 DEF Moved, SameQueue
        <3>2. HeededBy(y, o, k, n) /\ n \in Int
            BY <2>1, <3>1 DEF Served
        <3>3. HeededBy(c', o, k, IF Calls(y, Me, o, k) /\ ~Calls(c', Me, o, k) THEN n + 1 ELSE n)
            <4> HIDE DEF n
            <4> QED BY <2>4, <3>2 DEF Moved
        <3>4. Calls(y, Me, o, k) <=> o = op /\ k = q
            BY <2>3 DEF Calls
        <3>5. ~Calls(c', Me, o, k)
            BY <2>4 DEF Calls
        <3>6. (o = op) <=> (o # other)
            BY <1>3 DEF Ops
        <3>7. (IF Calls(y, Me, o, k) /\ ~Calls(c', Me, o, k) THEN n + 1 ELSE n) = 0
            BY <3>4, <3>5, <3>6
        <3> QED BY <3>3, <3>7
    <2>7. \A k \in CoQueues : c'.uxMessagesWaiting[k] <= CoLength[k]
        BY <2>1, <2>4 DEF Served, Moved, SameQueue
    <2>8. SoundCo(c') /\ Placed(c') /\ Asleep(c') /\ Me \in ReadySet(c') /\ c'.pxCurrentCoRoutine = Me
        BY <2>2, <2>4, <2>6, <2>7 DEF SoundCo, QueueOK, Moved, SameRest, SameCo, Me
    <2> QED BY <1>1, <1>5, <2>8 DEF CoInv, CoPlaces
<1> QED BY <1>1, <1>4, <1>5

-----------------------------------------------------------------------------
(* Interrupts. *)

LEMMA TickKeeps ==
    ASSUME CoInv, CoTick
    PROVE  CoInv'
<1> DEFINE now == (c.now + 1) % CoTickMod
<1>1. c \in CoType /\ SoundCo(c) /\ at # "create" /\ c' = [c EXCEPT !.now = now] /\ at' = at
    BY DEF CoInv, CoTick, SoundCo, Well
<1>2. now \in 0 .. CoTickMod - 1
    <2>1. CoTickMod \in Nat \ {0} /\ c.now \in 0 .. CoTickMod - 1
        BY <1>1, CoAssumption DEF CoType
    <2>2. c.now + 1 \in Int
        BY <2>1
    <2> QED BY <2>1, <2>2
<1> HIDE DEF now
<1>3. c' \in CoType
    BY <1>1, <1>2 DEF CoType
<1>4. SameRest(c, c') /\ SameWaits(c, c') /\ SameQueue(c, c')
    BY <1>1 DEF CoType, SameRest, SameReady, SameSleep, SameTimes, SameTop, SameCo, SameState, SameWaits, SameQueue
<1>5. SoundCo(c') /\ Placed(c') = Placed(c) /\ Asleep(c') = Asleep(c) /\ ReadySet(c') = ReadySet(c)
    BY <1>1, <1>3, <1>4, KeptSound
<1>6. c'.pxCurrentCoRoutine = c.pxCurrentCoRoutine
    BY <1>4 DEF SameRest, SameCo
<1> QED BY <1>1, <1>5, <1>6 DEF CoInv

\* An interrupt that has woken a co-routine wakes no other: the queue is not
\* counted on from then on.
LEMMA ISRKeeps ==
    ASSUME CoInv, at # "create", NEW q \in CoQueues, NEW op \in Ops, NEW woken \in BOOLEAN,
           IF op = "crQUEUE_RECEIVE" THEN ~Full(c, q) ELSE ~Empty(c, q),
           c' = WakeUnless(woken, IF op = "crQUEUE_RECEIVE" THEN Put(c, q) ELSE Get(c, q), q, EventList(c, op, q)),
           at' = at
    PROVE  CoInv'
<1>1. c \in CoType /\ SoundCo(c) /\ Placed(c)
    BY DEF CoInv, SoundCo, Well
<1>2. CASE ~woken
    <2> DEFINE y == Exchanged(c, op, q).x
               n == y.calls - 1
    <2>1. c' = [y EXCEPT !.calls = n]
        BY <1>2 DEF WakeUnless, Exchanged, EventList, Ops
    <2>2. Served(c, y, op, q)
        BY <1>1, ExchangeIs
    <2> HIDE DEF y
    <2>3. Well(y) /\ y \in CoType
        BY <2>2 DEF Served, Well
    <2>4. QueueOK(y)
        <3>1. ASSUME NEW o \in Ops, NEW k \in CoQueues, k \notin y.skipped PROVE HeededBy(y, o, k, 0)
            <4>1. HeededBy(y, o, k, IF k = q /\ o # op THEN 0 - 1 ELSE 0)
                BY <2>2, <3>1 DEF Served
            <4> QED BY <2>3, <4>1, LooserStill
        <3> QED BY <2>2, <3>1 DEF QueueOK, Served
    <2>5. SoundCo(y)
        BY <2>3, <2>4 DEF SoundCo
    <2>6. n \in Int
        BY <2>3 DEF CoType
    <2> HIDE DEF n
    <2>7. c' \in CoType
        BY <2>1, <2>3, <2>6 DEF CoType
    <2>8. SameRest(y, c') /\ SameWaits(y, c') /\ SameQueue(y, c')
        BY <2>1, <2>3 DEF CoType, SameRest, SameReady, SameSleep, SameTimes, SameTop, SameCo, SameState, SameWaits, SameQueue
    <2>9. SoundCo(c') /\ Placed(c') = Placed(c) /\ Asleep(c') = Asleep(c) /\ ReadySet(c') = ReadySet(c)
        BY <2>2, <2>5, <2>7, <2>8, KeptSound DEF Served
    <2>10. c'.pxCurrentCoRoutine = c.pxCurrentCoRoutine
        BY <2>2, <2>8 DEF Served, SameRest, SameCo
    <2> QED BY <2>9, <2>10 DEF CoInv
<1>3. CASE woken
    <2> DEFINE d == IF op = "crQUEUE_RECEIVE" THEN 1 ELSE 0 - 1
               z == [c EXCEPT !.uxMessagesWaiting[q] = c.uxMessagesWaiting[q] + d]
               skip == IF EventList(c, op, q) = <<>> THEN c.skipped ELSE c.skipped \cup {q}
               n == c.calls - 1
               y == [z EXCEPT !.skipped = skip, !.calls = n]
    <2>1. c.uxMessagesWaiting[q] \in Nat /\ CoLength[q] \in Nat /\ c.uxMessagesWaiting[q] <= CoLength[q] /\ c.calls \in Int /\ c.skipped \in SUBSET CoQueues
        BY <1>1, SupplyIs DEF SoundCo, QueueOK, CoType
    <2>2. d \in Int /\ c.uxMessagesWaiting[q] + d \in Nat /\ c.uxMessagesWaiting[q] + d <= CoLength[q]
        BY <2>1 DEF Full, Empty
    <2>3. c' = y
        <3>1. CASE op = "crQUEUE_RECEIVE"
            BY <1>1, <1>3, <3>1 DEF WakeUnless, Put, CoType
        <3>2. CASE op = "crQUEUE_SEND"
            <4>1. z = [c EXCEPT !.uxMessagesWaiting[q] = @ - 1]
                BY <2>1, <3>2
            <4> QED BY <1>1, <1>3, <3>2, <4>1 DEF WakeUnless, Get, CoType
        <3> QED BY <3>1, <3>2 DEF Ops
    <2>4. MessageCounted(c, z, q, d)
        BY <1>1, <2>2, CountIs
    <2> HIDE DEF z
    <2>6. skip \in SUBSET CoQueues /\ n \in Int /\ c.skipped \subseteq skip
        BY <2>1
    <2> HIDE DEF skip, n
    <2>7. z \in CoType
        BY <2>4 DEF MessageCounted
    <2>8. y \in CoType /\ y.skipped = skip /\ y.uxMessagesWaiting = z.uxMessagesWaiting
        BY <2>6, <2>7 DEF CoType
    <2>9. SameRest(z, y) /\ SameWaits(z, y)
        BY <2>7 DEF CoType, SameRest, SameReady, SameSleep, SameTimes, SameTop, SameCo, SameState, SameWaits
    <2> HIDE DEF y
    <2>10. SameRest(c, y) /\ SameWaits(c, y)
        BY <2>4, <2>9 DEF MessageCounted, SameRest, SameReady, SameSleep, SameTimes, SameTop, SameCo, SameState, SameWaits
    <2>11. Well(y) /\ Placed(y) = Placed(c) /\ Asleep(y) = Asleep(c) /\ ReadySet(y) = ReadySet(c)
        BY <1>1, <2>8, <2>10, KeptWell DEF SoundCo
    <2>12. \A k \in CoQueues : y.uxMessagesWaiting[k] <= CoLength[k]
        <3>1. c.uxMessagesWaiting \in [CoQueues -> Nat]
            BY <1>1 DEF CoType
        <3>2. \A k \in CoQueues : y.uxMessagesWaiting[k] = IF k = q THEN c.uxMessagesWaiting[q] + d ELSE c.uxMessagesWaiting[k]
            BY <2>4, <2>8, <3>1 DEF MessageCounted
        <3>3. \A k \in CoQueues : c.uxMessagesWaiting[k] <= CoLength[k]
            BY <1>1 DEF SoundCo, QueueOK
        <3> HIDE DEF d
        <3> QED BY <2>2, <3>2, <3>3
    <2>13. ASSUME NEW o \in Ops, NEW k \in CoQueues, k \notin y.skipped PROVE HeededBy(y, o, k, 0)
        <3>1. k \notin c.skipped /\ HeededBy(c, o, k, 0)
            BY <1>1, <2>6, <2>8, <2>13 DEF SoundCo, QueueOK
        <3>2. HeededBy(z, o, k, IF k = q THEN 0 + Change("crQUEUE_RECEIVE", o, d) ELSE 0)
            BY <2>4, <3>1 DEF MessageCounted
        <3>3. /\ \A i : HeededBy(z, o, k, i) <=> HeededBy(y, o, k, i)
              /\ Waiters(y, o, k) = Waiters(c, o, k)
            <4>1. Waiters(y, o, k) = Waiters(z, o, k) /\ WokenOf(y, o, k) = WokenOf(z, o, k)
                BY <2>9, KeptWaits DEF SameRest
            <4>2. Supply(y, o, k) = Supply(z, o, k)
                BY <2>8 DEF Supply
            <4>3. Waiters(y, o, k) = Waiters(c, o, k)
                BY <2>10, KeptWaits DEF SameRest
            <4> QED BY <4>1, <4>2, <4>3 DEF HeededBy
        <3>4. CASE k # q
            BY <3>2, <3>3, <3>4
        <3>5. CASE k = q /\ o = op
            <4>1. EventList(c, op, q) = <<>>
                BY <2>6, <2>8, <2>13, <3>5 DEF skip
            <4>2. Waiters(c, op, q) = {}
                BY <4>1 DEF Waiters, EventList, Elements
            <4> QED BY <3>3, <3>5, <4>2 DEF HeededBy
        <3>6. CASE k = q /\ o # op
            <4>1. 0 + Change("crQUEUE_RECEIVE", o, d) = 0 - 1
                BY <3>6 DEF Change, Ops
            <4>2. HeededBy(y, o, k, 0 - 1)
                BY <3>2, <3>3, <3>6, <4>1
            <4> QED BY <2>8, <4>2, LooserStill
        <3> QED BY <3>4, <3>5, <3>6
    <2>14. SoundCo(y)
        BY <2>11, <2>12, <2>13 DEF SoundCo, QueueOK
    <2>15. y.pxCurrentCoRoutine = c.pxCurrentCoRoutine
        BY <2>10 DEF SameRest, SameCo
    <2> QED BY <2>3, <2>11, <2>14, <2>15 DEF CoInv
<1> QED BY <1>2, <1>3

-----------------------------------------------------------------------------
(* The co-routines are created, and the scheduler starts. *)

LEMMA PrioritiesFinite ==
    IsFiniteSet(CoPriorities) /\ Cardinality(CoPriorities) \in Nat
<1>1. CoPriority \in [CoRoutines -> CoPriorities] /\ \A p \in CoPriorities : \E r \in CoRoutines : CoPriority[r] = p
    BY CoAssumption DEF CoPriorities
<1>2. CoPriority \in Surjection(CoRoutines, CoPriorities)
    BY <1>1 DEF Surjection
<1>3. IsFiniteSet(CoPriorities)
    BY <1>2, CoAssumption, FS_Surjection
<1> QED BY <1>3, FS_CardinalityType

LEMMA EmptyIs ==
    /\ <<>> \in Seq(CoRoutines) /\ Distinct(<<>>) /\ Elements(<<>>) = {}
    /\ \A v : SortedBy(<<>>, v)
<1>1. DOMAIN <<>> = {}
    OBVIOUS
<1>2. <<>> \in Seq(CoRoutines)
    OBVIOUS
<1> QED BY <1>1, <1>2 DEF Distinct, Elements, SortedBy

LEMMA UnstartedIs ==
    ASSUME NEW x, Unstarted(x)
    PROVE  /\ Elements(x.pxDelayed) = {} /\ Elements(x.pxOverflowDelayed) = {} /\ Elements(x.xPendingReady) = {}
           /\ SortedBy(x.pxDelayed, x.wake) /\ SortedBy(x.pxOverflowDelayed, x.wake)
           /\ \A op \in Ops, q \in CoQueues : Waiters(x, op, q) = {}
           /\ Asleep(x)
BY EmptyIs DEF Unstarted, Waiters, Asleep

LEMMA CreateKeeps ==
    ASSUME CoInv, Create
    PROVE  CoInv'
<1>1. SoundCo(c) /\ Well(c) /\ c \in CoType /\ GoodLists(c) /\ at = "create" /\ Unstarted(c) /\ Asleep(c)
    BY DEF CoInv, Create, SoundCo, Well
<1>2. ASSUME NEW r \in CoRoutines, ~InReadyCo(c, r), c' = xCoRoutineCreate(c, r), at' = at
      PROVE  CoInv'
    <2> DEFINE current == IF c.pxCurrentCoRoutine = NoCo THEN r ELSE c.pxCurrentCoRoutine
               n == Cardinality(CoPriorities) - CoPriority[r]
               event == [c.event EXCEPT ![r] = n]
               z == [c EXCEPT !.pxCurrentCoRoutine = current, !.event = event]
    <2>1. c' = prvAddCoRoutineToReadyQueue(z, r)
        BY <1>2 DEF xCoRoutineCreate
    <2>2. current \in CoRoutines \cup {NoCo} /\ n \in Int
        <3>1. c.pxCurrentCoRoutine \in CoRoutines \cup {NoCo}
            BY <1>1 DEF CoType
        <3>2. CoPriority[r] \in Int
            BY CoAssumption
        <3>3. Cardinality(CoPriorities) \in Int
            BY PrioritiesFinite
        <3>4. n \in Int
            BY <3>2, <3>3
        <3> QED BY <3>1, <3>4
    <2> HIDE DEF current, n
    <2>3. event \in [CoRoutines -> Int]
        BY <1>1, <2>2 DEF CoType
    <2> HIDE DEF event
    <2>4. z \in CoType
        BY <1>1, <2>2, <2>3 DEF CoType
    <2>5. /\ SameReady(c, z) /\ SameSleep(c, z) /\ SameTimes(c, z) /\ SameTop(c, z) /\ SameState(c, z)
          /\ SameWaits(c, z) /\ SameQueue(c, z)
        BY <1>1 DEF CoType, SameReady, SameSleep, SameTimes, SameTop, SameState, SameWaits, SameQueue
    <2> HIDE DEF z
    <2>6. /\ GoodLists(z) /\ Apart3(z) /\ StateOK(z) /\ WaitsOK(z) /\ TimesOK(z) /\ TopOK(z) /\ QueueOK(z)
          /\ ReadySet(z) = ReadySet(c) /\ Unstarted(z)
        BY <1>1, <2>5, KeptReady, KeptLists, KeptTimes, KeptCalls, KeptWaits DEF SoundCo, Well, Unstarted, SameSleep, SameWaits
    <2>7. SoundCo(z)
        BY <2>4, <2>6 DEF SoundCo, Well
    <2>8. r \notin ReadySet(z)
        BY <1>1, <1>2, <2>6, ReadyIs
    <2>9. /\ c' \in CoType /\ GoodLists(c')
          /\ \A p \in CoPriorities :
                 ReadyIn(c', p) = IF p = CoPriority[r] THEN ReadyIn(z, p) \cup {r} ELSE ReadyIn(z, p)
          /\ c'.uxTopCoRoutineReadyPriority = IF CoPriority[r] > z.uxTopCoRoutineReadyPriority
                                              THEN CoPriority[r] ELSE z.uxTopCoRoutineReadyPriority
          /\ SameSleep(z, c') /\ SameWaits(z, c') /\ SameTimes(z, c') /\ SameCo(z, c')
          /\ SameState(z, c') /\ SameQueue(z, c')
        BY <2>1, <2>4, <2>6, <2>8, AddReadyIs
    <2>10. Unstarted(c')
        BY <2>6, <2>9 DEF Unstarted, SameSleep, SameWaits
    <2>11. \A p \in CoPriorities : r \in ReadyIn(z, p) => p = CoPriority[r]
        BY <2>4, <2>6, ReadyIs
    <2>12. /\ Elements(c'.pxDelayed) = Elements(z.pxDelayed) \ {r}
           /\ Elements(c'.pxOverflowDelayed) = Elements(z.pxOverflowDelayed) \ {r}
           /\ Elements(c'.xPendingReady) = Elements(z.xPendingReady) \ {r}
           /\ \A o \in Ops, k \in CoQueues : Waiters(c', o, k) = Waiters(z, o, k) \ {r}
           /\ SortedBy(c'.pxDelayed, c'.wake) /\ SortedBy(c'.pxOverflowDelayed, c'.wake) /\ Asleep(c')
        BY <2>6, <2>10, UnstartedIs
    <2>13. Readied(z, c', r)
        BY <2>9, <2>11, <2>12 DEF Readied
    <2>14. SoundCo(c')
        BY <2>7, <2>13, ReadiedKeeps
    <2> QED BY <1>1, <1>2, <2>10, <2>12, <2>14 DEF CoInv, CoPlaces
<1>3. CASE (\A r \in CoRoutines : InReadyCo(c, r)) /\ at' = "pending" /\ c' = c
    <2>1. ReadySet(c) = CoRoutines
        BY <1>1, <1>3, ReadyIs DEF ReadySet
    <2>2. Placed(c)
        BY <1>1, <2>1, UnstartedIs DEF Placed
    <2> QED BY <1>1, <1>3, <2>2 DEF CoInv, CoPlaces
<1> QED BY <1>2, <1>3 DEF Create

LEMMA CoInitKeeps == CoInit => CoInv
<1> SUFFICES ASSUME CoInit PROVE CoInv
    OBVIOUS
<1>1. at = "create"
    BY DEF CoInit
<1>2. /\ <<>> \in Seq(CoRoutines) /\ vListInitialise.items = <<>> /\ vListInitialise.index = 0
      /\ vListInitialise \in [items : Seq(CoRoutines), index : Nat]
    BY EmptyIs DEF vListInitialise
<1>3. c \in CoType
    <2>1. 0 \in 0 .. CoTickMod - 1 /\ CoCalls \in Int /\ {} \in SUBSET CoQueues /\ "call" \in Phases
        BY CoAssumption DEF Phases
    <2> QED BY <1>2, <2>1 DEF CoInit, CoType
<1>4. /\ c.pxReadyCoRoutineLists = [p \in CoPriorities |-> vListInitialise]
      /\ c.pxDelayed = <<>> /\ c.pxOverflowDelayed = <<>> /\ c.xPendingReady = <<>>
      /\ c.toSend = [q \in CoQueues |-> <<>>] /\ c.toReceive = [q \in CoQueues |-> <<>>]
      /\ c.uxState = [r \in CoRoutines |-> [line |-> 1, phase |-> "call"]] /\ c.early = FALSE
      /\ c.uxMessagesWaiting = [q \in CoQueues |-> 0]
    BY DEF CoInit
<1>5. Unstarted(c)
    BY <1>4 DEF Unstarted
<1>6. /\ Elements(c.pxDelayed) = {} /\ Elements(c.pxOverflowDelayed) = {} /\ Elements(c.xPendingReady) = {}
      /\ SortedBy(c.pxDelayed, c.wake) /\ SortedBy(c.pxOverflowDelayed, c.wake)
      /\ \A op \in Ops, q \in CoQueues : Waiters(c, op, q) = {}
      /\ Asleep(c)
    BY <1>5, UnstartedIs
<1>7. \A p \in CoPriorities : ReadyIn(c, p) = {} /\ GoodReady(CoRoutines, c.pxReadyCoRoutineLists[p])
    BY <1>2, <1>4, EmptyIs DEF ReadyIn, GoodReady
<1>8. GoodLists(c)
    BY <1>4, <1>7, EmptyIs DEF GoodLists, ReadyIn
<1>9. Apart3(c) /\ TimesOK(c) /\ TopOK(c)
    BY <1>4, <1>6, <1>7 DEF Apart3, TimesOK, TopOK
<1>10. \A r \in CoRoutines : c.uxState[r].line = 1 /\ c.uxState[r].phase = "call"
    BY <1>4
<1>11. StateOK(c)
    <2>1. \A r \in CoRoutines : 1 \in 1 .. Len(CoProgram[r])
        <3>1. \A r \in CoRoutines : CoProgram[r] \in Seq(Macros) /\ CoProgram[r] # <<>>
            BY CoAssumption
        <3> QED BY <3>1
    <2> QED BY <1>10, <2>1 DEF StateOK
<1>12. WaitsOK(c)
    BY <1>6 DEF WaitsOK
<1>13. QueueOK(c)
    <2>1. \A q \in CoQueues : c.uxMessagesWaiting[q] = 0 /\ CoLength[q] \in Nat \ {0}
        BY <1>4, CoAssumption
    <2> QED BY <1>6, <2>1 DEF QueueOK, HeededBy
<1> QED BY <1>1, <1>3, <1>5, <1>6, <1>8, <1>9, <1>11, <1>12, <1>13 DEF CoInv, SoundCo, Well, CoPlaces

LEMMA CoNextKeeps == CoInv /\ [CoNext]_coVars => CoInv'
<1> SUFFICES ASSUME CoInv, [CoNext]_coVars PROVE CoInv'
    OBVIOUS
<1>1. ASSUME NEW q \in CoQueues, NEW woken \in BOOLEAN, xQueueCRSendFromISR(q, woken)
      PROVE  CoInv'
    <2> DEFINE op == "crQUEUE_RECEIVE"
    <2>1. /\ at # "create" /\ at' = at /\ op \in Ops /\ ~Full(c, q)
          /\ c' = WakeUnless(woken, Put(c, q), q, EventList(c, op, q))
        BY <1>1 DEF xQueueCRSendFromISR, EventList, Ops
    <2> QED BY <2>1, ISRKeeps
<1>2. ASSUME NEW q \in CoQueues, NEW woken \in BOOLEAN, xQueueCRReceiveFromISR(q, woken)
      PROVE  CoInv'
    <2> DEFINE op == "crQUEUE_SEND"
    <2>1. /\ at # "create" /\ at' = at /\ op \in Ops /\ ~Empty(c, q)
          /\ c' = WakeUnless(woken, Get(c, q), q, EventList(c, op, q))
        BY <1>2 DEF xQueueCRReceiveFromISR, EventList, Ops
    <2> QED BY <2>1, ISRKeeps
<1>3. CASE UNCHANGED coVars
    BY <1>3 DEF coVars, CoInv
<1> QED BY <1>1, <1>2, <1>3, CreateKeeps, PendingKeeps, PassTickKeeps, ExpireKeeps, ScheduleKeeps,
           ResumedKeeps, DelayedKeeps, SendKeeps, ReceiveKeeps, TransferKeeps, TickKeeps DEF CoNext

-----------------------------------------------------------------------------
(* What the invariant says of the items. *)

LEMMA TimesIs ==
    ASSUME NEW s \in Seq(CoRoutines), Distinct(s), NEW r
    PROVE  Times(s, r) = IF r \in Elements(s) THEN 1 ELSE 0
<1>1. CASE r \notin Elements(s)
    <2>1. Items(s, r) = {}
        BY <1>1 DEF Items, Elements
    <2> QED BY <1>1, <2>1, FS_EmptySet DEF Times
<1>2. CASE r \in Elements(s)
    <2>1. PICK i \in DOMAIN s : s[i] = r
        BY <1>2 DEF Elements
    <2>2. Items(s, r) = {i}
        BY <2>1 DEF Items, Distinct
    <2> QED BY <1>2, <2>2, FS_Singleton DEF Times
<1> QED BY <1>1, <1>2

LEMMA GenericItemsIs ==
    ASSUME CoInv, at # "create", NEW r \in CoRoutines
    PROVE  GenericItems(r) = 1
<1>1. c \in CoType /\ GoodLists(c) /\ Apart3(c) /\ Placed(c)
    BY DEF CoInv, SoundCo, Well
<1> DEFINE R == {p \in CoPriorities : Contains_(c.pxReadyCoRoutineLists[p], r)}
           D == Times(c.pxDelayed, r)
           O == Times(c.pxOverflowDelayed, r)
<1>2. /\ D = IF r \in Elements(c.pxDelayed) THEN 1 ELSE 0
      /\ O = IF r \in Elements(c.pxOverflowDelayed) THEN 1 ELSE 0
    BY <1>1, TimesIs DEF CoType, GoodLists
<1>3. Cardinality(R) = IF r \in ReadySet(c) THEN 1 ELSE 0
    <2>1. CoPriority[r] \in CoPriorities /\ \A p \in CoPriorities : Contains_(c.pxReadyCoRoutineLists[p], r) <=> r \in ReadyIn(c, p)
        BY <1>1, ReadyIs
    <2>2. \A p \in CoPriorities : r \in ReadyIn(c, p) => p = CoPriority[r]
        BY <1>1, ReadyIs
    <2>3. CASE r \in ReadySet(c)
        <3>1. R = {CoPriority[r]}
            BY <2>1, <2>2, <2>3 DEF ReadySet
        <3> QED BY <2>3, <3>1, FS_Singleton
    <2>4. CASE r \notin ReadySet(c)
        <3>1. R = {}
            BY <2>1, <2>2, <2>4 DEF ReadySet
        <3> QED BY <2>4, <3>1, FS_EmptySet
    <2> QED BY <2>3, <2>4
<1>4. GenericItems(r) = Cardinality(R) + D + O
    BY DEF GenericItems
<1> HIDE DEF R, D, O
<1>5. \/ r \in ReadySet(c) /\ r \notin Elements(c.pxDelayed) /\ r \notin Elements(c.pxOverflowDelayed)
      \/ r \notin ReadySet(c) /\ r \in Elements(c.pxDelayed) /\ r \notin Elements(c.pxOverflowDelayed)
      \/ r \notin ReadySet(c) /\ r \notin Elements(c.pxDelayed) /\ r \in Elements(c.pxOverflowDelayed)
    BY <1>1 DEF Apart3, Placed
<1> QED BY <1>2, <1>3, <1>4, <1>5

LEMMA WaitItemsIs ==
    ASSUME CoInv, NEW r \in CoRoutines
    PROVE  /\ WaitItems(r) + Times(c.xPendingReady, r) <= 1
           /\ InReadyCo(c, r) => WaitItems(r) + Times(c.xPendingReady, r) = 0
<1>1. c \in CoType /\ GoodLists(c) /\ WaitsOK(c)
    BY DEF CoInv, SoundCo, Well
<1> DEFINE S(q) == {"toSend"} \X {q} \X Items(c.toSend[q], r)
           R(q) == {"toReceive"} \X {q} \X Items(c.toReceive[q], r)
           SS == {S(q) : q \in CoQueues}
           RR == {R(q) : q \in CoQueues}
           W == (UNION SS) \cup (UNION RR)
           P == Times(c.xPendingReady, r)
           OpOf(name) == IF name = "toSend" THEN "crQUEUE_SEND" ELSE "crQUEUE_RECEIVE"
           ListOf(name, q) == IF name = "toSend" THEN c.toSend[q] ELSE c.toReceive[q]
<1>2. P = IF r \in Elements(c.xPendingReady) THEN 1 ELSE 0
    BY <1>1, TimesIs DEF CoType, GoodLists
<1>3. ASSUME NEW w \in W
      PROVE  \E name \in {"toSend", "toReceive"}, q \in CoQueues : \E i \in Items(ListOf(name, q), r) : w = <<name, q, i>>
    <2>1. ASSUME NEW q \in CoQueues, w \in S(q) PROVE \E i \in Items(ListOf("toSend", q), r) : w = <<"toSend", q, i>>
        BY <2>1
    <2>2. ASSUME NEW q \in CoQueues, w \in R(q) PROVE \E i \in Items(ListOf("toReceive", q), r) : w = <<"toReceive", q, i>>
        BY <2>2
    <2> HIDE DEF S, R, ListOf
    <2>3. (\E T \in SS : w \in T) \/ \E T \in RR : w \in T
        <3> HIDE DEF SS, RR
        <3> QED OBVIOUS
    <2>4. (\E T \in SS : w \in T) => \E q \in CoQueues : w \in S(q)
        OBVIOUS
    <2>5. (\E T \in RR : w \in T) => \E q \in CoQueues : w \in R(q)
        OBVIOUS
    <2> QED BY <2>1, <2>2, <2>3, <2>4, <2>5
<1> HIDE DEF W
<1>4. ASSUME NEW name \in {"toSend", "toReceive"}, NEW q \in CoQueues, NEW i \in Items(ListOf(name, q), r)
      PROVE  /\ OpOf(name) \in Ops /\ r \in Waiters(c, OpOf(name), q) /\ Calls(c, r, OpOf(name), q)
             /\ r \notin ReadySet(c) /\ r \notin Elements(c.xPendingReady)
             /\ \A j \in Items(ListOf(name, q), r) : j = i
    <2>1. OpOf(name) \in Ops /\ r \in Waiters(c, OpOf(name), q)
        BY DEF Items, Waiters, Elements, Ops
    <2>2. Calls(c, r, OpOf(name), q) /\ r \notin ReadySet(c) /\ r \notin Elements(c.xPendingReady)
        BY <1>1, <2>1 DEF WaitsOK
    <2>3. Distinct(ListOf(name, q))
        BY <1>1 DEF GoodLists
    <2>4. \A j \in Items(ListOf(name, q), r) : j = i
        BY <2>3 DEF Items, Distinct
    <2> QED BY <2>1, <2>2, <2>4
<1> HIDE DEF ListOf
<1>5. ASSUME NEW w \in W, NEW w2 \in W PROVE w2 = w
    <2>1. PICK name \in {"toSend", "toReceive"}, q \in CoQueues : \E i \in Items(ListOf(name, q), r) : w = <<name, q, i>>
        BY <1>3
    <2>2. PICK i \in Items(ListOf(name, q), r) : w = <<name, q, i>>
        BY <2>1
    <2>3. PICK name2 \in {"toSend", "toReceive"}, q2 \in CoQueues : \E j \in Items(ListOf(name2, q2), r) : w2 = <<name2, q2, j>>
        BY <1>3
    <2>4. PICK j \in Items(ListOf(name2, q2), r) : w2 = <<name2, q2, j>>
        BY <2>3
    <2>5. Calls(c, r, OpOf(name), q) /\ Calls(c, r, OpOf(name2), q2)
        BY <1>4
    <2>6. OpOf(name) = OpOf(name2) /\ q = q2
        BY <2>5, CallsOnce
    <2>7. name = name2
        BY <2>6
    <2>8. j = i
        BY <1>4, <2>6, <2>7
    <2> QED BY <2>2, <2>4, <2>6, <2>7, <2>8
<1>6. WaitItems(r) = Cardinality(W)
    BY DEF WaitItems, W
<1> HIDE DEF SS, RR
<1>7. InReadyCo(c, r) <=> r \in ReadySet(c)
    BY <1>1, ReadyIs
<1>8. r \in Elements(c.xPendingReady) => r \notin ReadySet(c)
    BY <1>1 DEF WaitsOK
<1>9. CASE W = {}
    <2>1. Cardinality(W) = 0
        BY <1>9, FS_EmptySet
    <2> HIDE DEF P
    <2>2. WaitItems(r) + P <= 1 /\ (InReadyCo(c, r) => WaitItems(r) + P = 0)
        BY <1>2, <1>6, <1>7, <1>8, <2>1
    <2> QED BY <2>2 DEF P
<1>10. CASE W # {}
    <2>1. PICK w \in W : TRUE
        BY <1>10
    <2>2. W = {w}
        BY <1>5, <2>1
    <2>3. Cardinality(W) = 1
        BY <2>2, FS_Singleton
    <2>4. r \notin ReadySet(c) /\ r \notin Elements(c.xPendingReady)
        BY <1>3, <1>4, <2>1
    <2> HIDE DEF P
    <2>5. WaitItems(r) + P <= 1 /\ ~InReadyCo(c, r)
        BY <1>2, <1>6, <1>7, <2>3, <2>4
    <2> QED BY <2>5 DEF P
<1> QED BY <1>9, <1>10

LEMMA WokenIs ==
    ASSUME NEW q \in CoQueues, NEW op \in Ops
    PROVE  Woken(q, op, EventList(c, op, q)) = WokenOf(c, op, q)
BY DEF Woken, WokenOf, Calls, MacroOf, Waiters, EventList, Elements

LEMMA LeftIs ==
    ASSUME CoInv, at # "create", at # "expire", NEW r \in CoRoutines, ~InReadyCo(c, r)
    PROVE  c.left[r] > 0
<1>1. c \in CoType /\ GoodLists(c) /\ Placed(c) /\ Asleep(c) /\ TimesOK(c)
    BY DEF CoInv, SoundCo, Well
<1>2. r \notin ReadySet(c)
    BY <1>1, ReadyIs
<1>3. /\ c.wake[r] \in 0 .. CoTickMod - 1 /\ c.left[r] \in Nat /\ c.xCoRoutineTickCount \in 0 .. CoTickMod - 1
      /\ CoTickMod \in Nat
    BY <1>1, CoAssumption DEF CoType
<1>4. CASE r \in Elements(c.pxDelayed)
    BY <1>1, <1>4 DEF Asleep
<1>5. CASE r \in Elements(c.pxOverflowDelayed)
    BY <1>1, <1>3, <1>5 DEF TimesOK
<1> QED BY <1>1, <1>2, <1>4, <1>5 DEF Placed

\* A queue that no interrupt skipped has no more messages, or free places, than
\* co-routines woken for them, as long as another waits.
LEMMA HeededIs ==
    ASSUME CoInv, NEW q \in CoQueues, q \notin c.skipped, NEW op \in Ops, EventList(c, op, q) # <<>>
    PROVE  Supply(c, op, q) <= Cardinality(Woken(q, op, EventList(c, op, q)))
<1>1. c \in CoType /\ QueueOK(c)
    BY DEF CoInv, SoundCo, Well
<1>2. EventList(c, op, q) \in Seq(CoRoutines)
    BY <1>1 DEF CoType, EventList
<1>3. Waiters(c, op, q) # {}
    BY <1>2, HeadIs DEF Waiters, EventList
<1>4. HeededBy(c, op, q, 0)
    BY <1>1 DEF QueueOK
<1>5. Supply(c, op, q) \in Int /\ Cardinality(WokenOf(c, op, q)) \in Nat
    BY <1>1, SupplyIs, WokenFinite
<1>6. Woken(q, op, EventList(c, op, q)) = WokenOf(c, op, q)
    BY WokenIs
<1> QED BY <1>3, <1>4, <1>5, <1>6 DEF HeededBy

LEMMA CoInvHeeds == CoInv => CoRoutinesHeeded
<1> SUFFICES ASSUME CoInv, at # "create" PROVE CoRoutinesHeeded
    BY DEF CoRoutinesHeeded
<1>1. c \in CoType /\ GoodLists(c) /\ ~c.early /\ TopOK(c)
    BY DEF CoInv, SoundCo, Well, TimesOK
<1>2. ASSUME NEW p \in CoPriorities, c.pxReadyCoRoutineLists[p].items # <<>>
      PROVE  p <= c.uxTopCoRoutineReadyPriority
    <2>1. c.pxReadyCoRoutineLists[p].items \in Seq(CoRoutines)
        BY <1>1 DEF CoType
    <2>2. ReadyIn(c, p) # {}
        BY <1>2, <2>1, HeadIs DEF ReadyIn
    <2> QED BY <1>1, <2>2 DEF TopOK
<1>3. ASSUME NEW q \in CoQueues \ c.skipped
      PROVE  /\ c.toReceive[q] # <<>> =>
                   c.uxMessagesWaiting[q] <= Cardinality(Woken(q, "crQUEUE_RECEIVE", c.toReceive[q]))
             /\ c.toSend[q] # <<>> =>
                   CoLength[q] - c.uxMessagesWaiting[q] <= Cardinality(Woken(q, "crQUEUE_SEND", c.toSend[q]))
    <2>1. ASSUME NEW op \in Ops, EventList(c, op, q) # <<>>
          PROVE  Supply(c, op, q) <= Cardinality(Woken(q, op, EventList(c, op, q)))
        BY <2>1, HeededIs
    <2>2. "crQUEUE_RECEIVE" \in Ops /\ "crQUEUE_SEND" \in Ops
        BY DEF Ops
    <2>3. EventList(c, "crQUEUE_RECEIVE", q) = c.toReceive[q] /\ EventList(c, "crQUEUE_SEND", q) = c.toSend[q]
        BY DEF EventList
    <2>4. Supply(c, "crQUEUE_RECEIVE", q) = c.uxMessagesWaiting[q] /\ Supply(c, "crQUEUE_SEND", q) = CoLength[q] - c.uxMessagesWaiting[q]
        BY DEF Supply
    <2> QED BY <2>1, <2>2, <2>3, <2>4
<1>4. ASSUME NEW r \in CoRoutines
      PROVE  /\ GenericItems(r) = 1
             /\ WaitItems(r) + Times(c.xPendingReady, r) <= 1
             /\ InReadyCo(c, r) => WaitItems(r) + Times(c.xPendingReady, r) = 0
             /\ at # "expire" /\ ~InReadyCo(c, r) => c.left[r] > 0
    BY GenericItemsIs, WaitItemsIs, LeftIs
<1> QED BY <1>1, <1>2, <1>3, <1>4 DEF CoRoutinesHeeded

\* No co-routine is lost, or woken for nothing: each is in one place, sleeps for
\* as long as it asked, and waits beside no message that none was woken for
\* (croutine.c, queue.c 2373 to 2641), for every program of co-routines.
THEOREM CoRoutinesAlwaysHeeded == CoSpec => []CoRoutinesHeeded
<1>1. CoInit => CoInv
    BY CoInitKeeps
<1>2. CoInv /\ [CoNext]_coVars => CoInv'
    BY CoNextKeeps
<1>3. CoInv => CoRoutinesHeeded
    BY CoInvHeeds
<1> QED BY <1>1, <1>2, <1>3, PTL DEF CoSpec

=============================================================================
