----------------------------- MODULE Multiplier -----------------------------
(***************************************************************************)
(* The radix-4 Booth multiplier of mul.v: operand extension, recoding,     *)
(* partial products, adder tree and selection of the half, at any even     *)
(* width W.  Every wire is as wide as in the code (33, 35, 36 and 66 bits  *)
(* there, W + 1, W + 3, W + 4 and 2W + 2 here) and wraps at its width.     *)
(***************************************************************************)
EXTENDS Integers

CONSTANT W    \* register width: 32 in the hardware

\* The recoding takes the operands two bits at a time.
ASSUME MultiplierAssumption == W \in Nat /\ W > 0 /\ W % 2 = 0

\* What ^ is, for the proofs: the prover knows powers of numerals only.
ASSUME MultiplierPowers == \A n \in 0 .. 2 * W + 1 : 2^(n + 1) = 2 * 2^n

Word  == 0 .. 2^W - 1
Func3 == {"mul", "mulh", "mulhsu", "mulhu"}

\* The value of an n-bit wire holding x, unsigned and as two's complement.
Unsigned(x, n) == x % 2^n
Signed(x, n)   == LET u == x % 2^n IN IF u >= 2^(n - 1) THEN u - 2^n ELSE u

VARIABLES func3, rs1, rs2,   \* the instruction in execute
          rd                 \* its result, -1 before the wires settle

multiplierVars == <<func3, rs1, rs2, rd>>

-----------------------------------------------------------------------------
\* The operands, extended to more bits.
OperandA == IF func3 = "mulhu" THEN rs1 ELSE Signed(rs1, W)

\* Seeded fault: MULHSU takes rs2 as signed.
OperandBSigned == Unsigned(IF func3 \in {"mulhu", "mul"} THEN rs2 ELSE Signed(rs2, W), W + 1)

OperandB == Unsigned(IF func3 = "mulh" THEN Signed(rs2, W) ELSE rs2, W + 1)

\* Bit k of b: 0 below the lowest, the sign bit above the highest.
BitOfB(k) == IF k < 0 THEN 0
             ELSE (OperandB \div 2^(IF k > W THEN W ELSE k)) % 2

\* The three bits that choose partial product i, and the multiple they choose.
Sel(i) == 4 * BitOfB(2 * i + 1) + 2 * BitOfB(2 * i) + BitOfB(2 * i - 1)

Multiple(sel) ==
    CASE sel \in {0, 7} -> 0
      [] sel \in {1, 2} -> 1
      [] sel = 3        -> 2
      [] sel = 4        -> -2
      [] sel \in {5, 6} -> -1

PartialProduct(i) == Signed(Multiple(Sel(i)) * OperandA, W + 4) * 2^(2 * i)

\* The adder tree: 17 partial products at width 32.
Sums[n \in 0 .. W \div 2] ==
    IF n = 0 THEN PartialProduct(0) ELSE Sums[n - 1] + PartialProduct(n)

Product == Unsigned(Sums[W \div 2], 2 * W + 2)

Selected == IF func3 = "mul" THEN Product % 2^W ELSE (Product \div 2^W) % 2^W

-----------------------------------------------------------------------------
MultiplierInit == func3 \in Func3 /\ rs1 \in Word /\ rs2 \in Word /\ rd = -1

Settle == rd = -1 /\ rd' = Selected /\ UNCHANGED <<func3, rs1, rs2>>

MultiplierSpec == MultiplierInit /\ [][Settle]_multiplierVars

-----------------------------------------------------------------------------
\* The result is a word once the wires have settled.
MultiplierTypeOK == func3 \in Func3 /\ rs1 \in Word /\ rs2 \in Word /\ rd \in Word \cup {-1}

\* Every partial product fits its wire and the carries dropped at the top never
\* reach the half that is taken: the four instructions return the low or the
\* high half of the product of their operands, each read with the sign its name
\* gives it (mul.v:28-90 against RV32M).
Exact ==
    LET a == IF func3 = "mulhu" THEN rs1 ELSE Signed(rs1, W)
        b == IF func3 \in {"mulhu", "mulhsu"} THEN rs2 ELSE Signed(rs2, W)
    IN  rd # -1 => rd = Unsigned(IF func3 = "mul" THEN a * b ELSE (a * b) \div 2^W, W)
=============================================================================
