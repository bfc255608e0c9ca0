------------------------------- MODULE Divider -------------------------------
(***************************************************************************)
(* The restoring divider of rtl/core/div.v, one action per clock edge.     *)
(* A word is a number below 2^DW; start comes with an operation and two    *)
(* operands whenever the divider is idle, as alu.v gives it.               *)
(***************************************************************************)
EXTENDS Integers

CONSTANTS
    DW,     \* bits in a word
    Ops     \* the operations the program uses

SignedOps   == {"DIV", "REM"}
UnsignedOps == {"DIVU", "REMU"}

\* What the register widths and alu.v grant.
ASSUME DividerAssumption ==
    DW \in Nat \ {0, 1} /\ Ops \subseteq SignedOps \cup UnsignedOps

\* What ^ is, for the proofs: the prover knows powers of numerals only.
ASSUME DividerPowers == \A n \in 0 .. DW - 1 : 2 ^ (n + 1) = 2 * 2 ^ n

Wrap == 2 ^ DW
DivWord == 0 .. Wrap - 1

VARIABLES
    state,            \* cur_state
    ready, result,
    div_op, divd, divs,   \* op_r, divd_r, divs_r
    quoNeg, remNeg,   \* quo_neg_flag, rem_neg_flag
    dividendAbs, divisorAbs,
    rem, quo, cnt,
    before            \* history: the operation before the one in div_op

operands == <<div_op, divd, divs, quoNeg, remNeg, dividendAbs, divisorAbs, before>>
dividerVars == <<state, ready, result, operands, rem, quo, cnt>>

DividerInit ==
    /\ state = "IDLE"
    /\ ready = FALSE /\ result = 0
    /\ div_op = "DIV" /\ divd = 0 /\ divs = 0
    /\ quoNeg = FALSE /\ remNeg = FALSE
    /\ dividendAbs = 0 /\ divisorAbs = 0
    /\ rem = 0 /\ quo = 0 /\ cnt = 0
    /\ before = "DIV"

-----------------------------------------------------------------------------
Negative(w) == w >= Wrap \div 2

Negate(w)   == (Wrap - w) % Wrap
Bit(w, i)   == (w \div 2 ^ i) % 2

\* The magnitudes are chosen by div_op as it was before this start.
Magnitude(w) == IF div_op \in SignedOps /\ Negative(w) THEN Negate(w) ELSE w

\* Seeded fault: the remainder takes the sign of the quotient.
RemSignOfQuotient(a, b) == div_op \in SignedOps /\ Negative(a) # Negative(b)

RemSign(a, b) == div_op \in SignedOps /\ Negative(a)

Start(o, a, b) ==
    /\ state = "IDLE"
    /\ div_op' = o /\ divd' = a /\ divs' = b /\ before' = div_op
    /\ dividendAbs' = Magnitude(a)
    /\ divisorAbs' = Magnitude(b)
    /\ quoNeg' = (div_op \in SignedOps /\ Negative(a) # Negative(b))
    /\ remNeg' = RemSign(a, b)
    /\ rem' = 0 /\ quo' = 0 /\ cnt' = 0
    /\ state' = "CALC"
    /\ ready' = FALSE
    /\ UNCHANGED result

\* ready lasts one cycle.
DividerIdle ==
    /\ state = "IDLE"
    /\ ready' = FALSE
    /\ UNCHANGED <<state, result, operands, rem, quo, cnt>>

(***************************************************************************)
(* One bit of the quotient; with a zero divisor the count jumps to its end *)
(* instead.                                                                *)
(***************************************************************************)
Shifted == 2 * rem + Bit(dividendAbs, DW - 1 - cnt)

\* Seeded fault: the last subtraction is lost when it leaves nothing.
SubtractsStrict == Shifted > divisorAbs

Subtracts == Shifted >= divisorAbs

\* Seeded fault: the last bit is looked for one late, which cnt never reaches.
LastBitNever == cnt = DW

LastBit == cnt = DW - 1

Iterate ==
    /\ state = "CALC"
    /\ IF divs = 0
       THEN cnt' = DW - 1 /\ UNCHANGED <<rem, quo>>
       ELSE /\ rem' = Shifted - (IF Subtracts THEN divisorAbs ELSE 0)
            /\ quo' = (2 * quo + (IF Subtracts THEN 1 ELSE 0)) % Wrap
            /\ cnt' = (cnt + 1) % DW
    /\ state' = IF LastBit THEN "END" ELSE "CALC"
    /\ ready' = FALSE
    /\ UNCHANGED <<result, operands>>

Quotient  == IF div_op = "DIV" /\ quoNeg THEN Negate(quo) ELSE quo
Remainder == IF div_op = "REM" /\ remNeg THEN Negate(rem % Wrap) ELSE rem % Wrap

Finish ==
    /\ state = "END"
    /\ result' = CASE div_op \in {"DIV", "DIVU"} -> IF divs = 0 THEN Wrap - 1 ELSE Quotient
                   [] OTHER                  -> IF divs = 0 THEN divd ELSE Remainder
    /\ ready' = TRUE
    /\ state' = "IDLE"
    /\ UNCHANGED <<operands, rem, quo, cnt>>

DividerStep == Iterate \/ Finish

DividerNext == \/ \E o \in Ops, a, b \in DivWord : Start(o, a, b)
        \/ DividerIdle
        \/ DividerStep

DividerSpec == DividerInit /\ [][DividerNext]_dividerVars

\* The clock runs.
DividerFairSpec == DividerSpec /\ WF_dividerVars(DividerStep)

-----------------------------------------------------------------------------
\* The values of the divider's registers: the remainder needs one bit more.
DividerTypeOK ==
    /\ state \in {"IDLE", "CALC", "END"}
    /\ ready \in BOOLEAN /\ result \in DivWord
    /\ div_op \in SignedOps \cup UnsignedOps /\ before \in SignedOps \cup UnsignedOps
    /\ divd \in DivWord /\ divs \in DivWord
    /\ quoNeg \in BOOLEAN /\ remNeg \in BOOLEAN
    /\ dividendAbs \in DivWord /\ divisorAbs \in DivWord
    /\ rem \in 0 .. 2 * Wrap - 1 /\ quo \in DivWord
    /\ cnt \in 0 .. DW - 1

(***************************************************************************)
(* What RISC-V defines for the four instructions: division truncates       *)
(* towards zero, the remainder has the sign of the dividend, a quotient by *)
(* zero is all ones, a remainder by zero the dividend.                     *)
(***************************************************************************)
Abs(i)      == IF i < 0 THEN -i ELSE i
AsSigned(w) == IF Negative(w) THEN w - Wrap ELSE w

Defined(o, a, b) ==
    LET x == IF o \in SignedOps THEN AsSigned(a) ELSE a
        y == IF o \in SignedOps THEN AsSigned(b) ELSE b
        q == IF y = 0 THEN -1
             ELSE (Abs(x) \div Abs(y)) * (IF (x < 0) # (y < 0) THEN -1 ELSE 1)
        r == IF y = 0 THEN x ELSE x - q * y
    IN  (IF o \in {"DIV", "DIVU"} THEN q ELSE r) % Wrap

Correct == result = Defined(div_op, divd, divs)

(***************************************************************************)
(* When the divider says ready, result is what RISC-V defines for the      *)
(* operands and the operation it was started with.  (div.v, README.md:28.) *)
(***************************************************************************)
ResultCorrect == ready => Correct

(***************************************************************************)
(* So it is whenever the operation before had the same signedness.         *)
(***************************************************************************)
CorrectAfterSameSign == ready /\ (before \in SignedOps <=> div_op \in SignedOps) => Correct

(***************************************************************************)
(* A loop invariant of the division: after cnt bits, quo and rem are the   *)
(* quotient and the remainder of the bits seen.                            *)
(***************************************************************************)
Seen == dividendAbs \div 2 ^ (DW - cnt)
PartialDivision ==
    state = "CALC" /\ divs # 0 => /\ quo * divisorAbs + rem = Seen
                                  /\ rem < divisorAbs

(***************************************************************************)
(* A division that was started shows its result.                           *)
(***************************************************************************)
Finishes == (state = "CALC") ~> ready
=============================================================================
