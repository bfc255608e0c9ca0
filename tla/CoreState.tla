----------------------------- MODULE CoreState -----------------------------
(***************************************************************************)
(* The state machine of CoreMark (src/c_test/coremark/core_state.c), which *)
(* tells the kinds of numbers in a text apart.  A character is its code;   *)
(* the NUL that ends a text may be left out.                               *)
(***************************************************************************)
EXTENDS Integers, Sequences, FiniteSets

CONSTANT TextInputs     \* the texts that are given to core_state_transition

ASSUME TextAssumption == \A s \in TextInputs : s \in Seq(0 .. 255)

VARIABLES
    text,       \* what is scanned from its first character
    token       \* what core_state_transition returned, or NoToken

textVars == <<text, token>>

Comma == 44
Sign  == {43, 45}
Point == 46
Exp   == {69, 101}
ee_isdigit(ch) == ch \in 48 .. 57

States == {"START", "INVALID", "S1", "INT", "FLOAT", "S2", "EXPONENT", "SCIENTIFIC"}

\* Seeded fault: an exponent may begin without a sign.
AfterExponentAny(ch) == IF ch \in Sign \/ ee_isdigit(ch) THEN "EXPONENT" ELSE "INVALID"
\* An exponent begins with its sign.
AfterExponent(ch) == IF ch \in Sign THEN "EXPONENT" ELSE "INVALID"

\* The state after the symbol ch.
NextState(state, ch) ==
    CASE state = "START" -> IF ee_isdigit(ch) THEN "INT" ELSE IF ch \in Sign THEN "S1"
                            ELSE IF ch = Point THEN "FLOAT" ELSE "INVALID"
      [] state = "S1"    -> IF ee_isdigit(ch) THEN "INT" ELSE IF ch = Point THEN "FLOAT" ELSE "INVALID"
      [] state = "INT"   -> IF ch = Point THEN "FLOAT" ELSE IF ee_isdigit(ch) THEN "INT" ELSE "INVALID"
      [] state = "FLOAT" -> IF ch \in Exp THEN "S2" ELSE IF ee_isdigit(ch) THEN "FLOAT" ELSE "INVALID"
      [] state = "S2"    -> AfterExponent(ch)
      [] state \in {"EXPONENT", "SCIENTIFIC"} -> IF ee_isdigit(ch) THEN "SCIENTIFIC" ELSE "INVALID"
      [] state = "INVALID" -> "INVALID"

\* The counts a step adds to; the other digits of a number add to none.
Counted(state, next) ==
    CASE state = next         -> {}
      [] state = "SCIENTIFIC" -> {"INVALID"}
      [] state = "START" /\ next = "INVALID" -> {"START", "INVALID"}
      [] OTHER -> {state}

\* Of the states entered, one after the other.
TransitionCounts(states) ==
    [s \in States |->
        Cardinality({i \in 1 .. Len(states) - 1 : s \in Counted(states[i], states[i + 1])})]

\* The state after each number of symbols from p on.
Walk(mem, p) ==
    LET state[n \in 0 .. Len(mem) + 1 - p] ==
            IF n = 0 THEN "START" ELSE NextState(state[n - 1], mem[p + n - 1])
    IN  state

\* The loop ends at the NUL, behind an invalid symbol, or at a comma.
AtEnd(mem, q)         == q > Len(mem) \/ mem[q] = 0
Stops(mem, p, walk, n) == AtEnd(mem, p + n) \/ walk[n] = "INVALID" \/ mem[p + n] = Comma

\* The end of the token that starts at p, its kind, and the transitions counted.
core_state_transition(mem, p) ==
    LET walk == Walk(mem, p)
        n    == CHOOSE m \in 0 .. Len(mem) + 1 - p :
                    Stops(mem, p, walk, m) /\ \A l \in 0 .. m - 1 : ~Stops(mem, p, walk, l)
        over == AtEnd(mem, p + n) \/ walk[n] = "INVALID"
    IN  [p |-> IF over THEN p + n ELSE p + n + 1, state |-> walk[n],
         counts |-> TransitionCounts([i \in 1 .. n + 1 |-> walk[i - 1]])]

-----------------------------------------------------------------------------

NoToken == [none |-> TRUE]

TextInit == text \in TextInputs /\ token = NoToken

Recognise ==
    /\ token = NoToken
    /\ token' = core_state_transition(text, 1)
    /\ UNCHANGED text

TextSpec == TextInit /\ [][Recognise]_textVars

-----------------------------------------------------------------------------
(* Properties. *)

\* The grammar of numbers: an optional sign, digits with a point in them, an
\* exponent with a sign.
Spelled(s, kind) ==
    LET Digits(a, b) == \A i \in a .. b : ee_isdigit(s[i])
        n     == Len(s)
        first == IF n > 0 /\ s[1] \in Sign THEN 2 ELSE 1
        Mantissa(b) == \E d \in first .. b : s[d] = Point /\ Digits(first, d - 1) /\ Digits(d + 1, b)
        Exponent(e) == e + 1 <= n /\ Mantissa(e - 1) /\ s[e] \in Exp /\ s[e + 1] \in Sign
    IN  CASE kind = "START"      -> n = 0
          [] kind = "S1"         -> n = 1 /\ first = 2
          [] kind = "INT"        -> n >= first /\ Digits(first, n)
          [] kind = "FLOAT"      -> Mantissa(n)
          [] kind = "S2"         -> n > 0 /\ Mantissa(n - 1) /\ s[n] \in Exp
          [] kind = "EXPONENT"   -> Exponent(n - 1)
          [] kind = "SCIENTIFIC" -> \E e \in 2 .. n - 2 : Exponent(e) /\ Digits(e + 2, n)

Kinds == States \ {"INVALID"}

\* A token is what the grammar of numbers says, and the scan ends behind the
\* comma, at the NUL, or behind the first symbol that fits no number
\* (core_state.c:192-270).
TokensExact ==
    token # NoToken =>
        LET ended == token.p > 1 /\ text[token.p - 1] = Comma /\ token.state # "INVALID"
            s     == SubSeq(text, 1, IF ended THEN token.p - 2 ELSE token.p - 1)
        IN  /\ \A kind \in Kinds : token.state = kind <=> Spelled(s, kind)
            /\ token.state = "INVALID" =>
                   \E kind \in Kinds : Spelled(SubSeq(s, 1, Len(s) - 1), kind)
            /\ token.state # "INVALID" /\ ~ended => AtEnd(text, token.p)

=============================================================================
