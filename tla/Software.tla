------------------------------ MODULE Software ------------------------------
(***************************************************************************)
(* The parts of the software that stand alone, side by side: the           *)
(* allocators, the co-routines and the algorithms of CoreMark.  A          *)
(* behaviour is of one part; the variables of the others keep their first  *)
(* values.                                                                 *)
(***************************************************************************)
EXTENDS Heap, CoreMark, Croutine

CONSTANTS
    ListInputs,         \* of core_bench_list: [list, finder_idx, find_num, bench]
    StateInputs,        \* of core_bench_state: [size, seed, seed1, step]
    MatrixInputs        \* of matrix_test and core_init_matrix: [N, A, B, val, w, blksize, at]

VARIABLES
    input,              \* of the algorithm
    output              \* what it leaves

softVars == <<part, heap, input, output, textVars, coVars>>

Nothing == [none |-> TRUE]

SoftInit ==
    /\ CoInit
    /\ output = Nothing
    /\ \/ HeapInit /\ input = Nothing
       \/ /\ part \in {"croutine", "text", "list", "state", "matrix"}
          /\ heap = Uninitialised
          /\ input \in CASE part = "list"   -> ListInputs
                        [] part = "state"  -> StateInputs
                        [] part = "matrix" -> MatrixInputs
                        [] OTHER -> {Nothing}
    /\ IF part = "text" THEN TextInit ELSE text = <<>> /\ token = NoToken

HeapStep == HeapNext /\ UNCHANGED <<input, output, textVars, coVars>>

Compute ==
    /\ part \in {"list", "state", "matrix"} /\ output = Nothing
    /\ output' = CASE part = "list"  -> [list |-> core_bench_list(input.list, input.finder_idx,
                                                                input.find_num, input.bench)]
                   [] part = "state" -> core_bench_state(core_init_state(input.size, input.seed),
                                                         input.seed1, input.seed1, input.step)
                   [] part = "matrix" -> [place |-> core_init_matrix(input.blksize, input.at)]
                                              @@ matrix_test(input.N, input.A, input.B, input.val, input.w)
    /\ UNCHANGED <<part, input, heap, textVars, coVars>>

TextStep == part = "text" /\ Recognise /\ UNCHANGED <<part, heap, input, output, coVars>>

CoStep == part = "croutine" /\ CoNext /\ UNCHANGED <<part, heap, input, output, textVars>>

SoftNext == HeapStep \/ Compute \/ TextStep \/ CoStep

SoftSpec == SoftInit /\ [][SoftNext]_softVars

-----------------------------------------------------------------------------
(* Properties. *)

\* "The list is back to original state", "matrix A is back to original
\* contents", and the text is what it was, unless a character became a comma
\* when it was corrupted; a NUL still ends the corrupted text, and the matrices
\* stay in their block (core_list_join.c:136, core_matrix.c:115 and 146,
\* core_state.c:88).
InputsRestored ==
    output # Nothing =>
    /\ part = "list"   => output.list = input.list
    /\ part = "matrix" => output.A = input.A /\ output.place.end <= input.blksize
    /\ part = "state"  =>
        LET mem == core_init_state(input.size, input.seed)
        IN  /\ Len(mem) = input.size
            /\ \E i \in DOMAIN mem : output.corrupted[i] = 0
            /\ output.mem = mem <=> ~\E i \in DOMAIN mem : output.corrupted[i] = Comma /\ mem[i] # Comma

=============================================================================
