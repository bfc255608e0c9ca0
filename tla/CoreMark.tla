------------------------------ MODULE CoreMark ------------------------------
(***************************************************************************)
(* The three algorithms of CoreMark (src/c_test/coremark): list            *)
(* processing, matrix manipulation and a state machine over text.          *)
(*                                                                         *)
(* A list is the sequence of its items' data, head first: which cell holds *)
(* an item is abstracted.  An item is [idx, up, low], up and low being the *)
(* two bytes of data16.  The checksums the functions return are left out.  *)
(***************************************************************************)
EXTENDS CoreState, SequencesExt

Bit(n, i)  == (n \div 2 ^ i) % 2
\* The number of the bits i, below width, for which Op holds of those of a and b.
Bitwise_(Op(_, _), a, b, width) ==
    MapThenSumSet(LAMBDA i : 2 ^ i, {i \in 0 .. width - 1 : Op(Bit(a, i) = 1, Bit(b, i) = 1)})
Xor(a, b, width) == Bitwise_(LAMBDA x, y : x # y, a, b, width)
Or(a, b, width)  == Bitwise_(LAMBDA x, y : x \/ y, a, b, width)

-----------------------------------------------------------------------------
(* core_list_join.c *)

\* Bit 7 of the low byte says that the rest of it is the cached result.
Cached(item) == item.low >= 128

\* The result of an item whose function is 0 or 1 is that of the matrix or of
\* the state benchmark, given by bench; any other item's is its own low bits.
\* Cached, it replaces the low byte.
calc_func(item, bench) ==
    IF Cached(item) THEN item
    ELSE [item EXCEPT !.low = 128 + (IF @ % 8 \in {0, 1} THEN bench[item.up] ELSE @ % 128)]

\* The comparison by index rebuilds the low byte from the upper one.
Rebuilt(item) == [item EXCEPT !.low = item.up]

RECURSIVE Merge(_, _, _)
\* The next element is the first of p, unless that of q is smaller.
Merge(p, q, key) ==
    IF p = <<>> THEN q
    ELSE IF q = <<>> THEN p
    ELSE IF p[1][key] <= q[1][key]
    THEN <<p[1]>> \o Merge(Tail(p), q, key)
    ELSE <<q[1]>> \o Merge(p, Tail(q), key)

RECURSIVE MergePass(_, _, _)
\* One pass: neighbouring runs of insize elements become runs of twice as many.
MergePass(list, insize, key) ==
    LET First(n, s) == SubSeq(s, 1, IF n < Len(s) THEN n ELSE Len(s))
        Rest(n, s)  == SubSeq(s, n + 1, Len(s))
        q           == Rest(insize, list)
    IN  IF list = <<>> THEN <<>>
        ELSE Merge(First(insize, list), First(insize, q), key) \o MergePass(Rest(insize, q), insize, key)

RECURSIVE Passes(_, _, _)
\* The pass of a single merge is the last.
Passes(list, insize, key) ==
    IF Len(list) <= 2 * insize THEN MergePass(list, insize, key)
    ELSE Passes(MergePass(list, insize, key), 2 * insize, key)

\* Every element is compared at least once, as there are always two.
core_list_mergesort(list, key) == Passes(list, 1, key)
cmp_complex(list, bench) ==
    core_list_mergesort([i \in DOMAIN list |-> calc_func(list[i], bench)], "low")
\* Seeded fault: the sort by index does not restore the data.
cmp_idx_keeping(list) == core_list_mergesort(list, "idx")
cmp_idx(list) ==
    core_list_mergesort([i \in DOMAIN list |-> Rebuilt(list[i])], "idx")

\* The position of the item with that index, or with that low byte; 0 for none.
core_list_find(list, info) ==
    LET found == {i \in DOMAIN list : IF info.idx >= 0 THEN list[i].idx = info.idx
                                      ELSE list[i].low = info.low}
    IN  IF found = {} THEN 0 ELSE Min(found)

core_list_reverse(list) == Reverse(list)

\* The item after the one found moves to just behind the head of the list.
CacheNext(list, at) ==
    IF at = 0 \/ at = Len(list) THEN list
    ELSE InsertAt(RemoveAt(list, at + 1), 2, list[at + 1])

\* One search, for the index or for the number of the search; the position is
\* that in the list before it was reversed.
Search(list, i, finder_idx) ==
    LET at  == core_list_find(list, [idx |-> IF finder_idx >= 0 THEN finder_idx + i ELSE finder_idx,
                                     low |-> i % 256])
        rev == core_list_reverse(list)
    IN  CacheNext(rev, IF at = 0 THEN 0 ELSE Len(list) + 1 - at)

core_list_remove(list)          == RemoveAt(list, 2)
core_list_undo_remove(list, it) == InsertAt(list, 2, it)

core_bench_list(list, finder_idx, find_num, bench) ==
    LET searched == FoldLeft(LAMBDA l, i : Search(l, i - 1, finder_idx), list, [i \in 1 .. find_num |-> i])
        sorted   == IF finder_idx > 0 THEN cmp_complex(searched, bench) ELSE searched
    IN  cmp_idx(core_list_undo_remove(core_list_remove(sorted), sorted[2]))

\* The items go in behind the head, so the last one comes first, and the cell
\* the list may not reach stays unused.
core_list_init(size, seed) ==
    LET dat(i)  == 8 * Xor(seed % 16, i % 16, 4) + (i % 8)
        fits    == size - 3
        idx(n)  == IF n < size \div 5 THEN n
                   ELSE Or(256 * ((n + 1) % 8), Xor(n, seed, 16), 16) % 16384
        items   == [n \in 1 .. fits |-> [idx |-> idx(n), up |-> dat(fits - n), low |-> dat(fits - n)]]
    IN  cmp_idx(<<[idx |-> 0, up |-> 128, low |-> 128]>> \o items
                   \o <<[idx |-> 32767, up |-> 255, low |-> 255]>>)

-----------------------------------------------------------------------------
(* core_state.c *)

RECURSIVE Tokens(_, _)
\* The tokens from p to the NUL, as what the state machine returns for them.
Tokens(mem, p) ==
    IF AtEnd(mem, p) THEN <<>>
    ELSE LET t == core_state_transition(mem, p) IN <<t>> \o Tokens(mem, t.p)

\* Every step-th character but the commas is corrupted.
Corrupt(mem, seed, step) ==
    [i \in DOMAIN mem |-> IF (i - 1) % step = 0 /\ mem[i] # Comma THEN Xor(mem[i], seed, 8) ELSE mem[i]]

core_bench_state(mem, seed1, seed2, step) ==
    LET corrupted == Corrupt(mem, seed1, step)
    IN  [first |-> Tokens(mem, 1), second |-> Tokens(corrupted, 1), corrupted |-> corrupted,
         mem |-> Corrupt(corrupted, seed2, step)]

\* "5012" "1234" "-874" "+122", "35.54400" ".1234500" "-110.700" "+0.64400",
\* "5.500e+3" "-.123e-2" "-87e+832" "+0.6e-12", "T0.3e-1F" "-T.T++Tq" "1T3.4e4z" "34.0e-T^"
intpat   == << <<53,48,49,50>>, <<49,50,51,52>>, <<45,56,55,52>>, <<43,49,50,50>> >>
floatpat == << <<51,53,46,53,52,52,48,48>>, <<46,49,50,51,52,53,48,48>>,
               <<45,49,49,48,46,55,48,48>>, <<43,48,46,54,52,52,48,48>> >>
scipat   == << <<53,46,53,48,48,101,43,51>>, <<45,46,49,50,51,101,45,50>>,
               <<45,56,55,101,43,56,51,50>>, <<43,48,46,54,101,45,49,50>> >>
errpat   == << <<84,48,46,51,101,45,49,70>>, <<45,84,46,84,43,43,84,113>>,
               <<49,84,51,46,52,101,52,122>>, <<51,52,46,48,101,45,84,94>> >>

Pattern(seed) ==
    LET kind == seed % 8
        pats == IF kind <= 2 THEN intpat ELSE IF kind <= 4 THEN floatpat
                ELSE IF kind <= 6 THEN scipat ELSE errpat
    IN  pats[((seed \div 8) % 4) + 1]

RECURSIVE Populate(_, _, _, _)
\* The pattern chosen is written, with a comma, if the next choice finds room.
Populate(mem, next, size, seed) ==
    LET written == IF next = <<>> THEN mem ELSE mem \o next \o <<Comma>>
    IN  IF Len(mem) + Len(next) + 1 >= size - 1 THEN mem
        ELSE Populate(written, Pattern(seed + 1), size, seed + 1)

core_init_state(size, seed) ==
    LET filled == Populate(<<>>, <<>>, size, seed)
    IN  filled \o [i \in 1 .. size - Len(filled) |-> 0]

-----------------------------------------------------------------------------
(* core_matrix.c, with MATDAT of w bits and MATRES of twice as many. *)

Signed(n, w) == LET m == n % 2 ^ w IN IF m >= 2 ^ (w - 1) THEN m - 2 ^ w ELSE m
Cells(N)     == (0 .. N - 1) \X (0 .. N - 1)
SumOver(S, f(_)) == MapThenSumSet(f, S)

matrix_add_const(A, val, w) == [c \in DOMAIN A |-> Signed(A[c] + val, w)]
matrix_mul_const(A, val, w) == [c \in DOMAIN A |-> Signed(A[c] * val, 2 * w)]
matrix_mul_vect(N, A, B, w) ==
    [i \in 0 .. N - 1 |-> Signed(SumOver(0 .. N - 1, LAMBDA j : A[i, j] * B[0, j]), 2 * w)]
matrix_mul_matrix(N, A, B, w) ==
    [c \in Cells(N) |-> Signed(SumOver(0 .. N - 1, LAMBDA j : A[c[1], j] * B[j, c[2]]), 2 * w)]

\* The bits from, from + 1, ... of x, to of them.
bit_extract(x, from, to) == (x \div 2 ^ from) % 2 ^ to
matrix_mul_matrix_bitextract(N, A, B, w) ==
    LET Part(x) == bit_extract(x, 2, 4) * bit_extract(x, 5, 7)
    IN  [c \in Cells(N) |-> Signed(SumOver(0 .. N - 1, LAMBDA j : Part(A[c[1], j] * B[j, c[2]])), 2 * w)]

\* The upper quarter of the bits is set.
matrix_big(x, w) == Signed(2 ^ w - 2 ^ (w - w \div 4) + (x % 2 ^ (w - w \div 4)), w)

\* What each result is summed to: 10 for a sum over the clip value, which then
\* starts again, and 1 for an element greater than the one before.
matrix_sum(N, C, clipval, w) ==
    LET order == [n \in 1 .. N * N |-> <<(n - 1) \div N, (n - 1) % N>>]
        Step(acc, c) ==
            LET tmp == Signed(acc.tmp + C[c], 2 * w)
            IN  [tmp |-> IF tmp > clipval THEN 0 ELSE tmp, prev |-> C[c],
                 ret |-> acc.ret + (IF tmp > clipval THEN 10 ELSE IF C[c] > acc.prev THEN 1 ELSE 0)]
    IN  FoldLeft(Step, [tmp |-> 0, prev |-> 0, ret |-> 0], order).ret

\* The matrix A that is left, and the sums of the results on the way, whose
\* first row only the product with a vector overwrites.
matrix_test(N, A, B, val, w) ==
    LET A1      == matrix_add_const(A, val, w)
        scaled  == matrix_mul_const(A1, val, w)
        vect    == matrix_mul_vect(N, A1, B, w)
        onto(C) == [c \in DOMAIN C |-> IF c[1] * N + c[2] < N THEN vect[c[1] * N + c[2]] ELSE C[c]]
        Sum_(C) == matrix_sum(N, C, matrix_big(val, w), w)
    IN  [A |-> matrix_add_const(A1, -val, w),
         sums |-> <<Sum_(scaled), Sum_(onto(scaled)), Sum_(matrix_mul_matrix(N, A1, B, w)),
                    Sum_(matrix_mul_matrix_bitextract(N, A1, B, w))>>]

\* The largest N whose three matrices fit the block, and where they begin in it.
core_init_matrix(blksize, misaligned) ==
    LET N == (CHOOSE i \in 1 .. blksize + 1 : 8 * i * i >= blksize /\ 8 * (i - 1) * (i - 1) < blksize) - 1
        align_mem(a) == a + ((4 - ((a + misaligned) % 4)) % 4)
        A == align_mem(0)
        B == A + 2 * N * N
        C == align_mem(B + 2 * N * N)
    IN  [N |-> N, A |-> A, B |-> B, C |-> C, end |-> C + 4 * N * N]

=============================================================================
