----------------------------- MODULE MCSoftware -----------------------------
(* Small inputs for Software. *)
EXTENDS Software

\* Two regions, the first of which begins off the alignment.
TwoRegions == <<[start |-> 3, size |-> 23], [start |-> 30, size |-> 16]>>

Priority2 == [r \in CoRoutines |-> IF r = "high" THEN 1 ELSE 0]
Program2  ==
    [high |-> << [op |-> "crQUEUE_RECEIVE", q |-> "q", ticks |-> 2], [op |-> "crDELAY", ticks |-> 1] >>,
     low1 |-> << [op |-> "crQUEUE_SEND", q |-> "q", ticks |-> 2], [op |-> "crQUEUE_SEND", q |-> "q", ticks |-> 0] >>,
     low2 |-> << [op |-> "crQUEUE_RECEIVE", q |-> "q", ticks |-> 3], [op |-> "crDELAY", ticks |-> 0] >>]
One == [q \in CoQueues |-> 1]

\* Lists of three items between head and tail, and the lists of the benchmark
\* for the seeds whose results it knows.
ItemOf(i, n) == [idx |-> i, up |-> n, low |-> n]
ListOf(ups)  == <<ItemOf(0, 128), ItemOf(1, ups[1]), ItemOf(5, ups[2]), ItemOf(9, ups[3]), ItemOf(32767, 255)>>
Benches      == {(0 :> x) @@ (9 :> y) : x \in {0, 40}, y \in {2, 100}}
SmallLists ==
    [list : {ListOf(u) : u \in {0, 9, 10} \X {0, 9, 27} \X {2, 9, 10}}, finder_idx : {1, -1},
     find_num : 0 .. 3, bench : Benches]
KnownLists ==
    [list : {core_list_init(31, seed) : seed \in {0, 13333, 8}}, finder_idx : {1, -1},
     find_num : {8, 30}, bench : {[n \in 0 .. 127 |-> (37 * n) % 128]}]
Lists_ == SmallLists \cup KnownLists

\* A digit, a sign, a point, an exponent, another letter, a comma.
Texts  == UNION {[1 .. n -> {53, 43, 46, 101, 84, 44}] : n \in 0 .. 5}
States_ == [size : {10, 24, 37, 60}, seed : 0 .. 31, seed1 : {0, 8, 21, 30}, step : {2, 5, 34}]
Matrices ==
    [N : {2}, A : [Cells(2) -> {0, 3, -7}], B : {[x \in Cells(2) |-> x[1] - 3 * x[2]]}, val : {-8, 3, 7},
     w : {4}, blksize : {666}, at : {0}]
    \cup [N : {1}, A : {[x \in Cells(1) |-> 1]}, B : {[x \in Cells(1) |-> 2]}, val : {1}, w : {4},
          blksize : {133, 400, 666, 2000}, at : 0 .. 3]
=============================================================================
