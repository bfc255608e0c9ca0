-------------------------------- MODULE Cache --------------------------------
(***************************************************************************)
(* The contents of one cache of rtl/core/cache.v and what a lookup and a   *)
(* fill make of them.  A cache is a function from sets to the four ways    *)
(* of the set; a way is NoLine or a line: its tag, kept here as the        *)
(* address of the first word, and its words.  Addresses count words.       *)
(* Nothing ever writes a cached word (the icache has write_en 0, and       *)
(* programs do not store to flash), so there is no dirty bit.              *)
(***************************************************************************)
EXTENDS Naturals

CONSTANTS
    LineWords,    \* words in a line (8 in the code)
    Sets          \* sets of a cache, CACHELINES in the code

ASSUME CacheAssumption == LineWords \in Nat \ {0} /\ Sets \in Nat \ {0}

Way    == 0..3
NoLine == [valid |-> FALSE]

LineOf(a) == a - (a % LineWords)
SetOf(a)  == (a \div LineWords) % Sets

EmptyCache == [s \in 0..Sets - 1 |-> [w \in Way |-> NoLine]]

\* The ways in which address a hits.
HitWays(cache, a) == {w \in Way : LET line == cache[SetOf(a)][w]
                                  IN  line.valid /\ line.tag = LineOf(a)}

\* The word a hit delivers: the lowest way wins.
ReadWord(cache, a) ==
    LET w == CHOOSE v \in HitWays(cache, a) : \A u \in HitWays(cache, a) : v <= u
    IN  cache[SetOf(a)][w].words[a % LineWords]

(***************************************************************************)
(* The way a fill replaces.  plru_bits is a latch: a cycle without a hit,  *)
(* or with a hit in several ways, clears the bits of the set; a hit in one *)
(* way sets two of the three bits and keeps the third, which may be 0 or 1 *)
(* here.  The bits used are those of the very cycle of the fill.           *)
(***************************************************************************)
Victims(hits) == CASE hits = {0} -> {2, 3}
                   [] hits = {1} -> {1}
                   [] hits = {2} -> {0, 3}
                   [] hits = {3} -> {0, 2}
                   [] OTHER      -> {0}

Fill(cache, a, w, words) ==
    [cache EXCEPT ![SetOf(a)][w] = [valid |-> TRUE, tag |-> LineOf(a), words |-> words]]
=============================================================================
