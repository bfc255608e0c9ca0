------------------------------- MODULE Lists -------------------------------
(***************************************************************************)
(* The lists of FreeRTOS (src/c_test/FreeRTOS/Source/list.c, list.h), as   *)
(* sequences of owners in link order from the end marker.                  *)
(*                                                                         *)
(* A List_t also holds pxIndex, the item the last walk stopped at; only    *)
(* the ready lists are walked (listGET_OWNER_OF_NEXT_ENTRY), so only they  *)
(* are records of the items and of the position of pxIndex, 0 being the    *)
(* end marker.  Every other list is its sequence alone: nothing depends on *)
(* the place of pxIndex in a sorted list, nor on the order of the          *)
(* suspended and the deleted tasks, the only others a search by name       *)
(* walks.                                                                  *)
(***************************************************************************)
EXTENDS Naturals, Sequences, FiniteSets, SequencesExt

vListInitialise == [items |-> <<>>, index |-> 0]

listCURRENT_LIST_LENGTH(l) == Len(l.items)

Contains_(l, x) == \E i \in DOMAIN l.items : l.items[i] = x

\* The new item goes just before pxIndex: the last one a walk will reach.
vListInsertEnd(l, x) ==
    IF l.index = 0
    THEN [l EXCEPT !.items = Append(@, x)]
    ELSE [items |-> InsertAt(l.items, l.index, x), index |-> l.index + 1]

\* The place of x, which a list holds once at most.
PlaceOf(s, x) == CHOOSE i \in DOMAIN s : s[i] = x

\* When the item pxIndex points at leaves, pxIndex backs up to the one before.
uxListRemove(l, x) ==
    IF ~Contains_(l, x) THEN l
    ELSE LET i == PlaceOf(l.items, x)
         IN  [items |-> RemoveAt(l.items, i),
              index |-> IF i <= l.index THEN l.index - 1 ELSE l.index]

\* The walk moves to the next item and skips the end marker.
listGET_OWNER_OF_NEXT_ENTRY(l) ==
    [l EXCEPT !.index = IF @ < Len(l.items) THEN @ + 1 ELSE 1]

Owner(l) == l.items[l.index]

\* A list without pxIndex that loses the item of x.
Without(s, x) == IF \E i \in DOMAIN s : s[i] = x THEN RemoveAt(s, PlaceOf(s, x)) ELSE s

\* Seeded fault: an item goes before those of its own value.
InsertBeforeEquals(s, x, value, largest) ==
    LET later == {i \in DOMAIN s : value[s[i]] >= value[x]}
    IN  IF later = {} THEN Append(s, x)
        ELSE InsertAt(s, CHOOSE i \in later : \A j \in later : i <= j, x)
\* The sorted insertion: after every item of a value not greater, and at the
\* end when the value is the largest one, which the end marker also has.
vListInsert(s, x, value, largest) ==
    LET later == {i \in DOMAIN s : value[s[i]] > value[x]}
    IN  IF value[x] = largest \/ later = {} THEN Append(s, x)
        ELSE InsertAt(s, CHOOSE i \in later : \A j \in later : i <= j, x)

=============================================================================
