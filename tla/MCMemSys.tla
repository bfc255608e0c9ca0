------------------------------ MODULE MCMemSys ------------------------------
(***************************************************************************)
(* A small instance of MemSys: lines of four words in two sets, three      *)
(* lines of flash for each.  The programs of Checked keep out of the way   *)
(* of the fills; each of the others does one thing the hardware does not   *)
(* handle, and a property fails of it (see the README).                    *)
(***************************************************************************)
EXTENDS MemSys

IlmOnly    == {Ilm}
Everywhere == {Ilm} \cup FlashAddrs
UartStores == {Store(UartBase)}
Loads(n)   == {Load(a) : a \in FlashBase .. FlashBase + n - 1}

Does(fetch, requests, redirects, onMiss) ==
    [fetch |-> fetch, requests |-> requests, redirects |-> redirects, onMiss |-> onMiss]

\* Code in flash that waits for its fills and stores to the UART; code in
\* instruction memory that loads flash words, two lines of one set and one of
\* the other, redirected in any cycle.
Quiet    == Does(Everywhere, UartStores, "idle", FALSE)
DataLoads == Does(IlmOnly, Loads(8), "any", TRUE)
Checked  == {Quiet, DataLoads}
ASSUME CheckedKeepClear == \A p \in Checked : WaitsForFills(p) \/ OnlyLoads(p)

\* A jump away from a fetch that misses: FetchCorrect.
RedirectOnMiss == {Does(FlashAddrs, {}, "first", FALSE)}
\* A load, or a store, that meets a fetch that misses: FetchCorrect, FlashIntact.
LoadOnMiss     == {Does(FlashAddrs, Loads(4), "idle", TRUE)}
StoreOnMiss    == {Does(FlashAddrs, UartStores, "idle", TRUE)}
\* A load made by code in flash: LoadCorrect.
LoadInFlash    == {Does(FlashAddrs, Loads(4), "idle", FALSE)}
\* A store behind a load, and an interrupt during a store: StallsEnd.
StoreAfterLoad == {Does(IlmOnly, Loads(4) \cup UartStores, "idle", FALSE)}
IrqInStore     == {Does(IlmOnly, UartStores, "any", FALSE)}
\* Any program that fetches three lines of a set: UsesFreeWays.
ThreeLines     == {Does(FlashAddrs, {}, "idle", FALSE)}
=============================================================================
