------------------------------- MODULE MemSys -------------------------------
(***************************************************************************)
(* The memory system outside the core's own memories, clock cycle by clock *)
(* cycle: both caches and the fill logic of addr_mux.v, the bus master     *)
(* cpu_to_bus.v, simple_bus.v, flash.v and the write side of uart.v.       *)
(*                                                                         *)
(* The pipeline is the environment.  It shows the address it fetches (pc)  *)
(* and the external access of the instruction in its execute stage (req);  *)
(* it holds both while it is stalled, and may empty itself and go          *)
(* elsewhere: in any cycle with nothing outstanding, and in others as the  *)
(* program's redirects allow (a mispredicted jump, an interrupt).          *)
(*                                                                         *)
(* Addresses are numbers of words: Ilm stands for all of instruction       *)
(* memory, which needs no bus; flash starts at FlashBase and the UART at   *)
(* UartBase; nothing answers below FlashBase.                              *)
(***************************************************************************)
EXTENDS Cache

CONSTANTS
    FlashBase, FlashWords,   \* the flash holds FlashWords words
    UartBase,
    Programs          \* the programs that may run: what each asks of the system

Ilm == 0
FlashAddrs == FlashBase .. FlashBase + FlashWords - 1

NoReq    == [op |-> "none", addr |-> 0]
Store(a) == [op |-> "store", addr |-> a]
Load(a)  == [op |-> "load", addr |-> a]

(***************************************************************************)
(* A program: the addresses it fetches from, the external accesses it      *)
(* makes, when it may empty itself and go elsewhere ("idle": with nothing  *)
(* outstanding; "first": also in the cycle a miss is seen; "any"), and     *)
(* whether an access may meet a fetch that misses.                         *)
(***************************************************************************)
ASSUME AddressAssumption ==
    /\ FlashBase \in Nat /\ FlashWords \in Nat /\ UartBase \in Nat
    /\ FlashBase % LineWords = 0
    /\ FlashBase >= 2 * LineWords
    /\ UartBase >= FlashBase + FlashWords + LineWords
    /\ \A p \in Programs :
          /\ p.fetch \subseteq {Ilm} \cup FlashAddrs
          /\ p.requests \subseteq {Store(UartBase), Load(UartBase)}
                               \cup {Load(a) : a \in FlashAddrs}
          /\ p.redirects \in {"idle", "first", "any"}
          /\ p.onMiss \in BOOLEAN

(***************************************************************************)
(* Two ways to keep clear of the fills.  A program that waits for them is  *)
(* redirected only with nothing outstanding, and its stores to the UART    *)
(* meet no fetch that misses.  One that only loads fetches nothing over    *)
(* the bus.                                                                *)
(***************************************************************************)
WaitsForFills(p) ==
    p.redirects = "idle" /\ ~p.onMiss /\ p.requests \subseteq {Store(UartBase)}

OnlyLoads(p) == p.fetch \subseteq {Ilm} /\ \A r \in p.requests : r.op # "store"

KeepsClear == \A p \in Programs : WaitsForFills(p) \/ OnlyLoads(p)

VARIABLES
    prog,      \* the program that runs
    pc,        \* instruction_addr
    req,       \* mem_addr, data_we, mem_req_valid of the execute stage
    p1v,       \* the decode stage holds an instruction
    bus,       \* state of cpu_to_bus.v
    ic, dc,    \* cur_state of the two caches
    icache, dcache,
    counter,   \* words of the fill received
    line,      \* cacheline_data
    exAddr,    \* cache_request_ex_addr
    flash,     \* local_mem of flash.v
    wrReady,   \* flash_wr_ready or uart_wr_ready: the slave that took a write
    taken      \* history: writes the UART took for the access in req

pipe   == <<prog, pc, req, p1v, taken>>
caches == <<ic, dc, icache, dcache, counter, line, exAddr>>
vars   == <<pipe, caches, bus, flash, wrReady>>

\* What flash holds in every word, told apart by address.
Image == [a \in FlashAddrs |-> a]

\* The other values: nothing yet, the last word read, the data of a store.
None == UartBase
Old  == UartBase + 1
Data == UartBase + 2

NoWords == [w \in 0..LineWords - 1 |-> None]

Init ==
    /\ prog \in Programs
    /\ pc \in prog.fetch
    /\ req = NoReq
    /\ p1v = FALSE
    /\ bus = "IDLE"
    /\ ic = "IDLE" /\ dc = "IDLE"
    /\ icache = EmptyCache /\ dcache = EmptyCache
    /\ counter = 0
    /\ line = NoWords
    /\ exAddr = 0
    /\ flash = Image
    /\ wrReady = "none"
    /\ taken = 0

-----------------------------------------------------------------------------
(***************************************************************************)
(* addr_mux.v: who asks for what.                                          *)
(***************************************************************************)
InFlash(a) == a >= FlashBase /\ a < UartBase

IcRead == pc >= FlashBase
IcHit  == IcRead /\ HitWays(icache, pc) # {}

DcRead == req.op = "load" /\ InFlash(req.addr)
DcHit  == DcRead /\ HitWays(dcache, req.addr) # {}

External == req.addr >= FlashBase
NonCache == External /\ ~ DcRead

AlignedLine == LineOf(IF DcRead THEN req.addr ELSE pc)

\* Seeded fault: the address of an access is the registered one as well.
BusAddrRegistered == IF NonCache \/ "WAIT" \in {ic, dc} THEN exAddr ELSE 0

\* Seeded fault: the address of a fill is not connected.
BusAddrNoFill == IF NonCache THEN req.addr ELSE 0

\* cpu_to_external_addr.
BusAddr == IF "WAIT" \in {ic, dc} THEN exAddr
           ELSE IF NonCache THEN req.addr
           ELSE 0

(***************************************************************************)
(* cpu_to_bus.v, simple_bus.v and the slaves.  Flash answers a read in the *)
(* PENABLE phase; both slaves take a write in SETUP and answer a cycle     *)
(* later.  The UART shows its answer to a read in SETUP, where the master  *)
(* does not look.                                                          *)
(***************************************************************************)
Selected == IF bus = "IDLE" \/ BusAddr < FlashBase THEN "none"
            ELSE IF BusAddr < UartBase THEN "flash"
            ELSE "uart"

Writing  == NonCache /\ req.op = "store"

\* Seeded fault: a write is taken in both phases.
TakesWriteLevel == IF bus # "IDLE" /\ Writing THEN Selected ELSE "none"

TakesWrite == IF bus = "SETUP" /\ Writing THEN Selected ELSE "none"
FlashRead  == Selected = "flash" /\ bus = "PENABLE" /\ ~ Writing

DataReady == /\ bus = "PENABLE"
             /\ FlashRead \/ (Selected # "none" /\ wrReady = Selected)

\* A write that ends leaves an earlier word on the read lines.
RdData == IF FlashRead /\ BusAddr \in FlashAddrs THEN flash[BusAddr] ELSE Old

MissStall == IcRead /\ ~ IcHit
BusStall  == External /\ ~ DataReady
Stall     == MissStall \/ BusStall

-----------------------------------------------------------------------------
(***************************************************************************)
(* The pipeline's side of a clock edge.                                    *)
(***************************************************************************)
MayRedirect == \/ ~ MissStall /\ req = NoReq
               \/ prog.redirects = "first" /\ ic = "IDLE" /\ req = NoReq
               \/ prog.redirects = "any"

Offered(a) == IF prog.onMiss \/ a < FlashBase \/ HitWays(icache, a) # {}
              THEN {NoReq} \cup prog.requests ELSE {NoReq}

Flush ==
    /\ MayRedirect
    /\ pc' \in prog.fetch
    /\ req' = NoReq
    /\ p1v' = FALSE
    /\ taken' = 0
    /\ UNCHANGED prog

Advance ==
    /\ ~ Stall
    /\ pc' \in prog.fetch
    /\ req' \in IF p1v THEN Offered(pc') ELSE {NoReq}
    /\ p1v' = TRUE
    /\ taken' = 0
    /\ UNCHANGED prog

Wait ==
    /\ Stall
    /\ taken' = IF TakesWrite = "uart" /\ taken < 2 THEN taken + 1 ELSE taken
    /\ UNCHANGED <<prog, pc, req, p1v>>

(***************************************************************************)
(* The bus and the slaves.  flushing is cpu_flush_bus.                     *)
(***************************************************************************)
MoveBus(flushing) ==
    /\ bus' = CASE bus = "IDLE"  -> IF BusAddr # 0 THEN "SETUP" ELSE "IDLE"
                [] bus = "SETUP" -> "PENABLE"
                [] OTHER         -> IF DataReady \/ flushing THEN "IDLE" ELSE "PENABLE"
    /\ wrReady' = TakesWrite
    /\ flash' = IF TakesWrite = "flash" /\ BusAddr \in FlashAddrs
                THEN [flash EXCEPT ![BusAddr] = Data] ELSE flash

(***************************************************************************)
(* The fill.  counter belongs to the icache; an update happens when the    *)
(* bus is ready once more after the last word.  line keeps each word as it *)
(* was when counter moved past it.                                         *)
(***************************************************************************)
Update(state) == state = "WAIT" /\ counter = LineWords /\ DataReady

MoveState(state, miss) == IF state = "IDLE" THEN IF miss THEN "WAIT" ELSE "IDLE"
                          ELSE IF Update(state) THEN "IDLE" ELSE "WAIT"

Refill(state, cache, a, hits, words) ==
    IF Update(state) THEN {Fill(cache, a, w, words) : w \in Victims(hits)} ELSE {cache}

IcHits == IF IcRead THEN HitWays(icache, pc) ELSE {}
DcHits == IF DcRead THEN HitWays(dcache, req.addr) ELSE {}

\* Seeded fault: the request address is not advanced with the counter.
RequestAddrFirst ==
    IF ic = "IDLE" \/ (DcRead /\ dc = "IDLE")
    THEN IF DcRead THEN req.addr ELSE pc
    ELSE AlignedLine

\* Seeded fault: a load requests the start of its line.
RequestAddrAligned ==
    IF ic = "IDLE" \/ (DcRead /\ dc = "IDLE")
    THEN AlignedLine
    ELSE AlignedLine + counter

\* nx_cache_request_ex_addr.
RequestAddr ==
    IF ic = "IDLE" \/ (DcRead /\ dc = "IDLE")
    THEN IF DcRead THEN req.addr ELSE pc
    ELSE AlignedLine + counter

MoveCaches ==
    /\ ic' = MoveState(ic, MissStall)
    /\ dc' = MoveState(dc, DcRead /\ ~ DcHit)
    /\ icache' \in Refill(ic, icache, pc, IcHits, line)
    /\ dcache' \in Refill(dc, dcache, IF DcRead THEN req.addr ELSE 0, DcHits, NoWords)
    /\ counter' = IF ic = "IDLE" \/ Update(ic) THEN 0
                  ELSE IF DataReady THEN counter + 1
                  ELSE counter
    /\ line' = IF ic = "IDLE" \/ Update(ic) THEN NoWords
               ELSE IF DataReady THEN [line EXCEPT ![counter] = RdData]
               ELSE line
    /\ exAddr' = RequestAddr

Clock(flushing) == MoveBus(flushing) /\ MoveCaches

Next == \/ Flush /\ Clock(TRUE)
        \/ Advance /\ Clock(FALSE)
        \/ Wait /\ Clock(FALSE)

Spec == Init /\ [][Next]_vars

\* The clock never stops; a pending redirect need not come.
FairSpec == Spec /\ WF_vars((Advance \/ Wait) /\ Clock(FALSE))

-----------------------------------------------------------------------------
Value == FlashAddrs \cup {None, Old, Data}
Words == [0..LineWords - 1 -> Value]
Lines == {NoLine} \cup [valid : {TRUE}, tag : Nat, words : Words]

\* The values of caches, fill registers and bus: the fill never counts past a line.
TypeOK ==
    /\ prog \in Programs
    /\ pc \in prog.fetch
    /\ req \in {NoReq} \cup prog.requests
    /\ p1v \in BOOLEAN
    /\ bus \in {"IDLE", "SETUP", "PENABLE"}
    /\ ic \in {"IDLE", "WAIT"} /\ dc \in {"IDLE", "WAIT"}
    /\ icache \in [0..Sets - 1 -> [Way -> Lines]]
    /\ dcache \in [0..Sets - 1 -> [Way -> Lines]]
    /\ counter \in 0..LineWords
    /\ line \in Words
    /\ exAddr \in Nat
    /\ flash \in [FlashAddrs -> Value]
    /\ wrReady \in {"none", "flash", "uart"}
    /\ taken \in 0..2

(***************************************************************************)
(* A fetch that hits delivers the word the flash was loaded with, however  *)
(* the line came into the cache.  (addr_mux.v fill logic, cache.v.)        *)
(***************************************************************************)
FetchCorrect == IcHit => ReadWord(icache, pc) = Image[pc]

(***************************************************************************)
(* No program without a store to flash changes the flash.                  *)
(***************************************************************************)
FlashIntact == flash = Image

(***************************************************************************)
(* A store that leaves the execute stage has been taken by the UART        *)
(* exactly once, however long the stage was stalled.                       *)
(***************************************************************************)
StoreOnce ==
    [][Advance /\ req.op = "store" => taken = 1 /\ TakesWrite = "none"]_vars

(***************************************************************************)
(* A load that leaves the execute stage got the word at its address.       *)
(***************************************************************************)
LoadCorrect == [][Advance /\ DcRead => RdData = Image[req.addr]]_vars

(***************************************************************************)
(* Every stall ends: a fetch that misses is filled, an access completes.   *)
(***************************************************************************)
StallsEnd == Stall ~> ~ Stall

(***************************************************************************)
(* A fill does not evict a line while another way of its set is free.      *)
(***************************************************************************)
UsesFreeWays ==
    [][\A s \in DOMAIN icache, w \in Way :
          icache[s][w].valid /\ icache'[s][w] # icache[s][w]
             => \A v \in Way : icache[s][v].valid]_vars
=============================================================================
