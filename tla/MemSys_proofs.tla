--------------------------- MODULE MemSys_proofs ---------------------------
(***************************************************************************)
(* Proofs about the fills of the instruction cache, for every size of the  *)
(* cache, of its lines and of the flash: a program that keeps clear of the *)
(* fills fetches and loads the words of the flash, leaves the flash as it  *)
(* is, and has each of its stores taken once.                              *)
(***************************************************************************)
EXTENDS MemSys, TLAPS

(***************************************************************************)
(* The inductive invariant.                                                *)
(***************************************************************************)

\* A line holds the words of the flash at its addresses, as far as it goes.
Holds(words, tag, n) ==
    \A i \in 0 .. LineWords - 1 : i < n /\ tag + i \in FlashAddrs => words[i] = Image[tag + i]

LinesOK ==
    \A s \in 0 .. Sets - 1, w \in Way :
        icache[s][w].valid => Holds(icache[s][w].words, icache[s][w].tag, LineWords)

\* A fill is for the fetch that waits, word after word.
FillOK ==
    ic = "WAIT" =>
        /\ MissStall /\ req = NoReq
        /\ Holds(line, LineOf(pc), counter)
        /\ exAddr \in LineOf(pc) .. LineOf(pc) + LineWords
        /\ bus # "IDLE" => exAddr = LineOf(pc) + counter

\* A store finds fetch and bus at rest, and goes through the phases of the bus.
StoreOK ==
    /\ req # NoReq => ~MissStall
    /\ req = NoReq /\ ic = "IDLE" => bus = "IDLE"
    /\ req # NoReq => taken = IF bus = "PENABLE" THEN 1 ELSE 0

WaitingOK == WaitsForFills(prog) => dc = "IDLE" /\ LinesOK /\ FillOK /\ StoreOK

\* The registered address follows the load a cycle behind.  A load that comes
\* in finds the bus at rest or an address nobody answers.
LoadingOK ==
    OnlyLoads(prog) => /\ ic = "IDLE"
                       /\ DcRead /\ bus = "PENABLE" => exAddr \in {0, req.addr}

MemInv == TypeOK /\ FlashIntact /\ WaitingOK /\ LoadingOK

-----------------------------------------------------------------------------
(* Addresses, lines and sets. *)

LEMMA MemConstants ==
    /\ LineWords \in Nat \ {0} /\ Sets \in Nat \ {0}
    /\ FlashBase \in Nat /\ FlashWords \in Nat /\ UartBase \in Nat
    /\ FlashBase > 0 /\ FlashBase % LineWords = 0
    /\ UartBase >= FlashBase + FlashWords + LineWords
  BY CacheAssumption, AddressAssumption

LEMMA AddressParts ==
    ASSUME NEW a \in Nat
    PROVE  /\ a % LineWords \in 0 .. LineWords - 1
           /\ LineOf(a) \in Nat /\ LineOf(a) <= a
           /\ a < LineOf(a) + LineWords
           /\ LineOf(a) + (a % LineWords) = a
           /\ SetOf(a) \in 0 .. Sets - 1
<1>1. /\ a \div LineWords \in Nat /\ a % LineWords \in 0 .. LineWords - 1
      /\ a = LineWords * (a \div LineWords) + (a % LineWords)
  BY MemConstants, SMT
<1>2. LineWords * (a \div LineWords) \in Nat
  BY <1>1, MemConstants
<1>3. (a \div LineWords) % Sets \in 0 .. Sets - 1
  BY <1>1, MemConstants, SMT
<1> QED
  BY <1>1, <1>2, <1>3, MemConstants DEF LineOf, SetOf

\* The flash starts at the start of a line.
LEMMA LineInFlash ==
    ASSUME NEW a \in Nat, a >= FlashBase
    PROVE  LineOf(a) >= FlashBase
<1> DEFINE q == a \div LineWords
           b == FlashBase \div LineWords
<1>1. q \in Nat /\ a % LineWords \in 0 .. LineWords - 1 /\ a = LineWords * q + (a % LineWords)
  BY MemConstants, SMT
<1>2. b \in Nat /\ FlashBase = LineWords * b
  BY MemConstants, SMT
<1> HIDE DEF q, b
<1>3. q >= b
  <2> SUFFICES ASSUME q + 1 <= b PROVE FALSE
    BY <1>1, <1>2
  <2>1. LineWords * (q + 1) <= LineWords * b /\ LineWords * (q + 1) = LineWords * q + LineWords
    BY <1>1, <1>2, MemConstants, SMT
  <2> QED
    BY <1>1, <1>2, <2>1, MemConstants
<1>4. LineWords * q >= LineWords * b
  BY <1>1, <1>2, <1>3, MemConstants, SMT
<1> QED
  BY <1>1, <1>2, <1>4, MemConstants DEF LineOf

LEMMA ImageTyped == Image \in [FlashAddrs -> Value] /\ NoWords \in Words
  BY MemConstants DEF Image, Value, NoWords, Words

LEMMA VictimsAreWays ==
    ASSUME NEW hits
    PROVE  Victims(hits) \subseteq Way
  BY DEF Victims, Way

LEMMA FillTyped ==
    ASSUME NEW cache \in [0 .. Sets - 1 -> [Way -> Lines]], NEW a \in Nat, NEW w \in Way,
           NEW words \in Words
    PROVE  Fill(cache, a, w, words) \in [0 .. Sets - 1 -> [Way -> Lines]]
<1>1. SetOf(a) \in 0 .. Sets - 1 /\ LineOf(a) \in Nat
  BY AddressParts
<1>2. [valid |-> TRUE, tag |-> LineOf(a), words |-> words] \in Lines
  BY <1>1 DEF Lines
<1> QED
  BY <1>1, <1>2 DEF Fill

\* An access or none.
LEMMA Requests ==
    ASSUME NEW p \in Programs, NEW r \in {NoReq} \cup p.requests
    PROVE  /\ r.addr \in Nat /\ r.op \in {"none", "store", "load"}
           /\ r.op = "none" <=> r = NoReq
  BY AddressAssumption DEF NoReq, Store, Load, FlashAddrs

LEMMA Fetches ==
    ASSUME NEW p \in Programs, NEW a \in p.fetch
    PROVE  a \in Nat /\ (a >= FlashBase => a \in FlashAddrs)
  BY AddressAssumption, MemConstants DEF Ilm, FlashAddrs

-----------------------------------------------------------------------------
(* Types. *)

LEMMA MemInitTyped == Init => TypeOK
<1> SUFFICES ASSUME Init PROVE TypeOK
  OBVIOUS
<1>1. EmptyCache \in [0 .. Sets - 1 -> [Way -> Lines]]
  BY DEF EmptyCache, Lines
<1>2. 0 \in 0 .. LineWords /\ 0 \in 0 .. 2 /\ 0 \in Nat
  BY MemConstants
<1> QED
  BY <1>1, <1>2, ImageTyped DEF Init, TypeOK

LEMMA PipeTyped ==
    ASSUME TypeOK, Flush \/ Advance \/ Wait
    PROVE  /\ prog' \in Programs /\ pc' \in prog'.fetch
           /\ req' \in {NoReq} \cup prog'.requests
           /\ p1v' \in BOOLEAN /\ taken' \in 0 .. 2
<1>1. CASE Flush
  <2>1. prog' = prog /\ pc' \in prog.fetch /\ req' = NoReq /\ p1v' = FALSE /\ taken' = 0
    BY <1>1 DEF Flush
  <2>2. prog \in Programs
    BY DEF TypeOK
  <2>3. req' \in {NoReq} \cup prog'.requests /\ pc' \in prog'.fetch
    BY <2>1
  <2>4. p1v' \in BOOLEAN
    BY <2>1
  <2>5. taken' \in 0 .. 2
    BY <2>1
  <2> QED
    BY <2>1, <2>2, <2>3, <2>4, <2>5
<1>2. CASE Advance
  BY <1>2 DEF TypeOK, Advance, Offered
<1>3. CASE Wait
  BY <1>3 DEF TypeOK, Wait
<1> QED
  BY <1>1, <1>2, <1>3

LEMMA BusTyped ==
    ASSUME TypeOK, NEW f \in BOOLEAN, MoveBus(f)
    PROVE  /\ bus' \in {"IDLE", "SETUP", "PENABLE"}
           /\ wrReady' \in {"none", "flash", "uart"}
           /\ flash' \in [FlashAddrs -> Value]
<1>1. bus' \in {"IDLE", "SETUP", "PENABLE"}
  BY DEF TypeOK, MoveBus
<1>2. wrReady' \in {"none", "flash", "uart"}
  BY DEF MoveBus, TakesWrite, Selected
<1>3. flash' \in [FlashAddrs -> Value]
  BY DEF TypeOK, MoveBus, Value
<1> QED
  BY <1>1, <1>2, <1>3

LEMMA CachesTyped ==
    ASSUME TypeOK, MoveCaches
    PROVE  /\ ic' \in {"IDLE", "WAIT"} /\ dc' \in {"IDLE", "WAIT"}
           /\ icache' \in [0 .. Sets - 1 -> [Way -> Lines]]
           /\ dcache' \in [0 .. Sets - 1 -> [Way -> Lines]]
           /\ counter' \in 0 .. LineWords
           /\ line' \in Words
           /\ exAddr' \in Nat
<1>1. pc \in Nat /\ req.addr \in Nat
  BY Fetches, Requests DEF TypeOK
<1>2. ic' \in {"IDLE", "WAIT"} /\ dc' \in {"IDLE", "WAIT"}
  BY DEF MoveCaches, MoveState
<1>3. icache' \in [0 .. Sets - 1 -> [Way -> Lines]]
  BY <1>1, FillTyped, VictimsAreWays DEF TypeOK, MoveCaches, Refill
<1>4. dcache' \in [0 .. Sets - 1 -> [Way -> Lines]]
  BY <1>1, FillTyped, VictimsAreWays, ImageTyped DEF TypeOK, MoveCaches, Refill
<1>5. counter' \in 0 .. LineWords
  BY MemConstants DEF TypeOK, MoveCaches, Update
<1>6. line' \in Words
  <2>1. RdData \in Value
    BY DEF TypeOK, RdData, Value
  <2> QED
    BY <2>1, ImageTyped DEF TypeOK, MoveCaches, Words
<1>7. exAddr' \in Nat
  <2>1. AlignedLine \in Nat
    BY <1>1, AddressParts DEF AlignedLine
  <2> QED
    BY <1>1, <2>1, MemConstants DEF TypeOK, MoveCaches, RequestAddr
<1> QED
  BY <1>2, <1>3, <1>4, <1>5, <1>6, <1>7

LEMMA MemNextTyped ==
    ASSUME TypeOK, [Next]_vars
    PROVE  TypeOK'
<1>1. CASE Next
  <2>1. (Flush \/ Advance \/ Wait) /\ MoveCaches /\ \E f \in BOOLEAN : MoveBus(f)
    BY <1>1 DEF Next, Clock
  <2> QED
    BY <2>1, PipeTyped, BusTyped, CachesTyped DEF TypeOK
<1>2. CASE UNCHANGED vars
  BY <1>2 DEF TypeOK, vars, pipe, caches
<1> QED
  BY <1>1, <1>2

(***************************************************************************)
(* Whatever the program does, the fill counts no further than a line and   *)
(* every register keeps its kind of value (addr_mux.v, cpu_to_bus.v).      *)
(***************************************************************************)
THEOREM MemTyped == Spec => []TypeOK
  BY MemInitTyped, MemNextTyped, PTL DEF Spec

-----------------------------------------------------------------------------
(* Programs that wait for the fills. *)

LEMMA Waiting ==
    ASSUME TypeOK, WaitingOK, WaitsForFills(prog)
    PROVE  /\ dc = "IDLE" /\ ~DcRead
           /\ req # NoReq => req = Store(UartBase)
           /\ External <=> req # NoReq
           /\ NonCache <=> req # NoReq
           /\ Writing <=> req # NoReq
           /\ AlignedLine = LineOf(pc)
           /\ BusAddr = IF ic = "WAIT" THEN exAddr ELSE IF req # NoReq THEN UartBase ELSE 0
<1>1. req # NoReq => req = Store(UartBase)
  BY DEF TypeOK, WaitsForFills
<1>2. dc = "IDLE"
  BY DEF WaitingOK
<1>3. ~DcRead
  BY <1>1 DEF DcRead, NoReq, Store
<1>4. (External <=> req # NoReq) /\ (req # NoReq => req.op = "store" /\ req.addr = UartBase)
  BY <1>1, MemConstants DEF External, NoReq, Store
<1>5. (NonCache <=> req # NoReq) /\ (Writing <=> req # NoReq)
  BY <1>3, <1>4 DEF NonCache, Writing
<1>6. AlignedLine = LineOf(pc)
  BY <1>3 DEF AlignedLine
<1>7. BusAddr = IF ic = "WAIT" THEN exAddr ELSE IF req # NoReq THEN UartBase ELSE 0
  BY <1>2, <1>4, <1>5 DEF BusAddr
<1> QED
  BY <1>1, <1>2, <1>3, <1>4, <1>5, <1>6, <1>7

\* Without a fetch that misses nothing is filled.
LEMMA NoFill ==
    ASSUME TypeOK, WaitingOK, WaitsForFills(prog), ~MissStall, MoveCaches
    PROVE  ic = "IDLE" /\ ic' = "IDLE" /\ dc' = "IDLE" /\ icache' = icache
<1>1. ic = "IDLE"
  BY DEF WaitingOK, FillOK, TypeOK
<1>2. ~Update(ic) /\ ~Update(dc)
  BY <1>1, Waiting DEF Update
<1> QED
  BY <1>1, <1>2, Waiting DEF MoveCaches, MoveState, Refill

LEMMA FlushWaits ==
    ASSUME TypeOK, WaitingOK, WaitsForFills(prog), Flush, Clock(TRUE)
    PROVE  WaitingOK'
<1>1. ~MissStall /\ req = NoReq
  BY DEF Flush, MayRedirect, WaitsForFills
<1>2. ic = "IDLE" /\ ic' = "IDLE" /\ dc' = "IDLE" /\ icache' = icache
  BY <1>1, NoFill DEF Clock
<1>3. bus' = "IDLE"
  BY <1>1, <1>2, Waiting DEF WaitingOK, StoreOK, Clock, MoveBus
<1>4. req' = NoReq
  BY DEF Flush
<1>5. LinesOK'
  BY <1>2 DEF WaitingOK, LinesOK, Holds
<1> QED
  BY <1>2, <1>3, <1>4, <1>5 DEF WaitingOK, FillOK, StoreOK

LEMMA AdvanceWaits ==
    ASSUME TypeOK, WaitingOK, WaitsForFills(prog), Advance, Clock(FALSE)
    PROVE  WaitingOK'
<1>1. ~MissStall /\ ~BusStall
  BY DEF Advance, Stall
<1>2. ic = "IDLE" /\ ic' = "IDLE" /\ dc' = "IDLE" /\ icache' = icache
  BY <1>1, NoFill DEF Clock
<1>3. bus' = "IDLE"
  <2>1. CASE req = NoReq
    BY <1>2, <2>1, Waiting DEF WaitingOK, StoreOK, Clock, MoveBus
  <2>2. CASE req # NoReq
    <3>1. DataReady
      BY <1>1, <2>2, Waiting DEF BusStall
    <3> QED
      BY <3>1 DEF DataReady, Clock, MoveBus
  <2> QED
    BY <2>1, <2>2
<1>4. req' # NoReq => ~MissStall'
  <2>1. pc' \in Nat
    BY Fetches DEF TypeOK, Advance
  <2>2. req' # NoReq => pc' < FlashBase \/ HitWays(icache, pc') # {}
    BY DEF Advance, Offered, WaitsForFills
  <2>3. HitWays(icache, pc)' = HitWays(icache, pc')
    BY <1>2 DEF HitWays
  <2> QED
    BY <2>1, <2>2, <2>3, MemConstants DEF MissStall, IcRead, IcHit
<1>5. LinesOK'
  BY <1>2 DEF WaitingOK, LinesOK, Holds
<1>6. taken' = 0
  BY DEF Advance
<1> QED
  BY <1>2, <1>3, <1>4, <1>5, <1>6 DEF WaitingOK, FillOK, StoreOK

\* A store under way.
LEMMA StoreWaits ==
    ASSUME TypeOK, WaitingOK, WaitsForFills(prog), Wait, Clock(FALSE), req # NoReq
    PROVE  WaitingOK'
<1>1. ~MissStall
  BY DEF WaitingOK, StoreOK
<1>2. ic = "IDLE" /\ ic' = "IDLE" /\ dc' = "IDLE" /\ icache' = icache
  BY <1>1, NoFill DEF Clock
<1>3. pc' = pc /\ req' = req
  BY DEF Wait
<1>4. ~MissStall'
  BY <1>1, <1>2, <1>3 DEF MissStall, IcRead, IcHit
<1>5. BusAddr = UartBase /\ Writing /\ ~DataReady
  BY <1>1, <1>2, Waiting DEF Wait, Stall, BusStall
<1>6. taken' = IF bus' = "PENABLE" THEN 1 ELSE 0
  <2>1. UartBase # 0 /\ UartBase >= FlashBase /\ ~(UartBase < UartBase)
    BY MemConstants
  <2>2. CASE bus = "IDLE"
    BY <1>5, <2>1, <2>2 DEF WaitingOK, StoreOK, Wait, Clock, MoveBus, TakesWrite
  <2>3. CASE bus = "SETUP"
    <3>1. TakesWrite = "uart"
      BY <1>5, <2>1, <2>3, MemConstants DEF TakesWrite, Selected
    <3>2. taken = 0 /\ bus' = "PENABLE"
      BY <2>3 DEF WaitingOK, StoreOK, Clock, MoveBus
    <3> QED
      BY <3>1, <3>2 DEF Wait
  <2>4. CASE bus = "PENABLE"
    BY <1>5, <2>4 DEF WaitingOK, StoreOK, Wait, Clock, MoveBus, TakesWrite
  <2> QED
    BY <2>2, <2>3, <2>4 DEF TypeOK
<1>7. LinesOK'
  BY <1>2 DEF WaitingOK, LinesOK, Holds
<1> QED
  BY <1>2, <1>3, <1>4, <1>6, <1>7 DEF WaitingOK, FillOK, StoreOK

\* A miss starts a fill.
LEMMA MissWaits ==
    ASSUME TypeOK, WaitingOK, WaitsForFills(prog), Wait, Clock(FALSE),
           req = NoReq, ic = "IDLE"
    PROVE  WaitingOK'
<1>1. MissStall
  BY Waiting DEF Wait, Stall, BusStall
<1>2. /\ ic' = "WAIT" /\ dc' = "IDLE" /\ icache' = icache
      /\ counter' = 0 /\ exAddr' = pc
  BY <1>1, Waiting DEF Clock, MoveCaches, MoveState, Refill, Update, RequestAddr
<1>3. bus' = "IDLE"
  BY Waiting DEF WaitingOK, StoreOK, Clock, MoveBus
<1>4. pc' = pc /\ req' = req /\ prog' = prog
  BY DEF Wait
<1>5. MissStall'
  BY <1>1, <1>2, <1>4 DEF MissStall, IcRead, IcHit
<1>6. pc \in LineOf(pc) .. LineOf(pc) + LineWords
  <2>1. pc \in Nat
    BY Fetches DEF TypeOK
  <2> QED
    BY <2>1, AddressParts, MemConstants
<1>7. Holds(line, LineOf(pc), counter)'
  BY <1>2 DEF Holds
<1>8. LinesOK'
  BY <1>2 DEF WaitingOK, LinesOK, Holds
<1> QED
  BY <1>2, <1>3, <1>4, <1>5, <1>6, <1>7, <1>8 DEF WaitingOK, FillOK, StoreOK

\* A fill goes on, takes a word, or ends.
LEMMA FillWaits ==
    ASSUME TypeOK, FlashIntact, WaitingOK, WaitsForFills(prog), Wait, Clock(FALSE), ic = "WAIT"
    PROVE  WaitingOK'
<1>1. /\ MissStall /\ req = NoReq /\ dc = "IDLE"
      /\ Holds(line, LineOf(pc), counter)
      /\ bus # "IDLE" => exAddr = LineOf(pc) + counter
  BY DEF WaitingOK, FillOK
<1>2. pc' = pc /\ req' = req /\ prog' = prog
  BY DEF Wait
<1>3. /\ pc \in Nat /\ LineOf(pc) \in Nat /\ LineOf(pc) <= pc /\ LineOf(pc) >= FlashBase
      /\ counter \in 0 .. LineWords /\ pc \in FlashAddrs
  BY <1>1, Fetches, AddressParts, LineInFlash DEF TypeOK, MissStall, IcRead
<1>4. BusAddr = exAddr /\ exAddr >= FlashBase /\ exAddr < UartBase /\ exAddr \in Nat
  BY <1>3, Waiting, MemConstants DEF WaitingOK, FillOK, TypeOK, FlashAddrs
<1>5. dc' = "IDLE" /\ exAddr' = LineOf(pc) + counter
  BY <1>1, Waiting DEF Clock, MoveCaches, MoveState, RequestAddr
<1>6. exAddr' \in LineOf(pc') .. LineOf(pc') + LineWords
  BY <1>2, <1>3, <1>5, MemConstants
<1>7. CASE ~DataReady
  <2>1. ic' = "WAIT" /\ icache' = icache /\ counter' = counter /\ line' = line
    BY <1>7 DEF Clock, MoveCaches, MoveState, Refill, Update
  <2>2. MissStall'
    BY <1>1, <1>2, <2>1 DEF MissStall, IcRead, IcHit
  <2>3. LinesOK'
    BY <2>1 DEF WaitingOK, LinesOK, Holds
  <2>4. Holds(line, LineOf(pc), counter)'
    BY <1>1, <1>2, <2>1 DEF Holds
  <2> QED
    BY <1>1, <1>2, <1>5, <1>6, <2>1, <2>2, <2>3, <2>4 DEF WaitingOK, FillOK, StoreOK
<1>8. CASE DataReady /\ counter # LineWords
  <2>1. bus = "PENABLE" /\ bus' = "IDLE"
    BY <1>8 DEF DataReady, Clock, MoveBus
  <2>2. /\ ic' = "WAIT" /\ icache' = icache /\ counter' = counter + 1
        /\ line' = [line EXCEPT ![counter] = RdData]
    BY <1>8 DEF Clock, MoveCaches, MoveState, Refill, Update
  <2>3. LineOf(pc) + counter \in FlashAddrs => RdData = Image[LineOf(pc) + counter]
    <3>1. Selected = "flash"
      BY <1>4, <2>1, MemConstants DEF Selected
    <3>2. FlashRead /\ BusAddr = LineOf(pc) + counter
      BY <1>1, <1>4, <2>1, <3>1, Waiting DEF FlashRead
    <3> QED
      BY <3>2 DEF RdData, FlashIntact
  <2>4. Holds(line, LineOf(pc), counter)'
    <3> SUFFICES ASSUME NEW i \in 0 .. LineWords - 1, i < counter + 1, LineOf(pc) + i \in FlashAddrs
                 PROVE  line'[i] = Image[LineOf(pc) + i]
      BY <1>2, <2>2 DEF Holds
    <3>1. CASE i = counter
      BY <2>2, <2>3, <3>1 DEF TypeOK, Words
    <3>2. CASE i # counter
      BY <1>1, <1>3, <2>2, <3>2, MemConstants DEF Holds, TypeOK, Words
    <3> QED
      BY <3>1, <3>2
  <2>5. MissStall'
    BY <1>1, <1>2, <2>2 DEF MissStall, IcRead, IcHit
  <2>6. LinesOK'
    BY <2>2 DEF WaitingOK, LinesOK, Holds
  <2> QED
    BY <1>1, <1>2, <1>5, <1>6, <2>1, <2>2, <2>4, <2>5, <2>6 DEF WaitingOK, FillOK, StoreOK
<1>9. CASE DataReady /\ counter = LineWords
  <2>1. bus' = "IDLE"
    BY <1>9 DEF DataReady, Clock, MoveBus
  <2>2. Update(ic)
    BY <1>9 DEF Update
  <2>3. ic' = "IDLE"
    BY <2>2 DEF Clock, MoveCaches, MoveState
  <2>4. PICK w \in Way : icache' = Fill(icache, pc, w, line)
    BY <2>2, VictimsAreWays DEF Clock, MoveCaches, Refill
  <2>5. LinesOK'
    <3> SUFFICES ASSUME NEW s \in 0 .. Sets - 1, NEW v \in Way, icache'[s][v].valid
                 PROVE  Holds(icache'[s][v].words, icache'[s][v].tag, LineWords)
      BY DEF LinesOK, Holds
    <3>1. SetOf(pc) \in 0 .. Sets - 1
      BY <1>3, AddressParts
    <3>2. CASE s = SetOf(pc) /\ v = w
      <4>1. icache'[s][v] = [valid |-> TRUE, tag |-> LineOf(pc), words |-> line]
        BY <2>4, <3>1, <3>2 DEF Fill, TypeOK
      <4> QED
        BY <1>1, <1>9, <4>1
    <3>3. CASE ~(s = SetOf(pc) /\ v = w)
      <4>1. icache'[s][v] = icache[s][v]
        BY <2>4, <3>1, <3>3 DEF Fill, TypeOK
      <4> QED
        BY <4>1 DEF WaitingOK, LinesOK
    <3> QED
      BY <3>2, <3>3
  <2> QED
    BY <1>1, <1>2, <1>5, <2>1, <2>3, <2>5 DEF WaitingOK, FillOK, StoreOK
<1> QED
  BY <1>7, <1>8, <1>9

LEMMA WaitingStep ==
    ASSUME TypeOK, FlashIntact, WaitingOK, [Next]_vars
    PROVE  WaitingOK'
<1> SUFFICES ASSUME WaitsForFills(prog') PROVE WaitingOK'
  BY DEF WaitingOK
<1>1. CASE Next
  <2>1. prog' = prog
    BY <1>1 DEF Next, Flush, Advance, Wait
  <2>2. WaitsForFills(prog)
    BY <2>1
  <2>3. CASE Flush /\ Clock(TRUE)
    BY <2>2, <2>3, FlushWaits
  <2>4. CASE Advance /\ Clock(FALSE)
    BY <2>2, <2>4, AdvanceWaits
  <2>5. CASE Wait /\ Clock(FALSE)
    BY <2>2, <2>5, StoreWaits, MissWaits, FillWaits DEF TypeOK
  <2> QED
    BY <1>1, <2>3, <2>4, <2>5 DEF Next
<1>2. CASE UNCHANGED vars
  BY <1>2 DEF vars, pipe, caches, WaitingOK, LinesOK, FillOK, StoreOK, Holds,
              MissStall, IcRead, IcHit
<1> QED
  BY <1>1, <1>2

-----------------------------------------------------------------------------
(* Programs that only load. *)

LEMMA LoadingStep ==
    ASSUME TypeOK, LoadingOK, [Next]_vars
    PROVE  LoadingOK'
<1> SUFFICES ASSUME OnlyLoads(prog') PROVE LoadingOK'
  BY DEF LoadingOK
<1>1. CASE Next
  <2>1. prog' = prog /\ MoveCaches /\ \E f \in BOOLEAN : MoveBus(f)
    BY <1>1 DEF Next, Flush, Advance, Wait, Clock
  <2>2. OnlyLoads(prog) /\ ic = "IDLE"
    BY <2>1 DEF LoadingOK
  <2>3. pc = 0 /\ ~IcRead
    <3>1. pc = 0
      BY <2>2 DEF TypeOK, OnlyLoads, Ilm
    <3> QED
      BY <3>1, MemConstants DEF IcRead
  <2>4. ic' = "IDLE"
    BY <2>1, <2>2, <2>3 DEF MoveCaches, MoveState, MissStall
  <2>5. exAddr' = IF DcRead THEN req.addr ELSE 0
    BY <2>1, <2>2, <2>3 DEF MoveCaches, RequestAddr
  <2>6. ASSUME DcRead', bus' = "PENABLE" PROVE exAddr' \in {0, req'.addr}
    <3>1. CASE Flush /\ Clock(TRUE)
      BY <2>6, <3>1 DEF Flush, DcRead, NoReq
    <3>2. CASE Advance /\ Clock(FALSE)
      <4>1. SUFFICES ASSUME DcRead PROVE FALSE
        BY <2>5
      <4>2. External
        BY <4>1 DEF External, DcRead, InFlash
      <4>3. DataReady
        BY <3>2, <4>2 DEF Advance, Stall, BusStall
      <4>4. bus' = "IDLE"
        BY <3>2, <4>3 DEF DataReady, Clock, MoveBus
      <4> QED
        BY <2>6, <4>4
    <3>3. CASE Wait /\ Clock(FALSE)
      BY <2>5, <2>6, <3>3 DEF Wait, DcRead
    <3> QED
      BY <1>1, <3>1, <3>2, <3>3 DEF Next
  <2> QED
    BY <2>4, <2>6 DEF LoadingOK
<1>2. CASE UNCHANGED vars
  BY <1>2 DEF vars, pipe, caches, LoadingOK, DcRead
<1> QED
  BY <1>1, <1>2

-----------------------------------------------------------------------------
(* The flash is never written, and the properties. *)

LEMMA FlashStep ==
    ASSUME KeepsClear, TypeOK, FlashIntact, WaitingOK, [Next]_vars
    PROVE  FlashIntact'
<1>1. CASE Next
  <2>1. TakesWrite # "flash"
    <3>1. CASE WaitsForFills(prog)
      <4> SUFFICES ASSUME Writing PROVE Selected # "flash"
        BY DEF TakesWrite
      <4>1. req # NoReq /\ ic # "WAIT"
        BY <3>1, Waiting DEF WaitingOK, FillOK
      <4>2. BusAddr = UartBase
        BY <3>1, <4>1, Waiting
      <4> QED
        BY <4>2, MemConstants DEF Selected
    <3>2. CASE OnlyLoads(prog)
      BY <3>2 DEF TypeOK, OnlyLoads, TakesWrite, Writing, NoReq
    <3> QED
      BY <3>1, <3>2 DEF KeepsClear, TypeOK
  <2> QED
    BY <1>1, <2>1 DEF Next, Clock, MoveBus, FlashIntact
<1>2. CASE UNCHANGED vars
  BY <1>2 DEF vars, FlashIntact
<1> QED
  BY <1>1, <1>2

LEMMA MemInvariant == ASSUME KeepsClear PROVE Spec => []MemInv
<1>1. Init => MemInv
  BY MemInitTyped DEF Init, MemInv, FlashIntact, WaitingOK, LinesOK, FillOK, StoreOK,
     EmptyCache, NoLine, LoadingOK
<1>2. MemInv /\ [Next]_vars => MemInv'
  BY MemNextTyped, WaitingStep, LoadingStep, FlashStep DEF MemInv
<1> QED
  BY <1>1, <1>2, PTL DEF Spec

(***************************************************************************)
(* No program that keeps clear of the fills changes the flash, however its *)
(* stores meet the bus (cpu_to_bus.v, flash.v).                            *)
(***************************************************************************)
THEOREM FlashKept == ASSUME KeepsClear PROVE Spec => []FlashIntact
  BY MemInvariant, PTL DEF MemInv

(***************************************************************************)
(* A fetch that hits delivers the word of the flash (addr_mux.v, cache.v), *)
(* for every size of line, cache and flash.                                *)
(***************************************************************************)
THEOREM FetchesCorrect == ASSUME KeepsClear PROVE Spec => []FetchCorrect
<1>1. MemInv => FetchCorrect
  <2> SUFFICES ASSUME MemInv, IcRead, HitWays(icache, pc) # {}
               PROVE  ReadWord(icache, pc) = Image[pc]
    BY DEF FetchCorrect, IcHit
  <2>1. pc \in Nat /\ pc \in FlashAddrs /\ prog \in Programs /\ pc # Ilm
    BY Fetches, MemConstants DEF MemInv, TypeOK, IcRead, Ilm
  <2>2. WaitsForFills(prog)
    BY <2>1 DEF KeepsClear, OnlyLoads, MemInv, TypeOK
  <2> DEFINE hits == HitWays(icache, pc)
             w    == CHOOSE v \in hits : \A u \in hits : v <= u
  <2>3. w \in hits
    <3>1. hits \subseteq 0 .. 3
      BY DEF HitWays, Way
    <3>2. \E v \in hits : \A u \in hits : v <= u
      BY <3>1
    <3> QED
      BY <3>2
  <2>4. /\ w \in Way /\ SetOf(pc) \in 0 .. Sets - 1
        /\ icache[SetOf(pc)][w].valid /\ icache[SetOf(pc)][w].tag = LineOf(pc)
    BY <2>1, <2>3, AddressParts DEF HitWays
  <2>5. Holds(icache[SetOf(pc)][w].words, LineOf(pc), LineWords)
    BY <2>2, <2>4 DEF MemInv, WaitingOK, LinesOK
  <2>6. icache[SetOf(pc)][w].words[pc % LineWords] = Image[LineOf(pc) + (pc % LineWords)]
    <3>1. pc % LineWords \in 0 .. LineWords - 1 /\ LineOf(pc) + (pc % LineWords) = pc
      BY <2>1, AddressParts
    <3>2. pc % LineWords < LineWords
      BY <3>1, MemConstants
    <3> QED
      BY <2>1, <2>5, <3>1, <3>2 DEF Holds
  <2> QED
    BY <2>1, <2>6, AddressParts DEF ReadWord
<1> QED
  BY MemInvariant, <1>1, PTL

(***************************************************************************)
(* A store that leaves the execute stage has been taken by the UART once   *)
(* (cpu_to_bus.v, uart.v).                                                 *)
(***************************************************************************)
THEOREM StoresOnce == ASSUME KeepsClear PROVE Spec => StoreOnce
<1>1. MemInv /\ [Next]_vars => [Advance /\ req.op = "store" => taken = 1 /\ TakesWrite = "none"]_vars
  <2> SUFFICES ASSUME MemInv, Advance, req.op = "store"
               PROVE  taken = 1 /\ TakesWrite = "none"
    OBVIOUS
  <2>1. req # NoReq
    BY DEF NoReq
  <2>2. WaitsForFills(prog)
    BY <2>1 DEF KeepsClear, OnlyLoads, MemInv, TypeOK
  <2>3. DataReady
    BY <2>1, <2>2, Waiting DEF MemInv, Advance, Stall, BusStall
  <2>4. bus = "PENABLE"
    BY <2>3 DEF DataReady
  <2> QED
    BY <2>1, <2>2, <2>4 DEF MemInv, WaitingOK, StoreOK, TakesWrite
<1> QED
  BY MemInvariant, <1>1, PTL DEF Spec, StoreOnce

(***************************************************************************)
(* A load that leaves the execute stage got the word at its address,       *)
(* wherever redirects come between its cycles (addr_mux.v, cpu_to_bus.v).  *)
(***************************************************************************)
THEOREM LoadsCorrect == ASSUME KeepsClear PROVE Spec => LoadCorrect
<1>1. MemInv /\ [Next]_vars => [Advance /\ DcRead => RdData = Image[req.addr]]_vars
  <2> SUFFICES ASSUME MemInv, Advance, DcRead
               PROVE  RdData = Image[req.addr]
    OBVIOUS
  <2>1. req.addr \in FlashAddrs /\ req.addr >= FlashBase /\ req.addr < UartBase /\ req.op = "load"
    <3>1. prog \in Programs /\ req \in {NoReq} \cup prog.requests
      BY DEF MemInv, TypeOK
    <3> QED
      BY <3>1, AddressAssumption, MemConstants DEF DcRead, InFlash, NoReq, Store, Load, FlashAddrs
  <2>2. OnlyLoads(prog)
    <3>1. req # NoReq /\ req # Store(UartBase)
      BY <2>1 DEF NoReq, Store
    <3> QED
      BY <3>1 DEF KeepsClear, WaitsForFills, MemInv, TypeOK
  <2>3. External /\ ~NonCache /\ ~Writing
    BY <2>1 DEF External, NonCache, Writing
  <2>4. DataReady
    BY <2>3 DEF Advance, Stall, BusStall
  <2>5. bus = "PENABLE" /\ Selected # "none"
    BY <2>4 DEF DataReady, FlashRead
  <2>6. BusAddr >= FlashBase
    <3>1. BusAddr \in {exAddr, 0} /\ exAddr \in Nat
      BY <2>3 DEF BusAddr, MemInv, TypeOK
    <3> QED
      BY <2>5, <3>1, MemConstants DEF Selected
  <2>7. BusAddr = exAddr
    BY <2>3, <2>6, MemConstants DEF BusAddr
  <2>8. exAddr = req.addr
    BY <2>2, <2>5, <2>6, <2>7, MemConstants DEF MemInv, LoadingOK
  <2>9. FlashRead
    BY <2>1, <2>3, <2>5, <2>7, <2>8, MemConstants DEF FlashRead, Selected
  <2> QED
    BY <2>1, <2>7, <2>8, <2>9 DEF RdData, MemInv, FlashIntact
<1> QED
  BY MemInvariant, <1>1, PTL DEF Spec, LoadCorrect
=============================================================================
