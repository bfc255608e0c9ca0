--------------------------- MODULE StreamBuffers ---------------------------
(***************************************************************************)
(* Stream and message buffers (src/c_test/FreeRTOS/Source/stream_buffer.c):*)
(* bytes from one writer to one reader, each a task or an interrupt.       *)
(*                                                                         *)
(* The two ends share the ring with no critical section: xHead is the      *)
(* writer's, xTail the reader's.  A message goes in as two writes, of its  *)
(* length and of its bytes, and comes out as two reads; each of them shows *)
(* to the other end when the pointer moves, so each is a step of its own.  *)
(*                                                                         *)
(* k.xStreamBuffers[s].sent and .received are ghosts: what was sent and    *)
(* received since the buffer was reset, as bytes or as messages.           *)
(***************************************************************************)
EXTENDS Tasks, Integers

CONSTANTS Streams, sbBYTES_TO_STORE_MESSAGE_LENGTH

NoStream ==
    [xTail |-> 0, xHead |-> 0, xLength |-> 0, xTriggerLevelBytes |-> 0,
     xTaskWaitingToReceive |-> NULL, xTaskWaitingToSend |-> NULL,
     pucBuffer |-> <<>>, isMessageBuffer |-> FALSE, sent |-> <<>>, received |-> <<>>]

Stream(k1, s) == k1.xStreamBuffers[s]

\* What a message has in front of its bytes, a stream nothing.
HeaderBytes(S) == IF S.isMessageBuffer THEN sbBYTES_TO_STORE_MESSAGE_LENGTH ELSE 0

\* One byte of the array stays free, to tell a full buffer from an empty one.
prvInitialiseNewStreamBuffer(xLength, xTriggerLevelBytes, isMessageBuffer) ==
    [NoStream EXCEPT !.xLength            = xLength,
                     !.xTriggerLevelBytes = xTriggerLevelBytes,
                     !.pucBuffer          = [i \in 0 .. xLength - 1 |-> 0],
                     !.isMessageBuffer    = isMessageBuffer]

AtLeastOne(xTriggerLevel) == IF xTriggerLevel = 0 THEN 1 ELSE xTriggerLevel

xStreamBufferGenericCreate(k1, s, size, trigger, isMessageBuffer) ==
    LET room == IF isMessageBuffer THEN sbBYTES_TO_STORE_MESSAGE_LENGTH ELSE 0
    IN  [configASSERT(k1, size > room /\ trigger <= size, "xStreamBufferGenericCreate")
            EXCEPT !.xStreamBuffers[s] =
                prvInitialiseNewStreamBuffer(size + 1, AtLeastOne(trigger), isMessageBuffer)]

\* The level is compared with the length of the array, one more than the size.
xStreamBufferSetTriggerLevel(k1, s, xTriggerLevel) ==
    IF AtLeastOne(xTriggerLevel) <= Stream(k1, s).xLength
    THEN [k |-> [k1 EXCEPT !.xStreamBuffers[s].xTriggerLevelBytes = AtLeastOne(xTriggerLevel)],
          ret |-> TRUE]
    ELSE [k |-> k1, ret |-> FALSE]

\* Nothing is reset while a task waits.
xStreamBufferReset(k1, s) ==
    LET S == Stream(k1, s)
    IN  IF S.xTaskWaitingToReceive = NULL /\ S.xTaskWaitingToSend = NULL
        THEN [k |-> [k1 EXCEPT !.xStreamBuffers[s] =
                        prvInitialiseNewStreamBuffer(S.xLength, S.xTriggerLevelBytes, S.isMessageBuffer)],
              ret |-> TRUE]
        ELSE [k |-> k1, ret |-> FALSE]

vStreamBufferDelete(k1, s) == [k1 EXCEPT !.xStreamBuffers[s] = NoStream]

-----------------------------------------------------------------------------
(* The ring. *)

prvBytesInBuffer(S) ==
    LET xCount == S.xLength + S.xHead - S.xTail
    IN  IF xCount >= S.xLength THEN xCount - S.xLength ELSE xCount

\* Seeded fault: the ring may be filled to its last byte.
SpacesWithoutGap(S) == S.xLength - prvBytesInBuffer(S)
xStreamBufferSpacesAvailable(S) ==
    LET xSpace == S.xLength + S.xTail - S.xHead - 1
    IN  IF xSpace >= S.xLength THEN xSpace - S.xLength ELSE xSpace

Smaller(a, b) == IF a < b THEN a ELSE b
Ring(S, i) == i % S.xLength

\* The bytes up to the end of the array, then the others from its start.
prvWriteBytesToBuffer(k1, s, bytes) ==
    LET S       == Stream(k1, s)
        xCount  == Len(bytes)
        xFirstLength == Smaller(S.xLength - S.xHead, xCount)
        place   == [n \in 1 .. xCount |-> Ring(S, S.xHead + n - 1)]
        last(i) == {n \in 1 .. xCount : place[n] = i}
    IN  [configASSERT(k1, /\ xCount > 0 /\ S.xHead + xFirstLength <= S.xLength
                          /\ xCount - xFirstLength <= S.xLength, "prvWriteBytesToBuffer")
            EXCEPT !.xStreamBuffers[s].pucBuffer = [i \in DOMAIN @ |->
                        IF last(i) = {} THEN @[i] ELSE bytes[CHOOSE n \in last(i) : TRUE]],
                   !.xStreamBuffers[s].xHead = Ring(S, @ + xCount)]

\* The bytes at the tail, and the buffer without them.
Peeked(S, n) == [i \in 1 .. n |-> S.pucBuffer[Ring(S, S.xTail + i - 1)]]
prvReadBytesFromBuffer(k1, s, xMaxCount, xBytesAvailable) ==
    LET S      == Stream(k1, s)
        xCount == Smaller(xBytesAvailable, xMaxCount)
        xFirstLength == Smaller(S.xLength - S.xTail, xCount)
    IN  [configASSERT(k1, xCount > 0 => /\ xFirstLength <= xMaxCount /\ xCount <= xMaxCount
                                        /\ S.xTail + xFirstLength <= S.xLength, "prvReadBytesFromBuffer")
            EXCEPT !.xStreamBuffers[s].xTail = Ring(S, @ + xCount)]

\* A length, in bytes of eight bits, the lowest first.
LengthBytes(n) == [i \in 1 .. sbBYTES_TO_STORE_MESSAGE_LENGTH |-> (n \div (256 ^ (i - 1))) % 256]
LengthOf(bytes) == FoldLeft(LAMBDA v, i : v + bytes[i] * 256 ^ (i - 1), 0, [i \in DOMAIN bytes |-> i])

\* Whether the bytes may go in, and how many of them.
MayWrite(S, bytes, xSpace) ==
    xSpace # 0 /\ (S.isMessageBuffer => xSpace >= Len(bytes) + HeaderBytes(S))
Written(S, bytes, xSpace) ==
    IF S.isMessageBuffer THEN bytes ELSE SubSeq(bytes, 1, Smaller(Len(bytes), xSpace))

\* Seeded fault: the trigger level itself does not wake.
AboveLevel(S) == prvBytesInBuffer(S) > S.xTriggerLevelBytes
\* Whether the writer tells the reader.
Triggered(S) == prvBytesInBuffer(S) >= S.xTriggerLevelBytes

\* A ghost with what was written or read: bytes, or a message.
Noted(S, ghost, bytes) == IF S.isMessageBuffer THEN Append(ghost, bytes) ELSE ghost \o bytes

\* The second write, or the only one, with its ghost.
WriteData(k1, s, bytes) ==
    [prvWriteBytesToBuffer(k1, s, bytes) EXCEPT !.xStreamBuffers[s].sent = Noted(Stream(k1, s), @, bytes)]

\* The first read of a message: its length.  It is put back when the message
\* is not taken.
ReadLength(k1, s, available) == prvReadBytesFromBuffer(k1, s, HeaderBytes(Stream(k1, s)), available)
NextLength(S) == LengthOf(Peeked(S, HeaderBytes(S)))
LengthLeft(k1, s) ==
    LET S == Stream(k1, s)
    IN  [k1 EXCEPT !.xStreamBuffers[s].xTail = Ring(S, S.xLength + @ - HeaderBytes(S))]

\* How much the second read, or the only one, asks for: none of a message too long.
Wanted(S, xBufferLengthBytes, next) ==
    IF ~S.isMessageBuffer THEN xBufferLengthBytes
    ELSE IF next > xBufferLengthBytes THEN 0 ELSE next

ReadData(k1, s, xMaxCount, xBytesAvailable) ==
    [prvReadBytesFromBuffer(k1, s, xMaxCount, xBytesAvailable) EXCEPT !.xStreamBuffers[s].received =
        Noted(Stream(k1, s), @, Peeked(Stream(k1, s), Smaller(xBytesAvailable, xMaxCount)))]

-----------------------------------------------------------------------------
(* Telling the other end. *)

\* sbSEND_COMPLETED and sbRECEIVE_COMPLETED between vTaskSuspendAll() and
\* xTaskResumeAll(), end being the field that names the task that waits.
Completed(k1, s, end) ==
    IF Stream(k1, s)[end] = NULL THEN k1
    ELSE [xTaskGenericNotify(k1, Stream(k1, s)[end], "eNoAction", 0)
             EXCEPT !.xStreamBuffers[s][end] = NULL]

\* The same from an interrupt; ret: whether to yield.
CompletedFromISR(k1, s, end) ==
    LET r == xTaskGenericNotifyFromISR(k1, Stream(k1, s)[end], "eNoAction", 0)
    IN  IF Stream(k1, s)[end] = NULL THEN [k |-> k1, ret |-> FALSE]
        ELSE [r EXCEPT !.k.xStreamBuffers[s][end] = NULL]

xStreamBufferSendCompletedFromISR(k1, s)    == CompletedFromISR(k1, s, "xTaskWaitingToReceive")
xStreamBufferReceiveCompletedFromISR(k1, s) == CompletedFromISR(k1, s, "xTaskWaitingToSend")

\* An interrupt writes and reads in one go.
xStreamBufferSendFromISR(k1, s, bytes) ==
    LET S  == Stream(k1, s)
        k2 == IF S.isMessageBuffer THEN prvWriteBytesToBuffer(k1, s, LengthBytes(Len(bytes))) ELSE k1
        k3 == WriteData(k2, s, Written(S, bytes, xStreamBufferSpacesAvailable(S)))
    IN  IF ~MayWrite(S, bytes, xStreamBufferSpacesAvailable(S)) THEN [k |-> k1, ret |-> FALSE]
        ELSE IF Triggered(Stream(k3, s))
        THEN CompletedFromISR(k3, s, "xTaskWaitingToReceive")
        ELSE [k |-> k3, ret |-> FALSE]

xStreamBufferReceiveFromISR(k1, s, xBufferLengthBytes) ==
    LET S     == Stream(k1, s)
        bytes == prvBytesInBuffer(S)
        max   == Wanted(S, xBufferLengthBytes, NextLength(S))
        k2    == IF S.isMessageBuffer THEN ReadLength(k1, s, bytes) ELSE k1
    IN  IF bytes <= HeaderBytes(S) THEN [k |-> k1, ret |-> FALSE]
        ELSE IF max = 0 THEN [k |-> IF S.isMessageBuffer THEN LengthLeft(k2, s) ELSE k2, ret |-> FALSE]
        ELSE CompletedFromISR(ReadData(k2, s, max, bytes - HeaderBytes(S)), s, "xTaskWaitingToSend")

-----------------------------------------------------------------------------
(* The steps of a task.  frame[t].size is xSpace or xBytesAvailable, and    *)
(* frame[t].wait the field that names the task while it waits.              *)

\* Nothing to do yet: the task is named as the one that waits.
Register(t, c, end) ==
    k' = [configASSERT(xTaskNotifyStateClear(k, t), Stream(k, c.s)[end] = NULL, c.op)
             EXCEPT !.xStreamBuffers[c.s][end] = t]

\* xTaskNotifyWait( 0, 0, NULL, xTicksToWait ): two critical sections.
AwaitNotice(t, op) ==
    \/ /\ At(t, op, "wait")
       /\ NotifyWaitBegin(t, 0, frame[t].ticks)
       /\ Becomes(t, [frame[t] EXCEPT !.pc = "woken"])
       /\ UNCHANGED env
    \/ /\ At(t, op, "woken")
       /\ NotifyWaitEnd(t, 0)
       /\ Becomes(t, [frame[t] EXCEPT !.pc = "forget"])
       /\ UNCHANGED env

\* The other end is told, with the scheduler suspended, and the call ends.
Complete(t, op, end) ==
    /\ At(t, op, "complete")
    /\ k' = Completed(vTaskSuspendAll(k), frame[t].call.s, end)
    /\ Becomes(t, [frame[t] EXCEPT !.pc = "xTaskResumeAll"])
    /\ UNCHANGED env

\* A step of the call to the next point of its frame.
Change(t, k1, f) ==
    /\ k' = k1
    /\ Becomes(t, f)
    /\ UNCHANGED env

\* The task's own loop: room is looked for in a critical section, and again
\* after each notice, until it is there or the time is over.
StreamSend(t) ==
    LET op == "xStreamBufferSend"
        f  == frame[t]
        s  == f.call.s
        S  == Stream(k, s)
    IN  \/ \E c \in Calls(t, op) :
            /\ k' = k
            /\ Becomes(t, [f EXCEPT !.pc = IF c.ticks # 0 THEN "check" ELSE "write", !.call = c,
                                    !.ticks = c.ticks, !.size = 0,
                                    !.timeout = vTaskInternalSetTimeOutState(k)])
            /\ UNCHANGED env
        \/ /\ At(t, op, "check")
           /\ LET space == xStreamBufferSpacesAvailable(S)
                  room  == space >= Len(f.call.bytes) + HeaderBytes(S)
              IN  /\ IF room THEN k' = k ELSE Register(t, f.call, "xTaskWaitingToSend")
                  /\ Becomes(t, [f EXCEPT !.pc = IF room THEN "write" ELSE "wait", !.size = space])
           /\ UNCHANGED env
        \/ AwaitNotice(t, op)
        \/ /\ At(t, op, "forget")
           /\ Change(t, [k EXCEPT !.xStreamBuffers[s].xTaskWaitingToSend = NULL], [f EXCEPT !.pc = "expired"])
        \/ /\ At(t, op, "expired")
           /\ LET r == xTaskCheckForTimeOut(k, f.timeout, f.ticks)
              IN  Change(t, r.k, [f EXCEPT !.pc = IF r.ret THEN "write" ELSE "check",
                                           !.timeout = r.timeout, !.ticks = r.ticks])
        \/ /\ At(t, op, "write")
           /\ LET space == IF f.size = 0 THEN xStreamBufferSpacesAvailable(S) ELSE f.size
              IN  CASE ~MayWrite(S, f.call.bytes, space) -> Change(t, k, Returned(t, f, "pdFAIL"))
                    [] MayWrite(S, f.call.bytes, space) /\ S.isMessageBuffer ->
                            Change(t, prvWriteBytesToBuffer(k, s, LengthBytes(Len(f.call.bytes))),
                                   [f EXCEPT !.pc = "data"])
                    [] OTHER -> Change(t, WriteData(k, s, Written(S, f.call.bytes, space)),
                                       [f EXCEPT !.pc = "written"])
        \/ /\ At(t, op, "data")
           /\ Change(t, WriteData(k, s, f.call.bytes), [f EXCEPT !.pc = "written"])
        \/ /\ At(t, op, "written")
           /\ Change(t, k, IF Triggered(S) THEN [f EXCEPT !.pc = "complete", !.ret = "pdPASS"]
                           ELSE Returned(t, f, "pdPASS"))
        \/ Complete(t, op, "xTaskWaitingToReceive")

\* The reader waits once: a notice that comes with nothing to read ends its wait.
StreamReceive(t) ==
    LET op == "xStreamBufferReceive"
        f  == frame[t]
        s  == f.call.s
        S  == Stream(k, s)
    IN  \/ \E c \in Calls(t, op) :
            LET bytes == prvBytesInBuffer(Stream(k, c.s))
                none  == bytes <= HeaderBytes(Stream(k, c.s)) /\ c.ticks # 0
            IN  /\ IF none THEN Register(t, c, "xTaskWaitingToReceive") ELSE k' = k
                /\ Becomes(t, [f EXCEPT !.pc = IF none THEN "wait" ELSE "read", !.call = c,
                                        !.ticks = c.ticks, !.size = bytes])
                /\ UNCHANGED env
        \/ AwaitNotice(t, op)
        \/ /\ At(t, op, "forget")
           /\ Change(t, [k EXCEPT !.xStreamBuffers[s].xTaskWaitingToReceive = NULL], [f EXCEPT !.pc = "check"])
        \/ /\ At(t, op, "check")
           /\ Change(t, k, [f EXCEPT !.pc = "read", !.size = prvBytesInBuffer(S)])
        \/ /\ At(t, op, "read")
           /\ CASE f.size <= HeaderBytes(S) -> Change(t, k, Returned(t, f, "pdFAIL"))
                [] f.size > HeaderBytes(S) /\ S.isMessageBuffer ->
                        Change(t, ReadLength(k, s, f.size), [f EXCEPT !.pc = "body", !.got = NextLength(S)])
                [] OTHER -> Change(t, ReadData(k, s, Wanted(S, f.call.length, 0), f.size),
                                   [f EXCEPT !.pc = "complete", !.ret = "pdPASS"])
        \/ /\ At(t, op, "body")
           /\ LET max == Wanted(S, f.call.length, f.got)
              IN  IF max = 0
                  THEN Change(t, LengthLeft(k, s), Returned(t, [f EXCEPT !.got = NULL], "pdFAIL"))
                  ELSE Change(t, ReadData(k, s, max, f.size - HeaderBytes(S)),
                              [f EXCEPT !.pc = "complete", !.ret = "pdPASS", !.got = NULL])
        \/ Complete(t, op, "xTaskWaitingToSend")

\* The length of the next message is read like a message, and put back.
NextMessageLength(t) ==
    LET op == "xStreamBufferNextMessageLengthBytes"
    IN  \/ \E c \in Calls(t, op) :
            LET S     == Stream(k, c.s)
                bytes == prvBytesInBuffer(S)
            IN  IF S.isMessageBuffer /\ bytes > HeaderBytes(S)
                THEN Change(t, ReadLength(k, c.s, bytes), [frame[t] EXCEPT !.pc = "restore", !.call = c])
                ELSE Change(t, configASSERT(k, S.isMessageBuffer => bytes = 0, c.op),
                            Returned(t, frame[t], "pdFAIL"))
        \/ /\ At(t, op, "restore")
           /\ Change(t, LengthLeft(k, frame[t].call.s), Returned(t, frame[t], "pdPASS"))

StreamReset(t) ==
    \E c \in Calls(t, "xStreamBufferReset") :
        LET r == xStreamBufferReset(k, c.s)
        IN  k' = r.k /\ Return(t, PassFail(r.ret)) /\ UNCHANGED env

StreamSetTriggerLevel(t) ==
    \E c \in Calls(t, "xStreamBufferSetTriggerLevel") :
        LET r == xStreamBufferSetTriggerLevel(k, c.s, c.level)
        IN  k' = r.k /\ Return(t, PassFail(r.ret)) /\ UNCHANGED env

StreamDelete(t) == InOneStep(t, "vStreamBufferDelete", LAMBDA c : vStreamBufferDelete(k, c.s))

=============================================================================
