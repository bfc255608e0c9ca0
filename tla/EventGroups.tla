---------------------------- MODULE EventGroups ----------------------------
(***************************************************************************)
(* Event groups (src/c_test/FreeRTOS/Source/event_groups.c).  The bits of  *)
(* group g are the set k.xEventGroups[g], NULL when there is no group; the *)
(* control bits eventCLEAR_EVENTS_ON_EXIT_BIT, eventWAIT_FOR_ALL_BITS and  *)
(* eventUNBLOCKED_DUE_TO_BIT_SET in the event item of a task are the set   *)
(* control of k.xEventBits[t].                                             *)
(*                                                                         *)
(* No interrupt touches a group: what a call does with the scheduler       *)
(* suspended is one step, and another task may run when it resumes.        *)
(***************************************************************************)
EXTENDS Tasks

CONSTANT Groups

xTasksWaitingForBits(g) == <<g, "xTasksWaitingForBits">>

prvTestWaitCondition(uxCurrentEventBits, uxBitsToWaitFor, xWaitForAllBits) ==
    IF xWaitForAllBits THEN uxBitsToWaitFor \subseteq uxCurrentEventBits
                       ELSE uxBitsToWaitFor \cap uxCurrentEventBits # {}

\* The wait a task's event item records.
WaitMet(k1, t, bits) ==
    prvTestWaitCondition(bits, k1.xEventBits[t].bits, "all" \in k1.xEventBits[t].control)

xEventGroupCreate(k1, g) == [k1 EXCEPT !.xEventGroups[g] = {}]

\* Seeded fault: the walk ends at the first task it wakes.
FirstMet(k1, g, bits) ==
    LET met == SelectSeq(k1.xEventLists[xTasksWaitingForBits(g)], LAMBDA t : WaitMet(k1, t, bits))
    IN  IF met = <<>> THEN met ELSE <<Head(met)>>
\* The tasks whose wait those bits end, in the order of the list.
TasksMet(k1, g, bits) ==
    SelectSeq(k1.xEventLists[xTasksWaitingForBits(g)], LAMBDA t : WaitMet(k1, t, bits))

\* Every task whose wait is over is woken with the bits that ended it; the
\* bits they wanted cleared go only after the last has been woken.
xEventGroupSetBits(k1, g, uxBitsToSet) ==
    LET bits == k1.xEventGroups[g] \cup uxBitsToSet
        met  == TasksMet(k1, g, bits)
        clear == UNION {k1.xEventBits[t].bits : t \in
                            {u \in ToSet(met) : "clear" \in k1.xEventBits[u].control}}
        woken == FoldLeft(LAMBDA x, t : vTaskRemoveFromUnorderedEventList(
                                            x, t, [bits |-> bits, control |-> {"set"}]),
                          k1, met)
    IN  [woken EXCEPT !.xEventGroups[g] = bits \ clear]

xEventGroupClearBits(k1, g, uxBitsToClear) == [k1 EXCEPT !.xEventGroups[g] = @ \ uxBitsToClear]

\* The tasks that wait are woken as by bits, but there are none.
vEventGroupDelete(k1, g) ==
    [FoldLeft(LAMBDA x, t : vTaskRemoveFromUnorderedEventList(x, t, [bits |-> {}, control |-> {"set"}]),
              k1, k1.xEventLists[xTasksWaitingForBits(g)])
        EXCEPT !.xEventGroups[g] = NULL]

-----------------------------------------------------------------------------
(* The calls. *)

SetBits(t) ==
    \E c \in Calls(t, "xEventGroupSetBits") :
        /\ k' = xEventGroupSetBits(vTaskSuspendAll(k), c.g, c.bits)
        /\ Becomes(t, ResumeAndReturn(t, c, "pdPASS"))
        /\ UNCHANGED env

ClearBits(t) ==
    \E c \in Calls(t, "xEventGroupClearBits") :
        /\ k' = xEventGroupClearBits(k, c.g, c.bits)
        /\ Becomes(t, Returned(t, [frame[t] EXCEPT !.got = k.xEventGroups[c.g]], "pdPASS"))
        /\ UNCHANGED env

EventGroupDelete(t) ==
    \E c \in Calls(t, "vEventGroupDelete") :
        /\ k' = vEventGroupDelete(vTaskSuspendAll(k), c.g)
        /\ Becomes(t, ResumeAndReturn(t, c, "pdPASS"))
        /\ UNCHANGED env

\* The task waits: what it waits for goes into its event item.
PlaceForBits(t, k1, c, control) ==
    /\ k' = vTaskPlaceOnUnorderedEventList(k1, xTasksWaitingForBits(c.g),
                                           [bits |-> c.bits, control |-> control], c.ticks)
    /\ Becomes(t, Resuming(frame[t], c, "woken"))

\* The bits are known: the call only has to resume the scheduler.
BitsKnown(t, c, bits, met) ==
    Becomes(t, [ResumeAndReturn(t, c, PassFail(met)) EXCEPT !.got = bits])

\* After the wait: woken by the bits, which are the value the event item was
\* given, or else looking at the group once more in a critical section.
Woken(t, op, all, clear) ==
    \/ /\ At(t, op, "woken")
       /\ LET c    == frame[t].call
              item == k.xEventBits[t]
          IN  /\ k' = uxTaskResetEventItemValue(k)
              /\ Becomes(t, IF "set" \in item.control
                            THEN Returned(t, [frame[t] EXCEPT !.got = item.bits],
                                          PassFail(prvTestWaitCondition(item.bits, c.bits, all)))
                            ELSE [frame[t] EXCEPT !.pc = "expired"])
       /\ UNCHANGED env
    \/ /\ At(t, op, "expired")
       /\ LET c    == frame[t].call
              bits == k.xEventGroups[c.g]
              met  == prvTestWaitCondition(bits, c.bits, all)
          IN  /\ k' = IF met /\ clear THEN xEventGroupClearBits(k, c.g, c.bits) ELSE k
              /\ Becomes(t, Returned(t, [frame[t] EXCEPT !.got = bits], PassFail(met)))
       /\ UNCHANGED env

WaitBits(t) ==
    \/ \E c \in Calls(t, "xEventGroupWaitBits") :
        LET bits == k.xEventGroups[c.g]
            met  == prvTestWaitCondition(bits, c.bits, c.all)
            k1   == vTaskSuspendAll(configASSERT(k, ~(k.uxSchedulerSuspended # 0 /\ c.ticks # 0), c.op))
        IN  /\ IF met \/ c.ticks = 0
               THEN /\ k' = IF met /\ c.clear THEN xEventGroupClearBits(k1, c.g, c.bits) ELSE k1
                    /\ BitsKnown(t, c, bits, met)
               ELSE PlaceForBits(t, k1, c, (IF c.all THEN {"all"} ELSE {})
                                              \cup (IF c.clear THEN {"clear"} ELSE {}))
            /\ UNCHANGED env
    \/ /\ In(t, "xEventGroupWaitBits")
       /\ Woken(t, "xEventGroupWaitBits", frame[t].call.all, frame[t].call.clear)

\* A rendezvous: the task sets its bit and waits for those of all the others.
Sync(t) ==
    \/ \E c \in Calls(t, "xEventGroupSync") :
        LET before == k.xEventGroups[c.g] \cup c.set
            k1 == vTaskSuspendAll(configASSERT(k, ~(k.uxSchedulerSuspended # 0 /\ c.ticks # 0), c.op))
            k2 == xEventGroupSetBits(k1, c.g, c.set)
        IN  /\ IF c.bits \subseteq before
               THEN k' = xEventGroupClearBits(k2, c.g, c.bits) /\ BitsKnown(t, c, before, TRUE)
               ELSE IF c.ticks = 0
               THEN k' = k2 /\ BitsKnown(t, c, k2.xEventGroups[c.g], FALSE)
               ELSE PlaceForBits(t, k2, c, {"all", "clear"})
            /\ UNCHANGED env
    \/ Woken(t, "xEventGroupSync", TRUE, TRUE)

=============================================================================
