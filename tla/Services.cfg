SPECIFICATION Spec
CONSTANTS
    IdleTask = Idle
    TimerTask = Tmr
    t1 = t1
    t2 = t2
    t3 = t3
    q1 = q1
    q2 = q2
    q3 = q3
    tq = tq
    g1 = g1
    s1 = s1
    m1 = m1
    m2 = m2
    NULL = NULL
    Only = {"Events", "GroupDeleted", "Barrier", "Timing", "TimersAndHook"}
    Tasks = {Idle, Tmr, t1, t2, t3}
    Queues = {tq}
    TimerQueue = tq
    Groups = {g1}
    Streams = {s1}
    TimerSet = {m1, m2}
    Callbacks <- TimerCallbacks
    configUSE_TIMERS = TRUE
    configTIMER_TASK_PRIORITY = 4
    configTIMER_QUEUE_LENGTH = 5
    sbBYTES_TO_STORE_MESSAGE_LENGTH = 4
    configMAX_PRIORITIES = 5
    TickMod = 8
    NotifyBits = 2
    EventLists <- QEvents
    configQUEUE_REGISTRY_SIZE = 2
    Scenario <- Selected
INVARIANTS NoAssertFails WaitersUnmet NotEarly TimersHeeded
CHECK_DEADLOCK FALSE
