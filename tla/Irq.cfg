SPECIFICATION IrqFairSpec
CONSTANTS
    Period = 4
    quirkAdvance = 0
    MaxTime = 9
    Length = 3
    Data = {d1, d2}
    NoData = nodata
    Producer = producer
    Consumer = consumer
    NoThread = nothread
    size = 2
    Events = {e1, e2}
    NoEvent = noevent
    Posters = {p1, p2}
    Runners = {r1, r2}
INVARIANTS
    TimeReadIsExact InterruptNotLost NoLostWakeup
    WaitingListsConsistent NoneSleepsInVain
PROPERTIES
    NeverEarly ImplementsFifo BlockedCallsReturn EventsInOrder
