----------------------------- MODULE IrqProofs -----------------------------
(***************************************************************************)
(* Proofs about the two components that share their state with interrupt   *)
(* routines and with nothing else: the OS timer and Queue.                 *)
(*                                                                         *)
(* OsTimer, for any counter width, quirk and bound on time: the pending    *)
(* bit trick returns the true time, an interrupt whose time has come is    *)
(* never lost and, without the quirk, none comes early.                    *)
(*                                                                         *)
(* Queue, for every capacity, every set of elements and every choice of    *)
(* the end served by an interrupt routine.                                 *)
(***************************************************************************)
EXTENDS OsTimer, Queue, SequenceTheorems, TLAPS

-----------------------------------------------------------------------------
(* OsTimer *)

Reading == {"flag", "read2", "got"}

\* While IRQgetTimeTick() runs, the overflow flag and the comparison of the
\* counter with the first read tell in which period the first read was.
ReadTracked ==
    /\ pc \in {"flag", "read2"} =>
          /\ readAt = upperTimeTick + firstRead
                      + (IF overflow /\ counter >= firstRead THEN Period ELSE 0)
          /\ ~overflow => counter >= firstRead
    /\ pc = "read2" => overflow

\* The inductive invariant of the clock.
ClockInv == TypeOK /\ ClockConsistent /\ ReadTracked /\ TimeReadIsExact

\* upper and lower split a time.
LEMMA Split ==
    ASSUME NEW tick \in Nat
    PROVE  /\ upper(tick) \in Nat
           /\ lower(tick) \in Counts
           /\ upper(tick) + lower(tick) = tick
<1> DEFINE q == tick \div Period
           r == tick % Period
<1>1. Period \in Nat /\ Period > 0
  BY OsTimerAssumption
<1>2. q \in Nat /\ r \in 0 .. Period - 1 /\ tick = Period * q + r
  BY <1>1
<1>3. q * Period = Period * q /\ q * Period \in Nat
  BY <1>1, <1>2
<1> QED
  BY <1>2, <1>3 DEF upper, lower, Counts

\* The clock starts right.
LEMMA InitClock == Init => ClockInv
<1> SUFFICES ASSUME Init PROVE ClockInv
  OBVIOUS
<1>1. 0 \in Ticks /\ 0 \in Counts
  BY OsTimerAssumption DEF Ticks, Counts
<1>2. TypeOK
  BY <1>1 DEF Init, TypeOK, Places
<1>3. ClockConsistent /\ ReadTracked /\ TimeReadIsExact
  BY DEF Init, ClockConsistent, ReadTracked, TimeReadIsExact
<1> QED
  BY <1>2, <1>3 DEF ClockInv

\* Every step keeps the types.
LEMMA NextTyped == TypeOK /\ [Next]_vars => TypeOK'
<1> SUFFICES ASSUME TypeOK, [Next]_vars PROVE TypeOK'
  OBVIOUS
<1> USE OsTimerAssumption DEF TypeOK, Places
<1>1. CASE HardwareTick
  BY <1>1 DEF HardwareTick, Wrap, Ticks, Counts, reading
<1>2. CASE ReadCounter \/ ReturnTime
  BY <1>2 DEF ReadCounter, ReturnTime, clock, irqRegs, reading, request, Ticks
<1>3. CASE ReadOverflowFlag \/ ReadCounterAgain
  BY <1>3 DEF ReadOverflowFlag, ReadCounterAgain, clock, irqRegs, request, Counts
<1>4. CASE CheckLate
  BY <1>4 DEF CheckLate, clock, reading, request
<1>5a. CASE ClearMatchFlag
  BY <1>5a DEF ClearMatchFlag, clock, reading, request
<1>5b. CASE CallScheduler
  BY <1>5b DEF CallScheduler, clock, reading
<1>5c. CASE SchedulerReturns
  BY <1>5c DEF SchedulerReturns, clock, irqRegs, reading, request
<1>6a. CASE ClearOverflowFlag
  BY <1>6a DEF ClearOverflowFlag, irqRegs, reading, request
<1>6b. CASE AddUpper
  BY <1>6b DEF AddUpper, clock, irqRegs, reading, request
<1>7a. CASE IRQhandler
  BY <1>7a DEF IRQhandler, clock, reading, request
<1>7b. CASE IRQgetTimeTick
  BY <1>7b DEF IRQgetTimeTick, clock, irqRegs, reading, request
<1>8. ASSUME NEW tick \in Ticks, IRQsetIrqTick(tick)
      PROVE  TypeOK'
  <2>1. tick \in Nat /\ tick + quirkAdvance \in Nat
    BY DEF Ticks
  <2> QED
    BY <1>8, <2>1, Split DEF IRQsetIrqTick, clock, reading
<1>9. ASSUME NEW tick \in Ticks, IRQsetTimeNs(tick)
      PROVE  TypeOK'
  <2>1. tick \in Nat /\ IRQgetIrqTick + quirkAdvance \in Nat
    BY DEF Ticks, IRQgetIrqTick, Counts
  <2> QED
    BY <1>9, <2>1, Split DEF IRQsetTimeNs, reading
<1>10. CASE UNCHANGED vars
  BY <1>10 DEF vars
<1> QED
  BY <1>1, <1>2, <1>3, <1>4, <1>5a, <1>5b, <1>5c, <1>6a, <1>6b, <1>7a, <1>7b, <1>8, <1>9,
     <1>10 DEF Next, CpuStep

\* Every step keeps the clock right.
LEMMA NextClock == ClockInv /\ [Next]_vars => ClockInv'
<1> SUFFICES ASSUME ClockInv, [Next]_vars
             PROVE  ClockConsistent' /\ ReadTracked' /\ TimeReadIsExact'
  BY NextTyped DEF ClockInv
<1> DEFINE Goal == ClockConsistent' /\ ReadTracked' /\ TimeReadIsExact'
<1> USE OsTimerAssumption DEF ClockInv, Counts, Ticks
<1>0. /\ Period \in Nat /\ now \in Nat /\ counter \in Nat /\ counter < Period
      /\ upperTimeTick \in Nat /\ firstRead \in Nat /\ firstRead < Period
      /\ overflow \in BOOLEAN /\ readAt \in Nat /\ result \in Nat
  BY DEF TypeOK
<1>1. CASE HardwareTick
  <2>0. /\ now' = now + 1
        /\ UNCHANGED <<upperTimeTick, pc, firstRead, result, readAt>>
        /\ overflow => counter # Period - 1
        /\ pc \in {"flag", "read2"} => Wrap(counter) # firstRead
        /\ counter' = Wrap(counter)
        /\ overflow' = (overflow \/ counter = Period - 1)
    BY <1>1 DEF HardwareTick, reading
  <2>1. CASE counter = Period - 1
    <3>0a. ~overflow
      BY <2>0, <2>1
    <3>0b. overflow' = TRUE
      BY <2>0, <2>1, Zenon
    <3>0c. counter + 1 = Period
      BY <1>0, <2>1
    <3>1. ~overflow /\ overflow' /\ counter' = 0
      BY <2>0, <3>0a, <3>0b, <3>0c DEF Wrap
    <3>2. ClockConsistent'
      BY <1>0, <2>0, <2>1, <3>1 DEF ClockConsistent
    <3>3. ReadTracked'
      BY <1>0, <2>0, <2>1, <3>1 DEF ReadTracked, Wrap
    <3> QED
      BY <2>0, <3>2, <3>3 DEF TimeReadIsExact
  <2>2. CASE counter # Period - 1
    <3>1. (overflow' <=> overflow) /\ counter' = counter + 1
      BY <1>0, <2>0, <2>2 DEF Wrap
    <3>2. ClockConsistent'
      <4>1. CASE overflow
        BY <1>0, <2>0, <3>1, <4>1 DEF ClockConsistent
      <4>2. CASE ~overflow
        BY <1>0, <2>0, <3>1, <4>2 DEF ClockConsistent
      <4> QED
        BY <4>1, <4>2
    <3>3. ReadTracked'
      <4>1. CASE overflow
        BY <1>0, <2>0, <2>2, <3>1, <4>1 DEF ReadTracked, Wrap
      <4>2. CASE ~overflow
        BY <1>0, <2>0, <2>2, <3>1, <4>2 DEF ReadTracked, Wrap
      <4> QED
        BY <4>1, <4>2
    <3> QED
      BY <2>0, <3>2, <3>3 DEF TimeReadIsExact
  <2> QED
    BY <2>1, <2>2
<1>2. CASE ReadCounter
  BY <1>0, <1>2 DEF ReadCounter, ClockConsistent, ReadTracked, TimeReadIsExact, clock
<1>3. CASE ReadOverflowFlag
  BY <1>0, <1>3 DEF ReadOverflowFlag, ClockConsistent, ReadTracked, TimeReadIsExact, clock
<1>4. CASE ReadCounterAgain
  BY <1>0, <1>4 DEF ReadCounterAgain, ClockConsistent, ReadTracked, TimeReadIsExact, clock
<1>5. CASE ReturnTime \/ CheckLate
  BY <1>5 DEF ReturnTime, CheckLate, TypeOK, ClockConsistent, ReadTracked, TimeReadIsExact,
              clock, reading
<1>6. CASE ClearMatchFlag \/ CallScheduler \/ SchedulerReturns
  BY <1>6 DEF ClearMatchFlag, CallScheduler, SchedulerReturns, ClockConsistent,
              ReadTracked, TimeReadIsExact, clock, reading
<1>7. CASE ClearOverflowFlag
  BY <1>0, <1>7 DEF ClearOverflowFlag, ClockConsistent, ReadTracked, TimeReadIsExact
<1>8. CASE AddUpper
  BY <1>0, <1>8 DEF AddUpper, ClockConsistent, ReadTracked, TimeReadIsExact, clock
<1>9. CASE IRQhandler \/ IRQgetTimeTick
  BY <1>9 DEF IRQhandler, IRQgetTimeTick, ClockConsistent, ReadTracked, TimeReadIsExact,
              clock, reading
<1>10. ASSUME NEW tick \in Ticks, IRQsetIrqTick(tick)
       PROVE  Goal
  BY <1>10 DEF IRQsetIrqTick, ClockConsistent, ReadTracked, TimeReadIsExact, clock, reading
<1>11. ASSUME NEW tick \in Ticks, IRQsetTimeNs(tick)
       PROVE  Goal
  BY <1>0, <1>11, Split DEF IRQsetTimeNs, ClockConsistent, ReadTracked, TimeReadIsExact,
                      reading
<1>12. CASE UNCHANGED vars
  BY <1>12 DEF vars, ClockConsistent, ReadTracked, TimeReadIsExact
<1> QED
  BY <1>1, <1>2, <1>3, <1>4, <1>5, <1>6, <1>7, <1>8, <1>9, <1>10, <1>11, <1>12
     DEF Next, CpuStep

\* ClockInv holds in every reachable state.
LEMMA ClockInvariant == Spec => []ClockInv
  BY InitClock, NextClock, PTL DEF Spec

\* Type correctness of the timer.
THEOREM OsTimerTypeCorrect == Spec => []TypeOK
<1>1. ClockInv => TypeOK
  BY DEF ClockInv
<1> QED
  BY <1>1, ClockInvariant, PTL

\* upperTimeTick, the counter and the overflow flag always add up to the
\* true time.
THEOREM ClockAlwaysConsistent == Spec => []ClockConsistent
<1>1. ClockInv => ClockConsistent
  BY DEF ClockInv
<1> QED
  BY <1>1, ClockInvariant, PTL

\* The pending bit trick is correct: IRQgetTimeTick() returns the true time
\* of its first read, for every counter width and wherever the counter wraps.
THEOREM PendingBitTrick == Spec => []TimeReadIsExact
<1>1. ClockInv => TimeReadIsExact
  BY DEF ClockInv
<1> QED
  BY <1>1, ClockInvariant, PTL
-----------------------------------------------------------------------------
(* The interrupt is not lost *)

Aligned(t) == \E k \in Nat : t = k * Period

\* Where the interrupt is from the moment its time comes until it is
\* delivered: in a hardware flag, or in the hands of the code that runs.
InterruptTracked ==
    (~fired /\ now >= IRQgetIrqTick) =>
       \/ matchFlag
       \/ lateIrq /\ forced
       \/ lateIrq /\ (pc = "clearMatch" \/ (op = "irq" /\ pc \in Reading))
       \/ op \in {"set", "irq"} /\ pc = "read"
       \/ op \in {"set", "irq"} /\ pc \in Reading /\ readAt >= IRQgetIrqTick

\* The inductive invariant of the interrupt, on top of that of the clock.
IrqInv ==
    /\ Aligned(upperTimeTick) /\ Aligned(upperIrqTick)
    /\ requested <= IRQgetIrqTick
    /\ InterruptTracked

\* A time has one splitting into a multiple of the period and a count.
LEMMA UniqueSplit ==
    ASSUME NEW u, NEW v, NEW a \in Counts, NEW b \in Counts,
           Aligned(u), Aligned(v), u + a = v + b
    PROVE  a = b
<1>1. PICK k \in Nat : u = k * Period
  BY DEF Aligned
<1>2. PICK j \in Nat : v = j * Period
  BY DEF Aligned
<1>3. Period \in Nat /\ Period > 0 /\ a \in Int /\ b \in Int /\ a - b < Period /\ b - a < Period
  BY OsTimerAssumption DEF Counts
<1>4. (j - k) * Period = a - b
  BY <1>1, <1>2, <1>3
<1>5. ASSUME j > k PROVE FALSE
  <2>1. (j - k) * Period >= Period
    BY <1>3, <1>5
  <2> QED
    BY <2>1, <1>3, <1>4
<1>6. ASSUME k > j PROVE FALSE
  <2>1. (k - j) * Period >= Period
    BY <1>3, <1>6
  <2>2. (k - j) * Period = b - a
    BY <1>1, <1>2, <1>3
  <2> QED
    BY <2>1, <2>2, <1>3
<1>7. j = k
  BY <1>5, <1>6
<1> QED
  BY <1>3, <1>4, <1>7

\* Alignment is kept by a carry, and is what upper() computes.
LEMMA AlignedFacts ==
    /\ Aligned(0)
    /\ \A t \in Nat : Aligned(t) => Aligned(t + Period)
    /\ \A t \in Nat : Aligned(upper(t))
<1>1. Period \in Nat /\ Period > 0
  BY OsTimerAssumption
<1>2. Aligned(0)
  <2>1. 0 = 0 * Period
    BY <1>1
  <2> QED
    BY <2>1 DEF Aligned
<1>3. ASSUME NEW t \in Nat, Aligned(t) PROVE Aligned(t + Period)
  <2>1. PICK k \in Nat : t = k * Period
    BY <1>3 DEF Aligned
  <2>2. t + Period = (k + 1) * Period /\ k + 1 \in Nat
    BY <1>1, <2>1
  <2> QED
    BY <2>2 DEF Aligned
<1>4. ASSUME NEW t \in Nat PROVE Aligned(upper(t))
  <2>1. t \div Period \in Nat
    BY <1>1
  <2> QED
    BY <2>1 DEF Aligned, upper
<1> QED
  BY <1>2, <1>3, <1>4

\* The upper bits stay aligned, and the match is never before the request.
LEMMA NextAligned ==
    ASSUME ClockInv, IrqInv, [Next]_vars
    PROVE  /\ Aligned(upperTimeTick)' /\ Aligned(upperIrqTick)'
           /\ (requested <= IRQgetIrqTick)'
<1> DEFINE Goal == /\ Aligned(upperTimeTick') /\ Aligned(upperIrqTick')
                   /\ requested' <= upperIrqTick' + matchReg'
<1> SUFFICES Goal
  BY DEF Aligned, IRQgetIrqTick
<1>0. /\ Aligned(upperTimeTick) /\ Aligned(upperIrqTick)
      /\ requested <= upperIrqTick + matchReg
      /\ upperTimeTick \in Nat /\ upperIrqTick \in Nat /\ matchReg \in Nat
      /\ requested \in Nat /\ quirkAdvance \in Nat
  BY OsTimerAssumption DEF IrqInv, IRQgetIrqTick, ClockInv, TypeOK, Counts
<1>1. CASE UNCHANGED <<upperTimeTick, upperIrqTick, matchReg, requested>>
  BY <1>0, <1>1
<1>2. CASE AddUpper
  BY <1>0, <1>2, AlignedFacts DEF AddUpper, irqRegs, request
<1>3. ASSUME NEW tick \in Ticks, IRQsetIrqTick(tick)
      PROVE  Goal
  <2>1. tick \in Nat /\ tick + quirkAdvance \in Nat
    BY <1>0 DEF Ticks
  <2>2. /\ upperTimeTick' = upperTimeTick /\ requested' = tick
        /\ upperIrqTick' = upper(tick + quirkAdvance)
        /\ matchReg' = lower(tick + quirkAdvance)
    BY <1>3 DEF IRQsetIrqTick
  <2> QED
    BY <1>0, <2>1, <2>2, Split, AlignedFacts
<1>4. ASSUME NEW tick \in Ticks, IRQsetTimeNs(tick)
      PROVE  Goal
  <2> DEFINE tick2 == upperIrqTick + matchReg + quirkAdvance
  <2>1. tick \in Nat /\ tick2 \in Nat /\ tick2 >= requested
    BY <1>0 DEF Ticks
  <2>2. /\ upperTimeTick' = upper(tick) /\ requested' = requested
        /\ \/ upperIrqTick' = upper(tick2) /\ matchReg' = lower(tick2)
           \/ UNCHANGED <<upperIrqTick, matchReg>>
    BY <1>4 DEF IRQsetTimeNs, IRQgetIrqTick
  <2>3. Aligned(upper(tick)) /\ Aligned(upper(tick2)) /\ upper(tick2) + lower(tick2) = tick2
    BY <2>1, Split, AlignedFacts
  <2> QED
    BY <1>0, <2>1, <2>2, <2>3
<1>5. CASE HardwareTick \/ IRQhandler \/ IRQgetTimeTick
  BY <1>1, <1>5 DEF HardwareTick, IRQhandler, IRQgetTimeTick, irqRegs, request
<1>6. CASE ReadCounter \/ ReadOverflowFlag \/ ReadCounterAgain \/ ReturnTime \/ CheckLate
  BY <1>1, <1>6 DEF ReadCounter, ReadOverflowFlag, ReadCounterAgain, ReturnTime, CheckLate,
                    irqRegs, request
<1>7. CASE ClearMatchFlag \/ CallScheduler \/ SchedulerReturns \/ ClearOverflowFlag
  BY <1>1, <1>7 DEF ClearMatchFlag, CallScheduler, SchedulerReturns, ClearOverflowFlag,
                    irqRegs, request
<1>8. CASE UNCHANGED vars
  BY <1>1, <1>8 DEF vars
<1> QED
  BY <1>2, <1>3, <1>4, <1>5, <1>6, <1>7, <1>8 DEF Next, CpuStep

\* The tick on which the requested time comes sets the match flag.
LEMMA MatchOnTime ==
    ASSUME ClockInv, IrqInv, HardwareTick, now + 1 = IRQgetIrqTick
    PROVE  matchFlag'
<1> DEFINE carry == (IF overflow' THEN Period ELSE 0) + (IF pc = "addUpper" THEN Period ELSE 0)
<1>1. /\ Period \in Nat /\ upperTimeTick \in Nat /\ upperIrqTick \in Nat
      /\ matchReg \in Counts /\ Aligned(upperTimeTick) /\ Aligned(upperIrqTick)
  BY OsTimerAssumption DEF ClockInv, TypeOK, IrqInv
<1>2. /\ ClockInv' /\ now' = now + 1 /\ counter' = Wrap(counter)
      /\ upperTimeTick' = upperTimeTick /\ pc' = pc
      /\ matchFlag' = (matchFlag \/ Wrap(counter) = matchReg)
  <2>1. [Next]_vars
    BY DEF Next
  <2> QED
    BY <2>1, NextClock DEF HardwareTick
<1>3. counter' \in Counts /\ now' = upperTimeTick + counter' + carry
  BY <1>1, <1>2 DEF ClockInv, TypeOK, ClockConsistent, Counts
<1>4. Aligned(upperTimeTick + carry)
  <2>1. carry \in {0, Period, Period + Period}
    BY <1>1
  <2>2. Aligned(upperTimeTick + Period) /\ upperTimeTick + Period \in Nat
    BY <1>1, AlignedFacts
  <2>3. Aligned((upperTimeTick + Period) + Period)
    BY <2>2, AlignedFacts
  <2>4. CASE carry = 0
    BY <1>1, <2>4
  <2>5. CASE carry = Period
    BY <2>2, <2>5
  <2>6. CASE carry = Period + Period
    <3>1. upperTimeTick + carry = (upperTimeTick + Period) + Period
      BY <1>1, <2>6
    <3> QED
      BY <2>3, <3>1
  <2> QED
    BY <2>1, <2>4, <2>5, <2>6
<1>5. (upperTimeTick + carry) + counter' = upperIrqTick + matchReg
  <2>1. carry \in Nat /\ counter' \in Nat
    BY <1>1, <1>3 DEF Counts
  <2> HIDE DEF carry
  <2> QED
    BY <1>1, <1>2, <1>3, <2>1 DEF IRQgetIrqTick
<1>6. counter' = matchReg
  BY <1>1, <1>3, <1>4, <1>5, UniqueSplit
<1> QED
  BY <1>2, <1>6

\* Every step keeps track of the interrupt.
LEMMA NextTracked ==
    ASSUME ClockInv, IrqInv, [Next]_vars
    PROVE  InterruptTracked'
<1>0. /\ InterruptTracked /\ requested <= IRQgetIrqTick
      /\ now \in Nat /\ upperIrqTick \in Nat /\ matchReg \in Nat /\ requested \in Nat
      /\ readAt \in Nat /\ result \in Nat /\ counter \in Nat /\ quirkAdvance \in Nat
      /\ matchFlag \in BOOLEAN /\ lateIrq \in BOOLEAN /\ forced \in BOOLEAN
      /\ Period \in Nat /\ upperTimeTick \in Nat /\ fired \in BOOLEAN
  BY OsTimerAssumption DEF IrqInv, ClockInv, TypeOK, Counts, Ticks
<1> USE <1>0 DEF InterruptTracked, Reading, IRQgetIrqTick
<1>1. CASE HardwareTick
  <2>1. /\ now' = now + 1 /\ (matchFlag => matchFlag')
        /\ UNCHANGED <<matchReg, forced, upperIrqTick, lateIrq, pc, op, readAt, fired>>
    BY <1>1 DEF HardwareTick, reading
  <2>2. CASE now >= upperIrqTick + matchReg
    BY <2>1, <2>2
  <2>3. CASE now + 1 = upperIrqTick + matchReg
    <3>1. matchFlag'
      BY <1>1, <2>3, MatchOnTime
    <3> QED
      BY <3>1
  <2>4. CASE now + 1 < upperIrqTick + matchReg
    BY <2>1, <2>4
  <2> QED
    BY <2>2, <2>3, <2>4
<1>2. CASE ReadCounter
  BY <1>2 DEF ReadCounter, clock, irqRegs, request
<1>3. CASE ReadOverflowFlag \/ ReadCounterAgain
  BY <1>3 DEF ReadOverflowFlag, ReadCounterAgain, clock, irqRegs, request
<1>4. CASE ReturnTime
  BY <1>4 DEF ReturnTime, clock, irqRegs, request, reading
<1>5. CASE CheckLate
  <2>1. result = readAt
    BY <1>5 DEF CheckLate, ClockInv, TimeReadIsExact
  <2>2. /\ pc = "got" /\ op = "set"
        /\ UNCHANGED <<now, upperIrqTick, matchReg, matchFlag, fired>>
        /\ forced' = (forced \/ result >= requested)
        /\ lateIrq' = (lateIrq \/ result >= requested)
    BY <1>5 DEF CheckLate, clock, request
  <2>3. CASE readAt >= upperIrqTick + matchReg
    <3>1. result >= requested
      BY <2>1, <2>3
    <3> QED
      BY <2>2, <3>1
  <2>4. CASE ~(readAt >= upperIrqTick + matchReg)
    <3>1. (lateIrq => lateIrq') /\ (forced => forced')
      BY <2>2
    <3> QED
      BY <2>2, <2>4, <3>1
  <2> QED
    BY <2>3, <2>4
<1>6. CASE ClearMatchFlag
  BY <1>6 DEF ClearMatchFlag, clock, request
<1>7. CASE CallScheduler
  <2>1. result = readAt
    BY <1>7 DEF CallScheduler, ClockInv, TimeReadIsExact
  <2> QED
    BY <1>7, <2>1 DEF CallScheduler, clock, reading
<1>8. CASE SchedulerReturns \/ AddUpper
  BY <1>8 DEF SchedulerReturns, AddUpper, clock, irqRegs, request, reading
<1>9. CASE ClearOverflowFlag
  BY <1>9 DEF ClearOverflowFlag, irqRegs, request, reading
<1>10. CASE IRQhandler
  BY <1>10 DEF IRQhandler, clock, request, reading
<1>11. CASE IRQgetTimeTick
  BY <1>11 DEF IRQgetTimeTick, clock, irqRegs, request, reading
<1>12. ASSUME NEW tick \in Ticks, IRQsetIrqTick(tick)
       PROVE  InterruptTracked'
  BY <1>12 DEF IRQsetIrqTick
<1>13. ASSUME NEW tick \in Ticks, IRQsetTimeNs(tick)
       PROVE  InterruptTracked'
  <2> DEFINE irq == upperIrqTick + matchReg
  <2>1. /\ tick \in Nat /\ pc = "off" /\ pc' = pc /\ op' = op /\ fired' = fired
        /\ matchFlag' = matchFlag /\ now' = tick
    BY <1>13 DEF IRQsetTimeNs, Ticks
  <2>2. CASE irq > upperTimeTick + counter + IF overflow THEN Period ELSE 0
    <3>1. /\ upperIrqTick' = upper(irq + quirkAdvance) /\ matchReg' = lower(irq + quirkAdvance)
          /\ forced' = (forced \/ tick >= irq) /\ lateIrq' = (lateIrq \/ tick >= irq)
      BY <1>13, <2>2 DEF IRQsetTimeNs
    <3>2. upperIrqTick' + matchReg' = irq + quirkAdvance
      BY <3>1, Split
    <3>3. CASE tick >= irq
      BY <3>1, <3>3
    <3>4. CASE ~(tick >= irq)
      BY <2>1, <3>2, <3>4
    <3> QED
      BY <3>3, <3>4
  <2>3. CASE ~(irq > upperTimeTick + counter + IF overflow THEN Period ELSE 0)
    <3>1. UNCHANGED <<upperIrqTick, matchReg, forced, lateIrq>>
      BY <1>13, <2>3 DEF IRQsetTimeNs
    <3>2. now >= irq
      BY <2>1, <2>3 DEF ClockInv, ClockConsistent
    <3> QED
      BY <2>1, <3>1, <3>2
  <2> QED
    BY <2>2, <2>3
<1>14. CASE UNCHANGED vars
  BY <1>14 DEF vars
<1> QED
  BY <1>1, <1>2, <1>3, <1>4, <1>5, <1>6, <1>7, <1>8, <1>9, <1>10, <1>11, <1>12, <1>13,
     <1>14 DEF Next, CpuStep

\* No request is lost, for every counter width and quirk: between two calls
\* of this code a request whose time has come has its interrupt pending.
THEOREM RequestNeverLost == Spec => []InterruptNotLost
<1>1. Init => IrqInv
  BY OsTimerAssumption, AlignedFacts DEF Init, IrqInv, InterruptTracked, IRQgetIrqTick
<1>2. ClockInv /\ IrqInv /\ [Next]_vars => IrqInv'
  BY NextAligned, NextTracked DEF IrqInv
<1>3. IrqInv => InterruptNotLost
  BY DEF IrqInv, InterruptTracked, InterruptNotLost, Reading
<1> QED
  BY <1>1, <1>2, <1>3, ClockInvariant, PTL DEF Spec
-----------------------------------------------------------------------------
(* The interrupt is not early *)

\* What says that a request is due says so of the request in force, or of one
\* that came due before it was replaced.
EarlyInv ==
    /\ IRQgetIrqTick = requested
    /\ lateIrq => expired
    /\ ~fired /\ now >= requested => expired
    /\ op = "set" /\ (pc = "read" \/ pc \in Reading) => ~fired
    /\ pc \in Reading => readAt <= now

\* Steps that leave the registers of the interrupt and the request alone.
LEMMA QuietEarly ==
    ASSUME TypeOK, EarlyInv, UNCHANGED <<request, matchReg, upperIrqTick, lateIrq, now>>,
           op' = "set" /\ (pc' = "read" \/ pc' \in Reading) =>
              op = "set" /\ (pc = "read" \/ pc \in Reading),
           pc' \in Reading => (pc \in Reading /\ readAt' = readAt) \/ readAt' = now
    PROVE  EarlyInv'
BY DEF TypeOK, EarlyInv, IRQgetIrqTick, request, Ticks

LEMMA NextEarly ==
    ASSUME quirkAdvance = 0, ClockInv, EarlyInv, [Next]_vars
    PROVE  EarlyInv' /\ (fired' /\ ~fired => expired)
<1>1. TypeOK /\ now \in Nat /\ requested \in Nat
  BY DEF ClockInv, TypeOK, Ticks
<1>2. CASE HardwareTick
  <2>1. /\ now' = now + 1 /\ expired' = (expired \/ now + 1 = requested)
        /\ UNCHANGED <<matchReg, upperIrqTick, lateIrq, pc, op, readAt, requested, fired>>
    BY <1>2 DEF HardwareTick, reading
  <2>2. readAt \in Nat
    BY <1>1 DEF TypeOK
  <2>3. ~fired /\ now + 1 >= requested => expired \/ now + 1 = requested
    BY <1>1 DEF EarlyInv
  <2>4. pc \in Reading => readAt <= now + 1
    BY <1>1, <2>2 DEF EarlyInv
  <2> QED
    BY <2>1, <2>3, <2>4 DEF EarlyInv, IRQgetIrqTick
<1>3. CASE ReadCounter \/ ReadOverflowFlag \/ ReadCounterAgain \/ ReturnTime
  <2>1. /\ UNCHANGED <<request, matchReg, upperIrqTick, lateIrq, now, op>>
        /\ pc = "read" \/ pc \in Reading
        /\ pc' \in Reading => (pc \in Reading /\ readAt' = readAt) \/ readAt' = now
    BY <1>3 DEF ReadCounter, ReadOverflowFlag, ReadCounterAgain, ReturnTime, Reading,
                clock, irqRegs, reading
  <2> QED
    BY <1>1, <2>1, QuietEarly DEF request
<1>4. CASE SchedulerReturns \/ ClearOverflowFlag \/ AddUpper \/ IRQhandler
           \/ IRQgetTimeTick \/ ClearMatchFlag
  <2>1. /\ UNCHANGED <<request, matchReg, upperIrqTick, lateIrq, now>>
        /\ pc' \notin Reading /\ (pc' = "read" => op' # "set")
    BY <1>4 DEF SchedulerReturns, ClearOverflowFlag, AddUpper, IRQhandler, IRQgetTimeTick,
                ClearMatchFlag, Reading, clock, irqRegs
  <2> QED
    BY <1>1, <2>1, QuietEarly DEF request
<1>5. CASE CheckLate
  <2>1. /\ pc = "got" /\ op = "set" /\ pc' = ret
        /\ lateIrq' = (lateIrq \/ result >= requested)
        /\ UNCHANGED <<now, matchReg, upperIrqTick, requested, fired, expired>>
    BY <1>5 DEF CheckLate, clock, request
  <2>2. result = readAt /\ readAt \in Nat /\ readAt <= now /\ ~fired
    BY <1>1, <2>1 DEF ClockInv, TimeReadIsExact, EarlyInv, Reading, TypeOK
  <2>3. result >= requested => expired
    BY <1>1, <2>2 DEF EarlyInv
  <2>4. pc' \notin Reading /\ pc' # "read"
    BY <1>1, <2>1 DEF TypeOK, Reading
  <2> QED
    BY <2>1, <2>3, <2>4 DEF EarlyInv, IRQgetIrqTick
<1>6. CASE CallScheduler
  <2>1. /\ pc = "got" /\ op = "irq" /\ pc' \notin Reading /\ pc' # "read"
        /\ UNCHANGED <<now, matchReg, upperIrqTick, requested>>
        /\ \/ /\ result >= IRQgetIrqTick \/ lateIrq
              /\ lateIrq' = FALSE /\ fired' = TRUE /\ expired' = FALSE
           \/ UNCHANGED <<lateIrq, fired, expired>>
    BY <1>6 DEF CallScheduler, clock, Reading
  <2>2. result = readAt /\ readAt \in Nat /\ readAt <= now
    BY <1>1, <2>1 DEF ClockInv, TimeReadIsExact, EarlyInv, Reading, TypeOK
  <2>3. ~fired /\ (result >= IRQgetIrqTick \/ lateIrq) => expired
    BY <1>1, <2>2 DEF EarlyInv
  <2> QED
    BY <2>1, <2>3 DEF EarlyInv, IRQgetIrqTick
<1>7. ASSUME NEW tick \in Ticks, IRQsetIrqTick(tick)
      PROVE  EarlyInv' /\ (fired' /\ ~fired => expired)
  <2>1. /\ upperIrqTick' = upper(tick) /\ matchReg' = lower(tick) /\ requested' = tick
        /\ fired' = FALSE /\ expired' = (expired \/ now >= tick) /\ pc' = "read"
        /\ UNCHANGED <<now, lateIrq>>
    <3>1. tick + quirkAdvance = tick
      BY DEF Ticks
    <3> QED
      BY <1>7, <3>1 DEF IRQsetIrqTick, clock
  <2>2. upper(tick) + lower(tick) = tick
    BY Split DEF Ticks
  <2> QED
    BY <2>1, <2>2 DEF EarlyInv, IRQgetIrqTick, Reading
<1>8. ASSUME NEW tick \in Ticks, IRQsetTimeNs(tick)
      PROVE  EarlyInv' /\ (fired' /\ ~fired => expired)
  <2>1. /\ pc = "off" /\ pc' = "off" /\ now' = tick /\ UNCHANGED <<requested, fired>>
        /\ expired' = (expired \/ requested \in now + 1 .. tick)
    BY <1>8 DEF IRQsetTimeNs
  <2>2. upperTimeTick + counter + (IF overflow THEN Period ELSE 0) = now
    <3>1. /\ upperTimeTick \in Nat /\ counter \in Nat /\ Period \in Nat
      BY <1>1, OsTimerAssumption DEF TypeOK, Counts
    <3> QED
      BY <2>1, <3>1 DEF ClockInv, ClockConsistent
  <2>3. IRQgetIrqTick = requested /\ requested + quirkAdvance = requested
    BY <1>1 DEF EarlyInv
  <2>4. /\ tick > now
        /\ IF requested > now
           THEN /\ upperIrqTick' = upper(requested) /\ matchReg' = lower(requested)
                /\ lateIrq' = (lateIrq \/ tick >= requested)
           ELSE UNCHANGED <<upperIrqTick, matchReg, lateIrq>>
    BY <1>8, <2>2, <2>3 DEF IRQsetTimeNs
  <2>5. upper(requested) + lower(requested) = requested
    BY <1>1, Split
  <2>6. tick \in Nat
    BY DEF Ticks
  <2>7. requested > now /\ tick >= requested => requested \in now + 1 .. tick
    BY <1>1, <2>6
  <2>8. (upperIrqTick + matchReg)' = requested
    BY <2>3, <2>4, <2>5 DEF IRQgetIrqTick
  <2>9. lateIrq' => expired'
    BY <2>1, <2>4, <2>7 DEF EarlyInv
  <2>10. ~fired /\ tick >= requested => expired'
    <3>1. requested > now \/ now >= requested
      BY <1>1
    <3> QED
      BY <2>1, <2>7, <3>1 DEF EarlyInv
  <2> QED
    BY <2>1, <2>8, <2>9, <2>10 DEF EarlyInv, IRQgetIrqTick, Reading
<1>9. CASE UNCHANGED vars
  BY <1>9 DEF vars, EarlyInv, IRQgetIrqTick
<1> QED
  BY <1>2, <1>3, <1>4, <1>5, <1>6, <1>7, <1>8, <1>9 DEF Next, CpuStep

\* With a timer that needs no advance, IRQtimerInterrupt() is never called for
\* a request before its time, whatever match or clock change comes first, for
\* every counter width.
THEOREM RequestNeverEarly == ASSUME quirkAdvance = 0 PROVE Spec => NeverEarly
<1>1. Init => EarlyInv
  BY OsTimerAssumption DEF Init, EarlyInv, IRQgetIrqTick, Reading
<1>2. ClockInv /\ EarlyInv /\ [Next]_vars => EarlyInv'
  BY NextEarly
<1>3. ClockInv /\ EarlyInv /\ [Next]_vars => [fired' /\ ~fired => expired]_vars
  BY NextEarly
<1> QED
  BY <1>1, <1>2, <1>3, ClockInvariant, PTL DEF Spec, NeverEarly
-----------------------------------------------------------------------------
(* Queue *)

\* The three invariants are inductive only together: NoLostWakeup needs the
\* types of the flags, and the range of putPos follows from RingConsistent.
QueueInv == QueueTypeOK /\ NoLostWakeup /\ RingConsistent

\* if(++pos==len) pos=0 stays inside the buffer.
LEMMA AdvanceInSlots ==
    ASSUME NEW pos \in Slots
    PROVE  Advance(pos) \in Slots
BY QueueAssumption DEF Advance, Slots

\* Every operation begins with IRQwakeWaitingThread(), after which nobody
\* is asleep: the one thread that may be asleep is the one it wakes.
LEMMA WakeClearsAll ==
    ASSUME QueueTypeOK, NoLostWakeup
    PROVE  /\ IRQwakeWaitingThread \in [Users -> BOOLEAN]
           /\ \A t \in Users : ~IRQwakeWaitingThread[t]
BY QueueAssumption DEF QueueTypeOK, NoLostWakeup, IRQwakeWaitingThread, Users

\* A freshly constructed queue satisfies the invariant.
LEMMA InitQueueInv == QueueInit => QueueInv
BY QueueAssumption
DEF QueueInit, QueueInv, QueueTypeOK, NoLostWakeup, RingConsistent, Slots, Users, Calls

\* Storing an element keeps the cursors and the buffer consistent.
LEMMA StoreElemRing ==
    ASSUME QueueTypeOK, RingConsistent, NEW d \in Data, ~isFull, StoreElem(d)
    PROVE  /\ buffer' \in [Slots -> Data \cup {NoData}]
           /\ numElem' \in 0 .. Length /\ putPos' \in Slots
           /\ getPos' \in Slots /\ delivered' \in Data \cup {NoData}
           /\ RingConsistent'
<1>1. putPos' \in Slots
    BY AdvanceInSlots DEF StoreElem, QueueTypeOK
<1>2. RingConsistent'
    BY QueueAssumption
    DEF StoreElem, QueueTypeOK, RingConsistent, Advance, Slots, isFull
<1> QED
    BY <1>1, <1>2, QueueAssumption DEF StoreElem, QueueTypeOK, isFull

\* Taking an element keeps the cursors and the buffer consistent.
LEMMA TakeElemRing ==
    ASSUME QueueTypeOK, RingConsistent, ~isEmpty, TakeElem
    PROVE  /\ buffer' \in [Slots -> Data \cup {NoData}]
           /\ numElem' \in 0 .. Length /\ putPos' \in Slots
           /\ getPos' \in Slots /\ delivered' \in Data \cup {NoData}
           /\ RingConsistent'
<1>1. getPos' \in Slots
    BY AdvanceInSlots DEF TakeElem, QueueTypeOK
<1>2. RingConsistent'
    BY QueueAssumption
    DEF TakeElem, QueueTypeOK, RingConsistent, Advance, Slots, isEmpty
<1> QED
    BY <1>1, <1>2, QueueAssumption DEF TakeElem, QueueTypeOK, isEmpty

\* A caller that goes to sleep is recorded in "waiting" and is the only
\* thread asleep.
LEMMA BlockKeepsInv ==
    ASSUME QueueInv, NEW t \in Users, NEW c \in Calls, BlockIn(t, c),
           elem' \in Data \cup {NoData},
           t = Producer => isFull, t = Consumer => isEmpty
    PROVE  QueueInv'
<1> USE QueueAssumption DEF QueueInv
<1>1. RingConsistent' /\ (isFull <=> isFull') /\ (isEmpty <=> isEmpty')
    BY DEF BlockIn, RingUnchanged, RingConsistent, isFull, isEmpty
<1>2. QueueTypeOK'
    BY WakeClearsAll DEF BlockIn, RingUnchanged, QueueTypeOK
<1>3. NoLostWakeup'
    BY <1>1, WakeClearsAll DEF BlockIn, NoLostWakeup, Users
<1> QED BY <1>1, <1>2, <1>3

\* An operation that returns leaves nobody asleep.
LEMMA WakeKeepsInv ==
    ASSUME QueueInv,
           waiting' = NoThread, wait' = IRQwakeWaitingThread,
           call' \in [Users -> Calls], elem' \in Data \cup {NoData},
           buffer' \in [Slots -> Data \cup {NoData}],
           numElem' \in 0 .. Length, putPos' \in Slots,
           getPos' \in Slots, delivered' \in Data \cup {NoData},
           RingConsistent'
    PROVE  QueueInv'
BY WakeClearsAll DEF QueueInv, QueueTypeOK, NoLostWakeup, Users

\* Every operation, by a thread or by an interrupt, preserves the invariant.
LEMMA NextQueueInv == QueueInv /\ [QueueNext]_queueVars => QueueInv'
<1> SUFFICES ASSUME QueueInv, [QueueNext]_queueVars PROVE QueueInv'
    OBVIOUS
<1> USE DEF QueueInv
<1>1. ASSUME NEW d \in Data, put(d) PROVE QueueInv'
    <2>1. CASE isFull
        BY <1>1, <2>1, BlockKeepsInv, QueueAssumption
        DEF put, Users, Calls, isFull, isEmpty
    <2>2. CASE ~isFull
        BY <1>1, <2>2, StoreElemRing, WakeKeepsInv
        DEF put, ReturnFrom, Users, Calls, QueueTypeOK
    <2> QED BY <2>1, <2>2
<1>2. ASSUME waitUntilNotFull PROVE QueueInv'
    <2>1. CASE isFull
        BY <1>2, <2>1, BlockKeepsInv, QueueAssumption
        DEF waitUntilNotFull, Users, Calls, isFull, isEmpty, QueueTypeOK
    <2>2. CASE ~isFull
        BY <1>2, <2>2, WakeKeepsInv
        DEF waitUntilNotFull, ReturnFrom, RingUnchanged, RingConsistent,
            Users, Calls, QueueTypeOK
    <2> QED BY <2>1, <2>2
<1>3. ASSUME get PROVE QueueInv'
    <2>1. CASE isEmpty
        BY <1>3, <2>1, BlockKeepsInv, QueueAssumption
        DEF get, Users, Calls, isFull, isEmpty, QueueTypeOK
    <2>2. CASE ~isEmpty
        BY <1>3, <2>2, TakeElemRing, WakeKeepsInv
        DEF get, ReturnFrom, Users, Calls, QueueTypeOK
    <2> QED BY <2>1, <2>2
<1>4. ASSUME waitUntilNotEmpty PROVE QueueInv'
    <2>1. CASE isEmpty
        BY <1>4, <2>1, BlockKeepsInv, QueueAssumption
        DEF waitUntilNotEmpty, Users, Calls, isFull, isEmpty, QueueTypeOK
    <2>2. CASE ~isEmpty
        BY <1>4, <2>2, WakeKeepsInv
        DEF waitUntilNotEmpty, ReturnFrom, RingUnchanged, RingConsistent,
            Users, Calls, QueueTypeOK
    <2> QED BY <2>1, <2>2
<1>5. ASSUME NEW d \in Data, IRQput(d) PROVE QueueInv'
    <2>1. CASE isFull
        BY <1>5, <2>1, WakeKeepsInv
        DEF IRQput, RingUnchanged, RingConsistent, StoreElem, QueueTypeOK
    <2>2. CASE ~isFull
        BY <1>5, <2>2, StoreElemRing, WakeKeepsInv DEF IRQput, QueueTypeOK
    <2> QED BY <2>1, <2>2
<1>6. ASSUME IRQget PROVE QueueInv'
    <2>1. CASE isEmpty
        BY <1>6, <2>1, WakeKeepsInv
        DEF IRQget, RingUnchanged, RingConsistent, TakeElem, QueueTypeOK
    <2>2. CASE ~isEmpty
        BY <1>6, <2>2, TakeElemRing, WakeKeepsInv DEF IRQget, QueueTypeOK
    <2> QED BY <2>1, <2>2
<1>7. ASSUME IRQreset PROVE QueueInv'
    BY <1>7, WakeKeepsInv, QueueAssumption
    DEF IRQreset, RingConsistent, Slots, QueueTypeOK
<1>8. ASSUME NEW t \in Users, SpuriousWakeup(t) PROVE QueueInv'
    BY <1>8, QueueAssumption
    DEF SpuriousWakeup, QueueTypeOK, NoLostWakeup, RingConsistent, Users,
        isFull, isEmpty
<1>9. ASSUME UNCHANGED queueVars PROVE QueueInv'
    BY <1>9
    DEF queueVars, QueueTypeOK, NoLostWakeup, RingConsistent, isFull, isEmpty
<1> QED
    BY <1>1, <1>2, <1>3, <1>4, <1>5, <1>6, <1>7, <1>8, <1>9
    DEF QueueNext, PutCalls, GetCalls

\* In every reachable state of the queue the invariant holds.
THEOREM QueueInvariant == QueueSpec => []QueueInv
BY InitQueueInv, NextQueueInv, PTL DEF QueueSpec

\* The variables of Queue<T,len> keep their ranges: no cursor leaves the
\* buffer and numElem never underflows or exceeds len.
THEOREM QueueTypeCorrect == QueueSpec => []QueueTypeOK
BY QueueInvariant, PTL DEF QueueInv

\* The single "waiting" pointer never loses a sleeping user, whatever the
\* capacity and whichever end is an interrupt routine.
THEOREM QueueNoLostWakeup == QueueSpec => []NoLostWakeup
BY QueueInvariant, PTL DEF QueueInv

\* putPos is always numElem slots ahead of getPos, modulo the wrap.
THEOREM QueueRingConsistent == QueueSpec => []RingConsistent
BY QueueInvariant, PTL DEF QueueInv

-----------------------------------------------------------------------------
(* Refinement: the ring buffer implements the abstract bounded FIFO. *)

\* The slot of the i-th oldest element when the oldest is in slot g.
Slot(g, i) == IF g + i - 1 < Length THEN g + i - 1 ELSE g + i - 1 - Length

\* The n elements of ring buffer b from slot g on, oldest first.
RingSeq(b, g, n) == [i \in 1 .. n |-> b[Slot(g, i)]]

\* They form a sequence of length n, and each of them is a buffer slot.
LEMMA RingIsSeq ==
    ASSUME NEW b \in [Slots -> Data \cup {NoData}],
           NEW g \in Slots, NEW n \in 0 .. Length
    PROVE  /\ RingSeq(b, g, n) \in Seq(Data \cup {NoData})
           /\ Len(RingSeq(b, g, n)) = n
           /\ \A i \in 1 .. n : /\ Slot(g, i) \in Slots
                              /\ RingSeq(b, g, n)[i] = b[Slot(g, i)]
<1>1. n \in Nat
    BY QueueAssumption
<1>2. \A i \in 1 .. n : Slot(g, i) \in Slots
    BY QueueAssumption DEF Slot, Slots
<1>3. RingSeq(b, g, n) \in [1 .. n -> Data \cup {NoData}]
    BY <1>2 DEF RingSeq
<1>4. RingSeq(b, g, n) \in Seq(Data \cup {NoData}) /\ Len(RingSeq(b, g, n)) = n
    BY <1>1, <1>3
<1> QED BY <1>2, <1>4 DEF RingSeq

\* The elements held, in any state of the right type.
LEMMA ItemsSeq ==
    ASSUME QueueTypeOK
    PROVE  /\ Items \in Seq(Data \cup {NoData}) /\ Len(Items) = numElem
           /\ \A i \in 1 .. numElem : /\ Slot(getPos, i) \in Slots
                                    /\ Items[i] = buffer[Slot(getPos, i)]
<1>1. Items = RingSeq(buffer, getPos, numElem)
    BY DEF Items, Slot, RingSeq
<1>2. /\ buffer \in [Slots -> Data \cup {NoData}]
      /\ getPos \in Slots /\ numElem \in 0 .. Length
    BY DEF QueueTypeOK
<1> QED BY <1>1, <1>2, RingIsSeq

\* The elements held after a step.
LEMMA ItemsSeqAfter ==
    ASSUME QueueTypeOK'
    PROVE  /\ Items' \in Seq(Data \cup {NoData}) /\ Len(Items') = numElem'
           /\ \A i \in 1 .. numElem' : /\ Slot(getPos', i) \in Slots
                                     /\ Items'[i] = buffer'[Slot(getPos', i)]
<1>1. Items' = RingSeq(buffer', getPos', numElem')
    BY DEF Items, Slot, RingSeq
<1>2. /\ buffer' \in [Slots -> Data \cup {NoData}]
      /\ getPos' \in Slots /\ numElem' \in 0 .. Length
    BY DEF QueueTypeOK
<1> QED BY <1>1, <1>2, RingIsSeq

\* Storing appends: no element already held is overwritten.
LEMMA StoreIsFifoPut ==
    ASSUME QueueInv, NEW d \in Data, ~isFull, StoreElem(d), QueueTypeOK'
    PROVE  Fifo!FifoPut
<1> USE QueueAssumption DEF QueueInv
<1> DEFINE D == Data \cup {NoData}
<1>1. Items \in Seq(D) /\ Len(Items) = numElem /\ d \in D
    BY ItemsSeq
<1>2. Items' \in Seq(D) /\ Len(Items') = numElem + 1
    BY ItemsSeqAfter DEF StoreElem
<1>3. Append(Items, d) \in Seq(D) /\ Len(Append(Items, d)) = numElem + 1
    BY <1>1, AppendProperties
<1>4. ASSUME NEW i \in 1 .. numElem + 1
      PROVE  Items'[i] = Append(Items, d)[i]
    <2>1. Items'[i] = buffer'[Slot(getPos', i)]
        BY ItemsSeqAfter DEF StoreElem
    <2>2. CASE i = numElem + 1
        <3>1. Slot(getPos', i) = putPos
            BY <2>2 DEF StoreElem, RingConsistent, Slot, QueueTypeOK
        <3> QED BY <2>1, <2>2, <3>1, <1>1, AppendProperties DEF StoreElem, QueueTypeOK
    <2>3. CASE i \in 1 .. numElem
        <3>1. Slot(getPos', i) = Slot(getPos, i) /\ Slot(getPos, i) # putPos
            BY <2>3 DEF StoreElem, RingConsistent, Slot, QueueTypeOK, isFull, Slots
        <3>2. Items[i] = buffer[Slot(getPos, i)] /\ Slot(getPos, i) \in Slots
            BY <2>3, ItemsSeq
        <3>3. Append(Items, d)[i] = Items[i]
            BY <2>3, <1>1, AppendProperties
        <3> QED BY <2>1, <3>1, <3>2, <3>3 DEF StoreElem, QueueTypeOK
    <2>4. i = numElem + 1 \/ i \in 1 .. numElem
        BY DEF QueueTypeOK
    <2> QED BY <2>2, <2>3, <2>4
<1>5. Items' = Append(Items, d)
    BY <1>2, <1>3, <1>4, SeqEqual
<1>6. Len(Items) < Length
    BY <1>1 DEF isFull, QueueTypeOK
<1> QED BY <1>5, <1>6 DEF Fifo!FifoPut, StoreElem

\* Taking returns and removes the oldest element.
LEMMA TakeIsFifoGet ==
    ASSUME QueueInv, ~isEmpty, TakeElem, QueueTypeOK'
    PROVE  Fifo!FifoGet
<1> USE QueueAssumption DEF QueueInv
<1> DEFINE D == Data \cup {NoData}
<1>1. Items \in Seq(D) /\ Len(Items) = numElem /\ Items # <<>>
    BY ItemsSeq, EmptySeq DEF isEmpty
<1>2. Items' \in Seq(D) /\ Len(Items') = numElem - 1
    BY ItemsSeqAfter DEF TakeElem
<1>3. Tail(Items) \in Seq(D) /\ Len(Tail(Items)) = numElem - 1
    BY <1>1, HeadTailProperties
<1>4. ASSUME NEW i \in 1 .. numElem - 1
      PROVE  Items'[i] = Tail(Items)[i]
    <2>1. Items'[i] = buffer'[Slot(getPos', i)]
        BY ItemsSeqAfter DEF TakeElem
    <2>2. Slot(getPos', i) = Slot(getPos, i + 1) /\ i + 1 \in 1 .. numElem
        <3>1. /\ Length \in Nat /\ getPos \in 0 .. Length - 1
              /\ numElem \in 0 .. Length
            BY DEF QueueTypeOK, Slots
        <3>2. getPos' = IF getPos + 1 = Length THEN 0 ELSE getPos + 1
            BY DEF TakeElem, Advance
        <3> QED BY <3>1, <3>2 DEF Slot
    <2>3. Items[i + 1] = buffer[Slot(getPos, i + 1)]
        BY <2>2, ItemsSeq
    <2>4. Tail(Items)[i] = Items[i + 1]
        BY <1>1, <1>3, HeadTailProperties
    <2> QED BY <2>1, <2>2, <2>3, <2>4 DEF TakeElem
<1>5. Items' = Tail(Items)
    BY <1>2, <1>3, <1>4, SeqEqual
<1>6. Head(Items) = buffer[getPos]
    <2>1. 1 \in 1 .. numElem /\ Slot(getPos, 1) = getPos
        BY DEF isEmpty, QueueTypeOK, Slot, Slots
    <2> QED BY <2>1, <1>1, ItemsSeq
<1> QED BY <1>1, <1>5, <1>6 DEF Fifo!FifoGet, TakeElem

\* A section that leaves the ring alone is a stuttering step of the FIFO.
LEMMA RingUnchangedIsStutter ==
    ASSUME RingUnchanged
    PROVE  UNCHANGED Fifo!fifoVars
BY DEF RingUnchanged, Fifo!fifoVars, Items

\* Every step of the queue is a step of the FIFO or changes nothing there.
LEMMA NextIsFifoNext ==
    ASSUME QueueInv, QueueInv', [QueueNext]_queueVars
    PROVE  [Fifo!FifoNext]_(Fifo!fifoVars)
<1> USE DEF QueueInv, Fifo!FifoNext
<1>1. ASSUME NEW d \in Data, put(d) PROVE Fifo!FifoNext \/ UNCHANGED Fifo!fifoVars
    BY <1>1, StoreIsFifoPut, RingUnchangedIsStutter DEF put, BlockIn
<1>2. ASSUME waitUntilNotFull PROVE UNCHANGED Fifo!fifoVars
    BY <1>2, RingUnchangedIsStutter DEF waitUntilNotFull, BlockIn
<1>3. ASSUME get PROVE Fifo!FifoNext \/ UNCHANGED Fifo!fifoVars
    BY <1>3, TakeIsFifoGet, RingUnchangedIsStutter DEF get, BlockIn
<1>4. ASSUME waitUntilNotEmpty PROVE UNCHANGED Fifo!fifoVars
    BY <1>4, RingUnchangedIsStutter DEF waitUntilNotEmpty, BlockIn
<1>5. ASSUME NEW d \in Data, IRQput(d) PROVE Fifo!FifoNext \/ UNCHANGED Fifo!fifoVars
    BY <1>5, StoreIsFifoPut, RingUnchangedIsStutter DEF IRQput
<1>6. ASSUME IRQget PROVE Fifo!FifoNext \/ UNCHANGED Fifo!fifoVars
    BY <1>6, TakeIsFifoGet, RingUnchangedIsStutter DEF IRQget
<1>7. ASSUME IRQreset PROVE Fifo!FifoReset
    <2>1. Items' = <<>>
        BY <1>7, ItemsSeqAfter, EmptySeq DEF IRQreset
    <2> QED BY <1>7, <2>1 DEF IRQreset, Fifo!FifoReset
<1>8. ASSUME NEW t \in Users, SpuriousWakeup(t) PROVE UNCHANGED Fifo!fifoVars
    BY <1>8 DEF SpuriousWakeup, Fifo!fifoVars, Items
<1>9. ASSUME UNCHANGED queueVars PROVE UNCHANGED Fifo!fifoVars
    BY <1>9 DEF queueVars, Fifo!fifoVars, Items
<1> QED
    BY <1>1, <1>2, <1>3, <1>4, <1>5, <1>6, <1>7, <1>8, <1>9
    DEF QueueNext, PutCalls, GetCalls

\* Queue<T,len> is a bounded FIFO for every capacity: elements come out in
\* the order they went in, none lost, duplicated or overwritten.
THEOREM QueueImplementsFifo == QueueSpec => ImplementsFifo
<1>1. QueueInit => Fifo!FifoInit
    <2> SUFFICES ASSUME QueueInit PROVE Fifo!FifoInit
        OBVIOUS
    <2>1. QueueTypeOK
        BY InitQueueInv DEF QueueInv
    <2>2. Items = <<>>
        BY <2>1, ItemsSeq, EmptySeq DEF QueueInit
    <2> QED BY <2>2 DEF QueueInit, Fifo!FifoInit
<1> QED
    BY <1>1, NextIsFifoNext, QueueInvariant, PTL
    DEF QueueSpec, ImplementsFifo, Fifo!FifoSpec
=============================================================================
