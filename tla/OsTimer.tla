------------------------------ MODULE OsTimer ------------------------------
(***************************************************************************)
(* interfaces/os_timer.h, class TimerAdapter: a hardware timer of a few    *)
(* bits extended in software to a 64 bit clock ("the pending bit trick"),  *)
(* and the one interrupt the scheduler requests from it.                   *)
(*                                                                         *)
(* The hardware counts while the code runs: every access to a register is  *)
(* an action of its own.  All the code here runs with interrupts disabled  *)
(* or in the timer's interrupt routine, so there is one program counter.   *)
(* Times are in ticks; TimeConversion is not part of this module.          *)
(*                                                                         *)
(* upperTimeTick has its low bits clear, so | with the counter is +.       *)
(***************************************************************************)
EXTENDS Integers

CONSTANTS
    Period,         \* upperIncr = 2^bits, ticks before the counter wraps
    quirkAdvance,   \* minimum advance some timers need
    MaxTime         \* bound on time

ASSUME OsTimerAssumption ==
    /\ Period \in Nat \ {0, 1}
    /\ quirkAdvance \in Nat
    /\ MaxTime \in Nat

VARIABLES
    now,                 \* history: true number of ticks since boot
    counter,             \* hardware: counter register
    overflow,            \* hardware: overflow pending flag
    matchReg, matchFlag, \* hardware: match register and its pending flag
    forced,              \* hardware: interrupt forced pending
    upperTimeTick, upperIrqTick, lateIrq,
    pc,                  \* next register access, "off" when not in this code
    op,                  \* what IRQgetTimeTick() was called for
    ret,                 \* where that operation returns to
    firstRead,           \* "counter" in IRQgetTimeTick()
    result,              \* what IRQgetTimeTick() returned
    readAt,              \* history: now at the first read
    requested,           \* argument of the last IRQsetIrqTick()
    fired,               \* history: its interrupt reached the scheduler
    expired              \* history: the time of a request came since then

vars == <<now, counter, overflow, matchReg, matchFlag, forced, upperTimeTick,
          upperIrqTick, lateIrq, pc, op, ret, firstRead, result, readAt,
          requested, fired, expired>>
clock    == <<now, counter, overflow>>
irqRegs  == <<matchReg, matchFlag, forced, upperIrqTick, lateIrq>>
reading  == <<firstRead, result, readAt>>
request  == <<requested, fired, expired>>

Ticks == 0 .. MaxTime
Counts == 0 .. Period - 1
Places == {"off", "read", "flag", "read2", "got", "clearMatch", "kernel",
           "overflow", "addUpper"}

TypeOK ==
    /\ now \in Ticks
    /\ counter \in Counts
    /\ overflow \in BOOLEAN
    /\ matchReg \in Counts
    /\ matchFlag \in BOOLEAN
    /\ forced \in BOOLEAN
    /\ upperTimeTick \in Nat
    /\ upperIrqTick \in Nat
    /\ lateIrq \in BOOLEAN
    /\ pc \in Places
    /\ op \in {"get", "set", "irq"}
    /\ ret \in {"off", "kernel", "overflow"}
    /\ firstRead \in Counts
    /\ result \in Nat
    /\ readAt \in Nat
    /\ requested \in Nat
    /\ fired \in BOOLEAN
    /\ expired \in BOOLEAN

Init ==
    /\ now = 0 /\ counter = 0 /\ overflow = FALSE
    /\ matchReg = 0 /\ matchFlag = FALSE /\ forced = FALSE
    /\ upperTimeTick = 0 /\ upperIrqTick = 0 /\ lateIrq = FALSE
    /\ pc = "off" /\ op = "get" /\ ret = "off"
    /\ firstRead = 0 /\ result = 0 /\ readAt = 0
    /\ requested = 0 /\ fired = TRUE /\ expired = FALSE
-----------------------------------------------------------------------------
(* Hardware *)

Wrap(n) == IF n + 1 = Period THEN 0 ELSE n + 1

\* One tick.  "This algorithm imposes a limit on the maximum time interrupts
\* can be disabled, equal to one hardware timer period minus the time
\* between the two timer reads": no second overflow before the first is
\* served, and the two reads are less than a period apart.
HardwareTick ==
    /\ now < MaxTime
    /\ ~(overflow /\ counter = Period - 1)
    /\ pc \in {"flag", "read2"} => Wrap(counter) # firstRead
    /\ now' = now + 1
    /\ counter' = Wrap(counter)
    /\ overflow' = (overflow \/ counter = Period - 1)
    /\ matchFlag' = (matchFlag \/ Wrap(counter) = matchReg)
    /\ expired' = (expired \/ now + 1 = requested)
    /\ UNCHANGED <<matchReg, forced, upperTimeTick, upperIrqTick, lateIrq, pc,
                   op, ret, reading, requested, fired>>
-----------------------------------------------------------------------------
(* IRQgetTimeTick() *)

IRQgetIrqTick == upperIrqTick + matchReg

\* getTime() by a thread, or IRQgetTime() by the scheduler in the handler.
IRQgetTimeTick ==
    /\ pc \in {"off", "kernel"}
    /\ pc' = "read" /\ op' = "get" /\ ret' = pc
    /\ UNCHANGED <<clock, irqRegs, upperTimeTick, reading, request>>

ReadCounter ==
    /\ pc = "read"
    /\ firstRead' = counter
    /\ readAt' = now
    /\ pc' = "flag"
    /\ UNCHANGED <<clock, irqRegs, upperTimeTick, op, ret, result, request>>

\* Mutant: the overflow flag alone decides, without the second read.
ReadOverflowFlag_NoSecondRead ==
    /\ pc = "flag"
    /\ pc' = "got"
    /\ result' = upperTimeTick + firstRead + IF overflow THEN Period ELSE 0
    /\ UNCHANGED <<clock, irqRegs, upperTimeTick, op, ret, firstRead, readAt, request>>

ReadOverflowFlag ==
    /\ pc = "flag"
    /\ pc' = IF overflow THEN "read2" ELSE "got"
    /\ result' = upperTimeTick + firstRead
    /\ UNCHANGED <<clock, irqRegs, upperTimeTick, op, ret, firstRead, readAt, request>>

ReadCounterAgain ==
    /\ pc = "read2"
    /\ pc' = "got"
    /\ result' = upperTimeTick + firstRead + IF counter >= firstRead THEN Period ELSE 0
    /\ UNCHANGED <<clock, irqRegs, upperTimeTick, op, ret, firstRead, readAt, request>>

ReturnTime ==
    /\ pc = "got" /\ op = "get"
    /\ pc' = ret
    /\ UNCHANGED <<clock, irqRegs, upperTimeTick, op, ret, reading, request>>
-----------------------------------------------------------------------------
(* IRQsetIrqTick() *)

upper(tick) == (tick \div Period) * Period      \* tick & upperMask

lower(tick) == tick % Period                    \* tick & lowerMask

\* Sets the match register; called with interrupts disabled, or by the
\* scheduler from the handler.
IRQsetIrqTick(tick) ==
    LET tick2 == tick + quirkAdvance
    IN  /\ pc \in {"off", "kernel"}
        /\ upperIrqTick' = upper(tick2)
        /\ matchReg' = lower(tick2)
        /\ requested' = tick
        /\ fired' = FALSE
        /\ expired' = (expired \/ now >= tick)
        /\ pc' = "read" /\ op' = "set"
        /\ ret' = IF pc = "off" THEN "off" ELSE "overflow"
        /\ UNCHANGED <<clock, matchFlag, forced, upperTimeTick, lateIrq, reading>>

\* Mutant: a request already in the past is not noticed.
CheckLate_Never ==
    /\ pc = "got" /\ op = "set"
    /\ pc' = ret
    /\ UNCHANGED <<clock, upperTimeTick, irqRegs, op, ret, reading, request>>

\* "if(IRQgetTimeTick() >= tick)": the match may have been missed.
CheckLate ==
    /\ pc = "got" /\ op = "set"
    /\ pc' = ret
    /\ forced' = (forced \/ result >= requested)
    /\ lateIrq' = (lateIrq \/ result >= requested)
    /\ UNCHANGED <<clock, upperTimeTick, matchReg, matchFlag, upperIrqTick, op,
                   ret, reading, request>>
-----------------------------------------------------------------------------
(* IRQhandler() *)

IrqPending == overflow \/ matchFlag \/ forced

IRQhandler ==
    /\ pc = "off" /\ IrqPending
    /\ forced' = FALSE
    /\ pc' = IF matchFlag \/ lateIrq THEN "clearMatch" ELSE "overflow"
    /\ UNCHANGED <<clock, upperTimeTick, matchReg, matchFlag, upperIrqTick,
                   lateIrq, op, ret, reading, request>>

ClearMatchFlag ==
    /\ pc = "clearMatch"
    /\ matchFlag' = FALSE
    /\ pc' = "read" /\ op' = "irq" /\ ret' = "overflow"
    /\ UNCHANGED <<clock, upperTimeTick, matchReg, forced, upperIrqTick, lateIrq,
                   reading, request>>

\* Mutant: the upper bits of the request are ignored.
CallScheduler_AnyMatch ==
    /\ pc = "got" /\ op = "irq"
    /\ lateIrq' = FALSE
    /\ fired' = TRUE /\ expired' = FALSE
    /\ pc' = "kernel"
    /\ UNCHANGED <<clock, upperTimeTick, matchReg, matchFlag, forced,
                   upperIrqTick, op, ret, reading, requested>>

\* IRQtimerInterrupt() is called if the requested time has come.
CallScheduler ==
    /\ pc = "got" /\ op = "irq"
    /\ IF result >= IRQgetIrqTick \/ lateIrq
       THEN /\ lateIrq' = FALSE
            /\ fired' = TRUE /\ expired' = FALSE
            /\ pc' = "kernel"
       ELSE pc' = "overflow" /\ UNCHANGED <<lateIrq, fired, expired>>
    /\ UNCHANGED <<clock, upperTimeTick, matchReg, matchFlag, forced,
                   upperIrqTick, op, ret, reading, requested>>

\* IRQtimerInterrupt() returns without asking for another interrupt.
SchedulerReturns ==
    /\ pc = "kernel"
    /\ pc' = "overflow"
    /\ UNCHANGED <<clock, upperTimeTick, irqRegs, op, ret, reading, request>>

ClearOverflowFlag ==
    /\ pc = "overflow"
    /\ pc' = IF overflow THEN "addUpper" ELSE "off"
    /\ overflow' = FALSE
    /\ UNCHANGED <<now, counter, upperTimeTick, irqRegs, op, ret, reading, request>>

AddUpper ==
    /\ pc = "addUpper"
    /\ upperTimeTick' = upperTimeTick + Period
    /\ pc' = "off"
    /\ UNCHANGED <<clock, irqRegs, op, ret, reading, request>>
-----------------------------------------------------------------------------
(* IRQsetTimeNs(), with the timer stopped: nothing ticks meanwhile. *)

IRQsetTimeNs(tick) ==
    LET oldTick     == upperTimeTick + counter + IF overflow THEN Period ELSE 0
        nextIrqTick == IRQgetIrqTick
        tick2       == nextIrqTick + quirkAdvance
    IN  /\ pc = "off"
        /\ tick > oldTick
        /\ now' = tick
        /\ upperTimeTick' = upper(tick)
        /\ counter' = lower(tick)
        /\ overflow' = FALSE
        /\ IF nextIrqTick > oldTick
           THEN /\ upperIrqTick' = upper(tick2)
                /\ matchReg' = lower(tick2)
                /\ forced' = (forced \/ tick >= nextIrqTick)
                /\ lateIrq' = (lateIrq \/ tick >= nextIrqTick)
           ELSE UNCHANGED <<upperIrqTick, matchReg, forced, lateIrq>>
        /\ expired' = (expired \/ requested \in now + 1 .. tick)
        /\ UNCHANGED <<matchFlag, pc, op, ret, reading, requested, fired>>

CpuStep ==
    \/ ReadCounter \/ ReadOverflowFlag \/ ReadCounterAgain \/ ReturnTime
    \/ CheckLate \/ ClearMatchFlag \/ CallScheduler \/ SchedulerReturns
    \/ ClearOverflowFlag \/ AddUpper

Next ==
    \/ HardwareTick
    \/ CpuStep
    \/ IRQhandler
    \/ IRQgetTimeTick
    \/ \E tick \in Ticks : IRQsetIrqTick(tick) \/ IRQsetTimeNs(tick)

Spec == Init /\ [][Next]_vars

-----------------------------------------------------------------------------
(* Properties *)

\* The clock in software and hardware together is the true time, counting
\* the overflow flag as a bit, or the increment the handler is about to make.
ClockConsistent ==
    now = upperTimeTick + counter
          + (IF overflow THEN Period ELSE 0)
          + (IF pc = "addUpper" THEN Period ELSE 0)

\* IRQgetTimeTick() returns the true time of its first read, wherever the
\* counter wraps between its three register reads.
TimeReadIsExact == pc = "got" => result = readAt

\* IRQtimerInterrupt() is called for a request only if its time, or that of
\* an earlier request since the last call, has come: a match in the wrong
\* period is never taken for the requested one.  (lateIrq is not cleared by a
\* new request, so an expired request is still served after it is replaced.)
NeverEarly == [][fired' /\ ~fired => expired]_vars

\* Once the requested time (and the quirk) has come, the interrupt is
\* pending or the handler is on its way to deliver it.
InterruptNotLost ==
    (pc = "off" /\ ~fired /\ now >= IRQgetIrqTick)
    => matchFlag \/ (lateIrq /\ forced)

=============================================================================
