------------------------------ MODULE TimerMgr ------------------------------
(***************************************************************************)
(* The timer manager (class TimerMgr) as operators on ts, the vector       *)
(* m_timers. A slot is allocated to a holder, the operation whose member   *)
(* Timer keeps its index, under the name of that member; the callback and  *)
(* its data are fixed by the two. active stands for m_timeoutCb # nullptr. *)
(***************************************************************************)
EXTENDS Integers, Sequences, FiniteSets

\* TimerInfo(), a slot that is not allocated.
NoHolder == 0
FreeSlot == [holder |-> NoHolder, name |-> "none", active |-> FALSE, ms |-> 0, suspended |-> FALSE]

Slots(ts) == DOMAIN ts

Least(S) == CHOOSE x \in S : \A y \in S : x <= y

\* Mutant of AllocTimer: the slots that were freed are not used again.
AllocTimerAtEnd(ts, holder, name) ==
    Append(ts, [FreeSlot EXCEPT !.holder = holder, !.name = name])

\* The first slot that is free, or one more.
AllocTimer(ts, holder, name) ==
    LET free == {i \in Slots(ts) : ts[i].holder = NoHolder}
        slot == [FreeSlot EXCEPT !.holder = holder, !.name = name]
    IN  IF free = {} THEN Append(ts, slot) ELSE [ts EXCEPT ![Least(free)] = slot]

\* The index kept by the Timer object.
SlotOf(ts, holder, name) == CHOOSE i \in Slots(ts) : ts[i].holder = holder /\ ts[i].name = name

\* ~Timer of every timer of an operation that is destroyed.
FreeTimers(ts, holder) ==
    [i \in Slots(ts) |-> IF ts[i].holder = holder THEN FreeSlot ELSE ts[i]]

\* A wait does not lift a suspension.
TimerWait(ts, holder, name, ms) ==
    [ts EXCEPT ![SlotOf(ts, holder, name)].active = TRUE, ![SlotOf(ts, holder, name)].ms = ms]

Stopped(slot) == [slot EXCEPT !.active = FALSE, !.ms = 0]

TimerCancel(ts, holder, name) == [ts EXCEPT ![SlotOf(ts, holder, name)] = Stopped(@)]

TimerIsActive(ts, holder, name) == ts[SlotOf(ts, holder, name)].active

\* Timer::setSuspended, which leaves an inactive timer alone.
TimerSetSuspended(ts, holder, name, suspended) ==
    [ts EXCEPT ![SlotOf(ts, holder, name)].suspended = IF TimerIsActive(ts, holder, name) THEN suspended ELSE @]

\* The slots that time runs for.
Running(ts) == {i \in Slots(ts) : ts[i].holder # NoHolder /\ ts[i].active /\ ~ts[i].suspended}

\* The first loop of tick: the slots whose callbacks are collected...
Expiring(ts, ms) == {i \in Running(ts) : ts[i].ms <= ms}

\* ... and what it makes of the slots.
Ticked(ts, ms) ==
    [i \in Slots(ts) |->
        CASE i \in Expiring(ts, ms) -> Stopped(ts[i])
          [] i \in Running(ts) \ Expiring(ts, ms) -> [ts[i] EXCEPT !.ms = @ - ms]
          [] OTHER -> ts[i]]

\* Zero stands for nothing to wait for, and also for a timer that is due.
GetMinWait(ts) == IF Running(ts) = {} THEN 0 ELSE Least({ts[i].ms : i \in Running(ts)})

\* A set of slots in the order the loop meets them.
InSlotOrder(S) ==
    [n \in 1..Cardinality(S) |-> CHOOSE i \in S : Cardinality({j \in S : j < i}) = n - 1]

=============================================================================
