--------------------------- MODULE MainLoopTimers ---------------------------
(***************************************************************************)
(* The timer service of p44::MainLoop (src/mainloop.cpp): the time-sorted  *)
(* list mTimers, the MLTicket objects through which application code owns  *)
(* its timers, and checkTimers(), which walks the list with an iterator    *)
(* while the callbacks it runs schedule, cancel, reschedule and retrigger  *)
(* timers in that same list.                                               *)
(*                                                                         *)
(* Application code runs in three situations: outside checkTimers (an I/O  *)
(* or wait handler), inside a timer callback, and in destructors that run  *)
(* when the copy of the executed timer goes out of scope.  phase says      *)
(* which; single-threadedness is the reason why nothing else interleaves.  *)
(***************************************************************************)
EXTENDS Integers, Sequences, FiniteSets, SequencesExt

CONSTANTS
  Owners,         \* objects that own an MLTicket
  Nobody,         \* stands for the owner of a timer without a ticket
  MaxRun,         \* mMaxRun, the time budget of one checkTimers() call
  MaxCoalescing,  \* mMaxCoalescing, upper limit for honouring a tolerance
  Delays,         \* delays and intervals application code asks for
  Tolerances,     \* tolerances application code asks for
  Skips,          \* aSkip arguments application code passes to retriggerTimer
  MaxTime,        \* bound: the clock stops here
  MaxSchedules    \* bound: number of scheduleTimer() calls

ASSUME ConstantsAssumption ==
  /\ Nobody \notin Owners
  /\ MaxRun \in Nat /\ MaxCoalescing \in Nat
  /\ Delays \subseteq Nat /\ Tolerances \subseteq Nat
  /\ Skips \subseteq {i \in Int : i >= -3}
  /\ MaxTime \in Nat /\ MaxSchedules \in Nat

Never == 0
NoTicket == 0

\* the aSkip special values of retriggerTimer()
from_now_if_late == -1
from_now == -2
absolute == -3

VARIABLES
  now,            \* MainLoop::now()
  timers,         \* mTimers
  timersChanged,  \* mTimersChanged
  lastTicket,     \* mTicketNo of the mainloop, the ticket handed out last
  held,           \* mTicketNo of every owner's MLTicket
  phase,          \* "app", "loop", "callback" or "dtor"
  pos,            \* iterator: the ticket of the timer it is at, NoTicket at end()
  running,        \* runningTimer, the copy of the timer being executed
  reinsert,       \* mReinsert of that copy
  nextTimer,      \* nextTimer, the result of checkTimers()
  runUntil,       \* runUntilMax
  terminated,     \* mTerminated
  scheduled,      \* history: number of scheduleTimer() calls so far
  cancelled,      \* history: tickets cancel() was called for
  selfCancelled,  \* history: those cancelled while their own callback was running
  defused         \* history: tickets taken out of their MLTicket by defuse()

listVars == <<timers, timersChanged, lastTicket, held>>
scanVars == <<phase, pos, running, reinsert, nextTimer, runUntil>>
historyVars == <<scheduled, cancelled, selfCancelled, defused>>
vars == <<now, listVars, scanVars, terminated, historyVars>>

(***************************************************************************)
(* A timer.  ord and want are history: ord numbers the scheduleTimer()     *)
(* calls, want is the tolerance application code asked for last.           *)
(***************************************************************************)
Timer == [ticket : Nat, owner : Owners \cup {Nobody}, at : Nat, tol : Nat,
          ord : Nat, want : Nat]

NoTimer == [ticket |-> NoTicket, owner |-> Nobody, at |-> 0, tol |-> 0,
            ord |-> 0, want |-> 0]

Least(a, b) == IF a < b THEN a ELSE b

TypeOK ==
  /\ now \in Nat
  /\ timers \in Seq(Timer)
  /\ timersChanged \in BOOLEAN
  /\ lastTicket \in Nat
  /\ held \in [Owners -> Nat]
  /\ phase \in {"app", "loop", "callback", "dtor"}
  /\ pos \in Nat
  /\ running \in Timer
  /\ reinsert \in BOOLEAN
  /\ nextTimer \in Nat
  /\ runUntil \in Nat
  /\ terminated \in BOOLEAN
  /\ scheduled \in Nat
  /\ cancelled \subseteq Nat
  /\ selfCancelled \subseteq Nat
  /\ defused \subseteq Nat

Init ==
  /\ now = 1
  /\ timers = <<>> /\ timersChanged = FALSE
  /\ lastTicket = 0 /\ held = [o \in Owners |-> NoTicket]
  /\ phase = "app" /\ pos = NoTicket
  /\ running = NoTimer /\ reinsert = FALSE
  /\ nextTimer = Never /\ runUntil = 0
  /\ terminated = FALSE
  /\ scheduled = 0 /\ cancelled = {} /\ selfCancelled = {} /\ defused = {}

-----------------------------------------------------------------------------
(* The list *)

IndicesOf(list, n) == {i \in DOMAIN list : list[i].ticket = n}

Mutant_ScheduleTimer_NotStable(list, t) ==
  LET later == {i \in DOMAIN list : list[i].at >= t.at}
  IN  IF later # {} THEN InsertAt(list, Min(later), t) ELSE Append(list, t)

\* The list after scheduleTimer(t): before the first timer with a later time.
ScheduleTimer(list, t) ==
  LET later == {i \in DOMAIN list : list[i].at > t.at}
  IN  IF list # <<>> /\ t.at < list[Len(list)].at
        THEN InsertAt(list, Min(later), t)
        ELSE Append(list, t)

\* The list after erasing the timer with ticket n, if there is one.
Erase(list, n) ==
  IF IndicesOf(list, n) = {} THEN list ELSE RemoveAt(list, Min(IndicesOf(list, n)))

\* retriggerTimer() called at time `time': the timer copy and its mReinsert.
Retriggered(t, re, interval, tol, skip, time) ==
  LET again(when) ==
        [timer |-> [t EXCEPT !.at = when, !.tol = tol, !.want = tol], reinsert |-> TRUE]
      inTime == {k \in 1..(skip + 1) : t.at + k * interval >= time}
  IN  CASE skip = absolute ->
             again(IF interval < time + tol THEN time ELSE interval)
        [] skip = from_now_if_late ->
             again(IF t.at + interval + tol < time THEN time + interval ELSE t.at + interval)
        [] skip = from_now ->
             again(time + interval)
        [] OTHER ->
             IF inTime # {}
               THEN again(t.at + Min(inTime) * interval)
               ELSE [again(t.at + (skip + 1) * interval) EXCEPT !.reinsert = re]

-----------------------------------------------------------------------------
(* What application code does *)

AppCode == phase \in {"app", "callback"}
CanSchedule == scheduled < MaxSchedules

\* History of cancel() being called for the ticket o holds.
NoteCancelled(o) ==
  /\ cancelled' = cancelled \cup ({held[o]} \ {NoTicket})
  /\ selfCancelled' = selfCancelled \cup
       (IF phase = "callback" /\ held[o] = running.ticket THEN {held[o]} ELSE {})
  /\ UNCHANGED defused

NewTimer(o, when, tol) ==
  [ticket |-> lastTicket + 1, owner |-> o, at |-> when, tol |-> tol,
   ord |-> scheduled + 1, want |-> tol]

Mutant_ExecuteOnceAt_KeepsOldTimer(o, when, tol) ==
  /\ AppCode /\ CanSchedule
  /\ timers' = ScheduleTimer(timers, NewTimer(o, when, tol))
  /\ timersChanged' = TRUE
  /\ lastTicket' = lastTicket + 1
  /\ held' = [held EXCEPT ![o] = lastTicket + 1]
  /\ scheduled' = scheduled + 1
  /\ UNCHANGED <<now, scanVars, terminated, cancelled, selfCancelled, defused>>

\* ticket.executeOnceAt() / executeOnce(): cancels the ticket, then schedules.
ExecuteOnceAt(o, when, tol) ==
  /\ AppCode /\ CanSchedule
  /\ timers' = ScheduleTimer(Erase(timers, held[o]), NewTimer(o, when, tol))
  /\ timersChanged' = TRUE
  /\ lastTicket' = lastTicket + 1
  /\ held' = [held EXCEPT ![o] = lastTicket + 1]
  /\ NoteCancelled(o)
  /\ scheduled' = scheduled + 1
  /\ UNCHANGED <<now, scanVars, terminated>>

\* executeNow(): the one way to schedule without a ticket.
ExecuteNow ==
  /\ AppCode /\ CanSchedule
  /\ timers' = ScheduleTimer(timers, NewTimer(Nobody, now, 0))
  /\ timersChanged' = TRUE
  /\ lastTicket' = lastTicket + 1
  /\ scheduled' = scheduled + 1
  /\ UNCHANGED <<now, held, scanVars, terminated, cancelled, selfCancelled, defused>>

\* ticket.cancel(), also what the destructor of the ticket's owner does.
Cancel(o) ==
  /\ phase \in {"app", "callback", "dtor"}
  /\ held[o] # NoTicket
  /\ timers' = Erase(timers, held[o])
  /\ timersChanged' = (timersChanged \/ IndicesOf(timers, held[o]) # {})
  /\ held' = [held EXCEPT ![o] = NoTicket]
  /\ NoteCancelled(o)
  /\ UNCHANGED <<now, lastTicket, scanVars, terminated, scheduled>>

\* ticket.defuse(): the timer stays, the ticket forgets it.
Defuse(o) ==
  /\ AppCode
  /\ held[o] # NoTicket
  /\ held' = [held EXCEPT ![o] = NoTicket]
  /\ defused' = defused \cup {held[o]}
  /\ UNCHANGED <<now, timers, timersChanged, lastTicket, scanVars, terminated,
                 scheduled, cancelled, selfCancelled>>

\* ticket.reschedule(): moves a pending timer; the tolerance asked for is not
\* stored in the timer, which keeps the one it had.
RescheduleAt(o, when, tol) ==
  /\ AppCode /\ CanSchedule
  /\ held[o] # NoTicket
  /\ \E i \in IndicesOf(timers, held[o]) :
       timers' = ScheduleTimer(RemoveAt(timers, i),
                   [timers[i] EXCEPT !.at = when, !.ord = scheduled + 1, !.want = tol])
  /\ timersChanged' = TRUE
  /\ scheduled' = scheduled + 1
  /\ UNCHANGED <<now, lastTicket, held, scanVars, terminated, cancelled,
                 selfCancelled, defused>>

Terminate ==
  /\ AppCode
  /\ terminated' = TRUE
  /\ UNCHANGED <<now, listVars, scanVars, historyVars>>

\* retriggerTimer(aTimer, ...), called from the callback of that timer.
Retrigger(interval, tol, skip) ==
  LET r == Retriggered(running, reinsert, interval, tol, skip, now) IN
  /\ phase = "callback" /\ CanSchedule
  /\ r.timer.at <= MaxTime + 1
  /\ running' = r.timer
  /\ reinsert' = r.reinsert
  /\ UNCHANGED <<now, listVars, phase, pos, nextTimer, runUntil, terminated, historyVars>>

-----------------------------------------------------------------------------
(* checkTimers() *)

Begin(list) == IF list = <<>> THEN NoTicket ELSE list[1].ticket

\* The position of the iterator, for a pos that is not at end().
PosIndex == CHOOSE i \in DOMAIN timers : timers[i].ticket = pos

\* The time from which the coalescing tolerance allows to run timer t.
EarliestRun(t) == t.at - Least(t.tol, MaxCoalescing)

BeginCheck ==
  /\ phase = "app"
  /\ phase' = "loop"
  /\ nextTimer' = Never
  /\ runUntil' = now + MaxRun
  /\ pos' = Begin(timers)
  /\ timersChanged' = FALSE
  /\ UNCHANGED <<now, timers, lastTicket, held, running, reinsert, terminated, historyVars>>

\* The while loop ended because of a change: the do loop starts over.
Rescan ==
  /\ phase = "loop" /\ timersChanged
  /\ nextTimer' = Never
  /\ pos' = Begin(timers)
  /\ timersChanged' = FALSE
  /\ UNCHANGED <<now, timers, lastTicket, held, phase, running, reinsert, runUntil,
                 terminated, historyVars>>

\* checkTimers returns: its locals are gone, its result is nextTimer.
Leave(next) ==
  /\ phase' = "app"
  /\ nextTimer' = next
  /\ pos' = NoTicket /\ runUntil' = 0
  /\ UNCHANGED <<now, listVars, running, reinsert, terminated, historyVars>>

AtTimer == phase = "loop" /\ ~timersChanged /\ pos # NoTicket

\* The iterator has reached the end of the list.
ListProcessed ==
  /\ phase = "loop" /\ ~timersChanged /\ pos = NoTicket
  /\ Leave(nextTimer)

Mutant_NotReady_ReportsNever ==
  /\ AtTimer
  /\ EarliestRun(timers[PosIndex]) > now
  /\ Leave(Never)

Mutant_NotReady_TooStrict ==
  /\ AtTimer
  /\ timers[PosIndex].at >= now
  /\ Leave(timers[PosIndex].at)

NotReady ==
  /\ AtTimer
  /\ EarliestRun(timers[PosIndex]) > now
  /\ Leave(timers[PosIndex].at)

RanTooLong ==
  /\ AtTimer
  /\ EarliestRun(timers[PosIndex]) <= now
  /\ now > runUntil
  /\ Leave(timers[PosIndex].at)

StoppedByTerminate ==
  /\ AtTimer
  /\ EarliestRun(timers[PosIndex]) <= now
  /\ now <= runUntil
  /\ terminated
  /\ Leave(Never)

\* The timer at pos is taken off the list and its callback is called.
Fire ==
  /\ AtTimer
  /\ EarliestRun(timers[PosIndex]) <= now
  /\ now <= runUntil
  /\ ~terminated
  /\ nextTimer' = timers[PosIndex].at
  /\ running' = timers[PosIndex]
  /\ reinsert' = FALSE
  /\ pos' = IF PosIndex = Len(timers) THEN NoTicket ELSE timers[PosIndex + 1].ticket
  /\ timers' = RemoveAt(timers, PosIndex)
  /\ phase' = "callback"
  /\ UNCHANGED <<now, timersChanged, lastTicket, held, runUntil, terminated, historyVars>>

Mutant_Return_ReinsertsUnflagged ==
  /\ phase = "callback"
  /\ phase' = "dtor"
  /\ IF reinsert
       THEN /\ timers' = ScheduleTimer(timers, [running EXCEPT !.ord = scheduled + 1])
            /\ scheduled' = scheduled + 1
       ELSE UNCHANGED <<timers, scheduled>>
  /\ UNCHANGED <<now, timersChanged, lastTicket, held, pos, running, reinsert, nextTimer,
                 runUntil, terminated, cancelled, selfCancelled, defused>>

\* The callback returns; a retriggered timer goes back into the list.
Return ==
  /\ phase = "callback"
  /\ phase' = "dtor"
  /\ IF reinsert
       THEN /\ timers' = ScheduleTimer(timers, [running EXCEPT !.ord = scheduled + 1])
            /\ timersChanged' = TRUE
            /\ scheduled' = scheduled + 1
       ELSE UNCHANGED <<timers, timersChanged, scheduled>>
  /\ UNCHANGED <<now, lastTicket, held, pos, running, reinsert, nextTimer, runUntil,
                 terminated, cancelled, selfCancelled, defused>>

\* runningTimer goes out of scope; the while condition is evaluated next.
EndScope ==
  /\ phase = "dtor"
  /\ phase' = "loop"
  /\ running' = NoTimer
  /\ reinsert' = FALSE
  /\ UNCHANGED <<now, listVars, pos, nextTimer, runUntil, terminated, historyVars>>

\* finalizeMainLoop() clears the list without touching tickets and flag.
Finalize ==
  /\ phase = "app" /\ terminated
  /\ timers' = <<>>
  /\ UNCHANGED <<now, timersChanged, lastTicket, held, scanVars, terminated, historyVars>>

\* run(true) starts a terminated mainloop again.
Restart ==
  /\ phase = "app" /\ terminated
  /\ terminated' = FALSE
  /\ UNCHANGED <<now, listVars, scanVars, historyVars>>

Advance ==
  /\ now < MaxTime
  /\ now' = now + 1
  /\ UNCHANGED <<listVars, scanVars, terminated, historyVars>>

-----------------------------------------------------------------------------

AppStep ==
  \/ \E o \in Owners, d \in Delays, tol \in Tolerances :
       ExecuteOnceAt(o, now + d, tol) \/ RescheduleAt(o, now + d, tol)
  \/ \E o \in Owners : Cancel(o) \/ Defuse(o)
  \/ \E interval \in Delays, tol \in Tolerances, skip \in Skips :
       Retrigger(IF skip = absolute THEN now + interval ELSE interval, tol, skip)
  \/ ExecuteNow
  \/ Terminate

CheckTimers ==
  \/ BeginCheck \/ Rescan \/ ListProcessed \/ NotReady \/ RanTooLong
  \/ StoppedByTerminate \/ Fire \/ Return \/ EndScope

Next == AppStep \/ CheckTimers \/ Finalize \/ Restart \/ Advance

Spec == Init /\ [][Next]_vars

\* The mainloop keeps calling checkTimers(), callbacks return, time passes.
FairSpec == Spec /\ WF_vars(CheckTimers) /\ WF_vars(Advance)

-----------------------------------------------------------------------------
(* Properties *)

\* The list is sorted by execution time, and timers for the same time are in
\* the order in which they were scheduled (scheduleTimer's insert position).
TimersSorted ==
  \A i, j \in DOMAIN timers : i < j =>
    \/ timers[i].at < timers[j].at
    \/ timers[i].at = timers[j].at /\ timers[i].ord < timers[j].ord

\* checkTimers' iterator: unless a change is flagged, which ends the loop
\* before the iterator is used again, it is at the first timer of the list.
\* It never is at an erased timer nor past one inserted while callbacks ran.
ScanAtHead ==
  phase # "app" /\ ~timersChanged => pos = Begin(timers)

\* A ticket number names at most one timer, the one being executed included.
TicketsUnique ==
  /\ \A i, j \in DOMAIN timers : timers[i].ticket = timers[j].ticket => i = j
  /\ phase = "callback" => \A i \in DOMAIN timers : timers[i].ticket # running.ticket

\* What checkTimers() relies on while callbacks change the list under it.
ListIsConsistent == TypeOK /\ TimersSorted /\ ScanAtHead /\ TicketsUnique

\* Once a ticket was cancelled its timer is gone for good, except when the
\* callback of that very timer cancels it.
CancelledStaysCancelled ==
  \A i \in DOMAIN timers : timers[i].ticket \in cancelled => timers[i].ticket \in selfCancelled

\* The rule the private part of MainLoop is there for: a cancelled timer, be it
\* by its own callback, is not in the list of timers to run.
CancelIsFinal ==
  phase # "callback" => \A i \in DOMAIN timers : timers[i].ticket \notin cancelled

\* Every pending timer scheduled with a ticket can be cancelled through the
\* MLTicket of its owner, unless that was defused (or cancelled too early).
TimersAreOwned ==
  \A i \in DOMAIN timers :
    LET t == timers[i] IN
    t.owner # Nobody =>
      held[t.owner] = t.ticket \/ t.ticket \in defused \cup selfCancelled

\* Tickets control their timers: a cancelled one does not run any more, and
\* every pending one can be cancelled by its owner.
TicketsControlTimers == CancelledStaysCancelled /\ TimersAreOwned

\* A callback is called no earlier than the timer's time less its tolerance,
\* and only when no other timer of the list would be due before it.
FiresInOrder ==
  [][Fire => /\ now + Least(running'.tol, MaxCoalescing) >= running'.at
             /\ \A i \in DOMAIN timers' : running'.at <= timers'[i].at]_vars

\* The same with the tolerance application code asked for last.
FiresWithinAskedTolerance ==
  [][Fire => now + running'.want >= running'.at]_vars

\* checkTimers reports when it must be called again: never later than the
\* first pending timer, and Never only when there is none.
ReportsNextTimer ==
  [][phase = "loop" /\ phase' = "app" /\ ~terminated /\ timers' # <<>> =>
       nextTimer' # Never /\ nextTimer' <= timers'[1].at]_vars

\* checkTimers leaves no timer behind whose time has come, unless it was
\* interrupted by its time budget or by terminate().
NothingDueLeftBehind ==
  [][phase = "loop" /\ phase' = "app" /\ ~terminated /\ now <= runUntil =>
       \A i \in DOMAIN timers' : timers'[i].at > now]_vars

\* Callbacks run on time: not too early, in order, none overlooked by a complete
\* round, and the next round is asked for in time.
CallbacksAreOnTime == FiresInOrder /\ ReportsNextTimer /\ NothingDueLeftBehind

\* The list with its iterator implements the abstract timer service.
Pending == {timers[i] : i \in DOMAIN timers}

Service == INSTANCE TimerService WITH
  pending <- Pending,
  active <- IF phase = "callback" THEN running.ticket ELSE NoTicket,
  last <- scheduled

ImplementsTimerService == Service!Spec

\* A pending timer whose time comes is executed, cancelled, moved or dropped
\* by the end of the mainloop, however callbacks change the list meanwhile.
DueTimersFire ==
  \A n \in 1..(MaxSchedules + 1) :
    (\E i \in DOMAIN timers : timers[i].ord = n /\ timers[i].at <= MaxTime) ~>
      (terminated \/ \A i \in DOMAIN timers : timers[i].ord # n)

=============================================================================
