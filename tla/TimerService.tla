---------------------------- MODULE TimerService ----------------------------
(***************************************************************************)
(* What MainLoop promises the users of its timers, without lists,          *)
(* iterators and flags: a set of pending timers, at most one of which is   *)
(* being executed; execution in the order of time, and of scheduling for   *)
(* equal times; never earlier than the tolerance allows; once per          *)
(* scheduling; and only the timer being executed may rearm itself.         *)
(***************************************************************************)
EXTENDS Integers

CONSTANT MaxCoalescing  \* upper limit for honouring a tolerance

VARIABLES
  now,      \* the clock
  pending,  \* the timers scheduled and not yet executed or cancelled
  active,   \* ticket of the timer being executed, 0 if none is
  last      \* number of the last scheduling

vars == <<now, pending, active, last>>

Init == now = 1 /\ pending = {} /\ active = 0 /\ last = 0

Tolerated(t) == IF t.tol < MaxCoalescing THEN t.tol ELSE MaxCoalescing

Before(t, u) == t.at < u.at \/ (t.at = u.at /\ t.ord < u.ord)

Tick == now' > now /\ UNCHANGED <<pending, active, last>>

\* Application code cancels timers.
Withdraw == pending' \subseteq pending /\ UNCHANGED <<now, active, last>>

\* The timer that is in pending after a step and was scheduled by it.
Scheduled(t) ==
  /\ t \in pending'
  /\ t.ord = last + 1 /\ last' = last + 1
  /\ pending' \ {t} \subseteq pending
  /\ \A u \in pending' \ {t} : u.ticket # t.ticket

\* Application code schedules a timer, possibly in place of others.
Schedule ==
  /\ \E t \in pending' : Scheduled(t) /\ t.ticket # active
  /\ UNCHANGED <<now, active>>

\* The first timer due is executed.
Execute ==
  /\ active = 0
  /\ \E t \in pending :
       /\ t.at - Tolerated(t) <= now
       /\ \A u \in pending \ {t} : Before(t, u)
       /\ pending' = pending \ {t}
       /\ active' = t.ticket
  /\ UNCHANGED <<now, last>>

\* The executed timer is done, or rearmed itself.
Finish ==
  /\ active # 0 /\ active' = 0
  /\ \/ UNCHANGED <<pending, last>>
     \/ /\ pending \subseteq pending'
        /\ \E t \in pending' : Scheduled(t) /\ t.ticket = active
  /\ UNCHANGED now

Next == Tick \/ Withdraw \/ Schedule \/ Execute \/ Finish

Spec == Init /\ [][Next]_vars

=============================================================================
