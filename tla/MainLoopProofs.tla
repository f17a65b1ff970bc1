--------------------------- MODULE MainLoopProofs ---------------------------
(***************************************************************************)
(* Proofs about the mainloop, for every value of the constants.            *)
(*                                                                         *)
(* MainLoopTimers: the inductive invariant says of the list as a whole     *)
(* what GoodList says, and of every timer, pending or being executed, what *)
(* Known says.                                                             *)
(*                                                                         *)
(* MainLoopCycle: the wait for a child ends once, with the status of that  *)
(* child; and a loop that waits for no children does not sleep past a      *)
(* timer.                                                                  *)
(*                                                                         *)
(* ChildThread: the invariant says who may touch the slot: the child that  *)
(* executes what is in it, the parent that answers a call, or the thread   *)
(* that waits for it to be emptied.                                        *)
(***************************************************************************)
EXTENDS MainLoopTimers, MainLoopCycle, ChildThread, ListLemmas

Elems(list) == {list[i] : i \in DOMAIN list}

\* Sorted by time and order of scheduling, tickets unique, orders up to n.
GoodList(list, n) ==
  /\ \A i, j \in DOMAIN list : i < j =>
       \/ list[i].at < list[j].at
       \/ list[i].at = list[j].at /\ list[i].ord < list[j].ord
  /\ \A i, j \in DOMAIN list : list[i].ticket = list[j].ticket => i = j
  /\ \A i \in DOMAIN list : list[i].ord \in 1 .. n

Known(t) ==
  /\ t.at >= 1
  /\ t.ticket \in 1 .. lastTicket
  /\ t.ticket \in cancelled => t.ticket \in selfCancelled
  /\ t.owner # Nobody => held[t.owner] = t.ticket \/ t.ticket \in defused \cup selfCancelled

IInv ==
  /\ TypeOK
  /\ now >= 1
  /\ GoodList(timers, scheduled)
  /\ \A t \in Elems(timers) : Known(t)
  /\ phase = "callback" =>
       Known(running) /\ \A t \in Elems(timers) : t.ticket # running.ticket
  /\ \A o \in Owners : held[o] <= lastTicket
  /\ cancelled \subseteq 1 .. lastTicket
  /\ ScanAtHead

-----------------------------------------------------------------------------
(* The list operations *)

\* scheduleTimer() adds exactly the timer and keeps the list good.
LEMMA ScheduleTimerProperties ==
  ASSUME NEW list \in Seq(Timer), NEW n \in Nat, GoodList(list, n),
         NEW t \in Timer, t.ord = n + 1,
         \A u \in Elems(list) : u.ticket # t.ticket
  PROVE  /\ ScheduleTimer(list, t) \in Seq(Timer)
         /\ GoodList(ScheduleTimer(list, t), n + 1)
         /\ Elems(ScheduleTimer(list, t)) = Elems(list) \cup {t}
<1> DEFINE later == {i \in DOMAIN list : list[i].at > t.at}
           out == ScheduleTimer(list, t)
<1>0. DOMAIN list = 1 .. Len(list) /\ Len(list) \in Nat
  OBVIOUS
<1>3. /\ \A i \in DOMAIN list : list[i] \in Timer /\ list[i].at \in Nat
      /\ t.at \in Nat
  <2>1. \A i \in DOMAIN list : list[i] \in Timer
    OBVIOUS
  <2> QED BY <2>1 DEF Timer
<1>1. PICK p \in 1 .. Len(list) + 1 :
        /\ out \in Seq(Timer) /\ Len(out) = Len(list) + 1
        /\ \A i \in 1 .. Len(list) + 1 :
             out[i] = IF i < p THEN list[i] ELSE IF i = p THEN t ELSE list[i - 1]
        /\ \A i \in 1 .. Len(list) : i < p => list[i].at <= t.at
        /\ \A i \in 1 .. Len(list) : i >= p => list[i].at > t.at
  <2>1. CASE list # <<>> /\ t.at < list[Len(list)].at
    <3>1. later \in SUBSET Nat /\ later # {}
      <4>1. Len(list) \in later
        BY <2>1, <1>0
      <4> QED BY <4>1, <1>0
    <3> DEFINE p == Min(later)
    <3>2. p \in later /\ \A k \in later : p <= k
      BY <3>1, MinIsLeast
    <3>3. p \in 1 .. Len(list) + 1 /\ list[p].at > t.at
      BY <3>2, <1>0
    <3>4. out = InsertAt(list, p, t)
      BY <2>1 DEF ScheduleTimer
    <3> HIDE DEF p
    <3>5. ASSUME NEW i \in 1 .. Len(list), i < p PROVE list[i].at <= t.at
      <4>1. i \notin later
        <5>1. i \in Int /\ p \in Int /\ ~(p <= i)
          BY <3>3, <3>5, <1>0
        <5> QED BY <5>1, <3>2
      <4>2. list[i].at \in Nat /\ t.at \in Nat
        BY <1>0, <1>3
      <4> QED BY <4>1, <4>2, <1>0
    <3>6. ASSUME NEW i \in 1 .. Len(list), i >= p PROVE list[i].at > t.at
      <4>1. list[i].at \in Nat /\ list[p].at \in Nat /\ t.at \in Nat
        BY <1>0, <1>3, <3>2
      <4>2. i = p \/ list[p].at <= list[i].at
        BY <3>2, <3>6, <4>1, <1>0 DEF GoodList
      <4> QED BY <4>1, <4>2, <3>3
    <3>7. /\ out \in Seq(Timer) /\ Len(out) = Len(list) + 1
          /\ \A i \in 1 .. Len(list) + 1 :
               out[i] = IF i < p THEN list[i] ELSE IF i = p THEN t ELSE list[i - 1]
      <4> DEFINE ins == InsertAt(list, p, t)
      <4>1. /\ ins \in Seq(Timer) /\ Len(ins) = Len(list) + 1
            /\ \A i \in 1 .. Len(list) + 1 :
                 ins[i] = IF i < p THEN list[i] ELSE IF i = p THEN t ELSE list[i - 1]
        <5>1. list \in Seq(Timer) /\ t \in Timer /\ p \in 1 .. Len(list) + 1
          BY <3>3
        <5> HIDE DEF out, later
        <5> QED BY <5>1, InsertAtProperties, SMTT(30)
      <4> HIDE DEF ins, out
      <4>2. out = ins
        BY <3>4 DEF ins
      <4> QED BY <4>1, <4>2
    <3> QED BY <3>3, <3>5, <3>6, <3>7
  <2>2. CASE ~(list # <<>> /\ t.at < list[Len(list)].at)
    <3>1. out = Append(list, t)
      BY <2>2 DEF ScheduleTimer
    <3>2. ASSUME NEW i \in 1 .. Len(list) PROVE list[i].at <= t.at
      <4>1. list # <<>> /\ Len(list) \in DOMAIN list
        BY <1>0
      <4>2. list[i].at \in Nat /\ list[Len(list)].at \in Nat /\ t.at \in Nat
        BY <1>0, <1>3, <4>1
      <4>3. i = Len(list) \/ list[i].at <= list[Len(list)].at
        <5>1. i < Len(list) => \/ list[i].at < list[Len(list)].at
                               \/ list[i].at = list[Len(list)].at
          BY <4>1, <1>0 DEF GoodList
        <5>2. i = Len(list) \/ i < Len(list)
          <6>1. Len(list) \in Int /\ i \in Int /\ i <= Len(list)
            BY <1>0
          <6> QED BY <6>1
        <5> QED BY <5>1, <5>2, <4>2
      <4> QED BY <4>1, <4>2, <4>3, <2>2
    <3>3. /\ out \in Seq(Timer) /\ Len(out) = Len(list) + 1
          /\ \A i \in 1 .. Len(list) : out[i] = list[i]
          /\ out[Len(list) + 1] = t
      <4> HIDE DEF out
      <4> QED BY <3>1
    <3>4. \A i \in 1 .. Len(list) + 1 :
            out[i] = IF i < Len(list) + 1 THEN list[i]
                     ELSE IF i = Len(list) + 1 THEN t ELSE list[i - 1]
      <4> HIDE DEF out
      <4> QED BY <3>3, <1>0
    <3>5. /\ Len(list) + 1 \in 1 .. Len(list) + 1
          /\ \A i \in 1 .. Len(list) : ~(i >= Len(list) + 1)
      BY <1>0
    <3> HIDE DEF out
    <3> QED BY <3>2, <3>3, <3>4, <3>5
  <2> QED BY <2>1, <2>2
<1> HIDE DEF out
<1>2. DOMAIN out = 1 .. Len(list) + 1
  BY <1>1
<1>4. ASSUME NEW i \in DOMAIN out
      PROVE  \/ i = p /\ out[i] = t
             \/ i < p /\ i \in DOMAIN list /\ out[i] = list[i]
             \/ i > p /\ i - 1 \in DOMAIN list /\ out[i] = list[i - 1]
  BY <1>0, <1>1, <1>2
<1>5. ASSUME NEW i \in DOMAIN out, NEW j \in DOMAIN out, i < j
      PROVE  \/ out[i].at < out[j].at
             \/ out[i].at = out[j].at /\ out[i].ord < out[j].ord
  <2>1. CASE j = p
    <3>1. i \in DOMAIN list /\ out[i] = list[i] /\ out[j] = t /\ list[i].at <= t.at
      BY <2>1, <1>5, <1>0, <1>1, <1>2
    <3>2. list[i].ord \in 1 .. n /\ list[i].at \in Nat /\ t.at \in Nat
      BY <3>1, <1>3 DEF GoodList, Timer
    <3> QED BY <3>1, <3>2
  <2>2. CASE i = p
    <3>1. j - 1 \in DOMAIN list /\ out[j] = list[j - 1] /\ out[i] = t /\ list[j - 1].at > t.at
      BY <2>2, <1>5, <1>0, <1>1, <1>2, SMTT(30)
    <3> QED BY <3>1, <1>3 DEF Timer
  <2>3. CASE i # p /\ j # p
    <3> DEFINE ii == IF i < p THEN i ELSE i - 1
               jj == IF j < p THEN j ELSE j - 1
    <3>1. /\ ii \in DOMAIN list /\ jj \in DOMAIN list /\ ii < jj
          /\ out[i] = list[ii] /\ out[j] = list[jj]
      BY <2>3, <1>5, <1>0, <1>1, <1>2
    <3> HIDE DEF ii, jj
    <3> QED BY <3>1 DEF GoodList
  <2> QED BY <2>1, <2>2, <2>3
<1>6. ASSUME NEW i \in DOMAIN out, NEW j \in DOMAIN out, out[i].ticket = out[j].ticket
      PROVE  i = j
  <2>1. \A k \in DOMAIN list : list[k].ticket # t.ticket
    BY DEF Elems
  <2>2. \A k \in DOMAIN list, l \in DOMAIN list : list[k].ticket = list[l].ticket => k = l
    BY DEF GoodList
  <2> QED BY <1>0, <1>2, <1>4, <1>6, <2>1, <2>2
<1>7. ASSUME NEW i \in DOMAIN out PROVE out[i].ord \in 1 .. n + 1
  BY <1>4 DEF GoodList
<1>8. Elems(out) = Elems(list) \cup {t}
  <2>1. ASSUME NEW k \in DOMAIN list PROVE list[k] \in Elems(out)
    <3>1. CASE k < p
      <4>1. k \in DOMAIN out /\ out[k] = list[k]
        BY <3>1, <1>0, <1>1, <1>2
      <4> QED BY <4>1 DEF Elems
    <3>2. CASE k >= p
      <4>1. k + 1 \in DOMAIN out /\ out[k + 1] = list[k]
        BY <3>2, <1>0, <1>1, <1>2
      <4> QED BY <4>1 DEF Elems
    <3> QED BY <3>1, <3>2, <1>0
  <2>2. t \in Elems(out)
    <3>1. p \in DOMAIN out /\ out[p] = t
      BY <1>0, <1>1, <1>2
    <3> QED BY <3>1 DEF Elems
  <2> QED BY <2>1, <2>2, <1>4 DEF Elems
<1> QED BY <1>1, <1>5, <1>6, <1>7, <1>8 DEF GoodList, out

\* Removing one timer keeps the list good and removes only that timer.
LEMMA RemoveProperties ==
  ASSUME NEW list \in Seq(Timer), NEW n \in Nat, GoodList(list, n),
         NEW k \in DOMAIN list
  PROVE  /\ RemoveAt(list, k) \in Seq(Timer)
         /\ GoodList(RemoveAt(list, k), n)
         /\ Elems(RemoveAt(list, k)) = {t \in Elems(list) : t.ticket # list[k].ticket}
         /\ Elems(RemoveAt(list, k)) = Elems(list) \ {list[k]}
         /\ Len(RemoveAt(list, k)) = Len(list) - 1
         /\ \A i \in 1 .. Len(list) - 1 :
              RemoveAt(list, k)[i] = IF i < k THEN list[i] ELSE list[i + 1]
<1> DEFINE out == RemoveAt(list, k)
<1>0. DOMAIN list = 1 .. Len(list) /\ Len(list) \in Nat
  OBVIOUS
<1>1. /\ out \in Seq(Timer) /\ Len(out) = Len(list) - 1
      /\ \A i \in 1 .. Len(list) - 1 : out[i] = IF i < k THEN list[i] ELSE list[i + 1]
  <2>1. k \in 1 .. Len(list)
    OBVIOUS
  <2>2. out \in Seq(Timer)
    BY <2>1, RemoveAtProperties
  <2>3. Len(out) = Len(list) - 1
    BY <2>1, RemoveAtProperties
  <2>4. ASSUME NEW i \in 1 .. Len(list) - 1
        PROVE  out[i] = IF i < k THEN list[i] ELSE list[i + 1]
    BY <2>1, RemoveAtProperties
  <2> QED BY <2>2, <2>3, <2>4
<1> HIDE DEF out
<1>2. DOMAIN out = 1 .. Len(list) - 1
  BY <1>1
<1>3. ASSUME NEW i \in DOMAIN out, NEW j \in DOMAIN out
      PROVE  \E ii, jj \in DOMAIN list :
               /\ out[i] = list[ii] /\ out[j] = list[jj]
               /\ ii # k /\ jj # k
               /\ i < j => ii < jj
               /\ ii = jj => i = j
  <2> DEFINE ii == IF i < k THEN i ELSE i + 1
             jj == IF j < k THEN j ELSE j + 1
  <2>1. /\ ii \in DOMAIN list /\ jj \in DOMAIN list
        /\ out[i] = list[ii] /\ out[j] = list[jj]
        /\ ii # k /\ jj # k
        /\ i < j => ii < jj
        /\ ii = jj => i = j
    BY <1>0, <1>1, <1>2
  <2> HIDE DEF ii, jj
  <2> QED BY <2>1
<1>4. GoodList(out, n)
  <2>1. ASSUME NEW i \in DOMAIN out, NEW j \in DOMAIN out
        PROVE  /\ i < j => \/ out[i].at < out[j].at
                           \/ out[i].at = out[j].at /\ out[i].ord < out[j].ord
               /\ out[i].ticket = out[j].ticket => i = j
               /\ out[i].ord \in 1 .. n
    BY <1>3 DEF GoodList
  <2> QED BY <2>1 DEF GoodList
<1>5. ASSUME NEW i \in DOMAIN list, i # k
      PROVE  \E j \in DOMAIN out : out[j] = list[i]
  <2>1. CASE i < k
    <3>1. i \in DOMAIN out /\ out[i] = list[i]
      BY <2>1, <1>0, <1>1, <1>2
    <3> QED BY <3>1
  <2>2. CASE i > k
    <3>1. i - 1 \in DOMAIN out /\ out[i - 1] = list[i]
      BY <2>2, <1>0, <1>1, <1>2
    <3> QED BY <3>1
  <2> QED BY <2>1, <2>2, <1>5, <1>0
<1>6. \A i \in DOMAIN list : list[i].ticket = list[k].ticket => i = k
  BY DEF GoodList
<1>7. Elems(out) = {t \in Elems(list) : t.ticket # list[k].ticket}
  <2>1. ASSUME NEW t \in Elems(out)
        PROVE  t \in Elems(list) /\ t.ticket # list[k].ticket
    BY <1>3, <1>6 DEF Elems
  <2>2. ASSUME NEW t \in Elems(list), t.ticket # list[k].ticket
        PROVE  t \in Elems(out)
    <3>1. PICK i \in DOMAIN list : t = list[i]
      BY DEF Elems
    <3>2. i # k
      BY <3>1, <2>2
    <3> QED BY <3>1, <3>2, <1>5 DEF Elems
  <2> QED BY <2>1, <2>2
<1>8. Elems(out) = Elems(list) \ {list[k]}
  <2>1. ASSUME NEW t \in Elems(list)
        PROVE  t.ticket = list[k].ticket <=> t = list[k]
    BY <1>6 DEF Elems
  <2> QED BY <2>1, <1>7
<1> QED BY <1>1, <1>4, <1>7, <1>8 DEF out

\* cancelExecutionTicket() removes the timers with the ticket, nothing else.
LEMMA EraseProperties ==
  ASSUME NEW list \in Seq(Timer), NEW n \in Nat, GoodList(list, n), NEW m
  PROVE  /\ Erase(list, m) \in Seq(Timer)
         /\ GoodList(Erase(list, m), n)
         /\ Elems(Erase(list, m)) = {t \in Elems(list) : t.ticket # m}
         /\ IndicesOf(list, m) = {} => Erase(list, m) = list
<1>1. CASE IndicesOf(list, m) = {}
  BY <1>1 DEF Erase, IndicesOf, Elems
<1>2. CASE IndicesOf(list, m) # {}
  <2>1. IndicesOf(list, m) \in SUBSET Nat
    BY DEF IndicesOf
  <2> DEFINE k == Min(IndicesOf(list, m))
  <2>2. k \in IndicesOf(list, m)
    BY <1>2, <2>1, MinIsLeast
  <2>3. k \in DOMAIN list /\ list[k].ticket = m
    BY <2>2 DEF IndicesOf
  <2>4. Erase(list, m) = RemoveAt(list, k)
    BY <1>2 DEF Erase
  <2> HIDE DEF k
  <2> QED BY <1>2, <2>3, <2>4, RemoveProperties
<1> QED BY <1>1, <1>2

-----------------------------------------------------------------------------
(* retriggerTimer() *)

\* Rearming changes time and tolerance of the timer copy only, and the new
\* time is a proper one in every mode.
Rearmed(t, r) ==
  /\ r.timer \in Timer
  /\ r.timer.ticket = t.ticket /\ r.timer.owner = t.owner
  /\ r.timer.at >= 1
  /\ r.reinsert \in BOOLEAN

LEMMA RetriggeredProperties ==
  ASSUME NEW t \in Timer, t.at >= 1, NEW re \in BOOLEAN,
         NEW interval \in Nat, NEW tol \in Nat, NEW time \in Nat, time >= 1,
         NEW skip \in {i \in Int : i >= -3}
  PROVE  Rearmed(t, Retriggered(t, re, interval, tol, skip, time))
<1>0. SUFFICES ASSUME NEW r, r = Retriggered(t, re, interval, tol, skip, time)
               PROVE  Rearmed(t, r)
  OBVIOUS
<1> DEFINE again(when) ==
             [timer |-> [t EXCEPT !.at = when, !.tol = tol, !.want = tol], reinsert |-> TRUE]
           inTime == {k \in 1 .. (skip + 1) : t.at + k * interval >= time}
<1>1. ASSUME NEW when \in Nat, when >= 1
      PROVE  Rearmed(t, again(when))
  BY <1>1 DEF Rearmed, Timer
<1>2. t.at \in Nat
  BY DEF Timer
<1>3. ASSUME NEW a \in Nat, NEW b \in Nat PROVE a * b \in Nat
  OBVIOUS
<1>4. CASE skip = absolute
  <2>1. r = again(time) \/ (r = again(interval) /\ interval >= 1)
    <3>1. CASE interval < time + tol
      <4>1. r = again(time)
        BY <1>0, <1>4, <3>1 DEF Retriggered, absolute, from_now_if_late, from_now
      <4> HIDE DEF again
      <4> QED BY <4>1
    <3>2. CASE ~(interval < time + tol)
      <4>1. interval >= 1
        BY <3>2
      <4> QED BY <1>0, <1>4, <3>2, <4>1 DEF Retriggered, absolute, from_now_if_late, from_now
    <3> QED BY <3>1, <3>2
  <2> HIDE DEF again
  <2> QED BY <2>1, <1>1
<1>5. CASE skip = from_now_if_late
  <2>1. r = again(time + interval) \/ r = again(t.at + interval)
    <3>1. CASE t.at + interval + tol < time
      BY <1>0, <1>5, <3>1 DEF Retriggered, absolute, from_now_if_late
    <3>2. CASE ~(t.at + interval + tol < time)
      BY <1>0, <1>5, <3>2 DEF Retriggered, absolute, from_now_if_late
    <3> QED BY <3>1, <3>2
  <2>2. /\ time + interval \in Nat /\ time + interval >= 1
        /\ t.at + interval \in Nat /\ t.at + interval >= 1
    BY <1>2
  <2> HIDE DEF again
  <2> QED BY <2>1, <2>2, <1>1
<1>6. CASE skip = from_now
  <2>1. time + interval \in Nat /\ time + interval >= 1
    OBVIOUS
  <2>2. r = again(time + interval)
    BY <1>0, <1>6 DEF Retriggered, absolute, from_now_if_late, from_now
  <2> HIDE DEF again
  <2> QED BY <2>1, <2>2, <1>1
<1>7. CASE skip \notin {absolute, from_now_if_late, from_now}
  <2>1. skip + 1 \in Nat
    BY <1>7 DEF absolute, from_now_if_late, from_now
  <2>2. CASE inTime # {}
    <3> DEFINE k == Min(inTime)
               when == t.at + k * interval
    <3>1. inTime \in SUBSET Nat
      OBVIOUS
    <3>2. k \in Nat
      <4> HIDE DEF inTime
      <4> QED BY <2>2, <3>1, MinIsLeast
    <3>3. r = again(when)
      BY <1>0, <1>7, <2>2 DEF Retriggered
    <3> HIDE DEF k
    <3>4. when \in Nat /\ when >= 1
      BY <3>2, <1>2, <1>3
    <3> HIDE DEF when, again
    <3> QED BY <3>3, <3>4, <1>1
  <2>3. CASE inTime = {}
    <3> DEFINE when == t.at + (skip + 1) * interval
    <3>1. r = [again(when) EXCEPT !.reinsert = re]
      BY <1>0, <1>7, <2>3 DEF Retriggered
    <3>2. when \in Nat /\ when >= 1
      BY <2>1, <1>2, <1>3
    <3>3. r.timer = again(when).timer /\ r.reinsert = re
      <4> HIDE DEF when
      <4> QED BY <3>1
    <3> HIDE DEF when, again
    <3> QED BY <3>2, <3>3, <1>1 DEF Rearmed
  <2> QED BY <2>2, <2>3
<1> QED BY <1>4, <1>5, <1>6, <1>7

-----------------------------------------------------------------------------
(* The inductive invariant *)

\* What the steps that schedule do to the set of pending timers.
Adds ==
  \E t \in Elems(timers') :
    /\ t.ord = scheduled + 1 /\ scheduled' = scheduled + 1
    /\ Elems(timers') \ {t} \subseteq Elems(timers)

LEMMA InitIInv == Init => IInv
<1> SUFFICES ASSUME Init PROVE IInv
  OBVIOUS
<1>1. timers = <<>> /\ DOMAIN timers = {} /\ timers \in Seq(Timer)
  BY DEF Init
<1>2. TypeOK
  BY <1>1 DEF Init, TypeOK, NoTimer, Timer, NoTicket, Never
<1>3. GoodList(timers, scheduled) /\ Elems(timers) = {}
  BY <1>1 DEF GoodList, Elems
<1> QED BY <1>2, <1>3 DEF Init, IInv, ScanAtHead, NoTicket

\* While checkTimers is at a timer, that timer is the first one of the list.
LEMMA AtFirst ==
  ASSUME IInv, AtTimer
  PROVE  /\ timers # <<>> /\ Len(timers) \in Nat /\ DOMAIN timers = 1 .. Len(timers)
         /\ 1 \in DOMAIN timers
         /\ PosIndex = 1
         /\ timers[1] \in Timer /\ timers[1] \in Elems(timers)
<1>1. timers # <<>> /\ pos = timers[1].ticket
  BY DEF IInv, AtTimer, ScanAtHead, Begin
<1>2. /\ Len(timers) \in Nat /\ DOMAIN timers = 1 .. Len(timers)
      /\ 1 \in DOMAIN timers /\ timers[1] \in Timer
  BY <1>1 DEF IInv, TypeOK
<1>3. \A i \in DOMAIN timers : timers[i].ticket = pos => i = 1
  BY <1>1, <1>2 DEF IInv, GoodList
<1>4. PosIndex = 1
  BY <1>1, <1>2, <1>3 DEF PosIndex
<1> QED BY <1>1, <1>2, <1>4 DEF Elems

\* What a step that leaves the list, the tickets and the history alone needs.
LEMMA QuietStep ==
  ASSUME IInv, TypeOK', now' >= 1,
         UNCHANGED <<timers, lastTicket, held, historyVars>>,
         phase' = "callback" =>
           /\ phase = "callback"
           /\ running'.at >= 1
           /\ running'.ticket = running.ticket /\ running'.owner = running.owner,
         ScanAtHead'
  PROVE  IInv'
<1>1. ASSUME phase' = "callback" PROVE Known(running)'
  BY <1>1 DEF IInv, Known, historyVars
<1> QED BY <1>1 DEF IInv, Known, historyVars, GoodList, Elems

\* A new ticket number is one nothing carries yet.
LEMMA NewTimerProperties ==
  ASSUME IInv, NEW o \in Owners \cup {Nobody}, NEW when \in Nat, NEW tol \in Nat
  PROVE  /\ NewTimer(o, when, tol) \in Timer
         /\ NewTimer(o, when, tol).ord = scheduled + 1
         /\ NewTimer(o, when, tol).ticket = lastTicket + 1
         /\ NewTimer(o, when, tol).owner = o
         /\ NewTimer(o, when, tol).at = when
         /\ \A t \in Elems(timers) : t.ticket # lastTicket + 1
BY DEF IInv, TypeOK, NewTimer, Timer, Known

LEMMA StepExecuteOnceAt ==
  ASSUME IInv, NEW o \in Owners, NEW when \in Nat, when >= 1, NEW tol \in Nat,
         ExecuteOnceAt(o, when, tol)
  PROVE  IInv' /\ Adds
<1> DEFINE t == NewTimer(o, when, tol)
           rest == Erase(timers, held[o])
<1> USE DEF ExecuteOnceAt
<1>0. /\ timers \in Seq(Timer) /\ scheduled \in Nat /\ lastTicket \in Nat
      /\ held \in [Owners -> Nat] /\ held[o] \in Nat /\ held[o] <= lastTicket
      /\ GoodList(timers, scheduled)
  BY DEF IInv, TypeOK
<1>1. /\ t \in Timer /\ t.ord = scheduled + 1 /\ t.ticket = lastTicket + 1
      /\ t.owner = o /\ t.at = when
      /\ \A u \in Elems(timers) : u.ticket # lastTicket + 1
  BY NewTimerProperties
<1>2. /\ rest \in Seq(Timer) /\ GoodList(rest, scheduled)
      /\ Elems(rest) = {u \in Elems(timers) : u.ticket # held[o]}
  BY <1>0, EraseProperties
<1>3. timers' = ScheduleTimer(rest, t)
  OBVIOUS
<1> HIDE DEF t, rest
<1>4. /\ timers' \in Seq(Timer) /\ GoodList(timers', scheduled + 1)
      /\ Elems(timers') = Elems(rest) \cup {t}
  BY <1>0, <1>1, <1>2, <1>3, ScheduleTimerProperties
<1>12. cancelled' \subseteq 1 .. lastTicket /\ lastTicket + 1 \in 1 .. lastTicket'
  <2>1. held[o] # NoTicket => held[o] \in 1 .. lastTicket
    BY <1>0 DEF NoTicket
  <2>2. cancelled' \subseteq 1 .. lastTicket
    BY <2>1 DEF IInv, NoteCancelled
  <2> QED BY <2>2, <1>0
<1>5. TypeOK'
  <2>1. selfCancelled' \subseteq Nat /\ cancelled' \subseteq Nat /\ defused' \subseteq Nat
    BY <1>0 DEF IInv, TypeOK, NoteCancelled
  <2> QED BY <2>1, <1>0, <1>4 DEF IInv, TypeOK, scanVars
<1>6. GoodList(timers, scheduled)'
  BY <1>4 DEF GoodList
<1>7. ASSUME NEW u \in Elems(timers), u.ticket # held[o] PROVE Known(u)'
  BY <1>7, <1>0 DEF IInv, Known, NoteCancelled
<1>8. ASSUME NEW u, u = t PROVE Known(u)'
  <2>1. u.ticket = lastTicket + 1 /\ u.owner = o /\ u.at >= 1
    BY <1>1, <1>8
  <2>2. lastTicket + 1 \notin cancelled'
    BY <1>0, <1>12
  <2> QED BY <2>1, <2>2, <1>0, <1>12 DEF Known
<1>9. \A u \in Elems(timers') : Known(u)'
  BY <1>2, <1>4, <1>7, <1>8
<1>10. ASSUME phase' = "callback"
       PROVE  Known(running)' /\ \A u \in Elems(timers') : u.ticket # running'.ticket
  <2>1. /\ phase = "callback" /\ running' = running
    BY <1>10 DEF scanVars
  <2>2. Known(running) /\ \A u \in Elems(timers) : u.ticket # running.ticket
    BY <2>1 DEF IInv
  <2>3. Known(running)'
    BY <2>1, <2>2, <1>0 DEF IInv, Known, NoteCancelled
  <2>4. running.ticket # lastTicket + 1
    BY <2>2, <1>0 DEF Known
  <2> QED BY <2>1, <2>2, <2>3, <2>4, <1>1, <1>2, <1>4
<1>15. \A p \in Owners : held'[p] <= lastTicket'
  BY <1>0 DEF IInv
<1>14. cancelled' \subseteq 1 .. lastTicket'
  BY <1>0, <1>12
<1>13. ScanAtHead'
  BY DEF ScanAtHead
<1>16. Adds
  BY <1>1, <1>2, <1>4 DEF Adds
<1> QED BY <1>5, <1>6, <1>9, <1>10, <1>14, <1>15, <1>13, <1>16 DEF IInv, Elems

LEMMA StepExecuteNow ==
  ASSUME IInv, ExecuteNow
  PROVE  IInv' /\ Adds
<1> DEFINE t == NewTimer(Nobody, now, 0)
<1> USE DEF ExecuteNow
<1>0. /\ timers \in Seq(Timer) /\ scheduled \in Nat /\ lastTicket \in Nat
      /\ now \in Nat /\ now >= 1 /\ GoodList(timers, scheduled)
  BY DEF IInv, TypeOK
<1>1. /\ t \in Timer /\ t.ord = scheduled + 1 /\ t.ticket = lastTicket + 1
      /\ t.owner = Nobody /\ t.at = now
      /\ \A u \in Elems(timers) : u.ticket # lastTicket + 1
  BY <1>0 DEF IInv, NewTimer, Timer, Known
<1>2. timers' = ScheduleTimer(timers, t)
  OBVIOUS
<1> HIDE DEF t
<1>3. /\ timers' \in Seq(Timer) /\ GoodList(timers', scheduled + 1)
      /\ Elems(timers') = Elems(timers) \cup {t}
  BY <1>0, <1>1, <1>2, ScheduleTimerProperties
<1>4. TypeOK'
  BY <1>0, <1>3 DEF IInv, TypeOK, scanVars
<1>5. GoodList(timers, scheduled)'
  BY <1>3 DEF GoodList
<1>6. ASSUME NEW u, Known(u) PROVE Known(u)'
  BY <1>6, <1>0 DEF Known
<1>7. ASSUME NEW u, u = t PROVE Known(u)'
  <2>1. u.ticket = lastTicket + 1 /\ u.owner = Nobody /\ u.at >= 1
    BY <1>0, <1>1, <1>7
  <2>2. lastTicket + 1 \notin cancelled' /\ lastTicket + 1 \in 1 .. lastTicket'
    BY <1>0 DEF IInv
  <2> QED BY <2>1, <2>2 DEF Known
<1>8. ASSUME phase' = "callback"
      PROVE  Known(running)' /\ \A u \in Elems(timers') : u.ticket # running'.ticket
  <2>1. phase = "callback" /\ running' = running
    BY <1>8 DEF scanVars
  <2>2. Known(running) /\ \A u \in Elems(timers) : u.ticket # running.ticket
    BY <2>1 DEF IInv
  <2>3. running.ticket # lastTicket + 1
    BY <2>2, <1>0 DEF Known
  <2>4. Known(running)'
    BY <2>1, <2>2, <1>0 DEF Known
  <2> QED BY <2>1, <2>2, <2>3, <2>4, <1>1, <1>3
<1>9. /\ \A p \in Owners : held'[p] <= lastTicket'
      /\ cancelled' \subseteq 1 .. lastTicket'
  BY <1>0 DEF IInv, TypeOK
<1>10. ScanAtHead'
  BY DEF ScanAtHead
<1>11. \A u \in Elems(timers') : Known(u)'
  BY <1>3, <1>6, <1>7 DEF IInv
<1>12. Adds
  BY <1>1, <1>3 DEF Adds
<1> QED BY <1>0, <1>4, <1>5, <1>8, <1>9, <1>10, <1>11, <1>12 DEF IInv, Elems

LEMMA StepCancel ==
  ASSUME IInv, NEW o \in Owners, Cancel(o)
  PROVE  IInv' /\ Elems(timers') \subseteq Elems(timers)
<1> USE DEF Cancel
<1>0. /\ timers \in Seq(Timer) /\ scheduled \in Nat /\ lastTicket \in Nat
      /\ held \in [Owners -> Nat] /\ held[o] \in Nat /\ held[o] <= lastTicket
      /\ GoodList(timers, scheduled)
  BY DEF IInv, TypeOK
<1>1. /\ timers' \in Seq(Timer) /\ GoodList(timers', scheduled)
      /\ Elems(timers') = {u \in Elems(timers) : u.ticket # held[o]}
      /\ IndicesOf(timers, held[o]) = {} => timers' = timers
  BY <1>0, EraseProperties
<1>2. TypeOK'
  BY <1>0, <1>1 DEF IInv, TypeOK, NoteCancelled, scanVars, NoTicket
<1>3. GoodList(timers, scheduled)'
  BY <1>1 DEF GoodList
<1>4. ASSUME NEW u \in Elems(timers), u.ticket # held[o] PROVE Known(u)'
  BY <1>4, <1>0 DEF IInv, Known, NoteCancelled
<1>5. ASSUME phase' = "callback"
      PROVE  Known(running)' /\ \A u \in Elems(timers') : u.ticket # running'.ticket
  <2>1. phase = "callback" /\ running' = running
    BY <1>5 DEF scanVars
  <2>2. Known(running) /\ \A u \in Elems(timers) : u.ticket # running.ticket
    BY <2>1 DEF IInv
  <2>3. Known(running)'
    BY <2>1, <2>2, <1>0 DEF IInv, Known, NoteCancelled
  <2> QED BY <2>1, <2>2, <2>3, <1>1
<1>6. \A p \in Owners : held'[p] <= lastTicket'
  BY <1>0 DEF IInv, NoTicket
<1>7. cancelled' \subseteq 1 .. lastTicket'
  <2>1. held[o] \in 1 .. lastTicket
    BY <1>0 DEF NoTicket
  <2> QED BY <2>1 DEF IInv, NoteCancelled
<1>8. ScanAtHead'
  BY <1>1 DEF IInv, ScanAtHead, scanVars, Begin
<1>9. \A u \in Elems(timers') : Known(u)'
  BY <1>1, <1>4
<1> QED BY <1>1, <1>2, <1>3, <1>5, <1>6, <1>7, <1>8, <1>9 DEF IInv, Elems

LEMMA StepDefuse ==
  ASSUME IInv, NEW o \in Owners, Defuse(o)
  PROVE  IInv'
<1> USE DEF Defuse
<1>0. /\ lastTicket \in Nat /\ held \in [Owners -> Nat]
  BY DEF IInv, TypeOK
<1>1. TypeOK'
  BY <1>0 DEF IInv, TypeOK, scanVars, NoTicket
<1>2. ASSUME NEW u, Known(u) PROVE Known(u)'
  BY <1>2, <1>0 DEF Known
<1>3. phase' = "callback" =>
        Known(running)' /\ \A u \in Elems(timers') : u.ticket # running'.ticket
  BY <1>2 DEF IInv, scanVars, Known
<1>4. \A p \in Owners : held'[p] <= lastTicket'
  BY <1>0 DEF IInv, NoTicket
<1>5. ScanAtHead'
  BY DEF IInv, ScanAtHead, scanVars, Begin
<1> QED BY <1>1, <1>2, <1>3, <1>4, <1>5 DEF IInv, Elems, GoodList

LEMMA StepRescheduleAt ==
  ASSUME IInv, NEW o \in Owners, NEW when \in Nat, when >= 1, NEW tol \in Nat,
         RescheduleAt(o, when, tol)
  PROVE  IInv' /\ Adds
<1> USE DEF RescheduleAt
<1>0. /\ timers \in Seq(Timer) /\ scheduled \in Nat /\ lastTicket \in Nat
      /\ GoodList(timers, scheduled)
  BY DEF IInv, TypeOK
<1>1. PICK i \in IndicesOf(timers, held[o]) :
        timers' = ScheduleTimer(RemoveAt(timers, i),
                    [timers[i] EXCEPT !.at = when, !.ord = scheduled + 1, !.want = tol])
  OBVIOUS
<1>2. i \in DOMAIN timers /\ timers[i] \in Timer /\ timers[i] \in Elems(timers)
  BY <1>0 DEF IndicesOf, Elems
<1> DEFINE old == timers[i]
           new == [old EXCEPT !.at = when, !.ord = scheduled + 1, !.want = tol]
           rest == RemoveAt(timers, i)
<1> HIDE DEF old
<1>3. /\ new \in Timer /\ new.ord = scheduled + 1 /\ new.at = when
      /\ new.ticket = old.ticket /\ new.owner = old.owner
  <2>1. old \in Timer
    BY <1>2 DEF old
  <2>2. scheduled + 1 \in Nat
    BY <1>0
  <2>3. new \in Timer
    BY <2>1, <2>2 DEF Timer
  <2> QED BY <2>1, <2>3 DEF Timer
<1>4. /\ rest \in Seq(Timer) /\ GoodList(rest, scheduled)
      /\ Elems(rest) = {u \in Elems(timers) : u.ticket # old.ticket}
  BY <1>0, <1>2, RemoveProperties DEF old
<1>5. timers' = ScheduleTimer(rest, new)
  BY <1>1 DEF old
<1> HIDE DEF old, new, rest
<1>6. /\ timers' \in Seq(Timer) /\ GoodList(timers', scheduled + 1)
      /\ Elems(timers') = Elems(rest) \cup {new}
  BY <1>0, <1>3, <1>4, <1>5, ScheduleTimerProperties
<1>7. TypeOK'
  BY <1>0, <1>6 DEF IInv, TypeOK, scanVars
<1>8. GoodList(timers, scheduled)'
  BY <1>6 DEF GoodList
<1>9. ASSUME NEW u, Known(u) PROVE Known(u)'
  BY <1>9 DEF Known
<1>10. ASSUME NEW u, u = new PROVE Known(u)'
  <2>1. Known(old)
    BY <1>2 DEF IInv, old
  <2>2. u.at >= 1 /\ u.ticket = old.ticket /\ u.owner = old.owner
    BY <1>3, <1>10
  <2> QED BY <2>1, <2>2 DEF Known
<1>11. \A u \in Elems(timers') : Known(u)'
  BY <1>4, <1>6, <1>9, <1>10 DEF IInv
<1>12. ASSUME phase' = "callback"
       PROVE  Known(running)' /\ \A u \in Elems(timers') : u.ticket # running'.ticket
  <2>1. phase = "callback" /\ running' = running
    BY <1>12 DEF scanVars
  <2>2. Known(running) /\ \A u \in Elems(timers) : u.ticket # running.ticket
    BY <2>1 DEF IInv
  <2>3. Known(running)'
    BY <2>1, <2>2 DEF Known
  <2>4. new.ticket # running.ticket
    BY <2>2, <1>2, <1>3 DEF old
  <2> QED BY <2>1, <2>2, <2>3, <2>4, <1>4, <1>6
<1>13. /\ \A p \in Owners : held'[p] <= lastTicket'
       /\ cancelled' \subseteq 1 .. lastTicket'
  BY DEF IInv
<1>14. ScanAtHead'
  BY DEF ScanAtHead
<1>15. now' >= 1
  BY DEF IInv
<1>16. Adds
  BY <1>3, <1>4, <1>6 DEF Adds
<1> QED BY <1>7, <1>8, <1>11, <1>12, <1>13, <1>14, <1>15, <1>16 DEF IInv, Elems

LEMMA StepFinalize ==
  ASSUME IInv, Finalize
  PROVE  IInv'
<1> USE DEF Finalize
<1>1. timers' = <<>> /\ DOMAIN timers' = {} /\ timers' \in Seq(Timer)
  OBVIOUS
<1>2. TypeOK' /\ now' >= 1
  BY <1>1 DEF IInv, TypeOK, scanVars, historyVars
<1>3. GoodList(timers, scheduled)' /\ Elems(timers') = {}
  BY <1>1 DEF GoodList, Elems
<1>4. phase' = "app"
  BY DEF scanVars
<1> QED BY <1>2, <1>3, <1>4 DEF IInv, ScanAtHead, Elems, historyVars

LEMMA StepRetrigger ==
  ASSUME IInv, NEW interval \in Nat, NEW tol \in Nat, NEW skip \in Skips,
         Retrigger(interval, tol, skip)
  PROVE  IInv'
<1> DEFINE r == Retriggered(running, reinsert, interval, tol, skip, now)
<1>1. /\ phase = "callback" /\ running' = r.timer /\ reinsert' = r.reinsert
      /\ UNCHANGED <<now, listVars, phase, pos, nextTimer, runUntil, terminated, historyVars>>
  BY DEF Retrigger
<1>2. /\ running \in Timer /\ running.at >= 1 /\ reinsert \in BOOLEAN
      /\ now \in Nat /\ now >= 1 /\ skip \in {i \in Int : i >= -3}
  BY <1>1, ConstantsAssumption DEF IInv, TypeOK, Known
<1>3. /\ r.timer \in Timer /\ r.timer.at >= 1 /\ r.reinsert \in BOOLEAN
      /\ r.timer.ticket = running.ticket /\ r.timer.owner = running.owner
  <2>1. Rearmed(running, r)
    BY <1>2, RetriggeredProperties
  <2> HIDE DEF r
  <2> QED BY <2>1 DEF Rearmed
<1> HIDE DEF r
<1>4. TypeOK' /\ now' >= 1
  BY <1>1, <1>2, <1>3 DEF IInv, TypeOK, listVars, historyVars
<1>5. ScanAtHead'
  BY <1>1 DEF IInv, ScanAtHead, listVars, Begin
<1>6. UNCHANGED <<timers, lastTicket, held, historyVars>>
  BY <1>1 DEF listVars
<1> QED BY <1>1, <1>3, <1>4, <1>5, <1>6, QuietStep

LEMMA StepFire ==
  ASSUME IInv, Fire
  PROVE  IInv'
<1> USE DEF Fire
<1>0. /\ timers \in Seq(Timer) /\ scheduled \in Nat /\ GoodList(timers, scheduled)
      /\ AtTimer
  BY DEF IInv, TypeOK
<1>1. /\ timers # <<>> /\ Len(timers) \in Nat /\ DOMAIN timers = 1 .. Len(timers)
      /\ 1 \in DOMAIN timers
      /\ PosIndex = 1
      /\ timers[1] \in Timer /\ timers[1] \in Elems(timers)
  BY <1>0, AtFirst
<1>2. /\ timers' = RemoveAt(timers, 1) /\ running' = timers[1] /\ phase' = "callback"
      /\ reinsert' = FALSE /\ nextTimer' = timers[1].at
      /\ pos' = IF 1 = Len(timers) THEN NoTicket ELSE timers[1 + 1].ticket
  BY <1>1
<1>3. /\ timers' \in Seq(Timer) /\ GoodList(timers', scheduled)
      /\ Elems(timers') = {u \in Elems(timers) : u.ticket # timers[1].ticket}
      /\ Len(timers') = Len(timers) - 1
      /\ \A i \in 1 .. Len(timers) - 1 : timers'[i] = timers[i + 1]
  <2> DEFINE out == RemoveAt(timers, 1)
  <2>1. /\ out \in Seq(Timer) /\ GoodList(out, scheduled)
        /\ Elems(out) = {u \in Elems(timers) : u.ticket # timers[1].ticket}
        /\ Len(out) = Len(timers) - 1
        /\ \A i \in 1 .. Len(timers) - 1 :
             out[i] = IF i < 1 THEN timers[i] ELSE timers[i + 1]
    BY <1>0, <1>1, RemoveProperties
  <2>2. timers' = out
    BY <1>2
  <2> HIDE DEF out, Fire
  <2>3. ASSUME NEW i \in 1 .. Len(timers) - 1 PROVE out[i] = timers[i + 1]
    <3>1. ~(i < 1)
      OBVIOUS
    <3> QED BY <2>1, <3>1
  <2> QED BY <2>1, <2>2, <2>3, SMTT(30)
<1>4. pos' = Begin(timers') /\ pos' \in Nat
  <2>1. CASE Len(timers) = 1
    <3>1. timers' = <<>> /\ pos' = NoTicket
      BY <2>1, <1>2, <1>3
    <3> QED BY <3>1 DEF Begin, NoTicket
  <2>2. CASE Len(timers) > 1
    <3>1. /\ timers' # <<>> /\ timers'[1] = timers[2] /\ pos' = timers[2].ticket
          /\ timers[2] \in Timer
      BY <2>2, <1>0, <1>1, <1>2, <1>3
    <3> QED BY <3>1 DEF Begin, Timer
  <2> QED BY <2>1, <2>2, <1>1
<1>5. TypeOK' /\ now' >= 1
  <2>1. timers[1].at \in Nat
    BY <1>1 DEF Timer
  <2> QED BY <2>1, <1>1, <1>2, <1>3, <1>4 DEF IInv, TypeOK, historyVars
<1>6. GoodList(timers, scheduled)'
  BY <1>3 DEF GoodList, historyVars
<1>7. ASSUME NEW u, Known(u) PROVE Known(u)'
  BY <1>7 DEF Known, historyVars
<1>8. Known(running)'
  <2>1. Known(timers[1])
    BY <1>1 DEF IInv
  <2> QED BY <2>1, <1>2 DEF Known, historyVars
<1>9. \A u \in Elems(timers') : Known(u)' /\ u.ticket # running'.ticket
  BY <1>2, <1>3, <1>7 DEF IInv
<1>10. ScanAtHead'
  BY <1>4 DEF ScanAtHead, Begin
<1> QED BY <1>5, <1>6, <1>8, <1>9, <1>10 DEF IInv, Elems, historyVars

LEMMA StepReturn ==
  ASSUME IInv, Return
  PROVE  IInv'
<1> USE DEF Return
<1>0. /\ timers \in Seq(Timer) /\ scheduled \in Nat /\ GoodList(timers, scheduled)
      /\ running \in Timer /\ Known(running)
      /\ \A u \in Elems(timers) : u.ticket # running.ticket
      /\ phase' = "dtor"
  BY DEF IInv, TypeOK
<1>1. CASE reinsert
  <2> DEFINE t == [running EXCEPT !.ord = scheduled + 1]
  <2>1. /\ t \in Timer /\ t.ord = scheduled + 1
        /\ t.ticket = running.ticket /\ t.owner = running.owner /\ t.at = running.at
    BY <1>0 DEF Timer
  <2>2. timers' = ScheduleTimer(timers, t) /\ timersChanged' = TRUE /\ scheduled' = scheduled + 1
    BY <1>1
  <2> HIDE DEF t
  <2>3. /\ timers' \in Seq(Timer) /\ GoodList(timers', scheduled')
        /\ Elems(timers') = Elems(timers) \cup {t}
    BY <1>0, <2>1, <2>2, ScheduleTimerProperties
  <2>4. TypeOK' /\ now' >= 1
    BY <1>0, <2>2, <2>3 DEF IInv, TypeOK
  <2>5. GoodList(timers, scheduled)'
    BY <2>3 DEF GoodList
  <2>6. ASSUME NEW u, Known(u) PROVE Known(u)'
    BY <2>6 DEF Known
  <2>7. ASSUME NEW u, u = t PROVE Known(u)'
    <3>1. u.at = running.at /\ u.ticket = running.ticket /\ u.owner = running.owner
      BY <2>1, <2>7
    <3> QED BY <3>1, <1>0 DEF Known
  <2>8. \A u \in Elems(timers') : Known(u)'
    BY <2>3, <2>6, <2>7 DEF IInv
  <2>9. ScanAtHead'
    BY <2>2 DEF ScanAtHead
  <2> QED BY <1>0, <2>4, <2>5, <2>8, <2>9 DEF IInv, Elems
<1>2. CASE ~reinsert
  <2>1. UNCHANGED <<timers, timersChanged, scheduled, pos, lastTicket, held, historyVars>>
    BY <1>2 DEF historyVars
  <2>2. TypeOK' /\ now' >= 1
    BY <1>0, <2>1 DEF IInv, TypeOK, historyVars
  <2>3. ScanAtHead'
    BY <2>1 DEF IInv, ScanAtHead, Begin
  <2> QED BY <2>1, <2>2, <2>3, <1>0, QuietStep
<1> QED BY <1>1, <1>2

\* The remaining actions leave list, tickets and history alone.
LEMMA StepQuiet ==
  ASSUME IInv,
         \/ Terminate \/ Restart \/ Advance \/ BeginCheck \/ Rescan \/ EndScope
         \/ ListProcessed \/ NotReady \/ RanTooLong \/ StoppedByTerminate
  PROVE  IInv'
<1>1. /\ now \in Nat /\ now >= 1 /\ MaxRun \in Nat /\ timers \in Seq(Timer)
      /\ NoTicket \in Nat /\ Never \in Nat
  BY ConstantsAssumption DEF IInv, TypeOK, NoTicket, Never
<1>2. CASE Terminate \/ Restart \/ Advance
  <2>1. /\ UNCHANGED <<timers, lastTicket, held, historyVars>> /\ UNCHANGED <<listVars, scanVars>>
        /\ now' \in Nat /\ now' >= 1 /\ terminated' \in BOOLEAN
    <3>1. CASE Terminate \/ Restart
      BY <3>1, <1>1 DEF Terminate, Restart, listVars
    <3>2. CASE Advance
      BY <3>2, <1>1 DEF Advance, listVars, IInv, TypeOK
    <3> QED BY <3>1, <3>2, <1>2
  <2>2. TypeOK'
    BY <2>1 DEF IInv, TypeOK, listVars, scanVars, historyVars
  <2>3. ScanAtHead'
    BY <2>1 DEF IInv, ScanAtHead, listVars, scanVars, Begin
  <2>4. phase' = phase /\ running' = running
    BY <2>1 DEF scanVars
  <2>5. phase' = "callback" => Known(running)
    BY <2>4 DEF IInv
  <2> QED BY <2>1, <2>2, <2>3, <2>4, <2>5, QuietStep DEF Known
<1>3. CASE BeginCheck \/ Rescan
  <2>1. Begin(timers) \in Nat
    <3>1. timers # <<>> => timers[1] \in Timer
      BY <1>1
    <3> QED BY <3>1 DEF Begin, Timer, NoTicket
  <2>2. /\ UNCHANGED <<timers, lastTicket, held, historyVars>>
        /\ phase' = "loop" /\ pos' = Begin(timers)
    BY <1>3 DEF BeginCheck, Rescan
  <2>3. TypeOK' /\ now' >= 1
    <3>1. CASE BeginCheck
      <4>1. now + MaxRun \in Nat
        BY <1>1
      <4> QED BY <3>1, <4>1, <1>1, <2>1 DEF IInv, TypeOK, BeginCheck, historyVars
    <3>2. CASE Rescan
      BY <3>2, <1>1, <2>1 DEF IInv, TypeOK, Rescan, historyVars
    <3> QED BY <3>1, <3>2, <1>3
  <2>4. ScanAtHead'
    BY <2>2 DEF ScanAtHead, Begin
  <2> QED BY <2>2, <2>3, <2>4, QuietStep
<1>4. CASE EndScope
  <2>1. UNCHANGED <<timers, lastTicket, held, historyVars>> /\ phase' = "loop"
    BY <1>4 DEF EndScope, listVars
  <2>2. NoTimer \in Timer
    BY DEF NoTimer, Timer, NoTicket
  <2>3. TypeOK' /\ now' >= 1
    BY <1>1, <1>4, <2>2 DEF IInv, TypeOK, EndScope, listVars, historyVars
  <2>4. ScanAtHead'
    BY <1>4 DEF IInv, ScanAtHead, EndScope, listVars, Begin
  <2> QED BY <2>1, <2>3, <2>4, QuietStep
<1>5. CASE ListProcessed \/ NotReady \/ RanTooLong \/ StoppedByTerminate
  <2>1. PICK next \in Nat : Leave(next)
    <3>1. CASE ListProcessed
      BY <3>1 DEF ListProcessed, IInv, TypeOK
    <3>2. CASE StoppedByTerminate
      BY <3>2, <1>1 DEF StoppedByTerminate
    <3>3. CASE NotReady \/ RanTooLong
      <4>1. AtTimer /\ Leave(timers[PosIndex].at)
        BY <3>3 DEF NotReady, RanTooLong
      <4>2. PosIndex = 1 /\ timers[1] \in Timer
        BY <4>1, AtFirst
      <4>3. timers[PosIndex].at \in Nat
        BY <4>2 DEF Timer
      <4> QED BY <4>1, <4>3
    <3> QED BY <1>5, <3>1, <3>2, <3>3
  <2>2. UNCHANGED <<timers, lastTicket, held, historyVars>> /\ phase' = "app"
    BY <2>1 DEF Leave, listVars
  <2>3. TypeOK' /\ now' >= 1
    BY <1>1, <2>1 DEF IInv, TypeOK, Leave, listVars, historyVars
  <2>4. ScanAtHead'
    BY <2>2 DEF ScanAtHead
  <2> QED BY <2>2, <2>3, <2>4, QuietStep
<1> QED BY <1>2, <1>3, <1>4, <1>5

LEMMA StepIInv == IInv /\ [Next]_vars => IInv'
<1> SUFFICES ASSUME IInv, [Next]_vars PROVE IInv'
  OBVIOUS
<1>0. now \in Nat /\ now >= 1
  BY DEF IInv, TypeOK
<1>1. ASSUME NEW o \in Owners, NEW d \in Delays, NEW tol \in Tolerances,
             ExecuteOnceAt(o, now + d, tol) \/ RescheduleAt(o, now + d, tol)
      PROVE  IInv'
  <2>1. now + d \in Nat /\ now + d >= 1 /\ tol \in Nat
    BY <1>0, ConstantsAssumption
  <2> QED BY <2>1, <1>1, StepExecuteOnceAt, StepRescheduleAt
<1>2. ASSUME NEW o \in Owners, Cancel(o) \/ Defuse(o) PROVE IInv'
  BY <1>2, StepCancel, StepDefuse
<1>3. ASSUME NEW interval \in Delays, NEW tol \in Tolerances, NEW skip \in Skips,
             Retrigger(IF skip = absolute THEN now + interval ELSE interval, tol, skip)
      PROVE  IInv'
  <2>1. interval \in Nat /\ now + interval \in Nat /\ tol \in Nat
    BY <1>0, ConstantsAssumption
  <2>2. (IF skip = absolute THEN now + interval ELSE interval) \in Nat
    BY <2>1
  <2> QED BY <2>1, <2>2, <1>3, StepRetrigger
<1>4. CASE ExecuteNow
  BY <1>4, StepExecuteNow
<1>5. CASE CheckTimers
  BY <1>5, StepQuiet, StepFire, StepReturn DEF CheckTimers
<1>6. CASE Finalize
  BY <1>6, StepFinalize
<1>7. CASE Terminate \/ Restart \/ Advance
  BY <1>7, StepQuiet
<1>8. CASE UNCHANGED vars
  <2>1. /\ UNCHANGED <<timers, lastTicket, held, historyVars>>
        /\ UNCHANGED <<now, listVars, scanVars, terminated>>
    BY <1>8 DEF vars, listVars
  <2>2. TypeOK' /\ ScanAtHead' /\ now' >= 1
    BY <2>1 DEF IInv, TypeOK, ScanAtHead, listVars, scanVars, historyVars, Begin
  <2>3. phase' = phase /\ running' = running
    BY <2>1 DEF scanVars
  <2>4. phase' = "callback" => Known(running)
    BY <2>3 DEF IInv
  <2> QED BY <2>1, <2>2, <2>3, <2>4, QuietStep DEF Known
<1> QED BY <1>1, <1>2, <1>3, <1>4, <1>5, <1>6, <1>7, <1>8 DEF Next, AppStep

\* The inductive invariant holds in every reachable state of checkTimers.
THEOREM InductiveInvariant == Spec => []IInv
BY InitIInv, StepIInv, PTL DEF Spec

-----------------------------------------------------------------------------
(* The safety properties *)

\* The state of the scheduler is well typed, however callbacks interfere.
THEOREM TypeCorrectness == Spec => []TypeOK
<1>1. IInv => TypeOK
  BY DEF IInv
<1> QED BY <1>1, InductiveInvariant, PTL

\* The list stays sorted by time and, for equal times, by order of scheduling.
THEOREM TimersStaySorted == Spec => []TimersSorted
<1>1. IInv => TimersSorted
  BY DEF IInv, GoodList, TimersSorted
<1> QED BY <1>1, InductiveInvariant, PTL

\* The iterator of checkTimers never refers to anything but the list's head
\* unless the change flag says that it must not be used any more.
THEOREM IteratorIsValid == Spec => []ScanAtHead
<1>1. IInv => ScanAtHead
  BY DEF IInv
<1> QED BY <1>1, InductiveInvariant, PTL

\* A ticket number never names two timers.
THEOREM TicketsStayUnique == Spec => []TicketsUnique
<1>1. IInv => TicketsUnique
  <2> SUFFICES ASSUME IInv PROVE TicketsUnique
    OBVIOUS
  <2>1. \A i, j \in DOMAIN timers : timers[i].ticket = timers[j].ticket => i = j
    BY DEF IInv, GoodList
  <2>2. ASSUME phase = "callback", NEW i \in DOMAIN timers
        PROVE  timers[i].ticket # running.ticket
    BY <2>2 DEF IInv, Elems
  <2> QED BY <2>1, <2>2 DEF TicketsUnique
<1> QED BY <1>1, InductiveInvariant, PTL

\* A cancelled timer never comes back, unless its own callback cancelled it.
THEOREM CancelledTimersStayAway == Spec => []CancelledStaysCancelled
<1>1. IInv => CancelledStaysCancelled
  BY DEF IInv, Elems, Known, CancelledStaysCancelled
<1> QED BY <1>1, InductiveInvariant, PTL

\* A timer scheduled with a ticket remains under the control of its owner.
THEOREM TimersStayOwned == Spec => []TimersAreOwned
<1>1. IInv => TimersAreOwned
  BY DEF IInv, Elems, Known, TimersAreOwned
<1> QED BY <1>1, InductiveInvariant, PTL

\* The list that checkTimers iterates over is consistent in every state, also
\* in the middle of callbacks that change it.
THEOREM ListStaysConsistent == Spec => []ListIsConsistent
<1>1. TypeOK /\ TimersSorted /\ ScanAtHead /\ TicketsUnique => ListIsConsistent
  BY DEF ListIsConsistent
<1> QED BY <1>1, TypeCorrectness, TimersStaySorted, IteratorIsValid, TicketsStayUnique, PTL

\* Tickets keep control of their timers: what is cancelled stays away, and what
\* is pending can be cancelled by its owner.
THEOREM TicketsStayInControl == Spec => []TicketsControlTimers
<1>1. CancelledStaysCancelled /\ TimersAreOwned => TicketsControlTimers
  BY DEF TicketsControlTimers
<1> QED BY <1>1, CancelledTimersStayAway, TimersStayOwned, PTL

-----------------------------------------------------------------------------
(* The action properties *)

\* Callbacks run in order and not before their tolerance allows.
THEOREM CallbacksRunInOrder == Spec => FiresInOrder
<1> DEFINE Good == /\ now + Least(running'.tol, MaxCoalescing) >= running'.at
                   /\ \A i \in DOMAIN timers' : running'.at <= timers'[i].at
<1>1. ASSUME IInv, Fire PROVE Good
  <2>1. /\ timers \in Seq(Timer) /\ scheduled \in Nat /\ GoodList(timers, scheduled)
        /\ AtTimer /\ now \in Nat
    BY <1>1 DEF IInv, TypeOK, Fire
  <2>2. /\ Len(timers) \in Nat /\ DOMAIN timers = 1 .. Len(timers) /\ 1 \in DOMAIN timers
        /\ PosIndex = 1 /\ timers[1] \in Timer
    BY <1>1, <2>1, AtFirst
  <2>3. /\ running' = timers[1] /\ EarliestRun(timers[1]) <= now
        /\ timers' = RemoveAt(timers, 1)
    BY <1>1, <2>2 DEF Fire
  <2>4. now + Least(running'.tol, MaxCoalescing) >= running'.at
    <3>1. /\ timers[1].tol \in Nat /\ timers[1].at \in Nat /\ MaxCoalescing \in Nat
      BY <2>2, ConstantsAssumption DEF Timer
    <3> QED BY <2>1, <2>3, <3>1 DEF EarliestRun, Least
  <2>5. ASSUME NEW i \in DOMAIN timers' PROVE running'.at <= timers'[i].at
    <3>1. Elems(timers') \subseteq Elems(timers)
      BY <2>1, <2>2, <2>3, RemoveProperties
    <3>2. PICK j \in DOMAIN timers : timers'[i] = timers[j]
      BY <3>1 DEF Elems
    <3>3. timers[j].at \in Nat /\ timers[1].at \in Nat
      <4>1. timers[j] \in Timer
        BY <2>1
      <4> QED BY <4>1, <2>2 DEF Timer
    <3>4. j = 1 \/ timers[1].at <= timers[j].at
      BY <2>1, <2>2, <3>3 DEF GoodList
    <3> QED BY <2>3, <3>2, <3>3, <3>4
  <2> QED BY <2>4, <2>5
<1>2. IInv /\ [Next]_vars => [Fire => Good]_vars
  BY <1>1
<1> QED BY <1>2, InductiveInvariant, PTL DEF Spec, FiresInOrder

\* The ways checkTimers can return.
LEMMA LeavingStep ==
  ASSUME [Next]_vars, phase = "loop", phase' = "app"
  PROVE  ListProcessed \/ NotReady \/ RanTooLong \/ StoppedByTerminate
<1>1. ~UNCHANGED vars
  BY DEF vars, scanVars
<1>2. ~AppStep
  BY DEF AppStep, ExecuteOnceAt, RescheduleAt, Cancel, Defuse, Retrigger, ExecuteNow,
         Terminate, AppCode, scanVars
<1>3. ~Finalize /\ ~Restart /\ ~Advance
  BY DEF Finalize, Restart, Advance, scanVars
<1>4. ~BeginCheck /\ ~Rescan /\ ~Fire /\ ~Return /\ ~EndScope
  BY DEF BeginCheck, Rescan, Fire, Return, EndScope
<1> QED BY <1>1, <1>2, <1>3, <1>4 DEF Next, CheckTimers

\* What is known of the list when checkTimers returns.
LEMMA WhenLeaving ==
  ASSUME IInv, ListProcessed \/ NotReady \/ RanTooLong
  PROVE  /\ timers' = timers
         /\ timers # <<>> => /\ nextTimer' = timers[1].at /\ timers[1].at >= 1
                             /\ NotReady \/ RanTooLong
                             /\ NotReady => EarliestRun(timers[1]) > now
<1>1. CASE ListProcessed
  <2>1. timers' = timers /\ pos = NoTicket /\ pos = Begin(timers)
    BY <1>1 DEF ListProcessed, Leave, listVars, IInv, ScanAtHead
  <2>2. ASSUME timers # <<>> PROVE FALSE
    <3>1. timers \in Seq(Timer)
      BY DEF IInv, TypeOK
    <3>2. 1 \in DOMAIN timers
      BY <3>1, <2>2
    <3>3. timers[1].ticket \in 1 .. lastTicket
      BY <3>2 DEF IInv, Known, Elems
    <3> QED BY <2>1, <2>2, <3>3 DEF Begin, NoTicket, IInv, TypeOK
  <2> QED BY <2>1, <2>2
<1>2. CASE NotReady \/ RanTooLong
  <2>1. AtTimer /\ Leave(timers[PosIndex].at)
    BY <1>2 DEF NotReady, RanTooLong
  <2>2. PosIndex = 1 /\ timers[1] \in Elems(timers)
    BY <2>1, AtFirst
  <2>3. timers' = timers /\ nextTimer' = timers[1].at /\ timers[1].at >= 1
    BY <2>1, <2>2 DEF Leave, listVars, IInv, Known
  <2>4. NotReady => EarliestRun(timers[1]) > now
    BY <2>2 DEF NotReady
  <2> QED BY <1>2, <2>3, <2>4
<1> QED BY <1>1, <1>2

\* checkTimers tells its caller in time when it must be called again.
THEOREM NextTimerIsReported == Spec => ReportsNextTimer
<1> DEFINE P == phase = "loop" /\ phase' = "app" /\ ~terminated /\ timers' # <<>> =>
                  nextTimer' # Never /\ nextTimer' <= timers'[1].at
<1>1. ASSUME IInv, [Next]_vars PROVE P
  <2> SUFFICES ASSUME phase = "loop", phase' = "app", ~terminated, timers' # <<>>
               PROVE  nextTimer' # Never /\ nextTimer' <= timers'[1].at
    OBVIOUS
  <2>1. ListProcessed \/ NotReady \/ RanTooLong
    BY <1>1, LeavingStep DEF StoppedByTerminate
  <2>2. timers' = timers /\ nextTimer' = timers[1].at /\ timers[1].at >= 1
    BY <1>1, <2>1, WhenLeaving
  <2>3. timers[1] \in Timer
    BY <1>1, <2>2 DEF IInv, TypeOK
  <2>4. timers[1].at \in Nat
    BY <2>3 DEF Timer
  <2> QED BY <2>2, <2>4 DEF Never
<1>2. IInv /\ [Next]_vars => [P]_vars
  BY <1>1
<1> QED BY <1>2, InductiveInvariant, PTL DEF Spec, ReportsNextTimer

\* Nothing that is due is left in the list by a complete checkTimers.
THEOREM NothingDueIsLeft == Spec => NothingDueLeftBehind
<1> DEFINE P == phase = "loop" /\ phase' = "app" /\ ~terminated /\ now <= runUntil =>
                  \A i \in DOMAIN timers' : timers'[i].at > now
<1>1. ASSUME IInv, [Next]_vars PROVE P
  <2> SUFFICES ASSUME phase = "loop", phase' = "app", ~terminated, now <= runUntil,
                      NEW i \in DOMAIN timers'
               PROVE  timers'[i].at > now
    OBVIOUS
  <2>0. timers \in Seq(Timer) /\ now \in Nat /\ runUntil \in Nat /\ MaxCoalescing \in Nat
    BY <1>1, ConstantsAssumption DEF IInv, TypeOK
  <2>1. ListProcessed \/ NotReady
    BY <1>1, <2>0, LeavingStep DEF StoppedByTerminate, RanTooLong
  <2>2. timers' = timers
    BY <1>1, <2>1, WhenLeaving
  <2>3. timers # <<>> /\ 1 \in DOMAIN timers /\ timers[i] \in Timer /\ timers[1] \in Timer
    BY <2>0, <2>2
  <2>4. NotReady
    BY <1>1, <2>1, <2>3, WhenLeaving DEF NotReady, RanTooLong, ListProcessed, AtTimer
  <2>5. EarliestRun(timers[1]) > now
    BY <1>1, <2>3, <2>4, WhenLeaving
  <2>6. /\ timers[1].at \in Nat /\ timers[1].tol \in Nat /\ timers[i].at \in Nat
    BY <2>3 DEF Timer
  <2>7. timers[1].at > now
    BY <2>0, <2>5, <2>6 DEF EarliestRun, Least
  <2>8. i = 1 \/ timers[1].at <= timers[i].at
    <3>1. DOMAIN timers = 1 .. Len(timers) /\ i \in DOMAIN timers
      BY <2>0, <2>2
    <3> QED BY <1>1, <2>3, <2>6, <3>1 DEF IInv, GoodList
  <2> QED BY <2>0, <2>2, <2>6, <2>7, <2>8
<1>2. IInv /\ [Next]_vars => [P]_vars
  BY <1>1
<1> QED BY <1>2, InductiveInvariant, PTL DEF Spec, NothingDueLeftBehind

\* Callbacks run on time, for every sequence of calls of the scheduling functions.
THEOREM CallbacksRunOnTime == Spec => CallbacksAreOnTime
BY CallbacksRunInOrder, NextTimerIsReported, NothingDueIsLeft, PTL DEF CallbacksAreOnTime

-----------------------------------------------------------------------------
(* Refinement *)

Active == IF phase = "callback" THEN running.ticket ELSE NoTicket

\* A step that schedules is the Schedule step of the abstract service.
LEMMA AddsIsSchedule ==
  ASSUME IInv, IInv', Adds, UNCHANGED <<now, phase>>,
         phase = "callback" => running' = running
  PROVE  Service!Schedule
<1>1. PICK t \in Elems(timers') :
        /\ t.ord = scheduled + 1 /\ scheduled' = scheduled + 1
        /\ Elems(timers') \ {t} \subseteq Elems(timers)
  BY DEF Adds
<1>2. Pending = Elems(timers) /\ Pending' = Elems(timers')
  BY DEF Pending, Elems
<1>3. \A u \in Elems(timers') \ {t} : u.ticket # t.ticket
  BY DEF IInv, GoodList, Elems
<1>4. t.ticket # Active /\ Active' = Active
  <2>1. t.ticket \in 1 .. lastTicket' /\ lastTicket' \in Nat
    BY DEF IInv, Known, TypeOK, Elems
  <2>2. phase = "callback" => t.ticket # running.ticket
    BY DEF IInv, Elems
  <2> QED BY <2>1, <2>2 DEF Active, NoTicket
<1> QED BY <1>1, <1>2, <1>3, <1>4 DEF Service!Schedule, Service!Scheduled, Active

\* Every step of checkTimers and of application code is one of the service.
LEMMA StepService == IInv /\ IInv' /\ [Next]_vars => [Service!Next]_(Service!vars)
<1> SUFFICES ASSUME IInv, IInv', [Next]_vars PROVE [Service!Next]_(Service!vars)
  OBVIOUS
<1> DEFINE Quiet == UNCHANGED <<now, timers, scheduled>> /\ Active' = Active
<1>0. /\ now \in Nat /\ now >= 1 /\ timers \in Seq(Timer) /\ scheduled \in Nat
      /\ GoodList(timers, scheduled) /\ running \in Timer
      /\ Pending = Elems(timers) /\ Pending' = Elems(timers')
  BY DEF IInv, TypeOK, Pending, Elems
<1>1. Quiet => UNCHANGED Service!vars
  BY DEF Service!vars, Pending, Active
<1>2. ASSUME NEW o \in Owners, NEW d \in Delays, NEW tol \in Tolerances,
             ExecuteOnceAt(o, now + d, tol) \/ RescheduleAt(o, now + d, tol)
      PROVE  Service!Next
  <2>1. now + d \in Nat /\ now + d >= 1 /\ tol \in Nat
    BY <1>0, ConstantsAssumption
  <2>2. Adds
    BY <2>1, <1>2, StepExecuteOnceAt, StepRescheduleAt
  <2>3. UNCHANGED <<now, phase, running>>
    BY <1>2 DEF ExecuteOnceAt, RescheduleAt, scanVars
  <2> QED BY <2>2, <2>3, AddsIsSchedule DEF Service!Next
<1>3. CASE ExecuteNow
  <2>1. Adds
    BY <1>3, StepExecuteNow
  <2>2. UNCHANGED <<now, phase, running>>
    BY <1>3 DEF ExecuteNow, scanVars
  <2> QED BY <2>1, <2>2, AddsIsSchedule DEF Service!Next
<1>4. ASSUME NEW o \in Owners, Cancel(o) PROVE Service!Next
  <2>1. Elems(timers') \subseteq Elems(timers)
    BY <1>4, StepCancel
  <2>2. UNCHANGED <<now, phase, running, scheduled>>
    BY <1>4 DEF Cancel, scanVars
  <2> QED BY <2>1, <2>2, <1>0 DEF Service!Next, Service!Withdraw
<1>5. CASE Finalize
  <2>1. timers' = <<>> /\ UNCHANGED <<now, phase, running, scheduled>>
    BY <1>5 DEF Finalize, scanVars, historyVars
  <2>2. Elems(timers') = {}
    BY <2>1 DEF Elems
  <2> QED BY <2>1, <2>2, <1>0 DEF Service!Next, Service!Withdraw
<1>6. CASE Advance
  <2>1. now' > now /\ UNCHANGED <<timers, phase, running, scheduled>>
    BY <1>6, <1>0 DEF Advance, listVars, scanVars, historyVars
  <2> QED BY <2>1 DEF Service!Next, Service!Tick, Pending
<1>7. CASE Fire
  <2>1. AtTimer /\ phase = "loop"
    BY <1>7 DEF Fire, AtTimer
  <2>2. /\ DOMAIN timers = 1 .. Len(timers) /\ 1 \in DOMAIN timers /\ PosIndex = 1
        /\ timers[1] \in Timer /\ timers[1] \in Elems(timers)
    BY <2>1, AtFirst
  <2>3. /\ timers' = RemoveAt(timers, 1) /\ running' = timers[1] /\ phase' = "callback"
        /\ EarliestRun(timers[1]) <= now /\ UNCHANGED <<now, scheduled>>
    BY <1>7, <2>2 DEF Fire, historyVars
  <2>4. Elems(timers') = Elems(timers) \ {timers[1]}
    BY <2>2, <2>3, <1>0, RemoveProperties
  <2>5. timers[1].at - Service!Tolerated(timers[1]) <= now
    BY <2>3 DEF EarliestRun, Service!Tolerated, Least
  <2>6. ASSUME NEW u \in Elems(timers) \ {timers[1]} PROVE Service!Before(timers[1], u)
    <3>1. PICK j \in DOMAIN timers : u = timers[j]
      BY DEF Elems
    <3>2. 1 < j
      BY <3>1, <2>2, <2>6
    <3> QED BY <3>1, <3>2, <2>2, <1>0 DEF GoodList, Service!Before
  <2>7. Active = 0 /\ Active' = timers[1].ticket
    BY <2>1, <2>3 DEF Active, NoTicket
  <2> QED BY <2>2, <2>3, <2>4, <2>5, <2>6, <2>7, <1>0 DEF Service!Next, Service!Execute, Active
<1>8. CASE Return
  <2>1. phase = "callback" /\ phase' = "dtor" /\ now' = now /\ running' = running
    BY <1>8 DEF Return
  <2>2. Known(running)
    BY <2>1 DEF IInv
  <2>3. Active # 0 /\ Active' = 0
    BY <2>1, <2>2 DEF Active, NoTicket, Known
  <2>4. CASE ~reinsert
    <3>1. UNCHANGED <<timers, scheduled>>
      BY <1>8, <2>4 DEF Return
    <3> QED BY <2>1, <2>3, <3>1 DEF Service!Next, Service!Finish, Pending, Active
  <2>5. CASE reinsert
    <3> DEFINE t == [running EXCEPT !.ord = scheduled + 1]
    <3>1. timers' = ScheduleTimer(timers, t) /\ scheduled' = scheduled + 1
      BY <1>8, <2>5 DEF Return
    <3>2. t \in Timer /\ t.ord = scheduled + 1 /\ t.ticket = running.ticket
      <4>1. scheduled + 1 \in Nat /\ running \in Timer
        BY <1>0
      <4> QED BY <4>1 DEF Timer
    <3>3. \A u \in Elems(timers) : u.ticket # running.ticket
      BY <2>1 DEF IInv
    <3> HIDE DEF t
    <3>4. Elems(timers') = Elems(timers) \cup {t}
      BY <3>1, <3>2, <3>3, <1>0, ScheduleTimerProperties
    <3>5. \E u \in Elems(timers') : Service!Scheduled(u) /\ u.ticket = Active
      <4>1. /\ t \in Elems(timers') /\ t.ticket = Active
            /\ Elems(timers') \ {t} \subseteq Elems(timers)
            /\ \A u \in Elems(timers') \ {t} : u.ticket # t.ticket
        BY <2>1, <3>2, <3>3, <3>4 DEF Active
      <4> QED BY <4>1, <3>1, <3>2, <1>0 DEF Service!Scheduled
    <3> QED BY <2>1, <2>3, <3>4, <3>5, <1>0 DEF Service!Next, Service!Finish, Active
  <2> QED BY <2>4, <2>5
<1>9. ASSUME NEW o \in Owners, Defuse(o) PROVE Quiet
  BY <1>9 DEF Defuse, scanVars, Active
<1>10. ASSUME NEW interval \in Delays, NEW tol \in Tolerances, NEW skip \in Skips,
              Retrigger(IF skip = absolute THEN now + interval ELSE interval, tol, skip)
       PROVE  Quiet
  <2> DEFINE i == IF skip = absolute THEN now + interval ELSE interval
             r == Retriggered(running, reinsert, i, tol, skip, now)
  <2>1. i \in Nat /\ tol \in Nat /\ skip \in {k \in Int : k >= -3}
    BY <1>0, ConstantsAssumption
  <2>2. phase = "callback" /\ running' = r.timer /\ UNCHANGED <<now, listVars, phase, historyVars>>
    BY <1>10 DEF Retrigger
  <2>3. running.at >= 1 /\ reinsert \in BOOLEAN
    BY <2>2 DEF IInv, Known, TypeOK
  <2>4. r.timer.ticket = running.ticket
    <3> HIDE DEF i
    <3>1. running \in Timer /\ now \in Nat /\ now >= 1
      BY <1>0
    <3>2. Rearmed(running, r)
      BY <2>1, <2>3, <3>1, RetriggeredProperties
    <3> HIDE DEF r
    <3> QED BY <3>2 DEF Rearmed
  <2> HIDE DEF i, r
  <2>5. Active' = Active
    BY <2>2, <2>4 DEF Active
  <2> QED BY <2>2, <2>5 DEF listVars, historyVars
<1>11. ASSUME Terminate \/ Restart PROVE Quiet
  <2>1. UNCHANGED <<now, timers, scheduled, phase, running>>
    BY <1>11 DEF Terminate, Restart, listVars, scanVars, historyVars
  <2> QED BY <2>1 DEF Active
<1>12. ASSUME BeginCheck \/ Rescan \/ EndScope PROVE Quiet
  <2>1. UNCHANGED <<now, timers, scheduled>> /\ phase # "callback" /\ phase' # "callback"
    BY <1>12 DEF BeginCheck, Rescan, EndScope, listVars, historyVars
  <2> QED BY <2>1 DEF Active
<1>13. ASSUME ListProcessed \/ NotReady \/ RanTooLong \/ StoppedByTerminate PROVE Quiet
  <2>1. PICK next : Leave(next) /\ phase = "loop"
    BY <1>13 DEF ListProcessed, NotReady, RanTooLong, StoppedByTerminate, AtTimer
  <2>2. UNCHANGED <<now, timers, scheduled>> /\ phase # "callback" /\ phase' # "callback"
    BY <2>1 DEF Leave, listVars, historyVars
  <2> QED BY <2>2 DEF Active
<1>14. ASSUME UNCHANGED vars PROVE Quiet
  <2>1. UNCHANGED <<now, timers, scheduled, phase, running>>
    BY <1>14 DEF vars, listVars, scanVars, historyVars
  <2> QED BY <2>1 DEF Active
<1> HIDE DEF Quiet
<1> QED BY <1>1, <1>2, <1>3, <1>4, <1>5, <1>6, <1>7, <1>8, <1>9, <1>10, <1>11, <1>12,
           <1>13, <1>14 DEF Next, AppStep, CheckTimers

\* The sorted list with its iterator, its change flag and its copies of the
\* executed timer implements the abstract timer service.
THEOREM Refinement == Spec => ImplementsTimerService
<1>1. Init => Service!Init
  <2> SUFFICES ASSUME Init PROVE Service!Init
    OBVIOUS
  <2>1. DOMAIN timers = {}
    BY DEF Init
  <2> QED BY <2>1 DEF Init, Service!Init, Pending, NoTicket
<1> QED BY <1>1, StepService, InductiveInvariant, PTL
        DEF Spec, ImplementsTimerService, Service!Spec

-----------------------------------------------------------------------------
(* Waits *)

WaitTypes ==
  /\ child \in [Children -> {"none", "running", "zombie", "gone"}]
  /\ status \in [Children -> Statuses]
  /\ waits \subseteq Children /\ oldHandlers \subseteq Children /\ called \subseteq Children

\* Who is still waited for, in either list, has not been called; when such a
\* child has gone already, the kernel has not kept its status.
WaitInv ==
  /\ \A c \in called : child[c] = "gone" /\ c \notin waits /\ c \notin oldHandlers
  /\ \A c \in waits : child[c] # "none" /\ (child[c] = "gone" => c \in lost)
  /\ \A c \in oldHandlers : child[c] = "gone" /\ c \in lost /\ c \notin waits
  /\ InWaitCallback => current[1] \in Children
  /\ StatusesAreReal

WaitIInv == WaitTypes /\ WaitInv

\* A step that changes nothing of the children but may forget waits, and that
\* calls no wait callback, keeps the invariant.
Forgets ==
  /\ child' = child /\ status' = status /\ called' = called /\ lost' = lost
  /\ waits' \in SUBSET waits /\ oldHandlers' = oldHandlers
  /\ InWaitCallback' => InWaitCallback /\ current' = current

LEMMA ForgetsKeeps ==
  ASSUME WaitIInv, Forgets
  PROVE  WaitIInv'
<1>1. WaitTypes'
  BY DEF WaitIInv, WaitTypes, Forgets
<1>2. StatusesAreReal' /\ (InWaitCallback' => current'[1] \in Children)
  BY DEF WaitIInv, WaitInv, Forgets, StatusesAreReal
<1> QED BY <1>1, <1>2 DEF WaitIInv, WaitInv, Forgets

\* waitpid() returns a child that is waited for: its handler is called with its
\* status, and erased.
LEMMA ReapWaitedKeeps ==
  ASSUME WaitIInv, NEW c \in Children, ReapWaited(c)
  PROVE  WaitIInv' /\ c \notin called
<1> USE DEF ReapWaited, CallWaitHandler, WaitIInv, WaitTypes
<1>1. /\ current' = <<c, status[c]>> /\ child' = [child EXCEPT ![c] = "gone"]
      /\ waits' = waits \ {c} /\ called' = called \cup {c} /\ c \in waits /\ child[c] = "zombie"
      /\ UNCHANGED <<status, oldHandlers, lost>>
  OBVIOUS
<1>2. c \notin called /\ c \notin oldHandlers
  BY <1>1 DEF WaitInv
<1>3. WaitTypes'
  BY <1>1
<1>4. StatusesAreReal' /\ current'[1] \in Children
  BY <1>1 DEF StatusesAreReal
<1> QED BY <1>1, <1>2, <1>3, <1>4 DEF WaitInv

\* Without children the wait is ended from the copied list.
LEMMA EndWaitKeeps ==
  ASSUME WaitIInv, NEW c \in Children, EndWait(c)
  PROVE  WaitIInv' /\ c \notin called
<1> USE DEF EndWait, CallWaitHandler, WaitIInv, WaitTypes
<1>1. /\ current' = <<c, FakeStatus>> /\ oldHandlers' = oldHandlers \ {c}
      /\ called' = called \cup {c} /\ c \in oldHandlers
      /\ UNCHANGED <<child, status, waits, lost>>
  OBVIOUS
<1>2. c \notin called /\ c \notin waits /\ child[c] = "gone" /\ c \in lost
  BY <1>1 DEF WaitInv
<1>3. WaitTypes'
  BY <1>1
<1>4. StatusesAreReal' /\ current'[1] \in Children
  BY <1>1, <1>2 DEF StatusesAreReal
<1> QED BY <1>1, <1>2, <1>3, <1>4 DEF WaitInv

\* waitpid() returns a child that nobody waits for.
LEMMA ReapUnknownKeeps ==
  ASSUME WaitIInv, NEW c \in Children, ReapUnknown(c)
  PROVE  WaitIInv'
<1> USE DEF ReapUnknown, Checked, WaitIInv, WaitTypes
<1>1. /\ child' = [child EXCEPT ![c] = "gone"] /\ child[c] = "zombie" /\ c \notin waits
      /\ UNCHANGED <<status, waits, oldHandlers, called, lost>> /\ ~InWaitCallback'
  BY DEF InWaitCallback, InCallback
<1>2. WaitTypes'
  BY <1>1
<1> QED BY <1>1, <1>2 DEF WaitInv, StatusesAreReal

\* waitpid() finds no children at all: those waited for have gone without status.
LEMMA NoChildrenKeeps ==
  ASSUME WaitIInv, NoChildren
  PROVE  WaitIInv'
<1> USE DEF WaitIInv, WaitTypes
<1>1. /\ oldHandlers' = waits /\ waits' = {} /\ ~InWaitCallback'
      /\ UNCHANGED <<child, status, called, lost>>
  BY DEF NoChildren, InWaitCallback, InCallback
<1>2. ASSUME NEW c \in waits PROVE child[c] = "gone"
  BY <1>2 DEF NoChildren, InState, WaitInv
<1>3. WaitTypes'
  BY <1>1
<1> QED BY <1>1, <1>2, <1>3 DEF WaitInv, StatusesAreReal

\* A child is forked and waited for.
LEMMA ForkKeeps ==
  ASSUME WaitIInv, NEW c \in Children, Fork(c)
  PROVE  WaitIInv'
<1> USE DEF WaitIInv, WaitTypes
<1>1. /\ child' = [child EXCEPT ![c] = "running"] /\ child[c] = "none" /\ waits' = waits \cup {c}
      /\ UNCHANGED <<pc, resume, current, status, oldHandlers, called, lost>>
  BY DEF Fork
<1>2. WaitTypes'
  BY <1>1
<1>3. StatusesAreReal' /\ (InWaitCallback' => current'[1] \in Children)
  BY <1>1 DEF WaitInv, StatusesAreReal, InWaitCallback, InCallback
<1> QED BY <1>1, <1>2, <1>3 DEF WaitInv

\* A child exits; the kernel keeps its status unless SIGCHLD is ignored.
LEMMA ChildExitsKeeps ==
  ASSUME WaitIInv, NEW c \in Children, NEW s \in Statuses, NEW ignored \in BOOLEAN,
         ChildExits(c, s, ignored)
  PROVE  WaitIInv'
<1> USE DEF WaitIInv, WaitTypes
<1>1. /\ child[c] = "running"
      /\ child' = [child EXCEPT ![c] = IF ignored THEN "gone" ELSE "zombie"]
      /\ status' = [status EXCEPT ![c] = s]
      /\ lost' = IF ignored THEN lost \cup {c} ELSE lost
      /\ UNCHANGED <<pc, resume, current, waits, oldHandlers, called>>
  BY DEF ChildExits
<1>2. WaitTypes'
  BY <1>1
<1>3. StatusesAreReal' /\ (InWaitCallback' => current'[1] \in Children)
  BY <1>1 DEF WaitInv, StatusesAreReal, InWaitCallback, InCallback
<1> QED BY <1>1, <1>2, <1>3 DEF WaitInv

\* Everything else at most forgets waits.
LEMMA OthersForget ==
  ASSUME WaitIInv, [CycleNext]_cycleVars,
         ~\E c \in Children : ReapWaited(c) \/ EndWait(c) \/ ReapUnknown(c) \/ Fork(c),
         ~NoChildren,
         ~\E c \in Children, s \in Statuses, ignored \in BOOLEAN : ChildExits(c, s, ignored)
  PROVE  Forgets
<1> USE DEF Forgets, InWaitCallback, InCallback, childVars
<1>1. CASE UNCHANGED cycleVars
  BY <1>1 DEF cycleVars
<1>2. CASE CallbackStep
  <2>1. ASSUME NEW t \in Timers, NEW d \in TimerDelays, Schedule(t, d)
        PROVE  Forgets
    BY <2>1 DEF Schedule
  <2>2. ASSUME NEW f \in Fds, UnregisterPollHandler(f) \/ Consume(f)
        PROVE  Forgets
    BY <2>2 DEF UnregisterPollHandler, Consume
  <2>3. ASSUME NEW f \in Fds, NEW a \in SUBSET Flags, NEW b \in SUBSET Flags,
               RegisterPollHandler(f, a) \/ ChangePollFlags(f, a, b)
        PROVE  Forgets
    BY <2>3 DEF RegisterPollHandler, ChangePollFlags
  <2>4. ASSUME NEW c \in Children, CancelWait(c) PROVE Forgets
    BY <2>4 DEF CancelWait
  <2>5. ASSUME NEW t \in Timers, CancelTimer(t) PROVE Forgets
    BY <2>5 DEF CancelTimer
  <2>6. TerminateLoop => Forgets
    BY DEF TerminateLoop
  <2> QED BY <1>2, <2>1, <2>2, <2>3, <2>4, <2>5, <2>6 DEF CallbackStep
<1>3. CASE LoopStep
  <2>1. StartCycle \/ CycleSlept \/ CycleRanTooLong \/ CycleContinues \/ CycleTerminated
          \/ Throttle \/ FinalizeMainLoop => Forgets
    BY DEF StartCycle, CycleSlept, CycleRanTooLong, CycleContinues, CycleTerminated, Throttle,
           FinalizeMainLoop, BeginTimers
  <2>2. ASSUME ReturnFromCallback PROVE Forgets
    <3>1. ~InWaitCallback'
      BY <2>2 DEF ReturnFromCallback, Checked
    <3> QED BY <2>2, <3>1 DEF ReturnFromCallback
  <2>3. TimersChecked \/ (\E t \in Timers : FireTimer(t)) => Forgets
    BY DEF TimersChecked, FireTimer
  <2>4. NothingToWaitFor \/ OnlyRunning \/ WaitsEnded => Forgets
    BY DEF NothingToWaitFor, OnlyRunning, WaitsEnded, Checked
  <2>5. EnterPoll \/ PollReturnsReady \/ PollTimesOut \/ AllHandled => Forgets
    BY DEF EnterPoll, PollReturnsReady, PollTimesOut, AllHandled
  <2>6. (\E f \in Fds : CallPollHandler(f) \/ SkipPollHandler(f)) => Forgets
    BY DEF CallPollHandler, SkipPollHandler
  <2> QED BY <1>3, <2>1, <2>2, <2>3, <2>4, <2>5, <2>6 DEF LoopStep
<1>4. CASE RunAgain
  BY <1>4 DEF RunAgain
<1>5. CASE Environment
  <2>1. Tick \/ Signal \/ (\E f \in Fds, e \in Flags : FdBecomesReady(f, e)) => Forgets
    BY DEF Tick, Signal, FdBecomesReady
  <2> QED BY <1>5, <2>1 DEF Environment
<1> QED BY <1>1, <1>2, <1>3, <1>4, <1>5 DEF CycleNext

LEMMA WaitInitInvariant == CycleInit => WaitIInv
BY DEF CycleInit, WaitIInv, WaitTypes, WaitInv, StatusesAreReal, InWaitCallback, Statuses

LEMMA NextKeepsWaits ==
  ASSUME WaitIInv, [CycleNext]_cycleVars
  PROVE  WaitIInv'
BY ForgetsKeeps, OthersForget, ReapWaitedKeeps, EndWaitKeeps, ReapUnknownKeeps, NoChildrenKeeps,
   ForkKeeps, ChildExitsKeeps

\* The two lists of waitForPid() and checkWait() hold no child whose wait callback
\* has been called, and a status reported to one is the child's own.
THEOREM WaitInvariant == CycleSpec => []WaitIInv
BY WaitInitInvariant, NextKeepsWaits, PTL DEF CycleSpec

\* The wait callback of a child that checkWait() has found, or of one that it
\* has given up, is called after the child has gone, with the child's own status
\* unless the kernel has not kept that, and for the first time.
THEOREM WaitsAreEndedOnce == CycleSpec => WaitsEndOnce
<1>1. ASSUME WaitIInv, [CycleNext]_cycleVars, InWaitCallback', ~InCallback
      PROVE  StatusesAreReal' /\ current'[1] \notin called
  <2>1. ~Forgets
    BY <1>1 DEF Forgets, InWaitCallback
  <2>2. ~NoChildren
    BY <1>1 DEF NoChildren, InWaitCallback, InCallback
  <2>3. ASSUME NEW c \in Children, ReapUnknown(c) \/ Fork(c) PROVE FALSE
    BY <1>1, <2>3 DEF ReapUnknown, Checked, Fork, InWaitCallback, InCallback
  <2>4. ASSUME NEW c \in Children, NEW s \in Statuses, NEW ignored \in BOOLEAN,
               ChildExits(c, s, ignored)
        PROVE  FALSE
    BY <1>1, <2>4 DEF ChildExits, InWaitCallback, InCallback
  <2>5. PICK c \in Children : ReapWaited(c) \/ EndWait(c)
    BY <1>1, <2>1, <2>2, <2>3, <2>4, OthersForget
  <2>6. current'[1] = c
    BY <2>5 DEF ReapWaited, EndWait, CallWaitHandler
  <2>7. c \notin called /\ WaitIInv'
    BY <1>1, <2>5, ReapWaitedKeeps, EndWaitKeeps
  <2> QED BY <2>6, <2>7 DEF WaitIInv, WaitInv
<1>2. WaitIInv /\ [CycleNext]_cycleVars =>
        [InWaitCallback' /\ ~InCallback => StatusesAreReal' /\ current'[1] \notin called]_cycleVars
  BY <1>1
<1> QED BY <1>2, WaitInvariant, PTL DEF CycleSpec, WaitsEndOnce

-----------------------------------------------------------------------------
(* Sleep *)

Times == Nat \cup {NoTime}

SleepTypes ==
  /\ timeLeft \in [Timers -> Times] /\ nextWake \in Times /\ pollLeft \in Times
  /\ runElapsed \in Nat /\ cycleElapsed \in Nat
  /\ resume \in {"run", "timers", "recheck", "ending", "dispatch"}

\* A time that does not lie behind any timer's.
NotLate(time) == \A t \in Scheduled : time # NoTime /\ time <= timeLeft[t]

\* The next timer that checkTimers() has reported is still the next one when
\* mainLoopCycle() computes how long to sleep, since nothing is called in between.
SleepInv ==
  /\ SleepTypes
  /\ pc \in {"wait", "limit"} => NotLate(nextWake)
  /\ pc = "polling" => pollLeft = 0 \/ NotLate(pollLeft)
  /\ pc # "ending"

LEMMA TimesFact == Times \subseteq Int /\ \A x \in Times : x # NoTime => x \in Nat
BY DEF Times, NoTime

\* checkTimers() reports the time of the next timer.
LEMMA NextTimerIsNotLate ==
  ASSUME SleepTypes, Due = {} \/ runElapsed > CycleMaxRun
  PROVE  NextTimer \in Times /\ NotLate(NextTimer)
<1> USE DEF SleepTypes, Times, NoTime
<1>1. CASE Due # {}
  BY <1>1 DEF NextTimer, NotLate, Scheduled
<1>2. CASE Due = {} /\ Scheduled # {}
  <2> DEFINE S == {timeLeft[t] : t \in Scheduled}
  <2>1. S \in SUBSET Nat /\ S # {}
    BY <1>2 DEF Scheduled
  <2>2. Min(S) \in S /\ \A k \in S : Min(S) <= k
    BY <2>1, MinIsLeast
  <2>3. NextTimer = Min(S)
    BY <1>2 DEF NextTimer
  <2> QED BY <2>1, <2>2, <2>3 DEF NotLate
<1>3. CASE Due = {} /\ Scheduled = {}
  BY <1>3 DEF NextTimer, NotLate
<1> QED BY <1>1, <1>2, <1>3

\* Waking earlier is not later.
LEMMA LimitedIsNotLate ==
  ASSUME NEW wake \in Times, NEW limit \in Nat, cycleElapsed \in Nat
  PROVE  /\ Limited(wake, limit) \in Times
         /\ wake = NoTime <=> Limited(wake, limit) = NoTime
         /\ wake # NoTime => Limited(wake, limit) <= wake
BY DEF Limited, AtLeast0, Times, NoTime

LEMMA WakeIsNotLate ==
  ASSUME SleepTypes, NotLate(nextWake)
  PROVE  Wake \in Times /\ NotLate(Wake)
<1> USE DEF SleepTypes, Times, NoTime, Infinite
<1>1. CASE MaxSleep = Infinite
  BY <1>1 DEF Wake
<1>2. CASE MaxSleep # Infinite /\ nextWake = NoTime
  BY <1>2, CycleConstants DEF Wake, AtLeast0, NotLate
<1>3. CASE MaxSleep # Infinite /\ nextWake # NoTime
  <2>1. MaxSleep \in Nat /\ Wake = Limited(nextWake, MaxSleep)
    BY <1>3, CycleConstants DEF Wake
  <2>2. Wake \in Times /\ Wake # NoTime /\ Wake <= nextWake
    BY <1>3, <2>1, LimitedIsNotLate
  <2> QED BY <2>2 DEF NotLate, Scheduled
<1> QED BY <1>1, <1>2, <1>3

\* poll()'s timeout in milliseconds is cut, not rounded up.
LEMMA CutToMilliSeconds ==
  ASSUME NEW x \in Nat, NEW m \in Nat \ {0}
  PROVE  (x \div m) * m \in Nat /\ (x \div m) * m <= x
OBVIOUS

LEMMA PollTimeIsNotLate ==
  ASSUME SleepTypes, NEW wake \in Times, NotLate(wake)
  PROVE  PollTime(wake) \in Times /\ (PollTime(wake) = 0 \/ NotLate(PollTime(wake)))
<1> USE DEF Times, NoTime, Infinite
<1>1. CASE wake = NoTime
  BY <1>1 DEF PollTime
<1>2. CASE wake # NoTime /\ Polled = {}
  BY <1>2 DEF PollTime
<1>3. CASE wake # NoTime /\ Polled # {}
  <2>1. PollTime(wake) = (wake \div MilliSecond) * MilliSecond
    BY <1>3 DEF PollTime
  <2>2. PollTime(wake) \in Nat /\ PollTime(wake) <= wake
    BY <1>3, <2>1, CutToMilliSeconds, CycleConstants
  <2> QED BY <1>3, <2>2 DEF NotLate, Scheduled, SleepTypes
<1> QED BY <1>1, <1>2, <1>3

\* The parts of the cycle that set a time.
LEMMA TimersCheckedKeeps ==
  ASSUME SleepInv, TimersChecked
  PROVE  SleepInv'
<1> USE DEF SleepInv, SleepTypes, TimersChecked, timerVars
<1>1. UNCHANGED <<timeLeft, resume, pollLeft, cycleElapsed>> /\ runElapsed' = 0
      /\ nextWake' = NextTimer /\ pc' = (IF mTerminated THEN "run" ELSE "wait")
  OBVIOUS
<1>2. CASE Due = {} \/ runElapsed > CycleMaxRun
  BY <1>1, <1>2, NextTimerIsNotLate DEF NotLate, Scheduled
<1>3. CASE ~(Due = {} \/ runElapsed > CycleMaxRun)
  BY <1>1, <1>3 DEF NextTimer, Times
<1> QED BY <1>2, <1>3

LEMMA EnterPollKeeps ==
  ASSUME SleepInv, EnterPoll
  PROVE  SleepInv'
<1>1. UNCHANGED <<timeLeft, resume, runElapsed, cycleElapsed>>
      /\ nextWake' = NoTime /\ pollLeft' = PollTime(Wake) /\ pc' = "polling"
  BY DEF EnterPoll, timerVars
<1>2. NotLate(nextWake)
  BY DEF SleepInv, EnterPoll
<1>3. PollTime(Wake) \in Times /\ (PollTime(Wake) = 0 \/ NotLate(PollTime(Wake)))
  BY <1>2, WakeIsNotLate, PollTimeIsNotLate DEF SleepInv
<1> QED BY <1>1, <1>3 DEF SleepInv, SleepTypes, NotLate, Scheduled, Times

\* While poll() waits, its own timeout and the timers come closer together.
LEMMA TickKeeps ==
  ASSUME SleepInv, Tick
  PROVE  SleepInv'
<1> USE DEF SleepInv, SleepTypes, Times, NoTime
<1>1. /\ pc \in {"callback", "polling", "throttle"} /\ pc' = pc /\ resume' = resume
      /\ pc = "polling" => pollLeft # 0
      /\ timeLeft' = [t \in Timers |-> Sooner(timeLeft[t])]
      /\ nextWake' = Sooner(nextWake) /\ pollLeft' = Sooner(pollLeft)
  BY DEF Tick
<1>2. runElapsed' \in Nat /\ cycleElapsed' \in Nat
  BY DEF Tick, Later
<1>3. \A x \in Times : Sooner(x) \in Times
  BY DEF Sooner
<1>4. SleepTypes'
  BY <1>1, <1>2, <1>3
<1>5. ASSUME pc = "polling" PROVE NotLate(pollLeft)'
  <2>1. ASSUME NEW t \in Timers, timeLeft'[t] # NoTime
        PROVE  pollLeft' # NoTime /\ pollLeft' <= timeLeft'[t]
    <3>1. timeLeft[t] \in Nat /\ timeLeft'[t] = Sooner(timeLeft[t])
      BY <1>1, <2>1 DEF Sooner
    <3>2. pollLeft # NoTime /\ pollLeft <= timeLeft[t] /\ pollLeft # 0 /\ pollLeft \in Nat
      BY <1>1, <1>5, <3>1 DEF NotLate, Scheduled
    <3> QED BY <1>1, <3>1, <3>2 DEF Sooner
  <2> QED BY <2>1 DEF NotLate, Scheduled
<1> QED BY <1>1, <1>4, <1>5

\* In a loop that waits for no children nobody is called between checkTimers()
\* and the poll, and callbacks go back to checkTimers() or to the handlers.
LEMMA NextKeepsSleep ==
  ASSUME WaitIInv, SleepInv, Children = {}, [CycleNext]_cycleVars
  PROVE  SleepInv'
<1> USE DEF SleepInv, SleepTypes, timerVars, clockVars
<1>0. waits = {} /\ ~InWaitCallback
  BY DEF WaitIInv, WaitTypes, WaitInv
<1>1. CASE UNCHANGED cycleVars
  BY <1>1 DEF cycleVars, NotLate, Scheduled
<1>2. CASE CallbackStep
  <2>1. pc = "callback" /\ pc' = pc /\ UNCHANGED <<resume, nextWake, clockVars>>
    BY <1>2 DEF CallbackStep, InCallback, CancelTimer, Schedule, UnregisterPollHandler, Consume,
       RegisterPollHandler, ChangePollFlags, Fork, CancelWait, TerminateLoop
  <2>2. timeLeft' \in [Timers -> Times]
    <3>1. ASSUME NEW t \in Timers, NEW d \in TimerDelays, Schedule(t, d)
          PROVE  timeLeft' \in [Timers -> Times]
      BY <3>1, CycleConstants DEF Schedule, Times
    <3>2. ASSUME NEW t \in Timers, CancelTimer(t) PROVE timeLeft' \in [Timers -> Times]
      BY <3>2 DEF CancelTimer, Times
    <3>3. (\E t \in Timers : CancelTimer(t) \/ \E d \in TimerDelays : Schedule(t, d))
            \/ timeLeft' = timeLeft
      BY <1>2 DEF CallbackStep, UnregisterPollHandler, Consume, RegisterPollHandler, ChangePollFlags,
         Fork, CancelWait, TerminateLoop
    <3> QED BY <3>1, <3>2, <3>3
  <2> QED BY <2>1, <2>2
<1>3. CASE LoopStep
  <2> USE DEF Times
  <2>1. StartCycle \/ CycleSlept \/ CycleRanTooLong \/ CycleContinues \/ CycleTerminated
          \/ Throttle => SleepInv'
    BY DEF StartCycle, CycleSlept, CycleRanTooLong, CycleContinues, CycleTerminated, Throttle,
           BeginTimers
  <2>2. ASSUME ReturnFromCallback PROVE SleepInv'
    BY <2>2, <1>0 DEF ReturnFromCallback, InWaitCallback, InCallback
  <2>3. FinalizeMainLoop => SleepInv'
    BY DEF FinalizeMainLoop
  <2>4. ASSUME NEW t \in Timers, FireTimer(t) PROVE SleepInv'
    BY <2>4 DEF FireTimer
  <2>5. NothingToWaitFor => SleepInv'
    BY DEF NothingToWaitFor, Checked, NotLate, Scheduled
  <2>6. ~(OnlyRunning \/ NoChildren \/ WaitsEnded)
    BY <1>0 DEF OnlyRunning, NoChildren, WaitsEnded
  <2>7. PollReturnsReady \/ PollTimesOut \/ AllHandled => SleepInv'
    BY DEF PollReturnsReady, PollTimesOut, AllHandled
  <2>8. ASSUME NEW f \in Fds, CallPollHandler(f) \/ SkipPollHandler(f) PROVE SleepInv'
    BY <2>8 DEF CallPollHandler, SkipPollHandler
  <2> QED BY <1>3, <2>1, <2>2, <2>3, <2>4, <2>5, <2>6, <2>7, <2>8, TimersCheckedKeeps,
             EnterPollKeeps DEF LoopStep
<1>4. CASE RunAgain
  BY <1>4 DEF RunAgain
<1>5. CASE Environment
  <2>1. ASSUME Signal PROVE SleepInv'
    BY <2>1 DEF Signal, NotLate, Scheduled, Times
  <2>2. ASSUME NEW f \in Fds, NEW e \in Flags, FdBecomesReady(f, e) PROVE SleepInv'
    BY <2>2 DEF FdBecomesReady, NotLate, Scheduled
  <2> QED BY <1>5, <2>1, <2>2, TickKeeps DEF Environment
<1> QED BY <1>1, <1>2, <1>3, <1>4, <1>5 DEF CycleNext

\* A loop that waits for no children does not sleep past a timer, whenever that
\* is scheduled and whatever else callbacks do.
THEOREM SleepEndsInTime == Children = {} => (CycleSpec => []NeverOversleeps)
<1> SUFFICES ASSUME Children = {} PROVE CycleSpec => []NeverOversleeps
  OBVIOUS
<1>1. CycleInit => SleepInv
  BY DEF CycleInit, SleepInv, SleepTypes, Times
<1>2. WaitIInv /\ SleepInv /\ [CycleNext]_cycleVars => SleepInv'
  BY NextKeepsSleep
<1>3. SleepInv => NeverOversleeps
  BY DEF SleepInv, NeverOversleeps, NotLate, NoTime, Infinite
<1> QED BY <1>1, <1>2, <1>3, WaitInvariant, PTL DEF CycleSpec

-----------------------------------------------------------------------------
(* Proofs about ChildThread, for any number and kinds of calls, and whenever *)
(* the application makes them. *)

\* TypeOK, and the values that only have their real type in some places.
Typed ==
  /\ ThreadTypeOK
  /\ ppc = "startLock" => pcall \in Routine
  /\ cpc = "callLock" => ccall \in Routine
  /\ pipe \in {<<>>, <<"call">>, <<"completed">>}

\* The parent has not answered the child's call yet.
InParentCallback == ppc \in {"callback", "doneLock"} \/ (ppc = "join" /\ back = "callback")
Answering == pipe = <<"call">> \/ InParentCallback

\* The thread's end is noticed once: only join ends it, and only cancel() kills it.
EndInv ==
  /\ Len(final) <= 1
  /\ threadRunning => final = <<>>
  /\ ppc = "join" => threadRunning
  /\ threadCancelled => ppc = "join" \/ ~threadRunning
  /\ cpc = "killed" => threadCancelled

\* A child whose call is being answered waits for that.
AnswerInv ==
  /\ Answering => cpc \in ChildCalls \cup {"killed"}
  /\ Answering /\ cpc \in ChildCalls => routine # NoRoutine
  /\ InParentCallback => pipe # <<"call">>
  /\ pipe = <<"completed">> => cpc = "ended"
  /\ ppc \in {"startLock"} \cup ParentWaits => back = "loop"

\* What the child finds in the slot belongs to a parent that waits for it, or
\* has a status callback.
SlotInv ==
  /\ cpc = "run" => mutex = "child" /\ routine # NoRoutine
  /\ routine # NoRoutine =>
       cpc \in ChildCalls \cup {"killed"} \/ statusCB # NoCall \/ ppc \in ParentWaits

\* What a parent waits for is in the slot, or the child is done with it and has
\* left its status; then the child is past any call it makes on its own.
Processing == {"check", "lock", "idle", "idleLock", "confirm", "ended", "killed"}
ParentWaitInv ==
  ppc \in ParentWaits =>
    /\ statusCB = NoCall
    /\ pcall \in Routine
    /\ routine = pcall \/ (routine = NoRoutine /\ callStatus = pcall /\ cpc \in Processing)

ThreadIInv == Typed /\ EndInv /\ AnswerInv /\ SlotInv /\ ParentWaitInv

-----------------------------------------------------------------------------
LEMMA WorkIsRoutine ==
  ASSUME NEW what \in {"run", "answer", "deliver", "ask", "askAsync"}, NEW c \in Calls
  PROVE  Work(what, c) \in Routine
BY DEF Work, Routine

LEMMA RoutineFacts ==
  ASSUME NEW r \in Routine
  PROVE  r.call \in Calls /\ r.call # NoCall /\ r # NoRoutine
BY DEF Routine, NoRoutine, Calls, NoCall

LEMMA PipeFacts ==
  /\ Append(<<>>, "call") = <<"call">>
  /\ Append(<<>>, "completed") = <<"completed">>
  /\ Head(<<"call">>) = "call" /\ Head(<<"completed">>) = "completed"
  /\ Tail(<<"call">>) = <<>> /\ Tail(<<"completed">>) = <<>>
  /\ <<"call">> # <<"completed">>
  /\ <<"call">> # <<>> /\ <<"completed">> # <<>>
OBVIOUS

LEMMA PipeType ==
  ASSUME NEW p \in {<<>>, <<"call">>, <<"completed">>}
  PROVE  p \in Seq({"call", "completed"}) /\ Len(p) <= 1
<1>1. CASE p = <<>>
  BY <1>1
<1>2. CASE p = <<"call">>
  BY <1>2
<1>3. CASE p = <<"completed">>
  BY <1>3
<1> QED BY <1>1, <1>2, <1>3

LEMMA FinalFacts ==
  /\ <<>> \in Seq({"completed", "cancelled"}) /\ Len(<<>>) = 0
  /\ \A s \in {"completed", "cancelled"} :
       /\ Append(<<>>, s) \in Seq({"completed", "cancelled"})
       /\ Len(Append(<<>>, s)) = 1
OBVIOUS

LEMMA ThreadInitInvariant == ThreadInit => ThreadIInv
<1> SUFFICES ASSUME ThreadInit PROVE ThreadIInv
  OBVIOUS
<1> USE DEF ThreadInit
<1>1. Typed
  BY PipeType, FinalFacts, ThreadConstants
  DEF Typed, ThreadTypeOK, Routine, NoRoutine, NoCall, Calls, ChildCalls, ParentWaits
<1>2. EndInv
  BY FinalFacts DEF EndInv
<1>3. AnswerInv
  BY PipeFacts DEF AnswerInv, Answering, InParentCallback, ChildCalls, ParentWaits
<1>4. SlotInv
  BY DEF SlotInv
<1>5. ParentWaitInv
  BY DEF ParentWaitInv, ParentWaits
<1> QED BY <1>1, <1>2, <1>3, <1>4, <1>5 DEF ThreadIInv

-----------------------------------------------------------------------------
(* Steps of the parent *)

LEMMA FillSlotKeeps ==
  ASSUME ThreadIInv, NEW async \in BOOLEAN, FillSlot(async)
  PROVE  ThreadIInv'
<1>1. Typed'
  BY RoutineFacts
  DEF FillSlot, ThreadIInv, Typed, ThreadTypeOK, ParentWaits, ChildCalls, callHistoryVars, ChildWoken
<1>2. EndInv'
  BY DEF FillSlot, ThreadIInv, Typed, ThreadTypeOK, EndInv, callHistoryVars, ChildWoken
<1>3. AnswerInv'
  BY RoutineFacts
  DEF FillSlot, ThreadIInv, Typed, AnswerInv, Answering, InParentCallback, ChildCalls, ChildWoken
<1>4. SlotInv'
  BY RoutineFacts
  DEF FillSlot, ThreadIInv, Typed, SlotInv, ParentWaits, ChildWoken
<1>5. ParentWaitInv'
  BY DEF FillSlot, ThreadIInv, Typed, ThreadTypeOK, ParentWaitInv, ParentWaits
<1> QED BY <1>1, <1>2, <1>3, <1>4, <1>5 DEF ThreadIInv

LEMMA WaitForChildKeeps ==
  ASSUME ThreadIInv, WaitForChild
  PROVE  ThreadIInv'
<1>1. Typed'
  BY DEF WaitForChild, ThreadIInv, Typed, ThreadTypeOK, ParentWaits, childThreadVars, slotVars, callHistoryVars
<1>2. EndInv'
  BY DEF WaitForChild, ThreadIInv, EndInv, childThreadVars, callHistoryVars
<1>3. AnswerInv'
  BY DEF WaitForChild, ThreadIInv, Typed, ThreadTypeOK, AnswerInv, Answering, InParentCallback, childThreadVars,
      slotVars
<1>4. SlotInv'
  BY DEF WaitForChild, ThreadIInv, SlotInv, ParentWaits, childThreadVars
<1>5. ParentWaitInv'
  BY DEF WaitForChild, ThreadIInv, Typed, ThreadTypeOK, ParentWaitInv, slotVars
<1> QED BY <1>1, <1>2, <1>3, <1>4, <1>5 DEF ThreadIInv

LEMMA ChildReturnedKeeps ==
  ASSUME ThreadIInv, ChildReturned
  PROVE  ThreadIInv'
<1>1. Typed'
  BY DEF ChildReturned, ThreadIInv, Typed, ThreadTypeOK, EndInv, AnswerInv, ParentWaitInv, Answering,
      childThreadVars, slotVars
<1>2. EndInv'
  BY DEF ChildReturned, ThreadIInv, Typed, ThreadTypeOK, EndInv, childThreadVars
<1>3. AnswerInv'
  BY DEF ChildReturned, ThreadIInv, Typed, ThreadTypeOK, AnswerInv, Answering, InParentCallback, childThreadVars
<1>4. SlotInv'
  BY DEF ChildReturned, ThreadIInv, SlotInv, childThreadVars, slotVars
<1>5. ParentWaitInv'
  BY DEF ChildReturned, ThreadIInv, Typed, ThreadTypeOK, ParentWaitInv, ParentWaits
<1> QED BY <1>1, <1>2, <1>3, <1>4, <1>5 DEF ThreadIInv

LEMMA ReadCallKeeps ==
  ASSUME ThreadIInv, ReadCall
  PROVE  ThreadIInv'
<1>1. Typed'
  BY RoutineFacts, PipeFacts, PipeType
  DEF ReadCall, ThreadIInv, Typed, ThreadTypeOK, EndInv, AnswerInv, Answering, childThreadVars, slotVars
<1>2. EndInv'
  BY DEF ReadCall, ThreadIInv, EndInv, childThreadVars
<1>3. AnswerInv'
  BY DEF ReadCall, ThreadIInv, Typed, AnswerInv, Answering, childThreadVars, slotVars
<1>4. SlotInv'
  BY DEF ReadCall, ThreadIInv, SlotInv, ParentWaits, childThreadVars, slotVars
<1>5. ParentWaitInv'
  BY DEF ReadCall, ThreadIInv, ParentWaitInv, ParentWaits
<1> QED BY <1>1, <1>2, <1>3, <1>4, <1>5 DEF ThreadIInv

LEMMA CallbackReturnsKeeps ==
  ASSUME ThreadIInv, CallbackReturns
  PROVE  ThreadIInv'
<1>1. Typed'
  BY DEF CallbackReturns, ThreadIInv, Typed, ThreadTypeOK, childThreadVars, callHistoryVars
<1>2. EndInv'
  BY DEF CallbackReturns, ThreadIInv, EndInv, childThreadVars, callHistoryVars
<1>3. AnswerInv'
  BY DEF CallbackReturns, ThreadIInv, AnswerInv, Answering, InParentCallback, ParentWaits, childThreadVars
<1>4. SlotInv'
  BY DEF CallbackReturns, ThreadIInv, SlotInv, ParentWaits, childThreadVars
<1>5. ParentWaitInv'
  BY DEF CallbackReturns, ThreadIInv, ParentWaitInv, ParentWaits
<1> QED BY <1>1, <1>2, <1>3, <1>4, <1>5 DEF ThreadIInv

LEMMA EmptySlotKeeps ==
  ASSUME ThreadIInv, EmptySlot
  PROVE  ThreadIInv'
<1>1. Typed'
  BY DEF EmptySlot, ThreadIInv, Typed, ThreadTypeOK, EndInv, AnswerInv, Answering, InParentCallback,
      ChildCalls, ChildWoken
<1>2. EndInv'
  BY DEF EmptySlot, ThreadIInv, EndInv, ChildWoken
<1>3. AnswerInv'
  BY DEF EmptySlot, ThreadIInv, AnswerInv, Answering, InParentCallback, ParentWaits, ChildCalls
<1>4. SlotInv'
  BY DEF EmptySlot, ThreadIInv, SlotInv, ChildWoken
<1>5. ParentWaitInv'
  BY DEF EmptySlot, ThreadIInv, ParentWaitInv, ParentWaits
<1> QED BY <1>1, <1>2, <1>3, <1>4, <1>5 DEF ThreadIInv

LEMMA ReadCompletedKeeps ==
  ASSUME ThreadIInv, ReadCompleted
  PROVE  ThreadIInv'
<1>1. Typed'
  BY DEF ReadCompleted, ThreadIInv, Typed, ThreadTypeOK, childThreadVars, slotVars, callHistoryVars
<1>2. EndInv'
  BY DEF ReadCompleted, ThreadIInv, EndInv, childThreadVars, callHistoryVars
<1>3. AnswerInv'
  BY DEF ReadCompleted, ThreadIInv, Typed, AnswerInv, Answering, InParentCallback
<1>4. SlotInv'
  BY DEF ReadCompleted, ThreadIInv, SlotInv, ParentWaits, childThreadVars, slotVars
<1>5. ParentWaitInv'
  BY DEF ReadCompleted, ThreadIInv, ParentWaitInv, ParentWaits
<1> QED BY <1>1, <1>2, <1>3, <1>4, <1>5 DEF ThreadIInv

LEMMA JoinedKeeps ==
  ASSUME ThreadIInv, Joined
  PROVE  ThreadIInv'
<1>1. Typed'
  <2>1. pipe' \in Seq({"call", "completed"}) /\ Len(pipe') <= 1
    BY PipeType DEF Joined
  <2>2. final' \in Seq({"completed", "cancelled"})
    BY FinalFacts DEF Joined, ThreadIInv, EndInv, FinalSignal
  <2>3. ppc' \in {"loop", "callback"}
    BY DEF Joined, ThreadIInv, Typed, ThreadTypeOK
  <2>4. /\ pcall' \in Routine \cup {NoRoutine} /\ back' \in {"loop", "callback"}
        /\ threadRunning' \in BOOLEAN /\ termination' \in BOOLEAN /\ threadCancelled' \in BOOLEAN
        /\ made' \in Calls \cup {NoCall} /\ open' \subseteq Calls /\ asyncOperations' \subseteq Calls
    BY DEF Joined, ThreadIInv, Typed, ThreadTypeOK
  <2>5. UNCHANGED <<childThreadVars, slotVars>> /\ cpc' # "callLock" /\ pipe' = <<>>
    BY DEF Joined, childThreadVars
  <2>6. ThreadTypeOK'
    BY <2>1, <2>2, <2>3, <2>4, <2>5 DEF ThreadIInv, Typed, ThreadTypeOK, childThreadVars, slotVars
  <2> QED
    BY <2>3, <2>5, <2>6 DEF Typed
<1>2. EndInv'
  BY DEF Joined, ThreadIInv, Typed, ThreadTypeOK, EndInv, childThreadVars
<1>3. AnswerInv'
  BY DEF Joined, ThreadIInv, Typed, ThreadTypeOK, AnswerInv, Answering, InParentCallback, ParentWaits,
      childThreadVars, slotVars
<1>4. SlotInv'
  BY DEF Joined, ThreadIInv, SlotInv, ParentWaits, childThreadVars, slotVars
<1>5. ParentWaitInv'
  BY DEF Joined, ThreadIInv, Typed, ThreadTypeOK, ParentWaitInv, ParentWaits
<1> QED BY <1>1, <1>2, <1>3, <1>4, <1>5 DEF ThreadIInv

-----------------------------------------------------------------------------
(* Steps of the application in the parent *)

LEMMA CallChildKeeps ==
  ASSUME ThreadIInv, CallChild
  PROVE  ThreadIInv'
<1>1. Typed'
  BY WorkIsRoutine
  DEF CallChild, ThreadIInv, Typed, ThreadTypeOK, childThreadVars, slotVars, StartOnChild, MayStart
<1>2. EndInv'
  BY DEF CallChild, ThreadIInv, EndInv, childThreadVars, MayStart
<1>3. AnswerInv'
  BY DEF CallChild, ThreadIInv, EndInv, AnswerInv, Answering, InParentCallback, ParentWaits, childThreadVars,
      slotVars, StartOnChild, MayStart
<1>4. SlotInv'
  BY DEF CallChild, ThreadIInv, SlotInv, ParentWaits, childThreadVars, slotVars, MayStart
<1>5. ParentWaitInv'
  BY DEF CallChild, ThreadIInv, ParentWaitInv, ParentWaits, StartOnChild
<1> QED BY <1>1, <1>2, <1>3, <1>4, <1>5 DEF ThreadIInv

LEMMA TerminateKeeps ==
  ASSUME ThreadIInv, TerminateThread
  PROVE  ThreadIInv'
<1>1. Typed'
  BY DEF TerminateThread, ThreadIInv, Typed, ThreadTypeOK, parentVars, childThreadVars, slotVars, callHistoryVars
<1>2. EndInv'
  BY DEF TerminateThread, ThreadIInv, EndInv, parentVars, childThreadVars, callHistoryVars
<1>3. AnswerInv'
  BY DEF TerminateThread, ThreadIInv, AnswerInv, Answering, InParentCallback, parentVars, childThreadVars, slotVars
<1>4. SlotInv'
  BY DEF TerminateThread, ThreadIInv, SlotInv, parentVars, childThreadVars, slotVars
<1>5. ParentWaitInv'
  BY DEF TerminateThread, ThreadIInv, ParentWaitInv, parentVars, childThreadVars, slotVars
<1> QED BY <1>1, <1>2, <1>3, <1>4, <1>5 DEF ThreadIInv

LEMMA CancelKeeps ==
  ASSUME ThreadIInv, CancelThread
  PROVE  ThreadIInv'
<1>1. Typed'
  BY ThreadConstants
  DEF CancelThread, ThreadIInv, Typed, ThreadTypeOK, childThreadVars, slotVars, callHistoryVars
<1>2. EndInv'
  BY DEF CancelThread, ThreadIInv, EndInv, callHistoryVars
<1>3. AnswerInv'
  BY DEF CancelThread, ThreadIInv, AnswerInv, Answering, InParentCallback, ParentWaits, childThreadVars, slotVars
<1>4. SlotInv'
  BY ThreadConstants
  DEF CancelThread, ThreadIInv, SlotInv, ParentWaits, childThreadVars, slotVars
<1>5. ParentWaitInv'
  BY DEF CancelThread, ThreadIInv, ParentWaitInv, ParentWaits
<1> QED BY <1>1, <1>2, <1>3, <1>4, <1>5 DEF ThreadIInv

LEMMA AnswerChildKeeps ==
  ASSUME ThreadIInv, NEW c \in Calls, AnswerChild(c)
  PROVE  ThreadIInv'
<1>1. Typed'
  BY WorkIsRoutine
  DEF AnswerChild, ThreadIInv, Typed, ThreadTypeOK, childThreadVars, slotVars, StartOnChild, MayStart
<1>2. EndInv'
  BY DEF AnswerChild, ThreadIInv, EndInv, childThreadVars, MayStart
<1>3. AnswerInv'
  BY DEF AnswerChild, ThreadIInv, EndInv, AnswerInv, Answering, InParentCallback, ParentWaits,
      childThreadVars, slotVars, StartOnChild, MayStart
<1>4. SlotInv'
  BY DEF AnswerChild, ThreadIInv, SlotInv, ParentWaits, childThreadVars, slotVars, MayStart
<1>5. ParentWaitInv'
  BY DEF AnswerChild, ThreadIInv, ParentWaitInv, ParentWaits, StartOnChild
<1> QED BY <1>1, <1>2, <1>3, <1>4, <1>5 DEF ThreadIInv

-----------------------------------------------------------------------------
(* Steps of the child *)

LEMMA StartProcessorKeeps ==
  ASSUME ThreadIInv, StartProcessor
  PROVE  ThreadIInv'
<1>1. Typed'
  BY DEF StartProcessor, ThreadIInv, Typed, ThreadTypeOK, parentVars, slotVars, callHistoryVars
<1>2. EndInv'
  BY DEF StartProcessor, ThreadIInv, EndInv, parentVars, callHistoryVars
<1>3. AnswerInv'
  BY DEF StartProcessor, ThreadIInv, AnswerInv, Answering, InParentCallback, ChildCalls, parentVars
<1>4. SlotInv'
  BY DEF StartProcessor, ThreadIInv, SlotInv, ChildCalls, parentVars, slotVars
<1>5. ParentWaitInv'
  BY DEF StartProcessor, ThreadIInv, ParentWaitInv, Processing, parentVars, slotVars
<1> QED BY <1>1, <1>2, <1>3, <1>4, <1>5 DEF ThreadIInv

LEMMA CheckTerminationKeeps ==
  ASSUME ThreadIInv, CheckTermination
  PROVE  ThreadIInv'
<1>1. Typed'
  BY DEF CheckTermination, ThreadIInv, Typed, ThreadTypeOK, parentVars, slotVars, callHistoryVars
<1>2. EndInv'
  BY DEF CheckTermination, ThreadIInv, EndInv, parentVars, callHistoryVars
<1>3. AnswerInv'
  BY DEF CheckTermination, ThreadIInv, AnswerInv, Answering, InParentCallback, ChildCalls, parentVars
<1>4. SlotInv'
  BY DEF CheckTermination, ThreadIInv, SlotInv, ChildCalls, parentVars, slotVars
<1>5. ParentWaitInv'
  BY DEF CheckTermination, ThreadIInv, ParentWaitInv, Processing, parentVars, slotVars
<1> QED BY <1>1, <1>2, <1>3, <1>4, <1>5 DEF ThreadIInv

LEMMA WaitForWorkKeeps ==
  ASSUME ThreadIInv, WaitForWork
  PROVE  ThreadIInv'
<1>1. Typed'
  BY DEF WaitForWork, ThreadIInv, Typed, ThreadTypeOK, parentVars, slotVars, callHistoryVars
<1>2. EndInv'
  BY DEF WaitForWork, ThreadIInv, EndInv, parentVars, callHistoryVars
<1>3. AnswerInv'
  BY DEF WaitForWork, ThreadIInv, AnswerInv, Answering, InParentCallback, parentVars
<1>4. SlotInv'
  BY DEF WaitForWork, ThreadIInv, SlotInv, slotVars
<1>5. ParentWaitInv'
  BY DEF WaitForWork, ThreadIInv, ParentWaitInv, Processing, parentVars, slotVars
<1> QED BY <1>1, <1>2, <1>3, <1>4, <1>5 DEF ThreadIInv

LEMMA LeaveProcessorKeeps ==
  ASSUME ThreadIInv, LeaveProcessor
  PROVE  ThreadIInv'
<1>1. Typed'
  BY DEF LeaveProcessor, ThreadIInv, Typed, ThreadTypeOK, parentVars, slotVars, callHistoryVars
<1>2. EndInv'
  BY DEF LeaveProcessor, ThreadIInv, EndInv, parentVars, callHistoryVars
<1>3. AnswerInv'
  BY DEF LeaveProcessor, ThreadIInv, AnswerInv, Answering, InParentCallback, ChildCalls, parentVars
<1>4. SlotInv'
  BY DEF LeaveProcessor, ThreadIInv, SlotInv, ChildCalls, parentVars, slotVars
<1>5. ParentWaitInv'
  BY DEF LeaveProcessor, ThreadIInv, ParentWaitInv, Processing, parentVars, slotVars
<1> QED BY <1>1, <1>2, <1>3, <1>4, <1>5 DEF ThreadIInv

LEMMA TakeWorkKeeps ==
  ASSUME ThreadIInv, TakeWork
  PROVE  ThreadIInv'
<1>1. Typed'
  BY DEF TakeWork, ThreadIInv, Typed, ThreadTypeOK, parentVars, callHistoryVars
<1>2. EndInv'
  BY DEF TakeWork, ThreadIInv, EndInv, parentVars, callHistoryVars
<1>3. AnswerInv'
  BY DEF TakeWork, ThreadIInv, AnswerInv, Answering, InParentCallback, ChildCalls, parentVars
<1>4. SlotInv'
  BY DEF TakeWork, ThreadIInv, SlotInv, ChildCalls, parentVars
<1>5. ParentWaitInv'
  BY DEF TakeWork, ThreadIInv, ParentWaitInv, parentVars
<1> QED BY <1>1, <1>2, <1>3, <1>4, <1>5 DEF ThreadIInv

LEMMA FinishWorkKeeps ==
  ASSUME ThreadIInv, FinishWork
  PROVE  ThreadIInv'
<1>1. Typed'
  BY WorkIsRoutine
  DEF FinishWork, ThreadIInv, Typed, ThreadTypeOK, ParentWaits, callHistoryVars, ParentWoken
<1>2. EndInv'
  BY DEF FinishWork, ThreadIInv, EndInv, callHistoryVars, ParentWoken
<1>3. AnswerInv'
  BY DEF FinishWork, ThreadIInv, Typed, ThreadTypeOK, AnswerInv, Answering, InParentCallback, ChildCalls,
      ParentWoken
<1>4. SlotInv'
  BY DEF FinishWork, ThreadIInv, SlotInv
<1>5. ParentWaitInv'
  BY DEF FinishWork, ThreadIInv, Typed, ThreadTypeOK, ParentWaitInv, Processing, ParentWoken
<1> QED BY <1>1, <1>2, <1>3, <1>4, <1>5 DEF ThreadIInv

LEMMA CallInParentKeeps ==
  ASSUME ThreadIInv, CallInParent
  PROVE  ThreadIInv'
<1>1. Typed'
  <2>1. pipe = <<>>
    BY DEF CallInParent, ThreadIInv, Typed, AnswerInv, Answering, ChildCalls
  <2>2. pipe' \in {<<>>, <<"call">>}
    BY <2>1, PipeFacts DEF CallInParent
  <2>3. pipe' \in Seq({"call", "completed"}) /\ Len(pipe') <= 1
    BY <2>2, PipeType
  <2>4. routine' \in Routine \cup {NoRoutine} /\ cpc' \in {"called", "failed"}
    BY DEF CallInParent, ThreadIInv, Typed, ThreadTypeOK
  <2> QED
    BY <2>2, <2>3, <2>4
    DEF CallInParent, ThreadIInv, Typed, ThreadTypeOK, ChildCalls, parentVars, callHistoryVars
<1>2. EndInv'
  BY DEF CallInParent, ThreadIInv, EndInv, parentVars, callHistoryVars
<1>3. AnswerInv'
  BY RoutineFacts
  DEF CallInParent, ThreadIInv, Typed, AnswerInv, Answering, InParentCallback, ChildCalls, parentVars
<1>4. SlotInv'
  BY DEF CallInParent, ThreadIInv, SlotInv, ChildCalls, parentVars
<1>5. ParentWaitInv'
  BY RoutineFacts
  DEF CallInParent, ThreadIInv, ParentWaitInv, Processing, parentVars
<1> QED BY <1>1, <1>2, <1>3, <1>4, <1>5 DEF ThreadIInv

LEMMA WaitForParentKeeps ==
  ASSUME ThreadIInv, WaitForParent
  PROVE  ThreadIInv'
<1>1. Typed'
  BY DEF WaitForParent, ThreadIInv, Typed, ThreadTypeOK, ChildCalls, parentVars, slotVars, callHistoryVars
<1>2. EndInv'
  BY DEF WaitForParent, ThreadIInv, EndInv, parentVars, callHistoryVars
<1>3. AnswerInv'
  BY DEF WaitForParent, ThreadIInv, AnswerInv, InParentCallback, ChildCalls, parentVars, slotVars
<1>4. SlotInv'
  BY DEF WaitForParent, ThreadIInv, SlotInv, ChildCalls
<1>5. ParentWaitInv'
  BY DEF WaitForParent, ThreadIInv, ParentWaitInv, parentVars, slotVars
<1> QED BY <1>1, <1>2, <1>3, <1>4, <1>5 DEF ThreadIInv

LEMMA ParentReturnedKeeps ==
  ASSUME ThreadIInv, ParentReturned
  PROVE  ThreadIInv'
<1>1. Typed'
  BY DEF ParentReturned, ThreadIInv, Typed, ThreadTypeOK, parentVars, callHistoryVars
<1>2. EndInv'
  BY DEF ParentReturned, ThreadIInv, Typed, ThreadTypeOK, EndInv, parentVars, callHistoryVars
<1>3. AnswerInv'
  BY DEF ParentReturned, ThreadIInv, AnswerInv, Answering, InParentCallback, parentVars
<1>4. SlotInv'
  BY DEF ParentReturned, ThreadIInv, Typed, ThreadTypeOK, SlotInv
<1>5. ParentWaitInv'
  BY DEF ParentReturned, ThreadIInv, ParentWaitInv, Processing, parentVars
<1> QED BY <1>1, <1>2, <1>3, <1>4, <1>5 DEF ThreadIInv

LEMMA ConfirmTerminatedKeeps ==
  ASSUME ThreadIInv, ConfirmTerminated
  PROVE  ThreadIInv'
<1>1. Typed'
  <2>1. pipe = <<>> /\ pipe' = <<"completed">>
  BY PipeFacts
  DEF ConfirmTerminated, ThreadIInv, Typed, AnswerInv, Answering, ChildCalls
  <2>2. pipe' \in Seq({"call", "completed"}) /\ Len(pipe') <= 1
    BY <2>1, PipeType
  <2> QED
  BY <2>1, <2>2
  DEF ConfirmTerminated, ThreadIInv, Typed, ThreadTypeOK, parentVars, slotVars, callHistoryVars
<1>2. EndInv'
  BY DEF ConfirmTerminated, ThreadIInv, EndInv, parentVars, callHistoryVars
<1>3. AnswerInv'
  BY PipeFacts
  DEF ConfirmTerminated, ThreadIInv, Typed, AnswerInv, Answering, InParentCallback, ChildCalls,
      parentVars
<1>4. SlotInv'
  BY DEF ConfirmTerminated, ThreadIInv, SlotInv, ChildCalls, parentVars, slotVars
<1>5. ParentWaitInv'
  BY DEF ConfirmTerminated, ThreadIInv, ParentWaitInv, Processing, parentVars, slotVars
<1> QED BY <1>1, <1>2, <1>3, <1>4, <1>5 DEF ThreadIInv

-----------------------------------------------------------------------------
(* The end of a cancelled child *)

LEMMA KilledWaitingKeeps ==
  ASSUME ThreadIInv, KilledWaiting
  PROVE  ThreadIInv'
<1>1. Typed'
  BY DEF KilledWaiting, ThreadIInv, Typed, ThreadTypeOK, parentVars, callHistoryVars
<1>2. EndInv'
  BY DEF KilledWaiting, ThreadIInv, EndInv, parentVars, callHistoryVars
<1>3. AnswerInv'
  BY DEF KilledWaiting, ThreadIInv, AnswerInv, InParentCallback, ChildCalls, parentVars
<1>4. SlotInv'
  BY DEF KilledWaiting, ThreadIInv, SlotInv
<1>5. ParentWaitInv'
  BY DEF KilledWaiting, ThreadIInv, ParentWaitInv, Processing, parentVars
<1> QED BY <1>1, <1>2, <1>3, <1>4, <1>5 DEF ThreadIInv

LEMMA KilledWithMutexKeeps ==
  ASSUME ThreadIInv, KilledWithMutex
  PROVE  ThreadIInv'
<1>1. Typed'
  BY DEF KilledWithMutex, ThreadIInv, Typed, ThreadTypeOK, parentVars, callHistoryVars
<1>2. EndInv'
  BY DEF KilledWithMutex, ThreadIInv, EndInv, parentVars, callHistoryVars
<1>3. AnswerInv'
  BY DEF KilledWithMutex, ThreadIInv, AnswerInv, InParentCallback, ChildCalls, parentVars
<1>4. SlotInv'
  BY DEF KilledWithMutex, ThreadIInv, SlotInv
<1>5. ParentWaitInv'
  BY RoutineFacts
  DEF KilledWithMutex, ThreadIInv, ParentWaitInv, Processing, parentVars
<1> QED BY <1>1, <1>2, <1>3, <1>4, <1>5 DEF ThreadIInv

LEMMA KilledWithoutMutexKeeps ==
  ASSUME ThreadIInv, KilledWithoutMutex
  PROVE  ThreadIInv'
<1>1. Typed'
  BY DEF KilledWithoutMutex, ThreadIInv, Typed, ThreadTypeOK, parentVars, slotVars, callHistoryVars
<1>2. EndInv'
  BY DEF KilledWithoutMutex, ThreadIInv, EndInv, parentVars, callHistoryVars
<1>3. AnswerInv'
  BY DEF KilledWithoutMutex, ThreadIInv, AnswerInv, InParentCallback, ChildCalls, parentVars
<1>4. SlotInv'
  BY DEF KilledWithoutMutex, ThreadIInv, SlotInv
<1>5. ParentWaitInv'
  BY DEF KilledWithoutMutex, ThreadIInv, ParentWaitInv, Processing, parentVars, slotVars
<1> QED BY <1>1, <1>2, <1>3, <1>4, <1>5 DEF ThreadIInv

-----------------------------------------------------------------------------
(* Steps of the application in the child, and of neither thread *)

LEMMA CallParentKeeps ==
  ASSUME ThreadIInv, CallParent
  PROVE  ThreadIInv'
<1>1. Typed'
  BY WorkIsRoutine
  DEF CallParent, ThreadIInv, Typed, ThreadTypeOK, parentVars, slotVars
<1>2. EndInv'
  BY DEF CallParent, ThreadIInv, EndInv, parentVars
<1>3. AnswerInv'
  BY DEF CallParent, ThreadIInv, AnswerInv, Answering, InParentCallback, ChildCalls, parentVars
<1>4. SlotInv'
  BY DEF CallParent, ThreadIInv, SlotInv, ChildCalls, parentVars, slotVars
<1>5. ParentWaitInv'
  BY DEF CallParent, ThreadIInv, ParentWaitInv, Processing, parentVars, slotVars
<1> QED BY <1>1, <1>2, <1>3, <1>4, <1>5 DEF ThreadIInv

LEMMA SpuriousWakeupKeeps ==
  ASSUME ThreadIInv, SpuriousWakeup
  PROVE  ThreadIInv'
<1>1. Typed'
  BY DEF SpuriousWakeup, ThreadIInv, Typed, ThreadTypeOK, ParentWaits, ChildCalls, slotVars,
      callHistoryVars, ParentWoken, ChildWoken
<1>2. EndInv'
  BY DEF SpuriousWakeup, ThreadIInv, EndInv, callHistoryVars, ParentWoken, ChildWoken
<1>3. AnswerInv'
  BY DEF SpuriousWakeup, ThreadIInv, Typed, ThreadTypeOK, AnswerInv, Answering, InParentCallback, ChildCalls,
      slotVars, ParentWoken, ChildWoken
<1>4. SlotInv'
  BY DEF SpuriousWakeup, ThreadIInv, SlotInv, ParentWaits, ChildCalls, slotVars, ParentWoken,
      ChildWoken
<1>5. ParentWaitInv'
  BY DEF SpuriousWakeup, ThreadIInv, Typed, ThreadTypeOK, ParentWaitInv, Processing, slotVars, ParentWoken,
      ChildWoken
<1> QED BY <1>1, <1>2, <1>3, <1>4, <1>5 DEF ThreadIInv

-----------------------------------------------------------------------------
(* The invariant, and what follows from it *)

LEMMA StutterKeeps ==
  ASSUME ThreadIInv, UNCHANGED threadVars
  PROVE  ThreadIInv'
BY DEF ThreadIInv, Typed, ThreadTypeOK, EndInv, AnswerInv, Answering, InParentCallback, SlotInv, ParentWaitInv,
       threadVars, parentVars, childThreadVars, slotVars, callHistoryVars

LEMMA ThreadNextKeeps == ThreadIInv /\ [ThreadNext]_threadVars => ThreadIInv'
<1> SUFFICES ASSUME ThreadIInv, [ThreadNext]_threadVars PROVE ThreadIInv'
  OBVIOUS
<1>1. CASE ParentStep
  BY <1>1, FillSlotKeeps, WaitForChildKeeps, ChildReturnedKeeps, ReadCallKeeps,
     CallbackReturnsKeeps, EmptySlotKeeps, ReadCompletedKeeps, JoinedKeeps
  DEF ParentStep
<1>2. CASE ParentApp
  BY <1>2, CallChildKeeps, TerminateKeeps, CancelKeeps, AnswerChildKeeps DEF ParentApp
<1>3. CASE ChildStep
  BY <1>3, StartProcessorKeeps, CheckTerminationKeeps, WaitForWorkKeeps, LeaveProcessorKeeps,
     TakeWorkKeeps, FinishWorkKeeps, CallInParentKeeps, WaitForParentKeeps,
     ParentReturnedKeeps, ConfirmTerminatedKeeps, KilledWaitingKeeps, KilledWithMutexKeeps,
     KilledWithoutMutexKeeps
  DEF ChildStep, Killed
<1>4. CASE CallParent
  BY <1>4, CallParentKeeps
<1>5. CASE SpuriousWakeup
  BY <1>5, SpuriousWakeupKeeps
<1>6. CASE UNCHANGED threadVars
  BY <1>6, StutterKeeps
<1> QED BY <1>1, <1>2, <1>3, <1>4, <1>5, <1>6 DEF ThreadNext

\* The invariant holds, whatever calls the application makes, and whenever.
THEOREM ThreadInvariant == ThreadSpec => []ThreadIInv
BY ThreadInitInvariant, ThreadNextKeeps, PTL DEF ThreadSpec

\* The variables of the thread wrapper have their types: in particular there is
\* never more than one signal byte in the pipe, so the parent never reads a byte
\* that belongs to a call it has answered.
THEOREM ThreadTypeCorrectness == ThreadSpec => []ThreadTypeOK
<1>1. ThreadIInv => ThreadTypeOK
  BY DEF ThreadIInv, Typed
<1> QED BY <1>1, ThreadInvariant, PTL

\* finalizeThreadExecution() delivers one final signal, also when the thread ends
\* by itself while the parent cancels it.
THEOREM FinalSignalOnce == ThreadSpec => []OneFinalSignal
<1>1. ThreadIInv => OneFinalSignal
  BY DEF ThreadIInv, EndInv, OneFinalSignal
<1> QED BY <1>1, ThreadInvariant, PTL

\* The thread that waits for a routine does nothing else while it executes: the
\* child while the parent runs its routine, and the parent while the child does.
THEOREM CallerIsOwned == ThreadSpec => []CalleeOwnsCaller
<1>1. ThreadIInv => CalleeOwnsCaller
  BY DEF ThreadIInv, AnswerInv, Answering, InParentCallback, SlotInv, ChildCalls, CalleeOwnsCaller
<1> QED BY <1>1, ThreadInvariant, PTL

\* A parent leaves its wait only in executeOnChildThread()'s return, with the
\* slot empty: what it returns is then the status of its own routine.
LEMMA LeavesWaitWithStatus ==
  ASSUME ThreadIInv, [ThreadNext]_threadVars, ppc = "waitLock", ppc' \notin ParentWaits
  PROVE  callStatus = pcall
<1>1. CASE ChildReturned
  <2>1. routine # pcall
    BY <1>1, RoutineFacts DEF ChildReturned, ThreadIInv, ParentWaitInv, ParentWaits
  <2> QED BY <2>1 DEF ThreadIInv, ParentWaitInv, ParentWaits
<1>2. ASSUME ~ChildReturned PROVE FALSE
  <2>1. CASE ParentStep
    BY <1>2, <2>1 DEF ParentStep, FillSlot, WaitForChild, ReadCall, CallbackReturns, EmptySlot,
       ReadCompleted, Joined, ParentWaits
  <2>2. CASE ParentApp
    BY <2>2, ThreadConstants DEF ParentApp, CallChild, AnswerChild, MayStart, TerminateThread,
       CancelThread, parentVars, ParentWaits
  <2>3. CASE ChildStep
    BY <2>3 DEF ChildStep, StartProcessor, CheckTermination, WaitForWork, LeaveProcessor,
       TakeWork, FinishWork, CallInParent, WaitForParent, ParentReturned, ConfirmTerminated,
       Killed, KilledWaiting, KilledWithMutex, KilledWithoutMutex, ParentWoken, parentVars,
       ParentWaits
  <2>4. CASE CallParent \/ SpuriousWakeup \/ UNCHANGED threadVars
    BY <2>4 DEF CallParent, SpuriousWakeup, ParentWoken, threadVars, parentVars, ParentWaits
  <2> QED BY <2>1, <2>2, <2>3, <2>4 DEF ThreadNext
<1> QED BY <1>1, <1>2

\* executeOnChildThread() returns the status of the routine it was called with,
\* although the status is kept in one variable that every routine sets.
THEOREM OwnStatusReturned == ThreadSpec => ReturnsOwnStatus
<1>1. ThreadIInv /\ [ThreadNext]_threadVars =>
        [(ppc = "waitLock" /\ ppc' \notin ParentWaits) => callStatus = pcall]_threadVars
  BY LeavesWaitWithStatus
<1> QED BY <1>1, ThreadInvariant, PTL DEF ThreadSpec, ReturnsOwnStatus

-----------------------------------------------------------------------------
(***************************************************************************)
(* From here on: an application that follows the rule the code relies on,  *)
(* that a call to the child is made only when all earlier ones are         *)
(* completed.  What the invariant says is which of the two threads may be  *)
(* about to fill the slot: never both.                                     *)
(***************************************************************************)

\* The calls a thread routine makes on its own.
Asks == Kinds \cap {"ask", "askAsync"}

\* A call to the child is open as long as the slot or the status callback is
\* about it.
OpenInv ==
  /\ routine.what \in {"run", "answer", "deliver"} => routine.call \in open
  /\ routine.what \in {"ask", "askAsync"} => cback = "start" /\ Asks # {}
  /\ statusCB # NoCall => routine = Work("run", statusCB)
  /\ Answering => statusCB = NoCall

\* The parent has found the slot empty, and will find it empty.
StartInv ==
  /\ ppc = "startLock" => routine = NoRoutine
  /\ ppc \in {"startLock"} \cup ParentWaits =>
       /\ threadRunning /\ statusCB = NoCall
       /\ pcall.what \in {"run", "answer"} /\ pcall.call \in open
       /\ cpc # "callLock"
       /\ cback = "check" \/ Asks = {}

\* The child is about to fill the slot: for an open call, or on its own.
CallInv ==
  /\ cpc = "callLock" =>
       /\ routine = NoRoutine
       /\ \/ ccall.what = "deliver" /\ ccall.call \in open
          \/ ccall.what \in {"ask", "askAsync"} /\ cback = "start" /\ Asks # {}
  /\ cback = "check" => cpc # "start"
  /\ cpc = "start" /\ Asks # {} => routine = NoRoutine

IdleInv == NoAssertionFails /\ OpenInv /\ StartInv /\ CallInv

-----------------------------------------------------------------------------
LEMMA WorkFields ==
  ASSUME NEW what, NEW c
  PROVE  Work(what, c).what = what /\ Work(what, c).call = c
BY DEF Work

LEMMA RoutineKinds ==
  /\ \A r \in Routine : r.what \in {"run", "answer", "deliver", "ask", "askAsync"}
  /\ NoRoutine.what = "none"
BY DEF Routine, NoRoutine

LEMMA InitIdle == ThreadInit => IdleInv
<1> SUFFICES ASSUME ThreadInit PROVE IdleInv
  OBVIOUS
<1> QED BY RoutineKinds, PipeFacts
  DEF ThreadInit, IdleInv, NoAssertionFails, OpenInv, StartInv, CallInv, Answering, InParentCallback,
      ParentWaits

-----------------------------------------------------------------------------
(* Steps of the parent *)

LEMMA FillSlotKeepsIdle ==
  ASSUME ThreadIInv, IdleInv, NEW async \in BOOLEAN, FillSlot(async)
  PROVE  IdleInv'
<1>1. NoAssertionFails'
  BY DEF FillSlot, ThreadIInv, Typed, ThreadTypeOK, IdleInv, NoAssertionFails, ChildWoken
<1>2. OpenInv'
  <2>1. ~Answering /\ back = "loop"
    BY DEF FillSlot, ThreadIInv, EndInv, AnswerInv, Answering, InParentCallback, IdleInv, StartInv
  <2>2. ~Answering'
    BY <2>1 DEF FillSlot, Answering, InParentCallback
  <2>3. statusCB' # NoCall => routine' = Work("run", statusCB')
    BY DEF FillSlot, ThreadIInv, Typed, Routine, Work, NoCall
  <2> QED
    BY <2>2, <2>3
    DEF FillSlot, IdleInv, OpenInv, StartInv, callHistoryVars
<1>3. StartInv'
  BY DEF FillSlot, ThreadIInv, Typed, ThreadTypeOK, IdleInv, StartInv, ParentWaits, ChildWoken,
      callHistoryVars
<1>4. CallInv'
  BY DEF FillSlot, IdleInv, StartInv, CallInv, ChildWoken
<1> QED BY <1>1, <1>2, <1>3, <1>4 DEF IdleInv

LEMMA WaitForChildKeepsIdle ==
  ASSUME ThreadIInv, IdleInv, WaitForChild
  PROVE  IdleInv'
<1>1. NoAssertionFails'
  BY DEF WaitForChild, IdleInv, NoAssertionFails, childThreadVars
<1>2. OpenInv'
  BY DEF WaitForChild, Answering, InParentCallback, IdleInv, OpenInv, childThreadVars, slotVars,
      callHistoryVars
<1>3. StartInv'
  BY DEF WaitForChild, IdleInv, StartInv, ParentWaits, childThreadVars, slotVars, callHistoryVars
<1>4. CallInv'
  BY DEF WaitForChild, IdleInv, CallInv, childThreadVars
<1> QED BY <1>1, <1>2, <1>3, <1>4 DEF IdleInv

LEMMA ChildReturnedKeepsIdle ==
  ASSUME ThreadIInv, IdleInv, ChildReturned
  PROVE  IdleInv'
<1>1. NoAssertionFails'
  BY DEF ChildReturned, ThreadIInv, Typed, ThreadTypeOK, IdleInv, NoAssertionFails, childThreadVars
<1>2. OpenInv'
  BY RoutineKinds, WorkFields
  DEF ChildReturned, IdleInv, OpenInv, slotVars
<1>3. StartInv'
  BY DEF ChildReturned, ThreadIInv, Typed, ThreadTypeOK, IdleInv, StartInv, ParentWaits
<1>4. CallInv'
  BY DEF ChildReturned, IdleInv, StartInv, CallInv, ParentWaits, childThreadVars
<1> QED BY <1>1, <1>2, <1>3, <1>4 DEF IdleInv

LEMMA ReadCallKeepsIdle ==
  ASSUME ThreadIInv, IdleInv, ReadCall
  PROVE  IdleInv'
<1>1. NoAssertionFails'
  BY DEF ReadCall, IdleInv, NoAssertionFails, childThreadVars
<1>2. OpenInv'
  BY DEF ReadCall, ThreadIInv, Typed, Answering, IdleInv, OpenInv, childThreadVars, slotVars
<1>3. StartInv'
  BY DEF ReadCall, IdleInv, StartInv, ParentWaits
<1>4. CallInv'
  BY DEF ReadCall, IdleInv, CallInv, childThreadVars, slotVars
<1> QED BY <1>1, <1>2, <1>3, <1>4 DEF IdleInv

LEMMA CallbackReturnsKeepsIdle ==
  ASSUME ThreadIInv, IdleInv, CallbackReturns
  PROVE  IdleInv'
<1>1. NoAssertionFails'
  BY DEF CallbackReturns, IdleInv, NoAssertionFails, childThreadVars
<1>2. OpenInv'
  BY DEF CallbackReturns, Answering, InParentCallback, IdleInv, OpenInv, childThreadVars, callHistoryVars
<1>3. StartInv'
  BY DEF CallbackReturns, IdleInv, StartInv, ParentWaits
<1>4. CallInv'
  BY DEF CallbackReturns, IdleInv, CallInv, childThreadVars, callHistoryVars
<1> QED BY <1>1, <1>2, <1>3, <1>4 DEF IdleInv

LEMMA EmptySlotKeepsIdle ==
  ASSUME ThreadIInv, IdleInv, EmptySlot
  PROVE  IdleInv'
<1>1. NoAssertionFails'
  BY DEF EmptySlot, IdleInv, NoAssertionFails, ChildWoken
<1>2. OpenInv'
  BY RoutineKinds
  DEF EmptySlot, Answering, InParentCallback, IdleInv, OpenInv
<1>3. StartInv'
  BY DEF EmptySlot, IdleInv, StartInv, ParentWaits
<1>4. CallInv'
  BY RoutineKinds
  DEF EmptySlot, IdleInv, CallInv, ChildWoken
<1> QED BY <1>1, <1>2, <1>3, <1>4 DEF IdleInv

LEMMA ReadCompletedKeepsIdle ==
  ASSUME ThreadIInv, IdleInv, ReadCompleted
  PROVE  IdleInv'
<1>1. NoAssertionFails'
  BY DEF ReadCompleted, IdleInv, NoAssertionFails, childThreadVars
<1>2. OpenInv'
  BY DEF ReadCompleted, ThreadIInv, Typed, Answering, InParentCallback, IdleInv, OpenInv, childThreadVars,
      slotVars, callHistoryVars
<1>3. StartInv'
  BY DEF ReadCompleted, IdleInv, StartInv, ParentWaits
<1>4. CallInv'
  BY DEF ReadCompleted, IdleInv, CallInv, childThreadVars, slotVars, callHistoryVars
<1> QED BY <1>1, <1>2, <1>3, <1>4 DEF IdleInv

LEMMA JoinedKeepsIdle ==
  ASSUME ThreadIInv, IdleInv, Joined
  PROVE  IdleInv'
<1>1. NoAssertionFails'
  BY DEF Joined, ThreadIInv, Typed, ThreadTypeOK, IdleInv, NoAssertionFails, childThreadVars
<1>2. OpenInv'
  BY DEF Joined, ThreadIInv, Typed, ThreadTypeOK, Answering, InParentCallback, IdleInv, OpenInv, childThreadVars,
      slotVars
<1>3. StartInv'
  BY DEF Joined, ThreadIInv, Typed, ThreadTypeOK, IdleInv, StartInv, ParentWaits
<1>4. CallInv'
  BY DEF Joined, IdleInv, CallInv, childThreadVars
<1> QED BY <1>1, <1>2, <1>3, <1>4 DEF IdleInv

-----------------------------------------------------------------------------
(* Steps of the application in the parent *)

LEMMA CallChildKeepsIdle ==
  ASSUME ThreadIInv, IdleInv, StartsWhen \subseteq {"idle"}, CallChild
  PROVE  IdleInv'
<1>1. NoAssertionFails'
  BY RoutineKinds
  DEF CallChild, ThreadIInv, Typed, ThreadTypeOK, IdleInv, NoAssertionFails, OpenInv, Asks,
      StartOnChild, MayStart, InProcessor, childThreadVars
<1>2. OpenInv'
  BY WorkFields
  DEF CallChild, IdleInv, OpenInv, MayStart, childThreadVars, slotVars
<1>3. StartInv'
  BY WorkFields
  DEF CallChild, IdleInv, OpenInv, StartInv, CallInv, Asks, StartOnChild, MayStart,
      InProcessor, childThreadVars, slotVars
<1>4. CallInv'
  BY DEF CallChild, IdleInv, CallInv, childThreadVars, slotVars
<1> QED BY <1>1, <1>2, <1>3, <1>4 DEF IdleInv

LEMMA TerminateKeepsIdle ==
  ASSUME ThreadIInv, IdleInv, TerminateThread
  PROVE  IdleInv'
<1>1. NoAssertionFails'
  BY DEF TerminateThread, IdleInv, NoAssertionFails, parentVars, childThreadVars
<1>2. OpenInv'
  BY DEF TerminateThread, Answering, InParentCallback, IdleInv, OpenInv, parentVars, childThreadVars,
      slotVars, callHistoryVars
<1>3. StartInv'
  BY DEF TerminateThread, IdleInv, StartInv, parentVars, childThreadVars, slotVars, callHistoryVars
<1>4. CallInv'
  BY DEF TerminateThread, IdleInv, CallInv, childThreadVars, slotVars, callHistoryVars
<1> QED BY <1>1, <1>2, <1>3, <1>4 DEF IdleInv

LEMMA CancelKeepsIdle ==
  ASSUME ThreadIInv, IdleInv, CancelThread
  PROVE  IdleInv'
<1>1. NoAssertionFails'
  BY DEF CancelThread, IdleInv, NoAssertionFails, childThreadVars
<1>2. OpenInv'
  BY DEF CancelThread, Answering, InParentCallback, IdleInv, OpenInv, childThreadVars, slotVars, callHistoryVars
<1>3. StartInv'
  BY DEF CancelThread, IdleInv, StartInv, ParentWaits
<1>4. CallInv'
  BY DEF CancelThread, IdleInv, CallInv, childThreadVars, slotVars, callHistoryVars
<1> QED BY <1>1, <1>2, <1>3, <1>4 DEF IdleInv

LEMMA AnswerChildKeepsIdle ==
  ASSUME ThreadIInv, IdleInv, StartsWhen \subseteq {"idle"}, NEW c \in Calls, AnswerChild(c)
  PROVE  IdleInv'
<1>1. NoAssertionFails'
  BY RoutineKinds
  DEF AnswerChild, ThreadIInv, Typed, ThreadTypeOK, IdleInv, NoAssertionFails, OpenInv, Asks,
      StartOnChild, MayStart, InProcessor, childThreadVars
<1>2. OpenInv'
  BY WorkFields
  DEF AnswerChild, IdleInv, OpenInv, MayStart, childThreadVars, slotVars
<1>3. StartInv'
  BY WorkFields
  DEF AnswerChild, IdleInv, OpenInv, StartInv, CallInv, Asks, StartOnChild, MayStart,
      InProcessor, childThreadVars, slotVars
<1>4. CallInv'
  BY DEF AnswerChild, IdleInv, CallInv, childThreadVars, slotVars
<1> QED BY <1>1, <1>2, <1>3, <1>4 DEF IdleInv

-----------------------------------------------------------------------------
(* Steps of the child *)

LEMMA StartProcessorKeepsIdle ==
  ASSUME ThreadIInv, IdleInv, StartProcessor
  PROVE  IdleInv'
<1>1. NoAssertionFails'
  BY DEF StartProcessor, IdleInv, NoAssertionFails, parentVars
<1>2. OpenInv'
  BY RoutineKinds
  DEF StartProcessor, Answering, InParentCallback, IdleInv, OpenInv, CallInv, parentVars,
      slotVars, callHistoryVars
<1>3. StartInv'
  BY DEF StartProcessor, IdleInv, StartInv, parentVars, slotVars, callHistoryVars
<1>4. CallInv'
  BY DEF StartProcessor, IdleInv, CallInv
<1> QED BY <1>1, <1>2, <1>3, <1>4 DEF IdleInv

LEMMA CheckTerminationKeepsIdle ==
  ASSUME ThreadIInv, IdleInv, CheckTermination
  PROVE  IdleInv'
<1>1. NoAssertionFails'
  BY DEF CheckTermination, IdleInv, NoAssertionFails, parentVars
<1>2. OpenInv'
  BY DEF CheckTermination, Answering, InParentCallback, IdleInv, OpenInv, parentVars, slotVars,
      callHistoryVars
<1>3. StartInv'
  BY DEF CheckTermination, IdleInv, StartInv, parentVars, slotVars, callHistoryVars
<1>4. CallInv'
  BY DEF CheckTermination, IdleInv, CallInv
<1> QED BY <1>1, <1>2, <1>3, <1>4 DEF IdleInv

LEMMA WaitForWorkKeepsIdle ==
  ASSUME ThreadIInv, IdleInv, WaitForWork
  PROVE  IdleInv'
<1>1. NoAssertionFails'
  BY DEF WaitForWork, IdleInv, NoAssertionFails, parentVars
<1>2. OpenInv'
  BY RoutineKinds, WorkFields
  DEF WaitForWork, IdleInv, OpenInv, slotVars
<1>3. StartInv'
  BY DEF WaitForWork, IdleInv, StartInv, parentVars, slotVars, callHistoryVars
<1>4. CallInv'
  BY DEF WaitForWork, IdleInv, CallInv
<1> QED BY <1>1, <1>2, <1>3, <1>4 DEF IdleInv

LEMMA LeaveProcessorKeepsIdle ==
  ASSUME ThreadIInv, IdleInv, LeaveProcessor
  PROVE  IdleInv'
<1>1. NoAssertionFails'
  BY DEF LeaveProcessor, IdleInv, NoAssertionFails, parentVars
<1>2. OpenInv'
  BY DEF LeaveProcessor, Answering, InParentCallback, IdleInv, OpenInv, parentVars, slotVars,
      callHistoryVars
<1>3. StartInv'
  BY DEF LeaveProcessor, IdleInv, StartInv, parentVars, slotVars, callHistoryVars
<1>4. CallInv'
  BY DEF LeaveProcessor, IdleInv, CallInv
<1> QED BY <1>1, <1>2, <1>3, <1>4 DEF IdleInv

LEMMA TakeWorkKeepsIdle ==
  ASSUME ThreadIInv, IdleInv, TakeWork
  PROVE  IdleInv'
<1>1. NoAssertionFails'
  BY DEF TakeWork, IdleInv, NoAssertionFails, parentVars
<1>2. OpenInv'
  BY DEF TakeWork, Answering, InParentCallback, IdleInv, OpenInv, parentVars, callHistoryVars
<1>3. StartInv'
  BY DEF TakeWork, IdleInv, StartInv, parentVars, callHistoryVars
<1>4. CallInv'
  BY DEF TakeWork, IdleInv, CallInv
<1> QED BY <1>1, <1>2, <1>3, <1>4 DEF IdleInv

LEMMA FinishWorkKeepsIdle ==
  ASSUME ThreadIInv, IdleInv, FinishWork
  PROVE  IdleInv'
<1>1. NoAssertionFails'
  BY DEF FinishWork, IdleInv, NoAssertionFails, ParentWoken
<1>2. OpenInv'
  BY RoutineKinds
  DEF FinishWork, IdleInv, OpenInv
<1>3. StartInv'
  BY DEF FinishWork, IdleInv, StartInv, ParentWaits, ParentWoken, callHistoryVars
<1>4. CallInv'
  BY WorkFields
  DEF FinishWork, IdleInv, OpenInv, CallInv, callHistoryVars
<1> QED BY <1>1, <1>2, <1>3, <1>4 DEF IdleInv

LEMMA CallInParentKeepsIdle ==
  ASSUME ThreadIInv, IdleInv, CallInParent
  PROVE  IdleInv'
<1>1. NoAssertionFails'
  BY DEF CallInParent, IdleInv, NoAssertionFails, CallInv, parentVars
<1>2. OpenInv'
  BY RoutineKinds, WorkFields
  DEF CallInParent, IdleInv, OpenInv, CallInv, callHistoryVars
<1>3. StartInv'
  BY DEF CallInParent, IdleInv, StartInv, parentVars
<1>4. CallInv'
  BY DEF CallInParent, IdleInv, CallInv
<1> QED BY <1>1, <1>2, <1>3, <1>4 DEF IdleInv

LEMMA WaitForParentKeepsIdle ==
  ASSUME ThreadIInv, IdleInv, WaitForParent
  PROVE  IdleInv'
<1>1. NoAssertionFails'
  BY DEF WaitForParent, IdleInv, NoAssertionFails, parentVars
<1>2. OpenInv'
  BY DEF WaitForParent, Answering, InParentCallback, IdleInv, OpenInv, parentVars, slotVars,
      callHistoryVars
<1>3. StartInv'
  BY DEF WaitForParent, IdleInv, StartInv, parentVars, slotVars, callHistoryVars
<1>4. CallInv'
  BY DEF WaitForParent, IdleInv, CallInv
<1> QED BY <1>1, <1>2, <1>3, <1>4 DEF IdleInv

LEMMA ParentReturnedKeepsIdle ==
  ASSUME ThreadIInv, IdleInv, ParentReturned
  PROVE  IdleInv'
<1>1. NoAssertionFails'
  BY DEF ParentReturned, ThreadIInv, Typed, ThreadTypeOK, IdleInv, NoAssertionFails, parentVars
<1>2. OpenInv'
  BY RoutineKinds, WorkFields
  DEF ParentReturned, IdleInv, OpenInv
<1>3. StartInv'
  BY DEF ParentReturned, ThreadIInv, Typed, ThreadTypeOK, IdleInv, StartInv, parentVars, callHistoryVars
<1>4. CallInv'
  BY DEF ParentReturned, ThreadIInv, Typed, ThreadTypeOK, IdleInv, CallInv
<1> QED BY <1>1, <1>2, <1>3, <1>4 DEF IdleInv

LEMMA ConfirmTerminatedKeepsIdle ==
  ASSUME ThreadIInv, IdleInv, ConfirmTerminated
  PROVE  IdleInv'
<1>1. NoAssertionFails'
  BY DEF ConfirmTerminated, IdleInv, NoAssertionFails, parentVars
<1>2. OpenInv'
  BY PipeFacts
  DEF ConfirmTerminated, ThreadIInv, Typed, AnswerInv, Answering, InParentCallback, IdleInv, OpenInv,
      parentVars, slotVars, callHistoryVars
<1>3. StartInv'
  BY DEF ConfirmTerminated, IdleInv, StartInv, parentVars, slotVars, callHistoryVars
<1>4. CallInv'
  BY DEF ConfirmTerminated, IdleInv, CallInv
<1> QED BY <1>1, <1>2, <1>3, <1>4 DEF IdleInv

-----------------------------------------------------------------------------
(* The end of a cancelled child *)

LEMMA KilledWaitingKeepsIdle ==
  ASSUME ThreadIInv, IdleInv, KilledWaiting
  PROVE  IdleInv'
<1>1. NoAssertionFails'
  BY DEF KilledWaiting, IdleInv, NoAssertionFails, parentVars
<1>2. OpenInv'
  BY DEF KilledWaiting, Answering, InParentCallback, IdleInv, OpenInv, parentVars, callHistoryVars
<1>3. StartInv'
  BY DEF KilledWaiting, IdleInv, StartInv, parentVars, callHistoryVars
<1>4. CallInv'
  BY DEF KilledWaiting, IdleInv, CallInv
<1> QED BY <1>1, <1>2, <1>3, <1>4 DEF IdleInv

LEMMA KilledWithMutexKeepsIdle ==
  ASSUME ThreadIInv, IdleInv, KilledWithMutex
  PROVE  IdleInv'
<1>1. NoAssertionFails'
  BY DEF KilledWithMutex, IdleInv, NoAssertionFails, parentVars
<1>2. OpenInv'
  BY RoutineKinds, WorkFields
  DEF KilledWithMutex, Answering, InParentCallback, IdleInv, OpenInv, CallInv, parentVars,
      callHistoryVars
<1>3. StartInv'
  BY DEF KilledWithMutex, IdleInv, StartInv, parentVars, callHistoryVars
<1>4. CallInv'
  BY DEF KilledWithMutex, IdleInv, CallInv
<1> QED BY <1>1, <1>2, <1>3, <1>4 DEF IdleInv

LEMMA KilledWithoutMutexKeepsIdle ==
  ASSUME ThreadIInv, IdleInv, KilledWithoutMutex
  PROVE  IdleInv'
<1>1. NoAssertionFails'
  BY DEF KilledWithoutMutex, IdleInv, NoAssertionFails, parentVars
<1>2. OpenInv'
  BY DEF KilledWithoutMutex, Answering, InParentCallback, IdleInv, OpenInv, parentVars, slotVars,
      callHistoryVars
<1>3. StartInv'
  BY DEF KilledWithoutMutex, IdleInv, StartInv, parentVars, slotVars, callHistoryVars
<1>4. CallInv'
  BY DEF KilledWithoutMutex, IdleInv, CallInv
<1> QED BY <1>1, <1>2, <1>3, <1>4 DEF IdleInv

-----------------------------------------------------------------------------
(* Steps of the application in the child, and of neither thread *)

LEMMA CallParentKeepsIdle ==
  ASSUME ThreadIInv, IdleInv, CallParent
  PROVE  IdleInv'
<1>1. NoAssertionFails'
  BY DEF CallParent, IdleInv, NoAssertionFails, parentVars
<1>2. OpenInv'
  BY DEF CallParent, Answering, InParentCallback, IdleInv, OpenInv, parentVars, slotVars
<1>3. StartInv'
  BY DEF CallParent, IdleInv, StartInv, CallInv, Asks, parentVars
<1>4. CallInv'
  BY WorkFields
  DEF CallParent, IdleInv, CallInv, Asks, slotVars
<1> QED BY <1>1, <1>2, <1>3, <1>4 DEF IdleInv

LEMMA SpuriousWakeupKeepsIdle ==
  ASSUME ThreadIInv, IdleInv, SpuriousWakeup
  PROVE  IdleInv'
<1>1. NoAssertionFails'
  BY DEF SpuriousWakeup, IdleInv, NoAssertionFails, ParentWoken, ChildWoken
<1>2. OpenInv'
  BY DEF SpuriousWakeup, Answering, InParentCallback, IdleInv, OpenInv, ParentWoken, slotVars,
      callHistoryVars
<1>3. StartInv'
  BY DEF SpuriousWakeup, IdleInv, StartInv, ParentWaits, ParentWoken, ChildWoken, slotVars,
      callHistoryVars
<1>4. CallInv'
  BY DEF SpuriousWakeup, IdleInv, CallInv, ChildWoken, slotVars, callHistoryVars
<1> QED BY <1>1, <1>2, <1>3, <1>4 DEF IdleInv

-----------------------------------------------------------------------------
(* The invariant, and what follows from it *)

LEMMA StutterKeepsIdle ==
  ASSUME IdleInv, UNCHANGED threadVars
  PROVE  IdleInv'
BY DEF IdleInv, NoAssertionFails, OpenInv, StartInv, CallInv, Answering, InParentCallback,
       threadVars, parentVars, childThreadVars, slotVars, callHistoryVars

LEMMA NextKeepsIdle ==
  ASSUME StartsWhen \subseteq {"idle"}, ThreadIInv, IdleInv, [ThreadNext]_threadVars
  PROVE  IdleInv'
<1>1. CASE ParentStep
  BY <1>1, FillSlotKeepsIdle, WaitForChildKeepsIdle, ChildReturnedKeepsIdle,
     ReadCallKeepsIdle, CallbackReturnsKeepsIdle, EmptySlotKeepsIdle, ReadCompletedKeepsIdle,
     JoinedKeepsIdle
  DEF ParentStep
<1>2. CASE ParentApp
  BY <1>2, CallChildKeepsIdle, TerminateKeepsIdle, CancelKeepsIdle, AnswerChildKeepsIdle
  DEF ParentApp
<1>3. CASE ChildStep
  BY <1>3, StartProcessorKeepsIdle, CheckTerminationKeepsIdle, WaitForWorkKeepsIdle,
     LeaveProcessorKeepsIdle, TakeWorkKeepsIdle, FinishWorkKeepsIdle, CallInParentKeepsIdle,
     WaitForParentKeepsIdle, ParentReturnedKeepsIdle, ConfirmTerminatedKeepsIdle,
     KilledWaitingKeepsIdle, KilledWithMutexKeepsIdle, KilledWithoutMutexKeepsIdle
  DEF ChildStep, Killed
<1>4. CASE CallParent
  BY <1>4, CallParentKeepsIdle
<1>5. CASE SpuriousWakeup
  BY <1>5, SpuriousWakeupKeepsIdle
<1>6. CASE UNCHANGED threadVars
  BY <1>6, StutterKeepsIdle
<1> QED BY <1>1, <1>2, <1>3, <1>4, <1>5, <1>6 DEF ThreadNext

\* An application that starts a call to the child only when its earlier ones are
\* completed never meets the assertions that the slot is empty, although the
\* parent's is evaluated without the mutex, and however the threads interleave.
THEOREM AssertionsHoldWhenIdle ==
  ASSUME StartsWhen \subseteq {"idle"}
  PROVE  ThreadSpec => []NoAssertionFails
<1>1. ThreadIInv /\ IdleInv /\ [ThreadNext]_threadVars => IdleInv'
  BY NextKeepsIdle
<1>2. IdleInv => NoAssertionFails
  BY DEF IdleInv
<1> QED BY <1>1, <1>2, InitIdle, ThreadInvariant, PTL DEF ThreadSpec
=============================================================================
