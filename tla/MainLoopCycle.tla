--------------------------- MODULE MainLoopCycle ---------------------------
(***************************************************************************)
(* One p44::MainLoop (src/mainloop.cpp) as a whole: run() calls            *)
(* mainLoopCycle(), which runs due timers, collects one terminated child   *)
(* process, and then waits in handleIOPoll() until a file descriptor is    *)
(* ready or the next timer is due.  Application code only runs in the      *)
(* callbacks of these; all it can do there is in CallbackStep.             *)
(*                                                                         *)
(* Times are relative: a timer is the time left until it is due, and Tick  *)
(* lets one unit pass for all of them.  Time passes in callbacks, in       *)
(* poll() and in sleep(); the loop's own statements take none.  Timers are *)
(* their due times only, MainLoopTimers has the list, tickets and          *)
(* tolerances.  The poll() based build is modelled (p44utils_common.hpp    *)
(* selects libev for ENABLE_UWSC only).                                    *)
(***************************************************************************)
EXTENDS Integers, FiniteSets, FiniteSetsExt

CONSTANTS
  Timers,             \* timers of the application, each scheduled at most once at a time
  Children,           \* child processes the application may fork
  Fds,                \* file descriptors, the keys of mIoPollHandlers
  Flags,              \* poll flags
  TimerDelays,        \* delays application code schedules timers with
  CycleMaxRun,        \* mMaxRun
  MaxSleep,           \* mMaxSleep, Infinite for no limit
  WaitCheckInterval,  \* mWaitCheckInterval
  MilliSecond,        \* time units in one unit of poll()'s timeout argument
  SigChldIgnored,     \* SIGCHLD may be ignored: the kernel then keeps no exit status
  Signals             \* the process gets signals that Application terminates on

Infinite == -1
NoTime == -1

ASSUME CycleConstants ==
  /\ IsFiniteSet(Timers) /\ IsFiniteSet(Children) /\ IsFiniteSet(Fds)
  /\ Fds \subseteq Nat /\ TimerDelays \subseteq Nat
  /\ CycleMaxRun \in Nat /\ WaitCheckInterval \in Nat
  /\ MaxSleep \in Nat \cup {Infinite}
  /\ MilliSecond \in Nat \ {0}
  /\ SigChldIgnored \in BOOLEAN /\ Signals \in BOOLEAN

VARIABLES
  pc,            \* where the loop is
  resume,        \* in a callback: where its caller goes on
  current,       \* in a callback of a file descriptor or child: its argument
  timeLeft,      \* time left until each timer is due, NoTime when not scheduled
  changed,       \* mTimersChanged
  nextWake,      \* nextTimer in checkTimers(), nextWake in mainLoopCycle()
  runElapsed,    \* time since checkTimers() was called
  cycleElapsed,  \* time since cycleStarted
  pollLeft,      \* time left until poll() or usleep() returns
  couldSleep,    \* the poll at the end of the cycle is the one that may sleep
  mTerminated,   \* mTerminated
  registered,    \* keys of mIoPollHandlers
  flags,         \* pollFlags of each registered descriptor
  revents,       \* revents not handled yet
  ready,         \* the events that are true of each descriptor
  child,         \* "none", "running", "zombie" or "gone" for each child process
  status,        \* exit status of each child that has exited
  waits,         \* keys of mWaitHandlers
  oldHandlers,   \* checkWait(): the copied handlers still to be called
  called,        \* history: children whose wait callback has been called
  lost,          \* history: children that exited while SIGCHLD was ignored
  cancelledWaits \* history: waits taken back by waitForPid(NULL, pid)

timerVars == <<timeLeft, changed>>
clockVars == <<runElapsed, cycleElapsed, pollLeft>>
fdVars == <<registered, flags, revents, ready>>
childVars == <<child, status, waits, oldHandlers, called, lost, cancelledWaits>>
cycleVars == <<pc, resume, current, timerVars, nextWake, clockVars, couldSleep, mTerminated,
               fdVars, childVars>>

Statuses == {0, 1}
FakeStatus == 0
Nothing == <<>>

\* Elapsed times are counted up to one more than the limits they are compared with.
MaxElapsed == Max({CycleMaxRun, WaitCheckInterval, MaxSleep}) + 1
MaxTimeLeft == Max(TimerDelays \cup {MaxElapsed})

TimesLeft == {NoTime} \cup 0..MaxTimeLeft
Arguments == (Fds \X SUBSET Flags) \cup (Children \X Statuses) \cup {Nothing}

CycleTypeOK ==
  /\ pc \in {"run", "timers", "wait", "ending", "limit", "polling", "dispatch",
             "polled", "throttle", "callback", "ended"}
  /\ resume \in {"run", "timers", "recheck", "ending", "dispatch"}
  /\ current \in Arguments
  /\ timeLeft \in [Timers -> TimesLeft] /\ changed \in BOOLEAN
  /\ nextWake \in TimesLeft /\ pollLeft \in TimesLeft
  /\ runElapsed \in 0..MaxElapsed /\ cycleElapsed \in 0..MaxElapsed
  /\ couldSleep \in BOOLEAN /\ mTerminated \in BOOLEAN
  /\ registered \subseteq Fds /\ flags \in [Fds -> SUBSET Flags]
  /\ revents \in [Fds -> SUBSET Flags] /\ ready \in [Fds -> SUBSET Flags]
  /\ child \in [Children -> {"none", "running", "zombie", "gone"}]
  /\ status \in [Children -> Statuses]
  /\ waits \subseteq Children /\ oldHandlers \subseteq Children
  /\ called \subseteq Children /\ lost \subseteq Children /\ cancelledWaits \subseteq Children

\* The application's own startup code runs before run().
CycleInit ==
  /\ pc = "callback" /\ resume = "run" /\ current = Nothing
  /\ timeLeft = [t \in Timers |-> NoTime] /\ changed = FALSE
  /\ nextWake = NoTime
  /\ runElapsed = 0 /\ cycleElapsed = 0 /\ pollLeft = 0
  /\ couldSleep = FALSE /\ mTerminated = FALSE
  /\ registered = {} /\ flags = [f \in Fds |-> {}]
  /\ revents = [f \in Fds |-> {}] /\ ready = [f \in Fds |-> {}]
  /\ child = [c \in Children |-> "none"] /\ status = [c \in Children |-> 0]
  /\ waits = {} /\ oldHandlers = {}
  /\ called = {} /\ lost = {} /\ cancelledWaits = {}

-----------------------------------------------------------------------------
(* What application code does in a callback *)

InCallback == pc = "callback"

\* A timer is scheduled, moved or, when it is the one being executed, retriggered.
Schedule(t, d) ==
  /\ InCallback
  /\ timeLeft' = [timeLeft EXCEPT ![t] = d] /\ changed' = TRUE
  /\ UNCHANGED <<pc, resume, current, nextWake, clockVars, couldSleep, mTerminated, fdVars,
                 childVars>>

CancelTimer(t) ==
  /\ InCallback /\ timeLeft[t] # NoTime
  /\ timeLeft' = [timeLeft EXCEPT ![t] = NoTime] /\ changed' = TRUE
  /\ UNCHANGED <<pc, resume, current, nextWake, clockVars, couldSleep, mTerminated, fdVars,
                 childVars>>

RegisterPollHandler(f, fl) ==
  /\ InCallback
  /\ registered' = registered \cup {f}
  /\ flags' = [flags EXCEPT ![f] = fl]
  /\ UNCHANGED <<pc, resume, current, timerVars, nextWake, clockVars, couldSleep, mTerminated,
                 revents, ready, childVars>>

ChangePollFlags(f, set, clear) ==
  /\ InCallback /\ f \in registered
  /\ flags' = [flags EXCEPT ![f] = (@ \ clear) \cup set]
  /\ UNCHANGED <<pc, resume, current, timerVars, nextWake, clockVars, couldSleep, mTerminated,
                 registered, revents, ready, childVars>>

UnregisterPollHandler(f) ==
  /\ InCallback
  /\ registered' = registered \ {f}
  /\ flags' = [flags EXCEPT ![f] = {}]
  /\ UNCHANGED <<pc, resume, current, timerVars, nextWake, clockVars, couldSleep, mTerminated,
                 revents, ready, childVars>>

\* Reading or writing a descriptor takes its events away.
Consume(f) ==
  /\ InCallback /\ ready[f] # {}
  /\ ready' = [ready EXCEPT ![f] = {}]
  /\ UNCHANGED <<pc, resume, current, timerVars, nextWake, clockVars, couldSleep, mTerminated,
                 registered, flags, revents, childVars>>

\* fork_and_execve() in the parent: the new child is waited for.
Fork(c) ==
  /\ InCallback /\ child[c] = "none"
  /\ child' = [child EXCEPT ![c] = "running"]
  /\ waits' = waits \cup {c}
  /\ UNCHANGED <<pc, resume, current, timerVars, nextWake, clockVars, couldSleep, mTerminated,
                 fdVars, status, oldHandlers, called, cancelledWaits, lost>>

\* waitForPid(NULL, pid)
CancelWait(c) ==
  /\ InCallback /\ child[c] # "none" /\ c \notin called
  /\ waits' = waits \ {c}
  /\ cancelledWaits' = cancelledWaits \cup {c}
  /\ UNCHANGED <<pc, resume, current, timerVars, nextWake, clockVars, couldSleep, mTerminated,
                 fdVars, child, status, oldHandlers, called, lost>>

TerminateLoop ==
  /\ InCallback
  /\ mTerminated' = TRUE
  /\ UNCHANGED <<pc, resume, current, timerVars, nextWake, clockVars, couldSleep, fdVars,
                 childVars>>

CallbackStep ==
  \/ \E t \in Timers : CancelTimer(t) \/ \E d \in TimerDelays : Schedule(t, d)
  \/ \E f \in Fds :
       \/ UnregisterPollHandler(f) \/ Consume(f)
       \/ \E fl \in SUBSET Flags : RegisterPollHandler(f, fl)
       \/ \E set, clear \in SUBSET Flags : ChangePollFlags(f, set, clear)
  \/ \E c \in Children : Fork(c) \/ CancelWait(c)
  \/ TerminateLoop

-----------------------------------------------------------------------------
(* checkTimers() *)

Due == {t \in Timers : timeLeft[t] = 0}
Scheduled == {t \in Timers : timeLeft[t] # NoTime}

BeginTimers ==
  /\ pc' = "timers"
  /\ runElapsed' = 0
  /\ nextWake' = NoTime /\ changed' = FALSE

Mutant_FireTimer_NoRunLimit(t) ==
  /\ pc = "timers" /\ t \in Due
  /\ ~mTerminated
  /\ timeLeft' = [timeLeft EXCEPT ![t] = NoTime]
  /\ nextWake' = 0 /\ changed' = FALSE
  /\ pc' = "callback" /\ resume' = "timers"
  /\ UNCHANGED <<current, clockVars, couldSleep, mTerminated, fdVars, childVars>>

\* A due timer is taken off the list and its callback is called.
FireTimer(t) ==
  /\ pc = "timers" /\ t \in Due
  /\ runElapsed <= CycleMaxRun /\ ~mTerminated
  /\ timeLeft' = [timeLeft EXCEPT ![t] = NoTime]
  /\ nextWake' = 0 /\ changed' = FALSE
  /\ pc' = "callback" /\ resume' = "timers"
  /\ UNCHANGED <<current, clockVars, couldSleep, mTerminated, fdVars, childVars>>

\* The result of checkTimers(): when the last timer of the list has run and
\* its callback did not touch the list, it is still the time of that timer.
NextTimer ==
  IF Due # {} THEN IF runElapsed > CycleMaxRun THEN 0 ELSE NoTime
  ELSE IF Scheduled # {} THEN Min({timeLeft[t] : t \in Scheduled})
  ELSE IF changed THEN NoTime ELSE nextWake

TimersChecked ==
  /\ pc = "timers"
  /\ Due = {} \/ runElapsed > CycleMaxRun \/ mTerminated
  /\ nextWake' = NextTimer
  /\ runElapsed' = 0
  /\ pc' = IF mTerminated THEN "run" ELSE "wait"
  /\ UNCHANGED <<resume, current, timerVars, cycleElapsed, pollLeft, couldSleep, mTerminated,
                 fdVars, childVars>>

-----------------------------------------------------------------------------
(* checkWait() *)

AtLeast0(x) == IF x < 0 THEN 0 ELSE x

\* nextWake limited to `limit' after the start of the cycle, by a comparison
\* that takes NoTime, which is 0 in the code, for a time in the past.
Limited(wake, limit) ==
  IF wake # NoTime /\ wake > limit - cycleElapsed THEN AtLeast0(limit - cycleElapsed) ELSE wake

\* checkWait() has returned `all' and mainLoopCycle() looks at mTerminated.
Checked(all) ==
  /\ nextWake' = IF all THEN nextWake ELSE Limited(nextWake, WaitCheckInterval)
  /\ pc' = IF mTerminated THEN "run" ELSE "limit"

CallWaitHandler(c, s) ==
  /\ pc' = "callback" /\ current' = <<c, s>>
  /\ called' = called \cup {c}

InState(s) == {c \in Children : child[c] = s}

NothingToWaitFor ==
  /\ pc = "wait" /\ waits = {}
  /\ Checked(TRUE)
  /\ UNCHANGED <<resume, current, timerVars, clockVars, couldSleep, mTerminated, fdVars,
                 childVars>>

\* waitpid() returns a child with a wait handler.
ReapWaited(c) ==
  /\ pc = "wait" /\ c \in waits /\ child[c] = "zombie"
  /\ child' = [child EXCEPT ![c] = "gone"]
  /\ waits' = waits \ {c}
  /\ CallWaitHandler(c, status[c])
  /\ resume' = "recheck"
  /\ UNCHANGED <<timerVars, nextWake, clockVars, couldSleep, mTerminated, fdVars, status,
                 oldHandlers, cancelledWaits, lost>>

\* waitpid() returns a child nobody waits for: its status is lost.
ReapUnknown(c) ==
  /\ pc = "wait" /\ waits # {} /\ c \notin waits /\ child[c] = "zombie"
  /\ child' = [child EXCEPT ![c] = "gone"]
  /\ Checked(TRUE)
  /\ UNCHANGED <<resume, current, timerVars, clockVars, couldSleep, mTerminated, fdVars,
                 status, waits, oldHandlers, called, cancelledWaits, lost>>

\* waitpid() returns 0: children are running, none has exited.
OnlyRunning ==
  /\ pc = "wait" /\ waits # {}
  /\ InState("zombie") = {} /\ InState("running") # {}
  /\ Checked(TRUE)
  /\ UNCHANGED <<resume, current, timerVars, clockVars, couldSleep, mTerminated, fdVars,
                 childVars>>

Mutant_NoChildren_EndsRunningToo ==
  /\ pc = "wait" /\ waits # {}
  /\ InState("zombie") = {}
  /\ oldHandlers' = waits /\ waits' = {}
  /\ pc' = "ending"
  /\ UNCHANGED <<resume, current, timerVars, nextWake, clockVars, couldSleep, mTerminated,
                 fdVars, child, status, called, cancelledWaits, lost>>

Mutant_NoChildren_KeepsWaits ==
  /\ pc = "wait" /\ waits # {}
  /\ InState("zombie") = {} /\ InState("running") = {}
  /\ Checked(TRUE)
  /\ UNCHANGED <<resume, current, timerVars, clockVars, couldSleep, mTerminated, fdVars,
                 childVars>>

\* waitpid() fails with ECHILD: all waits are ended, from a copy of the list.
NoChildren ==
  /\ pc = "wait" /\ waits # {}
  /\ InState("zombie") = {} /\ InState("running") = {}
  /\ oldHandlers' = waits /\ waits' = {}
  /\ pc' = "ending"
  /\ UNCHANGED <<resume, current, timerVars, nextWake, clockVars, couldSleep, mTerminated,
                 fdVars, child, status, called, cancelledWaits, lost>>

EndWait(c) ==
  /\ pc = "ending" /\ c \in oldHandlers
  /\ oldHandlers' = oldHandlers \ {c}
  /\ CallWaitHandler(c, FakeStatus)
  /\ resume' = "ending"
  /\ UNCHANGED <<timerVars, nextWake, clockVars, couldSleep, mTerminated, fdVars, child,
                 status, waits, cancelledWaits, lost>>

WaitsEnded ==
  /\ pc = "ending" /\ oldHandlers = {}
  /\ Checked(TRUE)
  /\ UNCHANGED <<resume, current, timerVars, clockVars, couldSleep, mTerminated, fdVars,
                 childVars>>

-----------------------------------------------------------------------------
(* handleIOPoll() *)

Polled == {f \in registered : flags[f] # {}}
Events(f) == flags[f] \cap ready[f]
Ready == {f \in Polled : Events(f) # {}}

Mutant_Wake_NoSleepLimit == nextWake

\* The time mainLoopCycle() wants to wake up at, NoTime for no such time.
Wake ==
  IF MaxSleep # Infinite /\ nextWake = NoTime
    THEN AtLeast0(MaxSleep - cycleElapsed)
    ELSE IF MaxSleep = Infinite THEN nextWake ELSE Limited(nextWake, MaxSleep)

Mutant_PollTime_RoundsUp(wake) ==
  IF Polled = {} THEN IF wake = NoTime THEN 0 ELSE wake
  ELSE IF wake = NoTime THEN Infinite
  ELSE (wake \div MilliSecond + 1) * MilliSecond

\* How long poll() may block, or usleep() when there is nothing to poll:
\* poll() counts milliseconds, and Infinite is no time to usleep().
PollTime(wake) ==
  IF Polled = {} THEN IF wake = NoTime THEN 0 ELSE wake
  ELSE IF wake = NoTime THEN Infinite
  ELSE (wake \div MilliSecond) * MilliSecond

EnterPoll ==
  /\ pc = "limit"
  /\ couldSleep' = (Wake # 0)
  /\ pollLeft' = PollTime(Wake)
  /\ nextWake' = NoTime
  /\ pc' = "polling"
  /\ UNCHANGED <<resume, current, timerVars, runElapsed, cycleElapsed, mTerminated, fdVars,
                 childVars>>

PollReturnsReady ==
  /\ pc = "polling" /\ Ready # {}
  /\ revents' = [f \in Fds |-> IF f \in Ready THEN Events(f) ELSE {}]
  /\ pollLeft' = 0
  /\ pc' = "dispatch"
  /\ UNCHANGED <<resume, current, timerVars, nextWake, runElapsed, cycleElapsed, couldSleep,
                 mTerminated, registered, flags, ready, childVars>>

PollTimesOut ==
  /\ pc = "polling" /\ Ready = {} /\ pollLeft = 0
  /\ pc' = "polled"
  /\ UNCHANGED <<resume, current, timerVars, nextWake, clockVars, couldSleep, mTerminated,
                 fdVars, childVars>>

\* The descriptors poll() has returned, in the order of the handler map.
Unhandled == {f \in Fds : revents[f] # {}}

CallPollHandler(f) ==
  /\ pc = "dispatch" /\ f \in registered /\ f \in Unhandled /\ f = Min(Unhandled)
  /\ revents' = [revents EXCEPT ![f] = {}]
  /\ pc' = "callback" /\ resume' = "dispatch" /\ current' = <<f, revents[f]>>
  /\ UNCHANGED <<timerVars, nextWake, clockVars, couldSleep, mTerminated, registered, flags,
                 ready, childVars>>

\* The handler has been unregistered since poll() returned.
SkipPollHandler(f) ==
  /\ pc = "dispatch" /\ f \notin registered /\ f \in Unhandled /\ f = Min(Unhandled)
  /\ revents' = [revents EXCEPT ![f] = {}]
  /\ UNCHANGED <<pc, resume, current, timerVars, nextWake, clockVars, couldSleep, mTerminated,
                 registered, flags, ready, childVars>>

AllHandled ==
  /\ pc = "dispatch" /\ Unhandled = {}
  /\ pc' = "polled"
  /\ UNCHANGED <<resume, current, timerVars, nextWake, clockVars, couldSleep, mTerminated,
                 fdVars, childVars>>

-----------------------------------------------------------------------------
(* mainLoopCycle() and run() *)

StartCycle ==
  /\ pc = "run" /\ ~mTerminated
  /\ cycleElapsed' = 0
  /\ BeginTimers
  /\ UNCHANGED <<resume, current, timeLeft, pollLeft, couldSleep, mTerminated, fdVars, childVars>>

\* The cycle ends with the poll that had the chance to sleep.
CycleSlept ==
  /\ pc = "polled" /\ couldSleep
  /\ pc' = "run" /\ cycleElapsed' = 0
  /\ UNCHANGED <<resume, current, timerVars, nextWake, runElapsed, pollLeft, couldSleep,
                 mTerminated, fdVars, childVars>>

\* The cycle has used up its time without sleeping: run() sleeps a while.
CycleRanTooLong ==
  /\ pc = "polled" /\ ~couldSleep /\ cycleElapsed > CycleMaxRun
  /\ pc' = "throttle" /\ cycleElapsed' = 0
  /\ UNCHANGED <<resume, current, timerVars, nextWake, runElapsed, pollLeft, couldSleep,
                 mTerminated, fdVars, childVars>>

Mutant_CycleContinues_Always ==
  /\ pc = "polled" /\ ~couldSleep /\ ~mTerminated
  /\ BeginTimers
  /\ UNCHANGED <<resume, current, timeLeft, cycleElapsed, pollLeft, couldSleep, mTerminated,
                 fdVars, childVars>>

CycleContinues ==
  /\ pc = "polled" /\ ~couldSleep /\ cycleElapsed <= CycleMaxRun /\ ~mTerminated
  /\ BeginTimers
  /\ UNCHANGED <<resume, current, timeLeft, cycleElapsed, pollLeft, couldSleep, mTerminated,
                 fdVars, childVars>>

CycleTerminated ==
  /\ pc = "polled" /\ ~couldSleep /\ cycleElapsed <= CycleMaxRun /\ mTerminated
  /\ pc' = "run" /\ cycleElapsed' = 0
  /\ UNCHANGED <<resume, current, timerVars, nextWake, runElapsed, pollLeft, couldSleep,
                 mTerminated, fdVars, childVars>>

Throttle ==
  /\ pc = "throttle"
  /\ pc' = "run"
  /\ UNCHANGED <<resume, current, timerVars, nextWake, clockVars, couldSleep, mTerminated,
                 fdVars, childVars>>

\* A callback returns to whoever called it.
ReturnFromCallback ==
  /\ InCallback
  /\ IF resume = "recheck" THEN Checked(FALSE)
     ELSE pc' = resume /\ UNCHANGED nextWake
  /\ current' = Nothing
  /\ UNCHANGED <<resume, timerVars, clockVars, couldSleep, mTerminated, fdVars, childVars>>

\* finalizeMainLoop()
FinalizeMainLoop ==
  /\ pc = "run" /\ mTerminated
  /\ timeLeft' = [t \in Timers |-> NoTime]
  /\ waits' = {}
  /\ registered' = {} /\ flags' = [f \in Fds |-> {}]
  /\ pc' = "ended"
  /\ UNCHANGED <<resume, current, changed, nextWake, clockVars, couldSleep, mTerminated,
                 revents, ready, child, status, oldHandlers, called, cancelledWaits, lost>>

\* run(TRUE) after the mainloop has ended, preceded by application code.
RunAgain ==
  /\ pc = "ended"
  /\ mTerminated' = FALSE
  /\ pc' = "callback" /\ resume' = "run"
  /\ UNCHANGED <<current, timerVars, nextWake, clockVars, couldSleep, fdVars, childVars>>

LoopStep ==
  \/ StartCycle \/ CycleSlept \/ CycleRanTooLong \/ CycleContinues \/ CycleTerminated
  \/ Throttle \/ ReturnFromCallback \/ FinalizeMainLoop
  \/ TimersChecked \/ \E t \in Timers : FireTimer(t)
  \/ NothingToWaitFor \/ OnlyRunning \/ NoChildren \/ WaitsEnded
  \/ \E c \in Children : ReapWaited(c) \/ ReapUnknown(c) \/ EndWait(c)
  \/ EnterPoll \/ PollReturnsReady \/ PollTimesOut \/ AllHandled
  \/ \E f \in Fds : CallPollHandler(f) \/ SkipPollHandler(f)

-----------------------------------------------------------------------------
(* The environment *)

Sooner(x) == IF x > 0 THEN x - 1 ELSE x
Later(x) == IF x = MaxElapsed THEN x ELSE x + 1

\* One unit of time passes, in poll() no more than it was asked to wait.
Tick ==
  /\ pc \in {"callback", "polling", "throttle"}
  /\ pc = "polling" => pollLeft # 0
  /\ timeLeft' = [t \in Timers |-> Sooner(timeLeft[t])]
  /\ nextWake' = Sooner(nextWake)
  /\ pollLeft' = Sooner(pollLeft)
  /\ runElapsed' = IF InCallback /\ resume = "timers" THEN Later(runElapsed) ELSE runElapsed
  /\ cycleElapsed' = IF InCallback /\ resume # "run" THEN Later(cycleElapsed) ELSE cycleElapsed
  /\ UNCHANGED <<pc, resume, current, changed, couldSleep, mTerminated, fdVars, childVars>>

ChildExits(c, s, ignored) ==
  /\ child[c] = "running"
  /\ ignored => SigChldIgnored
  /\ child' = [child EXCEPT ![c] = IF ignored THEN "gone" ELSE "zombie"]
  /\ status' = [status EXCEPT ![c] = s]
  /\ lost' = IF ignored THEN lost \cup {c} ELSE lost
  /\ UNCHANGED <<pc, resume, current, timerVars, nextWake, clockVars, couldSleep, mTerminated,
                 fdVars, waits, oldHandlers, called, cancelledWaits>>

FdBecomesReady(f, e) ==
  /\ e \notin ready[f]
  /\ ready' = [ready EXCEPT ![f] = @ \cup {e}]
  /\ UNCHANGED <<pc, resume, current, timerVars, nextWake, clockVars, couldSleep, mTerminated,
                 registered, flags, revents, childVars>>

\* A signal that Application terminates on; it interrupts a blocking poll().
Signal ==
  /\ Signals /\ ~mTerminated /\ pc # "ended"
  /\ mTerminated' = TRUE
  /\ pc' = IF pc = "polling" THEN "polled" ELSE pc
  /\ pollLeft' = IF pc = "polling" THEN 0 ELSE pollLeft
  /\ UNCHANGED <<resume, current, timerVars, nextWake, runElapsed, cycleElapsed, couldSleep,
                 fdVars, childVars>>

Environment ==
  \/ Tick \/ Signal
  \/ \E c \in Children, s \in Statuses, ignored \in BOOLEAN : ChildExits(c, s, ignored)
  \/ \E f \in Fds, e \in Flags : FdBecomesReady(f, e)

CycleNext == LoopStep \/ CallbackStep \/ RunAgain \/ Environment

CycleSpec == CycleInit /\ [][CycleNext]_cycleVars

\* The loop's thread is scheduled, callbacks return, and time passes even
\* when it only gets a chance to within callbacks.
CycleFairSpec == CycleSpec /\ WF_cycleVars(LoopStep) /\ SF_cycleVars(Tick)

-----------------------------------------------------------------------------
(* Properties *)

\* The loop does not wait past the time of a timer (mainLoopCycle(): "nothing
\* due before timeout"), whatever was scheduled after checkTimers() looked.
NeverOversleeps ==
  pc = "polling" /\ pollLeft # 0 =>
    \A t \in Scheduled : pollLeft # Infinite /\ pollLeft <= timeLeft[t]

\* While children are waited for, waitpid() is called again within
\* mWaitCheckInterval (mainloop.hpp: "max interval between checks for
\* termination of running child processes").
WaitIntervalKept ==
  pc = "polling" /\ waits # {} => pollLeft \in 0..WaitCheckInterval

InWaitCallback == InCallback /\ resume \in {"recheck", "ending"}

\* checkWait() reports a child after it has exited, and its own exit status
\* unless the kernel has not kept that.
StatusesAreReal ==
  InWaitCallback =>
    \A c \in {current[1]} : child[c] = "gone" /\ (c \in lost \/ current[2] = status[c])

\* A wait reports the child's own end, and once only, also when checkWait() later
\* runs out of children and ends the waits it still has.
WaitsEndOnce ==
  [][InWaitCallback' /\ ~InCallback => StatusesAreReal' /\ current'[1] \notin called]_cycleVars

\* waitForPid(NULL, pid) keeps the callback from being called (mainloop.hpp:
\* "NULL to remove callback"), also from within another wait callback.
CancelledWaitNotCalled ==
  InWaitCallback => current[1] \notin cancelledWaits

\* handleIOPoll() calls a handler for an event it is registered for at that
\* time (mainloop.hpp: "called when poll() reports an event for one of the
\* flags set"), although earlier handlers of the round may have changed flags.
CalledForItsFlags ==
  [][\A f \in Fds : (pc = "dispatch" /\ InCallback' /\ current'[1] = f) =>
       current'[2] \cap flags[f] # {}]_cycleVars

\* A cycle that will report that it had the chance to sleep gave poll() or
\* usleep() a time to sleep (mainLoopCycle(): "true if cycle had the chance to
\* sleep"): run() relies on it to throttle.
ReportsSleep ==
  [][(pc = "limit" /\ pc' = "polling" /\ couldSleep') => pollLeft' # 0]_cycleVars

\* terminate() ends run(), wherever in the cycle it was called.
TerminateEndsRun == mTerminated ~> pc = "ended"

\* A due timer is executed, cancelled or moved, however long callbacks take.
TimersFire == \A t \in Timers : (timeLeft[t] = 0) ~> (timeLeft[t] # 0)

InHandlerOf(f) == InCallback /\ resume = "dispatch" /\ current[1] = f

\* A descriptor with an event it is registered for has its handler called,
\* even when timers keep the loop busy: mMaxRun ends checkTimers().
ReadyFdsServed ==
  \A f \in Fds : (f \in Ready) ~> (f \notin Ready \/ InHandlerOf(f))

\* Neither timers nor descriptors keep the others from being handled.
NothingStarves == TimersFire /\ ReadyFdsServed

\* With descriptors to poll, the loop leaves the CPU to others again and
\* again, even when timers keep it busy: run() throttles it.
AlwaysYields ==
  []<>(\/ pc \in {"throttle", "ended"} \/ Polled = {}
       \/ pc = "polling" /\ pollLeft # 0)

\* The wait for a child that has exited ends, with its callback or otherwise,
\* although nothing wakes up the loop when a child exits.
ExitsAreReported ==
  \A c \in Children : (child[c] = "zombie" /\ c \in waits) ~> (c \notin waits)

Living == InState("running") \cup InState("zombie")

\* When no child is left and the kernel kept no statuses, all waits are ended.
LostExitsEndWaits ==
  \A c \in Children : (c \in waits /\ Living = {}) ~> (c \notin waits \/ Living # {})

\* No wait stays behind a child that has gone.
WaitsEnd == ExitsAreReported /\ LostExitsEndWaits

=============================================================================
