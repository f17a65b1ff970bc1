----------------------------- MODULE ChildThread -----------------------------
(***************************************************************************)
(* p44::ChildThreadWrapper (src/mainloop.cpp): a thread started by a       *)
(* parent thread that runs a MainLoop.  Either thread can have a routine   *)
(* executed on the other one.  There is one slot for the routine, guarded  *)
(* by one mutex, and one condition variable for both directions:           *)
(*                                                                         *)
(*  - to the child: the parent fills the slot and broadcasts; the child    *)
(*    picks routines up in crossThreadCallProcessor(), runs them with the  *)
(*    mutex locked, and empties the slot.  A routine started with a status *)
(*    callback then has that delivered as a call in the other direction.   *)
(*  - to the parent: the child fills the slot, writes a byte to the pipe   *)
(*    the parent's mainloop polls, and waits until the slot is empty.      *)
(*                                                                         *)
(* A step is what a thread does between two points where the other one can *)
(* make a difference: a critical section that does not block is one step.  *)
(***************************************************************************)
EXTENDS Integers, Sequences, FiniteSets

CONSTANTS
  MaxCalls,     \* bound: number of calls the application makes
  Kinds,        \* kinds of calls: subset of {"sync", "async", "ask", "askAsync"}
  StartsWhen,   \* when the application starts a call to the child: subset of
                \*   {"idle", "busy", "callback"}
  CancelsIn,    \* where it calls cancel(): subset of {"loop", "callback"}
  Terminates    \* whether it calls terminate()

ASSUME ThreadConstants ==
  /\ MaxCalls \in Nat
  /\ Kinds \subseteq {"sync", "async", "ask", "askAsync"}
  /\ StartsWhen \subseteq {"idle", "busy", "callback"}
  /\ CancelsIn \subseteq {"loop", "callback"}
  /\ Terminates \in BOOLEAN

VARIABLES
  ppc,           \* where the parent thread is
  pcall,         \* the call to the child it is making
  back,          \* where it continues after that call or after cancel()
  cpc,           \* where the child thread is
  ccall,         \* the call to the parent it is making
  cback,         \* where it continues after that call
  mutex,         \* mCrossThreadCallMutex: "free" or its owner
  routine,       \* mCrossThreadCallRoutine
  statusCB,      \* mCrossThreadStatusCB: the call it belongs to
  callStatus,        \* mCrossThreadCallStatus: the routine that returned it
  pipe,          \* signal bytes written by the child and not read yet
  threadRunning,       \* mThreadRunning
  termination,   \* mTerminationPending
  threadCancelled,     \* pthread_cancel() has been called
  made,          \* history: number of calls made
  open,          \* history: calls to the child that are not completed yet
  asyncOperations,       \* asynchronous operations started on the parent for the child
  final          \* history: final signals the parent's signal handler got

parentVars == <<ppc, pcall, back>>
childThreadVars == <<cpc, ccall, cback>>
slotVars == <<mutex, routine, statusCB, callStatus>>
callHistoryVars == <<made, open, asyncOperations, final>>
threadVars == <<parentVars, childThreadVars, slotVars, pipe, threadRunning, termination,
                threadCancelled, callHistoryVars>>

Calls == 1..MaxCalls
NoCall == 0

\* A routine: "run" and "answer" are executed by the child, "deliver", "ask"
\* and "askAsync" by the parent; call is the application's call it is part of.
Routine == [what : {"run", "answer", "deliver", "ask", "askAsync"}, call : Calls]
NoRoutine == [what |-> "none", call |-> NoCall]
Work(what, call) == [what |-> what, call |-> call]

\* The parent's half and the child's half of the wait for an empty slot.
ParentWaits == {"waitLock", "waiting"}
ChildCalls == {"called", "calledLock"}

ThreadTypeOK ==
  /\ ppc \in {"loop", "startLock", "callback", "doneLock", "join", "failed"} \cup ParentWaits
  /\ pcall \in Routine \cup {NoRoutine}
  /\ back \in {"loop", "callback"}
  /\ cpc \in {"start", "check", "lock", "idle", "idleLock", "run", "callLock", "confirm",
              "ended", "killed", "failed"} \cup ChildCalls
  /\ ccall \in Routine \cup {NoRoutine}
  /\ cback \in {"start", "check"}
  /\ mutex \in {"free", "child"}
  /\ routine \in Routine \cup {NoRoutine}
  /\ statusCB \in Calls \cup {NoCall}
  /\ callStatus \in Routine \cup {NoRoutine}
  /\ pipe \in Seq({"call", "completed"}) /\ Len(pipe) <= 1
  /\ threadRunning \in BOOLEAN /\ termination \in BOOLEAN /\ threadCancelled \in BOOLEAN
  /\ made \in Calls \cup {NoCall}
  /\ open \subseteq Calls /\ asyncOperations \subseteq Calls
  /\ final \in Seq({"completed", "cancelled"})

\* executeInThread() has just returned.
ThreadInit ==
  /\ ppc = "loop" /\ pcall = NoRoutine /\ back = "loop"
  /\ cpc = "start" /\ ccall = NoRoutine /\ cback = "start"
  /\ mutex = "free" /\ routine = NoRoutine /\ statusCB = NoCall /\ callStatus = NoRoutine
  /\ pipe = <<>>
  /\ threadRunning = TRUE /\ termination = FALSE /\ threadCancelled = FALSE
  /\ made = 0 /\ open = {} /\ asyncOperations = {} /\ final = <<>>

-----------------------------------------------------------------------------
(* The condition variable: where a waiting thread is after a broadcast *)

ParentWoken(at) == IF at = "waiting" THEN "waitLock" ELSE at
ChildWoken(at) == IF at = "idle" THEN "idleLock" ELSE IF at = "called" THEN "calledLock" ELSE at

\* pthread_cond_wait() may return without a broadcast.
SpuriousWakeup ==
  /\ ppc = "waiting" \/ cpc \in {"idle", "called"}
  /\ \/ ppc' = ParentWoken(ppc) /\ cpc' = cpc
     \/ ppc' = ppc /\ cpc' = ChildWoken(cpc)
  /\ UNCHANGED <<pcall, back, ccall, cback, slotVars, pipe, threadRunning, termination,
                 threadCancelled,
                 callHistoryVars>>

-----------------------------------------------------------------------------
(* The parent calls the child *)

\* The child has entered crossThreadCallProcessor(), or does nothing else first.
InProcessor == cback = "check" \/ Kinds \cap {"ask", "askAsync"} = {}

\* The application follows the rules it has been given about when to call:
\* with "idle", only when all its earlier calls are completed.
MayStart ==
  /\ threadRunning
  /\ \/ "idle" \in StartsWhen /\ ppc = "loop" /\ open = {} /\ InProcessor
     \/ "busy" \in StartsWhen /\ ppc = "loop"
     \/ "callback" \in StartsWhen /\ ppc = "callback"

\* startOnChildThread() asserts, without the mutex, that the slot is empty.
StartOnChild(work) ==
  /\ ppc' = IF routine = NoRoutine THEN "startLock" ELSE "failed"
  /\ pcall' = work
  /\ back' = ppc

\* executeOnChildThread() or executeOnChildThreadAsync()
CallChild ==
  /\ MayStart /\ made + 1 \in Calls /\ Kinds \cap {"sync", "async"} # {}
  /\ StartOnChild(Work("run", made + 1))
  /\ made' = made + 1 /\ open' = open \cup {made + 1}
  /\ UNCHANGED <<childThreadVars, slotVars, pipe, threadRunning, termination, threadCancelled,
                 asyncOperations, final>>

\* An asynchronous operation started for the child ends: parentToChildCallback().
AnswerChild(c) ==
  /\ MayStart /\ c \in asyncOperations
  /\ StartOnChild(Work("answer", c))
  /\ asyncOperations' = asyncOperations \ {c} /\ open' = open \cup {c}
  /\ UNCHANGED <<childThreadVars, slotVars, pipe, threadRunning, termination, threadCancelled, made,
                 final>>

\* The slot is filled, and the parent waits or goes on.
FillSlot(async) ==
  /\ ppc = "startLock" /\ mutex = "free"
  /\ async => pcall.what = "run" /\ "async" \in Kinds
  /\ ~async => pcall.what = "answer" \/ "sync" \in Kinds
  /\ routine' = pcall
  /\ statusCB' = IF async THEN pcall.call ELSE NoCall
  /\ cpc' = ChildWoken(cpc)
  /\ ppc' = IF async THEN back ELSE "waitLock"
  /\ pcall' = IF async THEN NoRoutine ELSE pcall
  /\ UNCHANGED <<back, ccall, cback, mutex, callStatus, pipe, threadRunning, termination,
                 threadCancelled,
                 callHistoryVars>>

WaitForChild ==
  /\ ppc = "waitLock" /\ mutex = "free" /\ routine # NoRoutine
  /\ ppc' = "waiting"
  /\ UNCHANGED <<pcall, back, childThreadVars, slotVars, pipe, threadRunning, termination,
                 threadCancelled,
                 callHistoryVars>>

Mutant_ChildReturned_WithoutRecheck ==
  /\ ppc = "waitLock" /\ mutex = "free"
  /\ ppc' = back /\ pcall' = NoRoutine
  /\ open' = open \ {pcall.call}
  /\ UNCHANGED <<back, childThreadVars, slotVars, pipe, threadRunning, termination, threadCancelled,
                 made,
                 asyncOperations, final>>

\* executeOnChildThread() returns mCrossThreadCallStatus.
ChildReturned ==
  /\ ppc = "waitLock" /\ mutex = "free" /\ routine = NoRoutine
  /\ ppc' = back /\ pcall' = NoRoutine
  /\ open' = open \ {pcall.call}
  /\ UNCHANGED <<back, childThreadVars, slotVars, pipe, threadRunning, termination, threadCancelled,
                 made,
                 asyncOperations, final>>

-----------------------------------------------------------------------------
(* The parent's mainloop reads the pipe: signalPipeHandler() *)

ReadCall ==
  /\ ppc = "loop" /\ threadRunning /\ pipe # <<>> /\ Head(pipe) = "call"
  /\ pipe' = Tail(pipe)
  /\ ppc' = "callback" /\ back' = "loop"
  /\ asyncOperations' = IF routine.what = "askAsync" THEN asyncOperations \cup {routine.call}
                        ELSE asyncOperations
  /\ UNCHANGED <<pcall, childThreadVars, slotVars, threadRunning, termination, threadCancelled,
                 made, open, final>>

CallbackReturns ==
  /\ ppc = "callback"
  /\ callStatus' = routine
  /\ ppc' = "doneLock"
  /\ UNCHANGED <<pcall, back, childThreadVars, mutex, routine, statusCB, pipe, threadRunning,
                 termination,
                 threadCancelled, callHistoryVars>>

EmptySlot ==
  /\ ppc = "doneLock" /\ mutex = "free"
  /\ routine' = NoRoutine
  /\ open' = IF routine.what = "deliver" THEN open \ {routine.call} ELSE open
  /\ cpc' = ChildWoken(cpc)
  /\ ppc' = "loop"
  /\ UNCHANGED <<pcall, back, ccall, cback, mutex, statusCB, callStatus, pipe, threadRunning,
                 termination, threadCancelled, made, asyncOperations, final>>

ReadCompleted ==
  /\ ppc = "loop" /\ threadRunning /\ pipe # <<>> /\ Head(pipe) = "completed"
  /\ pipe' = Tail(pipe)
  /\ ppc' = "join" /\ back' = "loop"
  /\ UNCHANGED <<pcall, childThreadVars, slotVars, threadRunning, termination, threadCancelled,
                 callHistoryVars>>

FinalSignal == IF threadCancelled THEN "cancelled" ELSE "completed"

Mutant_Joined_StillRunning ==
  /\ ppc = "join" /\ cpc \in {"ended", "killed"}
  /\ pipe' = <<>>
  /\ final' = Append(final, FinalSignal)
  /\ ppc' = back
  /\ UNCHANGED <<pcall, back, childThreadVars, slotVars, threadRunning, termination,
                 threadCancelled, made, open,
                 asyncOperations>>

\* finalizeThreadExecution(), then the parent's signal handler.
Joined ==
  /\ ppc = "join" /\ cpc \in {"ended", "killed"}
  /\ threadRunning' = FALSE
  /\ pipe' = <<>>
  /\ final' = Append(final, FinalSignal)
  /\ ppc' = back
  /\ UNCHANGED <<pcall, back, childThreadVars, slotVars, termination, threadCancelled, made, open,
                 asyncOperations>>

TerminateThread ==
  /\ Terminates /\ ppc \in {"loop", "callback"} /\ ~termination
  /\ termination' = TRUE
  /\ UNCHANGED <<parentVars, childThreadVars, slotVars, pipe, threadRunning, threadCancelled,
                 callHistoryVars>>

CancelThread ==
  /\ ppc \in CancelsIn /\ threadRunning
  /\ threadCancelled' = TRUE
  /\ ppc' = "join" /\ back' = ppc
  /\ UNCHANGED <<pcall, childThreadVars, slotVars, pipe, threadRunning, termination, callHistoryVars>>

ParentStep ==
  \/ \E async \in BOOLEAN : FillSlot(async)
  \/ WaitForChild \/ ChildReturned
  \/ ReadCall \/ CallbackReturns \/ EmptySlot \/ ReadCompleted \/ Joined

ParentApp == CallChild \/ TerminateThread \/ CancelThread \/ \E c \in Calls : AnswerChild(c)

-----------------------------------------------------------------------------
(* The child thread *)

\* The thread routine calls executeOnParentThread() or ...Async() on its own,
\* which it can before it enters crossThreadCallProcessor().
CallParent ==
  /\ cpc = "start" /\ made + 1 \in Calls
  /\ \E what \in Kinds \cap {"ask", "askAsync"} : ccall' = Work(what, made + 1)
  /\ made' = made + 1
  /\ cpc' = "callLock" /\ cback' = "start"
  /\ UNCHANGED <<parentVars, slotVars, pipe, threadRunning, termination, threadCancelled, open,
                 asyncOperations, final>>

StartProcessor ==
  /\ cpc = "start"
  /\ cpc' = "check" /\ cback' = "check"
  /\ UNCHANGED <<parentVars, ccall, slotVars, pipe, threadRunning, termination, threadCancelled,
                 callHistoryVars>>

\* The while condition of crossThreadCallProcessor()
CheckTermination ==
  /\ cpc = "check"
  /\ cpc' = IF termination THEN "confirm" ELSE "lock"
  /\ UNCHANGED <<parentVars, ccall, cback, slotVars, pipe, threadRunning, termination,
                 threadCancelled,
                 callHistoryVars>>

WaitForWork ==
  /\ mutex = "free" /\ routine = NoRoutine
  /\ cpc = "lock" \/ (cpc = "idleLock" /\ ~termination)
  /\ cpc' = "idle"
  /\ UNCHANGED <<parentVars, ccall, cback, slotVars, pipe, threadRunning, termination,
                 threadCancelled,
                 callHistoryVars>>

LeaveProcessor ==
  /\ cpc = "idleLock" /\ mutex = "free" /\ termination
  /\ cpc' = "confirm"
  /\ UNCHANGED <<parentVars, ccall, cback, slotVars, pipe, threadRunning, termination,
                 threadCancelled,
                 callHistoryVars>>

\* The child executes the routine with the mutex locked.
TakeWork ==
  /\ mutex = "free" /\ routine # NoRoutine
  /\ cpc = "lock" \/ (cpc = "idleLock" /\ ~termination)
  /\ mutex' = "child"
  /\ cpc' = "run"
  /\ UNCHANGED <<parentVars, ccall, cback, routine, statusCB, callStatus, pipe, threadRunning,
                 termination, threadCancelled, callHistoryVars>>

Mutant_FinishWork_LeavesSlot ==
  /\ cpc = "run"
  /\ callStatus' = routine /\ statusCB' = NoCall
  /\ mutex' = "free"
  /\ ppc' = ParentWoken(ppc)
  /\ IF statusCB # NoCall
       THEN cpc' = "callLock" /\ ccall' = Work("deliver", statusCB) /\ cback' = "check"
       ELSE cpc' = "check" /\ UNCHANGED <<ccall, cback>>
  /\ UNCHANGED <<pcall, back, routine, pipe, threadRunning, termination, threadCancelled,
                 callHistoryVars>>

Mutant_FinishWork_NoBroadcast ==
  /\ cpc = "run"
  /\ callStatus' = routine /\ routine' = NoRoutine /\ statusCB' = NoCall
  /\ mutex' = "free"
  /\ IF statusCB # NoCall
       THEN cpc' = "callLock" /\ ccall' = Work("deliver", statusCB) /\ cback' = "check"
       ELSE cpc' = "check" /\ UNCHANGED <<ccall, cback>>
  /\ UNCHANGED <<parentVars, pipe, threadRunning, termination, threadCancelled, callHistoryVars>>

\* The routine returns: the slot is emptied, its status callback is called next.
FinishWork ==
  /\ cpc = "run"
  /\ callStatus' = routine /\ routine' = NoRoutine /\ statusCB' = NoCall
  /\ mutex' = "free"
  /\ ppc' = ParentWoken(ppc)
  /\ IF statusCB # NoCall
       THEN cpc' = "callLock" /\ ccall' = Work("deliver", statusCB) /\ cback' = "check"
       ELSE cpc' = "check" /\ UNCHANGED <<ccall, cback>>
  /\ UNCHANGED <<pcall, back, pipe, threadRunning, termination, threadCancelled, callHistoryVars>>

\* executeOnParentThread() asserts that the slot is empty and fills it.
CallInParent ==
  /\ cpc = "callLock" /\ mutex = "free"
  /\ IF routine = NoRoutine
       THEN /\ routine' = ccall
            /\ pipe' = Append(pipe, "call")
            /\ cpc' = "called"
       ELSE /\ cpc' = "failed"
            /\ UNCHANGED <<routine, pipe>>
  /\ UNCHANGED <<parentVars, ccall, cback, mutex, statusCB, callStatus, threadRunning, termination,
                 threadCancelled, callHistoryVars>>

WaitForParent ==
  /\ cpc = "calledLock" /\ mutex = "free" /\ routine # NoRoutine
  /\ cpc' = "called"
  /\ UNCHANGED <<parentVars, ccall, cback, slotVars, pipe, threadRunning, termination,
                 threadCancelled,
                 callHistoryVars>>

Mutant_ParentReturned_WithoutRecheck ==
  /\ cpc = "calledLock" /\ mutex = "free"
  /\ callStatus' = NoRoutine
  /\ cpc' = cback /\ ccall' = NoRoutine
  /\ UNCHANGED <<parentVars, cback, mutex, routine, statusCB, pipe, threadRunning, termination,
                 threadCancelled, callHistoryVars>>

\* executeOnParentThread() returns and resets mCrossThreadCallStatus.
ParentReturned ==
  /\ cpc = "calledLock" /\ mutex = "free" /\ routine = NoRoutine
  /\ callStatus' = NoRoutine
  /\ cpc' = cback /\ ccall' = NoRoutine
  /\ UNCHANGED <<parentVars, cback, mutex, routine, statusCB, pipe, threadRunning, termination,
                 threadCancelled, callHistoryVars>>

\* The thread routine has returned: confirmTerminated().
ConfirmTerminated ==
  /\ cpc = "confirm"
  /\ pipe' = Append(pipe, "completed")
  /\ cpc' = "ended"
  /\ UNCHANGED <<parentVars, ccall, cback, slotVars, threadRunning, termination, threadCancelled,
                 callHistoryVars>>

-----------------------------------------------------------------------------
(* pthread_cancel() takes effect at the child's next cancellation point *)

\* In pthread_cond_wait(), which locks the mutex again before the thread ends.
KilledWaiting ==
  /\ threadCancelled /\ cpc \in {"idle", "idleLock", "called", "calledLock"} /\ mutex = "free"
  /\ mutex' = "child"
  /\ cpc' = "killed"
  /\ UNCHANGED <<parentVars, ccall, cback, routine, statusCB, callStatus, pipe, threadRunning,
                 termination, threadCancelled, callHistoryVars>>

\* In write(), in executeOnParentThread() with the mutex locked and the slot
\* filled, or in the routine it executes for the parent.
KilledWithMutex ==
  /\ threadCancelled
  /\ \/ cpc = "callLock" /\ mutex = "free" /\ routine = NoRoutine /\ routine' = ccall
     \/ cpc = "run" /\ UNCHANGED routine
  /\ mutex' = "child"
  /\ cpc' = "killed"
  /\ UNCHANGED <<parentVars, ccall, cback, statusCB, callStatus, pipe, threadRunning, termination,
                 threadCancelled, callHistoryVars>>

\* In code of the thread routine, or writing the completion signal.
KilledWithoutMutex ==
  /\ threadCancelled /\ cpc \in {"start", "confirm"}
  /\ cpc' = "killed"
  /\ UNCHANGED <<parentVars, ccall, cback, slotVars, pipe, threadRunning, termination,
                 threadCancelled,
                 callHistoryVars>>

Killed == KilledWaiting \/ KilledWithMutex \/ KilledWithoutMutex

ChildStep ==
  \/ StartProcessor \/ CheckTermination \/ WaitForWork \/ LeaveProcessor \/ TakeWork
  \/ FinishWork \/ CallInParent \/ WaitForParent \/ ParentReturned \/ ConfirmTerminated
  \/ Killed

ThreadNext == ParentStep \/ ParentApp \/ ChildStep \/ CallParent \/ SpuriousWakeup

ThreadSpec == ThreadInit /\ [][ThreadNext]_threadVars

\* Both threads are scheduled, routines and callbacks return, and a thread that
\* competes for the mutex gets it sooner or later.
ThreadFairSpec ==
  /\ ThreadSpec
  /\ SF_threadVars(ParentStep)
  /\ SF_threadVars(ChildStep) /\ SF_threadVars(Killed)

-----------------------------------------------------------------------------
(* Properties *)

\* The assertions in startOnChildThread() and executeOnParentThread() that the
\* slot is empty hold ("having a routine pending here means seriously wrong
\* usage"), although the first is evaluated without the mutex.
NoAssertionFails == ppc # "failed" /\ cpc # "failed"

\* While a routine executes for a thread that waits for it, that thread stays
\* in its wait (mainloop.hpp: "during the excution of the routine, the callee
\* actually owns the child thread context"), in both directions.
CalleeOwnsCaller ==
  /\ ppc = "callback" => cpc \in ChildCalls \cup {"killed"}
  /\ cpc = "run" /\ statusCB = NoCall => ppc \in ParentWaits \cup {"join"}

\* executeOnChildThread() returns the status of the routine it was called with.
ReturnsOwnStatus ==
  [][(ppc = "waitLock" /\ ppc' \notin ParentWaits) => callStatus = pcall]_threadVars

\* The signal handler gets one final signal, also when the thread completes
\* while the parent is about to cancel it.
OneFinalSignal == Len(final) <= 1

\* executeOnChildThread() returns.
SyncCallsReturn == (ppc \in ParentWaits) ~> (ppc \notin ParentWaits)

\* cancel() ends the thread and the parent is back in its mainloop (mainloop.hpp:
\* "cancel execution and wait for cancellation to complete"); the same when the
\* parent joins a thread that has announced its completion.
CancelReturns == (ppc = "join") ~> (ppc = "loop")

\* A call to a child that is in crossThreadCallProcessor() returns: the child
\* takes it and answers, however its wait is woken.
IdleChildAnswers ==
  (ppc \in ParentWaits /\ cpc \in {"check", "lock", "idle", "idleLock"} /\ ~termination) ~>
    (ppc \notin ParentWaits)

\* The parent is not left in its waits for the child.
ParentComesBack == CancelReturns /\ IdleChildAnswers

\* A routine given to the child is executed, unless the thread is ended.
StartedCallsAreRun ==
  (routine.what = "run") ~> (routine.what # "run" \/ termination \/ threadCancelled)

\* After terminate() a thread in crossThreadCallProcessor() ends (mainloop.hpp:
\* "relies on the thread routine to check shouldTerminate() and finish running
\* by itself", "this does not exit unless the child thread is terminated").
TerminateEndsThread == termination ~> ~threadRunning
=============================================================================
