--------------------------- MODULE OperationQueue ---------------------------
(***************************************************************************)
(* p44::OperationQueue and the Operations in it (src/operationqueue.cpp).  *)
(* One thread: the queue is processed by a recurring mainloop timer, or    *)
(* when the application asks for it.  Completion callbacks run in the      *)
(* middle of that and of abortions, and may change the queue the caller    *)
(* iterates over; `stack' holds the functions that are under way.          *)
(*                                                                         *)
(* Times are relative: what is left of a timeout or delay.  Subclasses     *)
(* decide when an operation has completed, and their initiate() may fail   *)
(* by aborting itself (SerialOperationSend); both are chosen freely here.  *)
(***************************************************************************)
EXTENDS Integers, Sequences, FiniteSets, SequencesExt

CONSTANTS
  Ops,          \* operations
  NoOp,         \* no operation, also the end of the list
  Timeout,      \* mTimeout of the operations that have one
  Delay,        \* mInitiationDelay of the operations that have one
  Attributes,   \* what is set up for an operation, a set of subsets of
                \*   {"sequential", "timeout", "delay", "fromLast", "callback"}
  AppDoes,      \* what the application does besides queueing operations: subset of
                \*   {"chain", "abort", "abortAll", "process", "terminate"}
  CallbackDoes, \* what it does in callbacks: subset of those and "queue"
  InitiateFails,\* initiate() may abort the operation
  MaxDepth      \* bound: how deep functions and callbacks nest

ASSUME QueueConstants ==
  /\ NoOp \notin Ops
  /\ Timeout \in Nat \ {0} /\ Delay \in Nat \ {0}
  /\ Attributes \subseteq SUBSET {"sequential", "timeout", "delay", "fromLast", "callback"}
  /\ AppDoes \subseteq {"chain", "abort", "abortAll", "process", "terminate"}
  /\ CallbackDoes \subseteq {"queue", "chain", "abort", "abortAll", "process", "terminate"}
  /\ InitiateFails \in BOOLEAN
  /\ MaxDepth \in Nat

None == -1

VARIABLES
  queue,        \* mOperationQueue
  processing,   \* mIsProcessingQueue
  recheck,      \* the recheck timer is in the mainloop's list
  stack,        \* functions under way, the innermost one last
  sinceLast,    \* time since mLastInitiation, None when that is Never
  known,        \* operations the application has set up
  attr,         \* attributes of each operation
  initiated,    \* operations with mInitiated
  aborted,      \* operations with mAborted
  callback,     \* operations with mCompletionCB
  chained,      \* mChainedOp
  left,         \* time left to mTimesOutAt, None when that is not set
  delay,        \* mInitiationDelay, 0 when there is none (any more)
  wait,         \* time left to mInitiatesNotBefore, None when not set or past
  completed,    \* operations whose hasCompleted() returns TRUE
  terminated,   \* history: terminate() has been called
  sinceInit,    \* history: time since any operation was initiated
  calls,        \* history: calls of each completion callback
  silenced,     \* history: operations aborted without error or replaced by a chained one
  broken        \* an iterator to an erased element was used: anything may happen

queueVars == <<queue, processing, recheck, sinceLast, terminated>>
opVars == <<known, attr, initiated, aborted, callback, chained, left, delay, wait, completed>>
historyVars == <<sinceInit, calls, silenced>>
vars == <<queueVars, stack, opVars, historyVars, broken>>

MaxSince == Delay + 1

\* A function under way: its operation or iterator, and what else it needs.
FunctionsUnderWay == {"visit", "check", "finalize", "end", "abort", "abortRest", "abortAll",
                      "abortNext", "callback"}
Frame == [fn : FunctionsUnderWay, op : Ops \cup {NoOp}, next : Ops \cup {NoOp}, err : BOOLEAN,
          by : {"timer", "app"}]

TypeOK ==
  /\ queue \in Seq(Ops)
  /\ processing \in BOOLEAN /\ recheck \in BOOLEAN /\ terminated \in BOOLEAN
  /\ broken \in BOOLEAN
  /\ stack \in Seq(Frame)
  /\ sinceLast \in None..MaxSince /\ sinceInit \in None..MaxSince
  /\ known \subseteq Ops /\ initiated \subseteq Ops /\ aborted \subseteq Ops
  /\ callback \subseteq Ops /\ completed \subseteq Ops /\ silenced \subseteq Ops
  /\ attr \in [Ops -> SUBSET {"sequential", "timeout", "delay", "fromLast", "callback"}]
  /\ chained \in [Ops -> Ops \cup {NoOp}]
  /\ left \in [Ops -> None..Timeout]
  /\ delay \in [Ops -> {0, Delay}] /\ wait \in [Ops -> None..Delay]
  /\ calls \in [Ops -> 0..2]

Init ==
  /\ queue = <<>> /\ processing = FALSE /\ recheck = TRUE /\ terminated = FALSE
  /\ broken = FALSE
  /\ stack = <<>>
  /\ sinceLast = None /\ sinceInit = None
  /\ known = {} /\ initiated = {} /\ aborted = {} /\ callback = {} /\ completed = {}
  /\ silenced = {}
  /\ attr = [o \in Ops |-> {}] /\ chained = [o \in Ops |-> NoOp]
  /\ left = [o \in Ops |-> None] /\ delay = [o \in Ops |-> 0] /\ wait = [o \in Ops |-> None]
  /\ calls = [o \in Ops |-> 0]

-----------------------------------------------------------------------------
(* The list and the stack *)

First == IF queue = <<>> THEN NoOp ELSE Head(queue)

\* The list iterator after o, for an o that is in the list.
NextAfter(list, o) ==
  LET i == CHOOSE j \in DOMAIN list : list[j] = o
  IN  IF i = Len(list) THEN NoOp ELSE list[i + 1]

\* The iterator refers to an element of the list, or to its end.
Valid(o) == o = NoOp \/ Contains(queue, o)

InsertBefore(list, o, next) ==
  IF next = NoOp THEN Append(list, o)
  ELSE InsertAt(list, CHOOSE i \in DOMAIN list : list[i] = next, o)

Top == Last(stack)
Running(fn) == stack # <<>> /\ Top.fn = fn /\ ~broken
Goes(frame) == stack' = Append(Front(stack), frame)
Calls(frame, callee) == stack' = Append(Append(Front(stack), frame), callee)
Enters(callee) == stack' = Append(stack, callee)
Returns == stack' = Front(stack)

AppFrame(fn, o) == [fn |-> fn, op |-> o, next |-> NoOp, err |-> FALSE, by |-> "app"]

\* Application code runs, and does `what'.
App(what) ==
  /\ ~broken
  /\ \/ stack = <<>> /\ what \in AppDoes \cup {"queue"}
     \/ Running("callback") /\ what \in CallbackDoes /\ Len(stack) < MaxDepth

-----------------------------------------------------------------------------
(* What application code does *)

SetUp(o, as) ==
  /\ o \notin known /\ as \in Attributes
  /\ known' = known \cup {o}
  /\ attr' = [attr EXCEPT ![o] = as]
  /\ delay' = [delay EXCEPT ![o] = IF "delay" \in as THEN Delay ELSE 0]
  /\ callback' = IF "callback" \in as THEN callback \cup {o} ELSE callback
  /\ UNCHANGED <<initiated, aborted, left, wait, completed>>

QueueOperation(o, as) ==
  /\ App("queue") /\ SetUp(o, as)
  /\ queue' = Append(queue, o)
  /\ UNCHANGED <<processing, recheck, sinceLast, terminated, stack, chained, historyVars, broken>>

\* finalize() of o is under way: its callback may still chain an operation.
Finalizing(o) == \E i \in DOMAIN stack : stack[i].fn = "finalize" /\ stack[i].op = o

\* setChainedOperation() of an operation that is still to be finalized
ChainOperation(o, c, as) ==
  /\ App("chain") /\ SetUp(c, as)
  /\ Contains(queue, o) \/ Finalizing(o)
  /\ chained[o] = NoOp /\ o \notin aborted
  /\ chained' = [chained EXCEPT ![o] = c]
  /\ UNCHANGED <<queueVars, stack, historyVars, broken>>

AbortOperation(o, err) ==
  /\ App("abort") /\ o \in known
  /\ Enters([AppFrame("abort", o) EXCEPT !.err = err])
  /\ UNCHANGED <<queueVars, opVars, historyVars, broken>>

AbortOperations(err) ==
  /\ App("abortAll")
  /\ Enters([AppFrame("abortAll", First) EXCEPT !.err = err])
  /\ UNCHANGED <<queueVars, opVars, historyVars, broken>>

\* terminate(): the timer is cancelled, then abortOperations() without error.
Terminate ==
  /\ App("terminate") /\ ~terminated
  /\ recheck' = FALSE /\ terminated' = TRUE
  /\ Enters(AppFrame("abortAll", First))
  /\ UNCHANGED <<queue, processing, sinceLast, opVars, historyVars, broken>>

-----------------------------------------------------------------------------
(* Operation *)

\* canInitiate() starts the delay when it is called for the first time.
Wait(o) ==
  IF delay[o] = 0 THEN wait[o]
  ELSE IF "fromLast" \notin attr[o] THEN delay[o]
  ELSE IF sinceLast = None \/ sinceLast > delay[o] THEN None
  ELSE delay[o] - sinceLast

CanInitiate(o) == Wait(o) = None

\* initiate(), which starts the timeout.
Initiated(o) ==
  /\ initiated' = initiated \cup {o}
  /\ left' = [left EXCEPT ![o] = IF "timeout" \in attr[o] THEN Timeout ELSE None]
  /\ sinceInit' = 0

\* The completion callback of o is called; it is called once only.
NoteCall(o) == calls' = [calls EXCEPT ![o] = IF @ = 2 THEN 2 ELSE @ + 1]

\* abortOperation(), up to its callback.
AbortBegins ==
  /\ Running("abort")
  /\ LET o == Top.op
         report == o \notin aborted /\ o \in callback /\ Top.err
         rest == [Top EXCEPT !.fn = "abortRest"]
     IN  /\ IF report THEN Calls(rest, AppFrame("callback", o)) /\ NoteCall(o)
            ELSE Goes(rest) /\ UNCHANGED calls
         /\ aborted' = aborted \cup {o}
         /\ callback' = IF o \in aborted THEN callback ELSE callback \ {o}
         /\ silenced' = IF o \notin aborted /\ ~Top.err THEN silenced \cup {o} ELSE silenced
  /\ UNCHANGED <<queueVars, known, attr, initiated, chained, left, delay, wait, completed,
                 sinceInit, broken>>

\* The chained operation is aborted too, with the rest of its chain.
AbortContinues ==
  /\ Running("abortRest")
  /\ LET o == Top.op IN
       /\ chained' = [chained EXCEPT ![o] = NoOp]
       /\ callback' = callback \ {o}
       /\ IF chained[o] # NoOp THEN Goes([Top EXCEPT !.fn = "abort", !.op = chained[o]])
          ELSE Returns
  /\ UNCHANGED <<queueVars, known, attr, initiated, aborted, left, delay, wait, completed,
                 historyVars, broken>>

CallbackReturns ==
  /\ Running("callback")
  /\ Returns
  /\ UNCHANGED <<queueVars, opVars, historyVars, broken>>

Mutant_AbortNext_Erases ==
  /\ Running("abortAll") /\ Top.op # NoOp
  /\ queue' = RemoveFirst(queue, Top.op)
  /\ Calls([Top EXCEPT !.fn = "abortNext"], [Top EXCEPT !.fn = "abort"])
  /\ UNCHANGED <<processing, recheck, sinceLast, terminated, opVars, historyVars, broken>>

\* abortOperations()
AbortNext ==
  /\ Running("abortAll") /\ Top.op # NoOp
  /\ Calls([Top EXCEPT !.fn = "abortNext"], [Top EXCEPT !.fn = "abort"])
  /\ UNCHANGED <<queueVars, opVars, historyVars, broken>>

AbortedNext ==
  /\ Running("abortNext")
  /\ IF Valid(Top.op)
       THEN /\ Goes([Top EXCEPT !.fn = "abortAll", !.op = NextAfter(queue, Top.op)])
            /\ UNCHANGED broken
       ELSE broken' = TRUE /\ UNCHANGED stack
  /\ UNCHANGED <<queueVars, opVars, historyVars>>

AllAborted ==
  /\ Running("abortAll") /\ Top.op = NoOp
  /\ queue' = <<>>
  /\ Returns
  /\ UNCHANGED <<processing, recheck, sinceLast, terminated, opVars, historyVars, broken>>

-----------------------------------------------------------------------------
(* processOneOperation() *)

\* The recheck timer is executed: queueRecheck().
RecheckTimer ==
  /\ stack = <<>> /\ recheck /\ ~broken
  /\ recheck' = FALSE
  /\ processing' = TRUE
  /\ Enters([AppFrame("visit", First) EXCEPT !.by = "timer"])
  /\ UNCHANGED <<queue, sinceLast, terminated, opVars, historyVars, broken>>

\* processOperations(), which returns at once when called from a callback of
\* the queue that is being processed.
ProcessOperations ==
  /\ App("process") /\ ~processing
  /\ processing' = TRUE
  /\ Enters(AppFrame("visit", First))
  /\ UNCHANGED <<queue, recheck, sinceLast, terminated, opVars, historyVars, broken>>

Goon(fn) == Goes([Top EXCEPT !.fn = fn])

Mutant_Leaves_NoRetrigger ==
  /\ processing' = FALSE
  /\ recheck' = recheck
  /\ Returns

\* Nothing more to do for now; queueRecheck() retriggers its timer.
Leaves ==
  /\ processing' = FALSE
  /\ recheck' = (recheck \/ Top.by = "timer")
  /\ Returns

NothingLeft ==
  /\ Running("visit") /\ Top.op = NoOp
  /\ Leaves
  /\ UNCHANGED <<queue, sinceLast, terminated, opVars, historyVars, broken>>

Visiting(o) == Running("visit") /\ Top.op = o

Mutant_VisitTimedOut_OnlyRemoves(o) ==
  /\ Visiting(o) /\ left[o] = 0
  /\ queue' = RemoveFirst(queue, o)
  /\ Goon("end")
  /\ UNCHANGED <<processing, recheck, sinceLast, terminated, opVars, historyVars, broken>>

VisitTimedOut(o) ==
  /\ Visiting(o) /\ left[o] = 0
  /\ queue' = RemoveFirst(queue, o)
  /\ Calls([Top EXCEPT !.fn = "end"], [AppFrame("abort", o) EXCEPT !.err = TRUE])
  /\ UNCHANGED <<processing, recheck, sinceLast, terminated, opVars, historyVars, broken>>

\* The operation is initiated, which it may answer by aborting itself.
VisitInitiates(o) ==
  /\ Visiting(o) /\ left[o] # 0 /\ o \notin initiated /\ CanInitiate(o)
  /\ Initiated(o)
  /\ sinceLast' = 0
  /\ delay' = [delay EXCEPT ![o] = 0] /\ wait' = [wait EXCEPT ![o] = Wait(o)]
  /\ \/ Goon("check")
     \/ /\ InitiateFails
        /\ Calls([Top EXCEPT !.fn = "check"], [AppFrame("abort", o) EXCEPT !.err = TRUE])
  /\ UNCHANGED <<queue, processing, recheck, terminated, known, attr, aborted, callback, chained,
                 completed, calls, silenced, broken>>

Mutant_VisitDelayed_IgnoresSequence(o) ==
  /\ Visiting(o) /\ left[o] # 0 /\ o \notin initiated /\ ~CanInitiate(o)
  /\ delay' = [delay EXCEPT ![o] = 0] /\ wait' = [wait EXCEPT ![o] = Wait(o)]
  /\ Goon("check") /\ UNCHANGED <<processing, recheck>>
  /\ UNCHANGED <<queue, sinceLast, terminated, known, attr, initiated, aborted, callback, chained,
                 left, completed, historyVars, broken>>

\* Not yet: operations behind it have to wait when it is in sequence.
VisitDelayed(o) ==
  /\ Visiting(o) /\ left[o] # 0 /\ o \notin initiated /\ ~CanInitiate(o)
  /\ delay' = [delay EXCEPT ![o] = 0] /\ wait' = [wait EXCEPT ![o] = Wait(o)]
  /\ IF "sequential" \in attr[o] THEN Leaves
     ELSE Goon("check") /\ UNCHANGED <<processing, recheck>>
  /\ UNCHANGED <<queue, sinceLast, terminated, known, attr, initiated, aborted, callback, chained,
                 left, completed, historyVars, broken>>

VisitInitiated(o) ==
  /\ Visiting(o) /\ left[o] # 0 /\ o \in initiated
  /\ Goon("check")
  /\ UNCHANGED <<queueVars, opVars, historyVars, broken>>

Checking(o) == Running("check") /\ Top.op = o

CheckAborted(o) ==
  /\ Checking(o) /\ o \in aborted
  /\ IF Valid(o) THEN queue' = RemoveFirst(queue, o) /\ Goon("end") /\ UNCHANGED broken
     ELSE broken' = TRUE /\ UNCHANGED <<queue, stack>>
  /\ UNCHANGED <<processing, recheck, sinceLast, terminated, opVars, historyVars>>

\* The operation is removed and finalized: its callback is called, unless
\* another operation takes its place.
CheckCompleted(o) ==
  /\ Checking(o) /\ o \notin aborted /\ o \in initiated /\ o \in completed
  /\ queue' = RemoveFirst(queue, o)
  /\ LET finalize == [Top EXCEPT !.fn = "finalize", !.next = NextAfter(queue, o)]
         report == o \in callback /\ chained[o] = NoOp
     IN  /\ IF report THEN Calls(finalize, AppFrame("callback", o)) /\ NoteCall(o)
            ELSE Goes(finalize) /\ UNCHANGED calls
         /\ callback' = callback \ {o}
         /\ silenced' = IF chained[o] # NoOp THEN silenced \cup {o} ELSE silenced
  /\ UNCHANGED <<processing, recheck, sinceLast, terminated, known, attr, initiated, aborted,
                 chained, left, delay, wait, completed, sinceInit, broken>>

CheckPending(o) ==
  /\ Checking(o) /\ o \notin aborted /\ (o \notin initiated \/ o \notin completed)
  /\ IF o \in initiated /\ "sequential" \in attr[o] THEN Leaves
     ELSE /\ Goes([Top EXCEPT !.fn = "visit", !.op = NextAfter(queue, o)])
          /\ UNCHANGED <<processing, recheck>>
  /\ UNCHANGED <<queue, sinceLast, terminated, opVars, historyVars, broken>>

\* finalize() has returned without a chained operation.
FinalizedAlone(o) ==
  /\ Running("finalize") /\ Top.op = o /\ chained[o] = NoOp
  /\ Goon("end")
  /\ UNCHANGED <<queueVars, opVars, historyVars, broken>>

\* The chained operation takes the place of o, and is initiated at once.
FinalizedChained(o) ==
  /\ Running("finalize") /\ Top.op = o /\ chained[o] # NoOp
  /\ LET c == chained[o] IN
       IF Valid(Top.next)
         THEN /\ chained' = [chained EXCEPT ![o] = NoOp]
              /\ queue' = InsertBefore(queue, c, Top.next)
              /\ Initiated(c)
              /\ \/ Goon("end")
                 \/ /\ InitiateFails
                    /\ Calls([Top EXCEPT !.fn = "end"], [AppFrame("abort", c) EXCEPT !.err = TRUE])
              /\ UNCHANGED broken
         ELSE broken' = TRUE /\ UNCHANGED <<chained, queue, initiated, left, sinceInit, stack>>
  /\ UNCHANGED <<processing, recheck, sinceLast, terminated, known, attr, aborted, callback,
                 delay, wait, completed, calls, silenced>>

\* One operation has been processed: processOperations() goes on with the next.
Processed ==
  /\ Running("end")
  /\ IF Top.by = "timer" THEN Leaves
     ELSE Goes([Top EXCEPT !.fn = "visit", !.op = First]) /\ UNCHANGED <<processing, recheck>>
  /\ UNCHANGED <<queue, sinceLast, terminated, opVars, historyVars, broken>>

-----------------------------------------------------------------------------

Sooner(x) == IF x > 0 THEN x - 1 ELSE x
Longer(x) == IF x = None \/ x = MaxSince THEN x ELSE x + 1

Tick ==
  /\ stack = <<>> /\ ~broken
  /\ left' = [o \in Ops |-> Sooner(left[o])]
  /\ wait' = [o \in Ops |-> IF wait[o] = 0 THEN None ELSE Sooner(wait[o])]
  /\ sinceLast' = Longer(sinceLast) /\ sinceInit' = Longer(sinceInit)
  /\ UNCHANGED <<queue, processing, recheck, terminated, stack, known, attr, initiated, aborted,
                 callback, chained, delay, completed, calls, silenced, broken>>

\* hasCompleted() of an initiated operation becomes TRUE.
Completes(o) ==
  /\ stack = <<>> /\ ~broken
  /\ o \in initiated /\ o \notin completed
  /\ completed' = completed \cup {o}
  /\ UNCHANGED <<queueVars, stack, known, attr, initiated, aborted, callback, chained, left,
                 delay, wait, historyVars, broken>>

QueueStep ==
  \/ RecheckTimer \/ NothingLeft \/ Processed
  \/ AbortBegins \/ AbortContinues \/ CallbackReturns
  \/ AbortNext \/ AbortedNext \/ AllAborted
  \/ \E o \in Ops :
       \/ VisitTimedOut(o) \/ VisitInitiates(o) \/ VisitDelayed(o) \/ VisitInitiated(o)
       \/ CheckAborted(o) \/ CheckCompleted(o) \/ CheckPending(o)
       \/ FinalizedAlone(o) \/ FinalizedChained(o)

AppStep ==
  \/ ProcessOperations \/ Terminate
  \/ \E err \in BOOLEAN : AbortOperations(err) \/ \E o \in Ops : AbortOperation(o, err)
  \/ \E o \in Ops, as \in Attributes :
       QueueOperation(o, as) \/ \E c \in Ops : ChainOperation(c, o, as)

Next == QueueStep \/ AppStep \/ Tick \/ \E o \in Ops : Completes(o)

Spec == Init /\ [][Next]_vars

\* The mainloop executes the recheck timer, callbacks return, time passes.
FairSpec == Spec /\ WF_vars(QueueStep) /\ SF_vars(RecheckTimer) /\ SF_vars(Tick)

-----------------------------------------------------------------------------
(* Properties *)

\* Functions that iterate over the list and run callbacks on the way do not
\* go on from an element that a callback has removed (operationqueue.hpp: the
\* error "will be passed on to each operation, which might cause them to
\* execute call backs").
NoDanglingIterator == TypeOK /\ ~broken

\* The completion callback of an operation is called once at most, whichever
\* of completion, timeout and abortion come together.
CallbackOnce == \A o \in Ops : calls[o] <= 1

\* The operation will still be looked at by the queue.
IsPending(o) == Contains(queue, o) \/ \E p \in Ops : chained[p] = o

\* An operation does not leave the queue without having reported back, once,
\* unless it was aborted without an error or an operation was chained to it.
CompletionReported ==
  /\ CallbackOnce
  /\ stack = <<>> => \A o \in known :
       ("callback" \in attr[o] /\ ~IsPending(o) /\ o \notin silenced) => calls[o] = 1

\* Whatever callbacks did while the queue was processed, the mainloop will look
\* at it again: the recheck timer is back, and the recursion guard is released
\* (queueRecheck() retriggers its timer after processOneOperation()).
QueueIsRechecked == stack = <<>> => ~processing /\ (terminated \/ recheck)

NewlyInitiated == initiated' \ initiated

\* Nothing is initiated behind an operation that is in sequence
\* (operationqueue.hpp: "if this flag is set, no operation queued after this
\* operation will execute").
SequenceKept ==
  [][\A o \in NewlyInitiated : \A i, j \in DOMAIN queue' :
       (queue'[j] = o /\ i < j) => "sequential" \notin attr[queue'[i]]]_vars

\* An aborted operation that is still queued is not initiated any more
\* (processOneOperation(): "just remove from list").
AbortedStaysIdle == [][\A o \in NewlyInitiated : o \notin aborted]_vars

\* initiate() is called when canInitiate() allows it (operationqueue.hpp:
\* "must only be called after canInitiate() returns true!").
InitiatedWhenAllowed == [][\A o \in NewlyInitiated : CanInitiate(o)]_vars

\* A delay from the last initiation has passed since the operation that was
\* in fact initiated last (operationqueue.hpp: "delay is measured from last
\* initiation on this queue").
DelayFromLastKept ==
  [][\A o \in NewlyInitiated :
       {"delay", "fromLast"} \subseteq attr[o] => sinceInit = None \/ sinceInit >= Delay]_vars

\* After terminate() the recheck timer does not come back (terminate():
\* "unregister from mainloop").
TerminatedStaysIdle == (terminated /\ stack = <<>>) => ~recheck

\* Every operation with a timeout leaves the queue, whatever else is in it.
OperationsLeaveQueue == \A o \in Ops : Contains(queue, o) ~> ~Contains(queue, o)
=============================================================================
