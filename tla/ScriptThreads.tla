--------------------------- MODULE ScriptThreads ---------------------------
(***************************************************************************)
(* Threads of p44script (src/p44script.cpp): what ScriptMainContext,       *)
(* ScriptCodeContext, ScriptCodeThread and BuiltinFunctionContext do to    *)
(* start, queue, suspend, abort and end executions.                        *)
(*                                                                         *)
(* Script threads are not threads of the system: everything runs in the    *)
(* mainloop, and one thread's steps, its completion callback and the       *)
(* start of the next queued one nest on one call stack.  `stack' holds the *)
(* functions under way, the innermost one last.  What a script computes is *)
(* left out: a step of it calls, forks, waits, aborts or ends.             *)
(***************************************************************************)
EXTENDS Integers, Sequences, FiniteSets, SequencesExt

CONSTANTS
  MaxThreads,   \* bound: threads ever created
  MaxSteps,     \* bound: steps of one thread before it ends
  RunModes,     \* evaluation flags the application executes scripts with: a set of
                \*   subsets of {"queue", "concurrently", "stoprunning"}
  ScriptDoes,   \* what steps do: subset of {"delay", "slice", "call", "eval", "fork",
                \*   "forkAs", "forkInEval", "abort", "abortOthers"}
  AbortsOnStack,\* threads are aborted also while functions they called are under way
  AppDoes,      \* what the application does: subset of {"run", "stop"}
  CallbackDoes  \* what it does in completion callbacks: subset of the same

ASSUME ThreadConstants ==
  /\ MaxThreads \in Nat /\ MaxSteps \in Nat
  /\ RunModes \subseteq SUBSET {"queue", "concurrently", "stoprunning"}
  /\ ScriptDoes \subseteq {"delay", "slice", "call", "eval", "fork", "forkAs",
                           "forkInEval", "abort", "abortOthers"}
  /\ AbortsOnStack \in BOOLEAN
  /\ AppDoes \subseteq {"run", "stop"} /\ CallbackDoes \subseteq {"run", "stop"}

Threads == 1..MaxThreads
None == 0       \* no thread, and no context
Main == MaxThreads + 1  \* the main context; others have the id of their first thread

VARIABLES
  stack,        \* functions under way
  threads,      \* mThreads of all contexts in the order they were started; the ones
                \*   not of the main context are its mRelatedThreads
  queued,       \* mQueuedThreads of the main context
  kind,         \* what created a thread
  context,      \* mOwner
  flags,        \* mEvaluationFlags, as far as they matter here
  caller,       \* the thread whose function or eval() call a thread executes
  running,      \* threads with mRunningSince set
  aborted,      \* mAborted
  resuming,     \* mResuming
  resumed,      \* mResumed
  slice,        \* threads with mAutoResumeTicket set: they let the mainloop run
  call,         \* mChainedExecutionContext: the call a thread waits for
  reports,      \* threads with mCompletedCB
  steps,        \* history: steps left before the script ends
  calls,        \* history: calls of the application's completion callbacks
  dropped,      \* history: removed from the queue before they could start
  broken        \* a null pointer was used: anything may happen

loopVars == <<aborted, resuming, resumed, slice, call>>
listVars == <<threads, queued, dropped>>
newVars == <<kind, flags, caller>>
vars == <<stack, listVars, newVars, context, running, loopVars, reports, steps, calls, broken>>

Kinds == {"none", "top", "function", "eval", "fork"}
Calls == {"none", "delay", "builtin", "function", "eval"}
AllFlags == {"queue", "concurrently", "stoprunning", "mainthread"}
Functions == {"step", "stepped", "resume", "abort", "abortRelated", "complete", "callback",
              "ended", "enter", "return", "store"}

Born == {t \in Threads : kind[t] # "none"}
Listed == Range(threads)
Waiting == Range(queued)

\* The elements of a list that are in S, in their order.
Select(list, S) ==
  LET upTo[n \in 0..Len(list)] ==
        IF n = 0 THEN <<>>
        ELSE IF list[n] \in S THEN Append(upTo[n - 1], list[n]) ELSE upTo[n - 1]
  IN  upTo[Len(list)]

InContext(c) == Select(threads, {t \in Threads : context[t] = c})
Related == Select(threads, {t \in Threads : context[t] # Main})

TypeOK ==
  /\ stack \in Seq([fn : Functions, t : 0..MaxThreads])
  /\ threads \in Seq(Born) /\ queued \in Seq(Born) /\ dropped \subseteq Born
  /\ \A t \in Listed : context[t] # None
  /\ IsInjective(threads) /\ IsInjective(queued) /\ Listed \cap Waiting = {}
  /\ kind \in [Threads -> Kinds] /\ call \in [Threads -> Calls]
  /\ flags \in [Threads -> SUBSET AllFlags]
  /\ caller \in [Threads -> 0..MaxThreads] /\ context \in [Threads -> 0..Main]
  /\ running \subseteq Born /\ aborted \subseteq Born /\ reports \subseteq Born
  /\ resuming \subseteq running \cup {stack[i].t : i \in DOMAIN stack}
  /\ resumed \subseteq Born /\ slice \subseteq running
  /\ steps \in [Threads -> 0..MaxSteps] /\ calls \in [Threads -> 0..2]
  /\ broken \in BOOLEAN

Init ==
  /\ stack = <<>> /\ threads = <<>> /\ queued = <<>> /\ dropped = {}
  /\ kind = [t \in Threads |-> "none"] /\ call = [t \in Threads |-> "none"]
  /\ flags = [t \in Threads |-> {}]
  /\ caller = [t \in Threads |-> None] /\ context = [t \in Threads |-> None]
  /\ running = {} /\ aborted = {} /\ resuming = {} /\ resumed = {} /\ slice = {}
  /\ reports = {}
  /\ steps = [t \in Threads |-> MaxSteps] /\ calls = [t \in Threads |-> 0]
  /\ broken = FALSE

-----------------------------------------------------------------------------
(* The stack *)

Fn(fn, t) == [fn |-> fn, t |-> t]
Top == Last(stack)
Running(fn, t) == stack # <<>> /\ Top = Fn(fn, t) /\ ~broken
Idle == stack = <<>> /\ ~broken

\* The function on top is replaced by what it still has to do; calls come first.
Goes(todo) == stack' = Front(stack) \o Reverse(todo)
Returns == Goes(<<>>)
Enters(todo) == stack' = stack \o Reverse(todo)

\* abort() of several threads, one after the other
AbortEach(list) == [i \in DOMAIN list |-> Fn("abort", list[i])]
Except(list, t) == Select(list, Threads \ {t})

-----------------------------------------------------------------------------
(* New threads *)

\* Threads are numbered in the order of their creation.
Fresh(t) == t \notin Born /\ \A u \in Threads : u < t => u \in Born

NewThread(t, k, c, fs, from) ==
  /\ Fresh(t)
  /\ kind' = [kind EXCEPT ![t] = k]
  /\ context' = [context EXCEPT ![t] = c]
  /\ flags' = [flags EXCEPT ![t] = fs]
  /\ caller' = [caller EXCEPT ![t] = from]
  /\ reports' = IF k = "fork" THEN reports ELSE reports \cup {t}

\* newThreadFrom() and run(), in a context where nothing keeps it from starting
Starts(t) ==
  /\ threads' = Append(threads, t)
  /\ running' = running \cup {t}

FromQueue(list) == \E i \in DOMAIN list : "queue" \in flags[list[i]]

\* The application code that is under way: none of ours, or a completion callback.
App(what) ==
  \/ Idle /\ what \in AppDoes
  \/ stack # <<>> /\ Top.fn = "callback" /\ ~broken /\ what \in CallbackDoes

\* A function in whose context a thread of S runs is waited for by a thread of S.
ClosedUnderCalls(S) ==
  \A t \in S, f \in reports : context[t] = f /\ kind[f] = "function" => caller[f] \in S

\* The threads in P and those that wait, over any number of calls, for one of them.
WithCallers(P) ==
  {u \in Threads : \A S \in SUBSET Threads : P \subseteq S /\ ClosedUnderCalls(S) => u \in S}

\* Threads with functions on the stack that go on later.
OnStack == {t \in Threads : \E i \in DOMAIN stack : stack[i].t = t /\ stack[i].fn # "abort"}

MayAbort(ts) == AbortsOnStack \/ WithCallers(OnStack) \cap running \cap ts = {}

\* ScriptMainContext::abort(stopall): the queue is emptied first, without a word.
EmptyQueue ==
  /\ dropped' = dropped \cup Waiting
  /\ queued' = <<>>

\* ScriptCodeContext::execute() of the main context, up to the new thread's start
Execute(t, mode) ==
  /\ App("run") /\ mode \in RunModes
  /\ NewThread(t, "top", Main, mode, None)
  /\ IF "stoprunning" \in mode
       THEN /\ MayAbort(Listed)
            /\ Enters(AbortEach(InContext(Main)) \o <<Fn("abortRelated", None), Fn("enter", t)>>)
            /\ IF "queue" \in mode THEN EmptyQueue ELSE UNCHANGED <<queued, dropped>>
       ELSE Enters(<<Fn("enter", t)>>) /\ UNCHANGED <<queued, dropped>>
  /\ UNCHANGED <<threads, running, loopVars, steps, calls, broken>>

\* The host stops everything: ScriptMainContext::abort(stopall)
Stop ==
  /\ App("stop") /\ MayAbort(Listed)
  /\ EmptyQueue
  /\ Enters(AbortEach(InContext(Main)) \o <<Fn("abortRelated", None)>>)
  /\ UNCHANGED <<threads, newVars, context, running, loopVars, reports, steps, calls, broken>>

\* The threads related to the main context are aborted, all but the one given.
AbortRelated(t) ==
  /\ Running("abortRelated", t)
  /\ Goes(AbortEach(Except(Related, t)))
  /\ UNCHANGED <<listVars, newVars, context, running, loopVars, reports, steps, calls, broken>>

Mutant_MustQueue_Alone(t) ==
  /\ InContext(Main) # <<>> /\ "queue" \in flags[t]
  /\ "concurrently" \notin flags[t]

\* newThreadFrom(): a queued thread waits for all others, or, if it may run
\* concurrently, for those that came from the queue.
MustQueue(t) ==
  /\ InContext(Main) # <<>> /\ "queue" \in flags[t]
  /\ "concurrently" \in flags[t] => FromQueue(InContext(Main))

EnterQueued(t) ==
  /\ t \in Born /\ Running("enter", t) /\ MustQueue(t)
  /\ queued' = Append(queued, t)
  /\ Returns
  /\ UNCHANGED <<threads, dropped, newVars, context, running, loopVars, reports, steps, calls,
                 broken>>

IsBusy(t) == InContext(Main) # <<>> /\ flags[t] \cap {"queue", "concurrently"} = {}

\* abort() does nothing to a thread that does not run yet; the thread is then
\* run without being listed.
EnterBusy(t) ==
  /\ t \in Born /\ Running("enter", t) /\ IsBusy(t)
  /\ running' = running \cup {t}
  /\ Goes(<<Fn("resume", t)>>)
  /\ UNCHANGED <<listVars, newVars, context, loopVars, reports, steps, calls, broken>>

EnterStarts(t) ==
  /\ t \in Born /\ Running("enter", t) /\ ~MustQueue(t) /\ ~IsBusy(t)
  /\ Starts(t)
  /\ Goes(<<Fn("resume", t)>>)
  /\ UNCHANGED <<queued, dropped, newVars, context, loopVars, reports, steps, calls, broken>>

-----------------------------------------------------------------------------
(* SourceProcessor: the execution loop *)

Mutant_ResumeNested_Forgets(t) ==
  /\ Running("resume", t) /\ t \in resuming
  /\ resumed' = resumed
  /\ Returns
  /\ UNCHANGED <<listVars, newVars, context, running, aborted, resuming, slice, call, reports,
                 steps, calls, broken>>

\* resume() called from within a step of the same thread only takes note.
ResumeNested(t) ==
  /\ Running("resume", t) /\ t \in resuming
  /\ resumed' = resumed \cup {t}
  /\ Returns
  /\ UNCHANGED <<listVars, newVars, context, running, aborted, resuming, slice, call, reports,
                 steps, calls, broken>>

ResumeAborted(t) ==
  /\ Running("resume", t) /\ t \notin resuming /\ t \in aborted
  /\ Goes(<<Fn("complete", t)>>)
  /\ UNCHANGED <<listVars, newVars, context, running, loopVars, reports, steps, calls, broken>>

ResumeLoop(t) ==
  /\ Running("resume", t) /\ t \notin resuming /\ t \notin aborted
  /\ resuming' = resuming \cup {t}
  /\ Goes(<<Fn("step", t)>>)
  /\ UNCHANGED <<listVars, newVars, context, running, aborted, resumed, slice, call, reports,
                 steps, calls, broken>>

\* stepLoop() after a step
Stepped(t) ==
  /\ Running("stepped", t)
  /\ IF t \in resumed /\ t \notin aborted
       THEN /\ resumed' = resumed \ {t}
            /\ Goes(<<Fn("step", t)>>) /\ UNCHANGED resuming
       ELSE Returns /\ resuming' = resuming \ {t} /\ UNCHANGED resumed
  /\ UNCHANGED <<listVars, newVars, context, running, aborted, slice, call, reports, steps,
                 calls, broken>>

\* A step that begins to do `what'; the step before it has set mResumed.
Step(t, what) ==
  /\ Running("step", t) /\ what \in ScriptDoes /\ steps[t] > 0
  /\ steps' = [steps EXCEPT ![t] = @ - 1]

\* mMaxBlockTime has passed: the mainloop gets time before the next step.
TimeSlice(t) ==
  /\ Step(t, "slice")
  /\ slice' = slice \cup {t}
  /\ resuming' = resuming \ {t} /\ resumed' = resumed \ {t}
  /\ Returns
  /\ UNCHANGED <<listVars, newVars, context, running, aborted, call, reports, calls, broken>>

SliceOver(t) ==
  /\ Idle /\ t \in slice
  /\ slice' = slice \ {t}
  /\ Enters(<<Fn("resume", t)>>)
  /\ UNCHANGED <<listVars, newVars, context, running, aborted, resuming, resumed, call, reports,
                 steps, calls, broken>>

\* The script's end, or the overall execution time limit: complete()
StepEnds(t) ==
  /\ Running("step", t)
  /\ resumed' = resumed \ {t}
  /\ Goes(<<Fn("complete", t), Fn("stepped", t)>>)
  /\ UNCHANGED <<listVars, newVars, context, running, aborted, resuming, slice, call, reports,
                 steps, calls, broken>>

\* delay(), or another function that finishes later
StepDelay(t) ==
  /\ Step(t, "delay")
  /\ resumed' = resumed \ {t}
  /\ call' = [call EXCEPT ![t] = "delay"]
  /\ Goes(<<Fn("stepped", t)>>)
  /\ UNCHANGED <<listVars, newVars, context, running, aborted, resuming, slice, reports, calls,
                 broken>>

DelayOver(t) ==
  /\ Idle /\ call[t] = "delay"
  /\ call' = [call EXCEPT ![t] = "none"]
  /\ Enters(<<Fn("resume", t)>>)
  /\ UNCHANGED <<listVars, newVars, context, running, aborted, resuming, resumed, slice, reports,
                 steps, calls, broken>>

\* executeResult(): a script function runs as a thread of its own, in a context
\* of its own, with the flags of its caller.  eval() does the same, except that
\* the threads are not chained and all end with the evaluated code.
StepCall(t, f, k) ==
  /\ Step(t, IF k = "function" THEN "call" ELSE "eval")
  /\ resumed' = resumed \ {t}
  /\ call' = [call EXCEPT ![t] = k]
  /\ NewThread(f, k, f, IF k = "function" THEN flags[t] ELSE {"mainthread"}, t)
  /\ Starts(f)
  /\ Goes(<<Fn("resume", f), Fn("stepped", t)>>)
  /\ UNCHANGED <<queued, dropped, aborted, resuming, slice, calls, broken>>

\* A concurrent block: its thread runs at once, then the step of t goes on.
StepFork(t, b, as) ==
  /\ Step(t, IF as THEN "forkAs" ELSE "fork")
  /\ "mainthread" \in flags[t] => "forkInEval" \in ScriptDoes
  /\ resumed' = resumed \ {t}
  /\ NewThread(b, "fork", context[t], {"concurrently"}, None)
  /\ Starts(b)
  /\ Goes(<<Fn("resume", b), Fn(IF as THEN "store" ELSE "resume", t), Fn("stepped", t)>>)
  /\ UNCHANGED <<queued, dropped, aborted, resuming, slice, call, calls, broken>>

\* startBlockThreadAndStoreInIdentifier() stores the thread's value in its
\* context, which it has lost when it was completed by the forked thread.
Store(t) ==
  /\ Running("store", t)
  /\ IF context[t] = None THEN broken' = TRUE /\ UNCHANGED stack
     ELSE Goes(<<Fn("resume", t)>>) /\ UNCHANGED broken
  /\ UNCHANGED <<listVars, newVars, context, running, loopVars, reports, steps, calls>>

BuiltinCalled(t) ==
  /\ resumed' = resumed \ {t}
  /\ call' = [call EXCEPT ![t] = "builtin"]
  /\ UNCHANGED <<threads, newVars, context, running, aborted, resuming, slice, reports, calls,
                 broken>>

\* abort(thread): the calling thread's own chain is spared, unless asked for.
StepAbortOwnChain(t) ==
  /\ Step(t, "abort")
  /\ Goes(<<Fn("return", t), Fn("stepped", t)>>)
  /\ BuiltinCalled(t) /\ UNCHANGED <<queued, dropped>>

StepAbort(t, u) ==
  /\ Step(t, "abort") /\ u \in running /\ MayAbort({u})
  /\ Goes(<<Fn("abort", u), Fn("return", t), Fn("stepped", t)>>)
  /\ BuiltinCalled(t) /\ UNCHANGED <<queued, dropped>>

\* abort(): all threads, except the one that calls
StepAbortOthers(t) ==
  /\ Step(t, "abortOthers") /\ MayAbort(Listed \ {t})
  /\ Goes(AbortEach(Except(InContext(Main), t))
            \o <<Fn("abortRelated", t), Fn("return", t), Fn("stepped", t)>>)
  /\ EmptyQueue
  /\ BuiltinCalled(t)

\* The builtin function's implementation has returned: finish()
Return(t) ==
  /\ Running("return", t)
  /\ call' = [call EXCEPT ![t] = "none"]
  /\ IF call[t] = "builtin" THEN Goes(<<Fn("resume", t)>>) ELSE Returns
  /\ UNCHANGED <<listVars, newVars, context, running, aborted, resuming, resumed, slice, reports,
                 steps, calls, broken>>

-----------------------------------------------------------------------------
(* abort() and complete() of a thread *)

AbortEnded(t) ==
  /\ Running("abort", t) /\ t \notin running
  /\ Returns
  /\ UNCHANGED <<listVars, newVars, context, running, loopVars, reports, steps, calls, broken>>

\* No call is under way: the thread is completed at once.
AbortAlone(t) ==
  /\ Running("abort", t) /\ t \in running /\ call[t] = "none"
  /\ aborted' = aborted \cup {t}
  /\ Goes(<<Fn("complete", t)>>)
  /\ UNCHANGED <<listVars, newVars, context, running, resuming, resumed, slice, call, reports,
                 steps, calls, broken>>

Mutant_AbortBuiltin_OnlyFlags(t) ==
  /\ Running("abort", t) /\ t \in running /\ call[t] \in {"delay", "builtin", "eval"}
  /\ aborted' = aborted \cup {t}
  /\ call' = [call EXCEPT ![t] = "none"]
  /\ Returns
  /\ UNCHANGED <<listVars, newVars, context, running, resuming, resumed, slice, reports, steps,
                 calls, broken>>

\* BuiltinFunctionContext::abort(): what was started is stopped, and the
\* function finishes; code evaluated by eval() goes on alone.
AbortBuiltin(t) ==
  /\ Running("abort", t) /\ t \in running /\ call[t] \in {"delay", "builtin", "eval"}
  /\ aborted' = aborted \cup {t}
  /\ call' = [call EXCEPT ![t] = "none"]
  /\ Goes(<<Fn("resume", t)>>)
  /\ UNCHANGED <<listVars, newVars, context, running, resuming, resumed, slice, reports, steps,
                 calls, broken>>

\* The function's context is aborted with all its threads, and their end
\* resumes t.
AbortFunction(t) ==
  /\ Running("abort", t) /\ t \in running /\ call[t] = "function"
  /\ aborted' = aborted \cup {t}
  /\ LET c == CHOOSE f \in Threads : caller[f] = t /\ kind[f] = "function" /\ f \in reports
     IN  Goes(AbortEach(InContext(c)))
  /\ UNCHANGED <<listVars, newVars, context, running, resuming, resumed, slice, call, reports,
                 steps, calls, broken>>

\* complete(), up to its callback: the caller is resumed, or the application told.
Complete(t) ==
  /\ Running("complete", t)
  /\ running' = running \ {t}
  /\ resumed' = resumed \ {t} /\ slice' = slice \ {t}
  /\ LET u == caller[t]
         calledBack == t \in reports /\ u # None /\ call[u] = kind[t]
     IN  /\ call' = IF calledBack THEN [call EXCEPT ![u] = "none"] ELSE call
         /\ calls' = IF t \in reports /\ u = None THEN [calls EXCEPT ![t] = IF @ = 2 THEN 2 ELSE @ + 1]
                     ELSE calls
         /\ Goes((IF calledBack THEN <<Fn("resume", u)>>
                  ELSE IF t \in reports /\ u = None THEN <<Fn("callback", t)>> ELSE <<>>)
                 \o <<Fn("ended", t)>>)
  /\ reports' = reports \ {t}
  /\ UNCHANGED <<listVars, newVars, context, aborted, resuming, steps, broken>>

CallbackReturns(t) ==
  /\ Running("callback", t)
  /\ Returns
  /\ UNCHANGED <<listVars, newVars, context, running, loopVars, reports, steps, calls, broken>>

\* The next thread in the queue may start when t has ended.
MayStartNext(others) ==
  /\ queued # <<>> /\ ~FromQueue(others)
  /\ others = <<>> \/ "concurrently" \in flags[Head(queued)]

Mutant_Ended_KeepsQueue(t) ==
  /\ Running("ended", t)
  /\ threads' = Except(threads, t)
  /\ context' = [context EXCEPT ![t] = None]
  /\ Returns /\ UNCHANGED <<queued, running>>
  /\ UNCHANGED <<dropped, newVars, loopVars, reports, steps, calls, broken>>

\* threadTerminated() and deactivate(); a main thread aborts its siblings with
\* no result, which abort() of a running thread dereferences.
Ended(t) ==
  /\ Running("ended", t)
  /\ LET rest == Except(threads, t)
         others == Select(rest, {u \in Threads : context[u] = Main})
         next == context[t] = Main /\ MayStartNext(others)
     IN  /\ threads' = IF next THEN Append(rest, Head(queued)) ELSE rest
         /\ queued' = IF next THEN Tail(queued) ELSE queued
         /\ running' = IF next THEN running \cup {Head(queued)} ELSE running
         /\ IF next THEN Goes(<<Fn("resume", Head(queued))>>) ELSE Returns
         /\ broken' = \E i \in DOMAIN rest :
                        "mainthread" \in flags[t] /\ context[rest[i]] = context[t] /\ rest[i] \in running
  /\ context' = [context EXCEPT ![t] = None]
  /\ UNCHANGED <<dropped, newVars, loopVars, reports, steps, calls>>

-----------------------------------------------------------------------------

AppStep == Stop \/ \E t \in Threads, mode \in RunModes : Execute(t, mode)

ThreadStep ==
  \/ \E t \in 0..MaxThreads : AbortRelated(t)
  \/ \E t \in Threads :
       \/ EnterQueued(t) \/ EnterBusy(t) \/ EnterStarts(t)
       \/ ResumeNested(t) \/ ResumeAborted(t) \/ ResumeLoop(t) \/ Stepped(t)
       \/ TimeSlice(t) \/ StepEnds(t) \/ StepDelay(t)
       \/ StepAbortOwnChain(t) \/ StepAbortOthers(t)
       \/ Store(t) \/ Return(t)
       \/ AbortEnded(t) \/ AbortAlone(t) \/ AbortBuiltin(t) \/ AbortFunction(t)
       \/ Complete(t) \/ CallbackReturns(t) \/ Ended(t)
       \/ \E u \in Threads : \/ StepAbort(t, u)
                             \/ \E k \in {"function", "eval"} : StepCall(t, u, k)
                             \/ \E as \in BOOLEAN : StepFork(t, u, as)

TimerStep == \E t \in Threads : SliceOver(t) \/ DelayOver(t)

Next == AppStep \/ ThreadStep \/ TimerStep

Spec == Init /\ [][Next]_vars

\* Functions return, and the mainloop executes its timers, whatever the
\* application does between them.
FairSpec == Spec /\ WF_vars(ThreadStep) /\ SF_vars(TimerStep)

-----------------------------------------------------------------------------
(* Properties *)

\* What a step goes on with still exists: its thread has not lost its context
\* (startBlockThreadAndStoreInIdentifier() stores in it after the block has run),
\* and a thread that ends aborts no sibling by mistake (threadTerminated() passes
\* abort() no result, which that dereferences).
NoNullPointer == ~broken

\* An aborted thread has ended when control is back in the mainloop (abort():
\* "calling abort must execute the callback passed to this thread when starting it").
AbortedThreadsEnd == stack = <<>> => aborted \cap running = {}

\* Of the threads that were queued, one is executing at a time (p44script.hpp,
\* queue: "thread will start when all previously queued threads are done").
OneFromQueue ==
  Cardinality({i \in DOMAIN threads : context[threads[i]] = Main /\ "queue" \in flags[threads[i]]}) <= 1

\* A suspended thread waits for something that will resume it: a timer, or a
\* function that is still executing.
SuspendedIsAwaited ==
  /\ TypeOK
  /\ stack = <<>> =>
       \A t \in running :
          \/ t \in slice \/ call[t] = "delay"
          \/ call[t] \in {"function", "eval"} /\ \E f \in running \cap reports : caller[f] = t

\* Every thread that executes is known to its context, so that it can be
\* stopped (threadTerminated() and abort() go by mThreads).
RunningIsListed == running \subseteq Listed

\* Every execution reports its end to the application, unless it was dropped
\* from the queue.
ExecutionsReport ==
  \A t \in Threads : kind[t] = "top" ~> (calls[t] = 1 \/ t \in dropped)
=============================================================================
