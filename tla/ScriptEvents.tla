---------------------------- MODULE ScriptEvents ----------------------------
(***************************************************************************)
(* Events of p44script (src/p44script.cpp): EventSource, EventSink and the *)
(* await() function.  A source walks its map of sinks while the sinks it   *)
(* calls change that map: handlers register, unregister and send events    *)
(* themselves, and the sink of an await() deletes itself.                  *)
(*                                                                         *)
(* Everything runs in the mainloop; `stack' holds the functions that are   *)
(* under way.  Sinks are ordered like their addresses in the map.  Event   *)
(* values and event filters are left out: every event is for every sink.   *)
(***************************************************************************)
EXTENDS Integers, Sequences, FiniteSets, FiniteSetsExt, SequencesExt

CONSTANTS
  Sources,      \* event sources
  Handlers,     \* sinks with a callback that stay
  Awaits,       \* calls of await(), each with a sink of its own
  MaxSends,     \* bound: events sent
  MaxChanges,   \* bound: changes of registrations made by handlers
  Reenters      \* what application and scripts do in the wrong moment: subset of
                \*   {"timeout": a script sends the event it has just timed out on,
                \*    "abort": a thread is aborted when its event has come already,
                \*    "nested": a handler is unregistered in its callback, and the event is sent
                \*    again in that callback}

ASSUME EventConstants ==
  /\ Handlers \subseteq Nat \ {0} /\ Awaits \subseteq Nat \ {0}
  /\ Handlers \cap Awaits = {}
  /\ MaxSends \in Nat /\ MaxChanges \in Nat
  /\ Reenters \subseteq {"timeout", "abort", "nested"}

Sinks == Handlers \cup Awaits
Begin == 0      \* no sink visited yet
Erased == -1    \* the map element an iterator refers to has been erased

VARIABLES
  sinks,        \* mEventSinks of each source
  modified,     \* mSinksModified
  stack,        \* functions under way, the innermost one last
  pending,      \* finishWait() calls handed to executeNow()
  await,        \* state of each await()
  timer,        \* awaits with timeoutTicket set
  freed,        \* await sinks that have been deleted
  sends,        \* history: events sent
  changes,      \* history: changes of registrations
  broken        \* an erased iterator or a deleted sink was used: anything may happen

vars == <<sinks, modified, stack, pending, await, timer, freed, sends, changes, broken>>

AwaitStates == {"none", "waiting", "answered", "resumed", "aborted"}
Frames == [fn : {"send"}, src : Sources, pos : Sinks \cup {Begin, Erased}, todo : SUBSET Sinks]
            \cup [fn : {"handler", "script", "timeout"}, sink : Sinks]

\* Sinks that are registered are alive, and wait for an event.
TypeOK ==
  /\ sinks \in [Sources -> SUBSET Sinks] /\ modified \in [Sources -> BOOLEAN]
  /\ stack \in Seq(Frames) /\ pending \in Seq(Awaits)
  /\ await \in [Awaits -> AwaitStates]
  /\ timer \subseteq Awaits /\ freed \subseteq Awaits
  /\ sends \in 0..MaxSends /\ changes \in 0..MaxChanges /\ broken \in BOOLEAN
  /\ \A s \in Sources : sinks[s] \cap freed = {}
  /\ timer \cap freed = {}

Init ==
  /\ sinks = [s \in Sources |-> {}] /\ modified = [s \in Sources |-> FALSE]
  /\ stack = <<>> /\ pending = <<>>
  /\ await = [k \in Awaits |-> "none"] /\ timer = {} /\ freed = {}
  /\ sends = 0 /\ changes = 0 /\ broken = FALSE

Top == Last(stack)
Running(fn) == stack # <<>> /\ Top.fn = fn /\ ~broken
Idle == stack = <<>> /\ ~broken
Frame(fn, k) == [fn |-> fn, sink |-> k]

\* Application code, a handler's callback or a script runs.
Code == Idle \/ Running("handler") \/ Running("script")

SendingOn(s) == {i \in DOMAIN stack : stack[i].fn = "send" /\ stack[i].src = s}

Mutant_Erase_Silently(k, S, st) ==
  /\ sinks' = [s \in Sources |-> IF s \in S THEN sinks[s] \ {k} ELSE sinks[s]]
  /\ modified' = modified
  /\ stack' = [i \in DOMAIN st |->
       IF st[i].fn = "send" /\ st[i].src \in S
       THEN [st[i] EXCEPT !.pos = IF @ = k THEN Erased ELSE @, !.todo = @ \ {k}] ELSE st[i]]

\* Sink k is erased from the maps of sources S, with iterators that refer to it;
\* `st' is the stack to go on with.
Erase(k, S, st) ==
  /\ sinks' = [s \in Sources |-> IF s \in S THEN sinks[s] \ {k} ELSE sinks[s]]
  /\ modified' = [s \in Sources |-> modified[s] \/ (s \in S /\ k \in sinks[s])]
  /\ stack' = [i \in DOMAIN st |->
       IF st[i].fn = "send" /\ st[i].src \in S
       THEN [st[i] EXCEPT !.pos = IF @ = k THEN Erased ELSE @, !.todo = @ \ {k}] ELSE st[i]]

-----------------------------------------------------------------------------
(* Registrations *)

Register(h, s) ==
  /\ Code /\ changes < MaxChanges /\ h \in Handlers /\ h \notin sinks[s]
  /\ changes' = changes + 1
  /\ sinks' = [sinks EXCEPT ![s] = @ \cup {h}]
  /\ modified' = [modified EXCEPT ![s] = TRUE]
  /\ UNCHANGED <<stack, pending, await, timer, freed, sends, broken>>

\* A function below the innermost one that walks s is at sink k.
VisitedBelow(k, s) ==
  \E i, j \in SendingOn(s) : i < j /\ stack[i].pos = k

Unregister(h, s) ==
  /\ Code /\ changes < MaxChanges /\ h \in Handlers /\ h \in sinks[s]
  /\ VisitedBelow(h, s) => "nested" \in Reenters
  /\ changes' = changes + 1
  /\ Erase(h, {s}, stack)
  /\ UNCHANGED <<pending, await, timer, freed, sends, broken>>

-----------------------------------------------------------------------------
(* await() *)

\* A thread suspends itself until one of the sources sends an event, or for some time.
Await(k, S, timed) ==
  /\ Code /\ await[k] = "none" /\ S # {}
  /\ await' = [await EXCEPT ![k] = "waiting"]
  /\ timer' = IF timed THEN timer \cup {k} ELSE timer
  /\ sinks' = [s \in Sources |-> IF s \in S THEN sinks[s] \cup {k} ELSE sinks[s]]
  /\ modified' = [s \in Sources |-> modified[s] \/ s \in S]
  /\ stack' = IF Running("script") THEN Front(stack) ELSE stack
  /\ UNCHANGED <<pending, freed, sends, changes, broken>>

\* The call that was put off with executeNow(): the thread goes on, unless it
\* has been aborted meanwhile.
FinishWait ==
  /\ Idle /\ pending # <<>>
  /\ LET k == Head(pending) IN
       IF await[k] = "answered"
         THEN await' = [await EXCEPT ![k] = "resumed"] /\ stack' = <<Frame("script", k)>>
         ELSE UNCHANGED <<await, stack>>
  /\ pending' = Tail(pending)
  /\ UNCHANGED <<sinks, modified, timer, freed, sends, changes, broken>>

\* timeout(): the thread goes on within finish(); the sink is still registered.
Timeout(k) ==
  /\ Idle /\ k \in timer
  /\ timer' = timer \ {k}
  /\ await' = [await EXCEPT ![k] = "resumed"]
  /\ stack' = <<Frame("timeout", k), Frame("script", k)>>
  /\ UNCHANGED <<sinks, modified, pending, freed, sends, changes, broken>>

\* The end of timeout() uses and deletes the sink.
TimeoutReturns ==
  /\ Running("timeout")
  /\ LET k == Top.sink IN
       IF k \in freed
         THEN broken' = TRUE /\ UNCHANGED <<sinks, modified, stack, freed>>
         ELSE /\ Erase(k, Sources, Front(stack))
              /\ freed' = freed \cup {k} /\ UNCHANGED broken
  /\ UNCHANGED <<pending, await, timer, sends, changes>>

\* The thread that waits is aborted: await_abort() deletes the sink.
Abort(k) ==
  /\ Code /\ await[k] \in {"waiting", "answered"}
  /\ await[k] = "answered" => "abort" \in Reenters
  /\ await' = [await EXCEPT ![k] = "aborted"]
  /\ IF k \in freed
       THEN broken' = TRUE /\ UNCHANGED <<sinks, modified, stack, timer, freed>>
       ELSE /\ Erase(k, Sources, stack)
            /\ timer' = timer \ {k} /\ freed' = freed \cup {k} /\ UNCHANGED broken
  /\ UNCHANGED <<pending, sends, changes>>

\* A callback returns, or a script suspends itself otherwise.
CodeReturns ==
  /\ Running("handler") \/ Running("script")
  /\ stack' = Front(stack)
  /\ UNCHANGED <<sinks, modified, pending, await, timer, freed, sends, changes, broken>>

-----------------------------------------------------------------------------
(* sendEvent() *)

SendEvent(s) ==
  /\ Code /\ sends < MaxSends /\ sinks[s] # {}
  /\ (\E i \in DOMAIN stack : stack[i].fn = "timeout" /\ stack[i].sink \in sinks[s])
       => "timeout" \in Reenters
  /\ (\E i \in SendingOn(s) : stack[i].pos = Erased) => "nested" \in Reenters
  /\ sends' = sends + 1
  /\ modified' = [modified EXCEPT ![s] = FALSE]
  /\ stack' = Append(stack, [fn |-> "send", src |-> s, pos |-> Begin, todo |-> sinks[s]])
  /\ UNCHANGED <<sinks, pending, await, timer, freed, changes, broken>>

Ahead == {k \in sinks[Top.src] : k > Top.pos}
Walking == Running("send") /\ ~modified[Top.src] /\ Top.pos # Erased

Mutant_SendContinues_Stops ==
  /\ Running("send") /\ (modified[Top.src] \/ Top.pos = Erased)
  /\ modified' = [modified EXCEPT ![Top.src] = FALSE]
  /\ stack' = Append(Front(stack), [Top EXCEPT !.pos = Max(Sinks)])
  /\ UNCHANGED <<sinks, pending, await, timer, freed, sends, changes, broken>>

\* The map has been changed by a sink: the walk starts again.  If another walk
\* of the same source has reset the flag, it goes on from an erased element.
SendContinues ==
  /\ Running("send") /\ (modified[Top.src] \/ Top.pos = Erased)
  /\ IF modified[Top.src]
       THEN /\ modified' = [modified EXCEPT ![Top.src] = FALSE]
            /\ stack' = Append(Front(stack), [Top EXCEPT !.pos = Begin])
            /\ UNCHANGED broken
       ELSE broken' = TRUE /\ UNCHANGED <<modified, stack>>
  /\ UNCHANGED <<sinks, pending, await, timer, freed, sends, changes>>

Visited(k) == Append(Front(stack), [Top EXCEPT !.pos = k, !.todo = @ \ {k}])

SendToHandler(h) ==
  /\ Walking /\ Ahead # {} /\ h = Min(Ahead) /\ h \in Handlers
  /\ stack' = Append(Visited(h), Frame("handler", h))
  /\ UNCHANGED <<sinks, modified, pending, await, timer, freed, sends, changes, broken>>

Mutant_SendToAwait_NoAnswer(k) ==
  /\ Walking /\ Ahead # {} /\ k = Min(Ahead) /\ k \in Awaits
  /\ await' = [await EXCEPT ![k] = IF @ = "waiting" THEN "answered" ELSE @]
  /\ Erase(k, Sources, Visited(k))
  /\ timer' = timer \ {k} /\ freed' = freed \cup {k}
  /\ UNCHANGED <<pending, sends, changes, broken>>

\* The sink of an await() puts the answer off, and deletes itself.
SendToAwait(k) ==
  /\ Walking /\ Ahead # {} /\ k = Min(Ahead) /\ k \in Awaits
  /\ pending' = Append(pending, k)
  /\ await' = [await EXCEPT ![k] = IF @ = "waiting" THEN "answered" ELSE @]
  /\ Erase(k, Sources, Visited(k))
  /\ timer' = timer \ {k} /\ freed' = freed \cup {k}
  /\ UNCHANGED <<sends, changes, broken>>

SendReturns ==
  /\ Walking /\ Ahead = {}
  /\ stack' = Front(stack)
  /\ UNCHANGED <<sinks, modified, pending, await, timer, freed, sends, changes, broken>>

-----------------------------------------------------------------------------

CodeStep ==
  \/ CodeReturns
  \/ \E s \in Sources : SendEvent(s) \/ \E h \in Handlers : Register(h, s) \/ Unregister(h, s)
  \/ \E k \in Awaits : Abort(k) \/ \E S \in SUBSET Sources, timed \in BOOLEAN : Await(k, S, timed)

SendStep ==
  \/ SendContinues \/ SendReturns
  \/ \E k \in Sinks : SendToHandler(k) \/ SendToAwait(k)

Next == CodeStep \/ SendStep \/ TimeoutReturns \/ FinishWait \/ \E k \in Awaits : Timeout(k)

Spec == Init /\ [][Next]_vars

\* Callbacks and functions return, and the mainloop executes what is due.
FairSpec ==
  /\ Spec /\ WF_vars(SendStep) /\ WF_vars(CodeReturns) /\ WF_vars(TimeoutReturns)
  /\ SF_vars(FinishWait) /\ \A k \in Awaits : SF_vars(Timeout(k))

-----------------------------------------------------------------------------
(* Properties *)

\* An event that is sent reaches every sink that was registered when it was
\* sent, unless it is unregistered before its turn.
EventReachesAll == Walking /\ Ahead = {} => Top.todo = {}

\* An answer that is put off belongs to an await that has not been resumed.
AnswersArePending == \A i \in DOMAIN pending : await[pending[i]] \in {"answered", "aborted"}

\* Walks never use an erased map element, a sink is deleted once only, and no
\* answer is kept for a thread that has gone on (sendEvent(): mSinksModified;
\* await_func(): mAbortCB).
NothingDangles == TypeOK /\ AnswersArePending /\ ~broken

\* An await whose event has come, or that has a timeout, is resumed or aborted.
AwaitsEnd ==
  \A k \in Awaits : (await[k] = "answered" \/ k \in timer) ~> await[k] \in {"resumed", "aborted"}

\* A walk ends, however often it is started again.
SendsReturn == \A s \in Sources : SendingOn(s) # {} ~> SendingOn(s) = {}

\* Neither those who send nor those who wait wait forever.
AllGoOn == AwaitsEnd /\ SendsReturn
=============================================================================
