---------------------- MODULE ScriptThreadStackProofs ----------------------
(***************************************************************************)
(* Proofs about the threads of p44script, continued: what is under way on  *)
(* the stack, and what that says of the threads.                           *)
(*                                                                         *)
(* WaysInv is the part of IInv that ties the two together.  Most steps do  *)
(* something to few threads (Moves) and replace the functions on top       *)
(* (Stacks); StepKeeps says that such a step keeps WaysInv, and the lemmas *)
(* before it what that takes for each part (...InvStays).  The actions     *)
(* then come in kinds: those of one thread (OwnStepsKeep), those that call *)
(* abort() (AbortStepsKeep), those that start a thread (ExecuteKeeps,      *)
(* StepStartsKeep, EndedKeeps) and those that queue or complete one.       *)
(* ClearInv is the part that needs AbortsOnStack = FALSE, and the theorems *)
(* at the end rest on it.                                                  *)
(***************************************************************************)
EXTENDS ScriptThreadProofs

LEMMA ThreadInvKeeps ==
  ASSUME IInv, Next
  PROVE  ThreadInv'
<1>0. /\ DataInv /\ Lists /\ ListInv /\ SetInv /\ FramesInv /\ StartInv /\ Born \subseteq Born'
      /\ FrameInv /\ ThreadInv /\ TypeInv
  BY BornStays DEF IInv, DataInv, TypeInv
<1>00. Main # None /\ None \notin Threads /\ Threads \subseteq Nat /\ Born \subseteq Threads
  BY ThreadTypes DEF Threads, None, Born
<1>1. ASSUME Stop
      PROVE  ThreadInv'
  BY <1>0, <1>1 DEF Stop, ThreadInv, Listed, Born, Step, BuiltinCalled, newVars, listVars, loopVars
<1>2. ASSUME NEW t \in Threads, NEW mode \in RunModes, Execute(t, mode)
      PROVE  ThreadInv'
  <2>5. /\ t \notin Born /\ kind' = [kind EXCEPT ![t] = "top"] /\ context' = [context EXCEPT ![t] = Main]
        /\ caller' = [caller EXCEPT ![t] = None] /\ \A v \in Threads : v < t => v \in Born
    BY <1>2 DEF Execute, NewThread, Fresh
  <2>6. /\ \A v \in Threads \ {t} : kind'[v] = kind[v] /\ context'[v] = context[v] /\ caller'[v] = caller[v]
        /\ kind'[t] = "top" /\ context'[t] = Main /\ caller'[t] = None /\ Born' = Born \cup {t}
    <3>1. "top" # "none"
      BY <2>5
    <3> QED BY <1>0, <2>5, <3>1 DEF TypeInv, Born
  <2>7. t \notin running /\ t \notin reports /\ t \notin Listed
    BY <1>0, <2>5 DEF SetInv, ListInv
  <2>8. running' = running /\ slice' = slice /\ resumed' = resumed /\ reports' = reports \cup {t} /\ Listed' = Listed
    BY <1>2 DEF Execute, NewThread, loopVars, Listed
  <2> QED BY <1>0, <1>00, <2>5, <2>6, <2>7, <2>8 DEF ThreadInv
<1>3. ASSUME NEW t \in 0..MaxThreads, AbortRelated(t)
      PROVE  ThreadInv'
  BY <1>0, <1>3 DEF AbortRelated, ThreadInv, Listed, Born, Step, BuiltinCalled, newVars, listVars,
     loopVars
<1>4. ASSUME NEW t \in Threads, EnterQueued(t) \/ ResumeAborted(t) \/ ResumeLoop(t) \/ Stepped(t)
              \/ StepEnds(t) \/ StepDelay(t)
      PROVE  ThreadInv'
  BY <1>0, <1>4 DEF EnterQueued, ResumeAborted, ResumeLoop, Stepped, StepEnds, StepDelay, ThreadInv,
     Listed, Born, Step, BuiltinCalled, newVars, listVars, loopVars
<1>5. ASSUME NEW t \in Threads, EnterBusy(t)
      PROVE  ThreadInv'
  <2>1. On("enter", t)
    BY <1>0, <1>5, EnterBusyEffect
  <2>2. context[t] = Main /\ t \notin Listed
    BY <1>0, <2>1 DEF StartInv, Unstarted, On, Fn
  <2>3. Listed' = Listed
    BY <1>5 DEF EnterBusy, listVars, Listed
  <2> QED BY <1>0, <1>00, <1>5, <2>2, <2>3 DEF EnterBusy, Starts, ThreadInv, Born, newVars, loopVars
<1>6. ASSUME NEW t \in Threads, EnterStarts(t)
      PROVE  ThreadInv'
  <2>1. On("enter", t)
    BY <1>0, <1>6, EnterStartsEffect
  <2>2. context[t] = Main /\ t \notin Listed
    BY <1>0, <2>1 DEF StartInv, Unstarted, On, Fn
  <2>3. Listed' = Listed \cup {t}
    BY <1>0, <1>6, <2>2, AppendElements DEF EnterStarts, Starts, Listed, Lists
  <2> QED BY <1>0, <1>00, <1>6, <2>2, <2>3 DEF EnterStarts, Starts, ThreadInv, Born, newVars, loopVars
<1>7. ASSUME NEW t \in Threads, ResumeNested(t)
      PROVE  ThreadInv'
  <2>1. On("resume", t)
    BY <1>0, <1>7, ResumeNestedEffect
  <2>2. t \in running
    BY <1>0, <2>1 DEF FrameInv, Knows, On, Fn
  <2> QED BY <1>0, <1>7, <2>2 DEF ResumeNested, ThreadInv, Listed, Born, Step, BuiltinCalled,
             newVars, listVars, loopVars
<1>8. ASSUME NEW t \in Threads, TimeSlice(t)
      PROVE  ThreadInv'
  <2>1. On("step", t)
    BY <1>0, <1>8, TimeSliceEffect
  <2>2. t \in running
    BY <1>0, <2>1 DEF FrameInv, Knows, On, Fn
  <2> QED BY <1>0, <1>8, <2>2 DEF TimeSlice, ThreadInv, Listed, Born, Step, BuiltinCalled, newVars,
             listVars, loopVars
<1>9. ASSUME NEW t \in Threads, StepAbortOwnChain(t) \/ StepAbortOthers(t) \/ Store(t) \/ Return(t)
              \/ AbortEnded(t) \/ AbortAlone(t)
      PROVE  ThreadInv'
  BY <1>0, <1>9 DEF StepAbortOwnChain, StepAbortOthers, Store, Return, AbortEnded, AbortAlone,
     ThreadInv, Listed, Born, Step, BuiltinCalled, newVars, listVars, loopVars
<1>10. ASSUME NEW t \in Threads, AbortBuiltin(t) \/ AbortFunction(t) \/ Complete(t)
              \/ CallbackReturns(t) \/ SliceOver(t) \/ DelayOver(t)
       PROVE  ThreadInv'
  BY <1>0, <1>10 DEF AbortBuiltin, AbortFunction, Complete, CallbackReturns, SliceOver, DelayOver,
     ThreadInv, Listed, Born, Step, BuiltinCalled, newVars, listVars, loopVars
<1>11. ASSUME NEW t \in Threads, Ended(t)
       PROVE  ThreadInv'
  <2> DEFINE rest == Except(threads, t)
             next == context[t] = Main /\ MayStartNext(Select(rest, {u \in Threads : context[u] = Main}))
  <2>1. On("ended", t)
    BY <1>0, <1>11, EndedEffect
  <2>2. t \notin running /\ t \in Born
    BY <1>0, <2>1, OnBorn DEF FrameInv, Knows, On, Fn
  <2>3. /\ context' = [context EXCEPT ![t] = None]
        /\ running' = IF next THEN running \cup {Head(queued)} ELSE running
        /\ threads' = IF next THEN Append(rest, Head(queued)) ELSE rest
        /\ next => queued # <<>>
        /\ UNCHANGED <<kind, caller, slice, resumed, reports>>
    BY <1>11 DEF Ended, MayStartNext, newVars, loopVars
  <2>4. rest \in Seq(Threads) /\ Range(rest) = Listed \ {t}
    BY <1>0, ExceptProperties DEF Lists, Listed
  <2>5. next => Head(queued) \in Waiting /\ Head(queued) \in Threads
    BY <1>0, <2>3 DEF Lists, Waiting, Range
  <2> HIDE DEF next
  <2>6. Listed \ {t} \subseteq Listed'
    <3>1. CASE ~next
      BY <2>3, <2>4, <3>1 DEF Listed
    <3>2. CASE next
      <4>1. PICK h \in Threads : h = Head(queued)
        BY <2>5, <3>2
      <4> HIDE DEF rest
      <4>2. threads' = Append(rest, h)
        BY <2>3, <3>2, <4>1
      <4>3. Range(rest) \subseteq Range(Append(rest, h))
        <5>1. PICK r : r = Append(rest, h)
          OBVIOUS
        <5>2. PICK m : m = Len(rest)
          OBVIOUS
        <5>3. m \in Nat /\ Len(r) = m + 1 /\ DOMAIN r = 1..(m + 1) /\ DOMAIN rest = 1..m /\ \A i \in 1..m : r[i] = rest[i]
          BY <2>4, <5>1, <5>2, AppendProperties
        <5> QED BY <5>1, <5>3 DEF Range
      <4> QED BY <2>4, <4>2, <4>3 DEF Listed
    <3> QED BY <3>1, <3>2
  <2>7. \A v \in Threads \ {t} : context'[v] = context[v]
    BY <1>0, <2>3 DEF TypeInv
  <2>8. \A v \in Waiting : context[v] = Main /\ v # t
    BY <1>0, <2>1 DEF StartInv, On, Fn
  <2>9. Born' = Born /\ context'[t] = None
    BY <1>0, <2>2, <2>3 DEF Born, TypeInv
  <2>11. slice' \subseteq running' /\ resumed' \subseteq running' /\ \A v \in running' : context'[v] # None
    BY <1>0, <1>00, <2>2, <2>3, <2>5, <2>7, <2>8 DEF ThreadInv, SetInv
  <2>12. \A v \in Threads : context'[v] \in Born' \cup {None, Main}
    BY <1>0, <2>7, <2>9 DEF ThreadInv
  <2>13. \A f \in reports' : kind'[f] \in {"function", "eval"} =>
            f \in running' /\ f \in Listed' /\ context'[f] = f /\ caller'[f] # None
    BY <1>0, <1>00, <2>2, <2>3, <2>6, <2>7 DEF ThreadInv, SetInv
  <2>14. \A f \in Threads : caller'[f] # None => caller'[f] < f /\ caller'[f] \in Born'
    BY <1>0, <2>3, <2>9 DEF ThreadInv
  <2>15. \A v \in Born', x \in Threads : x < v => x \in Born'
    BY <1>0, <2>9 DEF ThreadInv
  <2> QED BY <2>11, <2>12, <2>13, <2>14, <2>15 DEF ThreadInv
<1>12. ASSUME NEW t \in Threads, NEW u \in Threads, StepAbort(t, u)
       PROVE  ThreadInv'
  BY <1>0, <1>12 DEF StepAbort, ThreadInv, Listed, Born, Step, BuiltinCalled, newVars, listVars,
     loopVars
<1>13. ASSUME NEW t \in Threads, NEW u \in Threads, NEW k \in {"function", "eval"}, 
              StepCall(t, u, k)
       PROVE  ThreadInv'
  <2>1. On("step", t)
    BY <1>0, <1>13, StepCallEffect
  <2>2. t \in Born /\ t \in running /\ t # u
    BY <1>0, <1>13, <2>1, OnBorn DEF FrameInv, Knows, On, Fn, StepCall, NewThread, Fresh
  <2>5. /\ u \notin Born /\ kind' = [kind EXCEPT ![u] = k] /\ context' = [context EXCEPT ![u] = u]
        /\ caller' = [caller EXCEPT ![u] = t] /\ \A v \in Threads : v < u => v \in Born
    BY <1>13 DEF StepCall, NewThread, Fresh
  <2>6. /\ \A v \in Threads \ {u} : kind'[v] = kind[v] /\ context'[v] = context[v] /\ caller'[v] = caller[v]
        /\ kind'[u] = k /\ context'[u] = u /\ caller'[u] = t /\ Born' = Born \cup {u}
    <3>1. k # "none"
      BY <2>5
    <3> QED BY <1>0, <2>5, <3>1 DEF TypeInv, Born
  <2>7. u \notin running /\ u \notin reports /\ u \notin Listed
    BY <1>0, <2>5 DEF SetInv, ListInv
  <2>8. /\ running' = running \cup {u} /\ slice' = slice /\ resumed' \subseteq resumed
        /\ reports' \subseteq reports \cup {u}
    BY <1>13 DEF StepCall, NewThread, Starts
  <2>9. Listed' = Listed \cup {u}
    BY <1>0, <1>13, <2>7, AppendElements DEF StepCall, Starts, Listed, Lists
  <2>10. t < u
    BY <1>0, <1>00, <2>2, <2>5 DEF ThreadInv
  <2>11. slice' \subseteq running' /\ resumed' \subseteq running' /\ \A v \in running' : context'[v] # None
    BY <1>0, <1>00, <2>6, <2>8, <2>10 DEF ThreadInv, SetInv
  <2>12. \A v \in Threads : context'[v] \in Born' \cup {None, Main}
    BY <1>0, <1>00, <2>6, <2>10 DEF ThreadInv
  <2>13. \A f \in reports' : kind'[f] \in {"function", "eval"} =>
            f \in running' /\ f \in Listed' /\ context'[f] = f /\ caller'[f] # None
    <3> SUFFICES ASSUME NEW f \in reports', kind'[f] \in {"function", "eval"}
                 PROVE  f \in running' /\ f \in Listed' /\ context'[f] = f /\ caller'[f] # None
      OBVIOUS
    <3>1. CASE f = u
      BY <1>00, <2>6, <2>7, <2>8, <2>9, <2>10, <3>1
    <3>2. CASE f # u
      <4>1. f \in reports /\ f \in Threads
        BY <1>0, <1>00, <2>8, <3>2 DEF SetInv
      <4>2. kind'[f] = kind[f] /\ context'[f] = context[f] /\ caller'[f] = caller[f]
        BY <2>6, <3>2, <4>1
      <4> QED BY <1>0, <2>8, <2>9, <4>1, <4>2 DEF ThreadInv
    <3> QED BY <3>1, <3>2
  <2>14. \A f \in Threads : caller'[f] # None => caller'[f] < f /\ caller'[f] \in Born'
    BY <1>0, <1>00, <2>2, <2>6, <2>10 DEF ThreadInv
  <2>15. \A v \in Born', x \in Threads : x < v => x \in Born'
    BY <1>0, <1>00, <2>5, <2>6 DEF ThreadInv
  <2> QED BY <2>11, <2>12, <2>13, <2>14, <2>15 DEF ThreadInv
<1>14. ASSUME NEW t \in Threads, NEW u \in Threads, NEW as \in BOOLEAN, StepFork(t, u, as)
       PROVE  ThreadInv'
  <2>1. On("step", t)
    BY <1>0, <1>14, StepForkEffect
  <2>2. t \in Born /\ t \in running /\ t # u
    BY <1>0, <1>14, <2>1, OnBorn DEF FrameInv, Knows, On, Fn, StepFork, NewThread, Fresh
  <2>5. /\ u \notin Born /\ kind' = [kind EXCEPT ![u] = "fork"] /\ context' = [context EXCEPT ![u] = context[t]]
        /\ caller' = [caller EXCEPT ![u] = None] /\ \A v \in Threads : v < u => v \in Born
    BY <1>14 DEF StepFork, NewThread, Fresh
  <2>6. /\ \A v \in Threads \ {u} : kind'[v] = kind[v] /\ context'[v] = context[v] /\ caller'[v] = caller[v]
        /\ kind'[u] = "fork" /\ context'[u] = context[t] /\ caller'[u] = None /\ Born' = Born \cup {u}
    <3>1. "fork" # "none"
      BY <2>5
    <3> QED BY <1>0, <2>5, <3>1 DEF TypeInv, Born
  <2>7. u \notin running /\ u \notin reports /\ u \notin Listed
    BY <1>0, <2>5 DEF SetInv, ListInv
  <2>8. /\ running' = running \cup {u} /\ slice' = slice /\ resumed' \subseteq resumed
        /\ reports' \subseteq reports \cup {u}
    BY <1>14 DEF StepFork, NewThread, Starts
  <2>9. Listed' = Listed \cup {u}
    BY <1>0, <1>14, <2>7, AppendElements DEF StepFork, Starts, Listed, Lists
  <2>10. context[t] # None /\ context[t] \in Born \cup {None, Main} /\ reports' = reports
    BY <1>0, <1>14, <2>2 DEF ThreadInv, StepFork, NewThread
  <2>11. slice' \subseteq running' /\ resumed' \subseteq running' /\ \A v \in running' : context'[v] # None
    BY <1>0, <1>00, <2>6, <2>8, <2>10 DEF ThreadInv, SetInv
  <2>12. \A v \in Threads : context'[v] \in Born' \cup {None, Main}
    BY <1>0, <1>00, <2>6, <2>10 DEF ThreadInv
  <2>13. \A f \in reports' : kind'[f] \in {"function", "eval"} =>
            f \in running' /\ f \in Listed' /\ context'[f] = f /\ caller'[f] # None
    <3> SUFFICES ASSUME NEW f \in reports', kind'[f] \in {"function", "eval"}
                 PROVE  f \in running' /\ f \in Listed' /\ context'[f] = f /\ caller'[f] # None
      OBVIOUS
    <3>1. CASE f = u
      BY <1>00, <2>6, <2>7, <2>8, <2>9, <2>10, <3>1
    <3>2. CASE f # u
      <4>1. f \in reports /\ f \in Threads
        BY <1>0, <1>00, <2>8, <3>2 DEF SetInv
      <4>2. kind'[f] = kind[f] /\ context'[f] = context[f] /\ caller'[f] = caller[f]
        BY <2>6, <3>2, <4>1
      <4> QED BY <1>0, <2>8, <2>9, <4>1, <4>2 DEF ThreadInv
    <3> QED BY <3>1, <3>2
  <2>14. \A f \in Threads : caller'[f] # None => caller'[f] < f /\ caller'[f] \in Born'
    BY <1>0, <1>00, <2>2, <2>6, <2>10 DEF ThreadInv
  <2>15. \A v \in Born', x \in Threads : x < v => x \in Born'
    BY <1>0, <1>00, <2>5, <2>6 DEF ThreadInv
  <2> QED BY <2>11, <2>12, <2>13, <2>14, <2>15 DEF ThreadInv
<1> QED BY <1>1, <1>2, <1>3, <1>4, <1>5, <1>6, <1>7, <1>8, <1>9, <1>10, <1>11, <1>12, <1>13, <1>14
       DEF Next, AppStep, ThreadStep, TimerStep

\* The i-th function is one of the first m from before; it is abort() of a thread
\* in S.
Old(i, m) == i \in 1..m /\ stack'[i] = stack[i]
NewAbort(i, S) == \E u \in S : stack'[i] = Fn("abort", u)

LEMMA AbortsFrames ==
  ASSUME Depth \in Nat, NEW m \in Nat, NEW n \in Nat, NEW S, Same(m), Aborts(n, S), n > m
  PROVE  /\ Depth' \in Nat /\ Depth' >= n - 1
         /\ \A i \in 1..Depth' : Old(i, m) \/ i \in (m + 1)..(n - 1) \/ (i >= n /\ NewAbort(i, S))
<1>1. /\ Depth' \in Nat /\ Depth' >= n - 1 /\ stack' \in Seq(Frames) /\ Depth' = Len(stack')
      /\ \A i \in 1..m : stack'[i] = stack[i]
      /\ \A i \in n..Depth' : stack'[i].fn = "abort" /\ stack'[i].t \in S
  BY DEF Same, Aborts, Depth
<1>2. ASSUME NEW i \in 1..Depth'
      PROVE  Old(i, m) \/ i \in (m + 1)..(n - 1) \/ (i >= n /\ NewAbort(i, S))
  <2>1. CASE i \in n..Depth'
    <3>1. stack'[i] \in Frames
      BY <1>1
    <3>2. stack'[i] = Fn(stack'[i].fn, stack'[i].t)
      BY <3>1 DEF Frames, Fn
    <3> QED BY <1>1, <2>1, <3>2 DEF NewAbort
  <2>2. CASE i \in 1..m
    BY <1>1, <2>2 DEF Old
  <2>3. i \in n..Depth' \/ i \in 1..m \/ i \in (m + 1)..(n - 1)
    BY <1>1
  <2> QED BY <2>1, <2>2, <2>3
<1> QED BY <1>1, <1>2

LEMMA StopFrames ==
  ASSUME Lists, Stop
  PROVE  /\ Depth \in Nat /\ Depth' \in Nat /\ Depth' >= Depth + 1
         /\ \A i \in 1..Depth' : \/ Old(i, Depth)
                                 \/ i = Depth + 1 /\ stack'[i] = Fn("abortRelated", None)
                                 \/ i > Depth + 1 /\ NewAbort(i, MainThreads)
<1>1. Depth \in Nat
  BY DEF Lists, Depth
<1>2. Same(Depth) /\ Aborts(Depth + 2, MainThreads) /\ stack'[Depth + 1] = Fn("abortRelated", None)
  BY StopEffect
<1>3. PICK n : n = Depth + 2
  OBVIOUS
<1>4. n \in Nat /\ n > Depth /\ Aborts(n, MainThreads) /\ n - 1 = Depth + 1
  BY <1>1, <1>2, <1>3
<1>5. /\ Depth' \in Nat /\ Depth' >= n - 1
      /\ \A i \in 1..Depth' : Old(i, Depth) \/ i \in (Depth + 1)..(n - 1) \/ (i >= n /\ NewAbort(i, MainThreads))
  BY <1>1, <1>2, <1>4, AbortsFrames
<1> HIDE DEF Old, NewAbort
<1> QED BY <1>1, <1>2, <1>3, <1>4, <1>5

LEMMA ExecuteFrames ==
  ASSUME Lists, NEW t \in Threads, NEW mode \in RunModes, Execute(t, mode)
  PROVE  /\ Depth \in Nat /\ Depth' \in Nat /\ Depth' >= Depth + 1
         /\ \A i \in 1..Depth' : \/ Old(i, Depth)
                                 \/ i = Depth + 1 /\ stack'[i] = Fn("enter", t)
                                 \/ /\ i = Depth + 2 /\ stack'[i] = Fn("abortRelated", None)
                                    /\ "stoprunning" \in mode
                                 \/ i > Depth + 2 /\ NewAbort(i, MainThreads) /\ "stoprunning" \in mode
<1>1. Depth \in Nat
  BY DEF Lists, Depth
<1>2. CASE "stoprunning" \in mode
  <2>2. /\ Same(Depth) /\ Aborts(Depth + 3, MainThreads)
        /\ stack'[Depth + 1] = Fn("enter", t) /\ stack'[Depth + 2] = Fn("abortRelated", None)
    BY <1>2, ExecuteEffect
  <2>3. PICK n : n = Depth + 3
    OBVIOUS
  <2>4. n \in Nat /\ n > Depth /\ Aborts(n, MainThreads) /\ n - 1 = Depth + 2
    BY <1>1, <2>2, <2>3
  <2>5. /\ Depth' \in Nat /\ Depth' >= n - 1
        /\ \A i \in 1..Depth' : Old(i, Depth) \/ i \in (Depth + 1)..(n - 1) \/ (i >= n /\ NewAbort(i, MainThreads))
    BY <1>1, <2>2, <2>4, AbortsFrames
  <2> HIDE DEF Old, NewAbort
  <2>6. \A i \in (Depth + 1)..(n - 1) : i = Depth + 1 \/ i = Depth + 2
    BY <1>1, <2>4
  <2>7. \A i \in 1..Depth' : i >= n => i > Depth + 2
    BY <1>1, <2>3
  <2> QED BY <1>1, <1>2, <2>2, <2>4, <2>5, <2>6, <2>7
<1>3. CASE "stoprunning" \notin mode
  <2>1. Adds1(Fn("enter", t))
    BY <1>3, ExecuteEffect
  <2> QED BY <1>1, <2>1 DEF Adds1, Same, Old
<1> QED BY <1>2, <1>3

LEMMA AbortRelatedFrames ==
  ASSUME Lists, NEW t \in 0..MaxThreads, AbortRelated(t)
  PROVE  /\ On("abortRelated", t) /\ Depth' \in Nat /\ Depth' >= Depth - 1
         /\ \A i \in 1..Depth' : \/ Old(i, Depth - 1)
                                 \/ i >= Depth /\ NewAbort(i, {u \in Listed : context[u] # Main /\ u # t})
<1>1. /\ On("abortRelated", t) /\ Same(Depth - 1)
      /\ Aborts(Depth, {u \in Listed : context[u] # Main /\ u # t})
  BY AbortRelatedEffect
<1>2. PICK S : S = {u \in Listed : context[u] # Main /\ u # t}
  OBVIOUS
<1>3. PICK m : m = Depth - 1
  OBVIOUS
<1>4. m \in Nat /\ Depth \in Nat /\ Depth > m /\ Same(m) /\ Aborts(Depth, S) /\ m + 1 = Depth
  BY <1>1, <1>2, <1>3 DEF On
<1>5. /\ Depth' \in Nat /\ Depth' >= Depth - 1
      /\ \A i \in 1..Depth' : Old(i, m) \/ i \in (m + 1)..(Depth - 1) \/ (i >= Depth /\ NewAbort(i, S))
  BY <1>4, AbortsFrames
<1> HIDE DEF Old, NewAbort
<1> QED BY <1>1, <1>2, <1>3, <1>4, <1>5

LEMMA AbortFunctionFrames ==
  ASSUME Lists, NEW t \in Threads, AbortFunction(t)
  PROVE  /\ On("abort", t) /\ Depth' \in Nat /\ Depth' >= Depth - 1
         /\ \A i \in 1..Depth' : \/ Old(i, Depth - 1)
                                 \/ i >= Depth /\ NewAbort(i, {u \in Listed : context[u] = Callee(t)})
<1>1. /\ On("abort", t) /\ Same(Depth - 1)
      /\ Aborts(Depth, {u \in Listed : context[u] = Callee(t)})
  BY AbortFunctionEffect
<1>2. PICK S : S = {u \in Listed : context[u] = Callee(t)}
  OBVIOUS
<1>3. PICK m : m = Depth - 1
  OBVIOUS
<1>4. m \in Nat /\ Depth \in Nat /\ Depth > m /\ Same(m) /\ Aborts(Depth, S) /\ m + 1 = Depth
  BY <1>1, <1>2, <1>3 DEF On
<1>5. /\ Depth' \in Nat /\ Depth' >= Depth - 1
      /\ \A i \in 1..Depth' : Old(i, m) \/ i \in (m + 1)..(Depth - 1) \/ (i >= Depth /\ NewAbort(i, S))
  BY <1>4, AbortsFrames
<1> HIDE DEF Old, NewAbort
<1> QED BY <1>1, <1>2, <1>3, <1>4, <1>5

LEMMA StepAbortOthersFrames ==
  ASSUME Lists, NEW t \in Threads, StepAbortOthers(t)
  PROVE  /\ On("step", t) /\ Depth' \in Nat /\ Depth' >= Depth + 2
         /\ \A i \in 1..Depth' : \/ Old(i, Depth - 1)
                                 \/ i = Depth /\ stack'[i] = Fn("stepped", t)
                                 \/ i = Depth + 1 /\ stack'[i] = Fn("return", t)
                                 \/ i = Depth + 2 /\ stack'[i] = Fn("abortRelated", t)
                                 \/ i > Depth + 2 /\ NewAbort(i, MainThreads \ {t})
<1>1. /\ On("step", t)
      /\ Same(Depth - 1) /\ Aborts(Depth + 3, MainThreads \ {t})
      /\ stack'[Depth] = Fn("stepped", t)
      /\ stack'[Depth + 1] = Fn("return", t)
      /\ stack'[Depth + 2] = Fn("abortRelated", t)
  BY StepAbortOthersEffect
<1>2. PICK S : S = MainThreads \ {t}
  OBVIOUS
<1>3. PICK m : m = Depth - 1
  OBVIOUS
<1>6. PICK n : n = Depth + 3
  OBVIOUS
<1>4. m \in Nat /\ Depth \in Nat /\ n \in Nat /\ n > m /\ Same(m) /\ Aborts(n, S) /\ m + 1 = Depth
      /\ n - 1 = Depth + 2
  BY <1>1, <1>2, <1>3, <1>6 DEF On
<1>5. /\ Depth' \in Nat /\ Depth' >= n - 1
      /\ \A i \in 1..Depth' : Old(i, m) \/ i \in (m + 1)..(n - 1) \/ (i >= n /\ NewAbort(i, S))
  BY <1>4, AbortsFrames
<1>7. \A i \in (m + 1)..(n - 1) : i = Depth \/ i = Depth + 1 \/ i = Depth + 2
  BY <1>4
<1>8. \A i \in 1..Depth' : i >= n => i > Depth + 2
  BY <1>4, <1>6
<1> HIDE DEF Old, NewAbort
<1> QED BY <1>1, <1>2, <1>3, <1>4, <1>5, <1>7, <1>8

LEMMA PopsFrames ==
  ASSUME Depth \in Nat \ {0}, Pops
  PROVE  /\ Depth' = Depth - 1
         /\ \A i \in 1..Depth' : Old(i, Depth - 1)
<1>1. /\ Depth' = Depth - 1 /\ \A i \in 1..(Depth - 1) : stack'[i] = stack[i]
  BY DEF Pops, Same
<1>2. ASSUME NEW i \in 1..Depth'
      PROVE  i \in 1..(Depth - 1)
  BY <1>1
<1>3. \A i \in 1..(Depth - 1) : Old(i, Depth - 1)
  BY <1>1 DEF Old
<1> QED BY <1>1, <1>2, <1>3

LEMMA Becomes1Frames ==
  ASSUME Depth \in Nat \ {0}, NEW a, Becomes1(a)
  PROVE  /\ Depth' = Depth
         /\ \A i \in 1..Depth' : \/ Old(i, Depth - 1)
                                 \/ i = Depth /\ stack'[i] = a
<1>1. /\ Depth' = Depth /\ \A i \in 1..(Depth - 1) : stack'[i] = stack[i]
      /\ stack'[Depth] = a
  BY DEF Becomes1, Same
<1>2. ASSUME NEW i \in 1..Depth'
      PROVE  i \in 1..(Depth - 1) \/ i = Depth
  BY <1>1
<1>3. \A i \in 1..(Depth - 1) : Old(i, Depth - 1)
  BY <1>1 DEF Old
<1> QED BY <1>1, <1>2, <1>3

LEMMA Becomes2Frames ==
  ASSUME Depth \in Nat \ {0}, NEW a, NEW b, Becomes2(a, b)
  PROVE  /\ Depth' = Depth + 1
         /\ \A i \in 1..Depth' : \/ Old(i, Depth - 1)
                                 \/ i = Depth /\ stack'[i] = b
                                 \/ i = Depth + 1 /\ stack'[i] = a
<1>1. /\ Depth' = Depth + 1 /\ \A i \in 1..(Depth - 1) : stack'[i] = stack[i]
      /\ stack'[Depth] = b /\ stack'[Depth + 1] = a
  BY DEF Becomes2, Same
<1>2. ASSUME NEW i \in 1..Depth'
      PROVE  i \in 1..(Depth - 1) \/ i = Depth \/ i = Depth + 1
  BY <1>1
<1>3. \A i \in 1..(Depth - 1) : Old(i, Depth - 1)
  BY <1>1 DEF Old
<1> QED BY <1>1, <1>2, <1>3

LEMMA Becomes3Frames ==
  ASSUME Depth \in Nat \ {0}, NEW a, NEW b, NEW c, Becomes3(a, b, c)
  PROVE  /\ Depth' = Depth + 2
         /\ \A i \in 1..Depth' : \/ Old(i, Depth - 1)
                                 \/ i = Depth /\ stack'[i] = c
                                 \/ i = Depth + 1 /\ stack'[i] = b
                                 \/ i = Depth + 2 /\ stack'[i] = a
<1>1. /\ Depth' = Depth + 2 /\ \A i \in 1..(Depth - 1) : stack'[i] = stack[i]
      /\ stack'[Depth] = c /\ stack'[Depth + 1] = b /\ stack'[Depth + 2] = a
  BY DEF Becomes3, Same
<1>2. ASSUME NEW i \in 1..Depth'
      PROVE  i \in 1..(Depth - 1) \/ i = Depth \/ i = Depth + 1 \/ i = Depth + 2
  BY <1>1
<1>3. \A i \in 1..(Depth - 1) : Old(i, Depth - 1)
  BY <1>1 DEF Old
<1> QED BY <1>1, <1>2, <1>3

\* Threads that are not yet started stay so but for those in X; the functions that
\* become under way are none of theirs.
LEMMA StartInvStays ==
  ASSUME StartInv, FramesInv, Depth \in Nat, Depth' \in Nat, Waiting \subseteq Threads, NEW X,
         \A u \in Threads : u \notin X /\ Unstarted(u) => Unstarted(u)' /\ context'[u] = context[u],
         \A u \in Threads : u \notin Born' => u \notin Born /\ u \notin X,
         \A u \in Waiting' : u \in Waiting /\ u \notin X,
         \A i \in 1..Depth' :
            \/ i \in 1..Depth /\ stack'[i] = stack[i] /\ (stack[i].fn = "enter" => stack[i].t \notin X)
            \/ /\ stack'[i].fn # "enter"
               /\ \/ stack'[i].t \in X \/ stack'[i].t \notin Threads \/ ~Unstarted(stack'[i].t)
                  \/ Depth > 0 /\ stack[Depth].t = stack'[i].t /\ stack[Depth].fn # "enter"
  PROVE  StartInv'
<1> HIDE DEF Unstarted
<1>1. ASSUME NEW u \in Threads, u \notin Born'
      PROVE  Unstarted(u)'
  BY <1>1 DEF StartInv
<1>2. ASSUME NEW u \in Waiting'
      PROVE  (Unstarted(u) /\ context[u] = Main /\ \A i \in 1..Depth : stack[i].t # u)'
  <2>1. u \in Waiting /\ u \notin X /\ u \in Threads
    OBVIOUS
  <2>2. Unstarted(u) /\ context[u] = Main /\ \A i \in 1..Depth : stack[i].t # u
    BY <2>1 DEF StartInv
  <2>3. ASSUME NEW i \in 1..Depth'
        PROVE  stack'[i].t # u
    <3>1. Depth > 0 => stack[Depth].t # u
      BY <2>2
    <3> QED BY <2>1, <2>2, <3>1
  <2> QED BY <2>1, <2>2, <2>3
<1>3. ASSUME NEW i \in 1..Depth', stack'[i].fn = "enter"
      PROVE  (/\ Unstarted(stack[i].t) /\ context[stack[i].t] = Main /\ stack[i].t \notin Waiting
              /\ \A j \in 1..Depth : j # i => stack[j].t # stack[i].t)'
  <2>1. i \in 1..Depth /\ stack'[i] = stack[i] /\ stack[i].fn = "enter" /\ stack[i].t \notin X
    BY <1>3
  <2>2. PICK u : u = stack[i].t
    OBVIOUS
  <2>3. u \in Threads
    BY <2>1, <2>2 DEF FramesInv, Fn, Born
  <2>4. Unstarted(u) /\ context[u] = Main /\ u \notin Waiting /\ \A j \in 1..Depth : j # i => stack[j].t # u
    BY <2>1, <2>2 DEF StartInv
  <2>5. ASSUME NEW j \in 1..Depth', j # i
        PROVE  stack'[j].t # u
    <3>1. Depth > 0 /\ stack[Depth].fn # "enter" => stack[Depth].t # u
      BY <2>1, <2>4
    <3> QED BY <2>1, <2>2, <2>3, <2>4, <2>5, <3>1
  <2> QED BY <2>1, <2>2, <2>3, <2>4, <2>5
<1> QED BY <1>1, <1>2, <1>3 DEF StartInv


\* A function that is put on the stack is one of which as much is known.
KnownNow(f) == \E fn, v : f = Fn(fn, v) /\ Knows(fn, v)'

\* What is known of the functions that were there stays known; of the new ones it is
\* known as well.
LEMMA FrameInvStays ==
  ASSUME FrameInv, Depth \in Nat, Depth' \in Nat, NEW m \in 0..Depth,
         \A i \in 1..m : stack[i].fn # "complete",
         \A i \in 1..m : \A fn, v :
            fn = stack[i].fn /\ v = stack[i].t /\ Knows(fn, v) => Knows(fn, v)',
         \A i \in 1..Depth' : Old(i, m) \/ KnownNow(stack'[i]),
         \A i \in 1..Depth' :
            \/ Old(i, m) \/ stack'[i].fn # "complete"
            \/ \A j \in 1..(i - 1) : stack'[j].t = stack'[i].t => stack'[j].fn \notin GoesOn
  PROVE  FrameInv'
<1> SUFFICES ASSUME NEW i \in 1..Depth'
             PROVE  (/\ Knows(stack[i].fn, stack[i].t)
                     /\ stack[i].fn = "complete" =>
                          \A j \in 1..(i - 1) : stack[j].t = stack[i].t => stack[j].fn \notin GoesOn)'
  BY DEF FrameInv
<1>1. PICK fn : fn = stack'[i].fn
  OBVIOUS
<1>2. PICK v : v = stack'[i].t
  OBVIOUS
<1>3. CASE Old(i, m)
  <2>1. i \in 1..m /\ i \in 1..Depth /\ stack'[i] = stack[i]
    BY <1>3 DEF Old
  <2>2. Knows(fn, v)
    BY <1>1, <1>2, <2>1 DEF FrameInv
  <2>3. Knows(fn, v)'
    BY <1>1, <1>2, <2>1, <2>2
  <2> QED BY <1>1, <1>2, <2>1, <2>3 DEF Knows
<1>4. CASE ~Old(i, m)
  <2>1. Knows(fn, v)'
    <3>1. PICK g, w : stack'[i] = Fn(g, w) /\ Knows(g, w)'
      BY <1>4 DEF KnownNow
    <3>2. g = fn /\ w = v
      BY <1>1, <1>2, <3>1 DEF Fn
    <3> HIDE DEF Knows
    <3> QED BY <3>1, <3>2
  <2> QED BY <1>1, <1>2, <1>4, <2>1 DEF Knows
<1> QED BY <1>3, <1>4

\* No function that goes on with a thread lies below one that steps it, or that is
\* to step it as it is not being stepped.
LEMMA NoneGoesOn ==
  ASSUME ShapeInv, ExecInv, NEW t \in Threads, Depth \in Nat \ {0},
         t \notin resuming \/ On("step", t) \/ On("stepped", t), NEW j \in 1..(Depth - 1), stack[j].t = t
  PROVE  stack[j].fn \notin GoesOn \cup {"step", "stepped"}
<1>1. j \in 1..Depth /\ ShapeAt(j) /\ j < Depth
  BY DEF ShapeInv
<1>2. ~Executes(j, t)
  BY <1>1 DEF ExecInv, Executes, On, Fn
<1>3. ASSUME stack[j].fn \in GoesOn
      PROVE  FALSE
  <2>1. j > 1 /\ stack[j - 1] = Fn("stepped", t)
    BY <1>1, <1>3 DEF ShapeAt, GoesOn
  <2>2. PICK h : h = j - 1
    OBVIOUS
  <2>3. h \in 1..Depth /\ h # Depth /\ stack[h] = Fn("stepped", t)
    BY <1>1, <2>1, <2>2
  <2>4. Executes(h, t)
    BY <2>3 DEF Executes, Fn
  <2> QED BY <2>3, <2>4 DEF ExecInv, Executes, On, Fn
<1> QED BY <1>1, <1>2, <1>3 DEF Executes

\* abort() of a running thread is called while nothing else of it is under way.
LEMMA NoneBelow ==
  ASSUME ClearInv, NEW t \in Threads, On("abort", t), t \in running,
         NEW i \in 1..(Depth - 1), stack[i].t = t
  PROVE  stack[i].fn = "abort"
<1>1. t \notin Awaited(Depth)
  BY DEF ClearInv, ClearAt, On, Fn
<1>2. t \notin Below(Depth)
  BY <1>1 DEF Awaited, WithCallers
<1> QED BY <1>2 DEF Below

\* What is said of the calls of threads that a step is not about stays true.
LEMMA CallInvStays ==
  ASSUME CallInv, Depth \in Nat, Depth' \in Nat, NEW m \in 0..Depth, NEW X,
         \A i \in 1..m : i \in 1..Depth' /\ stack'[i] = stack[i],
         \A i \in (m + 1)..Depth : stack[i].t \in X \/ stack[i].fn \notin GoesOn \cup {"step", "complete"},
         \A v \in Threads \ X :
            /\ (v \in running') = (v \in running) /\ (v \in slice') = (v \in slice)
            /\ (v \in resumed') = (v \in resumed) /\ (v \in resuming') = (v \in resuming)
            /\ call'[v] = call[v],
         \A v \in Threads \ X : \A f \in reports :
            caller[f] = v /\ kind[f] = call[v] => f \in reports' /\ caller'[f] = caller[f] /\ kind'[f] = kind[f],
         \A v \in Threads : v \in X => CallAt(v)'
  PROVE  CallInv'
<1> SUFFICES ASSUME NEW v \in Threads, v \notin X PROVE CallAt(v)'
  BY DEF CallInv
<1>1. CallAt(v)
  BY DEF CallInv
<1>2. /\ (v \in running') = (v \in running) /\ (v \in slice') = (v \in slice)
      /\ (v \in resumed') = (v \in resumed) /\ (v \in resuming') = (v \in resuming)
      /\ call'[v] = call[v]
  OBVIOUS
<1>3. ASSUME NEW i \in 1..Depth, stack[i].t = v, stack[i].fn \in GoesOn \cup {"step", "complete"}
      PROVE  i \in 1..Depth' /\ stack'[i] = stack[i]
  <2>1. i \in 1..m \/ i \in (m + 1)..Depth
    OBVIOUS
  <2> QED BY <1>3, <2>1
<1>4. call[v] = "builtin" => \E i \in 1..Depth' : stack'[i] = Fn("return", v)
  <2> SUFFICES ASSUME call[v] = "builtin" PROVE \E i \in 1..Depth' : stack'[i] = Fn("return", v)
    OBVIOUS
  <2>1. PICK i \in 1..Depth : stack[i] = Fn("return", v)
    BY <1>1 DEF CallAt
  <2>2. i \in 1..Depth' /\ stack'[i] = stack[i]
    BY <1>3, <2>1 DEF Fn, GoesOn
  <2> QED BY <2>1, <2>2
<1>5. GoesOnWith(v) => GoesOnWith(v)'
  <2> SUFFICES ASSUME GoesOnWith(v) PROVE GoesOnWith(v)'
    OBVIOUS
  <2>1. PICK i \in 1..Depth : stack[i].t = v /\ stack[i].fn \in {"resume", "store", "step", "complete"}
    BY DEF GoesOnWith
  <2>2. i \in 1..Depth' /\ stack'[i] = stack[i]
    BY <1>3, <2>1 DEF GoesOn
  <2> QED BY <2>1, <2>2 DEF GoesOnWith
<1>6. call[v] \in {"function", "eval"} => \E f \in reports' : caller'[f] = v /\ kind'[f] = call[v]
  <2> SUFFICES ASSUME call[v] \in {"function", "eval"}
               PROVE  \E f \in reports' : caller'[f] = v /\ kind'[f] = call[v]
    OBVIOUS
  <2>1. PICK f \in reports : caller[f] = v /\ kind[f] = call[v]
    BY <1>1 DEF CallAt
  <2> QED BY <2>1
<1> QED BY <1>1, <1>2, <1>4, <1>5, <1>6 DEF CallAt

\* What is said of aborted threads that a step is not about stays true.
LEMMA AbortInvStays ==
  ASSUME AbortInv, Depth \in Nat, Depth' \in Nat, NEW m \in 0..Depth, NEW X,
         \A f \in reports : kind[f] = "function" => f \in running,
         \A i \in 1..m : i \in 1..Depth' /\ stack'[i] = stack[i],
         \A i \in (m + 1)..Depth : stack[i].fn = "abort" => stack[i].t \in aborted' \/ stack[i].t \notin running,
         aborted \subseteq aborted',
         \A v \in (aborted' \cap running') \ X :
            /\ v \in aborted /\ v \in running /\ (v \in resuming' => v \in resuming)
            /\ call'[v] = call[v]
            /\ Depth > 0 => stack[Depth] \notin {Fn("complete", v), Fn("resume", v)},
         \A v \in (aborted' \cap running') \ X : \A f \in reports :
            caller[f] = v /\ kind[f] = call[v] => f \in reports' /\ caller'[f] = caller[f] /\ kind'[f] = kind[f],
         \A v \in aborted' \cap running' : v \in X => v \notin resuming' /\ AbortAt(v)'
  PROVE  AbortInv'
<1> SUFFICES ASSUME NEW v \in aborted' \cap running', v \notin X PROVE v \notin resuming' /\ AbortAt(v)'
  BY DEF AbortInv
<1>1. /\ v \in aborted /\ v \in running /\ (v \in resuming' => v \in resuming)
      /\ call'[v] = call[v]
      /\ Depth > 0 => stack[Depth] \notin {Fn("complete", v), Fn("resume", v)}
  OBVIOUS
<1>2. v \notin resuming /\ AbortAt(v)
  BY <1>1 DEF AbortInv
<1>3. call[v] = "function"
  BY <1>1, <1>2 DEF AbortAt
<1>4. PICK f \in reports : /\ caller[f] = v /\ kind[f] = "function"
                           /\ f \in aborted \/ \E i \in 1..Depth : stack[i] = Fn("abort", f)
  BY <1>1, <1>2 DEF AbortAt
<1>5. f \in reports' /\ caller'[f] = v /\ kind'[f] = "function" /\ f \in running
  BY <1>3, <1>4
<1>6. f \in aborted' \/ \E i \in 1..Depth' : stack'[i] = Fn("abort", f)
  <2>1. CASE f \in aborted
    BY <2>1
  <2>2. ASSUME NEW i \in 1..Depth, stack[i] = Fn("abort", f)
        PROVE  f \in aborted' \/ \E j \in 1..Depth' : stack'[j] = Fn("abort", f)
    <3>1. i \in 1..m \/ i \in (m + 1)..Depth
      OBVIOUS
    <3>2. CASE i \in 1..m
      BY <2>2, <3>2
    <3>3. CASE i \in (m + 1)..Depth
      BY <1>5, <2>2, <3>3 DEF Fn
    <3> QED BY <3>1, <3>2, <3>3
  <2> QED BY <1>4, <2>1, <2>2
<1>7. call'[v] = "function"
  BY <1>1, <1>3
<1> QED BY <1>1, <1>2, <1>5, <1>6, <1>7 DEF AbortAt

\* A thread that runs is not executing when abort() of it is called.
LEMMA NotExecuting ==
  ASSUME ClearInv, ExecInv, NEW t \in Threads, On("abort", t), t \in running
  PROVE  t \notin resuming
<1> SUFFICES ASSUME t \in resuming PROVE FALSE
  OBVIOUS
<1>1. PICK i : Executes(i, t)
  BY DEF ExecInv
<1>2. i \in 1..Depth /\ i # Depth /\ stack[i].t = t /\ stack[i].fn # "abort"
  BY <1>1 DEF Executes, On, Fn
<1>3. i \in 1..(Depth - 1)
  BY <1>2 DEF On
<1> QED BY <1>2, <1>3, NoneBelow

\* The threads of P are among those that wait for them, and with a thread that waits
\* goes the one that has called its function.
LEMMA WithCallersCloses ==
  ASSUME NEW P, NEW v \in WithCallers(P), NEW f \in reports,
         context[v] = f, kind[f] = "function", caller[f] \in Threads
  PROVE  caller[f] \in WithCallers(P)
<1> SUFFICES ASSUME NEW S \in SUBSET Threads, P \subseteq S, ClosedUnderCalls(S)
             PROVE  caller[f] \in S
  BY DEF WithCallers
<1>1. v \in S
  BY DEF WithCallers
<1> QED BY <1>1 DEF ClosedUnderCalls

\* No thread comes to wait for a function that was called before.
EdgesKeep ==
  \A v \in Born : \A f \in reports' : context'[v] = f /\ kind'[f] = "function" =>
     f \in reports /\ context[v] = f /\ kind[f] = "function" /\ caller'[f] = caller[f]

\* After a step no thread waits for those of P that did not wait before, but for
\* threads in X that no function was called for.
LEMMA WithCallersStay ==
  ASSUME EdgesKeep, ThreadInv, SetInv, NEW P, P \subseteq Born, NEW X, X \subseteq Threads,
         NEW Q, Q \subseteq P \cup X,
         \A v \in X : \A f \in reports' : ~(context'[v] = f /\ kind'[f] = "function")
  PROVE  WithCallers(Q)' \subseteq (WithCallers(P) \cap Born) \cup X
<1>1. PICK S : S = (WithCallers(P) \cap Born) \cup X
  OBVIOUS
<1>2. S \in SUBSET Threads
  BY <1>1 DEF Born
<1>3. P \subseteq WithCallers(P)
  BY DEF WithCallers, Born
<1>4. Q \subseteq S
  BY <1>1, <1>3
<1>5. ClosedUnderCalls(S)'
  <2> SUFFICES ASSUME NEW v \in S, NEW f \in reports', context'[v] = f, kind'[f] = "function"
               PROVE  caller'[f] \in S
    BY DEF ClosedUnderCalls
  <2>1. v \in WithCallers(P) /\ v \in Born
    BY <1>1
  <2>2. f \in reports /\ context[v] = f /\ kind[f] = "function" /\ caller'[f] = caller[f]
    BY <2>1 DEF EdgesKeep
  <2>3. f \in Born
    BY <2>2 DEF SetInv
  <2>4. caller[f] \in Born /\ caller[f] \in Threads
    BY <2>2, <2>3 DEF ThreadInv, Born
  <2>5. caller[f] \in WithCallers(P)
    BY <2>1, <2>2, <2>4, WithCallersCloses
  <2> QED BY <1>1, <2>2, <2>4, <2>5
<1>6. \A u \in WithCallers(Q)' : u \in S
  BY <1>2, <1>4, <1>5 DEF WithCallers
<1> QED BY <1>1, <1>6

\* Those awaited below a function, by the threads with functions below it.
LEMMA AwaitedNow ==
  ASSUME NEW i, NEW Q, Q = Below(i)'
  PROVE  Awaited(i)' = WithCallers(Q)'
BY DEF Awaited, WithCallers

LEMMA BelowIsBorn ==
  ASSUME FramesInv, Depth \in Nat, NEW i \in 1..(Depth + 1)
  PROVE  Below(i) \subseteq Born
<1> SUFFICES ASSUME NEW u \in Threads, NEW j \in 1..(i - 1), stack[j].t = u
             PROVE  u \in Born
  BY DEF Below
<1>1. j \in 1..Depth
  OBVIOUS
<1> QED BY <1>1, ThreadTypes DEF FramesInv, Fn

\* The functions that stay are as clear as before.
LEMMA ClearInvStays ==
  ASSUME ClearInv, EdgesKeep, ThreadInv, SetInv, FramesInv, Depth \in Nat, Depth' \in Nat, NEW m \in 0..Depth,
         \A i \in 1..m : i \in 1..Depth' /\ stack'[i] = stack[i],
         \A i \in 1..m : stack[i].fn = "abort" /\ stack[i].t \in running' => stack[i].t \in running,
         \A u \in Listed' \cap running' :
            context'[u] # Main => u \notin Born \/ (u \in Listed /\ u \in running /\ context[u] # Main),
         \A i \in 1..Depth' : i \in 1..m \/ ClearAt(i)'
  PROVE  ClearInv'
<1> SUFFICES ASSUME NEW i \in 1..m PROVE ClearAt(i)'
  BY DEF ClearInv
<1>1. i \in 1..Depth /\ stack'[i] = stack[i] /\ i \in 1..(Depth + 1)
  OBVIOUS
<1>2. ClearAt(i)
  BY <1>1 DEF ClearInv
<1>3. PICK Q : Q = Below(i)'
  OBVIOUS
<1>4. Q \subseteq Below(i)
  <2>1. \A j \in 1..(i - 1) : j \in 1..m
    OBVIOUS
  <2>2. \A j \in 1..(i - 1) : stack'[j] = stack[j]
    BY <2>1
  <2> QED BY <1>3, <2>2 DEF Below
<1>5. PICK P : P = Below(i)
  OBVIOUS
<1>6. P \subseteq Born
  BY <1>1, <1>5, BelowIsBorn
<1>7. PICK X : X = {}
  OBVIOUS
<1>8. WithCallers(Q)' \subseteq (WithCallers(P) \cap Born) \cup X
  BY <1>4, <1>5, <1>6, <1>7, WithCallersStay
<1>9. Awaited(i)' = WithCallers(Q)'
  BY <1>3, AwaitedNow
<1>10. Awaited(i) = WithCallers(P)
  BY <1>5 DEF Awaited
<1>11. \A u \in Awaited(i)' : u \in Awaited(i) /\ u \in Born
  BY <1>7, <1>8, <1>9, <1>10
<1> HIDE DEF Awaited
<1> QED BY <1>1, <1>2, <1>11 DEF ClearAt

\* A function put on the stack is clear when those below it are those from before that
\* are in P, or in X, and no thread that it is to abort waits for P.
LEMMA NewIsClear ==
  ASSUME EdgesKeep, ThreadInv, SetInv, NEW P, P \subseteq Born, NEW X, X \subseteq Threads,
         \A v \in X : \A f \in reports' : ~(context'[v] = f /\ kind'[f] = "function"),
         NEW i, Below(i)' \subseteq P \cup X,
         stack'[i].fn = "abort" /\ stack'[i].t \in running' => stack'[i].t \notin WithCallers(P) /\ stack'[i].t \notin X,
         stack'[i].fn = "abortRelated" =>
           \A u \in Listed' \cap running' : context'[u] # Main /\ u # stack'[i].t => u \notin WithCallers(P) /\ u \notin X
  PROVE  ClearAt(i)'
<1>1. PICK Q : Q = Below(i)'
  OBVIOUS
<1>2. Awaited(i)' = WithCallers(Q)'
  BY <1>1, AwaitedNow
<1>3. WithCallers(Q)' \subseteq (WithCallers(P) \cap Born) \cup X
  BY <1>1, WithCallersStay
<1> HIDE DEF Awaited
<1> QED BY <1>2, <1>3 DEF ClearAt

\* Those of the threads that may be aborted wait for none with functions under way.
LEMMA MayAbortMeans ==
  ASSUME AbortsOnStack = FALSE, NEW ts, MayAbort(ts), Depth \in Nat, stack \in Seq(Frames)
  PROVE  \A v \in ts : v \in running => v \notin WithCallers(Below(Depth + 1))
<1>1. DOMAIN stack = 1..((Depth + 1) - 1)
  BY DEF Depth
<1>2. OnStack = Below(Depth + 1)
  BY <1>1 DEF OnStack, Below
<1> QED BY <1>2 DEF MayAbort

\* The part of IInv that ties what is under way to what the threads are about.
WaysInv == FrameInv /\ CallInv /\ AbortInv /\ ClearInv /\ StartInv

\* Nothing is done to a thread, but for what is put on the stack.
Like(v) ==
  /\ (v \in running') = (v \in running) /\ (v \in slice') = (v \in slice)
  /\ (v \in resuming') = (v \in resuming) /\ (v \in resumed') = (v \in resumed)
  /\ (v \in Listed') = (v \in Listed) /\ call'[v] = call[v] /\ context'[v] = context[v]

\* A step does something to the threads in X only, and to those that they call.
Moves(X) ==
  /\ \A v \in Threads \ X : Like(v)
  /\ aborted \subseteq aborted' /\ aborted' \subseteq aborted \cup X
  /\ \A f \in reports : caller[f] \in Threads \ X /\ kind[f] = call[caller[f]] =>
       f \in reports' /\ caller'[f] = caller[f] /\ kind'[f] = kind[f]
  /\ \A f \in Threads : caller'[f] = caller[f] \/ caller'[f] \in X \cup {None}

\* It leaves the first m functions, and drops none of other threads but for abort()
\* that has been executed.
Stacks(X, m) ==
  /\ Depth \in Nat /\ Depth' \in Nat /\ m \in 0..Depth
  /\ \A i \in 1..m : i \in 1..Depth' /\ stack'[i] = stack[i] /\ stack[i].fn # "complete"
  /\ m = Depth /\ Depth > 0 => stack[Depth].fn # "resume"
  /\ \A i \in (m + 1)..Depth :
       /\ i = Depth
       /\ stack[i].t \in X \/ stack[i].fn \notin GoesOn \cup {"step", "complete"}
       /\ stack[i].fn = "abort" => stack[i].t \in aborted' \/ stack[i].t \notin running
  /\ \A i \in 1..m : stack[i].t \in X =>
       /\ \A fn, v : fn = stack[i].fn /\ v = stack[i].t /\ Knows(fn, v) => Knows(fn, v)'
       /\ stack[i].fn = "abort" /\ stack[i].t \in running' => stack[i].t \in running

\* What is said of a thread holds after the step.
Settled(v) ==
  /\ CallAt(v)'
  /\ v \in aborted' /\ v \in running' => v \notin resuming' /\ AbortAt(v)'
  /\ v \in Listed' /\ v \in running' /\ context'[v] # Main =>
       v \notin Born \/ (v \in Listed /\ v \in running /\ context[v] # Main)

\* A new function is one of which as much is known.
New(i) ==
  /\ KnownNow(stack'[i]) /\ ClearAt(i)'
  /\ stack'[i].fn = "complete" =>
       \A j \in 1..(i - 1) : stack'[j].t = stack'[i].t => stack'[j].fn \notin GoesOn

\* A step needs to be looked at only for what it says of the threads in X and of the
\* new functions.
LEMMA StepKeeps ==
  ASSUME IInv, SetInv', EdgesKeep, NEW X, NEW m, Moves(X), Stacks(X, m),
         \A v \in X : Settled(v),
         \A i \in 1..Depth' : i \in 1..m \/ New(i)
  PROVE  FrameInv' /\ CallInv' /\ AbortInv' /\ ClearInv'
<1>0. /\ SetInv /\ FramesInv /\ ShapeInv /\ FrameInv /\ CallInv /\ AbortInv /\ ClearInv /\ ThreadInv
      /\ running' \subseteq Threads /\ aborted' \subseteq Threads /\ reports \subseteq Threads
  BY DEF IInv, DataInv, SetInv, Born
<1>1. /\ Depth \in Nat /\ Depth' \in Nat /\ m \in 0..Depth
      /\ \A i \in 1..m : i \in 1..Depth' /\ i \in 1..Depth /\ stack'[i] = stack[i] /\ stack[i].fn # "complete"
      /\ m = Depth /\ Depth > 0 => stack[Depth].fn # "resume"
      /\ \A i \in 1..m : stack[i].t \in X =>
           /\ \A fn, v : fn = stack[i].fn /\ v = stack[i].t /\ Knows(fn, v) => Knows(fn, v)'
           /\ stack[i].fn = "abort" /\ stack[i].t \in running' => stack[i].t \in running
  BY DEF Stacks
<1>2. \A i \in (m + 1)..Depth :
        /\ i = Depth
        /\ stack[i].t \in X \/ stack[i].fn \notin GoesOn \cup {"step", "complete"}
        /\ stack[i].fn = "abort" => stack[i].t \in aborted' \/ stack[i].t \notin running
  BY DEF Stacks
<1>3. /\ \A v \in Threads \ X : Like(v)
      /\ aborted \subseteq aborted' /\ aborted' \subseteq aborted \cup X
      /\ \A f \in reports : caller[f] \in Threads \ X /\ kind[f] = call[caller[f]] =>
           f \in reports' /\ caller'[f] = caller[f] /\ kind'[f] = kind[f]
  BY DEF Moves
<1>4. \A i \in 1..Depth' : i \in 1..m => Old(i, m)
  BY <1>1 DEF Old
<1>5. \A i \in 1..m : stack[i].t \in Threads \/ stack[i].fn = "abortRelated"
  BY <1>0, <1>1 DEF FramesInv, Fn, Born
<1>6. FrameInv'
  <2>1. \A i \in 1..m : \A fn, v :
           fn = stack[i].fn /\ v = stack[i].t /\ Knows(fn, v) => Knows(fn, v)'
    <3> SUFFICES ASSUME NEW i \in 1..m, NEW fn, NEW v, fn = stack[i].fn, v = stack[i].t, Knows(fn, v), v \notin X
                 PROVE  Knows(fn, v)'
      BY <1>1
    <3> QED BY <1>3, <1>5 DEF Knows, Like
  <2>2. \A i \in 1..Depth' : Old(i, m) \/ KnownNow(stack'[i])
    BY <1>4 DEF New
  <2>3. \A i \in 1..Depth' :
            \/ Old(i, m) \/ stack'[i].fn # "complete"
            \/ \A j \in 1..(i - 1) : stack'[j].t = stack'[i].t => stack'[j].fn \notin GoesOn
    BY <1>4 DEF New
  <2> QED BY <1>0, <1>1, <2>1, <2>2, <2>3, FrameInvStays
<1>7. CallInv'
  <2>1. /\ \A v \in Threads \ X :
            /\ (v \in running') = (v \in running) /\ (v \in slice') = (v \in slice)
            /\ (v \in resumed') = (v \in resumed) /\ (v \in resuming') = (v \in resuming)
            /\ call'[v] = call[v]
        /\ \A v \in Threads \ X : \A f \in reports :
             caller[f] = v /\ kind[f] = call[v] => f \in reports' /\ caller'[f] = caller[f] /\ kind'[f] = kind[f]
    BY <1>3 DEF Like
  <2>2. \A v \in Threads : v \in X => CallAt(v)'
    BY DEF Settled
  <2> QED BY <1>0, <1>1, <1>2, <2>1, <2>2, CallInvStays
<1>8. AbortInv'
  <2>1. \A v \in (aborted' \cap running') \ X :
            /\ v \in aborted /\ v \in running /\ (v \in resuming' => v \in resuming)
            /\ call'[v] = call[v]
            /\ Depth > 0 => stack[Depth] \notin {Fn("complete", v), Fn("resume", v)}
    <3> SUFFICES ASSUME NEW v \in (aborted' \cap running') \ X, Depth > 0,
                        stack[Depth] \in {Fn("complete", v), Fn("resume", v)}
                 PROVE  FALSE
      BY <1>0, <1>3 DEF Like
    <3>1. stack[Depth].t = v /\ stack[Depth].fn \in {"complete", "resume"}
      BY DEF Fn
    <3>2. Depth \in 1..m \/ Depth \in (m + 1)..Depth
      BY <1>1
    <3>3. v \in aborted /\ v \in running
      BY <1>0, <1>3 DEF Like
    <3> QED BY <1>1, <1>2, <3>1, <3>2, <3>3 DEF GoesOn
  <2>2. \A v \in (aborted' \cap running') \ X : \A f \in reports :
          caller[f] = v /\ kind[f] = call[v] => f \in reports' /\ caller'[f] = caller[f] /\ kind'[f] = kind[f]
    BY <1>0, <1>3
  <2>3. \A v \in aborted' \cap running' : v \in X => v \notin resuming' /\ AbortAt(v)'
    BY DEF Settled
  <2>5. \A i \in 1..m : i \in 1..Depth' /\ stack'[i] = stack[i]
    BY <1>1
  <2>6. \A i \in (m + 1)..Depth : stack[i].fn = "abort" => stack[i].t \in aborted' \/ stack[i].t \notin running
    BY <1>2
  <2>4. \A f \in reports : kind[f] = "function" => f \in running
    BY <1>0 DEF ThreadInv
  <2> QED BY <1>0, <1>1, <1>3, <2>1, <2>2, <2>3, <2>4, <2>5, <2>6, AbortInvStays
<1>9. ClearInv'
  <2>1. \A i \in 1..m : stack[i].fn = "abort" /\ stack[i].t \in running' => stack[i].t \in running
    BY <1>1, <1>3, <1>5 DEF Like
  <2>2. \A u \in Listed' \cap running' :
            context'[u] # Main => u \notin Born \/ (u \in Listed /\ u \in running /\ context[u] # Main)
    BY <1>0, <1>3 DEF Like, Settled
  <2>3. \A i \in 1..Depth' : i \in 1..m \/ ClearAt(i)'
    BY DEF New
  <2> QED BY <1>0, <1>1, <2>1, <2>2, <2>3, ClearInvStays
<1> QED BY <1>6, <1>7, <1>8, <1>9

\* Threads that have not been started stay so; those in X are started now, or have been.
LEMMA StartsKeep ==
  ASSUME IInv, NEW X, NEW m, Moves(X), Stacks(X, m), Born \subseteq Born', X \subseteq Born',
         \A u \in Waiting' : u \in Waiting /\ u \notin X,
         \A i \in 1..m : stack[i].fn = "enter" => stack[i].t \notin X,
         \A i \in 1..Depth' :
           \/ i \in 1..m
           \/ /\ stack'[i].fn # "enter"
              /\ stack'[i].t \in X \/ stack'[i].t \notin Threads \/ ~Unstarted(stack'[i].t)
  PROVE  StartInv'
<1>0. StartInv /\ FramesInv /\ Waiting \subseteq Threads /\ None \notin Threads
  BY ThreadTypes DEF IInv, DataInv, ListInv, Born
<1>1. \A u \in Threads : u \notin X /\ Unstarted(u) => Unstarted(u)' /\ context'[u] = context[u]
  <2> SUFFICES ASSUME NEW u \in Threads, u \notin X, Unstarted(u)
               PROVE  Unstarted(u)' /\ context'[u] = context[u]
    OBVIOUS
  <2>1. Like(u) /\ u \notin aborted'
    BY DEF Moves, Unstarted
  <2>2. \A f \in Threads : caller'[f] # u
    BY <1>0 DEF Moves, Unstarted
  <2> QED BY <2>1, <2>2 DEF Like, Unstarted
<1>2. \A i \in 1..Depth' :
        \/ i \in 1..Depth /\ stack'[i] = stack[i] /\ (stack[i].fn = "enter" => stack[i].t \notin X)
        \/ /\ stack'[i].fn # "enter"
           /\ stack'[i].t \in X \/ stack'[i].t \notin Threads \/ ~Unstarted(stack'[i].t)
  BY DEF Stacks
<1>3. \A u \in Threads : u \notin Born' => u \notin Born /\ u \notin X
  OBVIOUS
<1>4. Depth \in Nat /\ Depth' \in Nat
  BY DEF Stacks
<1> QED BY <1>0, <1>1, <1>2, <1>3, <1>4, StartInvStays

\* A step of thread t alone; it leaves functions of F upon the first m that were there,
\* be it a function of t on top, or its timer when nothing is under way.
OwnData(t) ==
  /\ UNCHANGED <<kind, caller, context, reports, queued>>
  /\ \A v \in Threads \ {t} : Like(v)
  /\ aborted' \in {aborted, aborted \cup {t}}
OwnStack(t, m, F) ==
  /\ Depth \in Nat /\ Depth' \in Nat /\ m \in 0..Depth
  /\ \/ Depth = 0 /\ ~Unstarted(t)
     \/ Depth > 0 /\ m = Depth - 1 /\ stack[Depth].t = t
  /\ \A i \in 1..m : i \in 1..Depth' /\ stack'[i] = stack[i]
  /\ \A i \in 1..Depth' : i \in 1..m \/ \E fn \in F : stack'[i] = Fn(fn, t)

LEMMA OwnStepKeeps ==
  ASSUME IInv, SetInv', NEW t \in Born, NEW m, NEW F, OwnData(t), OwnStack(t, m, F),
         F \subseteq GoesOn \cup {"step", "stepped", "complete"},
         \A fn \in F : Knows(fn, t)',
         \A i \in 1..m : \A fn : fn = stack[i].fn /\ stack[i].t = t /\ Knows(fn, t) => Knows(fn, t)',
         "complete" \in F =>
           F \cap GoesOn = {} /\ \A i \in 1..m : stack[i].t = t => stack[i].fn \notin GoesOn,
         t \in running' => t \in running \/ (Depth > 0 /\ stack[Depth].fn = "enter"),
         t \in Listed' => t \in Listed \/ context[t] = Main,
         CallAt(t)',
         t \in aborted' /\ t \in running' => t \notin resuming' /\ AbortAt(t)',
         Depth > 0 /\ stack[Depth].fn = "abort" => t \in aborted' \/ t \notin running
  PROVE  WaysInv'
<1>0. /\ ShapeInv /\ StartInv /\ ThreadInv /\ t \in Threads
  BY DEF IInv, Born
<1>1. /\ UNCHANGED <<kind, caller, context, reports, queued>>
      /\ \A v \in Threads \ {t} : Like(v)
      /\ aborted' \in {aborted, aborted \cup {t}}
      /\ Depth \in Nat /\ Depth' \in Nat /\ m \in 0..Depth
      /\ (Depth = 0 /\ ~Unstarted(t)) \/ (Depth > 0 /\ m = Depth - 1 /\ stack[Depth].t = t)
      /\ \A i \in 1..m : i \in 1..Depth' /\ stack'[i] = stack[i]
      /\ \A i \in 1..Depth' : i \in 1..m \/ \E fn \in F : stack'[i] = Fn(fn, t)
  BY DEF OwnData, OwnStack
<1>2. Born' = Born /\ Waiting' = Waiting
  BY <1>1 DEF Born, Waiting
<1>3. PICK X : X = {t}
  OBVIOUS
<1>4. Moves(X) /\ EdgesKeep
  BY <1>1, <1>3 DEF Moves, EdgesKeep
<1>5. \A i \in 1..m : i < Depth /\ stack[i].fn # "complete"
  BY <1>0, <1>1 DEF ShapeInv, ShapeAt
<1>6. Depth > 0 /\ stack[Depth].fn = "enter" =>
        context[t] = Main /\ \A i \in 1..m : stack[i].t # t
  BY <1>0, <1>1 DEF StartInv
<1>7. Stacks(X, m)
  <2>1. \A i \in (m + 1)..Depth : i = Depth /\ stack[i].t = t
    BY <1>1
  <2> QED BY <1>1, <1>3, <1>5, <1>6, <2>1 DEF Stacks
<1>8. \A v \in X : Settled(v)
  BY <1>1, <1>3, <1>6 DEF Settled
<1>9. ASSUME NEW i \in 1..Depth', i \notin 1..m
      PROVE  New(i) /\ stack'[i].t = t /\ stack'[i].fn # "enter"
  <2>1. PICK fn \in F : stack'[i] = Fn(fn, t) /\ stack'[i].fn = fn /\ stack'[i].t = t
    BY <1>1, <1>9 DEF Fn
  <2>2. KnownNow(stack'[i])
    BY <2>1 DEF KnownNow
  <2>3. ClearAt(i)'
    BY <2>1 DEF ClearAt, GoesOn
  <2>4. ASSUME fn = "complete", NEW j \in 1..(i - 1), stack'[j].t = t
        PROVE  stack'[j].fn \notin GoesOn
    <3>1. j \in 1..Depth'
      BY <1>1
    <3>2. j \in 1..m \/ \E g \in F : stack'[j].fn = g
      <4>1. \A g : Fn(g, t).fn = g
        BY DEF Fn
      <4> QED BY <1>1, <3>1, <4>1
    <3> QED BY <1>1, <2>4, <3>2
  <2> QED BY <2>1, <2>2, <2>3, <2>4 DEF New, GoesOn
<1>10. FrameInv' /\ CallInv' /\ AbortInv' /\ ClearInv'
  BY <1>4, <1>7, <1>8, <1>9, StepKeeps
<1>11. StartInv'
  <2>1. t \notin Waiting /\ \A i \in 1..m : stack[i].fn = "enter" => stack[i].t # t
    BY <1>0, <1>1, <1>5 DEF StartInv
  <2> QED BY <1>2, <1>3, <1>4, <1>7, <1>9, <2>1, StartsKeep
<1> QED BY <1>10, <1>11 DEF WaysInv

\* What is known of the thread whose function is on top.
LEMMA OnMeans ==
  ASSUME IInv, NEW t \in Threads, NEW fn, On(fn, t)
  PROVE  /\ t \in Born /\ Knows(fn, t) /\ CallAt(t) /\ Depth \in Nat \ {0}
         /\ stack[Depth].t = t /\ stack[Depth].fn = fn
         /\ fn \in {"step", "stepped"} => t \in resuming
         /\ t \in aborted /\ t \in running => fn \notin {"step", "stepped", "store", "return"}
         /\ \A i \in 1..(Depth - 1) : stack[i].fn \notin {"step", "complete"}
         /\ fn = "enter" =>
              /\ Unstarted(t) /\ context[t] = Main /\ t \notin Waiting
              /\ \A i \in 1..(Depth - 1) : stack[i].t # t
         /\ fn \in {"step", "stepped"} \/ t \notin resuming =>
              \A i \in 1..(Depth - 1) : stack[i].t = t => stack[i].fn \notin GoesOn \cup {"step", "stepped"}
         /\ fn = "return" =>
              \A i \in 1..(Depth - 1) : stack[i].t = t => stack[i].fn \notin GoesOn
         /\ fn = "abort" /\ t \in running =>
              t \notin resuming /\ \A i \in 1..(Depth - 1) : stack[i].t = t => stack[i].fn = "abort"
<1>0. /\ FramesInv /\ ShapeInv /\ ExecInv /\ FrameInv /\ CallInv /\ AbortInv /\ ClearInv /\ StartInv
      /\ Depth \in Nat \ {0} /\ stack[Depth].t = t /\ stack[Depth].fn = fn /\ stack[Depth] = Fn(fn, t)
  BY DEF IInv, On, Fn
<1>1. t \in Born /\ Knows(fn, t) /\ CallAt(t)
  BY <1>0, OnBorn DEF FrameInv, CallInv
<1>2. fn \in {"step", "stepped"} => t \in resuming
  BY <1>0 DEF ExecInv, Executes
<1>3. fn \in {"return", "store"} => Depth > 1 /\ stack[Depth - 1] = Fn("stepped", t)
  BY <1>0 DEF ShapeInv, ShapeAt
<1>4. fn \in {"return", "store"} => \E k \in 1..Depth : k = Depth - 1 /\ Executes(k, t)
  <2>1. PICK k : k = Depth - 1
    OBVIOUS
  <2> QED BY <1>0, <1>3, <2>1 DEF Executes, Fn
<1>5. t \in aborted /\ t \in running => fn \notin {"step", "stepped", "store", "return"}
  BY <1>0, <1>2, <1>4 DEF AbortInv, ExecInv
<1>6. fn = "enter" => /\ Unstarted(t) /\ context[t] = Main /\ t \notin Waiting
                      /\ \A i \in 1..(Depth - 1) : stack[i].t # t
  BY <1>0 DEF StartInv
<1>7. fn \in {"step", "stepped"} \/ t \notin resuming =>
        \A i \in 1..(Depth - 1) : stack[i].t = t => stack[i].fn \notin GoesOn \cup {"step", "stepped"}
  BY <1>0, NoneGoesOn
<1>8. ASSUME fn = "return", NEW i \in 1..(Depth - 1), stack[i].t = t, stack[i].fn \in GoesOn
      PROVE  FALSE
  <2>1. PICK k \in 1..Depth : k = Depth - 1 /\ Executes(k, t)
    BY <1>4, <1>8
  <2>2. i \in 1..Depth /\ i < Depth /\ i > 1 /\ stack[i - 1] = Fn("stepped", t)
    BY <1>0, <1>8 DEF ShapeInv, ShapeAt, GoesOn
  <2>3. PICK j : j = i - 1
    OBVIOUS
  <2>4. j \in 1..Depth /\ j # k /\ Executes(j, t)
    BY <1>0, <2>1, <2>2, <2>3 DEF Executes, Fn
  <2> QED BY <1>0, <2>1, <2>4 DEF ExecInv
<1>9. fn = "abort" /\ t \in running =>
        t \notin resuming /\ \A i \in 1..(Depth - 1) : stack[i].t = t => stack[i].fn = "abort"
  BY <1>0, NoneBelow, NotExecuting
<1>10. \A i \in 1..(Depth - 1) : stack[i].fn \notin {"step", "complete"}
  BY <1>0 DEF ShapeInv, ShapeAt
<1> QED BY <1>0, <1>1, <1>2, <1>5, <1>6, <1>7, <1>8, <1>9, <1>10

\* What a step of t alone leaves on the stack; the last of it is executed next.
OnTop(fn, t) == Depth \in Nat \ {0} /\ stack[Depth] = Fn(fn, t)

LEMMA OwnStackIs ==
  ASSUME Depth \in Nat, NEW t,
         (Depth = 0 /\ ~Unstarted(t)) \/ (Depth > 0 /\ stack[Depth].t = t)
  PROVE  /\ Depth > 0 /\ Pops => OwnStack(t, Depth - 1, {})
         /\ \A f : Depth > 0 /\ Becomes1(Fn(f, t)) => OwnStack(t, Depth - 1, {f}) /\ OnTop(f, t)'
         /\ \A f, g : Depth > 0 /\ Becomes2(Fn(f, t), Fn(g, t)) =>
              OwnStack(t, Depth - 1, {f, g}) /\ OnTop(f, t)'
         /\ \A f : Depth = 0 /\ Adds1(Fn(f, t)) => OwnStack(t, 0, {f}) /\ OnTop(f, t)'
<1>1. ASSUME Depth > 0, Pops PROVE OwnStack(t, Depth - 1, {})
  <2>1. Depth' = Depth - 1 /\ \A i \in 1..Depth' : Old(i, Depth - 1)
    BY <1>1, PopsFrames
  <2> QED BY <1>1, <2>1 DEF OwnStack, Old
<1>2. ASSUME NEW f, Depth > 0, Becomes1(Fn(f, t))
      PROVE  OwnStack(t, Depth - 1, {f}) /\ OnTop(f, t)'
  BY <1>2 DEF OwnStack, OnTop, Becomes1, Same
<1>3. ASSUME NEW f, NEW g, Depth > 0, Becomes2(Fn(f, t), Fn(g, t))
      PROVE  OwnStack(t, Depth - 1, {f, g}) /\ OnTop(f, t)'
  BY <1>3 DEF OwnStack, OnTop, Becomes2, Same
<1>4. ASSUME NEW f, Depth = 0, Adds1(Fn(f, t)) PROVE OwnStack(t, 0, {f}) /\ OnTop(f, t)'
  BY <1>4 DEF OwnStack, OnTop, Adds1, Same
<1> QED BY <1>1, <1>2, <1>3, <1>4

LEMMA OnTopMeans ==
  ASSUME NEW fn, NEW t, OnTop(fn, t)'
  PROVE  /\ fn \in {"resume", "store", "step", "complete"} => GoesOnWith(t)'
         /\ fn \in {"resume", "complete"} => AbortAt(t)'
         /\ \E i \in 1..Depth' : stack'[i] = Fn(fn, t)
<1>1. Depth' \in Nat \ {0} /\ Depth' \in 1..Depth' /\ stack'[Depth'] = Fn(fn, t)
  BY DEF OnTop
<1> QED BY <1>1 DEF GoesOnWith, AbortAt, Fn

\* The steps of one thread alone: what such a step does to its thread, and what
\* follows for that thread.
LEMMA OwnStepsKeep ==
  ASSUME IInv, SetInv', NEW t \in Threads
  PROVE  /\ EnterBusy(t) \/ EnterStarts(t) => WaysInv'
         /\ ResumeNested(t) \/ ResumeAborted(t) \/ ResumeLoop(t) \/ Stepped(t) => WaysInv'
         /\ TimeSlice(t) \/ StepEnds(t) \/ StepDelay(t) \/ StepAbortOwnChain(t) => WaysInv'
         /\ Store(t) \/ Return(t) \/ CallbackReturns(t) => WaysInv'
         /\ AbortEnded(t) \/ AbortAlone(t) \/ AbortBuiltin(t) => WaysInv'
         /\ SliceOver(t) \/ DelayOver(t) => WaysInv'
<1> USE DEF Step, BuiltinCalled, Starts, listVars, newVars, loopVars
<1>0. /\ Lists /\ TypeInv /\ ThreadInv /\ SetInv /\ CallInv /\ ShapeInv /\ AbortInv /\ Depth \in Nat
      /\ CallAt(t)
  BY DEF IInv, DataInv, Lists, Depth, CallInv
<1>1. ASSUME EnterBusy(t) \/ EnterStarts(t)
      PROVE  WaysInv'
  <2>1. On("enter", t) /\ Becomes1(Fn("resume", t))
    BY <1>0, <1>1, EnterBusyEffect, EnterStartsEffect
  <2>2. t \in Born /\ Unstarted(t) /\ context[t] = Main /\ \A i \in 1..(Depth - 1) : stack[i].t # t
    BY <2>1, OnMeans
  <2>3. OwnStack(t, Depth - 1, {"resume"}) /\ OnTop("resume", t)'
    BY <1>0, <2>1, OwnStackIs DEF On, Fn
  <2>4. OwnData(t)
    <3>1. Listed' \in {Listed, Listed \cup {t}}
      <4>1. threads' \in {threads, Append(threads, t)}
        BY <1>1 DEF EnterBusy, EnterStarts
      <4> QED BY <1>0, <2>2, <4>1, AppendElements DEF Listed, Lists, Unstarted
    <3> QED BY <1>1, <3>1 DEF EnterBusy, EnterStarts, OwnData, Like
  <2>5. running' = running \cup {t} /\ UNCHANGED <<call, slice, resumed, aborted>>
    BY <1>1 DEF EnterBusy, EnterStarts
  <2>6. Knows("resume", t)' /\ CallAt(t)'
    BY <2>2, <2>3, <2>5, OnTopMeans DEF Unstarted, Knows, CallAt
  <2> QED BY <2>1, <2>2, <2>3, <2>4, <2>5, <2>6, OwnStepKeeps DEF Unstarted, GoesOn, On, Fn
<1>2. ASSUME ResumeNested(t)
      PROVE  WaysInv'
  <2>1. On("resume", t) /\ Pops
    BY <1>0, <1>2, ResumeNestedEffect
  <2>2. t \in Born /\ Knows("resume", t) /\ OwnStack(t, Depth - 1, {})
    BY <1>0, <2>1, OnMeans, OwnStackIs
  <2>3. OwnData(t) /\ UNCHANGED <<running, aborted, call, slice, resuming, Listed>> /\ t \in resuming /\ t \in resumed'
    BY <1>2 DEF ResumeNested, OwnData, Like, Listed
  <2>4. CallAt(t)'
    BY <2>2, <2>3 DEF Knows, CallAt
  <2> QED BY <1>0, <2>1, <2>2, <2>3, <2>4, OwnStepKeeps DEF Knows, On, Fn, AbortInv
<1>3. ASSUME ResumeAborted(t)
      PROVE  WaysInv'
  <2>1. On("resume", t) /\ Becomes1(Fn("complete", t))
    BY <1>0, <1>3, ResumeAbortedEffect
  <2>2. /\ t \in Born /\ Knows("resume", t) /\ OwnStack(t, Depth - 1, {"complete"}) /\ OnTop("complete", t)'
        /\ t \notin resuming
        /\ \A i \in 1..(Depth - 1) : stack[i].t = t => stack[i].fn \notin GoesOn
    BY <1>0, <1>3, <2>1, OnMeans, OwnStackIs DEF ResumeAborted
  <2>3. OwnData(t) /\ UNCHANGED <<running, aborted, call, slice, resuming, resumed, Listed>>
    BY <1>3 DEF ResumeAborted, OwnData, Like, Listed
  <2>4. CallAt(t)' /\ AbortAt(t)'
    BY <1>0, <2>2, <2>3, OnTopMeans DEF Knows, CallAt
  <2> QED BY <2>1, <2>2, <2>3, <2>4, OwnStepKeeps DEF Knows, GoesOn, On, Fn
<1>4. ASSUME ResumeLoop(t)
      PROVE  WaysInv'
  <2>1. On("resume", t) /\ Becomes1(Fn("step", t))
    BY <1>0, <1>4, ResumeLoopEffect
  <2>2. t \in Born /\ Knows("resume", t) /\ OwnStack(t, Depth - 1, {"step"}) /\ OnTop("step", t)'
    <3>1. Depth \in Nat \ {0} /\ stack[Depth].t = t
      BY <1>0, <2>1, OnMeans
    <3>2. OwnStack(t, Depth - 1, {"step"}) /\ OnTop("step", t)'
      BY <2>1, <3>1, OwnStackIs
    <3> QED BY <1>0, <2>1, <3>2, OnMeans
  <2>3. OwnData(t) /\ UNCHANGED <<running, aborted, call, slice, resumed, Listed>> /\ t \notin aborted
    BY <1>4 DEF ResumeLoop, OwnData, Like, Listed
  <2>4. CallAt(t)'
    BY <1>0, <2>2, <2>3, OnTopMeans DEF Knows, CallAt
  <2> QED BY <2>1, <2>2, <2>3, <2>4, OwnStepKeeps DEF Knows, GoesOn, On, Fn
<1>5. ASSUME Stepped(t)
      PROVE  WaysInv'
  <2>1. On("stepped", t) /\ IF t \in resumed /\ t \notin aborted THEN Becomes1(Fn("step", t)) ELSE Pops
    BY <1>0, <1>5, SteppedEffect
  <2>2. /\ t \in Born /\ Depth \in Nat \ {0} /\ stack[Depth].t = t /\ stack[Depth].fn = "stepped"
        /\ t \in resuming /\ t \notin aborted \cap running
    BY <2>1, OnMeans
  <2>3. OwnData(t) /\ UNCHANGED <<running, aborted, call, slice, Listed>>
    BY <1>5 DEF Stepped, OwnData, Like, Listed
  <2>4. CASE t \in resumed
    <3>1. OwnStack(t, Depth - 1, {"step"}) /\ OnTop("step", t)' /\ resumed' = resumed \ {t}
      BY <1>0, <1>5, <2>1, <2>2, <2>4, OwnStackIs DEF Stepped, ThreadInv
    <3>2. Knows("step", t)' /\ CallAt(t)'
      BY <1>0, <2>3, <2>4, <3>1, OnTopMeans DEF Knows, CallAt, ThreadInv
    <3> QED BY <2>2, <2>3, <3>1, <3>2, OwnStepKeeps DEF Knows, GoesOn
  <2>5. CASE t \notin resumed
    <3>1. OwnStack(t, Depth - 1, {}) /\ UNCHANGED resumed
      BY <1>0, <1>5, <2>1, <2>2, <2>5, OwnStackIs DEF Stepped
    <3>2. \A i \in 1..Depth : stack[i].t = t /\ stack[i].fn # "stepped" => i \in 1..Depth' /\ stack'[i] = stack[i]
      BY <2>2, <3>1 DEF OwnStack
    <3>3. GoesOnWith(t) => GoesOnWith(t)'
      BY <3>2 DEF GoesOnWith
    <3>4. CallAt(t)'
      BY <1>0, <2>3, <2>5, <3>1, <3>2, <3>3 DEF CallAt, OwnData, Fn
    <3> QED BY <2>2, <2>3, <3>1, <3>4, OwnStepKeeps DEF Knows
  <2> QED BY <2>4, <2>5
<1>6. ASSUME TimeSlice(t)
      PROVE  WaysInv'
  <2>1. On("step", t) /\ Pops
    BY <1>0, <1>6, TimeSliceEffect
  <2>2. /\ t \in Born /\ Knows("step", t) /\ OwnStack(t, Depth - 1, {}) /\ t \notin aborted \cap running
        /\ \A i \in 1..(Depth - 1) : stack[i].t = t => stack[i].fn \notin GoesOn \cup {"step", "stepped"}
    BY <1>0, <2>1, OnMeans, OwnStackIs
  <2>3. OwnData(t) /\ UNCHANGED <<running, aborted, call, Listed>> /\ t \notin resumed' /\ t \in slice'
    BY <1>6 DEF TimeSlice, OwnData, Like, Listed
  <2>4. CallAt(t)'
    BY <1>0, <2>2, <2>3 DEF Knows, CallAt
  <2> QED BY <2>1, <2>2, <2>3, <2>4, OwnStepKeeps DEF Knows, GoesOn, On, Fn
<1>7. ASSUME StepEnds(t)
      PROVE  WaysInv'
  <2>1. On("step", t) /\ Becomes2(Fn("complete", t), Fn("stepped", t))
    BY <1>0, <1>7, StepEndsEffect
  <2>2. /\ t \in Born /\ Knows("step", t) /\ OwnStack(t, Depth - 1, {"complete", "stepped"})
        /\ OnTop("complete", t)' /\ t \notin aborted \cap running
        /\ \A i \in 1..(Depth - 1) : stack[i].t = t => stack[i].fn \notin GoesOn \cup {"step", "stepped"}
    BY <1>0, <2>1, OnMeans, OwnStackIs
  <2>3. OwnData(t) /\ UNCHANGED <<running, aborted, call, slice, Listed>> /\ t \notin resumed'
    BY <1>7 DEF StepEnds, OwnData, Like, Listed
  <2>4. CallAt(t)'
    BY <1>0, <2>2, <2>3, OnTopMeans DEF Knows, CallAt
  <2> QED BY <2>1, <2>2, <2>3, <2>4, OwnStepKeeps DEF Knows, GoesOn, On, Fn
<1>8. ASSUME StepDelay(t)
      PROVE  WaysInv'
  <2>1. On("step", t) /\ Becomes1(Fn("stepped", t))
    BY <1>0, <1>8, StepDelayEffect
  <2>2. /\ t \in Born /\ Knows("step", t) /\ OwnStack(t, Depth - 1, {"stepped"}) /\ t \notin aborted \cap running
        /\ \A i \in 1..(Depth - 1) : stack[i].t = t => stack[i].fn \notin GoesOn \cup {"step", "complete"}
    BY <1>0, <2>1, OnMeans, OwnStackIs
  <2>3. OwnData(t) /\ UNCHANGED <<running, aborted, slice, Listed>> /\ t \notin resumed' /\ call'[t] = "delay"
    BY <1>0, <1>8 DEF StepDelay, OwnData, Like, Listed, TypeInv
  <2>4. CallAt(t)'
    BY <1>0, <2>2, <2>3 DEF Knows, CallAt
  <2> QED BY <1>0, <2>1, <2>2, <2>3, <2>4, OwnStepKeeps DEF Knows, GoesOn, On, Fn
<1>9. ASSUME StepAbortOwnChain(t)
      PROVE  WaysInv'
  <2>1. On("step", t) /\ Becomes2(Fn("return", t), Fn("stepped", t))
    BY <1>0, <1>9, StepAbortOwnChainEffect
  <2>2. /\ t \in Born /\ Knows("step", t) /\ OwnStack(t, Depth - 1, {"return", "stepped"}) /\ OnTop("return", t)'
        /\ t \notin aborted \cap running
        /\ \A i \in 1..(Depth - 1) : stack[i].t = t => stack[i].fn \notin GoesOn \cup {"step", "complete"}
    BY <1>0, <2>1, OnMeans, OwnStackIs
  <2>3. OwnData(t) /\ UNCHANGED <<running, aborted, slice, Listed>> /\ t \notin resumed' /\ call'[t] = "builtin"
    BY <1>0, <1>9 DEF StepAbortOwnChain, OwnData, Like, Listed, TypeInv
  <2>4. CallAt(t)'
    BY <1>0, <2>2, <2>3, OnTopMeans DEF Knows, CallAt
  <2> QED BY <1>0, <2>1, <2>2, <2>3, <2>4, OwnStepKeeps DEF Knows, GoesOn, On, Fn
<1>10. ASSUME Store(t)
       PROVE  WaysInv'
  <2>1. On("store", t) /\ IF context[t] # None THEN Becomes1(Fn("resume", t)) ELSE UNCHANGED stack /\ Depth' = Depth
    BY <1>0, <1>10, StoreEffect DEF Store, Depth
  <2>2. /\ t \in Born /\ Knows("store", t) /\ t \notin aborted \cap running /\ Depth \in Nat \ {0}
        /\ stack[Depth].t = t /\ stack[Depth] = Fn("store", t)
    BY <2>1, OnMeans DEF On
  <2>3. OwnData(t) /\ UNCHANGED <<running, aborted, call, slice, resuming, resumed, Listed>>
    BY <1>10 DEF Store, OwnData, Like, Listed
  <2>4. PICK fn \in {"resume", "store"} : OwnStack(t, Depth - 1, {fn}) /\ OnTop(fn, t)'
    BY <1>0, <2>1, <2>2, OwnStackIs DEF OwnStack, OnTop
  <2>5. CallAt(t)' /\ Knows(fn, t)'
    BY <1>0, <2>2, <2>3, <2>4, OnTopMeans DEF Knows, CallAt
  <2> QED BY <2>2, <2>3, <2>4, <2>5, OwnStepKeeps DEF Knows, GoesOn, Fn
<1>11. ASSUME Return(t)
       PROVE  WaysInv'
  <2>1. On("return", t) /\ IF call[t] = "builtin" THEN Becomes1(Fn("resume", t)) ELSE Pops
    BY <1>0, <1>11, ReturnEffect
  <2>2. /\ t \in Born /\ Knows("return", t) /\ OwnStack(t, Depth - 1, {"resume"}) /\ OnTop("resume", t)'
        /\ t \notin aborted \cap running
        /\ \A i \in 1..(Depth - 1) : stack[i].t = t => stack[i].fn \notin GoesOn
    <3>1. Depth \in Nat \ {0} /\ stack[Depth].t = t /\ call[t] = "builtin"
      BY <1>0, <2>1, OnMeans DEF Knows
    <3>2. OwnStack(t, Depth - 1, {"resume"}) /\ OnTop("resume", t)'
      BY <2>1, <3>1, OwnStackIs
    <3> QED BY <1>0, <2>1, <3>2, OnMeans DEF Knows
  <2>3. OwnData(t) /\ UNCHANGED <<running, aborted, slice, resuming, resumed, Listed>> /\ call'[t] = "none"
    BY <1>0, <1>11 DEF Return, OwnData, Like, Listed, TypeInv
  <2>4. CallAt(t)' /\ Knows("resume", t)'
    BY <1>0, <2>2, <2>3, OnTopMeans DEF Knows, CallAt
  <2> QED BY <2>1, <2>2, <2>3, <2>4, OwnStepKeeps DEF Knows, GoesOn, On, Fn
<1>12. ASSUME CallbackReturns(t) \/ AbortEnded(t)
       PROVE  WaysInv'
  <2>1. (On("callback", t) \/ On("abort", t)) /\ Pops
    BY <1>0, <1>12, CallbackReturnsEffect, AbortEndedEffect
  <2>2. /\ t \in Born /\ OwnStack(t, Depth - 1, {}) /\ t \notin running
        /\ Depth \in Nat \ {0} /\ stack[Depth].t = t
    <3>1. t \notin running
      <4>1. CallbackReturns(t) => t \notin running
        BY <1>0, CallbackReturnsEffect, OnMeans DEF Knows
      <4> QED BY <1>12, <4>1 DEF AbortEnded
    <3> QED BY <1>0, <2>1, <3>1, OnMeans, OwnStackIs
  <2>3. OwnData(t) /\ UNCHANGED <<running, aborted, call, slice, resuming, resumed, Listed>>
    BY <1>12 DEF CallbackReturns, AbortEnded, OwnData, Like, Listed
  <2>4. CallAt(t)'
    BY <1>0, <2>2, <2>3 DEF CallAt, ThreadInv
  <2> QED BY <2>2, <2>3, <2>4, OwnStepKeeps DEF Knows
<1>13. ASSUME AbortAlone(t) \/ AbortBuiltin(t)
       PROVE  WaysInv'
  <2>1. PICK fn \in {"complete", "resume"} :
          On("abort", t) /\ Becomes1(Fn(fn, t)) /\ (fn = "resume" => call[t] # "none")
    BY <1>0, <1>13, AbortAloneEffect, AbortBuiltinEffect DEF AbortBuiltin
  <2>2. t \in running /\ aborted' = aborted \cup {t}
    BY <1>13 DEF AbortAlone, AbortBuiltin
  <2>3. /\ t \in Born /\ OwnStack(t, Depth - 1, {fn}) /\ OnTop(fn, t)' /\ t \notin resuming
        /\ \A i \in 1..(Depth - 1) : stack[i].t = t => stack[i].fn = "abort"
    BY <1>0, <2>1, <2>2, OnMeans, OwnStackIs
  <2>4. OwnData(t) /\ UNCHANGED <<running, slice, resuming, resumed, Listed>> /\ call'[t] = "none"
    BY <1>0, <1>13 DEF AbortAlone, AbortBuiltin, OwnData, Like, Listed, TypeInv
  <2>5. t \in resumed \/ fn = "resume" => t \notin slice
    BY <1>0, <2>1 DEF CallAt
  <2>6. CallAt(t)' /\ AbortAt(t)' /\ Knows(fn, t)'
    BY <2>2, <2>3, <2>4, <2>5, OnTopMeans DEF Knows, CallAt
  <2> QED BY <2>1, <2>2, <2>3, <2>4, <2>6, OwnStepKeeps DEF Knows, GoesOn, On, Fn
<1>14. ASSUME SliceOver(t) \/ DelayOver(t)
       PROVE  WaysInv'
  <2>1. Depth = 0 /\ Adds1(Fn("resume", t))
    BY <1>0, <1>14, SliceOverEffect, DelayOverEffect
  <2>2. t \in running /\ t \in Born /\ ~Unstarted(t)
    BY <1>0, <1>14 DEF SliceOver, DelayOver, CallAt, ThreadInv, SetInv, Unstarted
  <2>3. OwnStack(t, 0, {"resume"}) /\ OnTop("resume", t)'
    BY <1>0, <2>1, <2>2, OwnStackIs
  <2>4. /\ OwnData(t) /\ UNCHANGED <<running, aborted, resuming, resumed, Listed>>
        /\ call'[t] = "none" /\ t \notin slice'
    BY <1>0, <1>14 DEF SliceOver, DelayOver, OwnData, Like, Listed, TypeInv, CallAt
  <2>5. CallAt(t)' /\ Knows("resume", t)' /\ AbortAt(t)'
    BY <1>0, <2>2, <2>3, <2>4, OnTopMeans DEF Knows, CallAt
  <2>6. t \in aborted' => t \notin resuming'
    BY <1>0, <2>2, <2>4 DEF AbortInv
  <2> QED BY <2>1, <2>2, <2>3, <2>4, <2>5, <2>6, OwnStepKeeps DEF GoesOn
<1> QED BY <1>1, <1>2, <1>3, <1>4, <1>5, <1>6, <1>7, <1>8, <1>9, <1>10, <1>11, <1>12, <1>13, <1>14

\* New functions are clear when no thread that abort() is called for waits for those
\* that have functions below, P and the new ones of Y.
LEMMA NewsAreClear ==
  ASSUME IInv, EdgesKeep, NEW m \in Nat, Depth' \in Nat,
         \A i \in 1..m : i \in 1..Depth' /\ stack'[i] = stack[i],
         NEW P, P \subseteq Born, Below(m + 1) \subseteq P, NEW Y, Y \subseteq Threads,
         \A v \in Y : \A f \in reports' : ~(context'[v] = f /\ kind'[f] = "function"),
         \A i \in (m + 1)..Depth' :
           /\ stack'[i].fn = "abort" \/ stack'[i].t \in P \cup Y \/ stack'[i].t \notin Threads
           /\ stack'[i].fn = "abort" /\ stack'[i].t \in running' =>
                stack'[i].t \notin WithCallers(P) /\ stack'[i].t \notin Y
           /\ stack'[i].fn = "abortRelated" => \A u \in Listed' \cap running' :
                context'[u] # Main /\ u # stack'[i].t => u \notin WithCallers(P) /\ u \notin Y
  PROVE  \A i \in (m + 1)..Depth' : ClearAt(i)'
<1>0. ThreadInv /\ SetInv
  BY DEF IInv, DataInv
<1> SUFFICES ASSUME NEW i \in (m + 1)..Depth' PROVE ClearAt(i)'
  OBVIOUS
<1>1. Below(i)' \subseteq P \cup Y
  <2> SUFFICES ASSUME NEW v \in Threads, NEW j \in 1..(i - 1), stack'[j].t = v, stack'[j].fn # "abort"
               PROVE  v \in P \cup Y
    BY DEF Below
  <2>1. CASE j \in 1..m
    <3>1. j \in 1..((m + 1) - 1)
      BY <2>1
    <3> QED BY <2>1, <3>1 DEF Below
  <2>2. CASE j \in (m + 1)..Depth'
    BY <2>2
  <2> QED BY <2>1, <2>2
<1> HIDE DEF WithCallers
<1> QED BY <1>0, <1>1, NewIsClear

\* A step that calls abort() of the threads in S, on behalf of those in X: it leaves
\* functions of F of thread t below them.  No thread of S waits for one of P.
Aborting(X, m, t, F, P, S) ==
  /\ UNCHANGED <<threads, kind, caller, context, running, reports>> /\ Waiting' \subseteq Waiting
  /\ Moves(X) /\ Stacks(X, m) /\ \A v \in X : Settled(v)
  /\ \A v \in X : v \in Threads /\ Depth > 0 /\ stack[Depth].t = v /\ stack[Depth].fn # "enter"
  /\ F \subseteq {"stepped", "return", "abortRelated"} /\ \A fn \in F : Knows(fn, t)'
  /\ P \subseteq Born /\ Below(m + 1) \subseteq P
  /\ F = {} \/ t \notin Threads \/ (t \in X /\ t \in P)
  /\ S \subseteq Listed \cup running /\ \A u \in S : u \in running => u \notin WithCallers(P)
  /\ "abortRelated" \in F =>
       \A u \in Listed \cap running : context[u] # Main /\ u # t => u \notin WithCallers(P)
  /\ \A i \in 1..Depth' : i \in 1..m \/ (\E fn \in F : stack'[i] = Fn(fn, t)) \/ NewAbort(i, S)

LEMMA AbortingKeeps ==
  ASSUME IInv, SetInv', NEW X, NEW m, NEW t, NEW F, NEW P, NEW S, Aborting(X, m, t, F, P, S)
  PROVE  WaysInv'
<1> USE DEF Aborting
<1>0. StartInv /\ FramesInv /\ None \notin Threads
  BY ThreadTypes DEF IInv
<1>1. Born' = Born /\ Listed' = Listed /\ EdgesKeep
  BY DEF Born, Listed, EdgesKeep
<1>2. /\ Depth \in Nat /\ Depth' \in Nat /\ m \in Nat /\ \A i \in 1..m : i \in 1..Depth
      /\ \A i \in 1..m : i \in 1..Depth' /\ stack'[i] = stack[i]
  BY DEF Stacks
<1>3. ASSUME NEW i \in 1..Depth', i \notin 1..m
      PROVE  \E fn, v : /\ stack'[i].fn = fn /\ stack'[i].t = v /\ stack'[i] = Fn(fn, v)
                        /\ (fn \in F /\ v = t) \/ (fn = "abort" /\ v \in S)
  <2>1. \A fn, v : Fn(fn, v).fn = fn /\ Fn(fn, v).t = v
    BY DEF Fn
  <2> QED BY <1>3, <2>1 DEF NewAbort
<1>4. \A i \in (m + 1)..Depth' : ClearAt(i)'
  <2> HIDE DEF WithCallers
  <2>0. PICK Y : Y = {}
    OBVIOUS
  <2>1. ASSUME NEW i \in (m + 1)..Depth'
        PROVE  /\ stack'[i].fn = "abort" \/ stack'[i].t \in P \cup Y \/ stack'[i].t \notin Threads
               /\ stack'[i].fn = "abort" /\ stack'[i].t \in running' =>
                    stack'[i].t \notin WithCallers(P) /\ stack'[i].t \notin Y
               /\ stack'[i].fn = "abortRelated" => \A u \in Listed' \cap running' :
                    context'[u] # Main /\ u # stack'[i].t => u \notin WithCallers(P) /\ u \notin Y
    <3>1. i \in 1..Depth' /\ i \notin 1..m
      BY <1>2
    <3> QED BY <1>1, <1>3, <2>0, <3>1
  <2>2. Y \subseteq Threads /\ \A v \in Y : \A f \in reports' : ~(context'[v] = f /\ kind'[f] = "function")
    BY <2>0
  <2> QED BY <1>1, <1>2, <2>1, <2>2, NewsAreClear
<1>5. \A i \in 1..Depth' : i \in 1..m \/ New(i)
  <2> SUFFICES ASSUME NEW i \in 1..Depth', i \notin 1..m PROVE New(i)
    OBVIOUS
  <2>1. PICK fn, v : /\ stack'[i].fn = fn /\ stack'[i] = Fn(fn, v)
                     /\ (fn \in F /\ v = t) \/ fn = "abort"
    BY <1>3
  <2>2. Knows(fn, v)'
    BY <2>1 DEF Knows
  <2>3. KnownNow(stack'[i])
    BY <2>1, <2>2 DEF KnownNow
  <2>4. ClearAt(i)'
    BY <1>2, <1>4
  <2> QED BY <2>1, <2>3, <2>4 DEF New
<1>6. StartInv'
  <2>1. \A v \in X : v \in Born /\ v \notin Waiting
    BY <1>0, <1>2 DEF StartInv, FramesInv, Fn
  <2>2. \A i \in 1..m : stack[i].fn = "enter" => stack[i].t \notin X
    BY <1>0, <1>2 DEF StartInv
  <2>3. \A i \in 1..Depth' :
           \/ i \in 1..m
           \/ /\ stack'[i].fn # "enter"
              /\ stack'[i].t \in X \/ stack'[i].t \notin Threads \/ ~Unstarted(stack'[i].t)
    BY <1>3 DEF Unstarted
  <2> QED BY <1>1, <2>1, <2>2, <2>3, StartsKeep
<1> QED BY <1>1, <1>5, <1>6, StepKeeps DEF WaysInv

\* The function on top is replaced.
LEMMA TopGoes ==
  ASSUME ShapeInv, Depth \in Nat, Depth > 0, Depth' \in Nat, NEW m, m = Depth - 1, Depth' >= m,
         \A i \in 1..Depth' : Old(i, m) \/ i >= Depth,
         NEW X, stack[Depth].t \in X \/ stack[Depth].fn \notin GoesOn \cup {"step", "complete"},
         stack[Depth].fn = "abort" => stack[Depth].t \in aborted' \/ stack[Depth].t \notin running,
         \A i \in 1..m : stack[i].t \in X =>
           /\ \A fn, v : fn = stack[i].fn /\ v = stack[i].t /\ Knows(fn, v) => Knows(fn, v)'
           /\ stack[i].fn = "abort" /\ stack[i].t \in running' => stack[i].t \in running
  PROVE  Stacks(X, m) /\ m + 1 = Depth /\ \A i \in 1..m : i \in 1..Depth' /\ stack'[i] = stack[i]
<1>1. \A i \in 1..m : i \in 1..Depth' /\ stack'[i] = stack[i] /\ i \in 1..Depth /\ i # Depth
  BY DEF Old
<1>2. \A i \in 1..m : stack[i].fn # "complete"
  BY <1>1 DEF ShapeInv, ShapeAt
<1>3. \A i \in (m + 1)..Depth : i = Depth
  OBVIOUS
<1> HIDE DEF Old, Knows, GoesOn
<1> QED BY <1>1, <1>2, <1>3 DEF Stacks

\* A step of t calls abort() of the threads in S.
ScriptAborts(t, S, F) ==
  /\ On("step", t) /\ S \subseteq Listed \cup running /\ MayAbort(S)
  /\ "return" \in F /\ F \subseteq {"return", "stepped", "abortRelated"}
  /\ "abortRelated" \in F => MayAbort(Listed \ {t})
  /\ resumed' = resumed \ {t} /\ call' = [call EXCEPT ![t] = "builtin"]
  /\ UNCHANGED <<threads, kind, caller, context, running, aborted, resuming, slice, reports>>
  /\ queued' = <<>> \/ UNCHANGED queued
  /\ Depth' \in Nat /\ Depth' > Depth /\ stack'[Depth + 1] = Fn("return", t)
  /\ \A i \in 1..Depth' :
       \/ Old(i, Depth - 1)
       \/ i >= Depth /\ ((\E fn \in F : stack'[i] = Fn(fn, t)) \/ NewAbort(i, S))

LEMMA ScriptAbortsKeep ==
  ASSUME IInv, SetInv', AbortsOnStack = FALSE, NEW t \in Threads, NEW S, NEW F, ScriptAborts(t, S, F)
  PROVE  WaysInv'
<1> USE DEF ScriptAborts
<1> HIDE DEF WithCallers
<1>0. /\ Lists /\ TypeInv /\ ListInv /\ ThreadInv /\ SetInv /\ FramesInv /\ ShapeInv /\ CallInv
      /\ Depth \in Nat /\ Depth + 1 \in Nat /\ stack \in Seq(Frames) /\ Below(Depth + 1) \subseteq Born
  BY BelowIsBorn DEF IInv, DataInv, Lists, Depth
<1>1. PICK X, P : X = {t} /\ P = Below(Depth + 1)
  OBVIOUS
<1>2. /\ t \in Born /\ Knows("step", t) /\ Depth > 0 /\ stack[Depth].t = t /\ stack[Depth].fn = "step"
      /\ t \notin aborted \cap running
      /\ \A i \in 1..(Depth - 1) : stack[i].fn \notin {"step", "complete"}
      /\ \A i \in 1..(Depth - 1) : stack[i].t = t => stack[i].fn \notin GoesOn \cup {"step", "stepped"}
  BY OnMeans
<1>3. PICK m : /\ m = Depth - 1 /\ Stacks(X, m) /\ Below(m + 1) \subseteq P /\ P \subseteq Born
  <2>1. PICK m : m = Depth - 1
    OBVIOUS
  <2>2. Stacks(X, m) /\ m + 1 = Depth
    BY <1>0, <1>1, <1>2, <2>1, TopGoes DEF Knows, GoesOn
  <2>3. Below(m + 1) \subseteq P
    BY <1>0, <1>1, <2>1, <2>2 DEF Below
  <2> QED BY <1>0, <1>1, <2>1, <2>2, <2>3
<1>4. Moves(X)
  BY <1>0, <1>1 DEF Moves, Like, Listed, TypeInv
<1>5. CallAt(t)'
  BY <1>0, <1>2 DEF CallAt, TypeInv, Knows
<1>6. \A v \in X : Settled(v)
  BY <1>1, <1>2, <1>5 DEF Settled, Listed
<1>7. \A fn \in F : Knows(fn, t)'
  BY <1>0, <1>2 DEF Knows, TypeInv
<1>8. /\ \A u \in S : u \in running => u \notin WithCallers(P)
      /\ "abortRelated" \in F => \A u \in Listed : u \in running /\ u # t => u \notin WithCallers(P)
  BY <1>0, <1>1, MayAbortMeans
<1>9. t \in P
  BY <1>0, <1>1, <1>2 DEF Below
<1>10. Waiting' \subseteq Waiting
  BY <1>0, QueueStaysOrEmpties
<1>11. \A i \in 1..Depth' : i \in 1..m \/ (\E fn \in F : stack'[i] = Fn(fn, t)) \/ NewAbort(i, S)
  BY <1>3 DEF Old
<1>12. Aborting(X, m, t, F, P, S)
  BY <1>0, <1>1, <1>2, <1>3, <1>4, <1>6, <1>7, <1>8, <1>9, <1>10, <1>11 DEF Aborting
<1> QED BY <1>12, AbortingKeeps

\* abort() of other threads, by the host, by a script, or of the threads of a context.
LEMMA AbortStepsKeep ==
  ASSUME IInv, SetInv', AbortsOnStack = FALSE
  PROVE  /\ Stop => WaysInv'
         /\ \A t \in 0..MaxThreads : AbortRelated(t) => WaysInv'
         /\ \A t \in Threads : AbortFunction(t) \/ StepAbortOthers(t) => WaysInv'
         /\ \A t, u \in Threads : StepAbort(t, u) => WaysInv'
<1> USE DEF Step, BuiltinCalled, listVars, newVars, loopVars
<1> HIDE DEF WithCallers
<1>0. /\ Lists /\ TypeInv /\ ListInv /\ ThreadInv /\ SetInv /\ FramesInv /\ ShapeInv /\ CallInv /\ ClearInv
      /\ Depth \in Nat /\ Depth + 1 \in Nat /\ None \notin Threads /\ stack \in Seq(Frames)
      /\ \A u \in MainThreads : u \in Listed
  BY ThreadTypes DEF IInv, DataInv, Lists, Depth, MainThreads
<1>1. /\ Depth > 0 => Below(Depth) \subseteq Born
      /\ Below(Depth + 1) \subseteq Born
  BY <1>0, BelowIsBorn
<1>2. ASSUME Stop PROVE WaysInv'
  <2>1. PICK X, F, P, S : X = {} /\ F = {"abortRelated"} /\ P = Below(Depth + 1) /\ S = MainThreads
    OBVIOUS
  <2>2. /\ Depth' \in Nat /\ Depth' >= Depth + 1
        /\ \A i \in 1..Depth' : \/ Old(i, Depth)
                                \/ i > Depth /\ stack'[i] = Fn("abortRelated", None)
                                \/ i > Depth /\ NewAbort(i, S)
    BY <1>0, <1>2, <2>1, StopFrames
  <2>3. Depth = 0 \/ (Depth > 0 /\ stack[Depth].fn = "callback")
    BY <1>0, <1>2, AppEffect DEF Stop
  <2>4. Stacks(X, Depth) /\ Below(Depth + 1) \subseteq P /\ P \subseteq Born
    BY <1>0, <1>1, <2>1, <2>2, <2>3 DEF Stacks, Old, ShapeInv, ShapeAt
  <2>5. Moves(X) /\ UNCHANGED <<threads, kind, caller, context, running, reports>>
    BY <1>2, <2>1 DEF Moves, Like, Stop, Listed
  <2>6. \A u \in Listed : u \in running => u \notin WithCallers(P)
    BY <1>0, <1>2, <2>1, MayAbortMeans DEF Stop
  <2>7. Waiting' \subseteq Waiting
    BY <1>0, <1>2, QueueStaysOrEmpties DEF Stop, EmptyQueue
  <2>8. \A i \in 1..Depth' : i \in 1..Depth \/ (\E fn \in F : stack'[i] = Fn(fn, None)) \/ NewAbort(i, S)
    BY <2>1, <2>2 DEF Old
  <2>9. \A fn \in F : Knows(fn, None)'
    BY <2>1 DEF Knows
  <2>10. Aborting(X, Depth, None, F, P, S)
    BY <1>0, <2>1, <2>4, <2>5, <2>6, <2>7, <2>8, <2>9 DEF Aborting
  <2> QED BY <2>10, AbortingKeeps
<1>3. ASSUME NEW t \in 0..MaxThreads, AbortRelated(t) PROVE WaysInv'
  <2>1. PICK X, F, P, S : /\ X = {} /\ F = {} /\ P = Below(Depth)
                          /\ S = {u \in Listed : context[u] # Main /\ u # t}
    OBVIOUS
  <2>2. /\ On("abortRelated", t) /\ Depth' \in Nat /\ Depth' >= Depth - 1
        /\ \A i \in 1..Depth' : Old(i, Depth - 1) \/ (i >= Depth /\ NewAbort(i, S))
    BY <1>0, <1>3, <2>1, AbortRelatedFrames
  <2>3. Depth > 0 /\ stack[Depth].fn = "abortRelated" /\ stack[Depth].t = t
    BY <2>2 DEF On, Fn
  <2>4. PICK m : m = Depth - 1 /\ Stacks(X, m) /\ Below(m + 1) \subseteq P /\ P \subseteq Born
    <3>1. PICK m : m = Depth - 1 /\ Depth' >= m
      BY <2>2
    <3>2. \A i \in 1..Depth' : Old(i, m) \/ i >= Depth
      BY <2>2, <3>1
    <3>3. Stacks(X, m) /\ m + 1 = Depth
      BY <1>0, <2>1, <2>2, <2>3, <3>1, <3>2, TopGoes DEF GoesOn
    <3> QED BY <1>1, <2>1, <2>3, <3>1, <3>3
  <2>5. Moves(X) /\ UNCHANGED <<threads, kind, caller, context, running, reports>>
    BY <1>3, <2>1 DEF Moves, Like, AbortRelated, Listed
  <2>6. \A u \in S : u \in running => u \notin WithCallers(P)
    BY <1>0, <2>1, <2>3 DEF ClearInv, ClearAt, Awaited
  <2>7. Waiting' \subseteq Waiting /\ S \subseteq Listed
    BY <1>3, <2>1 DEF AbortRelated, Waiting
  <2>8. \A i \in 1..Depth' : i \in 1..m \/ NewAbort(i, S)
    BY <2>2, <2>4 DEF Old
  <2>9. Aborting(X, m, t, F, P, S)
    BY <1>0, <2>1, <2>4, <2>5, <2>6, <2>7, <2>8 DEF Aborting
  <2> QED BY <2>9, AbortingKeeps
<1>4. ASSUME NEW t \in Threads, AbortFunction(t) PROVE WaysInv'
  <2>1. PICK X, F, P, S : X = {t} /\ F = {} /\ P = Below(Depth) /\ S = {u \in Listed : context[u] = Callee(t)}
    OBVIOUS
  <2>2. /\ On("abort", t) /\ Depth' \in Nat /\ Depth' >= Depth - 1
        /\ \A i \in 1..Depth' : Old(i, Depth - 1) \/ (i >= Depth /\ NewAbort(i, S))
    BY <1>0, <1>4, <2>1, AbortFunctionFrames
  <2>3. /\ Depth > 0 /\ stack[Depth].fn = "abort" /\ stack[Depth].t = t
        /\ t \in running /\ call[t] = "function" /\ aborted' = aborted \cup {t}
        /\ UNCHANGED <<threads, queued, kind, caller, context, running, resuming, resumed, slice, reports, call>>
    BY <1>4, <2>2 DEF On, Fn, AbortFunction
  <2>4. t \notin resuming /\ \A i \in 1..(Depth - 1) : stack[i].t = t => stack[i].fn = "abort"
    BY <2>2, <2>3, OnMeans
  <2>5. PICK c : c = Callee(t)
    OBVIOUS
  <2>6. /\ c \in reports /\ caller[c] = t /\ kind[c] = "function" /\ c \in Listed /\ context[c] = c
    <3>1. \E f \in Threads : caller[f] = t /\ kind[f] = "function" /\ f \in reports
      BY <1>0, <2>3 DEF CallInv, CallAt, SetInv, Born
    <3> QED BY <1>0, <2>5, <3>1 DEF Callee, ThreadInv
  <2>7. PICK m : m = Depth - 1 /\ Stacks(X, m) /\ Below(m + 1) \subseteq P /\ P \subseteq Born
    BY <1>0, <1>1, <2>1, <2>2, <2>3, <2>4, TopGoes DEF Knows
  <2>8. Moves(X)
    BY <2>1, <2>3 DEF Moves, Like, Listed
  <2>9. \E i \in 1..Depth' : stack'[i] = Fn("abort", c)
    BY <1>0, <1>4, <2>2, <2>3, <2>5, <2>6, AbortFunctionEffect DEF Aborts
  <2>10. CallAt(t)' /\ AbortAt(t)'
    BY <1>0, <2>3, <2>6, <2>9 DEF CallInv, CallAt, AbortAt
  <2>11. \A v \in X : Settled(v)
    BY <2>1, <2>3, <2>4, <2>10 DEF Settled, Listed
  <2>12. \A u \in S : u \in running => u \notin WithCallers(P)
    <3>1. t \notin WithCallers(P)
      BY <1>0, <2>1, <2>3 DEF ClearInv, ClearAt, Awaited
    <3> QED BY <2>1, <2>5, <2>6, <3>1, WithCallersCloses
  <2>13. \A i \in 1..Depth' : i \in 1..m \/ NewAbort(i, S)
    BY <2>2, <2>7 DEF Old
  <2>14. Waiting' \subseteq Waiting /\ S \subseteq Listed
    BY <2>1, <2>3 DEF Waiting
  <2>15. Aborting(X, m, t, F, P, S)
    BY <1>0, <2>1, <2>3, <2>7, <2>8, <2>11, <2>12, <2>13, <2>14 DEF Aborting
  <2> QED BY <2>15, AbortingKeeps
<1>6. ASSUME NEW t \in Threads, StepAbortOthers(t) PROVE WaysInv'
  <2>1. PICK F, S : F = {"return", "stepped", "abortRelated"} /\ S = MainThreads \ {t}
    OBVIOUS
  <2>2. /\ On("step", t) /\ Depth' \in Nat /\ Depth' > Depth /\ stack'[Depth + 1] = Fn("return", t)
        /\ \A i \in 1..Depth' :
             \/ Old(i, Depth - 1)
             \/ i >= Depth /\ ((\E fn \in F : stack'[i] = Fn(fn, t)) \/ NewAbort(i, S))
    <3>1. Depth \in Nat \ {0} /\ stack'[Depth + 1] = Fn("return", t)
      BY <1>0, <1>6, StepAbortOthersEffect DEF On
    <3>2. /\ On("step", t) /\ Depth' \in Nat /\ Depth' >= Depth + 2
          /\ \A i \in 1..Depth' : \/ Old(i, Depth - 1)
                                  \/ i >= Depth /\ stack'[i] = Fn("stepped", t)
                                  \/ i >= Depth /\ stack'[i] = Fn("return", t)
                                  \/ i >= Depth /\ stack'[i] = Fn("abortRelated", t)
                                  \/ i >= Depth /\ NewAbort(i, S)
      BY <1>0, <1>6, <2>1, <3>1, StepAbortOthersFrames
    <3>3. "stepped" \in F /\ "return" \in F /\ "abortRelated" \in F
      BY <2>1
    <3> HIDE DEF Old, NewAbort, Fn
    <3> QED BY <3>1, <3>2, <3>3
  <2>3. MayAbort(S) /\ S \subseteq Listed
    BY <1>0, <1>6, <2>1 DEF StepAbortOthers, MayAbort
  <2>4. ScriptAborts(t, S, F)
    BY <1>6, <2>1, <2>2, <2>3 DEF ScriptAborts, StepAbortOthers, EmptyQueue
  <2> QED BY <2>4, ScriptAbortsKeep
<1>7. ASSUME NEW t \in Threads, NEW u \in Threads, StepAbort(t, u) PROVE WaysInv'
  <2>1. PICK F, S : F = {"return", "stepped"} /\ S = {u}
    OBVIOUS
  <2>2. On("step", t) /\ Becomes3(Fn("abort", u), Fn("return", t), Fn("stepped", t))
    BY <1>0, <1>7, StepAbortEffect
  <2>3. /\ Depth' \in Nat /\ Depth' > Depth /\ stack'[Depth + 1] = Fn("return", t)
        /\ \A i \in 1..Depth' :
             \/ Old(i, Depth - 1)
             \/ i >= Depth /\ ((\E fn \in F : stack'[i] = Fn(fn, t)) \/ NewAbort(i, S))
    <3>1. Depth \in Nat \ {0}
      BY <2>2 DEF On
    <3> QED BY <2>1, <2>2, <3>1, Becomes3Frames DEF NewAbort, Becomes3
  <2>4. MayAbort(S) /\ S \subseteq running
    BY <1>7, <2>1 DEF StepAbort
  <2>5. ScriptAborts(t, S, F)
    BY <1>7, <2>1, <2>2, <2>3, <2>4 DEF ScriptAborts, StepAbort
  <2> QED BY <2>5, ScriptAbortsKeep
<1> QED BY <1>2, <1>3, <1>4, <1>6, <1>7

\* A new thread enters the context: with or without stopping the others.
LEMMA ExecuteKeeps ==
  ASSUME IInv, SetInv', AbortsOnStack = FALSE, NEW t \in Threads, NEW mode \in RunModes, Execute(t, mode)
  PROVE  WaysInv'
<1> USE DEF loopVars
<1> HIDE DEF WithCallers
<1>0. /\ Lists /\ TypeInv /\ ListInv /\ ThreadInv /\ SetInv /\ FramesInv /\ ShapeInv /\ StartInv
      /\ Depth \in Nat /\ Depth + 1 \in Nat /\ stack \in Seq(Frames)
      /\ Main # None /\ None \notin Threads /\ Main \notin Threads /\ Born \subseteq Threads
      /\ \A u \in MainThreads : u \in Listed /\ u # None
  BY ThreadTypes DEF IInv, DataInv, Lists, Depth, Born, MainThreads, ListInv
<1>1. /\ t \notin Born /\ Unstarted(t) /\ kind' = [kind EXCEPT ![t] = "top"] /\ reports' = reports \cup {t}
      /\ context' = [context EXCEPT ![t] = Main] /\ caller' = [caller EXCEPT ![t] = None]
      /\ UNCHANGED <<threads, running, loopVars>>
      /\ "stoprunning" \in mode => MayAbort(Listed)
  BY <1>0 DEF Execute, NewThread, Fresh, StartInv
<1>2. PICK X, P : X = {t} /\ P = Below(Depth + 1) /\ P \subseteq Born
  <2>1. Below(Depth + 1) \subseteq Born
    BY <1>0, BelowIsBorn
  <2> QED BY <2>1
<1>3. /\ Depth' \in Nat /\ Depth' >= Depth + 1
      /\ \A i \in 1..Depth' :
           \/ Old(i, Depth)
           \/ i = Depth + 1 /\ stack'[i] = Fn("enter", t)
           \/ /\ i > Depth + 1 /\ "stoprunning" \in mode
              /\ stack'[i] = Fn("abortRelated", None) \/ NewAbort(i, MainThreads)
  BY <1>0, ExecuteFrames
<1>12. \A i \in 1..Depth' : i \notin 1..Depth =>
          /\ \E fn, v : fn \in {"enter", "abort", "abortRelated"} /\ stack'[i] = Fn(fn, v)
          /\ i = Depth + 1 => stack'[i].fn = "enter" /\ stack'[i].t = t
          /\ i # Depth + 1 =>
               /\ "stoprunning" \in mode
               /\ \/ stack'[i].fn = "abortRelated" /\ stack'[i].t = None
                  \/ stack'[i].fn = "abort" /\ stack'[i].t \in Listed
  <2>1. \A fn, v : Fn(fn, v).fn = fn /\ Fn(fn, v).t = v
    BY DEF Fn
  <2> HIDE DEF Fn
  <2> QED BY <1>0, <1>3, <2>1 DEF Old, NewAbort
<1>4. Depth = 0 \/ (Depth > 0 /\ stack[Depth].fn = "callback")
  BY <1>0, AppEffect DEF Execute
<1>5. \A i \in 1..Depth : i \in 1..Depth' /\ stack'[i] = stack[i] /\ stack[i].t # t /\ stack[i].fn # "complete"
  <2>1. \A i \in 1..Depth : stack[i].t \in Born \/ stack[i].t = None
    BY <1>0 DEF FramesInv, Fn
  <2> QED BY <1>0, <1>1, <1>3, <1>4, <2>1 DEF Old, ShapeInv, ShapeAt
<1>6. Stacks(X, Depth)
  BY <1>0, <1>2, <1>3, <1>4, <1>5 DEF Stacks
<1>7. Moves(X) /\ EdgesKeep /\ Listed' = Listed
  BY <1>0, <1>1, <1>2 DEF Moves, Like, Listed, TypeInv, SetInv, EdgesKeep
<1>8. \A v \in X : Settled(v)
  BY <1>0, <1>1, <1>2 DEF Settled, CallAt, Unstarted
<1>9. \A i \in (Depth + 1)..Depth' : ClearAt(i)'
  <2>1. \A v \in Listed : v \in running /\ "stoprunning" \in mode => v \notin WithCallers(P) /\ v # t
    BY <1>0, <1>1, <1>2, MayAbortMeans DEF Unstarted
  <2>2. ASSUME NEW i \in (Depth + 1)..Depth'
        PROVE  /\ stack'[i].fn = "abort" \/ stack'[i].t \in P \cup X \/ stack'[i].t \notin Threads
               /\ stack'[i].fn = "abort" /\ stack'[i].t \in running' =>
                    stack'[i].t \notin WithCallers(P) /\ stack'[i].t \notin X
               /\ stack'[i].fn = "abortRelated" => \A u \in Listed' \cap running' :
                    context'[u] # Main /\ u # stack'[i].t => u \notin WithCallers(P) /\ u \notin X
    <3>1. i \in 1..Depth' /\ i \notin 1..Depth /\ t \in X
      BY <1>0, <1>2
    <3> QED BY <1>0, <1>1, <1>2, <1>7, <1>12, <2>1, <3>1
  <2>3. \A v \in X : \A f \in reports' : ~(context'[v] = f /\ kind'[f] = "function")
    BY <1>0, <1>1, <1>2 DEF TypeInv, SetInv
  <2> QED BY <1>0, <1>2, <1>3, <1>5, <1>7, <2>2, <2>3, NewsAreClear
<1>10. \A i \in 1..Depth' : i \in 1..Depth \/ New(i)
  <2> SUFFICES ASSUME NEW i \in 1..Depth', i \notin 1..Depth PROVE New(i)
    OBVIOUS
  <2>1. PICK fn, v : fn \in {"enter", "abort", "abortRelated"} /\ stack'[i] = Fn(fn, v) /\ stack'[i].fn = fn
    <3>1. \A fn, v : Fn(fn, v).fn = fn
      BY DEF Fn
    <3> QED BY <1>12, <3>1
  <2>2. Knows(fn, v)'
    BY <2>1 DEF Knows
  <2> QED BY <1>0, <1>3, <1>9, <2>1, <2>2 DEF New, KnownNow
<1>11. StartInv'
  <2>1. Waiting' \subseteq Waiting
    BY <1>0, QueueStaysOrEmpties DEF Execute, EmptyQueue
  <2>2. \A u \in Threads : Unstarted(u) => Unstarted(u)' /\ (u # t => context'[u] = context[u])
    BY <1>0, <1>1, <1>7 DEF Unstarted, TypeInv
  <2>3. Unstarted(t)' /\ context'[t] = Main /\ t \in Born' /\ \A u \in Threads : u \notin Born' => u \notin Born
    BY <1>0, <1>1, <2>2 DEF TypeInv, Born
  <2>4. \A u \in Listed : ~Unstarted(u)
    BY DEF Unstarted
  <2> HIDE DEF Unstarted
  <2>5. \A u \in Threads : u \notin Born' => Unstarted(u)'
    BY <1>0, <2>2, <2>3 DEF StartInv
  <2>6. ASSUME NEW u \in Threads, u # t, Unstarted(u)
        PROVE  \A i \in 1..Depth' : stack'[i].t = u => i \in 1..Depth /\ stack'[i] = stack[i]
    BY <1>0, <1>5, <1>12, <2>4, <2>6
  <2>7. \A i \in 1..Depth' : stack'[i].t = t => i = Depth + 1
    BY <1>0, <1>1, <1>5, <1>12, <2>4
  <2>8. ASSUME NEW u \in Waiting'
        PROVE  Unstarted(u)' /\ context'[u] = Main /\ \A i \in 1..Depth' : stack'[i].t # u
    <3>1. u \in Waiting /\ u \in Threads /\ u # t
      BY <1>0, <1>1, <2>1 DEF ListInv
    <3> QED BY <1>0, <2>2, <2>6, <3>1 DEF StartInv
  <2>9. ASSUME NEW i \in 1..Depth', stack'[i].fn = "enter", NEW u, u = stack'[i].t
        PROVE  /\ Unstarted(u)' /\ context'[u] = Main /\ u \notin Waiting'
               /\ \A j \in 1..Depth' : j # i => stack'[j].t # u
    <3>2. CASE i \in 1..Depth
      <4>1. u \in Threads /\ u # t /\ Unstarted(u) /\ context[u] = Main /\ u \notin Waiting
        BY <1>0, <1>5, <2>9, <3>2 DEF StartInv, FramesInv, Fn
      <4> QED BY <1>0, <1>5, <2>1, <2>2, <2>6, <2>9, <3>2, <4>1 DEF StartInv
    <3>3. CASE i \notin 1..Depth
      <4>1. u = t /\ i = Depth + 1 /\ t \notin Waiting
        BY <1>0, <1>1, <1>12, <2>9, <3>3 DEF ListInv
      <4> QED BY <2>1, <2>3, <2>7, <2>9, <4>1
    <3> QED BY <3>2, <3>3
  <2> QED BY <2>5, <2>8, <2>9 DEF StartInv
<1> QED BY <1>6, <1>7, <1>8, <1>10, <1>11, StepKeeps DEF WaysInv

\* The new thread goes to the queue.
LEMMA EnterQueuedKeeps ==
  ASSUME IInv, SetInv', NEW t \in Threads, EnterQueued(t)
  PROVE  WaysInv'
<1> USE DEF listVars, newVars, loopVars
<1>0. Lists /\ ListInv /\ FramesInv /\ ShapeInv /\ StartInv /\ Depth \in Nat
  BY DEF IInv, DataInv, Lists, Depth
<1>1. PICK X, m : X = {} /\ m = Depth - 1
  OBVIOUS
<1>2. On("enter", t) /\ Depth > 0 /\ Depth' = m /\ \A i \in 1..m : stack'[i] = stack[i]
  BY <1>0, <1>1, EnterQueuedEffect DEF On, Pops, Same
<1>3. /\ Unstarted(t) /\ context[t] = Main /\ stack[Depth].t = t /\ stack[Depth].fn = "enter"
      /\ \A i \in 1..(Depth - 1) : stack[i].t # t
  BY <1>2, OnMeans
<1>4. Stacks(X, m)
  BY <1>0, <1>1, <1>2, <1>3, TopGoes DEF Old, GoesOn
<1>5. Moves(X) /\ EdgesKeep /\ Born' = Born /\ UNCHANGED context
  BY <1>1 DEF EnterQueued, Moves, Like, Listed, Born, EdgesKeep
<1>6. FrameInv' /\ CallInv' /\ AbortInv' /\ ClearInv'
  BY <1>1, <1>2, <1>4, <1>5, StepKeeps
<1>7. StartInv'
  <2>1. Waiting' = Waiting \cup {t}
    <3>1. queued \in Seq(Threads) /\ queued' = Append(queued, t) /\ t \notin Range(queued)
      BY <1>0, <1>2, OnMeans DEF EnterQueued, Lists, Waiting
    <3> QED BY <3>1, AppendElements DEF Waiting
  <2>2. \A u \in Threads : Unstarted(u)' <=> Unstarted(u)
    BY DEF EnterQueued, Unstarted, Listed
  <2>3. \A i \in 1..Depth' : i \in 1..Depth /\ i \in 1..(Depth - 1) /\ stack'[i] = stack[i]
    BY <1>0, <1>1, <1>2
  <2>4. \A i \in 1..Depth : stack[i].fn = "enter" => stack[i].t \in Threads
    BY <1>0 DEF FramesInv, Fn, Born
  <2> HIDE DEF Unstarted
  <2>5. \A u \in Threads : u \notin Born' => Unstarted(u)'
    BY <1>0, <1>5, <2>2 DEF StartInv
  <2>6. \A u \in Waiting' : Unstarted(u)' /\ context'[u] = Main /\ \A i \in 1..Depth' : stack'[i].t # u
    BY <1>0, <1>3, <1>5, <2>1, <2>2, <2>3 DEF StartInv, ListInv, Born
  <2>7. \A i \in 1..Depth' : stack'[i].fn = "enter" => \A u : u = stack'[i].t =>
          /\ Unstarted(u)' /\ context'[u] = Main /\ u \notin Waiting'
          /\ \A j \in 1..Depth' : j # i => stack'[j].t # u
    BY <1>0, <1>3, <1>5, <2>1, <2>2, <2>3, <2>4 DEF StartInv
  <2> QED BY <2>5, <2>6, <2>7 DEF StartInv
<1> QED BY <1>6, <1>7 DEF WaysInv

\* A step that calls no abort(), and puts functions of the threads in X on the stack.
Plain(X, m) ==
  /\ EdgesKeep /\ Moves(X) /\ Stacks(X, m) /\ \A v \in X : Settled(v)
  /\ \A i \in 1..Depth' : i \in 1..m \/ \E fn, v :
       /\ stack'[i] = Fn(fn, v) /\ v \in X /\ Knows(fn, v)'
       /\ fn \notin {"abort", "abortRelated", "complete", "enter"}
  /\ Born \subseteq Born' /\ X \subseteq Born' /\ \A u \in Waiting' : u \in Waiting /\ u \notin X
  /\ \A i \in 1..m : stack[i].fn = "enter" => stack[i].t \notin X

LEMMA PlainKeeps ==
  ASSUME IInv, SetInv', NEW X, NEW m, Plain(X, m)
  PROVE  WaysInv'
<1> USE DEF Plain
<1>1. ASSUME NEW i \in 1..Depth', i \notin 1..m
      PROVE  New(i) /\ stack'[i].fn # "enter" /\ stack'[i].t \in X
  <2>1. \A fn, v : Fn(fn, v).fn = fn /\ Fn(fn, v).t = v
    BY DEF Fn
  <2>2. PICK fn, v : /\ stack'[i] = Fn(fn, v) /\ v \in X /\ Knows(fn, v)'
                     /\ fn \notin {"abort", "abortRelated", "complete", "enter"}
                     /\ stack'[i].fn = fn /\ stack'[i].t = v
    BY <1>1, <2>1
  <2>3. ClearAt(i)'
    BY <2>2 DEF ClearAt
  <2> QED BY <2>2, <2>3 DEF New, KnownNow
<1>2. StartInv'
  BY <1>1, StartsKeep
<1> QED BY <1>1, <1>2, StepKeeps DEF WaysInv

\* A thread ends: the one that called it goes on.
LEMMA CompleteKeeps ==
  ASSUME IInv, SetInv', NEW t \in Threads, Complete(t)
  PROVE  WaysInv'
<1> USE DEF listVars, newVars
<1>0. /\ Lists /\ TypeInv /\ ListInv /\ ThreadInv /\ SetInv /\ FramesInv /\ ShapeInv /\ StartInv /\ CallInv /\ AbortInv
      /\ FrameInv /\ Depth \in Nat /\ None \notin Threads /\ Born \subseteq Threads
      /\ \A u \in Threads : caller[u] \in 0..MaxThreads
  BY ThreadTypes, CallerTypes DEF IInv, DataInv, Lists, Depth, Born
<1>1. PICK w : w = caller[t]
  OBVIOUS
<1>2. PICK back \in BOOLEAN : back = (t \in reports /\ w # None /\ call[w] = kind[t])
  OBVIOUS
<1>3. PICK X : X = IF back THEN {t, w} ELSE {t}
  OBVIOUS
<1>4. /\ On("complete", t) /\ Depth' \in Nat /\ Depth' >= Depth - 1
      /\ back => Depth + 1 = Depth' /\ stack'[Depth + 1] = Fn("resume", w)
      /\ \A i \in 1..Depth' : Old(i, Depth - 1) \/ (i >= Depth /\ \E fn, v :
           /\ stack'[i] = Fn(fn, v)
           /\ (fn = "resume" /\ v = w /\ back) \/ (fn \in {"ended", "callback"} /\ v = t))
  <2>1. On("complete", t) /\ Depth \in Nat \ {0}
    BY <1>0, CompleteEffect DEF On
  <2>2. PICK fn, v : /\ Becomes2(Fn(fn, v), Fn("ended", t)) \/ Becomes1(Fn("ended", t))
                     /\ (fn = "resume" /\ v = w /\ back) \/ (fn = "callback" /\ v = t)
                     /\ back => fn = "resume" /\ Becomes2(Fn("resume", w), Fn("ended", t))
    BY <1>0, <1>1, <1>2, CompleteEffect
  <2> QED BY <2>1, <2>2, Becomes1Frames, Becomes2Frames DEF Becomes2
<1>5. /\ t \in Born /\ Knows("complete", t) /\ Depth > 0 /\ stack[Depth].t = t /\ stack[Depth].fn = "complete"
      /\ \A i \in 1..(Depth - 1) : stack[i].fn \notin {"step", "complete"}
      /\ \A i \in 1..(Depth - 1) : stack[i].t = t => stack[i].fn \notin GoesOn
  BY <1>0, <1>4, OnMeans DEF FrameInv
<1>6. back => /\ w \in Born /\ w \in Threads /\ w # t /\ call[w] \in {"function", "eval"}
              /\ w \in running /\ w \notin slice
  <2>1. back => w \in Born /\ w < t
    BY <1>0, <1>1, <1>2 DEF ThreadInv
  <2>3. back => w \in Threads /\ w # t
    BY <1>0, <2>1, ThreadTypes
  <2>2. back => call[w] \in {"function", "eval"}
    BY <1>0, <1>2, <1>5, <2>1 DEF TypeInv, Kinds, Calls, Born
  <2> QED BY <1>0, <2>1, <2>2, <2>3 DEF CallInv, CallAt
<1>7. /\ running' = running \ {t} /\ resumed' = resumed \ {t} /\ slice' = slice \ {t} /\ reports' = reports \ {t}
      /\ call' = IF back THEN [call EXCEPT ![w] = "none"] ELSE call
      /\ UNCHANGED <<threads, queued, kind, caller, context, aborted, resuming>>
  BY <1>1, <1>2 DEF Complete
<1>8. Moves(X) /\ EdgesKeep
  <2>1. \A v \in Threads \ X : Like(v)
    BY <1>0, <1>3, <1>7 DEF Like, Listed, TypeInv
  <2>2. t \in reports /\ caller[t] \in Threads \ X => kind[t] # call[caller[t]]
    BY <1>0, <1>1, <1>2, <1>3
  <2> QED BY <1>7, <2>1, <2>2 DEF Moves, EdgesKeep
<1>9. PICK m : m = Depth - 1 /\ Stacks(X, m)
  <2>1. PICK m : m = Depth - 1 /\ Depth' >= m
    BY <1>4
  <2>2. \A i \in 1..m : stack[i].t \in X =>
           \A fn, v : fn = stack[i].fn /\ v = stack[i].t /\ Knows(fn, v) => Knows(fn, v)'
    BY <1>0, <1>3, <1>5, <1>6, <1>7, <2>1 DEF Knows, GoesOn, TypeInv
  <2>3. Stacks(X, m)
    BY <1>0, <1>3, <1>4, <1>5, <1>7, <2>1, <2>2, TopGoes
  <2> QED BY <2>1, <2>3
<1>10. CallAt(t)'
  BY <1>0, <1>5, <1>6, <1>7 DEF CallInv, CallAt, Knows, TypeInv
<1>11. back => GoesOnWith(w)' /\ AbortAt(w)'
  BY <1>0, <1>4 DEF GoesOnWith, AbortAt, Fn
<1>12. back => CallAt(w)'
  BY <1>0, <1>6, <1>7, <1>11 DEF CallInv, CallAt, TypeInv
<1>13. \A v \in X : Settled(v)
  BY <1>0, <1>3, <1>7, <1>10, <1>11, <1>12 DEF Settled, AbortInv, Listed
<1>14. \A v \in X : v \in Born /\ ~Unstarted(v)
  BY <1>0, <1>3, <1>5, <1>6 DEF Unstarted, Knows
<1>15. /\ \A u \in Waiting' : u \in Waiting /\ u \notin X
       /\ \A i \in 1..m : stack[i].fn = "enter" => stack[i].t \notin X
  BY <1>0, <1>7, <1>9, <1>14 DEF StartInv, Waiting, Born, ListInv
<1>16. /\ Knows("ended", t)' /\ Knows("callback", t)'
       /\ back => Knows("resume", w)'
  BY <1>0, <1>6, <1>7 DEF Knows, TypeInv
<1>17. Plain(X, m)
  <2>1. \A i \in 1..Depth' : i \in 1..m \/ \E fn, v :
          /\ stack'[i] = Fn(fn, v) /\ v \in X /\ Knows(fn, v)'
          /\ fn \notin {"abort", "abortRelated", "complete", "enter"}
    <3> HIDE DEF Knows, Fn
    <3> QED BY <1>3, <1>4, <1>9, <1>16 DEF Old
  <2>2. Born' = Born
    BY <1>7 DEF Born
  <2> QED BY <1>8, <1>9, <1>13, <1>14, <1>15, <2>1, <2>2 DEF Plain
<1> QED BY <1>17, PlainKeeps

\* A step of t starts thread u.
ScriptStarts(t, u, k, c, from, F) ==
  /\ On("step", t) /\ Fresh(u) /\ k # "none"
  /\ threads' = Append(threads, u) /\ running' = running \cup {u}
  /\ kind' = [kind EXCEPT ![u] = k] /\ context' = [context EXCEPT ![u] = c]
  /\ caller' = [caller EXCEPT ![u] = from] /\ from \in {None, t}
  /\ reports' \in {reports, reports \cup {u}}
  /\ resumed' = resumed \ {t} /\ UNCHANGED <<queued, aborted, resuming, slice>>
  /\ \A v \in Threads \ {t} : call'[v] = call[v]
  /\ \/ call'[t] = "none" /\ GoesOnWith(t)'
     \/ call'[t] \in {"function", "eval"} /\ F = {"stepped"} /\ u \in reports' /\ k = call'[t] /\ from = t
  /\ GoesOnWith(u)' /\ F \subseteq {"store", "resume", "stepped"}
  /\ Depth' \in Nat /\ Depth' >= Depth - 1
  /\ \A i \in 1..Depth' :
       Old(i, Depth - 1) \/ (i >= Depth /\ (stack'[i] = Fn("resume", u) \/ \E fn \in F : stack'[i] = Fn(fn, t)))

LEMMA ScriptStartsKeep ==
  ASSUME IInv, SetInv', NEW t \in Threads, NEW u \in Threads, NEW k, NEW c, NEW from, NEW F,
         ScriptStarts(t, u, k, c, from, F)
  PROVE  WaysInv'
<1> USE DEF ScriptStarts
<1>0. /\ Lists /\ TypeInv /\ ListInv /\ ThreadInv /\ SetInv /\ FramesInv /\ ShapeInv /\ StartInv /\ CallInv /\ AbortInv
      /\ Depth \in Nat /\ None \notin Threads /\ Main \notin Threads /\ Born \subseteq Threads /\ Main # None
  BY ThreadTypes DEF IInv, DataInv, Lists, Depth, Born
<1>1. PICK X : X = {t, u}
  OBVIOUS
<1>2. /\ t \in Born /\ Knows("step", t) /\ Depth > 0 /\ stack[Depth].t = t /\ stack[Depth].fn = "step"
      /\ t \notin aborted \cap running
      /\ \A i \in 1..(Depth - 1) : stack[i].fn \notin {"step", "complete"}
      /\ \A i \in 1..(Depth - 1) : stack[i].t = t => stack[i].fn \notin GoesOn \cup {"step", "stepped"}
  BY OnMeans
<1>3. u \notin Born /\ t # u /\ Unstarted(u) /\ \A i \in 1..Depth : stack[i].t # u
  BY <1>0, <1>2 DEF Fresh, StartInv, FramesInv, Fn
<1>4. Listed' = Listed \cup {u}
  BY <1>0, <1>3, AppendElements DEF Unstarted, Listed, Lists
<1>5. PICK m : m = Depth - 1 /\ Stacks(X, m)
  <2>1. PICK m : m = Depth - 1 /\ Depth' >= m
    OBVIOUS
  <2>2. \A i \in 1..m : stack[i].t \in X =>
           /\ \A fn, v : fn = stack[i].fn /\ v = stack[i].t /\ Knows(fn, v) => Knows(fn, v)'
           /\ stack[i].fn = "abort" /\ stack[i].t \in running' => stack[i].t \in running
    BY <1>0, <1>1, <1>2, <1>3, <2>1 DEF Knows, GoesOn
  <2>3. Stacks(X, m)
    BY <1>0, <1>1, <1>2, <2>1, <2>2, TopGoes
  <2> QED BY <2>1, <2>3
<1>6. Moves(X)
  <2>1. \A v \in Threads \ X : Like(v)
    BY <1>0, <1>1, <1>4 DEF Like, TypeInv
  <2>2. \A f \in reports : f \in reports' /\ caller'[f] = caller[f] /\ kind'[f] = kind[f]
    BY <1>0, <1>3 DEF TypeInv, SetInv
  <2> QED BY <1>0, <1>1, <2>1, <2>2 DEF Moves, TypeInv
<1>7. EdgesKeep
  <2>1. \A v \in Born : context[v] # u /\ v # u
    BY <1>0, <1>3 DEF ThreadInv
  <2> QED BY <1>0, <2>1 DEF EdgesKeep, TypeInv, SetInv
<1>8. CallAt(t)' /\ CallAt(u)'
  BY <1>0, <1>2, <1>3 DEF CallAt, Unstarted, Knows, TypeInv
<1>9. \A v \in X : Settled(v)
  BY <1>0, <1>1, <1>2, <1>3, <1>4, <1>8 DEF Settled, Unstarted, TypeInv
<1>10. \A fn \in F : Knows(fn, t)'
  BY <1>0, <1>2 DEF Knows
<1>11. Knows("resume", u)'
  BY <1>0, <1>3 DEF Knows, Unstarted
<1>12. Plain(X, m)
  <2>1. \A i \in 1..Depth' : i \in 1..m \/ \E fn, v :
          /\ stack'[i] = Fn(fn, v) /\ v \in X /\ Knows(fn, v)'
          /\ fn \notin {"abort", "abortRelated", "complete", "enter"}
    <3> HIDE DEF Knows, Fn
    <3> QED BY <1>1, <1>5, <1>10, <1>11 DEF Old
  <2>2. Born \subseteq Born' /\ X \subseteq Born' /\ Waiting' = Waiting
    BY <1>0, <1>1, <1>2 DEF Born, Waiting, TypeInv
  <2>3. ~Unstarted(t)
    BY <1>2 DEF Unstarted, Knows
  <2> QED BY <1>0, <1>1, <1>3, <1>5, <1>6, <1>7, <1>9, <2>1, <2>2, <2>3 DEF Plain, StartInv, ListInv
<1> QED BY <1>12, PlainKeeps

LEMMA StepStartsKeep ==
  ASSUME IInv, SetInv', NEW t \in Threads, NEW u \in Threads
  PROVE  /\ \A k \in {"function", "eval"} : StepCall(t, u, k) => WaysInv'
         /\ \A as \in BOOLEAN : StepFork(t, u, as) => WaysInv'
<1>0. /\ Lists /\ TypeInv /\ Depth \in Nat /\ None \notin Threads
  BY ThreadTypes DEF IInv, DataInv, Lists, Depth
<1>1. ASSUME NEW k \in {"function", "eval"}, StepCall(t, u, k)
      PROVE  WaysInv'
  <2>1. PICK F, c : F = {"stepped"} /\ c = u
    OBVIOUS
  <2>2. On("step", t) /\ Depth \in Nat \ {0} /\ Becomes2(Fn("resume", u), Fn("stepped", t))
    BY <1>0, <1>1, StepCallEffect DEF On
  <2>3. /\ Depth' = Depth + 1 /\ GoesOnWith(u)'
        /\ \A i \in 1..Depth' : \/ Old(i, Depth - 1)
                                \/ i >= Depth /\ stack'[i] = Fn("resume", u)
                                \/ i >= Depth /\ \E fn \in F : stack'[i] = Fn(fn, t)
    BY <2>1, <2>2, Becomes2Frames DEF Becomes2, GoesOnWith, Fn
  <2>4. ScriptStarts(t, u, k, c, t, F)
    BY <1>0, <1>1, <2>1, <2>2, <2>3 DEF ScriptStarts, StepCall, NewThread, Starts, Step, TypeInv
  <2> QED BY <2>4, ScriptStartsKeep
<1>2. ASSUME NEW as \in BOOLEAN, StepFork(t, u, as)
      PROVE  WaysInv'
  <2>1. PICK fn, F, c, k : /\ fn \in {"store", "resume"} /\ fn = (IF as THEN "store" ELSE "resume")
                           /\ F = {"stepped", fn} /\ c = context[t] /\ k = "fork"
    OBVIOUS
  <2>2. On("step", t) /\ Depth \in Nat \ {0} /\ Becomes3(Fn("resume", u), Fn(fn, t), Fn("stepped", t))
    BY <1>0, <1>2, <2>1, StepForkEffect DEF On
  <2>3. /\ Depth' = Depth + 2 /\ GoesOnWith(u)' /\ GoesOnWith(t)'
        /\ \A i \in 1..Depth' : \/ Old(i, Depth - 1)
                                \/ i >= Depth /\ stack'[i] = Fn("resume", u)
                                \/ i >= Depth /\ \E f \in F : stack'[i] = Fn(f, t)
    <3>1. /\ Depth' = Depth + 2
          /\ \A i \in 1..Depth' : \/ Old(i, Depth - 1)
                                  \/ i >= Depth /\ stack'[i] = Fn("resume", u)
                                  \/ i >= Depth /\ stack'[i] = Fn(fn, t)
                                  \/ i >= Depth /\ stack'[i] = Fn("stepped", t)
      BY <2>2, Becomes3Frames
    <3>2. GoesOnWith(u)' /\ GoesOnWith(t)'
      <4>1. Depth + 2 \in 1..Depth' /\ stack'[Depth + 2] = Fn("resume", u)
        BY <2>2, <3>1 DEF Becomes3
      <4>2. Depth + 1 \in 1..Depth' /\ stack'[Depth + 1] = Fn(fn, t)
        BY <2>2, <3>1 DEF Becomes3
      <4>3. \A f, v : Fn(f, v).fn = f /\ Fn(f, v).t = v
        BY DEF Fn
      <4>4. /\ \E i \in 1..Depth' : stack'[i].t = u /\ stack'[i].fn = "resume"
            /\ \E i \in 1..Depth' : stack'[i].t = t /\ stack'[i].fn = fn
        BY <4>1, <4>2, <4>3
      <4> QED BY <2>1, <4>4 DEF GoesOnWith
    <3> HIDE DEF Fn, Old
    <3> QED BY <2>1, <3>1, <3>2
  <2>4. call[t] = "none"
    BY <2>2, OnMeans DEF Knows
  <2>5. ScriptStarts(t, u, k, c, None, F)
    <3>1. F \subseteq {"store", "resume", "stepped"} /\ None \in {None, t} /\ k # "none"
      BY <2>1
    <3>2. /\ Fresh(u) /\ threads' = Append(threads, u) /\ running' = running \cup {u}
          /\ kind' = [kind EXCEPT ![u] = k] /\ context' = [context EXCEPT ![u] = c]
          /\ caller' = [caller EXCEPT ![u] = None] /\ reports' \in {reports, reports \cup {u}}
          /\ resumed' = resumed \ {t} /\ UNCHANGED <<queued, aborted, resuming, slice, call>>
      BY <1>2, <2>1 DEF StepFork, NewThread, Starts, Step
    <3> HIDE DEF Fn, Old
    <3> QED BY <2>2, <2>3, <2>4, <3>1, <3>2 DEF ScriptStarts
  <2> QED BY <2>5, ScriptStartsKeep
<1> QED BY <1>1, <1>2

\* A thread has ended: it is taken from the list, and the next of the queue may start.
LEMMA EndedKeeps ==
  ASSUME IInv, SetInv', NEW t \in Threads, Ended(t)
  PROVE  WaysInv'
<1> USE DEF loopVars, newVars
<1>0. /\ Lists /\ TypeInv /\ ListInv /\ ThreadInv /\ SetInv /\ FramesInv /\ ShapeInv /\ StartInv /\ CallInv /\ AbortInv
      /\ Depth \in Nat /\ None \notin Threads /\ Main \notin Threads /\ Born \subseteq Threads /\ Main # None
  BY ThreadTypes DEF IInv, DataInv, Lists, Depth, Born
<1>1. PICK rest, h, next :
        /\ rest = Except(threads, t) /\ h = Head(queued)
        /\ next = (context[t] = Main /\ MayStartNext(Select(rest, {u \in Threads : context[u] = Main})))
  OBVIOUS
<1>2. PICK X : X = IF next THEN {t, h} ELSE {t}
  OBVIOUS
<1>3. /\ threads' = IF next THEN Append(rest, h) ELSE rest
      /\ queued' = IF next THEN Tail(queued) ELSE queued
      /\ running' = IF next THEN running \cup {h} ELSE running
      /\ context' = [context EXCEPT ![t] = None]
      /\ UNCHANGED <<kind, caller, loopVars, reports>>
  BY <1>1 DEF Ended
<1>4. /\ On("ended", t) /\ Depth' \in Nat /\ Depth' >= Depth - 1
      /\ next => Depth \in 1..Depth' /\ stack'[Depth] = Fn("resume", h)
      /\ \A i \in 1..Depth' : Old(i, Depth - 1) \/ (i >= Depth /\ next /\ stack'[i] = Fn("resume", h))
  <2>1. On("ended", t) /\ Depth \in Nat \ {0} /\ IF next THEN Becomes1(Fn("resume", h)) ELSE Pops
    BY <1>0, <1>1, EndedEffect DEF On
  <2> QED BY <2>1, Becomes1Frames, PopsFrames DEF Becomes1
<1>5. /\ t \in Born /\ t \notin running /\ Depth > 0 /\ stack[Depth].t = t /\ stack[Depth].fn = "ended"
  BY <1>4, OnMeans DEF Knows
<1>6. next => /\ h \in Waiting /\ h \in Threads /\ h # t /\ Unstarted(h) /\ context[h] = Main
              /\ \A i \in 1..Depth : stack[i].t # h
  <2>1. next => h \in Waiting /\ h \in Threads
    BY <1>0, <1>1, TailElements DEF MayStartNext, Lists, Waiting, ListInv
  <2> QED BY <1>0, <1>5, <2>1 DEF StartInv
<1>7. /\ Listed' = IF next THEN (Listed \ {t}) \cup {h} ELSE Listed \ {t}
      /\ Waiting' = IF next THEN Waiting \ {h} ELSE Waiting
  <2>1. rest \in Seq(Threads) /\ Range(rest) = Listed \ {t}
    BY <1>0, <1>1, ExceptProperties DEF Lists, Listed
  <2>2. next => Range(Append(rest, h)) = Range(rest) \cup {h}
    BY <1>6, <2>1, AppendElements DEF Unstarted
  <2>3. next => queued # <<>> /\ Range(Tail(queued)) = Waiting \ {h}
    BY <1>0, <1>1, TailElements DEF MayStartNext, Lists, Waiting, ListInv
  <2> QED BY <1>3, <2>1, <2>2, <2>3 DEF Listed, Waiting
<1>8. Moves(X) /\ EdgesKeep /\ Born' = Born
  <2>1. \A v \in Threads \ X : Like(v)
    BY <1>0, <1>2, <1>3, <1>7 DEF Like, TypeInv
  <2>2. EdgesKeep
    BY <1>0, <1>3 DEF EdgesKeep, TypeInv, SetInv
  <2> QED BY <1>3, <2>1, <2>2 DEF Moves, Born
<1>9. PICK m : m = Depth - 1 /\ Stacks(X, m)
  <2>1. PICK m : m = Depth - 1 /\ Depth' >= m
    BY <1>4
  <2>2. \A i \in 1..m : stack[i].t \in X =>
           /\ \A fn, v : fn = stack[i].fn /\ v = stack[i].t /\ Knows(fn, v) => Knows(fn, v)'
           /\ stack[i].fn = "abort" /\ stack[i].t \in running' => stack[i].t \in running
    BY <1>0, <1>2, <1>3, <1>5, <1>6, <2>1 DEF Knows
  <2>3. Stacks(X, m)
    BY <1>0, <1>2, <1>4, <1>5, <2>1, <2>2, TopGoes DEF GoesOn
  <2> QED BY <2>1, <2>3
<1>10. CallAt(t)'
  BY <1>0, <1>3, <1>5, <1>6 DEF CallInv, CallAt, ThreadInv
<1>11. next => CallAt(h)'
  <2>1. next => GoesOnWith(h)'
    BY <1>4 DEF GoesOnWith, Fn
  <2> QED BY <1>3, <1>6, <2>1 DEF CallAt, Unstarted
<1>12. \A v \in X : Settled(v)
  BY <1>0, <1>2, <1>3, <1>5, <1>6, <1>10, <1>11 DEF Settled, Unstarted, TypeInv
<1>13. next => Knows("resume", h)'
  BY <1>3, <1>6 DEF Knows, Unstarted
<1>14. \A i \in 1..m : stack[i].fn = "enter" => stack[i].t \notin X
  BY <1>0, <1>2, <1>5, <1>6, <1>9 DEF StartInv
<1>15. Plain(X, m)
  <2>1. \A i \in 1..Depth' : i \in 1..m \/ \E fn, v :
          /\ stack'[i] = Fn(fn, v) /\ v \in X /\ Knows(fn, v)'
          /\ fn \notin {"abort", "abortRelated", "complete", "enter"}
    <3> HIDE DEF Knows, Fn
    <3> QED BY <1>2, <1>4, <1>9, <1>13 DEF Old
  <2>2. X \subseteq Born /\ \A u \in Waiting' : u \in Waiting /\ u \notin X
    BY <1>0, <1>2, <1>5, <1>6, <1>7 DEF ListInv, StartInv
  <2> QED BY <1>8, <1>9, <1>12, <1>14, <2>1, <2>2 DEF Plain
<1> QED BY <1>15, PlainKeeps

LEMMA WaysInvKeeps ==
  ASSUME IInv, Next, AbortsOnStack = FALSE
  PROVE  WaysInv'
<1>1. SetInv'
  BY DataInvKeeps DEF DataInv
<1> HIDE DEF WaysInv
<1>2. CASE AppStep
  BY <1>1, <1>2, ExecuteKeeps, AbortStepsKeep DEF AppStep
<1>3. CASE TimerStep
  BY <1>1, <1>3, OwnStepsKeep DEF TimerStep
<1>4. CASE ThreadStep
  BY <1>1, <1>4, AbortStepsKeep, EnterQueuedKeeps, OwnStepsKeep, CompleteKeeps, StepStartsKeep, EndedKeeps
     DEF ThreadStep
<1> QED BY <1>2, <1>3, <1>4 DEF Next

LEMMA IInvInit == Init => IInv
<1> SUFFICES ASSUME Init PROVE IInv
  OBVIOUS
<1>1. /\ Depth = 0 /\ Born = {} /\ Listed = {} /\ Waiting = {}
      /\ None \in 0..MaxThreads /\ None \in 0..Main
  BY ThreadTypes DEF Init, Depth, Born, Listed, Waiting, Range, None, Main
<1>2. Lists
  BY DEF Init, Lists
<1>3. TypeInv
  <2>1. MaxSteps \in 0..MaxSteps
    BY ThreadConstants
  <2>2. kind \in [Threads -> Kinds] /\ call \in [Threads -> Calls] /\ flags \in [Threads -> SUBSET AllFlags]
    BY DEF Init, Kinds, Calls
  <2>3. caller \in [Threads -> 0..MaxThreads] /\ context \in [Threads -> 0..Main]
    BY <1>1 DEF Init
  <2>4. steps \in [Threads -> 0..MaxSteps] /\ calls \in [Threads -> 0..2]
    BY <2>1 DEF Init
  <2> QED BY <2>2, <2>3, <2>4 DEF Init, TypeInv
<1>4. ListInv /\ SetInv
  BY <1>1 DEF Init, ListInv, SetInv, IsInjective
<1>5. FramesInv /\ ShapeInv /\ FrameInv /\ ClearInv
  BY <1>1 DEF FramesInv, ShapeInv, FrameInv, ClearInv
<1>6. ExecInv
  BY <1>1 DEF Init, ExecInv
<1>7. StartInv
  BY <1>1, ThreadTypes DEF Init, StartInv, Unstarted, None, Threads
<1>8. CallInv
  BY <1>1 DEF Init, CallInv, CallAt
<1>9. ThreadInv
  BY <1>1 DEF Init, ThreadInv
<1>10. AbortInv
  BY DEF Init, AbortInv
<1> QED BY <1>2, <1>3, <1>4, <1>5, <1>6, <1>7, <1>8, <1>9, <1>10 DEF IInv, DataInv

LEMMA IInvStutters ==
  ASSUME IInv, UNCHANGED vars
  PROVE  IInv'
<1>1. /\ Depth' = Depth /\ Born' = Born /\ Listed' = Listed /\ Waiting' = Waiting
      /\ UNCHANGED <<stack, threads, queued, dropped, kind, flags, caller, context, running>>
      /\ UNCHANGED <<aborted, resuming, resumed, slice, call, reports, steps, calls, broken>>
  BY DEF vars, listVars, newVars, loopVars, Depth, Born, Listed, Waiting
<1>2. DataInv'
  BY <1>1 DEF IInv, DataInv, Lists, TypeInv, ListInv, SetInv
<1>3. FramesInv' /\ ShapeInv' /\ FrameInv'
  BY <1>1 DEF IInv, FramesInv, ShapeInv, ShapeAt, FrameInv, Knows
<1>4. ExecInv'
  BY <1>1 DEF IInv, ExecInv, Executes
<1>5. \A i : Awaited(i)' = Awaited(i)
  BY <1>1 DEF Awaited, WithCallers, Below, ClosedUnderCalls
<1>6. ClearInv'
  BY <1>1, <1>5 DEF IInv, ClearInv, ClearAt
<1>7. StartInv'
  BY <1>1 DEF IInv, StartInv, Unstarted
<1>8. CallInv'
  BY <1>1 DEF IInv, CallInv, CallAt, GoesOnWith
<1>9. ThreadInv'
  BY <1>1 DEF IInv, ThreadInv
<1>10. AbortInv'
  BY <1>1 DEF IInv, AbortInv, AbortAt
<1> QED BY <1>2, <1>3, <1>4, <1>6, <1>7, <1>8, <1>9, <1>10 DEF IInv

LEMMA IInvHolds == AbortsOnStack = FALSE => (Spec => []IInv)
<1> SUFFICES ASSUME AbortsOnStack = FALSE PROVE Spec => []IInv
  OBVIOUS
<1>1. Init => IInv
  BY IInvInit
<1>2. IInv /\ [Next]_vars => IInv'
  <2>1. ASSUME IInv, Next PROVE IInv'
    BY <2>1, DataInvKeeps, FramesInvKeeps, ShapeInvKeeps, ExecInvKeeps, ThreadInvKeeps, WaysInvKeeps
       DEF IInv, WaysInv
  <2> QED BY <2>1, IInvStutters
<1> QED BY <1>1, <1>2, PTL DEF Spec

\* An aborted thread that executes waits for a younger one, when nothing is under way.
LEMMA AbortedAwaitsAborted ==
  ASSUME IInv, stack = <<>>, NEW t \in aborted \cap running
  PROVE  \E f \in aborted \cap running : t < f
<1>0. Depth = 0
  BY DEF Depth
<1>00. /\ t \in Threads /\ reports \subseteq Threads /\ Threads \subseteq Nat /\ None \notin Threads
  BY ThreadTypes DEF IInv, DataInv, SetInv, Born, Threads, None
<1>1. AbortAt(t)
  BY DEF IInv, AbortInv
<1>2. PICK f \in reports : caller[f] = t /\ kind[f] = "function" /\ f \in aborted
  BY <1>0, <1>1 DEF AbortAt
<1>3. f \in running /\ t < f
  BY <1>00, <1>2 DEF IInv, ThreadInv
<1> QED BY <1>2, <1>3

LEMMA IInvEnds ==
  ASSUME IInv
  PROVE  AbortedThreadsEnd
<1> SUFFICES ASSUME stack = <<>>, aborted \cap running # {} PROVE FALSE
  BY DEF AbortedThreadsEnd
<1>1. \A t \in aborted \cap running : t \in Nat /\ t <= MaxThreads
  BY ThreadTypes DEF IInv, DataInv, SetInv, Born, Threads
<1>2. PICK S : S = {MaxThreads - t : t \in aborted \cap running}
  OBVIOUS
<1>3. S \in SUBSET Nat /\ S # {}
  BY <1>1, <1>2, ThreadConstants
<1>4. PICK m \in S : \A k \in S : m <= k
  BY <1>3, LeastNatural
<1>5. PICK t \in aborted \cap running : m = MaxThreads - t
  BY <1>2, <1>4
<1>6. PICK f \in aborted \cap running : t < f
  BY <1>5, AbortedAwaitsAborted
<1>7. MaxThreads - f \in S
  BY <1>2, <1>6
<1>8. m <= MaxThreads - f
  BY <1>4, <1>7
<1> QED BY <1>1, <1>5, <1>6, <1>8, ThreadConstants

LEMMA IInvTypes ==
  ASSUME IInv
  PROVE  TypeOK
<1>0. DataInv /\ Lists /\ TypeInv /\ ListInv /\ SetInv /\ ExecInv /\ StartInv /\ ThreadInv /\ CallInv
  BY DEF IInv, DataInv
<1>1. stack \in Seq([fn : Functions, t : 0..MaxThreads])
  BY <1>0 DEF Lists, Frames
<1>2. threads \in Seq(Born) /\ queued \in Seq(Born)
  <2>1. \A s \in Seq(Threads) : Range(s) \subseteq Born => s \in Seq(Born)
    <3> SUFFICES ASSUME NEW s \in Seq(Threads), Range(s) \subseteq Born PROVE s \in Seq(Born)
      OBVIOUS
    <3>1. \A i \in 1..Len(s) : s[i] \in Born
      BY DEF Range
    <3> QED BY <3>1
  <2> QED BY <1>0, <2>1 DEF Lists, ListInv, Listed, Waiting
<1>3. Listed \cap Waiting = {}
  BY <1>0 DEF StartInv, Unstarted, Lists, Waiting, Range
<1>4. resuming \subseteq running \cup {stack[i].t : i \in DOMAIN stack}
  <2> SUFFICES ASSUME NEW t \in resuming PROVE \E i \in DOMAIN stack : stack[i].t = t
    OBVIOUS
  <2>1. \E i \in 1..Depth : Executes(i, t)
    BY <1>0 DEF ExecInv, TypeInv
  <2>2. DOMAIN stack = 1..Depth
    BY <1>0 DEF Lists, Depth
  <2> QED BY <2>1, <2>2 DEF Executes
<1>5. resumed \subseteq Born
  BY <1>0 DEF ThreadInv, SetInv
<1> QED BY <1>0, <1>1, <1>2, <1>3, <1>4, <1>5 DEF TypeOK, TypeInv, ListInv, SetInv, ThreadInv

LEMMA IInvAwaits ==
  ASSUME IInv
  PROVE  SuspendedIsAwaited
<1> SUFFICES ASSUME stack = <<>>, NEW t \in running
             PROVE  \/ t \in slice \/ call[t] = "delay"
                    \/ call[t] \in {"function", "eval"} /\ \E f \in running \cap reports : caller[f] = t
  BY IInvTypes DEF SuspendedIsAwaited
<1>0. /\ Depth = 0 /\ t \in Threads /\ DataInv /\ TypeInv /\ SetInv /\ CallInv /\ ThreadInv /\ ExecInv
      /\ reports \subseteq Threads
  BY ThreadTypes DEF Depth, IInv, DataInv, SetInv, Born
<1>1. CallAt(t)
  BY <1>0 DEF CallInv
<1>2. t \notin resuming
  BY <1>0 DEF ExecInv
<1>3. call[t] # "builtin"
  BY <1>0, <1>1 DEF CallAt
<1>4. call[t] = "none" => t \in slice
  BY <1>0, <1>1, <1>2 DEF CallAt, GoesOnWith
<1>5. call[t] \in {"function", "eval"} => \E f \in running \cap reports : caller[f] = t
  BY <1>0, <1>1 DEF CallAt, ThreadInv
<1> QED BY <1>0, <1>3, <1>4, <1>5 DEF TypeInv, Calls

\* An aborted thread has ended when control is back in the mainloop, as long as
\* nobody aborts a thread that waits for a function that is under way.
THEOREM AbortedThreadsEndHolds == AbortsOnStack = FALSE => (Spec => []AbortedThreadsEnd)
<1>1. IInv => AbortedThreadsEnd
  BY IInvEnds
<1> QED BY <1>1, IInvHolds, PTL

\* A suspended thread waits for a timer or for a function that is still executing.
THEOREM SuspendedIsAwaitedHolds == AbortsOnStack = FALSE => (Spec => []SuspendedIsAwaited)
<1>1. IInv => SuspendedIsAwaited
  BY IInvAwaits
<1> QED BY <1>1, IInvHolds, PTL

\* The thread that code evaluated by eval() runs in has its context to itself, as
\* long as such code forks no blocks; and no null pointer has been used so far.
OwnContext(t) ==
  "mainthread" \in flags[t] =>
    /\ context[t] \in {t, None}
    /\ \A u \in Born : context[u] = t => u = t

FamilyInv == ~broken /\ \A t \in Born : OwnContext(t)

\* Nothing changes for threads that exist when another one joins, unless that joins
\* one that has its context to itself.
LEMMA FamilyGrows ==
  ASSUME FamilyInv, TypeInv, ThreadInv, broken' = broken, NEW t \in Threads, t \notin Born,
         NEW k \in Kinds \ {"none"}, NEW c \in 0..Main, NEW fs \in SUBSET AllFlags, NEW from,
         NewThread(t, k, c, fs, from),
         "mainthread" \in fs => c = t,
         c \in Born => "mainthread" \notin flags[c]
  PROVE  FamilyInv'
<1>1. /\ Born' = Born \cup {t} /\ flags'[t] = fs /\ context'[t] = c
      /\ \A u \in Threads \ {t} : flags'[u] = flags[u] /\ context'[u] = context[u] /\ kind'[u] = kind[u]
  BY DEF NewThread, TypeInv, Born, Kinds
<1>2. \A u \in Born : u \in Threads /\ u # t /\ context[u] # t
  BY ThreadTypes DEF ThreadInv, Born
<1>3. ASSUME NEW u \in Born PROVE OwnContext(u)'
  BY <1>1, <1>2, <1>3 DEF FamilyInv, OwnContext
<1>4. OwnContext(t)'
  BY <1>1, <1>2 DEF OwnContext
<1> QED BY <1>1, <1>3, <1>4 DEF FamilyInv

\* A thread that stores what it has forked still has its context, and one that ends
\* has no sibling if it is the main thread.
LEMMA NothingBreaks ==
  ASSUME IInv, FamilyInv, NEW t \in Threads, Store(t) \/ Ended(t)
  PROVE  ~broken'
<1>0. /\ DataInv /\ Lists /\ ListInv /\ FrameInv /\ ThreadInv /\ TypeInv /\ ShapeInv /\ ExecInv /\ StartInv
  BY DEF IInv, DataInv
<1>1. CASE Store(t)
  <2>1. On("store", t)
    BY <1>0, <1>1, StoreEffect
  <2>2. t \in running
    BY <1>0, <2>1 DEF FrameInv, On, Fn, Knows
  <2> QED BY <1>0, <1>1, <2>2 DEF Store, ThreadInv, FamilyInv
<1>2. CASE Ended(t)
  <2>1. PICK rest : rest = Except(threads, t)
    OBVIOUS
  <2>2. Range(rest) = Listed \ {t} /\ rest \in Seq(Threads)
    BY <1>0, <2>1, ExceptProperties DEF Lists, Listed
  <2>3. ASSUME NEW i \in DOMAIN rest, "mainthread" \in flags[t], context[rest[i]] = context[t]
        PROVE  FALSE
    <3>1. PICK u : u = rest[i]
      OBVIOUS
    <3>2. u \in Born /\ u # t /\ context[u] # None
      BY <1>0, <2>2, <3>1 DEF Range, ListInv
    <3>3. On("ended", t)
      BY <1>0, <1>2, EndedEffect
    <3>4. t \in Born
      <4>1. t # None
        BY ThreadTypes
      <4> QED BY <3>3, <4>1, OnBorn DEF IInv
    <3> QED BY <2>3, <3>1, <3>2, <3>4 DEF FamilyInv, OwnContext
  <2>4. broken' = \E i \in DOMAIN rest :
                    "mainthread" \in flags[t] /\ context[rest[i]] = context[t] /\ rest[i] \in running
    BY <1>2, <2>1 DEF Ended
  <2> QED BY <2>3, <2>4
<1> QED BY <1>1, <1>2

LEMMA FamilyInvKeeps ==
  ASSUME IInv, FamilyInv, Next, "forkInEval" \notin ScriptDoes
  PROVE  FamilyInv'
<1>0. /\ DataInv /\ Lists /\ ListInv /\ FramesInv /\ ThreadInv /\ TypeInv /\ ShapeInv /\ ExecInv
  BY DEF IInv, DataInv
<1>00. \A t \in Threads : t \in 0..Main /\ t # Main /\ t # None
  BY ThreadTypes DEF Threads, Main, None
<1>000. Main \notin Born
  BY ThreadTypes DEF Born
<1>1. /\ Stop => UNCHANGED <<kind, flags, context, broken>>
      /\ \A t \in 0..MaxThreads : AbortRelated(t) => UNCHANGED <<kind, flags, context, broken>>
      /\ \A t, u \in Threads : StepAbort(t, u) => UNCHANGED <<kind, flags, context, broken>>
  BY DEF Stop, AbortRelated, StepAbort, BuiltinCalled, newVars, loopVars
<1>2. \A t \in Threads : EnterQueued(t) \/ EnterBusy(t) \/ EnterStarts(t) \/ ResumeNested(t) \/ ResumeAborted(t) \/ ResumeLoop(t) =>
        UNCHANGED <<kind, flags, context, broken>>
  BY DEF EnterQueued, EnterBusy, EnterStarts, ResumeNested, ResumeAborted, ResumeLoop, BuiltinCalled, newVars, loopVars
<1>3. \A t \in Threads : Stepped(t) \/ TimeSlice(t) \/ StepEnds(t) \/ StepDelay(t) \/ StepAbortOwnChain(t) \/ StepAbortOthers(t) =>
        UNCHANGED <<kind, flags, context, broken>>
  BY DEF Stepped, TimeSlice, StepEnds, StepDelay, StepAbortOwnChain, StepAbortOthers, BuiltinCalled, newVars, loopVars
<1>4. \A t \in Threads : Return(t) \/ AbortEnded(t) \/ AbortAlone(t) \/ AbortBuiltin(t) \/ AbortFunction(t) =>
        UNCHANGED <<kind, flags, context, broken>>
  BY DEF Return, AbortEnded, AbortAlone, AbortBuiltin, AbortFunction, BuiltinCalled, newVars, loopVars
<1>5. \A t \in Threads : Complete(t) \/ CallbackReturns(t) \/ SliceOver(t) \/ DelayOver(t) =>
        UNCHANGED <<kind, flags, context, broken>>
  BY DEF Complete, CallbackReturns, SliceOver, DelayOver, BuiltinCalled, newVars, loopVars
<1>6. UNCHANGED <<kind, flags, context, broken>> => FamilyInv'
  BY DEF FamilyInv, OwnContext, Born
<1>7. ASSUME NEW t \in Threads, NEW mode \in RunModes, Execute(t, mode)
     PROVE  FamilyInv'
  <2>1. broken' = broken /\ t \notin Born /\ NewThread(t, "top", Main, mode, None)
    BY <1>7 DEF Execute, NewThread, Fresh
  <2>2. mode \in SUBSET AllFlags /\ "mainthread" \notin mode
    BY ThreadConstants DEF AllFlags
  <2>3. "top" \in Kinds \ {"none"} /\ Main \in 0..Main
    BY ThreadTypes DEF Kinds
  <2> QED BY <1>0, <1>000, <2>1, <2>2, <2>3, FamilyGrows
<1>8. ASSUME NEW t \in Threads, Store(t)
      PROVE  FamilyInv'
  <2>1. UNCHANGED <<kind, flags, context>>
    BY <1>8 DEF Store, newVars
  <2> QED BY <1>8, <2>1, NothingBreaks DEF FamilyInv, OwnContext, Born
<1>9. ASSUME NEW t \in Threads, Ended(t)
      PROVE  FamilyInv'
  <2>1. UNCHANGED <<kind, flags>> /\ context' = [context EXCEPT ![t] = None]
    BY <1>9 DEF Ended, newVars
  <2>2. ~broken'
    BY <1>9, NothingBreaks
  <2>3. \A u \in Born : u \in Threads /\ u # None
    BY <1>00 DEF Born
  <2> QED BY <1>0, <2>1, <2>2, <2>3 DEF FamilyInv, OwnContext, Born, TypeInv
<1>10. ASSUME NEW t \in Threads, NEW u \in Threads, NEW k \in {"function", "eval"}, StepCall(t, u, k)
      PROVE  FamilyInv'
  <2>1. PICK fs : fs = IF k = "function" THEN flags[t] ELSE {"mainthread"}
    OBVIOUS
  <2>2. broken' = broken /\ u \notin Born /\ NewThread(u, k, u, fs, t)
    BY <1>10, <2>1 DEF StepCall, NewThread, Fresh
  <2>3. fs \in SUBSET AllFlags /\ k \in Kinds \ {"none"} /\ u \in 0..Main
    BY <1>0, <1>00, <2>1 DEF AllFlags, Kinds, TypeInv
  <2> QED BY <1>0, <2>2, <2>3, FamilyGrows
<1>11. ASSUME NEW t \in Threads, NEW u \in Threads, NEW as \in BOOLEAN, StepFork(t, u, as)
      PROVE  FamilyInv'
  <2>1. PICK c : c = context[t]
    OBVIOUS
  <2>2. broken' = broken /\ u \notin Born /\ NewThread(u, "fork", c, {"concurrently"}, None)
    BY <1>11, <2>1 DEF StepFork, NewThread, Fresh
  <2>3. {"concurrently"} \in SUBSET AllFlags /\ "fork" \in Kinds \ {"none"} /\ c \in 0..Main
    BY <1>0, <2>1 DEF AllFlags, Kinds, TypeInv
  <2>4. c \in Born => "mainthread" \notin flags[c]
    <3>1. On("step", t)
      BY <1>0, <1>11, StepForkEffect
    <3>2. t \in Born
      BY <1>0, <3>1, OnBorn
    <3>3. "mainthread" \notin flags[t]
      BY <1>11 DEF StepFork
    <3> QED BY <2>1, <3>2, <3>3 DEF FamilyInv, OwnContext
  <2> QED BY <1>0, <2>2, <2>3, <2>4, FamilyGrows
<1> QED BY <1>1, <1>2, <1>3, <1>4, <1>5, <1>6, <1>7, <1>8, <1>9, <1>10, <1>11
       DEF Next, AppStep, ThreadStep, TimerStep

\* No null pointer is used, as long as nobody aborts a thread that waits for a
\* function under way, and code evaluated by eval() forks no blocks.
THEOREM NoNullPointerHolds ==
  AbortsOnStack = FALSE /\ "forkInEval" \notin ScriptDoes => (Spec => []NoNullPointer)
<1> SUFFICES ASSUME AbortsOnStack = FALSE, "forkInEval" \notin ScriptDoes
             PROVE  Spec => []NoNullPointer
  OBVIOUS
<1>1. Spec => []IInv
  BY IInvHolds
<1>2. Init => FamilyInv
  BY DEF Init, FamilyInv, Born
<1>3. IInv /\ FamilyInv /\ [Next]_vars => FamilyInv'
  <2>1. FamilyInv /\ UNCHANGED vars => FamilyInv'
    BY DEF vars, newVars, FamilyInv, OwnContext, Born
  <2> QED BY <2>1, FamilyInvKeeps
<1>4. FamilyInv => NoNullPointer
  BY DEF FamilyInv, NoNullPointer
<1> QED BY <1>1, <1>2, <1>3, <1>4, PTL DEF Spec

=============================================================================
