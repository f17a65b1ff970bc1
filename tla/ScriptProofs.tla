---------------------------- MODULE ScriptProofs ----------------------------
(***************************************************************************)
(* Proofs about ScriptEvents, for any number of sources, handlers and      *)
(* awaits, and about ScriptLocks, for any number of threads, however deep  *)
(* their functions call each other and however often they enter the lock.  *)
(*                                                                         *)
(* Events: an iterator whose element has been erased is never used because *)
(* the flag that says so is set, and nobody resets it but the innermost    *)
(* walk of the source, which is the one it has been set for.               *)
(*                                                                         *)
(* Locks: whether the lock does its work rests on what a chain of thread   *)
(* objects is: one object runs or waits, and it has the most callers, so   *)
(* that the origin runs only when it is alone.                             *)
(***************************************************************************)
EXTENDS ScriptEvents, ScriptLocks, ListLemmas

-----------------------------------------------------------------------------
\* Scripts and handlers do nothing in the wrong moment.
CarefulScripts == Reenters = {}

\* A frame of sendEvent().
IsWalk(f) == f.fn = "send"

\* Walks in `st', given the maps `sm' and the flags `md': an iterator is at a sink of `visits' that
\* is registered; when the handler has been erased, the flag is set, and no other walk of the source,
\* which would reset it, is nearer to the top.  Sinks still to be visited are registered, and
\* ahead of the iterator.
WalksSound(st, sm, md, visits) ==
  \A i \in DOMAIN st : IsWalk(st[i]) =>
    /\ st[i].pos \in (sm[st[i].src] \cap visits) \cup {Begin, Erased}
    /\ st[i].pos = Erased =>
         /\ md[st[i].src]
         /\ \A j \in DOMAIN st : IsWalk(st[j]) /\ st[j].src = st[i].src => j <= i
    /\ st[i].todo \subseteq sm[st[i].src]
    /\ st[i].pos # Erased => \A k \in st[i].todo : k > st[i].pos

\* timeout() of an await is the outermost function, its sink is there, and no walk gets to it.
TimeoutSound(st, sm) ==
  \A i \in DOMAIN st : st[i].fn = "timeout" =>
    /\ i = 1 /\ st[i].sink \in Awaits \ freed /\ await[st[i].sink] = "resumed"
    /\ \A j \in DOMAIN st : IsWalk(st[j]) => st[i].sink \notin sm[st[j].src]

\* Await k is being resumed by its timeout().
TimesOut(k) == stack # <<>> /\ stack[1] = Frame("timeout", k)

\* The sink of an await exists until the await is over, and answers once.
AwaitsSound ==
  /\ \A k \in Awaits :
       /\ await[k] \in {"none", "waiting"} => k \notin freed
       /\ k \in timer => await[k] = "waiting"
       /\ \A s \in Sources : k \in sinks[s] => await[k] = "waiting" \/ TimesOut(k)
  /\ \A i \in DOMAIN pending : pending[i] \in freed
  /\ \A i, j \in DOMAIN pending : pending[i] = pending[j] => i = j

EventsInv ==
  /\ NothingDangles
  /\ WalksSound(stack, sinks, modified, Handlers)
  /\ TimeoutSound(stack, sinks)
  /\ AwaitsSound

-----------------------------------------------------------------------------
LEMMA SinkFacts ==
  /\ Sinks \in SUBSET Nat /\ 0 \notin Sinks /\ Handlers \in SUBSET Sinks /\ Awaits \in SUBSET Sinks
  /\ Handlers \cap Awaits = {} /\ Begin = 0 /\ Erased \in Int /\ Erased < 0
BY EventConstants DEF Sinks, Begin, Erased

LEMMA FrameTypes ==
  /\ \A f \in Frames : IsWalk(f) =>
       /\ f.src \in Sources /\ f.todo \in SUBSET Sinks /\ f.pos \in Sinks \cup {Begin, Erased}
  /\ \A f \in Frames : ~IsWalk(f) => f.sink \in Sinks /\ f.fn \in {"handler", "script", "timeout"}
  /\ \A k \in Sinks, fn \in {"handler", "script", "timeout"} :
       /\ Frame(fn, k) \in Frames /\ ~IsWalk(Frame(fn, k))
       /\ Frame(fn, k).fn = fn /\ Frame(fn, k).sink = k
<1>1. ASSUME NEW f \in Frames, IsWalk(f)
      PROVE  /\ f.src \in Sources /\ f.todo \in SUBSET Sinks /\ f.pos \in Sinks \cup {Begin, Erased}
             /\ f \in [fn : {"send"}, src : Sources, pos : Sinks \cup {Begin, Erased}, todo : SUBSET Sinks]
  BY <1>1 DEF Frames, IsWalk
<1>3. ASSUME NEW f \in Frames, ~IsWalk(f)
      PROVE  f.sink \in Sinks /\ f.fn \in {"handler", "script", "timeout"}
  BY <1>3 DEF Frames, IsWalk
<1>4. ASSUME NEW k \in Sinks, NEW fn \in {"handler", "script", "timeout"}
      PROVE  /\ Frame(fn, k) \in Frames /\ ~IsWalk(Frame(fn, k))
             /\ Frame(fn, k).fn = fn /\ Frame(fn, k).sink = k
  BY <1>4 DEF Frames, IsWalk, Frame
<1> QED BY <1>1, <1>3, <1>4

\* Frames that stay, while nothing is erased, stay sound.
LEMMA WalksKept ==
  ASSUME NEW st, NEW st2, NEW sm, NEW sm2, NEW md, NEW md2, NEW visits,
         WalksSound(st, sm, md, visits),
         \A i \in DOMAIN st2 : IsWalk(st2[i]) =>
           /\ i \in DOMAIN st /\ st2[i] = st[i]
           /\ sm[st[i].src] \subseteq sm2[st[i].src] /\ (md[st[i].src] => md2[st[i].src])
  PROVE  WalksSound(st2, sm2, md2, visits)
<1> SUFFICES ASSUME NEW i \in DOMAIN st2, IsWalk(st2[i])
             PROVE  /\ st2[i].pos \in (sm2[st2[i].src] \cap visits) \cup {Begin, Erased}
                    /\ st2[i].pos = Erased =>
                         /\ md2[st2[i].src]
                         /\ \A j \in DOMAIN st2 : IsWalk(st2[j]) /\ st2[j].src = st2[i].src => j <= i
                    /\ st2[i].todo \subseteq sm2[st2[i].src]
                    /\ st2[i].pos # Erased => \A k \in st2[i].todo : k > st2[i].pos
  BY DEF WalksSound
<1>1. /\ i \in DOMAIN st /\ st2[i] = st[i] /\ IsWalk(st[i])
      /\ sm[st[i].src] \subseteq sm2[st[i].src] /\ (md[st[i].src] => md2[st[i].src])
  OBVIOUS
<1>2. /\ st[i].pos \in (sm[st[i].src] \cap visits) \cup {Begin, Erased}
      /\ st[i].pos = Erased =>
           /\ md[st[i].src]
           /\ \A j \in DOMAIN st : IsWalk(st[j]) /\ st[j].src = st[i].src => j <= i
      /\ st[i].todo \subseteq sm[st[i].src]
      /\ st[i].pos # Erased => \A k \in st[i].todo : k > st[i].pos
  BY <1>1, Zenon DEF WalksSound
<1>3. st[i].pos = Erased =>
        \A j \in DOMAIN st2 : IsWalk(st2[j]) /\ st2[j].src = st2[i].src => j <= i
  BY <1>1, <1>2, Zenon
<1> QED BY <1>1, <1>2, <1>3

\* What erasing a sink does to the functions under way.
LEMMA EraseEffect ==
  ASSUME NEW st \in Seq(Frames), NEW k \in Sinks, NEW S, Erase(k, S, st)
  PROVE  /\ stack' \in Seq(Frames) /\ DOMAIN stack' = DOMAIN st
         /\ \A i \in DOMAIN st :
              /\ ~IsWalk(st[i]) => stack'[i] = st[i]
              /\ IsWalk(st[i]) =>
                   /\ IsWalk(stack'[i]) /\ stack'[i].src = st[i].src
                   /\ st[i].src \notin S => stack'[i] = st[i]
                   /\ st[i].src \in S =>
                        /\ stack'[i].todo = st[i].todo \ {k}
                        /\ stack'[i].pos = IF st[i].pos = k THEN Erased ELSE st[i].pos
<1>1. stack' = [i \in DOMAIN st |->
        IF IsWalk(st[i]) /\ st[i].src \in S
        THEN [st[i] EXCEPT !.pos = IF st[i].pos = k THEN Erased ELSE st[i].pos, !.todo = st[i].todo \ {k}]
        ELSE st[i]]
  BY DEF Erase, IsWalk
<1>2. Len(st) \in Nat /\ DOMAIN st = 1..Len(st) /\ \A i \in DOMAIN st : st[i] \in Frames
  BY LenProperties, ElementOfSeq
<1>3. ASSUME NEW i \in DOMAIN st
      PROVE  /\ stack'[i] \in Frames
             /\ ~IsWalk(st[i]) => stack'[i] = st[i]
             /\ IsWalk(st[i]) =>
                  /\ IsWalk(stack'[i]) /\ stack'[i].src = st[i].src
                  /\ st[i].src \notin S => stack'[i] = st[i]
                  /\ st[i].src \in S =>
                       /\ stack'[i].todo = st[i].todo \ {k}
                       /\ stack'[i].pos = IF st[i].pos = k THEN Erased ELSE st[i].pos
  <2> DEFINE f == st[i]
             p == IF f.pos = k THEN Erased ELSE f.pos
             T == f.todo \ {k}
  <2>1. f \in Frames
    BY <1>2
  <2>2. CASE IsWalk(f) /\ f.src \in S
    <3>1. p \in Sinks \cup {Begin, Erased} /\ T \in SUBSET Sinks
      BY <2>1, <2>2, FrameTypes
    <3>2. stack'[i] = [f EXCEPT !.pos = p, !.todo = T]
      BY <1>1, <2>2
    <3> HIDE DEF f, p, T
    <3>3. /\ stack'[i] \in Frames /\ IsWalk(stack'[i]) /\ stack'[i].src = f.src
          /\ stack'[i].pos = p /\ stack'[i].todo = T
      <4>1. f \in [fn : {"send"}, src : Sources, pos : Sinks \cup {Begin, Erased}, todo : SUBSET Sinks]
        BY <2>1, <2>2 DEF Frames, IsWalk
      <4> QED BY <3>1, <3>2, <4>1 DEF Frames, IsWalk
    <3> QED BY <2>2, <3>3 DEF f, p, T
  <2>3. CASE ~(IsWalk(f) /\ f.src \in S)
    <3>1. stack'[i] = f
      BY <1>1, <2>3
    <3> QED BY <2>1, <2>3, <3>1
  <2> QED BY <2>2, <2>3
<1>4. DOMAIN stack' = DOMAIN st
  BY <1>1
<1>5. stack' \in Seq(Frames)
  <2>1. stack' \in [1..Len(st) -> Frames]
    BY <1>1, <1>2, <1>3, <1>4
  <2> QED BY <1>2, <2>1, SeqDef
<1> QED BY <1>3, <1>4, <1>5

\* Walks stay sound when a sink is erased that no walk visits but the innermost one of its source.
LEMMA WalksErased ==
  ASSUME NEW st \in Seq(Frames), NEW k \in Sinks, NEW S \in SUBSET Sources, Erase(k, S, st),
         sinks \in [Sources -> SUBSET Sinks], modified \in [Sources -> BOOLEAN],
         NEW visits \in SUBSET Sinks, WalksSound(st, sinks, modified, visits),
         S = Sources \/ k \in Handlers, visits \subseteq Handlers \cup {k},
         \A i, j \in DOMAIN st :
           IsWalk(st[i]) /\ IsWalk(st[j]) /\ st[i].src = st[j].src /\ st[i].src \in S /\ st[i].pos = k
             => j <= i
  PROVE  WalksSound(stack', sinks', modified', Handlers)
<1>1. /\ DOMAIN stack' = DOMAIN st
      /\ \A i \in DOMAIN st :
           /\ ~IsWalk(st[i]) => stack'[i] = st[i]
           /\ IsWalk(st[i]) =>
                /\ IsWalk(stack'[i]) /\ stack'[i].src = st[i].src
                /\ st[i].src \notin S => stack'[i] = st[i]
                /\ st[i].src \in S =>
                     /\ stack'[i].todo = st[i].todo \ {k}
                     /\ stack'[i].pos = IF st[i].pos = k THEN Erased ELSE st[i].pos
  BY EraseEffect
<1>2. \A s \in Sources : /\ sinks'[s] = (IF s \in S THEN sinks[s] \ {k} ELSE sinks[s])
                         /\ modified'[s] = (modified[s] \/ (s \in S /\ k \in sinks[s]))
  BY DEF Erase
<1> SUFFICES ASSUME NEW i \in DOMAIN st, IsWalk(st[i])
             PROVE  LET f == stack'[i] IN
                    /\ f.pos \in (sinks'[f.src] \cap Handlers) \cup {Begin, Erased}
                    /\ f.pos = Erased =>
                         /\ modified'[f.src]
                         /\ \A j \in DOMAIN st : IsWalk(stack'[j]) /\ stack'[j].src = f.src => j <= i
                    /\ f.todo \subseteq sinks'[f.src]
                    /\ f.pos # Erased => \A m \in f.todo : m > f.pos
  BY <1>1 DEF WalksSound
<1> DEFINE f == stack'[i]
           g == st[i]
           s == g.src
<1>3. g \in Frames /\ s \in Sources /\ g.todo \in SUBSET Sinks
  BY FrameTypes, ElementOfSeq
<1>4. /\ g.pos \in (sinks[s] \cap visits) \cup {Begin, Erased}
      /\ g.pos = Erased =>
           /\ modified[s]
           /\ \A j \in DOMAIN st : IsWalk(st[j]) /\ st[j].src = s => j <= i
      /\ g.todo \subseteq sinks[s]
      /\ g.pos # Erased => \A m \in g.todo : m > g.pos
  BY Zenon DEF WalksSound
<1>5. f.src = s /\ \A j \in DOMAIN st : IsWalk(stack'[j]) => IsWalk(st[j]) /\ stack'[j].src = st[j].src
  BY <1>1
<1>6. modified[s] => modified'[s]
  BY <1>2, <1>3
<1>7. k # Begin /\ k # Erased
  BY SinkFacts
<1>8. CASE s \in S /\ g.pos = k
  <2>1. f.pos = Erased /\ f.todo = g.todo \ {k}
    BY <1>1, <1>8
  <2>2. k \in sinks[s]
    BY <1>4, <1>7, <1>8
  <2>3. modified'[s] /\ sinks'[s] = sinks[s] \ {k}
    BY <1>2, <1>3, <1>8, <2>2
  <2>4. \A j \in DOMAIN st : IsWalk(st[j]) /\ st[j].src = s => j <= i
    BY <1>8
  <2> QED BY <1>4, <1>5, <2>1, <2>3, <2>4
<1>9. CASE s \in S /\ g.pos # k
  <2>1. f.pos = g.pos /\ f.todo = g.todo \ {k}
    BY <1>1, <1>9
  <2>2. sinks'[s] = sinks[s] \ {k}
    BY <1>2, <1>3, <1>9
  <2>3. f.pos \in (sinks'[s] \cap Handlers) \cup {Begin, Erased}
    BY <1>4, <1>9, <2>1, <2>2
  <2> QED BY <1>4, <1>5, <1>6, <2>1, <2>2, <2>3
<1>10. CASE s \notin S
  <2>1. f = g /\ sinks'[s] = sinks[s]
    BY <1>1, <1>2, <1>3, <1>10
  <2>2. visits \subseteq Handlers
    BY <1>3, <1>10
  <2> QED BY <1>4, <1>5, <1>6, <2>1, <2>2
<1> QED BY <1>8, <1>9, <1>10

LEMMA InvFacts ==
  ASSUME EventsInv
  PROVE  /\ stack \in Seq(Frames) /\ Len(stack) \in Nat /\ DOMAIN stack = 1..Len(stack)
         /\ \A i \in DOMAIN stack : stack[i] \in Frames
         /\ stack # <<>> => Len(stack) \in DOMAIN stack /\ Top = stack[Len(stack)]
         /\ sinks \in [Sources -> SUBSET Sinks] /\ modified \in [Sources -> BOOLEAN]
         /\ pending \in Seq(Awaits) /\ await \in [Awaits -> AwaitStates]
         /\ timer \in SUBSET Awaits /\ freed \in SUBSET Awaits
         /\ \A s \in Sources : sinks[s] \cap freed = {}
         /\ timer \cap freed = {} /\ ~broken
<1>1. TypeOK /\ ~broken
  BY DEF EventsInv, NothingDangles
<1>2. /\ stack \in Seq(Frames) /\ Len(stack) \in Nat /\ DOMAIN stack = 1..Len(stack)
      /\ \A i \in DOMAIN stack : stack[i] \in Frames
  BY <1>1, LenProperties, ElementOfSeq DEF TypeOK
<1>3. ASSUME stack # <<>> PROVE Len(stack) \in DOMAIN stack /\ Top = stack[Len(stack)]
  <2>1. stack \in Seq(Frames) /\ stack # <<>>
    BY <1>2, <1>3
  <2>2. Len(stack) \in Nat \ {0} /\ DOMAIN stack = 1..Len(stack) /\ Last(stack) = stack[Len(stack)]
    BY <2>1, FrontProperties
  <2> QED BY <2>2 DEF Top
<1> QED BY <1>1, <1>2, <1>3 DEF TypeOK

\* The innermost function returns.
LEMMA PopEffect ==
  ASSUME EventsInv, stack # <<>>
  PROVE  /\ Front(stack) \in Seq(Frames) /\ DOMAIN Front(stack) = 1..Len(stack) - 1
         /\ \A i \in 1..Len(stack) - 1 : i \in DOMAIN stack /\ Front(stack)[i] = stack[i]
<1>1. /\ Front(stack) \in Seq(Frames) /\ DOMAIN Front(stack) = 1..(Len(stack) - 1)
      /\ \A i \in 1..(Len(stack) - 1) : Front(stack)[i] = stack[i]
      /\ Len(stack) \in Nat \ {0}
  <2>1. stack \in Seq(Frames)
    BY InvFacts
  <2> QED BY <2>1, FrontProperties
<1>2. 1..(Len(stack) - 1) \subseteq 1..Len(stack)
  BY <1>1
<1> QED BY <1>1, <1>2, InvFacts

\* The innermost walk goes on: its frame is replaced.
LEMMA ReplaceEffect ==
  ASSUME EventsInv, stack # <<>>, NEW f \in Frames, NEW st, st = Append(Front(stack), f)
  PROVE  /\ st \in Seq(Frames) /\ DOMAIN st = DOMAIN stack /\ Len(st) = Len(stack)
         /\ st[Len(stack)] = f
         /\ \A i \in DOMAIN stack : i # Len(stack) => st[i] = stack[i] /\ i < Len(stack)
<1>1. /\ st \in Seq(Frames) /\ Len(st) = Len(stack) /\ st[Len(stack)] = f
      /\ \A i \in 1..(Len(stack) - 1) : st[i] = stack[i]
  <2>1. stack \in Seq(Frames)
    BY InvFacts
  <2> QED BY <2>1, ReplaceLastProperties
<1>2. DOMAIN st = DOMAIN stack
  BY <1>1, InvFacts, LenProperties
<1>3. \A i \in DOMAIN stack : i # Len(stack) => i \in 1..(Len(stack) - 1) /\ i < Len(stack)
  BY InvFacts
<1> QED BY <1>1, <1>2, <1>3

\* A function is called.
LEMMA PushEffect ==
  ASSUME NEW st \in Seq(Frames), NEW f \in Frames
  PROVE  /\ Append(st, f) \in Seq(Frames) /\ DOMAIN Append(st, f) = 1..Len(st) + 1
         /\ Append(st, f)[Len(st) + 1] = f /\ Len(st) \in Nat /\ DOMAIN st = 1..Len(st)
         /\ Append(st, f) # <<>>
         /\ \A i \in 1..Len(st) + 1 : i # Len(st) + 1 => i \in DOMAIN st /\ Append(st, f)[i] = st[i]
<1>1. /\ Append(st, f) \in Seq(Frames) /\ Len(Append(st, f)) = Len(st) + 1
      /\ \A i \in 1..Len(st) : Append(st, f)[i] = st[i]
      /\ Append(st, f)[Len(st) + 1] = f
  BY AppendProperties
<1>2. Len(st) \in Nat /\ DOMAIN st = 1..Len(st) /\ DOMAIN Append(st, f) = 1..Len(st) + 1
  BY <1>1, LenProperties
<1>3. \A i \in 1..Len(st) + 1 : i # Len(st) + 1 => i \in 1..Len(st)
  BY <1>2
<1>4. Append(st, f) # <<>>
  <2> DEFINE x == Append(st, f)
  <2>1. Len(x) = Len(st) + 1 /\ Len(st) \in Nat
    BY <1>1, <1>2
  <2> HIDE DEF x
  <2>2. x # <<>>
    BY <2>1
  <2> QED BY <2>2 DEF x
<1> QED BY <1>1, <1>2, <1>3, <1>4

\* What timeout() relies on stays, when its frame does, nothing happens to its await, and its
\* sink is not registered.
LEMMA TimeoutKept ==
  ASSUME EventsInv,
         \A i \in DOMAIN stack' : stack'[i].fn = "timeout" =>
           /\ i \in DOMAIN stack /\ stack'[i] = stack[i]
           /\ await'[stack[i].sink] = await[stack[i].sink] /\ stack[i].sink \notin freed'
           /\ \A j \in DOMAIN stack' : IsWalk(stack'[j]) =>
                \/ stack[i].sink \notin sinks'[stack'[j].src]
                \/ /\ j \in DOMAIN stack /\ IsWalk(stack[j]) /\ stack[j].src = stack'[j].src
                   /\ stack[i].sink \in sinks[stack[j].src]
  PROVE  TimeoutSound(stack, sinks)'
<1>1. TimeoutSound(stack, sinks)
  BY DEF EventsInv
<1> SUFFICES ASSUME NEW i \in DOMAIN stack', stack'[i].fn = "timeout"
             PROVE  /\ i = 1 /\ stack'[i].sink \in Awaits \ freed'
                    /\ await'[stack'[i].sink] = "resumed"
                    /\ \A j \in DOMAIN stack' :
                         IsWalk(stack'[j]) => stack'[i].sink \notin sinks'[stack'[j].src]
  BY DEF TimeoutSound
<1>2. /\ i \in DOMAIN stack /\ stack'[i] = stack[i] /\ stack[i].fn = "timeout"
      /\ await'[stack[i].sink] = await[stack[i].sink] /\ stack[i].sink \notin freed'
  OBVIOUS
<1>3. /\ i = 1 /\ stack[i].sink \in Awaits \ freed /\ await[stack[i].sink] = "resumed"
      /\ \A j \in DOMAIN stack : IsWalk(stack[j]) => stack[i].sink \notin sinks[stack[j].src]
  BY <1>1, <1>2, Zenon DEF TimeoutSound
<1>4. ASSUME NEW j \in DOMAIN stack', IsWalk(stack'[j])
      PROVE  stack[i].sink \notin sinks'[stack'[j].src]
  <2>1. \/ stack[i].sink \notin sinks'[stack'[j].src]
        \/ /\ j \in DOMAIN stack /\ IsWalk(stack[j]) /\ stack[j].src = stack'[j].src
           /\ stack[i].sink \in sinks[stack[j].src]
    BY <1>4
  <2> QED BY <1>3, <2>1, Zenon
<1> QED BY <1>2, <1>3, <1>4

LEMMA InitEvents == Init => EventsInv
<1> SUFFICES ASSUME Init PROVE EventsInv
  OBVIOUS
<1>1. stack = <<>> /\ pending = <<>> /\ DOMAIN stack = {} /\ DOMAIN pending = {}
  BY DEF Init
<1>2. TypeOK
  <2>1. sends \in 0..MaxSends /\ changes \in 0..MaxChanges
    BY EventConstants DEF Init
  <2>2. stack \in Seq(Frames) /\ pending \in Seq(Awaits)
    BY <1>1
  <2>3. sinks \in [Sources -> SUBSET Sinks] /\ modified \in [Sources -> BOOLEAN]
    BY DEF Init
  <2>4. await \in [Awaits -> AwaitStates]
    BY DEF Init, AwaitStates
  <2> QED BY <2>1, <2>2, <2>3, <2>4 DEF Init, TypeOK
<1>3. NothingDangles
  BY <1>1, <1>2 DEF Init, NothingDangles, AnswersArePending
<1>4. WalksSound(stack, sinks, modified, Handlers) /\ TimeoutSound(stack, sinks)
  BY <1>1 DEF WalksSound, TimeoutSound
<1>5. AwaitsSound
  BY <1>1 DEF Init, AwaitsSound
<1> QED BY <1>3, <1>4, <1>5 DEF EventsInv

\* A handler is registered: nothing that goes on is changed.
LEMMA RegisterKeeps ==
  ASSUME EventsInv, NEW s \in Sources, NEW h \in Handlers, Register(h, s)
  PROVE  EventsInv'
<1>1. /\ sinks' = [sinks EXCEPT ![s] = @ \cup {h}] /\ modified' = [modified EXCEPT ![s] = TRUE]
      /\ changes < MaxChanges /\ changes' = changes + 1
      /\ UNCHANGED <<stack, pending, await, timer, freed, sends, broken>>
  BY DEF Register
<1>2. h \in Sinks /\ h \notin Awaits /\ h \notin freed
  BY SinkFacts, InvFacts
<1>3. /\ sinks' \in [Sources -> SUBSET Sinks] /\ modified' \in [Sources -> BOOLEAN]
      /\ \A q \in Sources : sinks[q] \subseteq sinks'[q] /\ (modified[q] => modified'[q])
                            /\ sinks'[q] \subseteq sinks[q] \cup {h}
  BY <1>1, <1>2, InvFacts
<1>4. TypeOK'
  <2>1. changes' \in 0..MaxChanges
    BY <1>1, EventConstants DEF EventsInv, NothingDangles, TypeOK
  <2>2. \A q \in Sources : sinks'[q] \cap freed = {}
    BY <1>2, <1>3, InvFacts
  <2> QED BY <1>1, <1>3, <2>1, <2>2 DEF EventsInv, NothingDangles, TypeOK
<1>5. WalksSound(stack, sinks, modified, Handlers)'
  <2>1. \A i \in DOMAIN stack : IsWalk(stack[i]) =>
          /\ sinks[stack[i].src] \subseteq sinks'[stack[i].src]
          /\ modified[stack[i].src] => modified'[stack[i].src]
    BY <1>3, InvFacts, FrameTypes
  <2>2. WalksSound(stack, sinks, modified, Handlers)
    BY DEF EventsInv
  <2> QED BY <1>1, <2>1, <2>2, WalksKept
<1>6. TimeoutSound(stack, sinks)'
  <2>1. ASSUME NEW i \in DOMAIN stack, stack[i].fn = "timeout"
        PROVE  stack[i].sink \in Awaits \ freed
    BY <2>1 DEF EventsInv, TimeoutSound
  <2>2. ASSUME NEW i \in DOMAIN stack, stack[i].fn = "timeout", NEW j \in DOMAIN stack, IsWalk(stack[j])
        PROVE  stack[i].sink \notin sinks'[stack[j].src] \/ stack[i].sink \in sinks[stack[j].src]
    <3>1. stack[j].src \in Sources
      BY <2>2, InvFacts, FrameTypes
    <3>2. stack[i].sink # h
      BY <1>2, <2>1, <2>2
    <3> QED BY <1>3, <3>1, <3>2
  <2> QED BY <1>1, <2>1, <2>2, TimeoutKept
<1>7. AwaitsSound'
  <2>1. \A k \in Awaits, q \in Sources : k \in sinks'[q] => k \in sinks[q]
    BY <1>2, <1>3
  <2> QED BY <1>1, <2>1 DEF EventsInv, AwaitsSound, TimesOut
<1>8. NothingDangles'
  BY <1>1, <1>4 DEF EventsInv, NothingDangles, AnswersArePending
<1> QED BY <1>5, <1>6, <1>7, <1>8 DEF EventsInv

\* What is left to show when sink k has been erased from the maps of S, while the functions under
\* way were `st': that no walk but the innermost of its source has been at k, and what becomes of
\* the awaits.
LEMMA ErasedKeeps ==
  ASSUME EventsInv, NEW st \in Seq(Frames), NEW k \in Sinks, NEW S \in SUBSET Sources, Erase(k, S, st),
         NEW visits \in SUBSET Sinks, WalksSound(st, sinks, modified, visits),
         S = Sources \/ k \in Handlers, visits \subseteq Handlers \cup {k},
         \A i, j \in DOMAIN st :
           IsWalk(st[i]) /\ IsWalk(st[j]) /\ st[i].src = st[j].src /\ st[i].src \in S /\ st[i].pos = k
             => j <= i,
         \A i \in DOMAIN st : IsWalk(st[i]) =>
           i \in DOMAIN stack /\ IsWalk(stack[i]) /\ stack[i].src = st[i].src,
         \A i \in DOMAIN st : st[i].fn = "timeout" =>
           /\ i \in DOMAIN stack /\ stack[i] = st[i]
           /\ await'[st[i].sink] = await[st[i].sink] /\ st[i].sink \notin freed',
         pending' \in Seq(Awaits), await' \in [Awaits -> AwaitStates], timer' \in SUBSET Awaits,
         freed' \in SUBSET Awaits, sends' = sends, changes' \in 0..MaxChanges, ~broken', broken' \in BOOLEAN,
         timer' \cap freed' = {}, \A s \in Sources : sinks'[s] \cap freed' = {},
         AnswersArePending', AwaitsSound'
  PROVE  EventsInv'
<1>1. sinks \in [Sources -> SUBSET Sinks] /\ modified \in [Sources -> BOOLEAN]
  BY InvFacts
<1>2. /\ stack' \in Seq(Frames) /\ DOMAIN stack' = DOMAIN st
      /\ \A i \in DOMAIN st :
           /\ ~IsWalk(st[i]) => stack'[i] = st[i]
           /\ IsWalk(st[i]) => IsWalk(stack'[i]) /\ stack'[i].src = st[i].src
  BY EraseEffect
<1>3. WalksSound(stack, sinks, modified, Handlers)'
  BY <1>1, WalksErased
<1>4. /\ sinks' \in [Sources -> SUBSET Sinks] /\ modified' \in [Sources -> BOOLEAN]
      /\ \A s \in Sources : sinks'[s] \subseteq sinks[s]
  BY <1>1 DEF Erase
<1>5. TypeOK'
  BY <1>2, <1>4 DEF TypeOK, EventsInv, NothingDangles
<1>6. TimeoutSound(stack, sinks)'
  <2>1. ASSUME NEW i \in DOMAIN stack', stack'[i].fn = "timeout"
        PROVE  /\ i \in DOMAIN st /\ st[i] = stack'[i] /\ i \in DOMAIN stack /\ stack'[i] = stack[i]
               /\ await'[stack[i].sink] = await[stack[i].sink] /\ stack[i].sink \notin freed'
    <3>1. ~IsWalk(stack'[i])
      BY <2>1 DEF IsWalk
    <3>2. i \in DOMAIN st /\ st[i] = stack'[i]
      BY <1>2, <3>1
    <3> QED BY <2>1, <3>2
  <2>2. ASSUME NEW j \in DOMAIN stack', IsWalk(stack'[j])
        PROVE  /\ j \in DOMAIN stack /\ IsWalk(stack[j]) /\ stack[j].src = stack'[j].src
               /\ stack[j].src \in Sources /\ sinks'[stack'[j].src] \subseteq sinks[stack[j].src]
    <3>1. j \in DOMAIN st /\ IsWalk(st[j])
      BY <1>2, <2>2
    <3>2. j \in DOMAIN stack /\ IsWalk(stack[j]) /\ stack[j].src = stack'[j].src
      BY <1>2, <3>1
    <3>3. stack[j].src \in Sources
      BY <3>2, InvFacts, FrameTypes
    <3> QED BY <1>4, <3>2, <3>3
  <2> QED BY <2>1, <2>2, TimeoutKept
<1> QED BY <1>3, <1>5, <1>6 DEF EventsInv, NothingDangles

\* A handler is unregistered, also in its own callback.
LEMMA UnregisterKeeps ==
  ASSUME EventsInv, CarefulScripts, NEW s \in Sources, NEW h \in Handlers, Unregister(h, s)
  PROVE  EventsInv'
<1>1. /\ Erase(h, {s}, stack) /\ ~VisitedBelow(h, s)
      /\ changes < MaxChanges /\ changes' = changes + 1
      /\ UNCHANGED <<pending, await, timer, freed, sends, broken>>
  BY DEF Unregister, CarefulScripts
<1>2. h \in Sinks /\ h \notin Awaits /\ {s} \in SUBSET Sources
  BY SinkFacts
<1>3. ASSUME NEW i \in DOMAIN stack, NEW j \in DOMAIN stack, IsWalk(stack[i]), IsWalk(stack[j]),
             stack[i].src = stack[j].src, stack[i].src \in {s}, stack[i].pos = h
      PROVE  j <= i
  <2>1. i \in SendingOn(s) /\ j \in SendingOn(s)
    BY <1>3 DEF SendingOn, IsWalk
  <2>2. ~(i < j)
    BY <1>1, <1>3, <2>1 DEF VisitedBelow
  <2> QED BY <2>2, InvFacts
<1>4. \A q \in Sources : sinks'[q] \subseteq sinks[q]
  BY <1>1, InvFacts DEF Erase
<1>5. /\ stack \in Seq(Frames) /\ WalksSound(stack, sinks, modified, Handlers)
      /\ Handlers \in SUBSET Sinks
      /\ changes' \in 0..MaxChanges /\ ~broken' /\ broken' \in BOOLEAN /\ AnswersArePending'
      /\ \A i \in DOMAIN stack : stack[i].fn = "timeout" => stack[i].sink \notin freed'
  <2>1. changes' \in 0..MaxChanges
    BY <1>1, EventConstants DEF EventsInv, NothingDangles, TypeOK
  <2>2. AnswersArePending' /\ ~broken' /\ broken' \in BOOLEAN
    BY <1>1 DEF AnswersArePending, EventsInv, NothingDangles, TypeOK
  <2>3. \A i \in DOMAIN stack : stack[i].fn = "timeout" => stack[i].sink \notin freed'
    BY <1>1 DEF EventsInv, TimeoutSound
  <2> QED BY <2>1, <2>2, <2>3, InvFacts, SinkFacts DEF EventsInv
<1>6. AwaitsSound'
  <2>1. ASSUME NEW k \in Awaits, TimesOut(k) PROVE TimesOut(k)'
    <3>1. /\ stack' \in Seq(Frames) /\ DOMAIN stack' = DOMAIN stack
          /\ \A i \in DOMAIN stack : ~IsWalk(stack[i]) => stack'[i] = stack[i]
      BY <1>1, <1>2, InvFacts, EraseEffect
    <3>2. 1 \in DOMAIN stack /\ stack[1] = Frame("timeout", k)
      BY <2>1, InvFacts DEF TimesOut
    <3>3. ~IsWalk(stack[1])
      BY <3>2, SinkFacts, FrameTypes
    <3>4. stack'[1] = Frame("timeout", k)
      BY <3>1, <3>2, <3>3
    <3>5. Frame("timeout", k)' = Frame("timeout", k)
      BY DEF Frame
    <3>6. stack' # <<>>
      BY <3>1, <3>2
    <3> QED BY <3>4, <3>5, <3>6 DEF TimesOut
  <2> QED BY <1>1, <1>4, <2>1 DEF AwaitsSound, EventsInv
<1> QED
  <2>1. /\ pending' \in Seq(Awaits) /\ await' \in [Awaits -> AwaitStates] /\ timer' \in SUBSET Awaits
        /\ freed' \in SUBSET Awaits /\ timer' \cap freed' = {}
        /\ \A q \in Sources : sinks'[q] \cap freed' = {}
    BY <1>1, <1>4, InvFacts
  <2>2. \A i, j \in DOMAIN stack :
           IsWalk(stack[i]) /\ IsWalk(stack[j]) /\ stack[i].src = stack[j].src /\ stack[i].src \in {s}
             /\ stack[i].pos = h => j <= i
    BY <1>3
  <2> QED BY <1>1, <1>2, <1>5, <1>6, <2>1, <2>2, ErasedKeeps

\* The frame of timeout() stays where it is when the sinks are erased.
LEMMA TimesOutKept ==
  ASSUME EventsInv, NEW k \in Awaits, TimesOut(k), 1 \in DOMAIN stack', stack'[1] = stack[1]
  PROVE  TimesOut(k)'
<1>1. stack[1] = Frame("timeout", k)
  BY DEF TimesOut
<1>2. stack' # <<>>
  OBVIOUS
<1> QED BY <1>1, <1>2 DEF TimesOut, Frame

\* A thread that waits is aborted, and its sink erased.
LEMMA AbortKeeps ==
  ASSUME EventsInv, CarefulScripts, NEW k \in Awaits, Abort(k)
  PROVE  EventsInv'
<1>1. await[k] = "waiting"
  BY DEF Abort, CarefulScripts
<1>2. k \notin freed /\ k \in Sinks /\ k \notin Handlers
  BY <1>1, SinkFacts DEF EventsInv, AwaitsSound
<1>3. /\ Erase(k, Sources, stack) /\ await' = [await EXCEPT ![k] = "aborted"]
      /\ timer' = timer \ {k} /\ freed' = freed \cup {k}
      /\ UNCHANGED <<pending, sends, changes, broken>>
  BY <1>2 DEF Abort
<1>4. /\ await' \in [Awaits -> AwaitStates] /\ await'[k] = "aborted"
      /\ \A m \in Awaits : m # k => await'[m] = await[m]
  BY <1>3, InvFacts DEF AwaitStates
<1>5. /\ \A q \in Sources : sinks'[q] = sinks[q] \ {k}
      /\ \A q \in Sources : sinks'[q] \cap freed' = {}
      /\ timer' \in SUBSET Awaits /\ freed' \in SUBSET Awaits /\ timer' \cap freed' = {}
  BY <1>3, InvFacts DEF Erase
<1>6. stack \in Seq(Frames) /\ WalksSound(stack, sinks, modified, Handlers) /\ Handlers \in SUBSET Sinks
  BY InvFacts, SinkFacts DEF EventsInv
<1>7. \A i, j \in DOMAIN stack :
        IsWalk(stack[i]) /\ IsWalk(stack[j]) /\ stack[i].src = stack[j].src /\ stack[i].src \in Sources
          /\ stack[i].pos = k => j <= i
  <2>1. ASSUME NEW i \in DOMAIN stack, IsWalk(stack[i]) PROVE stack[i].pos # k
    BY <1>2, <1>6, <2>1, SinkFacts DEF WalksSound
  <2> QED BY <2>1
<1>8. \A i \in DOMAIN stack : stack[i].fn = "timeout" =>
        stack[i].sink \in Awaits /\ stack[i].sink # k /\ stack[i].sink \notin freed'
  BY <1>1, <1>3 DEF EventsInv, TimeoutSound
<1>9. ASSUME NEW m \in Awaits, TimesOut(m) PROVE TimesOut(m)'
  <2>1. 1 \in DOMAIN stack /\ stack[1] = Frame("timeout", m) /\ ~IsWalk(stack[1])
    BY <1>9, InvFacts, SinkFacts, FrameTypes DEF TimesOut
  <2>2. DOMAIN stack' = DOMAIN stack /\ \A i \in DOMAIN stack : ~IsWalk(stack[i]) => stack'[i] = stack[i]
    BY <1>2, <1>3, <1>6, EraseEffect
  <2> QED BY <1>9, <2>1, <2>2, TimesOutKept
<1>10. AwaitsSound'
  <2>1. \A m \in Awaits :
          /\ await'[m] \in {"none", "waiting"} => m \notin freed'
          /\ m \in timer' => await'[m] = "waiting"
    BY <1>3, <1>4 DEF EventsInv, AwaitsSound
  <2>2. \A m \in Awaits, q \in Sources : m \in sinks'[q] => await'[m] = "waiting" \/ TimesOut(m)'
    BY <1>4, <1>5, <1>9 DEF EventsInv, AwaitsSound
  <2>3. /\ \A i \in DOMAIN pending' : pending'[i] \in freed'
        /\ \A i, j \in DOMAIN pending' : pending'[i] = pending'[j] => i = j
    BY <1>3 DEF EventsInv, AwaitsSound
  <2> QED BY <2>1, <2>2, <2>3 DEF AwaitsSound
<1>11. AnswersArePending'
  <2>1. \A i \in DOMAIN pending : pending[i] \in Awaits
    BY InvFacts, ElementOfSeq
  <2> QED BY <1>3, <1>4, <2>1 DEF AnswersArePending, EventsInv, NothingDangles
<1> QED
  <2>1. /\ pending' \in Seq(Awaits) /\ changes' \in 0..MaxChanges /\ ~broken' /\ broken' \in BOOLEAN
        /\ sends' = sends
    BY <1>3, InvFacts DEF EventsInv, NothingDangles, TypeOK
  <2>2. \A i \in DOMAIN stack : stack[i].fn = "timeout" => await'[stack[i].sink] = await[stack[i].sink]
    BY <1>4, <1>8
  <2>3. Sources \in SUBSET Sources /\ Handlers \subseteq Handlers \cup {k}
    OBVIOUS
  <2> QED BY <1>2, <1>3, <1>4, <1>5, <1>6, <1>7, <1>8, <1>10, <1>11, <2>1, <2>2, <2>3, ErasedKeeps

\* timeout() comes back from the thread it has resumed, and deletes its sink.
LEMMA TimeoutReturnsKeeps ==
  ASSUME EventsInv, TimeoutReturns
  PROVE  EventsInv'
<1> DEFINE k == Top.sink
           st == Front(stack)
<1>1. stack # <<>> /\ Top.fn = "timeout" /\ Top = stack[Len(stack)] /\ Len(stack) \in DOMAIN stack
  BY InvFacts DEF TimeoutReturns, Running
<1>2. /\ Len(stack) = 1 /\ k \in Awaits \ freed /\ await[k] = "resumed"
  BY <1>1 DEF EventsInv, TimeoutSound
<1>3. /\ Erase(k, Sources, st) /\ freed' = freed \cup {k}
      /\ UNCHANGED <<pending, await, timer, sends, changes, broken>>
  BY <1>2 DEF TimeoutReturns
<1>4. st \in Seq(Frames) /\ DOMAIN st = {}
  BY <1>1, <1>2, PopEffect
<1>5. k \in Sinks /\ k \notin Handlers /\ k \notin timer
  BY <1>2, SinkFacts DEF EventsInv, AwaitsSound
<1>6. \A m \in Awaits : TimesOut(m) => m = k
  <2>1. ASSUME NEW m \in Awaits, TimesOut(m) PROVE m = k
    <3>1. Top = Frame("timeout", m)
      BY <1>1, <1>2, <2>1 DEF TimesOut
    <3>2. Frame("timeout", m).sink = m
      BY SinkFacts, FrameTypes
    <3> QED BY <3>1, <3>2
  <2> QED BY <2>1
<1> HIDE DEF k, st
<1>7. /\ \A q \in Sources : sinks'[q] = sinks[q] \ {k}
      /\ \A q \in Sources : sinks'[q] \cap freed' = {}
      /\ freed' \in SUBSET Awaits /\ timer' \cap freed' = {}
  BY <1>2, <1>3, <1>5, InvFacts DEF Erase
<1>8. AwaitsSound'
  <2>1. \A m \in Awaits, q \in Sources : m \in sinks'[q] => await'[m] = "waiting"
    BY <1>3, <1>6, <1>7 DEF EventsInv, AwaitsSound
  <2>2. \A m \in Awaits :
          /\ await'[m] \in {"none", "waiting"} => m \notin freed'
          /\ m \in timer' => await'[m] = "waiting"
    BY <1>2, <1>3 DEF EventsInv, AwaitsSound
  <2>3. /\ \A i \in DOMAIN pending' : pending'[i] \in freed'
        /\ \A i, j \in DOMAIN pending' : pending'[i] = pending'[j] => i = j
    BY <1>3 DEF EventsInv, AwaitsSound
  <2> QED BY <2>1, <2>2, <2>3 DEF AwaitsSound
<1>9. AnswersArePending'
  BY <1>3 DEF AnswersArePending, EventsInv, NothingDangles
<1> QED
  <2>1. /\ pending' \in Seq(Awaits) /\ changes' \in 0..MaxChanges /\ ~broken' /\ broken' \in BOOLEAN
        /\ sends' = sends /\ await' \in [Awaits -> AwaitStates] /\ timer' \in SUBSET Awaits
    BY <1>3, InvFacts DEF EventsInv, NothingDangles, TypeOK
  <2>2. /\ Sources \in SUBSET Sources /\ Handlers \subseteq Handlers \cup {k} /\ Handlers \in SUBSET Sinks
        /\ WalksSound(st, sinks, modified, Handlers)
    BY <1>4, SinkFacts DEF WalksSound
  <2> QED BY <1>3, <1>4, <1>5, <1>7, <1>8, <1>9, <2>1, <2>2, ErasedKeeps

\* The innermost function, which is not timeout(), is gone, and nothing is erased.
LEMMA PoppedKeeps ==
  ASSUME EventsInv,
         (stack # <<>> /\ Top.fn # "timeout" /\ stack' = Front(stack)) \/ stack' = stack,
         sinks' \in [Sources -> SUBSET Sinks], modified' \in [Sources -> BOOLEAN],
         \A s \in Sources : sinks[s] \subseteq sinks'[s] /\ (modified[s] => modified'[s]),
         freed' = freed,
         \A i \in DOMAIN stack : stack[i].fn = "timeout" =>
           /\ await'[stack[i].sink] = await[stack[i].sink]
           /\ \A s \in Sources : stack[i].sink \in sinks'[s] => stack[i].sink \in sinks[s]
  PROVE  /\ stack' \in Seq(Frames)
         /\ WalksSound(stack, sinks, modified, Handlers)' /\ TimeoutSound(stack, sinks)'
         /\ \A k \in Awaits : TimesOut(k) => TimesOut(k)'
<1>1. /\ stack' \in Seq(Frames) /\ DOMAIN stack' \subseteq DOMAIN stack
      /\ \A i \in DOMAIN stack' : stack'[i] = stack[i]
      /\ \A i \in DOMAIN stack : i \in DOMAIN stack' \/ stack[i].fn # "timeout"
  <2>1. CASE stack' = stack
    BY <2>1, InvFacts
  <2>2. CASE stack # <<>> /\ Top.fn # "timeout" /\ stack' = Front(stack)
    <3>1. /\ Front(stack) \in Seq(Frames) /\ DOMAIN Front(stack) = 1..Len(stack) - 1
          /\ \A i \in 1..Len(stack) - 1 : i \in DOMAIN stack /\ Front(stack)[i] = stack[i]
      BY <2>2, PopEffect
    <3>2. Top = stack[Len(stack)] /\ DOMAIN stack = 1..Len(stack) /\ Len(stack) \in Nat
      BY <2>2, InvFacts
    <3>3. \A i \in DOMAIN stack : i = Len(stack) \/ i \in 1..Len(stack) - 1
      BY <3>2
    <3> QED BY <2>2, <3>1, <3>2, <3>3
  <2> QED BY <2>1, <2>2
<1>2. WalksSound(stack, sinks, modified, Handlers)'
  <2>1. \A i \in DOMAIN stack' : IsWalk(stack'[i]) =>
          /\ i \in DOMAIN stack /\ stack'[i] = stack[i]
          /\ sinks[stack[i].src] \subseteq sinks'[stack[i].src]
          /\ modified[stack[i].src] => modified'[stack[i].src]
    BY <1>1, InvFacts, FrameTypes
  <2>2. WalksSound(stack, sinks, modified, Handlers)
    BY DEF EventsInv
  <2> QED BY <2>1, <2>2, WalksKept
<1>3. TimeoutSound(stack, sinks)'
  <2>1. \A i \in DOMAIN stack : stack[i].fn = "timeout" => stack[i].sink \notin freed'
    BY DEF EventsInv, TimeoutSound
  <2>2. \A j \in DOMAIN stack' : IsWalk(stack'[j]) =>
          /\ j \in DOMAIN stack /\ IsWalk(stack[j]) /\ stack[j].src = stack'[j].src
          /\ stack[j].src \in Sources
    BY <1>1, InvFacts, FrameTypes
  <2>3. ASSUME NEW i \in DOMAIN stack', stack'[i].fn = "timeout"
        PROVE  /\ i \in DOMAIN stack /\ stack'[i] = stack[i]
               /\ await'[stack[i].sink] = await[stack[i].sink] /\ stack[i].sink \notin freed'
               /\ \A s \in Sources : stack[i].sink \in sinks'[s] => stack[i].sink \in sinks[s]
    <3>1. i \in DOMAIN stack /\ stack'[i] = stack[i] /\ stack[i].fn = "timeout"
      BY <1>1, <2>3
    <3> QED BY <2>1, <3>1
  <2> QED BY <2>2, <2>3, TimeoutKept
<1>4. ASSUME NEW k \in Awaits, TimesOut(k) PROVE TimesOut(k)'
  <2>1. 1 \in DOMAIN stack /\ stack[1] = Frame("timeout", k)
    BY <1>4, InvFacts DEF TimesOut
  <2>2. stack[1].fn = "timeout"
    BY <2>1, SinkFacts, FrameTypes
  <2>3. 1 \in DOMAIN stack' /\ stack'[1] = stack[1]
    BY <1>1, <2>1, <2>2
  <2> QED BY <1>4, <2>3, TimesOutKept
<1> QED BY <1>1, <1>2, <1>3, <1>4

\* A callback, a script or a walk comes to its end.
LEMMA ReturnsKeeps ==
  ASSUME EventsInv, CodeReturns \/ SendReturns
  PROVE  EventsInv'
<1>1. /\ stack # <<>> /\ Top.fn # "timeout" /\ stack' = Front(stack)
      /\ UNCHANGED <<sinks, modified, pending, await, timer, freed, sends, changes, broken>>
  BY DEF CodeReturns, SendReturns, Walking, Running
<1>2. /\ stack' \in Seq(Frames)
      /\ WalksSound(stack, sinks, modified, Handlers)' /\ TimeoutSound(stack, sinks)'
      /\ \A k \in Awaits : TimesOut(k) => TimesOut(k)'
  BY <1>1, InvFacts, PoppedKeeps
<1>3. AwaitsSound'
  BY <1>1, <1>2 DEF EventsInv, AwaitsSound
<1>4. NothingDangles'
  BY <1>1, <1>2 DEF EventsInv, NothingDangles, TypeOK, AnswersArePending
<1> QED BY <1>2, <1>3, <1>4 DEF EventsInv

\* A thread suspends itself: its sink, which is new, is registered.
LEMMA AwaitKeeps ==
  ASSUME EventsInv, NEW k \in Awaits, NEW S \in SUBSET Sources, NEW timed \in BOOLEAN, Await(k, S, timed)
  PROVE  EventsInv'
<1>1. /\ await[k] = "none" /\ await' = [await EXCEPT ![k] = "waiting"]
      /\ timer' = (IF timed THEN timer \cup {k} ELSE timer)
      /\ sinks' = [s \in Sources |-> IF s \in S THEN sinks[s] \cup {k} ELSE sinks[s]]
      /\ modified' = [s \in Sources |-> modified[s] \/ s \in S]
      /\ UNCHANGED <<pending, freed, sends, changes, broken>>
      /\ (stack # <<>> /\ Top.fn # "timeout" /\ stack' = Front(stack)) \/ stack' = stack
  BY DEF Await, Running
<1>2. k \in Sinks /\ k \notin freed
  BY <1>1, SinkFacts DEF EventsInv, AwaitsSound
<1>3. /\ sinks' \in [Sources -> SUBSET Sinks] /\ modified' \in [Sources -> BOOLEAN]
      /\ \A s \in Sources : /\ sinks[s] \subseteq sinks'[s] /\ (modified[s] => modified'[s])
                            /\ sinks'[s] \subseteq sinks[s] \cup {k}
  BY <1>1, <1>2, InvFacts
<1>4. /\ await' \in [Awaits -> AwaitStates] /\ await'[k] = "waiting"
      /\ \A m \in Awaits : m # k => await'[m] = await[m]
  BY <1>1, InvFacts DEF AwaitStates
<1>5. \A i \in DOMAIN stack : stack[i].fn = "timeout" => stack[i].sink \in Awaits /\ stack[i].sink # k
  BY <1>1 DEF EventsInv, TimeoutSound
<1>6. /\ stack' \in Seq(Frames)
      /\ WalksSound(stack, sinks, modified, Handlers)' /\ TimeoutSound(stack, sinks)'
      /\ \A m \in Awaits : TimesOut(m) => TimesOut(m)'
  <2>1. \A i \in DOMAIN stack : stack[i].fn = "timeout" =>
          /\ await'[stack[i].sink] = await[stack[i].sink]
          /\ \A s \in Sources : stack[i].sink \in sinks'[s] => stack[i].sink \in sinks[s]
    BY <1>3, <1>4, <1>5
  <2> QED BY <1>1, <1>3, <2>1, PoppedKeeps
<1>7. \A i \in DOMAIN pending : pending[i] \in Awaits /\ pending[i] # k
  <2>1. \A i \in DOMAIN pending : pending[i] \in Awaits
    BY InvFacts, ElementOfSeq
  <2> QED BY <1>1, <2>1 DEF EventsInv, NothingDangles, AnswersArePending
<1>8. AwaitsSound'
  <2>1. \A m \in Awaits :
          /\ await'[m] \in {"none", "waiting"} => m \notin freed'
          /\ m \in timer' => await'[m] = "waiting"
    BY <1>1, <1>2, <1>4 DEF EventsInv, AwaitsSound
  <2>2. \A m \in Awaits, s \in Sources : m \in sinks'[s] => await'[m] = "waiting" \/ TimesOut(m)'
    BY <1>3, <1>4, <1>6 DEF EventsInv, AwaitsSound
  <2>3. /\ \A i \in DOMAIN pending' : pending'[i] \in freed'
        /\ \A i, j \in DOMAIN pending' : pending'[i] = pending'[j] => i = j
    BY <1>1 DEF EventsInv, AwaitsSound
  <2> QED BY <2>1, <2>2, <2>3 DEF AwaitsSound
<1>9. AnswersArePending'
  BY <1>1, <1>4, <1>7 DEF AnswersArePending, EventsInv, NothingDangles
<1>10. TypeOK'
  <2>1. timer' \in SUBSET Awaits /\ timer' \cap freed' = {} /\ freed' \subseteq Awaits
        /\ \A s \in Sources : sinks'[s] \cap freed' = {}
    BY <1>1, <1>2, <1>3, InvFacts
  <2>2. pending' \in Seq(Awaits) /\ sends' \in 0..MaxSends /\ changes' \in 0..MaxChanges
        /\ broken' \in BOOLEAN
    BY <1>1 DEF EventsInv, NothingDangles, TypeOK
  <2> QED BY <1>3, <1>4, <1>6, <2>1, <2>2 DEF TypeOK
<1> QED BY <1>1, <1>6, <1>8, <1>9, <1>10 DEF EventsInv, NothingDangles

\* The answer that has been put off makes the thread go on.
LEMMA FinishWaitKeeps ==
  ASSUME EventsInv, FinishWait
  PROVE  EventsInv'
<1> DEFINE k == Head(pending)
<1>1. /\ stack = <<>> /\ pending # <<>> /\ pending' = Tail(pending)
      /\ \/ /\ await[k] = "answered" /\ await' = [await EXCEPT ![k] = "resumed"]
            /\ stack' = <<Frame("script", k)>>
         \/ await' = await /\ stack' = stack
      /\ UNCHANGED <<sinks, modified, timer, freed, sends, changes, broken>>
  BY DEF FinishWait, Idle
<1>2. pending \in Seq(Awaits)
  BY InvFacts
<1>3. /\ pending' \in Seq(Awaits) /\ k \in Awaits /\ 1 \in DOMAIN pending /\ pending[1] = k
      /\ \A i \in DOMAIN pending' : i + 1 \in DOMAIN pending /\ pending'[i] = pending[i + 1]
      /\ DOMAIN pending' \subseteq Nat \ {0}
  <2>1. /\ Tail(pending) \in Seq(Awaits) /\ Len(Tail(pending)) = Len(pending) - 1 /\ k = pending[1]
        /\ k \in Awaits /\ \A i \in 1..Len(Tail(pending)) : Tail(pending)[i] = pending[i + 1]
    BY <1>1, <1>2, HeadTailProperties
  <2>2. /\ DOMAIN pending = 1..Len(pending) /\ Len(pending) \in Nat \ {0}
        /\ DOMAIN Tail(pending) = 1..Len(Tail(pending))
    BY <1>1, <1>2, <2>1, LenProperties, EmptySeq
  <2> QED BY <1>1, <2>1, <2>2
<1>4. /\ \A i, j \in DOMAIN pending' : pending'[i] = pending'[j] => i = j
      /\ \A i \in DOMAIN pending' : pending'[i] \in freed /\ pending'[i] # k /\ pending'[i] \in Awaits
  <2>1. \A i \in DOMAIN pending' : i + 1 # 1 /\ i \in Nat
    BY <1>3
  <2>2. \A i, j \in DOMAIN pending : pending[i] = pending[j] => i = j
    BY DEF EventsInv, AwaitsSound
  <2>3. \A i \in DOMAIN pending : pending[i] \in freed
    BY DEF EventsInv, AwaitsSound
  <2>4. \A i, j \in DOMAIN pending' : i + 1 = j + 1 => i = j
    BY <2>1
  <2>5. \A i, j \in DOMAIN pending' : pending'[i] = pending'[j] => i = j
    BY <1>3, <2>2, <2>4
  <2>6. \A i \in DOMAIN pending' : pending'[i] # k
    BY <1>3, <2>1, <2>2
  <2> QED BY <1>3, <2>3, <2>5, <2>6, InvFacts
<1> HIDE DEF k
<1>5. stack' \in Seq(Frames) /\ \A i \in DOMAIN stack' : ~IsWalk(stack'[i]) /\ stack'[i].fn # "timeout"
  <2>1. Frame("script", k) \in Frames /\ ~IsWalk(Frame("script", k)) /\ Frame("script", k).fn = "script"
    BY <1>3, SinkFacts, FrameTypes
  <2>2. CASE stack' = stack
    BY <1>1, <2>2
  <2>3. CASE stack' = <<Frame("script", k)>>
    <3> DEFINE f == Frame("script", k)
    <3> HIDE DEF f
    <3>1. <<f>> \in Seq(Frames) /\ DOMAIN <<f>> = {1} /\ <<f>>[1] = f
      BY <2>1 DEF f
    <3> QED BY <2>1, <2>3, <3>1 DEF f
  <2> QED BY <1>1, <2>2, <2>3
<1>6. WalksSound(stack, sinks, modified, Handlers)' /\ TimeoutSound(stack, sinks)'
  BY <1>5 DEF WalksSound, TimeoutSound
<1>7. /\ await' \in [Awaits -> AwaitStates]
      /\ \A m \in Awaits : \/ await'[m] = await[m]
                           \/ m = k /\ await[m] = "answered" /\ await'[m] = "resumed"
  BY <1>1, <1>3, InvFacts DEF AwaitStates
<1>8. AwaitsSound'
  <2>1. \A m \in Awaits : ~TimesOut(m)
    BY <1>1 DEF TimesOut
  <2>2. \A m \in Awaits :
          /\ await'[m] \in {"none", "waiting"} => m \notin freed'
          /\ m \in timer' => await'[m] = "waiting"
          /\ \A s \in Sources : m \in sinks'[s] => await'[m] = "waiting"
    BY <1>1, <1>7, <2>1 DEF EventsInv, AwaitsSound
  <2> QED BY <1>1, <1>4, <2>2 DEF AwaitsSound
<1>9. AnswersArePending'
  <2>1. ASSUME NEW i \in DOMAIN pending' PROVE await'[pending'[i]] \in {"answered", "aborted"}
    <3>1. i + 1 \in DOMAIN pending /\ pending'[i] = pending[i + 1]
      BY <1>3
    <3>2. await[pending'[i]] \in {"answered", "aborted"}
      BY <3>1 DEF EventsInv, NothingDangles, AnswersArePending
    <3> QED BY <1>4, <1>7, <3>2
  <2> QED BY <2>1 DEF AnswersArePending
<1>10. NothingDangles'
  BY <1>1, <1>3, <1>5, <1>7, <1>9 DEF EventsInv, NothingDangles, TypeOK
<1> QED BY <1>6, <1>8, <1>10 DEF EventsInv

\* The time is over: the thread goes on within timeout(), while its sink is still registered.
LEMMA TimeoutKeeps ==
  ASSUME EventsInv, NEW k \in Awaits, Timeout(k)
  PROVE  EventsInv'
<1>1. /\ stack = <<>> /\ k \in timer /\ timer' = timer \ {k}
      /\ await' = [await EXCEPT ![k] = "resumed"]
      /\ stack' = <<Frame("timeout", k), Frame("script", k)>>
      /\ UNCHANGED <<sinks, modified, pending, freed, sends, changes, broken>>
  BY DEF Timeout, Idle
<1>2. await[k] = "waiting" /\ k \notin freed /\ k \in Sinks
  BY <1>1, SinkFacts DEF EventsInv, AwaitsSound
<1> DEFINE f == Frame("timeout", k)
           g == Frame("script", k)
<1>3. /\ f \in Frames /\ ~IsWalk(f) /\ f.fn = "timeout" /\ f.sink = k
      /\ g \in Frames /\ ~IsWalk(g) /\ g.fn = "script"
  BY <1>2, FrameTypes
<1>4. stack' \in Seq(Frames) /\ DOMAIN stack' = {1, 2} /\ stack'[1] = f /\ stack'[2] = g /\ stack' # <<>>
  <2> HIDE DEF f, g
  <2>1. <<f, g>> \in Seq(Frames) /\ DOMAIN <<f, g>> = {1, 2} /\ <<f, g>>[1] = f /\ <<f, g>>[2] = g
        /\ <<f, g>> # <<>>
    BY <1>3
  <2> QED BY <1>1, <2>1 DEF f, g
<1>5. /\ await' \in [Awaits -> AwaitStates] /\ await'[k] = "resumed"
      /\ \A m \in Awaits : m # k => await'[m] = await[m]
  BY <1>1, InvFacts DEF AwaitStates
<1>6. WalksSound(stack, sinks, modified, Handlers)'
  BY <1>3, <1>4 DEF WalksSound
<1>7. TimesOut(k)'
  BY <1>4 DEF TimesOut, Frame
<1> HIDE DEF f, g
<1>8. TimeoutSound(stack, sinks)'
  BY <1>1, <1>2, <1>3, <1>4, <1>5 DEF TimeoutSound
<1>9. AwaitsSound'
  <2>1. \A m \in Awaits : ~TimesOut(m)
    BY <1>1 DEF TimesOut
  <2>2. \A m \in Awaits :
          /\ await'[m] \in {"none", "waiting"} => m \notin freed'
          /\ m \in timer' => await'[m] = "waiting"
          /\ \A s \in Sources : m \in sinks'[s] => await'[m] = "waiting" \/ TimesOut(m)'
    BY <1>1, <1>5, <1>7, <2>1 DEF EventsInv, AwaitsSound
  <2> QED BY <1>1, <2>2 DEF EventsInv, AwaitsSound
<1>10. AnswersArePending'
  <2>1. \A i \in DOMAIN pending : pending[i] \in Awaits
    BY InvFacts, ElementOfSeq
  <2> QED BY <1>1, <1>2, <1>5, <2>1 DEF EventsInv, NothingDangles, AnswersArePending
<1>11. NothingDangles'
  <2>1. timer' \in SUBSET Awaits /\ timer' \cap freed' = {}
    BY <1>1, InvFacts
  <2> QED BY <1>1, <1>4, <1>5, <1>10, <2>1 DEF EventsInv, NothingDangles, TypeOK
<1> QED BY <1>6, <1>8, <1>9, <1>11 DEF EventsInv

\* An event is sent: its walk begins before the first sink.
LEMMA SendEventKeeps ==
  ASSUME EventsInv, CarefulScripts, NEW s \in Sources, SendEvent(s)
  PROVE  EventsInv'
<1> DEFINE f == [fn |-> "send", src |-> s, pos |-> Begin, todo |-> sinks[s]]
           n == Len(stack)
<1>1. /\ sends < MaxSends /\ sends' = sends + 1
      /\ modified' = [modified EXCEPT ![s] = FALSE] /\ stack' = Append(stack, f)
      /\ \A i \in DOMAIN stack : stack[i].fn = "timeout" => stack[i].sink \notin sinks[s]
      /\ \A i \in DOMAIN stack : IsWalk(stack[i]) /\ stack[i].src = s => stack[i].pos # Erased
      /\ UNCHANGED <<sinks, pending, await, timer, freed, changes, broken>>
  BY DEF SendEvent, CarefulScripts, SendingOn, IsWalk
<1>2. f \in Frames /\ IsWalk(f) /\ f.src = s /\ f.pos = Begin /\ f.todo = sinks[s]
  BY InvFacts DEF Frames, IsWalk
<1> HIDE DEF f
<1>3. /\ stack' \in Seq(Frames) /\ DOMAIN stack' = 1..n + 1 /\ stack'[n + 1] = f /\ n \in Nat
      /\ stack' # <<>> /\ DOMAIN stack = 1..n
      /\ \A i \in DOMAIN stack' : i # n + 1 => i \in DOMAIN stack /\ stack'[i] = stack[i]
      /\ \A i \in DOMAIN stack : i \in DOMAIN stack' /\ stack'[i] = stack[i]
  <2>1. /\ stack' \in Seq(Frames) /\ DOMAIN stack' = 1..n + 1 /\ stack'[n + 1] = f /\ n \in Nat
        /\ stack' # <<>> /\ DOMAIN stack = 1..n
        /\ \A i \in 1..n + 1 : i # n + 1 => i \in DOMAIN stack /\ stack'[i] = stack[i]
    BY <1>1, <1>2, InvFacts, PushEffect
  <2>2. \A i \in DOMAIN stack : i \in 1..n + 1 /\ i # n + 1
    BY <2>1
  <2> QED BY <2>1, <2>2
<1>4. \A q \in Sources : q # s => modified'[q] = modified[q]
  BY <1>1, InvFacts
<1>5. WalksSound(stack', sinks, modified', Handlers)
  <2> SUFFICES ASSUME NEW i \in DOMAIN stack', IsWalk(stack'[i])
               PROVE  /\ stack'[i].pos \in (sinks[stack'[i].src] \cap Handlers) \cup {Begin, Erased}
                      /\ stack'[i].pos = Erased =>
                           /\ modified'[stack'[i].src]
                           /\ \A j \in DOMAIN stack' :
                                IsWalk(stack'[j]) /\ stack'[j].src = stack'[i].src => j <= i
                      /\ stack'[i].todo \subseteq sinks[stack'[i].src]
                      /\ stack'[i].pos # Erased => \A k \in stack'[i].todo : k > stack'[i].pos
    BY DEF WalksSound
  <2>1. CASE i = n + 1
    <3>1. sinks[s] \in SUBSET Sinks
      BY InvFacts
    <3>2. \A k \in Sinks : k > Begin
      BY SinkFacts
    <3>3. stack'[i].src = s /\ stack'[i].pos = Begin /\ stack'[i].todo = sinks[s] /\ Begin # Erased
      BY <1>2, <1>3, <2>1, SinkFacts
    <3> QED BY <3>1, <3>2, <3>3
  <2>2. CASE i # n + 1
    <3>1. i \in DOMAIN stack /\ stack'[i] = stack[i] /\ IsWalk(stack[i])
      BY <1>3, <2>2
    <3>2. /\ stack[i].pos \in (sinks[stack[i].src] \cap Handlers) \cup {Begin, Erased}
          /\ stack[i].pos = Erased =>
               /\ modified[stack[i].src]
               /\ \A j \in DOMAIN stack : IsWalk(stack[j]) /\ stack[j].src = stack[i].src => j <= i
          /\ stack[i].todo \subseteq sinks[stack[i].src]
          /\ stack[i].pos # Erased => \A k \in stack[i].todo : k > stack[i].pos
      <4>1. WalksSound(stack, sinks, modified, Handlers)
        BY DEF EventsInv
      <4> QED BY <3>1, <4>1, Zenon DEF WalksSound
    <3>3. stack[i].src \in Sources
      BY <3>1, InvFacts, FrameTypes
    <3>4. ASSUME stack[i].pos = Erased
          PROVE  /\ modified'[stack[i].src]
                 /\ \A j \in DOMAIN stack' : IsWalk(stack'[j]) /\ stack'[j].src = stack[i].src => j <= i
      <4>1. stack[i].src # s
        BY <1>1, <3>1, <3>4
      <4>2. \A j \in DOMAIN stack' : stack'[j].src = stack[i].src => j # n + 1
        BY <1>2, <1>3, <4>1
      <4> QED BY <1>3, <1>4, <3>2, <3>3, <3>4, <4>1, <4>2
    <3> QED BY <3>1, <3>2, <3>4
  <2> QED BY <2>1, <2>2
<1>6. WalksSound(stack, sinks, modified, Handlers)'
  BY <1>1, <1>5
<1>7. TimeoutSound(stack, sinks)'
  <2>1. ASSUME NEW i \in DOMAIN stack', stack'[i].fn = "timeout"
        PROVE  /\ i \in DOMAIN stack /\ stack'[i] = stack[i]
               /\ stack[i].sink \notin freed /\ stack[i].sink \notin sinks[s]
    <3>1. i # n + 1
      BY <1>2, <1>3, <2>1 DEF IsWalk
    <3>2. i \in DOMAIN stack /\ stack'[i] = stack[i] /\ stack[i].fn = "timeout"
      BY <1>3, <2>1, <3>1
    <3>3. stack[i].sink \notin freed
      BY <3>2 DEF EventsInv, TimeoutSound
    <3> QED BY <1>1, <3>2, <3>3
  <2>2. ASSUME NEW j \in DOMAIN stack', IsWalk(stack'[j])
        PROVE  \/ stack'[j].src = s
               \/ j \in DOMAIN stack /\ IsWalk(stack[j]) /\ stack[j].src = stack'[j].src
    BY <1>2, <1>3, <2>2
  <2>3. ASSUME NEW i \in DOMAIN stack', stack'[i].fn = "timeout", NEW j \in DOMAIN stack', IsWalk(stack'[j])
        PROVE  \/ stack[i].sink \notin sinks'[stack'[j].src]
               \/ /\ j \in DOMAIN stack /\ IsWalk(stack[j]) /\ stack[j].src = stack'[j].src
                  /\ stack[i].sink \in sinks[stack[j].src]
    BY <1>1, <2>1, <2>2, <2>3
  <2> QED BY <1>1, <2>1, <2>3, TimeoutKept
<1>8. AwaitsSound'
  <2>1. ASSUME NEW k \in Awaits, TimesOut(k) PROVE TimesOut(k)'
    <3>1. 1 \in DOMAIN stack
      BY <2>1, InvFacts DEF TimesOut
    <3> QED BY <1>3, <2>1, <3>1, TimesOutKept
  <2> QED BY <1>1, <2>1 DEF EventsInv, AwaitsSound
<1>9. NothingDangles'
  <2>1. sends' \in 0..MaxSends /\ modified' \in [Sources -> BOOLEAN]
    BY <1>1, EventConstants DEF EventsInv, NothingDangles, TypeOK
  <2> QED BY <1>1, <1>3, <2>1 DEF EventsInv, NothingDangles, TypeOK, AnswersArePending
<1> QED BY <1>6, <1>7, <1>8, <1>9 DEF EventsInv

\* The innermost walk gets to another place, with frame f; only its own flag may have changed.
WalkMoves(f, st, md, visits) ==
  /\ f \in Frames /\ IsWalk(f) /\ f.src = Top.src /\ st = Append(Front(stack), f)
  /\ Handlers \subseteq visits /\ f.pos \in (sinks[f.src] \cap visits) \cup {Begin}
  /\ f.todo \subseteq sinks[f.src] /\ \A k \in f.todo : k > f.pos
  /\ \A q \in Sources : q # f.src => md[q] = modified[q]

LEMMA WalkMoved ==
  ASSUME EventsInv, Running("send"), NEW f, NEW st, NEW md, NEW visits, WalkMoves(f, st, md, visits)
  PROVE  /\ st \in Seq(Frames) /\ WalksSound(st, sinks, md, visits)
         /\ stack # <<>> /\ IsWalk(Top) /\ DOMAIN st = DOMAIN stack /\ st[Len(stack)] = f
         /\ \A i \in DOMAIN st : i # Len(stack) => st[i] = stack[i] /\ i < Len(stack)
         /\ \A i \in DOMAIN st : IsWalk(st[i]) <=> IsWalk(stack[i])
         /\ \A i \in DOMAIN st : IsWalk(st[i]) => stack[i].src = st[i].src
         /\ \A i \in DOMAIN st : ~IsWalk(st[i]) => stack[i] = st[i]
<1> DEFINE n == Len(stack)
<1>0. /\ f \in Frames /\ IsWalk(f) /\ f.src = Top.src /\ st = Append(Front(stack), f)
      /\ Handlers \subseteq visits /\ f.pos \in (sinks[f.src] \cap visits) \cup {Begin}
      /\ f.todo \subseteq sinks[f.src] /\ \A k \in f.todo : k > f.pos
      /\ \A q \in Sources : q # f.src => md[q] = modified[q]
  BY DEF WalkMoves
<1>1. stack # <<>> /\ IsWalk(Top) /\ Top = stack[n] /\ n \in DOMAIN stack
  BY InvFacts DEF Running, IsWalk
<1>2. /\ st \in Seq(Frames) /\ DOMAIN st = DOMAIN stack /\ st[n] = f
      /\ \A i \in DOMAIN stack : i # n => st[i] = stack[i] /\ i < n
  BY <1>0, <1>1, ReplaceEffect
<1>3. /\ \A i \in DOMAIN st : IsWalk(st[i]) <=> IsWalk(stack[i])
      /\ \A i \in DOMAIN st : IsWalk(st[i]) => stack[i].src = st[i].src
      /\ \A i \in DOMAIN st : ~IsWalk(st[i]) => stack[i] = st[i]
  BY <1>0, <1>1, <1>2
<1>4. Erased # Begin /\ \A k \in Sinks : k # Erased
  BY SinkFacts
<1>5. f.src \in Sources /\ f.pos # Erased
  <2>1. f.src \in Sources
    BY <1>0, FrameTypes
  <2>2. sinks[f.src] \subseteq Sinks
    BY <2>1, InvFacts
  <2> QED BY <1>0, <1>4, <2>1, <2>2
<1>6. WalksSound(st, sinks, md, visits)
  <2> SUFFICES ASSUME NEW i \in DOMAIN st, IsWalk(st[i])
               PROVE  /\ st[i].pos \in (sinks[st[i].src] \cap visits) \cup {Begin, Erased}
                      /\ st[i].pos = Erased =>
                           /\ md[st[i].src]
                           /\ \A j \in DOMAIN st : IsWalk(st[j]) /\ st[j].src = st[i].src => j <= i
                      /\ st[i].todo \subseteq sinks[st[i].src]
                      /\ st[i].pos # Erased => \A k \in st[i].todo : k > st[i].pos
    BY DEF WalksSound
  <2>1. CASE i = n
    BY <1>0, <1>2, <1>5, <2>1
  <2>2. CASE i # n
    <3>1. i \in DOMAIN stack /\ st[i] = stack[i] /\ IsWalk(stack[i]) /\ i < n
      BY <1>2, <2>2
    <3>2. /\ stack[i].pos \in (sinks[stack[i].src] \cap Handlers) \cup {Begin, Erased}
          /\ stack[i].pos = Erased =>
               /\ modified[stack[i].src]
               /\ \A j \in DOMAIN stack : IsWalk(stack[j]) /\ stack[j].src = stack[i].src => j <= i
          /\ stack[i].todo \subseteq sinks[stack[i].src]
          /\ stack[i].pos # Erased => \A k \in stack[i].todo : k > stack[i].pos
      <4>1. WalksSound(stack, sinks, modified, Handlers)
        BY DEF EventsInv
      <4> QED BY <3>1, <4>1, Zenon DEF WalksSound
    <3>3. stack[i].src \in Sources
      BY <3>1, InvFacts, FrameTypes
    <3>4. ASSUME stack[i].pos = Erased
          PROVE  /\ md[stack[i].src]
                 /\ \A j \in DOMAIN st : IsWalk(st[j]) /\ st[j].src = stack[i].src => j <= i
      <4>1. stack[i].src # f.src
        <5>1. ~(n <= i)
          BY <3>1, InvFacts
        <5> QED BY <1>0, <1>1, <3>2, <3>4, <5>1
      <4>2. \A j \in DOMAIN st : IsWalk(st[j]) /\ st[j].src = stack[i].src =>
              j \in DOMAIN stack /\ IsWalk(stack[j]) /\ stack[j].src = stack[i].src
        BY <1>2, <1>3
      <4> QED BY <1>0, <3>2, <3>3, <3>4, <4>1, <4>2
    <3> QED BY <1>0, <3>1, <3>2, <3>4
  <2> QED BY <2>1, <2>2
<1> QED BY <1>1, <1>2, <1>3, <1>6

\* A changed map makes the walk start again: its iterator is used when it has been erased only
\* after a walk of the same source that it has called has reset the flag.
LEMMA SendContinuesKeeps ==
  ASSUME EventsInv, SendContinues
  PROVE  EventsInv'
<1> DEFINE t == Top
           n == Len(stack)
           f == [t EXCEPT !.pos = Begin]
<1>1. stack # <<>> /\ IsWalk(t) /\ t = stack[n] /\ n \in DOMAIN stack /\ t \in Frames
  BY InvFacts DEF SendContinues, Running, IsWalk
<1>2. /\ t.pos = Erased => modified[t.src]
      /\ t.todo \subseteq sinks[t.src]
  BY <1>1 DEF EventsInv, WalksSound
<1>3. /\ stack' = Append(Front(stack), f) /\ modified' = [modified EXCEPT ![t.src] = FALSE]
      /\ UNCHANGED <<sinks, pending, await, timer, freed, sends, changes, broken>>
  BY <1>2 DEF SendContinues
<1>4. t.src \in Sources /\ t.todo \in SUBSET Sinks
  BY <1>1, FrameTypes
<1>5. f \in Frames /\ IsWalk(f) /\ f.src = t.src /\ f.pos = Begin /\ f.todo = t.todo
  <2>1. t \in [fn : {"send"}, src : Sources, pos : Sinks \cup {Begin, Erased}, todo : SUBSET Sinks]
    BY <1>1 DEF Frames, IsWalk
  <2> HIDE DEF t
  <2> QED BY <2>1 DEF Frames, IsWalk
<1> HIDE DEF f
<1>6. \A k \in f.todo : k > f.pos
  <2>1. \A k \in Sinks : k > Begin
    BY SinkFacts
  <2> QED BY <1>4, <1>5, <2>1
<1>7. modified' \in [Sources -> BOOLEAN] /\ \A q \in Sources : q # f.src => modified'[q] = modified[q]
  BY <1>3, <1>5, InvFacts
<1>8. /\ stack' \in Seq(Frames) /\ WalksSound(stack', sinks, modified', Handlers)
      /\ DOMAIN stack' = DOMAIN stack
      /\ \A i \in DOMAIN stack' : IsWalk(stack'[i]) => IsWalk(stack[i]) /\ stack[i].src = stack'[i].src
      /\ \A i \in DOMAIN stack' : ~IsWalk(stack'[i]) => stack[i] = stack'[i]
      /\ \A i \in DOMAIN stack' : IsWalk(stack'[i]) <=> IsWalk(stack[i])
  <2>1. Running("send")
    BY DEF SendContinues
  <2>2. /\ f.src = Top.src /\ f.pos \in (sinks[f.src] \cap Handlers) \cup {Begin}
        /\ f.todo \subseteq sinks[f.src] /\ Handlers \subseteq Handlers
    BY <1>2, <1>5
  <2> DEFINE st == stack'
             md == modified'
  <2>3. st = Append(Front(stack), f) /\ \A q \in Sources : q # f.src => md[q] = modified[q]
    BY <1>3, <1>7
  <2>4. f \in Frames /\ IsWalk(f) /\ \A k \in f.todo : k > f.pos
    BY <1>5, <1>6
  <2>6. WalkMoves(f, st, md, Handlers)
    BY <2>2, <2>3, <2>4 DEF WalkMoves
  <2> HIDE DEF st, md
  <2>5. /\ st \in Seq(Frames) /\ WalksSound(st, sinks, md, Handlers)
        /\ stack # <<>> /\ IsWalk(Top) /\ DOMAIN st = DOMAIN stack /\ st[Len(stack)] = f
        /\ \A i \in DOMAIN st : i # Len(stack) => st[i] = stack[i] /\ i < Len(stack)
        /\ \A i \in DOMAIN st : IsWalk(st[i]) <=> IsWalk(stack[i])
        /\ \A i \in DOMAIN st : IsWalk(st[i]) => stack[i].src = st[i].src
        /\ \A i \in DOMAIN st : ~IsWalk(st[i]) => stack[i] = st[i]
    BY <2>1, <2>6, WalkMoved
  <2> QED BY <2>5 DEF st, md
<1>9. WalksSound(stack, sinks, modified, Handlers)'
  BY <1>3, <1>8
<1>10. TimeoutSound(stack, sinks)'
  <2>1. ASSUME NEW i \in DOMAIN stack', stack'[i].fn = "timeout"
        PROVE  i \in DOMAIN stack /\ stack'[i] = stack[i] /\ stack[i].sink \notin freed
    <3>1. i \in DOMAIN stack /\ stack'[i] = stack[i]
      BY <1>8, <2>1 DEF IsWalk
    <3> QED BY <2>1, <3>1 DEF EventsInv, TimeoutSound
  <2>2. ASSUME NEW i \in DOMAIN stack', NEW j \in DOMAIN stack', IsWalk(stack'[j])
        PROVE  \/ stack[i].sink \notin sinks'[stack'[j].src]
               \/ /\ j \in DOMAIN stack /\ IsWalk(stack[j]) /\ stack[j].src = stack'[j].src
                  /\ stack[i].sink \in sinks[stack[j].src]
    BY <1>3, <1>8, <2>2
  <2> QED BY <1>3, <2>1, <2>2, TimeoutKept
<1>11. AwaitsSound'
  <2>1. ASSUME NEW k \in Awaits, TimesOut(k) PROVE TimesOut(k)'
    <3>1. 1 \in DOMAIN stack /\ stack[1] = Frame("timeout", k)
      BY <2>1, InvFacts DEF TimesOut
    <3>2. ~IsWalk(stack[1])
      BY <3>1, SinkFacts, FrameTypes
    <3> QED BY <1>8, <2>1, <3>1, <3>2, TimesOutKept
  <2> QED BY <1>3, <2>1 DEF EventsInv, AwaitsSound
<1>12. NothingDangles'
  BY <1>3, <1>7, <1>8 DEF EventsInv, NothingDangles, TypeOK, AnswersArePending
<1> QED BY <1>9, <1>10, <1>11, <1>12 DEF EventsInv

\* The walk gets to the next sink k: nothing that it still has to visit is left behind.
LEMMA VisitSound ==
  ASSUME EventsInv, Walking, Ahead # {}, NEW k, k = Min(Ahead)
  PROVE  /\ k \in Sinks /\ k \in sinks[Top.src] /\ Top.src \in Sources
         /\ Visited(k) \in Seq(Frames) /\ WalksSound(Visited(k), sinks, modified, Handlers \cup {k})
         /\ stack # <<>> /\ IsWalk(Top) /\ DOMAIN Visited(k) = DOMAIN stack
         /\ \A i \in DOMAIN stack : IsWalk(Visited(k)[i]) <=> IsWalk(stack[i])
         /\ \A i \in DOMAIN stack : IsWalk(stack[i]) => stack[i].src = Visited(k)[i].src
         /\ \A i \in DOMAIN stack : ~IsWalk(stack[i]) => stack[i] = Visited(k)[i]
         /\ \A i \in DOMAIN stack : i # Len(stack) => stack[i] = Visited(k)[i] /\ i < Len(stack)
<1> DEFINE t == Top
           n == Len(stack)
           T == t.todo \ {k}
           f == [t EXCEPT !.pos = k, !.todo = T]
<1>1. stack # <<>> /\ IsWalk(t) /\ t = stack[n] /\ n \in DOMAIN stack /\ t \in Frames
  BY InvFacts DEF Walking, Running, IsWalk
<1>2. t.src \in Sources /\ t.todo \in SUBSET Sinks /\ t.pos \in Sinks \cup {Begin, Erased}
  BY <1>1, FrameTypes
<1>3. t.todo \subseteq sinks[t.src] /\ \A m \in t.todo : m > t.pos
  BY <1>1 DEF EventsInv, WalksSound, Walking
<1>4. Ahead \in SUBSET Nat /\ Ahead \subseteq sinks[t.src] /\ sinks[t.src] \in SUBSET Sinks
  BY <1>2, InvFacts, SinkFacts DEF Ahead
<1>5. k \in Ahead /\ \A m \in Ahead : k <= m
  BY <1>4, MinIsLeast
<1>6. k \in Sinks /\ k \in sinks[t.src] /\ k \in Nat
  BY <1>4, <1>5
<1>7. \A m \in T : m > k
  <2>1. ASSUME NEW m \in T PROVE m > k
    <3>1. m \in Ahead
      BY <1>3 DEF Ahead
    <3>2. m \in Nat /\ k <= m /\ m # k
      BY <1>4, <1>5, <3>1
    <3> QED BY <1>6, <3>2
  <2> QED BY <2>1
<1>8. f \in Frames /\ IsWalk(f) /\ f.src = t.src /\ f.pos = k /\ f.todo = T
  <2>1. t \in [fn : {"send"}, src : Sources, pos : Sinks \cup {Begin, Erased}, todo : SUBSET Sinks]
    BY <1>1 DEF Frames, IsWalk
  <2>2. T \in SUBSET Sinks
    BY <1>2
  <2> HIDE DEF t, T
  <2> QED BY <1>6, <2>1, <2>2 DEF Frames, IsWalk
<1>9. Visited(k) = Append(Front(stack), f)
  BY DEF Visited
<1> HIDE DEF f, T
<1>10. Running("send") /\ f.src = Top.src
  BY <1>8 DEF Walking
<1>11. /\ Handlers \subseteq Handlers \cup {k}
       /\ f.pos \in (sinks[f.src] \cap (Handlers \cup {k})) \cup {Begin}
       /\ f.todo \subseteq sinks[f.src] /\ \A m \in f.todo : m > f.pos
  BY <1>3, <1>6, <1>7, <1>8 DEF T
<1> DEFINE st == Visited(k)
<1> HIDE DEF st
<1>12. /\ st \in Seq(Frames) /\ WalksSound(st, sinks, modified, Handlers \cup {k})
       /\ DOMAIN st = DOMAIN stack
       /\ \A i \in DOMAIN st : i # n => st[i] = stack[i] /\ i < n
       /\ \A i \in DOMAIN st : IsWalk(st[i]) <=> IsWalk(stack[i])
       /\ \A i \in DOMAIN st : IsWalk(st[i]) => stack[i].src = st[i].src
       /\ \A i \in DOMAIN st : ~IsWalk(st[i]) => stack[i] = st[i]
  <2> DEFINE visits == Handlers \cup {k}
  <2>1. st = Append(Front(stack), f) /\ f \in Frames /\ IsWalk(f)
    BY <1>8, <1>9 DEF st
  <2>2. \A q \in Sources : q # f.src => modified[q] = modified[q]
    OBVIOUS
  <2>3. /\ Handlers \subseteq visits /\ f.pos \in (sinks[f.src] \cap visits) \cup {Begin}
        /\ f.todo \subseteq sinks[f.src] /\ \A m \in f.todo : m > f.pos
    BY <1>11
  <2>4. WalkMoves(f, st, modified, visits)
    BY <1>10, <2>1, <2>2, <2>3 DEF WalkMoves
  <2> HIDE DEF visits
  <2>5. /\ st \in Seq(Frames) /\ WalksSound(st, sinks, modified, visits)
        /\ stack # <<>> /\ IsWalk(Top) /\ DOMAIN st = DOMAIN stack /\ st[Len(stack)] = f
        /\ \A i \in DOMAIN st : i # Len(stack) => st[i] = stack[i] /\ i < Len(stack)
        /\ \A i \in DOMAIN st : IsWalk(st[i]) <=> IsWalk(stack[i])
        /\ \A i \in DOMAIN st : IsWalk(st[i]) => stack[i].src = st[i].src
        /\ \A i \in DOMAIN st : ~IsWalk(st[i]) => stack[i] = st[i]
    BY <1>10, <2>4, WalkMoved
  <2> QED BY <2>5 DEF visits
<1> QED BY <1>1, <1>2, <1>6, <1>12 DEF st

\* The callback of a handler is called.
LEMMA SendToHandlerKeeps ==
  ASSUME EventsInv, NEW h \in Sinks, SendToHandler(h)
  PROVE  EventsInv'
<1> DEFINE st == Visited(h)
           c == Frame("handler", h)
           n == Len(st)
<1>1. /\ h \in Handlers /\ stack' = Append(st, c)
      /\ UNCHANGED <<sinks, modified, pending, await, timer, freed, sends, changes, broken>>
  BY DEF SendToHandler
<1>2. /\ st \in Seq(Frames) /\ WalksSound(st, sinks, modified, Handlers \cup {h})
      /\ DOMAIN st = DOMAIN stack
      /\ \A i \in DOMAIN stack : IsWalk(st[i]) <=> IsWalk(stack[i])
      /\ \A i \in DOMAIN stack : IsWalk(stack[i]) => stack[i].src = st[i].src
      /\ \A i \in DOMAIN stack : ~IsWalk(stack[i]) => stack[i] = st[i]
  BY VisitSound DEF SendToHandler
<1>3. c \in Frames /\ ~IsWalk(c) /\ c.fn = "handler"
  BY FrameTypes
<1> HIDE DEF st, c
<1>4. /\ stack' \in Seq(Frames) /\ DOMAIN stack' = 1..n + 1 /\ stack'[n + 1] = c
      /\ \A i \in DOMAIN stack' : i # n + 1 => i \in DOMAIN st /\ stack'[i] = st[i]
      /\ \A i \in DOMAIN st : i \in DOMAIN stack' /\ stack'[i] = st[i]
  <2>1. /\ stack' \in Seq(Frames) /\ DOMAIN stack' = 1..n + 1 /\ stack'[n + 1] = c
        /\ n \in Nat /\ DOMAIN st = 1..n
        /\ \A i \in 1..n + 1 : i # n + 1 => i \in DOMAIN st /\ stack'[i] = st[i]
    BY <1>1, <1>2, <1>3, PushEffect
  <2>2. \A i \in DOMAIN st : i \in 1..n + 1 /\ i # n + 1
    BY <2>1
  <2> QED BY <2>1, <2>2
<1>5. WalksSound(stack, sinks, modified, Handlers)'
  <2>1. \A i \in DOMAIN stack' : IsWalk(stack'[i]) =>
          /\ i \in DOMAIN st /\ stack'[i] = st[i]
          /\ sinks[st[i].src] \subseteq sinks'[st[i].src]
          /\ modified[st[i].src] => modified'[st[i].src]
    BY <1>1, <1>3, <1>4
  <2>2. WalksSound(st, sinks, modified, Handlers)
    <3>1. Handlers \cup {h} = Handlers
      BY <1>1
    <3> QED BY <1>2, <3>1
  <2> QED BY <2>1, <2>2, WalksKept
<1>6. TimeoutSound(stack, sinks)'
  <2>1. ASSUME NEW i \in DOMAIN stack', stack'[i].fn = "timeout"
        PROVE  i \in DOMAIN stack /\ stack'[i] = stack[i] /\ stack[i].sink \notin freed
    <3>1. i # n + 1 /\ ~IsWalk(stack'[i])
      BY <1>3, <1>4, <2>1 DEF IsWalk
    <3>2. i \in DOMAIN stack /\ stack'[i] = stack[i]
      BY <1>2, <1>4, <3>1
    <3> QED BY <2>1, <3>2 DEF EventsInv, TimeoutSound
  <2>2. ASSUME NEW i \in DOMAIN stack', NEW j \in DOMAIN stack', IsWalk(stack'[j])
        PROVE  \/ stack[i].sink \notin sinks'[stack'[j].src]
               \/ /\ j \in DOMAIN stack /\ IsWalk(stack[j]) /\ stack[j].src = stack'[j].src
                  /\ stack[i].sink \in sinks[stack[j].src]
    <3>1. j \in DOMAIN st /\ stack'[j] = st[j]
      BY <1>3, <1>4, <2>2
    <3>2. j \in DOMAIN stack /\ IsWalk(stack[j]) /\ stack[j].src = stack'[j].src
      BY <1>2, <2>2, <3>1
    <3> QED BY <1>1, <3>2
  <2> QED BY <1>1, <2>1, <2>2, TimeoutKept
<1>7. AwaitsSound'
  <2>1. ASSUME NEW k \in Awaits, TimesOut(k) PROVE TimesOut(k)'
    <3>1. 1 \in DOMAIN stack /\ stack[1] = Frame("timeout", k)
      BY <2>1, InvFacts DEF TimesOut
    <3>2. ~IsWalk(stack[1])
      BY <3>1, SinkFacts, FrameTypes
    <3>3. 1 \in DOMAIN stack' /\ stack'[1] = stack[1]
      BY <1>2, <1>4, <3>1, <3>2
    <3> QED BY <2>1, <3>3, TimesOutKept
  <2> QED BY <1>1, <2>1 DEF EventsInv, AwaitsSound
<1>8. NothingDangles'
  BY <1>1, <1>4 DEF EventsInv, NothingDangles, TypeOK, AnswersArePending
<1> QED BY <1>5, <1>6, <1>7, <1>8 DEF EventsInv

\* The sink of an await gets the event: it puts the answer off, and deletes itself.
LEMMA SendToAwaitKeeps ==
  ASSUME EventsInv, NEW k \in Sinks, SendToAwait(k)
  PROVE  EventsInv'
<1> DEFINE st == Visited(k)
           n == Len(stack)
<1>1. /\ k \in Awaits /\ Erase(k, Sources, st) /\ pending' = Append(pending, k)
      /\ await' = [await EXCEPT ![k] = IF await[k] = "waiting" THEN "answered" ELSE await[k]]
      /\ timer' = timer \ {k} /\ freed' = freed \cup {k} /\ UNCHANGED <<sends, changes, broken>>
  BY DEF SendToAwait
<1>2. /\ k \in sinks[Top.src] /\ Top.src \in Sources /\ stack # <<>> /\ IsWalk(Top)
      /\ st \in Seq(Frames) /\ WalksSound(st, sinks, modified, Handlers \cup {k})
      /\ DOMAIN st = DOMAIN stack
      /\ \A i \in DOMAIN stack : IsWalk(st[i]) <=> IsWalk(stack[i])
      /\ \A i \in DOMAIN stack : IsWalk(stack[i]) => stack[i].src = st[i].src
      /\ \A i \in DOMAIN stack : ~IsWalk(stack[i]) => stack[i] = st[i]
      /\ \A i \in DOMAIN stack : i # n => stack[i] = st[i] /\ i < n
  BY VisitSound DEF SendToAwait
<1> HIDE DEF st
<1>3. k \notin Handlers /\ n \in DOMAIN stack /\ Top = stack[n] /\ n \in Nat
  BY <1>1, <1>2, SinkFacts, InvFacts
<1>4. \A i \in DOMAIN stack : stack[i].fn = "timeout" => stack[i].sink \in Awaits /\ stack[i].sink # k
                                                        /\ stack[i].sink \notin freed
  BY <1>2, <1>3 DEF EventsInv, TimeoutSound
<1>5. await[k] = "waiting" /\ k \notin freed
  <2>1. ~TimesOut(k)
    <3>1. ASSUME TimesOut(k) PROVE FALSE
      <4>1. 1 \in DOMAIN stack /\ stack[1] = Frame("timeout", k)
        BY <3>1, InvFacts DEF TimesOut
      <4>2. stack[1].fn = "timeout" /\ stack[1].sink = k
        BY <4>1, FrameTypes
      <4> QED BY <1>4, <4>1, <4>2
    <3> QED BY <3>1
  <2> QED BY <1>1, <1>2, <2>1 DEF EventsInv, AwaitsSound
<1>6. /\ await' \in [Awaits -> AwaitStates] /\ await'[k] = "answered"
      /\ \A m \in Awaits : m # k => await'[m] = await[m]
  BY <1>1, <1>5, InvFacts DEF AwaitStates
<1>7. /\ \A q \in Sources : sinks'[q] = sinks[q] \ {k}
      /\ \A q \in Sources : sinks'[q] \cap freed' = {}
      /\ timer' \in SUBSET Awaits /\ freed' \in SUBSET Awaits /\ timer' \cap freed' = {}
  BY <1>1, InvFacts DEF Erase
<1>8. \A i, j \in DOMAIN st :
        IsWalk(st[i]) /\ IsWalk(st[j]) /\ st[i].src = st[j].src /\ st[i].src \in Sources /\ st[i].pos = k
          => j <= i
  <2>1. ASSUME NEW i \in DOMAIN st, IsWalk(st[i]), st[i].pos = k PROVE i = n
    <3>1. CASE i # n
      <4>1. IsWalk(stack[i]) /\ stack[i].pos = k /\ i \in DOMAIN stack
        BY <1>2, <2>1, <3>1
      <4>2. k # Begin /\ k # Erased
        BY SinkFacts
      <4> QED BY <1>3, <4>1, <4>2 DEF EventsInv, WalksSound
    <3> QED BY <3>1
  <2>2. \A j \in DOMAIN st : j <= n
    BY <1>2, InvFacts
  <2> QED BY <2>1, <2>2
<1>9. ASSUME NEW m \in Awaits, TimesOut(m) PROVE TimesOut(m)'
  <2>1. 1 \in DOMAIN stack /\ stack[1] = Frame("timeout", m) /\ ~IsWalk(stack[1])
    BY <1>9, InvFacts, SinkFacts, FrameTypes DEF TimesOut
  <2>2. DOMAIN stack' = DOMAIN st /\ \A i \in DOMAIN st : ~IsWalk(st[i]) => stack'[i] = st[i]
    BY <1>1, <1>2, EraseEffect
  <2>3. 1 \in DOMAIN stack' /\ stack'[1] = stack[1]
    BY <1>2, <2>1, <2>2
  <2> QED BY <1>9, <2>3, TimesOutKept
<1>10. \A i \in DOMAIN pending : pending[i] \in Awaits /\ pending[i] # k /\ pending[i] \in freed
  <2>1. \A i \in DOMAIN pending : pending[i] \in Awaits
    BY InvFacts, ElementOfSeq
  <2> QED BY <1>5, <2>1 DEF EventsInv, AwaitsSound
<1>11. /\ pending' \in Seq(Awaits) /\ DOMAIN pending = 1..Len(pending) /\ Len(pending) \in Nat
       /\ DOMAIN pending' = 1..Len(pending) + 1 /\ pending'[Len(pending) + 1] = k
       /\ \A i \in DOMAIN pending : pending'[i] = pending[i]
  <2>1. pending \in Seq(Awaits)
    BY InvFacts
  <2>2. /\ pending' \in Seq(Awaits) /\ Len(pending') = Len(pending) + 1
        /\ \A i \in 1..Len(pending) : pending'[i] = pending[i] /\ pending'[Len(pending) + 1] = k
        /\ pending'[Len(pending) + 1] = k
    BY <1>1, <2>1, AppendProperties
  <2> QED BY <2>1, <2>2, LenProperties
<1>12. \A i \in DOMAIN pending' :
         \/ i = Len(pending) + 1 /\ pending'[i] = k
         \/ i \in DOMAIN pending /\ pending'[i] = pending[i]
  BY <1>11
<1>13. AwaitsSound'
  <2>1. \A m \in Awaits :
          /\ await'[m] \in {"none", "waiting"} => m \notin freed'
          /\ m \in timer' => await'[m] = "waiting"
    BY <1>1, <1>6 DEF EventsInv, AwaitsSound
  <2>2. \A m \in Awaits, q \in Sources : m \in sinks'[q] => await'[m] = "waiting" \/ TimesOut(m)'
    BY <1>6, <1>7, <1>9 DEF EventsInv, AwaitsSound
  <2>3. \A i \in DOMAIN pending' : pending'[i] \in freed'
    BY <1>1, <1>10, <1>12
  <2>4. ASSUME NEW i \in DOMAIN pending', NEW j \in DOMAIN pending', pending'[i] = pending'[j]
        PROVE  i = j
    <3>1. \A x, y \in DOMAIN pending : pending[x] = pending[y] => x = y
      BY DEF EventsInv, AwaitsSound
    <3> QED BY <1>10, <1>12, <2>4, <3>1
  <2> QED BY <2>1, <2>2, <2>3, <2>4 DEF AwaitsSound
<1>14. AnswersArePending'
  <2>1. ASSUME NEW i \in DOMAIN pending' PROVE await'[pending'[i]] \in {"answered", "aborted"}
    <3>1. CASE i \in DOMAIN pending /\ pending'[i] = pending[i]
      BY <1>6, <1>10, <3>1 DEF EventsInv, NothingDangles, AnswersArePending
    <3> QED BY <1>6, <1>12, <3>1
  <2> QED BY <2>1 DEF AnswersArePending
<1> QED
  <2>1. /\ changes' \in 0..MaxChanges /\ ~broken' /\ broken' \in BOOLEAN /\ sends' = sends
    BY <1>1, InvFacts DEF EventsInv, NothingDangles, TypeOK
  <2>2. \A i \in DOMAIN st : IsWalk(st[i]) =>
          i \in DOMAIN stack /\ IsWalk(stack[i]) /\ stack[i].src = st[i].src
    BY <1>2
  <2>3. \A i \in DOMAIN st : st[i].fn = "timeout" =>
          /\ i \in DOMAIN stack /\ stack[i] = st[i]
          /\ await'[st[i].sink] = await[st[i].sink] /\ st[i].sink \notin freed'
    <3>1. ASSUME NEW i \in DOMAIN st, st[i].fn = "timeout" PROVE i \in DOMAIN stack /\ stack[i] = st[i]
      BY <1>2, <3>1 DEF IsWalk
    <3> QED BY <1>1, <1>4, <1>6, <3>1
  <2>4. Sources \in SUBSET Sources /\ (Handlers \cup {k}) \in SUBSET Sinks
    BY SinkFacts
  <2> QED
    <3> DEFINE visits == Handlers \cup {k}
    <3>1. visits \in SUBSET Sinks /\ visits \subseteq Handlers \cup {k}
      BY <2>4
    <3>2. WalksSound(st, sinks, modified, visits)
      BY <1>2
    <3> HIDE DEF visits
    <3> QED BY <1>1, <1>2, <1>6, <1>7, <1>8, <1>11, <1>13, <1>14, <2>1, <2>2, <2>3,
      <2>4, <3>1, <3>2, ErasedKeeps

LEMMA NextKeepsEvents ==
  ASSUME EventsInv, CarefulScripts, [Next]_vars
  PROVE  EventsInv'
<1>1. ASSUME UNCHANGED vars PROVE EventsInv'
  BY <1>1 DEF vars, EventsInv, NothingDangles, TypeOK, AnswersArePending, WalksSound, TimeoutSound,
    AwaitsSound, TimesOut
<1>2. ASSUME CodeReturns \/ SendReturns PROVE EventsInv'
  BY <1>2, ReturnsKeeps
<1>3. ASSUME NEW s \in Sources, SendEvent(s) PROVE EventsInv'
  BY <1>3, SendEventKeeps
<1>4. ASSUME NEW s \in Sources, NEW h \in Handlers, Register(h, s) PROVE EventsInv'
  BY <1>4, RegisterKeeps
<1>5. ASSUME NEW s \in Sources, NEW h \in Handlers, Unregister(h, s) PROVE EventsInv'
  BY <1>5, UnregisterKeeps
<1>6. ASSUME NEW k \in Awaits, Abort(k) PROVE EventsInv'
  BY <1>6, AbortKeeps
<1>7. ASSUME NEW k \in Awaits, NEW S \in SUBSET Sources, NEW timed \in BOOLEAN, Await(k, S, timed)
      PROVE  EventsInv'
  BY <1>7, AwaitKeeps
<1>8. ASSUME SendContinues PROVE EventsInv'
  BY <1>8, SendContinuesKeeps
<1>9. ASSUME NEW k \in Sinks, SendToHandler(k) PROVE EventsInv'
  BY <1>9, SendToHandlerKeeps
<1>10. ASSUME NEW k \in Sinks, SendToAwait(k) PROVE EventsInv'
  BY <1>10, SendToAwaitKeeps
<1>11. ASSUME TimeoutReturns PROVE EventsInv'
  BY <1>11, TimeoutReturnsKeeps
<1>12. ASSUME FinishWait PROVE EventsInv'
  BY <1>12, FinishWaitKeeps
<1>13. ASSUME NEW k \in Awaits, Timeout(k) PROVE EventsInv'
  BY <1>13, TimeoutKeeps
<1> QED BY <1>1, <1>2, <1>3, <1>4, <1>5, <1>6, <1>7, <1>8, <1>9, <1>10, <1>11, <1>12, <1>13
      DEF Next, CodeStep, SendStep

\* What is still to be visited is ahead of the walk: at its end there is nothing.
LEMMA NothingLeftBehind ==
  ASSUME EventsInv
  PROVE  EventReachesAll
<1> SUFFICES ASSUME Walking, Ahead = {} PROVE Top.todo = {}
  BY DEF EventReachesAll
<1>1. IsWalk(Top) /\ Top = stack[Len(stack)] /\ Len(stack) \in DOMAIN stack
  BY InvFacts DEF Walking, Running, IsWalk
<1>2. Top.todo \subseteq sinks[Top.src] /\ \A k \in Top.todo : k > Top.pos
  BY <1>1 DEF EventsInv, WalksSound, Walking
<1> QED BY <1>2 DEF Ahead

LEMMA EventsStayInvariant ==
  ASSUME CarefulScripts
  PROVE  Spec => []EventsInv
<1>1. Init => EventsInv
  BY InitEvents
<1>2. EventsInv /\ [Next]_vars => EventsInv'
  BY NextKeepsEvents
<1> QED BY <1>1, <1>2, PTL DEF Spec

\* Walks of sendEvent() never use an element of the map that has been erased (mSinksModified), the
\* sink of an await() is deleted once only, and no answer is kept for a thread that has gone on.
THEOREM NothingEverDangles == CarefulScripts => (Spec => []NothingDangles)
<1>1. EventsInv => NothingDangles
  BY DEF EventsInv
<1> SUFFICES ASSUME CarefulScripts PROVE Spec => []NothingDangles
  OBVIOUS
<1> QED BY <1>1, EventsStayInvariant, PTL

\* However often handlers change the map and the walk starts again, sendEvent() returns only after
\* every sink that was registered when it was called, and still is, has got the event.
THEOREM EventsReachAll == CarefulScripts => (Spec => []EventReachesAll)
<1>1. EventsInv => EventReachesAll
  BY NothingLeftBehind
<1> SUFFICES ASSUME CarefulScripts PROVE Spec => []EventReachesAll
  OBVIOUS
<1> QED BY <1>1, EventsStayInvariant, PTL

-----------------------------------------------------------------------------
\* An object that does nothing is no part of a chain.
IdleInv ==
  \A y \in Objects : ~Active(y) => origin[y] = y /\ caller[y] = NoThread

\* A chain is made of active objects, from its origin on.
InChain(y) ==
  /\ Active(y) => Active(origin[y]) /\ origin[origin[y]] = origin[y]
  /\ origin[y] = y => depth[y] = 0
  /\ caller[y] = NoThread => origin[y] = y
  /\ caller[y] # NoThread =>
       /\ state[caller[y]] = "calls" /\ origin[y] = origin[caller[y]]
       /\ depth[y] = depth[caller[y]] + 1

ChainInv == \A y \in Objects : InChain(y)

\* The objects of a chain have different numbers of callers; the one that is not in a call has the most.
DepthInv ==
  \A y, z \in Objects :
    Active(y) /\ Active(z) /\ origin[y] = origin[z] /\ y # z =>
      /\ depth[y] # depth[z]
      /\ state[y] # "calls" => depth[z] < depth[y]

\* The lock counts what its owner has entered; an owner that has ended has nothing left to be right
\* about, but still there is no other.
LockInv ==
  IF owner = NoThread THEN count = 0 /\ \A y \in Objects : holds[y] = 0
  ELSE /\ count > 0 /\ state[owner] # "none"
       /\ Active(owner) => \A y \in Objects : holds[y] = IF y = origin[owner] THEN count ELSE 0
       /\ MutualExclusion

\* Those who wait are in the list once, unless they have been aborted, and the lock is not free.
ListInv ==
  /\ waiters # <<>> => owner # NoThread
  /\ \A i, j \in DOMAIN waiters : i # j => waiters[i] # waiters[j]
  /\ \A i \in DOMAIN waiters : state[waiters[i]] \in {"waits", "ended"}

\* When threads leave the lock before they end, owner and waiters do not end.
CarefulInv ==
  Scripts = {} =>
    /\ owner # NoThread => Active(owner)
    /\ \A i \in DOMAIN waiters : state[waiters[i]] = "waits"

LocksInv == LocksTypeOK /\ IdleInv /\ ChainInv /\ DepthInv /\ LockInv /\ ListInv /\ CarefulInv

-----------------------------------------------------------------------------
LEMMA WaitersAreObjects ==
  ASSUME LocksTypeOK
  PROVE  DOMAIN waiters = 1..Len(waiters) /\ \A i \in DOMAIN waiters : waiters[i] \in Objects
BY DEF LocksTypeOK

\* What a chain is does not change when its objects only go from running to waiting or back.
LEMMA ChainsStay ==
  ASSUME LocksInv, UNCHANGED <<caller, origin, depth>>,
         \A y \in Objects : /\ Active(y)' <=> Active(y)
                            /\ state'[y] = "calls" <=> state[y] = "calls"
  PROVE  IdleInv' /\ ChainInv' /\ DepthInv'
<1> USE DEF LocksInv
<1>0. \A y \in Objects : origin[y] \in Objects /\ (caller[y] # NoThread => caller[y] \in Objects)
  BY DEF LocksTypeOK
<1>1. IdleInv'
  BY DEF IdleInv
<1>2. ChainInv'
  BY <1>0 DEF ChainInv, InChain
<1>3. DepthInv'
  BY DEF DepthInv
<1> QED BY <1>1, <1>2, <1>3

\* A thread that is in the lock finds an owner that is active, and the counts agree.
LEMMA OwnerIsActive ==
  ASSUME LocksInv, NEW x \in Objects, Active(x), SameChain(x)
  PROVE  /\ owner \in Objects /\ Active(owner)
         /\ count \in Nat \ {0} /\ holds[origin[x]] = count
         /\ \A y \in Objects : y # origin[x] => holds[y] = 0
<1> USE DEF LocksInv
<1>1. owner \in Objects /\ origin[x] = origin[owner] /\ owner # NoThread
  BY DEF SameChain, LocksTypeOK
<1>2. Active(owner)
  BY <1>1 DEF IdleInv, ChainInv, InChain
<1>3. origin[x] \in Objects
  BY DEF LocksTypeOK
<1> QED BY <1>1, <1>2, <1>3 DEF LockInv, LocksTypeOK

\* An origin that runs is alone.
LEMMA OriginIsAlone ==
  ASSUME LocksInv, NEW x \in Objects, Active(x), state[x] # "calls", origin[x] = x
  PROVE  \A y \in Objects : Active(y) /\ origin[y] = x => y = x
<1> SUFFICES ASSUME NEW y \in Objects, Active(y), origin[y] = x, y # x
             PROVE  FALSE
  OBVIOUS
<1>1. depth[y] < depth[x]
  BY DEF LocksInv, DepthInv
<1>2. depth[x] = 0 /\ depth[y] \in Nat
  BY DEF LocksInv, ChainInv, InChain, LocksTypeOK
<1> QED BY <1>1, <1>2

-----------------------------------------------------------------------------
LEMMA InitLocks == LocksInit => LocksInv
<1> SUFFICES ASSUME LocksInit PROVE LocksInv
  OBVIOUS
<1> USE DEF LocksInit
<1>1. LocksTypeOK
  BY DEF LocksTypeOK, States
<1>2. IdleInv /\ ChainInv /\ DepthInv
  BY DEF IdleInv, ChainInv, InChain, DepthInv, Active
<1>3. LockInv /\ ListInv /\ CarefulInv
  BY DEF LockInv, ListInv, CarefulInv
<1> QED BY <1>1, <1>2, <1>3 DEF LocksInv

\* A thread starts.
LEMMA StartKeeps ==
  ASSUME LocksInv, NEW x \in Objects, Start(x)
  PROVE  LocksInv'
<1> USE DEF Start, LocksInv
<1>a. state[x] = "none" /\ state' = [state EXCEPT ![x] = "runs"] /\ state \in [Objects -> States]
  BY DEF LocksTypeOK
<1>b. state'[x] = "runs" /\ \A y \in Objects : y # x => state'[y] = state[y]
  BY <1>a
<1>c. ~Active(x) /\ Active(x)'
  BY <1>a, <1>b DEF Active
<1>0. /\ origin[x] = x /\ caller[x] = NoThread /\ depth[x] = 0
      /\ UNCHANGED <<caller, origin, depth, owner, count, waiters, holds>>
  BY <1>c DEF IdleInv, ChainInv, InChain, lockVars
<1> HIDE DEF Start
<1>1. LocksTypeOK'
  BY <1>0, <1>a DEF LocksTypeOK, States
<1>2. \A y \in Objects : y # x => state'[y] = state[y] /\ (Active(y)' <=> Active(y))
  BY <1>b DEF Active
<1>3. \A y \in Objects : Active(y) => origin[y] # x
  BY <1>c DEF ChainInv, InChain
<1>4. \A y \in Objects : caller[y] # x
  BY <1>a, LockConstants DEF ChainInv, InChain
<1>5. IdleInv'
  BY <1>0, <1>2, <1>c DEF IdleInv
<1>6. ChainInv'
  BY <1>0, <1>2, <1>4, <1>c DEF ChainInv, InChain, LocksTypeOK
<1>7. DepthInv'
  BY <1>0, <1>2, <1>3, <1>b, <1>c DEF DepthInv
<1>8. owner # x
  BY <1>a, LockConstants DEF LockInv
<1>9. LockInv'
  BY <1>0, <1>2, <1>8 DEF LockInv, MutualExclusion, LocksTypeOK
<1>10. ListInv' /\ CarefulInv'
  <2>1. \A i \in DOMAIN waiters : waiters[i] \in Objects /\ waiters[i] # x
    BY <1>a, WaitersAreObjects DEF ListInv
  <2> QED BY <1>0, <1>2, <1>8, <2>1 DEF ListInv, CarefulInv, LocksTypeOK
<1> QED BY <1>1, <1>5, <1>6, <1>7, <1>9, <1>10

\* A function is called: its object has one more caller than the one that calls.
LEMMA CallFunctionKeeps ==
  ASSUME LocksInv, NEW x \in Objects, NEW f \in Objects, CallFunction(x, f)
  PROVE  LocksInv'
<1> USE DEF LocksInv
<1>a. /\ state[x] = "runs" /\ state[f] = "none" /\ x # f
      /\ state' = [state EXCEPT ![x] = "calls", ![f] = "runs"]
      /\ caller' = [caller EXCEPT ![f] = x]
      /\ origin' = [origin EXCEPT ![f] = origin[x]]
      /\ depth' = [depth EXCEPT ![f] = depth[x] + 1]
      /\ UNCHANGED <<owner, count, waiters, holds>>
  BY DEF CallFunction, lockVars
<1>t. /\ state \in [Objects -> States] /\ depth \in [Objects -> Nat]
      /\ caller \in [Objects -> Objects \cup {NoThread}] /\ origin \in [Objects -> Objects]
  BY DEF LocksTypeOK
<1>b. /\ state'[x] = "calls" /\ state'[f] = "runs"
      /\ caller'[f] = x /\ origin'[f] = origin[x] /\ depth'[f] = depth[x] + 1
      /\ \A y \in Objects : y \notin {x, f} => state'[y] = state[y]
      /\ \A y \in Objects : y # f =>
           caller'[y] = caller[y] /\ origin'[y] = origin[y] /\ depth'[y] = depth[y]
  BY <1>a, <1>t
<1>c. /\ Active(x) /\ ~Active(f) /\ Active(f)'
      /\ \A y \in Objects : y # f => (Active(y)' <=> Active(y))
  BY <1>a, <1>b DEF Active
<1>d. /\ origin[f] = f /\ Active(origin[x]) /\ origin[x] # f /\ origin[origin[x]] = origin[x]
      /\ \A y \in Objects : y # f => origin[y] # f
  BY <1>c, <1>t DEF IdleInv, ChainInv, InChain
<1>e. \A y \in Objects : caller[y] # x /\ caller[y] # f
  <2>1. state[x] # "calls" /\ state[f] # "calls" /\ x # NoThread /\ f # NoThread
    BY <1>a, LockConstants
  <2>2. \A y \in Objects : caller[y] # NoThread => state[caller[y]] = "calls"
    BY DEF ChainInv, InChain
  <2> SUFFICES ASSUME NEW y \in Objects PROVE caller[y] # x /\ caller[y] # f
    OBVIOUS
  <2>3. ASSUME caller[y] = x PROVE FALSE
    BY <2>1, <2>2, <2>3
  <2>4. ASSUME caller[y] = f PROVE FALSE
    BY <2>1, <2>2, <2>4
  <2> QED BY <2>3, <2>4
<1>1. LocksTypeOK'
  <2>1. state' \in [Objects -> States] /\ caller' \in [Objects -> Objects \cup {NoThread}]
    BY <1>a, <1>t DEF States
  <2>2. origin' \in [Objects -> Objects]
    BY <1>a, <1>t
  <2>3. depth[x] + 1 \in Nat
    BY <1>t
  <2>4. depth' \in [Objects -> Nat]
    BY <1>a, <1>t, <2>3
  <2> QED BY <1>a, <2>1, <2>2, <2>4 DEF LocksTypeOK
<1>2. IdleInv'
  BY <1>b, <1>c DEF IdleInv
<1>3. ChainInv'
  <2> SUFFICES ASSUME NEW y \in Objects
               PROVE  InChain(y)'
    BY DEF ChainInv
  <2>1. CASE y = f
    BY <2>1, <1>a, <1>b, <1>c, <1>d, <1>t, LockConstants DEF InChain
  <2>2. CASE y # f
    <3>1. origin[y] # f /\ origin[y] \in Objects
      BY <2>2, <1>d, <1>t
    <3>2. caller[y] # NoThread => caller[y] \in Objects \ {x, f}
      BY <1>e, <1>t
    <3> QED BY <2>2, <3>1, <3>2, <1>b, <1>c DEF ChainInv, InChain
  <2> QED BY <2>1, <2>2
<1>4. DepthInv'
  <2> SUFFICES ASSUME NEW y \in Objects, NEW z \in Objects, Active(y)', Active(z)',
                      origin'[y] = origin'[z], y # z
               PROVE  depth'[y] # depth'[z] /\ (state'[y] # "calls" => depth'[z] < depth'[y])
    BY DEF DepthInv, Active
  <2>1. \A u \in Objects : Active(u) /\ u # x /\ origin[u] = origin[x] => depth[u] < depth[x]
    BY <1>a, <1>c DEF DepthInv
  <2>2. \A u \in Objects : Active(u) /\ u # f /\ origin[u] = origin[x] => depth[u] < depth[x] + 1
    BY <2>1, <1>t
  <2>3. CASE y = f
    BY <2>2, <2>3, <1>b, <1>c, <1>t
  <2>4. CASE z = f
    <3>1. depth[y] < depth[x] + 1
      BY <2>2, <2>4, <1>b, <1>c
    <3>2. y # x => FALSE \/ state'[y] = state[y]
      BY <2>4, <1>b
    <3>3. y # x => state[y] = "calls"
      BY <2>1, <2>4, <3>2, <1>a, <1>b, <1>c, <1>t DEF DepthInv
    <3> QED BY <3>1, <3>2, <3>3, <2>4, <1>b, <1>t
  <2>5. CASE y # f /\ z # f
    BY <2>5, <1>b, <1>c DEF DepthInv
  <2> QED BY <2>3, <2>4, <2>5
<1>5. owner # f
  BY <1>a, LockConstants DEF LockInv
<1>6. LockInv'
  BY <1>a, <1>b, <1>c, <1>5 DEF LockInv, MutualExclusion, LocksTypeOK
<1>7. ListInv' /\ CarefulInv'
  <2>1. \A i \in DOMAIN waiters : waiters[i] \in Objects \ {x, f}
    BY <1>a, WaitersAreObjects DEF ListInv
  <2> QED BY <1>a, <1>b, <1>c, <1>5, <2>1 DEF ListInv, CarefulInv, LocksTypeOK
<1> QED BY <1>1, <1>2, <1>3, <1>4, <1>6, <1>7

\* A function returns: its caller is now the one with the most callers.
LEMMA FunctionReturnsKeeps ==
  ASSUME LocksInv, NEW f \in Objects, FunctionReturns(f)
  PROVE  LocksInv'
<1> USE DEF LocksInv
<1> DEFINE x == caller[f]
<1>a. /\ state[f] = "runs" /\ x # NoThread
      /\ owner = f => "returnHolding" \in Scripts
      /\ state' = [state EXCEPT ![f] = "ended", ![x] = "runs"]
      /\ caller' = [caller EXCEPT ![f] = NoThread]
      /\ origin' = [origin EXCEPT ![f] = f]
      /\ depth' = [depth EXCEPT ![f] = 0]
      /\ UNCHANGED <<owner, count, waiters, holds>>
  BY DEF FunctionReturns, lockVars
<1>t. /\ state \in [Objects -> States] /\ depth \in [Objects -> Nat]
      /\ caller \in [Objects -> Objects \cup {NoThread}] /\ origin \in [Objects -> Objects]
  BY DEF LocksTypeOK
<1>f. x \in Objects /\ state[x] = "calls" /\ origin[f] = origin[x] /\ depth[f] = depth[x] + 1 /\ x # f
  BY <1>a, <1>t DEF ChainInv, InChain
<1> HIDE DEF x
<1>b. /\ state'[x] = "runs" /\ state'[f] = "ended"
      /\ caller'[f] = NoThread /\ origin'[f] = f /\ depth'[f] = 0
      /\ \A y \in Objects : y \notin {x, f} => state'[y] = state[y]
      /\ \A y \in Objects : y # f =>
           caller'[y] = caller[y] /\ origin'[y] = origin[y] /\ depth'[y] = depth[y]
  BY <1>a, <1>f, <1>t
<1>c. /\ Active(x) /\ Active(f) /\ ~Active(f)'
      /\ \A y \in Objects : y # f => (Active(y)' <=> Active(y))
  BY <1>a, <1>b, <1>f DEF Active
<1>d. /\ origin[f] # f
      /\ \A y \in Objects : Active(y) => origin[y] # f
  <2>1. origin[f] # f
    BY <1>f, <1>t DEF ChainInv, InChain
  <2> QED BY <2>1 DEF ChainInv, InChain
<1>e. \A y \in Objects : y # f => caller[y] # f /\ caller[y] # x
  <2> SUFFICES ASSUME NEW y \in Objects, y # f PROVE caller[y] # f /\ caller[y] # x
    OBVIOUS
  <2>1. caller[y] # f
    BY <1>a, LockConstants DEF ChainInv, InChain
  <2>2. ASSUME caller[y] = x PROVE FALSE
    <3>1. Active(y) /\ origin[y] = origin[f] /\ depth[y] = depth[f]
      BY <2>2, <1>a, <1>f DEF IdleInv, ChainInv, InChain
    <3> QED BY <3>1, <1>c DEF DepthInv
  <2> QED BY <2>1, <2>2
<1>1. LocksTypeOK'
  BY <1>a, <1>t DEF LocksTypeOK, States
<1>2. IdleInv'
  BY <1>b, <1>c DEF IdleInv
<1>3. ChainInv'
  <2> SUFFICES ASSUME NEW y \in Objects
               PROVE  InChain(y)'
    BY DEF ChainInv
  <2>1. CASE y = f
    BY <2>1, <1>b, <1>c DEF InChain
  <2>2. CASE y # f
    <3>1. origin[y] \in Objects /\ (Active(y) => origin[y] # f)
      BY <1>d, <1>t
    <3>2. caller[y] # NoThread => caller[y] \in Objects \ {x, f}
      BY <2>2, <1>e, <1>t
    <3> QED BY <2>2, <3>1, <3>2, <1>b, <1>c DEF ChainInv, InChain
  <2> QED BY <2>1, <2>2
<1>4. DepthInv'
  <2> SUFFICES ASSUME NEW y \in Objects, NEW z \in Objects, Active(y)', Active(z)',
                      origin'[y] = origin'[z], y # z
               PROVE  depth'[y] # depth'[z] /\ (state'[y] # "calls" => depth'[z] < depth'[y])
    BY DEF DepthInv, Active
  <2>1. y # f /\ z # f /\ Active(y) /\ Active(z) /\ origin[y] = origin[z]
    BY <1>b, <1>c
  <2>2. depth[y] # depth[z]
    BY <2>1 DEF DepthInv
  <2>3. CASE y = x
    <3>1. depth[z] < depth[f]
      BY <2>1, <2>3, <1>a, <1>c, <1>f DEF DepthInv
    <3> QED BY <3>1, <2>1, <2>2, <2>3, <1>b, <1>f, <1>t
  <2>4. CASE y # x
    BY <2>1, <2>2, <2>4, <1>b DEF DepthInv
  <2> QED BY <2>3, <2>4
<1>6. LockInv'
  BY <1>a, <1>b, <1>c DEF LockInv, MutualExclusion, LocksTypeOK
<1>7. ListInv' /\ CarefulInv'
  <2>1. \A i \in DOMAIN waiters : waiters[i] \in Objects \ {x, f}
    BY <1>a, <1>f, WaitersAreObjects DEF ListInv
  <2> QED BY <1>a, <1>b, <1>c, <2>1 DEF ListInv, CarefulInv, LocksTypeOK
<1> QED BY <1>1, <1>2, <1>3, <1>4, <1>6, <1>7

\* A thread ends: it was alone in its chain.
LEMMA ThreadEndsKeeps ==
  ASSUME LocksInv, NEW x \in Objects, ThreadEnds(x)
  PROVE  LocksInv'
<1> USE DEF LocksInv
<1>a. /\ state[x] = "runs" /\ caller[x] = NoThread
      /\ holds[x] > 0 => "endHolding" \in Scripts
      /\ state' = [state EXCEPT ![x] = "ended"]
      /\ UNCHANGED <<caller, origin, depth, owner, count, waiters, holds>>
  BY DEF ThreadEnds, lockVars
<1>t. state \in [Objects -> States]
  BY DEF LocksTypeOK
<1>b. state'[x] = "ended" /\ \A y \in Objects : y # x => state'[y] = state[y]
  BY <1>a, <1>t
<1>c. /\ Active(x) /\ ~Active(x)' /\ origin[x] = x
      /\ \A y \in Objects : y # x => (Active(y)' <=> Active(y))
  BY <1>a, <1>b DEF Active, ChainInv, InChain
<1>d. \A y \in Objects : Active(y) /\ origin[y] = x => y = x
  BY <1>a, <1>c, OriginIsAlone
<1>e. \A y \in Objects : caller[y] # x
  <2>1. \A y \in Objects : caller[y] # NoThread => state[caller[y]] = "calls"
    BY DEF ChainInv, InChain
  <2> QED BY <1>a, <2>1, LockConstants
<1>1. LocksTypeOK'
  BY <1>a, <1>t DEF LocksTypeOK, States
<1>2. IdleInv'
  BY <1>a, <1>c DEF IdleInv
<1>3. ChainInv'
  <2> SUFFICES ASSUME NEW y \in Objects PROVE InChain(y)'
    BY DEF ChainInv
  <2>1. caller[y] # NoThread => caller[y] \in Objects \ {x}
    BY <1>e DEF LocksTypeOK
  <2>2. origin[y] \in Objects
    BY DEF LocksTypeOK
  <2> QED BY <2>1, <2>2, <1>a, <1>b, <1>c, <1>d DEF ChainInv, InChain
<1>4. DepthInv'
  BY <1>a, <1>b, <1>c DEF DepthInv
<1>5. owner = x => "endHolding" \in Scripts
  <2> SUFFICES ASSUME owner = x PROVE holds[x] > 0
    BY <1>a
  <2>1. SameChain(x)
    BY LockConstants DEF SameChain
  <2> QED BY <2>1, <1>c, OwnerIsActive
<1>6. LockInv'
  BY <1>a, <1>b, <1>c DEF LockInv, MutualExclusion, LocksTypeOK
<1>7. ListInv' /\ CarefulInv'
  <2>1. \A i \in DOMAIN waiters : waiters[i] \in Objects \ {x}
    BY <1>a, WaitersAreObjects DEF ListInv
  <2> QED BY <1>a, <1>b, <1>c, <1>5, <2>1 DEF ListInv, CarefulInv, LocksTypeOK
<1> QED BY <1>1, <1>2, <1>3, <1>4, <1>6, <1>7

\* A whole chain ends.
LEMMA AbortChainKeeps ==
  ASSUME LocksInv, NEW x \in Objects, AbortChain(x)
  PROVE  LocksInv'
<1> USE DEF LocksInv
<1> DEFINE C == Chain(x)
<1>a. /\ state[x] \in {"runs", "waits"}
      /\ holds[origin[x]] > 0 => "endHolding" \in Scripts
      /\ state[x] = "waits" => "abortWaiting" \in Scripts
      /\ state' = [y \in Objects |-> IF y \in C THEN "ended" ELSE state[y]]
      /\ caller' = [y \in Objects |-> IF y \in C THEN NoThread ELSE caller[y]]
      /\ origin' = [y \in Objects |-> IF y \in C THEN y ELSE origin[y]]
      /\ depth' = [y \in Objects |-> IF y \in C THEN 0 ELSE depth[y]]
      /\ UNCHANGED <<owner, count, waiters, holds>>
  BY DEF AbortChain, lockVars
<1>t. /\ state \in [Objects -> States] /\ depth \in [Objects -> Nat]
      /\ caller \in [Objects -> Objects \cup {NoThread}] /\ origin \in [Objects -> Objects]
  BY DEF LocksTypeOK
<1>m. \A y \in Objects : y \in C <=> origin[y] = origin[x] /\ Active(y)
  BY DEF Chain
<1>x. Active(x) /\ x \in C
  BY <1>a, <1>m DEF Active
<1> HIDE DEF C
<1>b. \A y \in Objects :
        /\ y \in C => /\ state'[y] = "ended" /\ caller'[y] = NoThread
                      /\ origin'[y] = y /\ depth'[y] = 0
        /\ y \notin C => /\ state'[y] = state[y] /\ caller'[y] = caller[y]
                         /\ origin'[y] = origin[y] /\ depth'[y] = depth[y]
  BY <1>a
<1>c. \A y \in Objects : Active(y)' <=> Active(y) /\ y \notin C
  BY <1>b DEF Active
<1>d. \A y \in Objects : Active(y) /\ y \notin C => origin[y] \notin C
  BY <1>m, <1>t DEF ChainInv, InChain
<1>e. \A y \in Objects : y \notin C /\ caller[y] # NoThread => caller[y] \notin C
  BY <1>m, <1>t DEF ChainInv, InChain, IdleInv
<1>1. LocksTypeOK'
  BY <1>a, <1>t DEF LocksTypeOK, States
<1>2. IdleInv'
  BY <1>b, <1>c DEF IdleInv
<1>3. ChainInv'
  <2> SUFFICES ASSUME NEW y \in Objects PROVE InChain(y)'
    BY DEF ChainInv
  <2>1. CASE y \in C
    BY <2>1, <1>b, <1>c DEF InChain
  <2>2. CASE y \notin C
    <3>1. caller[y] # NoThread => caller[y] \in Objects \ C
      BY <2>2, <1>e, <1>t
    <3>2. origin[y] \in Objects /\ (Active(y) => origin[y] \notin C)
      BY <2>2, <1>d, <1>t
    <3> QED BY <2>2, <3>1, <3>2, <1>b, <1>c DEF ChainInv, InChain
  <2> QED BY <2>1, <2>2
<1>4. DepthInv'
  BY <1>b, <1>c DEF DepthInv
<1>5. owner # NoThread /\ owner \in C => "endHolding" \in Scripts
  <2> SUFFICES ASSUME owner # NoThread, owner \in C PROVE holds[origin[x]] > 0
    BY <1>a
  <2>1. owner \in Objects
    BY DEF LocksTypeOK
  <2>2. SameChain(x)
    BY <2>1, <1>m DEF SameChain
  <2> QED BY <2>2, <1>x, OwnerIsActive
<1>6. LockInv'
  <2>1. owner # NoThread => owner \in Objects
    BY DEF LocksTypeOK
  <2> QED BY <2>1, <1>a, <1>b, <1>c DEF LockInv, MutualExclusion, LocksTypeOK
<1>7. ListInv' /\ CarefulInv'
  <2>1. \A i \in DOMAIN waiters : waiters[i] \in Objects
    BY WaitersAreObjects
  <2>2. ListInv'
    BY <2>1, <1>a, <1>b DEF ListInv
  <2>3. CarefulInv'
    <3> SUFFICES ASSUME Scripts = {}
                 PROVE  /\ owner # NoThread => Active(owner)'
                        /\ \A i \in DOMAIN waiters : state'[waiters[i]] = "waits"
      BY <1>a DEF CarefulInv, Active
    <3>1. state[x] = "runs"
      BY <1>a
    <3>2. ASSUME NEW i \in DOMAIN waiters PROVE waiters[i] \notin C
      <4> DEFINE w == waiters[i]
      <4>1. w \in Objects /\ state[w] = "waits"
        BY <2>1 DEF CarefulInv
      <4> HIDE DEF w
      <4>2. SUFFICES ASSUME w \in C PROVE FALSE
        BY DEF w
      <4>3. Active(w) /\ origin[w] = origin[x] /\ w # x
        BY <3>1, <4>1, <4>2, <1>m
      <4>4. depth[w] < depth[x] /\ depth[x] < depth[w]
        BY <3>1, <4>1, <4>3, <1>x DEF DepthInv
      <4> QED BY <4>1, <4>4, <1>t
    <3>3. \A i \in DOMAIN waiters : state'[waiters[i]] = "waits"
      BY <3>2, <2>1, <1>b DEF CarefulInv
    <3>4. owner # NoThread => Active(owner)'
      <4>1. owner # NoThread => owner \in Objects /\ Active(owner) /\ owner \notin C
        BY <1>5 DEF CarefulInv, LocksTypeOK
      <4>2. owner' = owner
        BY <1>a
      <4> QED BY <4>1, <4>2, <1>c DEF Active
    <3> QED BY <3>3, <3>4
  <2> QED BY <2>2, <2>3
<1> QED BY <1>1, <1>2, <1>3, <1>4, <1>6, <1>7

-----------------------------------------------------------------------------
\* What leaves the threads alone leaves the chains alone.
LEMMA LockStepKeepsChains ==
  ASSUME LocksInv, UNCHANGED threadVars
  PROVE  IdleInv' /\ ChainInv' /\ DepthInv'
<1>1. UNCHANGED <<state, caller, origin, depth>>
  BY DEF threadVars
<1>2. \A y \in Objects : /\ Active(y)' <=> Active(y)
                         /\ state'[y] = "calls" <=> state[y] = "calls"
  BY <1>1 DEF Active
<1> QED BY <1>1, <1>2, ChainsStay

\* A thread enters the lock that is free.
LEMMA EnterFreeKeeps ==
  ASSUME LocksInv, NEW x \in Objects, EnterFree(x)
  PROVE  LocksInv'
<1> USE DEF LocksInv
<1>a. /\ state[x] = "runs" /\ owner = NoThread /\ owner' = x /\ count' = 1
      /\ holds' = [holds EXCEPT ![origin[x]] = @ + 1]
      /\ UNCHANGED threadVars /\ waiters' = waiters
  BY DEF EnterFree, Entered
<1>s. UNCHANGED <<state, caller, origin, depth>>
  BY <1>a DEF threadVars
<1>t. holds \in [Objects -> Nat] /\ origin[x] \in Objects /\ x # NoThread
  BY LockConstants DEF LocksTypeOK
<1>1. LocksTypeOK'
  BY <1>a, <1>s, <1>t DEF LocksTypeOK
<1>2. IdleInv' /\ ChainInv' /\ DepthInv'
  BY <1>a, LockStepKeepsChains
<1>3. \A y \in Objects : holds'[y] = IF y = origin[x] THEN 1 ELSE 0
  BY <1>a, <1>t DEF LockInv
<1>4. LockInv'
  BY <1>a, <1>s, <1>t, <1>3 DEF LockInv, MutualExclusion
<1>5. ListInv' /\ CarefulInv'
  BY <1>a, <1>s, <1>t DEF ListInv, CarefulInv, Active
<1> QED BY <1>1, <1>2, <1>4, <1>5

\* Its owner enters it once more.
LEMMA EnterAgainKeeps ==
  ASSUME LocksInv, NEW x \in Objects, EnterAgain(x)
  PROVE  LocksInv'
<1> USE DEF LocksInv
<1>a. /\ state[x] = "runs" /\ SameChain(x) /\ count' = count + 1
      /\ holds' = [holds EXCEPT ![origin[x]] = @ + 1]
      /\ UNCHANGED threadVars /\ owner' = owner /\ waiters' = waiters
  BY DEF EnterAgain, Entered
<1>s. UNCHANGED <<state, caller, origin, depth>>
  BY <1>a DEF threadVars
<1>t. holds \in [Objects -> Nat] /\ origin[x] \in Objects /\ count \in Nat
  BY DEF LocksTypeOK
<1>o. /\ owner \in Objects /\ Active(owner) /\ count \in Nat \ {0} /\ holds[origin[x]] = count
      /\ \A y \in Objects : y # origin[x] => holds[y] = 0
  BY <1>a, OwnerIsActive DEF Active
<1>1. LocksTypeOK'
  BY <1>a, <1>s, <1>t DEF LocksTypeOK
<1>2. IdleInv' /\ ChainInv' /\ DepthInv'
  BY <1>a, LockStepKeepsChains
<1>3. \A y \in Objects : holds'[y] = IF y = origin[x] THEN count + 1 ELSE 0
  BY <1>a, <1>t, <1>o
<1>4. LockInv'
  BY <1>a, <1>s, <1>t, <1>o, <1>3 DEF LockInv, MutualExclusion, SameChain
<1>5. ListInv' /\ CarefulInv'
  BY <1>a, <1>s DEF ListInv, CarefulInv, Active
<1> QED BY <1>1, <1>2, <1>4, <1>5

\* A thread waits: it is not in the list yet, because those in the list do not run.
LEMMA EnterWaitsKeeps ==
  ASSUME LocksInv, NEW x \in Objects, EnterWaits(x)
  PROVE  LocksInv'
<1> USE DEF LocksInv
<1>a. /\ state[x] = "runs" /\ owner # NoThread
      /\ waiters' = Append(waiters, x) /\ state' = [state EXCEPT ![x] = "waits"]
      /\ UNCHANGED <<caller, origin, depth, owner, count, holds>>
  BY DEF EnterWaits
<1>t. state \in [Objects -> States] /\ waiters \in Seq(Objects) /\ owner \in Objects
  BY <1>a DEF LocksTypeOK
<1>b. state'[x] = "waits" /\ \A y \in Objects : y # x => state'[y] = state[y]
  BY <1>a, <1>t
<1>c. \A y \in Objects : /\ Active(y)' <=> Active(y)
                         /\ state'[y] = "calls" <=> state[y] = "calls"
  BY <1>a, <1>b DEF Active
<1>l. /\ waiters' \in Seq(Objects) /\ Len(waiters') = Len(waiters) + 1
      /\ \A i \in 1..Len(waiters) : waiters'[i] = waiters[i]
      /\ waiters'[Len(waiters) + 1] = x /\ Len(waiters) \in Nat
      /\ DOMAIN waiters' = 1..(Len(waiters) + 1) /\ DOMAIN waiters = 1..Len(waiters)
  BY <1>a, <1>t, AppendProperties
<1>w. \A i \in 1..Len(waiters) : waiters[i] \in Objects /\ waiters[i] # x
  BY <1>a, <1>l, WaitersAreObjects DEF ListInv
<1>1. LocksTypeOK'
  BY <1>a, <1>t, <1>l DEF LocksTypeOK, States
<1>2. IdleInv' /\ ChainInv' /\ DepthInv'
  BY <1>a, <1>c, ChainsStay
<1>3. LockInv'
  BY <1>a, <1>b, <1>c, <1>t DEF LockInv, MutualExclusion
<1>4. ASSUME NEW i \in DOMAIN waiters', NEW j \in DOMAIN waiters', i # j
      PROVE  waiters'[i] # waiters'[j]
  <2>1. CASE i \in 1..Len(waiters) /\ j \in 1..Len(waiters)
    BY <2>1, <1>4, <1>l DEF ListInv
  <2>2. CASE i = Len(waiters) + 1 /\ j \in 1..Len(waiters)
    BY <2>2, <1>l, <1>w
  <2>3. CASE j = Len(waiters) + 1 /\ i \in 1..Len(waiters)
    BY <2>3, <1>l, <1>w
  <2> QED BY <2>1, <2>2, <2>3, <1>4, <1>l
<1>5. ASSUME NEW i \in DOMAIN waiters'
      PROVE  /\ state'[waiters'[i]] \in {"waits", "ended"}
             /\ Scripts = {} => state'[waiters'[i]] = "waits"
  <2>1. CASE i \in 1..Len(waiters)
    BY <2>1, <1>l, <1>w, <1>b DEF ListInv, CarefulInv
  <2>2. CASE i = Len(waiters) + 1
    BY <2>2, <1>l, <1>b
  <2> QED BY <2>1, <2>2, <1>l
<1>6. ListInv'
  BY <1>a, <1>4, <1>5 DEF ListInv
<1>7. CarefulInv'
  BY <1>a, <1>t, <1>c, <1>5 DEF CarefulInv
<1> QED BY <1>1, <1>2, <1>3, <1>6, <1>7

\* A waiter gives up: the others stay in the list, in their order.
LEMMA EnterTimesOutKeeps ==
  ASSUME LocksInv, NEW x \in Objects, EnterTimesOut(x)
  PROVE  LocksInv'
<1> USE DEF LocksInv
<1>i. PICK p \in DOMAIN waiters : waiters[p] = x /\ waiters' = RemoveAt(waiters, p)
  BY DEF EnterTimesOut, RemoveAt
<1>a. /\ state' = [state EXCEPT ![x] = IF @ = "waits" THEN "runs" ELSE @]
      /\ UNCHANGED <<caller, origin, depth, owner, count, holds>>
  BY DEF EnterTimesOut
<1>t. state \in [Objects -> States] /\ waiters \in Seq(Objects)
  BY DEF LocksTypeOK
<1>b. /\ state'[x] = IF state[x] = "waits" THEN "runs" ELSE state[x]
      /\ \A y \in Objects : y # x => state'[y] = state[y]
  BY <1>a, <1>t
<1>c. \A y \in Objects : /\ Active(y)' <=> Active(y)
                         /\ state'[y] = "calls" <=> state[y] = "calls"
  BY <1>b DEF Active
<1>l. /\ waiters' \in Seq(Objects) /\ Len(waiters') = Len(waiters) - 1 /\ Len(waiters) \in Nat
      /\ \A i \in 1..(Len(waiters) - 1) : waiters'[i] = IF i < p THEN waiters[i] ELSE waiters[i + 1]
      /\ DOMAIN waiters' = 1..(Len(waiters) - 1) /\ DOMAIN waiters = 1..Len(waiters)
  <2>1. p \in 1..Len(waiters)
    BY <1>t
  <2> HIDE DEF LocksInv
  <2>2. /\ RemoveAt(waiters, p) \in Seq(Objects) /\ Len(RemoveAt(waiters, p)) = Len(waiters) - 1
        /\ \A i \in 1..(Len(waiters) - 1) :
             RemoveAt(waiters, p)[i] = IF i < p THEN waiters[i] ELSE waiters[i + 1]
    BY <1>t, <2>1, RemoveAtProperties
  <2> QED BY <1>i, <1>t, <2>2
<1>w. ASSUME NEW i \in DOMAIN waiters'
      PROVE  \E j \in DOMAIN waiters : j # p /\ waiters'[i] = waiters[j] /\ j = IF i < p THEN i ELSE i + 1
  <2>1. CASE i < p
    <3>1. i \in DOMAIN waiters
      BY <1>l
    <3> WITNESS i \in DOMAIN waiters
    <3> QED BY <2>1, <1>l
  <2>2. CASE ~(i < p)
    <3>1. i + 1 \in DOMAIN waiters
      BY <1>l
    <3> WITNESS i + 1 \in DOMAIN waiters
    <3> QED BY <2>2, <1>l
  <2> QED BY <2>1, <2>2
<1>1. LocksTypeOK'
  BY <1>a, <1>t, <1>l DEF LocksTypeOK, States
<1>2. IdleInv' /\ ChainInv' /\ DepthInv'
  BY <1>a, <1>c, ChainsStay
<1>3. state'[x] # "none" <=> state[x] # "none"
  BY <1>b
<1>4. LockInv'
  BY <1>a, <1>b, <1>c DEF LockInv, MutualExclusion, LocksTypeOK
<1>5. \A i, j \in DOMAIN waiters' : i # j => waiters'[i] # waiters'[j]
  BY <1>l, <1>w, <1>i DEF ListInv
<1>6. \A i \in DOMAIN waiters' : waiters'[i] \in Objects /\ waiters'[i] # x
  BY <1>i, <1>w, WaitersAreObjects DEF ListInv
<1>7. waiters' # <<>> => owner' # NoThread
  BY <1>a, <1>l, <1>t DEF ListInv
<1>8. ASSUME NEW i \in DOMAIN waiters'
      PROVE  state'[waiters'[i]] = state[waiters'[i]] /\ \E j \in DOMAIN waiters : waiters'[i] = waiters[j]
  BY <1>6, <1>b, <1>w
<1>9. ListInv'
  BY <1>5, <1>7, <1>8 DEF ListInv
<1>10. CarefulInv'
  <2>1. owner' = owner /\ (owner # NoThread => owner \in Objects)
    BY <1>a DEF LocksTypeOK
  <2>2. Scripts = {} /\ owner # NoThread => Active(owner)'
    BY <2>1, <1>c DEF CarefulInv, Active
  <2>3. Scripts = {} => \A i \in DOMAIN waiters' : state'[waiters'[i]] = "waits"
    BY <1>8 DEF CarefulInv
  <2> QED BY <2>1, <2>2, <2>3 DEF CarefulInv
<1> QED BY <1>1, <1>2, <1>4, <1>9, <1>10

\* The owner leaves what it has entered more than once.
LEMMA LeaveNestedKeeps ==
  ASSUME LocksInv, NEW x \in Objects, LeaveNested(x)
  PROVE  LocksInv'
<1> USE DEF LocksInv
<1>a. /\ state[x] = "runs" /\ SameChain(x) /\ count > 1 /\ count' = count - 1
      /\ holds' = [holds EXCEPT ![origin[x]] = @ - 1]
      /\ UNCHANGED threadVars /\ owner' = owner /\ waiters' = waiters
  BY DEF LeaveNested, Leave, Left
<1>s. UNCHANGED <<state, caller, origin, depth>>
  BY <1>a DEF threadVars
<1>t. holds \in [Objects -> Nat] /\ origin[x] \in Objects /\ count \in Nat
  BY DEF LocksTypeOK
<1>o. /\ owner \in Objects /\ Active(owner) /\ count \in Nat \ {0} /\ holds[origin[x]] = count
      /\ \A y \in Objects : y # origin[x] => holds[y] = 0
  BY <1>a, OwnerIsActive DEF Active
<1>1. LocksTypeOK'
  BY <1>a, <1>s, <1>t, <1>o DEF LocksTypeOK
<1>2. IdleInv' /\ ChainInv' /\ DepthInv'
  BY <1>a, LockStepKeepsChains
<1>3. \A y \in Objects : holds'[y] = IF y = origin[x] THEN count - 1 ELSE 0
  BY <1>a, <1>t, <1>o
<1>4. LockInv'
  BY <1>a, <1>s, <1>t, <1>o, <1>3 DEF LockInv, MutualExclusion, SameChain
<1>5. ListInv' /\ CarefulInv'
  BY <1>a, <1>s DEF ListInv, CarefulInv, Active
<1> QED BY <1>1, <1>2, <1>4, <1>5

\* The owner leaves, and nobody waits.
LEMMA LeaveFreeKeeps ==
  ASSUME LocksInv, NEW x \in Objects, LeaveFree(x)
  PROVE  LocksInv'
<1> USE DEF LocksInv
<1>a. /\ state[x] = "runs" /\ SameChain(x) /\ count = 1 /\ waiters = <<>>
      /\ owner' = NoThread /\ count' = 0
      /\ holds' = [holds EXCEPT ![origin[x]] = @ - 1]
      /\ UNCHANGED threadVars /\ waiters' = waiters
  BY DEF LeaveFree, Leave, Left
<1>s. UNCHANGED <<state, caller, origin, depth>>
  BY <1>a DEF threadVars
<1>t. holds \in [Objects -> Nat] /\ origin[x] \in Objects
  BY DEF LocksTypeOK
<1>o. /\ owner \in Objects /\ Active(owner) /\ holds[origin[x]] = 1
      /\ \A y \in Objects : y # origin[x] => holds[y] = 0
  BY <1>a, OwnerIsActive DEF Active
<1>3. \A y \in Objects : holds'[y] = 0
  BY <1>a, <1>t, <1>o
<1>1. LocksTypeOK'
  BY <1>a, <1>s, <1>t, <1>o DEF LocksTypeOK
<1>2. IdleInv' /\ ChainInv' /\ DepthInv'
  BY <1>a, LockStepKeepsChains
<1>4. LockInv'
  BY <1>a, <1>3 DEF LockInv, MutualExclusion
<1>5. ListInv' /\ CarefulInv'
  BY <1>a, <1>s DEF ListInv, CarefulInv
<1> QED BY <1>1, <1>2, <1>4, <1>5

\* The owner passes the lock to the one that has waited longest; if that one
\* still waits, it is an origin of its own thread that now holds the lock once.
LEMMA LeavePassesKeeps ==
  ASSUME LocksInv, NEW x \in Objects, LeavePasses(x)
  PROVE  LocksInv'
<1> USE DEF LocksInv
<1> DEFINE w == Head(waiters)
<1>a. /\ state[x] = "runs" /\ SameChain(x) /\ count = 1 /\ waiters # <<>>
      /\ owner' = w /\ waiters' = Tail(waiters)
      /\ state' = [state EXCEPT ![w] = IF @ = "waits" THEN "runs" ELSE @]
      /\ holds' = IF state[w] = "waits" THEN [Left(x) EXCEPT ![origin[w]] = @ + 1] ELSE Left(x)
      /\ UNCHANGED <<caller, origin, depth, count>>
  BY DEF LeavePasses, Leave
<1>t. /\ state \in [Objects -> States] /\ waiters \in Seq(Objects)
      /\ holds \in [Objects -> Nat] /\ origin \in [Objects -> Objects]
  BY DEF LocksTypeOK
<1>l. /\ Tail(waiters) \in Seq(Objects) /\ Len(Tail(waiters)) = Len(waiters) - 1
      /\ \A i \in 1..(Len(waiters) - 1) : Tail(waiters)[i] = waiters[i + 1]
      /\ Len(waiters) \in Nat \ {0} /\ w = waiters[1] /\ w \in Objects
      /\ DOMAIN waiters = 1..Len(waiters) /\ DOMAIN Tail(waiters) = 1..(Len(waiters) - 1)
  BY <1>a, <1>t, HeadTailProperties
<1> HIDE DEF w
<1>b. /\ state'[w] = IF state[w] = "waits" THEN "runs" ELSE state[w]
      /\ \A y \in Objects : y # w => state'[y] = state[y]
  BY <1>a, <1>l, <1>t
<1>c. \A y \in Objects : /\ Active(y)' <=> Active(y)
                         /\ state'[y] = "calls" <=> state[y] = "calls"
  BY <1>b DEF Active
<1>o. /\ holds[origin[x]] = 1
      /\ \A y \in Objects : y # origin[x] => holds[y] = 0
  BY <1>a, OwnerIsActive DEF Active
<1>h. Left(x) \in [Objects -> Nat] /\ \A y \in Objects : Left(x)[y] = 0
  BY <1>o, <1>t DEF Left
<1>g. /\ state[w] = "waits" => \A y \in Objects : holds'[y] = IF y = origin[w] THEN 1 ELSE 0
      /\ state[w] # "waits" => \A y \in Objects : holds'[y] = 0
  BY <1>a, <1>h, <1>t, <1>l
<1>n. state[w] \in {"waits", "ended"}
  BY <1>l DEF ListInv
<1>1. LocksTypeOK'
  <2>1. holds' \in [Objects -> Nat]
    BY <1>a, <1>h, <1>t, <1>l
  <2>2. state' \in [Objects -> States]
    BY <1>a, <1>t DEF States
  <2> QED BY <2>1, <2>2, <1>a, <1>l DEF LocksTypeOK
<1>2. IdleInv' /\ ChainInv' /\ DepthInv'
  BY <1>a, <1>c, ChainsStay
<1>3. w # NoThread
  BY <1>l, LockConstants
<1>4. LockInv'
  <2>1. owner' = w /\ count' = 1 /\ origin' = origin /\ state'[w] # "none"
    BY <1>a, <1>b, <1>n
  <2>2. state'[owner'] \in {"runs", "calls", "waits"} => state[w] = "waits"
    BY <2>1, <1>b, <1>n
  <2>3. MutualExclusion'
    BY <1>g, <1>n DEF MutualExclusion
  <2>4. Active(owner)' => \A y \in Objects : holds'[y] = IF y = origin'[owner'] THEN count' ELSE 0
    BY <1>g, <2>1, <2>2 DEF Active
  <2> QED BY <2>1, <2>3, <2>4, <1>3 DEF LockInv
<1>5. \A i \in DOMAIN waiters' : waiters'[i] \in Objects /\ waiters'[i] = waiters[i + 1] /\ waiters'[i] # w
  <2> SUFFICES ASSUME NEW i \in 1..(Len(waiters) - 1)
               PROVE  /\ waiters'[i] \in Objects /\ waiters'[i] = waiters[i + 1] /\ waiters'[i] # w
    BY <1>a, <1>l
  <2>1. waiters'[i] = waiters[i + 1] /\ i + 1 \in 1..Len(waiters) /\ 1 \in 1..Len(waiters) /\ i + 1 # 1
    BY <1>a, <1>l
  <2>2. waiters[i + 1] # waiters[1]
    BY <2>1, <1>l DEF ListInv
  <2> QED BY <2>1, <2>2, <1>l, <1>t
<1>6. ListInv'
  <2>1. waiters' # <<>> => owner' # NoThread
    BY <1>a, <1>3
  <2>2. \A i, j \in DOMAIN waiters' : i # j => waiters'[i] # waiters'[j]
    BY <1>a, <1>l, <1>5 DEF ListInv
  <2>3. \A i \in DOMAIN waiters' : state'[waiters'[i]] \in {"waits", "ended"}
    BY <1>a, <1>l, <1>5, <1>b DEF ListInv
  <2> QED BY <2>1, <2>2, <2>3 DEF ListInv
<1>7. CarefulInv'
  <2> SUFFICES ASSUME Scripts = {}
               PROVE  /\ Active(owner)'
                      /\ \A i \in DOMAIN waiters' : state'[waiters'[i]] = "waits"
    BY DEF CarefulInv
  <2>1. state[w] = "waits"
    BY <1>l DEF CarefulInv
  <2>2. \A i \in DOMAIN waiters' : state'[waiters'[i]] = "waits"
    BY <1>a, <1>l, <1>5, <1>b DEF CarefulInv
  <2> QED BY <2>1, <2>2, <1>a, <1>b DEF Active
<1> QED BY <1>1, <1>2, <1>4, <1>6, <1>7

-----------------------------------------------------------------------------
\* Every step keeps the invariant.
LEMMA NextKeepsLocks ==
  ASSUME LocksInv, [LocksNext]_locksVars
  PROVE  LocksInv'
<1>1. CASE UNCHANGED locksVars
  BY <1>1 DEF LocksInv, LocksTypeOK, IdleInv, ChainInv, InChain, DepthInv, LockInv, ListInv, CarefulInv,
              MutualExclusion, Active, locksVars, threadVars, lockVars
<1>2. CASE LocksNext
  <2> PICK x \in Objects : Step(x)
    BY <1>2 DEF LocksNext
  <2>1. ASSUME NEW f \in Objects, CallFunction(x, f) PROVE LocksInv'
    BY <2>1, CallFunctionKeeps
  <2>2. Start(x) \/ FunctionReturns(x) \/ ThreadEnds(x) \/ AbortChain(x) => LocksInv'
    BY StartKeeps, FunctionReturnsKeeps, ThreadEndsKeeps, AbortChainKeeps
  <2>3. EnterFree(x) \/ EnterAgain(x) \/ EnterWaits(x) \/ EnterTimesOut(x)
          => LocksInv'
    BY EnterFreeKeeps, EnterAgainKeeps, EnterWaitsKeeps, EnterTimesOutKeeps
  <2>4. Leaves(x) => LocksInv'
    BY LeaveNestedKeeps, LeaveFreeKeeps, LeavePassesKeeps DEF Leaves
  <2> QED BY <2>1, <2>2, <2>3, <2>4 DEF Step
<1> QED BY <1>1, <1>2

\* Whatever scripts do, the invariant holds (LockObj::enter(), leave()).
LEMMA LocksStayInvariant == LocksSpec => []LocksInv
<1>1. LocksInv /\ [LocksNext]_locksVars => LocksInv'
  BY NextKeepsLocks
<1> QED BY <1>1, InitLocks, PTL DEF LocksSpec

\* The lock's state is well formed, whatever scripts do with the lock.
THEOREM LockTypeCorrect == LocksSpec => []LocksTypeOK
<1>1. LocksInv => LocksTypeOK
  BY DEF LocksInv
<1> QED BY LocksStayInvariant, <1>1, PTL

\* Two threads are never both told that they have entered the lock, even when
\* functions return, threads end or are aborted while they hold it or wait for it.
THEOREM LockExcludes == LocksSpec => []MutualExclusion
<1>1. LocksInv => MutualExclusion
  BY DEF LocksInv, LockInv, MutualExclusion, LocksTypeOK
<1> QED BY LocksStayInvariant, <1>1, PTL

\* As long as those who enter also leave before they end or return, whoever has
\* entered is the owner that enter() and leave() compare with, as often as it counts.
THEOREM HolderOwnsLock == Scripts = {} => (LocksSpec => []HolderIsOwner)
<1> SUFFICES ASSUME Scripts = {} PROVE LocksSpec => []HolderIsOwner
  OBVIOUS
<1>1. LocksInv => HolderIsOwner
  <2> SUFFICES ASSUME LocksInv, NEW x \in Objects, holds[x] > 0
               PROVE  owner # NoThread /\ origin[owner] = x /\ count = holds[x]
    BY DEF HolderIsOwner
  <2>1. owner # NoThread
    BY DEF LocksInv, LockInv
  <2>2. holds[x] = IF x = origin[owner] THEN count ELSE 0
    BY <2>1 DEF LocksInv, LockInv, CarefulInv
  <2> QED BY <2>1, <2>2
<1> QED BY LocksStayInvariant, <1>1, PTL

\* As long as those who enter also leave, a lock somebody waits for is held by a
\* thread that can still leave it (leave(): "pass the lock to the longest waiting thread").
THEOREM WaitersCanGoOn == Scripts = {} => (LocksSpec => []WaitersHaveOwner)
<1> SUFFICES ASSUME Scripts = {} PROVE LocksSpec => []WaitersHaveOwner
  OBVIOUS
<1>1. LocksInv => WaitersHaveOwner
  BY DEF LocksInv, ListInv, CarefulInv, WaitersHaveOwner
<1> QED BY LocksStayInvariant, <1>1, PTL

\* As long as those who enter also leave, the lock belongs to whom it was given,
\* and can be passed on: what the runs check, for every number of objects and scripts.
THEOREM LockStaysOwned == Scripts = {} => (LocksSpec => []LockIsOwned)
<1> SUFFICES ASSUME Scripts = {} PROVE LocksSpec => []LockIsOwned
  OBVIOUS
<1>1. LocksTypeOK /\ HolderIsOwner /\ WaitersHaveOwner => LockIsOwned
  BY DEF LockIsOwned
<1> QED BY <1>1, LockTypeCorrect, HolderOwnsLock, WaitersCanGoOn, PTL
=============================================================================
