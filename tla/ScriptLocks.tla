----------------------------- MODULE ScriptLocks -----------------------------
(***************************************************************************)
(* The lock object of p44script (LockObj in src/p44script.cpp) and the     *)
(* threads that enter, wait for and leave it.                              *)
(*                                                                         *)
(* A script function is executed by a thread object of its own, chained    *)
(* from its caller's until it ends; objects of one chain are the same      *)
(* thread for the lock.  Passing the lock on runs the next thread within   *)
(* leave(), after the lock has been changed: its further use of the lock   *)
(* are actions of their own.                                               *)
(***************************************************************************)
EXTENDS Integers, Sequences, SequencesExt

CONSTANTS
  Objects,      \* thread objects
  NoThread,     \* no thread object
  MaxCount,     \* bound: how often a thread enters the lock it holds
  Scripts       \* what scripts do with the lock besides leaving it in the end: subset of
                \*   {"endHolding": a thread ends and holds the lock,
                \*    "returnHolding": a function returns and is the one who entered,
                \*    "abortWaiting": a thread that waits is aborted}

ASSUME LockConstants ==
  /\ NoThread \notin Objects
  /\ MaxCount \in Nat \ {0}
  /\ Scripts \subseteq {"endHolding", "returnHolding", "abortWaiting"}

VARIABLES
  state,        \* what a thread object does
  caller,       \* mChainedFromThread
  origin,       \* chainOriginThread()
  owner,        \* mCurrentThread
  count,        \* mLockCount
  waiters,      \* mWaiters
  depth,        \* history: callers of a thread object, up to the origin
  holds         \* history: how often a thread has entered and not left, as its
                \*   script knows from what enter() and leave() return

threadVars == <<state, caller, origin, depth>>
lockVars == <<owner, count, waiters>>
locksVars == <<threadVars, lockVars, holds>>

States == {"none", "runs", "calls", "waits", "ended"}

LocksTypeOK ==
  /\ state \in [Objects -> States]
  /\ caller \in [Objects -> Objects \cup {NoThread}]
  /\ origin \in [Objects -> Objects]
  /\ owner \in Objects \cup {NoThread}
  /\ count \in Nat
  /\ waiters \in Seq(Objects)
  /\ depth \in [Objects -> Nat]
  /\ holds \in [Objects -> Nat]

LocksInit ==
  /\ state = [x \in Objects |-> "none"]
  /\ caller = [x \in Objects |-> NoThread]
  /\ origin = [x \in Objects |-> x]
  /\ owner = NoThread /\ count = 0 /\ waiters = <<>>
  /\ depth = [x \in Objects |-> 0] /\ holds = [x \in Objects |-> 0]

-----------------------------------------------------------------------------
(* Threads *)

Start(x) ==
  /\ state[x] = "none"
  /\ state' = [state EXCEPT ![x] = "runs"]
  /\ UNCHANGED <<caller, origin, depth, lockVars, holds>>

CallFunction(x, f) ==
  /\ state[x] = "runs" /\ state[f] = "none" /\ x # f
  /\ state' = [state EXCEPT ![x] = "calls", ![f] = "runs"]
  /\ caller' = [caller EXCEPT ![f] = x]
  /\ origin' = [origin EXCEPT ![f] = origin[x]]
  /\ depth' = [depth EXCEPT ![f] = depth[x] + 1]
  /\ UNCHANGED <<lockVars, holds>>

\* complete() of a function's thread: it is not chained from its caller any more.
FunctionReturns(f) ==
  /\ state[f] = "runs" /\ caller[f] # NoThread
  /\ owner = f => "returnHolding" \in Scripts
  /\ state' = [state EXCEPT ![f] = "ended", ![caller[f]] = "runs"]
  /\ caller' = [caller EXCEPT ![f] = NoThread]
  /\ origin' = [origin EXCEPT ![f] = f]
  /\ depth' = [depth EXCEPT ![f] = 0]
  /\ UNCHANGED <<lockVars, holds>>

ThreadEnds(x) ==
  /\ state[x] = "runs" /\ caller[x] = NoThread
  /\ holds[x] > 0 => "endHolding" \in Scripts
  /\ state' = [state EXCEPT ![x] = "ended"]
  /\ UNCHANGED <<caller, origin, depth, lockVars, holds>>

Active(x) == state[x] \in {"runs", "calls", "waits"}
Chain(x) == {y \in Objects : origin[y] = origin[x] /\ Active(y)}

\* abort() of a thread ends all objects of its chain.  One that waits for the
\* lock is not taken off the waiters.
AbortChain(x) ==
  /\ state[x] \in {"runs", "waits"}
  /\ holds[origin[x]] > 0 => "endHolding" \in Scripts
  /\ state[x] = "waits" => "abortWaiting" \in Scripts
  /\ state' = [y \in Objects |-> IF y \in Chain(x) THEN "ended" ELSE state[y]]
  /\ caller' = [y \in Objects |-> IF y \in Chain(x) THEN NoThread ELSE caller[y]]
  /\ origin' = [y \in Objects |-> IF y \in Chain(x) THEN y ELSE origin[y]]
  /\ depth' = [y \in Objects |-> IF y \in Chain(x) THEN 0 ELSE depth[y]]
  /\ UNCHANGED <<lockVars, holds>>

-----------------------------------------------------------------------------
(* The lock *)

\* x is, for the lock, the thread that has entered it.
SameChain(x) == owner # NoThread /\ origin[x] = origin[owner]

Entered(x) == holds' = [holds EXCEPT ![origin[x]] = @ + 1]
Left(x) == [holds EXCEPT ![origin[x]] = @ - 1]

EnterFree(x) ==
  /\ state[x] = "runs" /\ owner = NoThread
  /\ owner' = x /\ count' = 1
  /\ Entered(x)
  /\ UNCHANGED <<threadVars, waiters>>

EnterAgain(x) ==
  /\ state[x] = "runs" /\ SameChain(x) /\ count < MaxCount
  /\ count' = count + 1
  /\ Entered(x)
  /\ UNCHANGED <<threadVars, owner, waiters>>

\* enter() without a timeout of 0 suspends the thread.
EnterWaits(x) ==
  /\ state[x] = "runs" /\ owner # NoThread /\ ~SameChain(x)
  /\ waiters' = Append(waiters, x)
  /\ state' = [state EXCEPT ![x] = "waits"]
  /\ UNCHANGED <<caller, origin, depth, owner, count, holds>>

\* locktimeout(): enter() returns false.
EnterTimesOut(x) ==
  /\ \E i \in DOMAIN waiters : waiters[i] = x /\ waiters' = RemoveAt(waiters, i)
  /\ state' = [state EXCEPT ![x] = IF @ = "waits" THEN "runs" ELSE @]
  /\ UNCHANGED <<caller, origin, depth, owner, count, holds>>

Leave(x) == state[x] = "runs" /\ SameChain(x)

LeaveNested(x) ==
  /\ Leave(x) /\ count > 1
  /\ count' = count - 1
  /\ holds' = Left(x)
  /\ UNCHANGED <<threadVars, owner, waiters>>

Mutant_LeaveFree_Waiters(x) ==
  /\ Leave(x) /\ count = 1
  /\ owner' = NoThread /\ count' = 0
  /\ holds' = Left(x)
  /\ UNCHANGED <<threadVars, waiters>>

LeaveFree(x) ==
  /\ Leave(x) /\ count = 1 /\ waiters = <<>>
  /\ owner' = NoThread /\ count' = 0
  /\ holds' = Left(x)
  /\ UNCHANGED <<threadVars, waiters>>

Mutant_LeavePasses_NoCall(x) ==
  /\ Leave(x) /\ count = 1 /\ waiters # <<>>
  /\ owner' = Head(waiters)
  /\ waiters' = Tail(waiters)
  /\ holds' = Left(x)
  /\ UNCHANGED <<threadVars, count>>

\* The lock is passed to the thread that has waited longest, which goes on; one
\* that has ended meanwhile gets it, too.
LeavePasses(x) ==
  /\ Leave(x) /\ count = 1 /\ waiters # <<>>
  /\ LET w == Head(waiters) IN
       /\ owner' = w
       /\ waiters' = Tail(waiters)
       /\ state' = [state EXCEPT ![w] = IF @ = "waits" THEN "runs" ELSE @]
       /\ holds' = IF state[w] = "waits" THEN [Left(x) EXCEPT ![origin[w]] = @ + 1] ELSE Left(x)
  /\ UNCHANGED <<caller, origin, depth, count>>

-----------------------------------------------------------------------------

Leaves(x) == LeaveNested(x) \/ LeaveFree(x) \/ LeavePasses(x)

Step(x) ==
  \/ Start(x) \/ FunctionReturns(x) \/ ThreadEnds(x) \/ AbortChain(x)
  \/ EnterFree(x) \/ EnterAgain(x) \/ EnterWaits(x) \/ EnterTimesOut(x)
  \/ Leaves(x)
  \/ \E f \in Objects : CallFunction(x, f)

LocksNext == \E x \in Objects : Step(x)

LocksSpec == LocksInit /\ [][LocksNext]_locksVars

\* Scripts leave the locks they hold, and their functions return.
LocksFairSpec ==
  /\ LocksSpec
  /\ \A x \in Objects : /\ SF_locksVars(LeaveFree(x) \/ LeavePasses(x))
                       /\ WF_locksVars(Leaves(x)) /\ SF_locksVars(FunctionReturns(x))

-----------------------------------------------------------------------------
(* Properties *)

\* Two threads never both are told that they have entered the lock.
MutualExclusion == \A x, y \in Objects : holds[x] > 0 /\ holds[y] > 0 => x = y

\* The thread that has entered is the one that the lock takes for its owner, so
\* that it can enter again and leave ("same thread chain, can lock").
HolderIsOwner ==
  \A x \in Objects : holds[x] > 0 => owner # NoThread /\ origin[owner] = x /\ count = holds[x]

\* A lock is never free while threads wait for it, and never held by a thread
\* that has ended while others wait (leave(): "pass the lock to the longest
\* waiting thread").
WaitersHaveOwner ==
  waiters # <<>> => owner # NoThread /\ Active(owner)

\* The lock belongs to the thread that has it, and can be passed on.
LockIsOwned == LocksTypeOK /\ HolderIsOwner /\ WaitersHaveOwner

\* enter() returns, as long as those who hold the lock leave it.
WaitersGoOn == \A x \in Objects : state[x] = "waits" ~> state[x] # "waits"
=============================================================================
