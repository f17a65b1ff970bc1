------------------------ MODULE OperationQueueProofs ------------------------
(***************************************************************************)
(* Proofs about OperationQueue: operations report their end once, nothing  *)
(* overtakes an operation in sequence, and the queue comes back to its     *)
(* timer, whatever operations there are and however they are attributed,   *)
(* delayed, chained and aborted, as long as callbacks do no more to the    *)
(* queue than to queue operations and to abort them.                       *)
(***************************************************************************)
EXTENDS OperationQueue, ListLemmas

\* What the theorems assume of the application: its callbacks queue operations
\* and abort single ones, but do not chain, abort all, process or terminate.
CarefulCallbacks == CallbackDoes \subseteq {"queue", "abort"}

Processing == {"visit", "check", "finalize", "end"}
AbortingAll == {"abortAll", "abortNext"}
Nested == {"abort", "abortRest", "callback"}

Distinct(list) == \A i, j \in DOMAIN list : list[i] = list[j] => i = j

InOrder(o) == "sequential" \in attr[o]

-----------------------------------------------------------------------------
(* The invariant *)

\* Operations are in one place: an element of the queue, or chained to one other.
PlaceInv ==
  /\ Distinct(queue)
  /\ \A i \in DOMAIN queue : queue[i] \in known
  /\ \A o \in Ops : chained[o] # NoOp =>
       /\ chained[o] \in known /\ ~Contains(queue, chained[o])
       /\ \A p \in Ops : chained[p] = chained[o] => p = o

\* The callback is either still to be called, or has been called or given up.
CallInv ==
  /\ aborted \subseteq known /\ callback \subseteq known
  /\ \A o \in callback : calls[o] = 0 /\ o \notin aborted
  /\ \A o \in Ops : calls[o] <= 1
  /\ \A o \in Ops \ known : calls[o] = 0 /\ chained[o] = NoOp
  /\ \A o \in known : "callback" \in attr[o] =>
       o \in callback \/ calls[o] = 1 \/ o \in silenced

Aborting(o) == stack # <<>> /\ Top.fn = "abort" /\ Top.op = o

\* Whose callback is still to be called is pending, or is just being aborted.
ReportInv == \A o \in callback : IsPending(o) \/ Aborting(o)

\* The queue is processed, or all of it aborted, by the outermost function only.
StackInv ==
  /\ \A i \in DOMAIN stack : i > 1 => stack[i].fn \in Nested
  /\ stack # <<>> => stack[1].fn # "callback"
  /\ \A i \in DOMAIN stack : stack[i].fn \in {"abort", "abortRest"} => stack[i].op \in known
  /\ \A i \in DOMAIN stack : stack[i].fn = "abortRest" => stack[i].op \in aborted

\* o is in the queue, behind operations that are not in sequence.
FreeUpTo(o) ==
  \E k \in DOMAIN queue : queue[k] = o /\ \A j \in 1..(k - 1) : ~InOrder(queue[j])

\* o is in the queue, behind operations whose callback is not to be called any more.
SilentUpTo(o) ==
  \E k \in DOMAIN queue : queue[k] = o /\ \A j \in 1..(k - 1) : queue[j] \notin callback

\* What the outermost function relies on: the iterator it has, and what is before it.
VisitInv(b) == b.fn = "visit" => Len(stack) = 1 /\ (b.op # NoOp => FreeUpTo(b.op))
CheckInv(b) == b.fn = "check" => FreeUpTo(b.op) /\ (b.op \in initiated \/ ~InOrder(b.op))
FinalizeInv(b) ==
  b.fn = "finalize" =>
    /\ b.op \in Ops
    /\ chained[b.op] # NoOp =>
         /\ Len(stack) = 1
         /\ b.next # NoOp => FreeUpTo(b.next)
         /\ b.next = NoOp => \A j \in DOMAIN queue : ~InOrder(queue[j])
AbortAllInv(b) ==
  b.fn = "abortAll" =>
    /\ Len(stack) = 1
    /\ b.op # NoOp => SilentUpTo(b.op)
    /\ b.op = NoOp => \A j \in DOMAIN queue : queue[j] \notin callback
AbortNextInv(b) ==
  b.fn = "abortNext" =>
    /\ SilentUpTo(b.op)
    /\ b.op \in callback => Len(stack) = 2 /\ Aborting(b.op)

BottomInv ==
  stack # <<>> =>
    LET b == stack[1]
    IN  VisitInv(b) /\ CheckInv(b) /\ FinalizeInv(b) /\ AbortAllInv(b) /\ AbortNextInv(b)

\* The queue is processed by one function at a time, and the recheck timer is in
\* the mainloop's list unless that function was called by it.
ProcessInv ==
  /\ processing <=> stack # <<>> /\ stack[1].fn \in Processing
  /\ terminated \/ recheck \/ (processing /\ stack[1].by = "timer")

IInv ==
  /\ TypeOK /\ ~broken
  /\ PlaceInv /\ CallInv /\ ReportInv /\ StackInv /\ BottomInv /\ ProcessInv

-----------------------------------------------------------------------------
(* The stack *)

LEMMA TopFacts ==
  ASSUME stack \in Seq(Frame), stack # <<>>
  PROVE  /\ Len(stack) \in Nat \ {0} /\ DOMAIN stack = 1..Len(stack)
         /\ Top = stack[Len(stack)] /\ Top \in Frame
BY FrontProperties DEF Top

LEMMA EntersFacts ==
  ASSUME stack \in Seq(Frame), NEW f \in Frame, Enters(f)
  PROVE  /\ stack' \in Seq(Frame) /\ Len(stack') = Len(stack) + 1 /\ stack' # <<>>
         /\ DOMAIN stack' = 1..(Len(stack) + 1) /\ Len(stack) \in Nat
         /\ stack'[Len(stack) + 1] = f /\ \A i \in 1..Len(stack) : stack'[i] = stack[i]
BY AppendProperties DEF Enters

LEMMA GoesFacts ==
  ASSUME stack \in Seq(Frame), stack # <<>>, NEW f \in Frame, Goes(f)
  PROVE  /\ stack' \in Seq(Frame) /\ Len(stack') = Len(stack) /\ stack' # <<>>
         /\ DOMAIN stack' = 1..Len(stack)
         /\ stack'[Len(stack)] = f /\ \A i \in 1..(Len(stack) - 1) : stack'[i] = stack[i]
<1>1. Len(stack) \in Nat \ {0}
  BY TopFacts
<1>2. /\ stack' \in Seq(Frame) /\ Len(stack') = Len(stack) /\ stack'[Len(stack)] = f
      /\ \A i \in 1..(Len(stack) - 1) : stack'[i] = stack[i]
  BY ReplaceLastProperties DEF Goes
<1>3. stack' # <<>>
  BY <1>1, <1>2, EmptySeq
<1> QED BY <1>1, <1>2, <1>3

LEMMA CallsFacts ==
  ASSUME stack \in Seq(Frame), stack # <<>>, NEW f \in Frame, NEW g \in Frame, Calls(f, g)
  PROVE  /\ stack' \in Seq(Frame) /\ Len(stack') = Len(stack) + 1 /\ stack' # <<>>
         /\ DOMAIN stack' = 1..(Len(stack) + 1)
         /\ stack'[Len(stack) + 1] = g /\ stack'[Len(stack)] = f
         /\ \A i \in 1..(Len(stack) - 1) : stack'[i] = stack[i]
<1> DEFINE s == Append(Front(stack), f)
<1>1. /\ s \in Seq(Frame) /\ Len(s) = Len(stack) /\ s[Len(stack)] = f
      /\ \A i \in 1..(Len(stack) - 1) : s[i] = stack[i] /\ Len(stack) \in Nat \ {0}
  BY FrontProperties, ReplaceLastProperties
<1> HIDE DEF s
<1>2. stack' = Append(s, g)
  BY DEF Calls, s
<1> QED BY <1>1, <1>2, AppendProperties

LEMMA ReturnsFacts ==
  ASSUME stack \in Seq(Frame), stack # <<>>, Returns
  PROVE  /\ stack' \in Seq(Frame) /\ Len(stack') = Len(stack) - 1
         /\ DOMAIN stack' = 1..(Len(stack) - 1)
         /\ stack' = <<>> <=> Len(stack) = 1
         /\ \A i \in 1..(Len(stack) - 1) : stack'[i] = stack[i]
<1>1. Len(stack) \in Nat \ {0} /\ stack' \in Seq(Frame) /\ Len(stack') = Len(stack) - 1
      /\ \A i \in 1..(Len(stack) - 1) : stack'[i] = stack[i]
  BY FrontProperties DEF Returns
<1>2. stack' = <<>> <=> Len(stack') = 0
  BY <1>1, EmptySeq
<1> QED BY <1>1, <1>2

\* The innermost function, when it is not a nested one, is the outermost one.
LEMMA OuterIsTop ==
  ASSUME TypeOK, StackInv, stack # <<>>, Top.fn \notin Nested
  PROVE  Len(stack) = 1 /\ Top = stack[1]
<1>1. Len(stack) \in Nat \ {0} /\ Len(stack) \in DOMAIN stack /\ Top = stack[Len(stack)]
  BY TopFacts DEF TypeOK
<1>2. ~(Len(stack) > 1)
  BY <1>1 DEF StackInv
<1>3. \A n \in Nat \ {0} : ~(n > 1) => n = 1
  OBVIOUS
<1> QED BY <1>1, <1>2, <1>3

-----------------------------------------------------------------------------
(* The list *)

\* The element behind the k-th one.
LEMMA NextAfterFacts ==
  ASSUME NEW list \in Seq(Ops), Distinct(list), NEW k \in DOMAIN list
  PROVE  NextAfter(list, list[k]) = IF k = Len(list) THEN NoOp ELSE list[k + 1]
BY DEF NextAfter, Distinct

\* Removing the k-th element.
LEMMA RemoveFacts ==
  ASSUME NEW list \in Seq(Ops), Distinct(list), NEW k \in DOMAIN list
  PROVE  LET rest == RemoveFirst(list, list[k])
         IN  /\ rest \in Seq(Ops) /\ DOMAIN rest = 1..(Len(list) - 1)
             /\ \A i \in DOMAIN rest : rest[i] = IF i < k THEN list[i] ELSE list[i + 1]
             /\ Distinct(rest)
             /\ \A o : Contains(rest, o) <=> Contains(list, o) /\ o # list[k]
<1> DEFINE I == {i \in 1..Len(list) : list[i] = list[k]}
           rest == RemoveAt(list, k)
<1>1. DOMAIN list = 1..Len(list) /\ I = {k}
  BY DEF Distinct
<1>2. Min(I) = k
  BY <1>1 DEF Min
<1>3. RemoveFirst(list, list[k]) = rest
  <2>1. SelectInSeq(list, LAMBDA e : e = list[k]) = k
    BY <1>1, <1>2 DEF SelectInSeq
  <2> QED BY <1>1, <2>1 DEF RemoveFirst
<1>4. /\ rest \in Seq(Ops) /\ Len(rest) = Len(list) - 1
      /\ \A i \in 1..(Len(list) - 1) : rest[i] = IF i < k THEN list[i] ELSE list[i + 1]
  <2>1. k \in 1..Len(list)
    OBVIOUS
  <2>2. rest \in Seq(Ops)
    BY <2>1, RemoveAtProperties
  <2>3. Len(rest) = Len(list) - 1
    BY <2>1, RemoveAtProperties
  <2>4. ASSUME NEW i \in 1..(Len(list) - 1)
        PROVE  rest[i] = IF i < k THEN list[i] ELSE list[i + 1]
    BY <2>1, RemoveAtProperties
  <2> QED BY <2>2, <2>3, <2>4
<1> HIDE DEF rest, I
<1>5. DOMAIN rest = 1..(Len(list) - 1)
  BY <1>4
<1>6. Distinct(rest)
  <2> SUFFICES ASSUME NEW i \in 1..(Len(list) - 1), NEW j \in 1..(Len(list) - 1),
                      rest[i] = rest[j]
               PROVE  i = j
    BY <1>5 DEF Distinct
  <2> DEFINE old(n) == IF n < k THEN n ELSE n + 1
  <2>1. /\ old(i) \in 1..Len(list) /\ rest[i] = list[old(i)]
        /\ old(j) \in 1..Len(list) /\ rest[j] = list[old(j)]
    BY <1>1, <1>4
  <2>2. old(i) = old(j)
    BY <1>1, <2>1 DEF Distinct
  <2> QED BY <2>2, <1>1
<1>7. ASSUME NEW o PROVE Contains(rest, o) <=> Contains(list, o) /\ o # list[k]
  <2>1. ASSUME NEW i \in 1..(Len(list) - 1)
        PROVE  Contains(list, rest[i]) /\ rest[i] # list[k]
    <3>1. CASE i < k
      BY <1>1, <1>4, <3>1 DEF Distinct, Contains
    <3>2. CASE i >= k
      <4>1. i + 1 \in 1..Len(list) /\ rest[i] = list[i + 1] /\ i + 1 # k
        BY <1>1, <1>4, <3>2
      <4> QED BY <1>1, <4>1 DEF Distinct, Contains
    <3> QED BY <1>1, <3>1, <3>2
  <2>2. ASSUME NEW i \in 1..Len(list), i # k PROVE Contains(rest, list[i])
    <3>1. CASE i < k
      BY <1>1, <1>4, <3>1 DEF Contains
    <3>2. CASE i > k
      <4>1. i - 1 \in 1..(Len(list) - 1) /\ rest[i - 1] = list[i]
        BY <1>1, <1>4, <3>2
      <4> QED BY <1>4, <4>1 DEF Contains
    <3> QED BY <1>1, <2>2, <3>1, <3>2
  <2> QED BY <1>4, <2>1, <2>2 DEF Contains
<1> QED BY <1>3, <1>4, <1>5, <1>6, <1>7

\* Inserting a new element before the k-th one, or at the end.
LEMMA InsertFacts ==
  ASSUME NEW list \in Seq(Ops), Distinct(list), NEW o \in Ops, ~Contains(list, o),
         NEW k \in 1..(Len(list) + 1), NEW next \in Ops \cup {NoOp},
         IF k = Len(list) + 1 THEN next = NoOp ELSE next = list[k]
  PROVE  LET new == InsertBefore(list, o, next)
         IN  /\ new \in Seq(Ops) /\ DOMAIN new = 1..(Len(list) + 1)
             /\ new[k] = o
             /\ \A i \in DOMAIN new : i # k => new[i] = IF i < k THEN list[i] ELSE list[i - 1]
             /\ Distinct(new)
             /\ \A p : Contains(new, p) <=> Contains(list, p) \/ p = o
<1> DEFINE new == InsertBefore(list, o, next)
<1>1. DOMAIN list = 1..Len(list) /\ Len(list) \in Nat /\ NoOp \notin Ops
  BY QueueConstants
<1>2. /\ new \in Seq(Ops) /\ Len(new) = Len(list) + 1 /\ DOMAIN new = 1..(Len(list) + 1)
      /\ \A i \in 1..(Len(list) + 1) :
           new[i] = IF i < k THEN list[i] ELSE IF i = k THEN o ELSE list[i - 1]
  <2>1. CASE k = Len(list) + 1
    BY <1>1, <2>1, AppendProperties DEF InsertBefore
  <2>2. CASE k # Len(list) + 1
    <3>1. next # NoOp /\ (CHOOSE i \in DOMAIN list : list[i] = next) = k
      BY <1>1, <2>2 DEF Distinct
    <3>2. new = InsertAt(list, k, o) /\ k \in 1..(Len(list) + 1)
      BY <3>1 DEF InsertBefore
    <3> HIDE DEF new
    <3>3. InsertAt(list, k, o) \in Seq(Ops)
      BY InsertAtProperties
    <3>4. Len(InsertAt(list, k, o)) = Len(list) + 1
      BY InsertAtProperties
    <3>5. ASSUME NEW i \in 1..(Len(list) + 1)
          PROVE  InsertAt(list, k, o)[i] =
                   IF i < k THEN list[i] ELSE IF i = k THEN o ELSE list[i - 1]
      BY InsertAtProperties
    <3>6. DOMAIN new = 1..(Len(list) + 1)
      BY <3>2, <3>3, <3>4
    <3> QED BY <3>2, <3>3, <3>4, <3>5, <3>6
  <2> QED BY <2>1, <2>2
<1> HIDE DEF new
<1>3. \A i \in 1..Len(list) : list[i] # o
  BY DEF Contains
<1>4. Distinct(new)
  <2> SUFFICES ASSUME NEW i \in 1..(Len(list) + 1), NEW j \in 1..(Len(list) + 1), new[i] = new[j]
               PROVE  i = j
    BY <1>2 DEF Distinct
  <2>1. CASE i = k
    BY <1>1, <1>2, <1>3, <2>1
  <2>2. CASE j = k
    BY <1>1, <1>2, <1>3, <2>2
  <2>3. CASE i # k /\ j # k
    <3> DEFINE old(n) == IF n < k THEN n ELSE n - 1
    <3>1. /\ old(i) \in 1..Len(list) /\ new[i] = list[old(i)]
          /\ old(j) \in 1..Len(list) /\ new[j] = list[old(j)]
      BY <1>1, <1>2, <2>3
    <3>2. old(i) = old(j)
      BY <1>1, <3>1 DEF Distinct
    <3> QED BY <2>3, <3>2
  <2> QED BY <2>1, <2>2, <2>3
<1>5. ASSUME NEW p PROVE Contains(new, p) <=> Contains(list, p) \/ p = o
  <2>1. ASSUME NEW i \in 1..(Len(list) + 1) PROVE Contains(list, new[i]) \/ new[i] = o
    <3>1. i < k => i \in DOMAIN list /\ new[i] = list[i]
      BY <1>1, <1>2
    <3>2. ~(i < k) /\ i # k => i - 1 \in DOMAIN list /\ new[i] = list[i - 1]
      BY <1>1, <1>2
    <3> QED BY <1>2, <3>1, <3>2 DEF Contains
  <2>2. Contains(new, o)
    BY <1>2 DEF Contains
  <2>3. ASSUME NEW i \in 1..Len(list) PROVE Contains(new, list[i])
    <3>1. CASE i < k
      BY <1>1, <1>2, <3>1 DEF Contains
    <3>2. CASE i >= k
      <4>1. i + 1 \in 1..(Len(list) + 1) /\ new[i + 1] = list[i]
        BY <1>1, <1>2, <3>2
      <4> QED BY <1>2, <4>1 DEF Contains
    <3> QED BY <1>1, <3>1, <3>2
  <2> QED BY <1>2, <2>1, <2>2, <2>3 DEF Contains
<1> QED BY <1>2, <1>4, <1>5 DEF new

\* Appending a new element.
LEMMA AppendFacts ==
  ASSUME NEW list \in Seq(Ops), Distinct(list), NEW o \in Ops, ~Contains(list, o)
  PROVE  /\ Append(list, o) \in Seq(Ops) /\ DOMAIN Append(list, o) = 1..(Len(list) + 1)
         /\ DOMAIN list = 1..Len(list) /\ Len(list) \in Nat
         /\ Append(list, o)[Len(list) + 1] = o
         /\ \A i \in DOMAIN list : Append(list, o)[i] = list[i]
         /\ Distinct(Append(list, o))
         /\ \A p : Contains(Append(list, o), p) <=> Contains(list, p) \/ p = o
<1>1. /\ Append(list, o) \in Seq(Ops) /\ Len(Append(list, o)) = Len(list) + 1
      /\ Append(list, o)[Len(list) + 1] = o /\ Len(list) \in Nat /\ DOMAIN list = 1..Len(list)
      /\ \A i \in 1..Len(list) : Append(list, o)[i] = list[i]
  BY AppendProperties
<1> DEFINE new == Append(list, o)
<1>2. /\ Len(new) = Len(list) + 1 /\ DOMAIN new = 1..(Len(list) + 1)
      /\ \A i \in 1..(Len(list) + 1) : IF i = Len(list) + 1 THEN new[i] = o ELSE new[i] = list[i]
  BY <1>1
<1> HIDE DEF new
<1>3. Distinct(new)
  BY <1>1, <1>2 DEF Distinct, Contains
<1>4. \A p : Contains(new, p) <=> Contains(list, p) \/ p = o
  BY <1>1, <1>2 DEF Contains
<1> QED BY <1>1, <1>2, <1>3, <1>4 DEF new

-----------------------------------------------------------------------------
(* What steps leave alone *)

LEMMA SameOperations ==
  ASSUME PlaceInv, CallInv, UNCHANGED <<queue, opVars, historyVars>>
  PROVE  PlaceInv' /\ CallInv'
BY DEF PlaceInv, CallInv, opVars, historyVars

\* The queue stays, or an operation is appended, and no other gets a callback.
Grows ==
  /\ queue' = queue \/ \E o \in Ops : queue' = Append(queue, o)
  /\ \A o \in known : attr'[o] = attr[o] /\ (o \in callback' => o \in callback)

LEMMA GrowsKeeps ==
  ASSUME TypeOK, PlaceInv, Grows, NEW o
  PROVE  /\ FreeUpTo(o) => FreeUpTo(o)'
         /\ SilentUpTo(o) => SilentUpTo(o)'
<1>1. /\ DOMAIN queue = 1..Len(queue) /\ Len(queue) \in Nat
      /\ \A i \in DOMAIN queue : i \in DOMAIN queue' /\ queue'[i] = queue[i] /\ queue[i] \in known
  <2>1. /\ DOMAIN queue = 1..Len(queue) /\ Len(queue) \in Nat
        /\ \A i \in DOMAIN queue : queue[i] \in known
    BY DEF TypeOK, PlaceInv
  <2>2. ASSUME NEW p \in Ops, queue' = Append(queue, p), NEW i \in 1..Len(queue)
        PROVE  i \in DOMAIN queue' /\ queue'[i] = queue[i]
    BY <2>1, <2>2, AppendProperties DEF TypeOK
  <2> QED BY <2>1, <2>2 DEF Grows
<1>2. \A i \in DOMAIN queue : \A j \in 1..(i - 1) : j \in DOMAIN queue
  BY <1>1
<1>3. FreeUpTo(o) => FreeUpTo(o)'
  BY <1>1, <1>2 DEF FreeUpTo, InOrder, Grows
<1>4. SilentUpTo(o) => SilentUpTo(o)'
  BY <1>1, <1>2 DEF SilentUpTo, Grows
<1> QED BY <1>3, <1>4

\* What nested functions do keeps the outermost one in order.
LEMMA InnerKeeps ==
  ASSUME IInv, stack # <<>>, Top.fn \in Nested,
         stack' = <<>> \/ stack'[1].fn \in Nested \/ (stack'[1] = stack[1] /\ Len(stack) # 1),
         Grows, initiated \subseteq initiated',
         \A o \in Ops : chained'[o] = chained[o] \/ chained'[o] = NoOp,
         \A o \in callback' : ~Aborting(o)
  PROVE  BottomInv'
<1> USE DEF IInv
<1>1. CASE stack' = <<>>
  BY <1>1 DEF BottomInv
<1>2. CASE stack' # <<>> /\ stack'[1].fn \in Nested
  BY <1>2 DEF BottomInv, VisitInv, CheckInv, FinalizeInv, AbortAllInv, AbortNextInv, Nested
<1>3. CASE stack' # <<>> /\ stack'[1] = stack[1] /\ Len(stack) # 1
  <2>0. PICK b : b = stack[1] /\ b = stack'[1]
    BY <1>3
  <2>1. VisitInv(b) /\ CheckInv(b) /\ FinalizeInv(b) /\ AbortAllInv(b) /\ AbortNextInv(b)
    BY <2>0 DEF BottomInv
  <2>2. b.fn # "visit" /\ b.fn # "abortAll"
    BY <1>3, <2>1 DEF VisitInv, AbortAllInv
  <2>3. b.fn = "check" =>
          FreeUpTo(b.op)' /\ (b.op \in initiated' \/ ~("sequential" \in attr'[b.op]))
    <3>1. \A o : FreeUpTo(o) => o \in known
      BY DEF FreeUpTo, PlaceInv
    <3> QED BY <2>1, <3>1, GrowsKeeps DEF CheckInv, Grows, InOrder
  <2>4. b.fn = "finalize" => b.op \in Ops /\ chained'[b.op] = NoOp
    BY <1>3, <2>1 DEF FinalizeInv
  <2>5. b.fn = "abortNext" => SilentUpTo(b.op)' /\ b.op \notin callback'
    <3>1. \A o : SilentUpTo(o) => o \in known
      BY DEF SilentUpTo, PlaceInv
    <3> QED BY <2>1, <3>1, GrowsKeeps DEF AbortNextInv, Grows
  <2> QED BY <2>0, <2>2, <2>3, <2>4, <2>5
          DEF BottomInv, VisitInv, CheckInv, FinalizeInv, AbortAllInv, AbortNextInv, InOrder
<1> QED BY <1>1, <1>2, <1>3

\* A nested function changes nothing about who processes the queue.
LEMMA InnerProcess ==
  ASSUME ProcessInv, stack # <<>>, UNCHANGED <<processing, recheck, terminated>>,
         \/ stack' # <<>> /\ stack'[1] = stack[1]
         \/ stack[1].fn \in Nested /\ (stack' = <<>> \/ stack'[1].fn \in Nested)
  PROVE  ProcessInv'
BY DEF ProcessInv, Processing, Nested

-----------------------------------------------------------------------------
(* Nested functions *)

\* abortOperation(): the callback is called with the error, or given up.
LEMMA AbortBeginsKeeps ==
  ASSUME IInv, AbortBegins
  PROVE  IInv'
<1> USE DEF IInv
<1>1. PICK o, n : o = Top.op /\ n = Len(stack)
  OBVIOUS
<1>2. /\ stack # <<>> /\ Top.fn = "abort" /\ n \in Nat \ {0} /\ stack \in Seq(Frame)
      /\ DOMAIN stack = 1..n /\ Top = stack[n] /\ Top \in Frame
  BY <1>1, TopFacts DEF AbortBegins, Running, TypeOK
<1>3. o \in known /\ o \in Ops
  BY <1>1, <1>2 DEF StackInv, TypeOK
<1>4. /\ UNCHANGED <<queueVars, known, attr, initiated, chained, left, delay, wait, completed,
                     sinceInit, broken>>
      /\ aborted' = aborted \cup {o} /\ callback' = callback \ {o}
      /\ silenced' \in {silenced, silenced \cup {o}}
      /\ \/ calls' = calls /\ (o \in callback => o \in silenced')
         \/ calls' = [calls EXCEPT ![o] = 1] /\ o \in callback
  <2>1. o \in aborted => o \notin callback
    BY DEF CallInv
  <2>2. o \in callback => calls[o] = 0
    BY DEF CallInv
  <2> QED BY <1>1, <1>3, <2>1, <2>2 DEF AbortBegins, NoteCall, TypeOK
<1>5. /\ stack' \in Seq(Frame) /\ stack' # <<>>
      /\ stack'[n].fn = "abortRest" /\ stack'[n].op = o
      /\ \A i \in 1..(n - 1) : stack'[i] = stack[i]
      /\ \/ DOMAIN stack' = 1..n
         \/ DOMAIN stack' = 1..(n + 1) /\ stack'[n + 1].fn = "callback"
  <2> DEFINE rest == [Top EXCEPT !.fn = "abortRest"]
             call == AppFrame("callback", o)
  <2>1. rest \in Frame /\ rest.fn = "abortRest" /\ rest.op = o
    BY <1>1, <1>2 DEF Frame, FunctionsUnderWay
  <2>2. call \in Frame /\ call.fn = "callback"
    BY <1>3 DEF Frame, FunctionsUnderWay, AppFrame
  <2>3. Goes(rest) \/ Calls(rest, call)
    BY <1>1 DEF AbortBegins
  <2> HIDE DEF rest, call
  <2>4. CASE Goes(rest)
    BY <1>1, <1>2, <2>1, <2>4, GoesFacts
  <2>5. CASE Calls(rest, call)
    BY <1>1, <1>2, <2>1, <2>2, <2>5, CallsFacts
  <2> QED BY <2>3, <2>4, <2>5
<1>6. TypeOK' /\ ~broken'
  <2>0. calls \in [Ops -> 0..2] /\ 1 \in 0..2
    BY DEF TypeOK
  <2>1. calls' \in [Ops -> 0..2]
    BY <1>4, <2>0
  <2> QED BY <1>3, <1>4, <1>5, <2>1 DEF TypeOK, queueVars
<1>7. PlaceInv'
  BY <1>4 DEF PlaceInv, queueVars
<1>8. CallInv'
  <2>1. \A p \in Ops : calls'[p] <= 1 /\ (p # o => calls'[p] = calls[p])
    BY <1>3, <1>4 DEF CallInv, TypeOK
  <2>2. "callback" \in attr'[o] => calls'[o] = 1 \/ o \in silenced'
    BY <1>3, <1>4 DEF CallInv, TypeOK
  <2>3. \A p \in callback' : p # o /\ p \in callback
    BY <1>4
  <2> QED BY <1>3, <1>4, <2>1, <2>2, <2>3 DEF CallInv, TypeOK
<1>9. ReportInv'
  <2>1. \A p \in callback' : IsPending(p)
    BY <1>1, <1>4 DEF ReportInv, Aborting
  <2> QED BY <1>4, <2>1 DEF ReportInv, IsPending, queueVars
<1>10. StackInv'
  BY <1>2, <1>3, <1>4, <1>5 DEF StackInv, Nested
<1>11. stack'[1].fn \in Nested \/ (stack'[1] = stack[1] /\ n # 1)
  BY <1>2, <1>5 DEF Nested
<1>12. BottomInv'
  <2>1. Grows /\ \A p \in callback' : ~Aborting(p)
    BY <1>1, <1>4 DEF Grows, Aborting, queueVars
  <2> QED BY <1>1, <1>2, <1>4, <1>11, <2>1, InnerKeeps DEF Nested
<1>13. ProcessInv'
  BY <1>1, <1>2, <1>4, <1>5, InnerProcess DEF Nested, queueVars
<1> QED BY <1>6, <1>7, <1>8, <1>9, <1>10, <1>12, <1>13

\* The chained operation is aborted next, with the rest of its chain.
LEMMA AbortContinuesKeeps ==
  ASSUME IInv, AbortContinues
  PROVE  IInv'
<1> USE DEF IInv
<1>1. PICK o, n : o = Top.op /\ n = Len(stack)
  OBVIOUS
<1>2. /\ stack # <<>> /\ Top.fn = "abortRest" /\ n \in Nat \ {0} /\ stack \in Seq(Frame)
      /\ DOMAIN stack = 1..n /\ Top = stack[n] /\ Top \in Frame
  BY <1>1, TopFacts DEF AbortContinues, Running, TypeOK
<1>3. o \in known /\ o \in Ops /\ o \in aborted /\ chained[o] \in Ops \cup {NoOp}
  BY <1>1, <1>2 DEF StackInv, TypeOK
<1>4. /\ UNCHANGED <<queueVars, known, attr, initiated, aborted, callback, left, delay, wait,
                     completed, historyVars, broken>>
      /\ chained' = [chained EXCEPT ![o] = NoOp]
  BY <1>1, <1>3 DEF AbortContinues, CallInv
<1>5. /\ stack' \in Seq(Frame) /\ \A i \in 1..(n - 1) : stack'[i] = stack[i]
      /\ \/ /\ chained[o] # NoOp /\ stack' # <<>> /\ Len(stack') = n /\ DOMAIN stack' = 1..n
            /\ stack'[n].fn = "abort" /\ stack'[n].op = chained[o]
         \/ /\ chained[o] = NoOp /\ DOMAIN stack' = 1..(n - 1) /\ (stack' = <<>> <=> n = 1)
  <2> DEFINE next == [Top EXCEPT !.fn = "abort", !.op = chained[o]]
  <2>1. next \in Frame /\ next.fn = "abort" /\ next.op = chained[o]
    BY <1>2, <1>3 DEF Frame, FunctionsUnderWay
  <2>2. IF chained[o] # NoOp THEN Goes(next) ELSE Returns
    BY <1>1 DEF AbortContinues
  <2> HIDE DEF next
  <2>3. CASE chained[o] # NoOp
    BY <1>1, <1>2, <2>1, <2>2, <2>3, GoesFacts
  <2>4. CASE chained[o] = NoOp
    BY <1>1, <1>2, <2>2, <2>4, ReturnsFacts
  <2> QED BY <2>3, <2>4
<1>6. TypeOK' /\ ~broken'
  BY <1>3, <1>4, <1>5 DEF TypeOK, queueVars, historyVars
<1>7. PlaceInv'
  <2>1. \A p \in Ops : chained'[p] # NoOp => chained'[p] = chained[p] /\ p # o
    BY <1>3, <1>4 DEF TypeOK
  <2>2. queue' = queue /\ known' = known
    BY <1>4 DEF queueVars
  <2> QED BY <2>1, <2>2 DEF PlaceInv
<1>8. CallInv'
  BY <1>3, <1>4 DEF CallInv, TypeOK, historyVars
<1>9. ReportInv'
  <2> SUFFICES ASSUME NEW p \in callback PROVE IsPending(p)' \/ Aborting(p)'
    BY <1>4 DEF ReportInv
  <2>1. IsPending(p)
    BY <1>2 DEF ReportInv, Aborting
  <2>2. CASE Contains(queue, p)
    BY <1>4, <2>2 DEF IsPending, queueVars
  <2>3. CASE \E q \in Ops : chained[q] = p
    <3>1. PICK q \in Ops : chained[q] = p
      BY <2>3
    <3>2. CASE q = o
      <4>1. p # NoOp
        BY QueueConstants DEF TypeOK
      <4> QED BY <1>5, <3>1, <3>2, <4>1 DEF Aborting, Top, Last
    <3>3. CASE q # o
      BY <1>4, <3>1, <3>3 DEF IsPending, TypeOK
    <3> QED BY <3>2, <3>3
  <2> QED BY <2>1, <2>2, <2>3 DEF IsPending
<1>10. StackInv'
  <2>1. \A i \in DOMAIN stack' :
          \/ i \in DOMAIN stack /\ stack'[i] = stack[i]
          \/ i = n /\ stack'[i].fn = "abort" /\ stack'[i].op \in known
    <3>1. chained[o] # NoOp => chained[o] \in known
      BY <1>3 DEF PlaceInv
    <3> QED BY <1>2, <1>5, <3>1
  <2>2. stack' # <<>> => stack'[1].fn # "callback"
    <3>1. n # 1 => stack'[1] = stack[1]
      BY <1>2, <1>5
    <3>2. n = 1 /\ stack' # <<>> => stack'[1].fn = "abort"
      BY <1>5
    <3> QED BY <1>2, <3>1, <3>2 DEF StackInv
  <2> QED BY <1>2, <1>4, <2>1, <2>2 DEF StackInv, Nested
<1>11. BottomInv'
  <2>1. Grows /\ \A p \in callback' : ~Aborting(p)
    BY <1>2, <1>4 DEF Grows, Aborting, queueVars
  <2>2. stack' = <<>> \/ stack'[1].fn \in Nested \/ (stack'[1] = stack[1] /\ n # 1)
    BY <1>2, <1>5 DEF Nested
  <2>3. \A p \in Ops : chained'[p] = chained[p] \/ chained'[p] = NoOp
    BY <1>4 DEF TypeOK
  <2> QED BY <1>1, <1>2, <1>4, <2>1, <2>2, <2>3, InnerKeeps DEF Nested
<1>12. ProcessInv'
  <2>1. \/ stack' # <<>> /\ stack'[1] = stack[1]
        \/ stack[1].fn \in Nested /\ (stack' = <<>> \/ stack'[1].fn \in Nested)
    BY <1>2, <1>5 DEF Nested
  <2> QED BY <1>2, <1>4, <2>1, InnerProcess DEF queueVars
<1> QED BY <1>6, <1>7, <1>8, <1>9, <1>10, <1>11, <1>12

\* A step that changes the stack only.
LEMMA SameTypes ==
  ASSUME IInv, UNCHANGED <<queue, sinceLast, opVars, historyVars, broken>>, stack' \in Seq(Frame),
         processing' \in BOOLEAN, recheck' \in BOOLEAN, terminated' \in BOOLEAN
  PROVE  TypeOK' /\ ~broken' /\ PlaceInv' /\ CallInv'
<1>1. TypeOK'
  BY DEF IInv, TypeOK, opVars, historyVars
<1> QED BY <1>1, SameOperations DEF IInv

\* ... and where nothing was just being aborted.
LEMMA SameReports ==
  ASSUME IInv, UNCHANGED <<queue, opVars>>, stack = <<>> \/ Top.fn # "abort"
  PROVE  ReportInv'
BY DEF IInv, ReportInv, Aborting, IsPending, opVars

LEMMA CallbackReturnsKeeps ==
  ASSUME IInv, CallbackReturns
  PROVE  IInv'
<1> USE DEF IInv
<1>1. PICK n : n = Len(stack)
  OBVIOUS
<1>2. /\ stack # <<>> /\ Top.fn = "callback" /\ n \in Nat \ {0} /\ stack \in Seq(Frame)
      /\ DOMAIN stack = 1..n /\ Top = stack[n]
      /\ UNCHANGED <<queueVars, opVars, historyVars, broken>>
  BY <1>1, TopFacts DEF CallbackReturns, Running, TypeOK
<1>3. /\ stack' \in Seq(Frame) /\ DOMAIN stack' = 1..(n - 1)
      /\ \A i \in 1..(n - 1) : stack'[i] = stack[i]
      /\ stack' # <<>> /\ stack'[1] = stack[1] /\ n # 1
  BY <1>1, <1>2, ReturnsFacts DEF CallbackReturns, StackInv
<1>4. TypeOK' /\ ~broken' /\ PlaceInv' /\ CallInv'
  BY <1>2, <1>3, SameTypes DEF queueVars, TypeOK
<1>5. ReportInv'
  BY <1>2, SameReports DEF queueVars
<1>6. StackInv'
  BY <1>2, <1>3 DEF StackInv, opVars
<1>7. BottomInv'
  <2>1. Grows /\ \A p \in callback' : ~Aborting(p)
    BY <1>2 DEF Grows, Aborting, queueVars, opVars
  <2> QED BY <1>1, <1>2, <1>3, <2>1, InnerKeeps DEF Nested, opVars
<1>8. ProcessInv'
  BY <1>2, <1>3, InnerProcess DEF queueVars
<1> QED BY <1>4, <1>5, <1>6, <1>7, <1>8

-----------------------------------------------------------------------------
(* What application code does, in callbacks and otherwise *)

LEMMA AppFacts ==
  ASSUME IInv, CarefulCallbacks, NEW what, App(what)
  PROVE  /\ stack # <<>> => /\ what \in {"queue", "abort"} /\ Top.fn = "callback"
                            /\ Len(stack) \in Nat /\ Len(stack) > 1 /\ Len(stack) # 1
         /\ stack = <<>> => ~processing
<1>1. stack # <<>> => what \in {"queue", "abort"} /\ Top.fn = "callback"
  BY DEF App, Running, CarefulCallbacks
<1>2. stack # <<>> => Len(stack) \in Nat /\ Len(stack) > 1 /\ Len(stack) # 1
  BY <1>1, TopFacts DEF IInv, TypeOK, StackInv
<1> QED BY <1>1, <1>2 DEF IInv, ProcessInv

LEMMA AbortOperationKeeps ==
  ASSUME IInv, CarefulCallbacks, NEW o \in Ops, NEW err \in BOOLEAN, AbortOperation(o, err)
  PROVE  IInv'
<1> USE DEF IInv
<1>1. PICK n, f : n = Len(stack) /\ f = [AppFrame("abort", o) EXCEPT !.err = err]
  OBVIOUS
<1>2. /\ App("abort") /\ o \in known /\ Enters(f)
      /\ UNCHANGED <<queueVars, opVars, historyVars, broken>>
  BY <1>1 DEF AbortOperation
<1>3. f \in Frame /\ f.fn = "abort" /\ f.op = o
  BY <1>1 DEF AppFrame, Frame, FunctionsUnderWay
<1>4. /\ stack \in Seq(Frame) /\ DOMAIN stack = 1..n /\ n \in Nat
      /\ stack' \in Seq(Frame) /\ stack' # <<>> /\ DOMAIN stack' = 1..(n + 1)
      /\ stack'[n + 1] = f /\ \A i \in 1..n : stack'[i] = stack[i]
  BY <1>1, <1>2, <1>3, EntersFacts DEF TypeOK
<1>5. /\ stack # <<>> => Top.fn = "callback" /\ n > 1 /\ stack'[1] = stack[1]
      /\ stack = <<>> => n = 0 /\ ~processing
  BY <1>1, <1>2, <1>4, AppFacts
<1>6. TypeOK' /\ ~broken' /\ PlaceInv' /\ CallInv'
  BY <1>2, <1>4, SameTypes DEF queueVars, TypeOK
<1>7. ReportInv'
  BY <1>2, <1>5, SameReports DEF queueVars
<1>8. StackInv'
  BY <1>2, <1>3, <1>4, <1>5 DEF StackInv, opVars, Nested
<1>9. BottomInv'
  <2>1. CASE stack = <<>>
    BY <1>3, <1>4, <1>5, <2>1 DEF BottomInv, VisitInv, CheckInv, FinalizeInv, AbortAllInv,
       AbortNextInv
  <2>2. CASE stack # <<>>
    <3>1. Grows /\ \A p \in callback' : ~Aborting(p)
      BY <1>2, <1>5, <2>2 DEF Grows, Aborting, queueVars, opVars
    <3> QED BY <1>1, <1>2, <1>5, <2>2, <3>1, InnerKeeps DEF Nested, opVars
  <2> QED BY <2>1, <2>2
<1>10. ProcessInv'
  <2>1. CASE stack = <<>>
    BY <1>2, <1>3, <1>4, <1>5, <2>1 DEF ProcessInv, Processing, queueVars
  <2>2. CASE stack # <<>>
    BY <1>2, <1>4, <1>5, <2>2, InnerProcess DEF queueVars
  <2> QED BY <2>1, <2>2
<1> QED BY <1>6, <1>7, <1>8, <1>9, <1>10

\* What is set up is new: nothing refers to it yet.
New(o, as) ==
  /\ o \notin known /\ ~Contains(queue, o) /\ o \notin callback /\ o \notin aborted
  /\ \A p \in Ops : chained[p] # o
  /\ chained[o] = NoOp /\ calls[o] = 0
  /\ known' = known \cup {o} /\ known' \subseteq Ops
  /\ as \in SUBSET {"sequential", "timeout", "delay", "fromLast", "callback"}
  /\ attr' = [attr EXCEPT ![o] = as]
  /\ attr' \in [Ops -> SUBSET {"sequential", "timeout", "delay", "fromLast", "callback"}]
  /\ delay' \in [Ops -> {0, Delay}]
  /\ callback' = (IF "callback" \in as THEN callback \cup {o} ELSE callback)
  /\ \A p \in known : p # o /\ attr'[p] = attr[p]
  /\ UNCHANGED <<initiated, aborted, left, wait, completed>>

LEMMA SetUpFacts ==
  ASSUME IInv, NEW o \in Ops, NEW as, SetUp(o, as)
  PROVE  New(o, as)
<1> USE DEF IInv
<1>1. o \notin known /\ known' = known \cup {o}
  BY DEF SetUp
<1>2. ~Contains(queue, o) /\ \A p \in Ops : chained[p] # o
  BY <1>1, QueueConstants DEF PlaceInv, Contains, TypeOK
<1>3. o \notin callback /\ o \notin aborted /\ chained[o] = NoOp /\ calls[o] = 0
  BY <1>1 DEF CallInv
<1>4. as \in SUBSET {"sequential", "timeout", "delay", "fromLast", "callback"}
  BY QueueConstants DEF SetUp
<1>5. /\ attr' = [attr EXCEPT ![o] = as]
      /\ delay' = [delay EXCEPT ![o] = IF "delay" \in as THEN Delay ELSE 0]
      /\ callback' = (IF "callback" \in as THEN callback \cup {o} ELSE callback)
      /\ UNCHANGED <<initiated, aborted, left, wait, completed>>
  BY DEF SetUp
<1>6. attr' \in [Ops -> SUBSET {"sequential", "timeout", "delay", "fromLast", "callback"}]
  BY <1>4, <1>5 DEF TypeOK
<1>7. delay' \in [Ops -> {0, Delay}]
  BY <1>5 DEF TypeOK
<1> QED BY <1>1, <1>2, <1>3, <1>4, <1>5, <1>6, <1>7 DEF TypeOK, New

\* The new operation has its callback still to be called.
LEMMA SetUpKeepsCalls ==
  ASSUME IInv, NEW o \in Ops, NEW as, SetUp(o, as), UNCHANGED historyVars,
         \A p \in Ops \ known' : chained'[p] = NoOp
  PROVE  CallInv'
<1>1. UNCHANGED <<calls, silenced>> /\ New(o, as)
  BY SetUpFacts DEF historyVars
<1>2. "callback" \in attr'[o] => o \in callback'
  BY <1>1 DEF New, IInv, TypeOK
<1>3. \A p \in known' : p = o \/ (p \in known /\ attr'[p] = attr[p])
  BY <1>1 DEF New
<1> QED BY <1>1, <1>2, <1>3 DEF New, IInv, CallInv

LEMMA QueueOperationKeeps ==
  ASSUME IInv, CarefulCallbacks, NEW o \in Ops, NEW as, QueueOperation(o, as)
  PROVE  IInv'
<1> USE DEF IInv
<1>1. /\ App("queue") /\ SetUp(o, as) /\ queue' = Append(queue, o)
      /\ UNCHANGED <<processing, recheck, sinceLast, terminated, stack, chained, historyVars,
                     broken>>
      /\ New(o, as)
  BY SetUpFacts DEF QueueOperation
<1>2. /\ queue' \in Seq(Ops) /\ DOMAIN queue' = 1..(Len(queue) + 1) /\ DOMAIN queue = 1..Len(queue)
      /\ queue'[Len(queue) + 1] = o /\ \A i \in DOMAIN queue : queue'[i] = queue[i]
      /\ Distinct(queue') /\ Len(queue) \in Nat
      /\ \A p : Contains(queue', p) <=> Contains(queue, p) \/ p = o
  BY <1>1, AppendFacts DEF TypeOK, PlaceInv, New
<1>3. TypeOK' /\ ~broken'
  BY <1>1, <1>2 DEF TypeOK, historyVars, New
<1>4. PlaceInv'
  BY <1>1, <1>2 DEF PlaceInv, New
<1>5. CallInv'
  BY <1>1, SetUpKeepsCalls DEF CallInv, New
<1>6. ReportInv'
  <2> SUFFICES ASSUME NEW p \in callback', p # o PROVE IsPending(p)' \/ Aborting(p)'
    BY <1>2 DEF ReportInv, IsPending
  <2>1. IsPending(p) \/ Aborting(p)
    BY <1>1 DEF New, ReportInv
  <2> QED BY <1>1, <1>2, <2>1 DEF IsPending, Aborting, Top
<1>7. StackInv'
  BY <1>1 DEF StackInv, New
<1>8. BottomInv'
  <2>1. CASE stack = <<>>
    BY <1>1, <2>1 DEF BottomInv
  <2>2. CASE stack # <<>>
    <3>1. Top.fn = "callback" /\ Len(stack) # 1
      BY <1>1, <2>2, AppFacts
    <3>2. Grows /\ \A p \in callback' : ~Aborting(p)
      BY <1>1, <3>1 DEF Grows, Aborting, New
    <3>3. initiated \subseteq initiated' /\ stack' = stack /\ chained' = chained
      BY <1>1 DEF New
    <3>4. Len(stack) # 1 /\ stack'[1] = stack[1]
      BY <3>1, <3>3
    <3>5. Top.fn \in Nested
      BY <3>1 DEF Nested
    <3> QED BY <2>2, <3>2, <3>3, <3>4, <3>5, InnerKeeps
  <2> QED BY <2>1, <2>2
<1>9. ProcessInv'
  BY <1>1 DEF ProcessInv
<1> QED BY <1>3, <1>4, <1>5, <1>6, <1>7, <1>8, <1>9

\* Callbacks chain nothing: an operation is chained to one that is in the queue.
LEMMA ChainOperationKeeps ==
  ASSUME IInv, CarefulCallbacks, NEW o \in Ops, NEW c \in Ops, NEW as, ChainOperation(o, c, as)
  PROVE  IInv'
<1> USE DEF IInv
<1>1. /\ App("chain") /\ SetUp(c, as) /\ New(c, as) /\ (Contains(queue, o) \/ Finalizing(o))
      /\ chained' = [chained EXCEPT ![o] = c] /\ chained[o] = NoOp
      /\ UNCHANGED <<queueVars, stack, historyVars, broken>>
  BY SetUpFacts DEF ChainOperation
<1>2. stack = <<>>
  BY <1>1, AppFacts
<1>3. o \in known /\ o # c
  BY <1>1, <1>2 DEF Finalizing, Contains, PlaceInv, New, TypeOK
<1>4. TypeOK' /\ ~broken'
  BY <1>1 DEF TypeOK, historyVars, queueVars, New
<1>5. PlaceInv'
  <2>1. \A p \in Ops : chained'[p] = IF p = o THEN c ELSE chained[p]
    BY <1>1 DEF TypeOK
  <2>2. queue' = queue /\ known' = known \cup {c} /\ ~Contains(queue, c)
        /\ \A p \in Ops : chained[p] # c
    BY <1>1 DEF queueVars, New
  <2> QED BY <1>3, <2>1, <2>2 DEF PlaceInv
<1>6. CallInv'
  <2>1. \A p \in Ops \ known' : chained'[p] = NoOp
    BY <1>1, <1>3 DEF CallInv, New, TypeOK
  <2>2. UNCHANGED historyVars
    BY <1>1
  <2> QED BY <1>1, <2>1, <2>2, SetUpKeepsCalls
<1>7. ReportInv'
  <2> SUFFICES ASSUME NEW p \in callback' PROVE IsPending(p)'
    BY DEF ReportInv
  <2>1. CASE p = c
    BY <1>1, <2>1 DEF IsPending, TypeOK
  <2>2. CASE p # c
    <3>1. IsPending(p) /\ queue' = queue
      BY <1>1, <1>2, <2>2 DEF New, ReportInv, Aborting, queueVars
    <3>2. \A q \in Ops : chained[q] = p => chained'[q] = p
      <4>1. callback' \subseteq callback \cup {c}
        BY <1>1 DEF New
      <4>2. p \in Ops
        BY <4>1 DEF TypeOK
      <4>3. p # chained[o]
        BY <1>1, <4>2, QueueConstants
      <4>4. \A q \in Ops : q # o => chained'[q] = chained[q]
        BY <1>1 DEF TypeOK
      <4> QED BY <4>3, <4>4
    <3> QED BY <3>1, <3>2 DEF IsPending
  <2> QED BY <2>1, <2>2
<1> QED BY <1>1, <1>2, <1>4, <1>5, <1>6, <1>7 DEF StackInv, BottomInv, ProcessInv, queueVars

\* The first function that is called.
LEMMA FirstFrame ==
  ASSUME stack = <<>>, NEW f \in Frame, Enters(f)
  PROVE  /\ stack' \in Seq(Frame) /\ stack' # <<>> /\ Len(stack') = 1 /\ DOMAIN stack' = {1}
         /\ stack'[1] = f
<1>1. stack \in Seq(Frame) /\ Len(stack) = 0
  BY EmptySeq
<1>2. /\ stack' \in Seq(Frame) /\ Len(stack') = 1 /\ stack' # <<>> /\ DOMAIN stack' = 1..1
      /\ stack'[1] = f
  BY <1>1, EntersFacts
<1> QED BY <1>2

LEMMA FirstFacts ==
  ASSUME TypeOK
  PROVE  /\ First \in Ops \cup {NoOp}
         /\ First = NoOp => queue = <<>> /\ DOMAIN queue = {}
         /\ First # NoOp => FreeUpTo(First) /\ SilentUpTo(First)
<1>1. queue = <<>> => First = NoOp /\ DOMAIN queue = {}
  BY EmptySeq DEF First
<1>2. ASSUME queue # <<>> PROVE First \in Ops /\ First = queue[1] /\ 1 \in DOMAIN queue
  BY <1>2, HeadTailProperties DEF First, TypeOK
<1> QED BY <1>1, <1>2, QueueConstants DEF FreeUpTo, SilentUpTo

LEMMA AbortOperationsKeeps ==
  ASSUME IInv, CarefulCallbacks, Terminate \/ \E err \in BOOLEAN : AbortOperations(err)
  PROVE  IInv'
<1> USE DEF IInv
<1>1. PICK f \in Frame : f.fn = "abortAll" /\ f.op = First /\ Enters(f)
  <2>1. First \in Ops \cup {NoOp}
    BY FirstFacts
  <2>2. CASE Terminate
    BY <2>1, <2>2 DEF Terminate, AppFrame, Frame, FunctionsUnderWay
  <2>3. ASSUME NEW err \in BOOLEAN, AbortOperations(err)
        PROVE  \E f \in Frame : f.fn = "abortAll" /\ f.op = First /\ Enters(f)
    BY <2>1, <2>3 DEF AbortOperations, AppFrame, Frame, FunctionsUnderWay
  <2> QED BY <2>2, <2>3
<1>2. /\ UNCHANGED <<queue, processing, sinceLast, opVars, historyVars, broken>>
      /\ stack = <<>> /\ ~processing
      /\ recheck' \in BOOLEAN /\ terminated' \in BOOLEAN
      /\ terminated' \/ (recheck' = recheck /\ terminated' = terminated)
  <2>1. App("terminate") \/ App("abortAll")
    BY DEF Terminate, AbortOperations
  <2>2. stack = <<>> /\ ~processing
    BY <2>1, AppFacts
  <2> QED BY <2>2 DEF Terminate, AbortOperations, queueVars, TypeOK
<1>3. /\ stack' \in Seq(Frame) /\ stack' # <<>> /\ Len(stack') = 1 /\ DOMAIN stack' = {1}
      /\ stack'[1] = f
  BY <1>1, <1>2, FirstFrame
<1>4. TypeOK' /\ ~broken' /\ PlaceInv' /\ CallInv'
  BY <1>2, <1>3, SameTypes DEF TypeOK
<1>5. ReportInv'
  BY <1>2, SameReports
<1>6. StackInv'
  BY <1>1, <1>3 DEF StackInv
<1>7. BottomInv'
  <2>1. /\ f.op = NoOp => \A j \in DOMAIN queue' : queue'[j] \notin callback'
        /\ f.op # NoOp => SilentUpTo(f.op)'
    BY <1>1, <1>2, FirstFacts DEF SilentUpTo, opVars
  <2> QED BY <1>1, <1>3, <2>1 DEF BottomInv, VisitInv, CheckInv, FinalizeInv, AbortAllInv,
          AbortNextInv
<1>8. ProcessInv'
  BY <1>1, <1>2, <1>3 DEF ProcessInv, Processing
<1> QED BY <1>4, <1>5, <1>6, <1>7, <1>8

\* The queue begins to be processed, by the timer or the application.
LEMMA ProcessingBeginsKeeps ==
  ASSUME IInv, CarefulCallbacks, RecheckTimer \/ ProcessOperations
  PROVE  IInv'
<1> USE DEF IInv
<1>1. PICK f \in Frame : /\ f.fn = "visit" /\ f.op = First /\ Enters(f)
                         /\ recheck' = recheck \/ f.by = "timer"
  <2>1. First \in Ops \cup {NoOp}
    BY FirstFacts
  <2>2. CASE RecheckTimer
    <3>1. PICK f : f = [AppFrame("visit", First) EXCEPT !.by = "timer"]
      OBVIOUS
    <3>2. f \in Frame /\ f.fn = "visit" /\ f.op = First /\ f.by = "timer"
      BY <2>1, <3>1 DEF AppFrame, Frame, FunctionsUnderWay
    <3>3. Enters(f) /\ recheck /\ ~recheck'
      BY <2>2, <3>1 DEF RecheckTimer
    <3> QED BY <3>2, <3>3
  <2>3. CASE ProcessOperations
    BY <2>1, <2>3 DEF ProcessOperations, AppFrame, Frame, FunctionsUnderWay
  <2> QED BY <2>2, <2>3
<1>2. /\ UNCHANGED <<queue, sinceLast, terminated, opVars, historyVars, broken>>
      /\ stack = <<>> /\ processing' = TRUE /\ recheck' \in BOOLEAN
  <2>1. CASE RecheckTimer
    BY <2>1 DEF RecheckTimer, TypeOK
  <2>2. CASE ProcessOperations
    <3>1. App("process")
      BY <2>2 DEF ProcessOperations
    <3>2. stack = <<>>
      BY <3>1, AppFacts
    <3> QED BY <2>2, <3>2 DEF ProcessOperations, TypeOK
  <2> QED BY <2>1, <2>2
<1>3. /\ stack' \in Seq(Frame) /\ stack' # <<>> /\ Len(stack') = 1 /\ DOMAIN stack' = {1}
      /\ stack'[1] = f
  BY <1>1, <1>2, FirstFrame
<1>4. TypeOK' /\ ~broken' /\ PlaceInv' /\ CallInv'
  BY <1>2, <1>3, SameTypes DEF TypeOK
<1>5. ReportInv'
  BY <1>2, SameReports
<1>6. StackInv'
  BY <1>1, <1>3 DEF StackInv
<1>7. BottomInv'
  <2>1. f.op # NoOp => FreeUpTo(f.op)'
    BY <1>1, <1>2, FirstFacts DEF FreeUpTo, InOrder, opVars
  <2> QED BY <1>1, <1>3, <2>1 DEF BottomInv, VisitInv, CheckInv, FinalizeInv, AbortAllInv,
          AbortNextInv
<1>8. ProcessInv'
  BY <1>1, <1>2, <1>3 DEF ProcessInv, Processing
<1> QED BY <1>4, <1>5, <1>6, <1>7, <1>8

\* Time passes, or an operation completes, while no function is under way.
LEMMA IdleKeeps ==
  ASSUME IInv, Tick \/ \E o \in Ops : Completes(o)
  PROVE  IInv'
<1> USE DEF IInv
<1>1. /\ stack = <<>> /\ stack' = <<>> /\ broken' = broken
      /\ UNCHANGED <<queue, processing, recheck, terminated, known, attr, aborted, callback,
                     chained, calls, silenced>>
  BY DEF Tick, Completes, queueVars, historyVars
<1>2. TypeOK'
  <2>1. CASE Tick
    <3>1. \A x \in None..MaxSince : Longer(x) \in None..MaxSince
      BY QueueConstants DEF Longer, None, MaxSince
    <3>2. \A m \in Nat : \A x \in None..m : Sooner(x) \in None..m /\ None \in None..m
      BY DEF Sooner, None
    <3>3. sinceLast' \in None..MaxSince /\ sinceInit' \in None..MaxSince
      BY <2>1, <3>1 DEF Tick, TypeOK
    <3>4. left' \in [Ops -> None..Timeout] /\ wait' \in [Ops -> None..Delay]
      BY <2>1, <3>2, QueueConstants DEF Tick, TypeOK
    <3> QED BY <1>1, <2>1, <3>3, <3>4 DEF Tick, TypeOK
  <2>2. ASSUME NEW o \in Ops, Completes(o) PROVE TypeOK'
    BY <1>1, <2>2 DEF Completes, TypeOK, queueVars, historyVars
  <2> QED BY <2>1, <2>2
<1>3. PlaceInv' /\ CallInv'
  BY <1>1 DEF PlaceInv, CallInv
<1>4. ReportInv'
  BY <1>1 DEF ReportInv, Aborting, IsPending
<1> QED BY <1>1, <1>2, <1>3, <1>4 DEF StackInv, BottomInv, ProcessInv

-----------------------------------------------------------------------------
(* The outermost function, when nothing is nested in it *)

OuterInv(b) == VisitInv(b) /\ CheckInv(b) /\ FinalizeInv(b) /\ AbortAllInv(b) /\ AbortNextInv(b)

LEMMA OuterFacts ==
  ASSUME IInv, stack # <<>>, Top.fn \notin Nested
  PROVE  /\ Len(stack) = 1 /\ Top = stack[1] /\ Top \in Frame /\ stack \in Seq(Frame)
         /\ OuterInv(Top)
         /\ Top.fn # "abort" /\ \A p \in callback : IsPending(p)
         /\ (processing <=> Top.fn \in Processing)
         /\ terminated \/ recheck \/ (processing /\ Top.by = "timer")
<1>1. Len(stack) = 1 /\ Top = stack[1] /\ Top \in Frame /\ stack \in Seq(Frame)
  BY OuterIsTop, TopFacts DEF IInv, TypeOK
<1>2. Top.fn # "abort"
  BY DEF Nested
<1> QED BY <1>1, <1>2 DEF IInv, OuterInv, BottomInv, ReportInv, Aborting, ProcessInv

\* It goes on, and possibly calls a nested function.
Moves(f) ==
  \/ Goes(f)
  \/ \E g \in Frame : Calls(f, g) /\ (g.fn = "callback" \/ (g.fn = "abort" /\ g.op \in known))

LEMMA OuterMoves ==
  ASSUME IInv, stack # <<>>, Top.fn \notin Nested, NEW f \in Frame, Moves(f),
         UNCHANGED <<known, aborted>>, f.fn \notin Nested
  PROVE  /\ stack' \in Seq(Frame) /\ stack' # <<>> /\ stack'[1] = f
         /\ Goes(f) => Len(stack') = 1
         /\ \A g \in Frame : Calls(f, g) => Len(stack') = 2 /\ Top' = g
         /\ StackInv'
         /\ OuterInv(f)' => BottomInv'
<1>1. Len(stack) = 1 /\ stack \in Seq(Frame)
  BY OuterFacts
<1>2. CASE Goes(f)
  <2>1. /\ stack' \in Seq(Frame) /\ stack' # <<>> /\ Len(stack') = 1 /\ DOMAIN stack' = {1}
        /\ stack'[1] = f
    BY <1>1, <1>2, GoesFacts
  <2>2. \A g \in Frame : ~Calls(f, g)
    BY <1>1, <2>1, CallsFacts
  <2> QED BY <2>1, <2>2 DEF StackInv, BottomInv, OuterInv, Nested
<1>3. ASSUME NEW g \in Frame, Calls(f, g), g.fn = "callback" \/ (g.fn = "abort" /\ g.op \in known)
      PROVE  /\ stack' \in Seq(Frame) /\ stack' # <<>> /\ stack'[1] = f
             /\ Len(stack') = 2 /\ Top' = g
             /\ StackInv'
             /\ OuterInv(f)' => BottomInv'
  <2>1. /\ stack' \in Seq(Frame) /\ stack' # <<>> /\ Len(stack') = 2 /\ DOMAIN stack' = 1..2
        /\ stack'[1] = f /\ stack'[2] = g
    BY <1>1, <1>3, CallsFacts
  <2>2. Top' = g
    BY <2>1 DEF Top, Last
  <2> QED BY <1>3, <2>1, <2>2 DEF StackInv, BottomInv, OuterInv, Nested
<1>4. \A g \in Frame : Calls(f, g) => Len(stack') = 2 /\ Top' = g
  BY <1>1, CallsFacts DEF Top, Last
<1>5. ASSUME NEW g \in Frame, Calls(f, g), Goes(f) PROVE FALSE
  <2>1. Len(stack') = 2
    BY <1>4, <1>5
  <2>2. Len(stack') = 1
    BY <1>1, <1>5, GoesFacts
  <2> QED BY <2>1, <2>2
<1> QED BY <1>2, <1>3, <1>4, <1>5 DEF Moves

\* It stays the one that processes the queue, or aborts what is in it.
LEMMA SameProcess ==
  ASSUME IInv, stack # <<>>, Top.fn \notin Nested, NEW f \in Frame,
         stack' # <<>>, stack'[1] = f, UNCHANGED <<processing, recheck, terminated>>,
         f.by = Top.by, Top.fn \in Processing <=> f.fn \in Processing
  PROVE  ProcessInv'
BY OuterFacts DEF ProcessInv

\* The function that processes the queue returns.
LEMMA LeavesKeeps ==
  ASSUME IInv, stack # <<>>, Top.fn \in Processing, Leaves, TypeOK',
         UNCHANGED <<queue, terminated, known, attr, aborted, callback, chained, calls, silenced,
                     broken>>
  PROVE  IInv'
<1>1. Top.fn \notin Nested
  BY DEF Processing, Nested
<1>2. stack' = <<>>
  BY <1>1, OuterFacts, ReturnsFacts DEF Leaves
<1>3. PlaceInv' /\ CallInv' /\ ~broken'
  BY DEF IInv, PlaceInv, CallInv
<1>4. ReportInv'
  BY <1>1, OuterFacts DEF ReportInv, IsPending
<1>5. ProcessInv'
  BY <1>1, <1>2, OuterFacts DEF Leaves, ProcessInv
<1> QED BY <1>2, <1>3, <1>4, <1>5 DEF IInv, StackInv, BottomInv

LEMMA LeavesTypes ==
  ASSUME IInv, stack # <<>>, Top.fn \in Processing, Leaves
  PROVE  processing' \in BOOLEAN /\ recheck' \in BOOLEAN /\ stack' \in Seq(Frame)
BY ReturnsFacts DEF IInv, TypeOK, Leaves

-----------------------------------------------------------------------------
(* Steps of the outermost function *)

LEMMA NothingLeftKeeps ==
  ASSUME IInv, NothingLeft
  PROVE  IInv'
<1>1. stack # <<>> /\ Top.fn \in Processing /\ Leaves
  BY DEF NothingLeft, Running, Processing
<1>2. UNCHANGED <<queue, sinceLast, terminated, opVars, historyVars, broken>>
  BY DEF NothingLeft
<1>3. TypeOK'
  BY <1>1, <1>2, LeavesTypes, SameTypes DEF IInv, TypeOK
<1> QED BY <1>1, <1>2, <1>3, LeavesKeeps DEF opVars, historyVars

LEMMA ProcessedKeeps ==
  ASSUME IInv, Processed
  PROVE  IInv'
<1>1. /\ stack # <<>> /\ Top.fn = "end" /\ Top.fn \in Processing /\ Top.fn \notin Nested
      /\ UNCHANGED <<queue, sinceLast, terminated, opVars, historyVars, broken>>
  BY DEF Processed, Running, Processing, Nested
<1>2. CASE Leaves
  <2>1. TypeOK'
    BY <1>1, <1>2, LeavesTypes, SameTypes DEF IInv, TypeOK
  <2> QED BY <1>1, <1>2, <2>1, LeavesKeeps DEF opVars, historyVars
<1>3. CASE ~Leaves
  <2>1. PICK f : f = [Top EXCEPT !.fn = "visit", !.op = First]
    OBVIOUS
  <2>2. Goes(f) /\ UNCHANGED <<processing, recheck>>
    BY <1>3, <2>1 DEF Processed
  <2>3. f \in Frame /\ f.fn = "visit" /\ f.op = First /\ f.by = Top.by
    BY <1>1, <2>1, OuterFacts, FirstFacts DEF Frame, FunctionsUnderWay, IInv
  <2>4. /\ stack' \in Seq(Frame) /\ stack' # <<>> /\ stack'[1] = f /\ Len(stack') = 1
        /\ StackInv' /\ (OuterInv(f)' => BottomInv')
    BY <1>1, <2>2, <2>3, OuterMoves DEF Moves, opVars, Nested
  <2>5. f.op # NoOp => FreeUpTo(f.op)'
    BY <1>1, <2>3, FirstFacts DEF FreeUpTo, InOrder, opVars, IInv
  <2>6. BottomInv'
    BY <2>3, <2>4, <2>5 DEF OuterInv, VisitInv, CheckInv, FinalizeInv, AbortAllInv, AbortNextInv
  <2>7. TypeOK' /\ ~broken' /\ PlaceInv' /\ CallInv'
    BY <1>1, <2>2, <2>4, SameTypes DEF IInv, TypeOK
  <2>8. ReportInv'
    BY <1>1, OuterFacts, SameReports
  <2>9. ProcessInv'
    BY <1>1, <2>2, <2>3, <2>4, SameProcess DEF Processing
  <2> QED BY <2>4, <2>6, <2>7, <2>8, <2>9 DEF IInv
<1> QED BY <1>2, <1>3

\* The iterator at o goes on to what is behind it.
LEMMA NextFacts ==
  ASSUME IInv, NEW o, NEW k \in DOMAIN queue, queue[k] = o
  PROVE  /\ NextAfter(queue, o) \in Ops \cup {NoOp} /\ o \in Ops /\ Contains(queue, o)
         /\ NextAfter(queue, o) = NoOp => k = Len(queue)
         /\ NextAfter(queue, o) # NoOp => k + 1 \in DOMAIN queue /\ queue[k + 1] = NextAfter(queue, o)
         /\ DOMAIN queue = 1..Len(queue) /\ Len(queue) \in Nat
<1>1. /\ queue \in Seq(Ops) /\ DOMAIN queue = 1..Len(queue) /\ Len(queue) \in Nat
      /\ Distinct(queue)
  BY DEF IInv, TypeOK, PlaceInv
<1>2. NextAfter(queue, o) = IF k = Len(queue) THEN NoOp ELSE queue[k + 1]
  BY <1>1, NextAfterFacts
<1>3. k # Len(queue) => k + 1 \in DOMAIN queue /\ queue[k + 1] \in Ops
  BY <1>1
<1>4. Contains(queue, o) /\ o \in Ops
  BY <1>1 DEF Contains
<1> QED BY <1>1, <1>2, <1>3, <1>4, QueueConstants

LEMMA FreeNext ==
  ASSUME IInv, NEW o, FreeUpTo(o), ~InOrder(o)
  PROVE  /\ NextAfter(queue, o) \in Ops \cup {NoOp}
         /\ NextAfter(queue, o) # NoOp => FreeUpTo(NextAfter(queue, o))
         /\ NextAfter(queue, o) = NoOp => \A j \in DOMAIN queue : ~InOrder(queue[j])
<1>1. PICK k \in DOMAIN queue : queue[k] = o /\ \A j \in 1..(k - 1) : ~InOrder(queue[j])
  BY DEF FreeUpTo
<1>2. DOMAIN queue = 1..Len(queue) /\ Len(queue) \in Nat
  BY <1>1, NextFacts
<1>3. \A j \in 1..k : ~InOrder(queue[j])
  <2>1. \A j \in 1..k : j = k \/ j \in 1..(k - 1)
    BY <1>2
  <2> QED BY <1>1, <2>1
<1>4. NextAfter(queue, o) # NoOp => FreeUpTo(NextAfter(queue, o))
  <2>1. NextAfter(queue, o) # NoOp => k + 1 \in DOMAIN queue /\ queue[k + 1] = NextAfter(queue, o)
    BY <1>1, NextFacts
  <2>2. (k + 1) - 1 = k
    BY <1>2
  <2> QED BY <1>3, <2>1, <2>2 DEF FreeUpTo
<1> QED BY <1>1, <1>2, <1>3, <1>4, NextFacts

LEMMA SilentNext ==
  ASSUME IInv, NEW o, SilentUpTo(o), o \notin callback
  PROVE  /\ NextAfter(queue, o) \in Ops \cup {NoOp}
         /\ NextAfter(queue, o) # NoOp => SilentUpTo(NextAfter(queue, o))
         /\ NextAfter(queue, o) = NoOp => \A j \in DOMAIN queue : queue[j] \notin callback
<1>1. PICK k \in DOMAIN queue : queue[k] = o /\ \A j \in 1..(k - 1) : queue[j] \notin callback
  BY DEF SilentUpTo
<1>2. DOMAIN queue = 1..Len(queue) /\ Len(queue) \in Nat
  BY <1>1, NextFacts
<1>3. \A j \in 1..k : queue[j] \notin callback
  <2>1. \A j \in 1..k : j = k \/ j \in 1..(k - 1)
    BY <1>2
  <2> QED BY <1>1, <2>1
<1>4. NextAfter(queue, o) # NoOp => SilentUpTo(NextAfter(queue, o))
  <2>1. NextAfter(queue, o) # NoOp => k + 1 \in DOMAIN queue /\ queue[k + 1] = NextAfter(queue, o)
    BY <1>1, NextFacts
  <2>2. (k + 1) - 1 = k
    BY <1>2
  <2> QED BY <1>3, <2>1, <2>2 DEF SilentUpTo
<1> QED BY <1>1, <1>2, <1>3, <1>4, NextFacts

\* A step that leaves the queue and the callbacks alone.
LEMMA MovesKeep ==
  ASSUME IInv, stack # <<>>, Top.fn \notin Nested, NEW f \in Frame, Moves(f), f.fn \notin Nested,
         f.by = Top.by, Top.fn \in Processing <=> f.fn \in Processing,
         UNCHANGED <<queue, processing, recheck, terminated, known, attr, aborted, callback,
                     chained, calls, silenced, broken>>,
         TypeOK', OuterInv(f)'
  PROVE  IInv'
<1>1. stack' # <<>> /\ stack'[1] = f /\ StackInv' /\ BottomInv'
  BY OuterMoves
<1>2. PlaceInv' /\ CallInv' /\ ~broken'
  BY DEF IInv, PlaceInv, CallInv
<1>3. ReportInv'
  BY OuterFacts DEF ReportInv, IsPending
<1>4. ProcessInv'
  BY <1>1, SameProcess
<1> QED BY <1>1, <1>2, <1>3, <1>4 DEF IInv

\* It stays in the same place when only the name of the function changes.
LEMMA GoonFacts ==
  ASSUME IInv, stack # <<>>, Top.fn \notin Nested, NEW fn \in FunctionsUnderWay
  PROVE  LET f == [Top EXCEPT !.fn = fn]
         IN  f \in Frame /\ f.fn = fn /\ f.op = Top.op /\ f.by = Top.by /\ f.next = Top.next
BY OuterFacts DEF Frame

LEMMA VisitInitiatesKeeps ==
  ASSUME IInv, NEW o \in Ops, VisitInitiates(o)
  PROVE  IInv'
<1>1. PICK f : f = [Top EXCEPT !.fn = "check"]
  OBVIOUS
<1>2. /\ stack # <<>> /\ Top.fn = "visit" /\ Top.op = o /\ Top.fn \notin Nested
      /\ UNCHANGED <<queue, processing, recheck, terminated, known, attr, aborted, callback,
                     chained, completed, calls, silenced, broken>>
      /\ delay' = [delay EXCEPT ![o] = 0] /\ wait' = [wait EXCEPT ![o] = None]
      /\ left' \in {[left EXCEPT ![o] = Timeout], [left EXCEPT ![o] = None]}
      /\ initiated' = initiated \cup {o} /\ sinceLast' = 0 /\ sinceInit' = 0
  BY DEF VisitInitiates, Visiting, Running, Nested, Initiated, CanInitiate
<1>3. f \in Frame /\ f.fn = "check" /\ f.op = o /\ f.by = Top.by
  BY <1>1, <1>2, GoonFacts DEF FunctionsUnderWay
<1>4. FreeUpTo(o) /\ o \in known
  <2>1. FreeUpTo(o)
    BY <1>2, OuterFacts, QueueConstants DEF OuterInv, VisitInv
  <2> QED BY <2>1 DEF FreeUpTo, IInv, PlaceInv
<1>5. Moves(f)
  <2>1. PICK g : g = [AppFrame("abort", o) EXCEPT !.err = TRUE]
    OBVIOUS
  <2>2. g \in Frame /\ g.fn = "abort" /\ g.op = o
    BY <2>1 DEF AppFrame, Frame, FunctionsUnderWay
  <2>3. Goes(f) \/ Calls(f, g)
    BY <1>1, <2>1 DEF VisitInitiates, Goon
  <2> QED BY <1>4, <2>2, <2>3 DEF Moves
<1>6. TypeOK'
  <2>1. stack' \in Seq(Frame)
    BY <1>2, <1>3, <1>5, OuterMoves DEF Nested
  <2>2. 0 \in None..MaxSince /\ Timeout \in None..Timeout /\ None \in None..Timeout
        /\ None \in None..Delay
    BY QueueConstants DEF None, MaxSince
  <2>3. left' \in [Ops -> None..Timeout]
    BY <1>2, <2>2 DEF IInv, TypeOK
  <2>4. delay' \in [Ops -> {0, Delay}] /\ wait' \in [Ops -> None..Delay]
    BY <1>2, <2>2 DEF IInv, TypeOK
  <2> QED BY <1>2, <2>1, <2>2, <2>3, <2>4 DEF IInv, TypeOK
<1>7. OuterInv(f)'
  <2>1. FreeUpTo(o)' /\ o \in initiated'
    BY <1>2, <1>4 DEF FreeUpTo, InOrder
  <2> QED BY <1>3, <2>1 DEF OuterInv, VisitInv, CheckInv, FinalizeInv, AbortAllInv, AbortNextInv
<1> QED BY <1>2, <1>3, <1>5, <1>6, <1>7, MovesKeep DEF Processing, Nested

LEMMA WaitType ==
  ASSUME TypeOK, NEW o \in Ops
  PROVE  Wait(o) \in None..Delay
<1>1. delay[o] \in {0, Delay} /\ wait[o] \in None..Delay /\ sinceLast \in None..MaxSince
  BY DEF TypeOK
<1> QED BY <1>1, QueueConstants DEF Wait, None, MaxSince

LEMMA VisitDelayedKeeps ==
  ASSUME IInv, NEW o \in Ops, VisitDelayed(o)
  PROVE  IInv'
<1>1. PICK f : f = [Top EXCEPT !.fn = "check"]
  OBVIOUS
<1>2. /\ stack # <<>> /\ Top.fn = "visit" /\ Top.op = o /\ Top.fn \notin Nested
      /\ UNCHANGED <<queue, sinceLast, terminated, known, attr, initiated, aborted, callback,
                     chained, left, completed, historyVars, broken>>
      /\ delay' = [delay EXCEPT ![o] = 0] /\ wait' = [wait EXCEPT ![o] = Wait(o)]
      /\ IF InOrder(o) THEN Leaves ELSE Goes(f) /\ UNCHANGED <<processing, recheck>>
  BY <1>1 DEF VisitDelayed, Visiting, Running, Nested, Goon, InOrder
<1>3. f \in Frame /\ f.fn = "check" /\ f.op = o /\ f.by = Top.by
  BY <1>1, <1>2, GoonFacts DEF FunctionsUnderWay
<1>4. delay' \in [Ops -> {0, Delay}] /\ wait' \in [Ops -> None..Delay]
  BY <1>2, WaitType DEF IInv, TypeOK
<1>5. stack' \in Seq(Frame) /\ processing' \in BOOLEAN /\ recheck' \in BOOLEAN => TypeOK'
  BY <1>2, <1>4 DEF IInv, TypeOK, historyVars
<1>6. CASE InOrder(o)
  <2>1. TypeOK'
    BY <1>2, <1>5, <1>6, LeavesTypes DEF Processing
  <2> QED BY <1>2, <1>6, <2>1, LeavesKeeps DEF historyVars, Processing
<1>7. CASE ~InOrder(o)
  <2>1. Moves(f) /\ UNCHANGED <<processing, recheck>>
    BY <1>2, <1>7 DEF Moves
  <2>2. TypeOK'
    BY <1>2, <1>3, <1>5, <2>1, OuterMoves DEF IInv, TypeOK, Nested
  <2>3. OuterInv(f)'
    <3>1. FreeUpTo(o)
      BY <1>2, OuterFacts, QueueConstants DEF OuterInv, VisitInv
    <3>2. FreeUpTo(o)' /\ ~InOrder(o)'
      BY <1>2, <1>7, <3>1 DEF FreeUpTo, InOrder
    <3> QED BY <1>3, <3>2 DEF OuterInv, VisitInv, CheckInv, FinalizeInv, AbortAllInv, AbortNextInv
  <2> QED BY <1>2, <1>3, <2>1, <2>2, <2>3, MovesKeep DEF Processing, Nested, historyVars
<1> QED BY <1>6, <1>7

LEMMA VisitInitiatedKeeps ==
  ASSUME IInv, NEW o \in Ops, VisitInitiated(o)
  PROVE  IInv'
<1>1. PICK f : f = [Top EXCEPT !.fn = "check"]
  OBVIOUS
<1>2. /\ stack # <<>> /\ Top.fn = "visit" /\ Top.op = o /\ Top.fn \notin Nested
      /\ UNCHANGED <<queueVars, opVars, historyVars, broken>> /\ Moves(f) /\ o \in initiated
  BY <1>1 DEF VisitInitiated, Visiting, Running, Nested, Goon, Moves
<1>3. f \in Frame /\ f.fn = "check" /\ f.op = o /\ f.by = Top.by
  BY <1>1, <1>2, GoonFacts DEF FunctionsUnderWay
<1>4. TypeOK'
  BY <1>2, <1>3, OuterMoves, SameTypes DEF IInv, TypeOK, Nested, queueVars, opVars
<1>5. OuterInv(f)'
  <2>1. FreeUpTo(o)
    BY <1>2, OuterFacts, QueueConstants DEF OuterInv, VisitInv
  <2>2. FreeUpTo(o)' /\ o \in initiated'
    BY <1>2, <2>1 DEF FreeUpTo, InOrder, queueVars, opVars
  <2> QED BY <1>3, <2>2 DEF OuterInv, VisitInv, CheckInv, FinalizeInv, AbortAllInv, AbortNextInv
<1> QED BY <1>2, <1>3, <1>4, <1>5, MovesKeep DEF Processing, Nested, queueVars, opVars, historyVars

LEMMA CheckPendingKeeps ==
  ASSUME IInv, NEW o \in Ops, CheckPending(o)
  PROVE  IInv'
<1>1. PICK f : f = [Top EXCEPT !.fn = "visit", !.op = NextAfter(queue, o)]
  OBVIOUS
<1>2. /\ stack # <<>> /\ Top.fn = "check" /\ Top.op = o /\ Top.fn \notin Nested
      /\ UNCHANGED <<queue, sinceLast, terminated, opVars, historyVars, broken>>
      /\ IF o \in initiated /\ InOrder(o) THEN Leaves
         ELSE Goes(f) /\ UNCHANGED <<processing, recheck>>
  BY <1>1 DEF CheckPending, Checking, Running, Nested, InOrder
<1>3. CASE o \in initiated /\ InOrder(o)
  <2>1. Leaves /\ Top.fn \in Processing
    BY <1>2, <1>3 DEF Processing
  <2>2. TypeOK'
    BY <1>2, <2>1, LeavesTypes, SameTypes DEF IInv, TypeOK
  <2> QED BY <1>2, <2>1, <2>2, LeavesKeeps DEF opVars, historyVars
<1>4. CASE ~(o \in initiated /\ InOrder(o))
  <2>1. FreeUpTo(o) /\ ~InOrder(o)
    BY <1>2, <1>4, OuterFacts DEF OuterInv, CheckInv
  <2>2. /\ NextAfter(queue, o) \in Ops \cup {NoOp}
        /\ NextAfter(queue, o) # NoOp => FreeUpTo(NextAfter(queue, o))
    BY <2>1, FreeNext
  <2>3. f \in Frame /\ f.fn = "visit" /\ f.op = NextAfter(queue, o) /\ f.by = Top.by
    BY <1>1, <1>2, <2>2, OuterFacts DEF Frame, FunctionsUnderWay
  <2>4. Moves(f) /\ Goes(f) /\ UNCHANGED <<processing, recheck>>
    BY <1>2, <1>4 DEF Moves
  <2>5. stack' \in Seq(Frame) /\ Len(stack') = 1
    BY <1>2, <2>3, <2>4, OuterMoves DEF Nested, opVars
  <2>6. TypeOK'
    BY <1>2, <2>4, <2>5, SameTypes DEF IInv, TypeOK
  <2>7. OuterInv(f)'
    <3>1. f.op # NoOp => FreeUpTo(f.op)'
      BY <1>2, <2>2, <2>3 DEF FreeUpTo, InOrder, opVars
    <3> QED BY <2>3, <2>5, <3>1 DEF OuterInv, VisitInv, CheckInv, FinalizeInv, AbortAllInv,
            AbortNextInv
  <2> QED BY <1>2, <2>3, <2>4, <2>6, <2>7, MovesKeep DEF Processing, Nested, opVars, historyVars
<1> QED BY <1>3, <1>4

LEMMA FinalizedAloneKeeps ==
  ASSUME IInv, NEW o \in Ops, FinalizedAlone(o)
  PROVE  IInv'
<1>1. PICK f : f = [Top EXCEPT !.fn = "end"]
  OBVIOUS
<1>2. /\ stack # <<>> /\ Top.fn = "finalize" /\ Top.fn \notin Nested
      /\ UNCHANGED <<queueVars, opVars, historyVars, broken>> /\ Moves(f)
  BY <1>1 DEF FinalizedAlone, Running, Nested, Goon, Moves
<1>3. f \in Frame /\ f.fn = "end" /\ f.by = Top.by
  BY <1>1, <1>2, GoonFacts DEF FunctionsUnderWay
<1>4. TypeOK'
  BY <1>2, <1>3, OuterMoves, SameTypes DEF IInv, TypeOK, Nested, queueVars, opVars
<1>5. OuterInv(f)'
  BY <1>3 DEF OuterInv, VisitInv, CheckInv, FinalizeInv, AbortAllInv, AbortNextInv
<1> QED BY <1>2, <1>3, <1>4, <1>5, MovesKeep DEF Processing, Nested, queueVars, opVars, historyVars

LEMMA AbortNextKeeps ==
  ASSUME IInv, AbortNext
  PROVE  IInv'
<1>1. PICK f, g : f = [Top EXCEPT !.fn = "abortNext"] /\ g = [Top EXCEPT !.fn = "abort"]
  OBVIOUS
<1>2. /\ stack # <<>> /\ Top.fn = "abortAll" /\ Top.op # NoOp /\ Top.fn \notin Nested
      /\ UNCHANGED <<queueVars, opVars, historyVars, broken>> /\ Calls(f, g)
  BY <1>1 DEF AbortNext, Running, Nested
<1>3. /\ f \in Frame /\ f.fn = "abortNext" /\ f.op = Top.op /\ f.by = Top.by
      /\ g \in Frame /\ g.fn = "abort" /\ g.op = Top.op
  BY <1>1, <1>2, GoonFacts DEF FunctionsUnderWay
<1>4. SilentUpTo(f.op) /\ f.op \in known
  <2>1. SilentUpTo(f.op)
    BY <1>2, <1>3, OuterFacts DEF OuterInv, AbortAllInv
  <2> QED BY <2>1 DEF SilentUpTo, IInv, PlaceInv
<1>5. Moves(f)
  BY <1>2, <1>3, <1>4 DEF Moves
<1>6. stack' \in Seq(Frame) /\ stack' # <<>> /\ Len(stack') = 2 /\ Top' = g
  BY <1>2, <1>3, <1>5, OuterMoves DEF Nested, opVars
<1>7. TypeOK'
  BY <1>2, <1>6, SameTypes DEF IInv, TypeOK, queueVars
<1>8. OuterInv(f)'
  <2>1. SilentUpTo(f.op)'
    BY <1>2, <1>4 DEF SilentUpTo, queueVars, opVars
  <2>2. Aborting(f.op)'
    BY <1>3, <1>6 DEF Aborting
  <2> QED BY <1>3, <1>6, <2>1, <2>2 DEF OuterInv, VisitInv, CheckInv, FinalizeInv, AbortAllInv,
          AbortNextInv
<1> QED BY <1>2, <1>3, <1>5, <1>7, <1>8, MovesKeep
        DEF Processing, Nested, queueVars, opVars, historyVars

LEMMA AbortedNextKeeps ==
  ASSUME IInv, AbortedNext
  PROVE  IInv'
<1>1. PICK o, f : /\ o = Top.op
                  /\ f = [Top EXCEPT !.fn = "abortAll", !.op = NextAfter(queue, Top.op)]
  OBVIOUS
<1>2. stack # <<>> /\ Top.fn = "abortNext" /\ Top.fn \notin Nested
  BY DEF AbortedNext, Running, Nested
<1>3. SilentUpTo(o) /\ o \notin callback
  BY <1>1, <1>2, OuterFacts DEF OuterInv, AbortNextInv
<1>4. /\ NextAfter(queue, o) \in Ops \cup {NoOp} /\ Valid(o)
      /\ NextAfter(queue, o) # NoOp => SilentUpTo(NextAfter(queue, o))
      /\ NextAfter(queue, o) = NoOp => \A j \in DOMAIN queue : queue[j] \notin callback
  <2>1. Contains(queue, o)
    BY <1>3, NextFacts DEF SilentUpTo
  <2> QED BY <1>3, <2>1, SilentNext DEF Valid
<1>5. Goes(f) /\ UNCHANGED <<queueVars, opVars, historyVars, broken>>
  BY <1>1, <1>4 DEF AbortedNext
<1>6. f \in Frame /\ f.fn = "abortAll" /\ f.op = NextAfter(queue, o) /\ f.by = Top.by
  BY <1>1, <1>2, <1>4, OuterFacts DEF Frame, FunctionsUnderWay
<1>7. Moves(f)
  BY <1>5 DEF Moves
<1>8. stack' \in Seq(Frame) /\ Len(stack') = 1
  BY <1>2, <1>5, <1>6, <1>7, OuterMoves DEF Nested, opVars
<1>9. TypeOK'
  BY <1>5, <1>8, SameTypes DEF IInv, TypeOK, queueVars
<1>10. OuterInv(f)'
  <2>1. /\ f.op # NoOp => SilentUpTo(f.op)'
        /\ f.op = NoOp => \A j \in DOMAIN queue' : queue'[j] \notin callback'
    BY <1>4, <1>5, <1>6 DEF SilentUpTo, queueVars, opVars
  <2> QED BY <1>6, <1>8, <2>1 DEF OuterInv, VisitInv, CheckInv, FinalizeInv, AbortAllInv,
          AbortNextInv
<1> QED BY <1>2, <1>5, <1>6, <1>7, <1>9, <1>10, MovesKeep
        DEF Processing, Nested, queueVars, opVars, historyVars

LEMMA AllAbortedKeeps ==
  ASSUME IInv, AllAborted
  PROVE  IInv'
<1>1. /\ stack # <<>> /\ Top.fn = "abortAll" /\ Top.op = NoOp /\ Top.fn \notin Nested
      /\ queue' = <<>> /\ Returns
      /\ UNCHANGED <<processing, recheck, sinceLast, terminated, opVars, historyVars, broken>>
  BY DEF AllAborted, Running, Nested
<1>2. stack' = <<>> /\ stack' \in Seq(Frame) /\ queue' \in Seq(Ops) /\ DOMAIN queue' = {}
  BY <1>1, OuterFacts, ReturnsFacts, EmptySeq
<1>3. TypeOK' /\ ~broken'
  BY <1>1, <1>2 DEF IInv, TypeOK, opVars, historyVars
<1>4. PlaceInv' /\ CallInv'
  BY <1>1, <1>2 DEF IInv, PlaceInv, CallInv, Distinct, Contains, opVars, historyVars
<1>5. ReportInv'
  <2> SUFFICES ASSUME NEW p \in callback PROVE \E q \in Ops : chained[q] = p
    BY <1>1 DEF ReportInv, IsPending, opVars
  <2>1. IsPending(p)
    BY <1>1, OuterFacts
  <2>2. ~Contains(queue, p)
    BY <1>1, OuterFacts DEF OuterInv, AbortAllInv, Contains
  <2> QED BY <2>1, <2>2 DEF IsPending
<1>6. ProcessInv'
  BY <1>1, <1>2, OuterFacts DEF ProcessInv, Processing
<1> QED BY <1>2, <1>3, <1>4, <1>5, <1>6 DEF IInv, StackInv, BottomInv

\* An operation that is removed has its callback given up, or is to be aborted.
LEMMA RemovalKeeps ==
  ASSUME IInv, NEW o \in Ops, NEW k \in DOMAIN queue, queue[k] = o, queue' = RemoveFirst(queue, o),
         UNCHANGED <<known, chained>>
  PROVE  /\ queue' \in Seq(Ops) /\ PlaceInv'
         /\ \A p : IsPending(p) /\ p # o => IsPending(p)'
         /\ DOMAIN queue' = 1..(Len(queue) - 1) /\ DOMAIN queue = 1..Len(queue) /\ Len(queue) \in Nat
         /\ \A i \in DOMAIN queue' : queue'[i] = IF i < k THEN queue[i] ELSE queue[i + 1]
<1>1. queue \in Seq(Ops) /\ Distinct(queue) /\ DOMAIN queue = 1..Len(queue) /\ Len(queue) \in Nat
  BY DEF IInv, TypeOK, PlaceInv
<1>2. /\ queue' \in Seq(Ops) /\ DOMAIN queue' = 1..(Len(queue) - 1)
      /\ \A i \in DOMAIN queue' : queue'[i] = IF i < k THEN queue[i] ELSE queue[i + 1]
      /\ Distinct(queue')
      /\ \A p : Contains(queue', p) <=> Contains(queue, p) /\ p # o
  BY <1>1, RemoveFacts
<1>3. PlaceInv'
  <2>1. \A i \in DOMAIN queue' : queue'[i] \in known'
    <3>1. \A i \in DOMAIN queue' : i \in DOMAIN queue /\ i + 1 \in DOMAIN queue
      BY <1>1, <1>2
    <3> QED BY <1>2, <3>1 DEF IInv, PlaceInv
  <2> QED BY <1>2, <2>1 DEF IInv, PlaceInv
<1>4. \A p : IsPending(p) /\ p # o => IsPending(p)'
  BY <1>2 DEF IsPending
<1> QED BY <1>1, <1>2, <1>3, <1>4

LEMMA VisitTimedOutKeeps ==
  ASSUME IInv, NEW o \in Ops, VisitTimedOut(o)
  PROVE  IInv'
<1>1. PICK f, g : f = [Top EXCEPT !.fn = "end"] /\ g = [AppFrame("abort", o) EXCEPT !.err = TRUE]
  OBVIOUS
<1>2. /\ stack # <<>> /\ Top.fn = "visit" /\ Top.op = o /\ Top.fn \notin Nested
      /\ queue' = RemoveFirst(queue, o) /\ Calls(f, g)
      /\ UNCHANGED <<processing, recheck, sinceLast, terminated, opVars, historyVars, broken>>
  BY <1>1 DEF VisitTimedOut, Visiting, Running, Nested
<1>3. f \in Frame /\ f.fn = "end" /\ f.by = Top.by /\ g \in Frame /\ g.fn = "abort" /\ g.op = o
  <2>1. f \in Frame /\ f.fn = "end" /\ f.by = Top.by
    BY <1>1, <1>2, GoonFacts DEF FunctionsUnderWay
  <2> QED BY <1>1, <2>1 DEF AppFrame, Frame, FunctionsUnderWay
<1>4. PICK k \in DOMAIN queue : queue[k] = o
  BY <1>2, OuterFacts, QueueConstants DEF OuterInv, VisitInv, FreeUpTo
<1>5. queue' \in Seq(Ops) /\ PlaceInv' /\ \A p : IsPending(p) /\ p # o => IsPending(p)'
  BY <1>2, <1>4, RemovalKeeps DEF opVars
<1>6. Moves(f)
  BY <1>2, <1>3, <1>4 DEF Moves, IInv, PlaceInv
<1>7. /\ stack' \in Seq(Frame) /\ stack' # <<>> /\ stack'[1] = f /\ Top' = g
      /\ StackInv' /\ (OuterInv(f)' => BottomInv')
  BY <1>2, <1>3, <1>6, OuterMoves DEF Nested, opVars
<1>8. TypeOK' /\ ~broken'
  BY <1>2, <1>5, <1>7 DEF IInv, TypeOK, opVars, historyVars
<1>9. CallInv'
  BY <1>2 DEF IInv, CallInv, opVars, historyVars
<1>10. ReportInv'
  <2>1. Aborting(o)'
    BY <1>3, <1>7 DEF Aborting
  <2>2. callback' = callback /\ \A p \in callback : IsPending(p)
    BY <1>2, OuterFacts DEF opVars
  <2> QED BY <1>5, <2>1, <2>2 DEF ReportInv
<1>11. BottomInv'
  BY <1>3, <1>7 DEF OuterInv, VisitInv, CheckInv, FinalizeInv, AbortAllInv, AbortNextInv
<1>12. ProcessInv'
  BY <1>2, <1>3, <1>7, SameProcess DEF Processing
<1> QED BY <1>5, <1>7, <1>8, <1>9, <1>10, <1>11, <1>12 DEF IInv

LEMMA CheckAbortedKeeps ==
  ASSUME IInv, NEW o \in Ops, CheckAborted(o)
  PROVE  IInv'
<1>1. PICK f : f = [Top EXCEPT !.fn = "end"]
  OBVIOUS
<1>2. /\ stack # <<>> /\ Top.fn = "check" /\ Top.op = o /\ Top.fn \notin Nested /\ o \in aborted
      /\ UNCHANGED <<processing, recheck, sinceLast, terminated, opVars, historyVars>>
  BY DEF CheckAborted, Checking, Running, Nested
<1>3. f \in Frame /\ f.fn = "end" /\ f.by = Top.by
  BY <1>1, <1>2, GoonFacts DEF FunctionsUnderWay
<1>4. PICK k \in DOMAIN queue : queue[k] = o
  BY <1>2, OuterFacts DEF OuterInv, CheckInv, FreeUpTo
<1>5. queue' = RemoveFirst(queue, o) /\ Goes(f) /\ broken' = broken
  <2>1. Valid(o)
    BY <1>4, NextFacts DEF Valid
  <2> QED BY <1>1, <2>1 DEF CheckAborted, Goon
<1>6. queue' \in Seq(Ops) /\ PlaceInv' /\ \A p : IsPending(p) /\ p # o => IsPending(p)'
  BY <1>2, <1>4, <1>5, RemovalKeeps DEF opVars
<1>7. /\ stack' \in Seq(Frame) /\ stack' # <<>> /\ stack'[1] = f
      /\ StackInv' /\ (OuterInv(f)' => BottomInv')
  BY <1>2, <1>3, <1>5, OuterMoves DEF Nested, opVars, Moves
<1>8. TypeOK' /\ ~broken'
  BY <1>2, <1>5, <1>6, <1>7 DEF IInv, TypeOK, opVars, historyVars
<1>9. CallInv'
  BY <1>2 DEF IInv, CallInv, opVars, historyVars
<1>10. ReportInv'
  <2>1. o \notin callback
    BY <1>2 DEF IInv, CallInv
  <2>2. callback' = callback /\ \A p \in callback : IsPending(p)
    BY <1>2, OuterFacts DEF opVars
  <2> QED BY <1>6, <2>1, <2>2 DEF ReportInv
<1>11. BottomInv'
  BY <1>3, <1>7 DEF OuterInv, VisitInv, CheckInv, FinalizeInv, AbortAllInv, AbortNextInv
<1>12. ProcessInv'
  BY <1>2, <1>3, <1>7, SameProcess DEF Processing
<1> QED BY <1>6, <1>7, <1>8, <1>9, <1>10, <1>11, <1>12 DEF IInv

LEMMA CheckCompletedKeeps ==
  ASSUME IInv, NEW o \in Ops, CheckCompleted(o)
  PROVE  IInv'
<1>1. PICK f, g, next, reports :
        /\ next = NextAfter(queue, o)
        /\ f = [Top EXCEPT !.fn = "finalize", !.next = next] /\ g = AppFrame("callback", o)
        /\ reports = (o \in callback /\ chained[o] = NoOp)
  OBVIOUS
<1>2. /\ stack # <<>> /\ Top.fn = "check" /\ Top.op = o /\ Top.fn \notin Nested /\ o \notin aborted
      /\ queue' = RemoveFirst(queue, o)
      /\ IF reports THEN Calls(f, g) /\ calls' = [calls EXCEPT ![o] = IF @ = 2 THEN 2 ELSE @ + 1]
         ELSE Goes(f) /\ calls' = calls
      /\ callback' = callback \ {o}
      /\ silenced' = IF chained[o] # NoOp THEN silenced \cup {o} ELSE silenced
      /\ UNCHANGED <<processing, recheck, sinceLast, terminated, known, attr, initiated, aborted,
                     chained, left, delay, wait, completed, sinceInit, broken>>
  BY <1>1 DEF CheckCompleted, Checking, Running, Nested, NoteCall
<1>3. PICK k \in DOMAIN queue : queue[k] = o /\ \A j \in 1..(k - 1) : ~InOrder(queue[j])
  BY <1>2, OuterFacts DEF OuterInv, CheckInv, FreeUpTo
<1>4. /\ next \in Ops \cup {NoOp} /\ (next = NoOp => k = Len(queue))
      /\ next # NoOp => k + 1 \in DOMAIN queue /\ queue[k + 1] = next
  BY <1>1, <1>3, NextFacts
<1>5. /\ f \in Frame /\ f.fn = "finalize" /\ f.by = Top.by /\ f.op = o /\ f.next = next
      /\ g \in Frame /\ g.fn = "callback"
  BY <1>1, <1>2, <1>4, OuterFacts DEF AppFrame, Frame, FunctionsUnderWay
<1>6. /\ queue' \in Seq(Ops) /\ PlaceInv' /\ \A p : IsPending(p) /\ p # o => IsPending(p)'
      /\ DOMAIN queue' = 1..(Len(queue) - 1) /\ DOMAIN queue = 1..Len(queue) /\ Len(queue) \in Nat
      /\ \A i \in DOMAIN queue' : queue'[i] = IF i < k THEN queue[i] ELSE queue[i + 1]
  BY <1>2, <1>3, RemovalKeeps
<1>7. Moves(f)
  BY <1>2, <1>5 DEF Moves
<1>8. /\ stack' \in Seq(Frame) /\ stack' # <<>> /\ stack'[1] = f
      /\ StackInv' /\ (OuterInv(f)' => BottomInv') /\ (~reports => Len(stack') = 1)
  BY <1>2, <1>5, <1>7, OuterMoves DEF Nested
<1>9. /\ calls' \in [Ops -> 0..2] /\ \A p \in Ops : p # o => calls'[p] = calls[p]
      /\ reports => calls'[o] = 1
  <2>1. CASE reports
    <3>1. calls[o] = 0 /\ calls \in [Ops -> 0..2]
      BY <1>1, <2>1 DEF IInv, CallInv, TypeOK
    <3>2. calls' = [calls EXCEPT ![o] = 1]
      BY <1>2, <2>1, <3>1
    <3>3. 1 \in 0..2
      OBVIOUS
    <3> QED BY <3>1, <3>2, <3>3
  <2>2. CASE ~reports
    BY <1>2, <2>2 DEF IInv, TypeOK
  <2> QED BY <2>1, <2>2
<1>10. TypeOK' /\ ~broken'
  <2>1. callback' \subseteq Ops /\ silenced' \subseteq Ops
    BY <1>2 DEF IInv, TypeOK
  <2> QED BY <1>2, <1>6, <1>8, <1>9, <2>1 DEF IInv, TypeOK
<1>11. CallInv'
  <2>1. o \in known
    BY <1>3 DEF IInv, PlaceInv
  <2>2. CallInv /\ known \subseteq Ops
    BY DEF IInv, TypeOK
  <2>3. \A p \in callback' : calls'[p] = 0 /\ p \notin aborted'
    BY <1>2, <1>9, <2>2 DEF CallInv
  <2>4. \A p \in Ops : calls'[p] <= 1
    BY <1>1, <1>2, <1>9, <2>2 DEF CallInv
  <2>5. \A p \in known : "callback" \in attr[p] =>
          p \in callback' \/ calls'[p] = 1 \/ p \in silenced'
    <3>1. CASE reports
      BY <1>2, <1>9, <2>2, <3>1 DEF CallInv
    <3>2. CASE ~reports
      BY <1>1, <1>2, <2>2, <3>2 DEF CallInv
    <3> QED BY <3>1, <3>2
  <2>6. callback' \subseteq known' /\ aborted' \subseteq known'
    BY <1>2, <2>2 DEF CallInv
  <2>7. \A p \in Ops \ known' : calls'[p] = 0 /\ chained'[p] = NoOp
    BY <1>2, <1>9, <2>1, <2>2 DEF CallInv
  <2> QED BY <1>2, <2>3, <2>4, <2>5, <2>6, <2>7 DEF CallInv
<1>12. ReportInv'
  <2>1. \A p \in callback : IsPending(p)
    BY <1>2, OuterFacts
  <2> QED BY <1>2, <1>6, <2>1 DEF ReportInv
<1>13. BottomInv'
  <2>1. chained'[o] # NoOp => Len(stack') = 1
    BY <1>1, <1>2, <1>8
  <2>2. \A j \in 1..(k - 1) : j \in DOMAIN queue' => "sequential" \notin attr'[queue'[j]]
    <3>1. \A j \in 1..(k - 1) : j < k
      BY <1>3, <1>6
    <3> QED BY <1>2, <1>3, <1>6, <3>1 DEF InOrder
  <2>3. next # NoOp => FreeUpTo(next)'
    <3>1. ASSUME next # NoOp PROVE k \in DOMAIN queue' /\ queue'[k] = next
      BY <1>3, <1>4, <1>6, <3>1
    <3>2. next # NoOp => \A j \in 1..(k - 1) : j \in DOMAIN queue'
      BY <1>3, <1>6, <3>1
    <3> QED BY <2>2, <3>1, <3>2 DEF FreeUpTo, InOrder
  <2>4. next = NoOp => \A j \in DOMAIN queue' : "sequential" \notin attr'[queue'[j]]
    BY <1>4, <1>6, <2>2
  <2> QED BY <1>5, <1>8, <2>1, <2>3, <2>4 DEF OuterInv, VisitInv, CheckInv, FinalizeInv,
          AbortAllInv, AbortNextInv, InOrder
<1>14. ProcessInv'
  BY <1>2, <1>5, <1>8, SameProcess DEF Processing
<1> QED BY <1>6, <1>8, <1>10, <1>11, <1>12, <1>13, <1>14 DEF IInv

\* The chained operation is inserted where no operation in sequence is before it.
LEMMA ChainedFacts ==
  ASSUME IInv, NEW o \in Ops, FinalizedChained(o)
  PROVE  \E k \in 1..(Len(queue) + 1) :
           LET c == chained[o] IN
           /\ c \in Ops /\ c \in known /\ ~Contains(queue, c) /\ Valid(Top.next)
           /\ queue' = InsertBefore(queue, c, Top.next) /\ queue' \in Seq(Ops)
           /\ DOMAIN queue' = 1..(Len(queue) + 1) /\ DOMAIN queue = 1..Len(queue)
           /\ Len(queue) \in Nat /\ Distinct(queue')
           /\ \A p : Contains(queue', p) <=> Contains(queue, p) \/ p = c
           /\ queue'[k] = c /\ \A j \in 1..(k - 1) : ~InOrder(queue'[j])
           /\ \A i \in DOMAIN queue' : queue'[i] \in known
<1>1. PICK c, next : c = chained[o] /\ next = Top.next
  OBVIOUS
<1>2. stack # <<>> /\ Top.fn = "finalize" /\ Top.op = o /\ Top.fn \notin Nested /\ c # NoOp
  BY <1>1 DEF FinalizedChained, Running, Nested
<1>3. c \in known /\ ~Contains(queue, c) /\ c \in Ops
  BY <1>1, <1>2 DEF IInv, PlaceInv, TypeOK
<1>4. /\ queue \in Seq(Ops) /\ DOMAIN queue = 1..Len(queue) /\ Len(queue) \in Nat
      /\ Distinct(queue) /\ next \in Ops \cup {NoOp}
  BY <1>1, <1>2, OuterFacts DEF IInv, TypeOK, PlaceInv, Frame
<1>5. /\ next # NoOp => FreeUpTo(next)
      /\ next = NoOp => \A j \in DOMAIN queue : ~InOrder(queue[j])
  BY <1>1, <1>2, OuterFacts DEF OuterInv, FinalizeInv
<1>6. PICK k \in 1..(Len(queue) + 1) :
        /\ IF k = Len(queue) + 1 THEN next = NoOp ELSE next = queue[k]
        /\ \A j \in 1..(k - 1) : j \in DOMAIN queue /\ ~InOrder(queue[j])
  <2>1. CASE next = NoOp
    <3>1. Len(queue) + 1 \in 1..(Len(queue) + 1) /\ (Len(queue) + 1) - 1 = Len(queue)
      BY <1>4
    <3> QED BY <1>4, <1>5, <2>1, <3>1
  <2>2. CASE next # NoOp
    <3>1. PICK k \in DOMAIN queue : queue[k] = next /\ \A j \in 1..(k - 1) : ~InOrder(queue[j])
      BY <1>5, <2>2 DEF FreeUpTo
    <3>2. k \in 1..(Len(queue) + 1) /\ k # Len(queue) + 1 /\ \A j \in 1..(k - 1) : j \in DOMAIN queue
      BY <1>4, <3>1
    <3> QED BY <3>1, <3>2
  <2> QED BY <2>1, <2>2
<1>7. Valid(next)
  <2>1. CASE k = Len(queue) + 1
    BY <1>6, <2>1 DEF Valid
  <2>2. CASE k # Len(queue) + 1
    BY <1>4, <1>6, <2>2 DEF Valid, Contains
  <2> QED BY <2>1, <2>2
<1>8. queue' = InsertBefore(queue, c, next)
  BY <1>1, <1>7 DEF FinalizedChained
<1>9. /\ queue' \in Seq(Ops) /\ DOMAIN queue' = 1..(Len(queue) + 1) /\ Distinct(queue')
      /\ queue'[k] = c
      /\ \A i \in DOMAIN queue' : i # k => queue'[i] = IF i < k THEN queue[i] ELSE queue[i - 1]
      /\ \A p : Contains(queue', p) <=> Contains(queue, p) \/ p = c
  BY <1>3, <1>4, <1>6, <1>8, InsertFacts
<1>10. \A j \in 1..(k - 1) : ~InOrder(queue'[j])
  <2>1. \A j \in 1..(k - 1) : j \in DOMAIN queue' /\ j # k /\ j < k
    BY <1>4, <1>9
  <2> QED BY <1>6, <1>9, <2>1
<1>11. \A i \in DOMAIN queue' : queue'[i] \in known
  <2>1. \A i \in DOMAIN queue' : i < k => i \in DOMAIN queue
    BY <1>4, <1>9
  <2>2. \A i \in DOMAIN queue' : ~(i < k) /\ i # k => i - 1 \in DOMAIN queue
    BY <1>4, <1>9
  <2> QED BY <1>3, <1>9, <2>1, <2>2 DEF IInv, PlaceInv
<1> QED BY <1>1, <1>3, <1>4, <1>7, <1>8, <1>9, <1>10, <1>11

LEMMA FinalizedChainedKeeps ==
  ASSUME IInv, NEW o \in Ops, FinalizedChained(o)
  PROVE  IInv'
<1>1. PICK c, f, g : /\ c = chained[o] /\ f = [Top EXCEPT !.fn = "end"]
                     /\ g = [AppFrame("abort", c) EXCEPT !.err = TRUE]
  OBVIOUS
<1>2. /\ c \in Ops /\ c \in known /\ c # NoOp /\ Valid(Top.next) /\ queue' \in Seq(Ops)
      /\ Distinct(queue') /\ \A p : Contains(queue', p) <=> Contains(queue, p) \/ p = c
      /\ \A i \in DOMAIN queue' : queue'[i] \in known
  BY <1>1, ChainedFacts, QueueConstants
<1>3. /\ stack # <<>> /\ Top.fn = "finalize" /\ Top.fn \notin Nested
      /\ chained' = [chained EXCEPT ![o] = NoOp]
      /\ initiated' = initiated \cup {c} /\ sinceInit' = 0
      /\ left' \in {[left EXCEPT ![c] = Timeout], [left EXCEPT ![c] = None]}
      /\ Goes(f) \/ Calls(f, g)
      /\ UNCHANGED <<processing, recheck, sinceLast, terminated, known, attr, aborted, callback,
                     delay, wait, completed, calls, silenced, broken>>
  BY <1>1, <1>2 DEF FinalizedChained, Running, Nested, Initiated, Goon
<1>4. f \in Frame /\ f.fn = "end" /\ f.by = Top.by /\ g \in Frame /\ g.fn = "abort" /\ g.op = c
  <2>1. f \in Frame /\ f.fn = "end" /\ f.by = Top.by
    BY <1>1, <1>3, GoonFacts DEF FunctionsUnderWay
  <2> QED BY <1>1, <1>2, <2>1 DEF AppFrame, Frame, FunctionsUnderWay
<1>5. Moves(f)
  BY <1>2, <1>3, <1>4 DEF Moves
<1>6. /\ stack' \in Seq(Frame) /\ stack' # <<>> /\ stack'[1] = f
      /\ StackInv' /\ (OuterInv(f)' => BottomInv')
  BY <1>3, <1>4, <1>5, OuterMoves DEF Nested
<1>7. TypeOK' /\ ~broken'
  <2>1. 0 \in None..MaxSince /\ Timeout \in None..Timeout /\ None \in None..Timeout
    BY QueueConstants DEF None, MaxSince
  <2>2. left' \in [Ops -> None..Timeout]
    <3>1. left \in [Ops -> None..Timeout]
      BY DEF IInv, TypeOK
    <3> QED BY <1>2, <1>3, <2>1, <3>1
  <2>3. chained' \in [Ops -> Ops \cup {NoOp}]
    BY <1>3 DEF IInv, TypeOK
  <2>4. initiated' \subseteq Ops
    BY <1>2, <1>3 DEF IInv, TypeOK
  <2> QED BY <1>2, <1>3, <1>6, <2>1, <2>2, <2>3, <2>4 DEF IInv, TypeOK
<1>8. \A p \in Ops : chained'[p] # NoOp => p # o /\ chained'[p] = chained[p]
  BY <1>3 DEF IInv, TypeOK
<1>9. PlaceInv'
  <2>1. \A p \in Ops : p # o => chained[p] # c
    BY <1>1, <1>2 DEF IInv, PlaceInv
  <2> QED BY <1>2, <1>3, <1>8, <2>1 DEF IInv, PlaceInv
<1>10. CallInv'
  BY <1>3 DEF IInv, CallInv, TypeOK
<1>11. ReportInv'
  <2> SUFFICES ASSUME NEW p \in callback PROVE IsPending(p)'
    BY <1>3 DEF ReportInv
  <2>1. IsPending(p)
    BY <1>3, OuterFacts
  <2>2. CASE Contains(queue, p)
    BY <1>2, <2>2 DEF IsPending
  <2>3. CASE \E q \in Ops : chained[q] = p
    <3>1. PICK q \in Ops : chained[q] = p
      BY <2>3
    <3>2. CASE q = o
      BY <1>1, <1>2, <3>1, <3>2 DEF IsPending
    <3>3. CASE q # o
      BY <1>3, <3>1, <3>3 DEF IsPending, IInv, TypeOK
    <3> QED BY <3>2, <3>3
  <2> QED BY <2>1, <2>2, <2>3 DEF IsPending
<1>12. BottomInv'
  BY <1>4, <1>6 DEF OuterInv, VisitInv, CheckInv, FinalizeInv, AbortAllInv, AbortNextInv
<1>13. ProcessInv'
  BY <1>3, <1>4, <1>6, SameProcess DEF Processing
<1> QED BY <1>6, <1>7, <1>9, <1>10, <1>11, <1>12, <1>13 DEF IInv

-----------------------------------------------------------------------------
(* The theorems *)

LEMMA InitHolds == Init => IInv
<1> SUFFICES ASSUME Init PROVE IInv
  OBVIOUS
<1>1. TypeOK /\ ~broken
  <2>1. queue \in Seq(Ops) /\ stack \in Seq(Frame)
    BY EmptySeq DEF Init
  <2>2. /\ None \in None..MaxSince /\ None \in None..Timeout /\ None \in None..Delay
        /\ 0 \in 0..2
    BY QueueConstants DEF None, MaxSince
  <2>3. /\ left \in [Ops -> None..Timeout] /\ delay \in [Ops -> {0, Delay}]
        /\ wait \in [Ops -> None..Delay] /\ calls \in [Ops -> 0..2]
    BY <2>2 DEF Init
  <2>4. /\ attr \in [Ops -> SUBSET {"sequential", "timeout", "delay", "fromLast", "callback"}]
        /\ chained \in [Ops -> Ops \cup {NoOp}]
    BY DEF Init
  <2> QED BY <2>1, <2>2, <2>3, <2>4 DEF Init, TypeOK
<1>2. DOMAIN queue = {}
  BY EmptySeq DEF Init
<1>3. PlaceInv
  BY <1>2 DEF Init, PlaceInv, Distinct
<1>4. CallInv /\ ReportInv /\ StackInv /\ BottomInv /\ ProcessInv
  BY EmptySeq DEF Init, CallInv, ReportInv, StackInv, BottomInv, ProcessInv
<1> QED BY <1>1, <1>3, <1>4 DEF IInv

LEMMA NextKeeps ==
  ASSUME IInv, CarefulCallbacks, [Next]_vars
  PROVE  IInv'
<1>1. CASE QueueStep
  BY <1>1, ProcessingBeginsKeeps, NothingLeftKeeps, ProcessedKeeps, AbortBeginsKeeps,
     AbortContinuesKeeps, CallbackReturnsKeeps, AbortNextKeeps, AbortedNextKeeps, AllAbortedKeeps,
     VisitTimedOutKeeps, VisitInitiatesKeeps, VisitDelayedKeeps, VisitInitiatedKeeps,
     CheckAbortedKeeps, CheckCompletedKeeps, CheckPendingKeeps, FinalizedAloneKeeps,
     FinalizedChainedKeeps DEF QueueStep
<1>2. CASE AppStep
  BY <1>2, ProcessingBeginsKeeps, AbortOperationsKeeps, AbortOperationKeeps, QueueOperationKeeps,
     ChainOperationKeeps DEF AppStep
<1>3. CASE Tick \/ \E o \in Ops : Completes(o)
  BY <1>3, IdleKeeps
<1>4. CASE UNCHANGED vars
  <2> USE <1>4 DEF vars, queueVars, opVars, historyVars, IInv
  <2>1. TypeOK' /\ ~broken'
    BY DEF TypeOK
  <2>2. PlaceInv' /\ CallInv' /\ ProcessInv'
    BY DEF PlaceInv, CallInv, ProcessInv
  <2>3. ReportInv'
    BY DEF ReportInv, IsPending, Aborting, Top
  <2>4. StackInv'
    BY DEF StackInv
  <2>5. BottomInv'
    BY DEF BottomInv, VisitInv, CheckInv, FinalizeInv, AbortAllInv, AbortNextInv, FreeUpTo,
       SilentUpTo, InOrder, Aborting, Top
  <2> QED BY <2>1, <2>2, <2>3, <2>4, <2>5
<1> QED BY <1>1, <1>2, <1>3, <1>4 DEF Next

\* With callbacks that queue and abort operations only, the invariant holds always.
THEOREM Invariant == CarefulCallbacks => (Spec => []IInv)
<1> SUFFICES ASSUME CarefulCallbacks PROVE Spec => []IInv
  OBVIOUS
<1>1. IInv /\ [Next]_vars => IInv'
  BY NextKeeps
<1> QED BY <1>1, InitHolds, PTL DEF Spec

\* With callbacks that queue and abort operations only, no function goes on
\* from an element of the list that is not there any more.
THEOREM IteratorsStayValid == CarefulCallbacks => (Spec => []NoDanglingIterator)
<1> SUFFICES ASSUME CarefulCallbacks PROVE Spec => []NoDanglingIterator
  OBVIOUS
<1>1. IInv => NoDanglingIterator
  BY DEF IInv, NoDanglingIterator
<1> QED BY <1>1, Invariant, PTL

\* Under the same condition every operation that has left the queue has
\* reported back exactly once, unless it was aborted silently or replaced.
THEOREM EveryoneReports == CarefulCallbacks => (Spec => []CompletionReported)
<1> SUFFICES ASSUME CarefulCallbacks PROVE Spec => []CompletionReported
  OBVIOUS
<1>1. ASSUME IInv PROVE CompletionReported
  <2>1. CallbackOnce
    BY <1>1 DEF IInv, CallInv, CallbackOnce
  <2>2. ASSUME stack = <<>>, NEW o \in known, "callback" \in attr[o], ~IsPending(o), o \notin silenced
        PROVE  calls[o] = 1
    BY <1>1, <2>2 DEF IInv, CallInv, ReportInv, Aborting
  <2> QED BY <2>1, <2>2 DEF CompletionReported
<1> QED BY <1>1, Invariant, PTL

\* Under the same condition the recheck timer is always back, and the recursion
\* guard released, when the queue's functions have returned to the mainloop.
THEOREM TimerComesBack == CarefulCallbacks => (Spec => []QueueIsRechecked)
<1> SUFFICES ASSUME CarefulCallbacks PROVE Spec => []QueueIsRechecked
  OBVIOUS
<1>1. IInv => QueueIsRechecked
  BY DEF IInv, ProcessInv, QueueIsRechecked
<1> QED BY <1>1, Invariant, PTL

\* Only the operation that is visited, or one that is chained, is initiated.
LEMMA InitiatedFacts ==
  ASSUME IInv, CarefulCallbacks, [Next]_vars, NEW o \in NewlyInitiated
  PROVE  (VisitInitiates(o) /\ o \in Ops) \/ \E p \in Ops : FinalizedChained(p) /\ o = chained[p]
<1>1. o \in initiated' /\ o \notin initiated
  BY DEF NewlyInitiated
<1>2. CASE QueueStep
  <2>1. PICK p \in Ops : VisitInitiates(p) \/ FinalizedChained(p)
    BY <1>1, <1>2 DEF QueueStep, RecheckTimer, NothingLeft, Processed, AbortBegins, AbortContinues,
       CallbackReturns, AbortNext, AbortedNext, AllAborted, VisitTimedOut, VisitDelayed,
       VisitInitiated, CheckAborted, CheckCompleted, CheckPending, FinalizedAlone, opVars
  <2>2. CASE VisitInitiates(p)
    BY <1>1, <2>2 DEF VisitInitiates, Initiated
  <2>3. CASE FinalizedChained(p)
    BY <1>1, <2>3 DEF FinalizedChained, Initiated
  <2> QED BY <2>1, <2>2, <2>3
<1>3. CASE AppStep
  BY <1>1, <1>3 DEF AppStep, ProcessOperations, Terminate, AbortOperations, AbortOperation,
     QueueOperation, ChainOperation, SetUp, opVars
<1>4. CASE Tick \/ (\E p \in Ops : Completes(p)) \/ UNCHANGED vars
  BY <1>1, <1>4 DEF Tick, Completes, vars, opVars
<1> QED BY <1>2, <1>3, <1>4 DEF Next

\* Under the same condition no operation is initiated behind one that is in
\* sequence, be it from the queue or chained to one that has completed.
THEOREM SequenceIsKept == CarefulCallbacks => (Spec => SequenceKept)
<1> SUFFICES ASSUME CarefulCallbacks PROVE Spec => SequenceKept
  OBVIOUS
<1> DEFINE Kept == \A o \in NewlyInitiated : \A i, j \in DOMAIN queue' :
                     (queue'[j] = o /\ i < j) => "sequential" \notin attr[queue'[i]]
<1>1. ASSUME IInv, [Next]_vars PROVE Kept
  <2> SUFFICES ASSUME NEW o \in NewlyInitiated, NEW i \in DOMAIN queue', NEW j \in DOMAIN queue',
                      queue'[j] = o, i < j
               PROVE  ~InOrder(queue'[i])
    BY DEF InOrder
  <2>1. CASE o \in Ops /\ VisitInitiates(o)
    <3>1. /\ stack # <<>> /\ Top.fn = "visit" /\ Top.op = o /\ Top.fn \notin Nested
          /\ queue' = queue
      BY <2>1 DEF VisitInitiates, Visiting, Running, Nested
    <3>2. FreeUpTo(o)
      BY <1>1, <2>1, <3>1, OuterFacts, QueueConstants DEF OuterInv, VisitInv
    <3>3. PICK k \in DOMAIN queue : queue[k] = o /\ \A n \in 1..(k - 1) : ~InOrder(queue[n])
      BY <3>2 DEF FreeUpTo
    <3>4. k = j /\ DOMAIN queue = 1..Len(queue) /\ Len(queue) \in Nat
      BY <1>1, <3>1, <3>3 DEF IInv, PlaceInv, Distinct, TypeOK
    <3>5. i \in 1..(k - 1)
      BY <3>1, <3>4
    <3> QED BY <3>1, <3>3, <3>5
  <2>2. CASE \E p \in Ops : FinalizedChained(p) /\ o = chained[p]
    <3>1. PICK p \in Ops : FinalizedChained(p) /\ o = chained[p]
      BY <2>2
    <3>2. PICK k \in 1..(Len(queue) + 1) :
            /\ DOMAIN queue' = 1..(Len(queue) + 1) /\ Len(queue) \in Nat /\ Distinct(queue')
            /\ queue'[k] = o /\ \A n \in 1..(k - 1) : ~InOrder(queue'[n])
      BY <1>1, <3>1, ChainedFacts
    <3>3. k = j
      BY <3>2 DEF Distinct
    <3>4. i \in 1..(k - 1)
      BY <3>2, <3>3
    <3> QED BY <3>2, <3>4
  <2> QED BY <1>1, <2>1, <2>2, InitiatedFacts
<1>2. IInv /\ [Next]_vars => [Kept]_vars
  BY <1>1
<1> HIDE DEF Kept
<1>3. Spec => [][Kept]_vars
  BY <1>2, Invariant, PTL DEF Spec
<1> QED BY <1>3 DEF Kept, SequenceKept
=============================================================================
