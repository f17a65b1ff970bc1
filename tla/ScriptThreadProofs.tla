------------------------- MODULE ScriptThreadProofs -------------------------
(***************************************************************************)
(* Proofs about the threads of p44script (ScriptThreads), for every number *)
(* of threads and steps.                                                   *)
(*                                                                         *)
(* The first part says what the list operations and the calls of abort()   *)
(* put on the stack, and what each action makes of the stack (...Effect).  *)
(* QueueInv then gives OneFromQueue.  The parts of the invariant IInv      *)
(* follow, with the lemmas that every step keeps those that are about the  *)
(* stack and the lists (...InvKeeps).  ScriptThreadStackProofs has the     *)
(* other parts and the theorems that rest on IInv.                         *)
(***************************************************************************)
EXTENDS ScriptThreads, ListLemmas, FiniteSetTheorems

\* The function that Select is defined with exists.
LEMMA SelectIsDefined ==
  ASSUME NEW T, NEW s \in Seq(T), NEW S
  PROVE  \E f : /\ f = [n \in 0..Len(s) |->
                         IF n = 0 THEN <<>>
                         ELSE IF s[n] \in S THEN Append(f[n - 1], s[n]) ELSE f[n - 1]]
                /\ Select(s, S) = f[Len(s)]
<1> DEFINE Up(k, f) == f = [n \in 0..k |->
                         IF n = 0 THEN <<>>
                         ELSE IF s[n] \in S THEN Append(f[n - 1], s[n]) ELSE f[n - 1]]
           Undefined == {k \in 0..Len(s) : ~ \E f : Up(k, f)}
<1>1. Len(s) \in Nat
  OBVIOUS
<1>2. \E f : Up(0, f)
  <2> DEFINE g == [n \in 0..0 |-> <<>>]
  <2>1. Up(0, g)
    OBVIOUS
  <2> QED BY <2>1
<1>3. ASSUME NEW k \in 1..Len(s), NEW f, Up(k - 1, f)
      PROVE  \E g : Up(k, g)
  <2> DEFINE g == [n \in 0..k |-> IF n = k THEN IF s[k] \in S THEN Append(f[k - 1], s[k]) ELSE f[k - 1]
                                  ELSE f[n]]
  <2>1. ASSUME NEW n \in 0..k
        PROVE  g[n] = IF n = 0 THEN <<>>
                      ELSE IF s[n] \in S THEN Append(g[n - 1], s[n]) ELSE g[n - 1]
    <3>1. CASE n = k
      <4>1. g[k - 1] = f[k - 1]
        OBVIOUS
      <4>2. g[k] = IF s[k] \in S THEN Append(f[k - 1], s[k]) ELSE f[k - 1]
        OBVIOUS
      <4> QED BY <3>1, <4>1, <4>2
    <3>2. CASE n # k
      <4>1. n \in 0..(k - 1) /\ g[n] = f[n]
        BY <3>2
      <4>2. f[n] = IF n = 0 THEN <<>>
                   ELSE IF s[n] \in S THEN Append(f[n - 1], s[n]) ELSE f[n - 1]
        BY <4>1, <1>3
      <4>3. n # 0 => n - 1 \in 0..k /\ n - 1 # k
        BY <4>1
      <4>4. n # 0 => g[n - 1] = f[n - 1]
        BY <4>3
      <4> QED BY <4>1, <4>2, <4>4
    <3> QED BY <3>1, <3>2
  <2>2. g = [n \in 0..k |-> g[n]]
    OBVIOUS
  <2> HIDE DEF g
  <2>3. Up(k, g)
    BY <2>1, <2>2
  <2> QED BY <2>3
<1>4. Undefined = {}
  <2> SUFFICES ASSUME Undefined # {} PROVE FALSE
    OBVIOUS
  <2> HIDE DEF Up
  <2>0. Undefined \in SUBSET Nat
    BY <1>1
  <2>1. PICK m \in Undefined : \A k \in Undefined : m <= k
    <3> HIDE DEF Undefined
    <3> QED BY <2>0, LeastNatural
  <2>2. m \in 1..Len(s)
    BY <1>2
  <2>3. m - 1 \in 0..Len(s) /\ m - 1 \notin Undefined
    BY <2>1, <2>2
  <2>4. \E f : Up(m - 1, f)
    BY <2>3
  <2> QED BY <1>3, <2>1, <2>2, <2>4
<1>5. \E f : Up(Len(s), f)
  <2> HIDE DEF Up
  <2> QED BY <1>1, <1>4
<1>6. Up(Len(s), CHOOSE f : Up(Len(s), f))
  <2> HIDE DEF Up
  <2> QED BY <1>5
<1>7. Select(s, S) = (CHOOSE f : Up(Len(s), f))[Len(s)]
  BY DEF Select
<1> QED BY <1>6, <1>7

\* Select keeps the elements that are in S, in their order, and no others.
LEMMA SelectProperties ==
  ASSUME NEW T, NEW s \in Seq(T), NEW S
  PROVE  /\ Select(s, S) \in Seq(T)
         /\ \E h \in [1..Len(Select(s, S)) -> 1..Len(s)] :
              /\ \A i, j \in 1..Len(Select(s, S)) : i < j => h[i] < h[j]
              /\ \A i \in 1..Len(Select(s, S)) : Select(s, S)[i] = s[h[i]] /\ s[h[i]] \in S
         /\ \A j \in 1..Len(s) : s[j] \in S => \E i \in 1..Len(Select(s, S)) : Select(s, S)[i] = s[j]
<1>1. PICK f : /\ f = [n \in 0..Len(s) |->
                         IF n = 0 THEN <<>>
                         ELSE IF s[n] \in S THEN Append(f[n - 1], s[n]) ELSE f[n - 1]]
               /\ Select(s, S) = f[Len(s)]
  BY SelectIsDefined
<1>0. Len(s) \in Nat
  OBVIOUS
<1>2. /\ f[0] = <<>>
      /\ \A n \in 1..Len(s) : f[n] = IF s[n] \in S THEN Append(f[n - 1], s[n]) ELSE f[n - 1]
  <2>1. f[0] = <<>>
    BY <1>0, <1>1
  <2>2. ASSUME NEW n \in 1..Len(s)
        PROVE  f[n] = IF s[n] \in S THEN Append(f[n - 1], s[n]) ELSE f[n - 1]
    <3>1. n \in 0..Len(s) /\ n # 0
      BY <1>0
    <3> QED BY <1>1, <3>1
  <2> QED BY <2>1, <2>2
<1> DEFINE Good(n) ==
             /\ f[n] \in Seq(T)
             /\ \E h \in [1..Len(f[n]) -> 1..n] :
                  /\ \A i, j \in 1..Len(f[n]) : i < j => h[i] < h[j]
                  /\ \A i \in 1..Len(f[n]) : f[n][i] = s[h[i]] /\ s[h[i]] \in S
             /\ \A j \in 1..n : s[j] \in S => \E i \in 1..Len(f[n]) : f[n][i] = s[j]
           Bad == {n \in 0..Len(s) : ~Good(n)}
<1>3. Good(0)
  <2> DEFINE h == [i \in 1..0 |-> 0]
  <2>1. f[0] \in Seq(T) /\ Len(f[0]) = 0
    BY <1>2
  <2>2. h \in [1..Len(f[0]) -> 1..0]
    BY <2>1
  <2> HIDE DEF h
  <2> QED BY <2>1, <2>2
<1>4. ASSUME NEW n \in 1..Len(s), Good(n - 1)
      PROVE  Good(n)
  <2> DEFINE old == f[n - 1]
             new == f[n]
  <2>1. PICK h \in [1..Len(old) -> 1..(n - 1)] :
          /\ \A i, j \in 1..Len(old) : i < j => h[i] < h[j]
          /\ \A i \in 1..Len(old) : old[i] = s[h[i]] /\ s[h[i]] \in S
    BY <1>4
  <2>2. old \in Seq(T) /\ Len(old) \in Nat /\ s[n] \in T /\ n \in Nat
    BY <1>0, <1>4
  <2>3. \A j \in 1..(n - 1) : s[j] \in S => \E i \in 1..Len(old) : old[i] = s[j]
    BY <1>4
  <2>4. CASE s[n] \in S
    <3>1. new = Append(old, s[n])
      BY <1>2, <2>4
    <3> DEFINE g == [i \in 1..Len(old) + 1 |-> IF i = Len(old) + 1 THEN n ELSE h[i]]
    <3> HIDE DEF old, new
    <3>2. /\ new \in Seq(T) /\ Len(new) = Len(old) + 1 /\ new[Len(old) + 1] = s[n]
          /\ \A i \in 1..Len(old) : new[i] = old[i]
      BY <2>2, <3>1, AppendProperties
    <3>0. \A i \in 1..Len(old) : h[i] \in 1..n /\ h[i] < n
      BY <2>1, <2>2
    <3>3. /\ g \in [1..Len(new) -> 1..n]
          /\ \A i \in 1..Len(old) : g[i] = h[i] /\ g[i] < n
          /\ g[Len(old) + 1] = n
      BY <2>2, <3>0, <3>2
    <3> HIDE DEF g
    <3>4. \A i, j \in 1..Len(new) : i < j => g[i] < g[j]
      <4> SUFFICES ASSUME NEW i \in 1..Len(new), NEW j \in 1..Len(new), i < j
                   PROVE  g[i] < g[j]
        OBVIOUS
      <4>1. i \in 1..Len(old)
        BY <2>2, <3>2
      <4>2. CASE j \in 1..Len(old)
        BY <2>1, <3>3, <4>1, <4>2
      <4>3. CASE j = Len(old) + 1
        BY <3>3, <4>1, <4>3
      <4> QED BY <2>2, <3>2, <4>2, <4>3
    <3>5. \A i \in 1..Len(new) : new[i] = s[g[i]] /\ s[g[i]] \in S
      <4> SUFFICES ASSUME NEW i \in 1..Len(new) PROVE new[i] = s[g[i]] /\ s[g[i]] \in S
        OBVIOUS
      <4>1. CASE i \in 1..Len(old)
        BY <2>1, <3>2, <3>3, <4>1
      <4>2. CASE i = Len(old) + 1
        BY <2>4, <3>2, <3>3, <4>2
      <4> QED BY <2>2, <3>2, <4>1, <4>2
    <3>6. \A j \in 1..n : s[j] \in S => \E i \in 1..Len(new) : new[i] = s[j]
      <4> SUFFICES ASSUME NEW j \in 1..n, s[j] \in S PROVE \E i \in 1..Len(new) : new[i] = s[j]
        OBVIOUS
      <4>1. CASE j = n
        BY <2>2, <3>2, <4>1
      <4>2. CASE j # n
        <5>1. j \in 1..(n - 1)
          BY <2>2, <4>2
        <5>2. PICK i \in 1..Len(old) : old[i] = s[j]
          BY <2>3, <5>1
        <5>3. i \in 1..Len(new) /\ new[i] = old[i]
          BY <2>2, <3>2
        <5> QED BY <5>2, <5>3
      <4> QED BY <4>1, <4>2
    <3>7. \E e \in [1..Len(new) -> 1..n] :
            /\ \A i, j \in 1..Len(new) : i < j => e[i] < e[j]
            /\ \A i \in 1..Len(new) : new[i] = s[e[i]] /\ s[e[i]] \in S
      BY <3>3, <3>4, <3>5
    <3> QED BY <3>2, <3>6, <3>7 DEF new
  <2>5. CASE s[n] \notin S
    <3>1. new = old
      BY <1>2, <2>5
    <3>2. h \in [1..Len(new) -> 1..n]
      <4> HIDE DEF old, new
      <4> QED BY <2>1, <2>2, <3>1
    <3>3. \A j \in 1..n : s[j] \in S => \E i \in 1..Len(new) : new[i] = s[j]
      <4> HIDE DEF old, new
      <4> QED BY <2>3, <2>5, <3>1
    <3> QED BY <2>1, <2>2, <3>1, <3>2, <3>3
  <2> QED BY <2>4, <2>5
<1>5. Bad = {}
  <2> HIDE DEF Good
  <2> SUFFICES ASSUME Bad # {} PROVE FALSE
    OBVIOUS
  <2>0. Bad \in SUBSET Nat
    OBVIOUS
  <2>1. PICK m \in Bad : \A k \in Bad : m <= k
    <3> HIDE DEF Bad
    <3> QED BY <2>0, LeastNatural
  <2>2. m \in 1..Len(s)
    BY <1>3
  <2>3. Good(m - 1)
    BY <2>1, <2>2
  <2> QED BY <1>4, <2>2, <2>3
<1>6. Good(Len(s))
  <2> HIDE DEF Good
  <2> QED BY <1>5
<1>7. f[Len(s)] = Select(s, S)
  BY <1>1
<1> DEFINE r == f[Len(s)]
<1>8. /\ r \in Seq(T)
      /\ \E h \in [1..Len(r) -> 1..Len(s)] :
           /\ \A i, j \in 1..Len(r) : i < j => h[i] < h[j]
           /\ \A i \in 1..Len(r) : r[i] = s[h[i]] /\ s[h[i]] \in S
      /\ \A j \in 1..Len(s) : s[j] \in S => \E i \in 1..Len(r) : r[i] = s[j]
  BY <1>6
<1>9. r = Select(s, S)
  BY <1>7
<1> HIDE DEF r
<1> QED BY <1>8, <1>9

\* What the models use of it: the elements, and that none appears twice.
LEMMA SelectElements ==
  ASSUME NEW T, NEW s \in Seq(T), NEW S
  PROVE  /\ Select(s, S) \in Seq(T)
         /\ Range(Select(s, S)) = Range(s) \cap S
         /\ IsInjective(s) => IsInjective(Select(s, S))
<1> DEFINE r == Select(s, S)
<1>1. /\ r \in Seq(T)
      /\ \A j \in 1..Len(s) : s[j] \in S => \E i \in 1..Len(r) : r[i] = s[j]
  BY SelectProperties
<1>2. PICK h \in [1..Len(r) -> 1..Len(s)] :
        /\ \A i, j \in 1..Len(r) : i < j => h[i] < h[j]
        /\ \A i \in 1..Len(r) : r[i] = s[h[i]] /\ s[h[i]] \in S
  BY SelectProperties
<1> HIDE DEF r
<1>3. Len(s) \in Nat /\ DOMAIN s = 1..Len(s) /\ Len(r) \in Nat /\ DOMAIN r = 1..Len(r)
  BY <1>1
<1>4. Range(r) = Range(s) \cap S
  <2>1. ASSUME NEW x \in Range(r)
        PROVE  x \in Range(s) \cap S
    <3>1. PICK i \in 1..Len(r) : x = r[i]
      BY <1>3 DEF Range
    <3>2. h[i] \in 1..Len(s) /\ r[i] = s[h[i]] /\ s[h[i]] \in S
      BY <1>2
    <3> QED BY <1>3, <3>1, <3>2 DEF Range
  <2>2. ASSUME NEW x \in Range(s), x \in S
        PROVE  x \in Range(r)
    <3>1. PICK j \in 1..Len(s) : x = s[j]
      BY <1>3 DEF Range
    <3>2. PICK i \in 1..Len(r) : r[i] = s[j]
      BY <1>1, <2>2, <3>1
    <3> QED BY <1>3, <3>1, <3>2 DEF Range
  <2> QED BY <2>1, <2>2
<1>5. ASSUME IsInjective(s)
      PROVE  IsInjective(r)
  <2> SUFFICES ASSUME NEW i \in 1..Len(r), NEW j \in 1..Len(r), r[i] = r[j]
               PROVE  i = j
    BY <1>3 DEF IsInjective
  <2>1. h[i] = h[j]
    BY <1>2, <1>3, <1>5 DEF IsInjective
  <2>2. ~(i < j) /\ ~(j < i)
    BY <1>2, <1>3, <2>1
  <2> QED BY <1>3, <2>2
<1> QED BY <1>1, <1>4, <1>5 DEF r

-----------------------------------------------------------------------------
(* The functions under way *)

Frames == [fn : Functions, t : 0..MaxThreads]
Depth == Len(stack)

\* The functions up to the m-th stay.
Kept(m) ==
  /\ m \in 0..Depth
  /\ stack' \in Seq(Frames) /\ Len(stack') >= m
  /\ \A i \in 1..m : stack'[i] = stack[i]

\* The function on top is fn of thread t.
On(fn, t) == Depth \in Nat \ {0} /\ stack[Depth] = Fn(fn, t) /\ ~broken

\* What is under way after todo has been put upon the first m functions.
Puts(m, todo) ==
  /\ Kept(m) /\ Len(todo) \in Nat /\ Len(stack') = m + Len(todo)
  /\ \A j \in (m + 1)..(m + Len(todo)) : stack'[j] = todo[m + Len(todo) + 1 - j]

\* A list that is put upon another one, backwards.
Upon(s, todo, new) == new = s \o Reverse(todo)

LEMMA UponReverse ==
  ASSUME NEW T, NEW s \in Seq(T), NEW todo \in Seq(T), NEW new, Upon(s, todo, new),
         NEW m \in Nat, NEW k \in Nat, m = Len(s), k = Len(todo)
  PROVE  /\ new \in Seq(T) /\ Len(new) = m + k
         /\ \A i \in 1..m : new[i] = s[i]
         /\ \A j \in (m + 1)..(m + k) : new[j] = todo[m + k + 1 - j]
<1>1. PICK r : r = Reverse(todo)
  OBVIOUS
<1>2. /\ r \in Seq(T) /\ Len(r) = Len(todo)
      /\ \A i \in 1..Len(todo) : r[i] = todo[Len(todo) + 1 - i]
  BY <1>1, ReverseProperties
<1>3. /\ new \in Seq(T) /\ Len(new) = m + k
      /\ \A i \in 1..(m + k) : new[i] = IF i <= m THEN s[i] ELSE r[i - m]
  <2>1. r \in Seq(T) /\ Len(r) = Len(todo)
    BY <1>2
  <2>2. /\ s \o r \in Seq(T) /\ Len(s \o r) = Len(s) + Len(r)
        /\ \A i \in 1..(Len(s) + Len(r)) : (s \o r)[i] = IF i <= Len(s) THEN s[i] ELSE r[i - Len(s)]
    BY <2>1, ConcatProperties
  <2> QED BY <1>1, <2>1, <2>2 DEF Upon
<1>4. ASSUME NEW j \in (m + 1)..(m + k)
      PROVE  new[j] = todo[m + k + 1 - j]
  <2>1. /\ j \in 1..(m + k) /\ ~(j <= m) /\ j - m \in 1..k
        /\ k + 1 - (j - m) = m + k + 1 - j
    BY <1>3
  <2> QED BY <1>2, <1>3, <2>1
<1>5. \A i \in 1..m : new[i] = s[i]
  BY <1>3
<1> QED BY <1>3, <1>4, <1>5

\* The functions put upon others that stay.
LEMMA PutsUpon ==
  ASSUME NEW s \in Seq(Frames), NEW todo \in Seq(Frames), NEW m \in 0..Depth,
         Len(s) = m, stack' = s \o Reverse(todo),
         \A i \in 1..m : s[i] = stack[i]
  PROVE  Puts(m, todo)
<1>1. PICK k : k = Len(todo)
  OBVIOUS
<1>2. k \in Nat /\ m \in Nat
  BY <1>1
<1>3. PICK new : Upon(s, todo, new)
  BY DEF Upon
<1>4. new \in Seq(Frames)
  <2>1. PICK T : T = Frames
    OBVIOUS
  <2>2. new \in Seq(T)
    BY <1>1, <1>2, <1>3, <2>1, UponReverse
  <2> QED BY <2>1, <2>2
<1>5. Len(new) = m + k
  BY <1>1, <1>2, <1>3, UponReverse
<1>6. ASSUME NEW i \in 1..m
      PROVE  new[i] = s[i]
  BY <1>1, <1>2, <1>3, UponReverse
<1>7. \A j \in (m + 1)..(m + k) : new[j] = todo[m + k + 1 - j]
  BY <1>1, <1>2, <1>3, UponReverse
<1>8. stack' = new
  BY <1>3 DEF Upon
<1>9. Kept(m)
  BY <1>2, <1>4, <1>5, <1>6, <1>8 DEF Kept
<1> QED BY <1>1, <1>2, <1>5, <1>7, <1>8, <1>9 DEF Puts

LEMMA GoesPuts ==
  ASSUME stack \in Seq(Frames), stack # <<>>, NEW todo \in Seq(Frames), Goes(todo)
  PROVE  Puts(Depth - 1, todo)
<1>1. /\ Front(stack) \in Seq(Frames) /\ Len(Front(stack)) = Depth - 1 /\ Depth \in Nat \ {0}
      /\ \A i \in 1..(Depth - 1) : Front(stack)[i] = stack[i]
  BY FrontProperties DEF Depth
<1>2. Depth - 1 \in 0..Depth
  BY <1>1
<1>3. stack' = Front(stack) \o Reverse(todo)
  BY DEF Goes
<1> QED BY <1>1, <1>2, <1>3, PutsUpon

LEMMA EntersPuts ==
  ASSUME stack \in Seq(Frames), NEW todo \in Seq(Frames), Enters(todo)
  PROVE  Puts(Depth, todo)
<1>1. Depth \in 0..Depth
  BY DEF Depth
<1> QED BY <1>1, PutsUpon DEF Enters, Depth

LEMMA RunningIsOn ==
  ASSUME stack \in Seq(Frames), NEW fn, NEW t, Running(fn, t)
  PROVE  On(fn, t) /\ stack # <<>>
<1>1. stack # <<>> /\ ~broken /\ Last(stack) = Fn(fn, t)
  BY DEF Running, Top
<1>2. Len(stack) \in Nat \ {0} /\ Last(stack) = stack[Len(stack)]
  BY <1>1, FrontProperties
<1> QED BY <1>1, <1>2 DEF On, Depth

\* What is put upon the first m functions: none, one, two or three, the one to be
\* called first on top; and abort() of the threads in S, upon b others.
Puts0(m) == Kept(m) /\ Len(stack') = m
Puts1(m, a) == Kept(m) /\ Len(stack') = m + 1 /\ stack'[m + 1] = a
Puts2(m, a, b) == Kept(m) /\ Len(stack') = m + 2 /\ stack'[m + 1] = b /\ stack'[m + 2] = a
Puts3(m, a, b, c) ==
  Kept(m) /\ Len(stack') = m + 3 /\ stack'[m + 1] = c /\ stack'[m + 2] = b /\ stack'[m + 3] = a
PutsAborts(m, b, S) ==
  /\ Kept(m) /\ Len(stack') >= m + b
  /\ \A i \in (m + b + 1)..Len(stack') : stack'[i].fn = "abort" /\ stack'[i].t \in S
  /\ \A u \in S : \E i \in (m + b + 1)..Len(stack') : stack'[i] = Fn("abort", u)

LEMMA PutsFew ==
  ASSUME NEW m \in Nat, NEW a, NEW b, NEW c
  PROVE  /\ Puts(m, <<>>) => Puts0(m)
         /\ Puts(m, <<a>>) => Puts1(m, a)
         /\ Puts(m, <<a, b>>) => Puts2(m, a, b)
         /\ Puts(m, <<a, b, c>>) => Puts3(m, a, b, c)
<1>1. Puts(m, <<>>) => Puts0(m)
  BY DEF Puts, Puts0
<1>2. Puts(m, <<a>>) => Puts1(m, a)
  BY DEF Puts, Puts1
<1>3. Puts(m, <<a, b>>) => Puts2(m, a, b)
  BY DEF Puts, Puts2
<1>4. Puts(m, <<a, b, c>>) => Puts3(m, a, b, c)
  BY DEF Puts, Puts3
<1> QED BY <1>1, <1>2, <1>3, <1>4

\* abort() of the threads in a list, before what is in tail.
AbortsFirst(list, tail, todo) == todo = AbortEach(list) \o tail

LEMMA AbortsFirstProperties ==
  ASSUME NEW list \in Seq(Threads), NEW tail \in Seq(Frames), NEW todo, AbortsFirst(list, tail, todo),
         NEW a \in Nat, a = Len(list), NEW b \in Nat, b = Len(tail)
  PROVE  /\ todo \in Seq(Frames)
         /\ Len(todo) = a + b
         /\ \A k \in 1..a : todo[k] = Fn("abort", list[k])
         /\ \A k \in 1..b : todo[a + k] = tail[k]
<1>1. PICK each : each = AbortEach(list)
  OBVIOUS
<1>2. /\ each \in Seq(Frames) /\ Len(each) = a
      /\ \A k \in 1..a : each[k] = Fn("abort", list[k])
  <2>1. \A k \in 1..a : Fn("abort", list[k]) \in Frames
    BY ThreadConstants DEF Fn, Frames, Functions, Threads
  <2>2. each = [k \in 1..a |-> Fn("abort", list[k])]
    BY <1>1 DEF AbortEach
  <2> QED BY <2>1, <2>2
<1>3. todo = each \o tail
  BY <1>1 DEF AbortsFirst
<1>4. /\ each \o tail \in Seq(Frames) /\ Len(each \o tail) = a + b
      /\ \A k \in 1..(a + b) : (each \o tail)[k] = IF k <= a THEN each[k] ELSE tail[k - a]
  <2>1. PICK T : T = Frames
    OBVIOUS
  <2>2. each \in Seq(T) /\ tail \in Seq(T) /\ Len(each) = a /\ Len(tail) = b
    BY <1>2, <2>1
  <2>3. /\ each \o tail \in Seq(T) /\ Len(each \o tail) = Len(each) + Len(tail)
        /\ \A i \in 1..(Len(each) + Len(tail)) :
             (each \o tail)[i] = IF i <= Len(each) THEN each[i] ELSE tail[i - Len(each)]
    BY <2>2, ConcatProperties
  <2> QED BY <2>1, <2>2, <2>3
<1>5. ASSUME NEW k \in 1..a
      PROVE  todo[k] = Fn("abort", list[k])
  BY <1>2, <1>3, <1>4
<1>6. ASSUME NEW k \in 1..b
      PROVE  todo[a + k] = tail[k]
  <2>1. a + k \in 1..(a + b) /\ ~(a + k <= a) /\ (a + k) - a = k
    OBVIOUS
  <2> QED BY <1>3, <1>4, <2>1
<1> QED BY <1>3, <1>4, <1>5, <1>6

LEMMA AbortsPut ==
  ASSUME NEW list \in Seq(Threads), NEW tail \in Seq(Frames), NEW todo, AbortsFirst(list, tail, todo),
         NEW b \in Nat, b = Len(tail), NEW m \in Nat, Puts(m, todo)
  PROVE  /\ PutsAborts(m, b, Range(list))
         /\ \A i \in 1..b : stack'[m + i] = tail[b + 1 - i]
<1>1. PICK a : a = Len(list)
  OBVIOUS
<1>2. a \in Nat /\ DOMAIN list = 1..a
  BY <1>1
<1>3. Len(todo) = a + b
  BY <1>1, <1>2, AbortsFirstProperties
<1>4. ASSUME NEW k \in 1..a
      PROVE  todo[k] = Fn("abort", list[k])
  BY <1>1, <1>2, AbortsFirstProperties, SMTT(30)
<1>5. ASSUME NEW k \in 1..b
      PROVE  todo[a + k] = tail[k]
  BY <1>1, <1>2, AbortsFirstProperties
<1>6. Kept(m) /\ Len(stack') = m + (a + b)
  BY <1>3 DEF Puts
<1>7. ASSUME NEW j \in (m + 1)..(m + (a + b))
      PROVE  stack'[j] = todo[m + (a + b) + 1 - j]
  BY <1>3 DEF Puts
<1>8. ASSUME NEW i \in (m + b + 1)..Len(stack')
      PROVE  stack'[i].fn = "abort" /\ stack'[i].t \in Range(list)
  <2>1. /\ i \in (m + 1)..(m + (a + b)) /\ m + (a + b) + 1 - i \in 1..a
    BY <1>2, <1>6
  <2>2. PICK k \in 1..a : k = m + (a + b) + 1 - i
    BY <2>1
  <2>3. stack'[i] = todo[k]
    BY <1>7, <2>1, <2>2
  <2>4. todo[k] = Fn("abort", list[k])
    BY <1>4
  <2>5. list[k] \in Range(list)
    BY <1>2 DEF Range
  <2> QED BY <2>3, <2>4, <2>5 DEF Fn
<1>9. ASSUME NEW u \in Range(list)
      PROVE  \E i \in (m + b + 1)..Len(stack') : stack'[i] = Fn("abort", u)
  <2>1. PICK k \in 1..a : u = list[k]
    BY <1>2 DEF Range
  <2>2. PICK i : i = m + (a + b) + 1 - k
    OBVIOUS
  <2>3. /\ i \in (m + 1)..(m + (a + b)) /\ i \in (m + b + 1)..Len(stack')
        /\ m + (a + b) + 1 - i = k
    BY <1>2, <1>6, <2>2
  <2>4. stack'[i] = todo[k]
    BY <1>7, <2>3
  <2>5. todo[k] = Fn("abort", list[k])
    BY <1>4
  <2> QED BY <2>1, <2>3, <2>4, <2>5
<1>10. ASSUME NEW i \in 1..b
       PROVE  stack'[m + i] = tail[b + 1 - i]
  <2>1. PICK j : j = m + i
    OBVIOUS
  <2>2. PICK k : k = b + 1 - i
    OBVIOUS
  <2>3. /\ j \in (m + 1)..(m + (a + b)) /\ k \in 1..b /\ m + (a + b) + 1 - j = a + k
    BY <1>2, <2>1, <2>2
  <2>4. stack'[j] = todo[a + k]
    BY <1>7, <2>3
  <2> QED BY <1>5, <2>1, <2>2, <2>3, <2>4
<1>11. Len(stack') >= m + b
  BY <1>2, <1>6
<1> QED BY <1>6, <1>8, <1>9, <1>10, <1>11 DEF PutsAborts

-----------------------------------------------------------------------------
(* What the actions leave to be done *)

Lists == stack \in Seq(Frames) /\ threads \in Seq(Threads) /\ queued \in Seq(Threads)

MainThreads == {u \in Listed : context[u] = Main}

LEMMA FrameTypes ==
  ASSUME NEW t \in 0..MaxThreads, NEW fn \in Functions
  PROVE  Fn(fn, t) \in Frames
BY DEF Fn, Frames

LEMMA ThreadTypes ==
  /\ None \in 0..MaxThreads /\ Main \in Nat /\ Main # None /\ MaxThreads \in Nat
  /\ \A t \in Threads : t \in 0..MaxThreads /\ t # Main /\ t # None /\ t \in Nat
BY ThreadConstants DEF Threads, None, Main

LEMMA InContextProperties ==
  ASSUME threads \in Seq(Threads), NEW c
  PROVE  /\ InContext(c) \in Seq(Threads)
         /\ Range(InContext(c)) = {u \in Listed : context[u] = c}
<1> DEFINE S == {t \in Threads : context[t] = c}
<1>1. InContext(c) \in Seq(Threads) /\ Range(InContext(c)) = Range(threads) \cap S
  BY SelectElements DEF InContext
<1>2. Range(threads) \subseteq Threads
  BY DEF Range
<1> QED BY <1>1, <1>2 DEF Listed

LEMMA RelatedProperties ==
  ASSUME threads \in Seq(Threads)
  PROVE  /\ Related \in Seq(Threads)
         /\ Range(Related) = {u \in Listed : context[u] # Main}
<1> DEFINE S == {t \in Threads : context[t] # Main}
<1>1. Related \in Seq(Threads) /\ Range(Related) = Range(threads) \cap S
  BY SelectElements DEF Related
<1>2. Range(threads) \subseteq Threads
  BY DEF Range
<1> QED BY <1>1, <1>2 DEF Listed

LEMMA ExceptProperties ==
  ASSUME NEW list \in Seq(Threads), NEW t
  PROVE  /\ Except(list, t) \in Seq(Threads)
         /\ Range(Except(list, t)) = Range(list) \ {t}
         /\ IsInjective(list) => IsInjective(Except(list, t))
<1>1. /\ Except(list, t) \in Seq(Threads) /\ Range(Except(list, t)) = Range(list) \cap (Threads \ {t})
      /\ IsInjective(list) => IsInjective(Except(list, t))
  BY SelectElements DEF Except
<1>2. Range(list) \subseteq Threads
  BY DEF Range
<1> QED BY <1>1, <1>2

\* The functions up to the m-th stay; the one on top is dropped, or replaced by one,
\* two or three, the one to be called first on top; one is put upon all; the
\* functions from the n-th on are abort() of the threads in S.
Same(m) ==
  /\ stack' \in Seq(Frames) /\ Depth' \in Nat /\ Depth' >= m
  /\ \A i \in 1..m : stack'[i] = stack[i]
Pops == Same(Depth - 1) /\ Depth' = Depth - 1
Becomes1(a) == Same(Depth - 1) /\ Depth' = Depth /\ stack'[Depth] = a
Becomes2(a, b) ==
  Same(Depth - 1) /\ Depth' = Depth + 1 /\ stack'[Depth] = b /\ stack'[Depth + 1] = a
Becomes3(a, b, c) ==
  /\ Same(Depth - 1) /\ Depth' = Depth + 2
  /\ stack'[Depth] = c /\ stack'[Depth + 1] = b /\ stack'[Depth + 2] = a
Adds1(a) == Same(Depth) /\ Depth' = Depth + 1 /\ stack'[Depth + 1] = a
Aborts(n, S) ==
  /\ Depth' >= n - 1
  /\ \A i \in n..Depth' : stack'[i].fn = "abort" /\ stack'[i].t \in S
  /\ \A u \in S : \E i \in n..Depth' : stack'[i] = Fn("abort", u)

LEMMA PutsIs ==
  ASSUME Depth \in Nat, NEW a, NEW b, NEW c, NEW S
  PROVE  /\ Depth > 0 /\ Puts0(Depth - 1) => Pops
         /\ Depth > 0 /\ Puts1(Depth - 1, a) => Becomes1(a)
         /\ Depth > 0 /\ Puts2(Depth - 1, a, b) => Becomes2(a, b)
         /\ Depth > 0 /\ Puts3(Depth - 1, a, b, c) => Becomes3(a, b, c)
         /\ Puts1(Depth, a) => Adds1(a)
         /\ Depth > 0 /\ PutsAborts(Depth - 1, 0, S) => Same(Depth - 1) /\ Aborts(Depth, S)
         /\ Depth > 0 /\ PutsAborts(Depth - 1, 3, S) => Same(Depth - 1) /\ Aborts(Depth + 3, S)
         /\ PutsAborts(Depth, 1, S) => Same(Depth) /\ Aborts(Depth + 2, S)
         /\ PutsAborts(Depth, 2, S) => Same(Depth) /\ Aborts(Depth + 3, S)
<1>1. Depth' = Len(stack')
  BY DEF Depth
<1>2. ASSUME NEW m \in Nat, Kept(m)
      PROVE  Same(m)
  <2>1. Len(stack') \in Nat
    BY <1>2 DEF Kept
  <2> QED BY <1>1, <1>2, <2>1 DEF Kept, Same
<1>3. Depth > 0 => Depth - 1 \in Nat /\ (Depth - 1) + 1 = Depth /\ (Depth - 1) + 2 = Depth + 1
                   /\ (Depth - 1) + 3 = Depth + 2 /\ (Depth - 1) + 0 + 1 = Depth
                   /\ (Depth - 1) + 3 + 1 = Depth + 3
  OBVIOUS
<1>4. Depth + 1 + 1 = Depth + 2 /\ Depth + 2 + 1 = Depth + 3
  OBVIOUS
<1>5. Depth > 0 /\ Puts0(Depth - 1) => Pops
  BY <1>1, <1>2, <1>3 DEF Puts0, Pops
<1>6. Depth > 0 /\ Puts1(Depth - 1, a) => Becomes1(a)
  BY <1>1, <1>2, <1>3 DEF Puts1, Becomes1
<1>7. Depth > 0 /\ Puts2(Depth - 1, a, b) => Becomes2(a, b)
  BY <1>1, <1>2, <1>3 DEF Puts2, Becomes2
<1>8. Depth > 0 /\ Puts3(Depth - 1, a, b, c) => Becomes3(a, b, c)
  BY <1>1, <1>2, <1>3 DEF Puts3, Becomes3
<1>9. Puts1(Depth, a) => Adds1(a)
  BY <1>1, <1>2 DEF Puts1, Adds1
<1>10. ASSUME NEW m \in Nat, NEW k \in Nat, NEW n \in Nat, n = m + k + 1, PutsAborts(m, k, S)
       PROVE  Same(m) /\ Aborts(n, S)
  <2>1. /\ Kept(m) /\ Len(stack') >= m + k
        /\ \A i \in n..Len(stack') : stack'[i].fn = "abort" /\ stack'[i].t \in S
        /\ \A u \in S : \E i \in n..Len(stack') : stack'[i] = Fn("abort", u)
    BY <1>10 DEF PutsAborts
  <2>2. n - 1 = m + k
    BY <1>10
  <2> QED BY <1>1, <1>2, <2>1, <2>2 DEF Aborts
<1>11. Depth > 0 /\ PutsAborts(Depth - 1, 0, S) => Same(Depth - 1) /\ Aborts(Depth, S)
  BY <1>3, <1>10
<1>12. Depth > 0 /\ PutsAborts(Depth - 1, 3, S) => Same(Depth - 1) /\ Aborts(Depth + 3, S)
  BY <1>3, <1>10
<1>13. PutsAborts(Depth, 1, S) => Same(Depth) /\ Aborts(Depth + 2, S)
  BY <1>4, <1>10
<1>14. PutsAborts(Depth, 2, S) => Same(Depth) /\ Aborts(Depth + 3, S)
  BY <1>4, <1>10
<1> QED BY <1>5, <1>6, <1>7, <1>8, <1>9, <1>11, <1>12, <1>13, <1>14

\* One, two or three functions put in place of the one on top, or upon it.
LEMMA GoesFew ==
  ASSUME stack \in Seq(Frames), stack # <<>>, NEW a, NEW b, NEW c
  PROVE  /\ Returns => Pops
         /\ a \in Frames /\ Goes(<<a>>) => Becomes1(a)
         /\ a \in Frames /\ b \in Frames /\ Goes(<<a, b>>) => Becomes2(a, b)
         /\ a \in Frames /\ b \in Frames /\ c \in Frames /\ Goes(<<a, b, c>>)
              => Becomes3(a, b, c)
<1>0. Depth - 1 \in Nat /\ Depth \in Nat /\ Depth > 0
  BY EmptySeq DEF Depth
<1>1. Returns => Pops
  <2>1. <<>> \in Seq(Frames)
    OBVIOUS
  <2> QED BY <1>0, <2>1, GoesPuts, PutsFew, PutsIs DEF Returns
<1>2. a \in Frames /\ Goes(<<a>>) => Becomes1(a)
  <2>1. a \in Frames => <<a>> \in Seq(Frames)
    OBVIOUS
  <2> QED BY <1>0, <2>1, GoesPuts, PutsFew, PutsIs
<1>3. a \in Frames /\ b \in Frames /\ Goes(<<a, b>>) => Becomes2(a, b)
  <2>1. a \in Frames /\ b \in Frames => <<a, b>> \in Seq(Frames)
    OBVIOUS
  <2> QED BY <1>0, <2>1, GoesPuts, PutsFew, PutsIs
<1>4. a \in Frames /\ b \in Frames /\ c \in Frames /\ Goes(<<a, b, c>>)
        => Becomes3(a, b, c)
  <2>1. a \in Frames /\ b \in Frames /\ c \in Frames => <<a, b, c>> \in Seq(Frames)
    OBVIOUS
  <2> QED BY <1>0, <2>1, GoesPuts, PutsFew, PutsIs
<1> QED BY <1>1, <1>2, <1>3, <1>4

LEMMA EntersOne ==
  ASSUME stack \in Seq(Frames), NEW a \in Frames, Enters(<<a>>)
  PROVE  Adds1(a)
<1>1. <<a>> \in Seq(Frames) /\ Depth \in Nat
  BY DEF Depth
<1> QED BY <1>1, EntersPuts, PutsFew, PutsIs

LEMMA GoesAborts ==
  ASSUME stack \in Seq(Frames), stack # <<>>, NEW list \in Seq(Threads), NEW tail \in Seq(Frames),
         Goes(AbortEach(list) \o tail), NEW b \in Nat, b = Len(tail)
  PROVE  /\ PutsAborts(Depth - 1, b, Range(list))
         /\ \A i \in 1..b : stack'[(Depth - 1) + i] = tail[b + 1 - i]
<1>1. PICK todo : AbortsFirst(list, tail, todo)
  BY DEF AbortsFirst
<1>2. Goes(todo)
  BY <1>1 DEF AbortsFirst
<1>3. PICK a : a = Len(list)
  OBVIOUS
<1>4. todo \in Seq(Frames)
  <2>1. a \in Nat
    BY <1>3
  <2> QED BY <1>1, <1>3, <2>1, AbortsFirstProperties
<1>5. PICK m : m = Depth - 1
  OBVIOUS
<1>6. m \in Nat /\ Puts(m, todo)
  <2>1. Depth - 1 \in Nat
    BY EmptySeq DEF Depth
  <2> QED BY <1>2, <1>4, <1>5, <2>1, GoesPuts
<1>7. PutsAborts(m, b, Range(list))
  BY <1>1, <1>6, AbortsPut
<1>8. \A i \in 1..b : stack'[m + i] = tail[b + 1 - i]
  BY <1>1, <1>6, AbortsPut, ZenonT(60)
<1> QED BY <1>5, <1>7, <1>8

LEMMA EntersAborts ==
  ASSUME stack \in Seq(Frames), NEW list \in Seq(Threads), NEW tail \in Seq(Frames),
         Enters(AbortEach(list) \o tail), NEW b \in Nat, b = Len(tail)
  PROVE  /\ PutsAborts(Depth, b, Range(list))
         /\ \A i \in 1..b : stack'[Depth + i] = tail[b + 1 - i]
<1>1. PICK todo : AbortsFirst(list, tail, todo)
  BY DEF AbortsFirst
<1>2. Enters(todo)
  BY <1>1 DEF AbortsFirst
<1>3. PICK a : a = Len(list)
  OBVIOUS
<1>4. todo \in Seq(Frames)
  <2>1. a \in Nat
    BY <1>3
  <2> QED BY <1>1, <1>3, <2>1, AbortsFirstProperties
<1>5. PICK m : m = Depth
  OBVIOUS
<1>6. m \in Nat /\ Puts(m, todo)
  <2>1. Depth \in Nat
    BY DEF Depth
  <2> QED BY <1>2, <1>4, <1>5, <2>1, EntersPuts
<1>7. PutsAborts(m, b, Range(list))
  BY <1>1, <1>6, AbortsPut
<1>8. \A i \in 1..b : stack'[m + i] = tail[b + 1 - i]
  BY <1>1, <1>6, AbortsPut, ZenonT(60)
<1> QED BY <1>5, <1>7, <1>8

\* What each action finds on top and leaves there.
LEMMA AbortEndedEffect ==
  ASSUME Lists, NEW t \in Threads, AbortEnded(t)
  PROVE  On("abort", t) /\ Pops
<1>1. Running("abort", t)
  BY DEF AbortEnded
<1>2. stack \in Seq(Frames) /\ stack # <<>> /\ On("abort", t)
  BY <1>1, RunningIsOn DEF Lists
<1> QED BY <1>2, GoesFew, FrameTypes, ThreadTypes DEF AbortEnded, Functions

LEMMA CallbackReturnsEffect ==
  ASSUME Lists, NEW t \in Threads, CallbackReturns(t)
  PROVE  On("callback", t) /\ Pops
<1>1. Running("callback", t)
  BY DEF CallbackReturns
<1>2. stack \in Seq(Frames) /\ stack # <<>> /\ On("callback", t)
  BY <1>1, RunningIsOn DEF Lists
<1> QED BY <1>2, GoesFew, FrameTypes, ThreadTypes DEF CallbackReturns, Functions

LEMMA EnterQueuedEffect ==
  ASSUME Lists, NEW t \in Threads, EnterQueued(t)
  PROVE  On("enter", t) /\ Pops
<1>1. Running("enter", t)
  BY DEF EnterQueued
<1>2. stack \in Seq(Frames) /\ stack # <<>> /\ On("enter", t)
  BY <1>1, RunningIsOn DEF Lists
<1> QED BY <1>2, GoesFew, FrameTypes, ThreadTypes DEF EnterQueued, Functions

LEMMA EnterBusyEffect ==
  ASSUME Lists, NEW t \in Threads, EnterBusy(t)
  PROVE  On("enter", t) /\ Becomes1(Fn("resume", t))
<1>1. Running("enter", t)
  BY DEF EnterBusy
<1>2. stack \in Seq(Frames) /\ stack # <<>> /\ On("enter", t)
  BY <1>1, RunningIsOn DEF Lists
<1> QED BY <1>2, GoesFew, FrameTypes, ThreadTypes DEF EnterBusy, Functions

LEMMA EnterStartsEffect ==
  ASSUME Lists, NEW t \in Threads, EnterStarts(t)
  PROVE  On("enter", t) /\ Becomes1(Fn("resume", t))
<1>1. Running("enter", t)
  BY DEF EnterStarts
<1>2. stack \in Seq(Frames) /\ stack # <<>> /\ On("enter", t)
  BY <1>1, RunningIsOn DEF Lists
<1> QED BY <1>2, GoesFew, FrameTypes, ThreadTypes DEF EnterStarts, Functions

LEMMA ResumeNestedEffect ==
  ASSUME Lists, NEW t \in Threads, ResumeNested(t)
  PROVE  On("resume", t) /\ Pops
<1>1. Running("resume", t)
  BY DEF ResumeNested
<1>2. stack \in Seq(Frames) /\ stack # <<>> /\ On("resume", t)
  BY <1>1, RunningIsOn DEF Lists
<1> QED BY <1>2, GoesFew, FrameTypes, ThreadTypes DEF ResumeNested, Functions

LEMMA ResumeAbortedEffect ==
  ASSUME Lists, NEW t \in Threads, ResumeAborted(t)
  PROVE  On("resume", t) /\ Becomes1(Fn("complete", t))
<1>1. Running("resume", t)
  BY DEF ResumeAborted
<1>2. stack \in Seq(Frames) /\ stack # <<>> /\ On("resume", t)
  BY <1>1, RunningIsOn DEF Lists
<1> QED BY <1>2, GoesFew, FrameTypes, ThreadTypes DEF ResumeAborted, Functions

LEMMA ResumeLoopEffect ==
  ASSUME Lists, NEW t \in Threads, ResumeLoop(t)
  PROVE  On("resume", t) /\ Becomes1(Fn("step", t))
<1>1. Running("resume", t)
  BY DEF ResumeLoop
<1>2. stack \in Seq(Frames) /\ stack # <<>> /\ On("resume", t)
  BY <1>1, RunningIsOn DEF Lists
<1> QED BY <1>2, GoesFew, FrameTypes, ThreadTypes DEF ResumeLoop, Functions

LEMMA TimeSliceEffect ==
  ASSUME Lists, NEW t \in Threads, TimeSlice(t)
  PROVE  On("step", t) /\ Pops
<1>1. Running("step", t)
  BY DEF TimeSlice, Step
<1>2. stack \in Seq(Frames) /\ stack # <<>> /\ On("step", t)
  BY <1>1, RunningIsOn DEF Lists
<1> QED BY <1>2, GoesFew, FrameTypes, ThreadTypes DEF TimeSlice, Functions

LEMMA StepEndsEffect ==
  ASSUME Lists, NEW t \in Threads, StepEnds(t)
  PROVE  On("step", t) /\ Becomes2(Fn("complete", t), Fn("stepped", t))
<1>1. Running("step", t)
  BY DEF StepEnds
<1>2. stack \in Seq(Frames) /\ stack # <<>> /\ On("step", t)
  BY <1>1, RunningIsOn DEF Lists
<1> QED BY <1>2, GoesFew, FrameTypes, ThreadTypes DEF StepEnds, Functions

LEMMA StepDelayEffect ==
  ASSUME Lists, NEW t \in Threads, StepDelay(t)
  PROVE  On("step", t) /\ Becomes1(Fn("stepped", t))
<1>1. Running("step", t)
  BY DEF StepDelay, Step
<1>2. stack \in Seq(Frames) /\ stack # <<>> /\ On("step", t)
  BY <1>1, RunningIsOn DEF Lists
<1> QED BY <1>2, GoesFew, FrameTypes, ThreadTypes DEF StepDelay, Functions

LEMMA StepCallEffect ==
  ASSUME Lists, NEW t \in Threads, NEW f \in Threads, NEW k, StepCall(t, f, k)
  PROVE  On("step", t) /\ Becomes2(Fn("resume", f), Fn("stepped", t))
<1>1. Running("step", t)
  BY DEF StepCall, Step
<1>2. stack \in Seq(Frames) /\ stack # <<>> /\ On("step", t)
  BY <1>1, RunningIsOn DEF Lists
<1> QED BY <1>2, GoesFew, FrameTypes, ThreadTypes DEF StepCall, Functions

LEMMA StepForkEffect ==
  ASSUME Lists, NEW t \in Threads, NEW b \in Threads, NEW as, StepFork(t, b, as)
  PROVE  On("step", t) /\ Becomes3(Fn("resume", b), Fn(IF as THEN "store" ELSE "resume", t), Fn("stepped", t))
<1>1. Running("step", t)
  BY DEF StepFork, Step
<1>2. stack \in Seq(Frames) /\ stack # <<>> /\ On("step", t)
  BY <1>1, RunningIsOn DEF Lists
<1> QED BY <1>2, GoesFew, FrameTypes, ThreadTypes DEF StepFork, Functions

LEMMA StepAbortOwnChainEffect ==
  ASSUME Lists, NEW t \in Threads, StepAbortOwnChain(t)
  PROVE  On("step", t) /\ Becomes2(Fn("return", t), Fn("stepped", t))
<1>1. Running("step", t)
  BY DEF StepAbortOwnChain, Step
<1>2. stack \in Seq(Frames) /\ stack # <<>> /\ On("step", t)
  BY <1>1, RunningIsOn DEF Lists
<1> QED BY <1>2, GoesFew, FrameTypes, ThreadTypes DEF StepAbortOwnChain, Functions

LEMMA StepAbortEffect ==
  ASSUME Lists, NEW t \in Threads, NEW u \in Threads, StepAbort(t, u)
  PROVE  On("step", t) /\ Becomes3(Fn("abort", u), Fn("return", t), Fn("stepped", t))
<1>1. Running("step", t)
  BY DEF StepAbort, Step
<1>2. stack \in Seq(Frames) /\ stack # <<>> /\ On("step", t)
  BY <1>1, RunningIsOn DEF Lists
<1> QED BY <1>2, GoesFew, FrameTypes, ThreadTypes DEF StepAbort, Functions

LEMMA AbortAloneEffect ==
  ASSUME Lists, NEW t \in Threads, AbortAlone(t)
  PROVE  On("abort", t) /\ Becomes1(Fn("complete", t))
<1>1. Running("abort", t)
  BY DEF AbortAlone
<1>2. stack \in Seq(Frames) /\ stack # <<>> /\ On("abort", t)
  BY <1>1, RunningIsOn DEF Lists
<1> QED BY <1>2, GoesFew, FrameTypes, ThreadTypes DEF AbortAlone, Functions

LEMMA AbortBuiltinEffect ==
  ASSUME Lists, NEW t \in Threads, AbortBuiltin(t)
  PROVE  On("abort", t) /\ Becomes1(Fn("resume", t))
<1>1. Running("abort", t)
  BY DEF AbortBuiltin
<1>2. stack \in Seq(Frames) /\ stack # <<>> /\ On("abort", t)
  BY <1>1, RunningIsOn DEF Lists
<1> QED BY <1>2, GoesFew, FrameTypes, ThreadTypes DEF AbortBuiltin, Functions


LEMMA SteppedEffect ==
  ASSUME Lists, NEW t \in Threads, Stepped(t)
  PROVE  /\ On("stepped", t)
         /\ IF t \in resumed /\ t \notin aborted THEN Becomes1(Fn("step", t))
            ELSE Pops
<1>1. Running("stepped", t)
  BY DEF Stepped
<1>2. stack \in Seq(Frames) /\ stack # <<>> /\ On("stepped", t)
  BY <1>1, RunningIsOn DEF Lists
<1> QED BY <1>2, GoesFew, FrameTypes, ThreadTypes DEF Stepped, Functions

LEMMA ReturnEffect ==
  ASSUME Lists, NEW t \in Threads, Return(t)
  PROVE  /\ On("return", t)
         /\ IF call[t] = "builtin" THEN Becomes1(Fn("resume", t)) ELSE Pops
<1>1. Running("return", t)
  BY DEF Return
<1>2. stack \in Seq(Frames) /\ stack # <<>> /\ On("return", t)
  BY <1>1, RunningIsOn DEF Lists
<1> QED BY <1>2, GoesFew, FrameTypes, ThreadTypes DEF Return, Functions

LEMMA StoreEffect ==
  ASSUME Lists, NEW t \in Threads, Store(t)
  PROVE  /\ On("store", t)
         /\ context[t] # None => Becomes1(Fn("resume", t))
<1>1. Running("store", t)
  BY DEF Store
<1>2. stack \in Seq(Frames) /\ stack # <<>> /\ On("store", t)
  BY <1>1, RunningIsOn DEF Lists
<1> QED BY <1>2, GoesFew, FrameTypes, ThreadTypes DEF Store, Functions

LEMMA EndedEffect ==
  ASSUME Lists, NEW t \in Threads, Ended(t)
  PROVE  /\ On("ended", t)
         /\ LET others == Select(Except(threads, t), {u \in Threads : context[u] = Main})
            IN  IF context[t] = Main /\ MayStartNext(others)
                  THEN Becomes1(Fn("resume", Head(queued)))
                  ELSE Pops
<1> DEFINE others == Select(Except(threads, t), {u \in Threads : context[u] = Main})
           next == context[t] = Main /\ MayStartNext(others)
<1>1. Running("ended", t)
  BY DEF Ended
<1>2. stack \in Seq(Frames) /\ stack # <<>> /\ On("ended", t)
  BY <1>1, RunningIsOn DEF Lists
<1>3. IF next THEN Goes(<<Fn("resume", Head(queued))>>) ELSE Returns
  BY DEF Ended
<1>4. next => Head(queued) \in Threads
  BY DEF Lists, MayStartNext
<1> HIDE DEF next
<1>5. next => Becomes1(Fn("resume", Head(queued)))
  BY <1>2, <1>3, <1>4, GoesFew, FrameTypes, ThreadTypes DEF Functions
<1>6. ~next => Pops
  BY <1>2, <1>3, GoesFew
<1> QED BY <1>2, <1>5, <1>6 DEF next

LEMMA CompleteEffect ==
  ASSUME Lists, NEW t \in Threads, caller[t] \in 0..MaxThreads, Complete(t)
  PROVE  /\ On("complete", t)
         /\ IF t \in reports /\ caller[t] # None /\ call[caller[t]] = kind[t]
              THEN Becomes2(Fn("resume", caller[t]), Fn("ended", t))
            ELSE IF t \in reports /\ caller[t] = None
              THEN Becomes2(Fn("callback", t), Fn("ended", t))
            ELSE Becomes1(Fn("ended", t))
<1>1. Running("complete", t)
  BY DEF Complete
<1>2. stack \in Seq(Frames) /\ stack # <<>> /\ On("complete", t)
  BY <1>1, RunningIsOn DEF Lists
<1>3. \A fn \in Functions, u \in 0..MaxThreads : Fn(fn, u) \in Frames
  BY FrameTypes
<1> DEFINE called == t \in reports /\ caller[t] # None /\ call[caller[t]] = kind[t]
           back == t \in reports /\ caller[t] = None
<1>4. Goes((IF called THEN <<Fn("resume", caller[t])>>
            ELSE IF back THEN <<Fn("callback", t)>> ELSE <<>>) \o <<Fn("ended", t)>>)
  BY DEF Complete
<1> HIDE DEF called, back
<1>5. ASSUME called
      PROVE  Goes(<<Fn("resume", caller[t]), Fn("ended", t)>>)
  <2>1. <<Fn("resume", caller[t])>> \o <<Fn("ended", t)>> = <<Fn("resume", caller[t]), Fn("ended", t)>>
    BY ConcatTwo
  <2> QED BY <1>4, <1>5, <2>1
<1>6. ASSUME ~called, back
      PROVE  Goes(<<Fn("callback", t), Fn("ended", t)>>)
  <2>1. <<Fn("callback", t)>> \o <<Fn("ended", t)>> = <<Fn("callback", t), Fn("ended", t)>>
    BY ConcatTwo
  <2> QED BY <1>4, <1>6, <2>1
<1>7. ASSUME ~called, ~back
      PROVE  Goes(<<Fn("ended", t)>>)
  <2>1. <<>> \o <<Fn("ended", t)>> = <<Fn("ended", t)>>
    OBVIOUS
  <2> QED BY <1>4, <1>7, <2>1
<1>8. called => Becomes2(Fn("resume", caller[t]), Fn("ended", t))
  BY <1>2, <1>3, <1>5, GoesFew, ThreadTypes DEF Functions
<1>9. ~called /\ back => Becomes2(Fn("callback", t), Fn("ended", t))
  BY <1>2, <1>3, <1>6, GoesFew, ThreadTypes DEF Functions
<1>10. ~called /\ ~back => Becomes1(Fn("ended", t))
  BY <1>2, <1>3, <1>7, GoesFew, ThreadTypes DEF Functions
<1> QED BY <1>2, <1>8, <1>9, <1>10 DEF called, back

LEMMA SliceOverEffect ==
  ASSUME Lists, NEW t \in Threads, SliceOver(t)
  PROVE  Depth = 0 /\ ~broken /\ Adds1(Fn("resume", t))
<1>1. Fn("resume", t) \in Frames
  BY FrameTypes, ThreadTypes DEF Functions
<1> QED BY <1>1, EntersOne DEF SliceOver, Idle, Depth, Lists

LEMMA DelayOverEffect ==
  ASSUME Lists, NEW t \in Threads, DelayOver(t)
  PROVE  Depth = 0 /\ ~broken /\ Adds1(Fn("resume", t))
<1>1. Fn("resume", t) \in Frames
  BY FrameTypes, ThreadTypes DEF Functions
<1> QED BY <1>1, EntersOne DEF DelayOver, Idle, Depth, Lists

\* The application runs while no function of ours does, or in a callback.
LEMMA AppEffect ==
  ASSUME Lists, NEW what, App(what)
  PROVE  /\ ~broken /\ Depth \in Nat
         /\ Depth = 0 \/ (Depth > 0 /\ stack[Depth].fn = "callback")
<1>1. CASE stack = <<>>
  BY <1>1 DEF App, Idle, Depth
<1>2. CASE stack # <<>>
  <2>1. Len(stack) \in Nat \ {0} /\ Last(stack) = stack[Len(stack)]
    BY <1>2, FrontProperties DEF Lists
  <2> QED BY <1>2, <2>1 DEF App, Idle, Depth, Top
<1> QED BY <1>1, <1>2

LEMMA ExecuteEffect ==
  ASSUME Lists, NEW t \in Threads, NEW mode \in RunModes, Execute(t, mode)
  PROVE  IF "stoprunning" \in mode
           THEN /\ Same(Depth) /\ Aborts(Depth + 3, MainThreads)
                /\ stack'[Depth + 1] = Fn("enter", t)
                /\ stack'[Depth + 2] = Fn("abortRelated", None)
           ELSE Adds1(Fn("enter", t))
<1>1. Fn("enter", t) \in Frames /\ Fn("abortRelated", None) \in Frames
  BY FrameTypes, ThreadTypes DEF Functions
<1>2. CASE "stoprunning" \in mode
  <2> DEFINE tail == <<Fn("abortRelated", None), Fn("enter", t)>>
  <2>1. tail \in Seq(Frames) /\ Len(tail) = 2 /\ tail[1] = Fn("abortRelated", None)
        /\ tail[2] = Fn("enter", t)
    BY <1>1
  <2>2. Enters(AbortEach(InContext(Main)) \o tail)
    BY <1>2 DEF Execute
  <2> HIDE DEF tail
  <2>5. InContext(Main) \in Seq(Threads) /\ Range(InContext(Main)) = MainThreads
    BY InContextProperties DEF Lists, MainThreads
  <2>3. /\ PutsAborts(Depth, 2, Range(InContext(Main)))
        /\ \A i \in 1..2 : stack'[Depth + i] = tail[2 + 1 - i]
    <3>1. PICK list : list = InContext(Main)
      OBVIOUS
    <3>2. list \in Seq(Threads) /\ Enters(AbortEach(list) \o tail) /\ stack \in Seq(Frames)
      BY <2>2, <2>5, <3>1 DEF Lists
    <3>3. PutsAborts(Depth, 2, Range(list))
      BY <2>1, <3>2, EntersAborts
    <3>4. \A i \in 1..2 : stack'[Depth + i] = tail[2 + 1 - i]
      BY <2>1, <3>2, EntersAborts, ZenonT(60)
    <3> QED BY <3>1, <3>3, <3>4
  <2>4. stack'[Depth + 1] = tail[2] /\ stack'[Depth + 2] = tail[1]
    BY <2>3
  <2>6. Depth \in Nat
    BY DEF Depth, Lists
  <2>7. Same(Depth) /\ Aborts(Depth + 3, MainThreads)
    BY <2>3, <2>5, <2>6, PutsIs
  <2> QED BY <1>2, <2>1, <2>4, <2>7
<1>3. CASE "stoprunning" \notin mode
  BY <1>1, <1>3, EntersOne DEF Execute, Lists
<1> QED BY <1>2, <1>3

LEMMA StopEffect ==
  ASSUME Lists, Stop
  PROVE  Same(Depth) /\ Aborts(Depth + 2, MainThreads) /\ stack'[Depth + 1] = Fn("abortRelated", None)
<1> DEFINE tail == <<Fn("abortRelated", None)>>
<1>1. Fn("abortRelated", None) \in Frames
  BY FrameTypes, ThreadTypes DEF Functions
<1>2. tail \in Seq(Frames) /\ Len(tail) = 1 /\ tail[1] = Fn("abortRelated", None)
  BY <1>1
<1>3. Enters(AbortEach(InContext(Main)) \o tail)
  BY DEF Stop
<1> HIDE DEF tail
<1>6. InContext(Main) \in Seq(Threads) /\ Range(InContext(Main)) = MainThreads
  BY InContextProperties DEF Lists, MainThreads
<1>4. /\ PutsAborts(Depth, 1, Range(InContext(Main)))
      /\ \A i \in 1..1 : stack'[Depth + i] = tail[1 + 1 - i]
  <2>1. PICK list : list = InContext(Main)
    OBVIOUS
  <2>2. list \in Seq(Threads) /\ Enters(AbortEach(list) \o tail) /\ stack \in Seq(Frames)
    BY <1>3, <1>6, <2>1 DEF Lists
  <2>3. PutsAborts(Depth, 1, Range(list))
    BY <1>2, <2>2, EntersAborts
  <2>4. \A i \in 1..1 : stack'[Depth + i] = tail[1 + 1 - i]
    BY <1>2, <2>2, EntersAborts, ZenonT(60)
  <2> QED BY <2>1, <2>3, <2>4
<1>5. stack'[Depth + 1] = tail[1]
  BY <1>4
<1>7. Depth \in Nat
  BY DEF Depth, Lists
<1>8. Same(Depth) /\ Aborts(Depth + 2, MainThreads)
  BY <1>4, <1>6, <1>7, PutsIs
<1> QED BY <1>2, <1>5, <1>8

LEMMA AbortRelatedEffect ==
  ASSUME Lists, NEW t \in 0..MaxThreads, AbortRelated(t)
  PROVE  /\ On("abortRelated", t)
         /\ Same(Depth - 1) /\ Aborts(Depth, {u \in Listed : context[u] # Main /\ u # t})
<1>1. Running("abortRelated", t)
  BY DEF AbortRelated
<1>2. stack \in Seq(Frames) /\ stack # <<>> /\ On("abortRelated", t)
  BY <1>1, RunningIsOn DEF Lists
<1>3. /\ Except(Related, t) \in Seq(Threads)
      /\ Range(Except(Related, t)) = {u \in Listed : context[u] # Main /\ u # t}
  <2>1. Related \in Seq(Threads) /\ Range(Related) = {u \in Listed : context[u] # Main}
    BY RelatedProperties DEF Lists
  <2> QED BY <2>1, ExceptProperties
<1>4. AbortEach(Except(Related, t)) \in Seq(Frames)
  <2>1. \A u \in Threads : Fn("abort", u) \in Frames
    BY FrameTypes, ThreadTypes DEF Functions
  <2> QED BY <1>3, <2>1 DEF AbortEach
<1>5. Goes(AbortEach(Except(Related, t)) \o <<>>)
  BY <1>4, ConcatEmptySeq DEF AbortRelated
<1>6. <<>> \in Seq(Frames) /\ Len(<<>>) = 0
  OBVIOUS
<1>7. PutsAborts(Depth - 1, 0, Range(Except(Related, t)))
  BY <1>2, <1>3, <1>5, <1>6, GoesAborts
<1>8. Depth \in Nat /\ Depth > 0
  BY <1>2 DEF On
<1>9. PICK S : S = Range(Except(Related, t))
  OBVIOUS
<1>10. Same(Depth - 1) /\ Aborts(Depth, S)
  BY <1>7, <1>8, <1>9, PutsIs
<1> QED BY <1>2, <1>3, <1>9, <1>10

LEMMA StepAbortOthersEffect ==
  ASSUME Lists, NEW t \in Threads, StepAbortOthers(t)
  PROVE  /\ On("step", t)
         /\ Same(Depth - 1) /\ Aborts(Depth + 3, MainThreads \ {t})
         /\ stack'[Depth] = Fn("stepped", t)
         /\ stack'[Depth + 1] = Fn("return", t)
         /\ stack'[Depth + 2] = Fn("abortRelated", t)
<1> DEFINE tail == <<Fn("abortRelated", t), Fn("return", t), Fn("stepped", t)>>
<1>1. Running("step", t)
  BY DEF StepAbortOthers, Step
<1>2. stack \in Seq(Frames) /\ stack # <<>> /\ On("step", t)
  BY <1>1, RunningIsOn DEF Lists
<1>3. Fn("abortRelated", t) \in Frames /\ Fn("return", t) \in Frames /\ Fn("stepped", t) \in Frames
  BY FrameTypes, ThreadTypes DEF Functions
<1>4. tail \in Seq(Frames) /\ Len(tail) = 3 /\ tail[1] = Fn("abortRelated", t)
      /\ tail[2] = Fn("return", t) /\ tail[3] = Fn("stepped", t)
  BY <1>3
<1>5. Goes(AbortEach(Except(InContext(Main), t)) \o tail)
  BY DEF StepAbortOthers
<1> HIDE DEF tail
<1>6. /\ Except(InContext(Main), t) \in Seq(Threads)
      /\ Range(Except(InContext(Main), t)) = MainThreads \ {t}
  <2>1. InContext(Main) \in Seq(Threads) /\ Range(InContext(Main)) = MainThreads
    BY InContextProperties DEF Lists, MainThreads
  <2> QED BY <2>1, ExceptProperties
<1>7. /\ PutsAborts(Depth - 1, 3, Range(Except(InContext(Main), t)))
      /\ \A i \in 1..3 : stack'[(Depth - 1) + i] = tail[3 + 1 - i]
  BY <1>2, <1>4, <1>5, <1>6, GoesAborts, ZenonT(60)
<1>8. /\ stack'[(Depth - 1) + 1] = tail[3] /\ stack'[(Depth - 1) + 2] = tail[2]
      /\ stack'[(Depth - 1) + 3] = tail[1]
  BY <1>7
<1>9. Depth \in Nat /\ (Depth - 1) + 1 = Depth /\ (Depth - 1) + 2 = Depth + 1
      /\ (Depth - 1) + 3 = Depth + 2
  BY <1>2 DEF On
<1>10. PICK S : S = Range(Except(InContext(Main), t))
  OBVIOUS
<1>11. Depth > 0
  BY <1>2 DEF On
<1>12. PutsAborts(Depth - 1, 3, S)
  BY <1>7, <1>10
<1>13. Same(Depth - 1) /\ Aborts(Depth + 3, S)
  BY <1>9, <1>11, <1>12, PutsIs
<1> QED BY <1>2, <1>4, <1>6, <1>8, <1>9, <1>10, <1>13

\* The called function that t waits for.
Callee(t) == CHOOSE f \in Threads : caller[f] = t /\ kind[f] = "function" /\ f \in reports

LEMMA AbortFunctionEffect ==
  ASSUME Lists, NEW t \in Threads, AbortFunction(t)
  PROVE  /\ On("abort", t)
         /\ Same(Depth - 1) /\ Aborts(Depth, {u \in Listed : context[u] = Callee(t)})
<1>1. Running("abort", t)
  BY DEF AbortFunction
<1>2. stack \in Seq(Frames) /\ stack # <<>> /\ On("abort", t)
  BY <1>1, RunningIsOn DEF Lists
<1>3. PICK list : list = InContext(Callee(t))
  OBVIOUS
<1>4. list \in Seq(Threads) /\ Range(list) = {u \in Listed : context[u] = Callee(t)}
  BY <1>3, InContextProperties DEF Lists
<1>5. AbortEach(list) \in Seq(Frames)
  <2>1. \A u \in Threads : Fn("abort", u) \in Frames
    BY FrameTypes, ThreadTypes DEF Functions
  <2> QED BY <1>4, <2>1 DEF AbortEach
<1>6. Goes(AbortEach(list))
  BY <1>3 DEF AbortFunction, Callee
<1>7. Goes(AbortEach(list) \o <<>>)
  BY <1>5, <1>6, ConcatEmptySeq
<1>8. <<>> \in Seq(Frames) /\ Len(<<>>) = 0
  OBVIOUS
<1>9. PutsAborts(Depth - 1, 0, Range(list))
  BY <1>2, <1>4, <1>7, <1>8, GoesAborts
<1>10. Depth \in Nat /\ Depth > 0
  BY <1>2 DEF On
<1>11. Same(Depth - 1) /\ Aborts(Depth, Range(list))
  BY <1>9, <1>10, PutsIs
<1> QED BY <1>2, <1>4, <1>11

LEMMA FramesKeep ==
  ASSUME Lists, caller \in [Threads -> 0..MaxThreads], Next
  PROVE  stack' \in Seq(Frames)
<1> USE DEF Pops, Becomes1, Becomes2, Becomes3, Adds1, Same
<1>1. ASSUME Stop
      PROVE  stack' \in Seq(Frames)
  BY <1>1, StopEffect
<1>2. ASSUME NEW t \in Threads, NEW mode \in RunModes, Execute(t, mode)
      PROVE  stack' \in Seq(Frames)
  BY <1>2, ExecuteEffect
<1>3. ASSUME NEW t \in 0..MaxThreads, AbortRelated(t)
      PROVE  stack' \in Seq(Frames)
  BY <1>3, AbortRelatedEffect
<1>4. ASSUME NEW t \in Threads, EnterQueued(t)
      PROVE  stack' \in Seq(Frames)
  BY <1>4, EnterQueuedEffect
<1>5. ASSUME NEW t \in Threads, EnterBusy(t)
      PROVE  stack' \in Seq(Frames)
  BY <1>5, EnterBusyEffect
<1>6. ASSUME NEW t \in Threads, EnterStarts(t)
      PROVE  stack' \in Seq(Frames)
  BY <1>6, EnterStartsEffect
<1>7. ASSUME NEW t \in Threads, ResumeNested(t)
      PROVE  stack' \in Seq(Frames)
  BY <1>7, ResumeNestedEffect
<1>8. ASSUME NEW t \in Threads, ResumeAborted(t)
      PROVE  stack' \in Seq(Frames)
  BY <1>8, ResumeAbortedEffect
<1>9. ASSUME NEW t \in Threads, ResumeLoop(t)
      PROVE  stack' \in Seq(Frames)
  BY <1>9, ResumeLoopEffect
<1>10. ASSUME NEW t \in Threads, Stepped(t)
      PROVE  stack' \in Seq(Frames)
  BY <1>10, SteppedEffect
<1>11. ASSUME NEW t \in Threads, TimeSlice(t)
       PROVE  stack' \in Seq(Frames)
  BY <1>11, TimeSliceEffect
<1>12. ASSUME NEW t \in Threads, StepEnds(t)
       PROVE  stack' \in Seq(Frames)
  BY <1>12, StepEndsEffect
<1>13. ASSUME NEW t \in Threads, StepDelay(t)
       PROVE  stack' \in Seq(Frames)
  BY <1>13, StepDelayEffect
<1>14. ASSUME NEW t \in Threads, StepAbortOwnChain(t)
       PROVE  stack' \in Seq(Frames)
  BY <1>14, StepAbortOwnChainEffect
<1>15. ASSUME NEW t \in Threads, StepAbortOthers(t)
       PROVE  stack' \in Seq(Frames)
  BY <1>15, StepAbortOthersEffect
<1>16. ASSUME NEW t \in Threads, Store(t)
       PROVE  stack' \in Seq(Frames)
  BY <1>16, StoreEffect DEF Store, Lists
<1>17. ASSUME NEW t \in Threads, Return(t)
       PROVE  stack' \in Seq(Frames)
  BY <1>17, ReturnEffect
<1>18. ASSUME NEW t \in Threads, AbortEnded(t)
       PROVE  stack' \in Seq(Frames)
  BY <1>18, AbortEndedEffect
<1>19. ASSUME NEW t \in Threads, AbortAlone(t)
       PROVE  stack' \in Seq(Frames)
  BY <1>19, AbortAloneEffect
<1>20. ASSUME NEW t \in Threads, AbortBuiltin(t)
       PROVE  stack' \in Seq(Frames)
  BY <1>20, AbortBuiltinEffect
<1>21. ASSUME NEW t \in Threads, AbortFunction(t)
       PROVE  stack' \in Seq(Frames)
  BY <1>21, AbortFunctionEffect
<1>22. ASSUME NEW t \in Threads, Complete(t)
       PROVE  stack' \in Seq(Frames)
  <2>1. caller[t] \in 0..MaxThreads
    OBVIOUS
  <2> QED BY <1>22, <2>1, CompleteEffect
<1>23. ASSUME NEW t \in Threads, CallbackReturns(t)
       PROVE  stack' \in Seq(Frames)
  BY <1>23, CallbackReturnsEffect
<1>24. ASSUME NEW t \in Threads, Ended(t)
       PROVE  stack' \in Seq(Frames)
  BY <1>24, EndedEffect
<1>25. ASSUME NEW t \in Threads, NEW u \in Threads, StepAbort(t, u)
       PROVE  stack' \in Seq(Frames)
  BY <1>25, StepAbortEffect
<1>26. ASSUME NEW t \in Threads, NEW u \in Threads, NEW k \in {"function", "eval"}, StepCall(t, u, k)
       PROVE  stack' \in Seq(Frames)
  BY <1>26, StepCallEffect
<1>27. ASSUME NEW t \in Threads, NEW u \in Threads, NEW as \in BOOLEAN, StepFork(t, u, as)
       PROVE  stack' \in Seq(Frames)
  BY <1>27, StepForkEffect
<1>28. ASSUME NEW t \in Threads, SliceOver(t)
       PROVE  stack' \in Seq(Frames)
  BY <1>28, SliceOverEffect
<1>29. ASSUME NEW t \in Threads, DelayOver(t)
       PROVE  stack' \in Seq(Frames)
  BY <1>29, DelayOverEffect
<1> QED BY <1>1, <1>2, <1>3, <1>4, <1>5, <1>6, <1>7, <1>8, <1>9, <1>10, <1>11, <1>12, <1>13, <1>14, <1>15, <1>16, <1>17, <1>18, <1>19, <1>20, <1>21, <1>22, <1>23, <1>24, <1>25, <1>26, <1>27, <1>28, <1>29
       DEF Next, AppStep, ThreadStep, TimerStep

-----------------------------------------------------------------------------
(* One thread from the queue at a time *)

\* Threads that are started from the queue, or could have been.
Queues(t) == context[t] = Main /\ "queue" \in flags[t]

QueueInv ==
  /\ Lists
  /\ kind \in [Threads -> Kinds] /\ caller \in [Threads -> 0..MaxThreads]
  /\ flags \in [Threads -> SUBSET AllFlags] /\ context \in [Threads -> 0..Main]
  /\ Listed \subseteq Born /\ Waiting \subseteq Born
  /\ \A i, j \in DOMAIN threads : Queues(threads[i]) /\ Queues(threads[j]) => i = j

\* The invariant implies the property: a set whose elements are all the same has
\* one element at most.
LEMMA QueueInvImplies ==
  ASSUME QueueInv
  PROVE  OneFromQueue
<1> DEFINE Q == {i \in DOMAIN threads : context[threads[i]] = Main /\ "queue" \in flags[threads[i]]}
<1>1. \A i, j \in Q : i = j
  BY DEF QueueInv, Queues
<1>2. CASE Q = {}
  BY <1>2, FS_EmptySet DEF OneFromQueue
<1>3. CASE Q # {}
  <2>1. PICK i : Q = {i}
    BY <1>1, <1>3
  <2>2. Cardinality({i}) = 1
    BY FS_Singleton
  <2> QED BY <2>1, <2>2 DEF OneFromQueue
<1> QED BY <1>2, <1>3

LEMMA SelectIndices ==
  ASSUME NEW T, NEW s \in Seq(T), NEW S, NEW r, r = Select(s, S),
         NEW i \in DOMAIN r, NEW j \in DOMAIN r
  PROVE  \E p, q \in DOMAIN s : r[i] = s[p] /\ r[j] = s[q] /\ (p = q => i = j)
<1>1. r \in Seq(T)
  BY SelectProperties
<1>2. PICK h \in [1..Len(r) -> 1..Len(s)] :
        /\ \A k, l \in 1..Len(r) : k < l => h[k] < h[l]
        /\ \A k \in 1..Len(r) : r[k] = s[h[k]] /\ s[h[k]] \in S
  BY SelectProperties
<1>3. i \in 1..Len(r) /\ j \in 1..Len(r) /\ DOMAIN s = 1..Len(s) /\ Len(r) \in Nat /\ Len(s) \in Nat
  BY <1>1
<1>4. h[i] = h[j] => i = j
  <2>1. h[i] \in Nat /\ h[j] \in Nat /\ i \in Nat /\ j \in Nat
    BY <1>2, <1>3
  <2>2. ~(h[i] < h[j]) => ~(i < j)
    BY <1>2, <1>3
  <2>3. ~(h[j] < h[i]) => ~(j < i)
    BY <1>2, <1>3
  <2> QED BY <2>1, <2>2, <2>3
<1> QED BY <1>2, <1>3, <1>4

LEMMA FromQueueIs ==
  ASSUME NEW list, NEW u \in Range(list), "queue" \in flags[u]
  PROVE  FromQueue(list)
BY DEF FromQueue, Range

\* Threads leave the context's list without any other change of the order, and a
\* thread that queues joins only where no other one is.
LEMMA Joins ==
  ASSUME QueueInv, NEW t \in Born, t \in Threads, threads' = Append(threads, t),
         queued' \in Seq(Threads), Waiting' \subseteq Born,
         UNCHANGED <<kind, caller, flags, context>>, stack' \in Seq(Frames),
         Queues(t) => \A u \in Listed : ~Queues(u)
  PROVE  QueueInv'
<1>1. /\ threads' \in Seq(Threads) /\ Len(threads') = Len(threads) + 1
      /\ \A i \in 1..Len(threads) : threads'[i] = threads[i]
      /\ threads'[Len(threads) + 1] = t
  BY AppendProperties DEF QueueInv, Lists
<1>2. Len(threads) \in Nat /\ DOMAIN threads = 1..Len(threads)
      /\ DOMAIN threads' = 1..(Len(threads) + 1)
  BY <1>1 DEF QueueInv, Lists
<1>3. Listed' \subseteq Born'
  BY <1>1, <1>2 DEF QueueInv, Listed, Range, Born
<1>4. ASSUME NEW i \in DOMAIN threads', NEW j \in DOMAIN threads',
             Queues(threads[i])' /\ Queues(threads[j])'
      PROVE  i = j
  <2>1. Queues(threads'[i]) /\ Queues(threads'[j])
    BY <1>4 DEF Queues
  <2>2. CASE i \in 1..Len(threads) /\ j \in 1..Len(threads)
    BY <1>1, <1>2, <2>1, <2>2 DEF QueueInv
  <2>3. CASE i = Len(threads) + 1 /\ j \in 1..Len(threads)
    BY <1>1, <1>2, <2>1, <2>3 DEF Listed, Range
  <2>4. CASE j = Len(threads) + 1 /\ i \in 1..Len(threads)
    BY <1>1, <1>2, <2>1, <2>4 DEF Listed, Range
  <2> QED BY <1>2, <2>2, <2>3, <2>4
<1> QED BY <1>1, <1>3, <1>4 DEF QueueInv, Lists, Born

LEMMA NoQueues ==
  ASSUME threads \in Seq(Threads), InContext(Main) = <<>>, NEW u \in Listed
  PROVE  context[u] # Main
<1>1. Range(InContext(Main)) = MainThreads
  BY InContextProperties DEF MainThreads
<1>2. MainThreads = {}
  BY <1>1 DEF Range
<1> QED BY <1>2 DEF MainThreads

LEMMA Creates ==
  ASSUME QueueInv, stack' \in Seq(Frames), NEW t \in Threads, t \notin Born, NEW k \in Kinds,
         NEW c \in 0..Main, NEW fs \in SUBSET AllFlags, NEW from \in 0..MaxThreads,
         NewThread(t, k, c, fs, from),
         UNCHANGED threads, queued' = queued \/ queued' = <<>>
  PROVE  QueueInv'
<1>1. /\ kind' = [kind EXCEPT ![t] = k] /\ context' = [context EXCEPT ![t] = c]
      /\ flags' = [flags EXCEPT ![t] = fs] /\ caller' = [caller EXCEPT ![t] = from]
  BY DEF NewThread
<1>2. Born \subseteq Born'
  BY <1>1 DEF Born, QueueInv
<1>3. \A u \in Born : Queues(u)' <=> Queues(u)
  BY <1>1 DEF Born, QueueInv, Queues
<1>4. \A i \in DOMAIN threads : threads[i] \in Born
  BY DEF QueueInv, Listed, Range
<1>5. \A i \in DOMAIN threads : Queues(threads[i])' <=> Queues(threads[i])
  <2> SUFFICES ASSUME NEW i \in DOMAIN threads PROVE Queues(threads[i])' <=> Queues(threads[i])
    OBVIOUS
  <2>1. PICK u \in Born : u = threads[i]
    BY <1>4
  <2>2. u = threads'[i] /\ context'[u] = context[u] /\ flags'[u] = flags[u]
    BY <1>1, <2>1 DEF Born, QueueInv
  <2> QED BY <2>1, <2>2 DEF Queues
<1>6. /\ kind' \in [Threads -> Kinds] /\ caller' \in [Threads -> 0..MaxThreads]
      /\ flags' \in [Threads -> SUBSET AllFlags] /\ context' \in [Threads -> 0..Main]
  BY <1>1 DEF QueueInv
<1>7. Waiting' \subseteq Born' /\ queued' \in Seq(Threads)
  <2>1. CASE queued' = queued
    BY <1>2, <2>1 DEF QueueInv, Lists, Waiting
  <2>2. CASE queued' = <<>>
    <3>1. DOMAIN queued' = {}
      BY <2>2
    <3> QED BY <2>2, <3>1 DEF Waiting, Range
  <2> QED BY <2>1, <2>2
<1> QED BY <1>2, <1>5, <1>6, <1>7 DEF QueueInv, Lists, Listed

LEMMA CreatesAndStarts ==
  ASSUME QueueInv, stack' \in Seq(Frames), NEW t \in Threads, t \notin Born, NEW k \in Kinds,
         NEW c \in 0..Main, NEW fs \in SUBSET AllFlags, NEW from \in 0..MaxThreads,
         NewThread(t, k, c, fs, from),
         threads' = Append(threads, t), UNCHANGED queued, k # "none",
         c # Main \/ "queue" \notin fs
  PROVE  QueueInv'
<1>1. /\ kind' = [kind EXCEPT ![t] = k] /\ context' = [context EXCEPT ![t] = c]
      /\ flags' = [flags EXCEPT ![t] = fs] /\ caller' = [caller EXCEPT ![t] = from]
  BY DEF NewThread
<1>2. Born' = Born \cup {t}
  BY <1>1 DEF Born, QueueInv
<1>3. \A u \in Born : Queues(u)' <=> Queues(u)
  BY <1>1 DEF Born, QueueInv, Queues
<1>4. ~Queues(t)'
  BY <1>1 DEF Queues, QueueInv
<1>5. /\ threads' \in Seq(Threads) /\ Len(threads') = Len(threads) + 1
      /\ \A i \in 1..Len(threads) : threads'[i] = threads[i]
      /\ threads'[Len(threads) + 1] = t
  BY AppendProperties DEF QueueInv, Lists
<1>6. Len(threads) \in Nat /\ DOMAIN threads = 1..Len(threads)
      /\ DOMAIN threads' = 1..(Len(threads) + 1)
  BY <1>5 DEF QueueInv, Lists
<1>7. \A i \in 1..Len(threads) : threads[i] \in Born
  BY <1>6 DEF QueueInv, Listed, Range
<1>8. Listed' \subseteq Born'
  BY <1>2, <1>5, <1>6, <1>7 DEF Listed, Range
<1>9. ASSUME NEW i \in DOMAIN threads', NEW j \in DOMAIN threads',
             Queues(threads[i])' /\ Queues(threads[j])'
      PROVE  i = j
  <2>1. i \in 1..Len(threads) /\ j \in 1..Len(threads)
    BY <1>4, <1>5, <1>6, <1>9 DEF Queues
  <2>2. Queues(threads[i]) /\ Queues(threads[j])
    BY <1>1, <1>3, <1>5, <1>7, <1>9, <2>1 DEF Queues, QueueInv
  <2> QED BY <1>6, <2>1, <2>2 DEF QueueInv
<1>10. /\ kind' \in [Threads -> Kinds] /\ caller' \in [Threads -> 0..MaxThreads]
       /\ flags' \in [Threads -> SUBSET AllFlags] /\ context' \in [Threads -> 0..Main]
  BY <1>1 DEF QueueInv
<1>11. Waiting' \subseteq Born' /\ queued' \in Seq(Threads)
  BY <1>2 DEF QueueInv, Lists, Waiting
<1> QED BY <1>5, <1>8, <1>9, <1>10, <1>11 DEF QueueInv, Lists

LEMMA QueueInvKeeps ==
  ASSUME QueueInv, Next
  PROVE  QueueInv'
<1>0. stack' \in Seq(Frames)
  BY FramesKeep DEF QueueInv
<1>1. ASSUME Stop
      PROVE  QueueInv'
  BY <1>0, <1>1 DEF Stop, EmptyQueue, newVars, QueueInv, Lists, Queues, Listed, Waiting, Born, Range
<1>2. ASSUME NEW t \in Threads, NEW mode \in RunModes, Execute(t, mode)
      PROVE  QueueInv'
  <2>1. /\ UNCHANGED threads /\ (queued' = queued \/ queued' = <<>>)
        /\ NewThread(t, "top", Main, mode, None)
    BY <1>2 DEF Execute, EmptyQueue
  <2>2. /\ t \notin Born /\ "top" \in Kinds /\ Main \in 0..Main /\ mode \in SUBSET AllFlags
        /\ None \in 0..MaxThreads
    BY <2>1, ThreadTypes, ThreadConstants DEF NewThread, Fresh, Kinds, AllFlags, Main
  <2> QED BY <1>0, <2>1, <2>2, Creates
<1>3. ASSUME NEW t \in 0..MaxThreads, AbortRelated(t)
      PROVE  QueueInv'
  BY <1>0, <1>3 DEF AbortRelated, Step, BuiltinCalled, newVars, listVars, QueueInv, Lists, Queues,
     Listed, Waiting, Born, Range
<1>4. ASSUME NEW t \in Threads, EnterQueued(t)
      PROVE  QueueInv'
  <2>1. /\ queued' = Append(queued, t) /\ t \in Born
        /\ UNCHANGED <<threads, kind, caller, flags, context>>
    BY <1>4 DEF EnterQueued, newVars
  <2>2. /\ queued' \in Seq(Threads) /\ Len(queued') = Len(queued) + 1 /\ Len(queued) \in Nat
        /\ \A i \in 1..Len(queued) : queued'[i] = queued[i]
        /\ queued'[Len(queued) + 1] = t
    BY <2>1, AppendProperties DEF QueueInv, Lists
  <2>3. Waiting' \subseteq Born
    BY <2>1, <2>2 DEF QueueInv, Lists, Waiting, Range
  <2> QED BY <1>0, <2>1, <2>2, <2>3 DEF QueueInv, Lists, Queues, Listed, Born
<1>5. ASSUME NEW t \in Threads, EnterBusy(t) \/ ResumeNested(t) \/ ResumeAborted(t) \/ ResumeLoop(t)
              \/ Stepped(t) \/ TimeSlice(t)
      PROVE  QueueInv'
  BY <1>0, <1>5 DEF EnterBusy, ResumeNested, ResumeAborted, ResumeLoop, Stepped, TimeSlice, Step,
     BuiltinCalled, newVars, listVars, QueueInv, Lists, Queues, Listed, Waiting, Born, Range
<1>6. ASSUME NEW t \in Threads, EnterStarts(t)
      PROVE  QueueInv'
  <2>1. /\ threads' = Append(threads, t) /\ t \in Born /\ ~MustQueue(t) /\ ~IsBusy(t)
        /\ UNCHANGED <<queued, kind, caller, flags, context>>
    BY <1>6 DEF EnterStarts, Starts, newVars
  <2>2. ASSUME Queues(t), NEW u \in Listed
        PROVE  ~Queues(u)
    <3>1. CASE InContext(Main) = <<>>
      BY <3>1, NoQueues DEF QueueInv, Lists, Queues
    <3>2. CASE InContext(Main) # <<>>
      <4>1. ~FromQueue(InContext(Main))
        BY <2>1, <2>2, <3>2 DEF MustQueue, Queues
      <4>2. Range(InContext(Main)) = MainThreads
        BY InContextProperties DEF QueueInv, Lists, MainThreads
      <4> QED BY <4>1, <4>2, FromQueueIs DEF MainThreads, Queues
    <3> QED BY <3>1, <3>2
  <2>3. queued' \in Seq(Threads) /\ Waiting' \subseteq Born
    BY <2>1 DEF QueueInv, Lists, Waiting
  <2> QED BY <1>0, <2>1, <2>2, <2>3, Joins
<1>7. ASSUME NEW t \in Threads, StepEnds(t) \/ StepDelay(t) \/ StepAbortOwnChain(t) \/ Store(t)
              \/ Return(t) \/ AbortEnded(t)
      PROVE  QueueInv'
  BY <1>0, <1>7 DEF StepEnds, StepDelay, StepAbortOwnChain, Store, Return, AbortEnded, Step,
     BuiltinCalled, newVars, listVars, QueueInv, Lists, Queues, Listed, Waiting, Born, Range
<1>8. ASSUME NEW t \in Threads, StepAbortOthers(t)
      PROVE  QueueInv'
  BY <1>0, <1>8 DEF StepAbortOthers, BuiltinCalled, EmptyQueue, newVars, QueueInv, Lists, Queues,
     Listed, Waiting, Born, Range
<1>9. ASSUME NEW t \in Threads, AbortAlone(t) \/ AbortBuiltin(t) \/ AbortFunction(t) \/ Complete(t)
              \/ CallbackReturns(t) \/ SliceOver(t)
      PROVE  QueueInv'
  BY <1>0, <1>9 DEF AbortAlone, AbortBuiltin, AbortFunction, Complete, CallbackReturns, SliceOver,
     Step, BuiltinCalled, newVars, listVars, QueueInv, Lists, Queues, Listed, Waiting, Born, Range
<1>10. ASSUME NEW t \in Threads, Ended(t)
       PROVE  QueueInv'
  <2> DEFINE rest == Except(threads, t)
             others == Select(rest, {v \in Threads : context[v] = Main})
             next == context[t] = Main /\ MayStartNext(others)
  <2>1. /\ threads' = IF next THEN Append(rest, Head(queued)) ELSE rest
        /\ queued' = IF next THEN Tail(queued) ELSE queued
        /\ context' = [context EXCEPT ![t] = None]
        /\ UNCHANGED <<kind, caller, flags>>
    BY <1>10 DEF Ended, newVars
  <2>2. rest \in Seq(Threads) /\ Range(rest) = Listed \ {t}
    BY ExceptProperties DEF QueueInv, Lists, Listed
  <2>3. ASSUME NEW i \in DOMAIN rest, NEW j \in DOMAIN rest, Queues(rest[i]), Queues(rest[j])
        PROVE  i = j
    <3>1. PICK r : r = rest
      OBVIOUS
    <3>2. r = Select(threads, Threads \ {t}) /\ threads \in Seq(Threads)
      BY <3>1 DEF Except, QueueInv, Lists
    <3>3. i \in DOMAIN r /\ j \in DOMAIN r
      BY <3>1
    <3>4. PICK p, q \in DOMAIN threads :
            r[i] = threads[p] /\ r[j] = threads[q] /\ (p = q => i = j)
      BY <3>2, <3>3, SelectIndices
    <3>5. Queues(threads[p]) /\ Queues(threads[q])
      BY <2>3, <3>1, <3>4
    <3> QED BY <3>4, <3>5 DEF QueueInv
  <2>4. ASSUME NEW u \in Threads, Queues(u)'
        PROVE  Queues(u)
    <3>1. context' = [context EXCEPT ![t] = None] /\ context \in [Threads -> 0..Main] /\ flags' = flags
      BY <2>1 DEF QueueInv
    <3>2. context'[u] = Main /\ "queue" \in flags[u]
      BY <2>4, <3>1 DEF Queues
    <3>3. u # t
      BY <3>1, <3>2, ThreadTypes
    <3> QED BY <3>1, <3>2, <3>3 DEF Queues
  <2>5. Range(others) = {u \in Range(rest) : context[u] = Main}
    <3>1. Range(others) = Range(rest) \cap {v \in Threads : context[v] = Main}
      BY <2>2, SelectElements
    <3>2. Range(rest) \subseteq Threads
      BY <2>2 DEF Range
    <3> QED BY <3>1, <3>2
  <2> HIDE DEF rest, others
  <2>6. context' \in [Threads -> 0..Main] /\ Born' = Born
    <3>1. 0 \in 0..Main
      BY ThreadTypes
    <3> QED BY <2>1, <3>1 DEF QueueInv, None, Born
  <2>7. CASE ~next
    <3>1. threads' = rest /\ queued' = queued
      BY <2>1, <2>7
    <3>2. ASSUME NEW i \in DOMAIN threads', NEW j \in DOMAIN threads',
                 Queues(threads[i])' /\ Queues(threads[j])'
          PROVE  i = j
      <4>1. rest[i] \in Threads /\ rest[j] \in Threads
        BY <2>2, <3>1
      <4>2. Queues(rest[i]) /\ Queues(rest[j])
        BY <2>4, <3>1, <3>2, <4>1 DEF Queues
      <4> QED BY <2>3, <3>1, <4>2
    <3> QED BY <1>0, <2>1, <2>2, <2>6, <3>1, <3>2 DEF QueueInv, Lists, Listed, Waiting
  <2>8. CASE next
    <3>1. PICK h : h = Head(queued)
      OBVIOUS
    <3>2. queued # <<>> /\ ~FromQueue(others) /\ queued \in Seq(Threads)
      BY <2>8 DEF MayStartNext, QueueInv, Lists
    <3>3. /\ h \in Threads /\ h \in Waiting /\ queued' \in Seq(Threads)
          /\ Waiting' \subseteq Waiting
      <4>1. /\ h = queued[1] /\ 1 \in 1..Len(queued) /\ Len(queued) \in Nat
            /\ queued' = Tail(queued)
        BY <2>1, <2>8, <3>1, <3>2
      <4>2. /\ queued' \in Seq(Threads) /\ Len(queued') = Len(queued) - 1
            /\ \A i \in 1..Len(queued') : queued'[i] = queued[i + 1]
        BY <3>2, <4>1, HeadTailProperties
      <4> QED BY <3>2, <4>1, <4>2 DEF Waiting, Range
    <3>4. threads' = Append(rest, h)
      BY <2>1, <2>8, <3>1
    <3>5. /\ threads' \in Seq(Threads) /\ Len(threads') = Len(rest) + 1
          /\ \A i \in 1..Len(rest) : threads'[i] = rest[i]
          /\ threads'[Len(rest) + 1] = h
      BY <2>2, <3>3, <3>4, AppendProperties
    <3>6. /\ Len(rest) \in Nat /\ DOMAIN rest = 1..Len(rest) /\ DOMAIN threads' = 1..(Len(rest) + 1)
      BY <2>2, <3>5
    <3>7. ASSUME NEW u \in Range(rest)
          PROVE  ~Queues(u)
      <4> SUFFICES ASSUME Queues(u) PROVE FALSE
        OBVIOUS
      <4>1. u \in Range(others) /\ "queue" \in flags[u]
        BY <2>5 DEF Queues
      <4>2. PICK list : list = others
        OBVIOUS
      <4>3. u \in Range(list) /\ ~FromQueue(list)
        BY <3>2, <4>1, <4>2
      <4>4. PICK i \in DOMAIN list : u = list[i]
        BY <4>3 DEF Range
      <4>5. FromQueue(list)
        BY <4>1, <4>4 DEF FromQueue
      <4> QED BY <4>3, <4>5
    <3>8. Listed' \subseteq Born
      <4>1. \A k \in 1..Len(rest) : rest[k] \in Born
        BY <2>2, <3>6 DEF QueueInv, Range
      <4>2. h \in Born
        BY <3>3 DEF QueueInv
      <4>3. \A k \in DOMAIN threads' : threads'[k] \in Born
        BY <3>5, <3>6, <4>1, <4>2
      <4> QED BY <4>3 DEF Listed, Range
    <3>9. ASSUME NEW i \in DOMAIN threads', NEW j \in DOMAIN threads',
                 Queues(threads[i])' /\ Queues(threads[j])'
          PROVE  i = j
      <4>1. \A k \in 1..Len(rest) : ~Queues(threads'[k]) /\ threads'[k] \in Threads
        BY <2>2, <3>5, <3>6, <3>7 DEF Range
      <4>2. \A k \in 1..Len(rest) : ~Queues(threads[k])'
        BY <2>4, <4>1 DEF Queues
      <4>3. i \notin 1..Len(rest) /\ j \notin 1..Len(rest)
        BY <3>9, <4>2
      <4> QED BY <3>6, <4>3
    <3> QED BY <1>0, <2>1, <2>6, <3>3, <3>5, <3>8, <3>9 DEF QueueInv, Lists
  <2> QED BY <2>7, <2>8
<1>11. ASSUME NEW t \in Threads, NEW u \in Threads, StepAbort(t, u)
       PROVE  QueueInv'
  BY <1>0, <1>11 DEF StepAbort, Step, BuiltinCalled, newVars, listVars, QueueInv, Lists, Queues,
     Listed, Waiting, Born, Range
<1>12. ASSUME NEW t \in Threads, NEW u \in Threads, NEW k \in {"function", "eval"}, 
              StepCall(t, u, k)
       PROVE  QueueInv'
  <2>1. /\ UNCHANGED queued /\ threads' = Append(threads, u)
        /\ NewThread(u, k, u, IF k = "function" THEN flags[t] ELSE {"mainthread"}, t)
    BY <1>12 DEF StepCall, Starts
  <2>2. /\ u \notin Born /\ k \in Kinds /\ u \in 0..Main /\ t \in 0..MaxThreads
        /\ (IF k = "function" THEN flags[t] ELSE {"mainthread"}) \in SUBSET AllFlags
    BY <2>1, ThreadTypes DEF NewThread, Fresh, Kinds, AllFlags, Main, QueueInv
  <2>3. u # Main
    BY ThreadTypes
  <2> QED BY <1>0, <2>1, <2>2, <2>3, CreatesAndStarts
<1>13. ASSUME NEW t \in Threads, NEW u \in Threads, NEW as \in BOOLEAN, StepFork(t, u, as)
       PROVE  QueueInv'
  <2>1. /\ UNCHANGED queued /\ threads' = Append(threads, u)
        /\ NewThread(u, "fork", context[t], {"concurrently"}, None)
    BY <1>13 DEF StepFork, Starts
  <2>2. /\ u \notin Born /\ "fork" \in Kinds /\ context[t] \in 0..Main /\ None \in 0..MaxThreads
        /\ {"concurrently"} \in SUBSET AllFlags
    BY <2>1, ThreadTypes DEF NewThread, Fresh, Kinds, AllFlags, QueueInv
  <2>3. "queue" \notin {"concurrently"}
    OBVIOUS
  <2> QED BY <1>0, <2>1, <2>2, <2>3, CreatesAndStarts
<1>14. ASSUME NEW t \in Threads, DelayOver(t)
       PROVE  QueueInv'
  BY <1>0, <1>14 DEF DelayOver, Step, BuiltinCalled, newVars, listVars, QueueInv, Lists, Queues,
     Listed, Waiting, Born, Range
<1> QED BY <1>1, <1>2, <1>3, <1>4, <1>5, <1>6, <1>7, <1>8, <1>9, <1>10, <1>11, <1>12, <1>13, <1>14
       DEF Next, AppStep, ThreadStep, TimerStep

\* Of the threads that were queued, one is executing at a time.
THEOREM OneFromQueueHolds == Spec => []OneFromQueue
<1>1. Init => QueueInv
  BY ThreadTypes DEF Init, QueueInv, Lists, Listed, Waiting, Range, Kinds, AllFlags, None
<1>2. QueueInv /\ [Next]_vars => QueueInv'
  <2>1. QueueInv /\ UNCHANGED vars => QueueInv'
    BY DEF vars, listVars, newVars, QueueInv, Lists, Queues, Listed, Waiting, Born
  <2> QED BY <2>1, QueueInvKeeps
<1>3. QueueInv => OneFromQueue
  BY QueueInvImplies
<1> QED BY <1>1, <1>2, <1>3, PTL DEF Spec
-----------------------------------------------------------------------------
\* Threads with functions below the i-th that go on later, and those that wait for
\* one of them.
Below(i) == {u \in Threads : \E j \in 1..(i - 1) : stack[j].t = u /\ stack[j].fn # "abort"}
Awaited(i) == WithCallers(Below(i))

\* The types, and that the lists hold threads once.
TypeInv ==
  /\ kind \in [Threads -> Kinds] /\ call \in [Threads -> Calls]
  /\ flags \in [Threads -> SUBSET AllFlags]
  /\ caller \in [Threads -> 0..MaxThreads] /\ context \in [Threads -> 0..Main]
  /\ steps \in [Threads -> 0..MaxSteps] /\ calls \in [Threads -> 0..2]
  /\ broken \in BOOLEAN /\ resuming \subseteq Threads

ListInv ==
  /\ Listed \subseteq Born /\ Waiting \subseteq Born
  /\ IsInjective(threads) /\ IsInjective(queued)
  /\ \A t \in Listed : context[t] # None

SetInv ==
  dropped \subseteq Born /\ running \subseteq Born /\ aborted \subseteq Born /\ reports \subseteq Born

DataInv == Lists /\ TypeInv /\ ListInv /\ SetInv

\* Only threads that exist have functions under way.
FramesInv ==
  \A i \in 1..Depth : stack[i].t \in Born \/ stack[i] = Fn("abortRelated", None)

\* A step and complete() call nothing before they are replaced; what a step leaves
\* to be done lies upon the rest of that step.
ShapeAt(i) ==
  /\ stack[i].fn \in {"step", "complete"} => i = Depth
  /\ stack[i].fn \in {"return", "store"} => i > 1 /\ stack[i - 1] = Fn("stepped", stack[i].t)
  /\ stack[i].fn = "resume" /\ i < Depth => i > 1 /\ stack[i - 1] = Fn("stepped", stack[i].t)

ShapeInv == \A i \in 1..Depth : ShapeAt(i)

\* The execution loop of a thread is under way once, and mResuming says so.
Executes(i, t) == i \in 1..Depth /\ stack[i].t = t /\ stack[i].fn \in {"step", "stepped"}

ExecInv ==
  \A t \in Threads :
    /\ t \in resuming <=> \E i \in 1..Depth : Executes(i, t)
    /\ \A i, j \in 1..Depth : Executes(i, t) /\ Executes(j, t) => i = j

\* What is known of a thread that has a function under way.
Knows(fn, t) ==
  /\ fn \in {"resume", "step", "store", "complete"} => t \in running /\ call[t] = "none"
  /\ fn \in {"resume", "step", "store"} => t \notin slice
  /\ fn = "return" => t \in running /\ call[t] = "builtin"
  /\ fn \in {"ended", "callback"} => t \notin running

\* When a thread is being completed, no function below goes on with it.
GoesOn == {"resume", "store", "return"}

FrameInv ==
  \A i \in 1..Depth :
    /\ Knows(stack[i].fn, stack[i].t)
    /\ stack[i].fn = "complete" =>
         \A j \in 1..(i - 1) : stack[j].t = stack[i].t => stack[j].fn \notin GoesOn

\* abort() is under way for no thread that goes on later, nor for one that waits
\* for such a thread.
ClearAt(i) ==
  /\ stack[i].fn = "abort" /\ stack[i].t \in running => stack[i].t \notin Awaited(i)
  /\ stack[i].fn = "abortRelated" =>
       \A u \in Listed \cap running :
         context[u] # Main /\ u # stack[i].t => u \notin Awaited(i)

ClearInv == \A i \in 1..Depth : ClearAt(i)

\* Nothing is known of a thread before it starts: one that does not exist, that is
\* in the queue, or that is about to enter its context.
Unstarted(t) ==
  /\ t \notin running /\ t \notin aborted /\ t \notin resumed /\ t \notin slice /\ t \notin Listed
  /\ call[t] = "none"
  /\ \A f \in Threads : caller[f] # t

StartInv ==
  /\ \A t \in Threads : t \notin Born => Unstarted(t)
  /\ \A t \in Waiting :
       Unstarted(t) /\ context[t] = Main /\ \A i \in 1..Depth : stack[i].t # t
  /\ \A i \in 1..Depth : stack[i].fn = "enter" =>
       /\ Unstarted(stack[i].t) /\ context[stack[i].t] = Main /\ stack[i].t \notin Waiting
       /\ \A j \in 1..Depth : j # i => stack[j].t # stack[i].t

\* A thread that waits for a call is resumed by it; one that waits for none, and for
\* no timer, has a function under way that goes on with it.
GoesOnWith(t) ==
  \E i \in 1..Depth : stack[i].t = t /\ stack[i].fn \in {"resume", "store", "step", "complete"}

CallAt(t) ==
  /\ call[t] # "none" => t \in running /\ t \notin slice
  /\ t \in resumed => call[t] = "none" /\ t \notin slice
  /\ call[t] \in {"function", "eval"} =>
       \E f \in reports : caller[f] = t /\ kind[f] = call[t]
  /\ call[t] = "builtin" => \E i \in 1..Depth : stack[i] = Fn("return", t)
  /\ t \in running /\ call[t] = "none" /\ t \notin slice =>
       GoesOnWith(t) \/ (t \in resumed /\ t \in resuming)

CallInv == \A t \in Threads : CallAt(t)

\* Called code runs in a context of its own, until it tells its caller.
ThreadInv ==
  /\ slice \subseteq running /\ resumed \subseteq running
  /\ \A t \in running : context[t] # None
  /\ \A t \in Threads : context[t] \in Born \cup {None, Main}
  /\ \A f \in reports : kind[f] \in {"function", "eval"} =>
       f \in running /\ f \in Listed /\ context[f] = f /\ caller[f] # None
  /\ \A f \in Threads : caller[f] # None => caller[f] < f /\ caller[f] \in Born
  /\ \A t \in Born, u \in Threads : u < t => u \in Born

\* An aborted thread is about to end, or waits for a function that is aborted as well.
AbortAt(t) ==
  \/ Depth > 0 /\ stack[Depth] \in {Fn("complete", t), Fn("resume", t)}
  \/ /\ call[t] = "function"
     /\ \E f \in reports :
          /\ caller[f] = t /\ kind[f] = "function"
          /\ f \in aborted \/ \E i \in 1..Depth : stack[i] = Fn("abort", f)

AbortInv == \A t \in aborted \cap running : t \notin resuming /\ AbortAt(t)

IInv ==
  /\ DataInv /\ FramesInv /\ ShapeInv /\ ExecInv /\ FrameInv /\ ClearInv /\ StartInv
  /\ CallInv /\ ThreadInv /\ AbortInv

\* Threads that exist stay.
LEMMA BornStays ==
  ASSUME kind \in [Threads -> Kinds], Next
  PROVE  Born \subseteq Born'
<1>1. ASSUME Stop
      PROVE  Born \subseteq Born'
  BY <1>1 DEF Stop, BuiltinCalled, newVars, Born
<1>2. ASSUME NEW t \in Threads, NEW mode \in RunModes, Execute(t, mode)
      PROVE  Born \subseteq Born'
  <2>1. PICK x \in Threads, k \in Kinds : x \notin Born /\ kind' = [kind EXCEPT ![x] = k] /\ k # "none"
    BY <1>2 DEF Execute, NewThread, Fresh, Kinds
  <2> QED BY <2>1 DEF Born
<1>3. ASSUME NEW t \in 0..MaxThreads, AbortRelated(t)
      PROVE  Born \subseteq Born'
  BY <1>3 DEF AbortRelated, BuiltinCalled, newVars, Born
<1>4. ASSUME NEW t \in Threads, EnterQueued(t) \/ EnterBusy(t) \/ EnterStarts(t) \/ ResumeNested(t)
              \/ ResumeAborted(t) \/ ResumeLoop(t) \/ Stepped(t) \/ TimeSlice(t) \/ StepEnds(t)
              \/ StepDelay(t) \/ StepAbortOwnChain(t) \/ StepAbortOthers(t) \/ Store(t) \/ Return(t)
              \/ AbortEnded(t) \/ AbortAlone(t) \/ AbortBuiltin(t) \/ AbortFunction(t)
              \/ Complete(t) \/ CallbackReturns(t) \/ Ended(t) \/ SliceOver(t) \/ DelayOver(t)
      PROVE  Born \subseteq Born'
  BY <1>4 DEF EnterQueued, EnterBusy, EnterStarts, ResumeNested, ResumeAborted, ResumeLoop, Stepped,
     TimeSlice, StepEnds, StepDelay, StepAbortOwnChain, StepAbortOthers, Store, Return, AbortEnded,
     AbortAlone, AbortBuiltin, AbortFunction, Complete, CallbackReturns, Ended, SliceOver, DelayOver,
     BuiltinCalled, newVars, Born
<1>5. ASSUME NEW t \in Threads, NEW u \in Threads, StepAbort(t, u)
      PROVE  Born \subseteq Born'
  BY <1>5 DEF StepAbort, BuiltinCalled, newVars, Born
<1>6. ASSUME NEW t \in Threads, NEW u \in Threads, NEW k \in {"function", "eval"}, StepCall(t, u, k)
      PROVE  Born \subseteq Born'
  <2>1. PICK x \in Threads, kd \in Kinds : x \notin Born /\ kind' = [kind EXCEPT ![x] = kd] /\ kd # "none"
    BY <1>6 DEF StepCall, NewThread, Fresh, Kinds
  <2> QED BY <2>1 DEF Born
<1>7. ASSUME NEW t \in Threads, NEW u \in Threads, NEW as \in BOOLEAN, StepFork(t, u, as)
      PROVE  Born \subseteq Born'
  <2>1. PICK x \in Threads, k \in Kinds : x \notin Born /\ kind' = [kind EXCEPT ![x] = k] /\ k # "none"
    BY <1>7 DEF StepFork, NewThread, Fresh, Kinds
  <2> QED BY <2>1 DEF Born
<1> QED BY <1>1, <1>2, <1>3, <1>4, <1>5, <1>6, <1>7
       DEF Next, AppStep, ThreadStep, TimerStep

LEMMA CallerTypes ==
  ASSUME DataInv
  PROVE  \A t \in Threads : caller[t] \in 0..MaxThreads
BY DEF DataInv, TypeInv, ListInv, SetInv

LEMMA FramesInvKeeps ==
  ASSUME IInv, Next
  PROVE  FramesInv'
<1>0. /\ DataInv /\ FramesInv /\ Lists /\ Born \subseteq Born' /\ Listed \subseteq Born /\ Waiting \subseteq Born
      /\ \A u \in Threads : call[u] # "none" => u \in Born
      /\ slice \subseteq Born
  BY BornStays DEF IInv, DataInv, TypeInv, ListInv, SetInv, CallInv, CallAt, ThreadInv
<1>1. ASSUME Stop
      PROVE  FramesInv'
  <2>1. /\ Same(Depth) /\ Aborts(Depth + 2, MainThreads)
        /\ stack'[Depth + 1] = Fn("abortRelated", None) /\ Depth \in Nat
    BY <1>0, <1>1, StopEffect DEF Lists, Depth
  <2> QED BY <1>0, <2>1 DEF FramesInv, Pops, Becomes1, Becomes2, Becomes3, Adds1, Aborts, Same, On,
             Fn, MainThreads
<1>2. ASSUME NEW t \in Threads, NEW mode \in RunModes, Execute(t, mode)
      PROVE  FramesInv'
  <2>1. /\ IF "stoprunning" \in mode
             THEN /\ Same(Depth) /\ Aborts(Depth + 3, MainThreads)
                  /\ stack'[Depth + 1] = Fn("enter", t) /\ stack'[Depth + 2] = Fn("abortRelated", None)
             ELSE Adds1(Fn("enter", t))
    BY <1>0, <1>2, ExecuteEffect
  <2>2. t \in Born' /\ Depth \in Nat
    BY <1>0, <1>2 DEF Execute, NewThread, Born, DataInv, TypeInv, ListInv, SetInv, Lists, Depth
  <2>3. CASE "stoprunning" \in mode
    <3>1. \A i \in 1..Depth' : \/ i \in 1..Depth /\ stack'[i] = stack[i]
                             \/ stack'[i] = Fn("enter", t) \/ stack'[i] = Fn("abortRelated", None)
                             \/ stack'[i].t \in Listed
      BY <2>1, <2>2, <2>3, SMTT(30) DEF Same, Aborts, MainThreads
    <3> QED BY <1>0, <2>2, <3>1 DEF FramesInv, Fn
  <2>4. CASE "stoprunning" \notin mode
    BY <1>0, <2>1, <2>2, <2>4 DEF FramesInv, Same, Adds1, Fn
  <2> QED BY <2>3, <2>4
<1>3. ASSUME NEW t \in 0..MaxThreads, AbortRelated(t)
      PROVE  FramesInv'
  <2>1. /\ On("abortRelated", t) /\ Same(Depth - 1)
        /\ Aborts(Depth, {u \in Listed : context[u] # Main /\ u # t})
    BY <1>0, <1>3, AbortRelatedEffect
  <2> QED BY <1>0, <2>1 DEF FramesInv, Pops, Becomes1, Becomes2, Becomes3, Adds1, Aborts, Same, On, Fn
<1>4. ASSUME NEW t \in Threads, EnterQueued(t)
      PROVE  FramesInv'
  <2>1. /\ On("enter", t)
        /\ Pops
    BY <1>0, <1>4, EnterQueuedEffect
  <2> QED BY <1>0, <2>1 DEF FramesInv, Pops, Becomes1, Becomes2, Becomes3, Adds1, Aborts, Same, On, Fn
<1>5. ASSUME NEW t \in Threads, EnterBusy(t) \/ EnterStarts(t)
      PROVE  FramesInv'
  <2>1. /\ On("enter", t)
        /\ Becomes1(Fn("resume", t))
    BY <1>0, <1>5, EnterBusyEffect, EnterStartsEffect
  <2> QED BY <1>0, <2>1 DEF FramesInv, Pops, Becomes1, Becomes2, Becomes3, Adds1, Aborts, Same, On, Fn
<1>6. ASSUME NEW t \in Threads, ResumeNested(t)
      PROVE  FramesInv'
  <2>1. /\ On("resume", t)
        /\ Pops
    BY <1>0, <1>6, ResumeNestedEffect
  <2> QED BY <1>0, <2>1 DEF FramesInv, Pops, Becomes1, Becomes2, Becomes3, Adds1, Aborts, Same, On, Fn
<1>7. ASSUME NEW t \in Threads, ResumeAborted(t)
      PROVE  FramesInv'
  <2>1. /\ On("resume", t)
        /\ Becomes1(Fn("complete", t))
    BY <1>0, <1>7, ResumeAbortedEffect
  <2> QED BY <1>0, <2>1 DEF FramesInv, Pops, Becomes1, Becomes2, Becomes3, Adds1, Aborts, Same, On, Fn
<1>8. ASSUME NEW t \in Threads, ResumeLoop(t)
      PROVE  FramesInv'
  <2>1. /\ On("resume", t)
        /\ Becomes1(Fn("step", t))
    BY <1>0, <1>8, ResumeLoopEffect
  <2> QED BY <1>0, <2>1 DEF FramesInv, Pops, Becomes1, Becomes2, Becomes3, Adds1, Aborts, Same, On, Fn
<1>9. ASSUME NEW t \in Threads, Stepped(t)
      PROVE  FramesInv'
  <2>1. /\ On("stepped", t)
        /\ IF t \in resumed /\ t \notin aborted THEN Becomes1(Fn("step", t)) ELSE Pops
    BY <1>0, <1>9, SteppedEffect
  <2> QED BY <1>0, <2>1 DEF FramesInv, Pops, Becomes1, Becomes2, Becomes3, Adds1, Aborts, Same, On, Fn
<1>10. ASSUME NEW t \in Threads, TimeSlice(t)
       PROVE  FramesInv'
  <2>1. /\ On("step", t)
        /\ Pops
    BY <1>0, <1>10, TimeSliceEffect
  <2> QED BY <1>0, <2>1 DEF FramesInv, Pops, Becomes1, Becomes2, Becomes3, Adds1, Aborts, Same, On, Fn
<1>11. ASSUME NEW t \in Threads, StepEnds(t)
       PROVE  FramesInv'
  <2>1. /\ On("step", t)
        /\ Becomes2(Fn("complete", t), Fn("stepped", t))
    BY <1>0, <1>11, StepEndsEffect
  <2> QED BY <1>0, <2>1 DEF FramesInv, Pops, Becomes1, Becomes2, Becomes3, Adds1, Aborts, Same, On, Fn
<1>12. ASSUME NEW t \in Threads, StepDelay(t)
       PROVE  FramesInv'
  <2>1. /\ On("step", t)
        /\ Becomes1(Fn("stepped", t))
    BY <1>0, <1>12, StepDelayEffect
  <2> QED BY <1>0, <2>1 DEF FramesInv, Pops, Becomes1, Becomes2, Becomes3, Adds1, Aborts, Same, On, Fn
<1>13. ASSUME NEW t \in Threads, StepAbortOwnChain(t)
       PROVE  FramesInv'
  <2>1. /\ On("step", t)
        /\ Becomes2(Fn("return", t), Fn("stepped", t))
    BY <1>0, <1>13, StepAbortOwnChainEffect
  <2> QED BY <1>0, <2>1 DEF FramesInv, Pops, Becomes1, Becomes2, Becomes3, Adds1, Aborts, Same, On, Fn
<1>14. ASSUME NEW t \in Threads, StepAbortOthers(t)
       PROVE  FramesInv'
  <2>1. /\ On("step", t) /\ Same(Depth - 1) /\ Aborts(Depth + 3, MainThreads \ {t})
        /\ stack'[Depth] = Fn("stepped", t)
        /\ stack'[Depth + 1] = Fn("return", t) /\ stack'[Depth + 2] = Fn("abortRelated", t)
    BY <1>0, <1>14, StepAbortOthersEffect
  <2>2. t \in Born
    BY <1>0, <2>1, ThreadTypes DEF FramesInv, On, Fn
  <2>3. \A i \in 1..Depth' : \/ i \in 1..Depth /\ stack'[i] = stack[i]
                           \/ stack'[i].t = t \/ stack'[i].t \in Listed
    BY <2>1 DEF Same, On, Aborts, MainThreads, Fn
  <2> QED BY <1>0, <2>2, <2>3 DEF FramesInv, Fn
<1>15. ASSUME NEW t \in Threads, Store(t)
       PROVE  FramesInv'
  <2>1. /\ On("store", t)
        /\ IF context[t] # None THEN Becomes1(Fn("resume", t)) ELSE UNCHANGED stack /\ Depth' = Depth
    BY <1>0, <1>15, StoreEffect DEF Store, Depth
  <2>2. t \in Born
    BY <1>0, <2>1, ThreadTypes DEF FramesInv, On, Fn
  <2> QED BY <1>0, <2>1, <2>2 DEF FramesInv, Pops, Becomes1, Becomes2, Becomes3, Adds1, Aborts, Same,
             On, Fn
<1>16. ASSUME NEW t \in Threads, Return(t)
       PROVE  FramesInv'
  <2>1. /\ On("return", t)
        /\ IF call[t] = "builtin" THEN Becomes1(Fn("resume", t)) ELSE Pops
    BY <1>0, <1>16, ReturnEffect
  <2> QED BY <1>0, <2>1 DEF FramesInv, Pops, Becomes1, Becomes2, Becomes3, Adds1, Aborts, Same, On, Fn
<1>17. ASSUME NEW t \in Threads, AbortEnded(t)
       PROVE  FramesInv'
  <2>1. /\ On("abort", t)
        /\ Pops
    BY <1>0, <1>17, AbortEndedEffect
  <2> QED BY <1>0, <2>1 DEF FramesInv, Pops, Becomes1, Becomes2, Becomes3, Adds1, Aborts, Same, On, Fn
<1>18. ASSUME NEW t \in Threads, AbortAlone(t)
       PROVE  FramesInv'
  <2>1. /\ On("abort", t)
        /\ Becomes1(Fn("complete", t))
    BY <1>0, <1>18, AbortAloneEffect
  <2> QED BY <1>0, <2>1 DEF FramesInv, Pops, Becomes1, Becomes2, Becomes3, Adds1, Aborts, Same, On, Fn
<1>19. ASSUME NEW t \in Threads, AbortBuiltin(t)
       PROVE  FramesInv'
  <2>1. /\ On("abort", t)
        /\ Becomes1(Fn("resume", t))
    BY <1>0, <1>19, AbortBuiltinEffect
  <2> QED BY <1>0, <2>1 DEF FramesInv, Pops, Becomes1, Becomes2, Becomes3, Adds1, Aborts, Same, On, Fn
<1>20. ASSUME NEW t \in Threads, AbortFunction(t)
       PROVE  FramesInv'
  <2>1. /\ On("abort", t) /\ Same(Depth - 1)
        /\ Aborts(Depth, {u \in Listed : context[u] = Callee(t)})
    BY <1>0, <1>20, AbortFunctionEffect
  <2> QED BY <1>0, <2>1 DEF FramesInv, Pops, Becomes1, Becomes2, Becomes3, Adds1, Aborts, Same, On, Fn
<1>21. ASSUME NEW t \in Threads, Complete(t)
       PROVE  FramesInv'
  <2>1. /\ On("complete", t)
        /\ IF t \in reports /\ caller[t] # None /\ call[caller[t]] = kind[t]
             THEN Becomes2(Fn("resume", caller[t]), Fn("ended", t))
           ELSE IF t \in reports /\ caller[t] = None
             THEN Becomes2(Fn("callback", t), Fn("ended", t))
           ELSE Becomes1(Fn("ended", t))
    BY <1>0, <1>21, CompleteEffect, CallerTypes
  <2>2. t \in Born /\ Depth \in Nat /\ caller[t] \in 0..MaxThreads /\ t # None
    BY <1>0, <2>1, ThreadTypes, CallerTypes DEF FramesInv, On, Fn
  <2>3. caller[t] # None /\ call[caller[t]] = kind[t] => caller[t] \in Born
    BY <1>0, <2>2 DEF Born, None, Threads
  <2> QED BY <1>0, <2>1, <2>2, <2>3, SMTT(30) DEF FramesInv, Pops, Becomes1, Becomes2, Becomes3,
             Adds1, Aborts, Same, On, Fn
<1>22. ASSUME NEW t \in Threads, CallbackReturns(t)
       PROVE  FramesInv'
  <2>1. /\ On("callback", t)
        /\ Pops
    BY <1>0, <1>22, CallbackReturnsEffect
  <2> QED BY <1>0, <2>1 DEF FramesInv, Pops, Becomes1, Becomes2, Becomes3, Adds1, Aborts, Same, On, Fn
<1>23. ASSUME NEW t \in Threads, Ended(t)
       PROVE  FramesInv'
  <2> DEFINE next == context[t] = Main
                      /\ MayStartNext(Select(Except(threads, t), {u \in Threads : context[u] = Main}))
  <2>1. /\ On("ended", t)
        /\ IF next THEN Becomes1(Fn("resume", Head(queued))) ELSE Pops
    BY <1>0, <1>23, EndedEffect
  <2>2. next => Head(queued) \in Waiting
    BY <1>0 DEF MayStartNext, Lists, Waiting, Range
  <2> HIDE DEF next
  <2> QED BY <1>0, <2>1, <2>2 DEF FramesInv, Pops, Becomes1, Becomes2, Becomes3, Adds1, Aborts, Same,
             On, Fn
<1>24. ASSUME NEW t \in Threads, NEW u \in Threads, StepAbort(t, u)
       PROVE  FramesInv'
  <2>1. /\ On("step", t)
        /\ Becomes3(Fn("abort", u), Fn("return", t), Fn("stepped", t))
    BY <1>0, <1>24, StepAbortEffect
  <2>2. u \in Born
    BY <1>0, <1>24 DEF StepAbort, DataInv, TypeInv, ListInv, SetInv
  <2> QED BY <1>0, <2>1, <2>2 DEF FramesInv, Pops, Becomes1, Becomes2, Becomes3, Adds1, Aborts, Same,
             On, Fn
<1>25. ASSUME NEW t \in Threads, NEW u \in Threads, NEW k \in {"function", "eval"}, 
              StepCall(t, u, k)
       PROVE  FramesInv'
  <2>1. /\ On("step", t)
        /\ Becomes2(Fn("resume", u), Fn("stepped", t))
    BY <1>0, <1>25, StepCallEffect
  <2>2. u \in Born'
    BY <1>0, <1>25 DEF StepCall, NewThread, Born, DataInv, TypeInv, ListInv, SetInv
  <2> QED BY <1>0, <2>1, <2>2 DEF FramesInv, Pops, Becomes1, Becomes2, Becomes3, Adds1, Aborts, Same,
             On, Fn
<1>26. ASSUME NEW t \in Threads, NEW u \in Threads, NEW as \in BOOLEAN, StepFork(t, u, as)
       PROVE  FramesInv'
  <2>1. PICK fn2 \in {"store", "resume"} :
         On("step", t) /\ Becomes3(Fn("resume", u), Fn(fn2, t), Fn("stepped", t))
    BY <1>0, <1>26, StepForkEffect
  <2>2. u \in Born'
    BY <1>0, <1>26 DEF StepFork, NewThread, Born, DataInv, TypeInv, ListInv, SetInv
  <2>3. t \in Born
    BY <1>0, <2>1, ThreadTypes DEF FramesInv, On, Fn
  <2>4. \A i \in 1..Depth' : \/ i \in 1..Depth /\ stack'[i] = stack[i]
                           \/ stack'[i].t = t \/ stack'[i].t = u
    BY <2>1 DEF On, Becomes3, Same, Fn
  <2> QED BY <1>0, <2>2, <2>3, <2>4 DEF FramesInv
<1>27. ASSUME NEW t \in Threads, SliceOver(t) \/ DelayOver(t)
       PROVE  FramesInv'
  <2>1. Depth = 0 /\ Adds1(Fn("resume", t))
    BY <1>0, <1>27, SliceOverEffect, DelayOverEffect
  <2>2. t \in Born /\ Depth \in Nat
    BY <1>0, <1>27 DEF SliceOver, DelayOver, Lists, Depth
  <2> QED BY <1>0, <2>1, <2>2 DEF FramesInv, Pops, Becomes1, Becomes2, Becomes3, Adds1, Aborts, Same,
             On, Fn
<1> QED BY <1>1, <1>2, <1>3, <1>4, <1>5, <1>6, <1>7, <1>8, <1>9, <1>10, <1>11, <1>12, <1>13, <1>14,
           <1>15, <1>16, <1>17, <1>18, <1>19, <1>20, <1>21, <1>22, <1>23, <1>24, <1>25, <1>26, <1>27
       DEF Next, AppStep, ThreadStep, TimerStep

LEMMA ShapeInvKeeps ==
  ASSUME IInv, Next
  PROVE  ShapeInv'
<1>0. DataInv /\ ShapeInv /\ Lists
  BY DEF IInv, DataInv, TypeInv, ListInv, SetInv
<1>1. ASSUME Stop
      PROVE  ShapeInv'
  <2>1. /\ Same(Depth) /\ Aborts(Depth + 2, MainThreads)
        /\ stack'[Depth + 1] = Fn("abortRelated", None) /\ Depth \in Nat
    BY <1>0, <1>1, StopEffect DEF Lists, Depth
  <2>2. Depth = 0 \/ (Depth > 0 /\ stack[Depth].fn = "callback")
    <3>1. App("stop")
      BY <1>1 DEF Stop
    <3> QED BY <1>0, <3>1, AppEffect
  <2>3. Depth \in Nat
    BY <1>0 DEF Lists, Depth
  <2> SUFFICES ASSUME NEW i \in 1..Depth' PROVE ShapeAt(i)'
    BY DEF ShapeInv
  <2>8. i \in 1..Depth => ShapeAt(i)
    BY <1>0 DEF ShapeInv
  <2> QED BY <1>0, <2>1, <2>2, <2>3, <2>8, SMTT(30) DEF ShapeAt, Pops, Becomes1, Becomes2, Becomes3,
             Adds1, Aborts, Same, On, Fn
<1>2. ASSUME NEW t \in Threads, NEW mode \in RunModes, Execute(t, mode)
      PROVE  ShapeInv'
  <2>1. /\ IF "stoprunning" \in mode
             THEN /\ Same(Depth) /\ Aborts(Depth + 3, MainThreads)
                  /\ stack'[Depth + 1] = Fn("enter", t) /\ stack'[Depth + 2] = Fn("abortRelated", None)
             ELSE Adds1(Fn("enter", t))
    BY <1>0, <1>2, ExecuteEffect
  <2>2. Depth = 0 \/ (Depth > 0 /\ stack[Depth].fn = "callback")
    <3>1. App("run")
      BY <1>2 DEF Execute
    <3> QED BY <1>0, <3>1, AppEffect
  <2>3. Depth \in Nat
    BY <1>0 DEF Lists, Depth
  <2>4. CASE "stoprunning" \in mode
    BY <1>0, <2>1, <2>2, <2>3, <2>4 DEF ShapeInv, ShapeAt, Same, Aborts, Fn
  <2>5. CASE "stoprunning" \notin mode
    BY <1>0, <2>1, <2>2, <2>3, <2>5 DEF ShapeInv, ShapeAt, Same, Adds1, Fn
  <2> QED BY <2>4, <2>5
<1>3. ASSUME NEW t \in 0..MaxThreads, AbortRelated(t)
      PROVE  ShapeInv'
  <2>1. /\ On("abortRelated", t) /\ Same(Depth - 1)
        /\ Aborts(Depth, {u \in Listed : context[u] # Main /\ u # t})
    BY <1>0, <1>3, AbortRelatedEffect
  <2> SUFFICES ASSUME NEW i \in 1..Depth' PROVE ShapeAt(i)'
    BY DEF ShapeInv
  <2>8. i \in 1..Depth => ShapeAt(i)
    BY <1>0 DEF ShapeInv
  <2> QED BY <1>0, <2>1, <2>8 DEF ShapeAt, Pops, Becomes1, Becomes2, Becomes3, Adds1, Aborts, Same,
             On, Fn
<1>4. ASSUME NEW t \in Threads, EnterQueued(t)
      PROVE  ShapeInv'
  <2>1. /\ On("enter", t)
        /\ Pops
    BY <1>0, <1>4, EnterQueuedEffect
  <2> SUFFICES ASSUME NEW i \in 1..Depth' PROVE ShapeAt(i)'
    BY DEF ShapeInv
  <2>8. i \in 1..Depth => ShapeAt(i)
    BY <1>0 DEF ShapeInv
  <2> QED BY <1>0, <2>1, <2>8 DEF ShapeAt, Pops, Becomes1, Becomes2, Becomes3, Adds1, Aborts, Same,
             On, Fn
<1>5. ASSUME NEW t \in Threads, EnterBusy(t) \/ EnterStarts(t)
      PROVE  ShapeInv'
  <2>1. /\ On("enter", t)
        /\ Becomes1(Fn("resume", t))
    BY <1>0, <1>5, EnterBusyEffect, EnterStartsEffect
  <2> SUFFICES ASSUME NEW i \in 1..Depth' PROVE ShapeAt(i)'
    BY DEF ShapeInv
  <2>8. i \in 1..Depth => ShapeAt(i)
    BY <1>0 DEF ShapeInv
  <2> QED BY <1>0, <2>1, <2>8 DEF ShapeAt, Pops, Becomes1, Becomes2, Becomes3, Adds1, Aborts, Same,
             On, Fn
<1>6. ASSUME NEW t \in Threads, ResumeNested(t)
      PROVE  ShapeInv'
  <2>1. /\ On("resume", t)
        /\ Pops
    BY <1>0, <1>6, ResumeNestedEffect
  <2> SUFFICES ASSUME NEW i \in 1..Depth' PROVE ShapeAt(i)'
    BY DEF ShapeInv
  <2>8. i \in 1..Depth => ShapeAt(i)
    BY <1>0 DEF ShapeInv
  <2> QED BY <1>0, <2>1, <2>8 DEF ShapeAt, Pops, Becomes1, Becomes2, Becomes3, Adds1, Aborts, Same,
             On, Fn
<1>7. ASSUME NEW t \in Threads, ResumeAborted(t)
      PROVE  ShapeInv'
  <2>1. /\ On("resume", t)
        /\ Becomes1(Fn("complete", t))
    BY <1>0, <1>7, ResumeAbortedEffect
  <2> SUFFICES ASSUME NEW i \in 1..Depth' PROVE ShapeAt(i)'
    BY DEF ShapeInv
  <2>8. i \in 1..Depth => ShapeAt(i)
    BY <1>0 DEF ShapeInv
  <2> QED BY <1>0, <2>1, <2>8 DEF ShapeAt, Pops, Becomes1, Becomes2, Becomes3, Adds1, Aborts, Same,
             On, Fn
<1>8. ASSUME NEW t \in Threads, ResumeLoop(t)
      PROVE  ShapeInv'
  <2>1. /\ On("resume", t)
        /\ Becomes1(Fn("step", t))
    BY <1>0, <1>8, ResumeLoopEffect
  <2> SUFFICES ASSUME NEW i \in 1..Depth' PROVE ShapeAt(i)'
    BY DEF ShapeInv
  <2>8. i \in 1..Depth => ShapeAt(i)
    BY <1>0 DEF ShapeInv
  <2> QED BY <1>0, <2>1, <2>8 DEF ShapeAt, Pops, Becomes1, Becomes2, Becomes3, Adds1, Aborts, Same,
             On, Fn
<1>9. ASSUME NEW t \in Threads, Stepped(t)
      PROVE  ShapeInv'
  <2>1. /\ On("stepped", t)
        /\ IF t \in resumed /\ t \notin aborted THEN Becomes1(Fn("step", t)) ELSE Pops
    BY <1>0, <1>9, SteppedEffect
  <2> SUFFICES ASSUME NEW i \in 1..Depth' PROVE ShapeAt(i)'
    BY DEF ShapeInv
  <2>8. i \in 1..Depth => ShapeAt(i)
    BY <1>0 DEF ShapeInv
  <2> QED BY <1>0, <2>1, <2>8 DEF ShapeAt, Pops, Becomes1, Becomes2, Becomes3, Adds1, Aborts, Same,
             On, Fn
<1>10. ASSUME NEW t \in Threads, TimeSlice(t)
       PROVE  ShapeInv'
  <2>1. /\ On("step", t)
        /\ Pops
    BY <1>0, <1>10, TimeSliceEffect
  <2> SUFFICES ASSUME NEW i \in 1..Depth' PROVE ShapeAt(i)'
    BY DEF ShapeInv
  <2>8. i \in 1..Depth => ShapeAt(i)
    BY <1>0 DEF ShapeInv
  <2> QED BY <1>0, <2>1, <2>8 DEF ShapeAt, Pops, Becomes1, Becomes2, Becomes3, Adds1, Aborts, Same,
             On, Fn
<1>11. ASSUME NEW t \in Threads, StepEnds(t)
       PROVE  ShapeInv'
  <2>1. /\ On("step", t)
        /\ Becomes2(Fn("complete", t), Fn("stepped", t))
    BY <1>0, <1>11, StepEndsEffect
  <2> SUFFICES ASSUME NEW i \in 1..Depth' PROVE ShapeAt(i)'
    BY DEF ShapeInv
  <2>8. i \in 1..Depth => ShapeAt(i)
    BY <1>0 DEF ShapeInv
  <2> QED BY <1>0, <2>1, <2>8 DEF ShapeAt, Pops, Becomes1, Becomes2, Becomes3, Adds1, Aborts, Same,
             On, Fn
<1>12. ASSUME NEW t \in Threads, StepDelay(t)
       PROVE  ShapeInv'
  <2>1. /\ On("step", t)
        /\ Becomes1(Fn("stepped", t))
    BY <1>0, <1>12, StepDelayEffect
  <2> SUFFICES ASSUME NEW i \in 1..Depth' PROVE ShapeAt(i)'
    BY DEF ShapeInv
  <2>8. i \in 1..Depth => ShapeAt(i)
    BY <1>0 DEF ShapeInv
  <2> QED BY <1>0, <2>1, <2>8 DEF ShapeAt, Pops, Becomes1, Becomes2, Becomes3, Adds1, Aborts, Same,
             On, Fn
<1>13. ASSUME NEW t \in Threads, StepAbortOwnChain(t)
       PROVE  ShapeInv'
  <2>1. /\ On("step", t)
        /\ Becomes2(Fn("return", t), Fn("stepped", t))
    BY <1>0, <1>13, StepAbortOwnChainEffect
  <2> SUFFICES ASSUME NEW i \in 1..Depth' PROVE ShapeAt(i)'
    BY DEF ShapeInv
  <2>8. i \in 1..Depth => ShapeAt(i)
    BY <1>0 DEF ShapeInv
  <2> QED BY <1>0, <2>1, <2>8 DEF ShapeAt, Pops, Becomes1, Becomes2, Becomes3, Adds1, Aborts, Same,
             On, Fn
<1>14. ASSUME NEW t \in Threads, StepAbortOthers(t)
       PROVE  ShapeInv'
  <2>1. /\ On("step", t) /\ Same(Depth - 1) /\ Aborts(Depth + 3, MainThreads \ {t})
        /\ stack'[Depth] = Fn("stepped", t)
        /\ stack'[Depth + 1] = Fn("return", t) /\ stack'[Depth + 2] = Fn("abortRelated", t)
    BY <1>0, <1>14, StepAbortOthersEffect
  <2> SUFFICES ASSUME NEW i \in 1..Depth' PROVE ShapeAt(i)'
    BY DEF ShapeInv
  <2>8. i \in 1..Depth => ShapeAt(i)
    BY <1>0 DEF ShapeInv
  <2>3. i \in Int /\ Depth \in Nat /\ Depth > 0
    BY <2>1 DEF On
  <2>4. Depth' \in Nat /\ Depth' >= Depth + 2 /\ \A j \in (Depth + 3)..Depth' : stack'[j].fn = "abort"
    BY <2>1, <2>3 DEF Same, Aborts
  <2>9. CASE i < Depth
    BY <2>1, <2>3, <2>8, <2>9, SMTT(30) DEF ShapeAt, Same, On
  <2>5. CASE i = Depth
    BY <2>1, <2>3, <2>4, <2>5 DEF ShapeAt, Fn
  <2>6. CASE i = Depth + 1
    <3>1. i - 1 = Depth /\ i > 1
      BY <2>1, <2>3, <2>6 DEF On
    <3> QED BY <3>1, <2>1, <2>3, <2>4, <2>6 DEF ShapeAt, Fn
  <2>7. CASE i = Depth + 2
    BY <2>1, <2>3, <2>4, <2>7 DEF ShapeAt, Fn
  <2>16. CASE i \in (Depth + 3)..Depth'
    BY <2>3, <2>4, <2>16 DEF ShapeAt, Fn
  <2> QED BY <2>3, <2>4, <2>9, <2>5, <2>6, <2>7, <2>16
<1>15. ASSUME NEW t \in Threads, Store(t)
       PROVE  ShapeInv'
  <2>1. /\ On("store", t)
        /\ IF context[t] # None THEN Becomes1(Fn("resume", t)) ELSE UNCHANGED stack /\ Depth' = Depth
    BY <1>0, <1>15, StoreEffect DEF Store, Depth
  <2> SUFFICES ASSUME NEW i \in 1..Depth' PROVE ShapeAt(i)'
    BY DEF ShapeInv
  <2>8. i \in 1..Depth => ShapeAt(i)
    BY <1>0 DEF ShapeInv
  <2> QED BY <1>0, <2>1, <2>8 DEF ShapeAt, Pops, Becomes1, Becomes2, Becomes3, Adds1, Aborts, Same,
             On, Fn
<1>16. ASSUME NEW t \in Threads, Return(t)
       PROVE  ShapeInv'
  <2>1. /\ On("return", t)
        /\ IF call[t] = "builtin" THEN Becomes1(Fn("resume", t)) ELSE Pops
    BY <1>0, <1>16, ReturnEffect
  <2> SUFFICES ASSUME NEW i \in 1..Depth' PROVE ShapeAt(i)'
    BY DEF ShapeInv
  <2>8. i \in 1..Depth => ShapeAt(i)
    BY <1>0 DEF ShapeInv
  <2> QED BY <1>0, <2>1, <2>8 DEF ShapeAt, Pops, Becomes1, Becomes2, Becomes3, Adds1, Aborts, Same,
             On, Fn
<1>17. ASSUME NEW t \in Threads, AbortEnded(t)
       PROVE  ShapeInv'
  <2>1. /\ On("abort", t)
        /\ Pops
    BY <1>0, <1>17, AbortEndedEffect
  <2> SUFFICES ASSUME NEW i \in 1..Depth' PROVE ShapeAt(i)'
    BY DEF ShapeInv
  <2>8. i \in 1..Depth => ShapeAt(i)
    BY <1>0 DEF ShapeInv
  <2> QED BY <1>0, <2>1, <2>8 DEF ShapeAt, Pops, Becomes1, Becomes2, Becomes3, Adds1, Aborts, Same,
             On, Fn
<1>18. ASSUME NEW t \in Threads, AbortAlone(t)
       PROVE  ShapeInv'
  <2>1. /\ On("abort", t)
        /\ Becomes1(Fn("complete", t))
    BY <1>0, <1>18, AbortAloneEffect
  <2> SUFFICES ASSUME NEW i \in 1..Depth' PROVE ShapeAt(i)'
    BY DEF ShapeInv
  <2>8. i \in 1..Depth => ShapeAt(i)
    BY <1>0 DEF ShapeInv
  <2> QED BY <1>0, <2>1, <2>8 DEF ShapeAt, Pops, Becomes1, Becomes2, Becomes3, Adds1, Aborts, Same,
             On, Fn
<1>19. ASSUME NEW t \in Threads, AbortBuiltin(t)
       PROVE  ShapeInv'
  <2>1. /\ On("abort", t)
        /\ Becomes1(Fn("resume", t))
    BY <1>0, <1>19, AbortBuiltinEffect
  <2> SUFFICES ASSUME NEW i \in 1..Depth' PROVE ShapeAt(i)'
    BY DEF ShapeInv
  <2>8. i \in 1..Depth => ShapeAt(i)
    BY <1>0 DEF ShapeInv
  <2> QED BY <1>0, <2>1, <2>8 DEF ShapeAt, Pops, Becomes1, Becomes2, Becomes3, Adds1, Aborts, Same,
             On, Fn
<1>20. ASSUME NEW t \in Threads, AbortFunction(t)
       PROVE  ShapeInv'
  <2>1. /\ On("abort", t) /\ Same(Depth - 1)
        /\ Aborts(Depth, {u \in Listed : context[u] = Callee(t)})
    BY <1>0, <1>20, AbortFunctionEffect
  <2> SUFFICES ASSUME NEW i \in 1..Depth' PROVE ShapeAt(i)'
    BY DEF ShapeInv
  <2>8. i \in 1..Depth => ShapeAt(i)
    BY <1>0 DEF ShapeInv
  <2> QED BY <1>0, <2>1, <2>8 DEF ShapeAt, Pops, Becomes1, Becomes2, Becomes3, Adds1, Aborts, Same,
             On, Fn
<1>21. ASSUME NEW t \in Threads, Complete(t)
       PROVE  ShapeInv'
  <2>1. /\ On("complete", t)
        /\ IF t \in reports /\ caller[t] # None /\ call[caller[t]] = kind[t]
             THEN Becomes2(Fn("resume", caller[t]), Fn("ended", t))
           ELSE IF t \in reports /\ caller[t] = None
             THEN Becomes2(Fn("callback", t), Fn("ended", t))
           ELSE Becomes1(Fn("ended", t))
    BY <1>0, <1>21, CompleteEffect, CallerTypes
  <2> SUFFICES ASSUME NEW i \in 1..Depth' PROVE ShapeAt(i)'
    BY DEF ShapeInv
  <2>8. i \in 1..Depth => ShapeAt(i)
    BY <1>0 DEF ShapeInv
  <2> QED BY <1>0, <2>1, <2>8 DEF ShapeAt, Pops, Becomes1, Becomes2, Becomes3, Adds1, Aborts, Same,
             On, Fn
<1>22. ASSUME NEW t \in Threads, CallbackReturns(t)
       PROVE  ShapeInv'
  <2>1. /\ On("callback", t)
        /\ Pops
    BY <1>0, <1>22, CallbackReturnsEffect
  <2> SUFFICES ASSUME NEW i \in 1..Depth' PROVE ShapeAt(i)'
    BY DEF ShapeInv
  <2>8. i \in 1..Depth => ShapeAt(i)
    BY <1>0 DEF ShapeInv
  <2> QED BY <1>0, <2>1, <2>8 DEF ShapeAt, Pops, Becomes1, Becomes2, Becomes3, Adds1, Aborts, Same,
             On, Fn
<1>23. ASSUME NEW t \in Threads, Ended(t)
       PROVE  ShapeInv'
  <2> DEFINE next == context[t] = Main
                      /\ MayStartNext(Select(Except(threads, t), {u \in Threads : context[u] = Main}))
  <2>1. /\ On("ended", t)
        /\ IF next THEN Becomes1(Fn("resume", Head(queued))) ELSE Pops
    BY <1>0, <1>23, EndedEffect
  <2> HIDE DEF next
  <2> SUFFICES ASSUME NEW i \in 1..Depth' PROVE ShapeAt(i)'
    BY DEF ShapeInv
  <2>8. i \in 1..Depth => ShapeAt(i)
    BY <1>0 DEF ShapeInv
  <2> QED BY <1>0, <2>1, <2>8 DEF ShapeAt, Pops, Becomes1, Becomes2, Becomes3, Adds1, Aborts, Same,
             On, Fn
<1>24. ASSUME NEW t \in Threads, NEW u \in Threads, StepAbort(t, u)
       PROVE  ShapeInv'
  <2>1. /\ On("step", t)
        /\ Becomes3(Fn("abort", u), Fn("return", t), Fn("stepped", t))
    BY <1>0, <1>24, StepAbortEffect
  <2> SUFFICES ASSUME NEW i \in 1..Depth' PROVE ShapeAt(i)'
    BY DEF ShapeInv
  <2>8. i \in 1..Depth => ShapeAt(i)
    BY <1>0 DEF ShapeInv
  <2> QED BY <1>0, <2>1, <2>8 DEF ShapeAt, Pops, Becomes1, Becomes2, Becomes3, Adds1, Aborts, Same,
             On, Fn
<1>25. ASSUME NEW t \in Threads, NEW u \in Threads, NEW k \in {"function", "eval"}, 
              StepCall(t, u, k)
       PROVE  ShapeInv'
  <2>1. /\ On("step", t)
        /\ Becomes2(Fn("resume", u), Fn("stepped", t))
    BY <1>0, <1>25, StepCallEffect
  <2> SUFFICES ASSUME NEW i \in 1..Depth' PROVE ShapeAt(i)'
    BY DEF ShapeInv
  <2>8. i \in 1..Depth => ShapeAt(i)
    BY <1>0 DEF ShapeInv
  <2>3. i \in Int /\ Depth \in Nat /\ Depth > 0
    BY <2>1 DEF On
  <2>4. Depth' = Depth + 1 /\ stack'[Depth] = Fn("stepped", t) /\ stack'[Depth + 1] = Fn("resume", u)
    BY <2>1 DEF Becomes2
  <2>9. CASE i < Depth
    BY <2>1, <2>8, <2>9 DEF ShapeAt, Pops, Becomes1, Becomes2, Becomes3, Adds1, Aborts, Same, On, Fn
  <2>5. CASE i = Depth
    BY <2>1, <2>3, <2>4, <2>5 DEF ShapeAt, Fn
  <2>6. CASE i = Depth + 1
    BY <2>3, <2>4, <2>6 DEF ShapeAt, Fn
  <2> QED BY <2>3, <2>4, <2>9, <2>5, <2>6
<1>26. ASSUME NEW t \in Threads, NEW u \in Threads, NEW as \in BOOLEAN, StepFork(t, u, as)
       PROVE  ShapeInv'
  <2>1. PICK fn2 \in {"store", "resume"} :
         On("step", t) /\ Becomes3(Fn("resume", u), Fn(fn2, t), Fn("stepped", t))
    BY <1>0, <1>26, StepForkEffect
  <2> SUFFICES ASSUME NEW i \in 1..Depth' PROVE ShapeAt(i)'
    BY DEF ShapeInv
  <2>8. i \in 1..Depth => ShapeAt(i)
    BY <1>0 DEF ShapeInv
  <2>3. i \in Int /\ Depth \in Nat /\ Depth > 0
    BY <2>1 DEF On
  <2>4. Depth' = Depth + 2 /\ stack'[Depth] = Fn("stepped", t)
        /\ stack'[Depth + 1] = Fn(fn2, t) /\ stack'[Depth + 2] = Fn("resume", u)
    BY <2>1 DEF Becomes3
  <2>9. CASE i < Depth
    BY <2>1, <2>8, <2>9 DEF ShapeAt, Pops, Becomes1, Becomes2, Becomes3, Adds1, Aborts, Same, On, Fn
  <2>5. CASE i = Depth
    BY <2>1, <2>3, <2>4, <2>5 DEF ShapeAt, Fn
  <2>6. CASE i = Depth + 1
    <3>1. i - 1 = Depth /\ i > 1
      BY <2>1, <2>3, <2>6 DEF On
    <3> QED BY <3>1, <2>3, <2>4, <2>6 DEF ShapeAt, Fn
  <2>7. CASE i = Depth + 2
    BY <2>3, <2>4, <2>7 DEF ShapeAt, Fn
  <2> QED BY <2>3, <2>4, <2>9, <2>5, <2>6, <2>7
<1>27. ASSUME NEW t \in Threads, SliceOver(t) \/ DelayOver(t)
       PROVE  ShapeInv'
  <2>1. Depth = 0 /\ Adds1(Fn("resume", t))
    BY <1>0, <1>27, SliceOverEffect, DelayOverEffect
  <2> SUFFICES ASSUME NEW i \in 1..Depth' PROVE ShapeAt(i)'
    BY DEF ShapeInv
  <2>8. i \in 1..Depth => ShapeAt(i)
    BY <1>0 DEF ShapeInv
  <2> QED BY <1>0, <2>1, <2>8 DEF ShapeAt, Pops, Becomes1, Becomes2, Becomes3, Adds1, Aborts, Same,
             On, Fn
<1> QED BY <1>1, <1>2, <1>3, <1>4, <1>5, <1>6, <1>7, <1>8, <1>9, <1>10, <1>11, <1>12, <1>13, <1>14,
           <1>15, <1>16, <1>17, <1>18, <1>19, <1>20, <1>21, <1>22, <1>23, <1>24, <1>25, <1>26, <1>27
       DEF Next, AppStep, ThreadStep, TimerStep

\* The execution loops under way are the same as before.
LEMMA ExecInvStays ==
  ASSUME ExecInv, Depth \in Nat, Depth' \in Nat, resuming' = resuming,
         \A t \in Threads, i \in Nat : Executes(i, t)' <=> Executes(i, t)
  PROVE  ExecInv'
<1>1. \A t \in Threads, i \in Nat : (Executes(i, t) => i \in 1..Depth) /\ (Executes(i, t)' => i \in 1..Depth')
  BY DEF Executes
<1> HIDE DEF Executes
<1> QED BY <1>1 DEF ExecInv

LEMMA ExecInvKeeps ==
  ASSUME IInv, Next
  PROVE  ExecInv'
<1>0. DataInv /\ ExecInv /\ ShapeInv /\ Lists /\ Depth \in Nat
  BY DEF IInv, DataInv, TypeInv, ListInv, SetInv, Lists, Depth
<1>1. ASSUME Stop
      PROVE  ExecInv'
  <2>1. /\ Same(Depth) /\ Aborts(Depth + 2, MainThreads)
        /\ stack'[Depth + 1] = Fn("abortRelated", None) /\ Depth \in Nat
    BY <1>0, <1>1, StopEffect DEF Lists, Depth
  <2>2. \A u \in Threads, i \in Nat : Executes(i, u)' <=> Executes(i, u)
    <3>1. /\ Depth' \in Nat /\ Depth' >= Depth + 1 /\ \A i \in 1..Depth : stack'[i] = stack[i]
          /\ \A i \in (Depth + 1)..Depth' : stack'[i].fn \in {"abort", "abortRelated"}
      BY <1>0, <2>1 DEF Pops, Becomes1, Becomes2, Becomes3, Adds1, Aborts, Same, On, Fn
    <3> QED BY <1>0, <3>1 DEF Executes
  <2>3. Depth' \in Nat
    BY <2>1 DEF Same
  <2>4. resuming' = resuming
    BY <1>1 DEF Stop, BuiltinCalled, loopVars
  <2> QED BY <1>0, <2>2, <2>3, <2>4, ExecInvStays
<1>2. ASSUME NEW t \in Threads, NEW mode \in RunModes, Execute(t, mode)
      PROVE  ExecInv'
  <2>1. /\ IF "stoprunning" \in mode
             THEN /\ Same(Depth) /\ Aborts(Depth + 3, MainThreads)
                  /\ stack'[Depth + 1] = Fn("enter", t) /\ stack'[Depth + 2] = Fn("abortRelated", None)
             ELSE Adds1(Fn("enter", t))
    BY <1>0, <1>2, ExecuteEffect
  <2>2. \A u \in Threads, i \in Nat : Executes(i, u)' <=> Executes(i, u)
    <3>1. CASE "stoprunning" \in mode
      <4>1. /\ Depth' \in Nat /\ Depth' >= Depth + 2 /\ \A i \in 1..Depth : stack'[i] = stack[i]
            /\ \A i \in (Depth + 1)..Depth' : stack'[i].fn \in {"enter", "abort", "abortRelated"}
        BY <1>0, <2>1, <3>1 DEF Pops, Becomes1, Becomes2, Becomes3, Adds1, Aborts, Same, On, Fn
      <4> QED BY <1>0, <4>1 DEF Executes
    <3>2. CASE "stoprunning" \notin mode
      BY <1>0, <2>1, <3>2 DEF Executes, Pops, Becomes1, Becomes2, Becomes3, Adds1, Aborts, Same, On, Fn
    <3> QED BY <3>1, <3>2
  <2>3. Depth' \in Nat
    BY <2>1 DEF Adds1, Same
  <2>4. resuming' = resuming
    BY <1>2 DEF Execute, BuiltinCalled, loopVars
  <2> QED BY <1>0, <2>2, <2>3, <2>4, ExecInvStays
<1>3. ASSUME NEW t \in 0..MaxThreads, AbortRelated(t)
      PROVE  ExecInv'
  <2>1. /\ On("abortRelated", t) /\ Same(Depth - 1)
        /\ Aborts(Depth, {u \in Listed : context[u] # Main /\ u # t})
    BY <1>0, <1>3, AbortRelatedEffect
  <2>2. \A u \in Threads, i \in Nat : Executes(i, u)' <=> Executes(i, u)
    BY <1>0, <2>1 DEF Executes, Pops, Becomes1, Becomes2, Becomes3, Adds1, Aborts, Same, On, Fn
  <2>3. Depth' \in Nat
    BY <1>0, <2>1 DEF Pops, Becomes1, Becomes2, Becomes3, Adds1, Aborts, Same, On, Fn
  <2>4. resuming' = resuming
    BY <1>3 DEF AbortRelated, BuiltinCalled, loopVars
  <2> QED BY <1>0, <2>2, <2>3, <2>4, ExecInvStays
<1>4. ASSUME NEW t \in Threads, EnterQueued(t)
      PROVE  ExecInv'
  <2>1. /\ On("enter", t)
        /\ Pops
    BY <1>0, <1>4, EnterQueuedEffect
  <2>2. \A u \in Threads, i \in Nat : Executes(i, u)' <=> Executes(i, u)
    BY <1>0, <2>1 DEF Executes, Pops, Becomes1, Becomes2, Becomes3, Adds1, Aborts, Same, On, Fn
  <2>3. Depth' \in Nat
    BY <1>0, <2>1 DEF Pops, Becomes1, Becomes2, Becomes3, Adds1, Aborts, Same, On, Fn
  <2>4. resuming' = resuming
    BY <1>4 DEF EnterQueued, BuiltinCalled, loopVars
  <2> QED BY <1>0, <2>2, <2>3, <2>4, ExecInvStays
<1>5. ASSUME NEW t \in Threads, EnterBusy(t) \/ EnterStarts(t)
      PROVE  ExecInv'
  <2>1. /\ On("enter", t)
        /\ Becomes1(Fn("resume", t))
    BY <1>0, <1>5, EnterBusyEffect, EnterStartsEffect
  <2>2. \A u \in Threads, i \in Nat : Executes(i, u)' <=> Executes(i, u)
    BY <1>0, <2>1 DEF Executes, Pops, Becomes1, Becomes2, Becomes3, Adds1, Aborts, Same, On, Fn
  <2>3. Depth' \in Nat
    BY <1>0, <2>1 DEF Pops, Becomes1, Becomes2, Becomes3, Adds1, Aborts, Same, On, Fn
  <2>4. resuming' = resuming
    BY <1>5 DEF EnterBusy, EnterStarts, BuiltinCalled, loopVars
  <2> QED BY <1>0, <2>2, <2>3, <2>4, ExecInvStays
<1>6. ASSUME NEW t \in Threads, ResumeNested(t)
      PROVE  ExecInv'
  <2>1. /\ On("resume", t)
        /\ Pops
    BY <1>0, <1>6, ResumeNestedEffect
  <2>2. \A u \in Threads, i \in Nat : Executes(i, u)' <=> Executes(i, u)
    BY <1>0, <2>1 DEF Executes, Pops, Becomes1, Becomes2, Becomes3, Adds1, Aborts, Same, On, Fn
  <2>3. Depth' \in Nat
    BY <1>0, <2>1 DEF Pops, Becomes1, Becomes2, Becomes3, Adds1, Aborts, Same, On, Fn
  <2>4. resuming' = resuming
    BY <1>6 DEF ResumeNested, BuiltinCalled, loopVars
  <2> QED BY <1>0, <2>2, <2>3, <2>4, ExecInvStays
<1>7. ASSUME NEW t \in Threads, ResumeAborted(t)
      PROVE  ExecInv'
  <2>1. /\ On("resume", t)
        /\ Becomes1(Fn("complete", t))
    BY <1>0, <1>7, ResumeAbortedEffect
  <2>2. \A u \in Threads, i \in Nat : Executes(i, u)' <=> Executes(i, u)
    BY <1>0, <2>1 DEF Executes, Pops, Becomes1, Becomes2, Becomes3, Adds1, Aborts, Same, On, Fn
  <2>3. Depth' \in Nat
    BY <1>0, <2>1 DEF Pops, Becomes1, Becomes2, Becomes3, Adds1, Aborts, Same, On, Fn
  <2>4. resuming' = resuming
    BY <1>7 DEF ResumeAborted, BuiltinCalled, loopVars
  <2> QED BY <1>0, <2>2, <2>3, <2>4, ExecInvStays
<1>8. ASSUME NEW t \in Threads, ResumeLoop(t)
      PROVE  ExecInv'
  <2>1. /\ On("resume", t)
        /\ Becomes1(Fn("step", t))
    BY <1>0, <1>8, ResumeLoopEffect
  <2>2. /\ t \notin resuming /\ resuming' = resuming \cup {t}
        /\ Depth' = Depth /\ Depth > 0 /\ stack[Depth] = Fn("resume", t) /\ stack'[Depth] = Fn("step", t)
        /\ \A i \in 1..(Depth - 1) : stack'[i] = stack[i]
    BY <1>8, <2>1 DEF ResumeLoop, Pops, Becomes1, Becomes2, Becomes3, Adds1, Aborts, Same, On, Fn
  <2>3. \A u \in Threads, i \in Nat : Executes(i, u)' <=> Executes(i, u) \/ (u = t /\ i = Depth)
    BY <1>0, <2>2 DEF Executes, Fn
  <2>4. \A u \in Threads, i \in Nat : Executes(i, u) => i \in 1..Depth
    BY DEF Executes
  <2> HIDE DEF Executes
  <2> QED BY <1>0, <2>2, <2>3, <2>4 DEF ExecInv
<1>9. ASSUME NEW t \in Threads, Stepped(t)
      PROVE  ExecInv'
  <2>1. /\ On("stepped", t)
        /\ IF t \in resumed /\ t \notin aborted THEN Becomes1(Fn("step", t)) ELSE Pops
    BY <1>0, <1>9, SteppedEffect
  <2>6. CASE t \in resumed /\ t \notin aborted
    <3>1. \A u \in Threads, i \in Nat : Executes(i, u)' <=> Executes(i, u)
      BY <1>0, <2>1, <2>6 DEF Executes, Pops, Becomes1, Becomes2, Becomes3, Adds1, Aborts, Same, On, Fn
    <3>2. resuming' = resuming /\ Depth' \in Nat
      BY <1>9, <2>1, <2>6 DEF Stepped, Becomes1, Same
    <3> QED BY <1>0, <3>1, <3>2, ExecInvStays
  <2>7. CASE ~(t \in resumed /\ t \notin aborted)
    <3>2. /\ resuming' = resuming \ {t}
          /\ Depth' = Depth - 1 /\ Depth > 0 /\ stack[Depth] = Fn("stepped", t)
          /\ \A i \in 1..(Depth - 1) : stack'[i] = stack[i]
      BY <2>7, <1>9, <2>1 DEF Stepped, Pops, Becomes1, Becomes2, Becomes3, Adds1, Aborts, Same, On, Fn
    <3>3. \A u \in Threads, i \in Nat : Executes(i, u)' <=> Executes(i, u) /\ i # Depth
      BY <1>0, <3>2 DEF Executes
    <3>4. \A u \in Threads, i \in Nat : (Executes(i, u) => i \in 1..Depth) /\ (Executes(i, u)' => i \in 1..Depth')
      BY DEF Executes
    <3>5. Depth \in Nat /\ \A u \in Threads : Executes(Depth, u) <=> u = t
      BY <1>0, <3>2 DEF Executes, Fn
    <3> HIDE DEF Executes
    <3> QED BY <1>0, <3>2, <3>3, <3>4, <3>5 DEF ExecInv
  <2> QED BY <2>6, <2>7
<1>10. ASSUME NEW t \in Threads, TimeSlice(t)
       PROVE  ExecInv'
  <2>1. /\ On("step", t)
        /\ Pops
    BY <1>0, <1>10, TimeSliceEffect
  <2>2. /\ resuming' = resuming \ {t}
        /\ Depth' = Depth - 1 /\ Depth > 0 /\ stack[Depth] = Fn("step", t)
        /\ \A i \in 1..(Depth - 1) : stack'[i] = stack[i]
    BY <1>10, <2>1 DEF TimeSlice, Pops, Becomes1, Becomes2, Becomes3, Adds1, Aborts, Same, On, Fn
  <2>3. \A u \in Threads, i \in Nat : Executes(i, u)' <=> Executes(i, u) /\ i # Depth
    BY <1>0, <2>2 DEF Executes
  <2>4. \A u \in Threads, i \in Nat : (Executes(i, u) => i \in 1..Depth) /\ (Executes(i, u)' => i \in 1..Depth')
    BY DEF Executes
  <2>5. Depth \in Nat /\ \A u \in Threads : Executes(Depth, u) <=> u = t
    BY <1>0, <2>2 DEF Executes, Fn
  <2> HIDE DEF Executes
  <2> QED BY <1>0, <2>2, <2>3, <2>4, <2>5 DEF ExecInv
<1>11. ASSUME NEW t \in Threads, StepEnds(t)
       PROVE  ExecInv'
  <2>1. /\ On("step", t)
        /\ Becomes2(Fn("complete", t), Fn("stepped", t))
    BY <1>0, <1>11, StepEndsEffect
  <2>2. \A u \in Threads, i \in Nat : Executes(i, u)' <=> Executes(i, u)
    BY <1>0, <2>1 DEF Executes, Pops, Becomes1, Becomes2, Becomes3, Adds1, Aborts, Same, On, Fn
  <2>3. Depth' \in Nat
    BY <1>0, <2>1 DEF Pops, Becomes1, Becomes2, Becomes3, Adds1, Aborts, Same, On, Fn
  <2>4. resuming' = resuming
    BY <1>11 DEF StepEnds, BuiltinCalled, loopVars
  <2> QED BY <1>0, <2>2, <2>3, <2>4, ExecInvStays
<1>12. ASSUME NEW t \in Threads, StepDelay(t)
       PROVE  ExecInv'
  <2>1. /\ On("step", t)
        /\ Becomes1(Fn("stepped", t))
    BY <1>0, <1>12, StepDelayEffect
  <2>2. \A u \in Threads, i \in Nat : Executes(i, u)' <=> Executes(i, u)
    BY <1>0, <2>1 DEF Executes, Pops, Becomes1, Becomes2, Becomes3, Adds1, Aborts, Same, On, Fn
  <2>3. Depth' \in Nat
    BY <1>0, <2>1 DEF Pops, Becomes1, Becomes2, Becomes3, Adds1, Aborts, Same, On, Fn
  <2>4. resuming' = resuming
    BY <1>12 DEF StepDelay, BuiltinCalled, loopVars
  <2> QED BY <1>0, <2>2, <2>3, <2>4, ExecInvStays
<1>13. ASSUME NEW t \in Threads, StepAbortOwnChain(t)
       PROVE  ExecInv'
  <2>1. /\ On("step", t)
        /\ Becomes2(Fn("return", t), Fn("stepped", t))
    BY <1>0, <1>13, StepAbortOwnChainEffect
  <2>2. \A u \in Threads, i \in Nat : Executes(i, u)' <=> Executes(i, u)
    BY <1>0, <2>1 DEF Executes, Pops, Becomes1, Becomes2, Becomes3, Adds1, Aborts, Same, On, Fn
  <2>3. Depth' \in Nat
    BY <1>0, <2>1 DEF Pops, Becomes1, Becomes2, Becomes3, Adds1, Aborts, Same, On, Fn
  <2>4. resuming' = resuming
    BY <1>13 DEF StepAbortOwnChain, BuiltinCalled, loopVars
  <2> QED BY <1>0, <2>2, <2>3, <2>4, ExecInvStays
<1>14. ASSUME NEW t \in Threads, StepAbortOthers(t)
       PROVE  ExecInv'
  <2>1. /\ On("step", t) /\ Same(Depth - 1) /\ Aborts(Depth + 3, MainThreads \ {t})
        /\ stack'[Depth] = Fn("stepped", t)
        /\ stack'[Depth + 1] = Fn("return", t) /\ stack'[Depth + 2] = Fn("abortRelated", t)
    BY <1>0, <1>14, StepAbortOthersEffect
  <2>2. \A u \in Threads, i \in Nat : Executes(i, u)' <=> Executes(i, u)
    BY <1>0, <2>1 DEF Executes, Pops, Becomes1, Becomes2, Becomes3, Adds1, Aborts, Same, On, Fn
  <2>3. Depth' \in Nat
    BY <1>0, <2>1 DEF Pops, Becomes1, Becomes2, Becomes3, Adds1, Aborts, Same, On, Fn
  <2>4. resuming' = resuming
    BY <1>14 DEF StepAbortOthers, BuiltinCalled, loopVars
  <2> QED BY <1>0, <2>2, <2>3, <2>4, ExecInvStays
<1>15. ASSUME NEW t \in Threads, Store(t)
       PROVE  ExecInv'
  <2>1. /\ On("store", t)
        /\ IF context[t] # None THEN Becomes1(Fn("resume", t)) ELSE UNCHANGED stack /\ Depth' = Depth
    BY <1>0, <1>15, StoreEffect DEF Store, Depth
  <2>2. \A u \in Threads, i \in Nat : Executes(i, u)' <=> Executes(i, u)
    BY <1>0, <2>1 DEF Executes, Pops, Becomes1, Becomes2, Becomes3, Adds1, Aborts, Same, On, Fn
  <2>3. Depth' \in Nat
    BY <1>0, <2>1 DEF Pops, Becomes1, Becomes2, Becomes3, Adds1, Aborts, Same, On, Fn
  <2>4. resuming' = resuming
    BY <1>15 DEF Store, BuiltinCalled, loopVars
  <2> QED BY <1>0, <2>2, <2>3, <2>4, ExecInvStays
<1>16. ASSUME NEW t \in Threads, Return(t)
       PROVE  ExecInv'
  <2>1. /\ On("return", t)
        /\ IF call[t] = "builtin" THEN Becomes1(Fn("resume", t)) ELSE Pops
    BY <1>0, <1>16, ReturnEffect
  <2>2. \A u \in Threads, i \in Nat : Executes(i, u)' <=> Executes(i, u)
    BY <1>0, <2>1 DEF Executes, Pops, Becomes1, Becomes2, Becomes3, Adds1, Aborts, Same, On, Fn
  <2>3. Depth' \in Nat
    BY <1>0, <2>1 DEF Pops, Becomes1, Becomes2, Becomes3, Adds1, Aborts, Same, On, Fn
  <2>4. resuming' = resuming
    BY <1>16 DEF Return, BuiltinCalled, loopVars
  <2> QED BY <1>0, <2>2, <2>3, <2>4, ExecInvStays
<1>17. ASSUME NEW t \in Threads, AbortEnded(t)
       PROVE  ExecInv'
  <2>1. /\ On("abort", t)
        /\ Pops
    BY <1>0, <1>17, AbortEndedEffect
  <2>2. \A u \in Threads, i \in Nat : Executes(i, u)' <=> Executes(i, u)
    BY <1>0, <2>1 DEF Executes, Pops, Becomes1, Becomes2, Becomes3, Adds1, Aborts, Same, On, Fn
  <2>3. Depth' \in Nat
    BY <1>0, <2>1 DEF Pops, Becomes1, Becomes2, Becomes3, Adds1, Aborts, Same, On, Fn
  <2>4. resuming' = resuming
    BY <1>17 DEF AbortEnded, BuiltinCalled, loopVars
  <2> QED BY <1>0, <2>2, <2>3, <2>4, ExecInvStays
<1>18. ASSUME NEW t \in Threads, AbortAlone(t)
       PROVE  ExecInv'
  <2>1. /\ On("abort", t)
        /\ Becomes1(Fn("complete", t))
    BY <1>0, <1>18, AbortAloneEffect
  <2>2. \A u \in Threads, i \in Nat : Executes(i, u)' <=> Executes(i, u)
    BY <1>0, <2>1 DEF Executes, Pops, Becomes1, Becomes2, Becomes3, Adds1, Aborts, Same, On, Fn
  <2>3. Depth' \in Nat
    BY <1>0, <2>1 DEF Pops, Becomes1, Becomes2, Becomes3, Adds1, Aborts, Same, On, Fn
  <2>4. resuming' = resuming
    BY <1>18 DEF AbortAlone, BuiltinCalled, loopVars
  <2> QED BY <1>0, <2>2, <2>3, <2>4, ExecInvStays
<1>19. ASSUME NEW t \in Threads, AbortBuiltin(t)
       PROVE  ExecInv'
  <2>1. /\ On("abort", t)
        /\ Becomes1(Fn("resume", t))
    BY <1>0, <1>19, AbortBuiltinEffect
  <2>2. \A u \in Threads, i \in Nat : Executes(i, u)' <=> Executes(i, u)
    BY <1>0, <2>1 DEF Executes, Pops, Becomes1, Becomes2, Becomes3, Adds1, Aborts, Same, On, Fn
  <2>3. Depth' \in Nat
    BY <1>0, <2>1 DEF Pops, Becomes1, Becomes2, Becomes3, Adds1, Aborts, Same, On, Fn
  <2>4. resuming' = resuming
    BY <1>19 DEF AbortBuiltin, BuiltinCalled, loopVars
  <2> QED BY <1>0, <2>2, <2>3, <2>4, ExecInvStays
<1>20. ASSUME NEW t \in Threads, AbortFunction(t)
       PROVE  ExecInv'
  <2>1. /\ On("abort", t) /\ Same(Depth - 1)
        /\ Aborts(Depth, {u \in Listed : context[u] = Callee(t)})
    BY <1>0, <1>20, AbortFunctionEffect
  <2>2. \A u \in Threads, i \in Nat : Executes(i, u)' <=> Executes(i, u)
    BY <1>0, <2>1 DEF Executes, Pops, Becomes1, Becomes2, Becomes3, Adds1, Aborts, Same, On, Fn
  <2>3. Depth' \in Nat
    BY <1>0, <2>1 DEF Pops, Becomes1, Becomes2, Becomes3, Adds1, Aborts, Same, On, Fn
  <2>4. resuming' = resuming
    BY <1>20 DEF AbortFunction, BuiltinCalled, loopVars
  <2> QED BY <1>0, <2>2, <2>3, <2>4, ExecInvStays
<1>21. ASSUME NEW t \in Threads, Complete(t)
       PROVE  ExecInv'
  <2>1. /\ On("complete", t)
        /\ IF t \in reports /\ caller[t] # None /\ call[caller[t]] = kind[t]
             THEN Becomes2(Fn("resume", caller[t]), Fn("ended", t))
           ELSE IF t \in reports /\ caller[t] = None
             THEN Becomes2(Fn("callback", t), Fn("ended", t))
           ELSE Becomes1(Fn("ended", t))
    BY <1>0, <1>21, CompleteEffect, CallerTypes
  <2>2. \A u \in Threads, i \in Nat : Executes(i, u)' <=> Executes(i, u)
    BY <1>0, <2>1 DEF Executes, Pops, Becomes1, Becomes2, Becomes3, Adds1, Aborts, Same, On, Fn
  <2>3. Depth' \in Nat
    BY <1>0, <2>1 DEF Pops, Becomes1, Becomes2, Becomes3, Adds1, Aborts, Same, On, Fn
  <2>4. resuming' = resuming
    BY <1>21 DEF Complete, BuiltinCalled, loopVars
  <2> QED BY <1>0, <2>2, <2>3, <2>4, ExecInvStays
<1>22. ASSUME NEW t \in Threads, CallbackReturns(t)
       PROVE  ExecInv'
  <2>1. /\ On("callback", t)
        /\ Pops
    BY <1>0, <1>22, CallbackReturnsEffect
  <2>2. \A u \in Threads, i \in Nat : Executes(i, u)' <=> Executes(i, u)
    BY <1>0, <2>1 DEF Executes, Pops, Becomes1, Becomes2, Becomes3, Adds1, Aborts, Same, On, Fn
  <2>3. Depth' \in Nat
    BY <1>0, <2>1 DEF Pops, Becomes1, Becomes2, Becomes3, Adds1, Aborts, Same, On, Fn
  <2>4. resuming' = resuming
    BY <1>22 DEF CallbackReturns, BuiltinCalled, loopVars
  <2> QED BY <1>0, <2>2, <2>3, <2>4, ExecInvStays
<1>23. ASSUME NEW t \in Threads, Ended(t)
       PROVE  ExecInv'
  <2> DEFINE next == context[t] = Main
                      /\ MayStartNext(Select(Except(threads, t), {u \in Threads : context[u] = Main}))
  <2>1. /\ On("ended", t)
        /\ IF next THEN Becomes1(Fn("resume", Head(queued))) ELSE Pops
    BY <1>0, <1>23, EndedEffect
  <2> HIDE DEF next
  <2>2. \A u \in Threads, i \in Nat : Executes(i, u)' <=> Executes(i, u)
    BY <1>0, <2>1 DEF Executes, Pops, Becomes1, Becomes2, Becomes3, Adds1, Aborts, Same, On, Fn
  <2>3. Depth' \in Nat
    BY <1>0, <2>1 DEF Pops, Becomes1, Becomes2, Becomes3, Adds1, Aborts, Same, On, Fn
  <2>4. resuming' = resuming
    BY <1>23 DEF Ended, BuiltinCalled, loopVars
  <2> QED BY <1>0, <2>2, <2>3, <2>4, ExecInvStays
<1>24. ASSUME NEW t \in Threads, NEW u \in Threads, StepAbort(t, u)
       PROVE  ExecInv'
  <2>1. /\ On("step", t)
        /\ Becomes3(Fn("abort", u), Fn("return", t), Fn("stepped", t))
    BY <1>0, <1>24, StepAbortEffect
  <2>2. \A v \in Threads, i \in Nat : Executes(i, v)' <=> Executes(i, v)
    BY <1>0, <2>1 DEF Executes, Pops, Becomes1, Becomes2, Becomes3, Adds1, Aborts, Same, On, Fn
  <2>3. Depth' \in Nat
    BY <1>0, <2>1 DEF Pops, Becomes1, Becomes2, Becomes3, Adds1, Aborts, Same, On, Fn
  <2>4. resuming' = resuming
    BY <1>24 DEF StepAbort, BuiltinCalled, loopVars
  <2> QED BY <1>0, <2>2, <2>3, <2>4, ExecInvStays
<1>25. ASSUME NEW t \in Threads, NEW u \in Threads, NEW k \in {"function", "eval"}, 
              StepCall(t, u, k)
       PROVE  ExecInv'
  <2>1. /\ On("step", t)
        /\ Becomes2(Fn("resume", u), Fn("stepped", t))
    BY <1>0, <1>25, StepCallEffect
  <2>2. \A v \in Threads, i \in Nat : Executes(i, v)' <=> Executes(i, v)
    BY <1>0, <2>1 DEF Executes, Pops, Becomes1, Becomes2, Becomes3, Adds1, Aborts, Same, On, Fn
  <2>3. Depth' \in Nat
    BY <1>0, <2>1 DEF Pops, Becomes1, Becomes2, Becomes3, Adds1, Aborts, Same, On, Fn
  <2>4. resuming' = resuming
    BY <1>25 DEF StepCall, BuiltinCalled, loopVars
  <2> QED BY <1>0, <2>2, <2>3, <2>4, ExecInvStays
<1>26. ASSUME NEW t \in Threads, NEW u \in Threads, NEW as \in BOOLEAN, StepFork(t, u, as)
       PROVE  ExecInv'
  <2>1. PICK fn2 \in {"store", "resume"} :
         On("step", t) /\ Becomes3(Fn("resume", u), Fn(fn2, t), Fn("stepped", t))
    BY <1>0, <1>26, StepForkEffect
  <2>2. \A v \in Threads, i \in Nat : Executes(i, v)' <=> Executes(i, v)
    BY <1>0, <2>1 DEF Executes, Pops, Becomes1, Becomes2, Becomes3, Adds1, Aborts, Same, On, Fn
  <2>3. Depth' \in Nat
    BY <1>0, <2>1 DEF Pops, Becomes1, Becomes2, Becomes3, Adds1, Aborts, Same, On, Fn
  <2>4. resuming' = resuming
    BY <1>26 DEF StepFork, BuiltinCalled, loopVars
  <2> QED BY <1>0, <2>2, <2>3, <2>4, ExecInvStays
<1>27. ASSUME NEW t \in Threads, SliceOver(t) \/ DelayOver(t)
       PROVE  ExecInv'
  <2>1. Depth = 0 /\ Adds1(Fn("resume", t))
    BY <1>0, <1>27, SliceOverEffect, DelayOverEffect
  <2>2. \A u \in Threads, i \in Nat : Executes(i, u)' <=> Executes(i, u)
    BY <1>0, <2>1 DEF Executes, Pops, Becomes1, Becomes2, Becomes3, Adds1, Aborts, Same, On, Fn
  <2>3. Depth' \in Nat
    BY <1>0, <2>1 DEF Pops, Becomes1, Becomes2, Becomes3, Adds1, Aborts, Same, On, Fn
  <2>4. resuming' = resuming
    BY <1>27 DEF SliceOver, DelayOver, BuiltinCalled, loopVars
  <2> QED BY <1>0, <2>2, <2>3, <2>4, ExecInvStays
<1> QED BY <1>1, <1>2, <1>3, <1>4, <1>5, <1>6, <1>7, <1>8, <1>9, <1>10, <1>11, <1>12, <1>13, <1>14,
           <1>15, <1>16, <1>17, <1>18, <1>19, <1>20, <1>21, <1>22, <1>23, <1>24, <1>25, <1>26, <1>27
       DEF Next, AppStep, ThreadStep, TimerStep

LEMMA StepsTypes ==
  ASSUME TypeInv, NEW t \in Threads, NEW what, Step(t, what)
  PROVE  steps' \in [Threads -> 0..MaxSteps]
<1>1. steps[t] \in 0..MaxSteps /\ MaxSteps \in Nat
  BY ThreadConstants DEF TypeInv
<1>2. steps[t] - 1 \in 0..MaxSteps
  BY <1>1 DEF Step
<1> QED BY <1>2 DEF TypeInv, Step

LEMMA TypeInvKeeps ==
  ASSUME IInv, Next
  PROVE  TypeInv'
<1>0. TypeInv
  BY DEF IInv, DataInv
<1>00. /\ None \in 0..MaxThreads /\ None \in 0..Main /\ Main \in 0..Main /\ Threads \subseteq 0..MaxThreads
      /\ Threads \subseteq 0..Main /\ RunModes \subseteq SUBSET AllFlags
  BY ThreadTypes, ThreadConstants DEF AllFlags, Threads, Main, None
<1>1. ASSUME Stop
      PROVE  TypeInv'
  BY <1>0, <1>00, <1>1 DEF Stop, Step, BuiltinCalled, newVars, loopVars, TypeInv, Calls, Kinds
<1>2. ASSUME NEW t \in Threads, NEW mode \in RunModes, Execute(t, mode)
      PROVE  TypeInv'
  <2>1. PICK x \in Threads, y \in Kinds, z \in 0..Main, fs \in SUBSET AllFlags, w \in 0..MaxThreads :
           NewThread(x, y, z, fs, w)
    BY <1>0, <1>00, <1>2 DEF Execute, Kinds, AllFlags, TypeInv
  <2>2. /\ kind' \in [Threads -> Kinds] /\ flags' \in [Threads -> SUBSET AllFlags]
        /\ caller' \in [Threads -> 0..MaxThreads] /\ context' \in [Threads -> 0..Main]
    BY <1>0, <2>1 DEF NewThread, TypeInv
  <2>3. /\ call' \in [Threads -> Calls] /\ steps' \in [Threads -> 0..MaxSteps]
        /\ calls' \in [Threads -> 0..2] /\ broken' \in BOOLEAN /\ resuming' \subseteq Threads
    BY <1>0, <1>2, StepsTypes DEF Execute, loopVars, TypeInv, Calls
  <2> QED BY <2>2, <2>3 DEF TypeInv
<1>3. ASSUME NEW t \in 0..MaxThreads, AbortRelated(t)
      PROVE  TypeInv'
  BY <1>0, <1>00, <1>3 DEF AbortRelated, Step, BuiltinCalled, newVars, loopVars, TypeInv, Calls, Kinds
<1>4. ASSUME NEW t \in Threads, EnterQueued(t) \/ EnterBusy(t) \/ EnterStarts(t) \/ ResumeNested(t)
              \/ ResumeAborted(t) \/ ResumeLoop(t)
      PROVE  TypeInv'
  BY <1>0, <1>00, <1>4 DEF EnterQueued, EnterBusy, EnterStarts, ResumeNested, ResumeAborted,
     ResumeLoop, Step, BuiltinCalled, newVars, loopVars, TypeInv, Calls, Kinds
<1>5. ASSUME NEW t \in Threads, Stepped(t) \/ StepEnds(t) \/ Store(t) \/ Return(t) \/ AbortEnded(t)
              \/ AbortAlone(t)
      PROVE  TypeInv'
  BY <1>0, <1>00, <1>5 DEF Stepped, StepEnds, Store, Return, AbortEnded, AbortAlone, Step,
     BuiltinCalled, newVars, loopVars, TypeInv, Calls, Kinds
<1>6. ASSUME NEW t \in Threads, TimeSlice(t) \/ StepDelay(t) \/ StepAbortOwnChain(t)
              \/ StepAbortOthers(t)
      PROVE  TypeInv'
  <2>1. steps' \in [Threads -> 0..MaxSteps]
    BY <1>0, <1>6, StepsTypes DEF TimeSlice, StepDelay, StepAbortOwnChain, StepAbortOthers
  <2> QED BY <1>0, <1>6, <2>1 DEF TimeSlice, StepDelay, StepAbortOwnChain, StepAbortOthers,
             BuiltinCalled, newVars, loopVars, TypeInv, Calls
<1>7. ASSUME NEW t \in Threads, AbortBuiltin(t) \/ AbortFunction(t) \/ CallbackReturns(t)
              \/ Ended(t) \/ SliceOver(t) \/ DelayOver(t)
      PROVE  TypeInv'
  BY <1>0, <1>00, <1>7 DEF AbortBuiltin, AbortFunction, CallbackReturns, Ended, SliceOver, DelayOver,
     Step, BuiltinCalled, newVars, loopVars, TypeInv, Calls, Kinds
<1>8. ASSUME NEW t \in Threads, Complete(t)
      PROVE  TypeInv'
  <2>1. calls' \in [Threads -> 0..2]
    <3>1. calls[t] \in 0..2
      BY <1>0 DEF TypeInv
    <3>2. (IF calls[t] = 2 THEN 2 ELSE calls[t] + 1) \in 0..2
      BY <3>1
    <3> QED BY <1>0, <1>8, <3>2 DEF Complete, TypeInv
  <2>2. call' \in [Threads -> Calls]
    BY <1>0, <1>8 DEF Complete, TypeInv, Calls
  <2> QED BY <1>0, <1>8, <2>1, <2>2 DEF Complete, newVars, TypeInv
<1>9. ASSUME NEW t \in Threads, NEW u \in Threads, StepAbort(t, u)
      PROVE  TypeInv'
  <2>1. steps' \in [Threads -> 0..MaxSteps]
    BY <1>0, <1>9, StepsTypes DEF StepAbort
  <2> QED BY <1>0, <1>9, <2>1 DEF StepAbort, BuiltinCalled, newVars, loopVars, TypeInv, Calls
<1>10. ASSUME NEW t \in Threads, NEW u \in Threads, NEW k \in {"function", "eval"}, 
              StepCall(t, u, k)
       PROVE  TypeInv'
  <2>1. PICK x \in Threads, y \in Kinds, z \in 0..Main, fs \in SUBSET AllFlags, w \in 0..MaxThreads :
           NewThread(x, y, z, fs, w)
    BY <1>0, <1>00, <1>10 DEF StepCall, Kinds, AllFlags, TypeInv
  <2>2. /\ kind' \in [Threads -> Kinds] /\ flags' \in [Threads -> SUBSET AllFlags]
        /\ caller' \in [Threads -> 0..MaxThreads] /\ context' \in [Threads -> 0..Main]
    BY <1>0, <2>1 DEF NewThread, TypeInv
  <2>3. /\ call' \in [Threads -> Calls] /\ steps' \in [Threads -> 0..MaxSteps]
        /\ calls' \in [Threads -> 0..2] /\ broken' \in BOOLEAN /\ resuming' \subseteq Threads
    BY <1>0, <1>10, StepsTypes DEF StepCall, loopVars, TypeInv, Calls
  <2> QED BY <2>2, <2>3 DEF TypeInv
<1>11. ASSUME NEW t \in Threads, NEW u \in Threads, NEW as \in BOOLEAN, StepFork(t, u, as)
       PROVE  TypeInv'
  <2>1. PICK x \in Threads, y \in Kinds, z \in 0..Main, fs \in SUBSET AllFlags, w \in 0..MaxThreads :
           NewThread(x, y, z, fs, w)
    BY <1>0, <1>00, <1>11 DEF StepFork, Kinds, AllFlags, TypeInv
  <2>2. /\ kind' \in [Threads -> Kinds] /\ flags' \in [Threads -> SUBSET AllFlags]
        /\ caller' \in [Threads -> 0..MaxThreads] /\ context' \in [Threads -> 0..Main]
    BY <1>0, <2>1 DEF NewThread, TypeInv
  <2>3. /\ call' \in [Threads -> Calls] /\ steps' \in [Threads -> 0..MaxSteps]
        /\ calls' \in [Threads -> 0..2] /\ broken' \in BOOLEAN /\ resuming' \subseteq Threads
    BY <1>0, <1>11, StepsTypes DEF StepFork, loopVars, TypeInv, Calls
  <2> QED BY <2>2, <2>3 DEF TypeInv
<1> QED BY <1>1, <1>2, <1>3, <1>4, <1>5, <1>6, <1>7, <1>8, <1>9, <1>10, <1>11
       DEF Next, AppStep, ThreadStep, TimerStep

LEMMA OnBorn ==
  ASSUME FramesInv, NEW fn, NEW t \in Threads, On(fn, t)
  PROVE  t \in Born
BY ThreadTypes DEF FramesInv, On, Fn

LEMMA SetInvKeeps ==
  ASSUME IInv, Next
  PROVE  SetInv'
<1>0. DataInv /\ FramesInv /\ Lists /\ SetInv /\ Born \subseteq Born' /\ Waiting \subseteq Born
  BY BornStays DEF IInv, DataInv, TypeInv, ListInv
<1>1. ASSUME Stop
      PROVE  SetInv'
  BY <1>0, <1>1 DEF Stop, SetInv, Step, BuiltinCalled, newVars, listVars, loopVars, EmptyQueue
<1>2. ASSUME NEW t \in Threads, NEW mode \in RunModes, Execute(t, mode)
      PROVE  SetInv'
  <2>3. t \in Born'
    BY <1>0, <1>2 DEF Execute, NewThread, Born, DataInv, TypeInv
  <2> QED BY <1>0, <1>2, <2>3 DEF Execute, Starts, SetInv, Step, BuiltinCalled, newVars, listVars,
             loopVars, EmptyQueue, NewThread, Starts
<1>3. ASSUME NEW t \in 0..MaxThreads, AbortRelated(t)
      PROVE  SetInv'
  BY <1>0, <1>3 DEF AbortRelated, SetInv, Step, BuiltinCalled, newVars, listVars, loopVars, EmptyQueue
<1>4. ASSUME NEW t \in Threads, EnterQueued(t) \/ EnterBusy(t) \/ EnterStarts(t)
      PROVE  SetInv'
  <2>1. On("enter", t)
    BY <1>0, <1>4, EnterQueuedEffect, EnterBusyEffect, EnterStartsEffect
  <2>2. t \in Born
    BY <1>0, <2>1, OnBorn
  <2> QED BY <1>0, <1>4, <2>2 DEF EnterQueued, EnterBusy, EnterStarts, Starts, SetInv, Step,
             BuiltinCalled, newVars, listVars, loopVars, EmptyQueue
<1>5. ASSUME NEW t \in Threads, ResumeNested(t) \/ ResumeAborted(t) \/ ResumeLoop(t)
      PROVE  SetInv'
  <2>1. On("resume", t)
    BY <1>0, <1>5, ResumeNestedEffect, ResumeAbortedEffect, ResumeLoopEffect
  <2>2. t \in Born
    BY <1>0, <2>1, OnBorn
  <2> QED BY <1>0, <1>5, <2>2 DEF ResumeNested, ResumeAborted, ResumeLoop, Starts, SetInv, Step,
             BuiltinCalled, newVars, listVars, loopVars, EmptyQueue
<1>6. ASSUME NEW t \in Threads, Stepped(t)
      PROVE  SetInv'
  <2>1. On("stepped", t)
    BY <1>0, <1>6, SteppedEffect
  <2>2. t \in Born
    BY <1>0, <2>1, OnBorn
  <2> QED BY <1>0, <1>6, <2>2 DEF Stepped, Starts, SetInv, Step, BuiltinCalled, newVars, listVars,
             loopVars, EmptyQueue
<1>7. ASSUME NEW t \in Threads, TimeSlice(t) \/ StepEnds(t) \/ StepDelay(t) \/ StepAbortOwnChain(t)
              \/ StepAbortOthers(t)
      PROVE  SetInv'
  <2>1. On("step", t)
    BY <1>0, <1>7, TimeSliceEffect, StepEndsEffect, StepDelayEffect, StepAbortOwnChainEffect,
       StepAbortOthersEffect
  <2>2. t \in Born
    BY <1>0, <2>1, OnBorn
  <2> QED BY <1>0, <1>7, <2>2 DEF TimeSlice, StepEnds, StepDelay, StepAbortOwnChain, StepAbortOthers,
             Starts, SetInv, Step, BuiltinCalled, newVars, listVars, loopVars, EmptyQueue
<1>8. ASSUME NEW t \in Threads, Store(t)
      PROVE  SetInv'
  <2>1. On("store", t)
    BY <1>0, <1>8, StoreEffect
  <2>2. t \in Born
    BY <1>0, <2>1, OnBorn
  <2> QED BY <1>0, <1>8, <2>2 DEF Store, Starts, SetInv, Step, BuiltinCalled, newVars, listVars,
             loopVars, EmptyQueue
<1>9. ASSUME NEW t \in Threads, Return(t)
      PROVE  SetInv'
  <2>1. On("return", t)
    BY <1>0, <1>9, ReturnEffect
  <2>2. t \in Born
    BY <1>0, <2>1, OnBorn
  <2> QED BY <1>0, <1>9, <2>2 DEF Return, Starts, SetInv, Step, BuiltinCalled, newVars, listVars,
             loopVars, EmptyQueue
<1>10. ASSUME NEW t \in Threads, AbortEnded(t) \/ AbortAlone(t) \/ AbortBuiltin(t)
              \/ AbortFunction(t)
       PROVE  SetInv'
  <2>1. On("abort", t)
    BY <1>0, <1>10, AbortEndedEffect, AbortAloneEffect, AbortBuiltinEffect, AbortFunctionEffect
  <2>2. t \in Born
    BY <1>0, <2>1, OnBorn
  <2> QED BY <1>0, <1>10, <2>2 DEF AbortEnded, AbortAlone, AbortBuiltin, AbortFunction, Starts,
             SetInv, Step, BuiltinCalled, newVars, listVars, loopVars, EmptyQueue
<1>11. ASSUME NEW t \in Threads, Complete(t)
       PROVE  SetInv'
  <2>1. On("complete", t)
    BY <1>0, <1>11, CompleteEffect, CallerTypes
  <2>2. t \in Born
    BY <1>0, <2>1, OnBorn
  <2> QED BY <1>0, <1>11, <2>2 DEF Complete, Starts, SetInv, Step, BuiltinCalled, newVars, listVars,
             loopVars, EmptyQueue
<1>12. ASSUME NEW t \in Threads, CallbackReturns(t)
       PROVE  SetInv'
  <2>1. On("callback", t)
    BY <1>0, <1>12, CallbackReturnsEffect
  <2>2. t \in Born
    BY <1>0, <2>1, OnBorn
  <2> QED BY <1>0, <1>12, <2>2 DEF CallbackReturns, Starts, SetInv, Step, BuiltinCalled, newVars,
             listVars, loopVars, EmptyQueue
<1>13. ASSUME NEW t \in Threads, Ended(t)
       PROVE  SetInv'
  <2>1. On("ended", t)
    BY <1>0, <1>13, EndedEffect
  <2>2. t \in Born
    BY <1>0, <2>1, OnBorn
  <2>3. running' \subseteq running \cup Waiting
    BY <1>0, <1>13 DEF Ended, MayStartNext, Lists, Waiting, Range
  <2> QED BY <1>0, <1>13, <2>2, <2>3 DEF Ended, SetInv, newVars, loopVars
<1>14. ASSUME NEW t \in Threads, NEW u \in Threads, StepAbort(t, u)
       PROVE  SetInv'
  <2>1. On("step", t)
    BY <1>0, <1>14, StepAbortEffect
  <2>2. t \in Born
    BY <1>0, <2>1, OnBorn
  <2> QED BY <1>0, <1>14, <2>2 DEF StepAbort, Starts, SetInv, Step, BuiltinCalled, newVars, listVars,
             loopVars, EmptyQueue
<1>15. ASSUME NEW t \in Threads, NEW u \in Threads, NEW k \in {"function", "eval"}, 
              StepCall(t, u, k)
       PROVE  SetInv'
  <2>3. u \in Born'
    BY <1>0, <1>15 DEF StepCall, NewThread, Born, DataInv, TypeInv
  <2>1. On("step", t)
    BY <1>0, <1>15, StepCallEffect
  <2>2. t \in Born
    BY <1>0, <2>1, OnBorn
  <2> QED BY <1>0, <1>15, <2>3, <2>2 DEF StepCall, Starts, SetInv, Step, BuiltinCalled, newVars,
             listVars, loopVars, EmptyQueue, NewThread, Starts
<1>16. ASSUME NEW t \in Threads, NEW u \in Threads, NEW as \in BOOLEAN, StepFork(t, u, as)
       PROVE  SetInv'
  <2>3. u \in Born'
    BY <1>0, <1>16 DEF StepFork, NewThread, Born, DataInv, TypeInv
  <2>1. On("step", t)
    BY <1>0, <1>16, StepForkEffect
  <2>2. t \in Born
    BY <1>0, <2>1, OnBorn
  <2> QED BY <1>0, <1>16, <2>3, <2>2 DEF StepFork, Starts, SetInv, Step, BuiltinCalled, newVars,
             listVars, loopVars, EmptyQueue, NewThread, Starts
<1>17. ASSUME NEW t \in Threads, SliceOver(t) \/ DelayOver(t)
       PROVE  SetInv'
  BY <1>0, <1>17 DEF SliceOver, DelayOver, SetInv, Step, BuiltinCalled, newVars, listVars, loopVars,
     EmptyQueue
<1> QED BY <1>1, <1>2, <1>3, <1>4, <1>5, <1>6, <1>7, <1>8, <1>9, <1>10, <1>11, <1>12, <1>13, <1>14,
           <1>15, <1>16, <1>17
       DEF Next, AppStep, ThreadStep, TimerStep

LEMMA QueueStaysOrEmpties ==
  ASSUME Lists, ListInv, UNCHANGED queued \/ queued' = <<>>
  PROVE  queued' \in Seq(Threads) /\ Waiting' \subseteq Waiting /\ IsInjective(queued')
<1>1. CASE UNCHANGED queued
  BY <1>1 DEF Lists, ListInv, Waiting
<1>2. CASE queued' = <<>>
  <2>1. <<>> \in Seq(Threads) /\ DOMAIN <<>> = {}
    OBVIOUS
  <2>2. Range(<<>>) = {} /\ IsInjective(<<>>)
    BY <2>1 DEF Range, IsInjective
  <2> QED BY <1>2, <2>1, <2>2 DEF Waiting
<1> QED BY <1>1, <1>2

LEMMA ListInvKeeps ==
  ASSUME IInv, Next
  PROVE  Lists' /\ ListInv'
<1>0. /\ DataInv /\ Lists /\ ListInv /\ FramesInv /\ StartInv /\ stack' \in Seq(Frames) /\ Born \subseteq Born'
      /\ FrameInv /\ ThreadInv /\ TypeInv
  BY BornStays, FramesKeep DEF IInv, DataInv, TypeInv
<1>1. ASSUME Stop
      PROVE  Lists' /\ ListInv'
  <2>1. UNCHANGED threads /\ (UNCHANGED queued \/ queued' = <<>>)
    BY <1>1 DEF Stop, EmptyQueue, BuiltinCalled
  <2>2. queued' \in Seq(Threads) /\ Waiting' \subseteq Waiting /\ IsInjective(queued')
    BY <1>0, <2>1, QueueStaysOrEmpties
  <2>3. UNCHANGED context
    BY <1>1 DEF Stop, BuiltinCalled, newVars
  <2> QED BY <1>0, <2>1, <2>2, <2>3 DEF Lists, ListInv, Listed
<1>2. ASSUME NEW t \in Threads, NEW mode \in RunModes, Execute(t, mode)
      PROVE  Lists' /\ ListInv'
  <2>1. UNCHANGED threads /\ (UNCHANGED queued \/ queued' = <<>>)
    BY <1>2 DEF Execute, EmptyQueue, BuiltinCalled
  <2>2. queued' \in Seq(Threads) /\ Waiting' \subseteq Waiting /\ IsInjective(queued')
    BY <1>0, <2>1, QueueStaysOrEmpties
  <2>3. \A u \in Listed : context'[u] = context[u]
    BY <1>0, <1>2 DEF Execute, NewThread, Fresh, ListInv, TypeInv, Born
  <2> QED BY <1>0, <2>1, <2>2, <2>3 DEF Lists, ListInv, Listed
<1>3. ASSUME NEW t \in 0..MaxThreads, AbortRelated(t)
      PROVE  Lists' /\ ListInv'
  BY <1>0, <1>3 DEF AbortRelated, Lists, ListInv, Listed, Waiting, Step, BuiltinCalled, newVars,
     listVars
<1>4. ASSUME NEW t \in Threads, EnterQueued(t)
      PROVE  Lists' /\ ListInv'
  <2>1. On("enter", t)
    BY <1>0, <1>4, EnterQueuedEffect
  <2>2. t \in Born /\ t \notin Waiting
    BY <1>0, <2>1, OnBorn DEF StartInv, On, Fn
  <2>3. queued' \in Seq(Threads) /\ Waiting' = Waiting \cup {t} /\ IsInjective(queued')
    BY <1>0, <1>4, <2>2, AppendElements DEF EnterQueued, Waiting, Lists, ListInv
  <2> QED BY <1>0, <1>4, <2>2, <2>3 DEF EnterQueued, Lists, ListInv, Listed, newVars
<1>5. ASSUME NEW t \in Threads, EnterBusy(t) \/ ResumeNested(t) \/ ResumeAborted(t) \/ ResumeLoop(t)
              \/ Stepped(t) \/ TimeSlice(t)
      PROVE  Lists' /\ ListInv'
  BY <1>0, <1>5 DEF EnterBusy, ResumeNested, ResumeAborted, ResumeLoop, Stepped, TimeSlice, Lists,
     ListInv, Listed, Waiting, Step, BuiltinCalled, newVars, listVars
<1>6. ASSUME NEW t \in Threads, EnterStarts(t)
      PROVE  Lists' /\ ListInv'
  <2>1. On("enter", t)
    BY <1>0, <1>6, EnterStartsEffect
  <2>2. t \in Born /\ t \notin Listed /\ context[t] # None
    BY <1>0, <2>1, OnBorn, ThreadTypes DEF StartInv, Unstarted, On, Fn
  <2>3. threads' \in Seq(Threads) /\ Listed' = Listed \cup {t} /\ IsInjective(threads')
    BY <1>0, <1>6, <2>2, AppendElements DEF EnterStarts, Starts, Listed, Lists, ListInv
  <2> QED BY <1>0, <1>6, <2>2, <2>3 DEF EnterStarts, Lists, ListInv, Waiting, newVars
<1>7. ASSUME NEW t \in Threads, StepEnds(t) \/ StepDelay(t) \/ StepAbortOwnChain(t) \/ Store(t)
              \/ Return(t) \/ AbortEnded(t)
      PROVE  Lists' /\ ListInv'
  BY <1>0, <1>7 DEF StepEnds, StepDelay, StepAbortOwnChain, Store, Return, AbortEnded, Lists,
     ListInv, Listed, Waiting, Step, BuiltinCalled, newVars, listVars
<1>8. ASSUME NEW t \in Threads, StepAbortOthers(t)
      PROVE  Lists' /\ ListInv'
  <2>1. UNCHANGED threads /\ (UNCHANGED queued \/ queued' = <<>>)
    BY <1>8 DEF StepAbortOthers, EmptyQueue, BuiltinCalled
  <2>2. queued' \in Seq(Threads) /\ Waiting' \subseteq Waiting /\ IsInjective(queued')
    BY <1>0, <2>1, QueueStaysOrEmpties
  <2>3. UNCHANGED context
    BY <1>8 DEF StepAbortOthers, BuiltinCalled, newVars
  <2> QED BY <1>0, <2>1, <2>2, <2>3 DEF Lists, ListInv, Listed
<1>9. ASSUME NEW t \in Threads, AbortAlone(t) \/ AbortBuiltin(t) \/ AbortFunction(t) \/ Complete(t)
              \/ CallbackReturns(t) \/ SliceOver(t)
      PROVE  Lists' /\ ListInv'
  BY <1>0, <1>9 DEF AbortAlone, AbortBuiltin, AbortFunction, Complete, CallbackReturns, SliceOver,
     Lists, ListInv, Listed, Waiting, Step, BuiltinCalled, newVars, listVars
<1>10. ASSUME NEW t \in Threads, Ended(t)
       PROVE  Lists' /\ ListInv'
  <2> DEFINE rest == Except(threads, t)
             next == context[t] = Main /\ MayStartNext(Select(rest, {u \in Threads : context[u] = Main}))
  <2>1. rest \in Seq(Threads) /\ Range(rest) = Listed \ {t} /\ IsInjective(rest)
    BY <1>0, ExceptProperties DEF Lists, ListInv, Listed
  <2>2. /\ threads' = IF next THEN Append(rest, Head(queued)) ELSE rest
        /\ queued' = IF next THEN Tail(queued) ELSE queued
        /\ context' = [context EXCEPT ![t] = None] /\ UNCHANGED kind
        /\ next => queued # <<>>
    BY <1>10 DEF Ended, MayStartNext, newVars
  <2>6. \A u \in Threads \ {t} : context'[u] = context[u]
    BY <1>0, <2>2 DEF TypeInv
  <2>3. CASE next
    <3>1. PICK h : h = Head(queued)
      OBVIOUS
    <3>2. /\ Tail(queued) \in Seq(Threads) /\ Range(Tail(queued)) = Waiting \ {h}
          /\ IsInjective(Tail(queued)) /\ h \in Waiting /\ h \in Threads
      BY <1>0, <2>2, <2>3, <3>1, TailElements DEF Lists, ListInv, Waiting
    <3>6. t \notin Waiting
      <4>1. On("ended", t)
        BY <1>0, <1>10, EndedEffect
      <4> QED BY <1>0, <4>1 DEF StartInv, On, Fn
    <3>3. h \notin Listed /\ context[h] = Main /\ Main # None /\ h # t
      BY <1>0, <3>2, <3>6, ThreadTypes DEF StartInv, Unstarted
    <3>4. h \notin Range(rest)
      BY <2>1, <3>3
    <3> HIDE DEF rest
    <3>5. threads' \in Seq(Threads) /\ Range(threads') = Range(rest) \cup {h} /\ IsInjective(threads')
      BY <2>1, <2>2, <2>3, <3>1, <3>2, <3>4, AppendElements
    <3>7. Listed' = (Listed \ {t}) \cup {h} /\ Waiting' = Waiting \ {h}
      BY <2>1, <2>2, <2>3, <3>2, <3>5 DEF Listed, Waiting
    <3>8. queued' \in Seq(Threads) /\ IsInjective(queued')
      BY <2>2, <2>3, <3>2
    <3>9. Born' = Born
      BY <2>2 DEF Born
    <3>10. \A u \in Listed' : context'[u] # None
      <4>1. Listed \subseteq Threads
        BY <1>0 DEF ListInv, Born
      <4> QED BY <1>0, <2>6, <3>2, <3>3, <3>7, <4>1 DEF ListInv
    <3> QED BY <1>0, <3>2, <3>5, <3>7, <3>8, <3>9, <3>10 DEF Lists, ListInv
  <2>4. CASE ~next
    <3>1. threads' = rest /\ UNCHANGED queued
      BY <2>2, <2>4
    <3>2. Listed' = Listed \ {t} /\ Waiting' = Waiting /\ Born' = Born
      BY <2>1, <2>2, <3>1 DEF Listed, Waiting, Born
    <3>3. Listed \subseteq Threads
      BY <1>0 DEF ListInv, Born
    <3>4. \A u \in Listed' : context'[u] # None
      BY <1>0, <2>6, <3>2, <3>3 DEF ListInv
    <3> HIDE DEF rest, next
    <3> QED BY <1>0, <2>1, <3>1, <3>2, <3>4 DEF Lists, ListInv
  <2> QED BY <2>3, <2>4
<1>11. ASSUME NEW t \in Threads, NEW u \in Threads, StepAbort(t, u)
       PROVE  Lists' /\ ListInv'
  BY <1>0, <1>11 DEF StepAbort, Lists, ListInv, Listed, Waiting, Step, BuiltinCalled, newVars, listVars
<1>12. ASSUME NEW t \in Threads, NEW u \in Threads, NEW k \in {"function", "eval"}, 
              StepCall(t, u, k)
       PROVE  Lists' /\ ListInv'
  <2>1. On("step", t)
    BY <1>0, <1>12, StepCallEffect
  <2>4. u # None
    BY ThreadTypes
  <2>2. u \notin Listed /\ u \in Born' /\ context'[u] # None /\ \A x \in Listed : context'[x] = context[x]
    BY <1>0, <1>12, <2>4 DEF StepCall, NewThread, Fresh, ListInv, TypeInv, Born
  <2>3. threads' \in Seq(Threads) /\ Listed' = Listed \cup {u} /\ IsInjective(threads')
    BY <1>0, <1>12, <2>2, AppendElements DEF StepCall, Starts, Listed, Lists, ListInv
  <2> QED BY <1>0, <1>12, <2>2, <2>3 DEF StepCall, Lists, ListInv, Waiting
<1>13. ASSUME NEW t \in Threads, NEW u \in Threads, NEW as \in BOOLEAN, StepFork(t, u, as)
       PROVE  Lists' /\ ListInv'
  <2>1. On("step", t)
    BY <1>0, <1>13, StepForkEffect
  <2>4. context[t] # None
    BY <1>0, <2>1 DEF FrameInv, Knows, ThreadInv, On, Fn
  <2>2. u \notin Listed /\ u \in Born' /\ context'[u] # None /\ \A x \in Listed : context'[x] = context[x]
    BY <1>0, <1>13, <2>4 DEF StepFork, NewThread, Fresh, ListInv, TypeInv, Born
  <2>3. threads' \in Seq(Threads) /\ Listed' = Listed \cup {u} /\ IsInjective(threads')
    BY <1>0, <1>13, <2>2, AppendElements DEF StepFork, Starts, Listed, Lists, ListInv
  <2> QED BY <1>0, <1>13, <2>2, <2>3 DEF StepFork, Lists, ListInv, Waiting
<1>14. ASSUME NEW t \in Threads, DelayOver(t)
       PROVE  Lists' /\ ListInv'
  BY <1>0, <1>14 DEF DelayOver, Lists, ListInv, Listed, Waiting, Step, BuiltinCalled, newVars, listVars
<1> QED BY <1>1, <1>2, <1>3, <1>4, <1>5, <1>6, <1>7, <1>8, <1>9, <1>10, <1>11, <1>12, <1>13, <1>14
       DEF Next, AppStep, ThreadStep, TimerStep

LEMMA DataInvKeeps ==
  ASSUME IInv, Next
  PROVE  DataInv'
BY TypeInvKeeps, SetInvKeeps, ListInvKeeps DEF DataInv

=============================================================================
