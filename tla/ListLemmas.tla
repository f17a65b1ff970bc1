----------------------------- MODULE ListLemmas -----------------------------
(***************************************************************************)
(* Facts about the operators the models use for the code's lists: the      *)
(* least element of a set of numbers, and inserting into, removing from,   *)
(* joining and reversing sequences.                                        *)
(***************************************************************************)
EXTENDS Integers, Sequences, SequencesExt, SequenceTheorems, WellFoundedInduction, TLAPS

\* Every nonempty set of natural numbers has a least element.
LEMMA LeastNatural ==
  ASSUME NEW S \in SUBSET Nat, S # {}
  PROVE  \E m \in S : \A k \in S : m <= k
<1> DEFINE R == {ss \in Nat \X Nat : ss[1] < ss[2]}
<1>1. IsWellFoundedOn(R, Nat)
  BY NatLessThanWellFounded DEF OpToRel
<1>2. PICK x \in S : \A y \in S : ~(<<y, x>> \in R)
  <2> HIDE DEF R
  <2> QED BY <1>1, WFMin
<1>3. ASSUME NEW y \in S PROVE x <= y
  <2>1. x \in Nat /\ y \in Nat
    OBVIOUS
  <2>2. y < x => <<y, x>> \in R
    BY <2>1
  <2> HIDE DEF R
  <2>3. ~(y < x)
    BY <1>2, <2>2
  <2> QED BY <2>1, <2>3
<1> QED BY <1>3

\* Min is that element.
LEMMA MinIsLeast ==
  ASSUME NEW S \in SUBSET Nat, S # {}
  PROVE  Min(S) \in S /\ \A k \in S : Min(S) <= k
BY LeastNatural DEF Min

\* InsertAt puts the element at the given index and shifts the ones behind it.
LEMMA InsertAtProperties ==
  ASSUME NEW T, NEW s \in Seq(T), NEW e \in T, NEW p \in 1 .. Len(s) + 1
  PROVE  /\ InsertAt(s, p, e) \in Seq(T)
         /\ Len(InsertAt(s, p, e)) = Len(s) + 1
         /\ \A i \in 1 .. Len(s) + 1 :
              InsertAt(s, p, e)[i] = IF i < p THEN s[i] ELSE IF i = p THEN e ELSE s[i - 1]
<1> DEFINE a == SubSeq(s, 1, p - 1)
           b == SubSeq(s, p, Len(s))
<1>1. /\ a \in Seq(T) /\ Len(a) = p - 1
      /\ \A i \in 1 .. p - 1 : a[i] = s[i]
  BY SubSeqProperties
<1>2. /\ b \in Seq(T) /\ Len(b) = Len(s) - p + 1
      /\ \A i \in 1 .. (Len(s) - p + 1) : b[i] = s[p + i - 1]
  BY SubSeqProperties
<1> HIDE DEF a, b
<1>3. /\ a \o <<e>> \in Seq(T) /\ Len(a \o <<e>>) = p
      /\ \A i \in 1 .. p : (a \o <<e>>)[i] = IF i < p THEN a[i] ELSE e
  BY <1>1
<1> DEFINE c == a \o <<e>>
<1>4. InsertAt(s, p, e) = c \o b
  BY DEF InsertAt, a, b
<1>6. /\ c \in Seq(T) /\ Len(c) = p
      /\ \A i \in 1 .. p : c[i] = IF i < p THEN a[i] ELSE e
  BY <1>3
<1> HIDE DEF c
<1>5. /\ c \o b \in Seq(T) /\ Len(c \o b) = Len(c) + Len(b)
      /\ \A i \in 1 .. Len(c) + Len(b) :
           (c \o b)[i] = IF i <= Len(c) THEN c[i] ELSE b[i - Len(c)]
  BY <1>2, <1>6, ConcatProperties
<1>7. Len(c) + Len(b) = Len(s) + 1
  BY <1>2, <1>6
<1>8. ASSUME NEW i \in 1 .. Len(s) + 1
      PROVE  (c \o b)[i] = IF i < p THEN s[i] ELSE IF i = p THEN e ELSE s[i - 1]
  <2>1. CASE i <= p
    BY <2>1, <1>1, <1>5, <1>6, <1>7
  <2>2. CASE i > p
    <3>1. i - p \in 1 .. (Len(s) - p + 1)
      BY <2>2
    <3>2. b[i - p] = s[i - 1]
      BY <3>1, <1>2
    <3>3. (c \o b)[i] = b[i - p]
      BY <2>2, <1>5, <1>6, <1>7
    <3> QED BY <2>2, <3>2, <3>3
  <2>3. i <= p \/ i > p
    OBVIOUS
  <2> QED BY <2>1, <2>2, <2>3
<1> QED BY <1>4, <1>5, <1>7, <1>8

\* RemoveAt drops the element at the given index and closes the gap.
LEMMA RemoveAtProperties ==
  ASSUME NEW T, NEW s \in Seq(T), NEW p \in 1 .. Len(s)
  PROVE  /\ RemoveAt(s, p) \in Seq(T)
         /\ Len(RemoveAt(s, p)) = Len(s) - 1
         /\ \A i \in 1 .. Len(s) - 1 :
              RemoveAt(s, p)[i] = IF i < p THEN s[i] ELSE s[i + 1]
<1> DEFINE a == SubSeq(s, 1, p - 1)
           b == SubSeq(s, p + 1, Len(s))
<1>1. /\ a \in Seq(T) /\ Len(a) = p - 1
      /\ \A i \in 1 .. p - 1 : a[i] = s[i]
  BY SubSeqProperties
<1>2. /\ b \in Seq(T) /\ Len(b) = Len(s) - p
      /\ \A i \in 1 .. (Len(s) - p) : b[i] = s[p + i]
  BY SubSeqProperties
<1> HIDE DEF a, b
<1>3. RemoveAt(s, p) = a \o b
  BY DEF RemoveAt, a, b
<1>4. /\ a \o b \in Seq(T) /\ Len(a \o b) = Len(a) + Len(b)
      /\ \A i \in 1 .. Len(a) + Len(b) :
           (a \o b)[i] = IF i <= Len(a) THEN a[i] ELSE b[i - Len(a)]
  BY <1>1, <1>2, ConcatProperties
<1>5. ASSUME NEW i \in 1 .. Len(s) - 1
      PROVE  (a \o b)[i] = IF i < p THEN s[i] ELSE s[i + 1]
  <2>1. CASE i < p
    BY <2>1, <1>1, <1>2, <1>4
  <2>2. CASE i >= p
    <3>1. i - p + 1 \in 1 .. (Len(s) - p)
      BY <2>2
    <3>2. b[i - p + 1] = s[i + 1]
      BY <3>1, <1>2
    <3>3. (a \o b)[i] = b[i - (p - 1)]
      BY <2>2, <1>1, <1>2, <1>4
    <3>4. i - (p - 1) = i - p + 1
      OBVIOUS
    <3> QED BY <2>2, <3>2, <3>3, <3>4
  <2>3. i < p \/ i >= p
    OBVIOUS
  <2> QED BY <2>1, <2>2, <2>3
<1> QED BY <1>1, <1>2, <1>3, <1>4, <1>5

\* Front drops the last element.
LEMMA FrontProperties ==
  ASSUME NEW T, NEW s \in Seq(T), s # <<>>
  PROVE  /\ Len(s) \in Nat \ {0} /\ DOMAIN s = 1..Len(s)
         /\ Last(s) = s[Len(s)] /\ Last(s) \in T
         /\ Front(s) \in Seq(T) /\ Len(Front(s)) = Len(s) - 1
         /\ DOMAIN Front(s) = 1..(Len(s) - 1)
         /\ \A i \in 1..(Len(s) - 1) : Front(s)[i] = s[i]
<1>1. Len(s) \in Nat \ {0} /\ DOMAIN s = 1..Len(s)
  BY EmptySeq
<1>2. /\ SubSeq(s, 1, Len(s) - 1) \in Seq(T)
      /\ Len(SubSeq(s, 1, Len(s) - 1)) = Len(s) - 1
      /\ \A i \in 1..(Len(s) - 1) : SubSeq(s, 1, Len(s) - 1)[i] = s[i]
  BY <1>1, SubSeqProperties
<1>3. Last(s) = s[Len(s)] /\ s[Len(s)] \in T
  BY <1>1 DEF Last
<1>4. Front(s) = SubSeq(s, 1, Len(s) - 1)
  BY DEF Front
<1> HIDE DEF Front
<1> QED BY <1>1, <1>2, <1>3, <1>4

\* The last element is replaced by another one.
LEMMA ReplaceLastProperties ==
  ASSUME NEW T, NEW s \in Seq(T), s # <<>>, NEW e \in T
  PROVE  /\ Append(Front(s), e) \in Seq(T) /\ Len(Append(Front(s), e)) = Len(s)
         /\ Append(Front(s), e)[Len(s)] = e
         /\ \A i \in 1..(Len(s) - 1) : Append(Front(s), e)[i] = s[i]
<1> DEFINE f == Front(s)
<1>1. /\ f \in Seq(T) /\ Len(f) = Len(s) - 1 /\ Len(s) \in Nat \ {0}
      /\ \A i \in 1..(Len(s) - 1) : f[i] = s[i]
  BY FrontProperties
<1> HIDE DEF f
<1>2. /\ Append(f, e) \in Seq(T) /\ Len(Append(f, e)) = Len(f) + 1
      /\ Append(f, e)[Len(f) + 1] = e
      /\ \A i \in 1..Len(f) : Append(f, e)[i] = f[i]
  BY <1>1, AppendProperties
<1>3. Len(f) + 1 = Len(s)
  BY <1>1
<1> QED BY <1>1, <1>2, <1>3 DEF f

\* Reverse turns the sequence round.
LEMMA ReverseProperties ==
  ASSUME NEW T, NEW s \in Seq(T)
  PROVE  /\ Reverse(s) \in Seq(T) /\ Len(Reverse(s)) = Len(s)
         /\ \A i \in 1..Len(s) : Reverse(s)[i] = s[Len(s) + 1 - i]
<1>1. Len(s) \in Nat /\ \A i \in 1..Len(s) : s[(Len(s) - i) + 1] \in T
  <2>1. Len(s) \in Nat /\ \A i \in 1..Len(s) : s[i] \in T
    OBVIOUS
  <2>2. \A i \in 1..Len(s) : (Len(s) - i) + 1 \in 1..Len(s)
    BY <2>1
  <2> QED BY <2>1, <2>2
<1> DEFINE r == [i \in 1..Len(s) |-> s[(Len(s) - i) + 1]]
<1>2. r \in Seq(T) /\ Len(r) = Len(s)
  BY <1>1
<1>3. ASSUME NEW i \in 1..Len(s)
      PROVE  r[i] = s[Len(s) + 1 - i]
  <2>1. (Len(s) - i) + 1 = Len(s) + 1 - i
    BY <1>1
  <2> QED BY <2>1
<1> HIDE DEF r
<1>4. Reverse(s) = r
  BY DEF Reverse, r
<1> QED BY <1>2, <1>3, <1>4

\* Two elements, one after the other.
LEMMA ConcatTwo ==
  ASSUME NEW a, NEW b
  PROVE  <<a>> \o <<b>> = <<a, b>>
<1>1. /\ <<a>> \in Seq({a, b}) /\ <<b>> \in Seq({a, b}) /\ <<a, b>> \in Seq({a, b})
      /\ Len(<<a>>) = 1 /\ Len(<<b>>) = 1 /\ Len(<<a, b>>) = 2
      /\ <<a>>[1] = a /\ <<b>>[1] = b /\ <<a, b>>[1] = a /\ <<a, b>>[2] = b
  OBVIOUS
<1>2. PICK s : s = <<a>>
  OBVIOUS
<1>3. PICK r : r = <<b>>
  OBVIOUS
<1>4. /\ s \o r \in Seq({a, b}) /\ Len(s \o r) = 2
      /\ \A i \in 1..2 : (s \o r)[i] = IF i <= 1 THEN s[i] ELSE r[i - 1]
  <2>1. s \in Seq({a, b}) /\ r \in Seq({a, b}) /\ Len(s) = 1 /\ Len(r) = 1
    BY <1>1, <1>2, <1>3
  <2>2. s \o r \in Seq({a, b}) /\ Len(s \o r) = Len(s) + Len(r)
    BY <2>1, ConcatProperties
  <2>3. \A i \in 1..Len(s) + Len(r) :
          (s \o r)[i] = IF i <= Len(s) THEN s[i] ELSE r[i - Len(s)]
    BY <2>1, ConcatProperties
  <2> QED BY <2>1, <2>2, <2>3
<1>5. \A i \in 1..2 : (s \o r)[i] = <<a, b>>[i]
  <2>1. (s \o r)[1] = a
    BY <1>1, <1>2, <1>4
  <2>2. (s \o r)[2] = b
    BY <1>1, <1>3, <1>4
  <2> SUFFICES ASSUME NEW i \in 1..2 PROVE (s \o r)[i] = <<a, b>>[i]
    OBVIOUS
  <2>3. CASE i = 1
    BY <2>1, <2>3
  <2>4. CASE i = 2
    BY <2>2, <2>4
  <2>5. i = 1 \/ i = 2
    OBVIOUS
  <2> QED BY <2>3, <2>4, <2>5
<1>6. s \o r = <<a, b>>
  BY <1>1, <1>4, <1>5, SeqEqual
<1> QED BY <1>2, <1>3, <1>6

\* A list that gets an element it does not hold, and one that loses its first.
LEMMA AppendElements ==
  ASSUME NEW T, NEW s \in Seq(T), NEW e \in T, e \notin Range(s)
  PROVE  /\ Append(s, e) \in Seq(T) /\ Range(Append(s, e)) = Range(s) \cup {e}
         /\ IsInjective(s) => IsInjective(Append(s, e))
<1>1. PICK r : r = Append(s, e)
  OBVIOUS
<1>2. PICK n : n = Len(s)
  OBVIOUS
<1>3. /\ r \in Seq(T) /\ n \in Nat /\ Len(r) = n + 1 /\ r[n + 1] = e
      /\ \A i \in 1..n : r[i] = s[i]
      /\ DOMAIN r = 1..(n + 1) /\ DOMAIN s = 1..n
  BY <1>1, <1>2, AppendProperties
<1>4. Range(r) = Range(s) \cup {e}
  BY <1>3 DEF Range
<1>5. ASSUME IsInjective(s), NEW i \in 1..(n + 1), NEW j \in 1..(n + 1), r[i] = r[j]
      PROVE  i = j
  <2>1. \A k \in 1..n : s[k] # e
    BY <1>3 DEF Range
  <2>2. \A k \in 1..n, m \in 1..n : s[k] = s[m] => k = m
    BY <1>3, <1>5 DEF IsInjective
  <2>3. CASE i = n + 1
    BY <1>3, <1>5, <2>1, <2>3
  <2>4. CASE j = n + 1
    BY <1>3, <1>5, <2>1, <2>4
  <2>5. CASE i \in 1..n /\ j \in 1..n
    BY <1>3, <1>5, <2>2, <2>5
  <2> QED BY <1>3, <2>3, <2>4, <2>5
<1>6. IsInjective(s) => IsInjective(r)
  BY <1>3, <1>5 DEF IsInjective
<1> QED BY <1>1, <1>3, <1>4, <1>6

LEMMA TailElements ==
  ASSUME NEW T, NEW s \in Seq(T), s # <<>>, IsInjective(s)
  PROVE  /\ Tail(s) \in Seq(T) /\ Range(Tail(s)) = Range(s) \ {Head(s)}
         /\ IsInjective(Tail(s)) /\ Head(s) \in Range(s) /\ Head(s) \in T
<1>1. PICK r : r = Tail(s)
  OBVIOUS
<1>2. PICK n : n = Len(s)
  OBVIOUS
<1>3. /\ r \in Seq(T) /\ n \in Nat \ {0} /\ Len(r) = n - 1
      /\ \A i \in 1..(n - 1) : r[i] = s[i + 1]
      /\ DOMAIN r = 1..(n - 1) /\ DOMAIN s = 1..n /\ Head(s) = s[1]
      /\ \A i \in 1..n : s[i] \in T
  BY <1>1, <1>2, EmptySeq, HeadTailProperties
<1>4. \A i, j \in 1..n : s[i] = s[j] => i = j
  BY <1>3 DEF IsInjective
<1>5. Range(r) \subseteq Range(s) \ {s[1]}
  <2> SUFFICES ASSUME NEW i \in 1..(n - 1)
               PROVE  r[i] \in Range(s) \ {s[1]}
    BY <1>3 DEF Range
  <2>1. i + 1 \in 1..n /\ 1 \in 1..n /\ i + 1 # 1 /\ r[i] = s[i + 1]
    BY <1>3
  <2>2. s[i + 1] # s[1]
    BY <1>4, <2>1
  <2> QED BY <1>3, <2>1, <2>2 DEF Range
<1>6. Range(s) \ {s[1]} \subseteq Range(r)
  <2> SUFFICES ASSUME NEW x \in Range(s), x # s[1]
               PROVE  x \in Range(r)
    OBVIOUS
  <2>1. PICK i \in 1..n : x = s[i]
    BY <1>3 DEF Range
  <2>2. i # 1 /\ i - 1 \in 1..(n - 1) /\ (i - 1) + 1 = i
    BY <1>3, <2>1
  <2>3. PICK j \in 1..(n - 1) : j + 1 = i
    BY <2>2
  <2>4. r[j] = x
    BY <1>3, <2>1, <2>3
  <2> QED BY <1>3, <2>4 DEF Range
<1>7. IsInjective(r)
  <2> SUFFICES ASSUME NEW i \in 1..(n - 1), NEW j \in 1..(n - 1), r[i] = r[j]
               PROVE  i = j
    BY <1>3 DEF IsInjective
  <2>1. i + 1 \in 1..n /\ j + 1 \in 1..n /\ s[i + 1] = s[j + 1]
    BY <1>3
  <2>2. i + 1 = j + 1
    BY <1>4, <2>1
  <2> QED BY <2>2
<1>8. Head(s) \in Range(s) /\ Head(s) \in T
  BY <1>3 DEF Range
<1> QED BY <1>1, <1>3, <1>5, <1>6, <1>7, <1>8

=============================================================================
