--------------------------- MODULE JsonRpcCommProofs ---------------------------
(***************************************************************************)
(* Proofs about JsonRpcComm, for any number of requests, junk messages and *)
(* connections.  All of them look at the stream as a whole: a message that *)
(* is sent is appended to it, a token the parser looks at is taken from    *)
(* its head, and nothing else changes it but the end of the connection.    *)
(***************************************************************************)
EXTENDS JsonRpcComm, FiniteSetTheorems, FunctionTheorems, SequenceTheorems, TLAPS

\* JSON mode, and a new connection begins with nothing left of the old one.
CarefulPeers == Raw = {} /\ ~CarriesOver

Ids == 0..MaxRequests[1] + MaxRequests[2]
Messages == [kind : Kinds, id : Ids]
Tokens == Nat \ {0}

VariablesTyped ==
  /\ open \in [Peers -> BOOLEAN] /\ closing \in [Peers -> BOOLEAN]
  /\ partial \in [Peers -> BOOLEAN] /\ ignore \in [Peers -> BOOLEAN]
  /\ buffer \in [Peers -> Seq(Tokens)] /\ wire \in [Peers -> Seq(Tokens)]
  /\ chunk \in [Peers -> Seq(Tokens)] /\ line \in [Peers -> Seq(Tokens)]
  /\ log \in [Peers -> Seq(Messages)]
  /\ counter \in [Peers -> Nat] /\ pending \in [Peers -> SUBSET Ids]
  /\ todo \in [Peers -> SUBSET Ids] /\ lost \in [Peers -> SUBSET Ids]
  /\ promised \in [Peers -> Nat \cup {NotClosed}]
  /\ connections \in 1..MaxConnections /\ torn \in BOOLEAN

\* What is on its way is of messages that have been sent.
OfTheLog(p) == \A i \in DOMAIN Stream(p) : Stream(p)[i] <= 3 * Len(log[p])

Typed ==
  /\ VariablesTyped
  /\ \A p \in Peers :
       /\ counter[p] <= MaxRequests[p] /\ pending[p] \subseteq 1..counter[p]
       /\ todo[p] # {} => p \in Serves
       /\ promised[p] <= Len(log[p])
       /\ OfTheLog(p)

\* A peer that has closed has nothing in its buffer but what came after; and a peer that has given up
\* has read everything before.
CloseInv ==
  \A p \in Peers :
    /\ promised[p] # NotClosed =>
         ~open[p] /\ \A i \in DOMAIN buffer[p] : buffer[p][i] > 3 * promised[p]
    /\ ~open[p] /\ promised[p] = NotClosed =>
         ~open[Other(p)] /\ wire[Other(p)] = <<>> /\ chunk[p] = <<>>

\* Tokens of a peer the other one has looked at, or that are lost with a connection.
Behind(p) == 3 * Len(log[p]) - Len(Stream(p))

\* The parser is where the stream begins: before a message, in it, or at its end.  In the middle of what is
\* no JSON it has failed already.
InStep(p) ==
  LET q == Other(p)
  IN \/ Behind(p) % 3 = 0 /\ ~partial[q] /\ ~ignore[q]
     \/ /\ Behind(p) % 3 = 1 /\ partial[q] # ignore[q]
        /\ ignore[q] <=> log[p][(Behind(p) + 2) \div 3].kind = "junk"
     \/ Behind(p) % 3 = 2 /\ ~partial[q] /\ ignore[q]

Whole(p) == Behind(p) \in Nat /\ Stream(p) = Upto(Behind(p) + 1, 3 * Len(log[p]))

StreamInv == ~torn /\ \A p \in Peers : Whole(p) /\ InStep(p)

\* The messages of which the other peer has not seen the object's end.
Coming(p) == {n \in DOMAIN log[p] : 3 * n - 1 > Behind(p)}
Transit(p, kind, id) == {n \in Coming(p) : log[p][n] = Message(kind, id)}
Number(p, kind, id) == Cardinality(Transit(p, kind, id))

One(b) == IF b THEN 1 ELSE 0
Places(p, id) ==
  Number(p, "request", id) + Number(Other(p), "answer", id) + One(id \in todo[Other(p)])

Waits(p, id) == One(id \in pending[p] \ lost[p])

\* Ids that are on their way, or with the application, are of requests of this connection.
KnownIds(p) ==
  /\ lost[p] \subseteq pending[p] /\ todo[Other(p)] \subseteq 1..counter[p]
  /\ \A n \in Coming(p) :
       /\ log[p][n].kind = "request" => log[p][n].id \in 1..counter[p]
       /\ log[p][n].kind = "answer" => log[p][n].id \in 1..counter[Other(p)]

\* A request that waits is in one place, or has been dropped where a write may fail.
Balanced(p, id) == Places(p, id) <= Waits(p, id) /\ (~Blocks => Places(p, id) = Waits(p, id))

MatchInv ==
  /\ lost[2] = {}
  /\ \A p \in Peers : KnownIds(p) /\ \A id \in 1..counter[p] : Balanced(p, id)

\* Junk the other peer has looked at.
Seen(p) == {n \in DOMAIN log[p] : log[p][n].kind = "junk" /\ 3 * n - 2 <= Behind(p)}

\* Errors are sent for junk that has been seen, and once.
ErrorInv ==
  \A p \in Peers : Count(p, "error") <= IF p \in Reports THEN Cardinality(Seen(Other(p))) ELSE 0

-----------------------------------------------------------------------------
(* Sequences of tokens *)

LEMMA PeerFacts ==
  \A p \in Peers : Other(p) \in Peers /\ Other(p) # p /\ Other(Other(p)) = p
                   /\ \A r \in Peers : r = p \/ r = Other(p)
BY DEF Peers, Other

LEMMA UptoProperties ==
  ASSUME NEW a \in Tokens, NEW b \in Nat, a <= b + 1
  PROVE  /\ Upto(a, b) \in Seq(Tokens) /\ Len(Upto(a, b)) = b - a + 1
         /\ DOMAIN Upto(a, b) = 1..(b - a + 1)
         /\ \A i \in 1..(b - a + 1) : Upto(a, b)[i] = a + i - 1
<1> DEFINE n == b - a + 1
           e(i) == a + i - 1
<1>1. n \in Nat /\ \A i \in 1..n : e(i) \in Tokens
  BY DEF Tokens
<1>2. [i \in 1..n |-> e(i)] \in Seq(Tokens)
  <2> HIDE DEF n, e
  <2> QED BY <1>1, IsASeq
<1> QED BY <1>1, <1>2 DEF Upto, Tokens

LEMMA UptoConcat ==
  ASSUME NEW a \in Tokens, NEW b \in Nat, NEW c \in Nat, a <= b + 1, b <= c
  PROVE  Upto(a, b) \o Upto(b + 1, c) = Upto(a, c)
<1> DEFINE u == Upto(a, b)
           v == Upto(b + 1, c)
           w == Upto(a, c)
<1>1. /\ u \in Seq(Tokens) /\ Len(u) = b - a + 1
      /\ \A i \in 1..(b - a + 1) : u[i] = a + i - 1
  BY UptoProperties
<1>2. /\ v \in Seq(Tokens) /\ Len(v) = c - b
      /\ \A i \in 1..(c - b) : v[i] = b + i
  <2>1. b + 1 \in Tokens /\ b + 1 <= c + 1 /\ c - (b + 1) + 1 = c - b
    BY DEF Tokens
  <2>2. /\ v \in Seq(Tokens) /\ Len(v) = c - (b + 1) + 1
        /\ \A i \in 1..(c - (b + 1) + 1) : v[i] = (b + 1) + i - 1
    BY <2>1, UptoProperties
  <2> HIDE DEF v
  <2> QED BY <2>1, <2>2
<1>3. /\ w \in Seq(Tokens) /\ Len(w) = c - a + 1
      /\ \A i \in 1..(c - a + 1) : w[i] = a + i - 1
  <2>1. a <= c + 1
    BY DEF Tokens
  <2> QED BY <2>1, UptoProperties
<1> HIDE DEF u, v, w
<1>4. /\ u \o v \in Seq(Tokens) /\ Len(u \o v) = Len(u) + Len(v)
      /\ \A i \in 1..Len(u) + Len(v) : (u \o v)[i] = IF i <= Len(u) THEN u[i] ELSE v[i - Len(u)]
  BY <1>1, <1>2, ConcatProperties
<1>5. Len(u) + Len(v) = c - a + 1
  BY <1>1, <1>2 DEF Tokens
<1>6. ASSUME NEW i \in 1..(c - a + 1) PROVE (u \o v)[i] = w[i]
  <2>1. CASE i <= b - a + 1
    BY <2>1, <1>1, <1>3, <1>4, <1>5 DEF Tokens
  <2>2. CASE i > b - a + 1
    <3>1. i - (b - a + 1) \in 1..(c - b) /\ b + (i - (b - a + 1)) = a + i - 1
      BY <2>2 DEF Tokens
    <3>2. (u \o v)[i] = v[i - (b - a + 1)]
      BY <2>2, <1>1, <1>4, <1>5 DEF Tokens
    <3>3. v[i - (b - a + 1)] = b + (i - (b - a + 1))
      BY <3>1, <1>2
    <3>4. w[i] = a + i - 1
      BY <1>3
    <3> QED BY <3>1, <3>2, <3>3, <3>4, Zenon
  <2>3. i <= b - a + 1 \/ i > b - a + 1
    BY DEF Tokens
  <2> QED BY <2>1, <2>2, <2>3, Zenon
<1>7. u \o v = w
  BY <1>3, <1>4, <1>5, <1>6, SeqEqual
<1> QED BY <1>7 DEF u, v, w

\* The first token of a run is looked at.
LEMMA UptoTail ==
  ASSUME NEW a \in Tokens, NEW b \in Nat, a <= b
  PROVE  Upto(a, b) # <<>> /\ Head(Upto(a, b)) = a /\ Tail(Upto(a, b)) = Upto(a + 1, b)
<1> DEFINE u == Upto(a, b)
           v == Upto(a + 1, b)
<1>1. /\ u \in Seq(Tokens) /\ Len(u) = b - a + 1
      /\ \A i \in 1..(b - a + 1) : u[i] = a + i - 1
  <2>1. a <= b + 1
    BY DEF Tokens
  <2> QED BY <2>1, UptoProperties
<1>2. /\ v \in Seq(Tokens) /\ Len(v) = b - a
      /\ \A i \in 1..(b - a) : v[i] = a + i
  <2>1. a + 1 \in Tokens /\ a + 1 <= b + 1 /\ b - (a + 1) + 1 = b - a
    BY DEF Tokens
  <2>2. /\ v \in Seq(Tokens) /\ Len(v) = b - (a + 1) + 1
        /\ \A i \in 1..(b - (a + 1) + 1) : v[i] = (a + 1) + i - 1
    BY <2>1, UptoProperties
  <2> HIDE DEF v
  <2> QED BY <2>1, <2>2 DEF Tokens
<1> HIDE DEF u, v
<1>3. u # <<>> /\ Head(u) = u[1]
  BY <1>1 DEF Tokens
<1>4. /\ Tail(u) \in Seq(Tokens) /\ Len(Tail(u)) = b - a
      /\ \A i \in 1..(b - a) : Tail(u)[i] = u[i + 1]
  BY <1>1, <1>3, HeadTailProperties DEF Tokens
<1>5. \A i \in 1..(b - a) : Tail(u)[i] = v[i]
  BY <1>1, <1>2, <1>4 DEF Tokens
<1>6. Tail(u) = v
  BY <1>2, <1>4, <1>5, SeqEqual
<1>7. u[1] = a
  BY <1>1 DEF Tokens
<1> QED BY <1>3, <1>6, <1>7 DEF u, v

\* A sequence is its beginning and its rest.
LEMMA Cut ==
  ASSUME NEW S, NEW t \in Seq(S), NEW n \in 0..Len(t)
  PROVE  /\ SubSeq(t, 1, n) \in Seq(S) /\ SubSeq(t, n + 1, Len(t)) \in Seq(S)
         /\ Len(SubSeq(t, n + 1, Len(t))) = Len(t) - n
         /\ \A i \in 1..(Len(t) - n) : SubSeq(t, n + 1, Len(t))[i] = t[n + i]
         /\ SubSeq(t, 1, n) \o SubSeq(t, n + 1, Len(t)) = t
<1>1. Len(t) \in Nat /\ \A i \in 1..Len(t) : t[i] \in S
  BY LenProperties, ElementOfSeq
<1>2. SubSeq(t, 1, n) \in Seq(S)
  BY <1>1, SubSeqProperties
<1>3. /\ SubSeq(t, n + 1, Len(t)) \in Seq(S)
      /\ Len(SubSeq(t, n + 1, Len(t))) = Len(t) - n
      /\ \A i \in 1..(Len(t) - n) : SubSeq(t, n + 1, Len(t))[i] = t[n + i]
  BY <1>1, SubSeqProperties
<1>4. SubSeq(t, 1, n) \o SubSeq(t, n + 1, Len(t)) = SubSeq(t, 1, Len(t))
  <2>1. 1 \in 1..Len(t) + 1 /\ n \in 1 - 1..Len(t) /\ Len(t) \in n..Len(t)
    BY <1>1
  <2> QED BY <2>1, ConcatAdjacentSubSeq
<1>5. SubSeq(t, 1, Len(t)) = t
  BY SubSeqFull
<1> QED BY <1>2, <1>3, <1>4, <1>5

\* The provers know too much about \o to use its associativity: Cat is only a name for it.
Cat(s, t) == s \o t

LEMMA CatTokens ==
  /\ \A x, y \in Seq(Tokens) : Cat(x, y) \in Seq(Tokens)
  /\ \A x, y, z \in Seq(Tokens) : Cat(Cat(x, y), z) = Cat(x, Cat(y, z))
<1>1. ASSUME NEW x \in Seq(Tokens), NEW y \in Seq(Tokens) PROVE x \o y \in Seq(Tokens)
  BY ConcatProperties
<1>2. ASSUME NEW x \in Seq(Tokens), NEW y \in Seq(Tokens), NEW z \in Seq(Tokens)
      PROVE  (x \o y) \o z = x \o (y \o z)
  BY ONLY ConcatAssociative, x \in Seq(Tokens), y \in Seq(Tokens), z \in Seq(Tokens)
<1> QED BY <1>1, <1>2, Zenon DEF Cat

-----------------------------------------------------------------------------
(* What the steps do to the streams *)

\* The tokens of the next message of a peer.
NextTokens(p) == Upto(3 * Len(log[p]) + 1, 3 * Len(log[p]) + 3)

Keeps(p) == log'[p] = log[p] /\ Stream(p)' = Stream(p)
Says(p, m) == log'[p] = Append(log[p], m) /\ Stream(p)' = Stream(p) \o NextTokens(p)
Sends(p, m) == Says(p, m) \/ (Blocks /\ Keeps(p))
LooksAt(p) == Stream(p) # <<>> /\ log'[p] = log[p] /\ Stream(p)' = Tail(Stream(p))
Loses(p) == log'[p] = log[p] /\ Stream(p)' = <<>>

LEMMA NextTokensProperties ==
  ASSUME VariablesTyped, NEW p \in Peers
  PROVE  /\ Len(log[p]) \in Nat /\ NextTokens(p) \in Seq(Tokens) /\ Len(NextTokens(p)) = 3
         /\ DOMAIN NextTokens(p) = 1..3
         /\ \A i \in 1..3 : NextTokens(p)[i] = 3 * Len(log[p]) + i
<1>1. Len(log[p]) \in Nat
  BY LenProperties DEF VariablesTyped
<1> DEFINE l == 3 * Len(log[p])
<1>2. /\ l + 1 \in Tokens /\ l + 3 \in Nat /\ l + 1 <= (l + 3) + 1 /\ (l + 3) - (l + 1) + 1 = 3
  BY <1>1 DEF Tokens
<1>3. \A i \in 1..3 : (l + 1) + i - 1 = l + i
  BY <1>1
<1> HIDE DEF l
<1>4. /\ Upto(l + 1, l + 3) \in Seq(Tokens) /\ Len(Upto(l + 1, l + 3)) = 3
      /\ DOMAIN Upto(l + 1, l + 3) = 1..3
      /\ \A i \in 1..3 : Upto(l + 1, l + 3)[i] = l + i
  BY <1>2, <1>3, UptoProperties
<1> QED BY <1>1, <1>4 DEF NextTokens, l

LEMMA ThreeParts ==
  ASSUME NEW c \in Seq(Tokens), NEW w \in Seq(Tokens), NEW b \in Seq(Tokens)
  PROVE  /\ c \o w \o b \in Seq(Tokens) /\ Len(c \o w \o b) \in Nat
         /\ DOMAIN (c \o w \o b) = 1..Len(c \o w \o b)
         /\ Len(c \o w \o b) = Len(c) + Len(w) + Len(b)
<1>1. c \o w \in Seq(Tokens) /\ Len(c \o w) = Len(c) + Len(w)
  BY ConcatProperties
<1> DEFINE x == c \o w
<1> HIDE DEF x
<1>2. x \o b \in Seq(Tokens) /\ Len(x \o b) = Len(x) + Len(b)
  BY <1>1, ConcatProperties DEF x
<1>3. Len(x \o b) \in Nat /\ DOMAIN (x \o b) = 1..Len(x \o b)
  BY <1>2, LenProperties
<1> QED BY <1>1, <1>2, <1>3 DEF x

LEMMA StreamTyped ==
  ASSUME VariablesTyped, NEW p \in Peers
  PROVE  /\ Stream(p) \in Seq(Tokens) /\ Len(Stream(p)) \in Nat
         /\ DOMAIN Stream(p) = 1..Len(Stream(p))
         /\ Len(Stream(p)) = Len(chunk[Other(p)]) + Len(wire[p]) + Len(buffer[p])
<1>1. chunk[Other(p)] \in Seq(Tokens) /\ wire[p] \in Seq(Tokens) /\ buffer[p] \in Seq(Tokens)
  BY PeerFacts DEF VariablesTyped
<1> QED BY <1>1, ThreeParts, Zenon DEF Stream

LEMMA NextStreamTyped ==
  ASSUME VariablesTyped', NEW p \in Peers
  PROVE  /\ Stream(p)' \in Seq(Tokens) /\ Len(Stream(p)') \in Nat
         /\ DOMAIN Stream(p)' = 1..Len(Stream(p)')
<1> DEFINE c == chunk'[Other(p)]
           w == wire'[p]
           b == buffer'[p]
           x == c \o w \o b
<1>1. c \in Seq(Tokens) /\ w \in Seq(Tokens) /\ b \in Seq(Tokens)
  BY PeerFacts DEF VariablesTyped
<1>2. Stream(p)' = x
  BY DEF Stream
<1> HIDE DEF c, w, b
<1>3. x \in Seq(Tokens) /\ Len(x) \in Nat /\ DOMAIN x = 1..Len(x)
  BY <1>1, ThreeParts
<1> HIDE DEF x
<1> QED BY <1>2, <1>3

LEMMA AcceptsEffect ==
  ASSUME VariablesTyped, NEW p \in Peers, NEW t \in Seq(Tokens), Accepts(p, t)
  PROVE  /\ wire' \in [Peers -> Seq(Tokens)] /\ buffer' \in [Peers -> Seq(Tokens)]
         /\ \A r \in Peers \ {p} : wire'[r] = wire[r] /\ buffer'[r] = buffer[r]
         /\ wire'[p] \o buffer'[p] = wire[p] \o t
         /\ ~open[p] => wire'[p] = wire[p]
         /\ \A i \in DOMAIN buffer'[p] : \E j \in DOMAIN t : buffer'[p][i] = t[j]
<1> USE DEF VariablesTyped
<1>1. PICK n \in IF open[p] THEN 1..Len(t) ELSE {0} :
        /\ wire' = [wire EXCEPT ![p] = @ \o SubSeq(t, 1, n)]
        /\ buffer' = [buffer EXCEPT ![p] = SubSeq(t, n + 1, Len(t))]
  BY DEF Accepts
<1>2. Len(t) \in Nat /\ n \in 0..Len(t) /\ DOMAIN t = 1..Len(t)
  BY <1>1, LenProperties
<1> DEFINE a == SubSeq(t, 1, n)
           b == SubSeq(t, n + 1, Len(t))
<1>3. /\ a \in Seq(Tokens) /\ b \in Seq(Tokens) /\ a \o b = t
      /\ Len(b) = Len(t) - n
      /\ \A i \in 1..(Len(t) - n) : b[i] = t[n + i]
  BY <1>2, Cut
<1>4. ~open[p] => a = <<>>
  <2>1. ~open[p] => n = 0
    BY <1>1
  <2>2. SubSeq(t, 1, 0) = <<>>
    BY SubSeqEmpty
  <2> QED BY <2>1, <2>2
<1>5. wire' = [wire EXCEPT ![p] = @ \o a] /\ buffer' = [buffer EXCEPT ![p] = b]
  BY <1>1
<1> HIDE DEF a, b
<1>6. wire[p] \o a \in Seq(Tokens)
  BY <1>3, ConcatProperties
<1>7. /\ wire'[p] = wire[p] \o a /\ buffer'[p] = b
      /\ wire' \in [Peers -> Seq(Tokens)] /\ buffer' \in [Peers -> Seq(Tokens)]
      /\ \A r \in Peers \ {p} : wire'[r] = wire[r] /\ buffer'[r] = buffer[r]
  BY <1>3, <1>5, <1>6, Zenon
<1>8. wire'[p] \o buffer'[p] = wire[p] \o t
  <2>1. Cat(Cat(wire[p], a), b) = Cat(wire[p], Cat(a, b))
    BY <1>3, CatTokens
  <2>2. Cat(a, b) = t
    BY <1>3 DEF Cat
  <2> QED BY <1>7, <2>1, <2>2, Zenon DEF Cat
<1>9. ~open[p] => wire'[p] = wire[p]
  BY <1>4, <1>7, ConcatEmptySeq
<1>10. ASSUME NEW i \in DOMAIN buffer'[p] PROVE \E j \in DOMAIN t : buffer'[p][i] = t[j]
  <2>1. DOMAIN b = 1..(Len(t) - n)
    BY <1>3, LenProperties
  <2>2. i \in 1..(Len(t) - n) /\ n + i \in 1..Len(t)
    BY <1>2, <1>7, <2>1
  <2> QED BY <1>2, <1>3, <1>7, <2>2
<1> QED BY <1>7, <1>8, <1>9, <1>10

\* A message goes to the end of what waits, or is dropped.
LEMMA SendEffect ==
  ASSUME VariablesTyped, NEW p \in Peers, NEW m \in Messages, Send(p, m)
  PROVE  /\ wire' \in [Peers -> Seq(Tokens)] /\ buffer' \in [Peers -> Seq(Tokens)]
         /\ log' \in [Peers -> Seq(Messages)]
         /\ \A r \in Peers \ {p} : wire'[r] = wire[r] /\ buffer'[r] = buffer[r] /\ log'[r] = log[r]
         /\ \/ Blocks /\ UNCHANGED sending
            \/ /\ log'[p] = Append(log[p], m)
               /\ wire'[p] \o buffer'[p] = (wire[p] \o buffer[p]) \o NextTokens(p)
         /\ ~open[p] => wire'[p] = wire[p]
         /\ \A i \in DOMAIN buffer'[p] :
              \/ buffer'[p][i] > 3 * Len(log[p])
              \/ \E j \in DOMAIN buffer[p] : buffer'[p][i] = buffer[p][j]
<1> DEFINE t == NextTokens(p)
<1>1. /\ Len(log[p]) \in Nat /\ t \in Seq(Tokens) /\ Len(t) = 3 /\ DOMAIN t = 1..3
      /\ \A i \in 1..3 : t[i] = 3 * Len(log[p]) + i
  BY NextTokensProperties
<1>2. t = Upto(3 * (Len(log[p]) + 1) - 2, 3 * (Len(log[p]) + 1))
  <2>1. 3 * (Len(log[p]) + 1) - 2 = 3 * Len(log[p]) + 1 /\ 3 * (Len(log[p]) + 1) = 3 * Len(log[p]) + 3
    BY <1>1
  <2> QED BY <2>1 DEF NextTokens
<1> HIDE DEF t
<1>3. CASE UNCHANGED sending /\ Blocks
  BY <1>3 DEF VariablesTyped, sending
<1>4. CASE /\ log' = [log EXCEPT ![p] = Append(@, m)]
           /\ IF buffer[p] # <<>>
              THEN buffer' = [buffer EXCEPT ![p] = @ \o t] /\ UNCHANGED wire
              ELSE Accepts(p, t)
  <2>1. Append(log[p], m) \in Seq(Messages)
    BY AppendProperties DEF VariablesTyped
  <2>2. /\ log' \in [Peers -> Seq(Messages)] /\ log'[p] = Append(log[p], m)
        /\ \A r \in Peers \ {p} : log'[r] = log[r]
    BY <1>4, <2>1, Zenon DEF VariablesTyped
  <2>3. CASE buffer[p] # <<>>
    <3>1. buffer' = [buffer EXCEPT ![p] = @ \o t] /\ wire' = wire
      BY <1>4, <2>3
    <3> DEFINE b == buffer[p]
    <3>0. wire[p] \in Seq(Tokens) /\ b \in Seq(Tokens) /\ t \in Seq(Tokens)
      BY <1>1 DEF VariablesTyped
    <3> HIDE DEF b
    <3>2. /\ b \o t \in Seq(Tokens) /\ Len(b \o t) = Len(b) + Len(t)
          /\ Len(b) \in Nat /\ DOMAIN b = 1..Len(b)
          /\ \A i \in 1..Len(b) + Len(t) : (b \o t)[i] = IF i <= Len(b) THEN b[i] ELSE t[i - Len(b)]
      BY <1>1, <3>0, ConcatProperties, LenProperties
    <3>3. /\ buffer'[p] = b \o t /\ buffer' \in [Peers -> Seq(Tokens)]
          /\ \A r \in Peers \ {p} : buffer'[r] = buffer[r]
      BY <3>1, <3>2, Zenon DEF VariablesTyped, b
    <3>4. wire[p] \o (b \o t) = (wire[p] \o b) \o t
      <4>1. Cat(Cat(wire[p], b), t) = Cat(wire[p], Cat(b, t))
        BY <3>0, CatTokens, Zenon
      <4> QED BY <4>1, Zenon DEF Cat
    <3>5. ASSUME NEW i \in DOMAIN (b \o t)
          PROVE  (b \o t)[i] > 3 * Len(log[p]) \/ \E j \in DOMAIN b : (b \o t)[i] = b[j]
      <4>1. DOMAIN (b \o t) = 1..Len(b) + 3
        BY <3>2, <1>1, LenProperties
      <4>2. CASE i <= Len(b)
        BY <4>1, <4>2, <3>2, <1>1
      <4>3. CASE i > Len(b)
        <5>1. i - Len(b) \in 1..3 /\ (b \o t)[i] = t[i - Len(b)]
          BY <4>1, <4>3, <3>2, <1>1
        <5>2. t[i - Len(b)] = 3 * Len(log[p]) + (i - Len(b))
          BY <5>1, <1>1
        <5> QED BY <5>1, <5>2, <1>1
      <4>4. i <= Len(b) \/ i > Len(b)
        BY <4>1, <3>2
      <4> QED BY <4>2, <4>3, <4>4
    <3>6. wire \in [Peers -> Seq(Tokens)]
      BY DEF VariablesTyped
    <3>7. wire'[p] \o buffer'[p] = (wire[p] \o b) \o t
      BY <3>1, <3>3, <3>4, Zenon
    <3>8. \A i \in DOMAIN buffer'[p] :
            \/ buffer'[p][i] > 3 * Len(log[p])
            \/ \E j \in DOMAIN buffer[p] : buffer'[p][i] = buffer[p][j]
      BY <3>3, <3>5, Zenon DEF b
    <3>9. wire' \in [Peers -> Seq(Tokens)] /\ \A r \in Peers \ {p} : wire'[r] = wire[r]
      BY <3>1, <3>6, Zenon
    <3>10. /\ log'[p] = Append(log[p], m)
           /\ wire'[p] \o buffer'[p] = (wire[p] \o buffer[p]) \o NextTokens(p)
      BY <2>2, <3>7, Zenon DEF b, t
    <3>11. ~open[p] => wire'[p] = wire[p]
      BY <3>1, Zenon
    <3> QED BY <2>2, <3>3, <3>8, <3>9, <3>10, <3>11, Zenon
  <2>4. CASE buffer[p] = <<>>
    <3>1. Accepts(p, t)
      BY <1>4, <2>4
    <3>2. /\ wire' \in [Peers -> Seq(Tokens)] /\ buffer' \in [Peers -> Seq(Tokens)]
          /\ \A r \in Peers \ {p} : wire'[r] = wire[r] /\ buffer'[r] = buffer[r]
          /\ wire'[p] \o buffer'[p] = wire[p] \o t
          /\ ~open[p] => wire'[p] = wire[p]
          /\ \A i \in DOMAIN buffer'[p] : \E j \in DOMAIN t : buffer'[p][i] = t[j]
      BY <3>1, <1>1, AcceptsEffect
    <3>3. wire[p] \o buffer[p] = wire[p]
      BY <2>4, ConcatEmptySeq DEF VariablesTyped
    <3>4. \A j \in DOMAIN t : t[j] > 3 * Len(log[p])
      BY <1>1
    <3>5. wire'[p] \o buffer'[p] = (wire[p] \o buffer[p]) \o t
      BY <3>2, <3>3, Zenon
    <3> QED BY <2>2, <3>2, <3>4, <3>5, Zenon DEF t
  <2> QED BY <2>3, <2>4
<1> QED BY <1>2, <1>3, <1>4 DEF Send

\* What makes up a stream stays, or is cut in other pieces.
LEMMA StreamSame ==
  ASSUME NEW p \in Peers, log'[p] = log[p], chunk'[Other(p)] = chunk[Other(p)],
         wire'[p] = wire[p], buffer'[p] = buffer[p]
  PROVE  Keeps(p)
BY DEF Keeps, Stream

LEMMA StreamRecut ==
  ASSUME VariablesTyped, NEW p \in Peers, log'[p] = log[p], chunk'[Other(p)] = chunk[Other(p)],
         wire'[p] \in Seq(Tokens), buffer'[p] \in Seq(Tokens),
         wire'[p] \o buffer'[p] = wire[p] \o buffer[p]
  PROVE  Keeps(p)
<1> DEFINE c == chunk[Other(p)]
<1>1. /\ c \in Seq(Tokens) /\ wire[p] \in Seq(Tokens) /\ buffer[p] \in Seq(Tokens)
      /\ wire'[p] \in Seq(Tokens) /\ buffer'[p] \in Seq(Tokens)
  BY PeerFacts DEF VariablesTyped
<1>2. chunk'[Other(p)] = c
  OBVIOUS
<1> HIDE DEF c
<1>4. /\ Cat(Cat(c, wire[p]), buffer[p]) = Cat(c, Cat(wire[p], buffer[p]))
      /\ Cat(Cat(c, wire'[p]), buffer'[p]) = Cat(c, Cat(wire'[p], buffer'[p]))
  BY <1>1, CatTokens, Zenon
<1>5. (c \o wire'[p]) \o buffer'[p] = (c \o wire[p]) \o buffer[p]
  BY <1>4, Zenon DEF Cat
<1> QED BY <1>2, <1>5, Zenon DEF Keeps, Stream, c

\* The first token of what has been read is the first of the stream.
LEMMA StreamHead ==
  ASSUME VariablesTyped, NEW p \in Peers, chunk[Other(p)] # <<>>
  PROVE  /\ Stream(p) # <<>> /\ Head(Stream(p)) = Head(chunk[Other(p)])
         /\ Tail(Stream(p)) = Tail(chunk[Other(p)]) \o wire[p] \o buffer[p]
<1> DEFINE c == chunk[Other(p)]
           w == wire[p]
           b == buffer[p]
           h == <<Head(c)>>
           t == Tail(c)
<1>1. /\ c \in Seq(Tokens) /\ w \in Seq(Tokens) /\ b \in Seq(Tokens)
  BY PeerFacts DEF VariablesTyped
<1>2. c # <<>>
  OBVIOUS
<1> HIDE DEF c, w, b
<1>3. Head(c) \in Tokens /\ t \in Seq(Tokens) /\ h \in Seq(Tokens)
  BY <1>1, <1>2, HeadTailProperties
<1>4. h \o t = c
  <2>1. Len(c) \in Nat \ {0} /\ DOMAIN c = 1..Len(c) /\ Head(c) = c[1]
    BY <1>1, <1>2, LenProperties, EmptySeq
  <2>2. /\ Len(t) = Len(c) - 1 /\ \A i \in 1..Len(t) : t[i] = c[i + 1]
    BY <1>1, <1>2, HeadTailProperties
  <2> HIDE DEF t
  <2>3. Len(h) = 1 /\ h[1] = c[1]
    BY <2>1
  <2> HIDE DEF h
  <2> DEFINE x == h \o t
  <2>4. /\ x \in Seq(Tokens) /\ Len(x) = Len(h) + Len(t)
        /\ \A i \in 1..Len(h) + Len(t) : x[i] = IF i <= Len(h) THEN h[i] ELSE t[i - Len(h)]
    BY <1>3, ConcatProperties
  <2> HIDE DEF x
  <2>5. Len(x) = Len(c)
    BY <2>1, <2>2, <2>3, <2>4
  <2>6. ASSUME NEW i \in 1..Len(c) PROVE x[i] = c[i]
    <3>1. CASE i = 1
      <4>1. 1 \in 1..Len(h) + Len(t) /\ 1 <= Len(h)
        BY <2>1, <2>2, <2>3
      <4>2. x[1] = h[1]
        BY <4>1, <2>4, Zenon
      <4> QED BY <3>1, <4>2, <2>3
    <3>2. CASE i > 1
      <4>1. i - 1 \in 1..Len(t) /\ (i - 1) + 1 = i
        BY <3>2, <2>1, <2>2
      <4>2. x[i] = t[i - 1]
        BY <3>2, <2>3, <2>4, <2>5
      <4> QED BY <4>1, <4>2, <2>2
    <3> QED BY <3>1, <3>2, <2>1
  <2>7. x = c
    BY <1>1, <2>4, <2>5, <2>6, SeqEqual
  <2> QED BY <2>7 DEF x
<1> HIDE DEF h, t
<1> DEFINE rest == (t \o w) \o b
<1>5. rest \in Seq(Tokens) /\ (c \o w) \o b = h \o rest
  <2>2. Cat(t, w) \in Seq(Tokens)
    BY <1>1, <1>3, CatTokens
  <2>3. Cat(Cat(t, w), b) \in Seq(Tokens)
    BY <1>1, CatTokens, <2>2, Zenon
  <2>4. Cat(Cat(h, t), w) = Cat(h, Cat(t, w))
    BY <1>1, <1>3, CatTokens
  <2>5. Cat(Cat(h, Cat(t, w)), b) = Cat(h, Cat(Cat(t, w), b))
    <3> DEFINE v == Cat(t, w)
    <3>1. v \in Seq(Tokens)
      BY <2>2
    <3> HIDE DEF v
    <3>2. Cat(Cat(h, v), b) = Cat(h, Cat(v, b))
      BY <1>1, <1>3, <3>1, CatTokens
    <3> QED BY <3>2 DEF v
  <2>6. Cat(Cat(Cat(h, t), w), b) = Cat(h, Cat(Cat(t, w), b))
    BY <2>4, <2>5, Zenon
  <2>7. Cat(h, t) = c
    BY <1>4, Zenon DEF Cat
  <2>8. (c \o w) \o b = Cat(Cat(Cat(h, t), w), b)
    <3>1. (c \o w) \o b = Cat(Cat(c, w), b)
      BY Zenon DEF Cat
    <3> QED BY <3>1, <2>7, Zenon
  <2>9. h \o rest = Cat(h, Cat(Cat(t, w), b)) /\ rest = Cat(Cat(t, w), b)
    BY Zenon DEF Cat
  <2> QED BY <2>3, <2>6, <2>8, <2>9, Zenon
<1>6. Stream(p) = h \o rest /\ rest = (t \o w) \o b
  BY <1>5, Zenon DEF Stream, c, w, b
<1> HIDE DEF rest
<1>7. h \o rest # <<>> /\ Head(h \o rest) = Head(c) /\ Tail(h \o rest) = rest
  <2>1. Len(h) = 1 /\ h[1] = Head(c)
    BY <1>3 DEF h
  <2>2. /\ h \o rest \in Seq(Tokens) /\ Len(h \o rest) = Len(h) + Len(rest)
        /\ \A i \in 1..Len(h) + Len(rest) : (h \o rest)[i] = IF i <= Len(h) THEN h[i] ELSE rest[i - Len(h)]
        /\ Len(rest) \in Nat
    BY <1>3, <1>5, ConcatProperties, LenProperties
  <2> DEFINE s == h \o rest
  <2> HIDE DEF s
  <2>3. s \in Seq(Tokens) /\ Len(s) = Len(rest) + 1 /\ s[1] = Head(c)
        /\ \A i \in 1..Len(rest) : s[i + 1] = rest[i]
    <3>1. Len(s) = Len(rest) + 1 /\ s \in Seq(Tokens) /\ s[1] = Head(c)
      BY <2>1, <2>2 DEF s
    <3>2. ASSUME NEW i \in 1..Len(rest) PROVE s[i + 1] = rest[i]
      <4>1. i + 1 \in 1..Len(h) + Len(rest) /\ ~(i + 1 <= Len(h)) /\ (i + 1) - Len(h) = i
        BY <2>1, <2>2
      <4>2. s[i + 1] = rest[(i + 1) - Len(h)]
        BY <4>1, <2>2, Zenon DEF s
      <4> QED BY <4>1, <4>2
    <3> QED BY <3>1, <3>2
  <2>4. s # <<>> /\ Head(s) = s[1]
    BY <2>2, <2>3, EmptySeq
  <2>5. /\ Tail(s) \in Seq(Tokens) /\ Len(Tail(s)) = Len(rest)
        /\ \A i \in 1..Len(rest) : Tail(s)[i] = s[i + 1]
    <3>1. /\ Tail(s) \in Seq(Tokens) /\ Len(Tail(s)) = Len(s) - 1
          /\ \A i \in 1..Len(Tail(s)) : Tail(s)[i] = s[i + 1]
      BY <2>3, <2>4, HeadTailProperties
    <3>2. Len(s) - 1 = Len(rest)
      BY <2>2, <2>3
    <3> QED BY <3>1, <3>2
  <2>6. \A i \in 1..Len(rest) : Tail(s)[i] = rest[i]
    BY <2>3, <2>5
  <2>7. Tail(s) = rest
    BY <1>5, <2>5, <2>6, SeqEqual
  <2> QED BY <2>3, <2>4, <2>7 DEF s
<1> QED BY <1>6, <1>7, Zenon DEF c, w, b, t

LEMMA StreamLookedAt ==
  ASSUME VariablesTyped, NEW p \in Peers, log'[p] = log[p], chunk[Other(p)] # <<>>,
         chunk'[Other(p)] = Tail(chunk[Other(p)]), wire'[p] = wire[p], buffer'[p] = buffer[p]
  PROVE  LooksAt(p)
BY StreamHead, Zenon DEF LooksAt, Stream

\* A message is sent, or dropped.
LEMMA StreamSent ==
  ASSUME VariablesTyped, NEW p \in Peers, NEW m \in Messages, Send(p, m),
         chunk'[Other(p)] = chunk[Other(p)]
  PROVE  Sends(p, m)
<1> DEFINE c == chunk[Other(p)]
           t == NextTokens(p)
<1>1. /\ c \in Seq(Tokens) /\ wire[p] \in Seq(Tokens) /\ buffer[p] \in Seq(Tokens)
  BY PeerFacts DEF VariablesTyped
<1>2. chunk'[Other(p)] = c /\ t \in Seq(Tokens)
  BY NextTokensProperties
<1> HIDE DEF c, t
<1>3. /\ wire' \in [Peers -> Seq(Tokens)] /\ buffer' \in [Peers -> Seq(Tokens)]
      /\ \/ Blocks /\ UNCHANGED sending
         \/ /\ log'[p] = Append(log[p], m)
            /\ wire'[p] \o buffer'[p] = (wire[p] \o buffer[p]) \o t
  BY SendEffect, Zenon DEF t
<1>4. CASE Blocks /\ UNCHANGED sending
  <2>1. Keeps(p)
    BY <1>4, StreamSame DEF sending
  <2> QED BY <1>4, <2>1 DEF Sends
<1>5. CASE /\ log'[p] = Append(log[p], m)
           /\ wire'[p] \o buffer'[p] = (wire[p] \o buffer[p]) \o t
  <2>1. wire'[p] \in Seq(Tokens) /\ buffer'[p] \in Seq(Tokens)
    BY <1>3
  <2> DEFINE v == wire'[p]
             d == buffer'[p]
             w == wire[p]
             b == buffer[p]
  <2>2. v \o d = (w \o b) \o t
    BY <1>5
  <2>3. v \in Seq(Tokens) /\ d \in Seq(Tokens) /\ w \in Seq(Tokens) /\ b \in Seq(Tokens)
    BY <1>1, <2>1
  <2> HIDE DEF v, d, w, b
  <2>4. c \in Seq(Tokens) /\ t \in Seq(Tokens) /\ Cat(v, d) = Cat(Cat(w, b), t)
    BY <1>1, <1>2, <2>2, Zenon DEF Cat
  <2>5. Cat(Cat(c, v), d) = Cat(Cat(Cat(c, w), b), t)
    BY <2>3, <2>4, CatTokens
  <2>6. (c \o v) \o d = ((c \o w) \o b) \o t
    BY <2>5, Zenon DEF Cat
  <2> QED BY <1>2, <1>5, <2>6, Zenon DEF Sends, Says, Stream, c, t, v, d, w, b
<1> QED BY <1>3, <1>4, <1>5

-----------------------------------------------------------------------------
(* What each action does *)

\* A message takes the place of its peer's stream only.
LEMMA SendLeavesOther ==
  ASSUME VariablesTyped, NEW p \in Peers, NEW m \in Messages, Send(p, m)
  PROVE  LET q == Other(p)
         IN log'[q] = log[q] /\ wire'[q] = wire[q] /\ buffer'[q] = buffer[q]
BY SendEffect, PeerFacts

LEMMA CanSendStep ==
  ASSUME VariablesTyped, NEW p \in Peers, CanSend(p)
  PROVE  VariablesTyped' /\ \A r \in Peers : Keeps(r)
<1> DEFINE b == buffer[p]
<1>1. b \in Seq(Tokens) /\ Accepts(p, b)
  BY DEF VariablesTyped, CanSend
<1>2. /\ wire' \in [Peers -> Seq(Tokens)] /\ buffer' \in [Peers -> Seq(Tokens)]
      /\ \A r \in Peers \ {p} : wire'[r] = wire[r] /\ buffer'[r] = buffer[r]
      /\ wire'[p] \o buffer'[p] = wire[p] \o b
  BY <1>1, AcceptsEffect
<1>3. log' = log /\ chunk' = chunk
  BY DEF CanSend
<1>4. Keeps(p)
  <2>1. wire'[p] \in Seq(Tokens) /\ buffer'[p] \in Seq(Tokens)
    BY <1>2
  <2> QED BY <1>2, <1>3, <2>1, StreamRecut
<1>5. Keeps(Other(p))
  BY <1>2, <1>3, PeerFacts, StreamSame
<1>6. Len(log[p]) \in Nat
  BY LenProperties DEF VariablesTyped
<1>7. /\ open' \in [Peers -> BOOLEAN] /\ closing' \in [Peers -> BOOLEAN]
      /\ promised' \in [Peers -> Nat \cup {NotClosed}]
  BY <1>6 DEF VariablesTyped, CanSend
<1>8. VariablesTyped'
  BY <1>2, <1>7 DEF VariablesTyped, CanSend, parsing, rpc
<1> QED BY <1>4, <1>5, <1>8, PeerFacts

LEMMA CloseAfterSendStep ==
  ASSUME VariablesTyped, NEW p \in Peers, CloseAfterSend(p)
  PROVE  VariablesTyped' /\ \A r \in Peers : Keeps(r)
<1>1. UNCHANGED sending /\ UNCHANGED chunk
  BY DEF CloseAfterSend
<1>2. \A r \in Peers : Keeps(r)
  BY <1>1, PeerFacts, StreamSame DEF sending
<1>3. Len(log[p]) \in Nat
  BY LenProperties DEF VariablesTyped
<1>4. /\ open' \in [Peers -> BOOLEAN] /\ closing' \in [Peers -> BOOLEAN]
      /\ promised' \in [Peers -> Nat \cup {NotClosed}]
  BY <1>3 DEF VariablesTyped, CloseAfterSend
<1>5. VariablesTyped'
  BY <1>4 DEF VariablesTyped, CloseAfterSend, parsing, rpc, sending
<1> QED BY <1>2, <1>5

LEMMA ReceiveStep ==
  ASSUME VariablesTyped, NEW p \in Peers, Receive(p)
  PROVE  /\ VariablesTyped' /\ \A r \in Peers : Keeps(r)
         /\ wire[Other(p)] = <<>> => wire'[Other(p)] = <<>>
<1> DEFINE q == Other(p)
           w == wire[q]
<1>1. q \in Peers /\ q # p /\ Other(q) = p /\ w \in Seq(Tokens) /\ Len(w) \in Nat
  BY PeerFacts, LenProperties DEF VariablesTyped
<1>2. PICK n \in 1..Len(w) : /\ chunk' = [chunk EXCEPT ![p] = SubSeq(w, 1, n)]
                             /\ wire' = [wire EXCEPT ![q] = SubSeq(w, n + 1, Len(w))]
  BY DEF Receive
<1> DEFINE a == SubSeq(w, 1, n)
           z == SubSeq(w, n + 1, Len(w))
<1>3. a \in Seq(Tokens) /\ z \in Seq(Tokens) /\ a \o z = w
  <2>1. n \in 0..Len(w)
    BY <1>1, <1>2
  <2> QED BY <1>1, <2>1, Cut
<1>4. chunk' = [chunk EXCEPT ![p] = a] /\ wire' = [wire EXCEPT ![q] = z]
  BY <1>2
<1>5. chunk[p] = <<>> /\ log' = log /\ buffer' = buffer
  BY DEF Receive
<1>6. w # <<>>
  BY <1>1, <1>2
<1> HIDE DEF a, z
<1>7. VariablesTyped'
  <2>1. chunk' \in [Peers -> Seq(Tokens)] /\ wire' \in [Peers -> Seq(Tokens)]
    BY <1>1, <1>3, <1>4 DEF VariablesTyped
  <2> QED BY <2>1 DEF VariablesTyped, Receive, parsing, rpc, history
<1>8. Keeps(p)
  BY <1>1, <1>4, <1>5, StreamSame, Zenon DEF VariablesTyped
<1>9. Keeps(q)
  <2>1. chunk'[p] = a /\ wire'[q] = z
    BY <1>1, <1>4 DEF VariablesTyped
  <2> DEFINE e == <<>>
             b == buffer[q]
  <2>2. e \o w = w
    BY <1>1, ConcatEmptySeq
  <2>3. Stream(q) = w \o b
    BY <1>1, <1>5, <2>2 DEF Stream
  <2>4. Stream(q)' = (a \o z) \o b
    BY <1>1, <1>5, <2>1 DEF Stream
  <2> QED BY <1>3, <1>5, <2>3, <2>4 DEF Keeps
<1> QED BY <1>1, <1>6, <1>7, <1>8, <1>9, PeerFacts

LEMMA HangUpStep ==
  ASSUME VariablesTyped, NEW p \in Peers, HangUp(p)
  PROVE  VariablesTyped' /\ \A r \in Peers : Keeps(r)
<1>1. UNCHANGED sending /\ UNCHANGED chunk
  BY DEF HangUp
<1>2. \A r \in Peers : Keeps(r)
  BY <1>1, PeerFacts, StreamSame DEF sending
<1>3. VariablesTyped'
  BY DEF VariablesTyped, HangUp, parsing, rpc, sending, history
<1> QED BY <1>2, <1>3

\* Sending, with nothing else done to the streams.
LEMMA SendStep ==
  ASSUME VariablesTyped, NEW p \in Peers, NEW m \in Messages, Send(p, m), UNCHANGED chunk
  PROVE  Sends(p, m) /\ Keeps(Other(p))
<1>1. chunk'[Other(p)] = chunk[Other(p)] /\ chunk'[Other(Other(p))] = chunk[Other(Other(p))]
  OBVIOUS
<1>2. Keeps(Other(p))
  BY <1>1, PeerFacts, SendLeavesOther, StreamSame
<1> QED BY <1>1, <1>2, StreamSent

LEMMA ZeroId == 0 \in Ids
BY JsonRpcConstants DEF Peers, Ids

\* The next id.
LEMMA NextId ==
  ASSUME VariablesTyped, NEW p \in Peers, counter[p] < MaxRequests[p]
  PROVE  counter[p] + 1 \in Ids \ {0}
<1>1. MaxRequests[1] \in Nat /\ MaxRequests[2] \in Nat /\ counter[p] \in Nat
  BY JsonRpcConstants DEF VariablesTyped, Peers
<1>2. p = 1 \/ p = 2
  BY DEF Peers
<1> QED BY <1>1, <1>2 DEF Ids

LEMMA SendRequestStep ==
  ASSUME VariablesTyped, NEW p \in Peers, SendRequest(p)
  PROVE  /\ VariablesTyped' /\ Keeps(Other(p))
         /\ Message("request", counter[p] + 1) \in Messages
         /\ Sends(p, Message("request", counter[p] + 1))
         /\ counter' = [counter EXCEPT ![p] = @ + 1]
         /\ pending' = [pending EXCEPT ![p] = @ \cup {counter[p] + 1}]
<1> DEFINE m == Message("request", counter[p] + 1)
<1>1. /\ counter' = [counter EXCEPT ![p] = @ + 1]
      /\ pending' = [pending EXCEPT ![p] = @ \cup {counter[p] + 1}]
      /\ Send(p, m) /\ UNCHANGED chunk
  BY DEF SendRequest, VariablesTyped
<1>2. counter[p] + 1 \in Ids \ {0} /\ counter[p] \in Nat
  BY NextId DEF SendRequest, VariablesTyped
<1>3. m \in Messages
  BY <1>2 DEF Message, Messages, Kinds
<1> HIDE DEF m
<1>4. Sends(p, m) /\ Keeps(Other(p))
  BY <1>1, <1>3, SendStep
<1>5. wire' \in [Peers -> Seq(Tokens)] /\ buffer' \in [Peers -> Seq(Tokens)] /\ log' \in [Peers -> Seq(Messages)]
  BY <1>1, <1>3, SendEffect
<1>6. counter' \in [Peers -> Nat] /\ pending' \in [Peers -> SUBSET Ids]
  BY <1>1, <1>2 DEF VariablesTyped
<1>7. VariablesTyped'
  BY <1>5, <1>6 DEF VariablesTyped, SendRequest, parsing, history
<1> QED BY <1>1, <1>3, <1>4, <1>7 DEF m

LEMMA SendNotificationStep ==
  ASSUME VariablesTyped, NEW p \in Peers, SendNotification(p)
  PROVE  /\ VariablesTyped' /\ Keeps(Other(p)) /\ Message("notify", 0) \in Messages
         /\ Sends(p, Message("notify", 0)) /\ counter' = [counter EXCEPT ![p] = @ + 1]
<1> DEFINE m == Message("notify", 0)
<1>1. /\ counter' = [counter EXCEPT ![p] = @ + 1] /\ Send(p, m) /\ UNCHANGED chunk
  BY DEF SendNotification
<1>2. counter[p] + 1 \in Ids \ {0} /\ counter[p] \in Nat
  BY NextId DEF SendNotification, VariablesTyped
<1>3. m \in Messages
  BY ZeroId DEF Message, Messages, Kinds
<1> HIDE DEF m
<1>4. Sends(p, m) /\ Keeps(Other(p))
  BY <1>1, <1>3, SendStep
<1>5. wire' \in [Peers -> Seq(Tokens)] /\ buffer' \in [Peers -> Seq(Tokens)] /\ log' \in [Peers -> Seq(Messages)]
  BY <1>1, <1>3, SendEffect
<1>6. counter' \in [Peers -> Nat]
  BY <1>1, <1>2 DEF VariablesTyped
<1>7. VariablesTyped'
  BY <1>5, <1>6 DEF VariablesTyped, SendNotification, parsing, history
<1> QED BY <1>1, <1>3, <1>4, <1>7 DEF m

\* Answer(p) with the id it answers.
LEMMA AnswerStep ==
  ASSUME VariablesTyped, NEW p \in Peers, Answer(p)
  PROVE  /\ VariablesTyped' /\ Keeps(Other(p))
         /\ \E id \in todo[p] :
              /\ todo' = [todo EXCEPT ![p] = @ \ {id}]
              /\ Message("answer", id) \in Messages /\ Send(p, Message("answer", id))
              /\ Sends(p, Message("answer", id))
<1>1. PICK id \in todo[p] :
        todo' = [todo EXCEPT ![p] = @ \ {id}] /\ Send(p, Message("answer", id))
  BY DEF Answer
<1> DEFINE m == Message("answer", id)
<1>2. id \in Ids
  BY <1>1 DEF VariablesTyped
<1>3. m \in Messages
  BY <1>2 DEF Message, Messages, Kinds
<1>4. Send(p, m) /\ UNCHANGED chunk
  BY <1>1 DEF Answer
<1> HIDE DEF m
<1>5. Sends(p, m) /\ Keeps(Other(p))
  BY <1>3, <1>4, SendStep
<1>6. wire' \in [Peers -> Seq(Tokens)] /\ buffer' \in [Peers -> Seq(Tokens)] /\ log' \in [Peers -> Seq(Messages)]
  BY <1>3, <1>4, SendEffect
<1>7. todo' \in [Peers -> SUBSET Ids]
  BY <1>1 DEF VariablesTyped
<1>8. VariablesTyped'
  BY <1>6, <1>7 DEF VariablesTyped, Answer, parsing, history
<1> QED BY <1>1, <1>3, <1>4, <1>5, <1>8 DEF m

LEMMA SendJunkStep ==
  ASSUME VariablesTyped, NEW p \in Peers, SendJunk(p)
  PROVE  /\ VariablesTyped' /\ Keeps(Other(p)) /\ Message("junk", 0) \in Messages
         /\ Sends(p, Message("junk", 0))
<1> DEFINE m == Message("junk", 0)
<1>1. Send(p, m) /\ UNCHANGED chunk
  BY DEF SendJunk
<1>3. m \in Messages
  BY ZeroId DEF Message, Messages, Kinds
<1> HIDE DEF m
<1>4. Sends(p, m) /\ Keeps(Other(p))
  BY <1>1, <1>3, SendStep
<1>5. wire' \in [Peers -> Seq(Tokens)] /\ buffer' \in [Peers -> Seq(Tokens)] /\ log' \in [Peers -> Seq(Messages)]
  BY <1>1, <1>3, SendEffect
<1>6. VariablesTyped'
  BY <1>5 DEF VariablesTyped, SendJunk, parsing, rpc, history
<1> QED BY <1>3, <1>4, <1>6 DEF m

\* The old end of peer 2 is gone with everything it had; peer 1 keeps its buffer.
LEMMA ReconnectStep ==
  ASSUME VariablesTyped, Reconnect
  PROVE  /\ VariablesTyped' /\ Loses(2) /\ log' = log /\ Stream(1)' = buffer[1]
         /\ ~CarriesOver => Loses(1)
<1>1. 1 \in Peers /\ 2 \in Peers /\ Other(1) = 2 /\ Other(2) = 1
  BY DEF Peers, Other
<1>2. chunk[1] = <<>> /\ chunk[2] = <<>> /\ chunk' = chunk /\ log' = log
  BY <1>1 DEF Reconnect
<1>3. /\ wire'[1] = <<>> /\ wire'[2] = <<>> /\ buffer'[1] = buffer[1] /\ buffer'[2] = <<>>
      /\ buffer' = [buffer EXCEPT ![2] = <<>>]
  BY <1>1 DEF Reconnect, VariablesTyped
<1>4. <<>> \in Seq(Tokens) /\ buffer[1] \in Seq(Tokens)
  BY <1>1, EmptySeq DEF VariablesTyped
<1>5. \A b \in Seq(Tokens) : <<>> \o b = b /\ <<>> \o <<>> \o b = b
  BY ConcatEmptySeq
<1>6. Stream(1)' = buffer[1] /\ Stream(2)' = <<>>
  BY <1>1, <1>2, <1>3, <1>4, <1>5 DEF Stream
<1>7. ~CarriesOver => buffer[1] = <<>>
  BY DEF Reconnect
<1>8. /\ wire' \in [Peers -> Seq(Tokens)] /\ buffer' \in [Peers -> Seq(Tokens)]
      /\ line' \in [Peers -> Seq(Tokens)]
  BY <1>1, <1>4 DEF VariablesTyped, Reconnect
<1>9. /\ open' \in [Peers -> BOOLEAN] /\ closing' \in [Peers -> BOOLEAN]
      /\ partial' \in [Peers -> BOOLEAN] /\ ignore' \in [Peers -> BOOLEAN]
      /\ counter' \in [Peers -> Nat] /\ pending' \in [Peers -> SUBSET Ids]
      /\ todo' \in [Peers -> SUBSET Ids] /\ lost' \in [Peers -> SUBSET Ids]
      /\ promised' \in [Peers -> Nat \cup {NotClosed}]
  BY <1>1 DEF VariablesTyped, Reconnect
<1>10. connections' \in 1..MaxConnections
  BY JsonRpcConstants DEF VariablesTyped, Reconnect
<1>11. VariablesTyped'
  BY <1>8, <1>9, <1>10 DEF VariablesTyped, Reconnect
<1> QED BY <1>2, <1>6, <1>7, <1>11 DEF Loses

\* The token that is looked at belongs to a message that has been sent.
LEMMA TokenIsKnown ==
  ASSUME Typed, NEW p \in Peers, chunk[p] # <<>>
  PROVE  /\ Token(p) \in Tokens /\ Stream(Other(p)) # <<>> /\ Token(p) = Head(Stream(Other(p)))
         /\ (Token(p) + 2) \div 3 \in DOMAIN log[Other(p)] /\ Of(p) \in Messages
<1> DEFINE q == Other(p)
           s == Stream(q)
           l == log[q]
<1>1. q \in Peers /\ Other(q) = p
  BY PeerFacts
<1>2. VariablesTyped /\ \A i \in DOMAIN s : s[i] <= 3 * Len(l)
  BY <1>1 DEF Typed, OfTheLog
<1>3. s # <<>> /\ Head(s) = Head(chunk[p])
  BY <1>1, <1>2, StreamHead
<1>4. s \in Seq(Tokens) /\ DOMAIN s = 1..Len(s) /\ Len(s) \in Nat
  BY <1>1, <1>2, StreamTyped
<1>5. l \in Seq(Messages) /\ Len(l) \in Nat /\ DOMAIN l = 1..Len(l)
  BY <1>1, <1>2, LenProperties DEF VariablesTyped
<1> HIDE DEF s
<1>6. 1 \in DOMAIN s /\ Head(s) = s[1] /\ s[1] \in Tokens
  BY <1>3, <1>4, EmptySeq, ElementOfSeq
<1>7. Token(p) \in Tokens /\ Token(p) <= 3 * Len(l) /\ Token(p) = Head(s)
  BY <1>2, <1>3, <1>6 DEF Token
<1>8. (Token(p) + 2) \div 3 \in 1..Len(l)
  BY <1>5, <1>7 DEF Tokens
<1>9. Of(p) \in Messages
  BY <1>5, <1>8, ElementOfSeq DEF Of
<1> QED BY <1>3, <1>5, <1>7, <1>8, <1>9 DEF s

\* Whatever is said in reply is one message.
LEMMA Replies ==
  ASSUME Typed, NEW p \in Peers, Process(p)
  PROVE  UNCHANGED sending \/ \E m \in Messages : Send(p, m)
<1>1. chunk[p] # <<>>
  BY DEF Process
<1>2. Of(p).id \in Ids
  BY <1>1, TokenIsKnown DEF Messages
<1>3. Message("answer", Of(p).id) \in Messages /\ Message("error", 0) \in Messages
  BY <1>2, ZeroId DEF Message, Messages, Kinds
<1>4. ReportError(p) => UNCHANGED sending \/ Send(p, Message("error", 0))
  BY DEF ReportError
<1>5. GotJson(p, Of(p)) =>
        UNCHANGED sending \/ Send(p, Message("answer", Of(p).id)) \/ ReportError(p)
  BY DEF GotJson
<1>6. ReadsLine(p) \/ Begins(p) \/ Skips(p) => UNCHANGED sending
  BY DEF ReadsLine, Begins, Skips
<1>7. (Completes(p) => GotJson(p, Of(p))) /\ (Fails(p) => ReportError(p))
  BY DEF Completes, Fails
<1>8. ReadsLine(p) \/ Begins(p) \/ Completes(p) \/ Fails(p) \/ Skips(p)
  BY DEF Process
<1> QED BY <1>3, <1>4, <1>5, <1>6, <1>7, <1>8, Zenon

LEMMA ProcessStep ==
  ASSUME Typed, NEW p \in Peers, Process(p)
  PROVE  /\ VariablesTyped' /\ LooksAt(Other(p))
         /\ (UNCHANGED sending /\ Keeps(p)) \/ \E m \in Messages : Send(p, m) /\ Sends(p, m)
<1> DEFINE q == Other(p)
<1>1. q \in Peers /\ Other(q) = p /\ p # q /\ VariablesTyped
  BY PeerFacts DEF Typed
<1>2. /\ chunk[p] # <<>> /\ chunk' = [chunk EXCEPT ![p] = Tail(@)]
  BY DEF Process
<1>3. chunk[p] \in Seq(Tokens) /\ Tail(chunk[p]) \in Seq(Tokens)
  BY <1>1, <1>2, HeadTailProperties DEF VariablesTyped
<1>4. chunk'[p] = Tail(chunk[p]) /\ chunk'[q] = chunk[q] /\ chunk' \in [Peers -> Seq(Tokens)]
  BY <1>1, <1>2, <1>3 DEF VariablesTyped
<1>5. Token(p) \in Tokens /\ Of(p) \in Messages
  BY <1>2, TokenIsKnown
<1>6. /\ wire' \in [Peers -> Seq(Tokens)] /\ buffer' \in [Peers -> Seq(Tokens)]
      /\ log' \in [Peers -> Seq(Messages)]
      /\ log'[q] = log[q] /\ wire'[q] = wire[q] /\ buffer'[q] = buffer[q]
  <2>1. CASE UNCHANGED sending
    BY <1>1, <2>1 DEF sending, VariablesTyped
  <2>2. CASE \E m \in Messages : Send(p, m)
    <3>1. PICK m \in Messages : Send(p, m)
      BY <2>2
    <3> QED BY <1>1, <3>1, SendEffect, SendLeavesOther
  <2> QED BY <2>1, <2>2, Replies
<1>7. LooksAt(q)
  BY <1>1, <1>2, <1>4, <1>6, StreamLookedAt
<1>8. (UNCHANGED sending /\ Keeps(p)) \/ \E m \in Messages : Send(p, m) /\ Sends(p, m)
  <2>1. CASE UNCHANGED sending
    BY <1>4, <2>1, StreamSame DEF sending
  <2>2. CASE \E m \in Messages : Send(p, m)
    BY <1>1, <1>4, <2>2, StreamSent
  <2> QED BY <2>1, <2>2, Replies
<1>9. /\ partial' \in [Peers -> BOOLEAN] /\ ignore' \in [Peers -> BOOLEAN]
      /\ line' \in [Peers -> Seq(Tokens)] /\ torn' \in BOOLEAN
      /\ pending' \in [Peers -> SUBSET Ids] /\ todo' \in [Peers -> SUBSET Ids]
  <2>1. CASE ReadsLine(p)
    <3>1. line[p] \in Seq(Tokens) /\ <<>> \in Seq(Tokens) /\ Append(line[p], Token(p)) \in Seq(Tokens)
      BY <1>1, <1>5, AppendProperties, EmptySeq DEF VariablesTyped
    <3>2. \E t \in Seq(Tokens) : line' = [line EXCEPT ![p] = t]
      BY <2>1, <3>1 DEF ReadsLine
    <3>3. torn' \in BOOLEAN
      BY <2>1 DEF ReadsLine
    <3> QED BY <1>1, <2>1, <3>2, <3>3 DEF ReadsLine, VariablesTyped
  <2>2. CASE Begins(p) /\ UNCHANGED line
    BY <1>1, <2>2 DEF Begins, VariablesTyped
  <2>3. CASE Skips(p) /\ UNCHANGED line
    BY <1>1, <2>3 DEF Skips, VariablesTyped
  <2>4. CASE Fails(p) /\ UNCHANGED line
    BY <1>1, <2>4 DEF Fails, VariablesTyped
  <2>5. CASE Completes(p) /\ UNCHANGED line
    <3>1. /\ partial' = [partial EXCEPT ![p] = FALSE] /\ ignore' = [ignore EXCEPT ![p] = TRUE]
          /\ torn' = torn /\ GotJson(p, Of(p)) /\ line' = line
      BY <2>5 DEF Completes
    <3>2. Of(p).id \in Ids
      BY <1>5 DEF Messages
    <3>3. pending' \in [Peers -> SUBSET Ids] /\ todo' \in [Peers -> SUBSET Ids]
      BY <1>1, <3>1, <3>2 DEF GotJson, VariablesTyped
    <3> QED BY <1>1, <3>1, <3>3 DEF VariablesTyped
  <2> QED BY <2>1, <2>2, <2>3, <2>4, <2>5 DEF Process
<1>10. VariablesTyped'
  BY <1>1, <1>4, <1>6, <1>9 DEF VariablesTyped, Process, history
<1> QED BY <1>7, <1>8, <1>10

-----------------------------------------------------------------------------
(* Types, and the end of the connection *)

\* The log of a peer only grows.
LEMMA LogGrows ==
  ASSUME VariablesTyped, NEW p \in Peers, NEW m \in Messages, log'[p] = Append(log[p], m)
  PROVE  /\ Len(log[p]) \in Nat /\ log[p] \in Seq(Messages) /\ log'[p] \in Seq(Messages)
         /\ Len(log'[p]) = Len(log[p]) + 1
         /\ DOMAIN log[p] = 1..Len(log[p]) /\ DOMAIN log'[p] = 1..Len(log[p]) + 1
         /\ \A n \in 1..Len(log[p]) : log'[p][n] = log[p][n]
         /\ log'[p][Len(log[p]) + 1] = m
<1> DEFINE l == log[p]
<1>1. l \in Seq(Messages)
  BY DEF VariablesTyped
<1> HIDE DEF l
<1>2. Len(l) \in Nat /\ DOMAIN l = 1..Len(l)
  BY <1>1, LenProperties
<1>3. /\ Append(l, m) \in Seq(Messages) /\ Len(Append(l, m)) = Len(l) + 1
      /\ \A i \in 1..Len(l) : Append(l, m)[i] = l[i]
      /\ Append(l, m)[Len(l) + 1] = m
  BY <1>1, AppendProperties
<1>4. DOMAIN Append(l, m) = 1..Len(l) + 1
  BY <1>2, <1>3, LenProperties
<1> QED BY <1>1, <1>2, <1>3, <1>4 DEF l

LEMMA OfTheLogKept ==
  ASSUME VariablesTyped, VariablesTyped', NEW p \in Peers, OfTheLog(p),
         Keeps(p) \/ (\E m \in Messages : Sends(p, m)) \/ LooksAt(p) \/ Loses(p)
  PROVE  OfTheLog(p)'
<1> DEFINE s == Stream(p)
           t == NextTokens(p)
           d == Stream(p)'
<1>1. /\ s \in Seq(Tokens) /\ DOMAIN s = 1..Len(s) /\ Len(s) \in Nat
      /\ d \in Seq(Tokens) /\ DOMAIN d = 1..Len(d) /\ Len(d) \in Nat
  BY StreamTyped, NextStreamTyped
<1>2. \A i \in DOMAIN s : s[i] <= 3 * Len(log[p])
  BY DEF OfTheLog
<1>3. SUFFICES \A i \in DOMAIN d : d[i] <= 3 * Len(log'[p])
  BY DEF OfTheLog
<1> HIDE DEF s, t, d
<1>4. CASE Keeps(p)
  BY <1>2, <1>4 DEF Keeps, s, d
<1>5. CASE \E m \in Messages : Says(p, m)
  <2>1. PICK m \in Messages : log'[p] = Append(log[p], m) /\ d = s \o t
    BY <1>5 DEF Says, s, d, t
  <2>2. Len(log[p]) \in Nat /\ Len(log'[p]) = Len(log[p]) + 1
    BY <2>1, LogGrows
  <2>3. t \in Seq(Tokens) /\ Len(t) = 3 /\ \A i \in 1..3 : t[i] = 3 * Len(log[p]) + i
    BY NextTokensProperties DEF t
  <2>4. Len(d) = Len(s) + 3 /\ \A i \in 1..Len(d) : d[i] = IF i <= Len(s) THEN s[i] ELSE t[i - Len(s)]
    <3>1. /\ Len(s \o t) = Len(s) + Len(t)
          /\ \A i \in 1..Len(s) + Len(t) : (s \o t)[i] = IF i <= Len(s) THEN s[i] ELSE t[i - Len(s)]
      BY <1>1, <2>3, ConcatProperties
    <3> QED BY <2>1, <2>3, <3>1
  <2>5. ASSUME NEW i \in 1..Len(d) PROVE d[i] <= 3 * Len(log'[p])
    <3>1. CASE i <= Len(s)
      <4>1. d[i] = s[i] /\ i \in DOMAIN s
        BY <1>1, <2>4, <3>1
      <4>2. d[i] \in Nat
        BY <1>1, ElementOfSeq DEF Tokens
      <4> QED BY <1>2, <2>2, <4>1, <4>2
    <3>2. CASE i > Len(s)
      <4> DEFINE k == i - Len(s)
      <4>1. d[i] = t[k] /\ k \in 1..3
        BY <1>1, <2>4, <3>2
      <4> HIDE DEF k
      <4>2. d[i] = 3 * Len(log[p]) + k
        BY <2>3, <4>1
      <4> QED BY <2>2, <4>1, <4>2
    <3> QED BY <1>1, <3>1, <3>2
  <2> QED BY <1>1, <2>5
<1>6. CASE LooksAt(p)
  <2>1. s # <<>> /\ log'[p] = log[p] /\ d = Tail(s)
    BY <1>6 DEF LooksAt, s, d
  <2>2. /\ Len(Tail(s)) = Len(s) - 1 /\ \A i \in 1..Len(Tail(s)) : Tail(s)[i] = s[i + 1]
    BY <1>1, <2>1, HeadTailProperties
  <2>3. \A i \in 1..Len(d) : i + 1 \in 1..Len(s) /\ d[i] = s[i + 1]
    BY <1>1, <2>1, <2>2
  <2> QED BY <1>1, <1>2, <2>1, <2>3
<1>7. CASE Loses(p)
  BY <1>7, EmptySeq DEF Loses, d
<1> QED BY <1>4, <1>5, <1>6, <1>7 DEF Sends

LEMMA TypedInit == Init => Typed /\ CloseInv
<1> SUFFICES ASSUME Init PROVE Typed /\ CloseInv
  OBVIOUS
<1>1. <<>> \in Seq(Tokens) /\ <<>> \in Seq(Messages) /\ Len(<<>>) = 0
  BY EmptySeq
<1>2. MaxRequests \in [Peers -> Nat] /\ 1 \in 1..MaxConnections
  BY JsonRpcConstants
<1>3. VariablesTyped
  BY <1>1, <1>2 DEF Init, VariablesTyped, NotClosed
<1>4. ASSUME NEW p \in Peers
      PROVE  /\ counter[p] <= MaxRequests[p] /\ pending[p] \subseteq 1..counter[p]
             /\ todo[p] # {} => p \in Serves
             /\ promised[p] <= Len(log[p])
  BY <1>1, <1>2 DEF Init, NotClosed
<1>5. ASSUME NEW p \in Peers PROVE OfTheLog(p)
  <2>1. Len(chunk[Other(p)]) = 0 /\ Len(wire[p]) = 0 /\ Len(buffer[p]) = 0
    BY <1>1, PeerFacts DEF Init
  <2>2. DOMAIN Stream(p) = 1..Len(Stream(p)) /\ Len(Stream(p)) = 0 + 0 + 0
    BY <1>3, <2>1, StreamTyped, Zenon
  <2> QED BY <2>2 DEF OfTheLog
<1>6. CloseInv
  BY DEF Init, CloseInv
<1> QED BY <1>3, <1>4, <1>5, <1>6 DEF Typed

\* What the effects of a step on a stream say about the log.
LEMMA LogKept ==
  ASSUME VariablesTyped, VariablesTyped', NEW p \in Peers, OfTheLog(p), promised[p] <= Len(log[p]),
         Keeps(p) \/ (\E m \in Messages : Sends(p, m)) \/ LooksAt(p) \/ Loses(p),
         promised'[p] = promised[p] \/ promised'[p] = Len(log[p])
  PROVE  OfTheLog(p)' /\ promised'[p] <= Len(log'[p])
<1>1. OfTheLog(p)'
  BY OfTheLogKept
<1>2. Len(log[p]) \in Nat /\ promised[p] \in Int
  BY LenProperties DEF VariablesTyped, NotClosed
<1>3. log'[p] = log[p] \/ \E m \in Messages : log'[p] = Append(log[p], m)
  BY DEF Keeps, Sends, Says, LooksAt, Loses
<1>4. CASE log'[p] = log[p]
  BY <1>1, <1>2, <1>4
<1>5. CASE \E m \in Messages : log'[p] = Append(log[p], m)
  <2>1. Len(log'[p]) = Len(log[p]) + 1
    BY <1>5, LogGrows
  <2> QED BY <1>1, <1>2, <2>1
<1> QED BY <1>3, <1>4, <1>5

LEMMA TypedStep ==
  ASSUME Typed, [Next]_vars
  PROVE  Typed'
<1> DEFINE Numbers(p) == /\ counter[p] <= MaxRequests[p] /\ pending[p] \subseteq 1..counter[p]
                         /\ todo[p] # {} => p \in Serves
           Sent(p) == OfTheLog(p) /\ promised[p] <= Len(log[p])
           Quiet(p) == Keeps(p) \/ (\E m \in Messages : Sends(p, m)) \/ LooksAt(p) \/ Loses(p)
<1>1. VariablesTyped /\ \A p \in Peers : Numbers(p) /\ Sent(p)
  BY DEF Typed
<1>2. SUFFICES VariablesTyped' /\ \A p \in Peers : Numbers(p)' /\ Sent(p)'
  BY DEF Typed
<1>3. ASSUME VariablesTyped', NEW p \in Peers, Quiet(p),
             promised'[p] = promised[p] \/ promised'[p] = Len(log[p])
      PROVE  Sent(p)'
  BY <1>1, <1>3, LogKept
<1>4. ASSUME UNCHANGED rpc PROVE \A p \in Peers : Numbers(p)'
  BY <1>1, <1>4 DEF rpc
<1>5. \A p \in Peers : MaxRequests[p] \in Nat /\ counter[p] \in Nat /\ pending[p] \subseteq 1..counter[p]
  BY <1>1, JsonRpcConstants DEF VariablesTyped
<1>6. ASSUME NEW p \in Peers, CanSend(p) \/ CloseAfterSend(p)
      PROVE  VariablesTyped' /\ \A r \in Peers : Numbers(r)' /\ Sent(r)'
  <2>1. VariablesTyped' /\ \A r \in Peers : Keeps(r)
    BY <1>1, <1>6, CanSendStep, CloseAfterSendStep
  <2>2. \A r \in Peers : promised'[r] = promised[r] \/ promised'[r] = Len(log[r])
    BY <1>1, <1>6 DEF CanSend, CloseAfterSend, VariablesTyped
  <2>3. UNCHANGED rpc
    BY <1>6 DEF CanSend, CloseAfterSend
  <2> QED BY <2>1, <2>2, <2>3, <1>3, <1>4
<1>7. ASSUME NEW p \in Peers, Receive(p) \/ HangUp(p)
      PROVE  VariablesTyped' /\ \A r \in Peers : Numbers(r)' /\ Sent(r)'
  <2>1. VariablesTyped' /\ \A r \in Peers : Keeps(r)
    BY <1>1, <1>7, ReceiveStep, HangUpStep
  <2>2. \A r \in Peers : promised'[r] = promised[r]
    BY <1>7 DEF Receive, HangUp, history
  <2>3. UNCHANGED rpc
    BY <1>7 DEF Receive, HangUp
  <2> QED BY <2>1, <2>2, <2>3, <1>3, <1>4
<1>8. ASSUME NEW p \in Peers, SendRequest(p)
      PROVE  VariablesTyped' /\ \A r \in Peers : Numbers(r)' /\ Sent(r)'
  <2>1. VariablesTyped' /\ \A r \in Peers : Quiet(r)
    BY <1>1, <1>8, SendRequestStep, PeerFacts
  <2>2. \A r \in Peers : promised'[r] = promised[r]
    BY <1>8 DEF SendRequest, history
  <2>3. /\ counter' = [counter EXCEPT ![p] = @ + 1] /\ counter[p] < MaxRequests[p]
        /\ pending' = [pending EXCEPT ![p] = @ \cup {counter[p] + 1}] /\ todo' = todo
    BY <1>1, <1>8, SendRequestStep DEF SendRequest
  <2> HIDE DEF Quiet, Sent
  <2>4. ASSUME NEW r \in Peers PROVE Numbers(r)'
    <3>1. CASE r = p
      BY <1>1, <1>5, <2>3, <3>1 DEF VariablesTyped
    <3>2. CASE r # p
      BY <1>1, <1>5, <2>3, <3>2 DEF VariablesTyped
    <3> QED BY <3>1, <3>2
  <2> QED BY <2>1, <2>2, <2>4, <1>3
<1>9. ASSUME NEW p \in Peers, SendNotification(p)
      PROVE  VariablesTyped' /\ \A r \in Peers : Numbers(r)' /\ Sent(r)'
  <2>1. VariablesTyped' /\ \A r \in Peers : Quiet(r)
    BY <1>1, <1>9, SendNotificationStep, PeerFacts
  <2>2. \A r \in Peers : promised'[r] = promised[r]
    BY <1>9 DEF SendNotification, history
  <2>3. /\ counter' = [counter EXCEPT ![p] = @ + 1] /\ counter[p] < MaxRequests[p]
        /\ pending' = pending /\ todo' = todo
    BY <1>1, <1>9, SendNotificationStep DEF SendNotification
  <2> HIDE DEF Quiet, Sent
  <2>4. ASSUME NEW r \in Peers PROVE Numbers(r)'
    <3>1. CASE r = p
      BY <1>1, <1>5, <2>3, <3>1 DEF VariablesTyped
    <3>2. CASE r # p
      BY <1>1, <1>5, <2>3, <3>2 DEF VariablesTyped
    <3> QED BY <3>1, <3>2
  <2> QED BY <2>1, <2>2, <2>4, <1>3
<1>10. ASSUME NEW p \in Peers, Answer(p)
       PROVE  VariablesTyped' /\ \A r \in Peers : Numbers(r)' /\ Sent(r)'
  <2>1. VariablesTyped' /\ \A r \in Peers : Quiet(r)
    BY <1>1, <1>10, AnswerStep, PeerFacts
  <2>2. \A r \in Peers : promised'[r] = promised[r]
    BY <1>10 DEF Answer, history
  <2>3. /\ counter' = counter /\ pending' = pending
        /\ \E id \in todo[p] : todo' = [todo EXCEPT ![p] = @ \ {id}]
    BY <1>1, <1>10 DEF Answer
  <2>4. \A r \in Peers : Numbers(r)'
    BY <1>1, <2>3 DEF VariablesTyped
  <2> QED BY <2>1, <2>2, <2>4, <1>3
<1>11. ASSUME NEW p \in Peers, SendJunk(p)
       PROVE  VariablesTyped' /\ \A r \in Peers : Numbers(r)' /\ Sent(r)'
  <2>1. VariablesTyped' /\ \A r \in Peers : Quiet(r)
    BY <1>1, <1>11, SendJunkStep, PeerFacts
  <2>2. \A r \in Peers : promised'[r] = promised[r]
    BY <1>11 DEF SendJunk, history
  <2>3. UNCHANGED rpc
    BY <1>11 DEF SendJunk
  <2> QED BY <2>1, <2>2, <2>3, <1>3, <1>4
<1>12. ASSUME NEW p \in Peers, Process(p)
       PROVE  VariablesTyped' /\ \A r \in Peers : Numbers(r)' /\ Sent(r)'
  <2>1. VariablesTyped' /\ \A r \in Peers : Quiet(r)
    BY <1>12, ProcessStep, PeerFacts
  <2>2. (\A r \in Peers : promised'[r] = promised[r]) /\ counter' = counter
    BY <1>12 DEF Process, history
  <2>3. ASSUME NEW r \in Peers PROVE pending'[r] \subseteq pending[r] /\ (todo'[r] # {} => r \in Serves)
    <3>1. CASE pending' = pending /\ todo' = todo
      BY <1>1, <3>1
    <3>2. CASE GotJson(p, Of(p))
      BY <1>1, <3>2 DEF GotJson, VariablesTyped
    <3> QED BY <1>12, <3>1, <3>2 DEF Process, ReadsLine, Begins, Completes, Fails, Skips
  <2>4. \A r \in Peers : Numbers(r)'
    BY <1>1, <2>2, <2>3
  <2> QED BY <2>1, <2>2, <2>4, <1>3
<1>13. ASSUME Reconnect
       PROVE  VariablesTyped' /\ \A r \in Peers : Numbers(r)' /\ Sent(r)'
  <2>1. VariablesTyped' /\ Loses(2) /\ log' = log /\ Stream(1)' = buffer[1]
    BY <1>1, <1>13, ReconnectStep
  <2>2. \A r \in Peers : promised'[r] = NotClosed /\ Len(log[r]) \in Nat
    BY <1>1, <1>13, LenProperties DEF Reconnect, VariablesTyped
  <2>3. OfTheLog(2)'
    BY <1>1, <2>1, OfTheLogKept DEF Peers
  <2>4. OfTheLog(1)'
    <3>1. chunk[Other(1)] = <<>> /\ 1 \in Peers /\ buffer[1] \in Seq(Tokens) /\ wire[1] \in Seq(Tokens)
      BY <1>1, <1>13, PeerFacts DEF Reconnect, VariablesTyped, Peers
    <3> DEFINE w == wire[1]
               b == buffer[1]
    <3>2. w \in Seq(Tokens) /\ b \in Seq(Tokens) /\ OfTheLog(1)
      BY <1>1, <3>1
    <3>3. Stream(1) = (<<>> \o w) \o b /\ Stream(1)' = b
      BY <2>1, <3>1 DEF Stream
    <3> HIDE DEF w, b
    <3>4. <<>> \o w = w
      BY <3>2, ConcatEmptySeq
    <3>5. /\ w \o b \in Seq(Tokens) /\ Len(w \o b) = Len(w) + Len(b)
          /\ \A i \in 1..Len(w) + Len(b) : (w \o b)[i] = IF i <= Len(w) THEN w[i] ELSE b[i - Len(w)]
          /\ Len(w) \in Nat /\ Len(b) \in Nat /\ DOMAIN b = 1..Len(b)
      BY <3>2, ConcatProperties, LenProperties
    <3> DEFINE x == w \o b
    <3>6. Stream(1) = x
      BY <3>3, <3>4
    <3>7. DOMAIN x = 1..Len(w) + Len(b)
      BY <3>5, LenProperties
    <3> HIDE DEF x
    <3>8. \A i \in 1..Len(b) : i + Len(w) \in DOMAIN x /\ x[i + Len(w)] = b[i]
      <4>1. \A i \in 1..Len(w) + Len(b) : x[i] = IF i <= Len(w) THEN w[i] ELSE b[i - Len(w)]
        BY <3>5 DEF x
      <4> QED BY <3>5, <3>7, <4>1
    <3>9. \A i \in DOMAIN b : b[i] <= 3 * Len(log[1])
      BY <3>2, <3>5, <3>6, <3>8 DEF OfTheLog
    <3> QED BY <2>1, <3>3, <3>9 DEF OfTheLog
  <2>5. /\ counter' = [counter EXCEPT ![2] = 0] /\ pending' = [pending EXCEPT ![2] = {}]
        /\ todo' = [todo EXCEPT ![2] = {}]
    BY <1>13 DEF Reconnect
  <2>6. \A r \in Peers : Numbers(r)'
    BY <1>1, <1>5, <2>5 DEF VariablesTyped, Peers
  <2>7. \A r \in Peers : Sent(r)'
    BY <2>1, <2>2, <2>3, <2>4 DEF Peers, NotClosed
  <2> QED BY <2>1, <2>6, <2>7
<1>14. ASSUME UNCHANGED vars
       PROVE  VariablesTyped' /\ \A r \in Peers : Numbers(r)' /\ Sent(r)'
  BY <1>1, <1>14 DEF vars, VariablesTyped, OfTheLog, Stream
<1> QED BY <1>6, <1>7, <1>8, <1>9, <1>10, <1>11, <1>12, <1>13, <1>14 DEF Next

\* What a closed peer still says comes after what it has promised, and stays in its buffer.
LEMMA SendAfterClose ==
  ASSUME Typed, CloseInv, NEW p \in Peers, NEW m \in Messages, Send(p, m), promised' = promised,
         promised[p] # NotClosed
  PROVE  wire'[p] = wire[p] /\ \A i \in DOMAIN buffer'[p] : buffer'[p][i] > 3 * promised[p]
<1>1. VariablesTyped /\ promised[p] <= Len(log[p]) /\ Len(log[p]) \in Nat /\ promised[p] \in Int
  BY LenProperties DEF Typed, VariablesTyped, NotClosed
<1>2. ~open[p] /\ \A i \in DOMAIN buffer[p] : buffer[p][i] > 3 * promised[p]
  BY DEF CloseInv
<1>3. /\ wire'[p] = wire[p] /\ buffer' \in [Peers -> Seq(Tokens)]
      /\ \A i \in DOMAIN buffer'[p] :
           \/ buffer'[p][i] > 3 * Len(log[p])
           \/ \E j \in DOMAIN buffer[p] : buffer'[p][i] = buffer[p][j]
  BY <1>1, <1>2, SendEffect
<1>4. ASSUME NEW i \in DOMAIN buffer'[p] PROVE buffer'[p][i] > 3 * promised[p]
  <2>1. CASE buffer'[p][i] > 3 * Len(log[p])
    <3>1. buffer'[p] \in Seq(Tokens)
      BY <1>3
    <3>2. buffer'[p][i] \in Nat
      BY <3>1, ElementOfSeq, LenProperties DEF Tokens
    <3> QED BY <1>1, <2>1, <3>2
  <2>2. CASE \E j \in DOMAIN buffer[p] : buffer'[p][i] = buffer[p][j]
    BY <1>2, <2>2
  <2> QED BY <1>3, <2>1, <2>2
<1> QED BY <1>3, <1>4

\* Sending while the connection is open, with nothing else done, leaves CloseInv.
LEMMA CloseKeptBySend ==
  ASSUME Typed, CloseInv, NEW p \in Peers, NEW m \in Messages, Send(p, m),
         UNCHANGED <<open, promised, chunk>>
  PROVE  CloseInv'
<1>1. VariablesTyped
  BY DEF Typed
<1> DEFINE q == Other(p)
<1>2. q \in Peers /\ Other(q) = p /\ p # q /\ \A r \in Peers : r = p \/ r = q
  BY PeerFacts
<1>3. log'[q] = log[q] /\ wire'[q] = wire[q] /\ buffer'[q] = buffer[q]
  BY <1>1, SendLeavesOther
<1>4. ~open[p] => wire'[p] = wire[p]
  BY <1>1, SendEffect
<1>5. promised[p] # NotClosed =>
        wire'[p] = wire[p] /\ \A i \in DOMAIN buffer'[p] : buffer'[p][i] > 3 * promised[p]
  BY SendAfterClose
<1> HIDE DEF q
<1>6. /\ promised[p] # NotClosed => ~open[p]
      /\ promised[q] # NotClosed => ~open[q] /\ \A i \in DOMAIN buffer[q] : buffer[q][i] > 3 * promised[q]
      /\ ~open[p] /\ promised[p] = NotClosed => ~open[q] /\ wire[q] = <<>> /\ chunk[p] = <<>>
      /\ ~open[q] /\ promised[q] = NotClosed => ~open[p] /\ wire[p] = <<>> /\ chunk[q] = <<>>
  BY <1>2 DEF CloseInv, q
<1>7. /\ promised'[p] # NotClosed =>
           ~open'[p] /\ \A i \in DOMAIN buffer'[p] : buffer'[p][i] > 3 * promised'[p]
      /\ ~open'[p] /\ promised'[p] = NotClosed => ~open'[q] /\ wire'[q] = <<>> /\ chunk'[p] = <<>>
  BY <1>3, <1>5, <1>6
<1>8. /\ promised'[q] # NotClosed =>
           ~open'[q] /\ \A i \in DOMAIN buffer'[q] : buffer'[q][i] > 3 * promised'[q]
      /\ ~open'[q] /\ promised'[q] = NotClosed => ~open'[p] /\ wire'[p] = <<>> /\ chunk'[q] = <<>>
  BY <1>3, <1>4, <1>6
<1> QED BY <1>2, <1>7, <1>8 DEF CloseInv, q

LEMMA CloseInvStep ==
  ASSUME Typed, CloseInv, [Next]_vars
  PROVE  CloseInv'
<1>1. VariablesTyped
  BY DEF Typed
<1>2. ASSUME NEW p \in Peers, CanSend(p) PROVE CloseInv'
  <2> DEFINE q == Other(p)
  <2>1. q \in Peers /\ Other(q) = p /\ p # q /\ \A r \in Peers : r = p \/ r = q
    BY PeerFacts
  <2>2. buffer[p] \in Seq(Tokens) /\ Accepts(p, buffer[p]) /\ open[p]
    BY <1>1, <1>2 DEF CanSend, VariablesTyped
  <2>3. wire'[q] = wire[q] /\ buffer'[q] = buffer[q]
    BY <1>1, <2>1, <2>2, AcceptsEffect
  <2>4. promised[p] = NotClosed /\ ~(~open[q] /\ promised[q] = NotClosed)
    BY <2>1, <2>2 DEF CloseInv
  <2>5. /\ open'[q] = open[q] /\ promised'[q] = promised[q]
        /\ promised'[p] # NotClosed => ~open'[p] /\ buffer'[p] = <<>>
        /\ ~open'[p] => promised'[p] = Len(log[p])
    BY <1>1, <1>2, <2>1, <2>2, <2>4 DEF CanSend, VariablesTyped
  <2>6. Len(log[p]) # NotClosed /\ DOMAIN <<>> = {}
    BY <1>1, LenProperties DEF VariablesTyped, NotClosed
  <2> HIDE DEF q
  <2>7. promised[q] # NotClosed => ~open[q] /\ \A i \in DOMAIN buffer[q] : buffer[q][i] > 3 * promised[q]
    BY <2>1 DEF CloseInv
  <2> QED BY <2>1, <2>3, <2>4, <2>5, <2>6, <2>7 DEF CloseInv
<1>3. ASSUME NEW p \in Peers, CloseAfterSend(p) PROVE CloseInv'
  <2> DEFINE q == Other(p)
  <2>1. q \in Peers /\ Other(q) = p /\ p # q /\ \A r \in Peers : r = p \/ r = q
    BY PeerFacts
  <2>2. open[p] /\ UNCHANGED <<buffer, wire, log, chunk>>
    BY <1>3 DEF CloseAfterSend, sending
  <2>3. promised[p] = NotClosed /\ ~(~open[q] /\ promised[q] = NotClosed)
    BY <2>1, <2>2 DEF CloseInv
  <2>4. /\ open'[q] = open[q] /\ promised'[q] = promised[q]
        /\ promised'[p] # NotClosed => ~open'[p] /\ buffer[p] = <<>>
        /\ ~open'[p] => promised'[p] = Len(log[p])
    BY <1>1, <1>3, <2>1, <2>2, <2>3 DEF CloseAfterSend, VariablesTyped
  <2>5. Len(log[p]) # NotClosed /\ DOMAIN <<>> = {}
    BY <1>1, LenProperties DEF VariablesTyped, NotClosed
  <2> HIDE DEF q
  <2>6. promised[q] # NotClosed => ~open[q] /\ \A i \in DOMAIN buffer[q] : buffer[q][i] > 3 * promised[q]
    BY <2>1 DEF CloseInv
  <2> QED BY <2>1, <2>2, <2>3, <2>4, <2>5, <2>6 DEF CloseInv
<1>4. ASSUME NEW p \in Peers, SendRequest(p) \/ SendNotification(p) \/ Answer(p) \/ SendJunk(p)
      PROVE  CloseInv'
  <2>1. UNCHANGED <<open, promised, chunk>>
    BY <1>4 DEF SendRequest, SendNotification, Answer, SendJunk, history
  <2>2. \E m \in Messages : Send(p, m)
    <3>1. SendRequest(p) => Send(p, Message("request", counter[p] + 1))
      BY <1>1 DEF SendRequest, VariablesTyped
    <3>2. SendNotification(p) => Send(p, Message("notify", 0))
      BY DEF SendNotification
    <3>3. SendJunk(p) => Send(p, Message("junk", 0))
      BY DEF SendJunk
    <3> QED BY <1>1, <1>4, <3>1, <3>2, <3>3, SendRequestStep, SendNotificationStep, AnswerStep,
               SendJunkStep, Zenon
  <2> QED BY <2>1, <2>2, CloseKeptBySend
<1>5. ASSUME NEW p \in Peers, Receive(p) PROVE CloseInv'
  <2> DEFINE q == Other(p)
  <2>1. q \in Peers /\ Other(q) = p /\ p # q /\ \A r \in Peers : r = p \/ r = q
    BY PeerFacts
  <2>2. open[p] /\ UNCHANGED <<open, promised, buffer>>
    BY <1>5 DEF Receive, history
  <2>3. ~(~open[q] /\ promised[q] = NotClosed)
    BY <2>1, <2>2 DEF CloseInv
  <2> QED BY <2>1, <2>2, <2>3 DEF CloseInv
<1>6. ASSUME NEW p \in Peers, Process(p) PROVE CloseInv'
  <2> DEFINE q == Other(p)
  <2>1. q \in Peers /\ Other(q) = p /\ p # q /\ \A r \in Peers : r = p \/ r = q
    BY PeerFacts
  <2>2. UNCHANGED <<open, promised>> /\ chunk[p] # <<>> /\ chunk' = [chunk EXCEPT ![p] = Tail(@)]
    BY <1>6 DEF Process, history
  <2>3. ~(~open[p] /\ promised[p] = NotClosed)
    BY <2>2 DEF CloseInv
  <2>4. chunk'[q] = chunk[q]
    BY <1>1, <2>1, <2>2 DEF VariablesTyped
  <2>5. /\ wire'[q] = wire[q] /\ buffer'[q] = buffer[q]
        /\ ~open[p] => wire'[p] = wire[p]
        /\ promised[p] # NotClosed => \A i \in DOMAIN buffer'[p] : buffer'[p][i] > 3 * promised[p]
    <3>1. CASE UNCHANGED sending
      BY <3>1 DEF sending, CloseInv
    <3>2. CASE \E m \in Messages : Send(p, m)
      <4>1. PICK m \in Messages : Send(p, m)
        BY <3>2
      <4>2. wire'[q] = wire[q] /\ buffer'[q] = buffer[q]
        BY <1>1, <4>1, SendLeavesOther
      <4>3. ~open[p] => wire'[p] = wire[p]
        BY <1>1, <4>1, SendEffect
      <4>4. promised[p] # NotClosed => \A i \in DOMAIN buffer'[p] : buffer'[p][i] > 3 * promised[p]
        BY <2>2, <4>1, SendAfterClose
      <4> QED BY <4>2, <4>3, <4>4
    <3> QED BY <1>6, <3>1, <3>2, Replies
  <2> HIDE DEF q
  <2>6. /\ promised[p] # NotClosed => ~open[p]
        /\ promised[q] # NotClosed => ~open[q] /\ \A i \in DOMAIN buffer[q] : buffer[q][i] > 3 * promised[q]
        /\ ~open[q] /\ promised[q] = NotClosed => ~open[p] /\ wire[p] = <<>> /\ chunk[q] = <<>>
    BY <2>1 DEF CloseInv
  <2> QED BY <2>1, <2>2, <2>3, <2>4, <2>5, <2>6 DEF CloseInv
<1>7. ASSUME NEW p \in Peers, HangUp(p) PROVE CloseInv'
  <2> DEFINE q == Other(p)
  <2>1. q \in Peers /\ Other(q) = p /\ p # q /\ \A r \in Peers : r = p \/ r = q
    BY PeerFacts
  <2>2. /\ open[p] /\ ~open[q] /\ wire[q] = <<>> /\ chunk[p] = <<>>
        /\ UNCHANGED <<promised, buffer, wire, chunk>> /\ open' = [open EXCEPT ![p] = FALSE]
    BY <1>7 DEF HangUp, history, sending
  <2>3. ~(~open[q] /\ promised[q] = NotClosed) /\ promised[p] = NotClosed
    BY <2>1, <2>2 DEF CloseInv
  <2>4. ~open'[p] /\ ~open'[q]
    BY <1>1, <2>1, <2>2 DEF VariablesTyped
  <2> QED BY <2>1, <2>2, <2>3, <2>4 DEF CloseInv
<1>8. ASSUME Reconnect PROVE CloseInv'
  BY <1>8 DEF Reconnect, CloseInv
<1>9. ASSUME UNCHANGED vars PROVE CloseInv'
  BY <1>9 DEF vars, CloseInv
<1> QED BY <1>2, <1>3, <1>4, <1>5, <1>6, <1>7, <1>8, <1>9 DEF Next

\* What has been sent before closeAfterSend() arrives before the other peer gives the connection up,
\* however often the connection is made, with raw messages or JSON, and whatever a write does.
THEOREM LastWordsAlwaysArrive == Spec => []LastWordsArrive
<1>1. Init => Typed /\ CloseInv
  BY TypedInit
<1>2. Typed /\ CloseInv /\ [Next]_vars => (Typed /\ CloseInv)'
  BY TypedStep, CloseInvStep
<1>3. Typed /\ CloseInv => LastWordsArrive
  <2> SUFFICES ASSUME Typed, CloseInv, NEW p \in Peers,
                      promised[p] # NotClosed, ~open[Other(p)], promised[Other(p)] = NotClosed
               PROVE  \A i \in DOMAIN Stream(p) : Stream(p)[i] > 3 * promised[p]
    BY DEF LastWordsArrive
  <2>1. Other(p) \in Peers /\ Other(Other(p)) = p
    BY PeerFacts
  <2>2. wire[p] = <<>> /\ chunk[Other(p)] = <<>>
    BY <2>1 DEF CloseInv
  <2>3. \A i \in DOMAIN buffer[p] : buffer[p][i] > 3 * promised[p]
    BY DEF CloseInv
  <2>4. buffer[p] \in Seq(Tokens)
    BY DEF Typed, VariablesTyped
  <2>5. \A b \in Seq(Tokens) : (<<>> \o <<>>) \o b = b
    BY ConcatEmptySeq
  <2>6. Stream(p) = buffer[p]
    BY <2>2, <2>4, <2>5, Zenon DEF Stream
  <2> QED BY <2>3, <2>6
<1> QED BY <1>1, <1>2, <1>3, PTL DEF Spec

-----------------------------------------------------------------------------
(* The stream is what is left of the log *)

LEMMA BehindTyped ==
  ASSUME VariablesTyped, NEW p \in Peers, Whole(p)
  PROVE  /\ Behind(p) \in Nat /\ Len(log[p]) \in Nat /\ Behind(p) <= 3 * Len(log[p])
         /\ Len(Stream(p)) = 3 * Len(log[p]) - Behind(p)
         /\ Stream(p) = Upto(Behind(p) + 1, 3 * Len(log[p]))
<1>1. Len(log[p]) \in Nat /\ Len(Stream(p)) \in Nat /\ Behind(p) \in Nat
  BY StreamTyped, LenProperties DEF VariablesTyped, Whole
<1> QED BY <1>1 DEF Behind, Whole

LEMMA WholeKept ==
  ASSUME VariablesTyped, VariablesTyped', NEW p \in Peers, Whole(p), Keeps(p)
  PROVE  Whole(p)' /\ Behind(p)' = Behind(p)
BY DEF Whole, Behind, Keeps

LEMMA WholeSaid ==
  ASSUME VariablesTyped, VariablesTyped', NEW p \in Peers, NEW m \in Messages, Whole(p), Says(p, m)
  PROVE  Whole(p)' /\ Behind(p)' = Behind(p)
<1> DEFINE b == Behind(p)
           l == Len(log[p])
           l3 == 3 * l
<1>1. /\ b \in Nat /\ l \in Nat /\ b <= l3 /\ Len(Stream(p)) = l3 - b /\ Stream(p) = Upto(b + 1, l3)
  BY BehindTyped
<1>2. Len(log'[p]) = l + 1
  BY LogGrows DEF Says
<1>3. Stream(p)' = Upto(b + 1, l3) \o Upto(l3 + 1, l3 + 3)
  BY <1>1, Zenon DEF Says, NextTokens
<1> HIDE DEF b, l
<1>4. b + 1 \in Tokens /\ l3 \in Nat /\ l3 + 3 \in Nat /\ b + 1 <= l3 + 1 /\ l3 <= l3 + 3
  BY <1>1 DEF Tokens
<1>5. b + 1 <= (l3 + 3) + 1 /\ (l3 + 3) - (b + 1) + 1 = l3 + 3 - b
  BY <1>1
<1> HIDE DEF l3
<1>6. Stream(p)' = Upto(b + 1, l3 + 3)
  BY <1>3, <1>4, UptoConcat, Zenon
<1>7. Len(Upto(b + 1, l3 + 3)) = l3 + 3 - b
  BY <1>4, <1>5, UptoProperties
<1>8. 3 * Len(log'[p]) = l3 + 3
  BY <1>1, <1>2 DEF l3
<1>9. Behind(p)' = b
  <2>1. Behind(p)' = 3 * Len(log'[p]) - Len(Stream(p)')
    BY DEF Behind
  <2> QED BY <2>1, <1>1, <1>4, <1>6, <1>7, <1>8
<1>10. Behind(p)' \in Nat /\ Stream(p)' = Upto(Behind(p)' + 1, 3 * Len(log'[p]))
  BY <1>1, <1>6, <1>8, <1>9
<1> QED BY <1>9, <1>10 DEF Whole, b

LEMMA WholeLookedAt ==
  ASSUME VariablesTyped, VariablesTyped', NEW p \in Peers, Whole(p), LooksAt(p)
  PROVE  /\ Whole(p)' /\ Behind(p)' = Behind(p) + 1
         /\ Head(Stream(p)) = Behind(p) + 1 /\ Behind(p) < 3 * Len(log[p])
<1> DEFINE b == Behind(p)
           l3 == 3 * Len(log[p])
           s == Stream(p)
<1>1. b \in Nat /\ l3 \in Nat /\ b <= l3 /\ Len(s) = l3 - b /\ s = Upto(b + 1, l3)
  BY BehindTyped
<1>2. s # <<>> /\ log'[p] = log[p] /\ Stream(p)' = Tail(s)
  BY DEF LooksAt
<1>3. s \in Seq(Tokens)
  BY StreamTyped
<1>4. Behind(p)' = l3 - Len(Tail(s))
  BY <1>2 DEF Behind
<1> HIDE DEF b, l3, s
<1>5. Len(s) \in Nat \ {0} /\ Len(Tail(s)) = Len(s) - 1
  BY <1>2, <1>3, EmptySeq, LenProperties, HeadTailProperties
<1>6. b + 1 \in Tokens /\ b + 1 <= l3
  BY <1>1, <1>5 DEF Tokens
<1>7. Head(s) = b + 1 /\ Tail(s) = Upto((b + 1) + 1, l3)
  BY <1>1, <1>6, UptoTail
<1>8. Behind(p)' = b + 1
  <2> DEFINE k == Len(s)
  <2>1. Behind(p)' = l3 - (k - 1)
    BY <1>4, <1>5, Zenon
  <2>2. k = l3 - b
    BY <1>1
  <2> HIDE DEF k
  <2> QED BY <1>1, <2>1, <2>2
<1>9. Behind(p)' \in Nat /\ Stream(p)' = Upto(Behind(p)' + 1, l3)
  BY <1>1, <1>2, <1>7, <1>8
<1>10. Whole(p)'
  BY <1>2, <1>9 DEF Whole, l3
<1> QED BY <1>1, <1>6, <1>7, <1>8, <1>10 DEF b, l3, s

LEMMA WholeLost ==
  ASSUME VariablesTyped, VariablesTyped', NEW p \in Peers, Loses(p)
  PROVE  Whole(p)' /\ Behind(p)' = 3 * Len(log[p])
<1> DEFINE l3 == 3 * Len(log[p])
<1>1. log'[p] = log[p] /\ Stream(p)' = <<>>
  BY DEF Loses
<1>2. l3 \in Nat
  BY LenProperties DEF VariablesTyped
<1>3. Behind(p)' = l3 - 0
  BY <1>1, EmptySeq DEF Behind
<1> HIDE DEF l3
<1>4. l3 + 1 \in Tokens /\ l3 + 1 <= l3 + 1 /\ l3 - (l3 + 1) + 1 = 0
  BY <1>2 DEF Tokens
<1>5. Upto(l3 + 1, l3) \in Seq(Tokens) /\ Len(Upto(l3 + 1, l3)) = 0
  BY <1>2, <1>4, UptoProperties
<1>6. Upto(l3 + 1, l3) = <<>>
  BY <1>5, EmptySeq
<1>7. Behind(p)' = l3
  BY <1>2, <1>3
<1> QED BY <1>1, <1>2, <1>6, <1>7 DEF Whole, l3

\* Where the parser is when it looks at a token, and where it is afterwards.
LEMMA Parsed ==
  ASSUME Typed, NEW p \in Peers, Process(p), p \notin Raw, Whole(Other(p)), InStep(Other(p)), ~torn
  PROVE  InStep(Other(p))' /\ ~torn'
<1> DEFINE q == Other(p)
           b == Behind(q)
<1>1. q \in Peers /\ Other(q) = p /\ p # q /\ VariablesTyped /\ chunk[p] # <<>>
  BY PeerFacts DEF Typed, Process
<1>2. VariablesTyped' /\ LooksAt(q)
  BY ProcessStep
<1>3. Behind(q)' = b + 1 /\ Head(Stream(q)) = b + 1 /\ b \in Nat
  BY <1>1, <1>2, WholeLookedAt, BehindTyped
<1>4. Token(p) = b + 1
  BY <1>1, <1>3, TokenIsKnown
<1>5. partial \in [Peers -> BOOLEAN] /\ ignore \in [Peers -> BOOLEAN]
  BY <1>1 DEF VariablesTyped
<1>6. \/ b % 3 = 0 /\ ~partial[p] /\ ~ignore[p]
      \/ b % 3 = 1 /\ partial[p] # ignore[p]
      \/ b % 3 = 2 /\ ~partial[p] /\ ignore[p]
  BY <1>1 DEF InStep
<1>7. log'[q][(b + 1 + 2) \div 3] = Of(p)
  BY <1>2, <1>4 DEF LooksAt, Of
<1>8. Begins(p) \/ Completes(p) \/ Fails(p) \/ Skips(p)
  BY DEF Process
<1>9. SUFFICES /\ ~torn'
               /\ \/ (b + 1) % 3 = 0 /\ ~partial'[p] /\ ~ignore'[p]
                  \/ /\ (b + 1) % 3 = 1 /\ partial'[p] # ignore'[p]
                     /\ ignore'[p] <=> Of(p).kind = "junk"
                  \/ (b + 1) % 3 = 2 /\ ~partial'[p] /\ ignore'[p]
  BY <1>1, <1>3, <1>7 DEF InStep
<1>10. (Opens(p) <=> (b + 1) % 3 = 1) /\ (Ends(p) <=> (b + 1) % 3 = 0)
  BY <1>4 DEF Opens, Ends
<1> HIDE DEF b, q
<1>11. CASE b % 3 = 0
  <2>1. (b + 1) % 3 = 1 /\ Opens(p) /\ ~Ends(p) /\ ~partial[p] /\ ~ignore[p]
    BY <1>3, <1>6, <1>10, <1>11
  <2>2. CASE Begins(p)
    <3>1. partial'[p] /\ ~ignore'[p] /\ ~torn' /\ Of(p).kind # "junk"
      BY <1>5, <2>1, <2>2 DEF Begins
    <3> QED BY <1>5, <2>1, <3>1
  <2>3. CASE Fails(p)
    <3>1. Of(p).kind = "junk"
      BY <2>1, <2>3 DEF Fails
    <3>2. ~partial'[p] /\ ignore'[p] /\ ~torn'
      BY <1>5, <2>3, <3>1, Zenon DEF Fails
    <3>3. (b + 1) % 3 = 1 /\ partial'[p] # ignore'[p]
      BY <2>1, <3>2
    <3> QED BY <3>1, <3>2, <3>3
  <2>4. ~Completes(p) /\ ~Skips(p)
    BY <2>1 DEF Completes, Skips
  <2> QED BY <1>8, <2>2, <2>3, <2>4
<1>12. CASE b % 3 = 1
  <2>1. (b + 1) % 3 = 2 /\ ~Opens(p) /\ ~Ends(p) /\ partial[p] # ignore[p]
    BY <1>3, <1>6, <1>10, <1>12
  <2>2. CASE Skips(p)
    <3>1. ignore[p] = TRUE /\ partial[p] = FALSE
      BY <1>5, <2>1, <2>2 DEF Skips
    <3>2. ignore'[p] /\ partial'[p] = FALSE /\ ~torn'
      BY <1>5, <2>1, <2>2, <3>1, Zenon DEF Skips
    <3> QED BY <2>1, <3>2
  <2>3. CASE Completes(p)
    <3>1. partial'[p] = FALSE /\ ignore'[p] = TRUE /\ torn' = torn
      BY <1>5, <2>3 DEF Completes
    <3> QED BY <2>1, <3>1, <1>3
  <2>4. CASE Fails(p)
    <3>1. ~ignore[p] /\ partial[p] = TRUE
      BY <1>5, <2>1, <2>4 DEF Fails
    <3>2. Of(p).kind = "junk"
      BY <2>1, <2>4, <3>1 DEF Fails
    <3>3. partial'[p] = FALSE /\ ignore'[p] = TRUE /\ ~torn'
      BY <1>5, <2>4, <3>2, Zenon DEF Fails
    <3> QED BY <2>1, <3>3, <1>3
  <2>5. ~Begins(p)
    BY <2>1 DEF Begins
  <2> QED BY <1>8, <2>2, <2>3, <2>4, <2>5
<1>13. CASE b % 3 = 2
  <2>1. (b + 1) % 3 = 0 /\ ~Opens(p) /\ Ends(p) /\ ~partial[p] /\ ignore[p]
    BY <1>3, <1>6, <1>10, <1>13
  <2> QED BY <1>5, <1>8, <2>1 DEF Begins, Completes, Fails, Skips
<1> QED BY <1>6, <1>11, <1>12, <1>13

LEMMA BehindKept ==
  ASSUME VariablesTyped, VariablesTyped', NEW p \in Peers, Whole(p),
         Keeps(p) \/ \E m \in Messages : Sends(p, m)
  PROVE  Whole(p)' /\ Behind(p)' = Behind(p)
BY WholeKept, WholeSaid DEF Sends

\* Steps of the two peers that are not the parser's.
Talks(p) == \/ CanSend(p) \/ CloseAfterSend(p) \/ SendRequest(p) \/ SendNotification(p)
            \/ Answer(p) \/ SendJunk(p) \/ Receive(p) \/ HangUp(p)

LEMMA TalksStep ==
  ASSUME VariablesTyped, NEW p \in Peers, Talks(p)
  PROVE  /\ VariablesTyped' /\ UNCHANGED parsing /\ Keeps(Other(p))
         /\ Keeps(p) \/ \E m \in Messages : Sends(p, m)
<1>1. CASE CanSend(p)
  BY <1>1, CanSendStep, PeerFacts DEF CanSend
<1>2. CASE CloseAfterSend(p)
  BY <1>2, CloseAfterSendStep, PeerFacts DEF CloseAfterSend
<1>3. CASE SendRequest(p)
  BY <1>3, SendRequestStep DEF SendRequest
<1>4. CASE SendNotification(p)
  BY <1>4, SendNotificationStep DEF SendNotification
<1>5. CASE Answer(p)
  BY <1>5, AnswerStep DEF Answer
<1>6. CASE SendJunk(p)
  BY <1>6, SendJunkStep DEF SendJunk
<1>7. CASE Receive(p)
  BY <1>7, ReceiveStep, PeerFacts DEF Receive
<1>8. CASE HangUp(p)
  BY <1>8, HangUpStep, PeerFacts DEF HangUp
<1> QED BY <1>1, <1>2, <1>3, <1>4, <1>5, <1>6, <1>7, <1>8 DEF Talks

LEMMA NextCases ==
  ASSUME [Next]_vars
  PROVE  (\E p \in Peers : Talks(p) \/ Process(p)) \/ Reconnect \/ UNCHANGED vars
BY DEF Next, Talks

LEMMA StreamInvInit == Init => StreamInv
<1> SUFFICES ASSUME Init PROVE ~torn /\ \A p \in Peers : Whole(p) /\ InStep(p)
  BY DEF StreamInv
<1> SUFFICES ASSUME NEW p \in Peers PROVE Whole(p) /\ InStep(p)
  BY DEF Init
<1>1. VariablesTyped /\ Other(p) \in Peers
  BY TypedInit, PeerFacts DEF Typed
<1>2. ~partial[Other(p)] /\ ~ignore[Other(p)]
  BY <1>1 DEF Init
<1>3. log[p] = <<>> /\ chunk[Other(p)] = <<>> /\ wire[p] = <<>> /\ buffer[p] = <<>> /\ Len(<<>>) = 0
  BY <1>1, EmptySeq DEF Init
<1>4. Len(Stream(p)) = 0 + 0 + 0 /\ Stream(p) \in Seq(Tokens)
  BY <1>1, <1>3, StreamTyped, Zenon
<1>5. Stream(p) = <<>> /\ Behind(p) = 3 * 0 - 0
  BY <1>3, <1>4, EmptySeq DEF Behind
<1>6. Upto(1, 0) \in Seq(Tokens) /\ Len(Upto(1, 0)) = 0
  <2>1. 1 \in Tokens /\ 1 <= 0 + 1 /\ 0 - 1 + 1 = 0 /\ 0 \in Nat
    BY DEF Tokens
  <2> QED BY <2>1, UptoProperties
<1>7. Upto(1, 0) = <<>>
  BY <1>6, EmptySeq
<1>8. Behind(p) = 0 /\ 0 + 1 = 1 /\ 3 * Len(log[p]) = 0
  BY <1>3, <1>5
<1>9. Whole(p)
  BY <1>5, <1>7, <1>8 DEF Whole
<1> QED BY <1>2, <1>8, <1>9 DEF InStep

LEMMA StreamInvStep ==
  ASSUME CarefulPeers, Typed, StreamInv, [Next]_vars
  PROVE  StreamInv'
<1>1. VariablesTyped /\ ~torn /\ \A p \in Peers : Whole(p) /\ InStep(p)
  BY DEF Typed, StreamInv
<1>2. VariablesTyped'
  BY TypedStep DEF Typed
<1>3. ASSUME NEW p \in Peers, Behind(p)' = Behind(p), Keeps(p) \/ \E m \in Messages : Sends(p, m),
             partial'[Other(p)] = partial[Other(p)], ignore'[Other(p)] = ignore[Other(p)]
      PROVE  InStep(p)'
  <2> DEFINE b == Behind(p)
             k == (b + 2) \div 3
  <2>1. InStep(p) /\ b \in Nat /\ Len(log[p]) \in Nat /\ b <= 3 * Len(log[p])
    BY <1>1, BehindTyped
  <2>2. b % 3 = 1 => log'[p][k] = log[p][k]
    <3>1. b % 3 = 1 => k \in 1..Len(log[p])
      BY <2>1
    <3>2. CASE log'[p] = log[p]
      BY <3>2
    <3>3. CASE \E m \in Messages : log'[p] = Append(log[p], m)
      BY <1>1, <3>1, <3>3, LogGrows
    <3> QED BY <1>3, <3>2, <3>3 DEF Keeps, Sends, Says
  <2>3. Behind(p)' = b
    BY <1>3
  <2> HIDE DEF b
  <2>4. \/ b % 3 = 0 /\ ~partial[Other(p)] /\ ~ignore[Other(p)]
        \/ /\ b % 3 = 1 /\ partial[Other(p)] # ignore[Other(p)]
           /\ ignore[Other(p)] <=> log[p][k].kind = "junk"
        \/ b % 3 = 2 /\ ~partial[Other(p)] /\ ignore[Other(p)]
    BY <2>1 DEF InStep, b
  <2> HIDE DEF k
  <2>5. \/ b % 3 = 0 /\ ~partial'[Other(p)] /\ ~ignore'[Other(p)]
        \/ /\ b % 3 = 1 /\ partial'[Other(p)] # ignore'[Other(p)]
           /\ ignore'[Other(p)] <=> log'[p][k].kind = "junk"
        \/ b % 3 = 2 /\ ~partial'[Other(p)] /\ ignore'[Other(p)]
    BY <1>3, <2>2, <2>4, Zenon
  <2> QED BY <2>3, <2>5, Zenon DEF InStep, k
<1>4. ASSUME NEW p \in Peers, Talks(p) PROVE StreamInv'
  <2>1. UNCHANGED parsing /\ \A r \in Peers : Keeps(r) \/ \E m \in Messages : Sends(r, m)
    BY <1>1, <1>4, TalksStep, PeerFacts
  <2>2. \A r \in Peers : Whole(r)' /\ Behind(r)' = Behind(r)
    BY <1>1, <1>2, <2>1, BehindKept
  <2>3. \A r \in Peers : InStep(r)'
    BY <1>3, <2>1, <2>2 DEF parsing
  <2> QED BY <1>1, <2>1, <2>2, <2>3 DEF StreamInv, parsing
<1>5. ASSUME NEW p \in Peers, Process(p) PROVE StreamInv'
  <2> DEFINE q == Other(p)
  <2>1. q \in Peers /\ Other(q) = p /\ p # q /\ \A r \in Peers : r = p \/ r = q
    BY PeerFacts
  <2>2. p \notin Raw
    BY DEF CarefulPeers
  <2>3. InStep(q)' /\ ~torn'
    BY <1>1, <1>5, <2>1, <2>2, Parsed
  <2>4. LooksAt(q) /\ (Keeps(p) \/ \E m \in Messages : Sends(p, m))
    BY <1>5, ProcessStep
  <2>5. Whole(q)'
    BY <1>1, <1>2, <2>1, <2>4, WholeLookedAt
  <2>6. Whole(p)' /\ Behind(p)' = Behind(p)
    BY <1>1, <1>2, <2>4, BehindKept
  <2>7. partial'[q] = partial[q] /\ ignore'[q] = ignore[q]
    BY <1>1, <1>5, <2>1 DEF Process, ReadsLine, Begins, Completes, Fails, Skips, VariablesTyped
  <2>8. InStep(p)'
    BY <1>3, <2>4, <2>6, <2>7
  <2> HIDE DEF q
  <2> QED BY <2>1, <2>3, <2>5, <2>6, <2>8 DEF StreamInv
<1>6. ASSUME Reconnect PROVE StreamInv'
  <2>1. ~CarriesOver /\ 1 \in Peers /\ 2 \in Peers /\ \A p \in Peers : p = 1 \/ p = 2
    BY DEF CarefulPeers, Peers
  <2>2. \A p \in Peers : Loses(p)
    BY <1>1, <1>6, <2>1, ReconnectStep
  <2>3. ~torn' /\ \A p \in Peers : ~partial'[p] /\ ~ignore'[p]
    BY <1>1, <1>6, <2>1 DEF Reconnect, VariablesTyped
  <2>4. \A p \in Peers : Whole(p)' /\ Behind(p)' = 3 * Len(log[p]) /\ Len(log[p]) \in Nat
    BY <1>1, <1>2, <2>2, WholeLost, LenProperties DEF VariablesTyped
  <2>5. ASSUME NEW p \in Peers PROVE InStep(p)'
    <3>1. Behind(p)' % 3 = 0
      BY <2>4
    <3> QED BY <2>3, <3>1, PeerFacts DEF InStep
  <2> QED BY <2>3, <2>4, <2>5 DEF StreamInv
<1>7. ASSUME UNCHANGED vars PROVE StreamInv'
  BY <1>1, <1>7 DEF vars, StreamInv, Whole, InStep, Behind, Stream
<1> QED BY <1>4, <1>5, <1>6, <1>7, NextCases

-----------------------------------------------------------------------------
(* What is on its way *)

LEMMA ComingFinite ==
  ASSUME VariablesTyped, NEW p \in Peers, Whole(p)
  PROVE  /\ DOMAIN log[p] = 1..Len(log[p]) /\ IsFiniteSet(DOMAIN log[p])
         /\ \A kind, id : /\ IsFiniteSet(Transit(p, kind, id)) /\ Number(p, kind, id) \in Nat
                          /\ Transit(p, kind, id) \subseteq Coming(p)
         /\ Coming(p) \subseteq 1..Len(log[p])
<1>1. Len(log[p]) \in Nat /\ DOMAIN log[p] = 1..Len(log[p])
  BY LenProperties DEF VariablesTyped
<1>2. IsFiniteSet(1..Len(log[p]))
  BY <1>1, FS_Interval
<1>3. ASSUME NEW kind, NEW id
      PROVE  /\ IsFiniteSet(Transit(p, kind, id)) /\ Number(p, kind, id) \in Nat
             /\ Transit(p, kind, id) \subseteq Coming(p)
  <2>1. Transit(p, kind, id) \in SUBSET (1..Len(log[p]))
    BY <1>1 DEF Transit, Coming
  <2>2. IsFiniteSet(Transit(p, kind, id))
    BY <1>2, <2>1, FS_Subset
  <2> QED BY <2>2, FS_CardinalityType DEF Number, Transit
<1> QED BY <1>1, <1>2, <1>3 DEF Coming

LEMMA ComingKept ==
  ASSUME VariablesTyped, NEW p \in Peers, log'[p] = log[p], Behind(p)' = Behind(p)
  PROVE  Coming(p)' = Coming(p) /\ \A kind, id : Number(p, kind, id)' = Number(p, kind, id)
BY DEF Coming, Number, Transit

LEMMA ComingSaid ==
  ASSUME VariablesTyped, NEW p \in Peers, NEW m \in Messages, Whole(p),
         log'[p] = Append(log[p], m), Behind(p)' = Behind(p)
  PROVE  /\ Coming(p)' = Coming(p) \cup {Len(log[p]) + 1}
         /\ \A n \in Coming(p) : log'[p][n] = log[p][n]
         /\ log'[p][Len(log[p]) + 1] = m
         /\ \A kind, id :
              Number(p, kind, id)' = Number(p, kind, id) + One(m = Message(kind, id))
<1> DEFINE n == Len(log[p]) + 1
           b == Behind(p)
<1>1. /\ Len(log[p]) \in Nat /\ DOMAIN log[p] = 1..Len(log[p]) /\ DOMAIN log'[p] = 1..n
      /\ \A i \in 1..Len(log[p]) : log'[p][i] = log[p][i]
      /\ log'[p][n] = m
  BY LogGrows
<1>2. b \in Nat /\ b <= 3 * Len(log[p])
  BY BehindTyped
<1>3. 3 * n - 1 > b /\ n \notin 1..Len(log[p])
  BY <1>1, <1>2
<1>4. Coming(p) = {i \in 1..Len(log[p]) : 3 * i - 1 > b}
  BY <1>1 DEF Coming
<1>5. Coming(p)' = {i \in 1..n : 3 * i - 1 > b}
  BY <1>1 DEF Coming
<1> HIDE DEF b
<1>6. 1..n = (1..Len(log[p])) \cup {n}
  BY <1>1
<1> HIDE DEF n
<1>7. Coming(p)' = Coming(p) \cup {n} /\ n \notin Coming(p)
  BY <1>3, <1>4, <1>5, <1>6
<1>8. \A i \in Coming(p) : log'[p][i] = log[p][i]
  BY <1>1, <1>4
<1>9. ASSUME NEW kind, NEW id
      PROVE  Number(p, kind, id)' = Number(p, kind, id) + One(m = Message(kind, id))
  <2> DEFINE T == Transit(p, kind, id)
  <2>1. IsFiniteSet(T) /\ n \notin T /\ Cardinality(T) \in Nat
    BY <1>7, ComingFinite DEF Number
  <2>2. CASE m = Message(kind, id)
    <3>1. Transit(p, kind, id)' = T \cup {n}
      BY <1>1, <1>7, <1>8, <2>2 DEF Transit
    <3>2. Cardinality(T \cup {n}) = Cardinality(T) + 1
      BY <2>1, FS_AddElement
    <3> QED BY <2>2, <3>1, <3>2 DEF Number, One
  <2>3. CASE m # Message(kind, id)
    <3>1. Transit(p, kind, id)' = T
      BY <1>1, <1>7, <1>8, <2>3 DEF Transit
    <3> QED BY <2>1, <2>3, <3>1 DEF Number, One
  <2> QED BY <2>2, <2>3
<1> QED BY <1>1, <1>7, <1>8, <1>9 DEF n

\* The end of an object has not been reached, ...
LEMMA ComingStays ==
  ASSUME VariablesTyped, NEW p \in Peers, Whole(p), log'[p] = log[p], Behind(p)' = Behind(p) + 1,
         Behind(p) % 3 # 1
  PROVE  Coming(p)' = Coming(p) /\ \A kind, id : Number(p, kind, id)' = Number(p, kind, id)
<1> DEFINE b == Behind(p)
<1>1. b \in Nat /\ DOMAIN log[p] = 1..Len(log[p]) /\ Len(log[p]) \in Nat /\ b % 3 # 1
  BY BehindTyped, ComingFinite
<1>2. Coming(p) = {i \in 1..Len(log[p]) : 3 * i - 1 > b}
  BY <1>1 DEF Coming
<1>3. Coming(p)' = {i \in 1..Len(log[p]) : 3 * i - 1 > b + 1}
  BY <1>1 DEF Coming
<1> HIDE DEF b
<1>4. \A i \in 1..Len(log[p]) : 3 * i - 1 > b <=> 3 * i - 1 > b + 1
  <2> SUFFICES ASSUME NEW i \in 1..Len(log[p]) PROVE 3 * i - 1 # b + 1
    BY <1>1
  <2> QED BY <1>1
<1>5. Coming(p)' = Coming(p)
  BY <1>2, <1>3, <1>4
<1> QED BY <1>5 DEF Number, Transit

\* or it has, and that message has come.
LEMMA ComingCame ==
  ASSUME VariablesTyped, NEW p \in Peers, Whole(p), log'[p] = log[p], Behind(p)' = Behind(p) + 1,
         Behind(p) % 3 = 1
  PROVE  LET k == (Behind(p) + 2) \div 3
         IN /\ k \in Coming(p) /\ Coming(p)' = Coming(p) \ {k}
            /\ \A kind, id :
                 Number(p, kind, id)' = Number(p, kind, id) - One(log[p][k] = Message(kind, id))
<1> DEFINE b == Behind(p)
           k == (b + 2) \div 3
<1>1. /\ b \in Nat /\ DOMAIN log[p] = 1..Len(log[p]) /\ Len(log[p]) \in Nat /\ b % 3 = 1
      /\ b <= 3 * Len(log[p])
  BY BehindTyped, ComingFinite
<1>2. Coming(p) = {i \in 1..Len(log[p]) : 3 * i - 1 > b}
  BY <1>1 DEF Coming
<1>3. Coming(p)' = {i \in 1..Len(log[p]) : 3 * i - 1 > b + 1}
  BY <1>1 DEF Coming
<1> HIDE DEF b
<1>4. k \in 1..Len(log[p]) /\ 3 * k - 1 = b + 1
  BY <1>1
<1> HIDE DEF k
<1>5. \A i \in 1..Len(log[p]) : 3 * i - 1 > b + 1 <=> 3 * i - 1 > b /\ i # k
  BY <1>1, <1>4
<1>6. k \in Coming(p) /\ Coming(p)' = Coming(p) \ {k}
  <2>1. 3 * k - 1 > b
    BY <1>1, <1>4
  <2>2. k \in Coming(p)
    BY <1>2, <1>4, <2>1, Zenon
  <2>3. Coming(p)' = Coming(p) \ {k}
    BY <1>2, <1>3, <1>5, Zenon
  <2> QED BY <2>2, <2>3
<1>7. ASSUME NEW kind, NEW id
      PROVE  Number(p, kind, id)' = Number(p, kind, id) - One(log[p][k] = Message(kind, id))
  <2> DEFINE T == Transit(p, kind, id)
  <2>1. IsFiniteSet(T) /\ Cardinality(T) \in Nat
    BY ComingFinite DEF Number
  <2>2. Transit(p, kind, id)' = T \ {k}
    BY <1>6 DEF Transit
  <2>3. Cardinality(T \ {k}) = IF k \in T THEN Cardinality(T) - 1 ELSE Cardinality(T)
    BY <2>1, FS_RemoveElement
  <2>4. k \in T <=> log[p][k] = Message(kind, id)
    BY <1>6 DEF Transit
  <2> QED BY <2>1, <2>2, <2>3, <2>4 DEF Number, One
<1> QED BY <1>6, <1>7 DEF b, k

LEMMA ComingLost ==
  ASSUME VariablesTyped, NEW p \in Peers, log'[p] = log[p], Behind(p)' = 3 * Len(log[p])
  PROVE  Coming(p)' = {} /\ \A kind, id : Number(p, kind, id)' = 0
<1>1. Len(log[p]) \in Nat /\ DOMAIN log[p] = 1..Len(log[p])
  BY LenProperties DEF VariablesTyped
<1>2. \A i \in DOMAIN log[p] : ~(3 * i - 1 > 3 * Len(log[p]))
  BY <1>1
<1>3. Coming(p)' = {}
  BY <1>2 DEF Coming
<1>4. ASSUME NEW kind, NEW id PROVE Number(p, kind, id)' = 0
  <2>1. Transit(p, kind, id)' = {}
    BY <1>3 DEF Transit
  <2> QED BY <2>1, FS_EmptySet DEF Number
<1> QED BY <1>3, <1>4

-----------------------------------------------------------------------------
(* Requests and answers *)

LEMMA MessageFacts ==
  /\ \A k, i, l, j : Message(k, i) = Message(l, j) <=> k = l /\ i = j
  /\ \A k, i : Message(k, i).kind = k /\ Message(k, i).id = i
  /\ \A m \in Messages : m = Message(m.kind, m.id) /\ m.kind \in Kinds /\ m.id \in Ids
BY DEF Message, Messages

LEMMA OneFacts == \A b \in BOOLEAN : One(b) \in {0, 1} /\ (One(b) = 1 <=> b)
BY DEF One

\* There is nothing with an id that has not been given out yet.
LEMMA UnknownIsNowhere ==
  ASSUME Typed, StreamInv, MatchInv, NEW p \in Peers, NEW id, id \notin 1..counter[p]
  PROVE  /\ Number(p, "request", id) = 0 /\ Number(Other(p), "answer", id) = 0
         /\ id \notin todo[Other(p)] /\ id \notin pending[p] /\ id \notin lost[p]
<1> DEFINE q == Other(p)
<1>1. q \in Peers /\ Other(q) = p
  BY PeerFacts
<1>2. KnownIds(p) /\ KnownIds(q)
  BY <1>1 DEF MatchInv
<1>3. Transit(p, "request", id) = {}
  <2>1. ASSUME NEW n \in Coming(p) PROVE log[p][n] # Message("request", id)
    BY <1>2, <2>1, MessageFacts DEF KnownIds
  <2> QED BY <2>1 DEF Transit
<1>4. Transit(q, "answer", id) = {}
  <2>1. ASSUME NEW n \in Coming(q) PROVE log[q][n] # Message("answer", id)
    BY <1>1, <1>2, <2>1, MessageFacts DEF KnownIds
  <2> QED BY <2>1 DEF Transit
<1>5. id \notin todo[q] /\ id \notin pending[p] /\ id \notin lost[p]
  BY <1>2 DEF KnownIds, Typed
<1> QED BY <1>3, <1>4, <1>5, FS_EmptySet DEF Number

LEMMA AllBalanced ==
  ASSUME Typed, StreamInv, MatchInv, NEW p \in Peers, NEW id
  PROVE  /\ Balanced(p, id) /\ Number(p, "request", id) \in Nat /\ Number(Other(p), "answer", id) \in Nat
<1>1. /\ Number(p, "request", id) \in Nat /\ Number(Other(p), "answer", id) \in Nat
  BY PeerFacts, ComingFinite DEF Typed, StreamInv
<1>2. CASE id \in 1..counter[p]
  BY <1>1, <1>2 DEF MatchInv
<1>3. CASE id \notin 1..counter[p]
  BY <1>1, <1>3, UnknownIsNowhere DEF Balanced, Places, Waits, One
<1> QED BY <1>1, <1>2, <1>3

\* A message that is sent is one more on its way, or is dropped.
LEMMA CountsSent ==
  ASSUME VariablesTyped, VariablesTyped', NEW p \in Peers, NEW m \in Messages, Whole(p), Sends(p, m)
  PROVE  /\ \A n \in Coming(p)' : (n \in Coming(p) /\ log'[p][n] = log[p][n]) \/ log'[p][n] = m
         /\ \A kind, id :
              /\ Number(p, kind, id) \in Nat /\ Number(p, kind, id)' \in Nat
              /\ Number(p, kind, id) <= Number(p, kind, id)'
              /\ Number(p, kind, id)' <= Number(p, kind, id) + One(m = Message(kind, id))
              /\ ~Blocks => Number(p, kind, id)' = Number(p, kind, id) + One(m = Message(kind, id))
<1>1. \A kind, id : Number(p, kind, id) \in Nat /\ One(m = Message(kind, id)) \in {0, 1}
  BY ComingFinite DEF One
<1>2. CASE Says(p, m)
  <2>1. log'[p] = Append(log[p], m) /\ Behind(p)' = Behind(p)
    BY <1>2, WholeSaid DEF Says
  <2>2. /\ Coming(p)' = Coming(p) \cup {Len(log[p]) + 1}
        /\ \A n \in Coming(p) : log'[p][n] = log[p][n]
        /\ log'[p][Len(log[p]) + 1] = m
        /\ \A kind, id : Number(p, kind, id)' = Number(p, kind, id) + One(m = Message(kind, id))
    BY <2>1, ComingSaid
  <2>3. \A n \in Coming(p)' : (n \in Coming(p) /\ log'[p][n] = log[p][n]) \/ log'[p][n] = m
    BY <2>2
  <2>4. ASSUME NEW kind, NEW id
        PROVE  /\ Number(p, kind, id) \in Nat /\ Number(p, kind, id)' \in Nat
               /\ Number(p, kind, id) <= Number(p, kind, id)'
               /\ Number(p, kind, id)' = Number(p, kind, id) + One(m = Message(kind, id))
    <3> DEFINE x == Number(p, kind, id)
               o == One(m = Message(kind, id))
    <3>1. x \in Nat /\ o \in {0, 1} /\ Number(p, kind, id)' = x + o
      BY <1>1, <2>2
    <3> HIDE DEF x, o
    <3>2. x + o \in Nat /\ x <= x + o
      BY <3>1
    <3> QED BY <3>1, <3>2 DEF x, o
  <2> QED BY <2>3, <2>4
<1>3. CASE Blocks /\ Keeps(p)
  <2>1. log'[p] = log[p] /\ Behind(p)' = Behind(p)
    BY <1>3, WholeKept DEF Keeps
  <2>2. Coming(p)' = Coming(p) /\ \A kind, id : Number(p, kind, id)' = Number(p, kind, id)
    BY <2>1, ComingKept
  <2>3. \A n \in Coming(p)' : n \in Coming(p) /\ log'[p][n] = log[p][n]
    BY <2>1, <2>2
  <2>4. ASSUME NEW kind, NEW id
        PROVE  /\ Number(p, kind, id) \in Nat /\ Number(p, kind, id)' \in Nat
               /\ Number(p, kind, id) <= Number(p, kind, id)'
               /\ Number(p, kind, id)' <= Number(p, kind, id) + One(m = Message(kind, id))
    <3> DEFINE x == Number(p, kind, id)
               o == One(m = Message(kind, id))
    <3>1. x \in Nat /\ o \in {0, 1} /\ Number(p, kind, id)' = x
      BY <1>1, <2>2
    <3> HIDE DEF x, o
    <3>2. x <= x /\ x <= x + o
      BY <3>1
    <3> QED BY <3>1, <3>2 DEF x, o
  <2> QED BY <1>3, <2>3, <2>4
<1> QED BY <1>2, <1>3 DEF Sends

LEMMA CountsKept ==
  ASSUME VariablesTyped, VariablesTyped', NEW p \in Peers, Whole(p), Keeps(p)
  PROVE  /\ Coming(p)' = Coming(p) /\ log'[p] = log[p]
         /\ \A kind, id : Number(p, kind, id)' = Number(p, kind, id)
BY WholeKept, ComingKept DEF Keeps

\* What the parser looks at: the end of an object has come, or nothing has.
LEMMA CountsLookedAt ==
  ASSUME Typed, VariablesTyped', NEW p \in Peers, chunk[p] # <<>>, Whole(Other(p)), LooksAt(Other(p))
  PROVE  LET q == Other(p)
             came == Behind(q) % 3 = 1
             k == (Behind(q) + 2) \div 3
         IN /\ Coming(q)' \subseteq Coming(q) /\ log'[q] = log[q]
            /\ came => k \in Coming(q) /\ log[q][k] = Of(p)
            /\ \A kind, id :
                 /\ ~came => Number(q, kind, id)' = Number(q, kind, id)
                 /\ came => Number(q, kind, id)' = Number(q, kind, id) - One(Of(p) = Message(kind, id))
<1> DEFINE q == Other(p)
           b == Behind(q)
           k == (b + 2) \div 3
<1>1. q \in Peers /\ VariablesTyped
  BY PeerFacts DEF Typed
<1>2. log'[q] = log[q] /\ Behind(q)' = b + 1 /\ b \in Nat /\ Head(Stream(q)) = b + 1
  BY <1>1, WholeLookedAt, BehindTyped DEF LooksAt
<1>3. CASE b % 3 # 1
  <2>1. Coming(q)' = Coming(q) /\ \A kind, id : Number(q, kind, id)' = Number(q, kind, id)
    BY <1>1, <1>2, <1>3, ComingStays
  <2> QED BY <1>2, <1>3, <2>1
<1>4. CASE b % 3 = 1
  <2>1. /\ k \in Coming(q) /\ Coming(q)' = Coming(q) \ {k}
        /\ \A kind, id : Number(q, kind, id)' = Number(q, kind, id) - One(log[q][k] = Message(kind, id))
    BY <1>1, <1>2, <1>4, ComingCame
  <2>2. Token(p) = b + 1
    BY <1>2, TokenIsKnown
  <2>3. (Token(p) + 2) \div 3 = k
    <3> HIDE DEF b
    <3> QED BY <1>2, <1>4, <2>2
  <2>4. log[q][k] = Of(p)
    BY <2>3 DEF Of
  <2> QED BY <1>2, <1>4, <2>1, <2>4
<1> QED BY <1>3, <1>4

LEMMA MatchQuiet ==
  ASSUME Typed, VariablesTyped', StreamInv, MatchInv, \A r \in Peers : Keeps(r),
         UNCHANGED <<pending, counter, todo, lost>>
  PROVE  MatchInv'
<1>1. \A r \in Peers : /\ Coming(r)' = Coming(r) /\ log'[r] = log[r]
                       /\ \A kind, id : Number(r, kind, id)' = Number(r, kind, id)
  BY CountsKept DEF Typed, StreamInv
<1>2. \A r \in Peers : Other(r) \in Peers
  BY PeerFacts
<1>3. ASSUME NEW r \in Peers PROVE KnownIds(r)'
  BY <1>1, <1>2 DEF MatchInv, KnownIds
<1>4. ASSUME NEW r \in Peers, NEW id \in 1..counter[r] PROVE Balanced(r, id)'
  <2>1. Places(r, id)' = Places(r, id) /\ Waits(r, id)' = Waits(r, id)
    BY <1>1, <1>2 DEF Places, Waits, One
  <2> QED BY <2>1 DEF MatchInv, Balanced
<1> QED BY <1>3, <1>4 DEF MatchInv

LEMMA MatchRequest ==
  ASSUME Typed, VariablesTyped', StreamInv, MatchInv, NEW p \in Peers, SendRequest(p)
  PROVE  MatchInv'
<1> DEFINE q == Other(p)
           c == counter[p] + 1
           m == Message("request", c)
<1>1. q \in Peers /\ Other(q) = p /\ p # q /\ \A r \in Peers : r = p \/ r = q
  BY PeerFacts
<1>2. VariablesTyped /\ Whole(p) /\ Whole(q) /\ KnownIds(p) /\ KnownIds(q) /\ lost[2] = {}
  BY <1>1 DEF Typed, StreamInv, MatchInv
<1>3. /\ m \in Messages /\ Sends(p, m) /\ Keeps(q)
      /\ counter' = [counter EXCEPT ![p] = @ + 1]
      /\ pending' = [pending EXCEPT ![p] = @ \cup {c}]
      /\ todo' = todo /\ lost' = lost
  BY <1>2, SendRequestStep DEF SendRequest, history
<1>4. /\ counter[p] \in Nat /\ counter'[p] = c /\ counter'[q] = counter[q]
      /\ pending'[p] = pending[p] \cup {c} /\ pending'[q] = pending[q]
  BY <1>1, <1>2, <1>3 DEF VariablesTyped
<1>5. /\ \A n \in Coming(p)' : (n \in Coming(p) /\ log'[p][n] = log[p][n]) \/ log'[p][n] = m
      /\ \A kind, id :
           /\ Number(p, kind, id) \in Nat /\ Number(p, kind, id)' \in Nat
           /\ Number(p, kind, id) <= Number(p, kind, id)'
           /\ Number(p, kind, id)' <= Number(p, kind, id) + One(m = Message(kind, id))
           /\ ~Blocks => Number(p, kind, id)' = Number(p, kind, id) + One(m = Message(kind, id))
  <2> HIDE DEF m
  <2> QED BY <1>2, <1>3, CountsSent
<1>6. /\ Coming(q)' = Coming(q) /\ log'[q] = log[q]
      /\ \A kind, id : Number(q, kind, id)' = Number(q, kind, id)
  BY <1>1, <1>2, <1>3, CountsKept
<1>7. m.kind = "request" /\ m.id = c
  BY MessageFacts
<1>8. 1..counter[p] \subseteq 1..c /\ c \in 1..c /\ c \notin 1..counter[p]
  BY <1>4
<1>9. KnownIds(p)' /\ KnownIds(q)'
  <2> HIDE DEF m, c, q
  <2>1. KnownIds(p)'
    BY <1>1, <1>2, <1>3, <1>4, <1>5, <1>7, <1>8 DEF KnownIds, q
  <2>2. KnownIds(q)'
    BY <1>1, <1>2, <1>3, <1>4, <1>6, <1>8 DEF KnownIds
  <2> QED BY <2>1, <2>2
<1>10. ASSUME NEW id \in 1..counter'[p] PROVE Balanced(p, id)'
  <2>1. /\ Balanced(p, id) /\ Number(p, "request", id) \in Nat /\ Number(q, "answer", id) \in Nat
    BY AllBalanced
  <2>2. CASE id # c
    <3>1. m # Message("request", id)
      BY <2>2, MessageFacts
    <3>2. Number(p, "request", id)' = Number(p, "request", id)
      BY <1>5, <3>1 DEF One
    <3>3. Places(p, id)' = Places(p, id)
      BY <1>3, <1>6, <3>2 DEF Places
    <3>4. Waits(p, id)' = Waits(p, id)
      BY <1>3, <1>4, <2>2 DEF Waits
    <3> QED BY <2>1, <3>3, <3>4 DEF Balanced
  <2>3. CASE id = c
    <3>1. /\ Number(p, "request", id) = 0 /\ Number(q, "answer", id) = 0
          /\ id \notin todo[q] /\ id \notin lost[p]
      BY <1>8, <2>3, UnknownIsNowhere
    <3>2. One(m = Message("request", id)) = 1
      BY <2>3 DEF One
    <3>3. /\ Number(p, "request", id)' \in Nat /\ Number(p, "request", id)' <= 1
          /\ ~Blocks => Number(p, "request", id)' = 1
      BY <1>5, <3>1, <3>2
    <3>4. One(id \in todo'[q]) = 0 /\ Number(q, "answer", id)' = 0
      BY <1>3, <1>6, <3>1 DEF One
    <3>5. Waits(p, id)' = 1
      BY <1>3, <1>4, <2>3, <3>1 DEF Waits, One
    <3>6. Places(p, id)' = Number(p, "request", id)'
      BY <3>3, <3>4 DEF Places
    <3> QED BY <3>3, <3>5, <3>6 DEF Balanced
  <2> QED BY <2>2, <2>3
<1>11. ASSUME NEW id \in 1..counter'[q] PROVE Balanced(q, id)'
  <2>1. /\ Balanced(q, id) /\ Number(q, "request", id) \in Nat /\ Number(p, "answer", id) \in Nat
    BY <1>1, AllBalanced
  <2>2. m # Message("answer", id)
    BY MessageFacts
  <2>3. Number(p, "answer", id)' = Number(p, "answer", id)
    BY <1>5, <2>2 DEF One
  <2>4. Places(q, id)' = Places(q, id)
    BY <1>1, <1>3, <1>6, <2>3 DEF Places
  <2>5. Waits(q, id)' = Waits(q, id)
    BY <1>3, <1>4 DEF Waits
  <2> QED BY <2>1, <2>4, <2>5 DEF Balanced
<1>12. lost'[2] = {}
  BY <1>2, <1>3
<1> HIDE DEF q
<1> QED BY <1>1, <1>9, <1>10, <1>11, <1>12 DEF MatchInv

\* Sending what is neither a request nor an answer, and counting an id that is not used.
LEMMA MatchOther ==
  ASSUME Typed, VariablesTyped', StreamInv, MatchInv, NEW p \in Peers, NEW m \in Messages,
         Sends(p, m), Keeps(Other(p)), m.kind \notin {"request", "answer"},
         UNCHANGED <<pending, todo, lost>>, \A r \in Peers : counter'[r] \in {counter[r], counter[r] + 1}
  PROVE  MatchInv'
<1>1. \A r \in Peers : Other(r) \in Peers /\ Other(Other(r)) = r /\ (r = p \/ r = Other(p))
  BY PeerFacts
<1>2. VariablesTyped /\ \A r \in Peers : Whole(r) /\ KnownIds(r)
  BY DEF Typed, StreamInv, MatchInv
<1>3. ASSUME NEW r \in Peers, NEW n \in Coming(r)'
      PROVE  (n \in Coming(r) /\ log'[r][n] = log[r][n]) \/ log'[r][n].kind \notin {"request", "answer"}
  BY <1>1, <1>2, <1>3, CountsSent, CountsKept
<1>4. ASSUME NEW r \in Peers, NEW kind \in {"request", "answer"}, NEW id
      PROVE  Number(r, kind, id)' = Number(r, kind, id)
  <2>1. CASE r = p
    <3>1. m # Message(kind, id)
      BY MessageFacts
    <3>2. One(m = Message(kind, id)) = 0
      BY <3>1 DEF One
    <3>3. /\ Number(p, kind, id) \in Nat /\ Number(p, kind, id)' \in Nat
          /\ Number(p, kind, id) <= Number(p, kind, id)'
          /\ Number(p, kind, id)' <= Number(p, kind, id) + One(m = Message(kind, id))
      BY <1>2, CountsSent
    <3> QED BY <2>1, <3>2, <3>3
  <2>2. CASE r = Other(p)
    BY <1>1, <1>2, <2>2, CountsKept
  <2> QED BY <1>1, <2>1, <2>2
<1>5. ASSUME NEW r \in Peers PROVE 1..counter[r] \subseteq 1..counter'[r]
  <2>1. counter[r] \in Nat /\ (counter'[r] = counter[r] \/ counter'[r] = counter[r] + 1)
    BY <1>2 DEF VariablesTyped
  <2> QED BY <2>1
<1>6. ASSUME NEW r \in Peers PROVE KnownIds(r)'
  BY <1>1, <1>2, <1>3, <1>5 DEF KnownIds
<1>7. ASSUME NEW r \in Peers, NEW id \in 1..counter'[r] PROVE Balanced(r, id)'
  <2>1. Balanced(r, id)
    BY AllBalanced
  <2>2. Places(r, id)' = Places(r, id) /\ Waits(r, id)' = Waits(r, id)
    BY <1>1, <1>4 DEF Places, Waits
  <2> QED BY <2>1, <2>2 DEF Balanced
<1> QED BY <1>6, <1>7 DEF MatchInv

LEMMA MatchAnswer ==
  ASSUME Typed, VariablesTyped', StreamInv, MatchInv, NEW p \in Peers, Answer(p)
  PROVE  MatchInv'
<1> DEFINE q == Other(p)
<1>1. q \in Peers /\ Other(q) = p /\ p # q /\ \A r \in Peers : r = p \/ r = q
  BY PeerFacts
<1>2. VariablesTyped /\ Whole(p) /\ Whole(q) /\ KnownIds(p) /\ KnownIds(q) /\ lost[2] = {}
  BY <1>1 DEF Typed, StreamInv, MatchInv
<1>3. PICK x \in todo[p] :
        /\ todo' = [todo EXCEPT ![p] = @ \ {x}]
        /\ Message("answer", x) \in Messages /\ Sends(p, Message("answer", x))
  BY <1>2, AnswerStep
<1> DEFINE m == Message("answer", x)
<1>4. /\ Keeps(q) /\ counter' = counter /\ pending' = pending /\ lost' = lost
      /\ todo'[p] = todo[p] \ {x} /\ todo'[q] = todo[q]
  <2>1. Keeps(q)
    BY <1>1, <1>2, AnswerStep
  <2>2. counter' = counter /\ pending' = pending /\ lost' = lost
    BY DEF Answer, history
  <2>3. todo'[p] = todo[p] \ {x} /\ todo'[q] = todo[q]
    BY <1>1, <1>2, <1>3, Zenon DEF VariablesTyped
  <2> QED BY <2>1, <2>2, <2>3
<1>5. /\ \A n \in Coming(p)' : (n \in Coming(p) /\ log'[p][n] = log[p][n]) \/ log'[p][n] = m
      /\ \A kind, id :
           /\ Number(p, kind, id) \in Nat /\ Number(p, kind, id)' \in Nat
           /\ Number(p, kind, id) <= Number(p, kind, id)'
           /\ Number(p, kind, id)' <= Number(p, kind, id) + One(m = Message(kind, id))
           /\ ~Blocks => Number(p, kind, id)' = Number(p, kind, id) + One(m = Message(kind, id))
  <2>1. m \in Messages /\ Sends(p, m)
    BY <1>3
  <2> HIDE DEF m
  <2> QED BY <1>2, <2>1, CountsSent
<1>6. /\ Coming(q)' = Coming(q) /\ log'[q] = log[q]
      /\ \A kind, id : Number(q, kind, id)' = Number(q, kind, id)
  BY <1>1, <1>2, <1>4, CountsKept
<1>7. m.kind = "answer" /\ m.id = x /\ x \in 1..counter[q]
  BY <1>1, <1>2, <1>3, MessageFacts DEF KnownIds
<1>8. KnownIds(p)' /\ KnownIds(q)'
  <2> HIDE DEF m, q
  <2>1. KnownIds(p)'
    BY <1>1, <1>2, <1>4, <1>5, <1>7 DEF KnownIds, q
  <2>2. KnownIds(q)'
    BY <1>1, <1>2, <1>4, <1>6 DEF KnownIds
  <2> QED BY <2>1, <2>2
<1>9. ASSUME NEW id \in 1..counter'[p] PROVE Balanced(p, id)'
  <2>1. /\ Balanced(p, id) /\ Number(p, "request", id) \in Nat /\ Number(q, "answer", id) \in Nat
    BY AllBalanced
  <2>2. m # Message("request", id)
    BY MessageFacts
  <2>3. Number(p, "request", id)' = Number(p, "request", id)
    BY <1>5, <2>2 DEF One
  <2>4. Places(p, id)' = Places(p, id)
    BY <1>4, <1>6, <2>3 DEF Places
  <2>5. Waits(p, id)' = Waits(p, id)
    BY <1>4 DEF Waits
  <2> QED BY <2>1, <2>4, <2>5 DEF Balanced
<1>10. ASSUME NEW id \in 1..counter'[q] PROVE Balanced(q, id)'
  <2>1. /\ Balanced(q, id) /\ Number(q, "request", id) \in Nat /\ Number(p, "answer", id) \in Nat
    BY <1>1, AllBalanced
  <2> DEFINE a == Number(q, "request", id)
             b == Number(p, "answer", id)
             c == One(id \in todo[p])
             d == Number(p, "answer", id)'
             e == One(id \in todo'[p])
             o == One(m = Message("answer", id))
             w == Waits(q, id)
  <2>2. m = Message("answer", id) <=> id = x
    BY MessageFacts
  <2>3. e + o = c /\ e \in {0, 1} /\ o \in {0, 1}
    BY <1>3, <1>4, <2>2 DEF One
  <2>4. d \in Nat /\ d <= b + o /\ (~Blocks => d = b + o)
    BY <1>5
  <2>5. Waits(q, id)' = w
    BY <1>4 DEF Waits
  <2>6. Places(q, id) = a + b + c /\ Places(q, id)' = a + d + e
    BY <1>1, <1>6 DEF Places
  <2>7. w \in {0, 1} /\ a \in Nat /\ b \in Nat
    BY <2>1 DEF Waits, One
  <2>8. a + b + c <= w /\ (~Blocks => a + b + c = w)
    BY <2>1, <2>6 DEF Balanced
  <2> HIDE DEF a, b, c, d, e, o, w
  <2>9. a + d + e <= a + b + c /\ (~Blocks => a + d + e = a + b + c)
    BY <2>3, <2>4, <2>7
  <2>10. a + d + e <= w /\ (~Blocks => a + d + e = w)
    <3>1. a + d + e \in Int /\ a + b + c \in Int /\ w \in Int
      BY <2>3, <2>4, <2>7
    <3> DEFINE y == a + d + e
               z == a + b + c
    <3> HIDE DEF y, z
    <3>2. y \in Int /\ z \in Int /\ w \in Int /\ y <= z /\ z <= w /\ (~Blocks => y = z /\ z = w)
      BY <2>8, <2>9, <3>1 DEF y, z
    <3>3. y <= w /\ (~Blocks => y = w)
      BY <3>2
    <3> QED BY <3>3 DEF y
  <2> QED BY <2>5, <2>6, <2>10 DEF Balanced
<1>11. lost'[2] = {}
  BY <1>2, <1>4
<1> HIDE DEF q
<1> QED BY <1>1, <1>8, <1>9, <1>10, <1>11 DEF MatchInv

LEMMA MatchReconnect ==
  ASSUME CarefulPeers, Typed, VariablesTyped', StreamInv, MatchInv, Reconnect
  PROVE  MatchInv'
<1>1. 1 \in Peers /\ 2 \in Peers /\ Other(1) = 2 /\ Other(2) = 1 /\ \A r \in Peers : r = 1 \/ r = 2
  BY DEF Peers, Other
<1>2. VariablesTyped /\ lost[2] = {}
  BY DEF Typed, MatchInv
<1>3. /\ todo' = [todo EXCEPT ![2] = {}] /\ todo[1] = {} /\ pending' = [pending EXCEPT ![2] = {}]
      /\ lost' = [lost EXCEPT ![1] = pending[1]]
  BY DEF Reconnect, CarefulPeers
<1>4. /\ todo'[1] = {} /\ todo'[2] = {} /\ pending'[2] = {} /\ pending'[1] = pending[1]
      /\ lost'[1] = pending[1] /\ lost'[2] = {}
  <2>1. todo'[1] = {} /\ todo'[2] = {}
    BY <1>1, <1>2, <1>3 DEF VariablesTyped
  <2>2. pending'[2] = {} /\ pending'[1] = pending[1]
    BY <1>1, <1>2, <1>3 DEF VariablesTyped
  <2>3. lost'[1] = pending[1] /\ lost'[2] = {}
    BY <1>1, <1>2, <1>3 DEF VariablesTyped
  <2> QED BY <2>1, <2>2, <2>3
<1>5. \A r \in Peers : Coming(r)' = {} /\ \A kind, id : Number(r, kind, id)' = 0
  <2>1. \A r \in Peers : Loses(r)
    BY <1>1, <1>2, ReconnectStep DEF CarefulPeers
  <2>2. \A r \in Peers : log'[r] = log[r] /\ Behind(r)' = 3 * Len(log[r])
    BY <1>2, <2>1, WholeLost DEF Loses
  <2> QED BY <1>2, <2>2, ComingLost
<1>6. ASSUME NEW r \in Peers PROVE KnownIds(r)'
  <2>1. lost'[r] \subseteq pending'[r] /\ todo'[Other(r)] = {}
    BY <1>1, <1>4
  <2> QED BY <1>5, <2>1 DEF KnownIds
<1>7. ASSUME NEW r \in Peers, NEW id PROVE Balanced(r, id)'
  <2>1. pending'[r] \ lost'[r] = {} /\ todo'[Other(r)] = {} /\ Other(r) \in Peers
    BY <1>1, <1>4
  <2>2. Places(r, id)' = 0 + 0 + 0
    BY <1>5, <2>1 DEF Places, One
  <2>3. Waits(r, id)' = 0
    BY <2>1 DEF Waits, One
  <2> QED BY <2>2, <2>3 DEF Balanced
<1> QED BY <1>4, <1>6, <1>7 DEF MatchInv

\* The parser has seen nothing that is a request or an answer.
LEMMA MatchUnheard ==
  ASSUME Typed, VariablesTyped', StreamInv, MatchInv, NEW p \in Peers, chunk[p] # <<>>,
         LooksAt(Other(p)), Behind(Other(p)) % 3 = 1 => Of(p).kind \notin {"request", "answer"},
         Keeps(p) \/ \E m \in Messages : Sends(p, m) /\ m.kind \notin {"request", "answer"},
         UNCHANGED <<pending, counter, todo, lost>>
  PROVE  MatchInv'
<1> DEFINE q == Other(p)
           came == Behind(q) % 3 = 1
<1>1. \A r \in Peers : Other(r) \in Peers /\ Other(Other(r)) = r /\ (r = p \/ r = q)
  BY PeerFacts
<1>2. VariablesTyped /\ \A r \in Peers : Whole(r) /\ KnownIds(r)
  BY DEF Typed, StreamInv, MatchInv
<1>3. /\ Coming(q)' \subseteq Coming(q) /\ log'[q] = log[q]
      /\ \A kind, id :
           /\ ~came => Number(q, kind, id)' = Number(q, kind, id)
           /\ came => Number(q, kind, id)' = Number(q, kind, id) - One(Of(p) = Message(kind, id))
  BY <1>1, <1>2, CountsLookedAt
<1>4. \A n \in Coming(p)' : (n \in Coming(p) /\ log'[p][n] = log[p][n])
                            \/ log'[p][n].kind \notin {"request", "answer"}
  BY <1>2, CountsSent, CountsKept
<1>5. ASSUME NEW kind \in {"request", "answer"}, NEW id
      PROVE  Number(p, kind, id)' = Number(p, kind, id)
  <2>1. CASE Keeps(p)
    BY <1>2, <2>1, CountsKept
  <2>2. CASE \E m \in Messages : Sends(p, m) /\ m.kind \notin {"request", "answer"}
    <3>1. PICK m \in Messages : Sends(p, m) /\ m.kind \notin {"request", "answer"}
      BY <2>2
    <3>2. One(m = Message(kind, id)) = 0
      BY <3>1, MessageFacts DEF One
    <3>3. /\ Number(p, kind, id) \in Nat /\ Number(p, kind, id)' \in Nat
          /\ Number(p, kind, id) <= Number(p, kind, id)'
          /\ Number(p, kind, id)' <= Number(p, kind, id) + One(m = Message(kind, id))
      BY <1>2, <3>1, CountsSent
    <3> QED BY <3>2, <3>3
  <2> QED BY <2>1, <2>2
<1>6. ASSUME NEW kind \in {"request", "answer"}, NEW id
      PROVE  Number(q, kind, id)' = Number(q, kind, id)
  <2>1. CASE ~came
    BY <1>3, <2>1
  <2>2. CASE came
    <3>1. One(Of(p) = Message(kind, id)) = 0
      BY <2>2, MessageFacts DEF One
    <3>2. Number(q, kind, id) \in Nat
      BY <1>1, <1>2, ComingFinite
    <3> QED BY <1>3, <2>2, <3>1, <3>2
  <2> QED BY <2>1, <2>2
<1> HIDE DEF q, came
<1>7. ASSUME NEW r \in Peers PROVE KnownIds(r)'
  BY <1>1, <1>2, <1>3, <1>4 DEF KnownIds
<1>8. ASSUME NEW r \in Peers, NEW id \in 1..counter'[r] PROVE Balanced(r, id)'
  <2>1. Balanced(r, id)
    BY AllBalanced
  <2>2. Places(r, id)' = Places(r, id) /\ Waits(r, id)' = Waits(r, id)
    BY <1>1, <1>5, <1>6 DEF Places, Waits
  <2> QED BY <2>1, <2>2 DEF Balanced
<1> QED BY <1>7, <1>8 DEF MatchInv

\* A request comes: its handler has it, or it is answered at once.
LEMMA MatchRequestCame ==
  ASSUME Typed, VariablesTyped', StreamInv, MatchInv, NEW p \in Peers, chunk[p] # <<>>,
         LooksAt(Other(p)), Behind(Other(p)) % 3 = 1, Of(p).kind = "request",
         UNCHANGED <<pending, counter, lost>>,
         \/ Keeps(p) /\ todo' = [todo EXCEPT ![p] = @ \cup {Of(p).id}]
         \/ Sends(p, Message("answer", Of(p).id)) /\ todo' = todo
  PROVE  MatchInv'
<1> DEFINE q == Other(p)
           x == Of(p).id
           m == Message("answer", x)
<1>1. q \in Peers /\ Other(q) = p /\ p # q /\ \A r \in Peers : r = p \/ r = q
  BY PeerFacts
<1>2. VariablesTyped /\ Whole(p) /\ Whole(q) /\ KnownIds(p) /\ KnownIds(q)
  BY <1>1 DEF Typed, StreamInv, MatchInv
<1>3. /\ Coming(q)' \subseteq Coming(q) /\ log'[q] = log[q]
      /\ (Behind(q) + 2) \div 3 \in Coming(q) /\ log[q][(Behind(q) + 2) \div 3] = Of(p)
      /\ \A kind, id : Number(q, kind, id)' = Number(q, kind, id) - One(Of(p) = Message(kind, id))
  BY <1>1, <1>2, CountsLookedAt
<1>4. Of(p) \in Messages /\ Of(p) = Message("request", x) /\ x \in Ids
  BY TokenIsKnown, MessageFacts
<1>5. x \in 1..counter[q]
  BY <1>2, <1>3 DEF KnownIds
<1>6. m \in Messages /\ m.kind = "answer" /\ m.id = x
  BY <1>4, MessageFacts DEF Message, Messages, Kinds
<1>7. Number(q, "request", x) # 0
  <2>1. (Behind(q) + 2) \div 3 \in Transit(q, "request", x)
    BY <1>3, <1>4 DEF Transit
  <2>2. IsFiniteSet(Transit(q, "request", x))
    BY <1>1, <1>2, ComingFinite
  <2> QED BY <2>1, <2>2, FS_EmptySet DEF Number
<1>8. \A n \in Coming(p)' : (n \in Coming(p) /\ log'[p][n] = log[p][n]) \/ log'[p][n] = m
  <2> HIDE DEF m
  <2> QED BY <1>2, <1>6, CountsSent, CountsKept DEF m
<1>9. todo'[q] = todo[q] /\ todo'[p] \in SUBSET Ids /\ todo'[p] \subseteq todo[p] \cup {x}
  BY <1>1, <1>2 DEF VariablesTyped
<1>10. KnownIds(p)' /\ KnownIds(q)'
  <2> HIDE DEF m, q, x
  <2>1. KnownIds(p)'
    BY <1>1, <1>2, <1>5, <1>6, <1>8, <1>9 DEF KnownIds, q
  <2>2. KnownIds(q)'
    BY <1>1, <1>2, <1>3, <1>5, <1>9 DEF KnownIds
  <2> QED BY <2>1, <2>2
<1>11. ASSUME NEW id \in 1..counter'[p] PROVE Balanced(p, id)'
  <2>1. /\ Balanced(p, id) /\ Number(p, "request", id) \in Nat /\ Number(q, "answer", id) \in Nat
    BY AllBalanced
  <2>2. m # Message("request", id) /\ Of(p) # Message("answer", id)
    BY MessageFacts
  <2>3. Number(p, "request", id)' = Number(p, "request", id)
    <3>1. CASE Keeps(p)
      BY <1>2, <3>1, CountsKept
    <3>2. CASE Sends(p, m)
      <4>1. One(m = Message("request", id)) = 0
        BY <2>2 DEF One
      <4>2. /\ Number(p, "request", id)' \in Nat
            /\ Number(p, "request", id) <= Number(p, "request", id)'
            /\ Number(p, "request", id)' <= Number(p, "request", id) + One(m = Message("request", id))
        BY <1>2, <1>6, <3>2, CountsSent
      <4> QED BY <2>1, <4>1, <4>2
    <3> QED BY <3>1, <3>2
  <2>4. Number(q, "answer", id)' = Number(q, "answer", id)
    BY <1>3, <2>1, <2>2 DEF One
  <2>5. Places(p, id)' = Places(p, id)
    BY <1>9, <2>3, <2>4 DEF Places
  <2>6. Waits(p, id)' = Waits(p, id)
    BY DEF Waits
  <2> QED BY <2>1, <2>5, <2>6 DEF Balanced
<1>12. ASSUME NEW id \in 1..counter'[q] PROVE Balanced(q, id)'
  <2> DEFINE a == Number(q, "request", id)
             b == Number(p, "answer", id)
             c == One(id \in todo[p])
             f == Number(q, "request", id)'
             d == Number(p, "answer", id)'
             e == One(id \in todo'[p])
             o == One(id = x)
             w == Waits(q, id)
  <2>1. Balanced(q, id) /\ a \in Nat /\ b \in Nat
    BY <1>1, AllBalanced
  <2>2. (m = Message("answer", id) <=> id = x) /\ (Of(p) = Message("request", id) <=> id = x)
    BY <1>4, MessageFacts
  <2>3. f = a - o /\ o \in {0, 1} /\ c \in {0, 1} /\ e \in {0, 1} /\ w \in {0, 1}
    BY <1>3, <2>2 DEF One, Waits
  <2>4. Places(q, id) = a + b + c /\ Places(q, id)' = f + d + e /\ Waits(q, id)' = w
    BY <1>1 DEF Places, Waits
  <2>5. a + b + c <= w /\ (~Blocks => a + b + c = w)
    BY <2>1, <2>4 DEF Balanced
  <2>6. d \in Nat /\ d + e <= b + c + o /\ (~Blocks => d + e = b + c + o)
    <3>1. CASE Keeps(p) /\ todo' = [todo EXCEPT ![p] = @ \cup {Of(p).id}]
      <4>1. d = b
        BY <1>2, <3>1, CountsKept
      <4>2. todo'[p] = todo[p] \cup {x}
        BY <1>2, <3>1 DEF VariablesTyped
      <4>3. id = x => c = 0
        <5>1. id = x => o = 1 /\ a # 0
          BY <1>7 DEF One
        <5> HIDE DEF a, b, c, f, o, w
        <5> QED BY <5>1, <2>1, <2>3, <2>5
      <4>4. e = c + o
        BY <4>2, <4>3 DEF One
      <4> HIDE DEF a, b, c, d, e, o
      <4> QED BY <4>1, <4>4, <2>1, <2>3
    <3>2. CASE Sends(p, m) /\ todo' = todo
      <4>1. One(m = Message("answer", id)) = o
        BY <2>2 DEF One
      <4>2. /\ d \in Nat /\ d <= b + One(m = Message("answer", id))
            /\ ~Blocks => d = b + One(m = Message("answer", id))
        BY <1>2, <1>6, <3>2, CountsSent
      <4>3. e = c
        BY <3>2
      <4> HIDE DEF a, b, c, d, e, o
      <4> QED BY <4>1, <4>2, <4>3, <2>1, <2>3
    <3> QED BY <3>1, <3>2
  <2> HIDE DEF a, b, c, d, e, f, o, w
  <2>7. f + d + e <= a + b + c /\ (~Blocks => f + d + e = a + b + c)
    BY <2>1, <2>3, <2>6
  <2>8. f + d + e \in Int /\ a + b + c \in Int /\ w \in Int
    BY <2>1, <2>3, <2>6
  <2>9. f + d + e <= w /\ (~Blocks => f + d + e = w)
    <3> DEFINE y == f + d + e
               z == a + b + c
    <3> HIDE DEF y, z
    <3>1. y \in Int /\ z \in Int /\ w \in Int /\ y <= z /\ z <= w /\ (~Blocks => y = z /\ z = w)
      BY <2>5, <2>7, <2>8 DEF y, z
    <3>2. y <= w /\ (~Blocks => y = w)
      BY <3>1
    <3> QED BY <3>2 DEF y
  <2> QED BY <2>4, <2>9 DEF Balanced
<1>13. lost'[2] = {}
  BY DEF MatchInv
<1> HIDE DEF q
<1> QED BY <1>1, <1>10, <1>11, <1>12, <1>13 DEF MatchInv

\* An answer comes: the callback that waits for it is called, and no other.
LEMMA MatchAnswerCame ==
  ASSUME Typed, VariablesTyped', StreamInv, MatchInv, NEW p \in Peers, chunk[p] # <<>>,
         LooksAt(Other(p)), Behind(Other(p)) % 3 = 1, Of(p).kind = "answer", Keeps(p),
         UNCHANGED <<todo, counter, lost>>, pending' = [pending EXCEPT ![p] = @ \ {Of(p).id}]
  PROVE  MatchInv'
<1> DEFINE q == Other(p)
           x == Of(p).id
<1>1. q \in Peers /\ Other(q) = p /\ p # q /\ \A r \in Peers : r = p \/ r = q
  BY PeerFacts
<1>2. VariablesTyped /\ Whole(p) /\ Whole(q) /\ KnownIds(p) /\ KnownIds(q)
  BY <1>1 DEF Typed, StreamInv, MatchInv
<1>3. /\ Coming(q)' \subseteq Coming(q) /\ log'[q] = log[q]
      /\ (Behind(q) + 2) \div 3 \in Coming(q) /\ log[q][(Behind(q) + 2) \div 3] = Of(p)
      /\ \A kind, id : Number(q, kind, id)' = Number(q, kind, id) - One(Of(p) = Message(kind, id))
  BY <1>1, <1>2, CountsLookedAt
<1>4. Of(p) = Message("answer", x)
  BY TokenIsKnown, MessageFacts
<1>5. /\ Coming(p)' = Coming(p) /\ log'[p] = log[p]
      /\ \A kind, id : Number(p, kind, id)' = Number(p, kind, id)
  BY <1>2, CountsKept
<1>6. pending'[p] = pending[p] \ {x} /\ pending'[q] = pending[q]
  BY <1>1, <1>2 DEF VariablesTyped
<1>7. Number(q, "answer", x) # 0
  <2>1. (Behind(q) + 2) \div 3 \in Transit(q, "answer", x)
    BY <1>3, <1>4 DEF Transit
  <2>2. IsFiniteSet(Transit(q, "answer", x))
    BY <1>1, <1>2, ComingFinite
  <2> QED BY <2>1, <2>2, FS_EmptySet DEF Number
<1>8. x \in pending[p] \ lost[p] /\ Number(p, "request", x) = 0 /\ Number(q, "answer", x) = 1
      /\ x \notin todo[q]
  <2> DEFINE a == Number(p, "request", x)
             b == Number(q, "answer", x)
             c == One(x \in todo[q])
             w == Waits(p, x)
  <2>1. Balanced(p, x) /\ a \in Nat /\ b \in Nat /\ c \in {0, 1} /\ w \in {0, 1}
    BY AllBalanced DEF One, Waits
  <2>2. a + b + c <= w
    BY <2>1 DEF Balanced, Places
  <2>3. b # 0
    BY <1>7
  <2> HIDE DEF a, b, c, w
  <2>4. a = 0 /\ b = 1 /\ c = 0 /\ w = 1
    BY <2>1, <2>2, <2>3
  <2> QED BY <2>4 DEF a, b, c, w, One, Waits
<1>9. KnownIds(p)' /\ KnownIds(q)'
  <2> HIDE DEF q, x
  <2>1. KnownIds(p)'
    BY <1>1, <1>2, <1>5, <1>6, <1>8 DEF KnownIds
  <2>2. KnownIds(q)'
    BY <1>1, <1>2, <1>3, <1>6 DEF KnownIds
  <2> QED BY <2>1, <2>2
<1>10. ASSUME NEW id \in 1..counter'[p] PROVE Balanced(p, id)'
  <2>1. /\ Balanced(p, id) /\ Number(p, "request", id) \in Nat /\ Number(q, "answer", id) \in Nat
    BY AllBalanced
  <2>2. CASE id = x
    <3>1. One(Of(p) = Message("answer", id)) = 1
      BY <1>4, <2>2 DEF One
    <3>2. Number(q, "answer", id)' = 0 /\ Number(p, "request", id)' = 0
      BY <1>3, <1>5, <1>8, <2>2, <3>1
    <3>3. One(id \in todo'[q]) = 0
      BY <1>8, <2>2 DEF One
    <3>4. Places(p, id)' = 0
      BY <3>2, <3>3 DEF Places
    <3>5. Waits(p, id)' = 0
      BY <1>6, <2>2 DEF Waits, One
    <3> QED BY <3>4, <3>5 DEF Balanced
  <2>3. CASE id # x
    <3>1. Of(p) # Message("answer", id)
      BY <1>4, <2>3, MessageFacts
    <3>2. Number(q, "answer", id)' = Number(q, "answer", id)
      BY <1>3, <2>1, <3>1 DEF One
    <3>3. Places(p, id)' = Places(p, id)
      BY <1>5, <3>2 DEF Places
    <3>4. Waits(p, id)' = Waits(p, id)
      BY <1>6, <2>3 DEF Waits
    <3> QED BY <2>1, <3>3, <3>4 DEF Balanced
  <2> QED BY <2>2, <2>3
<1>11. ASSUME NEW id \in 1..counter'[q] PROVE Balanced(q, id)'
  <2>1. Balanced(q, id) /\ Number(q, "request", id) \in Nat
    BY <1>1, AllBalanced
  <2>2. Of(p) # Message("request", id)
    BY MessageFacts
  <2>3. Number(q, "request", id)' = Number(q, "request", id)
    BY <1>3, <2>1, <2>2 DEF One
  <2>4. Places(q, id)' = Places(q, id) /\ Waits(q, id)' = Waits(q, id)
    BY <1>1, <1>5, <1>6, <2>3 DEF Places, Waits
  <2> QED BY <2>1, <2>4 DEF Balanced
<1>12. lost'[2] = {}
  BY DEF MatchInv
<1> HIDE DEF q
<1> QED BY <1>1, <1>9, <1>10, <1>11, <1>12 DEF MatchInv

LEMMA MatchProcess ==
  ASSUME CarefulPeers, Typed, VariablesTyped', StreamInv, MatchInv, NEW p \in Peers, Process(p)
  PROVE  MatchInv'
<1> DEFINE q == Other(p)
           b == Behind(q)
           m == Of(p)
           error == Message("error", 0)
<1>1. q \in Peers /\ Other(q) = p /\ p # q /\ p \notin Raw
  BY PeerFacts DEF CarefulPeers
<1>2. VariablesTyped /\ Whole(q) /\ InStep(q)
  BY <1>1 DEF Typed, StreamInv
<1>3. chunk[p] # <<>> /\ counter' = counter /\ lost' = lost /\ chunk' = [chunk EXCEPT ![p] = Tail(@)]
  BY DEF Process, history
<1>4. chunk'[q] = chunk[q]
  BY <1>1, <1>2, <1>3 DEF VariablesTyped
<1>5. LooksAt(q)
  BY ProcessStep
<1>6. b \in Nat /\ Token(p) = b + 1
  BY <1>1, <1>2, <1>3, <1>5, WholeLookedAt, BehindTyped, TokenIsKnown
<1>7. (Opens(p) <=> b % 3 = 0) /\ (Ends(p) <=> b % 3 = 2) /\ (b % 3 = 0 \/ b % 3 = 1 \/ b % 3 = 2)
  <2> HIDE DEF b
  <2> QED BY <1>6 DEF Opens, Ends
<1>8. b % 3 = 1 => log[q][(b + 2) \div 3] = m
  BY <1>1, <1>2, <1>3, <1>5, CountsLookedAt
<1>9. \/ b % 3 = 0 /\ ~partial[p] /\ ~ignore[p]
      \/ b % 3 = 1 /\ partial[p] # ignore[p] /\ (ignore[p] <=> m.kind = "junk")
      \/ b % 3 = 2 /\ ~partial[p] /\ ignore[p]
  BY <1>1, <1>2, <1>8 DEF InStep
<1>10. error \in Messages /\ error.kind = "error"
  BY ZeroId, MessageFacts DEF Message, Messages, Kinds
<1>11. m \in Messages /\ Message("answer", m.id) \in Messages
  <2>1. m \in Messages
    BY <1>3, TokenIsKnown
  <2> QED BY <2>1 DEF Message, Messages, Kinds
<1>12. UNCHANGED sending => Keeps(p)
  BY <1>4, StreamSame DEF sending
<1>13. ReportError(p) =>
         Keeps(p) \/ \E r \in Messages : Sends(p, r) /\ r.kind \notin {"request", "answer"}
  <2>1. Send(p, error) => Sends(p, error)
    <3> HIDE DEF error
    <3> QED BY <1>2, <1>4, <1>10, StreamSent
  <2> QED BY <1>10, <1>12, <2>1 DEF ReportError
<1>14. Send(p, Message("answer", m.id)) => Sends(p, Message("answer", m.id))
  BY <1>2, <1>4, <1>11, StreamSent
<1> HIDE DEF error
<1>15. CASE Begins(p)
  <2>1. b % 3 # 1 /\ Keeps(p) /\ UNCHANGED <<pending, todo>>
    BY <1>7, <1>12, <1>15 DEF Begins
  <2> QED BY <1>3, <1>5, <2>1, MatchUnheard
<1>16. CASE Skips(p)
  <2>1. Keeps(p) /\ UNCHANGED <<pending, todo>> /\ (ignore[p] \/ Ends(p))
    BY <1>12, <1>16 DEF Skips
  <2>2. b % 3 = 1 => m.kind = "junk"
    BY <1>7, <1>9, <2>1
  <2> QED BY <1>3, <1>5, <2>1, <2>2, MatchUnheard
<1>17. CASE Fails(p)
  <2>1. /\ UNCHANGED <<pending, todo>> /\ ReportError(p) /\ ~ignore[p]
        /\ m.kind = "junk" \/ Opens(p) = partial[p]
    BY <1>17 DEF Fails
  <2>2. b % 3 = 1 => m.kind = "junk"
    <3>1. Opens(p) \in BOOLEAN /\ partial[p] \in BOOLEAN /\ ignore[p] \in BOOLEAN
      BY <1>2 DEF Opens, VariablesTyped
    <3> HIDE DEF b
    <3>2. b % 3 = 1 => ~Opens(p) /\ partial[p]
      BY <1>7, <1>9, <2>1, <3>1
    <3> QED BY <2>1, <3>1, <3>2
  <2> QED BY <1>3, <1>5, <1>13, <2>1, <2>2, MatchUnheard
<1>18. CASE Completes(p)
  <2>1. b % 3 = 1 /\ GotJson(p, m)
    BY <1>7, <1>18 DEF Completes
  <2>2. CASE m.kind = "request"
    <3>1. pending' = pending
      BY <2>1, <2>2 DEF GotJson
    <3>2. \/ Keeps(p) /\ todo' = [todo EXCEPT ![p] = @ \cup {m.id}]
          \/ Sends(p, Message("answer", m.id)) /\ todo' = todo
      BY <1>12, <1>14, <2>1, <2>2 DEF GotJson
    <3> QED BY <1>3, <1>5, <2>1, <2>2, <3>1, <3>2, MatchRequestCame
  <2>3. CASE m.kind = "answer"
    <3>1. pending' = [pending EXCEPT ![p] = @ \ {m.id}] /\ todo' = todo /\ Keeps(p)
      BY <1>12, <2>1, <2>3 DEF GotJson
    <3> QED BY <1>3, <1>5, <2>1, <2>3, <3>1, MatchAnswerCame
  <2>4. CASE m.kind \notin {"request", "answer"}
    <3>1. UNCHANGED <<pending, todo>> /\ (ReportError(p) \/ UNCHANGED sending)
      BY <2>1, <2>4 DEF GotJson
    <3> QED BY <1>3, <1>5, <1>12, <1>13, <2>4, <3>1, MatchUnheard
  <2> QED BY <2>2, <2>3, <2>4
<1> QED BY <1>1, <1>15, <1>16, <1>17, <1>18 DEF Process

LEMMA MatchInvStep ==
  ASSUME CarefulPeers, Typed, StreamInv, MatchInv, [Next]_vars
  PROVE  MatchInv'
<1>1. VariablesTyped /\ VariablesTyped'
  BY TypedStep DEF Typed
<1>2. ASSUME NEW p \in Peers, CanSend(p) \/ CloseAfterSend(p) \/ Receive(p) \/ HangUp(p)
      PROVE  MatchInv'
  <2>1. \A r \in Peers : Keeps(r)
    BY <1>1, <1>2, CanSendStep, CloseAfterSendStep, ReceiveStep, HangUpStep
  <2>2. UNCHANGED <<pending, counter, todo, lost>>
    BY <1>2 DEF CanSend, CloseAfterSend, Receive, HangUp, rpc, history
  <2> QED BY <1>1, <2>1, <2>2, MatchQuiet
<1>3. ASSUME NEW p \in Peers, SendNotification(p) PROVE MatchInv'
  <2> DEFINE m == Message("notify", 0)
  <2>1. /\ m \in Messages /\ Sends(p, m) /\ Keeps(Other(p)) /\ counter' = [counter EXCEPT ![p] = @ + 1]
        /\ m.kind = "notify"
    BY <1>1, <1>3, SendNotificationStep, MessageFacts
  <2>2. \A r \in Peers : counter'[r] \in {counter[r], counter[r] + 1}
    BY <1>1, <2>1 DEF VariablesTyped
  <2>3. UNCHANGED <<pending, todo, lost>>
    BY <1>3 DEF SendNotification, history
  <2> HIDE DEF m
  <2>4. m.kind \notin {"request", "answer"}
    BY <2>1
  <2> QED BY <1>1, <2>1, <2>2, <2>3, <2>4, MatchOther
<1>4. ASSUME NEW p \in Peers, SendJunk(p) PROVE MatchInv'
  <2> DEFINE m == Message("junk", 0)
  <2>1. /\ m \in Messages /\ Sends(p, m) /\ Keeps(Other(p)) /\ m.kind = "junk"
    BY <1>1, <1>4, SendJunkStep, MessageFacts
  <2>2. UNCHANGED <<pending, counter, todo, lost>>
    BY <1>4 DEF SendJunk, rpc, history
  <2> HIDE DEF m
  <2>3. m.kind \notin {"request", "answer"} /\ \A r \in Peers : counter'[r] \in {counter[r], counter[r] + 1}
    BY <2>1, <2>2
  <2> QED BY <1>1, <2>1, <2>2, <2>3, MatchOther
<1>5. ASSUME UNCHANGED vars PROVE MatchInv'
  <2>1. \A r \in Peers : Keeps(r)
    BY <1>5, PeerFacts, StreamSame DEF vars
  <2> QED BY <1>1, <1>5, <2>1, MatchQuiet DEF vars
<1> QED BY <1>1, <1>2, <1>3, <1>4, <1>5, NextCases, MatchRequest, MatchAnswer, MatchProcess,
           MatchReconnect DEF Talks

LEMMA MatchInvInit == Init => MatchInv
<1> SUFFICES ASSUME Init PROVE MatchInv
  OBVIOUS
<1>1. 2 \in Peers /\ \A p \in Peers : Other(p) \in Peers
  BY PeerFacts DEF Peers
<1>2. lost[2] = {}
  BY <1>1 DEF Init
<1>3. ASSUME NEW p \in Peers PROVE KnownIds(p)
  <2>1. lost[p] = {} /\ todo[Other(p)] = {} /\ log[p] = <<>>
    BY <1>1 DEF Init
  <2>2. DOMAIN <<>> = {}
    OBVIOUS
  <2>3. Coming(p) = {}
    BY <2>1, <2>2 DEF Coming
  <2> QED BY <2>1, <2>3 DEF KnownIds
<1>4. ASSUME NEW p \in Peers PROVE 1..counter[p] = {}
  BY DEF Init
<1> QED BY <1>2, <1>3, <1>4 DEF MatchInv

\* What the run's invariant says of the stream, from where it begins.
LEMMA StreamIntactHolds ==
  ASSUME Typed, StreamInv, MatchInv
  PROVE  StreamIntact
<1>1. VariablesTyped
  BY DEF Typed
<1>2. TypeOK
  <2>1. /\ \A f \in {open, closing, partial, ignore} : f \in [Peers -> BOOLEAN]
        /\ \A f \in {buffer, wire, chunk, line} : f \in [Peers -> Seq(Nat \ {0})]
    BY <1>1 DEF VariablesTyped, Tokens
  <2>2. ASSUME NEW p \in Peers
        PROVE  /\ log[p] \in Seq([kind : Kinds, id : 0..MaxRequests[1] + MaxRequests[2]])
               /\ counter[p] \in 0..MaxRequests[p]
               /\ pending[p] \subseteq 1..counter[p] /\ lost[p] \subseteq pending[p]
               /\ todo[p] # {} => p \in Serves
               /\ promised[p] \in {NotClosed} \cup 0..Len(log[p])
    <3>1. log[p] \in Seq([kind : Kinds, id : 0..MaxRequests[1] + MaxRequests[2]])
      BY <1>1 DEF VariablesTyped, Messages, Ids
    <3>2. /\ counter[p] \in Nat /\ counter[p] <= MaxRequests[p] /\ MaxRequests[p] \in Nat
          /\ promised[p] \in Nat \cup {NotClosed} /\ promised[p] <= Len(log[p]) /\ Len(log[p]) \in Nat
      BY <1>1, <3>1, JsonRpcConstants, LenProperties DEF Typed, VariablesTyped
    <3>3. counter[p] \in 0..MaxRequests[p] /\ promised[p] \in {NotClosed} \cup 0..Len(log[p])
      BY <3>2
    <3>4. /\ pending[p] \subseteq 1..counter[p] /\ lost[p] \subseteq pending[p]
          /\ todo[p] # {} => p \in Serves
      BY DEF Typed, MatchInv, KnownIds
    <3> QED BY <3>1, <3>3, <3>4
  <2>3. connections \in 1..MaxConnections /\ torn \in BOOLEAN
    BY <1>1 DEF VariablesTyped
  <2> QED BY <2>1, <2>2, <2>3 DEF TypeOK
<1>3. ASSUME NEW p \in Peers
      PROVE  LET stream == Stream(p)
                 q == Other(p)
             IN /\ stream # <<>> => stream = Upto(Head(stream), 3 * Len(log[p]))
                /\ IF stream = <<>> \/ Head(stream) % 3 = 1 THEN ~partial[q] /\ ~ignore[q]
                   ELSE IF Head(stream) % 3 = 0 THEN ignore[q]
                   ELSE partial[q] # ignore[q]
                /\ ~torn
  <2> DEFINE s == Stream(p)
             b == Behind(p)
             q == Other(p)
             l3 == 3 * Len(log[p])
  <2>1. /\ b \in Nat /\ l3 \in Nat /\ Len(s) = l3 - b /\ s = Upto(b + 1, l3) /\ s \in Seq(Tokens)
        /\ b <= l3 /\ Len(log[p]) \in Nat
    <3>1. Whole(p)
      BY DEF StreamInv
    <3>2. /\ b \in Nat /\ Len(log[p]) \in Nat /\ b <= l3 /\ Len(s) = l3 - b
          /\ s = Upto(b + 1, l3) /\ s \in Seq(Tokens)
      BY <1>1, <3>1, BehindTyped, StreamTyped
    <3>3. l3 \in Nat
      BY <3>2
    <3> HIDE DEF b, s, l3
    <3> QED BY <3>2, <3>3
  <2>2. \/ b % 3 = 0 /\ ~partial[q] /\ ~ignore[q]
        \/ b % 3 = 1 /\ partial[q] # ignore[q]
        \/ b % 3 = 2 /\ ~partial[q] /\ ignore[q]
    BY DEF StreamInv, InStep
  <2>3. ~torn
    BY DEF StreamInv
  <2> HIDE DEF b, s
  <2>4. CASE s = <<>>
    <3>1. Len(s) = 0
      BY <2>4, EmptySeq
    <3>2. b % 3 = 0
      BY <2>1, <3>1
    <3> QED BY <2>2, <2>3, <2>4, <3>2 DEF s
  <2>5. CASE s # <<>>
    <3>1. Len(s) # 0
      BY <2>1, <2>5, EmptySeq
    <3> HIDE DEF l3
    <3>2. b + 1 \in Tokens /\ b + 1 <= l3
      BY <2>1, <3>1 DEF Tokens
    <3>3. Head(s) = b + 1
      BY <2>1, <3>2, UptoTail
    <3>4. s = Upto(Head(s), l3)
      BY <2>1, <3>3
    <3>5. /\ b % 3 = 0 <=> Head(s) % 3 = 1
          /\ b % 3 = 2 <=> Head(s) % 3 = 0
      BY <2>1, <3>3
    <3>6. IF Head(s) % 3 = 1 THEN ~partial[q] /\ ~ignore[q]
          ELSE IF Head(s) % 3 = 0 THEN ignore[q]
          ELSE partial[q] # ignore[q]
      BY <2>2, <3>5
    <3> QED BY <2>3, <2>5, <3>4, <3>6 DEF s, l3
  <2> QED BY <2>4, <2>5
<1> QED BY <1>2, <1>3 DEF StreamIntact

\* Messages arrive whole, once and in order.
THEOREM StreamStaysIntact ==
  ASSUME CarefulPeers
  PROVE  Spec => []StreamIntact
<1>1. Init => Typed /\ StreamInv /\ MatchInv
  BY TypedInit, StreamInvInit, MatchInvInit
<1>2. Typed /\ StreamInv /\ MatchInv /\ [Next]_vars => (Typed /\ StreamInv /\ MatchInv)'
  BY TypedStep, StreamInvStep, MatchInvStep
<1>3. Typed /\ StreamInv /\ MatchInv => StreamIntact
  BY StreamIntactHolds
<1> QED BY <1>1, <1>2, <1>3, PTL DEF Spec

\* What the run counts in the stream are the messages on their way.
LEMMA InTransitIsNumber ==
  ASSUME Typed, StreamInv, NEW p \in Peers, NEW kind, NEW id
  PROVE  InTransit(p, kind, id) = Number(p, kind, id)
<1> DEFINE s == Stream(p)
           b == Behind(p)
           l == Len(log[p])
           T == Transit(p, kind, id)
           S == {i \in DOMAIN s : s[i] % 3 = 2 /\ log[p][(s[i] + 2) \div 3] = Message(kind, id)}
           f == [n \in T |-> 3 * n - 1 - b]
<1>1. VariablesTyped /\ Whole(p)
  BY DEF Typed, StreamInv
<1>2. /\ b \in Nat /\ l \in Nat /\ b <= 3 * l /\ Len(s) = 3 * l - b /\ s = Upto(b + 1, 3 * l)
      /\ DOMAIN s = 1..Len(s)
  BY <1>1, BehindTyped, StreamTyped
<1>3. T = {n \in 1..l : 3 * n - 1 > b /\ log[p][n] = Message(kind, id)} /\ IsFiniteSet(T)
  BY <1>1, ComingFinite DEF Transit, Coming
<1> HIDE DEF s, b, l, T
<1>4. \A i \in 1..(3 * l - b) : s[i] = b + i
  <2>1. b + 1 \in Tokens /\ 3 * l \in Nat /\ b + 1 <= 3 * l + 1 /\ 3 * l - (b + 1) + 1 = 3 * l - b
    BY <1>2 DEF Tokens
  <2>2. \A i \in 1..(3 * l - (b + 1) + 1) : s[i] = (b + 1) + i - 1
    BY <1>2, <2>1, UptoProperties
  <2> QED BY <1>2, <2>1, <2>2
<1>5. ASSUME NEW n \in T PROVE 3 * n - 1 - b \in S
  <2> DEFINE i == 3 * n - 1 - b
  <2>1. n \in 1..l /\ 3 * n - 1 > b /\ log[p][n] = Message(kind, id)
    BY <1>3
  <2>2. i \in 1..(3 * l - b) /\ b + i = 3 * n - 1
    BY <1>2, <2>1
  <2> HIDE DEF i
  <2>3. s[i] = 3 * n - 1
    BY <1>4, <2>2
  <2>4. (3 * n - 1) % 3 = 2 /\ (3 * n - 1 + 2) \div 3 = n
    BY <2>1
  <2>5. i \in S
    BY <1>2, <2>1, <2>2, <2>3, <2>4
  <2> QED BY <2>5 DEF i
<1>6. ASSUME NEW i \in S PROVE \E n \in T : 3 * n - 1 - b = i
  <2>1. /\ i \in 1..(3 * l - b) /\ s[i] % 3 = 2
        /\ log[p][(s[i] + 2) \div 3] = Message(kind, id)
    BY <1>2
  <2>2. s[i] = b + i
    BY <1>4, <2>1
  <2> DEFINE n == (b + i + 2) \div 3
  <2>3. n \in 1..l /\ 3 * n - 1 = b + i
    <3> DEFINE t == b + i
    <3>1. t \in Nat /\ t <= 3 * l
      BY <1>2, <2>1
    <3>2. t % 3 = 2
      BY <2>1, <2>2
    <3> HIDE DEF t
    <3>3. (t + 2) \div 3 \in 1..l /\ 3 * ((t + 2) \div 3) - 1 = t
      BY <1>2, <3>1, <3>2
    <3> QED BY <3>3 DEF t
  <2>4. log[p][n] = Message(kind, id)
    BY <2>1, <2>2
  <2> HIDE DEF n
  <2>5. 3 * n - 1 > b /\ 3 * n - 1 - b = i
    BY <1>2, <2>1, <2>3
  <2> QED BY <1>3, <2>3, <2>4, <2>5
<1>7. \A x, y \in T : 3 * x - 1 - b = 3 * y - 1 - b => x = y
  BY <1>2, <1>3
<1> HIDE DEF S
<1>8. f \in [T -> S] /\ (\A x, y \in T : f[x] = f[y] => x = y) /\ \A i \in S : \E n \in T : f[n] = i
  BY <1>5, <1>6, <1>7
<1> HIDE DEF f
<1>9. ExistsBijection(T, S)
  BY <1>8, Fun_IsBij, Fun_ExistsBij
<1>10. Cardinality(S) = Cardinality(T)
  BY <1>3, <1>9, FS_Bijection
<1> QED BY <1>10 DEF InTransit, Number, S, T, s

-----------------------------------------------------------------------------
(* Errors *)

OfKind(p, kind) == {n \in DOMAIN log[p] : log[p][n].kind = kind}

LEMMA CountTyped ==
  ASSUME VariablesTyped, NEW p \in Peers, NEW kind
  PROVE  /\ IsFiniteSet(OfKind(p, kind)) /\ Count(p, kind) = Cardinality(OfKind(p, kind))
         /\ Count(p, kind) \in Nat
<1>1. IsFiniteSet(DOMAIN log[p])
  BY LenProperties, FS_Interval DEF VariablesTyped
<1>2. IsFiniteSet(OfKind(p, kind))
  BY <1>1, FS_Subset DEF OfKind
<1> QED BY <1>2, FS_CardinalityType DEF OfKind, Count

LEMMA CountSaid ==
  ASSUME VariablesTyped, NEW p \in Peers, NEW m \in Messages, log'[p] = Append(log[p], m), NEW kind
  PROVE  Count(p, kind)' = Count(p, kind) + One(m.kind = kind)
<1> DEFINE n == Len(log[p]) + 1
           T == OfKind(p, kind)
<1>1. /\ Len(log[p]) \in Nat /\ DOMAIN log[p] = 1..Len(log[p]) /\ DOMAIN log'[p] = 1..n
      /\ \A i \in 1..Len(log[p]) : log'[p][i] = log[p][i]
      /\ log'[p][n] = m
  BY LogGrows
<1>2. 1..n = (1..Len(log[p])) \cup {n} /\ n \notin 1..Len(log[p])
  BY <1>1
<1>3. IsFiniteSet(T) /\ Count(p, kind) = Cardinality(T) /\ Cardinality(T) \in Nat
  BY CountTyped
<1>4. n \notin T
  BY <1>1, <1>2 DEF OfKind
<1>5. Count(p, kind)' = Cardinality({i \in DOMAIN log'[p] : log'[p][i].kind = kind})
  BY DEF Count
<1> HIDE DEF n
<1>6. CASE m.kind = kind
  <2>1. {i \in DOMAIN log'[p] : log'[p][i].kind = kind} = T \cup {n}
    BY <1>1, <1>2, <1>6 DEF OfKind
  <2>2. Cardinality(T \cup {n}) = Cardinality(T) + 1
    BY <1>3, <1>4, FS_AddElement
  <2>3. One(m.kind = kind) = 1
    BY <1>6 DEF One
  <2> QED BY <1>3, <1>5, <2>1, <2>2, <2>3
<1>7. CASE m.kind # kind
  <2>1. {i \in DOMAIN log'[p] : log'[p][i].kind = kind} = T
    BY <1>1, <1>2, <1>7 DEF OfKind
  <2>2. One(m.kind = kind) = 0
    BY <1>7 DEF One
  <2>3. Count(p, kind)' = Count(p, kind) /\ Count(p, kind) \in Nat
    BY <1>3, <1>5, <2>1
  <2> QED BY <2>2, <2>3
<1> QED BY <1>6, <1>7

LEMMA SeenFacts ==
  ASSUME VariablesTyped, NEW p \in Peers
  PROVE  /\ IsFiniteSet(Seen(p)) /\ Cardinality(Seen(p)) \in Nat
         /\ Cardinality(Seen(p)) <= Count(p, "junk")
<1>1. Seen(p) \in SUBSET OfKind(p, "junk")
  BY DEF Seen, OfKind
<1>2. IsFiniteSet(Seen(p)) /\ Cardinality(Seen(p)) <= Cardinality(OfKind(p, "junk"))
  BY <1>1, CountTyped, FS_Subset
<1> QED BY <1>2, CountTyped, FS_CardinalityType

\* What has been seen stays seen.
LEMMA SeenStays ==
  ASSUME VariablesTyped, VariablesTyped', NEW p \in Peers, Whole(p),
         Keeps(p) \/ (\E m \in Messages : Sends(p, m)) \/ LooksAt(p) \/ Loses(p)
  PROVE  IsFiniteSet(Seen(p)') /\ Cardinality(Seen(p)) <= Cardinality(Seen(p)')
<1> DEFINE b == Behind(p)
<1>1. b \in Nat /\ b <= 3 * Len(log[p]) /\ Len(log[p]) \in Nat /\ DOMAIN log[p] = 1..Len(log[p])
  BY BehindTyped, LenProperties DEF VariablesTyped
<1>2. Behind(p)' \in Nat /\ b <= Behind(p)'
  <2>1. Behind(p)' = b \/ Behind(p)' = b + 1 \/ Behind(p)' = 3 * Len(log[p])
    BY BehindKept, WholeLookedAt, WholeLost
  <2> HIDE DEF b
  <2> QED BY <1>1, <2>1
<1>3. \A n \in DOMAIN log[p] : n \in DOMAIN log'[p] /\ log'[p][n] = log[p][n]
  <2>1. CASE log'[p] = log[p]
    BY <2>1
  <2>2. CASE \E m \in Messages : log'[p] = Append(log[p], m)
    BY <1>1, <2>2, LogGrows
  <2> QED BY <2>1, <2>2 DEF Keeps, Sends, Says, LooksAt, Loses
<1>4. IsFiniteSet(Seen(p)')
  <2>1. log'[p] \in Seq(Messages)
    BY DEF VariablesTyped
  <2>2. IsFiniteSet(DOMAIN log'[p])
    BY <2>1, LenProperties, FS_Interval
  <2>3. Seen(p)' \in SUBSET DOMAIN log'[p]
    BY DEF Seen
  <2> QED BY <2>2, <2>3, FS_Subset
<1>5. Seen(p) \subseteq Seen(p)'
  <2> SUFFICES ASSUME NEW n \in Seen(p) PROVE n \in Seen(p)'
    OBVIOUS
  <2>1. n \in 1..Len(log[p]) /\ log[p][n].kind = "junk" /\ 3 * n - 2 <= b
    BY <1>1 DEF Seen
  <2>2. n \in DOMAIN log'[p] /\ log'[p][n].kind = "junk"
    BY <1>1, <1>3, <2>1
  <2> HIDE DEF b
  <2>3. 3 * n - 2 <= Behind(p)'
    BY <1>1, <1>2, <2>1
  <2> QED BY <2>2, <2>3 DEF Seen
<1> QED BY <1>4, <1>5, FS_Subset

\* Junk is seen when its first token is looked at.
LEMMA JunkSeen ==
  ASSUME Typed, VariablesTyped', NEW p \in Peers, chunk[p] # <<>>, Whole(Other(p)), LooksAt(Other(p)),
         Behind(Other(p)) % 3 = 0, Of(p).kind = "junk"
  PROVE  Cardinality(Seen(Other(p))) + 1 <= Cardinality(Seen(Other(p))')
<1> DEFINE q == Other(p)
           b == Behind(q)
           k == (Token(p) + 2) \div 3
<1>1. q \in Peers /\ VariablesTyped
  BY PeerFacts DEF Typed
<1>2. log'[q] = log[q] /\ Behind(q)' = b + 1 /\ b \in Nat /\ Head(Stream(q)) = b + 1 /\ b % 3 = 0
  BY <1>1, WholeLookedAt, BehindTyped DEF LooksAt
<1>3. Token(p) = b + 1 /\ k \in DOMAIN log[q] /\ log[q][k].kind = "junk"
  BY <1>2, TokenIsKnown DEF Of
<1>4. DOMAIN log[q] = 1..Len(log[q]) /\ Len(log[q]) \in Nat
  BY <1>1, LenProperties DEF VariablesTyped
<1>5. Seen(q) = {n \in 1..Len(log[q]) : log[q][n].kind = "junk" /\ 3 * n - 2 <= b}
  BY <1>4 DEF Seen
<1>6. Seen(q)' = {n \in 1..Len(log[q]) : log[q][n].kind = "junk" /\ 3 * n - 2 <= b + 1}
  BY <1>2, <1>4 DEF Seen
<1> HIDE DEF b
<1>7. 3 * k - 2 = b + 1
  BY <1>2, <1>3
<1> HIDE DEF k
<1>8. k \in Seen(q)' /\ k \notin Seen(q)
  BY <1>2, <1>3, <1>4, <1>5, <1>6, <1>7
<1>9. Seen(q) \cup {k} \in SUBSET Seen(q)'
  <2>1. \A n \in 1..Len(log[q]) : 3 * n - 2 <= b => 3 * n - 2 <= b + 1
    BY <1>2
  <2> QED BY <1>5, <1>6, <1>8, <2>1
<1>10. IsFiniteSet(Seen(q)') /\ IsFiniteSet(Seen(q))
  BY <1>1, SeenStays, SeenFacts
<1>11. Cardinality(Seen(q) \cup {k}) = Cardinality(Seen(q)) + 1
  BY <1>8, <1>10, FS_AddElement
<1>12. Cardinality(Seen(q) \cup {k}) <= Cardinality(Seen(q)')
  BY <1>9, <1>10, FS_Subset
<1> QED BY <1>11, <1>12

LEMMA CountKept ==
  ASSUME NEW p \in Peers, log'[p] = log[p], NEW kind
  PROVE  Count(p, kind)' = Count(p, kind)
BY DEF Count

LEMMA TalksAreNoErrors ==
  ASSUME VariablesTyped, NEW p \in Peers, Talks(p)
  PROVE  Keeps(p) \/ \E m \in Messages : Sends(p, m) /\ m.kind # "error"
<1>1. Message("request", counter[p] + 1).kind # "error" /\ Message("notify", 0).kind # "error"
      /\ Message("junk", 0).kind # "error" /\ \A id : Message("answer", id).kind # "error"
  BY MessageFacts
<1> QED BY <1>1, CanSendStep, CloseAfterSendStep, ReceiveStep, HangUpStep, SendRequestStep,
           SendNotificationStep, AnswerStep, SendJunkStep, Zenon DEF Talks

\* An error that is no answer is sent for junk only, by a peer that reports all errors, when the junk is
\* seen.
LEMMA ErrorsForJunk ==
  ASSUME CarefulPeers, Reports # Peers, Typed, StreamInv, ErrorInv, NEW p \in Peers, Process(p)
  PROVE  \/ Keeps(p) \/ \E m \in Messages : Sends(p, m) /\ m.kind # "error"
         \/ /\ p \in Reports /\ Behind(Other(p)) % 3 = 0 /\ Of(p).kind = "junk"
            /\ \E m \in Messages : Sends(p, m)
<1> DEFINE q == Other(p)
           b == Behind(q)
           m == Of(p)
<1>1. q \in Peers /\ Other(q) = p /\ p # q /\ p \notin Raw /\ \A r \in Peers : r = p \/ r = q
  BY PeerFacts DEF CarefulPeers
<1>2. VariablesTyped /\ Whole(q) /\ InStep(q) /\ chunk[p] # <<>> /\ LooksAt(q)
  BY <1>1, ProcessStep DEF Typed, StreamInv, Process
<1>3. chunk'[q] = chunk[q]
  BY <1>1, <1>2 DEF Process, VariablesTyped
<1>4. UNCHANGED sending => Keeps(p)
  BY <1>3, StreamSame DEF sending
<1>5. m \in Messages /\ Message("answer", m.id) \in Messages /\ Message("answer", m.id).kind # "error"
  <2>1. m \in Messages
    BY <1>2, TokenIsKnown
  <2> QED BY <2>1, MessageFacts DEF Message, Messages, Kinds
<1>6. Send(p, Message("answer", m.id)) => Sends(p, Message("answer", m.id))
  BY <1>2, <1>3, <1>5, StreamSent
<1>7. CASE Begins(p) \/ Skips(p)
  BY <1>4, <1>7 DEF Begins, Skips
<1>8. CASE Fails(p)
  <2>1. b \in Nat /\ Token(p) = b + 1
    BY <1>1, <1>2, WholeLookedAt, ProcessStep, BehindTyped, TokenIsKnown
  <2>2. /\ Opens(p) <=> b % 3 = 0
        /\ Ends(p) <=> b % 3 = 2
        /\ b % 3 = 0 \/ b % 3 = 1 \/ b % 3 = 2
    <3> HIDE DEF b
    <3> QED BY <2>1 DEF Opens, Ends
  <2>3. b % 3 = 1 => log[q][(b + 2) \div 3] = m
    BY <1>1, <1>2, CountsLookedAt, ProcessStep
  <2>4. /\ ~ignore[p] /\ ~Ends(p) /\ ReportError(p)
        /\ m.kind = "junk" \/ Opens(p) = partial[p]
    BY <1>8 DEF Fails
  <2>5. \/ b % 3 = 0 /\ ~partial[p] /\ ~ignore[p]
        \/ b % 3 = 1 /\ partial[p] # ignore[p] /\ (ignore[p] <=> m.kind = "junk")
        \/ b % 3 = 2 /\ ~partial[p] /\ ignore[p]
    BY <1>1, <1>2, <2>3 DEF InStep
  <2>6. Opens(p) \in BOOLEAN /\ partial[p] \in BOOLEAN /\ ignore[p] \in BOOLEAN
    BY <1>2 DEF Opens, VariablesTyped
  <2>7. b % 3 = 0 /\ m.kind = "junk"
    <3> HIDE DEF b
    <3>1. b % 3 # 1
      <4> SUFFICES ASSUME b % 3 = 1 PROVE FALSE
        OBVIOUS
      <4>1. m.kind # "junk" /\ partial[p] /\ ~Opens(p)
        BY <2>2, <2>4, <2>5, <2>6
      <4> QED BY <2>4, <2>6, <4>1
    <3>2. b % 3 = 0 /\ ~partial[p] /\ Opens(p)
      BY <2>2, <2>4, <2>5, <3>1
    <3> QED BY <2>4, <2>6, <3>2
  <2>8. CASE p \in Reports
    <3>1. Send(p, Message("error", 0))
      BY <2>4, <2>8 DEF ReportError
    <3>2. Message("error", 0) \in Messages
      BY ZeroId DEF Message, Messages, Kinds
    <3>3. Sends(p, Message("error", 0))
      BY <1>2, <1>3, <3>1, <3>2, StreamSent
    <3> QED BY <2>7, <2>8, <3>2, <3>3
  <2>9. CASE p \notin Reports
    BY <1>4, <2>4, <2>9 DEF ReportError
  <2> QED BY <2>8, <2>9
<1>9. CASE Completes(p)
  <2>1. GotJson(p, m)
    BY <1>9 DEF Completes
  <2>2. CASE m.kind # "error"
    BY <1>4, <1>5, <1>6, <2>1, <2>2 DEF GotJson
  <2>3. CASE m.kind = "error"
    <3>1. ReportError(p)
      BY <2>1, <2>3 DEF GotJson
    <3>2. (Token(p) + 2) \div 3 \in OfKind(q, "error")
      BY <1>2, <2>3, TokenIsKnown DEF OfKind, Of
    <3>3. Count(q, "error") # 0 /\ Count(q, "error") \in Nat
      BY <1>1, <1>2, <3>2, CountTyped, FS_EmptySet
    <3>4. Count(q, "error") <= 0 \/ q \in Reports
      BY <1>1 DEF ErrorInv
    <3>5. q \in Reports
      BY <3>3, <3>4
    <3>6. p \notin Reports
      BY <1>1, <3>5, JsonRpcConstants
    <3> QED BY <1>4, <3>1, <3>6 DEF ReportError
  <2> QED BY <2>2, <2>3
<1> QED BY <1>1, <1>7, <1>8, <1>9 DEF Process

\* Sending something else than an error.
LEMMA CountNotError ==
  ASSUME VariablesTyped, NEW p \in Peers,
         Keeps(p) \/ (\E m \in Messages : Sends(p, m) /\ m.kind # "error") \/ LooksAt(p) \/ Loses(p)
  PROVE  Count(p, "error")' = Count(p, "error")
<1>1. CASE log'[p] = log[p]
  BY <1>1, CountKept
<1>2. CASE \E m \in Messages : log'[p] = Append(log[p], m) /\ m.kind # "error"
  <2>1. PICK m \in Messages : log'[p] = Append(log[p], m) /\ m.kind # "error"
    BY <1>2
  <2>2. Count(p, "error")' = Count(p, "error") + One(m.kind = "error")
    BY <2>1, CountSaid
  <2>3. One(m.kind = "error") = 0 /\ Count(p, "error") \in Nat
    BY <2>1, CountTyped DEF One
  <2> QED BY <2>2, <2>3
<1> QED BY <1>1, <1>2 DEF Keeps, Sends, Says, LooksAt, Loses

LEMMA ErrorInvStep ==
  ASSUME CarefulPeers, Reports # Peers, Typed, StreamInv, ErrorInv, [Next]_vars
  PROVE  ErrorInv'
<1> DEFINE Limit(p) == IF p \in Reports THEN Cardinality(Seen(Other(p))) ELSE 0
           Quiet(p) == Keeps(p) \/ (\E m \in Messages : Sends(p, m) /\ m.kind # "error") \/ LooksAt(p) \/ Loses(p)
           Acts(p) == Keeps(p) \/ (\E m \in Messages : Sends(p, m)) \/ LooksAt(p) \/ Loses(p)
<1>1. VariablesTyped /\ VariablesTyped' /\ \A p \in Peers : Whole(p) /\ Other(p) \in Peers
  BY TypedStep, PeerFacts DEF Typed, StreamInv
<1>2. \A p \in Peers : Count(p, "error") \in Nat /\ Count(p, "error") <= Limit(p) /\ Limit(p) \in Nat
  BY <1>1, CountTyped, SeenFacts DEF ErrorInv
<1>3. SUFFICES \A p \in Peers : Count(p, "error")' <= Limit(p)'
  BY DEF ErrorInv
<1>4. ASSUME NEW p \in Peers, Acts(p) PROVE Cardinality(Seen(p)) <= Cardinality(Seen(p)') /\ Cardinality(Seen(p)') \in Nat
  BY <1>1, <1>4, SeenStays, FS_CardinalityType
<1>5. ASSUME NEW p \in Peers, Quiet(p), Acts(Other(p)) PROVE Count(p, "error")' <= Limit(p)'
  <2>1. Count(p, "error")' = Count(p, "error")
    BY <1>1, <1>5, CountNotError
  <2>2. Limit(p)' \in Nat /\ Limit(p) <= Limit(p)'
    BY <1>1, <1>4, <1>5, SeenFacts
  <2> HIDE DEF Limit
  <2> QED BY <1>2, <2>1, <2>2
<1>6. ASSUME NEW p \in Peers, Talks(p) PROVE \A r \in Peers : Count(r, "error")' <= Limit(r)'
  <2>1. Quiet(p) /\ Quiet(Other(p)) /\ Acts(p) /\ Acts(Other(p))
    BY <1>1, <1>6, TalksStep, TalksAreNoErrors
  <2> HIDE DEF Quiet, Acts
  <2>2. \A r \in Peers : Quiet(r) /\ Acts(Other(r))
    BY <2>1, PeerFacts
  <2> QED BY <1>5, <2>2
<1>7. ASSUME NEW p \in Peers, Process(p) PROVE \A r \in Peers : Count(r, "error")' <= Limit(r)'
  <2> DEFINE q == Other(p)
  <2>1. q \in Peers /\ Other(q) = p /\ p # q /\ \A r \in Peers : r = p \/ r = q
    BY PeerFacts
  <2>2. LooksAt(q) /\ (Keeps(p) \/ \E m \in Messages : Sends(p, m))
    BY <1>7, ProcessStep
  <2>3. Count(q, "error")' <= Limit(q)'
    BY <1>5, <2>1, <2>2
  <2>4. Count(p, "error")' <= Limit(p)'
    <3>1. CASE Quiet(p)
      BY <1>5, <2>1, <2>2, <3>1
    <3>2. CASE p \in Reports /\ Behind(q) % 3 = 0 /\ Of(p).kind = "junk" /\ \E m \in Messages : Sends(p, m)
      <4>1. Cardinality(Seen(q)) + 1 <= Cardinality(Seen(q)')
        BY <1>1, <1>7, <2>1, <2>2, <3>2, JunkSeen DEF Process
      <4>2. Count(p, "error")' = Count(p, "error") \/ Count(p, "error")' = Count(p, "error") + 1
        <5>1. CASE log'[p] = log[p]
          BY <5>1, CountKept
        <5>2. CASE \E m \in Messages : log'[p] = Append(log[p], m)
          <6>1. PICK m \in Messages : log'[p] = Append(log[p], m)
            BY <5>2
          <6>2. Count(p, "error")' = Count(p, "error") + One(m.kind = "error")
            BY <1>1, <6>1, CountSaid
          <6>3. One(m.kind = "error") \in {0, 1}
            BY DEF One
          <6> QED BY <1>2, <6>2, <6>3
        <5> QED BY <3>2, <5>1, <5>2 DEF Sends, Says, Keeps
      <4>3. Limit(p) = Cardinality(Seen(q)) /\ Limit(p)' = Cardinality(Seen(q)')
        BY <3>2
      <4>4. Cardinality(Seen(q)') \in Nat
        BY <1>4, <2>1, <2>2
      <4> DEFINE x == Count(p, "error")
                 y == Count(p, "error")'
                 u == Cardinality(Seen(q))
                 v == Cardinality(Seen(q)')
      <4>5. x \in Nat /\ x <= u /\ u \in Nat /\ v \in Nat /\ u + 1 <= v /\ (y = x \/ y = x + 1)
        BY <1>2, <4>1, <4>2, <4>3, <4>4
      <4> HIDE DEF x, y, u, v
      <4>6. y <= v
        BY <4>5
      <4> QED BY <4>3, <4>6 DEF y, v
    <3> QED BY <1>7, <3>1, <3>2, ErrorsForJunk
  <2> HIDE DEF q
  <2> QED BY <2>1, <2>3, <2>4
<1>8. ASSUME Reconnect PROVE \A r \in Peers : Count(r, "error")' <= Limit(r)'
  <2>1. \A r \in Peers : Loses(r)
    BY <1>1, <1>8, ReconnectStep DEF CarefulPeers, Peers
  <2>2. \A r \in Peers : Quiet(r) /\ Acts(Other(r))
    BY <1>1, <2>1
  <2> HIDE DEF Quiet, Acts
  <2> QED BY <1>5, <2>2
<1>9. ASSUME UNCHANGED vars PROVE \A r \in Peers : Count(r, "error")' <= Limit(r)'
  <2>1. \A r \in Peers : Keeps(r)
    BY <1>9, PeerFacts, StreamSame DEF vars
  <2>2. \A r \in Peers : Quiet(r) /\ Acts(Other(r))
    BY <1>1, <2>1
  <2> HIDE DEF Quiet, Acts
  <2> QED BY <1>5, <2>2
<1> QED BY <1>6, <1>7, <1>8, <1>9, NextCases

LEMMA ErrorInvInit == Init => ErrorInv
<1> SUFFICES ASSUME Init, NEW p \in Peers
             PROVE  Count(p, "error") <= IF p \in Reports THEN Cardinality(Seen(Other(p))) ELSE 0
  BY DEF ErrorInv
<1>1. VariablesTyped /\ Other(p) \in Peers
  BY TypedInit, PeerFacts DEF Typed
<1>2. OfKind(p, "error") = {}
  BY DEF Init, OfKind
<1>3. Count(p, "error") = 0
  BY <1>1, <1>2, CountTyped, FS_EmptySet
<1>4. Cardinality(Seen(Other(p))) \in Nat
  BY <1>1, SeenFacts
<1> QED BY <1>3, <1>4

\* Every request that waits is in exactly one place, and errors are not answered with errors without end:
\* where a write does not fail, and not both peers report all errors.
THEOREM AnswersAlwaysMatch ==
  ASSUME CarefulPeers, ~Blocks, Reports # Peers
  PROVE  Spec => []AnswersMatchRequests
<1> DEFINE I == Typed /\ StreamInv /\ MatchInv /\ ErrorInv
<1>1. Init => I
  BY TypedInit, StreamInvInit, MatchInvInit, ErrorInvInit
<1>2. I /\ [Next]_vars => I'
  BY TypedStep, StreamInvStep, MatchInvStep, ErrorInvStep
<1>3. I => AnswersMatchRequests
  <2> SUFFICES ASSUME I PROVE AnswersMatchRequests
    OBVIOUS
  <2>1. RequestsAreSomewhere
    <3> SUFFICES ASSUME NEW p \in Peers, NEW id \in 1..counter[p]
                 PROVE  InTransit(p, "request", id) + InTransit(Other(p), "answer", id)
                          + (IF id \in todo[Other(p)] THEN 1 ELSE 0)
                        = IF id \in pending[p] \ lost[p] THEN 1 ELSE 0
      BY DEF RequestsAreSomewhere
    <3>1. /\ InTransit(p, "request", id) = Number(p, "request", id)
          /\ InTransit(Other(p), "answer", id) = Number(Other(p), "answer", id)
      BY PeerFacts, InTransitIsNumber
    <3>2. Places(p, id) = Waits(p, id)
      BY DEF MatchInv, Balanced
    <3> QED BY <3>1, <3>2 DEF Places, Waits, One
  <2>2. NoErrorLoop
    <3> SUFFICES ASSUME NEW p \in Peers PROVE Count(p, "error") <= Count(Other(p), "junk")
      BY DEF NoErrorLoop
    <3>1. VariablesTyped /\ Other(p) \in Peers
      BY PeerFacts DEF Typed
    <3>2. /\ Count(p, "error") \in Nat /\ Count(Other(p), "junk") \in Nat
          /\ Cardinality(Seen(Other(p))) \in Nat
          /\ Cardinality(Seen(Other(p))) <= Count(Other(p), "junk")
      BY <3>1, CountTyped, SeenFacts
    <3>3. Count(p, "error") <= IF p \in Reports THEN Cardinality(Seen(Other(p))) ELSE 0
      BY DEF ErrorInv
    <3> QED BY <3>2, <3>3
  <2> QED BY <2>1, <2>2 DEF AnswersMatchRequests
<1> HIDE DEF I
<1>4. I /\ [][Next]_vars => []I
  BY <1>2, PTL
<1> QED BY <1>1, <1>3, <1>4, PTL DEF Spec
=============================================================================
