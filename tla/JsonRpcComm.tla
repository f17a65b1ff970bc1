---------------------------- MODULE JsonRpcComm ----------------------------
(***************************************************************************)
(* Two programs that talk JSON-RPC over a stream socket                    *)
(* (src/jsonrpccomm.cpp and src/jsoncomm.cpp, with what they use of        *)
(* src/fdcomm.cpp).  Messages are written in pieces, arrive in other       *)
(* pieces, and are put together again by the JSON parser; requests get an  *)
(* id, and answers find their callback by it.                              *)
(*                                                                         *)
(* The n-th message of a peer is a run of three tokens: 3n-2 opens the     *)
(* JSON object, 3n-1 closes it, and 3n is the end-of-message character.    *)
(* What it says is looked up in `log'.  A peer is one thread: while a      *)
(* chunk of data is being processed it only does what the handlers called  *)
(* by that do.                                                             *)
(***************************************************************************)
EXTENDS Integers, Sequences, FiniteSets, FiniteSetsExt, SequencesExt

CONSTANTS
  MaxRequests,  \* bound: requests and notifications of each peer
  MaxJunk,      \* bound: messages of each peer that are no JSON
  Serves,       \* peers with a request handler
  Reports,      \* peers with setReportAllErrors()
  Closes,       \* peers that call closeAfterSend()
  Raw,          \* peers with setRawMessageHandler(): lines of text instead of JSON
  Blocks,       \* whether a write may find the socket full (EAGAIN)
  MaxConnections, \* bound: how often peer 1 connects, each time to a new object at the other end
  CarriesOver   \* whether it does so with a message half sent or received, or a request to answer

Peers == {1, 2}

ASSUME JsonRpcConstants ==
  /\ MaxRequests \in [Peers -> Nat] /\ MaxJunk \in [Peers -> Nat]
  /\ Serves \subseteq Peers /\ Reports \subseteq Peers /\ Closes \subseteq Peers
  /\ Raw \subseteq Peers /\ Blocks \in BOOLEAN
  /\ MaxConnections \in Nat \ {0} /\ CarriesOver \in BOOLEAN

VARIABLES
  open,         \* mConnectionOpen
  buffer,       \* transmitBuffer: tokens that wait for the socket
  closing,      \* closeWhenSent
  wire,         \* tokens the kernel has accepted from a peer
  chunk,        \* tokens gotData() has read and not yet looked at
  partial,      \* the tokener has seen the beginning of an object
  ignore,       \* ignoreUntilNextEOM
  line,         \* textLine of raw mode
  pending,      \* pendingAnswers: ids of requests that wait for an answer
  counter,      \* requestIdCounter
  todo,         \* ids of requests the application has got and not yet answered
  log,          \* the messages of each peer, in order
  connections,  \* history: connections made
  lost,         \* history: ids of requests that were waiting when the connection was lost
  promised,     \* history: messages sent before the peer has closed the connection, or NotClosed
  torn          \* history: a peer has got a part of a message for a whole one

vars == <<open, buffer, closing, wire, chunk, partial, ignore, line, pending, counter, todo, log,
          connections, lost, promised, torn>>
sending == <<buffer, wire, log>>
parsing == <<partial, ignore, line, torn>>
rpc == <<pending, counter, todo>>
history == <<connections, lost, promised>>

NotClosed == -1

Other(p) == 3 - p

Kinds == {"request", "notify", "answer", "error", "junk"}
Message(kind, id) == [kind |-> kind, id |-> id]

Init ==
  /\ open = [p \in Peers |-> TRUE] /\ closing = [p \in Peers |-> FALSE]
  /\ buffer = [p \in Peers |-> <<>>] /\ wire = [p \in Peers |-> <<>>]
  /\ chunk = [p \in Peers |-> <<>>] /\ line = [p \in Peers |-> <<>>]
  /\ partial = [p \in Peers |-> FALSE] /\ ignore = [p \in Peers |-> FALSE]
  /\ pending = [p \in Peers |-> {}] /\ counter = [p \in Peers |-> 0] /\ todo = [p \in Peers |-> {}]
  /\ log = [p \in Peers |-> <<>>] /\ torn = FALSE
  /\ connections = 1 /\ lost = [p \in Peers |-> {}] /\ promised = [p \in Peers |-> NotClosed]

(***************************************************************************)
(* Sending                                                                 *)
(***************************************************************************)
Upto(first, last) == [i \in 1..(last - first + 1) |-> first + i - 1]

\* The socket accepts some of the tokens; what is left is buffered.  Without a connection nothing is
\* accepted, and that is no error.
Accepts(p, tokens) ==
  \E n \in IF open[p] THEN 1..Len(tokens) ELSE {0} :
    /\ wire' = [wire EXCEPT ![p] = @ \o SubSeq(tokens, 1, n)]
    /\ buffer' = [buffer EXCEPT ![p] = SubSeq(tokens, n + 1, Len(tokens))]

\* Mutant: writes at once although other messages wait.
Mutant_Send_Overtakes(p, m) ==
  LET n == Len(log[p]) + 1
      tokens == Upto(3 * n - 2, 3 * n)
      mayFail == Blocks /\ open[p] /\ buffer[p] = <<>>
  IN \E fails \in IF mayFail THEN BOOLEAN ELSE {FALSE} :
       IF fails THEN UNCHANGED sending
       ELSE /\ log' = [log EXCEPT ![p] = Append(@, m)]
            /\ IF open[p] /\ buffer[p] # <<>>
               THEN wire' = [wire EXCEPT ![p] = @ \o tokens] /\ UNCHANGED buffer
               ELSE Accepts(p, buffer[p] \o tokens)

\* sendMessage(), sendRaw(): a message goes behind those that wait already; else it is written at
\* once.  If that fails the message is dropped, and the caller gets the error.
Send(p, m) ==
  LET n == Len(log[p]) + 1
      tokens == Upto(3 * n - 2, 3 * n)
      mayFail == Blocks /\ open[p] /\ buffer[p] = <<>>
  IN \E fails \in IF mayFail THEN BOOLEAN ELSE {FALSE} :
       IF fails THEN UNCHANGED sending
       ELSE /\ log' = [log EXCEPT ![p] = Append(@, m)]
            /\ IF buffer[p] # <<>>
               THEN buffer' = [buffer EXCEPT ![p] = @ \o tokens] /\ UNCHANGED wire
               ELSE Accepts(p, tokens)

\* canSendData(): the socket accepts more of the buffer, and is closed after the last of it if that has
\* been asked for.
CanSend(p) ==
  /\ open[p] /\ buffer[p] # <<>> /\ chunk[p] = <<>>
  /\ Accepts(p, buffer[p])
  /\ IF closing[p] /\ buffer'[p] = <<>>
     THEN /\ closing' = [closing EXCEPT ![p] = FALSE]
          /\ open' = [open EXCEPT ![p] = FALSE]
          /\ promised' = [promised EXCEPT ![p] = Len(log[p])]
     ELSE UNCHANGED <<closing, open, promised>>
  /\ UNCHANGED <<chunk, parsing, rpc, log, connections, lost>>

CloseAfterSend(p) ==
  /\ p \in Closes /\ open[p] /\ ~closing[p]
  /\ IF buffer[p] = <<>>
     THEN /\ open' = [open EXCEPT ![p] = FALSE]
          /\ promised' = [promised EXCEPT ![p] = Len(log[p])]
          /\ UNCHANGED closing
     ELSE closing' = [closing EXCEPT ![p] = TRUE] /\ UNCHANGED <<open, promised>>
  /\ UNCHANGED <<sending, chunk, parsing, rpc, connections, lost>>

\* sendRequest(): the id is counted, and the callback stored, whatever becomes of the message.
SendRequest(p) ==
  /\ open[p] /\ counter[p] < MaxRequests[p]
  /\ counter' = [counter EXCEPT ![p] = @ + 1]
  /\ pending' = [pending EXCEPT ![p] = @ \cup {counter'[p]}]
  /\ Send(p, Message("request", counter'[p]))
  /\ UNCHANGED <<open, closing, chunk, parsing, todo, history>>

\* sendRequest() without a callback.
SendNotification(p) ==
  /\ open[p] /\ counter[p] < MaxRequests[p]
  /\ counter' = [counter EXCEPT ![p] = @ + 1]
  /\ Send(p, Message("notify", 0))
  /\ UNCHANGED <<open, closing, chunk, parsing, pending, todo, history>>

\* sendResult(), sendError(): the application answers a request, in the handler or later.
Answer(p) ==
  /\ \E id \in todo[p] :
       /\ todo' = [todo EXCEPT ![p] = @ \ {id}]
       /\ Send(p, Message("answer", id))
  /\ UNCHANGED <<open, closing, chunk, parsing, pending, counter, history>>

\* A program at the other end that is not this one sends something that is no JSON.
SendJunk(p) ==
  /\ open[p] /\ Len(SelectSeq(log[p], LAMBDA m : m.kind = "junk")) < MaxJunk[p]
  /\ Send(p, Message("junk", 0))
  /\ UNCHANGED <<open, closing, chunk, parsing, rpc, history>>

(***************************************************************************)
(* Receiving                                                               *)
(***************************************************************************)
\* gotData() reads what has arrived.
Receive(p) ==
  /\ open[p] /\ chunk[p] = <<>>
  /\ \E n \in 1..Len(wire[Other(p)]) :
       /\ chunk' = [chunk EXCEPT ![p] = SubSeq(wire[Other(p)], 1, n)]
       /\ wire' = [wire EXCEPT ![Other(p)] = SubSeq(@, n + 1, Len(@))]
  /\ UNCHANGED <<open, closing, parsing, rpc, buffer, log, history>>

Token(p) == Head(chunk[p])
Of(p) == log[Other(p)][(Token(p) + 2) \div 3]
Opens(p) == Token(p) % 3 = 1
Ends(p) == Token(p) % 3 = 0

\* An error without an id is sent back only by those who report all errors.
ReportError(p) == IF p \in Reports THEN Send(p, Message("error", 0)) ELSE UNCHANGED sending

\* Mutant: the callback of an answered request stays.
Mutant_GotJson_KeepsCallback(p, m) ==
  /\ todo' = IF m.kind = "request" /\ p \in Serves THEN [todo EXCEPT ![p] = @ \cup {m.id}] ELSE todo
  /\ pending' = pending
  /\ IF m.kind = "request" /\ p \notin Serves THEN Send(p, Message("answer", m.id))
     ELSE IF m.kind = "error" THEN ReportError(p)
     ELSE UNCHANGED sending

\* gotJson(): a request goes to the handler; an answer to the callback that waits for its id.  Errors
\* in requests can be answered; those in answers without an id only with setReportAllErrors().
GotJson(p, m) ==
  /\ todo' = IF m.kind = "request" /\ p \in Serves THEN [todo EXCEPT ![p] = @ \cup {m.id}] ELSE todo
  /\ pending' = IF m.kind = "answer" THEN [pending EXCEPT ![p] = @ \ {m.id}] ELSE pending
  /\ IF m.kind = "request" /\ p \notin Serves THEN Send(p, Message("answer", m.id))
     ELSE IF m.kind = "error" THEN ReportError(p)
     ELSE UNCHANGED sending

Begins(p) ==
  /\ ~ignore[p] /\ Opens(p) /\ Of(p).kind # "junk" /\ ~partial[p]
  /\ partial' = [partial EXCEPT ![p] = TRUE]
  /\ UNCHANGED <<ignore, torn, pending, todo, sending>>

Completes(p) ==
  /\ ~ignore[p] /\ ~Opens(p) /\ ~Ends(p) /\ partial[p]
  /\ partial' = [partial EXCEPT ![p] = FALSE]
  /\ ignore' = [ignore EXCEPT ![p] = TRUE]
  /\ GotJson(p, Of(p))
  /\ UNCHANGED torn

\* The parser fails: on what is no JSON, or on a part of a message.
Fails(p) ==
  /\ ~ignore[p] /\ ~Ends(p)
  /\ Of(p).kind = "junk" \/ Opens(p) = partial[p]
  /\ partial' = [partial EXCEPT ![p] = FALSE]
  /\ ignore' = [ignore EXCEPT ![p] = TRUE]
  /\ torn' = (torn \/ Of(p).kind # "junk")
  /\ ReportError(p)
  /\ UNCHANGED <<pending, todo>>

\* Mutant: does not notice the end of the message.
Mutant_Skips_Forever(p) ==
  /\ ignore[p] \/ Ends(p)
  /\ ignore' = [ignore EXCEPT ![p] = @]
  /\ UNCHANGED <<partial, torn, pending, todo, sending>>

\* The rest of a message is skipped up to its end.
Skips(p) ==
  /\ ignore[p] \/ Ends(p)
  /\ ignore' = [ignore EXCEPT ![p] = @ /\ ~Ends(p)]
  /\ UNCHANGED <<partial, torn, pending, todo, sending>>

\* Raw mode: the text up to the end of the line, or of the data, is appended to the line; at the end of
\* the line it is passed on, and in either case a new line begins.
ReadsLine(p) ==
  LET text == Append(line[p], Token(p))
  IN /\ line' = [line EXCEPT ![p] = IF Ends(p) \/ Len(chunk[p]) = 1 THEN <<>> ELSE text]
     /\ torn' = (torn \/ (Ends(p) /\ Len(text) < 3))
     /\ UNCHANGED <<partial, ignore, pending, todo, sending>>

Process(p) ==
  /\ chunk[p] # <<>>
  /\ chunk' = [chunk EXCEPT ![p] = Tail(@)]
  /\ IF p \in Raw THEN ReadsLine(p)
     ELSE (Begins(p) \/ Completes(p) \/ Fails(p) \/ Skips(p)) /\ UNCHANGED line
  /\ UNCHANGED <<open, closing, counter, history>>

\* Mutant: gives up before everything has been read.
Mutant_HangUp_First(p) ==
  /\ open[p] /\ ~open[Other(p)] /\ chunk[p] = <<>>
  /\ open' = [open EXCEPT ![p] = FALSE]
  /\ UNCHANGED <<closing, sending, chunk, parsing, rpc, history>>

\* The other end has closed, and everything it has sent has been read.
HangUp(p) ==
  /\ open[p] /\ ~open[Other(p)] /\ wire[Other(p)] = <<>> /\ chunk[p] = <<>>
  /\ open' = [open EXCEPT ![p] = FALSE]
  /\ UNCHANGED <<closing, sending, chunk, parsing, rpc, history>>

\* Peer 1 connects again with what it has kept; at the other end there is a new object.
Reconnect ==
  /\ connections < MaxConnections /\ \A p \in Peers : ~open[p] /\ chunk[p] = <<>>
  /\ CarriesOver \/ (buffer[1] = <<>> /\ ~partial[1] /\ ~ignore[1] /\ todo[1] = {})
  /\ connections' = connections + 1
  /\ open' = [p \in Peers |-> TRUE]
  /\ wire' = [p \in Peers |-> <<>>]
  /\ buffer' = [buffer EXCEPT ![2] = <<>>] /\ closing' = [closing EXCEPT ![2] = FALSE]
  /\ partial' = [partial EXCEPT ![2] = FALSE] /\ ignore' = [ignore EXCEPT ![2] = FALSE]
  /\ line' = [line EXCEPT ![2] = <<>>]
  /\ counter' = [counter EXCEPT ![2] = 0]
  /\ pending' = [pending EXCEPT ![2] = {}] /\ todo' = [todo EXCEPT ![2] = {}]
  /\ lost' = [lost EXCEPT ![1] = pending[1]]
  /\ promised' = [p \in Peers |-> NotClosed]
  /\ UNCHANGED <<chunk, log, torn>>

Next ==
  \/ \E p \in Peers : CanSend(p) \/ CloseAfterSend(p) \/ SendRequest(p) \/ SendNotification(p)
  \/ \E p \in Peers : Answer(p) \/ SendJunk(p) \/ Receive(p) \/ Process(p) \/ HangUp(p)
  \/ Reconnect

Spec == Init /\ [][Next]_vars

\* Both mainloops serve their descriptor, and applications answer requests.
FairSpec ==
  /\ Spec
  /\ \A p \in Peers : WF_vars(CanSend(p)) /\ WF_vars(Receive(p)) /\ WF_vars(Process(p))
  /\ \A p \in Peers : WF_vars(HangUp(p)) /\ WF_vars(Answer(p))

(***************************************************************************)
(* Properties                                                              *)
(***************************************************************************)
\* The tokens on their way from a peer to the other one.
Stream(p) == chunk[Other(p)] \o wire[p] \o buffer[p]

TypeOK ==
  /\ \A f \in {open, closing, partial, ignore} : f \in [Peers -> BOOLEAN]
  /\ \A f \in {buffer, wire, chunk, line} : f \in [Peers -> Seq(Nat \ {0})]
  /\ \A p \in Peers :
       /\ log[p] \in Seq([kind : Kinds, id : 0..MaxRequests[1] + MaxRequests[2]])
       /\ counter[p] \in 0..MaxRequests[p]
       /\ pending[p] \subseteq 1..counter[p] /\ lost[p] \subseteq pending[p]
       /\ todo[p] # {} => p \in Serves
       /\ promised[p] \in {NotClosed} \cup 0..Len(log[p])
  /\ connections \in 1..MaxConnections /\ torn \in BOOLEAN

\* Messages arrive whole, once and in order, however they are cut into pieces: what is on its way is
\* exactly the rest of what has been sent, and the parser is at the place in a message where it begins.
StreamIntact ==
  /\ TypeOK
  /\ \A p \in Peers :
       LET stream == Stream(p)
           q == Other(p)
       IN /\ stream # <<>> => stream = Upto(Head(stream), 3 * Len(log[p]))
          /\ IF stream = <<>> \/ Head(stream) % 3 = 1 THEN ~partial[q] /\ ~ignore[q]
             ELSE IF Head(stream) % 3 = 0 THEN ignore[q]
             ELSE partial[q] # ignore[q]
          /\ ~torn

InTransit(p, kind, id) ==
  Cardinality({i \in DOMAIN Stream(p) :
    /\ Stream(p)[i] % 3 = 2 /\ log[p][(Stream(p)[i] + 2) \div 3] = Message(kind, id)})

\* As long as the connection is open, every request that waits for its answer is in exactly one place: on
\* its way, with the application of the other peer, or its answer is on its way; and there is nothing else
\* with that id.
RequestsAreSomewhere ==
  \A p \in Peers :
    open[p] /\ open[Other(p)] =>
      \A id \in 1..counter[p] :
        InTransit(p, "request", id) + InTransit(Other(p), "answer", id)
          + (IF id \in todo[Other(p)] THEN 1 ELSE 0)
        = IF id \in pending[p] \ lost[p] THEN 1 ELSE 0

\* What has been sent before closeAfterSend() arrives before the other peer gives the connection up.
LastWordsArrive ==
  \A p \in Peers :
    promised[p] # NotClosed /\ ~open[Other(p)] /\ promised[Other(p)] = NotClosed =>
      \A i \in DOMAIN Stream(p) : Stream(p)[i] > 3 * promised[p]

Count(p, kind) == Cardinality({n \in DOMAIN log[p] : log[p][n].kind = kind})

\* Errors are not answered with errors: what cannot be parsed is reported at most once.
NoErrorLoop == \A p \in Peers : Count(p, "error") <= Count(Other(p), "junk")

\* Answers and requests match one to one, and errors do not breed.
AnswersMatchRequests == RequestsAreSomewhere /\ NoErrorLoop

\* As long as the connection is open every request is answered, and closeAfterSend() closes it.
RequestsEnd ==
  /\ \A p \in Peers : closing[p] ~> ~closing[p] \/ ~open[p]
  /\ \A p \in Peers : \A id \in 1..MaxRequests[p] :
       (id \in pending[p] \ lost[p]) ~> (id \notin pending[p] \/ ~open[p] \/ ~open[Other(p)])

\* What the documentation of setRawMessageHandler() says: the handler is called with complete lines.
LinesAreComplete == ~torn
=============================================================================
