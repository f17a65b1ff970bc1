----------------------------- MODULE CommProofs -----------------------------
(***************************************************************************)
(* Proofs about the two clients of the network, HttpComm and SocketComm;   *)
(* they share nothing but this module.                                     *)
(*                                                                         *)
(* HttpComm, for any requests and any responses: the client knows the      *)
(* thread that works for it, and the callback of a request gets what came  *)
(* for this request.                                                       *)
(*                                                                         *)
(* SocketComm, for any sockets, descriptors and addresses, and whatever    *)
(* handlers do in the middle of a call: the invariant says of each socket  *)
(* which descriptor is its own, of each descriptor that somebody has it,   *)
(* and of each client what the application believes of it, which differs   *)
(* from what is only while a handler that says so is under way.  Each      *)
(* action changes one socket (and sometimes the server), and a step keeps  *)
(* the invariant for those it does not touch.                              *)
(***************************************************************************)
EXTENDS HttpComm, SocketComm, ListLemmas, FiniteSetTheorems

-----------------------------------------------------------------------------
(* The HTTP client: what the invariants say *)

\* What an application must not do in the callback of a JSON request.
CarefulJson == AppDoes \cap {"nextInJson", "deleteInJson"} = {}

\* The connection is open only while the thread reads, the thread has ended when
\* it says so, and in the callback of a JSON request there is no other one.
ThreadInv ==
  /\ mgConn => thread.pc \in {"read", "signal", "wait", "end"}
  /\ \A i \in DOMAIN thread.pipe : thread.pipe[i] = "completed" => thread.pc = "ended"
  /\ main = "json" => ~inProgress
  /\ Running => thread.of \in Requests

\* The inductive invariant of the thread.
HttpInv == ThreadIsOwned /\ ThreadInv

\* The application makes requests, cancels them and releases the client as it likes, but
\* does not make the next request in a callback, a JSON request while it is busy, or a
\* plain one after a cancelled JSON request.
CarefulApplication == AppDoes \subseteq {"startFails"}

\* A request in progress has its own callback, and no other one is set.
CallbackInv ==
  /\ \A r \in Requests : state[r] = "new" => chunks[r] = 0
  /\ inProgress =>
       /\ child \in Requests /\ state[child] = "accepted"
       /\ streaming = (Kind[child] = "stream")
       /\ callback = (IF IsJson(child) THEN NoRequest ELSE child)
       /\ jsonCallback = (IF IsJson(child) THEN child ELSE NoRequest)

\* What is in the pipe and in mResponse while the thread is at a place, and that the callback for
\* a chunk runs while the thread waits for it, or after its request has been cancelled.
ResponseInv ==
  /\ Running /\ thread.pc # "starts" => response.of = thread.of
  /\ thread.pc \in {"starts", "read", "signal", "end"} => thread.pipe = <<>>
  /\ thread.pc = "ended" => thread.pipe = <<"completed">>
  /\ thread.pc = "none" => thread.pipe = <<>>
  /\ thread.pc \in {"signal", "wait"} => streaming
  /\ thread.pc \in {"end", "ended"} /\ streaming => failed \/ response.chunk = 0
  /\ thread.pc = "starts" => chunks[thread.of] = 0
  /\ thread.pc = "read" /\ streaming => response.chunk = chunks[thread.of]
  /\ thread.pc = "signal" => pending /\ response.chunk = chunks[thread.of] + 1
  /\ thread.pc = "wait" =>
       \/ /\ pending /\ thread.pipe = <<"data">> /\ main # "chunk"
          /\ response.chunk = chunks[thread.of] + 1
       \/ /\ thread.pipe = <<>> /\ (pending <=> main = "chunk")
          /\ response.chunk = chunks[thread.of]
  /\ main = "chunk" =>
       \/ thread.pc = "wait" /\ called = thread.of
       \/ thread.pc = "none" /\ ~inProgress /\ called \in Requests /\ state[called] # "accepted"

\* The inductive invariant of the answers.
OwnInv == HttpInv /\ CallbackInv /\ ResponseInv

\* The states of the thread.
Threads == [pc : ThreadSteps, of : MaybeRequest, pipe : Seq({"data", "completed"})]

-----------------------------------------------------------------------------
\* A signal is appended to the pipe, and those before it stay.
LEMMA PipeAppend ==
  ASSUME NEW p \in Seq({"data", "completed"}), NEW sig \in {"data", "completed"}
  PROVE  /\ Append(p, sig) \in Seq({"data", "completed"})
         /\ \A i \in DOMAIN Append(p, sig) :
              Append(p, sig)[i] = sig \/ \E j \in DOMAIN p : Append(p, sig)[i] = p[j]
<1>1. /\ Append(p, sig) \in Seq({"data", "completed"})
      /\ Len(Append(p, sig)) = Len(p) + 1
      /\ \A i \in 1..Len(p) : Append(p, sig)[i] = p[i]
      /\ Append(p, sig)[Len(p) + 1] = sig
  BY AppendProperties
<1>2. DOMAIN p = 1..Len(p) /\ DOMAIN Append(p, sig) = 1..(Len(p) + 1) /\ Len(p) \in Nat
  BY <1>1
<1>3. ASSUME NEW i \in 1..(Len(p) + 1)
      PROVE  Append(p, sig)[i] = sig \/ \E j \in 1..Len(p) : Append(p, sig)[i] = p[j]
  <2>1. CASE i = Len(p) + 1
    BY <2>1, <1>1
  <2>2. CASE i \in 1..Len(p)
    BY <2>2, <1>1
  <2> QED BY <2>1, <2>2, <1>2
<1> QED BY <1>1, <1>2, <1>3

\* Reading a signal leaves the others in the pipe.
LEMMA PipeTail ==
  ASSUME NEW p \in Seq({"data", "completed"}), p # <<>>
  PROVE  /\ Tail(p) \in Seq({"data", "completed"}) /\ Head(p) = p[1] /\ 1 \in DOMAIN p
         /\ \A i \in DOMAIN Tail(p) : \E j \in DOMAIN p : Tail(p)[i] = p[j]
<1>1. /\ Tail(p) \in Seq({"data", "completed"}) /\ Head(p) = p[1]
      /\ Len(Tail(p)) = Len(p) - 1 /\ Len(p) \in Nat \ {0}
      /\ \A i \in 1..(Len(p) - 1) : Tail(p)[i] = p[i + 1]
  BY HeadTailProperties
<1>2. DOMAIN p = 1..Len(p) /\ DOMAIN Tail(p) = 1..(Len(p) - 1)
  BY <1>1
<1>3. ASSUME NEW i \in 1..(Len(p) - 1) PROVE \E j \in 1..Len(p) : Tail(p)[i] = p[j]
  <2>1. i + 1 \in 1..Len(p) /\ Tail(p)[i] = p[i + 1]
    BY <1>1
  <2> QED BY <2>1
<1> QED BY <1>1, <1>2, <1>3

-----------------------------------------------------------------------------
\* At the start there is no thread.
LEMMA HttpInitHolds == HttpInit => HttpInv
<1> SUFFICES ASSUME HttpInit PROVE HttpInv
  OBVIOUS
<1>1. NoThread \in Threads /\ NoThread.pc = "none" /\ NoThread.pipe = <<>>
  BY DEF NoThread, Threads, ThreadSteps, MaybeRequest
<1>2. [of |-> NoRequest, chunk |-> 0] \in [of : MaybeRequest, chunk : 0..MaxChunks]
  BY HttpConstants DEF MaybeRequest
<1>3. thread.pc = "none" /\ thread.pipe = <<>> /\ thread \in Threads
  BY <1>1 DEF HttpInit
<1>4. HttpTypeOK
  BY <1>2, <1>3 DEF HttpInit, HttpTypeOK, Threads, MaybeRequest, Outcomes
<1>5. ThreadInv
  BY <1>3 DEF HttpInit, ThreadInv, Running
<1> QED BY <1>3, <1>4, <1>5 DEF HttpInit, HttpInv, ThreadIsOwned, Running

\* A request is made: there was no thread, and the object knows the new one.
LEMMA AcceptRequestKeeps ==
  ASSUME HttpInv, CarefulJson, NEW r \in Requests, AcceptRequest(r)
  PROVE  HttpInv'
<1> USE DEF HttpInv, ThreadIsOwned
<1>1. /\ ~deleted /\ ~inProgress /\ main # "json" /\ child' = r /\ inProgress' = TRUE
      /\ state' = [state EXCEPT ![r] = "accepted"]
      /\ UNCHANGED <<pending, response, mgConn, main, called, deleted, chunks>>
      /\ thread' = [pc |-> "starts", of |-> r, pipe |-> <<>>] \/ thread' = thread
  BY DEF AcceptRequest, MayRequest, CarefulJson
<1>2. ~Running /\ ~mgConn
  BY <1>1
<1>3. /\ jsonCallback' \in MaybeRequest /\ callback' \in MaybeRequest
      /\ streaming' \in BOOLEAN /\ failed' \in BOOLEAN
  BY DEF AcceptRequest, HttpTypeOK, MaybeRequest
<1>4. thread' \in Threads
  <2>1. [pc |-> "starts", of |-> r, pipe |-> <<>>] \in Threads
    BY DEF Threads, ThreadSteps, MaybeRequest
  <2>2. thread \in Threads
    BY DEF HttpTypeOK, Threads
  <2> QED BY <1>1, <2>1, <2>2
<1>5. state' \in [Requests -> Outcomes]
  BY <1>1 DEF HttpTypeOK, Outcomes
<1>6. HttpTypeOK'
  BY <1>1, <1>3, <1>4, <1>5 DEF HttpTypeOK, Threads, MaybeRequest
<1>7. ASSUME Running' PROVE thread'.of = r
  <2>1. CASE thread' = [pc |-> "starts", of |-> r, pipe |-> <<>>]
    BY <2>1
  <2>2. CASE thread' = thread
    BY <2>2, <1>2, <1>7 DEF Running
  <2> QED BY <1>1, <2>1, <2>2
<1>8. ThreadInv'
  <2>1. \A i \in DOMAIN thread'.pipe : thread'.pipe[i] = "completed" => thread'.pc = "ended"
    <3>1. CASE thread' = [pc |-> "starts", of |-> r, pipe |-> <<>>]
      BY <3>1
    <3>2. CASE thread' = thread
      BY <3>2 DEF ThreadInv
    <3> QED BY <1>1, <3>1, <3>2
  <2> QED BY <1>1, <1>2, <1>7, <2>1 DEF ThreadInv
<1> QED BY <1>1, <1>2, <1>6, <1>7, <1>8

\* A request is refused.
LEMMA RefuseKeeps ==
  ASSUME HttpInv, NEW r \in Requests, Refuse(r)
  PROVE  HttpInv'
<1> USE DEF HttpInv, ThreadIsOwned
<1>1. /\ state' = [state EXCEPT ![r] = "refused"]
      /\ jsonCallback' = (IF IsJson(r) THEN r ELSE jsonCallback)
      /\ UNCHANGED <<inProgress, child, callback, streaming, pending, response, failed, mgConn, thread,
                     main, called, deleted, chunks>>
  BY DEF Refuse, shared
<1>2. HttpTypeOK'
  BY <1>1 DEF HttpTypeOK, Outcomes, MaybeRequest
<1> QED BY <1>1, <1>2 DEF ThreadInv, Running

\* Killing the thread leaves none, and no connection.
LEMMA CancelledEndsThread ==
  ASSUME HttpInv, Cancelled
  PROVE  /\ ~Running' /\ ~mgConn' /\ (inProgress' => inProgress)
         /\ thread' \in Threads /\ mgConn' \in BOOLEAN /\ inProgress' \in BOOLEAN
         /\ state' \in [Requests -> Outcomes]
         /\ \A i \in DOMAIN thread'.pipe : thread'.pipe[i] = "completed" => thread'.pc = "ended"
<1> USE DEF HttpInv, ThreadIsOwned
<1>1. NoThread \in Threads /\ NoThread.pc = "none" /\ NoThread.pipe = <<>>
  BY DEF NoThread, Threads, ThreadSteps, MaybeRequest
<1>2. CASE inProgress /\ child # NoRequest
  <2>1. /\ thread' = NoThread /\ state' = [state EXCEPT ![child] = "cancelled"]
        /\ inProgress' = FALSE /\ mgConn' = (mgConn /\ ~Running)
    BY <1>2 DEF Cancelled
  <2>2. child \in Requests
    BY <1>2 DEF HttpTypeOK, MaybeRequest
  <2>3. state' \in [Requests -> Outcomes]
    BY <2>1, <2>2 DEF HttpTypeOK, Outcomes
  <2>4. ~mgConn' /\ mgConn' \in BOOLEAN
    BY <2>1
  <2>5. thread' \in Threads /\ thread'.pc = "none" /\ thread'.pipe = <<>> /\ ~Running'
    BY <2>1, <1>1 DEF Running
  <2>6. \A i \in DOMAIN thread'.pipe : thread'.pipe[i] = "completed" => thread'.pc = "ended"
    BY <2>5
  <2>7. (inProgress' => inProgress) /\ inProgress' \in BOOLEAN
    BY <2>1
  <2> QED BY <2>3, <2>4, <2>5, <2>6, <2>7
<1>3. CASE ~(inProgress /\ child # NoRequest)
  <2>1. UNCHANGED <<thread, mgConn, inProgress, state>>
    BY <1>3 DEF Cancelled
  <2>2. ~Running
    BY <1>3, HttpConstants DEF ThreadInv
  <2>3. ~mgConn
    BY <2>2
  <2> QED BY <2>1, <2>2, <2>3 DEF HttpTypeOK, Threads, Running, ThreadInv
<1> QED BY <1>2, <1>3

\* cancelRequest(), and the destructor with terminate().
LEMMA CancelKeeps ==
  ASSUME HttpInv, CarefulJson, CancelRequest \/ Delete
  PROVE  HttpInv'
<1> USE DEF HttpInv, ThreadIsOwned
<1>1. /\ Cancelled /\ (main = "json" => ~deleted')
      /\ deleted' \in BOOLEAN /\ callback' \in MaybeRequest
      /\ UNCHANGED <<child, jsonCallback, streaming, pending, response, failed, main, called, chunks>>
  <2>1. CASE CancelRequest
    <3>1. /\ Cancelled /\ ~deleted
          /\ UNCHANGED <<child, callback, jsonCallback, streaming, pending, response, failed, main, called,
                         deleted, chunks>>
      BY <2>1 DEF CancelRequest
    <3> QED BY <3>1 DEF HttpTypeOK
  <2>2. CASE Delete
    <3>1. /\ Cancelled /\ deleted' = TRUE /\ callback' = NoRequest
          /\ main = "json" => "deleteInJson" \in AppDoes
          /\ UNCHANGED <<child, jsonCallback, streaming, pending, response, failed, main, called, chunks>>
      BY <2>2 DEF Delete
    <3>2. main # "json"
      BY <3>1 DEF CarefulJson
    <3> QED BY <3>1, <3>2 DEF MaybeRequest
  <2> QED BY <2>1, <2>2
<1>2. /\ ~Running' /\ ~mgConn' /\ (inProgress' => inProgress)
      /\ thread' \in Threads /\ mgConn' \in BOOLEAN /\ inProgress' \in BOOLEAN
      /\ state' \in [Requests -> Outcomes]
      /\ \A i \in DOMAIN thread'.pipe : thread'.pipe[i] = "completed" => thread'.pc = "ended"
  BY <1>1, CancelledEndsThread
<1>3. HttpTypeOK'
  BY <1>1, <1>2 DEF HttpTypeOK, Threads
<1>4. ThreadInv'
  BY <1>1, <1>2 DEF ThreadInv
<1> QED BY <1>1, <1>2, <1>3, <1>4

-----------------------------------------------------------------------------
\* The thread goes on, and leaves alone what the mainloop needs to know of it.
LEMMA ThreadStepKeeps ==
  ASSUME HttpInv, ThreadStep
  PROVE  HttpInv'
<1> USE DEF HttpInv, ThreadIsOwned
<1>1. /\ Running /\ thread \in Threads
      /\ UNCHANGED <<inProgress, child, callback, jsonCallback, streaming, main, called, deleted,
                     state, chunks>>
  BY DEF ThreadStep, ThreadConnects, ConnectFails, ReadChunk, SignalChunk, WaitOver, ReadEnds, ReadFails,
         ThreadEnds, ThreadOnly, members, history, Running, HttpTypeOK, Threads
<1>2. thread.pc # "ended"
  BY DEF ThreadStep, ThreadConnects, ConnectFails, ReadChunk, SignalChunk, WaitOver, ReadEnds, ReadFails,
         ThreadEnds
<1>3. SUFFICES /\ thread' \in Threads /\ thread'.of = thread.of /\ thread'.pc # "none"
               /\ pending' \in BOOLEAN /\ failed' \in BOOLEAN /\ mgConn' \in BOOLEAN
               /\ response' \in [of : MaybeRequest, chunk : 0..MaxChunks]
               /\ mgConn' => thread'.pc \in {"read", "signal", "wait", "end"}
               /\ \A i \in DOMAIN thread'.pipe : thread'.pipe[i] = "completed" => thread'.pc = "ended"
  BY <1>1, <1>3 DEF HttpTypeOK, Threads, ThreadInv, Running
<1>4. CASE ThreadConnects
  <2>1. thread' = [thread EXCEPT !.pc = "read"]
    BY <1>4 DEF ThreadConnects, Goes
  <2>2. response' \in [of : MaybeRequest, chunk : 0..MaxChunks]
    BY <1>1, <1>4, HttpConstants DEF ThreadConnects, Threads
  <2> QED BY <1>1, <1>2, <1>4, <2>1, <2>2 DEF ThreadConnects, HttpTypeOK, Threads, ThreadSteps, ThreadInv
<1>5. CASE ConnectFails
  <2>1. thread' = [thread EXCEPT !.pc = "end"]
    BY <1>5 DEF ConnectFails, Goes
  <2>2. response' \in [of : MaybeRequest, chunk : 0..MaxChunks]
    BY <1>1, <1>5, HttpConstants DEF ConnectFails, Threads
  <2> QED BY <1>1, <1>2, <1>5, <2>1, <2>2 DEF ConnectFails, HttpTypeOK, Threads, ThreadSteps, ThreadInv
<1>6. CASE ReadChunk
  <2>1. thread.pc = "read" /\ (thread' = [thread EXCEPT !.pc = "signal"] \/ thread' = thread)
    BY <1>6 DEF ReadChunk, Goes
  <2>2. response' \in [of : MaybeRequest, chunk : 0..MaxChunks]
    <3>1. response \in [of : MaybeRequest, chunk : 0..MaxChunks] /\ response.chunk < MaxChunks
          /\ response' = [response EXCEPT !.chunk = response.chunk + 1]
      BY <1>6 DEF ReadChunk, HttpTypeOK
    <3>2. response.chunk + 1 \in 0..MaxChunks
      BY <3>1, HttpConstants
    <3> QED BY <3>1, <3>2
  <2> QED BY <1>1, <1>2, <1>6, <2>1, <2>2 DEF ReadChunk, HttpTypeOK, Threads, ThreadSteps, ThreadInv
<1>7. CASE SignalChunk
  <2>1. /\ thread' = [thread EXCEPT !.pc = "wait", !.pipe = Append(thread.pipe, "data")]
        /\ UNCHANGED <<pending, response, failed, mgConn>>
    BY <1>7 DEF SignalChunk, shared
  <2>2. /\ Append(thread.pipe, "data") \in Seq({"data", "completed"})
        /\ \A i \in DOMAIN Append(thread.pipe, "data") : Append(thread.pipe, "data")[i] # "completed"
    BY <1>1, <1>2, PipeAppend DEF Threads, ThreadInv
  <2>3. thread'.pc = "wait" /\ thread'.pipe = Append(thread.pipe, "data") /\ thread'.of = thread.of
    BY <1>1, <2>1 DEF Threads
  <2>4. thread' \in Threads
    BY <1>1, <2>1, <2>2 DEF Threads, ThreadSteps
  <2> QED BY <2>1, <2>2, <2>3, <2>4 DEF HttpTypeOK
<1>8. CASE WaitOver
  <2>1. thread' = [thread EXCEPT !.pc = "read"] /\ UNCHANGED <<pending, response, failed, mgConn>>
    BY <1>8 DEF WaitOver, Goes, shared
  <2> QED BY <1>1, <1>2, <2>1 DEF HttpTypeOK, Threads, ThreadSteps, ThreadInv
<1>9. CASE ReadEnds
  <2>1. thread' = [thread EXCEPT !.pc = "end"] /\ UNCHANGED <<pending, failed, mgConn>>
    BY <1>9 DEF ReadEnds, Goes
  <2>2. response' \in [of : MaybeRequest, chunk : 0..MaxChunks]
    <3>1. response \in [of : MaybeRequest, chunk : 0..MaxChunks] /\ 0 \in 0..MaxChunks
      BY HttpConstants DEF HttpTypeOK
    <3>2. response' = [response EXCEPT !.chunk = 0] \/ response' = response
      BY <1>9 DEF ReadEnds
    <3> QED BY <3>1, <3>2
  <2> QED BY <1>1, <1>2, <2>1, <2>2 DEF HttpTypeOK, Threads, ThreadSteps, ThreadInv
<1>10. CASE ReadFails
  <2>1. /\ thread' = [thread EXCEPT !.pc = "end"] /\ failed' = TRUE
        /\ UNCHANGED <<pending, response, mgConn>>
    BY <1>10 DEF ReadFails, Goes
  <2> QED BY <1>1, <1>2, <2>1 DEF HttpTypeOK, Threads, ThreadSteps, ThreadInv
<1>11. CASE ThreadEnds
  <2>1. /\ thread' = [thread EXCEPT !.pc = "ended", !.pipe = Append(thread.pipe, "completed")]
        /\ mgConn' = FALSE /\ UNCHANGED <<pending, response, failed>>
    BY <1>11 DEF ThreadEnds
  <2>2. Append(thread.pipe, "completed") \in Seq({"data", "completed"})
    BY <1>1, PipeAppend DEF Threads
  <2>3. thread'.pc = "ended" /\ thread'.of = thread.of
    BY <1>1, <2>1 DEF Threads
  <2>4. thread' \in Threads
    BY <1>1, <2>1, <2>2 DEF Threads, ThreadSteps
  <2> QED BY <2>1, <2>3, <2>4 DEF HttpTypeOK
<1> QED BY <1>4, <1>5, <1>6, <1>7, <1>8, <1>9, <1>10, <1>11 DEF ThreadStep

-----------------------------------------------------------------------------
\* A chunk is delivered, or its callback returns.
LEMMA ChunkKeeps ==
  ASSUME HttpInv, ChunkReady \/ ChunkReturns
  PROVE  HttpInv'
<1> USE DEF HttpInv, ThreadIsOwned
<1>1. /\ UNCHANGED <<inProgress, child, callback, jsonCallback, streaming, response, failed, mgConn,
                     deleted, state>>
      /\ main' # "json" \/ main' = main
  BY DEF ChunkReady, ChunkReturns, members, history, Calls
<1>2. CASE ChunkReturns
  <2>1. /\ main' = "loop" /\ called' = NoRequest /\ pending' = FALSE
        /\ UNCHANGED <<thread, chunks>>
    BY <1>2 DEF ChunkReturns, history
  <2>2. HttpTypeOK'
    BY <1>1, <2>1 DEF HttpTypeOK, MaybeRequest
  <2> QED BY <1>1, <2>1, <2>2 DEF ThreadInv, Running
<1>3. CASE ChunkReady
  <2>1. /\ thread' = [thread EXCEPT !.pipe = Tail(thread.pipe)] /\ thread.pipe # <<>>
        /\ thread \in Threads
    BY <1>3 DEF ChunkReady, Signalled, HttpTypeOK, Threads
  <2>2. /\ Tail(thread.pipe) \in Seq({"data", "completed"})
        /\ \A i \in DOMAIN Tail(thread.pipe) :
             \E j \in DOMAIN thread.pipe : Tail(thread.pipe)[i] = thread.pipe[j]
    BY <2>1, PipeTail DEF Threads
  <2>3. /\ thread' \in Threads /\ thread'.pc = thread.pc /\ thread'.of = thread.of
        /\ thread'.pipe = Tail(thread.pipe)
    BY <2>1, <2>2 DEF Threads
  <2>4. pending' \in BOOLEAN /\ main' \in {"loop", "chunk"} /\ called' \in MaybeRequest
    BY <1>3 DEF ChunkReady, Signalled, Calls, HttpTypeOK
  <2>5. chunks' \in [Requests -> 0..MaxChunks]
    <3>1. callback # NoRequest => callback \in Requests /\ response.chunk \in 0..MaxChunks
      BY DEF HttpTypeOK, MaybeRequest
    <3>2. \/ chunks' = chunks
          \/ callback # NoRequest /\ chunks' = [chunks EXCEPT ![callback] = response.chunk]
      BY <1>3 DEF ChunkReady
    <3> QED BY <3>1, <3>2 DEF HttpTypeOK
  <2>6. HttpTypeOK'
    BY <1>1, <2>3, <2>4, <2>5 DEF HttpTypeOK, Threads
  <2>7. ThreadInv'
    BY <1>1, <2>2, <2>3, <2>4 DEF ThreadInv, Running
  <2> QED BY <1>1, <2>3, <2>4, <2>6, <2>7 DEF Running
<1> QED BY <1>2, <1>3

\* A thread that says that it is completed has ended, and has closed its connection.
LEMMA CompletedKeeps ==
  ASSUME HttpInv, Completed \/ CompletedJson
  PROVE  HttpInv'
<1> USE DEF HttpInv, ThreadIsOwned
<1>1. NoThread \in Threads /\ NoThread.pc = "none" /\ NoThread.pipe = <<>>
  BY DEF NoThread, Threads, ThreadSteps, MaybeRequest
<1>2. /\ thread' = NoThread /\ inProgress' = FALSE
      /\ main' \in {"loop", "done", "json"} /\ called' \in MaybeRequest
      /\ callback' \in MaybeRequest /\ jsonCallback' \in MaybeRequest /\ child' \in MaybeRequest
      /\ ~deleted /\ UNCHANGED <<streaming, pending, response, failed, mgConn, deleted, chunks>>
      /\ thread.pipe # <<>> /\ Head(thread.pipe) = "completed"
  BY DEF Completed, CompletedJson, Signalled, Calls, shared, HttpTypeOK, MaybeRequest
<1>3. ~mgConn
  <2>1. thread.pipe \in Seq({"data", "completed"})
    BY DEF HttpTypeOK
  <2>2. 1 \in DOMAIN thread.pipe /\ thread.pipe[1] = "completed"
    BY <1>2, <2>1, PipeTail
  <2> QED BY <2>2 DEF ThreadInv
<1>4. state' \in [Requests -> Outcomes]
  <2>1. \/ state' = state
        \/ \E r \in Requests : state' = [state EXCEPT ![r] = "answered"]
    BY DEF Completed, CompletedJson, HttpTypeOK, MaybeRequest
  <2> QED BY <2>1 DEF HttpTypeOK, Outcomes
<1>5. thread' \in Threads /\ thread'.pc = "none" /\ thread'.pipe = <<>>
  BY <1>1, <1>2
<1>6. HttpTypeOK'
  BY <1>2, <1>4, <1>5 DEF HttpTypeOK, Threads
<1>7. ThreadInv'
  BY <1>2, <1>3, <1>5 DEF ThreadInv, Running
<1> QED BY <1>2, <1>3, <1>5, <1>6, <1>7 DEF Running

\* The callback of a request returns; after that of a JSON request the thread
\* is released, and there is none.
LEMMA ReturnsKeep ==
  ASSUME HttpInv, DoneReturns \/ JsonReturns
  PROVE  HttpInv'
<1> USE DEF HttpInv, ThreadIsOwned
<1>1. /\ main' = "loop" /\ called' = NoRequest /\ child' \in MaybeRequest
      /\ child' = child \/ ~inProgress
      /\ UNCHANGED <<inProgress, callback, jsonCallback, streaming, pending, response, failed, mgConn,
                     thread, deleted, state, chunks>>
  BY DEF DoneReturns, JsonReturns, members, shared, history, HttpTypeOK, MaybeRequest, ThreadInv
<1>2. HttpTypeOK'
  BY <1>1 DEF HttpTypeOK, MaybeRequest
<1> QED BY <1>1, <1>2 DEF ThreadInv, Running

-----------------------------------------------------------------------------
\* Every step keeps the invariant.
LEMMA HttpNextKeeps ==
  ASSUME HttpInv, CarefulJson, [HttpNext]_httpVars
  PROVE  HttpInv'
<1>1. CASE UNCHANGED httpVars
  BY <1>1 DEF HttpInv, ThreadIsOwned, ThreadInv, HttpTypeOK, Running, httpVars, members, shared, history
<1>2. CASE HttpNext
  <2>1. (\E r \in Requests : AcceptRequest(r) \/ Refuse(r)) => HttpInv'
    BY AcceptRequestKeeps, RefuseKeeps
  <2>2. CancelRequest \/ Delete => HttpInv'
    BY CancelKeeps
  <2>3. MainStep => HttpInv'
    BY ChunkKeeps, CompletedKeeps, ReturnsKeep DEF MainStep
  <2> QED BY <1>2, <2>1, <2>2, <2>3, ThreadStepKeeps DEF HttpNext
<1> QED BY <1>1, <1>2

\* As long as JSON callbacks neither make the next request nor release the
\* client, the object knows the thread that works on it, and the connection is
\* closed with the thread.
THEOREM ThreadStaysOwned == CarefulJson => (HttpSpec => []ThreadIsOwned)
<1> SUFFICES ASSUME CarefulJson PROVE HttpSpec => []ThreadIsOwned
  OBVIOUS
<1>1. HttpInv /\ [HttpNext]_httpVars => HttpInv'
  BY HttpNextKeeps
<1>2. HttpInv => ThreadIsOwned
  BY DEF HttpInv
<1> QED BY HttpInitHolds, <1>1, <1>2, PTL DEF HttpSpec

\* Then the destructor leaves no thread behind ("make sure subthread is cancelled").
THEOREM SubthreadEnds == CarefulJson => (HttpSpec => []SubthreadIsCancelled)
<1> SUFFICES ASSUME CarefulJson PROVE HttpSpec => []SubthreadIsCancelled
  OBVIOUS
<1>1. ThreadIsOwned => SubthreadIsCancelled
  BY DEF ThreadIsOwned, SubthreadIsCancelled
<1> QED BY ThreadStaysOwned, <1>1, PTL

-----------------------------------------------------------------------------
(* Answers *)

\* A pipe with one signal.
LEMMA OneSignal ==
  ASSUME NEW sig \in {"data", "completed"}
  PROVE  /\ Append(<<>>, sig) = <<sig>> /\ <<sig>> # <<>>
         /\ Head(<<sig>>) = sig /\ Tail(<<sig>>) = <<>>
OBVIOUS

\* The types of the variables.
LEMMA OwnInvTyped ==
  ASSUME OwnInv
  PROVE  /\ thread \in Threads /\ state \in [Requests -> Outcomes]
         /\ chunks \in [Requests -> 0..MaxChunks] /\ response.chunk \in 0..MaxChunks
         /\ main \in {"loop", "chunk", "done", "json"} /\ pending \in BOOLEAN
         /\ response \in [of : MaybeRequest, chunk : 0..MaxChunks]
         /\ streaming \in BOOLEAN /\ inProgress \in BOOLEAN /\ child \in MaybeRequest
         /\ NoRequest \notin Requests
BY HttpConstants DEF OwnInv, HttpInv, ThreadIsOwned, HttpTypeOK, Threads

\* At the start nothing has been asked for.
LEMMA InitOwn == HttpInit => OwnInv
<1> SUFFICES ASSUME HttpInit PROVE OwnInv
  OBVIOUS
<1>1. HttpInv
  BY HttpInitHolds
<1>2. thread.pc = "none" /\ thread.pipe = <<>> /\ ~inProgress /\ main = "loop"
  BY DEF HttpInit, NoThread
<1>3. \A r \in Requests : chunks[r] = 0
  BY DEF HttpInit
<1> QED BY <1>1, <1>2, <1>3 DEF OwnInv, CallbackInv, ResponseInv, Running

\* A request starts with its own callback, a thread without signals, and no chunk.
LEMMA AcceptOwn ==
  ASSUME OwnInv, CarefulApplication, NEW r \in Requests, AcceptRequest(r)
  PROVE  CallbackInv' /\ ResponseInv'
<1>1. /\ main \in {"loop", "done"} /\ state[r] = "new" /\ ~inProgress
      /\ jsonCallback # NoRequest => IsJson(r)
  BY OwnInvTyped DEF AcceptRequest, MayRequest, CarefulApplication
<1>2. /\ jsonCallback' = (IF IsJson(r) THEN r ELSE jsonCallback)
      /\ callback' = (IF IsJson(r) THEN NoRequest ELSE r)
      /\ streaming' = (Kind[r] = "stream") /\ inProgress' = TRUE /\ child' = r
      /\ state' = [state EXCEPT ![r] = "accepted"]
      /\ UNCHANGED <<pending, response, main, called, chunks>>
      /\ thread' = [pc |-> "starts", of |-> r, pipe |-> <<>>] \/ thread' = thread
  BY DEF AcceptRequest
<1>3. thread.pc = "none" /\ thread.pipe = <<>>
  BY <1>1 DEF OwnInv, HttpInv, ThreadIsOwned, ResponseInv, Running
<1>4. chunks[r] = 0
  BY <1>1 DEF OwnInv, CallbackInv
<1>5. state'[r] = "accepted" /\ \A q \in Requests : state'[q] = "new" => state[q] = "new"
  BY <1>1, <1>2, OwnInvTyped
<1>6. CallbackInv'
  BY <1>1, <1>2, <1>5 DEF OwnInv, CallbackInv, IsJson
<1>7. ResponseInv'
  <2>1. CASE thread' = [pc |-> "starts", of |-> r, pipe |-> <<>>]
    BY <1>1, <1>2, <1>4, <2>1 DEF ResponseInv
  <2>2. CASE thread' = thread
    BY <1>1, <1>2, <1>3, <2>2 DEF ResponseInv, Running
  <2> QED BY <1>2, <2>1, <2>2
<1> QED BY <1>6, <1>7

\* A refused request was a new one, and no other one has anything to do with it.
LEMMA RefuseOwn ==
  ASSUME OwnInv, CarefulApplication, NEW r \in Requests, Refuse(r)
  PROVE  CallbackInv' /\ ResponseInv'
<1>1. /\ main \in {"loop", "done"} /\ state[r] = "new" /\ ~IsJson(r)
  BY OwnInvTyped DEF Refuse, MayRequest, CarefulApplication
<1>2. /\ state' = [state EXCEPT ![r] = "refused"]
      /\ UNCHANGED <<inProgress, child, callback, streaming, jsonCallback, pending, response, failed,
                     thread, main, called, chunks>>
  BY <1>1 DEF Refuse, shared
<1>3. \A q \in Requests : q # r => state'[q] = state[q]
  BY <1>2, OwnInvTyped
<1>4. state'[r] = "refused"
  BY <1>2, OwnInvTyped
<1>5. CallbackInv'
  BY <1>1, <1>2, <1>3, <1>4 DEF OwnInv, CallbackInv, IsJson
<1>6. ResponseInv'
  BY <1>1, <1>2 DEF OwnInv, ResponseInv, Running
<1> QED BY <1>5, <1>6

\* When a request is cancelled or the client released, the thread and its pipe are gone, and a
\* callback for a chunk that is being called belongs to no request any more.
LEMMA CancelOwn ==
  ASSUME OwnInv, CarefulApplication, CancelRequest \/ Delete
  PROVE  CallbackInv' /\ ResponseInv'
<1>1. /\ Cancelled
      /\ UNCHANGED <<child, jsonCallback, streaming, pending, response, failed, main, called, chunks>>
  BY DEF CancelRequest, Delete
<1>2. CASE inProgress /\ child # NoRequest
  <2>1. /\ thread' = NoThread /\ inProgress' = FALSE
        /\ state' = [state EXCEPT ![child] = "cancelled"]
    BY <1>1, <1>2 DEF Cancelled
  <2>2. child \in Requests
    BY <1>2, OwnInvTyped DEF MaybeRequest
  <2>3. /\ state'[child] = "cancelled"
        /\ \A q \in Requests : q # child => state'[q] = state[q]
    BY <2>1, <2>2, OwnInvTyped
  <2>4. thread'.pc = "none" /\ thread'.pipe = <<>>
    BY <2>1 DEF NoThread
  <2>5. CallbackInv'
    BY <1>1, <2>1, <2>2, <2>3 DEF OwnInv, CallbackInv
  <2>6. main = "chunk" => called \in Requests /\ state'[called] # "accepted"
    <3>1. CASE main = "chunk" /\ thread.pc = "wait" /\ called = thread.of
      BY <2>2, <2>3, <3>1 DEF OwnInv, HttpInv, ThreadIsOwned, Running
    <3>2. CASE main = "chunk" /\ called \in Requests /\ state[called] # "accepted"
      BY <2>2, <2>3, <3>2
    <3> QED BY <3>1, <3>2 DEF OwnInv, ResponseInv
  <2>7. ResponseInv'
    BY <1>1, <2>1, <2>4, <2>6 DEF ResponseInv, Running
  <2> QED BY <2>5, <2>7
<1>3. CASE ~(inProgress /\ child # NoRequest)
  <2>1. UNCHANGED <<thread, inProgress, state>>
    BY <1>1, <1>3 DEF Cancelled
  <2>2. ~inProgress
    BY <1>3, OwnInvTyped DEF OwnInv, CallbackInv
  <2>3. CallbackInv'
    BY <1>1, <2>1, <2>2 DEF OwnInv, CallbackInv
  <2>4. ResponseInv'
    BY <1>1, <2>1 DEF OwnInv, ResponseInv, Running
  <2> QED BY <2>3, <2>4
<1> QED BY <1>2, <1>3

\* The thread goes on only when no callback for a chunk is being called.
LEMMA NoChunkMeanwhile ==
  ASSUME OwnInv, ThreadStep
  PROVE  /\ main # "chunk" /\ Running /\ thread.pc # "ended" /\ inProgress /\ child = thread.of
         /\ thread.of \in Requests
         /\ UNCHANGED <<inProgress, child, callback, jsonCallback, streaming, main, called, deleted,
                        state, chunks>>
<1>1. /\ thread.pc \in {"starts", "read", "signal", "wait", "end"}
      /\ thread.pc = "wait" => ~pending
      /\ UNCHANGED <<inProgress, child, callback, jsonCallback, streaming, main, called, deleted,
                     state, chunks>>
  BY DEF ThreadStep, ThreadConnects, ConnectFails, ReadChunk, SignalChunk, WaitOver, ReadEnds, ReadFails,
         ThreadEnds, ThreadOnly, members, history
<1>2. main # "chunk"
  BY <1>1 DEF OwnInv, ResponseInv
<1> QED BY <1>1, <1>2 DEF Running, OwnInv, HttpInv, ThreadIsOwned, ThreadInv

\* What the thread does is in mResponse and in the pipe.
LEMMA ThreadStepOwn ==
  ASSUME OwnInv, ThreadStep
  PROVE  CallbackInv' /\ ResponseInv'
<1>1. /\ main # "chunk" /\ Running /\ thread.pc # "ended" /\ inProgress /\ child = thread.of
      /\ thread.of \in Requests
      /\ UNCHANGED <<inProgress, child, callback, jsonCallback, streaming, main, called, deleted,
                     state, chunks>>
  BY NoChunkMeanwhile
<1>2. CallbackInv'
  BY <1>1 DEF OwnInv, CallbackInv
<1>3. /\ thread \in [pc : ThreadSteps, of : MaybeRequest, pipe : Seq({"data", "completed"})]
      /\ response \in [of : MaybeRequest, chunk : 0..MaxChunks] /\ response.chunk \in Nat
  BY OwnInvTyped, HttpConstants DEF Threads
<1>4. CASE ThreadConnects
  <2>1. /\ thread.pc = "starts" /\ thread'.pc = "read" /\ thread'.of = thread.of
        /\ thread'.pipe = thread.pipe /\ response' = [of |-> thread.of, chunk |-> 0]
    BY <1>3, <1>4 DEF ThreadConnects, Goes
  <2>2. thread.pipe = <<>> /\ chunks[thread.of] = 0
    BY <2>1 DEF OwnInv, ResponseInv
  <2> QED BY <1>1, <1>2, <2>1, <2>2 DEF ResponseInv
<1>5. CASE ConnectFails
  <2>1. /\ thread.pc = "starts" /\ thread'.pc = "end" /\ thread'.of = thread.of
        /\ thread'.pipe = thread.pipe /\ response' = [of |-> thread.of, chunk |-> 0]
    BY <1>3, <1>5 DEF ConnectFails, Goes
  <2>2. thread.pipe = <<>>
    BY <2>1 DEF OwnInv, ResponseInv
  <2> QED BY <1>1, <1>2, <2>1, <2>2 DEF ResponseInv
<1>6. CASE ReadChunk
  <2>1. /\ thread.pc = "read" /\ thread.pipe = <<>> /\ response.of = thread.of
        /\ streaming => response.chunk = chunks[thread.of]
    BY <1>1, <1>6 DEF ReadChunk, OwnInv, ResponseInv
  <2>2. response'.of = response.of /\ response'.chunk = response.chunk + 1
    BY <1>3, <1>6 DEF ReadChunk
  <2>3. CASE streaming
    <3>1. /\ pending' = TRUE /\ thread'.pc = "signal" /\ thread'.of = thread.of
          /\ thread'.pipe = thread.pipe
      BY <1>3, <1>6, <2>3 DEF ReadChunk, Goes
    <3> QED BY <1>1, <1>2, <2>1, <2>2, <2>3, <3>1 DEF ResponseInv
  <2>4. CASE ~streaming
    <3>1. thread' = thread
      BY <1>6, <2>4 DEF ReadChunk
    <3> QED BY <1>1, <1>2, <2>1, <2>2, <2>4, <3>1 DEF ResponseInv
  <2> QED BY <2>3, <2>4
<1>7. CASE SignalChunk
  <2>1. /\ thread.pc = "signal" /\ thread'.pc = "wait" /\ thread'.of = thread.of
        /\ thread'.pipe = Append(thread.pipe, "data")
        /\ UNCHANGED <<pending, response, failed>>
    BY <1>3, <1>7 DEF SignalChunk, shared
  <2>2. /\ thread.pipe = <<>> /\ pending /\ response.chunk = chunks[thread.of] + 1 /\ streaming
        /\ response.of = thread.of
    BY <1>1, <2>1 DEF OwnInv, ResponseInv
  <2>3. thread'.pipe = <<"data">>
    BY <2>1, <2>2, OneSignal
  <2> QED BY <1>1, <1>2, <2>1, <2>2, <2>3 DEF ResponseInv
<1>8. CASE WaitOver
  <2>1. /\ thread.pc = "wait" /\ ~pending /\ thread'.pc = "read" /\ thread'.of = thread.of
        /\ thread'.pipe = thread.pipe /\ UNCHANGED <<pending, response, failed>>
    BY <1>3, <1>8 DEF WaitOver, Goes, shared
  <2>2. /\ thread.pipe = <<>> /\ response.chunk = chunks[thread.of] /\ response.of = thread.of
    BY <1>1, <2>1 DEF OwnInv, ResponseInv
  <2> QED BY <1>1, <1>2, <2>1, <2>2 DEF ResponseInv
<1>9. CASE ReadEnds
  <2>1. /\ thread.pc = "read" /\ thread'.pc = "end" /\ thread'.of = thread.of
        /\ thread'.pipe = thread.pipe /\ response'.of = response.of
        /\ streaming => response'.chunk = 0
    BY <1>3, <1>9 DEF ReadEnds, Goes
  <2>2. thread.pipe = <<>> /\ response.of = thread.of
    BY <1>1, <2>1 DEF OwnInv, ResponseInv
  <2> QED BY <1>1, <1>2, <2>1, <2>2 DEF ResponseInv
<1>10. CASE ReadFails
  <2>1. /\ thread.pc = "read" /\ thread'.pc = "end" /\ thread'.of = thread.of
        /\ thread'.pipe = thread.pipe /\ failed' = TRUE /\ response' = response
    BY <1>3, <1>10 DEF ReadFails, Goes
  <2>2. thread.pipe = <<>> /\ response.of = thread.of
    BY <1>1, <2>1 DEF OwnInv, ResponseInv
  <2> QED BY <1>1, <1>2, <2>1, <2>2 DEF ResponseInv
<1>11. CASE ThreadEnds
  <2>1. /\ thread.pc = "end" /\ thread'.pc = "ended" /\ thread'.of = thread.of
        /\ thread'.pipe = Append(thread.pipe, "completed")
        /\ UNCHANGED <<pending, response, failed>>
    BY <1>3, <1>11 DEF ThreadEnds
  <2>2. /\ thread.pipe = <<>> /\ (streaming => failed \/ response.chunk = 0)
        /\ response.of = thread.of
    BY <1>1, <2>1 DEF OwnInv, ResponseInv
  <2>3. thread'.pipe = <<"completed">>
    BY <2>1, <2>2, OneSignal
  <2> QED BY <1>1, <1>2, <2>1, <2>2, <2>3 DEF ResponseInv
<1> QED BY <1>4, <1>5, <1>6, <1>7, <1>8, <1>9, <1>10, <1>11 DEF ThreadStep

\* What a signal finds: a chunk of the request in progress, whose callback is set.
LEMMA DataSignal ==
  ASSUME OwnInv, Signalled("data")
  PROVE  /\ thread.pc = "wait" /\ thread.pipe = <<"data">> /\ pending /\ streaming
         /\ Running /\ inProgress /\ child = thread.of /\ child \in Requests
         /\ callback = child /\ state[child] = "accepted"
         /\ response.of = child /\ response.chunk = chunks[child] + 1
<1>1. main = "loop" /\ thread.pipe # <<>> /\ Head(thread.pipe) = "data"
  BY DEF Signalled
<1>2. thread.pc \in {"none", "starts", "read", "signal", "wait", "end", "ended"}
  BY OwnInvTyped DEF Threads, ThreadSteps
<1>3. thread.pc # "ended"
  BY <1>1, OneSignal DEF OwnInv, ResponseInv
<1>4. thread.pc = "wait" /\ thread.pipe = <<"data">> /\ pending /\ streaming
  BY <1>1, <1>2, <1>3 DEF OwnInv, ResponseInv
<1>5. Running /\ inProgress /\ child = thread.of
  BY <1>4 DEF Running, OwnInv, HttpInv, ThreadIsOwned
<1>6. child \in Requests /\ state[child] = "accepted" /\ Kind[child] = "stream" /\ callback = child
  BY <1>4, <1>5 DEF OwnInv, CallbackInv, IsJson
<1>7. response.of = child /\ response.chunk = chunks[child] + 1
  BY <1>1, <1>4, <1>5 DEF OwnInv, ResponseInv
<1> QED BY <1>4, <1>5, <1>6, <1>7

\* The end of the thread finds the response of the request in progress, and its callback.
LEMMA CompletedSignal ==
  ASSUME OwnInv, Signalled("completed")
  PROVE  /\ thread.pc = "ended" /\ inProgress /\ child \in Requests /\ state[child] = "accepted"
         /\ response.of = child
         /\ callback = (IF IsJson(child) THEN NoRequest ELSE child)
         /\ jsonCallback = (IF IsJson(child) THEN child ELSE NoRequest)
         /\ Kind[child] = "stream" => failed \/ response.chunk = 0
<1>1. main = "loop" /\ thread.pipe # <<>> /\ Head(thread.pipe) = "completed"
  BY DEF Signalled
<1>2. thread.pc \in {"none", "starts", "read", "signal", "wait", "end", "ended"}
  BY OwnInvTyped DEF Threads, ThreadSteps
<1>3. thread.pipe # <<"data">>
  BY <1>1, OneSignal
<1>4. thread.pc = "ended"
  BY <1>1, <1>2, <1>3 DEF OwnInv, ResponseInv
<1>5. inProgress /\ child = thread.of /\ response.of = thread.of
  BY <1>4 DEF Running, OwnInv, HttpInv, ThreadIsOwned, ResponseInv
<1> QED BY <1>4, <1>5 DEF OwnInv, CallbackInv, ResponseInv

\* A chunk is given to the callback of its request, which lets the thread go on when it returns.
LEMMA ChunkOwn ==
  ASSUME OwnInv, ChunkReady \/ ChunkReturns
  PROVE  CallbackInv' /\ ResponseInv'
<1>1. CASE ChunkReady
  <2>1. /\ thread.pc = "wait" /\ thread.pipe = <<"data">> /\ pending /\ streaming
        /\ Running /\ inProgress /\ child = thread.of /\ child \in Requests
        /\ callback = child /\ state[child] = "accepted"
        /\ response.of = child /\ response.chunk = chunks[child] + 1
    BY <1>1, DataSignal DEF ChunkReady
  <2>2. callback # NoRequest
    BY <2>1, OwnInvTyped
  <2>3. /\ thread' = [thread EXCEPT !.pipe = Tail(thread.pipe)]
        /\ main' = "chunk" /\ called' = child
        /\ chunks' = [chunks EXCEPT ![child] = response.chunk]
        /\ UNCHANGED <<inProgress, child, callback, jsonCallback, streaming, pending, response,
                       failed, deleted, state>>
    BY <1>1, <2>1, <2>2 DEF ChunkReady, Calls, members
  <2>4. thread'.pc = "wait" /\ thread'.of = thread.of /\ thread'.pipe = <<>>
    BY <2>1, <2>3, OwnInvTyped, OneSignal DEF Threads
  <2>5. chunks'[child] = response.chunk /\ \A q \in Requests : q # child => chunks'[q] = chunks[q]
    BY <2>1, <2>3, OwnInvTyped
  <2>6. CallbackInv'
    BY <2>1, <2>3, <2>5 DEF OwnInv, CallbackInv, IsJson
  <2>7. ResponseInv'
    BY <2>1, <2>3, <2>4, <2>5 DEF ResponseInv
  <2> QED BY <2>6, <2>7
<1>2. CASE ChunkReturns
  <2>1. /\ main = "chunk" /\ main' = "loop" /\ pending' = FALSE
        /\ UNCHANGED <<inProgress, child, callback, jsonCallback, streaming, response, failed,
                       thread, state, chunks>>
    BY <1>2 DEF ChunkReturns, members, history
  <2>2. CallbackInv'
    BY <2>1 DEF OwnInv, CallbackInv, IsJson
  <2>3. ResponseInv'
    <3>1. CASE thread.pc = "wait"
      BY <2>1, <3>1 DEF OwnInv, ResponseInv, Running
    <3>2. CASE thread.pc = "none"
      BY <2>1, <3>2 DEF OwnInv, ResponseInv, Running
    <3> QED BY <2>1, <3>1, <3>2 DEF OwnInv, ResponseInv
  <2> QED BY <2>2, <2>3
<1> QED BY <1>1, <1>2

\* A request that is answered is in progress no more, and its thread is gone.
LEMMA CompletedOwn ==
  ASSUME OwnInv, Completed \/ CompletedJson
  PROVE  CallbackInv' /\ ResponseInv'
<1>1. /\ thread' = NoThread /\ inProgress' = FALSE /\ main' # "chunk" /\ chunks' = chunks
      /\ \/ state' = state
         \/ \E r \in Requests : state' = [state EXCEPT ![r] = "answered"]
  <2>1. Signalled("completed")
    BY DEF Completed, CompletedJson
  <2>2. callback \in MaybeRequest /\ jsonCallback \in MaybeRequest /\ main = "loop"
    BY <2>1 DEF OwnInv, HttpInv, ThreadIsOwned, HttpTypeOK, Signalled
  <2> QED BY <2>2 DEF Completed, CompletedJson, Calls, MaybeRequest
<1>2. thread'.pc = "none" /\ thread'.pipe = <<>>
  BY <1>1 DEF NoThread
<1>3. \A q \in Requests : state'[q] = "new" => state[q] = "new"
  BY <1>1, OwnInvTyped
<1>4. CallbackInv'
  BY <1>1, <1>3 DEF OwnInv, CallbackInv
<1>5. ResponseInv'
  BY <1>1, <1>2 DEF ResponseInv, Running
<1> QED BY <1>4, <1>5

\* A callback returns.
LEMMA ReturnsOwn ==
  ASSUME OwnInv, DoneReturns \/ JsonReturns
  PROVE  CallbackInv' /\ ResponseInv'
<1>1. /\ main \in {"done", "json"} /\ main' = "loop"
      /\ UNCHANGED <<inProgress, callback, jsonCallback, streaming, pending, response, failed,
                     thread, state, chunks>>
      /\ child' = child \/ ~inProgress
  BY DEF DoneReturns, JsonReturns, members, shared, history, OwnInv, HttpInv, ThreadInv
<1>2. CallbackInv'
  BY <1>1 DEF OwnInv, CallbackInv, IsJson
<1>3. ResponseInv'
  BY <1>1 DEF OwnInv, ResponseInv, Running
<1> QED BY <1>2, <1>3

\* Every step of an application that behaves keeps the invariant of the answers.
LEMMA NextOwn ==
  ASSUME OwnInv, CarefulApplication, [HttpNext]_httpVars
  PROVE  OwnInv'
<1>1. HttpInv'
  BY HttpNextKeeps DEF OwnInv, CarefulApplication, CarefulJson
<1>2. SUFFICES CallbackInv' /\ ResponseInv'
  BY <1>1 DEF OwnInv
<1>3. CASE UNCHANGED httpVars
  BY <1>3 DEF OwnInv, CallbackInv, ResponseInv, IsJson, Running, httpVars, members, shared, history
<1>4. CASE HttpNext
  <2>1. (\E r \in Requests : AcceptRequest(r) \/ Refuse(r)) => CallbackInv' /\ ResponseInv'
    BY AcceptOwn, RefuseOwn
  <2>2. CancelRequest \/ Delete => CallbackInv' /\ ResponseInv'
    BY CancelOwn
  <2>3. MainStep => CallbackInv' /\ ResponseInv'
    BY ChunkOwn, CompletedOwn, ReturnsOwn DEF MainStep
  <2> QED BY <1>4, <2>1, <2>2, <2>3, ThreadStepOwn DEF HttpNext
<1> QED BY <1>3, <1>4

\* What AnswersAreOwn says about a step.
OwnAnswer ==
  /\ main = "loop" /\ main' # "loop" =>
       /\ state[called'] = "accepted" /\ response.of = called'
       /\ main' = "chunk" => response.chunk = chunks[called'] + 1
       /\ main' = "done" /\ Kind[called'] = "stream" => failed \/ response.chunk = 0
  /\ main = "chunk" /\ main' = "chunk" /\ state[called] = "accepted" => response' = response

LEMMA CallsOwn ==
  ASSUME OwnInv, [HttpNext]_httpVars
  PROVE  [OwnAnswer]_httpVars
<1> SUFFICES ASSUME HttpNext PROVE OwnAnswer
  OBVIOUS
<1>1. CASE ThreadStep
  BY <1>1, NoChunkMeanwhile DEF OwnAnswer
<1>2. CASE CancelRequest \/ Delete
  BY <1>2 DEF CancelRequest, Delete, OwnAnswer
<1>3. CASE \E r \in Requests : AcceptRequest(r) \/ Refuse(r)
  BY <1>3 DEF AcceptRequest, Refuse, shared, OwnAnswer
<1>4. CASE ChunkReady
  <2>1. /\ callback = child /\ child \in Requests /\ state[child] = "accepted"
        /\ response.of = child /\ response.chunk = chunks[child] + 1
    BY <1>4, DataSignal DEF ChunkReady
  <2>2. main = "loop" /\ main' = "chunk" /\ called' = child
    BY <1>4, <2>1, OwnInvTyped DEF ChunkReady, Signalled, Calls
  <2> QED BY <2>1, <2>2 DEF OwnAnswer
<1>5. CASE Completed
  <2>1. /\ child \in Requests /\ state[child] = "accepted" /\ response.of = child
        /\ callback = (IF IsJson(child) THEN NoRequest ELSE child)
        /\ jsonCallback = (IF IsJson(child) THEN child ELSE NoRequest)
        /\ Kind[child] = "stream" => failed \/ response.chunk = 0
    BY <1>5, CompletedSignal DEF Completed
  <2>2. callback = child /\ child # NoRequest
    BY <1>5, <2>1, OwnInvTyped DEF Completed
  <2>3. main = "loop" /\ main' = "done" /\ called' = child
    BY <1>5, <2>2 DEF Completed, Signalled, Calls
  <2> QED BY <2>1, <2>3 DEF OwnAnswer
<1>6. CASE CompletedJson
  <2>1. /\ child \in Requests /\ state[child] = "accepted" /\ response.of = child
        /\ jsonCallback = (IF IsJson(child) THEN child ELSE NoRequest)
    BY <1>6, CompletedSignal DEF CompletedJson
  <2>2. jsonCallback = child
    BY <1>6, <2>1 DEF CompletedJson
  <2>3. main = "loop" /\ main' = "json" /\ called' = child
    BY <1>6, <2>2 DEF CompletedJson, Signalled, Calls
  <2> QED BY <2>1, <2>3 DEF OwnAnswer
<1>7. CASE ChunkReturns \/ DoneReturns \/ JsonReturns
  BY <1>7 DEF ChunkReturns, DoneReturns, JsonReturns, OwnAnswer
<1> QED BY <1>1, <1>2, <1>3, <1>4, <1>5, <1>6, <1>7 DEF HttpNext, MainStep

\* Callbacks get the responses of their own requests, chunk by chunk, which stay untouched
\* while they look at them, and cancelled requests are not called: for an application that
\* makes requests only when the client is free and no callback is under way.
THEOREM EachGetsItsAnswer == CarefulApplication => (HttpSpec => AnswersAreOwn)
<1> SUFFICES ASSUME CarefulApplication PROVE HttpSpec => AnswersAreOwn
  OBVIOUS
<1>1. OwnInv /\ [HttpNext]_httpVars => OwnInv'
  BY NextOwn
<1>2. OwnInv /\ [HttpNext]_httpVars => [OwnAnswer]_httpVars
  BY CallsOwn
<1>3. HttpSpec => [][OwnAnswer]_httpVars
  BY InitOwn, <1>1, <1>2, PTL DEF HttpSpec
<1>4. [][OwnAnswer]_httpVars => AnswersAreOwn
  BY DEF AnswersAreOwn, OwnAnswer
<1> QED BY <1>3, <1>4, PTL

-----------------------------------------------------------------------------
(* Sockets: what the invariant says *)

\* The members of a socket.
SocketStates == [
  connectionFd : Fds \cup {NoFd}, dataFd : Fds \cup {NoFd}, addresses : 0..MaxAddresses,
  accepted : BOOLEAN, open : BOOLEAN, connecting : BOOLEAN, closing : BOOLEAN,
  serving : BOOLEAN, handles : BOOLEAN]

\* What the flags of socket `s', with the members `r', say about its descriptors and about each other.
SocketSound(s, r) ==
  /\ r.connectionFd # NoFd <=> r.serving \/ r.open \/ r.connecting
  /\ r.dataFd = (IF r.open THEN r.connectionFd ELSE NoFd)
  /\ s = Server => ~r.open /\ ~r.connecting /\ ~r.accepted
  /\ s # Server => ~r.serving /\ ~(r.open /\ r.connecting)
  /\ s \in Outgoing => ~r.accepted
  /\ s \in Accepted => ~r.connecting /\ (r.accepted <=> r.open)

\* The sockets and the descriptors.
MembersInv ==
  /\ sock \in [Sockets -> SocketStates]
  /\ conn \in [Fds -> {"free", "listening", "trying", "refused", "up", "gone", "lost"}]
  /\ polled \in [Fds -> {NoHandler} \cup (Sockets \X {"accept", "monitor", "data"})]
  /\ \A s \in Sockets : SocketSound(s, sock[s])

\* What the application knows, and its handlers that are under way.
ApplicationTyped ==
  /\ clients \in Seq(Accepted) /\ released \in BOOLEAN /\ broken \in BOOLEAN
  /\ stack \in Seq(Frames)
  /\ wants \in [Asked -> {"nothing", "open", "closed"}]
  /\ told \in [Clients -> {"up", "down"}]

\* A handler is under way for socket `s' and one of `events'.
HasFrame(s, events) ==
  \E i \in DOMAIN stack : stack[i].socket = s /\ stack[i].event \in events

\* passClientConnection() is under way.
PassUnderWay == \E i \in DOMAIN stack : stack[i].event = "accepted"

\* The list of the server.
ClientsInv ==
  /\ IsInjective(clients)
  /\ \A s \in Accepted : Contains(clients, s) <=> sock[s].accepted
  /\ released => clients # <<>> \/ PassUnderWay

-----------------------------------------------------------------------------
(* Handlers under way *)

\* The handlers that are under way stay, however often they have made calls.
SameHandlers ==
  /\ stack' \in Seq(Frames) /\ Len(stack') = Len(stack)
  /\ \A i \in 1..Len(stack) : stack'[i].socket = stack[i].socket /\ stack'[i].event = stack[i].event

\* The handler of `s' is called within those under way.
Pushes(s, event) ==
  /\ stack' \in Seq(Frames) /\ Len(stack') = Len(stack) + 1
  /\ \A i \in 1..Len(stack) : stack'[i].socket = stack[i].socket /\ stack'[i].event = stack[i].event
  /\ stack'[Len(stack) + 1] = Frame(s, event)

\* The innermost handler returns.
Pops ==
  /\ stack # <<>> /\ Top \in Frames /\ Top = stack[Len(stack)]
  /\ stack' \in Seq(Frames) /\ Len(stack') = Len(stack) - 1
  /\ \A i \in 1..Len(stack) - 1 : stack'[i] = stack[i]

\* Which socket is in which set.
LEMMA SetFacts ==
  /\ Server \in Sockets /\ Server \notin Clients /\ NoFd \notin Fds
  /\ \A s \in Clients : s \in Sockets /\ s # Server /\ (s \in Outgoing \/ s \in Accepted)
  /\ \A s \in Outgoing : s \in Clients /\ s \notin Accepted /\ s \in Asked
  /\ \A s \in Accepted : s \in Clients /\ s \notin Outgoing /\ s \notin Asked
BY SocketConstants DEF Sockets, Clients, Asked, NoFd

\* A call of a handler is counted, and changes nothing else of the handlers under way.
LEMMA CalledFacts ==
  ASSUME stack \in Seq(Frames), stack # <<>> => Top.calls < MaxCalls
  PROVE  /\ Called \in Seq(Frames) /\ Len(Called) = Len(stack) /\ (stack = <<>> => Called = <<>>)
         /\ \A i \in 1..Len(stack) :
              Called[i].socket = stack[i].socket /\ Called[i].event = stack[i].event
<1> DEFINE n == Len(stack)
           c(i) == [stack[i] EXCEPT !.calls = @ + IF i = Len(stack) THEN 1 ELSE 0]
<1>1. n \in Nat /\ DOMAIN stack = 1..n /\ \A i \in 1..n : stack[i] \in Frames
  OBVIOUS
<1>2. ASSUME NEW i \in 1..n
      PROVE  c(i) \in Frames /\ c(i).socket = stack[i].socket /\ c(i).event = stack[i].event
  <2>1. i = n => stack[i].calls < MaxCalls
    BY <1>1, <1>2, EmptySeq DEF Top, Last
  <2>2. stack[i] \in Frames /\ stack[i].calls \in 0..MaxCalls /\ MaxCalls \in Nat
    BY <1>1, <1>2, SocketConstants DEF Frames
  <2>3. stack[i].calls + (IF i = Len(stack) THEN 1 ELSE 0) \in 0..MaxCalls
    BY <2>1, <2>2
  <2> QED BY <2>2, <2>3 DEF Frames
<1>3. Called = [i \in 1..n |-> c(i)]
  BY <1>1 DEF Called
<1> HIDE DEF c, n
<1>4. Called \in Seq(Frames) /\ Len(Called) = n /\ \A i \in 1..n : Called[i] = c(i)
  BY <1>1, <1>2, <1>3
<1>5. stack = <<>> => Called = <<>>
  BY <1>1, <1>4, EmptySeq DEF n
<1> QED BY <1>2, <1>4, <1>5 DEF n

\* A call that is not told to anybody.
LEMMA CalledHandlers ==
  ASSUME stack \in Seq(Frames), stack # <<>> => Top.calls < MaxCalls, stack' = Called
  PROVE  SameHandlers
BY CalledFacts DEF SameHandlers

\* A call of the status handler.
LEMMA TellPushes ==
  ASSUME stack \in Seq(Frames), stack # <<>> => Top.calls < MaxCalls,
         NEW s \in Clients, NEW event \in Events, Tell(s, event)
  PROVE  Pushes(s, event)
<1>1. Frame(s, event) \in Frames
  BY SocketConstants DEF Frame, Frames
<1>2. stack' = Append(Called, Frame(s, event))
  BY DEF Tell
<1>3. /\ Called \in Seq(Frames) /\ Len(Called) = Len(stack)
      /\ \A i \in 1..Len(stack) : Called[i].socket = stack[i].socket /\ Called[i].event = stack[i].event
  BY CalledFacts
<1> QED BY <1>1, <1>2, <1>3 DEF Pushes

\* A return.
LEMMA FrontPops ==
  ASSUME stack \in Seq(Frames), stack # <<>>, stack' = Front(stack)
  PROVE  Pops
BY FrontProperties DEF Pops, Top

\* What a step that adds and takes away no handler ...
LEMMA SameFrames ==
  ASSUME stack \in Seq(Frames), SameHandlers
  PROVE  /\ \A s, E : HasFrame(s, E)' <=> HasFrame(s, E)
         /\ PassUnderWay' <=> PassUnderWay
BY DEF SameHandlers, HasFrame, PassUnderWay

\* ... one that adds a handler ...
LEMMA PushedFrames ==
  ASSUME stack \in Seq(Frames), NEW s \in Clients, NEW event \in Events, Pushes(s, event)
  PROVE  /\ \A t, E : HasFrame(t, E)' <=> HasFrame(t, E) \/ (t = s /\ event \in E)
         /\ PassUnderWay' <=> PassUnderWay \/ event = "accepted"
<1>1. /\ Len(stack) \in Nat /\ DOMAIN stack = 1..Len(stack) /\ DOMAIN stack' = 1..(Len(stack) + 1)
      /\ stack'[Len(stack) + 1].socket = s /\ stack'[Len(stack) + 1].event = event
  BY DEF Pushes, Frame
<1>2. \A i \in 1..Len(stack) : stack'[i].socket = stack[i].socket /\ stack'[i].event = stack[i].event
  BY DEF Pushes
<1>3. \A i \in 1..(Len(stack) + 1) : i \in 1..Len(stack) \/ i = Len(stack) + 1
  BY <1>1
<1>4. 1..Len(stack) \subseteq 1..(Len(stack) + 1) /\ Len(stack) + 1 \in 1..(Len(stack) + 1)
  BY <1>1
<1> QED BY <1>1, <1>2, <1>3, <1>4 DEF HasFrame, PassUnderWay

\* ... and one that takes the innermost one away do to those under way for a socket.
LEMMA PoppedFrames ==
  ASSUME stack \in Seq(Frames), Pops
  PROVE  /\ \A t, E : HasFrame(t, E) <=> HasFrame(t, E)' \/ (t = Top.socket /\ Top.event \in E)
         /\ PassUnderWay <=> PassUnderWay' \/ Top.event = "accepted"
<1> DEFINE n == Len(stack)
<1>1. n \in Nat \ {0} /\ DOMAIN stack = 1..n /\ DOMAIN stack' = 1..n - 1 /\ Top = stack[n]
  BY EmptySeq DEF Pops
<1>2. \A i \in 1..n - 1 : stack'[i] = stack[i]
  BY DEF Pops
<1> HIDE DEF n
<1>3. \A i \in 1..n : i \in 1..n - 1 \/ i = n
  BY <1>1
<1>4. 1..n - 1 \subseteq 1..n /\ n \in 1..n
  BY <1>1
<1> QED BY <1>1, <1>2, <1>3, <1>4 DEF HasFrame, PassUnderWay

\* Between calls of the mainloop no handler is under way.
LEMMA NoFrames ==
  ASSUME stack = <<>>
  PROVE  ~PassUnderWay /\ \A s, E : ~HasFrame(s, E)
BY DEF PassUnderWay, HasFrame

-----------------------------------------------------------------------------
(* Closing *)

\* The members of a socket that has been closed.
LEMMA ShutFacts ==
  ASSUME NEW s \in Clients, sock[s] \in SocketStates, SocketSound(s, sock[s])
  PROVE  /\ Shut(s) \in SocketStates /\ SocketSound(s, Shut(s))
         /\ Shut(s).connectionFd = NoFd /\ Shut(s).dataFd = NoFd /\ ~Shut(s).open /\ ~Shut(s).connecting
         /\ ~Shut(s).closing /\ ~Shut(s).accepted /\ ~Shut(s).serving
         /\ Shut(s).handles = (sock[s].handles /\ s \notin ClearsAtClose)
         /\ Shut(s).addresses = sock[s].addresses
<1>1. /\ Shut(s) \in SocketStates
      /\ Shut(s).connectionFd = (IF Ending(s) THEN NoFd ELSE sock[s].connectionFd)
      /\ Shut(s).dataFd = (IF Ending(s) THEN NoFd ELSE sock[s].dataFd)
      /\ ~Shut(s).open /\ ~Shut(s).connecting /\ ~Shut(s).closing /\ ~Shut(s).accepted
      /\ Shut(s).handles = (sock[s].handles /\ s \notin ClearsAtClose)
      /\ Shut(s).addresses = sock[s].addresses /\ Shut(s).serving = sock[s].serving
  BY DEF Shut, SocketStates
<1>2. s # Server
  BY SetFacts
<1> HIDE DEF Shut
<1> QED BY <1>1, <1>2 DEF SocketSound, Ending, NoFd

\* The members of a socket that has not been used.
LEMMA IdleFacts ==
  /\ Idle \in SocketStates /\ Idle.connectionFd = NoFd /\ Idle.dataFd = NoFd
  /\ ~Idle.open /\ ~Idle.connecting /\ ~Idle.closing /\ ~Idle.accepted /\ ~Idle.serving /\ Idle.handles
  /\ \A s \in Sockets : SocketSound(s, Idle)
<1>1. /\ Idle \in SocketStates /\ Idle.connectionFd = NoFd /\ Idle.dataFd = NoFd
      /\ ~Idle.open /\ ~Idle.connecting /\ ~Idle.closing /\ ~Idle.accepted /\ ~Idle.serving /\ Idle.handles
  BY SocketConstants DEF Idle, SocketStates
<1> QED BY <1>1 DEF SocketSound

\* The sockets, once one of them has been closed.
LEMMA ShutSocketsFacts ==
  ASSUME MembersInv, NEW s \in Clients
  PROVE  /\ ShutSockets(s) \in [Sockets -> SocketStates]
         /\ ShutSockets(s)[s] = Shut(s)
         /\ \A t \in Sockets : t # s /\ t # Server => ShutSockets(s)[t] = sock[t]
         /\ ShutSockets(s)[Server] = IF LastReference(s) THEN Idle ELSE sock[Server]
         /\ \A t \in Sockets : SocketSound(t, ShutSockets(s)[t])
         /\ ~sock[s].accepted => ~LastReference(s) /\ ShutSockets(s)[Server] = sock[Server]
<1>1. sock \in [Sockets -> SocketStates] /\ \A t \in Sockets : SocketSound(t, sock[t])
  BY DEF MembersInv
<1>2. Shut(s) \in SocketStates /\ SocketSound(s, Shut(s)) /\ s \in Sockets /\ s # Server /\ Server \in Sockets
  BY <1>1, ShutFacts, SetFacts
<1>3. Idle \in SocketStates /\ SocketSound(Server, Idle)
  BY <1>2, IdleFacts
<1>4. /\ ShutSockets(s) \in [Sockets -> SocketStates]
      /\ ShutSockets(s)[s] = Shut(s)
      /\ \A t \in Sockets : t # s /\ t # Server => ShutSockets(s)[t] = sock[t]
      /\ ShutSockets(s)[Server] = IF LastReference(s) THEN Idle ELSE sock[Server]
  BY <1>1, <1>2, <1>3 DEF ShutSockets
<1>5. ~sock[s].accepted => ~LastReference(s)
  BY DEF LastReference
<1> HIDE DEF ShutSockets
<1> QED BY <1>1, <1>2, <1>3, <1>4, <1>5

-----------------------------------------------------------------------------
(* The list of the server *)

\* The first place of an element.
First(s, e) == SelectInSeq(s, LAMBDA x : x = e)

\* It is a place of the element.
LEMMA FirstPlace ==
  ASSUME NEW T, NEW s \in Seq(T), NEW e, Contains(s, e)
  PROVE  First(s, e) \in 1..Len(s) /\ s[First(s, e)] = e
<1> DEFINE I == {i \in 1..Len(s) : s[i] = e}
<1>1. I # {} /\ I \subseteq Nat
  BY DEF Contains
<1>2. Min(I) \in I
  BY <1>1, MinIsLeast
<1>3. First(s, e) = Min(I)
  BY <1>1 DEF First, SelectInSeq
<1> QED BY <1>2, <1>3

\* Taking an element off a list without repetitions leaves all others on it.
LEMMA RemoveFirstProperties ==
  ASSUME NEW T, NEW s \in Seq(T), IsInjective(s), NEW e
  PROVE  /\ RemoveFirst(s, e) \in Seq(T) /\ IsInjective(RemoveFirst(s, e))
         /\ \A x : Contains(RemoveFirst(s, e), x) <=> Contains(s, x) /\ x # e
         /\ RemoveFirst(s, e) = <<>> => s = <<>> \/ s = <<e>>
<1>1. CASE ~Contains(s, e)
  <2>1. RemoveFirst(s, e) = s
    BY <1>1 DEF RemoveFirst, Contains
  <2> QED BY <1>1, <2>1
<1>2. CASE Contains(s, e)
  <2> DEFINE p == First(s, e)
             r == RemoveAt(s, p)
             n == Len(s)
  <2>1. p \in 1..n /\ s[p] = e
    BY <1>2, FirstPlace
  <2>2. RemoveFirst(s, e) = r
    BY <1>2 DEF RemoveFirst, Contains, First
  <2>3. \A i, j \in 1..n : s[i] = s[j] => i = j
    BY DEF IsInjective
  <2> HIDE DEF p
  <2>4. /\ r \in Seq(T) /\ Len(r) = n - 1
        /\ \A i \in 1..n - 1 : r[i] = IF i < p THEN s[i] ELSE s[i + 1]
    BY <2>1, RemoveAtProperties
  <2>5. n \in Nat \ {0} /\ DOMAIN r = 1..n - 1
    BY <2>1, <2>4
  <2> HIDE DEF r, n
  <2>6. IsInjective(r)
    <3> SUFFICES ASSUME NEW i \in 1..n - 1, NEW j \in 1..n - 1, r[i] = r[j] PROVE i = j
      BY <2>5 DEF IsInjective
    <3>1. /\ i \in 1..n /\ i + 1 \in 1..n /\ j \in 1..n /\ j + 1 \in 1..n
          /\ r[i] = (IF i < p THEN s[i] ELSE s[i + 1])
          /\ r[j] = (IF j < p THEN s[j] ELSE s[j + 1])
      BY <2>4, <2>5
    <3> DEFINE k == IF i < p THEN i ELSE i + 1
               m == IF j < p THEN j ELSE j + 1
    <3>2. k \in 1..n /\ m \in 1..n /\ s[k] = s[m]
      BY <3>1
    <3>3. k = m
      BY <2>3, <3>2
    <3> QED BY <2>1, <2>5, <3>3
  <2>7. ASSUME NEW x PROVE Contains(r, x) <=> Contains(s, x) /\ x # e
    <3>1. ASSUME NEW i \in 1..n - 1, r[i] = x PROVE Contains(s, x) /\ x # e
      <4>1. i \in 1..n /\ i + 1 \in 1..n /\ r[i] = (IF i < p THEN s[i] ELSE s[i + 1])
        BY <2>4, <2>5
      <4>2. PICK j \in 1..n : j # p /\ s[j] = x
        <5>1. CASE i < p BY <3>1, <4>1, <5>1
        <5>2. CASE ~(i < p) BY <3>1, <4>1, <5>2, <2>1, <2>5
        <5> QED BY <5>1, <5>2
      <4> QED BY <2>1, <2>3, <4>2 DEF Contains, n
    <3>2. ASSUME NEW j \in 1..n, s[j] = x, x # e PROVE \E i \in 1..n - 1 : r[i] = x
      <4>1. j # p
        BY <3>2, <2>1
      <4>2. CASE j < p
        <5>1. j \in 1..n - 1 /\ r[j] = s[j]
          BY <4>2, <2>1, <2>4, <2>5
        <5> QED BY <5>1, <3>2
      <4>3. CASE p < j
        <5>1. j - 1 \in 1..n - 1 /\ ~(j - 1 < p) /\ j - 1 + 1 = j
          BY <4>3, <2>1, <2>5
        <5>2. r[j - 1] = s[j]
          BY <5>1, <2>4
        <5> QED BY <5>1, <5>2, <3>2
      <4> QED BY <4>1, <4>2, <4>3, <2>1, <2>5
    <3> QED BY <3>1, <3>2, <2>4 DEF Contains, n
  <2>8. r = <<>> => s = <<e>>
    <3> SUFFICES ASSUME r = <<>> PROVE s = <<e>>
      OBVIOUS
    <3>1. n = 1
      BY <2>4, <2>5
    <3>2. s[1] = e
      BY <2>1, <3>1
    <3> QED BY <3>1, <3>2 DEF n
  <2> QED BY <2>2, <2>4, <2>6, <2>7, <2>8
<1> QED BY <1>1, <1>2

\* Appending an element that is not on the list adds this one.
LEMMA AppendedClient ==
  ASSUME NEW T, NEW s \in Seq(T), IsInjective(s), NEW e \in T, ~Contains(s, e)
  PROVE  /\ Append(s, e) \in Seq(T) /\ IsInjective(Append(s, e)) /\ Append(s, e) # <<>>
         /\ \A x : Contains(Append(s, e), x) <=> Contains(s, x) \/ x = e
<1> DEFINE n == Len(s)
           a == Append(s, e)
<1>1. /\ n \in Nat /\ a \in Seq(T) /\ Len(a) = n + 1 /\ DOMAIN a = 1..(n + 1) /\ a[n + 1] = e
      /\ \A i \in 1..n : a[i] = s[i] /\ s[i] # e
  BY DEF Contains
<1>2. \A i, j \in 1..n : s[i] = s[j] => i = j
  BY DEF IsInjective
<1>3. \A i \in 1..(n + 1) : i \in 1..n \/ i = n + 1
  BY <1>1
<1>5. 1..n \subseteq 1..(n + 1) /\ n + 1 \in 1..(n + 1)
  BY <1>1
<1> HIDE DEF a
<1>4. a # <<>>
  BY <1>1
<1>6. \A x : Contains(a, x) <=> Contains(s, x) \/ x = e
  BY <1>1, <1>3, <1>5 DEF Contains
<1>7. IsInjective(a)
  BY <1>1, <1>2, <1>3 DEF IsInjective
<1> QED BY <1>1, <1>4, <1>6, <1>7 DEF a

-----------------------------------------------------------------------------
(* Descriptors *)

\* What the mainloop calls a socket for.
Role(r) == IF r.serving THEN "accept" ELSE IF r.open THEN "data" ELSE "monitor"

\* The states of a descriptor that a socket is called for.
StatesFor(role) ==
  IF role = "accept" THEN {"listening"}
  ELSE IF role = "data" THEN {"up", "gone"}
  ELSE {"trying", "refused", "up", "gone"}

\* Socket `s' has no descriptor, or one that is its own.
Owns(s) ==
  LET f == sock[s].connectionFd IN
  f # NoFd => polled[f] = <<s, Role(sock[s])>> /\ conn[f] \in StatesFor(Role(sock[s]))

\* Descriptor `f' is free, or that of a socket, or one that connectNextAddress() has forgotten.
Accounted(f) ==
  IF conn[f] \in {"free", "lost"} THEN polled[f] = NoHandler
  ELSE \E s \in Sockets : sock[s].connectionFd = f

\* Descriptors are accounted for from both sides.
DescriptorInv == (\A s \in Sockets : Owns(s)) /\ (\A f \in Fds : Accounted(f))

\* connectNextAddress() has not forgotten any.
NoneLost == \A f \in Fds : conn[f] # "lost"

\* A socket has one descriptor or none.
LEMMA HeldFacts ==
  ASSUME NEW s \in Sockets, MembersInv
  PROVE  /\ sock[s].connectionFd \in Fds \cup {NoFd}
         /\ Held(s) = IF sock[s].connectionFd = NoFd THEN {} ELSE {sock[s].connectionFd}
BY DEF Held, MembersInv, SocketSound, SocketStates

\* What the invariant says of descriptors is what TypeOK says of them.
LEMMA DescriptorsAreHeld ==
  ASSUME MembersInv, DescriptorInv, NoneLost
  PROVE  DescriptorsHeld
<1> SUFFICES ASSUME NEW f \in Fds
             PROVE  LET holders == {s \in Sockets : f \in Held(s)}
                    IN IF conn[f] = "free" THEN holders = {} /\ polled[f] = NoHandler
                       ELSE \E s \in Sockets :
                              /\ holders = {s} /\ polled[f][1] = s
                              /\ conn[f] \notin {"up", "gone"} => polled[f][2] = RoleOf(conn[f])
                              /\ polled[f][2] = "accept" <=> sock[s].serving
                              /\ polled[f][2] = "monitor" <=> sock[s].connecting
                              /\ polled[f][2] = "data" <=> sock[s].open
  BY DEF DescriptorsHeld
<1>1. \A s \in Sockets : f \in Held(s) <=> sock[s].connectionFd = f
  BY HeldFacts, SetFacts
<1>2. \A s \in Sockets : sock[s].connectionFd = f =>
        polled[f] = <<s, Role(sock[s])>> /\ conn[f] \in StatesFor(Role(sock[s]))
  BY SetFacts DEF DescriptorInv, Owns
<1>3. CASE conn[f] = "free"
  <2>1. \A s \in Sockets : sock[s].connectionFd # f
    BY <1>2, <1>3 DEF StatesFor
  <2> QED BY <1>1, <1>3, <2>1 DEF DescriptorInv, Accounted
<1>4. CASE conn[f] # "free"
  <2>1. PICK s \in Sockets : sock[s].connectionFd = f
    BY <1>4 DEF DescriptorInv, Accounted, NoneLost
  <2>2. polled[f] = <<s, Role(sock[s])>> /\ conn[f] \in StatesFor(Role(sock[s]))
    BY <1>2, <2>1
  <2>3. \A t \in Sockets : sock[t].connectionFd = f => t = s
    BY <1>2, <2>2
  <2>4. {t \in Sockets : f \in Held(t)} = {s}
    BY <1>1, <2>1, <2>3
  <2>5. polled[f][1] = s /\ polled[f][2] = Role(sock[s])
    BY <2>2
  <2>6. /\ sock[s].serving \/ sock[s].open \/ sock[s].connecting
        /\ sock[s].serving => ~sock[s].open /\ ~sock[s].connecting
        /\ ~(sock[s].open /\ sock[s].connecting)
    BY <2>1, SetFacts DEF MembersInv, SocketSound
  <2>7. /\ Role(sock[s]) = "accept" <=> sock[s].serving
        /\ Role(sock[s]) = "monitor" <=> sock[s].connecting
        /\ Role(sock[s]) = "data" <=> sock[s].open
    BY <2>6 DEF Role
  <2>8. conn[f] \notin {"up", "gone"} => Role(sock[s]) = RoleOf(conn[f])
    BY <2>2 DEF Role, StatesFor, RoleOf
  <2> QED BY <1>4, <2>4, <2>5, <2>7, <2>8
<1> QED BY <1>3, <1>4

\* A step changes the sockets of S and their descriptors, which are in K before and after.
Moves(S, K) ==
  /\ \A s \in Sockets \ S : sock'[s] = sock[s] /\ sock[s].connectionFd \notin K
  /\ \A f \in Fds \ K : conn'[f] = conn[f] /\ polled'[f] = polled[f]
  /\ \A s \in S : sock[s].connectionFd \in K \cup {NoFd}

\* Such a step only has to account for these.
LEMMA DescriptorsMoved ==
  ASSUME MembersInv, DescriptorInv, NEW S \in SUBSET Sockets, NEW K \in SUBSET Fds, Moves(S, K),
         \A s \in S : Owns(s)', \A f \in K : Accounted(f)'
  PROVE  DescriptorInv'
<1>1. ASSUME NEW s \in Sockets PROVE Owns(s)'
  <2>1. CASE s \in S BY <2>1
  <2>2. CASE s \notin S
    <3>1. sock'[s] = sock[s] /\ sock[s].connectionFd \notin K
      BY <2>2 DEF Moves
    <3>2. sock[s].connectionFd \in Fds \cup {NoFd} /\ Owns(s)
      BY HeldFacts DEF DescriptorInv
    <3>3. sock[s].connectionFd # NoFd =>
            /\ conn'[sock[s].connectionFd] = conn[sock[s].connectionFd]
            /\ polled'[sock[s].connectionFd] = polled[sock[s].connectionFd]
      BY <3>1, <3>2 DEF Moves
    <3> QED BY <3>1, <3>2, <3>3 DEF Owns
  <2> QED BY <2>1, <2>2
<1>2. ASSUME NEW f \in Fds PROVE Accounted(f)'
  <2>1. CASE f \in K BY <2>1
  <2>2. CASE f \notin K
    <3>1. conn'[f] = conn[f] /\ polled'[f] = polled[f] /\ Accounted(f)
      BY <2>2 DEF Moves, DescriptorInv
    <3>2. ASSUME NEW s \in Sockets, sock[s].connectionFd = f PROVE sock'[s] = sock[s]
      <4>1. s \notin S
        BY <2>2, <3>2, SetFacts DEF Moves
      <4> QED BY <4>1 DEF Moves
    <3> QED BY <3>1, <3>2 DEF Accounted
  <2> QED BY <2>1, <2>2
<1> QED BY <1>1, <1>2 DEF DescriptorInv

-----------------------------------------------------------------------------
(* What the functions do to sockets and descriptors *)

\* Descriptors that are closed are free, and the others as before.
LEMMA WithoutTyped ==
  ASSUME MembersInv, NEW fds
  PROVE  /\ Without(conn, fds, "free")
              \in [Fds -> {"free", "listening", "trying", "refused", "up", "gone", "lost"}]
         /\ Without(polled, fds, NoHandler)
              \in [Fds -> {NoHandler} \cup (Sockets \X {"accept", "monitor", "data"})]
         /\ \A f \in Fds : /\ Without(conn, fds, "free")[f] = (IF f \in fds THEN "free" ELSE conn[f])
                           /\ Without(polled, fds, NoHandler)[f] = (IF f \in fds THEN NoHandler ELSE polled[f])
BY DEF MembersInv, Without

\* internalCloseConnection(): the descriptors of a socket that is closed are free.
LEMMA ShutMembers ==
  ASSUME MembersInv, NEW s \in Clients, sock' = ShutSockets(s),
         conn' = Without(conn, ShutFds(s), "free"), polled' = Without(polled, ShutFds(s), NoHandler)
  PROVE  MembersInv' /\ (DescriptorInv => DescriptorInv') /\ (NoneLost => NoneLost')
<1>1. /\ sock' \in [Sockets -> SocketStates] /\ \A t \in Sockets : SocketSound(t, sock'[t])
      /\ sock'[s] = Shut(s) /\ \A t \in Sockets : t # s /\ t # Server => sock'[t] = sock[t]
      /\ sock'[Server] = IF LastReference(s) THEN Idle ELSE sock[Server]
  BY ShutSocketsFacts
<1>2. MembersInv'
  BY <1>1, WithoutTyped DEF MembersInv
<1>3. s \in Sockets /\ Server \in Sockets /\ s # Server /\ sock[s] \in SocketStates /\ SocketSound(s, sock[s])
  BY SetFacts DEF MembersInv
<1>4. Shut(s).connectionFd = NoFd /\ Idle.connectionFd = NoFd
  BY <1>3, ShutFacts, IdleFacts
<1>5. ASSUME DescriptorInv PROVE DescriptorInv'
  <2> DEFINE S == IF LastReference(s) THEN {s, Server} ELSE {s}
             K == ShutFds(s)
  <2>1. /\ Held(s) = IF sock[s].connectionFd = NoFd THEN {} ELSE {sock[s].connectionFd}
        /\ Held(Server) = IF sock[Server].connectionFd = NoFd THEN {} ELSE {sock[Server].connectionFd}
        /\ sock[s].connectionFd \in Fds \cup {NoFd} /\ sock[Server].connectionFd \in Fds \cup {NoFd}
    BY <1>3, HeldFacts
  <2>2. sock[s].connectionFd # NoFd => Ending(s)
    BY <1>3 DEF SocketSound, Ending
  <2>3. K \in SUBSET Fds /\ S \in SUBSET Sockets
    BY <1>3, <2>1 DEF ShutFds
  <2>4. \A f \in K : \E t \in S : sock[t].connectionFd = f /\ f # NoFd
    BY <2>1, SetFacts DEF ShutFds
  <2>5. \A t \in S : sock[t].connectionFd \in K \cup {NoFd}
    BY <2>1, <2>2 DEF ShutFds
  <2>6. ASSUME NEW t \in Sockets \ S PROVE sock'[t] = sock[t] /\ sock[t].connectionFd \notin K
    <3>1. sock'[t] = sock[t]
      BY <1>1, <2>6
    <3>2. ASSUME sock[t].connectionFd \in K PROVE FALSE
      <4>1. PICK u \in S : sock[u].connectionFd = sock[t].connectionFd /\ sock[u].connectionFd # NoFd
        BY <2>4, <3>2
      <4>2. Owns(t) /\ Owns(u) /\ u # t
        BY <1>5, <2>3, <2>6 DEF DescriptorInv
      <4> QED BY <4>1, <4>2 DEF Owns
    <3> QED BY <3>1, <3>2
  <2>7. \A f \in Fds : /\ conn'[f] = (IF f \in K THEN "free" ELSE conn[f])
                       /\ polled'[f] = (IF f \in K THEN NoHandler ELSE polled[f])
    BY WithoutTyped
  <2>8. Moves(S, K)
    BY <2>5, <2>6, <2>7 DEF Moves
  <2>9. \A t \in S : Owns(t)'
    BY <1>1, <1>4 DEF Owns
  <2>10. \A f \in K : Accounted(f)'
    BY <2>3, <2>7 DEF Accounted
  <2> HIDE DEF S, K
  <2> QED BY <1>5, <2>3, <2>8, <2>9, <2>10, DescriptorsMoved
<1>6. NoneLost => NoneLost'
  BY WithoutTyped DEF NoneLost
<1> QED BY <1>2, <1>5, <1>6

\* Socket `s' alone changes, and becomes `r'.
Becomes(s, r) == sock' = [t \in Sockets |-> IF t = s THEN r ELSE sock[t]]

\* What is known of the sockets afterwards.
LEMMA BecomesFacts ==
  ASSUME MembersInv, NEW s \in Sockets, NEW r \in SocketStates, SocketSound(s, r), Becomes(s, r)
  PROVE  /\ sock' \in [Sockets -> SocketStates] /\ sock'[s] = r
         /\ \A t \in Sockets : SocketSound(t, sock'[t]) /\ (t # s => sock'[t] = sock[t])
<1>1. sock \in [Sockets -> SocketStates] /\ \A t \in Sockets : SocketSound(t, sock[t])
  BY DEF MembersInv
<1> QED BY <1>1 DEF Becomes

\* A step that gives socket `s' the members `r' and descriptor `f', which was free or its own, while it
\* may forget descriptors that were free and others stay, keeps descriptors accounted for.
LEMMA DescriptorPassed ==
  ASSUME MembersInv, DescriptorInv, NEW s \in Sockets, NEW r \in SocketStates, Becomes(s, r),
         NEW f \in Fds, r.connectionFd = f, NEW lost \in SUBSET Fds, f \notin lost,
         \A g \in {f} \cup lost : conn[g] = "free" \/ sock[s].connectionFd = g,
         polled'[f] = <<s, Role(r)>>, conn'[f] \in StatesFor(Role(r)),
         \A g \in lost : conn'[g] = "lost" /\ polled'[g] = NoHandler,
         \A g \in Fds \ ({f} \cup Held(s) \cup lost) : conn'[g] = conn[g] /\ polled'[g] = polled[g],
         \A g \in Held(s) \ ({f} \cup lost) : conn'[g] = "free" /\ polled'[g] = NoHandler
  PROVE  DescriptorInv'
<1> DEFINE K == {f} \cup Held(s) \cup lost
<1>0. sock \in [Sockets -> SocketStates]
  BY DEF MembersInv
<1>1. sock'[s] = r /\ \A t \in Sockets : t # s => sock'[t] = sock[t]
  BY <1>0 DEF Becomes
<1>2. /\ Held(s) = IF sock[s].connectionFd = NoFd THEN {} ELSE {sock[s].connectionFd}
      /\ sock[s].connectionFd \in Fds \cup {NoFd} /\ f # NoFd
  BY HeldFacts, SetFacts
<1>3. ASSUME NEW t \in Sockets, t # s PROVE sock[t].connectionFd \notin K
  <2>1. Owns(t) /\ Owns(s)
    BY DEF DescriptorInv
  <2>2. sock[t].connectionFd # NoFd => conn[sock[t].connectionFd] # "free"
    BY <2>1 DEF Owns, StatesFor
  <2>3. sock[t].connectionFd # NoFd => sock[t].connectionFd # sock[s].connectionFd
    BY <1>3, <2>1 DEF Owns
  <2> QED BY <1>2, <2>2, <2>3, SetFacts
<1>4. Moves({s}, K)
  BY <1>1, <1>2, <1>3 DEF Moves
<1>5. Owns(s)'
  BY <1>1 DEF Owns
<1>6. \A g \in K : Accounted(g)'
  BY <1>1, <1>2 DEF Accounted, StatesFor, Role
<1>7. K \in SUBSET Fds
  BY <1>2
<1> HIDE DEF K
<1> QED BY <1>4, <1>5, <1>6, <1>7, DescriptorsMoved

\* Without forgetting any.
LEMMA DescriptorGiven ==
  ASSUME MembersInv, DescriptorInv, NEW s \in Sockets, NEW r \in SocketStates, Becomes(s, r),
         NEW f \in Fds, r.connectionFd = f, conn[f] = "free" \/ sock[s].connectionFd = f,
         sock[s].connectionFd \in {f, NoFd},
         polled'[f] = <<s, Role(r)>>, conn'[f] \in StatesFor(Role(r)),
         \A g \in Fds \ {f} : conn'[g] = conn[g] /\ polled'[g] = polled[g]
  PROVE  DescriptorInv'
<1>1. Held(s) \subseteq {f}
  BY HeldFacts
<1> DEFINE lost == {}
<1>2. /\ lost \in SUBSET Fds /\ f \notin lost
      /\ \A g \in {f} \cup lost : conn[g] = "free" \/ sock[s].connectionFd = g
      /\ \A g \in lost : conn'[g] = "lost" /\ polled'[g] = NoHandler
      /\ \A g \in Fds \ ({f} \cup Held(s) \cup lost) : conn'[g] = conn[g] /\ polled'[g] = polled[g]
      /\ \A g \in Held(s) \ ({f} \cup lost) : conn'[g] = "free" /\ polled'[g] = NoHandler
  BY <1>1
<1> HIDE DEF lost
<1> QED BY <1>2, DescriptorPassed

\* connectNextAddress(): the socket connects to an address that is left.
LEMMA OpensMembers ==
  ASSUME MembersInv, NEW s \in Outgoing, NEW n \in 0..MaxAddresses,
         NEW skipped \in 0..MaxAddresses, NEW lost \in SUBSET Fds, NEW f \in Fds,
         Opens(s, n, skipped, lost, f)
  PROVE  /\ MembersInv' /\ (DescriptorInv => DescriptorInv') /\ (~FailsAtOnce /\ NoneLost => NoneLost')
         /\ \A t \in Sockets : t # s => sock'[t] = sock[t]
         /\ ~sock'[s].open /\ sock'[s].connecting /\ ~sock'[s].accepted
         /\ sock'[s].handles = (sock[s].handles /\ s \notin ClearsAtClose)
         /\ UNCHANGED <<clients, released>>
<1> DEFINE r == [Shut(s) EXCEPT !.connecting = TRUE, !.connectionFd = f, !.addresses = n - skipped - 1]
           left == Without(conn, ShutFds(s), "free")
           free == {g \in Fds : left[g] = "free"}
<1>1. s \in Clients /\ s \in Sockets /\ s # Server /\ sock[s] \in SocketStates /\ SocketSound(s, sock[s])
      /\ ~sock[s].accepted /\ s \notin Accepted /\ Server \in Sockets
  BY SetFacts DEF MembersInv, SocketSound
<1>2. /\ Shut(s) \in SocketStates /\ SocketSound(s, Shut(s)) /\ ~Shut(s).serving
      /\ ~Shut(s).open /\ ~Shut(s).accepted /\ Shut(s).dataFd = NoFd
      /\ Shut(s).handles = (sock[s].handles /\ s \notin ClearsAtClose)
  BY <1>1, ShutFacts
<1>3. n - skipped - 1 \in 0..MaxAddresses
  BY SocketConstants DEF Opens
<1>4. /\ r \in SocketStates /\ r.connecting /\ r.connectionFd = f /\ ~r.open /\ ~r.accepted /\ ~r.serving
      /\ r.dataFd = NoFd /\ r.handles = Shut(s).handles
  BY <1>2, <1>3 DEF SocketStates
<1>5. SocketSound(s, r)
  BY <1>1, <1>4, SetFacts DEF SocketSound
<1>6. /\ ShutSockets(s) \in [Sockets -> SocketStates] /\ ~LastReference(s)
      /\ \A t \in Sockets : t # s => ShutSockets(s)[t] = sock[t]
  BY <1>1, ShutSocketsFacts
<1>7. Becomes(s, r)
  <2>1. sock' = [ShutSockets(s) EXCEPT ![s] = r]
    BY DEF Opens
  <2> HIDE DEF r
  <2> QED BY <2>1, <1>6 DEF Becomes
<1> HIDE DEF r
<1>8. /\ sock' \in [Sockets -> SocketStates] /\ sock'[s] = r
      /\ \A t \in Sockets : SocketSound(t, sock'[t]) /\ (t # s => sock'[t] = sock[t])
  BY <1>1, <1>4, <1>5, <1>7, BecomesFacts
<1>9. /\ conn' = [g \in Fds |-> IF g \in lost THEN "lost" ELSE IF g = f THEN "trying" ELSE left[g]]
      /\ polled' = [Without(polled, ShutFds(s), NoHandler) EXCEPT ![f] = <<s, "monitor">>]
      /\ lost \subseteq free /\ free \ lost # {} /\ f = Min(free \ lost)
      /\ UNCHANGED <<clients, released>>
  BY DEF Opens
<1>10. /\ left \in [Fds -> {"free", "listening", "trying", "refused", "up", "gone", "lost"}]
       /\ Without(polled, ShutFds(s), NoHandler)
            \in [Fds -> {NoHandler} \cup (Sockets \X {"accept", "monitor", "data"})]
       /\ \A g \in Fds : /\ left[g] = (IF g \in ShutFds(s) THEN "free" ELSE conn[g])
                         /\ Without(polled, ShutFds(s), NoHandler)[g]
                              = (IF g \in ShutFds(s) THEN NoHandler ELSE polled[g])
  BY WithoutTyped
<1> HIDE DEF left
<1>11. MembersInv'
  <2>1. <<s, "monitor">> \in Sockets \X {"accept", "monitor", "data"}
    BY <1>1
  <2> QED BY <1>8, <1>9, <1>10, <2>1 DEF MembersInv
<1>12. /\ free \ lost # {} /\ f \in free \ lost /\ left[f] = "free" /\ f \notin lost
       /\ lost \subseteq free
  <2>1. free \ lost \in SUBSET Nat /\ free \ lost # {}
    BY <1>9, SocketConstants
  <2>2. Min(free \ lost) \in free \ lost
    BY <2>1, MinIsLeast
  <2> QED BY <1>9, <2>1, <2>2
<1>13. ASSUME DescriptorInv PROVE DescriptorInv'
  <2>1. ShutFds(s) = Held(s)
    BY <1>1, <1>6, HeldFacts DEF ShutFds, Ending, SocketSound
  <2>2. Held(s) = (IF sock[s].connectionFd = NoFd THEN {} ELSE {sock[s].connectionFd}) /\ Held(s) \subseteq Fds
    BY <1>1, HeldFacts
  <2>3. \A g \in {f} \cup lost : conn[g] = "free" \/ sock[s].connectionFd = g
    BY <1>10, <1>12, <2>1, <2>2
  <2>4. Role(r) = "monitor"
    BY <1>4 DEF Role
  <2>5. \A g \in Fds : conn[g] = "free" => polled[g] = NoHandler
    BY <1>13 DEF DescriptorInv, Accounted
  <2>6. polled'[f] = <<s, "monitor">> /\ conn'[f] = "trying"
    BY <1>9, <1>10, <1>12
  <2>7. \A g \in Fds \ ({f} \cup lost) : /\ conn'[g] = (IF g \in Held(s) THEN "free" ELSE conn[g])
                                         /\ polled'[g] = (IF g \in Held(s) THEN NoHandler ELSE polled[g])
    BY <1>9, <1>10, <2>1
  <2>8. \A g \in lost : conn'[g] = "lost" /\ polled'[g] = NoHandler
    BY <1>9, <1>10, <1>12, <2>1, <2>2, <2>3, <2>5
  <2>9. polled'[f] = <<s, Role(r)>> /\ conn'[f] \in StatesFor(Role(r)) /\ r.connectionFd = f
    BY <2>4, <2>6, <1>4 DEF StatesFor
  <2>10. /\ \A g \in Fds \ ({f} \cup Held(s) \cup lost) : conn'[g] = conn[g] /\ polled'[g] = polled[g]
         /\ \A g \in Held(s) \ ({f} \cup lost) : conn'[g] = "free" /\ polled'[g] = NoHandler
    BY <2>2, <2>7
  <2> QED BY <1>1, <1>4, <1>7, <1>12, <1>13, <2>3, <2>8, <2>9, <2>10, DescriptorPassed
<1>14. ASSUME ~FailsAtOnce, NoneLost PROVE NoneLost'
  <2>1. lost = {}
    <3>1. Cardinality(lost) = 0 /\ IsFiniteSet(lost)
      BY <1>14, SocketConstants, FS_Subset DEF Opens
    <3> QED BY <3>1, FS_EmptySet
  <2> QED BY <1>9, <1>10, <1>14, <2>1 DEF NoneLost
<1> QED BY <1>2, <1>4, <1>8, <1>9, <1>11, <1>13, <1>14

\* connectNextAddress() without an address left: the socket is closed.
LEMMA NoneLeftMembers ==
  ASSUME MembersInv, NEW s \in Outgoing, NEW n \in 0..MaxAddresses, NEW lost \in SUBSET Fds,
         NoneLeft(s, n, lost)
  PROVE  /\ MembersInv' /\ (DescriptorInv => DescriptorInv') /\ (~FailsAtOnce /\ NoneLost => NoneLost')
         /\ \A t \in Sockets : t # s => sock'[t] = sock[t]
         /\ ~sock'[s].open /\ ~sock'[s].connecting /\ ~sock'[s].accepted
         /\ sock'[s].handles = (sock[s].handles /\ s \notin ClearsAtClose)
         /\ UNCHANGED <<clients, released>>
<1> DEFINE r == [Shut(s) EXCEPT !.addresses = 0]
           left == Without(conn, ShutFds(s), "free")
<1>1. s \in Clients /\ s \in Sockets /\ s # Server /\ sock[s] \in SocketStates /\ SocketSound(s, sock[s])
      /\ ~sock[s].accepted /\ s \notin Accepted /\ Server \in Sockets
  BY SetFacts DEF MembersInv, SocketSound
<1>2. /\ Shut(s) \in SocketStates /\ SocketSound(s, Shut(s)) /\ ~Shut(s).serving /\ ~Shut(s).connecting
      /\ ~Shut(s).open /\ ~Shut(s).accepted /\ Shut(s).dataFd = NoFd /\ Shut(s).connectionFd = NoFd
      /\ Shut(s).handles = (sock[s].handles /\ s \notin ClearsAtClose)
  BY <1>1, ShutFacts
<1>3. /\ r \in SocketStates /\ ~r.connecting /\ r.connectionFd = NoFd /\ ~r.open /\ ~r.accepted /\ ~r.serving
      /\ r.dataFd = NoFd /\ r.handles = Shut(s).handles
  BY <1>2, SocketConstants DEF SocketStates
<1>4. SocketSound(s, r)
  BY <1>1, <1>3, SetFacts DEF SocketSound
<1>5. /\ ShutSockets(s) \in [Sockets -> SocketStates] /\ ~LastReference(s)
      /\ \A t \in Sockets : t # s => ShutSockets(s)[t] = sock[t]
  BY <1>1, ShutSocketsFacts
<1>6. Becomes(s, r)
  <2>1. sock' = [ShutSockets(s) EXCEPT ![s] = r]
    BY DEF NoneLeft
  <2> HIDE DEF r
  <2> QED BY <2>1, <1>5 DEF Becomes
<1> HIDE DEF r
<1>7. /\ sock' \in [Sockets -> SocketStates] /\ sock'[s] = r
      /\ \A t \in Sockets : SocketSound(t, sock'[t]) /\ (t # s => sock'[t] = sock[t])
  BY <1>1, <1>3, <1>4, <1>6, BecomesFacts
<1>8. /\ conn' = Without(left, lost, "lost") /\ polled' = Without(polled, ShutFds(s), NoHandler)
      /\ UNCHANGED <<clients, released>>
  BY DEF NoneLeft
<1>9. /\ left \in [Fds -> {"free", "listening", "trying", "refused", "up", "gone", "lost"}]
      /\ Without(polled, ShutFds(s), NoHandler)
           \in [Fds -> {NoHandler} \cup (Sockets \X {"accept", "monitor", "data"})]
      /\ \A g \in Fds : /\ left[g] = (IF g \in ShutFds(s) THEN "free" ELSE conn[g])
                        /\ Without(polled, ShutFds(s), NoHandler)[g]
                             = (IF g \in ShutFds(s) THEN NoHandler ELSE polled[g])
  BY WithoutTyped
<1> HIDE DEF left
<1>10. MembersInv'
  BY <1>7, <1>8, <1>9 DEF MembersInv, Without
<1>11. ASSUME DescriptorInv PROVE DescriptorInv'
  <2> DEFINE K == Held(s) \cup lost
  <2>1. ShutFds(s) = Held(s)
    BY <1>1, <1>5, HeldFacts DEF ShutFds, Ending, SocketSound
  <2>2. /\ Held(s) = (IF sock[s].connectionFd = NoFd THEN {} ELSE {sock[s].connectionFd})
        /\ K \in SUBSET Fds /\ sock[s].connectionFd \in K \cup {NoFd}
    BY <1>1, HeldFacts
  <2>3. \A g \in lost : conn[g] = "free"
    BY DEF NoneLeft, FreeFds
  <2>4. \A g \in Fds : /\ conn'[g] = (IF g \in lost THEN "lost" ELSE IF g \in Held(s) THEN "free" ELSE conn[g])
                       /\ polled'[g] = (IF g \in Held(s) THEN NoHandler ELSE polled[g])
    BY <1>8, <1>9, <2>1 DEF Without
  <2>5. \A g \in Fds : conn[g] = "free" => polled[g] = NoHandler
    BY <1>11 DEF DescriptorInv, Accounted
  <2>6. Owns(s)' /\ \A g \in K : Accounted(g)'
    BY <1>3, <1>7, <2>2, <2>3, <2>4, <2>5 DEF Owns, Accounted
  <2>7. ASSUME NEW t \in Sockets, t # s PROVE sock[t].connectionFd \notin K
    <3>1. Owns(t) /\ Owns(s)
      BY <1>1, <1>11 DEF DescriptorInv
    <3>2. sock[t].connectionFd # NoFd => conn[sock[t].connectionFd] # "free"
      BY <3>1 DEF Owns, StatesFor
    <3>3. sock[t].connectionFd \notin Held(s)
      BY <2>2, <2>7, <3>1 DEF Owns
    <3> QED BY <2>3, <3>2, <3>3, SetFacts
  <2>8. Moves({s}, K)
    BY <1>7, <2>2, <2>4, <2>7 DEF Moves
  <2> HIDE DEF K
  <2> QED BY <1>1, <1>11, <2>2, <2>6, <2>8, DescriptorsMoved
<1>12. ASSUME ~FailsAtOnce, NoneLost PROVE NoneLost'
  <2>1. lost = {}
    <3>1. Cardinality(lost) = 0 /\ IsFiniteSet(lost)
      BY <1>12, SocketConstants, FS_Subset DEF NoneLeft
    <3> QED BY <3>1, FS_EmptySet
  <2> QED BY <1>8, <1>9, <1>12, <2>1 DEF NoneLost, Without
<1> QED BY <1>2, <1>3, <1>7, <1>8, <1>10, <1>11, <1>12

\* connectionMonitorHandler(): the descriptor becomes that of the open connection.
LEMMA EstablishedMembers ==
  ASSUME MembersInv, DescriptorInv, NEW s \in Outgoing, Established(s)
  PROVE  /\ MembersInv' /\ DescriptorInv' /\ (NoneLost => NoneLost')
         /\ \A t \in Sockets : t # s => sock'[t] = sock[t]
         /\ sock'[s].open /\ ~sock'[s].accepted /\ sock'[s].handles = sock[s].handles
<1> DEFINE f == sock[s].connectionFd
           r == [sock[s] EXCEPT !.open = TRUE, !.connecting = FALSE, !.addresses = 0, !.dataFd = f]
<1>1. s \in Clients /\ s \in Sockets /\ s # Server /\ sock[s] \in SocketStates /\ SocketSound(s, sock[s])
      /\ ~sock[s].accepted /\ s \notin Accepted
  BY SetFacts DEF MembersInv, SocketSound
<1>2. /\ f # NoFd /\ f \in Fds /\ polled[f] # NoHandler /\ polled[f][2] = "monitor"
      /\ conn[f] \in {"up", "gone"}
      /\ sock' = [sock EXCEPT ![s].open = TRUE, ![s].connecting = FALSE, ![s].addresses = 0, ![s].dataFd = f]
      /\ polled' = [polled EXCEPT ![f] = <<s, "data">>]
      /\ conn' = conn
  BY <1>1 DEF Established, Polls, SocketStates
<1>3. /\ r \in SocketStates /\ r.open /\ ~r.connecting /\ r.connectionFd = f /\ r.dataFd = f
      /\ r.accepted = sock[s].accepted /\ r.serving = sock[s].serving /\ r.handles = sock[s].handles
  <2>1. 0 \in 0..MaxAddresses
    BY SocketConstants
  <2>2. f \in Fds
    BY <1>2
  <2>3. PICK m \in SocketStates : m = sock[s]
    BY <1>1
  <2>4. r = [m EXCEPT !.open = TRUE, !.connecting = FALSE, !.addresses = 0, !.dataFd = f]
    BY <2>3
  <2> HIDE DEF f, r
  <2>5. r \in SocketStates
    BY <2>1, <2>2, <2>4 DEF SocketStates
  <2>6. /\ r.open /\ ~r.connecting /\ r.connectionFd = m.connectionFd /\ r.dataFd = f
        /\ r.accepted = m.accepted /\ r.serving = m.serving /\ r.handles = m.handles
    BY <2>2, <2>4 DEF SocketStates
  <2> QED BY <2>3, <2>5, <2>6 DEF f
<1>5. Becomes(s, r)
  <2>1. sock \in [Sockets -> SocketStates]
    BY DEF MembersInv
  <2> QED BY <1>1, <1>2, <2>1 DEF Becomes
<1> HIDE DEF r
<1>4. SocketSound(s, r)
  BY <1>1, <1>2, <1>3 DEF SocketSound
<1>6. /\ sock' \in [Sockets -> SocketStates] /\ sock'[s] = r
      /\ \A t \in Sockets : SocketSound(t, sock'[t]) /\ (t # s => sock'[t] = sock[t])
  BY <1>1, <1>3, <1>4, <1>5, BecomesFacts
<1>7. MembersInv'
  <2>1. <<s, "data">> \in Sockets \X {"accept", "monitor", "data"}
    BY <1>1
  <2> QED BY <1>2, <1>6, <2>1 DEF MembersInv
<1>8. DescriptorInv'
  <2>1. Role(r) = "data"
    BY <1>1, <1>3 DEF Role, SocketSound
  <2>2. /\ polled'[f] = <<s, Role(r)>> /\ conn'[f] \in StatesFor(Role(r))
        /\ \A g \in Fds \ {f} : conn'[g] = conn[g] /\ polled'[g] = polled[g]
    BY <1>2, <2>1 DEF StatesFor, MembersInv
  <2> QED BY <1>1, <1>2, <1>3, <1>5, <2>2, DescriptorGiven
<1>9. NoneLost => NoneLost'
  BY <1>2 DEF NoneLost
<1> QED BY <1>1, <1>3, <1>6, <1>7, <1>8, <1>9

\* A monitored descriptor is that of a socket that is connecting.
LEMMA MonitoredConnects ==
  ASSUME MembersInv, DescriptorInv, NEW s \in Outgoing, sock[s].connectionFd # NoFd,
         Polls(sock[s].connectionFd, "monitor")
  PROVE  sock[s].connecting /\ ~sock[s].open
<1>1. s \in Clients /\ s \in Sockets /\ s # Server /\ sock[s] \in SocketStates /\ SocketSound(s, sock[s])
  BY SetFacts DEF MembersInv
<1>2. polled[sock[s].connectionFd] = <<s, Role(sock[s])>>
  BY <1>1 DEF DescriptorInv, Owns
<1>3. Role(sock[s]) = "monitor"
  BY <1>2 DEF Polls
<1> QED BY <1>1, <1>3 DEF Role, SocketSound

\* A descriptor that is free is given to a socket that has none.
LEMMA FreeDescriptor ==
  ASSUME MembersInv, FreeFds # {}
  PROVE  Min(FreeFds) \in Fds /\ conn[Min(FreeFds)] = "free"
<1>1. FreeFds \in SUBSET Nat
  BY SocketConstants DEF FreeFds
<1>2. Min(FreeFds) \in FreeFds
  BY <1>1, MinIsLeast
<1> QED BY <1>2 DEF FreeFds

\* startServer(): the server gets a descriptor.
LEMMA StartMembers ==
  ASSUME MembersInv, DescriptorInv, StartServer
  PROVE  /\ MembersInv' /\ DescriptorInv' /\ (NoneLost => NoneLost')
         /\ \A t \in Sockets : t # Server => sock'[t] = sock[t]
<1> DEFINE f == Min(FreeFds)
           r == [sock[Server] EXCEPT !.serving = TRUE, !.connectionFd = f]
<1>1. Server \in Sockets /\ sock[Server] \in SocketStates /\ SocketSound(Server, sock[Server])
  BY SetFacts DEF MembersInv
<1>2. /\ f \in Fds /\ f # NoFd /\ conn[f] = "free" /\ ~sock[Server].serving
      /\ sock' = [sock EXCEPT ![Server].serving = TRUE, ![Server].connectionFd = f]
      /\ polled' = [polled EXCEPT ![f] = <<Server, "accept">>]
      /\ conn' = [conn EXCEPT ![f] = "listening"]
  BY FreeDescriptor, SetFacts DEF StartServer
<1> HIDE DEF f
<1>3. /\ r \in SocketStates /\ r.serving /\ r.connectionFd = f /\ r.dataFd = sock[Server].dataFd
      /\ r.accepted = sock[Server].accepted /\ r.open = sock[Server].open
      /\ r.connecting = sock[Server].connecting
  BY <1>1, <1>2 DEF SocketStates
<1>4. SocketSound(Server, r)
  BY <1>1, <1>2, <1>3, SetFacts DEF SocketSound, Sockets, Clients
<1>5. Becomes(Server, r)
  <2>1. sock \in [Sockets -> SocketStates]
    BY DEF MembersInv
  <2> QED BY <1>1, <1>2, <2>1 DEF Becomes
<1> HIDE DEF r
<1>6. /\ sock' \in [Sockets -> SocketStates] /\ sock'[Server] = r
      /\ \A t \in Sockets : SocketSound(t, sock'[t]) /\ (t # Server => sock'[t] = sock[t])
  BY <1>1, <1>3, <1>4, <1>5, BecomesFacts
<1>7. MembersInv'
  <2>1. <<Server, "accept">> \in Sockets \X {"accept", "monitor", "data"}
    BY <1>1
  <2> QED BY <1>2, <1>6, <2>1 DEF MembersInv
<1>8. DescriptorInv'
  <2>1. Role(r) = "accept" /\ sock[Server].connectionFd = NoFd
    BY <1>1, <1>2, <1>3 DEF Role, SocketSound
  <2>2. /\ polled'[f] = <<Server, Role(r)>> /\ conn'[f] \in StatesFor(Role(r))
        /\ \A g \in Fds \ {f} : conn'[g] = conn[g] /\ polled'[g] = polled[g]
    BY <1>2, <2>1 DEF StatesFor, MembersInv
  <2> QED BY <1>1, <1>2, <1>3, <1>5, <2>1, <2>2, DescriptorGiven
<1>9. NoneLost => NoneLost'
  BY <1>2 DEF NoneLost, MembersInv
<1> QED BY <1>6, <1>7, <1>8, <1>9

\* passClientConnection(): a socket that is not in use gets a connection.
LEMMA AcceptMembers ==
  ASSUME MembersInv, DescriptorInv, NEW s \in Accepted, Accept(s)
  PROVE  /\ MembersInv' /\ DescriptorInv' /\ (NoneLost => NoneLost')
         /\ \A t \in Sockets : t # s => sock'[t] = sock[t]
         /\ sock'[s].open /\ sock'[s].accepted /\ sock'[s].handles /\ ~sock[s].accepted
<1> DEFINE f == Min(FreeFds)
           r == [Idle EXCEPT !.connectionFd = f, !.dataFd = f, !.open = TRUE, !.accepted = TRUE]
<1>1. s \in Sockets /\ s # Server /\ sock[s] \in SocketStates /\ SocketSound(s, sock[s]) /\ s \notin Outgoing
  BY SetFacts DEF MembersInv
<1>2. /\ f \in Fds /\ f # NoFd /\ conn[f] = "free" /\ ~Ending(s)
      /\ sock' = [sock EXCEPT ![s] = r]
      /\ polled' = [polled EXCEPT ![f] = <<s, "data">>]
      /\ conn' = [conn EXCEPT ![f] = "up"]
  BY FreeDescriptor, SetFacts DEF Accept
<1> HIDE DEF f
<1>3. /\ r \in SocketStates /\ ~r.serving /\ r.connectionFd = f /\ r.dataFd = f
      /\ r.accepted /\ r.open /\ ~r.connecting /\ r.handles
  BY <1>2, IdleFacts DEF SocketStates
<1>4. SocketSound(s, r)
  BY <1>1, <1>2, <1>3 DEF SocketSound
<1> HIDE DEF r
<1>5. Becomes(s, r)
  <2>1. sock \in [Sockets -> SocketStates]
    BY DEF MembersInv
  <2> QED BY <1>1, <1>2, <2>1 DEF Becomes
<1>6. /\ sock' \in [Sockets -> SocketStates] /\ sock'[s] = r
      /\ \A t \in Sockets : SocketSound(t, sock'[t]) /\ (t # s => sock'[t] = sock[t])
  BY <1>1, <1>3, <1>4, <1>5, BecomesFacts
<1>7. MembersInv'
  <2>1. <<s, "data">> \in Sockets \X {"accept", "monitor", "data"}
    BY <1>1
  <2> QED BY <1>2, <1>6, <2>1 DEF MembersInv
<1>8. DescriptorInv' /\ ~sock[s].accepted
  <2>1. Role(r) = "data" /\ sock[s].connectionFd = NoFd /\ ~sock[s].accepted
    BY <1>1, <1>2, <1>3 DEF Role, SocketSound, Ending
  <2>2. /\ polled'[f] = <<s, Role(r)>> /\ conn'[f] \in StatesFor(Role(r))
        /\ \A g \in Fds \ {f} : conn'[g] = conn[g] /\ polled'[g] = polled[g]
    BY <1>2, <2>1 DEF StatesFor, MembersInv
  <2> QED BY <1>1, <1>2, <1>3, <1>5, <2>1, <2>2, DescriptorGiven
<1>9. NoneLost => NoneLost'
  BY <1>2 DEF NoneLost, MembersInv
<1> QED BY <1>3, <1>6, <1>7, <1>8, <1>9

\* The server is stopped.
LEMMA StoppedMembers ==
  ASSUME MembersInv, DescriptorInv, sock' = [sock EXCEPT ![Server] = Idle],
         conn' = Without(conn, Held(Server), "free"), polled' = Without(polled, Held(Server), NoHandler)
  PROVE  /\ MembersInv' /\ DescriptorInv' /\ (NoneLost => NoneLost')
         /\ \A t \in Sockets : t # Server => sock'[t] = sock[t]
<1> DEFINE K == Held(Server)
<1>1. Server \in Sockets /\ Idle \in SocketStates /\ SocketSound(Server, Idle) /\ Idle.connectionFd = NoFd
  BY SetFacts, IdleFacts
<1>2. Becomes(Server, Idle)
  <2>1. sock \in [Sockets -> SocketStates]
    BY DEF MembersInv
  <2> QED BY <1>1, <2>1 DEF Becomes
<1>3. /\ sock' \in [Sockets -> SocketStates] /\ sock'[Server] = Idle
      /\ \A t \in Sockets : SocketSound(t, sock'[t]) /\ (t # Server => sock'[t] = sock[t])
  BY <1>1, <1>2, BecomesFacts
<1>4. MembersInv' /\ (NoneLost => NoneLost')
  BY <1>3, WithoutTyped DEF MembersInv, NoneLost
<1>5. /\ K = (IF sock[Server].connectionFd = NoFd THEN {} ELSE {sock[Server].connectionFd})
      /\ K \in SUBSET Fds /\ sock[Server].connectionFd \in K \cup {NoFd}
  BY <1>1, HeldFacts
<1>6. \A g \in Fds : /\ conn'[g] = (IF g \in K THEN "free" ELSE conn[g])
                     /\ polled'[g] = (IF g \in K THEN NoHandler ELSE polled[g])
  BY WithoutTyped
<1>7. Owns(Server)' /\ \A g \in K : Accounted(g)'
  BY <1>1, <1>3, <1>5, <1>6 DEF Owns, Accounted
<1>8. ASSUME NEW t \in Sockets, t # Server PROVE sock[t].connectionFd \notin K
  <2>1. Owns(t) /\ Owns(Server)
    BY <1>1 DEF DescriptorInv
  <2> QED BY <1>5, <1>8, <2>1 DEF Owns
<1>9. Moves({Server}, K)
  BY <1>3, <1>5, <1>6, <1>8 DEF Moves
<1> HIDE DEF K
<1> QED BY <1>1, <1>3, <1>4, <1>5, <1>7, <1>9, DescriptorsMoved

\* The kernel: a descriptor in use stays in use.
LEMMA PeerMembers ==
  ASSUME MembersInv, DescriptorInv, NEW f \in Fds, PeerAnswers(f) \/ PeerCloses(f)
  PROVE  MembersInv' /\ DescriptorInv' /\ (NoneLost => NoneLost')
<1>1. PICK c \in {"up", "refused", "gone"} :
        /\ conn' = [conn EXCEPT ![f] = c] /\ sock' = sock /\ polled' = polled
        /\ conn[f] = "trying" \/ (conn[f] = "up" /\ c = "gone")
  BY DEF PeerAnswers, PeerCloses
<1>2. conn \in [Fds -> {"free", "listening", "trying", "refused", "up", "gone", "lost"}]
  BY DEF MembersInv
<1>3. \A g \in Fds : conn'[g] = IF g = f THEN c ELSE conn[g]
  BY <1>1, <1>2
<1>4. MembersInv' /\ (NoneLost => NoneLost')
  BY <1>1, <1>2 DEF MembersInv, NoneLost
<1>5. ASSUME NEW s \in Sockets PROVE Owns(s)'
  <2>1. Owns(s) /\ sock[s].connectionFd \in Fds \cup {NoFd}
    BY HeldFacts DEF DescriptorInv
  <2> QED BY <1>1, <1>3, <2>1 DEF Owns, StatesFor
<1>6. ASSUME NEW g \in Fds PROVE Accounted(g)'
  <2>1. Accounted(g)
    BY DEF DescriptorInv
  <2> QED BY <1>1, <1>3, <2>1 DEF Accounted
<1> QED BY <1>4, <1>5, <1>6 DEF DescriptorInv

-----------------------------------------------------------------------------
(* What the application knows of each socket *)

\* The application believes a connection to be open from the call that says so to the one that
\* says that it has ended; the connection itself ends when that call has returned.
\* A socket that is being closed is marked, and none becomes open while a handler is under way.
ToldFor(s) ==
  /\ told[s] = "up" <=> sock[s].open /\ sock[s].handles /\ ~HasFrame(s, {"ended", "closed"})
  /\ HasFrame(s, {"closed"}) /\ sock[s].open => sock[s].closing
  /\ HasFrame(s, {"unreachable"}) => ~sock[s].open

\* What the application knows of all of them.
ToldInv == \A s \in Clients : ToldFor(s)

\* The inductive invariant: it holds whatever the application does.
SocketInv == MembersInv /\ DescriptorInv /\ ApplicationTyped /\ ClientsInv /\ ToldInv

\* Handlers stay as long as they are needed, and handlers that are told of an end do not connect
\* again: what they ask for would be closed when they return.
CarefulHandlers ==
  /\ ClearsAtClose \cap Outgoing = {}
  /\ HandlerDoes \cap ({"ended", "closed", "unreachable"} \X {"initiate"}) = {}

\* A socket asked to connect does, or is connected, and will not be closed by a call under way.
RequestFor(s) ==
  /\ s \in Outgoing \/ sock[s].open => sock[s].handles
  /\ s \in Outgoing /\ wants[s] = "open" =>
       (sock[s].open \/ sock[s].connecting) /\ ~HasFrame(s, {"ended", "closed", "unreachable"})

\* What holds in addition when handlers are careful.
RequestsInv == \A s \in Clients : RequestFor(s)

\* A step that has nothing to do with socket `t'.
FramesStay(t) ==
  \A E \in SUBSET {"ended", "closed", "unreachable"} : HasFrame(t, E)' <=> HasFrame(t, E)

\* Nothing that the invariants say of it changes.
Untouched(t) ==
  /\ sock'[t] = sock[t] /\ told'[t] = told[t] /\ (t \in Outgoing => wants'[t] = wants[t])
  /\ FramesStay(t)

\* What was known of the socket still holds.
LEMMA UntouchedKeeps ==
  ASSUME NEW t \in Clients, Untouched(t)
  PROVE  (ToldFor(t) => ToldFor(t)') /\ (RequestFor(t) => RequestFor(t)')
<1>1. /\ HasFrame(t, {"ended", "closed"})' <=> HasFrame(t, {"ended", "closed"})
      /\ HasFrame(t, {"closed"})' <=> HasFrame(t, {"closed"})
      /\ HasFrame(t, {"unreachable"})' <=> HasFrame(t, {"unreachable"})
      /\ HasFrame(t, {"ended", "closed", "unreachable"})' <=> HasFrame(t, {"ended", "closed", "unreachable"})
  BY DEF Untouched, FramesStay
<1>2. sock'[t] = sock[t] /\ told'[t] = told[t] /\ (t \in Outgoing => wants'[t] = wants[t])
  BY DEF Untouched
<1> QED BY <1>1, <1>2 DEF ToldFor, RequestFor

\* All sockets but one are not touched.
LEMMA OneTouched ==
  ASSUME ToldInv, NEW s \in Clients, \A t \in Clients : t # s => Untouched(t), ToldFor(s)'
  PROVE  ToldInv' /\ (RequestsInv /\ RequestFor(s)' => RequestsInv')
<1>1. ASSUME NEW t \in Clients PROVE ToldFor(t)'
  BY <1>1, UntouchedKeeps DEF ToldInv
<1>2. ASSUME NEW t \in Clients, RequestsInv, RequestFor(s)' PROVE RequestFor(t)'
  BY <1>2, UntouchedKeeps DEF RequestsInv
<1> QED BY <1>1, <1>2 DEF ToldInv, RequestsInv

\* No socket of the application is touched.
LEMMA NoneTouched ==
  ASSUME ToldInv, \A t \in Clients : Untouched(t)
  PROVE  ToldInv' /\ (RequestsInv => RequestsInv')
<1>1. ASSUME NEW t \in Clients PROVE ToldFor(t)'
  BY <1>1, UntouchedKeeps DEF ToldInv
<1>2. ASSUME NEW t \in Clients, RequestsInv PROVE RequestFor(t)'
  BY <1>2, UntouchedKeeps DEF RequestsInv
<1> QED BY <1>1, <1>2 DEF ToldInv, RequestsInv

\* A call is made where the instance allows it.
LEMMA MayCallFacts ==
  ASSUME NEW call, NEW s, MayCall(call, s)
  PROVE  /\ stack # <<>> => Top.calls < MaxCalls
         /\ \A E : HandlerDoes \cap (E \X {call}) = {} => ~HasFrame(s, E)
<1>1. /\ stack # <<>> => Top.calls < MaxCalls
      /\ \A i \in DOMAIN stack : stack[i].socket = s => <<stack[i].event, call>> \in HandlerDoes
  BY DEF MayCall
<1>2. ASSUME NEW E, HasFrame(s, E) PROVE HandlerDoes \cap (E \X {call}) # {}
  <2>1. PICK i \in DOMAIN stack : stack[i].socket = s /\ stack[i].event \in E
    BY <1>2 DEF HasFrame
  <2>2. <<stack[i].event, call>> \in HandlerDoes \cap (E \X {call})
    BY <1>1, <2>1
  <2> QED BY <2>2
<1> QED BY <1>1, <1>2

\* The list of the server, when no connection begins or ends.
LEMMA ClientsStay ==
  ASSUME ClientsInv, UNCHANGED <<clients, released>>, PassUnderWay => PassUnderWay',
         \A t \in Accepted : sock'[t].accepted = sock[t].accepted
  PROVE  ClientsInv'
BY DEF ClientsInv

\* returnClientConnection() takes the connection off the list, once it is on it.
LEMMA ClientsShut ==
  ASSUME MembersInv, ApplicationTyped, ClientsInv, NEW s \in Clients, InternalClose(s),
         PassUnderWay => PassUnderWay'
  PROVE  /\ ClientsInv' /\ clients' \in Seq(Accepted) /\ released' \in BOOLEAN
         /\ \A t \in Clients : t # s => sock'[t] = sock[t]
         /\ ~sock'[s].open /\ ~sock'[s].connecting
         /\ sock'[s].handles = (sock[s].handles /\ s \notin ClearsAtClose)
<1>1. /\ sock' = ShutSockets(s) /\ released' = (released /\ ~LastReference(s))
      /\ clients' = IF sock[s].accepted THEN RemoveFirst(clients, s) ELSE clients
  BY DEF InternalClose
<1>2. /\ sock'[s] = Shut(s) /\ \A t \in Clients : t # s => sock'[t] = sock[t]
  BY <1>1, ShutSocketsFacts, SetFacts
<1>3. /\ ~Shut(s).accepted /\ ~Shut(s).open /\ ~Shut(s).connecting
      /\ Shut(s).handles = (sock[s].handles /\ s \notin ClearsAtClose)
  BY ShutFacts, SetFacts DEF MembersInv
<1>4. clients \in Seq(Accepted) /\ released \in BOOLEAN
  BY DEF ApplicationTyped
<1>5. /\ RemoveFirst(clients, s) \in Seq(Accepted) /\ IsInjective(RemoveFirst(clients, s))
      /\ \A x : Contains(RemoveFirst(clients, s), x) <=> Contains(clients, x) /\ x # s
      /\ RemoveFirst(clients, s) = <<>> => clients = <<>> \/ clients = <<s>>
  BY <1>4, RemoveFirstProperties DEF ClientsInv
<1>6. \A t \in Accepted : Contains(clients', t) <=> sock'[t].accepted
  <2> SUFFICES ASSUME NEW t \in Accepted PROVE Contains(clients', t) <=> sock'[t].accepted
    OBVIOUS
  <2>1. Contains(clients, t) <=> sock[t].accepted
    BY DEF ClientsInv
  <2> QED BY <1>1, <1>2, <1>3, <1>5, <2>1, SetFacts
<1>7. released' => clients' # <<>> \/ PassUnderWay'
  <2> SUFFICES ASSUME released, ~LastReference(s), ~PassUnderWay PROVE clients' # <<>>
    BY <1>1
  <2>1. clients # <<>>
    BY DEF ClientsInv
  <2>2. ~(sock[s].accepted /\ clients = <<s>>)
    BY DEF LastReference, PassUnderWay
  <2> QED BY <1>1, <1>5, <2>1, <2>2
<1>8. IsInjective(clients')
  BY <1>1, <1>5 DEF ClientsInv
<1> QED BY <1>1, <1>2, <1>3, <1>4, <1>5, <1>6, <1>7, <1>8 DEF ClientsInv

-----------------------------------------------------------------------------
(* Every step keeps the invariants *)

\* Of a step: it keeps what always holds, and, with careful handlers, what holds of requests.
Kept ==
  /\ SocketInv'
  /\ CarefulHandlers /\ RequestsInv => RequestsInv'
  /\ ~FailsAtOnce /\ NoneLost => NoneLost'

\* The handlers under way, when none is added or taken away.
LEMMA SameStack ==
  ASSUME ApplicationTyped, stack' = Called, stack # <<>> => Top.calls < MaxCalls
  PROVE  /\ stack' \in Seq(Frames) /\ (PassUnderWay' <=> PassUnderWay)
         /\ \A s, E : HasFrame(s, E)' <=> HasFrame(s, E)
BY CalledHandlers, SameFrames DEF ApplicationTyped, SameHandlers

\* The handlers under way and what the application knows, once it has been told.
LEMMA ToldStack ==
  ASSUME ApplicationTyped, stack # <<>> => Top.calls < MaxCalls,
         NEW s \in Clients, NEW event \in Events, Tell(s, event)
  PROVE  /\ stack' \in Seq(Frames) /\ (PassUnderWay' <=> PassUnderWay \/ event = "accepted")
         /\ \A t, E : HasFrame(t, E)' <=> HasFrame(t, E) \/ (t = s /\ event \in E)
         /\ told' \in [Clients -> {"up", "down"}]
         /\ told'[s] = (IF event \in {"opened", "accepted"} THEN "up" ELSE "down")
         /\ \A t \in Clients : t # s => told'[t] = told[t]
<1>1. Pushes(s, event) /\ stack \in Seq(Frames)
  BY TellPushes DEF ApplicationTyped
<1>2. told' = [told EXCEPT ![s] = IF event \in {"opened", "accepted"} THEN "up" ELSE "down"]
  BY DEF Tell
<1> QED BY <1>1, <1>2, PushedFrames DEF Pushes, ApplicationTyped

\* What the application has asked for, once it has asked ...
LEMMA RequestedFacts ==
  ASSUME ApplicationTyped, NEW s, NEW what \in {"nothing", "open", "closed"}
  PROVE  /\ Requested(s, what) \in [Asked -> {"nothing", "open", "closed"}]
         /\ \A a \in Asked : Requested(s, what)[a] = (IF a = s THEN what ELSE wants[a])
BY DEF Requested, ApplicationTyped

\* ... and once it has got its answer.
LEMMA AnsweredFacts ==
  ASSUME ApplicationTyped, NEW s
  PROVE  /\ Answered(s) \in [Asked -> {"nothing", "open", "closed"}]
         /\ s \in Asked => Answered(s)[s] # "open"
         /\ \A a \in Asked : a # s => Answered(s)[a] = wants[a]
BY DEF Answered, ApplicationTyped

\* Events are known.
LEMMA EventFacts ==
  {"opened", "accepted", "failed", "unreachable", "ended", "closed", "each"} = Events
BY DEF Events

\* initiateConnection() of a socket that is open or connecting.
LEMMA InitiateIgnoredKeeps ==
  ASSUME SocketInv, NEW s \in Outgoing, InitiateIgnored(s)
  PROVE  Kept
<1> USE DEF SocketInv
<1>1. /\ MayCall("initiate", s) /\ ~MayInitiate(s) /\ wants' = [wants EXCEPT ![s] = "open"] /\ stack' = Called
      /\ UNCHANGED <<sock, clients, released, conn, polled, told, broken>>
  BY DEF InitiateIgnored, kernel
<1>2. /\ stack' \in Seq(Frames) /\ (PassUnderWay' <=> PassUnderWay)
      /\ \A t, E : HasFrame(t, E)' <=> HasFrame(t, E)
  BY <1>1, MayCallFacts, SameStack
<1>3. s \in Clients /\ s \in Asked /\ s \in Sockets
  BY SetFacts
<1>4. MembersInv' /\ DescriptorInv' /\ (NoneLost => NoneLost')
  BY <1>1 DEF MembersInv, DescriptorInv, Owns, Accounted, NoneLost
<1>5. ApplicationTyped'
  BY <1>1, <1>2, <1>3 DEF ApplicationTyped
<1>6. ClientsInv'
  BY <1>1, <1>2, ClientsStay
<1>7. \A t \in Clients : t # s => Untouched(t)
  BY <1>1, <1>2, SetFacts DEF Untouched, FramesStay, ApplicationTyped
<1>8. ToldFor(s)'
  BY <1>1, <1>2, <1>3 DEF ToldInv, ToldFor
<1>9. CarefulHandlers /\ RequestsInv => RequestFor(s)'
  <2>1. sock[s].open \/ sock[s].connecting
    BY <1>1, <1>3 DEF MayInitiate, MembersInv, SocketSound
  <2>2. CarefulHandlers => ~HasFrame(s, {"ended", "closed", "unreachable"})
    BY <1>1, MayCallFacts DEF CarefulHandlers
  <2> QED BY <1>1, <1>2, <1>3, <2>1, <2>2 DEF RequestsInv, RequestFor
<1> QED BY <1>3, <1>4, <1>5, <1>6, <1>7, <1>8, <1>9, OneTouched DEF Kept

\* initiateConnection() that finds an address to try.
LEMMA InitiateStartsKeeps ==
  ASSUME SocketInv, NEW s \in Outgoing, InitiateStarts(s)
  PROVE  Kept
<1> USE DEF SocketInv
<1>1. /\ MayCall("initiate", s) /\ ~sock[s].open /\ wants' = [wants EXCEPT ![s] = "open"] /\ stack' = Called
      /\ UNCHANGED <<told, broken>>
  BY DEF InitiateStarts, MayInitiate
<1>2. PICK n \in 1..MaxAddresses, skipped \in 0..MaxAddresses, lost \in SUBSET Fds, f \in Fds :
        Opens(s, n, skipped, lost, f)
  BY DEF InitiateStarts, Connects
<1>3. /\ MembersInv' /\ (DescriptorInv => DescriptorInv') /\ (~FailsAtOnce /\ NoneLost => NoneLost')
      /\ \A t \in Sockets : t # s => sock'[t] = sock[t]
      /\ ~sock'[s].open /\ sock'[s].connecting /\ ~sock'[s].accepted
      /\ sock'[s].handles = (sock[s].handles /\ s \notin ClearsAtClose)
      /\ UNCHANGED <<clients, released>>
  <2>1. n \in 0..MaxAddresses
    BY SocketConstants
  <2> QED BY <1>2, <2>1, OpensMembers
<1>4. /\ stack' \in Seq(Frames) /\ (PassUnderWay' <=> PassUnderWay)
      /\ \A t, E : HasFrame(t, E)' <=> HasFrame(t, E)
  BY <1>1, MayCallFacts, SameStack
<1>5. s \in Clients /\ s \in Asked /\ s \in Sockets /\ s \notin Accepted
  BY SetFacts
<1>6. ApplicationTyped'
  BY <1>1, <1>3, <1>4, <1>5 DEF ApplicationTyped
<1>7. ClientsInv'
  BY <1>3, <1>4, <1>5, SetFacts, ClientsStay
<1>8. \A t \in Clients : t # s => Untouched(t)
  BY <1>1, <1>3, <1>4, SetFacts DEF Untouched, FramesStay, ApplicationTyped
<1>9. ToldFor(s)'
  BY <1>1, <1>3, <1>4, <1>5 DEF ToldInv, ToldFor
<1>10. CarefulHandlers /\ RequestsInv => RequestFor(s)'
  <2>1. CarefulHandlers => ~HasFrame(s, {"ended", "closed", "unreachable"}) /\ s \notin ClearsAtClose
    BY <1>1, MayCallFacts DEF CarefulHandlers
  <2> QED BY <1>3, <1>4, <1>5, <2>1 DEF RequestsInv, RequestFor
<1> QED BY <1>3, <1>5, <1>6, <1>7, <1>8, <1>9, <1>10, OneTouched DEF Kept

\* initiateConnection() that finds none.
LEMMA InitiateFailsKeeps ==
  ASSUME SocketInv, NEW s \in Outgoing, InitiateFails(s)
  PROVE  Kept
<1> USE DEF SocketInv
<1>1. /\ MayCall("initiate", s) /\ ~sock[s].open /\ wants' = [wants EXCEPT ![s] = "nothing"] /\ broken' = broken
      /\ Tell(s, "failed") \/ (stack' = Called /\ told' = told)
  BY DEF InitiateFails, MayInitiate
<1>2. PICK n \in 0..MaxAddresses, lost \in SUBSET Fds : NoneLeft(s, n, lost)
  BY DEF InitiateFails, Fails
<1>3. /\ MembersInv' /\ (DescriptorInv => DescriptorInv') /\ (~FailsAtOnce /\ NoneLost => NoneLost')
      /\ \A t \in Sockets : t # s => sock'[t] = sock[t]
      /\ ~sock'[s].open /\ ~sock'[s].connecting /\ ~sock'[s].accepted
      /\ sock'[s].handles = (sock[s].handles /\ s \notin ClearsAtClose)
      /\ UNCHANGED <<clients, released>>
  BY <1>2, NoneLeftMembers
<1>4. s \in Clients /\ s \in Asked /\ s \in Sockets /\ s \notin Accepted
  BY SetFacts
<1>5. /\ stack' \in Seq(Frames) /\ (PassUnderWay' <=> PassUnderWay)
      /\ \A t, E : E \subseteq {"ended", "closed", "unreachable"} => (HasFrame(t, E)' <=> HasFrame(t, E))
      /\ told' \in [Clients -> {"up", "down"}] /\ told'[s] # "up"
      /\ \A t \in Clients : t # s => told'[t] = told[t]
  <2>1. stack # <<>> => Top.calls < MaxCalls
    BY <1>1, MayCallFacts
  <2>2. CASE Tell(s, "failed")
    <3>1. "failed" \in Events
      BY EventFacts
    <3> QED BY <1>4, <2>1, <2>2, <3>1, ToldStack
  <2>3. CASE stack' = Called /\ told' = told
    <3>1. told[s] # "up" /\ told \in [Clients -> {"up", "down"}]
      BY <1>1, <1>4 DEF ToldInv, ToldFor, ApplicationTyped
    <3> QED BY <2>1, <2>3, <3>1, SameStack
  <2> QED BY <1>1, <2>2, <2>3
<1>6. ApplicationTyped'
  BY <1>1, <1>3, <1>4, <1>5 DEF ApplicationTyped
<1>7. ClientsInv'
  BY <1>3, <1>4, <1>5, SetFacts, ClientsStay
<1>8. \A t \in Clients : t # s => Untouched(t)
  BY <1>1, <1>3, <1>5, SetFacts DEF Untouched, FramesStay, ApplicationTyped
<1>9. ToldFor(s)'
  BY <1>3, <1>5 DEF ToldFor
<1>10. CarefulHandlers /\ RequestsInv => RequestFor(s)'
  BY <1>1, <1>3, <1>4 DEF RequestsInv, RequestFor, ApplicationTyped, CarefulHandlers
<1> QED BY <1>3, <1>4, <1>6, <1>7, <1>8, <1>9, <1>10, OneTouched DEF Kept

\* connectionMonitorHandler(): connected.
LEMMA EstablishedKeeps ==
  ASSUME SocketInv, NEW s \in Outgoing, Established(s)
  PROVE  Kept
<1> USE DEF SocketInv
<1>1. s \in Clients /\ s \in Asked /\ s \in Sockets /\ s \notin Accepted
  BY SetFacts
<1>2. /\ stack = <<>> /\ UNCHANGED <<clients, released, broken>>
      /\ IF sock[s].handles THEN Tell(s, "opened") /\ wants' = Answered(s)
         ELSE UNCHANGED <<stack, told, wants>>
  BY DEF Established, Polls
<1>3. /\ MembersInv' /\ DescriptorInv' /\ (NoneLost => NoneLost')
      /\ \A t \in Sockets : t # s => sock'[t] = sock[t]
      /\ sock'[s].open /\ ~sock'[s].accepted /\ sock'[s].handles = sock[s].handles
  BY EstablishedMembers
<1>4. \A t, E : ~HasFrame(t, E)
  BY <1>2, NoFrames
<1>5. CASE sock[s].handles
  <2>1. "opened" \in Events
    BY EventFacts
  <2>2. /\ stack' \in Seq(Frames) /\ (PassUnderWay' <=> PassUnderWay)
        /\ \A t, E : HasFrame(t, E)' <=> HasFrame(t, E) \/ (t = s /\ "opened" \in E)
        /\ told' \in [Clients -> {"up", "down"}] /\ told'[s] = "up"
        /\ \A t \in Clients : t # s => told'[t] = told[t]
    BY <1>1, <1>2, <1>5, <2>1, ToldStack
  <2>3. /\ wants' \in [Asked -> {"nothing", "open", "closed"}] /\ wants'[s] # "open"
        /\ \A a \in Asked : a # s => wants'[a] = wants[a]
    BY <1>1, <1>2, <1>5, AnsweredFacts
  <2>4. ApplicationTyped' /\ ClientsInv'
    BY <1>1, <1>2, <1>3, <2>2, <2>3, SetFacts, ClientsStay DEF ApplicationTyped
  <2>5. \A t \in Clients : t # s => Untouched(t)
    BY <1>3, <2>2, <2>3, SetFacts DEF Untouched, FramesStay
  <2>6. ToldFor(s)' /\ (RequestsInv => RequestFor(s)')
    BY <1>1, <1>3, <1>4, <1>5, <2>2, <2>3 DEF ToldFor, RequestFor
  <2> QED BY <1>1, <1>3, <2>4, <2>5, <2>6, OneTouched DEF Kept
<1>6. CASE ~sock[s].handles
  <2>1. ApplicationTyped' /\ ClientsInv'
    BY <1>1, <1>2, <1>3, <1>6, SetFacts, ClientsStay DEF ApplicationTyped, PassUnderWay
  <2>2. \A t, E : HasFrame(t, E)' <=> HasFrame(t, E)
    BY <1>2, <1>6 DEF HasFrame
  <2>3. \A t \in Clients : t # s => Untouched(t)
    BY <1>2, <1>3, <1>6, <2>2, SetFacts DEF Untouched, FramesStay
  <2>4. ToldFor(s)' /\ (RequestsInv => RequestFor(s)')
    BY <1>1, <1>2, <1>3, <1>4, <1>6, <2>2 DEF ToldInv, ToldFor, RequestsInv, RequestFor
  <2> QED BY <1>1, <1>3, <2>1, <2>3, <2>4, OneTouched DEF Kept
<1> QED BY <1>5, <1>6

\* connectionMonitorHandler(): not connected, and there is another address.
LEMMA NextAddressKeeps ==
  ASSUME SocketInv, NEW s \in Outgoing, NextAddress(s)
  PROVE  Kept
<1> USE DEF SocketInv
<1>1. /\ s \in Clients /\ s \in Asked /\ s \in Sockets /\ s \notin Accepted
      /\ sock[s].addresses \in 0..MaxAddresses
  BY SetFacts DEF MembersInv, SocketStates
<1>2. /\ stack = <<>> /\ UNCHANGED <<stack, wants, told, broken>> /\ Connects(s, sock[s].addresses)
      /\ sock[s].connecting /\ ~sock[s].open
  BY MonitoredConnects DEF NextAddress, Polls
<1>3. PICK skipped \in 0..MaxAddresses, lost \in SUBSET Fds, f \in Fds :
        Opens(s, sock[s].addresses, skipped, lost, f)
  BY <1>2 DEF Connects
<1>4. /\ MembersInv' /\ (DescriptorInv => DescriptorInv') /\ (~FailsAtOnce /\ NoneLost => NoneLost')
      /\ \A t \in Sockets : t # s => sock'[t] = sock[t]
      /\ ~sock'[s].open /\ sock'[s].connecting /\ ~sock'[s].accepted
      /\ sock'[s].handles = (sock[s].handles /\ s \notin ClearsAtClose)
      /\ UNCHANGED <<clients, released>>
  BY <1>1, <1>3, OpensMembers
<1>5. \A t, E : ~HasFrame(t, E) /\ ~HasFrame(t, E)'
  BY <1>2, NoFrames DEF HasFrame
<1>6. ApplicationTyped' /\ ClientsInv'
  BY <1>1, <1>2, <1>4, SetFacts, ClientsStay DEF ApplicationTyped, PassUnderWay
<1>7. \A t \in Clients : t # s => Untouched(t)
  BY <1>2, <1>4, <1>5, SetFacts DEF Untouched, FramesStay
<1>8. ToldFor(s)' /\ (CarefulHandlers /\ RequestsInv => RequestFor(s)')
  BY <1>1, <1>2, <1>4, <1>5 DEF ToldInv, ToldFor, RequestsInv, RequestFor, CarefulHandlers
<1> QED BY <1>1, <1>4, <1>6, <1>7, <1>8, OneTouched DEF Kept

\* connectionMonitorHandler(): not connected, and there is none.
LEMMA UnreachableKeeps ==
  ASSUME SocketInv, NEW s \in Outgoing, Unreachable(s)
  PROVE  Kept
<1> USE DEF SocketInv
<1>1. /\ s \in Clients /\ s \in Asked /\ s \in Sockets /\ s \notin Accepted
      /\ sock[s].addresses \in 0..MaxAddresses
  BY SetFacts DEF MembersInv, SocketStates
<1>2. /\ stack = <<>> /\ broken' = broken /\ Fails(s, sock[s].addresses) /\ ~sock[s].open
      /\ IF sock[s].handles THEN Tell(s, "unreachable") /\ wants' = Answered(s)
         ELSE UNCHANGED <<stack, told, wants>>
  BY MonitoredConnects DEF Unreachable, Polls
<1>3. PICK lost \in SUBSET Fds : NoneLeft(s, sock[s].addresses, lost)
  BY <1>2 DEF Fails
<1>4. /\ MembersInv' /\ (DescriptorInv => DescriptorInv') /\ (~FailsAtOnce /\ NoneLost => NoneLost')
      /\ \A t \in Sockets : t # s => sock'[t] = sock[t]
      /\ ~sock'[s].open /\ ~sock'[s].connecting /\ ~sock'[s].accepted
      /\ sock'[s].handles = (sock[s].handles /\ s \notin ClearsAtClose)
      /\ UNCHANGED <<clients, released>>
  BY <1>1, <1>3, NoneLeftMembers
<1>5. \A t, E : ~HasFrame(t, E)
  BY <1>2, NoFrames
<1>6. CASE sock[s].handles
  <2>1. "unreachable" \in Events
    BY EventFacts
  <2>2. /\ stack' \in Seq(Frames) /\ (PassUnderWay' <=> PassUnderWay)
        /\ \A t, E : HasFrame(t, E)' <=> HasFrame(t, E) \/ (t = s /\ "unreachable" \in E)
        /\ told' \in [Clients -> {"up", "down"}] /\ told'[s] = "down"
        /\ \A t \in Clients : t # s => told'[t] = told[t]
    BY <1>1, <1>2, <1>6, <2>1, ToldStack
  <2>3. /\ wants' \in [Asked -> {"nothing", "open", "closed"}] /\ wants'[s] # "open"
        /\ \A a \in Asked : a # s => wants'[a] = wants[a]
    BY <1>1, <1>2, <1>6, AnsweredFacts
  <2>4. ApplicationTyped' /\ ClientsInv'
    BY <1>1, <1>2, <1>4, <2>2, <2>3, SetFacts, ClientsStay DEF ApplicationTyped
  <2>5. \A t \in Clients : t # s => Untouched(t)
    BY <1>4, <2>2, <2>3, SetFacts DEF Untouched, FramesStay
  <2>6. ToldFor(s)' /\ (CarefulHandlers /\ RequestsInv => RequestFor(s)')
    BY <1>1, <1>4, <1>6, <2>2, <2>3 DEF ToldFor, RequestFor, CarefulHandlers
  <2> QED BY <1>1, <1>4, <2>4, <2>5, <2>6, OneTouched DEF Kept
<1>7. CASE ~sock[s].handles
  <2>1. ApplicationTyped' /\ ClientsInv'
    BY <1>1, <1>2, <1>4, <1>7, SetFacts, ClientsStay DEF ApplicationTyped, PassUnderWay
  <2>2. \A t, E : ~HasFrame(t, E)'
    BY <1>2, <1>7 DEF HasFrame
  <2>3. \A t \in Clients : t # s => Untouched(t)
    BY <1>2, <1>4, <1>5, <1>7, <2>2, SetFacts DEF Untouched, FramesStay
  <2>4. ToldFor(s)' /\ (RequestsInv => RequestFor(s)')
    BY <1>1, <1>2, <1>4, <1>7, <2>2 DEF ToldInv, ToldFor, RequestsInv, RequestFor
  <2> QED BY <1>1, <1>4, <2>1, <2>3, <2>4, OneTouched DEF Kept
<1> QED BY <1>6, <1>7

\* startServer().
LEMMA StartServerKeeps ==
  ASSUME SocketInv, StartServer
  PROVE  Kept
<1> USE DEF SocketInv
<1>1. /\ wants' = [wants EXCEPT ![Server] = "open"] /\ UNCHANGED <<clients, released, stack, told, broken>>
  BY DEF StartServer
<1>2. /\ MembersInv' /\ DescriptorInv' /\ (NoneLost => NoneLost')
      /\ \A t \in Sockets : t # Server => sock'[t] = sock[t]
  BY StartMembers
<1>3. ApplicationTyped' /\ ClientsInv'
  BY <1>1, <1>2, SetFacts, ClientsStay DEF ApplicationTyped, PassUnderWay
<1>4. \A t, E : HasFrame(t, E)' <=> HasFrame(t, E)
  BY <1>1 DEF HasFrame
<1>5. \A t \in Clients : Untouched(t)
  BY <1>1, <1>2, <1>4, SetFacts DEF Untouched, FramesStay, ApplicationTyped
<1> QED BY <1>2, <1>3, <1>5, NoneTouched DEF Kept

\* The application gives up its reference to the server.
LEMMA ReleaseServerKeeps ==
  ASSUME SocketInv, ReleaseServer
  PROVE  Kept
<1> USE DEF SocketInv
<1>1. UNCHANGED <<clients, stack, wants, told, broken>>
  BY DEF ReleaseServer
<1>2. \A t, E : HasFrame(t, E)' <=> HasFrame(t, E)
  BY <1>1 DEF HasFrame
<1>3. CASE clients = <<>>
  <2>1. /\ sock' = [sock EXCEPT ![Server] = Idle] /\ conn' = Without(conn, Held(Server), "free")
        /\ polled' = Without(polled, Held(Server), NoHandler) /\ UNCHANGED released
    BY <1>3 DEF ReleaseServer
  <2>2. /\ MembersInv' /\ DescriptorInv' /\ (NoneLost => NoneLost')
        /\ \A t \in Sockets : t # Server => sock'[t] = sock[t]
    BY <2>1, StoppedMembers
  <2>3. ApplicationTyped' /\ ClientsInv'
    BY <1>1, <2>1, <2>2, SetFacts, ClientsStay DEF ApplicationTyped, PassUnderWay
  <2>4. \A t \in Clients : Untouched(t)
    BY <1>1, <1>2, <2>2, SetFacts DEF Untouched, FramesStay
  <2> QED BY <2>2, <2>3, <2>4, NoneTouched DEF Kept
<1>4. CASE clients # <<>>
  <2>1. released' /\ UNCHANGED <<sock, conn, polled>>
    BY <1>4 DEF ReleaseServer, kernel
  <2>2. MembersInv' /\ DescriptorInv' /\ (NoneLost => NoneLost')
    BY <2>1 DEF MembersInv, DescriptorInv, Owns, Accounted, NoneLost
  <2>3. ApplicationTyped' /\ ClientsInv'
    BY <1>1, <1>4, <2>1 DEF ApplicationTyped, ClientsInv, ReleaseServer
  <2>4. \A t \in Clients : Untouched(t)
    BY <1>1, <1>2, <2>1 DEF Untouched, FramesStay
  <2> QED BY <2>2, <2>3, <2>4, NoneTouched DEF Kept
<1> QED BY <1>3, <1>4

\* connectionAcceptHandler().
LEMMA AcceptKeeps ==
  ASSUME SocketInv, NEW s \in Accepted, Accept(s)
  PROVE  Kept
<1> USE DEF SocketInv
<1>1. s \in Clients /\ s \in Sockets /\ s \notin Outgoing
  BY SetFacts
<1>2. /\ stack = <<>> /\ UNCHANGED <<released, wants, broken>> /\ clients' = Append(clients, s)
      /\ Tell(s, "accepted")
  BY DEF Accept, Polls
<1>3. /\ MembersInv' /\ DescriptorInv' /\ (NoneLost => NoneLost')
      /\ \A t \in Sockets : t # s => sock'[t] = sock[t]
      /\ sock'[s].open /\ sock'[s].accepted /\ sock'[s].handles /\ ~sock[s].accepted
  BY AcceptMembers
<1>4. "accepted" \in Events
  BY EventFacts
<1>5. /\ stack' \in Seq(Frames) /\ PassUnderWay'
      /\ \A t, E : HasFrame(t, E)' <=> t = s /\ "accepted" \in E
      /\ told' \in [Clients -> {"up", "down"}] /\ told'[s] = "up"
      /\ \A t \in Clients : t # s => told'[t] = told[t]
  BY <1>1, <1>2, <1>4, ToldStack, NoFrames
<1>6. /\ Append(clients, s) \in Seq(Accepted) /\ IsInjective(Append(clients, s)) /\ Append(clients, s) # <<>>
      /\ \A x : Contains(Append(clients, s), x) <=> Contains(clients, x) \/ x = s
  BY <1>3, AppendedClient DEF ApplicationTyped, ClientsInv
<1>7. ApplicationTyped'
  BY <1>2, <1>5, <1>6 DEF ApplicationTyped
<1>8. ClientsInv'
  <2>1. \A t \in Accepted : Contains(clients', t) <=> sock'[t].accepted
    BY <1>2, <1>3, <1>6, SetFacts DEF ClientsInv
  <2> QED BY <1>2, <1>5, <1>6, <2>1 DEF ClientsInv
<1>9. \A t \in Clients : t # s => Untouched(t)
  BY <1>2, <1>3, <1>5, SetFacts, NoFrames DEF Untouched, FramesStay
<1>10. ToldFor(s)' /\ RequestFor(s)'
  BY <1>1, <1>3, <1>5 DEF ToldFor, RequestFor
<1> QED BY <1>1, <1>3, <1>7, <1>8, <1>9, <1>10, OneTouched DEF Kept

\* internalCloseConnection(), as a part of a step that calls no handler.
LEMMA InternalCloseMembers ==
  ASSUME MembersInv, DescriptorInv, NEW s \in Clients, InternalClose(s)
  PROVE  MembersInv' /\ DescriptorInv' /\ (NoneLost => NoneLost')
BY ShutMembers DEF InternalClose

\* dataExceptionHandler(): the peer has closed the connection.
LEMMA ExceptionKeeps ==
  ASSUME SocketInv, NEW s \in Clients, Exception(s)
  PROVE  Kept /\ sock[s].open /\ stack = <<>>
<1> USE DEF SocketInv
<1>1. /\ stack = <<>> /\ broken' = broken /\ wants' = Answered(s) /\ sock[s].dataFd # NoFd
      /\ IF sock[s].handles THEN Tell(s, "ended") /\ UNCHANGED <<sock, clients, released, conn, polled>>
         ELSE InternalClose(s) /\ UNCHANGED <<stack, told>>
  BY DEF Exception, Polls, kernel
<1>2. s \in Sockets /\ sock[s].open
  BY <1>1, SetFacts DEF MembersInv, SocketSound
<1>3. /\ wants' \in [Asked -> {"nothing", "open", "closed"}] /\ (s \in Asked => wants'[s] # "open")
      /\ \A a \in Asked : a # s => wants'[a] = wants[a]
  BY <1>1, AnsweredFacts
<1>4. CASE sock[s].handles
  <2>1. "ended" \in Events
    BY EventFacts
  <2>2. /\ stack' \in Seq(Frames) /\ (PassUnderWay' <=> PassUnderWay)
        /\ \A t, E : HasFrame(t, E)' <=> t = s /\ "ended" \in E
        /\ told' \in [Clients -> {"up", "down"}] /\ told'[s] = "down"
        /\ \A t \in Clients : t # s => told'[t] = told[t]
    BY <1>1, <1>4, <2>1, ToldStack, NoFrames
  <2>3. ApplicationTyped' /\ ClientsInv'
    BY <1>1, <1>3, <1>4, <2>2, ClientsStay DEF ApplicationTyped
  <2>4. \A t \in Clients : t # s => Untouched(t)
    BY <1>1, <1>3, <1>4, <2>2, SetFacts, NoFrames DEF Untouched, FramesStay
  <2>5. ToldFor(s)' /\ (RequestsInv => RequestFor(s)')
    BY <1>1, <1>3, <1>4, <2>2, SetFacts DEF ToldFor, RequestFor
  <2>6. MembersInv' /\ DescriptorInv' /\ (NoneLost => NoneLost')
    BY <1>1, <1>4 DEF MembersInv, DescriptorInv, Owns, Accounted, NoneLost
  <2> QED BY <1>1, <1>2, <2>3, <2>4, <2>5, <2>6, OneTouched DEF Kept
<1>5. CASE ~sock[s].handles
  <2>1. InternalClose(s) /\ UNCHANGED <<stack, told>>
    BY <1>1, <1>5
  <2>2. PassUnderWay => PassUnderWay'
    BY <2>1 DEF PassUnderWay
  <2>3. /\ ClientsInv' /\ clients' \in Seq(Accepted) /\ released' \in BOOLEAN
        /\ \A t \in Clients : t # s => sock'[t] = sock[t]
        /\ ~sock'[s].open /\ ~sock'[s].connecting
        /\ sock'[s].handles = (sock[s].handles /\ s \notin ClearsAtClose)
    BY <2>1, <2>2, ClientsShut
  <2>4. MembersInv' /\ DescriptorInv' /\ (NoneLost => NoneLost')
    BY <2>1, InternalCloseMembers
  <2>5. ApplicationTyped'
    BY <1>1, <1>3, <2>1, <2>3 DEF ApplicationTyped
  <2>6. \A t, E : HasFrame(t, E)' <=> HasFrame(t, E)
    BY <2>1 DEF HasFrame
  <2>7. \A t \in Clients : t # s => Untouched(t)
    BY <1>3, <2>1, <2>3, <2>6, SetFacts DEF Untouched, FramesStay
  <2>8. ToldFor(s)' /\ (RequestsInv => RequestFor(s)')
    BY <1>3, <1>5, <2>1, <2>3, <2>6, SetFacts DEF ToldInv, ToldFor, RequestsInv, RequestFor
  <2> QED BY <1>1, <1>2, <2>3, <2>4, <2>5, <2>7, <2>8, OneTouched DEF Kept
<1> QED BY <1>4, <1>5

\* closeConnection() of an open connection.
LEMMA CloseKeeps ==
  ASSUME SocketInv, NEW s \in Clients, Close(s)
  PROVE  Kept
<1> USE DEF SocketInv
<1>1. /\ MayCall("close", s) /\ sock[s].open /\ broken' = broken /\ wants' = Requested(s, "closed")
      /\ IF sock[s].handles THEN /\ Tell(s, "closed") /\ sock' = [sock EXCEPT ![s].closing = TRUE]
                                 /\ UNCHANGED <<clients, released, conn, polled>>
         ELSE InternalClose(s) /\ stack' = Called /\ UNCHANGED told
  BY DEF Close, kernel
<1>2. s \in Sockets /\ sock[s] \in SocketStates /\ SocketSound(s, sock[s])
  BY SetFacts DEF MembersInv
<1>3. /\ wants' \in [Asked -> {"nothing", "open", "closed"}] /\ (s \in Asked => wants'[s] # "open")
      /\ \A a \in Asked : a # s => wants'[a] = wants[a]
  BY <1>1, RequestedFacts
<1>4. stack # <<>> => Top.calls < MaxCalls
  BY <1>1, MayCallFacts
<1>5. CASE sock[s].handles
  <2> DEFINE r == [sock[s] EXCEPT !.closing = TRUE]
  <2>1. "closed" \in Events
    BY EventFacts
  <2>2. /\ stack' \in Seq(Frames) /\ (PassUnderWay' <=> PassUnderWay)
        /\ \A t, E : HasFrame(t, E)' <=> HasFrame(t, E) \/ (t = s /\ "closed" \in E)
        /\ told' \in [Clients -> {"up", "down"}] /\ told'[s] = "down"
        /\ \A t \in Clients : t # s => told'[t] = told[t]
    BY <1>1, <1>4, <1>5, <2>1, ToldStack
  <2>3. /\ r \in SocketStates /\ r.closing /\ r.connectionFd = sock[s].connectionFd /\ r.dataFd = sock[s].dataFd
        /\ r.open = sock[s].open /\ r.connecting = sock[s].connecting /\ r.accepted = sock[s].accepted
        /\ r.serving = sock[s].serving /\ r.handles = sock[s].handles
    BY <1>2 DEF SocketStates
  <2>4. Becomes(s, r)
    <3>1. sock \in [Sockets -> SocketStates]
      BY DEF MembersInv
    <3> QED BY <1>1, <1>2, <1>5, <3>1 DEF Becomes
  <2> HIDE DEF r
  <2>5. SocketSound(s, r)
    BY <1>2, <2>3 DEF SocketSound
  <2>6. /\ sock' \in [Sockets -> SocketStates] /\ sock'[s] = r
        /\ \A t \in Sockets : SocketSound(t, sock'[t]) /\ (t # s => sock'[t] = sock[t])
    BY <1>2, <2>3, <2>4, <2>5, BecomesFacts
  <2>7. conn' = conn /\ polled' = polled /\ UNCHANGED <<clients, released>>
    BY <1>1, <1>5
  <2>8. MembersInv' /\ (NoneLost => NoneLost')
    BY <2>6, <2>7 DEF MembersInv, NoneLost
  <2>9. DescriptorInv'
    <3>1. \A t \in Sockets : sock'[t].connectionFd = sock[t].connectionFd /\ Role(sock'[t]) = Role(sock[t])
      BY <2>3, <2>6 DEF Role
    <3> QED BY <2>7, <3>1 DEF DescriptorInv, Owns, Accounted
  <2>10. ApplicationTyped' /\ ClientsInv'
    <3>1. \A t \in Accepted : sock'[t].accepted = sock[t].accepted
      BY <2>3, <2>6, SetFacts
    <3> QED BY <1>1, <1>3, <2>2, <2>7, <3>1, ClientsStay DEF ApplicationTyped
  <2>11. \A t \in Clients : t # s => Untouched(t)
    BY <1>3, <2>2, <2>6, SetFacts DEF Untouched, FramesStay
  <2>12. ToldFor(s)' /\ (RequestsInv => RequestFor(s)')
    BY <1>1, <1>3, <1>5, <2>2, <2>3, <2>6, SetFacts DEF ToldInv, ToldFor, RequestFor
  <2> QED BY <2>8, <2>9, <2>10, <2>11, <2>12, OneTouched DEF Kept
<1>6. CASE ~sock[s].handles
  <2>1. InternalClose(s) /\ stack' = Called /\ UNCHANGED told
    BY <1>1, <1>6
  <2>2. /\ stack' \in Seq(Frames) /\ (PassUnderWay' <=> PassUnderWay)
        /\ \A t, E : HasFrame(t, E)' <=> HasFrame(t, E)
    BY <1>4, <2>1, SameStack
  <2>3. /\ ClientsInv' /\ clients' \in Seq(Accepted) /\ released' \in BOOLEAN
        /\ \A t \in Clients : t # s => sock'[t] = sock[t]
        /\ ~sock'[s].open /\ ~sock'[s].connecting
        /\ sock'[s].handles = (sock[s].handles /\ s \notin ClearsAtClose)
    BY <2>1, <2>2, ClientsShut
  <2>4. MembersInv' /\ DescriptorInv' /\ (NoneLost => NoneLost')
    BY <2>1, InternalCloseMembers
  <2>5. ApplicationTyped'
    BY <1>1, <1>3, <2>1, <2>2, <2>3 DEF ApplicationTyped
  <2>6. \A t \in Clients : t # s => Untouched(t)
    BY <1>3, <2>1, <2>2, <2>3, SetFacts DEF Untouched, FramesStay
  <2>7. ToldFor(s)' /\ (RequestsInv => RequestFor(s)')
    BY <1>3, <1>6, <2>1, <2>2, <2>3, SetFacts DEF ToldInv, ToldFor, RequestsInv, RequestFor
  <2> QED BY <2>3, <2>4, <2>5, <2>6, <2>7, OneTouched DEF Kept
<1> QED BY <1>5, <1>6

\* closeConnection() of any other socket.
LEMMA CloseIgnoredKeeps ==
  ASSUME SocketInv, NEW s \in Sockets, CloseIgnored(s)
  PROVE  Kept
<1> USE DEF SocketInv
<1>1. /\ MayCall("close", s) /\ wants' = Requested(s, "closed") /\ stack' = Called
      /\ UNCHANGED <<sock, clients, released, conn, polled, told, broken>>
  BY DEF CloseIgnored, kernel
<1>2. /\ wants' \in [Asked -> {"nothing", "open", "closed"}] /\ (s \in Asked => wants'[s] # "open")
      /\ \A a \in Asked : a # s => wants'[a] = wants[a]
  BY <1>1, RequestedFacts
<1>3. /\ stack' \in Seq(Frames) /\ (PassUnderWay' <=> PassUnderWay)
      /\ \A t, E : HasFrame(t, E)' <=> HasFrame(t, E)
  BY <1>1, MayCallFacts, SameStack
<1>4. MembersInv' /\ DescriptorInv' /\ (NoneLost => NoneLost')
  BY <1>1 DEF MembersInv, DescriptorInv, Owns, Accounted, NoneLost
<1>5. ApplicationTyped' /\ ClientsInv'
  BY <1>1, <1>2, <1>3, ClientsStay DEF ApplicationTyped
<1>6. \A t \in Clients : t # s => Untouched(t)
  BY <1>1, <1>2, <1>3, SetFacts DEF Untouched, FramesStay
<1>7. CASE s \in Clients
  <2>1. ToldFor(s)' /\ (RequestsInv => RequestFor(s)')
    BY <1>1, <1>2, <1>3, <1>7, SetFacts DEF ToldInv, ToldFor, RequestsInv, RequestFor
  <2> QED BY <1>4, <1>5, <1>6, <1>7, <2>1, OneTouched DEF Kept
<1>8. CASE s \notin Clients
  <2>1. \A t \in Clients : Untouched(t)
    BY <1>6, <1>8
  <2> QED BY <1>4, <1>5, <2>1, NoneTouched DEF Kept
<1> QED BY <1>7, <1>8

\* The innermost handler returns, and it is not one whose return closes a connection.
LEMMA PoppedStack ==
  ASSUME ApplicationTyped, stack # <<>>, stack' = Front(stack)
  PROVE  /\ Top \in Frames /\ Top.socket \in Clients /\ stack' \in Seq(Frames)
         /\ \A t, E : HasFrame(t, E) <=> HasFrame(t, E)' \/ (t = Top.socket /\ Top.event \in E)
         /\ PassUnderWay <=> PassUnderWay' \/ Top.event = "accepted"
<1>1. stack \in Seq(Frames) /\ Pops
  BY FrontPops DEF ApplicationTyped
<1>2. Top \in Frames /\ stack' \in Seq(Frames)
  BY <1>1 DEF Pops
<1>3. Top.socket \in Clients
  BY <1>2 DEF Frames
<1>4. /\ \A t, E : HasFrame(t, E) <=> HasFrame(t, E)' \/ (t = Top.socket /\ Top.event \in E)
      /\ PassUnderWay <=> PassUnderWay' \/ Top.event = "accepted"
  BY <1>1, PoppedFrames
<1> QED BY <1>2, <1>3, <1>4

\* A handler returns into a call that has nothing more to do.
LEMMA HandlerReturnsKeeps ==
  ASSUME SocketInv, HandlerReturns
  PROVE  Kept
<1> USE DEF SocketInv
<1>1. /\ stack # <<>> /\ stack' = Front(stack) /\ Top.event \in {"opened", "failed"}
      /\ UNCHANGED <<sock, clients, released, conn, polled, wants, told, broken>>
  BY DEF HandlerReturns, kernel
<1>2. /\ stack' \in Seq(Frames) /\ (PassUnderWay => PassUnderWay')
      /\ \A t : FramesStay(t)
  BY <1>1, PoppedStack DEF FramesStay
<1>3. MembersInv' /\ DescriptorInv' /\ (NoneLost => NoneLost')
  BY <1>1 DEF MembersInv, DescriptorInv, Owns, Accounted, NoneLost
<1>4. ApplicationTyped' /\ ClientsInv'
  BY <1>1, <1>2, ClientsStay DEF ApplicationTyped
<1>5. \A t \in Clients : Untouched(t)
  BY <1>1, <1>2 DEF Untouched
<1> QED BY <1>3, <1>4, <1>5, NoneTouched DEF Kept

\* The end of passClientConnection().
LEMMA PassReturnsKeeps ==
  ASSUME SocketInv, PassReturns
  PROVE  Kept
<1> USE DEF SocketInv
<1>1. /\ stack # <<>> /\ stack' = Front(stack) /\ Top.event = "accepted"
      /\ UNCHANGED <<clients, wants, told, broken>>
  BY DEF PassReturns
<1>2. stack' \in Seq(Frames) /\ \A t : FramesStay(t)
  BY <1>1, PoppedStack DEF FramesStay
<1>3. CASE released /\ clients = <<>>
  <2>1. /\ sock' = [sock EXCEPT ![Server] = Idle] /\ conn' = Without(conn, Held(Server), "free")
        /\ polled' = Without(polled, Held(Server), NoHandler) /\ released' = FALSE
    BY <1>3 DEF PassReturns
  <2>2. /\ MembersInv' /\ DescriptorInv' /\ (NoneLost => NoneLost')
        /\ \A t \in Sockets : t # Server => sock'[t] = sock[t]
    BY <2>1, StoppedMembers
  <2>3. ApplicationTyped'
    BY <1>1, <1>2, <2>1 DEF ApplicationTyped
  <2>4. ClientsInv'
    BY <1>1, <2>1, <2>2, SetFacts DEF ClientsInv
  <2>5. \A t \in Clients : Untouched(t)
    BY <1>1, <1>2, <2>2, SetFacts DEF Untouched
  <2> QED BY <2>2, <2>3, <2>4, <2>5, NoneTouched DEF Kept
<1>4. CASE ~(released /\ clients = <<>>)
  <2>1. UNCHANGED <<sock, conn, polled, released>>
    BY <1>4 DEF PassReturns, kernel
  <2>2. MembersInv' /\ DescriptorInv' /\ (NoneLost => NoneLost')
    BY <2>1 DEF MembersInv, DescriptorInv, Owns, Accounted, NoneLost
  <2>3. ApplicationTyped' /\ ClientsInv'
    BY <1>1, <1>2, <1>4, <2>1 DEF ApplicationTyped, ClientsInv
  <2>4. \A t \in Clients : Untouched(t)
    BY <1>1, <1>2, <2>1 DEF Untouched
  <2> QED BY <2>2, <2>3, <2>4, NoneTouched DEF Kept
<1> QED BY <1>3, <1>4

\* A handler that has been told of an end returns, and the connection is closed.
LEMMA CloseContinuesKeeps ==
  ASSUME SocketInv, CloseContinues
  PROVE  Kept
<1> USE DEF SocketInv
<1>1. stack # <<>> /\ stack' = Front(stack)
  BY DEF CloseContinues
<1>2. PICK s \in Clients : s = Top.socket
  BY <1>1, PoppedStack
<1>3. /\ stack # <<>> /\ stack' = Front(stack) /\ Top.event \in {"unreachable", "ended", "closed"}
      /\ InternalClose(s) /\ UNCHANGED <<wants, told, broken>>
  BY <1>2 DEF CloseContinues
<1>4. /\ s \in Clients /\ stack' \in Seq(Frames)
      /\ \A t, E : HasFrame(t, E) <=> HasFrame(t, E)' \/ (t = s /\ Top.event \in E)
      /\ PassUnderWay <=> PassUnderWay' \/ Top.event = "accepted"
  BY <1>1, <1>2, PoppedStack
<1>5. /\ PassUnderWay => PassUnderWay'
      /\ \A t : t # s => FramesStay(t)
      /\ HasFrame(s, {"ended", "closed"}) \/ HasFrame(s, {"unreachable"})
      /\ HasFrame(s, {"ended", "closed", "unreachable"})
  <2>1. PassUnderWay => PassUnderWay'
    BY <1>3, <1>4
  <2>2. \A t : t # s => FramesStay(t)
    BY <1>4 DEF FramesStay
  <2>3. /\ HasFrame(s, {"ended", "closed"}) \/ HasFrame(s, {"unreachable"})
        /\ HasFrame(s, {"ended", "closed", "unreachable"})
    BY <1>3, <1>4
  <2> QED BY <2>1, <2>2, <2>3
<1>6. /\ ClientsInv' /\ clients' \in Seq(Accepted) /\ released' \in BOOLEAN
      /\ \A t \in Clients : t # s => sock'[t] = sock[t]
      /\ ~sock'[s].open /\ ~sock'[s].connecting
      /\ sock'[s].handles = (sock[s].handles /\ s \notin ClearsAtClose)
  BY <1>3, <1>4, <1>5, ClientsShut
<1>7. MembersInv' /\ DescriptorInv' /\ (NoneLost => NoneLost')
  BY <1>3, <1>4, InternalCloseMembers
<1>8. ApplicationTyped'
  BY <1>3, <1>4, <1>6 DEF ApplicationTyped
<1>9. \A t \in Clients : t # s => Untouched(t)
  BY <1>3, <1>5, <1>6, SetFacts DEF Untouched
<1>10. ToldFor(s)'
  <2>1. told'[s] # "up"
    BY <1>3, <1>4, <1>5 DEF ToldInv, ToldFor
  <2> QED BY <1>6, <2>1 DEF ToldFor
<1>11. CarefulHandlers /\ RequestsInv => RequestFor(s)'
  <2>1. CarefulHandlers /\ s \in Outgoing /\ sock[s].handles => sock'[s].handles
    BY <1>6 DEF CarefulHandlers
  <2>2. RequestsInv => RequestFor(s)
    BY <1>4 DEF RequestsInv
  <2>3. wants' = wants /\ ~sock'[s].open
    BY <1>3, <1>6
  <2> QED BY <1>5, <2>1, <2>2, <2>3 DEF RequestFor
<1> QED BY <1>4, <1>5, <1>6, <1>7, <1>8, <1>9, <1>10, <1>11, OneTouched DEF Kept

\* The application walks the list of the server.
LEMMA EachClientKeeps ==
  ASSUME SocketInv, EachClient
  PROVE  Kept
<1> USE DEF SocketInv
<1>1. /\ stack = <<>> /\ stack' = <<Frame(Head(clients), "each")>> /\ clients # <<>>
      /\ UNCHANGED <<sock, clients, released, conn, polled, wants, told, broken>>
  BY DEF EachClient, kernel
<1>2. Head(clients) \in Clients
  <2>1. Head(clients) \in Accepted
    BY <1>1 DEF ApplicationTyped
  <2> QED BY <2>1, SetFacts
<1>3. Frame(Head(clients), "each") \in Frames /\ Frame(Head(clients), "each").event = "each"
  BY <1>2, SocketConstants DEF Frame, Frames, Events
<1>4. stack' \in Seq(Frames) /\ \A i \in DOMAIN stack' : stack'[i].event = "each"
  BY <1>1, <1>3
<1>5. (PassUnderWay => PassUnderWay') /\ \A t : FramesStay(t)
  BY <1>1, <1>4, NoFrames DEF FramesStay, HasFrame
<1>6. MembersInv' /\ DescriptorInv' /\ (NoneLost => NoneLost')
  BY <1>1 DEF MembersInv, DescriptorInv, Owns, Accounted, NoneLost
<1>7. ApplicationTyped' /\ ClientsInv'
  BY <1>1, <1>4, <1>5, ClientsStay DEF ApplicationTyped
<1>8. \A t \in Clients : Untouched(t)
  BY <1>1, <1>5 DEF Untouched
<1> QED BY <1>6, <1>7, <1>8, NoneTouched DEF Kept

\* The walk goes on with the next connection, or ends.
LEMMA EachReturnsKeeps ==
  ASSUME SocketInv, EachReturns
  PROVE  Kept
<1> USE DEF SocketInv
<1> DEFINE rest == First(clients, Top.socket)
           next == Frame(clients[rest + 1], "each")
<1>1. /\ stack # <<>> /\ Top.event = "each" /\ broken' = ~Contains(clients, Top.socket)
      /\ stack' = IF broken' \/ rest = Len(clients) THEN Front(stack) ELSE Append(Front(stack), next)
      /\ UNCHANGED <<sock, clients, released, conn, polled, wants, told>>
  BY DEF EachReturns, kernel, First
<1>2. /\ stack \in Seq(Frames) /\ Front(stack) \in Seq(Frames) /\ Len(Front(stack)) = Len(stack) - 1
      /\ \A i \in 1..Len(stack) - 1 : Front(stack)[i] = stack[i]
      /\ Top = stack[Len(stack)] /\ Len(stack) \in Nat \ {0}
  BY <1>1, FrontProperties, EmptySeq DEF ApplicationTyped, Top
<1>3. ASSUME stack' # Front(stack) PROVE next \in Frames /\ next.event = "each"
  <2>1. Contains(clients, Top.socket) /\ rest # Len(clients) /\ clients \in Seq(Accepted)
    BY <1>1, <1>3 DEF ApplicationTyped
  <2>2. rest \in 1..Len(clients)
    BY <2>1, FirstPlace
  <2> HIDE DEF rest
  <2>3. clients[rest + 1] \in Accepted
    BY <2>1, <2>2
  <2> QED BY <2>3, SetFacts, SocketConstants DEF Frame, Frames, Events
<1> HIDE DEF rest, next
<1>4. /\ stack' \in Seq(Frames) /\ Len(stack') \in {Len(stack) - 1, Len(stack)}
      /\ \A i \in 1..Len(stack) - 1 : stack'[i] = stack[i]
      /\ Len(stack') = Len(stack) => stack'[Len(stack)].event = "each"
  <2>1. CASE stack' = Front(stack)
    BY <2>1, <1>2
  <2>2. CASE stack' # Front(stack)
    BY <2>2, <1>1, <1>2, <1>3
  <2> QED BY <2>1, <2>2
<1>5. (PassUnderWay => PassUnderWay') /\ \A t : FramesStay(t)
  <2> DEFINE n == Len(stack)
  <2>1. DOMAIN stack = 1..n /\ n \in Nat \ {0} /\ stack[n].event = "each"
    BY <1>1, <1>2
  <2>2. /\ DOMAIN stack' = 1..n - 1 \/ (DOMAIN stack' = 1..n /\ stack'[n].event = "each")
        /\ \A i \in 1..n - 1 : stack'[i] = stack[i]
    BY <1>4
  <2>3. /\ \A i \in DOMAIN stack' : (i \in 1..n - 1 /\ stack'[i] = stack[i]) \/ stack'[i].event = "each"
        /\ \A i \in 1..n - 1 : i \in DOMAIN stack' /\ stack'[i] = stack[i]
    <3> HIDE DEF n
    <3> QED BY <2>2, <2>1
  <2> HIDE DEF n
  <2>4. \A i \in 1..n : i \in 1..n - 1 \/ i = n
    BY <2>1
  <2>5. 1..n - 1 \subseteq 1..n
    BY <2>1
  <2>6. PassUnderWay => PassUnderWay'
    BY <2>1, <2>3, <2>4 DEF PassUnderWay
  <2>7. ASSUME NEW t, NEW E \in SUBSET {"ended", "closed", "unreachable"}
        PROVE  HasFrame(t, E)' <=> HasFrame(t, E)
    BY <2>1, <2>3, <2>4, <2>5 DEF HasFrame
  <2> QED BY <2>6, <2>7 DEF FramesStay
<1>6. MembersInv' /\ DescriptorInv' /\ (NoneLost => NoneLost')
  BY <1>1 DEF MembersInv, DescriptorInv, Owns, Accounted, NoneLost
<1>7. ApplicationTyped' /\ ClientsInv'
  BY <1>1, <1>4, <1>5, ClientsStay DEF ApplicationTyped
<1>8. \A t \in Clients : Untouched(t)
  BY <1>1, <1>5 DEF Untouched
<1> QED BY <1>6, <1>7, <1>8, NoneTouched DEF Kept

\* The peers.
LEMMA PeerKeeps ==
  ASSUME SocketInv, NEW f \in Fds, PeerAnswers(f) \/ PeerCloses(f)
  PROVE  Kept
<1> USE DEF SocketInv
<1>1. UNCHANGED <<sock, clients, released, polled, stack, wants, told, broken>>
  BY DEF PeerAnswers, PeerCloses
<1>2. MembersInv' /\ DescriptorInv' /\ (NoneLost => NoneLost')
  BY PeerMembers
<1>3. ApplicationTyped' /\ ClientsInv'
  BY <1>1, ClientsStay DEF ApplicationTyped, PassUnderWay
<1>4. \A t \in Clients : Untouched(t)
  BY <1>1 DEF Untouched, FramesStay, HasFrame
<1> QED BY <1>2, <1>3, <1>4, NoneTouched DEF Kept

\* Nothing happens.
LEMMA StutterKeeps ==
  ASSUME SocketInv, UNCHANGED vars
  PROVE  Kept
<1> USE DEF SocketInv
<1>1. UNCHANGED <<sock, clients, released, conn, polled, stack, wants, told, broken>>
  BY DEF vars
<1>2. MembersInv' /\ DescriptorInv' /\ (NoneLost => NoneLost')
  BY <1>1 DEF MembersInv, DescriptorInv, Owns, Accounted, NoneLost
<1>3. ApplicationTyped' /\ ClientsInv'
  BY <1>1, ClientsStay DEF ApplicationTyped, PassUnderWay
<1>4. \A t \in Clients : Untouched(t)
  BY <1>1 DEF Untouched, FramesStay, HasFrame
<1> QED BY <1>2, <1>3, <1>4, NoneTouched DEF Kept

\* Every step keeps them.
LEMMA NextKeeps ==
  ASSUME SocketInv, [Next]_vars
  PROVE  Kept
<1>1. CASE \E s \in Outgoing : InitiateIgnored(s) \/ InitiateStarts(s) \/ InitiateFails(s)
  BY <1>1, InitiateIgnoredKeeps, InitiateStartsKeeps, InitiateFailsKeeps
<1>2. CASE \E s \in Outgoing : Monitored(s)
  BY <1>2, EstablishedKeeps, NextAddressKeeps, UnreachableKeeps DEF Monitored
<1>3. CASE StartServer \/ ReleaseServer \/ EachClient
  BY <1>3, StartServerKeeps, ReleaseServerKeeps, EachClientKeeps
<1>4. CASE \E s \in Accepted : Accept(s)
  BY <1>4, AcceptKeeps
<1>5. CASE \E s \in Clients : Exception(s) \/ Close(s) \/ CloseIgnored(s)
  BY <1>5, ExceptionKeeps, CloseKeeps, CloseIgnoredKeeps, SetFacts
<1>6. CASE CloseIgnored(Server)
  BY <1>6, CloseIgnoredKeeps, SetFacts
<1>7. CASE Returns
  BY <1>7, HandlerReturnsKeeps, PassReturnsKeeps, CloseContinuesKeeps, EachReturnsKeeps DEF Returns
<1>8. CASE \E f \in Fds : PeerAnswers(f) \/ PeerCloses(f)
  BY <1>8, PeerKeeps
<1>9. CASE UNCHANGED vars
  BY <1>9, StutterKeeps
<1> QED BY <1>1, <1>2, <1>3, <1>4, <1>5, <1>6, <1>7, <1>8, <1>9 DEF Next

-----------------------------------------------------------------------------
(* What the runs check, for every value of the constants *)

\* At the start no socket is in use.
LEMMA InitKeeps ==
  ASSUME Init
  PROVE  SocketInv /\ RequestsInv /\ NoneLost
<1>1. /\ sock = [s \in Sockets |-> Idle] /\ clients = <<>> /\ released = FALSE /\ stack = <<>> /\ broken = FALSE
      /\ conn = [f \in Fds |-> "free"] /\ polled = [f \in Fds |-> NoHandler]
      /\ wants = [s \in Asked |-> "nothing"] /\ told = [s \in Clients |-> "down"]
  BY DEF Init
<1>2. /\ Idle \in SocketStates /\ Idle.connectionFd = NoFd /\ ~Idle.open /\ ~Idle.accepted /\ Idle.handles
      /\ \A s \in Sockets : SocketSound(s, Idle)
  BY IdleFacts
<1> HIDE DEF Idle
<1>3. MembersInv /\ NoneLost
  BY <1>1, <1>2 DEF MembersInv, NoneLost
<1>4. DescriptorInv
  BY <1>1, <1>2 DEF DescriptorInv, Owns, Accounted
<1>5. ApplicationTyped
  <2>1. \A T : <<>> \in Seq(T)
    OBVIOUS
  <2>2. wants \in [Asked -> {"nothing", "open", "closed"}] /\ told \in [Clients -> {"up", "down"}]
    BY <1>1
  <2> QED BY <1>1, <2>1, <2>2 DEF ApplicationTyped
<1>6. ClientsInv
  <2>1. clients = <<>> /\ ~released /\ \A s \in Accepted : ~sock[s].accepted
    BY <1>1, <1>2, SetFacts
  <2>2. IsInjective(<<>>) /\ \A s : ~Contains(<<>>, s)
    BY DEF IsInjective, Contains
  <2> QED BY <2>1, <2>2 DEF ClientsInv
<1>7. ASSUME NEW s \in Clients PROVE ToldFor(s) /\ RequestFor(s)
  <2>1. /\ ~sock[s].open /\ sock[s].handles /\ told[s] = "down" /\ (s \in Outgoing => wants[s] = "nothing")
        /\ \A E : ~HasFrame(s, E)
    BY <1>1, <1>2, SetFacts, NoFrames
  <2> QED BY <2>1 DEF ToldFor, RequestFor
<1> QED BY <1>3, <1>4, <1>5, <1>6, <1>7 DEF SocketInv, ToldInv, RequestsInv

\* The invariant holds without any assumption on what handlers do: every socket has a descriptor exactly
\* while it is serving, connecting or open, no two have the same, the mainloop calls it for this one, the
\* list of the server is that of the accepted connections, each once, and the application believes a
\* connection to be open exactly while it is, up to the handlers that are just telling it otherwise.
THEOREM SocketInvariant == Spec => []SocketInv
<1>1. Init => SocketInv
  BY InitKeeps
<1>2. SocketInv /\ [Next]_vars => SocketInv'
  BY NextKeeps DEF Kept
<1> QED BY <1>1, <1>2, PTL DEF Spec

\* The list of the server holds exactly the accepted connections that are open, each once, a server that
\* has been released does not outlive the last of them, and the state is well formed with every
\* descriptor accounted for, whatever the handlers of the application do in the middle of a call,
\* as long as connect() does not fail at once (the descriptor of an address skipped then stays open).
THEOREM ServerAlwaysKnowsClients == ~FailsAtOnce => (Spec => []ServerKnowsClients)
<1> DEFINE I == SocketInv /\ NoneLost
<1> SUFFICES ASSUME ~FailsAtOnce PROVE Spec => []ServerKnowsClients
  OBVIOUS
<1>1. Init => I
  BY InitKeeps
<1>2. I /\ [Next]_vars => I'
  BY NextKeeps DEF Kept
<1>3. I => ServerKnowsClients
  <2> SUFFICES ASSUME SocketInv, NoneLost PROVE ServerKnowsClients
    OBVIOUS
  <2>1. MembersInv /\ DescriptorInv /\ ApplicationTyped /\ ClientsInv
    BY DEF SocketInv
  <2>2. TypeOK
    BY <2>1, DescriptorsAreHeld DEF TypeOK, MembersInv, ApplicationTyped, SocketStates
  <2>3. \A s \in Accepted : sock[s].accepted <=> sock[s].open
    BY <2>1, SetFacts DEF MembersInv, SocketSound
  <2> QED BY <2>1, <2>2, <2>3 DEF ServerKnowsClients, ClientsInv, PassUnderWay
<1> QED BY <1>1, <1>2, <1>3, PTL DEF Spec

\* No connection begins or ends without the application being told, and no request to connect is
\* forgotten, provided that handlers that are told of an end do not connect again before they return.
THEOREM NothingEverEndsSilently == CarefulHandlers => (Spec => []NothingEndsSilently)
<1> DEFINE I == SocketInv /\ RequestsInv
<1> SUFFICES ASSUME CarefulHandlers PROVE Spec => []NothingEndsSilently
  OBVIOUS
<1>1. Init => I
  BY InitKeeps
<1>2. I /\ [Next]_vars => I'
  BY NextKeeps DEF Kept
<1>3. I => NothingEndsSilently
  <2> SUFFICES ASSUME SocketInv, RequestsInv, stack = <<>>
               PROVE  /\ \A s \in Clients : told[s] = "up" <=> sock[s].open
                      /\ \A s \in Outgoing : wants[s] = "open" => sock[s].open \/ sock[s].connecting
    BY DEF NothingEndsSilently, EndsAreTold, RequestsAreAnswered
  <2>1. ASSUME NEW s \in Clients PROVE ToldFor(s) /\ RequestFor(s) /\ \A E : ~HasFrame(s, E)
    BY NoFrames DEF SocketInv, ToldInv, RequestsInv
  <2>2. ASSUME NEW s \in Clients PROVE told[s] = "up" <=> sock[s].open
    BY <2>1 DEF ToldFor, RequestFor
  <2>3. ASSUME NEW s \in Outgoing, wants[s] = "open" PROVE sock[s].open \/ sock[s].connecting
    BY <2>1, <2>3, SetFacts DEF RequestFor
  <2> QED BY <2>2, <2>3
<1> QED BY <1>1, <1>2, <1>3, PTL DEF Spec

\* Called has as many handlers as there are under way, whatever they have called.
LEMMA CalledLength ==
  ASSUME stack \in Seq(Frames), NEW x
  PROVE  /\ Len(Append(Called, x)) = Len(stack) + 1 /\ Append(Called, x)[Len(stack) + 1] = x
         /\ Len(stack) \in Nat /\ Len(Called) = Len(stack)
<1> DEFINE n == Len(stack)
           c(i) == [stack[i] EXCEPT !.calls = @ + IF i = Len(stack) THEN 1 ELSE 0]
           T == {c(i) : i \in 1..n} \cup {x}
<1>1. n \in Nat /\ DOMAIN stack = 1..n
  OBVIOUS
<1>2. Called = [i \in 1..n |-> c(i)]
  BY <1>1 DEF Called
<1>3. \A i \in 1..n : c(i) \in T
  OBVIOUS
<1>4. x \in T
  OBVIOUS
<1> HIDE DEF c, n, T
<1>5. Called \in Seq(T) /\ Len(Called) = n
  BY <1>1, <1>2, <1>3
<1>6. Len(Append(Called, x)) = n + 1 /\ Append(Called, x)[n + 1] = x
  BY <1>4, <1>5
<1> QED BY <1>1, <1>5, <1>6 DEF n

\* A step that is not a call of the status handler with `event' for `s'.
LEMMA NotTold ==
  ASSUME ApplicationTyped, NEW s \in Clients, NEW event \in {"ended", "closed"},
         stack' = Append(Called, Frame(s, event))
  PROVE  /\ stack' # stack /\ stack' # Called /\ (stack # <<>> => stack' # Front(stack))
         /\ \A t, e : stack' = Append(Called, Frame(t, e)) => t = s /\ e = event
         /\ stack = <<>> => \A t : stack' # <<Frame(t, "each")>>
<1> DEFINE n == Len(stack)
<1>1. stack \in Seq(Frames) /\ n \in Nat
  BY DEF ApplicationTyped
<1> HIDE DEF n
<1>2. n \in Nat /\ Len(stack') = n + 1 /\ stack'[n + 1] = Frame(s, event)
  BY <1>1, CalledLength DEF n
<1>3. ASSUME NEW t, NEW e PROVE Frame(t, e).socket = t /\ Frame(t, e).event = e
  BY DEF Frame
<1>4. ASSUME NEW t, NEW e, stack' = Append(Called, Frame(t, e)) PROVE t = s /\ e = event
  <2>1. stack'[n + 1] = Frame(t, e)
    BY <1>1, <1>4, CalledLength DEF n
  <2>2. Frame(t, e) = Frame(s, event)
    BY <1>2, <2>1
  <2>3. Frame(t, e).socket = Frame(s, event).socket /\ Frame(t, e).event = Frame(s, event).event
    BY <2>2
  <2>4. /\ Frame(t, e).socket = t /\ Frame(t, e).event = e
        /\ Frame(s, event).socket = s /\ Frame(s, event).event = event
    BY DEF Frame
  <2> QED BY <2>3, <2>4
<1>5. stack' # Called
  BY <1>1, <1>2, CalledLength DEF n
<1>6. stack # <<>> => Len(Front(stack)) = n - 1
  BY <1>1, FrontProperties DEF n
<1>7. ASSUME stack = <<>>, NEW t PROVE stack' # <<Frame(t, "each")>>
  <2>1. n = 0
    BY <1>7 DEF n
  <2>2. <<Frame(t, "each")>>[1] = Frame(t, "each")
    OBVIOUS
  <2>3. stack'[1] = Frame(s, event)
    BY <1>2, <2>1
  <2>4. Frame(t, "each") # Frame(s, event)
    BY <1>3
  <2> QED BY <2>2, <2>3, <2>4
<1>8. stack' # stack
  BY <1>1, <1>2 DEF n
<1>9. stack # <<>> => stack' # Front(stack)
  BY <1>1, <1>2, <1>6
<1> QED BY <1>4, <1>5, <1>7, <1>8, <1>9

\* A walk that goes on keeps the number of handlers under way.
LEMMA EachLength ==
  ASSUME stack \in Seq(Frames), stack # <<>>, NEW x
  PROVE  Len(Append(Front(stack), x)) = Len(stack)
<1> DEFINE T == Frames \cup {x}
<1>1. stack \in Seq(T) /\ x \in T
  OBVIOUS
<1> HIDE DEF T
<1> QED BY <1>1, ReplaceLastProperties

\* Nothing but a call of the status handler is one.
LEMMA OnlyTelling ==
  ASSUME SocketInv, [Next]_vars, NEW s \in Clients, NEW event \in {"ended", "closed"},
         stack' = Append(Called, Frame(s, event))
  PROVE  Exception(s) \/ Close(s)
<1>1. /\ stack' # stack /\ stack' # Called /\ (stack # <<>> => stack' # Front(stack))
      /\ \A t, e : stack' = Append(Called, Frame(t, e)) => t = s /\ e = event
      /\ stack = <<>> => \A t : stack' # <<Frame(t, "each")>>
  BY NotTold DEF SocketInv
<1>2. ASSUME NEW t, NEW e, Tell(t, e) PROVE t = s /\ e = event
  BY <1>1, <1>2 DEF Tell
<1>3. ASSUME NEW t \in Outgoing, InitiateIgnored(t) \/ InitiateStarts(t) \/ InitiateFails(t) PROVE FALSE
  BY <1>1, <1>2, <1>3 DEF InitiateIgnored, InitiateStarts, InitiateFails
<1>4. ASSUME NEW t \in Outgoing, Monitored(t) PROVE FALSE
  BY <1>1, <1>2, <1>4 DEF Monitored, Established, NextAddress, Unreachable
<1>5. ASSUME StartServer \/ ReleaseServer \/ EachClient PROVE FALSE
  BY <1>1, <1>5 DEF StartServer, ReleaseServer, EachClient
<1>6. ASSUME NEW t \in Accepted, Accept(t) PROVE FALSE
  BY <1>2, <1>6 DEF Accept
<1>7. ASSUME NEW t \in Clients, Exception(t) \/ Close(t) \/ CloseIgnored(t) PROVE Exception(s) \/ Close(s)
  <2>1. CASE Exception(t)
    BY <1>1, <1>2, <2>1 DEF Exception
  <2>2. CASE Close(t)
    BY <1>1, <1>2, <2>2 DEF Close
  <2>3. CASE CloseIgnored(t)
    BY <1>1, <2>3 DEF CloseIgnored
  <2> QED BY <1>7, <2>1, <2>2, <2>3
<1>8. ASSUME CloseIgnored(Server) PROVE FALSE
  BY <1>1, <1>8 DEF CloseIgnored
<1>9. ASSUME HandlerReturns \/ PassReturns \/ CloseContinues PROVE FALSE
  BY <1>1, <1>9 DEF HandlerReturns, PassReturns, CloseContinues
<1>10. ASSUME EachReturns PROVE FALSE
  <2>1. CASE stack' = Front(stack)
    BY <1>1, <1>10, <2>1 DEF EachReturns
  <2>2. CASE stack' # Front(stack)
    <3>1. PICK c : stack' = Append(Front(stack), Frame(c, "each")) /\ stack # <<>>
      BY <1>10, <2>2 DEF EachReturns
    <3>2. /\ Len(Append(Front(stack), Frame(c, "each"))) = Len(stack)
          /\ Len(stack') = Len(stack) + 1 /\ Len(stack) \in Nat
      BY <3>1, EachLength, CalledLength DEF SocketInv, ApplicationTyped
    <3> QED BY <3>1, <3>2
  <2> QED BY <2>1, <2>2
<1>11. ASSUME NEW f \in Fds, PeerAnswers(f) \/ PeerCloses(f) PROVE FALSE
  BY <1>1, <1>11 DEF PeerAnswers, PeerCloses
<1>12. ~UNCHANGED vars
  BY <1>1 DEF vars
<1> QED BY <1>3, <1>4, <1>5, <1>6, <1>7, <1>8, <1>9, <1>10, <1>11, <1>12 DEF Next, Returns

\* The end of a connection is told once, provided that no handler closes a connection whose end it is
\* being told because the peer has closed it.
THEOREM EndsAreOnlyToldOnce == <<"ended", "close">> \notin HandlerDoes => (Spec => EndsAreToldOnce)
<1> SUFFICES ASSUME <<"ended", "close">> \notin HandlerDoes PROVE Spec => EndsAreToldOnce
  OBVIOUS
<1>1. SocketInv /\ [Next]_vars => [\A s \in Clients, event \in {"ended", "closed"} :
        stack' = Append(Called, Frame(s, event)) => told[s] = "up"]_vars
  <2> SUFFICES ASSUME SocketInv, [Next]_vars, NEW s \in Clients, NEW event \in {"ended", "closed"},
                      stack' = Append(Called, Frame(s, event))
               PROVE  told[s] = "up"
    OBVIOUS
  <2>1. Exception(s) \/ Close(s)
    BY OnlyTelling
  <2>2. sock[s].handles
    <3>1. stack' # stack /\ stack' # Called
      BY NotTold DEF SocketInv
    <3> QED BY <2>1, <3>1 DEF Exception, Close
  <2>3. sock[s].open /\ ~HasFrame(s, {"ended", "closed"})
    <3>1. CASE Exception(s)
      BY <3>1, ExceptionKeeps, NoFrames
    <3>2. CASE Close(s)
      <4>1. sock[s].open /\ ~sock[s].closing /\ MayCall("close", s)
        BY <3>2 DEF Close
      <4>2. ~HasFrame(s, {"closed"})
        BY <4>1 DEF SocketInv, ToldInv, ToldFor
      <4>3. ~HasFrame(s, {"ended"})
        <5>1. HandlerDoes \cap ({"ended"} \X {"close"}) = {}
          OBVIOUS
        <5> QED BY <4>1, <5>1, MayCallFacts
      <4> QED BY <4>1, <4>2, <4>3 DEF HasFrame
    <3> QED BY <2>1, <3>1, <3>2
  <2> QED BY <2>2, <2>3 DEF SocketInv, ToldInv, ToldFor
<1> QED BY <1>1, SocketInvariant, PTL DEF EndsAreToldOnce, Spec
=============================================================================
