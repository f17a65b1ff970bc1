------------------------------ MODULE HttpComm ------------------------------
(***************************************************************************)
(* The HTTP client (HttpComm in src/httpcomm.cpp) and its subclass for     *)
(* JSON (JsonWebClient in src/jsonwebclient.cpp): requests that run in a   *)
(* child thread, which shares the members of the object with the mainloop  *)
(* and tells it by signals about chunks of data and its end.               *)
(*                                                                         *)
(* The thread is ChildThreadWrapper's, as ChildThread models it: signals   *)
(* come through a pipe, the end of the thread is noticed with the signal   *)
(* "completed", cancel() kills and joins it.  What the server sends is     *)
(* the environment's choice.                                               *)
(***************************************************************************)
EXTENDS Integers, Sequences

CONSTANTS
  Requests,     \* requests the application makes
  NoRequest,    \* no callback, no thread
  Kind,         \* Requests -> "plain" (httpRequest()), "stream" (with aStreamResult), "json" (jsonRequest())
  MaxChunks,    \* bound: chunks of a response
  AppDoes       \* what else happens: subset of
                \*   {"nextInJson":  a JSON callback makes the next request,
                \*    "nextInChunk": a callback for a chunk does, having cancelled the one before,
                \*    "mixes":       a plain request follows a JSON request that was cancelled,
                \*    "busyJson":    a JSON request is made while another one is in progress,
                \*    "deleteInJson": a JSON callback releases the client,
                \*    "startFails":  there is no thread to be had}

ASSUME HttpConstants ==
  /\ NoRequest \notin Requests
  /\ Kind \in [Requests -> {"plain", "stream", "json"}]
  /\ MaxChunks \in Nat \ {0}

VARIABLES
  inProgress,   \* mRequestInProgress
  child,        \* mChildThread, by the request it was started for
  callback,     \* mResponseCallback
  jsonCallback, \* mJsonResponseCallback
  streaming,    \* mStreamResult
  pending,      \* mDataProcessingPending
  response,     \* mResponse: the request it is from, and the number of its last chunk
  failed,       \* mRequestError is set
  mgConn,       \* mMgConn is open
  thread,       \* the child thread: what it does, for which request, and the signals in its pipe
  main,         \* the callback that the mainloop executes, or "loop"
  called,       \* the request this callback was given for
  deleted,      \* the object has been deleted
  state,        \* history: what has become of the requests
  chunks        \* history: chunks the callback of a request has got

members == <<inProgress, child, callback, jsonCallback, streaming>>
shared == <<pending, response, failed, mgConn>>
history == <<state, chunks>>
httpVars == <<members, shared, thread, main, called, deleted, history>>

MaybeRequest == Requests \cup {NoRequest}
ThreadSteps == {"none", "starts", "read", "signal", "wait", "end", "ended"}
Outcomes == {"new", "accepted", "answered", "cancelled", "refused"}

HttpTypeOK ==
  /\ inProgress \in BOOLEAN /\ streaming \in BOOLEAN
  /\ child \in MaybeRequest /\ callback \in MaybeRequest /\ jsonCallback \in MaybeRequest
  /\ pending \in BOOLEAN /\ failed \in BOOLEAN /\ mgConn \in BOOLEAN
  /\ response \in [of : MaybeRequest, chunk : 0..MaxChunks]
  /\ thread \in [pc : ThreadSteps, of : MaybeRequest, pipe : Seq({"data", "completed"})]
  /\ main \in {"loop", "chunk", "done", "json"} /\ called \in MaybeRequest
  /\ deleted \in BOOLEAN
  /\ state \in [Requests -> Outcomes] /\ chunks \in [Requests -> 0..MaxChunks]

NoThread == [pc |-> "none", of |-> NoRequest, pipe |-> <<>>]
Running == thread.pc # "none"

HttpInit ==
  /\ inProgress = FALSE /\ child = NoRequest
  /\ callback = NoRequest /\ jsonCallback = NoRequest /\ streaming = FALSE
  /\ pending = FALSE /\ response = [of |-> NoRequest, chunk |-> 0]
  /\ failed = FALSE /\ mgConn = FALSE
  /\ thread = NoThread /\ main = "loop" /\ called = NoRequest /\ deleted = FALSE
  /\ state = [r \in Requests |-> "new"] /\ chunks = [r \in Requests |-> 0]

-----------------------------------------------------------------------------
(* The application, in the mainloop or in a callback *)

MayRequest ==
  /\ ~deleted
  /\ main = "chunk" => "nextInChunk" \in AppDoes
  /\ main = "json" => "nextInJson" \in AppDoes

IsJson(r) == Kind[r] = "json"

\* httpRequest(), and jsonRequest() with it.
AcceptRequest(r) ==
  /\ MayRequest /\ state[r] = "new" /\ ~inProgress
  /\ jsonCallback # NoRequest /\ ~IsJson(r) => "mixes" \in AppDoes
  /\ jsonCallback' = IF IsJson(r) THEN r ELSE jsonCallback
  /\ callback' = IF IsJson(r) THEN NoRequest ELSE r
  /\ streaming' = (Kind[r] = "stream")
  /\ failed' = FALSE /\ inProgress' = TRUE /\ child' = r
  /\ \/ thread' = [pc |-> "starts", of |-> r, pipe |-> <<>>]
     \/ "startFails" \in AppDoes /\ UNCHANGED thread
  /\ state' = [state EXCEPT ![r] = "accepted"]
  /\ UNCHANGED <<pending, response, mgConn, main, called, deleted, chunks>>

\* The request is not made, but jsonRequest() has set the callback.
Refuse(r) ==
  /\ MayRequest /\ state[r] = "new" /\ inProgress
  /\ IsJson(r) => "busyJson" \in AppDoes
  /\ jsonCallback' = IF IsJson(r) THEN r ELSE jsonCallback
  /\ state' = [state EXCEPT ![r] = "refused"]
  /\ UNCHANGED <<inProgress, child, callback, streaming, shared, thread, main, called, deleted, chunks>>

Mutant_Cancelled_OnlyForgets ==
  IF inProgress /\ child # NoRequest
  THEN /\ UNCHANGED <<thread, mgConn>> /\ inProgress' = FALSE
       /\ state' = [state EXCEPT ![child] = "cancelled"]
  ELSE UNCHANGED <<thread, mgConn, inProgress, state>>

\* cancelRequest(): the thread is killed and joined, and its connection closed.
Cancelled ==
  IF inProgress /\ child # NoRequest
  THEN /\ thread' = NoThread
       /\ mgConn' = (mgConn /\ ~Running)
       /\ inProgress' = FALSE
       /\ state' = [state EXCEPT ![child] = "cancelled"]
  ELSE UNCHANGED <<thread, mgConn, inProgress, state>>

CancelRequest ==
  /\ ~deleted /\ inProgress
  /\ Cancelled
  /\ UNCHANGED <<child, callback, jsonCallback, streaming, pending, response, failed, main, called,
                 deleted, chunks>>

\* The last reference to the object is released, not within a callback for a chunk.
Delete ==
  /\ ~deleted /\ main # "chunk"
  /\ main = "json" => "deleteInJson" \in AppDoes
  /\ deleted' = TRUE /\ callback' = NoRequest
  /\ Cancelled
  /\ UNCHANGED <<child, jsonCallback, streaming, pending, response, failed, main, called, chunks>>

-----------------------------------------------------------------------------
(* The child thread *)

Goes(pc) == thread' = [thread EXCEPT !.pc = pc]

ThreadOnly == UNCHANGED <<members, main, called, deleted, history>>

\* A response with an error status is read, too.
ThreadConnects ==
  /\ thread.pc = "starts"
  /\ response' = [of |-> thread.of, chunk |-> 0]
  /\ failed' \in BOOLEAN /\ mgConn' = TRUE
  /\ Goes("read")
  /\ ThreadOnly /\ UNCHANGED pending

ConnectFails ==
  /\ thread.pc = "starts"
  /\ response' = [of |-> thread.of, chunk |-> 0]
  /\ failed' = TRUE
  /\ Goes("end")
  /\ ThreadOnly /\ UNCHANGED <<pending, mgConn>>

ReadChunk ==
  /\ thread.pc = "read" /\ response.chunk < MaxChunks
  /\ response' = [response EXCEPT !.chunk = @ + 1]
  /\ IF streaming THEN pending' = TRUE /\ Goes("signal") ELSE UNCHANGED <<pending, thread>>
  /\ ThreadOnly /\ UNCHANGED <<failed, mgConn>>

SignalChunk ==
  /\ thread.pc = "signal"
  /\ thread' = [thread EXCEPT !.pc = "wait", !.pipe = Append(@, "data")]
  /\ ThreadOnly /\ UNCHANGED shared

WaitOver ==
  /\ thread.pc = "wait" /\ ~pending
  /\ Goes("read")
  /\ ThreadOnly /\ UNCHANGED shared

\* The connection has closed: a stream ends with an empty response.
ReadEnds ==
  /\ thread.pc = "read"
  /\ response' = IF streaming THEN [response EXCEPT !.chunk = 0] ELSE response
  /\ Goes("end")
  /\ ThreadOnly /\ UNCHANGED <<pending, failed, mgConn>>

ReadFails ==
  /\ thread.pc = "read"
  /\ failed' = TRUE
  /\ Goes("end")
  /\ ThreadOnly /\ UNCHANGED <<pending, response, mgConn>>

ThreadEnds ==
  /\ thread.pc = "end"
  /\ mgConn' = FALSE
  /\ thread' = [thread EXCEPT !.pc = "ended", !.pipe = Append(@, "completed")]
  /\ ThreadOnly /\ UNCHANGED <<pending, response, failed>>

ThreadStep ==
  \/ ThreadConnects \/ ConnectFails \/ ReadChunk \/ SignalChunk \/ WaitOver \/ ReadEnds \/ ReadFails
  \/ ThreadEnds

-----------------------------------------------------------------------------
(* Signals, in the mainloop *)

Signalled(sig) == main = "loop" /\ ~deleted /\ thread.pipe # <<>> /\ Head(thread.pipe) = sig

Calls(r, frame) == main' = frame /\ called' = r

Mutant_ChunkReady_ReleasesThread ==
  /\ Signalled("data")
  /\ thread' = [thread EXCEPT !.pipe = Tail(@)]
  /\ pending' = FALSE
  /\ IF callback # NoRequest
     THEN /\ Calls(callback, "chunk")
          /\ chunks' = [chunks EXCEPT ![callback] = response.chunk]
     ELSE UNCHANGED <<main, called, chunks>>
  /\ UNCHANGED <<members, response, failed, mgConn, deleted, state>>

ChunkReady ==
  /\ Signalled("data")
  /\ thread' = [thread EXCEPT !.pipe = Tail(@)]
  /\ IF callback # NoRequest
     THEN /\ Calls(callback, "chunk")
          /\ chunks' = [chunks EXCEPT ![callback] = response.chunk]
          /\ UNCHANGED pending
     ELSE pending' = FALSE /\ UNCHANGED <<main, called, chunks>>
  /\ UNCHANGED <<members, response, failed, mgConn, deleted, state>>

Mutant_ChunkReturns_KeepsThreadWaiting ==
  /\ main = "chunk"
  /\ main' = "loop" /\ called' = NoRequest
  /\ UNCHANGED <<members, pending, response, failed, mgConn, thread, deleted, history>>

ChunkReturns ==
  /\ main = "chunk"
  /\ main' = "loop" /\ called' = NoRequest
  /\ pending' = FALSE
  /\ UNCHANGED <<members, response, failed, mgConn, thread, deleted, history>>

\* HttpComm::requestThreadSignal(): the members are free for the next request
\* before the callback is called.
Completed ==
  /\ Signalled("completed") /\ jsonCallback = NoRequest
  /\ thread' = NoThread
  /\ inProgress' = FALSE /\ callback' = NoRequest /\ child' = NoRequest
  /\ IF callback # NoRequest
     THEN /\ Calls(callback, "done")
          /\ state' = [state EXCEPT ![callback] = "answered"]
     ELSE UNCHANGED <<main, called, state>>
  /\ UNCHANGED <<jsonCallback, streaming, shared, deleted, chunks>>

\* JsonWebClient::requestThreadSignal(): the thread is released afterwards.
CompletedJson ==
  /\ Signalled("completed") /\ jsonCallback # NoRequest
  /\ thread' = NoThread
  /\ inProgress' = FALSE /\ jsonCallback' = NoRequest
  /\ Calls(jsonCallback, "json")
  /\ state' = [state EXCEPT ![jsonCallback] = "answered"]
  /\ UNCHANGED <<child, callback, streaming, shared, deleted, chunks>>

DoneReturns ==
  /\ main = "done"
  /\ main' = "loop" /\ called' = NoRequest
  /\ UNCHANGED <<members, shared, thread, deleted, history>>

JsonReturns ==
  /\ main = "json"
  /\ main' = "loop" /\ called' = NoRequest
  /\ child' = NoRequest
  /\ UNCHANGED <<inProgress, callback, jsonCallback, streaming, shared, thread, deleted, history>>

MainStep ==
  ChunkReady \/ ChunkReturns \/ Completed \/ CompletedJson \/ DoneReturns \/ JsonReturns

-----------------------------------------------------------------------------

HttpNext ==
  \/ ThreadStep \/ MainStep
  \/ CancelRequest \/ Delete
  \/ \E r \in Requests : AcceptRequest(r) \/ Refuse(r)

HttpSpec == HttpInit /\ [][HttpNext]_httpVars

\* Servers answer or time out, the mainloop runs, callbacks return.
HttpFairSpec == HttpSpec /\ WF_httpVars(ThreadStep) /\ WF_httpVars(MainStep)

-----------------------------------------------------------------------------
(* Properties *)

\* The object a thread works on exists as long as the thread does, knows that
\* it is busy, and knows the thread, so that cancelRequest() and the
\* destructor can end it ("make sure subthread is cancelled").
ThreadIsOwned ==
  /\ HttpTypeOK
  /\ Running => ~deleted /\ inProgress /\ child = thread.of
  /\ mgConn => Running
  /\ ~(main = "json" /\ deleted)

\* A callback gets the response of its own request: each chunk once and in
\* order, untouched while it looks at it, in the end an empty one for a stream
\* ("An empty result will be delivered when stream ends"), and nothing after
\* it has been cancelled or refused.
AnswersAreOwn ==
  [][/\ main = "loop" /\ main' # "loop" =>
          /\ state[called'] = "accepted" /\ response.of = called'
          /\ main' = "chunk" => response.chunk = chunks[called'] + 1
          /\ main' = "done" /\ Kind[called'] = "stream" => failed \/ response.chunk = 0
     /\ main = "chunk" /\ main' = "chunk" /\ state[called] = "accepted" => response' = response]_httpVars

\* Every request that was accepted is answered, unless it is cancelled.
RequestsEnd == \A r \in Requests : state[r] = "accepted" ~> state[r] # "accepted"

\* No thread works on an object that has been deleted (terminate(), which the
\* destructor calls: "make sure subthread is cancelled").
SubthreadIsCancelled == deleted => ~Running

\* The callback of a request that is cancelled is called (httpcomm.hpp:
\* "cancel request, request callbacks will be executed").
CancelledAreCalled ==
  [][\A r \in Requests : state[r] = "accepted" /\ state'[r] = "cancelled" /\ ~deleted' =>
       main' # "loop" /\ called' = r]_httpVars
=============================================================================
