----------------------------- MODULE SocketComm -----------------------------
(***************************************************************************)
(* Stream sockets (src/socketcomm.cpp on top of src/fdcomm.cpp): a server   *)
(* and the connections it has accepted, and sockets that connect to a list  *)
(* of addresses, one after the other.                                       *)
(*                                                                         *)
(* Everything is called by the mainloop when a descriptor is ready.  The    *)
(* status handler of the application runs in the middle of these calls and  *)
(* may open and close sockets itself; what the interrupted call does        *)
(* afterwards is fixed by the event it has reported.  `stack' holds the     *)
(* handlers under way, the innermost one last.  The kernel gives out the    *)
(* lowest descriptor that is free.                                          *)
(***************************************************************************)
EXTENDS Integers, Sequences, FiniteSets, FiniteSetsExt, SequencesExt

CONSTANTS
  Outgoing,     \* sockets used with initiateConnection()
  Accepted,     \* sockets the connection handler of the server hands out
  Server,       \* the socket used with startServer()
  Fds,          \* descriptors
  MaxAddresses, \* bound: addresses a name resolves to
  MaxDepth,     \* bound: handlers under way at the same time
  MaxCalls,     \* bound: calls a handler makes before it returns
  ClearsAtClose,\* sockets with setClearHandlersAtClose()
  FailsAtOnce,  \* whether connect() may fail without having been in progress
  HandlerDoes   \* <<event, call>>: calls for the very socket whose event is being handled

Events == {"opened", "accepted", "failed", "unreachable", "ended", "closed", "each"}

ASSUME SocketConstants ==
  /\ Outgoing \cap Accepted = {} /\ Server \notin Outgoing \cup Accepted
  /\ Fds \subseteq Nat /\ IsFiniteSet(Fds)
  /\ MaxAddresses \in Nat \ {0} /\ MaxDepth \in Nat \ {0} /\ MaxCalls \in Nat
  /\ ClearsAtClose \subseteq Outgoing \cup Accepted /\ FailsAtOnce \in BOOLEAN
  /\ HandlerDoes \subseteq Events \X {"close", "initiate"}

VARIABLES
  sock,         \* the members of each SocketComm
  clients,      \* mClientConnections of the server
  released,     \* the application has given up its reference to the server
  conn,         \* kernel: state of each descriptor
  polled,       \* mainloop: poll handler of each descriptor
  stack,        \* handlers of the application under way
  wants,        \* history: what the application has asked a socket for last
  told,         \* history: whether the application has been told that the socket is open
  broken        \* an iterator to an erased list element was used

vars == <<sock, clients, released, conn, polled, stack, wants, told, broken>>
kernel == <<conn, polled>>

Clients == Outgoing \cup Accepted
Sockets == Clients \cup {Server}
Asked == Outgoing \cup {Server}
NoFd == -1
NoHandler == <<>>
Frames == [socket : Clients, event : Events, calls : 0..MaxCalls]

Idle == [connectionFd |-> NoFd, dataFd |-> NoFd, addresses |-> 0, accepted |-> FALSE,
         open |-> FALSE, connecting |-> FALSE, closing |-> FALSE, serving |-> FALSE,
         handles |-> TRUE]

Init ==
  /\ sock = [s \in Sockets |-> Idle]
  /\ clients = <<>> /\ released = FALSE
  /\ conn = [f \in Fds |-> "free"] /\ polled = [f \in Fds |-> NoHandler]
  /\ stack = <<>> /\ broken = FALSE
  /\ wants = [s \in Asked |-> "nothing"] /\ told = [s \in Clients |-> "down"]

Top == Last(stack)
FreeFds == {f \in Fds : conn[f] = "free"}
Held(s) == {sock[s].connectionFd, sock[s].dataFd} \ {NoFd}
Ending(s) == sock[s].open \/ sock[s].connecting

\* The application runs: between calls of the mainloop, or in a handler.  A call for a socket
\* whose events are being handled is one the instance allows.
MayCall(call, s) ==
  /\ ~broken /\ (stack # <<>> => Top.calls < MaxCalls)
  /\ \A i \in DOMAIN stack : stack[i].socket = s => <<stack[i].event, call>> \in HandlerDoes

\* Handlers under way once the innermost one has made a call.
Called == [i \in DOMAIN stack |-> [stack[i] EXCEPT !.calls = @ + IF i = Len(stack) THEN 1 ELSE 0]]

\* The mainloop calls poll handlers one after the other.
Polls(f, role) == stack = <<>> /\ ~broken /\ polled[f] # NoHandler /\ polled[f][2] = role

(***************************************************************************)
(* Closing                                                                 *)
(***************************************************************************)
\* internalCloseConnection() of a socket that is no server.
Shut(s) == [sock[s] EXCEPT
  !.connectionFd = IF Ending(s) THEN NoFd ELSE @,
  !.dataFd = IF Ending(s) THEN NoFd ELSE @,
  !.open = FALSE, !.connecting = FALSE, !.closing = FALSE, !.accepted = FALSE,
  !.handles = @ /\ s \notin ClearsAtClose]

\* Closing the last connection drops the last reference to a server that has been released,
\* except in passClientConnection(), which has a reference of its own.
LastReference(s) ==
  /\ released /\ sock[s].accepted /\ clients = <<s>>
  /\ \A i \in DOMAIN stack : stack[i].event # "accepted"

ShutFds(s) ==
  (IF Ending(s) THEN Held(s) ELSE {}) \cup (IF LastReference(s) THEN Held(Server) ELSE {})

ShutSockets(s) ==
  [sock EXCEPT ![s] = Shut(s), ![Server] = IF LastReference(s) THEN Idle ELSE @]

Without(state, fds, none) == [f \in Fds |-> IF f \in fds THEN none ELSE state[f]]

\* Mutant: the server is not told.
Mutant_InternalClose_KeepsClient(s) ==
  /\ sock' = ShutSockets(s)
  /\ conn' = Without(conn, ShutFds(s), "free")
  /\ polled' = Without(polled, ShutFds(s), NoHandler)
  /\ UNCHANGED clients
  /\ released' = (released /\ ~LastReference(s))

InternalClose(s) ==
  /\ sock' = ShutSockets(s)
  /\ conn' = Without(conn, ShutFds(s), "free")
  /\ polled' = Without(polled, ShutFds(s), NoHandler)
  /\ clients' = IF sock[s].accepted THEN RemoveFirst(clients, s) ELSE clients
  /\ released' = (released /\ ~LastReference(s))

\* The status handler of `s' is called.
Frame(s, event) == [socket |-> s, event |-> event, calls |-> 0]

Tell(s, event) ==
  /\ Len(stack) < MaxDepth
  /\ stack' = Append(Called, Frame(s, event))
  /\ told' = [told EXCEPT ![s] = IF event \in {"opened", "accepted"} THEN "up" ELSE "down"]

Requested(s, what) == [a \in Asked |-> IF a = s THEN what ELSE wants[a]]
Answered(s) == IF s \in Asked /\ wants[s] = "open" THEN [wants EXCEPT ![s] = "nothing"] ELSE wants

(***************************************************************************)
(* Connecting                                                              *)
(***************************************************************************)
\* Mutant: the next address is the same one again.
Mutant_Opens_SameAddress(s, n, skipped, lost, f) ==
  LET left == Without(conn, ShutFds(s), "free")
      free == {g \in Fds : left[g] = "free"}
  IN /\ skipped \in 0..n - 1
     /\ lost \subseteq free /\ Cardinality(lost) \in 0..(IF FailsAtOnce THEN skipped ELSE 0)
     /\ free \ lost # {} /\ f = Min(free \ lost)
     /\ \A g \in lost : g < f
     /\ sock' = [ShutSockets(s) EXCEPT ![s] = [Shut(s) EXCEPT
          !.connecting = TRUE, !.connectionFd = f, !.addresses = n - skipped]]
     /\ conn' = [g \in Fds |-> IF g \in lost THEN "lost" ELSE IF g = f THEN "trying" ELSE left[g]]
     /\ polled' = [Without(polled, ShutFds(s), NoHandler) EXCEPT ![f] = <<s, "monitor">>]
     /\ UNCHANGED clients /\ UNCHANGED released

\* connectNextAddress() with `n' addresses left, after internalCloseConnection().  It skips `skipped'
\* of them; the descriptors in `lost' stay open when connect() fails at once.
Opens(s, n, skipped, lost, f) ==
  LET left == Without(conn, ShutFds(s), "free")
      free == {g \in Fds : left[g] = "free"}
  IN /\ skipped \in 0..n - 1
     /\ lost \subseteq free /\ Cardinality(lost) \in 0..(IF FailsAtOnce THEN skipped ELSE 0)
     /\ free \ lost # {} /\ f = Min(free \ lost)
     /\ \A g \in lost : g < f
     /\ sock' = [ShutSockets(s) EXCEPT ![s] = [Shut(s) EXCEPT
          !.connecting = TRUE, !.connectionFd = f, !.addresses = n - skipped - 1]]
     /\ conn' = [g \in Fds |-> IF g \in lost THEN "lost" ELSE IF g = f THEN "trying" ELSE left[g]]
     /\ polled' = [Without(polled, ShutFds(s), NoHandler) EXCEPT ![f] = <<s, "monitor">>]
     /\ UNCHANGED clients /\ UNCHANGED released

\* connectNextAddress() without any address left to try.
NoneLeft(s, n, lost) ==
  /\ lost \subseteq FreeFds /\ Cardinality(lost) \in 0..(IF FailsAtOnce THEN n ELSE 0)
  /\ sock' = [ShutSockets(s) EXCEPT ![s] = [Shut(s) EXCEPT !.addresses = 0]]
  /\ conn' = Without(Without(conn, ShutFds(s), "free"), lost, "lost")
  /\ polled' = Without(polled, ShutFds(s), NoHandler)
  /\ UNCHANGED clients /\ UNCHANGED released

Connects(s, n) ==
  \E skipped \in 0..MaxAddresses, lost \in SUBSET Fds, f \in Fds : Opens(s, n, skipped, lost, f)

Fails(s, n) == \E lost \in SUBSET Fds : NoneLeft(s, n, lost)

MayInitiate(s) == ~sock[s].open /\ ~sock[s].connecting /\ ~sock[s].accepted

\* initiateConnection(): no effect on a socket that is open or connecting; else the name is resolved to
\* `n' addresses (0: an error) and the first one that can be tried is tried.
InitiateIgnored(s) ==
  /\ MayCall("initiate", s) /\ ~MayInitiate(s)
  /\ wants' = [wants EXCEPT ![s] = "open"]
  /\ stack' = Called
  /\ UNCHANGED <<sock, clients, released, kernel, told, broken>>

InitiateStarts(s) ==
  /\ MayCall("initiate", s) /\ MayInitiate(s)
  /\ \E n \in 1..MaxAddresses : Connects(s, n)
  /\ wants' = [wants EXCEPT ![s] = "open"]
  /\ stack' = Called
  /\ UNCHANGED <<told, broken>>

InitiateFails(s) ==
  /\ MayCall("initiate", s) /\ MayInitiate(s)
  /\ \E n \in 0..MaxAddresses : Fails(s, n)
  /\ IF sock[s].handles THEN Tell(s, "failed") ELSE stack' = Called /\ UNCHANGED told
  /\ wants' = [wants EXCEPT ![s] = "nothing"]
  /\ UNCHANGED broken

\* connectionMonitorHandler(): the attempt has succeeded, has failed and the next one starts, or was
\* the last one.
Established(s) ==
  LET f == sock[s].connectionFd
  IN /\ f # NoFd /\ Polls(f, "monitor") /\ conn[f] \in {"up", "gone"}
     /\ sock' = [sock EXCEPT ![s].open = TRUE, ![s].connecting = FALSE, ![s].addresses = 0,
                             ![s].dataFd = f]
     /\ polled' = [polled EXCEPT ![f] = <<s, "data">>]
     /\ IF sock[s].handles THEN Tell(s, "opened") ELSE UNCHANGED <<stack, told>>
     /\ wants' = IF sock[s].handles THEN Answered(s) ELSE wants
     /\ UNCHANGED <<clients, released, conn, broken>>

NextAddress(s) ==
  LET f == sock[s].connectionFd
  IN /\ f # NoFd /\ Polls(f, "monitor") /\ conn[f] = "refused"
     /\ Connects(s, sock[s].addresses)
     /\ UNCHANGED <<stack, wants, told, broken>>

Unreachable(s) ==
  LET f == sock[s].connectionFd
  IN /\ f # NoFd /\ Polls(f, "monitor") /\ conn[f] = "refused"
     /\ Fails(s, sock[s].addresses)
     /\ IF sock[s].handles THEN Tell(s, "unreachable") ELSE UNCHANGED <<stack, told>>
     /\ wants' = IF sock[s].handles THEN Answered(s) ELSE wants
     /\ UNCHANGED broken

(***************************************************************************)
(* The server                                                              *)
(***************************************************************************)
StartServer ==
  /\ stack = <<>> /\ ~broken /\ ~sock[Server].serving /\ FreeFds # {}
  /\ LET f == Min(FreeFds)
     IN /\ sock' = [sock EXCEPT ![Server].serving = TRUE, ![Server].connectionFd = f]
        /\ conn' = [conn EXCEPT ![f] = "listening"]
        /\ polled' = [polled EXCEPT ![f] = <<Server, "accept">>]
  /\ wants' = [wants EXCEPT ![Server] = "open"]
  /\ UNCHANGED <<clients, released, stack, told, broken>>

\* The application gives up its reference.  Connections have references, too: only without any the
\* destructor stops the server.
ReleaseServer ==
  /\ stack = <<>> /\ ~broken /\ sock[Server].serving /\ ~released
  /\ IF clients = <<>>
     THEN /\ sock' = [sock EXCEPT ![Server] = Idle]
          /\ conn' = Without(conn, Held(Server), "free")
          /\ polled' = Without(polled, Held(Server), NoHandler)
          /\ UNCHANGED released
     ELSE released' = TRUE /\ UNCHANGED <<sock, kernel>>
  /\ UNCHANGED <<clients, stack, wants, told, broken>>

\* connectionAcceptHandler() and passClientConnection(), with a socket from the connection handler.
Accept(s) ==
  /\ \E f \in Fds : Polls(f, "accept")
  /\ ~Ending(s) /\ FreeFds # {}
  /\ LET f == Min(FreeFds)
     IN /\ sock' = [sock EXCEPT ![s] = [Idle EXCEPT
             !.connectionFd = f, !.dataFd = f, !.open = TRUE, !.accepted = TRUE]]
        /\ conn' = [conn EXCEPT ![f] = "up"]
        /\ polled' = [polled EXCEPT ![f] = <<s, "data">>]
  /\ clients' = Append(clients, s)
  /\ Tell(s, "accepted")
  /\ UNCHANGED <<released, wants, broken>>

(***************************************************************************)
(* Open connections                                                        *)
(***************************************************************************)
\* Mutant: closes without calling the status handler.
Mutant_Exception_Silently(s) ==
  LET f == sock[s].dataFd
  IN /\ f # NoFd /\ Polls(f, "data") /\ conn[f] = "gone" /\ ~sock[s].closing
     /\ InternalClose(s) /\ UNCHANGED <<stack, told>>
     /\ wants' = Answered(s)
     /\ UNCHANGED broken

\* dataExceptionHandler(): the peer has closed.
Exception(s) ==
  LET f == sock[s].dataFd
  IN /\ f # NoFd /\ Polls(f, "data") /\ conn[f] = "gone" /\ ~sock[s].closing
     /\ IF sock[s].handles
        THEN Tell(s, "ended") /\ UNCHANGED <<sock, clients, released, kernel>>
        ELSE InternalClose(s) /\ UNCHANGED <<stack, told>>
     /\ wants' = Answered(s)
     /\ UNCHANGED broken

\* Mutant: does not note that it is closing.
Mutant_Close_NoFlag(s) ==
  /\ MayCall("close", s)
  /\ sock[s].open /\ ~sock[s].closing
  /\ IF sock[s].handles
     THEN /\ Tell(s, "closed")
          /\ UNCHANGED <<sock, clients, released, kernel>>
     ELSE InternalClose(s) /\ stack' = Called /\ UNCHANGED told
  /\ wants' = Requested(s, "closed")
  /\ UNCHANGED broken

\* closeConnection(): only for a socket that is open and not closing.
Close(s) ==
  /\ MayCall("close", s)
  /\ sock[s].open /\ ~sock[s].closing
  /\ IF sock[s].handles
     THEN /\ Tell(s, "closed")
          /\ sock' = [sock EXCEPT ![s].closing = TRUE]
          /\ UNCHANGED <<clients, released, kernel>>
     ELSE InternalClose(s) /\ stack' = Called /\ UNCHANGED told
  /\ wants' = Requested(s, "closed")
  /\ UNCHANGED broken

CloseIgnored(s) ==
  /\ MayCall("close", s)
  /\ ~sock[s].open \/ sock[s].closing
  /\ wants' = Requested(s, "closed")
  /\ stack' = Called
  /\ UNCHANGED <<sock, clients, released, kernel, told, broken>>

\* eachClient() calls the application once for every connection.
EachClient ==
  /\ stack = <<>> /\ ~broken /\ clients # <<>>
  /\ stack' = <<Frame(Head(clients), "each")>>
  /\ UNCHANGED <<sock, clients, released, kernel, wants, told, broken>>

\* The walk of eachClient() goes on after the element it has just shown; that element must still exist.
EachReturns ==
  /\ stack # <<>> /\ ~broken /\ Top.event = "each"
  /\ broken' = ~Contains(clients, Top.socket)
  /\ LET rest == SelectInSeq(clients, LAMBDA c : c = Top.socket)
     IN stack' = IF broken' \/ rest = Len(clients) THEN Front(stack)
                 ELSE Append(Front(stack), Frame(clients[rest + 1], "each"))
  /\ UNCHANGED <<sock, clients, released, kernel, wants, told>>

\* A handler returns into a call that has nothing more to do ...
HandlerReturns ==
  /\ stack # <<>> /\ ~broken /\ Top.event \in {"opened", "failed"}
  /\ stack' = Front(stack)
  /\ UNCHANGED <<sock, clients, released, kernel, wants, told, broken>>

\* ... or drops the reference to the server it has been given ...
PassReturns ==
  /\ stack # <<>> /\ ~broken /\ Top.event = "accepted"
  /\ stack' = Front(stack)
  /\ IF released /\ clients = <<>>
     THEN /\ sock' = [sock EXCEPT ![Server] = Idle]
          /\ conn' = Without(conn, Held(Server), "free")
          /\ polled' = Without(polled, Held(Server), NoHandler)
          /\ released' = FALSE
     ELSE UNCHANGED <<sock, kernel, released>>
  /\ UNCHANGED <<clients, wants, told, broken>>

\* ... or closes the connection.
CloseContinues ==
  /\ stack # <<>> /\ ~broken /\ Top.event \in {"unreachable", "ended", "closed"}
  /\ stack' = Front(stack)
  /\ InternalClose(Top.socket)
  /\ UNCHANGED <<wants, told, broken>>

(***************************************************************************)
(* The kernel and the peers                                                *)
(***************************************************************************)
PeerAnswers(f) ==
  /\ conn[f] = "trying"
  /\ \E answer \in {"up", "refused"} : conn' = [conn EXCEPT ![f] = answer]
  /\ UNCHANGED <<sock, clients, released, polled, stack, wants, told, broken>>

PeerCloses(f) ==
  /\ conn[f] = "up" /\ stack = <<>>
  /\ conn' = [conn EXCEPT ![f] = "gone"]
  /\ UNCHANGED <<sock, clients, released, polled, stack, wants, told, broken>>

Returns == HandlerReturns \/ PassReturns \/ CloseContinues \/ EachReturns

Monitored(s) == Established(s) \/ NextAddress(s) \/ Unreachable(s)

Next ==
  \/ \E s \in Outgoing : InitiateIgnored(s) \/ InitiateStarts(s) \/ InitiateFails(s)
  \/ \E s \in Outgoing : Monitored(s)
  \/ StartServer \/ ReleaseServer \/ EachClient
  \/ \E s \in Accepted : Accept(s)
  \/ \E s \in Clients : Exception(s) \/ Close(s) \/ CloseIgnored(s)
  \/ CloseIgnored(Server)
  \/ Returns
  \/ \E f \in Fds : PeerAnswers(f) \/ PeerCloses(f)

Spec == Init /\ [][Next]_vars

\* Handlers return, attempts to connect are answered (the kernel gives up after a while), and the
\* mainloop gets round to every descriptor that is ready again and again.
FairSpec ==
  /\ Spec /\ WF_vars(Returns)
  /\ \A f \in Fds : WF_vars(PeerAnswers(f))
  /\ \A s \in Outgoing : SF_vars(Monitored(s))
  /\ \A s \in Clients : SF_vars(Exception(s))

(***************************************************************************)
(* Properties                                                              *)
(***************************************************************************)
RoleOf(state) ==
  IF state = "listening" THEN "accept" ELSE "monitor"

\* Descriptors are neither lost nor used by two: each one that is in use belongs to exactly one socket,
\* which is in the matching state and is called when the descriptor is ready, and no handler and no
\* socket is left with a descriptor that has been closed.
DescriptorsHeld ==
  \A f \in Fds :
    LET holders == {s \in Sockets : f \in Held(s)}
    IN IF conn[f] = "free" THEN holders = {} /\ polled[f] = NoHandler
       ELSE \E s \in Sockets :
              /\ holders = {s} /\ polled[f][1] = s
              /\ conn[f] \notin {"up", "gone"} => polled[f][2] = RoleOf(conn[f])
              /\ polled[f][2] = "accept" <=> sock[s].serving
              /\ polled[f][2] = "monitor" <=> sock[s].connecting
              /\ polled[f][2] = "data" <=> sock[s].open

\* The state is well formed, and descriptors are accounted for.
TypeOK ==
  /\ DescriptorsHeld
  /\ sock \in [Sockets -> [
       connectionFd : Fds \cup {NoFd}, dataFd : Fds \cup {NoFd}, addresses : 0..MaxAddresses,
       accepted : BOOLEAN, open : BOOLEAN, connecting : BOOLEAN, closing : BOOLEAN,
       serving : BOOLEAN, handles : BOOLEAN]]
  /\ clients \in Seq(Accepted) /\ released \in BOOLEAN /\ broken \in BOOLEAN
  /\ conn \in [Fds -> {"free", "listening", "trying", "refused", "up", "gone", "lost"}]
  /\ polled \in [Fds -> {NoHandler} \cup (Sockets \X {"accept", "monitor", "data"})]
  /\ stack \in Seq(Frames)
  /\ wants \in [Asked -> {"nothing", "open", "closed"}]
  /\ told \in [Clients -> {"up", "down"}]

\* The list of the server (numClients(), eachClient()) holds exactly the accepted connections that are
\* open, each once, and a server that has been released does not outlive its last connection.
ServerKnowsClients ==
  /\ TypeOK
  /\ IsInjective(clients)
  /\ \A s \in Accepted : Contains(clients, s) <=> sock[s].accepted
  /\ \A s \in Accepted : sock[s].accepted <=> sock[s].open
  /\ released => clients # <<>> \/ \E i \in DOMAIN stack : stack[i].event = "accepted"

\* When no handler is under way, the application knows of every socket whether it is open: no
\* connection has ended or begun without its status handler being called.
EndsAreTold ==
  stack = <<>> => \A s \in Clients : told[s] = "up" <=> sock[s].open

\* The end of a connection is told once: the status handler is not called for the end of a connection
\* it does not believe to be open.
EndsAreToldOnce ==
  [][\A s \in Clients, event \in {"ended", "closed"} :
       stack' = Append(Called, Frame(s, event)) => told[s] = "up"]_vars

\* initiateConnection() is never forgotten: unless the application has been told the outcome, the socket
\* is connecting (or still open).
RequestsAreAnswered ==
  stack = <<>> => \A s \in Outgoing : wants[s] = "open" => sock[s].open \/ sock[s].connecting

\* The application is told whatever becomes of the connections it has and has asked for.
NothingEndsSilently == EndsAreTold /\ RequestsAreAnswered

\* An attempt to connect ends, whatever the addresses do, and the application is told of a connection
\* that the peer has closed.
TroubleEnds ==
  /\ \A s \in Outgoing : sock[s].connecting ~> ~sock[s].connecting
  /\ \A s \in Clients, f \in Fds :
       (sock[s].dataFd = f /\ conn[f] = "gone") ~> told[s] = "down"

\* What the documentation of closeConnection() says: it closes a connection that is open or connecting, and
\* stops a server.
CloseCloses ==
  stack = <<>> => \A s \in Asked : wants[s] = "closed" =>
    ~sock[s].open /\ ~sock[s].connecting /\ ~sock[s].serving

\* eachClient() never goes on from an element of the list that has been erased.
NoErasedClient == ~broken
=============================================================================
