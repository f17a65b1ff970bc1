---------------------------- MODULE MCSocketComm ----------------------------
(* The instances of SocketComm that the configurations give to TLC.         *)
EXTENDS SocketComm

\* What a status handler may do with its own socket without a call being lost or a report repeated.
SafeCalls ==
  {<<"opened", "close">>, <<"opened", "initiate">>, <<"accepted", "close">>,
   <<"failed", "initiate">>, <<"closed", "close">>}

\* A handler connects again when the connection has failed or ended.
Retries == SafeCalls \cup {<<"unreachable", "initiate">>, <<"ended", "initiate">>}

\* A handler closes its socket when the peer has closed it.
ClosesOnEnd == SafeCalls \cup {<<"ended", "close">>}

\* The callback of eachClient() closes the connection it is called for.
ClosesEach == SafeCalls \cup {<<"each", "close">>}
=============================================================================
