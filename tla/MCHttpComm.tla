----------------------------- MODULE MCHttpComm -----------------------------
(* The instances of HttpComm that the configurations give to TLC.            *)
EXTENDS HttpComm

CONSTANTS j1, j2, s1, s2, p1

\* Two JSON requests, two streams, one plain request.
AllKinds ==
  [r \in Requests |-> CASE r \in {j1, j2} -> "json" [] r \in {s1, s2} -> "stream" [] OTHER -> "plain"]
=============================================================================
