--------------------------- MODULE MCOperatorJobs ---------------------------
(***************************************************************************)
(* An instance of OperatorJobs for TLC: two calls of one request.          *)
(***************************************************************************)
EXTENDS OperatorJobs, TLC

CONSTANTS j1, j2, r1, server

MCRequestOf == [j \in Job |-> r1]

\* Every call reaches the one server.
OneServer == [j \in Job |-> server]
=============================================================================
