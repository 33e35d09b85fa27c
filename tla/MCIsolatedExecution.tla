------------------------ MODULE MCIsolatedExecution ------------------------
(* Two streams share a budget of two bytes; the payload may write four. *)
EXTENDS IsolatedExecution
CONSTANTS stdout, stderr
=============================================================================
