--------------------------- MODULE MCRunnerControl ---------------------------
(* The constants are bounds only: the run takes the specification as it is. *)
EXTENDS RunnerControl
=============================================================================
