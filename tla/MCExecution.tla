----------------------------- MODULE MCExecution ----------------------------
(* A small instance of Execution for TLC.                                  *)
EXTENDS Execution
OneRetry == {1}
AnyFault == {"storage", "bus"}
=============================================================================
