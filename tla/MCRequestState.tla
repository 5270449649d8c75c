--------------------------- MODULE MCRequestState ---------------------------
(* A small instance of RequestState for TLC: one family of each kind.      *)
EXTENDS RequestState
SomeFamilies == {"request.received", "task.failed", "cost.recorded", "request.failed", "memory.indexed"}
=============================================================================
