-------------------------- MODULE MCKernelRecovery --------------------------
(* Small instances of KernelRecovery for TLC.                              *)
EXTENDS KernelRecovery

CONSTANTS Alpha, Planning

Snap(version, replans, active) ==
  [version |-> version,
   routing_table |-> [t \in Types |-> IF t = Alpha THEN Planning ELSE NoTarget],
   max_replans |-> replans, max_active_requests |-> active]

MCInitial == Snap(1, 1, 2)
TwoVersions == {MCInitial, Snap(2, 0, 1)}
LogRefused == {{}, {LogTopic}}
\* A life cycle that ends by cancellation, the ends of sessions, and
\* configuration changes.
Peers == {"request.received", "plan.created", "verify.passed", "request.cancelled",
          "session.sleep", "config.changed"}
=============================================================================
