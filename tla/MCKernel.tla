------------------------------ MODULE MCKernel ------------------------------
(* Small instances of Kernel for TLC.                                      *)
EXTENDS Kernel

CONSTANTS Alpha, Planning

\* default_config.snapshot with overrides: Alpha is routable, every other
\* type is unknown or ambiguous.
Snap(version, replans, active) ==
  [version |-> version,
   routing_table |-> [t \in Types |-> IF t = Alpha THEN Planning ELSE NoTarget],
   max_replans |-> replans, max_active_requests |-> active]

MCInitial == Snap(1, 1, 2)
TwoVersions == {MCInitial, Snap(2, 0, 1)}

\* Communication up, or a full subscriber on the log and on the gate topic.
BusOutages == {{}, {"gate.enforced", LogTopic}}

\* The life cycle of a request with session ends and configuration changes.
Peers == (RequestEvents \ {"plan.rejected"}) \cup {"session.sleep", "config.changed"}
=============================================================================
