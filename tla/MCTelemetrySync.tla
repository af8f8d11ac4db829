--------------------------- MODULE MCTelemetrySync ---------------------------
(* Model-checking instances of TelemetrySync. *)
EXTENDS TelemetrySync
=============================================================================
