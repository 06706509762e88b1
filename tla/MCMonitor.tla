----------------------------- MODULE MCMonitor -----------------------------
(* The monitor with model values for its constants. *)
EXTENDS Monitor
=============================================================================
