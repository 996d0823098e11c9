----------------------------- MODULE MCTelemetry -----------------------------
(* Two emitters, a queue of two, batches of two, and the two sinks that every *)
(* dispatcher has, with a third that may be added in one run.                  *)
EXTENDS Telemetry

CONSTANTS memory, file

Registered == <<memory, file>>
==============================================================================
