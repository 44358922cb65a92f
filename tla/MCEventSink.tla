---------------------------- MODULE MCEventSink ----------------------------
(* Small instances of EventSink for TLC. *)
EXTENDS EventSink
=============================================================================
