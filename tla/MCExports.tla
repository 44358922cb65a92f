----------------------------- MODULE MCExports -----------------------------
(* Small instances of Exports for TLC: three events, the oldest of which is  *)
(* past the retention of its workspace, written in pages of two rows; the    *)
(* liveness run gives Event and Old in its cfg.                              *)
EXTENDS Exports

MCEvent == 1..3
MCOld == {1}
=============================================================================
