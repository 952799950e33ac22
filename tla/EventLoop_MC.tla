---------------------------- MODULE EventLoop_MC ----------------------------
(* Instances of EventLoop for TLC. *)
EXTENDS EventLoop

CONSTANTS l1, l2
=============================================================================
