---------------------------- MODULE SignalSlots_MC ----------------------------
(* Instances of SignalSlots for TLC. *)
EXTENDS SignalSlots

CONSTANTS u1, u2, s1, s2, m1, m2, sigA, sigB

\* Every message carries the same signal, which a listener is interested in or not.
OneSignal == [m \in Messages |-> sigA]
=============================================================================
