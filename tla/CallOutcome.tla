----------------------------- MODULE CallOutcome -----------------------------
(***************************************************************************)
(* What a connection promises about a call: it is either refused, and then *)
(* reports nothing, or accepted, and then reports one outcome.  A success  *)
(* may still turn into a failure (the success callback threw), a failure   *)
(* is final, and nothing is reported once the connection is gone.          *)
(***************************************************************************)
CONSTANTS Calls

VARIABLES
    outcome,  \* per call
    alive     \* the connection exists

vars == <<outcome, alive>>

Outcomes == {"none", "refused", "pending", "delivered", "failed", "abandoned"}

TypeOK ==
    /\ outcome \in [Calls -> Outcomes]
    /\ alive \in BOOLEAN

Init ==
    /\ outcome = [c \in Calls |-> "none"]
    /\ alive = TRUE

Becomes(c, from, to) ==
    /\ alive
    /\ outcome[c] \in from
    /\ outcome' = [outcome EXCEPT ![c] = to]
    /\ UNCHANGED alive

Refuse(c) == Becomes(c, {"none"}, "refused")
Accept(c) == Becomes(c, {"none"}, "pending")

\* The result of a synchronous call is what it returns.
ReturnResult(c) == Becomes(c, {"none"}, "delivered")

Deliver(c) == Becomes(c, {"pending"}, "delivered")
Fail(c) == Becomes(c, {"pending", "delivered"}, "failed")

Die ==
    /\ alive
    /\ alive' = FALSE
    /\ outcome' = [c \in Calls |->
                      IF outcome[c] = "pending" THEN "abandoned" ELSE outcome[c]]

Next ==
    \/ \E c \in Calls :
          Refuse(c) \/ Accept(c) \/ ReturnResult(c) \/ Deliver(c) \/ Fail(c)
    \/ Die

Spec == Init /\ [][Next]_vars
=============================================================================
