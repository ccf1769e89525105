----------------------------- MODULE OrderStates -----------------------------
(***************************************************************************)
(* The order state machine of database/enums.py: the statuses of an order  *)
(* and the transitions transition_order accepts.                           *)
(***************************************************************************)

OrderStatus == {"WAIT_PAY", "PAID", "PROCESSING", "WAIT_FRAGMENT", "WAIT_SIGN",
                "BROADCASTED", "CONFIRMING", "COMPLETED", "FAILED", "REFUNDED",
                "MANUAL_REVIEW", "TIMEOUT"}

ORDER_TRANSITIONS ==
    [WAIT_PAY      |-> {"PAID", "TIMEOUT"},
     PAID          |-> {"PROCESSING", "FAILED", "MANUAL_REVIEW"},
     PROCESSING    |-> {"WAIT_FRAGMENT", "WAIT_SIGN", "COMPLETED", "FAILED",
                        "MANUAL_REVIEW"},
     WAIT_FRAGMENT |-> {"WAIT_SIGN", "COMPLETED", "FAILED", "MANUAL_REVIEW"},
     WAIT_SIGN     |-> {"BROADCASTED", "FAILED", "MANUAL_REVIEW"},
     BROADCASTED   |-> {"CONFIRMING", "FAILED", "MANUAL_REVIEW"},
     CONFIRMING    |-> {"COMPLETED", "FAILED", "MANUAL_REVIEW"},
     MANUAL_REVIEW |-> {"PROCESSING", "WAIT_FRAGMENT", "WAIT_SIGN", "COMPLETED",
                        "FAILED"},
     FAILED        |-> {"PROCESSING", "REFUNDED", "MANUAL_REVIEW"},
     REFUNDED      |-> {"PROCESSING"},
     TIMEOUT       |-> {"PAID"},
     COMPLETED     |-> {}]

CanTransition(current, target) == target \in ORDER_TRANSITIONS[current]

\* Where one database transaction may take an order: a transition, or the two
\* in a row that fail_and_refund_order and the capture endpoint make.
Follows(current, target) ==
    \/ current = target
    \/ CanTransition(current, target)
    \/ CanTransition(current, "FAILED") /\ target = "REFUNDED"
    \/ CanTransition(current, "WAIT_SIGN")
       /\ target \in {"BROADCASTED", "MANUAL_REVIEW"}
=============================================================================
