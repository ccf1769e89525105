---------------------------- MODULE Receivables ----------------------------
(***************************************************************************)
(* What the matching of payments promises about each deposit and order that *)
(* waits for a transfer: it is opened with what it waits for, may become     *)
(* late, and is settled once, by a transfer of exactly that, for good.       *)
(***************************************************************************)
CONSTANTS Rows,       \* the deposits and orders
          Transfers,  \* the transfers on the chains
          Sums        \* what can be due or sent: an amount at an address

VARIABLES state,  \* of each row
          due,    \* what a row waits for: nothing yet, or one sum
          sent,   \* what a transfer carries: nothing yet, or one sum
          by      \* what settled a row: nothing yet, or one transfer

vars == <<state, due, sent, by>>

Init ==
    /\ state = [r \in Rows |-> "NONE"]
    /\ due = [r \in Rows |-> {}]
    /\ sent = [t \in Transfers |-> {}]
    /\ by = [r \in Rows |-> {}]

Open(r, sum) ==
    /\ state[r] = "NONE"
    /\ state' = [state EXCEPT ![r] = "WAIT_PAY"]
    /\ due' = [due EXCEPT ![r] = {sum}]
    /\ UNCHANGED <<sent, by>>

Send(t, sum) ==
    /\ sent[t] = {}
    /\ sent' = [sent EXCEPT ![t] = {sum}]
    /\ UNCHANGED <<state, due, by>>

Late(r) ==
    /\ state[r] = "WAIT_PAY"
    /\ state' = [state EXCEPT ![r] = "TIMEOUT"]
    /\ UNCHANGED <<due, sent, by>>

\* Several rows may be settled at once.
Settle(rows) ==
    /\ \A r \in rows : state[r] \in {"WAIT_PAY", "TIMEOUT"}
    /\ state' = [r \in Rows |-> IF r \in rows THEN "PAID" ELSE state[r]]
    /\ \E transfer \in [rows -> Transfers] :
          /\ \A r \in rows : sent[transfer[r]] = due[r]
          /\ by' = [r \in Rows |-> IF r \in rows THEN {transfer[r]} ELSE by[r]]
    /\ UNCHANGED <<due, sent>>

Next ==
    \/ \E r \in Rows, sum \in Sums : Open(r, sum)
    \/ \E t \in Transfers, sum \in Sums : Send(t, sum)
    \/ \E r \in Rows : Late(r)
    \/ \E rows \in SUBSET Rows : Settle(rows)

Spec == Init /\ [][Next]_vars
=============================================================================
