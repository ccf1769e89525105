--------------------------- MODULE MCWalletLedger ---------------------------
(***************************************************************************)
(* WalletLedger on two wallets.  The first pays for two orders and is      *)
(* filled by one deposit and moved by a debit and a credit adjustment, so   *)
(* that every pair of operations can meet on it; the second is filled by a  *)
(* deposit of its own and must never be disturbed by them.                  *)
(***************************************************************************)
EXTENDS WalletLedger

CONSTANTS w1, w2, o1, o2, d1, d2, a1, a2

MCWalletOf == [x \in Movers |-> IF x = d2 THEN w2 ELSE w1]

MCAmount == [x \in Movers |-> CASE x = o1 -> 1
                               [] x = o2 -> 2
                               [] x = d1 -> 3
                               [] x = d2 -> 2
                               [] x = a1 -> -1
                               [] x = a2 -> 2]
=============================================================================
