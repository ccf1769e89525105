---------------------------- MODULE MCTonPayments ----------------------------
\* Instance of TonPayments for model checking.
EXTENDS TonPayments, TLC

CONSTANTS o1, o2

MCOrders     == {o1, o2}
MCHotWallets == {1, 2}
MCSchemas    == {"s"}
MCAmounts    == {1, 2}
MCSymmetry   == Permutations(MCOrders)
=============================================================================
