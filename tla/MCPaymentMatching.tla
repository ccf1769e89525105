-------------------------- MODULE MCPaymentMatching --------------------------
\* Instance of PaymentMatching for model checking.
EXTENDS PaymentMatching

MCWallets == {1}
MCAmounts == {"29.0371"}
=============================================================================
