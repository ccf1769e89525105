------------------------- MODULE MCOrderFulfilment -------------------------
(***************************************************************************)
(* OrderFulfilment for one order, which may be paid on-chain or from the   *)
(* wallet; the deposit fills the wallet with enough for one charge, so     *)
(* that a retry can be charged again only after the last was refunded.     *)
(***************************************************************************)
EXTENDS OrderFulfilment, TLC

CONSTANTS w1, o1, d1

MCWalletOf == [x \in Movers |-> w1]
MCAmount == (o1 :> 1) @@ (d1 :> 1)

\* An order paid on-chain never touches the wallet: its runs need no deposit.
MCDepositsMatter == method[o1] = "ONCHAIN" => deposit[d1] = "WAIT_PAY"

\* Workers are interchangeable.
MCSymmetry == Permutations(Workers)
=============================================================================
