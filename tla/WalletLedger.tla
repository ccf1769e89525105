---------------------------- MODULE WalletLedger ----------------------------
(***************************************************************************)
(* The internal USDT wallets of services/wallets.py: one row per user with *)
(* a balance and two totals, and an append-only ledger whose entries carry *)
(* the balance they left behind and a unique idempotency key.              *)
(*                                                                         *)
(* Money moves for four reasons: an order is debited, a debited order is   *)
(* refunded, an on-chain deposit is credited, an administrator adjusts a   *)
(* wallet.  A database transaction is one action; the administrator's      *)
(* adjustment is two, because it loads the wallet row before it locks it.  *)
(***************************************************************************)
EXTENDS Integers, Sequences, FiniteSets, Functions

CONSTANTS Wallets,      \* rows of user_wallets
          Orders,       \* rows of orders
          Deposits,     \* rows of deposit_orders
          Adjustments,  \* requests to POST /wallet-accounts/{id}/adjust
          WalletOf,     \* the wallet an order, deposit or adjustment moves
          Amount,       \* quoted_amount, payment_amount, signed adjustment
          MaxAttempt    \* bound on balance_payment_attempt of one order

Movers == Orders \cup Deposits \cup Adjustments

ASSUME LedgerAssumption ==
    /\ WalletOf \in [Movers -> Wallets]
    /\ Amount \in [Movers -> Int]
    /\ \A x \in Orders \cup Deposits : Amount[x] > 0
    /\ \A a \in Adjustments : Amount[a] # 0
    /\ MaxAttempt \in Nat

VARIABLES wallet,      \* [Wallets -> row]
          ledger,      \* [Wallets -> sequence of entries]
          method,      \* orders.payment_method, "NONE" before the order exists
          attempt,     \* orders.balance_payment_attempt
          refunded,    \* orders.balance_refunded_at IS NOT NULL
          deposit,     \* deposit_orders.status
          adjustment   \* the adjust request: its phase, the balance it loaded,
                       \* and (history) the entries its wallet had by then

ledgerVars == <<wallet, ledger>>
chargeVars == <<method, attempt, refunded>>
walletVars == <<wallet, ledger, method, attempt, refunded, deposit, adjustment>>

Methods == {"WALLET_BALANCE", "ONCHAIN"}
Kinds   == {"payment", "refund", "credit", "adjust"}
Keys    == Movers \X Kinds \X Nat
Entry   == [key : Keys, amount : Int, balance_after : Nat]
Row     == [available_balance : Nat, total_deposited : Nat, total_spent : Nat]

----------------------------------------------------------------------------
(* Reading the ledger.                                                      *)

\* An entry with this idempotency key is in the wallet's ledger.
Posted(w, key) == \E i \in DOMAIN ledger[w] : ledger[w][i].key = key

Paid(o, n)     == Posted(WalletOf[o], <<o, "payment", n>>)
Returned(o, n) == Posted(WalletOf[o], <<o, "refund", n>>)

\* The balance the ledger of w records before its i-th entry.
BalanceBefore(w, i) == IF i = 1 THEN 0 ELSE ledger[w][i - 1].balance_after

----------------------------------------------------------------------------
(* The operations of services/wallets.py.  A definition introduced by      *)
(* "Variant:" is a plausible bug in the one that follows it; no action uses *)
(* it, it shows which property notices the bug.                            *)

\* Variant: the row is updated in place instead of from the loaded balance.
SettleInPlace(row, kind, delta, balance) ==
    [row EXCEPT !.available_balance = @ + delta]

\* Variant: a refund leaves total_spent alone.
SettleKeepsSpent(row, kind, delta, balance) ==
    [available_balance |-> balance,
     total_deposited   |-> row.total_deposited
                             + (IF kind = "credit" THEN delta ELSE 0),
     total_spent       |-> row.total_spent
                             - (IF kind = "payment" THEN delta ELSE 0)]

\* The row after an entry of this kind: every kind moves the balance, a
\* deposit and an order's payment and refund also move a total.
Settle(row, kind, delta, balance) ==
    [available_balance |-> balance,
     total_deposited   |-> row.total_deposited
                             + (IF kind = "credit" THEN delta ELSE 0),
     total_spent       |->
        CASE kind = "payment" -> row.total_spent - delta
          [] kind = "refund"  -> IF row.total_spent > delta
                                   THEN row.total_spent - delta ELSE 0
          [] OTHER            -> row.total_spent]

\* Variant: the ledger is not searched for the idempotency key.
PostWithoutKey(w, key, delta, balance) ==
    /\ balance + delta >= 0
    /\ wallet' = [wallet EXCEPT ![w] =
                    Settle(@, key[2], delta, balance + delta)]
    /\ ledger' = [ledger EXCEPT ![w] =
                    Append(@, [key |-> key, amount |-> delta,
                               balance_after |-> balance + delta])]

\* Variant: the wallet may be overdrawn.
PostOverdrawn(w, key, delta, balance) ==
    IF Posted(w, key)
      THEN UNCHANGED ledgerVars
      ELSE /\ wallet' = [wallet EXCEPT ![w] =
                            Settle(@, key[2], delta, balance + delta)]
           /\ ledger' = [ledger EXCEPT ![w] =
                            Append(@, [key |-> key, amount |-> delta,
                                       balance_after |-> balance + delta])]

\* post_wallet_entry: a known key changes nothing; otherwise the entry is
\* written from the balance the session's wallet object holds, and refused
\* when that would go below zero.
PostWalletEntry(w, key, delta, balance) ==
    \/ /\ Posted(w, key)
       /\ UNCHANGED ledgerVars
    \/ /\ ~Posted(w, key)
       /\ balance + delta >= 0
       /\ wallet' = [wallet EXCEPT ![w] =
                       Settle(@, key[2], delta, balance + delta)]
       /\ ledger' = [ledger EXCEPT ![w] =
                       Append(@, [key |-> key, amount |-> delta,
                                  balance_after |-> balance + delta])]

\* A wallet row that the session first reads under FOR UPDATE is current.
PostLocked(w, key, delta) ==
    PostWalletEntry(w, key, delta, wallet[w].available_balance)

\* Variant: a new charge does not clear balance_refunded_at.
DebitKeepsRefundMark(o, n) ==
    /\ PostLocked(WalletOf[o], <<o, "payment", n + 1>>, -Amount[o])
    /\ attempt' = [attempt EXCEPT ![o] = n + 1]
    /\ UNCHANGED refunded

\* debit_order_balance on an order object whose balance_payment_attempt is n.
DebitOrderBalance(o, n) ==
    /\ PostLocked(WalletOf[o], <<o, "payment", n + 1>>, -Amount[o])
    /\ attempt' = [attempt EXCEPT ![o] = n + 1]
    /\ refunded' = [refunded EXCEPT ![o] = FALSE]

\* refund_order_balance returns an entry, not None, for an order object with
\* this payment attempt and this balance_refunded_at.
Refundable(o, n, done) ==
    method[o] = "WALLET_BALANCE" /\ n >= 1 /\ ~done

RefundOrderBalance(o, n, done) ==
    IF Refundable(o, n, done)
      THEN /\ PostLocked(WalletOf[o], <<o, "refund", n>>, Amount[o])
           /\ refunded' = [refunded EXCEPT ![o] = TRUE]
           /\ UNCHANGED attempt
      ELSE UNCHANGED <<wallet, ledger, attempt, refunded>>

----------------------------------------------------------------------------
(* Wallet transactions that concern no order's state machine.              *)

\* credit_deposit, from the matching of a confirmed transfer.
CreditDeposit(d) ==
    /\ deposit[d] \in {"WAIT_PAY", "TIMEOUT"}
    /\ PostLocked(WalletOf[d], <<d, "credit", 0>>, Amount[d])
    /\ deposit' = [deposit EXCEPT ![d] = "CONFIRMED"]
    /\ UNCHANGED <<chargeVars, adjustment>>

\* Variant: the batch is selected without a lock, and is stale when written.
ExpireUnlocked(d) ==
    /\ deposit' = [deposit EXCEPT ![d] = "TIMEOUT"]
    /\ UNCHANGED <<ledgerVars, chargeVars, adjustment>>

\* expire_deposit_orders, for one row of the batch.
ExpireDeposit(d) ==
    /\ deposit[d] = "WAIT_PAY"
    /\ deposit' = [deposit EXCEPT ![d] = "TIMEOUT"]
    /\ UNCHANGED <<ledgerVars, chargeVars, adjustment>>

\* adjust_wallet first loads the row with session.get, without a lock ...
AdjustLoad(a) ==
    /\ adjustment[a].phase = "requested"
    /\ adjustment' = [adjustment EXCEPT ![a] =
                        [phase   |-> "loaded",
                         balance |-> wallet[WalletOf[a]].available_balance,
                         seen    |-> Len(ledger[WalletOf[a]])]]
    /\ UNCHANGED <<ledgerVars, chargeVars, deposit>>

\* ... and the locking SELECT of post_wallet_entry then finds that object in
\* the session's identity map and leaves its loaded attributes as they are.
AdjustPost(a) ==
    /\ adjustment[a].phase = "loaded"
    /\ PostWalletEntry(WalletOf[a], <<a, "adjust", 0>>, Amount[a],
                       adjustment[a].balance)
    /\ adjustment' = [adjustment EXCEPT ![a].phase = "posted"]
    /\ UNCHANGED <<chargeVars, deposit>>

\* The wallet cannot cover the adjustment, or the request fails: rollback.
AdjustAbort(a) ==
    /\ adjustment[a].phase = "loaded"
    /\ adjustment' = [adjustment EXCEPT ![a].phase = "refused"]
    /\ UNCHANGED <<ledgerVars, chargeVars, deposit>>

----------------------------------------------------------------------------
(* The wallet on its own.  Orders call it in the three ways the code does:  *)
(* at creation, when a refunded order is charged again, and on failure.     *)

PlaceOrder(o, m) ==
    /\ method[o] = "NONE"
    /\ method' = [method EXCEPT ![o] = m]
    /\ IF m = "WALLET_BALANCE" THEN DebitOrderBalance(o, 0)
                               ELSE UNCHANGED <<wallet, ledger, attempt, refunded>>
    /\ UNCHANGED <<deposit, adjustment>>

ChargeAgain(o) ==
    /\ method[o] = "WALLET_BALANCE"
    /\ refunded[o]
    /\ attempt[o] < MaxAttempt
    /\ DebitOrderBalance(o, attempt[o])
    /\ UNCHANGED <<method, deposit, adjustment>>

\* The order object may have been read before another process refunded the
\* same attempt, so "not yet refunded" is what the object says, not the row.
GiveBack(o) ==
    /\ Refundable(o, attempt[o], FALSE)
    /\ RefundOrderBalance(o, attempt[o], FALSE)
    /\ UNCHANGED <<method, deposit, adjustment>>

WalletInit ==
    /\ wallet = [w \in Wallets |-> [available_balance |-> 0,
                                    total_deposited |-> 0, total_spent |-> 0]]
    /\ ledger = [w \in Wallets |-> <<>>]
    /\ method = [o \in Orders |-> "NONE"]
    /\ attempt = [o \in Orders |-> 0]
    /\ refunded = [o \in Orders |-> FALSE]
    /\ deposit = [d \in Deposits |-> "WAIT_PAY"]
    /\ adjustment = [a \in Adjustments |->
                       [phase |-> "requested", balance |-> 0, seen |-> 0]]

WalletMove ==
    \/ \E d \in Deposits : CreditDeposit(d) \/ ExpireDeposit(d)
    \/ \E a \in Adjustments : AdjustLoad(a) \/ AdjustPost(a) \/ AdjustAbort(a)

WalletNext ==
    \/ \E o \in Orders : \E m \in Methods : PlaceOrder(o, m)
    \/ \E o \in Orders : ChargeAgain(o) \/ GiveBack(o)
    \/ WalletMove

WalletSpec == WalletInit /\ [][WalletNext]_walletVars

----------------------------------------------------------------------------
(* Properties.                                                             *)

AdjustmentRow == [phase : {"requested", "loaded", "posted", "refused"},
                  balance : Nat, seen : Nat]

WalletTypeOK ==
    /\ wallet \in [Wallets -> Row]
    /\ ledger \in [Wallets -> Seq(Entry)]
    /\ method \in [Orders -> Methods \cup {"NONE"}]
    /\ attempt \in [Orders -> Nat]
    /\ refunded \in [Orders -> BOOLEAN]
    /\ deposit \in [Deposits -> {"WAIT_PAY", "TIMEOUT", "CONFIRMED"}]
    /\ adjustment \in [Adjustments -> AdjustmentRow]

\* The i-th entry of w is an adjustment, and other entries were posted after
\* the balance it started from was loaded.
Overtaken(w, i) ==
    \E a \in Adjustments : /\ ledger[w][i].key = <<a, "adjust", 0>>
                           /\ adjustment[a].seen < i - 1

\* The ledger accounts for the balance: the row holds what the last entry
\* left, and every entry starts from what the entry before it left, except an
\* adjustment that another entry overtook between its reading and its posting.
LedgerBacksBalance ==
    \A w \in Wallets :
        /\ wallet[w].available_balance = BalanceBefore(w, Len(ledger[w]) + 1)
        /\ \A i \in DOMAIN ledger[w] :
              ~Overtaken(w, i) =>
                 ledger[w][i].balance_after
                    = BalanceBefore(w, i) + ledger[w][i].amount

\* A user is charged for an order at most once at a time: the attempts that
\* were debited are 1..balance_payment_attempt, every one before the last was
\* given back, and the last was given back exactly when the order says so.
OneOutstandingCharge ==
    \A o \in Orders, n \in 1..(MaxAttempt + 1) :
        /\ Paid(o, n) <=> n <= attempt[o]
        /\ Returned(o, n) <=> \/ n < attempt[o]
                              \/ n = attempt[o] /\ refunded[o]

\* A deposit is credited once and then confirmed, in one transaction, also
\* when the transfer arrives after the deposit expired.
ConfirmedIffCredited ==
    \A d \in Deposits :
        deposit[d] = "CONFIRMED" <=> Posted(WalletOf[d], <<d, "credit", 0>>)

\* The cost of the charges of o that have not been given back.
Outstanding(o) ==
    Amount[o] * Cardinality({n \in 1..(MaxAttempt + 1) :
                                Paid(o, n) /\ ~Returned(o, n)})

\* The orders that were placed on this wallet, the deposits it received and the
\* adjustments that were answered as made.
PlacedOn(w)   == {o \in Orders : WalletOf[o] = w /\ method[o] # "NONE"}
ReceivedBy(w) == {d \in Deposits : WalletOf[d] = w /\ deposit[d] = "CONFIRMED"}
MadeTo(w)     == {a \in Adjustments : WalletOf[a] = w /\ adjustment[a].phase = "posted"}

OutstandingOn(w) ==
    SumFunctionOnSet([o \in Orders |-> Outstanding(o)], PlacedOn(w))

\* The spent total of the row follows the ledger: it is what the orders of
\* the wallet cost that are charged and not given back, whatever order of
\* charges, refunds and repeated refunds led there (post_wallet_entry).
TotalSpentIsOutstanding ==
    \A w \in Wallets : wallet[w].total_spent = OutstandingOn(w)

\* No money appears or is lost: a wallet holds what its confirmed deposits and
\* its adjustments brought less what its orders are charged, whichever of them
\* were retried, repeated or came late, as long as none of the adjustments was
\* overtaken between the reading of the wallet and the posting.
MoneyIsConserved ==
    \A w \in Wallets :
        (\A i \in DOMAIN ledger[w] : ~Overtaken(w, i))
           => wallet[w].available_balance
                 = SumFunctionOnSet(Amount, ReceivedBy(w))
                     + SumFunctionOnSet(Amount, MadeTo(w)) - OutstandingOn(w)
=============================================================================
