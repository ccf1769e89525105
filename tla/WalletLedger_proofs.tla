------------------------ MODULE WalletLedger_proofs ------------------------
(***************************************************************************)
(* Every invariant of WalletLedger, for any wallets, orders, deposits and  *)
(* adjustments and for any bound on the payment attempts.  What an entry   *)
(* does to the ledger is stated once (PostEffect); the inductive invariant *)
(* is then checked action by action.  The totals are sums over the orders  *)
(* and deposits of a wallet: a second invariant, inductive relative to the  *)
(* first, follows them with the lemmas of SumLemmas_proofs.                *)
(***************************************************************************)
EXTENDS WalletLedger, SumLemmas_proofs, TLAPS

\* Before an order is placed nothing was charged for it.
UnplacedIsUncharged ==
    \A o \in Orders : method[o] = "NONE" =>
        /\ attempt[o] = 0 /\ ~refunded[o]
        /\ \A n \in Nat : ~Paid(o, n)

\* OneOutstandingCharge without the bound on the attempts.
ChargesFollowAttempts ==
    \A o \in Orders, n \in Nat \ {0} :
        /\ Paid(o, n) <=> n <= attempt[o]
        /\ Returned(o, n) <=> \/ n < attempt[o]
                              \/ n = attempt[o] /\ refunded[o]

\* What is left of it when an order object that is out of date may be charged
\* or given back: the attempt the row names was charged, and only a charge is
\* given back.
RefundsAreOfCharges ==
    \A o \in Orders :
        /\ attempt[o] # 0 => Paid(o, attempt[o])
        /\ \A n \in Nat : Returned(o, n) => Paid(o, n)

\* An adjustment is answered as made exactly when its entry is there; and while
\* no entry was posted to the wallet since, what it loaded is the balance.
FollowsLedger(a) ==
    LET w == WalletOf[a] IN
    /\ \A v \in Wallets : Posted(v, <<a, "adjust", 0>>)
                              <=> v = w /\ adjustment[a].phase = "posted"
    /\ adjustment[a].phase = "loaded" =>
          /\ adjustment[a].seen <= Len(ledger[w])
          /\ adjustment[a].seen = Len(ledger[w]) =>
                adjustment[a].balance = wallet[w].available_balance

AdjustmentsFollowLedger == \A a \in Adjustments : FollowsLedger(a)

LedgerInv ==
    /\ WalletTypeOK
    /\ LedgerBacksBalance
    /\ UnplacedIsUncharged
    /\ RefundsAreOfCharges
    /\ ConfirmedIffCredited
    /\ AdjustmentsFollowLedger

WalletInv == LedgerInv /\ ChargesFollowAttempts

\* A charge and a refund asked for by an order object whose
\* balance_payment_attempt n is not the row's any more, as two retries of one
\* order at once can lead to: the charge may be one that was made before.
ChargeStale(o, n) ==
    /\ method[o] = "WALLET_BALANCE"
    /\ n < MaxAttempt
    /\ DebitOrderBalance(o, n)
    /\ UNCHANGED <<method, deposit, adjustment>>

GiveBackStale(o, n) ==
    /\ Paid(o, n)
    /\ Refundable(o, n, FALSE)
    /\ RefundOrderBalance(o, n, FALSE)
    /\ UNCHANGED <<method, deposit, adjustment>>

StaleWalletNext ==
    \/ \E o \in Orders : \E m \in Methods : PlaceOrder(o, m)
    \/ \E o \in Orders, n \in Nat : ChargeStale(o, n) \/ GiveBackStale(o, n)
    \/ WalletMove

StaleWalletSpec == WalletInit /\ [][StaleWalletNext]_walletVars

\* An amount that post_wallet_entry is called with for this kind of entry.
Admissible(kind, delta) ==
    /\ delta \in Int
    /\ kind = "payment" => delta < 0
    /\ kind = "credit" => delta > 0
    /\ kind = "refund" => delta > 0

----------------------------------------------------------------------------

LEMMA SettleType ==
    ASSUME NEW row \in Row, NEW kind \in Kinds, NEW delta, NEW balance \in Nat,
           Admissible(kind, delta)
    PROVE  /\ Settle(row, kind, delta, balance) \in Row
           /\ Settle(row, kind, delta, balance).available_balance = balance
BY DEF Settle, Row, Kinds, Admissible

\* What post_wallet_entry is called with: a balance that is the row's, or that
\* an adjustment loaded before other entries were posted.
Sourced(w, key, balance) ==
    \/ balance = wallet[w].available_balance
    \/ \E a \in Adjustments : key = <<a, "adjust", 0>>
                              /\ adjustment[a].seen < Len(ledger[w])

\* An adjustment of w was overtaken.
Spoiled(w) == \E i \in DOMAIN ledger[w] : Overtaken(w, i)

\* What post_wallet_entry does to the two tables: afterwards the key is in the
\* ledger of w, no other key has come or gone, and the balance of every wallet
\* stays the one its ledger ends with.
LEMMA PostEffect ==
    ASSUME wallet \in [Wallets -> Row],
           ledger \in [Wallets -> Seq(Entry)],
           adjustment \in [Adjustments -> AdjustmentRow],
           NEW w \in Wallets, NEW key \in Keys, NEW delta, NEW balance \in Nat,
           Admissible(key[2], delta),
           PostWalletEntry(w, key, delta, balance),
           \A a \in Adjustments : adjustment'[a].seen = adjustment[a].seen
    PROVE  /\ wallet' \in [Wallets -> Row]
           /\ ledger' \in [Wallets -> Seq(Entry)]
           /\ \A v \in Wallets : \A k :
                 Posted(v, k)' <=> Posted(v, k) \/ (v = w /\ k = key)
           /\ LedgerBacksBalance /\ Sourced(w, key, balance) => LedgerBacksBalance'
           /\ \A v \in Wallets : Spoiled(v) => Spoiled(v)'
           /\ \/ Posted(w, key)
              \/ \A a \in Adjustments :
                    key = <<a, "adjust", 0>> /\ adjustment[a].seen < Len(ledger[w])
                       => Spoiled(w)'
           /\ \A v \in Wallets :
                 \/ ledger'[v] = ledger[v] /\ wallet'[v] = wallet[v]
                 \/ Len(ledger'[v]) = Len(ledger[v]) + 1
<1>1. CASE Posted(w, key)
  <2>1. UNCHANGED ledgerVars
    BY <1>1 DEF PostWalletEntry
  <2> QED
    BY <1>1, <2>1 DEF ledgerVars, Posted, LedgerBacksBalance, BalanceBefore,
                      Overtaken, Spoiled
<1>2. CASE ~Posted(w, key)
  <2> DEFINE e == [key |-> key, amount |-> delta,
                   balance_after |-> balance + delta]
             s == ledger[w]
             t == Append(s, e)
  <2>1. /\ balance + delta \in Nat
        /\ wallet' = [wallet EXCEPT ![w] =
                        Settle(wallet[w], key[2], delta, balance + delta)]
        /\ ledger' = [ledger EXCEPT ![w] = t]
    BY <1>2 DEF PostWalletEntry, Admissible
  <2>2. key[2] \in Kinds
    BY DEF Keys
  <2>3. /\ wallet' \in [Wallets -> Row]
        /\ wallet'[w].available_balance = balance + delta
        /\ \A v \in Wallets : v # w => wallet'[v] = wallet[v]
    BY <2>1, <2>2, SettleType
  <2>4. e \in Entry
    BY <2>1 DEF Entry, Admissible
  <2>5. /\ s \in Seq(Entry) /\ Len(s) \in Nat
        /\ t \in Seq(Entry) /\ Len(t) = Len(s) + 1
        /\ DOMAIN s = 1..Len(s) /\ DOMAIN t = 1..(Len(s) + 1)
        /\ \A i \in 1..Len(s) : t[i] = s[i]
        /\ t[Len(s) + 1] = e
    BY <2>4
  <2> HIDE DEF t
  <2>6. /\ ledger' \in [Wallets -> Seq(Entry)]
        /\ ledger'[w] = t
        /\ \A v \in Wallets : v # w => ledger'[v] = ledger[v]
    BY <2>1, <2>5
  <2>7. ASSUME NEW v \in Wallets, NEW k
        PROVE  Posted(v, k)' <=> Posted(v, k) \/ (v = w /\ k = key)
    <3>1. CASE v # w
      BY <3>1, <2>6 DEF Posted
    <3>2. CASE v = w
      <4>1. Posted(v, k)' <=> \E i \in 1..(Len(s) + 1) : t[i].key = k
        BY <3>2, <2>5, <2>6 DEF Posted
      <4>2. Posted(v, k) <=> \E i \in 1..Len(s) : s[i].key = k
        BY <3>2, <2>5 DEF Posted
      <4>3. \A i \in 1..(Len(s) + 1) : i \in 1..Len(s) \/ i = Len(s) + 1
        BY <2>5
      <4>4. \A i \in 1..Len(s) : i \in 1..(Len(s) + 1)
        BY <2>5
      <4>5. Len(s) + 1 \in 1..(Len(s) + 1)
        BY <2>5
      <4>6. e.key = key
        OBVIOUS
      <4> HIDE DEF e, s
      <4> QED
        BY <3>2, <4>1, <4>2, <4>3, <4>4, <4>5, <4>6, <2>5
    <3> QED
      BY <3>1, <3>2
  <2>8. ASSUME NEW v \in Wallets, NEW i \in DOMAIN ledger[v]
        PROVE  i \in DOMAIN ledger'[v] /\ (Overtaken(v, i)' <=> Overtaken(v, i))
    <3>1. i \in DOMAIN ledger'[v] /\ ledger'[v][i] = ledger[v][i]
      <4>1. CASE v # w
        BY <4>1, <2>6
      <4>2. CASE v = w
        <5>1. i \in 1..Len(s) /\ i \in 1..(Len(s) + 1)
          BY <4>2, <2>5
        <5> QED
          BY <4>2, <5>1, <2>5, <2>6
      <4> QED
        BY <4>1, <4>2
    <3> QED
      BY <3>1 DEF Overtaken
  <2>9. ASSUME LedgerBacksBalance, Sourced(w, key, balance)
        PROVE  LedgerBacksBalance'
    <3> SUFFICES ASSUME NEW v \in Wallets
                 PROVE  /\ wallet'[v].available_balance
                             = BalanceBefore(v, Len(ledger[v]) + 1)'
                        /\ \A i \in DOMAIN ledger'[v] :
                              ~Overtaken(v, i)' =>
                                 ledger'[v][i].balance_after
                                   = BalanceBefore(v, i)'
                                       + ledger'[v][i].amount
      BY DEF LedgerBacksBalance
    <3>1. CASE v # w
      BY <3>1, <2>3, <2>6, <2>8, <2>9 DEF LedgerBacksBalance, BalanceBefore
    <3>2. CASE v = w
      <4>1. BalanceBefore(w, Len(ledger[w]) + 1)' = balance + delta
        BY <2>5, <2>6 DEF BalanceBefore
      <4>2. \A i \in 1..(Len(s) + 1) :
               BalanceBefore(w, i)' = BalanceBefore(w, i)
        BY <2>5, <2>6 DEF BalanceBefore
      <4>3. ASSUME NEW i \in 1..(Len(s) + 1), ~Overtaken(w, i)'
            PROVE  t[i].balance_after = BalanceBefore(w, i) + t[i].amount
        <5>1. CASE i \in 1..Len(s)
          <6>1. t[i] = s[i] /\ i \in DOMAIN s /\ ~Overtaken(w, i)
            BY <4>3, <5>1, <2>5, <2>8
          <6>2. \A k \in DOMAIN s : ~Overtaken(w, k) =>
                   s[k].balance_after = BalanceBefore(w, k) + s[k].amount
            BY <2>9 DEF LedgerBacksBalance
          <6> HIDE DEF s
          <6> QED
            BY <6>1, <6>2
        <5>2. CASE i = Len(s) + 1
          <6>1. t[i].key = key /\ ledger'[w][i] = t[i]
            BY <5>2, <2>5, <2>6
          <6>2. \A a \in Adjustments : adjustment[a].seen \in Nat
            BY DEF AdjustmentRow
          <6>3. ASSUME NEW a \in Adjustments, key = <<a, "adjust", 0>>,
                       adjustment[a].seen < Len(s)
                PROVE  FALSE
            BY <4>3, <5>2, <6>1, <6>2, <6>3, <2>5 DEF Overtaken
          <6>4. balance = wallet[w].available_balance
            BY <6>3, <2>9 DEF Sourced
          <6> QED
            BY <5>2, <6>4, <2>5, <2>9 DEF LedgerBacksBalance
        <5> QED
          BY <5>1, <5>2, <2>5
      <4> QED
        BY <3>2, <4>1, <4>2, <4>3, <2>3, <2>5, <2>6
    <3> QED
      BY <3>1, <3>2
  <2>a. \A v \in Wallets : Spoiled(v) => Spoiled(v)'
    BY <2>8 DEF Spoiled
  <2>b. ASSUME NEW a \in Adjustments, key = <<a, "adjust", 0>>,
               adjustment[a].seen < Len(ledger[w])
        PROVE  Spoiled(w)'
    <3>1. /\ Len(s) + 1 \in DOMAIN ledger'[w]
          /\ ledger'[w][Len(s) + 1].key = <<a, "adjust", 0>>
      BY <2>b, <2>5, <2>6
    <3>2. adjustment'[a].seen < (Len(s) + 1) - 1
      BY <2>b, <2>5
    <3> QED
      BY <3>1, <3>2 DEF Spoiled, Overtaken
  <2>c. \A v \in Wallets : \/ ledger'[v] = ledger[v] /\ wallet'[v] = wallet[v]
                           \/ Len(ledger'[v]) = Len(ledger[v]) + 1
    BY <2>3, <2>5, <2>6
  <2> QED
    BY <2>3, <2>6, <2>7, <2>9, <2>a, <2>b, <2>c
<1> QED
  BY <1>1, <1>2

----------------------------------------------------------------------------

\* An entry of another key leaves an adjustment in step with the ledger: what it
\* loaded is the balance still, or is known not to be.
LEMMA StillFollows ==
    ASSUME LedgerAssumption, LedgerInv, NEW a \in Adjustments,
           adjustment'[a] = adjustment[a],
           \A v \in Wallets :
              Posted(v, <<a, "adjust", 0>>)' <=> Posted(v, <<a, "adjust", 0>>),
           \A v \in Wallets : \/ ledger'[v] = ledger[v] /\ wallet'[v] = wallet[v]
                              \/ Len(ledger'[v]) = Len(ledger[v]) + 1
    PROVE  FollowsLedger(a)'
<1> DEFINE v == WalletOf[a]
<1>1. v \in Wallets /\ Len(ledger[v]) \in Nat /\ adjustment[a].seen \in Nat
  BY DEF LedgerAssumption, Movers, LedgerInv, WalletTypeOK, AdjustmentRow
<1>2. \A u \in Wallets : Posted(u, <<a, "adjust", 0>>)' <=> Posted(u, <<a, "adjust", 0>>)
  OBVIOUS
<1>3. FollowsLedger(a)
  BY DEF LedgerInv, AdjustmentsFollowLedger
<1>4. CASE ledger'[v] = ledger[v] /\ wallet'[v] = wallet[v]
  BY <1>2, <1>3, <1>4 DEF FollowsLedger
<1>5. CASE Len(ledger'[v]) = Len(ledger[v]) + 1
  BY <1>1, <1>2, <1>3, <1>5 DEF FollowsLedger
<1> QED
  BY <1>1, <1>4, <1>5

\* An entry posted from the locked row keeps the ledger in order.
LEMMA LockedEffect ==
    ASSUME LedgerAssumption, LedgerInv, NEW w \in Wallets, NEW key \in Keys,
           NEW delta, Admissible(key[2], delta), key[2] # "adjust",
           PostLocked(w, key, delta), UNCHANGED adjustment
    PROVE  /\ wallet' \in [Wallets -> Row]
           /\ ledger' \in [Wallets -> Seq(Entry)]
           /\ \A v \in Wallets : \A k :
                 Posted(v, k)' <=> Posted(v, k) \/ (v = w /\ k = key)
           /\ LedgerBacksBalance'
           /\ AdjustmentsFollowLedger'
           /\ \A v \in Wallets : Spoiled(v) => Spoiled(v)'
<1>1. wallet[w].available_balance \in Nat
  BY DEF LedgerInv, WalletTypeOK, Row
<1>2. /\ PostWalletEntry(w, key, delta, wallet[w].available_balance)
      /\ Sourced(w, key, wallet[w].available_balance)
  BY DEF PostLocked, Sourced
<1>3. /\ wallet' \in [Wallets -> Row]
      /\ ledger' \in [Wallets -> Seq(Entry)]
      /\ \A v \in Wallets : \A k :
            Posted(v, k)' <=> Posted(v, k) \/ (v = w /\ k = key)
      /\ LedgerBacksBalance'
      /\ \A v \in Wallets : Spoiled(v) => Spoiled(v)'
      /\ \A v \in Wallets : \/ ledger'[v] = ledger[v] /\ wallet'[v] = wallet[v]
                            \/ Len(ledger'[v]) = Len(ledger[v]) + 1
  BY <1>1, <1>2, PostEffect DEF LedgerInv, WalletTypeOK
<1>4. \A a \in Adjustments : key # <<a, "adjust", 0>> /\ adjustment'[a] = adjustment[a]
  OBVIOUS
<1>5. AdjustmentsFollowLedger'
  <2> SUFFICES ASSUME NEW a \in Adjustments
               PROVE  FollowsLedger(a)'
    BY DEF AdjustmentsFollowLedger
  <2>1. adjustment'[a] = adjustment[a] /\ key # <<a, "adjust", 0>>
    BY <1>4
  <2>2. \A v \in Wallets :
           Posted(v, <<a, "adjust", 0>>)' <=> Posted(v, <<a, "adjust", 0>>)
    BY <1>3, <2>1
  <2>3. \A v \in Wallets : \/ ledger'[v] = ledger[v] /\ wallet'[v] = wallet[v]
                           \/ Len(ledger'[v]) = Len(ledger[v]) + 1
    BY <1>3
  <2> QED
    BY <2>1, <2>2, <2>3, StillFollows
<1> QED
  BY <1>3, <1>5

\* A charge is the one after the attempt that the order object holds, once.
LEMMA DebitEffect ==
    ASSUME LedgerAssumption, LedgerInv, NEW o \in Orders, NEW n \in Nat,
           DebitOrderBalance(o, n), UNCHANGED adjustment
    PROVE  /\ wallet' \in [Wallets -> Row]
           /\ ledger' \in [Wallets -> Seq(Entry)]
           /\ attempt' \in [Orders -> Nat]
           /\ refunded' \in [Orders -> BOOLEAN]
           /\ LedgerBacksBalance' /\ AdjustmentsFollowLedger'
           /\ \A v \in Wallets : Spoiled(v) => Spoiled(v)'
           /\ attempt'[o] = n + 1 /\ ~refunded'[o]
           /\ \A p \in Orders : p # o => /\ attempt'[p] = attempt[p]
                                          /\ refunded'[p] = refunded[p]
           /\ \A p \in Orders, k \in Nat :
                 /\ Paid(p, k)' <=> Paid(p, k) \/ (p = o /\ k = n + 1)
                 /\ Returned(p, k)' <=> Returned(p, k)
           /\ \A d \in Deposits : Posted(WalletOf[d], <<d, "credit", 0>>)'
                                 <=> Posted(WalletOf[d], <<d, "credit", 0>>)
<1> DEFINE key == <<o, "payment", n + 1>>
<1>1. attempt \in [Orders -> Nat] /\ refunded \in [Orders -> BOOLEAN]
  BY DEF LedgerInv, WalletTypeOK
<1>2. /\ attempt' = [attempt EXCEPT ![o] = n + 1]
      /\ refunded' = [refunded EXCEPT ![o] = FALSE]
      /\ PostLocked(WalletOf[o], key, -Amount[o])
  BY DEF DebitOrderBalance
<1>3. /\ key \in Keys /\ Admissible(key[2], -Amount[o]) /\ WalletOf[o] \in Wallets
      /\ key[2] # "adjust"
  BY <1>1 DEF Keys, Movers, Kinds, Admissible, LedgerAssumption
<1>4. /\ wallet' \in [Wallets -> Row]
      /\ ledger' \in [Wallets -> Seq(Entry)]
      /\ \A v \in Wallets : \A k :
            Posted(v, k)' <=> Posted(v, k) \/ (v = WalletOf[o] /\ k = key)
      /\ LedgerBacksBalance' /\ AdjustmentsFollowLedger'
      /\ \A v \in Wallets : Spoiled(v) => Spoiled(v)'
  BY <1>2, <1>3, LockedEffect
<1>5. ASSUME NEW p \in Orders, NEW k \in Nat
      PROVE  /\ Paid(p, k)' <=> Paid(p, k) \/ (p = o /\ k = n + 1)
             /\ Returned(p, k)' <=> Returned(p, k)
  <2>1. WalletOf[p] \in Wallets
    BY DEF LedgerAssumption, Movers
  <2> QED
    BY <1>4, <2>1 DEF Paid, Returned
<1>6. \A d \in Deposits : Posted(WalletOf[d], <<d, "credit", 0>>)'
                         <=> Posted(WalletOf[d], <<d, "credit", 0>>)
  BY <1>4 DEF LedgerAssumption, Movers
<1>7. /\ attempt' \in [Orders -> Nat]
      /\ refunded' \in [Orders -> BOOLEAN]
      /\ attempt'[o] = n + 1 /\ ~refunded'[o]
      /\ \A p \in Orders : p # o => /\ attempt'[p] = attempt[p]
                                     /\ refunded'[p] = refunded[p]
  BY <1>1, <1>2
<1> QED
  BY <1>4, <1>5, <1>6, <1>7

\* A refund gives back the attempt that the order object holds, once.
LEMMA RefundEffect ==
    ASSUME LedgerAssumption, LedgerInv, NEW o \in Orders, NEW n \in Nat,
           GiveBackStale(o, n)
    PROVE  /\ wallet' \in [Wallets -> Row]
           /\ ledger' \in [Wallets -> Seq(Entry)]
           /\ attempt' = attempt
           /\ refunded' = [refunded EXCEPT ![o] = TRUE]
           /\ refunded' \in [Orders -> BOOLEAN]
           /\ LedgerBacksBalance' /\ AdjustmentsFollowLedger'
           /\ \A v \in Wallets : Spoiled(v) => Spoiled(v)'
           /\ \A p \in Orders, k \in Nat :
                 /\ Paid(p, k)' <=> Paid(p, k)
                 /\ Returned(p, k)' <=> Returned(p, k) \/ (p = o /\ k = n)
           /\ \A d \in Deposits : Posted(WalletOf[d], <<d, "credit", 0>>)'
                                 <=> Posted(WalletOf[d], <<d, "credit", 0>>)
<1> DEFINE key == <<o, "refund", n>>
<1>1. attempt \in [Orders -> Nat] /\ refunded \in [Orders -> BOOLEAN]
  BY DEF LedgerInv, WalletTypeOK
<1>2. /\ attempt' = attempt
      /\ refunded' = [refunded EXCEPT ![o] = TRUE]
      /\ PostLocked(WalletOf[o], key, Amount[o]) /\ UNCHANGED adjustment
  BY DEF GiveBackStale, RefundOrderBalance
<1>3. /\ key \in Keys /\ Admissible(key[2], Amount[o]) /\ WalletOf[o] \in Wallets
      /\ key[2] # "adjust"
  BY <1>1 DEF Keys, Movers, Kinds, Admissible, LedgerAssumption
<1>4. /\ wallet' \in [Wallets -> Row]
      /\ ledger' \in [Wallets -> Seq(Entry)]
      /\ \A v \in Wallets : \A k :
            Posted(v, k)' <=> Posted(v, k) \/ (v = WalletOf[o] /\ k = key)
      /\ LedgerBacksBalance' /\ AdjustmentsFollowLedger'
      /\ \A v \in Wallets : Spoiled(v) => Spoiled(v)'
  BY <1>2, <1>3, LockedEffect
<1>5. ASSUME NEW p \in Orders, NEW k \in Nat
      PROVE  /\ Paid(p, k)' <=> Paid(p, k)
             /\ Returned(p, k)' <=> Returned(p, k) \/ (p = o /\ k = n)
  <2>1. WalletOf[p] \in Wallets
    BY DEF LedgerAssumption, Movers
  <2> QED
    BY <1>4, <2>1 DEF Paid, Returned
<1>6. \A d \in Deposits : Posted(WalletOf[d], <<d, "credit", 0>>)'
                         <=> Posted(WalletOf[d], <<d, "credit", 0>>)
  BY <1>4 DEF LedgerAssumption, Movers
<1>7. refunded' \in [Orders -> BOOLEAN]
  BY <1>1, <1>2
<1> QED
  BY <1>2, <1>4, <1>5, <1>6, <1>7

----------------------------------------------------------------------------
(* The invariant of the ledger, under any refund of an earlier charge too.  *)

LEMMA LedgerInvInit ==
    ASSUME LedgerAssumption, WalletInit
    PROVE  LedgerInv /\ ChargesFollowAttempts
<1>1. WalletTypeOK
  BY DEF WalletInit, WalletTypeOK, Row, AdjustmentRow
<1>2. /\ \A w \in Wallets : ledger[w] = <<>> /\ DOMAIN ledger[w] = {}
      /\ \A x \in Movers : WalletOf[x] \in Wallets
  BY DEF WalletInit, LedgerAssumption
<1>3. \A w \in Wallets : \A k : ~Posted(w, k)
  BY <1>2 DEF Posted
<1>4. LedgerBacksBalance
  BY <1>2 DEF WalletInit, LedgerBacksBalance, BalanceBefore
<1>5. UnplacedIsUncharged
  BY <1>2, <1>3 DEF WalletInit, UnplacedIsUncharged, Paid, Movers
<1>6. RefundsAreOfCharges /\ ChargesFollowAttempts
  BY <1>2, <1>3 DEF WalletInit, RefundsAreOfCharges, ChargesFollowAttempts, Paid,
                    Returned, Movers
<1>7. ConfirmedIffCredited /\ AdjustmentsFollowLedger
  BY <1>2, <1>3 DEF WalletInit, ConfirmedIffCredited, AdjustmentsFollowLedger,
                    FollowsLedger, Movers
<1> QED
  BY <1>1, <1>4, <1>5, <1>6, <1>7 DEF LedgerInv

\* A step that leaves the wallets and the ledger alone, and what a posted
\* adjustment saw, cannot disturb what is said of them.
LEMMA LedgerUntouched ==
    ASSUME UNCHANGED ledgerVars
    PROVE  \A w, k : Posted(w, k)' <=> Posted(w, k)
BY DEF ledgerVars, Posted

LEMMA BackingUntouched ==
    ASSUME LedgerAssumption, LedgerInv, UNCHANGED ledgerVars,
           \A a \in Adjustments : \/ adjustment'[a].seen = adjustment[a].seen
                                  \/ adjustment[a].phase = "requested"
    PROVE  LedgerBacksBalance' /\ \A v \in Wallets : Spoiled(v)' <=> Spoiled(v)
<1>1. ASSUME NEW v \in Wallets, NEW i \in DOMAIN ledger[v]
      PROVE  Overtaken(v, i)' <=> Overtaken(v, i)
  <2>1. ASSUME NEW a \in Adjustments, ledger[v][i].key = <<a, "adjust", 0>>
        PROVE  adjustment'[a].seen = adjustment[a].seen
    <3>1. Posted(v, <<a, "adjust", 0>>)
      BY <2>1 DEF Posted
    <3>2. adjustment[a].phase = "posted"
      BY <3>1 DEF LedgerInv, AdjustmentsFollowLedger, FollowsLedger
    <3> QED
      BY <3>2
  <2> QED
    BY <2>1 DEF Overtaken, ledgerVars
<1> QED
  BY <1>1 DEF LedgerInv, LedgerBacksBalance, BalanceBefore, Spoiled, ledgerVars

\* Neither does an entry that is no order's payment or refund.
LEMMA OrdersUntouched ==
    ASSUME LedgerAssumption,
           NEW w \in Wallets, NEW key \in Keys,
           key[2] \notin {"payment", "refund"},
           attempt \in [Orders -> Nat],
           \A v \in Wallets : \A k :
              Posted(v, k)' <=> Posted(v, k) \/ (v = w /\ k = key),
           UNCHANGED <<attempt, refunded>>
    PROVE  /\ RefundsAreOfCharges => RefundsAreOfCharges'
           /\ ChargesFollowAttempts => ChargesFollowAttempts'
           /\ \A o \in Orders, n \in Nat : /\ Paid(o, n)' <=> Paid(o, n)
                                           /\ Returned(o, n)' <=> Returned(o, n)
<1>1. ASSUME NEW o \in Orders, NEW n \in Nat
      PROVE  /\ Paid(o, n)' <=> Paid(o, n)
             /\ Returned(o, n)' <=> Returned(o, n)
  <2>1. WalletOf[o] \in Wallets
    BY DEF LedgerAssumption, Movers
  <2>2. /\ <<o, "payment", n>> # key
        /\ <<o, "refund", n>> # key
    OBVIOUS
  <2> QED
    BY <2>1, <2>2 DEF Paid, Returned
<1> QED
  BY <1>1 DEF RefundsAreOfCharges, ChargesFollowAttempts

\* A credit or an adjustment of any wallet, with what it leaves alone.
LEMMA CreditEffect ==
    ASSUME LedgerAssumption, LedgerInv, NEW d \in Deposits, CreditDeposit(d)
    PROVE  /\ wallet' \in [Wallets -> Row]
           /\ ledger' \in [Wallets -> Seq(Entry)]
           /\ UNCHANGED <<method, attempt, refunded, adjustment>>
           /\ LedgerBacksBalance' /\ ConfirmedIffCredited'
           /\ AdjustmentsFollowLedger'
           /\ \A v \in Wallets : Spoiled(v) => Spoiled(v)'
           /\ RefundsAreOfCharges'
           /\ ChargesFollowAttempts => ChargesFollowAttempts'
           /\ \A o \in Orders, n \in Nat : /\ Paid(o, n)' <=> Paid(o, n)
                                           /\ Returned(o, n)' <=> Returned(o, n)
<1> USE DEF LedgerInv
<1> DEFINE key == <<d, "credit", 0>>
<1>1. /\ deposit' = [deposit EXCEPT ![d] = "CONFIRMED"]
      /\ PostLocked(WalletOf[d], key, Amount[d])
      /\ UNCHANGED <<method, attempt, refunded, adjustment>>
  BY DEF CreditDeposit, chargeVars
<1>2. /\ key \in Keys /\ Admissible(key[2], Amount[d]) /\ key[2] # "adjust"
      /\ \A x \in Movers : WalletOf[x] \in Wallets
  BY DEF Keys, Movers, Kinds, Admissible, LedgerAssumption
<1>3. /\ wallet' \in [Wallets -> Row]
      /\ ledger' \in [Wallets -> Seq(Entry)]
      /\ \A v \in Wallets : \A k :
            Posted(v, k)' <=> Posted(v, k) \/ (v = WalletOf[d] /\ k = key)
      /\ LedgerBacksBalance' /\ AdjustmentsFollowLedger'
      /\ \A v \in Wallets : Spoiled(v) => Spoiled(v)'
  BY <1>1, <1>2, LockedEffect DEF Movers
<1>4. /\ RefundsAreOfCharges'
      /\ ChargesFollowAttempts => ChargesFollowAttempts'
      /\ \A o \in Orders, n \in Nat : /\ Paid(o, n)' <=> Paid(o, n)
                                      /\ Returned(o, n)' <=> Returned(o, n)
  <2>1. key[2] \notin {"payment", "refund"} /\ WalletOf[d] \in Wallets
    BY <1>2 DEF Movers
  <2>2. UNCHANGED <<attempt, refunded>> /\ attempt \in [Orders -> Nat]
    BY <1>1 DEF WalletTypeOK
  <2>3. \A v \in Wallets : \A k :
           Posted(v, k)' <=> Posted(v, k) \/ (v = WalletOf[d] /\ k = key)
    BY <1>3
  <2> HIDE DEF key
  <2> QED
    BY <1>2, <2>1, <2>2, <2>3, OrdersUntouched, LedgerAssumption
<1>5. ConfirmedIffCredited'
  <2> SUFFICES ASSUME NEW c \in Deposits
               PROVE  deposit'[c] = "CONFIRMED"
                         <=> Posted(WalletOf[c], <<c, "credit", 0>>)'
    BY DEF ConfirmedIffCredited
  <2>1. Posted(WalletOf[c], <<c, "credit", 0>>)'
          <=> Posted(WalletOf[c], <<c, "credit", 0>>) \/ c = d
    BY <1>2, <1>3 DEF Movers
  <2>2. deposit'[c] = "CONFIRMED" <=> deposit[c] = "CONFIRMED" \/ c = d
    BY <1>1 DEF WalletTypeOK
  <2> QED
    BY <2>1, <2>2 DEF ConfirmedIffCredited
<1> QED
  BY <1>1, <1>3, <1>4, <1>5

LEMMA AdjustEffect ==
    ASSUME LedgerAssumption, LedgerInv, NEW a \in Adjustments, AdjustPost(a)
    PROVE  /\ wallet' \in [Wallets -> Row]
           /\ ledger' \in [Wallets -> Seq(Entry)]
           /\ UNCHANGED <<method, attempt, refunded, deposit>>
           /\ LedgerBacksBalance' /\ ConfirmedIffCredited'
           /\ AdjustmentsFollowLedger'
           /\ \A v \in Wallets : Spoiled(v) => Spoiled(v)'
           /\ Spoiled(WalletOf[a])'
                \/ adjustment[a].balance = wallet[WalletOf[a]].available_balance
           /\ ~Posted(WalletOf[a], <<a, "adjust", 0>>)
           /\ RefundsAreOfCharges'
           /\ ChargesFollowAttempts => ChargesFollowAttempts'
           /\ \A o \in Orders, n \in Nat : /\ Paid(o, n)' <=> Paid(o, n)
                                           /\ Returned(o, n)' <=> Returned(o, n)
<1> USE DEF LedgerInv
<1> DEFINE key == <<a, "adjust", 0>>
           w == WalletOf[a]
<1>1. /\ PostWalletEntry(w, key, Amount[a], adjustment[a].balance)
      /\ UNCHANGED <<method, attempt, refunded, deposit>>
      /\ adjustment[a].phase = "loaded"
      /\ adjustment' = [adjustment EXCEPT ![a].phase = "posted"]
  BY DEF AdjustPost, chargeVars
<1>2. /\ key \in Keys /\ Admissible(key[2], Amount[a])
      /\ key[2] = "adjust" /\ adjustment[a].balance \in Nat
      /\ \A x \in Movers : WalletOf[x] \in Wallets
  BY DEF Keys, Movers, Kinds, Admissible, LedgerAssumption, WalletTypeOK, AdjustmentRow
<1>3. /\ adjustment'[a].phase = "posted"
      /\ \A b \in Adjustments : /\ adjustment'[b].seen = adjustment[b].seen
                                /\ b # a => adjustment'[b] = adjustment[b]
  BY <1>1 DEF WalletTypeOK, AdjustmentRow
<1>4. /\ wallet \in [Wallets -> Row]
      /\ ledger \in [Wallets -> Seq(Entry)]
      /\ adjustment \in [Adjustments -> AdjustmentRow]
      /\ w \in Wallets
  BY <1>2 DEF Movers, WalletTypeOK
<1>5. /\ ~Posted(w, key)
      /\ \/ adjustment[a].balance = wallet[w].available_balance
         \/ adjustment[a].seen < Len(ledger[w])
  <2>1. FollowsLedger(a) /\ adjustment[a].seen \in Nat /\ Len(ledger[w]) \in Nat
    BY <1>4 DEF AdjustmentsFollowLedger, AdjustmentRow
  <2>2. /\ adjustment[a].phase # "posted"
        /\ adjustment[a].phase = "loaded"
    BY <1>1
  <2>3. ~Posted(w, key)
    BY <1>4, <2>1, <2>2 DEF FollowsLedger
  <2> HIDE DEF key, LedgerInv
  <2> QED
    BY <1>4, <2>1, <2>2, <2>3 DEF FollowsLedger
<1>6. Sourced(w, key, adjustment[a].balance)
  BY <1>5 DEF Sourced
<1>7. /\ wallet' \in [Wallets -> Row]
      /\ ledger' \in [Wallets -> Seq(Entry)]
      /\ \A v \in Wallets : \A k :
            Posted(v, k)' <=> Posted(v, k) \/ (v = w /\ k = key)
      /\ LedgerBacksBalance'
      /\ \A v \in Wallets : Spoiled(v) => Spoiled(v)'
      /\ adjustment[a].seen < Len(ledger[w]) => Spoiled(w)'
      /\ \A v \in Wallets : \/ ledger'[v] = ledger[v] /\ wallet'[v] = wallet[v]
                            \/ Len(ledger'[v]) = Len(ledger[v]) + 1
  <2>1. LedgerBacksBalance /\ LedgerInv
    OBVIOUS
  <2>2. \A b \in Adjustments : key = <<b, "adjust", 0>> <=> b = a
    OBVIOUS
  <2> HIDE DEF key, w, LedgerInv
  <2> QED
    BY <1>1, <1>2, <1>3, <1>4, <1>5, <1>6, <2>1, <2>2, PostEffect
<1>8. Spoiled(w)' \/ adjustment[a].balance = wallet[w].available_balance
  BY <1>5, <1>7
<1>9. AdjustmentsFollowLedger'
  <2>1. ASSUME NEW b \in Adjustments, b # a
        PROVE  FollowsLedger(b)'
    <3>1. key # <<b, "adjust", 0>> /\ adjustment'[b] = adjustment[b]
      BY <1>3, <2>1
    <3>2. LedgerInv
      OBVIOUS
    <3> HIDE DEF key, w, LedgerInv
    <3>3. \A v \in Wallets :
             Posted(v, <<b, "adjust", 0>>)' <=> Posted(v, <<b, "adjust", 0>>)
      BY <1>7, <3>1
    <3>4. \A v \in Wallets : \/ ledger'[v] = ledger[v] /\ wallet'[v] = wallet[v]
                             \/ Len(ledger'[v]) = Len(ledger[v]) + 1
      BY <1>7
    <3> QED
      BY <3>1, <3>2, <3>3, <3>4, StillFollows
  <2>2. FollowsLedger(a)'
    BY <1>3, <1>4, <1>7 DEF FollowsLedger, AdjustmentsFollowLedger
  <2> QED
    BY <2>1, <2>2 DEF AdjustmentsFollowLedger
<1>a. /\ RefundsAreOfCharges'
      /\ ChargesFollowAttempts => ChargesFollowAttempts'
      /\ \A o \in Orders, n \in Nat : /\ Paid(o, n)' <=> Paid(o, n)
                                      /\ Returned(o, n)' <=> Returned(o, n)
  <2>1. key[2] \notin {"payment", "refund"} /\ w \in Wallets
    BY <1>2, <1>4
  <2>2. UNCHANGED <<attempt, refunded>> /\ attempt \in [Orders -> Nat]
    BY <1>1 DEF WalletTypeOK
  <2>3. \A v \in Wallets : \A k :
           Posted(v, k)' <=> Posted(v, k) \/ (v = w /\ k = key)
    BY <1>7
  <2> HIDE DEF key, w
  <2> QED
    BY <1>2, <2>1, <2>2, <2>3, OrdersUntouched, LedgerAssumption
<1>b. ConfirmedIffCredited'
  <2> SUFFICES ASSUME NEW c \in Deposits
               PROVE  deposit'[c] = "CONFIRMED"
                         <=> Posted(WalletOf[c], <<c, "credit", 0>>)'
    BY DEF ConfirmedIffCredited
  <2>1. <<c, "credit", 0>> # key
    OBVIOUS
  <2> QED
    BY <1>1, <1>2, <1>7, <2>1 DEF ConfirmedIffCredited, Movers
<1> QED
  BY <1>1, <1>5, <1>7, <1>8, <1>9, <1>a, <1>b

\* A placed order is charged for the first time, or again.
LEMMA DebitKeepsLedger ==
    ASSUME LedgerAssumption, LedgerInv, NEW o \in Orders, NEW n \in Nat,
           DebitOrderBalance(o, n),
           method' \in [Orders -> Methods \cup {"NONE"}], method'[o] # "NONE",
           \A p \in Orders : method'[p] = "NONE" => method[p] = "NONE",
           UNCHANGED <<deposit, adjustment>>
    PROVE  /\ LedgerInv'
           /\ /\ n = attempt[o] /\ (attempt[o] = 0 \/ refunded[o])
              /\ ChargesFollowAttempts
              => ChargesFollowAttempts'
<1>1. WalletTypeOK' /\ ConfirmedIffCredited'
  BY DebitEffect DEF LedgerInv, WalletTypeOK, ConfirmedIffCredited
<1>2. UnplacedIsUncharged' /\ RefundsAreOfCharges'
  <2>1. ASSUME NEW p \in Orders, p # o
        PROVE  /\ attempt'[p] = attempt[p] /\ refunded'[p] = refunded[p]
               /\ attempt[p] \in Nat
               /\ \A k \in Nat : Paid(p, k)' <=> Paid(p, k)
    BY <2>1, DebitEffect DEF LedgerInv, WalletTypeOK
  <2>2. attempt'[o] = n + 1 /\ n + 1 \in Nat /\ Paid(o, n + 1)'
    BY DebitEffect
  <2>3. \A p \in Orders, k \in Nat : Returned(p, k)' => Paid(p, k)'
    BY DebitEffect DEF LedgerInv, RefundsAreOfCharges
  <2>4. \A p \in Orders : (attempt[p] # 0 => Paid(p, attempt[p]))'
    BY <2>1, <2>2 DEF LedgerInv, RefundsAreOfCharges
  <2> QED
    BY <2>1, <2>3, <2>4 DEF LedgerInv, UnplacedIsUncharged, RefundsAreOfCharges
<1>3. ASSUME n = attempt[o], attempt[o] = 0 \/ refunded[o], ChargesFollowAttempts,
             NEW p \in Orders, NEW k \in Nat \ {0}
      PROVE  /\ Paid(p, k)' <=> k <= attempt'[p]
             /\ Returned(p, k)' <=> \/ k < attempt'[p]
                                    \/ k = attempt'[p] /\ refunded'[p]
  <2>1. /\ Paid(p, k)' <=> Paid(p, k) \/ (p = o /\ k = attempt[o] + 1)
        /\ Returned(p, k)' <=> Returned(p, k)
    BY <1>3, DebitEffect
  <2>2. /\ Paid(p, k) <=> k <= attempt[p]
        /\ Returned(p, k) <=> \/ k < attempt[p]
                              \/ k = attempt[p] /\ refunded[p]
    BY <1>3 DEF ChargesFollowAttempts
  <2>3. CASE p # o
    <3>1. attempt'[p] = attempt[p] /\ refunded'[p] = refunded[p]
      BY <2>3, DebitEffect
    <3> QED
      BY <2>1, <2>2, <2>3, <3>1
  <2>4. CASE p = o
    <3>1. attempt'[o] = attempt[o] + 1 /\ ~refunded'[o]
      BY <1>3, DebitEffect
    <3> QED
      BY <1>3, <2>1, <2>2, <2>4, <3>1
  <2> QED
    BY <2>3, <2>4
<1>4. /\ n = attempt[o] /\ (attempt[o] = 0 \/ refunded[o]) /\ ChargesFollowAttempts
      => ChargesFollowAttempts'
  BY <1>3 DEF ChargesFollowAttempts
<1> QED
  BY <1>1, <1>2, <1>4, DebitEffect DEF LedgerInv

\* A refund of an earlier charge, or of the last.
LEMMA RefundKeepsLedger ==
    ASSUME LedgerAssumption, LedgerInv, NEW o \in Orders, NEW n \in Nat,
           GiveBackStale(o, n)
    PROVE  /\ LedgerInv'
           /\ n = attempt[o] /\ ChargesFollowAttempts => ChargesFollowAttempts'
<1>1. /\ attempt \in [Orders -> Nat] /\ refunded \in [Orders -> BOOLEAN]
      /\ UNCHANGED <<method, deposit, adjustment>>
      /\ method[o] # "NONE" /\ Paid(o, n)
  BY DEF LedgerInv, WalletTypeOK, GiveBackStale, Refundable
<1>2. WalletTypeOK' /\ UnplacedIsUncharged' /\ ConfirmedIffCredited'
  BY <1>1, RefundEffect
     DEF LedgerInv, WalletTypeOK, UnplacedIsUncharged, ConfirmedIffCredited
<1>3. RefundsAreOfCharges'
  BY <1>1, RefundEffect DEF LedgerInv, RefundsAreOfCharges
<1>4. ASSUME n = attempt[o], ChargesFollowAttempts,
             NEW p \in Orders, NEW k \in Nat \ {0}
      PROVE  /\ Paid(p, k)' <=> k <= attempt'[p]
             /\ Returned(p, k)' <=> \/ k < attempt'[p]
                                    \/ k = attempt'[p] /\ refunded'[p]
  <2>1. /\ Paid(p, k)' <=> Paid(p, k)
        /\ Returned(p, k)' <=> Returned(p, k) \/ (p = o /\ k = n)
        /\ attempt' = attempt /\ refunded' = [refunded EXCEPT ![o] = TRUE]
    BY RefundEffect
  <2>2. /\ Paid(p, k) <=> k <= attempt[p]
        /\ Returned(p, k) <=> \/ k < attempt[p]
                              \/ k = attempt[p] /\ refunded[p]
    BY <1>4 DEF ChargesFollowAttempts
  <2>3. CASE p # o
    BY <1>1, <2>1, <2>2, <2>3
  <2>4. CASE p = o
    BY <1>1, <1>4, <2>1, <2>2, <2>4
  <2> QED
    BY <2>3, <2>4
<1>5. n = attempt[o] /\ ChargesFollowAttempts => ChargesFollowAttempts'
  BY <1>4 DEF ChargesFollowAttempts
<1> QED
  BY <1>2, <1>3, <1>5, RefundEffect DEF LedgerInv

\* A step that touches neither the ledger nor an order's charges.
LEMMA BooksKept ==
    ASSUME LedgerAssumption, LedgerInv, UNCHANGED <<wallet, ledger, attempt, refunded>>,
           method' \in [Orders -> Methods \cup {"NONE"}],
           \A p \in Orders : method'[p] = "NONE" => method[p] = "NONE",
           deposit' \in [Deposits -> {"WAIT_PAY", "TIMEOUT", "CONFIRMED"}],
           \A d \in Deposits : deposit'[d] = "CONFIRMED" <=> deposit[d] = "CONFIRMED",
           adjustment' \in [Adjustments -> AdjustmentRow],
           \A a \in Adjustments : \/ adjustment'[a].seen = adjustment[a].seen
                                  \/ adjustment[a].phase = "requested",
           AdjustmentsFollowLedger'
    PROVE  LedgerInv' /\ (ChargesFollowAttempts => ChargesFollowAttempts')
<1>1. LedgerBacksBalance'
  BY BackingUntouched DEF ledgerVars
<1> QED
  BY <1>1, LedgerUntouched
     DEF ledgerVars, LedgerInv, WalletTypeOK, UnplacedIsUncharged,
         RefundsAreOfCharges, ChargesFollowAttempts, Paid, Returned,
         ConfirmedIffCredited

\* ... nor an adjustment.
LEMMA FollowingUntouched ==
    ASSUME LedgerInv, UNCHANGED ledgerVars, NEW a \in Adjustments,
           adjustment'[a] = adjustment[a]
    PROVE  FollowsLedger(a)'
BY LedgerUntouched DEF ledgerVars, LedgerInv, AdjustmentsFollowLedger, FollowsLedger

LEMMA BooksAndAdjustmentsKept ==
    ASSUME LedgerAssumption, LedgerInv,
           UNCHANGED <<wallet, ledger, attempt, refunded, adjustment>>,
           method' \in [Orders -> Methods \cup {"NONE"}],
           \A p \in Orders : method'[p] = "NONE" => method[p] = "NONE",
           deposit' \in [Deposits -> {"WAIT_PAY", "TIMEOUT", "CONFIRMED"}],
           \A d \in Deposits : deposit'[d] = "CONFIRMED" <=> deposit[d] = "CONFIRMED"
    PROVE  LedgerInv' /\ (ChargesFollowAttempts => ChargesFollowAttempts')
<1>1. AdjustmentsFollowLedger'
  BY FollowingUntouched DEF AdjustmentsFollowLedger, ledgerVars
<1>2. adjustment' \in [Adjustments -> AdjustmentRow]
  BY DEF LedgerInv, WalletTypeOK
<1> QED
  BY <1>1, <1>2, BooksKept

\* The wallet on its own charges and gives back by the row.
LEMMA OwnChargesAreStale ==
    ASSUME LedgerInv, NEW o \in Orders
    PROVE  /\ attempt[o] \in Nat
           /\ ChargeAgain(o) => ChargeStale(o, attempt[o])
           /\ GiveBack(o) => GiveBackStale(o, attempt[o])
<1>1. attempt[o] \in Nat
  BY DEF LedgerInv, WalletTypeOK
<1>2. ChargeAgain(o) => ChargeStale(o, attempt[o])
  BY DEF ChargeAgain, ChargeStale
<1>3. ASSUME GiveBack(o)
      PROVE  GiveBackStale(o, attempt[o])
  <2>1. Paid(o, attempt[o])
    BY <1>1, <1>3 DEF GiveBack, Refundable, LedgerInv, RefundsAreOfCharges
  <2> QED
    BY <1>3, <2>1 DEF GiveBack, GiveBackStale
<1> QED
  BY <1>1, <1>2, <1>3

LEMMA OwnStepsAreStale ==
    ASSUME LedgerInv, [WalletNext]_walletVars
    PROVE  [StaleWalletNext]_walletVars
BY OwnChargesAreStale DEF WalletNext, StaleWalletNext

\* One action at a time: the ledger stays in order, and when no charge but the
\* last of an order is given back, the order's row tells which are outstanding.
LEMMA LedgerInvStep ==
    ASSUME LedgerAssumption, LedgerInv, [StaleWalletNext]_walletVars
    PROVE  /\ LedgerInv'
           /\ [WalletNext]_walletVars /\ ChargesFollowAttempts
                 => ChargesFollowAttempts'
<1> DEFINE Goal == LedgerInv' /\ (ChargesFollowAttempts => ChargesFollowAttempts')
<1>0. /\ method \in [Orders -> Methods \cup {"NONE"}]
      /\ deposit \in [Deposits -> {"WAIT_PAY", "TIMEOUT", "CONFIRMED"}]
      /\ adjustment \in [Adjustments -> AdjustmentRow]
      /\ wallet \in [Wallets -> Row]
  BY DEF LedgerInv, WalletTypeOK
<1>1. ASSUME NEW o \in Orders, NEW m \in Methods, PlaceOrder(o, m)
      PROVE  Goal
  <2>1. /\ attempt[o] = 0 /\ ~refunded[o]
        /\ method' = [method EXCEPT ![o] = m]
        /\ UNCHANGED <<deposit, adjustment>>
    BY <1>1 DEF PlaceOrder, LedgerInv, UnplacedIsUncharged
  <2>2. /\ method' \in [Orders -> Methods \cup {"NONE"}] /\ method'[o] # "NONE"
        /\ \A p \in Orders : method'[p] = "NONE" => method[p] = "NONE"
    BY <1>0, <2>1 DEF Methods
  <2>3. CASE m = "WALLET_BALANCE"
    <3>1. DebitOrderBalance(o, 0)
      BY <1>1, <2>3 DEF PlaceOrder
    <3> QED
      BY <2>1, <2>2, <3>1, DebitKeepsLedger
  <2>4. CASE m # "WALLET_BALANCE"
    <3>1. UNCHANGED <<wallet, ledger, attempt, refunded>>
      BY <1>1, <2>4 DEF PlaceOrder
    <3> QED
      BY <1>0, <2>1, <2>2, <3>1, BooksAndAdjustmentsKept
  <2> QED
    BY <2>3, <2>4
<1>2. ASSUME NEW o \in Orders, NEW n \in Nat, ChargeStale(o, n)
      PROVE  /\ LedgerInv'
             /\ n = attempt[o] /\ refunded[o] /\ ChargesFollowAttempts
                   => ChargesFollowAttempts'
  <2>1. /\ DebitOrderBalance(o, n)
        /\ method[o] # "NONE" /\ method' = method
        /\ UNCHANGED <<deposit, adjustment>>
    BY <1>2 DEF ChargeStale
  <2> QED
    BY <1>0, <2>1, DebitKeepsLedger
<1>3. ASSUME NEW o \in Orders, NEW n \in Nat, GiveBackStale(o, n)
      PROVE  /\ LedgerInv'
             /\ n = attempt[o] /\ ChargesFollowAttempts => ChargesFollowAttempts'
  BY <1>3, RefundKeepsLedger
<1>4. ASSUME NEW d \in Deposits, CreditDeposit(d)
      PROVE  Goal
  <2>1. deposit' \in [Deposits -> {"WAIT_PAY", "TIMEOUT", "CONFIRMED"}]
    BY <1>0, <1>4 DEF CreditDeposit
  <2> QED
    BY <1>4, <2>1, CreditEffect DEF LedgerInv, WalletTypeOK, UnplacedIsUncharged
<1>5. ASSUME NEW d \in Deposits, ExpireDeposit(d)
      PROVE  Goal
  <2>1. /\ deposit[d] = "WAIT_PAY"
        /\ deposit' = [deposit EXCEPT ![d] = "TIMEOUT"]
        /\ UNCHANGED <<wallet, ledger, method, attempt, refunded, adjustment>>
    BY <1>5 DEF ExpireDeposit, ledgerVars, chargeVars
  <2>2. /\ \A c \in Deposits : deposit'[c] = "CONFIRMED" <=> deposit[c] = "CONFIRMED"
        /\ deposit' \in [Deposits -> {"WAIT_PAY", "TIMEOUT", "CONFIRMED"}]
    BY <1>0, <2>1
  <2> QED
    BY <1>0, <2>1, <2>2, BooksAndAdjustmentsKept
<1>6. ASSUME NEW a \in Adjustments, AdjustLoad(a) \/ AdjustAbort(a)
      PROVE  Goal
  <2>1. UNCHANGED <<wallet, ledger, method, attempt, refunded, deposit>>
    BY <1>6 DEF AdjustLoad, AdjustAbort, ledgerVars, chargeVars
  <2>2. /\ WalletOf[a] \in Wallets /\ Len(ledger[WalletOf[a]]) \in Nat
        /\ wallet[WalletOf[a]].available_balance \in Nat
    BY <1>0 DEF LedgerAssumption, Movers, LedgerInv, WalletTypeOK, Row
  <2>3. /\ adjustment' \in [Adjustments -> AdjustmentRow]
        /\ \A b \in Adjustments : b # a => adjustment'[b] = adjustment[b]
        /\ \/ adjustment'[a].seen = adjustment[a].seen
           \/ adjustment[a].phase = "requested"
        /\ adjustment[a].phase # "posted" /\ adjustment'[a].phase # "posted"
        /\ adjustment'[a].phase = "loaded" =>
              /\ adjustment'[a].seen = Len(ledger[WalletOf[a]])
              /\ adjustment'[a].balance = wallet[WalletOf[a]].available_balance
    <3>1. CASE AdjustLoad(a)
      BY <1>0, <2>2, <3>1 DEF AdjustLoad, AdjustmentRow
    <3>2. CASE AdjustAbort(a)
      BY <1>0, <3>2 DEF AdjustAbort, AdjustmentRow
    <3> QED
      BY <1>6, <3>1, <3>2
  <2>4. FollowsLedger(a)'
    BY <2>1, <2>2, <2>3, LedgerUntouched
       DEF ledgerVars, LedgerInv, AdjustmentsFollowLedger, FollowsLedger
  <2>5. AdjustmentsFollowLedger'
    BY <2>1, <2>3, <2>4, FollowingUntouched DEF AdjustmentsFollowLedger, ledgerVars
  <2> QED
    BY <1>0, <2>1, <2>3, <2>5, BooksKept
<1>7. ASSUME NEW a \in Adjustments, AdjustPost(a)
      PROVE  Goal
  <2>1. adjustment' \in [Adjustments -> AdjustmentRow]
    BY <1>0, <1>7 DEF AdjustPost, AdjustmentRow
  <2> QED
    BY <1>7, <2>1, AdjustEffect DEF LedgerInv, WalletTypeOK, UnplacedIsUncharged
<1>8. ASSUME UNCHANGED walletVars
      PROVE  Goal
  BY <1>0, <1>8, BooksAndAdjustmentsKept DEF walletVars
<1>9. ASSUME NEW o \in Orders, ChargeAgain(o) \/ GiveBack(o)
      PROVE  Goal
  <2>1. ChargeAgain(o) => refunded[o]
    BY DEF ChargeAgain
  <2> QED
    BY <1>2, <1>3, <1>9, <2>1, OwnChargesAreStale
<1>a. LedgerInv'
  BY <1>1, <1>2, <1>3, <1>4, <1>5, <1>6, <1>7, <1>8 DEF StaleWalletNext, WalletMove
<1>b. ASSUME [WalletNext]_walletVars, ChargesFollowAttempts
      PROVE  ChargesFollowAttempts'
  BY <1>b, <1>1, <1>4, <1>5, <1>6, <1>7, <1>8, <1>9
     DEF WalletNext, WalletMove
<1> QED
  BY <1>a, <1>b

\* Nothing is ever taken out of the ledger.
LEMMA LedgerOnlyGrows ==
    ASSUME LedgerAssumption, LedgerInv, [StaleWalletNext]_walletVars,
           NEW p \in Orders, NEW k \in Nat
    PROVE  /\ Paid(p, k) => Paid(p, k)'
           /\ Returned(p, k) => Returned(p, k)'
<1> DEFINE Kept == /\ Paid(p, k) => Paid(p, k)'
                   /\ Returned(p, k) => Returned(p, k)'
<1>1. ASSUME UNCHANGED ledgerVars
      PROVE  Kept
  BY <1>1, LedgerUntouched DEF Paid, Returned
<1>2. ASSUME NEW o \in Orders, NEW m \in Methods, PlaceOrder(o, m)
      PROVE  Kept
  <2>1. CASE m = "WALLET_BALANCE"
    BY <1>2, <2>1, DebitEffect DEF PlaceOrder
  <2>2. CASE m # "WALLET_BALANCE"
    BY <1>1, <1>2, <2>2 DEF PlaceOrder, ledgerVars
  <2> QED
    BY <2>1, <2>2
<1>3. ASSUME NEW o \in Orders, NEW n \in Nat, ChargeStale(o, n)
      PROVE  Kept
  BY <1>3, DebitEffect DEF ChargeStale
<1>4. ASSUME NEW o \in Orders, NEW n \in Nat, GiveBackStale(o, n)
      PROVE  Kept
  BY <1>4, RefundEffect
<1>5. ASSUME NEW d \in Deposits, CreditDeposit(d)
      PROVE  Kept
  BY <1>5, CreditEffect
<1>6. ASSUME NEW a \in Adjustments, AdjustPost(a)
      PROVE  Kept
  BY <1>6, AdjustEffect
<1>7. ASSUME \/ \E d \in Deposits : ExpireDeposit(d)
             \/ \E a \in Adjustments : AdjustLoad(a) \/ AdjustAbort(a)
             \/ UNCHANGED walletVars
      PROVE  Kept
  BY <1>1, <1>7 DEF ExpireDeposit, AdjustLoad, AdjustAbort, ledgerVars, walletVars
<1> QED
  BY <1>2, <1>3, <1>4, <1>5, <1>6, <1>7 DEF StaleWalletNext, WalletMove

----------------------------------------------------------------------------
(* The totals, which no refund of an earlier charge disturbs either.        *)

\* The charges of an order that were not given back.
Open(o) == {n \in 1..(MaxAttempt + 1) : Paid(o, n) /\ ~Returned(o, n)}

Due == [o \in Orders |-> Outstanding(o)]

DueOn(w)    == SumFunctionOnSet(Due, PlacedOn(w))
Received(w) == SumFunctionOnSet(Amount, ReceivedBy(w))
Made(w)     == SumFunctionOnSet(Amount, MadeTo(w))

\* The totals of a row, with the finiteness that makes them sums: only so many
\* orders were placed, deposits confirmed and adjustments made so far.
TotalsInv ==
    /\ \A o \in Orders, n \in Nat : Paid(o, n) => n <= MaxAttempt + 1
    /\ \A w \in Wallets :
          /\ IsFiniteSet(PlacedOn(w)) /\ IsFiniteSet(ReceivedBy(w))
          /\ IsFiniteSet(MadeTo(w))
          /\ wallet[w].total_spent = DueOn(w)
          /\ ~Spoiled(w) =>
                wallet[w].available_balance = Received(w) + Made(w) - DueOn(w)

LEMMA OnceMore == \A a, c \in Int : a * (c + 1) = a * c + a
OBVIOUS

LEMMA DueType ==
    ASSUME LedgerAssumption, NEW o \in Orders
    PROVE  /\ IsFiniteSet(Open(o)) /\ Cardinality(Open(o)) \in Nat
           /\ Amount[o] \in Nat \ {0}
           /\ Due[o] = Amount[o] * Cardinality(Open(o))
           /\ Due[o] \in Nat /\ Due[o] \in Int
<1>1. Amount[o] \in Nat \ {0} /\ MaxAttempt \in Nat
  BY DEF LedgerAssumption, Movers
<1>2. IsFiniteSet(1..(MaxAttempt + 1)) /\ Open(o) \subseteq 1..(MaxAttempt + 1)
  BY <1>1, FS_Interval DEF Open
<1>3. IsFiniteSet(Open(o)) /\ Cardinality(Open(o)) \in Nat
  BY <1>2, FS_Subset, FS_CardinalityType
<1>4. Due[o] = Amount[o] * Cardinality(Open(o))
  BY DEF Due, Outstanding, Open
<1> QED
  BY <1>1, <1>3, <1>4

\* The charges of an order that keeps its payments and refunds.
LEMMA DueUntouched ==
    ASSUME LedgerAssumption, NEW o \in Orders,
           \A n \in Nat : /\ Paid(o, n)' <=> Paid(o, n)
                          /\ Returned(o, n)' <=> Returned(o, n)
    PROVE  Due'[o] = Due[o]
<1>1. MaxAttempt \in Nat /\ \A n \in 1..(MaxAttempt + 1) : n \in Nat
  BY DEF LedgerAssumption
<1>2. {n \in 1..(MaxAttempt + 1) : Paid(o, n)' /\ ~Returned(o, n)'}
         = {n \in 1..(MaxAttempt + 1) : Paid(o, n) /\ ~Returned(o, n)}
  BY <1>1
<1> QED
  BY <1>2 DEF Due, Outstanding

\* The rows after post_wallet_entry: a known key leaves them, a new one settles
\* the entry on the row of w.
LEMMA PostMoves ==
    ASSUME LedgerInv, NEW w \in Wallets, NEW key, NEW delta, NEW balance,
           PostWalletEntry(w, key, delta, balance)
    PROVE  /\ \A v \in Wallets : v # w => wallet'[v] = wallet[v]
           /\ Posted(w, key) => wallet' = wallet
           /\ ~Posted(w, key) =>
                 wallet'[w] = Settle(wallet[w], key[2], delta, balance + delta)
<1>1. wallet \in [Wallets -> Row]
  BY DEF LedgerInv, WalletTypeOK
<1> QED
  BY <1>1 DEF PostWalletEntry, ledgerVars

\* The wallet of o pays for, or gets back, what o owes more or less than before.
WalletFollowsDue(o) ==
    /\ Due'[o] \in Int
    /\ \A p \in Orders : p # o => Due'[p] = Due[p]
    /\ \A v \in Wallets : v # WalletOf[o] => wallet'[v] = wallet[v]
    /\ wallet'[WalletOf[o]].total_spent
          = wallet[WalletOf[o]].total_spent - Due[o] + Due'[o]
    /\ wallet'[WalletOf[o]].available_balance
          = wallet[WalletOf[o]].available_balance + Due[o] - Due'[o]

\* A charge: the order owes its amount once more, and the wallet has spent it;
\* a charge that was made before changes neither.
LEMMA DebitTotals ==
    ASSUME LedgerAssumption, LedgerInv, NEW o \in Orders, NEW n \in Nat,
           n <= MaxAttempt, DebitOrderBalance(o, n), UNCHANGED adjustment
    PROVE  WalletFollowsDue(o)
<1> DEFINE w == WalletOf[o]
           key == <<o, "payment", n + 1>>
<1>1. /\ w \in Wallets /\ wallet[w] \in Row /\ Amount[o] \in Int
      /\ n + 1 \in Nat /\ MaxAttempt \in Nat /\ Due[o] \in Int
  BY DueType DEF LedgerInv, WalletTypeOK, LedgerAssumption, Movers
<1>2. PostWalletEntry(w, key, -Amount[o], wallet[w].available_balance)
  BY DEF DebitOrderBalance, PostLocked
<1>3. Posted(w, key) <=> Paid(o, n + 1)
  BY DEF Paid
<1>4. ASSUME NEW p \in Orders, NEW k \in Nat
      PROVE  /\ Paid(p, k)' <=> Paid(p, k) \/ (p = o /\ k = n + 1)
             /\ Returned(p, k)' <=> Returned(p, k)
  BY DebitEffect
<1>5. \A p \in Orders : p # o => Due'[p] = Due[p]
  BY <1>4, DueUntouched
<1>6. \A v \in Wallets : v # w => wallet'[v] = wallet[v]
  BY <1>1, <1>2, PostMoves
<1>7. CASE Paid(o, n + 1)
  <2>1. wallet' = wallet
    BY <1>1, <1>2, <1>3, <1>7, PostMoves
  <2>2. Due'[o] = Due[o]
    BY <1>4, <1>7, DueUntouched
  <2> QED
    BY <1>1, <1>5, <1>6, <2>1, <2>2 DEF Row, WalletFollowsDue
<1>8. CASE ~Paid(o, n + 1)
  <2>0. ~Returned(o, n + 1)
    BY <1>1, <1>8 DEF LedgerInv, RefundsAreOfCharges
  <2>1. n + 1 \notin Open(o)
    BY <1>8 DEF Open
  <2>2. Open(o)' = Open(o) \cup {n + 1}
    <3>1. \A k \in 1..(MaxAttempt + 1) :
             Paid(o, k)' /\ ~Returned(o, k)'
                <=> (Paid(o, k) /\ ~Returned(o, k)) \/ k = n + 1
      BY <1>1, <1>4, <2>0
    <3>2. n + 1 \in 1..(MaxAttempt + 1)
      BY <1>1
    <3> QED
      BY <3>1, <3>2 DEF Open
  <2>3. Cardinality(Open(o)') = Cardinality(Open(o)) + 1
    BY <2>1, <2>2, DueType, FS_AddElement
  <2>4. Due'[o] = Amount[o] * Cardinality(Open(o)')
    BY DEF Due, Outstanding, Open
  <2>5. /\ Due[o] = Amount[o] * Cardinality(Open(o))
        /\ Cardinality(Open(o)) \in Nat
    BY DueType
  <2>6. \A c \in Nat : Amount[o] * (c + 1) = Amount[o] * c + Amount[o]
    <3>1. Amount[o] \in Int /\ \A c \in Nat : c \in Int
      BY <1>1
    <3> QED
      BY <3>1, OnceMore
  <2>7. Due'[o] = Due[o] + Amount[o]
    BY <2>3, <2>4, <2>5, <2>6
  <2>8. wallet'[w] = Settle(wallet[w], "payment", -Amount[o],
                            wallet[w].available_balance + (-Amount[o]))
    BY <1>1, <1>2, <1>3, <1>8, PostMoves
  <2>9. /\ wallet'[w].total_spent = wallet[w].total_spent + Amount[o]
        /\ wallet'[w].available_balance = wallet[w].available_balance - Amount[o]
    BY <1>1, <2>8 DEF Settle, Row
  <2> QED
    BY <1>1, <1>5, <1>6, <2>7, <2>9 DEF Row, WalletFollowsDue
<1> QED
  BY <1>7, <1>8

\* A refund of what the order owes, which its wallet has spent; a repeated one
\* changes neither.
LEMMA RefundTotals ==
    ASSUME LedgerAssumption, LedgerInv, NEW o \in Orders, NEW n \in Nat,
           n <= MaxAttempt + 1, GiveBackStale(o, n),
           Due[o] <= wallet[WalletOf[o]].total_spent
    PROVE  WalletFollowsDue(o)
<1> DEFINE w == WalletOf[o]
           key == <<o, "refund", n>>
<1>1. /\ w \in Wallets /\ wallet[w] \in Row /\ Amount[o] \in Nat
      /\ n \in 1..(MaxAttempt + 1) /\ MaxAttempt \in Nat
      /\ Due[o] \in Int /\ Paid(o, n)
  BY DueType DEF LedgerInv, WalletTypeOK, LedgerAssumption, Movers, GiveBackStale,
                 Refundable
<1>2. PostWalletEntry(w, key, Amount[o], wallet[w].available_balance)
  BY DEF GiveBackStale, RefundOrderBalance, PostLocked
<1>3. Posted(w, key) <=> Returned(o, n)
  BY DEF Returned
<1>4. ASSUME NEW p \in Orders, NEW k \in Nat
      PROVE  /\ Paid(p, k)' <=> Paid(p, k)
             /\ Returned(p, k)' <=> Returned(p, k) \/ (p = o /\ k = n)
  BY RefundEffect
<1>5. \A p \in Orders : p # o => Due'[p] = Due[p]
  BY <1>4, DueUntouched
<1>6. \A v \in Wallets : v # w => wallet'[v] = wallet[v]
  BY <1>1, <1>2, PostMoves
<1>7. CASE Returned(o, n)
  <2>1. wallet' = wallet
    BY <1>1, <1>2, <1>3, <1>7, PostMoves
  <2>2. Due'[o] = Due[o]
    BY <1>4, <1>7, DueUntouched
  <2> QED
    BY <1>1, <1>5, <1>6, <2>1, <2>2 DEF Row, WalletFollowsDue
<1>8. CASE ~Returned(o, n)
  <2>1. n \in Open(o)
    BY <1>1, <1>8 DEF Open
  <2>2. Open(o)' = Open(o) \ {n}
    <3>1. \A k \in 1..(MaxAttempt + 1) :
             Paid(o, k)' /\ ~Returned(o, k)' <=> Paid(o, k) /\ ~Returned(o, k) /\ k # n
      BY <1>1, <1>4
    <3> QED
      BY <3>1 DEF Open
  <2>3. Cardinality(Open(o)') = Cardinality(Open(o)) - 1
    BY <2>1, <2>2, DueType, FS_RemoveElement
  <2>4. Due'[o] = Amount[o] * Cardinality(Open(o)')
    BY DEF Due, Outstanding, Open
  <2>5. /\ Due[o] = Amount[o] * Cardinality(Open(o))
        /\ Cardinality(Open(o)) \in Nat /\ Cardinality(Open(o)') \in Nat
    <3>1. IsFiniteSet(Open(o) \ {n})
      BY DueType, FS_RemoveElement
    <3> QED
      BY <2>2, <3>1, DueType, FS_CardinalityType
  <2>6. \A c \in Nat : Amount[o] * (c + 1) = Amount[o] * c + Amount[o]
    <3>1. Amount[o] \in Int /\ \A c \in Nat : c \in Int
      BY <1>1
    <3> QED
      BY <3>1, OnceMore
  <2>7. Amount[o] * Cardinality(Open(o)') \in Nat
    BY <1>1, <2>5
  <2>8. Due[o] = Due'[o] + Amount[o] /\ Due'[o] \in Nat
    BY <2>3, <2>4, <2>5, <2>6, <2>7
  <2>9. wallet'[w] = Settle(wallet[w], "refund", Amount[o],
                            wallet[w].available_balance + Amount[o])
    BY <1>1, <1>2, <1>3, <1>8, PostMoves
  <2>a. /\ wallet'[w].total_spent = wallet[w].total_spent - Amount[o]
        /\ wallet'[w].available_balance = wallet[w].available_balance + Amount[o]
    <3>1. Amount[o] <= wallet[w].total_spent /\ wallet[w].total_spent \in Nat
      BY <1>1, <2>8 DEF Row
    <3> QED
      BY <1>1, <2>9, <3>1 DEF Settle, Row
  <2> QED
    BY <1>1, <1>5, <1>6, <2>8, <2>a DEF Row, WalletFollowsDue
<1> QED
  BY <1>7, <1>8

\* An order that was not placed owes nothing.
LEMMA NothingDue ==
    ASSUME LedgerAssumption, LedgerInv, NEW o \in Orders, method[o] = "NONE"
    PROVE  Due[o] = 0
<1>1. \A n \in 1..(MaxAttempt + 1) : n \in Nat
  BY DEF LedgerAssumption
<1>2. Open(o) = {}
  BY <1>1 DEF LedgerInv, UnplacedIsUncharged, Open
<1>3. Cardinality(Open(o)) = 0
  BY <1>2, FS_EmptySet
<1> QED
  BY <1>3, DueType

LEMMA DueUnchanged ==
    ASSUME LedgerAssumption,
           \A o \in Orders, n \in Nat : /\ Paid(o, n)' <=> Paid(o, n)
                                        /\ Returned(o, n)' <=> Returned(o, n)
    PROVE  Due' = Due
<1>1. ASSUME NEW o \in Orders PROVE Due'[o] = Due[o]
  <2>1. \A n \in Nat : /\ Paid(o, n)' <=> Paid(o, n)
                       /\ Returned(o, n)' <=> Returned(o, n)
    OBVIOUS
  <2> QED
    BY <2>1, DueUntouched
<1> QED
  BY <1>1 DEF Due

LEMMA BroughtType ==
    ASSUME LedgerAssumption, TotalsInv, NEW v \in Wallets
    PROVE  Received(v) \in Int /\ Made(v) \in Int
<1>1. /\ \A d \in ReceivedBy(v) : Amount[d] \in Int
      /\ \A a \in MadeTo(v) : Amount[a] \in Int
      /\ IsFiniteSet(ReceivedBy(v)) /\ IsFiniteSet(MadeTo(v))
  BY DEF LedgerAssumption, Movers, ReceivedBy, MadeTo, TotalsInv
<1>2. Received(v) \in Int
  BY <1>1, SumType DEF Received
<1>3. Made(v) \in Int
  BY <1>1, SumType DEF Made
<1> QED
  BY <1>2, <1>3

\* One order that is placed, or was, owes something else now: the sum over the
\* orders of its wallet follows, the other wallets' sums stay.
LEMMA DueFollows ==
    ASSUME LedgerAssumption, TotalsInv, NEW o \in Orders,
           Due'[o] \in Int, \A p \in Orders : p # o => Due'[p] = Due[p],
           Due[o] = 0 \/ method[o] # "NONE",
           method' \in [Orders -> Methods \cup {"NONE"}], method'[o] # "NONE",
           \A p \in Orders : p # o => method'[p] = method[p]
    PROVE  \A v \in Wallets :
              /\ IsFiniteSet(PlacedOn(v)')
              /\ DueOn(v) \in Int
              /\ DueOn(v)' = IF v = WalletOf[o] THEN DueOn(v) - Due[o] + Due'[o]
                                                ELSE DueOn(v)
<1> SUFFICES ASSUME NEW v \in Wallets
             PROVE  /\ IsFiniteSet(PlacedOn(v)')
                    /\ DueOn(v) \in Int
                    /\ DueOn(v)' = IF v = WalletOf[o] THEN DueOn(v) - Due[o] + Due'[o]
                                                      ELSE DueOn(v)
  OBVIOUS
<1>1. /\ IsFiniteSet(PlacedOn(v)) /\ PlacedOn(v) \subseteq Orders
      /\ \A p \in PlacedOn(v) : Due[p] \in Int
      /\ DueOn(v) = SumFunctionOnSet(Due, PlacedOn(v))
      /\ DueOn(v)' = SumFunctionOnSet(Due', PlacedOn(v)')
  BY DueType DEF TotalsInv, PlacedOn, DueOn
<1>2. DueOn(v) \in Int
  BY <1>1, SumType
<1>3. CASE v # WalletOf[o]
  <2>1. PlacedOn(v)' = PlacedOn(v) /\ \A p \in PlacedOn(v) : Due'[p] = Due[p]
    BY <1>3 DEF PlacedOn
  <2>2. SumFunctionOnSet(Due', PlacedOn(v)) = SumFunctionOnSet(Due, PlacedOn(v))
    BY <1>1, <2>1, SumAgrees
  <2> QED
    BY <1>1, <1>2, <1>3, <2>1, <2>2
<1>4. CASE v = WalletOf[o] /\ method[o] # "NONE"
  <2>1. /\ PlacedOn(v)' = PlacedOn(v) /\ o \in PlacedOn(v)
        /\ \A p \in PlacedOn(v) \ {o} : Due'[p] = Due[p]
    BY <1>4 DEF PlacedOn
  <2>2. SumFunctionOnSet(Due', PlacedOn(v))
           = SumFunctionOnSet(Due, PlacedOn(v)) - Due[o] + Due'[o]
    BY <1>1, <2>1, SumOfChange
  <2> QED
    BY <1>1, <1>2, <1>4, <2>1, <2>2
<1>5. CASE v = WalletOf[o] /\ method[o] = "NONE"
  <2>1. /\ PlacedOn(v)' = PlacedOn(v) \cup {o} /\ o \notin PlacedOn(v)
        /\ \A p \in PlacedOn(v) : Due'[p] = Due[p]
        /\ Due[o] = 0
    BY <1>5 DEF PlacedOn
  <2>2. /\ SumFunctionOnSet(Due', PlacedOn(v)) = SumFunctionOnSet(Due, PlacedOn(v))
        /\ \A p \in PlacedOn(v) \cup {o} : Due'[p] \in Int
    BY <1>1, <2>1, SumAgrees
  <2>3. /\ IsFiniteSet(PlacedOn(v) \cup {o})
        /\ SumFunctionOnSet(Due', PlacedOn(v) \cup {o})
              = SumFunctionOnSet(Due', PlacedOn(v)) + Due'[o]
    BY <1>1, <2>1, <2>2, SumOfAdded, FS_AddElement
  <2> QED
    BY <1>1, <1>2, <1>5, <2>1, <2>2, <2>3
<1> QED
  BY <1>3, <1>4, <1>5

\* What an order owes is part of what its wallet has spent.
LEMMA DueWithinSpent ==
    ASSUME LedgerAssumption, TotalsInv, NEW o \in Orders,
           method[o] # "NONE"
    PROVE  Due[o] <= wallet[WalletOf[o]].total_spent
<1> DEFINE w == WalletOf[o]
           rest == PlacedOn(w) \ {o}
<1>1. /\ w \in Wallets /\ IsFiniteSet(PlacedOn(w)) /\ o \in PlacedOn(w)
      /\ \A p \in PlacedOn(w) : Due[p] \in Nat /\ Due[p] \in Int
      /\ wallet[w].total_spent = SumFunctionOnSet(Due, PlacedOn(w))
  BY DueType DEF TotalsInv, PlacedOn, DueOn, LedgerAssumption, Movers
<1>2. SumFunctionOnSet(Due, PlacedOn(w)) = Due[o] + SumFunctionOnSet(Due, rest)
  BY <1>1, SumOfOneMore
<1>3. IsFiniteSet(rest) /\ \A p \in rest : Due[p] \in Nat
  BY <1>1, FS_RemoveElement
<1>4. SumFunctionOnSet(Due, rest) \in Nat
  BY <1>3, SumType
<1> QED
  BY <1>1, <1>2, <1>4

\* A confirmed deposit is one more that its wallet received.
LEMMA ReceivedFollows ==
    ASSUME LedgerAssumption, LedgerInv, TotalsInv, NEW d \in Deposits,
           deposit[d] # "CONFIRMED",
           deposit' = [deposit EXCEPT ![d] = "CONFIRMED"]
    PROVE  \A v \in Wallets :
              /\ IsFiniteSet(ReceivedBy(v)')
              /\ Received(v) \in Int
              /\ Received(v)' = IF v = WalletOf[d] THEN Received(v) + Amount[d]
                                                   ELSE Received(v)
<1> SUFFICES ASSUME NEW v \in Wallets
             PROVE  /\ IsFiniteSet(ReceivedBy(v)')
                    /\ Received(v) \in Int
                    /\ Received(v)' = IF v = WalletOf[d] THEN Received(v) + Amount[d]
                                                         ELSE Received(v)
  OBVIOUS
<1>1. /\ IsFiniteSet(ReceivedBy(v))
      /\ \A c \in ReceivedBy(v) \cup {d} : Amount[c] \in Int
      /\ Received(v) = SumFunctionOnSet(Amount, ReceivedBy(v))
      /\ Received(v)' = SumFunctionOnSet(Amount, ReceivedBy(v)')
      /\ d \notin ReceivedBy(v)
      /\ \A c \in Deposits : deposit'[c] = "CONFIRMED" <=> deposit[c] = "CONFIRMED" \/ c = d
  BY LedgerAssumption
     DEF LedgerAssumption, Movers, TotalsInv, ReceivedBy, Received, LedgerInv, WalletTypeOK
<1>2. Received(v) \in Int
  BY <1>1, SumType
<1>3. CASE v # WalletOf[d]
  <2>1. ReceivedBy(v)' = ReceivedBy(v)
    BY <1>1, <1>3 DEF ReceivedBy
  <2> QED
    BY <1>1, <1>2, <1>3, <2>1
<1>4. CASE v = WalletOf[d]
  <2>1. ReceivedBy(v)' = ReceivedBy(v) \cup {d}
    BY <1>1, <1>4 DEF ReceivedBy
  <2>2. /\ IsFiniteSet(ReceivedBy(v) \cup {d})
        /\ SumFunctionOnSet(Amount, ReceivedBy(v) \cup {d})
              = SumFunctionOnSet(Amount, ReceivedBy(v)) + Amount[d]
    BY <1>1, SumOfAdded, FS_AddElement
  <2> QED
    BY <1>1, <1>2, <1>4, <2>1, <2>2
<1> QED
  BY <1>3, <1>4

\* An adjustment that is made is one more of its wallet.
LEMMA MadeFollows ==
    ASSUME LedgerAssumption, TotalsInv, NEW a \in Adjustments,
           adjustment[a].phase # "posted", adjustment'[a].phase = "posted",
           \A b \in Adjustments : b # a => adjustment'[b] = adjustment[b]
    PROVE  \A v \in Wallets :
              /\ IsFiniteSet(MadeTo(v)')
              /\ Made(v)' = IF v = WalletOf[a] THEN Made(v) + Amount[a] ELSE Made(v)
<1> SUFFICES ASSUME NEW v \in Wallets
             PROVE  /\ IsFiniteSet(MadeTo(v)')
                    /\ Made(v)' = IF v = WalletOf[a] THEN Made(v) + Amount[a]
                                                     ELSE Made(v)
  OBVIOUS
<1>1. /\ IsFiniteSet(MadeTo(v)) /\ a \notin MadeTo(v)
      /\ \A b \in MadeTo(v) \cup {a} : Amount[b] \in Int
      /\ Made(v) = SumFunctionOnSet(Amount, MadeTo(v))
      /\ Made(v)' = SumFunctionOnSet(Amount, MadeTo(v)')
  BY LedgerAssumption DEF LedgerAssumption, Movers, TotalsInv, MadeTo, Made
<1>2. MadeTo(v)' = IF v = WalletOf[a] THEN MadeTo(v) \cup {a} ELSE MadeTo(v)
  BY DEF MadeTo
<1>3. /\ IsFiniteSet(MadeTo(v) \cup {a})
      /\ SumFunctionOnSet(Amount, MadeTo(v) \cup {a})
            = SumFunctionOnSet(Amount, MadeTo(v)) + Amount[a]
  BY <1>1, SumOfAdded, FS_AddElement
<1> QED
  BY <1>1, <1>2, <1>3

\* A step of the deposits and adjustments that posts no entry.
LEMMA TotalsKept ==
    ASSUME LedgerAssumption, TotalsInv, UNCHANGED <<method, attempt>>,
           \A o \in Orders, n \in Nat : /\ Paid(o, n)' <=> Paid(o, n)
                                        /\ Returned(o, n)' <=> Returned(o, n),
           \A v \in Wallets :
              /\ wallet'[v].total_spent = wallet[v].total_spent
              /\ wallet'[v].available_balance = wallet[v].available_balance
              /\ ReceivedBy(v)' = ReceivedBy(v) /\ MadeTo(v)' = MadeTo(v)
              /\ Spoiled(v) => Spoiled(v)'
    PROVE  TotalsInv'
<1>1. Due' = Due /\ \A v \in Wallets : PlacedOn(v)' = PlacedOn(v)
  BY DueUnchanged DEF PlacedOn
<1>2. \A v \in Wallets : /\ DueOn(v)' = DueOn(v)
                         /\ Received(v)' = Received(v) /\ Made(v)' = Made(v)
  BY <1>1 DEF DueOn, Received, Made
<1> QED
  BY <1>1, <1>2 DEF TotalsInv

LEMMA TotalsInit ==
    ASSUME LedgerAssumption, WalletInit
    PROVE  TotalsInv
<1>1. ASSUME NEW w \in Wallets
      PROVE  /\ PlacedOn(w) = {} /\ ReceivedBy(w) = {} /\ MadeTo(w) = {}
             /\ wallet[w].total_spent = 0 /\ wallet[w].available_balance = 0
  BY DEF WalletInit, PlacedOn, ReceivedBy, MadeTo
<1>2. ASSUME NEW w \in Wallets
      PROVE  DueOn(w) = 0 /\ Received(w) = 0 /\ Made(w) = 0
  BY <1>1, SumOfNothing DEF DueOn, Received, Made
<1>3. \A o \in Orders, n \in Nat : Paid(o, n) => n <= MaxAttempt + 1
  <2>1. \A o \in Orders : WalletOf[o] \in Wallets
    BY DEF LedgerAssumption, Movers
  <2> QED
    BY <2>1 DEF WalletInit, Paid, Posted
<1>4. \A w \in Wallets : /\ IsFiniteSet(PlacedOn(w)) /\ IsFiniteSet(ReceivedBy(w))
                         /\ IsFiniteSet(MadeTo(w))
  BY <1>1, FS_EmptySet
<1> QED
  BY <1>1, <1>2, <1>3, <1>4 DEF TotalsInv

\* One order that is placed, or was, is charged or gets a charge back.
LEMMA ChargesKeepTotals ==
    ASSUME LedgerAssumption, TotalsInv, NEW o \in Orders, WalletFollowsDue(o),
           \A p \in Orders, k \in Nat : Paid(p, k)' => k <= MaxAttempt + 1,
           Due[o] = 0 \/ method[o] # "NONE",
           method' \in [Orders -> Methods \cup {"NONE"}], method'[o] # "NONE",
           \A p \in Orders : p # o => method'[p] = method[p],
           \A v \in Wallets : Spoiled(v) => Spoiled(v)',
           UNCHANGED <<deposit, adjustment>>
    PROVE  TotalsInv'
<1>1. /\ Due[o] \in Int /\ Due'[o] \in Int
      /\ \A p \in Orders : p # o => Due'[p] = Due[p]
  BY DueType DEF WalletFollowsDue
<1>2. \A v \in Wallets :
         /\ IsFiniteSet(PlacedOn(v)') /\ DueOn(v) \in Int
         /\ DueOn(v)' = IF v = WalletOf[o] THEN DueOn(v) - Due[o] + Due'[o]
                                           ELSE DueOn(v)
  BY <1>1, DueFollows
<1>3. \A v \in Wallets : /\ ReceivedBy(v)' = ReceivedBy(v) /\ MadeTo(v)' = MadeTo(v)
                         /\ Received(v)' = Received(v) /\ Made(v)' = Made(v)
  BY DEF ReceivedBy, Received, MadeTo, Made
<1>4. ASSUME NEW v \in Wallets
      PROVE  /\ IsFiniteSet(PlacedOn(v)') /\ IsFiniteSet(ReceivedBy(v)')
             /\ IsFiniteSet(MadeTo(v)')
             /\ wallet'[v].total_spent = DueOn(v)'
             /\ ~Spoiled(v)' => wallet'[v].available_balance
                                   = Received(v)' + Made(v)' - DueOn(v)'
  <2>1. /\ IsFiniteSet(ReceivedBy(v)) /\ IsFiniteSet(MadeTo(v))
        /\ wallet[v].total_spent = DueOn(v)
        /\ ~Spoiled(v) =>
              wallet[v].available_balance = Received(v) + Made(v) - DueOn(v)
    BY DEF TotalsInv
  <2>2. Received(v) \in Int /\ Made(v) \in Int
    BY BroughtType
  <2>3. CASE v # WalletOf[o]
    BY <1>2, <1>3, <2>1, <2>3 DEF WalletFollowsDue
  <2>4. CASE v = WalletOf[o]
    <3>1. /\ wallet'[v].total_spent = wallet[v].total_spent - Due[o] + Due'[o]
          /\ wallet'[v].available_balance
                = wallet[v].available_balance + Due[o] - Due'[o]
      BY <2>4 DEF WalletFollowsDue
    <3>2. DueOn(v)' = DueOn(v) - Due[o] + Due'[o] /\ DueOn(v) \in Int
      BY <1>2, <2>4
    <3> QED
      BY <1>1, <1>2, <1>3, <2>1, <2>2, <3>1, <3>2
  <2> QED
    BY <2>3, <2>4
<1> QED
  BY <1>4 DEF TotalsInv

LEMMA DueOnType ==
    ASSUME LedgerAssumption, TotalsInv, NEW v \in Wallets
    PROVE  DueOn(v) \in Int
<1>1. IsFiniteSet(PlacedOn(v)) /\ \A p \in PlacedOn(v) : Due[p] \in Int
  BY DueType DEF PlacedOn, TotalsInv
<1> QED
  BY <1>1, SumType DEF DueOn

LEMMA TotalsStep ==
    ASSUME LedgerAssumption, LedgerInv, TotalsInv, [StaleWalletNext]_walletVars
    PROVE  TotalsInv'
<1>a. ASSUME NEW o \in Orders, NEW n \in Nat, n <= MaxAttempt,
             DebitOrderBalance(o, n), UNCHANGED adjustment
      PROVE  /\ \A p \in Orders, k \in Nat : Paid(p, k)' => k <= MaxAttempt + 1
             /\ \A v \in Wallets : Spoiled(v) => Spoiled(v)'
  <2>1. n + 1 <= MaxAttempt + 1
    BY <1>a DEF LedgerAssumption
  <2>2. \A p \in Orders, k \in Nat : Paid(p, k)' <=> Paid(p, k) \/ (p = o /\ k = n + 1)
    BY <1>a, DebitEffect
  <2>3. \A v \in Wallets : Spoiled(v) => Spoiled(v)'
    BY <1>a, DebitEffect
  <2> QED
    BY <2>1, <2>2, <2>3 DEF TotalsInv
<1>1. ASSUME NEW o \in Orders, NEW m \in Methods, PlaceOrder(o, m)
      PROVE  TotalsInv'
  <2>1. /\ method[o] = "NONE"
        /\ method' = [method EXCEPT ![o] = m]
        /\ UNCHANGED <<deposit, adjustment>>
    BY <1>1 DEF PlaceOrder
  <2>2. /\ method' \in [Orders -> Methods \cup {"NONE"}] /\ method'[o] # "NONE"
        /\ \A p \in Orders : p # o => method'[p] = method[p]
    BY <2>1 DEF LedgerInv, WalletTypeOK, Methods
  <2>0. Due[o] = 0
    BY <2>1, NothingDue
  <2>3. CASE m = "WALLET_BALANCE"
    <3>1. DebitOrderBalance(o, 0) /\ 0 <= MaxAttempt
      BY <1>1, <2>3 DEF PlaceOrder, LedgerAssumption
    <3> QED
      BY <1>a, <2>0, <2>1, <2>2, <3>1, DebitTotals, ChargesKeepTotals
  <2>4. CASE m # "WALLET_BALANCE"
    <3>1. UNCHANGED <<wallet, ledger, attempt>>
      BY <1>1, <2>4 DEF PlaceOrder
    <3>2. Due' = Due /\ Due[o] \in Int
      BY <2>0, <3>1, LedgerUntouched, DueUnchanged DEF ledgerVars, Paid, Returned
    <3>3. \A v \in Wallets :
             IsFiniteSet(PlacedOn(v)') /\ DueOn(v) \in Int /\ DueOn(v)' = DueOn(v)
      BY <2>0, <2>2, <3>2, DueFollows
    <3>4. \A v \in Wallets : /\ ReceivedBy(v)' = ReceivedBy(v) /\ MadeTo(v)' = MadeTo(v)
                             /\ Received(v)' = Received(v) /\ Made(v)' = Made(v)
                             /\ Spoiled(v)' <=> Spoiled(v)
      BY <2>1, <3>1, BackingUntouched DEF ReceivedBy, Received, MadeTo, Made, ledgerVars
    <3>5. \A p \in Orders, k \in Nat : Paid(p, k)' <=> Paid(p, k)
      BY <3>1, LedgerUntouched DEF ledgerVars, Paid
    <3> QED
      BY <3>1, <3>3, <3>4, <3>5 DEF TotalsInv
  <2> QED
    BY <2>3, <2>4
<1>2. ASSUME NEW o \in Orders, NEW n \in Nat, ChargeStale(o, n)
      PROVE  TotalsInv'
  <2>1. /\ DebitOrderBalance(o, n) /\ n <= MaxAttempt
        /\ method[o] # "NONE" /\ method \in [Orders -> Methods \cup {"NONE"}]
        /\ method' = method /\ UNCHANGED <<deposit, adjustment>>
    BY <1>2 DEF ChargeStale, LedgerInv, WalletTypeOK, LedgerAssumption
  <2> QED
    BY <1>a, <2>1, DebitTotals, ChargesKeepTotals
<1>3. ASSUME NEW o \in Orders, NEW n \in Nat, GiveBackStale(o, n)
      PROVE  TotalsInv'
  <2>1. /\ method[o] # "NONE" /\ method \in [Orders -> Methods \cup {"NONE"}]
        /\ method' = method /\ UNCHANGED <<deposit, adjustment>>
        /\ n <= MaxAttempt + 1
    BY <1>3 DEF GiveBackStale, Refundable, LedgerInv, WalletTypeOK, TotalsInv
  <2>2. WalletFollowsDue(o)
    BY <1>3, <2>1, DueWithinSpent, RefundTotals
  <2>3. /\ \A p \in Orders, k \in Nat : Paid(p, k)' => k <= MaxAttempt + 1
        /\ \A v \in Wallets : Spoiled(v) => Spoiled(v)'
    BY <1>3, RefundEffect DEF TotalsInv
  <2> QED
    BY <2>1, <2>2, <2>3, ChargesKeepTotals
<1>4. ASSUME NEW d \in Deposits, CreditDeposit(d)
      PROVE  TotalsInv'
  <2> DEFINE w == WalletOf[d]
             key == <<d, "credit", 0>>
  <2>1. /\ deposit[d] # "CONFIRMED"
        /\ deposit' = [deposit EXCEPT ![d] = "CONFIRMED"]
        /\ PostWalletEntry(w, key, Amount[d], wallet[w].available_balance)
        /\ UNCHANGED <<method, attempt, adjustment>>
    BY <1>4 DEF CreditDeposit, PostLocked, chargeVars
  <2>2. w \in Wallets /\ wallet[w] \in Row /\ Amount[d] \in Int
    BY DEF LedgerAssumption, Movers, LedgerInv, WalletTypeOK
  <2>3. ~Posted(w, key)
    BY <2>1 DEF LedgerInv, ConfirmedIffCredited
  <2>4. /\ \A v \in Wallets : v # w => wallet'[v] = wallet[v]
        /\ wallet'[w] = Settle(wallet[w], "credit", Amount[d],
                               wallet[w].available_balance + Amount[d])
    BY <2>1, <2>2, <2>3, PostMoves
  <2>5. \A v \in Wallets :
           /\ IsFiniteSet(ReceivedBy(v)') /\ Received(v) \in Int
           /\ Received(v)' = IF v = w THEN Received(v) + Amount[d] ELSE Received(v)
    BY <2>1, ReceivedFollows
  <2>6. Due' = Due /\ \A v \in Wallets : PlacedOn(v)' = PlacedOn(v)
    BY <1>4, <2>1, CreditEffect, DueUnchanged DEF PlacedOn
  <2>7. \A v \in Wallets : /\ DueOn(v)' = DueOn(v)
                           /\ MadeTo(v)' = MadeTo(v) /\ Made(v)' = Made(v)
                           /\ Spoiled(v) => Spoiled(v)'
    BY <1>4, <2>1, <2>6, CreditEffect DEF DueOn, MadeTo, Made
  <2>8. ASSUME NEW v \in Wallets
        PROVE  /\ wallet'[v].total_spent = DueOn(v)'
               /\ ~Spoiled(v)' => wallet'[v].available_balance
                                     = Received(v)' + Made(v)' - DueOn(v)'
    <3>1. /\ IsFiniteSet(PlacedOn(v)) /\ wallet[v].total_spent = DueOn(v)
          /\ ~Spoiled(v) =>
                wallet[v].available_balance = Received(v) + Made(v) - DueOn(v)
      BY DEF TotalsInv
    <3>2. DueOn(v) \in Int /\ Made(v) \in Int
      BY DueOnType, BroughtType
    <3>3. CASE v # w
      BY <2>4, <2>5, <2>7, <3>1, <3>3
    <3>4. CASE v = w
      <4>1. /\ wallet'[v].total_spent = wallet[v].total_spent
            /\ wallet'[v].available_balance = wallet[v].available_balance + Amount[d]
        BY <2>4, <3>4 DEF Settle
      <4>2. wallet[v].available_balance \in Int /\ Received(v)' = Received(v) + Amount[d]
        BY <2>2, <2>5, <3>4 DEF Row
      <4> QED
        BY <2>2, <2>5, <2>7, <3>1, <3>2, <4>1, <4>2
    <3> QED
      BY <3>3, <3>4
  <2>9. \A p \in Orders, k \in Nat : Paid(p, k)' <=> Paid(p, k)
    BY <1>4, CreditEffect
  <2> QED
    BY <2>5, <2>6, <2>7, <2>8, <2>9 DEF TotalsInv
<1>5. ASSUME NEW d \in Deposits, ExpireDeposit(d)
      PROVE  TotalsInv'
  <2>1. /\ UNCHANGED <<wallet, ledger, method, attempt, adjustment>>
        /\ deposit[d] # "CONFIRMED"
        /\ deposit' = [deposit EXCEPT ![d] = "TIMEOUT"]
    BY <1>5 DEF ExpireDeposit, ledgerVars, chargeVars
  <2>2. \A v \in Wallets : /\ ReceivedBy(v)' = ReceivedBy(v) /\ MadeTo(v)' = MadeTo(v)
                           /\ Spoiled(v)' <=> Spoiled(v)
    BY <2>1, BackingUntouched DEF ReceivedBy, MadeTo, LedgerInv, WalletTypeOK, ledgerVars
  <2> QED
    BY <2>1, <2>2, LedgerUntouched, TotalsKept DEF ledgerVars, Paid, Returned
<1>6. ASSUME NEW a \in Adjustments, AdjustLoad(a) \/ AdjustAbort(a)
      PROVE  TotalsInv'
  <2>1. /\ UNCHANGED <<wallet, ledger, method, attempt, deposit>>
        /\ adjustment[a].phase # "posted" /\ adjustment'[a].phase # "posted"
        /\ \/ adjustment'[a].seen = adjustment[a].seen
           \/ adjustment[a].phase = "requested"
        /\ \A b \in Adjustments : b # a => adjustment'[b] = adjustment[b]
    BY <1>6 DEF AdjustLoad, AdjustAbort, ledgerVars, chargeVars, LedgerInv,
                WalletTypeOK, AdjustmentRow
  <2>2. \A v \in Wallets : ReceivedBy(v)' = ReceivedBy(v) /\ MadeTo(v)' = MadeTo(v)
    BY <2>1 DEF ReceivedBy, MadeTo
  <2>3. \A v \in Wallets : Spoiled(v)' <=> Spoiled(v)
    BY <2>1, BackingUntouched DEF ledgerVars
  <2> QED
    BY <2>1, <2>2, <2>3, LedgerUntouched, TotalsKept DEF ledgerVars, Paid, Returned
<1>7. ASSUME NEW a \in Adjustments, AdjustPost(a)
      PROVE  TotalsInv'
  <2> DEFINE w == WalletOf[a]
             key == <<a, "adjust", 0>>
  <2>1. /\ PostWalletEntry(w, key, Amount[a], adjustment[a].balance)
        /\ adjustment' = [adjustment EXCEPT ![a].phase = "posted"]
        /\ adjustment[a].phase = "loaded"
        /\ UNCHANGED <<method, attempt, deposit>>
    BY <1>7 DEF AdjustPost, chargeVars
  <2>2. w \in Wallets /\ wallet[w] \in Row /\ Amount[a] \in Int
    BY DEF LedgerAssumption, Movers, LedgerInv, WalletTypeOK
  <2>3. /\ ~Posted(w, key)
        /\ Spoiled(w)' \/ adjustment[a].balance = wallet[w].available_balance
        /\ \A v \in Wallets : Spoiled(v) => Spoiled(v)'
        /\ \A o \in Orders, n \in Nat : /\ Paid(o, n)' <=> Paid(o, n)
                                        /\ Returned(o, n)' <=> Returned(o, n)
    BY <1>7, AdjustEffect
  <2>4. /\ \A v \in Wallets : v # w => wallet'[v] = wallet[v]
        /\ wallet'[w] = Settle(wallet[w], "adjust", Amount[a],
                               adjustment[a].balance + Amount[a])
    BY <2>1, <2>2, <2>3, PostMoves
  <2>5. /\ adjustment'[a].phase = "posted" /\ adjustment[a].phase # "posted"
        /\ \A b \in Adjustments : b # a => adjustment'[b] = adjustment[b]
    BY <2>1 DEF LedgerInv, WalletTypeOK, AdjustmentRow
  <2>6. \A v \in Wallets :
           /\ IsFiniteSet(MadeTo(v)')
           /\ Made(v)' = IF v = w THEN Made(v) + Amount[a] ELSE Made(v)
    BY <2>5, MadeFollows
  <2>7. Due' = Due /\ \A v \in Wallets : PlacedOn(v)' = PlacedOn(v)
    BY <2>1, <2>3, DueUnchanged DEF PlacedOn
  <2>8. \A v \in Wallets : /\ DueOn(v)' = DueOn(v)
                           /\ ReceivedBy(v)' = ReceivedBy(v)
                           /\ Received(v)' = Received(v)
    BY <2>1, <2>7 DEF DueOn, ReceivedBy, Received
  <2>9. ASSUME NEW v \in Wallets
        PROVE  /\ wallet'[v].total_spent = DueOn(v)'
               /\ ~Spoiled(v)' => wallet'[v].available_balance
                                     = Received(v)' + Made(v)' - DueOn(v)'
    <3>1. /\ wallet[v].total_spent = DueOn(v)
          /\ ~Spoiled(v) =>
                wallet[v].available_balance = Received(v) + Made(v) - DueOn(v)
      BY DEF TotalsInv
    <3>2. DueOn(v) \in Int /\ Made(v) \in Int /\ Received(v) \in Int
      BY DueOnType, BroughtType
    <3>3. CASE v # w
      BY <2>3, <2>4, <2>6, <2>8, <3>1, <3>3
    <3>4. CASE v = w
      <4>1. /\ wallet'[v].total_spent = wallet[v].total_spent
            /\ wallet'[v].available_balance = adjustment[a].balance + Amount[a]
        BY <2>4, <3>4 DEF Settle
      <4>2. Made(v)' = Made(v) + Amount[a]
        BY <2>6, <3>4
      <4>3. ~Spoiled(v)' =>
               adjustment[a].balance = Received(v) + Made(v) - DueOn(v)
        BY <2>3, <3>1, <3>4
      <4> QED
        BY <2>2, <2>8, <3>1, <3>2, <4>1, <4>2, <4>3
    <3> QED
      BY <3>3, <3>4
  <2> QED
    BY <2>3, <2>6, <2>7, <2>8, <2>9 DEF TotalsInv
<1>8. ASSUME UNCHANGED walletVars
      PROVE  TotalsInv'
  <2>1. \A v \in Wallets : /\ ReceivedBy(v)' = ReceivedBy(v) /\ MadeTo(v)' = MadeTo(v)
                           /\ Spoiled(v)' <=> Spoiled(v)
    BY <1>8, BackingUntouched DEF walletVars, ledgerVars, ReceivedBy, MadeTo
  <2> QED
    BY <1>8, <2>1, LedgerUntouched, TotalsKept DEF walletVars, ledgerVars, Paid, Returned
<1> QED
  BY <1>1, <1>2, <1>3, <1>4, <1>5, <1>6, <1>7, <1>8 DEF StaleWalletNext, WalletMove

LEMMA TotalsMeaning ==
    ASSUME TotalsInv
    PROVE  TotalSpentIsOutstanding /\ MoneyIsConserved
BY DEF TotalsInv, TotalSpentIsOutstanding, MoneyIsConserved, OutstandingOn, DueOn,
       Due, Spoiled, Received, Made

----------------------------------------------------------------------------
(* The theorems.                                                            *)

\* Whatever requests reach the wallets and in whatever order, the inductive
\* invariants of the wallet hold.
THEOREM WalletInvariance == WalletSpec => [](WalletInv /\ TotalsInv)
<1>1. WalletInit => WalletInv /\ TotalsInv
  BY LedgerInvInit, TotalsInit, LedgerAssumption DEF WalletInv
<1>2. WalletInv /\ TotalsInv /\ [WalletNext]_walletVars => (WalletInv /\ TotalsInv)'
  BY OwnStepsAreStale, LedgerInvStep, TotalsStep, LedgerAssumption DEF WalletInv
<1> QED
  BY <1>1, <1>2, PTL DEF WalletSpec

\* The rows and the ledger keep their types; no balance is ever negative.
THEOREM WalletTypeCorrect == WalletSpec => []WalletTypeOK
<1>1. WalletInv => WalletTypeOK
  BY DEF WalletInv, LedgerInv
<1> QED
  BY <1>1, WalletInvariance, PTL

\* The row of every wallet holds the balance its ledger ends with, and the
\* ledger's running balance is right at every entry but an adjustment that
\* other entries overtook.
THEOREM LedgerAlwaysBacksBalance == WalletSpec => []LedgerBacksBalance
<1>1. WalletInv => LedgerBacksBalance
  BY DEF WalletInv, LedgerInv
<1> QED
  BY <1>1, WalletInvariance, PTL

\* However often an order is charged again and refunded, at most its last
\* charge is outstanding, and that one exactly while the order says so.
THEOREM ChargedAtMostOnce == WalletSpec => []OneOutstandingCharge
<1>1. WalletInv => OneOutstandingCharge
  BY LedgerAssumption DEF WalletInv, ChargesFollowAttempts, OneOutstandingCharge
<1> QED
  BY <1>1, WalletInvariance, PTL

\* A deposit is confirmed exactly when its one credit is in the ledger.
THEOREM DepositCreditedOnce == WalletSpec => []ConfirmedIffCredited
<1>1. WalletInv => ConfirmedIffCredited
  BY DEF WalletInv, LedgerInv
<1> QED
  BY <1>1, WalletInvariance, PTL

\* total_spent of every wallet is the cost of the charges that are outstanding,
\* for any number of orders, whatever was charged again, refunded or refunded
\* twice.
THEOREM SpentIsOutstanding == WalletSpec => []TotalSpentIsOutstanding
BY TotalsMeaning, WalletInvariance, PTL

\* The balance of a wallet none of whose adjustments was overtaken is what its
\* confirmed deposits and its adjustments brought less what its orders are
\* charged.
THEOREM MoneyStaysConserved == WalletSpec => []MoneyIsConserved
BY TotalsMeaning, WalletInvariance, PTL
=============================================================================
