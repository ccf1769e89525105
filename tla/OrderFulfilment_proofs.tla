----------------------- MODULE OrderFulfilment_proofs -----------------------
(***************************************************************************)
(* What OrderFulfilment promises of money, for any number of orders,       *)
(* workers, administrators, retries and crashes: a refunded order has its  *)
(* payment back, nothing is bought for an order that was not paid, the     *)
(* books of its wallets are in order, and only stale reads leave the       *)
(* transition table.                                                       *)
(*                                                                         *)
(* The argument is one inductive invariant.  A worker or an endpoint acts  *)
(* on an order it took up in an earlier transaction, so what it knew then  *)
(* must still hold: that the order exists and is paid, and, of an          *)
(* administrator's retry, that the attempt it would give back was charged. *)
(* The wallets then move as StaleWalletSpec allows.  That they move as     *)
(* WalletSpec does, and an order has one outstanding charge at most, needs *)
(* that administrators retry one at a time (OneRetry): of two at once, one *)
(* can give back an attempt that is no longer the last.                    *)
(***************************************************************************)
EXTENDS OrderFulfilment, WalletLedger_proofs

OneRetry == \A a, b \in Admins : a = b

----------------------------------------------------------------------------
(* The parts of the inductive invariant.                                    *)

\* What a handler takes up is paid, and what is paid was placed.
OrdersPaid ==
    /\ \A o \in Orders :
          /\ paid[o] \/ status[o] # "NONE" => method[o] # "NONE"
          /\ status[o] \notin {"NONE", "WAIT_PAY", "TIMEOUT"} => paid[o]
          /\ announce[o] # "no" \/ runner[o] # "idle" => paid[o]
    /\ NothingBoughtUnpaid

WorkersPaid ==
    \A w \in Workers : worker[w].pc # "idle" =>
        worker[w].order \in Orders /\ paid[worker[w].order]

AdminsPaid ==
    \A a \in Admins : admin[a].pc # "idle" =>
        admin[a].order \in Orders /\ paid[admin[a].order]

PaidFirst == OrdersPaid /\ WorkersPaid /\ AdminsPaid

\* The payment attempt that a retry holds was charged.
RetryWasCharged ==
    \A a \in Admins : admin[a].pc # "idle" /\ admin[a].attempt # 0 =>
        Paid(admin[a].order, admin[a].attempt)

\* It is still the last one, and a refund the administrator saw has not been
\* charged again.
RetryIsCurrent ==
    \A a \in Admins : admin[a].pc # "idle" =>
        /\ admin[a].attempt = attempt[admin[a].order]
        /\ admin[a].pc = "read" /\ admin[a].refunded => refunded[admin[a].order]

\* References point at orders the provider has.
ReferencesExist ==
    /\ \A o \in Orders : reference[o] <= Len(provider[o])
                         /\ Len(provider[o]) <= MaxRefs
    /\ \A w \in Workers : worker[w].pc # "idle" =>
          worker[w].ref <= Len(provider[worker[w].order])

MoneyInv ==
    /\ LedgerInv
    /\ OrderTypeOK
    /\ PaidFirst
    /\ RetryWasCharged
    /\ RefundedMeansReturned

OrderInv == MoneyInv /\ TotalsInv /\ ReferencesExist

----------------------------------------------------------------------------
(* What the shared effects do.                                              *)

\* A failed order moves the wallet as GiveBack does, or not at all; it ends
\* in FAILED or, with its payment given back, in REFUNDED.
LEMMA FailEffect ==
    ASSUME MoneyInv, NEW o \in Orders, FailAndRefund(o)
    PROVE  /\ [WalletNext]_walletVars
           /\ method' = method /\ attempt' = attempt
           /\ refunded' \in [Orders -> BOOLEAN]
           /\ \A p \in Orders : refunded[p] => refunded'[p]
           /\ status' \in [Orders -> OrderStatus \cup {"NONE"}]
           /\ \A p \in Orders : p # o => status'[p] = status[p]
           /\ status'[o] \in {"FAILED", "REFUNDED"}
           /\ status'[o] = "REFUNDED" =>
                 /\ method[o] = "WALLET_BALANCE"
                 /\ Paid(o, attempt[o])' /\ Returned(o, attempt[o])'
<1>1. /\ status \in [Orders -> OrderStatus \cup {"NONE"}]
      /\ refunded \in [Orders -> BOOLEAN] /\ attempt \in [Orders -> Nat]
      /\ UNCHANGED <<method, deposit, adjustment>>
      /\ LedgerInv /\ RefundedMeansReturned
  BY DEF MoneyInv, OrderTypeOK, WalletTypeOK, FailAndRefund
<1>2. CASE Refundable(o, attempt[o], refunded[o])
  <2>1. /\ ~refunded[o] /\ method[o] = "WALLET_BALANCE"
        /\ Refundable(o, attempt[o], FALSE)
    BY <1>2 DEF Refundable
  <2>2. /\ RefundOrderBalance(o, attempt[o], FALSE)
        /\ status' = [status EXCEPT ![o] = "REFUNDED"]
    BY <1>2, <2>1 DEF FailAndRefund, RefundOrderBalance
  <2>3. GiveBack(o) /\ attempt[o] \in Nat
    BY <1>1, <2>1, <2>2 DEF GiveBack
  <2>4. WalletNext
    BY <2>3 DEF WalletNext
  <2>5. GiveBackStale(o, attempt[o]) /\ Paid(o, attempt[o])
    BY <1>1, <2>3, OwnChargesAreStale DEF GiveBackStale
  <2>6. /\ attempt' = attempt
        /\ refunded' = [refunded EXCEPT ![o] = TRUE]
        /\ \A k \in Nat : /\ Paid(o, k)' <=> Paid(o, k)
                          /\ Returned(o, k)' <=> Returned(o, k) \/ k = attempt[o]
    BY <1>1, <2>3, <2>5, RefundEffect, LedgerAssumption
  <2>7. Paid(o, attempt[o])' /\ Returned(o, attempt[o])'
    BY <2>3, <2>5, <2>6 DEF Paid, Returned
  <2> QED
    BY <1>1, <2>1, <2>2, <2>4, <2>6, <2>7 DEF OrderStatus
<1>3. CASE ~Refundable(o, attempt[o], refunded[o])
  <2>1. /\ UNCHANGED walletVars
        /\ status' = [status EXCEPT ![o] =
                        IF @ = "REFUNDED" THEN "REFUNDED" ELSE "FAILED"]
    BY <1>1, <1>3 DEF FailAndRefund, RefundOrderBalance, walletVars
  <2>2. UNCHANGED <<method, attempt, refunded>> /\ UNCHANGED ledgerVars
    BY <2>1 DEF walletVars, ledgerVars
  <2>3. status[o] = "REFUNDED" =>
           /\ method[o] = "WALLET_BALANCE"
           /\ Paid(o, attempt[o])' /\ Returned(o, attempt[o])'
    BY <1>1, <2>2, LedgerUntouched DEF RefundedMeansReturned, Paid, Returned
  <2> QED
    BY <1>1, <2>1, <2>2, <2>3 DEF OrderStatus
<1> QED
  BY <1>2, <1>3

\* A retry moves the wallet as ChargeStale does, or not at all, and afterwards
\* holds an attempt that is charged; when the order is still as the
\* administrator read it, the wallet moves as ChargeAgain does.
LEMMA RetryEffect ==
    ASSUME MoneyInv, NEW a \in Admins, AdminCommit(a), NEW o, o = admin[a].order
    PROVE  /\ [StaleWalletNext]_walletVars
           /\ o \in Orders /\ paid[o]
           /\ method' = method
           /\ \A p \in Orders : p # o => /\ attempt'[p] = attempt[p]
                                         /\ refunded'[p] = refunded[p]
           /\ status' = [status EXCEPT ![o] = "PROCESSING"]
           /\ admin' \in [Admins -> Request]
           /\ admin'[a].pc = "commit" /\ admin'[a].order = o
           /\ \E m \in Nat : /\ admin'[a].attempt = m
                             /\ m # 0 => Paid(o, m)'
           /\ RetryIsCurrent => /\ [WalletNext]_walletVars
                                /\ admin'[a].attempt = attempt'[o]
<1> DEFINE n == admin[a].attempt
<1>1. /\ admin \in [Admins -> Request] /\ n \in Nat
      /\ attempt \in [Orders -> Nat] /\ refunded \in [Orders -> BOOLEAN]
      /\ admin[a].pc = "read"
      /\ o \in Orders /\ paid[o]
      /\ n # 0 => Paid(o, n)
      /\ UNCHANGED <<method, deposit, adjustment>>
      /\ status' = [status EXCEPT ![o] = "PROCESSING"]
  BY DEF MoneyInv, OrderTypeOK, WalletTypeOK, PaidFirst, AdminsPaid, RetryWasCharged,
         AdminCommit, Request
<1>2. CASE Charges(a)
  <2>1. /\ n < MaxAttempt /\ DebitOrderBalance(o, n)
        /\ method[o] = "WALLET_BALANCE" /\ admin[a].refunded
        /\ admin' = [admin EXCEPT ![a] = [admin[a] EXCEPT !.pc = "commit",
                        !.attempt = n + 1, !.refunded = FALSE]]
    BY <1>2 DEF AdminCommit, Charges
  <2>2. ChargeStale(o, n)
    BY <1>1, <2>1 DEF ChargeStale
  <2>3. StaleWalletNext
    BY <1>1, <2>2 DEF StaleWalletNext
  <2>4. /\ attempt'[o] = n + 1
        /\ \A p \in Orders : p # o => /\ attempt'[p] = attempt[p]
                                      /\ refunded'[p] = refunded[p]
        /\ \A k \in Nat : k = n + 1 => Paid(o, k)'
    <3>1. LedgerInv /\ n + 1 \in Nat
      BY <1>1 DEF MoneyInv
    <3> HIDE DEF n
    <3> QED
      BY <1>1, <2>1, <3>1, DebitEffect, LedgerAssumption
  <2>5. \A r \in Request, m \in Nat :
           [r EXCEPT !.pc = "commit", !.attempt = m, !.refunded = FALSE] \in Request
    BY DEF Request
  <2>6. /\ admin' \in [Admins -> Request]
        /\ admin'[a].pc = "commit" /\ admin'[a].order = o
        /\ admin'[a].attempt = n + 1
    <3>1. admin[a] \in Request /\ n + 1 \in Nat
      BY <1>1
    <3>2. admin'[a] = [admin[a] EXCEPT !.pc = "commit", !.attempt = n + 1,
                                       !.refunded = FALSE]
      BY <1>1, <2>1
    <3>3. admin' \in [Admins -> Request]
      BY <1>1, <2>1, <2>5, <3>1
    <3> QED
      BY <3>1, <3>2, <3>3 DEF Request
  <2>7. \E m \in Nat : /\ admin'[a].attempt = m
                       /\ m # 0 => Paid(o, m)'
    <3>1. n + 1 \in Nat
      BY <1>1
    <3> QED
      BY <2>4, <2>6, <3>1
  <2>8. ASSUME RetryIsCurrent
        PROVE  WalletNext
    <3>1. n = attempt[o] /\ refunded[o]
      BY <1>1, <2>1, <2>8 DEF RetryIsCurrent
    <3>2. ChargeAgain(o)
      BY <1>1, <2>1, <3>1 DEF ChargeAgain
    <3> QED
      BY <1>1, <3>2 DEF WalletNext
  <2> QED
    BY <1>1, <2>3, <2>4, <2>6, <2>7, <2>8
<1>3. CASE ~Charges(a)
  <2>1. /\ admin' = [admin EXCEPT ![a] = [admin[a] EXCEPT !.pc = "commit"]]
        /\ UNCHANGED <<wallet, ledger, attempt, refunded>>
    BY <1>3 DEF AdminCommit
  <2>2. UNCHANGED walletVars /\ UNCHANGED ledgerVars
    BY <1>1, <2>1 DEF walletVars, ledgerVars
  <2>3. /\ admin' \in [Admins -> Request]
        /\ admin'[a].pc = "commit" /\ admin'[a].order = o
        /\ admin'[a].attempt = n
    BY <1>1, <2>1 DEF Request
  <2>4. \A k : Paid(o, k) => Paid(o, k)'
    BY <2>1 DEF Paid, Posted
  <2>5. \E m \in Nat : /\ admin'[a].attempt = m
                       /\ m # 0 => Paid(o, m)'
    BY <1>1, <2>3, <2>4
  <2>6. RetryIsCurrent => n = attempt'[o]
    BY <1>1, <2>1 DEF RetryIsCurrent
  <2> QED
    BY <1>1, <2>1, <2>2, <2>3, <2>5, <2>6
<1> QED
  BY <1>2, <1>3

\* What a task becomes keeps the order it is about.
LEMMA TaskUpdate ==
    ASSUME OrderAssumption
    PROVE  \A t \in Task :
              /\ [t EXCEPT !.pc = "call"] \in Task
              /\ [t EXCEPT !.pc = "call"].order = t.order
              /\ [t EXCEPT !.pc = "call"].ref = t.ref
              /\ Failed(t) \in Task /\ Failed(t).order = t.order /\ Failed(t).ref = 0
              /\ \A k \in 0..MaxRefs :
                    /\ [t EXCEPT !.pc = "save", !.ref = k] \in Task
                    /\ [t EXCEPT !.pc = "save", !.ref = k].order = t.order
                    /\ [t EXCEPT !.pc = "save", !.ref = k].ref = k
              /\ \A q \in Replies :
                    LET u == [t EXCEPT !.pc = "apply", !.ref = 0, !.reply = q]
                    IN  u \in Task /\ u.order = t.order /\ u.ref = 0
<1> SUFFICES ASSUME NEW t \in Task
             PROVE  /\ [t EXCEPT !.pc = "call"] \in Task
                    /\ [t EXCEPT !.pc = "call"].order = t.order
                    /\ [t EXCEPT !.pc = "call"].ref = t.ref
                    /\ Failed(t) \in Task /\ Failed(t).order = t.order
                    /\ Failed(t).ref = 0
                    /\ \A k \in 0..MaxRefs :
                         /\ [t EXCEPT !.pc = "save", !.ref = k] \in Task
                         /\ [t EXCEPT !.pc = "save", !.ref = k].order = t.order
                         /\ [t EXCEPT !.pc = "save", !.ref = k].ref = k
                    /\ \A q \in Replies :
                         LET u == [t EXCEPT !.pc = "apply", !.ref = 0, !.reply = q]
                         IN  u \in Task /\ u.order = t.order /\ u.ref = 0
  OBVIOUS
<1>1. 0 \in 0..MaxRefs /\ "PENDING" \in Replies
  BY DEF OrderAssumption, Replies
<1>2. /\ [t EXCEPT !.pc = "call"] \in Task
      /\ [t EXCEPT !.pc = "call"].order = t.order
      /\ [t EXCEPT !.pc = "call"].ref = t.ref
  BY DEF Task
<1>3. Failed(t) \in Task /\ Failed(t).order = t.order /\ Failed(t).ref = 0
  BY <1>1 DEF Task, Failed
<1>4. ASSUME NEW k \in 0..MaxRefs
      PROVE  /\ [t EXCEPT !.pc = "save", !.ref = k] \in Task
             /\ [t EXCEPT !.pc = "save", !.ref = k].order = t.order
             /\ [t EXCEPT !.pc = "save", !.ref = k].ref = k
  BY DEF Task
<1>5. ASSUME NEW q \in Replies
      PROVE  LET u == [t EXCEPT !.pc = "apply", !.ref = 0, !.reply = q]
             IN  u \in Task /\ u.order = t.order /\ u.ref = 0
  BY <1>1 DEF Task
<1> QED
  BY <1>2, <1>3, <1>4, <1>5, Zenon

\* A worker goes on with its order or is done with it.
LEMMA WorkerEffect ==
    ASSUME OrderAssumption, OrderInv, NEW w \in Workers,
           WorkerStep(w) \/ WorkerCrash(w)
    PROVE  /\ worker' \in [Workers -> Task]
           /\ worker'[w].pc # "idle" => worker'[w].order = worker[w].order
           /\ \A v \in Workers : v # w => worker'[v] = worker[v]
<1>1. /\ worker \in [Workers -> Task] /\ worker[w] \in Task
      /\ provider \in [Orders -> Seq({"OPEN", "DELIVERED", "FAILED"})]
      /\ MaxRefs \in Nat /\ MaxRetries \in Nat
      /\ worker[w].pc # "idle" =>
            /\ worker[w].order \in Orders
            /\ worker[w].ref \in 0..Len(provider[worker[w].order])
  BY DEF OrderInv, MoneyInv, OrderTypeOK, Task, OrderAssumption, PaidFirst,
         WorkersPaid, ReferencesExist
<1>2. Idle \in Task /\ Idle.pc = "idle"
  BY <1>1 DEF Idle, Task, Replies
<1>3. SUFFICES \E t \in Task : /\ worker' = [worker EXCEPT ![w] = t]
                               /\ t.pc # "idle" => t.order = worker[w].order
  BY <1>1
<1>4. Failed(worker[w]) \in Task /\ Failed(worker[w]).order = worker[w].order
  BY <1>1, TaskUpdate, Zenon
<1>5. CASE CreateAtProvider(w)
  <2> DEFINE k == Len(provider[worker[w].order]) + 1
             t == [worker[w] EXCEPT !.pc = "save", !.ref = k]
  <2>1. k \in 0..MaxRefs
    <3>1. worker[w].order \in Orders /\ Len(provider[worker[w].order]) < MaxRefs
      BY <1>1, <1>5 DEF CreateAtProvider, Holding
    <3>2. Len(provider[worker[w].order]) \in Nat
      BY <1>1, <3>1
    <3> QED
      BY <1>1, <3>1, <3>2
  <2>2. t \in Task /\ t.order = worker[w].order
    <3> HIDE DEF k
    <3> QED
      BY <1>1, <2>1, TaskUpdate, Zenon
  <2> QED
    BY <1>4, <1>5, <2>2 DEF CreateAtProvider
<1>6. CASE SaveReference(w)
  <2> DEFINE t == [worker[w] EXCEPT !.pc = "call"]
  <2>1. t \in Task /\ t.order = worker[w].order
    BY <1>1, TaskUpdate, Zenon
  <2> QED
    BY <1>6, <2>1 DEF SaveReference
<1>7. CASE WorkerError(w)
  BY <1>4, <1>7 DEF WorkerError
<1>8. CASE AskProvider(w)
  <2>1. PICK now \in Observed(worker[w].order, worker[w].ref) :
           worker' = [worker EXCEPT ![w].pc = "apply", ![w].ref = 0,
                                    ![w].reply = Report[now]]
    BY <1>8 DEF AskProvider
  <2>2. Report[now] \in Replies
    <3>1. /\ worker[w].order \in Orders
          /\ worker[w].ref \in 1..Len(provider[worker[w].order])
      BY <1>1, <1>8 DEF AskProvider, Holding
    <3>2. provider[worker[w].order][worker[w].ref]
             \in {"OPEN", "DELIVERED", "FAILED"}
      BY <1>1, <3>1
    <3>3. now \in {"OPEN", "DELIVERED", "FAILED"}
      BY <2>1, <3>2 DEF Observed, Report
    <3> QED
      BY <3>3 DEF Report, Replies
  <2> DEFINE t == [worker[w] EXCEPT !.pc = "apply", !.ref = 0,
                                    !.reply = Report[now]]
  <2>3. t \in Task /\ t.order = worker[w].order
    BY <1>1, <2>2, TaskUpdate, Zenon
  <2> QED
    BY <2>1, <2>3
<1>9. CASE \/ ApplySuccess(w) \/ ApplyFailure(w) \/ ApplyPending(w)
           \/ Retry(w) \/ GiveUp(w) \/ WorkerCrash(w)
  BY <1>2, <1>9 DEF ApplySuccess, ApplyFailure, ApplyPending, Retry, GiveUp,
                    WorkerCrash
<1> QED
  BY <1>5, <1>6, <1>7, <1>8, <1>9 DEF WorkerStep

----------------------------------------------------------------------------
(* Every step moves the wallets as WalletLedger allows.                     *)

\* Without a retry, the wallet moves as it does on its own.
LEMMA OthersMoveWallet ==
    ASSUME MoneyInv, OrderNext, \A a \in Admins : ~AdminStep(a)
    PROVE  [WalletNext]_walletVars
<1>1. CASE WalletMove /\ UNCHANGED orderVars
  BY <1>1 DEF WalletNext
<1>2. ASSUME NEW o \in Orders, PaymentStep(o)
      PROVE  [WalletNext]_walletVars
  <2>1. ASSUME NEW m \in Methods, CreateOrder(o, m)
        PROVE  WalletNext
    BY <2>1 DEF CreateOrder, WalletNext
  <2>2. ASSUME AnnounceRefused(o)
        PROVE  [WalletNext]_walletVars
    BY <2>2, FailEffect DEF AnnounceRefused
  <2> QED
    BY <1>2, <2>1, <2>2 DEF PaymentStep, ConfirmPayment, ExpireOrder, Announce,
                            AnnounceLost
<1>3. ASSUME NEW o \in Orders, Poll(o) \/ ProviderStep(o) \/ RunnerStep(o)
      PROVE  [WalletNext]_walletVars
  <2>1. ASSUME WebhookFailure(o)
        PROVE  [WalletNext]_walletVars
    BY <2>1, FailEffect DEF WebhookFailure
  <2> QED
    BY <1>3, <2>1 DEF Poll, ProviderStep, WebhookSuccess, RunnerStep,
                      RunnerClaim, CaptureRead, CaptureCommit, FailRead,
                      FailCommit, RunnerStops, InternalCapture, ConfirmOnChain
<1>4. ASSUME NEW w \in Workers, NEW o \in Orders, NEW r \in 0..MaxRetries,
             MessageStep(w, o, r)
      PROVE  UNCHANGED walletVars
  BY <1>4 DEF MessageStep, FulfilSkip, FulfilBegin
<1>5. ASSUME NEW w \in Workers, WorkerStep(w) \/ WorkerCrash(w)
      PROVE  [WalletNext]_walletVars
  <2>1. worker[w].pc # "idle" => worker[w].order \in Orders
    BY DEF MoneyInv, PaidFirst, WorkersPaid
  <2>2. ASSUME ApplyFailure(w)
        PROVE  [WalletNext]_walletVars
    BY <2>1, <2>2, FailEffect DEF ApplyFailure, Holding
  <2>3. ASSUME GiveUp(w)
        PROVE  [WalletNext]_walletVars
    BY <2>1, <2>3, FailEffect DEF GiveUp, Holding
  <2> QED
    BY <1>5, <2>2, <2>3 DEF WorkerStep, WorkerCrash, CreateAtProvider,
                            SaveReference, AskProvider, ApplySuccess,
                            ApplyPending, WorkerError, Retry
<1> QED
  BY <1>1, <1>2, <1>3, <1>4, <1>5 DEF OrderNext

\* A retry charges and gives back the attempt it holds.
LEMMA AdminMovesWallet ==
    ASSUME MoneyInv, NEW a \in Admins, AdminStep(a)
    PROVE  /\ [StaleWalletNext]_walletVars
           /\ RetryIsCurrent => [WalletNext]_walletVars
<1>1. CASE AdminCommit(a)
  BY <1>1, RetryEffect
<1>2. CASE AdminSendRefused(a)
  <2> DEFINE o == admin[a].order
             n == admin[a].attempt
  <2>1. /\ o \in Orders /\ n \in Nat
        /\ n # 0 => Paid(o, n)
        /\ RetryIsCurrent => n = attempt[o]
        /\ RefundOrderBalance(o, n, admin[a].refunded)
        /\ UNCHANGED <<method, deposit, adjustment>>
    BY <1>2 DEF MoneyInv, PaidFirst, AdminsPaid, OrderTypeOK, Request, RetryWasCharged,
                RetryIsCurrent, AdminSendRefused
  <2> HIDE DEF o, n
  <2>2. CASE Refundable(o, n, admin[a].refunded)
    <3>1. /\ Refundable(o, n, FALSE) /\ Paid(o, n)
          /\ RefundOrderBalance(o, n, FALSE)
      BY <2>1, <2>2 DEF Refundable, RefundOrderBalance
    <3>2. GiveBackStale(o, n)
      BY <2>1, <3>1 DEF GiveBackStale
    <3>3. n = attempt[o] => GiveBack(o)
      BY <2>1, <3>1 DEF GiveBack
    <3> QED
      BY <2>1, <3>2, <3>3 DEF StaleWalletNext, WalletNext
  <2>3. CASE ~Refundable(o, n, admin[a].refunded)
    BY <2>1, <2>3 DEF RefundOrderBalance, walletVars
  <2> QED
    BY <2>2, <2>3
<1>3. CASE AdminRead(a) \/ AdminRefused(a) \/ AdminSend(a) \/ AdminCrash(a)
  BY <1>3 DEF AdminRead, AdminRefused, AdminSend, AdminCrash
<1> QED
  BY <1>1, <1>2, <1>3 DEF AdminStep

\* Every step, then, moves the wallet by attempts that were charged, and while
\* retries are current it moves as the wallet does on its own.
LEMMA StepMovesWallet ==
    ASSUME MoneyInv, OrderNext
    PROVE  /\ [StaleWalletNext]_walletVars
           /\ RetryIsCurrent => [WalletNext]_walletVars
<1>1. CASE \A a \in Admins : ~AdminStep(a)
  BY <1>1, OthersMoveWallet, OwnStepsAreStale DEF MoneyInv
<1>2. CASE \E a \in Admins : AdminStep(a)
  BY <1>2, AdminMovesWallet
<1> QED
  BY <1>1, <1>2

----------------------------------------------------------------------------
(* Every step keeps the invariant.                                          *)

\* A step that leaves alone what PaidFirst speaks of, for the most part.
LEMMA PaidKept ==
    ASSUME PaidFirst, \A o \in Orders : paid[o] => paid'[o]
    PROVE  /\ UNCHANGED worker => WorkersPaid'
           /\ UNCHANGED admin => AdminsPaid'
BY DEF PaidFirst, WorkersPaid, AdminsPaid

LEMMA StepKeepsPaid ==
    ASSUME OrderAssumption, OrderInv, OrderNext
    PROVE  PaidFirst'
<1> USE DEF OrderInv, MoneyInv, PaidFirst
<1>0. /\ status \in [Orders -> OrderStatus \cup {"NONE"}]
      /\ paid \in [Orders -> BOOLEAN]
      /\ method \in [Orders -> Methods \cup {"NONE"}]
      /\ provider \in [Orders -> Seq({"OPEN", "DELIVERED", "FAILED"})]
      /\ job \in [Orders -> Owned \cup {"NONE", "QUEUED", "RETRY_WAIT"}]
      /\ tx \in [Orders -> {"NONE", "MANUAL_REVIEW", "SIMULATED", "BROADCASTED",
                           "CONFIRMED"}]
      /\ announce \in [Orders -> {"no", "create", "pay"}]
      /\ runner \in [Orders -> RunnerPhases]
      /\ worker \in [Workers -> Task]
      /\ admin \in [Admins -> Request]
  BY DEF OrderTypeOK, WalletTypeOK
<1>1. CASE WalletMove /\ UNCHANGED orderVars
  <2>1. UNCHANGED method
    BY <1>1 DEF WalletMove, CreditDeposit, ExpireDeposit, AdjustLoad, AdjustPost,
                AdjustAbort, chargeVars
  <2> QED
    BY <1>1, <2>1, PaidKept DEF orderVars, OrdersPaid, NothingBoughtUnpaid
<1>2. ASSUME NEW o \in Orders, PaymentStep(o)
      PROVE  PaidFirst'
  <2>0. UNCHANGED <<worker, admin, provider, job, tx, runner>>
    BY <1>2 DEF PaymentStep, CreateOrder, ConfirmPayment, ExpireOrder, Announce,
                AnnounceRefused, AnnounceLost, requestVars, purchaseVars
  <2>1. ASSUME NEW m \in Methods, CreateOrder(o, m)
        PROVE  PaidFirst'
    <3>1. /\ method[o] = "NONE" /\ ~paid[o]
          /\ method' = [method EXCEPT ![o] = m]
          /\ paid' = [paid EXCEPT ![o] = m = "WALLET_BALANCE"]
          /\ status' = [status EXCEPT ![o] =
                          IF m = "WALLET_BALANCE" THEN "PAID" ELSE "WAIT_PAY"]
          /\ announce' = [announce EXCEPT ![o] =
                            IF m = "WALLET_BALANCE" THEN "create" ELSE @]
      BY <2>1 DEF CreateOrder, PlaceOrder, OrdersPaid
    <3>2. OrdersPaid'
      BY <1>0, <2>0, <3>1, ZenonT(40) DEF OrdersPaid, NothingBoughtUnpaid, Methods
    <3> QED
      BY <1>0, <2>0, <3>1, <3>2, PaidKept
  <2>2. ASSUME AnnounceRefused(o)
        PROVE  PaidFirst'
    <3>1. paid[o]
      BY <2>2 DEF AnnounceRefused, OrdersPaid
    <3>2. OrdersPaid'
      BY <1>0, <2>0, <2>2, <3>1, FailEffect
      DEF AnnounceRefused, OrdersPaid, NothingBoughtUnpaid
    <3> QED
      BY <2>0, <2>2, <3>2, PaidKept DEF AnnounceRefused
  <2>3. ASSUME \/ ConfirmPayment(o) \/ ExpireOrder(o) \/ Announce(o)
               \/ AnnounceLost(o)
        PROVE  PaidFirst'
    <3>1. UNCHANGED method
      BY <2>3 DEF ConfirmPayment, ExpireOrder, Announce, AnnounceLost, walletVars
    <3>2. paid[o] => paid'[o]
      BY <1>0, <2>3
      DEF ConfirmPayment, ExpireOrder, Announce, AnnounceLost, orderRow
    <3>3. \A p \in Orders : p # o => /\ paid'[p] = paid[p]
                                    /\ status'[p] = status[p]
                                    /\ announce'[p] = announce[p]
      BY <1>0, <2>3 DEF ConfirmPayment, ExpireOrder, Announce, AnnounceLost,
                        orderRow, requestVars
    <3>4. /\ paid'[o] \/ status'[o] # "NONE" => method[o] # "NONE"
          /\ status'[o] \notin {"NONE", "WAIT_PAY", "TIMEOUT"} => paid'[o]
          /\ announce'[o] # "no" => paid'[o]
      <4>1. CASE ConfirmPayment(o)
        BY <1>0, <4>1 DEF ConfirmPayment, OrdersPaid
      <4>2. CASE ExpireOrder(o)
        BY <1>0, <4>2 DEF ExpireOrder, OrdersPaid, requestVars
      <4>3. CASE Announce(o) \/ AnnounceLost(o)
        BY <1>0, <4>3 DEF Announce, AnnounceLost, OrdersPaid, orderRow
      <4> QED
        BY <2>3, <4>1, <4>2, <4>3
    <3>5. OrdersPaid'
      BY <2>0, <3>1, <3>2, <3>3, <3>4 DEF OrdersPaid, NothingBoughtUnpaid
    <3> QED
      BY <2>0, <3>2, <3>3, <3>5, PaidKept
  <2> QED
    BY <1>2, <2>1, <2>2, <2>3 DEF PaymentStep
<1>3. ASSUME NEW o \in Orders, Poll(o) \/ ProviderStep(o) \/ RunnerStep(o)
      PROVE  PaidFirst'
  <2>1. UNCHANGED <<paid, announce, worker, admin>>
    BY <1>3 DEF Poll, ProviderStep, WebhookSuccess, WebhookFailure, RunnerStep,
                RunnerClaim, CaptureRead, CaptureCommit, FailRead, FailCommit,
                RunnerStops, InternalCapture, ConfirmOnChain, orderRow, requestVars
  <2>2. CASE Poll(o)
    BY <1>0, <2>1, <2>2, PaidKept
    DEF Poll, walletVars, orderRow, purchaseVars, OrdersPaid, NothingBoughtUnpaid
  <2>3. ASSUME Reported(o, "DELIVERED") \/ Reported(o, "FAILED")
        PROVE  /\ paid[o]
               /\ \A p \in Orders : provider'[p] # <<>> => paid[p]
    <3>1. paid[o]
      BY <2>3 DEF Reported, Active, OrdersPaid
    <3>2. \A p \in Orders : p # o => provider'[p] = provider[p]
      BY <1>0, <2>3 DEF Reported
    <3> QED
      BY <3>1, <3>2 DEF OrdersPaid, NothingBoughtUnpaid
  <2>4. CASE WebhookSuccess(o)
    BY <1>0, <2>1, <2>3, <2>4, PaidKept
    DEF WebhookSuccess, OrdersPaid, NothingBoughtUnpaid, walletVars
  <2>5. CASE WebhookFailure(o)
    <3>1. /\ Reported(o, "FAILED") /\ FailAndRefund(o)
          /\ UNCHANGED <<job, tx, runner>>
      BY <2>5 DEF WebhookFailure
    <3>2. /\ method' = method
          /\ \A p \in Orders : p # o => status'[p] = status[p]
      BY <3>1, FailEffect
    <3>3. OrdersPaid'
      BY <2>1, <2>3, <3>1, <3>2 DEF OrdersPaid, NothingBoughtUnpaid
    <3> QED
      BY <2>1, <3>3, PaidKept
  <2>6. CASE RunnerStep(o)
    <3>1. UNCHANGED <<method, provider>>
      BY <2>6 DEF RunnerStep, RunnerClaim, CaptureRead, CaptureCommit, FailRead,
                  FailCommit, RunnerStops, InternalCapture, ConfirmOnChain, walletVars,
                  purchaseVars
    <3>2. paid[o]
      BY <2>6 DEF RunnerStep, RunnerClaim, CaptureRead, CaptureCommit, FailRead,
                  FailCommit, RunnerStops, InternalCapture, ConfirmOnChain, OrdersPaid,
                  NothingBoughtUnpaid
    <3>3. \A p \in Orders : p # o =>
             /\ status'[p] = status[p] /\ job'[p] = job[p]
             /\ tx'[p] = tx[p] /\ runner'[p] = runner[p]
      BY <1>0, <2>6 DEF RunnerStep, RunnerClaim, CaptureRead, CaptureCommit,
                        FailRead, FailCommit, RunnerStops, InternalCapture, ConfirmOnChain,
                        orderRow, purchaseVars
    <3>4. OrdersPaid'
      BY <2>1, <3>1, <3>2, <3>3 DEF OrdersPaid, NothingBoughtUnpaid
    <3> QED
      BY <2>1, <3>4, PaidKept
  <2> QED
    BY <1>3, <2>2, <2>4, <2>5, <2>6 DEF ProviderStep
<1>4. ASSUME NEW w \in Workers, NEW o \in Orders, NEW r \in 0..MaxRetries,
             MessageStep(w, o, r)
      PROVE  PaidFirst'
  <2>1. /\ UNCHANGED <<method, paid, announce, admin, provider, job, tx, runner>>
        /\ \A p \in Orders : p # o => status'[p] = status[p]
    BY <1>0, <1>4 DEF MessageStep, FulfilSkip, FulfilBegin, walletVars, orderRow,
                      purchaseVars, requestVars
  <2>2. CASE FulfilSkip(w, o, r)
    BY <2>1, <2>2, PaidKept
    DEF FulfilSkip, orderRow, OrdersPaid, NothingBoughtUnpaid
  <2>3. CASE FulfilBegin(w, o, r)
    <3>1. paid[o]
      BY <2>3 DEF FulfilBegin, Fulfillable, OrdersPaid
    <3>2. OrdersPaid'
      BY <2>1, <3>1 DEF OrdersPaid, NothingBoughtUnpaid
    <3>3. WorkersPaid'
      BY <1>0, <2>1, <2>3, <3>1 DEF FulfilBegin, WorkersPaid
    <3> QED
      BY <2>1, <3>2, <3>3, PaidKept
  <2> QED
    BY <1>4, <2>2, <2>3 DEF MessageStep
<1>5. ASSUME NEW w \in Workers, WorkerStep(w) \/ WorkerCrash(w)
      PROVE  PaidFirst'
  <2> DEFINE o == worker[w].order
  <2>1. o \in Orders /\ paid[o]
    BY <1>5 DEF WorkerStep, WorkerCrash, CreateAtProvider, SaveReference,
                AskProvider, ApplySuccess, ApplyFailure, ApplyPending,
                WorkerError, Retry, GiveUp, Holding, WorkersPaid
  <2>2. UNCHANGED <<paid, announce, admin, tx, runner>>
    BY <1>5 DEF WorkerStep, WorkerCrash, CreateAtProvider, SaveReference,
                AskProvider, ApplySuccess, ApplyFailure, ApplyPending,
                WorkerError, Retry, GiveUp, orderRow, purchaseVars, requestVars
  <2>3. UNCHANGED method
    BY <1>5 DEF WorkerStep, WorkerCrash, CreateAtProvider, SaveReference,
                AskProvider, ApplySuccess, ApplyFailure, ApplyPending,
                WorkerError, Retry, GiveUp, walletVars, FailAndRefund
  <2>4. \A p \in Orders : p # o => provider'[p] = provider[p] /\ job'[p] = job[p]
    BY <1>0, <1>5 DEF WorkerStep, WorkerCrash, CreateAtProvider, SaveReference,
                AskProvider, ApplySuccess, ApplyFailure, ApplyPending,
                WorkerError, Retry, GiveUp, purchaseVars
  <2>5. \A p \in Orders : p # o => status'[p] = status[p]
    BY <1>0, <1>5 DEF WorkerStep, WorkerCrash, CreateAtProvider, SaveReference,
                AskProvider, ApplySuccess, ApplyFailure, ApplyPending,
                WorkerError, Retry, GiveUp, orderRow, FailAndRefund
  <2>6. OrdersPaid'
    BY <2>1, <2>2, <2>3, <2>4, <2>5 DEF OrdersPaid, NothingBoughtUnpaid
  <2>7. /\ worker'[w].pc # "idle" => worker'[w].order = o
        /\ \A v \in Workers : v # w => worker'[v] = worker[v]
    BY <1>5, WorkerEffect
  <2>8. WorkersPaid'
    BY <2>1, <2>2, <2>7 DEF WorkersPaid
  <2> QED
    BY <2>2, <2>6, <2>8, PaidKept
<1>6. ASSUME NEW a \in Admins, AdminStep(a)
      PROVE  PaidFirst'
  <2>1. UNCHANGED <<method, paid, announce, worker, provider, job, tx, runner>>
    BY <1>6 DEF AdminStep, AdminRead, AdminCommit, AdminRefused, AdminSend,
                AdminSendRefused, AdminCrash, walletVars, orderRow, purchaseVars
  <2>2. CASE AdminRead(a)
    <3>1. PICK o \in Orders :
             /\ status[o] \in {"FAILED", "REFUNDED", "MANUAL_REVIEW"}
             /\ admin' = [admin EXCEPT ![a] =
                            [pc |-> "read", order |-> o, attempt |-> attempt[o],
                             refunded |-> refunded[o], left |-> @.left - 1]]
      BY <2>2 DEF AdminRead
    <3>2. UNCHANGED status
      BY <2>2 DEF AdminRead, orderRow
    <3>3. OrdersPaid'
      BY <2>1, <3>2 DEF OrdersPaid, NothingBoughtUnpaid
    <3>4. paid[o]
      BY <3>1 DEF OrdersPaid
    <3>5. /\ admin'[a].order = o
          /\ \A b \in Admins : b # a => admin'[b] = admin[b]
      BY <1>0, <3>1
    <3>6. AdminsPaid'
      BY <2>1, <3>4, <3>5 DEF AdminsPaid
    <3> QED
      BY <2>1, <3>3, <3>6, PaidKept
  <2>3. CASE AdminCommit(a)
    <3>1. /\ admin[a].order \in Orders /\ paid[admin[a].order]
          /\ status' = [status EXCEPT ![admin[a].order] = "PROCESSING"]
          /\ admin'[a].order = admin[a].order
      BY <2>3, RetryEffect
    <3>2. \A b \in Admins : b # a => admin'[b] = admin[b]
      BY <1>0, <2>3 DEF AdminCommit
    <3>3. OrdersPaid'
      BY <1>0, <2>1, <3>1 DEF OrdersPaid, NothingBoughtUnpaid
    <3>4. AdminsPaid'
      BY <2>1, <3>1, <3>2 DEF AdminsPaid
    <3> QED
      BY <2>1, <3>3, <3>4, PaidKept
  <2>4. CASE \/ AdminRefused(a) \/ AdminSend(a) \/ AdminSendRefused(a)
             \/ AdminCrash(a)
    <3>1. /\ UNCHANGED status
          /\ admin' = [admin EXCEPT ![a] = [Resting EXCEPT !.left = admin[a].left]]
      BY <2>4 DEF AdminRefused, AdminSend, AdminSendRefused, AdminCrash, orderRow
    <3>2. OrdersPaid'
      BY <2>1, <3>1 DEF OrdersPaid, NothingBoughtUnpaid
    <3>3. AdminsPaid'
      BY <1>0, <2>1, <3>1 DEF AdminsPaid, Resting
    <3> QED
      BY <2>1, <3>2, <3>3, PaidKept
  <2> QED
    BY <1>6, <2>2, <2>3, <2>4 DEF AdminStep
<1> QED
  BY <1>1, <1>2, <1>3, <1>4, <1>5, <1>6 DEF OrderNext

\* A step that takes back no refund and changes no attempt of an order that
\* is paid, and makes an order REFUNDED only with its payment given back.
ChargesKept ==
    \A p \in Orders :
        /\ paid[p] => /\ method'[p] = method[p] /\ attempt'[p] = attempt[p]
                      /\ refunded[p] => refunded'[p]
        /\ status'[p] = "REFUNDED" =>
              \/ status[p] = "REFUNDED"
              \/ /\ method'[p] = "WALLET_BALANCE"
                 /\ Paid(p, attempt[p])' /\ Returned(p, attempt[p])'

\* Charges are made by administrators alone.
LEMMA OthersKeepCharges ==
    ASSUME OrderInv, OrderNext, \A a \in Admins : ~AdminStep(a)
    PROVE  UNCHANGED admin /\ ChargesKept
<1> USE DEF OrderInv, MoneyInv, ChargesKept
<1>0. /\ status \in [Orders -> OrderStatus \cup {"NONE"}]
      /\ method \in [Orders -> Methods \cup {"NONE"}]
      /\ attempt \in [Orders -> Nat] /\ refunded \in [Orders -> BOOLEAN]
  BY DEF OrderTypeOK, WalletTypeOK
<1>1. CASE WalletMove /\ UNCHANGED orderVars
  BY <1>1 DEF WalletMove, CreditDeposit, ExpireDeposit, AdjustLoad, AdjustPost,
              AdjustAbort, chargeVars, orderVars
<1>2. ASSUME NEW o \in Orders, PaymentStep(o)
      PROVE  UNCHANGED admin /\ ChargesKept
  <2>0. UNCHANGED admin
    BY <1>2 DEF PaymentStep, CreateOrder, ConfirmPayment, ExpireOrder, Announce,
                AnnounceRefused, AnnounceLost, requestVars
  <2>1. CASE AnnounceRefused(o)
    BY <2>0, <2>1, FailEffect DEF AnnounceRefused
  <2>2. ASSUME NEW m \in Methods, CreateOrder(o, m)
        PROVE  /\ ~paid[o] /\ status'[o] # "REFUNDED"
               /\ \A p \in Orders : p # o =>
                     /\ method'[p] = method[p] /\ attempt'[p] = attempt[p]
                     /\ refunded'[p] = refunded[p] /\ status'[p] = status[p]
    <3>1. /\ method[o] = "NONE"
          /\ method' = [method EXCEPT ![o] = m]
          /\ status' = [status EXCEPT ![o] =
                          IF m = "WALLET_BALANCE" THEN "PAID" ELSE "WAIT_PAY"]
      BY <2>2 DEF CreateOrder, PlaceOrder
    <3>2. \/ /\ attempt' = [attempt EXCEPT ![o] = 0 + 1]
             /\ refunded' = [refunded EXCEPT ![o] = FALSE]
          \/ UNCHANGED <<attempt, refunded>>
      BY <2>2 DEF CreateOrder, PlaceOrder, DebitOrderBalance
    <3> QED
      BY <1>0, <3>1, <3>2 DEF PaidFirst, OrdersPaid
  <2>3. CASE ConfirmPayment(o) \/ ExpireOrder(o) \/ Announce(o) \/ AnnounceLost(o)
    <3>1. UNCHANGED <<method, attempt, refunded>>
      BY <2>3 DEF ConfirmPayment, ExpireOrder, Announce, AnnounceLost, walletVars
    <3>2. \A p \in Orders : status'[p] = "REFUNDED" => status[p] = "REFUNDED"
      BY <1>0, <2>3 DEF ConfirmPayment, ExpireOrder, Announce, AnnounceLost, orderRow
    <3> QED
      BY <2>0, <3>1, <3>2
  <2> QED
    BY <1>2, <2>0, <2>1, <2>2, <2>3 DEF PaymentStep
<1>3. ASSUME NEW o \in Orders, Poll(o) \/ ProviderStep(o) \/ RunnerStep(o)
      PROVE  UNCHANGED admin /\ ChargesKept
  <2>0. UNCHANGED admin
    BY <1>3 DEF Poll, ProviderStep, WebhookSuccess, WebhookFailure, RunnerStep,
                RunnerClaim, CaptureRead, CaptureCommit, FailRead, FailCommit,
                RunnerStops, InternalCapture, ConfirmOnChain, requestVars
  <2>1. CASE WebhookFailure(o)
    BY <2>0, <2>1, FailEffect DEF WebhookFailure
  <2>2. CASE Poll(o) \/ WebhookSuccess(o) \/ RunnerStep(o)
    <3>1. UNCHANGED <<method, attempt, refunded>>
      BY <2>2 DEF Poll, WebhookSuccess, RunnerStep, RunnerClaim, CaptureRead,
                  CaptureCommit, FailRead, FailCommit, RunnerStops,
                  InternalCapture, ConfirmOnChain, walletVars
    <3>2. \A p \in Orders : status'[p] = "REFUNDED" => status[p] = "REFUNDED"
      <4>1. CASE CaptureCommit(o)
        BY <1>0, <4>1 DEF CaptureCommit
      <4>2. CASE FailCommit(o)
        BY <1>0, <4>2 DEF FailCommit
      <4>3. CASE InternalCapture(o)
        BY <1>0, <4>3 DEF InternalCapture
      <4> QED
        BY <1>0, <2>2, <4>1, <4>2, <4>3
        DEF Poll, WebhookSuccess, RunnerStep, RunnerClaim, CaptureRead, FailRead,
            RunnerStops, ConfirmOnChain, orderRow
    <3> QED
      BY <2>0, <3>1, <3>2
  <2> QED
    BY <1>3, <2>1, <2>2 DEF ProviderStep
<1>4. ASSUME NEW w \in Workers, NEW o \in Orders, NEW r \in 0..MaxRetries,
             MessageStep(w, o, r)
      PROVE  /\ UNCHANGED <<admin, method, attempt, refunded>>
             /\ \A p \in Orders : status'[p] = "REFUNDED" => status[p] = "REFUNDED"
  BY <1>0, <1>4 DEF MessageStep, FulfilSkip, FulfilBegin, walletVars, orderRow,
                    requestVars
<1>5. ASSUME NEW w \in Workers, WorkerStep(w) \/ WorkerCrash(w)
      PROVE  UNCHANGED admin /\ ChargesKept
  <2>0. UNCHANGED admin
    BY <1>5 DEF WorkerStep, WorkerCrash, CreateAtProvider, SaveReference,
                AskProvider, ApplySuccess, ApplyFailure, ApplyPending,
                WorkerError, Retry, GiveUp, requestVars
  <2>1. worker[w].pc # "idle" => worker[w].order \in Orders
    BY DEF PaidFirst, WorkersPaid
  <2>2. ASSUME FailAndRefund(worker[w].order), worker[w].pc # "idle"
        PROVE  ChargesKept
    BY <2>1, <2>2, FailEffect
  <2>3. CASE ApplyFailure(w)
    BY <2>0, <2>2, <2>3 DEF ApplyFailure, Holding
  <2>4. CASE GiveUp(w)
    <3>1. CASE FailAndRefund(worker[w].order)
      BY <2>0, <2>2, <2>4, <3>1 DEF GiveUp, Holding
    <3>2. CASE UNCHANGED <<walletVars, status>>
      BY <2>0, <3>2 DEF walletVars
    <3> QED
      BY <2>4, <3>1, <3>2 DEF GiveUp
  <2>5. CASE \/ CreateAtProvider(w) \/ SaveReference(w) \/ AskProvider(w)
             \/ ApplySuccess(w) \/ ApplyPending(w) \/ WorkerError(w)
             \/ Retry(w) \/ WorkerCrash(w)
    <3>1. UNCHANGED <<method, attempt, refunded>>
      BY <2>5 DEF CreateAtProvider, SaveReference, AskProvider, ApplySuccess,
                  ApplyPending, WorkerError, Retry, WorkerCrash, walletVars
    <3>2. \A p \in Orders : status'[p] = "REFUNDED" => status[p] = "REFUNDED"
      BY <1>0, <2>5 DEF CreateAtProvider, SaveReference, AskProvider,
                        ApplySuccess, ApplyPending, WorkerError, Retry,
                        WorkerCrash, orderRow
    <3> QED
      BY <2>0, <3>1, <3>2
  <2> QED
    BY <1>5, <2>3, <2>4, <2>5 DEF WorkerStep
<1> QED
  BY <1>1, <1>2, <1>3, <1>4, <1>5 DEF OrderNext

\* What a retry holds was charged and what is REFUNDED given back, and neither
\* is ever taken out of the ledger.
LEMMA StepKeepsRefunds ==
    ASSUME OrderInv, OrderNext
    PROVE  RetryWasCharged' /\ RefundedMeansReturned'
<1> USE DEF OrderInv, MoneyInv
<1>0. /\ status \in [Orders -> OrderStatus \cup {"NONE"}]
      /\ attempt \in [Orders -> Nat] /\ refunded \in [Orders -> BOOLEAN]
      /\ admin \in [Admins -> Request]
      /\ \A a \in Admins : admin[a].attempt \in Nat
  BY DEF OrderTypeOK, WalletTypeOK, Request
<1>1. \A p \in Orders : status[p] = "REFUNDED" => paid[p]
  BY DEF PaidFirst, OrdersPaid
<1>2. \A p \in Orders, k \in Nat : /\ Paid(p, k) => Paid(p, k)'
                                   /\ Returned(p, k) => Returned(p, k)'
  BY StepMovesWallet, LedgerOnlyGrows, LedgerAssumption
<1>3. ASSUME NEW p \in Orders, status[p] = "REFUNDED",
             method'[p] = method[p], attempt'[p] = attempt[p]
      PROVE  /\ method'[p] = "WALLET_BALANCE"
             /\ Paid(p, attempt[p])' /\ Returned(p, attempt[p])'
  <2> DEFINE n == attempt[p]
  <2>1. /\ n \in Nat /\ method[p] = "WALLET_BALANCE"
        /\ Paid(p, n) /\ Returned(p, n)
    BY <1>0, <1>3 DEF RefundedMeansReturned
  <2>2. \A k : k = n => (Paid(p, k) => Paid(p, k)') /\ (Returned(p, k) => Returned(p, k)')
    BY <1>2, <2>1
  <2>3. \A k : k = n => Paid(p, k)' /\ Returned(p, k)'
    BY <2>1, <2>2
  <2> QED
    BY <1>3, <2>1, <2>3 DEF Paid, Returned, Posted
<1>4. ASSUME NEW b \in Admins, admin'[b] = admin[b],
             admin[b].pc # "idle", admin[b].attempt # 0
      PROVE  Paid(admin[b].order, admin[b].attempt)'
  <2> DEFINE n == admin[b].attempt
             p == admin[b].order
  <2>1. p \in Orders /\ n \in Nat /\ Paid(p, n)
    BY <1>0, <1>4 DEF PaidFirst, AdminsPaid, RetryWasCharged
  <2>2. \A q \in Orders, k \in Nat : q = p /\ k = n => Paid(q, k)'
    BY <1>2, <2>1
  <2> QED
    BY <1>4, <2>1, <2>2 DEF Paid, Posted
<1>5. CASE \A a \in Admins : ~AdminStep(a)
  <2>1. UNCHANGED admin /\ ChargesKept
    BY <1>5, OthersKeepCharges
  <2>2. RetryWasCharged'
    BY <1>4, <2>1 DEF RetryWasCharged
  <2>3. RefundedMeansReturned'
    BY <1>1, <1>3, <2>1 DEF RefundedMeansReturned, ChargesKept
  <2> QED
    BY <2>2, <2>3
<1>6. ASSUME NEW a \in Admins, AdminStep(a)
      PROVE  RetryWasCharged' /\ RefundedMeansReturned'
  <2>0. \A b \in Admins : b # a => admin'[b] = admin[b]
    BY <1>0, <1>6 DEF AdminStep, AdminRead, AdminCommit, AdminRefused, AdminSend,
                      AdminSendRefused, AdminCrash
  <2>1. CASE AdminRead(a)
    <3>1. PICK o \in Orders :
             admin' = [admin EXCEPT ![a] =
                         [pc |-> "read", order |-> o, attempt |-> attempt[o],
                          refunded |-> refunded[o], left |-> @.left - 1]]
      BY <2>1 DEF AdminRead
    <3>2. /\ UNCHANGED <<status, method, attempt, refunded>>
          /\ attempt[o] # 0 => Paid(o, attempt[o])
      BY <2>1 DEF AdminRead, walletVars, orderRow, LedgerInv, RefundsAreOfCharges
    <3>3. admin'[a].order = o /\ admin'[a].attempt = attempt[o]
      BY <1>0, <3>1
    <3>4. \A k \in Nat : k = attempt[o] /\ k # 0 => Paid(o, k)'
      BY <1>2, <3>2
    <3>5. admin'[a].attempt # 0 => Paid(admin[a].order, admin[a].attempt)'
      BY <1>0, <3>3, <3>4 DEF Paid, Posted
    <3>6. RetryWasCharged'
      BY <1>4, <2>0, <3>5 DEF RetryWasCharged
    <3>7. RefundedMeansReturned'
      BY <1>3, <3>2 DEF RefundedMeansReturned
    <3> QED
      BY <3>6, <3>7
  <2>2. CASE AdminCommit(a)
    <3> DEFINE o == admin[a].order
    <3>1. /\ o \in Orders /\ method' = method
          /\ \A p \in Orders : p # o => attempt'[p] = attempt[p]
          /\ status' = [status EXCEPT ![o] = "PROCESSING"]
          /\ admin'[a].order = o
          /\ \E m \in Nat : /\ admin'[a].attempt = m
                            /\ m # 0 => Paid(o, m)'
      BY <2>2, RetryEffect
    <3>2. admin'[a].attempt # 0 => Paid(admin[a].order, admin[a].attempt)'
      BY <3>1 DEF Paid, Posted
    <3>3. RetryWasCharged'
      BY <1>4, <2>0, <3>2 DEF RetryWasCharged
    <3>4. RefundedMeansReturned'
      BY <1>0, <1>3, <3>1 DEF RefundedMeansReturned
    <3> QED
      BY <3>3, <3>4
  <2>3. CASE \/ AdminRefused(a) \/ AdminSend(a) \/ AdminSendRefused(a)
             \/ AdminCrash(a)
    <3>1. /\ UNCHANGED <<status, method, attempt>>
          /\ admin' = [admin EXCEPT ![a] = [Resting EXCEPT !.left = admin[a].left]]
      BY <2>3 DEF AdminRefused, AdminSend, AdminSendRefused, AdminCrash, orderRow,
                  walletVars, RefundOrderBalance
    <3>2. admin'[a].pc = "idle"
      BY <1>0, <3>1 DEF Resting
    <3>3. RetryWasCharged'
      BY <1>4, <2>0, <3>2 DEF RetryWasCharged
    <3>4. RefundedMeansReturned'
      BY <1>3, <3>1 DEF RefundedMeansReturned
    <3> QED
      BY <3>3, <3>4
  <2> QED
    BY <1>6, <2>1, <2>2, <2>3 DEF AdminStep
<1> QED
  BY <1>5, <1>6

\* With one retry at a time nobody else charges between its transactions.
LEMMA StepKeepsRetry ==
    ASSUME OneRetry, OrderInv, RetryIsCurrent, OrderNext
    PROVE  RetryIsCurrent'
<1>0. admin \in [Admins -> Request]
  BY DEF OrderInv, MoneyInv, OrderTypeOK
<1>1. CASE \A a \in Admins : ~AdminStep(a)
  <2>1. UNCHANGED admin /\ ChargesKept
    BY <1>1, OthersKeepCharges
  <2> QED
    BY <2>1 DEF RetryIsCurrent, ChargesKept, OrderInv, MoneyInv, PaidFirst, AdminsPaid
<1>2. ASSUME NEW a \in Admins, AdminStep(a)
      PROVE  RetryIsCurrent'
  <2>0. Admins = {a}
    BY DEF OneRetry
  <2>1. CASE AdminRead(a)
    <3>1. PICK o \in Orders :
             admin' = [admin EXCEPT ![a] =
                         [pc |-> "read", order |-> o, attempt |-> attempt[o],
                          refunded |-> refunded[o], left |-> @.left - 1]]
      BY <2>1 DEF AdminRead
    <3>2. UNCHANGED <<attempt, refunded>>
      BY <2>1 DEF AdminRead, walletVars
    <3>3. /\ admin'[a].order = o /\ admin'[a].attempt = attempt[o]
          /\ admin'[a].refunded = refunded[o]
      BY <1>0, <3>1
    <3> QED
      BY <2>0, <3>2, <3>3 DEF RetryIsCurrent
  <2>2. CASE AdminCommit(a)
    <3>1. /\ admin'[a].pc = "commit" /\ admin'[a].order = admin[a].order
          /\ admin'[a].attempt = attempt'[admin[a].order]
      BY <2>2, RetryEffect DEF OrderInv
    <3> QED
      BY <2>0, <3>1 DEF RetryIsCurrent
  <2>3. CASE \/ AdminRefused(a) \/ AdminSend(a) \/ AdminSendRefused(a)
             \/ AdminCrash(a)
    <3>1. admin'[a].pc = "idle"
      BY <1>0, <2>3 DEF AdminRefused, AdminSend, AdminSendRefused, AdminCrash, Resting
    <3> QED
      BY <2>0, <3>1 DEF RetryIsCurrent
  <2> QED
    BY <1>2, <2>1, <2>2, <2>3 DEF AdminStep
<1> QED
  BY <1>1, <1>2

\* The provider's orders are only ever added to, within the bound, and keep
\* their type; a reference that a row or a worker holds is one of them.
ProviderOK ==
    /\ provider \in [Orders -> Seq({"OPEN", "DELIVERED", "FAILED"})]
    /\ reference \in [Orders -> 0..MaxRefs]
    /\ ReferencesExist

LEMMA StepKeepsProvider ==
    ASSUME OrderAssumption, OrderInv, OrderNext
    PROVE  ProviderOK'
<1> DEFINE State == {"OPEN", "DELIVERED", "FAILED"}
<1>0. /\ provider \in [Orders -> Seq(State)]
      /\ reference \in [Orders -> 0..MaxRefs]
      /\ worker \in [Workers -> Task] /\ MaxRefs \in Nat
      /\ WorkersPaid /\ ReferencesExist /\ ProviderOK
      /\ \A o \in Orders : Len(provider[o]) \in Nat
  BY DEF OrderInv, MoneyInv, OrderTypeOK, PaidFirst, ProviderOK, OrderAssumption
\* Setting the state of an order the provider has.
<1>1. ASSUME NEW o \in Orders, NEW k \in 1..Len(provider[o]), NEW now \in State
      PROVE  /\ [provider EXCEPT ![o][k] = now] \in [Orders -> Seq(State)]
             /\ \A p \in Orders :
                   Len([provider EXCEPT ![o][k] = now][p]) = Len(provider[p])
  <2>1. /\ [provider[o] EXCEPT ![k] = now] \in Seq(State)
        /\ Len([provider[o] EXCEPT ![k] = now]) = Len(provider[o])
    BY <1>0
  <2> QED
    BY <1>0, <2>1
<1>2. ASSUME NEW o \in Orders, NEW k \in 1..Len(provider[o])
      PROVE  Observed(o, k) \subseteq State
  <2>1. provider[o][k] \in State
    BY <1>0
  <2> QED
    BY <2>1 DEF Observed, Report
<1>3. CASE UNCHANGED <<provider, reference, worker>>
  BY <1>0, <1>3 DEF ProviderOK, ReferencesExist
<1>4. ASSUME NEW o \in Orders, ProviderStep(o)
      PROVE  ProviderOK'
  <2>1. /\ UNCHANGED <<reference, worker>>
        /\ reference[o] # 0
        /\ \E now \in Observed(o, reference[o]) :
              provider' = [provider EXCEPT ![o][reference[o]] = now]
    BY <1>4 DEF ProviderStep, WebhookSuccess, WebhookFailure, Reported
  <2>2. reference[o] \in 1..Len(provider[o])
    BY <1>0, <2>1 DEF ReferencesExist
  <2>3. /\ provider' \in [Orders -> Seq(State)]
        /\ \A p \in Orders : Len(provider'[p]) = Len(provider[p])
    BY <1>1, <1>2, <2>1, <2>2
  <2> QED
    BY <1>0, <2>1, <2>3 DEF ProviderOK, ReferencesExist, WorkersPaid
<1>5. ASSUME NEW w \in Workers, NEW o \in Orders, NEW r \in 0..MaxRetries,
             MessageStep(w, o, r)
      PROVE  ProviderOK'
  <2>1. UNCHANGED <<provider, reference>>
    BY <1>5 DEF MessageStep, FulfilSkip, FulfilBegin, purchaseVars
  <2>2. CASE FulfilSkip(w, o, r)
    BY <1>3, <2>1, <2>2 DEF FulfilSkip
  <2>3. CASE FulfilBegin(w, o, r)
    <3>1. /\ worker'[w].order = o /\ worker'[w].ref = reference[o]
          /\ \A v \in Workers : v # w => worker'[v] = worker[v]
      BY <1>0, <2>3 DEF FulfilBegin
    <3> QED
      BY <1>0, <2>1, <3>1 DEF ProviderOK, ReferencesExist
  <2> QED
    BY <1>5, <2>2, <2>3 DEF MessageStep
<1>6. ASSUME NEW w \in Workers, WorkerStep(w) \/ WorkerCrash(w)
      PROVE  ProviderOK'
  <2> DEFINE o == worker[w].order
  <2>0. /\ o \in Orders /\ worker[w].ref <= Len(provider[o])
        /\ worker[w].ref \in 0..MaxRefs /\ worker[w] \in Task
    BY <1>0, <1>6 DEF WorkerStep, WorkerCrash, CreateAtProvider, SaveReference,
          AskProvider, ApplySuccess, ApplyFailure, ApplyPending, WorkerError,
          Retry, GiveUp, Holding, WorkersPaid, ReferencesExist, Task
  <2>w. ASSUME \A v \in Workers : v # w => worker'[v] = worker[v],
               \A p \in Orders : /\ Len(provider'[p]) \in Nat
                                 /\ Len(provider[p]) <= Len(provider'[p]),
               worker'[w].ref <= Len(provider'[worker'[w].order])
        PROVE  \A v \in Workers : worker'[v].pc # "idle" =>
                  worker'[v].ref <= Len(provider'[worker'[v].order])
    <3> SUFFICES ASSUME NEW v \in Workers, v # w, worker[v].pc # "idle"
                 PROVE  worker[v].ref <= Len(provider'[worker[v].order])
      BY <2>w
    <3>1. /\ worker[v].order \in Orders /\ worker[v].ref \in 0..MaxRefs
          /\ worker[v].ref <= Len(provider[worker[v].order])
      BY <1>0 DEF ReferencesExist, WorkersPaid, Task
    <3> QED
      BY <1>0, <2>w, <3>1
  <2>1. CASE CreateAtProvider(w)
    <3> DEFINE k == Len(provider[o]) + 1
               t == [worker[w] EXCEPT !.pc = "save", !.ref = k]
    <3>1. /\ provider' = [provider EXCEPT ![o] = Append(provider[o], "OPEN")]
          /\ Len(provider[o]) < MaxRefs
          /\ UNCHANGED reference
          /\ \/ worker' = [worker EXCEPT ![w] = t]
             \/ worker' = [worker EXCEPT ![w] = Failed(worker[w])]
      BY <1>0, <2>1 DEF CreateAtProvider
    <3>2. /\ Append(provider[o], "OPEN") \in Seq(State)
          /\ Len(Append(provider[o], "OPEN")) = k
      BY <1>0, <2>0
    <3>3. /\ provider' \in [Orders -> Seq(State)]
          /\ Len(provider'[o]) = k
          /\ \A p \in Orders : p # o => provider'[p] = provider[p]
      BY <1>0, <2>0, <3>1, <3>2
    <3>4. k \in 0..MaxRefs
      BY <1>0, <2>0, <3>1
    <3>5. /\ t.order = o /\ t.ref = k
          /\ Failed(worker[w]).order = o /\ Failed(worker[w]).ref = 0
      <4> HIDE DEF k
      <4> QED
        BY <2>0, <3>4, TaskUpdate, Zenon
    <3>6. /\ worker'[w].order = o /\ worker'[w].ref \in {0, k}
          /\ \A v \in Workers : v # w => worker'[v] = worker[v]
      <4> HIDE DEF t, k
      <4> QED
        BY <1>0, <3>1, <3>5
    <3>7. \A p \in Orders : Len(provider'[p]) \in Nat
                            /\ Len(provider[p]) <= Len(provider'[p])
                            /\ Len(provider'[p]) <= MaxRefs
      <4>1. /\ Len(provider'[o]) \in Nat /\ Len(provider[o]) <= Len(provider'[o])
            /\ Len(provider'[o]) <= MaxRefs
        BY <1>0, <2>0, <3>3, <3>4
      <4>2. \A p \in Orders : Len(provider[p]) \in Nat /\ Len(provider[p]) <= MaxRefs
        BY <1>0 DEF ReferencesExist
      <4>3. \A p \in Orders : p # o => Len(provider'[p]) = Len(provider[p])
        BY <3>3
      <4> HIDE DEF k
      <4> QED
        BY <4>1, <4>2, <4>3
    <3>8. \A p \in Orders : reference'[p] <= Len(provider'[p])
      BY <1>0, <3>1, <3>7 DEF ReferencesExist
    <3>9. \A v \in Workers : worker'[v].pc # "idle" =>
             worker'[v].ref <= Len(provider'[worker'[v].order])
      BY <1>0, <2>0, <2>w, <3>3, <3>6, <3>7
    <3> QED
      BY <1>0, <3>1, <3>3, <3>7, <3>8, <3>9 DEF ProviderOK, ReferencesExist
  <2>2. CASE SaveReference(w)
    <3>1. /\ UNCHANGED provider
          /\ reference' = [reference EXCEPT ![o] = worker[w].ref]
          /\ worker' = [worker EXCEPT ![w] = [worker[w] EXCEPT !.pc = "call"]]
      BY <2>2 DEF SaveReference
    <3>2. worker'[w].order = o /\ worker'[w].ref = worker[w].ref
      <4>1. worker'[w] = [worker[w] EXCEPT !.pc = "call"]
        BY <1>0, <3>1
      <4> QED
        BY <2>0, <4>1, TaskUpdate, Zenon
    <3>3. \A v \in Workers : v # w => worker'[v] = worker[v]
      BY <1>0, <3>1
    <3> QED
      BY <1>0, <2>0, <3>1, <3>2, <3>3 DEF ProviderOK, ReferencesExist
  <2>3. CASE AskProvider(w)
    <3>1. PICK now \in Observed(o, worker[w].ref) :
             /\ provider' = [provider EXCEPT ![o][worker[w].ref] = now]
             /\ worker' = [worker EXCEPT ![w].pc = "apply", ![w].ref = 0,
                                         ![w].reply = Report[now]]
      BY <2>3 DEF AskProvider
    <3>2. worker[w].ref \in 1..Len(provider[o])
      BY <1>0, <2>0, <2>3 DEF AskProvider
    <3>3. /\ provider' \in [Orders -> Seq(State)]
          /\ \A p \in Orders : Len(provider'[p]) = Len(provider[p])
      BY <1>1, <1>2, <2>0, <3>1, <3>2
    <3>4. Report[now] \in Replies
      <4>1. now \in State
        BY <1>2, <2>0, <3>1, <3>2
      <4> QED
        BY <4>1 DEF Report, Replies
    <3>5. worker'[w].order = o /\ worker'[w].ref = 0
      <4> DEFINE t == [worker[w] EXCEPT !.pc = "apply", !.ref = 0,
                                        !.reply = Report[now]]
      <4>1. t.order = o /\ t.ref = 0
        BY <2>0, <3>4, TaskUpdate, Zenon
      <4>2. worker'[w] = t
        BY <1>0, <3>1
      <4> QED
        BY <4>1, <4>2
    <3>6. /\ \A v \in Workers : v # w => worker'[v] = worker[v]
          /\ UNCHANGED reference
      BY <1>0, <2>3, <3>1 DEF AskProvider
    <3>7. \A p \in Orders : /\ Len(provider'[p]) \in Nat
                            /\ Len(provider[p]) <= Len(provider'[p])
      BY <1>0, <3>3
    <3>8. \A v \in Workers : worker'[v].pc # "idle" =>
             worker'[v].ref <= Len(provider'[worker'[v].order])
      BY <2>0, <2>w, <3>5, <3>6, <3>7
    <3> QED
      BY <1>0, <3>3, <3>6, <3>8 DEF ProviderOK, ReferencesExist
  <2>4. CASE WorkerError(w)
    <3>1. /\ UNCHANGED <<provider, reference>>
          /\ worker' = [worker EXCEPT ![w] = Failed(worker[w])]
      BY <2>4 DEF WorkerError, purchaseVars
    <3>2. Failed(worker[w]).order = o /\ Failed(worker[w]).ref = 0
      BY <2>0, TaskUpdate, Zenon
    <3> QED
      BY <1>0, <2>0, <3>1, <3>2 DEF ProviderOK, ReferencesExist
  <2>5. CASE \/ ApplySuccess(w) \/ ApplyFailure(w) \/ ApplyPending(w)
             \/ Retry(w) \/ GiveUp(w) \/ WorkerCrash(w)
    <3>1. /\ UNCHANGED <<provider, reference>>
          /\ worker' = [worker EXCEPT ![w] = Idle]
      BY <2>5 DEF ApplySuccess, ApplyFailure, ApplyPending, Retry, GiveUp,
                  WorkerCrash, purchaseVars
    <3> QED
      BY <1>0, <3>1 DEF ProviderOK, ReferencesExist, Idle
  <2> QED
    BY <1>6, <2>1, <2>2, <2>3, <2>4, <2>5 DEF WorkerStep
<1>7. CASE WalletMove /\ UNCHANGED orderVars
  BY <1>3, <1>7 DEF orderVars
<1>8. ASSUME NEW o \in Orders, PaymentStep(o) \/ Poll(o) \/ RunnerStep(o)
      PROVE  UNCHANGED <<provider, reference, worker>>
  BY <1>8 DEF PaymentStep, CreateOrder, ConfirmPayment, ExpireOrder, Announce,
              AnnounceRefused, AnnounceLost, Poll, RunnerStep, RunnerClaim,
              CaptureRead, CaptureCommit, FailRead, FailCommit, RunnerStops,
              InternalCapture, ConfirmOnChain, purchaseVars
<1>9. ASSUME NEW a \in Admins, AdminStep(a)
      PROVE  UNCHANGED <<provider, reference, worker>>
  BY <1>9 DEF AdminStep, AdminRead, AdminCommit, AdminRefused, AdminSend,
              AdminSendRefused, AdminCrash, purchaseVars
<1> QED
  BY <1>3, <1>4, <1>5, <1>6, <1>7, <1>8, <1>9 DEF OrderNext

\* The rest of OrderTypeOK: the rows of the order and what is under way.
RowsOK ==
    /\ status \in [Orders -> OrderStatus \cup {"NONE"}]
    /\ paid \in [Orders -> BOOLEAN]
    /\ job \in [Orders -> Owned \cup {"NONE", "QUEUED", "RETRY_WAIT"}]
    /\ tx \in [Orders -> {"NONE", "MANUAL_REVIEW", "SIMULATED", "BROADCASTED",
                         "CONFIRMED"}]
    /\ runner \in [Orders -> RunnerPhases]
    /\ announce \in [Orders -> {"no", "create", "pay"}]

RequestsOK ==
    /\ queue \subseteq Orders \X (0..MaxRetries)
    /\ worker \in [Workers -> Task]
    /\ admin \in [Admins -> Request]
    /\ crashes \in 0..MaxCrashes

LEMMA StepKeepsRows ==
    ASSUME OrderAssumption, OrderInv, OrderNext
    PROVE  RowsOK'
<1> USE DEF OrderInv, MoneyInv
<1>0. RowsOK
  BY DEF OrderTypeOK, RowsOK
<1>1. CASE WalletMove /\ UNCHANGED orderVars
  BY <1>0, <1>1 DEF RowsOK, orderVars
<1>2. ASSUME NEW o \in Orders, PaymentStep(o)
      PROVE  RowsOK'
  <2>1. ASSUME NEW m \in Methods, CreateOrder(o, m)
        PROVE  RowsOK'
    BY <1>0, <2>1 DEF CreateOrder, RowsOK, purchaseVars, OrderStatus
  <2>2. CASE AnnounceRefused(o)
    BY <1>0, <2>2, FailEffect DEF AnnounceRefused, RowsOK, purchaseVars
  <2>3. CASE ConfirmPayment(o) \/ ExpireOrder(o) \/ Announce(o) \/ AnnounceLost(o)
    BY <1>0, <2>3 DEF ConfirmPayment, ExpireOrder, Announce, AnnounceLost, RowsOK,
                      OrderStatus, orderRow, purchaseVars, requestVars
  <2> QED
    BY <1>2, <2>1, <2>2, <2>3 DEF PaymentStep
<1>3. ASSUME NEW o \in Orders, Poll(o) \/ ProviderStep(o)
      PROVE  RowsOK'
  <2>1. CASE WebhookFailure(o)
    BY <1>0, <2>1, FailEffect DEF WebhookFailure, RowsOK, requestVars
  <2>2. CASE Poll(o) \/ WebhookSuccess(o)
    BY <1>0, <2>2 DEF Poll, WebhookSuccess, RowsOK, OrderStatus, orderRow,
                      purchaseVars, requestVars
  <2> QED
    BY <1>3, <2>1, <2>2 DEF ProviderStep
<1>4. ASSUME NEW o \in Orders, RunnerStep(o)
      PROVE  RowsOK'
  <2>0. UNCHANGED <<paid, announce>>
    BY <1>4 DEF RunnerStep, RunnerClaim, CaptureRead, CaptureCommit, FailRead,
                FailCommit, RunnerStops, InternalCapture, ConfirmOnChain, orderRow, requestVars
  <2>1. CASE \/ RunnerClaim(o) \/ CaptureRead(o) \/ FailRead(o) \/ RunnerStops(o)
             \/ ConfirmOnChain(o)
    BY <1>0, <2>0, <2>1
    DEF RunnerClaim, CaptureRead, FailRead, RunnerStops, ConfirmOnChain, RowsOK,
        RunnerPhases, Owned, orderRow, purchaseVars
  <2>2. CASE CaptureCommit(o)
    <3>1. PreparedPayment(o) \subseteq {"MANUAL_REVIEW", "SIMULATED", "BROADCASTED",
                                       "CONFIRMED"}
      BY <1>0 DEF RowsOK, PreparedPayment
    <3> QED
      BY <1>0, <2>0, <2>2, <3>1
      DEF CaptureCommit, RowsOK, RunnerPhases, Owned, OrderStatus
  <2>3. CASE FailCommit(o)
    BY <1>0, <2>0, <2>3 DEF FailCommit, RowsOK, RunnerPhases, Owned, OrderStatus
  <2>4. CASE InternalCapture(o)
    <3>1. PreparedPayment(o) \subseteq {"MANUAL_REVIEW", "SIMULATED", "BROADCASTED",
                                       "CONFIRMED"}
      BY <1>0 DEF RowsOK, PreparedPayment
    <3> QED
      BY <1>0, <2>0, <2>4, <3>1 DEF InternalCapture, RowsOK, OrderStatus
  <2> QED
    BY <1>4, <2>1, <2>2, <2>3, <2>4 DEF RunnerStep
<1>5. ASSUME NEW w \in Workers, NEW o \in Orders, NEW r \in 0..MaxRetries,
             MessageStep(w, o, r)
      PROVE  RowsOK'
  BY <1>0, <1>5 DEF MessageStep, FulfilSkip, FulfilBegin, RowsOK, OrderStatus,
                    orderRow, purchaseVars, requestVars
<1>6. ASSUME NEW w \in Workers, WorkerStep(w) \/ WorkerCrash(w)
      PROVE  RowsOK'
  <2>0. worker[w].pc # "idle" => worker[w].order \in Orders
    BY DEF PaidFirst, WorkersPaid
  <2>1. UNCHANGED <<paid, tx, runner, announce>>
    BY <1>6 DEF WorkerStep, WorkerCrash, CreateAtProvider, SaveReference,
                AskProvider, ApplySuccess, ApplyFailure, ApplyPending,
                WorkerError, Retry, GiveUp, orderRow, purchaseVars, requestVars
  <2>2. CASE ApplyFailure(w) \/ GiveUp(w)
    <3>1. \/ FailAndRefund(worker[w].order) /\ worker[w].order \in Orders
          \/ UNCHANGED status
      BY <2>0, <2>2 DEF ApplyFailure, GiveUp, Holding
    <3>2. status' \in [Orders -> OrderStatus \cup {"NONE"}]
      BY <1>0, <3>1, FailEffect DEF RowsOK
    <3>3. UNCHANGED job
      BY <2>2 DEF ApplyFailure, GiveUp, purchaseVars
    <3> QED
      BY <1>0, <2>1, <3>2, <3>3 DEF RowsOK
  <2>3. CASE ApplyPending(w)
    <3>1. status' \in [Orders -> OrderStatus \cup {"NONE"}]
      BY <1>0, <2>3 DEF ApplyPending, RowsOK, OrderStatus
    <3>2. job' \in [Orders -> Owned \cup {"NONE", "QUEUED", "RETRY_WAIT"}]
      BY <1>0, <2>0, <2>3 DEF ApplyPending, Holding, RowsOK, EnsureJob, Owned
    <3> QED
      BY <1>0, <2>1, <3>1, <3>2 DEF RowsOK
  <2>4. CASE \/ CreateAtProvider(w) \/ SaveReference(w) \/ AskProvider(w)
             \/ ApplySuccess(w) \/ WorkerError(w) \/ Retry(w) \/ WorkerCrash(w)
    BY <1>0, <2>1, <2>4
    DEF CreateAtProvider, SaveReference, AskProvider, ApplySuccess, WorkerError,
        Retry, WorkerCrash, RowsOK, OrderStatus, orderRow, purchaseVars
  <2> QED
    BY <1>6, <2>2, <2>3, <2>4 DEF WorkerStep
<1>7. ASSUME NEW a \in Admins, AdminStep(a)
      PROVE  RowsOK'
  <2>1. CASE AdminCommit(a)
    BY <1>0, <2>1 DEF AdminCommit, RowsOK, OrderStatus, purchaseVars
  <2>2. CASE \/ AdminRead(a) \/ AdminRefused(a) \/ AdminSend(a)
             \/ AdminSendRefused(a) \/ AdminCrash(a)
    BY <1>0, <2>2 DEF AdminRead, AdminRefused, AdminSend, AdminSendRefused,
                      AdminCrash, RowsOK, orderRow, purchaseVars
  <2> QED
    BY <1>7, <2>1, <2>2 DEF AdminStep
<1> QED
  BY <1>1, <1>2, <1>3, <1>4, <1>5, <1>6, <1>7 DEF OrderNext

LEMMA StepKeepsRequests ==
    ASSUME OrderAssumption, OrderInv, OrderNext
    PROVE  RequestsOK'
<1> USE DEF OrderInv, MoneyInv
<1>0. /\ RequestsOK
      /\ MaxRetries \in Nat /\ MaxRefs \in Nat
      /\ MaxAdmin \in Nat /\ MaxCrashes \in Nat
      /\ attempt \in [Orders -> Nat] /\ refunded \in [Orders -> BOOLEAN]
      /\ reference \in [Orders -> 0..MaxRefs]
  BY DEF OrderTypeOK, WalletTypeOK, RequestsOK, OrderAssumption
<1>1. CASE WalletMove /\ UNCHANGED orderVars
  BY <1>0, <1>1 DEF RequestsOK, orderVars
<1>2. ASSUME NEW o \in Orders, PaymentStep(o) \/ Poll(o)
      PROVE  RequestsOK'
  <2>1. UNCHANGED <<worker, admin>>
    BY <1>2 DEF PaymentStep, CreateOrder, ConfirmPayment, ExpireOrder, Announce,
                AnnounceRefused, AnnounceLost, Poll, requestVars
  <2>2. queue' \in {queue, queue \cup {<<o, 0>>}}
    BY <1>2 DEF PaymentStep, CreateOrder, ConfirmPayment, ExpireOrder, Announce,
                AnnounceRefused, AnnounceLost, Poll, Send
  <2>3. crashes' \in 0..MaxCrashes
    BY <1>0, <1>2 DEF PaymentStep, CreateOrder, ConfirmPayment, ExpireOrder,
                Announce, AnnounceRefused, AnnounceLost, Poll, RequestsOK
  <2> QED
    BY <1>0, <2>1, <2>2, <2>3 DEF RequestsOK
<1>3. ASSUME NEW o \in Orders, ProviderStep(o) \/ RunnerStep(o)
      PROVE  RequestsOK'
  BY <1>0, <1>3 DEF ProviderStep, WebhookSuccess, WebhookFailure, RunnerStep,
                    RunnerClaim, CaptureRead, CaptureCommit, FailRead, FailCommit,
                    RunnerStops, InternalCapture, ConfirmOnChain, RequestsOK, requestVars
<1>4. ASSUME NEW w \in Workers, NEW o \in Orders, NEW r \in 0..MaxRetries,
             MessageStep(w, o, r)
      PROVE  RequestsOK'
  <2>1. /\ UNCHANGED <<admin, crashes>>
        /\ queue' = queue \ {<<o, r>>}
    BY <1>4 DEF MessageStep, FulfilSkip, FulfilBegin, Receive, requestVars
  <2>2. worker' \in [Workers -> Task]
    BY <1>0, <1>4 DEF MessageStep, FulfilSkip, FulfilBegin, RequestsOK, Task, Replies
  <2> QED
    BY <1>0, <2>1, <2>2 DEF RequestsOK
<1>5. ASSUME NEW w \in Workers, WorkerStep(w) \/ WorkerCrash(w)
      PROVE  RequestsOK'
  <2>1. /\ worker' \in [Workers -> Task]
        /\ UNCHANGED admin
    BY <1>5, WorkerEffect
    DEF WorkerStep, WorkerCrash, CreateAtProvider, SaveReference, AskProvider,
        ApplySuccess, ApplyFailure, ApplyPending, WorkerError, Retry, GiveUp,
        requestVars
  <2>2. /\ worker[w].retries \in 0..MaxRetries
        /\ worker[w].pc # "idle" => worker[w].order \in Orders
    BY <1>0 DEF RequestsOK, Task, PaidFirst, WorkersPaid
  <2>3. CASE Retry(w)
    <3>1. /\ worker[w].order \in Orders /\ worker[w].retries + 1 \in 0..MaxRetries
          /\ queue' = queue \cup {<<worker[w].order, worker[w].retries + 1>>}
          /\ UNCHANGED crashes
      BY <1>0, <2>2, <2>3 DEF Retry, Holding, Send
    <3> QED
      BY <1>0, <2>1, <3>1 DEF RequestsOK
  <2>4. CASE WorkerCrash(w)
    <3>1. /\ worker[w].order \in Orders
          /\ queue' = queue \cup {<<worker[w].order, worker[w].retries>>}
          /\ crashes' \in 0..MaxCrashes
      BY <1>0, <2>2, <2>4 DEF WorkerCrash, Holding, Send, RequestsOK
    <3> QED
      BY <1>0, <2>1, <2>2, <3>1 DEF RequestsOK
  <2>5. CASE \/ CreateAtProvider(w) \/ SaveReference(w) \/ AskProvider(w)
             \/ ApplySuccess(w) \/ ApplyFailure(w) \/ ApplyPending(w)
             \/ WorkerError(w) \/ GiveUp(w)
    BY <1>0, <2>1, <2>5
    DEF CreateAtProvider, SaveReference, AskProvider, ApplySuccess, ApplyFailure,
        ApplyPending, WorkerError, GiveUp, RequestsOK
  <2> QED
    BY <1>5, <2>3, <2>4, <2>5 DEF WorkerStep
<1>6. ASSUME NEW a \in Admins, AdminStep(a)
      PROVE  RequestsOK'
  <2>1. /\ UNCHANGED worker
        /\ crashes' \in 0..MaxCrashes
    BY <1>0, <1>6 DEF AdminStep, AdminRead, AdminCommit, AdminRefused, AdminSend,
                      AdminSendRefused, AdminCrash, RequestsOK
  <2>2. queue' \subseteq Orders \X (0..MaxRetries)
    <3>1. admin[a].pc # "idle" => admin[a].order \in Orders
      BY DEF PaidFirst, AdminsPaid
    <3>2. CASE AdminSend(a)
      BY <1>0, <3>1, <3>2 DEF AdminSend, Send, RequestsOK
    <3> QED
      BY <1>0, <1>6, <3>2 DEF AdminStep, AdminRead, AdminCommit, AdminRefused,
                              AdminSendRefused, AdminCrash, RequestsOK
  <2>3. admin' \in [Admins -> Request]
    <3>1. CASE AdminCommit(a)
      BY <3>1, RetryEffect
    <3>2. CASE AdminRead(a)
      BY <1>0, <3>2 DEF AdminRead, RequestsOK, Request
    <3>3. CASE \/ AdminRefused(a) \/ AdminSend(a) \/ AdminSendRefused(a)
               \/ AdminCrash(a)
      <4>1. admin' = [admin EXCEPT ![a] = [Resting EXCEPT !.left = admin[a].left]]
        BY <3>3 DEF AdminRefused, AdminSend, AdminSendRefused, AdminCrash
      <4>2. [Resting EXCEPT !.left = admin[a].left] \in Request
        BY <1>0 DEF RequestsOK, Request, Resting
      <4> QED
        BY <1>0, <4>1, <4>2 DEF RequestsOK
    <3> QED
      BY <1>6, <3>1, <3>2, <3>3 DEF AdminStep
  <2> QED
    BY <1>0, <2>1, <2>2, <2>3 DEF RequestsOK
<1> QED
  BY <1>1, <1>2, <1>3, <1>4, <1>5, <1>6 DEF OrderNext

LEMMA OrderInvInit ==
    ASSUME LedgerAssumption, OrderAssumption, OrderInit
    PROVE  OrderInv
<1>1. LedgerInv /\ TotalsInv
  BY LedgerInvInit, TotalsInit DEF OrderInit
<1>2. Idle \in Task /\ [Resting EXCEPT !.left = MaxAdmin] \in Request
  <2>1. /\ 0 \in 0..MaxRetries /\ 0 \in 0..MaxRefs /\ 0 \in Nat
        /\ MaxAdmin \in 0..MaxAdmin
    BY DEF OrderAssumption
  <2>2. Idle \in Task
    BY <2>1 DEF Idle, Task, Replies
  <2>3. [Resting EXCEPT !.left = MaxAdmin] \in Request
    BY <2>1 DEF Resting, Request
  <2> QED
    BY <2>2, <2>3
<1>3. /\ \A w \in Workers : worker[w].pc = "idle"
      /\ \A a \in Admins : admin[a].pc = "idle"
  BY DEF OrderInit, Idle, Resting
<1>4. \A o \in Orders : provider[o] = <<>> /\ Len(provider[o]) = 0
  BY DEF OrderInit
<1>5. RowsOK /\ RequestsOK
  BY <1>2 DEF OrderInit, OrderAssumption, RowsOK, RequestsOK, RunnerPhases
<1>6. ProviderOK
  BY <1>3, <1>4 DEF OrderInit, OrderAssumption, ProviderOK, ReferencesExist
<1>7. PaidFirst
  BY <1>3, <1>4 DEF OrderInit, PaidFirst, OrdersPaid, NothingBoughtUnpaid,
                    WorkersPaid, AdminsPaid
<1>8. RetryWasCharged /\ RefundedMeansReturned
  BY <1>3 DEF OrderInit, RetryWasCharged, RefundedMeansReturned
<1> QED
  BY <1>1, <1>5, <1>6, <1>7, <1>8
  DEF OrderInv, MoneyInv, LedgerInv, OrderTypeOK, RowsOK, RequestsOK, ProviderOK

LEMMA OrderInvStep ==
    ASSUME LedgerAssumption, OrderAssumption, OrderInv, [OrderNext]_vars
    PROVE  OrderInv'
<1>0. [StaleWalletNext]_walletVars
  BY StepMovesWallet DEF OrderInv, vars
<1>1. LedgerInv' /\ TotalsInv'
  BY <1>0, LedgerInvStep, TotalsStep DEF OrderInv, MoneyInv
<1>2. CASE OrderNext
  <2>1. /\ PaidFirst' /\ RetryWasCharged' /\ RefundedMeansReturned'
        /\ ProviderOK' /\ RowsOK' /\ RequestsOK'
    BY <1>2, StepKeepsPaid, StepKeepsRefunds, StepKeepsProvider, StepKeepsRows,
       StepKeepsRequests
  <2> QED
    BY <1>1, <2>1 DEF OrderInv, MoneyInv, LedgerInv, OrderTypeOK, RowsOK,
                      RequestsOK, ProviderOK
<1>3. CASE UNCHANGED vars
  <2>1. OrderTypeOK'
    BY <1>1, <1>3 DEF OrderInv, MoneyInv, LedgerInv, OrderTypeOK, vars, orderVars
  <2>2. PaidFirst' /\ ReferencesExist'
    BY <1>3 DEF OrderInv, MoneyInv, PaidFirst, OrdersPaid, NothingBoughtUnpaid,
                WorkersPaid, AdminsPaid, ReferencesExist, vars, orderVars,
                walletVars
  <2>3. RetryWasCharged' /\ RefundedMeansReturned'
    BY <1>3 DEF OrderInv, MoneyInv, RetryWasCharged, RefundedMeansReturned, Paid,
                Returned, Posted, vars, orderVars, walletVars
  <2> QED
    BY <1>1, <2>1, <2>2, <2>3 DEF OrderInv, MoneyInv
<1> QED
  BY <1>2, <1>3

----------------------------------------------------------------------------
(* The transition table.                                                    *)

\* The step takes no order where the table does not lead.
InTable == \A o \in Orders : status[o] # "NONE" => Follows(status[o], status'[o])

\* The writes that stale reads excuse.
StaleWrite(o) ==
    \/ \E a \in Admins : /\ admin[a].pc = "read" /\ admin'[a].pc = "commit"
                         /\ admin[a].order = o
    \/ runner[o] \in {"capture", "fail"} /\ runner'[o] # runner[o]

\* The transitions handlers make under the lock of a fresh row.
LEMMA TableAllows ==
    /\ \A s \in {"WAIT_PAY", "TIMEOUT"} : Follows(s, "PAID")
    /\ Follows("WAIT_PAY", "TIMEOUT")
    /\ \A s \in {"PAID", "FAILED"} : Follows(s, "PROCESSING")
    /\ Follows("PROCESSING", "WAIT_FRAGMENT")
    /\ \A s \in {"PROCESSING", "WAIT_FRAGMENT", "CONFIRMING", "MANUAL_REVIEW"} :
          Follows(s, "COMPLETED")
    /\ \A s : Follows(s, s)
BY DEF Follows, CanTransition, ORDER_TRANSITIONS

\* A failure keeps to the table: FAILED is one transition away, and REFUNDED
\* another one from there.
LEMMA FailureInTable ==
    ASSUME OrderTypeOK, NEW o \in Orders, FailAndRefund(o)
    PROVE  InTable
<1> DEFINE refund == Refundable(o, attempt[o], refunded[o])
<1>1. /\ \A p \in Orders : p # o => status'[p] = status[p]
      /\ status'[o] = IF status[o] = "REFUNDED" \/ refund THEN "REFUNDED"
                                                           ELSE "FAILED"
      /\ status[o] \in {"FAILED", "REFUNDED"} \/ CanTransition(status[o], "FAILED")
  BY DEF OrderTypeOK, FailAndRefund
<1>2. Follows(status[o], status'[o])
  <2>1. CASE status[o] = "FAILED"
    <3>1. Follows("FAILED", "FAILED") /\ Follows("FAILED", "REFUNDED")
      BY DEF Follows, CanTransition, ORDER_TRANSITIONS
    <3> QED
      BY <1>1, <2>1, <3>1
  <2>2. CASE status[o] = "REFUNDED"
    BY <1>1, <2>2 DEF Follows
  <2>3. CASE CanTransition(status[o], "FAILED")
    BY <1>1, <2>3 DEF Follows
  <2> QED
    BY <1>1, <2>1, <2>2, <2>3
<1> QED
  BY <1>1, <1>2, TableAllows DEF InTable

LEMMA StepFollowsTable ==
    ASSUME OrderInv, OrderNext, NEW o \in Orders, status[o] # "NONE"
    PROVE  Follows(status[o], status'[o]) \/ StaleWrite(o)
<1>0. /\ OrderTypeOK /\ status \in [Orders -> OrderStatus \cup {"NONE"}]
      /\ method[o] # "NONE"
      /\ \A w \in Workers : worker[w].pc # "idle" => worker[w].order \in Orders
  BY DEF OrderInv, MoneyInv, OrderTypeOK, PaidFirst, OrdersPaid, WorkersPaid
<1>k. ASSUME status'[o] = status[o]
      PROVE  Follows(status[o], status'[o])
  BY <1>k DEF Follows
<1>1. CASE WalletMove /\ UNCHANGED orderVars
  BY <1>1, <1>k DEF orderVars
<1>2. ASSUME NEW p \in Orders, PaymentStep(p)
      PROVE  Follows(status[o], status'[o])
  <2>1. ASSUME NEW m \in Methods, CreateOrder(p, m)
        PROVE  status'[o] = status[o]
    BY <1>0, <2>1 DEF CreateOrder, PlaceOrder
  <2>2. CASE AnnounceRefused(p)
    BY <1>0, <2>2, FailureInTable DEF AnnounceRefused, InTable
  <2>3. CASE ConfirmPayment(p) \/ ExpireOrder(p)
    BY <1>0, <1>k, <2>3, TableAllows DEF ConfirmPayment, ExpireOrder
  <2>4. CASE Announce(p) \/ AnnounceLost(p)
    BY <1>k, <2>4 DEF Announce, AnnounceLost, orderRow
  <2> QED
    BY <1>2, <1>k, <2>1, <2>2, <2>3, <2>4 DEF PaymentStep
<1>3. ASSUME NEW p \in Orders, Poll(p) \/ ProviderStep(p)
      PROVE  Follows(status[o], status'[o])
  <2>1. CASE WebhookSuccess(p)
    <3>1. Follows(status[p], "COMPLETED")
      BY <2>1 DEF WebhookSuccess, Follows
    <3> QED
      BY <1>0, <1>k, <2>1, <3>1 DEF WebhookSuccess
  <2>2. CASE WebhookFailure(p)
    BY <1>0, <2>2, FailureInTable DEF WebhookFailure, InTable
  <2>3. CASE Poll(p)
    BY <1>k, <2>3 DEF Poll, orderRow
  <2> QED
    BY <1>3, <2>1, <2>2, <2>3 DEF ProviderStep
<1>4. ASSUME NEW p \in Orders, RunnerStep(p)
      PROVE  Follows(status[o], status'[o]) \/ StaleWrite(o)
  <2>1. CASE CaptureCommit(p)
    <3>1. p = o => StaleWrite(o)
      BY <1>0, <2>1 DEF CaptureCommit, StaleWrite, OrderTypeOK
    <3>2. p # o => status'[o] = status[o]
      BY <1>0, <2>1 DEF CaptureCommit
    <3> QED
      BY <1>k, <3>1, <3>2
  <2>2. CASE FailCommit(p)
    <3>1. p = o /\ runner[o] = "fail" => StaleWrite(o)
      BY <1>0, <2>2 DEF FailCommit, StaleWrite, OrderTypeOK
    <3>2. p # o \/ runner[o] # "fail" => status'[o] = status[o]
      BY <1>0, <2>2 DEF FailCommit
    <3> QED
      BY <1>k, <3>1, <3>2
  <2>3. CASE \/ RunnerClaim(p) \/ CaptureRead(p) \/ FailRead(p) \/ RunnerStops(p)
             \/ ConfirmOnChain(p)
    BY <1>k, <2>3 DEF RunnerClaim, CaptureRead, FailRead, RunnerStops,
                      ConfirmOnChain, orderRow
  <2>4. CASE InternalCapture(p)
    <3>1. p = o => Follows(status[o], status'[o])
      BY <1>0, <2>4 DEF InternalCapture, Follows, CanTransition, ORDER_TRANSITIONS,
                        OrderTypeOK
    <3>2. p # o => status'[o] = status[o]
      BY <1>0, <2>4 DEF InternalCapture
    <3> QED
      BY <1>k, <3>1, <3>2
  <2> QED
    BY <1>4, <2>1, <2>2, <2>3, <2>4 DEF RunnerStep
<1>5. ASSUME NEW w \in Workers, NEW p \in Orders, NEW r \in 0..MaxRetries,
             MessageStep(w, p, r)
      PROVE  Follows(status[o], status'[o])
  <2>1. CASE FulfilSkip(w, p, r)
    BY <1>k, <2>1 DEF FulfilSkip, orderRow
  <2>2. CASE FulfilBegin(w, p, r)
    <3>1. status' = [status EXCEPT ![p] =
                       IF @ \in {"PAID", "FAILED"} THEN "PROCESSING" ELSE @]
      BY <2>2 DEF FulfilBegin
    <3>2. CASE p = o /\ status[o] \in {"PAID", "FAILED"}
      BY <1>0, <3>1, <3>2, TableAllows
    <3>3. CASE ~(p = o /\ status[o] \in {"PAID", "FAILED"})
      BY <1>0, <1>k, <3>1, <3>3
    <3> QED
      BY <3>2, <3>3
  <2> QED
    BY <1>5, <2>1, <2>2 DEF MessageStep
<1>6. ASSUME NEW w \in Workers, WorkerStep(w) \/ WorkerCrash(w)
      PROVE  Follows(status[o], status'[o])
  <2>1. CASE ApplyFailure(w) \/ GiveUp(w)
    <3>1. \/ FailAndRefund(worker[w].order) /\ worker[w].order \in Orders
          \/ status'[o] = status[o]
      BY <1>0, <2>1 DEF ApplyFailure, GiveUp, Holding, orderRow
    <3> QED
      BY <1>0, <1>k, <3>1, FailureInTable DEF InTable
  <2>2. CASE SaveReference(w) \/ ApplySuccess(w) \/ ApplyPending(w)
    <3>1. \/ status'[o] = status[o]
          \/ status[o] = "PROCESSING" /\ status'[o] = "WAIT_FRAGMENT"
          \/ /\ status[o] \in {"PROCESSING", "WAIT_FRAGMENT", "CONFIRMING",
                               "MANUAL_REVIEW"}
             /\ status'[o] = "COMPLETED"
      BY <1>0, <2>2 DEF SaveReference, ApplySuccess, ApplyPending
    <3> QED
      BY <1>k, <3>1, TableAllows
  <2>3. CASE \/ CreateAtProvider(w) \/ AskProvider(w) \/ WorkerError(w)
             \/ Retry(w) \/ WorkerCrash(w)
    BY <1>k, <2>3 DEF CreateAtProvider, AskProvider, WorkerError, Retry,
                      WorkerCrash, orderRow
  <2> QED
    BY <1>6, <2>1, <2>2, <2>3 DEF WorkerStep
<1>7. ASSUME NEW a \in Admins, AdminStep(a)
      PROVE  Follows(status[o], status'[o]) \/ StaleWrite(o)
  <2>1. CASE AdminCommit(a)
    <3>1. admin[a].pc = "read" /\ admin'[a].pc = "commit"
      <4>1. admin \in [Admins -> Request]
        BY <1>0 DEF OrderTypeOK
      <4> QED
        BY <2>1, <4>1 DEF AdminCommit, Request
    <3>2. admin[a].order # o => status'[o] = status[o]
      BY <1>0, <2>1 DEF AdminCommit
    <3> QED
      BY <1>k, <3>1, <3>2 DEF StaleWrite
  <2>2. CASE \/ AdminRead(a) \/ AdminRefused(a) \/ AdminSend(a)
             \/ AdminSendRefused(a) \/ AdminCrash(a)
    BY <1>k, <2>2 DEF AdminRead, AdminRefused, AdminSend, AdminSendRefused,
                      AdminCrash, orderRow
  <2> QED
    BY <1>7, <2>1, <2>2 DEF AdminStep
<1> QED
  BY <1>1, <1>2, <1>3, <1>4, <1>5, <1>6, <1>7 DEF OrderNext

----------------------------------------------------------------------------
(* The theorems.                                                            *)

\* What a handler took up in one transaction still holds in the next.
THEOREM OrderInvariance == OrderSpec => []OrderInv
<1>1. OrderInit => OrderInv
  BY OrderInvInit, LedgerAssumption, OrderAssumption
<1>2. OrderInv /\ [OrderNext]_vars => OrderInv'
  BY OrderInvStep, LedgerAssumption, OrderAssumption
<1> QED
  BY <1>1, <1>2, PTL DEF OrderSpec

\* The rows, messages and requests keep their types, and the provider never
\* holds more orders than the bound.
THEOREM OrderTypeCorrect == OrderSpec => []OrderTypeOK
<1>1. OrderInv => OrderTypeOK
  BY DEF OrderInv, MoneyInv
<1> QED
  BY <1>1, OrderInvariance, PTL

\* The order processing implements the wallet with stale requests: whatever
\* workers, webhooks, the API and administrators do, each of their transactions
\* charges an order of the wallet, gives back an attempt that was charged, is a
\* deposit's or an adjustment's, or leaves the wallets alone.
THEOREM OrdersImplementStaleWallet == OrderSpec => StaleWalletSpec
<1>1. OrderInit => WalletInit
  BY DEF OrderInit
<1>2. OrderInv /\ [OrderNext]_vars => [StaleWalletNext]_walletVars
  BY StepMovesWallet DEF OrderInv, vars
<1> QED
  BY <1>1, <1>2, OrderInvariance, PTL DEF OrderSpec, StaleWalletSpec

\* Through all of the order processing the books of the wallets are in order:
\* the ledger backs every balance, a deposit is credited once, and what the
\* rows say is spent and left is what the ledger charged and received, however
\* many administrators retry at once.
THEOREM OrdersKeepTheBooks ==
    OrderSpec => [](/\ LedgerBacksBalance /\ ConfirmedIffCredited
                    /\ TotalSpentIsOutstanding /\ MoneyIsConserved)
<1>1. OrderInv => /\ LedgerBacksBalance /\ ConfirmedIffCredited
                  /\ TotalSpentIsOutstanding /\ MoneyIsConserved
  BY TotalsMeaning DEF OrderInv, MoneyInv, LedgerInv
<1> QED
  BY <1>1, OrderInvariance, PTL

\* A REFUNDED order was paid from the wallet, and the payment is back in it.
THEOREM RefundedIsReturned == OrderSpec => []RefundedMeansReturned
<1>1. OrderInv => RefundedMeansReturned
  BY DEF OrderInv, MoneyInv
<1> QED
  BY <1>1, OrderInvariance, PTL

\* No provider order, runner job or TON transaction exists for an unpaid order.
THEOREM BoughtOnlyIfPaid == OrderSpec => []NothingBoughtUnpaid
<1>1. OrderInv => NothingBoughtUnpaid
  BY DEF OrderInv, MoneyInv, PaidFirst, OrdersPaid
<1> QED
  BY <1>1, OrderInvariance, PTL

\* Only an administrator's retry and the runner's endpoints, which read an order
\* before they lock it, take it where the transition table does not lead.
THEOREM OthersKeepToTheTable == OrderSpec => OnlyStaleReadsLeaveTheTable
<1> DEFINE Kept == \A o \in Orders :
              status[o] # "NONE" /\ ~Follows(status[o], status'[o]) => StaleWrite(o)
<1>1. OrderInv /\ [OrderNext]_vars => [Kept]_vars
  BY StepFollowsTable
<1>2. OnlyStaleReadsLeaveTheTable <=> [][Kept]_vars
  BY DEF OnlyStaleReadsLeaveTheTable, StaleWrite
<1> QED
  BY <1>1, <1>2, OrderInvariance, PTL DEF OrderSpec

\* While administrators retry one at a time, a retry still is about the last
\* attempt of its order.
THEOREM RetryInvariance ==
    ASSUME OneRetry
    PROVE  OrderSpec => [](OrderInv /\ RetryIsCurrent)
<1>1. OrderInit => RetryIsCurrent
  BY DEF OrderInit, RetryIsCurrent, Resting
<1>2. OrderInv /\ RetryIsCurrent /\ [OrderNext]_vars => RetryIsCurrent'
  <2>1. ASSUME RetryIsCurrent, UNCHANGED vars
        PROVE  RetryIsCurrent'
    BY <2>1 DEF RetryIsCurrent, vars, orderVars, walletVars
  <2> QED
    BY <2>1, StepKeepsRetry, OneRetry
<1> QED
  BY <1>1, <1>2, OrderInvariance, PTL DEF OrderSpec

\* The order processing then implements the wallet: each of its transactions
\* moves the wallets as one operation of WalletLedger or not at all.
THEOREM OrdersImplementWallet ==
    ASSUME OneRetry
    PROVE  OrderSpec => WalletSpec
<1>1. OrderInit => WalletInit
  BY DEF OrderInit
<1>2. OrderInv /\ RetryIsCurrent /\ [OrderNext]_vars => [WalletNext]_walletVars
  BY StepMovesWallet DEF OrderInv, vars
<1> QED
  BY <1>1, <1>2, RetryInvariance, PTL DEF OrderSpec, WalletSpec

\* Through all of the order processing a user is then charged for an order at
\* most once at a time.
THEOREM OrderChargedAtMostOnce ==
    ASSUME OneRetry
    PROVE  OrderSpec => []OneOutstandingCharge
BY OrdersImplementWallet, ChargedAtMostOnce, PTL
=============================================================================
