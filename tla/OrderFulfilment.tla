--------------------------- MODULE OrderFulfilment ---------------------------
(***************************************************************************)
(* The life of a Telegram Premium order, from its creation to delivery,     *)
(* refund or review, on top of the wallets of WalletLedger.                *)
(*                                                                         *)
(* Six kinds of processes write an order: the API that creates it, the     *)
(* payment matcher, the Celery workers that run fulfill_order, the          *)
(* provider's webhook, an administrator's retry and the Fragment runner.   *)
(* A database transaction that reads an order under FOR UPDATE is one      *)
(* action.  Between two transactions of a task, around a call to the        *)
(* provider and between a commit and the message that announces it, others  *)
(* run and the process may die.  Two handlers read the order without a lock *)
(* before they lock it and keep what they first read (SQLAlchemy does not   *)
(* refresh an object the session holds): the retry of an administrator and *)
(* the runner's endpoints.  Each of them is two actions.                   *)
(***************************************************************************)
EXTENDS WalletLedger, OrderStates

CONSTANTS Workers,     \* Celery worker processes of the fulfillment queue
          Admins,      \* administrators, each with one request at a time
          MaxRetries,  \* fulfill_order.max_retries
          MaxRefs,     \* bound on provider orders created for one order
          MaxAdmin,    \* bound on the retries one administrator asks for
          MaxCrashes,  \* bound on process crashes and lost messages
          Broadcasting \* the signer broadcasts, or it only simulates

ASSUME OrderAssumption ==
    /\ {MaxRetries, MaxRefs, MaxAdmin, MaxCrashes} \subseteq Nat
    /\ Broadcasting \in BOOLEAN

VARIABLES status,     \* orders.status, "NONE" before the order exists
          paid,       \* orders.paid_at IS NOT NULL
          reference,  \* orders.premium_reference: 0 or an index of provider[o]
          provider,   \* the provider's orders made for o, in order of creation
          job,        \* fragment_jobs.status of the order's job
          tx,         \* ton_transactions.status of the order's transaction
          queue,      \* waiting fulfill_order messages <<order, retries>>
          worker,     \* what a worker holds between transactions
          announce,   \* a committed PAID whose message is not sent yet
          admin,      \* an administrator's retry_order request
          runner,     \* the runner working on the order's job
          crashes     \* crashes so far

orderVars == <<status, paid, reference, provider, job, tx, queue, worker, announce,
               admin, runner, crashes>>
vars == <<walletVars, orderVars>>

orderRow     == <<status, paid>>
purchaseVars == <<reference, provider, job, tx>>
requestVars  == <<announce, admin>>

Replies == {"PENDING", "SUCCESS", "FAILED"}
Idle    == [pc |-> "idle", order |-> "none", retries |-> 0, ref |-> 0,
            reply |-> "PENDING"]

\* Statuses of a job whose runner_id is the runner that claimed it.
Owned == {"CLAIMED", "COMPLETED", "MANUAL_REVIEW", "FAILED"}

----------------------------------------------------------------------------
(* Effects shared by several handlers.                                      *)

\* Variant: the order is marked REFUNDED and the refund left for later.
MarkRefunded(o) ==
    /\ status' = [status EXCEPT ![o] =
                    IF method[o] = "WALLET_BALANCE" THEN "REFUNDED" ELSE "FAILED"]
    /\ UNCHANGED walletVars

\* fail_and_refund_order on a locked order: FAILED, the wallet payment given
\* back, and REFUNDED if there was one.
FailAndRefund(o) ==
    /\ status[o] \in {"FAILED", "REFUNDED"} \/ CanTransition(status[o], "FAILED")
    /\ RefundOrderBalance(o, attempt[o], refunded[o])
    /\ status' = [status EXCEPT ![o] =
                    IF @ = "REFUNDED" \/ Refundable(o, attempt[o], refunded[o])
                      THEN "REFUNDED" ELSE "FAILED"]
    /\ UNCHANGED <<method, deposit, adjustment>>

\* ensure_fragment_job: a job that stopped is queued again, any other is kept.
EnsureJob(j) == IF j \in {"NONE", "FAILED", "MANUAL_REVIEW"} THEN "QUEUED" ELSE j

Send(o, retries) == queue' = queue \cup {<<o, retries>>}

----------------------------------------------------------------------------
(* Creation and payment.                                                   *)

\* create_internal_order up to its commit; a wallet order is debited and PAID
\* in the same transaction.
CreateOrder(o, m) ==
    /\ PlaceOrder(o, m)
    /\ status' = [status EXCEPT ![o] =
                    IF m = "WALLET_BALANCE" THEN "PAID" ELSE "WAIT_PAY"]
    /\ paid' = [paid EXCEPT ![o] = m = "WALLET_BALANCE"]
    /\ announce' = [announce EXCEPT ![o] =
                      IF m = "WALLET_BALANCE" THEN "create" ELSE @]
    /\ UNCHANGED <<purchaseVars, queue, worker, admin, runner, crashes>>

\* ingest_transfer matched a transfer with the order.
ConfirmPayment(o) ==
    /\ status[o] \in {"WAIT_PAY", "TIMEOUT"}
    /\ status' = [status EXCEPT ![o] = "PAID"]
    /\ paid' = [paid EXCEPT ![o] = TRUE]
    /\ announce' = [announce EXCEPT ![o] = "pay"]
    /\ UNCHANGED <<walletVars, purchaseVars, queue, worker, admin, runner,
                   crashes>>

\* expire_waiting_orders, for one row of the batch.
ExpireOrder(o) ==
    /\ status[o] = "WAIT_PAY"
    /\ status' = [status EXCEPT ![o] = "TIMEOUT"]
    /\ UNCHANGED <<walletVars, purchaseVars, requestVars, paid, queue, worker,
                   runner, crashes>>

\* fulfill_order.delay after the commit of a PAID order.
Announce(o) ==
    /\ announce[o] # "no"
    /\ Send(o, 0)
    /\ announce' = [announce EXCEPT ![o] = "no"]
    /\ UNCHANGED <<walletVars, orderRow, purchaseVars, worker, admin, runner,
                   crashes>>

\* The broker refuses the message of a new wallet order.  The order object is
\* the one just committed, and nobody works on a PAID order without a message,
\* so it still is what the row says.
AnnounceRefused(o) ==
    /\ announce[o] = "create"
    /\ FailAndRefund(o)
    /\ announce' = [announce EXCEPT ![o] = "no"]
    /\ UNCHANGED <<purchaseVars, paid, queue, worker, admin, runner, crashes>>

\* The process dies between the commit and the message, or the broker refuses
\* the message of a matched payment, which has no handler.
AnnounceLost(o) ==
    /\ announce[o] # "no"
    /\ crashes < MaxCrashes
    /\ crashes' = crashes + 1
    /\ announce' = [announce EXCEPT ![o] = "no"]
    /\ UNCHANGED <<walletVars, orderRow, purchaseVars, queue, worker, admin,
                   runner>>

----------------------------------------------------------------------------
(* The worker: fulfill_order, three transactions around the provider calls. *)

Holding(w, pc) == worker[w].pc = pc

\* The task has raised; what it held is gone.
Failed(task) == [task EXCEPT !.pc = "error", !.ref = 0, !.reply = "PENDING"]

\* _fulfill goes on with an order in one of these statuses.
Fulfillable(o) ==
    \/ status[o] \in {"PAID", "PROCESSING", "WAIT_FRAGMENT"}
    \/ status[o] = "FAILED" /\ ~(method[o] = "WALLET_BALANCE" /\ refunded[o])

\* A worker receives the message <<o, r>>.
Receive(w, o, r) ==
    /\ Holding(w, "idle")
    /\ <<o, r>> \in queue
    /\ queue' = queue \ {<<o, r>>}

\* A message for an order that is past fulfilment is dropped.
FulfilSkip(w, o, r) ==
    /\ Receive(w, o, r)
    /\ ~Fulfillable(o)
    /\ UNCHANGED <<walletVars, orderRow, purchaseVars, requestVars, worker,
                   runner, crashes>>

\* The first transaction: PAID and FAILED orders become PROCESSING; the worker
\* keeps the provider reference it read.
FulfilBegin(w, o, r) ==
    /\ Receive(w, o, r)
    /\ Fulfillable(o)
    /\ status' = [status EXCEPT ![o] =
                    IF @ \in {"PAID", "FAILED"} THEN "PROCESSING" ELSE @]
    /\ worker' = [worker EXCEPT ![w] =
                    [pc |-> "call", order |-> o, retries |-> r,
                     ref |-> reference[o], reply |-> "PENDING"]]
    /\ UNCHANGED <<walletVars, purchaseVars, requestVars, paid, runner,
                   crashes>>

\* provider.create_order: a new order at the provider, whose reference the
\* worker learns unless the answer is lost.
CreateAtProvider(w) ==
    LET o == worker[w].order IN
    /\ Holding(w, "call")
    /\ worker[w].ref = 0
    /\ Len(provider[o]) < MaxRefs
    /\ provider' = [provider EXCEPT ![o] = Append(@, "OPEN")]
    /\ \/ worker' = [worker EXCEPT ![w].pc = "save",
                                   ![w].ref = Len(provider[o]) + 1]
       \/ worker' = [worker EXCEPT ![w] = Failed(@)]
    /\ UNCHANGED <<walletVars, orderRow, requestVars, reference, job, tx,
                   queue, runner, crashes>>

\* The second transaction saves the reference; purchase is called next.
SaveReference(w) ==
    LET o == worker[w].order IN
    /\ Holding(w, "save")
    /\ reference' = [reference EXCEPT ![o] = worker[w].ref]
    /\ status' = [status EXCEPT ![o] =
                    IF @ = "PROCESSING" THEN "WAIT_FRAGMENT" ELSE @]
    /\ worker' = [worker EXCEPT ![w].pc = "call"]
    /\ UNCHANGED <<walletVars, requestVars, paid, provider, job, tx, queue,
                   runner, crashes>>

Report == [OPEN |-> "PENDING", DELIVERED |-> "SUCCESS", FAILED |-> "FAILED"]

\* The provider delivers Premium for an order of its own, or gives up on it, at
\* any time; it matters, and is decided, when the provider next speaks of it.
Observed(o, k) ==
    IF provider[o][k] = "OPEN" THEN DOMAIN Report ELSE {provider[o][k]}

\* provider.purchase of a new reference or provider.query of a known one: the
\* answer is the provider's state at this moment.
AskProvider(w) ==
    LET o == worker[w].order  k == worker[w].ref IN
    /\ Holding(w, "call") /\ k # 0
    /\ \E now \in Observed(o, k) :
          /\ provider' = [provider EXCEPT ![o][k] = now]
          /\ worker' = [worker EXCEPT ![w].pc = "apply", ![w].ref = 0,
                                      ![w].reply = Report[now]]
    /\ UNCHANGED <<walletVars, orderRow, requestVars, reference, job, tx,
                   queue, runner, crashes>>

\* Variant: a delivery report completes the order whatever its status is.
ApplySuccessAlways(w) ==
    /\ Holding(w, "apply") /\ worker[w].reply = "SUCCESS"
    /\ status' = [status EXCEPT ![worker[w].order] = "COMPLETED"]
    /\ worker' = [worker EXCEPT ![w] = Idle]
    /\ UNCHANGED <<walletVars, purchaseVars, requestVars, paid, queue, runner,
                   crashes>>

\* The third transaction, on a report of success ...
ApplySuccess(w) ==
    LET o == worker[w].order IN
    /\ Holding(w, "apply") /\ worker[w].reply = "SUCCESS"
    /\ status' = [status EXCEPT ![o] =
                    IF @ \in {"PROCESSING", "WAIT_FRAGMENT", "CONFIRMING",
                              "MANUAL_REVIEW"} THEN "COMPLETED" ELSE @]
    /\ worker' = [worker EXCEPT ![w] = Idle]
    /\ UNCHANGED <<walletVars, purchaseVars, requestVars, paid, queue, runner,
                   crashes>>

\* ... of failure (a status that cannot fail raises, see WorkerError) ...
ApplyFailure(w) ==
    /\ Holding(w, "apply") /\ worker[w].reply = "FAILED"
    /\ FailAndRefund(worker[w].order)
    /\ worker' = [worker EXCEPT ![w] = Idle]
    /\ UNCHANGED <<purchaseVars, requestVars, paid, queue, runner, crashes>>

\* ... and of neither: the Fragment runner gets a job.  The runner's endpoints
\* lock the job first; a worker that has to write it meanwhile loses the
\* deadlock or waits, and fails (WorkerError) or comes later.
ApplyPending(w) ==
    LET o == worker[w].order
        waits == status[o] \in {"PROCESSING", "WAIT_FRAGMENT"}
        wanted == IF waits THEN EnsureJob(job[o]) ELSE job[o]
    IN
    /\ Holding(w, "apply") /\ worker[w].reply = "PENDING"
    /\ wanted # job[o] => runner[o] \in {"idle", "working"}
    /\ status' = [status EXCEPT ![o] = IF waits THEN "WAIT_FRAGMENT" ELSE @]
    /\ job' = [job EXCEPT ![o] = wanted]
    /\ worker' = [worker EXCEPT ![w] = Idle]
    /\ UNCHANGED <<walletVars, requestVars, paid, reference, provider, tx,
                   queue, runner, crashes>>

\* A call to the provider or a transaction raises.
WorkerError(w) ==
    /\ worker[w].pc \in {"call", "save", "apply"}
    /\ worker' = [worker EXCEPT ![w] = Failed(@)]
    /\ UNCHANGED <<walletVars, orderRow, purchaseVars, requestVars, queue,
                   runner, crashes>>

\* Variant: the task retries without counting.
RetryForever(w) ==
    /\ Holding(w, "error")
    /\ Send(worker[w].order, worker[w].retries + 1)
    /\ worker' = [worker EXCEPT ![w] = Idle]
    /\ UNCHANGED <<walletVars, orderRow, purchaseVars, requestVars, runner,
                   crashes>>

\* self.retry: a new message with one retry more.
Retry(w) ==
    /\ Holding(w, "error")
    /\ worker[w].retries < MaxRetries
    /\ Send(worker[w].order, worker[w].retries + 1)
    /\ worker' = [worker EXCEPT ![w] = Idle]
    /\ UNCHANGED <<walletVars, orderRow, purchaseVars, requestVars, runner,
                   crashes>>

\* _mark_fulfillment_failed after the last retry.
GiveUp(w) ==
    LET o == worker[w].order IN
    /\ Holding(w, "error")
    /\ worker[w].retries = MaxRetries
    /\ IF status[o] \in {"PROCESSING", "WAIT_FRAGMENT", "WAIT_SIGN",
                         "BROADCASTED", "CONFIRMING"}
         THEN FailAndRefund(o)
         ELSE UNCHANGED <<walletVars, status>>
    /\ worker' = [worker EXCEPT ![w] = Idle]
    /\ UNCHANGED <<purchaseVars, requestVars, paid, queue, runner, crashes>>

\* The worker process dies; its message was not acknowledged (task_acks_late,
\* task_reject_on_worker_lost) and is delivered again.
WorkerCrash(w) ==
    /\ ~Holding(w, "idle")
    /\ crashes < MaxCrashes
    /\ crashes' = crashes + 1
    /\ Send(worker[w].order, worker[w].retries)
    /\ worker' = [worker EXCEPT ![w] = Idle]
    /\ UNCHANGED <<walletVars, orderRow, purchaseVars, requestVars, runner>>

\* Variant: only orders that wait for the runner are polled.
PollWaiting(o) ==
    /\ status[o] = "WAIT_FRAGMENT"
    /\ Send(o, 0)
    /\ UNCHANGED <<walletVars, orderRow, purchaseVars, requestVars, worker,
                   runner, crashes>>

\* poll_processing_orders, for one order that was not updated lately.
Poll(o) ==
    /\ status[o] \in {"PROCESSING", "WAIT_FRAGMENT"}
    /\ Send(o, 0)
    /\ UNCHANGED <<walletVars, orderRow, purchaseVars, requestVars, worker,
                   runner, crashes>>

----------------------------------------------------------------------------
(* The provider's webhook.                                                 *)

Active == {"PROCESSING", "WAIT_FRAGMENT", "WAIT_SIGN", "BROADCASTED",
           "CONFIRMING", "MANUAL_REVIEW"}

\* The provider reports this outcome of the order's current reference, perhaps
\* once more.
Reported(o, outcome) ==
    /\ reference[o] # 0
    /\ outcome \in Observed(o, reference[o])
    /\ status[o] \in Active
    /\ provider' = [provider EXCEPT ![o][reference[o]] = outcome]

\* premium_webhook finds the order by its current reference; where the table
\* has no transition to COMPLETED the request is refused.
WebhookSuccess(o) ==
    /\ Reported(o, "DELIVERED")
    /\ CanTransition(status[o], "COMPLETED")
    /\ status' = [status EXCEPT ![o] = "COMPLETED"]
    /\ UNCHANGED <<walletVars, requestVars, paid, reference, job, tx, queue,
                   worker, runner, crashes>>

WebhookFailure(o) ==
    /\ Reported(o, "FAILED")
    /\ FailAndRefund(o)
    /\ UNCHANGED <<requestVars, paid, reference, job, tx, queue, worker,
                   runner, crashes>>

----------------------------------------------------------------------------
(* An administrator's retry: POST /orders/{id}/retry.                      *)

Resting == [pc |-> "idle", order |-> "none", attempt |-> 0, refunded |-> FALSE,
            left |-> 0]

\* Variant: an order that timed out can be retried as well.
AdminReadAny(a) ==
    /\ admin[a].pc = "idle"
    /\ admin[a].left > 0
    /\ \E o \in Orders :
          /\ status[o] \in {"FAILED", "REFUNDED", "MANUAL_REVIEW", "TIMEOUT"}
          /\ admin' = [admin EXCEPT ![a] =
                         [pc |-> "read", order |-> o, attempt |-> attempt[o],
                          refunded |-> refunded[o], left |-> @.left - 1]]
    /\ UNCHANGED <<walletVars, orderRow, purchaseVars, queue, worker, announce,
                   runner, crashes>>

\* session.get(Order) without a lock, and the check of the status it found.
AdminRead(a) ==
    /\ admin[a].pc = "idle"
    /\ admin[a].left > 0
    /\ \E o \in Orders :
          /\ status[o] \in {"FAILED", "REFUNDED", "MANUAL_REVIEW"}
          /\ admin' = [admin EXCEPT ![a] =
                         [pc |-> "read", order |-> o, attempt |-> attempt[o],
                          refunded |-> refunded[o], left |-> @.left - 1]]
    /\ UNCHANGED <<walletVars, orderRow, purchaseVars, queue, worker, announce,
                   runner, crashes>>

Charges(a) ==
    method[admin[a].order] = "WALLET_BALANCE" /\ admin[a].refunded

\* Variant: a refunded order is processed again without a new charge.
RetryUncharged(a) ==
    LET o == admin[a].order IN
    /\ admin[a].pc = "read"
    /\ status' = [status EXCEPT ![o] = "PROCESSING"]
    /\ refunded' = [refunded EXCEPT ![o] = FALSE]
    /\ admin' = [admin EXCEPT ![a].pc = "commit", ![a].refunded = FALSE]
    /\ UNCHANGED <<wallet, ledger, method, attempt, deposit, adjustment>>
    /\ UNCHANGED <<purchaseVars, paid, queue, worker, announce, runner,
                   crashes>>

\* The transaction of the retry writes what follows from the object that was
\* read, over whatever the row says now; a charge that another retry made
\* meanwhile has the key of this one and is taken for it.
AdminCommit(a) ==
    LET o == admin[a].order  n == admin[a].attempt IN
    /\ admin[a].pc = "read"
    /\ IF Charges(a)
         THEN /\ n < MaxAttempt
              /\ DebitOrderBalance(o, n)
              /\ admin' = [admin EXCEPT ![a].pc = "commit", ![a].attempt = n + 1,
                                        ![a].refunded = FALSE]
         ELSE /\ admin' = [admin EXCEPT ![a].pc = "commit"]
              /\ UNCHANGED <<wallet, ledger, attempt, refunded>>
    /\ status' = [status EXCEPT ![o] = "PROCESSING"]
    /\ UNCHANGED <<method, deposit, adjustment>>
    /\ UNCHANGED <<purchaseVars, paid, queue, worker, announce, runner,
                   crashes>>

\* The wallet cannot pay or the transaction fails: nothing is written.
AdminRefused(a) ==
    /\ admin[a].pc = "read"
    /\ admin' = [admin EXCEPT ![a] = [Resting EXCEPT !.left = admin[a].left]]
    /\ UNCHANGED <<walletVars, orderRow, purchaseVars, queue, worker, announce,
                   runner, crashes>>

AdminSend(a) ==
    /\ admin[a].pc = "commit"
    /\ Send(admin[a].order, 0)
    /\ admin' = [admin EXCEPT ![a] = [Resting EXCEPT !.left = admin[a].left]]
    /\ UNCHANGED <<walletVars, orderRow, purchaseVars, worker, announce,
                   runner, crashes>>

\* The broker refuses the message: the charge on the order object is refunded,
\* the status stays as it is.
AdminSendRefused(a) ==
    LET o == admin[a].order IN
    /\ admin[a].pc = "commit"
    /\ RefundOrderBalance(o, admin[a].attempt, admin[a].refunded)
    /\ admin' = [admin EXCEPT ![a] = [Resting EXCEPT !.left = admin[a].left]]
    /\ UNCHANGED <<method, deposit, adjustment>>
    /\ UNCHANGED <<orderRow, purchaseVars, queue, worker, announce, runner,
                   crashes>>

\* The API process dies after the commit.
AdminCrash(a) ==
    /\ admin[a].pc = "commit"
    /\ crashes < MaxCrashes
    /\ crashes' = crashes + 1
    /\ admin' = [admin EXCEPT ![a] = [Resting EXCEPT !.left = admin[a].left]]
    /\ UNCHANGED <<walletVars, orderRow, purchaseVars, queue, worker, announce,
                   runner>>

----------------------------------------------------------------------------
(* The Fragment runner and its endpoints (api/routers/runner.py).  runner[o]*)
(* is "working" while a runner holds the job, and names its request while   *)
(* the transaction of the request is open: "capture" and "fail" saw the     *)
(* order in WAIT_FRAGMENT, "fail_late" saw it elsewhere.                    *)

RunnerPhases == {"idle", "working", "capture", "fail", "fail_late"}

\* claim_fragment_job: a queued job, or one whose runner is gone.
RunnerClaim(o) ==
    /\ runner[o] = "idle"
    /\ job[o] \in {"QUEUED", "RETRY_WAIT", "CLAIMED"}
    /\ job' = [job EXCEPT ![o] = "CLAIMED"]
    /\ runner' = [runner EXCEPT ![o] = "working"]
    /\ UNCHANGED <<walletVars, orderRow, requestVars, reference, provider, tx,
                   queue, worker, crashes>>

\* require_runner_job locks the job and loads its order without a lock.
CaptureRead(o) ==
    /\ runner[o] = "working" /\ job[o] \in Owned
    /\ status[o] = "WAIT_FRAGMENT"
    /\ runner' = [runner EXCEPT ![o] = "capture"]
    /\ UNCHANGED <<walletVars, orderRow, purchaseVars, requestVars, queue,
                   worker, crashes>>

\* The outcomes of prepare_fragment_payment: a transaction that exists and is
\* not under review is kept, otherwise the risk check asks for a review or the
\* signer answers.
PreparedPayment(o) ==
    IF tx[o] \in {"NONE", "MANUAL_REVIEW"}
      THEN {"MANUAL_REVIEW", IF Broadcasting THEN "BROADCASTED" ELSE "SIMULATED"}
      ELSE {tx[o]}

\* capture goes on from the order as loaded and commits WAIT_SIGN and what the
\* payment led to.  The answer may not reach the runner, which then goes on to
\* report a failure.
CaptureCommit(o) ==
    /\ runner[o] = "capture"
    /\ \E prepared \in PreparedPayment(o) :
          /\ tx' = [tx EXCEPT ![o] = prepared]
          /\ status' = [status EXCEPT ![o] =
                          IF prepared \in {"MANUAL_REVIEW", "BROADCASTED"}
                            THEN prepared ELSE "WAIT_SIGN"]
          /\ job' = [job EXCEPT ![o] = IF prepared = "MANUAL_REVIEW"
                                         THEN "MANUAL_REVIEW" ELSE "COMPLETED"]
    /\ \E phase \in {"idle", "working"} :
          runner' = [runner EXCEPT ![o] = phase]
    /\ UNCHANGED <<walletVars, requestVars, paid, reference, provider, queue,
                   worker, crashes>>

FailRead(o) ==
    /\ runner[o] = "working" /\ job[o] \in Owned
    /\ runner' = [runner EXCEPT ![o] =
                    IF status[o] = "WAIT_FRAGMENT" THEN "fail" ELSE "fail_late"]
    /\ UNCHANGED <<walletVars, orderRow, purchaseVars, requestVars, queue,
                   worker, crashes>>

\* mark_job_failed: a review, another attempt of the job, or its end, which
\* are all the end of the runner's work.
FailCommit(o) ==
    /\ runner[o] \in {"fail", "fail_late"}
    /\ \E outcome \in {"MANUAL_REVIEW", "RETRY_WAIT", "FAILED"} :
          /\ job' = [job EXCEPT ![o] = outcome]
          /\ status' = [status EXCEPT ![o] =
                          IF runner[o] = "fail" /\ outcome # "RETRY_WAIT"
                            THEN outcome ELSE @]
    /\ runner' = [runner EXCEPT ![o] = "idle"]
    /\ UNCHANGED <<walletVars, requestVars, paid, reference, provider, tx,
                   queue, worker, crashes>>

\* The request is refused or its transaction rolled back, and the runner still
\* has to report the failure; or the runner stops.
RunnerStops(o) ==
    /\ \/ /\ runner[o] = "capture"
          /\ runner' = [runner EXCEPT ![o] = "working"]
       \/ /\ runner[o] # "idle"
          /\ runner' = [runner EXCEPT ![o] = "idle"]
    /\ UNCHANGED <<walletVars, orderRow, purchaseVars, requestVars, queue,
                   worker, crashes>>

\* capture_fragment_transaction, for a browser worker that goes by the order
\* instead of a job: it locks the row first, and leaves it in PROCESSING whatever
\* the payment led to.
InternalCapture(o) ==
    /\ status[o] \in {"PAID", "PROCESSING"}
    /\ status' = [status EXCEPT ![o] = "PROCESSING"]
    /\ \E prepared \in PreparedPayment(o) : tx' = [tx EXCEPT ![o] = prepared]
    /\ UNCHANGED <<walletVars, requestVars, paid, reference, provider, job,
                   queue, worker, runner, crashes>>

\* reconcile_ton_transactions found the message on chain.
ConfirmOnChain(o) ==
    /\ tx[o] = "BROADCASTED"
    /\ tx' = [tx EXCEPT ![o] = "CONFIRMED"]
    /\ UNCHANGED <<walletVars, orderRow, requestVars, reference, provider, job,
                   queue, worker, runner, crashes>>

----------------------------------------------------------------------------

OrderInit ==
    /\ WalletInit
    /\ status = [o \in Orders |-> "NONE"]
    /\ paid = [o \in Orders |-> FALSE]
    /\ reference = [o \in Orders |-> 0]
    /\ provider = [o \in Orders |-> <<>>]
    /\ job = [o \in Orders |-> "NONE"]
    /\ tx = [o \in Orders |-> "NONE"]
    /\ queue = {}
    /\ worker = [w \in Workers |-> Idle]
    /\ announce = [o \in Orders |-> "no"]
    /\ admin = [a \in Admins |-> [Resting EXCEPT !.left = MaxAdmin]]
    /\ runner = [o \in Orders |-> "idle"]
    /\ crashes = 0

MessageStep(w, o, r) == FulfilSkip(w, o, r) \/ FulfilBegin(w, o, r)

WorkerStep(w) ==
    \/ CreateAtProvider(w) \/ SaveReference(w) \/ AskProvider(w)
    \/ ApplySuccess(w) \/ ApplyFailure(w) \/ ApplyPending(w)
    \/ WorkerError(w) \/ Retry(w) \/ GiveUp(w)

PaymentStep(o) ==
    \/ \E m \in Methods : CreateOrder(o, m)
    \/ ConfirmPayment(o) \/ ExpireOrder(o)
    \/ Announce(o) \/ AnnounceRefused(o) \/ AnnounceLost(o)

AdminStep(a) ==
    \/ AdminRead(a) \/ AdminCommit(a) \/ AdminRefused(a)
    \/ AdminSend(a) \/ AdminSendRefused(a) \/ AdminCrash(a)

ProviderStep(o) == WebhookSuccess(o) \/ WebhookFailure(o)

RunnerStep(o) ==
    \/ RunnerClaim(o) \/ CaptureRead(o) \/ CaptureCommit(o)
    \/ FailRead(o) \/ FailCommit(o) \/ RunnerStops(o)
    \/ InternalCapture(o) \/ ConfirmOnChain(o)

OrderNext ==
    \/ WalletMove /\ UNCHANGED orderVars
    \/ \E o \in Orders :
          PaymentStep(o) \/ Poll(o) \/ ProviderStep(o) \/ RunnerStep(o)
    \/ \E w \in Workers, o \in Orders, r \in 0..MaxRetries : MessageStep(w, o, r)
    \/ \E w \in Workers : WorkerStep(w) \/ WorkerCrash(w)
    \/ \E a \in Admins : AdminStep(a)

OrderSpec == OrderInit /\ [][OrderNext]_vars

\* Celery keeps its workers running and delivers every message in the end, a
\* delayed retry too; the beat schedule polls; a process that has committed an
\* order goes on to announce it.
Fairness ==
    /\ \A w \in Workers : WF_vars(WorkerStep(w))
    /\ \A o \in Orders, r \in 0..MaxRetries :
          SF_vars(\E w \in Workers : MessageStep(w, o, r))
    /\ \A o \in Orders : WF_vars(Poll(o)) /\ WF_vars(Announce(o))

FairOrderSpec == OrderSpec /\ Fairness

----------------------------------------------------------------------------
(* Properties.                                                             *)

Task ==
    [pc : {"idle", "call", "save", "apply", "error"}, order : Orders \cup {"none"},
     retries : 0..MaxRetries, ref : 0..MaxRefs, reply : Replies]

Request ==
    [pc : {"idle", "read", "commit"}, order : Orders \cup {"none"},
     attempt : Nat, refunded : BOOLEAN, left : 0..MaxAdmin]

OrderTypeOK ==
    /\ WalletTypeOK
    /\ status \in [Orders -> OrderStatus \cup {"NONE"}]
    /\ paid \in [Orders -> BOOLEAN]
    /\ reference \in [Orders -> 0..MaxRefs]
    /\ provider \in [Orders -> Seq({"OPEN", "DELIVERED", "FAILED"})]
    /\ job \in [Orders -> Owned \cup {"NONE", "QUEUED", "RETRY_WAIT"}]
    /\ tx \in [Orders -> {"NONE", "MANUAL_REVIEW", "SIMULATED", "BROADCASTED",
                         "CONFIRMED"}]
    /\ queue \subseteq Orders \X (0..MaxRetries)
    /\ worker \in [Workers -> Task]
    /\ announce \in [Orders -> {"no", "create", "pay"}]
    /\ admin \in [Admins -> Request]
    /\ runner \in [Orders -> RunnerPhases]
    /\ crashes \in 0..MaxCrashes

\* An order that is REFUNDED was paid from the wallet and the payment is back
\* in it, whichever of the worker, the webhook, the API and an administrator
\* failed it and however they interleaved.
RefundedMeansReturned ==
    \A o \in Orders : status[o] = "REFUNDED" =>
        /\ method[o] = "WALLET_BALANCE"
        /\ Paid(o, attempt[o]) /\ Returned(o, attempt[o])

\* Nothing is bought for an order that was not paid: a provider order, a job of
\* the runner or a TON transaction exists only for an order with a payment,
\* whoever put it into fulfilment, an administrator included.
NothingBoughtUnpaid ==
    \A o \in Orders :
        provider[o] # <<>> \/ job[o] # "NONE" \/ tx[o] # "NONE" => paid[o]

\* Every handler but those that read an order before they lock it keeps to
\* the transition table, although workers, webhooks and pollers race: a
\* status change outside of it is an administrator's or the runner's, and
\* the status had changed since that request read it.
OnlyStaleReadsLeaveTheTable ==
    [][\A o \in Orders :
          status[o] # "NONE" /\ ~Follows(status[o], status'[o]) =>
             \/ \E a \in Admins : /\ admin[a].pc = "read" /\ admin'[a].pc = "commit"
                                  /\ admin[a].order = o
             \/ runner[o] \in {"capture", "fail"} /\ runner'[o] # runner[o]
      ]_vars

\* No order stays in PROCESSING: a lost worker, a provider that does not answer
\* or a retry whose message was lost are all made up for by the poller.
ProcessingIsTransient ==
    \A o \in Orders : status[o] = "PROCESSING" ~> status[o] # "PROCESSING"

----------------------------------------------------------------------------
(* What the documents say of orders and the code does not keep.            *)

\* The table has no way out of COMPLETED, and no component gets around it.
CompletedIsFinal ==
    [][\A o \in Orders : status[o] = "COMPLETED" => status'[o] = "COMPLETED"]_vars

\* A balance-paid order that finally fails is refunded.
FailedBalanceIsReturned ==
    \A o \in Orders :
        status[o] = "FAILED" /\ method[o] = "WALLET_BALANCE" => refunded[o]

\* An order that is processed has its payment: a retry charges it again first.
ProcessedOrderIsCharged ==
    \A o \in Orders :
        status[o] = "PROCESSING" /\ method[o] = "WALLET_BALANCE" => ~refunded[o]

\* A matched payment makes the order PAID and starts its fulfilment.
PaidIsPickedUp ==
    \A o \in Orders : status[o] = "PAID" ~> status[o] # "PAID"
=============================================================================
