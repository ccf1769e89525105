# Premium bot: verification models

TLA+ models of the back end under `src/premium-bot`: a Telegram bot sells Telegram Premium subscriptions for USDT, paid on-chain or from an
internal wallet, and delivers them through an external provider and, if the provider does not deliver itself, through a browser robot (the
*Fragment runner*) that pays with TON. Paths below are relative to `src/premium-bot`.

## The system

All processes share one MySQL database (REPEATABLE READ) and one Celery broker. Sessions are created with `expire_on_commit=False`, and a
`SELECT ... FOR UPDATE` does not refresh an object the session already holds; both facts decide what a handler sees.

| component | state | operations | makes it correct |
|---|---|---|---|
| Order state machine (`database/enums.py`, `services/orders.py`) | `orders.status`, `paid_at` | `create_order`, `transition_order`, `expire_waiting_orders`, `fail_and_refund_order` | only table transitions; a final status is final; REFUNDED only with the money back |
| Internal wallet (`services/wallets.py`, `api/routers/admin/wallet_accounts.py`) | `user_wallets`, `wallet_ledger_entries`, `deposit_orders`, an order's `balance_payment_attempt` and `balance_refunded_at` | `post_wallet_entry`, `debit_order_balance`, `refund_order_balance`, `credit_deposit`, `expire_deposit_orders`, `adjust_wallet` | balance and ledger agree; a retry or replay moves no money twice; never negative |
| Payment matching (`services/payments.py`, `worker/payment/`) | `payment_transactions`, scanner position | `ingest_transfer`, `scan_all_wallets`, `payment_webhook` | one transfer pays one order or deposit, and the right one |
| Fulfilment worker (`worker/tasks.py`, `worker/celery_app.py`) | the message queue, `premium_reference` | `fulfill_order` and its retries, `poll_processing_orders` | a paid order is delivered or given up; races with webhooks are harmless |
| Premium provider (`services/premium.py`, `premium_webhook`) | orders at the provider (external) | `create_order`, `purchase`, `query`, webhook | external: may deliver, refuse, lose an answer, repeat a report |
| Administrator's endpoints (`api/routers/admin/orders.py`) | none of its own | `retry_order`, `request_refund` | a retry charges again; refunds do not exceed the payment |
| Fragment jobs (`services/fragment_jobs.py`, `services/fragment_monitor.py`, `api/routers/admin/fragment_runners.py`) | `fragment_jobs`, `fragment_accounts`, runner instances, leases | claim, heartbeat, capture, fail, `retry_job`, account release, `monitor_fragment_runners` | an account serves one job; attempts are bounded; no job is lost |
| Runner and its endpoints (`fragment_runner/main.py`, `api/routers/runner.py`) | the job a runner works on | `claim`, `capture`, `fail`, heartbeat | a captured request is paid once |
| TON payment (`services/fragment_orchestrator.py`, `hot_wallet_router.py`, `ton_risk.py`, `circuit_breaker.py`, `ton_chain.py`) | `ton_transactions`, reservations, breakers, schemas | `prepare_fragment_payment`, reserve, release, expire, reconcile | at most one broadcast per order; limits hold; a hot wallet is freed in the end |
| Signers (`signer/`, `signer-node/`) | idempotency cache or files, daily ledger | sign and broadcast | one broadcast per idempotency key |
| On-chain refunds, callbacks (`services/refunds.py`, `services/callbacks.py`) | `refunds`, `webhook_deliveries` | `execute_refund`, `deliver_order_callback` | paid out once; the last status is reported |
| Telegram bot (`bot/`) | a user's dialogue (state and data) in Redis | one handler for each tap or text; calls the internal API | one payment for each confirmation that was asked for; what is paid is what was shown |
| Admin front end, settings, authentication | none that these properties need | | not modelled |

How they interact: the API and the matcher commit an order as PAID and then send a `fulfill_order` message; a worker locks the order, commits
PROCESSING, calls the provider without a lock, and applies the answer in another transaction; the provider's webhook writes the same order;
an order the provider leaves pending becomes a Fragment job, which a runner claims, captures (this pays with TON inside the request) or
fails; an administrator may put a FAILED, REFUNDED or MANUAL_REVIEW order back. Every failure of a wallet-paid order is meant to give the
money back through the wallet.

Hard behaviours: state read before a call to the provider and used after it; handlers that read a row before they lock it; a commit that is
followed by a message which may be lost; messages delivered again after a crash (`task_acks_late`); retries that race late answers; the same
payment charged, refunded and charged again; lost answers of the provider, the runner's API and the signer; handlers of one user's taps that
overlap between their awaits. `PROJECT.json` lists each at its
line under `hazards`.

## Modules

| module | what it is |
|---|---|
| `OrderStates` | statuses, `ORDER_TRANSITIONS`, and where one database transaction may take an order |
| `WalletLedger` | the wallet on its own; also the abstract specification the order life must implement |
| `MCWalletLedger` | two wallets, two orders, two deposits, two adjustments |
| `SumLemmas_proofs` | lemmas about sums over finite sets, for the totals and the limits |
| `WalletLedger_proofs` | inductive invariants and theorems of the wallet; the wallet with stale requests (`StaleWalletSpec`) |
| `OrderFulfilment` | the order life, composed with the wallet: worker, provider, webhook, administrator, runner, crashes |
| `MCOrderFulfilment` | one order and one wallet, with symmetry on workers |
| `OrderFulfilment_proofs` | inductive invariant, refinement and theorems of the order life |
| `FragmentJobs` | the queue of browser jobs, the accounts they need, the runners and their leases |
| `MCFragmentJobs` | two jobs, one account, two runners |
| `FragmentJobs_proofs` | inductive invariant and theorems of the jobs |
| `Receivables` | what the matching of payments promises: each row is settled once, by a transfer of its sum |
| `PaymentMatching` | deposits and orders that wait for an amount, transfers, the webhook's and the scan's transactions |
| `MCPaymentMatching` | a deposit and an order for the same amount at one wallet, two transfers |
| `PaymentMatching_proofs` | inductive invariants, the refinement of `Receivables`, theorems of the matching |
| `TonPayments` | captured payments, hot wallets, limits, the three signers and the chain |
| `MCTonPayments` | two orders, two hot wallets, with symmetry on orders |
| `TonPayments_proofs` | inductive invariants and theorems of the payments |
| `TonLimits_proofs` | inductive invariants and theorems of the API's and the Node signer's limits |
| `BotDialogue` | one user's dialogue with the bot, its handlers between their awaits, the buttons in the chat |
| `MCBotDialogue` | two handlers, two plans, two names, with symmetry on each |
| `BotDialogue_proofs` | inductive invariants and theorems of the dialogue |

### WalletLedger

`wallet[w]` is a row of `user_wallets`, `ledger[w]` its entries in order, each with its idempotency key, amount and `balance_after`. A key is
the triple of what moved the money, the kind, and the attempt. `method`, `attempt` and `refunded` are an order's `payment_method`,
`balance_payment_attempt` and "`balance_refunded_at` is set"; `deposit` and `adjustment` are a deposit order's status and an adjust request.

One database transaction is one action: `PlaceOrder` (`create_order` with the debit), `ChargeAgain` (the debit of `retry_order`), `GiveBack`
(the refund inside `fail_and_refund_order`), `CreditDeposit`, `ExpireDeposit`. Only `adjust_wallet` is two, `AdjustLoad` and `AdjustPost`,
because it loads the wallet with `session.get` before `post_wallet_entry` locks it and the loaded balance is the one used; `adjustment` keeps
the balance it loaded and how many entries there were (`seen`), by which `Overtaken` tells whether another entry came between. `GiveBack` may
find the refund posted already: the order object can be older than the row, and the key must stop it. Amounts are integers; decimal
places and formatting are not modelled. `Settle` keeps the clamp of `total_spent` at zero.

### OrderFulfilment

It extends `WalletLedger`, so that one step of an order is also a step of the wallet.

* Row state: `status`, `paid`, `reference` (the provider's order the row points to), `job`, `tx`; and the wallet's columns.
* Processes between two transactions: `worker[k]` (which call it is at, the reference and answer it holds), `announce[o]` (committed PAID, the
  message not sent), `admin[a]` (the attempt and refund mark the request read), `runner[o]` (the request whose transaction is open and
  whether it saw the order in WAIT_FRAGMENT). `queue` is a set of messages: a duplicate of a waiting message changes nothing, and a
  received message may be sent again.
* `fulfill_order` is `FulfilBegin`/`FulfilSkip` (first transaction), `CreateAtProvider`, `SaveReference` (second), `AskProvider`, and
  `ApplySuccess`, `ApplyFailure` or `ApplyPending` (third). `WorkerError` may happen at each point; `Retry` and `GiveUp` are the task's
  handler; `WorkerCrash` puts the unacknowledged message back.
* `retry_order` is `AdminRead` (unlocked read) and `AdminCommit`, which writes what follows from the read over the row as it is by then;
  then `AdminSend`, `AdminSendRefused` (which refunds and keeps the status) or `AdminCrash`. `post_wallet_entry` takes an entry with the
  key it is about to post for its own: a second request that read the same attempt finds the first one's charge, posts nothing and goes on.
* `capture` is `CaptureRead` and `CaptureCommit`; `fail` is `FailRead` and `FailCommit`. The endpoint's lock is taken after the session has
  loaded the order, so the decision uses the status of the first step. What `prepare_fragment_payment` decides is a choice among its
  results; a transaction that exists and is not under review is kept. A lost answer leaves the runner working. `Broadcasting` says
  whether the signer broadcasts or simulates. `InternalCapture` is `POST /internal/fragment/capture`, the older way to the same payment: it goes
  by the order instead of a job, locks the row first, and takes PAID to PROCESSING.
* The provider's side is external: an order there is OPEN until it is next spoken of, when it may be found delivered or failed for good.
* `mark_job_failed` may answer with review, another attempt or the end: the attempt count behind it is abstracted to a choice. The job
  statuses LOGIN_REQUIRED and SELECTOR_ERROR, which every reader treats as it does MANUAL_REVIEW, are that status.

### FragmentJobs

`job[j]` is a row of `fragment_jobs`, `hold[a]` the lease columns of a row of `fragment_accounts`, `login[a]` and `enabled[a]` its status.
`work[r]` is what a runner's process is doing, which the database does not know: the job and profile it has open and the number of the claim
they came with. A lease is a number of ticks that `Tick` counts down; 0 is a lease that expired, -1 none.

* `Claim` is `claim_fragment_job` with `choose_account`: the oldest claimable job, preferably in the account it had. `ClaimLost` is a claim
  whose answer does not arrive. `Heartbeat` is `heartbeat_job` behind `require_runner_job`.
* A capture is `OpenRequest` and `CaptureCommit` (`finish_captured_job`) or `CaptureAbort`; a failure is `WorkFails`, `OpenRequest` and
  `ReportCommit` (`mark_job_failed`), or the report is refused or lost, and `execute` does not repeat it. `RunnerDies` and `RunnerStarts`
  are the process's death at any point, and its restart under the same name.
* `MonitorRead`/`MonitorWrite` is `monitor_fragment_runners`, which reads expired accounts without a lock. `RequeueRead`/`RequeueWrite` is
  `retry_job` of the administrator and the renewal in `ensure_fragment_job` by the worker: they write the columns whose value differs from the
  one they read, over whatever the row is by then.
* CLAIMED and WAIT_CAPTURE are one status, because everybody treats them alike; all order statuses after the runner's part are `PAST`. The
  delay of a retry is left out (it may be over at any time). The monitor acts only when the runner is down: a status report lost while the
  runner works is not modelled. After a commit the server has freed the account, and the runner closes its browser a moment later; that moment is not
  counted as work in the profile.

### PaymentMatching and Receivables

`row[r]` is a deposit or an order with the sum it waits for (a wallet and an amount), `chain[t]` a transfer, `tx[t]` its row of
`payment_transactions`. `session` holds the two transactions that ingest transfers, each with the snapshot it began with (REPEATABLE READ:
`enabled`, `known`, `matched`), what it still has to ingest and what it has written and not yet committed.

* `Create` is `create_deposit_order` or `create_order` with `select_receiving_wallet` and `allocate_payment_amount`; the sums in use are
  read from a snapshot, so it may miss rows created since. `Expire` and `DayPasses` are the end of the time to pay, and of the day in which a
  late transfer is still matched.
* `WebhookBegins` opens the transaction of `payment_webhook`; `ScanBegins` and `ScanWallet` that of `scan_all_wallets`, which lists wallet
  after wallet. `IngestMatched`, `IngestShallow`, `IngestUnmatched` and `IngestMatch` are the ways through `ingest_transfer`; the row to
  settle is found among those no other transaction holds (SKIP LOCKED). `CreditFails` is an exception from `credit_deposit` that the scan
  swallows; `Rollback` and `Commit` end `session_scope`.
* The scan's position is modelled as the code keeps it. `height` is the latest block, `scanned[w]` the wallet's `last_scanned_block` or, on
  TRON (`tron`), its `last_scanned_at` counted in blocks, 0 for NULL. `ScanEvm` lists the blocks from `Repeated` before the cursor (20 in the
  code), or `First` before the latest block when there is no cursor (100), a `Chunk` of them at most (1500); it moves the cursor to the end of
  what it listed and then parses, and an exception there skips the page with the cursor moved. `ScanTron` lists what TronGrid calls confirmed
  (after `Solid` blocks) from five minutes before the cursor on, up to a page, and moves the cursor to the last of these. Every visited wallet's
  cursor is committed with the rest of the scan. `ScanFails` is a node that does not answer. A transfer the cursor leaves behind is `Past`;
  those an exception, or the first scan, passes over are in `dropped`.
  `Chunk` is at least 2, so that a cursor at block 0 does not look like NULL.
* The confirmations of a transfer are counted when it is listed (`deep`), and compared with `MinConfirmations`, as `min_confirmations` is.
* `PaymentMatching` implements `Receivables` (`SettledOnce`): a row is opened with a sum, may become late, and is settled once.

### TonPayments

`tx[o]` is an order's row of `ton_transactions`, `active`, `spent` and `schema` the columns of hot wallets and schemas that decide;
`session[o]` is the transaction that prepares the order's payment (it holds the order's row, so there is one at a time) and `call[o][n]` the
order's n-th call of the signer, which lives on when the transaction is rolled back.

* `Open`, then `GiveUp` (refused by `validate_ton_payment`, no wallet, or a row from before), `Review` (`ManualReviewRequired`) or `Reserve`
  (`reserve_hot_wallet` and the call of the signer), then `Commit` or `Rollback`. What is in flight, and which orders were paid today, is
  read from the snapshot.
* `signer` is chosen once. The mock answers at once. The Python service (`PythonReceives`, `PythonPosts`, `PythonAnswers`) keeps the results it
  sent in memory, after the broadcast; `PythonRestarts` forgets them. The Node service serves one request at a time (`queue`) and keeps files:
  `NodeReceives`, `NodeReserves` (the daily ledger), `NodeWritesPending`, `NodePosts`, `NodeUpdatesLedger`, `NodeAnswers`, and `NodeFails`
  for whatever goes wrong after the file says "pending"; `NodeRestarts` leaves the files.
* The chain executes one message for each seqno of a wallet (`Mine`), and `Reconcile` finds it.
* Left out: balances, the choice among eligible wallets by score (any is chosen), midnight, the whitelist, `source_address` matching.
  Circuit breakers are left out because they never open: `record_failure` is called in transactions that the same exception rolls back. For
  the same reason no reservation is ever committed as RESERVED, and the expiry and release of reservations find nothing.
  The API's request to the signer lacks fields that `signer-node/server.js` insists on (`destination_raw`, `message_count`,
  `schema_approved`); the model takes requests that have them. The read of the seqno and the post of the message are one step. The Node
  service takes the seqno for 0 when it cannot read the wallet's state (`getWalletState`), so `NodePosts` may post a message with 0, which the
  chain never executes once the wallet has sent one and whose row the unique key on wallet and seqno may refuse.

### BotDialogue

`state` and `data` are the dialogue that aiogram keeps in Redis, `data` reduced to `plan_id` and `target_username`; `handler[h]` is a task
that handles an update, with what it is about and the await it is at; `buttons` is what can be tapped or typed because it was shown once.
The orders the API made, and what the last payment page showed, are history.

* The dispatcher is created without events isolation and polling makes a task of every update, so handlers of one user overlap. `Receive` is
  the arrival of an update: the state filter is decided there and not looked at again. Each handler of `bot/handlers/order.py` and `wallet.py` has an
  action with its filter (`ChoosePlan` ... `ChooseDepositNetwork`); all that clear the dialogue and then show something are `Menu`.
* Every later action is one await of a handler: `Get` and `Put` are the two halves of `update_data`, which writes back all it has read,
  `Clear` and `Wipe` those of `clear`; `Read`, `Call`, `Get`, `Put`, then `OfferPayment` or `OfferRecharge` are `show_balance_result` (and the
  second half of `receive_username`, which takes the name from its own message). `ShowPayment` is the arrival of the payment page, which is after
  the state was set.
* `Buy` is the API's order; `BuyRefused` shows the balance again; `BuyUnheard` is an order whose answer times out: httpx's
  exception is not a `BotAPIError`, and the handler ends without leaving the state. `Cut` is any other end: the process stops, or
  a call raises what the handler does not catch.
* Left out: balances and amounts (the API's word on whether the balance suffices is a choice), texts that are refused as a name or an amount,
  pages that change nothing.

## Runs

| run | question | bounds | result |
|---|---|---|---|
| `wallet` | Do balance, totals, ledger, charges and deposits stay consistent under every order of operations? | 2 wallets, 2 orders with up to 2 charges, 2 deposits, a debit and a credit adjustment | holds; 2 263 692 states |
| `orders` | Do refunds, purchases and the wallet stay correct when everybody races over an order? | 1 order, 2 workers, 1 administrator with 1 retry, 1 crash or lost message, no task retries, 1 order at the provider | holds; 1 036 698 states |
| `liveness` | Does every PROCESSING order leave that status? | 1 order, 1 worker with 1 task retry, 1 administrator retry, 1 crash | holds; 439 226 states |
| `jobs` | Are profiles exclusive, late requests fenced off, and all jobs brought to an end? | 2 jobs (2 and 1 attempts), 1 account, 2 runners, a lease of 1 tick, 1 administrator request, 1 fault | holds; 473 526 states |
| `payments` | Is every row settled once, by its sum, and no transfer left behind by the scan's cursors? | 1 deposit, 1 order, 2 transfers, 1 wallet (EVM or TRON), 1 amount, 3 blocks, 2 confirmations, 1 failure, request or day | holds; 2 562 108 states |
| `ton` | Is an order paid once, within the limits, and as the books say? | 2 orders, 2 hot wallets, 2 calls for an order, amounts 1 and 2, limits of 2, 1 fault or request | holds; 1 825 744 states |
| `bot` | Is what is paid what was asked for and shown, however taps overlap? | 2 handlers, 2 plans, 2 names, 7 updates | holds; 5 517 676 states |
| `detected` | Is a DETECTED transfer updated by a later scan? | as `payments`, with 3 confirmations | violated, see below |
| `completed`, `failed`, `uncharged`, `picked_up` | Does the code keep what a document says? | as above, with 2 retries of the administrator or 2 provider orders where there is room | violated, see below |

*Why the bounds are enough.* Orders do not interact except through their wallet, so one order shows the races over an order and the wallet
run shows two orders on one wallet. A double charge or refund needs one repetition, so two charges per order
suffice; a stale read needs one competing transaction. Two workers are the poller's duplicate message against a running task. Task retries
multiply messages and change no transaction; they are on in the liveness run. What the bounds exclude in the passing runs is a second
provider order for the same order (`MaxRefs` is 1) and administrators who race with each other.
`MCDepositsMatter` ignores deposits of a wallet whose only order is paid on-chain. Deadlock is not checked: an order may come to rest and
its administrator may run out of retries.

For `jobs`, two runners suffice for one to lose what the other gets, two jobs for a runner to come back to an account through another job; the
one account is the contended resource, and one tick is enough of a lease to expire at any moment. One fault is one crash, lost answer or lapsed
lease; the administrator's request comes on top. For `payments`, one amount makes the two rows compete for it, and two transfers are a
payment and a second one that could take its place; a webhook and a scan are the most that may be at work on one transfer. Three blocks,
no repeated ones and pages of two let the cursor move past a transfer, and stop short of one, in three scans; 2 confirmations are then the most a
transfer can still get (`Repeated` + 2, as 22 are in the code), 3 one too many. For `ton`, two
orders compete for limits and wallets through what each read before the other committed. They are not between reservation and commit at the
same time there: a reservation locks the schema, of which the instance has one, and all active wallets, so that this takes a second schema
and a wallet activated meanwhile; the proof of `LimitsHold` covers it. Two calls are a first attempt and the one after its rollback; amounts 1 and 2 under limits of 2 give
sums that just fit and just do not. For `bot`, two handlers overlap in every way a pair can; with two plans and two names an order can mix
them; choosing, confirming, being refused, choosing anew and confirming an old page take at most seven updates. `CHECK_DEADLOCK` is off where an instance comes to rest when all is paid or given up.

*The properties that hold.* `LedgerBacksBalance`, `OneOutstandingCharge`, `ConfirmedIffCredited`,
`TotalSpentIsOutstanding` and `MoneyIsConserved` are the wallet's promises. An adjustment posts what follows from the row it loaded before the
lock, and loses a movement committed in between: `LedgerBacksBalance` exempts the entry of such an adjustment (`Overtaken`), and
`MoneyIsConserved`, that the balance is what was received plus what was adjusted minus the charges outstanding, the wallets that have one. All
other adjustments are held to both. That nothing is posted twice is part of `OneOutstandingCharge` and `MoneyIsConserved`. `RefundedMeansReturned` and `NothingBoughtUnpaid` relate an order to its
payment. The refinement `WalletSpec` says that whatever an order's handlers do, the wallet sees only charges, returns and deposits in the
order it allows: in particular nobody clears `balance_refunded_at` without a new charge. `OnlyStaleReadsLeaveTheTable` says that among all
the races the transition table is left only by the two kinds of handlers that read before they lock, an administrator's retry and the runner's
endpoints.

`ProfileNotShared` names all the ways in which two runners can come to work in one browser profile (a lease lapsed under a runner at
work, an administrator or the monitor took it away, a runner missed the answer to its capture), and so excludes all others: reports that come late,
retries, renewals, take-overs. `AcceptedMeansLatestClaim` says that the runner's name in the row is as good as a fencing token;
`LeaseIsTheRunners` that comparing only the job, as heartbeat and release do, is enough. `JobsComeToAnEnd` says that a job that is queued or
claimed finishes, except that two stale writes may leave it CLAIMED with no lease (`Erased`), or that no account is usable.

`SettledOnce` is the refinement. `AccountedFor` says that a transfer reported again settles nothing more and that its row says what it
settled; it exempts transfers that webhook and scan read unmatched at the same time (`overlap`: they may settle two rows, or be written back to
UNMATCHED), and those whose credit failed in the scan (`torn`: MATCHED, and nothing credited). `LedToItsRow` says when a transfer may go to
another row than its payer meant. `NothingMissed` says that where a wallet asks for no more than `Repeated` + 2 confirmations, a transfer that
its cursor leaves behind was matched or left to a person, unless it is in `dropped`. Two more confirmations than blocks are safe because the
cursor itself is listed again, and a scan lists to the latest block. Above that it fails: see `detected`. The exemption `overlap` is not in
`docs/ARCHITECTURE.md:73`, which says that scans and replayed webhooks never credit twice; it holds of the ledger, whose key is the deposit, and
not of a transfer that settles two rows.

`PaidOnce` holds for the Node signer whatever fails, for the Python signer while it has not lost track of the order (`unsure`: a restart, a
lost answer, a caller that gave up). `NodeWithinLimit` bounds what the Node signer may have sent in a day, exempting a request that
came again for another amount (`requoted`). `BooksAreTrue` ties the books to the messages, both ways, with the orders whose transaction
was rolled back after a call as the exemption (`adrift`). `LimitsHold` is about the API's own limits: a wallet's holds always, because the
wallet is locked; the global one, and the rule of one broadcast at a time for a wallet, only while transactions do not overlap (`overlap`),
an exception that `docs/FRAGMENT_AUTOMATION_V3.md:41`, which states the global limit, does not make.

`OncePerOffer` says that there are no more orders than times the bot began to wait for a confirmation. The exemptions are counted one by
one: a confirmation that arrived while another was being handled (`doubles`), and one that was cut short after its order was made (`lost`).
`OrderedAsShown` relates an order to the last payment page that the user was shown, although pages of the same dialogue may be tapped much
later and the order takes its plan and name from Redis, not from the page; it exempts purchases chosen anew while handlers that read or write
the data were at work, or a confirmation of an older page while a newer one had not arrived (`torn`).

*Fairness* (`jobs`). A runner polls for jobs and ends what it began, because every wait of it has a timeout; time passes; a transaction that
was opened ends. Nothing is assumed of the administrator, the monitor or a heartbeat.

*Fairness* (`liveness`, `picked_up`). A worker process keeps running its task (weak fairness of its steps: a task is synchronous, its HTTP calls
have timeouts, and an unfinished one is redelivered). A waiting message is received in the end (strong fairness, because a worker may
be busy again and again; Celery delivers in order and prefetches one). The beat schedule runs the poller every 60 seconds, and a process that
has committed goes on to send its message. Nothing is assumed of the provider, the runner, the administrator or the payer.

*The violations* are disagreements between a document and the code; `findings` quotes both sides.

* `completed`: the webhook completes an order while a capture request is between load and lock; the capture writes WAIT_SIGN over it.
* `failed`: the runner's last failure goes to FAILED through `transition_order`, and the wallet payment is kept.
* `detected`: a scan records a transfer without its confirmations as DETECTED, and by the time it has them the cursor is past it; in the code
  this takes `min_confirmations` above 22, of up to 1000 that `api/schemas.py` admits.
* `uncharged`: a retry whose message is refused is refunded, stays PROCESSING, and is fulfilled by the poller.
* `picked_up`: a PAID order whose message is lost is selected by no poller.

## Proofs

Every invariant and every safety property that a passing run checks is also a theorem, for every value of the constants that the
module's assumption admits.

`SumLemmas_proofs` has the facts about `SumFunctionOnSet` that totals and limits need (the sum of an empty set, of one element more or
less, of a part, of equal values). The operator is a recursion over a set, and induction theorems cannot be used here; instead, a sum is
shown to be the number of units its elements are worth (`Units`), by a minimal set for which it is not, and cardinalities do the rest.

`WalletLedger_proofs` proves, for any wallets, orders, deposits, adjustments and amounts that satisfy `LedgerAssumption`, every invariant of
the wallet. They are inductive only together: that a new charge or refund does not meet an old entry of its key rests on which attempts were charged
and returned, and that in turn on the keys. The invariant has three layers.

* `LedgerInv`: types, `LedgerBacksBalance`, `ConfirmedIffCredited`, which entries an order's row allows, and that an adjustment is in the ledger
  exactly when it was made, and one that is loaded knows the balance as long as it has seen every entry (`AdjustmentsFollowLedger`). It is kept even
  by a wallet in which a request may charge an attempt, or give one back, that it knew from an older row: `StaleWalletNext`.
* `ChargesFollowAttempts`, the unbounded form of `OneOutstandingCharge`, which steps of `WalletNext` keep and stale ones may not.
* `TotalsInv`: `total_spent` and the balance, added up from entries. It holds of stale steps too: a charge adds its cost to what is
  outstanding, a refund takes it away, whatever attempt they are for; so the clamp of `Settle` at zero never acts.

`OrderFulfilment_proofs` proves, for any number of orders, workers, administrators, retries and crashes, with the inductive invariant
`OrderInv`: whoever holds an order (a worker, an announcement, a request) holds a paid one (`PaidFirst`); the attempt that an administrator's
request would give back was charged (`RetryWasCharged`); a reference names an order the provider has (`ReferencesExist`); besides the types,
`RefundedMeansReturned`, `LedgerInv` and `TotalsInv`.

* `OrdersImplementStaleWallet`: the order life is the wallet with stale requests. `OrdersKeepTheBooks` carries the wallet's
  invariants over to it.
* `OrderTypeCorrect`, `RefundedIsReturned`, `BoughtOnlyIfPaid`: the invariants of the orders.
* `OrdersImplementWallet`, the refinement of `WalletSpec`, and `OrderChargedAtMostOnce` have the hypothesis `OneRetry`: administrators do not
  retry at the same time. Then a request agrees with the order's attempt and refund mark where it matters (`RetryIsCurrent`). The hypothesis is
  needed. A charges an order again, a worker fails and refunds it, B charges it once more, and then A's request, whose message is refused,
  refunds the attempt it knows, which posts nothing but marks the order refunded while B's charge stands. Or B's request, read together with
  A's, takes A's charge for its own and sends its message, while A's message is refused and the charge returned: the order is fulfilled
  unpaid. `OrdersKeepTheBooks` says that even then the totals are those of the entries.

`OthersKeepToTheTable` proves `OnlyStaleReadsLeaveTheTable` from `OrderInv`, which says that a status other than NONE belongs to a placed
order and that a worker holds an order that exists; one step per action then compares the old status with the new one.

`FragmentJobs_proofs` proves the type invariant and the three invariants of the jobs for any number of jobs, accounts, runners, attempts and
faults. `JobsInv` adds: a request that holds the job's lock comes from the runner the row names (`LockedIsOwned`); a row with a runner has an
account (`RunnerHasAccount`); and a runner at work that was not deprived of it has its account's lease (`WorkIsLeased`), which gives
`ProfileNotShared`, for an account has one lease. Each part has a lemma with a step for every action.

`PaymentMatching_proofs` proves all five properties of the matching, for any number of rows, transfers, wallets and sums. There is a small
invariant for each, on top of the types.

* `SettlesOnce`, the refinement: what a transaction is about to settle can still be settled by that transfer (`WritesFit`), since only
  its own commit takes the row out of reach, and no two writes name one row (`OneWriter`), which is what SKIP LOCKED is for.
* `AccountsForTransfers`: a session that may write a transfer knows whether it was matched, and a row once MATCHED is not
  written again, except where the two sessions read the transfer at the same time.
* `LeadsToItsRow`: two rows with one sum at once are either of an overtaken creation (`raced`) or one of them has expired (`OneSumEach`);
  so the row found by a sum is the one the payer was told to pay.
* `MissesNothing`: a transfer that the scan under way will leave behind (`Reached`) was matched or left to a person, was passed over, or is still
  to be ingested with its confirmations (`ScanDeals`); so it has its result when the scan commits the cursor. A cursor that `ScanEvm` or
  `ScanTron` moves keeps this, because a transfer that falls out of the repeated blocks by the move was in the page that moved it, and deep
  enough (`EvmReaches`, `TronReaches`, with `CursorsFollow`: no cursor is ahead of the chain); and MATCHED and UNMATCHED rows do not go
  back to a state without a result (`MatchedIsFinal`).

`TonPayments_proofs` and `TonLimits_proofs` prove `TonTypeOK`, `PaidOnce`, `BooksAreTrue`, `LimitsHold` and `NodeWithinLimit`, for any number of orders, calls, wallets, amounts and faults.

* `PaysOnce` (`PayInv`): at most one message of an order was ever sent (`Alone`), and the chain executes a message once. With the Node signer
  the file says whether something may have been sent (`Filed`), and only the call at the head of the queue is past reading the file
  (`OneServed`). With the Python signer an order that it has not lost track of has one call in service, the one the API waits for, and
  what was sent is in its memory or about to be (`Tracked`).
* `KeepsTrueBooks` (`BooksInv`): every message that a call, a cache, a file, an answer or a row holds was sent for that order (`Booked`); of an
  order that is not `adrift`, what was sent is in its row, in a call under way or in the answer at hand, with the wallet and amount the
  transaction chose (`Tidy`).

* `KeepsLimits` (`LimitInv`): `spent` of a wallet is the sum of what is recorded of it; a transaction under way has locked its wallet, which
  covers what it will spend (`Holds`), and no wallet is locked twice; while transactions do not overlap, what one read of the others is
  still so (`WithinGlobal`).
* `SendsWithinLimit` (its `LedgerInv`): the amounts that the Node signer's ledger counts are those of its entries; what was sent, or may have been, has
  an entry of its amount, unless it was asked for again with another one.

`BotDialogue_proofs` proves the three invariants of the dialogue for any number of handlers, plans, names and updates.

* `PaysOncePerOffer` (`CountInv`): the orders, the handlers that may still order, and one more if the dialogue waits for a confirmation that
  nobody is handling, are together no more than what was asked for, doubled or lost. A handler that has ordered and not yet left the state
  counts as handling, so that the next confirmation is a double.
* `OrdersAsShown` (`ShownInv`, while not `torn`): a handler that chooses a purchase has no other beside it that touches one (`Apart`), and
  what it holds goes with the data (`Naming`). While nothing is half chosen (`Settled`), the data and what handlers hold or are about to write
  back are one purchase, or were cleared (`OnePurchase`), and where it may be paid for it is the one that was shown; so what is ordered is
  what is shown (`Matching`).

Only model-checked: `JobsComeToAnEnd` and `ProcessingIsTransient` (liveness), and the violations.

## Not modelled, and the plan

1. `Refunds` and `Callbacks`: a payout is sent inside the transaction that marks it, so a redelivered task repeats it; a failed one stays REQUESTED,
   because FAILED is rolled back with the exception; a request is compared with the order's amount, not with what was refunded; callbacks
   are sent at least once and in no order. They share nothing with the modules here but the order's status, which they read.
2. A run with two administrators, and two orders at the provider.
3. Two scans at once; hot wallet balances and midnight.

Left out for good: the admin pages, configuration, authentication, logging and schemas, which keep no state these
properties are about; what the browser does on a page, whose outcomes are the failures of `FragmentJobs`; `services/ton_reconcile.py` and
`services/ton_center.py`, which nothing calls.
