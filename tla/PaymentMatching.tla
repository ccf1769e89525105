--------------------------- MODULE PaymentMatching ---------------------------
(***************************************************************************)
(* Transfers on the chains and the deposits and orders they pay for.        *)
(*                                                                         *)
(* A deposit, or an order to be paid on chain, waits for an exact amount at *)
(* a receiving wallet.  Transfers are reported by a third party's webhook,  *)
(* each in a transaction of its own, and found by the scan, one long        *)
(* transaction over all wallets.  Either may report the same transfer again *)
(* and both may do so at the same time.                                     *)
(*                                                                         *)
(* A transaction reads payment_transactions, the wallets and the amounts in *)
(* use as they were when it began (non-locking reads of REPEATABLE READ),   *)
(* but finds the row to settle with FOR UPDATE SKIP LOCKED, which sees what *)
(* is committed and passes over what another transaction holds.  What it    *)
(* writes shows when it commits; until then nobody else can write it.       *)
(*                                                                         *)
(* The scan keeps a cursor for each wallet: the last block it listed, or on *)
(* TRON the time of the last transfer, counted in blocks as well.  It goes  *)
(* some blocks back from there each time, and never looks further back.     *)
(***************************************************************************)
EXTENDS Naturals, FiniteSets, FiniteSetsExt

CONSTANTS LastRow,       \* rows of deposit_orders and orders, by created_at
          Deposits,      \* those of deposit_orders
          LastTransfer,  \* transfers, in the order they are mined
          Wallets,       \* receiving wallets, numbered by created_at
          Amounts,       \* amounts with a suffix drawn at random ...
          Base,          \* ... and the bare price
          UniqueOrders,  \* settings.payment_unique_amount
          MinConfirmations, \* wallet.min_confirmations
          Solid,         \* confirmations until TronGrid reports a transfer (external)
          Repeated,      \* blocks that a scan lists again: 20, on TRON 5 minutes
          First,         \* blocks before the latest that a first scan lists: 100
          Chunk,         \* settings.payment_scan_block_chunk
          MaxHeight,     \* bound on the blocks that are mined
          MaxRare        \* bound on failures, administrators' requests and days

Rows      == 1..LastRow
Transfers == 1..LastTransfer
Sums      == Wallets \X (Amounts \cup {Base})
Nobody    == 0

ASSUME MatchingAssumption ==
    /\ {LastRow, LastTransfer, Repeated, First, MaxHeight, MaxRare} \subseteq Nat
    /\ MinConfirmations \in Nat \ {0} /\ Solid \in 1..Repeated + 2
    /\ Chunk \in Nat \ {0, 1}
    /\ Deposits \subseteq Rows
    /\ Wallets \subseteq Nat \ {0}
    /\ UniqueOrders \in BOOLEAN

VARIABLES row,     \* the rows of deposit_orders and orders
          chain,   \* the transfers: what they carry, the block they are mined in
          height,  \* the latest block
          tx,      \* the rows of payment_transactions
          tron,    \* wallets of the network TRC20, the others are of an EVM network
          enabled, \* wallets that are enabled
          scanned, \* last_scanned_block or last_scanned_at of each wallet, 0 for NULL
          session, \* the transactions that ingest transfers: "webhook", "scan"
          overlap, \* history: transfers that two transactions saw unmatched at once
          torn,    \* history: transfers whose credit failed in the middle of a scan
          dropped, \* history: transfers a scan listed and did not get to, and those
                   \* mined before a wallet's first scan reached back
          raced,   \* history: rows whose sum was drawn from an old reading
          rare     \* failures, administrators' requests and days so far

history == <<overlap, torn, dropped, raced>>
cursor  == <<height, tron, scanned>>
vars == <<row, chain, tx, enabled, session, cursor, history, rare>>

Sessions == {"webhook", "scan"}

NewRow == [status |-> "NONE", sum |-> {}, recent |-> TRUE,
           expired |-> FALSE, by |-> Nobody]
NewTransfer == [sum |-> {}, for |-> Nobody, block |-> 0]
NewTx == [status |-> "NONE", deposit |-> Nobody, order |-> Nobody]
NoWrite == [status |-> "NONE", row |-> Nobody, credited |-> FALSE]
Closed == [open |-> FALSE, reported |-> {}, todo |-> {}, deep |-> {},
           visited |-> {}, scanned |-> [w \in Wallets |-> 0], skipped |-> {},
           enabled |-> {}, known |-> {}, matched |-> {},
           writes |-> [t \in Transfers |-> NoWrite]]

Rare       == rare < MaxRare /\ rare' = rare + 1
InUse      == UNION {row[r].sum : r \in {q \in Rows : row[q].status = "WAIT_PAY"}}
Matched(t) == tx[t].deposit # Nobody \/ tx[t].order # Nobody
Wrote(s)   == {t \in Transfers : session[s].writes[t] # NoWrite}
Locked(r)  == \E s \in Sessions : \E t \in Wrote(s) : session[s].writes[t].row = r

----------------------------------------------------------------------------
(* Deposits and orders.                                                    *)

\* select_receiving_wallet: the enabled wallet used least recently, of those
\* the scan does not hold (it writes last_scanned_at of each it visits).
LastUsed(w) == Max({0} \cup {r \in Rows : \E sum \in row[r].sum : sum[1] = w})
Selectable  == enabled \ session["scan"].visited
Selected(w) ==
    /\ w \in Selectable
    /\ \A v \in Selectable : \/ LastUsed(w) < LastUsed(v)
                             \/ LastUsed(w) = LastUsed(v) /\ w <= v

\* Variant: an amount that an order waits for may be drawn.
SumsBesidesOrders(r, w, used) ==
    {w} \X {a \in Amounts : <<w, a>> \notin used \ UNION {row[q].sum : q \in Rows \ Deposits}}

\* allocate_payment_amount: an amount nothing waits for at the wallet, or for
\* an order its bare price, when amounts need not be unique.
SumsFor(r, w, used) ==
    IF r \notin Deposits /\ ~UniqueOrders THEN {<<w, Base>>}
    ELSE {w} \X {a \in Amounts : <<w, a>> \notin used}

\* create_deposit_order and create_order.  The sums in use are read as they were
\* when the transaction began: it misses what was created since.
Create(r) ==
    /\ row[r] = NewRow /\ \A q \in 1..r-1 : row[q] # NewRow
    /\ \E used \in SUBSET InUse, w \in Wallets :
          /\ Selected(w)
          /\ \E sum \in SumsFor(r, w, used) :
                row' = [row EXCEPT ![r].status = "WAIT_PAY", ![r].sum = {sum}]
          /\ raced' = IF used # InUse THEN raced \cup {r} ELSE raced
    /\ UNCHANGED <<chain, tx, enabled, session, cursor, overlap, torn, dropped, rare>>

\* Variant: a status of its own for a row whose time is over.
ExpireAway(r) ==
    /\ row[r].status = "WAIT_PAY" /\ ~Locked(r)
    /\ row' = [row EXCEPT ![r].status = "EXPIRED", ![r].expired = TRUE]
    /\ UNCHANGED <<chain, tx, enabled, session, cursor, history, rare>>

\* expire_waiting_orders and expire_deposit_orders skip what is locked.
Expire(r) ==
    /\ row[r].status = "WAIT_PAY" /\ ~Locked(r)
    /\ row' = [row EXCEPT ![r].status = "TIMEOUT", ![r].expired = TRUE]
    /\ UNCHANGED <<chain, tx, enabled, session, cursor, history, rare>>

\* late_payment_boundary: a day after its creation a row is not matched any more.
DayPasses(r) ==
    /\ row[r].status = "TIMEOUT" /\ row[r].recent /\ Rare
    /\ row' = [row EXCEPT ![r].recent = FALSE]
    /\ UNCHANGED <<chain, tx, enabled, session, cursor, history>>

\* update_wallet and disable_wallet.
UpdateWallet(w) ==
    /\ Rare
    /\ enabled' = IF w \in enabled THEN enabled \ {w} ELSE enabled \cup {w}
    /\ UNCHANGED <<row, chain, tx, session, cursor, history>>

----------------------------------------------------------------------------
(* The chain.                                                              *)

\* The payer of a row sends what it asks for, in time or late.  The transfer is
\* mined in the next block.
Pay(t, r) ==
    /\ chain[t] = NewTransfer /\ \A u \in 1..t-1 : chain[u] # NewTransfer
    /\ row[r].status # "NONE"
    /\ \A u \in Transfers : chain[u].for # r
    /\ chain' = [chain EXCEPT ![t] = [sum |-> row[r].sum, for |-> r,
                                      block |-> height + 1]]
    /\ UNCHANGED <<row, tx, enabled, session, cursor, history, rare>>

\* The next block is mined.
Grow ==
    /\ height < MaxHeight
    /\ height' = height + 1
    /\ UNCHANGED <<row, chain, tx, enabled, session, tron, scanned, history, rare>>

At(w)   == {t \in Transfers : \E sum \in chain[t].sum : sum[1] = w}
Mined   == {t \in Transfers : chain[t].block \in 1..height}
Confirmed(t, n) == chain[t].block + n <= height + 1

----------------------------------------------------------------------------
(* Transactions that ingest transfers.                                     *)

\* What a transaction that begins now will read.
Begin == [Closed EXCEPT !.open = TRUE, !.enabled = enabled,
                        !.known = {t \in Transfers : tx[t] # NewTx},
                        !.matched = {t \in Transfers : Matched(t)}]

\* Another transaction has read the transfer unmatched, and may report it.
Overlaps(s, t) ==
    \E o \in Sessions \ {s} : /\ session[o].open /\ t \notin session[o].matched
                              /\ o = "webhook" => t \in session[o].reported

\* payment_webhook reports a transfer, with the confirmations it has.
WebhookBegins(t) ==
    /\ ~session["webhook"].open
    /\ t \in Mined
    /\ session' = [session EXCEPT !["webhook"] =
                     [Begin EXCEPT !.reported = {t}, !.todo = {t},
                                   !.deep = {u \in {t} : Confirmed(u, MinConfirmations)}]]
    /\ overlap' = IF Overlaps("webhook", t) THEN overlap \cup {t} ELSE overlap
    /\ UNCHANGED <<row, chain, tx, enabled, cursor, torn, dropped, raced, rare>>

\* scan_all_wallets begins with the list of wallets.
ScanBegins ==
    /\ ~session["scan"].open
    /\ session' = [session EXCEPT !["scan"] = [Begin EXCEPT !.scanned = scanned]]
    /\ overlap' = overlap \cup {t \in Transfers : Overlaps("scan", t)}
    /\ UNCHANGED <<row, chain, tx, enabled, cursor, torn, dropped, raced, rare>>

NextWallet(w) ==
    LET scan == session["scan"] IN
    /\ scan.open /\ scan.todo = {}
    /\ w \in scan.enabled \ scan.visited
    /\ \A v \in scan.enabled : v < w => v \in scan.visited

\* The scan comes to the wallet, with a page of transfers to ingest, those of it
\* with the confirmations, a cursor, and transfers it passes over.
Visit(w, page, deep, last, skipped) ==
    /\ session' = [session EXCEPT
          !["scan"].visited = @ \cup {w}, !["scan"].todo = page, !["scan"].deep = deep,
          !["scan"].scanned = [@ EXCEPT ![w] = last],
          !["scan"].skipped = @ \cup skipped]
    /\ UNCHANGED <<row, chain, tx, enabled, cursor, history>>

Back(n, k) == IF n > k THEN n - k ELSE 0
Before(w, block) == {t \in At(w) : chain[t].block < block}

\* EvmUsdtAdapter.scan_wallet lists the logs of a range of blocks.  It moves the
\* cursor to the end of the range and then parses what it got, which may fail.
ScanEvm(w) ==
    LET last  == session["scan"].scanned[w]
        from  == IF last = 0 THEN Back(height, First) ELSE Back(last, Repeated)
        to    == Min({height, from + Chunk - 1})
        logs  == {t \in At(w) : chain[t].block \in from..to}
        deep  == {t \in logs : Confirmed(t, MinConfirmations)}
        early == IF last = 0 THEN Before(w, from) ELSE {} IN
    /\ NextWallet(w) /\ w \notin tron
    /\ \/ Visit(w, logs, deep, to, early) /\ UNCHANGED rare
       \/ Visit(w, {}, {}, to, early \cup logs) /\ Rare

\* TronUsdtAdapter.scan_wallet lists the confirmed transfers, the oldest 200 of
\* them, all with the confirmations, and moves the cursor to the last of these; or
\* to the present, when it has no cursor and lists none.
ScanTron(w) ==
    LET last      == session["scan"].scanned[w]
        confirmed == {t \in At(w) : /\ Confirmed(t, Solid)
                                    /\ chain[t].block >= Back(last, Repeated)}
        reached(page) == {last} \cup {chain[t].block : t \in page} IN
    /\ NextWallet(w) /\ w \in tron
    /\ \E page \in SUBSET confirmed :
          /\ page = {} => confirmed = {}
          /\ \A t \in page : {u \in confirmed : chain[u].block < chain[t].block} \subseteq page
          /\ \E to \in IF last = 0 /\ page = {} THEN {height} ELSE reached(page) :
                /\ \A block \in reached(page) : block <= to
                /\ Visit(w, page, page, to, {})
    /\ UNCHANGED rare

\* The node or TronGrid does not answer.
ScanFails(w) ==
    /\ NextWallet(w)
    /\ Visit(w, {}, {}, session["scan"].scanned[w], {}) /\ Rare

ScanWallet(w) == ScanEvm(w) \/ ScanTron(w) \/ ScanFails(w)

\* Variant: rows are not locked, or not passed over when they are.
CandidatesUnlocked(t) ==
    {r \in Rows : /\ row[r].status \in {"WAIT_PAY", "TIMEOUT"} /\ row[r].recent
                  /\ row[r].sum = chain[t].sum}

\* The rows a transfer may settle, and the one it does: the oldest deposit, or
\* else the oldest order.
Candidates(t) ==
    {r \in Rows : /\ row[r].status \in {"WAIT_PAY", "TIMEOUT"} /\ row[r].recent
                  /\ row[r].sum = chain[t].sum /\ ~Locked(r)}
Best(t, r) ==
    LET deposits == Candidates(t) \cap Deposits IN
    /\ r \in Candidates(t)
    /\ r = Min(IF deposits = {} THEN Candidates(t) ELSE deposits)

\* The transfer a transaction ingests next, and the end of its ingestion.
Turn(s, t) == t \in session[s].todo /\ \A u \in session[s].todo : t <= u
Done(s, t, write) ==
    /\ session' = [session EXCEPT ![s].todo = @ \ {t}, ![s].deep = @ \ {t},
                                  ![s].writes[t] = write]
    /\ UNCHANGED <<row, chain, tx, enabled, cursor, history, rare>>

\* Variant: whether the transfer is matched already is not asked.
MayWriteAlways(s, t) ==
    /\ \A o \in Sessions \ {s} : t \notin Wrote(o)
    /\ tx[t] = NewTx \/ t \in session[s].known

\* The transaction did not see the transfer matched, no other holds its row,
\* and none inserted it since.
MayWrite(s, t) ==
    /\ t \notin session[s].matched
    /\ \A o \in Sessions \ {s} : t \notin Wrote(o)
    /\ tx[t] = NewTx \/ t \in session[s].known

\* Variant: what another transaction is about to write is left to it.
IngestMatchedOrBusy(s, t) ==
    /\ Turn(s, t)
    /\ \/ t \in session[s].matched
       \/ \E o \in Sessions \ {s} : t \in Wrote(o)
    /\ Done(s, t, NoWrite)

\* A transfer that was matched before.
IngestMatched(s, t) ==
    /\ Turn(s, t) /\ t \in session[s].matched
    /\ Done(s, t, NoWrite)

Ours(s, t) == \E w \in session[s].enabled : t \in At(w)

\* A transfer without the confirmations is recorded, if it is new.
IngestShallow(s, t) ==
    /\ Turn(s, t) /\ Ours(s, t) /\ t \notin session[s].deep
    /\ MayWrite(s, t)
    /\ Done(s, t, IF t \in session[s].known THEN NoWrite
                  ELSE [NoWrite EXCEPT !.status = "DETECTED"])

\* No wallet or no row is found for the transfer.
IngestUnmatched(s, t) ==
    /\ Turn(s, t) /\ MayWrite(s, t)
    /\ \/ ~Ours(s, t)
       \/ t \in session[s].deep /\ Candidates(t) = {}
    /\ Done(s, t, [NoWrite EXCEPT !.status = "UNMATCHED"])

\* The transfer settles a row.
IngestMatch(s, t, r) ==
    /\ Turn(s, t) /\ MayWrite(s, t)
    /\ Ours(s, t) /\ t \in session[s].deep /\ Best(t, r)
    /\ Done(s, t, [status |-> "MATCHED", row |-> r, credited |-> TRUE])

\* credit_deposit fails, for want of a lock on the user's wallet: the scan drops
\* the rest of the page and goes on, with the transfer marked as matched.
CreditFails(t, r) ==
    LET scan == session["scan"] IN
    /\ Rare
    /\ Turn("scan", t) /\ MayWrite("scan", t)
    /\ Ours("scan", t) /\ t \in scan.deep /\ Best(t, r) /\ r \in Deposits
    /\ session' = [session EXCEPT
          !["scan"].todo = {}, !["scan"].deep = {},
          !["scan"].skipped = @ \cup (scan.todo \ {t}),
          !["scan"].writes[t] = [status |-> "MATCHED", row |-> r, credited |-> FALSE]]
    /\ torn' = torn \cup {t}
    /\ UNCHANGED <<row, chain, tx, enabled, cursor, overlap, dropped, raced>>

Close(s) == session' = [session EXCEPT ![s] = Closed]

\* The transaction is rolled back: it inserts a transfer that another inserted
\* since it began, or fails for another reason.
Rollback(s) ==
    /\ session[s].open
    /\ \/ /\ UNCHANGED rare
          /\ \E t \in Transfers : /\ Turn(s, t) /\ t \notin session[s].known
                                  /\ tx[t] # NewTx
       \/ Rare
    /\ Close(s)
    /\ UNCHANGED <<row, chain, tx, enabled, cursor, history>>

----------------------------------------------------------------------------
(* The commit.                                                             *)

\* The row of payment_transactions, with a column for a deposit and one for an
\* order.
Written(t, write) ==
    IF write = NoWrite THEN tx[t]
    ELSE [status  |-> write.status,
          deposit |-> IF write.row \in Deposits THEN write.row ELSE tx[t].deposit,
          order   |-> IF write.row \in Rows \ Deposits THEN write.row ELSE tx[t].order]

\* The transfers for which a transaction settles a row.
Settling(s, r) ==
    {t \in Wrote(s) : session[s].writes[t].row = r /\ session[s].writes[t].credited}

Commit(s) ==
    /\ session[s].open /\ session[s].todo = {}
    /\ s = "scan" => session[s].enabled \subseteq session[s].visited
    /\ tx' = [t \in Transfers |-> Written(t, session[s].writes[t])]
    /\ row' = [r \in Rows |->
                 IF Settling(s, r) = {} THEN row[r]
                 ELSE [row[r] EXCEPT !.status = "PAID", !.by = Max(Settling(s, r))]]
    /\ scanned' = IF s = "scan" THEN session[s].scanned ELSE scanned
    /\ dropped' = dropped \cup session[s].skipped
    /\ Close(s)
    /\ UNCHANGED <<chain, height, tron, enabled, overlap, torn, raced, rare>>

----------------------------------------------------------------------------

MatchingInit ==
    /\ row = [r \in Rows |-> NewRow]
    /\ chain = [t \in Transfers |-> NewTransfer]
    /\ tx = [t \in Transfers |-> NewTx]
    /\ height = 1
    /\ tron \in SUBSET Wallets /\ enabled = Wallets
    /\ scanned = [w \in Wallets |-> 0]
    /\ session = [s \in Sessions |-> Closed]
    /\ overlap = {} /\ torn = {} /\ dropped = {} /\ raced = {}
    /\ rare = 0

Ingest(s) ==
    \E t \in Transfers :
       \/ IngestMatched(s, t) \/ IngestShallow(s, t) \/ IngestUnmatched(s, t)
       \/ \E r \in Rows : IngestMatch(s, t, r)

SessionStep(s) == Ingest(s) \/ Rollback(s) \/ Commit(s)

RowStep(r) == Create(r) \/ Expire(r) \/ DayPasses(r)

TransferStep(t) ==
    \/ \E r \in Rows : Pay(t, r) \/ CreditFails(t, r)
    \/ WebhookBegins(t)

WalletStep(w) == UpdateWallet(w) \/ ScanWallet(w)

MatchingNext ==
    \/ \E s \in Sessions : SessionStep(s)
    \/ \E r \in Rows : RowStep(r)
    \/ \E t \in Transfers : TransferStep(t)
    \/ \E w \in Wallets : WalletStep(w)
    \/ ScanBegins \/ Grow

MatchingSpec == MatchingInit /\ [][MatchingNext]_vars

----------------------------------------------------------------------------
(* Properties.                                                             *)

Statuses == {"NONE", "DETECTED", "UNMATCHED", "MATCHED"}

Write == [status : Statuses, row : Rows \cup {Nobody}, credited : BOOLEAN]

MatchingTypeOK ==
    /\ row \in [Rows -> [status : {"NONE", "WAIT_PAY", "TIMEOUT", "PAID"},
                         sum : SUBSET Sums, recent : BOOLEAN, expired : BOOLEAN,
                         by : Transfers \cup {Nobody}]]
    /\ chain \in [Transfers -> [sum : SUBSET Sums, for : Rows \cup {Nobody},
                                block : Nat]]
    /\ height \in Nat \ {0}
    /\ tron \subseteq Wallets
    /\ scanned \in [Wallets -> Nat]
    /\ tx \in [Transfers -> [status : Statuses, deposit : Rows \cup {Nobody},
                             order : Rows \cup {Nobody}]]
    /\ enabled \subseteq Wallets
    /\ session \in [Sessions -> [open : BOOLEAN, reported : SUBSET Transfers,
          todo : SUBSET Transfers, deep : SUBSET Transfers, visited : SUBSET Wallets,
          scanned : [Wallets -> Nat], skipped : SUBSET Transfers,
          enabled : SUBSET Wallets, known : SUBSET Transfers,
          matched : SUBSET Transfers, writes : [Transfers -> Write]]]
    /\ overlap \cup torn \cup dropped \subseteq Transfers /\ raced \subseteq Rows
    /\ rare \in 0..MaxRare

\* Each deposit and order is settled once, and by a transfer of exactly the sum
\* it waits for, whatever is reported again, expires or fails.
Receivable == INSTANCE Receivables WITH
    state <- [r \in Rows |-> row[r].status],
    due   <- [r \in Rows |-> row[r].sum],
    sent  <- [t \in Transfers |-> chain[t].sum],
    by    <- [r \in Rows |-> {row[r].by} \ {Nobody}]

SettledOnce == Receivable!Spec

SettledBy(t) == {r \in Rows : row[r].by = t}

\* A transfer that is reported again settles nothing more, in the next scan or
\* by a webhook sent again, unless both reported it at the same time; and what
\* payment_transactions says of it is what happened, unless its credit failed.
AccountedFor ==
    \A t \in Transfers \ (overlap \cup torn) :
        /\ SettledBy(t) = {tx[t].deposit, tx[t].order} \ {Nobody}
        /\ Cardinality(SettledBy(t)) = IF tx[t].status = "MATCHED" THEN 1 ELSE 0

\* The suffix of its amount leads a transfer to the row its payer meant, if that
\* is not settled already; other rows have been in its place only when one of
\* the two had expired, or was created by an overtaken transaction.
LedToItsRow ==
    \A t \in Transfers \ overlap : \A r \in SettledBy(t) :
        LET meant == chain[t].for IN
        \/ meant = r
        \/ row[meant].by \notin {t, Nobody}
        \/ row[meant].expired \/ row[r].expired
        \/ {meant, r} \cap raced # {}
        \/ \E sum \in row[r].sum : sum[2] = Base

\* No scan will list the transfer again.
Past(t) == \E w \in Wallets : t \in Before(w, Back(scanned[w], Repeated))

\* Where a wallet asks for few enough confirmations, a transfer that the scan has
\* left behind has been matched, or left to a person, unless an exception kept a
\* scan from it after it was listed or it is older than the first scan's reach.
NothingMissed ==
    MinConfirmations <= Repeated + 2 =>
        \A t \in Transfers :
            Past(t) => tx[t].status \in {"MATCHED", "UNMATCHED"} \/ t \in dropped

\* docs/PAYMENT_INTEGRATION.md:54, of a transfer with too few confirmations: it
\* is kept as DETECTED, and a later scan will update it.
DetectedIsScannedAgain ==
    \A t \in Transfers : tx[t].status = "DETECTED" /\ Past(t) => t \in dropped
=============================================================================
