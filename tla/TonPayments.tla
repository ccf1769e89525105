----------------------------- MODULE TonPayments -----------------------------
(***************************************************************************)
(* TON payments for orders that are bought on Fragment.                     *)
(*                                                                         *)
(* A captured payment request is checked, gets a hot wallet and is given to *)
(* a signer, a service of its own, all in one database transaction, which   *)
(* the signer's answer ends.  An exception rolls everything back, whatever  *)
(* the signer did.  The API gives up when an answer takes too long, and the *)
(* request comes again when the browser job is tried again.                *)
(*                                                                         *)
(* There are two signers.  The Python service keeps the results it sent in  *)
(* memory; the Node service keeps files, of requests and of what was spent, *)
(* and serves one request after the other.  Both ask the chain for the      *)
(* wallet's seqno, sign and post the message; the chain executes one message *)
(* for each seqno of a wallet.                                              *)
(***************************************************************************)
EXTENDS Naturals, Sequences, FiniteSets, Functions

CONSTANTS Orders,       \* orders to be paid for; an order's key never changes
          HotWallets,   \* hot_wallets, numbered by priority
          Schemas,      \* the structures payloads have
          Amounts,      \* what a request asks for; each asks anew
          GlobalLimit,  \* settings.ton_global_daily_limit
          WalletLimit,  \* the lower of the two daily limits of a wallet
          MaxCalls,     \* bound on the calls of the signer for an order
          MaxRare       \* bound on faults and administrators' requests

Signers == {"mock", "python", "node"}
Calls   == 1..MaxCalls

ASSUME TonAssumption ==
    /\ HotWallets \subseteq Nat /\ HotWallets # {}
    /\ Amounts \subseteq Nat \ {0}
    /\ {GlobalLimit, WalletLimit, MaxCalls, MaxRare} \subseteq Nat
    /\ "none" \notin Orders

VARIABLES signer,   \* the signer that is deployed
          tx,       \* ton_transactions: one row for an order
          active,   \* hot wallets with the status ACTIVE
          spent,    \* daily_spent_nano of hot wallets
          schema,   \* ton_transaction_schemas
          session,  \* the API's transaction for an order
          call,     \* the calls of the signer
          cache,    \* Python: _idempotency_results
          queue,    \* Node: the calls that were received, in order
          file,     \* Node: STATE_DIR/requests, by key
          ledger,   \* Node: STATE_DIR/ledger, by key
          sent,     \* messages that TON Center accepted
          mined,    \* those the chain executed
          overlap,  \* history: orders reserved while another was under way
          adrift,   \* history: orders with a transaction rolled back after a call
          unsure,   \* history: orders the Python signer may have lost track of
          requoted, \* history: orders whose ledger entry is for another amount
          rare      \* faults and administrators' requests so far

rows    == <<tx, active, spent, schema>>
node    == <<queue, file, ledger>>
chain   == <<sent, mined>>
history == <<overlap, adrift, unsure, requoted>>
vars    == <<signer, rows, session, call, cache, node, chain, history, rare>>

NoMessage == [order |-> "none", wallet |-> 0, amount |-> 0, seqno |-> 0]
NoTx      == [status |-> "NONE", wallet |-> 0, amount |-> 0, message |-> NoMessage]
Closed    == [pc |-> "closed", flight |-> {}, today |-> {}, schema |-> "none",
              wallet |-> 0, amount |-> 0, locks |-> {}, call |-> 0,
              answer |-> NoMessage]
NoCall    == [pc |-> "none", wallet |-> 0, amount |-> 0, message |-> NoMessage]
DoneCall  == [NoCall EXCEPT !.pc = "done"]
NoEntry   == [status |-> "none", amount |-> 0]

Broadcast == {"BROADCASTED", "CONFIRMED"}
Spending(orders) == SumFunctionOnSet([o \in Orders |-> tx[o].amount], orders)
Recorded(w)   == {o \in Orders : tx[o].status \in Broadcast /\ tx[o].wallet = w}
Rare          == rare < MaxRare /\ rare' = rare + 1

\* The message the order's request becomes, and the seqno it should have: a wallet's
\* seqno is the number of its messages that were executed.
Seqno(w) == Cardinality({m \in mined : m.wallet = w})
Message(o, n, seqno) == [order |-> o, wallet |-> call[o][n].wallet,
                         amount |-> call[o][n].amount, seqno |-> seqno]

----------------------------------------------------------------------------
(* Sessions: prepare_fragment_payment and the capture that calls it.       *)

InFlight(o) ==
    {tx[p].wallet : p \in {q \in Orders \ {o} :
                             tx[q].status \in {"BROADCASTED", "MANUAL_REVIEW"}}}
Today == {o \in Orders : tx[o].status \in Broadcast}

UnderWay(o) == session[o].pc \in {"signing", "answered"}
Locked(w)   == \E o \in Orders : w \in session[o].locks
SchemaLocked(s) == \E o \in Orders : UnderWay(o) /\ session[o].schema = s

\* The transaction reads what is in flight and spent today as of its beginning, and
\* all else with locks.  It holds the order's row: there is one at a time.
Open(o) ==
    /\ session[o].pc = "closed"
    /\ session' = [session EXCEPT ![o] =
         [Closed EXCEPT !.pc = "open", !.flight = InFlight(o), !.today = Today]]
    /\ UNCHANGED <<signer, rows, call, cache, node, chain, history, rare>>

Close(o) == session' = [session EXCEPT ![o] = Closed]

\* The request is refused by validate_ton_payment, or no wallet is eligible, or
\* the order has a row of an earlier request, which is the result.
GiveUp(o) ==
    /\ session[o].pc = "open"
    /\ Close(o)
    /\ UNCHANGED <<signer, rows, call, cache, node, chain, history, rare>>

First == CHOOSE w \in HotWallets : \A v \in HotWallets : w <= v

\* ManualReviewRequired: there is no quote to compare with, or the schema is new
\* or not approved.  A row is left for review, in the name of the first wallet.
Review(o) ==
    /\ session[o].pc = "open"
    /\ \/ UNCHANGED schema
       \/ \E s \in Schemas :
             /\ ~SchemaLocked(s) /\ schema[s] = "unknown"
             /\ schema' = [schema EXCEPT ![s] = "disabled"]
    /\ tx' = IF tx[o] # NoTx THEN tx
             ELSE [tx EXCEPT ![o].status = "MANUAL_REVIEW", ![o].wallet = First]
    /\ Close(o)
    /\ UNCHANGED <<signer, active, spent, call, cache, node, chain, history, rare>>

\* Variant: wallets in flight are not left out.
EligibleInFlight(o, amount) ==
    {w \in active : ~Locked(w) /\ spent[w] + amount <= WalletLimit}

\* Wallets are read with FOR UPDATE SKIP LOCKED.
Eligible(o, amount) ==
    {w \in active : /\ ~Locked(w)
                    /\ w \notin session[o].flight
                    /\ spent[w] + amount <= WalletLimit}

\* The transaction is still in time: what it read is so, and no other is about
\* to add to it.
UpToDate(o) ==
    /\ InFlight(o) \subseteq session[o].flight
    /\ Today \subseteq session[o].today
    /\ \A p \in Orders \ {o} : ~UnderWay(p)

\* The call that comes next, if the bound leaves one.
NextCall(o) ==
    {n \in Calls : call[o][n] = NoCall /\ \A c \in 1..(n - 1) : call[o][c] # NoCall}

\* A wallet is reserved and the signer is called, for an order that has no row,
\* or one left for review, which is replaced.  A mock answers at once.
Reserve(o, s, w, amount) ==
    /\ session[o].pc = "open"
    /\ schema[s] = "enabled" /\ ~SchemaLocked(s)
    /\ Spending(session[o].today) + amount <= GlobalLimit
    /\ tx[o].status \in {"NONE", "MANUAL_REVIEW"}
    /\ w \in Eligible(o, amount)
    /\ \E n \in NextCall(o) :
        /\ session' = [session EXCEPT ![o] =
             [@ EXCEPT !.pc = IF signer = "mock" THEN "answered" ELSE "signing",
                       !.schema = s, !.wallet = w, !.amount = amount, !.call = n,
                       !.locks = {v \in active : ~Locked(v)}]]
        /\ call' = [call EXCEPT ![o][n] =
             IF signer = "mock" THEN DoneCall
             ELSE [NoCall EXCEPT !.pc = "received", !.wallet = w, !.amount = amount]]
        /\ queue' = IF signer = "node" THEN Append(queue, <<o, n>>) ELSE queue
    /\ overlap' = IF UpToDate(o) THEN overlap ELSE overlap \cup {o}
    /\ UNCHANGED <<signer, rows, cache, file, ledger, chain, adrift, unsure,
                   requoted, rare>>

\* Another transaction of the wallet has the seqno of the answer.
Conflict(o) ==
    \E p \in Orders \ {o} : /\ tx[p].message # NoMessage
                            /\ tx[p].wallet = session[o].wallet
                            /\ tx[p].message.seqno = session[o].answer.seqno

\* Variant: the transaction does not wait for the answer.
CommitEarly(o) ==
    LET message == session[o].answer  w == session[o].wallet IN
    /\ UnderWay(o)
    /\ tx' = [tx EXCEPT ![o] =
         [status |-> IF message = NoMessage THEN "SIMULATED" ELSE "BROADCASTED",
          wallet |-> w, amount |-> session[o].amount, message |-> message]]
    /\ spent' = IF message = NoMessage THEN spent
                ELSE [spent EXCEPT ![w] = @ + session[o].amount]
    /\ Close(o)
    /\ UNCHANGED <<signer, active, schema, call, cache, node, chain, history, rare>>

\* The signer's answer is recorded; a simulated payment spends nothing.
Commit(o) ==
    LET message == session[o].answer  w == session[o].wallet IN
    /\ session[o].pc = "answered"
    /\ message = NoMessage \/ ~Conflict(o)
    /\ tx' = [tx EXCEPT ![o] =
         [status |-> IF message = NoMessage THEN "SIMULATED" ELSE "BROADCASTED",
          wallet |-> w, amount |-> session[o].amount, message |-> message]]
    /\ spent' = IF message = NoMessage THEN spent
                ELSE [spent EXCEPT ![w] = @ + session[o].amount]
    /\ Close(o)
    /\ UNCHANGED <<signer, active, schema, call, cache, node, chain, history, rare>>

InService(o, n) == call[o][n].pc \notin {"none", "done"}
Pending(o) == \E n \in Calls : InService(o, n)

\* The transaction is rolled back after the call: the answer cannot be recorded,
\* or takes too long, or the process dies.
Rollback(o) ==
    /\ UnderWay(o)
    /\ \/ /\ session[o].pc = "answered" /\ Conflict(o)
          /\ session[o].answer # NoMessage
          /\ UNCHANGED <<unsure, rare>>
       \/ /\ Rare
          /\ unsure' = IF Pending(o) THEN unsure \cup {o} ELSE unsure
    /\ Close(o)
    /\ adrift' = adrift \cup {o}
    /\ UNCHANGED <<signer, rows, call, cache, node, chain, overlap, requoted>>

----------------------------------------------------------------------------
(* Answers of the signers.                                                 *)

Listening(o, n) == session[o].pc = "signing" /\ session[o].call = n

Finished(o, n) == call' = [call EXCEPT ![o][n] = DoneCall]

Answers(o, n, message) ==
    /\ Finished(o, n)
    /\ session' = IF Listening(o, n)
                    THEN [session EXCEPT ![o].pc = "answered", ![o].answer = message]
                    ELSE session
    /\ UNCHANGED adrift

\* An error makes the transaction roll back.
Refuses(o, n) ==
    /\ Finished(o, n)
    /\ session' = IF Listening(o, n) THEN [session EXCEPT ![o] = Closed] ELSE session
    /\ adrift' = IF Listening(o, n) THEN adrift \cup {o} ELSE adrift

Proceeds(o, n, pc) ==
    /\ call' = [call EXCEPT ![o][n].pc = pc]
    /\ UNCHANGED <<session, adrift>>

----------------------------------------------------------------------------
(* The Python signer.                                                      *)

pythonOnly == <<signer, rows, node, overlap, requoted>>

\* Variant: the results are not looked up.
PythonReceivesAll(o, n) ==
    /\ signer = "python" /\ call[o][n].pc = "received"
    /\ Proceeds(o, n, "checked")
    /\ UNCHANGED <<pythonOnly, cache, chain, unsure, rare>>

\* sign_and_broadcast: a key whose result is kept is answered with it; the
\* policy may refuse.
PythonReceives(o, n) ==
    /\ signer = "python" /\ call[o][n].pc = "received"
    /\ IF cache[o] # NoMessage THEN Answers(o, n, cache[o])
       ELSE Proceeds(o, n, "checked") \/ Refuses(o, n)
    /\ UNCHANGED <<pythonOnly, cache, chain, unsure, rare>>

\* sign_and_broadcast_real: TON Center accepts the message, or does not.
PythonPosts(o, n) ==
    LET message == Message(o, n, Seqno(call[o][n].wallet)) IN
    /\ signer = "python" /\ call[o][n].pc = "checked"
    /\ \/ /\ sent' = sent \cup {message}
          /\ call' = [call EXCEPT ![o][n].pc = "accepted", ![o][n].message = message]
          /\ UNCHANGED <<session, adrift, rare>>
       \/ Refuses(o, n) /\ Rare /\ UNCHANGED sent
    /\ UNCHANGED <<pythonOnly, cache, mined, unsure>>

\* Its answer arrives, and the result is kept, or is lost.
PythonAnswers(o, n) ==
    /\ signer = "python" /\ call[o][n].pc = "accepted"
    /\ \/ /\ Answers(o, n, call[o][n].message)
          /\ cache' = [cache EXCEPT ![o] = call[o][n].message]
          /\ UNCHANGED <<unsure, rare>>
       \/ /\ Refuses(o, n) /\ Rare
          /\ unsure' = unsure \cup {o}
          /\ UNCHANGED cache
    /\ UNCHANGED <<pythonOnly, chain>>

\* Every call in service fails when the process dies.
AllFail ==
    LET cut == {o \in Orders : session[o].pc = "signing"} IN
    /\ call' = [o \in Orders |-> [n \in Calls |->
                  IF InService(o, n) THEN DoneCall ELSE call[o][n]]]
    /\ session' = [o \in Orders |-> IF o \in cut THEN Closed ELSE session[o]]
    /\ adrift' = adrift \cup cut

\* A restart forgets the results.
PythonRestarts ==
    /\ signer = "python" /\ Rare
    /\ AllFail
    /\ cache' = [o \in Orders |-> NoMessage]
    /\ unsure' = unsure \cup {m.order : m \in sent}
    /\ UNCHANGED <<signer, rows, node, chain, overlap, requoted>>

----------------------------------------------------------------------------
(* The Node signer.                                                        *)

nodeOnly == <<signer, rows, cache, mined, overlap, unsure>>

Served(o, n) == signer = "node" /\ queue # <<>> /\ Head(queue) = <<o, n>>
At(o, n, pc) == Served(o, n) /\ call[o][n].pc = pc

\* The end of a call: the next one's turn.
Ends == queue' = Tail(queue)

Done(o)   == file[o].status = "completed"
Refused(o) == file[o].status \in {"pending", "unknown"}

\* processSignRequest: a completed request is answered with its result, one that
\* is pending or unknown is refused; so are requests against the policy, and
\* those that wait in vain for the lock of a wallet, which only a crash leaves
\* behind: the process serves one request after the other.
NodeReceives(o, n) ==
    /\ At(o, n, "received")
    /\ \/ Done(o) /\ Answers(o, n, file[o].message) /\ Ends
       \/ Refuses(o, n) /\ Ends
       \/ ~Done(o) /\ ~Refused(o) /\ Proceeds(o, n, "locked") /\ UNCHANGED queue
    /\ UNCHANGED <<nodeOnly, file, ledger, sent, requoted, rare>>

\* Variant: a payment with an unknown outcome is not counted.
CountedKnown == {o \in Orders : ledger[o].status \in {"pending", "sent"}}

Counted == {o \in Orders : ledger[o].status \in {"pending", "sent", "unknown"}}

LedgerSum == SumFunctionOnSet([o \in Orders |-> ledger[o].amount], Counted)

\* reserveDailyLimit; the key's entry, if it has one, is not checked again.
NodeReserves(o, n) ==
    LET amount == call[o][n].amount IN
    /\ At(o, n, "locked")
    /\ \/ /\ ledger[o] = NoEntry /\ LedgerSum + amount <= GlobalLimit
          /\ ledger' = [ledger EXCEPT ![o] = [status |-> "pending", amount |-> amount]]
          /\ Proceeds(o, n, "reserved")
          /\ UNCHANGED <<queue, requoted>>
       \/ /\ ledger[o] # NoEntry
          /\ requoted' = IF ledger[o].amount = amount THEN requoted ELSE requoted \cup {o}
          /\ Proceeds(o, n, "reserved")
          /\ UNCHANGED <<queue, ledger>>
       \/ /\ ledger[o] = NoEntry
          /\ Refuses(o, n) /\ Ends
          /\ UNCHANGED <<ledger, requoted>>
    /\ UNCHANGED <<nodeOnly, file, sent, rare>>

NodeWritesPending(o, n) ==
    /\ At(o, n, "reserved")
    /\ file' = [file EXCEPT ![o].status = "pending"]
    /\ Proceeds(o, n, "pending")
    /\ UNCHANGED <<nodeOnly, queue, ledger, sent, requoted, rare>>

\* realSignAndBroadcast: whatever fails after the broadcast was started, the
\* outcome is unknown.
NodeFails(o, n) ==
    /\ Rare
    /\ ledger' = [ledger EXCEPT ![o].status = "unknown"]
    /\ file' = [file EXCEPT ![o].status = "unknown"]
    /\ Refuses(o, n) /\ Ends

\* getWalletState takes the seqno for 0 when the wallet's state cannot be read.
NodePosts(o, n) ==
    /\ At(o, n, "pending")
    /\ \/ \E seqno \in {Seqno(call[o][n].wallet), 0} :
             /\ sent' = sent \cup {Message(o, n, seqno)}
             /\ call' = [call EXCEPT ![o][n].pc = "accepted",
                                    ![o][n].message = Message(o, n, seqno)]
             /\ UNCHANGED <<session, adrift, queue, ledger, file, rare>>
       \/ NodeFails(o, n) /\ UNCHANGED sent
    /\ UNCHANGED <<nodeOnly, requoted>>

\* TON Center's answer arrives and the ledger is updated, or it is lost.
NodeUpdatesLedger(o, n) ==
    /\ At(o, n, "accepted")
    /\ \/ /\ ledger' = [ledger EXCEPT ![o].status = "sent"]
          /\ Proceeds(o, n, "ledgered")
          /\ UNCHANGED <<queue, file, rare>>
       \/ NodeFails(o, n)
    /\ UNCHANGED <<nodeOnly, sent, requoted>>

\* The result is written, and the answer given.
NodeAnswers(o, n) ==
    LET message == call[o][n].message IN
    /\ At(o, n, "ledgered")
    /\ file' = [file EXCEPT ![o] = [status |-> "completed", message |-> message]]
    /\ Answers(o, n, message) /\ Ends
    /\ UNCHANGED <<nodeOnly, ledger, sent, requoted, rare>>

\* The files stay as they are.
NodeRestarts ==
    /\ signer = "node" /\ Rare
    /\ AllFail
    /\ queue' = <<>>
    /\ UNCHANGED <<nodeOnly, file, ledger, sent, requoted>>

----------------------------------------------------------------------------
(* The chain, and what is done about it.                                   *)

\* A message whose seqno has passed is never executed.
Mine(m) ==
    /\ m \in sent \ mined /\ m.seqno = Seqno(m.wallet)
    /\ mined' = mined \cup {m}
    /\ UNCHANGED <<signer, rows, session, call, cache, node, sent, history, rare>>

\* reconcile_ton_transactions finds the message.
Reconcile(o) ==
    /\ tx[o].status = "BROADCASTED" /\ tx[o].message \in mined
    /\ tx' = [tx EXCEPT ![o].status = "CONFIRMED"]
    /\ UNCHANGED <<signer, active, spent, schema, session, call, cache, node, chain,
                   history, rare>>

\* update_hot_wallet waits for the wallet's row.
UpdateHotWallet(w) ==
    /\ Rare /\ ~Locked(w)
    /\ active' = IF w \in active THEN active \ {w} ELSE active \cup {w}
    /\ UNCHANGED <<signer, tx, spent, schema, session, call, cache, node, chain, history>>

\* Variant: an approval in a word that nothing knows.
UpdateSchemaApproves(s) ==
    /\ Rare /\ ~SchemaLocked(s) /\ schema[s] # "unknown"
    /\ schema' = [schema EXCEPT ![s] = IF @ = "enabled" THEN "disabled" ELSE "approved"]
    /\ UNCHANGED <<signer, tx, active, spent, session, call, cache, node, chain, history>>

\* update_ton_schema waits for the schema's row.
UpdateSchema(s) ==
    /\ Rare /\ ~SchemaLocked(s) /\ schema[s] # "unknown"
    /\ schema' = [schema EXCEPT ![s] = IF @ = "enabled" THEN "disabled" ELSE "enabled"]
    /\ UNCHANGED <<signer, tx, active, spent, session, call, cache, node, chain, history>>

----------------------------------------------------------------------------

TonInit ==
    /\ signer \in Signers
    /\ tx = [o \in Orders |-> NoTx]
    /\ active = HotWallets
    /\ spent = [w \in HotWallets |-> 0]
    /\ schema \in [Schemas -> {"unknown", "enabled"}]
    /\ session = [o \in Orders |-> Closed]
    /\ call = [o \in Orders |-> [n \in Calls |-> NoCall]]
    /\ cache = [o \in Orders |-> NoMessage]
    /\ queue = <<>>
    /\ file = [o \in Orders |-> [status |-> "none", message |-> NoMessage]]
    /\ ledger = [o \in Orders |-> NoEntry]
    /\ sent = {} /\ mined = {}
    /\ overlap = {} /\ adrift = {} /\ unsure = {} /\ requoted = {}
    /\ rare = 0

SessionStep(o) ==
    \/ Open(o) \/ GiveUp(o) \/ Review(o) \/ Commit(o) \/ Rollback(o)
    \/ \E s \in Schemas, w \in HotWallets, amount \in Amounts : Reserve(o, s, w, amount)

PythonStep(o, n) == PythonReceives(o, n) \/ PythonPosts(o, n) \/ PythonAnswers(o, n)

NodeStep(o, n) ==
    \/ NodeReceives(o, n) \/ NodeReserves(o, n) \/ NodeWritesPending(o, n)
    \/ NodePosts(o, n) \/ NodeUpdatesLedger(o, n) \/ NodeAnswers(o, n)

TonNext ==
    \/ \E o \in Orders : SessionStep(o) \/ Reconcile(o)
    \/ \E o \in Orders, n \in Calls : PythonStep(o, n) \/ NodeStep(o, n)
    \/ PythonRestarts \/ NodeRestarts
    \/ \E m \in sent : Mine(m)
    \/ \E w \in HotWallets : UpdateHotWallet(w)
    \/ \E s \in Schemas : UpdateSchema(s)

TonSpec == TonInit /\ [][TonNext]_vars

----------------------------------------------------------------------------
(* Properties.                                                             *)

Messages == [order : Orders \cup {"none"}, wallet : HotWallets \cup {0},
             amount : Nat, seqno : Nat]

Status == {"NONE", "MANUAL_REVIEW", "SIMULATED"} \cup Broadcast

Stage == {"none", "received", "checked", "accepted", "locked", "reserved",
          "pending", "ledgered", "done"}

TonTypeOK ==
    /\ signer \in Signers
    /\ tx \in [Orders -> [status : Status, wallet : HotWallets \cup {0},
                          amount : Nat, message : Messages]]
    /\ active \subseteq HotWallets
    /\ spent \in [HotWallets -> Nat]
    /\ schema \in [Schemas -> {"unknown", "disabled", "enabled"}]
    /\ session \in [Orders -> [pc : {"closed", "open", "signing", "answered"},
          flight : SUBSET (HotWallets \cup {0}), today : SUBSET Orders, schema : Schemas \cup {"none"},
          wallet : HotWallets \cup {0}, amount : Nat, locks : SUBSET HotWallets,
          call : Calls \cup {0}, answer : Messages]]
    /\ call \in [Orders -> [Calls -> [pc : Stage, wallet : HotWallets \cup {0},
                                      amount : Nat, message : Messages]]]
    /\ cache \in [Orders -> Messages]
    /\ queue \in Seq(Orders \X Calls)
    /\ file \in [Orders -> [status : {"none", "pending", "unknown", "completed"},
                            message : Messages]]
    /\ ledger \in [Orders -> [status : {"none", "pending", "sent", "unknown"}, amount : Nat]]
    /\ sent \subseteq Messages /\ mined \subseteq sent
    /\ overlap \cup adrift \cup unsure \cup requoted \subseteq Orders
    /\ rare \in 0..MaxRare

\* An order is paid at most once: with the Node signer whatever fails, with the
\* Python signer unless it was restarted, lost an answer of TON Center, or the
\* API did not wait for it.
PaidOnce ==
    \A o \in Orders :
        \/ Cardinality({m \in mined : m.order = o}) <= 1
        \/ signer = "python" /\ o \in unsure

\* What the Node signer sends in a day, or may have sent, is within the limit,
\* unless a request came again for another amount after a crash.
NodeWithinLimit ==
    signer = "node" /\ requoted = {} =>
        SumFunctionOnSet([m \in sent |-> m.amount], sent) <= GlobalLimit

\* What is recorded as broadcast was sent for the order, from the wallet and for
\* the amount that are recorded, and what was sent is recorded or about to be,
\* unless the transaction of an earlier call was rolled back.
BooksAreTrue ==
    /\ \A o \in Orders : tx[o].status \in Broadcast =>
          LET m == tx[o].message IN
          /\ m \in sent /\ m.order = o
          /\ \/ <<m.wallet, m.amount>> = <<tx[o].wallet, tx[o].amount>>
             \/ o \in adrift
    /\ \A m \in sent : \/ tx[m.order].message = m
                       \/ UnderWay(m.order) \/ m.order \in adrift

\* The limits of a wallet hold in the books, and so does the global one, and a
\* wallet has one broadcast at a time to be confirmed, unless two transactions
\* were under way together.
LimitsHold ==
    /\ \A w \in HotWallets : /\ spent[w] = Spending(Recorded(w))
                             /\ spent[w] <= WalletLimit
    /\ Spending(Today) <= GlobalLimit \/ overlap # {}
    /\ \A o, p \in Orders :
          o # p /\ {tx[o].status, tx[p].status} = {"BROADCASTED"} /\ tx[o].wallet = tx[p].wallet
             => {o, p} \cap overlap # {}
=============================================================================
