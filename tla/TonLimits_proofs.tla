--------------------------- MODULE TonLimits_proofs ---------------------------
(***************************************************************************)
(* Proofs about the limits of TonPayments: what the Node signer sends is    *)
(* within its limit, and what the API records is within the wallets' limits *)
(* and the global one.  The invariants of TonPayments_proofs are used: a     *)
(* message of an order is the only one, and an order with a transaction      *)
(* under way has no broadcast before it.  No assumption says that the orders *)
(* are finitely many: those that were paid are, in every state.             *)
(***************************************************************************)
EXTENDS TonPayments_proofs, SumLemmas_proofs

Amount == [p \in Orders |-> tx[p].amount]

LEMMA AmountType ==
    ASSUME TypeInv
    PROVE  \A p \in Orders : Amount[p] = tx[p].amount /\ Amount[p] \in Nat
BY TypeParts DEF TypeInv, TxType, Amount

\* What a transaction holds on to: the wallet it locked covers what it will
\* spend, and has no broadcast of another order unless the two overlapped.
Holds(o) ==
    LET w == session[o].wallet IN
    /\ w \in session[o].locks
    /\ spent[w] + session[o].amount <= WalletLimit
    /\ o \in overlap \/ \A p \in Orders \ {o} :
                           ~(tx[p].status = "BROADCASTED" /\ tx[p].wallet = w)

WalletsInv ==
    /\ \A w \in HotWallets : spent[w] = Spending(Recorded(w)) /\ spent[w] <= WalletLimit
    /\ \A o \in Orders : UnderWay(o) => Holds(o)
    /\ \A o, p \in Orders : o # p => session[o].locks \cap session[p].locks = {}

\* One transaction at a time, and what it read is so: the global limit.
WithinGlobal ==
    overlap = {} =>
       /\ Spending(Today) <= GlobalLimit
       /\ \A o \in Orders : UnderWay(o) =>
             /\ Spending(Today) + session[o].amount <= GlobalLimit
             /\ \A p \in Orders \ {o} : ~UnderWay(p)

OnePerWallet ==
    \A o, p \in Orders :
        o # p /\ {tx[o].status, tx[p].status} = {"BROADCASTED"} /\ tx[o].wallet = tx[p].wallet
           => {o, p} \cap overlap # {}

LimitInv ==
    /\ BooksInv
    /\ IsFiniteSet(Today)
    /\ \A o \in Orders : session[o].today \subseteq Today
    /\ WalletsInv
    /\ WithinGlobal
    /\ OnePerWallet

----------------------------------------------------------------------------
(* Steps that record no broadcast.                                         *)

\* The rows of what was broadcast are as they were.
SameBooks ==
    \A p \in Orders : /\ tx'[p].status \in Broadcast <=> tx[p].status \in Broadcast
                      /\ tx'[p].status = "BROADCASTED" => tx[p].status = "BROADCASTED"
                      /\ tx[p].status \in Broadcast =>
                            tx'[p].amount = tx[p].amount /\ tx'[p].wallet = tx[p].wallet

LEMMA SameSums ==
    ASSUME TypeInv, TypeInv', IsFiniteSet(Today), SameBooks
    PROVE  /\ Today' = Today /\ Spending(Today)' = Spending(Today)
           /\ \A w \in HotWallets : /\ Recorded(w)' = Recorded(w)
                                    /\ Spending(Recorded(w))' = Spending(Recorded(w))
<1>1. Today' = Today
  BY DEF Today, SameBooks
<1>2. ASSUME NEW w \in HotWallets PROVE Recorded(w)' = Recorded(w) /\ Recorded(w) \subseteq Today
  BY DEF Recorded, SameBooks, Today
<1>3. ASSUME NEW S, S \subseteq Today
      PROVE  SumFunctionOnSet(Amount', S) = SumFunctionOnSet(Amount, S)
  <2>1. IsFiniteSet(S) /\ \A p \in S : p \in Orders /\ tx[p].status \in Broadcast
    BY <1>3, FS_Subset DEF Today
  <2>2. \A p \in S : Amount[p] \in Int /\ Amount'[p] = Amount[p]
    BY <2>1, AmountType DEF SameBooks, Amount
  <2> QED
    BY <2>1, <2>2, SumAgrees
<1>4. Spending(Today)' = SumFunctionOnSet(Amount', Today)
  BY <1>1 DEF Spending, Amount
<1>5. ASSUME NEW w \in HotWallets
      PROVE  Spending(Recorded(w))' = SumFunctionOnSet(Amount', Recorded(w))
  BY <1>2 DEF Spending, Amount
<1> QED
  BY <1>1, <1>2, <1>3, <1>4, <1>5 DEF Spending, Amount

\* A transaction that stays under way keeps what it holds.
SameHolds(p) ==
    \/ /\ ~UnderWay(p)'
       /\ session'[p].locks \subseteq session[p].locks
       /\ session'[p].today \subseteq Today
    \/ /\ UnderWay(p)
       /\ session'[p].locks = session[p].locks /\ session'[p].today = session[p].today
       /\ session'[p].wallet = session[p].wallet /\ session'[p].amount = session[p].amount

LEMMA QuietLimits ==
    ASSUME LimitInv, BooksInv', SameBooks, UNCHANGED <<spent, overlap>>,
           \A p \in Orders : SameHolds(p)
    PROVE  LimitInv'
<1>1. /\ Today' = Today /\ Spending(Today)' = Spending(Today)
      /\ \A w \in HotWallets : /\ Recorded(w)' = Recorded(w)
                               /\ Spending(Recorded(w))' = Spending(Recorded(w))
  BY SameSums DEF LimitInv, BooksInv
<1>2. \A p \in Orders : session'[p].today \subseteq Today'
  BY <1>1 DEF LimitInv, SameHolds
<1>3. WalletsInv'
  <2>1. \A w \in HotWallets : (spent[w] = Spending(Recorded(w)))' /\ (spent[w] <= WalletLimit)'
    BY <1>1 DEF LimitInv, WalletsInv
  <2>2. ASSUME NEW p \in Orders, UnderWay(p)' PROVE Holds(p)'
    <3>1. /\ UnderWay(p) /\ Holds(p) /\ session'[p].locks = session[p].locks
          /\ session'[p].wallet = session[p].wallet /\ session'[p].amount = session[p].amount
      BY <2>2 DEF LimitInv, WalletsInv, SameHolds
    <3>2. ASSUME NEW q \in Orders, tx'[q].status = "BROADCASTED"
          PROVE  tx[q].status = "BROADCASTED" /\ tx'[q].wallet = tx[q].wallet
      BY <3>2 DEF SameBooks, Broadcast
    <3> QED
      BY <3>1, <3>2 DEF Holds
  <2>3. \A o, p \in Orders : o # p => session'[o].locks \cap session'[p].locks = {}
    <3>1. \A p \in Orders : session'[p].locks \subseteq session[p].locks
      BY DEF SameHolds
    <3> QED
      BY <3>1 DEF LimitInv, WalletsInv
  <2> QED
    BY <2>1, <2>2, <2>3 DEF WalletsInv
<1>4. WithinGlobal'
  <2>1. \A p \in Orders : UnderWay(p)' => UnderWay(p) /\ session'[p].amount = session[p].amount
    BY DEF SameHolds
  <2> QED
    BY <1>1, <2>1 DEF LimitInv, WithinGlobal
<1>5. OnePerWallet'
  <2>1. ASSUME NEW o \in Orders, NEW p \in Orders, o # p,
               {tx'[o].status, tx'[p].status} = {"BROADCASTED"}, tx'[o].wallet = tx'[p].wallet
        PROVE  {o, p} \cap overlap # {}
    <3>1. tx[o].status = "BROADCASTED" /\ tx[p].status = "BROADCASTED"
      BY <2>1 DEF SameBooks
    <3>2. tx[o].wallet = tx[p].wallet
      BY <2>1, <3>1 DEF SameBooks, Broadcast
    <3> QED
      BY <2>1, <3>1, <3>2 DEF LimitInv, OnePerWallet
  <2> QED
    BY <2>1 DEF OnePerWallet
<1> QED
  BY <1>1, <1>2, <1>3, <1>4, <1>5 DEF LimitInv

\* A session as it was, or closed, or answered.
LEMMA HoldsKept ==
    ASSUME LimitInv, NEW p \in Orders
    PROVE  /\ session'[p] = session[p] => SameHolds(p)
           /\ session'[p] = Closed => SameHolds(p)
           /\ \A message : /\ session[p].pc = "signing"
                           /\ session'[p] = [session[p] EXCEPT !.pc = "answered", !.answer = message]
                           => SameHolds(p)
<1>1. session[p] \in SessionType
  BY TypeParts DEF LimitInv, BooksInv, TypeInv
<1>2. ASSUME session'[p] = session[p] PROVE SameHolds(p)
  BY <1>2 DEF SameHolds, UnderWay, LimitInv
<1>3. ASSUME session'[p] = Closed PROVE SameHolds(p)
  BY <1>3 DEF SameHolds, UnderWay, Closed
<1>4. ASSUME NEW message, session[p].pc = "signing",
             session'[p] = [session[p] EXCEPT !.pc = "answered", !.answer = message]
      PROVE  SameHolds(p)
  BY <1>1, <1>4 DEF SameHolds, UnderWay, SessionType
<1> QED
  BY <1>2, <1>3, <1>4

\* No book is touched, and transactions are closed, opened or answered.
LEMMA SessionLimits ==
    ASSUME LimitInv, BooksInv', SameBooks, UNCHANGED <<spent, overlap>>,
           \A p \in Orders :
              \/ session'[p] = session[p] \/ session'[p] = Closed
              \/ \E message : /\ session[p].pc = "signing"
                              /\ session'[p] = [session[p] EXCEPT !.pc = "answered",
                                                                  !.answer = message]
    PROVE  LimitInv'
<1>1. \A p \in Orders : SameHolds(p)
  BY HoldsKept
<1> QED
  BY <1>1, QuietLimits

LEMMA UnchangedBooks == UNCHANGED tx => SameBooks
BY DEF SameBooks

\* The steps of a signer, which answers or refuses.
LEMMA SignerLimits ==
    ASSUME LimitInv, BooksInv', NEW o \in Orders, NEW n \in Calls, UNCHANGED <<tx, spent, overlap>>,
           \/ UNCHANGED session \/ Refuses(o, n) \/ \E message : Answers(o, n, message)
    PROVE  LimitInv'
<1>1. session \in [Orders -> SessionType]
  BY TypeParts DEF LimitInv, BooksInv, TypeInv
<1>2. CASE UNCHANGED session
  BY <1>2, SessionLimits, UnchangedBooks
<1>3. CASE Refuses(o, n)
  <2>1. \A p \in Orders : session'[p] = session[p] \/ session'[p] = Closed
    BY <1>1, <1>3 DEF Refuses
  <2> QED
    BY <2>1, SessionLimits, UnchangedBooks
<1>4. ASSUME NEW message, Answers(o, n, message) PROVE LimitInv'
  <2>1. CASE Listening(o, n)
    <3>1. session' = [session EXCEPT ![o] =
              [session[o] EXCEPT !.pc = "answered", !.answer = message]]
      BY <1>1, <1>4, <2>1 DEF Answers
    <3>2. /\ session[o].pc = "signing"
          /\ session'[o] = [session[o] EXCEPT !.pc = "answered", !.answer = message]
          /\ \A p \in Orders \ {o} : session'[p] = session[p]
      BY <1>1, <2>1, <3>1 DEF Listening
    <3> QED
      BY <3>2, SessionLimits, UnchangedBooks
  <2>2. CASE ~Listening(o, n)
    BY <1>2, <1>4, <2>2 DEF Answers
  <2> QED
    BY <2>1, <2>2
<1> QED
  BY <1>2, <1>3, <1>4

LEMMA StepsLimits ==
    ASSUME LimitInv, BooksInv',
           \/ \E o \in Orders, n \in Calls : PythonStep(o, n) \/ NodeStep(o, n)
           \/ PythonRestarts \/ NodeRestarts
           \/ \E m \in sent : Mine(m)
           \/ \E w \in HotWallets : UpdateHotWallet(w)
           \/ \E s \in Schemas : UpdateSchema(s)
           \/ UNCHANGED vars
    PROVE  LimitInv'
<1>1. ASSUME NEW o \in Orders, NEW n \in Calls, PythonStep(o, n) PROVE LimitInv'
  <2>1. UNCHANGED <<tx, spent, overlap>>
    BY <1>1 DEF PythonStep, PythonReceives, PythonPosts, PythonAnswers, pythonOnly, rows
  <2>2. UNCHANGED session \/ Refuses(o, n) \/ \E message : Answers(o, n, message)
    BY <1>1 DEF PythonStep, PythonReceives, PythonPosts, PythonAnswers, Proceeds
  <2> QED
    BY <2>1, <2>2, SignerLimits
<1>2. ASSUME NEW o \in Orders, NEW n \in Calls, NodeStep(o, n) PROVE LimitInv'
  <2>1. UNCHANGED <<tx, spent, overlap>>
    BY <1>2 DEF NodeStep, NodeReceives, NodeReserves, NodeWritesPending, NodePosts,
                NodeUpdatesLedger, NodeAnswers, nodeOnly, rows
  <2>2. UNCHANGED session \/ Refuses(o, n) \/ \E message : Answers(o, n, message)
    BY <1>2 DEF NodeStep, NodeReceives, NodeReserves, NodeWritesPending, NodePosts,
                NodeUpdatesLedger, NodeAnswers, NodeFails, Proceeds
  <2> QED
    BY <2>1, <2>2, SignerLimits
<1>3. ASSUME PythonRestarts \/ NodeRestarts PROVE LimitInv'
  <2>1. AllFail /\ UNCHANGED <<tx, spent, overlap>>
    BY <1>3 DEF PythonRestarts, NodeRestarts, nodeOnly, rows
  <2>2. \A p \in Orders : session'[p] = session[p] \/ session'[p] = Closed
    BY <2>1 DEF AllFail
  <2> QED
    BY <2>1, <2>2, SessionLimits, UnchangedBooks
<1>4. ASSUME \/ \E m \in sent : Mine(m)
             \/ \E w \in HotWallets : UpdateHotWallet(w)
             \/ \E s \in Schemas : UpdateSchema(s)
             \/ UNCHANGED vars
      PROVE  LimitInv'
  <2>1. UNCHANGED <<tx, spent, session, overlap>>
    BY <1>4 DEF Mine, UpdateHotWallet, UpdateSchema, vars, rows, history
  <2> QED
    BY <2>1, SessionLimits, UnchangedBooks
<1> QED
  BY <1>1, <1>2, <1>3, <1>4

\* Transactions that are opened, given up or rolled back, rows that are left for
\* review or confirmed.
LEMMA RowsLimits ==
    ASSUME LimitInv, BooksInv', NEW o \in Orders,
           Open(o) \/ GiveUp(o) \/ Review(o) \/ Rollback(o) \/ Reconcile(o)
    PROVE  LimitInv'
<1>1. session \in [Orders -> SessionType] /\ tx \in [Orders -> TxType]
  BY TypeParts DEF LimitInv, BooksInv, TypeInv
<1>2. UNCHANGED <<spent, overlap>>
  BY DEF Open, GiveUp, Review, Rollback, Reconcile, rows, history
<1>3. SameBooks
  <2>1. CASE UNCHANGED tx
    BY <2>1, UnchangedBooks
  <2>2. CASE Review(o)
    <3>1. CASE tx[o] # NoTx
      BY <2>1, <2>2, <3>1 DEF Review
    <3>2. CASE tx[o] = NoTx
      <4>1. tx[o].status = "NONE" /\ tx'[o].status = "MANUAL_REVIEW"
        BY <1>1, <2>2, <3>2 DEF Review, NoTx, TxType
      <4>2. \A p \in Orders \ {o} : tx'[p] = tx[p]
        BY <1>1, <2>2 DEF Review
      <4> QED
        BY <4>1, <4>2 DEF SameBooks, Broadcast
    <3> QED
      BY <3>1, <3>2
  <2>3. CASE Reconcile(o)
    <3>1. /\ tx[o].status = "BROADCASTED" /\ tx'[o].status = "CONFIRMED"
          /\ tx'[o].amount = tx[o].amount /\ tx'[o].wallet = tx[o].wallet
      <4>1. tx' = [tx EXCEPT ![o] = [tx[o] EXCEPT !.status = "CONFIRMED"]]
        BY <1>1, <2>3 DEF Reconcile
      <4> QED
        BY <1>1, <2>3, <4>1 DEF Reconcile, TxType
    <3>2. \A p \in Orders \ {o} : tx'[p] = tx[p]
      BY <1>1, <2>3 DEF Reconcile
    <3> QED
      BY <3>1, <3>2 DEF SameBooks, Broadcast
  <2> QED
    BY <2>1, <2>2, <2>3 DEF Open, GiveUp, Rollback, rows
<1>4. CASE Open(o)
  <2> DEFINE new == [Closed EXCEPT !.pc = "open", !.flight = InFlight(o), !.today = Today]
  <2>1. new.pc = "open" /\ new.today = Today /\ new.locks = {}
    BY DEF Closed
  <2> HIDE DEF new
  <2>2. session'[o] = new /\ \A p \in Orders \ {o} : session'[p] = session[p]
    BY <1>1, <1>4 DEF Open, new
  <2>3. SameHolds(o)
    BY <2>1, <2>2 DEF SameHolds, UnderWay
  <2>4. \A p \in Orders : SameHolds(p)
    BY <2>2, <2>3, HoldsKept
  <2> QED
    BY <1>2, <1>3, <2>4, QuietLimits
<1>5. CASE GiveUp(o) \/ Review(o) \/ Rollback(o) \/ Reconcile(o)
  <2>1. \A p \in Orders : session'[p] = session[p] \/ session'[p] = Closed
    BY <1>1, <1>5 DEF GiveUp, Review, Rollback, Reconcile, Close
  <2> QED
    BY <1>2, <1>3, <2>1, SessionLimits
<1> QED
  BY <1>4, <1>5

----------------------------------------------------------------------------
(* A wallet is reserved.                                                   *)

LEMMA ReserveMoves ==
    ASSUME TypeInv, NEW o \in Orders, NEW s \in Schemas, NEW w \in HotWallets,
           NEW amount \in Amounts, Reserve(o, s, w, amount)
    PROVE  /\ UnderWay(o)' /\ session'[o].wallet = w /\ session'[o].amount = amount
           /\ session'[o].today = session[o].today
           /\ session'[o].locks = {v \in active : ~Locked(v)}
           /\ \A p \in Orders \ {o} : session'[p] = session[p]
           /\ UNCHANGED <<tx, spent, active>>
<1>1. session \in [Orders -> SessionType] /\ session[o] \in SessionType
  BY TypeParts DEF TypeInv
<1> DEFINE pc == IF signer = "mock" THEN "answered" ELSE "signing"
<1>2. PICK n : session' = [session EXCEPT ![o] =
                 [session[o] EXCEPT !.pc = pc, !.schema = s, !.wallet = w, !.amount = amount,
                           !.call = n, !.locks = {v \in active : ~Locked(v)}]]
  BY <1>1 DEF Reserve
<1> DEFINE new == [session[o] EXCEPT !.pc = pc, !.schema = s, !.wallet = w,
                       !.amount = amount, !.call = n, !.locks = {v \in active : ~Locked(v)}]
<1>3. /\ new.pc = pc /\ new.wallet = w /\ new.amount = amount /\ new.today = session[o].today
      /\ new.locks = {v \in active : ~Locked(v)}
  BY <1>1 DEF SessionType
<1> HIDE DEF new
<1>4. session'[o] = new /\ \A p \in Orders \ {o} : session'[p] = session[p]
  BY <1>1, <1>2 DEF new
<1> QED
  BY <1>2, <1>3, <1>4 DEF Reserve, UnderWay, rows

LEMMA ReserveLimits ==
    ASSUME LimitInv, BooksInv', NEW o \in Orders, NEW s \in Schemas, NEW w \in HotWallets,
           NEW amount \in Amounts, Reserve(o, s, w, amount)
    PROVE  LimitInv'
<1>0. /\ UnderWay(o)' /\ session'[o].wallet = w /\ session'[o].amount = amount
      /\ session'[o].today = session[o].today
      /\ session'[o].locks = {v \in active : ~Locked(v)}
      /\ \A p \in Orders \ {o} : session'[p] = session[p]
      /\ UNCHANGED <<tx, spent, active>>
  BY ReserveMoves DEF LimitInv, BooksInv
<1>1. /\ Today' = Today /\ Spending(Today)' = Spending(Today)
      /\ \A v \in HotWallets : (Spending(Recorded(v)))' = Spending(Recorded(v))
  BY <1>0 DEF Today, Spending, Recorded
<1>2. /\ w \in active /\ ~Locked(w) /\ w \notin session[o].flight
      /\ spent[w] + amount <= WalletLimit
      /\ overlap' = IF UpToDate(o) THEN overlap ELSE overlap \cup {o}
      /\ Spending(session[o].today) + amount <= GlobalLimit
  BY DEF Reserve, Eligible
<1>3. \A p \in Orders : session'[p].today \subseteq Today'
  BY <1>0, <1>1 DEF LimitInv
<1>4. WalletsInv'
  <2>1. \A v \in HotWallets : (spent[v] = Spending(Recorded(v)))' /\ (spent[v] <= WalletLimit)'
    BY <1>0, <1>1 DEF LimitInv, WalletsInv
  <2>2. Holds(o)'
    <3>1. w \in session'[o].locks /\ spent'[w] + session'[o].amount <= WalletLimit
      BY <1>0, <1>2
    <3>2. ASSUME UpToDate(o), NEW p \in Orders \ {o},
                 tx[p].status = "BROADCASTED", tx[p].wallet = w
          PROVE  FALSE
      <4>1. w \in InFlight(o)
        BY <3>2 DEF InFlight
      <4> QED
        BY <1>2, <3>2, <4>1 DEF UpToDate
    <3>3. o \in overlap' \/ \A p \in Orders \ {o} :
                               ~(tx'[p].status = "BROADCASTED" /\ tx'[p].wallet = w)
      BY <1>0, <1>2, <3>2
    <3> QED
      BY <1>0, <3>1, <3>3 DEF Holds
  <2>3. ASSUME NEW p \in Orders \ {o}, UnderWay(p)' PROVE Holds(p)'
    <3>1. Holds(p) /\ session'[p] = session[p] /\ overlap \subseteq overlap'
      BY <1>0, <1>2, <2>3 DEF LimitInv, WalletsInv, UnderWay
    <3> QED
      BY <1>0, <3>1 DEF Holds
  <2>4. ASSUME NEW p \in Orders, NEW q \in Orders, p # q
        PROVE  session'[p].locks \cap session'[q].locks = {}
    <3>1. \A r \in Orders : session'[o].locks \cap session[r].locks = {}
      BY <1>0 DEF Locked
    <3> QED
      BY <1>0, <2>4, <3>1 DEF LimitInv, WalletsInv
  <2> QED
    BY <2>1, <2>2, <2>3, <2>4 DEF WalletsInv
<1>5. ASSUME overlap' = {} PROVE WithinGlobal'
  <2>1. UpToDate(o) /\ overlap = {}
    BY <1>2, <1>5
  <2>2. Today = session[o].today /\ \A p \in Orders \ {o} : ~UnderWay(p)
    BY <2>1 DEF UpToDate, LimitInv
  <2>3. Spending(Today) <= GlobalLimit
    BY <2>1 DEF LimitInv, WithinGlobal
  <2>4. Spending(Today) + amount <= GlobalLimit
    BY <1>2, <2>2
  <2>5. \A p \in Orders \ {o} : ~UnderWay(p)'
    BY <1>0, <2>2 DEF UnderWay
  <2> QED
    BY <1>0, <1>1, <2>3, <2>4, <2>5 DEF WithinGlobal
<1>6. OnePerWallet'
  BY <1>0, <1>2 DEF LimitInv, OnePerWallet
<1> QED
  BY <1>1, <1>3, <1>4, <1>5, <1>6 DEF LimitInv, WithinGlobal

----------------------------------------------------------------------------
(* The signer's answer is recorded.                                        *)

LEMMA SimulatedLimits ==
    ASSUME LimitInv, BooksInv', NEW o \in Orders, Commit(o), session[o].answer = NoMessage
    PROVE  LimitInv'
<1>1. session \in [Orders -> SessionType] /\ tx \in [Orders -> TxType]
  BY TypeParts DEF LimitInv, BooksInv, TypeInv
<1>2. UNCHANGED <<spent, overlap>>
  BY DEF Commit, history
<1>3. SameBooks
  <2>1. tx[o].status \notin Broadcast
    BY DEF LimitInv, BooksInv, Booked, UnderWay, Commit, Broadcast
  <2>2. tx'[o].status = "SIMULATED" /\ \A p \in Orders \ {o} : tx'[p] = tx[p]
    BY <1>1 DEF Commit
  <2> QED
    BY <2>1, <2>2 DEF SameBooks, Broadcast
<1>4. \A p \in Orders : session'[p] = session[p] \/ session'[p] = Closed
  BY <1>1 DEF Commit, Close
<1> QED
  BY <1>2, <1>3, <1>4, SessionLimits

LEMMA BroadcastSums ==
    ASSUME LimitInv, BooksInv', NEW o \in Orders, NEW w \in HotWallets, tx[o].status \notin Broadcast,
           tx'[o].status \in Broadcast, tx'[o].wallet = w,
           \A p \in Orders \ {o} : tx'[p] = tx[p]
    PROVE  /\ Today' = Today \cup {o} /\ IsFiniteSet(Today')
           /\ Spending(Today)' = Spending(Today) + tx'[o].amount
           /\ (Spending(Recorded(w)))' = Spending(Recorded(w)) + tx'[o].amount
           /\ \A v \in HotWallets \ {w} : (Spending(Recorded(v)))' = Spending(Recorded(v))
<1>1. Today' = Today \cup {o} /\ o \notin Today
  BY DEF Today
<1>2. IsFiniteSet(Today')
  BY <1>1, FS_AddElement DEF LimitInv
<1>3. /\ Recorded(w)' = Recorded(w) \cup {o} /\ o \notin Recorded(w)
      /\ \A v \in HotWallets \ {w} : Recorded(v)' = Recorded(v) /\ o \notin Recorded(v)
      /\ \A v \in HotWallets : Recorded(v) \subseteq Today
  BY DEF Recorded, Today
<1>4. /\ \A p \in Orders : Amount[p] \in Int
      /\ \A p \in Orders : Amount'[p] = tx'[p].amount /\ Amount'[p] \in Int
  <2>1. TypeInv /\ TypeInv'
    BY DEF LimitInv, BooksInv
  <2>2. \A p \in Orders : Amount[p] \in Nat
    BY <2>1, AmountType
  <2>3. \A p \in Orders : tx'[p].amount \in Nat
    BY <2>1 DEF TypeInv, TonTypeOK
  <2> QED
    BY <2>2, <2>3 DEF Amount
<1>5. ASSUME NEW S, S \subseteq Today
      PROVE  /\ SumFunctionOnSet(Amount', S) = SumFunctionOnSet(Amount, S)
             /\ SumFunctionOnSet(Amount', S \cup {o}) =
                   SumFunctionOnSet(Amount, S) + tx'[o].amount
  <2>1. IsFiniteSet(S) /\ S \subseteq Orders /\ o \notin S
    BY <1>1, <1>5, FS_Subset DEF LimitInv, Today
  <2>2. \A p \in S : Amount'[p] = Amount[p]
    BY <2>1 DEF Amount
  <2>3. SumFunctionOnSet(Amount', S) = SumFunctionOnSet(Amount, S)
    BY <1>4, <2>1, <2>2, SumAgrees
  <2>4. SumFunctionOnSet(Amount', S \cup {o}) = SumFunctionOnSet(Amount', S) + Amount'[o]
    BY <1>4, <2>1, SumOfAdded
  <2> QED
    BY <1>4, <2>3, <2>4
<1>6. /\ Spending(Today)' = SumFunctionOnSet(Amount', Today \cup {o})
      /\ (Spending(Recorded(w)))' = SumFunctionOnSet(Amount', Recorded(w) \cup {o})
      /\ \A v \in HotWallets \ {w} :
            (Spending(Recorded(v)))' = SumFunctionOnSet(Amount', Recorded(v))
  BY <1>1, <1>3 DEF Spending, Amount
<1>7. /\ Spending(Today) = SumFunctionOnSet(Amount, Today)
      /\ \A v \in HotWallets : Spending(Recorded(v)) = SumFunctionOnSet(Amount, Recorded(v))
  BY DEF Spending, Amount
<1> QED
  BY <1>1, <1>2, <1>3, <1>5, <1>6, <1>7

LEMMA BroadcastLimits ==
    ASSUME LimitInv, BooksInv', NEW o \in Orders, Commit(o), session[o].answer # NoMessage
    PROVE  LimitInv'
<1>a. PICK w, amount : w = session[o].wallet /\ amount = session[o].amount
  OBVIOUS
<1>0. /\ session \in [Orders -> SessionType] /\ tx \in [Orders -> TxType]
      /\ spent \in [HotWallets -> Nat] /\ \A p \in Orders : session[p].locks \subseteq HotWallets
      /\ amount \in Nat
  <2>1. TonTypeOK
    BY DEF LimitInv, BooksInv, TypeInv
  <2> QED
    BY <1>a, <2>1, TypeParts DEF TonTypeOK, SessionType
<1>1. /\ UnderWay(o) /\ Holds(o) /\ w \in HotWallets
  BY <1>a, <1>0 DEF Commit, UnderWay, LimitInv, WalletsInv, Holds
<1>2. /\ tx[o].status \notin Broadcast
      /\ tx'[o].status = "BROADCASTED" /\ tx'[o].wallet = w /\ tx'[o].amount = amount
      /\ \A p \in Orders \ {o} : tx'[p] = tx[p]
  BY <1>a, <1>0, <1>1 DEF Commit, LimitInv, BooksInv, Booked, Broadcast
<1>3. /\ spent'[w] = spent[w] + amount /\ \A v \in HotWallets \ {w} : spent'[v] = spent[v]
      /\ session'[o] = Closed /\ \A p \in Orders \ {o} : session'[p] = session[p]
      /\ overlap' = overlap
  BY <1>a, <1>0, <1>1 DEF Commit, Close, history
<1>4. /\ Today' = Today \cup {o} /\ IsFiniteSet(Today')
      /\ Spending(Today)' = Spending(Today) + amount
      /\ (Spending(Recorded(w)))' = Spending(Recorded(w)) + amount
      /\ \A v \in HotWallets \ {w} : (Spending(Recorded(v)))' = Spending(Recorded(v))
  BY <1>1, <1>2, BroadcastSums DEF Broadcast
<1>5. Closed.today = {} /\ Closed.locks = {} /\ Closed.pc = "closed"
  BY DEF Closed
<1>6. ASSUME NEW p \in Orders, UnderWay(p)'
      PROVE  p # o /\ UnderWay(p) /\ session'[p] = session[p] /\ session[p].wallet # w
  <2>1. p # o /\ UnderWay(p) /\ session'[p] = session[p]
    BY <1>3, <1>5, <1>6 DEF UnderWay
  <2>2. session[p].wallet \in session[p].locks /\ w \in session[o].locks
    BY <1>a, <1>1, <2>1 DEF LimitInv, WalletsInv, Holds
  <2> QED
    BY <2>1, <2>2 DEF LimitInv, WalletsInv
<1>7. WalletsInv'
  <2>1. \A v \in HotWallets : (spent[v] = Spending(Recorded(v)))' /\ (spent[v] <= WalletLimit)'
    <3>1. spent[w] + amount <= WalletLimit
      BY <1>a, <1>1 DEF Holds
    <3> QED
      BY <1>1, <1>3, <1>4, <3>1 DEF LimitInv, WalletsInv
  <2>2. ASSUME NEW p \in Orders, UnderWay(p)' PROVE Holds(p)'
    <3>1. Holds(p) /\ p # o /\ session'[p] = session[p] /\ session[p].wallet # w
      BY <1>6, <2>2 DEF LimitInv, WalletsInv
    <3>2. session[p].wallet \in HotWallets \ {w}
      BY <1>0, <3>1 DEF Holds
    <3>3. spent'[session[p].wallet] = spent[session[p].wallet]
      BY <1>3, <3>2
    <3> QED
      BY <1>2, <1>3, <3>1, <3>3 DEF Holds
  <2>3. \A p, q \in Orders : p # q => session'[p].locks \cap session'[q].locks = {}
    <3>1. \A p \in Orders : session'[p].locks \subseteq session[p].locks
      BY <1>3, <1>5
    <3> QED
      BY <3>1 DEF LimitInv, WalletsInv
  <2> QED
    BY <2>1, <2>2, <2>3 DEF WalletsInv
<1>8. WithinGlobal'
  <2>1. ASSUME overlap = {}
        PROVE  Spending(Today)' <= GlobalLimit /\ \A p \in Orders : ~UnderWay(p)'
    <3>1. Spending(Today) + amount <= GlobalLimit /\ \A p \in Orders \ {o} : ~UnderWay(p)
      BY <1>a, <1>1, <2>1 DEF LimitInv, WithinGlobal
    <3> QED
      BY <1>4, <1>6, <3>1
  <2> QED
    BY <1>3, <2>1 DEF WithinGlobal
<1>9. OnePerWallet'
  <2>1. ASSUME NEW p \in Orders \ {o}, tx'[p].status = "BROADCASTED", tx'[p].wallet = w
        PROVE  o \in overlap
    BY <1>a, <1>1, <1>2, <2>1 DEF Holds
  <2>2. ASSUME NEW p \in Orders, NEW q \in Orders, p # q, tx'[p].wallet = tx'[q].wallet,
               {tx'[p].status, tx'[q].status} = {"BROADCASTED"}
        PROVE  {p, q} \cap overlap # {}
    <3>1. CASE p = o \/ q = o
      BY <1>2, <2>1, <2>2, <3>1
    <3>2. CASE p # o /\ q # o
      BY <1>2, <2>2, <3>2 DEF LimitInv, OnePerWallet
    <3> QED
      BY <3>1, <3>2
  <2> QED
    BY <1>3, <2>2 DEF OnePerWallet
<1>10. \A p \in Orders : session'[p].today \subseteq Today'
  BY <1>3, <1>4, <1>5 DEF LimitInv
<1> QED
  BY <1>4, <1>7, <1>8, <1>9, <1>10 DEF LimitInv

----------------------------------------------------------------------------

LEMMA LimitStep == LimitInv /\ [TonNext]_vars => LimitInv'
<1> SUFFICES ASSUME LimitInv, [TonNext]_vars PROVE LimitInv'
  OBVIOUS
<1>1. BooksInv'
  BY BooksStep DEF LimitInv
<1>2. ASSUME NEW o \in Orders, SessionStep(o) PROVE LimitInv'
  BY <1>1, <1>2, RowsLimits, SimulatedLimits, BroadcastLimits, ReserveLimits DEF SessionStep
<1> QED
  BY <1>1, <1>2, StepsLimits, RowsLimits DEF TonNext

LEMMA InitLimits == TonInit => LimitInv
<1> SUFFICES ASSUME TonInit PROVE LimitInv
  OBVIOUS
<1>1. Today = {} /\ \A w \in HotWallets : Recorded(w) = {}
  BY DEF TonInit, Today, Recorded, NoTx, Broadcast
<1>2. Spending({}) = 0
  BY SumOfNothing DEF Spending
<1>3. \A p \in Orders : ~UnderWay(p) /\ session[p].today = {} /\ session[p].locks = {}
  BY DEF TonInit, UnderWay, Closed
<1>4. GlobalLimit \in Nat /\ WalletLimit \in Nat
  BY TonAssumption
<1>5. \A w \in HotWallets : spent[w] = 0
  BY DEF TonInit
<1>6. \A p \in Orders : tx[p].status # "BROADCASTED"
  BY DEF TonInit, NoTx
<1>7. WalletsInv
  BY <1>1, <1>2, <1>3, <1>4, <1>5 DEF WalletsInv
<1>8. WithinGlobal
  BY <1>1, <1>2, <1>3, <1>4 DEF WithinGlobal
<1>9. OnePerWallet
  BY <1>6 DEF OnePerWallet
<1> QED
  BY <1>1, <1>3, <1>7, <1>8, <1>9, InitBooks, FS_EmptySet DEF LimitInv

LEMMA LimitInvariant == TonSpec => []LimitInv
BY InitLimits, LimitStep, PTL DEF TonSpec

\* LimitsHold, for any number of orders, wallets, calls and faults: what a wallet
\* spent is the sum of what is recorded as broadcast from it and within its limit,
\* and all of it is within the global limit, with one broadcast at a time for a
\* wallet, unless two transactions were under way together.
THEOREM KeepsLimits == TonSpec => []LimitsHold
<1>1. LimitInv => LimitsHold
  BY DEF LimitInv, WalletsInv, WithinGlobal, OnePerWallet, LimitsHold
<1> QED
  BY <1>1, LimitInvariant, PTL

----------------------------------------------------------------------------
(* The Node signer's ledger.                                               *)

Serving == {"reserved", "pending", "accepted", "ledgered"}

\* What is sent for the order, or is about to be, is in the ledger, for the same
\* amount unless a request came again for another one.
InLedger(o, amount) == ledger[o] # NoEntry /\ (o \in requoted \/ ledger[o].amount = amount)

Entered(o) ==
    /\ ledger[o].status = "none" => ledger[o] = NoEntry
    /\ \A n \in Calls : call[o][n].pc \in Serving => InLedger(o, call[o][n].amount)
    /\ \A m \in sent : m.order = o => InLedger(o, m.amount)

LedgerInv ==
    /\ PayInv
    /\ signer = "node" => /\ IsFiniteSet(Counted) /\ LedgerSum <= GlobalLimit
                          /\ \A o \in Orders : Entered(o)

Entries == [p \in Orders |-> ledger[p].amount]

LEMMA CountedFacts ==
    ASSUME TypeInv
    PROVE  /\ \A p \in Orders : p \in Counted <=> ledger[p].status # "none"
           /\ \A p \in Orders : Entries[p] = ledger[p].amount /\ Entries[p] \in Nat
           /\ LedgerSum = SumFunctionOnSet(Entries, Counted)
<1>1. ledger \in [Orders -> EntryType]
  BY TypeParts DEF TypeInv
<1> QED
  BY <1>1 DEF Counted, Entries, LedgerSum, EntryType

LEMMA CountedNext ==
    ASSUME TypeInv'
    PROVE  /\ \A p \in Orders : p \in Counted' <=> ledger'[p].status # "none"
           /\ \A p \in Orders : Entries'[p] = ledger'[p].amount /\ Entries'[p] \in Nat
           /\ LedgerSum' = SumFunctionOnSet(Entries', Counted')
<1>1. ledger' \in [Orders -> EntryType]
  BY DEF TypeInv, TonTypeOK, EntryType
<1> QED
  BY <1>1 DEF Counted, Entries, LedgerSum, EntryType

LEMMA EnteredKept ==
    ASSUME NEW p \in Orders, Entered(p), ledger'[p] = ledger[p], requoted \subseteq requoted',
           \A k \in Calls : call'[p][k].pc \in Serving => call'[p][k] = call[p][k],
           \A m : m.order = p => (m \in sent' <=> m \in sent)
    PROVE  Entered(p)'
BY DEF Entered, InLedger

\* The order whose call is served.
LEMMA EnteredServed ==
    ASSUME NodeInv, NEW o \in Orders, NEW n \in Calls, Served(o, n), OtherCalls(o, n),
           \A p \in Orders : Entered(p),
           \A p \in Orders \ {o} : ledger'[p] = ledger[p],
           requoted \subseteq requoted',
           \A m : m.order # o => (m \in sent' <=> m \in sent),
           ledger'[o].status # "none" \/ ledger'[o] = ledger[o],
           call'[o][n].pc \in Serving => InLedger(o, call[o][n].amount)',
           \A m \in sent' : m.order = o => InLedger(o, m.amount)'
    PROVE  \A p \in Orders : Entered(p)'
<1>1. ASSUME NEW p \in Orders \ {o} PROVE Entered(p)'
  BY <1>1, EnteredKept DEF OtherCalls
<1>2. \A k \in Calls : k # n => call'[o][k].pc \notin Serving
  BY NodeAlone DEF OtherCalls, Serving
<1>3. Entered(o)'
  BY <1>2 DEF Entered
<1> QED
  BY <1>1, <1>3

\* The sum as an entry changes its status, or one is added.
LEMMA LedgerSumKept ==
    ASSUME TypeInv, TypeInv', IsFiniteSet(Counted),
           \A p \in Orders : /\ ledger'[p].status = "none" <=> ledger[p].status = "none"
                             /\ ledger'[p].amount = ledger[p].amount
    PROVE  Counted' = Counted /\ LedgerSum' = LedgerSum
<1>1. Counted' = Counted
  <2>1. \A p \in Orders : p \in Counted' <=> p \in Counted
    BY CountedFacts, CountedNext
  <2> QED
    BY <2>1 DEF Counted
<1>2. \A p \in Counted : p \in Orders
  BY DEF Counted
<1>3. \A p \in Counted : Entries[p] \in Int /\ Entries'[p] = Entries[p]
  BY <1>2, CountedFacts DEF Entries
<1>4. SumFunctionOnSet(Entries', Counted) = SumFunctionOnSet(Entries, Counted)
  BY <1>3, SumAgrees
<1> QED
  BY <1>1, <1>4, CountedFacts, CountedNext

LEMMA LedgerSumGrows ==
    ASSUME TypeInv, TypeInv', IsFiniteSet(Counted), NEW o \in Orders,
           ledger[o].status = "none", ledger'[o].status # "none",
           \A p \in Orders \ {o} : ledger'[p] = ledger[p]
    PROVE  IsFiniteSet(Counted') /\ LedgerSum' = LedgerSum + ledger'[o].amount
<1>1. Counted' = Counted \cup {o} /\ o \notin Counted
  <2>1. \A p \in Orders : p \in Counted' <=> p \in Counted \/ p = o
    BY CountedFacts, CountedNext
  <2> QED
    BY <2>1, CountedFacts DEF Counted
<1>2. \A p \in Counted : p \in Orders
  BY DEF Counted
<1>3. \A p \in Counted : Entries[p] \in Int /\ Entries'[p] = Entries[p]
  BY <1>1, <1>2, CountedFacts DEF Entries
<1>4. Entries'[o] = ledger'[o].amount /\ Entries'[o] \in Int
  BY CountedNext
<1>5. SumFunctionOnSet(Entries', Counted) = SumFunctionOnSet(Entries, Counted)
  BY <1>3, SumAgrees
<1>6. SumFunctionOnSet(Entries', Counted \cup {o}) =
         SumFunctionOnSet(Entries', Counted) + Entries'[o]
  BY <1>1, <1>3, <1>4, SumOfAdded
<1> QED
  BY <1>1, <1>4, <1>5, <1>6, CountedFacts, CountedNext, FS_AddElement

\* A call that moves on is for the same amount.
LEMMA AmountStays ==
    ASSUME TypeInv, NEW o \in Orders, NEW n \in Calls
    PROVE  /\ \A pc : Proceeds(o, n, pc) => call'[o][n].amount = call[o][n].amount
           /\ \A message :
                 call' = [call EXCEPT ![o][n].pc = "accepted", ![o][n].message = message] =>
                    call'[o][n].amount = call[o][n].amount
<1>0. call \in [Orders -> [Calls -> CallType]] /\ call[o][n] \in CallType
  BY TypeParts DEF TypeInv
<1>1. ASSUME NEW pc, Proceeds(o, n, pc) PROVE call'[o][n].amount = call[o][n].amount
  <2>1. call'[o][n] = [call[o][n] EXCEPT !.pc = pc]
    BY <1>0, <1>1 DEF Proceeds
  <2> QED
    BY <1>0, <2>1 DEF CallType
<1>2. ASSUME NEW message,
             call' = [call EXCEPT ![o][n].pc = "accepted", ![o][n].message = message]
      PROVE  call'[o][n].amount = call[o][n].amount
  <2>1. call'[o][n] = [call[o][n] EXCEPT !.pc = "accepted", !.message = message]
    BY <1>0, <1>2
  <2> QED
    BY <1>0, <2>1 DEF CallType
<1> QED
  BY <1>1, <1>2

LEMMA NodeLedger ==
    ASSUME LedgerInv, PayInv', NEW o \in Orders, NEW n \in Calls, NodeStep(o, n)
    PROVE  LedgerInv'
<1>0. /\ signer = "node" /\ Served(o, n) /\ TypeInv /\ TypeInv' /\ NodeInv
      /\ Entered(o) /\ \A p \in Orders : Entered(p)
      /\ IsFiniteSet(Counted) /\ LedgerSum <= GlobalLimit
  BY DEF LedgerInv, PayInv, NodeInv, NodeStep, NodeReceives, NodeReserves, NodeWritesPending,
         NodePosts, NodeUpdatesLedger, NodeAnswers, At, Served
<1>1. ledger \in [Orders -> EntryType] /\ ledger[o] \in EntryType
  BY <1>0, TypeParts DEF TypeInv
<1>2. ASSUME UNCHANGED <<ledger, requoted, sent>>, OtherCalls(o, n),
             call'[o][n].pc \in Serving =>
                call[o][n].pc \in Serving /\ call'[o][n].amount = call[o][n].amount
      PROVE  LedgerInv'
  <2>1. call'[o][n].pc \in Serving => InLedger(o, call[o][n].amount)'
    BY <1>0, <1>2 DEF Entered, InLedger
  <2>2. \A m \in sent' : m.order = o => InLedger(o, m.amount)'
    BY <1>0, <1>2 DEF Entered, InLedger
  <2>3. \A p \in Orders : Entered(p)'
    BY <1>0, <1>2, <2>1, <2>2, EnteredServed
  <2>4. Counted' = Counted /\ LedgerSum' = LedgerSum
    BY <1>2 DEF Counted, LedgerSum
  <2> QED
    BY <1>0, <2>3, <2>4 DEF LedgerInv
<1>3. ASSUME NEW status \in {"sent", "unknown"}, ledger' = [ledger EXCEPT ![o].status = status],
             call[o][n].pc \in Serving, UNCHANGED <<requoted, sent>>, OtherCalls(o, n),
             call'[o][n].pc \in Serving => call'[o][n].amount = call[o][n].amount
      PROVE  LedgerInv'
  <2>1. InLedger(o, call[o][n].amount) /\ ledger[o].status # "none"
    BY <1>0, <1>3 DEF Entered, InLedger
  <2>2. /\ ledger'[o].status = status /\ ledger'[o].amount = ledger[o].amount
        /\ \A p \in Orders \ {o} : ledger'[p] = ledger[p]
    <3>1. ledger' = [ledger EXCEPT ![o] = [ledger[o] EXCEPT !.status = status]]
      BY <1>1, <1>3
    <3> QED
      BY <1>1, <3>1 DEF EntryType
  <2>3. ledger'[o] # NoEntry
    BY <2>2 DEF NoEntry
  <2>4. \A amount : InLedger(o, amount) => InLedger(o, amount)'
    BY <1>3, <2>2, <2>3 DEF InLedger
  <2>5. call'[o][n].pc \in Serving => InLedger(o, call[o][n].amount)'
    BY <1>3, <2>1, <2>2, <2>3 DEF InLedger
  <2>6. \A m \in sent' : m.order = o => InLedger(o, m.amount)'
    BY <1>0, <1>3, <2>4 DEF Entered
  <2>7. \A p \in Orders : Entered(p)'
    BY <1>0, <1>3, <2>2, <2>5, <2>6, EnteredServed
  <2>8. Counted' = Counted /\ LedgerSum' = LedgerSum
    BY <1>0, <2>1, <2>2, LedgerSumKept
  <2> QED
    BY <1>0, <2>7, <2>8 DEF LedgerInv
<1>4. CASE NodeReceives(o, n) \/ NodeWritesPending(o, n) \/ NodeAnswers(o, n)
  <2>1. /\ UNCHANGED <<ledger, requoted, sent>>
        /\ \/ Finished(o, n)
           \/ Proceeds(o, n, "locked")
           \/ Proceeds(o, n, "pending") /\ call[o][n].pc = "reserved"
    BY <1>4 DEF NodeReceives, NodeWritesPending, NodeAnswers, Answers, Refuses, At
  <2>2. OtherCalls(o, n)
    BY <1>0, <2>1, CallMoves
  <2>3. call'[o][n].pc \in Serving =>
           call[o][n].pc \in Serving /\ call'[o][n].amount = call[o][n].amount
    <3>1. CASE Finished(o, n)
      BY <1>0, <3>1, CallMoves DEF Serving
    <3>2. CASE Proceeds(o, n, "locked")
      <4>1. call'[o][n].pc = "locked"
        <5>1. call' = [call EXCEPT ![o][n] = [call[o][n] EXCEPT !.pc = "locked"]]
          BY <1>0, <3>2, TypeParts DEF Proceeds, TypeInv
        <5> QED
          BY <1>0, <5>1, TypeParts DEF CallType, TypeInv
      <4> QED
        BY <4>1 DEF Serving
    <3>3. CASE Proceeds(o, n, "pending") /\ call[o][n].pc = "reserved"
      BY <1>0, <3>3, AmountStays DEF Serving
    <3> QED
      BY <2>1, <3>1, <3>2, <3>3
  <2> QED
    BY <1>2, <2>1, <2>2, <2>3
<1>5. ASSUME NodeFails(o, n), call[o][n].pc \in Serving, UNCHANGED <<requoted, sent>>
      PROVE  LedgerInv'
  <2>1. /\ Finished(o, n) /\ ledger' = [ledger EXCEPT ![o].status = "unknown"]
    BY <1>5 DEF NodeFails, Refuses
  <2>2. OtherCalls(o, n) /\ call'[o][n].pc \notin Serving
    BY <1>0, <2>1, CallMoves DEF Serving
  <2> QED
    BY <1>3, <1>5, <2>1, <2>2
<1>6. CASE NodeUpdatesLedger(o, n)
  <2>1. call[o][n].pc \in Serving /\ UNCHANGED <<requoted, sent>>
    BY <1>6 DEF NodeUpdatesLedger, At, Serving
  <2>2. CASE ledger' = [ledger EXCEPT ![o].status = "sent"] /\ Proceeds(o, n, "ledgered")
    BY <1>0, <1>3, <2>1, <2>2, CallMoves, AmountStays
  <2> QED
    BY <1>5, <1>6, <2>1, <2>2 DEF NodeUpdatesLedger
<1>7. CASE NodePosts(o, n)
  <2>1. call[o][n].pc \in Serving /\ UNCHANGED requoted
    BY <1>7 DEF NodePosts, At, Serving
  <2>2. ASSUME NEW seqno, sent' = sent \cup {Message(o, n, seqno)}, UNCHANGED ledger,
               call' = [call EXCEPT ![o][n].pc = "accepted", ![o][n].message = Message(o, n, seqno)]
        PROVE  LedgerInv'
    <3>0. OtherCalls(o, n)
      BY <1>0, <2>2, CallMoves
    <3>1. OtherCalls(o, n) /\ call'[o][n].amount = call[o][n].amount
      BY <1>0, <2>2, <3>0, AmountStays
    <3>2. Message(o, n, seqno).order = o /\ Message(o, n, seqno).amount = call[o][n].amount
      BY DEF Message
    <3>3. InLedger(o, call[o][n].amount)
      BY <1>0, <2>1 DEF Entered
    <3>4. \A amount : InLedger(o, amount) <=> InLedger(o, amount)'
      BY <2>1, <2>2 DEF InLedger
    <3>5. \A m \in sent' : m.order = o => InLedger(o, m.amount)'
      BY <1>0, <2>2, <3>2, <3>3, <3>4 DEF Entered
    <3>6. InLedger(o, call[o][n].amount)'
      BY <2>1, <2>2, <3>1, <3>3 DEF InLedger
    <3>7. \A m : m.order # o => (m \in sent' <=> m \in sent)
      BY <2>2, <3>2
    <3>8. \A p \in Orders : Entered(p)'
      BY <1>0, <2>1, <2>2, <3>1, <3>5, <3>6, <3>7, EnteredServed
    <3>9. Counted' = Counted /\ LedgerSum' = LedgerSum
      BY <2>2 DEF Counted, LedgerSum
    <3> QED
      BY <1>0, <3>8, <3>9 DEF LedgerInv
  <2> QED
    BY <1>5, <1>7, <2>1, <2>2 DEF NodePosts
<1>8. CASE NodeReserves(o, n)
  <2>1. UNCHANGED sent /\ requoted \subseteq requoted'
    BY <1>8 DEF NodeReserves
  <2>2. CASE Refuses(o, n) /\ UNCHANGED <<ledger, requoted>>
    <3>1. OtherCalls(o, n) /\ call'[o][n].pc \notin Serving
      BY <1>0, <2>2, CallMoves DEF Refuses, Serving
    <3> QED
      BY <1>2, <2>1, <2>2, <3>1
  <2>3. CASE /\ Proceeds(o, n, "reserved")
             /\ \/ /\ ledger[o] # NoEntry /\ UNCHANGED ledger
                   /\ requoted' = IF ledger[o].amount = call[o][n].amount THEN requoted
                                  ELSE requoted \cup {o}
                \/ /\ ledger[o] = NoEntry /\ LedgerSum + call[o][n].amount <= GlobalLimit
                   /\ ledger' = [ledger EXCEPT ![o] =
                                   [status |-> "pending", amount |-> call[o][n].amount]]
                   /\ UNCHANGED requoted
    <3>1. OtherCalls(o, n) /\ call'[o][n].amount = call[o][n].amount
      BY <1>0, <2>3, CallMoves, AmountStays
    <3>2. CASE /\ ledger[o] # NoEntry /\ UNCHANGED ledger
               /\ requoted' = IF ledger[o].amount = call[o][n].amount THEN requoted
                              ELSE requoted \cup {o}
      <4>1. InLedger(o, call[o][n].amount)'
        BY <3>1, <3>2 DEF InLedger
      <4>2. \A m \in sent' : m.order = o => InLedger(o, m.amount)'
        BY <1>0, <2>1, <3>2 DEF Entered, InLedger
      <4>3. \A p \in Orders : Entered(p)'
        BY <1>0, <2>1, <3>1, <3>2, <4>1, <4>2, EnteredServed
      <4>4. Counted' = Counted /\ LedgerSum' = LedgerSum
        BY <3>2 DEF Counted, LedgerSum
      <4> QED
        BY <1>0, <4>3, <4>4 DEF LedgerInv
    <3>3. CASE /\ ledger[o] = NoEntry /\ LedgerSum + call[o][n].amount <= GlobalLimit
               /\ ledger' = [ledger EXCEPT ![o] =
                               [status |-> "pending", amount |-> call[o][n].amount]]
               /\ UNCHANGED requoted
      <4>1. /\ ledger'[o] = [status |-> "pending", amount |-> call[o][n].amount]
            /\ \A p \in Orders \ {o} : ledger'[p] = ledger[p]
        BY <1>1, <3>3
      <4>2. /\ ledger[o].status = "none" /\ ledger'[o].status = "pending"
            /\ ledger'[o].amount = call[o][n].amount /\ ledger'[o] # NoEntry
        BY <3>3, <4>1 DEF NoEntry
      <4>3. InLedger(o, call[o][n].amount)'
        BY <3>1, <4>2 DEF InLedger
      <4>4. \A m \in sent' : m.order # o
        BY <1>0, <2>1, <3>3 DEF Entered, InLedger
      <4>5. \A p \in Orders : Entered(p)'
        BY <1>0, <2>1, <3>1, <4>1, <4>2, <4>3, <4>4, EnteredServed
      <4>6. IsFiniteSet(Counted') /\ LedgerSum' = LedgerSum + call[o][n].amount
        BY <1>0, <4>1, <4>2, LedgerSumGrows
      <4> QED
        BY <1>0, <3>3, <4>5, <4>6 DEF LedgerInv
    <3> QED
      BY <2>3, <3>2, <3>3
  <2> QED
    BY <1>8, <2>2, <2>3 DEF NodeReserves
<1> QED
  BY <1>4, <1>6, <1>7, <1>8 DEF NodeStep

\* Every other step leaves the ledger and the calls that are served alone.
LEMMA OthersLedger ==
    ASSUME LedgerInv, PayInv', UNCHANGED signer,
           signer = "node" => UNCHANGED <<ledger, requoted, sent>>,
           signer = "node" => \A p \in Orders, k \in Calls :
              call'[p][k].pc \in Serving => call'[p][k] = call[p][k]
    PROVE  LedgerInv'
<1>1. ASSUME signer = "node" PROVE Counted' = Counted /\ LedgerSum' = LedgerSum
  BY <1>1 DEF Counted, LedgerSum
<1>2. ASSUME signer = "node" PROVE \A p \in Orders : Entered(p)'
  BY <1>2 DEF LedgerInv, Entered, InLedger
<1> QED
  BY <1>1, <1>2 DEF LedgerInv

LEMMA LedgerStep == LedgerInv /\ [TonNext]_vars => LedgerInv'
<1> SUFFICES ASSUME LedgerInv, [TonNext]_vars PROVE LedgerInv'
  OBVIOUS
<1>1. PayInv' /\ TypeInv
  BY PayStep DEF LedgerInv, PayInv
<1>2. ASSUME UNCHANGED <<signer, ledger, requoted, sent, call>> PROVE LedgerInv'
  BY <1>1, <1>2, OthersLedger
<1>3. ASSUME NEW o \in Orders, SessionStep(o) PROVE LedgerInv'
  <2>1. CASE \E s \in Schemas, w \in HotWallets, amount \in Amounts : Reserve(o, s, w, amount)
    <3>0. PICK s \in Schemas, w \in HotWallets, amount \in Amounts : Reserve(o, s, w, amount)
      BY <2>1
    <3>1. PICK n \in Calls :
             call' = [call EXCEPT ![o][n] =
                IF signer = "mock" THEN DoneCall
                ELSE [NoCall EXCEPT !.pc = "received", !.wallet = w, !.amount = amount]]
      BY <3>0 DEF Reserve, NextCall
    <3>2. \A p \in Orders, k \in Calls :
             call'[p][k] = call[p][k] \/ call'[p][k].pc \in {"done", "received"}
      <4> DEFINE new == IF signer = "mock" THEN DoneCall
                ELSE [NoCall EXCEPT !.pc = "received", !.wallet = w, !.amount = amount]
      <4>1. new.pc \in {"done", "received"}
        BY DEF DoneCall, NoCall
      <4> HIDE DEF new
      <4>2. call' = [call EXCEPT ![o][n] = new]
        BY <3>1 DEF new
      <4> QED
        BY <1>1, <4>1, <4>2, TypeParts DEF TypeInv
    <3>3. UNCHANGED <<signer, ledger, requoted, sent>>
      BY <2>1 DEF Reserve, chain
    <3> QED
      BY <1>1, <3>2, <3>3, OthersLedger DEF Serving
  <2>2. CASE Open(o) \/ GiveUp(o) \/ Review(o) \/ Commit(o) \/ Rollback(o)
    <3>1. UNCHANGED <<signer, ledger, requoted, sent, call>>
      BY <2>2 DEF Open, GiveUp, Review, Commit, Rollback, node, chain, history
    <3> QED
      BY <1>2, <3>1
  <2> QED
    BY <1>3, <2>1, <2>2 DEF SessionStep
<1>4. ASSUME NEW o \in Orders, NEW n \in Calls, PythonStep(o, n) PROVE LedgerInv'
  <2>1. signer = "python" /\ signer' = signer
    BY <1>4 DEF PythonStep, PythonReceives, PythonPosts, PythonAnswers, pythonOnly
  <2> QED
    BY <1>1, <2>1, OthersLedger
<1>5. CASE PythonRestarts \/ NodeRestarts
  <2>1. AllFail /\ UNCHANGED <<signer, ledger, requoted, sent>>
    BY <1>5 DEF PythonRestarts, NodeRestarts, nodeOnly, node, chain
  <2>2. \A p \in Orders, k \in Calls : call'[p][k].pc \notin Serving
    BY <2>1, AllFailFacts DEF Serving
  <2> QED
    BY <1>1, <2>1, <2>2, OthersLedger
<1>6. ASSUME \/ \E m \in sent : Mine(m)
             \/ \E o \in Orders : Reconcile(o)
             \/ \E w \in HotWallets : UpdateHotWallet(w)
             \/ \E s \in Schemas : UpdateSchema(s)
             \/ UNCHANGED vars
      PROVE  UNCHANGED <<signer, ledger, requoted, sent, call>>
  BY <1>6 DEF Mine, Reconcile, UpdateHotWallet, UpdateSchema, vars, node, chain, history
<1> QED
  BY <1>1, <1>2, <1>3, <1>4, <1>5, <1>6, NodeLedger DEF TonNext

LEMMA InitLedger == TonInit => LedgerInv
<1> SUFFICES ASSUME TonInit PROVE LedgerInv
  OBVIOUS
<1>1. PayInv
  <2>1. \A o \in Orders, n \in Calls : call[o][n].pc = "none"
    BY DEF TonInit, NoCall
  <2>2. sent = {}
    BY DEF TonInit
  <2> QED
    BY <2>1, <2>2, InitTypes DEF PayInv, OneServed, Filed, Tracked, Alone, InService
<1>2. Counted = {}
  BY DEF TonInit, Counted, NoEntry
<1>3. LedgerSum = 0 /\ IsFiniteSet(Counted)
  BY <1>2, SumOfNothing, FS_EmptySet DEF LedgerSum
<1>4. \A o \in Orders : Entered(o)
  BY DEF TonInit, Entered, NoCall, Serving
<1> QED
  BY <1>1, <1>3, <1>4, TonAssumption DEF LedgerInv

LEMMA LedgerInvariant == TonSpec => []LedgerInv
BY InitLedger, LedgerStep, PTL DEF TonSpec

\* NodeWithinLimit, for any number of orders, calls and faults: what the Node signer
\* sent, all together, is within its limit, whatever was repeated, lost or cut off,
\* unless a request came again for another amount.
THEOREM SendsWithinLimit == TonSpec => []NodeWithinLimit
<1>1. ASSUME LedgerInv, signer = "node", requoted = {}
      PROVE  SumFunctionOnSet([m \in sent |-> m.amount], sent) <= GlobalLimit
  <2> DEFINE owner == [m \in sent |-> m.order]
             worth == [m \in sent |-> m.amount]
             Owners == {owner[m] : m \in sent}
  <2>1. TypeInv /\ IsFiniteSet(Counted) /\ LedgerSum <= GlobalLimit
    BY <1>1 DEF LedgerInv, PayInv
  <2>2. ASSUME NEW m \in sent
        PROVE  m.order \in Counted /\ m.amount = Entries[m.order]
    <3>1. m.order \in Orders
      BY <2>1 DEF TypeInv
    <3>2. Entered(m.order) /\ InLedger(m.order, m.amount)
      BY <1>1, <3>1 DEF LedgerInv, Entered
    <3> QED
      BY <1>1, <2>1, <3>1, <3>2, CountedFacts DEF Entered, InLedger
  <2>3. ASSUME NEW m1 \in sent, NEW m2 \in sent, m1.order = m2.order PROVE m1 = m2
    <3>1. m1.order \in Orders
      BY <2>1 DEF TypeInv
    <3> QED
      BY <1>1, <2>3, <3>1 DEF LedgerInv, PayInv, Filed, Alone
  <2>4. owner \in Injection(sent, Counted)
    BY <2>2, <2>3 DEF Injection, IsInjective
  <2>5. IsFiniteSet(sent)
    BY <2>1, <2>4, FS_Injection
  <2>6. \A p \in Counted : Entries[p] \in Nat
    BY <2>1, CountedFacts DEF Counted
  <2>7. /\ \A m \in sent : owner[m] \in Counted /\ worth[m] = Entries[owner[m]]
        /\ \A m1, m2 \in sent : owner[m1] = owner[m2] => m1 = m2
    BY <2>2, <2>3
  <2>8. Owners \in SUBSET Counted
    BY <2>7
  <2> HIDE DEF owner, worth
  <2>9. SumFunctionOnSet(worth, sent) = SumFunctionOnSet(Entries, Owners)
    BY <2>1, <2>5, <2>6, <2>7, SumOfImage
  <2>10. SumFunctionOnSet(Entries, Owners) <= LedgerSum
    BY <2>1, <2>6, <2>8, SumOfPart, CountedFacts
  <2>11. /\ SumFunctionOnSet(Entries, Owners) \in Nat /\ LedgerSum \in Nat
    <3>1. IsFiniteSet(Owners) /\ \A p \in Owners : Entries[p] \in Nat
      BY <2>1, <2>6, <2>8, FS_Subset
    <3> QED
      BY <2>1, <2>6, <3>1, SumType, CountedFacts
  <2>12. GlobalLimit \in Nat
    BY TonAssumption
  <2>13. SumFunctionOnSet(worth, sent) <= GlobalLimit
    BY <2>1, <2>9, <2>10, <2>11, <2>12
  <2> QED
    BY <2>13 DEF worth
<1>2. LedgerInv => NodeWithinLimit
  BY <1>1 DEF NodeWithinLimit
<1> QED
  BY <1>2, LedgerInvariant, PTL
=============================================================================
