--------------------------- MODULE TonPayments_proofs ---------------------------
(***************************************************************************)
(* Proofs about TonPayments: types; an order is paid once, with the Node    *)
(* signer whatever fails and with the Python signer as long as it has not   *)
(* lost track of the order; and the books say what was sent, except of an   *)
(* order whose transaction was rolled back after a call.                    *)
(***************************************************************************)
EXTENDS TonPayments, FiniteSetTheorems, WellFoundedInduction, TLAPS

TxType == [status : Status, wallet : HotWallets \cup {0}, amount : Nat, message : Messages]

SessionType ==
    [pc : {"closed", "open", "signing", "answered"}, flight : SUBSET (HotWallets \cup {0}),
     today : SUBSET Orders, schema : Schemas \cup {"none"}, wallet : HotWallets \cup {0},
     amount : Nat, locks : SUBSET HotWallets, call : Calls \cup {0}, answer : Messages]

CallType ==
    [pc : Stage, wallet : HotWallets \cup {0}, amount : Nat, message : Messages]

FileType == [status : {"none", "pending", "unknown", "completed"}, message : Messages]

EntryType == [status : {"none", "pending", "sent", "unknown"}, amount : Nat]

TypeInv ==
    /\ TonTypeOK
    /\ IsFiniteSet(mined)
    /\ \A m \in sent : m.order \in Orders

----------------------------------------------------------------------------
(* Types.                                                                  *)

\* What the state is made of.
LEMMA TypeParts ==
    ASSUME TonTypeOK
    PROVE  /\ tx \in [Orders -> TxType]
           /\ session \in [Orders -> SessionType]
           /\ call \in [Orders -> [Calls -> CallType]]
           /\ file \in [Orders -> FileType]
           /\ ledger \in [Orders -> EntryType]
BY DEF TonTypeOK, TxType, SessionType, CallType, FileType, EntryType

LEMMA MessageFacts ==
    /\ NoMessage \in Messages
    /\ NoTx \in TxType
    /\ NoCall \in CallType /\ DoneCall \in CallType
    /\ Closed \in SessionType
    /\ NoEntry \in EntryType
    /\ [status |-> "none", message |-> NoMessage] \in FileType
<1>1. NoMessage \in Messages
  BY DEF NoMessage, Messages
<1> QED
  BY <1>1 DEF NoTx, TxType, Status, NoCall, DoneCall, CallType, Stage, Closed, SessionType,
              NoEntry, EntryType, FileType

LEMMA SeqnoType == ASSUME TypeInv, NEW w PROVE Seqno(w) \in Nat
<1>1. {m \in mined : m.wallet = w} \subseteq mined
  OBVIOUS
<1> QED
  BY <1>1, FS_Subset, FS_CardinalityType DEF Seqno, TypeInv

LEMMA MessageType ==
    ASSUME TypeInv, NEW o \in Orders, NEW n \in Calls, NEW seqno \in Nat
    PROVE  Message(o, n, seqno) \in Messages /\ Message(o, n, seqno).order = o
<1>1. call[o][n] \in CallType
  BY TypeParts DEF TypeInv
<1> QED
  BY <1>1 DEF Message, Messages, CallType

\* A call that moves on, or is accepted, or ends.
LEMMA CallUpdate ==
    ASSUME NEW x \in CallType
    PROVE  /\ \A pc \in Stage : [x EXCEPT !.pc = pc] \in CallType
           /\ \A message \in Messages :
                 [x EXCEPT !.pc = "accepted", !.message = message] \in CallType
           /\ \A w \in HotWallets, amount \in Amounts :
                 [NoCall EXCEPT !.pc = "received", !.wallet = w, !.amount = amount] \in CallType
BY MessageFacts, TonAssumption DEF CallType, Stage, NoCall

LEMMA CallsUpdate ==
    ASSUME TonTypeOK, NEW o \in Orders, NEW n \in Calls, NEW x \in CallType
    PROVE  [call EXCEPT ![o][n] = x] \in [Orders -> [Calls -> CallType]]
BY TypeParts

LEMMA AnswerTypes ==
    ASSUME TypeInv, NEW o \in Orders, NEW n \in Calls
    PROVE  /\ \A message \in Messages : Answers(o, n, message) =>
                 /\ call' \in [Orders -> [Calls -> CallType]]
                 /\ session' \in [Orders -> SessionType] /\ adrift' \subseteq Orders
           /\ Refuses(o, n) =>
                 /\ call' \in [Orders -> [Calls -> CallType]]
                 /\ session' \in [Orders -> SessionType] /\ adrift' \subseteq Orders
           /\ \A pc \in Stage : Proceeds(o, n, pc) =>
                 /\ call' \in [Orders -> [Calls -> CallType]]
                 /\ session' \in [Orders -> SessionType] /\ adrift' \subseteq Orders
           /\ \A message \in Messages :
                 [call EXCEPT ![o][n].pc = "accepted", ![o][n].message = message]
                    \in [Orders -> [Calls -> CallType]]
<1>0. TonTypeOK /\ session[o] \in SessionType /\ call[o][n] \in CallType /\ adrift \subseteq Orders
  <2>1. TonTypeOK
    BY DEF TypeInv
  <2>2. adrift \subseteq Orders
    BY <2>1 DEF TonTypeOK
  <2> QED
    BY <2>1, <2>2, TypeParts
<1>1. ASSUME Finished(o, n) PROVE call' \in [Orders -> [Calls -> CallType]]
  BY <1>0, <1>1, CallsUpdate, MessageFacts DEF Finished
<1>2. ASSUME NEW message \in Messages, Answers(o, n, message)
      PROVE  session' \in [Orders -> SessionType]
  <2>1. [session[o] EXCEPT !.pc = "answered", !.answer = message] \in SessionType
    BY <1>0 DEF SessionType
  <2>2. session' = session \/ session' = [session EXCEPT ![o] =
              [session[o] EXCEPT !.pc = "answered", !.answer = message]]
    BY <1>0, <1>2, TypeParts DEF Answers
  <2> QED
    BY <1>0, <2>1, <2>2, TypeParts
<1>3. ASSUME Refuses(o, n) PROVE session' \in [Orders -> SessionType] /\ adrift' \subseteq Orders
  BY <1>0, <1>3, TypeParts, MessageFacts DEF Refuses
<1>4. ASSUME NEW pc \in Stage, Proceeds(o, n, pc)
      PROVE  call' \in [Orders -> [Calls -> CallType]]
  <2>1. [call[o][n] EXCEPT !.pc = pc] \in CallType
    BY <1>0, CallUpdate
  <2>2. call' = [call EXCEPT ![o][n] = [call[o][n] EXCEPT !.pc = pc]]
    BY <1>0, <1>4, TypeParts DEF Proceeds
  <2> QED
    BY <1>0, <2>1, <2>2, CallsUpdate
<1>5. ASSUME NEW message \in Messages
      PROVE  [call EXCEPT ![o][n].pc = "accepted", ![o][n].message = message]
                \in [Orders -> [Calls -> CallType]]
  <2> DEFINE x == [call[o][n] EXCEPT !.pc = "accepted", !.message = message]
  <2>1. x \in CallType
    BY <1>0, CallUpdate
  <2>2. [call EXCEPT ![o][n].pc = "accepted", ![o][n].message = message] =
        [call EXCEPT ![o][n] = x]
    BY <1>0, TypeParts
  <2> HIDE DEF x
  <2>3. [call EXCEPT ![o][n] = x] \in [Orders -> [Calls -> CallType]]
    BY <1>0, <2>1, CallsUpdate
  <2> QED
    BY <2>2, <2>3
<1> QED
  BY <1>0, <1>1, <1>2, <1>3, <1>4, <1>5, TypeParts DEF Answers, Refuses, Proceeds

\* A step of a signer's call keeps the types of what the API has.
LEMMA InnerTypes ==
    ASSUME TypeInv,
           call' \in [Orders -> [Calls -> CallType]], session' \in [Orders -> SessionType],
           cache' \in [Orders -> Messages], queue' \in Seq(Orders \X Calls),
           file' \in [Orders -> FileType], ledger' \in [Orders -> EntryType],
           sent' \subseteq Messages, \A m \in sent' : m.order \in Orders,
           sent \subseteq sent', mined' = mined,
           adrift' \subseteq Orders, unsure' \subseteq Orders, requoted' \subseteq Orders,
           rare' \in 0..MaxRare,
           UNCHANGED <<signer, rows, overlap>>
    PROVE  TypeInv'
BY DEF TypeInv, TonTypeOK, CallType, SessionType, FileType, EntryType, rows

LEMMA RareType == ASSUME TonTypeOK, Rare \/ UNCHANGED rare PROVE rare' \in 0..MaxRare
BY TonAssumption DEF TonTypeOK, Rare

LEMMA SessionTypes ==
    ASSUME TonTypeOK, NEW o \in Orders
    PROVE  /\ Close(o) => session' \in [Orders -> SessionType]
           /\ \A x \in SessionType : [session EXCEPT ![o] = x] \in [Orders -> SessionType]
BY TypeParts, MessageFacts DEF Close

LEMMA OpenType ==
    ASSUME TypeInv, NEW o \in Orders, Open(o)
    PROVE  TypeInv'
<1>1. InFlight(o) \subseteq HotWallets \cup {0} /\ Today \subseteq Orders
  BY DEF InFlight, Today, TypeInv, TonTypeOK
<1>2. [Closed EXCEPT !.pc = "open", !.flight = InFlight(o), !.today = Today] \in SessionType
  BY <1>1, MessageFacts DEF SessionType, Closed
<1>3. session' \in [Orders -> SessionType]
  BY <1>2, TypeParts DEF Open, TypeInv
<1> QED
  BY <1>3 DEF Open, TypeInv, TonTypeOK, SessionType, rows, node, chain, history

LEMMA FirstType == First \in HotWallets
<1> DEFINE Less == {x \in Nat \X Nat : x[1] < x[2]}
<1>1. IsWellFoundedOn(Less, Nat)
  <2>1. Less = OpToRel(<, Nat)
    BY DEF OpToRel
  <2> QED
    BY <2>1, NatLessThanWellFounded
<1>2. PICK w \in HotWallets : \A v \in HotWallets : ~ <<v, w>> \in Less
  BY <1>1, TonAssumption, WFMin
<1>3. ASSUME NEW v \in HotWallets PROVE w <= v
  <2>1. v \in Nat /\ w \in Nat /\ ~ <<v, w>> \in Less
    BY <1>2, TonAssumption
  <2>2. ~(v < w)
    BY <2>1
  <2> QED
    BY <2>1, <2>2
<1> QED
  BY <1>3 DEF First

LEMMA ReviewType ==
    ASSUME TypeInv, NEW o \in Orders, Review(o)
    PROVE  TypeInv'
<1>1. session' \in [Orders -> SessionType]
  BY SessionTypes DEF Review, TypeInv
<1>2. tx' \in [Orders -> TxType]
  <2>1. [tx[o] EXCEPT !.status = "MANUAL_REVIEW", !.wallet = First] \in TxType
    BY TypeParts, FirstType DEF TypeInv, TxType, Status
  <2>2. tx' = tx \/ tx' = [tx EXCEPT ![o] =
              [tx[o] EXCEPT !.status = "MANUAL_REVIEW", !.wallet = First]]
    BY TypeParts DEF Review, TypeInv
  <2> QED
    BY <2>1, <2>2, TypeParts DEF TypeInv
<1>3. schema' \in [Schemas -> {"unknown", "disabled", "enabled"}]
  <2>1. schema \in [Schemas -> {"unknown", "disabled", "enabled"}]
    BY DEF TypeInv, TonTypeOK
  <2>2. schema' = schema \/ \E s \in Schemas : schema' = [schema EXCEPT ![s] = "disabled"]
    BY DEF Review
  <2> QED
    BY <2>1, <2>2
<1> QED
  BY <1>1, <1>2, <1>3 DEF Review, TypeInv, TonTypeOK, TxType, SessionType, node, chain, history

LEMMA ReserveType ==
    ASSUME TypeInv, NEW o \in Orders, NEW s \in Schemas, NEW w \in HotWallets,
           NEW amount \in Amounts, Reserve(o, s, w, amount)
    PROVE  TypeInv'
<1>0. TonTypeOK /\ amount \in Nat
  BY TonAssumption DEF TypeInv
<1>1. PICK n \in NextCall(o) :
        /\ session' = [session EXCEPT ![o] =
             [@ EXCEPT !.pc = IF signer = "mock" THEN "answered" ELSE "signing",
                       !.schema = s, !.wallet = w, !.amount = amount, !.call = n,
                       !.locks = {v \in active : ~Locked(v)}]]
        /\ call' = [call EXCEPT ![o][n] =
             IF signer = "mock" THEN DoneCall
             ELSE [NoCall EXCEPT !.pc = "received", !.wallet = w, !.amount = amount]]
        /\ queue' = IF signer = "node" THEN Append(queue, <<o, n>>) ELSE queue
  BY DEF Reserve
<1>2. n \in Calls
  BY DEF NextCall
<1>3. session' \in [Orders -> SessionType]
  <2>1. \A pc \in {"signing", "answered"}, locks \in SUBSET HotWallets :
           [session[o] EXCEPT !.pc = pc, !.schema = s, !.wallet = w, !.amount = amount,
                              !.call = n, !.locks = locks] \in SessionType
    <3>1. session[o] \in SessionType
      BY <1>0, TypeParts
    <3> QED
      BY <1>0, <1>2, <3>1 DEF SessionType
  <2>2. {v \in active : ~Locked(v)} \subseteq HotWallets
    BY <1>0 DEF TonTypeOK
  <2>3. \E pc \in {"signing", "answered"}, locks \in SUBSET HotWallets :
           session' = [session EXCEPT ![o] =
              [session[o] EXCEPT !.pc = pc, !.schema = s, !.wallet = w, !.amount = amount,
                                 !.call = n, !.locks = locks]]
    BY <1>0, <1>1, <2>2, TypeParts
  <2>4. \E x \in SessionType : session' = [session EXCEPT ![o] = x]
    BY <2>1, <2>3
  <2> QED
    BY <1>0, <2>4, SessionTypes
<1>4. call' \in [Orders -> [Calls -> CallType]]
  BY <1>0, <1>1, <1>2, CallUpdate, CallsUpdate, MessageFacts
<1>5. queue' \in Seq(Orders \X Calls)
  BY <1>0, <1>1, <1>2 DEF TonTypeOK
<1>6. overlap' \subseteq Orders
  BY <1>0 DEF Reserve, TonTypeOK
<1> QED
  BY <1>3, <1>4, <1>5, <1>6
     DEF Reserve, TypeInv, TonTypeOK, SessionType, CallType, rows, chain

LEMMA CommitType ==
    ASSUME TypeInv, NEW o \in Orders, Commit(o)
    PROVE  TypeInv'
<1>0. TonTypeOK /\ session[o] \in SessionType
  BY TypeParts DEF TypeInv
<1>1. session' \in [Orders -> SessionType]
  BY <1>0, SessionTypes DEF Commit
<1>2. tx' \in [Orders -> TxType]
  <2>1. \A status \in Status :
           [status |-> status, wallet |-> session[o].wallet, amount |-> session[o].amount,
            message |-> session[o].answer] \in TxType
    BY <1>0 DEF SessionType, TxType
  <2>2. \E status \in Status : tx' = [tx EXCEPT ![o] =
           [status |-> status, wallet |-> session[o].wallet, amount |-> session[o].amount,
            message |-> session[o].answer]]
    BY DEF Commit, Status, Broadcast
  <2> QED
    BY <1>0, <2>1, <2>2, TypeParts
<1>3. spent' \in [HotWallets -> Nat]
  <2>1. spent \in [HotWallets -> Nat] /\ session[o].amount \in Nat
    BY <1>0 DEF TonTypeOK, SessionType
  <2>2. spent' = spent \/ spent' = [spent EXCEPT ![session[o].wallet] = @ + session[o].amount]
    BY DEF Commit
  <2> QED
    BY <2>1, <2>2
<1> QED
  BY <1>1, <1>2, <1>3
     DEF Commit, TypeInv, TonTypeOK, SessionType, TxType, node, chain, history

LEMMA RollbackType ==
    ASSUME TypeInv, NEW o \in Orders, Rollback(o)
    PROVE  TypeInv'
<1>1. session' \in [Orders -> SessionType]
  BY SessionTypes DEF Rollback, TypeInv
<1>2. unsure' \subseteq Orders /\ adrift' \subseteq Orders /\ rare' \in 0..MaxRare
  BY RareType DEF Rollback, TypeInv, TonTypeOK
<1> QED
  BY <1>1, <1>2 DEF Rollback, TypeInv, TonTypeOK, SessionType, rows, node, chain

LEMMA AllFailTypes ==
    ASSUME TonTypeOK, AllFail
    PROVE  /\ call' \in [Orders -> [Calls -> CallType]]
           /\ session' \in [Orders -> SessionType] /\ adrift' \subseteq Orders
<1>1. adrift' \subseteq Orders
  BY DEF AllFail, TonTypeOK
<1> QED
  BY <1>1, TypeParts, MessageFacts DEF AllFail

LEMMA PythonTypes ==
    ASSUME TypeInv, NEW o \in Orders, NEW n \in Calls, PythonStep(o, n)
    PROVE  TypeInv'
<1>0. /\ TonTypeOK /\ call[o][n] \in CallType
      /\ call \in [Orders -> [Calls -> CallType]] /\ session \in [Orders -> SessionType]
      /\ file \in [Orders -> FileType] /\ ledger \in [Orders -> EntryType]
  BY TypeParts DEF TypeInv
<1>1. /\ cache \in [Orders -> Messages] /\ queue \in Seq(Orders \X Calls)
      /\ sent \subseteq Messages /\ adrift \subseteq Orders /\ unsure \subseteq Orders
      /\ requoted \subseteq Orders /\ rare \in 0..MaxRare
      /\ \A m \in sent : m.order \in Orders
  BY <1>0 DEF TonTypeOK, TypeInv
<1>2. call[o][n].message \in Messages
  BY <1>0 DEF CallType
<1> DEFINE Typed == /\ call' \in [Orders -> [Calls -> CallType]]
                    /\ session' \in [Orders -> SessionType] /\ adrift' \subseteq Orders
<1>3. ASSUME PythonReceives(o, n) PROVE TypeInv'
  <2>1. Typed
    BY <1>1, <1>3, AnswerTypes DEF PythonReceives, Stage
  <2> QED
    BY <1>0, <1>1, <1>3, <2>1, InnerTypes DEF PythonReceives, pythonOnly, chain, node
<1>4. ASSUME PythonPosts(o, n) PROVE TypeInv'
  <2> DEFINE seqno == Seqno(call[o][n].wallet)
  <2>1. Message(o, n, seqno) \in Messages /\ Message(o, n, seqno).order = o
    BY SeqnoType, MessageType
  <2>2. Typed
    <3>1. ASSUME UNCHANGED <<session, adrift>>,
                 call' = [call EXCEPT ![o][n].pc = "accepted", ![o][n].message = Message(o, n, seqno)]
          PROVE  Typed
      BY <1>0, <1>1, <2>1, <3>1, AnswerTypes
    <3>2. ASSUME Refuses(o, n) PROVE Typed
      BY <3>2, AnswerTypes
    <3> QED
      BY <1>4, <3>1, <3>2 DEF PythonPosts
  <2>3. rare' \in 0..MaxRare
    BY <1>0, <1>4, RareType DEF PythonPosts
  <2> QED
    BY <1>0, <1>1, <1>4, <2>1, <2>2, <2>3, InnerTypes DEF PythonPosts, pythonOnly, node
<1>5. ASSUME PythonAnswers(o, n) PROVE TypeInv'
  <2>1. Typed
    BY <1>2, <1>5, AnswerTypes DEF PythonAnswers
  <2>2. rare' \in 0..MaxRare
    BY <1>0, <1>5, RareType DEF PythonAnswers
  <2>3. cache' \in [Orders -> Messages] /\ unsure' \subseteq Orders
    BY <1>1, <1>2, <1>5 DEF PythonAnswers
  <2> QED
    BY <1>0, <1>1, <1>5, <2>1, <2>2, <2>3, InnerTypes DEF PythonAnswers, pythonOnly, chain, node
<1> QED
  BY <1>3, <1>4, <1>5 DEF PythonStep

LEMMA PythonRestartsType ==
    ASSUME TypeInv, PythonRestarts
    PROVE  TypeInv'
<1>0. /\ TonTypeOK
      /\ file \in [Orders -> FileType] /\ ledger \in [Orders -> EntryType]
  BY TypeParts DEF TypeInv
<1>1. /\ queue \in Seq(Orders \X Calls) /\ sent \subseteq Messages /\ requoted \subseteq Orders
      /\ \A m \in sent : m.order \in Orders
      /\ {m.order : m \in sent} \cup unsure \subseteq Orders
  BY <1>0 DEF TonTypeOK, TypeInv
<1> QED
  BY <1>0, <1>1, AllFailTypes, RareType, InnerTypes, MessageFacts
     DEF PythonRestarts, chain, node

LEMMA NodeTypes ==
    ASSUME TypeInv, NEW o \in Orders, NEW n \in Calls, NodeStep(o, n)
    PROVE  TypeInv'
<1>0. /\ TonTypeOK /\ call[o][n] \in CallType
      /\ call \in [Orders -> [Calls -> CallType]] /\ session \in [Orders -> SessionType]
      /\ file \in [Orders -> FileType] /\ ledger \in [Orders -> EntryType]
  BY TypeParts DEF TypeInv
<1>1. /\ cache \in [Orders -> Messages] /\ queue \in Seq(Orders \X Calls)
      /\ sent \subseteq Messages /\ adrift \subseteq Orders /\ unsure \subseteq Orders
      /\ requoted \subseteq Orders /\ rare \in 0..MaxRare
      /\ \A m \in sent : m.order \in Orders
  BY <1>0 DEF TonTypeOK, TypeInv
<1>2. call[o][n].message \in Messages /\ call[o][n].amount \in Nat /\ file[o].message \in Messages
  BY <1>0 DEF CallType, FileType
<1>3. /\ \A status \in {"pending", "unknown"} :
            [file EXCEPT ![o].status = status] \in [Orders -> FileType]
      /\ \A message \in Messages :
            [file EXCEPT ![o] = [status |-> "completed", message |-> message]]
               \in [Orders -> FileType]
  BY <1>0 DEF FileType
<1>4. /\ \A status \in {"pending", "sent", "unknown"} :
            [ledger EXCEPT ![o].status = status] \in [Orders -> EntryType]
      /\ \A amount \in Nat : [ledger EXCEPT ![o] = [status |-> "pending", amount |-> amount]]
                                \in [Orders -> EntryType]
  BY <1>0 DEF EntryType
<1>5. ASSUME Ends, Served(o, n) PROVE queue' \in Seq(Orders \X Calls)
  BY <1>1, <1>5 DEF Ends, Served
<1> DEFINE Typed == /\ call' \in [Orders -> [Calls -> CallType]]
                    /\ session' \in [Orders -> SessionType] /\ adrift' \subseteq Orders
<1>6. ASSUME NodeReceives(o, n) PROVE TypeInv'
  <2>1. Typed
    BY <1>2, <1>6, AnswerTypes DEF NodeReceives, Stage
  <2>2. queue' \in Seq(Orders \X Calls)
    BY <1>1, <1>5, <1>6 DEF NodeReceives, At
  <2> QED
    BY <1>0, <1>1, <1>6, <2>1, <2>2, InnerTypes DEF NodeReceives, nodeOnly
<1>7. ASSUME NodeReserves(o, n) PROVE TypeInv'
  <2>1. Typed
    BY <1>7, AnswerTypes DEF NodeReserves, Stage
  <2>2. queue' \in Seq(Orders \X Calls)
    BY <1>1, <1>5, <1>7 DEF NodeReserves, At
  <2>3. ledger' \in [Orders -> EntryType] /\ requoted' \subseteq Orders
    BY <1>0, <1>1, <1>2, <1>4, <1>7 DEF NodeReserves
  <2> QED
    BY <1>0, <1>1, <1>7, <2>1, <2>2, <2>3, InnerTypes DEF NodeReserves, nodeOnly
<1>8. ASSUME NodeWritesPending(o, n) PROVE TypeInv'
  <2>1. Typed
    BY <1>8, AnswerTypes DEF NodeWritesPending, Stage
  <2> QED
    BY <1>0, <1>1, <1>3, <1>8, <2>1, InnerTypes DEF NodeWritesPending, nodeOnly
<1>9. ASSUME NodeFails(o, n), Served(o, n)
      PROVE  /\ Typed /\ queue' \in Seq(Orders \X Calls)
             /\ file' \in [Orders -> FileType] /\ ledger' \in [Orders -> EntryType]
             /\ rare' \in 0..MaxRare
  BY <1>0, <1>3, <1>4, <1>5, <1>9, AnswerTypes, RareType DEF NodeFails
<1>10. ASSUME NodePosts(o, n) PROVE TypeInv'
  <2>1. ASSUME NEW seqno \in Nat
        PROVE  Message(o, n, seqno) \in Messages /\ Message(o, n, seqno).order = o
    BY MessageType
  <2>2. ASSUME NEW seqno \in Nat, sent' = sent \cup {Message(o, n, seqno)},
               call' = [call EXCEPT ![o][n].pc = "accepted", ![o][n].message = Message(o, n, seqno)],
               UNCHANGED <<session, adrift, queue, ledger, file, rare>>
        PROVE  TypeInv'
    <3>1. Typed
      BY <1>0, <1>1, <2>1, <2>2, AnswerTypes
    <3> QED
      BY <1>0, <1>1, <1>10, <2>1, <2>2, <3>1, InnerTypes DEF NodePosts, nodeOnly
  <2>3. CASE NodeFails(o, n) /\ UNCHANGED sent
    BY <1>0, <1>1, <1>9, <1>10, <2>3, InnerTypes DEF NodePosts, At, nodeOnly
  <2> QED
    BY <1>10, <2>2, <2>3, SeqnoType DEF NodePosts
<1>11. ASSUME NodeUpdatesLedger(o, n) PROVE TypeInv'
  <2>1. CASE /\ ledger' = [ledger EXCEPT ![o].status = "sent"]
             /\ Proceeds(o, n, "ledgered") /\ UNCHANGED <<queue, file, rare>>
    <3>1. Typed
      BY <2>1, AnswerTypes DEF Stage
    <3> QED
      BY <1>0, <1>1, <1>4, <1>11, <2>1, <3>1, InnerTypes DEF NodeUpdatesLedger, nodeOnly
  <2>2. CASE NodeFails(o, n)
    BY <1>0, <1>1, <1>9, <1>11, <2>2, InnerTypes DEF NodeUpdatesLedger, At, nodeOnly
  <2> QED
    BY <1>11, <2>1, <2>2 DEF NodeUpdatesLedger
<1>12. ASSUME NodeAnswers(o, n) PROVE TypeInv'
  <2>1. Typed
    BY <1>2, <1>12, AnswerTypes DEF NodeAnswers
  <2>2. queue' \in Seq(Orders \X Calls)
    BY <1>5, <1>12 DEF NodeAnswers, At
  <2> QED
    BY <1>0, <1>1, <1>2, <1>3, <1>12, <2>1, <2>2, InnerTypes DEF NodeAnswers, nodeOnly
<1> QED
  BY <1>6, <1>7, <1>8, <1>10, <1>11, <1>12 DEF NodeStep

LEMMA NodeRestartsType ==
    ASSUME TypeInv, NodeRestarts
    PROVE  TypeInv'
<1>0. /\ TonTypeOK
      /\ file \in [Orders -> FileType] /\ ledger \in [Orders -> EntryType]
  BY TypeParts DEF TypeInv
<1>1. /\ cache \in [Orders -> Messages] /\ sent \subseteq Messages /\ requoted \subseteq Orders
      /\ unsure \subseteq Orders /\ \A m \in sent : m.order \in Orders
  BY <1>0 DEF TonTypeOK, TypeInv
<1>2. queue' \in Seq(Orders \X Calls)
  BY DEF NodeRestarts
<1> QED
  BY <1>0, <1>1, <1>2, AllFailTypes, RareType, InnerTypes DEF NodeRestarts, nodeOnly

LEMMA ChainTypes ==
    ASSUME TypeInv,
           \/ \E m \in sent : Mine(m)
           \/ \E o \in Orders : Reconcile(o)
           \/ \E w \in HotWallets : UpdateHotWallet(w)
           \/ \E s \in Schemas : UpdateSchema(s)
    PROVE  TypeInv'
<1>0. TonTypeOK
  BY DEF TypeInv
<1>1. ASSUME NEW m \in sent, Mine(m) PROVE TypeInv'
  <2>1. IsFiniteSet(mined')
    BY <1>1, FS_AddElement DEF Mine, TypeInv
  <2> QED
    BY <1>1, <2>1 DEF Mine, TypeInv, TonTypeOK, rows, node, history
<1>2. ASSUME NEW o \in Orders, Reconcile(o) PROVE TypeInv'
  <2>1. tx' \in [Orders -> TxType]
    BY <1>0, <1>2, TypeParts DEF Reconcile, TxType, Status, Broadcast
  <2> QED
    BY <1>2, <2>1 DEF Reconcile, TypeInv, TonTypeOK, TxType, node, chain, history
<1>3. ASSUME NEW w \in HotWallets, UpdateHotWallet(w) PROVE TypeInv'
  <2>1. active' \subseteq HotWallets /\ rare' \in 0..MaxRare
    BY <1>0, <1>3, RareType DEF UpdateHotWallet, TonTypeOK
  <2> QED
    BY <1>3, <2>1 DEF UpdateHotWallet, TypeInv, TonTypeOK, node, chain, history
<1>4. ASSUME NEW s \in Schemas, UpdateSchema(s) PROVE TypeInv'
  <2>1. schema' \in [Schemas -> {"unknown", "disabled", "enabled"}]
    <3>1. schema \in [Schemas -> {"unknown", "disabled", "enabled"}]
      BY <1>0 DEF TonTypeOK
    <3> QED
      BY <1>4, <3>1 DEF UpdateSchema
  <2>2. rare' \in 0..MaxRare
    BY <1>0, <1>4, RareType DEF UpdateSchema
  <2> QED
    BY <1>4, <2>1, <2>2 DEF UpdateSchema, TypeInv, TonTypeOK, node, chain, history
<1> QED
  BY <1>1, <1>2, <1>3, <1>4

LEMMA TypeStep == TypeInv /\ [TonNext]_vars => TypeInv'
<1> SUFFICES ASSUME TypeInv, [TonNext]_vars PROVE TypeInv'
  OBVIOUS
<1>1. ASSUME NEW o \in Orders, GiveUp(o) PROVE TypeInv'
  <2>1. session' \in [Orders -> SessionType]
    BY <1>1, SessionTypes DEF GiveUp, TypeInv
  <2> QED
    BY <1>1, <2>1 DEF GiveUp, TypeInv, TonTypeOK, SessionType, rows, node, chain, history
<1>2. ASSUME NEW o \in Orders, SessionStep(o) PROVE TypeInv'
  BY <1>1, <1>2, OpenType, ReviewType, CommitType, RollbackType, ReserveType DEF SessionStep
<1>3. CASE UNCHANGED vars
  BY <1>3 DEF vars, rows, node, chain, history, TypeInv, TonTypeOK
<1> QED
  BY <1>2, <1>3, PythonTypes, NodeTypes, PythonRestartsType, NodeRestartsType, ChainTypes
     DEF TonNext

LEMMA InitTypes == TonInit => TypeInv
<1> SUFFICES ASSUME TonInit PROVE TypeInv
  OBVIOUS
<1>1. TonTypeOK
  BY MessageFacts, TonAssumption
     DEF TonInit, TonTypeOK, TxType, SessionType, CallType, FileType, EntryType
<1> QED
  BY <1>1, FS_EmptySet DEF TonInit, TypeInv

LEMMA TypeInvariant == TonSpec => []TypeInv
BY InitTypes, TypeStep, PTL DEF TonSpec

\* The rows, the transactions, the calls, the signers' files and messages are of
\* their types in every reachable state, whatever the orders, hot wallets,
\* amounts and limits.
THEOREM TonTypes == TonSpec => []TonTypeOK
<1>1. TypeInv => TonTypeOK
  BY DEF TypeInv
<1> QED
  BY <1>1, TypeInvariant, PTL

----------------------------------------------------------------------------
(* What keeps an order from being paid twice.                              *)

Alone(o) == \A m1, m2 \in sent : m1.order = o /\ m2.order = o => m1 = m2

\* The Python signer has not lost track of the order: one call at most is in
\* service, the one the API waits for, and what was sent is kept or about to be.
Tracked(o) ==
    /\ \A n \in Calls :
          /\ InService(o, n) => Listening(o, n)
          /\ call[o][n].pc = "checked" => cache[o] = NoMessage
          /\ call[o][n].pc = "accepted" =>
                call[o][n].message \in sent /\ call[o][n].message.order = o
    /\ \A m \in sent : m.order = o => \/ cache[o] = m
                                      \/ \E n \in Calls : call[o][n].pc = "accepted"
    /\ Alone(o)

\* The Node signer's file of the order says whether it may have sent something.
Filed(o) ==
    /\ file[o].status = "none" => \A m \in sent : m.order # o
    /\ \A n \in Calls :
          /\ call[o][n].pc \in {"locked", "reserved"} => file[o].status = "none"
          /\ call[o][n].pc = "pending" =>
                file[o].status # "none" /\ \A m \in sent : m.order # o
    /\ Alone(o)

\* It serves the first call of its queue.
OneServed ==
    \A o \in Orders, n \in Calls :
        call[o][n].pc \in {"locked", "reserved", "pending", "accepted", "ledgered"} =>
            queue # <<>> /\ Head(queue) = <<o, n>>

PayInv ==
    /\ TypeInv
    /\ signer = "mock" => sent = {}
    /\ signer = "python" => \A o \in Orders \ unsure : Tracked(o)
    /\ signer = "node" => OneServed /\ \A o \in Orders : Filed(o)

\* The calls other than one are as they were.
OtherCalls(o, n) ==
    \A p \in Orders, k \in Calls : p # o \/ k # n => call'[p][k] = call[p][k]

LEMMA CallMoves ==
    ASSUME TypeInv, NEW o \in Orders, NEW n \in Calls
    PROVE  /\ \A x \in CallType : call' = [call EXCEPT ![o][n] = x] =>
                 call'[o][n] = x /\ OtherCalls(o, n)
           /\ Finished(o, n) => call'[o][n].pc = "done" /\ OtherCalls(o, n)
           /\ \A pc : Proceeds(o, n, pc) =>
                 /\ call'[o][n].pc = pc /\ call'[o][n].message = call[o][n].message
                 /\ OtherCalls(o, n) /\ session' = session
           /\ \A message :
                 call' = [call EXCEPT ![o][n].pc = "accepted", ![o][n].message = message] =>
                    /\ call'[o][n].pc = "accepted" /\ call'[o][n].message = message
                    /\ OtherCalls(o, n)
<1>0. call \in [Orders -> [Calls -> CallType]] /\ call[o][n] \in CallType
  BY TypeParts DEF TypeInv
<1>1. ASSUME NEW x, call' = [call EXCEPT ![o][n] = x]
      PROVE  call'[o][n] = x /\ OtherCalls(o, n)
  BY <1>0, <1>1 DEF OtherCalls
<1>2. ASSUME Finished(o, n) PROVE call'[o][n].pc = "done" /\ OtherCalls(o, n)
  <2>1. DoneCall.pc = "done"
    BY DEF DoneCall, NoCall
  <2> QED
    BY <1>1, <1>2, <2>1 DEF Finished
<1>3. ASSUME NEW pc, Proceeds(o, n, pc)
      PROVE  /\ call'[o][n].pc = pc /\ call'[o][n].message = call[o][n].message
             /\ OtherCalls(o, n) /\ session' = session
  <2> DEFINE x == [call[o][n] EXCEPT !.pc = pc]
  <2>1. x.pc = pc /\ x.message = call[o][n].message
    BY <1>0 DEF CallType
  <2>2. call' = [call EXCEPT ![o][n] = x] /\ session' = session
    BY <1>0, <1>3 DEF Proceeds
  <2> HIDE DEF x
  <2> QED
    BY <1>1, <2>1, <2>2
<1>4. ASSUME NEW message,
             call' = [call EXCEPT ![o][n].pc = "accepted", ![o][n].message = message]
      PROVE  /\ call'[o][n].pc = "accepted" /\ call'[o][n].message = message
             /\ OtherCalls(o, n)
  <2> DEFINE x == [call[o][n] EXCEPT !.pc = "accepted", !.message = message]
  <2>1. x.pc = "accepted" /\ x.message = message
    BY <1>0 DEF CallType
  <2>2. call' = [call EXCEPT ![o][n] = x]
    BY <1>0, <1>4
  <2> HIDE DEF x
  <2> QED
    BY <1>1, <2>1, <2>2
<1> QED
  BY <1>1, <1>2, <1>3, <1>4

\* An answer or a refusal changes one order's transaction.
LEMMA SessionMoves ==
    ASSUME TypeInv, NEW o \in Orders, NEW n \in Calls, NEW message,
           Answers(o, n, message) \/ Refuses(o, n)
    PROVE  \A p \in Orders \ {o} : session'[p] = session[p]
BY TypeParts DEF Answers, Refuses, TypeInv

LEMMA TrackedKept ==
    ASSUME NEW o \in Orders, Tracked(o),
           \A n \in Calls : call'[o][n] = call[o][n],
           session'[o] = session[o], cache'[o] = cache[o],
           \A m : m.order = o => (m \in sent' <=> m \in sent)
    PROVE  Tracked(o)'
BY DEF Tracked, Alone, InService, Listening

LEMMA FiledKept ==
    ASSUME NEW o \in Orders, Filed(o),
           \A n \in Calls : call'[o][n] = call[o][n], file'[o] = file[o],
           \A m : m.order = o => (m \in sent' <=> m \in sent)
    PROVE  Filed(o)'
BY DEF Filed, Alone

----------------------------------------------------------------------------
(* The Python signer.                                                      *)

\* The end of the one call that is in service.
LEMMA PythonEnds ==
    ASSUME TypeInv, NEW o \in Orders, NEW n \in Calls, Tracked(o),
           InService(o, n), Finished(o, n), UNCHANGED sent,
           \A m \in sent : m.order = o => cache'[o] = m
    PROVE  Tracked(o)'
<1>1. \A k \in Calls \ {n} : ~InService(o, k)
  BY DEF Tracked, Listening
<1>2. \A k \in Calls : ~InService(o, k)'
  <2>1. call'[o][n].pc = "done" /\ OtherCalls(o, n)
    BY CallMoves
  <2> QED
    BY <1>1, <2>1 DEF InService, OtherCalls
<1>3. \A k \in Calls : call'[o][k].pc \notin {"checked", "accepted"}
  BY <1>2 DEF InService
<1> QED
  BY <1>2, <1>3 DEF Tracked, Alone

\* A call that is not accepted yet: what was sent is kept.
LEMMA PythonKept ==
    ASSUME NEW o \in Orders, NEW n \in Calls, Tracked(o),
           call[o][n].pc \in {"received", "checked"}
    PROVE  /\ \A m \in sent : m.order = o => cache[o] = m
           /\ \A k \in Calls \ {n} : ~InService(o, k)
<1>1. \A k \in Calls \ {n} : ~InService(o, k)
  BY DEF Tracked, InService, Listening
<1>2. \A k \in Calls : call[o][k].pc # "accepted"
  BY <1>1 DEF InService
<1> QED
  BY <1>1, <1>2 DEF Tracked

LEMMA ReceivesTracked ==
    ASSUME TypeInv, NEW o \in Orders, NEW n \in Calls, PythonReceives(o, n), Tracked(o)
    PROVE  Tracked(o)'
<1>1. call[o][n].pc = "received" /\ UNCHANGED <<cache, sent>>
  BY DEF PythonReceives, chain
<1>2. /\ \A m \in sent : m.order = o => cache[o] = m
      /\ \A k \in Calls \ {n} : ~InService(o, k)
  BY <1>1, PythonKept
<1>3. CASE Finished(o, n)
  BY <1>1, <1>2, <1>3, PythonEnds DEF InService
<1>4. CASE cache[o] = NoMessage /\ Proceeds(o, n, "checked")
  <2>1. call'[o][n].pc = "checked" /\ OtherCalls(o, n) /\ session' = session
    BY <1>4, CallMoves
  <2>2. \A k \in Calls : InService(o, k)' => k = n
    BY <1>2, <2>1 DEF InService, OtherCalls
  <2>3. \A k \in Calls : call'[o][k].pc # "accepted"
    BY <2>1, <2>2 DEF InService
  <2>4. Listening(o, n)'
    BY <1>1, <2>1 DEF Tracked, InService, Listening
  <2> QED
    BY <1>1, <1>2, <1>4, <2>2, <2>3, <2>4 DEF Tracked, Alone
<1> QED
  BY <1>3, <1>4 DEF PythonReceives, Answers, Refuses

LEMMA PostsTracked ==
    ASSUME TypeInv, NEW o \in Orders, NEW n \in Calls, PythonPosts(o, n), Tracked(o)
    PROVE  Tracked(o)'
<1>1. call[o][n].pc = "checked" /\ UNCHANGED cache /\ cache[o] = NoMessage
  BY DEF PythonPosts, Tracked
<1>2. /\ \A m \in sent : m.order = o => cache[o] = m
      /\ \A k \in Calls \ {n} : ~InService(o, k)
  BY <1>1, PythonKept
<1>3. \A m \in sent : m.order # o
  BY <1>1, <1>2, TonAssumption DEF NoMessage
<1>4. CASE Finished(o, n) /\ UNCHANGED sent
  BY <1>1, <1>2, <1>4, PythonEnds DEF InService
<1> DEFINE seqno == Seqno(call[o][n].wallet)
<1>5. CASE /\ sent' = sent \cup {Message(o, n, seqno)} /\ UNCHANGED session
           /\ call' = [call EXCEPT ![o][n].pc = "accepted", ![o][n].message = Message(o, n, seqno)]
  <2>1. call'[o][n].pc = "accepted" /\ call'[o][n].message = Message(o, n, seqno) /\ OtherCalls(o, n)
    BY <1>5, CallMoves
  <2>2. Message(o, n, seqno).order = o
    BY SeqnoType, MessageType
  <2>3. \A k \in Calls : InService(o, k)' => k = n
    BY <1>2, <2>1 DEF InService, OtherCalls
  <2>4. \A k \in Calls : InService(o, k)' => Listening(o, k)'
    BY <1>1, <1>5, <2>3 DEF Tracked, InService, Listening
  <2>5. \A k \in Calls : call'[o][k].pc \in {"checked", "accepted"} => k = n
    BY <2>3 DEF InService
  <2>6. Alone(o)'
    BY <1>3, <1>5 DEF Alone
  <2>7. call'[o][n].message \in sent' /\ call'[o][n].message.order = o
    BY <1>5, <2>1, <2>2
  <2>8. ASSUME NEW k \in Calls, call'[o][k].pc \in {"checked", "accepted"}
        PROVE  call'[o][k].pc = "accepted" /\ call'[o][k] = call'[o][n]
    BY <2>1, <2>5, <2>8
  <2> QED
    BY <2>1, <2>4, <2>6, <2>7, <2>8 DEF Tracked
<1> QED
  BY <1>4, <1>5 DEF PythonPosts, Refuses

LEMMA AnswersTracked ==
    ASSUME TypeInv, NEW o \in Orders, NEW n \in Calls, PythonAnswers(o, n), Tracked(o),
           o \notin unsure'
    PROVE  Tracked(o)'
<1>1. /\ call[o][n].pc = "accepted" /\ UNCHANGED sent /\ Finished(o, n)
      /\ cache' = [cache EXCEPT ![o] = call[o][n].message]
  BY DEF PythonAnswers, Answers, chain
<1>2. cache'[o] = call[o][n].message
  BY <1>1 DEF TypeInv, TonTypeOK
<1>3. \A m \in sent : m.order = o => m = call[o][n].message
  BY <1>1 DEF Tracked, Alone
<1> QED
  BY <1>1, <1>2, <1>3, PythonEnds DEF InService

LEMMA PythonKeepsOthers ==
    ASSUME TypeInv, NEW o \in Orders, NEW n \in Calls, PythonStep(o, n),
           NEW p \in Orders \ {o}, Tracked(p)
    PROVE  Tracked(p)'
<1>1. OtherCalls(o, n)
  BY CallMoves DEF PythonStep, PythonReceives, PythonPosts, PythonAnswers, Answers, Refuses
<1>2. session'[p] = session[p]
  BY SessionMoves DEF PythonStep, PythonReceives, PythonPosts, PythonAnswers, Proceeds
<1>3. cache'[p] = cache[p]
  BY DEF PythonStep, PythonReceives, PythonPosts, PythonAnswers, TypeInv, TonTypeOK
<1>4. \A m : m.order = p => (m \in sent' <=> m \in sent)
  <2> DEFINE seqno == Seqno(call[o][n].wallet)
  <2>1. sent' = sent \/ sent' = sent \cup {Message(o, n, seqno)}
    BY DEF PythonStep, PythonReceives, PythonPosts, PythonAnswers, chain
  <2> QED
    BY <2>1, SeqnoType, MessageType
<1> QED
  BY <1>1, <1>2, <1>3, <1>4, TrackedKept DEF OtherCalls

LEMMA PythonTracks ==
    ASSUME PayInv, NEW o \in Orders, NEW n \in Calls, PythonStep(o, n)
    PROVE  \A p \in Orders \ unsure' : Tracked(p)'
<1>1. signer = "python" /\ TypeInv /\ unsure \subseteq unsure'
  BY DEF PayInv, PythonStep, PythonReceives, PythonPosts, PythonAnswers
<1>2. ASSUME NEW p \in Orders \ unsure' PROVE Tracked(p)'
  <2>1. Tracked(p)
    BY <1>1, <1>2 DEF PayInv
  <2>2. CASE p # o
    BY <1>1, <2>1, <2>2, PythonKeepsOthers
  <2>3. CASE p = o
    BY <1>1, <1>2, <2>1, <2>3, ReceivesTracked, PostsTracked, AnswersTracked DEF PythonStep
  <2> QED
    BY <2>2, <2>3
<1> QED
  BY <1>2

LEMMA AllFailFacts ==
    ASSUME AllFail
    PROVE  \A o \in Orders, n \in Calls :
              ~InService(o, n)' /\ call'[o][n].pc \in {"none", "done"}
<1>1. DoneCall.pc = "done"
  BY DEF DoneCall, NoCall
<1>2. \A o \in Orders, n \in Calls :
         call'[o][n] = IF InService(o, n) THEN DoneCall ELSE call[o][n]
  BY DEF AllFail
<1>3. \A o \in Orders, n \in Calls : call'[o][n].pc \in {"none", "done"}
  BY <1>1, <1>2 DEF InService
<1> QED
  BY <1>3 DEF InService

LEMMA PythonRestartTracks ==
    ASSUME PayInv, PythonRestarts
    PROVE  \A p \in Orders \ unsure' : Tracked(p)'
<1>1. UNCHANGED sent /\ unsure' = unsure \cup {m.order : m \in sent}
  BY DEF PythonRestarts, chain
<1>2. ASSUME NEW p \in Orders \ unsure' PROVE \A m \in sent' : m.order # p
  BY <1>1
<1>3. \A p \in Orders, n \in Calls :
         ~InService(p, n)' /\ call'[p][n].pc \notin {"checked", "accepted"}
  BY AllFailFacts DEF PythonRestarts
<1> QED
  BY <1>2, <1>3 DEF Tracked, Alone

----------------------------------------------------------------------------
(* The API's transactions.                                                 *)

\* A transaction that the API opens, ends or rolls back while no call of it is
\* in service.
LEMMA SessionTracks ==
    ASSUME PayInv, NEW o \in Orders,
           Open(o) \/ GiveUp(o) \/ Review(o) \/ Commit(o) \/ Rollback(o)
    PROVE  PayInv'
<1>1. TypeInv'
  BY TypeStep DEF PayInv, TonNext, SessionStep
<1>2. UNCHANGED <<signer, call, cache, queue, file, sent>> /\ unsure \subseteq unsure'
  BY DEF Open, GiveUp, Review, Commit, Rollback, node, chain, history
<1>3. \A p \in Orders \ {o} : session'[p] = session[p]
  BY TypeParts DEF Open, GiveUp, Review, Commit, Rollback, Close, PayInv, TypeInv
<1>4. ASSUME signer = "python", NEW p \in Orders \ unsure' PROVE Tracked(p)'
  <2>1. Tracked(p)
    BY <1>2, <1>4 DEF PayInv
  <2>2. CASE p # o
    BY <1>2, <1>3, <2>1, <2>2, TrackedKept
  <2>3. CASE p = o
    <3>1. \A n \in Calls : ~InService(o, n)
      <4>1. CASE session[o].pc # "signing"
        BY <2>1, <2>3, <4>1 DEF Tracked, Listening
      <4>2. CASE session[o].pc = "signing"
        <5>1. ~Pending(o)
          BY <1>4, <2>3, <4>2 DEF Open, GiveUp, Review, Commit, Rollback
        <5> QED
          BY <5>1 DEF Pending
      <4> QED
        BY <4>1, <4>2
    <3> QED
      BY <1>2, <2>1, <2>3, <3>1 DEF Tracked, Alone, InService
  <2> QED
    BY <2>2, <2>3
<1>5. ASSUME signer = "node" PROVE OneServed' /\ \A p \in Orders : Filed(p)'
  BY <1>2, <1>5 DEF PayInv, OneServed, Filed, Alone
<1> QED
  BY <1>1, <1>2, <1>4, <1>5 DEF PayInv

LEMMA ReserveTracks ==
    ASSUME PayInv, NEW o \in Orders, NEW s \in Schemas, NEW w \in HotWallets,
           NEW amount \in Amounts, Reserve(o, s, w, amount)
    PROVE  PayInv'
<1>1. TypeInv'
  BY TypeStep DEF PayInv, TonNext, SessionStep
<1>2. UNCHANGED <<signer, cache, file, sent, unsure>> /\ session[o].pc = "open"
  BY DEF Reserve, chain
<1>3. PICK n \in Calls :
        /\ session' = [session EXCEPT ![o] =
             [session[o] EXCEPT !.pc = IF signer = "mock" THEN "answered" ELSE "signing",
                       !.schema = s, !.wallet = w, !.amount = amount, !.call = n,
                       !.locks = {v \in active : ~Locked(v)}]]
        /\ call' = [call EXCEPT ![o][n] =
             IF signer = "mock" THEN DoneCall
             ELSE [NoCall EXCEPT !.pc = "received", !.wallet = w, !.amount = amount]]
        /\ queue' = IF signer = "node" THEN Append(queue, <<o, n>>) ELSE queue
  BY TypeParts DEF Reserve, NextCall, PayInv, TypeInv
<1>4. CASE signer = "mock"
  BY <1>1, <1>2, <1>4 DEF PayInv
<1>5. ASSUME signer # "mock"
      PROVE  /\ call'[o][n].pc = "received" /\ OtherCalls(o, n)
             /\ session'[o].pc = "signing" /\ session'[o].call = n
             /\ \A p \in Orders \ {o} : session'[p] = session[p]
  <2> DEFINE x == [NoCall EXCEPT !.pc = "received", !.wallet = w, !.amount = amount]
             y == [session[o] EXCEPT !.pc = "signing",
                       !.schema = s, !.wallet = w, !.amount = amount, !.call = n,
                       !.locks = {v \in active : ~Locked(v)}]
  <2>1. x.pc = "received"
    BY DEF NoCall
  <2>2. y.pc = "signing" /\ y.call = n
    BY TypeParts DEF SessionType, PayInv, TypeInv
  <2>3. call' = [call EXCEPT ![o][n] = x] /\ session' = [session EXCEPT ![o] = y]
    BY <1>3, <1>5
  <2> HIDE DEF x, y
  <2>4. call'[o][n] = x /\ OtherCalls(o, n)
    BY <2>3, TypeParts DEF OtherCalls, PayInv, TypeInv
  <2> QED
    BY <2>1, <2>2, <2>3, <2>4, TypeParts DEF PayInv, TypeInv
<1>6. CASE signer = "python"
  <2>1. ASSUME NEW p \in Orders \ unsure' PROVE Tracked(p)'
    <3>1. Tracked(p)
      BY <1>2, <1>6 DEF PayInv
    <3>2. CASE p # o
      BY <1>2, <1>5, <1>6, <3>1, <3>2, TrackedKept DEF OtherCalls
    <3>3. CASE p = o
      <4>1. \A k \in Calls : ~InService(o, k)
        BY <1>2, <3>1, <3>3 DEF Tracked, Listening
      <4>2. \A k \in Calls : k # n => call'[o][k].pc \in {"none", "done"}
        BY <1>5, <1>6, <4>1 DEF InService, OtherCalls
      <4>3. \A k \in Calls : InService(o, k)' => Listening(o, k)'
        BY <1>5, <1>6, <4>2 DEF InService, Listening
      <4>4. \A k \in Calls : /\ call'[o][k].pc \notin {"checked", "accepted"}
                             /\ call[o][k].pc # "accepted"
        BY <1>5, <1>6, <4>1, <4>2 DEF InService
      <4> QED
        BY <1>2, <3>1, <3>3, <4>3, <4>4 DEF Tracked, Alone
    <3> QED
      BY <3>2, <3>3
  <2> QED
    BY <1>1, <1>2, <1>6, <2>1 DEF PayInv
<1>7. CASE signer = "node"
  <2>1. queue' = Append(queue, <<o, n>>) /\ queue \in Seq(Orders \X Calls)
    BY <1>3, <1>7 DEF PayInv, TypeInv, TonTypeOK
  <2>2. queue # <<>> => queue' # <<>> /\ Head(queue') = Head(queue)
    BY <2>1
  <2>3. ASSUME NEW p \in Orders, NEW k \in Calls,
               call'[p][k].pc \in {"locked", "reserved", "pending", "accepted", "ledgered"}
        PROVE  call'[p][k] = call[p][k]
    BY <1>5, <1>7, <2>3 DEF OtherCalls
  <2>4. OneServed'
    BY <1>7, <2>2, <2>3 DEF PayInv, OneServed
  <2>5. \A p \in Orders : Filed(p)'
    BY <1>2, <1>7, <2>3 DEF PayInv, Filed, Alone
  <2> QED
    BY <1>1, <1>2, <1>7, <2>4, <2>5 DEF PayInv
<1> QED
  <2>1. signer \in Signers
    BY DEF PayInv, TypeInv, TonTypeOK
  <2> QED
    BY <1>4, <1>6, <1>7, <2>1 DEF Signers

----------------------------------------------------------------------------
(* The Node signer.                                                        *)

NodeInv == TypeInv /\ OneServed /\ \A o \in Orders : Filed(o)

\* While a call is served no other call has been taken up.
LEMMA NodeAlone ==
    ASSUME NodeInv, NEW o \in Orders, NEW n \in Calls, Served(o, n),
           NEW p \in Orders, NEW k \in Calls, p # o \/ k # n
    PROVE  call[p][k].pc \notin {"locked", "reserved", "pending", "accepted", "ledgered"}
BY DEF NodeInv, OneServed, Served

LEMMA NodeServesOne ==
    ASSUME NodeInv, NEW o \in Orders, NEW n \in Calls, Served(o, n), OtherCalls(o, n),
           call'[o][n].pc = "done" \/ UNCHANGED queue
    PROVE  OneServed'
<1>1. ASSUME NEW p \in Orders, NEW k \in Calls, p # o \/ k # n
      PROVE  call'[p][k].pc \notin {"locked", "reserved", "pending", "accepted", "ledgered"}
  BY <1>1, NodeAlone DEF OtherCalls
<1>2. CASE call'[o][n].pc = "done"
  BY <1>1, <1>2 DEF OneServed
<1>3. CASE UNCHANGED queue
  BY <1>1, <1>3 DEF OneServed, Served
<1> QED
  BY <1>2, <1>3

\* The files of the orders, when the served call's file and messages are right.
LEMMA NodeKeepsFiles ==
    ASSUME NodeInv, NEW o \in Orders, NEW n \in Calls, Served(o, n), OtherCalls(o, n),
           \A p \in Orders \ {o} : file'[p] = file[p],
           \A m : m.order # o => (m \in sent' <=> m \in sent),
           file'[o].status = "none" => \A m \in sent' : m.order # o,
           call'[o][n].pc \in {"locked", "reserved"} => file'[o].status = "none",
           call'[o][n].pc = "pending" =>
              file'[o].status # "none" /\ \A m \in sent' : m.order # o,
           Alone(o)'
    PROVE  \A p \in Orders : Filed(p)'
<1>1. ASSUME NEW p \in Orders \ {o} PROVE Filed(p)'
  BY <1>1, FiledKept DEF OtherCalls, NodeInv
<1>2. \A k \in Calls : k # n => call'[o][k].pc \notin {"locked", "reserved", "pending"}
  BY NodeAlone DEF OtherCalls
<1>3. Filed(o)'
  BY <1>2 DEF Filed
<1> QED
  BY <1>1, <1>3

LEMMA NodeTracks ==
    ASSUME NodeInv, NEW o \in Orders, NEW n \in Calls, NodeStep(o, n)
    PROVE  OneServed' /\ \A p \in Orders : Filed(p)'
<1> USE DEF NodeInv
<1>0. /\ Served(o, n) /\ Filed(o)
      /\ file \in [Orders -> FileType] /\ file[o] \in FileType
  BY TypeParts DEF NodeStep, NodeReceives, NodeReserves, NodeWritesPending, NodePosts,
                   NodeUpdatesLedger, NodeAnswers, At, TypeInv
<1>1. ASSUME Finished(o, n), UNCHANGED <<file, sent>>
      PROVE  OneServed' /\ \A p \in Orders : Filed(p)'
  <2>1. call'[o][n].pc = "done" /\ OtherCalls(o, n)
    BY <1>1, CallMoves
  <2>2. OneServed'
    BY <1>0, <2>1, NodeServesOne
  <2> QED
    BY <1>0, <1>1, <2>1, <2>2, NodeKeepsFiles DEF Filed, Alone
<1>2. ASSUME Finished(o, n), UNCHANGED sent, file'[o].status # "none",
             \A p \in Orders \ {o} : file'[p] = file[p]
      PROVE  OneServed' /\ \A p \in Orders : Filed(p)'
  <2>1. call'[o][n].pc = "done" /\ OtherCalls(o, n)
    BY <1>2, CallMoves
  <2>2. OneServed'
    BY <1>0, <2>1, NodeServesOne
  <2> QED
    BY <1>0, <1>2, <2>1, <2>2, NodeKeepsFiles DEF Filed, Alone
<1>3. ASSUME NodeFails(o, n), UNCHANGED sent
      PROVE  OneServed' /\ \A p \in Orders : Filed(p)'
  <2>1. file'[o].status = "unknown" /\ \A p \in Orders \ {o} : file'[p] = file[p]
    BY <1>0, <1>3 DEF NodeFails, FileType
  <2> QED
    BY <1>2, <1>3, <2>1 DEF NodeFails, Refuses
<1>4. ASSUME NEW pc \in {"locked", "reserved", "ledgered"}, Proceeds(o, n, pc),
             UNCHANGED <<queue, file, sent>>,
             pc \in {"locked", "reserved"} => file[o].status = "none"
      PROVE  OneServed' /\ \A p \in Orders : Filed(p)'
  <2>1. call'[o][n].pc = pc /\ OtherCalls(o, n)
    BY <1>4, CallMoves
  <2>2. OneServed'
    BY <1>0, <1>4, <2>1, NodeServesOne
  <2> QED
    BY <1>0, <1>4, <2>1, <2>2, NodeKeepsFiles DEF Filed, Alone
<1>5. CASE NodeReceives(o, n)
  <2>1. UNCHANGED <<file, sent>>
    BY <1>5 DEF NodeReceives
  <2>2. CASE Finished(o, n)
    BY <1>1, <2>1, <2>2
  <2>3. CASE ~Done(o) /\ ~Refused(o) /\ Proceeds(o, n, "locked") /\ UNCHANGED queue
    <3>1. file[o].status = "none"
      BY <1>0, <2>3 DEF Done, Refused, FileType
    <3> QED
      BY <1>4, <2>1, <2>3, <3>1
  <2> QED
    BY <1>5, <2>2, <2>3 DEF NodeReceives, Answers, Refuses
<1>6. CASE NodeReserves(o, n)
  <2>1. UNCHANGED <<file, sent>> /\ file[o].status = "none"
    BY <1>0, <1>6 DEF NodeReserves, At, Filed
  <2>2. CASE Finished(o, n)
    BY <1>1, <2>1, <2>2
  <2>3. CASE Proceeds(o, n, "reserved") /\ UNCHANGED queue
    BY <1>4, <2>1, <2>3
  <2> QED
    BY <1>6, <2>2, <2>3 DEF NodeReserves, Refuses
<1>7. CASE NodeWritesPending(o, n)
  <2>1. /\ call[o][n].pc = "reserved" /\ Proceeds(o, n, "pending") /\ UNCHANGED <<queue, sent>>
        /\ file' = [file EXCEPT ![o].status = "pending"]
    BY <1>7 DEF NodeWritesPending, At
  <2>2. call'[o][n].pc = "pending" /\ OtherCalls(o, n)
    BY <2>1, CallMoves
  <2>3. file'[o].status = "pending" /\ \A p \in Orders \ {o} : file'[p] = file[p]
    BY <1>0, <2>1 DEF FileType
  <2>4. \A m \in sent : m.order # o
    BY <1>0, <2>1 DEF Filed
  <2>5. OneServed'
    BY <1>0, <2>1, <2>2, NodeServesOne
  <2> QED
    BY <1>0, <2>1, <2>2, <2>3, <2>4, <2>5, NodeKeepsFiles DEF Filed, Alone
<1>8. CASE NodePosts(o, n)
  <2>1. CASE NodeFails(o, n) /\ UNCHANGED sent
    BY <1>3, <2>1
  <2>2. CASE \E seqno \in {Seqno(call[o][n].wallet), 0} :
               /\ sent' = sent \cup {Message(o, n, seqno)} /\ UNCHANGED <<queue, file>>
               /\ call' = [call EXCEPT ![o][n].pc = "accepted", ![o][n].message = Message(o, n, seqno)]
    <3>0. PICK seqno \in Nat :
               /\ sent' = sent \cup {Message(o, n, seqno)} /\ UNCHANGED <<queue, file>>
               /\ call' = [call EXCEPT ![o][n].pc = "accepted", ![o][n].message = Message(o, n, seqno)]
      BY <1>0, <2>2, SeqnoType
    <3>1. call'[o][n].pc = "accepted" /\ OtherCalls(o, n)
      BY <3>0, CallMoves
    <3>2. OneServed'
      BY <1>0, <3>0, <3>1, NodeServesOne
    <3>3. file[o].status # "none" /\ \A m \in sent : m.order # o
      BY <1>0, <1>8 DEF NodePosts, At, Filed
    <3>4. \A m : m.order # o => (m \in sent' <=> m \in sent)
      BY <3>0, MessageType
    <3>5. Alone(o)'
      BY <3>0, <3>3 DEF Alone
    <3> QED
      BY <1>0, <3>0, <3>1, <3>2, <3>3, <3>4, <3>5, NodeKeepsFiles
  <2> QED
    BY <1>8, <2>1, <2>2 DEF NodePosts
<1>9. CASE NodeUpdatesLedger(o, n)
  <2>1. CASE NodeFails(o, n)
    BY <1>3, <1>9, <2>1 DEF NodeUpdatesLedger
  <2>2. CASE Proceeds(o, n, "ledgered") /\ UNCHANGED <<queue, file>>
    BY <1>4, <1>9, <2>2 DEF NodeUpdatesLedger
  <2> QED
    BY <1>9, <2>1, <2>2 DEF NodeUpdatesLedger
<1>10. CASE NodeAnswers(o, n)
  <2>1. file'[o].status = "completed" /\ \A p \in Orders \ {o} : file'[p] = file[p]
    BY <1>0, <1>10 DEF NodeAnswers
  <2> QED
    BY <1>2, <1>10, <2>1 DEF NodeAnswers, Answers
<1> QED
  BY <1>5, <1>6, <1>7, <1>8, <1>9, <1>10 DEF NodeStep

LEMMA NodeRestartTracks ==
    ASSUME NodeInv, NodeRestarts
    PROVE  OneServed' /\ \A p \in Orders : Filed(p)'
<1>1. UNCHANGED <<file, sent>>
  BY DEF NodeRestarts
<1>2. \A p \in Orders, k \in Calls : call'[p][k].pc \in {"none", "done"}
  BY AllFailFacts DEF NodeRestarts
<1> QED
  BY <1>1, <1>2 DEF NodeInv, OneServed, Filed, Alone

----------------------------------------------------------------------------
(* An order is paid once.                                                  *)

LEMMA PayStep == PayInv /\ [TonNext]_vars => PayInv'
<1> SUFFICES ASSUME PayInv, [TonNext]_vars PROVE PayInv'
  OBVIOUS
<1>0. TypeInv'
  BY TypeStep DEF PayInv
<1>1. ASSUME NEW o \in Orders, SessionStep(o) PROVE PayInv'
  BY <1>1, SessionTracks, ReserveTracks DEF SessionStep
<1>2. ASSUME NEW o \in Orders, NEW n \in Calls, PythonStep(o, n) PROVE PayInv'
  <2>1. signer = "python" /\ signer' = signer
    BY <1>2 DEF PythonStep, PythonReceives, PythonPosts, PythonAnswers, pythonOnly
  <2> QED
    BY <1>0, <1>2, <2>1, PythonTracks DEF PayInv
<1>3. ASSUME NEW o \in Orders, NEW n \in Calls, NodeStep(o, n) PROVE PayInv'
  <2>1. signer = "node" /\ signer' = signer
    BY <1>3 DEF NodeStep, NodeReceives, NodeReserves, NodeWritesPending, NodePosts,
                NodeUpdatesLedger, NodeAnswers, At, Served, nodeOnly
  <2> QED
    BY <1>0, <1>3, <2>1, NodeTracks DEF PayInv, NodeInv
<1>4. CASE PythonRestarts
  <2>1. signer = "python" /\ signer' = signer
    BY <1>4 DEF PythonRestarts
  <2> QED
    BY <1>0, <1>4, <2>1, PythonRestartTracks DEF PayInv
<1>5. CASE NodeRestarts
  <2>1. signer = "node" /\ signer' = signer
    BY <1>5 DEF NodeRestarts, nodeOnly
  <2> QED
    BY <1>0, <1>5, <2>1, NodeRestartTracks DEF PayInv, NodeInv
<1>6. CASE UNCHANGED <<signer, session, call, cache, queue, file, sent, unsure>>
  BY <1>0, <1>6 DEF PayInv, OneServed, Filed, Tracked, Alone, InService, Listening
<1>7. ASSUME \/ \E m \in sent : Mine(m)
             \/ \E o \in Orders : Reconcile(o)
             \/ \E w \in HotWallets : UpdateHotWallet(w)
             \/ \E s \in Schemas : UpdateSchema(s)
             \/ UNCHANGED vars
      PROVE  UNCHANGED <<signer, session, call, cache, queue, file, sent, unsure>>
  BY <1>7 DEF Mine, Reconcile, UpdateHotWallet, UpdateSchema, vars, node, chain, history
<1> QED
  BY <1>1, <1>2, <1>3, <1>4, <1>5, <1>6, <1>7 DEF TonNext

LEMMA PayInvariant == TonSpec => []PayInv
<1>1. TonInit => PayInv
  <2> SUFFICES ASSUME TonInit PROVE PayInv
    OBVIOUS
  <2>1. \A o \in Orders, n \in Calls : call[o][n].pc = "none"
    BY DEF TonInit, NoCall
  <2>2. sent = {}
    BY DEF TonInit
  <2> QED
    BY <2>1, <2>2, InitTypes DEF PayInv, OneServed, Filed, Tracked, Alone, InService
<1> QED
  BY <1>1, PayStep, PTL DEF TonSpec

\* An order is paid at most once, with the Node signer whatever fails and comes
\* again, with the Python signer unless it was restarted, lost an answer of TON
\* Center, or the API did not wait for it.
THEOREM PaysOnce == TonSpec => []PaidOnce
<1>1. ASSUME PayInv, NEW o \in Orders, ~(signer = "python" /\ o \in unsure)
      PROVE  Cardinality({m \in mined : m.order = o}) <= 1
  <2>1. Alone(o) /\ mined \subseteq sent
    <3>1. TonTypeOK /\ signer \in Signers
      BY <1>1 DEF PayInv, TypeInv, TonTypeOK
    <3>2. mined \subseteq sent
      BY <3>1 DEF TonTypeOK
    <3>3. Alone(o)
      BY <1>1, <3>1 DEF PayInv, Filed, Tracked, Alone, Signers
    <3> QED
      BY <3>2, <3>3
  <2> DEFINE paid == {m \in mined : m.order = o}
  <2>2. CASE paid = {}
    BY <2>2, FS_EmptySet
  <2>3. CASE paid # {}
    <3>1. PICK m : paid = {m}
      BY <2>1, <2>3 DEF Alone
    <3>2. Cardinality({m}) = 1
      BY FS_Singleton
    <3> QED
      BY <3>1, <3>2
  <2> QED
    BY <2>2, <2>3
<1>2. PayInv => PaidOnce
  BY <1>1 DEF PaidOnce
<1> QED
  BY <1>2, PayInvariant, PTL

----------------------------------------------------------------------------
(* What the books say.                                                     *)

Early == {"received", "checked", "locked", "reserved", "pending"}
Late  == {"accepted", "ledgered"}

Backed(o, m) == m \in sent /\ m.order = o
Fits(o, m)   == m.wallet = session[o].wallet /\ m.amount = session[o].amount

\* Every message that is kept or recorded for an order was sent for it, and a
\* transaction under way has no broadcast before it.
Booked(o) ==
    /\ \A n \in Calls : call[o][n].pc \in Late => Backed(o, call[o][n].message)
    /\ cache[o] # NoMessage => Backed(o, cache[o])
    /\ file[o].status = "completed" => Backed(o, file[o].message)
    /\ session[o].pc = "answered" => \/ session[o].answer = NoMessage
                                     \/ Backed(o, session[o].answer)
    /\ session[o].pc = "open" => session[o].answer = NoMessage
    /\ tx[o].status \in Broadcast => Backed(o, tx[o].message)
    /\ tx[o].status \notin Broadcast => tx[o].message = NoMessage
    /\ UnderWay(o) => tx[o].status \in {"NONE", "MANUAL_REVIEW"}

\* No transaction of the order was rolled back after a call: the API waits for
\* the call that is in service, and knows of what was sent.
Tidy(o) ==
    /\ \A n \in Calls :
          /\ InService(o, n) => Listening(o, n) /\ Fits(o, call[o][n])
          /\ call[o][n].pc \in Early => \A m \in sent : m.order # o
          /\ call[o][n].pc \in Late => Fits(o, call[o][n].message)
    /\ session[o].pc = "answered" => \/ session[o].answer = NoMessage
                                     \/ Fits(o, session[o].answer)
    /\ \A m \in sent : m.order = o =>
          \/ tx[o].message = m
          \/ \E n \in Calls : call[o][n].pc \in Late /\ call[o][n].message = m
          \/ session[o].pc = "answered" /\ session[o].answer = m
    /\ tx[o].status \in Broadcast =>
          tx[o].message.wallet = tx[o].wallet /\ tx[o].message.amount = tx[o].amount

BooksInv ==
    /\ TypeInv
    /\ \A o \in Orders : Booked(o)
    /\ \A o \in Orders \ adrift : Tidy(o)

LEMMA StageFacts ==
    ASSUME TypeInv, NEW o \in Orders, NEW n \in Calls
    PROVE  InService(o, n) <=> call[o][n].pc \in Early \cup Late
<1>1. call[o][n].pc \in Stage
  BY TypeParts DEF TypeInv, CallType
<1> QED
  BY <1>1 DEF InService, Stage, Early, Late

\* No message of an order is the missing one.
LEMMA RealMessages == ASSUME NEW o \in Orders PROVE ~Backed(o, NoMessage)
BY TonAssumption DEF Backed, NoMessage

\* A step that leaves what concerns an order as it was.
LEMMA BookedKept ==
    ASSUME NEW o \in Orders, Booked(o),
           \A n \in Calls : call'[o][n] = call[o][n],
           session'[o] = session[o], cache'[o] = cache[o], file'[o] = file[o], tx'[o] = tx[o],
           sent \subseteq sent'
    PROVE  Booked(o)'
BY DEF Booked, Backed, UnderWay

LEMMA TidyKept ==
    ASSUME NEW o \in Orders, Tidy(o),
           \A n \in Calls : call'[o][n] = call[o][n],
           session'[o] = session[o], tx'[o] = tx[o],
           \A m : m.order = o => (m \in sent' <=> m \in sent)
    PROVE  Tidy(o)'
BY DEF Tidy, Fits, InService, Listening

\* A transaction that waits for no call has none in service.
LEMMA Quiet ==
    ASSUME NEW o \in Orders, Tidy(o), session[o].pc # "signing", NEW n \in Calls
    PROVE  ~InService(o, n)
BY DEF Tidy, Listening

----------------------------------------------------------------------------
(* The API's transactions and the books.                                   *)

LEMMA ClosedFacts == Closed.pc = "closed" /\ Closed.answer = NoMessage
BY DEF Closed

LEMMA SessionBooks ==
    ASSUME BooksInv, NEW o \in Orders,
           UNCHANGED <<call, cache, file, sent>>, adrift \subseteq adrift',
           \A p \in Orders \ {o} : session'[p] = session[p] /\ tx'[p] = tx[p],
           Booked(o)', o \notin adrift' => Tidy(o)'
    PROVE  (\A p \in Orders : Booked(p)') /\ \A p \in Orders \ adrift' : Tidy(p)'
<1>1. ASSUME NEW p \in Orders, p # o
      PROVE  Booked(p)' /\ (p \notin adrift' => Tidy(p)')
  BY <1>1, BookedKept, TidyKept DEF BooksInv
<1> QED
  BY <1>1

LEMMA OpenBooks ==
    ASSUME BooksInv, NEW o \in Orders, Open(o)
    PROVE  (\A p \in Orders : Booked(p)') /\ \A p \in Orders \ adrift' : Tidy(p)'
<1> USE DEF BooksInv
<1> DEFINE new == [Closed EXCEPT !.pc = "open", !.flight = InFlight(o), !.today = Today]
<1>1. new.pc = "open" /\ new.answer = NoMessage
  BY DEF Closed
<1> HIDE DEF new
<1>2. /\ session[o].pc = "closed" /\ UNCHANGED <<call, cache, file, sent, tx, adrift>>
      /\ session' = [session EXCEPT ![o] = new]
  BY DEF Open, new, rows, node, chain, history
<1>3. session'[o] = new /\ \A p \in Orders \ {o} : session'[p] = session[p]
  BY <1>2, TypeParts DEF TypeInv
<1>4. Booked(o)'
  BY <1>1, <1>2, <1>3 DEF Booked, Backed, UnderWay
<1>5. ASSUME o \notin adrift PROVE Tidy(o)'
  <2>1. \A n \in Calls : ~InService(o, n)
    BY <1>2, <1>5, Quiet
  <2>2. \A n \in Calls : call[o][n].pc \notin Early \cup Late
    BY <2>1, StageFacts
  <2> QED
    BY <1>1, <1>2, <1>3, <1>5, <2>1, <2>2 DEF Tidy, InService
<1> QED
  BY <1>2, <1>3, <1>4, <1>5, SessionBooks

\* A transaction that ends with the books as they were, or with a row for review.
LEMMA EndBooks ==
    ASSUME BooksInv, NEW o \in Orders, GiveUp(o) \/ Review(o)
    PROVE  (\A p \in Orders : Booked(p)') /\ \A p \in Orders \ adrift' : Tidy(p)'
<1> USE DEF BooksInv
<1>1. session[o].pc = "open" /\ UNCHANGED <<call, cache, file, sent, adrift>> /\ Close(o)
  BY DEF GiveUp, Review, rows, node, chain, history
<1>2. session'[o] = Closed /\ \A p \in Orders \ {o} : session'[p] = session[p]
  BY <1>1, TypeParts DEF TypeInv, Close
<1>3. /\ tx'[o] = tx[o] \/ (/\ tx'[o].status = "MANUAL_REVIEW" /\ tx'[o].message = tx[o].message
                            /\ tx[o].status = "NONE")
      /\ \A p \in Orders \ {o} : tx'[p] = tx[p]
  <2>1. CASE tx' = tx
    BY <2>1
  <2>2. CASE tx[o] = NoTx /\ tx' = [tx EXCEPT ![o].status = "MANUAL_REVIEW", ![o].wallet = First]
    <3>1. tx' = [tx EXCEPT ![o] = [tx[o] EXCEPT !.status = "MANUAL_REVIEW", !.wallet = First]]
      BY <2>2, TypeParts DEF TypeInv
    <3> QED
      BY <2>2, <3>1, TypeParts DEF TypeInv, TxType, NoTx
  <2> QED
    BY <2>1, <2>2 DEF GiveUp, Review, rows
<1>4. Booked(o)'
  BY <1>1, <1>2, <1>3, ClosedFacts DEF Booked, Backed, UnderWay, Broadcast
<1>5. ASSUME o \notin adrift PROVE Tidy(o)'
  <2>1. \A n \in Calls : ~InService(o, n)
    BY <1>1, <1>5, Quiet
  <2>2. \A n \in Calls : call[o][n].pc \notin Early \cup Late
    BY <2>1, StageFacts
  <2>3. \A m \in sent : m.order = o => tx'[o].message = m
    BY <1>1, <1>3, <1>5, <2>2 DEF Tidy
  <2> QED
    BY <1>1, <1>2, <1>3, <1>5, <2>1, <2>2, <2>3, ClosedFacts DEF Tidy, InService, Broadcast
<1> QED
  BY <1>1, <1>2, <1>3, <1>4, <1>5, SessionBooks

LEMMA CommitBooks ==
    ASSUME BooksInv, NEW o \in Orders, Commit(o)
    PROVE  (\A p \in Orders : Booked(p)') /\ \A p \in Orders \ adrift' : Tidy(p)'
<1> USE DEF BooksInv
<1>1. /\ session[o].pc = "answered" /\ UNCHANGED <<call, cache, file, sent, adrift>> /\ Close(o)
      /\ tx' = [tx EXCEPT ![o] =
            [status |-> IF session[o].answer = NoMessage THEN "SIMULATED" ELSE "BROADCASTED",
             wallet |-> session[o].wallet, amount |-> session[o].amount,
             message |-> session[o].answer]]
  BY DEF Commit, node, chain, history
<1>2. session'[o] = Closed /\ \A p \in Orders \ {o} : session'[p] = session[p]
  BY <1>1, TypeParts DEF TypeInv, Close
<1>3. /\ tx'[o].status = IF session[o].answer = NoMessage THEN "SIMULATED" ELSE "BROADCASTED"
      /\ tx'[o].wallet = session[o].wallet /\ tx'[o].amount = session[o].amount
      /\ tx'[o].message = session[o].answer
      /\ \A p \in Orders \ {o} : tx'[p] = tx[p]
  BY <1>1, TypeParts DEF TypeInv
<1>4. session[o].answer = NoMessage \/ Backed(o, session[o].answer)
  BY <1>1 DEF Booked
<1>5. Booked(o)'
  BY <1>1, <1>2, <1>3, <1>4, ClosedFacts DEF Booked, Backed, UnderWay, Broadcast
<1>6. ASSUME o \notin adrift PROVE Tidy(o)'
  <2>1. \A n \in Calls : ~InService(o, n)
    BY <1>1, <1>6, Quiet
  <2>2. \A n \in Calls : call[o][n].pc \notin Early \cup Late
    BY <2>1, StageFacts
  <2>3. tx[o].message = NoMessage
    BY <1>1 DEF Booked, UnderWay, Broadcast
  <2>4. \A m \in sent : m.order = o => session[o].answer = m
    BY <1>6, <2>2, <2>3, RealMessages DEF Tidy, Backed
  <2>5. tx'[o].status \in Broadcast => Fits(o, session[o].answer)
    BY <1>1, <1>3, <1>6 DEF Tidy, Broadcast
  <2> QED
    BY <1>1, <1>2, <1>3, <2>1, <2>2, <2>4, <2>5, ClosedFacts DEF Tidy, InService, Fits
<1> QED
  BY <1>1, <1>2, <1>3, <1>5, <1>6, SessionBooks

LEMMA RollbackBooks ==
    ASSUME BooksInv, NEW o \in Orders, Rollback(o)
    PROVE  (\A p \in Orders : Booked(p)') /\ \A p \in Orders \ adrift' : Tidy(p)'
<1> USE DEF BooksInv
<1>1. UNCHANGED <<call, cache, file, sent, tx>> /\ Close(o) /\ adrift' = adrift \cup {o}
  BY DEF Rollback, rows, node, chain
<1>2. session'[o] = Closed /\ \A p \in Orders \ {o} : session'[p] = session[p]
  BY <1>1, TypeParts DEF TypeInv, Close
<1>3. Booked(o)'
  BY <1>1, <1>2, ClosedFacts DEF Booked, Backed, UnderWay
<1> QED
  BY <1>1, <1>2, <1>3, SessionBooks

LEMMA ReserveBooks ==
    ASSUME BooksInv, NEW o \in Orders, NEW s \in Schemas, NEW w \in HotWallets,
           NEW amount \in Amounts, Reserve(o, s, w, amount)
    PROVE  (\A p \in Orders : Booked(p)') /\ \A p \in Orders \ adrift' : Tidy(p)'
<1> USE DEF BooksInv
<1>1. /\ session[o].pc = "open" /\ tx[o].status \in {"NONE", "MANUAL_REVIEW"}
      /\ UNCHANGED <<cache, file, sent, tx, adrift>>
  BY DEF Reserve, rows, chain
<1>2. PICK n \in Calls :
        /\ session' = [session EXCEPT ![o] =
             [session[o] EXCEPT !.pc = IF signer = "mock" THEN "answered" ELSE "signing",
                       !.schema = s, !.wallet = w, !.amount = amount, !.call = n,
                       !.locks = {v \in active : ~Locked(v)}]]
        /\ call' = [call EXCEPT ![o][n] =
             IF signer = "mock" THEN DoneCall
             ELSE [NoCall EXCEPT !.pc = "received", !.wallet = w, !.amount = amount]]
  BY TypeParts DEF Reserve, NextCall, TypeInv
<1> DEFINE x == IF signer = "mock" THEN DoneCall
                ELSE [NoCall EXCEPT !.pc = "received", !.wallet = w, !.amount = amount]
           y == [session[o] EXCEPT !.pc = IF signer = "mock" THEN "answered" ELSE "signing",
                       !.schema = s, !.wallet = w, !.amount = amount, !.call = n,
                       !.locks = {v \in active : ~Locked(v)}]
<1>3. \/ signer = "mock" /\ x.pc = "done"
      \/ signer # "mock" /\ x.pc = "received" /\ x.wallet = w /\ x.amount = amount
  BY DEF NoCall, DoneCall
<1>4. /\ y.pc = IF signer = "mock" THEN "answered" ELSE "signing"
      /\ y.call = n /\ y.wallet = w /\ y.amount = amount /\ y.answer = session[o].answer
  BY TypeParts DEF SessionType, TypeInv
<1>5. call' = [call EXCEPT ![o][n] = x] /\ session' = [session EXCEPT ![o] = y]
  BY <1>2
<1> HIDE DEF x, y
<1>6. /\ call'[o][n] = x /\ OtherCalls(o, n)
      /\ session'[o] = y /\ \A p \in Orders \ {o} : session'[p] = session[p]
  BY <1>5, TypeParts DEF OtherCalls, TypeInv
<1>7. x.pc \notin Late /\ y.answer = NoMessage
  BY <1>1, <1>3, <1>4 DEF Booked, Late
<1>8. Booked(o)'
  <2>1. \A k \in Calls : call'[o][k].pc \in Late => call'[o][k] = call[o][k]
    BY <1>6, <1>7 DEF OtherCalls
  <2>2. Booked(o) /\ y.pc # "open"
    BY <1>4
  <2> QED
    BY <1>1, <1>4, <1>6, <1>7, <2>1, <2>2 DEF Booked, Backed, UnderWay
<1>9. ASSUME o \notin adrift PROVE Tidy(o)'
  <2>1. \A k \in Calls : ~InService(o, k) /\ call[o][k].pc \notin Early \cup Late
    BY <1>1, <1>9, Quiet, StageFacts
  <2>2. tx[o].message = NoMessage /\ tx[o].status \notin Broadcast
    BY <1>1 DEF Booked, Broadcast
  <2>3. \A m \in sent : m.order # o
    BY <1>1, <1>9, <2>1, <2>2, RealMessages DEF Tidy, Backed
  <2>4. ASSUME NEW k \in Calls, InService(o, k)'
        PROVE  Listening(o, k)' /\ Fits(o, call[o][k])'
    <3>1. k = n
      BY <1>6, <2>1, <2>4 DEF OtherCalls, InService
    <3>2. x.pc \notin {"none", "done"}
      BY <1>6, <2>4, <3>1 DEF InService
    <3>3. session'[o].pc = "signing" /\ x.wallet = w /\ x.amount = amount
      BY <1>3, <1>4, <1>6, <3>2
    <3> QED
      BY <1>4, <1>6, <3>1, <3>3 DEF Listening, Fits
  <2>5. \A k \in Calls : call'[o][k].pc \notin Late
    BY <1>6, <1>7, <2>1 DEF OtherCalls
  <2> QED
    BY <1>1, <1>6, <1>7, <2>2, <2>3, <2>4, <2>5 DEF Tidy
<1>10. ASSUME NEW p \in Orders, p # o
       PROVE  Booked(p)' /\ (p \notin adrift' => Tidy(p)')
  BY <1>1, <1>6, <1>10, BookedKept, TidyKept DEF OtherCalls
<1> QED
  BY <1>1, <1>8, <1>9, <1>10

----------------------------------------------------------------------------
(* The signers and the books.                                              *)

\* What a call's end, progress or acceptance has to do to keep the books.
LEMMA EndsBooks ==
    ASSUME BooksInv, NEW o \in Orders, NEW n \in Calls, InService(o, n),
           Refuses(o, n), UNCHANGED <<tx, sent>>,
           cache'[o] = cache[o],
           file'[o].status = "completed" => file'[o] = file[o]
    PROVE  Booked(o)' /\ (o \notin adrift' => Tidy(o)')
<1> USE DEF BooksInv
<1>1. call'[o][n].pc = "done" /\ OtherCalls(o, n)
  BY CallMoves DEF Refuses
<1>2. \A k \in Calls : call'[o][k].pc \in Late => call'[o][k] = call[o][k]
  BY <1>1 DEF OtherCalls, Late
<1>3. IF Listening(o, n) THEN session'[o] = Closed /\ o \in adrift'
      ELSE session'[o] = session[o] /\ adrift' = adrift
  BY TypeParts DEF Refuses, TypeInv
<1>4. Booked(o)'
  <2>1. CASE Listening(o, n)
    BY <1>2, <1>3, <2>1, ClosedFacts DEF Booked, Backed, UnderWay
  <2>2. CASE ~Listening(o, n)
    BY <1>2, <1>3, <2>2 DEF Booked, Backed, UnderWay
  <2> QED
    BY <2>1, <2>2
<1>5. o \in adrift'
  BY <1>3 DEF Tidy
<1> QED
  BY <1>4, <1>5

LEMMA AnswersBooks ==
    ASSUME BooksInv, NEW o \in Orders, NEW n \in Calls, NEW message,
           Answers(o, n, message), Backed(o, message), UNCHANGED <<tx, sent>>,
           \/ call[o][n].pc \in Late /\ message = call[o][n].message
           \/ call[o][n].pc \in Early,
           cache'[o] \in {cache[o], message},
           file'[o] = file[o] \/ file'[o].message = message
    PROVE  Booked(o)' /\ (o \notin adrift' => Tidy(o)')
<1> USE DEF BooksInv
<1>1. call'[o][n].pc = "done" /\ OtherCalls(o, n) /\ adrift' = adrift
  BY CallMoves DEF Answers
<1>2. \A k \in Calls : call'[o][k].pc \in Late => call'[o][k] = call[o][k]
  BY <1>1 DEF OtherCalls, Late
<1>3. IF Listening(o, n)
      THEN session'[o].pc = "answered" /\ session'[o].answer = message
           /\ session'[o].wallet = session[o].wallet /\ session'[o].amount = session[o].amount
      ELSE session'[o] = session[o]
  <2>1. CASE Listening(o, n)
    <3> DEFINE new == [session[o] EXCEPT !.pc = "answered", !.answer = message]
    <3>1. /\ new.pc = "answered" /\ new.answer = message
          /\ new.wallet = session[o].wallet /\ new.amount = session[o].amount
      BY TypeParts DEF SessionType, TypeInv
    <3>2. session' = [session EXCEPT ![o] = new]
      BY <2>1, TypeParts DEF Answers, TypeInv
    <3> HIDE DEF new
    <3> QED
      BY <2>1, <3>1, <3>2, TypeParts DEF TypeInv
  <2>2. CASE ~Listening(o, n)
    BY <2>2 DEF Answers
  <2> QED
    BY <2>1, <2>2
<1>4. Booked(o)'
  <2>1. CASE Listening(o, n)
    BY <1>2, <1>3, <2>1 DEF Booked, Backed, UnderWay, Listening
  <2>2. CASE ~Listening(o, n)
    BY <1>2, <1>3, <2>2 DEF Booked, Backed, UnderWay
  <2> QED
    BY <2>1, <2>2
<1>5. ASSUME o \notin adrift PROVE Tidy(o)'
  <2>1. Listening(o, n) /\ \A k \in Calls : InService(o, k) => k = n
    BY <1>5, StageFacts DEF Tidy, Listening
  <2>2. call[o][n].pc \in Late /\ message = call[o][n].message
    BY <1>5 DEF Tidy, Backed
  <2>3. \A k \in Calls : ~InService(o, k)'
    BY <1>1, <2>1 DEF OtherCalls, InService
  <2>4. \A k \in Calls : call'[o][k].pc \notin Early \cup Late
    BY <2>3 DEF InService, Early, Late
  <2>5. tx[o].message = NoMessage
    BY <2>1 DEF Booked, UnderWay, Listening, Broadcast
  <2>6. \A m \in sent : m.order = o => m = message
    <3>1. ASSUME NEW m \in sent, m.order = o PROVE m = message
      <4>1. tx[o].message # m
        BY <2>5, <3>1, RealMessages DEF Backed
      <4>2. session[o].pc # "answered"
        BY <2>1 DEF Listening
      <4>3. PICK k \in Calls : call[o][k].pc \in Late /\ call[o][k].message = m
        BY <1>5, <3>1, <4>1, <4>2 DEF Tidy
      <4>4. k = n
        BY <2>1, <4>3, StageFacts
      <4> QED
        BY <2>2, <4>3, <4>4
    <3> QED
      BY <3>1
  <2>7. Fits(o, message)
    BY <1>5, <2>2 DEF Tidy
  <2>8. tx[o].status \notin Broadcast
    BY <2>1 DEF Booked, UnderWay, Listening, Broadcast
  <2> QED
    BY <1>3, <2>1, <2>3, <2>4, <2>6, <2>7, <2>8 DEF Tidy, Fits
<1> QED
  BY <1>1, <1>4, <1>5

LEMMA OneCall ==
    ASSUME call \in [Orders -> [Calls -> CallType]], NEW o \in Orders, NEW n \in Calls,
           NEW x, call' = [call EXCEPT ![o][n] = x]
    PROVE  call'[o][n] = x /\ OtherCalls(o, n)
BY DEF OtherCalls

LEMMA ProceedsBooks ==
    ASSUME BooksInv, NEW o \in Orders, NEW n \in Calls, NEW pc, Proceeds(o, n, pc),
           \/ call[o][n].pc \in Early /\ pc \in Early
           \/ call[o][n].pc \in Late /\ pc \in Late,
           UNCHANGED <<tx, sent>>, cache'[o] = cache[o],
           file'[o].status = "completed" => file'[o] = file[o]
    PROVE  Booked(o)' /\ (o \notin adrift' => Tidy(o)')
<1> USE DEF BooksInv
<1>0. /\ call \in [Orders -> [Calls -> CallType]]
      /\ call' = [call EXCEPT ![o][n] = [call[o][n] EXCEPT !.pc = pc]]
  BY TypeParts DEF Proceeds, TypeInv
<1>1. /\ OtherCalls(o, n) /\ UNCHANGED session /\ adrift' = adrift
      /\ call'[o][n].pc = pc /\ call'[o][n].message = call[o][n].message
      /\ call'[o][n].wallet = call[o][n].wallet /\ call'[o][n].amount = call[o][n].amount
  <2> DEFINE x == [call[o][n] EXCEPT !.pc = pc]
  <2>1. /\ x.pc = pc /\ x.message = call[o][n].message
        /\ x.wallet = call[o][n].wallet /\ x.amount = call[o][n].amount
    BY <1>0 DEF CallType
  <2>2. call' = [call EXCEPT ![o][n] = x] /\ session' = session /\ adrift' = adrift
    BY <1>0 DEF Proceeds
  <2> HIDE DEF x
  <2>3. call'[o][n] = x /\ OtherCalls(o, n)
    BY <1>0, <2>2, OneCall
  <2> QED
    BY <2>1, <2>2, <2>3
<1>2. \A k \in Calls :
         /\ call'[o][k].message = call[o][k].message
         /\ call'[o][k].wallet = call[o][k].wallet /\ call'[o][k].amount = call[o][k].amount
         /\ call'[o][k].pc \in Late <=> call[o][k].pc \in Late
         /\ call'[o][k].pc \in Early <=> call[o][k].pc \in Early
         /\ InService(o, k)' => InService(o, k)
  <2>1. Early \cap Late = {} /\ {"none", "done"} \cap (Early \cup Late) = {}
    BY DEF Early, Late
  <2> QED
    BY <1>1, <2>1 DEF OtherCalls, InService
<1>3. Booked(o)'
  BY <1>1, <1>2 DEF Booked, Backed, UnderWay
<1>4. ASSUME o \notin adrift PROVE Tidy(o)'
  BY <1>1, <1>2, <1>4 DEF Tidy, Fits, Listening
<1> QED
  BY <1>1, <1>3, <1>4

LEMMA PostsBooks ==
    ASSUME BooksInv, NEW o \in Orders, NEW n \in Calls, NEW seqno, call[o][n].pc \in Early,
           sent' = sent \cup {Message(o, n, seqno)}, UNCHANGED <<session, adrift, tx>>,
           call' = [call EXCEPT ![o][n].pc = "accepted", ![o][n].message = Message(o, n, seqno)],
           cache'[o] = cache[o], file'[o] = file[o]
    PROVE  Booked(o)' /\ (o \notin adrift' => Tidy(o)')
<1> USE DEF BooksInv
<1>0. /\ call \in [Orders -> [Calls -> CallType]]
      /\ call' = [call EXCEPT ![o][n] =
                     [call[o][n] EXCEPT !.pc = "accepted", !.message = Message(o, n, seqno)]]
  BY TypeParts DEF TypeInv
<1>1. /\ OtherCalls(o, n)
      /\ call'[o][n].pc = "accepted" /\ call'[o][n].message = Message(o, n, seqno)
      /\ call'[o][n].wallet = call[o][n].wallet /\ call'[o][n].amount = call[o][n].amount
  <2> DEFINE x == [call[o][n] EXCEPT !.pc = "accepted", !.message = Message(o, n, seqno)]
  <2>1. /\ x.pc = "accepted" /\ x.message = Message(o, n, seqno)
        /\ x.wallet = call[o][n].wallet /\ x.amount = call[o][n].amount
    BY <1>0 DEF CallType
  <2>2. call' = [call EXCEPT ![o][n] = x]
    BY <1>0
  <2> HIDE DEF x
  <2>3. call'[o][n] = x /\ OtherCalls(o, n)
    BY ZenonT(40), <1>0, <2>2, OneCall
  <2> QED
    BY <2>1, <2>3
<1>2. /\ Message(o, n, seqno).order = o
      /\ Message(o, n, seqno).wallet = call[o][n].wallet /\ Message(o, n, seqno).amount = call[o][n].amount
  BY DEF Message
<1>3. Booked(o)'
  <2>1. ASSUME NEW k \in Calls, call'[o][k].pc \in Late
        PROVE  call'[o][k].message \in sent' /\ call'[o][k].message.order = o
    <3>1. CASE k = n
      BY <1>1, <1>2, <3>1
    <3>2. CASE k # n
      <4>1. call'[o][k] = call[o][k]
        BY <1>1, <3>2 DEF OtherCalls
      <4>2. call[o][k].message \in sent /\ call[o][k].message.order = o
        BY <2>1, <4>1 DEF Booked, Backed
      <4>3. sent \subseteq sent' /\ call'[o][k].message = call[o][k].message
        BY <4>1
      <4> QED
        BY <4>2, <4>3
    <3> QED
      BY <3>1, <3>2
  <2> QED
    BY <2>1 DEF Booked, UnderWay, Backed
<1>4. ASSUME o \notin adrift PROVE Tidy(o)'
  <2>1. Listening(o, n) /\ \A k \in Calls : InService(o, k) => k = n
    BY <1>4, StageFacts DEF Tidy, Listening
  <2>2. \A m \in sent : m.order # o
    BY <1>4 DEF Tidy
  <2>3. Fits(o, call[o][n])
    BY <1>4, StageFacts DEF Tidy
  <2>4. \A k \in Calls : k # n => ~InService(o, k)' /\ call'[o][k].pc \notin Early \cup Late
    <3>1. \A k \in Calls : k # n => ~InService(o, k)'
      BY <1>1, <2>1 DEF OtherCalls, InService
    <3> QED
      BY <3>1 DEF InService, Early, Late
  <2>5. tx[o].status \notin Broadcast
    BY <2>1 DEF Booked, UnderWay, Listening, Broadcast
  <2>6. session[o].pc = "signing"
    BY <2>1 DEF Listening
  <2>7. \A m \in sent' : m.order = o => m = call'[o][n].message
    BY <1>1, <2>2
  <2>8. call'[o][n].pc \in Late /\ call'[o][n].pc \notin Early
    BY <1>1 DEF Early, Late
  <2>9. \A k \in Calls :
           /\ InService(o, k)' => k = n
           /\ call'[o][k].pc \in Early \cup Late => k = n
    BY <2>4
  <2>10. /\ call'[o][n].wallet = session'[o].wallet /\ call'[o][n].amount = session'[o].amount
         /\ call'[o][n].message.wallet = session'[o].wallet
         /\ call'[o][n].message.amount = session'[o].amount
    BY <1>1, <1>2, <2>3 DEF Fits
  <2>11. Listening(o, n)'
    BY <2>1 DEF Listening
  <2>12. \A k \in Calls :
          /\ InService(o, k)' => Listening(o, k)' /\ Fits(o, call[o][k])'
          /\ call'[o][k].pc \in Early => \A m \in sent' : m.order # o
          /\ call'[o][k].pc \in Late => Fits(o, call[o][k].message)'
    BY <2>8, <2>9, <2>10, <2>11 DEF Fits
  <2> QED
    BY <2>5, <2>6, <2>7, <2>8, <2>12 DEF Tidy
<1> QED
  BY <1>3, <1>4

\* A step of a signer concerns one order.
LEMMA SignerBooks ==
    ASSUME BooksInv, NEW o \in Orders, NEW n \in Calls, OtherCalls(o, n), UNCHANGED tx,
           \A p \in Orders \ {o} : /\ session'[p] = session[p]
                                   /\ cache'[p] = cache[p] /\ file'[p] = file[p],
           \A m : m \in sent' <=> m \in sent \/ (m \in sent' /\ m.order = o),
           adrift \subseteq adrift',
           Booked(o)' /\ (o \notin adrift' => Tidy(o)')
    PROVE  (\A p \in Orders : Booked(p)') /\ \A p \in Orders \ adrift' : Tidy(p)'
<1>1. ASSUME NEW p \in Orders, p # o
      PROVE  Booked(p)' /\ (p \notin adrift' => Tidy(p)')
  <2>1. /\ \A k \in Calls : call'[p][k] = call[p][k]
        /\ session'[p] = session[p] /\ cache'[p] = cache[p]
        /\ file'[p] = file[p] /\ tx'[p] = tx[p]
    BY <1>1 DEF OtherCalls
  <2>2. sent \subseteq sent' /\ \A m : m.order = p => (m \in sent' <=> m \in sent)
    BY <1>1
  <2>3. Booked(p) /\ (p \notin adrift => Tidy(p))
    BY DEF BooksInv
  <2>4. Booked(p)'
    BY <2>1, <2>2, <2>3, BookedKept
  <2>5. ASSUME p \notin adrift' PROVE Tidy(p)'
    BY <2>1, <2>2, <2>3, <2>5, TidyKept
  <2> QED
    BY <2>4, <2>5
<1> QED
  BY <1>1

\* An answer or a refusal.
LEMMA EndMoves ==
    ASSUME TypeInv, NEW o \in Orders, NEW n \in Calls, NEW message,
           Answers(o, n, message) \/ Refuses(o, n)
    PROVE  /\ OtherCalls(o, n) /\ \A p \in Orders \ {o} : session'[p] = session[p]
           /\ adrift \subseteq adrift'
<1>1. OtherCalls(o, n)
  BY CallMoves DEF Answers, Refuses
<1>2. \A p \in Orders \ {o} : session'[p] = session[p]
  BY SessionMoves
<1>3. adrift \subseteq adrift'
  BY DEF Answers, Refuses
<1> QED
  BY <1>1, <1>2, <1>3

LEMMA PythonBooks ==
    ASSUME BooksInv, NEW o \in Orders, NEW n \in Calls, PythonStep(o, n)
    PROVE  (\A p \in Orders : Booked(p)') /\ \A p \in Orders \ adrift' : Tidy(p)'
<1> USE DEF BooksInv
<1>0. /\ UNCHANGED <<tx, file>> /\ "received" \in Early /\ "checked" \in Early
      /\ "accepted" \in Late
  BY DEF PythonStep, PythonReceives, PythonPosts, PythonAnswers, pythonOnly, rows, node,
         Early, Late
<1>1. CASE PythonReceives(o, n)
  <2>1. call[o][n].pc = "received" /\ InService(o, n) /\ UNCHANGED <<cache, sent>>
    BY <1>1 DEF PythonReceives, chain, InService
  <2>2. CASE cache[o] # NoMessage /\ Answers(o, n, cache[o])
    <3>1. Backed(o, cache[o])
      BY <2>2 DEF Booked
    <3>2. Booked(o)' /\ (o \notin adrift' => Tidy(o)')
      BY <1>0, <2>1, <2>2, <3>1, AnswersBooks
    <3> QED
      BY <1>0, <2>1, <2>2, <3>2, EndMoves, SignerBooks
  <2>3. CASE Proceeds(o, n, "checked")
    <3>1. Booked(o)' /\ (o \notin adrift' => Tidy(o)')
      BY <1>0, <2>1, <2>3, ProceedsBooks
    <3> QED
      BY <1>0, <2>1, <2>3, <3>1, CallMoves, SignerBooks DEF Proceeds
  <2>4. CASE Refuses(o, n)
    <3>1. Booked(o)' /\ (o \notin adrift' => Tidy(o)')
      BY <1>0, <2>1, <2>4, EndsBooks
    <3> QED
      BY <1>0, <2>1, <2>4, <3>1, EndMoves, SignerBooks
  <2> QED
    BY <1>1, <2>2, <2>3, <2>4 DEF PythonReceives
<1>2. CASE PythonPosts(o, n)
  <2>1. call[o][n].pc = "checked" /\ InService(o, n) /\ UNCHANGED cache
    BY <1>2 DEF PythonPosts, InService
  <2> DEFINE seqno == Seqno(call[o][n].wallet)
  <2>2. CASE /\ sent' = sent \cup {Message(o, n, seqno)} /\ UNCHANGED <<session, adrift>>
             /\ call' = [call EXCEPT ![o][n].pc = "accepted", ![o][n].message = Message(o, n, seqno)]
    <3>1. Booked(o)' /\ (o \notin adrift' => Tidy(o)')
      BY <1>0, <2>1, <2>2, PostsBooks
    <3>2. OtherCalls(o, n)
      BY <2>2, CallMoves
    <3>3. Message(o, n, seqno).order = o
      BY SeqnoType, MessageType
    <3> QED
      BY <1>0, <2>1, <2>2, <3>1, <3>2, <3>3, SignerBooks
  <2>3. CASE Refuses(o, n) /\ UNCHANGED sent
    <3>1. Booked(o)' /\ (o \notin adrift' => Tidy(o)')
      BY <1>0, <2>1, <2>3, EndsBooks
    <3> QED
      BY <1>0, <2>1, <2>3, <3>1, EndMoves, SignerBooks
  <2> QED
    BY <1>2, <2>2, <2>3 DEF PythonPosts
<1>3. CASE PythonAnswers(o, n)
  <2>1. call[o][n].pc = "accepted" /\ InService(o, n) /\ UNCHANGED sent
    BY <1>3 DEF PythonAnswers, chain, InService
  <2>2. CASE /\ Answers(o, n, call[o][n].message)
             /\ cache' = [cache EXCEPT ![o] = call[o][n].message]
    <3>1. Backed(o, call[o][n].message)
      BY <1>0, <2>1 DEF Booked
    <3>2. /\ cache'[o] \in {cache[o], call[o][n].message}
          /\ \A p \in Orders \ {o} : cache'[p] = cache[p]
      BY <2>2 DEF TypeInv, TonTypeOK
    <3>3. Booked(o)' /\ (o \notin adrift' => Tidy(o)')
      BY <1>0, <2>1, <2>2, <3>1, <3>2, AnswersBooks
    <3> QED
      BY <1>0, <2>1, <2>2, <3>2, <3>3, EndMoves, SignerBooks
  <2>3. CASE Refuses(o, n) /\ UNCHANGED cache
    <3>1. Booked(o)' /\ (o \notin adrift' => Tidy(o)')
      BY <1>0, <2>1, <2>3, EndsBooks
    <3> QED
      BY <1>0, <2>1, <2>3, <3>1, EndMoves, SignerBooks
  <2> QED
    BY <1>3, <2>2, <2>3 DEF PythonAnswers
<1> QED
  BY <1>1, <1>2, <1>3 DEF PythonStep

\* What the Node signer does with its file of the order.
LEMMA FileMoves ==
    ASSUME TypeInv, NEW o \in Orders
    PROVE  /\ \A status \in {"pending", "unknown"} :
                 file' = [file EXCEPT ![o].status = status] =>
                    /\ file'[o].status = status
                    /\ \A p \in Orders \ {o} : file'[p] = file[p]
           /\ \A status, message :
                 file' = [file EXCEPT ![o] = [status |-> status, message |-> message]] =>
                    /\ file'[o].message = message
                    /\ \A p \in Orders \ {o} : file'[p] = file[p]
<1>1. ASSUME NEW status, file' = [file EXCEPT ![o].status = status]
      PROVE  /\ file'[o].status = status
             /\ \A p \in Orders \ {o} : file'[p] = file[p]
  <2>1. file' = [file EXCEPT ![o] = [file[o] EXCEPT !.status = status]]
    BY <1>1, TypeParts DEF TypeInv
  <2> QED
    BY <2>1, TypeParts DEF TypeInv, FileType
<1>2. ASSUME NEW status, NEW message,
             file' = [file EXCEPT ![o] = [status |-> status, message |-> message]]
      PROVE  /\ file'[o].message = message
             /\ \A p \in Orders \ {o} : file'[p] = file[p]
  BY <1>2, TypeParts DEF TypeInv
<1> QED
  BY <1>1, <1>2

LEMMA NodeBooks ==
    ASSUME BooksInv, NEW o \in Orders, NEW n \in Calls, NodeStep(o, n)
    PROVE  (\A p \in Orders : Booked(p)') /\ \A p \in Orders \ adrift' : Tidy(p)'
<1> USE DEF BooksInv
<1>0. UNCHANGED <<tx, cache>>
  BY DEF NodeStep, NodeReceives, NodeReserves, NodeWritesPending, NodePosts,
         NodeUpdatesLedger, NodeAnswers, nodeOnly, rows
<1>1. ASSUME InService(o, n), Refuses(o, n), UNCHANGED sent,
             file' = file \/ file' = [file EXCEPT ![o].status = "unknown"]
      PROVE  (\A p \in Orders : Booked(p)') /\ \A p \in Orders \ adrift' : Tidy(p)'
  <2>1. /\ file'[o].status = "completed" => file'[o] = file[o]
        /\ \A p \in Orders \ {o} : file'[p] = file[p]
    BY <1>1, FileMoves
  <2>2. Booked(o)' /\ (o \notin adrift' => Tidy(o)')
    BY <1>0, <1>1, <2>1, EndsBooks
  <2> QED
    BY <1>0, <1>1, <2>1, <2>2, EndMoves, SignerBooks
<1>2. ASSUME NEW pc, Proceeds(o, n, pc), UNCHANGED sent,
             \/ call[o][n].pc \in Early /\ pc \in Early
             \/ call[o][n].pc \in Late /\ pc \in Late,
             file' = file \/ file' = [file EXCEPT ![o].status = "pending"]
      PROVE  (\A p \in Orders : Booked(p)') /\ \A p \in Orders \ adrift' : Tidy(p)'
  <2>1. /\ file'[o].status = "completed" => file'[o] = file[o]
        /\ \A p \in Orders \ {o} : file'[p] = file[p]
    BY <1>2, FileMoves
  <2>2. Booked(o)' /\ (o \notin adrift' => Tidy(o)')
    BY <1>0, <1>2, <2>1, ProceedsBooks
  <2>3. OtherCalls(o, n) /\ UNCHANGED <<session, adrift>>
    BY <1>2, CallMoves DEF Proceeds
  <2> QED
    BY <1>0, <1>2, <2>1, <2>2, <2>3, SignerBooks
<1>3. CASE NodeReceives(o, n)
  <2>1. /\ call[o][n].pc = "received" /\ InService(o, n) /\ UNCHANGED <<file, sent>>
        /\ "received" \in Early /\ "locked" \in Early
    BY <1>3 DEF NodeReceives, At, InService, Early
  <2>2. CASE Done(o) /\ Answers(o, n, file[o].message)
    <3>1. Backed(o, file[o].message)
      BY <2>2 DEF Booked, Done
    <3>2. Booked(o)' /\ (o \notin adrift' => Tidy(o)')
      BY <1>0, <2>1, <2>2, <3>1, AnswersBooks
    <3> QED
      BY <1>0, <2>1, <2>2, <3>2, EndMoves, SignerBooks
  <2> QED
    BY <1>1, <1>2, <1>3, <2>1, <2>2 DEF NodeReceives
<1>4. CASE NodeReserves(o, n)
  <2>1. /\ call[o][n].pc = "locked" /\ InService(o, n) /\ UNCHANGED <<file, sent>>
        /\ "locked" \in Early /\ "reserved" \in Early
    BY <1>4 DEF NodeReserves, At, InService, Early
  <2> QED
    BY <1>1, <1>2, <1>4, <2>1 DEF NodeReserves
<1>5. CASE NodeWritesPending(o, n)
  <2>1. call[o][n].pc = "reserved" /\ "reserved" \in Early /\ "pending" \in Early
    BY <1>5 DEF NodeWritesPending, At, Early
  <2> QED
    BY <1>2, <1>5, <2>1 DEF NodeWritesPending
<1>6. CASE NodePosts(o, n)
  <2>1. call[o][n].pc = "pending" /\ InService(o, n) /\ "pending" \in Early
    BY <1>6 DEF NodePosts, At, InService, Early
  <2>2. ASSUME NEW seqno \in Nat, sent' = sent \cup {Message(o, n, seqno)},
               UNCHANGED <<session, adrift, file>>,
               call' = [call EXCEPT ![o][n].pc = "accepted", ![o][n].message = Message(o, n, seqno)]
        PROVE  (\A p \in Orders : Booked(p)') /\ \A p \in Orders \ adrift' : Tidy(p)'
    <3>1. Booked(o)' /\ (o \notin adrift' => Tidy(o)')
      BY <1>0, <2>1, <2>2, PostsBooks
    <3>2. OtherCalls(o, n)
      BY <2>2, CallMoves
    <3>3. Message(o, n, seqno).order = o
      BY MessageType
    <3> QED
      BY <1>0, <2>1, <2>2, <3>1, <3>2, <3>3, SignerBooks
  <2> QED
    BY <1>1, <1>6, <2>1, <2>2, SeqnoType DEF NodePosts, NodeFails
<1>7. CASE NodeUpdatesLedger(o, n)
  <2>1. /\ call[o][n].pc = "accepted" /\ InService(o, n) /\ UNCHANGED sent
        /\ "accepted" \in Late /\ "ledgered" \in Late
    BY <1>7 DEF NodeUpdatesLedger, At, InService, Late
  <2> QED
    BY <1>1, <1>2, <1>7, <2>1 DEF NodeUpdatesLedger, NodeFails
<1>8. CASE NodeAnswers(o, n)
  <2>1. /\ call[o][n].pc = "ledgered" /\ UNCHANGED sent /\ "ledgered" \in Late
        /\ Answers(o, n, call[o][n].message)
        /\ file' = [file EXCEPT ![o] = [status |-> "completed", message |-> call[o][n].message]]
    BY <1>8 DEF NodeAnswers, At, Late
  <2>2. Backed(o, call[o][n].message)
    BY <2>1 DEF Booked
  <2>3. /\ file'[o].message = call[o][n].message
        /\ \A p \in Orders \ {o} : file'[p] = file[p]
    BY <2>1, FileMoves
  <2>4. Booked(o)' /\ (o \notin adrift' => Tidy(o)')
    BY <1>0, <2>1, <2>2, <2>3, AnswersBooks
  <2> QED
    BY <1>0, <2>1, <2>3, <2>4, EndMoves, SignerBooks
<1> QED
  BY <1>3, <1>4, <1>5, <1>6, <1>7, <1>8 DEF NodeStep

\* When a signer dies, what waits for it is rolled back.
LEMMA RestartBooks ==
    ASSUME BooksInv, PythonRestarts \/ NodeRestarts
    PROVE  (\A p \in Orders : Booked(p)') /\ \A p \in Orders \ adrift' : Tidy(p)'
<1> USE DEF BooksInv
<1>1. /\ AllFail /\ UNCHANGED <<tx, file, sent>>
      /\ cache' = cache \/ cache' = [o \in Orders |-> NoMessage]
  BY DEF PythonRestarts, NodeRestarts, rows, node, chain, nodeOnly
<1>2. ASSUME NEW o \in Orders PROVE Booked(o)' /\ (o \notin adrift' => Tidy(o)')
  <2>1. \A n \in Calls : call'[o][n] = IF InService(o, n) THEN DoneCall ELSE call[o][n]
    BY <1>1 DEF AllFail
  <2>2. IF session[o].pc = "signing" THEN session'[o] = Closed /\ o \in adrift'
        ELSE session'[o] = session[o] /\ adrift \subseteq adrift'
    BY <1>1 DEF AllFail
  <2>3. \A n \in Calls : call'[o][n].pc \in Late => call'[o][n] = call[o][n]
    <3>1. DoneCall.pc \notin Late
      BY DEF DoneCall, NoCall, Late
    <3> QED
      BY <2>1, <3>1
  <2>4. cache'[o] \in {cache[o], NoMessage}
    BY <1>1
  <2>5. Booked(o)'
    <3>1. CASE session[o].pc = "signing"
      BY <1>1, <2>2, <2>3, <2>4, <3>1, ClosedFacts DEF Booked, Backed, UnderWay
    <3>2. CASE session[o].pc # "signing"
      BY <1>1, <2>2, <2>3, <2>4, <3>2 DEF Booked, Backed, UnderWay
    <3> QED
      BY <3>1, <3>2
  <2>6. ASSUME o \notin adrift' PROVE Tidy(o)'
    <3>1. session[o].pc # "signing" /\ session'[o] = session[o] /\ o \notin adrift
      BY <2>2, <2>6
    <3>2. \A n \in Calls : call'[o][n] = call[o][n]
      BY <2>1, <3>1, Quiet
    <3> QED
      BY <1>1, <3>1, <3>2, TidyKept
  <2> QED
    BY <2>5, <2>6
<1> QED
  BY <1>2

\* The chain, what is found on it and what administrators do.
LEMMA ReconcileBooks ==
    ASSUME BooksInv, NEW o \in Orders, Reconcile(o)
    PROVE  (\A p \in Orders : Booked(p)') /\ \A p \in Orders \ adrift' : Tidy(p)'
<1> USE DEF BooksInv
<1> DEFINE new == [tx[o] EXCEPT !.status = "CONFIRMED"]
<1>1. /\ new.status = "CONFIRMED" /\ new.message = tx[o].message
      /\ new.wallet = tx[o].wallet /\ new.amount = tx[o].amount
  BY TypeParts DEF TypeInv, TxType
<1>2. /\ tx[o].status = "BROADCASTED" /\ tx' = [tx EXCEPT ![o] = new]
      /\ UNCHANGED <<session, call, cache, file, sent, adrift>>
  BY TypeParts DEF Reconcile, TypeInv, node, chain, history
<1> HIDE DEF new
<1>3. tx'[o] = new /\ \A p \in Orders \ {o} : tx'[p] = tx[p]
  BY <1>2, TypeParts DEF TypeInv
<1>4. Booked(o)'
  BY <1>1, <1>2, <1>3 DEF Booked, Backed, UnderWay, Broadcast
<1>5. ASSUME o \notin adrift PROVE Tidy(o)'
  BY <1>1, <1>2, <1>3, <1>5 DEF Tidy, Fits, InService, Listening, Broadcast
<1> QED
  BY <1>2, <1>3, <1>4, <1>5, SessionBooks

LEMMA BooksStep == BooksInv /\ [TonNext]_vars => BooksInv'
<1> SUFFICES ASSUME BooksInv, [TonNext]_vars PROVE BooksInv'
  OBVIOUS
<1> DEFINE Books == (\A p \in Orders : Booked(p)') /\ \A p \in Orders \ adrift' : Tidy(p)'
<1>1. TypeInv'
  BY TypeStep DEF BooksInv
<1>2. ASSUME UNCHANGED <<session, call, cache, file, tx, sent, adrift>> PROVE Books
  BY <1>2, BookedKept, TidyKept DEF BooksInv
<1>3. ASSUME NEW o \in Orders, SessionStep(o) PROVE Books
  BY <1>3, OpenBooks, EndBooks, CommitBooks, RollbackBooks, ReserveBooks DEF SessionStep
<1>4. ASSUME NEW m, Mine(m) PROVE Books
  BY <1>2, <1>4 DEF Mine, rows, node, history
<1>5. ASSUME NEW w, UpdateHotWallet(w) PROVE Books
  BY <1>2, <1>5 DEF UpdateHotWallet, node, chain, history
<1>6. ASSUME NEW s, UpdateSchema(s) PROVE Books
  BY <1>2, <1>6 DEF UpdateSchema, node, chain, history
<1>7. ASSUME UNCHANGED vars PROVE Books
  BY <1>2, <1>7 DEF vars, rows, node, chain, history
<1>8. Books
  BY <1>3, <1>4, <1>5, <1>6, <1>7, ReconcileBooks, PythonBooks, NodeBooks, RestartBooks
     DEF TonNext
<1> QED
  BY <1>1, <1>8 DEF BooksInv

LEMMA InitBooks == TonInit => BooksInv
<1> SUFFICES ASSUME TonInit PROVE BooksInv
  OBVIOUS
<1>1. TypeInv
  BY InitTypes
<1>2. ASSUME NEW o \in Orders PROVE Booked(o) /\ Tidy(o)
  <2>1. /\ tx[o].status = "NONE" /\ tx[o].message = NoMessage
        /\ session[o] = Closed /\ cache[o] = NoMessage /\ file[o].status = "none"
        /\ \A n \in Calls : call[o][n].pc = "none"
        /\ sent = {}
    BY DEF TonInit, NoTx, NoCall
  <2> QED
    BY <2>1, ClosedFacts DEF Booked, Tidy, UnderWay, InService, Early, Late, Broadcast
<1> QED
  BY <1>1, <1>2 DEF BooksInv

LEMMA BooksInvariant == TonSpec => []BooksInv
BY InitBooks, BooksStep, PTL DEF TonSpec

\* BooksAreTrue, for any number of orders, wallets, calls and faults: what the API
\* recorded as broadcast was sent for the order, from its wallet and for its amount,
\* and what was sent is recorded, unless a transaction was rolled back after its call.
THEOREM KeepsTrueBooks == TonSpec => []BooksAreTrue
<1>1. BooksInv => BooksAreTrue
  <2> SUFFICES ASSUME BooksInv PROVE BooksAreTrue
    OBVIOUS
  <2>1. ASSUME NEW o \in Orders, tx[o].status \in Broadcast
        PROVE  /\ tx[o].message \in sent /\ tx[o].message.order = o
               /\ \/ <<tx[o].message.wallet, tx[o].message.amount>> = <<tx[o].wallet, tx[o].amount>>
                  \/ o \in adrift
    <3>1. Backed(o, tx[o].message)
      BY <2>1 DEF BooksInv, Booked
    <3>2. o \in adrift \/ (/\ tx[o].message.wallet = tx[o].wallet
                          /\ tx[o].message.amount = tx[o].amount)
      BY <2>1 DEF BooksInv, Tidy
    <3> QED
      BY <3>1, <3>2 DEF Backed
  <2>2. ASSUME NEW m \in sent, m.order \notin adrift
        PROVE  tx[m.order].message = m \/ UnderWay(m.order)
    <3>1. m.order \in Orders
      BY DEF BooksInv, TypeInv
    <3>2. Tidy(m.order)
      BY <2>2, <3>1 DEF BooksInv
    <3>3. ASSUME NEW n \in Calls, call[m.order][n].pc \in Late PROVE UnderWay(m.order)
      BY <3>1, <3>2, <3>3, StageFacts DEF Tidy, Listening, UnderWay, BooksInv
    <3> QED
      BY <3>2, <3>3 DEF Tidy, UnderWay
  <2> QED
    BY <2>1, <2>2 DEF BooksAreTrue
<1> QED
  BY <1>1, BooksInvariant, PTL
=============================================================================
