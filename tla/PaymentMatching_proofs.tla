----------------------- MODULE PaymentMatching_proofs -----------------------
(***************************************************************************)
(* Proofs about PaymentMatching: deposits and orders are settled once, by a *)
(* transfer of their sum (the refinement of Receivables); a transfer that   *)
(* is reported again settles nothing more; a transfer settles the row its   *)
(* payer meant, except where the amount was in use twice; and the scan      *)
(* leaves no transfer behind that it has not dealt with.                    *)
(***************************************************************************)
EXTENDS PaymentMatching, FiniteSetTheorems, TLAPS

\* A row that was created waits for one sum, and has no transfer until it is paid.
RowsHaveSums ==
    \A r \in Rows :
        /\ row[r].status # "NONE" => \E sum \in Sums : row[r].sum = {sum}
        /\ row[r].status # "PAID" => row[r].by = Nobody

\* The row a transaction is about to settle can be settled by the transfer.
WritesFit ==
    \A s \in Sessions, t \in Transfers :
        LET r == session[s].writes[t].row IN
        r # Nobody => /\ row[r].status \in {"WAIT_PAY", "TIMEOUT"}
                      /\ row[r].sum = chain[t].sum

\* No two writes settle the same row.
OneWriter ==
    \A s, u \in Sessions, t, v \in Transfers :
        LET r == session[s].writes[t].row IN
        r # Nobody /\ session[u].writes[v].row = r => s = u /\ t = v

PartsInv == MatchingTypeOK /\ RowsHaveSums /\ WritesFit /\ OneWriter

----------------------------------------------------------------------------
(* Types.                                                                  *)

RowType == [status : {"NONE", "WAIT_PAY", "TIMEOUT", "PAID"}, sum : SUBSET Sums,
            recent : BOOLEAN, expired : BOOLEAN, by : Transfers \cup {Nobody}]

ChainType == [sum : SUBSET Sums, for : Rows \cup {Nobody}, block : Nat]

SessionType ==
    [open : BOOLEAN, reported : SUBSET Transfers, todo : SUBSET Transfers,
     deep : SUBSET Transfers, visited : SUBSET Wallets, scanned : [Wallets -> Nat],
     skipped : SUBSET Transfers, enabled : SUBSET Wallets, known : SUBSET Transfers,
     matched : SUBSET Transfers, writes : [Transfers -> Write]]

LEMMA TransferFacts == Transfers \subseteq Nat /\ Nobody \notin Transfers /\ Nobody \notin Rows
BY MatchingAssumption DEF Transfers, Rows, Nobody

LEMMA RowUpdate ==
    ASSUME NEW x \in RowType
    PROVE  /\ \A sum \in SUBSET Sums : [x EXCEPT !.status = "WAIT_PAY", !.sum = sum] \in RowType
           /\ [x EXCEPT !.status = "TIMEOUT", !.expired = TRUE] \in RowType
           /\ [x EXCEPT !.recent = FALSE] \in RowType
           /\ \A t \in Transfers : [x EXCEPT !.status = "PAID", !.by = t] \in RowType
BY DEF RowType

LEMMA MinOfTwo ==
    ASSUME NEW a \in Nat, NEW b \in Nat
    PROVE  Min({a, b}) \in {a, b} /\ Min({a, b}) <= a /\ Min({a, b}) <= b
<1>1. \E x \in {a, b} : \A y \in {a, b} : x <= y
  OBVIOUS
<1> QED
  BY <1>1 DEF Min

\* What the state is made of.
LEMMA TypeParts ==
    ASSUME MatchingTypeOK
    PROVE  /\ row \in [Rows -> RowType]
           /\ chain \in [Transfers -> ChainType]
           /\ session \in [Sessions -> SessionType]
BY DEF MatchingTypeOK, RowType, ChainType, SessionType

\* The transfers a transaction has for a row are one.
LEMMA SettlingIsOne ==
    ASSUME OneWriter, NEW s \in Sessions, NEW r \in Rows, Settling(s, r) # {}
    PROVE  \E t \in Transfers : Settling(s, r) = {t} /\ Max(Settling(s, r)) = t
<1>1. PICK t \in Settling(s, r) : TRUE
  OBVIOUS
<1>2. Settling(s, r) = {t} /\ t \in Transfers
  BY <1>1, TransferFacts DEF Settling, Wrote, OneWriter
<1>3. Max({t}) = t
  BY <1>2, TransferFacts DEF Max
<1> QED
  BY <1>2, <1>3

LEMMA WriteFacts ==
    /\ NoWrite \in Write
    /\ [NoWrite EXCEPT !.status = "DETECTED"] \in Write
    /\ [NoWrite EXCEPT !.status = "UNMATCHED"] \in Write
    /\ \A r \in Rows, c \in BOOLEAN : [status |-> "MATCHED", row |-> r, credited |-> c] \in Write
BY DEF Write, NoWrite, Statuses, Nobody

LEMMA ClosedIsSession == Closed \in SessionType
BY WriteFacts DEF Closed, SessionType

LEMMA BeginIsSession == ASSUME MatchingTypeOK PROVE Begin \in SessionType
BY ClosedIsSession DEF Begin, Closed, SessionType, MatchingTypeOK

LEMMA SessionUpdate ==
    ASSUME NEW x \in SessionType, NEW todo \in SUBSET Transfers, NEW deep \in SUBSET Transfers,
           NEW skipped \in SUBSET Transfers, NEW t \in Transfers, NEW write \in Write
    PROVE  /\ [x EXCEPT !.todo = todo, !.deep = deep, !.writes[t] = write] \in SessionType
           /\ [x EXCEPT !.todo = todo, !.deep = deep, !.skipped = skipped,
                        !.writes[t] = write] \in SessionType
BY DEF SessionType

\* A scan that comes to a wallet is the visit of the wallet with a page, a cursor
\* and transfers passed over.
LEMMA ScanVisits ==
    ASSUME MatchingTypeOK, NEW w \in Wallets, ScanWallet(w)
    PROVE  /\ NextWallet(w)
           /\ \E page \in SUBSET At(w), last \in Nat, skipped \in SUBSET Transfers :
                 \E deep \in SUBSET page : Visit(w, page, deep, last, skipped)
           /\ UNCHANGED rare \/ Rare
<1>1. session["scan"].scanned[w] \in Nat /\ height \in Nat
  BY DEF MatchingTypeOK, Sessions
<1>2. CASE ScanFails(w)
  BY <1>1, <1>2 DEF ScanFails
<1>3. CASE ScanTron(w)
  <2>1. PICK page \in SUBSET At(w) : \E to \in {height, session["scan"].scanned[w]} \cup
                                                {chain[t].block : t \in page} :
                                        Visit(w, page, page, to, {})
    BY <1>3 DEF ScanTron
  <2>2. \A t \in page : chain[t].block \in Nat
    BY TypeParts DEF ChainType, At
  <2> QED
    BY <1>1, <1>3, <2>1, <2>2 DEF ScanTron
<1>4. CASE ScanEvm(w)
  <2> DEFINE last == session["scan"].scanned[w]
             from == IF last = 0 THEN Back(height, First) ELSE Back(last, Repeated)
             to   == Min({height, from + Chunk - 1})
             logs == {t \in At(w) : chain[t].block \in from..to}
             deep == {t \in logs : Confirmed(t, MinConfirmations)}
             early == IF last = 0 THEN Before(w, from) ELSE {}
  <2>1. from \in Nat /\ from + Chunk - 1 \in Nat
    BY <1>1, MatchingAssumption DEF Back
  <2>2. to \in Nat
    BY <1>1, <2>1, MinOfTwo
  <2>3. logs \in SUBSET At(w) /\ deep \in SUBSET logs
        /\ logs \in SUBSET Transfers /\ early \in SUBSET Transfers
    BY DEF At, Before
  <2>4. /\ NextWallet(w)
        /\ \/ Visit(w, logs, deep, to, early) /\ UNCHANGED rare
           \/ Visit(w, {}, {}, to, early \cup logs) /\ Rare
    BY <1>4 DEF ScanEvm
  <2> HIDE DEF to, logs, deep, early
  <2> QED
    BY <2>2, <2>3, <2>4
<1> QED
  BY <1>2, <1>3, <1>4 DEF ScanWallet

LEMMA VisitFacts ==
    ASSUME MatchingTypeOK, NEW w \in Wallets, NEW page, NEW deep, NEW last, NEW skipped,
           Visit(w, page, deep, last, skipped)
    PROVE  LET scan == session["scan"]
               new  == session'["scan"] IN
           /\ new.open = scan.open /\ new.matched = scan.matched /\ new.writes = scan.writes
           /\ new.todo = page /\ new.deep = deep /\ new.skipped = scan.skipped \cup skipped
           /\ \A u \in Wallets : new.scanned[u] = IF u = w THEN last ELSE scan.scanned[u]
           /\ \A u \in Sessions \ {"scan"} : session'[u] = session[u]
           /\ UNCHANGED <<row, chain, tx, enabled, height, tron, scanned, overlap, torn,
                          dropped, raced>>
<1> DEFINE scan == session["scan"]
           new  == [scan EXCEPT !.visited = @ \cup {w}, !.todo = page, !.deep = deep,
                    !.scanned = [@ EXCEPT ![w] = last], !.skipped = @ \cup skipped]
<1>0. scan \in SessionType /\ "scan" \in Sessions
  BY TypeParts DEF Sessions
<1>1. session' = [session EXCEPT !["scan"] = new]
  BY TypeParts DEF Visit
<1>2. /\ new.open = scan.open /\ new.matched = scan.matched /\ new.writes = scan.writes
      /\ new.todo = page /\ new.deep = deep /\ new.skipped = scan.skipped \cup skipped
      /\ \A u \in Wallets : new.scanned[u] = IF u = w THEN last ELSE scan.scanned[u]
  BY <1>0 DEF SessionType
<1> HIDE DEF new
<1>3. session'["scan"] = new /\ \A u \in Sessions \ {"scan"} : session'[u] = session[u]
  BY <1>0, <1>1, TypeParts
<1> QED
  BY <1>2, <1>3 DEF Visit, cursor, history

LEMMA DoneType ==
    ASSUME MatchingTypeOK, NEW s \in Sessions, NEW t \in Transfers, NEW write \in Write,
           Done(s, t, write)
    PROVE  MatchingTypeOK'
<1>1. session[s] \in SessionType
  BY DEF MatchingTypeOK, SessionType
<1>2. [session[s] EXCEPT !.todo = @ \ {t}, !.deep = @ \ {t}, !.writes[t] = write] \in SessionType
  <2>1. session[s].todo \ {t} \in SUBSET Transfers /\ session[s].deep \ {t} \in SUBSET Transfers
    BY <1>1 DEF SessionType
  <2> QED
    BY <1>1, <2>1, SessionUpdate
<1>3. session' \in [Sessions -> SessionType]
  BY <1>1, <1>2 DEF Done, MatchingTypeOK, SessionType
<1> QED
  BY <1>3 DEF Done, MatchingTypeOK, SessionType, cursor, history

LEMMA TypeStep ==
    ASSUME MatchingTypeOK, OneWriter, [MatchingNext]_vars
    PROVE  MatchingTypeOK'
<1> USE TransferFacts
<1>1. ASSUME NEW r \in Rows, Create(r) PROVE MatchingTypeOK'
  <2>1. PICK w \in Wallets, used \in SUBSET InUse :
           \E sum \in SumsFor(r, w, used) :
              row' = [row EXCEPT ![r].status = "WAIT_PAY", ![r].sum = {sum}]
    BY <1>1 DEF Create
  <2>2. SumsFor(r, w, used) \subseteq Sums
    BY DEF SumsFor, Sums
  <2>3. row' \in [Rows -> RowType]
    <3>1. PICK sum \in Sums :
             row' = [row EXCEPT ![r] = [row[r] EXCEPT !.status = "WAIT_PAY", !.sum = {sum}]]
      BY <2>1, <2>2, TypeParts
    <3> QED
      BY <3>1, TypeParts, RowUpdate
  <2>4. raced' \subseteq Rows
    BY <1>1 DEF Create, MatchingTypeOK
  <2> QED
    BY <1>1, <2>3, <2>4 DEF Create, MatchingTypeOK, RowType, cursor
<1>2. ASSUME NEW r \in Rows, Expire(r) PROVE MatchingTypeOK'
  <2>1. row' = [row EXCEPT ![r] = [row[r] EXCEPT !.status = "TIMEOUT", !.expired = TRUE]]
    BY <1>2, TypeParts DEF Expire
  <2>2. row' \in [Rows -> RowType]
    BY <2>1, TypeParts, RowUpdate
  <2> QED
    BY <1>2, <2>2 DEF Expire, MatchingTypeOK, RowType, cursor, history
<1>3. ASSUME NEW r \in Rows, DayPasses(r) PROVE MatchingTypeOK'
  <2>1. row' = [row EXCEPT ![r] = [row[r] EXCEPT !.recent = FALSE]]
    BY <1>3, TypeParts DEF DayPasses
  <2>2. row' \in [Rows -> RowType]
    BY <2>1, TypeParts, RowUpdate
  <2>3. rare' \in 0..MaxRare
    BY <1>3, MatchingAssumption DEF DayPasses, Rare, MatchingTypeOK
  <2> QED
    BY <1>3, <2>2, <2>3 DEF DayPasses, MatchingTypeOK, RowType, cursor, history
<1>4. ASSUME NEW w \in Wallets, UpdateWallet(w) PROVE MatchingTypeOK'
  BY <1>4, MatchingAssumption DEF UpdateWallet, Rare, MatchingTypeOK, cursor, history
<1>5. ASSUME NEW t \in Transfers, NEW r \in Rows, Pay(t, r) PROVE MatchingTypeOK'
  <2>1. [sum |-> row[r].sum, for |-> r, block |-> height + 1] \in ChainType
    BY DEF MatchingTypeOK, ChainType
  <2>2. chain' \in [Transfers -> ChainType]
    BY <1>5, <2>1, TypeParts DEF Pay
  <2> QED
    BY <1>5, <2>2 DEF Pay, MatchingTypeOK, ChainType, cursor, history
<1>6. CASE Grow
  BY <1>6 DEF Grow, MatchingTypeOK, history
<1>7. ASSUME NEW t \in Transfers, WebhookBegins(t) PROVE MatchingTypeOK'
  <2>1. \A deep \in SUBSET Transfers :
           [Begin EXCEPT !.reported = {t}, !.todo = {t}, !.deep = deep] \in SessionType
    BY BeginIsSession DEF SessionType
  <2>2. PICK deep \in SUBSET Transfers :
           session' = [session EXCEPT !["webhook"] =
              [Begin EXCEPT !.reported = {t}, !.todo = {t}, !.deep = deep]]
    <3>1. {u \in {t} : Confirmed(u, MinConfirmations)} \in SUBSET Transfers
      OBVIOUS
    <3> QED
      BY <1>7, <3>1 DEF WebhookBegins
  <2>3. session' \in [Sessions -> SessionType]
    BY <2>1, <2>2, TypeParts
  <2> QED
    BY <1>7, <2>3 DEF WebhookBegins, MatchingTypeOK, SessionType, cursor
<1>8. CASE ScanBegins
  <2>1. [Begin EXCEPT !.scanned = scanned] \in SessionType
    BY BeginIsSession DEF SessionType, MatchingTypeOK
  <2>2. session' \in [Sessions -> SessionType]
    BY <1>8, <2>1 DEF ScanBegins, MatchingTypeOK, SessionType
  <2> QED
    BY <1>8, <2>2 DEF ScanBegins, MatchingTypeOK, SessionType, cursor
<1>9. ASSUME NEW w \in Wallets, ScanWallet(w) PROVE MatchingTypeOK'
  <2>1. PICK page \in SUBSET At(w), last \in Nat, skipped \in SUBSET Transfers :
           \E deep \in SUBSET page : Visit(w, page, deep, last, skipped)
    BY <1>9, ScanVisits
  <2>2. PICK deep \in SUBSET page : Visit(w, page, deep, last, skipped)
    BY <2>1
  <2>3. page \in SUBSET Transfers /\ deep \in SUBSET Transfers
    BY DEF At
  <2> DEFINE new == [session["scan"] EXCEPT !.visited = @ \cup {w}, !.todo = page,
                        !.deep = deep, !.scanned = [@ EXCEPT ![w] = last],
                        !.skipped = @ \cup skipped]
  <2>4. session["scan"] \in SessionType
    BY TypeParts DEF Sessions
  <2>5. new \in SessionType
    BY <2>3, <2>4 DEF SessionType
  <2>6. session' = [session EXCEPT !["scan"] = new]
    BY <2>2, TypeParts DEF Visit
  <2> HIDE DEF new
  <2>7. session' \in [Sessions -> SessionType]
    BY <2>5, <2>6, TypeParts
  <2>8. rare' \in 0..MaxRare
    BY <1>9, ScanVisits, MatchingAssumption DEF Rare, MatchingTypeOK
  <2> QED
    BY <2>2, <2>7, <2>8 DEF Visit, MatchingTypeOK, SessionType, cursor, history
<1>10. ASSUME NEW s \in Sessions, NEW t \in Transfers, IngestMatched(s, t)
       PROVE  MatchingTypeOK'
  BY <1>10, DoneType, WriteFacts DEF IngestMatched
<1>11. ASSUME NEW s \in Sessions, NEW t \in Transfers, IngestShallow(s, t)
       PROVE  MatchingTypeOK'
  BY <1>11, DoneType, WriteFacts DEF IngestShallow
<1>12. ASSUME NEW s \in Sessions, NEW t \in Transfers, IngestUnmatched(s, t)
       PROVE  MatchingTypeOK'
  BY <1>12, DoneType, WriteFacts DEF IngestUnmatched
<1>13. ASSUME NEW s \in Sessions, NEW t \in Transfers, NEW r \in Rows, IngestMatch(s, t, r)
       PROVE  MatchingTypeOK'
  BY <1>13, DoneType, WriteFacts DEF IngestMatch
<1>14. ASSUME NEW t \in Transfers, NEW r \in Rows, CreditFails(t, r) PROVE MatchingTypeOK'
  <2> DEFINE write == [status |-> "MATCHED", row |-> r, credited |-> FALSE]
  <2>1. session["scan"] \in SessionType /\ write \in Write
    BY WriteFacts DEF MatchingTypeOK, SessionType, Sessions
  <2> HIDE DEF write
  <2>2. [session["scan"] EXCEPT !.todo = {}, !.deep = {},
                !.skipped = session["scan"].skipped \cup (session["scan"].todo \ {t}),
                !.writes[t] = write] \in SessionType
    <3>1. session["scan"].skipped \cup (session["scan"].todo \ {t}) \in SUBSET Transfers
      BY <2>1 DEF SessionType
    <3> QED
      BY <2>1, <3>1, SessionUpdate
  <2>3. session' = [session EXCEPT !["scan"] =
                      [session["scan"] EXCEPT !.todo = {}, !.deep = {},
                         !.skipped = session["scan"].skipped \cup (session["scan"].todo \ {t}),
                         !.writes[t] = write]]
    BY <1>14 DEF CreditFails, MatchingTypeOK, Sessions, write
  <2>4. session' \in [Sessions -> SessionType]
    BY <2>2, <2>3 DEF MatchingTypeOK, SessionType
  <2>5. torn' \subseteq Transfers /\ dropped' \subseteq Transfers /\ rare' \in 0..MaxRare
    BY <1>14, <2>1, MatchingAssumption DEF CreditFails, Rare, MatchingTypeOK, SessionType
  <2> QED
    BY <1>14, <2>4, <2>5 DEF CreditFails, MatchingTypeOK, SessionType, cursor
<1>15. ASSUME NEW s \in Sessions, Rollback(s) PROVE MatchingTypeOK'
  BY <1>15, ClosedIsSession, MatchingAssumption
     DEF Rollback, Close, Rare, MatchingTypeOK, SessionType, cursor, history
<1>16. ASSUME NEW s \in Sessions, Commit(s) PROVE MatchingTypeOK'
  <2>1. session' \in [Sessions -> SessionType]
    BY <1>16, ClosedIsSession DEF Commit, Close, MatchingTypeOK, SessionType
  <2>2. \A t \in Transfers : session[s].writes[t] \in Write
    BY DEF MatchingTypeOK
  <2>3. \A t \in Transfers :
           Written(t, session[s].writes[t]) \in
              [status : Statuses, deposit : Rows \cup {Nobody}, order : Rows \cup {Nobody}]
    BY <2>2 DEF Written, Write, MatchingTypeOK
  <2>4. tx' \in [Transfers -> [status : Statuses, deposit : Rows \cup {Nobody},
                                order : Rows \cup {Nobody}]]
    BY <1>16, <2>3 DEF Commit
  <2>5. ASSUME NEW r \in Rows, Settling(s, r) # {} PROVE Max(Settling(s, r)) \in Transfers
    BY <2>5, SettlingIsOne
  <2>6. row' \in [Rows -> RowType]
    BY <1>16, <2>5, TypeParts, RowUpdate DEF Commit
  <2>7. scanned' \in [Wallets -> Nat] /\ dropped' \subseteq Transfers
    <3>1. session[s] \in SessionType
      BY TypeParts
    <3> QED
      BY <1>16, <3>1 DEF Commit, SessionType, MatchingTypeOK
  <2> QED
    BY <1>16, <2>1, <2>4, <2>6, <2>7
       DEF Commit, MatchingTypeOK, SessionType, RowType
<1>17. CASE UNCHANGED vars
  BY <1>17 DEF vars, cursor, history, MatchingTypeOK
<1> QED
  BY <1>1, <1>2, <1>3, <1>4, <1>5, <1>6, <1>7, <1>8, <1>9, <1>10, <1>11, <1>12, <1>13,
     <1>14, <1>15, <1>16, <1>17
     DEF MatchingNext, SessionStep, Ingest, RowStep, TransferStep, WalletStep

----------------------------------------------------------------------------
(* What steps do to the rows, the transfers and the writes.                *)

\* What the actions leave alone.
LEMMA Keeps ==
    /\ \A r \in Rows : Create(r) \/ Expire(r) \/ DayPasses(r) =>
          UNCHANGED <<chain, tx, enabled, session, cursor, overlap, torn, dropped>>
    /\ \A r \in Rows : Expire(r) \/ DayPasses(r) => UNCHANGED raced
    /\ \A w \in Wallets : UpdateWallet(w) => UNCHANGED <<row, chain, tx, session, cursor, history>>
    /\ \A w \in Wallets : ScanWallet(w) => UNCHANGED <<row, chain, tx, enabled, cursor, history>>
    /\ \A t \in Transfers : WebhookBegins(t) =>
          /\ UNCHANGED <<row, chain, tx, enabled, cursor, torn, dropped, raced>>
          /\ overlap \subseteq overlap'
    /\ ScanBegins => /\ UNCHANGED <<row, chain, tx, enabled, cursor, torn, dropped, raced>>
                     /\ overlap \subseteq overlap'
    /\ \A t \in Transfers, r \in Rows :
          /\ Pay(t, r) => UNCHANGED <<row, tx, enabled, session, cursor, history>>
          /\ CreditFails(t, r) =>
                /\ UNCHANGED <<row, chain, tx, enabled, cursor, overlap, dropped, raced>>
                /\ torn \subseteq torn'
    /\ Grow => /\ UNCHANGED <<row, chain, tx, enabled, session, tron, scanned, history>>
               /\ height' = height + 1
    /\ \A s \in Sessions, t \in Transfers :
          \/ IngestMatched(s, t) \/ IngestShallow(s, t) \/ IngestUnmatched(s, t)
          \/ \E r \in Rows : IngestMatch(s, t, r)
          => UNCHANGED <<row, chain, tx, enabled, cursor, history>>
    /\ \A s \in Sessions :
          /\ Rollback(s) => UNCHANGED <<row, chain, tx, enabled, cursor, history>>
          /\ Commit(s) => /\ UNCHANGED <<chain, height, tron, enabled, overlap, torn, raced>>
                          /\ dropped \subseteq dropped'
<1>1. ASSUME NEW r \in Rows, Create(r) \/ Expire(r) \/ DayPasses(r)
      PROVE  UNCHANGED <<chain, tx, enabled, session, cursor, overlap, torn, dropped>>
  BY <1>1 DEF Create, Expire, DayPasses, history
<1>2. ASSUME NEW r \in Rows, Expire(r) \/ DayPasses(r) PROVE UNCHANGED raced
  BY <1>2 DEF Expire, DayPasses, history
<1>3. ASSUME NEW w \in Wallets, UpdateWallet(w)
      PROVE  UNCHANGED <<row, chain, tx, session, cursor, history>>
  BY <1>3 DEF UpdateWallet
<1>4. ASSUME NEW w \in Wallets, ScanWallet(w)
      PROVE  UNCHANGED <<row, chain, tx, enabled, cursor, history>>
  BY <1>4 DEF ScanWallet, ScanEvm, ScanTron, ScanFails, Visit
<1>5. ASSUME NEW t \in Transfers, WebhookBegins(t)
      PROVE  /\ UNCHANGED <<row, chain, tx, enabled, cursor, torn, dropped, raced>>
             /\ overlap \subseteq overlap'
  BY <1>5 DEF WebhookBegins
<1>6. ScanBegins => /\ UNCHANGED <<row, chain, tx, enabled, cursor, torn, dropped, raced>>
                    /\ overlap \subseteq overlap'
  BY DEF ScanBegins
<1>7. ASSUME NEW t \in Transfers, NEW r \in Rows, Pay(t, r)
      PROVE  UNCHANGED <<row, tx, enabled, session, cursor, history>>
  BY <1>7 DEF Pay
<1>8. ASSUME NEW t \in Transfers, NEW r \in Rows, CreditFails(t, r)
      PROVE  /\ UNCHANGED <<row, chain, tx, enabled, cursor, overlap, dropped, raced>>
             /\ torn \subseteq torn'
  BY <1>8 DEF CreditFails
<1>9. ASSUME NEW s \in Sessions, NEW t \in Transfers,
             \/ IngestMatched(s, t) \/ IngestShallow(s, t) \/ IngestUnmatched(s, t)
             \/ \E r \in Rows : IngestMatch(s, t, r)
      PROVE  UNCHANGED <<row, chain, tx, enabled, cursor, history>>
  BY <1>9 DEF IngestMatched, IngestShallow, IngestUnmatched, IngestMatch, Done
<1>10. ASSUME NEW s \in Sessions, Rollback(s)
       PROVE  UNCHANGED <<row, chain, tx, enabled, cursor, history>>
  BY <1>10 DEF Rollback
<1>11. ASSUME NEW s \in Sessions, Commit(s)
       PROVE  /\ UNCHANGED <<chain, height, tron, enabled, overlap, torn, raced>>
              /\ dropped \subseteq dropped'
  BY <1>11 DEF Commit
<1>12. Grow => /\ UNCHANGED <<row, chain, tx, enabled, session, tron, scanned, history>>
               /\ height' = height + 1
  BY DEF Grow
<1> QED
  BY <1>1, <1>2, <1>3, <1>4, <1>5, <1>6, <1>7, <1>8, <1>9, <1>10, <1>11, <1>12

LEMMA Actions ==
    ASSUME [MatchingNext]_vars
    PROVE  \/ \E r \in Rows : Create(r) \/ Expire(r) \/ DayPasses(r)
           \/ \E w \in Wallets : UpdateWallet(w) \/ ScanWallet(w)
           \/ \E t \in Transfers : WebhookBegins(t)
           \/ \E t \in Transfers, r \in Rows : Pay(t, r) \/ CreditFails(t, r)
           \/ \E s \in Sessions, t \in Transfers :
                 \/ IngestMatched(s, t) \/ IngestShallow(s, t) \/ IngestUnmatched(s, t)
                 \/ \E r \in Rows : IngestMatch(s, t, r)
           \/ \E s \in Sessions : Rollback(s) \/ Commit(s)
           \/ ScanBegins \/ Grow \/ UNCHANGED vars
BY ZenonT(40)
   DEF MatchingNext, SessionStep, Ingest, RowStep, TransferStep, WalletStep

LEMMA RowSteps ==
    ASSUME [MatchingNext]_vars
    PROVE  \/ \E r \in Rows : Create(r) \/ Expire(r) \/ DayPasses(r)
           \/ \E s \in Sessions : Commit(s)
           \/ UNCHANGED row
BY ZenonT(40), Actions, Keeps DEF vars

LEMMA ChainSteps ==
    ASSUME [MatchingNext]_vars
    PROVE  (\E t \in Transfers, r \in Rows : Pay(t, r)) \/ UNCHANGED chain
BY ZenonT(40), Actions, Keeps DEF vars

Row(s, t) == session[s].writes[t].row

\* No row is newly written.
WritesKept == \A s \in Sessions, t \in Transfers : Row(s, t)' \in {Row(s, t), Nobody}

\* A transaction is to settle one row more.
WriteAdded(s, t, r) ==
    /\ r \in Candidates(t)
    /\ UNCHANGED <<row, chain>>
    /\ Row(s, t)' = r
    /\ \A u \in Sessions, v \in Transfers : <<u, v>> # <<s, t>> => Row(u, v)' = Row(u, v)

LEMMA DoneRow ==
    ASSUME MatchingTypeOK, NEW s \in Sessions, NEW t \in Transfers, NEW write, Done(s, t, write)
    PROVE  /\ Row(s, t)' = write.row
           /\ \A u \in Sessions, v \in Transfers : <<u, v>> # <<s, t>> => Row(u, v)' = Row(u, v)
BY DEF Done, Row, MatchingTypeOK

LEMMA WriteSteps ==
    ASSUME MatchingTypeOK, [MatchingNext]_vars
    PROVE  \/ WritesKept
           \/ \E s \in Sessions, t \in Transfers, r \in Rows : WriteAdded(s, t, r)
<1>1. CASE UNCHANGED session
  BY <1>1 DEF WritesKept, Row
<1>2. ASSUME NEW t \in Transfers, WebhookBegins(t) PROVE WritesKept
  BY <1>2 DEF WebhookBegins, Begin, Closed, NoWrite, WritesKept, Row, MatchingTypeOK
<1>3. CASE ScanBegins
  BY <1>3 DEF ScanBegins, Begin, Closed, NoWrite, WritesKept, Row, MatchingTypeOK
<1>4. ASSUME NEW w \in Wallets, ScanWallet(w) PROVE WritesKept
  <2>1. \E page, deep, last, skipped : Visit(w, page, deep, last, skipped)
    BY <1>4, ScanVisits
  <2>2. ASSUME NEW s \in Sessions PROVE session'[s].writes = session[s].writes
    BY <2>1, VisitFacts
  <2> QED
    BY <2>2 DEF WritesKept, Row
<1>5. ASSUME NEW s \in Sessions, Rollback(s) \/ Commit(s) PROVE WritesKept
  <2>1. Close(s)
    BY <1>5 DEF Rollback, Commit
  <2>2. \A t \in Transfers : Closed.writes[t].row = Nobody
    BY DEF Closed, NoWrite
  <2>3. \A u \in Sessions : session'[u] = IF u = s THEN Closed ELSE session[u]
    BY <2>1, TypeParts DEF Close
  <2> QED
    BY <2>2, <2>3 DEF WritesKept, Row
<1>6. ASSUME NEW s \in Sessions, NEW t \in Transfers, NEW write,
             Done(s, t, write), write.row = Nobody
      PROVE  WritesKept
  BY <1>6, DoneRow DEF WritesKept
<1>7. ASSUME NEW s \in Sessions, NEW t \in Transfers,
             IngestMatched(s, t) \/ IngestShallow(s, t) \/ IngestUnmatched(s, t)
      PROVE  WritesKept
  BY <1>6, <1>7 DEF IngestMatched, IngestShallow, IngestUnmatched, NoWrite
<1>8. ASSUME NEW s \in Sessions, NEW t \in Transfers, NEW r \in Rows, IngestMatch(s, t, r)
      PROVE  WriteAdded(s, t, r)
  <2> DEFINE write == [status |-> "MATCHED", row |-> r, credited |-> TRUE]
  <2>1. Done(s, t, write) /\ r \in Candidates(t)
    BY <1>8 DEF IngestMatch, Best
  <2>2. write.row = r
    OBVIOUS
  <2>3. UNCHANGED <<row, chain>>
    BY <2>1 DEF Done
  <2> HIDE DEF write
  <2> QED
    BY <2>1, <2>2, <2>3, DoneRow DEF WriteAdded
<1>9. ASSUME NEW t \in Transfers, NEW r \in Rows, CreditFails(t, r)
      PROVE  WriteAdded("scan", t, r)
  BY <1>9 DEF CreditFails, Best, WriteAdded, Row, MatchingTypeOK, Sessions
<1> QED
  BY <1>1, <1>2, <1>3, <1>4, <1>5, <1>7, <1>8, <1>9
     DEF MatchingNext, SessionStep, Ingest, RowStep, TransferStep, WalletStep, vars,
         Create, Expire, DayPasses, UpdateWallet, Pay, Grow, Sessions

LEMMA WriterStep ==
    ASSUME MatchingTypeOK, OneWriter, [MatchingNext]_vars
    PROVE  OneWriter'
<1>1. CASE WritesKept
  <2>1. ASSUME NEW s \in Sessions, NEW u \in Sessions, NEW t \in Transfers, NEW v \in Transfers,
               Row(s, t)' # Nobody, Row(u, v)' = Row(s, t)'
        PROVE  Row(s, t) # Nobody /\ Row(u, v) = Row(s, t)
    BY <1>1, <2>1 DEF WritesKept
  <2> QED
    BY <2>1 DEF OneWriter, Row
<1>2. ASSUME NEW s \in Sessions, NEW t \in Transfers, NEW r \in Rows, WriteAdded(s, t, r)
      PROVE  OneWriter'
  <2>1. \A u \in Sessions, v \in Transfers : Row(u, v) # r
    BY <1>2, TransferFacts DEF WriteAdded, Candidates, Locked, Wrote, Row, NoWrite
  <2> QED
    BY <1>2, <2>1 DEF WriteAdded, OneWriter, Row
<1> QED
  BY <1>1, <1>2, WriteSteps

\* What a commit does to the rows.
LEMMA SettledRows ==
    ASSUME PartsInv, NEW s \in Sessions, Commit(s), NEW r \in Rows
    PROVE  \/ Settling(s, r) = {} /\ row'[r] = row[r]
           \/ \E t \in Transfers :
                 /\ Settling(s, r) = {t} /\ Row(s, t) = r
                 /\ row[r].status \in {"WAIT_PAY", "TIMEOUT"} /\ row[r].sum = chain[t].sum
                 /\ row'[r].status = "PAID" /\ row'[r].sum = row[r].sum /\ row'[r].by = t
                 /\ row'[r].expired = row[r].expired
<1> USE DEF PartsInv
<1>1. CASE Settling(s, r) = {}
  BY <1>1 DEF Commit
<1>2. CASE Settling(s, r) # {}
  <2>1. PICK t \in Transfers : Settling(s, r) = {t} /\ Max(Settling(s, r)) = t
    BY <1>2, SettlingIsOne
  <2>2. t \in Settling(s, r)
    BY <2>1
  <2>3. Row(s, t) = r
    BY <2>2 DEF Settling, Row
  <2>4. row[r].status \in {"WAIT_PAY", "TIMEOUT"} /\ row[r].sum = chain[t].sum
    BY <2>3, TransferFacts DEF WritesFit, Row
  <2>5. row'[r] = [row[r] EXCEPT !.status = "PAID", !.by = t]
    BY <1>2, <2>1 DEF Commit
  <2>6. row[r] \in RowType
    BY TypeParts
  <2>7. /\ row'[r].status = "PAID" /\ row'[r].sum = row[r].sum /\ row'[r].by = t
        /\ row'[r].expired = row[r].expired
    BY <2>5, <2>6 DEF RowType
  <2> QED
    BY <2>1, <2>3, <2>4, <2>7
<1> QED
  BY <1>1, <1>2

LEMMA RowsStep ==
    ASSUME PartsInv, [MatchingNext]_vars
    PROVE  RowsHaveSums'
<1> USE DEF PartsInv
<1>1. ASSUME NEW r \in Rows, Create(r) PROVE RowsHaveSums'
  <2>1. PICK w \in Wallets, used \in SUBSET InUse :
           \E sum \in SumsFor(r, w, used) :
              row' = [row EXCEPT ![r].status = "WAIT_PAY", ![r].sum = {sum}]
    BY <1>1 DEF Create
  <2>2. SumsFor(r, w, used) \subseteq Sums
    BY DEF SumsFor, Sums
  <2>3. PICK sum \in Sums :
           row' = [row EXCEPT ![r] = [row[r] EXCEPT !.status = "WAIT_PAY", !.sum = {sum}]]
    BY <2>1, <2>2, TypeParts
  <2>4. row[r].by = Nobody
    BY <1>1 DEF Create, NewRow
  <2>5. row'[r].status = "WAIT_PAY" /\ row'[r].sum = {sum} /\ row'[r].by = Nobody
    BY <2>3, <2>4, TypeParts DEF RowType
  <2> QED
    BY <2>3, <2>5, TypeParts DEF RowsHaveSums
<1>2. ASSUME NEW r \in Rows, Expire(r) \/ DayPasses(r) PROVE RowsHaveSums'
  <2>1. ASSUME NEW q \in Rows
        PROVE  /\ row'[q].sum = row[q].sum /\ row'[q].by = row[q].by
               /\ \/ row'[q].status = row[q].status
                  \/ row'[q].status = "TIMEOUT" /\ row[q].status = "WAIT_PAY"
    <3>1. PICK new :
             /\ row' = [row EXCEPT ![r] = new]
             /\ \/ new = [row[r] EXCEPT !.status = "TIMEOUT", !.expired = TRUE]
                   /\ row[r].status = "WAIT_PAY"
                \/ new = [row[r] EXCEPT !.recent = FALSE]
      BY <1>2, TypeParts DEF Expire, DayPasses
    <3>2. /\ new.sum = row[r].sum /\ new.by = row[r].by
          /\ \/ new.status = row[r].status
             \/ new.status = "TIMEOUT" /\ row[r].status = "WAIT_PAY"
      BY ZenonT(40), <3>1, TypeParts DEF RowType
    <3>3. row'[q] = IF q = r THEN new ELSE row[q]
      BY <3>1, TypeParts
    <3> QED
      BY <3>2, <3>3
  <2> QED
    BY <2>1 DEF RowsHaveSums
<1>3. ASSUME NEW s \in Sessions, Commit(s) PROVE RowsHaveSums'
  <2>1. ASSUME NEW r \in Rows
        PROVE  \/ row'[r] = row[r]
               \/ row'[r].status = "PAID" /\ row'[r].sum = row[r].sum /\ row[r].status # "NONE"
    BY <1>3, SettledRows
  <2> QED
    BY <2>1 DEF RowsHaveSums
<1> QED
  BY <1>1, <1>2, <1>3, RowSteps DEF RowsHaveSums

LEMMA FitStep ==
    ASSUME PartsInv, [MatchingNext]_vars
    PROVE  WritesFit'
<1> USE DEF PartsInv
<1>1. ASSUME NEW s \in Sessions, NEW t \in Transfers, NEW r \in Rows, WriteAdded(s, t, r)
      PROVE  WritesFit'
  BY <1>1 DEF WriteAdded, Candidates, WritesFit, Row
<1>2. CASE WritesKept
  <2>1. ASSUME NEW s \in Sessions, NEW t \in Transfers, Row(s, t)' # Nobody
        PROVE  /\ Row(s, t)' = Row(s, t) /\ Row(s, t) \in Rows
               /\ row[Row(s, t)].status \in {"WAIT_PAY", "TIMEOUT"}
               /\ row[Row(s, t)].sum = chain[t].sum
    BY <1>2, <2>1 DEF WritesKept, WritesFit, Row, MatchingTypeOK, Write
  <2>2. ASSUME NEW t \in Transfers, chain[t].sum # {} PROVE chain'[t].sum = chain[t].sum
    <3>1. ASSUME NEW u \in Transfers, NEW r \in Rows, Pay(u, r) PROVE chain'[t].sum = chain[t].sum
      BY <2>2, <3>1 DEF Pay, NewTransfer, MatchingTypeOK
    <3> QED
      BY <3>1, ChainSteps
  <2>3. ASSUME NEW s \in Sessions, NEW t \in Transfers, NEW r \in Rows,
               Row(s, t)' = r, Row(s, t) = r, row[r].status \in {"WAIT_PAY", "TIMEOUT"}
        PROVE  row'[r].status \in {"WAIT_PAY", "TIMEOUT"} /\ row'[r].sum = row[r].sum
    <3>1. ASSUME NEW q \in Rows, Create(q) PROVE row'[r] = row[r]
      BY <2>3, <3>1 DEF Create, NewRow, MatchingTypeOK
    <3>2. ASSUME NEW q \in Rows, Expire(q) \/ DayPasses(q)
          PROVE  row'[r].status \in {"WAIT_PAY", "TIMEOUT"} /\ row'[r].sum = row[r].sum
      <4>1. PICK new :
               /\ row' = [row EXCEPT ![q] = new]
               /\ \/ new = [row[q] EXCEPT !.status = "TIMEOUT", !.expired = TRUE]
                  \/ new = [row[q] EXCEPT !.recent = FALSE] /\ row[q].status = "TIMEOUT"
        BY <3>2, TypeParts DEF Expire, DayPasses
      <4>2. new.sum = row[q].sum /\ new.status = "TIMEOUT"
        BY ZenonT(40), <4>1, TypeParts DEF RowType
      <4>3. row'[r] = IF r = q THEN new ELSE row[r]
        BY <4>1, TypeParts
      <4> QED
        BY <2>3, <4>2, <4>3
    <3>3. ASSUME NEW u \in Sessions, Commit(u) PROVE row'[r] = row[r]
      <4>1. u # s
        BY <2>3, <3>3, TransferFacts DEF Commit, Close, Closed, NoWrite, Row, MatchingTypeOK
      <4>2. Settling(u, r) = {}
        <5>1. ASSUME NEW v \in Transfers, Row(u, v) = r PROVE FALSE
          BY <2>3, <4>1, <5>1, TransferFacts DEF OneWriter, Row
        <5> QED
          BY <5>1 DEF Settling, Wrote, Row
      <4> QED
        BY <3>3, <4>2 DEF Commit
    <3> QED
      BY <2>3, <3>1, <3>2, <3>3, RowSteps
  <2>4. ASSUME NEW s \in Sessions, NEW t \in Transfers, Row(s, t)' # Nobody
        PROVE  /\ row'[Row(s, t)'].status \in {"WAIT_PAY", "TIMEOUT"}
               /\ row'[Row(s, t)'].sum = chain'[t].sum
    BY <2>1, <2>2, <2>3, <2>4 DEF RowsHaveSums
  <2> QED
    BY <2>4 DEF WritesFit, Row
<1> QED
  BY <1>1, <1>2, WriteSteps

LEMMA InitParts == MatchingInit => PartsInv
BY MatchingAssumption, TransferFacts
   DEF MatchingInit, PartsInv, MatchingTypeOK, RowsHaveSums, WritesFit, OneWriter, NewRow,
       NewTransfer, NewTx, Closed, NoWrite, Write, Statuses

LEMMA PartsStep == PartsInv /\ [MatchingNext]_vars => PartsInv'
BY TypeStep, RowsStep, WriterStep, FitStep DEF PartsInv

LEMMA PartsInvariant == MatchingSpec => []PartsInv
BY InitParts, PartsStep, PTL DEF MatchingSpec

\* Every reachable state of rows, transfers and transactions is of its type,
\* whatever the rows, the transfers and the wallets.
THEOREM MatchingTypes == MatchingSpec => []MatchingTypeOK
<1>1. PartsInv => MatchingTypeOK
  BY DEF PartsInv
<1> QED
  BY <1>1, PartsInvariant, PTL

----------------------------------------------------------------------------
(* The refinement of Receivables.                                          *)

\* What the abstract specification sees of a step.
LEMMA Unseen ==
    ASSUME \A r \in Rows : /\ row'[r].status = row[r].status /\ row'[r].sum = row[r].sum
                           /\ row'[r].by = row[r].by,
           \A t \in Transfers : chain'[t].sum = chain[t].sum
    PROVE  UNCHANGED Receivable!vars
BY DEF Receivable!vars

LEMMA CreateOpens ==
    ASSUME PartsInv, NEW r \in Rows, Create(r)
    PROVE  \E sum \in Sums : Receivable!Open(r, sum)
<1> USE DEF PartsInv
<1>1. PICK w \in Wallets, used \in SUBSET InUse :
         \E sum \in SumsFor(r, w, used) :
            row' = [row EXCEPT ![r].status = "WAIT_PAY", ![r].sum = {sum}]
  BY DEF Create
<1>2. SumsFor(r, w, used) \subseteq Sums
  BY DEF SumsFor, Sums
<1>3. PICK sum \in Sums :
         row' = [row EXCEPT ![r] = [row[r] EXCEPT !.status = "WAIT_PAY", !.sum = {sum}]]
  BY <1>1, <1>2, TypeParts
<1>4. /\ row[r].status = "NONE"
      /\ row'[r].status = "WAIT_PAY" /\ row'[r].sum = {sum} /\ row'[r].by = row[r].by
  BY SMTT(40), <1>3, TypeParts DEF RowType, Create, NewRow
<1>5. \A q \in Rows \ {r} : row'[q] = row[q]
  BY <1>3, TypeParts
<1>6. UNCHANGED chain
  BY DEF Create
<1> QED
  BY <1>4, <1>5, <1>6 DEF Receivable!Open

LEMMA ExpireIsLate ==
    ASSUME PartsInv, NEW r \in Rows, Expire(r)
    PROVE  Receivable!Late(r)
<1> USE DEF PartsInv
<1>1. row' = [row EXCEPT ![r] = [row[r] EXCEPT !.status = "TIMEOUT", !.expired = TRUE]]
  BY TypeParts DEF Expire
<1>2. /\ row[r].status = "WAIT_PAY"
      /\ row'[r].status = "TIMEOUT" /\ row'[r].sum = row[r].sum /\ row'[r].by = row[r].by
  BY <1>1, TypeParts DEF RowType, Expire
<1>3. \A q \in Rows \ {r} : row'[q] = row[q]
  BY <1>1, TypeParts
<1>4. UNCHANGED chain
  BY DEF Expire
<1> QED
  BY <1>2, <1>3, <1>4 DEF Receivable!Late

LEMMA PaySends ==
    ASSUME PartsInv, NEW t \in Transfers, NEW r \in Rows, Pay(t, r)
    PROVE  \E sum \in Sums : Receivable!Send(t, sum)
<1> USE DEF PartsInv
<1>1. PICK sum \in Sums : row[r].sum = {sum}
  BY DEF Pay, RowsHaveSums
<1>2. chain' = [chain EXCEPT ![t] = [sum |-> {sum}, for |-> r, block |-> height + 1]]
  BY <1>1, TypeParts DEF Pay
<1>3. chain[t].sum = {} /\ chain'[t].sum = {sum}
  BY <1>2, TypeParts DEF ChainType, Pay, NewTransfer
<1>4. \A u \in Transfers \ {t} : chain'[u] = chain[u]
  BY <1>2, TypeParts
<1>5. UNCHANGED row
  BY DEF Pay
<1> QED
  BY <1>3, <1>4, <1>5 DEF Receivable!Send

LEMMA CommitSettles ==
    ASSUME PartsInv, NEW s \in Sessions, Commit(s)
    PROVE  \E rows \in SUBSET Rows : Receivable!Settle(rows)
<1> USE DEF PartsInv
<1>0. PICK rows \in SUBSET Rows : rows = {r \in Rows : Settling(s, r) # {}}
  OBVIOUS
<1> DEFINE transfer == [r \in rows |-> CHOOSE t \in Transfers : Settling(s, r) = {t}]
<1>1. ASSUME NEW r \in rows
      PROVE  /\ transfer[r] \in Transfers
             /\ row[r].status \in {"WAIT_PAY", "TIMEOUT"}
             /\ row[r].sum = chain[transfer[r]].sum
             /\ row'[r].status = "PAID" /\ row'[r].sum = row[r].sum
             /\ row'[r].by = transfer[r]
  <2>1. PICK t \in Transfers :
           /\ Settling(s, r) = {t}
           /\ row[r].status \in {"WAIT_PAY", "TIMEOUT"} /\ row[r].sum = chain[t].sum
           /\ row'[r].status = "PAID" /\ row'[r].sum = row[r].sum /\ row'[r].by = t
    BY <1>0, SettledRows
  <2>2. transfer[r] = t
    BY <2>1
  <2> QED
    BY <2>1, <2>2
<1>2. ASSUME NEW r \in Rows, r \notin rows PROVE row'[r] = row[r]
  BY <1>0, <1>2, SettledRows
<1>3. \A t \in Transfers : chain'[t].sum = chain[t].sum
  BY DEF Commit
<1>4. transfer \in [rows -> Transfers]
  BY <1>1
<1> HIDE DEF transfer
<1>5. Receivable!Settle(rows)
  <2>1. \A r \in rows : r \in Rows /\ transfer[r] # Nobody
    BY <1>1, <1>4, TransferFacts
  <2>2. \A r \in rows : [q \in Rows |-> row[q].status][r] \in {"WAIT_PAY", "TIMEOUT"}
    BY <1>1, <2>1
  <2>3. [r \in Rows |-> row[r].status]' =
           [r \in Rows |-> IF r \in rows THEN "PAID" ELSE [q \in Rows |-> row[q].status][r]]
    BY <1>1, <1>2
  <2>4. \A r \in rows : [t \in Transfers |-> chain[t].sum][transfer[r]]
                          = [q \in Rows |-> row[q].sum][r]
    BY <1>1, <2>1
  <2>5. [r \in Rows |-> {row[r].by} \ {Nobody}]' =
           [r \in Rows |-> IF r \in rows THEN {transfer[r]}
                           ELSE [q \in Rows |-> {row[q].by} \ {Nobody}][r]]
    BY <1>1, <1>2, <2>1
  <2>6. UNCHANGED <<[r \in Rows |-> row[r].sum], [t \in Transfers |-> chain[t].sum]>>
    BY <1>1, <1>2, <1>3
  <2> QED
    BY <1>4, <2>2, <2>3, <2>4, <2>5, <2>6 DEF Receivable!Settle
<1> QED
  BY <1>5

LEMMA RefinementStep ==
    PartsInv /\ [MatchingNext]_vars => [Receivable!Next]_(Receivable!vars)
<1> SUFFICES ASSUME PartsInv, [MatchingNext]_vars
             PROVE  Receivable!Next \/ UNCHANGED Receivable!vars
  OBVIOUS
<1>1. CASE \E r \in Rows : Create(r)
  BY <1>1, CreateOpens DEF Receivable!Next
<1>2. CASE \E r \in Rows : Expire(r)
  BY <1>2, ExpireIsLate DEF Receivable!Next
<1>3. CASE \E t \in Transfers, r \in Rows : Pay(t, r)
  BY <1>3, PaySends DEF Receivable!Next
<1>4. CASE \E s \in Sessions : Commit(s)
  BY <1>4, CommitSettles DEF Receivable!Next
<1>5. ASSUME NEW r \in Rows, DayPasses(r) PROVE UNCHANGED Receivable!vars
  <2>1. row' = [row EXCEPT ![r] = [row[r] EXCEPT !.recent = FALSE]] /\ UNCHANGED chain
    BY <1>5, TypeParts DEF DayPasses, PartsInv
  <2>2. [row[r] EXCEPT !.recent = FALSE].status = row[r].status
        /\ [row[r] EXCEPT !.recent = FALSE].sum = row[r].sum
        /\ [row[r] EXCEPT !.recent = FALSE].by = row[r].by
    BY TypeParts DEF RowType, PartsInv
  <2> QED
    BY <2>1, <2>2, Unseen, TypeParts DEF PartsInv
<1>6. CASE UNCHANGED <<row, chain>>
  BY <1>6, Unseen
<1> QED
  BY <1>1, <1>2, <1>3, <1>4, <1>5, <1>6, RowSteps, ChainSteps

\* Each deposit and order is settled once, by a transfer of exactly the sum it
\* waits for: the matching implements Receivables, whatever the rows, the
\* transfers, the wallets and the number of failures.
THEOREM SettlesOnce == MatchingSpec => SettledOnce
<1>1. MatchingInit => Receivable!Init
  BY TransferFacts DEF MatchingInit, Receivable!Init, NewRow, NewTransfer
<1> QED
  BY <1>1, RefinementStep, PartsInvariant, PTL DEF MatchingSpec, SettledOnce, Receivable!Spec

----------------------------------------------------------------------------
(* What is reported again.                                                 *)

\* A transaction reads the transfer as unmatched, and may report it.
Sees(s, t) ==
    /\ session[s].open /\ t \notin session[s].matched
    /\ s = "webhook" => t \in session[s].reported

\* A transaction writes about transfers that it sees.
WritesSeen ==
    \A s \in Sessions :
        /\ session[s].todo # {} => session[s].open
        /\ s = "webhook" => session[s].todo \subseteq session[s].reported
        /\ \A t \in Transfers : session[s].writes[t] # NoWrite => Sees(s, t)

\* One transaction at most sees a transfer, and then it is not matched.
SeenByOne ==
    \A t \in Transfers \ overlap, s \in Sessions : Sees(s, t) =>
        ~Matched(t) /\ \A o \in Sessions : Sees(o, t) => o = s

\* What is written says that the transfer is matched when it settles a row.
Honest(write) ==
    IF write.row = Nobody THEN write.status # "MATCHED"
    ELSE write.status = "MATCHED" /\ write.credited

WritesHonest ==
    \A t \in Transfers \ torn, s \in Sessions : Honest(session[s].writes[t])

\* payment_transactions says of a transfer what happened.
Told(t) ==
    /\ \A r \in Rows : row[r].by = t <=> tx[t].deposit = r \/ tx[t].order = r
    /\ Nobody \in {tx[t].deposit, tx[t].order}
    /\ tx[t].status = "MATCHED" <=> Matched(t)

AllTold == \A t \in Transfers \ (overlap \cup torn) : Told(t)

SeenInv == PartsInv /\ WritesSeen /\ SeenByOne /\ WritesHonest /\ AllTold

\* A transaction goes on with what it reads, and writes about its next transfer.
Ongoing(s) ==
    /\ \A u \in Sessions \ {s} : session'[u] = session[u]
    /\ session'[s].open = session[s].open /\ session'[s].matched = session[s].matched
    /\ session'[s].todo # {} => session[s].open
    /\ s = "webhook" => /\ session'[s].reported = session[s].reported
                        /\ session'[s].todo \subseteq session[s].todo
    /\ \A t \in Transfers :
          \/ session'[s].writes[t] = session[s].writes[t]
          \/ session'[s].writes[t] = NoWrite
          \/ /\ t \in session[s].todo /\ t \notin session[s].matched
             /\ Honest(session'[s].writes[t]) \/ t \in torn'

LEMMA DoneOngoing ==
    ASSUME SeenInv, NEW s \in Sessions, NEW t \in Transfers, NEW write,
           Turn(s, t), Done(s, t, write),
           write = NoWrite \/ (t \notin session[s].matched /\ Honest(write))
    PROVE  Ongoing(s)
<1>0. session[s] \in SessionType
  BY TypeParts DEF SeenInv, PartsInv
<1>1. session' = [session EXCEPT ![s] =
                    [session[s] EXCEPT !.todo = @ \ {t}, !.deep = @ \ {t}, !.writes[t] = write]]
  BY TypeParts DEF Done, SeenInv, PartsInv
<1> DEFINE new == [session[s] EXCEPT !.todo = @ \ {t}, !.deep = @ \ {t}, !.writes[t] = write]
<1>2. /\ new.open = session[s].open /\ new.matched = session[s].matched
      /\ new.reported = session[s].reported /\ new.todo \subseteq session[s].todo
      /\ \A v \in Transfers : new.writes[v] = IF v = t THEN write ELSE session[s].writes[v]
  BY <1>0 DEF SessionType
<1> HIDE DEF new
<1>3. session'[s] = new /\ \A u \in Sessions \ {s} : session'[u] = session[u]
  BY <1>1, TypeParts DEF SeenInv, PartsInv, new
<1>4. t \in session[s].todo /\ session[s].open
  BY DEF Turn, SeenInv, WritesSeen
<1> QED
  BY <1>2, <1>3, <1>4 DEF Ongoing

LEMMA CreditFailsOngoing ==
    ASSUME SeenInv, NEW t \in Transfers, NEW r \in Rows, CreditFails(t, r)
    PROVE  Ongoing("scan")
<1> DEFINE write == [status |-> "MATCHED", row |-> r, credited |-> FALSE]
           scan == session["scan"]
           new == [scan EXCEPT !.todo = {}, !.deep = {},
                      !.skipped = @ \cup (scan.todo \ {t}), !.writes[t] = write]
<1>0. scan \in SessionType /\ "scan" \in Sessions
  BY TypeParts DEF SeenInv, PartsInv, Sessions
<1>1. session' = [session EXCEPT !["scan"] = new]
  BY ZenonT(60), TypeParts DEF CreditFails, SeenInv, PartsInv
<1>2. /\ new.open = scan.open /\ new.matched = scan.matched /\ new.todo = {}
      /\ \A v \in Transfers : new.writes[v] = IF v = t THEN write ELSE scan.writes[v]
  BY <1>0 DEF SessionType
<1> HIDE DEF new
<1>3. session'["scan"] = new /\ \A u \in Sessions \ {"scan"} : session'[u] = session[u]
  BY <1>0, <1>1, TypeParts DEF SeenInv, PartsInv
<1>4. t \in scan.todo /\ t \notin scan.matched /\ t \in torn'
  BY DEF CreditFails, Turn, MayWrite
<1> QED
  BY <1>2, <1>3, <1>4 DEF Ongoing

LEMMA ScanWalletOngoing ==
    ASSUME SeenInv, NEW w \in Wallets, ScanWallet(w)
    PROVE  Ongoing("scan")
<1>1. PICK page, deep, last, skipped : Visit(w, page, deep, last, skipped)
  BY ScanVisits DEF SeenInv, PartsInv
<1>2. session["scan"].open
  BY ScanVisits DEF NextWallet, SeenInv, PartsInv
<1> QED
  BY <1>1, <1>2, VisitFacts DEF Ongoing, SeenInv, PartsInv

\* What a step does to the transactions.
LEMMA SessionSteps ==
    ASSUME SeenInv, [MatchingNext]_vars
    PROVE  \/ UNCHANGED session
           \/ \E t \in Transfers : WebhookBegins(t)
           \/ ScanBegins
           \/ \E s \in Sessions : Ongoing(s)
           \/ \E s \in Sessions : Close(s)
<1>1. ASSUME NEW s \in Sessions, NEW t \in Transfers,
             IngestMatched(s, t) \/ IngestShallow(s, t) \/ IngestUnmatched(s, t)
      PROVE  Ongoing(s)
  <2>1. Honest([NoWrite EXCEPT !.status = "DETECTED"])
        /\ Honest([NoWrite EXCEPT !.status = "UNMATCHED"])
    BY DEF Honest, NoWrite
  <2> QED
    BY <1>1, <2>1, DoneOngoing DEF IngestMatched, IngestShallow, IngestUnmatched, MayWrite
<1>2. ASSUME NEW s \in Sessions, NEW t \in Transfers, NEW r \in Rows, IngestMatch(s, t, r)
      PROVE  Ongoing(s)
  <2>1. Honest([status |-> "MATCHED", row |-> r, credited |-> TRUE])
    BY TransferFacts DEF Honest
  <2> QED
    BY <1>2, <2>1, DoneOngoing DEF IngestMatch, MayWrite
<1> QED
  BY <1>1, <1>2, CreditFailsOngoing, ScanWalletOngoing
     DEF MatchingNext, SessionStep, Ingest, RowStep, TransferStep, WalletStep, vars,
         Create, Expire, DayPasses, UpdateWallet, Pay, Grow, Sessions, Rollback, Commit

\* The history of a transfer only grows.
LEMMA HistoryGrows ==
    ASSUME [MatchingNext]_vars
    PROVE  overlap \subseteq overlap' /\ torn \subseteq torn'
BY ZenonT(40), Actions, Keeps DEF vars, history

LEMMA TxSteps ==
    ASSUME [MatchingNext]_vars
    PROVE  (\E s \in Sessions : Commit(s)) \/ UNCHANGED tx
BY ZenonT(40), Actions, Keeps DEF vars

LEMMA SessionStates ==
    ASSUME MatchingTypeOK, NEW s \in Sessions
    PROVE  /\ \A x : session' = [session EXCEPT ![s] = x] =>
                        session'[s] = x /\ \A u \in Sessions \ {s} : session'[u] = session[u]
           /\ Close(s) => session'[s] = Closed /\ \A u \in Sessions \ {s} : session'[u] = session[u]
BY DEF MatchingTypeOK, Close

\* What a transaction that begins reads.
LEMMA BeginFacts ==
    ASSUME MatchingTypeOK, ScanBegins
    PROVE  LET new == session'["scan"] IN
           /\ new.open /\ new.todo = {} /\ new.scanned = scanned
           /\ new.matched = {t \in Transfers : Matched(t)}
           /\ \A t \in Transfers : new.writes[t] = NoWrite
           /\ \A u \in Sessions \ {"scan"} : session'[u] = session[u]
<1>1. /\ session'["scan"] = [Begin EXCEPT !.scanned = scanned]
      /\ \A u \in Sessions \ {"scan"} : session'[u] = session[u]
  BY SessionStates DEF ScanBegins, Sessions
<1> QED
  BY <1>1 DEF Begin, Closed

LEMMA WebhookFacts ==
    ASSUME MatchingTypeOK, NEW t \in Transfers, WebhookBegins(t)
    PROVE  LET new == session'["webhook"] IN
           /\ new.open /\ new.reported = {t} /\ new.todo = {t}
           /\ new.matched = {u \in Transfers : Matched(u)}
           /\ \A u \in Transfers : new.writes[u] = NoWrite
           /\ \A u \in Sessions \ {"webhook"} : session'[u] = session[u]
<1>1. /\ session'["webhook"] = [Begin EXCEPT !.reported = {t}, !.todo = {t},
                                 !.deep = {u \in {t} : Confirmed(u, MinConfirmations)}]
      /\ \A u \in Sessions \ {"webhook"} : session'[u] = session[u]
  BY SessionStates DEF WebhookBegins, Sessions
<1> QED
  BY <1>1 DEF Begin, Closed

LEMMA ClosedFacts ==
    /\ ~Closed.open /\ Closed.todo = {} /\ \A w \in Wallets : Closed.scanned[w] = 0
    /\ \A t \in Transfers : Closed.writes[t] = NoWrite
    /\ Honest(NoWrite) /\ NoWrite.row = Nobody
BY DEF Closed, NoWrite, Honest

LEMMA WritesSeenStep ==
    ASSUME SeenInv, [MatchingNext]_vars
    PROVE  WritesSeen'
<1> USE DEF SeenInv, PartsInv
<1>1. CASE UNCHANGED session
  BY <1>1 DEF WritesSeen, Sees
<1>2. ASSUME NEW t \in Transfers, WebhookBegins(t) PROVE WritesSeen'
  BY <1>2, WebhookFacts DEF WritesSeen, Sees
<1>3. CASE ScanBegins
  BY <1>3, BeginFacts DEF WritesSeen, Sees
<1>4. ASSUME NEW s \in Sessions, Ongoing(s) PROVE WritesSeen'
  <2>1. ASSUME NEW u \in Sessions
        PROVE  /\ session'[u].todo # {} => session'[u].open
               /\ u = "webhook" => session'[u].todo \subseteq session'[u].reported
    BY <1>4 DEF Ongoing, WritesSeen
  <2>2. ASSUME NEW u \in Sessions, NEW t \in Transfers, session'[u].writes[t] # NoWrite
        PROVE  Sees(u, t)'
    BY <1>4, <2>2 DEF Ongoing, WritesSeen, Sees
  <2> QED
    BY <2>1, <2>2 DEF WritesSeen
<1>5. ASSUME NEW s \in Sessions, Close(s) PROVE WritesSeen'
  BY <1>5, SessionStates, ClosedFacts DEF WritesSeen, Sees
<1> QED
  BY <1>1, <1>2, <1>3, <1>4, <1>5, SessionSteps

LEMMA HonestStep ==
    ASSUME SeenInv, [MatchingNext]_vars
    PROVE  WritesHonest'
<1> USE DEF SeenInv, PartsInv
<1> USE HistoryGrows
<1>1. CASE UNCHANGED session
  BY <1>1 DEF WritesHonest
<1>2. ASSUME NEW t \in Transfers, WebhookBegins(t) PROVE WritesHonest'
  BY <1>2, WebhookFacts, ClosedFacts DEF WritesHonest
<1>3. CASE ScanBegins
  BY <1>3, BeginFacts, ClosedFacts DEF WritesHonest
<1>4. ASSUME NEW s \in Sessions, Ongoing(s) PROVE WritesHonest'
  BY <1>4, ClosedFacts DEF Ongoing, WritesHonest
<1>5. ASSUME NEW s \in Sessions, Close(s) PROVE WritesHonest'
  BY <1>5, SessionStates, ClosedFacts DEF WritesHonest
<1> QED
  BY <1>1, <1>2, <1>3, <1>4, <1>5, SessionSteps

\* What a commit writes into payment_transactions.
LEMMA WrittenFacts ==
    ASSUME NEW t, NEW write
    PROVE  /\ write = NoWrite => Written(t, write) = tx[t]
           /\ write # NoWrite =>
                /\ Written(t, write).status = write.status
                /\ write.row = Nobody => /\ Written(t, write).deposit = tx[t].deposit
                                         /\ Written(t, write).order = tx[t].order
                /\ write.row \in Deposits => /\ Written(t, write).deposit = write.row
                                             /\ Written(t, write).order = tx[t].order
                /\ write.row \in Rows \ Deposits => /\ Written(t, write).deposit = tx[t].deposit
                                                    /\ Written(t, write).order = write.row
BY TransferFacts, MatchingAssumption DEF Written

LEMMA CommitTells ==
    ASSUME SeenInv, NEW s \in Sessions, Commit(s), NEW t \in Transfers
    PROVE  tx'[t] = Written(t, session[s].writes[t])
BY DEF Commit

LEMMA CommitMatches ==
    ASSUME SeenInv, NEW s \in Sessions, Commit(s), NEW t \in Transfers, Matched(t)'
    PROVE  Matched(t) \/ Sees(s, t)
<1>1. CASE session[s].writes[t] = NoWrite
  <2>1. tx'[t] = tx[t]
    BY <1>1, CommitTells, WrittenFacts
  <2> QED
    BY <2>1 DEF Matched
<1>2. CASE session[s].writes[t] # NoWrite
  BY <1>2 DEF SeenInv, WritesSeen
<1> QED
  BY <1>1, <1>2

LEMMA SeenStep ==
    ASSUME SeenInv, [MatchingNext]_vars
    PROVE  SeenByOne'
<1> USE DEF SeenInv, PartsInv
<1> USE HistoryGrows
<1>1. CASE UNCHANGED <<session, tx>>
  BY <1>1 DEF SeenByOne, Sees, Matched
<1>2. ASSUME NEW t \in Transfers, WebhookBegins(t) PROVE SeenByOne'
  <2>1. UNCHANGED tx /\ \A u \in Sessions \ {"webhook"} : session'[u] = session[u]
    BY <1>2, WebhookFacts DEF WebhookBegins
  <2>2. ASSUME NEW v \in Transfers, Sees("webhook", v)' PROVE v = t /\ ~Matched(v)
    BY <1>2, <2>2, WebhookFacts DEF Sees
  <2>3. ASSUME NEW v \in Transfers, NEW o \in Sessions \ {"webhook"}
        PROVE  Sees(o, v)' <=> Sees(o, v)
    BY <2>1 DEF Sees
  <2>4. ASSUME NEW o \in Sessions \ {"webhook"}, Sees(o, t) PROVE t \in overlap'
    BY <1>2, <2>4 DEF WebhookBegins, Overlaps, Sees
  <2>5. \A v \in Transfers : Matched(v)' <=> Matched(v)
    BY <2>1 DEF Matched
  <2> QED
    BY <2>2, <2>3, <2>4, <2>5 DEF SeenByOne
<1>3. CASE ScanBegins
  <2>1. UNCHANGED tx /\ \A u \in Sessions \ {"scan"} : session'[u] = session[u]
    BY <1>3, BeginFacts DEF ScanBegins
  <2>2. ASSUME NEW v \in Transfers, Sees("scan", v)' PROVE ~Matched(v)
    BY <1>3, <2>2, BeginFacts DEF Sees
  <2>3. ASSUME NEW v \in Transfers, NEW o \in Sessions \ {"scan"}
        PROVE  Sees(o, v)' <=> Sees(o, v)
    BY <2>1 DEF Sees
  <2>4. ASSUME NEW v \in Transfers, NEW o \in Sessions \ {"scan"}, Sees(o, v)
        PROVE  v \in overlap'
    BY <1>3, <2>4 DEF ScanBegins, Overlaps, Sees
  <2>5. \A v \in Transfers : Matched(v)' <=> Matched(v)
    BY <2>1 DEF Matched
  <2> QED
    BY <2>2, <2>3, <2>4, <2>5 DEF SeenByOne
<1>4. ASSUME NEW s \in Sessions, Ongoing(s), UNCHANGED tx PROVE SeenByOne'
  <2>1. \A u \in Sessions, t \in Transfers : Sees(u, t)' <=> Sees(u, t)
    BY <1>4 DEF Ongoing, Sees
  <2> QED
    BY <1>4, <2>1 DEF SeenByOne, Matched
<1>5. ASSUME NEW s \in Sessions, Close(s) PROVE SeenByOne'
  <2>1. \A t \in Transfers : ~Sees(s, t)'
    BY <1>5, SessionStates, ClosedFacts DEF Sees
  <2>2. \A u \in Sessions \ {s}, t \in Transfers : Sees(u, t)' <=> Sees(u, t)
    BY <1>5, SessionStates DEF Sees
  <2>3. CASE UNCHANGED tx
    BY <2>1, <2>2, <2>3 DEF SeenByOne, Matched
  <2>4. ASSUME NEW o \in Sessions, Commit(o) PROVE SeenByOne'
    <3>1. \A t \in Transfers : ~Sees(o, t)'
      BY <2>4, SessionStates, ClosedFacts DEF Commit, Sees
    <3>2. \A u \in Sessions \ {o}, t \in Transfers : Sees(u, t)' <=> Sees(u, t)
      BY <2>4, SessionStates DEF Commit, Sees
    <3>3. ASSUME NEW t \in Transfers \ overlap, NEW u \in Sessions, Sees(u, t)'
          PROVE  ~Matched(t)' /\ \A v \in Sessions : Sees(v, t)' => v = u
      BY <2>4, <3>1, <3>2, <3>3, CommitMatches DEF SeenByOne
    <3> QED
      BY <3>3 DEF SeenByOne
  <2> QED
    BY <2>3, <2>4, TxSteps
<1> QED
  <2>1. CASE UNCHANGED tx
    BY <1>1, <1>2, <1>3, <1>4, <1>5, <2>1, SessionSteps
  <2>2. CASE \E s \in Sessions : Commit(s)
    BY <1>5, <2>2 DEF Commit
  <2> QED
    BY <2>1, <2>2, TxSteps

\* A commit that settles nothing by a transfer tells nothing else of it.
LEMMA CommitOthers ==
    ASSUME SeenInv, NEW s \in Sessions, Commit(s), NEW t \in Transfers,
           Row(s, t) = Nobody, NEW r \in Rows
    PROVE  row'[r].by = t <=> row[r].by = t
<1> USE DEF SeenInv, PartsInv
<1>1. CASE Settling(s, r) = {} /\ row'[r] = row[r]
  BY <1>1
<1>2. ASSUME NEW u \in Transfers, Row(s, u) = r, row'[r].by = u,
             row[r].status \in {"WAIT_PAY", "TIMEOUT"}
      PROVE  row'[r].by = t <=> row[r].by = t
  BY <1>2, TransferFacts DEF RowsHaveSums
<1> QED
  BY <1>1, <1>2, SettledRows

LEMMA CommitUntouched ==
    ASSUME SeenInv, NEW s \in Sessions, Commit(s), NEW t \in Transfers \ (overlap \cup torn),
           Row(s, t) = Nobody
    PROVE  Told(t)'
<1> USE DEF SeenInv, PartsInv
<1>1. CASE session[s].writes[t] = NoWrite
  <2>1. tx'[t] = tx[t]
    BY <1>1, CommitTells, WrittenFacts
  <2>2. Told(t)
    BY DEF AllTold
  <2> QED
    BY <2>1, <2>2, CommitOthers DEF Told, Matched
<1>2. CASE session[s].writes[t] # NoWrite
  <2>1. ~Matched(t)
    BY <1>2 DEF WritesSeen, SeenByOne
  <2>2. session[s].writes[t].row = Nobody /\ session[s].writes[t].status # "MATCHED"
    BY DEF Row, WritesHonest, Honest
  <2>3. /\ tx'[t].deposit = tx[t].deposit /\ tx'[t].order = tx[t].order
        /\ tx'[t].status # "MATCHED"
    BY <1>2, <2>2, CommitTells, WrittenFacts
  <2> QED
    BY <2>1, <2>3, CommitOthers DEF AllTold, Told, Matched
<1> QED
  BY <1>1, <1>2

LEMMA CommitMatched ==
    ASSUME SeenInv, NEW s \in Sessions, Commit(s), NEW t \in Transfers \ (overlap \cup torn),
           Row(s, t) # Nobody
    PROVE  Told(t)'
<1> USE DEF SeenInv, PartsInv
<1> DEFINE write == session[s].writes[t]
<1>1. write \in Write /\ write.row # Nobody /\ write # NoWrite
  BY DEF Row, MatchingTypeOK, NoWrite
<1>2. write.status = "MATCHED" /\ write.credited /\ write.row \in Rows
  BY <1>1 DEF WritesHonest, Honest, Write
<1>3. ~Matched(t)
  BY <1>1 DEF WritesSeen, SeenByOne
<1>4. \A r \in Rows : row[r].by # t
  BY <1>3, TransferFacts DEF AllTold, Told, Matched
<1>5. t \in Settling(s, write.row)
  BY <1>1, <1>2 DEF Settling, Wrote
<1>6. ASSUME NEW r \in Rows PROVE row'[r].by = t <=> r = write.row
  <2>1. CASE r = write.row
    BY <1>5, <2>1, SettledRows
  <2>2. CASE r # write.row
    BY <1>4, <2>2, SettledRows DEF Row
  <2> QED
    BY <2>1, <2>2
<1>7. /\ tx'[t].status = "MATCHED"
      /\ tx'[t].deposit = IF write.row \in Deposits THEN write.row ELSE Nobody
      /\ tx'[t].order = IF write.row \in Deposits THEN Nobody ELSE write.row
  <2>1. tx[t].deposit = Nobody /\ tx[t].order = Nobody
    BY <1>3 DEF Matched
  <2>2. tx'[t] = Written(t, write)
    BY CommitTells
  <2> HIDE DEF write
  <2> QED
    BY <1>1, <1>2, <2>1, <2>2, WrittenFacts
<1> QED
  BY <1>2, <1>6, <1>7, TransferFacts DEF Told, Matched

LEMMA ToldStep ==
    ASSUME SeenInv, [MatchingNext]_vars
    PROVE  AllTold'
<1> USE DEF SeenInv, PartsInv
<1>1. ASSUME NEW s \in Sessions, Commit(s) PROVE AllTold'
  BY <1>1, CommitUntouched, CommitMatched, HistoryGrows DEF AllTold
<1>2. CASE UNCHANGED tx /\ \A r \in Rows : row'[r].by = row[r].by
  BY <1>2, HistoryGrows DEF AllTold, Told, Matched
<1>3. ASSUME NEW r \in Rows, Create(r) \/ Expire(r) \/ DayPasses(r)
      PROVE  \A q \in Rows : row'[q].by = row[q].by
  <2>1. PICK new : row' = [row EXCEPT ![r] = new] /\ new.by = row[r].by
    <3>1. CASE Create(r)
      <4>1. PICK sum : row' = [row EXCEPT ![r] =
                                 [row[r] EXCEPT !.status = "WAIT_PAY", !.sum = {sum}]]
        BY <3>1, TypeParts DEF Create
      <4>2. [row[r] EXCEPT !.status = "WAIT_PAY", !.sum = {sum}].by = row[r].by
        BY TypeParts DEF RowType
      <4> QED
        BY <4>1, <4>2
    <3>2. CASE Expire(r)
      <4>1. row' = [row EXCEPT ![r] = [row[r] EXCEPT !.status = "TIMEOUT", !.expired = TRUE]]
        BY <3>2, TypeParts DEF Expire
      <4>2. [row[r] EXCEPT !.status = "TIMEOUT", !.expired = TRUE].by = row[r].by
        BY TypeParts DEF RowType
      <4> QED
        BY <4>1, <4>2
    <3>3. CASE DayPasses(r)
      <4>1. row' = [row EXCEPT ![r] = [row[r] EXCEPT !.recent = FALSE]]
        BY <3>3, TypeParts DEF DayPasses
      <4>2. [row[r] EXCEPT !.recent = FALSE].by = row[r].by
        BY TypeParts DEF RowType
      <4> QED
        BY <4>1, <4>2
    <3> QED
      BY <1>3, <3>1, <3>2, <3>3
  <2> QED
    BY <2>1, TypeParts
<1> QED
  BY <1>1, <1>2, <1>3, RowSteps, TxSteps

LEMMA SeenInvariant == MatchingSpec => []SeenInv
<1>1. MatchingInit => SeenInv
  <2> SUFFICES ASSUME MatchingInit PROVE SeenInv
    OBVIOUS
  <2>1. WritesSeen /\ WritesHonest
    BY ClosedFacts DEF MatchingInit, WritesSeen, WritesHonest
  <2>2. SeenByOne
    BY ClosedFacts DEF MatchingInit, SeenByOne, Sees
  <2>3. AllTold
    BY TransferFacts DEF MatchingInit, AllTold, Told, Matched, NewRow, NewTx, Nobody
  <2> QED
    BY <2>1, <2>2, <2>3, InitParts DEF SeenInv
<1>2. SeenInv /\ [MatchingNext]_vars => SeenInv'
  BY PartsStep, WritesSeenStep, SeenStep, HonestStep, ToldStep DEF SeenInv
<1> QED
  BY <1>1, <1>2, PTL DEF MatchingSpec

\* A transfer that is reported again settles nothing more, unless two
\* transactions saw it unmatched at once, and payment_transactions says what
\* happened, unless its credit failed in the middle of a scan.
THEOREM AccountsForTransfers == MatchingSpec => []AccountedFor
<1>1. ASSUME SeenInv, NEW t \in Transfers \ (overlap \cup torn)
      PROVE  /\ SettledBy(t) = {tx[t].deposit, tx[t].order} \ {Nobody}
             /\ Cardinality(SettledBy(t)) = IF tx[t].status = "MATCHED" THEN 1 ELSE 0
  <2>1. Told(t) /\ {tx[t].deposit, tx[t].order} \subseteq Rows \cup {Nobody}
    BY <1>1 DEF SeenInv, AllTold, PartsInv, MatchingTypeOK
  <2>2. SettledBy(t) = {tx[t].deposit, tx[t].order} \ {Nobody}
    BY <2>1, TransferFacts DEF Told, SettledBy
  <2>3. CASE tx[t].status = "MATCHED"
    <3>1. PICK r : SettledBy(t) = {r}
      <4>1. tx[t].deposit # Nobody \/ tx[t].order # Nobody
        BY <2>1, <2>3 DEF Told, Matched
      <4>2. CASE tx[t].deposit = Nobody
        BY <2>2, <4>1, <4>2
      <4>3. CASE tx[t].order = Nobody
        BY <2>2, <4>1, <4>3
      <4> QED
        BY <2>1, <4>2, <4>3 DEF Told
    <3> QED
      BY <2>2, <2>3, <3>1, FS_Singleton
  <2>4. CASE tx[t].status # "MATCHED"
    <3>1. SettledBy(t) = {}
      BY <2>1, <2>2, <2>4 DEF Told, Matched
    <3> QED
      BY <2>2, <2>4, <3>1, FS_EmptySet
  <2> QED
    BY <2>2, <2>3, <2>4
<1>2. SeenInv => AccountedFor
  BY <1>1 DEF AccountedFor
<1> QED
  BY <1>2, SeenInvariant, PTL

----------------------------------------------------------------------------
(* Which row a transfer settles.                                           *)

\* Rows that wait for the same sum: one was drawn from an old reading, or the
\* sum is the bare price.
OneSumEach ==
    \A q, r \in Rows :
        /\ q # r /\ row[q].sum = row[r].sum
        /\ row[q].status = "WAIT_PAY" /\ row[r].status = "WAIT_PAY"
        => {q, r} \cap raced # {} \/ \E sum \in row[r].sum : sum[2] = Base

\* A transfer carries the sum of the row its payer meant.
PayersKnown ==
    \A t \in Transfers : chain[t].sum # {} =>
        /\ chain[t].for \in Rows
        /\ row[chain[t].for].status # "NONE" /\ row[chain[t].for].sum = chain[t].sum

\* A late row has expired, a paid one has its transfer, which is matched.
StatusKnown ==
    \A r \in Rows :
        /\ row[r].status = "TIMEOUT" => row[r].expired
        /\ row[r].status = "PAID" => row[r].by # Nobody
        /\ row[r].by # Nobody => Matched(row[r].by)

\* The row is the one that was meant, or stands in its place for a good reason.
Led(t, r) ==
    LET meant == chain[t].for IN
    \/ meant = r
    \/ row[meant].by \notin {t, Nobody}
    \/ row[meant].expired \/ row[r].expired
    \/ {meant, r} \cap raced # {}
    \/ \E sum \in row[r].sum : sum[2] = Base

Belongs(t, r) == row[r].status # "NONE" /\ row[r].sum = chain[t].sum /\ Led(t, r)

AllLed ==
    \A t \in Transfers \ overlap, r \in Rows :
        row[r].by = t \/ (\E s \in Sessions : Row(s, t) = r) => Belongs(t, r)

LedInv == SeenInv /\ OneSumEach /\ PayersKnown /\ StatusKnown /\ AllLed

\* What a step may do to a row.
RowFollows(r) ==
    \/ row'[r] = row[r]
    \/ /\ Create(r) /\ row[r].status = "NONE" /\ row'[r].status = "WAIT_PAY"
       /\ row'[r].expired = row[r].expired /\ row'[r].by = row[r].by
    \/ /\ row[r].status = "WAIT_PAY" /\ row'[r].status = "TIMEOUT"
       /\ row'[r].expired /\ row'[r].sum = row[r].sum /\ row'[r].by = row[r].by
    \/ /\ row[r].status = "TIMEOUT" /\ row'[r].status = "TIMEOUT"
       /\ row'[r].expired = row[r].expired
       /\ row'[r].sum = row[r].sum /\ row'[r].by = row[r].by
    \/ /\ row[r].status \in {"WAIT_PAY", "TIMEOUT"} /\ row'[r].status = "PAID"
       /\ row'[r].expired = row[r].expired /\ row'[r].sum = row[r].sum
       /\ row'[r].by \in Transfers
       /\ \E s \in Sessions : Commit(s) /\ Row(s, row'[r].by) = r

LEMMA CreateFacts ==
    ASSUME MatchingTypeOK, NEW q \in Rows, Create(q)
    PROVE  /\ row[q].status = "NONE" /\ row'[q].status = "WAIT_PAY"
           /\ row'[q].expired = row[q].expired /\ row'[q].by = row[q].by
           /\ \A p \in Rows \ {q} : row'[p] = row[p]
           /\ q \in raced' \/ \E sum \in Sums : /\ row'[q].sum = {sum}
                                                /\ sum \notin InUse \/ sum[2] = Base
           /\ raced \subseteq raced'
<1>1. PICK used \in SUBSET InUse, w \in Wallets :
         /\ \E sum \in SumsFor(q, w, used) :
                row' = [row EXCEPT ![q].status = "WAIT_PAY", ![q].sum = {sum}]
         /\ raced' = IF used # InUse THEN raced \cup {q} ELSE raced
  BY DEF Create
<1>2. PICK sum \in SumsFor(q, w, used) :
         row' = [row EXCEPT ![q] = [row[q] EXCEPT !.status = "WAIT_PAY", !.sum = {sum}]]
  BY <1>1, TypeParts
<1> DEFINE new == [row[q] EXCEPT !.status = "WAIT_PAY", !.sum = {sum}]
<1>3. /\ new.status = "WAIT_PAY" /\ new.sum = {sum}
      /\ new.expired = row[q].expired /\ new.by = row[q].by
  BY TypeParts DEF RowType
<1>4. row' = [row EXCEPT ![q] = new]
  BY <1>2
<1> HIDE DEF new
<1>5. row'[q] = new /\ \A p \in Rows \ {q} : row'[p] = row[p]
  BY <1>4, TypeParts
<1>6. row[q].status = "NONE"
  BY DEF Create, NewRow
<1>7. sum \in Sums /\ (sum \notin used \/ sum[2] = Base)
  BY DEF SumsFor, Sums
<1> QED
  BY <1>1, <1>3, <1>5, <1>6, <1>7

LEMMA RowsFollow ==
    ASSUME PartsInv, [MatchingNext]_vars, NEW r \in Rows
    PROVE  RowFollows(r)
<1> USE DEF PartsInv
<1>1. ASSUME NEW q \in Rows, Create(q) PROVE RowFollows(r)
  BY <1>1, CreateFacts DEF RowFollows
<1>2. ASSUME NEW q \in Rows, Expire(q) PROVE RowFollows(r)
  <2> DEFINE new == [row[q] EXCEPT !.status = "TIMEOUT", !.expired = TRUE]
  <2>1. new.status = "TIMEOUT" /\ new.expired /\ new.sum = row[q].sum /\ new.by = row[q].by
    BY TypeParts DEF RowType
  <2>2. row' = [row EXCEPT ![q] = new] /\ row[q].status = "WAIT_PAY"
    BY <1>2, TypeParts DEF Expire
  <2> HIDE DEF new
  <2>3. row'[r] = IF r = q THEN new ELSE row[r]
    BY <2>2, TypeParts
  <2> QED
    BY <2>1, <2>2, <2>3 DEF RowFollows
<1>3. ASSUME NEW q \in Rows, DayPasses(q) PROVE RowFollows(r)
  <2> DEFINE new == [row[q] EXCEPT !.recent = FALSE]
  <2>1. /\ new.status = row[q].status /\ new.expired = row[q].expired
        /\ new.sum = row[q].sum /\ new.by = row[q].by
    BY TypeParts DEF RowType
  <2>2. row' = [row EXCEPT ![q] = new] /\ row[q].status = "TIMEOUT"
    BY <1>3, TypeParts DEF DayPasses
  <2> HIDE DEF new
  <2>3. row'[r] = IF r = q THEN new ELSE row[r]
    BY <2>2, TypeParts
  <2> QED
    BY <2>1, <2>2, <2>3 DEF RowFollows
<1>4. ASSUME NEW s \in Sessions, Commit(s) PROVE RowFollows(r)
  BY <1>4, SettledRows DEF RowFollows
<1>5. CASE UNCHANGED row
  BY <1>5 DEF RowFollows
<1> QED
  BY <1>1, <1>2, <1>3, <1>4, <1>5, RowSteps

\* What a step may do to a transfer.
LEMMA ChainFollows ==
    ASSUME MatchingTypeOK, [MatchingNext]_vars, NEW t \in Transfers
    PROVE  \/ chain'[t] = chain[t]
           \/ \E r \in Rows : /\ chain[t].sum = {} /\ row[r].status # "NONE"
                             /\ chain'[t].sum = row[r].sum /\ chain'[t].for = r
                             /\ chain'[t].block = height + 1
                             /\ UNCHANGED <<row, cursor, session, tx, dropped>>
<1>1. ASSUME NEW u \in Transfers, NEW r \in Rows, Pay(u, r), u # t
      PROVE  chain'[t] = chain[t]
  BY <1>1, TypeParts DEF Pay
<1>2. ASSUME NEW r \in Rows, Pay(t, r)
      PROVE  /\ chain[t].sum = {} /\ row[r].status # "NONE"
             /\ UNCHANGED <<row, cursor, session, tx, dropped>>
             /\ chain'[t].sum = row[r].sum /\ chain'[t].for = r /\ chain'[t].block = height + 1
  <2>1. chain'[t] = [sum |-> row[r].sum, for |-> r, block |-> height + 1]
    BY <1>2, TypeParts DEF Pay
  <2> QED
    BY <1>2, <2>1 DEF Pay, NewTransfer, history
<1> QED
  BY <1>1, <1>2, ChainSteps

\* Created rows keep their sum; what made them late or paid stays.
LEMMA RowsGrow ==
    ASSUME PartsInv, [MatchingNext]_vars, NEW r \in Rows, row[r].status # "NONE"
    PROVE  /\ row'[r].status # "NONE" /\ row'[r].sum = row[r].sum
           /\ row[r].expired => row'[r].expired
           /\ row[r].by # Nobody => row'[r].by = row[r].by
           /\ row'[r].status = "WAIT_PAY" => row[r].status = "WAIT_PAY"
<1>1. row[r].by # Nobody => row[r].status = "PAID"
  BY DEF PartsInv, RowsHaveSums
<1> QED
  BY <1>1, RowsFollow DEF RowFollows

LEMMA RacedGrows == ASSUME MatchingTypeOK, [MatchingNext]_vars PROVE raced \subseteq raced'
<1>1. ASSUME NEW r \in Rows, Create(r) PROVE raced \subseteq raced'
  BY <1>1, CreateFacts
<1> QED
  BY ZenonT(40), <1>1, Actions, Keeps DEF vars, history

LEMMA OneSumStep ==
    ASSUME LedInv, [MatchingNext]_vars
    PROVE  OneSumEach'
<1> USE DEF LedInv, SeenInv, PartsInv
<1>1. ASSUME NEW q \in Rows, NEW r \in Rows, q # r, row'[q].sum = row'[r].sum,
             row'[q].status = "WAIT_PAY", row'[r].status = "WAIT_PAY",
             row[q].status # "NONE", row[r].status # "NONE"
      PROVE  {q, r} \cap raced' # {} \/ \E sum \in row'[r].sum : sum[2] = Base
  BY <1>1, RowsGrow, RacedGrows DEF OneSumEach
<1>2. ASSUME NEW q \in Rows, NEW r \in Rows, q # r, row'[q].sum = row'[r].sum,
             row'[q].status = "WAIT_PAY", row'[r].status = "WAIT_PAY",
             row[q].status = "NONE"
      PROVE  {q, r} \cap raced' # {} \/ \E sum \in row'[r].sum : sum[2] = Base
  <2>1. Create(q)
    BY <1>2, RowsFollow DEF RowFollows
  <2>2. row'[r] = row[r]
    BY <1>2, <2>1, CreateFacts
  <2>3. row[r].sum \subseteq InUse
    BY <1>2, <2>2 DEF InUse
  <2> QED
    BY <1>2, <2>1, <2>2, <2>3, CreateFacts
<1> QED
  BY <1>1, <1>2 DEF OneSumEach

LEMMA PayersStep ==
    ASSUME LedInv, [MatchingNext]_vars
    PROVE  PayersKnown'
<1> USE DEF LedInv, SeenInv, PartsInv
<1> SUFFICES ASSUME NEW t \in Transfers, chain'[t].sum # {}
             PROVE  /\ chain'[t].for \in Rows
                    /\ row'[chain'[t].for].status # "NONE"
                    /\ row'[chain'[t].for].sum = chain'[t].sum
  BY DEF PayersKnown
<1>1. CASE chain'[t].sum = chain[t].sum /\ chain'[t].for = chain[t].for
  BY <1>1, RowsGrow DEF PayersKnown
<1>2. ASSUME NEW r \in Rows, row[r].status # "NONE", UNCHANGED row,
             chain'[t].sum = row[r].sum, chain'[t].for = r
      PROVE  /\ chain'[t].for \in Rows
             /\ row'[chain'[t].for].status # "NONE"
             /\ row'[chain'[t].for].sum = chain'[t].sum
  BY <1>2
<1> QED
  BY <1>1, <1>2, ChainFollows

\* A transfer that is matched stays so.
LEMMA MatchedStays ==
    ASSUME SeenInv, [MatchingNext]_vars, NEW t \in Transfers, Matched(t)
    PROVE  Matched(t)'
<1>1. ASSUME NEW s \in Sessions, Commit(s) PROVE Matched(t)'
  <2>1. tx'[t] = Written(t, session[s].writes[t])
    BY <1>1, CommitTells
  <2>2. session[s].writes[t].row \in Rows \cup {Nobody}
    BY DEF SeenInv, PartsInv, MatchingTypeOK, Write
  <2> QED
    BY <2>1, <2>2, WrittenFacts, TransferFacts DEF Matched
<1> QED
  BY <1>1, TxSteps DEF Matched

LEMMA StatusStep ==
    ASSUME LedInv, [MatchingNext]_vars
    PROVE  StatusKnown'
<1> USE DEF LedInv, SeenInv, PartsInv
<1>1. ASSUME NEW r \in Rows
      PROVE  /\ row'[r].status = "TIMEOUT" => row'[r].expired
             /\ row'[r].status = "PAID" => row'[r].by # Nobody
  BY RowsFollow, TransferFacts DEF RowFollows, StatusKnown
<1>2. ASSUME NEW r \in Rows, NEW t \in Transfers, row[r].by = t
      PROVE  Matched(t)'
  <2>1. Matched(t)
    BY <1>2, TransferFacts DEF StatusKnown
  <2> QED
    BY <2>1, MatchedStays
<1>3. ASSUME NEW r \in Rows, NEW s \in Sessions, NEW t \in Transfers, Commit(s), Row(s, t) = r
      PROVE  Matched(t)'
  <2>1. tx'[t] = Written(t, session[s].writes[t])
    BY <1>3, CommitTells
  <2> QED
    BY <1>3, <2>1, WrittenFacts, TransferFacts DEF Matched, Row, NoWrite
<1>4. ASSUME NEW r \in Rows, NEW t \in Transfers, row'[r].by = t PROVE Matched(t)'
  <2>1. CASE row'[r].by = row[r].by
    BY <1>2, <1>4, <2>1
  <2>2. CASE row'[r].by # row[r].by
    BY <1>3, <1>4, <2>2, RowsFollow DEF RowFollows
  <2> QED
    BY <2>1, <2>2
<1>5. ASSUME NEW r \in Rows, row'[r].by # Nobody
      PROVE  tx'[row'[r].by].deposit # Nobody \/ tx'[row'[r].by].order # Nobody
  <2>1. row'[r].by \in Transfers
    <3>1. MatchingTypeOK'
      BY PartsStep
    <3> QED
      BY <1>5, <3>1 DEF MatchingTypeOK
  <2> QED
    BY <1>4, <2>1 DEF Matched
<1> QED
  BY <1>1, <1>5 DEF StatusKnown, Matched

\* A row that belongs to a transfer goes on to.
LEMMA BelongsStays ==
    ASSUME LedInv, [MatchingNext]_vars, NEW t \in Transfers, NEW r \in Rows, Belongs(t, r)
    PROVE  Belongs(t, r)'
<1> USE DEF LedInv, SeenInv, PartsInv
<1>1. /\ row'[r].status # "NONE" /\ row'[r].sum = row[r].sum
      /\ row[r].expired => row'[r].expired
  BY RowsGrow DEF Belongs
<1>2. chain[t].sum # {}
  BY DEF Belongs, RowsHaveSums
<1>3. chain'[t].sum = chain[t].sum /\ chain'[t].for = chain[t].for
  BY <1>2, ChainFollows
<1>4. PICK meant \in Rows : meant = chain[t].for /\ row[meant].status # "NONE"
  BY <1>2 DEF PayersKnown
<1>5. /\ row[meant].expired => row'[meant].expired
      /\ row[meant].by # Nobody => row'[meant].by = row[meant].by
  BY <1>4, RowsGrow
<1>6. \/ meant = r
      \/ row'[meant].by \notin {t, Nobody}
      \/ row'[meant].expired \/ row'[r].expired
      \/ {meant, r} \cap raced' # {}
      \/ \E sum \in row'[r].sum : sum[2] = Base
  BY <1>1, <1>4, <1>5, RacedGrows DEF Belongs, Led
<1> QED
  BY <1>1, <1>3, <1>4, <1>6 DEF Belongs, Led

\* The row that is found for a transfer not yet matched belongs to it.
LEMMA FoundBelongs ==
    ASSUME LedInv, NEW t \in Transfers, NEW r \in Rows, r \in Candidates(t), ~Matched(t)
    PROVE  Belongs(t, r)
<1> USE DEF LedInv, SeenInv, PartsInv
<1>1. row[r].status \in {"WAIT_PAY", "TIMEOUT"} /\ row[r].sum = chain[t].sum
  BY DEF Candidates
<1>2. chain[t].sum # {}
  BY <1>1 DEF RowsHaveSums
<1>3. PICK meant \in Rows : /\ meant = chain[t].for /\ row[meant].status # "NONE"
                            /\ row[meant].sum = row[r].sum
  BY <1>1, <1>2 DEF PayersKnown
<1>4. row[meant].by # t
  BY <1>3, TransferFacts DEF StatusKnown
<1>5. row[meant].status \in {"WAIT_PAY", "TIMEOUT", "PAID"}
  BY <1>3 DEF MatchingTypeOK
<1>6. CASE row[meant].status = "PAID"
  BY <1>1, <1>3, <1>4, <1>6 DEF StatusKnown, Belongs, Led
<1>7. CASE row[meant].status = "TIMEOUT" \/ row[r].status = "TIMEOUT"
  BY <1>1, <1>3, <1>7 DEF StatusKnown, Belongs, Led
<1>8. CASE row[meant].status = "WAIT_PAY" /\ row[r].status = "WAIT_PAY"
  BY <1>1, <1>3, <1>8 DEF OneSumEach, Belongs, Led
<1> QED
  BY <1>1, <1>5, <1>6, <1>7, <1>8

\* A transaction that finds a row saw the transfer.
LEMMA AddedSeen ==
    ASSUME SeenInv, [MatchingNext]_vars, NEW s \in Sessions, NEW t \in Transfers, NEW r \in Rows,
           Row(s, t)' = r
    PROVE  Row(s, t) = r \/ (r \in Candidates(t) /\ Sees(s, t))
<1> USE DEF SeenInv, PartsInv
<1> SUFFICES ASSUME Row(s, t) # r PROVE r \in Candidates(t) /\ Sees(s, t)
  OBVIOUS
<1>1. r \in Candidates(t)
  <2>1. ~WritesKept
    BY TransferFacts DEF WritesKept
  <2>2. PICK u \in Sessions, v \in Transfers, q \in Rows : WriteAdded(u, v, q)
    BY <2>1, WriteSteps
  <2> QED
    BY <2>2 DEF WriteAdded
<1>2. Sees(s, t)
  <2>1. session'[s].writes[t] # session[s].writes[t] /\ session'[s].writes[t] # NoWrite
    BY TransferFacts DEF Row, NoWrite
  <2>2. CASE \E u \in Sessions : Ongoing(u)
    <3>1. PICK u \in Sessions : Ongoing(u)
      BY <2>2
    <3>2. t \in session[s].todo /\ t \notin session[s].matched
      BY <2>1, <3>1 DEF Ongoing
    <3> QED
      BY <3>2 DEF WritesSeen, Sees
  <2>3. ASSUME NEW u \in Transfers, WebhookBegins(u) PROVE FALSE
    BY <2>1, <2>3, WebhookFacts DEF Sessions
  <2>4. CASE ScanBegins
    BY <2>1, <2>4, BeginFacts DEF Sessions
  <2>5. ASSUME NEW u \in Sessions, Close(u) PROVE FALSE
    BY <2>1, <2>5, SessionStates, ClosedFacts
  <2> QED
    BY <2>1, <2>2, <2>3, <2>4, <2>5, SessionSteps
<1> QED
  BY <1>1, <1>2

LEMMA AllLedStep ==
    ASSUME LedInv, [MatchingNext]_vars
    PROVE  AllLed'
<1> USE DEF LedInv, SeenInv, PartsInv
<1>1. ASSUME NEW t \in Transfers \ overlap, NEW r \in Rows, row'[r].by = t
      PROVE  Belongs(t, r)'
  <2>1. CASE row'[r].by = row[r].by
    BY <1>1, <2>1, BelongsStays DEF AllLed
  <2>2. CASE row'[r].by # row[r].by
    <3>1. \E s \in Sessions : Row(s, t) = r
      BY <1>1, <2>2, RowsFollow DEF RowFollows
    <3> QED
      BY <3>1, BelongsStays DEF AllLed
  <2> QED
    BY <2>1, <2>2
<1>2. ASSUME NEW t \in Transfers \ overlap, NEW r \in Rows, NEW s \in Sessions, Row(s, t)' = r
      PROVE  Belongs(t, r)'
  <2>1. CASE Row(s, t) = r
    BY <2>1, BelongsStays DEF AllLed
  <2>2. CASE r \in Candidates(t) /\ Sees(s, t)
    <3>1. ~Matched(t)
      BY <2>2 DEF SeenByOne
    <3>2. Belongs(t, r)
      BY <2>2, <3>1, FoundBelongs
    <3> QED
      BY <3>2, BelongsStays
  <2> QED
    BY <1>2, <2>1, <2>2, AddedSeen
<1>3. overlap \subseteq overlap'
  BY HistoryGrows
<1> QED
  BY <1>1, <1>2, <1>3 DEF AllLed

LEMMA LedInvariant == MatchingSpec => []LedInv
<1>1. ASSUME MatchingInit PROVE OneSumEach /\ PayersKnown /\ StatusKnown /\ AllLed
  <2>1. /\ \A r \in Rows : row[r].status = "NONE" /\ row[r].by = Nobody
        /\ \A t \in Transfers : chain[t].sum = {}
        /\ \A s \in Sessions, t \in Transfers : Row(s, t) = Nobody
    BY <1>1, ClosedFacts DEF MatchingInit, NewRow, NewTransfer, Row
  <2> QED
    BY <2>1, TransferFacts DEF OneSumEach, PayersKnown, StatusKnown, AllLed
<1>2. LedInv /\ SeenInv' /\ [MatchingNext]_vars => LedInv'
  BY OneSumStep, PayersStep, StatusStep, AllLedStep DEF LedInv
<1>3. MatchingInit /\ SeenInv => LedInv
  BY <1>1 DEF LedInv
<1> QED
  BY <1>2, <1>3, SeenInvariant, PTL DEF MatchingSpec

\* A transfer settles the row its payer meant, if nobody else did, or one that took
\* its place because either had expired or was drawn from an old reading; and so
\* for any number of rows, transfers and amounts.
THEOREM LeadsToItsRow == MatchingSpec => []LedToItsRow
<1>1. LedInv => LedToItsRow
  BY DEF LedInv, AllLed, LedToItsRow, SettledBy, Belongs, Led
<1> QED
  BY <1>1, LedInvariant, PTL

----------------------------------------------------------------------------
(* What the scan leaves behind.                                            *)

Final == {"MATCHED", "UNMATCHED"}

\* A transfer is in the hands of one transaction, and is new if it is recorded as
\* one without confirmations.
WritesSound ==
    \A s \in Sessions, t \in Transfers :
        LET write == session[s].writes[t] IN
        write # NoWrite => /\ write.status # "NONE"
                           /\ write.row # Nobody => write.status = "MATCHED"
                           /\ write.status = "DETECTED" => tx[t] = NewTx
                           /\ \A u \in Sessions : session[u].writes[t] # NoWrite => u = s

MatchedIsFinal ==
    \A t \in Transfers :
        Matched(t) \/ (\E s \in Sessions : t \in session[s].matched) => tx[t].status \in Final

\* A cursor is not ahead of the chain, and a transfer is to one wallet.
CursorsFollow ==
    /\ \A w \in Wallets : scanned[w] <= height /\ session["scan"].scanned[w] <= height
    /\ \A t \in Transfers : \A a, b \in chain[t].sum : a = b

Reaching == MinConfirmations <= Repeated + 2

\* What the scan will not list again, it has yet to ingest and with the
\* confirmations, or has dealt with, or passed over.
Reached(t) ==
    \E w \in Wallets : t \in Before(w, Back(session["scan"].scanned[w], Repeated))

Dealt(t) ==
    LET scan == session["scan"] IN
    \/ t \in scan.todo /\ t \in scan.deep
    \/ t \in scan.matched \/ scan.writes[t].status \in Final \/ t \in scan.skipped
    \/ tx[t].status \in Final \/ t \in dropped

DealtInTime(t) == Dealt(t) /\ (t \in session["scan"].todo => t \in session["scan"].deep)

ScanDeals == Reaching => \A t \in Transfers : Reached(t) => DealtInTime(t)

LeftInv ==
    /\ SeenInv /\ WritesSound /\ MatchedIsFinal
    /\ CursorsFollow /\ ScanDeals /\ NothingMissed

LEMMA DoneFacts ==
    ASSUME MatchingTypeOK, NEW s \in Sessions, NEW t \in Transfers, NEW write, Done(s, t, write)
    PROVE  LET old == session[s]
               new == session'[s] IN
           /\ new.reported = old.reported /\ new.matched = old.matched
           /\ new.scanned = old.scanned /\ new.skipped = old.skipped
           /\ new.todo = old.todo \ {t} /\ new.deep = old.deep \ {t}
           /\ \A v \in Transfers : new.writes[v] = IF v = t THEN write ELSE old.writes[v]
           /\ \A u \in Sessions \ {s} : session'[u] = session[u]
           /\ UNCHANGED <<chain, tx, dropped>>
<1>0. session[s] \in SessionType
  BY TypeParts
<1> DEFINE new == [session[s] EXCEPT !.todo = @ \ {t}, !.deep = @ \ {t}, !.writes[t] = write]
<1>1. /\ new.matched = session[s].matched /\ new.reported = session[s].reported
      /\ new.scanned = session[s].scanned /\ new.skipped = session[s].skipped
      /\ new.todo = session[s].todo \ {t} /\ new.deep = session[s].deep \ {t}
      /\ \A v \in Transfers : new.writes[v] = IF v = t THEN write ELSE session[s].writes[v]
  BY <1>0 DEF SessionType
<1>2. session' = [session EXCEPT ![s] = new]
  BY TypeParts DEF Done
<1> HIDE DEF new
<1>3. session'[s] = new /\ \A u \in Sessions \ {s} : session'[u] = session[u]
  BY <1>2, TypeParts
<1> QED
  BY <1>1, <1>3 DEF Done, history

LEMMA CreditFailsFacts ==
    ASSUME MatchingTypeOK, NEW t \in Transfers, NEW r \in Rows, CreditFails(t, r)
    PROVE  LET scan == session["scan"]
               new  == session'["scan"] IN
           /\ new.reported = scan.reported /\ new.matched = scan.matched
           /\ new.scanned = scan.scanned /\ new.todo = {}
           /\ new.skipped = scan.skipped \cup (scan.todo \ {t})
           /\ \A v \in Transfers : new.writes[v] =
                 IF v = t THEN [status |-> "MATCHED", row |-> r, credited |-> FALSE]
                 ELSE scan.writes[v]
           /\ \A u \in Sessions \ {"scan"} : session'[u] = session[u]
           /\ UNCHANGED <<chain, tx, dropped>>
<1> DEFINE write == [status |-> "MATCHED", row |-> r, credited |-> FALSE]
           scan == session["scan"]
           new == [scan EXCEPT !.todo = {}, !.deep = {},
                      !.skipped = @ \cup (scan.todo \ {t}), !.writes[t] = write]
<1>0. scan \in SessionType /\ "scan" \in Sessions
  BY TypeParts DEF Sessions
<1>1. session' = [session EXCEPT !["scan"] = new]
  BY ZenonT(60), TypeParts DEF CreditFails
<1>2. /\ new.reported = scan.reported /\ new.matched = scan.matched
      /\ new.scanned = scan.scanned /\ new.todo = {}
      /\ new.skipped = scan.skipped \cup (scan.todo \ {t})
      /\ \A v \in Transfers : new.writes[v] = IF v = t THEN write ELSE scan.writes[v]
  BY <1>0 DEF SessionType
<1> HIDE DEF new
<1>3. session'["scan"] = new /\ \A u \in Sessions \ {"scan"} : session'[u] = session[u]
  BY <1>0, <1>1, TypeParts
<1> QED
  BY <1>2, <1>3 DEF CreditFails

LEMMA ScanWalletFacts ==
    ASSUME MatchingTypeOK, NEW w \in Wallets, ScanWallet(w)
    PROVE  /\ session'["scan"].matched = session["scan"].matched
           /\ session'["scan"].writes = session["scan"].writes
           /\ \A u \in Sessions \ {"scan"} : session'[u] = session[u]
BY ScanVisits, VisitFacts

\* The actions that change a transaction.
LEMMA SessionActions ==
    ASSUME [MatchingNext]_vars
    PROVE  \/ UNCHANGED session
           \/ \E t \in Transfers : WebhookBegins(t)
           \/ ScanBegins
           \/ \E w \in Wallets : ScanWallet(w)
           \/ \E s \in Sessions, t \in Transfers :
                 IngestMatched(s, t) \/ IngestShallow(s, t) \/ IngestUnmatched(s, t)
           \/ \E s \in Sessions, t \in Transfers, r \in Rows : IngestMatch(s, t, r)
           \/ \E t \in Transfers, r \in Rows : CreditFails(t, r)
           \/ \E s \in Sessions : Close(s)
BY ZenonT(60)
   DEF MatchingNext, SessionStep, Ingest, RowStep, TransferStep, WalletStep, vars,
       Create, Expire, DayPasses, UpdateWallet, Pay, Grow, Rollback, Commit

\* What a transaction newly writes about a transfer is its own, and sound.
NewWrite(s, t) ==
    LET write == session'[s].writes[t] IN
    /\ t \notin session[s].matched
    /\ \A u \in Sessions \ {s} : t \notin Wrote(u) /\ session'[u] = session[u]
    /\ write.status # "NONE"
    /\ write.row # Nobody => write.status = "MATCHED"
    /\ write.status = "DETECTED" => tx[t] = NewTx

LEMMA WritesMove ==
    ASSUME SeenInv, [MatchingNext]_vars, NEW s \in Sessions, NEW t \in Transfers,
           session'[s].writes[t] # NoWrite
    PROVE  session'[s].writes[t] = session[s].writes[t] \/ NewWrite(s, t)
<1> USE DEF SeenInv, PartsInv
<1> SUFFICES ASSUME session'[s].writes[t] # session[s].writes[t] PROVE NewWrite(s, t)
  OBVIOUS
<1>1. ASSUME NEW u \in Sessions, NEW v \in Transfers, NEW write, Done(u, v, write)
      PROVE  /\ u = s /\ v = t /\ write = session'[s].writes[t]
             /\ \A o \in Sessions \ {s} : session'[o] = session[o]
  BY <1>1, DoneFacts
<1>2. ASSUME NEW u \in Sessions, NEW v \in Transfers, IngestMatched(u, v) PROVE FALSE
  BY <1>1, <1>2 DEF IngestMatched
<1>3. ASSUME NEW u \in Sessions, NEW v \in Transfers, IngestShallow(u, v)
      PROVE  NewWrite(s, t)
  <2>1. u = s /\ v = t /\ \A o \in Sessions \ {s} : session'[o] = session[o]
    BY <1>1, <1>3 DEF IngestShallow
  <2>2. t \notin session[s].known /\ session'[s].writes[t] = [NoWrite EXCEPT !.status = "DETECTED"]
    BY <1>1, <1>3, <2>1 DEF IngestShallow
  <2>3. MayWrite(s, t)
    BY <1>3, <2>1 DEF IngestShallow
  <2>4. /\ session'[s].writes[t].status = "DETECTED" /\ session'[s].writes[t].row = Nobody
    BY <2>2 DEF NoWrite
  <2> QED
    BY <2>1, <2>2, <2>3, <2>4 DEF NewWrite, MayWrite
<1>4. ASSUME NEW u \in Sessions, NEW v \in Transfers, IngestUnmatched(u, v)
      PROVE  NewWrite(s, t)
  <2>1. u = s /\ v = t /\ \A o \in Sessions \ {s} : session'[o] = session[o]
    BY <1>1, <1>4 DEF IngestUnmatched
  <2>2. session'[s].writes[t] = [NoWrite EXCEPT !.status = "UNMATCHED"]
    BY <1>1, <1>4, <2>1 DEF IngestUnmatched
  <2>3. MayWrite(s, t)
    BY <1>4, <2>1 DEF IngestUnmatched
  <2>4. session'[s].writes[t].status = "UNMATCHED" /\ session'[s].writes[t].row = Nobody
    BY <2>2 DEF NoWrite
  <2> QED
    BY <2>1, <2>3, <2>4 DEF NewWrite, MayWrite
<1>5. ASSUME NEW u \in Sessions, NEW v \in Transfers, NEW r \in Rows, IngestMatch(u, v, r)
      PROVE  NewWrite(s, t)
  <2>1. u = s /\ v = t /\ \A o \in Sessions \ {s} : session'[o] = session[o]
    BY <1>1, <1>5 DEF IngestMatch
  <2>2. session'[s].writes[t].status = "MATCHED"
    BY <1>1, <1>5, <2>1 DEF IngestMatch
  <2>3. MayWrite(s, t)
    BY <1>5, <2>1 DEF IngestMatch
  <2> QED
    BY <2>1, <2>2, <2>3 DEF NewWrite, MayWrite
<1>6. ASSUME NEW v \in Transfers, NEW r \in Rows, CreditFails(v, r) PROVE NewWrite(s, t)
  <2>1. /\ "scan" = s /\ v = t /\ session'[s].writes[t].status = "MATCHED"
        /\ \A o \in Sessions \ {s} : session'[o] = session[o]
    <3>1. s = "scan" /\ \A o \in Sessions \ {s} : session'[o] = session[o]
      BY <1>6, CreditFailsFacts
    <3>2. t = v /\ session'[s].writes[t] = [status |-> "MATCHED", row |-> r, credited |-> FALSE]
      BY <1>6, <3>1, CreditFailsFacts
    <3> QED
      BY <3>1, <3>2
  <2>2. MayWrite(s, t)
    BY <1>6, <2>1 DEF CreditFails
  <2> QED
    BY <2>1, <2>2 DEF NewWrite, MayWrite
<1>7. ASSUME NEW w \in Wallets, ScanWallet(w) PROVE FALSE
  BY <1>7, ScanWalletFacts
<1>8. ASSUME NEW v \in Transfers, WebhookBegins(v) PROVE FALSE
  BY <1>8, WebhookFacts
<1>9. CASE ScanBegins
  BY <1>9, BeginFacts
<1>10. ASSUME NEW u \in Sessions, Close(u) PROVE FALSE
  BY <1>10, SessionStates, ClosedFacts
<1> QED
  BY <1>2, <1>3, <1>4, <1>5, <1>6, <1>7, <1>8, <1>9, <1>10, SessionActions

\* A commit writes a status that is final, or of a transfer that is new.
LEMMA CommitStatus ==
    ASSUME SeenInv, WritesSound, NEW s \in Sessions, Commit(s), NEW t \in Transfers
    PROVE  \/ session[s].writes[t] = NoWrite /\ tx'[t] = tx[t]
           \/ session[s].writes[t] # NoWrite /\ tx'[t].status \in Final
           \/ /\ session[s].writes[t] # NoWrite /\ tx[t] = NewTx
              /\ session[s].writes[t].status = "DETECTED" /\ session[s].writes[t].row = Nobody
<1>1. tx'[t] = Written(t, session[s].writes[t])
  BY CommitTells
<1>2. CASE session[s].writes[t] = NoWrite
  BY <1>1, <1>2, WrittenFacts
<1>3. CASE session[s].writes[t] # NoWrite
  <2>1. session[s].writes[t].status \in {"DETECTED"} \cup Final
    BY <1>3 DEF WritesSound, SeenInv, PartsInv, MatchingTypeOK, Write, Statuses, Final
  <2>2. tx'[t].status = session[s].writes[t].status
    BY <1>1, <1>3, WrittenFacts
  <2> QED
    BY <1>3, <2>1, <2>2 DEF WritesSound
<1> QED
  BY <1>2, <1>3

LEMMA FinalStays ==
    ASSUME SeenInv, WritesSound, [MatchingNext]_vars, NEW t \in Transfers, tx[t].status \in Final
    PROVE  tx'[t].status \in Final
<1>1. NewTx.status \notin Final
  BY DEF NewTx, Final
<1>2. ASSUME NEW s \in Sessions, Commit(s) PROVE tx'[t].status \in Final
  BY <1>1, <1>2, CommitStatus
<1> QED
  BY <1>2, TxSteps

LEMMA SoundStep ==
    ASSUME SeenInv, WritesSound, [MatchingNext]_vars
    PROVE  WritesSound'
<1> SUFFICES ASSUME NEW s \in Sessions, NEW t \in Transfers, session'[s].writes[t] # NoWrite
             PROVE  LET write == session'[s].writes[t] IN
                    /\ write.status # "NONE"
                    /\ write.row # Nobody => write.status = "MATCHED"
                    /\ write.status = "DETECTED" => tx'[t] = NewTx
                    /\ \A u \in Sessions : session'[u].writes[t] # NoWrite => u = s
  BY DEF WritesSound
<1>1. CASE NewWrite(s, t)
  <2>1. UNCHANGED tx
    <3>1. ASSUME NEW u \in Sessions, Commit(u) PROVE session'[u].writes[t] = NoWrite
      BY <3>1, SessionStates, ClosedFacts DEF Commit, SeenInv, PartsInv
    <3>2. ASSUME NEW u \in Sessions, Commit(u), u # s PROVE FALSE
      <4>1. session'[u] = session[u] /\ Close(u)
        BY <1>1, <3>2 DEF NewWrite, Commit
      <4>2. session[u].open /\ ~session'[u].open
        BY <3>2, SessionStates, ClosedFacts DEF Commit, SeenInv, PartsInv
      <4> QED
        BY <4>1, <4>2
    <3> QED
      BY <3>1, <3>2, TxSteps
  <2> QED
    BY <1>1, <2>1 DEF NewWrite, Wrote
<1>2. CASE session'[s].writes[t] = session[s].writes[t]
  <2>1. tx'[t] = tx[t]
    <3>1. ASSUME NEW u \in Sessions, Commit(u) PROVE tx'[t] = tx[t]
      <4>1. session'[u].writes[t] = NoWrite
        BY <3>1, SessionStates, ClosedFacts DEF Commit, SeenInv, PartsInv
      <4>2. u # s
        BY <4>1
      <4>3. session[u].writes[t] = NoWrite
        BY <1>2, <4>2 DEF WritesSound
      <4> QED
        BY <3>1, <4>3, CommitStatus
    <3> QED
      BY <3>1, TxSteps
  <2>2. ASSUME NEW u \in Sessions, session'[u].writes[t] # NoWrite PROVE u = s
    <3>1. CASE session'[u].writes[t] = session[u].writes[t]
      BY <1>2, <2>2, <3>1 DEF WritesSound
    <3>2. CASE NewWrite(u, t)
      BY <1>2, <3>2 DEF NewWrite, Wrote
    <3> QED
      BY <2>2, <3>1, <3>2, WritesMove
  <2> QED
    BY <1>2, <2>1, <2>2 DEF WritesSound
<1> QED
  BY <1>1, <1>2, WritesMove

LEMMA FinalStep ==
    ASSUME SeenInv, WritesSound, MatchedIsFinal, [MatchingNext]_vars
    PROVE  MatchedIsFinal'
<1> USE DEF SeenInv, PartsInv
<1>1. ASSUME NEW t \in Transfers, Matched(t)' PROVE tx'[t].status \in Final
  <2>1. CASE Matched(t)
    BY <2>1, FinalStays DEF MatchedIsFinal
  <2>2. ASSUME NEW s \in Sessions, Commit(s), ~Matched(t) PROVE tx'[t].status \in Final
    <3>1. session[s].writes[t] # NoWrite => session[s].writes[t].row # Nobody
      BY <1>1, <2>2, CommitTells, WrittenFacts DEF Matched
    <3>2. session[s].writes[t] # NoWrite
      BY <1>1, <2>2, CommitTells, WrittenFacts DEF Matched
    <3> QED
      BY <2>2, <3>1, <3>2, CommitStatus
  <2>3. CASE UNCHANGED tx
    BY <1>1, <2>1, <2>3 DEF Matched
  <2> QED
    BY <2>1, <2>2, <2>3, TxSteps
<1>2. ASSUME NEW s \in Sessions, NEW t \in Transfers, t \in session'[s].matched
      PROVE  t \in session[s].matched \/ Matched(t)
  <2>1. ASSUME NEW u \in Sessions, NEW v \in Transfers, NEW write, Done(u, v, write)
        PROVE  t \in session[s].matched
    BY <1>2, <2>1, DoneFacts
  <2>2. ASSUME NEW v \in Transfers, NEW r \in Rows, CreditFails(v, r)
        PROVE  t \in session[s].matched
    BY <1>2, <2>2, CreditFailsFacts
  <2>3. ASSUME NEW w \in Wallets, ScanWallet(w) PROVE t \in session[s].matched
    BY <1>2, <2>3, ScanWalletFacts
  <2>4. ASSUME NEW v \in Transfers, WebhookBegins(v)
        PROVE  t \in session[s].matched \/ Matched(t)
    BY <1>2, <2>4, WebhookFacts
  <2>5. CASE ScanBegins
    BY <1>2, <2>5, BeginFacts
  <2>6. ASSUME NEW u \in Sessions, Close(u) PROVE t \in session[s].matched
    <3>1. Closed.matched = {}
      BY DEF Closed
    <3> QED
      BY <1>2, <2>6, <3>1, SessionStates
  <2> QED
    BY <1>2, <2>1, <2>2, <2>3, <2>4, <2>5, <2>6, SessionActions
       DEF IngestMatched, IngestShallow, IngestUnmatched, IngestMatch
<1>3. ASSUME NEW s \in Sessions, NEW t \in Transfers, t \in session'[s].matched
      PROVE  tx'[t].status \in Final
  BY <1>2, <1>3, FinalStays DEF MatchedIsFinal
<1> QED
  BY <1>1, <1>3 DEF MatchedIsFinal

LEMMA DroppedGrows == ASSUME [MatchingNext]_vars PROVE dropped \subseteq dropped'
BY ZenonT(40), Actions, Keeps DEF vars, history

LEMMA FinalOrDroppedStays ==
    ASSUME LeftInv, [MatchingNext]_vars, NEW t \in Transfers, tx[t].status \in Final \/ t \in dropped
    PROVE  tx'[t].status \in Final \/ t \in dropped'
BY FinalStays, DroppedGrows DEF LeftInv

----------------------------------------------------------------------------
(* The cursors.                                                            *)

LEMMA CursorSteps ==
    ASSUME [MatchingNext]_vars
    PROVE  \/ height' = height + 1 /\ UNCHANGED <<scanned, session, chain>>
           \/ (\E s \in Sessions : Commit(s)) \/ UNCHANGED cursor
BY ZenonT(40), Actions, Keeps DEF vars, cursor

\* A scan of an EVM wallet leaves nothing behind its cursor that it did not list
\* with the confirmations or pass over.
LEMMA EvmReaches ==
    ASSUME MatchingTypeOK, NEW w \in Wallets, ScanEvm(w), NEW last,
           last = session["scan"].scanned[w], last <= height
    PROVE  \E page \in SUBSET At(w), to \in 0..height, skipped \in SUBSET Transfers :
              \E deep \in SUBSET page :
                 /\ Visit(w, page, deep, to, skipped)
                 /\ Reaching => \A t \in Before(w, Back(to, Repeated)) :
                       /\ t \in Before(w, Back(last, Repeated)) \/ t \in deep \/ t \in skipped
                       /\ t \in page => t \in deep
<1> DEFINE from  == IF last = 0 THEN Back(height, First) ELSE Back(last, Repeated)
           to    == Min({height, from + Chunk - 1})
           logs  == {t \in At(w) : chain[t].block \in from..to}
           deep  == {t \in logs : Confirmed(t, MinConfirmations)}
           early == IF last = 0 THEN Before(w, from) ELSE {}
<1>1. last \in Nat /\ height \in Nat /\ Repeated \in Nat /\ MinConfirmations \in Nat
  BY MatchingAssumption DEF MatchingTypeOK, Sessions
<1>2. from \in Nat /\ from + Chunk - 1 \in Nat
  BY <1>1, MatchingAssumption DEF Back
<1>3. to \in 0..height
  BY <1>1, <1>2, MinOfTwo
<1>4. \/ Visit(w, logs, deep, to, early)
      \/ Visit(w, {}, {}, to, early \cup logs)
  BY DEF ScanEvm
<1>5. /\ logs \in SUBSET At(w) /\ deep \in SUBSET logs
      /\ logs \in SUBSET Transfers /\ early \in SUBSET Transfers
  BY DEF At, Before
<1>6. from = (IF last = 0 THEN Back(height, First) ELSE Back(last, Repeated))
  OBVIOUS
<1>7. early = (IF last = 0 THEN Before(w, from) ELSE {})
  OBVIOUS
<1>8. \A t : t \in logs <=> t \in At(w) /\ chain[t].block \in from..to
  OBVIOUS
<1>9. \A t : t \in deep <=> t \in logs /\ chain[t].block + MinConfirmations <= height + 1
  BY DEF Confirmed
<1> HIDE DEF from, to, logs, deep, early
<1>10. ASSUME NEW t \in Before(w, Back(to, Repeated))
       PROVE  /\ t \in At(w) /\ chain[t].block \in Nat
              /\ chain[t].block + Repeated < to
  <2>1. t \in At(w) /\ t \in Transfers /\ chain[t].block < Back(to, Repeated)
    BY DEF Before, At
  <2>2. chain[t].block \in Nat
    BY <2>1, TypeParts DEF ChainType
  <2> QED
    BY <1>1, <1>3, <2>1, <2>2 DEF Back
<1>11. ASSUME Reaching, NEW t \in Before(w, Back(to, Repeated)), t \in logs
       PROVE  t \in deep
  BY <1>1, <1>3, <1>9, <1>10, <1>11 DEF Reaching
<1>12. ASSUME NEW t \in Before(w, Back(to, Repeated)), t \notin logs
       PROVE  t \in Before(w, Back(last, Repeated)) \/ t \in early
  <2>1. chain[t].block < from
    BY <1>1, <1>2, <1>3, <1>8, <1>10, <1>12
  <2> QED
    BY <1>6, <1>7, <1>10, <2>1 DEF Before, At
<1>13. CASE Visit(w, logs, deep, to, early)
  BY <1>3, <1>5, <1>11, <1>12, <1>13
<1>14. CASE Visit(w, {}, {}, to, early \cup logs)
  <2>1. early \cup logs \in SUBSET Transfers /\ {} \in SUBSET At(w)
    BY <1>5
  <2>2. \A t \in Before(w, Back(to, Repeated)) :
           t \in Before(w, Back(last, Repeated)) \/ t \in early \cup logs
    BY <1>12
  <2> QED
    BY <1>3, <1>14, <2>1, <2>2
<1> QED
  BY <1>4, <1>13, <1>14

LEMMA TronReaches ==
    ASSUME MatchingTypeOK, NEW w \in Wallets, ScanTron(w), NEW last,
           last = session["scan"].scanned[w], last <= height
    PROVE  \E page \in SUBSET At(w), to \in 0..height :
                 /\ Visit(w, page, page, to, {})
                 /\ \A t \in Before(w, Back(to, Repeated)) :
                       t \in Before(w, Back(last, Repeated)) \/ t \in page
<1> DEFINE confirmed == {t \in At(w) : /\ Confirmed(t, Solid)
                                       /\ chain[t].block >= Back(last, Repeated)}
           reached(page) == {last} \cup {chain[t].block : t \in page}
<1>1. /\ last \in Nat /\ height \in Nat /\ Repeated \in Nat
      /\ Solid \in Nat /\ 1 <= Solid /\ Solid <= Repeated + 2
  BY MatchingAssumption DEF MatchingTypeOK, Sessions
<1>2. \A t : t \in confirmed <=> /\ t \in At(w) /\ chain[t].block + Solid <= height + 1
                                 /\ chain[t].block >= Back(last, Repeated)
  BY DEF Confirmed
<1>3. PICK page \in SUBSET confirmed :
         /\ page = {} => confirmed = {}
         /\ \A t \in page : {u \in confirmed : chain[u].block < chain[t].block} \subseteq page
         /\ \E to \in IF last = 0 /\ page = {} THEN {height} ELSE reached(page) :
               Visit(w, page, page, to, {})
  BY DEF ScanTron
<1>4. PICK to \in IF last = 0 /\ page = {} THEN {height} ELSE reached(page) :
         Visit(w, page, page, to, {})
  BY <1>3
<1>5. \/ last = 0 /\ page = {} /\ to = height
      \/ to = last
      \/ \E u \in page : to = chain[u].block
  BY <1>4
<1> HIDE DEF confirmed, reached
<1>6. \A t \in At(w) : t \in Transfers /\ chain[t].block \in Nat
  BY TypeParts DEF At, ChainType
<1>7. to \in 0..height
  <2>1. ASSUME NEW u \in page PROVE chain[u].block \in 0..height
    BY <1>1, <1>2, <1>3, <1>6
  <2> QED
    BY <1>1, <1>5, <2>1
<1>8. ASSUME NEW t \in Before(w, Back(to, Repeated))
      PROVE  t \in Before(w, Back(last, Repeated)) \/ t \in page
  <2>1. t \in At(w) /\ chain[t].block \in Nat /\ chain[t].block + Repeated < to
    BY <1>1, <1>6, <1>7 DEF Before, Back
  <2>2. CASE to = last
    BY <2>2
  <2>3. CASE last = 0 /\ page = {} /\ to = height
    <3>1. chain[t].block >= Back(last, Repeated)
      BY <1>1, <2>1, <2>3 DEF Back
    <3>2. t \in confirmed
      BY <1>1, <1>2, <2>1, <2>3, <3>1
    <3> QED
      BY <1>3, <2>3, <3>2
  <2>4. ASSUME NEW u \in page, to = chain[u].block
        PROVE  t \in Before(w, Back(last, Repeated)) \/ t \in page
    <3>1. CASE chain[t].block < Back(last, Repeated)
      BY <2>1, <3>1 DEF Before
    <3>2. CASE ~(chain[t].block < Back(last, Repeated))
      <4>1. u \in confirmed /\ chain[u].block + Solid <= height + 1 /\ chain[u].block \in Nat
        BY <1>2, <1>3, <1>6
      <4>2. chain[t].block < chain[u].block
        BY <1>1, <2>1, <2>4, <4>1
      <4>3. Back(last, Repeated) \in Nat
        BY <1>1 DEF Back
      <4>4. t \in confirmed
        BY <1>1, <1>2, <2>1, <3>2, <4>1, <4>2, <4>3
      <4> QED
        BY <1>3, <4>2, <4>4
    <3> QED
      BY <3>1, <3>2
  <2> QED
    BY <1>5, <2>2, <2>3, <2>4
<1>9. page \in SUBSET At(w)
  BY <1>2, <1>3
<1> QED
  BY <1>4, <1>7, <1>8, <1>9

\* A scan leaves nothing behind its cursor that it did not list with the
\* confirmations or pass over.
LEMMA ScanReaches ==
    ASSUME MatchingTypeOK, NEW w \in Wallets, ScanWallet(w), NEW last,
           last = session["scan"].scanned[w], last <= height
    PROVE  \E page \in SUBSET At(w), to \in 0..height, skipped \in SUBSET Transfers :
              \E deep \in SUBSET page :
                 /\ Visit(w, page, deep, to, skipped)
                 /\ Reaching => \A t \in Before(w, Back(to, Repeated)) :
                       /\ t \in Before(w, Back(last, Repeated)) \/ t \in deep \/ t \in skipped
                       /\ t \in page => t \in deep
<1>1. CASE ScanFails(w)
  <2>1. Visit(w, {}, {}, last, {})
    BY <1>1 DEF ScanFails
  <2>2. last \in 0..height
    BY DEF MatchingTypeOK, Sessions
  <2>3. {} \in SUBSET At(w) /\ {} \in SUBSET Transfers
    OBVIOUS
  <2> QED
    BY <2>1, <2>2, <2>3
<1>2. CASE ScanTron(w)
  <2>1. PICK page \in SUBSET At(w), to \in 0..height :
           /\ Visit(w, page, page, to, {})
           /\ \A t \in Before(w, Back(to, Repeated)) :
                 t \in Before(w, Back(last, Repeated)) \/ t \in page
    BY <1>2, TronReaches
  <2>2. {} \in SUBSET Transfers /\ page \in SUBSET page
    OBVIOUS
  <2> QED
    BY <2>1, <2>2
<1>3. CASE ScanEvm(w)
  BY <1>3, EvmReaches
<1> QED
  BY <1>1, <1>2, <1>3 DEF ScanWallet

LEMMA CursorsStep ==
    ASSUME LeftInv, [MatchingNext]_vars
    PROVE  CursorsFollow'
<1> USE DEF LeftInv, SeenInv, PartsInv
<1>0. /\ height \in Nat /\ height' \in Nat /\ height <= height' /\ "scan" \in Sessions
      /\ \A w \in Wallets : /\ scanned[w] \in Nat /\ session["scan"].scanned[w] \in Nat
                            /\ scanned[w] <= height /\ session["scan"].scanned[w] <= height
  <2>1. height' = height + 1 \/ height' = height
    BY CursorSteps DEF Commit, cursor
  <2> QED
    BY <2>1 DEF MatchingTypeOK, Sessions, CursorsFollow
<1>1. ASSUME NEW w \in Wallets PROVE scanned'[w] <= height'
  <2>1. scanned'[w] \in {scanned[w], session["scan"].scanned[w]}
    BY CursorSteps DEF Commit, cursor
  <2> QED
    BY <1>0, <2>1
<1>2. ASSUME NEW w \in Wallets PROVE session'["scan"].scanned[w] <= height'
  <2>1. CASE session'["scan"].scanned[w] = session["scan"].scanned[w]
    BY <1>0, <2>1
  <2>2. ASSUME NEW v \in Wallets, ScanWallet(v) PROVE session'["scan"].scanned[w] <= height'
    <3>1. PICK page \in SUBSET At(v), to \in 0..height, skipped \in SUBSET Transfers :
             \E deep \in SUBSET page : Visit(v, page, deep, to, skipped)
      BY <1>0, <2>2, ScanReaches
    <3>2. PICK deep \in SUBSET page : Visit(v, page, deep, to, skipped)
      BY <3>1
    <3>3. session'["scan"].scanned[w] = IF w = v THEN to ELSE session["scan"].scanned[w]
      BY <3>2, VisitFacts
    <3> QED
      BY <1>0, <3>1, <3>3
  <2>3. CASE ScanBegins
    <3>1. session'["scan"].scanned = scanned
      BY <2>3, BeginFacts
    <3> QED
      BY <1>0, <3>1
  <2>4. ASSUME NEW s \in Sessions, Close(s) PROVE session'["scan"].scanned[w] <= height'
    <3>1. CASE s = "scan"
      BY <1>0, <2>4, <3>1, SessionStates, ClosedFacts
    <3> QED
      BY <1>0, <2>1, <2>4, <3>1, SessionStates
  <2>5. ASSUME NEW s \in Sessions, NEW v \in Transfers, NEW write, Done(s, v, write)
        PROVE  session'["scan"].scanned[w] = session["scan"].scanned[w]
    BY <1>0, <2>5, DoneFacts
  <2>6. ASSUME NEW v \in Transfers, NEW r \in Rows, CreditFails(v, r)
        PROVE  session'["scan"].scanned[w] = session["scan"].scanned[w]
    BY <2>6, CreditFailsFacts
  <2>7. ASSUME NEW v \in Transfers, WebhookBegins(v)
        PROVE  session'["scan"].scanned[w] = session["scan"].scanned[w]
    BY <1>0, <2>7, WebhookFacts
  <2> QED
    BY <2>1, <2>2, <2>3, <2>4, <2>5, <2>6, <2>7, SessionActions
       DEF IngestMatched, IngestShallow, IngestUnmatched, IngestMatch
<1>3. ASSUME NEW t \in Transfers, NEW a \in chain'[t].sum, NEW b \in chain'[t].sum PROVE a = b
  <2>1. CASE chain'[t] = chain[t]
    BY <1>3, <2>1 DEF CursorsFollow
  <2>2. ASSUME NEW r \in Rows, row[r].status # "NONE", chain'[t].sum = row[r].sum PROVE a = b
    BY <1>3, <2>2 DEF RowsHaveSums
  <2> QED
    BY <2>1, <2>2, ChainFollows
<1> QED
  BY <1>1, <1>2, <1>3 DEF CursorsFollow

\* A transfer behind a cursor was there before, and its wallet's.
LEMMA BehindCursor ==
    ASSUME LeftInv, [MatchingNext]_vars, NEW w \in Wallets, NEW last \in Nat, last <= height',
           NEW t \in Transfers, t \in At(w)', chain'[t].block < Back(last, Repeated)
    PROVE  chain'[t] = chain[t] /\ t \in Before(w, Back(last, Repeated))
<1> USE DEF LeftInv, SeenInv, PartsInv
<1>1. /\ \E sum \in chain'[t].sum : sum[1] = w
      /\ chain'[t].block < Back(last, Repeated)
  BY DEF At
<1>2. ASSUME chain'[t].block = height + 1, UNCHANGED cursor PROVE FALSE
  BY <1>1, <1>2, MatchingAssumption DEF Back, cursor, MatchingTypeOK
<1>3. chain'[t] = chain[t]
  BY <1>2, ChainFollows
<1> QED
  BY <1>1, <1>3 DEF Before, At

LEMMA DealsStep ==
    ASSUME LeftInv, [MatchingNext]_vars
    PROVE  ScanDeals'
<1> USE DEF LeftInv, SeenInv, PartsInv
<1> DEFINE scan == session["scan"]
<1>0. "scan" \in Sessions /\ MatchingTypeOK' /\ CursorsFollow'
  BY PartsStep, CursorsStep DEF Sessions
<1> SUFFICES ASSUME Reaching, NEW t \in Transfers, NEW w \in Wallets,
                    t \in At(w)',
                    chain'[t].block < Back(session'["scan"].scanned[w], Repeated)
             PROVE  DealtInTime(t)'
  BY DEF ScanDeals, Reached, Before
<1>1. t \in Before(w, Back(session'["scan"].scanned[w], Repeated))
  <2>1. session'["scan"].scanned[w] \in Nat /\ session'["scan"].scanned[w] <= height'
    BY <1>0 DEF MatchingTypeOK, CursorsFollow
  <2> QED
    BY <2>1, BehindCursor
<1>2. ASSUME session'["scan"].scanned[w] = scan.scanned[w] PROVE DealtInTime(t)
  BY <1>1, <1>2 DEF ScanDeals, Reached
<1>3. tx[t].status \in Final \/ t \in dropped => tx'[t].status \in Final \/ t \in dropped'
  BY FinalOrDroppedStays
<1>4. CASE UNCHANGED session["scan"]
  BY <1>2, <1>3, <1>4 DEF DealtInTime, Dealt
<1>5. ASSUME NEW v \in Transfers, NEW write, Done("scan", v, write), v \in scan.todo,
             v \in scan.matched \/ write.status \in Final \/ v \notin scan.deep
      PROVE  DealtInTime(t)'
  <2>1. /\ session'["scan"].scanned = scan.scanned /\ session'["scan"].matched = scan.matched
        /\ session'["scan"].skipped = scan.skipped
        /\ session'["scan"].todo = scan.todo \ {v} /\ session'["scan"].deep = scan.deep \ {v}
        /\ session'["scan"].writes[t] = IF t = v THEN write ELSE scan.writes[t]
    BY <1>0, <1>5, DoneFacts
  <2>2. DealtInTime(t)
    BY <1>2, <2>1
  <2> QED
    BY <1>3, <1>5, <2>1, <2>2 DEF DealtInTime, Dealt
<1>6. ASSUME NEW v \in Transfers, NEW r \in Rows, CreditFails(v, r) PROVE DealtInTime(t)'
  <2>1. /\ session'["scan"].scanned = scan.scanned /\ session'["scan"].matched = scan.matched
        /\ session'["scan"].skipped = scan.skipped \cup (scan.todo \ {v})
        /\ session'["scan"].todo = {}
        /\ session'["scan"].writes[t] =
              IF t = v THEN [status |-> "MATCHED", row |-> r, credited |-> FALSE]
              ELSE scan.writes[t]
    BY <1>6, CreditFailsFacts
  <2>2. DealtInTime(t)
    BY <1>2, <2>1
  <2>3. t = v => session'["scan"].writes[t].status \in Final
    BY <2>1 DEF Final
  <2> QED
    BY <1>3, <2>1, <2>2, <2>3 DEF DealtInTime, Dealt
<1>7. ASSUME NEW v \in Wallets, ScanWallet(v) PROVE DealtInTime(t)'
  <2>1. scan.scanned[v] <= height
    BY DEF CursorsFollow
  <2>2. PICK page \in SUBSET At(v), to \in 0..height, skipped \in SUBSET Transfers :
           \E deep \in SUBSET page :
              /\ Visit(v, page, deep, to, skipped)
              /\ Reaching => \A u \in Before(v, Back(to, Repeated)) :
                    /\ \/ u \in Before(v, Back(scan.scanned[v], Repeated))
                       \/ u \in deep \/ u \in skipped
                    /\ u \in page => u \in deep
    BY <1>7, <2>1, ScanReaches
  <2>3. PICK deep \in SUBSET page :
           /\ Visit(v, page, deep, to, skipped)
           /\ \A u \in Before(v, Back(to, Repeated)) :
                 /\ \/ u \in Before(v, Back(scan.scanned[v], Repeated))
                    \/ u \in deep \/ u \in skipped
                 /\ u \in page => u \in deep
    BY <2>2
  <2>4. /\ session'["scan"].matched = scan.matched /\ session'["scan"].writes = scan.writes
        /\ session'["scan"].todo = page /\ session'["scan"].deep = deep
        /\ session'["scan"].skipped = scan.skipped \cup skipped
        /\ session'["scan"].scanned[w] = IF w = v THEN to ELSE scan.scanned[w]
    BY <2>3, VisitFacts
  <2>5. scan.todo = {}
    BY <1>7, ScanVisits DEF NextWallet
  <2>6. ASSUME Reached(t), t \in page => t \in deep PROVE DealtInTime(t)'
    <3>1. Dealt(t)
      BY <2>6 DEF ScanDeals, DealtInTime
    <3> QED
      BY <1>3, <2>4, <2>5, <2>6, <3>1 DEF DealtInTime, Dealt
  <2>7. CASE w = v
    <3>1. /\ t \in Before(v, Back(scan.scanned[v], Repeated)) \/ t \in deep \/ t \in skipped
          /\ t \in page => t \in deep
      BY <1>1, <2>3, <2>4, <2>7
    <3>2. CASE t \in Before(v, Back(scan.scanned[v], Repeated))
      BY <2>6, <3>1, <3>2 DEF Reached
    <3>3. CASE t \in deep \/ t \in skipped
      BY <2>4, <3>1, <3>3 DEF DealtInTime, Dealt
    <3> QED
      BY <3>1, <3>2, <3>3
  <2>8. CASE w # v
    <3>1. Reached(t)
      BY <1>1, <2>4, <2>8 DEF Reached
    <3>2. t \in At(w)
      BY <1>1 DEF Before
    <3>3. t \notin At(v)
      BY <2>8, <3>2 DEF At, CursorsFollow
    <3> QED
      BY <2>6, <3>1, <3>3
  <2> QED
    BY <2>7, <2>8
<1>8. CASE ScanBegins
  <2>1. session'["scan"].scanned = scanned /\ session'["scan"].todo = {}
    BY <1>8, BeginFacts
  <2>2. Past(t)
    BY <1>1, <2>1 DEF Past
  <2>3. tx[t].status \in Final \/ t \in dropped
    BY <2>2 DEF NothingMissed, Reaching, Final
  <2> QED
    BY <1>3, <2>1, <2>3 DEF DealtInTime, Dealt
<1>9. CASE Close("scan")
  <2>1. session'["scan"].scanned[w] = 0
    BY <1>0, <1>9, SessionStates, ClosedFacts
  <2>2. chain[t].block < 0 /\ chain[t].block \in Nat
    BY <1>1, <2>1, MatchingAssumption, TypeParts DEF Before, Back, ChainType
  <2> QED
    BY <2>2
<1>10. ASSUME NEW s \in Sessions, s # "scan",
              Close(s) \/ \E v \in Transfers : \E write : Done(s, v, write)
       PROVE  DealtInTime(t)'
  BY <1>0, <1>4, <1>10, SessionStates, DoneFacts
<1>11. ASSUME NEW v \in Transfers, WebhookBegins(v) PROVE DealtInTime(t)'
  BY <1>0, <1>4, <1>11, WebhookFacts
<1>12. ASSUME NEW s \in Sessions, NEW v \in Transfers,
              \/ IngestMatched(s, v) \/ IngestShallow(s, v) \/ IngestUnmatched(s, v)
              \/ \E r \in Rows : IngestMatch(s, v, r)
       PROVE  DealtInTime(t)'
  <2>1. PICK write :
           /\ Done(s, v, write) /\ v \in session[s].todo
           /\ v \in session[s].matched \/ write.status \in Final \/ v \notin session[s].deep
    <3>1. /\ [NoWrite EXCEPT !.status = "UNMATCHED"].status \in Final
          /\ \A r \in Rows : [status |-> "MATCHED", row |-> r, credited |-> TRUE].status \in Final
      BY DEF NoWrite, Final
    <3>2. CASE IngestMatched(s, v)
      BY <3>2 DEF IngestMatched, Turn
    <3>3. CASE IngestShallow(s, v)
      BY <3>3 DEF IngestShallow, Turn
    <3>4. CASE IngestUnmatched(s, v)
      BY <3>1, <3>4 DEF IngestUnmatched, Turn
    <3>5. CASE \E r \in Rows : IngestMatch(s, v, r)
      BY <3>1, <3>5 DEF IngestMatch, Turn
    <3> QED
      BY <1>12, <3>2, <3>3, <3>4, <3>5
  <2> QED
    BY <1>5, <1>10, <2>1
<1> QED
  BY <1>4, <1>6, <1>7, <1>8, <1>9, <1>10, <1>11, <1>12, SessionActions

LEMMA MissedStep ==
    ASSUME LeftInv, [MatchingNext]_vars
    PROVE  NothingMissed'
<1> USE DEF LeftInv, SeenInv, PartsInv
<1>0. MatchingTypeOK' /\ CursorsFollow'
  BY PartsStep, CursorsStep
<1> SUFFICES ASSUME Reaching, NEW t \in Transfers, NEW w \in Wallets,
                    t \in At(w)', chain'[t].block < Back(scanned'[w], Repeated)
             PROVE  tx'[t].status \in Final \/ t \in dropped'
  BY DEF NothingMissed, Past, Before, Reaching, Final
<1>1. t \in Before(w, Back(scanned'[w], Repeated))
  <2>1. scanned'[w] \in Nat /\ scanned'[w] <= height'
    BY <1>0 DEF MatchingTypeOK, CursorsFollow
  <2> QED
    BY <2>1, BehindCursor
<1>2. CASE scanned'[w] = scanned[w]
  <2>1. tx[t].status \in Final \/ t \in dropped
    BY <1>1, <1>2 DEF NothingMissed, Past, Reaching, Final
  <2> QED
    BY <2>1, FinalOrDroppedStays
<1>3. CASE Commit("scan")
  <2>1. session["scan"].todo = {} /\ dropped' = dropped \cup session["scan"].skipped
        /\ scanned' = session["scan"].scanned
    BY <1>3 DEF Commit
  <2>2. Dealt(t)
    BY <1>1, <2>1 DEF ScanDeals, Reached, DealtInTime
  <2>3. CASE t \in session["scan"].matched
    BY <2>3, FinalStays DEF MatchedIsFinal, Sessions
  <2>4. CASE session["scan"].writes[t].status \in Final
    <3>1. session["scan"].writes[t] # NoWrite /\ session["scan"].writes[t].status # "DETECTED"
      BY <2>4 DEF NoWrite, Final
    <3> QED
      BY <1>3, <3>1, CommitStatus DEF Sessions
  <2>5. CASE tx[t].status \in Final \/ t \in dropped
    BY <2>5, FinalOrDroppedStays
  <2> QED
    BY <2>1, <2>2, <2>3, <2>4, <2>5 DEF Dealt
<1>4. CASE scanned' = scanned
  BY <1>2, <1>4
<1> QED
  <2>1. ASSUME NEW s \in Sessions, Commit(s), s # "scan" PROVE scanned' = scanned
    BY <2>1 DEF Commit
  <2> QED
    BY <1>3, <1>4, <2>1, CursorSteps DEF cursor

LEMMA LeftInvariant == MatchingSpec => []LeftInv
<1>1. ASSUME MatchingInit
      PROVE  WritesSound /\ MatchedIsFinal /\ CursorsFollow /\ ScanDeals /\ NothingMissed
  <2>1. /\ \A t \in Transfers : ~Matched(t) /\ chain[t].sum = {}
        /\ \A s \in Sessions : /\ session[s].matched = {}
                              /\ \A t \in Transfers : session[s].writes[t] = NoWrite
        /\ \A w \in Wallets : scanned[w] = 0 /\ session["scan"].scanned[w] = 0 /\ height = 1
    BY <1>1 DEF MatchingInit, NewTx, NewTransfer, Matched, Closed, Sessions
  <2>2. \A w \in Wallets : At(w) = {}
    BY <2>1 DEF At
  <2>3. \A t \in Transfers : ~Reached(t) /\ ~Past(t)
    BY <2>2 DEF Reached, Past, Before
  <2> QED
    BY <2>1, <2>3 DEF WritesSound, MatchedIsFinal, CursorsFollow, ScanDeals, NothingMissed
<1>2. LeftInv /\ SeenInv' /\ [MatchingNext]_vars => LeftInv'
  BY SoundStep, FinalStep, CursorsStep, DealsStep, MissedStep DEF LeftInv
<1>3. MatchingInit /\ SeenInv => LeftInv
  BY <1>1 DEF LeftInv
<1> QED
  BY <1>2, <1>3, SeenInvariant, PTL DEF MatchingSpec

\* A transfer that no scan will list again is matched, or left to a person, unless
\* an exception or the first scan passed over it, wherever a wallet asks for no more
\* than two confirmations above the blocks a scan repeats; and so for any number of
\* rows, transfers, wallets, blocks and failures.
THEOREM MissesNothing == MatchingSpec => []NothingMissed
<1>1. LeftInv => NothingMissed
  BY DEF LeftInv
<1> QED
  BY <1>1, LeftInvariant, PTL
=============================================================================
