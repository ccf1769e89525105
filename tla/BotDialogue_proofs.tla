-------------------------- MODULE BotDialogue_proofs --------------------------
(***************************************************************************)
(* What BotDialogue promises, for any number of plans, names, updates and   *)
(* updates handled at once: types, one payment for one confirmation, and an *)
(* order is what was shown.                                                *)
(*                                                                         *)
(* Each property has an invariant of its own on top of the types.  That a   *)
(* user pays once is a matter of counting: a dialogue that waits for a      *)
(* confirmation, and a confirmation that may still order, are worth one     *)
(* time the bot asked.  That an order is what was shown needs that whatever *)
(* the handlers hold of a purchase, while none of them chooses one, is the  *)
(* same purchase, or nothing because another handler cleared the data.      *)
(***************************************************************************)
EXTENDS BotDialogue, FiniteSetTheorems, TLAPS

----------------------------------------------------------------------------
(* Types: where in its work a handler of each kind can be.                  *)

Showing == {"again", "back", "status"}
Saving  == {"topup", "deposit", "sum"}

InPlace(r) ==
    /\ r.kind = "plan" => r.at \in {"get", "put", "goto"} /\ r.held.plan # None
    /\ r.kind = "name" =>
          /\ r.at \in {"get", "put", "read", "call", "refresh", "save", "offer", "show", "clear",
                      "wipe"}
          /\ r.held.target # None
          /\ r.at \in {"call", "refresh", "save", "offer"} => r.held.plan # None
    /\ r.kind = "pay" => r.at \in {"read", "buy", "clear", "wipe"}
    /\ r.kind \in Showing =>
          /\ r.at \in {"ask", "read", "call", "refresh", "save", "offer", "show", "clear", "wipe"}
          /\ r.at \in {"call", "refresh", "save", "offer"} => r.held.plan # None
    /\ r.kind \in Saving => r.at \in {"call", "get", "put", "goto", "clear", "wipe"}
    /\ r.kind \in {"recharge", "custom", "wallet"} => r.at = "goto"
    /\ r.kind = "credit" => r.at \in {"call", "clear", "wipe"}
    /\ r.kind = "menu" => r.at \in {"clear", "wipe"}
    /\ r.at \in {"show", "buy"} => Complete(r.held)

TypeInv ==
    /\ DialogueTypeOK
    /\ \A h \in Handlers : handler[h] # Idle => InPlace(handler[h])

\* The updates and the handlers they start.
Entry(kind, first, chosen) ==
    /\ [kind |-> kind, at |-> first, held |-> chosen, copy |-> NoData] \in Handling
    /\ InPlace([kind |-> kind, at |-> first, held |-> chosen, copy |-> NoData])
    /\ kind # "again"
    /\ first \in {"get", "goto", "read", "ask", "call", "clear"}
    /\ kind = "plan" => first = "get"
    /\ kind = "name" => first = "get" /\ state = "username"
    /\ kind = "pay" => first = "read" /\ state = "confirm"
    /\ kind \in Showing => first \in {"read", "ask"}
    /\ kind \in Saving => first = "call"

LEMMA NoDataType == BotAssumption => NoData \in Purchase /\ ~Complete(NoData)
BY DEF NoData, Purchase, Complete, BotAssumption

LEMMA UpdateReceives ==
    ASSUME BotAssumption, TypeInv, NEW h \in Handlers, Update(h)
    PROVE  \E kind, first, chosen : Entry(kind, first, chosen) /\ Receive(h, kind, first, chosen)
<1>1. NoData \in Purchase
  BY NoDataType
<1>2. ASSUME NEW kind \in Kinds, NEW first \in {"get", "goto", "read", "ask", "call", "clear"},
             NEW chosen \in Purchase
      PROVE  [kind |-> kind, at |-> first, held |-> chosen, copy |-> NoData] \in Handling
  BY <1>1 DEF Handling
<1>3. CASE ChoosePlan(h)
  <2>1. PICK p \in Plans : Receive(h, "plan", "get", [NoData EXCEPT !.plan = p])
    BY <1>3 DEF ChoosePlan
  <2>2. [NoData EXCEPT !.plan = p] \in Purchase /\ [NoData EXCEPT !.plan = p].plan # None
    BY DEF NoData, Purchase, BotAssumption
  <2>3. Entry("plan", "get", [NoData EXCEPT !.plan = p])
    BY <1>2, <2>2 DEF Entry, InPlace, Kinds, Showing, Saving
  <2> QED
    BY <2>1, <2>3
<1>4. CASE ReceiveUsername(h)
  <2>1. PICK t \in Targets : Receive(h, "name", "get", [NoData EXCEPT !.target = t])
    BY <1>4 DEF ReceiveUsername
  <2>2. [NoData EXCEPT !.target = t] \in Purchase /\ [NoData EXCEPT !.target = t].target # None
    BY DEF NoData, Purchase, BotAssumption
  <2>3. Entry("name", "get", [NoData EXCEPT !.target = t])
    BY <1>2, <1>4, <2>2 DEF Entry, InPlace, Kinds, Showing, Saving, ReceiveUsername
  <2> QED
    BY <2>1, <2>3
<1>5. Entry("pay", "read", NoData) \/ state # "confirm"
  BY <1>1, <1>2 DEF Entry, InPlace, Kinds, Showing, Saving
<1>6. /\ Entry("recharge", "goto", NoData) /\ Entry("custom", "goto", NoData)
      /\ Entry("wallet", "goto", NoData)
  BY <1>1, <1>2 DEF Entry, InPlace, Kinds, Showing, Saving
<1>7. Entry("back", "read", NoData) /\ Entry("status", "ask", NoData)
  BY <1>1, <1>2 DEF Entry, InPlace, Kinds, Showing, Saving
<1>8. /\ Entry("topup", "call", NoData) /\ Entry("deposit", "call", NoData)
      /\ Entry("sum", "call", NoData)
  BY <1>1, <1>2 DEF Entry, InPlace, Kinds, Showing, Saving
<1>9. Entry("credit", "call", NoData) /\ Entry("menu", "clear", NoData)
  BY <1>1, <1>2 DEF Entry, InPlace, Kinds, Showing, Saving
<1> QED
  BY <1>3, <1>4, <1>5, <1>6, <1>7, <1>8, <1>9
     DEF Update, ConfirmWalletPayment, ChooseRechargeAmount, BackToBalance, RefreshDepositStatus,
         OwnAmount, RechargeAmount, CreatePurchaseDeposit, StartDeposit, ReceiveDepositAmount,
         ChooseDepositNetwork, Menu

\* The handlers' records are changed one at a time.
Becomes(h, r) == handler' = [handler EXCEPT ![h] = r]

LEMMA RecordTypes ==
    ASSUME TypeInv, NEW h \in Handlers, handler[h] # Idle
    PROVE  /\ handler[h] \in Handling /\ InPlace(handler[h])
           /\ handler[h].kind \in Kinds
           /\ handler[h].held \in Purchase /\ handler[h].copy \in Purchase
           /\ \A at \in {"get", "put", "goto", "ask", "read", "call", "refresh", "save",
                         "offer", "show", "buy", "clear", "wipe"} :
                 [handler[h] EXCEPT !.at = at] \in Handling
           /\ data \in Purchase
BY DEF TypeInv, DialogueTypeOK, Handling

LEMMA OneHandler ==
    ASSUME TypeInv, NEW h \in Handlers, NEW r \in Handling \cup {Idle}, Becomes(h, r),
           r # Idle => InPlace(r)
    PROVE  /\ handler' \in [Handlers -> Handling \cup {Idle}]
           /\ \A g \in Handlers : handler'[g] # Idle => InPlace(handler'[g])
           /\ handler'[h] = r
           /\ \A g \in Handlers \ {h} : handler'[g] = handler[g]
BY DEF TypeInv, DialogueTypeOK, Becomes

LEMMA IdleIs == Idle.at = "end" /\ Idle.kind = "none" /\ Idle \notin Handling
BY DEF Idle, Handling

\* What a refusal makes of a handler.
RefusedRecord(r) ==
    CASE r.kind = "pay"                  -> [r EXCEPT !.kind = "again", !.at = "read"]
      [] r.kind \in {"again", "deposit"} -> Idle
      [] OTHER                           -> [r EXCEPT !.at = "clear"]

LEMMA RefusalType ==
    ASSUME TypeInv, NEW h \in Handlers, handler[h] # Idle,
           handler[h].at \in {"read", "call", "offer", "buy"}, Refused(h)
    PROVE  /\ Becomes(h, RefusedRecord(handler[h]))
           /\ RefusedRecord(handler[h]) \in Handling \cup {Idle}
           /\ RefusedRecord(handler[h]) # Idle => InPlace(RefusedRecord(handler[h]))
           /\ RefusedRecord(handler[h]).at \in {"end", "read", "clear"}
           /\ handler[h].kind # "pay" => RefusedRecord(handler[h]).at # "read"
           /\ handler[h].kind = "pay" => RefusedRecord(handler[h]).kind = "again"
<1> DEFINE r == handler[h]
<1>0. r \in Handling /\ InPlace(r) /\ handler \in [Handlers -> Handling \cup {Idle}]
  BY RecordTypes DEF TypeInv, DialogueTypeOK
<1>1. Becomes(h, RefusedRecord(r))
  BY <1>0 DEF Refused, RefusedRecord, Becomes
<1>2. CASE r.kind = "pay"
  <2>1. RefusedRecord(r) = [r EXCEPT !.kind = "again", !.at = "read"]
    BY <1>2 DEF RefusedRecord
  <2>2. [r EXCEPT !.kind = "again", !.at = "read"] \in Handling
    BY <1>0 DEF Handling, Kinds
  <2>3. InPlace([r EXCEPT !.kind = "again", !.at = "read"])
    BY <1>0 DEF InPlace, Handling, Showing, Saving
  <2> QED
    BY <1>0, <1>1, <1>2, <2>1, <2>2, <2>3 DEF Handling
<1>3. CASE r.kind \in {"again", "deposit"}
  BY <1>1, <1>3, IdleIs DEF RefusedRecord
<1>4. CASE r.kind \notin {"pay", "again", "deposit"}
  <2>1. RefusedRecord(r) = [r EXCEPT !.at = "clear"]
    BY <1>4 DEF RefusedRecord
  <2>2. [r EXCEPT !.at = "clear"] \in Handling
    BY <1>0 DEF Handling
  <2>3. InPlace([r EXCEPT !.at = "clear"])
    BY <1>0, <1>4 DEF InPlace, Handling, Showing, Saving
  <2> QED
    BY <1>0, <1>1, <1>4, <2>1, <2>2, <2>3 DEF Handling
<1> QED
  BY <1>2, <1>3, <1>4

\* Every step leaves each handler at a place of its kind.
LEMMA MoveType ==
    ASSUME BotAssumption, TypeInv, NEW h \in Handlers, NEW place, At(h, place),
           handler[h] # Idle,
           InPlace([handler[h] EXCEPT !.at = place]),
           place \in {"get", "put", "goto", "ask", "read", "call", "refresh", "save", "offer",
                      "show", "buy", "clear", "wipe"}
    PROVE  /\ handler' \in [Handlers -> Handling \cup {Idle}]
           /\ \A g \in Handlers : handler'[g] # Idle => InPlace(handler'[g])
           /\ handler'[h] = [handler[h] EXCEPT !.at = place]
           /\ \A g \in Handlers \ {h} : handler'[g] = handler[g]
<1>1. handler \in [Handlers -> Handling \cup {Idle}]
  BY DEF TypeInv, DialogueTypeOK
<1>2. Becomes(h, [handler[h] EXCEPT !.at = place])
  BY <1>1 DEF At, Becomes
<1>3. [handler[h] EXCEPT !.at = place] \in Handling
  BY RecordTypes
<1> QED
  BY <1>2, <1>3, OneHandler

LEMMA EndType ==
    ASSUME TypeInv, NEW h \in Handlers, End(h)
    PROVE  /\ handler' \in [Handlers -> Handling \cup {Idle}]
           /\ \A g \in Handlers : handler'[g] # Idle => InPlace(handler'[g])
           /\ handler'[h] = Idle
           /\ \A g \in Handlers \ {h} : handler'[g] = handler[g]
BY OneHandler DEF End, Becomes

----------------------------------------------------------------------------
(* One step for each action: what becomes of the handler that takes it.     *)

\* The other handlers are as they were.
Others(h) == \A g \in Handlers \ {h} : handler'[g] = handler[g]

HandlersOK ==
    /\ handler \in [Handlers -> Handling \cup {Idle}]
    /\ \A g \in Handlers : handler[g] # Idle => InPlace(handler[g])

LEMMA NotIdle ==
    ASSUME NEW h \in Handlers, handler[h].at # "end"
    PROVE  handler[h] # Idle
BY DEF Idle

LEMMA ReceiveMoves ==
    ASSUME BotAssumption, TypeInv, NEW h \in Handlers, NEW kind, NEW first, NEW chosen,
           Entry(kind, first, chosen), Receive(h, kind, first, chosen)
    PROVE  /\ HandlersOK' /\ Others(h) /\ handler[h] = Idle
           /\ handler'[h] = [kind |-> kind, at |-> first, held |-> chosen, copy |-> NoData]
<1> DEFINE r == [kind |-> kind, at |-> first, held |-> chosen, copy |-> NoData]
<1>1. r \in Handling /\ InPlace(r) /\ Becomes(h, r)
  BY DEF Entry, Receive, Becomes
<1> HIDE DEF r
<1>2. /\ handler' \in [Handlers -> Handling \cup {Idle}]
      /\ \A g \in Handlers : handler'[g] # Idle => InPlace(handler'[g])
      /\ handler'[h] = r
      /\ \A g \in Handlers \ {h} : handler'[g] = handler[g]
  BY <1>1, OneHandler
<1>3. handler[h] = Idle
  BY DEF Receive
<1> QED
  BY <1>2, <1>3 DEF r, HandlersOK, Others

LEMMA GetMoves ==
    ASSUME BotAssumption, TypeInv, NEW h \in Handlers, Get(h)
    PROVE  /\ HandlersOK' /\ Others(h) /\ handler[h] # Idle
           /\ handler'[h] = [handler[h] EXCEPT !.copy = data,
                                               !.at = IF @ = "get" THEN "put" ELSE "save"]
<1> DEFINE r == [handler[h] EXCEPT !.copy = data,
                                   !.at = IF @ = "get" THEN "put" ELSE "save"]
<1>1. handler[h] # Idle
  BY NotIdle DEF Get
<1>2. handler[h] \in Handling /\ InPlace(handler[h]) /\ data \in Purchase
  BY <1>1, RecordTypes
<1>3. r \in Handling
  BY <1>2 DEF Handling
<1>4. InPlace(r)
  BY <1>2 DEF InPlace, Handling, Get, Showing, Saving
<1>5. Becomes(h, r)
  BY DEF Get, Becomes, TypeInv, DialogueTypeOK
<1> QED
  BY <1>1, <1>3, <1>4, <1>5, OneHandler DEF HandlersOK, Others

LEMMA PutMoves ==
    ASSUME BotAssumption, TypeInv, NEW h \in Handlers, Put(h)
    PROVE  /\ HandlersOK' /\ Others(h) /\ handler[h] # Idle
           /\ handler'[h] = [handler[h] EXCEPT !.at =
                 IF @ = "save" THEN "offer"
                 ELSE IF handler[h].kind = "name" THEN "read" ELSE "goto"]
<1> DEFINE place == IF handler[h].at = "save" THEN "offer"
                    ELSE IF handler[h].kind = "name" THEN "read" ELSE "goto"
<1>1. handler[h] # Idle
  BY NotIdle DEF Put
<1>2. handler[h] \in Handling /\ InPlace(handler[h])
  BY <1>1, RecordTypes
<1>3. InPlace([handler[h] EXCEPT !.at = place])
  BY <1>2 DEF InPlace, Handling, Put, Showing, Saving
<1>4. At(h, place)
  BY DEF Put
<1>5. place \in {"offer", "read", "goto"}
  OBVIOUS
<1> HIDE DEF place
<1>6. /\ handler' \in [Handlers -> Handling \cup {Idle}]
      /\ \A g \in Handlers : handler'[g] # Idle => InPlace(handler'[g])
      /\ handler'[h] = [handler[h] EXCEPT !.at = place]
      /\ \A g \in Handlers \ {h} : handler'[g] = handler[g]
  BY <1>1, <1>3, <1>4, <1>5, MoveType
<1> QED
  BY <1>1, <1>6 DEF HandlersOK, Others, place

LEMMA ReadMoves ==
    ASSUME BotAssumption, TypeInv, NEW h \in Handlers, Read(h)
    PROVE  /\ HandlersOK' /\ Others(h) /\ handler[h] # Idle
           /\ handler[h].kind \in Showing \cup {"name", "pay"}
           /\ \/ handler'[h] = RefusedRecord(handler[h])
              \/ LET held == IF handler[h].kind = "name"
                             THEN [data EXCEPT !.target = handler[h].held.target] ELSE data IN
                 /\ handler'[h] = [handler[h] EXCEPT !.held = held,
                                      !.at = IF handler[h].kind = "pay" THEN "buy" ELSE "call"]
                 /\ held.plan # None
                 /\ handler[h].kind = "pay" => Complete(held)
<1> DEFINE kind == handler[h].kind
           held == IF kind = "name" THEN [data EXCEPT !.target = handler[h].held.target] ELSE data
           r == [handler[h] EXCEPT !.held = held, !.at = IF kind = "pay" THEN "buy" ELSE "call"]
<1>1. handler[h] # Idle
  BY NotIdle DEF Read
<1>2. handler[h] \in Handling /\ InPlace(handler[h]) /\ data \in Purchase
  BY <1>1, RecordTypes
<1>3. kind \in Showing \cup {"name", "pay"}
  BY <1>2 DEF Read, Handling, InPlace, Kinds, Showing, Saving
<1>4. CASE held.plan = None \/ (kind = "pay" /\ held.target = None)
  <2>1. Refused(h) /\ handler[h].at = "read"
    BY <1>4 DEF Read
  <2> QED
    BY <1>1, <1>3, <2>1, RefusalType, OneHandler DEF HandlersOK, Others
<1>5. CASE ~(held.plan = None \/ (kind = "pay" /\ held.target = None))
  <2>1. held \in Purchase
    BY <1>2 DEF Purchase, Handling
  <2>2. kind = "name" => held.target # None
    BY <1>2 DEF InPlace, Purchase
  <2>3. r \in Handling
    BY <1>2, <2>1 DEF Handling
  <2>4. InPlace(r)
    BY <1>2, <1>3, <1>5, <2>2 DEF InPlace, Handling, Showing, Saving, Complete
  <2>5. Becomes(h, r)
    BY <1>5 DEF Read, Becomes, TypeInv, DialogueTypeOK
  <2> QED
    BY <1>1, <1>3, <1>5, <2>3, <2>4, <2>5, OneHandler DEF HandlersOK, Others, Complete
<1> QED
  BY <1>4, <1>5

\* The other steps move a handler on, refuse it, or end it.
MovesOn(h, place) == handler'[h] = [handler[h] EXCEPT !.at = place]

Refuses(h) == handler'[h] = RefusedRecord(handler[h])

Ends(h) == handler'[h] = Idle

LEMMA MovedRecord ==
    ASSUME TypeInv, NEW h \in Handlers, handler[h] # Idle, NEW place, MovesOn(h, place)
    PROVE  /\ handler'[h].kind = handler[h].kind /\ handler'[h].held = handler[h].held
           /\ handler'[h].copy = handler[h].copy /\ handler'[h].at = place
BY RecordTypes DEF MovesOn, Handling

LEMMA AskMoves ==
    ASSUME BotAssumption, TypeInv, NEW h \in Handlers, Ask(h)
    PROVE  /\ HandlersOK' /\ Others(h) /\ handler[h] # Idle /\ handler[h].kind \in Showing
           /\ MovesOn(h, "read") \/ Ends(h)
<1>1. handler[h] # Idle
  BY NotIdle DEF Ask
<1>2. handler[h] \in Handling /\ InPlace(handler[h])
  BY <1>1, RecordTypes
<1>3. handler[h].kind \in Showing /\ InPlace([handler[h] EXCEPT !.at = "read"])
  BY <1>2 DEF InPlace, Handling, Kinds, Ask, Showing, Saving
<1>4. CASE At(h, "read")
  BY <1>1, <1>3, <1>4, MoveType DEF HandlersOK, Others, MovesOn
<1>5. CASE End(h)
  BY <1>1, <1>3, <1>5, EndType DEF HandlersOK, Others, Ends
<1> QED
  BY <1>4, <1>5 DEF Ask

LEMMA CallMoves ==
    ASSUME BotAssumption, TypeInv, NEW h \in Handlers, Call(h)
    PROVE  /\ HandlersOK' /\ Others(h) /\ handler[h] # Idle /\ handler[h].kind # "pay"
           /\ \/ Refuses(h)
              \/ handler[h].kind \in Saving /\ MovesOn(h, "get")
              \/ handler[h].kind = "credit" /\ MovesOn(h, "clear")
              \/ handler[h].kind \in Showing \cup {"name"} /\ MovesOn(h, "refresh")
<1> DEFINE kind == handler[h].kind
           place == CASE kind \in {"topup", "deposit", "sum"} -> "get"
                      [] kind = "credit" -> "clear"
                      [] OTHER -> "refresh"
<1>1. handler[h] # Idle
  BY NotIdle DEF Call
<1>2. handler[h] \in Handling /\ InPlace(handler[h])
  BY <1>1, RecordTypes
<1>3. kind \in Saving \cup Showing \cup {"name", "credit"}
  BY <1>2 DEF InPlace, Handling, Kinds, Call, Showing, Saving
<1>4. CASE Refused(h)
  <2>1. kind # "pay" /\ handler[h].at = "call"
    BY <1>3 DEF Showing, Saving, Call
  <2> QED
    BY <1>1, <1>4, <2>1, RefusalType, OneHandler DEF HandlersOK, Others, Refuses
<1>5. CASE At(h, place)
  <2>1. /\ kind \in Saving => place = "get"
        /\ kind = "credit" => place = "clear"
        /\ kind \in Showing \cup {"name"} => place = "refresh"
    BY DEF Showing, Saving
  <2>2. InPlace([handler[h] EXCEPT !.at = place])
    BY <1>2, <1>3 DEF InPlace, Handling, Call, Showing, Saving
  <2> HIDE DEF place
  <2>3. HandlersOK' /\ Others(h) /\ MovesOn(h, place)
    BY <1>1, <1>3, <1>5, <2>1, <2>2, MoveType DEF HandlersOK, Others, MovesOn
  <2> QED
    BY <1>1, <1>3, <2>1, <2>3 DEF Showing, Saving
<1> QED
  BY <1>4, <1>5 DEF Call

LEMMA LeadsOn ==
    ASSUME NEW kind \in {"plan", "recharge", "custom", "topup", "deposit", "wallet", "sum"}
    PROVE  Leads[kind].to \in Steps \ {"confirm"} /\ Leads[kind].shows \subseteq Kinds
<1>1. CASE kind = "plan"
  <2>1. Leads[kind].to = "username" /\ Leads[kind].shows = {"name"}
    BY <1>1 DEF Leads
  <2> QED
    BY <2>1 DEF Steps, Kinds
<1>2. CASE kind = "recharge"
  <2>1. Leads[kind].to = "choice" /\ Leads[kind].shows = {"custom", "topup", "back"}
    BY <1>2 DEF Leads
  <2> QED
    BY <2>1 DEF Steps, Kinds
<1>3. CASE kind = "custom"
  <2>1. Leads[kind].to = "amount" /\ Leads[kind].shows = {"topup"}
    BY <1>3 DEF Leads
  <2> QED
    BY <2>1 DEF Steps, Kinds
<1>4. CASE kind = "topup"
  <2>1. Leads[kind].to = "network" /\ Leads[kind].shows = {"deposit", "credit"}
    BY <1>4 DEF Leads
  <2> QED
    BY <2>1 DEF Steps, Kinds
<1>5. CASE kind = "deposit"
  <2>1. Leads[kind].to = "paying" /\ Leads[kind].shows = {"status"}
    BY <1>5 DEF Leads
  <2> QED
    BY <2>1 DEF Steps, Kinds
<1>6. CASE kind = "wallet"
  <2>1. Leads[kind].to = "deposit amount" /\ Leads[kind].shows = {"sum"}
    BY <1>6 DEF Leads
  <2> QED
    BY <2>1 DEF Steps, Kinds
<1>7. CASE kind = "sum"
  <2>1. Leads[kind].to = "deposit network" /\ Leads[kind].shows = {"deposit", "credit"}
    BY <1>7 DEF Leads
  <2> QED
    BY <2>1 DEF Steps, Kinds
<1> QED
  BY <1>1, <1>2, <1>3, <1>4, <1>5, <1>6, <1>7

LEMMA GoToMoves ==
    ASSUME BotAssumption, TypeInv, NEW h \in Handlers, GoTo(h)
    PROVE  /\ HandlersOK' /\ Others(h) /\ handler[h] # Idle /\ Ends(h)
           /\ handler[h].kind # "name"
           /\ state' \in Steps \ {"confirm"}
           /\ buttons' \subseteq Kinds
<1>1. handler[h] # Idle
  BY NotIdle DEF GoTo
<1>2. handler[h] \in Handling /\ InPlace(handler[h])
  BY <1>1, RecordTypes
<1>3. handler[h].kind \in {"plan", "recharge", "custom", "topup", "deposit", "wallet", "sum"}
  BY <1>2 DEF InPlace, Handling, Kinds, GoTo, Showing, Saving
<1>4. Leads[handler[h].kind].to \in Steps \ {"confirm"}
  BY <1>3, LeadsOn
<1>5. Leads[handler[h].kind].shows \subseteq Kinds
  BY <1>3, LeadsOn
<1> QED
  BY <1>1, <1>3, <1>4, <1>5, EndType DEF GoTo, HandlersOK, Others, Ends, TypeInv, DialogueTypeOK

\* A payment or a recharge is offered.
LEMMA OfferMoves ==
    ASSUME BotAssumption, TypeInv, NEW h \in Handlers, OfferPayment(h) \/ OfferRecharge(h)
    PROVE  /\ HandlersOK' /\ Others(h) /\ handler[h] # Idle
           /\ handler[h].kind \in Showing \cup {"name"}
           /\ handler[h].held \in Purchase /\ handler[h].held.plan # None
           /\ IF handler[h].held.target = None THEN Refuses(h)
              ELSE (OfferPayment(h) => MovesOn(h, "show")) /\ (OfferRecharge(h) => Ends(h))
<1>1. handler[h] # Idle
  BY NotIdle DEF OfferPayment, OfferRecharge
<1>2. handler[h] \in Handling /\ InPlace(handler[h]) /\ handler[h].at = "offer"
  BY <1>1, RecordTypes DEF OfferPayment, OfferRecharge
<1>3. handler[h].kind \in Showing \cup {"name"}
  BY <1>2 DEF InPlace, Handling, Kinds, Showing, Saving
<1>4. handler[h].held \in Purchase /\ handler[h].held.plan # None
  BY <1>2, <1>3 DEF InPlace, Handling
<1>5. CASE handler[h].held.target = None
  BY <1>1, <1>2, <1>3, <1>4, <1>5, RefusalType, OneHandler
     DEF HandlersOK, Others, Refuses, OfferPayment, OfferRecharge
<1>6. CASE handler[h].held.target # None /\ OfferPayment(h)
  <2>1. InPlace([handler[h] EXCEPT !.at = "show"])
    BY <1>2, <1>3, <1>4, <1>6 DEF InPlace, Handling, Showing, Saving, Complete
  <2>2. At(h, "show") /\ ~OfferRecharge(h)
    BY <1>6 DEF OfferPayment, OfferRecharge
  <2> QED
    BY <1>1, <1>3, <1>4, <1>6, <2>1, <2>2, MoveType DEF HandlersOK, Others, MovesOn
<1>7. CASE handler[h].held.target # None /\ OfferRecharge(h)
  <2>1. ~OfferPayment(h)
    BY <1>7 DEF OfferPayment, OfferRecharge
  <2> QED
    BY <1>1, <1>3, <1>4, <1>7, <2>1, EndType DEF HandlersOK, Others, Ends, OfferRecharge
<1> QED
  BY <1>5, <1>6, <1>7

LEMMA ShowMoves ==
    ASSUME BotAssumption, TypeInv, NEW h \in Handlers, ShowPayment(h)
    PROVE  /\ HandlersOK' /\ Others(h) /\ handler[h] # Idle /\ Ends(h)
           /\ handler[h].kind \in Showing \cup {"name"}
           /\ handler[h].held \in Purchase /\ Complete(handler[h].held)
<1>1. handler[h] # Idle
  BY NotIdle DEF ShowPayment
<1>2. handler[h] \in Handling /\ InPlace(handler[h]) /\ handler[h].at = "show"
  BY <1>1, RecordTypes DEF ShowPayment
<1>3. handler[h].kind \in Showing \cup {"name"}
  BY <1>2 DEF InPlace, Handling, Kinds, Showing, Saving
<1>4. handler[h].held \in Purchase /\ Complete(handler[h].held)
  BY <1>2 DEF InPlace, Handling
<1> QED
  BY <1>1, <1>3, <1>4, EndType DEF HandlersOK, Others, Ends, ShowPayment

LEMMA BuyMoves ==
    ASSUME BotAssumption, TypeInv, NEW h \in Handlers, Buy(h) \/ BuyUnheard(h) \/ BuyRefused(h)
    PROVE  /\ HandlersOK' /\ Others(h) /\ handler[h] # Idle
           /\ handler[h].kind = "pay" /\ handler[h].at = "buy"
           /\ handler[h].held \in Purchase /\ Complete(handler[h].held)
           /\ Buy(h) => MovesOn(h, "clear")
           /\ BuyUnheard(h) => Ends(h)
           /\ BuyRefused(h) => Refuses(h)
<1>1. handler[h] # Idle
  BY NotIdle DEF Buy, BuyUnheard, BuyRefused
<1>2. handler[h] \in Handling /\ InPlace(handler[h]) /\ handler[h].at = "buy"
  BY <1>1, RecordTypes DEF Buy, BuyUnheard, BuyRefused
<1>3. handler[h].kind = "pay" /\ handler[h].held \in Purchase /\ Complete(handler[h].held)
  BY <1>2 DEF InPlace, Handling, Kinds, Showing, Saving
<1>4. ASSUME Buy(h) PROVE HandlersOK' /\ Others(h) /\ MovesOn(h, "clear")
  <2>1. InPlace([handler[h] EXCEPT !.at = "clear"])
    BY <1>2, <1>3 DEF InPlace, Handling, Showing, Saving
  <2> QED
    BY <1>1, <1>4, <2>1, MoveType DEF Buy, HandlersOK, Others, MovesOn
<1>5. ASSUME BuyUnheard(h) PROVE HandlersOK' /\ Others(h) /\ Ends(h)
  BY <1>5, EndType DEF BuyUnheard, HandlersOK, Others, Ends
<1>6. ASSUME BuyRefused(h) PROVE HandlersOK' /\ Others(h) /\ Refuses(h)
  BY <1>1, <1>2, <1>6, RefusalType, OneHandler DEF BuyRefused, HandlersOK, Others, Refuses
<1> QED
  BY <1>1, <1>2, <1>3, <1>4, <1>5, <1>6

LEMMA ClearMoves ==
    ASSUME BotAssumption, TypeInv, NEW h \in Handlers, Clear(h)
    PROVE  HandlersOK' /\ Others(h) /\ handler[h] # Idle /\ MovesOn(h, "wipe")
<1>1. handler[h] # Idle
  BY NotIdle DEF Clear
<1>2. handler[h] \in Handling /\ InPlace(handler[h])
  BY <1>1, RecordTypes
<1>3. InPlace([handler[h] EXCEPT !.at = "wipe"])
  BY <1>2 DEF InPlace, Handling, Clear, Showing, Saving
<1> QED
  BY <1>1, <1>3, MoveType DEF Clear, HandlersOK, Others, MovesOn

LEMMA EndingMoves ==
    ASSUME BotAssumption, TypeInv, NEW h \in Handlers, Wipe(h) \/ Cut(h)
    PROVE  HandlersOK' /\ Others(h) /\ handler[h] # Idle /\ Ends(h)
<1>1. handler[h] # Idle
  BY NotIdle DEF Wipe, Cut
<1> QED
  BY <1>1, EndType DEF Wipe, Cut, HandlersOK, Others, Ends

----------------------------------------------------------------------------
(* Types.                                                                   *)

LEMMA TypeInvInit ==
    ASSUME BotAssumption, BotInit
    PROVE  TypeInv
<1>1. NoData \in Purchase
  BY NoDataType
<1>2. orders \in Seq([order : {p \in Purchase : Complete(p)}, shown : Purchase])
  BY DEF BotInit
<1>3. handler \in [Handlers -> Handling \cup {Idle}] /\ \A h \in Handlers : handler[h] = Idle
  BY DEF BotInit
<1>4. state \in Steps /\ data \in Purchase /\ offer \in Purchase
  BY <1>1 DEF BotInit, Steps
<1>5. buttons \subseteq Kinds
  BY DEF BotInit, Kinds
<1>6. taps = 0 /\ offers = 0 /\ doubles = 0 /\ lost = 0 /\ torn \in BOOLEAN
  BY DEF BotInit
<1>7. {taps, offers, doubles, lost} \subseteq Nat
  BY <1>6
<1> QED
  BY <1>2, <1>3, <1>4, <1>5, <1>6, <1>7 DEF TypeInv, DialogueTypeOK

LEMMA TypeInvStep ==
    ASSUME BotAssumption, TypeInv, [BotNext]_botVars
    PROVE  TypeInv'
<1>1. CASE UNCHANGED botVars
  BY <1>1 DEF botVars, dialogue, history, TypeInv, DialogueTypeOK, InPlace
<1>2. ASSUME NEW h \in Handlers, Update(h) PROVE TypeInv'
  <2>1. PICK kind, first, chosen : Entry(kind, first, chosen) /\ Receive(h, kind, first, chosen)
    BY <1>2, UpdateReceives
  <2>2. HandlersOK'
    BY <2>1, ReceiveMoves
  <2> QED
    BY <2>1, <2>2 DEF Receive, HandlersOK, TypeInv, DialogueTypeOK, dialogue
<1>3. ASSUME NEW h \in Handlers, Get(h) \/ Read(h) \/ Ask(h) \/ Call(h) PROVE TypeInv'
  <2>1. HandlersOK'
    BY <1>3, GetMoves, ReadMoves, AskMoves, CallMoves
  <2>2. UNCHANGED <<dialogue, taps, history>>
    BY <1>3 DEF Get, Read, Ask, Call
  <2> QED
    BY <2>1, <2>2 DEF dialogue, history, HandlersOK, TypeInv, DialogueTypeOK
<1>4. ASSUME NEW h \in Handlers, Put(h) PROVE TypeInv'
  <2>1. HandlersOK' /\ handler[h] \in Handling
    BY <1>4, PutMoves, RecordTypes
  <2>2. data' \in Purchase
    BY <1>4, <2>1 DEF Put, Handling, Purchase
  <2> QED
    BY <1>4, <2>1, <2>2 DEF Put, history, HandlersOK, TypeInv, DialogueTypeOK
<1>5. ASSUME NEW h \in Handlers, GoTo(h) PROVE TypeInv'
  BY <1>5, GoToMoves DEF GoTo, history, HandlersOK, TypeInv, DialogueTypeOK
<1>6. ASSUME NEW h \in Handlers, OfferPayment(h) \/ OfferRecharge(h) PROVE TypeInv'
  <2>1. HandlersOK' /\ handler[h].held \in Purchase
    BY <1>6, OfferMoves
  <2>2. CASE OfferPayment(h)
    <3>1. state' = "confirm" /\ offers' = offers + 1
          /\ UNCHANGED <<data, buttons, taps, orders, offer, doubles, lost, torn>>
      BY <2>2 DEF OfferPayment
    <3>2. state' \in Steps
      BY <3>1 DEF Steps
    <3>3. {taps, offers, doubles, lost}' \subseteq Nat
      BY <3>1 DEF TypeInv, DialogueTypeOK
    <3> QED
      BY <2>1, <3>1, <3>2, <3>3 DEF HandlersOK, TypeInv, DialogueTypeOK
  <2>3. CASE OfferRecharge(h)
    <3>1. state' = "choice" /\ buttons' \in {buttons, buttons \cup {"recharge"}}
          /\ UNCHANGED <<data, taps, orders, offer, offers, doubles, lost, torn>>
      BY <2>3 DEF OfferRecharge, history
    <3>2. state' \in Steps /\ buttons' \subseteq Kinds
      BY <3>1 DEF Steps, Kinds, TypeInv, DialogueTypeOK
    <3> QED
      BY <2>1, <3>1, <3>2 DEF HandlersOK, TypeInv, DialogueTypeOK
  <2> QED
    BY <1>6, <2>2, <2>3
<1>7. ASSUME NEW h \in Handlers, ShowPayment(h) PROVE TypeInv'
  <2>1. HandlersOK' /\ handler[h].held \in Purchase
    BY <1>7, ShowMoves
  <2>2. offer' \in Purchase /\ buttons' \subseteq Kinds
        /\ UNCHANGED <<state, data, taps, orders, offers, doubles, lost, torn>>
    BY <1>7, <2>1 DEF ShowPayment, Kinds, TypeInv, DialogueTypeOK
  <2> QED
    BY <2>1, <2>2 DEF HandlersOK, TypeInv, DialogueTypeOK
<1>8. ASSUME NEW h \in Handlers, Buy(h) \/ BuyUnheard(h) \/ BuyRefused(h) PROVE TypeInv'
  <2>1. HandlersOK' /\ handler[h].held \in {p \in Purchase : Complete(p)}
    BY <1>8, BuyMoves
  <2>2. [order |-> handler[h].held, shown |-> offer]
           \in [order : {p \in Purchase : Complete(p)}, shown : Purchase]
    BY <2>1 DEF TypeInv, DialogueTypeOK
  <2> DEFINE Order == [order : {p \in Purchase : Complete(p)}, shown : Purchase]
  <2>3. Append(orders, [order |-> handler[h].held, shown |-> offer]) \in Seq(Order)
    BY <2>2 DEF TypeInv, DialogueTypeOK
  <2>4. orders' \in {orders, Append(orders, [order |-> handler[h].held, shown |-> offer])}
    BY <1>8 DEF Buy, BuyUnheard, BuyRefused, Ordered, history
  <2>5. orders' \in Seq(Order)
    BY <2>3, <2>4 DEF TypeInv, DialogueTypeOK
  <2>6. lost' \in {lost, lost + 1} /\ UNCHANGED <<dialogue, taps, offer, offers, doubles, torn>>
    BY <1>8 DEF Buy, BuyUnheard, BuyRefused, history
  <2>7. {taps, offers, doubles, lost}' \subseteq Nat
    BY <2>6 DEF TypeInv, DialogueTypeOK
  <2> QED
    BY <2>1, <2>5, <2>6, <2>7 DEF dialogue, HandlersOK, TypeInv, DialogueTypeOK
<1>9. ASSUME NEW h \in Handlers, Clear(h) \/ Wipe(h) \/ Cut(h) PROVE TypeInv'
  <2>1. HandlersOK'
    BY <1>9, ClearMoves, EndingMoves
  <2>2. /\ state' \in {state, "none"} /\ data' \in {data, NoData} /\ lost' \in {lost, lost + 1}
        /\ UNCHANGED <<buttons, taps, orders, offer, offers, doubles>>
    BY <1>9 DEF Clear, Wipe, Cut, dialogue, history
  <2>3. torn' \in BOOLEAN
    BY <1>9 DEF Clear, Wipe, Cut, dialogue, history, TypeInv, DialogueTypeOK
  <2>4. state' \in Steps /\ data' \in Purchase
    BY <2>2, NoDataType DEF Steps, TypeInv, DialogueTypeOK
  <2>5. {taps, offers, doubles, lost}' \subseteq Nat
    BY <2>2 DEF TypeInv, DialogueTypeOK
  <2> QED
    BY <2>1, <2>2, <2>3, <2>4, <2>5 DEF HandlersOK, TypeInv, DialogueTypeOK
<1> QED
  BY <1>1, <1>2, <1>3, <1>4, <1>5, <1>6, <1>8, <1>9, <1>7 DEF BotNext

\* The dialogue, its handlers and the orders keep their types; in particular no
\* order is made without a plan and a name.
THEOREM DialogueTypes == BotSpec => []DialogueTypeOK
<1>1. BotInit => TypeInv
  BY TypeInvInit, BotAssumption
<1>2. TypeInv /\ [BotNext]_botVars => TypeInv'
  BY TypeInvStep, BotAssumption
<1>3. TypeInv => DialogueTypeOK
  BY DEF TypeInv
<1> QED
  BY <1>1, <1>2, <1>3, PTL DEF BotSpec

----------------------------------------------------------------------------
(* One payment for each time the bot asked.                                 *)

MayBuy(r) == r.kind = "pay" /\ r.at \in {"read", "buy"}
Pays(r)   == r.kind = "pay" /\ r.at \in {"read", "buy", "clear"}

\* The dialogue waits for a confirmation that is not there yet.
Waits == IF state = "confirm" /\ Paying = {} THEN 1 ELSE 0

\* What was ordered and what may still be, against what the bot asked for and
\* what the user confirmed again.
CountInv ==
    /\ IsFiniteSet(Buying)
    /\ Len(orders) + Cardinality(Buying) + Waits <= offers + doubles + lost

LEMMA BuyingMoves ==
    ASSUME TypeInv, NEW h \in Handlers, Others(h), IsFiniteSet(Buying)
    PROVE  /\ IsFiniteSet(Buying)' /\ Cardinality(Buying) \in Nat /\ Cardinality(Buying)' \in Nat
           /\ MayBuy(handler[h]) /\ MayBuy(handler'[h]) => Cardinality(Buying)' = Cardinality(Buying)
           /\ ~MayBuy(handler[h]) /\ ~MayBuy(handler'[h])
                => Cardinality(Buying)' = Cardinality(Buying)
           /\ MayBuy(handler[h]) /\ ~MayBuy(handler'[h])
                => Cardinality(Buying)' = Cardinality(Buying) - 1
           /\ ~MayBuy(handler[h]) /\ MayBuy(handler'[h])
                => Cardinality(Buying)' = Cardinality(Buying) + 1
           /\ (Pays(handler[h]) <=> Pays(handler'[h])) => Paying' = Paying
           /\ Pays(handler[h]) <=> h \in Paying
           /\ Pays(handler'[h]) <=> h \in Paying'
<1>1. Cardinality(Buying) \in Nat
  BY FS_CardinalityType
<1>2. /\ \A g \in Handlers : g \in Buying <=> MayBuy(handler[g])
      /\ \A g \in Handlers : g \in Buying' <=> MayBuy(handler'[g])
      /\ Buying \subseteq Handlers /\ Buying' \subseteq Handlers
  BY DEF Buying, MayBuy
<1>3. \A g \in Handlers \ {h} : g \in Buying' <=> g \in Buying
  BY <1>2 DEF Others
<1>4. ASSUME MayBuy(handler[h]) <=> MayBuy(handler'[h])
      PROVE  Buying' = Buying
  BY <1>2, <1>3, <1>4
<1>5. ASSUME MayBuy(handler[h]), ~MayBuy(handler'[h])
      PROVE  IsFiniteSet(Buying)' /\ Cardinality(Buying)' = Cardinality(Buying) - 1
  <2>1. Buying' = Buying \ {h} /\ h \in Buying
    BY <1>2, <1>3, <1>5
  <2>2. IsFiniteSet(Buying \ {h}) /\ Cardinality(Buying \ {h}) = Cardinality(Buying) - 1
    BY <2>1, FS_RemoveElement
  <2> QED
    BY <2>1, <2>2
<1>6. ASSUME ~MayBuy(handler[h]), MayBuy(handler'[h])
      PROVE  IsFiniteSet(Buying)' /\ Cardinality(Buying)' = Cardinality(Buying) + 1
  <2>1. Buying' = Buying \cup {h} /\ h \notin Buying
    BY <1>2, <1>3, <1>6
  <2>2. IsFiniteSet(Buying \cup {h}) /\ Cardinality(Buying \cup {h}) = Cardinality(Buying) + 1
    BY <2>1, FS_AddElement
  <2> QED
    BY <2>1, <2>2
<1>7. IsFiniteSet(Buying)' /\ Cardinality(Buying)' \in Nat
  <2>1. IsFiniteSet(Buying)'
    BY <1>4, <1>5, <1>6
  <2>2. IsFiniteSet(Buying') => Cardinality(Buying') \in Nat
    BY FS_CardinalityType
  <2> QED
    BY <2>1, <2>2
<1>8. /\ Pays(handler[h]) <=> h \in Paying
      /\ Pays(handler'[h]) <=> h \in Paying'
  BY DEF Paying, Pays
<1>9. \A g \in Handlers \ {h} : g \in Paying' <=> g \in Paying
  BY DEF Paying, Others
<1>10. Paying \subseteq Handlers /\ Paying' \subseteq Handlers
  BY DEF Paying
<1> QED
  BY <1>1, <1>4, <1>5, <1>6, <1>7, <1>8, <1>9, <1>10

\* A handler that is not about a confirmation leaves the count alone, unless the
\* dialogue begins to wait.
LEMMA BesidesThePayment ==
    ASSUME TypeInv, CountInv, NEW h \in Handlers, Others(h),
           ~Pays(handler[h]), ~Pays(handler'[h]),
           UNCHANGED <<orders, doubles>>, offers' \in Nat, lost' \in Nat, offers' >= offers,
           lost' >= lost, state' = "confirm" => state = "confirm" \/ offers' > offers
    PROVE  CountInv'
<1>1. ~MayBuy(handler[h]) /\ ~MayBuy(handler'[h])
  BY DEF MayBuy, Pays
<1>2. IsFiniteSet(Buying)' /\ Cardinality(Buying)' = Cardinality(Buying) /\ Paying' = Paying
      /\ Cardinality(Buying) \in Nat
  BY <1>1, BuyingMoves DEF CountInv
<1>3. Len(orders) \in Nat /\ {offers, doubles, lost} \subseteq Nat
  BY DEF TypeInv, DialogueTypeOK
<1>4. CASE state' = "confirm" /\ state # "confirm"
  BY <1>2, <1>3, <1>4 DEF CountInv, Waits
<1>5. CASE ~(state' = "confirm" /\ state # "confirm")
  <2>1. Waits' <= Waits
    BY <1>2, <1>5 DEF Waits
  <2> QED
    BY <1>2, <1>3, <2>1 DEF CountInv, Waits
<1> QED
  BY <1>4, <1>5

\* A confirmation that orders no more, be it for an order or for nothing, makes
\* room for what the dialogue waits for.
LEMMA PaymentEnds ==
    ASSUME TypeInv, CountInv, NEW h \in Handlers, Others(h),
           MayBuy(handler[h]), ~MayBuy(handler'[h]), offers' = offers, doubles' = doubles,
           \/ orders' = orders /\ lost' = lost
           \/ Len(orders') = Len(orders) + 1 /\ Pays(handler'[h]) /\ lost' = lost /\ state' = state
           \/ Len(orders') = Len(orders) + 1 /\ lost' = lost + 1
    PROVE  CountInv'
<1>1. IsFiniteSet(Buying)' /\ Cardinality(Buying)' = Cardinality(Buying) - 1
      /\ Cardinality(Buying) \in Nat
  BY BuyingMoves DEF CountInv
<1>2. Len(orders) \in Nat /\ {offers, doubles, lost} \subseteq Nat
  BY DEF TypeInv, DialogueTypeOK
<1>3. Pays(handler[h]) /\ Waits \in {0, 1} /\ Waits' \in {0, 1}
  BY DEF MayBuy, Pays, Waits
<1>4. CASE orders' = orders /\ lost' = lost
  BY <1>1, <1>2, <1>3, <1>4 DEF CountInv
<1>5. CASE Len(orders') = Len(orders) + 1 /\ Pays(handler'[h]) /\ lost' = lost /\ state' = state
  <2>1. Paying # {} /\ Paying' # {}
    BY <1>3, <1>5, BuyingMoves DEF CountInv
  <2>2. Waits = 0 /\ Waits' = 0
    BY <2>1 DEF Waits
  <2> QED
    BY <1>1, <1>2, <1>5, <2>2 DEF CountInv
<1>6. CASE Len(orders') = Len(orders) + 1 /\ lost' = lost + 1
  BY SMTT(40), <1>1, <1>2, <1>3, <1>6 DEF CountInv
<1> QED
  BY <1>4, <1>5, <1>6

LEMMA CountInvStep ==
    ASSUME BotAssumption, TypeInv, CountInv, [BotNext]_botVars
    PROVE  CountInv'
<1>0. Len(orders) \in Nat /\ {offers, doubles, lost} \subseteq Nat
  BY DEF TypeInv, DialogueTypeOK
<1>1. CASE UNCHANGED botVars
  <2>1. UNCHANGED <<state, handler, orders, offers, doubles, lost>>
    BY <1>1 DEF botVars, dialogue, history
  <2>2. Buying' = Buying /\ Paying' = Paying
    BY <2>1 DEF Buying, Paying
  <2> QED
    BY <2>1, <2>2 DEF CountInv, Waits
<1>2. ASSUME NEW h \in Handlers, Update(h) PROVE CountInv'
  <2>1. PICK kind, first, chosen : Entry(kind, first, chosen) /\ Receive(h, kind, first, chosen)
    BY <1>2, UpdateReceives
  <2>2. /\ Others(h) /\ handler[h] = Idle
        /\ handler'[h] = [kind |-> kind, at |-> first, held |-> chosen, copy |-> NoData]
    BY <2>1, ReceiveMoves
  <2>3. ~Pays(handler[h]) /\ ~MayBuy(handler[h])
    BY <2>2, IdleIs DEF Pays, MayBuy
  <2>4. /\ UNCHANGED <<state, orders, offers, lost>>
        /\ doubles' = IF kind = "pay" /\ Paying # {} THEN doubles + 1 ELSE doubles
    BY <2>1 DEF Receive, dialogue
  <2>5. CASE kind # "pay"
    <3>1. ~Pays(handler'[h])
      BY <2>2, <2>5 DEF Pays
    <3> QED
      BY <1>0, <2>2, <2>3, <2>4, <2>5, <3>1, BesidesThePayment
  <2>6. CASE kind = "pay"
    <3>1. state = "confirm" /\ MayBuy(handler'[h]) /\ Pays(handler'[h])
      BY <2>1, <2>2, <2>6 DEF Entry, MayBuy, Pays
    <3>2. IsFiniteSet(Buying)' /\ Cardinality(Buying)' = Cardinality(Buying) + 1
          /\ Cardinality(Buying) \in Nat /\ Paying' # {}
      BY <2>2, <2>3, <3>1, BuyingMoves DEF CountInv
    <3>3. Waits' = 0 /\ Waits = IF Paying = {} THEN 1 ELSE 0
      BY <3>1, <3>2 DEF Waits
    <3> QED
      BY <1>0, <2>4, <2>6, <3>2, <3>3 DEF CountInv
  <2> QED
    BY <2>5, <2>6
<1>3. ASSUME NEW h \in Handlers, Get(h) \/ Put(h) \/ Ask(h) \/ Call(h) \/ GoTo(h) PROVE CountInv'
  <2>1. Others(h) /\ handler[h] # Idle
    BY <1>3, GetMoves, PutMoves, AskMoves, CallMoves, GoToMoves
  <2>2. handler[h] \in Handling /\ InPlace(handler[h])
    BY <2>1, RecordTypes
  <2>3. ~Pays(handler[h])
    BY <1>3, <2>2 DEF InPlace, Handling, Pays, Get, Put, Ask, Call, GoTo
  <2>4. ~Pays(handler'[h])
    <3>1. CASE Get(h) \/ Put(h)
      <4>1. handler[h].kind # "pay"
        BY <2>2, <3>1 DEF InPlace, Get, Put
      <4>2. CASE Get(h)
        BY <2>2, <4>1, <4>2, GetMoves DEF Handling, Pays
      <4>3. CASE Put(h)
        BY <2>2, <4>1, <4>3, PutMoves DEF Handling, Pays
      <4> QED
        BY <3>1, <4>2, <4>3
    <3>2. CASE Ask(h) \/ Call(h)
      <4>1. handler[h].kind # "pay"
        BY <3>2, AskMoves, CallMoves DEF Showing
      <4>2. RefusedRecord(handler[h]).kind # "pay"
        BY <2>2, <4>1, IdleIs DEF RefusedRecord, Handling
      <4> QED
        BY <2>2, <3>2, <4>1, <4>2, IdleIs, AskMoves, CallMoves
           DEF MovesOn, Ends, Refuses, Handling, Pays
    <3>3. CASE GoTo(h)
      BY <3>3, IdleIs, GoToMoves DEF Ends, Pays
    <3> QED
      BY <1>3, <3>1, <3>2, <3>3
  <2>5. UNCHANGED <<orders, offers, doubles, lost>> /\ (state' = "confirm" => state = "confirm")
    BY <1>3, GoToMoves DEF Get, Put, Ask, Call, GoTo, dialogue, history
  <2> QED
    BY <1>0, <2>1, <2>3, <2>4, <2>5, BesidesThePayment
<1>4. ASSUME NEW h \in Handlers, Read(h) PROVE CountInv'
  <2>1. Others(h) /\ handler[h] # Idle /\ handler[h] \in Handling /\ InPlace(handler[h])
    BY <1>4, ReadMoves, RecordTypes
  <2>2. UNCHANGED <<state, orders, offers, doubles, lost>> /\ handler[h].at = "read"
    BY <1>4 DEF Read, dialogue, history
  <2>3. CASE handler'[h] = RefusedRecord(handler[h])
    <3>1. RefusedRecord(handler[h]).kind # "pay"
      BY <2>1, IdleIs DEF RefusedRecord, Handling
    <3> QED
      BY <1>0, <2>1, <2>2, <2>3, <3>1, BesidesThePayment, PaymentEnds DEF MayBuy, Pays
  <2>4. CASE handler'[h].kind = handler[h].kind
             /\ handler'[h].at = IF handler[h].kind = "pay" THEN "buy" ELSE "call"
    <3>1. CASE handler[h].kind # "pay"
      BY <1>0, <2>1, <2>2, <2>4, <3>1, BesidesThePayment DEF Pays
    <3>2. CASE handler[h].kind = "pay"
      <4>1. MayBuy(handler[h]) /\ MayBuy(handler'[h]) /\ Pays(handler[h]) /\ Pays(handler'[h])
        BY <2>2, <2>4, <3>2 DEF MayBuy, Pays
      <4>2. IsFiniteSet(Buying)' /\ Cardinality(Buying)' = Cardinality(Buying) /\ Paying' = Paying
        BY <2>1, <4>1, BuyingMoves DEF CountInv
      <4> QED
        BY <2>2, <4>2 DEF CountInv, Waits
    <3> QED
      BY <3>1, <3>2
  <2> QED
    BY <1>4, <2>1, <2>3, <2>4, ReadMoves DEF Handling
<1>5. ASSUME NEW h \in Handlers, OfferPayment(h) \/ OfferRecharge(h) PROVE CountInv'
  <2>1. Others(h) /\ handler[h] # Idle /\ handler[h].kind # "pay" /\ handler[h] \in Handling
    BY <1>5, OfferMoves, RecordTypes DEF Showing
  <2>2. ~Pays(handler[h]) /\ RefusedRecord(handler[h]).kind # "pay"
    BY <2>1, IdleIs DEF Pays, RefusedRecord, Handling
  <2>3. ~Pays(handler'[h])
    BY <1>5, <2>1, <2>2, IdleIs, OfferMoves, MovedRecord DEF Refuses, Ends, Pays
  <2>4. CASE OfferPayment(h)
    BY <1>0, <2>1, <2>2, <2>3, <2>4, BesidesThePayment DEF OfferPayment
  <2>5. CASE OfferRecharge(h)
    BY <1>0, <2>1, <2>2, <2>3, <2>5, BesidesThePayment DEF OfferRecharge, history
  <2> QED
    BY <1>5, <2>4, <2>5
<1>6. ASSUME NEW h \in Handlers, ShowPayment(h) PROVE CountInv'
  <2>1. Others(h) /\ ~Pays(handler[h]) /\ ~Pays(handler'[h])
    BY <1>6, ShowMoves, IdleIs DEF Ends, Pays, Showing
  <2> QED
    BY <1>0, <1>6, <2>1, BesidesThePayment DEF ShowPayment
<1>7. ASSUME NEW h \in Handlers, Buy(h) \/ BuyUnheard(h) \/ BuyRefused(h) PROVE CountInv'
  <2>1. Others(h) /\ handler[h] # Idle /\ MayBuy(handler[h]) /\ handler[h] \in Handling
        /\ handler[h].kind = "pay"
    BY <1>7, BuyMoves, RecordTypes DEF MayBuy
  <2>2. Len(Append(orders, [order |-> handler[h].held, shown |-> offer])) = Len(orders) + 1
    BY DEF TypeInv, DialogueTypeOK
  <2>3. CASE Buy(h)
    <3>1. ~MayBuy(handler'[h]) /\ Pays(handler'[h])
      BY <2>1, <2>3, BuyMoves DEF MovesOn, MayBuy, Pays, Handling
    <3> QED
      BY <2>1, <2>2, <2>3, <3>1, PaymentEnds DEF Buy, Ordered, dialogue
  <2>4. CASE BuyUnheard(h)
    <3>1. ~MayBuy(handler'[h])
      BY <2>4, BuyMoves, IdleIs DEF Ends, MayBuy
    <3> QED
      BY <2>1, <2>2, <2>4, <3>1, PaymentEnds DEF BuyUnheard, Ordered
  <2>5. CASE BuyRefused(h)
    <3>1. RefusedRecord(handler[h]).kind = "again"
      BY <2>1 DEF RefusedRecord, Handling
    <3>2. ~MayBuy(handler'[h])
      BY <2>5, <3>1, BuyMoves DEF Refuses, MayBuy
    <3> QED
      BY <2>1, <2>5, <3>2, PaymentEnds DEF BuyRefused, history
  <2> QED
    BY <1>7, <2>3, <2>4, <2>5
<1>8. ASSUME NEW h \in Handlers, Clear(h) PROVE CountInv'
  <2>0. Others(h) /\ handler[h] \in Handling /\ MovesOn(h, "wipe")
    BY <1>8, ClearMoves, RecordTypes
  <2>1. Others(h) /\ handler[h].at = "clear" /\ handler'[h].at = "wipe"
    BY <1>8, <2>0 DEF Clear, MovesOn, Handling
  <2>2. ~MayBuy(handler[h]) /\ ~MayBuy(handler'[h])
    BY <2>1 DEF MayBuy
  <2>3. IsFiniteSet(Buying)' /\ Cardinality(Buying)' = Cardinality(Buying)
        /\ Cardinality(Buying) \in Nat
    BY <2>1, <2>2, BuyingMoves DEF CountInv
  <2>4. Waits' = 0 /\ Waits \in {0, 1} /\ UNCHANGED <<orders, offers, doubles, lost>>
    BY <1>8 DEF Clear, Waits, history
  <2> QED
    BY <1>0, <2>3, <2>4 DEF CountInv
<1>9. ASSUME NEW h \in Handlers, Wipe(h) \/ Cut(h) PROVE CountInv'
  <2>1. Others(h) /\ handler[h] # Idle /\ handler'[h] = Idle /\ handler[h] \in Handling
    BY <1>9, EndingMoves, RecordTypes DEF Ends
  <2>2. ~Pays(handler'[h]) /\ ~MayBuy(handler'[h])
    BY <2>1, IdleIs DEF Pays, MayBuy
  <2>3. UNCHANGED <<state, orders, offers, doubles>> /\ lost' \in {lost, lost + 1}
    BY <1>9 DEF Wipe, Cut, dialogue, history
  <2>4. CASE ~Pays(handler[h])
    BY <1>0, <2>1, <2>2, <2>3, <2>4, BesidesThePayment
  <2>5. CASE MayBuy(handler[h])
    <3>1. lost' = lost
      BY <1>9, <2>5 DEF Wipe, Cut, MayBuy, history
    <3> QED
      BY <2>1, <2>2, <2>3, <2>5, <3>1, PaymentEnds
  <2>6. CASE Pays(handler[h]) /\ ~MayBuy(handler[h])
    <3>1. lost' = lost + 1
      BY <1>9, <2>6 DEF Wipe, Cut, MayBuy, Pays
    <3>2. IsFiniteSet(Buying)' /\ Cardinality(Buying)' = Cardinality(Buying)
          /\ Cardinality(Buying) \in Nat
      BY <2>1, <2>2, <2>6, BuyingMoves DEF CountInv
    <3>3. Waits \in {0, 1} /\ Waits' \in {0, 1}
      BY DEF Waits
    <3> QED
      BY <1>0, <2>3, <3>1, <3>2, <3>3 DEF CountInv
  <2> QED
    BY <2>4, <2>5, <2>6
<1> QED
  BY <1>1, <1>2, <1>3, <1>4, <1>5, <1>7, <1>8, <1>9, <1>6 DEF BotNext

\* A user pays at most once for each time the bot asked for it, not counting
\* the confirmations that came while one was handled or after one that was cut
\* short: however many handlers run at once (confirm_wallet_payment and
\* create_internal_order).
THEOREM PaysOncePerOffer == BotSpec => []OncePerOffer
<1>1. BotInit => TypeInv /\ CountInv
  <2> SUFFICES ASSUME BotInit PROVE TypeInv /\ CountInv
    OBVIOUS
  <2>1. TypeInv
    BY TypeInvInit, BotAssumption
  <2>2. Buying = {}
    BY IdleIs DEF BotInit, Buying
  <2>3. IsFiniteSet(Buying) /\ Cardinality(Buying) = 0
    BY <2>2, FS_EmptySet
  <2>4. Waits = 0 /\ Len(orders) = 0 /\ offers = 0 /\ doubles = 0 /\ lost = 0
    BY DEF BotInit, Waits
  <2> QED
    BY <2>1, <2>3, <2>4 DEF CountInv
<1>2. TypeInv /\ CountInv /\ [BotNext]_botVars => (TypeInv /\ CountInv)'
  BY TypeInvStep, CountInvStep, BotAssumption
<1>3. TypeInv /\ CountInv => OncePerOffer
  <2> SUFFICES ASSUME TypeInv, CountInv PROVE OncePerOffer
    OBVIOUS
  <2>1. Len(orders) \in Nat /\ {offers, doubles, lost} \subseteq Nat
    BY DEF TypeInv, DialogueTypeOK
  <2>2. Cardinality(Buying) \in Nat /\ Waits \in {0, 1}
    BY FS_CardinalityType DEF CountInv, Waits
  <2> QED
    BY <2>1, <2>2 DEF CountInv, OncePerOffer
<1> QED
  BY <1>1, <1>2, <1>3, PTL DEF BotSpec

----------------------------------------------------------------------------
(* An order is what was shown.                                              *)

\* A purchase that a handler would write back, show or order.
Keeps(r, u) ==
    \/ r.kind \notin Choosing /\ r.at \in {"put", "save"} /\ u = r.copy
    \/ r.kind \in Showing \cup {"pay"}
       /\ r.at \in {"call", "refresh", "save", "offer", "show", "buy"} /\ u = r.held

InPlay(hs, d) == {d} \cup {u \in Purchase : \E h \in Handlers : Keeps(hs[h], u)}

\* No handler that chooses a purchase is beside one that has to do with it.
Clash(r, s) == {r.kind, s.kind} \subseteq Careful /\ {r.kind, s.kind} \cap Choosing # {}

Apart(hs) == \A g, h \in Handlers : g # h => ~Clash(hs[g], hs[h])

\* What a new name has to do with the state and the data.
Naming(r, s, d) ==
    r.kind = "name" =>
       /\ s = "confirm" => r.at = "show"
       /\ r.at = "read" => d.target = r.held.target \/ d = NoData
       /\ r.at \in {"call", "refresh", "save", "offer", "show"} => d \in {r.held, NoData}
       /\ r.at = "save" => r.copy \in {r.held, NoData}

\* A purchase is not half chosen.
Chooses(r) == r.kind = "name" \/ (r.kind = "plan" /\ r.at = "goto")

Settled(hs) == \A h \in Handlers : ~Chooses(hs[h])

\* There is one purchase in play, if it was not cleared, and what can be paid
\* for is what was shown, if its page arrived.
Arrived(hs, o) == \A h \in Handlers : hs[h].at = "show" => hs[h].held = o

Awaits(hs, s, o) ==
    \/ s = "confirm" /\ Arrived(hs, o)
    \/ \E h \in Handlers : MayBuy(hs[h])

OnePurchase(hs, d, s, o) ==
    /\ \A u, v \in InPlay(hs, d) : u = v \/ NoData \in {u, v}
    /\ Awaits(hs, s, o) => \A u \in InPlay(hs, d) : Complete(u) => u = o

Shown ==
    /\ Apart(handler)
    /\ \A h \in Handlers : Naming(handler[h], state, data)
    /\ Settled(handler) => OnePurchase(handler, data, state, offer)

Matching == \A i \in DOMAIN orders : orders[i].order = orders[i].shown

ShownInv == torn \/ (Shown /\ Matching)

\* Who keeps a purchase is careful, and who is careful is at work.
LEMMA KeepersAreCareful ==
    ASSUME NEW r, r # Idle => r \in Handling /\ InPlace(r)
    PROVE  /\ \A u : Keeps(r, u) => r.kind \in Careful \ Choosing
           /\ MayBuy(r) => r.kind \in Careful \ Choosing
           /\ r.kind \in Careful => r \in Handling /\ InPlace(r)
<1>1. r.kind \in Careful => r # Idle
  BY IdleIs DEF Careful, Choosing
<1>2. ASSUME NEW u, Keeps(r, u) PROVE r.kind \in Careful \ Choosing
  <2>1. r # Idle
    BY <1>2, IdleIs DEF Keeps
  <2> QED
    BY <1>2, <2>1 DEF Keeps, InPlace, Handling, Kinds, Careful, Choosing, Showing, Saving
<1>3. MayBuy(r) => r.kind \in Careful \ Choosing
  BY DEF MayBuy, Careful, Choosing
<1> QED
  BY <1>1, <1>2, <1>3

\* Beside a handler that chooses a purchase nobody keeps one or orders.
LEMMA ChoosingAlone ==
    ASSUME NEW hs, NEW d, NEW h \in Handlers, Apart(hs), hs[h].kind \in Choosing,
           \A g \in Handlers : hs[g] # Idle => hs[g] \in Handling /\ InPlace(hs[g])
    PROVE  InPlay(hs, d) = {d} /\ \A g \in Handlers : ~MayBuy(hs[g])
<1>1. \A g \in Handlers : hs[g].kind \notin Careful \ Choosing
  BY DEF Apart, Clash, Careful
<1>2. \A g \in Handlers : ~MayBuy(hs[g]) /\ \A u : ~Keeps(hs[g], u)
  BY <1>1, KeepersAreCareful
<1> QED
  BY <1>2 DEF InPlay

\* With nothing new in play and nothing new to confirm, the purchase stays one.
LEMMA StaysOne ==
    ASSUME BotAssumption, NEW hs, NEW d, NEW s, NEW o, NEW hs2, NEW d2, NEW s2,
           OnePurchase(hs, d, s, o), InPlay(hs2, d2) \subseteq InPlay(hs, d) \cup {NoData},
           Awaits(hs2, s2, o) => Awaits(hs, s, o)
    PROVE  OnePurchase(hs2, d2, s2, o)
BY NoDataType DEF OnePurchase

\* A purchase that is alone in play.
LEMMA IsOne ==
    ASSUME BotAssumption, NEW hs, NEW d, NEW s, NEW o, NEW p,
           InPlay(hs, d) \subseteq {p, NoData}, Awaits(hs, s, o) /\ Complete(p) => p = o
    PROVE  OnePurchase(hs, d, s, o)
BY NoDataType DEF OnePurchase

LEMMA ApartStays ==
    ASSUME Apart(handler), NEW h \in Handlers, Others(h),
           \/ handler'[h].kind \in {handler[h].kind, "none"}
           \/ handler[h].kind = "pay" /\ handler'[h].kind = "again"
    PROVE  Apart(handler')
<1>1. handler'[h].kind \in Careful => handler[h].kind \in Careful
  BY DEF Careful, Choosing
<1>2. handler'[h].kind \in Choosing => handler[h].kind \in Choosing
  BY DEF Choosing
<1>3. ASSUME NEW g \in Handlers \ {h}, Clash(handler'[g], handler'[h]) \/ Clash(handler'[h], handler'[g])
      PROVE  FALSE
  <2>1. handler'[g] = handler[g]
    BY DEF Others
  <2>2. Clash(handler[g], handler[h])
    BY <1>1, <1>2, <1>3, <2>1 DEF Clash
  <2> QED
    BY <2>2 DEF Apart
<1> QED
  BY <1>3 DEF Apart, Others

\* What a step of a handler has to respect.
LEMMA ShownStays ==
    ASSUME BotAssumption, TypeInv, Shown, NEW h \in Handlers, Others(h), Apart(handler'),
           offer' = offer, state' # "confirm" \/ state' = state,
           handler[h].kind \in Careful \/ data' \in {data, NoData},
           Chooses(handler'[h]) \/ data' \in InPlay(handler, data) \cup {NoData},
           \A u \in Purchase : Keeps(handler'[h], u) => u \in InPlay(handler, data),
           handler[h].at = "show" => handler[h].held = offer,
           MayBuy(handler'[h]) => MayBuy(handler[h]) \/ Awaits(handler, state, offer),
           Chooses(handler[h])
             => \/ Chooses(handler'[h])
                \/ /\ handler'[h] = Idle /\ data' \in {data, NoData}
                   /\ state' # "confirm" \/ handler[h].at = "show",
           Naming(handler'[h], state', data')
    PROVE  Shown'
<1>1. ASSUME NEW g \in Handlers PROVE Naming(handler'[g], state', data')
  <2>1. CASE g # h /\ handler[g].kind = "name"
    <3>1. handler'[g] = handler[g] /\ Naming(handler[g], state, data)
      BY <2>1 DEF Others, Shown
    <3>2. ~Clash(handler[g], handler[h])
      BY <2>1 DEF Shown, Apart
    <3>3. handler[h].kind \notin Careful
      BY <2>1, <3>2 DEF Clash, Careful, Choosing
    <3>4. data' \in {data, NoData}
      BY <3>3
    <3> QED
      BY <2>1, <3>1, <3>4 DEF Naming
  <2>2. CASE g # h /\ handler[g].kind # "name"
    BY <2>2 DEF Others, Naming
  <2> QED
    BY <2>1, <2>2
<1>2. ASSUME Settled(handler') PROVE OnePurchase(handler', data', state', offer')
  <2>1. ~Chooses(handler'[h])
    BY <1>2 DEF Settled
  <2>2. InPlay(handler', data') \subseteq InPlay(handler, data) \cup {NoData}
    <3>1. ASSUME NEW u \in Purchase, NEW g \in Handlers, Keeps(handler'[g], u)
          PROVE  u \in InPlay(handler, data)
      BY <3>1 DEF InPlay, Others
    <3> QED
      BY <2>1, <3>1 DEF InPlay
  <2>3. CASE Chooses(handler[h])
    <3>1. handler'[h] = Idle /\ (state' # "confirm" \/ handler[h].at = "show")
      BY <2>1, <2>3
    <3>2. handler[h].kind \in Choosing
      BY <2>3 DEF Chooses, Choosing
    <3>3. \A g \in Handlers : handler[g] # Idle => handler[g] \in Handling /\ InPlace(handler[g])
      BY RecordTypes
    <3>4. InPlay(handler, data) = {data} /\ \A g \in Handlers : ~MayBuy(handler[g])
      BY <3>2, <3>3, ChoosingAlone DEF Shown
    <3>5. \A g \in Handlers : ~MayBuy(handler'[g])
      BY <3>1, <3>4, IdleIs DEF Others, MayBuy
    <3>6. Awaits(handler', state', offer') => handler[h].at = "show"
      BY <3>1, <3>5 DEF Awaits
    <3>7. InPlay(handler', data') \subseteq {data, NoData}
      BY <2>2, <3>4
    <3>8. ASSUME handler[h].at = "show", Complete(data) PROVE data = offer
      <4>1. handler[h].kind = "name"
        BY <2>3, <3>8 DEF Chooses
      <4>2. data \in {handler[h].held, NoData}
        BY <3>8, <4>1 DEF Shown, Naming
      <4> QED
        BY <3>8, <4>2, NoDataType
    <3> QED
      BY <3>6, <3>7, <3>8, IsOne
  <2>4. CASE ~Chooses(handler[h])
    <3>1. Settled(handler)
      BY <1>2, <2>4 DEF Settled, Others
    <3>2. OnePurchase(handler, data, state, offer)
      BY <3>1 DEF Shown
    <3>3. Awaits(handler', state', offer) => Awaits(handler, state, offer)
      <4>1. Arrived(handler', offer) => Arrived(handler, offer)
        BY DEF Arrived, Others
      <4> QED
        BY <4>1 DEF Awaits, Others
    <3> QED
      BY <2>2, <3>2, <3>3, StaysOne
  <2> QED
    BY <2>3, <2>4
<1> QED
  BY <1>1, <1>2 DEF Shown

\* A handler that keeps nothing and chooses nothing any more.
LEMMA NothingKept ==
    ASSUME NEW r, r = Idle \/ r.at \in {"clear", "wipe", "get", "goto", "ask", "read"}
    PROVE  (\A u : ~Keeps(r, u)) /\ (r.at # "read" => ~MayBuy(r)) /\ ~Chooses(Idle)
BY IdleIs DEF Keeps, MayBuy, Chooses

\* The refused handler keeps nothing and does not order.
LEMMA RefusedShown ==
    ASSUME BotAssumption, TypeInv, Shown, NEW h \in Handlers, Others(h), handler[h] # Idle,
           handler[h].at \in {"read", "call", "offer", "buy"},
           handler'[h] = RefusedRecord(handler[h])
    PROVE  /\ Apart(handler') /\ ~MayBuy(handler'[h]) /\ \A u : ~Keeps(handler'[h], u)
           /\ Chooses(handler'[h]) <=> Chooses(handler[h])
           /\ state' = state => Naming(handler'[h], state', data')
<1> DEFINE r == handler[h]
<1>1. r \in Handling /\ InPlace(r)
  BY RecordTypes
<1>2. r.kind # "plan"
  BY <1>1 DEF InPlace
<1>3. CASE r.kind = "pay"
  <2>1. handler'[h] = [r EXCEPT !.kind = "again", !.at = "read"]
    BY <1>3 DEF RefusedRecord
  <2>2. handler'[h].kind = "again" /\ handler'[h].at = "read"
    BY <1>1, <2>1 DEF Handling
  <2> QED
    BY <1>3, <2>2, ApartStays, NothingKept DEF Shown, MayBuy, Chooses, Naming
<1>4. CASE r.kind \in {"again", "deposit"}
  <2>1. handler'[h] = Idle
    BY <1>4 DEF RefusedRecord
  <2> QED
    BY <1>4, <2>1, IdleIs, ApartStays, NothingKept DEF Shown, MayBuy, Chooses, Naming
<1>5. CASE r.kind \notin {"pay", "again", "deposit"}
  <2>1. handler'[h] = [r EXCEPT !.at = "clear"]
    BY <1>5 DEF RefusedRecord
  <2>2. handler'[h].kind = r.kind /\ handler'[h].at = "clear"
    BY <1>1, <2>1 DEF Handling
  <2>3. Naming(r, state, data)
    BY DEF Shown
  <2> QED
    BY <1>2, <2>2, <2>3, ApartStays, NothingKept DEF Shown, MayBuy, Chooses, Naming
<1> QED
  BY <1>3, <1>4, <1>5

LEMMA ReceiveShown ==
    ASSUME BotAssumption, TypeInv, Shown, NEW h \in Handlers, Update(h), ~torn'
    PROVE  Shown'
<1>1. PICK kind, first, chosen : Entry(kind, first, chosen) /\ Receive(h, kind, first, chosen)
  BY UpdateReceives
<1>2. /\ Others(h) /\ handler[h] = Idle
      /\ handler'[h] = [kind |-> kind, at |-> first, held |-> chosen, copy |-> NoData]
  BY <1>1, ReceiveMoves
<1>3. UNCHANGED <<state, data, offer>>
  BY <1>1 DEF Receive, dialogue
<1>4. handler'[h].kind = kind /\ handler'[h].at = first
  BY <1>2
<1>5. \A g \in Handlers : ~Clash(handler'[h], handler[g])
  BY <1>1, <1>4 DEF Receive, Clash
<1>6. Apart(handler')
  <2>1. ASSUME NEW g \in Handlers \ {h}, Clash(handler'[g], handler'[h]) \/ Clash(handler'[h], handler'[g])
        PROVE  FALSE
    BY <1>2, <1>5, <2>1 DEF Clash, Others
  <2> QED
    BY <1>2, <2>1 DEF Apart, Others, Shown
<1>7. ~Chooses(handler[h])
  BY <1>2, NothingKept
<1>8. data' \in InPlay(handler, data)
  BY <1>3 DEF InPlay
<1>9. \A u : ~Keeps(handler'[h], u)
  <2>1. first \in {"get", "goto", "read", "ask", "clear"} \/ kind \notin Showing \cup {"pay"}
    BY <1>1 DEF Entry
  <2> QED
    BY <1>1, <1>4, <2>1 DEF Entry, Keeps
<1>10. MayBuy(handler'[h]) => Awaits(handler, state, offer)
  <2> SUFFICES ASSUME MayBuy(handler'[h]) PROVE Awaits(handler, state, offer)
    OBVIOUS
  <2>1. kind = "pay" /\ state = "confirm"
    BY <1>1, <1>4 DEF MayBuy, Entry
  <2>2. \A g \in Handlers : ~Unseen(g)
    BY <1>1, <2>1 DEF Receive
  <2> QED
    BY <2>1, <2>2 DEF Awaits, Arrived, Unseen
<1>11. Naming(handler'[h], state', data')
  BY <1>1, <1>3, <1>4 DEF Naming, Entry
<1>12. handler[h].at # "show"
  BY <1>2, IdleIs
<1> QED
  BY <1>2, <1>3, <1>6, <1>7, <1>8, <1>9, <1>10, <1>11, <1>12, ShownStays

LEMMA GetShown ==
    ASSUME BotAssumption, TypeInv, Shown, NEW h \in Handlers, Get(h)
    PROVE  Shown'
<1> DEFINE r == handler[h]
<1>1. Others(h) /\ r # Idle
  BY GetMoves
<1>2. /\ handler'[h] = [r EXCEPT !.copy = data, !.at = IF @ = "get" THEN "put" ELSE "save"]
      /\ UNCHANGED <<state, data, offer>> /\ r.at \in {"get", "refresh"}
  BY GetMoves DEF Get, dialogue, history
<1>3. r \in Handling /\ InPlace(r)
  BY <1>1, RecordTypes
<1>4. /\ handler'[h].kind = r.kind /\ handler'[h].held = r.held /\ handler'[h].copy = data
      /\ handler'[h].at = IF r.at = "get" THEN "put" ELSE "save"
  BY <1>2, <1>3 DEF Handling
<1>5. Apart(handler')
  BY <1>1, <1>4, ApartStays DEF Shown
<1>6. data \in InPlay(handler, data)
  BY DEF InPlay
<1>7. ASSUME NEW u \in Purchase, Keeps(handler'[h], u) PROVE u \in InPlay(handler, data)
  <2>1. u = data \/ Keeps(r, u)
    BY <1>2, <1>4, <1>7 DEF Keeps
  <2> QED
    BY <1>6, <2>1 DEF InPlay
<1>8. (Chooses(handler'[h]) <=> Chooses(r)) /\ ~MayBuy(handler'[h])
  BY <1>2, <1>4 DEF Chooses, MayBuy
<1>9. Naming(handler'[h], state', data')
  <2>1. Naming(r, state, data)
    BY DEF Shown
  <2> QED
    BY <1>2, <1>4, <2>1 DEF Naming
<1> QED
  BY <1>1, <1>2, <1>5, <1>6, <1>7, <1>8, <1>9, ShownStays

LEMMA PutShown ==
    ASSUME BotAssumption, TypeInv, Shown, NEW h \in Handlers, Put(h)
    PROVE  Shown'
<1> DEFINE r == handler[h]
<1>1. Others(h) /\ r # Idle
  BY PutMoves
<1>2. /\ handler'[h] = [r EXCEPT !.at = IF @ = "save" THEN "offer"
                                        ELSE IF r.kind = "name" THEN "read" ELSE "goto"]
      /\ UNCHANGED <<state, offer>> /\ r.at \in {"put", "save"}
  BY PutMoves DEF Put, history
<1>3. r \in Handling /\ InPlace(r)
  BY <1>1, RecordTypes
<1>4. /\ handler'[h].kind = r.kind /\ handler'[h].held = r.held
      /\ handler'[h].at = IF r.at = "save" THEN "offer" ELSE IF r.kind = "name" THEN "read" ELSE "goto"
  BY <1>2, <1>3 DEF Handling
<1>5. Apart(handler')
  BY <1>1, <1>4, ApartStays DEF Shown
<1>6. r.kind \in Careful
  BY <1>2, <1>3 DEF InPlace, Handling, Kinds, Careful, Choosing, Showing, Saving
<1>7. ASSUME NEW u \in Purchase, Keeps(handler'[h], u) PROVE u \in InPlay(handler, data)
  <2>1. Keeps(r, u)
    BY <1>2, <1>4, <1>7 DEF Keeps
  <2> QED
    BY <2>1 DEF InPlay
<1>8. Chooses(handler'[h]) \/ data' \in InPlay(handler, data)
  <2>1. CASE r.kind = "name" \/ r.kind = "plan"
    BY <1>2, <1>3, <1>4, <2>1 DEF Chooses, InPlace
  <2>2. CASE r.kind \notin Choosing
    <3>1. Keeps(r, r.copy) /\ r.copy \in Purchase
      BY <1>2, <1>3, <2>2 DEF Keeps, Handling
    <3>2. data' = r.copy
      BY <1>2, <2>2 DEF Put, Choosing
    <3> QED
      BY <3>1, <3>2 DEF InPlay
  <2> QED
    BY <2>1, <2>2 DEF Choosing
<1>9. ~MayBuy(handler'[h]) /\ (Chooses(r) => Chooses(handler'[h]))
  BY <1>2, <1>4 DEF MayBuy, Chooses
<1>10. Naming(handler'[h], state', data')
  <2>1. CASE r.kind = "name" /\ r.at = "put"
    <3>1. data' = [r.copy EXCEPT !.target = r.held.target] /\ r.copy \in Purchase
      BY <1>3, <2>1 DEF Put, Handling
    <3>2. data'.target = r.held.target
      BY <3>1 DEF Purchase
    <3>3. Naming(r, state, data)
      BY DEF Shown
    <3> QED
      BY <1>2, <1>4, <2>1, <3>2, <3>3 DEF Naming
  <2>2. CASE r.kind = "name" /\ r.at = "save"
    <3>1. data' = r.copy /\ Naming(r, state, data)
      BY <2>2 DEF Put, Shown
    <3> QED
      BY <1>2, <1>4, <2>2, <3>1 DEF Naming
  <2>3. CASE r.kind # "name"
    BY <1>4, <2>3 DEF Naming
  <2> QED
    BY <1>2, <2>1, <2>2, <2>3
<1> QED
  BY <1>1, <1>2, <1>5, <1>6, <1>7, <1>8, <1>9, <1>10, ShownStays

LEMMA ReadShown ==
    ASSUME BotAssumption, TypeInv, Shown, NEW h \in Handlers, Read(h)
    PROVE  Shown'
<1> DEFINE r == handler[h]
           held == IF r.kind = "name" THEN [data EXCEPT !.target = r.held.target] ELSE data
<1>1. Others(h) /\ r # Idle /\ r.kind \in Showing \cup {"name", "pay"}
  BY ReadMoves
<1>2. UNCHANGED <<state, data, offer>> /\ r.at = "read"
  BY DEF Read, dialogue, history
<1>3. r \in Handling /\ InPlace(r) /\ data \in Purchase
  BY <1>1, RecordTypes
<1>4. data \in InPlay(handler, data)
  BY DEF InPlay
<1>5. CASE handler'[h] = RefusedRecord(r)
  <2>1. /\ Apart(handler') /\ ~MayBuy(handler'[h]) /\ \A u : ~Keeps(handler'[h], u)
        /\ Chooses(handler'[h]) <=> Chooses(r)
        /\ Naming(handler'[h], state', data')
    BY <1>1, <1>2, <1>5, RefusedShown
  <2> QED
    BY <1>1, <1>2, <1>4, <2>1, ShownStays
<1>6. CASE /\ handler'[h] = [r EXCEPT !.held = held, !.at = IF r.kind = "pay" THEN "buy" ELSE "call"]
           /\ held.plan # None
  <2>1. /\ handler'[h].kind = r.kind /\ handler'[h].held = held
        /\ handler'[h].at = IF r.kind = "pay" THEN "buy" ELSE "call"
    BY <1>3, <1>6 DEF Handling
  <2>2. Naming(r, state, data)
    BY DEF Shown
  <2>3. held = data
    <3>1. CASE r.kind # "name"
      BY <3>1
    <3>2. CASE r.kind = "name"
      <4>1. held.plan = data.plan
        BY <1>3, <3>2 DEF Purchase
      <4>2. data # NoData
        BY <1>6, <4>1 DEF NoData
      <4>3. data.target = r.held.target
        BY <1>2, <2>2, <3>2, <4>2 DEF Naming
      <4> QED
        BY <1>3, <3>2, <4>3 DEF Purchase
    <3> QED
      BY <3>1, <3>2
  <2> HIDE DEF held
  <2>4. Apart(handler')
    BY <1>1, <2>1, ApartStays DEF Shown
  <2>5. \A u : Keeps(handler'[h], u) => u = data
    BY <2>1, <2>3 DEF Keeps
  <2>6. (Chooses(handler'[h]) <=> Chooses(r)) /\ (MayBuy(handler'[h]) => MayBuy(r))
    BY <1>2, <2>1 DEF Chooses, MayBuy
  <2>7. Naming(handler'[h], state', data')
    BY <1>2, <2>1, <2>2, <2>3 DEF Naming
  <2> QED
    BY <1>1, <1>2, <1>4, <2>4, <2>5, <2>6, <2>7, ShownStays
<1> QED
  BY <1>5, <1>6, ReadMoves

\* A handler that ends; a name may have been chosen by then.
LEMMA EndShown ==
    ASSUME BotAssumption, TypeInv, Shown, NEW h \in Handlers, Others(h), handler'[h] = Idle,
           state' # "confirm" \/ state' = state, data' \in {data, NoData}, offer' = offer,
           handler[h].kind = "plan" /\ handler[h].at = "goto" => state' # "confirm",
           handler[h].at = "show" => handler[h].held = offer
    PROVE  Shown'
<1>1. Apart(handler')
  BY IdleIs, ApartStays DEF Shown
<1>2. (\A u : ~Keeps(handler'[h], u)) /\ ~MayBuy(handler'[h])
  BY IdleIs, NothingKept
<1>3. Naming(handler'[h], state', data')
  BY IdleIs DEF Naming
<1>4. data' \in InPlay(handler, data) \cup {NoData}
  BY DEF InPlay
<1>5. Chooses(handler[h]) => state' # "confirm" \/ handler[h].at = "show"
  BY DEF Chooses, Shown, Naming
<1> QED
  BY <1>1, <1>2, <1>3, <1>4, <1>5, ShownStays

LEMMA AskShown ==
    ASSUME BotAssumption, TypeInv, Shown, NEW h \in Handlers, Ask(h)
    PROVE  Shown'
<1>1. Others(h) /\ handler[h] # Idle /\ handler[h].kind \in Showing
  BY AskMoves
<1>2. UNCHANGED <<state, data, offer>> /\ handler[h].at = "ask"
  BY DEF Ask, dialogue, history
<1>3. CASE MovesOn(h, "read")
  <2>1. handler'[h].kind = handler[h].kind /\ handler'[h].at = "read"
    BY <1>1, <1>3, MovedRecord
  <2>2. Apart(handler')
    BY <1>1, <2>1, ApartStays DEF Shown
  <2>3. /\ \A u : ~Keeps(handler'[h], u)
        /\ ~MayBuy(handler'[h]) /\ ~Chooses(handler[h]) /\ Naming(handler'[h], state', data')
    BY <1>1, <2>1, NothingKept DEF MayBuy, Chooses, Naming, Showing
  <2>4. data' \in InPlay(handler, data)
    BY <1>2 DEF InPlay
  <2> QED
    BY <1>1, <1>2, <2>2, <2>3, <2>4, ShownStays
<1>4. CASE Ends(h)
  BY <1>1, <1>2, <1>4, EndShown DEF Ends, Showing
<1> QED
  BY <1>3, <1>4, AskMoves

LEMMA CallShown ==
    ASSUME BotAssumption, TypeInv, Shown, NEW h \in Handlers, Call(h)
    PROVE  Shown'
<1>1. Others(h) /\ handler[h] # Idle /\ handler[h].kind # "pay" /\ handler[h].at = "call"
  BY CallMoves DEF Call
<1>2. UNCHANGED <<state, data, offer>>
  BY DEF Call, dialogue, history
<1>3. data' \in InPlay(handler, data)
  BY <1>2 DEF InPlay
<1>4. handler[h] \in Handling /\ InPlace(handler[h])
  BY <1>1, RecordTypes
<1>5. CASE Refuses(h)
  <2>1. /\ Apart(handler') /\ ~MayBuy(handler'[h]) /\ \A u : ~Keeps(handler'[h], u)
        /\ Chooses(handler'[h]) <=> Chooses(handler[h])
        /\ Naming(handler'[h], state', data')
    BY <1>1, <1>2, <1>5, RefusedShown DEF Refuses
  <2> QED
    BY <1>1, <1>2, <1>3, <2>1, ShownStays
<1>6. ASSUME NEW place \in {"get", "clear", "refresh"}, MovesOn(h, place) PROVE Shown'
  <2>1. /\ handler'[h].kind = handler[h].kind /\ handler'[h].held = handler[h].held
        /\ handler'[h].copy = handler[h].copy /\ handler'[h].at = place
    BY <1>1, <1>6, MovedRecord
  <2>2. Apart(handler')
    BY <1>1, <2>1, ApartStays DEF Shown
  <2>3. \A u \in Purchase : Keeps(handler'[h], u) => u \in InPlay(handler, data)
    BY <1>1, <2>1 DEF Keeps, InPlay
  <2>4. ~MayBuy(handler'[h]) /\ (Chooses(handler[h]) => Chooses(handler'[h]))
    BY <1>1, <2>1 DEF MayBuy, Chooses
  <2>5. Naming(handler[h], state, data)
    BY DEF Shown
  <2>6. Naming(handler'[h], state', data')
    BY <1>1, <1>2, <2>1, <2>5 DEF Naming
  <2> QED
    BY <1>1, <1>2, <1>3, <2>2, <2>3, <2>4, <2>6, ShownStays
<1> QED
  BY <1>5, <1>6, CallMoves

LEMMA GoToShown ==
    ASSUME BotAssumption, TypeInv, Shown, NEW h \in Handlers, GoTo(h)
    PROVE  Shown'
BY GoToMoves, EndShown DEF GoTo, Ends, history

\* The purchase that a handler shows is the only one in play.
LEMMA OnlyHeld ==
    ASSUME BotAssumption, TypeInv, Shown, NEW h \in Handlers, Others(h), handler[h] # Idle,
           handler[h].kind \in Showing \cup {"name"}, handler[h].at \in {"offer", "show"},
           handler[h].held # NoData, handler[h].kind = "name" \/ Settled(handler),
           data' = data, \A u : Keeps(handler'[h], u) => u = handler[h].held
    PROVE  InPlay(handler', data') \subseteq {handler[h].held, NoData}
<1> DEFINE held == handler[h].held
<1>1. InPlay(handler, data) \subseteq {held, NoData}
  <2>1. CASE handler[h].kind = "name"
    <3>1. \A g \in Handlers : handler[g] # Idle => handler[g] \in Handling /\ InPlace(handler[g])
      BY RecordTypes
    <3>2. InPlay(handler, data) = {data}
      BY <2>1, <3>1, ChoosingAlone DEF Shown, Choosing
    <3>3. data \in {held, NoData}
      BY <2>1 DEF Shown, Naming
    <3> QED
      BY <3>2, <3>3
  <2>2. CASE handler[h].kind \in Showing
    <3>1. held \in InPlay(handler, data)
      BY <2>2, RecordTypes DEF InPlay, Keeps
    <3>2. OnePurchase(handler, data, state, offer)
      BY <2>2 DEF Shown, Showing
    <3> QED
      BY <3>1, <3>2 DEF OnePurchase
  <2> QED
    BY <2>1, <2>2
<1>2. ASSUME NEW u \in Purchase, NEW g \in Handlers, Keeps(handler'[g], u)
      PROVE  u \in {held, NoData}
  BY <1>1, <1>2 DEF InPlay, Others
<1>3. data' \in {held, NoData}
  BY <1>1 DEF InPlay
<1> QED
  BY <1>2, <1>3 DEF InPlay

\* Nobody chooses a name beside a handler that shows a purchase.
LEMMA NamingBeside ==
    ASSUME Shown, NEW h \in Handlers, Others(h), handler[h].kind \in Showing \cup {"name"},
           Naming(handler'[h], state', data')
    PROVE  \A g \in Handlers : Naming(handler'[g], state', data')
<1> SUFFICES ASSUME NEW g \in Handlers PROVE Naming(handler'[g], state', data')
  OBVIOUS
<1>1. CASE g # h /\ handler[g].kind = "name"
  <2>1. Clash(handler[g], handler[h])
    BY <1>1 DEF Clash, Careful, Choosing, Showing
  <2> QED
    BY <1>1, <2>1 DEF Shown, Apart
<1>2. CASE ~(g # h /\ handler[g].kind = "name")
  BY <1>2 DEF Others, Naming
<1> QED
  BY <1>1, <1>2

\* The dialogue begins to wait for a confirmation of what it is about to show.
LEMMA PaymentOffered ==
    ASSUME BotAssumption, TypeInv, Shown, NEW h \in Handlers, OfferPayment(h)
    PROVE  Shown'
<1> DEFINE held == handler[h].held
<1>1. /\ Others(h) /\ handler[h] # Idle /\ handler[h].kind \in Showing \cup {"name"}
      /\ held \in Purchase /\ held.plan # None
      /\ IF held.target = None THEN Refuses(h) ELSE MovesOn(h, "show")
  BY OfferMoves
<1>2. handler[h] \in Handling /\ InPlace(handler[h]) /\ handler[h].at = "offer"
  BY <1>1, RecordTypes DEF OfferPayment
<1>3. UNCHANGED <<data, offer>>
  BY DEF OfferPayment
<1>4. held # NoData
  BY <1>1 DEF NoData
<1>5. CASE held.target = None
  <2>1. handler[h].kind \in Showing /\ handler'[h] = RefusedRecord(handler[h])
    BY <1>1, <1>2, <1>5 DEF InPlace, Refuses
  <2>2. handler'[h] = Idle \/ handler'[h] = [handler[h] EXCEPT !.at = "clear"]
    BY <2>1 DEF RefusedRecord, Showing
  <2>3. handler'[h] = Idle \/ (handler'[h].kind = handler[h].kind /\ handler'[h].at = "clear")
    BY <1>2, <2>2 DEF Handling
  <2>4. /\ handler'[h].kind \in {handler[h].kind, "none"} /\ handler'[h].kind # "name"
        /\ \A u : ~Keeps(handler'[h], u)
        /\ ~Chooses(handler[h])
    BY <2>1, <2>3, IdleIs, NothingKept DEF Showing, Chooses
  <2>5. Apart(handler')
    BY <1>1, <2>4, ApartStays DEF Shown
  <2>6. \A g \in Handlers : Naming(handler'[g], state', data')
    BY <1>1, <2>4, NamingBeside DEF Naming
  <2>7. ASSUME Settled(handler') PROVE OnePurchase(handler', data', state', offer')
    <3>1. Settled(handler)
      BY <1>1, <2>4, <2>7 DEF Settled, Others
    <3>2. InPlay(handler', data') \subseteq {held, NoData} /\ ~Complete(held)
      BY <1>1, <1>2, <1>3, <1>4, <1>5, <2>4, <3>1, OnlyHeld DEF Complete
    <3> QED
      BY <3>2, IsOne
  <2> QED
    BY <2>5, <2>6, <2>7 DEF Shown
<1>6. CASE held.target # None
  <2>1. handler'[h].kind = handler[h].kind /\ handler'[h].held = held /\ handler'[h].at = "show"
    BY <1>1, <1>6, MovedRecord
  <2>2. Apart(handler')
    BY <1>1, <2>1, ApartStays DEF Shown
  <2>3. \A u : Keeps(handler'[h], u) => u = held
    BY <2>1 DEF Keeps
  <2>4. Naming(handler[h], state, data)
    BY DEF Shown
  <2>5. \A g \in Handlers : Naming(handler'[g], state', data')
    BY <1>1, <1>2, <1>3, <2>1, <2>4, NamingBeside DEF Naming
  <2>6. ASSUME Settled(handler') PROVE OnePurchase(handler', data', state', offer')
    <3>1. handler[h].kind \in Showing
      BY <1>1, <2>1, <2>6 DEF Settled, Chooses
    <3>2. Settled(handler)
      BY <1>1, <2>6, <3>1 DEF Settled, Others, Chooses, Showing
    <3>3. InPlay(handler', data') \subseteq {held, NoData}
      BY <1>1, <1>2, <1>3, <1>4, <2>3, <3>2, OnlyHeld
    <3>4. ASSUME Awaits(handler', state', offer') PROVE held = offer'
      <4>1. CASE Arrived(handler', offer')
        BY <2>1, <4>1 DEF Arrived
      <4>2. CASE \E g \in Handlers : MayBuy(handler'[g])
        <5>1. PICK g \in Handlers : MayBuy(handler[g])
          BY <1>1, <2>1, <4>2 DEF MayBuy, Others
        <5>2. Awaits(handler, state, offer)
          BY <5>1 DEF Awaits
        <5>3. held \in InPlay(handler, data) /\ Complete(held)
          BY <1>1, <1>2, <1>6, <3>1 DEF InPlay, Keeps, Complete
        <5> QED
          BY <1>3, <3>2, <5>2, <5>3 DEF Shown, OnePurchase
      <4> QED
        BY <3>4, <4>1, <4>2 DEF Awaits
    <3> QED
      BY <3>3, <3>4, IsOne
  <2> QED
    BY <2>2, <2>5, <2>6 DEF Shown
<1> QED
  BY <1>5, <1>6

\* The page shows the purchase that is in play.
LEMMA PaymentShown ==
    ASSUME BotAssumption, TypeInv, Shown, NEW h \in Handlers, ShowPayment(h)
    PROVE  Shown'
<1> DEFINE held == handler[h].held
<1>1. /\ Others(h) /\ handler[h] # Idle /\ handler[h].kind \in Showing \cup {"name"}
      /\ Complete(held) /\ handler'[h] = Idle
  BY ShowMoves DEF Ends
<1>2. handler[h].at = "show" /\ UNCHANGED <<state, data>> /\ offer' = held
  BY DEF ShowPayment
<1>3. held # NoData
  BY <1>1, NoDataType
<1>4. handler'[h].kind = "none" /\ \A u : ~Keeps(handler'[h], u)
  BY <1>1, IdleIs, NothingKept
<1>5. Apart(handler')
  BY <1>1, <1>4, ApartStays DEF Shown
<1>6. \A g \in Handlers : Naming(handler'[g], state', data')
  BY <1>1, <1>4, NamingBeside DEF Naming
<1>7. ASSUME Settled(handler') PROVE OnePurchase(handler', data', state', offer')
  <2>1. handler[h].kind = "name" \/ Settled(handler)
    BY <1>1, <1>7 DEF Settled, Others, Chooses, Showing
  <2>2. InPlay(handler', data') \subseteq {held, NoData}
    BY <1>1, <1>2, <1>3, <1>4, <2>1, OnlyHeld
  <2> QED
    BY <1>2, <2>2, IsOne
<1> QED
  BY <1>5, <1>6, <1>7 DEF Shown

LEMMA RechargeShown ==
    ASSUME BotAssumption, TypeInv, Shown, NEW h \in Handlers, OfferRecharge(h)
    PROVE  Shown'
<1>1. /\ Others(h) /\ handler[h] # Idle /\ handler[h].kind \in Showing \cup {"name"}
      /\ IF handler[h].held.target = None THEN Refuses(h) ELSE Ends(h)
  BY OfferMoves
<1>2. /\ state' = "choice" /\ UNCHANGED <<data, offer>> /\ handler[h].at = "offer"
  BY DEF OfferRecharge, history
<1>3. CASE Ends(h)
  BY <1>1, <1>2, <1>3, EndShown DEF Ends
<1>4. CASE Refuses(h) /\ handler[h].held.target = None
  <2>1. handler[h].kind \in Showing
    BY <1>1, <1>4, RecordTypes DEF InPlace
  <2>2. RefusedRecord(handler[h]).kind # "name"
    BY <2>1, <1>1, IdleIs, RecordTypes DEF RefusedRecord, Showing, Handling
  <2>3. /\ Apart(handler') /\ ~MayBuy(handler'[h]) /\ \A u : ~Keeps(handler'[h], u)
        /\ Chooses(handler'[h]) <=> Chooses(handler[h])
    BY <1>1, <1>2, <1>4, RefusedShown DEF Refuses
  <2>4. Naming(handler'[h], state', data')
    BY <1>4, <2>2 DEF Naming, Refuses
  <2>5. data' \in InPlay(handler, data)
    BY <1>2 DEF InPlay
  <2> QED
    BY <1>1, <1>2, <2>3, <2>4, <2>5, ShownStays
<1> QED
  BY <1>1, <1>3, <1>4

\* What is ordered is in play and was shown.
LEMMA BuyShown ==
    ASSUME BotAssumption, TypeInv, Shown, NEW h \in Handlers,
           Buy(h) \/ BuyUnheard(h) \/ BuyRefused(h)
    PROVE  Shown' /\ handler[h].held = offer
<1>1. /\ Others(h) /\ handler[h] # Idle /\ handler[h].kind = "pay" /\ handler[h].at = "buy"
      /\ handler[h].held \in Purchase /\ Complete(handler[h].held)
  BY BuyMoves
<1>2. UNCHANGED <<state, data, offer>>
  BY DEF Buy, BuyUnheard, BuyRefused, dialogue, history
<1>3. handler[h].held = offer
  <2>1. ASSUME NEW g \in Handlers, Chooses(handler[g]) PROVE FALSE
    <3>1. g # h /\ handler[g].kind \in Choosing
      BY <1>1, <2>1 DEF Chooses, Choosing
    <3>2. Clash(handler[g], handler[h])
      BY <1>1, <3>1 DEF Clash, Careful
    <3> QED
      BY <3>1, <3>2 DEF Shown, Apart
  <2>2. OnePurchase(handler, data, state, offer)
    BY <2>1 DEF Shown, Settled
  <2>3. handler[h].held \in InPlay(handler, data)
    BY <1>1 DEF InPlay, Keeps
  <2>4. Awaits(handler, state, offer)
    BY <1>1 DEF Awaits, MayBuy
  <2> QED
    BY <1>1, <2>2, <2>3, <2>4 DEF OnePurchase
<1>4. data' \in InPlay(handler, data)
  BY <1>2 DEF InPlay
<1>5. CASE BuyUnheard(h)
  BY <1>1, <1>2, <1>3, <1>5, BuyMoves, EndShown DEF Ends
<1>6. CASE BuyRefused(h)
  <2>1. /\ Apart(handler') /\ ~MayBuy(handler'[h]) /\ \A u : ~Keeps(handler'[h], u)
        /\ Chooses(handler'[h]) <=> Chooses(handler[h])
        /\ Naming(handler'[h], state', data')
    BY <1>1, <1>2, <1>6, BuyMoves, RefusedShown DEF Refuses
  <2> QED
    BY <1>1, <1>2, <1>3, <1>4, <2>1, ShownStays
<1>7. CASE Buy(h)
  <2>1. handler'[h].kind = "pay" /\ handler'[h].at = "clear"
    BY <1>1, <1>7, BuyMoves, MovedRecord
  <2>2. Apart(handler')
    BY <1>1, <2>1, ApartStays DEF Shown
  <2>3. /\ \A u : ~Keeps(handler'[h], u)
        /\ ~MayBuy(handler'[h]) /\ ~Chooses(handler[h]) /\ Naming(handler'[h], state', data')
    BY <1>1, <2>1, NothingKept DEF MayBuy, Chooses, Naming
  <2> QED
    BY <1>1, <1>2, <1>3, <1>4, <2>2, <2>3, ShownStays
<1> QED
  BY <1>5, <1>6, <1>7

LEMMA ClearShown ==
    ASSUME BotAssumption, TypeInv, Shown, NEW h \in Handlers, Clear(h)
    PROVE  Shown'
<1>1. Others(h) /\ handler[h] # Idle /\ MovesOn(h, "wipe")
  BY ClearMoves
<1>2. state' = "none" /\ UNCHANGED <<data, offer>> /\ handler[h].at = "clear"
  BY DEF Clear, history
<1>3. handler'[h].kind = handler[h].kind /\ handler'[h].at = "wipe"
  BY <1>1, MovedRecord
<1>4. Apart(handler')
  BY <1>1, <1>3, ApartStays DEF Shown
<1>5. (\A u : ~Keeps(handler'[h], u)) /\ ~MayBuy(handler'[h])
  BY <1>3, NothingKept
<1>6. Chooses(handler[h]) => Chooses(handler'[h])
  BY <1>2, <1>3 DEF Chooses
<1>7. Naming(handler'[h], state', data') /\ data' \in InPlay(handler, data)
  BY <1>2, <1>3 DEF Naming, InPlay
<1> QED
  BY <1>1, <1>2, <1>4, <1>5, <1>6, <1>7, ShownStays

LEMMA EndingShown ==
    ASSUME BotAssumption, TypeInv, Shown, NEW h \in Handlers, Wipe(h) \/ Cut(h), ~torn'
    PROVE  Shown'
<1>1. Others(h) /\ handler'[h] = Idle
  BY EndingMoves DEF Ends
<1>2. state' = state /\ data' \in {data, NoData} /\ offer' = offer
  BY DEF Wipe, Cut, dialogue, history
<1>3. ~(handler[h].kind = "plan" /\ handler[h].at = "goto")
  BY DEF Wipe, Cut
<1>4. handler[h].at = "show" => handler[h].held = offer
  BY DEF Wipe, Cut, Unseen
<1> QED
  BY <1>1, <1>2, <1>3, <1>4, EndShown

LEMMA ShownInvStep ==
    ASSUME BotAssumption, TypeInv, ShownInv, [BotNext]_botVars
    PROVE  ShownInv'
<1> SUFFICES ASSUME ~torn' PROVE Shown' /\ Matching'
  BY DEF ShownInv
<1>1. CASE UNCHANGED botVars
  <2>1. UNCHANGED <<state, data, handler, offer, orders, torn>>
    BY <1>1 DEF botVars, dialogue, history
  <2> QED
    BY <2>1 DEF ShownInv, Shown, Matching
<1>2. ASSUME NEW h \in Handlers,
             Update(h) \/ Get(h) \/ Put(h) \/ GoTo(h) \/ Read(h) \/ Ask(h) \/ Call(h)
             \/ OfferPayment(h) \/ ShowPayment(h) \/ OfferRecharge(h)
             \/ Clear(h) \/ Wipe(h) \/ Cut(h)
      PROVE  Shown' /\ Matching'
  <2>1. UNCHANGED orders /\ (torn => torn')
    <3>1. CASE Update(h)
      BY <3>1, UpdateReceives DEF Receive
    <3>2. CASE Get(h) \/ Put(h) \/ GoTo(h) \/ Read(h) \/ Ask(h) \/ Call(h)
      BY <3>2 DEF Get, Put, GoTo, Read, Ask, Call, history
    <3>3. CASE OfferPayment(h) \/ ShowPayment(h) \/ OfferRecharge(h) \/ Clear(h) \/ Wipe(h)
      BY <3>3 DEF OfferPayment, ShowPayment, OfferRecharge, Clear, Wipe, history
    <3>4. CASE Cut(h)
      BY <3>4 DEF Cut
    <3> QED
      BY <1>2, <3>1, <3>2, <3>3, <3>4
  <2>2. Shown /\ Matching
    BY <2>1 DEF ShownInv
  <2>3. Shown'
    BY <1>2, <2>2, ReceiveShown, GetShown, PutShown, GoToShown, ReadShown, AskShown, CallShown,
       PaymentOffered, PaymentShown, RechargeShown, ClearShown, EndingShown
  <2> QED
    BY <2>1, <2>2, <2>3 DEF Matching
<1>3. ASSUME NEW h \in Handlers, Buy(h) \/ BuyUnheard(h) \/ BuyRefused(h)
      PROVE  Shown' /\ Matching'
  <2>1. torn' = torn
    BY <1>3 DEF Buy, BuyUnheard, BuyRefused, history
  <2>2. Shown /\ Matching
    BY <2>1 DEF ShownInv
  <2>3. Shown' /\ handler[h].held = offer
    BY <1>3, <2>2, BuyShown
  <2>4. orders' \in {orders, Append(orders, [order |-> handler[h].held, shown |-> offer])}
    BY <1>3 DEF Buy, BuyUnheard, BuyRefused, Ordered, history
  <2>5. orders \in Seq([order : {p \in Purchase : Complete(p)}, shown : Purchase])
    BY DEF TypeInv, DialogueTypeOK
  <2>6. CASE orders' = Append(orders, [order |-> handler[h].held, shown |-> offer])
    <3> DEFINE new == [order |-> handler[h].held, shown |-> offer]
    <3>1. new.order = new.shown
      BY <2>3
    <3>2. ASSUME NEW i \in DOMAIN orders' PROVE orders'[i].order = orders'[i].shown
      <4>1. \/ i \in DOMAIN orders /\ orders'[i] = orders[i]
            \/ orders'[i] = new
        BY <2>5, <2>6, <3>2
      <4> QED
        BY <2>2, <3>1, <4>1 DEF Matching
    <3> QED
      BY <2>3, <3>2 DEF Matching
  <2> QED
    BY <2>2, <2>3, <2>4, <2>6 DEF Matching
<1> QED
  BY <1>1, <1>2, <1>3 DEF BotNext

\* An order is what the last payment page showed, unless the choice of the
\* purchase overlapped with something else or was cut short, or a newer page had
\* not arrived: for any number of plans, names and handlers
\* (show_balance_result, confirm_wallet_payment).
THEOREM OrdersAsShown == BotSpec => []OrderedAsShown
<1>1. BotInit => TypeInv /\ ShownInv
  <2> SUFFICES ASSUME BotInit PROVE TypeInv /\ ShownInv
    OBVIOUS
  <2>1. TypeInv
    BY TypeInvInit, BotAssumption
  <2>2. \A h \in Handlers : handler[h] = Idle
    BY DEF BotInit
  <2>3. Apart(handler)
    BY <2>2, IdleIs DEF Apart, Clash, Careful, Choosing
  <2>4. \A h \in Handlers : Naming(handler[h], state, data)
    BY <2>2, IdleIs DEF Naming
  <2>5. InPlay(handler, data) \subseteq {NoData, NoData} /\ ~Complete(NoData)
    BY <2>2, IdleIs, NoDataType, BotAssumption DEF InPlay, Keeps, BotInit
  <2>6. OnePurchase(handler, data, state, offer)
    BY <2>5, IsOne, BotAssumption
  <2>7. Matching
    BY DEF BotInit, Matching
  <2> QED
    BY <2>1, <2>3, <2>4, <2>6, <2>7 DEF ShownInv, Shown
<1>2. TypeInv /\ ShownInv /\ [BotNext]_botVars => (TypeInv /\ ShownInv)'
  BY TypeInvStep, ShownInvStep, BotAssumption
<1>3. ShownInv => OrderedAsShown
  BY DEF ShownInv, Matching, OrderedAsShown
<1> QED
  BY <1>1, <1>2, <1>3, PTL DEF BotSpec
=============================================================================
