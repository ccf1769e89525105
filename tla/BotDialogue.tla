----------------------------- MODULE BotDialogue -----------------------------
(***************************************************************************)
(* One user's dialogue with the Telegram bot: choose a plan, name who gets  *)
(* it, recharge the wallet if it does not suffice, and pay.                 *)
(*                                                                         *)
(* The dialogue is a state and some data in Redis.  Each tap and each text  *)
(* is handled by a task of its own, and the tasks of one user are not kept  *)
(* apart: whether a handler is the one to run is decided by the state when  *)
(* the update arrives, and from then on other handlers run between any two  *)
(* of its awaits (calls of Redis, Telegram and the API).  update_data is    *)
(* two of them: it reads all of the data and writes all of it.              *)
(*                                                                         *)
(* A button stays in the chat, and a tap on it may be under way while its   *)
(* message is edited: what was shown once can be tapped at any time.        *)
(* Balances and amounts are left to WalletLedger: what the API says of them *)
(* may differ from one call to the next.                                    *)
(***************************************************************************)
EXTENDS Integers, Sequences, FiniteSets

CONSTANTS Plans,    \* plans on sale
          Targets,  \* user names that are typed
          Handlers, \* tasks that handle updates
          None,     \* what was not chosen
          MaxTaps   \* bound on the updates

ASSUME BotAssumption ==
    /\ None \notin Plans \cup Targets
    /\ MaxTaps \in Nat

VARIABLES state,   \* the state of the dialogue
          data,    \* plan_id and target_username in its data
          handler, \* the updates being handled
          buttons, \* what can be tapped or typed
          taps,    \* updates so far
          orders,  \* history: orders the API made, with what the user was shown
          offer,   \* history: the purchase the last payment page showed
          offers,  \* history: times the bot began to wait for a confirmation
          doubles, \* history: confirmations received while one was handled
          lost,    \* history: orders whose confirmation was not handled to its end
          torn     \* history: the choice of a purchase overlapped with other
                   \* handlers of it or was cut short, or a page was not seen

dialogue == <<state, data, buttons>>
history  == <<orders, offer, offers, doubles, lost, torn>>
botVars  == <<dialogue, handler, taps, history>>

\* Where a dialogue is: in a purchase, in a deposit of its own, in neither.
Steps == {"none", "username", "confirm", "choice", "amount", "network", "paying",
          "deposit amount", "deposit network"}

Purchase == [plan : Plans \cup {None}, target : Targets \cup {None}]
NoData == [plan |-> None, target |-> None]
Complete(p) == p.plan # None /\ p.target # None

\* What is handled: the choice of a plan, a user name, the confirmation of a
\* payment ("again" when it was refused and the balance is shown again), "back"
\* and "status", which show the balance, the recharge and its amounts, and a
\* deposit's, and what clears the dialogue and shows something else ("menu").
Kinds == {"plan", "name", "pay", "again", "back", "status", "recharge", "custom", "topup",
          "deposit", "wallet", "sum", "credit", "menu"}

\* The kinds that choose a purchase, and those that read it or write it back.
Choosing == {"plan", "name"}
Careful  == Choosing \cup {"pay", "again", "back", "status", "topup", "deposit", "sum"}

\* A handler is between two awaits: "read" is get_data, "get" and "put" or
\* "refresh" and "save" are update_data, "clear" and "wipe" are clear.
Idle == [kind |-> "none", at |-> "end", held |-> NoData, copy |-> NoData]
Handling ==
    [kind : Kinds,
     at   : {"get", "put", "goto", "ask", "read", "call", "refresh", "save", "offer",
             "show", "buy", "clear", "wipe"},
     held : Purchase, copy : Purchase]

\* The handlers that may still order, and those that have not left the state yet.
Buying == {h \in Handlers : handler[h].kind = "pay" /\ handler[h].at \in {"read", "buy"}}
Paying == {h \in Handlers : handler[h].kind = "pay" /\ handler[h].at \in {"read", "buy", "clear"}}

\* A payment page with another purchase than the last one is on its way.
Unseen(h) == handler[h].at = "show" /\ handler[h].held # offer

At(h, place) == handler' = [handler EXCEPT ![h].at = place]
End(h) == handler' = [handler EXCEPT ![h] = Idle]

----------------------------------------------------------------------------
(* Updates arrive.                                                          *)

Receive(h, kind, first, chosen) ==
    /\ handler[h] = Idle /\ kind \in buttons /\ taps < MaxTaps
    /\ taps' = taps + 1
    /\ handler' = [handler EXCEPT ![h] =
                      [kind |-> kind, at |-> first, held |-> chosen, copy |-> NoData]]
    /\ torn' = (torn \/ \E g \in Handlers : LET both == {kind, handler[g].kind} IN
                           \/ both \subseteq Careful /\ both \cap Choosing # {}
                           \/ kind = "pay" /\ Unseen(g))
    /\ doubles' = IF kind = "pay" /\ Paying # {} THEN doubles + 1 ELSE doubles
    /\ UNCHANGED <<dialogue, orders, offer, offers, lost>>

ChoosePlan(h) ==
    \E p \in Plans : Receive(h, "plan", "get", [NoData EXCEPT !.plan = p])

ReceiveUsername(h) ==
    /\ state = "username"
    /\ \E t \in Targets : Receive(h, "name", "get", [NoData EXCEPT !.target = t])

\* Variant: the confirmation is handled in any state.
ConfirmAnyTime(h) == Receive(h, "pay", "read", NoData)

ConfirmWalletPayment(h) == state = "confirm" /\ Receive(h, "pay", "read", NoData)

ChooseRechargeAmount(h) == state = "choice" /\ Receive(h, "recharge", "goto", NoData)

BackToBalance(h) == Receive(h, "back", "read", NoData)

RefreshDepositStatus(h) == Receive(h, "status", "ask", NoData)

OwnAmount(h) == state = "choice" /\ Receive(h, "custom", "goto", NoData)

RechargeAmount(h) == state \in {"choice", "amount"} /\ Receive(h, "topup", "call", NoData)

CreatePurchaseDeposit(h) == state = "network" /\ Receive(h, "deposit", "call", NoData)

StartDeposit(h) == Receive(h, "wallet", "goto", NoData)

ReceiveDepositAmount(h) == state = "deposit amount" /\ Receive(h, "sum", "call", NoData)

ChooseDepositNetwork(h) == state = "deposit network" /\ Receive(h, "credit", "call", NoData)

Menu(h) == Receive(h, "menu", "clear", NoData)

Update(h) ==
    \/ ChoosePlan(h) \/ ReceiveUsername(h) \/ ConfirmWalletPayment(h)
    \/ ChooseRechargeAmount(h) \/ BackToBalance(h) \/ RefreshDepositStatus(h)
    \/ OwnAmount(h) \/ RechargeAmount(h) \/ CreatePurchaseDeposit(h)
    \/ StartDeposit(h) \/ ReceiveDepositAmount(h) \/ ChooseDepositNetwork(h) \/ Menu(h)

----------------------------------------------------------------------------
(* What handlers do.                                                        *)

\* A missing key, or the API refuses.
Refused(h) ==
    handler' = [handler EXCEPT ![h] =
        CASE @.kind = "pay"                  -> [@ EXCEPT !.kind = "again", !.at = "read"]
          [] @.kind \in {"again", "deposit"} -> Idle
          [] OTHER                           -> [@ EXCEPT !.at = "clear"]]

\* The first half of update_data.
Get(h) ==
    /\ handler[h].at \in {"get", "refresh"}
    /\ handler' = [handler EXCEPT ![h].copy = data,
                                  ![h].at = IF @ = "get" THEN "put" ELSE "save"]
    /\ UNCHANGED <<dialogue, taps, history>>

\* The second half, with the plan, the name or an amount added, or the plan's
\* description.
Put(h) ==
    LET kind == handler[h].kind  copy == handler[h].copy  held == handler[h].held IN
    /\ handler[h].at \in {"put", "save"}
    /\ data' = IF handler[h].at = "save" THEN copy
               ELSE CASE kind = "plan" -> [copy EXCEPT !.plan = held.plan]
                      [] kind = "name" -> [copy EXCEPT !.target = held.target]
                      [] OTHER         -> copy
    /\ At(h, IF handler[h].at = "save" THEN "offer"
             ELSE IF kind = "name" THEN "read" ELSE "goto")
    /\ UNCHANGED <<state, buttons, taps, history>>

\* The handlers that lead to one state, and what their message can be answered with.
Leads ==
    [plan     |-> [to |-> "username",        shows |-> {"name"}],
     recharge |-> [to |-> "choice",          shows |-> {"custom", "topup", "back"}],
     custom   |-> [to |-> "amount",          shows |-> {"topup"}],
     topup    |-> [to |-> "network",         shows |-> {"deposit", "credit"}],
     deposit  |-> [to |-> "paying",          shows |-> {"status"}],
     wallet   |-> [to |-> "deposit amount",  shows |-> {"sum"}],
     sum      |-> [to |-> "deposit network", shows |-> {"deposit", "credit"}]]

GoTo(h) ==
    /\ handler[h].at = "goto"
    /\ state' = Leads[handler[h].kind].to
    /\ buttons' = buttons \cup Leads[handler[h].kind].shows
    /\ End(h)
    /\ UNCHANGED <<data, taps, history>>

\* Variant: what is missing in the data is not noticed.
ReadBlindly(h) ==
    /\ handler[h].at = "read"
    /\ handler' = [handler EXCEPT ![h].held = data,
                                  ![h].at = IF handler[h].kind = "pay" THEN "buy" ELSE "call"]
    /\ UNCHANGED <<dialogue, taps, history>>

\* The purchase is taken from the data, the name from the message that has it.
Read(h) ==
    LET kind == handler[h].kind
        held == IF kind = "name" THEN [data EXCEPT !.target = handler[h].held.target] ELSE data
    IN
    /\ handler[h].at = "read"
    /\ IF held.plan = None \/ (kind = "pay" /\ held.target = None)
       THEN Refused(h)
       ELSE handler' = [handler EXCEPT ![h].held = held,
                                       ![h].at = IF kind = "pay" THEN "buy" ELSE "call"]
    /\ UNCHANGED <<dialogue, taps, history>>

\* The deposit whose status is asked for: only a confirmed one leads on.
Ask(h) ==
    /\ handler[h].at = "ask"
    /\ At(h, "read") \/ End(h)
    /\ UNCHANGED <<dialogue, taps, history>>

\* Plans, balance and networks are looked up, or a deposit is created.
Call(h) ==
    /\ handler[h].at = "call"
    /\ \/ At(h, CASE handler[h].kind \in {"topup", "deposit", "sum"} -> "get"
                  [] handler[h].kind = "credit" -> "clear"
                  [] OTHER -> "refresh")
       \/ Refused(h)
    /\ UNCHANGED <<dialogue, taps, history>>

\* The balance suffices, and the payment is to be confirmed; but without a
\* name there is no page to show.
OfferPayment(h) ==
    /\ handler[h].at = "offer"
    /\ state' = "confirm"
    /\ offers' = offers + 1
    /\ IF handler[h].held.target = None THEN Refused(h) ELSE At(h, "show")
    /\ UNCHANGED <<data, buttons, taps, orders, offer, doubles, lost, torn>>

\* Its page arrives.
ShowPayment(h) ==
    /\ handler[h].at = "show"
    /\ offer' = handler[h].held /\ buttons' = buttons \cup {"pay"}
    /\ End(h)
    /\ UNCHANGED <<state, data, taps, orders, offers, doubles, lost, torn>>

\* It does not, and a recharge is offered.
OfferRecharge(h) ==
    /\ handler[h].at = "offer"
    /\ state' = "choice"
    /\ IF handler[h].held.target = None
       THEN Refused(h) /\ UNCHANGED buttons
       ELSE End(h) /\ buttons' = buttons \cup {"recharge"}
    /\ UNCHANGED <<data, taps, history>>

\* The API charges the wallet and makes the order.
Ordered(h) == orders' = Append(orders, [order |-> handler[h].held, shown |-> offer])

\* Variant: the dialogue is left as it is.
BuyAndStay(h) ==
    /\ handler[h].at = "buy"
    /\ Ordered(h) /\ End(h)
    /\ UNCHANGED <<dialogue, taps, offer, offers, doubles, lost, torn>>

Buy(h) ==
    /\ handler[h].at = "buy"
    /\ Ordered(h) /\ At(h, "clear")
    /\ UNCHANGED <<dialogue, taps, offer, offers, doubles, lost, torn>>

\* Its answer does not arrive in time, which is none of the handled errors.
BuyUnheard(h) ==
    /\ handler[h].at = "buy"
    /\ Ordered(h) /\ End(h)
    /\ lost' = lost + 1
    /\ UNCHANGED <<dialogue, taps, offer, offers, doubles, torn>>

\* It refuses: the balance was spent meanwhile, the plan is gone, or the order
\* could not be queued and was refunded.
BuyRefused(h) ==
    /\ handler[h].at = "buy"
    /\ Refused(h)
    /\ UNCHANGED <<dialogue, taps, history>>

Clear(h) ==
    /\ handler[h].at = "clear"
    /\ state' = "none"
    /\ At(h, "wipe")
    /\ UNCHANGED <<data, buttons, taps, history>>

Wipe(h) ==
    /\ handler[h].at = "wipe"
    /\ data' = NoData
    /\ End(h)
    /\ UNCHANGED <<state, buttons, taps, history>>

\* The bot is stopped, or Redis, Telegram or the API cannot be reached.
Cut(h) ==
    /\ handler[h] # Idle
    /\ End(h)
    /\ lost' = IF handler[h].kind = "pay" /\ handler[h].at = "clear" THEN lost + 1 ELSE lost
    /\ torn' = (torn \/ (handler[h].kind = "plan" /\ handler[h].at = "goto") \/ Unseen(h))
    /\ UNCHANGED <<dialogue, taps, orders, offer, offers, doubles>>

----------------------------------------------------------------------------
BotInit ==
    /\ state = "none" /\ data = NoData
    /\ buttons = {"menu", "plan", "wallet"}
    /\ handler = [h \in Handlers |-> Idle]
    /\ taps = 0
    /\ orders = <<>> /\ offer = NoData
    /\ offers = 0 /\ doubles = 0 /\ lost = 0
    /\ torn = FALSE

BotNext ==
    \E h \in Handlers :
       \/ Update(h)
       \/ Get(h) \/ Put(h) \/ GoTo(h) \/ Read(h) \/ Ask(h) \/ Call(h)
       \/ OfferPayment(h) \/ ShowPayment(h) \/ OfferRecharge(h)
       \/ Buy(h) \/ BuyUnheard(h) \/ BuyRefused(h)
       \/ Clear(h) \/ Wipe(h) \/ Cut(h)

BotSpec == BotInit /\ [][BotNext]_botVars

----------------------------------------------------------------------------
(* Properties.                                                              *)

\* What Redis, the handlers and the API hold; an order has a plan and a name.
DialogueTypeOK ==
    /\ state \in Steps /\ data \in Purchase
    /\ handler \in [Handlers -> Handling \cup {Idle}]
    /\ buttons \subseteq Kinds
    /\ orders \in Seq([order : {p \in Purchase : Complete(p)}, shown : Purchase])
    /\ offer \in Purchase
    /\ {taps, offers, doubles, lost} \subseteq Nat
    /\ torn \in BOOLEAN

\* A user pays once for each time the bot asked for it, however taps, pages,
\* recharges and failures interleave: what is paid beyond that was confirmed
\* while a confirmation was being handled, or after one that was cut short
\* (confirm_wallet_payment; the API knows no key that would tell two
\* confirmations of one page apart).
OncePerOffer == Len(orders) <= offers + doubles + lost

\* An order is what the last payment page showed, even if it was confirmed on
\* an older page or reached by a button of an older message, unless the
\* purchase was being chosen anew while it was shown or confirmed, or a newer
\* page had not arrived by then (show_balance_result, and the handlers without
\* a state filter).
OrderedAsShown ==
    \/ torn
    \/ \A i \in DOMAIN orders : orders[i].order = orders[i].shown
=============================================================================
