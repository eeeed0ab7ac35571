------------------------------- MODULE GmbSale -------------------------------
(***************************************************************************)
(* The sale of GMB: the backend (services/purchase-backend) creates an     *)
(* order and saves it, the customer pays at the gateway, the gateway calls *)
(* the webhook until it is answered 200, and the webhook has the dispenser *)
(* contract pay the buyer and marks the order fulfilled.                   *)
(*                                                                         *)
(* The backend is one Node process: a handler runs without interruption    *)
(* between two awaits, and several handlers may be waiting at once.  What  *)
(* it keeps in memory (the orders, the set of orders being dispensed, its  *)
(* handlers) is gone after a crash; the orders file stays, unless the      *)
(* crash cut a write short: an unreadable file loads as no orders at all.  *)
(***************************************************************************)
EXTENDS Integers, FiniteSets

CONSTANTS
  Orders,      \* order ids, and the payment references made from them
  Handlers,    \* webhook requests the process can have open at once
  Payments,    \* what a payment.completed may carry
  NoPayment,   \* the order has not been paid
  Gmb, Eur,    \* GMB bought with an order, and its price in cents
  Tolerated,   \* cents a payment may be off: the difference of two floats is
               \*   compared with 0.01, so a whole cent may pass or not
  Buyer,       \* the address an order is for: any isAddress accepts
  ZeroAddress, Contracts,  \* addresses that refuse coins, or may
  Stock,       \* bound: GMB the owner keeps in the dispenser
  MaxFaults    \* bound: faults of the process, the RPC node, the gateway and
               \*   the owner in a behaviour

\* amount and currency are sets: empty when the webhook lacks the field.
ASSUME SaleAssumption ==
  /\ Gmb \in Nat \ {0} /\ Eur \in Nat /\ Stock \in Nat /\ MaxFaults \in Nat
  /\ Payments \subseteq [amount: SUBSET Int, currency: SUBSET {"EUR", "other"}]
  /\ NoPayment \notin Payments
  /\ 0 \in Tolerated /\ Tolerated \subseteq -1 .. 1
  /\ DOMAIN Buyer = Orders

VARIABLES
  up,         \* the process runs
  orders,     \* its orders: "none", "pending" or "fulfilled"
  store,      \* the orders of the file
  inflight,   \* orders being dispensed
  handler,    \* where each open webhook request is
  strays,     \* dispense transactions in the mempool that nobody waits for
  requested,  \* orders the gateway may take a payment for
  payment,    \* what the gateway received for an order
  due,        \* payments whose webhook has not been answered 200
  reserve, paused, dispensed,  \* the contract
  faults,     \* faults so far
  unrecorded, \* history: dispenses whose outcome did not reach the file
  shrugged    \* history: paid orders answered 200 without being fulfilled

backend == <<up, orders, store, inflight, handler>>
gateway == <<requested, payment, due>>
contract == <<reserve, paused, dispensed>>
history == <<unrecorded, shrugged>>
vars == <<backend, strays, gateway, contract, faults, history>>

D == INSTANCE Dispenser WITH Refs <- Orders

NoOrders == [o \in Orders |-> "none"]
Idle == [at |-> "idle"]
At(h, step) == handler[h].at = step

Init ==
  /\ up = TRUE
  /\ orders = NoOrders /\ store = NoOrders
  /\ inflight = {}
  /\ handler = [h \in Handlers |-> Idle]
  /\ strays = [o \in Orders |-> 0]
  /\ requested = {}
  /\ payment = [o \in Orders |-> NoPayment]
  /\ due = {}
  /\ D!Init
  /\ faults = 0
  /\ unrecorded = [o \in Orders |-> 0]
  /\ shrugged = {}

Fault == faults < MaxFaults /\ faults' = faults + 1

-----------------------------------------------------------------------------
(* Orders and payments                                                     *)

\* save: one synchronous write of all orders.
Save(new) == orders' = new /\ store' = new

\* It throws before or after it has emptied the file.
SaveFails(new) == orders' = new /\ store' \in {store, NoOrders}

\* The order is on file before the gateway is asked for a checkout page; ids
\* are random and never come twice.  The request to the gateway may fail:
\* then nobody pays.
Create(o) ==
  /\ up /\ orders[o] = "none" /\ o \notin requested
  /\ Save([orders EXCEPT ![o] = "pending"])
  /\ requested' = requested \cup {o}
  /\ UNCHANGED <<up, inflight, handler, strays, payment, due, contract, faults,
                 history>>

\* The write fails, and may leave the file empty: the order stays in memory
\* and the gateway is never asked.
CreateFails(o) ==
  /\ up /\ orders[o] = "none" /\ o \notin requested /\ Fault
  /\ SaveFails([orders EXCEPT ![o] = "pending"])
  /\ UNCHANGED <<up, inflight, handler, strays, gateway, contract, history>>

\* External: the customer pays, and the gateway owes us a webhook.
Pay(o) ==
  /\ o \in requested /\ payment[o] = NoPayment
  /\ \E p \in Payments : payment' = [payment EXCEPT ![o] = p]
  /\ due' = due \cup {o}
  /\ UNCHANGED <<backend, strays, requested, contract, faults, history>>

-----------------------------------------------------------------------------
(* The webhook                                                             *)

\* Changed: no cross-check of amount and currency.
AcceptsAnything(p) == TRUE

\* Every field the webhook carries must match, up to the tolerance.
Accepts(p) ==
  /\ \A c \in p.currency : c = "EUR"
  /\ \A a \in p.amount : a - Eur \in Tolerated

\* The gateway hears 200 on a request it has not given up.
Answer200(o, heard) == due' = IF heard THEN due \ {o} ELSE due

\* One request per payment that is due; more than that is a fault.
Delivers(o) ==
  \/ /\ o \in due
     /\ \A h \in Handlers :
          ~At(h, "idle") => ~(handler[h].order = o /\ handler[h].heard)
     /\ UNCHANGED faults
  \/ Fault

\* Changed: webhooks do not look at the orders in flight.
NeverBusy(o) == FALSE

Busy(o) == o \in inflight

\* Up to the first await.  A payment that does not match is answered 400
\* and changes nothing: the gateway will try again.
Webhook(h, o) ==
  /\ up /\ At(h, "idle")
  /\ payment[o] # NoPayment
  /\ Delivers(o)
  /\ \/ /\ orders[o] # "pending" \/ Busy(o)
        /\ Answer200(o, TRUE)
        /\ shrugged' = IF orders[o] = "fulfilled" THEN shrugged
                       ELSE shrugged \cup {o}
        /\ UNCHANGED <<inflight, handler>>
     \/ /\ orders[o] = "pending" /\ ~Busy(o) /\ Accepts(payment[o])
        /\ inflight' = inflight \cup {o}
        /\ handler' = [handler EXCEPT
                         ![h] = [at |-> "send", order |-> o, heard |-> TRUE]]
        /\ UNCHANGED <<due, shrugged>>
  /\ UNCHANGED <<up, orders, store, strays, requested, payment, contract, unrecorded>>

\* The gateway gives up on an open request and will send another.
GatewayTimeout(h) ==
  /\ ~At(h, "idle") /\ handler[h].heard
  /\ handler' = [handler EXCEPT ![h].heard = FALSE]
  /\ UNCHANGED <<up, orders, store, inflight, strays, gateway, contract, faults,
                 history>>

\* Changed: the catch block answers 200.
ThrowOk(h) ==
  /\ inflight' = inflight \ {handler[h].order}
  /\ handler' = [handler EXCEPT ![h] = Idle]
  /\ Answer200(handler[h].order, handler[h].heard)
  /\ UNCHANGED <<up, orders, store, requested, payment, shrugged>>

\* The finally block, then 500: the gateway will try again.
Throw(h) ==
  /\ inflight' = inflight \ {handler[h].order}
  /\ handler' = [handler EXCEPT ![h] = Idle]
  /\ UNCHANGED <<up, orders, store, gateway, shrugged>>

MoveTo(h, step) ==
  /\ handler' = [handler EXCEPT ![h].at = step]
  /\ UNCHANGED <<up, orders, store, inflight, gateway, history>>

\* Changed: the order is marked before the dispense is confirmed.
SendMarked(h) ==
  /\ At(h, "send")
  /\ Save([orders EXCEPT ![handler[h].order] = "fulfilled"])
  /\ handler' = [handler EXCEPT ![h].at = "wait"]
  /\ UNCHANGED <<up, inflight, strays, gateway, contract, faults, history>>

Send(h) ==
  /\ At(h, "send")
  /\ MoveTo(h, "wait")
  /\ UNCHANGED <<strays, contract, faults>>

\* The node refuses the transaction, or two sends took the same nonce.
SendFails(h) ==
  /\ At(h, "send") /\ Fault
  /\ Throw(h)
  /\ UNCHANGED <<strays, contract, unrecorded>>

Lose(o) == unrecorded' = [unrecorded EXCEPT ![o] = @ + 1]

\* The transaction is out, but the send or the wait for its receipt fails.
OutcomeLost(h) ==
  /\ handler[h].at \in {"send", "wait", "landed"} /\ Fault
  /\ strays' = IF At(h, "landed") THEN strays
               ELSE [strays EXCEPT ![handler[h].order] = @ + 1]
  /\ Lose(handler[h].order)
  /\ Throw(h)
  /\ UNCHANGED contract

\* The mempool drops the transaction: wait has no deadline and never
\* returns, so the order stays in flight.
Dropped(h) ==
  /\ At(h, "wait") /\ Fault
  /\ handler' = [handler EXCEPT ![h] = Idle]
  /\ UNCHANGED <<up, orders, store, inflight, strays, gateway, contract, history>>

\* A block includes the transaction: the contract pays or reverts.
Mined(h) ==
  /\ At(h, "wait")
  /\ LET o == handler[h].order
     IN  \/ D!Dispense(Buyer[o], o, Gmb) /\ MoveTo(h, "landed")
         \/ /\ D!MayRevert(Buyer[o], Gmb)
            /\ MoveTo(h, "reverted") /\ UNCHANGED contract
  /\ UNCHANGED <<strays, faults>>

Reverted(h) ==
  /\ At(h, "reverted")
  /\ Throw(h)
  /\ UNCHANGED <<strays, contract, faults, unrecorded>>

Fulfil(h) ==
  /\ At(h, "landed")
  /\ LET o == handler[h].order
     IN /\ Save([orders EXCEPT ![o] = "fulfilled"])
        /\ inflight' = inflight \ {o}
        /\ Answer200(o, handler[h].heard)
  /\ handler' = [handler EXCEPT ![h] = Idle]
  /\ UNCHANGED <<up, strays, requested, payment, contract, faults, history>>

\* The status is set in memory, then the write throws.
FulfilFails(h) ==
  /\ At(h, "landed") /\ Fault
  /\ LET o == handler[h].order
     IN /\ SaveFails([orders EXCEPT ![o] = "fulfilled"])
        /\ inflight' = inflight \ {o}
        /\ Lose(o)
  /\ handler' = [handler EXCEPT ![h] = Idle]
  /\ UNCHANGED <<up, strays, gateway, contract, shrugged>>

\* External: a transaction nobody waits for is included, or dropped.
StrayMined(o) ==
  /\ strays[o] > 0
  /\ strays' = [strays EXCEPT ![o] = @ - 1]
  /\ D!Dispense(Buyer[o], o, Gmb) \/ UNCHANGED contract
  /\ UNCHANGED <<backend, gateway, faults, history>>

-----------------------------------------------------------------------------
(* Crash and restart                                                       *)

Holding(o, steps) ==
  Cardinality({h \in Handlers : handler[h].at \in steps /\ handler[h].order = o})

\* What the process was writing, if anything, is cut short.
Saving == (\E o \in Orders : orders[o] = "none") \/ \E h \in Handlers : At(h, "landed")

Crash ==
  /\ up /\ Fault
  /\ up' = FALSE
  /\ orders' = NoOrders /\ inflight' = {}
  /\ handler' = [h \in Handlers |-> Idle]
  /\ store' = store \/ (Saving /\ store' = NoOrders)
  /\ strays' = [o \in Orders |-> strays[o] + Holding(o, {"wait"})]
  /\ unrecorded' = [o \in Orders |-> unrecorded[o] + Holding(o, {"wait", "landed"})]
  /\ UNCHANGED <<gateway, contract, shrugged>>

\* load: a file that cannot be read or parsed is no orders.
Restart ==
  /\ ~up
  /\ up' = TRUE
  /\ orders' = store
  /\ UNCHANGED <<store, inflight, handler, strays, gateway, contract, faults,
                 history>>

-----------------------------------------------------------------------------
(* The owner of the contract                                               *)

Owner ==
  /\ \/ reserve + Gmb <= Stock /\ D!Fund(Gmb) /\ UNCHANGED faults
     \/ D!Unpause /\ UNCHANGED faults
     \/ D!Withdraw(Gmb) /\ Fault
     \/ D!Pause /\ Fault
  /\ UNCHANGED <<backend, strays, gateway, history>>

-----------------------------------------------------------------------------
HandlerStep(h) ==
  \/ GatewayTimeout(h)
  \/ Send(h) \/ SendFails(h) \/ OutcomeLost(h) \/ Dropped(h)
  \/ Mined(h) \/ Reverted(h) \/ Fulfil(h) \/ FulfilFails(h)

Next ==
  \/ \E o \in Orders : Create(o) \/ CreateFails(o) \/ Pay(o) \/ StrayMined(o)
  \/ \E h \in Handlers, o \in Orders : Webhook(h, o)
  \/ \E h \in Handlers : HandlerStep(h)
  \/ Crash \/ Restart
  \/ Owner

Spec == Init /\ [][Next]_vars

\* Node resumes every handler whose await is answered, the chain includes
\* what the mempool holds, the gateway calls until it is answered 200.
Fairness ==
  /\ \A h \in Handlers :
       WF_vars(Send(h)) /\ WF_vars(Mined(h)) /\ WF_vars(Reverted(h)) /\ WF_vars(Fulfil(h))
  /\ \A o \in Orders :
       WF_vars(o \in due /\ \E h \in Handlers : Webhook(h, o))

FairSpec == Spec /\ Fairness

-----------------------------------------------------------------------------
(* Properties                                                              *)

TypeOK ==
  /\ up \in BOOLEAN
  /\ {orders, store} \subseteq [Orders -> {"none", "pending", "fulfilled"}]
  /\ inflight \subseteq Orders /\ requested \subseteq Orders
  /\ due \subseteq Orders /\ shrugged \subseteq Orders
  /\ handler \in
       [Handlers ->
          {Idle} \cup [at: {"send", "wait", "landed", "reverted"},
                       order: Orders, heard: BOOLEAN]]
  /\ payment \in [Orders -> Payments \cup {NoPayment}]
  /\ strays \in [Orders -> Nat] /\ unrecorded \in [Orders -> Nat]
  /\ dispensed \in [Orders -> Nat] /\ reserve \in Nat /\ paused \in BOOLEAN
  /\ faults \in 0 .. MaxFaults

\* server.js 121-136: however the webhooks of an order overlap, repeat and
\* fail, it is paid out once, plus once for every dispense whose outcome did
\* not reach the orders file.
OncePerRecord ==
  \A o \in Orders :
    dispensed[o] + strays[o] + Holding(o, {"wait"}) <= 1 + unrecorded[o]

\* The payment is what the order costs, as far as the webhook says.
PaysFor(p) == p.currency \subseteq {"EUR"} /\ p.amount \subseteq Eur - 1 .. Eur + 1

\* server.js 116-129: GMB leaves, or is about to leave, the dispenser only
\* for an order whose payment completed with the amount and the currency of
\* the order, as far as the webhook carries them.
NothingUnpaid ==
  \A o \in Orders :
    dispensed[o] + strays[o] + Holding(o, {"send", "wait"}) > 0
      => payment[o] # NoPayment /\ PaysFor(payment[o])

\* server.js 133-134: an order is marked fulfilled, in memory or on file,
\* only when the contract has paid its buyer.
FulfilledPaidOut ==
  \A o \in Orders :
    "fulfilled" \in {orders[o], store[o]} => dispensed[o] > 0

PaidExactly(p) == p.currency \subseteq {"EUR"} /\ p.amount \subseteq {Eur}

\* server.js 116-136: once the process stays up and the dispenser stays
\* funded and unpaused, an exact payment is paid out, unless its webhook was
\* answered 200 while the order was unknown or still in flight, or the order
\* is for an address that need not take the coins (the zero address, a
\* contract): server.js 77 accepts those, and their dispense may revert for
\* ever.
Served ==
  \A o \in Orders :
    <>[](up /\ ~D!MayRevert(Buyer[o], Gmb)) =>
      (payment[o] # NoPayment /\ PaidExactly(payment[o])
         ~> dispensed[o] > 0 \/ o \in shrugged)
=============================================================================
