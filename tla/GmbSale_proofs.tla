---------------------------- MODULE GmbSale_proofs ----------------------------
(***************************************************************************)
(* Theorems about GmbSale for every set of orders, payments and webhook    *)
(* requests, and any number of faults: an order is paid out once for every *)
(* time its record was written or lost, only when it was paid for, and it  *)
(* is fulfilled only when it was paid out.  The argument rests on the set  *)
(* of orders in flight (OneEach): no two open requests serve one order.    *)
(***************************************************************************)
EXTENDS GmbSale, FiniteSetTheorems, TLAPS

\* A set with at most one element.
LEMMA UpToOne ==
  ASSUME NEW S, \A x, y \in S : x = y
  PROVE  Cardinality(S) = IF S = {} THEN 0 ELSE 1
<1>1. CASE S = {}
  BY <1>1, FS_EmptySet
<1>2. CASE S # {}
  <2>1. PICK x \in S : S = {x}
    BY <1>2
  <2> QED
    BY <1>2, <2>1, FS_Singleton
<1> QED
  BY <1>1, <1>2

-----------------------------------------------------------------------------
(* Types                                                                   *)

Steps == {"send", "wait", "landed", "reverted"}
Open  == [at: Steps, order: Orders, heard: BOOLEAN]
Status == {"none", "pending", "fulfilled"}

\* What a request that is not idle is.
LEMMA OpenRequest ==
  ASSUME TypeOK, NEW h \in Handlers, ~At(h, "idle")
  PROVE  handler[h] \in Open /\ handler[h].order \in Orders
<1>1. handler[h] \in {Idle} \cup Open
  BY DEF TypeOK, Open, Steps
<1>2. Idle.at = "idle"
  BY DEF Idle
<1> QED
  BY <1>1, <1>2 DEF At, Open

\* The part of the types that is about the backend and its file.
BackendOK ==
  /\ up \in BOOLEAN
  /\ orders \in [Orders -> Status] /\ store \in [Orders -> Status]
  /\ inflight \subseteq Orders
  /\ handler \in [Handlers -> {Idle} \cup Open]

OutsideOK ==
  /\ requested \subseteq Orders /\ due \subseteq Orders /\ shrugged \subseteq Orders
  /\ payment \in [Orders -> Payments \cup {NoPayment}]
  /\ strays \in [Orders -> Nat] /\ unrecorded \in [Orders -> Nat]
  /\ dispensed \in [Orders -> Nat] /\ reserve \in Nat /\ paused \in BOOLEAN
  /\ faults \in 0 .. MaxFaults

LEMMA TypeParts == TypeOK <=> BackendOK /\ OutsideOK
  BY DEF TypeOK, BackendOK, OutsideOK, Open, Steps, Status

LEMMA TypePartsNext == TypeOK' <=> BackendOK' /\ OutsideOK'
  BY DEF TypeOK, BackendOK, OutsideOK, Open, Steps, Status

LEMMA SaleTypeInit == Init => TypeOK
<1> SUFFICES ASSUME Init PROVE BackendOK /\ OutsideOK
  BY TypeParts
<1>1. BackendOK
  BY DEF Init, BackendOK, NoOrders, Status
<1>2. OutsideOK
  <2>1. payment \in [Orders -> Payments \cup {NoPayment}]
    BY DEF Init
  <2>2. strays \in [Orders -> Nat] /\ unrecorded \in [Orders -> Nat]
        /\ dispensed \in [Orders -> Nat]
    BY DEF Init, D!Init
  <2>3. reserve \in Nat /\ paused \in BOOLEAN /\ faults \in 0 .. MaxFaults
    <3>1. D!Init /\ faults = 0
      BY DEF Init
    <3>2. reserve = 0 /\ paused = FALSE
      BY <3>1 DEF D!Init
    <3>3. paused \in BOOLEAN
      BY <3>2
    <3>4. reserve \in Nat /\ faults \in 0 .. MaxFaults
      BY <3>1, <3>2, SaleAssumption
    <3> QED
      BY <3>3, <3>4
  <2>4. requested = {} /\ due = {} /\ shrugged = {}
    BY DEF Init
  <2> QED
    BY <2>1, <2>2, <2>3, <2>4 DEF OutsideOK
<1> QED
  BY <1>1, <1>2

LEMMA FaultTypes ==
  ASSUME faults \in 0 .. MaxFaults, Fault \/ faults' = faults
  PROVE  faults' \in 0 .. MaxFaults
  BY SaleAssumption DEF Fault

LEMMA OrderTypes ==
  ASSUME TypeOK, NEW o \in Orders,
         Create(o) \/ CreateFails(o) \/ Pay(o) \/ StrayMined(o)
  PROVE  TypeOK'
<1>0. BackendOK /\ OutsideOK
  BY TypeParts
<1>1. BackendOK'
  BY <1>0
  DEF Create, CreateFails, Pay, StrayMined, Save, SaveFails, backend, BackendOK,
      NoOrders, Status
<1>2. faults' \in 0 .. MaxFaults
  BY <1>0, FaultTypes DEF OutsideOK, Create, CreateFails, Pay, StrayMined
<1>3. OutsideOK'
  <2>1. CASE Create(o) \/ CreateFails(o) \/ Pay(o)
    BY <1>0, <1>2, <2>1
    DEF Create, CreateFails, Pay, contract, gateway, history, OutsideOK
  <2>2. CASE StrayMined(o)
    BY <1>0, <1>2, <2>2, SaleAssumption
    DEF StrayMined, gateway, contract, history, OutsideOK, D!Dispense, D!Payable
  <2> QED
    BY <2>1, <2>2
<1> QED
  BY <1>1, <1>3, TypePartsNext

LEMMA WebhookTypes ==
  ASSUME TypeOK, NEW h \in Handlers, NEW o \in Orders, Webhook(h, o)
  PROVE  TypeOK'
<1>0. BackendOK /\ OutsideOK
  BY TypeParts
<1>1. faults' \in 0 .. MaxFaults
  BY <1>0, FaultTypes DEF OutsideOK, Webhook, Delivers
<1>2. BackendOK'
  <2>1. [at |-> "send", order |-> o, heard |-> TRUE] \in Open
    BY DEF Open, Steps
  <2>2. /\ handler' \in
             {handler, [handler EXCEPT
                          ![h] = [at |-> "send", order |-> o, heard |-> TRUE]]}
        /\ inflight' \in {inflight, inflight \cup {o}}
        /\ UNCHANGED <<up, orders, store>>
    BY DEF Webhook
  <2> QED
    BY <1>0, <2>1, <2>2 DEF BackendOK
<1>3. OutsideOK'
  BY <1>0, <1>1 DEF Webhook, OutsideOK, Answer200, contract
<1> QED
  BY <1>2, <1>3, TypePartsNext

\* Every step of a request leaves it open at another step, or idle.
LEMMA HandlerTypes ==
  ASSUME TypeOK, NEW h \in Handlers, HandlerStep(h)
  PROVE  TypeOK'
<1>0. BackendOK /\ OutsideOK
  BY TypeParts
<1>1. ~At(h, "idle")
  BY DEF HandlerStep, GatewayTimeout, Send, SendFails, OutcomeLost, Dropped,
         Mined, Reverted, Fulfil, FulfilFails, At
<1>2. handler[h] \in Open /\ handler[h].order \in Orders
  BY <1>1, OpenRequest
<1>3. faults' \in 0 .. MaxFaults
  <2>1. Fault \/ faults' = faults
    BY DEF HandlerStep, GatewayTimeout, Send, SendFails, OutcomeLost, Dropped,
           Mined, Reverted, Fulfil, FulfilFails
  <2> QED
    BY <1>0, <2>1, FaultTypes DEF OutsideOK
<1>4. CASE GatewayTimeout(h)
  <2>1. BackendOK'
    BY <1>0, <1>2, <1>4 DEF GatewayTimeout, BackendOK, Open
  <2> QED
    BY <1>0, <1>3, <1>4, <2>1, TypePartsNext
    DEF GatewayTimeout, OutsideOK, gateway, contract, history
<1>5. CASE Send(h) \/ Mined(h)
  <2>1. /\ handler' \in {[handler EXCEPT ![h].at = step] : step \in Steps}
        /\ UNCHANGED <<up, orders, store, inflight, gateway, history, strays>>
    BY <1>5 DEF Send, Mined, MoveTo, Steps
  <2>2. BackendOK'
    BY <1>0, <1>2, <2>1 DEF BackendOK, Open
  <2>3. dispensed' \in [Orders -> Nat] /\ reserve' \in Nat /\ paused' \in BOOLEAN
    BY <1>0, <1>2, <1>5, SaleAssumption
    DEF Send, Mined, contract, OutsideOK, D!Dispense, D!Payable
  <2> QED
    BY <1>0, <1>3, <2>1, <2>2, <2>3, TypePartsNext
    DEF OutsideOK, gateway, history
<1>6. CASE SendFails(h) \/ OutcomeLost(h) \/ Dropped(h) \/ Reverted(h)
  <2>1. BackendOK'
    BY <1>0, <1>6
    DEF SendFails, OutcomeLost, Dropped, Reverted, Throw, BackendOK
  <2>2. OutsideOK'
    BY <1>0, <1>2, <1>3, <1>6
    DEF SendFails, OutcomeLost, Dropped, Reverted, Throw, Lose, OutsideOK,
        gateway, contract, history
  <2> QED
    BY <2>1, <2>2, TypePartsNext
<1>7. CASE Fulfil(h) \/ FulfilFails(h)
  <2>1. BackendOK'
    BY <1>0, <1>2, <1>7
    DEF Fulfil, FulfilFails, Save, SaveFails, BackendOK, NoOrders, Status
  <2>2. OutsideOK'
    BY <1>0, <1>2, <1>3, <1>7
    DEF Fulfil, FulfilFails, Lose, Answer200, OutsideOK, gateway, contract, history
  <2> QED
    BY <2>1, <2>2, TypePartsNext
<1> QED
  BY <1>4, <1>5, <1>6, <1>7 DEF HandlerStep
\* No two open requests serve the same order.
AtMostOne ==
  \A h, k \in Handlers :
    ~At(h, "idle") /\ ~At(k, "idle") /\ handler[h].order = handler[k].order
      => h = k

\* So the requests of an order at given steps are none or one.
Holds(o, steps) ==
  \E h \in Handlers : handler[h].at \in steps /\ handler[h].order = o

LEMMA HoldingNow ==
  ASSUME AtMostOne, NEW o, NEW steps, "idle" \notin steps
  PROVE  Holding(o, steps) = IF Holds(o, steps) THEN 1 ELSE 0
<1> DEFINE S == {h \in Handlers : handler[h].at \in steps /\ handler[h].order = o}
<1>1. \A x, y \in S : x = y
  BY DEF AtMostOne, At
<1>2. Cardinality(S) = IF S = {} THEN 0 ELSE 1
  BY <1>1, UpToOne
<1>3. Holds(o, steps) <=> S # {}
  BY DEF Holds
<1> QED
  BY <1>2, <1>3 DEF Holding

\* The same of the next state.
LEMMA HoldingNext ==
  ASSUME AtMostOne', NEW o, NEW steps, "idle" \notin steps
  PROVE  Holding(o, steps)' = IF Holds(o, steps)' THEN 1 ELSE 0
<1> DEFINE S == {h \in Handlers : handler'[h].at \in steps /\ handler'[h].order = o}
<1>1. \A x, y \in S : x = y
  BY DEF AtMostOne, At
<1>2. Cardinality(S) = IF S = {} THEN 0 ELSE 1
  BY <1>1, UpToOne
<1>3. Holds(o, steps)' <=> S # {}
  BY DEF Holds
<1> QED
  BY <1>2, <1>3 DEF Holding

LEMMA CrashTypes ==
  ASSUME TypeOK, AtMostOne, Crash \/ Restart \/ Owner \/ UNCHANGED vars
  PROVE  TypeOK'
<1>0. BackendOK /\ OutsideOK
  BY TypeParts
<1>1. CASE Crash
  <2>1. BackendOK'
    BY <1>0, <1>1 DEF Crash, BackendOK, NoOrders, Status
  <2>2. \A o \in Orders : /\ Holding(o, {"wait"}) \in Nat
                          /\ Holding(o, {"wait", "landed"}) \in Nat
    BY HoldingNow
  <2>3. faults' \in 0 .. MaxFaults
    BY <1>0, <1>1, FaultTypes DEF OutsideOK, Crash
  <2>4. OutsideOK'
    BY <1>0, <1>1, <2>2, <2>3 DEF Crash, OutsideOK, gateway, contract
  <2> QED
    BY <2>1, <2>4, TypePartsNext
<1>2. CASE Restart
  BY <1>0, <1>2, TypePartsNext
  DEF Restart, BackendOK, OutsideOK, gateway, contract, history
<1>3. CASE Owner
  <2>1. faults' \in 0 .. MaxFaults
    BY <1>0, <1>3, FaultTypes DEF OutsideOK, Owner
  <2>2. reserve' \in Nat /\ paused' \in BOOLEAN /\ dispensed' = dispensed
    <3>1. Gmb \in Nat /\ reserve \in Nat /\ paused \in BOOLEAN
      BY <1>0, SaleAssumption DEF OutsideOK
    <3>2. D!Fund(Gmb) \/ D!Unpause \/ D!Withdraw(Gmb) \/ D!Pause
      BY <1>3 DEF Owner
    <3>3. reserve' \in Nat /\ dispensed' = dispensed
      BY <3>1, <3>2 DEF D!Fund, D!Unpause, D!Withdraw, D!Pause
    <3>4. paused' \in BOOLEAN
      BY <3>1, <3>2 DEF D!Fund, D!Unpause, D!Withdraw, D!Pause
    <3> QED
      BY <3>3, <3>4
  <2> QED
    BY <1>0, <1>3, <2>1, <2>2, TypePartsNext
    DEF Owner, BackendOK, OutsideOK, backend, gateway, history
<1>4. CASE UNCHANGED vars
  BY <1>0, <1>4, TypePartsNext
  DEF vars, BackendOK, OutsideOK, backend, gateway, contract, history
<1> QED
  BY <1>1, <1>2, <1>3, <1>4

LEMMA SaleTypeStep ==
  ASSUME TypeOK, AtMostOne, [Next]_vars
  PROVE  TypeOK'
  BY OrderTypes, WebhookTypes, HandlerTypes, CrashTypes DEF Next

-----------------------------------------------------------------------------
(* One request for an order                                                *)

\* An open request is of a running process; its order is in flight and not
\* yet marked, and no other request serves it.
OneEach ==
  /\ \A h \in Handlers :
       ~At(h, "idle") => /\ up /\ handler[h].order \in inflight
                         /\ orders[handler[h].order] = "pending"
  /\ AtMostOne

\* A request that goes idle gives back its own order only.
LEMMA RequestEnds ==
  ASSUME TypeOK, OneEach, NEW h \in Handlers, ~At(h, "idle"),
         handler' = [handler EXCEPT ![h] = Idle], up' = up,
         inflight' \in {inflight, inflight \ {handler[h].order}},
         \A o \in Orders \ {handler[h].order} : orders'[o] = orders[o]
  PROVE  OneEach'
<1>1. handler \in [Handlers -> {Idle} \cup Open]
  BY TypeParts DEF BackendOK
<1>2. At(h, "idle")' /\ \A k \in Handlers \ {h} : handler'[k] = handler[k]
  BY <1>1 DEF At, Idle
<1>3. \A k \in Handlers \ {h} :
        ~At(k, "idle") => handler[k].order \in Orders \ {handler[h].order}
  BY OpenRequest DEF OneEach, AtMostOne
<1> QED
  BY <1>2, <1>3 DEF OneEach, AtMostOne, At

\* A request that only moves on, or is no longer heard, keeps its order.
LEMMA RequestMoves ==
  ASSUME TypeOK, OneEach, NEW h \in Handlers, ~At(h, "idle"),
         \/ \E step \in Steps : handler' = [handler EXCEPT ![h].at = step]
         \/ handler' = [handler EXCEPT ![h].heard = FALSE],
         UNCHANGED <<up, inflight, orders>>
  PROVE  OneEach'
<1>1. handler \in [Handlers -> {Idle} \cup Open] /\ handler[h] \in Open
  BY TypeParts, OpenRequest DEF BackendOK
<1>2. \A k \in Handlers \ {h} : handler'[k] = handler[k]
  BY <1>1
<1>3. handler'[h].order = handler[h].order
  BY <1>1 DEF Open
<1>4. \A k \in Handlers : ~At(k, "idle")' => ~At(k, "idle")
  BY <1>2 DEF At
<1>5. \A k \in Handlers : handler'[k].order = handler[k].order
  BY <1>2, <1>3
<1> QED
  BY <1>4, <1>5 DEF OneEach, AtMostOne

LEMMA OneEachStep ==
  ASSUME TypeOK, OneEach, [Next]_vars
  PROVE  OneEach'
<1>0. /\ orders \in [Orders -> Status]
      /\ handler \in [Handlers -> {Idle} \cup Open]
  BY TypeParts DEF BackendOK
<1>1. ASSUME NEW o \in Orders, Create(o) \/ CreateFails(o)
      PROVE  OneEach'
  <2>1. /\ orders[o] = "none" /\ orders' = [orders EXCEPT ![o] = "pending"]
        /\ UNCHANGED <<up, inflight, handler>>
    BY <1>1 DEF Create, CreateFails, Save, SaveFails
  <2>2. \A k \in Orders : orders[k] = "pending" => orders'[k] = "pending"
    BY <1>0, <2>1
  <2> QED
    BY <2>1, <2>2, OpenRequest DEF OneEach, AtMostOne, At
<1>2. ASSUME NEW h \in Handlers, NEW o \in Orders, Webhook(h, o)
      PROVE  OneEach'
  <2>1. CASE handler' = handler /\ inflight' = inflight
    BY <1>2, <2>1 DEF Webhook, OneEach, AtMostOne, At
  <2>2. CASE /\ orders[o] = "pending" /\ ~Busy(o)
             /\ inflight' = inflight \cup {o}
             /\ handler' = [handler EXCEPT
                              ![h] = [at |-> "send", order |-> o, heard |-> TRUE]]
    <3>1. /\ \A k \in Handlers \ {h} : handler'[k] = handler[k]
          /\ handler'[h].order = o /\ up /\ UNCHANGED <<up, orders>>
      BY <1>0, <1>2, <2>2 DEF Webhook
    <3>2. \A k \in Handlers \ {h} : ~At(k, "idle") => handler[k].order # o
      BY <2>2 DEF Busy, OneEach
    <3> QED
      BY <2>2, <3>1, <3>2 DEF OneEach, AtMostOne, At
  <2> QED
    BY <1>2, <2>1, <2>2 DEF Webhook
<1>3. ASSUME NEW h \in Handlers, HandlerStep(h)
      PROVE  OneEach'
  <2>1. ~At(h, "idle")
    BY <1>3
    DEF HandlerStep, GatewayTimeout, Send, SendFails, OutcomeLost, Dropped,
        Mined, Reverted, Fulfil, FulfilFails, At
  <2>2. CASE GatewayTimeout(h) \/ Send(h) \/ Mined(h)
    BY <2>1, <2>2, RequestMoves DEF GatewayTimeout, Send, Mined, MoveTo, Steps
  <2>3. CASE SendFails(h) \/ OutcomeLost(h) \/ Dropped(h) \/ Reverted(h)
    BY <2>1, <2>3, RequestEnds
    DEF SendFails, OutcomeLost, Dropped, Reverted, Throw
  <2>4. CASE Fulfil(h) \/ FulfilFails(h)
    <3>1. \A o \in Orders \ {handler[h].order} : orders'[o] = orders[o]
      BY <1>0, <2>4 DEF Fulfil, FulfilFails, Save, SaveFails
    <3> QED
      BY <2>1, <2>4, <3>1, RequestEnds DEF Fulfil, FulfilFails
  <2> QED
    BY <1>3, <2>2, <2>3, <2>4 DEF HandlerStep
<1>4. CASE Crash
  BY <1>4 DEF Crash, OneEach, AtMostOne, At, Idle
<1>5. CASE Restart
  BY <1>5 DEF Restart, OneEach, AtMostOne, At
<1>6. CASE Owner \/ UNCHANGED vars
  BY <1>6 DEF Owner, vars, backend, OneEach, AtMostOne, At
<1>7. ASSUME NEW o \in Orders, Pay(o) \/ StrayMined(o)
      PROVE  OneEach'
  BY <1>7 DEF Pay, StrayMined, backend, OneEach, AtMostOne, At
<1> QED
  BY <1>1, <1>2, <1>3, <1>4, <1>5, <1>6, <1>7 DEF Next

LEMMA OneRequestEach == Spec => [](TypeOK /\ OneEach)
<1>1. Init => TypeOK /\ OneEach
  BY SaleTypeInit DEF Init, OneEach, AtMostOne, At, Idle
<1>2. TypeOK /\ OneEach /\ [Next]_vars => TypeOK' /\ OneEach'
  BY SaleTypeStep, OneEachStep DEF OneEach
<1> QED
  BY <1>1, <1>2, PTL DEF Spec
\* The whole state of the sale stays well-typed, whatever fails and however
\* often the process crashes.
THEOREM SaleTypes == Spec => []TypeOK
  BY OneRequestEach, PTL

-----------------------------------------------------------------------------
(* Only what was paid for                                                  *)

Paid(o) == payment[o] # NoPayment /\ PaysFor(payment[o])

\* A payment is taken for a requested order only, and once; requests are open
\* and GMB is out only for orders that are paid.
PaidInv ==
  /\ \A o \in Orders : o \notin requested => payment[o] = NoPayment
  /\ \A h \in Handlers : ~At(h, "idle") => Paid(handler[h].order)
  /\ \A o \in Orders : dispensed[o] > 0 \/ strays[o] > 0 => Paid(o)

\* The cross-check of the webhook is the one of PaysFor.
LEMMA AcceptedPays ==
  ASSUME NEW p \in Payments, Accepts(p)
  PROVE  PaysFor(p)
<1>1. /\ p.amount \subseteq Int /\ p.currency \subseteq {"EUR", "other"}
      /\ Eur \in Nat /\ Tolerated \subseteq -1 .. 1
  BY SaleAssumption
<1>2. p.currency \subseteq {"EUR"}
  BY <1>1 DEF Accepts
<1>3. \A a \in p.amount : a \in Eur - 1 .. Eur + 1
  BY <1>1 DEF Accepts
<1> QED
  BY <1>2, <1>3 DEF PaysFor

\* What is open in the next state was open, for the same order.
LEMMA OpenBefore ==
  ASSUME TypeOK, NEW h \in Handlers, HandlerStep(h)
  PROVE  /\ ~At(h, "idle") /\ handler[h].order \in Orders
         /\ \A k \in Handlers \ {h} : handler'[k] = handler[k]
         /\ \A k \in Handlers : ~At(k, "idle")' =>
               ~At(k, "idle") /\ handler'[k].order = handler[k].order
<1>0. handler \in [Handlers -> {Idle} \cup Open]
  BY TypeParts DEF BackendOK
<1>1. ~At(h, "idle")
  BY DEF HandlerStep, GatewayTimeout, Send, SendFails, OutcomeLost, Dropped,
         Mined, Reverted, Fulfil, FulfilFails, At
<1>2. handler[h] \in Open /\ handler[h].order \in Orders
  BY <1>1, OpenRequest
<1>3. \/ handler' = [handler EXCEPT ![h] = Idle]
      \/ \E step \in Steps : handler' = [handler EXCEPT ![h].at = step]
      \/ handler' = [handler EXCEPT ![h].heard = FALSE]
  BY DEF HandlerStep, GatewayTimeout, Send, SendFails, OutcomeLost, Dropped,
         Mined, Reverted, Fulfil, FulfilFails, Throw, MoveTo, Steps
<1>4. \A k \in Handlers \ {h} : handler'[k] = handler[k]
  BY <1>0, <1>3
<1>5. At(h, "idle")' \/ handler'[h].order = handler[h].order
  BY <1>0, <1>2, <1>3 DEF At, Idle, Open
<1> QED
  BY <1>1, <1>2, <1>4, <1>5 DEF At

\* What one step of a request does to the outcome counts of its order.
LEMMA HandlerCounts ==
  ASSUME TypeOK, NEW h \in Handlers, HandlerStep(h)
  PROVE  /\ payment' = payment /\ requested' = requested
         /\ \A o \in Orders \ {handler[h].order} :
              /\ dispensed'[o] = dispensed[o] /\ strays'[o] = strays[o]
              /\ unrecorded'[o] = unrecorded[o]
<1>0. /\ dispensed \in [Orders -> Nat] /\ strays \in [Orders -> Nat]
      /\ unrecorded \in [Orders -> Nat]
  BY DEF TypeOK
<1> QED
  BY <1>0
  DEF HandlerStep, GatewayTimeout, Send, SendFails, OutcomeLost, Dropped, Mined,
      Reverted, Fulfil, FulfilFails, Throw, MoveTo, Lose, D!Dispense, gateway,
      contract, history

LEMMA PaidStep ==
  ASSUME TypeOK, TypeOK', OneEach, PaidInv, [Next]_vars
  PROVE  PaidInv'
<1>0. /\ dispensed \in [Orders -> Nat] /\ strays \in [Orders -> Nat]
      /\ payment \in [Orders -> Payments \cup {NoPayment}]
      /\ handler \in [Handlers -> {Idle} \cup Open]
  BY TypeParts DEF TypeOK, BackendOK
<1>1. ASSUME NEW o \in Orders, Create(o) \/ CreateFails(o)
      PROVE  PaidInv'
  BY <1>1
  DEF Create, CreateFails, gateway, contract, history, PaidInv, Paid, At
<1>2. ASSUME NEW o \in Orders, Pay(o)
      PROVE  PaidInv'
  <2>1. /\ o \in requested /\ payment[o] = NoPayment
        /\ \A k \in Orders \ {o} : payment'[k] = payment[k]
        /\ UNCHANGED <<handler, dispensed, strays, requested>>
    BY <1>0, <1>2 DEF Pay, backend, contract
  <2>2. \A k \in Orders : Paid(k) => Paid(k)'
    BY <2>1 DEF Paid
  <2> QED
    BY <2>1, <2>2, OpenRequest DEF PaidInv, At
<1>3. ASSUME NEW o \in Orders, StrayMined(o)
      PROVE  PaidInv'
  <2>1. strays[o] > 0 /\ UNCHANGED <<handler, payment, requested>>
    BY <1>3 DEF StrayMined, backend, gateway
  <2>2. \A k \in Orders \ {o} : /\ dispensed'[k] = dispensed[k]
                                /\ strays'[k] = strays[k]
    BY <1>0, <1>3 DEF StrayMined, contract, D!Dispense
  <2> QED
    BY <2>1, <2>2 DEF PaidInv, Paid, At
<1>4. ASSUME NEW h \in Handlers, NEW o \in Orders, Webhook(h, o)
      PROVE  PaidInv'
  <2>1. UNCHANGED <<payment, requested, dispensed, strays>>
    BY <1>4 DEF Webhook, contract
  <2>2. CASE handler' = handler
    BY <2>1, <2>2 DEF PaidInv, Paid, At
  <2>3. CASE /\ Accepts(payment[o])
             /\ handler' = [handler EXCEPT
                              ![h] = [at |-> "send", order |-> o, heard |-> TRUE]]
    <3>1. Paid(o)
      BY <1>0, <1>4, <2>3, AcceptedPays DEF Webhook, Paid
    <3>2. /\ handler'[h].order = o
          /\ \A k \in Handlers \ {h} : handler'[k] = handler[k]
      BY <1>0, <2>3
    <3> QED
      BY <2>1, <3>1, <3>2 DEF PaidInv, Paid, At
  <2> QED
    BY <1>4, <2>2, <2>3 DEF Webhook
<1>5. ASSUME NEW h \in Handlers, HandlerStep(h)
      PROVE  PaidInv'
  <2>1. /\ handler[h].order \in Orders /\ Paid(handler[h].order)
        /\ \A k \in Handlers : ~At(k, "idle")' =>
              ~At(k, "idle") /\ handler'[k].order = handler[k].order
    BY <1>5, OpenBefore DEF PaidInv
  <2>2. /\ payment' = payment /\ requested' = requested
        /\ \A o \in Orders \ {handler[h].order} :
             dispensed'[o] = dispensed[o] /\ strays'[o] = strays[o]
    BY <1>5, HandlerCounts
  <2> QED
    BY <2>1, <2>2 DEF PaidInv, Paid
<1>6. CASE Crash
  <2>1. /\ UNCHANGED <<payment, requested, dispensed>>
        /\ \A h \in Handlers : At(h, "idle")'
    BY <1>6 DEF Crash, gateway, contract, At, Idle
  <2>2. \A o \in Orders : strays'[o] > 0 => strays[o] > 0 \/ Holds(o, {"wait"})
    BY <1>0, <1>6, HoldingNow DEF Crash, OneEach
  <2>3. \A o \in Orders : Holds(o, {"wait"}) => Paid(o)
    BY DEF PaidInv, Holds, At
  <2> QED
    BY <2>1, <2>2, <2>3 DEF PaidInv, Paid
<1>7. CASE Restart \/ Owner \/ UNCHANGED vars
  <2>1. UNCHANGED <<payment, requested, strays, handler, dispensed>>
    BY <1>7
    DEF Restart, Owner, vars, backend, gateway, contract, D!Fund, D!Unpause,
        D!Withdraw, D!Pause
  <2> QED
    BY <2>1 DEF PaidInv, Paid, At
<1> QED
  BY <1>1, <1>2, <1>3, <1>4, <1>5, <1>6, <1>7 DEF Next

LEMMA OnlyPaid == Spec => []PaidInv
<1>1. Init => PaidInv
  BY DEF Init, PaidInv, D!Init, At, Idle
<1>2. /\ TypeOK /\ TypeOK' /\ OneEach /\ PaidInv /\ [Next]_vars
      => PaidInv'
  BY PaidStep
<1> QED
  BY <1>1, <1>2, OneRequestEach, PTL DEF Spec

\* GMB leaves the dispenser, or is on its way out of it, only for an order
\* whose completed payment matches it, however the webhooks overlap and
\* whatever fails (server.js: the checks come before the first await).
THEOREM NothingLeavesUnpaid == Spec => []NothingUnpaid
<1>1. TypeOK /\ OneEach /\ PaidInv => NothingUnpaid
  <2> SUFFICES ASSUME TypeOK, OneEach, PaidInv, NEW o \in Orders,
                      dispensed[o] + strays[o] + Holding(o, {"send", "wait"}) > 0
               PROVE  Paid(o)
    BY DEF NothingUnpaid, Paid
  <2>1. dispensed[o] \in Nat /\ strays[o] \in Nat
    BY DEF TypeOK
  <2>2. dispensed[o] > 0 \/ strays[o] > 0 \/ Holds(o, {"send", "wait"})
    BY <2>1, HoldingNow DEF OneEach
  <2>3. Holds(o, {"send", "wait"}) => Paid(o)
    BY DEF PaidInv, Holds, At
  <2> QED
    BY <2>2, <2>3 DEF PaidInv
<1> QED
  BY <1>1, OneRequestEach, OnlyPaid, PTL

-----------------------------------------------------------------------------
(* What has become of an order                                             *)

\* Of an order: its transactions waited for, its dispenses not yet recorded,
\* and all that has left the dispenser or may still leave it.
Sent(o)    == Holding(o, {"wait"})
Awaited(o) == Holding(o, {"wait", "landed"})
Out(o)     == dispensed[o] + strays[o] + Sent(o)

\* As long as an order may still be taken for unpaid, in memory or on file,
\* every dispense of it is one that was lost or one that is being awaited.
Books ==
  \A o \in Orders :
    "pending" \in {orders[o], store[o]} => Out(o) <= unrecorded[o] + Awaited(o)

LEMMA CountsNow ==
  ASSUME AtMostOne, NEW o
  PROVE  /\ Sent(o) = IF Holds(o, {"wait"}) THEN 1 ELSE 0
         /\ Awaited(o) = IF Holds(o, {"wait", "landed"}) THEN 1 ELSE 0
  BY HoldingNow DEF Sent, Awaited

LEMMA CountsNext ==
  ASSUME AtMostOne', NEW o
  PROVE  /\ Sent(o)' = IF Holds(o, {"wait"})' THEN 1 ELSE 0
         /\ Awaited(o)' = IF Holds(o, {"wait", "landed"})' THEN 1 ELSE 0
  BY HoldingNext DEF Sent, Awaited

\* With handlers unchanged, so are the counts.
LEMMA CountsKept ==
  ASSUME handler' = handler, NEW o
  PROVE  Sent(o)' = Sent(o) /\ Awaited(o)' = Awaited(o)
  BY DEF Sent, Awaited, Holding

\* Each order's counts over a step of one request.
LEMMA OrderCounts ==
  ASSUME TypeOK, OneEach, OneEach', NEW h \in Handlers, HandlerStep(h),
         NEW o \in Orders, o # handler[h].order
  PROVE  /\ Sent(o)' = Sent(o) /\ Awaited(o)' = Awaited(o)
         /\ dispensed'[o] = dispensed[o] /\ strays'[o] = strays[o]
         /\ unrecorded'[o] = unrecorded[o]
<1>1. /\ \A k \in Handlers \ {h} : handler'[k] = handler[k]
      /\ ~At(h, "idle")' => handler'[h].order = handler[h].order
  BY OpenBefore
<1>2. Holds(o, {"wait"})' <=> Holds(o, {"wait"})
  BY <1>1 DEF Holds, At
<1>3. Holds(o, {"wait", "landed"})' <=> Holds(o, {"wait", "landed"})
  BY <1>1 DEF Holds, At
<1> QED
  BY <1>2, <1>3, CountsNow, CountsNext, HandlerCounts DEF OneEach

\* The same for the order the request is for.
LEMMA OwnCounts ==
  ASSUME TypeOK, OneEach, OneEach', NEW h \in Handlers, HandlerStep(h),
         NEW o, o = handler[h].order
  PROVE  /\ Sent(o) = (IF At(h, "wait") THEN 1 ELSE 0)
         /\ Awaited(o) = (IF At(h, "wait") \/ At(h, "landed") THEN 1 ELSE 0)
         /\ Sent(o)' = (IF At(h, "wait")' THEN 1 ELSE 0)
         /\ Awaited(o)' = (IF At(h, "wait")' \/ At(h, "landed")' THEN 1 ELSE 0)
<1>1. /\ ~At(h, "idle")
      /\ \A k \in Handlers \ {h} : handler'[k] = handler[k]
      /\ ~At(h, "idle")' => handler'[h].order = handler[h].order
  BY OpenBefore
<1>2. \A k \in Handlers \ {h} : handler[k].order = o => At(k, "idle")
  BY <1>1 DEF OneEach, AtMostOne
<1>3. /\ Holds(o, {"wait"}) <=> At(h, "wait")
      /\ Holds(o, {"wait", "landed"}) <=> (At(h, "wait") \/ At(h, "landed"))
  BY <1>2 DEF Holds, At
<1>4. /\ Holds(o, {"wait"})' <=> At(h, "wait")'
      /\ Holds(o, {"wait", "landed"})' <=> (At(h, "wait")' \/ At(h, "landed")')
  BY <1>1, <1>2 DEF Holds, At
<1> QED
  BY <1>3, <1>4, CountsNow, CountsNext DEF OneEach

\* Both counts of the order a request is for, step by step.
LEMMA OwnBooks ==
  ASSUME TypeOK, TypeOK', OneEach, OneEach', Books, OncePerRecord,
         NEW h \in Handlers, HandlerStep(h), NEW o \in Orders,
         o = handler[h].order
  PROVE  /\ Out(o)' <= 1 + unrecorded'[o]
         /\ "pending" \in {orders'[o], store'[o]}
              => Out(o)' <= unrecorded'[o] + Awaited(o)'
<1>0. /\ dispensed \in [Orders -> Nat] /\ strays \in [Orders -> Nat]
      /\ unrecorded \in [Orders -> Nat]
      /\ orders \in [Orders -> Status] /\ store \in [Orders -> Status]
      /\ handler \in [Handlers -> {Idle} \cup Open] /\ handler[h] \in Open
  BY OpenBefore, OpenRequest, TypeParts DEF TypeOK, BackendOK
<1>1. Out(o) <= unrecorded[o] + Awaited(o)
  BY OpenBefore DEF Books, OneEach
<1>2. Out(o)' = dispensed'[o] + strays'[o] + Sent(o)'
      /\ Out(o) = dispensed[o] + strays[o] + Sent(o)
  BY DEF Out
<1>3. /\ dispensed[o] \in Nat /\ strays[o] \in Nat /\ unrecorded[o] \in Nat
  BY <1>0
<1>4. CASE GatewayTimeout(h)
  <2>1. /\ UNCHANGED <<orders, store, dispensed, strays, unrecorded>>
        /\ \A step \in Steps : At(h, step)' <=> At(h, step)
    BY <1>0, <1>4 DEF GatewayTimeout, contract, history, At, Open
  <2> QED
    BY <1>1, <1>2, <1>3, <2>1, OwnCounts DEF Steps
<1>5. CASE Send(h)
  <2>1. /\ UNCHANGED <<orders, store, dispensed, strays, unrecorded>>
        /\ At(h, "send") /\ At(h, "wait")'
    BY <1>0, <1>5 DEF Send, MoveTo, contract, history, At, Open
  <2>2. ~At(h, "wait") /\ ~At(h, "landed")
    BY <2>1 DEF At
  <2> QED
    BY <1>1, <1>2, <1>3, <2>1, <2>2, OwnCounts
<1>6. CASE Mined(h)
  <2>1. /\ UNCHANGED <<orders, store, strays, unrecorded>> /\ At(h, "wait")
        /\ \/ At(h, "landed")' /\ dispensed'[o] = dispensed[o] + 1
           \/ At(h, "reverted")' /\ dispensed' = dispensed
    BY <1>0, <1>6
    DEF Mined, MoveTo, contract, history, At, Open, D!Dispense
  <2>2. ~At(h, "wait")' /\ (At(h, "reverted")' => ~At(h, "landed")')
    BY <2>1 DEF At
  <2> QED
    BY <1>1, <1>2, <1>3, <2>1, <2>2, OwnCounts
<1>7. CASE SendFails(h) \/ Dropped(h) \/ Reverted(h)
  <2>1. /\ UNCHANGED <<orders, store, dispensed, strays, unrecorded>>
        /\ At(h, "idle")' /\ ~At(h, "landed")
    BY <1>0, <1>7
    DEF SendFails, Dropped, Reverted, Throw, contract, history, At, Idle
  <2>2. ~At(h, "wait")' /\ ~At(h, "landed")'
    BY <2>1 DEF At
  <2> QED
    BY <1>1, <1>2, <1>3, <2>1, <2>2, OwnCounts
<1>8. CASE OutcomeLost(h)
  <2>1. /\ UNCHANGED <<orders, store, dispensed>>
        /\ unrecorded'[o] = unrecorded[o] + 1 /\ At(h, "idle")'
        /\ strays'[o] = IF At(h, "landed") THEN strays[o] ELSE strays[o] + 1
    BY <1>0, <1>8 DEF OutcomeLost, Throw, Lose, contract, At, Idle
  <2>2. /\ ~At(h, "wait")' /\ ~At(h, "landed")'
        /\ At(h, "landed") => ~At(h, "wait")
    BY <2>1 DEF At
  <2> QED
    BY <1>1, <1>2, <1>3, <2>1, <2>2, OwnCounts
<1>9. CASE Fulfil(h)
  <2>1. /\ UNCHANGED <<dispensed, strays, unrecorded>>
        /\ orders'[o] = "fulfilled" /\ store'[o] = "fulfilled"
        /\ At(h, "landed") /\ At(h, "idle")'
    BY <1>0, <1>9 DEF Fulfil, Save, contract, history, At, Idle
  <2>2. /\ ~At(h, "wait")' /\ ~At(h, "landed")' /\ ~At(h, "wait")
    BY <2>1 DEF At
  <2> QED
    BY <1>1, <1>2, <1>3, <2>1, <2>2, OwnCounts
<1>10. CASE FulfilFails(h)
  <2>1. /\ UNCHANGED <<dispensed, strays>>
        /\ unrecorded'[o] = unrecorded[o] + 1
        /\ At(h, "landed") /\ At(h, "idle")'
    BY <1>0, <1>10 DEF FulfilFails, Lose, contract, At, Idle
  <2>2. /\ ~At(h, "wait")' /\ ~At(h, "landed")' /\ ~At(h, "wait")
    BY <2>1 DEF At
  <2> QED
    BY <1>1, <1>2, <1>3, <2>1, <2>2, OwnCounts
<1> QED
  BY <1>4, <1>5, <1>6, <1>7, <1>8, <1>9, <1>10 DEF HandlerStep
LEMMA BooksStep ==
  ASSUME TypeOK, TypeOK', OneEach, OneEach', PaidInv, Books, OncePerRecord,
         [Next]_vars
  PROVE  Books' /\ OncePerRecord'
<1>0. /\ dispensed \in [Orders -> Nat] /\ strays \in [Orders -> Nat]
      /\ unrecorded \in [Orders -> Nat]
      /\ orders \in [Orders -> Status] /\ store \in [Orders -> Status]
      /\ handler \in [Handlers -> {Idle} \cup Open]
  BY TypeParts DEF TypeOK, BackendOK
<1>1. \A o : Out(o) = dispensed[o] + strays[o] + Sent(o)
      /\ Out(o)' = dispensed'[o] + strays'[o] + Sent(o)'
  BY DEF Out
<1>2. \A o \in Orders : Out(o) <= 1 + unrecorded[o]
  BY <1>1 DEF OncePerRecord, Sent
<1>3. SUFFICES ASSUME NEW o \in Orders
               PROVE  /\ Out(o)' <= 1 + unrecorded'[o]
                      /\ "pending" \in {orders'[o], store'[o]}
                           => Out(o)' <= unrecorded'[o] + Awaited(o)'
  BY <1>1 DEF Books, OncePerRecord, Sent
<1>4. /\ dispensed[o] \in Nat /\ strays[o] \in Nat /\ unrecorded[o] \in Nat
  BY <1>0
<1>5. /\ Sent(o) = IF Holds(o, {"wait"}) THEN 1 ELSE 0
      /\ Awaited(o) = IF Holds(o, {"wait", "landed"}) THEN 1 ELSE 0
  BY CountsNow DEF OneEach
<1>6. ASSUME UNCHANGED <<handler, dispensed, strays, unrecorded>>,
             "pending" \in {orders'[o], store'[o]}
               => "pending" \in {orders[o], store[o]}
      PROVE  /\ Out(o)' <= 1 + unrecorded'[o]
             /\ "pending" \in {orders'[o], store'[o]}
                  => Out(o)' <= unrecorded'[o] + Awaited(o)'
  BY <1>1, <1>2, <1>6, CountsKept DEF Books
<1>7. ASSUME NEW n \in Orders, Create(n) \/ CreateFails(n)
      PROVE  /\ Out(o)' <= 1 + unrecorded'[o]
             /\ "pending" \in {orders'[o], store'[o]}
                  => Out(o)' <= unrecorded'[o] + Awaited(o)'
  <2>1. /\ UNCHANGED <<handler, dispensed, strays, unrecorded>>
        /\ n \notin requested /\ orders' = [orders EXCEPT ![n] = "pending"]
        /\ store' \in {orders', store, NoOrders}
    BY <1>7 DEF Create, CreateFails, Save, SaveFails, contract, history
  <2>2. CASE o = n
    <3>1. payment[o] = NoPayment
      BY <2>1, <2>2 DEF PaidInv
    <3>2. dispensed[o] = 0 /\ strays[o] = 0
      BY <1>4, <3>1 DEF PaidInv, Paid
    <3>3. Sent(o) = 0
      BY <1>5, <3>1 DEF PaidInv, Paid, Holds, At
    <3>4. Awaited(o)' \in Nat /\ Sent(o)' = Sent(o)
      BY <1>5, <2>1, CountsKept
    <3> QED
      BY <1>1, <1>4, <2>1, <3>2, <3>3, <3>4
  <2>3. CASE o # n
    BY <1>0, <1>6, <2>1, <2>3 DEF NoOrders
  <2> QED
    BY <2>2, <2>3
<1>8. ASSUME NEW n \in Orders, StrayMined(n)
      PROVE  /\ Out(o)' <= 1 + unrecorded'[o]
             /\ "pending" \in {orders'[o], store'[o]}
                  => Out(o)' <= unrecorded'[o] + Awaited(o)'
  <2>1. /\ UNCHANGED <<handler, orders, store, unrecorded>>
        /\ dispensed'[o] + strays'[o] <= dispensed[o] + strays[o]
        /\ dispensed'[o] \in Nat /\ strays'[o] \in Nat
    BY <1>0, <1>8 DEF StrayMined, backend, history, contract, D!Dispense, TypeOK
  <2>2. Sent(o)' = Sent(o) /\ Awaited(o)' = Awaited(o)
    BY <2>1, CountsKept
  <2> QED
    BY <1>1, <1>2, <1>4, <1>5, <2>1, <2>2 DEF Books
<1>9. ASSUME NEW h \in Handlers, NEW n \in Orders, Webhook(h, n)
      PROVE  /\ Out(o)' <= 1 + unrecorded'[o]
             /\ "pending" \in {orders'[o], store'[o]}
                  => Out(o)' <= unrecorded'[o] + Awaited(o)'
  <2>1. UNCHANGED <<orders, store, dispensed, strays, unrecorded>> /\ At(h, "idle")
    BY <1>9 DEF Webhook, contract
  <2>2. CASE handler' = handler
    BY <1>6, <2>1, <2>2
  <2>3. CASE handler' = [handler EXCEPT
                           ![h] = [at |-> "send", order |-> n, heard |-> TRUE]]
    <3>1. /\ handler'[h].at = "send"
          /\ \A k \in Handlers \ {h} : handler'[k] = handler[k]
      BY <1>0, <2>3
    <3>2. /\ Holds(o, {"wait"})' <=> Holds(o, {"wait"})
          /\ Holds(o, {"wait", "landed"})' <=> Holds(o, {"wait", "landed"})
      BY <2>1, <3>1 DEF Holds, At
    <3>3. Sent(o)' = Sent(o) /\ Awaited(o)' = Awaited(o)
      BY <1>5, <3>2, CountsNext DEF OneEach
    <3> QED
      BY <1>1, <1>2, <1>4, <2>1, <3>3 DEF Books
  <2> QED
    BY <1>9, <2>2, <2>3 DEF Webhook
<1>10. ASSUME NEW h \in Handlers, HandlerStep(h)
       PROVE  /\ Out(o)' <= 1 + unrecorded'[o]
              /\ "pending" \in {orders'[o], store'[o]}
                   => Out(o)' <= unrecorded'[o] + Awaited(o)'
  <2>1. CASE o = handler[h].order
    BY <1>10, <2>1, OwnBooks
  <2>2. CASE o # handler[h].order
    <3>1. /\ Sent(o)' = Sent(o) /\ Awaited(o)' = Awaited(o)
          /\ dispensed'[o] = dispensed[o] /\ strays'[o] = strays[o]
          /\ unrecorded'[o] = unrecorded[o]
      BY <1>10, <2>2, OrderCounts
    <3>2. \/ UNCHANGED <<orders, store>>
          \/ \E n \in Orders \ {o} :
               /\ orders' = [orders EXCEPT ![n] = "fulfilled"]
               /\ store' \in {orders', store, NoOrders}
      BY <1>10, <2>2, OpenBefore
      DEF HandlerStep, GatewayTimeout, Send, SendFails, OutcomeLost, Dropped,
          Mined, Reverted, Fulfil, FulfilFails, Throw, MoveTo, Save, SaveFails
    <3>3. "pending" \in {orders'[o], store'[o]}
            => "pending" \in {orders[o], store[o]}
      BY <1>0, <3>2 DEF NoOrders
    <3> QED
      BY <1>1, <1>2, <1>4, <3>1, <3>3 DEF Books
  <2> QED
    BY <2>1, <2>2
<1>11. CASE Crash
  <2>1. /\ dispensed' = dispensed /\ orders'[o] = "none"
        /\ strays'[o] = strays[o] + Sent(o)
        /\ unrecorded'[o] = unrecorded[o] + Awaited(o)
        /\ store' \in {store, NoOrders} /\ \A h \in Handlers : At(h, "idle")'
    BY <1>0, <1>11 DEF Crash, contract, NoOrders, At, Idle, Sent, Awaited
  <2>2. ~Holds(o, {"wait"})' /\ ~Holds(o, {"wait", "landed"})'
    BY <2>1 DEF Holds, At
  <2>3. Sent(o)' = 0 /\ Awaited(o)' = 0
    BY <2>2, CountsNext DEF OneEach
  <2>4. "pending" \in {orders'[o], store'[o]}
          => "pending" \in {orders[o], store[o]}
    BY <2>1 DEF NoOrders
  <2> QED
    BY <1>1, <1>2, <1>4, <1>5, <2>1, <2>3, <2>4 DEF Books
<1>12. CASE Restart
  BY <1>6, <1>12 DEF Restart, contract, history
<1>13. CASE Owner \/ UNCHANGED vars \/ \E n \in Orders : Pay(n)
  <2>1. UNCHANGED <<handler, dispensed, strays, unrecorded, orders, store>>
    BY <1>13
    DEF Owner, vars, Pay, backend, contract, history, D!Fund, D!Unpause,
        D!Withdraw, D!Pause
  <2> QED
    BY <1>6, <2>1
<1> QED
  BY <1>7, <1>8, <1>9, <1>10, <1>11, <1>12, <1>13 DEF Next

LEMMA BooksHold == Spec => [](Books /\ OncePerRecord)
<1>1. Init => Books /\ OncePerRecord
  <2> SUFFICES ASSUME Init, NEW o \in Orders
               PROVE  Out(o) <= 1 + unrecorded[o] /\ orders[o] = "none"
                      /\ store[o] = "none"
    BY DEF Books, OncePerRecord, Out, Sent
  <2>1. AtMostOne /\ ~Holds(o, {"wait"})
    BY DEF Init, AtMostOne, At, Idle, Holds
  <2>2. Sent(o) = 0
    BY <2>1, CountsNow
  <2>3. dispensed[o] = 0 /\ strays[o] = 0 /\ unrecorded[o] = 0
    BY DEF Init, D!Init
  <2> QED
    BY <2>2, <2>3 DEF Init, NoOrders, Out
<1>2. /\ TypeOK /\ TypeOK' /\ OneEach /\ OneEach' /\ PaidInv
      /\ Books /\ OncePerRecord /\ [Next]_vars
      => Books' /\ OncePerRecord'
  BY BooksStep
<1> QED
  BY <1>1, <1>2, OneRequestEach, OnlyPaid, PTL DEF Spec

\* However webhooks repeat and overlap and whatever fails or crashes, an order
\* is paid out once, plus once for each dispense whose outcome was lost on its
\* way to the orders file (server.js: the set of orders in flight, the status
\* check, the write after the receipt).
THEOREM OrdersPaidOncePerRecord == Spec => []OncePerRecord
  BY BooksHold, PTL

-----------------------------------------------------------------------------
(* Fulfilled is paid out                                                   *)

\* A request that is past the receipt has paid its order.
FulfilInv ==
  /\ \A h \in Handlers : At(h, "landed") => dispensed[handler[h].order] > 0
  /\ FulfilledPaidOut

LEMMA FulfilStep ==
  ASSUME TypeOK, TypeOK', FulfilInv, [Next]_vars
  PROVE  FulfilInv'
<1>0. /\ dispensed \in [Orders -> Nat]
      /\ orders \in [Orders -> Status] /\ store \in [Orders -> Status]
      /\ handler \in [Handlers -> {Idle} \cup Open]
  BY TypeParts DEF TypeOK, BackendOK
<1>1. ASSUME UNCHANGED dispensed,
             \A h \in Handlers : At(h, "landed")' =>
               At(h, "landed") /\ handler'[h].order = handler[h].order,
             \A o \in Orders : "fulfilled" \in {orders'[o], store'[o]} =>
               \/ "fulfilled" \in {orders[o], store[o]}
               \/ \E h \in Handlers : At(h, "landed") /\ handler[h].order = o
      PROVE  FulfilInv'
  BY <1>1 DEF FulfilInv, FulfilledPaidOut
<1>2. ASSUME NEW o \in Orders, Create(o) \/ CreateFails(o)
      PROVE  FulfilInv'
  <2>1. /\ UNCHANGED <<dispensed, handler>>
        /\ orders' = [orders EXCEPT ![o] = "pending"]
        /\ store' \in {orders', store, NoOrders}
    BY <1>2 DEF Create, CreateFails, Save, SaveFails, contract
  <2>2. \A k \in Orders : "fulfilled" \in {orders'[k], store'[k]} =>
          "fulfilled" \in {orders[k], store[k]}
    BY <1>0, <2>1 DEF NoOrders
  <2> QED
    BY <2>1, <2>2, <1>1 DEF At
<1>3. ASSUME NEW o \in Orders, StrayMined(o)
      PROVE  FulfilInv'
  <2>1. /\ UNCHANGED <<handler, orders, store>>
        /\ \A k \in Orders : dispensed[k] > 0 => dispensed'[k] > 0
    BY <1>0, <1>3 DEF StrayMined, backend, contract, D!Dispense
  <2>2. \A h \in Handlers : At(h, "landed") => handler[h].order \in Orders
    BY OpenRequest DEF At
  <2> QED
    BY <2>1, <2>2 DEF FulfilInv, FulfilledPaidOut, At
<1>4. ASSUME NEW h \in Handlers, NEW o \in Orders, Webhook(h, o)
      PROVE  FulfilInv'
  <2>1. /\ UNCHANGED <<orders, store, dispensed>>
        /\ \/ handler' = handler
           \/ handler' = [handler EXCEPT
                            ![h] = [at |-> "send", order |-> o, heard |-> TRUE]]
    BY <1>4 DEF Webhook, contract
  <2>2. \A k \in Handlers : At(k, "landed")' =>
          At(k, "landed") /\ handler'[k].order = handler[k].order
    BY <1>0, <2>1 DEF At
  <2> QED
    BY <1>1, <2>1, <2>2
<1>5. ASSUME NEW h \in Handlers, HandlerStep(h)
      PROVE  FulfilInv'
  <2>0. /\ ~At(h, "idle") /\ handler[h].order \in Orders /\ handler[h] \in Open
        /\ \A k \in Handlers \ {h} : handler'[k] = handler[k]
    BY <1>5, OpenBefore, OpenRequest
  <2>1. CASE Mined(h)
    <3>1. UNCHANGED <<orders, store>>
          /\ \/ /\ dispensed' = [dispensed EXCEPT ![handler[h].order] = @ + 1]
                /\ handler' = [handler EXCEPT ![h].at = "landed"]
             \/ /\ dispensed' = dispensed
                /\ handler' = [handler EXCEPT ![h].at = "reverted"]
      BY <2>1 DEF Mined, MoveTo, contract, D!Dispense
    <3>2. \A k \in Orders : dispensed[k] > 0 => dispensed'[k] > 0
      BY <1>0, <3>1
    <3>3. At(h, "landed")' => dispensed'[handler'[h].order] > 0
      BY <1>0, <2>0, <3>1 DEF At, Open
    <3>4. \A k \in Handlers : At(k, "landed") => handler[k].order \in Orders
      BY OpenRequest DEF At
    <3> QED
      BY <2>0, <3>1, <3>2, <3>3, <3>4 DEF FulfilInv, FulfilledPaidOut, At
  <2>2. CASE Fulfil(h) \/ FulfilFails(h)
    <3>1. /\ At(h, "landed") /\ dispensed' = dispensed /\ At(h, "idle")'
          /\ orders' = [orders EXCEPT ![handler[h].order] = "fulfilled"]
          /\ store' \in {orders', store, NoOrders}
      BY <1>0, <2>2
      DEF Fulfil, FulfilFails, Save, SaveFails, contract, At, Idle
    <3>2. \A k \in Orders : "fulfilled" \in {orders'[k], store'[k]} =>
            "fulfilled" \in {orders[k], store[k]} \/ handler[h].order = k
      BY <1>0, <3>1 DEF NoOrders
    <3> QED
      BY <1>1, <2>0, <3>1, <3>2 DEF At
  <2>3. CASE \/ GatewayTimeout(h) \/ Send(h) \/ SendFails(h) \/ OutcomeLost(h)
             \/ Dropped(h) \/ Reverted(h)
    <3>1. /\ UNCHANGED <<orders, store, dispensed>>
          /\ \/ handler' = [handler EXCEPT ![h] = Idle]
             \/ handler' = [handler EXCEPT ![h].at = "wait"]
             \/ handler' = [handler EXCEPT ![h].heard = FALSE]
      BY <2>3
      DEF GatewayTimeout, Send, SendFails, OutcomeLost, Dropped, Reverted,
          Throw, MoveTo, contract
    <3>2. At(h, "landed")' =>
            At(h, "landed") /\ handler'[h].order = handler[h].order
      BY <1>0, <2>0, <3>1 DEF At, Idle, Open
    <3> QED
      BY <1>1, <2>0, <3>1, <3>2 DEF At
  <2> QED
    BY <1>5, <2>1, <2>2, <2>3 DEF HandlerStep
<1>6. CASE Crash
  <2>1. /\ UNCHANGED dispensed /\ orders' = NoOrders
        /\ store' \in {store, NoOrders} /\ \A h \in Handlers : ~At(h, "landed")'
    BY <1>6 DEF Crash, contract, At, Idle
  <2>2. \A k \in Orders : "fulfilled" \in {orders'[k], store'[k]} =>
          "fulfilled" \in {orders[k], store[k]}
    BY <2>1 DEF NoOrders
  <2> QED
    BY <1>1, <2>1, <2>2
<1>7. CASE Restart
  BY <1>1, <1>7 DEF Restart, contract, At
<1>8. CASE Owner \/ UNCHANGED vars \/ \E o \in Orders : Pay(o)
  <2>1. UNCHANGED <<handler, dispensed, orders, store>>
    BY <1>8
    DEF Owner, vars, Pay, backend, contract, D!Fund, D!Unpause, D!Withdraw,
        D!Pause
  <2> QED
    BY <1>1, <2>1 DEF At
<1> QED
  BY <1>2, <1>3, <1>4, <1>5, <1>6, <1>7, <1>8 DEF Next

\* An order is marked fulfilled, in memory or on file, only once the contract
\* has paid its buyer (server.js: the status is written after the receipt).
THEOREM FulfilledIsPaidOut == Spec => []FulfilledPaidOut
<1>1. Init => FulfilInv
  BY DEF Init, FulfilInv, FulfilledPaidOut, NoOrders, At, Idle
<1>2. TypeOK /\ TypeOK' /\ FulfilInv /\ [Next]_vars => FulfilInv'
  BY FulfilStep
<1>3. FulfilInv => FulfilledPaidOut
  BY DEF FulfilInv
<1> QED
  BY <1>1, <1>2, <1>3, SaleTypes, PTL DEF Spec
=============================================================================
