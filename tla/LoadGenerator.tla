---------------------------- MODULE LoadGenerator ----------------------------
(***************************************************************************)
(* The load generators (endurance/, stress/): a pump signs transactions of *)
(* a pool of wallets with nonces it keeps itself, sends them without       *)
(* waiting, and learns what became of them from the blocks, from a sweep   *)
(* for the overdue and from a queue of receipts.                           *)
(*                                                                         *)
(* The endurance run promises that nothing it sends is refused: what an    *)
(* operation makes is spent only once it is confirmed.  It asks several    *)
(* nodes for a block, sends an overdue transaction once more and applies   *)
(* effects; the stress run does none of that.  Time is not modelled: a     *)
(* transaction may be overdue whenever it is swept, and a run may end      *)
(* whatever is still under way (Stop).                                     *)
(***************************************************************************)
EXTENDS Integers, FiniteSets, Workload

CONSTANTS
  Wallets, Profiles,   \* the wallets; pairs of a harness and its mix
  CAP, Concurrency,    \* per wallet; of the submits under way
  MaxNonce, MaxHeight, MaxFaults   \* bounds: chain and failures

ASSUME LoadAssumption ==
  /\ IsFiniteSet(Wallets) /\ CAP \in Nat \ {0} /\ Concurrency \in Nat \ {0}
  /\ MaxNonce \in Nat /\ MaxHeight \in Nat /\ MaxFaults \in Nat
  /\ \A p \in Profiles : p.harness \in {"endurance", "stress"} /\ p.mix \subseteq opNames

VARIABLES
  running,              \* the pump and the collector have not been stopped
  profile,              \* [harness |-> "endurance" or "stress", mix |-> ...]
  waiting,              \* the pump holds this wallet's turn until a slot is free
  next, inflight,       \* nonceManager
  tx,                   \* what was signed, by wallet and nonce
  stock,                \* ctx: what the wallets own as far as it is confirmed
  permitNonce, permitInFlight, permitRead,  \* ctx: permits, and reads under way
  lastBlock,            \* receiptCollector
  head, mined, pool, held, permits,  \* the chain
  faults,
  reused                \* history: a nonce was signed twice

client == <<running, profile, waiting, next, inflight, tx, stock, permitNonce,
            permitInFlight, permitRead, lastBlock>>
chain == <<head, mined, pool, held, permits>>
vars == <<client, chain, faults, reused>>

Endurance == profile.harness = "endurance"
Mix == profile.mix
Def(op) == IF Endurance THEN defs(op) ELSE stressDefs(op)

First == 1       \* the nonce every wallet comes with
Nonces == 0 .. MaxNonce
Txs == Wallets \X Nonces
Kinds == UNION {Def(op).needs \cup Def(op).gives : op \in Mix}
Unread == 0 - 1  \* no read of the chain under way

Unsigned == [op |-> "none", st |-> "none", of |-> "none", permit |-> 0,
             block |-> 0, good |-> FALSE, since |-> 0, low |-> 0]

TheTx(t) == tx[t[1]][t[2]]
At(t, st) == TheTx(t).st = st
Fault == faults < MaxFaults /\ faults' = faults + 1

\* The first read of every nonce; one that fails leaves the nonce at 0.
NoncesRead == [Wallets -> {0, First}]

\* A run knows of nothing that a wallet owns.
Nothing == [w \in Wallets |-> [k \in Kinds |-> 0]]

Init ==
  /\ running = TRUE /\ profile \in Profiles /\ waiting = {}
  /\ next \in NoncesRead
  /\ inflight = [w \in Wallets |-> 0]
  /\ tx = [w \in Wallets |-> [n \in Nonces |-> Unsigned]]
  /\ stock = Nothing
  /\ permitInFlight \in [Wallets -> IF "permit" \in Mix THEN BOOLEAN ELSE {FALSE}]
  /\ permitNonce = [w \in Wallets |-> 0]
  /\ permitRead = [w \in Wallets |-> IF permitInFlight[w] THEN 0 ELSE Unread]
  /\ lastBlock = 0
  /\ head = 0 /\ mined = [w \in Wallets |-> First] /\ pool = {}
  /\ held = Nothing
  /\ permits = [w \in Wallets |-> 0]
  /\ faults = 0 /\ reused = FALSE

-----------------------------------------------------------------------------
(* nonceManager                                                            *)

canSend(w) == inflight[w] < CAP

Settled(w) == IF inflight[w] > 0 THEN inflight[w] - 1 ELSE 0

\* Changed: the nonce goes back to what is mined.
Rewound(w, n) == n

\* The nonce after a read of n: never back.
Forward(w, n) == IF next[w] > n THEN next[w] ELSE n

resync(w, n) ==
  /\ next' = [next EXCEPT ![w] = Forward(w, n)]
  /\ inflight' = [inflight EXCEPT ![w] = Forward(w, n) - n]

settle(w) == inflight' = [inflight EXCEPT ![w] = Settled(w)]

-----------------------------------------------------------------------------
(* fireOne                                                                 *)

Sending == {t \in Txs : At(t, "sending") \/ At(t, "nonce")}

\* The semaphore lets one more submit go.
Free == Cardinality(Sending) < Concurrency

\* The pump fires for a wallet below its cap; the one it waited with keeps its
\* turn.
HasTurn(w) == IF waiting = {} THEN canSend(w) ELSE w \in waiting

Owners(w, op) ==
  CASE Def(op).whose = "own" -> {w}
    [] Def(op).whose = "others" -> Wallets \ {w}
    [] OTHER -> Wallets

Needed(op) == IF Def(op).takes > 0 THEN Def(op).takes ELSE 1
Least(op) == IF Endurance THEN Needed(op) ELSE KeptBack(op)

\* Whether an operation can be built for a wallet, from the stock of one owner,
\* who is the spender of a permit.
Ready(w, op, owner) ==
  /\ owner \in Owners(w, op)
  /\ \A k \in Def(op).needs : stock[owner][k] >= Least(op)
  /\ op = "permit" => ~permitInFlight[w]

\* What is used up is taken when the transaction is built; the stress run
\* counts what is made by then, too.
Built(w, op, owner) ==
  LET taken == [stock EXCEPT ![owner] =
        [k \in Kinds |-> IF k \in Def(op).needs THEN @[k] - Def(op).takes ELSE @[k]]]
  IN IF Endurance THEN taken
     ELSE [taken EXCEPT ![w] =
             [k \in Kinds |-> IF k \in Def(op).gives THEN @[k] + Def(op).adds ELSE @[k]]]

\* Who has what the transaction x of v makes.
Receiver(x, v) == IF x.op = "permit" THEN x.of ELSE v

\* Changed: what is made counts whatever became of the transaction.
AppliedAnyhow(t, ok) ==
  LET op == Def(TheTx(t).op) IN
  [stock EXCEPT ![Receiver(TheTx(t), t[1])] =
     [k \in Kinds |-> IF k \in op.gives THEN @[k] + op.adds ELSE @[k]]]

\* What is made counts once the transaction has succeeded.
Applied(t, ok) ==
  LET op == Def(TheTx(t).op) IN
  IF ~ok THEN stock
  ELSE [stock EXCEPT ![Receiver(TheTx(t), t[1])] =
          [k \in Kinds |-> IF k \in op.gives THEN @[k] + op.adds ELSE @[k]]]

\* The pump has a wallet whose turn it is, and all slots are taken.
Waits(w) ==
  /\ running /\ waiting = {} /\ HasTurn(w) /\ ~Free
  /\ waiting' = {w}
  /\ UNCHANGED <<running, profile, next, inflight, tx, stock, permitNonce,
                 permitInFlight, permitRead, lastBlock, chain, faults, reused>>

\* A slot, an operation that is ready, a nonce.
Fires(w, op, owner) ==
  LET n == next[w] IN
  /\ running /\ HasTurn(w) /\ Free
  /\ Ready(w, op, owner) /\ n <= MaxNonce
  /\ waiting' = {}
  /\ next' = [next EXCEPT ![w] = n + 1]
  /\ inflight' = [inflight EXCEPT ![w] = @ + 1]
  /\ reused' = (reused \/ tx[w][n].st # "none")
  /\ tx' = [tx EXCEPT ![w][n] =
              [Unsigned EXCEPT !.op = op, !.st = "sending", !.of = owner,
                               !.permit = permitNonce[w]]]
  /\ stock' = Built(w, op, owner)
  /\ permitNonce' = IF op = "permit" THEN [permitNonce EXCEPT ![w] = @ + 1]
                    ELSE permitNonce
  /\ permitInFlight' = IF op = "permit" THEN [permitInFlight EXCEPT ![w] = TRUE]
                       ELSE permitInFlight
  /\ UNCHANGED <<running, profile, permitRead, lastBlock, chain, faults>>

Put(t, x) == tx' = [tx EXCEPT ![t[1]][t[2]] = x]
Becomes(t, st) == Put(t, [TheTx(t) EXCEPT !.st = st])

\* Changed: a permit that came to nothing leaves its owner as it is.
KeepsPermit(t) == UNCHANGED <<permitInFlight, permitRead>>

\* A permit that came to nothing frees its owner and asks for the nonce again.
FreesPermit(t) ==
  IF TheTx(t).op = "permit"
  THEN /\ permitInFlight' = [permitInFlight EXCEPT ![t[1]] = FALSE]
       /\ permitRead' = [permitRead EXCEPT ![t[1]] = permits[t[1]]]
  ELSE UNCHANGED <<permitInFlight, permitRead>>

\* External: a node takes a transaction into its pool, before or without an
\* answer; one whose nonce is still to come waits there.
Lands(t) ==
  /\ At(t, "sending") /\ t \notin pool /\ t[2] >= mined[t[1]]
  /\ pool' = pool \cup {t}
  /\ UNCHANGED <<client, head, mined, held, permits, faults, reused>>

\* The node answers, or says that it knows the transaction: it is tracked.
Answered(t) ==
  /\ At(t, "sending")
  /\ t \in pool \/ TheTx(t).block > 0
  /\ Put(t, [TheTx(t) EXCEPT !.st = "tracked", !.since = lastBlock])
  /\ UNCHANGED <<running, profile, waiting, next, inflight, stock, permitNonce,
                 permitInFlight, permitRead, lastBlock, chain, faults, reused>>

\* "nonce": another transaction had it, or an attempt whose answer was lost has
\* been mined.  The nonce is read again before fireOne goes on.
NonceError(t) ==
  /\ At(t, "sending") /\ mined[t[1]] > t[2]
  /\ IF TheTx(t).block = 0 THEN UNCHANGED faults
     ELSE Endurance /\ Fault
  /\ Put(t, [TheTx(t) EXCEPT !.st = "nonce", !.low = mined[t[1]]])
  /\ UNCHANGED <<running, profile, waiting, next, inflight, stock, permitNonce,
                 permitInFlight, permitRead, lastBlock, chain, reused>>

\* The read lands, or fails; the transaction is dropped.
Dropped(t) ==
  LET w == t[1] IN
  /\ At(t, "nonce")
  /\ \/ /\ \E n \in TheTx(t).low .. mined[w] :
             /\ next' = [next EXCEPT ![w] = Forward(w, n)]
             /\ inflight' = [inflight EXCEPT ![w] =
                               IF Forward(w, n) > n THEN Forward(w, n) - n - 1 ELSE 0]
        /\ UNCHANGED faults
     \/ Fault /\ settle(w) /\ UNCHANGED next
  /\ Becomes(t, "over") /\ FreesPermit(t)
  /\ UNCHANGED <<running, profile, waiting, stock, permitNonce, lastBlock, chain,
                 reused>>

\* Any other error, or the third transient one, whether or not a node has taken
\* the transaction.
Throws(t) ==
  /\ At(t, "sending") /\ Fault
  /\ Becomes(t, "over") /\ settle(t[1]) /\ FreesPermit(t)
  /\ UNCHANGED <<running, profile, waiting, next, stock, permitNonce, lastBlock, chain,
                 reused>>

\* The owner's permit nonce as it is read; a read that fails everywhere leaves
\* the owner as it was.
resyncPermitNonce(w) ==
  /\ permitRead[w] # Unread
  /\ \/ /\ \E n \in permitRead[w] .. permits[w] :
             permitNonce' = [permitNonce EXCEPT ![w] = n]
        /\ permitInFlight' = [permitInFlight EXCEPT ![w] = FALSE]
        /\ UNCHANGED faults
     \/ Fault /\ UNCHANGED <<permitNonce, permitInFlight>>
  /\ permitRead' = [permitRead EXCEPT ![w] = Unread]
  /\ UNCHANGED <<running, profile, waiting, next, inflight, tx, stock, lastBlock, chain,
                 reused>>

-----------------------------------------------------------------------------
(* The chain                                                               *)

\* What a transaction finds when it runs.
Succeeds(t) ==
  LET x == TheTx(t) IN
  /\ \A k \in Def(x.op).needs : held[x.of][k] >= Needed(x.op)
  /\ x.op = "permit" => x.permit = permits[t[1]]

Held(t) ==
  LET x == TheTx(t)
      op == Def(x.op)
      taken == [held EXCEPT ![x.of] =
                  [k \in Kinds |-> IF k \in op.needs THEN @[k] - op.takes ELSE @[k]]]
  IN [taken EXCEPT ![Receiver(x, t[1])] =
        [k \in Kinds |-> IF k \in op.gives THEN @[k] + op.adds ELSE @[k]]]

\* External: a block with a transaction whose turn it is.  One that needs
\* nothing may fail for reasons of its own, such as gas, a timed one because it
\* comes late, and one of the stress run for any.
NewBlock ==
  /\ head < MaxHeight
  /\ head' = head + 1
  /\ \E t \in pool, good \in BOOLEAN :
       /\ t[2] = mined[t[1]]
       /\ IF good = Succeeds(t) THEN UNCHANGED faults
          ELSE /\ ~good /\ Fault
               /\ Endurance => Def(TheTx(t).op).needs = {} \/ TheTx(t).op \in Timed
       /\ Put(t, [TheTx(t) EXCEPT !.block = head + 1, !.good = good])
       /\ mined' = [mined EXCEPT ![t[1]] = @ + 1]
       /\ pool' = pool \ {t}
       /\ held' = IF good THEN Held(t) ELSE held
       /\ permits' = IF good /\ TheTx(t).op = "permit"
                     THEN [permits EXCEPT ![t[1]] = @ + 1] ELSE permits
  /\ UNCHANGED <<running, profile, waiting, next, inflight, stock, permitNonce,
                 permitInFlight, permitRead, lastBlock, reused>>

\* External: a node forgets a transaction.
Evicted(t) ==
  /\ t \in pool /\ Fault
  /\ pool' = pool \ {t}
  /\ UNCHANGED <<client, head, mined, held, permits, reused>>
-----------------------------------------------------------------------------
(* receiptCollector                                                        *)

Tracked(t) == At(t, "tracked") \/ At(t, "again")

FoundIn(b) == {t \in Txs : Tracked(t) /\ TheTx(t).block = b}

\* The next block is read: whatever is tracked and in it is settled and goes to
\* the receipts.
Scans ==
  LET b == lastBlock + 1
      In == FoundIn(b) IN
  /\ running /\ lastBlock < head
  /\ lastBlock' = b
  /\ tx' = [w \in Wallets |-> [n \in Nonces |->
              IF <<w, n>> \in In THEN [tx[w][n] EXCEPT !.st = "receipt"] ELSE tx[w][n]]]
  /\ inflight' = [w \in Wallets |->
                    IF \E t \in In : t[1] = w THEN Settled(w) ELSE inflight[w]]
  /\ UNCHANGED <<running, profile, waiting, next, stock, permitNonce, permitInFlight,
                 permitRead, chain, faults, reused>>

\* Where the search goes on when no node gives the block.
AfterFailure(b) == IF Endurance THEN lastBlock ELSE b

ScanFails ==
  /\ running /\ lastBlock < head /\ Fault
  /\ lastBlock' = AfterFailure(lastBlock + 1)
  /\ UNCHANGED <<running, profile, waiting, next, inflight, tx, stock, permitNonce,
                 permitInFlight, permitRead, chain, reused>>

\* What a transaction is that has been overdue once.
Once == "again"

\* Overdue for the first time: sent once more, with or without effect.
Rebroadcast(t) ==
  /\ running /\ Endurance /\ At(t, "tracked")
  /\ Becomes(t, Once)
  /\ pool' \in {pool, IF t[2] >= mined[t[1]] THEN pool \cup {t} ELSE pool}
  /\ UNCHANGED <<running, profile, waiting, next, inflight, stock, permitNonce,
                 permitInFlight, permitRead, lastBlock, head, mined, held, permits,
                 faults, reused>>

\* The endurance run waits twice, the stress run once.
Overdue(t) == At(t, IF Endurance THEN "again" ELSE "tracked")

\* Overdue: given up.
TimesOut(t) ==
  /\ running /\ Overdue(t)
  /\ Put(t, [TheTx(t) EXCEPT !.st = "resync", !.low = mined[t[1]]])
  /\ settle(t[1]) /\ FreesPermit(t)
  /\ UNCHANGED <<running, profile, waiting, next, stock, permitNonce, lastBlock, chain,
                 faults, reused>>

\* The read of the nonce that follows lands, or fails.
Resynced(t) ==
  LET w == t[1] IN
  /\ At(t, "resync")
  /\ \/ (\E n \in TheTx(t).low .. mined[w] : resync(w, n)) /\ UNCHANGED faults
     \/ Fault /\ UNCHANGED <<next, inflight>>
  /\ Becomes(t, "over")
  /\ UNCHANGED <<running, profile, waiting, stock, permitNonce, permitInFlight,
                 permitRead, lastBlock, chain, reused>>

\* What a receipt does to the stock: the stress run only counts it.
StockAfter(t, ok) == IF Endurance THEN Applied(t, ok) ELSE stock

\* The receipt decides whether what was made counts; one that is not found
\* after five reads decides that it does not.
Receipt(t) ==
  /\ running /\ At(t, "receipt")
  /\ \E ok \in {TheTx(t).good, FALSE} :
       /\ IF ok = TheTx(t).good THEN UNCHANGED faults ELSE Fault
       /\ stock' = StockAfter(t, ok)
       /\ IF ~ok THEN FreesPermit(t)
          ELSE /\ permitInFlight' =
                    IF TheTx(t).op = "permit" THEN [permitInFlight EXCEPT ![t[1]] = FALSE]
                    ELSE permitInFlight
               /\ UNCHANGED permitRead
  /\ Becomes(t, "over")
  /\ UNCHANGED <<running, profile, waiting, next, inflight, permitNonce, lastBlock,
                 chain, reused>>

-----------------------------------------------------------------------------
\* The phases are over: the pump stops, and the collector once nothing is
\* tracked or the drain has taken as long as it may, with sends and receipts
\* still under way or not.
Stop ==
  /\ running
  /\ running' = FALSE
  /\ UNCHANGED <<profile, waiting, next, inflight, tx, stock, permitNonce,
                 permitInFlight, permitRead, lastBlock, chain, faults, reused>>

Submits(t) == Answered(t) \/ NonceError(t) \/ Dropped(t) \/ Lands(t)
Sweeps(t) == Rebroadcast(t) \/ TimesOut(t)

Next ==
  \/ \E w \in Wallets : Waits(w) \/ resyncPermitNonce(w)
                        \/ \E op \in Mix, owner \in Wallets : Fires(w, op, owner)
  \/ \E t \in Txs : Submits(t) \/ Throws(t) \/ Sweeps(t) \/ Resynced(t)
                    \/ Receipt(t) \/ Evicted(t)
  \/ NewBlock \/ Scans \/ ScanFails \/ Stop

Spec == Init /\ [][Next]_vars

\* The node answers; the sweep, the block search and the receipt workers go on
\* as long as the collector runs.  Nothing keeps it running: a run that stops
\* within four minutes of a send may leave it without an outcome.
FairSpec ==
  /\ Spec
  /\ WF_vars(Scans)
  /\ \A t \in Txs : WF_vars(Submits(t)) /\ WF_vars(Sweeps(t)) /\ WF_vars(Receipt(t))
-----------------------------------------------------------------------------
(* Properties                                                              *)

\* workloads.js 1-9: an operation that spends what another has made is never
\* refused, whatever is lost, late, sent again or unknown; but for a bid, which
\* the chain may see after its auction has ended.
ConsumersSucceed ==
  Endurance =>
    \A t \in Txs :
      TheTx(t).block > 0 /\ Def(TheTx(t).op).needs # {} /\ TheTx(t).op \notin Timed
        => TheTx(t).good

\* nonceManager.js 21-23: a wallet never signs a nonce twice.
NonceOnce == ~reused

\* receiptCollector.js 32-37: a transaction that was tracked in time is found in
\* its block, and is not counted as lost, even if the block could not be read.
FoundInItsBlock ==
  Endurance =>
    \A t \in Txs : Tracked(t) /\ TheTx(t).block \in 1 .. lastBlock
                     => TheTx(t).block <= TheTx(t).since

\* It has an outcome, and if it was a permit its wallet may send another.
Resolved(t) ==
  /\ At(t, "over") \/ At(t, "resync")
  /\ TheTx(t).op = "permit" => ~permitInFlight[t[1]]

\* receiptCollector.js 27-131, run.js 161-184, 235-242: unless the run stops
\* before, everything that was sent is resolved in the end, with the outcome of
\* its block if it was tracked in time.
EverythingResolved ==
  /\ []FoundInItsBlock
  /\ \A t \in Txs : At(t, "sending") ~> (Resolved(t) \/ ~running)
=============================================================================
