---------------------------- MODULE FaucetService ----------------------------
(***************************************************************************)
(* The faucet: the service that takes POST /drip (services/testnet-faucet) *)
(* and the GembaDripFaucet contract it pays through on the main network.   *)
(*                                                                         *)
(* The service is one Node process.  A request runs without interruption   *)
(* up to the balance query, then to its turn in the queue of sends, then   *)
(* to the answer of the node, then to the receipt.  The limiters and the   *)
(* daily count are memory: a restart forgets them, and the requests, but   *)
(* not the transactions that are out.                                      *)
(*                                                                         *)
(* Every request is made once; a client that tries again makes another.    *)
(***************************************************************************)
EXTENDS CooldownLimiter, Sequences, FiniteSets

CONSTANTS
  Addresses, Ips,    \* recipients as requests spell them, and clients
  Accounts,          \* the accounts of the chain
  AccountOf,         \* the account a spelling names: letter case is free
  Asks,              \* which client asks for which spelling
  NRequests,         \* the requests of a behaviour, numbered as they arrive
  DAILY_GLOBAL_MAX,  \* drips a day, over all requesters
  Day,               \* seconds of a day
  MIN_BALANCE,       \* the service refuses to drip below this
  Drip,              \* what a drip sends
  Funds,             \* what its account and the contract may start with
  ChainCooldown, ChainFloor,  \* parameters of the contract
  MaxTime,           \* bound: the clock
  MaxFaults          \* bound: RPC faults, lost transactions, restarts and
                     \*   claims of others

Requests == 1 .. NRequests

ASSUME FaucetAssumption ==
  /\ NRequests \in Nat /\ Asks \subseteq Addresses \X Ips
  /\ AccountOf \in [Addresses -> Accounts]
  /\ DAILY_GLOBAL_MAX \in Nat /\ Day \in Nat \ {0} /\ MIN_BALANCE \in Nat
  /\ Drip \in Nat \ {0} /\ Funds \subseteq Nat
  /\ ChainCooldown \in Nat /\ ChainFloor \in Nat
  /\ MaxTime \in Nat /\ MaxFaults \in Nat

VARIABLES
  now,
  mainnet,            \* the chain the service is pointed at
  contractMode,       \* FAUCET_CONTRACT is set
  byAddress, byIp,    \* the two limiters; the key of the first is the
                      \*   string of the request
  dripDay, dripCountToday,
  queue,              \* serialize: the requests whose send is due, in order
  req,                \* the requests
  tx,                 \* what became of the transaction of a request
  wallet, pot,        \* coins of the service's account and of the contract
  lastDrip,           \* the contract's record of accounts; 0 is never
  life, faults

memory == <<byAddress, byIp, dripDay, dripCountToday>>
config == <<mainnet, contractMode>>
chain == <<tx, wallet, pot, lastDrip>>
vars == <<now, config, memory, queue, req, chain, life, faults>>

New == [at |-> "new"]
At(r, step) == req[r].at = step
Move(r, step) == req' = [req EXCEPT ![r].at = step]

\* Between its arrival and its answer.
InFlight(r) == req[r].at \in {"balance", "queued", "wait"}

Today(t) == t \div Day

\* Changed: the service starts in any mode on any chain.
StartsAnyhow(isMainnet, hasContract) == TRUE

\* assertNotRawModeOnMainnet.
MayStart(isMainnet, hasContract) == isMainnet => hasContract

FreshMemory ==
  /\ byAddress' = NoEntries(Addresses) /\ byIp' = NoEntries(Ips)
  /\ dripDay' = 0 /\ dripCountToday' = 0

Init ==
  /\ now = 1
  /\ mainnet \in BOOLEAN /\ contractMode \in BOOLEAN
  /\ MayStart(mainnet, contractMode)
  /\ byAddress = NoEntries(Addresses) /\ byIp = NoEntries(Ips)
  /\ dripDay = 0 /\ dripCountToday = 0
  /\ queue = <<>>
  /\ req = [r \in Requests |-> New]
  /\ tx = [r \in Requests |-> "none"]
  /\ wallet \in Funds /\ pot \in Funds
  /\ lastDrip = [a \in Accounts |-> 0]
  /\ life = 0 /\ faults = 0

Fault == faults < MaxFaults /\ faults' = faults + 1

-----------------------------------------------------------------------------
(* POST /drip                                                              *)

\* globalBudgetAllow: the count of the day of this request, a new day first.
CountOf(t) == IF Today(t) # dripDay THEN 0 ELSE dripCountToday
BudgetLeft(t) == CountOf(t) < DAILY_GLOBAL_MAX

Arrives(r) == At(r, "new") /\ (r > 1 => ~At(r - 1, "new"))

\* Up to the first await.
Accept(r, a, i) ==
  /\ Arrives(r)
  /\ CanAcquire(byAddress, a, now) /\ CanAcquire(byIp, i, now)
  /\ BudgetLeft(now)
  /\ byAddress' = Acquired(byAddress, a, now)
  /\ byIp' = Acquired(byIp, i, now)
  /\ dripDay' = Today(now) /\ dripCountToday' = CountOf(now) + 1
  /\ req' = [req EXCEPT ![r] = [at |-> "balance", to |-> a, ip |-> i,
                                time |-> now, life |-> life, back |-> 0]]
  /\ UNCHANGED <<now, config, queue, chain, life, faults>>

\* 429: what had been acquired is given back, the day has been opened and
\* expired entries are gone.
Refuse(r, a, i) ==
  /\ Arrives(r)
  /\ req' = [req EXCEPT ![r] = [at |-> "refused"]]
  /\ \/ /\ ~CanAcquire(byAddress, a, now)
        /\ UNCHANGED memory
     \/ /\ CanAcquire(byAddress, a, now) /\ ~CanAcquire(byIp, i, now)
        /\ byAddress' = Released(Acquired(byAddress, a, now), a)
        /\ UNCHANGED <<byIp, dripDay, dripCountToday>>
     \/ /\ CanAcquire(byAddress, a, now) /\ CanAcquire(byIp, i, now)
        /\ ~BudgetLeft(now)
        /\ byAddress' = Released(Acquired(byAddress, a, now), a)
        /\ byIp' = Released(Acquired(byIp, i, now), i)
        /\ dripDay' = Today(now) /\ dripCountToday' = CountOf(now)
  /\ UNCHANGED <<now, config, queue, chain, life, faults>>

\* Changed: the count is not given back.
KeepsTheCount(r) ==
  /\ byAddress' = Released(byAddress, req[r].to)
  /\ byIp' = Released(byIp, req[r].ip)
  /\ UNCHANGED <<dripDay, dripCountToday>>

\* The roll-back of a drip that came to nothing: whatever entry the keys have
\* now goes, and the count of whatever day it is.
GiveBack(r) ==
  /\ byAddress' = Released(byAddress, req[r].to)
  /\ byIp' = Released(byIp, req[r].ip)
  /\ dripCountToday' = IF dripCountToday > 0 THEN dripCountToday - 1 ELSE 0
  /\ UNCHANGED dripDay

RollBack(r) ==
  /\ GiveBack(r)
  /\ req' = [req EXCEPT ![r].at = "failed", ![r].back = now]

\* The balance is that of the service's own account, in either mode.
BalanceLow(r) ==
  /\ At(r, "balance") /\ wallet < MIN_BALANCE
  /\ RollBack(r)
  /\ UNCHANGED <<now, config, queue, chain, life, faults>>

\* drip(to): at the end of the queue of sends.
BalanceGood(r) ==
  /\ At(r, "balance") /\ wallet >= MIN_BALANCE
  /\ Move(r, "queued")
  /\ queue' = Append(queue, r)
  /\ UNCHANGED <<now, config, memory, chain, life, faults>>

\* The query throws past the roll-back: the cooldowns and the count stay
\* taken although nothing was sent.
BalanceFails(r) ==
  /\ At(r, "balance") /\ Fault
  /\ Move(r, "burnt")
  /\ UNCHANGED <<now, config, memory, queue, chain, life>>

-----------------------------------------------------------------------------
(* The queue of sends                                                      *)

First(r) == queue # <<>> /\ Head(queue) = r

\* Changed: a send that throws takes the chain of sends with it.
StaysFirst(q) == q

\* The queue goes on whatever became of the send.
NextInLine(q) == Tail(q)

\* What the contract asks of a drip, at the time of the block.
Drips(a) ==
  /\ lastDrip[a] = 0 \/ now >= lastDrip[a] + ChainCooldown
  /\ pot >= Drip /\ pot - Drip >= ChainFloor

\* A contract call is estimated before it is sent.
Sendable(r) ==
  IF contractMode THEN Drips(AccountOf[req[r].to]) ELSE wallet >= Drip

OutAs == IF contractMode THEN "drip" ELSE "send"

Send(r) ==
  /\ At(r, "queued") /\ First(r) /\ Sendable(r)
  /\ Move(r, "wait")
  /\ tx' = [tx EXCEPT ![r] = OutAs]
  /\ UNCHANGED <<now, config, memory, queue, wallet, pot, lastDrip, life,
                 faults>>

\* The node refuses it, or does not answer; in the latter case the
\* transaction may be out.
SendFails(r) ==
  /\ At(r, "queued") /\ First(r)
  /\ \/ ~Sendable(r) /\ UNCHANGED <<tx, faults>>
     \/ /\ Sendable(r) /\ Fault
        /\ tx' \in {tx, [tx EXCEPT ![r] = OutAs]}
  /\ RollBack(r)
  /\ queue' = NextInLine(queue)
  /\ UNCHANGED <<now, config, wallet, pot, lastDrip, life>>

Receipt(r) ==
  /\ At(r, "wait") /\ First(r) /\ tx[r] = "landed"
  /\ Move(r, "ok")
  /\ queue' = Tail(queue)
  /\ UNCHANGED <<now, config, memory, chain, life, faults>>

\* wait() throws for a reverted transaction, and when the node fails while
\* the transaction is out or has landed.
WaitFails(r) ==
  /\ At(r, "wait") /\ First(r)
  /\ \/ tx[r] = "reverted" /\ UNCHANGED faults
     \/ tx[r] # "reverted" /\ Fault
  /\ RollBack(r)
  /\ queue' = NextInLine(queue)
  /\ UNCHANGED <<now, config, chain, life>>

-----------------------------------------------------------------------------
(* The chain, the clock and the process                                    *)

\* _drip.
ContractDrips(a) ==
  /\ Drips(a)
  /\ lastDrip' = [lastDrip EXCEPT ![a] = now]
  /\ pot' = pot - Drip
  /\ UNCHANGED wallet

\* A block takes the transaction of r.
Mined(r) ==
  LET a == AccountOf[req[r].to] IN
  /\ \/ /\ tx[r] = "drip" /\ ContractDrips(a)
        /\ tx' = [tx EXCEPT ![r] = "landed"]
     \/ /\ tx[r] = "drip" /\ ~Drips(a)
        /\ tx' = [tx EXCEPT ![r] = "reverted"]
        /\ UNCHANGED <<wallet, pot, lastDrip>>
     \/ /\ tx[r] = "send" /\ wallet >= Drip
        /\ wallet' = wallet - Drip
        /\ tx' = [tx EXCEPT ![r] = "landed"]
        /\ UNCHANGED <<pot, lastDrip>>
  /\ UNCHANGED <<now, config, memory, queue, req, life, faults>>

\* It leaves the mempool without being mined, and wait() has no deadline.
Dropped(r) ==
  /\ tx[r] \in {"drip", "send"} /\ Fault
  /\ tx' = [tx EXCEPT ![r] = "dropped"]
  /\ UNCHANGED <<now, config, memory, queue, req, wallet, pot, lastDrip,
                 life>>

\* claim() and dripTo() are open to everybody.
Claim(a) ==
  /\ ContractDrips(a) /\ Fault
  /\ UNCHANGED <<now, config, memory, queue, req, tx, life>>

Tick ==
  /\ now < MaxTime
  /\ now' = now + 1
  /\ UNCHANGED <<config, memory, queue, req, chain, life, faults>>

\* The process dies and is started again, perhaps with another FAUCET_CONTRACT.
Restart ==
  /\ Fault
  /\ contractMode' \in {m \in BOOLEAN : MayStart(mainnet, m)}
  /\ FreshMemory
  /\ queue' = <<>>
  /\ req' = [r \in Requests |-> IF InFlight(r) THEN [req[r] EXCEPT !.at = "lost"]
                                ELSE req[r]]
  /\ life' = life + 1
  /\ UNCHANGED <<now, mainnet, chain>>

Serve(r) ==
  \/ \E ask \in Asks : Accept(r, ask[1], ask[2]) \/ Refuse(r, ask[1], ask[2])
  \/ BalanceLow(r) \/ BalanceGood(r) \/ BalanceFails(r)
  \/ Send(r) \/ SendFails(r) \/ Receipt(r) \/ WaitFails(r)
  \/ Mined(r) \/ Dropped(r)

Next ==
  \/ \E r \in Requests : Serve(r)
  \/ \E a \in Accounts : Claim(a)
  \/ Tick
  \/ Restart

Spec == Init /\ [][Next]_vars

\* Node resumes a handler whose await is answered, the node answers, and the
\* chain takes a transaction that stays in the mempool.
Goes(r) ==
  \/ BalanceLow(r) \/ BalanceGood(r)
  \/ Send(r) \/ (SendFails(r) /\ ~Sendable(r))
  \/ Receipt(r) \/ (WaitFails(r) /\ tx[r] = "reverted")
  \/ Mined(r)

FairSpec == Spec /\ \A r \in Requests : WF_vars(Goes(r))
-----------------------------------------------------------------------------
(* Properties                                                              *)

\* A drip that is under way or was answered ok, in this life of the process.
Granted(r) == (InFlight(r) \/ At(r, "ok")) /\ req[r].life = life

SameKey(r, s) == req[r].to = req[s].to \/ req[r].ip = req[s].ip

\* Rolled back in this life of the process.
GivenBack(q) == At(q, "failed") /\ req[q].life = life

\* q was under way when r took its entry, and gave it back.
GaveAway(q, r) ==
  GivenBack(q) /\ req[q].time <= req[r].time /\ req[r].time <= req[q].back

\* p was rolled back after its own cooldown, which was over when r came.
Outstayed(p, r) ==
  /\ GivenBack(p) /\ req[p].time + Cooldown <= req[p].back
  /\ req[p].time + Cooldown <= req[r].time

\* ratelimit.js 15-31, server.js 70-79: a client, and an address as it is
\* spelled, gets one drip per cooldown, whatever fails, overlaps and is tried
\* again.  (Two spellings of one account are two keys: what the account gets
\* is only bounded where the contract pays, see MainnetCooldown.)  The one way
\* around it within a life of the process begins with a request that fails
\* after its own cooldown: its roll-back gives away the entry of a newer one,
\* which may fail in turn and give away that of the next.
OncePerCooldown ==
  \A r, s \in Requests :
    /\ r # s /\ Granted(r) /\ Granted(s) /\ SameKey(r, s)
    /\ req[s].time - req[r].time \in 0 .. Cooldown - 1
    => \E q, p \in Requests \ {r, s} :
         GaveAway(q, r) /\ SameKey(q, r) /\ Outstayed(p, r) /\ SameKey(p, r)

GrantedOn(day) == {r \in Requests : Granted(r) /\ Today(req[r].time) = day}

\* Rolled back on that day or since, but taken on an earlier one.
LateReturns(day) ==
  {r \in Requests : /\ GivenBack(r)
                    /\ Today(req[r].back) >= day /\ Today(req[r].time) < day}

\* server.js 26-43: the day's drips stay within DAILY_GLOBAL_MAX, but for the
\* ones of an earlier day that fail after midnight and are given back to this
\* one; and nothing is counted that is neither granted nor lost to a failed
\* balance query.
BudgetHolds ==
  /\ Cardinality(GrantedOn(dripDay))
       <= dripCountToday + Cardinality(LateReturns(dripDay))
  /\ dripCountToday <= DAILY_GLOBAL_MAX
  /\ dripCountToday <=
       Cardinality(GrantedOn(dripDay)
                   \cup {r \in Requests : At(r, "burnt") /\ req[r].life = life
                                          /\ Today(req[r].time) = dripDay})

\* faucet.js 9-12, server.js 124-127: on the main network no account is paid twice
\* within the contract's cooldown, however it is spelled, and however often the
\* service is restarted, reconfigured or believes a send has failed.
MainnetCooldown ==
  [][mainnet =>
       /\ wallet' = wallet
       /\ pot' < pot =>
            \E a \in Accounts :
              /\ lastDrip'[a] = now
              /\ lastDrip[a] = 0 \/ now - lastDrip[a] >= ChainCooldown]_vars

\* A transaction that no block will ever take.
Stranded(r) == tx[r] = "dropped" \/ (tx[r] = "send" /\ wallet < Drip)

\* faucet.js 25-32: one failing send does not hold up the others: every
\* request that was taken up is answered, unless a transaction is stranded,
\* which blocks the queue behind it until a restart.
Answered ==
  \A r \in Requests :
    (InFlight(r) /\ []~(\E q \in Requests : Stranded(q))) ~> ~InFlight(r)
=============================================================================
