# A TLA+ development of the Gemba blockchain

Gemba is a Cosmos SDK / cosmos-evm chain with one pre-minted coin, GMB. There is
no inflation: validators are paid from a reserve that was minted at genesis, a
share of the fees and all slashed stake feed a public faucet reserve, and a chain
module limits how validators enter and how fast they grow. Around the chain stand
Solidity contracts (treasury, governance, payments, DEX, tickets), a few Node
services (GMB sale, faucet, access control, notifier), the web pages, two load
generators and the scripts of a validator operator (watchdog, unjail, compound, halt
alert).

This directory models that system component by component, checks the models with
TLC on small instances and proves the main safety results with TLAPS for every
value of the constants. `PROJECT.json` lists components, runs, mutants, theorems,
hazards, and for each definition the source lines it stands for.

## 1. Inventory

| Part | State it keeps | Operations | Talks to | What is hard, and what must hold |
|---|---|---|---|---|
| `chain/x/feesplit` | params `enabled`, fraction | BeginBlock `SplitFees`, gov `UpdateParams` | bank (collector to faucet reserve) | Runs in one block with three other money modules: it must take its share of fees only, never of reward. |
| `chain/x/rewardstreamer` | legacy params, formula params, reserve account | BeginBlock: fixed slice or formula round; two gov messages; genesis | bank, staking (bonded stake), distribution | A round is a loop over validators with truncating division, a budget and a reserve that runs dry; an error in the middle is swallowed. No overspending, per-validator cap, x/distribution stays backed. |
| `chain/x/tailreward` | params, buffer account | BeginBlock, gov message | bank | Same order hazard as the streamer. |
| `chain/x/slashfunds` | none (a bank keeper wrapper) | `BurnCoins` of x/staking | bank | Slashed coins move instead of being burned; supply accounting. |
| `chain/x/wiring` | none | checks the begin-blocker order at start-up | app constructor | Must exclude every order that would let reward reach the fee split. |
| `chain/x/valgate` | params; per validator a daily counter | ante decorator, post handler, precompile wrapper, staking hook, gov message, InitGenesis | staking, EVM | Four entry paths into staking, nested calls and reverts, counters that change day. Growth within the daily cap, each increase charged once, entry within limits. |
| `services/purchase-backend` | orders (memory and JSON file), set of orders in flight | create, webhook, load/save | payment gateway, dispenser contract over RPC | Handlers interleave at awaits; webhooks repeat; answers get lost; crash between dispense and save. |
| `contracts/.../GembaPayDispenser` | balance, paused, owner | dispense, fund, withdraw, pause | purchase backend, notifier | References are emitted, not remembered. |
| `contracts/src/governance`: EmergencyPause, guardians | round, confirmations, thresholds, target states | confirm, threshold calls, guardian changes | pausable contracts | Votes of an old round or guardian set must not count. |
| `contracts/src/governance`: Governor, Timelock, Votes | proposals, tiers, delegations, exclusions | propose, vote, queue, execute | everything owned by the timelock | Values fixed at propose time against later changes. |
| `contracts/src/reserves` | balances, windows | grant, fund, pause | governor, EmergencyPause | Window boundaries, floors, caps. |
| `services/testnet-faucet`, `contracts/src/faucet` | cooldowns, daily budget and a queue of sends in memory; last drip on chain | POST /drip in two modes; dripTo, claim | faucet account and contract over RPC | Budget and cooldown are taken before an await and given back after it, maybe on another day; a restart forgets both. One drip per cooldown, the day's budget, the contract's cooldown whatever the service believes. |
| `services/access-control`, `AccessControlNFT` | employees, capabilities, logs, outbox (SQL); tokens on chain | grant, revoke, log, erase, outbox worker | chain, through one queue of transactions | Two requests between each other's queries; database against chain; an outbox retried until it lands. No row leads to an erased employee, every token is in somebody's care. |
| `services/blockchain-notifier` | cursor, validators and services as seen (memory and file); keys told | chain cycle, uptime cycle, mail | chain, services, mail | Cycles overlap themselves; a failing mail ends a watcher; a crash between mail and file. Nothing skipped, nothing told twice, every jailing told. |
| `frontend/swap` | form fields, cached reads, the call being signed | swap, add, remove, lock, approve | wallet, DEX contracts | What is signed was computed from reads that are old when it is mined; lost answers; remounted forms. |
| `contracts/src/dex` | pool, allowances, locks | swaps, liquidity, lock, extend, withdraw | the page, other traders | Minimum amounts against a moving pool; the locker keeps what it owes. |
| `endurance`, `stress` | nonces, transactions in flight, what the wallets own | pump, send, block search, sweep, receipts | several nodes | Answers lost after a transaction landed, nonces signed without waiting, effects applied before they are certain. |
| `gemba-validator/auto` | restart counters, stamps in files | watchdog, auto-unjail, auto-compound | node, chain | Timers against a flapping node; compound against the daily cap. |
| `ops/chain-halt-alert` | last height, alert flag | timer script | RPC, mail | One mail per halt. |
| `contracts/src/tickets` | supply counters, redeemed flags | create, buy, redeem | users | Sequential. |
| `GmbCollector`, contact form, landing page, build and genesis scripts, monitoring and security suites | none that outlives a call | | | No state machine to check. |

## 2. Modules

```
RewardFormula   pure arithmetic of the streams
Bank            balances, Send, Burn
Wiring          ValidateBeginBlockOrder
      \   |   /
     GembaEconomy  the blocks of the chain  ------  Chain_proofs
        |  \                                             |
        |   MoneyFlow   what the routing promises     ValGate --- MCValGate
     MCEconomy

                                Dispenser <-- GmbSale --- MCGmbSale
                                                 |
                                           GmbSale_proofs

EmergencyPause  guardians and votes
      |
   Treasury   the reserves they pause         GembaVotes <-- GembaGovernor
      |     \                                               /     |
  MCTreasury  ------------  Governance_proofs  ------------  MCGovernor

CooldownLimiter <-- FaucetService --- MCFaucet      AccessService --- MCAccess
                         |                               |
               FaucetService_proofs              AccessService_proofs

Workload <-- LoadGenerator --- MCLoad       Dex <-- SwapFrontend --- MCSwap
                  |                                      |
            LoadGenerator_proofs                   Clients_proofs
                                                         |
                                                    Notifier --- MCNotifier

SetSums_proofs   sums over finite sets, induction, division: under the other
                 modules of proofs
```

**GembaEconomy** is one chain, block by block. `order` is the begin-blocker list
the constructor validated; `pos` walks through it; `phase` says whether the block
is in its begin blockers, inside a formula round (`scan`, `scale`, `pay`,
`credit`: the four stretches of `StreamFormulaRewards`) or in its transactions.
`bal` holds the module accounts (`users` is everybody else), `stake` the bonded
tokens, `outstanding` what x/distribution owes. Each begin blocker is one action;
the loops of the formula round take one step per validator, since an error of
`AllocateTokensToValidator` leaves what was already done in force. Four pieces of
history make the properties expressible: `streamed` (how much of the fee collector
is reward), `spent` (out of the reserve in this block), `cum` and `cutSum` (the
running sums of the loops), `burned`. Heights above 1 are all `2`, because the code
asks only whether the height is at most 1. Division stays integer division.
`"slashing"` stands for every begin blocker that slashes (x/evidence included).

**ValGate** has one record `kv` for the committed stores, because a transaction
works on a branch of them and may throw it away: `frames` keeps the store at the
start of the transaction and of each open EVM frame. A Cosmos transaction is
`Begin` (ante handler), `ExecMsg` per message, `PostHandle`; an Ethereum
transaction is `EvmBegin`, nested `EvmCall`/`Precompile`/`EvmReturn` with reverts
an outer contract may catch. A message is a record with kind, amounts and authz
nesting depth. An absent `math.Int` is `Nil`; unset params are `Unset`, and
`Marshalled` and `GetParams` do what the codec and the keeper do with them.

**GmbSale** is the purchase backend with its gateway and the **Dispenser**
contract. A webhook handler runs without interruption between awaits: `send` (the
transaction has been handed to the RPC node and the answer is awaited), `wait` (for
the receipt), `landed` and `reverted` (the receipt is in). `orders` is memory, `store`
the file; a crash loses memory, may tear the file (which then loads as no orders),
and turns transactions nobody waits for into `strays`, which may still be mined.
Amounts are in cents. The webhook compares floats with a tolerance of 0.01
(`server.js:129`), so a payment a whole cent off may pass or not, as the two floats
round: the constant `Tolerated` holds the differences that pass, 0 among them. Who an
order is for is the constant `Buyer`; the create handler takes any address
`isAddress` accepts (`:77`), the zero address and contracts included, which the
dispenser refuses or whose code may.

**Treasury** composes **EmergencyPause** with the reserves it pauses: a guardian's
confirmation that reaches the threshold and the target's `pause()` or `unpause()`
are one transaction, so `GuardianConfirms` conjoins both and a refusing target
disables it. The contract keys confirmations by target, operation, round and
configuration epoch; since rounds and epochs only grow, the model keeps just the
votes of the live key (`votes`), and a new round or epoch empties them. Votes for
an `unpause` may be gathered before there is a pause to lift: the code allows it,
and they stay until the epoch or the round ends. `epoch` is the window of the
PublicReserve; `granted` is history, what was granted in each second since the
limit was last set. Anything governance does is an action any state allows, so the
results hold for every governance.

**GembaGovernor** is the governor, the timelock and the votes (**GembaVotes**). A
proposal is a list of calls; those that change the governance itself
(`setCriticalTarget`, `updateQuorumNumerator`, `setExcluded`) take effect when it
is executed. `past` has the balances and delegates at the snapshot of each
proposal, which is what the checkpoints answer. A queued operation may be executed
through the governor, which asks for its state again, or straight at the timelock,
whose executor role is open (`Execute`). Block number and time are one clock.

**FaucetService** is POST /drip with its two limiters (**CooldownLimiter**), the
daily count, the queue that serialises sends, and the contract it pays through in
contract mode. A request takes cooldown and budget in one stretch, then waits for
the balance, for its turn, and for the receipt. A low balance or a failed send gives
both back; a balance query that fails keeps both (`burnt`). The limiter of recipients
is keyed by the string of the request, in whatever letter case, the contract by the
account (`AccountOf`). A restart empties the memory and may change the mode. Time is
in units of which a cooldown has two and a day three, so both boundaries lie inside a
behaviour.

**AccessService** keeps the four tables the service writes, with the foreign keys
that refuse or cascade, the chain's tokens, and `queue`, the promise chain through
which all transactions go. Every query is a step, because no database transaction
spans an await. A crash drops requests and queue; a transaction that was out becomes
`stray` and may still be mined. `req` remembers how each request ended, which the
properties use to tell what was reported from what was lost.

**Notifier** has a record per timer cycle: where it is (`fetch`, `loop`, `mail`,
`save`), what is left to tell (`todo`) and the block it read. Each watcher is a
list of items, and an item tells, skips or resets by the same rules, so one set
of actions stands for all watchers. A mail takes its key before it is out and
does not give it back when it fails. Memory and `file` are apart; the file is written at
the end of every cycle, from whatever memory holds then.

**SwapFrontend** has the mounted form and its cached reads in `page`, the calls the
wallet shows in `prompts`, the submitted ones in `mempool`, and the chain
(**Dex**, a record with the pool, balances, allowances and locks, and for each call
when it succeeds and what it leaves). `SwapOffer` and its siblings compute what the
button does from fields and cached reads; pressing it fixes the call and, as
history, the floor the form showed. A read is a step that copies one part of the
chain into the page, so every read is as old as it can be. Most are polled; the swap
form's balance and allowance are not: they are read when the form is mounted or the
token to give changes, the allowance once more for an approval (`due`), and besides
only when the user comes back to the window. So the button stays on "Insufficient"
for a balance that has grown, and sells against an allowance that is used up. The
specification is `PageSpec`, with the premises of `GetsThrough` `PageFairSpec`.

**LoadGenerator** is both load generators, with **Workload** listing what each
operation needs and makes. `profile` chooses the harness; where the two differ, an
operator says so (`Built`, `Applied`, `AfterFailure`, `Overdue`, `Rebroadcast`). A
transaction runs through `sending` (a node may take it with or without an answer),
`nonce` or `tracked`, `again`, `receipt` or `resync`, and `over`. A read of a
nonce returns any value the chain had since it was asked. A permit credits the wallet
it names as spender (`Receiver`), and the spender's transfers need one without using it
up: an allowance is a hundred thousand times a transfer. The pump and the collector
work while `running` holds; `Stop` ends them at any time, with whatever is still under way.

## 3. Runs

| Run | Question | Instance and bounds |
|---|---|---|
| `econ_routing` | Do supply, the faucet share, the cover, budget and cap of a formula round and the backing of x/distribution hold under every begin-blocker list the wiring check accepts, with slashes, deposits, vetoes, delegations, tail refills and faults? Is the routing an implementation of `MoneyFlow`? | All lists of the four modules that move money, of which the check picks, and the shipped one; two validators, one without stake; reserve of 4 with a budget of 3 a block, so the cut and the empty reserve both occur; amounts of 2; every transfer may fail. |
| `econ_drain` | Is the reserve ever stuck? | Formula always on, reserve 7, wide and narrow budgets. |
| `valgate` | Growth within the loosest cap of the day, each delegation charged exactly once, every validator in with the least self-bond of its block, and below the greatest if the ante handler saw it | Two validators, from a gentx, a message or the precompile, with amounts inside and outside the limits; several bonds to one validator, authz depth up to 3 (one too deep), redelegation; precompile calls two frames deep; caps raised, lowered, removed and invalid; two days; growth up to 3; the store of a new chain and of an older binary. |
| `sale` | Paid once per recorded outcome, nothing for unpaid orders, `fulfilled` means paid out, and paid orders are served | Two orders, one for a wallet and one for a contract that may refuse the coins, two open requests, the dispenser funded for one order at a time, two faults out of: crash, torn write, failed write, lost answer, dropped transaction, gateway timeout, pause, withdrawal. |
| `treasury` | Only live guardians count, a pause needs the threshold of its moment, and windows bound what is granted | Three people, guardians two of whom are needed at first, the PublicReserve, balance up to 2, grants of 1, five seconds, windows of two and three seconds, no window, and one that is refused. |
| `governor` | Nobody votes a share twice, the excluded have no power, nothing critical passes under the lower bar, a critical outcome is final | Two holders with 3 and 2 votes, one move of 2, two of three proposals, six blocks, the shipped shares (40/51, 51/66). |
| `faucet` | Does a client, and an address as it is spelled, get one drip per cooldown, does the day's budget hold across midnight, does the contract's cooldown bind whatever the service does, is every request answered? | One account spelled in two ways, two clients of whom one asks for both spellings, three requests, cooldown 2, day 3, budget 1, clock to 4, one fault out of: failed query, failed send, lost answer, dropped transaction, somebody's claim, restart. |
| `access` | Does an erased employee leave no row, is every token in somebody's care, does every recorded right open its door, does the outbox drain? | Two employees who have the same wallet one after the other, two zones, three requests, two runs of the worker that read one row each, two faults of database, node and process. |
| `notifier` | Does the cursor pass a sale untold, is one told twice, is every jailing told? | One validator and one service, two chain cycles that overlap and one uptime cycle, two blocks, two time steps, one change of the world, one fault of mail, node or process. |
| `swap` | What may a call cost against what the form showed, how often is an entry spent, what does the locker keep, does pressing on get the call out? | Amount 4 with tokens for two sales, two pairs to pick (a wrap and a sale), slippage 34 %, another trader who moves the pool by more than that, one step of the clock (longer than a deadline), two entries, refusals, lost answers or lost receipts together, two pending calls. |
| `loadgen` | Is a dependent operation ever refused, a nonce signed twice, or a sent transaction left without an outcome while the run lasts? | One wallet with three nonces, two submits under way, two blocks, two faults, a stop at any time; the endurance run with an NFT mix and with permits that are spent, the stress run with wrapping. |
| `sale_twice` | A statement of a comment that the code does not keep (section 6) | One order, two requests, one fault. |

Why the bounds are enough. Two validators are the least at which the pro-rata cut
truncates, a loop stops in the middle and a redelegation exists; the results for
any number are proved (section 5) or on the plan. The economy has no counter to
bound: coins are finite, and without a burn the state space is closed. In ValGate
`MaxDay`, `MaxGrowth` and `MaxFrames` bound days, delegated amounts and nesting; a
frame is restored the same way at every depth. In GmbSale two handlers are the
least that overlap, and two faults cover a fault during the recovery from another
(a crash after a lost answer); `Stock` bounds what the owner keeps in the contract.
In Treasury the guardians are symmetric (no definition tells one from another);
five seconds are two windows of two and the beginning of a third, so a stretch of
two lies across a boundary. In the governor one move per behaviour suffices to bring
the same votes to two accounts, and six blocks are the whole life of one proposal
and the voting of another after it. In the faucet the third request is the one that
profits from the roll-back of a first while a second is under way. In the access
service two employees with one wallet are what a late revocation needs to hit the
wrong person, and two faults are a failed revocation and a crash before it is
recorded. Two chain cycles are what the timer produces when a mail takes longer
than its period; a third would wait behind the same keys. In the load generator
three nonces are two in flight and a gap between them, and two blocks are one that is
read late or not at all and the next; the wallets meet only in operations on each
other's listings and in permits for another wallet. The run has one wallet, which is the
spender of its own permits; `SpendersSucceed` is for any number. On the page two entries
with tokens for both are what a second sale needs, against the allowance the first
used up.

Deadlock is checked for the economy, where a block always follows, and for the
treasury. It is switched off where the model stops at a bound: the last day and
block of ValGate and the governor, the finitely many orders of GmbSale and requests
of the faucet and the access service, the last block of the notifier and the load
generator.

The economy is checked with lists in which modules outside the money routing are
represented by `evm`; ValGate takes one transaction at a time, as the chain does.
Type invariants of ValGate, GmbSale, Treasury and GembaGovernor are stated in their
modules as documentation of the state.

## 4. Fairness

* `GembaEconomy!FairSpec`: weak fairness of `BeginBlock` and of `NextBlock`.
  CometBFT keeps committing blocks, a begin blocker always returns. No transaction
  is promised. `ReserveRunsDry` moreover supposes that from some point on the
  formula is enabled and pays somebody.
* `GmbSale!FairSpec`: weak fairness of the handler steps whose await will be
  answered (`Send`, `Mined`, `Reverted`, `Fulfil`; Node resumes such a handler, the
  chain includes what the mempool holds) and of the delivery of a due webhook (the
  gateway calls until it hears 200). Nothing promises that an operator restarts
  the process or that the owner refills the contract: `Served` has these as a
  premise for each order, `<>[](up /\ ~MayRevert)`, which also leaves out the orders whose address
  need not take the coins. Faults are finitely many in a behaviour.
  `Served` also says what the code does not promise: a webhook that is answered
  200 while its order is unknown or in flight is not repeated.
* `FaucetService!FairSpec`: weak fairness of what each request does next when the
  node answers, and of mining. A transaction that no block will take has no fairness;
  `Answered` names it (`Stranded`) as the one thing that blocks the queue.
* `AccessService!FairSpec`: weak fairness of each request's next query and of the
  worker's runs, which a timer repeats. Faults are finitely many. It also supposes that the
  chain takes what was sent: the queue waits for a receipt without a deadline
  (`chain.js:33`, `:40`), so one transaction no block takes holds every later grant,
  revocation and retry until a restart. The code does not exclude that; `Drained` is a
  statement about the runs in which it does not happen, the other properties and the
  theorems need no fairness and hold with the queue standing still. `Drained` is stated
  for the rows the worker reads: rows that fail for good keep their place among the
  oldest, and with a full page of them the ones behind are never tried.
* `Notifier!FairSpec`: strong fairness per cycle. A timer starts a cycle again and
  again and the other cycles share the event loop with it; under weak fairness a
  cycle that a restart ends could be passed over for ever.
* `LoadGenerator!FairSpec`: weak fairness of the block search, of submits, sweep and
  receipts: loops that sleep and run again as long as the collector runs. Nothing keeps
  it running. The end of a run drains for at most 180 s, the stress run for 90 s, while an
  overdue transaction takes up to two times 120 s to be given up, and the drain waits
  for what is tracked only, not for submits and receipts under way. So
  `EverythingResolved` promises an outcome or the end of the run, as the code does,
  whose summary counts what is left (`pendingAtEnd`). The chain is promised nothing:
  what is never mined is swept.
* `SwapFrontend!PageFairSpec`: weak fairness of the reads that are polled or due, of
  the wallet and the chain. Nothing makes the user come back to the window, which is what
  reads a balance again. Strong fairness of the button is the premise of `GetsThrough`: a
  user who keeps pressing it. It is stated for what the form offers when its due reads
  have come (`Wanted`), and leaves out a cached allowance above the chain's (`UsedUp`).

## 5. Proofs

A proof is by an inductive invariant, written as named parts, each of which some
step needs. Each was checked by TLC before it was proved.

`SetSums_proofs` has the lemmas on sums over a finite set: how a sum changes with
one element, splits, compares, and what the sums of the fibres of a function come
to. An induction theorem with an operator as parameter is out of the prover's
reach, but an induction on a set of natural numbers is not: `SubsetInduction` takes
the least size at which a statement fails, and `IterSums` finds the function that
the fold is defined by size by size. The statement is given as the set of the
subsets it holds of.

`Chain_proofs` holds the theorems about GembaEconomy and ValGate. Those on the economy
begin with lemmas on the arithmetic: a share never exceeds the whole, the pro-rata cut of a prefix sum stays below the limit (`ScaledStep`), the
daily reward lies between zero and the cap, a slice is never more than is there. It
then proves, for any number of validators, any parameters that pass validation, any
genesis balances, any orders and any faults:

* `TypeCorrect`: `Spec => []TypeOK`. `TypeOK` is inductive; besides types it holds
  where a round can be (only in the streamer's place, only above height 1) and that
  balances never go below zero, which needs the arithmetic lemmas.
* `SupplyIsConserved`: `Spec => []SupplyConserved`, from `TypeOK` and the two
  lemmas on `Send` and `Burn`.
* `RewardIsNeverSkimmed`: `Spec => []RewardNeverSkimmed`. The property is not
  inductive. `StreamInv` strengthens it: streamed reward is in the collector only
  at height 2 and only while `pos` is after the fee split and not after
  x/distribution. It is kept because the streams run after the split (`InOrder`),
  nothing runs twice (`NoneTwice`), and x/distribution empties the collector; at
  height 1, where it does not, the height guards keep the streams silent. Each of
  the four facts is used, so the theorem says why the wiring check is what it is.

* `RoutingImplementsFlow`: `Spec => FlowSpec`, the refinement of `MoneyFlow`. Every
  step is shown to be one of the four flows or to move nothing between the pots. A fee
  split that found streamed reward in the collector would carry reward into the faucet
  reserve, which no flow does, so the step of the split rests on `StreamInv`.

* `RoundIsCovered`, `RoundStaysWithinLimits`, `DistributionIsBacked` prove
  `RoundCovered`, `RoundWithinLimits` and `DistributionBacked`. Two invariants carry
  them. `SpendInv`: when something was spent in a block, the streamer has had its turn
  or is crediting, so the reserve is opened once a block. `RoundInv`, conjunct by
  conjunct: no amount of a round is above the cap, `cum` is the running sum of the
  amounts, the cuts so far are at most the pro-rata share of `cum` (so the floors of
  all validators together stay within the limit), the limit is covered by the reserve,
  and what is still to be credited is covered by what was moved to x/distribution.
  The running sums are kept by the model, one step per validator, as the loop
  keeps them.

`Chain_proofs` proves of ValGate, for any transactions, contract calls and params:

* `EveryEntryWithinLimits`: `ValgateSpec => []EntryWithinLimits`. Because a failed message, a
  reverted frame and a refusing post-handler each bring back an older store, the
  invariant `GateInv` says of the running store and of the store every open frame
  holds that its validators entered within their limits, and that a frame is open
  whenever something may be rolled back. Of the messages a Cosmos transaction still has to run it says
  that the ante handler allowed them under the params they run with, which is what holds them below the greatest
  self-bond; the hook alone gives the least. It needs that messages are well-formed
  (`MessagesAssumption`).
* `GrowthStaysWithinCap` and `EachChargedOnce`, from `GrowInv`. A charge and the
  increase it is for happen apart: the post-handler of a Cosmos transaction charges
  what the whole transaction did, the wrapper charges around the precompile's call.
  So the invariant says of every store an open frame holds that its books are settled:
  today's counters hold what the validators grew by today, and that is within the
  loosest cap of the day, if there was one throughout. Of the running store it says what is owed. Inside a Cosmos
  transaction (`Underway`) the growth is that of the store the transaction began with
  plus the sum of the messages so far that bond to the validator, and the counters
  are still the old ones; inside a call it is the amount of that call. The handler's
  own sum per validator is then equal to it by `SumFibres`. Two assumptions say what
  a proof needs to know of stored data: a gentx holds nothing but the creation of a
  validator (genutil accepts nothing else), and params found in a store of an older
  binary passed its validation.

`GmbSale_proofs` proves, for any orders, payments, requests and number of faults:

* `SaleTypes`: `Spec => []TypeOK`.
* `NothingLeavesUnpaid`, from `PaidInv`: every order with an open request, a stray
  transaction or a dispense has a payment that pays for it, and a payment is taken
  once and never replaced.
* `OrdersPaidOncePerRecord`, from `Books`: as long as an order is still pending, in
  memory or on file, every dispense of it is one that went unrecorded or one that an
  open request awaits. It rests on `OneEach`: an open request's order is in flight
  and pending, and no other request serves it. Without that, the two awaits of the
  webhook would let a second delivery pay again.
* `FulfilledIsPaidOut`, from `FulfilInv`: an order is marked after its receipt only.

`Governance_proofs` proves, of the guardians and reserves, for any set of people, any targets, any guardians and
thresholds the constructor takes, and any amounts:

* `VotesAreLive` and, in the composition, `TreasuryVotesAreLive`: only guardians of
  the live set are counted and no pending operation has its threshold already. It
  is inductive together with the type of the guardian part, because every change
  of the set or the threshold opens an epoch without votes. `guardianCount =
  Cardinality(guardians)` rests on the library's facts on finite sets.
* `PausesNeedQuorum`: whatever changed before, the step that pauses a reserve under
  EmergencyPause is the confirmation of the last of a threshold of guardians. It is
  an action property and follows from `LiveVotes` before the step.
* `WindowsHold`: what the PublicReserve grants in any stretch of one window's length is
  at most two caps. The invariant `Windows` speaks of history the contract does not
  keep: nothing is granted after the clock or in an expired window, the open window's
  grants add up to what it has counted, and the stretch of one length before it opened
  saw at most one cap. A stretch that reaches into the open window cannot reach back
  further than that one, so its sum splits into at most two caps.

It proves of the governor, for any proposals, calls, bars and periods:

* `CriticalBarHolds`: `Spec => []CriticalNeedsCriticalBar`. The timelock executes what
  is queued without asking the governor again, so the invariant `ProposalsOK` keeps
  what queueing established: a proposal with an eta is closed, its tier is as strict
  as its calls, and a critical one still passes. It still passes because its votes are
  closed, its snapshot is past (`BlockKeepsPast`), and its quorum does not follow the
  numerator governance tunes (`OutcomeKept`).
* `CriticalOutcomesAreFinal`: the same argument as an action property, from the end of
  the voting on.
* `ExcludedStayPowerless`: from `VotesOK`, by which an excluded account delegates to
  nobody, through any list of calls a proposal executes: the effect of a list is a
  fold, so the calls are gone through by an induction on how many have been made. The
  power of all accounts together is then a sum over disjoint sets of holders, none of
  them excluded. It needs that the calls of a proposal are a sequence, which is what
  an array is.
* `NobodyVotesTwice`: what has been counted on a proposal is at most the balances, at
  the snapshot, of the holders whose delegates have voted (`TallyOK`). A new voter adds
  the holders behind it, who are in nobody else's votes; before the snapshot is
  past nobody votes, so the snapshot no longer changes under a tally.

`AccessService_proofs` proves, for any employees, wallets, zones, requests, workers and
faults:

* `ErasedStayForgotten`, from `RowsOK` alone: the tables refer to employees there are.
  The cascade of the deletion and the foreign keys keep it, whatever queries of other
  requests lie between.
* `RowsKeepTokens`: a recorded capability opens its door, save where its wallet was an
  erased employee's before. What could take a token away late is gathered in `LateOK`:
  a revocation in the queue, in the outbox, or out on the chain is about the wallet of
  somebody who was erased. It rests on `QueueOK` (a process is in the queue once, and
  only while it waits), `RunsOK` (the worker's page points into the outbox) and
  `OpensOK` (a grant that landed still holds when its row is written).
* `TokensStayAccounted`, from `HeldOK`: every token has a row, a request that is at it,
  a row of the outbox, or a request that failed and said so. A transaction nobody
  waits for that would grant one is known to a request that failed (`stray`).

`LoadGenerator_proofs` proves, for any number of wallets, any mix, cap and bound:

* `SpendersSucceed`: in the endurance run nothing that spends what another operation
  made is refused. The stock the harness counts is less than what is on the chain,
  for it takes when it signs and adds when it has the receipt. `Covered` says by how
  much: the chain has the stock, and what is signed and not mined will take, and what
  is mined and not counted has brought. An operation that needs what it does not use up
  (a claim of rewards) takes nothing of the stock, so a spender of the same wallet
  may be signed after it; `Reserved` says that it still finds what it needs, because the
  chain takes a wallet's transactions in the order of their nonces. What makes this
  true of the workload is that such an operation needs what only its own wallet uses up
  (`WorkloadOK`), and that the allowance of a permit is never used up. A bid is exempt
  (`Timed`): it may reach the chain after its auction has ended. The assumption that the wallets are finitely many is that the pool is
  generated as an array.
* `NoncesAreOnce`: `Spec => []NonceOnce`. The inductive invariant is `LInv`: types,
  `NonceOnce`, and `NothingAhead`, by which no nonce at or above a wallet's next one
  has been signed. It is kept because a read of the chain never moves the next nonce
  back (`Forward`), however old its answer; a resync to what is mined would break it
  while transactions are pending.

`FaucetService_proofs` proves, for any recipients, clients, requests, limits and faults:

* `DripsStaySpaced`: `Spec => []OncePerCooldown`, for the keys the service has: the client
  and the spelling of the recipient. What an account gets under several spellings is
  bounded by the contract alone (`ContractPaces`). The entry of a key may be gone although
  the drip it stood for is good, since a roll-back frees whatever entry its keys have
  by then. `Kept` says what is left of every drip granted: an entry no older than it, a
  cooldown that has passed, or a roll-back that gave its entry away (`Given`).
  `Given` names two requests: the one that freed the entry, and the one with which it
  all began, which failed after its own cooldown. That the second exists is the
  argument of `RollBackKeeps`: a request that frees the entry of a newer drip has either
  outstayed its cooldown itself, or was close to that drip, and then somebody had given
  away its own entry before. The property used to name the first request only, and TLC agreed on
  three requests; the proof did not go through, and TLC found with four the chain of
  roll-backs that refutes it.
* `BudgetIsKept`: `Spec => []BudgetHolds`, with `DayInv`: the day of the count is not in the
  future, and no drip of this life is of a later day. So a new day begins with no drip
  to count, and a roll-back either takes back a drip of the day of the count or is a
  late return. Cardinalities change by one element at a time.
* `ContractPaces`: `Spec => MainnetCooldown`. By `TxInv` every transaction out on the main
  network is a call of the contract, also one sent before a restart, since each
  start refuses the other mode.

`Clients_proofs` proves of the page, for any amounts, pools, slippage, other traders, and
bounds:

* `CostsNoMoreThanShown`: `PageSpec => NoWorseThanShown`, an action property. What was shown
  is the amounts the form displays, less the slippage where it displays one; the
  one thing shown without being promised is what a removal for a fee-on-transfer token
  brings back (`Promised`, section 6). The argument is in three parts. What the button offers has the floor the form shows (`OffersKept`,
  one lemma per form), whatever the reads behind it were. A call on its way keeps the
  floor it was pressed with (`UnderWay` in `CallInv`), and none is pressed while another is
  asked for. What the chain does with a call that succeeds is no worse than its own
  minimum (`CallKeeps`, one lemma per kind of call), which rests on the contracts'
  integer division: the pair never pays out all it has (`PaysOutLess`), a deposit takes
  no more than was offered (`TakesNoMore`), burning redeems less than the pool
  (`RedeemsLess`). That the pool is never emptied is part of the invariant, and is why
  the genesis has liquidity that belongs to no wallet (`GenesisAssumption`): the
  minimum liquidity that a first deposit locks for good.
* `LockerHoldsItsLocks`: `PageSpec => []LocksKept`, from `Backed` and from `Known`: a
  withdrawal names a lock there is, with the amount on record. It holds for rows that are old because
  locks are only appended, extended and closed (`LocksGo`).
* `EachEntrySpentOnce`: `PageSpec => []OncePerEntry`. `OnceFor` says of each entry whose answer
  was not lost: a call for it waits in the wallet at most once, and as long as it does,
  nothing has gone out for it; when the form that asked is still mounted, no other form
  holds the entry, and when that form is gone, nothing holds it. So a call that goes
  out clears the last copy of what it was made from.

and of the notifier, for any validators, services, alarms, sets of cycles that overlap, chain
and faults:

* `NoSaleToldTwice`: `Spec => []ToldOnce`. `ToldOf` says of each sale that the times it was
  told and the times of the mails under way are pairwise a cooldown apart and none is later than the
  time its key was last taken (`Stamp`). So a key that is old enough makes the next mail
  far enough from all of them, told or on their way. That no other item takes or resets
  the key of a sale is `SaleKeys` and `ClearedKeeps`.
* `CursorPassesNoSale`: `Spec => []CursorSkipsNothing`. A cursor is moved by a cycle that read
  the head long ago, perhaps behind one that another cycle has set since, and is read back from a file
  that is older still. `SkipInv` covers all three: up to the cursor in memory, up to the one in the file,
  and up to the end of the range of every cycle, each sale was mailed, is being mailed, has
  failed, or is still in that cycle's list; and a key that is taken belongs to a sale
  one of these holds of, so what is suppressed may be passed. The block the search
  began at only moves forward. What the lists contain is `SalesListed`: the flattened
  list of a range has every sale of it, by an induction over the parts
  (`FlattenKeeps`).

Both notifier theorems are stated of `Spec`, without fairness.

The assumptions are those the modules name: choices of parameters are well-typed,
genesis balances and stakes are naturals, x/distribution starts empty, the pool of the
page's genesis holds something, a service to probe is configured, and validators, alarms
and services are finitely many.

Left to TLC for good: the liveness properties (`ReserveRunsDry`, `Served`, `Answered`,
`Drained`, `JailTold`, `EverythingResolved`, `GetsThrough`), since neither fairness nor
ENABLED is within the prover's reach.

## 6. Where the code and its words differ

* `sale_twice`: the webhook is called idempotent; an answer lost after the dispense
  transaction is out makes the gateway's retry pay the order a second time.

Not runs, but worth knowing:

* A daily budget below one unit per block floors to zero, which the streamer reads as
  no budget at all.
* The daily cap is documented to count all sources; a cancelled unbonding adds bonded
  stake uncounted.
* The greatest self-bond is said to cover the precompile path (`valgate/keeper/hooks.go:42-43`,
  `staking_msgserver.go:19`). The hook compares `val.Tokens`, and x/staking's
  `CreateValidator` calls the hook before it delegates the message's amount, so it reads
  0: only the ante handler enforces the greatest self-bond, and a contract's creation is
  bound by the least alone. `EntryWithinLimits` claims no more. Stated for every path it fails
  in four steps (genesis, a transaction, the precompile creating a validator
  with more than the greatest, its return).
* The sale accepts an order for the zero address or for a contract that refuses coins
  (`server.js:77`); once paid, its dispense reverts (`GembaPayDispenser.sol:77`, `:81`)
  however often the gateway calls, and nothing in the backend tells. `Served` is
  stated for the other orders.
* Gentxs are judged by the built-in limits, because x/valgate's InitGenesis runs after
  genutil's; a floor raised in the genesis file does not hold for them.
* Excluding a holder is said to remove at once the power of its delegatee too; a
  delegatee keeps it in every proposal whose snapshot is earlier.
* The README of the access service says that an erasure revokes the tokens and then
  deletes the rows; the code deletes first and revokes after, which is why a token can
  be left to the outbox alone.
* The access worker retries a revocation that landed although its answer was lost; it
  then fails with NotGranted for ever, and a page of such rows stops the outbox.
* The faucet gives a failed drip back to the limiter and to the budget of the day it
  fails on. Failing after its own cooldown, it frees an entry that is a newer drip's,
  which may fail in turn and free the next one's; failing after midnight, it widens the new day. Both are the exceptions the
  properties name.
* The faucet is said to limit drips per recipient address (`server.js:1-2`,
  `ratelimit.js:1-3`). The key is the string of the request (`server.js:64,73`), and
  `validation.js:2` takes any letter case, so that an account spelled in lower case, in
  upper case and with its checksum has three entries. `OncePerCooldown` is therefore
  stated of spellings, and `MainnetCooldown` of accounts. (A spelling with a wrong
  checksum is refused by ethers when it is sent, and rolled back like another failed
  send.)
* The key of the notifier's critical bonded-ratio alarm is not reset in the warning
  band (`index.js:118-123`): a ratio that falls again within the cooldown is not told.
  The mailer takes a key before the mail is out, so two cycles do not both send, and a
  cycle that relies on the other's mail moves on although it may fail.
* The swap form says "Swap confirmed" when an approval is mined (`SwapForm.jsx:148`), and
  frees itself when a receipt cannot be read although the call is pending. Lock rows are
  read once more four seconds after a lock or a withdrawal (`LockForm.jsx:74`), not when
  it is mined.
* The swap form reads a balance and an allowance without polling them
  (`SwapForm.jsx:51-56`). After a wrap and a flip the button may stay on "Insufficient"
  for a balance that was read before the wrap was mined, until the user leaves the window and
  comes back. A second sale is offered under the allowance the first one used up;
  it reverts, and again, until the allowance is read.
* With the fee-on-transfer box ticked, a removal shows "You receive" with two amounts and
  hides the slippage (`LiquidityForm.jsx:163-172`), while the call has no minimum
  (`:116-117`): whatever the pool holds by then is accepted. `NoWorseThanShown` exempts
  these two amounts and holds the removal to the liquidity it names.
* The mix of the endurance run promises that nothing reverts (`workloads.js:1-9`). A bid is
  built up to 110 seconds after the harness heard of its auction (`:128`), and the auction ends
  180 seconds after its block: a bid that is mined late, or of an auction heard of late,
  reverts.
* A submit of the load generators that fails for good leaves a gap in the wallet's nonces
  (`endurance/scripts/run.js:179`); what was signed after it is never mined and is
  swept. The stress collector passes over a block it could not read, so what was in it
  counts as timed out. The stress run's error rate is 0 while nothing at all can be
  submitted (`stress/scripts/run.js:123`).
* `slashfunds/keeper.go:76` says that no burn from outside the staking pools exists
  on this chain; a vetoed governance deposit is one (`gemba-validator/genesis.json`
  645), and `SupplyConserved` accounts for it.
* The window of PublicReserve is called rolling. It is a fixed window that opens at
  the first grant after the last one ended: up to two caps fit into a stretch of one
  length, which is what `WindowHolds` states.
* `_quorumReached` uses the standard numerator of now. The outcome of a standard
  proposal can therefore change after its voting ended, in both directions, until
  it is executed; and a numerator tuned above the critical one makes the standard
  tier the stricter in quorum, which the constructor rules out only for the start.
  `CriticalOutcomeFinal` is stated for the critical tier, where it holds.

## 7. Not modelled, and why

* Queries, codecs, events, logging, validation of message syntax: no state the
  properties see.
* Economy: a delegation executed by governance itself, and more than one coin. A redirect
  that fails (`slashfunds/keeper.go:80-82`) makes x/staking's slash return an error, which fails
  the block: nothing of it is committed, so the model has no step for it.
  `BlocksPerYear = 0` and `BlocksPerDay = 0` are refused by the code's validation and
  excluded by the parameter sets.
* ValGate: restart from an exported genesis, which drops the daily counters
  (a listed hazard); the funds and gas of a sender, which are the choice `MsgFails`.
* GmbSale: the HMAC check (a refused request changes nothing), the rate limiter, the
  two-step transfer of the contract's ownership.
* Treasury: upgrades of the implementation, `totalGranted` (nothing reads it), calls
  back from a paid account (the guards refuse them, so a payment is one step), and
  recipients that refuse.
* Governor: OpenZeppelin's settings that governance may change (delay, period,
  threshold, roles), vote signatures, the limit on proposers named in a description.
  The proposal threshold of the deployment is 0, so anybody proposes.
* Faucet: `setDripParams` and pausing of the contract, the older GembaFaucet, the rate
  limiter of the proxy in front of the service.
* Access: a transaction that is sent and never mined while the process lives, but as a queue
  that stands still (section 4); other institutions (row-level security keeps them apart), the contract's issuers
  and registry of institutions, and the routes that only read.
* Notifier: the figures behind the risk alarms and the texts. An alarm holds or does
  not; a reserve whose balance cannot be read is left out of the bonded ratio, which
  this abstracts from.
* Page: the balances the liquidity and lock forms show (their buttons do not ask for them; the
  chain refuses), the pool is never empty, so no first deposit, no tokens that charge a fee on
  transfer, one configured network, and no import of tokens.
* DEX: the native pool, flash swaps, the protocol fee, sums beyond small naturals.
* Load generators: time (a transaction may be overdue whenever it is swept, a run may stop
  whenever it likes), the mini
  governance, settling times of listings, metrics and the search for the knee, the bid
  for fees, deployment, and the scripts that reclaim and drain after a run.
* The components marked `not_modelled` in `PROJECT.json`; the plan takes most of them.

## 8. Plan

1. *Done*: the money routing with its proofs, valgate, the GMB sale, the guardians
   and reserves with their proofs, the governor and its votes; the faucet, the access
   service with its proofs, the notifier, the swap page with the DEX it uses, the load
   generators with their proofs.
2. Operator scripts: watchdog, auto-compound against ValGate's cap, halt alert.
3. `setDripParams` and pausing of GembaDripFaucet in FaucetService; the native pool
   in Dex; tickets and perks last.
4. ValGate restarted from an export.

Every invariant and every safety property of a step that a run checks is stated by a
theorem. Worth proving next: that the sale and the notifier implement specifications of
one order and of one sale, and what the plan adds.
As modules are added, runs of one module are merged so that every run stays a
question of its own.
