------------------------------- MODULE ValGate -------------------------------
(***************************************************************************)
(* x/valgate: the limits on how a validator may enter and how fast it may  *)
(* grow.  Three paths reach x/staking: a transaction of Cosmos messages,   *)
(* which the ante handler checks and the post-handler charges; the staking *)
(* precompile, called in the middle of an EVM transaction and charged by   *)
(* the wrapped message server; and the gentxs of InitChain, which run      *)
(* before this module has its parameters.                                  *)
(*                                                                         *)
(* A transaction is the sequence of its leaf messages in the order of the  *)
(* walk; depth is the number of MsgExec around a leaf.  x/staking, baseapp *)
(* and the EVM are external: a failed message restores the store branch,   *)
(* a reverted call restores the snapshot of its frame.                     *)
(***************************************************************************)
EXTENDS Integers, SequencesExt

CONSTANTS
  Operators,       \* operators that may run a validator
  Nil,             \* a math.Int field that is absent
  Unset,           \* no params in the store yet
  CosmosTxs,       \* transactions of Cosmos messages
  GenTxs,          \* transactions InitChain delivers
  Calls,           \* messages a contract may send through the precompile
  GenesisParams,   \* params of the genesis file, fields may be absent
  StoredParams,    \* params an older binary left in the store
  ParamMsgs,       \* params a governance proposal may carry
  Defaults,        \* DefaultParams
  maxAuthzDepth,
  MaxGrowth,       \* bound: what one validator is offered in a day
  MaxFrames,       \* bound: nesting of EVM calls, the transaction included
  MaxDay           \* bound: days explored

ParamsRecord ==
  [min: Int \cup {Nil}, max: Int \cup {Nil}, daily: Int \cup {Nil}]

Kinds == {"create", "delegate", "redelegate", "undelegate", "cancel"}

\* A leaf message; from is the validator a redelegation leaves.
Message ==
  [kind: Kinds, val: Operators, from: Operators, amt: Nat, minself: Nat, depth: Nat]

ASSUME NilAssumption == Nil \notin Int /\ Unset \notin ParamsRecord
ASSUME MessagesAssumption ==
  CosmosTxs \cup GenTxs \subseteq Seq(Message) /\ Calls \subseteq Message
\* genutil accepts nothing but MsgCreateValidator in a gentx.
ASSUME GenTxsAssumption ==
  \A t \in GenTxs : \A k \in DOMAIN t : t[k].kind = "create"
ASSUME ParamsAssumption ==
  /\ GenesisParams \cup StoredParams \cup ParamMsgs \subseteq ParamsRecord
  /\ Defaults \in [min: Nat, max: Nat, daily: Nat]
  /\ maxAuthzDepth \in Nat /\ MaxGrowth \in Nat
  /\ MaxFrames \in Nat /\ MaxDay \in Nat

VARIABLES
  kv,       \* the committed stores, or the branch of the running transaction
  run,      \* "idle", "cosmos", "evm" or, inside the precompile, "call"
  tx,       \* the running Cosmos transaction
  rest,     \* messages still to execute
  frames,   \* the store as it was when each open frame began
  day,      \* day of the block time
  loosest   \* history: loosest daily cap in force today, 0 once there was none

valgateVars == <<kv, run, tx, rest, frames, day, loosest>>

-----------------------------------------------------------------------------
(* Parameters                                                              *)

\* GetParams: nothing stored and absent fields read as the defaults.
GetParams(s) ==
  IF s.params = Unset THEN Defaults
  ELSE [s.params EXCEPT
          !.max   = IF @ = Nil THEN Defaults.max ELSE @,
          !.daily = IF @ = Nil THEN Defaults.daily ELSE @]

Validate(p) ==
  /\ p.min # Nil /\ p.min >= 0
  /\ p.max # Nil => p.max >= 0 /\ (p.max > 0 => p.max >= p.min)
  /\ p.daily # Nil => p.daily >= 0

\* What an older binary stored passed its Validate, without the newer fields.
ASSUME StoredAssumption == \A p \in StoredParams : Validate(p)

\* MustMarshal writes an absent math.Int as 0.
Marshalled(p) ==
  [p EXCEPT !.max   = IF @ = Nil THEN 0 ELSE @,
            !.daily = IF @ = Nil THEN 0 ELSE @]

\* The defaulting of InitGenesis, before SetParams.
Backfilled(p) ==
  [p EXCEPT !.max   = IF @ = Nil THEN Defaults.max ELSE @,
            !.daily = IF @ = Nil THEN Defaults.daily ELSE @]

-----------------------------------------------------------------------------
(* The daily counter                                                       *)

\* dailyBondUsed: a counter of another day reads as 0.
Used(s, v) == IF s.counter[v].day = day THEN s.counter[v].amt ELSE 0

\* Mutant: each increase is compared with the cap on its own.
FitsAlone(s, v, amount) ==
  LET limit == GetParams(s).daily IN limit > 0 => amount <= limit

\* checkDailyBond.
FitsToday(s, v, amount) ==
  LET limit == GetParams(s).daily
  IN  limit > 0 => Used(s, v) + amount <= limit

\* The record half of CheckAndRecordDailyBond.
Record(s, v, amount) ==
  IF GetParams(s).daily > 0
  THEN [s EXCEPT !.counter[v] = [day |-> day, amt |-> Used(s, v) + amount]]
  ELSE s

\* collectBondIncreases: what the transaction adds to the stake of v.
BondIncrease(t, v) ==
  SumFunctionOnSet([k \in DOMAIN t |-> t[k].amt],
                   {k \in DOMAIN t : t[k].kind \in {"delegate", "redelegate"}
                                       /\ t[k].val = v})

Touched(t) ==
  {v \in Operators : \E k \in DOMAIN t :
     t[k].kind \in {"delegate", "redelegate"} /\ t[k].val = v}

TooDeep(t) == \E k \in DOMAIN t : t[k].depth > maxAuthzDepth

\* checkMsgs on every MsgCreateValidator of the walk.
EntryAllowed(p, m) ==
  m.kind = "create" =>
    /\ m.amt >= p.min /\ m.minself >= p.min
    /\ p.max > 0 => m.amt <= p.max

\* MinSelfBondDecorator.AnteHandle, outside simulation.
AnteHandle(s, t) ==
  /\ ~TooDeep(t)
  /\ \A k \in DOMAIN t : EntryAllowed(GetParams(s), t[k])
  /\ \A v \in Touched(t) : FitsToday(s, v, BondIncrease(t, v))

\* DailyBondRecorder charges every validator once.
Charged(s, t) ==
  [s EXCEPT !.counter = [v \in Operators |->
     IF v \in Touched(t) THEN Record(s, v, BondIncrease(t, v)).counter[v]
     ELSE s.counter[v]]]

-----------------------------------------------------------------------------
(* x/staking (external), with the hook it calls                            *)

\* Mutant: the ante handler alone watches the limits.
NoHook(s, m) == TRUE

\* x/staking calls the hook before it delegates the message's amount: the
\* validator the hook reads has no tokens yet.
TokensAtCreation == 0

\* AfterValidatorCreated, on the validator the message creates.
AfterValidatorCreated(s, m) ==
  LET p == GetParams(s)
  IN  m.minself >= p.min /\ (p.max > 0 => TokensAtCreation <= p.max)

\* When x/staking accepts a message, apart from the sender's funds.
StakingAccepts(s, m) ==
  CASE m.kind = "create" ->
         /\ m.val \notin s.vals /\ m.minself <= m.amt
         /\ AfterValidatorCreated(s, m)
    [] m.kind = "delegate" ->
         m.val \in s.vals /\ s.grown[m.val] + m.amt <= MaxGrowth
    [] m.kind = "redelegate" ->
         /\ {m.val, m.from} \subseteq s.vals /\ m.val # m.from
         /\ m.amt <= s.bonded[m.from] /\ s.grown[m.val] + m.amt <= MaxGrowth
    [] m.kind = "undelegate" -> m.val \in s.vals /\ m.amt <= s.bonded[m.val]
    [] m.kind = "cancel" -> m.val \in s.vals /\ m.amt <= s.unbonding[m.val]

Grow(s, v, amount) ==
  [s EXCEPT !.bonded[v] = @ + amount, !.grown[v] = @ + amount]

StakingApplies(s, m) ==
  CASE m.kind = "create" ->
         [s EXCEPT !.vals = @ \cup {m.val},
                   !.bonded[m.val] = m.amt, !.dawn[m.val] = m.amt,
                   !.entry[m.val] = [path |-> run,
                                     amt |-> m.amt, minself |-> m.minself,
                                     min |-> GetParams(s).min,
                                     max |-> GetParams(s).max]]
    [] m.kind = "delegate" -> Grow(s, m.val, m.amt)
    [] m.kind = "redelegate" ->
         [Grow(s, m.val, m.amt) EXCEPT !.bonded[m.from] = @ - m.amt]
    [] m.kind = "undelegate" ->
         [s EXCEPT !.bonded[m.val] = @ - m.amt, !.unbonding[m.val] = @ + m.amt]
    [] m.kind = "cancel" ->
         [s EXCEPT !.bonded[m.val] = @ + m.amt, !.unbonding[m.val] = @ - m.amt]

-----------------------------------------------------------------------------
NoEntry == [path |-> "none", amt |-> 0, minself |-> 0, min |-> 0, max |-> 0]

\* kv.grown, kv.dawn and kv.entry are history: what delegations added today,
\* the stake when the day began, and how each validator came in (path: in a
\* transaction of "cosmos" messages or by a precompile "call").
EmptyStore(p) ==
  [params |-> p, vals |-> {},
   bonded |-> [v \in Operators |-> 0], unbonding |-> [v \in Operators |-> 0],
   counter |-> [v \in Operators |-> [day |-> 0, amt |-> 0]],
   grown |-> [v \in Operators |-> 0], dawn |-> [v \in Operators |-> 0],
   entry |-> [v \in Operators |-> NoEntry]]

\* A new chain, or one whose params an older binary stored.
ValgateInit ==
  /\ kv \in {EmptyStore(p) : p \in {Unset} \cup StoredParams}
  /\ run = "idle" /\ tx = <<>> /\ rest = <<>> /\ frames = <<>>
  /\ day = 1 /\ loosest = GetParams(kv).daily

Booted == kv.params # Unset

SameDay == UNCHANGED <<day, loosest>>

\* The running transaction ends with the store s.
FinishTx(s) == kv' = s /\ run' = "idle" /\ tx' = <<>> /\ rest' = <<>> /\ frames' = <<>>

\* Genesis order: genutil delivers the gentxs, then x/valgate gets its params.
InitGenesis ==
  /\ ~Booted /\ run = "idle"
  /\ \E p \in GenesisParams :
       /\ Validate(Backfilled(p))
       /\ kv' = [kv EXCEPT !.params = Marshalled(Backfilled(p))]
       /\ loosest' = Backfilled(p).daily
  /\ UNCHANGED <<run, tx, rest, frames, day>>

\* A Cosmos transaction passes the ante handler.
Begin ==
  /\ run = "idle"
  /\ \E t \in IF Booted THEN CosmosTxs ELSE GenTxs :
       AnteHandle(kv, t) /\ tx' = t /\ rest' = t
  /\ run' = "cosmos" /\ frames' = <<kv>> /\ UNCHANGED kv
  /\ SameDay

ExecMsg ==
  /\ run = "cosmos" /\ rest # <<>>
  /\ StakingAccepts(kv, Head(rest))
  /\ kv' = StakingApplies(kv, Head(rest))
  /\ rest' = Tail(rest)
  /\ UNCHANGED <<run, tx, frames>> /\ SameDay

\* Mutant: the charge was already written by the ante handler.
MsgFailsCharged ==
  run = "cosmos" /\ rest # <<>> /\ FinishTx(Charged(frames[1], tx)) /\ SameDay

\* A message fails: refused by x/staking, out of funds or out of gas.
MsgFails == run = "cosmos" /\ rest # <<>> /\ FinishTx(frames[1]) /\ SameDay

\* The post-handler checks again and charges; its error discards the branch.
PostHandle ==
  /\ run = "cosmos" /\ rest = <<>>
  /\ IF \A v \in Touched(tx) : FitsToday(kv, v, BondIncrease(tx, v))
     THEN FinishTx(Charged(kv, tx)) ELSE FinishTx(frames[1])
  /\ SameDay

\* The ante handler finds nothing to check in a MsgEthereumTx.
EvmBegin ==
  /\ run = "idle" /\ Booted
  /\ run' = "evm" /\ frames' = <<kv>>
  /\ UNCHANGED <<kv, tx, rest>> /\ SameDay

EvmCall ==
  /\ run = "evm" /\ Len(frames) < MaxFrames
  /\ frames' = Append(frames, kv)
  /\ UNCHANGED <<kv, run, tx, rest>> /\ SameDay

\* CapEnforcingStakingMsgServer: check and record, then the inner server.
\* Everything but Delegate and BeginRedelegate passes straight through.
Precompile ==
  /\ run = "evm"
  /\ \E m \in Calls :
       /\ rest' = <<m>>
       /\ IF m.kind \in {"delegate", "redelegate"}
          THEN FitsToday(kv, m.val, m.amt) /\ kv' = Record(kv, m.val, m.amt)
          ELSE kv' = kv
  /\ run' = "call" /\ frames' = Append(frames, kv)
  /\ UNCHANGED tx /\ SameDay

InnerReturns ==
  /\ run = "call"
  /\ StakingAccepts(kv, Head(rest))
  /\ kv' = StakingApplies(kv, Head(rest))
  /\ run' = "evm" /\ rest' = <<>> /\ frames' = Front(frames)
  /\ UNCHANGED tx /\ SameDay

\* The inner server refuses: the error reverts the precompile's frame.
InnerFails ==
  /\ run = "call"
  /\ kv' = Last(frames)
  /\ run' = "evm" /\ rest' = <<>> /\ frames' = Front(frames)
  /\ UNCHANGED tx /\ SameDay

\* A frame returns or reverts; a caller may catch the revert of an inner one.
EvmReturn ==
  /\ run = "evm"
  /\ \E s \in {kv, Last(frames)} :
       IF Len(frames) = 1 THEN FinishTx(s)
       ELSE kv' = s /\ frames' = Front(frames) /\ UNCHANGED <<run, tx, rest>>
  /\ SameDay

\* MsgUpdateParams of a passed proposal.
UpdateParams ==
  /\ run = "idle" /\ Booted
  /\ \E p \in ParamMsgs :
       /\ Validate(p)
       /\ kv' = [kv EXCEPT !.params = Marshalled(p)]
       /\ loosest' = LET new == Marshalled(p).daily
                     IN  IF loosest = 0 \/ new = 0 THEN 0
                         ELSE IF new > loosest THEN new ELSE loosest
  /\ UNCHANGED <<run, tx, rest, frames, day>>

\* An unbonding entry of v matures and is paid out.
Matures ==
  /\ run = "idle" /\ Booted
  /\ \E v \in Operators : kv.unbonding[v] > 0
                      /\ kv' = [kv EXCEPT !.unbonding[v] = 0]
  /\ UNCHANGED <<run, tx, rest, frames>> /\ SameDay

\* The block time enters the next day.
NewDay ==
  /\ run = "idle" /\ Booted /\ day < MaxDay
  /\ day' = day + 1 /\ loosest' = GetParams(kv).daily
  /\ kv' = [kv EXCEPT !.grown = [v \in Operators |-> 0], !.dawn = kv.bonded]
  /\ UNCHANGED <<run, tx, rest, frames>>

ValgateNext ==
  \/ InitGenesis \/ Begin \/ ExecMsg \/ MsgFails \/ PostHandle
  \/ EvmBegin \/ EvmCall \/ Precompile \/ InnerReturns \/ InnerFails
  \/ EvmReturn \/ UpdateParams \/ Matures \/ NewDay

ValgateSpec == ValgateInit /\ [][ValgateNext]_valgateVars

-----------------------------------------------------------------------------
(* Properties                                                              *)

ValgateTypeOK ==
  /\ kv.params = Unset \/ kv.params \in ParamsRecord
  /\ kv.vals \subseteq Operators
  /\ \A f \in {kv.bonded, kv.unbonding, kv.grown, kv.dawn} :
       f \in [Operators -> Nat]
  /\ kv.counter \in [Operators -> [day: 0..MaxDay, amt: Nat]]
  /\ run \in {"idle", "cosmos", "evm", "call"}
  /\ frames = <<>> <=> run = "idle"
  /\ Len(frames) <= MaxFrames + 1
  /\ day \in 1..MaxDay /\ loosest \in Nat

\* Whatever path a delegation takes, and however its transaction nests and
\* reverts, no validator grows in a day by more than the loosest cap that
\* was in force during it (posthandler.go, staking_msgserver.go).
GrowthWithinCap ==
  run = "idle" /\ loosest > 0 => \A v \in Operators : kv.grown[v] <= loosest

\* Each delegation is charged exactly once: a failed or reverted one costs
\* the validator nothing of its day, and none is charged twice because two
\* of the paths saw it.
ChargedOnce ==
  run = "idle" =>
    \A v \in Operators :
      /\ Used(kv, v) <= kv.grown[v]
      /\ loosest > 0 => Used(kv, v) = kv.grown[v]

\* Every validator came in with the least self-bond of its block or more,
\* also one that the precompile created behind the ante handler (hooks.go) or
\* a gentx before InitGenesis; what passed the ante handler, nested messages
\* and gentxs included, also stays below the greatest (ante.go).  The hook
\* does not hold a precompile creation to the greatest self-bond.
EntryWithinLimits ==
  run = "idle" =>
    \A v \in kv.vals :
      LET e == kv.entry[v]
      IN  /\ e.minself <= e.amt /\ e.min <= e.minself
          /\ e.path = "cosmos" /\ e.max > 0 => e.amt <= e.max
=============================================================================
