---------------------------- MODULE GembaEconomy ----------------------------
(***************************************************************************)
(* The money routing of one Gemba chain, block by block.  A block runs its *)
(* begin blockers in the order the app constructor validated (x/feesplit,  *)
(* x/rewardstreamer, x/tailreward, x/distribution, and slashing through    *)
(* x/slashfunds), then its transactions, then the next block starts.       *)
(*                                                                         *)
(* x/bank, x/distribution, x/staking and x/gov are external and are        *)
(* modelled by what this code needs of them.  The loops of the formula     *)
(* stream take one step per validator, because an error in the middle of   *)
(* the last one leaves the earlier steps in force: BeginBlock swallows it  *)
(* and no cached context is rolled back.                                   *)
(***************************************************************************)
EXTENDS Bank, Wiring, RewardFormula

CONSTANTS
  NVals,            \* bonded validators, numbered in iteration order
  Orders,           \* begin-blocker orders an app constructor may resolve
  FeeSplitChoices,  \* parameter values genesis and governance may set
  StreamChoices,
  FormulaChoices,
  TailChoices,
  GenesisBal,       \* balances at height 1, before the first block
  GenesisStake,
  Amounts,          \* amounts a transaction or a slash may move
  BankFaults,       \* whether the bank or distribution may return an error
  BurnDeposits      \* x/gov burn_vote_veto of the shipped genesis

Vals == 1..NVals

FeeSplitParams == [enabled: BOOLEAN, num: Nat, den: Nat \ {0}]
ValidFeeSplit(p) == p \in FeeSplitParams /\ p.num <= p.den

ASSUME NValsAssumption == NVals \in Nat
ASSUME OrdersAssumption == \A o \in Orders : o \in Seq(STRING)
ASSUME ChoicesAssumption ==
  /\ FeeSplitChoices \subseteq FeeSplitParams
  /\ StreamChoices \subseteq StreamParams
  /\ FormulaChoices \subseteq FormulaParams
  /\ TailChoices \subseteq StreamParams
ASSUME GenesisAssumption ==
  /\ GenesisBal \in [Accounts -> Nat]
  /\ GenesisStake \in [Vals -> Nat]
  /\ GenesisBal["distr"] = 0
ASSUME AmountsAssumption == Amounts \subseteq Nat
ASSUME FlagsAssumption == BankFaults \in BOOLEAN /\ BurnDeposits \in BOOLEAN

VARIABLES
  order,        \* the validated begin-blocker order
  height,       \* 1, or 2 for every later height: only "<= 1" is ever asked
  phase,        \* "begin", "scan", "scale", "pay", "credit" or "txs"
  pos,          \* position in order of the begin blocker that runs next
  bal,          \* bank balances
  stake,        \* bonded tokens of each validator
  outstanding,  \* what the books of x/distribution owe to validators
  fs, rs, fp, tr,   \* parameters: feesplit, legacy stream, formula, tail
  \* one call of StreamFormulaRewards: loop index and its local variables
  i, total, limit, scaled, amt,
  \* history
  cum,          \* running sums of amt, as the loops accumulate them
  cutSum,       \* the same for the amounts the pro-rata cut has produced
  streamed,     \* the part of the collector that is streamed reward
  spent,        \* what left the reserve in this block
  burned        \* what x/gov has burned so far

chain  == <<order, height, phase, pos>>
money  == <<bal, stake, outstanding, streamed, spent, burned>>
params == <<fs, rs, fp, tr>>
round  == <<i, total, limit, scaled, amt, cum, cutSum>>
vars   == <<chain, money, params, round>>

NoAmounts == [v \in Vals |-> 0]

Init ==
  /\ order \in {o \in Orders : ValidateBeginBlockOrder(o)}
  /\ height = 1 /\ phase = "begin" /\ pos = 1
  /\ bal = GenesisBal /\ stake = GenesisStake /\ outstanding = 0
  /\ fs \in {p \in FeeSplitChoices : ValidFeeSplit(p)}
  /\ rs \in StreamChoices
  /\ fp \in {p \in FormulaChoices : ValidFormula(p)}
  /\ tr \in TailChoices
  /\ i = 0 /\ total = 0 /\ limit = 0 /\ scaled = 0
  /\ amt = NoAmounts /\ cum = NoAmounts /\ cutSum = NoAmounts
  /\ streamed = 0 /\ spent = 0 /\ burned = 0

-----------------------------------------------------------------------------
(* BeginBlock                                                              *)

Running(m) == phase = "begin" /\ pos \in 1..Len(order) /\ order[pos] = m

\* The module's BeginBlock returned nil: the next one runs.
Finish == phase' = "begin" /\ pos' = pos + 1 /\ UNCHANGED <<order, height>>

\* SplitFees takes its share of everything the collector holds; whatever of
\* that was streamed reward is skimmed off with it.
FaucetShare(amount) ==
  IF fs.enabled THEN (fs.num * amount) \div fs.den ELSE 0

FeeSplit ==
  /\ Running("feesplit")
  /\ \/ /\ bal' = Send(bal, "collector", "faucet",
                       FaucetShare(bal["collector"]))
        /\ streamed' = streamed - FaucetShare(streamed)
     \/ /\ BankFaults /\ FaucetShare(bal["collector"]) > 0
        /\ UNCHANGED <<bal, streamed>>
  /\ Finish
  /\ UNCHANGED <<stake, outstanding, spent, burned, params, round>>

\* StreamRewards: the fixed slice, used while the formula is switched off.
LegacyStream ==
  LET amount == FixedSlice(rs, height, bal["reserve"])
  IN  /\ Running("rewardstreamer") /\ ~fp.enabled
      /\ \/ /\ bal' = Send(bal, "reserve", "collector", amount)
            /\ streamed' = streamed + amount
            /\ spent' = spent + amount
         \/ BankFaults /\ amount > 0 /\ UNCHANGED <<bal, streamed, spent>>
      /\ Finish
      /\ UNCHANGED <<stake, outstanding, burned, params, round>>

\* StreamTailReward.
TailStream ==
  LET amount == FixedSlice(tr, height, bal["tail"])
  IN  /\ Running("tailreward")
      /\ \/ /\ bal' = Send(bal, "tail", "collector", amount)
            /\ streamed' = streamed + amount
         \/ BankFaults /\ amount > 0 /\ UNCHANGED <<bal, streamed>>
      /\ Finish
      /\ UNCHANGED <<stake, outstanding, spent, burned, params, round>>

\* x/distribution: from height 2 on it moves the whole collector to itself
\* and books it to validators and the community pool.
Distribute ==
  /\ Running("distribution")
  /\ IF height > 1
     THEN /\ bal' = Send(bal, "collector", "distr", bal["collector"])
          /\ outstanding' = outstanding + bal["collector"]
          /\ streamed' = 0
     ELSE UNCHANGED <<bal, outstanding, streamed>>
  /\ Finish
  /\ UNCHANGED <<stake, spent, burned, params, round>>

\* Mutant: only the bonded pool is redirected.
BurnCoinsBondedOnly(pool, amount) ==
  IF pool = "bonded" THEN Send(bal, pool, "faucet", amount)
  ELSE Burn(bal, pool, amount)

\* slashfunds.BankKeeper.BurnCoins, as x/staking calls it.
BurnCoins(pool, amount) ==
  IF pool \in Pools THEN Send(bal, pool, "faucet", amount)
  ELSE Burn(bal, pool, amount)

Slash ==
  /\ Running("slashing")
  /\ \/ UNCHANGED <<bal, stake>>
     \/ \E v \in Vals, a \in Amounts :
          /\ a <= stake[v] /\ a <= bal["bonded"]
          /\ stake' = [stake EXCEPT ![v] = @ - a]
          /\ bal' = BurnCoins("bonded", a)
     \/ \E a \in Amounts :
          /\ a <= bal["notbonded"]
          /\ bal' = BurnCoins("notbonded", a)
          /\ UNCHANGED stake
  /\ Finish
  /\ UNCHANGED <<outstanding, streamed, spent, burned, params, round>>

OtherBeginBlock ==
  /\ phase = "begin" /\ pos \in 1..Len(order)
  /\ order[pos] \notin MoneyModules \cup {"slashing"}
  /\ Finish
  /\ UNCHANGED <<money, params, round>>

-----------------------------------------------------------------------------
(* StreamFormulaRewards                                                    *)

\* Every return of the function: its locals are gone.
Return ==
  /\ Finish
  /\ i' = 0 /\ total' = 0 /\ limit' = 0 /\ scaled' = 0
  /\ amt' = NoAmounts /\ cum' = NoAmounts /\ cutSum' = NoAmounts

\* Mutant: the guard against the first height is dropped.
FormulaStartAlways ==
  /\ Running("rewardstreamer") /\ fp.enabled
  /\ IF bal["reserve"] = 0
     THEN Return
     ELSE /\ phase' = "scan" /\ i' = 1
          /\ UNCHANGED <<order, height, pos, total, limit, scaled, amt, cum,
                         cutSum>>
  /\ UNCHANGED <<money, params>>

FormulaStart ==
  /\ Running("rewardstreamer") /\ fp.enabled
  /\ IF height <= 1 \/ bal["reserve"] = 0
     THEN Return
     ELSE /\ phase' = "scan" /\ i' = 1
          /\ UNCHANGED <<order, height, pos, total, limit, scaled, amt, cum,
                         cutSum>>
  /\ UNCHANGED <<money, params>>

\* One callback of IterateBondedValidatorsByPower.
FormulaScan ==
  LET pb == PerBlockReward(fp, stake[i])
  IN  /\ phase = "scan" /\ i <= NVals
      /\ amt' = [amt EXCEPT ![i] = pb]
      /\ total' = total + pb
      /\ cum' = [cum EXCEPT ![i] = total + pb]
      /\ i' = i + 1
      /\ UNCHANGED <<chain, money, params, limit, scaled, cutSum>>

FormulaLimit ==
  /\ phase = "scan" /\ i > NVals
  /\ IF total = 0 THEN Return
     ELSE /\ limit' = RoundLimit(fp, bal["reserve"])
          /\ phase' = IF total > RoundLimit(fp, bal["reserve"])
                      THEN "scale" ELSE "pay"
          /\ i' = 1
          /\ UNCHANGED <<order, height, pos, total, scaled, amt, cum, cutSum>>
  /\ UNCHANGED <<money, params>>

\* Mutant: the cut is summed but not stored in the allocation.
FormulaScaleSumOnly ==
  LET cut == Scaled(amt[i], limit, total)
  IN  /\ phase = "scale" /\ i <= NVals
      /\ scaled' = scaled + cut
      /\ cutSum' = [cutSum EXCEPT ![i] = scaled + cut]
      /\ i' = i + 1
      /\ UNCHANGED <<chain, money, params, total, limit, amt, cum>>

\* One iteration of the pro-rata cut.
FormulaScale ==
  LET cut == Scaled(amt[i], limit, total)
  IN  /\ phase = "scale" /\ i <= NVals
      /\ amt' = [amt EXCEPT ![i] = cut]
      /\ scaled' = scaled + cut
      /\ cutSum' = [cutSum EXCEPT ![i] = scaled + cut]
      /\ i' = i + 1
      /\ UNCHANGED <<chain, money, params, total, limit, cum>>

FormulaScaled ==
  /\ phase = "scale" /\ i > NVals
  /\ IF scaled = 0 THEN Return
     ELSE /\ total' = scaled /\ cum' = cutSum
          /\ phase' = "pay" /\ i' = 1
          /\ UNCHANGED <<order, height, pos, limit, scaled, amt, cutSum>>
  /\ UNCHANGED <<money, params>>

\* SendCoinsFromModuleToModule of the whole round; the bank refuses to
\* overdraw.
FormulaPay ==
  /\ phase = "pay"
  /\ \/ /\ total <= bal["reserve"]
        /\ bal' = Send(bal, "reserve", "distr", total)
        /\ spent' = spent + total
        /\ phase' = "credit"
        /\ UNCHANGED <<order, height, pos, round>>
     \/ /\ BankFaults \/ total > bal["reserve"]
        /\ Return
        /\ UNCHANGED <<bal, spent>>
  /\ UNCHANGED <<stake, outstanding, streamed, burned, params>>

\* One AllocateTokensToValidator.
FormulaCredit ==
  /\ phase = "credit" /\ i <= NVals
  /\ outstanding' = outstanding + amt[i]
  /\ i' = i + 1
  /\ UNCHANGED <<chain, bal, stake, streamed, spent, burned, params,
                 total, limit, scaled, amt, cum, cutSum>>

\* The loop is through, or one call failed and BeginBlock swallowed the error.
FormulaEnd ==
  /\ phase = "credit"
  /\ i > NVals \/ (BankFaults /\ i <= NVals /\ amt[i] > 0)
  /\ Return
  /\ UNCHANGED <<money, params>>

-----------------------------------------------------------------------------
(* Transactions, and the end of the block                                  *)

BeginBlockDone ==
  /\ phase = "begin" /\ pos > Len(order)
  /\ phase' = "txs"
  /\ UNCHANGED <<order, height, pos, money, params, round>>

\* Transfers of other modules: fees, a refill of the tail buffer, proposal
\* deposits and their refund, matured unbondings.
Transfers == {<<"users", "collector">>, <<"users", "tail">>,
              <<"users", "gov">>, <<"gov", "users">>,
              <<"notbonded", "users">>}

Transfer ==
  /\ phase = "txs"
  /\ \E t \in Transfers, a \in Amounts :
       a <= bal[t[1]] /\ bal' = Send(bal, t[1], t[2], a)
  /\ UNCHANGED <<chain, stake, outstanding, streamed, spent, burned,
                 params, round>>

Delegate ==
  /\ phase = "txs"
  /\ \E v \in Vals, a \in Amounts :
       /\ a <= bal["users"]
       /\ bal' = Send(bal, "users", "bonded", a)
       /\ stake' = [stake EXCEPT ![v] = @ + a]
  /\ UNCHANGED <<chain, outstanding, streamed, spent, burned, params, round>>

Undelegate ==
  /\ phase = "txs"
  /\ \E v \in Vals, a \in Amounts :
       /\ a <= stake[v] /\ a <= bal["bonded"]
       /\ bal' = Send(bal, "bonded", "notbonded", a)
       /\ stake' = [stake EXCEPT ![v] = @ - a]
  /\ UNCHANGED <<chain, outstanding, streamed, spent, burned, params, round>>

WithdrawRewards ==
  /\ phase = "txs"
  /\ \E a \in Amounts :
       /\ a <= outstanding /\ a <= bal["distr"]
       /\ bal' = Send(bal, "distr", "users", a)
       /\ outstanding' = outstanding - a
  /\ UNCHANGED <<chain, stake, streamed, spent, burned, params, round>>

\* x/gov keeps the plain bank keeper: a vetoed deposit is burned.
BurnDeposit ==
  /\ phase = "txs" /\ BurnDeposits
  /\ \E a \in Amounts :
       /\ a <= bal["gov"]
       /\ bal' = Burn(bal, "gov", a)
       /\ burned' = burned + a
  /\ UNCHANGED <<chain, stake, outstanding, streamed, spent, params, round>>

\* The gov-only UpdateParams handlers: an invalid value is refused.
UpdateFeeSplit ==
  /\ phase = "txs"
  /\ \E p \in FeeSplitChoices : ValidFeeSplit(p) /\ fs' = p
  /\ UNCHANGED <<chain, money, rs, fp, tr, round>>

UpdateStream ==
  /\ phase = "txs"
  /\ rs' \in StreamChoices
  /\ UNCHANGED <<chain, money, fs, fp, tr, round>>

UpdateFormula ==
  /\ phase = "txs"
  /\ \E p \in FormulaChoices : ValidFormula(p) /\ fp' = p
  /\ UNCHANGED <<chain, money, fs, rs, tr, round>>

UpdateTail ==
  /\ phase = "txs"
  /\ tr' \in TailChoices
  /\ UNCHANGED <<chain, money, fs, rs, fp, round>>

NextBlock ==
  /\ phase = "txs"
  /\ phase' = "begin" /\ pos' = 1 /\ height' = 2 /\ spent' = 0
  /\ UNCHANGED <<order, bal, stake, outstanding, streamed, burned,
                 params, round>>

-----------------------------------------------------------------------------
Formula == \/ FormulaStart \/ FormulaScan \/ FormulaLimit \/ FormulaScale
           \/ FormulaScaled \/ FormulaPay \/ FormulaCredit \/ FormulaEnd

BeginBlock == \/ FeeSplit \/ LegacyStream \/ TailStream \/ Distribute
              \/ Slash \/ OtherBeginBlock \/ Formula \/ BeginBlockDone

Txs == \/ Transfer \/ Delegate \/ Undelegate \/ WithdrawRewards
       \/ BurnDeposit \/ UpdateFeeSplit \/ UpdateStream \/ UpdateFormula
       \/ UpdateTail

Next == BeginBlock \/ Txs \/ NextBlock

Spec == Init /\ [][Next]_vars

\* CometBFT keeps committing blocks and a begin blocker always returns; no
\* transaction is promised.
FairSpec == Spec /\ WF_vars(BeginBlock) /\ WF_vars(NextBlock)

-----------------------------------------------------------------------------
(* Properties                                                              *)

InRound == phase \in {"scan", "scale", "pay", "credit"}

PlaceOK ==
  /\ order \in Seq(STRING) /\ ValidateBeginBlockOrder(order)
  /\ height \in {1, 2}
  /\ phase \in {"begin", "scan", "scale", "pay", "credit", "txs"}
  /\ pos \in 1..Len(order) + 1
  /\ InRound => height = 2 /\ pos <= Len(order) /\ order[pos] = "rewardstreamer"

MoneyOK ==
  /\ bal \in [Accounts -> Nat] /\ stake \in [Vals -> Nat]
  /\ outstanding \in Nat /\ streamed \in Nat /\ spent \in Nat
  /\ burned \in Nat

ParamsOK ==
  /\ ValidFeeSplit(fs) /\ rs \in StreamParams /\ tr \in StreamParams
  /\ ValidFormula(fp)

\* The locals of StreamFormulaRewards live only inside its call.
RoundOK ==
  /\ i \in Nat /\ total \in Nat /\ limit \in Nat /\ scaled \in Nat
  /\ amt \in [Vals -> Nat] /\ cum \in [Vals -> Nat]
  /\ cutSum \in [Vals -> Nat]
  /\ InRound => fp.enabled /\ i >= 1 /\ i <= NVals + 1
  /\ phase \in {"scale", "pay"} => total > 0
  /\ ~InRound => scaled = 0 /\ total = 0 /\ i = 0

TypeOK == PlaceOK /\ MoneyOK /\ ParamsOK /\ RoundOK

\* No begin blocker, fault or slash creates or destroys a coin: what is gone
\* from the supply is exactly what x/gov burned.
SupplyConserved == Supply(bal) + burned = Supply(GenesisBal)

\* When the fee split takes its share, no streamed reward is in the fee
\* collector, whatever order the wiring check let through, from the first
\* block on and after any fault (stream.go: the height guard; order.go).
RewardNeverSkimmed == Running("feesplit") => streamed = 0

\* A formula round, scaled or not, asks for no more than its limit, and the
\* limit is never more than the reserve holds (formula_stream.go: the
\* pro-rata cut "never overspend").
RoundCovered == phase = "pay" => total <= limit /\ limit <= bal["reserve"]

\* What a block takes out of the reserve stays within the per-block budget
\* of the stream that is switched on, at most one stream a block.
SpendWithinBudget ==
  phase # "txs" =>
    IF fp.enabled
    THEN MaxTotalPerBlock(fp) > 0 => spent <= MaxTotalPerBlock(fp)
    ELSE spent <= FixedPerBlock(rs)

\* However much a validator has bonded, a day of its credits is at most the
\* cap, before and after the pro-rata cut.
PerValidatorCap == phase = "credit" => \A v \in Vals : amt[v] * fp.bpd <= fp.cap

\* Both bounds of a round: what it spends in all, and on each validator.
RoundWithinLimits == SpendWithinBudget /\ PerValidatorCap

\* x/distribution never owes more than it holds, also when crediting stops
\* half way.
DistributionBacked == outstanding <= bal["distr"]

\* The inductive strengthening of the invariants above.

\* Streamed reward is in the collector only between the streams and
\* x/distribution of a block that distributes.
StreamInv ==
  /\ streamed <= bal["collector"]
  /\ streamed > 0 =>
       /\ phase # "txs" /\ height = 2
       /\ \E s, d \in 1..Len(order) :
            /\ order[s] = "feesplit" /\ order[d] = "distribution"
            /\ s < pos /\ pos <= d

\* The reserve is opened once a block, by the reward streamer.
SpendInv ==
  phase # "txs" /\ spent > 0 =>
    \E r \in 1..Len(order) :
      order[r] = "rewardstreamer" /\ (r < pos \/ (r = pos /\ phase = "credit"))

SumUpTo(k) == IF k <= 1 THEN 0 ELSE cum[k - 1]

\* No amount is above the cap, and no amount outlives its round.
AmountsCapped ==
  IF InRound THEN \A v \in Vals : amt[v] * fp.bpd <= fp.cap ELSE amt = NoAmounts

\* How the amounts of the round add up, loop by loop.
ScanSums ==
  phase = "scan" =>
    /\ scaled = 0 /\ total = SumUpTo(i)
    /\ \A v \in 1..i - 1 : cum[v] = SumUpTo(v) + amt[v] /\ cum[v] <= total

LimitHolds ==
  phase \in {"scale", "pay"} =>
    /\ limit <= bal["reserve"]
    /\ MaxTotalPerBlock(fp) > 0 => limit <= MaxTotalPerBlock(fp)
    /\ \A v \in Vals : cum[v] <= total

CutSumUpTo(k) == IF k <= 1 THEN 0 ELSE cutSum[k - 1]

CutSums ==
  phase = "scale" =>
    /\ limit < total
    /\ \A v \in i..NVals : cum[v] = SumUpTo(v) + amt[v]
    /\ scaled * total <= limit * SumUpTo(i)
    /\ scaled = CutSumUpTo(i)
    /\ \A v \in 1..i - 1 : /\ cutSum[v] = CutSumUpTo(v) + amt[v]
                           /\ cutSum[v] <= scaled

PaySums ==
  /\ phase = "pay" => total <= limit /\ i = 1
  /\ phase \in {"pay", "credit"} =>
       \A v \in Vals : cum[v] = SumUpTo(v) + amt[v] /\ cum[v] <= total

\* What is still to be credited has been paid in.
CreditCovered ==
  phase = "credit" => outstanding + (total - SumUpTo(i)) <= bal["distr"]

RoundInv == /\ AmountsCapped /\ ScanSums /\ LimitHolds /\ CutSums /\ PaySums
            /\ CreditCovered

IInv == /\ TypeOK /\ SupplyConserved /\ StreamInv /\ SpendInv
        /\ RoundInv /\ DistributionBacked /\ SpendWithinBudget

\* A reserve that keeps paying runs dry, down to less than one unit for each
\* validator (the dust a pro-rata cut rounds to nothing): no guard and no
\* bank refusal leaves it stuck above that.
PaysSomething == fp.enabled /\ \E v \in Vals : PerBlockReward(fp, stake[v]) > 0

ReserveRunsDry == <>[]PaysSomething => <>(bal["reserve"] < NVals)

\* The routing as a whole: reward coins only reach validators, the faucet is
\* fed only from fees and slashes.
Flow == INSTANCE MoneyFlow WITH
  reward      <- bal["reserve"] + bal["tail"] + streamed,
  public      <- bal["faucet"],
  circulating <- (bal["collector"] - streamed) + bal["distr"] + bal["bonded"]
                   + bal["notbonded"] + bal["gov"] + bal["users"],
  burned      <- burned

FlowSpec == Flow!Spec
=============================================================================
