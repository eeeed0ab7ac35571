---------------------------- MODULE Chain_proofs ----------------------------
(***************************************************************************)
(* Theorems about the chain's own modules.                                 *)
(*                                                                         *)
(* GembaEconomy, for every number of validators, every set of              *)
(* begin-blocker orders, parameters, balances and amounts: types and the   *)
(* place of the formula round, then each invariant of its own from that,   *)
(* the rounds of the reward streamer last.                                 *)
(*                                                                         *)
(* ValGate, for any transactions, calls and params: every validator came   *)
(* in within the limits and grows within the daily cap, whatever fails,    *)
(* reverts and nests.  A store is replaced by an older one when a message, *)
(* a frame or the post-handler fails, so the invariants speak of the       *)
(* running store and of the one each open frame would restore.             *)
(***************************************************************************)
EXTENDS GembaEconomy, ValGate, SequenceTheorems, SetSums_proofs


-----------------------------------------------------------------------------
(* The reward arithmetic, for every parameter record and stake             *)

\* The pro-rata cut only lowers an allocation, and the cut allocations of a
\* prefix of the validators stay within the same fraction of the limit.
LEMMA ScaledBounds ==
  ASSUME NEW a \in Nat, NEW lim \in Nat, NEW sum \in Nat \ {0},
         lim <= sum
  PROVE  Scaled(a, lim, sum) \in Nat /\ Scaled(a, lim, sum) <= a
<1>1. a * lim = lim * a
  OBVIOUS
<1> QED
  BY <1>1, ShareBounds DEF Scaled

LEMMA ScaledStep ==
  ASSUME NEW s \in Nat, NEW u \in Nat, NEW a \in Nat, NEW lim \in Nat,
         NEW sum \in Nat \ {0}, s * sum <= lim * u
  PROVE  (s + Scaled(a, lim, sum)) * sum <= lim * (u + a)
<1> DEFINE q == (a * lim) \div sum
<1>1. a * lim \in Nat
  OBVIOUS
<1>2. q \in Nat /\ q * sum <= a * lim
  BY <1>1, DivNat
<1> HIDE DEF q
<1>3. (s + q) * sum = s * sum + q * sum
  BY <1>2
<1>4. lim * (u + a) = lim * u + a * lim
  OBVIOUS
<1>5. (s + q) * sum <= lim * (u + a)
  BY <1>1, <1>2, <1>3, <1>4
<1> QED
  BY <1>5 DEF q, Scaled

\* However large the stake, a day's reward is at most the cap, and with a cap
\* of at least the floor any stake at all earns the floor.
LEMMA DailyRewardBounds ==
  ASSUME NEW p \in FormulaParams, NEW st \in Nat
  PROVE  /\ DailyReward(p, st) \in Nat
         /\ DailyReward(p, st) <= p.cap
         /\ st > 0 /\ p.floor <= p.cap => p.floor <= DailyReward(p, st)
<1> DEFINE r == (st * p.num) \div p.den
<1>1. p.num \in Nat /\ p.den \in Nat \ {0} /\ p.floor \in Nat /\ p.cap \in Nat
  BY DEF FormulaParams
<1>2. r \in Nat
  <2>1. st * p.num \in Nat
    BY <1>1
  <2> QED
    BY <1>1, <2>1, DivNat
<1> HIDE DEF r
<1>3. DailyReward(p, st)
        = IF st = 0 THEN 0 ELSE CutToCap(p, RaiseToFloor(p, r))
  BY DEF DailyReward, r
<1> QED
  BY <1>1, <1>2, <1>3 DEF CutToCap, RaiseToFloor

\* BlocksPerDay blocks of one validator's reward stay within the daily cap.
LEMMA PerBlockBounds ==
  ASSUME NEW p \in FormulaParams, NEW st \in Nat
  PROVE  /\ PerBlockReward(p, st) \in Nat
         /\ PerBlockReward(p, st) * p.bpd <= p.cap
<1> DEFINE d == DailyReward(p, st)
<1>1. p.bpd \in Nat \ {0} /\ p.cap \in Nat
  BY DEF FormulaParams
<1>2. d \in Nat /\ d <= p.cap
  BY DailyRewardBounds
<1> HIDE DEF d
<1>3. d \div p.bpd \in Nat /\ (d \div p.bpd) * p.bpd <= d
  BY <1>1, <1>2, DivNat
<1> QED
  BY <1>1, <1>2, <1>3 DEF PerBlockReward, d

\* The limit of a round covers both the reserve and the budget.
LEMMA RoundLimitBounds ==
  ASSUME NEW p \in FormulaParams, NEW reserve \in Nat
  PROVE  /\ MaxTotalPerBlock(p) \in Nat
         /\ RoundLimit(p, reserve) \in Nat
         /\ RoundLimit(p, reserve) <= reserve
         /\ MaxTotalPerBlock(p) > 0
              => RoundLimit(p, reserve) <= MaxTotalPerBlock(p)
<1>1. p.maxTotal \in Nat /\ p.bpd \in Nat \ {0}
  BY DEF FormulaParams
<1>2. MaxTotalPerBlock(p) \in Nat
  BY <1>1, DivNat DEF MaxTotalPerBlock
<1> QED
  BY <1>2 DEF RoundLimit, MinInt

\* The fixed streams never overdraw, and stream nothing at height 1.
LEMMA FixedSliceBounds ==
  ASSUME NEW p \in StreamParams, NEW h \in Nat, NEW available \in Nat
  PROVE  /\ FixedPerBlock(p) \in Nat
         /\ FixedSlice(p, h, available) \in Nat
         /\ FixedSlice(p, h, available) <= available
         /\ FixedSlice(p, h, available) <= FixedPerBlock(p)
         /\ h <= 1 => FixedSlice(p, h, available) = 0
<1>1. p.annual \in Nat /\ p.bpy \in Nat \ {0}
  BY DEF StreamParams
<1>2. FixedPerBlock(p) \in Nat
  BY <1>1, DivNat DEF FixedPerBlock
<1> QED
  BY <1>2 DEF FixedSlice, MinInt

-----------------------------------------------------------------------------
(* Transfers and the ledger                                                *)

\* What a covered transfer between two different accounts does.
LEMMA SendFacts ==
  ASSUME NEW b \in [Accounts -> Nat], NEW from \in Accounts, NEW to \in Accounts,
         from # to, NEW a \in Nat, a <= b[from]
  PROVE  /\ Send(b, from, to, a) \in [Accounts -> Nat]
         /\ Supply(Send(b, from, to, a)) = Supply(b)
         /\ Send(b, from, to, a)[from] = b[from] - a
         /\ Send(b, from, to, a)[to] = b[to] + a
         /\ \A c \in Accounts \ {from, to} : Send(b, from, to, a)[c] = b[c]
<1> DEFINE s == Send(b, from, to, a)
<1>1. s \in [Accounts -> Nat]
  BY DEF Send
<1>2. s[from] = b[from] - a /\ s[to] = b[to] + a
  BY DEF Send
<1>3. \A c \in Accounts \ {from, to} : s[c] = b[c]
  BY DEF Send
<1>4. Supply(s) = Supply(b)
  BY <1>1, <1>2, <1>3 DEF Supply, Accounts
<1> QED
  BY <1>1, <1>2, <1>3, <1>4

\* A covered burn takes its amount out of the supply.
LEMMA BurnFacts ==
  ASSUME NEW b \in [Accounts -> Nat], NEW from \in Accounts,
         NEW a \in Nat, a <= b[from]
  PROVE  /\ Burn(b, from, a) \in [Accounts -> Nat]
         /\ Supply(Burn(b, from, a)) + a = Supply(b)
         /\ Burn(b, from, a)[from] = b[from] - a
         /\ \A c \in Accounts \ {from} : Burn(b, from, a)[c] = b[c]
<1> DEFINE s == Burn(b, from, a)
<1>1. s \in [Accounts -> Nat] /\ s[from] = b[from] - a
  BY DEF Burn
<1>2. \A c \in Accounts \ {from} : s[c] = b[c]
  BY DEF Burn
<1>3. Supply(s) + a = Supply(b)
  BY <1>1, <1>2 DEF Supply, Accounts
<1> QED
  BY <1>1, <1>2, <1>3

LEMMA AccountNames ==
  /\ "reserve" \in Accounts /\ "tail" \in Accounts /\ "collector" \in Accounts
  /\ "faucet" \in Accounts /\ "distr" \in Accounts /\ "bonded" \in Accounts
  /\ "notbonded" \in Accounts /\ "gov" \in Accounts /\ "users" \in Accounts
  BY DEF Accounts

\* The faucet share of any amount is covered by it.
LEMMA FaucetShareBounds ==
  ASSUME ValidFeeSplit(fs), NEW a \in Nat
  PROVE  FaucetShare(a) \in Nat /\ FaucetShare(a) <= a
<1>1. fs.num \in Nat /\ fs.den \in Nat \ {0} /\ fs.num <= fs.den
  BY DEF ValidFeeSplit, FeeSplitParams
<1>2. (fs.num * a) \div fs.den \in Nat /\ (fs.num * a) \div fs.den <= a
  BY <1>1, ShareBounds
<1> QED
  BY <1>2 DEF FaucetShare

-----------------------------------------------------------------------------
(* Types                                                                   *)

LEMMA PlaceKept ==
  /\ MoneyOK /\ UNCHANGED money => MoneyOK'
  /\ ParamsOK /\ UNCHANGED params => ParamsOK'
  /\ RoundOK /\ UNCHANGED round /\ UNCHANGED <<fp, phase>> => RoundOK'
<1>1. MoneyOK /\ UNCHANGED money => MoneyOK'
  BY DEF money, MoneyOK
<1>2. ParamsOK /\ UNCHANGED params => ParamsOK'
  BY DEF params, ParamsOK
<1>3. RoundOK /\ UNCHANGED round /\ UNCHANGED <<fp, phase>> => RoundOK'
  BY DEF round, RoundOK, InRound
<1> QED
  BY <1>1, <1>2, <1>3

\* A begin blocker that changes no local of the round hands over to the next.
LEMMA FinishTypes ==
  ASSUME PlaceOK, RoundOK, phase = "begin", pos \in 1..Len(order), Finish,
         UNCHANGED round
  PROVE  PlaceOK' /\ RoundOK'
<1>1. Len(order) \in Nat
  BY DEF PlaceOK
<1>2. PlaceOK'
  BY <1>1 DEF PlaceOK, Finish, InRound
<1>3. RoundOK'
  BY DEF RoundOK, Finish, InRound, round
<1> QED
  BY <1>2, <1>3

\* So does every return of StreamFormulaRewards.
LEMMA ReturnTypes ==
  ASSUME PlaceOK, RoundOK, pos \in 1..Len(order), Return
  PROVE  PlaceOK' /\ RoundOK'
<1>1. Len(order) \in Nat
  BY DEF PlaceOK
<1>2. PlaceOK'
  BY <1>1 DEF PlaceOK, Return, Finish, InRound
<1>3. RoundOK'
  BY DEF RoundOK, Return, Finish, InRound, NoAmounts, Vals
<1> QED
  BY <1>2, <1>3

LEMMA BeginBlockTypes ==
  ASSUME TypeOK,
         \/ FeeSplit \/ LegacyStream \/ TailStream \/ Distribute \/ Slash
         \/ OtherBeginBlock
  PROVE  TypeOK'
<1>1. Finish /\ UNCHANGED params /\ UNCHANGED round
      /\ phase = "begin" /\ pos \in 1..Len(order)
  BY DEF FeeSplit, LegacyStream, TailStream, Distribute, Slash,
         OtherBeginBlock, Running
<1>2. PlaceOK' /\ RoundOK' /\ ParamsOK'
  BY <1>1, FinishTypes, PlaceKept DEF TypeOK
<1>3. MoneyOK'
  <2>0. bal \in [Accounts -> Nat] /\ streamed \in Nat /\ height \in Nat
        /\ bal["collector"] \in Nat /\ bal["reserve"] \in Nat
        /\ bal["tail"] \in Nat /\ rs \in StreamParams /\ tr \in StreamParams
    BY AccountNames DEF TypeOK, MoneyOK, PlaceOK, ParamsOK
  <2>1. CASE FeeSplit
    <3>1. FaucetShare(bal["collector"]) \in Nat
          /\ FaucetShare(bal["collector"]) <= bal["collector"]
          /\ FaucetShare(streamed) \in Nat /\ FaucetShare(streamed) <= streamed
      BY <2>0, FaucetShareBounds DEF TypeOK, ParamsOK
    <3>2. Send(bal, "collector", "faucet", FaucetShare(bal["collector"]))
            \in [Accounts -> Nat]
      BY <2>0, <3>1, SendFacts, AccountNames
    <3>3. bal' \in [Accounts -> Nat] /\ streamed' \in Nat
          /\ UNCHANGED <<stake, outstanding, spent, burned>>
      BY <2>0, <2>1, <3>1, <3>2 DEF FeeSplit
    <3> QED
      BY <3>3 DEF MoneyOK, TypeOK
  <2>2. CASE LegacyStream
    <3> DEFINE amount == FixedSlice(rs, height, bal["reserve"])
    <3>1. amount \in Nat /\ amount <= bal["reserve"]
      BY <2>0, FixedSliceBounds
    <3>2. Send(bal, "reserve", "collector", amount) \in [Accounts -> Nat]
      BY <2>0, <3>1, SendFacts, AccountNames
    <3>3. bal' \in {bal, Send(bal, "reserve", "collector", amount)}
          /\ streamed' \in {streamed, streamed + amount}
          /\ spent' \in {spent, spent + amount}
          /\ UNCHANGED <<stake, outstanding, burned>>
      BY <2>2 DEF LegacyStream
    <3> HIDE DEF amount
    <3> QED
      BY <2>0, <3>1, <3>2, <3>3 DEF MoneyOK, TypeOK
  <2>3. CASE TailStream
    <3> DEFINE amount == FixedSlice(tr, height, bal["tail"])
    <3>1. amount \in Nat /\ amount <= bal["tail"]
      BY <2>0, FixedSliceBounds
    <3>2. Send(bal, "tail", "collector", amount) \in [Accounts -> Nat]
      BY <2>0, <3>1, SendFacts, AccountNames
    <3>3. bal' \in {bal, Send(bal, "tail", "collector", amount)}
          /\ streamed' \in {streamed, streamed + amount}
          /\ UNCHANGED <<stake, outstanding, spent, burned>>
      BY <2>3 DEF TailStream
    <3> HIDE DEF amount
    <3> QED
      BY <2>0, <3>1, <3>2, <3>3 DEF MoneyOK, TypeOK
  <2>4. CASE Distribute
    <3>1. Send(bal, "collector", "distr", bal["collector"]) \in [Accounts -> Nat]
      BY <2>0, SendFacts, AccountNames
    <3> QED
      BY <2>0, <2>4, <3>1 DEF Distribute, MoneyOK, TypeOK
  <2>5. CASE Slash
    <3>1. ASSUME NEW a \in Amounts, NEW pool \in Pools, a <= bal[pool]
          PROVE  BurnCoins(pool, a) \in [Accounts -> Nat]
      BY <2>0, <3>1, SendFacts, AccountNames, AmountsAssumption
      DEF BurnCoins, Pools
    <3>2. bal' \in [Accounts -> Nat]
      BY <2>0, <2>5, <3>1 DEF Slash, Pools
    <3>3. stake' \in [Vals -> Nat]
      BY <2>5, AmountsAssumption DEF Slash, TypeOK, MoneyOK
    <3> QED
      BY <2>5, <3>2, <3>3 DEF Slash, MoneyOK, TypeOK
  <2>6. CASE OtherBeginBlock
    BY <2>6, PlaceKept DEF OtherBeginBlock, TypeOK
  <2> QED
    BY <2>1, <2>2, <2>3, <2>4, <2>5, <2>6
<1> QED
  BY <1>2, <1>3 DEF TypeOK

LEMMA FormulaTypes ==
  ASSUME TypeOK, Formula
  PROVE  TypeOK'
<1>0. /\ PlaceOK /\ MoneyOK /\ ParamsOK /\ RoundOK
      /\ NVals \in Nat /\ fp \in FormulaParams
  BY NValsAssumption DEF TypeOK, ParamsOK, ValidFormula
<1>1. CASE FormulaStart
  <2>1. MoneyOK' /\ ParamsOK'
    BY <1>0, <1>1, PlaceKept DEF FormulaStart
  <2>2. pos \in 1..Len(order)
    BY <1>1 DEF FormulaStart, Running
  <2>3. CASE Return
    BY <1>0, <2>1, <2>2, <2>3, ReturnTypes DEF TypeOK
  <2>4. CASE ~Return
    <3>1. PlaceOK'
      BY <1>0, <1>1, <2>2, <2>4 DEF FormulaStart, Running, PlaceOK, InRound
    <3>2. RoundOK'
      BY <1>0, <1>1, <2>4 DEF FormulaStart, Running, RoundOK, InRound, params
    <3> QED
      BY <2>1, <3>1, <3>2 DEF TypeOK
  <2> QED
    BY <2>3, <2>4
<1>2. CASE FormulaScan
  <2>1. MoneyOK' /\ ParamsOK'
    BY <1>0, <1>2, PlaceKept DEF FormulaScan
  <2>2. PlaceOK'
    BY <1>0, <1>2 DEF FormulaScan, PlaceOK, InRound, chain
  <2>3. i \in Vals /\ stake[i] \in Nat
    BY <1>0, <1>2 DEF FormulaScan, RoundOK, InRound, MoneyOK, Vals
  <2>4. PerBlockReward(fp, stake[i]) \in Nat
    BY <1>0, <2>3, PerBlockBounds
  <2>5. RoundOK'
    BY <1>0, <1>2, <2>3, <2>4, SMTT(60)
    DEF FormulaScan, RoundOK, InRound, chain, params, Vals
  <2> QED
    BY <2>1, <2>2, <2>5 DEF TypeOK
<1>3. CASE FormulaLimit
  <2>1. MoneyOK' /\ ParamsOK'
    BY <1>0, <1>3, PlaceKept DEF FormulaLimit
  <2>2. pos \in 1..Len(order) /\ phase = "scan"
    BY <1>0, <1>3 DEF FormulaLimit, PlaceOK, InRound
  <2>3. CASE total = 0
    BY <1>0, <1>3, <2>1, <2>2, <2>3, ReturnTypes DEF FormulaLimit, TypeOK
  <2>4. CASE total # 0
    <3>1. bal["reserve"] \in Nat
      BY <1>0, AccountNames DEF MoneyOK
    <3>2. RoundLimit(fp, bal["reserve"]) \in Nat
      BY <1>0, <3>1, RoundLimitBounds
    <3>3. PlaceOK'
      BY <1>0, <1>3, <2>2, <2>4 DEF FormulaLimit, PlaceOK, InRound
    <3>4. RoundOK'
      BY <1>0, <1>3, <2>2, <2>4, <3>2 DEF FormulaLimit, RoundOK, InRound, params
    <3> QED
      BY <2>1, <3>3, <3>4 DEF TypeOK
  <2> QED
    BY <2>3, <2>4
<1>4. CASE FormulaScale
  <2>1. MoneyOK' /\ ParamsOK'
    BY <1>0, <1>4, PlaceKept DEF FormulaScale
  <2>2. PlaceOK'
    BY <1>0, <1>4 DEF FormulaScale, PlaceOK, InRound, chain
  <2>3. i \in Vals /\ amt[i] \in Nat /\ limit \in Nat /\ total \in Nat \ {0}
    BY <1>0, <1>4 DEF FormulaScale, RoundOK, InRound, Vals
  <2>4. Scaled(amt[i], limit, total) \in Nat
    <3>1. amt[i] * limit \in Nat
      BY <2>3
    <3> QED
      BY <2>3, <3>1, DivNat DEF Scaled
  <2>5. RoundOK'
    BY <1>0, <1>4, <2>3, <2>4, SMTT(60)
    DEF FormulaScale, RoundOK, InRound, chain, params, Vals
  <2> QED
    BY <2>1, <2>2, <2>5 DEF TypeOK
<1>5. CASE FormulaScaled
  <2>1. MoneyOK' /\ ParamsOK'
    BY <1>0, <1>5, PlaceKept DEF FormulaScaled
  <2>2. pos \in 1..Len(order) /\ phase = "scale"
    BY <1>0, <1>5 DEF FormulaScaled, PlaceOK, InRound
  <2>3. CASE scaled = 0
    BY <1>0, <1>5, <2>1, <2>2, <2>3, ReturnTypes DEF FormulaScaled, TypeOK
  <2>4. CASE scaled # 0
    <3>1. PlaceOK'
      BY <1>0, <1>5, <2>2, <2>4 DEF FormulaScaled, PlaceOK, InRound
    <3>2. RoundOK'
      BY <1>0, <1>5, <2>2, <2>4 DEF FormulaScaled, RoundOK, InRound, params
    <3> QED
      BY <2>1, <3>1, <3>2 DEF TypeOK
  <2> QED
    BY <2>3, <2>4
<1>6. CASE FormulaPay
  <2>1. ParamsOK' /\ phase = "pay" /\ pos \in 1..Len(order)
    BY <1>0, <1>6, PlaceKept DEF FormulaPay, PlaceOK, InRound
  <2>2. CASE Return /\ UNCHANGED <<bal, spent>>
    <3>1. MoneyOK'
      BY <1>0, <1>6, <2>2 DEF FormulaPay, MoneyOK
    <3> QED
      BY <1>0, <2>1, <2>2, <3>1, ReturnTypes DEF TypeOK
  <2>3. CASE /\ total <= bal["reserve"]
             /\ bal' = Send(bal, "reserve", "distr", total)
             /\ spent' = spent + total /\ phase' = "credit"
             /\ UNCHANGED <<order, height, pos, round>>
    <3>1. bal' \in [Accounts -> Nat]
      BY <1>0, <2>3, SendFacts, AccountNames DEF MoneyOK, RoundOK
    <3>2. MoneyOK'
      BY <1>0, <1>6, <2>3, <3>1 DEF FormulaPay, MoneyOK, RoundOK
    <3>3. PlaceOK'
      BY <1>0, <2>1, <2>3 DEF PlaceOK, InRound
    <3>4. RoundOK'
      BY <1>0, <1>6, <2>1, <2>3
      DEF FormulaPay, RoundOK, InRound, params, round
    <3> QED
      BY <2>1, <3>2, <3>3, <3>4 DEF TypeOK
  <2> QED
    BY <1>6, <2>2, <2>3 DEF FormulaPay
<1>7. CASE FormulaCredit
  <2>1. i \in Vals /\ amt[i] \in Nat
    BY <1>0, <1>7 DEF FormulaCredit, RoundOK, InRound, Vals
  <2>2. MoneyOK'
    BY <1>0, <1>7, <2>1 DEF FormulaCredit, MoneyOK
  <2>3. ParamsOK'
    BY <1>0, <1>7, PlaceKept DEF FormulaCredit
  <2>4. PlaceOK'
    BY <1>0, <1>7 DEF FormulaCredit, PlaceOK, InRound, chain
  <2>5. RoundOK'
    BY <1>0, <1>7, <2>1
    DEF FormulaCredit, RoundOK, InRound, chain, params, Vals
  <2> QED
    BY <2>2, <2>3, <2>4, <2>5 DEF TypeOK
<1>8. CASE FormulaEnd
  <2>1. MoneyOK' /\ ParamsOK' /\ pos \in 1..Len(order)
    BY <1>0, <1>8, PlaceKept DEF FormulaEnd, PlaceOK, InRound
  <2> QED
    BY <1>0, <1>8, <2>1, ReturnTypes DEF FormulaEnd, TypeOK
<1> QED
  BY <1>1, <1>2, <1>3, <1>4, <1>5, <1>6, <1>7, <1>8 DEF Formula

\* Transactions leave the begin blockers alone, and governance only sets
\* parameters that Validate accepts.
LEMMA TxsTypes ==
  ASSUME TypeOK, Txs
  PROVE  TypeOK' /\ UNCHANGED chain /\ UNCHANGED round /\ phase = "txs"
<1>0. PlaceOK /\ MoneyOK /\ ParamsOK /\ RoundOK
  BY DEF TypeOK
<1>1. UNCHANGED chain /\ UNCHANGED round /\ phase = "txs"
  BY DEF Txs, Transfer, Delegate, Undelegate, WithdrawRewards, BurnDeposit,
         UpdateFeeSplit, UpdateStream, UpdateFormula, UpdateTail
<1>2. PlaceOK'
  BY <1>0, <1>1 DEF PlaceOK, InRound, chain
<1>3. RoundOK'
  BY <1>0, <1>1 DEF RoundOK, InRound, chain, round
<1>4. ParamsOK'
  BY <1>0, ChoicesAssumption
  DEF Txs, Transfer, Delegate, Undelegate, WithdrawRewards, BurnDeposit,
      UpdateFeeSplit, UpdateStream, UpdateFormula, UpdateTail, params, ParamsOK
<1>5. MoneyOK'
  <2>1. CASE Transfer
    <3>1. PICK t \in Transfers, a \in Amounts :
            a <= bal[t[1]] /\ bal' = Send(bal, t[1], t[2], a)
      BY <2>1 DEF Transfer
    <3>2. t[1] \in Accounts /\ t[2] \in Accounts /\ t[1] # t[2]
      BY AccountNames DEF Transfers
    <3>3. bal' \in [Accounts -> Nat]
      BY <1>0, <3>1, <3>2, SendFacts, AmountsAssumption DEF MoneyOK
    <3> QED
      BY <1>0, <2>1, <3>3 DEF Transfer, MoneyOK
  <2>2. CASE Delegate
    <3>1. PICK v \in Vals, a \in Amounts :
            /\ a <= bal["users"] /\ bal' = Send(bal, "users", "bonded", a)
            /\ stake' = [stake EXCEPT ![v] = @ + a]
      BY <2>2 DEF Delegate
    <3>2. bal' \in [Accounts -> Nat]
      BY <1>0, <3>1, SendFacts, AccountNames, AmountsAssumption DEF MoneyOK
    <3>3. stake' \in [Vals -> Nat]
      BY <1>0, <3>1, AmountsAssumption DEF MoneyOK
    <3> QED
      BY <1>0, <2>2, <3>2, <3>3 DEF Delegate, MoneyOK
  <2>3. CASE Undelegate
    <3>1. PICK v \in Vals, a \in Amounts :
            /\ a <= stake[v] /\ a <= bal["bonded"]
            /\ bal' = Send(bal, "bonded", "notbonded", a)
            /\ stake' = [stake EXCEPT ![v] = @ - a]
      BY <2>3 DEF Undelegate
    <3>2. bal' \in [Accounts -> Nat]
      BY <1>0, <3>1, SendFacts, AccountNames, AmountsAssumption DEF MoneyOK
    <3>3. stake' \in [Vals -> Nat]
      BY <1>0, <3>1, AmountsAssumption DEF MoneyOK
    <3> QED
      BY <1>0, <2>3, <3>2, <3>3 DEF Undelegate, MoneyOK
  <2>4. CASE WithdrawRewards
    <3>1. PICK a \in Amounts :
            /\ a <= outstanding /\ a <= bal["distr"]
            /\ bal' = Send(bal, "distr", "users", a)
            /\ outstanding' = outstanding - a
      BY <2>4 DEF WithdrawRewards
    <3>2. bal' \in [Accounts -> Nat]
      BY <1>0, <3>1, SendFacts, AccountNames, AmountsAssumption DEF MoneyOK
    <3>3. outstanding' \in Nat
      BY <1>0, <3>1, AmountsAssumption DEF MoneyOK
    <3> QED
      BY <1>0, <2>4, <3>2, <3>3 DEF WithdrawRewards, MoneyOK
  <2>5. CASE BurnDeposit
    <3>1. PICK a \in Amounts :
            /\ a <= bal["gov"] /\ bal' = Burn(bal, "gov", a)
            /\ burned' = burned + a
      BY <2>5 DEF BurnDeposit
    <3>2. bal' \in [Accounts -> Nat]
      BY <1>0, <3>1, BurnFacts, AccountNames, AmountsAssumption DEF MoneyOK
    <3>3. burned' \in Nat
      BY <1>0, <3>1, AmountsAssumption DEF MoneyOK
    <3> QED
      BY <1>0, <2>5, <3>2, <3>3 DEF BurnDeposit, MoneyOK
  <2>6. CASE UpdateFeeSplit \/ UpdateStream \/ UpdateFormula \/ UpdateTail
    BY <1>0, <2>6, PlaceKept
    DEF UpdateFeeSplit, UpdateStream, UpdateFormula, UpdateTail
  <2> QED
    BY <2>1, <2>2, <2>3, <2>4, <2>5, <2>6 DEF Txs
<1> QED
  BY <1>1, <1>2, <1>3, <1>4, <1>5 DEF TypeOK

LEMMA BlockEdgeTypes ==
  ASSUME TypeOK, BeginBlockDone \/ NextBlock \/ UNCHANGED vars
  PROVE  TypeOK'
<1>0. PlaceOK /\ MoneyOK /\ ParamsOK /\ RoundOK /\ Len(order) \in Nat
  BY DEF TypeOK, PlaceOK
<1>1. MoneyOK' /\ ParamsOK'
  BY <1>0
  DEF BeginBlockDone, NextBlock, vars, money, params, MoneyOK, ParamsOK
<1>2. PlaceOK'
  BY <1>0 DEF BeginBlockDone, NextBlock, vars, chain, PlaceOK, InRound
<1>3. RoundOK'
  BY <1>0
  DEF BeginBlockDone, NextBlock, vars, chain, round, params, RoundOK, InRound
<1> QED
  BY <1>1, <1>2, <1>3 DEF TypeOK

LEMMA TypeInit == Init => TypeOK
<1> SUFFICES ASSUME Init PROVE TypeOK
  OBVIOUS
<1>1. order \in Seq(STRING) /\ ValidateBeginBlockOrder(order)
  BY OrdersAssumption DEF Init
<1>2. Len(order) \in Nat
  BY <1>1
<1>3. PlaceOK
  BY <1>1, <1>2 DEF Init, PlaceOK, InRound
<1>4. MoneyOK
  BY GenesisAssumption DEF Init, MoneyOK
<1>5. ParamsOK
  BY ChoicesAssumption DEF Init, ParamsOK
<1>6. RoundOK
  BY NValsAssumption DEF Init, RoundOK, InRound, NoAmounts, Vals
<1> QED
  BY <1>3, <1>4, <1>5, <1>6 DEF TypeOK

LEMMA TypeStep == TypeOK /\ [Next]_vars => TypeOK'
  BY BeginBlockTypes, FormulaTypes, TxsTypes, BlockEdgeTypes
  DEF Next, BeginBlock

\* Balances, loop locals and parameters keep their types, and the locals of
\* StreamFormulaRewards are live only inside its call: no transfer in any
\* block overdraws an account.
THEOREM TypeCorrect == Spec => []TypeOK
  BY TypeInit, TypeStep, PTL DEF Spec

-----------------------------------------------------------------------------
(* Supply                                                                  *)

CoveredSend ==
  /\ burned' = burned
  /\ \E from, to \in Accounts, a \in Nat :
       from # to /\ a <= bal[from] /\ bal' = Send(bal, from, to, a)

CoveredBurn ==
  \E a \in Nat :
    a <= bal["gov"] /\ bal' = Burn(bal, "gov", a) /\ burned' = burned + a

\* Every step of the chain moves coins between two accounts, burns a gov
\* deposit, or leaves the balances alone.
LEMMA MoneyStep ==
  ASSUME TypeOK, [Next]_vars
  PROVE  CoveredSend \/ CoveredBurn \/ UNCHANGED <<bal, burned>>
<1>0. /\ bal \in [Accounts -> Nat] /\ streamed \in Nat /\ height \in Nat
      /\ bal["collector"] \in Nat /\ bal["reserve"] \in Nat
      /\ bal["tail"] \in Nat /\ rs \in StreamParams /\ tr \in StreamParams
      /\ total \in Nat
  BY AccountNames, SMTT(60) DEF TypeOK, MoneyOK, PlaceOK, ParamsOK, RoundOK
<1>1. CASE FeeSplit
  <2>1. FaucetShare(bal["collector"]) \in Nat
        /\ FaucetShare(bal["collector"]) <= bal["collector"]
    BY <1>0, FaucetShareBounds DEF TypeOK, ParamsOK
  <2> QED
    BY <1>1, <2>1, AccountNames DEF FeeSplit, CoveredSend
<1>2. CASE LegacyStream
  <2>1. FixedSlice(rs, height, bal["reserve"]) \in Nat
        /\ FixedSlice(rs, height, bal["reserve"]) <= bal["reserve"]
    BY <1>0, FixedSliceBounds
  <2> QED
    BY <1>2, <2>1, AccountNames DEF LegacyStream, CoveredSend
<1>3. CASE TailStream
  <2>1. FixedSlice(tr, height, bal["tail"]) \in Nat
        /\ FixedSlice(tr, height, bal["tail"]) <= bal["tail"]
    BY <1>0, FixedSliceBounds
  <2> QED
    BY <1>3, <2>1, AccountNames DEF TailStream, CoveredSend
<1>4. CASE Distribute
  BY <1>0, <1>4, AccountNames DEF Distribute, CoveredSend
<1>5. CASE Slash
  BY <1>0, <1>5, AccountNames, AmountsAssumption
  DEF Slash, BurnCoins, Pools, CoveredSend
<1>6. CASE FormulaPay
  BY <1>0, <1>6, AccountNames DEF FormulaPay, CoveredSend
<1>7. CASE Transfer
  <2>1. \A t \in Transfers : t[1] \in Accounts /\ t[2] \in Accounts /\ t[1] # t[2]
    BY AccountNames DEF Transfers
  <2> QED
    BY <1>7, <2>1, AmountsAssumption DEF Transfer, CoveredSend
<1>8. CASE Delegate \/ Undelegate \/ WithdrawRewards
  BY <1>8, AccountNames, AmountsAssumption
  DEF Delegate, Undelegate, WithdrawRewards, CoveredSend
<1>9. CASE BurnDeposit
  BY <1>9, AmountsAssumption DEF BurnDeposit, CoveredBurn
<1>10. CASE \/ OtherBeginBlock \/ BeginBlockDone \/ NextBlock \/ UNCHANGED vars
            \/ UpdateFeeSplit \/ UpdateStream \/ UpdateFormula \/ UpdateTail
  BY <1>10
  DEF OtherBeginBlock, BeginBlockDone, NextBlock, vars, money, UpdateFeeSplit,
      UpdateStream, UpdateFormula, UpdateTail
<1>11. CASE \/ FormulaStart \/ FormulaScan \/ FormulaLimit \/ FormulaScale
            \/ FormulaScaled \/ FormulaCredit \/ FormulaEnd
  BY <1>11
  DEF FormulaStart, FormulaScan, FormulaLimit, FormulaScale, FormulaScaled,
      FormulaCredit, FormulaEnd, money
<1> QED
  BY <1>1, <1>2, <1>3, <1>4, <1>5, <1>6, <1>7, <1>8, <1>9, <1>10, <1>11
  DEF Next, BeginBlock, Formula, Txs

\* Zero inflation: over any number of blocks, with any faults, the supply of
\* genesis is the supply of now plus what x/gov burned.  No begin blocker and
\* no slash mints or burns (slashfunds redirects both staking pools).
THEOREM SupplyIsConserved == Spec => []SupplyConserved
<1>1. Init => SupplyConserved
  <2>1. Supply(GenesisBal) \in Nat
    BY GenesisAssumption, AccountNames DEF Supply
  <2> QED
    BY <2>1 DEF Init, SupplyConserved
<1>2. TypeOK /\ TypeOK' /\ SupplyConserved /\ [Next]_vars => SupplyConserved'
  <2> SUFFICES ASSUME TypeOK, TypeOK', SupplyConserved, [Next]_vars
               PROVE  SupplyConserved'
    OBVIOUS
  <2>1. bal \in [Accounts -> Nat] /\ burned \in Nat
    BY DEF TypeOK, MoneyOK
  <2>2. bal' \in [Accounts -> Nat] /\ burned' \in Nat
    BY DEF TypeOK, MoneyOK
  <2>3. Supply(bal) \in Nat /\ Supply(bal') \in Nat
    BY <2>1, <2>2, AccountNames DEF Supply
  <2>4. CASE CoveredSend
    BY <2>1, <2>4, SendFacts DEF CoveredSend, SupplyConserved
  <2>5. CASE CoveredBurn
    <3>1. PICK a \in Nat : /\ a <= bal["gov"] /\ bal' = Burn(bal, "gov", a)
                           /\ burned' = burned + a
      BY <2>5 DEF CoveredBurn
    <3>2. Supply(bal') + a = Supply(bal)
      BY <2>1, <3>1, BurnFacts, AccountNames
    <3> QED
      BY <2>1, <2>3, <3>1, <3>2 DEF SupplyConserved
  <2>6. CASE UNCHANGED <<bal, burned>>
    BY <2>6 DEF SupplyConserved
  <2> QED
    BY <2>4, <2>5, <2>6, MoneyStep
<1> QED
  BY <1>1, <1>2, TypeCorrect, PTL DEF Spec

-----------------------------------------------------------------------------
(* Reward and fee split                                                    *)

\* Where feesplit, rewardstreamer, tailreward and distribution stand in an
\* order the wiring check accepts.
Places(o, s, r, t, d) ==
  /\ s \in 1..Len(o) /\ r \in 1..Len(o) /\ t \in 1..Len(o) /\ d \in 1..Len(o)
  /\ o[s] = "feesplit" /\ o[r] = "rewardstreamer"
  /\ o[t] = "tailreward" /\ o[d] = "distribution"
  /\ s < r /\ r < t /\ t < d
  /\ \A k \in 1..Len(o) : /\ (o[k] = "feesplit" => k = s)
                          /\ (o[k] = "rewardstreamer" => k = r)
                          /\ (o[k] = "tailreward" => k = t)
                          /\ (o[k] = "distribution" => k = d)

\* What the wiring check promises: one position for each routing module, in
\* the required order, whatever else the list holds.
LEMMA WiringFacts ==
  ASSUME NEW o \in Seq(STRING), ValidateBeginBlockOrder(o)
  PROVE  \E s, r, t, d \in Nat : Places(o, s, r, t, d)
<1>1. PICK s, r, t, d \in 1..Len(o) :
        /\ o[s] = "feesplit" /\ o[r] = "rewardstreamer"
        /\ o[t] = "tailreward" /\ o[d] = "distribution"
  BY DEF ValidateBeginBlockOrder, NoneMissing, MoneyModules
<1>2. \A k \in 1..Len(o) : /\ (o[k] = "feesplit" => k = s)
                           /\ (o[k] = "rewardstreamer" => k = r)
                           /\ (o[k] = "tailreward" => k = t)
                           /\ (o[k] = "distribution" => k = d)
  BY <1>1 DEF ValidateBeginBlockOrder, NoneTwice, MoneyModules
<1>3. s < r /\ r < t /\ t < d
  <2>1. \A q \in 2..4 : \A k, l \in 1..Len(o) :
          /\ o[k] = requiredBeginBlockOrder[q - 1]
          /\ o[l] = requiredBeginBlockOrder[q]
          => k < l
    BY DEF ValidateBeginBlockOrder, InOrder
  <2>2. /\ requiredBeginBlockOrder[1] = "feesplit"
        /\ requiredBeginBlockOrder[2] = "rewardstreamer"
        /\ requiredBeginBlockOrder[3] = "tailreward"
        /\ requiredBeginBlockOrder[4] = "distribution"
    BY DEF requiredBeginBlockOrder
  <2>3. s < r
    BY <1>1, <2>1, <2>2
  <2>4. r < t
    BY <1>1, <2>1, <2>2
  <2>5. t < d
    BY <1>1, <2>1, <2>2
  <2> QED
    BY <2>3, <2>4, <2>5
<1>4. s \in Nat /\ r \in Nat /\ t \in Nat /\ d \in Nat
  OBVIOUS
<1>5. WITNESS s \in Nat, r \in Nat, t \in Nat, d \in Nat
<1> QED
  BY <1>1, <1>2, <1>3 DEF Places

\* StreamInv with the positions named.
Between(s, d) ==
  streamed > 0 => phase # "txs" /\ height = 2 /\ s < pos /\ pos <= d

LEMMA ExistsBetween ==
  ASSUME NEW o, NEW s, NEW r, NEW t, NEW d, Places(o, s, r, t, d), NEW p
  PROVE  (\E u, v \in 1..Len(o) :
            /\ o[u] = "feesplit" /\ o[v] = "distribution"
            /\ u < p /\ p <= v)
         <=> (s < p /\ p <= d)
<1>1. s \in 1..Len(o) /\ d \in 1..Len(o)
  BY DEF Places
<1>2. o[s] = "feesplit" /\ o[d] = "distribution"
  BY DEF Places
<1>3. \A k \in 1..Len(o) : (o[k] = "feesplit" => k = s)
                         /\ (o[k] = "distribution" => k = d)
  BY DEF Places
<1> QED
  BY <1>1, <1>2, <1>3

LEMMA StreamBetween ==
  ASSUME NEW s, NEW r, NEW t, NEW d, Places(order, s, r, t, d)
  PROVE  StreamInv <=> (streamed <= bal["collector"] /\ Between(s, d))
  BY ExistsBetween DEF StreamInv, Between

LEMMA StreamBetweenNext ==
  ASSUME NEW s, NEW r, NEW t, NEW d, Places(order, s, r, t, d), order' = order,
         streamed' <= bal'["collector"], Between(s, d)'
  PROVE  StreamInv'
  BY ExistsBetween DEF StreamInv, Between

\* No step changes the begin-blocker order.
LEMMA OrderFixed == ASSUME [Next]_vars PROVE order' = order
  BY DEF Next, BeginBlock, Formula, Txs, vars, chain, FeeSplit, LegacyStream,
         TailStream, Distribute, Slash, OtherBeginBlock, BeginBlockDone,
         NextBlock, FormulaStart, FormulaScan, FormulaLimit, FormulaScale,
         FormulaScaled, FormulaPay, FormulaCredit, FormulaEnd, Return, Finish,
         Transfer, Delegate, Undelegate, WithdrawRewards, BurnDeposit,
         UpdateFeeSplit, UpdateStream, UpdateFormula, UpdateTail

\* Where the block stands when a routing module runs.
LEMMA RunsAt ==
  ASSUME NEW s, NEW r, NEW t, NEW d, Places(order, s, r, t, d)
  PROVE  /\ Running("feesplit") => pos = s
         /\ Running("rewardstreamer") => pos = r
         /\ Running("tailreward") => pos = t
         /\ Running("distribution") => pos = d
  BY DEF Places, Running

\* A fixed slice moved into the collector leaves streamed inside it.
LEMMA SliceStreams ==
  ASSUME NEW p \in StreamParams, NEW from \in {"reserve", "tail"},
         bal \in [Accounts -> Nat], streamed \in Nat, height \in Nat,
         streamed <= bal["collector"],
         \/ /\ streamed' = streamed + FixedSlice(p, height, bal[from])
            /\ bal' = Send(bal, from, "collector",
                           FixedSlice(p, height, bal[from]))
         \/ streamed' = streamed /\ bal' = bal
  PROVE  /\ streamed' <= bal'["collector"]
         /\ streamed' > 0 => streamed > 0 \/ height > 1
<1> DEFINE amount == FixedSlice(p, height, bal[from])
<1>1. /\ from \in Accounts /\ "collector" \in Accounts /\ from # "collector"
      /\ bal[from] \in Nat /\ bal["collector"] \in Nat
  BY AccountNames
<1>2. amount \in Nat /\ amount <= bal[from] /\ (height <= 1 => amount = 0)
  BY <1>1, FixedSliceBounds
<1>3. \/ /\ streamed' = streamed + amount
         /\ bal' = Send(bal, from, "collector", amount)
      \/ streamed' = streamed /\ bal' = bal
  OBVIOUS
<1> HIDE DEF amount
<1>4. Send(bal, from, "collector", amount)["collector"]
        = bal["collector"] + amount
  BY <1>1, <1>2 DEF Send
<1>5. CASE streamed' = streamed /\ bal' = bal
  BY <1>5
<1>6. CASE /\ streamed' = streamed + amount
           /\ bal' = Send(bal, from, "collector", amount)
  <2>1. bal'["collector"] = bal["collector"] + amount
    BY <1>4, <1>6
  <2> QED
    BY <1>1, <1>2, <1>6, <2>1
<1> QED
  BY <1>3, <1>5, <1>6

\* A transfer or a burn between other accounts leaves the collector alone.
LEMMA CollectorKept ==
  ASSUME bal \in [Accounts -> Nat]
  PROVE  /\ \A a : BurnCoins("bonded", a)["collector"] = bal["collector"]
         /\ \A a : BurnCoins("notbonded", a)["collector"] = bal["collector"]
         /\ \A a : Send(bal, "reserve", "distr", a)["collector"]
                     = bal["collector"]
  BY AccountNames DEF BurnCoins, Pools, Send

LEMMA StreamStep ==
  ASSUME TypeOK, TypeOK', StreamInv, [Next]_vars
  PROVE  StreamInv'
<1>1. /\ bal \in [Accounts -> Nat] /\ streamed \in Nat
      /\ height \in Nat /\ (height > 1 => height = 2)
  BY DEF TypeOK, MoneyOK, PlaceOK
<1>2. /\ order \in Seq(STRING) /\ ValidateBeginBlockOrder(order)
      /\ pos \in 1..Len(order) + 1
  BY DEF TypeOK, PlaceOK
<1>3. rs \in StreamParams /\ tr \in StreamParams
  BY DEF TypeOK, ParamsOK
<1>4. bal'["collector"] \in Nat
  BY AccountNames DEF TypeOK, MoneyOK
<1>5. PICK s, r, t, d \in Nat : Places(order, s, r, t, d)
  BY <1>2, WiringFacts
<1>6. /\ s < r /\ r < t /\ t < d /\ d \in 1..Len(order)
  BY <1>5 DEF Places
<1>7. streamed <= bal["collector"] /\ Between(s, d)
  BY <1>5, StreamBetween
<1>9. SUFFICES streamed' <= bal'["collector"] /\ Between(s, d)'
  BY <1>5, OrderFixed, StreamBetweenNext
<1>10. pos \in Nat /\ Len(order) \in Nat
  BY <1>2
<1>11. streamed' = 0 => streamed' <= bal'["collector"] /\ Between(s, d)'
  BY <1>4 DEF Between
<1>12. CASE FeeSplit
  <2>1. pos = s
    BY <1>5, <1>12, RunsAt DEF FeeSplit
  <2>2. streamed = 0
    BY <1>1, <1>7, <2>1 DEF Between
  <2>3. FaucetShare(0) = 0
    BY FaucetShareBounds DEF TypeOK, ParamsOK
  <2>4. streamed' = 0
    BY <1>12, <2>2, <2>3 DEF FeeSplit
  <2> QED
    BY <1>11, <2>4
<1>13. CASE LegacyStream
  <2>1. pos = r
    BY <1>5, <1>13, RunsAt DEF LegacyStream
  <2>2. pos' = pos + 1 /\ phase' = "begin" /\ height' = height
    BY <1>13 DEF LegacyStream, Finish
  <2>3. \/ /\ streamed' = streamed + FixedSlice(rs, height, bal["reserve"])
           /\ bal' = Send(bal, "reserve", "collector",
                          FixedSlice(rs, height, bal["reserve"]))
        \/ streamed' = streamed /\ bal' = bal
    BY <1>13 DEF LegacyStream
  <2>4. /\ streamed' <= bal'["collector"]
        /\ streamed' > 0 => streamed > 0 \/ height > 1
    BY <1>1, <1>3, <1>7, <2>3, SliceStreams
  <2>5. Between(s, d)'
    BY <1>1, <1>5, <1>6, <1>7, <2>1, <2>2, <2>4 DEF Between
  <2> QED
    BY <2>4, <2>5
<1>14. CASE TailStream
  <2>1. pos = t
    BY <1>5, <1>14, RunsAt DEF TailStream
  <2>2. pos' = pos + 1 /\ phase' = "begin" /\ height' = height
    BY <1>14 DEF TailStream, Finish
  <2>3. \/ /\ streamed' = streamed + FixedSlice(tr, height, bal["tail"])
           /\ bal' = Send(bal, "tail", "collector",
                          FixedSlice(tr, height, bal["tail"]))
        \/ streamed' = streamed /\ bal' = bal
    BY <1>14 DEF TailStream
  <2>4. /\ streamed' <= bal'["collector"]
        /\ streamed' > 0 => streamed > 0 \/ height > 1
    BY <1>1, <1>3, <1>7, <2>3, SliceStreams
  <2>5. Between(s, d)'
    BY <1>1, <1>5, <1>6, <1>7, <2>1, <2>2, <2>4 DEF Between
  <2> QED
    BY <2>4, <2>5
<1>15. CASE Distribute
  <2>1. CASE height > 1
    BY <1>11, <1>15, <2>1 DEF Distribute
  <2>2. CASE ~(height > 1)
    <3>1. streamed = 0
      BY <1>1, <1>7, <2>2 DEF Between
    <3>2. streamed' = streamed
      BY <1>15, <2>2 DEF Distribute
    <3> QED
      BY <1>11, <3>1, <3>2
  <2> QED
    BY <2>1, <2>2
<1>16. CASE Slash \/ OtherBeginBlock
  <2>1. bal'["collector"] = bal["collector"]
    BY <1>1, <1>16, CollectorKept DEF Slash, OtherBeginBlock, money
  <2>2. /\ pos \in 1..Len(order) /\ order[pos] # "distribution"
        /\ pos' = pos + 1 /\ phase' = "begin" /\ height' = height
        /\ streamed' = streamed /\ phase = "begin"
    BY <1>16
    DEF Slash, OtherBeginBlock, Running, Finish, money, MoneyModules
  <2>3. pos # d
    BY <1>5, <2>2 DEF Places
  <2>4. Between(s, d)'
    BY <1>1, <1>5, <1>6, <1>7, <1>10, <2>2, <2>3 DEF Between
  <2> QED
    BY <1>7, <2>1, <2>2, <2>4
<1>17. CASE Formula
  <2>1. pos \in 1..Len(order) /\ order[pos] = "rewardstreamer" /\ phase # "txs"
    BY <1>2, <1>17
    DEF Formula, FormulaStart, FormulaScan, FormulaLimit, FormulaScale,
        FormulaScaled, FormulaPay, FormulaCredit, FormulaEnd, Running,
        TypeOK, PlaceOK, InRound
  <2>2. pos = r
    BY <1>5, <2>1 DEF Places
  <2>3. /\ phase' # "txs" /\ height' = height /\ pos' \in {pos, pos + 1}
        /\ streamed' = streamed
    BY <1>17
    DEF Formula, FormulaStart, FormulaScan, FormulaLimit, FormulaScale,
        FormulaScaled, FormulaPay, FormulaCredit, FormulaEnd, Return, Finish,
        chain, money
  <2>4. bal' = bal \/ bal' = Send(bal, "reserve", "distr", total)
    BY <1>17
    DEF Formula, FormulaStart, FormulaScan, FormulaLimit, FormulaScale,
        FormulaScaled, FormulaPay, FormulaCredit, FormulaEnd, money
  <2>5. bal'["collector"] = bal["collector"]
    BY <1>1, <2>4, CollectorKept
  <2>6. Between(s, d)'
    BY <1>5, <1>6, <1>7, <2>1, <2>2, <2>3 DEF Between
  <2> QED
    BY <1>7, <2>3, <2>5, <2>6
<1>18. CASE BeginBlockDone
  <2>1. streamed = 0
    BY <1>1, <1>6, <1>7, <1>10, <1>18 DEF BeginBlockDone, Between
  <2>2. streamed' = streamed
    BY <1>18 DEF BeginBlockDone, money
  <2> QED
    BY <1>11, <2>1, <2>2
<1>19. CASE Txs \/ NextBlock
  <2>1. phase = "txs" /\ streamed' = streamed
    BY <1>19
    DEF Txs, NextBlock, Transfer, Delegate, Undelegate, WithdrawRewards,
        BurnDeposit, UpdateFeeSplit, UpdateStream, UpdateFormula, UpdateTail,
        money
  <2>2. streamed = 0
    BY <1>1, <1>7, <2>1 DEF Between
  <2> QED
    BY <1>11, <2>1, <2>2
<1>20. CASE UNCHANGED vars
  BY <1>7, <1>20 DEF Between, vars, chain, money
<1> QED
  BY <1>12, <1>13, <1>14, <1>15, <1>16, <1>17, <1>18, <1>19, <1>20
  DEF Next, BeginBlock

LEMMA StreamedOnlyBeforePayout == Spec => []StreamInv
<1>1. Init => StreamInv
  BY GenesisAssumption, AccountNames DEF Init, StreamInv
<1>2. TypeOK /\ TypeOK' /\ StreamInv /\ [Next]_vars => StreamInv'
  BY StreamStep
<1> QED
  BY <1>1, <1>2, TypeCorrect, PTL DEF Spec

\* The fee split never finds streamed reward in the fee collector, under any
\* begin-blocker order the wiring check accepts: the height guard of the
\* streams and the required order together keep the faucet share to fees.
THEOREM RewardIsNeverSkimmed == Spec => []RewardNeverSkimmed
<1>1. TypeOK /\ StreamInv => RewardNeverSkimmed
  <2> SUFFICES ASSUME TypeOK, StreamInv, Running("feesplit")
               PROVE  streamed = 0
    BY DEF RewardNeverSkimmed
  <2>1. PICK s, r, t, d \in Nat : Places(order, s, r, t, d)
    BY WiringFacts DEF TypeOK, PlaceOK
  <2>2. pos = s
    BY <2>1, RunsAt
  <2>3. Between(s, d)
    BY <2>1, StreamBetween
  <2> QED
    BY <2>2, <2>3 DEF Between, TypeOK, MoneyOK
<1> QED
  BY <1>1, TypeCorrect, StreamedOnlyBeforePayout, PTL

-----------------------------------------------------------------------------
(* GembaEconomy implements MoneyFlow: every block, transaction, slash and  *)
(* fault of the routing is one of the four flows or moves nothing between  *)
(* the pots.  The one fact beyond types it takes is that the fee split     *)
(* never finds streamed reward in the collector; without it a split would  *)
(* carry reward into the faucet reserve, which no flow does.               *)

\* A transfer, account by account.
LEMMA SendEach ==
  ASSUME NEW b \in [Accounts -> Nat], NEW from \in Accounts, NEW to \in Accounts,
         from # to, NEW a \in Nat, NEW c \in Accounts
  PROVE  Send(b, from, to, a)[c] = IF c = from THEN b[c] - a
                                   ELSE IF c = to THEN b[c] + a ELSE b[c]
  BY DEF Send

LEMMA PotTypes ==
  ASSUME TypeOK
  PROVE  /\ bal \in [Accounts -> Nat] /\ streamed \in Nat /\ burned \in Nat
         /\ \A c \in Accounts : bal[c] \in Nat
  BY DEF TypeOK, MoneyOK

\* A transfer within one pot is invisible; so is what moves no coin.
LEMMA InnerTransfers ==
  ASSUME TypeOK, burned' = burned, streamed' = streamed,
         NEW from \in {"collector", "distr", "bonded", "notbonded", "gov",
                       "users"},
         NEW to \in {"collector", "distr", "bonded", "notbonded", "gov",
                     "users"},
         from # to, NEW a \in Nat, a <= bal[from],
         bal' = Send(bal, from, to, a)
  PROVE  UNCHANGED Flow!flowVars
<1>1. from \in Accounts /\ to \in Accounts
  BY AccountNames
<1>2. \A c \in Accounts : bal'[c] = IF c = from THEN bal[c] - a
                                   ELSE IF c = to THEN bal[c] + a ELSE bal[c]
  BY <1>1, SendEach, PotTypes
<1>3. /\ bal'["reserve"] = bal["reserve"] /\ bal'["tail"] = bal["tail"]
      /\ bal'["faucet"] = bal["faucet"]
  BY <1>2, AccountNames
<1>4. bal'["collector"] + bal'["distr"] + bal'["bonded"] + bal'["notbonded"]
        + bal'["gov"] + bal'["users"]
      = bal["collector"] + bal["distr"] + bal["bonded"] + bal["notbonded"]
        + bal["gov"] + bal["users"]
  <2>1. \A c \in Accounts : bal[c] \in Nat
    BY PotTypes
  <2> QED
    BY <1>2, <2>1, AccountNames
<1>5. \A c \in Accounts : bal'[c] \in Nat /\ bal[c] \in Nat
  BY <1>2, PotTypes
<1> QED
  BY <1>3, <1>4, <1>5, PotTypes, AccountNames DEF Flow!flowVars

LEMMA NothingMoves ==
  ASSUME UNCHANGED <<bal, streamed, burned>>
  PROVE  UNCHANGED Flow!flowVars
  BY DEF Flow!flowVars

-----------------------------------------------------------------------------
(* One lemma for each step that moves coins between the pots               *)

LEMMA SplitFlows ==
  ASSUME TypeOK, RewardNeverSkimmed, FeeSplit
  PROVE  Flow!FeedFaucet \/ UNCHANGED Flow!flowVars
<1> DEFINE share == FaucetShare(bal["collector"])
<1>1. streamed = 0 /\ burned' = burned
  BY DEF RewardNeverSkimmed, FeeSplit
<1>2. FaucetShare(0) = 0 /\ share \in Nat /\ share <= bal["collector"]
  BY FaucetShareBounds, PotTypes, AccountNames DEF TypeOK, ParamsOK
<1>3. streamed' = 0
  BY <1>1, <1>2 DEF FeeSplit
<1>4. bal' = Send(bal, "collector", "faucet", share) \/ bal' = bal
  BY DEF FeeSplit
<1> HIDE DEF share
<1>5. CASE bal' = Send(bal, "collector", "faucet", share)
  <2>1. \A c \in Accounts :
          bal'[c] = IF c = "collector" THEN bal[c] - share
                    ELSE IF c = "faucet" THEN bal[c] + share ELSE bal[c]
    BY <1>2, <1>5, SendEach, PotTypes, AccountNames
  <2> QED
    BY <1>1, <1>2, <1>3, <2>1, PotTypes, AccountNames DEF Flow!FeedFaucet
<1>6. CASE bal' = bal
  BY <1>1, <1>3, <1>6, NothingMoves
<1> QED
  BY <1>4, <1>5, <1>6

\* The fixed slices stay reward until x/distribution pays them out.
LEMMA SliceFlows ==
  ASSUME TypeOK, LegacyStream \/ TailStream
  PROVE  UNCHANGED Flow!flowVars
<1>1. ASSUME NEW from \in {"reserve", "tail"}, NEW a \in Nat,
             bal' = Send(bal, from, "collector", a), streamed' = streamed + a,
             burned' = burned
      PROVE  UNCHANGED Flow!flowVars
  <2>1. \A c \in Accounts :
          bal'[c] = IF c = from THEN bal[c] - a
                    ELSE IF c = "collector" THEN bal[c] + a ELSE bal[c]
    BY <1>1, SendEach, PotTypes, AccountNames, SMTT(60)
  <2> QED
    BY <1>1, <2>1, PotTypes, AccountNames DEF Flow!flowVars
<1>2. /\ FixedSlice(rs, height, bal["reserve"]) \in Nat
      /\ FixedSlice(tr, height, bal["tail"]) \in Nat
  BY FixedSliceBounds, PotTypes, AccountNames DEF TypeOK, ParamsOK, PlaceOK
<1> QED
  BY <1>1, <1>2, NothingMoves DEF LegacyStream, TailStream

LEMMA PayoutFlows ==
  ASSUME TypeOK, Distribute
  PROVE  Flow!PayValidators \/ UNCHANGED Flow!flowVars
<1>1. CASE height > 1
  <2>1. /\ bal' = Send(bal, "collector", "distr", bal["collector"])
        /\ streamed' = 0 /\ burned' = burned
    BY <1>1 DEF Distribute
  <2>2. \A c \in Accounts :
          bal'[c] = IF c = "collector" THEN bal[c] - bal["collector"]
                    ELSE IF c = "distr" THEN bal[c] + bal["collector"]
                    ELSE bal[c]
    BY <2>1, SendEach, PotTypes, AccountNames
  <2> QED
    BY <2>1, <2>2, PotTypes, AccountNames DEF Flow!PayValidators
<1>2. CASE ~(height > 1)
  BY <1>2, NothingMoves DEF Distribute
<1> QED
  BY <1>1, <1>2

LEMMA RoundFlows ==
  ASSUME TypeOK, FormulaPay
  PROVE  Flow!PayValidators \/ UNCHANGED Flow!flowVars
<1>1. streamed' = streamed /\ burned' = burned /\ total \in Nat
  BY DEF FormulaPay, TypeOK, RoundOK
<1>2. CASE bal' = bal
  BY <1>1, <1>2, NothingMoves
<1>3. CASE bal' = Send(bal, "reserve", "distr", total)
  <2>1. \A c \in Accounts : bal'[c] = IF c = "reserve" THEN bal[c] - total
                                     ELSE IF c = "distr" THEN bal[c] + total
                                     ELSE bal[c]
    BY <1>1, <1>3, SendEach, PotTypes, AccountNames
  <2> QED
    BY <1>1, <2>1, PotTypes, AccountNames DEF Flow!PayValidators
<1> QED
  BY <1>2, <1>3 DEF FormulaPay

LEMMA SlashFlows ==
  ASSUME TypeOK, Slash
  PROVE  Flow!FeedFaucet \/ UNCHANGED Flow!flowVars
<1>1. streamed' = streamed /\ burned' = burned
  BY DEF Slash
<1>2. CASE bal' = bal
  BY <1>1, <1>2, NothingMoves
<1>3. ASSUME NEW pool \in Pools, NEW a \in Nat, bal' = Send(bal, pool, "faucet", a)
      PROVE  Flow!FeedFaucet
  <2>0. pool \in Accounts /\ "faucet" \in Accounts /\ pool # "faucet"
    BY AccountNames DEF Pools
  <2>1. \A c \in Accounts : bal'[c] = IF c = pool THEN bal[c] - a
                                     ELSE IF c = "faucet" THEN bal[c] + a
                                     ELSE bal[c]
    BY <1>3, <2>0, SendEach, PotTypes
  <2> QED
    BY <1>1, <1>3, <2>1, PotTypes, AccountNames DEF Flow!FeedFaucet, Pools
<1> QED
  BY <1>2, <1>3, AmountsAssumption DEF Slash, BurnCoins, Pools

LEMMA TransferFlows ==
  ASSUME TypeOK, Transfer
  PROVE  Flow!RefillTail \/ UNCHANGED Flow!flowVars
<1>1. streamed' = streamed /\ burned' = burned
  BY DEF Transfer
<1>2. PICK t \in Transfers, a \in Amounts :
        a <= bal[t[1]] /\ bal' = Send(bal, t[1], t[2], a)
  BY DEF Transfer
<1>3. a \in Nat
  BY AmountsAssumption
<1>4. CASE t = <<"users", "tail">>
  <2>1. \A c \in Accounts : bal'[c] = IF c = "users" THEN bal[c] - a
                                     ELSE IF c = "tail" THEN bal[c] + a
                                     ELSE bal[c]
    BY <1>2, <1>3, <1>4, SendEach, PotTypes, AccountNames, SMTT(60)
  <2> QED
    BY <1>1, <1>3, <2>1, PotTypes, AccountNames DEF Flow!RefillTail
<1>5. CASE t # <<"users", "tail">>
  BY <1>1, <1>2, <1>3, <1>5, InnerTransfers DEF Transfers
<1> QED
  BY <1>4, <1>5

LEMMA BurnFlows ==
  ASSUME TypeOK, BurnDeposit
  PROVE  Flow!BurnDeposit
<1>1. PICK a \in Amounts : bal' = Burn(bal, "gov", a) /\ burned' = burned + a
  BY DEF BurnDeposit
<1>2. a \in Nat /\ streamed' = streamed
  BY AmountsAssumption DEF BurnDeposit
<1>3. \A c \in Accounts : bal'[c] = IF c = "gov" THEN bal[c] - a ELSE bal[c]
  BY <1>1, PotTypes DEF Burn
<1> QED
  BY <1>1, <1>2, <1>3, PotTypes, AccountNames DEF Flow!BurnDeposit

LEMMA FlowStep ==
  ASSUME TypeOK, RewardNeverSkimmed, [Next]_vars
  PROVE  [Flow!Next]_(Flow!flowVars)
<1>1. CASE FeeSplit
  BY <1>1, SplitFlows DEF Flow!Next
<1>2. CASE LegacyStream \/ TailStream
  BY <1>2, SliceFlows
<1>3. CASE Distribute \/ FormulaPay
  BY <1>3, PayoutFlows, RoundFlows DEF Flow!Next
<1>4. CASE Slash
  BY <1>4, SlashFlows DEF Flow!Next
<1>5. CASE Transfer \/ BurnDeposit
  BY <1>5, TransferFlows, BurnFlows DEF Flow!Next
<1>6. CASE Delegate \/ Undelegate \/ WithdrawRewards
  BY <1>6, InnerTransfers, AmountsAssumption
  DEF Delegate, Undelegate, WithdrawRewards
<1>7. CASE \/ OtherBeginBlock \/ BeginBlockDone \/ NextBlock \/ UNCHANGED vars
           \/ UpdateFeeSplit \/ UpdateStream \/ UpdateFormula \/ UpdateTail
           \/ FormulaStart \/ FormulaScan \/ FormulaLimit \/ FormulaScale
           \/ FormulaScaled \/ FormulaCredit \/ FormulaEnd
  <2>1. UNCHANGED <<bal, streamed, burned>>
    BY <1>7
    DEF OtherBeginBlock, BeginBlockDone, NextBlock, vars, money,
        UpdateFeeSplit, UpdateStream, UpdateFormula, UpdateTail, FormulaStart,
        FormulaScan, FormulaLimit, FormulaScale, FormulaScaled, FormulaCredit,
        FormulaEnd
  <2> QED
    BY <2>1, NothingMoves
<1> QED
  BY <1>1, <1>2, <1>3, <1>4, <1>5, <1>6, <1>7
  DEF Next, BeginBlock, Formula, Txs

\* The routing as a whole implements MoneyFlow: whatever order the wiring
\* check accepts, whatever is slashed, refused or burned, reward coins reach
\* validators only and the faucet reserve is fed from fees and slashes only.
THEOREM RoutingImplementsFlow == Spec => FlowSpec
<1>1. Init => Flow!Init
  <2> SUFFICES ASSUME Init PROVE Flow!Init
    OBVIOUS
  <2>1. /\ bal \in [Accounts -> Nat] /\ streamed = 0 /\ burned = 0
    BY GenesisAssumption DEF Init
  <2>2. \A c \in Accounts : bal[c] \in Nat
    BY <2>1
  <2> QED
    BY <2>1, <2>2, AccountNames DEF Flow!Init
<1>2. TypeOK /\ RewardNeverSkimmed /\ [Next]_vars
        => [Flow!Next]_(Flow!flowVars)
  BY FlowStep
<1> QED
  BY <1>1, <1>2, TypeCorrect, RewardIsNeverSkimmed, PTL
  DEF Spec, FlowSpec, Flow!Spec

-----------------------------------------------------------------------------
(* The rounds of the reward streamer: a round is covered by the reserve,   *)
(* stays within the block's budget and within the cap of each validator,   *)
(* and leaves x/distribution backed at every step, also when crediting     *)
(* fails half way.  The argument: the reserve is opened once a block       *)
(* (SpendInv), the amounts add up loop by loop (RoundInv), and the limits  *)
(* follow.                                                                 *)

\* A product grows with its first factor.
LEMMA Grows ==
  ASSUME NEW a \in Nat, NEW b \in Nat, NEW c \in Nat, a <= b
  PROVE  a * c <= b * c
<1>1. PICK e \in Nat : b = a + e
  <2>1. b - a \in Nat /\ b = a + (b - a)
    OBVIOUS
  <2> QED
    BY <2>1
<1>2. b * c = a * c + e * c /\ e * c \in Nat /\ a * c \in Nat
  BY <1>1
<1> QED
  BY <1>2

\* The types the round arithmetic needs.
LEMMA RoundNats ==
  ASSUME TypeOK
  PROVE  /\ NVals \in Nat /\ fp \in FormulaParams
         /\ fp.bpd \in Nat \ {0} /\ fp.cap \in Nat
         /\ i \in Nat /\ total \in Nat /\ limit \in Nat /\ scaled \in Nat
         /\ amt \in [Vals -> Nat] /\ cum \in [Vals -> Nat]
         /\ cutSum \in [Vals -> Nat]
         /\ bal \in [Accounts -> Nat]
         /\ bal["reserve"] \in Nat /\ bal["distr"] \in Nat
         /\ outstanding \in Nat /\ spent \in Nat
         /\ MaxTotalPerBlock(fp) \in Nat
<1>1. fp \in FormulaParams
  BY DEF TypeOK, ParamsOK, ValidFormula
<1>2. bal \in [Accounts -> Nat] /\ bal["reserve"] \in Nat
      /\ bal["distr"] \in Nat /\ outstanding \in Nat /\ spent \in Nat
  BY AccountNames DEF TypeOK, MoneyOK
<1>3. fp.bpd \in Nat \ {0} /\ fp.cap \in Nat
  BY <1>1 DEF FormulaParams
<1>4. MaxTotalPerBlock(fp) \in Nat
  BY <1>1, <1>2, RoundLimitBounds
<1> QED
  BY <1>1, <1>2, <1>3, <1>4, NValsAssumption DEF TypeOK, RoundOK

-----------------------------------------------------------------------------
(* The reserve is opened once a block                                      *)

\* Before the reward streamer has paid, nothing has left the reserve.
LEMMA NothingSpentYet ==
  ASSUME TypeOK, SpendInv,
         Running("rewardstreamer") \/ phase \in {"scan", "scale", "pay"}
  PROVE  spent = 0
<1>1. /\ order \in Seq(STRING) /\ ValidateBeginBlockOrder(order)
      /\ spent \in Nat
      /\ pos \in 1..Len(order) /\ order[pos] = "rewardstreamer"
      /\ phase # "txs" /\ phase # "credit"
  BY DEF TypeOK, PlaceOK, MoneyOK, Running, InRound
<1>2. PICK s, r, t, d \in Nat : Places(order, s, r, t, d)
  BY <1>1, WiringFacts
<1>3. pos = r
  BY <1>1, <1>2 DEF Places
<1>4. ASSUME spent > 0 PROVE FALSE
  <2>1. PICK k \in 1..Len(order) :
          /\ order[k] = "rewardstreamer"
          /\ (k < pos \/ (k = pos /\ phase = "credit"))
    BY <1>1, <1>4 DEF SpendInv
  <2>2. k = r
    BY <1>2, <2>1 DEF Places
  <2> QED
    BY <1>1, <1>3, <2>1, <2>2
<1> QED
  BY <1>1, <1>4

LEMMA SpendStep ==
  ASSUME TypeOK, TypeOK', SpendInv, [Next]_vars
  PROVE  SpendInv'
<1>1. order' = order /\ pos \in Nat /\ Len(order) \in Nat /\ spent' \in Nat
  BY OrderFixed DEF TypeOK, PlaceOK, MoneyOK
<1>2. CASE LegacyStream
  <2>1. /\ pos \in 1..Len(order) /\ order[pos] = "rewardstreamer"
        /\ pos' = pos + 1
    BY <1>2 DEF LegacyStream, Running, Finish
  <2> QED
    BY <1>1, <2>1 DEF SpendInv
<1>3. CASE FormulaPay
  <2>1. /\ pos \in 1..Len(order) /\ order[pos] = "rewardstreamer"
    BY <1>3 DEF FormulaPay, TypeOK, PlaceOK, InRound
  <2>2. pos' = pos + 1 \/ (pos' = pos /\ phase' = "credit")
    BY <1>3 DEF FormulaPay, Return, Finish
  <2> QED
    BY <1>1, <2>1, <2>2 DEF SpendInv
<1>4. CASE \/ FeeSplit \/ TailStream \/ Distribute \/ Slash \/ OtherBeginBlock
  <2>1. spent' = spent /\ pos' = pos + 1 /\ phase # "txs"
    BY <1>4
    DEF FeeSplit, TailStream, Distribute, Slash, OtherBeginBlock, Running,
        Finish, money
  <2> QED
    BY <1>1, <2>1 DEF SpendInv
<1>5. CASE \/ FormulaStart \/ FormulaScan \/ FormulaLimit \/ FormulaScale
           \/ FormulaScaled \/ FormulaCredit \/ FormulaEnd
  <2>1. spent' = spent /\ phase # "txs"
        /\ (pos' = pos + 1 \/ (pos' = pos /\ (phase = "credit" => phase' = "credit")))
    BY <1>5
    DEF FormulaStart, FormulaScan, FormulaLimit, FormulaScale, FormulaScaled,
        FormulaCredit, FormulaEnd, Running, Return, Finish, chain, money
  <2> QED
    BY <1>1, <2>1 DEF SpendInv
<1>6. CASE BeginBlockDone \/ Txs
  <2>1. phase' = "txs"
    BY <1>6, TxsTypes DEF BeginBlockDone, chain
  <2> QED
    BY <2>1 DEF SpendInv
<1>7. CASE NextBlock
  BY <1>7 DEF NextBlock, SpendInv
<1>8. CASE UNCHANGED vars
  BY <1>8 DEF vars, chain, money, SpendInv
<1> QED
  BY <1>2, <1>3, <1>4, <1>5, <1>6, <1>7, <1>8 DEF Next, BeginBlock, Formula

LEMMA ReserveOpenedOnce == Spec => []SpendInv
<1>1. Init => SpendInv
  BY DEF Init, SpendInv
<1>2. TypeOK /\ TypeOK' /\ SpendInv /\ [Next]_vars => SpendInv'
  BY SpendStep
<1> QED
  BY <1>1, <1>2, TypeCorrect, PTL DEF Spec

-----------------------------------------------------------------------------
(* The amounts of a round add up                                           *)

\* Nothing of the round is left once its call has returned.
LEMMA OutsideRound ==
  ASSUME phase' \in {"begin", "txs"}, amt' = NoAmounts
  PROVE  RoundInv'
  BY DEF RoundInv, AmountsCapped, ScanSums, LimitHolds, CutSums, PaySums,
         CreditCovered, InRound, NoAmounts, Vals

LEMMA StartRound ==
  ASSUME TypeOK, RoundInv, FormulaStart
  PROVE  RoundInv'
<1>1. CASE Return
  BY <1>1, OutsideRound DEF Return, Finish
<1>2. CASE ~Return
  <2>1. /\ phase' = "scan" /\ i' = 1 /\ total' = total /\ scaled' = scaled
        /\ amt' = amt /\ cum' = cum /\ fp' = fp
    BY <1>2 DEF FormulaStart, params
  <2>2. total = 0 /\ scaled = 0 /\ amt = NoAmounts
    BY DEF FormulaStart, Running, TypeOK, RoundOK, RoundInv, AmountsCapped,
           InRound
  <2>3. AmountsCapped'
    BY <2>1, <2>2, RoundNats DEF AmountsCapped, InRound, NoAmounts, Vals
  <2>4. ScanSums'
    BY <2>1, <2>2 DEF ScanSums, SumUpTo
  <2> QED
    BY <2>1, <2>3, <2>4
    DEF RoundInv, LimitHolds, CutSums, PaySums, CreditCovered
<1> QED
  BY <1>1, <1>2

LEMMA ScanRound ==
  ASSUME TypeOK, RoundInv, FormulaScan
  PROVE  RoundInv'
<1> DEFINE pb == PerBlockReward(fp, stake[i])
<1>0. /\ NVals \in Nat /\ fp \in FormulaParams /\ total \in Nat /\ i \in Nat
      /\ amt \in [Vals -> Nat] /\ cum \in [Vals -> Nat]
  BY RoundNats
<1>1. i \in Vals /\ i >= 1 /\ stake[i] \in Nat
  BY <1>0 DEF FormulaScan, TypeOK, RoundOK, MoneyOK, InRound, Vals
<1>2. pb \in Nat /\ pb * fp.bpd <= fp.cap
  BY <1>0, <1>1, PerBlockBounds
<1>3. /\ phase = "scan" /\ phase' = "scan" /\ i' = i + 1 /\ fp' = fp
      /\ total' = total + pb /\ scaled' = scaled
      /\ amt' = [amt EXCEPT ![i] = pb] /\ cum' = [cum EXCEPT ![i] = total + pb]
  BY DEF FormulaScan, chain, params
<1> HIDE DEF pb
<1>4. AmountsCapped'
  <2>1. \A v \in Vals : amt[v] * fp.bpd <= fp.cap
    BY <1>3 DEF RoundInv, AmountsCapped, InRound
  <2>2. \A v \in Vals : amt'[v] = IF v = i THEN pb ELSE amt[v]
    BY <1>0, <1>3
  <2>3. \A v \in Vals : amt'[v] * fp.bpd <= fp.cap
    BY <1>2, <2>1, <2>2
  <2> QED
    BY <1>3, <2>3 DEF AmountsCapped, InRound
<1>5. ScanSums'
  <2>1. /\ scaled = 0 /\ total = SumUpTo(i)
        /\ \A v \in 1..i - 1 : cum[v] = SumUpTo(v) + amt[v] /\ cum[v] <= total
    BY <1>3 DEF RoundInv, ScanSums
  <2>2. \A v \in Vals : /\ amt'[v] = IF v = i THEN pb ELSE amt[v]
                        /\ cum'[v] = IF v = i THEN total + pb ELSE cum[v]
    BY <1>0, <1>3
  <2>3. \A v \in 1..i : SumUpTo(v)' = SumUpTo(v)
    BY <1>0, <1>1, <2>2 DEF SumUpTo, Vals
  <2>4. SumUpTo(i)' = total'
    BY <1>0, <1>1, <1>3, <2>2 DEF SumUpTo, Vals
  <2>5. ASSUME NEW v \in 1..i
        PROVE  cum'[v] = SumUpTo(v)' + amt'[v] /\ cum'[v] <= total'
    <3>1. CASE v = i
      BY <1>0, <1>1, <1>2, <1>3, <2>1, <2>2, <2>3, <3>1
    <3>2. CASE v # i
      <4>1. v \in 1..i - 1 /\ v \in Vals
        BY <1>0, <1>1, <3>2 DEF Vals
      <4>2. cum'[v] = cum[v] /\ amt'[v] = amt[v] /\ cum[v] \in Nat
        BY <1>0, <2>2, <3>2, <4>1
      <4> QED
        BY <1>0, <1>2, <1>3, <2>1, <2>3, <4>1, <4>2
    <3> QED
      BY <3>1, <3>2
  <2>6. i' - 1 = i
    BY <1>0, <1>3
  <2> QED
    BY <1>3, <2>1, <2>4, <2>5, <2>6 DEF ScanSums
<1> QED
  BY <1>3, <1>4, <1>5 DEF RoundInv, LimitHolds, CutSums, PaySums, CreditCovered

LEMMA LimitRound ==
  ASSUME TypeOK, RoundInv, FormulaLimit
  PROVE  RoundInv'
<1>1. CASE total = 0
  BY <1>1, OutsideRound DEF FormulaLimit, Return, Finish
<1>2. CASE total # 0
  <2> DEFINE lim == RoundLimit(fp, bal["reserve"])
  <2>0. /\ NVals \in Nat /\ fp \in FormulaParams /\ total \in Nat /\ i \in Nat
        /\ amt \in [Vals -> Nat] /\ cum \in [Vals -> Nat]
        /\ bal["reserve"] \in Nat
    BY RoundNats
  <2>1. /\ phase = "scan" /\ phase' = (IF total > lim THEN "scale" ELSE "pay")
        /\ limit' = lim /\ i' = 1 /\ fp' = fp /\ bal' = bal
        /\ total' = total /\ scaled' = scaled /\ amt' = amt /\ cum' = cum
        /\ i > NVals
    BY <1>2 DEF FormulaLimit, money, params
  <2>2. /\ lim \in Nat /\ lim <= bal["reserve"]
        /\ MaxTotalPerBlock(fp) > 0 => lim <= MaxTotalPerBlock(fp)
    BY <2>0, RoundLimitBounds
  <2> HIDE DEF lim
  <2>3. AmountsCapped'
    BY <2>1 DEF RoundInv, AmountsCapped, InRound
  <2>4. /\ scaled = 0
        /\ \A v \in Vals : cum[v] = SumUpTo(v) + amt[v] /\ cum[v] <= total
    BY <2>0, <2>1 DEF RoundInv, ScanSums, Vals
  <2>5. \A v \in Vals : SumUpTo(v)' = SumUpTo(v)
    BY <2>1 DEF SumUpTo
  <2>6. LimitHolds'
    BY <2>1, <2>2, <2>4 DEF LimitHolds
  <2>7. CutSums'
    <3>1. SumUpTo(1)' = 0 /\ CutSumUpTo(1)' = 0
      BY DEF SumUpTo, CutSumUpTo
    <3>2. scaled' * total' <= limit' * SumUpTo(1)'
      BY <2>0, <2>1, <2>2, <2>4, <3>1
    <3>3. \A v \in 1..NVals : cum'[v] = SumUpTo(v)' + amt'[v]
      BY <2>1, <2>4, <2>5 DEF Vals
    <3>4. phase' = "scale" => limit' < total'
      BY <2>0, <2>1, <2>2
    <3> QED
      BY <2>1, <2>4, <3>1, <3>2, <3>3, <3>4 DEF CutSums
  <2>8. PaySums'
    <3>1. phase' = "pay" => total' <= limit'
      BY <2>0, <2>1, <2>2
    <3> QED
      BY <2>1, <2>4, <2>5, <3>1 DEF PaySums
  <2> QED
    BY <2>1, <2>3, <2>6, <2>7, <2>8 DEF RoundInv, ScanSums, CreditCovered
<1> QED
  BY <1>1, <1>2

LEMMA ScaleRound ==
  ASSUME TypeOK, RoundInv, FormulaScale
  PROVE  RoundInv'
<1> DEFINE cut == Scaled(amt[i], limit, total)
<1>0. /\ NVals \in Nat /\ fp.bpd \in Nat /\ fp.cap \in Nat
      /\ i \in Nat /\ limit \in Nat /\ scaled \in Nat
      /\ amt \in [Vals -> Nat] /\ cum \in [Vals -> Nat]
      /\ cutSum \in [Vals -> Nat]
  BY RoundNats
<1>1. /\ phase = "scale" /\ i \in Vals /\ i >= 1 /\ total \in Nat \ {0}
      /\ limit < total /\ amt[i] \in Nat
  BY <1>0 DEF FormulaScale, TypeOK, RoundOK, InRound, Vals, RoundInv, CutSums
<1>2. cut \in Nat /\ cut <= amt[i]
  BY <1>0, <1>1, ScaledBounds
<1>3. /\ phase' = "scale" /\ i' = i + 1 /\ fp' = fp /\ bal' = bal
      /\ total' = total /\ limit' = limit /\ scaled' = scaled + cut
      /\ amt' = [amt EXCEPT ![i] = cut] /\ cum' = cum
      /\ cutSum' = [cutSum EXCEPT ![i] = scaled + cut]
  BY DEF FormulaScale, chain, money, params
<1>4. \A v \in Vals : /\ amt'[v] = IF v = i THEN cut ELSE amt[v]
                      /\ cutSum'[v] = IF v = i THEN scaled + cut ELSE cutSum[v]
  BY <1>0, <1>3
<1>5. /\ \A v \in i..NVals : cum[v] = SumUpTo(v) + amt[v]
      /\ scaled * total <= limit * SumUpTo(i)
      /\ scaled = CutSumUpTo(i)
      /\ \A v \in 1..i - 1 : /\ cutSum[v] = CutSumUpTo(v) + amt[v]
                             /\ cutSum[v] <= scaled
  BY <1>1 DEF RoundInv, CutSums
<1>6. SumUpTo(i) \in Nat
  BY <1>0, <1>1 DEF SumUpTo, Vals
<1>7. (scaled + cut) * total <= limit * (SumUpTo(i) + amt[i])
  BY <1>0, <1>1, <1>5, <1>6, ScaledStep
<1> HIDE DEF cut
<1>8. AmountsCapped'
  <2>1. \A v \in Vals : amt[v] * fp.bpd <= fp.cap
    BY <1>1 DEF RoundInv, AmountsCapped, InRound
  <2>2. cut * fp.bpd <= amt[i] * fp.bpd
    BY <1>0, <1>1, <1>2, Grows
  <2>3. amt[i] * fp.bpd \in Nat /\ cut * fp.bpd \in Nat
        /\ amt[i] * fp.bpd <= fp.cap
    BY <1>0, <1>1, <1>2, <2>1
  <2>4. cut * fp.bpd <= fp.cap
    BY <1>0, <2>2, <2>3
  <2>5. \A v \in Vals : amt'[v] * fp.bpd <= fp.cap
    BY <1>3, <1>4, <2>1, <2>4
  <2> QED
    BY <1>3, <2>5 DEF AmountsCapped, InRound
<1>9. LimitHolds'
  BY <1>1, <1>3 DEF RoundInv, LimitHolds
<1>10. CutSums'
  <2>1. \A v \in i + 1..NVals : cum'[v] = SumUpTo(v)' + amt'[v]
    <3>1. \A v \in i + 1..NVals : v \in Vals /\ v # i /\ v \in i..NVals
      BY <1>0, <1>1 DEF Vals
    <3> QED
      BY <1>3, <1>4, <1>5, <3>1 DEF SumUpTo
  <2>2. SumUpTo(i)' = SumUpTo(i) + amt[i]
    <3>1. i \in i..NVals
      BY <1>0, <1>1 DEF Vals
    <3>2. cum[i] = SumUpTo(i) + amt[i]
      BY <1>5, <3>1
    <3> QED
      BY <1>0, <1>1, <1>3, <3>2 DEF SumUpTo
  <2>3. scaled' * total' <= limit' * SumUpTo(i)'
    BY <1>3, <1>7, <2>2
  <2>4. scaled' = CutSumUpTo(i)'
    BY <1>0, <1>1, <1>3, <1>4 DEF CutSumUpTo
  <2>5. \A v \in 1..i : CutSumUpTo(v)' = CutSumUpTo(v)
    BY <1>0, <1>1, <1>4 DEF CutSumUpTo, Vals
  <2>6. ASSUME NEW v \in 1..i
        PROVE  cutSum'[v] = CutSumUpTo(v)' + amt'[v] /\ cutSum'[v] <= scaled'
    <3>1. CASE v = i
      BY <1>0, <1>1, <1>2, <1>3, <1>4, <1>5, <2>5, <3>1
    <3>2. CASE v # i
      <4>1. v \in 1..i - 1 /\ v \in Vals
        BY <1>0, <1>1, <3>2 DEF Vals
      <4>2. cutSum'[v] = cutSum[v] /\ amt'[v] = amt[v] /\ cutSum[v] \in Nat
        BY <1>0, <1>4, <3>2, <4>1
      <4> QED
        BY <1>0, <1>2, <1>3, <1>5, <2>5, <4>1, <4>2
    <3> QED
      BY <3>1, <3>2
  <2>7. i' - 1 = i /\ i' = i + 1
    BY <1>0, <1>3
  <2> QED
    BY <1>1, <1>3, <2>1, <2>3, <2>4, <2>6, <2>7 DEF CutSums
<1> QED
  BY <1>3, <1>8, <1>9, <1>10 DEF RoundInv, ScanSums, PaySums, CreditCovered

\* The sum of the cut allocations is within the limit.
LEMMA ScaledRound ==
  ASSUME TypeOK, RoundInv, FormulaScaled
  PROVE  RoundInv'
<1>1. CASE scaled = 0
  BY <1>1, OutsideRound DEF FormulaScaled, Return, Finish
<1>2. CASE scaled # 0
  <2>0. /\ NVals \in Nat /\ i \in Nat /\ limit \in Nat /\ scaled \in Nat
        /\ total \in Nat /\ cum \in [Vals -> Nat] /\ cutSum \in [Vals -> Nat]
    BY RoundNats
  <2>1. /\ phase = "scale" /\ phase' = "pay" /\ i' = 1 /\ i = NVals + 1
        /\ total' = scaled /\ cum' = cutSum /\ limit' = limit /\ fp' = fp
        /\ bal' = bal /\ amt' = amt /\ total \in Nat \ {0}
    BY <1>2, <2>0
    DEF FormulaScaled, money, params, TypeOK, RoundOK, InRound
  <2>2. /\ scaled * total <= limit * SumUpTo(i)
        /\ \A v \in Vals : /\ cutSum[v] = CutSumUpTo(v) + amt[v]
                           /\ cutSum[v] <= scaled
    BY <2>0, <2>1 DEF RoundInv, CutSums, Vals
  <2>3. AmountsCapped'
    BY <2>1 DEF RoundInv, AmountsCapped, InRound
  <2>4. LimitHolds'
    BY <2>1, <2>2 DEF RoundInv, LimitHolds
  <2>5. scaled <= limit
    <3>1. SumUpTo(i) \in Nat /\ SumUpTo(i) <= total
      BY <2>0, <2>1 DEF RoundInv, LimitHolds, SumUpTo, Vals
    <3>2. SumUpTo(i) * limit <= total * limit
      BY <2>0, <3>1, Grows
    <3>3. SumUpTo(i) * limit = limit * SumUpTo(i) /\ total * limit = limit * total
          /\ limit * SumUpTo(i) \in Nat /\ limit * total \in Nat
          /\ scaled * total \in Nat
      BY <2>0, <3>1
    <3>4. scaled * total <= limit * total
      BY <2>2, <3>2, <3>3
    <3> QED
      BY <2>0, <2>1, <3>4, CancelFactor
  <2>6. \A v \in Vals : SumUpTo(v)' = CutSumUpTo(v)
    BY <2>1 DEF SumUpTo, CutSumUpTo
  <2>7. PaySums'
    BY <2>1, <2>2, <2>5, <2>6 DEF PaySums
  <2> QED
    BY <2>1, <2>3, <2>4, <2>7 DEF RoundInv, ScanSums, CutSums, CreditCovered
<1> QED
  BY <1>1, <1>2

\* The round is paid in as a whole, so every credit of it is covered.
LEMMA PayRound ==
  ASSUME TypeOK, RoundInv, DistributionBacked, FormulaPay
  PROVE  RoundInv' /\ DistributionBacked'
<1>0. /\ bal \in [Accounts -> Nat] /\ bal["distr"] \in Nat
      /\ total \in Nat /\ outstanding \in Nat
  BY RoundNats
<1>1. CASE Return /\ UNCHANGED <<bal, spent>>
  BY <1>1, OutsideRound DEF FormulaPay, DistributionBacked, Return, Finish
<1>2. CASE /\ total <= bal["reserve"]
           /\ bal' = Send(bal, "reserve", "distr", total)
           /\ spent' = spent + total /\ phase' = "credit"
           /\ UNCHANGED <<order, height, pos, round>>
  <2>1. /\ phase = "pay" /\ phase' = "credit" /\ outstanding' = outstanding
        /\ fp' = fp /\ i' = i /\ total' = total /\ amt' = amt /\ cum' = cum
    BY <1>2 DEF FormulaPay, round, params
  <2>2. bal'["distr"] = bal["distr"] + total
    BY <1>0, <1>2, AccountNames DEF Send
  <2>3. /\ i = 1
        /\ \A v \in Vals : cum[v] = SumUpTo(v) + amt[v] /\ cum[v] <= total
    BY <2>1 DEF RoundInv, PaySums
  <2>4. \A v \in Vals : SumUpTo(v)' = SumUpTo(v)
    BY <2>1 DEF SumUpTo
  <2>5. AmountsCapped'
    BY <2>1 DEF RoundInv, AmountsCapped, InRound
  <2>6. PaySums'
    BY <2>1, <2>3, <2>4 DEF PaySums
  <2>7. SumUpTo(i)' = 0
    BY <2>1, <2>3 DEF SumUpTo
  <2>8. CreditCovered' /\ DistributionBacked'
    BY <1>0, <2>1, <2>2, <2>7 DEF CreditCovered, DistributionBacked
  <2> QED
    BY <2>1, <2>5, <2>6, <2>8 DEF RoundInv, ScanSums, LimitHolds, CutSums
<1> QED
  BY <1>1, <1>2 DEF FormulaPay

LEMMA CreditRound ==
  ASSUME TypeOK, RoundInv, FormulaCredit
  PROVE  RoundInv' /\ DistributionBacked'
<1>0. /\ NVals \in Nat /\ i \in Nat /\ total \in Nat /\ outstanding \in Nat
      /\ bal["distr"] \in Nat
      /\ amt \in [Vals -> Nat] /\ cum \in [Vals -> Nat]
  BY RoundNats
<1>1. /\ phase = "credit" /\ phase' = "credit" /\ i' = i + 1
      /\ outstanding' = outstanding + amt[i]
      /\ fp' = fp /\ bal' = bal /\ total' = total /\ amt' = amt /\ cum' = cum
  BY DEF FormulaCredit, chain, params
<1>2. i \in Vals /\ i >= 1
  BY <1>0 DEF FormulaCredit, TypeOK, RoundOK, InRound, Vals
<1>3. /\ \A v \in Vals : cum[v] = SumUpTo(v) + amt[v] /\ cum[v] <= total
      /\ outstanding + (total - SumUpTo(i)) <= bal["distr"]
  BY <1>1 DEF RoundInv, PaySums, CreditCovered
<1>4. SumUpTo(i)' = cum[i]
  BY <1>0, <1>1, <1>2 DEF SumUpTo
<1>5. SumUpTo(i) \in Nat /\ cum[i] \in Nat /\ amt[i] \in Nat
  BY <1>0, <1>2 DEF SumUpTo, Vals
<1>6. \A v \in Vals : SumUpTo(v)' = SumUpTo(v)
  BY <1>1 DEF SumUpTo
<1>7. AmountsCapped'
  BY <1>1 DEF RoundInv, AmountsCapped, InRound
<1>8. PaySums'
  BY <1>1, <1>3, <1>6 DEF PaySums
<1>9. cum[i] = SumUpTo(i) + amt[i] /\ cum[i] <= total
  BY <1>2, <1>3
<1>10. CreditCovered' /\ DistributionBacked'
  BY <1>0, <1>1, <1>3, <1>4, <1>5, <1>9 DEF CreditCovered, DistributionBacked
<1> QED
  BY <1>1, <1>7, <1>8, <1>10 DEF RoundInv, ScanSums, LimitHolds, CutSums

\* Outside StreamFormulaRewards no amount is live.
LEMMA NoRound ==
  ASSUME TypeOK, RoundInv, DistributionBacked, [Next]_vars, ~Formula,
         ~UNCHANGED vars
  PROVE  RoundInv'
<1>1. phase' \in {"begin", "txs"} /\ phase \in {"begin", "txs"}
      /\ amt' = amt
  BY DEF Next, BeginBlock, Txs, FeeSplit, LegacyStream, TailStream,
         Distribute, Slash, OtherBeginBlock, BeginBlockDone, NextBlock,
         Transfer, Delegate, Undelegate, WithdrawRewards, BurnDeposit,
         UpdateFeeSplit, UpdateStream, UpdateFormula, UpdateTail,
         Running, Finish, chain, round
<1>2. amt = NoAmounts
  BY <1>1 DEF RoundInv, AmountsCapped, InRound
<1> QED
  BY <1>1, <1>2, OutsideRound DEF NoAmounts, Vals

LEMMA RoundStep ==
  ASSUME TypeOK, RoundInv, DistributionBacked, [Next]_vars
  PROVE  RoundInv'
<1>1. CASE FormulaEnd
  BY <1>1, OutsideRound DEF FormulaEnd, Return, Finish
<1>2. CASE UNCHANGED vars
  BY <1>2
  DEF vars, chain, money, params, round, RoundInv, AmountsCapped, ScanSums,
      LimitHolds, CutSums, PaySums, CreditCovered, SumUpTo, CutSumUpTo, InRound,
      NoAmounts, Vals
<1>3. CASE Formula /\ ~FormulaEnd
  BY <1>3, StartRound, ScanRound, LimitRound, ScaleRound, ScaledRound,
     PayRound, CreditRound
  DEF Formula
<1> QED
  BY <1>1, <1>2, <1>3, NoRound

LEMMA BackedStep ==
  ASSUME TypeOK, RoundInv, DistributionBacked, [Next]_vars
  PROVE  DistributionBacked'
<1>0. /\ bal \in [Accounts -> Nat] /\ bal["distr"] \in Nat
      /\ bal["collector"] \in Nat /\ outstanding \in Nat
  BY AccountNames DEF TypeOK, MoneyOK
<1>1. CASE Distribute
  <2>1. Send(bal, "collector", "distr", bal["collector"])["distr"]
          = bal["distr"] + bal["collector"]
    BY <1>0, AccountNames DEF Send
  <2> QED
    BY <1>0, <1>1, <2>1 DEF Distribute, DistributionBacked
<1>2. CASE WithdrawRewards
  <2>1. PICK a \in Amounts : /\ a <= outstanding /\ a <= bal["distr"]
                             /\ bal' = Send(bal, "distr", "users", a)
                             /\ outstanding' = outstanding - a
    BY <1>2 DEF WithdrawRewards
  <2>2. bal'["distr"] = bal["distr"] - a /\ a \in Nat
    BY <1>0, <2>1, AccountNames, AmountsAssumption DEF Send
  <2> QED
    BY <1>0, <2>1, <2>2 DEF DistributionBacked
<1>3. CASE FormulaPay \/ FormulaCredit
  BY <1>3, PayRound, CreditRound
<1>4. CASE \/ FeeSplit \/ LegacyStream \/ TailStream \/ Slash \/ Transfer
           \/ Delegate \/ Undelegate \/ BurnDeposit
  <2>1. \A a : \A from, to \in Accounts \ {"distr"} :
          Send(bal, from, to, a)["distr"] = bal["distr"]
    BY <1>0, AccountNames DEF Send
  <2>2. \A a : \A from \in Accounts \ {"distr"} :
          Burn(bal, from, a)["distr"] = bal["distr"]
    BY <1>0, AccountNames DEF Burn
  <2>3. outstanding' = outstanding
    BY <1>4
    DEF FeeSplit, LegacyStream, TailStream, Slash, Transfer, Delegate,
        Undelegate, BurnDeposit
  <2>4. CASE FeeSplit \/ LegacyStream \/ TailStream
    BY <2>1, <2>3, <2>4, AccountNames
    DEF FeeSplit, LegacyStream, TailStream, DistributionBacked
  <2>5. CASE Slash
    BY <2>1, <2>3, <2>5, AccountNames
    DEF Slash, BurnCoins, Pools, DistributionBacked
  <2>6. CASE Transfer
    <3>1. \A t \in Transfers : t[1] \in Accounts \ {"distr"}
                              /\ t[2] \in Accounts \ {"distr"}
      BY AccountNames DEF Transfers
    <3> QED
      BY <2>1, <2>3, <2>6, <3>1 DEF Transfer, DistributionBacked
  <2>7. CASE Delegate \/ Undelegate
    BY <2>1, <2>3, <2>7, AccountNames
    DEF Delegate, Undelegate, DistributionBacked
  <2>8. CASE BurnDeposit
    BY <2>2, <2>3, <2>8, AccountNames DEF BurnDeposit, DistributionBacked
  <2> QED
    BY <1>4, <2>4, <2>5, <2>6, <2>7, <2>8
<1>5. CASE \/ OtherBeginBlock \/ BeginBlockDone \/ NextBlock \/ UNCHANGED vars
           \/ UpdateFeeSplit \/ UpdateStream \/ UpdateFormula \/ UpdateTail
           \/ FormulaStart \/ FormulaScan \/ FormulaLimit \/ FormulaScale
           \/ FormulaScaled \/ FormulaEnd
  BY <1>5
  DEF OtherBeginBlock, BeginBlockDone, NextBlock, vars, money, UpdateFeeSplit,
      UpdateStream, UpdateFormula, UpdateTail, FormulaStart, FormulaScan,
      FormulaLimit, FormulaScale, FormulaScaled, FormulaEnd, DistributionBacked
<1> QED
  BY <1>1, <1>2, <1>3, <1>4, <1>5 DEF Next, BeginBlock, Formula, Txs

LEMMA RoundsAddUp == Spec => [](RoundInv /\ DistributionBacked)
<1>1. Init => RoundInv /\ DistributionBacked
  <2> SUFFICES ASSUME Init PROVE RoundInv /\ DistributionBacked
    OBVIOUS
  <2>1. RoundInv
    BY DEF Init, RoundInv, AmountsCapped, ScanSums, LimitHolds, CutSums,
           PaySums, CreditCovered, InRound
  <2>2. DistributionBacked
    BY GenesisAssumption DEF Init, DistributionBacked
  <2> QED
    BY <2>1, <2>2
<1>2. /\ TypeOK /\ RoundInv /\ DistributionBacked /\ [Next]_vars
      => RoundInv' /\ DistributionBacked'
  BY RoundStep, BackedStep
<1> QED
  BY <1>1, <1>2, TypeCorrect, PTL DEF Spec

-----------------------------------------------------------------------------
(* The limits                                                              *)

\* The books of x/distribution owe validators no more than its account
\* holds: the formula pays the round in before it credits (formula_stream.go),
\* so an error that stops the crediting half way leaves coins behind, never
\* a debt.
THEOREM DistributionIsBacked == Spec => []DistributionBacked
  BY RoundsAddUp, PTL

\* A round that is about to be paid asks for at most its limit, and the limit
\* for at most the reserve: the pro-rata cut of formula_stream.go never
\* overspends, whatever the number and the stakes of the validators.
THEOREM RoundIsCovered == Spec => []RoundCovered
<1>1. RoundInv => RoundCovered
  BY DEF RoundInv, PaySums, LimitHolds, RoundCovered
<1> QED
  BY <1>1, RoundsAddUp, PTL

LEMMA BudgetStep ==
  ASSUME TypeOK, TypeOK', SpendInv, RoundInv, SpendWithinBudget, [Next]_vars
  PROVE  SpendWithinBudget'
<1>0. /\ spent \in Nat /\ MaxTotalPerBlock(fp) \in Nat /\ height \in Nat
      /\ bal["reserve"] \in Nat /\ rs \in StreamParams /\ total \in Nat
      /\ limit \in Nat
  BY RoundNats DEF TypeOK, PlaceOK, ParamsOK
<1>1. CASE LegacyStream
  <2>1. spent = 0 /\ ~fp.enabled /\ fp' = fp /\ rs' = rs
    BY <1>1, NothingSpentYet DEF LegacyStream, params
  <2>2. spent' \in {spent, spent + FixedSlice(rs, height, bal["reserve"])}
    BY <1>1 DEF LegacyStream
  <2>3. /\ FixedSlice(rs, height, bal["reserve"]) \in Nat
        /\ FixedSlice(rs, height, bal["reserve"]) <= FixedPerBlock(rs)
        /\ FixedPerBlock(rs) \in Nat
    BY <1>0, FixedSliceBounds
  <2>4. spent' <= FixedPerBlock(rs)
    BY <2>1, <2>2, <2>3
  <2> QED
    BY <2>1, <2>4 DEF SpendWithinBudget
<1>2. CASE FormulaPay
  <2>1. /\ phase = "pay" /\ spent = 0 /\ fp' = fp /\ fp.enabled
        /\ spent' \in {spent, spent + total}
    BY <1>2, NothingSpentYet
    DEF FormulaPay, params, TypeOK, RoundOK, InRound
  <2>2. /\ total <= limit
        /\ MaxTotalPerBlock(fp) > 0 => limit <= MaxTotalPerBlock(fp)
    BY <2>1 DEF RoundInv, PaySums, LimitHolds
  <2>3. MaxTotalPerBlock(fp) > 0 => spent' <= MaxTotalPerBlock(fp)
    BY <1>0, <2>1, <2>2
  <2> QED
    BY <2>1, <2>3 DEF SpendWithinBudget
<1>3. CASE \/ FeeSplit \/ TailStream \/ Distribute \/ Slash \/ OtherBeginBlock
           \/ FormulaStart \/ FormulaScan \/ FormulaLimit \/ FormulaScale
           \/ FormulaScaled \/ FormulaCredit \/ FormulaEnd
  <2>1. spent' = spent /\ fp' = fp /\ rs' = rs /\ phase # "txs"
    BY <1>3
    DEF FeeSplit, TailStream, Distribute, Slash, OtherBeginBlock, Running,
        money, params, FormulaStart, FormulaScan, FormulaLimit, FormulaScale,
        FormulaScaled, FormulaCredit, FormulaEnd
  <2> QED
    BY <2>1 DEF SpendWithinBudget
<1>4. CASE BeginBlockDone \/ Txs
  <2>1. phase' = "txs"
    BY <1>4, TxsTypes DEF BeginBlockDone, chain
  <2> QED
    BY <2>1 DEF SpendWithinBudget
<1>5. CASE NextBlock
  <2>1. spent' = 0 /\ fp' = fp /\ rs' = rs
    BY <1>5 DEF NextBlock, params
  <2>2. FixedPerBlock(rs) \in Nat
    BY <1>0, FixedSliceBounds
  <2>3. 0 <= FixedPerBlock(rs) /\ 0 <= MaxTotalPerBlock(fp)
    BY <1>0, <2>2
  <2> QED
    BY <2>1, <2>3 DEF SpendWithinBudget
<1>6. CASE UNCHANGED vars
  BY <1>6 DEF vars, chain, money, params, SpendWithinBudget
<1> QED
  BY <1>1, <1>2, <1>3, <1>4, <1>5, <1>6 DEF Next, BeginBlock, Formula

\* In every block, what leaves the reserve is within the budget of the one
\* stream that is switched on, and a day of any validator's credits is within
\* the cap, however many validators there are and whatever they bonded.
THEOREM RoundStaysWithinLimits == Spec => []RoundWithinLimits
<1>1. Init /\ TypeOK => SpendWithinBudget
  <2> SUFFICES ASSUME Init, TypeOK PROVE SpendWithinBudget
    OBVIOUS
  <2>1. spent = 0 /\ rs \in StreamParams
    BY DEF Init, TypeOK, ParamsOK
  <2>2. FixedPerBlock(rs) \in Nat /\ MaxTotalPerBlock(fp) \in Nat
    BY <2>1, FixedSliceBounds, RoundNats
  <2>3. 0 <= FixedPerBlock(rs) /\ 0 <= MaxTotalPerBlock(fp)
    BY <2>2
  <2> QED
    BY <2>1, <2>3 DEF SpendWithinBudget
<1>2. TypeOK /\ TypeOK' /\ SpendInv /\ RoundInv /\ SpendWithinBudget
        /\ [Next]_vars => SpendWithinBudget'
  BY BudgetStep
<1>3. RoundInv => PerValidatorCap
  BY DEF RoundInv, AmountsCapped, InRound, PerValidatorCap
<1>4. SpendWithinBudget /\ PerValidatorCap => RoundWithinLimits
  BY DEF RoundWithinLimits
<1> QED
  BY <1>1, <1>2, <1>3, <1>4, TypeCorrect, ReserveOpenedOnce, RoundsAddUp, PTL
  DEF Spec

-----------------------------------------------------------------------------
(* The entry of validators: what a store says                              *)


StoreFields == {"params", "vals", "bonded", "unbonding", "counter", "grown",
                "dawn", "entry"}

\* A store whose validators all entered within the limits of their block.
Sound(s) ==
  /\ DOMAIN s = StoreFields /\ DOMAIN s.entry = Operators /\ s.vals \subseteq Operators
  /\ \A v \in s.vals :
       /\ s.entry[v].minself <= s.entry[v].amt
       /\ s.entry[v].min <= s.entry[v].minself
       /\ s.entry[v].path = "cosmos" /\ s.entry[v].max > 0
            => s.entry[v].amt <= s.entry[v].max

\* What the ante handler let through, under the params it still runs with.
Allowed(s, r) == \A k \in DOMAIN r : EntryAllowed(GetParams(s), r[k])

\* A stack of stores that are all sound.
StackOver(f, S) == f \in Seq(S) /\ \A t \in S : Sound(t)
SoundStack(f) == \E S : StackOver(f, S)

\* The stores the open frames hold are sound; inside a transaction there is a
\* frame, inside the precompile one more.
FramesOK ==
  /\ SoundStack(frames)
  /\ run # "idle" => frames # <<>>
  /\ run = "call" => Len(frames) >= 2

GateInv ==
  /\ Sound(kv) /\ FramesOK
  /\ rest \in Seq(Message) /\ (run = "call" => rest # <<>>)
  /\ run = "cosmos" => Allowed(kv, rest)

-----------------------------------------------------------------------------
(* Stores                                                                  *)

\* Bookkeeping of stakes, counters and params does not touch the entries.
SameEntries(s, t) ==
  DOMAIN t = DOMAIN s /\ t.entry = s.entry /\ t.vals = s.vals

LEMMA SameEntriesSound ==
  ASSUME NEW s, NEW t, Sound(s), SameEntries(s, t)
  PROVE  Sound(t)
  BY DEF Sound, SameEntries

LEMMA RecordSound ==
  ASSUME NEW s, Sound(s), NEW v, NEW n
  PROVE  Sound(Record(s, v, n))
<1>1. SameEntries(s, Record(s, v, n))
  BY DEF Record, SameEntries, Sound, StoreFields
<1> QED
  BY <1>1, SameEntriesSound

LEMMA ChargedSound ==
  ASSUME NEW s, Sound(s), NEW t
  PROVE  Sound(Charged(s, t))
<1>1. SameEntries(s, Charged(s, t))
  BY DEF Charged, SameEntries, Sound, StoreFields
<1> QED
  BY <1>1, SameEntriesSound

LEMMA MessageFields ==
  ASSUME NEW m \in Message
  PROVE  m.kind \in Kinds /\ m.val \in Operators /\ m.amt \in Nat /\ m.minself \in Nat
  BY DEF Message

\* The hook sees every validator that is created, on whatever path; the ante
\* handler has seen those of a Cosmos transaction.
LEMMA StakingSound ==
  ASSUME NEW s, Sound(s), NEW m \in Message, StakingAccepts(s, m),
         run = "cosmos" => EntryAllowed(GetParams(s), m)
  PROVE  Sound(StakingApplies(s, m))
<1>0. m.kind \in Kinds /\ m.val \in Operators
  BY MessageFields
<1>1. CASE m.kind = "create"
  <2> DEFINE e == [path |-> run, amt |-> m.amt, minself |-> m.minself,
                   min |-> GetParams(s).min, max |-> GetParams(s).max]
             t == [s EXCEPT !.vals = @ \cup {m.val},
                            !.bonded[m.val] = m.amt, !.dawn[m.val] = m.amt,
                            !.entry[m.val] = e]
  <2>1. StakingApplies(s, m) = t
    BY <1>1 DEF StakingApplies
  <2>2. /\ m.minself <= m.amt /\ m.minself >= GetParams(s).min
        /\ run = "cosmos" /\ GetParams(s).max > 0 => m.amt <= GetParams(s).max
    BY <1>1 DEF StakingAccepts, AfterValidatorCreated, EntryAllowed
  <2>3. /\ e.minself <= e.amt /\ e.min <= e.minself
        /\ e.path = "cosmos" /\ e.max > 0 => e.amt <= e.max
    BY <2>2
  <2> HIDE DEF e
  <2>4. /\ DOMAIN t = StoreFields /\ t.vals = s.vals \cup {m.val}
        /\ t.entry = [s.entry EXCEPT ![m.val] = e]
    BY DEF Sound, StoreFields
  <2> HIDE DEF t
  <2>5. t.entry[m.val] = e /\ \A v \in Operators \ {m.val} : t.entry[v] = s.entry[v]
    BY <1>0, <2>4 DEF Sound
  <2>6. Sound(t)
    BY <1>0, <2>3, <2>4, <2>5 DEF Sound
  <2> QED
    BY <2>1, <2>6
<1>2. CASE m.kind # "create"
  <2>1. SameEntries(s, StakingApplies(s, m))
    <3>1. CASE m.kind = "delegate"
      BY <3>1 DEF StakingApplies, Grow, SameEntries, Sound, StoreFields
    <3>2. CASE m.kind = "redelegate"
      BY <3>2 DEF StakingApplies, Grow, SameEntries, Sound, StoreFields
    <3>3. CASE m.kind = "undelegate"
      BY <3>3 DEF StakingApplies, SameEntries, Sound, StoreFields
    <3>4. CASE m.kind = "cancel"
      BY <3>4 DEF StakingApplies, SameEntries, Sound, StoreFields
    <3> QED
      BY <1>0, <1>2, <3>1, <3>2, <3>3, <3>4 DEF Kinds
  <2> QED
    BY <2>1, SameEntriesSound
<1> QED
  BY <1>1, <1>2

-----------------------------------------------------------------------------
(* Frames                                                                  *)

LEMMA PushIn ==
  ASSUME NEW S, NEW f \in Seq(S), NEW s
  PROVE  /\ Append(f, s) \in Seq(S \cup {s})
         /\ Len(Append(f, s)) = Len(f) + 1 /\ Len(f) \in Nat
<1>1. f \in Seq(S \cup {s})
  BY ElementOfSeq, SeqDef
<1> QED
  BY <1>1, AppendProperties

LEMMA PopIn ==
  ASSUME NEW S, NEW f \in Seq(S), f # <<>>
  PROVE  /\ f[1] \in S /\ Last(f) \in S /\ Front(f) \in Seq(S)
         /\ Len(Front(f)) = Len(f) - 1 /\ Len(f) \in Nat /\ Len(f) >= 1
<1>1. Len(f) \in Nat /\ Len(f) >= 1
  BY EmptySeq
<1>2. f[1] \in S /\ f[Len(f)] \in S
  BY <1>1, ElementOfSeq
<1>3. /\ SubSeq(f, 1, Len(f) - 1) \in Seq(S)
      /\ Len(SubSeq(f, 1, Len(f) - 1)) = Len(f) - 1
  <2>1. /\ 1 \in 1 .. Len(f) + 1 /\ Len(f) - 1 \in 0 .. Len(f)
        /\ (Len(f) - 1) - 1 + 1 = Len(f) - 1
    BY <1>1
  <2> QED
    BY <1>1, <2>1, SubSeqProperties
<1> QED
  BY <1>1, <1>2, <1>3 DEF Last, Front

LEMMA OneFrame ==
  ASSUME NEW s, Sound(s)
  PROVE  SoundStack(<<s>>)
<1>1. StackOver(<<s>>, {s})
  BY DEF StackOver
<1> QED
  BY <1>1 DEF SoundStack

LEMMA Pushed ==
  ASSUME FramesOK, NEW s, Sound(s)
  PROVE  /\ SoundStack(Append(frames, s))
         /\ Len(Append(frames, s)) = Len(frames) + 1 /\ Len(frames) \in Nat
<1>1. PICK S : frames \in Seq(S) /\ \A t \in S : Sound(t)
  BY DEF FramesOK, SoundStack, StackOver
<1>3. /\ Append(frames, s) \in Seq(S \cup {s})
      /\ Len(Append(frames, s)) = Len(frames) + 1 /\ Len(frames) \in Nat
  BY <1>1, PushIn
<1>4. StackOver(Append(frames, s), S \cup {s})
  BY <1>1, <1>3 DEF StackOver
<1> QED
  BY <1>3, <1>4 DEF SoundStack

\* What an open frame restores is sound, and so are those below it.
LEMMA Popped ==
  ASSUME FramesOK, frames # <<>>
  PROVE  /\ Sound(frames[1]) /\ Sound(Last(frames))
         /\ SoundStack(Front(frames))
         /\ Len(Front(frames)) = Len(frames) - 1
         /\ Len(frames) \in Nat /\ Len(frames) >= 1
<1>1. PICK S : frames \in Seq(S) /\ \A t \in S : Sound(t)
  BY DEF FramesOK, SoundStack, StackOver
<1>2. /\ frames[1] \in S /\ Last(frames) \in S /\ Front(frames) \in Seq(S)
      /\ Len(Front(frames)) = Len(frames) - 1
      /\ Len(frames) \in Nat /\ Len(frames) >= 1
  BY <1>1, PopIn
<1>3. StackOver(Front(frames), S)
  BY <1>1, <1>2 DEF StackOver
<1> QED
  BY <1>1, <1>2, <1>3 DEF SoundStack

LEMMA NoFrames == SoundStack(<<>>)
<1>1. StackOver(<<>>, {})
  BY EmptySeq DEF StackOver
<1> QED
  BY <1>1 DEF SoundStack

\* A transaction ends with a sound store, its own or the one it began with.
LEMMA Finished ==
  ASSUME NEW s, Sound(s), FinishTx(s)
  PROVE  GateInv'
<1>1. kv' = s /\ run' = "idle" /\ rest' = <<>> /\ frames' = <<>>
  BY DEF FinishTx
<1>2. FramesOK'
  BY <1>1, NoFrames DEF FramesOK
<1>3. Sound(kv')
  BY <1>1
<1>4. Sound(kv)'
  BY <1>3 DEF Sound
<1> QED
  BY <1>1, <1>2, <1>4 DEF GateInv

-----------------------------------------------------------------------------
(* Steps                                                                   *)

LEMMA GateInit == ValgateInit => GateInv
<1> SUFFICES ASSUME ValgateInit PROVE GateInv
  OBVIOUS
<1>1. PICK p : kv = EmptyStore(p)
  BY DEF ValgateInit
<1>2. Sound(kv)
  BY <1>1 DEF EmptyStore, Sound, StoreFields
<1>3. run = "idle" /\ frames = <<>> /\ rest = <<>>
  BY DEF ValgateInit
<1> QED
  BY <1>2, <1>3, NoFrames, EmptySeq DEF GateInv, FramesOK

\* Outside transactions: params, maturing unbondings and the next day.
LEMMA IdleKeeps ==
  ASSUME GateInv, InitGenesis \/ UpdateParams \/ Matures \/ NewDay
  PROVE  GateInv'
<1>1. SameEntries(kv, kv')
  <2>1. CASE InitGenesis
    BY <2>1 DEF InitGenesis, GateInv, SameEntries, Sound, StoreFields
  <2>2. CASE UpdateParams
    BY <2>2 DEF UpdateParams, GateInv, SameEntries, Sound, StoreFields
  <2>3. CASE Matures
    BY <2>3 DEF Matures, GateInv, SameEntries, Sound, StoreFields
  <2>4. CASE NewDay
    BY <2>4 DEF NewDay, GateInv, SameEntries, Sound, StoreFields
  <2> QED
    BY <2>1, <2>2, <2>3, <2>4
<1>2. Sound(kv')
  BY <1>1, SameEntriesSound DEF GateInv
<1>3. run' = run /\ run = "idle" /\ frames' = frames /\ rest' = rest
  BY DEF InitGenesis, UpdateParams, Matures, NewDay
<1> QED
  BY <1>2, <1>3 DEF GateInv, FramesOK, Sound, SoundStack, StackOver

\* A transaction begins with a frame that holds the store it began with.
LEMMA BeginKeeps ==
  ASSUME GateInv, Begin \/ EvmBegin
  PROVE  GateInv'
<1>1. /\ kv' = kv /\ frames' = <<kv>> /\ rest' \in Seq(Message)
      /\ run' \in {"cosmos", "evm"} /\ (run' = "cosmos" => Allowed(kv, rest'))
  <2>1. CASE Begin
    BY <2>1, MessagesAssumption DEF Begin, AnteHandle, Allowed
  <2>2. CASE EvmBegin
    BY <2>2 DEF EvmBegin, GateInv
  <2> QED
    BY <2>1, <2>2
<1>2. SoundStack(frames') /\ frames' # <<>>
  BY <1>1, OneFrame DEF GateInv
<1> QED
  BY <1>1, <1>2 DEF GateInv, FramesOK, Sound, SoundStack, StackOver, Allowed

LEMMA ExecMsgKeeps ==
  ASSUME GateInv, ExecMsg
  PROVE  GateInv'
<1>1. /\ Head(rest) \in Message /\ Tail(rest) \in Seq(Message)
  BY HeadTailProperties DEF ExecMsg, GateInv
<1>2. /\ run' = "cosmos" /\ run = "cosmos" /\ frames' = frames /\ rest' = Tail(rest)
      /\ kv' = StakingApplies(kv, Head(rest)) /\ StakingAccepts(kv, Head(rest))
      /\ Sound(kv) /\ Allowed(kv, rest) /\ rest \in Seq(Message) /\ rest # <<>>
  BY DEF ExecMsg, GateInv
<1>3. /\ Len(rest) \in Nat /\ Len(rest) >= 1 /\ Head(rest) = rest[1]
      /\ Len(Tail(rest)) = Len(rest) - 1
      /\ \A k \in 1 .. Len(rest) - 1 : Tail(rest)[k] = rest[k + 1]
  BY <1>2, EmptySeq, HeadTailProperties, LenProperties
<1>4. EntryAllowed(GetParams(kv), Head(rest))
  BY <1>2, <1>3 DEF Allowed
<1>5. Sound(kv')
  BY <1>1, <1>2, <1>4, StakingSound
<1>6. kv'.params = kv.params
  <2>1. DOMAIN kv = StoreFields
    BY <1>2 DEF Sound
  <2> QED
    BY <1>1, <1>2, <2>1, MessageFields
    DEF StakingApplies, Grow, StoreFields, Kinds
<1>7. \A k \in 1 .. Len(Tail(rest)) : EntryAllowed(GetParams(kv), Tail(rest)[k])
  BY <1>2, <1>3 DEF Allowed
<1>8. Allowed(kv', rest')
  BY <1>1, <1>2, <1>6, <1>7, LenProperties DEF Allowed, GetParams
<1>9. Allowed(kv, rest)'
  BY <1>8 DEF Allowed
<1> QED
  BY <1>1, <1>2, <1>5, <1>9 DEF GateInv, FramesOK, Sound, SoundStack, StackOver

LEMMA EndKeeps ==
  ASSUME GateInv, MsgFails \/ PostHandle
  PROVE  GateInv'
<1>1. Sound(kv) /\ Sound(frames[1])
  BY Popped DEF GateInv, FramesOK, MsgFails, PostHandle
<1>2. FinishTx(Charged(kv, tx)) \/ FinishTx(frames[1])
  BY DEF MsgFails, PostHandle
<1> QED
  BY <1>1, <1>2, ChargedSound, Finished

\* A call, or the precompile, opens a frame over the store it may restore.
LEMMA OpenKeeps ==
  ASSUME GateInv, EvmCall \/ Precompile
  PROVE  GateInv'
<1>1. SoundStack(frames') /\ Len(frames') = Len(frames) + 1 /\ Len(frames) \in Nat
  BY Pushed DEF GateInv, EvmCall, Precompile
<1>2. frames # <<>> /\ Len(frames) >= 1
  BY Popped DEF GateInv, FramesOK, EvmCall, Precompile
<1>3. frames' # <<>>
  BY <1>1, <1>2, EmptySeq
<1>4. CASE EvmCall
  BY <1>1, <1>3, <1>4 DEF EvmCall, GateInv, FramesOK, Sound
<1>5. CASE Precompile
  <2>1. PICK m \in Calls : /\ rest' = <<m>>
                           /\ kv' = Record(kv, m.val, m.amt) \/ kv' = kv
    BY <1>5 DEF Precompile
  <2>2. Sound(kv')
    BY <2>1, RecordSound DEF GateInv
  <2>3. rest' \in Seq(Message) /\ rest' # <<>>
    BY <2>1, MessagesAssumption
  <2>4. run' = "call"
    BY <1>5 DEF Precompile
  <2> QED
    BY <1>1, <1>2, <1>3, <2>2, <2>3, <2>4 DEF GateInv, FramesOK, Sound
<1> QED
  BY <1>4, <1>5

\* The precompile returns or fails, and its frame is closed.
LEMMA InnerKeeps ==
  ASSUME GateInv, InnerReturns \/ InnerFails
  PROVE  GateInv'
<1>0. /\ run = "call" /\ run' = "evm" /\ rest' = <<>>
      /\ frames' = Front(frames) /\ frames # <<>> /\ rest # <<>>
      /\ Len(frames) >= 2 /\ rest \in Seq(Message)
  BY DEF InnerReturns, InnerFails, GateInv, FramesOK
<1>1. SoundStack(frames') /\ Len(frames') >= 1 /\ Sound(Last(frames))
  BY <1>0, Popped DEF GateInv
<1>2. frames' # <<>>
  BY <1>1, EmptySeq
<1>3. Head(rest) \in Message
  BY <1>0, HeadTailProperties
<1>4. Sound(kv')
  BY <1>1, <1>3, StakingSound DEF InnerReturns, InnerFails, GateInv
<1> QED
  BY <1>0, <1>1, <1>2, <1>4, EmptySeq DEF GateInv, FramesOK, Sound

LEMMA EvmReturnKeeps ==
  ASSUME GateInv, EvmReturn
  PROVE  GateInv'
<1>0. run = "evm" /\ frames # <<>> /\ Sound(kv) /\ rest \in Seq(Message)
  BY DEF EvmReturn, GateInv, FramesOK
<1>1. /\ Sound(Last(frames)) /\ SoundStack(Front(frames))
      /\ Len(Front(frames)) = Len(frames) - 1
      /\ Len(frames) \in Nat /\ Len(frames) >= 1
  BY <1>0, Popped DEF GateInv
<1>2. PICK s \in {kv, Last(frames)} :
        IF Len(frames) = 1 THEN FinishTx(s)
        ELSE kv' = s /\ frames' = Front(frames) /\ UNCHANGED <<run, tx, rest>>
  BY DEF EvmReturn
<1>3. Sound(s)
  BY <1>0, <1>1, <1>2
<1>4. CASE Len(frames) = 1
  BY <1>2, <1>3, <1>4, Finished
<1>5. CASE Len(frames) # 1
  <2>1. kv' = s /\ frames' = Front(frames) /\ run' = run /\ rest' = rest
    BY <1>2, <1>5
  <2>2. Len(frames') >= 1
    BY <1>1, <1>5, <2>1
  <2>3. frames' # <<>>
    BY <2>2, EmptySeq
  <2> QED
    BY <1>0, <1>1, <1>3, <2>1, <2>3 DEF GateInv, FramesOK, Sound
<1> QED
  BY <1>4, <1>5

LEMMA GateStep == GateInv /\ [ValgateNext]_valgateVars => GateInv'
<1> SUFFICES ASSUME GateInv, [ValgateNext]_valgateVars PROVE GateInv'
  OBVIOUS
<1>1. CASE InitGenesis \/ UpdateParams \/ Matures \/ NewDay
  BY <1>1, IdleKeeps
<1>2. CASE Begin \/ EvmBegin
  BY <1>2, BeginKeeps
<1>3. CASE ExecMsg
  BY <1>3, ExecMsgKeeps
<1>4. CASE MsgFails \/ PostHandle
  BY <1>4, EndKeeps
<1>5. CASE EvmCall \/ Precompile
  BY <1>5, OpenKeeps
<1>6. CASE InnerReturns \/ InnerFails
  BY <1>6, InnerKeeps
<1>7. CASE EvmReturn
  BY <1>7, EvmReturnKeeps
<1>8. CASE UNCHANGED valgateVars
  BY <1>8 DEF valgateVars, GateInv, FramesOK, Sound, SoundStack, StackOver, Allowed
<1> QED
  BY <1>1, <1>2, <1>3, <1>4, <1>5, <1>6, <1>7, <1>8 DEF ValgateNext

\* hooks.go and ante.go: on every path, the gentxs before the params and the
\* precompile behind the ante handler included, a validator that is kept came
\* in with the least self-bond of its block, however calls nest, revert and
\* are caught; what the ante handler let through also stayed below the
\* greatest when its message ran.  On the precompile path the greatest
\* self-bond is not enforced, and the theorem does not claim it.
THEOREM EveryEntryWithinLimits == ValgateSpec => []EntryWithinLimits
<1>1. GateInv => EntryWithinLimits
  BY DEF GateInv, Sound, EntryWithinLimits
<1> QED
  BY <1>1, GateInit, GateStep, PTL DEF ValgateSpec
-----------------------------------------------------------------------------
(* The daily cap: what has been charged to a validator today is what it has *)
(* grown by, give or take the delegation under way                          *)

UsedOn(s, v, d) == IF s.counter[v].day = d THEN s.counter[v].amt ELSE 0
Limit(s) == GetParams(s).daily

\* On day d with loosest cap L, the charges of s are what its validators have
\* grown by and x more; after a day without a cap there may be fewer charges.
Balanced(s, x, d, L) ==
  /\ DOMAIN s = StoreFields
  /\ s.grown \in [Operators -> Nat] /\ s.counter \in [Operators -> [day: Nat, amt: Nat]]
  /\ s.params = Unset \/ (s.params \in ParamsRecord /\ Validate(s.params))
  /\ L > 0 => Limit(s) > 0 /\ Limit(s) <= L
  /\ s.params = Unset => \A v \in Operators : s.grown[v] = 0
  /\ \A v \in Operators :
       /\ s.counter[v].day <= d
       /\ UsedOn(s, v, d) <= s.grown[v] + x[v]
       /\ L > 0 => UsedOn(s, v, d) = s.grown[v] + x[v] /\ UsedOn(s, v, d) <= L

Nothing == [v \in Operators |-> 0]
Settled(s, p, d, L) == s.params = p /\ Balanced(s, Nothing, d, L)

SettledOver(f, S, p, d, L) == f \in Seq(S) /\ \A t \in S : Settled(t, p, d, L)
SettledStack(f, p, d, L) == \E S : SettledOver(f, S, p, d, L)

\* What a message adds to the stake of each validator, and what the first n
\* messages of a transaction do.
BondsTo(m, v) == m.kind \in {"delegate", "redelegate"} /\ m.val = v
Due(m) == [v \in Operators |-> IF BondsTo(m, v) THEN m.amt ELSE 0]
GrowthOf(t, n, v) ==
  SumFunctionOnSet([k \in DOMAIN t |-> t[k].amt], {k \in 1 .. n : BondsTo(t[k], v)})

\* The transaction t, with the messages r to go, has taken s0 to s.
Underway(s, s0, t, r) ==
  /\ DOMAIN s = StoreFields /\ s.params = s0.params /\ s.counter = s0.counter
  /\ t \in Seq(Message) /\ Len(r) <= Len(t)
  /\ \A k \in 1 .. Len(r) : r[k] = t[k + Len(t) - Len(r)]
  /\ s.params = Unset => \A k \in DOMAIN t : t[k].kind = "create"
  /\ s.grown \in [Operators -> Nat]
  /\ \A v \in Operators : s.grown[v] = s0.grown[v] + GrowthOf(t, Len(t) - Len(r), v)

GrowInv ==
  /\ day \in Nat /\ loosest \in Nat
  /\ SettledStack(frames, kv.params, day, loosest)
  /\ run = "idle" => frames = <<>>
  /\ run \in {"idle", "evm"} => Settled(kv, kv.params, day, loosest)
  /\ run \in {"evm", "call"} => kv.params # Unset
  /\ run = "cosmos" => Underway(kv, frames[1], tx, rest)
  /\ run = "call" => Len(rest) = 1 /\ Balanced(kv, Due(rest[1]), day, loosest)

\* A cap is a number, whatever the store holds of it.
LEMMA LimitNat ==
  ASSUME NEW s,
         s.params = Unset \/ (s.params \in ParamsRecord /\ Validate(s.params))
  PROVE  Limit(s) \in Nat
<1>0. Defaults.daily \in Nat /\ Unset \notin ParamsRecord
  BY ParamsAssumption, NilAssumption
<1>1. CASE s.params = Unset
  BY <1>0, <1>1 DEF Limit, GetParams
<1>2. CASE s.params # Unset
  <2> DEFINE p == s.params
  <2>1. /\ p \in ParamsRecord /\ p.daily \in Int \cup {Nil}
        /\ p.daily # Nil => p.daily >= 0
    BY <1>2 DEF ParamsRecord, Validate
  <2>2. Limit(s) = IF p.daily = Nil THEN Defaults.daily ELSE p.daily
    BY <1>2, <2>1 DEF Limit, GetParams, ParamsRecord
  <2> HIDE DEF p
  <2> QED
    BY <1>0, <2>1, <2>2
<1> QED
  BY <1>1, <1>2

LEMMA SameLimit ==
  ASSUME NEW s, NEW t, s.params = t.params
  PROVE  Limit(s) = Limit(t)
  BY DEF Limit, GetParams

\* x/staking grows a validator by what the message is due, and neither charges
\* nor sets params.
LEMMA StakingGrows ==
  ASSUME NEW s, NEW m \in Message, DOMAIN s = StoreFields, s.grown \in [Operators -> Nat]
  PROVE  LET t == StakingApplies(s, m)
         IN  /\ DOMAIN t = StoreFields
             /\ t.params = s.params /\ t.counter = s.counter
             /\ t.grown \in [Operators -> Nat]
             /\ \A v \in Operators : t.grown[v] = s.grown[v] + Due(m)[v]
<1> DEFINE t == StakingApplies(s, m)
<1>0. m.kind \in Kinds /\ m.val \in Operators /\ m.amt \in Nat
  BY MessageFields
<1>1. /\ DOMAIN t = StoreFields /\ t.params = s.params /\ t.counter = s.counter
      /\ IF m.kind \in {"delegate", "redelegate"}
         THEN t.grown = [s.grown EXCEPT ![m.val] = @ + m.amt]
         ELSE t.grown = s.grown
  <2>1. CASE m.kind = "create"
    BY <2>1 DEF StakingApplies, StoreFields
  <2>2. CASE m.kind = "delegate"
    BY <2>2 DEF StakingApplies, Grow, StoreFields
  <2>3. CASE m.kind = "redelegate"
    BY <2>3 DEF StakingApplies, Grow, StoreFields
  <2>4. CASE m.kind = "undelegate"
    BY <2>4 DEF StakingApplies, StoreFields
  <2>5. CASE m.kind = "cancel"
    BY <2>5 DEF StakingApplies, StoreFields
  <2> QED
    BY <1>0, <2>1, <2>2, <2>3, <2>4, <2>5 DEF Kinds
<1> HIDE DEF t
<1>2. /\ t.grown \in [Operators -> Nat]
      /\ \A v \in Operators : t.grown[v] = s.grown[v] + Due(m)[v]
  <2>1. CASE m.kind \in {"delegate", "redelegate"}
    BY <1>0, <1>1, <2>1 DEF Due, BondsTo
  <2>2. CASE m.kind \notin {"delegate", "redelegate"}
    BY <1>0, <1>1, <2>2 DEF Due, BondsTo
  <2> QED
    BY <2>1, <2>2
<1> QED
  BY <1>1, <1>2 DEF t

\* t has the params and charges of s, and its validators grew by all of x but y.
GrowsBy(s, t, x, y) ==
  /\ DOMAIN t = StoreFields /\ t.params = s.params /\ t.counter = s.counter
  /\ t.grown \in [Operators -> Nat]
  /\ \A v \in Operators : t.grown[v] + y[v] = s.grown[v] + x[v]
  /\ t.params = Unset => \A v \in Operators : t.grown[v] = 0

LEMMA Rebalance ==
  ASSUME NEW s, NEW t, NEW x, NEW y, NEW d, NEW L, Balanced(s, x, d, L),
         GrowsBy(s, t, x, y)
  PROVE  Balanced(t, y, d, L)
<1>1. Limit(t) = Limit(s)
  BY SameLimit DEF GrowsBy
<1>2. \A v \in Operators : UsedOn(t, v, d) = UsedOn(s, v, d)
  BY DEF UsedOn, GrowsBy
<1>3. \A v \in Operators :
        /\ t.counter[v].day <= d
        /\ UsedOn(t, v, d) <= t.grown[v] + y[v]
        /\ L > 0 => UsedOn(t, v, d) = t.grown[v] + y[v] /\ UsedOn(t, v, d) <= L
  BY <1>2 DEF Balanced, GrowsBy
<1> QED
  BY <1>1, <1>3 DEF Balanced, GrowsBy

\* t is s with the validators of T charged what x says, each within what is
\* left of its day, and grown by all of it but y.
ChargesTo(s, t, x, y, T) ==
  /\ x \in [Operators -> Nat] /\ y \in [Operators -> Nat] /\ T \in SUBSET Operators
  /\ \A v \in Operators \ T : x[v] = 0
  /\ \A v \in T : FitsToday(s, v, x[v])
  /\ DOMAIN t = StoreFields /\ t.params = s.params
  /\ t.counter \in [Operators -> [day: Nat, amt: Nat]]
  /\ \A v \in Operators : t.counter[v] =
       IF v \in T /\ Limit(s) > 0
       THEN [day |-> day, amt |-> Used(s, v) + x[v]] ELSE s.counter[v]
  /\ t.grown \in [Operators -> Nat]
  /\ \A v \in Operators : t.grown[v] + y[v] = s.grown[v] + x[v]
  /\ t.params = Unset => \A v \in Operators : t.grown[v] = 0

LEMMA Charging ==
  ASSUME NEW s, NEW t, NEW p, NEW L \in Nat, day \in Nat, Settled(s, p, day, L),
         NEW x, NEW y, NEW T, ChargesTo(s, t, x, y, T)
  PROVE  Balanced(t, y, day, L)
<1>0. /\ x \in [Operators -> Nat] /\ y \in [Operators -> Nat] /\ T \in SUBSET Operators
      /\ \A v \in Operators \ T : x[v] = 0
      /\ \A v \in T : FitsToday(s, v, x[v])
      /\ DOMAIN t = StoreFields /\ t.params = s.params
      /\ t.counter \in [Operators -> [day: Nat, amt: Nat]]
      /\ \A v \in Operators : t.counter[v] =
           IF v \in T /\ Limit(s) > 0
           THEN [day |-> day, amt |-> Used(s, v) + x[v]] ELSE s.counter[v]
      /\ t.grown \in [Operators -> Nat]
      /\ \A v \in Operators : t.grown[v] + y[v] = s.grown[v] + x[v]
      /\ t.params = Unset => \A v \in Operators : t.grown[v] = 0
  BY DEF ChargesTo
<1>1. /\ s.grown \in [Operators -> Nat] /\ s.counter \in [Operators -> [day: Nat, amt: Nat]]
      /\ s.params = Unset \/ (s.params \in ParamsRecord /\ Validate(s.params))
      /\ L > 0 => Limit(s) > 0 /\ Limit(s) <= L
      /\ Limit(s) \in Nat
  BY LimitNat DEF Settled, Balanced
<1>2. Limit(t) = Limit(s)
  BY <1>0, SameLimit
<1>3. ASSUME NEW v \in Operators
      PROVE  /\ t.counter[v].day <= day
             /\ UsedOn(t, v, day) <= t.grown[v] + y[v]
             /\ L > 0 => UsedOn(t, v, day) = t.grown[v] + y[v] /\ UsedOn(t, v, day) <= L
  <2>1. /\ s.counter[v].day <= day /\ s.counter[v].day \in Nat /\ s.counter[v].amt \in Nat
        /\ UsedOn(s, v, day) <= s.grown[v] + Nothing[v]
        /\ L > 0 => UsedOn(s, v, day) = s.grown[v] + Nothing[v] /\ UsedOn(s, v, day) <= L
    BY <1>1 DEF Settled, Balanced
  <2>2. /\ Nothing[v] = 0 /\ s.grown[v] \in Nat /\ t.grown[v] \in Nat
        /\ x[v] \in Nat /\ y[v] \in Nat /\ UsedOn(s, v, day) \in Nat
        /\ Used(s, v) = UsedOn(s, v, day)
    BY <1>0, <1>1, <2>1 DEF Nothing, UsedOn, Used
  <2>3. CASE v \in T /\ Limit(s) > 0
    <3>1. t.counter[v] = [day |-> day, amt |-> Used(s, v) + x[v]]
      BY <1>0, <2>3
    <3>2. UsedOn(t, v, day) = Used(s, v) + x[v] /\ t.counter[v].day = day
      BY <3>1 DEF UsedOn
    <3>3. Used(s, v) + x[v] <= Limit(s)
      BY <1>0, <2>3 DEF FitsToday, Limit
    <3> QED
      BY <1>0, <1>1, <2>1, <2>2, <3>2, <3>3
  <2>4. CASE ~(v \in T /\ Limit(s) > 0)
    <3>1. t.counter[v] = s.counter[v]
      BY <1>0, <2>4
    <3>2. UsedOn(t, v, day) = UsedOn(s, v, day) /\ t.counter[v].day <= day
      BY <2>1, <3>1 DEF UsedOn
    <3>3. L > 0 => x[v] = 0
      BY <1>0, <1>1, <2>4
    <3> QED
      BY <1>0, <2>1, <2>2, <3>2, <3>3
  <2> QED
    BY <2>3, <2>4
<1> QED
  BY <1>0, <1>1, <1>2, <1>3 DEF Balanced

-----------------------------------------------------------------------------
(* Stacks of settled stores                                                *)

LEMMA NoSettled ==
  ASSUME NEW p, NEW d, NEW L
  PROVE  SettledStack(<<>>, p, d, L)
<1>1. SettledOver(<<>>, {}, p, d, L)
  BY EmptySeq DEF SettledOver
<1> QED
  BY <1>1 DEF SettledStack

LEMMA OneSettled ==
  ASSUME NEW s, NEW p, NEW d, NEW L, Settled(s, p, d, L)
  PROVE  SettledStack(<<s>>, p, d, L)
<1>1. SettledOver(<<s>>, {s}, p, d, L)
  BY DEF SettledOver
<1> QED
  BY <1>1 DEF SettledStack

LEMMA PushSettled ==
  ASSUME NEW f, NEW s, NEW p, NEW d, NEW L, SettledStack(f, p, d, L),
         Settled(s, p, d, L)
  PROVE  SettledStack(Append(f, s), p, d, L)
<1>1. PICK S : f \in Seq(S) /\ \A t \in S : Settled(t, p, d, L)
  BY DEF SettledStack, SettledOver
<1>2. Append(f, s) \in Seq(S \cup {s})
  BY <1>1, PushIn
<1>3. SettledOver(Append(f, s), S \cup {s}, p, d, L)
  BY <1>1, <1>2 DEF SettledOver
<1> QED
  BY <1>3 DEF SettledStack

LEMMA PopSettled ==
  ASSUME NEW f, NEW p, NEW d, NEW L, SettledStack(f, p, d, L), f # <<>>
  PROVE  /\ Settled(f[1], p, d, L) /\ Settled(Last(f), p, d, L)
         /\ SettledStack(Front(f), p, d, L)
<1>1. PICK S : f \in Seq(S) /\ \A t \in S : Settled(t, p, d, L)
  BY DEF SettledStack, SettledOver
<1>2. f[1] \in S /\ Last(f) \in S /\ Front(f) \in Seq(S)
  BY <1>1, PopIn
<1>3. SettledOver(Front(f), S, p, d, L)
  BY <1>1, <1>2 DEF SettledOver
<1> QED
  BY <1>1, <1>2, <1>3 DEF SettledStack

-----------------------------------------------------------------------------
(* Transactions of messages                                                *)

\* Growth is summed message by message.
LEMMA GrowthSums ==
  ASSUME NEW t \in Seq(Message), NEW v \in Operators
  PROVE  /\ GrowthOf(t, 0, v) = 0
         /\ \A n \in 0 .. Len(t) : GrowthOf(t, n, v) \in Nat
         /\ \A n \in 0 .. Len(t) - 1 :
              GrowthOf(t, n + 1, v) = GrowthOf(t, n, v) + Due(t[n + 1])[v]
         /\ GrowthOf(t, Len(t), v) = BondIncrease(t, v)
         /\ (\A k \in DOMAIN t : ~BondsTo(t[k], v))
              => \A n \in 0 .. Len(t) : GrowthOf(t, n, v) = 0
<1> DEFINE f == [k \in DOMAIN t |-> t[k].amt]
           S(n) == {k \in 1 .. n : BondsTo(t[k], v)}
<1>0. /\ Len(t) \in Nat /\ DOMAIN t = 1 .. Len(t)
      /\ \A k \in 1 .. Len(t) : t[k] \in Message
  BY LenProperties, ElementOfSeq
<1>1. \A n \in 0 .. Len(t) : /\ IsFiniteSet(S(n)) /\ S(n) \subseteq 1 .. Len(t)
                             /\ n + 1 \notin S(n)
  <2> SUFFICES ASSUME NEW n \in 0 .. Len(t)
               PROVE  /\ IsFiniteSet(S(n)) /\ S(n) \subseteq 1 .. Len(t)
                      /\ n + 1 \notin S(n)
    OBVIOUS
  <2>1. n \in Nat /\ n <= Len(t) /\ IsFiniteSet(1 .. n)
    BY <1>0, FS_Interval
  <2>2. S(n) \in SUBSET (1 .. n)
    OBVIOUS
  <2> QED
    BY <1>0, <2>1, <2>2, FS_Subset
<1>2. \A k \in 1 .. Len(t) : f[k] \in Nat /\ f[k] \in Int /\ f[k] = t[k].amt
  BY <1>0, MessageFields
<1>3. \A n : GrowthOf(t, n, v) = SumFunctionOnSet(f, S(n))
  BY DEF GrowthOf
<1>4. S(0) = {}
  OBVIOUS
<1>5. BondIncrease(t, v) = SumFunctionOnSet(f, S(Len(t)))
  BY <1>0 DEF BondIncrease, BondsTo
<1>6. ASSUME NEW n \in 0 .. Len(t) - 1
      PROVE  /\ n \in 0 .. Len(t) /\ n + 1 \in 1 .. Len(t)
             /\ S(n + 1) = IF BondsTo(t[n + 1], v) THEN S(n) \cup {n + 1} ELSE S(n)
  <2>1. n \in Nat /\ n + 1 <= Len(t)
    BY <1>0
  <2>2. 1 .. n + 1 = (1 .. n) \cup {n + 1}
    BY <2>1
  <2> QED
    BY <1>0, <2>1, <2>2
<1> HIDE DEF f, S
<1>7. \A n \in 0 .. Len(t) : SumFunctionOnSet(f, S(n)) \in Nat
  BY <1>1, <1>2, SumNat
<1>8. ASSUME NEW n \in 0 .. Len(t) - 1
      PROVE  SumFunctionOnSet(f, S(n + 1)) = SumFunctionOnSet(f, S(n)) + Due(t[n + 1])[v]
  <2>0. Due(t[n + 1])[v] = IF BondsTo(t[n + 1], v) THEN f[n + 1] ELSE 0
    BY <1>2, <1>6 DEF Due
  <2>1. CASE BondsTo(t[n + 1], v)
    <3>1. /\ IsFiniteSet(S(n)) /\ n + 1 \notin S(n)
          /\ \A k \in S(n) \cup {n + 1} : f[k] \in Int
      BY <1>1, <1>2, <1>6
    <3>2. SumFunctionOnSet(f, S(n) \cup {n + 1}) = f[n + 1] + SumFunctionOnSet(f, S(n))
      BY <3>1, SumAdd
    <3>3. f[n + 1] \in Nat /\ SumFunctionOnSet(f, S(n)) \in Nat
      BY <1>2, <1>6, <1>7
    <3>4. SumFunctionOnSet(f, S(n + 1)) = SumFunctionOnSet(f, S(n) \cup {n + 1})
      BY <1>6, <2>1, Zenon
    <3>5. Due(t[n + 1])[v] = f[n + 1]
      BY <2>0, <2>1, Zenon
    <3> QED
      BY <3>2, <3>3, <3>4, <3>5
  <2>2. CASE ~BondsTo(t[n + 1], v)
    <3>1. SumFunctionOnSet(f, S(n)) \in Nat
      BY <1>6, <1>7
    <3>2. SumFunctionOnSet(f, S(n + 1)) = SumFunctionOnSet(f, S(n))
      BY <1>6, <2>2, Zenon
    <3>3. Due(t[n + 1])[v] = 0
      BY <2>0, <2>2, Zenon
    <3> QED
      BY <3>1, <3>2, <3>3
  <2> QED
    BY <2>1, <2>2
<1>9. ASSUME \A k \in DOMAIN t : ~BondsTo(t[k], v)
      PROVE  \A n \in 0 .. Len(t) : SumFunctionOnSet(f, S(n)) = 0
  <2>1. \A n \in 0 .. Len(t) : S(n) = {}
    BY <1>0, <1>9 DEF S
  <2> QED
    BY <2>1, SumEmpty
<1> QED
  BY <1>3, <1>4, <1>5, <1>7, <1>8, <1>9, SumEmpty

-----------------------------------------------------------------------------
(* Steps outside transactions                                              *)

LEMMA FinishSettles ==
  ASSUME NEW s, FinishTx(s), day' \in Nat, loosest' \in Nat,
         Settled(s, s.params, day', loosest')
  PROVE  GrowInv'
<1>1. kv' = s /\ run' = "idle" /\ frames' = <<>>
  BY DEF FinishTx
<1>2. SettledStack(frames', kv'.params, day', loosest')
  BY <1>1, NoSettled
<1>3. Settled(kv', kv'.params, day', loosest')
  BY <1>1
<1> QED
  BY <1>1, <1>2, <1>3 DEF GrowInv

LEMMA GrowInit == ValgateInit => GrowInv
<1> SUFFICES ASSUME ValgateInit PROVE GrowInv
  OBVIOUS
<1>1. PICK p \in {Unset} \cup StoredParams : kv = EmptyStore(p)
  BY DEF ValgateInit
<1>2. /\ run = "idle" /\ frames = <<>> /\ day = 1 /\ loosest = Limit(kv)
  BY DEF ValgateInit, Limit
<1>3. /\ DOMAIN kv = StoreFields /\ kv.params = p
      /\ kv.grown = [v \in Operators |-> 0]
      /\ kv.counter = [v \in Operators |-> [day |-> 0, amt |-> 0]]
  BY <1>1 DEF EmptyStore, StoreFields
<1>4. kv.params = Unset \/ (kv.params \in ParamsRecord /\ Validate(kv.params))
  BY <1>3, ParamsAssumption, StoredAssumption
<1>5. loosest \in Nat
  BY <1>2, <1>4, LimitNat
<1>6. \A v \in Operators : /\ kv.grown[v] = 0 /\ Nothing[v] = 0
                           /\ kv.counter[v].day = 0 /\ UsedOn(kv, v, day) = 0
  BY <1>2, <1>3 DEF Nothing, UsedOn
<1>7. Balanced(kv, Nothing, day, loosest)
  BY <1>2, <1>3, <1>4, <1>5, <1>6 DEF Balanced
<1>8. SettledStack(frames, kv.params, day, loosest)
  BY <1>2, NoSettled
<1> QED
  BY <1>2, <1>5, <1>7, <1>8 DEF GrowInv, Settled

\* What SetParams stores of valid params.
LEMMA ParamsStored ==
  ASSUME NEW p \in ParamsRecord, Validate(p)
  PROVE  LET q == Marshalled(p)
         IN  q \in ParamsRecord /\ Validate(q) /\ q.daily \in Nat /\ q # Unset
<1> DEFINE q == Marshalled(p)
<1>1. /\ p.min \in Int \cup {Nil} /\ p.max \in Int \cup {Nil}
      /\ p.daily \in Int \cup {Nil}
      /\ q = [p EXCEPT !.max = IF p.max = Nil THEN 0 ELSE p.max,
                       !.daily = IF p.daily = Nil THEN 0 ELSE p.daily]
  BY DEF ParamsRecord, Marshalled
<1> HIDE DEF q
<1>2. /\ q.min = p.min
      /\ q.max = IF p.max = Nil THEN 0 ELSE p.max
      /\ q.daily = IF p.daily = Nil THEN 0 ELSE p.daily
  BY <1>1 DEF ParamsRecord
<1>3. q \in ParamsRecord
  <2>1. /\ (IF p.max = Nil THEN 0 ELSE p.max) \in Int \cup {Nil}
        /\ (IF p.daily = Nil THEN 0 ELSE p.daily) \in Int \cup {Nil}
    BY <1>1
  <2> QED
    BY <1>1, <2>1, Zenon DEF ParamsRecord
<1>4. q.daily \in Nat
  BY <1>1, <1>2 DEF Validate
<1>5. Validate(q)
  <2>1. q.min # Nil /\ q.min >= 0
    BY <1>2 DEF Validate
  <2>2. q.max >= 0 /\ (q.max > 0 => q.max >= q.min)
    BY <1>2 DEF Validate
  <2> QED
    BY <1>4, <2>1, <2>2 DEF Validate
<1> QED
  BY <1>3, <1>4, <1>5, NilAssumption DEF q

\* New params keep the balance, if the charges fit what is then loosest.
LEMMA NewParams ==
  ASSUME NEW s, NEW t, NEW d, NEW L, NEW L2, NEW q \in ParamsRecord,
         Balanced(s, Nothing, d, L), Validate(q), q.daily \in Nat, q # Unset,
         t = [s EXCEPT !.params = q],
         L2 > 0 => q.daily > 0 /\ q.daily <= L2,
         L2 > 0 => \A v \in Operators : /\ UsedOn(s, v, d) = s.grown[v] + Nothing[v]
                                        /\ UsedOn(s, v, d) <= L2
  PROVE  Settled(t, q, d, L2)
<1>1. /\ DOMAIN t = StoreFields /\ t.params = q
      /\ t.grown = s.grown /\ t.counter = s.counter
  BY DEF Balanced, StoreFields
<1>2. q.daily # Nil
  BY NilAssumption
<1>3. Limit(t) = q.daily
  BY <1>1, <1>2 DEF Limit, GetParams, ParamsRecord
<1>4. \A v \in Operators : UsedOn(t, v, d) = UsedOn(s, v, d)
  BY <1>1 DEF UsedOn
<1> QED
  BY <1>1, <1>3, <1>4 DEF Settled, Balanced

\* The stores outside transactions.
LEMMA StillIdle ==
  ASSUME run' = "idle", frames' = <<>>, day' \in Nat, loosest' \in Nat,
         Settled(kv', kv'.params, day', loosest')
  PROVE  GrowInv'
<1>1. SettledStack(frames', kv'.params, day', loosest')
  BY NoSettled
<1> QED
  BY <1>1 DEF GrowInv

LEMMA InitGenesisGrows == ASSUME GrowInv, InitGenesis PROVE GrowInv'
<1>1. PICK p \in GenesisParams :
        /\ Validate(Backfilled(p))
        /\ kv' = [kv EXCEPT !.params = Marshalled(Backfilled(p))]
        /\ loosest' = Backfilled(p).daily
  BY DEF InitGenesis
<1>2. /\ run = "idle" /\ run' = run /\ frames' = frames /\ day' = day
      /\ day \in Nat /\ frames = <<>> /\ kv.params = Unset
      /\ Balanced(kv, Nothing, day, loosest)
  BY DEF InitGenesis, Booted, GrowInv, Settled
<1> DEFINE b == Backfilled(p)
<1>3. /\ b \in ParamsRecord /\ b.daily \in Int /\ Validate(b)
  <2>1. p \in ParamsRecord /\ Defaults \in [min: Nat, max: Nat, daily: Nat]
    BY ParamsAssumption
  <2>2. /\ b \in ParamsRecord
        /\ b.daily = IF p.daily = Nil THEN Defaults.daily ELSE p.daily
    <3>1. /\ p.max \in Int \cup {Nil} /\ p.daily \in Int \cup {Nil}
          /\ Defaults.max \in Int /\ Defaults.daily \in Int
      BY <2>1 DEF ParamsRecord
    <3>2. /\ (IF p.max = Nil THEN Defaults.max ELSE p.max) \in Int \cup {Nil}
          /\ (IF p.daily = Nil THEN Defaults.daily ELSE p.daily) \in Int \cup {Nil}
      BY <3>1
    <3>3. b = [p EXCEPT !.max = IF p.max = Nil THEN Defaults.max ELSE p.max,
                        !.daily = IF p.daily = Nil THEN Defaults.daily ELSE p.daily]
      BY <2>1 DEF ParamsRecord, Backfilled
    <3> HIDE DEF b
    <3>4. b \in ParamsRecord
      BY <2>1, <3>2, <3>3, Zenon DEF ParamsRecord
    <3>5. b.daily = IF p.daily = Nil THEN Defaults.daily ELSE p.daily
      BY <2>1, <3>3 DEF ParamsRecord
    <3> QED
      BY <3>4, <3>5
  <2>3. p.daily \in Int \cup {Nil} /\ Defaults.daily \in Int
    BY <2>1 DEF ParamsRecord
  <2> QED
    BY <1>1, <2>2, <2>3
<1> HIDE DEF b
<1>4. Marshalled(b).daily = b.daily /\ b.daily \in Nat
  BY <1>3, NilAssumption DEF Marshalled, ParamsRecord, Validate
<1>5. /\ Marshalled(b) \in ParamsRecord /\ Validate(Marshalled(b))
      /\ Marshalled(b).daily \in Nat /\ Marshalled(b) # Unset
  BY <1>3, ParamsStored
<1>6. ASSUME NEW v \in Operators
      PROVE  /\ UsedOn(kv, v, day) = kv.grown[v] + Nothing[v]
             /\ UsedOn(kv, v, day) = 0
  <2>1. /\ kv.grown[v] = 0 /\ Nothing[v] = 0
        /\ UsedOn(kv, v, day) <= kv.grown[v] + Nothing[v]
    BY <1>2 DEF Balanced, Nothing
  <2>2. UsedOn(kv, v, day) \in Nat
    BY <1>2 DEF Balanced, UsedOn
  <2> QED
    BY <2>1, <2>2
<1>7. loosest' = b.daily /\ kv' = [kv EXCEPT !.params = Marshalled(b)]
  BY <1>1 DEF b
<1>8. Settled(kv', Marshalled(b), day, loosest')
  BY <1>2, <1>4, <1>5, <1>6, <1>7, NewParams
<1>9. kv'.params = Marshalled(b)
  BY <1>8 DEF Settled
<1> QED
  BY <1>2, <1>4, <1>7, <1>8, <1>9, StillIdle

LEMMA UpdateParamsGrows == ASSUME GrowInv, UpdateParams PROVE GrowInv'
<1>1. PICK p \in ParamMsgs :
        /\ Validate(p)
        /\ kv' = [kv EXCEPT !.params = Marshalled(p)]
        /\ loosest' = LET new == Marshalled(p).daily
                      IN  IF loosest = 0 \/ new = 0 THEN 0
                          ELSE IF new > loosest THEN new ELSE loosest
  BY DEF UpdateParams
<1>2. /\ run = "idle" /\ run' = run /\ frames' = frames /\ day' = day
      /\ day \in Nat /\ loosest \in Nat /\ frames = <<>>
      /\ Balanced(kv, Nothing, day, loosest)
  BY DEF UpdateParams, GrowInv, Settled
<1> DEFINE q == Marshalled(p)
<1>3. q \in ParamsRecord /\ Validate(q) /\ q.daily \in Nat /\ q # Unset
  BY <1>1, ParamsAssumption, ParamsStored
<1>4. kv' = [kv EXCEPT !.params = q]
  BY <1>1
<1>5. /\ loosest' \in Nat
      /\ loosest' > 0 => /\ q.daily > 0 /\ q.daily <= loosest'
                         /\ loosest > 0 /\ loosest <= loosest'
  BY <1>1, <1>2, <1>3
<1> HIDE DEF q
<1>6. ASSUME loosest' > 0, NEW v \in Operators
      PROVE  /\ UsedOn(kv, v, day) = kv.grown[v] + Nothing[v]
             /\ UsedOn(kv, v, day) <= loosest'
  <2>1. /\ UsedOn(kv, v, day) = kv.grown[v] + Nothing[v]
        /\ UsedOn(kv, v, day) <= loosest /\ kv.grown[v] \in Nat
    BY <1>2, <1>5, <1>6 DEF Balanced
  <2>2. Nothing[v] = 0
    BY DEF Nothing
  <2> QED
    BY <1>2, <1>5, <1>6, <2>1, <2>2
<1>7. Settled(kv', q, day, loosest')
  BY <1>2, <1>3, <1>4, <1>5, <1>6, NewParams
<1>8. kv'.params = q
  BY <1>7 DEF Settled
<1> QED
  BY <1>2, <1>5, <1>7, <1>8, StillIdle

LEMMA MaturesGrows == ASSUME GrowInv, Matures PROVE GrowInv'
<1>1. /\ run = "idle" /\ run' = run /\ frames' = frames /\ day' = day
      /\ loosest' = loosest /\ day \in Nat /\ loosest \in Nat /\ frames = <<>>
      /\ Balanced(kv, Nothing, day, loosest)
  BY DEF Matures, SameDay, GrowInv, Settled
<1>2. /\ DOMAIN kv' = StoreFields /\ kv'.params = kv.params
      /\ kv'.counter = kv.counter /\ kv'.grown = kv.grown
  BY <1>1 DEF Matures, Balanced, StoreFields
<1>3. Limit(kv') = Limit(kv)
  BY <1>2, SameLimit
<1>4. \A v \in Operators : UsedOn(kv', v, day) = UsedOn(kv, v, day)
  BY <1>2 DEF UsedOn
<1>5. Balanced(kv', Nothing, day, loosest)
  BY <1>1, <1>2, <1>3, <1>4 DEF Balanced
<1> QED
  BY <1>1, <1>5, StillIdle DEF Settled

\* On a new day no counter is of today.
LEMMA NewDayGrows == ASSUME GrowInv, NewDay PROVE GrowInv'
<1>1. /\ run = "idle" /\ run' = run /\ frames' = frames /\ day' = day + 1
      /\ loosest' = Limit(kv) /\ day \in Nat /\ frames = <<>>
      /\ Balanced(kv, Nothing, day, loosest)
  BY DEF NewDay, GrowInv, Settled, Limit
<1>2. /\ DOMAIN kv' = StoreFields /\ kv'.params = kv.params
      /\ kv'.counter = kv.counter /\ kv'.grown = [v \in Operators |-> 0]
  BY <1>1 DEF NewDay, Balanced, StoreFields
<1>3. Limit(kv') = Limit(kv) /\ loosest' \in Nat
  BY <1>1, <1>2, SameLimit, LimitNat DEF Balanced
<1>4. \A v \in Operators : /\ kv'.counter[v].day <= day' /\ UsedOn(kv', v, day') = 0
                           /\ kv'.grown[v] = 0 /\ Nothing[v] = 0
  BY <1>1, <1>2 DEF UsedOn, Balanced, Nothing
<1>5. Balanced(kv', Nothing, day', loosest')
  BY <1>1, <1>2, <1>3, <1>4 DEF Balanced
<1> QED
  BY <1>1, <1>3, <1>5, StillIdle DEF Settled

-----------------------------------------------------------------------------
(* Transactions of Cosmos messages, step by step                           *)

LEMMA BeginGrows == ASSUME GrowInv, Begin PROVE GrowInv'
<1>1. PICK t \in IF Booted THEN CosmosTxs ELSE GenTxs : tx' = t /\ rest' = t
  BY DEF Begin
<1>2. /\ run = "idle" /\ run' = "cosmos" /\ frames' = <<kv>> /\ kv' = kv
      /\ day' = day /\ loosest' = loosest /\ day \in Nat /\ loosest \in Nat
      /\ Settled(kv, kv.params, day, loosest)
  BY DEF Begin, SameDay, GrowInv
<1>3. SettledStack(frames', kv'.params, day', loosest')
  BY <1>2, OneSettled
<1>4. t \in Seq(Message) /\ Len(t) \in Nat
  BY <1>1, MessagesAssumption, LenProperties
<1>5. kv.params = Unset => \A k \in DOMAIN t : t[k].kind = "create"
  BY <1>1, GenTxsAssumption DEF Booted
<1>6. /\ DOMAIN kv = StoreFields /\ kv.grown \in [Operators -> Nat]
  BY <1>2 DEF Settled, Balanced
<1>7. \A v \in Operators : kv.grown[v] = kv.grown[v] + GrowthOf(t, Len(t) - Len(t), v)
  BY <1>4, <1>6, GrowthSums
<1>8. \A k \in 1 .. Len(t) : t[k] = t[k + Len(t) - Len(t)]
  BY <1>4
<1>9. Underway(kv, kv, t, t)
  BY <1>4, <1>5, <1>6, <1>7, <1>8 DEF Underway
<1>10. Underway(kv', frames'[1], tx', rest')
  BY <1>1, <1>2, <1>9
<1> QED
  BY <1>2, <1>3, <1>10 DEF GrowInv

\* The next message of a transaction grows its validator by what it is due.
LEMMA UnderwayGrows ==
  ASSUME NEW s, NEW s0, NEW t, NEW r \in Seq(Message), r # <<>>, Underway(s, s0, t, r),
         s0.grown \in [Operators -> Nat]
  PROVE  /\ Underway(StakingApplies(s, Head(r)), s0, t, Tail(r))
         /\ StakingApplies(s, Head(r)).params = s.params
<1> DEFINE m == Head(r)
           u == StakingApplies(s, m)
           n == Len(t) - Len(r)
<1>1. /\ Len(r) \in Nat /\ Len(r) >= 1 /\ m \in Message /\ m = r[1]
      /\ Tail(r) \in Seq(Message) /\ Len(Tail(r)) = Len(r) - 1
      /\ \A k \in 1 .. Len(r) - 1 : Tail(r)[k] = r[k + 1]
  BY EmptySeq, HeadTailProperties, LenProperties
<1>2. /\ t \in Seq(Message) /\ Len(t) \in Nat /\ Len(r) <= Len(t)
      /\ n \in 0 .. Len(t) - 1 /\ n + 1 = 1 + Len(t) - Len(r)
  BY <1>1, LenProperties DEF Underway
<1>3. m = t[n + 1]
  BY <1>1, <1>2 DEF Underway
<1>4. /\ DOMAIN u = StoreFields /\ u.params = s.params /\ u.counter = s.counter
      /\ u.grown \in [Operators -> Nat]
      /\ \A v \in Operators : u.grown[v] = s.grown[v] + Due(m)[v]
  BY <1>1, StakingGrows DEF Underway
<1>5. /\ Len(Tail(r)) <= Len(t) /\ n + 1 = Len(t) - Len(Tail(r))
      /\ \A k \in 1 .. Len(Tail(r)) : Tail(r)[k] = t[k + Len(t) - Len(Tail(r))]
  <2>1. ASSUME NEW k \in 1 .. Len(Tail(r))
        PROVE  Tail(r)[k] = t[k + Len(t) - Len(Tail(r))]
    <3>1. /\ k \in 1 .. Len(r) - 1 /\ k + 1 \in 1 .. Len(r)
          /\ (k + 1) + Len(t) - Len(r) = k + Len(t) - Len(Tail(r))
      BY <1>1, <1>2
    <3>2. r[k + 1] = t[(k + 1) + Len(t) - Len(r)]
      BY <3>1 DEF Underway
    <3> QED
      BY <1>1, <3>1, <3>2
  <2> QED
    BY <1>1, <1>2, <2>1
<1>6. ASSUME NEW v \in Operators
      PROVE  u.grown[v] = s0.grown[v] + GrowthOf(t, Len(t) - Len(Tail(r)), v)
  <2>1. s.grown[v] = s0.grown[v] + GrowthOf(t, n, v)
    BY DEF Underway
  <2>2. /\ GrowthOf(t, n + 1, v) = GrowthOf(t, n, v) + Due(t[n + 1])[v]
        /\ n \in 0 .. Len(t) /\ GrowthOf(t, n, v) \in Nat
    BY <1>2, GrowthSums
  <2>3. Due(m)[v] \in Nat
    BY <1>1, MessageFields DEF Due
  <2>4. u.grown[v] = (s0.grown[v] + GrowthOf(t, n, v)) + Due(m)[v]
    BY <1>4, <2>1
  <2>5. GrowthOf(t, Len(t) - Len(Tail(r)), v) = GrowthOf(t, n, v) + Due(m)[v]
    BY <1>3, <1>5, <2>2
  <2>6. s0.grown[v] \in Nat
    OBVIOUS
  <2> QED
    BY <2>2, <2>3, <2>4, <2>5, <2>6
<1>7. /\ s.params = s0.params /\ s.counter = s0.counter
      /\ s.params = Unset => \A k \in DOMAIN t : t[k].kind = "create"
  BY DEF Underway
<1>8. Underway(u, s0, t, Tail(r))
  BY <1>2, <1>4, <1>5, <1>6, <1>7 DEF Underway
<1> QED
  BY <1>4, <1>8

\* The store a transaction began with.
LEMMA Beneath ==
  ASSUME GateInv, GrowInv, run # "idle"
  PROVE  /\ Settled(frames[1], kv.params, day, loosest)
         /\ Settled(Last(frames), kv.params, day, loosest)
         /\ SettledStack(Front(frames), kv.params, day, loosest)
         /\ day \in Nat /\ loosest \in Nat
<1>1. frames # <<>> /\ SettledStack(frames, kv.params, day, loosest)
  BY DEF GateInv, FramesOK, GrowInv
<1> QED
  BY <1>1, PopSettled DEF GrowInv

LEMMA ExecMsgGrows == ASSUME GateInv, GrowInv, ExecMsg PROVE GrowInv'
<1>1. /\ run = "cosmos" /\ rest # <<>> /\ rest \in Seq(Message)
      /\ kv' = StakingApplies(kv, Head(rest)) /\ rest' = Tail(rest)
      /\ run' = run /\ tx' = tx /\ frames' = frames /\ day' = day /\ loosest' = loosest
      /\ Underway(kv, frames[1], tx, rest)
      /\ SettledStack(frames, kv.params, day, loosest)
      /\ day \in Nat /\ loosest \in Nat
  BY DEF ExecMsg, SameDay, GateInv, GrowInv
<1>2. frames[1].grown \in [Operators -> Nat]
  BY <1>1, Beneath DEF Settled, Balanced
<1>3. Underway(kv', frames[1], tx, Tail(rest)) /\ kv'.params = kv.params
  BY <1>1, <1>2, UnderwayGrows
<1>4. /\ Underway(kv', frames'[1], tx', rest')
      /\ SettledStack(frames', kv'.params, day', loosest')
  BY <1>1, <1>3
<1> QED
  BY <1>1, <1>4 DEF GrowInv

\* The post-handler's charges: what the transaction added to every validator.
LEMMA ChargedSettles ==
  ASSUME NEW s, NEW s0, NEW t, NEW p, NEW L \in Nat, day \in Nat,
         Settled(s0, p, day, L), Underway(s, s0, t, <<>>),
         \A v \in Touched(t) : FitsToday(s, v, BondIncrease(t, v))
  PROVE  Settled(Charged(s, t), p, day, L)
<1> DEFINE u == Charged(s, t)
           x == [v \in Operators |-> BondIncrease(t, v)]
           T == Touched(t)
<1>1. /\ DOMAIN s = StoreFields /\ s.params = s0.params /\ s.counter = s0.counter
      /\ t \in Seq(Message) /\ Len(t) \in Nat /\ s.grown \in [Operators -> Nat]
      /\ s.params = Unset => \A k \in DOMAIN t : t[k].kind = "create"
      /\ \A v \in Operators : s.grown[v] = s0.grown[v] + GrowthOf(t, Len(t), v)
  <2>1. Len(<<>>) = 0
    BY EmptySeq
  <2>2. t \in Seq(Message) /\ Len(t) \in Nat /\ Len(t) - Len(<<>>) = Len(t)
    BY <2>1, LenProperties DEF Underway
  <2> QED
    BY <2>2 DEF Underway
<1>2. /\ s0.params = p /\ Balanced(s0, Nothing, day, L)
      /\ s0.grown \in [Operators -> Nat] /\ s0.counter \in [Operators -> [day: Nat, amt: Nat]]
      /\ s0.params = Unset => \A v \in Operators : s0.grown[v] = 0
  BY DEF Settled, Balanced
<1>3. \A v \in Operators : BondIncrease(t, v) \in Nat /\ GrowthOf(t, Len(t), v) = BondIncrease(t, v)
  BY <1>1, GrowthSums
<1>4. ASSUME NEW v \in Operators, \A k \in DOMAIN t : ~BondsTo(t[k], v)
      PROVE  BondIncrease(t, v) = 0
  <2>1. GrowthOf(t, Len(t), v) = 0
    BY <1>1, <1>4, GrowthSums
  <2> QED
    BY <1>3, <2>1
<1>5. /\ x \in [Operators -> Nat] /\ T \in SUBSET Operators
      /\ \A v \in Operators : x[v] = BondIncrease(t, v)
  BY <1>3 DEF Touched
<1>6. \A v \in Operators \ T : x[v] = 0
  <2> SUFFICES ASSUME NEW v \in Operators, v \notin T PROVE x[v] = 0
    OBVIOUS
  <2>1. \A k \in DOMAIN t : ~BondsTo(t[k], v)
    BY DEF Touched, BondsTo
  <2> QED
    BY <1>4, <1>5, <2>1
<1>7. Limit(s) = Limit(s0) /\ GetParams(s) = GetParams(s0)
  BY <1>1 DEF Limit, GetParams
<1>8. \A v : Used(s, v) = Used(s0, v)
  BY <1>1 DEF Used
<1>9. \A v \in T : FitsToday(s0, v, x[v])
  <2> SUFFICES ASSUME NEW v \in T PROVE FitsToday(s0, v, x[v])
    OBVIOUS
  <2>1. FitsToday(s, v, BondIncrease(t, v))
    OBVIOUS
  <2> QED
    BY <1>5, <1>7, <1>8, <2>1 DEF FitsToday
<1>10. /\ DOMAIN u = StoreFields /\ u.params = s.params /\ u.grown = s.grown
       /\ u.counter = [v \in Operators |-> IF v \in T
                         THEN Record(s, v, BondIncrease(t, v)).counter[v]
                         ELSE s.counter[v]]
  BY <1>1 DEF Charged, StoreFields
<1>11. ASSUME NEW v \in Operators
       PROVE  u.counter[v] = IF v \in T /\ Limit(s0) > 0
                THEN [day |-> day, amt |-> Used(s0, v) + x[v]] ELSE s0.counter[v]
  <2>1. Record(s, v, BondIncrease(t, v)).counter[v] =
          IF Limit(s) > 0 THEN [day |-> day, amt |-> Used(s, v) + BondIncrease(t, v)]
          ELSE s.counter[v]
    BY <1>1, <1>2 DEF Record, Limit, StoreFields
  <2> QED
    BY <1>1, <1>5, <1>7, <1>8, <1>10, <2>1
<1>12. u.counter \in [Operators -> [day: Nat, amt: Nat]]
  <2>1. \A v \in Operators : Used(s0, v) \in Nat
    BY <1>2 DEF Used
  <2>2. ASSUME NEW v \in Operators PROVE u.counter[v] \in [day: Nat, amt: Nat]
    <3>1. Used(s0, v) + x[v] \in Nat /\ s0.counter[v] \in [day: Nat, amt: Nat]
      BY <1>2, <1>5, <2>1
    <3>2. CASE v \in T /\ Limit(s0) > 0
      <4>1. u.counter[v] = [day |-> day, amt |-> Used(s0, v) + x[v]]
        BY <1>11, <3>2
      <4> QED
        BY <3>1, <4>1
    <3>3. CASE ~(v \in T /\ Limit(s0) > 0)
      BY <1>11, <3>1, <3>3
    <3> QED
      BY <3>2, <3>3
  <2>3. u.counter = [v \in Operators |-> u.counter[v]]
    BY <1>10
  <2> HIDE DEF u, x, T
  <2> QED
    BY <2>2, <2>3
<1>13. \A v \in Operators : u.grown[v] + Nothing[v] = s0.grown[v] + x[v]
  BY <1>1, <1>2, <1>3, <1>5, <1>10 DEF Nothing
<1>14. u.params = Unset => \A v \in Operators : u.grown[v] = 0
  <2> SUFFICES ASSUME u.params = Unset, NEW v \in Operators PROVE u.grown[v] = 0
    OBVIOUS
  <2>1. s.params = Unset /\ s0.params = Unset /\ s0.grown[v] = 0
    BY <1>1, <1>2, <1>10
  <2>2. \A k \in DOMAIN t : ~BondsTo(t[k], v)
    BY <1>1, <2>1 DEF BondsTo
  <2>3. BondIncrease(t, v) = 0
    BY <1>4, <2>2
  <2> QED
    BY <1>1, <1>3, <1>10, <2>1, <2>3
<1>15. /\ Nothing \in [Operators -> Nat] /\ u.grown \in [Operators -> Nat]
       /\ u.params = s0.params /\ DOMAIN u = StoreFields
  BY <1>1, <1>10 DEF Nothing
<1> HIDE DEF u, x, T
<1>16. ChargesTo(s0, u, x, Nothing, T)
  BY <1>5, <1>6, <1>9, <1>11, <1>12, <1>13, <1>14, <1>15 DEF ChargesTo
<1>17. Balanced(u, Nothing, day, L)
  BY <1>16, Charging
<1> QED
  BY <1>2, <1>15, <1>17 DEF Settled, u

LEMMA EndGrows == ASSUME GateInv, GrowInv, MsgFails \/ PostHandle PROVE GrowInv'
<1>1. /\ run = "cosmos" /\ day' = day /\ loosest' = loosest
      /\ Underway(kv, frames[1], tx, rest)
  BY DEF MsgFails, PostHandle, SameDay, GrowInv
<1>2. /\ Settled(frames[1], kv.params, day, loosest)
      /\ day \in Nat /\ loosest \in Nat
  BY <1>1, Beneath
<1>3. CASE FinishTx(frames[1])
  <2>1. Settled(frames[1], frames[1].params, day', loosest')
    BY <1>1, <1>2 DEF Settled
  <2> QED
    BY <1>1, <1>2, <1>3, <2>1, FinishSettles
<1>4. CASE PostHandle /\ ~FinishTx(frames[1])
  <2>1. /\ \A v \in Touched(tx) : FitsToday(kv, v, BondIncrease(tx, v))
        /\ FinishTx(Charged(kv, tx)) /\ rest = <<>>
    BY <1>4 DEF PostHandle
  <2>2. Settled(Charged(kv, tx), kv.params, day, loosest)
    BY <1>1, <1>2, <2>1, ChargedSettles
  <2>3. Settled(Charged(kv, tx), Charged(kv, tx).params, day', loosest')
    BY <1>1, <2>2 DEF Settled
  <2> QED
    BY <1>1, <1>2, <2>1, <2>3, FinishSettles
<1> QED
  BY <1>3, <1>4 DEF MsgFails

-----------------------------------------------------------------------------
(* EVM transactions, step by step                                          *)

LEMMA EvmBeginGrows == ASSUME GrowInv, EvmBegin PROVE GrowInv'
<1>1. /\ run' = "evm" /\ frames' = <<kv>> /\ kv' = kv /\ kv.params # Unset
      /\ day' = day /\ loosest' = loosest /\ day \in Nat /\ loosest \in Nat
      /\ Settled(kv, kv.params, day, loosest)
  BY DEF EvmBegin, SameDay, GrowInv, Booted
<1>2. SettledStack(frames', kv'.params, day', loosest')
  BY <1>1, OneSettled
<1>3. Settled(kv', kv'.params, day', loosest')
  BY <1>1
<1> QED
  BY <1>1, <1>2, <1>3 DEF GrowInv

LEMMA EvmCallGrows == ASSUME GrowInv, EvmCall PROVE GrowInv'
<1>1. /\ run' = "evm" /\ frames' = Append(frames, kv) /\ kv' = kv
      /\ kv.params # Unset
      /\ day' = day /\ loosest' = loosest /\ day \in Nat /\ loosest \in Nat
      /\ Settled(kv, kv.params, day, loosest)
      /\ SettledStack(frames, kv.params, day, loosest)
  BY DEF EvmCall, SameDay, GrowInv
<1>2. SettledStack(frames', kv'.params, day', loosest')
  BY <1>1, PushSettled
<1>3. Settled(kv', kv'.params, day', loosest')
  BY <1>1
<1> QED
  BY <1>1, <1>2, <1>3 DEF GrowInv

LEMMA DueNat ==
  ASSUME NEW m \in Message
  PROVE  /\ Due(m) \in [Operators -> Nat]
         /\ m.kind \in {"delegate", "redelegate"} =>
              \A v \in Operators : Due(m)[v] = IF v = m.val THEN m.amt ELSE 0
         /\ m.kind \notin {"delegate", "redelegate"} => Due(m) = Nothing
  BY MessageFields DEF Due, BondsTo, Nothing

\* The wrapped server charges a delegation before x/staking applies it.
LEMMA RecordBalances ==
  ASSUME NEW s, NEW p, NEW L \in Nat, day \in Nat, Settled(s, p, day, L), p # Unset,
         NEW m \in Message, m.kind \in {"delegate", "redelegate"},
         FitsToday(s, m.val, m.amt)
  PROVE  /\ Balanced(Record(s, m.val, m.amt), Due(m), day, L)
         /\ Record(s, m.val, m.amt).params = p
<1> DEFINE u == Record(s, m.val, m.amt)
           x == Due(m)
           T == {m.val}
<1>1. /\ x \in [Operators -> Nat] /\ m.val \in Operators /\ m.amt \in Nat
      /\ \A v \in Operators : x[v] = IF v = m.val THEN m.amt ELSE 0
  BY DueNat, MessageFields
<1>2. /\ s.params = p /\ DOMAIN s = StoreFields /\ s.grown \in [Operators -> Nat]
      /\ s.counter \in [Operators -> [day: Nat, amt: Nat]]
  BY DEF Settled, Balanced
<1>3. /\ DOMAIN u = StoreFields /\ u.params = s.params /\ u.grown = s.grown
      /\ u.counter = IF Limit(s) > 0
           THEN [s.counter EXCEPT ![m.val] =
                   [day |-> day, amt |-> Used(s, m.val) + m.amt]]
           ELSE s.counter
  BY <1>2 DEF Record, Limit, StoreFields
<1> HIDE DEF u, x
<1>4. \A v \in Operators : u.counter[v] =
        IF v \in T /\ Limit(s) > 0
        THEN [day |-> day, amt |-> Used(s, v) + x[v]] ELSE s.counter[v]
  BY <1>1, <1>2, <1>3
<1>5. u.counter \in [Operators -> [day: Nat, amt: Nat]]
  <2>1. Used(s, m.val) \in Nat
    BY <1>1, <1>2 DEF Used
  <2>2. [day |-> day, amt |-> Used(s, m.val) + m.amt] \in [day: Nat, amt: Nat]
    BY <1>1, <2>1
  <2> QED
    BY <1>2, <1>3, <2>2, ZenonT(60)
<1>6. /\ T \in SUBSET Operators /\ \A v \in Operators \ T : x[v] = 0
      /\ \A v \in T : FitsToday(s, v, x[v])
  BY <1>1
<1>7. \A v \in Operators : u.grown[v] + x[v] = s.grown[v] + x[v]
  BY <1>3
<1>8. ChargesTo(s, u, x, x, T)
  BY <1>1, <1>2, <1>3, <1>4, <1>5, <1>6, <1>7 DEF ChargesTo
<1> HIDE DEF T
<1>9. Balanced(u, x, day, L)
  BY <1>8, Charging
<1> QED
  BY <1>2, <1>3, <1>9 DEF u, x

LEMMA PrecompileGrows == ASSUME GrowInv, Precompile PROVE GrowInv'
<1>1. PICK m \in Calls :
        /\ rest' = <<m>>
        /\ IF m.kind \in {"delegate", "redelegate"}
           THEN FitsToday(kv, m.val, m.amt) /\ kv' = Record(kv, m.val, m.amt)
           ELSE kv' = kv
  BY DEF Precompile
<1>2. /\ run' = "call" /\ frames' = Append(frames, kv) /\ kv.params # Unset
      /\ day' = day /\ loosest' = loosest /\ day \in Nat /\ loosest \in Nat
      /\ Settled(kv, kv.params, day, loosest)
      /\ SettledStack(frames, kv.params, day, loosest)
  BY DEF Precompile, SameDay, GrowInv
<1>3. m \in Message
  BY MessagesAssumption
<1>4. Balanced(kv', Due(m), day, loosest) /\ kv'.params = kv.params
  <2>1. CASE m.kind \in {"delegate", "redelegate"}
    <3>1. FitsToday(kv, m.val, m.amt) /\ kv' = Record(kv, m.val, m.amt)
      BY <1>1, <2>1
    <3> QED
      BY <1>2, <1>3, <2>1, <3>1, RecordBalances
  <2>2. CASE m.kind \notin {"delegate", "redelegate"}
    <3>1. kv' = kv /\ Due(m) = Nothing
      BY <1>1, <1>3, <2>2, DueNat
    <3> QED
      BY <1>2, <3>1 DEF Settled
  <2> QED
    BY <2>1, <2>2
<1>5. SettledStack(frames', kv'.params, day', loosest')
  BY <1>2, <1>4, PushSettled
<1>6. Len(rest') = 1 /\ rest'[1] = m
  BY <1>1
<1>7. Balanced(kv', Due(rest'[1]), day', loosest')
  BY <1>2, <1>4, <1>6
<1> QED
  BY <1>2, <1>4, <1>5, <1>6, <1>7 DEF GrowInv

LEMMA InnerReturnsGrows == ASSUME GateInv, GrowInv, InnerReturns PROVE GrowInv'
<1>1. /\ run = "call" /\ run' = "evm" /\ frames' = Front(frames)
      /\ kv' = StakingApplies(kv, Head(rest))
      /\ rest \in Seq(Message) /\ rest # <<>>
      /\ Balanced(kv, Due(rest[1]), day, loosest) /\ kv.params # Unset
      /\ day' = day /\ loosest' = loosest /\ day \in Nat /\ loosest \in Nat
      /\ SettledStack(Front(frames), kv.params, day, loosest)
  BY Beneath DEF InnerReturns, SameDay, GateInv, GrowInv
<1> DEFINE m == Head(rest)
<1>2. m \in Message /\ m = rest[1]
  BY <1>1, HeadTailProperties
<1>3. DOMAIN kv = StoreFields /\ kv.grown \in [Operators -> Nat]
  BY <1>1 DEF Balanced
<1> HIDE DEF m
<1>4. /\ DOMAIN kv' = StoreFields
      /\ kv'.params = kv.params /\ kv'.counter = kv.counter
      /\ kv'.grown \in [Operators -> Nat]
      /\ \A v \in Operators : kv'.grown[v] = kv.grown[v] + Due(m)[v]
  BY <1>1, <1>2, <1>3, StakingGrows DEF m
<1>5. /\ Due(m) \in [Operators -> Nat] /\ Nothing \in [Operators -> Nat]
      /\ \A v \in Operators : Nothing[v] = 0
  BY <1>2, DueNat DEF Nothing
<1>6. \A v \in Operators : kv'.grown[v] + Nothing[v] = kv.grown[v] + Due(m)[v]
  BY <1>3, <1>4, <1>5
<1>7. Balanced(kv, Due(m), day, loosest)
  BY <1>1, <1>2
<1>8. Balanced(kv', Nothing, day, loosest)
  <2>1. GrowsBy(kv, kv', Due(m), Nothing)
    BY <1>1, <1>4, <1>6 DEF GrowsBy
  <2> QED
    BY <1>7, <2>1, Rebalance
<1>9. /\ Settled(kv', kv'.params, day', loosest')
      /\ SettledStack(frames', kv'.params, day', loosest')
  BY <1>1, <1>4, <1>8 DEF Settled
<1> QED
  BY <1>1, <1>4, <1>9 DEF GrowInv

\* What a frame restores is settled, with the params of the running store.
LEMMA RestoreGrows ==
  ASSUME GateInv, GrowInv, run \in {"evm", "call"}, run' = "evm",
         frames' = Front(frames), day' = day, loosest' = loosest,
         kv' = Last(frames) \/ (kv' = kv /\ run = "evm")
  PROVE  GrowInv'
<1>1. /\ Settled(Last(frames), kv.params, day, loosest)
      /\ SettledStack(Front(frames), kv.params, day, loosest)
      /\ day \in Nat /\ loosest \in Nat
  BY Beneath
<1>2. /\ kv.params # Unset
      /\ run = "evm" => Settled(kv, kv.params, day, loosest)
  BY DEF GrowInv
<1>3. Settled(kv', kv.params, day, loosest)
  BY <1>1, <1>2
<1>4. kv'.params = kv.params
  BY <1>3 DEF Settled
<1>5. /\ Settled(kv', kv'.params, day', loosest')
      /\ SettledStack(frames', kv'.params, day', loosest')
  BY <1>1, <1>3, <1>4
<1> QED
  BY <1>1, <1>2, <1>4, <1>5 DEF GrowInv

LEMMA EvmReturnGrows == ASSUME GateInv, GrowInv, EvmReturn PROVE GrowInv'
<1>1. PICK s \in {kv, Last(frames)} :
        IF Len(frames) = 1 THEN FinishTx(s)
        ELSE kv' = s /\ frames' = Front(frames) /\ UNCHANGED <<run, tx, rest>>
  BY DEF EvmReturn
<1>2. run = "evm" /\ day' = day /\ loosest' = loosest
  BY DEF EvmReturn, SameDay
<1>3. CASE Len(frames) = 1
  <2>1. /\ Settled(s, kv.params, day, loosest) /\ day \in Nat /\ loosest \in Nat
    BY <1>1, <1>2, Beneath DEF GrowInv
  <2>2. Settled(s, s.params, day', loosest') /\ FinishTx(s)
    BY <1>1, <1>2, <1>3, <2>1 DEF Settled
  <2> QED
    BY <1>2, <2>1, <2>2, FinishSettles
<1>4. CASE Len(frames) # 1
  <2>1. /\ run' = "evm" /\ frames' = Front(frames)
        /\ kv' = Last(frames) \/ kv' = kv
    BY <1>1, <1>2, <1>4
  <2> QED
    BY <1>2, <2>1, RestoreGrows
<1> QED
  BY <1>3, <1>4

LEMMA GrowStep == GateInv /\ GrowInv /\ [ValgateNext]_valgateVars => GrowInv'
<1> SUFFICES ASSUME GateInv, GrowInv, [ValgateNext]_valgateVars PROVE GrowInv'
  OBVIOUS
<1>1. CASE InitGenesis
  BY <1>1, InitGenesisGrows
<1>2. CASE Begin
  BY <1>2, BeginGrows
<1>3. CASE ExecMsg
  BY <1>3, ExecMsgGrows
<1>4. CASE MsgFails \/ PostHandle
  BY <1>4, EndGrows
<1>5. CASE EvmBegin
  BY <1>5, EvmBeginGrows
<1>6. CASE EvmCall
  BY <1>6, EvmCallGrows
<1>7. CASE Precompile
  BY <1>7, PrecompileGrows
<1>8. CASE InnerReturns
  BY <1>8, InnerReturnsGrows
<1>9. CASE InnerFails
  BY <1>9, RestoreGrows DEF InnerFails, SameDay
<1>10. CASE EvmReturn
  BY <1>10, EvmReturnGrows
<1>11. CASE UpdateParams
  BY <1>11, UpdateParamsGrows
<1>12. CASE Matures
  BY <1>12, MaturesGrows
<1>13. CASE NewDay
  BY <1>13, NewDayGrows
<1>14. CASE UNCHANGED valgateVars
  <2>1. /\ kv' = kv /\ run' = run /\ tx' = tx /\ rest' = rest
        /\ frames' = frames /\ day' = day /\ loosest' = loosest
    BY <1>14 DEF valgateVars
  <2> QED
    BY <2>1 DEF GrowInv
<1> QED
  BY <1>1, <1>2, <1>3, <1>4, <1>5, <1>6, <1>7, <1>8, <1>9, <1>10, <1>11, <1>12,
     <1>13, <1>14 DEF ValgateNext

LEMMA GrowthInvariant == ValgateSpec => [](GateInv /\ GrowInv)
  BY GateInit, GateStep, GrowInit, GrowStep, PTL DEF ValgateSpec

\* Between transactions every growth has been charged.
LEMMA IdleSettled ==
  ASSUME GrowInv, run = "idle", NEW v \in Operators
  PROVE  /\ Used(kv, v) <= kv.grown[v]
         /\ loosest > 0 => Used(kv, v) = kv.grown[v] /\ kv.grown[v] <= loosest
<1>1. Balanced(kv, Nothing, day, loosest)
  BY DEF GrowInv, Settled
<1>2. Nothing[v] = 0 /\ kv.grown[v] \in Nat /\ Used(kv, v) = UsedOn(kv, v, day)
  BY <1>1 DEF Nothing, Balanced, Used, UsedOn
<1>3. /\ UsedOn(kv, v, day) <= kv.grown[v] + Nothing[v]
      /\ loosest > 0 => /\ UsedOn(kv, v, day) = kv.grown[v] + Nothing[v]
                        /\ UsedOn(kv, v, day) <= loosest
  BY <1>1 DEF Balanced
<1> QED
  BY <1>2, <1>3

\* ante.go, posthandler.go and staking_msgserver.go: whichever path delegations
\* take and however their transactions nest, fail and are reverted, the stake
\* they add to a validator in a day stays within the loosest cap of that day.
THEOREM GrowthStaysWithinCap == ValgateSpec => []GrowthWithinCap
<1>1. GrowInv => GrowthWithinCap
  BY IdleSettled DEF GrowthWithinCap
<1> QED
  BY <1>1, GrowthInvariant, PTL

\* CheckAndRecordDailyBond: between transactions a validator's counter of the
\* day is exactly what it grew by, as long as a cap was in force all day: no
\* path charges a delegation twice, and one that failed leaves no charge.
THEOREM EachChargedOnce == ValgateSpec => []ChargedOnce
<1>1. GrowInv => ChargedOnce
  BY IdleSettled DEF ChargedOnce
<1> QED
  BY <1>1, GrowthInvariant, PTL
=============================================================================
