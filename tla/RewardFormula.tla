---------------------------- MODULE RewardFormula ----------------------------
(***************************************************************************)
(* The reward arithmetic of x/rewardstreamer: pure functions of the        *)
(* parameters and of a stake, all in integer agmb.  A parameter record is  *)
(*   enabled   the switch of this stream                                   *)
(*   num, den  RatePerDay as the fraction num / den (LegacyDec fixes den)  *)
(*   floor, cap, bpd, maxTotal                                             *)
(*             FloorPerDay, CapPerDay, BlocksPerDay, MaxTotalPerDay        *)
(* and, for the legacy fixed stream and for x/tailreward,                  *)
(*   enabled, annual, bpy                                                  *)
(*             Enabled, AnnualReward, BlocksPerYear.                       *)
(***************************************************************************)
EXTENDS Naturals

FormulaParams ==
  [enabled: BOOLEAN, num: Nat, den: Nat \ {0}, floor: Nat, cap: Nat,
   bpd: Nat \ {0}, maxTotal: Nat]

StreamParams == [enabled: BOOLEAN, annual: Nat, bpy: Nat \ {0}]

\* math.MinInt.
MinInt(a, b) == IF a <= b THEN a ELSE b

\* What SetFormulaParams accepts.
ValidFormula(p) ==
  /\ p \in FormulaParams
  /\ p.cap # 0 => p.cap >= p.floor

\* The two clamps of DailyReward, in the order the code applies them.
RaiseToFloor(p, r) == IF r < p.floor THEN p.floor ELSE r
CutToCap(p, r)     == IF r > p.cap THEN p.cap ELSE r

DailyReward(p, stake) ==
  IF stake = 0 THEN 0
  ELSE CutToCap(p, RaiseToFloor(p, (stake * p.num) \div p.den))

PerBlockReward(p, stake) == DailyReward(p, stake) \div p.bpd

\* 0 is read by the streamer as "no aggregate cap".
MaxTotalPerBlock(p) == p.maxTotal \div p.bpd

\* Mutant: the budget is forgotten.
RoundLimitNoBudget(p, reserve) == reserve

\* The ceiling on one formula round: what is left, or the budget if it is less.
RoundLimit(p, reserve) ==
  IF MaxTotalPerBlock(p) > 0 THEN MinInt(MaxTotalPerBlock(p), reserve)
  ELSE reserve

\* Mutants: the cut rounds up; the cut divides before it multiplies.
ScaledUp(amt, limit, total)    == (amt * limit + total - 1) \div total
ScaledEarly(amt, limit, total) == (amt \div total) * limit

\* The pro-rata cut of one allocation when the round exceeds its limit.
Scaled(amt, limit, total) == (amt * limit) \div total

\* The fixed slice of the legacy stream and of the tail reward.
FixedPerBlock(p) == p.annual \div p.bpy

\* Mutant: the guard against the first height is dropped.
FixedSliceAlways(p, height, available) ==
  IF p.enabled THEN MinInt(FixedPerBlock(p), available) ELSE 0

FixedSlice(p, height, available) ==
  IF p.enabled /\ height > 1 THEN MinInt(FixedPerBlock(p), available) ELSE 0
=============================================================================
