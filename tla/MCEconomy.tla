----------------------------- MODULE MCEconomy -----------------------------
(* Small instances of GembaEconomy for TLC. *)
EXTENDS GembaEconomy

BeginBlockers == {"feesplit", "rewardstreamer", "tailreward", "distribution"}

\* The order of the shipped constructor.
ShippedOrders == {<<"evm", "feesplit", "rewardstreamer", "tailreward",
                    "distribution", "slashing">>}

\* The shipped order and every list of the four modules that move money:
\* the wiring check picks.
MoneyOrders == [1..4 -> BeginBlockers] \cup ShippedOrders

Split40 == [enabled |-> TRUE, num |-> 2, den |-> 5]
SplitBad == [enabled |-> TRUE, num |-> 3, den |-> 2]
SplitOff == [enabled |-> FALSE, num |-> 2, den |-> 5]

Fixed2 == [enabled |-> TRUE, annual |-> 5, bpy |-> 2]
FixedOff == [enabled |-> FALSE, annual |-> 5, bpy |-> 2]
Tail1 == [enabled |-> TRUE, annual |-> 3, bpy |-> 2]

FormulaOn == [enabled |-> TRUE, num |-> 1, den |-> 2, floor |-> 2, cap |-> 5,
              bpd |-> 2, maxTotal |-> 0]
FormulaOff == [FormulaOn EXCEPT !.enabled = FALSE]
FormulaBudget == [FormulaOn EXCEPT !.floor = 2, !.cap = 2, !.bpd = 1,
                                   !.maxTotal = 3]
FormulaBad == [FormulaOn EXCEPT !.cap = 1]
FormulaWide == [FormulaOn EXCEPT !.maxTotal = 3, !.bpd = 1]

Genesis(reserve, tail, users, bonded) ==
  [a \in Accounts |-> CASE a = "reserve" -> reserve [] a = "tail" -> tail
                        [] a = "users" -> users [] a = "bonded" -> bonded
                        [] OTHER -> 0]

\* econ_routing: with slashing, deposits and refills.
RoutingSplit == {Split40, SplitOff, SplitBad}
RoutingStream == {Fixed2, FixedOff}
RoutingFormula == {FormulaBudget, FormulaOff, FormulaBad}
RoutingTail == {Tail1}
RoutingBal == Genesis(4, 1, 3, 4)
RoutingStake == <<4, 0>>

\* econ_drain: the formula alone on a reserve of a few blocks.
DrainFormula == {FormulaWide, FormulaOn}
DrainBal == Genesis(7, 0, 0, 4)
DrainStake == <<3, 1>>

NoSplit == {SplitOff}
NoStream == {FixedOff}
=============================================================================
