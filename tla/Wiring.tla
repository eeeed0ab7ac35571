------------------------------- MODULE Wiring -------------------------------
(***************************************************************************)
(* x/wiring: the check the app constructor makes of its begin-blocker      *)
(* order, panicking when it fails.  An order is a sequence of module       *)
(* names; modules outside the money routing may stand anywhere.            *)
(***************************************************************************)
EXTENDS Naturals, Sequences

requiredBeginBlockOrder ==
  <<"feesplit", "rewardstreamer", "tailreward", "distribution">>

MoneyModules == {"feesplit", "rewardstreamer", "tailreward", "distribution"}

NoneTwice(o) ==
  \A i, j \in 1..Len(o) : o[i] = o[j] /\ o[i] \in MoneyModules => i = j

NoneMissing(o) == \A m \in MoneyModules : \E i \in 1..Len(o) : o[i] = m

InOrder(o) ==
  \A r \in 2..4 : \A i, j \in 1..Len(o) :
     /\ o[i] = requiredBeginBlockOrder[r - 1]
     /\ o[j] = requiredBeginBlockOrder[r]
     => i < j

ValidateBeginBlockOrder(o) == NoneTwice(o) /\ NoneMissing(o) /\ InOrder(o)
=============================================================================
