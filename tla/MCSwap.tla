------------------------------ MODULE MCSwap ------------------------------
(* A small instance of SwapFrontend for TLC: a third of what is quoted may  *)
(* be lost to slippage; the trade of the others takes more.                 *)
EXTENDS SwapFrontend

MCPicks == {[give |-> "gmb", take |-> "wgmb"],
            [give |-> "tok", take |-> "gmb"]}

MCPools == {[tok |-> 8, gmb |-> 4]}
MCChain ==
  [bal   |-> [a \in Assets |-> CASE a = "gmb" -> 6 [] a = "wgmb" -> 0
                                 [] a = "tok" -> 8 [] a = "lp" -> 8],
   allow |-> [x \in Assets \X Spenders |-> 0],
   pool  |-> [tok |-> 8, gmb |-> 12, lp |-> 16],
   locks |-> <<>>, held |-> 0, now |-> 0]
=============================================================================
