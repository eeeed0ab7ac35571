-------------------------------- MODULE Bank --------------------------------
(***************************************************************************)
(* The bank balances of the one denomination the money routing moves, as a *)
(* function of the accounts that hold it.  x/bank itself is external: what *)
(* is used of it is that a transfer takes from one account what it gives   *)
(* to another.  "users" stands for every ordinary account.                 *)
(***************************************************************************)
EXTENDS Naturals

Accounts == {"reserve", "tail", "collector", "faucet", "distr",
             "bonded", "notbonded", "gov", "users"}

Pools == {"bonded", "notbonded"}

\* SendCoins and SendCoinsFromModuleToModule.
Send(b, from, to, amt) == [b EXCEPT ![from] = @ - amt, ![to] = @ + amt]

\* BurnCoins of the bank keeper.
Burn(b, from, amt) == [b EXCEPT ![from] = @ - amt]

Supply(b) ==
  b["reserve"] + b["tail"] + b["collector"] + b["faucet"] + b["distr"]
    + b["bonded"] + b["notbonded"] + b["gov"] + b["users"]
=============================================================================
