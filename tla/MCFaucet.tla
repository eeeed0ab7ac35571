------------------------------ MODULE MCFaucet ------------------------------
(***************************************************************************)
(* FaucetService for TLC: two clients, and an account that is spelled in   *)
(* two ways.                                                               *)
(***************************************************************************)
EXTENDS FaucetService

MCAccountOf == [a \in Addresses |-> "x"]
MCAsks == {<<"a", "i">>, <<"a", "j">>, <<"A", "j">>}
=============================================================================
