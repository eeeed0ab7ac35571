------------------------------ MODULE MCAccess ------------------------------
(***************************************************************************)
(* AccessService for TLC: a wallet that passes from one employee to another *)
(***************************************************************************)
EXTENDS AccessService

MCWalletOf == [e \in Employees |-> "w"]
=============================================================================
