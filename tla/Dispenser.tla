------------------------------ MODULE Dispenser ------------------------------
(***************************************************************************)
(* GembaPayDispenser: the vault that holds the GMB for sale.  Only its     *)
(* owner moves coins; the reference of a payment is emitted, not stored,   *)
(* so the contract pays the same reference as often as it is asked to.     *)
(*                                                                         *)
(* A call either reverts, which changes nothing, or runs whole: the        *)
(* operators below are the calls that do not revert.                       *)
(***************************************************************************)
EXTENDS Naturals

CONSTANTS
  Refs,         \* payment references
  ZeroAddress,  \* address(0)
  Contracts     \* recipients with code, which may refuse the coins

VARIABLES
  reserve,    \* native balance of the contract
  paused,     \* Pausable
  dispensed   \* history: Dispensed events of each reference

Init ==
  /\ reserve = 0
  /\ paused = FALSE
  /\ dispensed = [r \in Refs |-> 0]

\* What dispense checks before it sends.
Payable(to, amount) ==
  ~paused /\ to # ZeroAddress /\ 0 < amount /\ amount <= reserve

\* sendValue reverts when the recipient does, or uses up the gas.
MayRevert(to, amount) == ~Payable(to, amount) \/ to \in Contracts

Dispense(to, ref, amount) ==
  /\ Payable(to, amount)
  /\ reserve' = reserve - amount
  /\ dispensed' = [dispensed EXCEPT ![ref] = @ + 1]
  /\ UNCHANGED paused

Fund(amount) ==
  /\ 0 < amount
  /\ reserve' = reserve + amount
  /\ UNCHANGED <<paused, dispensed>>

\* Not stopped by the pause.
Withdraw(amount) ==
  /\ 0 < amount /\ amount <= reserve
  /\ reserve' = reserve - amount
  /\ UNCHANGED <<paused, dispensed>>

Pause == ~paused /\ paused' = TRUE /\ UNCHANGED <<reserve, dispensed>>
Unpause == paused /\ paused' = FALSE /\ UNCHANGED <<reserve, dispensed>>
=============================================================================
