------------------------------ MODULE MoneyFlow ------------------------------
(***************************************************************************)
(* What the money routing promises, with no accounts and no blocks: GMB is *)
(* in one of three pots, reward (pre-minted validator reward not yet paid  *)
(* out), public (the faucet reserve) and circulating (all the rest), and   *)
(* only four flows exist.  In particular reward never flows to public, and *)
(* nothing is ever minted.                                                 *)
(***************************************************************************)
EXTENDS Naturals

VARIABLES reward, public, circulating, burned

flowVars == <<reward, public, circulating, burned>>

Init == /\ reward \in Nat /\ public \in Nat /\ circulating \in Nat
        /\ burned = 0

\* A reward round, or distribution paying out the streamed slice.
PayValidators ==
  /\ reward' <= reward
  /\ circulating' = circulating + (reward - reward')
  /\ UNCHANGED <<public, burned>>

\* The faucet share of the fees, or slashed stake.
FeedFaucet ==
  /\ circulating' <= circulating
  /\ public' = public + (circulating - circulating')
  /\ UNCHANGED <<reward, burned>>

\* Governance refills the tail buffer with recirculated coins.
RefillTail ==
  /\ circulating' <= circulating
  /\ reward' = reward + (circulating - circulating')
  /\ UNCHANGED <<public, burned>>

\* x/gov burns a deposit.
BurnDeposit ==
  /\ circulating' <= circulating
  /\ burned' = burned + (circulating - circulating')
  /\ UNCHANGED <<reward, public>>

Next == PayValidators \/ FeedFaucet \/ RefillTail \/ BurnDeposit

Spec == Init /\ [][Next]_flowVars
=============================================================================
