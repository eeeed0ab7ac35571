----------------------------- MODULE GembaVotes -----------------------------
(***************************************************************************)
(* GembaVotes: GMB wrapped into votes.  An excluded account (a reserve)    *)
(* cannot receive votes, delegate them, or show voting power.              *)
(*                                                                         *)
(* ERC20Votes is external: what is used of it is that the power of an      *)
(* account is the balance of those who delegate to it, now or at the end   *)
(* of an earlier block.                                                    *)
(***************************************************************************)
EXTENDS Integers, FiniteSets, Functions

CONSTANTS
  Accounts,
  Zero,           \* the zero address: no delegate
  InitBalance, InitExcluded,
  VoteAmounts,    \* amounts wrapped, unwrapped and transferred
  MaxSupply,      \* bound: votes in existence
  MaxMoves        \* bound: moves and delegations in a behaviour

ASSUME VotesAssumption ==
  /\ IsFiniteSet(Accounts) /\ Zero \notin Accounts
  /\ InitBalance \in [Accounts -> Nat] /\ InitExcluded \subseteq Accounts
  /\ \A a \in InitExcluded : InitBalance[a] = 0
  /\ VoteAmounts \subseteq Nat \ {0} /\ MaxSupply \in Nat /\ MaxMoves \in Nat

VARIABLES balance, delegatee, excluded, moves

votesVars == <<balance, delegatee, excluded, moves>>

Total(b) == SumFunctionOnSet(b, Accounts)

\* Power at a: of those holders who delegate to it.
Delegated(b, d, a) == SumFunctionOnSet(b, {h \in Accounts : d[h] = a})

\* getVotes, and getPastVotes over the balances and delegates of a block:
\* the exclusion that counts is the one of now.
VotesOf(b, d, a) == IF a \in excluded THEN 0 ELSE Delegated(b, d, a)

\* Every holder has delegated to itself.
VotesInit ==
  /\ balance = InitBalance
  /\ delegatee = [a \in Accounts |-> IF InitBalance[a] > 0 THEN a ELSE Zero]
  /\ excluded = InitExcluded
  /\ moves = 0

Moving == moves < MaxMoves /\ moves' = moves + 1 /\ UNCHANGED excluded

\* depositFor; the check of _update is the same.
DepositFor(to) ==
  /\ to \notin excluded
  /\ \E n \in VoteAmounts : /\ Total(balance) + n <= MaxSupply
                            /\ balance' = [balance EXCEPT ![to] = @ + n]
  /\ Moving /\ UNCHANGED delegatee

\* withdrawTo: also by an excluded holder.
WithdrawTo(from) ==
  /\ \E n \in VoteAmounts : n <= balance[from] /\ balance' = [balance EXCEPT ![from] = @ - n]
  /\ Moving /\ UNCHANGED delegatee

Transfer(from, to) ==
  /\ to \notin excluded
  /\ \E n \in VoteAmounts :
       /\ n <= balance[from]
       /\ balance' = [[balance EXCEPT ![from] = @ - n] EXCEPT ![to] = @ + n]
  /\ Moving /\ UNCHANGED delegatee

\* Changed: an excluded account may name a delegate.
DelegateAnyone(from, to) ==
  /\ delegatee' = [delegatee EXCEPT ![from] = to]
  /\ Moving /\ UNCHANGED balance

\* delegate and delegateBySig.
Delegate(from, to) ==
  /\ from \in excluded => to = Zero
  /\ delegatee' = [delegatee EXCEPT ![from] = to]
  /\ Moving /\ UNCHANGED balance

Move ==
  \E a \in Accounts :
    \/ DepositFor(a) \/ WithdrawTo(a)
    \/ \E b \in Accounts \cup {Zero} : Delegate(a, b)
    \/ \E b \in Accounts \ {a} : Transfer(a, b)

\* What setExcluded does to the excluded accounts and the delegates.
Excludes(s, a, flag) ==
  IF flag THEN [s EXCEPT !.excluded = @ \cup {a}, !.delegatee[a] = Zero]
  ELSE [s EXCEPT !.excluded = @ \ {a}]

\* GembaVotes.sol 80-112: whatever is wrapped, moved, delegated, excluded and
\* readmitted, the power that can vote now is at most what the accounts hold
\* that are not excluded, and none of it comes from an excluded account.
ExcludedPowerless ==
  SumFunctionOnSet([a \in Accounts |-> VotesOf(balance, delegatee, a)], Accounts)
    <= SumFunctionOnSet(balance, Accounts \ excluded)
=============================================================================
