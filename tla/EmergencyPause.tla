--------------------------- MODULE EmergencyPause ---------------------------
(***************************************************************************)
(* EmergencyPause: an m-of-n of guardians that can pause and unpause the   *)
(* registered contracts, and nothing else.  Governance (the timelock)      *)
(* chooses the guardians and the threshold.                                *)
(*                                                                         *)
(* The contract keys a confirmation by target, operation, round of these   *)
(* two, and configuration epoch; rounds and epochs only grow, so a vote    *)
(* under an old one is never met again.  votes holds the live ones, and    *)
(* advancing a round or the epoch empties what it makes unreachable.       *)
(*                                                                         *)
(* A call that reverts, here or in the target, changes nothing: Confirm is *)
(* the call that goes through.                                             *)
(***************************************************************************)
EXTENDS Naturals, FiniteSets

CONSTANTS
  People,         \* who may ever be a guardian
  Targets,        \* pausable contracts
  InitGuardians,
  InitThreshold

\* The checks of the constructor.
ASSUME GuardiansAssumption ==
  /\ IsFiniteSet(People) /\ InitGuardians \subseteq People
  /\ InitThreshold \in 1 .. Cardinality(InitGuardians)

VARIABLES
  guardians, guardianCount, threshold,
  votes           \* who confirmed, by target and operation

guardVars == <<guardians, guardianCount, threshold, votes>>

Ops == {"pause", "unpause"}

NoVotes == [key \in Targets \X Ops |-> {}]

Init ==
  /\ guardians = InitGuardians
  /\ guardianCount = Cardinality(InitGuardians)
  /\ threshold = InitThreshold
  /\ votes = NoVotes

\* Whether one more confirmation executes the operation.
Reaches(t, op) == Cardinality(votes[<<t, op>>]) + 1 >= threshold

\* Changed: executing does not open a new round.
ConfirmSameRound(g, t, op) ==
  /\ g \in guardians /\ g \notin votes[<<t, op>>]
  /\ votes' = [votes EXCEPT ![<<t, op>>] = @ \cup {g}]
  /\ UNCHANGED <<guardians, guardianCount, threshold>>

Confirm(g, t, op) ==
  /\ g \in guardians /\ g \notin votes[<<t, op>>]
  /\ votes' = [votes EXCEPT ![<<t, op>>] = IF Reaches(t, op) THEN {}
                                       ELSE @ \cup {g}]
  /\ UNCHANGED <<guardians, guardianCount, threshold>>

\* Changed: a change of the configuration leaves the votes in force.
EpochStays == UNCHANGED votes

\* configEpoch++
AdvanceEpoch == votes' = NoVotes

\* Setting what is already so returns at once, in the same epoch.
AddGuardian(p) ==
  /\ p \notin guardians
  /\ guardians' = guardians \cup {p}
  /\ guardianCount' = guardianCount + 1
  /\ AdvanceEpoch
  /\ UNCHANGED threshold

RemoveGuardian(p) ==
  /\ p \in guardians
  /\ threshold <= guardianCount - 1
  /\ guardians' = guardians \ {p}
  /\ guardianCount' = guardianCount - 1
  /\ AdvanceEpoch
  /\ UNCHANGED threshold

SetThreshold(n) ==
  /\ n \in 1 .. guardianCount
  /\ threshold' = n
  /\ AdvanceEpoch
  /\ UNCHANGED <<guardians, guardianCount>>

Configure ==
  \/ \E p \in People : AddGuardian(p) \/ RemoveGuardian(p)
  \/ \E n \in 1 .. guardianCount : SetThreshold(n)

Next ==
  \/ \E g \in People, t \in Targets, op \in Ops : Confirm(g, t, op)
  \/ Configure

Spec == Init /\ [][Next]_guardVars

-----------------------------------------------------------------------------
(* Properties                                                              *)

GuardTypeOK ==
  /\ guardians \subseteq People
  /\ guardianCount = Cardinality(guardians)
  /\ threshold \in 1 .. guardianCount
  /\ votes \in [Targets \X Ops -> SUBSET People]

\* EmergencyPause.sol 31-37: only guardians of the live set are counted, and
\* whatever was confirmed, removed and reconfigured before, an operation that
\* waits for confirmations can still gather the rest of them.
LiveVotes ==
  \A t \in Targets, op \in Ops :
    votes[<<t, op>>] \subseteq guardians /\ Cardinality(votes[<<t, op>>]) < threshold
=============================================================================
