---------------------------- MODULE GembaGovernor ----------------------------
(***************************************************************************)
(* GembaGovernor with its votes and the timelock.  A proposal is a list of *)
(* calls; its tier, standard or critical, is fixed when it is proposed,    *)
(* its votes are counted at the snapshot, and once it has succeeded it is  *)
(* queued in the timelock and executed after the delay by anyone.          *)
(*                                                                         *)
(* OpenZeppelin's Governor, counting and timelock are external.  Block     *)
(* numbers and timestamps are one clock.                                   *)
(***************************************************************************)
EXTENDS GembaVotes, Sequences, SequencesExt

CONSTANTS
  Proposals,      \* proposal ids, made of all that is proposed
  Calls,          \* the calls of each
  votingDelay, votingPeriod, minDelay,
  InitQuorum, supermajority, criticalQuorum, criticalSupermajority,
  MaxProposals,   \* bound: proposals in a behaviour
  MaxBlock        \* bound: blocks explored

\* The checks of the constructor.  A call names its target, its function and
\* the arguments that matter here.
ASSUME GovernorAssumption ==
  /\ supermajority \in 51 .. 100 /\ criticalSupermajority \in supermajority .. 100
  /\ InitQuorum \in Nat /\ criticalQuorum \in InitQuorum .. 100
  /\ {votingDelay, votingPeriod, minDelay, MaxProposals, MaxBlock} \subseteq Nat
  /\ \A p \in Proposals : DOMAIN Calls[p] = 1 .. Len(Calls[p]) /\ Len(Calls[p]) \in Nat
  /\ \A p \in Proposals : \A k \in DOMAIN Calls[p] :
       /\ DOMAIN Calls[p][k] = {"target", "fn", "who", "value"}
       /\ Calls[p][k].fn = "setExcluded" => Calls[p][k].who \in Accounts
       /\ Calls[p][k].fn = "updateQuorumNumerator" => Calls[p][k].value \in 0 .. 100

VARIABLES
  criticalTarget, \* targets flagged by governance
  quorumNumerator,
  prop,           \* the proposals
  past,           \* balances and delegates at the snapshot of each
  clock           \* block number

governorState == <<criticalTarget, quorumNumerator, prop, past, clock>>
governorVars == <<votesVars, governorState>>

NotProposed ==
  [stage |-> "none", snapshot |-> 0, critical |-> FALSE, eta |-> 0,
   voted |-> {}, for |-> 0, against |-> 0, abstain |-> 0]

NoPast == [bal |-> [a \in Accounts |-> 0], del |-> [a \in Accounts |-> Zero]]

GovernorInit ==
  /\ VotesInit
  /\ criticalTarget = {} /\ quorumNumerator = InitQuorum
  /\ prop = [p \in Proposals |-> NotProposed]
  /\ past = [p \in Proposals |-> NoPast]
  /\ clock = 1

-----------------------------------------------------------------------------
(* The tiers                                                               *)

Config == {"governor", "timelock"}
CriticalFns == {"upgradeToAndCall", "upgradeTo", "release"}

CriticalCall(c) ==
  c.target \in Config \cup criticalTarget \/ c.fn \in CriticalFns

\* Changed: only the first call is looked at.
TierOfFirst(p) == CriticalCall(Head(Calls[p]))

TierOf(p) == \E k \in DOMAIN Calls[p] : CriticalCall(Calls[p][k])

VoteSucceeded(r) ==
  /\ r.for + r.against > 0
  /\ r.for * 100 >= (r.for + r.against)
       * (IF r.critical THEN criticalSupermajority ELSE supermajority)

\* Changed: every tier follows the numerator governance tunes.
QuorumReachedLive(p) ==
  prop[p].for + prop[p].abstain
    >= (Total(past[p].bal) * quorumNumerator) \div 100

\* The numerator of a standard proposal is the one of now.
QuorumReached(p) ==
  LET num == IF prop[p].critical THEN criticalQuorum ELSE quorumNumerator
  IN  prop[p].for + prop[p].abstain >= (Total(past[p].bal) * num) \div 100

Passes(p) == QuorumReached(p) /\ VoteSucceeded(prop[p])

\* state
State(p) ==
  LET r == prop[p]
  IN  IF r.stage # "proposed" THEN r.stage
      ELSE IF r.snapshot >= clock THEN "pending"
      ELSE IF r.snapshot + votingPeriod >= clock THEN "active"
      ELSE IF ~Passes(p) THEN "defeated"
      ELSE IF r.eta = 0 THEN "succeeded" ELSE "queued"

-----------------------------------------------------------------------------
(* The life of a proposal                                                  *)

\* No votes are needed to propose; the same calls cannot be proposed again.
Propose(p) ==
  /\ prop[p].stage = "none"
  /\ Cardinality({q \in Proposals : prop[q].stage # "none"}) < MaxProposals
  /\ prop' = [prop EXCEPT ![p] =
       [NotProposed EXCEPT !.stage = "proposed", !.snapshot = clock + votingDelay,
                           !.critical = TierOf(p)]]
  /\ UNCHANGED <<votesVars, criticalTarget, quorumNumerator, past, clock>>

\* By its proposer, as long as it is pending.
Cancel(p) ==
  /\ State(p) = "pending"
  /\ prop' = [prop EXCEPT ![p].stage = "canceled"]
  /\ UNCHANGED <<votesVars, criticalTarget, quorumNumerator, past, clock>>

\* Changed: the power of now instead of the snapshot.
WeightNow(p, a) == VotesOf(balance, delegatee, a)

Weight(p, a) == VotesOf(past[p].bal, past[p].del, a)

CastVote(p, a, support) ==
  /\ State(p) = "active" /\ a \notin prop[p].voted
  /\ prop' = [prop EXCEPT ![p].voted = @ \cup {a},
                          ![p][support] = @ + Weight(p, a)]
  /\ UNCHANGED <<votesVars, criticalTarget, quorumNumerator, past, clock>>

Queue(p) ==
  /\ State(p) = "succeeded"
  /\ prop' = [prop EXCEPT ![p].eta = clock + minDelay]
  /\ UNCHANGED <<votesVars, criticalTarget, quorumNumerator, past, clock>>

\* What one executed call changes of the governance itself.
Effect(s, c) ==
  CASE c.fn = "setCriticalTarget" ->
         [s EXCEPT !.critical = IF c.value = 1 THEN @ \cup {c.who} ELSE @ \ {c.who}]
    [] c.fn = "updateQuorumNumerator" -> [s EXCEPT !.quorum = c.value]
    [] c.fn = "setExcluded" -> Excludes(s, c.who, c.value = 1)
    [] OTHER -> s

After(p) ==
  FoldLeft(Effect, [critical |-> criticalTarget, quorum |-> quorumNumerator,
                    excluded |-> excluded, delegatee |-> delegatee], Calls[p])

\* Through the governor while its state is queued, or at the timelock, whose
\* executor role is open: there the governor is not asked, and a call to
\* itself it has not announced reverts.
Execute(p) ==
  /\ prop[p].stage = "proposed" /\ prop[p].eta # 0 /\ clock >= prop[p].eta
  /\ \/ State(p) = "queued"
     \/ \A k \in DOMAIN Calls[p] : Calls[p][k].target # "governor"
  /\ prop' = [prop EXCEPT ![p].stage = "executed"]
  /\ criticalTarget' = After(p).critical /\ quorumNumerator' = After(p).quorum
  /\ excluded' = After(p).excluded /\ delegatee' = After(p).delegatee
  /\ UNCHANGED <<balance, moves, past, clock>>

\* The next block; snapshots of this one are final.
NextBlock ==
  /\ clock < MaxBlock
  /\ clock' = clock + 1
  /\ past' = [p \in Proposals |->
       IF prop[p].stage # "none" /\ prop[p].snapshot = clock
       THEN [bal |-> balance, del |-> delegatee] ELSE past[p]]
  /\ UNCHANGED <<votesVars, criticalTarget, quorumNumerator, prop>>

GovernorNext ==
  \/ Move /\ UNCHANGED governorState
  \/ \E p \in Proposals :
       \/ Propose(p) \/ Cancel(p) \/ Queue(p) \/ Execute(p)
       \/ \E a \in Accounts, support \in {"for", "against", "abstain"} :
            CastVote(p, a, support)
  \/ NextBlock

GovernorSpec == GovernorInit /\ [][GovernorNext]_governorVars

-----------------------------------------------------------------------------
(* Properties                                                              *)

GovernorTypeOK ==
  /\ balance \in [Accounts -> 0 .. MaxSupply]
  /\ delegatee \in [Accounts -> Accounts \cup {Zero}]
  /\ excluded \subseteq Accounts /\ moves \in 0 .. MaxMoves
  /\ quorumNumerator \in Nat /\ clock \in 1 .. MaxBlock
  /\ \A p \in Proposals :
       /\ prop[p].stage \in {"none", "proposed", "canceled", "executed"}
       /\ prop[p].critical \in BOOLEAN /\ prop[p].voted \subseteq Accounts
       /\ {prop[p].snapshot, prop[p].eta, prop[p].for, prop[p].against,
           prop[p].abstain} \subseteq Nat
       /\ past[p].bal \in [Accounts -> 0 .. MaxSupply]
       /\ prop[p].voted # {} \/ prop[p].eta # 0
            => prop[p].stage \in {"proposed", "executed"}

\* GembaVotes.sol 12-14: moving, delegating, excluding and readmitting in the
\* middle of a vote never makes more votes than there were at the snapshot.
NoVoteTwice ==
  \A p \in Proposals :
    prop[p].for + prop[p].against + prop[p].abstain <= Total(past[p].bal)

\* GembaGovernor.sol 28-32 and 44-50: whatever was flagged, tuned or bundled
\* before and meanwhile, a call to the governor or the timelock, a release or
\* an upgrade is executed only with the critical quorum and share of votes.
CriticalNeedsCriticalBar ==
  \A p \in Proposals :
    /\ prop[p].stage = "executed"
    /\ \E k \in DOMAIN Calls[p] :
         Calls[p][k].target \in Config \/ Calls[p][k].fn \in CriticalFns
    => /\ prop[p].for * 100 >= (prop[p].for + prop[p].against) * criticalSupermajority
       /\ prop[p].for + prop[p].abstain
            >= (Total(past[p].bal) * criticalQuorum) \div 100

\* GembaGovernor.sol 132-147: when the voting on a critical proposal is over,
\* its outcome is, and no later proposal changes it.
CriticalOutcomeFinal ==
  [][\A p \in Proposals :
       prop[p].critical /\ State(p) \in {"succeeded", "queued", "defeated"}
         => Passes(p)' = Passes(p)]_governorVars
=============================================================================
