--------------------------- MODULE Governance_proofs ---------------------------
(***************************************************************************)
(* Who may stop, spend and decide: theorems about the reserves with the    *)
(* guardians that pause them (Treasury), and about the governor with its   *)
(* votes (GembaGovernor).                                                  *)
(*                                                                         *)
(* The guardians' votes, for any people, targets and threshold, what they  *)
(* mean for the reserves they watch, and what a window of the              *)
(* PublicReserve lets through.                                             *)
(*                                                                         *)
(* The governor, for every set of proposals, calls, tiers, bars and        *)
(* periods.  The timelock executes without asking the governor,            *)
(* so the argument is about what was true when a proposal was queued and   *)
(* cannot have changed since: its tier, its votes, and its snapshot.  What *)
(* the votes of a proposal come to is bounded by the balances of its       *)
(* snapshot, and no call a proposal makes gives an excluded account votes. *)
(***************************************************************************)
EXTENDS Treasury, GembaGovernor, SetSums_proofs

(* The guardians                                                           *)

\* The type of the state and the promise about votes are inductive together.
Inv == GuardTypeOK /\ LiveVotes

\* Every set of people is finite.
LEMMA PeopleFinite ==
  ASSUME NEW S \in SUBSET People
  PROVE  IsFiniteSet(S) /\ Cardinality(S) \in Nat
BY GuardiansAssumption, FS_Subset, FS_CardinalityType

\* A new configuration starts without votes.
LEMMA NoVotesLive ==
  ASSUME NEW n \in Nat, n >= 1
  PROVE  /\ NoVotes \in [Targets \X Ops -> SUBSET People]
         /\ \A t \in Targets, op \in Ops :
              NoVotes[<<t, op>>] = {} /\ Cardinality(NoVotes[<<t, op>>]) < n
BY FS_EmptySet DEF NoVotes

LEMMA InvInit == Init => Inv
<1> SUFFICES ASSUME Init PROVE Inv
  OBVIOUS
<1>1. Cardinality(InitGuardians) \in Nat
  BY GuardiansAssumption, PeopleFinite
<1>2. threshold \in Nat /\ threshold >= 1
  BY <1>1, GuardiansAssumption DEF Init
<1> QED
  BY <1>2, GuardiansAssumption, NoVotesLive DEF Init, Inv, GuardTypeOK, LiveVotes

\* One confirmation: below the threshold it is kept, at the threshold the
\* round is over.
LEMMA ConfirmKeeps ==
  ASSUME Inv, NEW g \in People, NEW t \in Targets, NEW op \in Ops,
         Confirm(g, t, op)
  PROVE  Inv'
<1> USE DEF Inv
<1>1. votes[<<t, op>>] \in SUBSET People /\ <<t, op>> \in Targets \X Ops
  BY DEF GuardTypeOK
<1>2. GuardTypeOK'
  BY <1>1 DEF Confirm, GuardTypeOK
<1>3. Cardinality(votes[<<t, op>>] \cup {g}) = Cardinality(votes[<<t, op>>]) + 1
  BY <1>1, PeopleFinite, FS_AddElement DEF Confirm
<1>4. Cardinality(votes[<<t, op>>]) \in Nat /\ threshold \in Nat /\ threshold >= 1
  BY <1>1, PeopleFinite DEF GuardTypeOK
<1>5. ASSUME NEW u \in Targets, NEW o \in Ops
      PROVE  votes'[<<u, o>>] \subseteq guardians' /\ Cardinality(votes'[<<u, o>>]) < threshold'
  <2>1. CASE <<u, o>> = <<t, op>> /\ Reaches(t, op)
    <3>1. votes'[<<u, o>>] = {}
      BY <2>1, <1>1 DEF Confirm, GuardTypeOK
    <3> QED
      BY <3>1, <1>4, FS_EmptySet DEF Confirm
  <2>2. CASE <<u, o>> = <<t, op>> /\ ~Reaches(t, op)
    <3>1. votes'[<<u, o>>] = votes[<<t, op>>] \cup {g}
      BY <2>2, <1>1 DEF Confirm, GuardTypeOK
    <3>2. votes[<<t, op>>] \subseteq guardians
      BY DEF LiveVotes
    <3>3. Cardinality(votes'[<<u, o>>]) = Cardinality(votes[<<t, op>>]) + 1
      BY <3>1, <1>3
    <3>4. Cardinality(votes[<<t, op>>]) + 1 < threshold
      BY <2>2, <1>4 DEF Reaches
    <3>5. threshold' = threshold /\ guardians' = guardians /\ g \in guardians
      BY DEF Confirm
    <3>6. votes'[<<u, o>>] \subseteq guardians'
      BY <3>1, <3>2, <3>5
    <3> QED
      BY <3>3, <3>4, <3>5, <3>6
  <2>3. CASE <<u, o>> # <<t, op>>
    <3>1. votes'[<<u, o>>] = votes[<<u, o>>]
      BY <2>3, <1>1 DEF Confirm, GuardTypeOK
    <3> QED
      BY <3>1 DEF Confirm, LiveVotes
  <2> QED
    BY <2>1, <2>2, <2>3
<1> QED
  BY <1>2, <1>5 DEF LiveVotes

\* Governance: every change of the configuration drops the votes.
LEMMA ConfigureKeeps ==
  ASSUME Inv, Configure
  PROVE  Inv'
<1> USE DEF Inv
<1>1. guardians \in SUBSET People /\ guardianCount \in Nat
        /\ threshold \in Nat /\ threshold >= 1 /\ threshold <= guardianCount
  BY PeopleFinite DEF GuardTypeOK
<1>2. votes' = NoVotes
  BY DEF Configure, AddGuardian, RemoveGuardian, SetThreshold, AdvanceEpoch
<1> DEFINE Sound == /\ guardians' \subseteq People
                    /\ guardianCount' = Cardinality(guardians')
                    /\ threshold' \in 1 .. guardianCount'
<1>3. Sound
  <2>1. ASSUME NEW p \in People, AddGuardian(p) PROVE Sound
    BY <2>1, <1>1, PeopleFinite, FS_AddElement DEF AddGuardian, GuardTypeOK
  <2>2. ASSUME NEW p \in People, RemoveGuardian(p)
        PROVE  Sound
    BY <2>2, <1>1, PeopleFinite, FS_RemoveElement DEF RemoveGuardian, GuardTypeOK
  <2>3. ASSUME NEW n \in 1 .. guardianCount, SetThreshold(n)
        PROVE  Sound
    BY <2>3, <1>1 DEF SetThreshold, GuardTypeOK
  <2> QED
    BY <2>1, <2>2, <2>3 DEF Configure
<1>4. threshold' \in Nat /\ threshold' >= 1
  BY <1>1, <1>3, PeopleFinite
<1> QED
  BY <1>2, <1>3, <1>4, NoVotesLive DEF GuardTypeOK, LiveVotes

LEMMA InvStep == Inv /\ [Next]_guardVars => Inv'
<1> SUFFICES ASSUME Inv, [Next]_guardVars PROVE Inv'
  OBVIOUS
<1>1. CASE UNCHANGED guardVars
  BY <1>1 DEF guardVars, Inv, GuardTypeOK, LiveVotes
<1>2. CASE Next
  BY <1>2, ConfirmKeeps, ConfigureKeeps DEF Next
<1> QED
  BY <1>1, <1>2

\* EmergencyPause.sol 31-36: whatever the guardians and governance do, the
\* votes that wait are votes of guardians, and too few to have executed.
THEOREM VotesAreLive == Spec => []LiveVotes
<1>1. Inv => LiveVotes
  BY DEF Inv
<1> QED
  BY InvInit, InvStep, <1>1, PTL DEF Spec

-----------------------------------------------------------------------------
(* The treasury                                                            *)

\* The steps of the treasury are steps of EmergencyPause, or leave it alone.
LEMMA TreasuryStepsGuard == [TreasuryNext]_vars => [Next]_guardVars
<1> SUFFICES ASSUME [TreasuryNext]_vars PROVE [Next]_guardVars
  OBVIOUS
<1>1. ASSUME NEW g \in People, NEW t \in Targets, NEW op \in Ops,
             GuardianConfirms(g, t, op)
      PROVE  Next
  BY <1>1 DEF GuardianConfirms, Next
<1>2. CASE ConfigureGuardians
  BY <1>2 DEF ConfigureGuardians, Next
<1>3. ASSUME NEW t \in Targets,
             OtherPauser(t) \/ OwnerUnpause(t) \/ SetPauser(t) \/ Fund(t) \/ Release(t)
      PROVE  UNCHANGED guardVars
  BY <1>3 DEF OtherPauser, OwnerUnpause, SetPauser, Fund, Release
<1>4. ASSUME NEW by \in {"granter", "owner"}, Grant(by)
      PROVE  UNCHANGED guardVars
  BY <1>4 DEF Grant
<1>5. CASE SetEpochLimit \/ SetPerGrantCap \/ SetGranter \/ Tick
  BY <1>5 DEF SetEpochLimit, SetPerGrantCap, SetGranter, Tick
<1>6. CASE UNCHANGED vars
  BY <1>6 DEF vars
<1> QED
  BY <1>1, <1>2, <1>3, <1>4, <1>5, <1>6 DEF TreasuryNext

PausedOK == paused \in [Targets -> BOOLEAN]

LEMMA PausedStep == PausedOK /\ [TreasuryNext]_vars => PausedOK'
<1> SUFFICES ASSUME PausedOK, [TreasuryNext]_vars PROVE PausedOK'
  OBVIOUS
<1> USE DEF PausedOK
<1>1. ASSUME NEW t \in Targets, NEW b \in BOOLEAN, SetPaused(t, b)
      PROVE  PausedOK'
  BY <1>1 DEF SetPaused
<1>2. ASSUME NEW g \in People, NEW t \in Targets, NEW op \in Ops,
             GuardianConfirms(g, t, op)
      PROVE  PausedOK'
  <2>1. (op = "pause") \in BOOLEAN
    OBVIOUS
  <2>2. SetPaused(t, op = "pause") \/ UNCHANGED paused
    BY <1>2 DEF GuardianConfirms, reserveVars
  <2> QED
    BY <2>1, <2>2, <1>1
<1>3. ASSUME NEW t \in Targets,
             OtherPauser(t) \/ OwnerUnpause(t) \/ SetPauser(t) \/ Fund(t) \/ Release(t)
      PROVE  PausedOK'
  <2>1. (~paused[t]) \in BOOLEAN
    OBVIOUS
  <2> QED
    BY <2>1, <1>3, <1>1 DEF OtherPauser, OwnerUnpause, SetPauser, Fund, Release, Pays
<1>4. ASSUME NEW by \in {"granter", "owner"}, Grant(by)
      PROVE  PausedOK'
  BY <1>4 DEF Grant, Pays
<1>5. CASE SetEpochLimit \/ SetPerGrantCap \/ SetGranter \/ Tick \/ ConfigureGuardians
             \/ UNCHANGED vars
  BY <1>5 DEF SetEpochLimit, SetPerGrantCap, SetGranter, Tick, ConfigureGuardians,
              vars, reserveVars
<1> QED
  BY <1>2, <1>3, <1>4, <1>5 DEF TreasuryNext

LEMMA TreasuryInv == TreasurySpec => [](Inv /\ PausedOK)
<1>1. TreasuryInit => Inv /\ PausedOK
  BY InvInit DEF TreasuryInit, PausedOK
<1>2. Inv /\ PausedOK /\ [TreasuryNext]_vars => Inv' /\ PausedOK'
  BY TreasuryStepsGuard, InvStep, PausedStep
<1> QED
  BY <1>1, <1>2, PTL DEF TreasurySpec

\* EmergencyPause.sol 31-36, in the treasury: with reserves that refuse a
\* call, owners that unpause and pausers that change, the votes that wait are
\* votes of guardians, and too few to have executed.
THEOREM TreasuryVotesAreLive == TreasurySpec => []LiveVotes
<1>1. Inv => LiveVotes
  BY DEF Inv
<1> QED
  BY <1>1, TreasuryInv, PTL

\* The only step that pauses a reserve of the guardians is a confirmation that
\* reaches the threshold, and the votes it completes are live.
LEMMA PauseStep ==
  ASSUME Inv, PausedOK, [TreasuryNext]_vars, NEW t \in Targets,
         ~paused[t], paused'[t], pauser[t] = "EmergencyPause"
  PROVE  Cardinality(votes[<<t, "pause">>] \cap guardians) + 1 >= threshold
<1>1. ASSUME NEW g \in People, NEW u \in Targets, NEW op \in Ops,
             GuardianConfirms(g, u, op)
      PROVE  u = t /\ op = "pause" /\ Reaches(u, op)
  BY <1>1 DEF GuardianConfirms, SetPaused, reserveVars, Ops, PausedOK
<1>2. ASSUME NEW u \in Targets,
             OtherPauser(u) \/ OwnerUnpause(u) \/ SetPauser(u) \/ Fund(u) \/ Release(u)
      PROVE  FALSE
  BY <1>2 DEF OtherPauser, OwnerUnpause, SetPauser, Fund, Release, SetPaused, Pays,
              PausedOK
<1>3. ASSUME NEW by \in {"granter", "owner"}, Grant(by)
      PROVE  FALSE
  BY <1>3 DEF Grant, Pays
<1>4. ~(SetEpochLimit \/ SetPerGrantCap \/ SetGranter \/ Tick
          \/ ConfigureGuardians \/ UNCHANGED vars)
  BY DEF SetEpochLimit, SetPerGrantCap, SetGranter, Tick, ConfigureGuardians,
         vars, reserveVars
<1>5. PICK g \in People, u \in Targets, op \in Ops : GuardianConfirms(g, u, op)
  BY <1>2, <1>3, <1>4 DEF TreasuryNext
<1>6. Reaches(t, "pause")
  BY <1>1, <1>5
<1>7. votes[<<t, "pause">>] \cap guardians = votes[<<t, "pause">>]
  BY DEF Inv, LiveVotes, Ops
<1> QED
  BY <1>6, <1>7 DEF Reaches

\* EmergencyPause.sol 88-109: no sequence of confirmations, removals, new
\* thresholds and replaced pausers pauses a reserve without a quorum of the
\* guardians of that moment.
THEOREM PausesNeedQuorum == TreasurySpec => PausedByQuorum
<1>1. Inv /\ PausedOK /\ [TreasuryNext]_vars =>
        [\A t \in Targets :
           ~paused[t] /\ paused'[t] /\ pauser[t] = "EmergencyPause" =>
             Cardinality(votes[<<t, "pause">>] \cap guardians) + 1 >= threshold]_vars
  BY PauseStep
<1> QED
  BY <1>1, TreasuryInv, PTL DEF TreasurySpec, PausedByQuorum

-----------------------------------------------------------------------------
(* The windows of the PublicReserve                                        *)

\* The seconds from x to y, and what was granted in them.
Within(x, y) == {s \in Seconds : x <= s /\ s <= y}
In(f, x, y) == SumFunctionOnSet(f, Within(x, y))

LEMMA SecondsFinite ==
  ASSUME NEW x, NEW y
  PROVE  IsFiniteSet(Within(x, y)) /\ Within(x, y) \in SUBSET Seconds
<1>1. IsFiniteSet(Seconds)
  BY TreasuryAssumption, FS_Interval DEF Seconds
<1> QED
  BY <1>1, FS_Subset DEF Within

LEMMA InNat ==
  ASSUME NEW f \in [Seconds -> Nat], NEW x, NEW y
  PROVE  In(f, x, y) \in Nat
<1>1. \A s \in Within(x, y) : f[s] \in Nat
  BY SecondsFinite
<1> QED
  BY <1>1, SecondsFinite, SumNat DEF In

\* A stretch within another one has seen no more.
LEMMA InPart ==
  ASSUME NEW f \in [Seconds -> Nat], NEW x \in Int, NEW y \in Int,
         NEW u \in Int, NEW v \in Int, u <= x, y <= v
  PROVE  In(f, x, y) <= In(f, u, v)
<1> DEFINE R == Within(x, y)
           S == Within(u, v)
<1>1. R \in SUBSET S
  BY DEF Within, Seconds
<1>2. IsFiniteSet(S) /\ \A s \in S : f[s] \in Nat
  BY SecondsFinite
<1> HIDE DEF R, S
<1>3. SumFunctionOnSet(f, R) <= SumFunctionOnSet(f, S)
  BY <1>1, <1>2, SumPart
<1> QED
  BY <1>3 DEF In, R, S

\* A stretch cut in two.
LEMMA InCut ==
  ASSUME NEW f \in [Seconds -> Nat], NEW x \in Int, NEW y \in Int, NEW z \in Int,
         x <= z, z <= y + 1
  PROVE  In(f, x, y) = In(f, x, z - 1) + In(f, z, y)
<1> DEFINE R == Within(x, z - 1)
           S == Within(z, y)
<1>1. Within(x, y) = R \cup S /\ R \cap S = {}
  BY DEF Within, Seconds
<1>2. IsFiniteSet(R) /\ IsFiniteSet(S) /\ \A s \in R \cup S : f[s] \in Int
  BY SecondsFinite
<1> HIDE DEF R, S
<1>3. SumFunctionOnSet(f, R \cup S)
        = SumFunctionOnSet(f, R) + SumFunctionOnSet(f, S)
  BY <1>1, <1>2, SumUnion
<1> QED
  BY <1>1, <1>3 DEF In, R, S

LEMMA InZero ==
  ASSUME NEW f, NEW x, NEW y, \A s \in Within(x, y) : f[s] = 0
  PROVE  In(f, x, y) = 0
  BY SecondsFinite, SumZero DEF In

\* A grant of a in second t: what the stretches see of it.
LEMMA InGrant ==
  ASSUME NEW f \in [Seconds -> Nat], NEW t \in Seconds, NEW a \in Nat,
         NEW g \in [Seconds -> Nat], g[t] = f[t] + a,
         \A s \in Seconds \ {t} : g[s] = f[s], NEW x \in Int, NEW y \in Int
  PROVE  /\ y < t => In(g, x, y) = In(f, x, y)
         /\ x <= t /\ t <= y => In(g, x, y) = In(f, x, y) + a
<1> DEFINE S == Within(x, y)
<1>2. IsFiniteSet(S) /\ S \in SUBSET Seconds
  BY SecondsFinite
<1>3. \A s \in S : f[s] \in Int /\ g[s] \in Int
  BY <1>2
<1>4. ASSUME y < t PROVE In(g, x, y) = In(f, x, y)
  <2>1. t \notin S
    BY <1>4 DEF Within, Seconds
  <2>2. \A s \in S : f[s] \in Int /\ f[s] = g[s]
    BY <1>2, <1>3, <2>1
  <2> HIDE DEF S
  <2>3. SumFunctionOnSet(f, S) = SumFunctionOnSet(g, S)
    BY <1>2, <2>2, SumSame
  <2> QED
    BY <2>3 DEF In, S
<1>5. ASSUME x <= t, t <= y PROVE In(g, x, y) = In(f, x, y) + a
  <2>1. t \in S
    BY <1>5 DEF Within, Seconds
  <2>2. \A s \in S \ {t} : g[s] = f[s]
    BY <1>2
  <2>3. SumFunctionOnSet(f, S) \in Int
    BY <1>2, <1>3, SumRemove
  <2> HIDE DEF S
  <2>4. SumFunctionOnSet(g, S) = SumFunctionOnSet(f, S) - f[t] + g[t]
    BY <1>2, <1>3, <2>1, <2>2, SumChange
  <2>5. SumFunctionOnSet(g, S) = SumFunctionOnSet(f, S) + a
    BY <2>3, <2>4
  <2> QED
    BY <2>5 DEF In, S
<1> QED
  BY <1>4, <1>5

\* The window counts what was granted since it opened, the length before it
\* saw at most one cap, no stretch of that length more than two, and nothing
\* is granted ahead of the clock or in an expired window.
Windows(n, e, g) ==
  /\ n \in Seconds /\ g \in [Seconds -> Nat]
  /\ e \in [cap: Nat, len: Nat, start: Nat, spent: Nat]
  /\ e.start <= n /\ LimitOK(e)
  /\ \A s \in Seconds : s > n => g[s] = 0
  /\ e.cap # 0 =>
       /\ e.spent = In(g, e.start, n) /\ e.spent <= e.cap
       /\ \A s \in Seconds : s >= e.start + e.len => g[s] = 0
       /\ In(g, e.start - e.len, e.start - 1) <= e.cap
       /\ \A s \in 0 .. n : In(g, s + 1 - e.len, s) <= 2 * e.cap

WindowInv == Windows(now, epoch, granted)

\* A new limit, with an empty history.
LEMMA FreshWindow ==
  ASSUME NEW l \in Limits, LimitOK(l), NEW t \in Seconds
  PROVE  Windows(t, Epoch(l, t, 0), NothingYet)
<1> DEFINE e == Epoch(l, t, 0)
<1>1. /\ e \in [cap: Nat, len: Nat, start: Nat, spent: Nat]
      /\ e.cap = l.cap /\ e.len = l.len /\ e.start = t /\ e.spent = 0
  BY TreasuryAssumption DEF Epoch, Seconds
<1>2. /\ NothingYet \in [Seconds -> Nat]
      /\ \A s \in Seconds : NothingYet[s] = 0
  BY DEF NothingYet
<1>3. \A x, y : In(NothingYet, x, y) = 0
  <2> SUFFICES ASSUME NEW x, NEW y PROVE In(NothingYet, x, y) = 0
    OBVIOUS
  <2>1. \A s \in Within(x, y) : NothingYet[s] = 0
    BY <1>2, SecondsFinite
  <2> QED
    BY <2>1, InZero
<1> HIDE DEF e
<1>4. LimitOK(e)
  BY <1>1 DEF LimitOK
<1>5. Windows(t, e, NothingYet)
  BY <1>1, <1>2, <1>3, <1>4 DEF Windows, Seconds
<1> QED
  BY <1>5 DEF e

\* An expired window gives way to one that starts now.
LEMMA OpenKeeps ==
  ASSUME NEW n, NEW e, NEW g, Windows(n, e, g), e.cap # 0, n >= e.start + e.len
  PROVE  Windows(n, [e EXCEPT !.start = n, !.spent = 0], g)
<1> DEFINE w == [e EXCEPT !.start = n, !.spent = 0]
<1>1. /\ n \in Nat /\ n \in Seconds /\ g \in [Seconds -> Nat]
      /\ e \in [cap: Nat, len: Nat, start: Nat, spent: Nat]
      /\ e.cap \in Nat /\ e.len \in Nat /\ e.start \in Nat /\ e.len >= 1
      /\ e.start <= n
  BY SMTT(60) DEF Windows, LimitOK, Seconds
<1>2. /\ w \in [cap: Nat, len: Nat, start: Nat, spent: Nat]
      /\ w.cap = e.cap /\ w.len = e.len /\ w.start = n /\ w.spent = 0
  BY <1>1
<1>3. In(g, n, n) = 0
  <2>1. \A s \in Within(n, n) : g[s] = 0
    BY <1>1 DEF Windows, Within, Seconds
  <2> QED
    BY <2>1, InZero
<1>4. In(g, n - e.len, n - 1) <= e.cap
  <2>1. In(g, n - e.len, n - 1) <= In(g, e.start, n)
    BY <1>1, InPart
  <2>2. In(g, n - e.len, n - 1) \in Nat /\ In(g, e.start, n) \in Nat
    BY <1>1, InNat
  <2>3. In(g, e.start, n) <= e.cap
    BY DEF Windows
  <2> QED
    BY <1>1, <2>1, <2>2, <2>3
<1>5. \A s \in Seconds : s >= n + e.len => g[s] = 0
  BY <1>1 DEF Windows, Seconds
<1> HIDE DEF w
<1>6. LimitOK(w)
  BY <1>1, <1>2 DEF LimitOK
<1>7. Windows(n, w, g)
  BY <1>1, <1>2, <1>3, <1>4, <1>5, <1>6 DEF Windows
<1> QED
  BY <1>7 DEF w

\* A grant that fits into the open window.
LEMMA ChargeKeeps ==
  ASSUME NEW n, NEW e, NEW g, NEW a \in Nat, Windows(n, e, g),
         e.cap # 0, n < e.start + e.len, e.spent + a <= e.cap
  PROVE  Windows(n, [e EXCEPT !.spent = @ + a], [g EXCEPT ![n] = @ + a])
<1> DEFINE w == [e EXCEPT !.spent = @ + a]
           h == [g EXCEPT ![n] = @ + a]
<1>1. /\ n \in Nat /\ n \in Seconds /\ g \in [Seconds -> Nat]
      /\ e \in [cap: Nat, len: Nat, start: Nat, spent: Nat]
      /\ e.cap \in Nat /\ e.len \in Nat /\ e.start \in Nat /\ e.spent \in Nat
      /\ e.len >= 1 /\ e.start <= n /\ e.spent = In(g, e.start, n)
  BY SMTT(60) DEF Windows, LimitOK, Seconds
<1>2. /\ w \in [cap: Nat, len: Nat, start: Nat, spent: Nat]
      /\ w.cap = e.cap /\ w.len = e.len /\ w.start = e.start
      /\ w.spent = e.spent + a
  BY <1>1
<1>3. h \in [Seconds -> Nat] /\ h[n] = g[n] + a /\ \A s \in Seconds \ {n} : h[s] = g[s]
  BY <1>1
<1>4. /\ \A x, y \in Int : y < n => In(h, x, y) = In(g, x, y)
      /\ \A x, y \in Int : x <= n /\ n <= y => In(h, x, y) = In(g, x, y) + a
  <2> HIDE DEF h
  <2>1. ASSUME NEW x \in Int, NEW y \in Int
        PROVE  /\ y < n => In(h, x, y) = In(g, x, y)
               /\ x <= n /\ n <= y => In(h, x, y) = In(g, x, y) + a
    BY <1>1, <1>3, InGrant
  <2> QED
    BY <2>1
<1> HIDE DEF w, h
<1>5. w.spent = In(h, e.start, n)
  BY <1>1, <1>2, <1>4
<1>6. In(h, e.start - e.len, e.start - 1) <= e.cap
  <2>1. e.start - e.len \in Int /\ e.start - 1 \in Int /\ e.start - 1 < n
    BY <1>1
  <2>2. In(h, e.start - e.len, e.start - 1) = In(g, e.start - e.len, e.start - 1)
    BY <1>4, <2>1
  <2> QED
    BY <2>2 DEF Windows
<1>7. ASSUME NEW s \in 0 .. n PROVE In(h, s + 1 - e.len, s) <= 2 * e.cap
  <2>0. s \in Int /\ s + 1 - e.len \in Int /\ s <= n
    BY <1>1
  <2>1. CASE s < n
    <3>1. In(h, s + 1 - e.len, s) = In(g, s + 1 - e.len, s)
      BY <1>1, <1>4, <2>0, <2>1
    <3> QED
      BY <3>1 DEF Windows
  <2>2. CASE s = n
    <3> DEFINE before == In(g, n + 1 - e.len, e.start - 1)
               prior == In(g, e.start - e.len, e.start - 1)
               since == In(g, e.start, n)
               all == In(g, n + 1 - e.len, n)
    <3>1. /\ n + 1 - e.len \in Int /\ e.start - 1 \in Int
          /\ e.start - e.len \in Int /\ n + 1 - e.len <= e.start
          /\ e.start <= n + 1 /\ e.start - e.len <= n + 1 - e.len
          /\ n + 1 - e.len <= n
      BY <1>1
    <3>2. all = before + since
      BY <1>1, <3>1, InCut
    <3>3. before <= prior
      BY <1>1, <3>1, InPart
    <3>4. before \in Nat /\ prior \in Nat /\ since \in Nat /\ all \in Nat
      BY <1>1, InNat
    <3>5. prior <= e.cap
      BY DEF Windows
    <3>6. In(h, n + 1 - e.len, n) = all + a
      BY <1>1, <1>4, <3>1
    <3>7. since = e.spent
      BY <1>1
    <3> HIDE DEF before, prior, since, all
    <3>8. all + a <= 2 * e.cap
      BY <1>1, <3>2, <3>3, <3>4, <3>5, <3>7
    <3> QED
      BY <2>2, <3>6, <3>8
  <2> QED
    BY <1>1, <2>0, <2>1, <2>2
<1>8. ASSUME NEW s \in Seconds
      PROVE  (s > n => h[s] = 0) /\ (s >= e.start + e.len => h[s] = 0)
  <2>1. /\ s > n => g[s] = 0
        /\ s >= e.start + e.len => g[s] = 0
    BY DEF Windows
  <2>2. s \in Nat /\ (s >= e.start + e.len => s # n) /\ (s > n => s # n)
    BY <1>1 DEF Seconds
  <2> QED
    BY <1>3, <2>1, <2>2
<1>9. LimitOK(w)
  BY <1>2 DEF Windows, LimitOK
<1>10. w.spent <= w.cap
  BY <1>2
<1>11. Windows(n, w, h)
  BY <1>1, <1>2, <1>3, <1>5, <1>6, <1>7, <1>8, <1>9, <1>10 DEF Windows
<1> QED
  BY <1>11 DEF w, h

\* A second passes, in which nothing has been granted yet.
LEMMA TickKeeps ==
  ASSUME NEW n, NEW e, NEW g, Windows(n, e, g), n + 1 \in Seconds
  PROVE  Windows(n + 1, e, g)
<1>1. /\ n \in Nat /\ g \in [Seconds -> Nat]
      /\ e \in [cap: Nat, len: Nat, start: Nat, spent: Nat]
      /\ e.cap \in Nat /\ e.len \in Nat /\ e.start \in Nat
      /\ e.start <= n
  BY DEF Windows, Seconds
<1>2. In(g, n + 1, n + 1) = 0
  <2>1. \A s \in Within(n + 1, n + 1) : g[s] = 0
    BY <1>1 DEF Windows, Within, Seconds
  <2> QED
    BY <2>1, InZero
<1>3. ASSUME NEW x \in Int, x <= n + 1 PROVE In(g, x, n + 1) = In(g, x, n)
  <2>1. In(g, x, n + 1) = In(g, x, (n + 1) - 1) + In(g, n + 1, n + 1)
    BY <1>1, <1>3, InCut
  <2>2. (n + 1) - 1 = n /\ In(g, x, n) \in Nat
    BY <1>1, InNat
  <2> QED
    BY <1>2, <2>1, <2>2
<1>4. ASSUME e.cap # 0, NEW s \in 0 .. n + 1
      PROVE  In(g, s + 1 - e.len, s) <= 2 * e.cap
  <2>1. CASE s \in 0 .. n
    BY <1>4, <2>1 DEF Windows
  <2>2. CASE s = n + 1
    <3>1. e.len >= 1
      BY <1>1, <1>4 DEF Windows, LimitOK
    <3>2. /\ (n + 1) + 1 - e.len \in Int /\ (n + 1) + 1 - e.len <= n + 1
          /\ n + 1 - e.len \in Int /\ n + 1 - e.len <= (n + 1) + 1 - e.len
      BY <1>1, <3>1
    <3>3. In(g, (n + 1) + 1 - e.len, n + 1) = In(g, (n + 1) + 1 - e.len, n)
      BY <1>3, <3>2
    <3>4. In(g, (n + 1) + 1 - e.len, n) <= In(g, n + 1 - e.len, n)
      BY <1>1, <3>2, InPart
    <3>5. In(g, (n + 1) + 1 - e.len, n) \in Nat /\ In(g, n + 1 - e.len, n) \in Nat
      BY <1>1, InNat
    <3>6. n \in 0 .. n
      BY <1>1
    <3>7. In(g, n + 1 - e.len, n) <= 2 * e.cap
      BY <1>4, <3>6 DEF Windows
    <3>8. In(g, (n + 1) + 1 - e.len, n + 1) <= 2 * e.cap
      BY <1>1, <3>3, <3>4, <3>5, <3>7
    <3> QED
      BY <2>2, <3>8
  <2> QED
    BY <1>1, <1>4, <2>1, <2>2
<1>5. e.start <= n + 1 /\ \A s \in Seconds : s > n + 1 => g[s] = 0
  BY <1>1 DEF Windows, Seconds
<1>6. In(g, e.start, n + 1) = In(g, e.start, n)
  BY <1>1, <1>3
<1> QED
  BY <1>1, <1>4, <1>5, <1>6 DEF Windows

LEMMA InitWindow == TreasuryInit => WindowInv
<1> SUFFICES ASSUME TreasuryInit PROVE WindowInv
  OBVIOUS
<1>1. PICK l \in Limits : LimitOK(l) /\ epoch = Epoch(l, 0, 0)
  BY DEF TreasuryInit
<1>2. now = 0 /\ granted = NothingYet /\ 0 \in Seconds
  BY TreasuryAssumption DEF TreasuryInit, Seconds
<1> QED
  BY <1>1, <1>2, FreshWindow DEF WindowInv

LEMMA GrantKeeps ==
  ASSUME WindowInv, NEW by \in {"granter", "owner"}, Grant(by)
  PROVE  WindowInv'
<1>0. now' = now
  BY DEF Grant
<1>1. PICK a \in Amounts :
        IF epoch.cap # 0
        THEN Charge(a) /\ granted' = [granted EXCEPT ![now] = @ + a]
        ELSE UNCHANGED <<epoch, granted>>
  BY DEF Grant
<1>2. CASE epoch.cap = 0
  BY <1>0, <1>1, <1>2 DEF WindowInv
<1>3. CASE epoch.cap # 0
  <2>1. a \in Nat
    BY TreasuryAssumption
  <2>2. /\ OpenWindow.spent + a <= OpenWindow.cap
        /\ epoch' = [OpenWindow EXCEPT !.spent = @ + a]
        /\ granted' = [granted EXCEPT ![now] = @ + a]
    BY <1>1, <1>3 DEF Charge
  <2>3. /\ now \in Nat /\ epoch \in [cap: Nat, len: Nat, start: Nat, spent: Nat]
        /\ epoch.len \in Nat /\ epoch.len >= 1 /\ epoch.start \in Nat
    BY <1>3 DEF WindowInv, Windows, LimitOK, Seconds
  <2>4. /\ Windows(now, OpenWindow, granted)
        /\ OpenWindow.cap # 0 /\ now < OpenWindow.start + OpenWindow.len
    <3>1. CASE Expired
      <4>1. OpenWindow = [epoch EXCEPT !.start = now, !.spent = 0]
        BY <3>1 DEF OpenWindow
      <4>2. Windows(now, OpenWindow, granted)
        BY <1>3, <3>1, <4>1, OpenKeeps DEF WindowInv, Expired
      <4>3. /\ OpenWindow.cap = epoch.cap /\ OpenWindow.start = now
            /\ OpenWindow.len = epoch.len
        BY <2>3, <4>1
      <4> QED
        BY <1>3, <2>3, <4>2, <4>3
    <3>2. CASE ~Expired
      <4>1. OpenWindow = epoch
        BY <3>2 DEF OpenWindow
      <4> QED
        BY <1>3, <2>3, <3>2, <4>1 DEF WindowInv, Expired
    <3> QED
      BY <3>1, <3>2
  <2>5. Windows(now, [OpenWindow EXCEPT !.spent = @ + a],
                [granted EXCEPT ![now] = @ + a])
    BY <2>1, <2>2, <2>4, ChargeKeeps
  <2> QED
    BY <1>0, <2>2, <2>5 DEF WindowInv
<1> QED
  BY <1>2, <1>3

LEMMA WindowStep == WindowInv /\ [TreasuryNext]_vars => WindowInv'
<1> SUFFICES ASSUME WindowInv, [TreasuryNext]_vars PROVE WindowInv'
  OBVIOUS
<1>1. CASE UNCHANGED <<epoch, granted, now>>
  BY <1>1 DEF WindowInv
<1>2. ASSUME NEW by \in {"granter", "owner"}, Grant(by) PROVE WindowInv'
  BY <1>2, GrantKeeps
<1>3. CASE SetEpochLimit
  <2>1. PICK l \in Limits : LimitOK(l) /\ epoch' = Epoch(l, now, 0)
    BY <1>3 DEF SetEpochLimit
  <2>2. now' = now /\ granted' = NothingYet /\ now \in Seconds
    BY <1>3 DEF SetEpochLimit, WindowInv, Windows
  <2> QED
    BY <2>1, <2>2, FreshWindow DEF WindowInv
<1>4. CASE Tick
  <2>1. now' = now + 1 /\ epoch' = epoch /\ granted' = granted
    BY <1>4 DEF Tick, publicVars
  <2>2. now + 1 \in Seconds
    BY <1>4, TreasuryAssumption DEF Tick, WindowInv, Windows, Seconds
  <2> QED
    BY <2>1, <2>2, TickKeeps DEF WindowInv
<1>5. ASSUME NEW g \in People, NEW t \in Targets, NEW op \in Ops,
             GuardianConfirms(g, t, op)
      PROVE  WindowInv'
  BY <1>1, <1>5 DEF GuardianConfirms, publicVars
<1>6. ASSUME NEW t \in Targets,
             OtherPauser(t) \/ OwnerUnpause(t) \/ SetPauser(t) \/ Fund(t) \/ Release(t)
      PROVE  WindowInv'
  BY <1>1, <1>6 DEF OtherPauser, OwnerUnpause, SetPauser, Fund, Release, publicVars
<1>7. CASE SetPerGrantCap \/ SetGranter \/ ConfigureGuardians \/ UNCHANGED vars
  BY <1>1, <1>7 DEF SetPerGrantCap, SetGranter, ConfigureGuardians, publicVars, vars
<1> QED
  BY <1>2, <1>3, <1>4, <1>5, <1>6, <1>7 DEF TreasuryNext

\* PublicReserve.sol 79-94 and 29-39: whoever grants, whatever limits and caps
\* are set meanwhile, a window never grants more than its cap, and no stretch
\* of seconds as long as a window more than two.
THEOREM WindowsHold == TreasurySpec => []WindowHolds
<1>1. WindowInv => WindowHolds
  <2> SUFFICES ASSUME WindowInv, epoch.cap # 0
               PROVE  /\ epoch.spent = GrantedIn(epoch.start, now)
                      /\ epoch.spent <= epoch.cap
                      /\ \A s \in epoch.len - 1 .. now :
                           GrantedIn(s + 1 - epoch.len, s) <= 2 * epoch.cap
    BY DEF WindowHolds
  <2>1. /\ now \in Nat /\ now <= MaxTime /\ MaxTime \in Nat /\ epoch.start \in Nat
        /\ epoch.len \in Nat /\ epoch.len >= 1
    BY TreasuryAssumption DEF WindowInv, Windows, LimitOK, Seconds
  <2>2. \A x \in Nat, y \in Int : y <= now => Within(x, y) = x .. y
    BY <2>1 DEF Within, Seconds
  <2>3. \A x \in Nat, y \in Int : y <= now => GrantedIn(x, y) = In(granted, x, y)
    BY <2>2 DEF GrantedIn, In
  <2>4. ASSUME NEW s \in epoch.len - 1 .. now
        PROVE  GrantedIn(s + 1 - epoch.len, s) <= 2 * epoch.cap
    <3>1. s \in 0 .. now /\ s + 1 - epoch.len \in Nat /\ s \in Int /\ s <= now
      BY <2>1
    <3> QED
      BY <2>3, <3>1 DEF WindowInv, Windows
  <2>5. epoch.spent = GrantedIn(epoch.start, now)
    BY <2>1, <2>3 DEF WindowInv, Windows
  <2> QED
    BY <2>4, <2>5 DEF WindowInv, Windows
<1> QED
  BY <1>1, InitWindow, WindowStep, PTL DEF TreasurySpec

-----------------------------------------------------------------------------
(* The governor and its proposals                                          *)

Fields == {"stage", "snapshot", "critical", "eta", "voted", "for", "against",
           "abstain"}

\* The voting on a proposal is over.
Closed(p) == prop[p].snapshot + votingPeriod < clock

\* A call that is critical whatever governance has flagged.
AlwaysCritical(p) ==
  \E k \in DOMAIN Calls[p] :
    Calls[p][k].target \in Config \/ Calls[p][k].fn \in CriticalFns

\* A proposal has all its fields, and a tier as strict as its calls; what was
\* queued is closed and, when critical, has passed for good.
ProposalOK(p) ==
  /\ DOMAIN prop[p] = Fields
  /\ prop[p].snapshot \in Nat /\ prop[p].eta \in Nat
  /\ prop[p].critical \in BOOLEAN
  /\ prop[p].stage \in {"none", "proposed", "canceled", "executed"}
  /\ prop[p].stage = "none" => prop[p].eta = 0
  /\ prop[p].stage = "executed" => prop[p].eta # 0
  /\ prop[p].stage # "none" /\ AlwaysCritical(p) => prop[p].critical
  /\ prop[p].eta # 0 => Closed(p)
  /\ prop[p].eta # 0 /\ prop[p].critical => Passes(p)

ProposalsOK ==
  /\ clock \in Nat /\ DOMAIN prop = Proposals /\ DOMAIN past = Proposals
  /\ \A p \in Proposals : ProposalOK(p)

LEMMA Periods ==
  votingDelay \in Nat /\ votingPeriod \in Nat /\ minDelay \in Nat
  BY GovernorAssumption

\* What each state of the governor says of stage and clock.
LEMMA StateFacts ==
  ASSUME ProposalsOK, NEW p \in Proposals
  PROVE  /\ State(p) \in {"pending", "active"}
              => prop[p].stage = "proposed" /\ ~Closed(p)
         /\ State(p) \in {"succeeded", "queued", "defeated"}
              => prop[p].stage = "proposed" /\ Closed(p)
         /\ State(p) \in {"succeeded", "queued"} => Passes(p)
<1>0. /\ prop[p].snapshot \in Nat /\ clock \in Nat /\ votingPeriod \in Nat
      /\ prop[p].stage \in {"none", "proposed", "canceled", "executed"}
  BY Periods DEF ProposalsOK, ProposalOK
<1>1. CASE prop[p].stage # "proposed"
  <2>1. State(p) = prop[p].stage
    BY <1>1 DEF State
  <2> QED
    BY <1>0, <1>1, <2>1
<1>2. CASE prop[p].stage = "proposed"
  <2>1. CASE prop[p].snapshot >= clock
    <3>1. State(p) = "pending"
      BY <1>2, <2>1 DEF State
    <3> QED
      BY <1>0, <1>2, <2>1, <3>1 DEF Closed
  <2>2. CASE ~(prop[p].snapshot >= clock) /\ prop[p].snapshot + votingPeriod >= clock
    <3>1. State(p) = "active"
      BY <1>2, <2>2 DEF State
    <3> QED
      BY <1>0, <1>2, <2>2, <3>1 DEF Closed
  <2>3. CASE ~(prop[p].snapshot >= clock) /\ ~(prop[p].snapshot + votingPeriod >= clock)
    <3>1. Closed(p)
      BY <1>0, <2>3 DEF Closed
    <3>2. State(p) = IF ~Passes(p) THEN "defeated"
                     ELSE IF prop[p].eta = 0 THEN "succeeded" ELSE "queued"
      BY <1>2, <2>3 DEF State
    <3> QED
      BY <1>2, <3>1, <3>2
  <2> QED
    BY <2>1, <2>2, <2>3
<1> QED
  BY <1>1, <1>2

\* The votes, the tier and the snapshot of a proposal are what its outcome
\* hangs on; for a critical one, nothing else is.
LEMMA OutcomeKept ==
  ASSUME NEW p \in Proposals, prop[p].critical, prop'[p].critical,
         prop'[p].for = prop[p].for, prop'[p].against = prop[p].against,
         prop'[p].abstain = prop[p].abstain, past'[p] = past[p]
  PROVE  Passes(p)' = Passes(p)
<1>1. QuorumReached(p)' = QuorumReached(p)
  BY DEF QuorumReached
<1>2. VoteSucceeded(prop[p])' = VoteSucceeded(prop[p])
  BY DEF VoteSucceeded
<1> QED
  BY <1>1, <1>2 DEF Passes

\* A step that leaves a proposal and its snapshot alone leaves it in order,
\* whatever happens to the others, to the numerator and to the flags.
LEMMA OthersKept ==
  ASSUME ProposalsOK, NEW p \in Proposals,
         prop'[p] = prop[p], past'[p] = past[p],
         clock' = clock \/ clock' = clock + 1
  PROVE  ProposalOK(p)'
<1>1. ProposalOK(p) /\ clock \in Nat /\ votingPeriod \in Nat
  BY Periods DEF ProposalsOK
<1>2. Closed(p) => Closed(p)'
  BY <1>1 DEF Closed, ProposalOK
<1>3. prop[p].critical => Passes(p)' = Passes(p)
  BY OutcomeKept
<1>4. AlwaysCritical(p)' = AlwaysCritical(p)
  BY DEF AlwaysCritical
<1> QED
  BY <1>1, <1>2, <1>3, <1>4 DEF ProposalOK

LEMMA InitProposals == GovernorInit => ProposalsOK
<1> SUFFICES ASSUME GovernorInit PROVE ProposalsOK
  OBVIOUS
<1>1. /\ prop = [p \in Proposals |-> NotProposed] /\ clock = 1
      /\ past = [p \in Proposals |-> NoPast]
  BY DEF GovernorInit
<1>2. ASSUME NEW p \in Proposals PROVE ProposalOK(p)
  BY <1>1 DEF ProposalOK, NotProposed, Fields
<1> QED
  BY <1>1, <1>2 DEF ProposalsOK

\* The tier of what is proposed: the calls that are always critical make it so.
LEMMA ProposeKeeps ==
  ASSUME ProposalsOK, NEW q \in Proposals, Propose(q)
  PROVE  ProposalsOK'
<1>0. /\ prop' = [prop EXCEPT ![q] =
            [NotProposed EXCEPT !.stage = "proposed",
               !.snapshot = clock + votingDelay, !.critical = TierOf(q)]]
      /\ past' = past /\ clock' = clock /\ clock \in Nat /\ votingDelay \in Nat
      /\ DOMAIN prop = Proposals /\ DOMAIN past = Proposals
  BY Periods DEF Propose, ProposalsOK
<1>1. prop'[q] = [NotProposed EXCEPT !.stage = "proposed",
                    !.snapshot = clock + votingDelay, !.critical = TierOf(q)]
  BY <1>0
<1>2. /\ DOMAIN prop'[q] = Fields /\ prop'[q].stage = "proposed"
      /\ prop'[q].snapshot = clock + votingDelay /\ prop'[q].eta = 0
      /\ prop'[q].critical = TierOf(q)
  BY <1>1 DEF NotProposed, Fields
<1>3. TierOf(q) \in BOOLEAN /\ (AlwaysCritical(q) => TierOf(q))
  BY DEF TierOf, AlwaysCritical, CriticalCall
<1>4. AlwaysCritical(q)' = AlwaysCritical(q)
  BY DEF AlwaysCritical
<1>5. ProposalOK(q)'
  BY <1>0, <1>2, <1>3, <1>4 DEF ProposalOK
<1>6. ASSUME NEW p \in Proposals, p # q PROVE ProposalOK(p)'
  BY <1>0, <1>6, OthersKept
<1> QED
  BY <1>0, <1>5, <1>6 DEF ProposalsOK

\* While it can be cancelled or voted on, a proposal is not queued.
LEMMA OpenIsUnqueued ==
  ASSUME ProposalsOK, NEW q \in Proposals, State(q) \in {"pending", "active"}
  PROVE  prop[q].stage = "proposed" /\ prop[q].eta = 0
  BY StateFacts DEF ProposalsOK, ProposalOK

LEMMA CancelKeeps ==
  ASSUME ProposalsOK, NEW q \in Proposals, Cancel(q)
  PROVE  ProposalsOK'
<1>0. /\ prop' = [prop EXCEPT ![q].stage = "canceled"]
      /\ past' = past /\ clock' = clock /\ clock \in Nat
      /\ DOMAIN prop = Proposals /\ DOMAIN past = Proposals
      /\ ProposalOK(q)
  BY DEF Cancel, ProposalsOK
<1>1. prop[q].stage = "proposed" /\ prop[q].eta = 0
  BY OpenIsUnqueued DEF Cancel
<1>2. prop'[q] = [prop[q] EXCEPT !.stage = "canceled"]
  BY <1>0
<1>3. /\ DOMAIN prop'[q] = Fields /\ prop'[q].stage = "canceled"
      /\ prop'[q].snapshot = prop[q].snapshot /\ prop'[q].eta = 0
      /\ prop'[q].critical = prop[q].critical
  BY <1>0, <1>1, <1>2 DEF ProposalOK, Fields
<1>4. AlwaysCritical(q)' = AlwaysCritical(q)
  BY DEF AlwaysCritical
<1>5. ProposalOK(q)'
  BY <1>0, <1>1, <1>3, <1>4 DEF ProposalOK
<1>6. ASSUME NEW p \in Proposals, p # q PROVE ProposalOK(p)'
  BY <1>0, <1>6, OthersKept
<1> QED
  BY <1>0, <1>5, <1>6 DEF ProposalsOK

LEMMA CastVoteKeeps ==
  ASSUME ProposalsOK, NEW q \in Proposals, NEW a \in Accounts,
         NEW support \in {"for", "against", "abstain"}, CastVote(q, a, support)
  PROVE  ProposalsOK'
<1>0. /\ prop' = [prop EXCEPT ![q].voted = @ \cup {a},
                               ![q][support] = @ + Weight(q, a)]
      /\ past' = past /\ clock' = clock /\ clock \in Nat
      /\ DOMAIN prop = Proposals /\ DOMAIN past = Proposals
      /\ ProposalOK(q)
  BY DEF CastVote, ProposalsOK
<1>1. prop[q].stage = "proposed" /\ prop[q].eta = 0
  BY OpenIsUnqueued DEF CastVote
<1>2. /\ DOMAIN prop' = Proposals /\ DOMAIN prop'[q] = DOMAIN prop[q]
      /\ \A p \in Proposals : p # q => prop'[p] = prop[p]
      /\ \A f \in Fields \ {"voted", support} : prop'[q][f] = prop[q][f]
  BY <1>0 DEF ProposalOK
<1>3. /\ DOMAIN prop'[q] = Fields /\ prop'[q].stage = "proposed"
      /\ prop'[q].snapshot = prop[q].snapshot /\ prop'[q].eta = 0
      /\ prop'[q].critical = prop[q].critical
  BY <1>0, <1>1, <1>2 DEF ProposalOK, Fields
<1>4. AlwaysCritical(q)' = AlwaysCritical(q)
  BY DEF AlwaysCritical
<1>5. ProposalOK(q)'
  BY <1>0, <1>1, <1>3, <1>4 DEF ProposalOK
<1>6. ASSUME NEW p \in Proposals, p # q PROVE ProposalOK(p)'
  BY <1>0, <1>6, OthersKept
<1> QED
  BY <1>0, <1>5, <1>6 DEF ProposalsOK

\* What is queued has succeeded: its voting is over and its bar was met.
LEMMA QueueKeeps ==
  ASSUME ProposalsOK, NEW q \in Proposals, Queue(q)
  PROVE  ProposalsOK'
<1>0. /\ prop' = [prop EXCEPT ![q].eta = clock + minDelay]
      /\ past' = past /\ clock' = clock /\ clock \in Nat /\ minDelay \in Nat
      /\ DOMAIN prop = Proposals /\ DOMAIN past = Proposals
      /\ ProposalOK(q)
  BY Periods DEF Queue, ProposalsOK
<1>1. prop[q].stage = "proposed" /\ Closed(q) /\ Passes(q)
  BY StateFacts DEF Queue
<1>2. prop'[q] = [prop[q] EXCEPT !.eta = clock + minDelay]
  BY <1>0
<1>3. /\ DOMAIN prop'[q] = Fields /\ prop'[q].stage = "proposed"
      /\ prop'[q].snapshot = prop[q].snapshot /\ prop'[q].eta = clock + minDelay
      /\ prop'[q].critical = prop[q].critical /\ prop'[q].for = prop[q].for
      /\ prop'[q].against = prop[q].against
      /\ prop'[q].abstain = prop[q].abstain
  BY <1>0, <1>1, <1>2 DEF ProposalOK, Fields
<1>4. AlwaysCritical(q)' = AlwaysCritical(q)
  BY DEF AlwaysCritical
<1>5. Closed(q)'
  BY <1>0, <1>1, <1>3 DEF Closed
<1>6. prop[q].critical => Passes(q)'
  BY <1>0, <1>1, <1>3, OutcomeKept
<1>7. ProposalOK(q)'
  BY <1>0, <1>1, <1>3, <1>4, <1>5, <1>6 DEF ProposalOK
<1>8. ASSUME NEW p \in Proposals, p # q PROVE ProposalOK(p)'
  BY <1>0, <1>8, OthersKept
<1> QED
  BY <1>0, <1>7, <1>8 DEF ProposalsOK

\* Executing changes the numerator, the flags, the exclusions and delegates,
\* but neither the votes nor the snapshot of any proposal.
LEMMA ExecuteKeeps ==
  ASSUME ProposalsOK, NEW q \in Proposals, Execute(q)
  PROVE  ProposalsOK'
<1>0. /\ prop' = [prop EXCEPT ![q].stage = "executed"]
      /\ prop[q].stage = "proposed" /\ prop[q].eta # 0
      /\ past' = past /\ clock' = clock /\ clock \in Nat
      /\ DOMAIN prop = Proposals /\ DOMAIN past = Proposals
      /\ ProposalOK(q)
  BY DEF Execute, ProposalsOK
<1>1. prop'[q] = [prop[q] EXCEPT !.stage = "executed"]
  BY <1>0
<1>2. /\ DOMAIN prop'[q] = Fields /\ prop'[q].stage = "executed"
      /\ prop'[q].snapshot = prop[q].snapshot /\ prop'[q].eta = prop[q].eta
      /\ prop'[q].critical = prop[q].critical /\ prop'[q].for = prop[q].for
      /\ prop'[q].against = prop[q].against
      /\ prop'[q].abstain = prop[q].abstain
  BY <1>0, <1>1 DEF ProposalOK, Fields
<1>3. AlwaysCritical(q)' = AlwaysCritical(q)
  BY DEF AlwaysCritical
<1>4. Closed(q)' = Closed(q)
  BY <1>0, <1>2 DEF Closed
<1>5. prop[q].critical => Passes(q)' = Passes(q)
  BY <1>0, <1>2, OutcomeKept
<1>6. ProposalOK(q)'
  BY <1>0, <1>2, <1>3, <1>4, <1>5 DEF ProposalOK
<1>7. ASSUME NEW p \in Proposals, p # q PROVE ProposalOK(p)'
  BY <1>0, <1>7, OthersKept
<1> QED
  BY <1>0, <1>6, <1>7 DEF ProposalsOK

\* A block takes the snapshots that fall on it; none is of a closed proposal.
LEMMA BlockKeepsPast ==
  ASSUME ProposalsOK, NextBlock, NEW p \in Proposals, Closed(p)
  PROVE  past'[p] = past[p]
<1>1. /\ prop[p].snapshot \in Nat /\ clock \in Nat /\ votingPeriod \in Nat
      /\ prop[p].snapshot + votingPeriod < clock
  BY Periods DEF ProposalsOK, ProposalOK, Closed
<1>2. prop[p].snapshot # clock
  BY <1>1
<1>3. past'[p] = IF prop[p].stage # "none" /\ prop[p].snapshot = clock
                 THEN [bal |-> balance, del |-> delegatee] ELSE past[p]
  BY DEF NextBlock
<1> QED
  BY <1>2, <1>3

LEMMA BlockKeeps ==
  ASSUME ProposalsOK, NextBlock
  PROVE  ProposalsOK'
<1>0. /\ prop' = prop /\ clock' = clock + 1 /\ clock \in Nat
      /\ DOMAIN prop = Proposals /\ DOMAIN past' = Proposals
  BY DEF NextBlock, ProposalsOK
<1>1. ASSUME NEW p \in Proposals PROVE ProposalOK(p)'
  <2>1. CASE Closed(p)
    BY <1>0, <2>1, BlockKeepsPast, OthersKept
  <2>2. CASE ~Closed(p)
    <3>1. ProposalOK(p) /\ prop[p].eta = 0
      BY <2>2 DEF ProposalsOK, ProposalOK
    <3>2. AlwaysCritical(p)' = AlwaysCritical(p)
      BY DEF AlwaysCritical
    <3> QED
      BY <1>0, <3>1, <3>2 DEF ProposalOK
  <2> QED
    BY <2>1, <2>2
<1> QED
  BY <1>0, <1>1 DEF ProposalsOK

\* Wrapping, moving and delegating votes, and stuttering, touch no proposal.
LEMMA StillKeeps ==
  ASSUME ProposalsOK, UNCHANGED governorState
  PROVE  ProposalsOK'
<1>0. prop' = prop /\ past' = past /\ clock' = clock
  BY DEF governorState
<1>1. ASSUME NEW p \in Proposals PROVE ProposalOK(p)'
  BY <1>0, OthersKept
<1> QED
  BY <1>0, <1>1 DEF ProposalsOK

LEMMA NextKeeps == ProposalsOK /\ [GovernorNext]_governorVars => ProposalsOK'
<1> SUFFICES ASSUME ProposalsOK, [GovernorNext]_governorVars PROVE ProposalsOK'
  OBVIOUS
<1>1. ASSUME NEW q \in Proposals, Propose(q) PROVE ProposalsOK'
  BY <1>1, ProposeKeeps
<1>2. ASSUME NEW q \in Proposals, Cancel(q) PROVE ProposalsOK'
  BY <1>2, CancelKeeps
<1>3. ASSUME NEW q \in Proposals, Queue(q) PROVE ProposalsOK'
  BY <1>3, QueueKeeps
<1>4. ASSUME NEW q \in Proposals, Execute(q) PROVE ProposalsOK'
  BY <1>4, ExecuteKeeps
<1>5. ASSUME NEW q \in Proposals, NEW a \in Accounts,
             NEW support \in {"for", "against", "abstain"},
             CastVote(q, a, support)
      PROVE  ProposalsOK'
  BY <1>5, CastVoteKeeps
<1>6. CASE NextBlock
  BY <1>6, BlockKeeps
<1>7. CASE UNCHANGED governorState
  BY <1>7, StillKeeps
<1>8. CASE UNCHANGED governorVars
  BY <1>7, <1>8 DEF governorVars
<1> QED
  BY <1>1, <1>2, <1>3, <1>4, <1>5, <1>6, <1>7, <1>8 DEF GovernorNext

\* GembaGovernor.sol 28-32, 44-50 and 132-147: whatever was flagged, tuned or
\* bundled, no call to the governor or the timelock, no release and no upgrade
\* is executed without the critical quorum and share of votes, through the
\* governor or directly at the timelock.
THEOREM CriticalBarHolds == GovernorSpec => []CriticalNeedsCriticalBar
<1>1. ProposalsOK => CriticalNeedsCriticalBar
  <2> SUFFICES ASSUME ProposalsOK, NEW p \in Proposals,
                      prop[p].stage = "executed", AlwaysCritical(p)
               PROVE  /\ prop[p].for * 100
                           >= (prop[p].for + prop[p].against) * criticalSupermajority
                      /\ prop[p].for + prop[p].abstain
                           >= (Total(past[p].bal) * criticalQuorum) \div 100
    BY DEF CriticalNeedsCriticalBar, AlwaysCritical
  <2>1. prop[p].critical /\ Passes(p)
    BY DEF ProposalsOK, ProposalOK
  <2> QED
    BY <2>1 DEF Passes, QuorumReached, VoteSucceeded
<1> QED
  BY <1>1, InitProposals, NextKeeps, PTL DEF GovernorSpec

\* GembaGovernor.sol 132-147: once the voting on a critical proposal is over,
\* no step of anyone, not even a proposal that tunes the quorum or readmits an
\* excluded account, changes whether it passes.
THEOREM CriticalOutcomesAreFinal == GovernorSpec => CriticalOutcomeFinal
<1>1. ASSUME ProposalsOK, [GovernorNext]_governorVars, NEW p \in Proposals, prop[p].critical,
             State(p) \in {"succeeded", "queued", "defeated"}
      PROVE  Passes(p)' = Passes(p)
  <2>0. /\ prop[p].stage = "proposed" /\ Closed(p) /\ ProposalOK(p)
        /\ DOMAIN prop = Proposals
    BY <1>1, StateFacts DEF ProposalsOK
  <2>1. ASSUME past'[p] = past[p],
               \E q \in Proposals : q # p /\ \E v : prop' = [prop EXCEPT ![q] = v]
        PROVE  Passes(p)' = Passes(p)
    <3>1. prop'[p] = prop[p]
      BY <2>0, <2>1
    <3> QED
      BY <1>1, <2>1, <3>1, OutcomeKept
  <2>2. ASSUME NEW q \in Proposals,
               Propose(q) \/ Cancel(q)
                 \/ \E a \in Accounts, support \in {"for", "against", "abstain"} :
                      CastVote(q, a, support)
        PROVE  Passes(p)' = Passes(p)
    <3>1. CASE Propose(q)
      BY <2>0, <2>1, <3>1 DEF Propose
    <3>2. CASE Cancel(q)
      <4>1. ~Closed(q)
        BY <1>1, <3>2, StateFacts DEF Cancel
      <4> QED
        BY <2>0, <2>1, <3>2, <4>1 DEF Cancel
    <3>3. ASSUME NEW a \in Accounts, NEW support \in {"for", "against", "abstain"},
                 CastVote(q, a, support)
          PROVE  Passes(p)' = Passes(p)
      <4>1. ~Closed(q)
        BY <1>1, <3>3, StateFacts DEF CastVote
      <4>2. past' = past /\ \E v : prop' = [prop EXCEPT ![q] = v]
        BY <3>3 DEF CastVote
      <4> QED
        BY <2>0, <2>1, <4>1, <4>2
    <3> QED
      BY <2>2, <3>1, <3>2, <3>3
  <2>3. ASSUME NEW q \in Proposals, Queue(q) \/ Execute(q)
        PROVE  Passes(p)' = Passes(p)
    <3>1. CASE q # p
      BY <2>1, <2>3, <3>1 DEF Queue, Execute
    <3>2. CASE q = p
      <4>1. /\ DOMAIN prop[p] = Fields /\ past' = past
            /\ \/ prop' = [prop EXCEPT ![p].eta = clock + minDelay]
               \/ prop' = [prop EXCEPT ![p].stage = "executed"]
        BY <2>0, <2>3, <3>2 DEF Queue, Execute, ProposalOK
      <4>2. /\ prop'[p].critical = prop[p].critical
            /\ prop'[p].for = prop[p].for /\ prop'[p].against = prop[p].against
            /\ prop'[p].abstain = prop[p].abstain
        BY <2>0, <4>1 DEF Fields
      <4> QED
        BY <1>1, <4>1, <4>2, OutcomeKept
    <3> QED
      BY <3>1, <3>2
  <2>4. CASE NextBlock
    BY <1>1, <2>0, <2>4, BlockKeepsPast, OutcomeKept DEF NextBlock
  <2>5. CASE UNCHANGED governorState
    BY <1>1, <2>5, OutcomeKept DEF governorState
  <2> QED
    BY <1>1, <2>2, <2>3, <2>4, <2>5 DEF GovernorNext, governorVars
<1>2. ProposalsOK /\ [GovernorNext]_governorVars
        => [\A p \in Proposals :
             prop[p].critical /\ State(p) \in {"succeeded", "queued", "defeated"}
               => Passes(p)' = Passes(p)]_governorVars
  BY <1>1
<1> QED
  BY <1>2, InitProposals, NextKeeps, PTL DEF GovernorSpec, CriticalOutcomeFinal
-----------------------------------------------------------------------------
(* Executing a proposal: its calls run one after the other                 *)

\* The governance state a call changes is a record of four fields; votes of an
\* excluded account are delegated to nobody.
Governed == {"critical", "quorum", "excluded", "delegatee"}

Powerless(s) ==
  /\ s = [f \in Governed |-> s[f]]
  /\ s.excluded \subseteq Accounts
  /\ s.delegatee \in [Accounts -> Accounts \cup {Zero}]
  /\ \A a \in s.excluded : s.delegatee[a] = Zero

\* Each call keeps it so: who is excluded loses its delegate in the same step.
LEMMA EffectPowerless ==
  ASSUME NEW s, Powerless(s), NEW p \in Proposals, NEW k \in DOMAIN Calls[p]
  PROVE  Powerless(Effect(s, Calls[p][k]))
<1> DEFINE c == Calls[p][k]
<1>0. c.fn = "setExcluded" => c.who \in Accounts
  BY GovernorAssumption
<1> HIDE DEF c
<1>1. CASE c.fn = "setExcluded" /\ c.value = 1
  <2> DEFINE e == [s EXCEPT !.excluded = @ \cup {c.who}, !.delegatee[c.who] = Zero]
  <2>1. Effect(s, c) = e
    BY <1>1 DEF Effect, Excludes
  <2>2. /\ e = [f \in Governed |-> e[f]]
        /\ e.excluded = s.excluded \cup {c.who}
        /\ e.delegatee = [s.delegatee EXCEPT ![c.who] = Zero]
    BY DEF Powerless, Governed
  <2> HIDE DEF e
  <2>3. Powerless(e)
    BY <1>0, <1>1, <2>2 DEF Powerless
  <2> QED
    BY <2>1, <2>3 DEF c
<1>2. CASE c.fn = "setExcluded" /\ c.value # 1
  <2> DEFINE e == [s EXCEPT !.excluded = @ \ {c.who}]
  <2>1. Effect(s, c) = e
    BY <1>2 DEF Effect, Excludes
  <2>2. /\ e = [f \in Governed |-> e[f]]
        /\ e.excluded = s.excluded \ {c.who} /\ e.delegatee = s.delegatee
    BY DEF Powerless, Governed
  <2> HIDE DEF e
  <2>3. Powerless(e)
    BY <2>2 DEF Powerless
  <2> QED
    BY <2>1, <2>3 DEF c
<1>3. CASE c.fn # "setExcluded"
  <2> DEFINE e == Effect(s, c)
  <2>1. \/ e = s \/ \E v : e = [s EXCEPT !.critical = v]
        \/ \E v : e = [s EXCEPT !.quorum = v]
    BY <1>3 DEF Effect
  <2> HIDE DEF e
  <2>2. /\ e = [f \in Governed |-> e[f]]
        /\ e.excluded = s.excluded /\ e.delegatee = s.delegatee
    BY <2>1 DEF Powerless, Governed
  <2>3. Powerless(e)
    BY <2>2 DEF Powerless
  <2> QED
    BY <2>3 DEF c, e
<1> QED
  BY <1>1, <1>2, <1>3

\* A finite set of numbers has a largest one.
LEMMA MaxIn ==
  ASSUME NEW S \in SUBSET Nat, IsFiniteSet(S), S # {}
  PROVE  Max(S) \in S
<1> DEFINE Good == {T \in SUBSET S : T # {} => \E m \in T : \A y \in T : m >= y}
<1>1. {} \in Good
  OBVIOUS
<1>2. ASSUME NEW T \in SUBSET S, T # {}, \A x \in T : T \ {x} \in Good
      PROVE  T \in Good
  <2>1. PICK x \in T : TRUE
    BY <1>2
  <2>2. CASE T \ {x} = {}
    <3>1. \A y \in T : x >= y
      BY <2>2
    <3> QED
      BY <3>1
  <2>3. CASE T \ {x} # {}
    <3>1. PICK m \in T \ {x} : \A y \in T \ {x} : m >= y
      BY <1>2, <2>3
    <3>2. m >= x \/ x >= m
      OBVIOUS
    <3>3. \/ \A y \in T : m >= y
          \/ \A y \in T : x >= y
      BY <3>1, <3>2
    <3> QED
      BY <3>3
  <2> QED
    BY <2>2, <2>3
<1> HIDE DEF Good
<1>3. SUBSET S \subseteq Good
  BY <1>1, <1>2, SubsetInduction
<1>4. \E m \in S : \A y \in S : m >= y
  BY <1>3 DEF Good
<1> QED
  BY <1>4 DEF Max

\* g holds what the first calls of p, or any of them in order, make of s.
Runs(g, p, s, D) ==
  g = [T \in D |-> IF T = {} THEN s
                   ELSE Effect(g[T \ {Max(T)}], Calls[p][Max(T)])]

Run(p, s, S) == CHOOSE g : Runs(g, p, s, SUBSET S)

\* Such a function exists: for up to n calls, for every n.
LEMMA RunExists ==
  ASSUME NEW p, NEW s, NEW S \in SUBSET Nat, IsFiniteSet(S)
  PROVE  Runs(Run(p, s, S), p, s, SUBSET S)
<1> DEFINE Upto(n) == {T \in SUBSET S : Cardinality(T) <= n}
           Solved  == {n \in Nat : \E g : Runs(g, p, s, Upto(n))}
<1>1. \A T \in SUBSET S : /\ IsFiniteSet(T) /\ Cardinality(T) \in Nat
                          /\ Cardinality(T) <= Cardinality(S)
  BY FS_Subset, FS_CardinalityType
<1>2. 0 \in Solved
  <2>1. \A T \in Upto(0) : T = {}
    BY <1>1, FS_EmptySet
  <2>2. Runs([T \in Upto(0) |-> s], p, s, Upto(0))
    BY <2>1 DEF Runs
  <2> QED
    BY <2>2
<1>3. ASSUME NEW n \in Nat, n \in Solved PROVE n + 1 \in Solved
  <2>1. PICK g : Runs(g, p, s, Upto(n))
    BY <1>3
  <2> DEFINE h == [T \in Upto(n + 1) |-> IF T = {} THEN s
                    ELSE Effect(g[T \ {Max(T)}], Calls[p][Max(T)])]
  <2>2. \A T \in Upto(n) : T \in Upto(n + 1) /\ h[T] = g[T]
    <3>1. \A T \in Upto(n) : T \in Upto(n + 1)
      BY <1>1
    <3>2. g = [T \in Upto(n) |-> IF T = {} THEN s
                ELSE Effect(g[T \ {Max(T)}], Calls[p][Max(T)])]
      BY <2>1 DEF Runs
    <3>3. \A T \in Upto(n) :
            g[T] = IF T = {} THEN s
                   ELSE Effect(g[T \ {Max(T)}], Calls[p][Max(T)])
      BY <3>2
    <3> QED
      BY <3>1, <3>3
  <2>3. ASSUME NEW T \in Upto(n + 1), T # {} PROVE T \ {Max(T)} \in Upto(n)
    <3>1. Max(T) \in T
      <4>1. T \in SUBSET Nat /\ IsFiniteSet(T)
        BY <1>1
      <4> QED
        BY <2>3, <4>1, MaxIn
    <3>2. Cardinality(T \ {Max(T)}) = Cardinality(T) - 1
      BY <1>1, <3>1, FS_RemoveElement
    <3>3. T \in SUBSET S /\ Cardinality(T) \in Nat /\ Cardinality(T) <= n + 1
      BY <1>1
    <3>4. Cardinality(T \ {Max(T)}) <= n
      BY <3>2, <3>3
    <3>5. T \ {Max(T)} \in SUBSET S
      BY <3>3
    <3> QED
      BY <3>4, <3>5
  <2>4. \A T \in Upto(n + 1) :
          T # {} => h[T \ {Max(T)}] = g[T \ {Max(T)}]
    BY <2>2, <2>3
  <2>5. h = [T \in Upto(n + 1) |-> IF T = {} THEN s
              ELSE Effect(h[T \ {Max(T)}], Calls[p][Max(T)])]
    BY <2>4
  <2>6. Runs(h, p, s, Upto(n + 1))
    <3> HIDE DEF h
    <3> QED
      BY <2>5 DEF Runs
  <2>7. \E k : Runs(k, p, s, Upto(n + 1))
    <3> HIDE DEF h, Upto
    <3> QED
      BY <2>6
  <2> QED
    <3> HIDE DEF Upto
    <3> QED
      BY <2>7
<1>4. Cardinality(S) \in Solved
  <2> HIDE DEF Solved
  <2> QED
    BY <1>1, <1>2, <1>3, NatSetInduction
<1>5. Upto(Cardinality(S)) = SUBSET S
  BY <1>1
<1>6. \E g : Runs(g, p, s, SUBSET S)
  <2> HIDE DEF Upto
  <2> QED
    BY <1>4, <1>5
<1> QED
  BY <1>6 DEF Run

\* However many calls run, excluded accounts keep no delegate.
LEMMA CallsPowerless ==
  ASSUME NEW p \in Proposals, NEW s, Powerless(s)
  PROVE  Powerless(FoldLeft(Effect, s, Calls[p]))
<1> DEFINE S == DOMAIN Calls[p]
           g == Run(p, s, S)
           Good == {T \in SUBSET S : Powerless(g[T])}
<1>0. S = 1 .. Len(Calls[p]) /\ Len(Calls[p]) \in Nat
  BY GovernorAssumption
<1>1. IsFiniteSet(S) /\ S \subseteq Nat
  BY <1>0, FS_Interval
<1>2. Runs(g, p, s, SUBSET S)
  BY <1>1, RunExists
<1>3. FoldLeft(Effect, s, Calls[p]) = g[S]
  BY DEF FoldLeft, MapThenFoldSet, Run, Runs
<1> HIDE DEF g
<1>4. \A T \in SUBSET S :
        g[T] = IF T = {} THEN s
               ELSE Effect(g[T \ {Max(T)}], Calls[p][Max(T)])
  BY <1>2 DEF Runs
<1>5. {} \in Good
  BY <1>4
<1>6. ASSUME NEW T \in SUBSET S, T # {}, \A x \in T : T \ {x} \in Good
      PROVE  T \in Good
  <2>1. Max(T) \in T
    BY <1>1, <1>6, FS_Subset, MaxIn
  <2>2. Powerless(g[T \ {Max(T)}])
    BY <1>6, <2>1
  <2>3. Powerless(Effect(g[T \ {Max(T)}], Calls[p][Max(T)]))
    BY <2>1, <2>2, EffectPowerless
  <2>4. Powerless(g[T])
    BY <1>4, <1>6, <2>3
  <2> QED
    BY <2>4
<1> HIDE DEF Good
<1>7. SUBSET S \subseteq Good
  BY <1>1, <1>5, <1>6, SubsetInduction
<1>8. Powerless(g[S])
  BY <1>7 DEF Good
<1> QED
  BY <1>3, <1>8
-----------------------------------------------------------------------------
(* Excluded accounts have no say                                           *)

VotesOK ==
  /\ balance \in [Accounts -> Nat]
  /\ delegatee \in [Accounts -> Accounts \cup {Zero}] /\ excluded \subseteq Accounts
  /\ \A a \in excluded : delegatee[a] = Zero

LEMMA InitVotes == GovernorInit => VotesOK
<1> SUFFICES ASSUME GovernorInit PROVE VotesOK
  OBVIOUS
<1>1. /\ balance = InitBalance /\ excluded = InitExcluded
      /\ delegatee = [a \in Accounts |-> IF InitBalance[a] > 0 THEN a ELSE Zero]
  BY DEF GovernorInit, VotesInit
<1>2. ASSUME NEW a \in excluded PROVE delegatee[a] = Zero
  <2>1. a \in Accounts /\ InitBalance[a] = 0
    BY <1>1, VotesAssumption
  <2> QED
    BY <1>1, <2>1
<1> QED
  BY <1>1, <1>2, VotesAssumption DEF VotesOK

LEMMA MoveVotes ==
  ASSUME VotesOK, Move
  PROVE  VotesOK'
<1>0. VoteAmounts \subseteq Nat
  BY VotesAssumption
<1>1. ASSUME NEW a \in Accounts, DepositFor(a) PROVE VotesOK'
  BY <1>0, <1>1 DEF VotesOK, DepositFor, Moving
<1>2. ASSUME NEW a \in Accounts, WithdrawTo(a) PROVE VotesOK'
  <2>1. PICK n \in VoteAmounts : /\ n <= balance[a]
                             /\ balance' = [balance EXCEPT ![a] = @ - n]
    BY <1>2 DEF WithdrawTo
  <2>2. balance[a] - n \in Nat
    BY <1>0, <2>1 DEF VotesOK
  <2> QED
    BY <1>2, <2>1, <2>2 DEF VotesOK, WithdrawTo, Moving
<1>3. ASSUME NEW a \in Accounts, NEW b \in Accounts \cup {Zero}, Delegate(a, b)
      PROVE  VotesOK'
  BY <1>3 DEF VotesOK, Delegate, Moving
<1>4. ASSUME NEW a \in Accounts, NEW b \in Accounts \ {a}, Transfer(a, b)
      PROVE  VotesOK'
  <2>1. PICK n \in VoteAmounts :
           /\ n <= balance[a]
           /\ balance' = [[balance EXCEPT ![a] = @ - n] EXCEPT ![b] = @ + n]
    BY <1>4 DEF Transfer
  <2>2. balance[a] - n \in Nat /\ balance[b] + n \in Nat
    BY <1>0, <2>1 DEF VotesOK
  <2>3. balance' \in [Accounts -> Nat]
    BY <2>1, <2>2 DEF VotesOK
  <2> QED
    BY <1>4, <2>3 DEF VotesOK, Transfer, Moving
<1> QED
  BY <1>1, <1>2, <1>3, <1>4 DEF Move

LEMMA ExecuteVotes ==
  ASSUME VotesOK, NEW p \in Proposals, Execute(p)
  PROVE  VotesOK'
<1> DEFINE s == [critical |-> criticalTarget, quorum |-> quorumNumerator,
                 excluded |-> excluded, delegatee |-> delegatee]
<1>1. Powerless(s)
  BY DEF VotesOK, Powerless, Governed
<1>2. After(p) = FoldLeft(Effect, s, Calls[p])
  BY DEF After
<1> HIDE DEF s
<1>3. Powerless(After(p))
  BY <1>1, <1>2, CallsPowerless
<1>4. /\ balance' = balance
      /\ excluded' = After(p).excluded /\ delegatee' = After(p).delegatee
  BY DEF Execute
<1> QED
  BY <1>3, <1>4 DEF VotesOK, Powerless

LEMMA NextVotes == VotesOK /\ [GovernorNext]_governorVars => VotesOK'
<1> SUFFICES ASSUME VotesOK, [GovernorNext]_governorVars PROVE VotesOK'
  OBVIOUS
<1>1. CASE UNCHANGED votesVars
  BY <1>1 DEF votesVars, VotesOK
<1>2. CASE Move
  BY <1>2, MoveVotes
<1>3. ASSUME NEW p \in Proposals, Execute(p) PROVE VotesOK'
  BY <1>3, ExecuteVotes
<1> QED
  BY <1>1, <1>2, <1>3, ZenonT(60)
  DEF GovernorNext, governorVars, Propose, Cancel, Queue, CastVote, NextBlock

\* The power of all accounts is the balance of those who delegate to one; the
\* excluded do not.
LEMMA PowerIsOutside == VotesOK => ExcludedPowerless
<1> SUFFICES ASSUME VotesOK PROVE ExcludedPowerless
  OBVIOUS
<1> DEFINE power == [a \in Accounts |-> VotesOf(balance, delegatee, a)]
           held == [a \in Accounts |->
                     SumFunctionOnSet(balance, {h \in Accounts : delegatee[h] = a})]
           Voting == {h \in Accounts : delegatee[h] \in Accounts}
<1>1. IsFiniteSet(Accounts) /\ Zero \notin Accounts
  BY VotesAssumption
<1>2. \A a \in Accounts : balance[a] \in Nat /\ balance[a] \in Int
  BY DEF VotesOK
<1>3. \A a \in Accounts : held[a] \in Nat
  <2> SUFFICES ASSUME NEW a \in Accounts PROVE held[a] \in Nat
    OBVIOUS
  <2> DEFINE F == {h \in Accounts : delegatee[h] = a}
  <2>1. F \in SUBSET Accounts
    OBVIOUS
  <2>2. held[a] = SumFunctionOnSet(balance, F)
    OBVIOUS
  <2> HIDE DEF F, held
  <2> QED
    BY <1>1, <1>2, <2>1, <2>2, SumPart
<1>4. \A a \in Accounts :
        power[a] \in Int /\ held[a] \in Int /\ power[a] <= held[a]
  <2>1. \A a \in Accounts : power[a] = IF a \in excluded THEN 0 ELSE held[a]
    BY DEF VotesOf, Delegated
  <2> HIDE DEF power, held
  <2> QED
    BY <1>3, <2>1
<1>5. SumFunctionOnSet(held, Accounts) = SumFunctionOnSet(balance, Voting)
  BY <1>1, <1>2, SumFibres
<1>6. Voting \in SUBSET (Accounts \ excluded)
  BY <1>1 DEF VotesOK
<1>7. IsFiniteSet(Accounts \ excluded)
  BY <1>1, FS_Subset
<1> HIDE DEF power, held, Voting
<1>8. /\ SumFunctionOnSet(power, Accounts) \in Int
      /\ SumFunctionOnSet(held, Accounts) \in Int
      /\ SumFunctionOnSet(power, Accounts) <= SumFunctionOnSet(held, Accounts)
  BY <1>1, <1>4, SumLe
<1>9. /\ SumFunctionOnSet(balance, Voting) \in Nat
      /\ SumFunctionOnSet(balance, Accounts \ excluded) \in Nat
      /\ SumFunctionOnSet(balance, Voting)
           <= SumFunctionOnSet(balance, Accounts \ excluded)
  <2>1. \A a \in Accounts \ excluded : balance[a] \in Nat
    BY <1>2
  <2> DEFINE Rest == Accounts \ excluded
  <2>2. IsFiniteSet(Rest) /\ Voting \in SUBSET Rest
        /\ \A a \in Rest : balance[a] \in Nat
    BY <1>6, <1>7, <2>1
  <2> HIDE DEF Rest
  <2>3. /\ SumFunctionOnSet(balance, Voting) \in Nat
        /\ SumFunctionOnSet(balance, Rest) \in Nat
        /\ SumFunctionOnSet(balance, Voting) <= SumFunctionOnSet(balance, Rest)
    BY <2>2, SumPart
  <2> QED
    BY <2>3 DEF Rest
<1>10. SumFunctionOnSet(power, Accounts)
         <= SumFunctionOnSet(balance, Accounts \ excluded)
  BY <1>5, <1>8, <1>9
<1> QED
  BY <1>10 DEF ExcludedPowerless, power

\* GembaVotes.sol 80-112: whatever is wrapped, moved, delegated, excluded and
\* readmitted, and however many calls a proposal makes, the power that can
\* vote never exceeds what the accounts hold that are not excluded.
THEOREM ExcludedStayPowerless == GovernorSpec => []ExcludedPowerless
  BY InitVotes, NextVotes, PowerIsOutside, PTL DEF GovernorSpec
-----------------------------------------------------------------------------
(* No vote counts twice                                                    *)

\* The holders whose votes at the snapshot have been cast.
Backing(p) == {h \in Accounts : past[p].del[h] \in prop[p].voted}

\* What has been counted is backed by votes of the snapshot, each behind the
\* one account its holder had delegated to; nothing is counted before.
TallyOK(p) ==
  /\ past[p].bal \in [Accounts -> Nat]
  /\ past[p].del \in [Accounts -> Accounts \cup {Zero}]
  /\ prop[p].voted \subseteq Accounts
  /\ prop[p].for \in Nat /\ prop[p].against \in Nat /\ prop[p].abstain \in Nat
  /\ prop[p].for + prop[p].against + prop[p].abstain
       <= SumFunctionOnSet(past[p].bal, Backing(p))
  /\ prop[p].voted # {} => prop[p].snapshot < clock

TalliesOK == \A p \in Proposals : TallyOK(p)

\* Sums of the balances of a snapshot, over any of the accounts.
LEMMA PastSums ==
  ASSUME NEW b \in [Accounts -> Nat], NEW S \in SUBSET Accounts
  PROVE  /\ SumFunctionOnSet(b, S) \in Nat /\ Total(b) \in Nat
         /\ SumFunctionOnSet(b, S) <= Total(b)
<1>1. IsFiniteSet(Accounts) /\ \A a \in Accounts : b[a] \in Nat
  BY VotesAssumption
<1> QED
  BY <1>1, SumPart DEF Total

LEMMA InitTallies == GovernorInit => TalliesOK
<1> SUFFICES ASSUME GovernorInit, NEW p \in Proposals PROVE TallyOK(p)
  BY DEF TalliesOK
<1>1. prop[p] = NotProposed /\ past[p] = NoPast
  BY DEF GovernorInit
<1>2. /\ past[p].bal \in [Accounts -> Nat]
      /\ past[p].del \in [Accounts -> Accounts \cup {Zero}]
      /\ prop[p].voted = {} /\ prop[p].for = 0 /\ prop[p].against = 0
      /\ prop[p].abstain = 0
  BY <1>1 DEF NotProposed, NoPast
<1>3. SumFunctionOnSet(past[p].bal, Backing(p)) \in Nat
  BY <1>2, PastSums DEF Backing
<1> QED
  BY <1>2, <1>3 DEF TallyOK

\* A proposal whose votes and snapshot do not change.
LEMMA TallyKept ==
  ASSUME NEW p \in Proposals, TallyOK(p), past'[p] = past[p],
         prop'[p].voted = prop[p].voted, prop'[p].for = prop[p].for,
         prop'[p].against = prop[p].against, prop'[p].abstain = prop[p].abstain,
         prop'[p].snapshot = prop[p].snapshot,
         prop[p].voted # {} /\ prop[p].snapshot < clock
           => prop'[p].snapshot < clock'
  PROVE  TallyOK(p)'
  BY DEF TallyOK, Backing

\* What a fresh proposal counts is nothing.
LEMMA NothingCounted ==
  ASSUME NEW p \in Proposals,
         past'[p].bal \in [Accounts -> Nat],
         past'[p].del \in [Accounts -> Accounts \cup {Zero}],
         prop'[p].voted = {}, prop'[p].for = 0, prop'[p].against = 0,
         prop'[p].abstain = 0
  PROVE  TallyOK(p)'
<1>1. SumFunctionOnSet(past'[p].bal, Backing(p)') \in Nat
  BY PastSums DEF Backing
<1> QED
  BY <1>1 DEF TallyOK

\* A vote counts at most what the accounts held that had delegated to the
\* voter, and none of them is behind another one.
LEMMA WeightBacked ==
  ASSUME NEW q \in Proposals, TallyOK(q), NEW a \in Accounts, a \notin prop[q].voted
  PROVE  LET b == past[q].bal
             F == {h \in Accounts : past[q].del[h] \in prop[q].voted \cup {a}}
         IN  /\ Weight(q, a) \in Nat
             /\ SumFunctionOnSet(b, Backing(q)) \in Nat
             /\ SumFunctionOnSet(b, F) \in Nat
             /\ SumFunctionOnSet(b, Backing(q)) + Weight(q, a)
                  <= SumFunctionOnSet(b, F)
<1> DEFINE b == past[q].bal
           F == {h \in Accounts : past[q].del[h] \in prop[q].voted \cup {a}}
           G == {h \in Accounts : past[q].del[h] = a}
           B == Backing(q)
<1>1. b \in [Accounts -> Nat] /\ IsFiniteSet(Accounts)
  BY VotesAssumption DEF TallyOK
<1>2. B \in SUBSET Accounts /\ G \in SUBSET Accounts /\ B \cup G = F /\ B \cap G = {}
  BY DEF Backing
<1>3. Weight(q, a) = 0 \/ Weight(q, a) = SumFunctionOnSet(b, G)
  BY DEF Weight, VotesOf, Delegated
<1> HIDE DEF b, F, G, B
<1>4. IsFiniteSet(B) /\ IsFiniteSet(G)
  BY <1>1, <1>2, FS_Subset
<1>5. SumFunctionOnSet(b, G) \in Nat /\ SumFunctionOnSet(b, B) \in Nat
  BY <1>1, <1>2, PastSums
<1>6. \A h \in B \cup G : b[h] \in Int
  BY <1>1, <1>2
<1>7. SumFunctionOnSet(b, F) = SumFunctionOnSet(b, B) + SumFunctionOnSet(b, G)
  BY <1>2, <1>4, <1>6, SumUnion
<1>8. /\ Weight(q, a) \in Nat
      /\ SumFunctionOnSet(b, B) \in Nat
      /\ SumFunctionOnSet(b, F) \in Nat
      /\ SumFunctionOnSet(b, B) + Weight(q, a) <= SumFunctionOnSet(b, F)
  BY <1>3, <1>5, <1>7
<1> QED
  BY <1>8 DEF b, F, B

LEMMA CastVoteTally ==
  ASSUME ProposalsOK, TalliesOK, NEW q \in Proposals, NEW a \in Accounts,
         NEW support \in {"for", "against", "abstain"}, CastVote(q, a, support)
  PROVE  TallyOK(q)'
<1> DEFINE F == {h \in Accounts : past[q].del[h] \in prop[q].voted \cup {a}}
           w == Weight(q, a)
           r == prop[q]
<1>0. /\ prop' = [prop EXCEPT ![q].voted = @ \cup {a},
                              ![q][support] = @ + Weight(q, a)]
      /\ past' = past /\ clock' = clock /\ a \notin r.voted
      /\ State(q) = "active" /\ DOMAIN prop = Proposals
      /\ ProposalOK(q) /\ TallyOK(q)
  BY DEF CastVote, ProposalsOK, TalliesOK
<1>1. r.stage = "proposed" /\ r.snapshot < clock
  <2>1. r.stage = "proposed"
    BY <1>0, StateFacts
  <2>2. r.snapshot \in Nat /\ clock \in Nat
    BY <1>0 DEF ProposalsOK, ProposalOK
  <2>3. ~(r.snapshot >= clock)
    BY <1>0, <2>1 DEF State
  <2> QED
    BY <2>1, <2>2, <2>3
<1>2. /\ prop'[q].voted = r.voted \cup {a}
      /\ prop'[q].snapshot = r.snapshot
      /\ \A f \in {"for", "against", "abstain"} :
           prop'[q][f] = IF f = support THEN r[f] + w ELSE r[f]
  BY <1>0 DEF ProposalOK, Fields
<1>3. /\ w \in Nat /\ SumFunctionOnSet(past[q].bal, Backing(q)) \in Nat
      /\ SumFunctionOnSet(past[q].bal, F) \in Nat
      /\ SumFunctionOnSet(past[q].bal, Backing(q)) + w
           <= SumFunctionOnSet(past[q].bal, F)
  BY <1>0, WeightBacked
<1>4. Backing(q)' = F
  BY <1>0, <1>2 DEF Backing
<1>5. SumFunctionOnSet(past'[q].bal, Backing(q)') = SumFunctionOnSet(past[q].bal, F)
  BY <1>0, <1>4
<1> HIDE DEF F, w, r
<1>6. /\ r.for \in Nat /\ r.against \in Nat /\ r.abstain \in Nat
      /\ r.for + r.against + r.abstain
           <= SumFunctionOnSet(past[q].bal, Backing(q))
      /\ r.voted \subseteq Accounts
  BY <1>0 DEF TallyOK, r
<1>7. /\ prop'[q].for \in Nat /\ prop'[q].against \in Nat /\ prop'[q].abstain \in Nat
      /\ prop'[q].for + prop'[q].against + prop'[q].abstain
           = r.for + r.against + r.abstain + w
  <2>1. support = "for" \/ support = "against" \/ support = "abstain"
    OBVIOUS
  <2>2. /\ prop'[q].for = IF "for" = support THEN r.for + w ELSE r.for
        /\ prop'[q].against = IF "against" = support THEN r.against + w ELSE r.against
        /\ prop'[q].abstain = IF "abstain" = support THEN r.abstain + w ELSE r.abstain
    BY <1>2
  <2> QED
    BY <1>3, <1>6, <2>1, <2>2
<1>8. prop'[q].for + prop'[q].against + prop'[q].abstain
        <= SumFunctionOnSet(past'[q].bal, Backing(q)')
  BY <1>3, <1>5, <1>6, <1>7
<1> QED
  BY <1>0, <1>1, <1>2, <1>6, <1>7, <1>8 DEF TallyOK

\* The snapshot is taken at the end of a block in which nobody could vote yet.
LEMMA BlockTally ==
  ASSUME ProposalsOK, VotesOK, TalliesOK, NextBlock, NEW p \in Proposals
  PROVE  TallyOK(p)'
<1>0. /\ prop' = prop /\ clock' = clock + 1 /\ clock \in Nat /\ prop[p].snapshot \in Nat
      /\ TallyOK(p)
      /\ past'[p] = IF prop[p].stage # "none" /\ prop[p].snapshot = clock
                    THEN [bal |-> balance, del |-> delegatee] ELSE past[p]
  BY DEF NextBlock, ProposalsOK, ProposalOK, TalliesOK
<1>1. CASE past'[p] = past[p]
  BY <1>0, <1>1, TallyKept
<1>2. CASE past'[p] # past[p]
  <2>1. /\ past'[p] = [bal |-> balance, del |-> delegatee]
        /\ prop[p].snapshot = clock
    BY <1>0, <1>2
  <2>2. prop[p].voted = {}
    BY <1>0, <2>1 DEF TallyOK
  <2>3. SumFunctionOnSet(past[p].bal, Backing(p)) = 0
    <3>1. Backing(p) = {}
      BY <2>2 DEF Backing
    <3> QED
      BY <3>1, SumEmpty
  <2>4. prop[p].for = 0 /\ prop[p].against = 0 /\ prop[p].abstain = 0
    BY <1>0, <2>3 DEF TallyOK
  <2>5. /\ past'[p].bal \in [Accounts -> Nat]
        /\ past'[p].del \in [Accounts -> Accounts \cup {Zero}]
    BY <2>1 DEF VotesOK
  <2> QED
    BY <1>0, <2>2, <2>4, <2>5, NothingCounted
<1> QED
  BY <1>1, <1>2

LEMMA NextTallies ==
  ProposalsOK /\ VotesOK /\ TalliesOK /\ [GovernorNext]_governorVars => TalliesOK'
<1> SUFFICES ASSUME ProposalsOK, VotesOK, TalliesOK, [GovernorNext]_governorVars,
                    NEW p \in Proposals
             PROVE  TallyOK(p)'
  BY DEF TalliesOK
<1>0. /\ TallyOK(p) /\ DOMAIN prop = Proposals
      /\ \A q \in Proposals : DOMAIN prop[q] = Fields
  BY DEF TalliesOK, ProposalsOK, ProposalOK
<1>1. ASSUME past' = past, clock' = clock, prop'[p] = prop[p] PROVE TallyOK(p)'
  BY <1>0, <1>1, TallyKept
<1>2. ASSUME NEW q \in Proposals, Propose(q) PROVE TallyOK(p)'
  <2>0. /\ past' = past /\ clock' = clock
        /\ prop' = [prop EXCEPT ![q] =
             [NotProposed EXCEPT !.stage = "proposed",
                !.snapshot = clock + votingDelay, !.critical = TierOf(q)]]
    BY <1>2 DEF Propose
  <2>1. CASE p = q
    <3>1. /\ prop'[p].voted = {} /\ prop'[p].for = 0 /\ prop'[p].against = 0
          /\ prop'[p].abstain = 0
      BY <1>0, <2>0, <2>1 DEF NotProposed
    <3>2. /\ past'[p].bal \in [Accounts -> Nat]
          /\ past'[p].del \in [Accounts -> Accounts \cup {Zero}]
      BY <1>0, <2>0 DEF TallyOK
    <3> QED
      BY <3>1, <3>2, NothingCounted
  <2>2. CASE p # q
    BY <1>0, <1>1, <2>0, <2>2
  <2> QED
    BY <2>1, <2>2
<1>3. ASSUME NEW q \in Proposals, Cancel(q) \/ Queue(q) \/ Execute(q)
      PROVE  TallyOK(p)'
  <2>0. /\ past' = past /\ clock' = clock
        /\ \E f \in {"stage", "eta"} : \E v : prop' = [prop EXCEPT ![q][f] = v]
    BY <1>3 DEF Cancel, Queue, Execute
  <2>1. CASE p = q
    <3>1. /\ prop'[p].voted = prop[p].voted /\ prop'[p].for = prop[p].for
          /\ prop'[p].against = prop[p].against
          /\ prop'[p].abstain = prop[p].abstain
          /\ prop'[p].snapshot = prop[p].snapshot
      BY <1>0, <2>0, <2>1 DEF Fields
    <3> QED
      BY <1>0, <2>0, <3>1, TallyKept
  <2>2. CASE p # q
    BY <1>0, <1>1, <2>0, <2>2
  <2> QED
    BY <2>1, <2>2
<1>4. ASSUME NEW q \in Proposals, NEW a \in Accounts,
             NEW support \in {"for", "against", "abstain"},
             CastVote(q, a, support)
      PROVE  TallyOK(p)'
  <2>1. CASE p = q
    BY <1>4, <2>1, CastVoteTally
  <2>2. CASE p # q
    BY <1>0, <1>1, <1>4, <2>2 DEF CastVote
  <2> QED
    BY <2>1, <2>2
<1>5. CASE NextBlock
  BY <1>5, BlockTally
<1>6. CASE UNCHANGED governorState
  BY <1>1, <1>6 DEF governorState
<1> QED
  BY <1>2, <1>3, <1>4, <1>5, <1>6 DEF GovernorNext, governorVars

\* GembaVotes.sol 12-14: moving, delegating, excluding and readmitting in the
\* middle of a vote never makes more votes than there were at the snapshot.
THEOREM NobodyVotesTwice == GovernorSpec => []NoVoteTwice
<1>1. TalliesOK => NoVoteTwice
  <2> SUFFICES ASSUME TalliesOK, NEW p \in Proposals
               PROVE  prop[p].for + prop[p].against + prop[p].abstain
                        <= Total(past[p].bal)
    BY DEF NoVoteTwice
  <2>1. /\ TallyOK(p) /\ past[p].bal \in [Accounts -> Nat]
        /\ Backing(p) \in SUBSET Accounts
    BY DEF TalliesOK, TallyOK, Backing
  <2>2. /\ SumFunctionOnSet(past[p].bal, Backing(p)) \in Nat
        /\ Total(past[p].bal) \in Nat
        /\ SumFunctionOnSet(past[p].bal, Backing(p)) <= Total(past[p].bal)
    BY <2>1, PastSums
  <2> QED
    BY <2>1, <2>2 DEF TallyOK
<1> QED
  BY <1>1, InitProposals, NextKeeps, InitVotes, NextVotes, InitTallies,
     NextTallies, PTL DEF GovernorSpec
================================================================================
