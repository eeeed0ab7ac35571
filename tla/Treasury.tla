------------------------------ MODULE Treasury ------------------------------
(***************************************************************************)
(* The reserves of the treasury under their two authorities: the owner     *)
(* (the timelock, so whatever governance executes) and the pauser (the     *)
(* EmergencyPause guardians).  Every reserve is a BaseReserve; one of them *)
(* is the PublicReserve, whose granter may spend within a cap per grant    *)
(* and a cap per window.                                                   *)
(***************************************************************************)
EXTENDS EmergencyPause, Functions

CONSTANTS
  Public,         \* the PublicReserve, one of the targets
  Limits,         \* window limits governance may set
  GrantCaps,      \* caps per grant
  Amounts,        \* amounts granted, released and funded
  MaxBal,         \* bound: balance of a reserve
  MaxTime         \* bound: seconds explored

\* setEpochLimit and initialize refuse a cap without a window.
LimitOK(l) == l.cap # 0 => l.len # 0

ASSUME TreasuryAssumption ==
  /\ Public \in Targets
  /\ Limits \subseteq [cap: Nat, len: Nat]
  /\ GrantCaps \subseteq Nat /\ Amounts \subseteq Nat \ {0}
  /\ MaxBal \in Nat /\ MaxTime \in Nat

VARIABLES
  bal, paused, pauser,    \* of each reserve
  granter, perGrantCap,   \* of the PublicReserve
  epoch,                  \* its window: cap, len, start, spent
  now,                    \* block time
  granted                 \* history: granted in each second under this limit

reserveVars == <<bal, paused, pauser>>
publicVars  == <<granter, perGrantCap, epoch, granted>>
vars == <<guardVars, reserveVars, publicVars, now>>

Seconds == 0 .. MaxTime
NothingYet == [s \in Seconds |-> 0]

Epoch(l, start, spent) ==
  [cap |-> l.cap, len |-> l.len, start |-> start, spent |-> spent]

TreasuryInit ==
  /\ Init
  /\ bal = [t \in Targets |-> MaxBal]
  /\ paused = [t \in Targets |-> FALSE]
  /\ pauser = [t \in Targets |-> "EmergencyPause"]
  /\ granter = "granter"
  /\ perGrantCap \in GrantCaps
  /\ \E l \in Limits : LimitOK(l) /\ epoch = Epoch(l, 0, 0)
  /\ now = 0
  /\ granted = NothingYet

-----------------------------------------------------------------------------
(* BaseReserve                                                             *)

SetPaused(t, value) ==
  /\ paused[t] # value
  /\ paused' = [paused EXCEPT ![t] = value]
  /\ UNCHANGED <<bal, pauser>>

\* A guardian confirms; the last one needed calls the target, and a target
\* that refuses (already so, or another pauser) reverts the confirmation.
GuardianConfirms(g, t, op) ==
  /\ Confirm(g, t, op)
  /\ IF Reaches(t, op)
     THEN pauser[t] = "EmergencyPause" /\ SetPaused(t, op = "pause")
     ELSE UNCHANGED reserveVars
  /\ UNCHANGED <<publicVars, now>>

\* A pauser that governance put in the place of EmergencyPause.
OtherPauser(t) ==
  /\ pauser[t] = "other"
  /\ SetPaused(t, ~paused[t])
  /\ UNCHANGED <<guardVars, publicVars, now>>

OwnerUnpause(t) ==
  /\ SetPaused(t, FALSE)
  /\ UNCHANGED <<guardVars, publicVars, now>>

SetPauser(t) ==
  /\ \E p \in {"EmergencyPause", "other"} : pauser' = [pauser EXCEPT ![t] = p]
  /\ UNCHANGED <<guardVars, bal, paused, publicVars, now>>

\* receive
Fund(t) ==
  /\ \E a \in Amounts : bal[t] + a <= MaxBal /\ bal' = [bal EXCEPT ![t] = @ + a]
  /\ UNCHANGED <<guardVars, paused, pauser, publicVars, now>>

\* The one exit of every reserve; paying oneself nothing reverts.
Pays(t, a) ==
  /\ ~paused[t] /\ a <= bal[t]
  /\ bal' = [bal EXCEPT ![t] = @ - a]
  /\ UNCHANGED <<paused, pauser>>

\* release, by the owner: no cap.
Release(t) ==
  /\ \E a \in Amounts : Pays(t, a)
  /\ UNCHANGED <<guardVars, publicVars, now>>

-----------------------------------------------------------------------------
(* PublicReserve                                                           *)

Expired == now >= epoch.start + epoch.len

\* Changed: the new window is not recorded.
OpenWindowStale ==
  IF Expired THEN [epoch EXCEPT !.spent = 0] ELSE epoch

\* The window a grant of this second falls into.
OpenWindow ==
  IF Expired THEN [epoch EXCEPT !.start = now, !.spent = 0] ELSE epoch

Charge(a) ==
  /\ OpenWindow.spent + a <= OpenWindow.cap
  /\ epoch' = [OpenWindow EXCEPT !.spent = @ + a]

Grant(by) ==
  /\ by \in {granter, "owner"}
  /\ \E a \in Amounts :
       /\ a <= perGrantCap
       /\ IF epoch.cap # 0
          THEN Charge(a) /\ granted' = [granted EXCEPT ![now] = @ + a]
          ELSE UNCHANGED <<epoch, granted>>
       /\ Pays(Public, a)
  /\ UNCHANGED <<guardVars, granter, perGrantCap, now>>

SetEpochLimit ==
  /\ \E l \in Limits : LimitOK(l) /\ epoch' = Epoch(l, now, 0)
  /\ granted' = NothingYet
  /\ UNCHANGED <<guardVars, reserveVars, granter, perGrantCap, now>>

SetPerGrantCap ==
  /\ perGrantCap' \in GrantCaps
  /\ UNCHANGED <<guardVars, reserveVars, granter, epoch, granted, now>>

\* "nobody" is the zero address.
SetGranter ==
  /\ granter' \in {"granter", "nobody"}
  /\ UNCHANGED <<guardVars, reserveVars, perGrantCap, epoch, granted, now>>

-----------------------------------------------------------------------------
Tick ==
  /\ now < MaxTime
  /\ now' = now + 1
  /\ UNCHANGED <<guardVars, reserveVars, publicVars>>

ConfigureGuardians ==
  Configure /\ UNCHANGED <<reserveVars, publicVars, now>>

TreasuryNext ==
  \/ \E g \in People, t \in Targets, op \in Ops : GuardianConfirms(g, t, op)
  \/ ConfigureGuardians
  \/ \E t \in Targets :
       OtherPauser(t) \/ OwnerUnpause(t) \/ SetPauser(t) \/ Fund(t) \/ Release(t)
  \/ \E by \in {"granter", "owner"} : Grant(by)
  \/ SetEpochLimit \/ SetPerGrantCap \/ SetGranter
  \/ Tick

TreasurySpec == TreasuryInit /\ [][TreasuryNext]_vars

-----------------------------------------------------------------------------
(* Properties                                                              *)

TypeOK ==
  /\ GuardTypeOK
  /\ bal \in [Targets -> 0 .. MaxBal]
  /\ paused \in [Targets -> BOOLEAN]
  /\ pauser \in [Targets -> {"EmergencyPause", "other"}]
  /\ granter \in {"granter", "nobody"} /\ perGrantCap \in GrantCaps
  /\ epoch \in [cap: Nat, len: Nat, start: Seconds, spent: Nat]
  /\ now \in Seconds /\ granted \in [Seconds -> Nat]

\* EmergencyPause.sol 88-109: a reserve under the guardians is paused only by
\* threshold-many members of the guardian set as it is at that moment, the
\* caller among them.
PausedByQuorum ==
  [][\A t \in Targets :
       ~paused[t] /\ paused'[t] /\ pauser[t] = "EmergencyPause" =>
         Cardinality(votes[<<t, "pause">>] \cap guardians) + 1 >= threshold]_vars

GrantedIn(first, last) == SumFunctionOnSet(granted, first .. last)

\* PublicReserve.sol 79-94 and 29-39: what a window counts is what was granted
\* since it opened and stays within the cap, also when the caps change in it;
\* and the windows are at least the configured length apart, so no stretch of
\* that length, wherever it begins, sees more than two caps granted.
WindowHolds ==
  epoch.cap # 0 =>
    /\ epoch.spent = GrantedIn(epoch.start, now)
    /\ epoch.spent <= epoch.cap
    /\ \A s \in epoch.len - 1 .. now :
         GrantedIn(s + 1 - epoch.len, s) <= 2 * epoch.cap
=============================================================================
