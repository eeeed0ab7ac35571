----------------------------- MODULE MCGovernor -----------------------------
(* GembaGovernor for TLC: two holders, the shipped shares of votes. *)
EXTENDS GembaGovernor

Call(target, fn, who, value) ==
  [target |-> target, fn |-> fn, who |-> who, value |-> value]

Holders == [a |-> 3, b |-> 2]

\* Three proposals, of which two are made: one excludes a holder, one admits
\* it again, changes the quorum and flags a target, one hides a release behind another call.
MixedCalls ==
  [exclude |-> <<Call("votes", "setExcluded", "a", 1)>>,
   quorum |-> <<Call("votes", "setExcluded", "a", 0),
                Call("governor", "updateQuorumNumerator", "a", 100),
                Call("governor", "setCriticalTarget", "votes", 1)>>,
   money |-> <<Call("reserve", "setGranter", "a", 0),
               Call("reserve", "release", "a", 0)>>]
=============================================================================
