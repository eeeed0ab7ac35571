----------------------------- MODULE MCValGate -----------------------------
(* Small instances of ValGate for TLC. *)
EXTENDS ValGate

Leaf(kind, val, from, amt, minself, depth) ==
  [kind |-> kind, val |-> val, from |-> from, amt |-> amt,
   minself |-> minself, depth |-> depth]

Create(v, amt, minself, depth) == Leaf("create", v, v, amt, minself, depth)
Delegate(v, amt, depth) == Leaf("delegate", v, v, amt, 0, depth)
Redelegate(from, to, amt) == Leaf("redelegate", to, from, amt, 0, 0)
Undelegate(v, amt) == Leaf("undelegate", v, v, amt, 0, 0)
Cancel(v, amt) == Leaf("cancel", v, v, amt, 0, 0)

P(min, max, daily) == [min |-> min, max |-> max, daily |-> daily]

DefaultsIs == P(1, 2, 2)

\* valgate: every path that bonds or creates, under changing limits, on the
\* store of a new chain and on one an older binary wrote.
BondTxs ==
  {<<Delegate("v1", 1, 0)>>, <<Delegate("v1", 1, 1), Delegate("v1", 1, 0)>>,
   <<Delegate("v2", 2, 0), Redelegate("v2", "v1", 1)>>,
   <<Delegate("v1", 1, 3)>>, <<Undelegate("v1", 1)>>}
CreateTxs == {<<Create("v2", 3, 1, 0)>>, <<Create("v2", 1, 1, 2)>>}
MixedTxs == BondTxs \cup CreateTxs
MixedGenTxs == {<<Create("v1", 1, 1, 0)>>, <<Create("v1", 3, 1, 0)>>}
MixedCalls == {Delegate("v1", 1, 0), Redelegate("v2", "v1", 1),
               Create("v2", 3, 1, 0)}
MixedGenesis == {P(1, Nil, Nil)}
MixedStored == {P(1, Nil, Nil)}
MixedMsgs == {P(2, 2, 1), P(1, 2, 3), P(1, 2, Nil), P(1, 2, -1)}
=============================================================================
