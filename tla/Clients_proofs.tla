---------------------------- MODULE Clients_proofs ----------------------------
(***************************************************************************)
(* Theorems about the programs that use the chain from outside.            *)
(*                                                                         *)
(* SwapFrontend, for any amounts, pools, slippage and traders: what a call *)
(* may cost, what the locker holds, how often an entry is spent.           *)
(*                                                                         *)
(* Notifier, for any validators, services, alarms and cycles: no sale is   *)
(* told twice, and the cursor passes none untold.                          *)
(***************************************************************************)
EXTENDS SwapFrontend, Notifier, SequenceTheorems, SetSums_proofs

-----------------------------------------------------------------------------
(* GembaSwap: the contracts' arithmetic                                    *)

Positive == Nat \ {0}
PoolStates == [tok: Positive, gmb: Positive, lp: Positive]

\* getAmountOut pays less than the pool has of it: the pool is never emptied.
LEMMA PaysOutLess ==
  ASSUME NEW a \in Nat, NEW rIn \in Positive, NEW rOut \in Positive
  PROVE  AmountOut(a, rIn, rOut) \in Nat /\ AmountOut(a, rIn, rOut) < rOut
<1> DEFINE num == a * 997
           den == rIn * 1000 + a * 997
<1>1. num \in Nat /\ den \in Nat \ {0} /\ num < den /\ rOut \in Nat \ {0}
  BY DEF Positive
<1> HIDE DEF num, den
<1>2. (num * rOut) \div den \in Nat /\ (num * rOut) \div den < rOut
  BY <1>1, ShareBelow
<1>3. AmountOut(a, rIn, rOut) = IF a = 0 \/ rIn = 0 THEN 0 ELSE (num * rOut) \div den
  BY DEF AmountOut, num, den
<1> QED
  BY <1>1, <1>2, <1>3

\* _addLiquidity takes no more of either token than was offered.
LEMMA TakesNoMore ==
  ASSUME NEW pool, pool.tok \in Positive, pool.gmb \in Positive,
         NEW t \in Nat, NEW g \in Nat
  PROVE  LET d == Deposited(pool, t, g) IN
         /\ d.tok \in Nat /\ d.gmb \in Nat /\ d.tok <= t /\ d.gmb <= g
<1> DEFINE pt == pool.tok
           pg == pool.gmb
           m == (t * pg) \div pt
           k == (g * pt) \div pg
<1>1. pt \in Nat \ {0} /\ pg \in Nat \ {0}
  BY DEF Positive
<1> HIDE DEF pt, pg
<1>2. t * pg \in Nat /\ g * pt \in Nat
  BY <1>1
<1>3. m \in Nat /\ m * pt <= t * pg /\ k \in Nat /\ k * pg <= g * pt
  BY <1>1, <1>2, DivNat
<1> HIDE DEF m, k
<1>4. Deposited(pool, t, g) = IF m <= g THEN [tok |-> t, gmb |-> m]
                                        ELSE [tok |-> k, gmb |-> g]
  BY DEF Deposited, m, k, pt, pg
<1>5. CASE m <= g
  BY <1>3, <1>4, <1>5
<1>6. CASE ~(m <= g)
  <2>1. g * pt <= m * pt
    BY <1>1, <1>3, <1>6
  <2>2. k * pg <= t * pg
    BY <1>1, <1>2, <1>3, <2>1
  <2>3. k <= t
    BY <1>1, <1>3, <2>2, CancelFactor
  <2> QED
    BY <1>3, <1>4, <1>6, <2>3
<1> QED
  BY <1>5, <1>6

LEMMA MinOfTwo ==
  ASSUME NEW a \in Nat, NEW b \in Nat
  PROVE  Min({a, b}) \in Nat
<1>1. \E x \in {a, b} : \A y \in {a, b} : x <= y
  <2>1. CASE a <= b
    BY <2>1
  <2>2. CASE ~(a <= b)
    BY <2>2
  <2> QED
    BY <2>1, <2>2
<1> QED
  BY <1>1 DEF Min

LEMMA MintsNat ==
  ASSUME NEW pool \in PoolStates, NEW t, t.tok \in Nat, t.gmb \in Nat
  PROVE  Minted(pool, t) \in Nat
<1>1. pool.tok \in Nat \ {0} /\ pool.gmb \in Nat \ {0} /\ pool.lp \in Nat
  BY DEF PoolStates, Positive
<1>2. t.tok * pool.lp \in Nat /\ t.gmb * pool.lp \in Nat
  BY <1>1
<1>3. (t.tok * pool.lp) \div pool.tok \in Nat /\ (t.gmb * pool.lp) \div pool.gmb \in Nat
  BY <1>1, <1>2, DivNat
<1> QED
  BY <1>3, MinOfTwo DEF Minted

\* Who does not own the whole pool takes out less than the whole.
LEMMA RedeemsLess ==
  ASSUME NEW pool \in PoolStates, NEW n \in Nat, n < pool.lp
  PROVE  LET r == Redeemed(pool, n) IN
         /\ r.tok \in Nat /\ r.tok < pool.tok
         /\ r.gmb \in Nat /\ r.gmb < pool.gmb
<1>1. /\ pool.tok \in Nat \ {0} /\ pool.gmb \in Nat \ {0} /\ pool.lp \in Nat \ {0}
  BY DEF PoolStates, Positive
<1>2. /\ (n * pool.tok) \div pool.lp \in Nat
      /\ (n * pool.tok) \div pool.lp < pool.tok
  BY <1>1, ShareBelow
<1>3. /\ (n * pool.gmb) \div pool.lp \in Nat
      /\ (n * pool.gmb) \div pool.lp < pool.gmb
  BY <1>1, ShareBelow
<1> QED
  BY <1>2, <1>3 DEF Redeemed

-----------------------------------------------------------------------------
(* GembaSwap: what a call leaves behind                                    *)

Tokens == {"gmb", "wgmb", "tok"}
Trades(pair) == {pair.give, pair.take} # {"gmb", "wgmb"} /\ pair.give # pair.take

\* The calls the page can make.
PageCalls ==
  [kind: {"approve"}, asset: Assets, spender: Spenders, amt: Nat]
  \cup {tx \in [kind: {"wrap"}, give: Tokens, take: Tokens, amt: Nat] :
          {tx.give, tx.take} = {"gmb", "wgmb"}}
  \cup {tx \in [kind: {"swap"}, give: Tokens, take: Tokens, amt: Nat, min: Int,
                deadline: Nat] : Trades(tx)}
  \cup [kind: {"add"}, amt: Nat, value: Nat, minTok: Int, minGmb: Int, deadline: Nat]
  \cup [kind: {"remove"}, amt: Nat, fot: BOOLEAN, minTok: Int, minGmb: Int,
         deadline: Nat]
  \cup [kind: {"lock"}, amt: Nat, until: Nat]
  \cup [kind: {"withdraw"}, id: Nat, amt: Nat]

\* The least a call that does not revert changes every balance by.
Least(tx) ==
  CASE tx.kind = "approve" -> NoChange
    [] tx.kind = "wrap" -> [NoChange EXCEPT ![tx.give] = -tx.amt,
                                            ![tx.take] = tx.amt]
    [] tx.kind = "swap" -> [NoChange EXCEPT ![tx.give] = -tx.amt,
                                            ![tx.take] = tx.min]
    [] tx.kind = "add" -> [NoChange EXCEPT !["tok"] = -tx.amt,
                                           !["gmb"] = -tx.value]
    [] tx.kind = "remove" -> [NoChange EXCEPT !["lp"] = -tx.amt,
                                              !["tok"] = tx.minTok,
                                              !["gmb"] = tx.minGmb]
    [] tx.kind = "lock" -> [NoChange EXCEPT !["lp"] = -tx.amt]
    [] tx.kind = "withdraw" -> [NoChange EXCEPT !["lp"] = tx.amt]

ChainFields == {"bal", "allow", "pool", "locks", "held", "now"}
LpLock == [amt: Nat, until: Nat, withdrawn: BOOLEAN]

\* A chain as it can be: a pool that is not empty, of which the wallet and the
\* locker together do not own everything.
Sound(c) ==
  /\ DOMAIN c = ChainFields
  /\ c.bal \in [Assets -> Nat]
  /\ c.pool \in PoolStates
  /\ c.locks \in Seq(LpLock)
  /\ c.held \in Nat /\ c.now \in Nat
  /\ c.bal["lp"] + c.held < c.pool.lp

\* Locks are added and change in everything but their amount.
LocksGo(c, d) ==
  DOMAIN c.locks \subseteq DOMAIN d.locks
    /\ \A i \in DOMAIN c.locks : d.locks[i].amt = c.locks[i].amt

\* A withdrawal is of a lock there is, and says what is in it.
Known(tx, c) ==
  tx.kind = "withdraw" => tx.id \in DOMAIN c.locks /\ tx.amt = c.locks[tx.id].amt

NoWorse(c, d, tx) == \A a \in Assets : d.bal[a] - c.bal[a] >= Least(tx)[a]

LEMMA WrapKeeps ==
  ASSUME NEW c, Sound(c), NEW tx \in PageCalls, tx.kind = "wrap", Succeeds(c, tx)
  PROVE  /\ Sound(Executed(c, tx)) /\ NoWorse(c, Executed(c, tx), tx)
         /\ Executed(c, tx).locks = c.locks
<1>1. /\ tx.give \in Tokens /\ tx.take \in Tokens /\ tx.amt \in Nat
      /\ {tx.give, tx.take} = {"gmb", "wgmb"}
  BY DEF PageCalls
<1>2. tx.give \in Assets /\ tx.take \in Assets /\ tx.give # tx.take
      /\ tx.give # "lp" /\ tx.take # "lp"
  BY <1>1 DEF Tokens, Assets
<1>3. c.bal[tx.give] >= tx.amt
  BY DEF Succeeds
<1>4. Executed(c, tx) = Wrapped(c, tx)
  BY DEF Executed
<1> DEFINE b == [c.bal EXCEPT ![tx.give] = @ - tx.amt]
           b2 == [b EXCEPT ![tx.take] = @ + tx.amt]
           d == [c EXCEPT !.bal = b2]
<1>5. Wrapped(c, tx) = d
  BY <1>2 DEF Wrapped, Sound, ChainFields
<1>6. b2 \in [Assets -> Nat]
  <2>1. b \in [Assets -> Nat]
    BY <1>1, <1>2, <1>3 DEF Sound
  <2> QED
    BY <1>1, <1>2, <2>1
<1>7. /\ b2[tx.give] = c.bal[tx.give] - tx.amt
      /\ b2[tx.take] = c.bal[tx.take] + tx.amt
      /\ \A a \in Assets \ {tx.give, tx.take} : b2[a] = c.bal[a]
  BY <1>1, <1>2 DEF Sound
<1> HIDE DEF b2
<1>8. /\ DOMAIN d = ChainFields /\ d.bal = b2 /\ d.pool = c.pool
      /\ d.locks = c.locks /\ d.held = c.held /\ d.now = c.now
  BY DEF Sound, ChainFields
<1> HIDE DEF d
<1>9. b2["lp"] = c.bal["lp"]
  BY <1>2, <1>7 DEF Assets
<1>10. Sound(d)
  BY <1>6, <1>8, <1>9 DEF Sound
<1>11. /\ Least(tx)[tx.give] = -tx.amt /\ Least(tx)[tx.take] = tx.amt
       /\ \A a \in Assets \ {tx.give, tx.take} : Least(tx)[a] = 0
  BY <1>1, <1>2 DEF Least, NoChange
<1>12. NoWorse(c, d, tx)
  <2>1. \A a \in Assets : c.bal[a] \in Nat
    BY DEF Sound
  <2> QED
    BY <1>1, <1>2, <1>7, <1>8, <1>11, <2>1 DEF NoWorse
<1> QED
  BY <1>4, <1>5, <1>8, <1>10, <1>12

LEMMA SwapKeeps ==
  ASSUME NEW c, Sound(c), NEW tx \in PageCalls, tx.kind = "swap", Succeeds(c, tx)
  PROVE  /\ Sound(Executed(c, tx)) /\ NoWorse(c, Executed(c, tx), tx)
         /\ Executed(c, tx).locks = c.locks
<1>1. /\ tx.give \in Tokens /\ tx.take \in Tokens /\ tx.amt \in Nat /\ tx.min \in Int
      /\ Trades(tx)
  BY DEF PageCalls
<1> DEFINE sg == Side(tx.give)
           st == Side(tx.take)
           out == AmountOut(tx.amt, c.pool[sg], c.pool[st])
<1>2. /\ tx.give \in Assets /\ tx.take \in Assets /\ tx.give # tx.take
      /\ tx.give # "lp" /\ tx.take # "lp" /\ {sg, st} = {"tok", "gmb"} /\ sg # st
  BY <1>1 DEF Tokens, Assets, Trades, Side
<1> HIDE DEF sg, st
<1>3. c.pool[sg] \in Positive /\ c.pool[st] \in Positive
  BY <1>2 DEF Sound, PoolStates
<1>4. out \in Nat /\ out < c.pool[st]
  BY <1>1, <1>3, PaysOutLess
<1>5. c.bal[tx.give] >= tx.amt /\ out >= tx.min
  BY DEF Succeeds, Swaps, Allows, sg, st
<1> DEFINE paid == IF tx.give = "gmb" THEN [c EXCEPT !.bal["gmb"] = @ - tx.amt]
                   ELSE Paid(c, tx.give, "router", tx.amt)
           d == Swapped(c, tx)
<1>6. d = [paid EXCEPT !.bal[tx.take] = @ + out, !.pool[sg] = @ + tx.amt,
                       !.pool[st] = @ - out]
  BY DEF Swapped, sg, st
<1> HIDE DEF out
<1>7. /\ DOMAIN paid = ChainFields /\ paid.pool = c.pool /\ paid.locks = c.locks
      /\ paid.held = c.held /\ paid.now = c.now
      /\ paid.bal = [c.bal EXCEPT ![tx.give] = @ - tx.amt]
  BY DEF Paid, Sound, ChainFields
<1> HIDE DEF paid, d
<1> DEFINE b == [paid.bal EXCEPT ![tx.take] = @ + out]
           p == [c.pool EXCEPT ![sg] = @ + tx.amt, ![st] = @ - out]
<1>8. /\ DOMAIN d = ChainFields /\ d.bal = b /\ d.pool = p
      /\ d.locks = c.locks /\ d.held = c.held /\ d.now = c.now
  BY <1>2, <1>6, <1>7 DEF ChainFields
<1>9. /\ b \in [Assets -> Nat]
      /\ b[tx.give] = c.bal[tx.give] - tx.amt
      /\ b[tx.take] = c.bal[tx.take] + out
      /\ \A a \in Assets \ {tx.give, tx.take} : b[a] = c.bal[a]
  BY <1>1, <1>2, <1>4, <1>5, <1>7, SMTT(60) DEF Sound
<1>10. p \in PoolStates /\ p.lp = c.pool.lp
  <2>1. /\ c.pool[sg] + tx.amt \in Positive /\ c.pool[st] - out \in Positive
        /\ c.pool \in PoolStates
    BY <1>1, <1>3, <1>4, SMTT(60) DEF Positive, Sound
  <2>2. CASE sg = "tok" /\ st = "gmb"
    BY <2>1, <2>2 DEF PoolStates
  <2>3. CASE sg = "gmb" /\ st = "tok"
    BY <2>1, <2>3 DEF PoolStates
  <2> QED
    BY <1>2, <2>2, <2>3
<1> HIDE DEF b, p
<1>11. b["lp"] = c.bal["lp"]
  BY <1>2, <1>9 DEF Assets
<1>12. Sound(d)
  BY <1>8, <1>9, <1>10, <1>11 DEF Sound
<1>13. /\ Least(tx)[tx.give] = -tx.amt /\ Least(tx)[tx.take] = tx.min
       /\ \A a \in Assets \ {tx.give, tx.take} : Least(tx)[a] = 0
  BY <1>1, <1>2 DEF Least, NoChange
<1>14. NoWorse(c, d, tx)
  <2>1. \A a \in Assets : c.bal[a] \in Nat
    BY DEF Sound
  <2> QED
    BY <1>1, <1>2, <1>4, <1>5, <1>8, <1>9, <1>13, <2>1 DEF NoWorse
<1> QED
  BY <1>8, <1>12, <1>14 DEF Executed, d

LEMMA AddKeeps ==
  ASSUME NEW c, Sound(c), NEW tx \in PageCalls, tx.kind = "add", Succeeds(c, tx)
  PROVE  /\ Sound(Executed(c, tx)) /\ NoWorse(c, Executed(c, tx), tx)
         /\ Executed(c, tx).locks = c.locks
<1>1. tx.amt \in Nat /\ tx.value \in Nat
  BY DEF PageCalls
<1> DEFINE t == Deposited(c.pool, tx.amt, tx.value)
           n == Minted(c.pool, t)
           d == Added(c, tx)
<1>2. /\ c.pool \in PoolStates /\ c.pool.tok \in Positive /\ c.pool.gmb \in Positive
      /\ c.pool.lp \in Positive
  BY DEF Sound, PoolStates
<1>3. t.tok \in Nat /\ t.gmb \in Nat /\ t.tok <= tx.amt /\ t.gmb <= tx.value
  BY <1>1, <1>2, TakesNoMore
<1>4. c.bal["tok"] >= t.tok /\ c.bal["gmb"] >= tx.value
  BY DEF Succeeds, Adds, Allows
<1>5. d = [Paid(c, "tok", "router", t.tok) EXCEPT
             !.bal["gmb"] = @ - t.gmb, !.bal["lp"] = @ + n,
             !.pool = [tok |-> @.tok + t.tok, gmb |-> @.gmb + t.gmb,
                       lp |-> @.lp + n]]
  BY DEF Added
<1> HIDE DEF t, d
<1>6. n \in Nat
  BY <1>2, <1>3, MintsNat
<1> HIDE DEF n
<1> DEFINE paid == Paid(c, "tok", "router", t.tok)
           p == [tok |-> c.pool.tok + t.tok, gmb |-> c.pool.gmb + t.gmb,
                 lp |-> c.pool.lp + n]
           b == [paid.bal EXCEPT !["gmb"] = @ - t.gmb, !["lp"] = @ + n]
<1>7. /\ DOMAIN paid = ChainFields /\ paid.pool = c.pool /\ paid.locks = c.locks
      /\ paid.held = c.held /\ paid.now = c.now
      /\ paid.bal = [c.bal EXCEPT !["tok"] = @ - t.tok]
  BY DEF Paid, Sound, ChainFields
<1> HIDE DEF paid
<1>8. /\ DOMAIN d = ChainFields /\ d.bal = b /\ d.pool = p
      /\ d.locks = c.locks /\ d.held = c.held /\ d.now = c.now
  <2> DEFINE e == [paid EXCEPT !.bal = b]
  <2>1. /\ DOMAIN e = ChainFields /\ e.bal = b /\ e.pool = c.pool
        /\ e.locks = c.locks /\ e.held = c.held /\ e.now = c.now
    BY <1>7 DEF ChainFields
  <2>2. d = [e EXCEPT !.pool = p]
    <3>1. DOMAIN paid.bal = Assets
      BY <1>7 DEF Sound
    <3>2. [paid EXCEPT !.bal["gmb"] = @ - t.gmb, !.bal["lp"] = @ + n] = e
      BY <1>7, <3>1 DEF ChainFields, Assets
    <3>3. d = [[paid EXCEPT !.bal["gmb"] = @ - t.gmb, !.bal["lp"] = @ + n]
                 EXCEPT !.pool = p]
      BY <1>5, <1>7, <3>1 DEF paid, ChainFields, Assets
    <3> QED
      BY <3>2, <3>3
  <2> HIDE DEF e
  <2> QED
    BY <2>1, <2>2 DEF ChainFields
<1>9. /\ b \in [Assets -> Nat]
      /\ b["tok"] = c.bal["tok"] - t.tok /\ b["gmb"] = c.bal["gmb"] - t.gmb
      /\ b["lp"] = c.bal["lp"] + n /\ b["wgmb"] = c.bal["wgmb"]
  <2>1. c.bal \in [Assets -> Nat]
    BY DEF Sound
  <2>2. /\ b["tok"] = c.bal["tok"] - t.tok /\ b["gmb"] = c.bal["gmb"] - t.gmb
        /\ b["lp"] = c.bal["lp"] + n /\ b["wgmb"] = c.bal["wgmb"]
        /\ b = [a \in Assets |-> b[a]]
    BY <1>7, <2>1 DEF Assets
  <2> HIDE DEF b
  <2>3. \A a \in Assets : b[a] \in Nat
    BY <1>1, <1>3, <1>4, <1>6, <2>1, <2>2 DEF Assets
  <2> QED
    BY <2>2, <2>3
<1>10. p \in PoolStates /\ p.lp = c.pool.lp + n
  BY <1>2, <1>3, <1>6 DEF PoolStates, Positive
<1> HIDE DEF b, p
<1>11. b["lp"] + c.held < p.lp
  <2>1. c.bal["lp"] + c.held < c.pool.lp /\ c.held \in Nat /\ c.bal["lp"] \in Nat
        /\ c.pool.lp \in Nat
    BY <1>2 DEF Sound, Positive, Assets
  <2> QED
    BY <1>6, <1>9, <1>10, <2>1
<1>12. Sound(d)
  BY <1>8, <1>9, <1>10, <1>11 DEF Sound
<1>13. /\ Least(tx)["tok"] = -tx.amt /\ Least(tx)["gmb"] = -tx.value
       /\ Least(tx)["lp"] = 0 /\ Least(tx)["wgmb"] = 0
  BY DEF Least, NoChange, Assets
<1>14. NoWorse(c, d, tx)
  <2>1. \A a \in Assets : c.bal[a] \in Nat
    BY DEF Sound
  <2> QED
    BY <1>1, <1>3, <1>6, <1>8, <1>9, <1>13, <2>1 DEF NoWorse, Assets
<1> QED
  BY <1>8, <1>12, <1>14 DEF Executed, d

LEMMA RemoveKeeps ==
  ASSUME NEW c, Sound(c), NEW tx \in PageCalls, tx.kind = "remove", Succeeds(c, tx)
  PROVE  /\ Sound(Executed(c, tx)) /\ NoWorse(c, Executed(c, tx), tx)
         /\ Executed(c, tx).locks = c.locks
<1>1. tx.amt \in Nat
  BY DEF PageCalls
<1> DEFINE n == tx.amt
           t == Redeemed(c.pool, n)
           d == Removed(c, tx)
<1>2. /\ c.pool \in PoolStates /\ c.pool.tok \in Positive /\ c.pool.gmb \in Positive
      /\ c.pool.lp \in Positive /\ c.bal \in [Assets -> Nat] /\ c.held \in Nat
      /\ c.bal["lp"] + c.held < c.pool.lp
  BY DEF Sound, PoolStates
<1>3. c.bal["lp"] >= n /\ t.tok >= tx.minTok /\ t.gmb >= tx.minGmb
  BY DEF Succeeds, Removes, Allows
<1>4. c.bal["lp"] \in Nat /\ n < c.pool.lp
  BY <1>1, <1>2, <1>3 DEF Assets, Positive
<1>5. t.tok \in Nat /\ t.gmb \in Nat /\ t.tok < c.pool.tok /\ t.gmb < c.pool.gmb
  BY <1>1, <1>2, <1>4, RedeemsLess
<1> DEFINE paid == Paid(c, "lp", "router", n)
           p == [tok |-> c.pool.tok - t.tok, gmb |-> c.pool.gmb - t.gmb,
                 lp |-> c.pool.lp - n]
           b == [paid.bal EXCEPT !["tok"] = @ + t.tok, !["gmb"] = @ + t.gmb]
<1>6. d = [paid EXCEPT
             !.bal["tok"] = @ + t.tok, !.bal["gmb"] = @ + t.gmb,
             !.pool = [tok |-> @.tok - t.tok, gmb |-> @.gmb - t.gmb,
                       lp |-> @.lp - tx.amt]]
  BY DEF Removed
<1> HIDE DEF t, d
<1>7. /\ DOMAIN paid = ChainFields /\ paid.pool = c.pool /\ paid.locks = c.locks
      /\ paid.held = c.held /\ paid.now = c.now
      /\ paid.bal = [c.bal EXCEPT !["lp"] = @ - n]
  BY DEF Paid, Sound, ChainFields
<1> HIDE DEF paid
<1>8. /\ DOMAIN d = ChainFields /\ d.bal = b /\ d.pool = p
      /\ d.locks = c.locks /\ d.held = c.held /\ d.now = c.now
  <2> DEFINE e == [paid EXCEPT !.bal = b]
  <2>1. /\ DOMAIN e = ChainFields /\ e.bal = b /\ e.pool = c.pool
        /\ e.locks = c.locks /\ e.held = c.held /\ e.now = c.now
    BY <1>7 DEF ChainFields
  <2>2. d = [e EXCEPT !.pool = p]
    <3>1. DOMAIN paid.bal = Assets
      BY <1>7 DEF Sound
    <3>2. [paid EXCEPT !.bal["tok"] = @ + t.tok, !.bal["gmb"] = @ + t.gmb] = e
      BY <1>7, <3>1 DEF ChainFields, Assets
    <3>3. d = [[paid EXCEPT !.bal["tok"] = @ + t.tok, !.bal["gmb"] = @ + t.gmb]
                 EXCEPT !.pool = p]
      BY <1>6, <1>7, <3>1 DEF ChainFields, Assets
    <3> QED
      BY <3>2, <3>3
  <2> HIDE DEF e
  <2> QED
    BY <2>1, <2>2 DEF ChainFields
<1>9. /\ b \in [Assets -> Nat]
      /\ b["lp"] = c.bal["lp"] - n /\ b["tok"] = c.bal["tok"] + t.tok
      /\ b["gmb"] = c.bal["gmb"] + t.gmb /\ b["wgmb"] = c.bal["wgmb"]
  <2>1. /\ b["lp"] = c.bal["lp"] - n /\ b["tok"] = c.bal["tok"] + t.tok
        /\ b["gmb"] = c.bal["gmb"] + t.gmb /\ b["wgmb"] = c.bal["wgmb"]
        /\ b = [a \in Assets |-> b[a]]
    BY <1>2, <1>7 DEF Assets
  <2> HIDE DEF b
  <2>2. \A a \in Assets : b[a] \in Nat
    BY <1>1, <1>2, <1>3, <1>5, <2>1 DEF Assets
  <2> QED
    BY <2>1, <2>2
<1>10. p \in PoolStates /\ p.lp = c.pool.lp - n
  BY <1>1, <1>2, <1>4, <1>5 DEF PoolStates, Positive
<1> HIDE DEF b, p
<1>11. b["lp"] + c.held < p.lp
  BY <1>1, <1>2, <1>4, <1>9, <1>10 DEF Positive
<1>12. Sound(d)
  BY <1>8, <1>9, <1>10, <1>11 DEF Sound
<1>13. /\ Least(tx)["tok"] = tx.minTok /\ Least(tx)["gmb"] = tx.minGmb
       /\ Least(tx)["lp"] = -tx.amt /\ Least(tx)["wgmb"] = 0
  BY DEF Least, NoChange, Assets
<1>14. NoWorse(c, d, tx)
  <2>1. tx.minTok \in Int /\ tx.minGmb \in Int
    BY DEF PageCalls
  <2> QED
    BY <1>1, <1>2, <1>3, <1>5, <1>8, <1>9, <1>13, <2>1 DEF NoWorse, Assets
<1> QED
  BY <1>8, <1>12, <1>14 DEF Executed, d

\* What the open locks record, and that none opened early.
OpenLocks(c) == {i \in DOMAIN c.locks : ~c.locks[i].withdrawn}
LockAmts(c) == [i \in DOMAIN c.locks |-> c.locks[i].amt]
Backed(c) ==
  /\ c.held = SumFunctionOnSet(LockAmts(c), OpenLocks(c))
  /\ \A i \in DOMAIN c.locks : c.locks[i].withdrawn => c.locks[i].until <= c.now

LEMMA LocksFinite ==
  ASSUME NEW c, c.locks \in Seq(LpLock)
  PROVE  /\ IsFiniteSet(OpenLocks(c)) /\ DOMAIN c.locks = 1 .. Len(c.locks)
         /\ Len(c.locks) \in Nat
         /\ \A i \in DOMAIN c.locks :
              /\ c.locks[i] \in LpLock /\ LockAmts(c)[i] = c.locks[i].amt
              /\ c.locks[i].amt \in Nat /\ c.locks[i].until \in Nat
<1>1. DOMAIN c.locks = 1 .. Len(c.locks) /\ Len(c.locks) \in Nat
  OBVIOUS
<1>2. IsFiniteSet(1 .. Len(c.locks)) /\ OpenLocks(c) \in SUBSET (1 .. Len(c.locks))
  BY <1>1, FS_Interval DEF OpenLocks
<1>3. IsFiniteSet(OpenLocks(c))
  BY <1>2, FS_Subset
<1>4. \A i \in DOMAIN c.locks :
        /\ c.locks[i] \in LpLock /\ LockAmts(c)[i] = c.locks[i].amt
        /\ c.locks[i].amt \in Nat /\ c.locks[i].until \in Nat
  <2>1. \A i \in DOMAIN c.locks : c.locks[i] \in LpLock
    BY <1>1
  <2>2. \A l \in LpLock : l.amt \in Nat /\ l.until \in Nat
    BY DEF LpLock
  <2> QED
    BY <2>1, <2>2 DEF LockAmts
<1> QED
  BY <1>1, <1>3, <1>4

LEMMA LockKeeps ==
  ASSUME NEW c, Sound(c), Backed(c), NEW tx \in PageCalls, tx.kind = "lock",
         Succeeds(c, tx)
  PROVE  /\ Sound(Executed(c, tx)) /\ NoWorse(c, Executed(c, tx), tx)
         /\ LocksGo(c, Executed(c, tx)) /\ Backed(Executed(c, tx))
<1> DEFINE n == tx.amt
           l == [amt |-> tx.amt, until |-> tx.until, withdrawn |-> FALSE]
           k == Len(c.locks)
           d == Locked(c, tx)
           b == [c.bal EXCEPT !["lp"] = @ - n]
           paid == Paid(c, "lp", "locker", n)
<1>1. n \in Nat /\ tx.until \in Nat /\ l \in LpLock
  BY DEF PageCalls, LpLock
<1>2. /\ c.bal \in [Assets -> Nat] /\ c.held \in Nat /\ c.pool \in PoolStates
      /\ c.bal["lp"] + c.held < c.pool.lp /\ c.now \in Nat /\ c.locks \in Seq(LpLock)
      /\ c.pool.lp \in Nat
  BY DEF Sound, PoolStates, Positive
<1>3. c.bal["lp"] >= n
  BY DEF Succeeds, Locks, Allows
<1>4. /\ DOMAIN paid = ChainFields /\ paid.pool = c.pool /\ paid.locks = c.locks
      /\ paid.held = c.held /\ paid.now = c.now /\ paid.bal = b
  BY DEF Paid, Sound, ChainFields
<1>5. d = [paid EXCEPT !.held = @ + n, !.locks = Append(@, l)]
  BY DEF Locked
<1> HIDE DEF paid
<1>6. /\ DOMAIN d = ChainFields /\ d.bal = b /\ d.pool = c.pool
      /\ d.locks = Append(c.locks, l) /\ d.held = c.held + n /\ d.now = c.now
  BY <1>4, <1>5 DEF ChainFields
<1> HIDE DEF d
<1>7. b \in [Assets -> Nat] /\ b["lp"] = c.bal["lp"] - n
      /\ \A a \in Assets \ {"lp"} : b[a] = c.bal[a]
  BY <1>1, <1>2, <1>3, SMTT(60) DEF Assets
<1> HIDE DEF b
<1>8. d.locks \in Seq(LpLock)
  BY <1>1, <1>2, <1>6, AppendProperties
<1>9. b["lp"] + (c.held + n) < c.pool.lp
  BY <1>1, <1>2, <1>7, SMTT(60) DEF Assets
<1>10. Sound(d)
  BY <1>1, <1>2, <1>6, <1>7, <1>8, <1>9, SMTT(60) DEF Sound
<1>11. /\ Least(tx)["lp"] = -n /\ \A a \in Assets \ {"lp"} : Least(tx)[a] = 0
  BY DEF Least, NoChange, Assets
<1>12. NoWorse(c, d, tx)
  BY <1>1, <1>2, <1>6, <1>7, <1>11, SMTT(60) DEF NoWorse, Assets
<1>13. /\ DOMAIN d.locks = 1 .. k + 1 /\ DOMAIN c.locks = 1 .. k /\ k \in Nat
       /\ \A i \in 1 .. k : d.locks[i] = c.locks[i]
       /\ d.locks[k + 1] = l
  BY <1>1, <1>2, <1>6
<1> HIDE DEF k, l
<1>14. LocksGo(c, d)
  BY <1>13 DEF LocksGo
<1>15. l.amt = n /\ ~l.withdrawn
  BY DEF l
<1>16. OpenLocks(d) = OpenLocks(c) \cup {k + 1} /\ k + 1 \notin OpenLocks(c)
  <2>1. ~d.locks[k + 1].withdrawn
    BY <1>13, <1>15
  <2>2. \A i \in 1 .. k : d.locks[i].withdrawn = c.locks[i].withdrawn
    BY <1>13
  <2>3. OpenLocks(d) = {i \in 1 .. k + 1 : ~d.locks[i].withdrawn}
        /\ OpenLocks(c) = {i \in 1 .. k : ~c.locks[i].withdrawn}
    BY <1>13 DEF OpenLocks
  <2>4. \A i : i \in OpenLocks(d) <=> i \in OpenLocks(c) \/ i = k + 1
    BY <1>13, <2>1, <2>2, <2>3
  <2> QED
    BY <1>13, <2>3, <2>4
<1>17. /\ \A i \in OpenLocks(c) : LockAmts(d)[i] = LockAmts(c)[i] /\ LockAmts(c)[i] \in Int
       /\ LockAmts(d)[k + 1] = n
  <2>1. \A i \in 1 .. k : /\ LockAmts(c)[i] = c.locks[i].amt
                          /\ LockAmts(c)[i] \in Int
    BY <1>2, <1>13, LocksFinite
  <2>2. /\ \A i \in 1 .. k : LockAmts(d)[i] = c.locks[i].amt
        /\ LockAmts(d)[k + 1] = n
    BY <1>13, <1>15 DEF LockAmts
  <2>3. OpenLocks(c) \subseteq 1 .. k
    BY <1>13 DEF OpenLocks
  <2> QED
    BY <2>1, <2>2, <2>3
<1>18. SumFunctionOnSet(LockAmts(d), OpenLocks(d)) = d.held
  <2>1. IsFiniteSet(OpenLocks(c))
    BY <1>2, LocksFinite
  <2>2. \A y \in OpenLocks(c) \cup {k + 1} : LockAmts(d)[y] \in Int
    BY <1>1, <1>17
  <2>3. SumFunctionOnSet(LockAmts(d), OpenLocks(c) \cup {k + 1})
          = LockAmts(d)[k + 1] + SumFunctionOnSet(LockAmts(d), OpenLocks(c))
    BY <1>16, <2>1, <2>2, SumAdd
  <2>4. SumFunctionOnSet(LockAmts(c), OpenLocks(c))
          = SumFunctionOnSet(LockAmts(d), OpenLocks(c))
    BY <1>17, <2>1, SumSame
  <2>5. c.held = SumFunctionOnSet(LockAmts(c), OpenLocks(c))
    BY DEF Backed
  <2> QED
    BY <1>1, <1>2, <1>6, <1>16, <1>17, <2>3, <2>4, <2>5
<1>19. \A i \in DOMAIN d.locks : d.locks[i].withdrawn => d.locks[i].until <= d.now
  BY <1>6, <1>13, <1>15 DEF Backed
<1>20. Backed(d)
  BY <1>18, <1>19 DEF Backed
<1> QED
  BY <1>10, <1>12, <1>14, <1>20 DEF Executed, d

LEMMA WithdrawKeeps ==
  ASSUME NEW c, Sound(c), Backed(c), NEW tx \in PageCalls, tx.kind = "withdraw",
         Known(tx, c), Succeeds(c, tx)
  PROVE  /\ Sound(Executed(c, tx)) /\ NoWorse(c, Executed(c, tx), tx)
         /\ LocksGo(c, Executed(c, tx)) /\ Backed(Executed(c, tx))
<1> DEFINE id == tx.id
           n == tx.amt
           k == Len(c.locks)
           d == Withdrawn(c, tx)
           b == [c.bal EXCEPT !["lp"] = @ + n]
           ls == [c.locks EXCEPT ![id].withdrawn = TRUE]
<1>1. /\ c.bal \in [Assets -> Nat] /\ c.held \in Nat /\ c.pool \in PoolStates
      /\ c.bal["lp"] + c.held < c.pool.lp /\ c.now \in Nat /\ c.locks \in Seq(LpLock)
      /\ c.pool.lp \in Nat
  BY DEF Sound, PoolStates, Positive
<1>2. /\ id \in DOMAIN c.locks /\ ~c.locks[id].withdrawn
      /\ c.now >= c.locks[id].until /\ n = c.locks[id].amt
  BY DEF Succeeds, Withdraws, Known
<1>3. d = [c EXCEPT !.locks[id].withdrawn = TRUE, !.held = @ - n, !.bal["lp"] = @ + n]
  BY <1>2 DEF Withdrawn
<1>4. /\ DOMAIN d = ChainFields /\ d.bal = b /\ d.pool = c.pool
      /\ d.locks = ls /\ d.held = c.held - n /\ d.now = c.now
  <2>1. DOMAIN c = ChainFields /\ DOMAIN c.bal = Assets
    BY DEF Sound
  <2> HIDE DEF d
  <2> QED
    BY <1>3, <2>1 DEF ChainFields
<1> HIDE DEF d
<1>5. /\ IsFiniteSet(OpenLocks(c)) /\ DOMAIN c.locks = 1 .. k /\ k \in Nat
      /\ \A i \in DOMAIN c.locks :
           /\ c.locks[i] \in LpLock /\ LockAmts(c)[i] = c.locks[i].amt
           /\ c.locks[i].amt \in Nat /\ c.locks[i].until \in Nat
  BY <1>1, LocksFinite
<1>6. n \in Nat
  BY <1>2, <1>5
<1>7. id \in OpenLocks(c)
  BY <1>2 DEF OpenLocks
<1>8. /\ SumFunctionOnSet(LockAmts(c), OpenLocks(c) \ {id}) \in Nat
      /\ SumFunctionOnSet(LockAmts(c), OpenLocks(c))
           = n + SumFunctionOnSet(LockAmts(c), OpenLocks(c) \ {id})
  <2>1. \A i \in OpenLocks(c) : LockAmts(c)[i] \in Nat /\ LockAmts(c)[i] \in Int
    BY <1>5 DEF OpenLocks
  <2>2. IsFiniteSet(OpenLocks(c) \ {id})
    BY <1>5, FS_Subset
  <2>3. \A i \in OpenLocks(c) \ {id} : LockAmts(c)[i] \in Nat
    BY <2>1
  <2>4. SumFunctionOnSet(LockAmts(c), OpenLocks(c) \ {id}) \in Nat
    BY <2>2, <2>3, SumNat
  <2>5. SumFunctionOnSet(LockAmts(c), OpenLocks(c))
          = LockAmts(c)[id] + SumFunctionOnSet(LockAmts(c), OpenLocks(c) \ {id})
    BY <1>5, <1>7, <2>1, SumRemove
  <2> QED
    BY <1>2, <1>5, <2>4, <2>5
<1>9. c.held = SumFunctionOnSet(LockAmts(c), OpenLocks(c))
  BY DEF Backed
<1>10. d.held \in Nat /\ d.held = SumFunctionOnSet(LockAmts(c), OpenLocks(c) \ {id})
  BY <1>1, <1>4, <1>6, <1>8, <1>9
<1>11. /\ b \in [Assets -> Nat] /\ b["lp"] = c.bal["lp"] + n
       /\ \A a \in Assets \ {"lp"} : b[a] = c.bal[a]
  BY <1>1, <1>6, SMTT(60) DEF Assets
<1> HIDE DEF b
<1>12. /\ DOMAIN ls = DOMAIN c.locks
       /\ \A i \in DOMAIN c.locks \ {id} : ls[i] = c.locks[i]
       /\ ls[id] = [c.locks[id] EXCEPT !.withdrawn = TRUE]
  BY <1>2
<1>13. /\ ls[id] \in LpLock /\ ls[id].amt = c.locks[id].amt
       /\ ls[id].until = c.locks[id].until /\ ls[id].withdrawn
  BY <1>2, <1>5, <1>12, ZenonT(60) DEF LpLock
<1>14. ls \in Seq(LpLock)
  <2>1. ls = [i \in 1 .. k |-> ls[i]]
    BY <1>5
  <2>2. \A i \in 1 .. k : ls[i] \in LpLock
    BY <1>5, <1>12, <1>13
  <2> HIDE DEF ls
  <2>3. ls \in [1 .. k -> LpLock]
    BY <2>1, <2>2
  <2> QED
    BY <1>5, <2>3
<1> HIDE DEF ls
<1>15. Sound(d)
  <2>1. b["lp"] + d.held < d.pool.lp
    BY <1>1, <1>4, <1>6, <1>11, SMTT(60) DEF Assets
  <2> QED
    BY <1>1, <1>4, <1>10, <1>11, <1>14, <2>1 DEF Sound
<1>16. /\ Least(tx)["lp"] = n /\ \A a \in Assets \ {"lp"} : Least(tx)[a] = 0
  BY DEF Least, NoChange, Assets
<1>17. NoWorse(c, d, tx)
  BY <1>1, <1>4, <1>6, <1>11, <1>16, SMTT(60) DEF NoWorse, Assets
<1>18. LocksGo(c, d)
  BY <1>4, <1>12, <1>13 DEF LocksGo
<1>19. OpenLocks(d) = OpenLocks(c) \ {id}
  <2>1. \A i \in DOMAIN c.locks \ {id} : ls[i].withdrawn = c.locks[i].withdrawn
    BY <1>12
  <2>2. \A i : i \in OpenLocks(d) <=> i \in OpenLocks(c) /\ i # id
    BY <1>4, <1>12, <1>13, <2>1 DEF OpenLocks
  <2>3. /\ OpenLocks(d) \subseteq OpenLocks(c) \ {id}
        /\ OpenLocks(c) \ {id} \subseteq OpenLocks(d)
    BY <2>2
  <2> QED
    BY <2>3
<1>20. d.held = SumFunctionOnSet(LockAmts(d), OpenLocks(d))
  <2>1. \A i \in OpenLocks(c) \ {id} : LockAmts(c)[i] \in Int
                                       /\ LockAmts(c)[i] = LockAmts(d)[i]
    <3>1. \A i \in DOMAIN c.locks : LockAmts(c)[i] \in Int
      BY <1>5
    <3>2. \A i \in DOMAIN c.locks \ {id} : LockAmts(d)[i] = ls[i].amt
                                           /\ ls[i].amt = c.locks[i].amt
      BY <1>4, <1>12 DEF LockAmts
    <3>3. OpenLocks(c) \subseteq DOMAIN c.locks
      BY DEF OpenLocks
    <3> QED
      BY <1>5, <3>1, <3>2, <3>3
  <2>2. IsFiniteSet(OpenLocks(c) \ {id})
    BY <1>5, FS_Subset
  <2>3. SumFunctionOnSet(LockAmts(c), OpenLocks(c) \ {id})
          = SumFunctionOnSet(LockAmts(d), OpenLocks(c) \ {id})
    BY <2>1, <2>2, SumSame
  <2> QED
    BY <1>10, <1>19, <2>3
<1>21. \A i \in DOMAIN d.locks : d.locks[i].withdrawn => d.locks[i].until <= d.now
  <2>1. c.locks[id].until <= c.now
    BY <1>1, <1>2, <1>5
  <2>2. ls[id].until <= c.now
    BY <1>13, <2>1
  <2>3. \A i \in DOMAIN c.locks \ {id} : ls[i].withdrawn => ls[i].until <= c.now
    BY <1>12 DEF Backed
  <2> QED
    BY <1>4, <1>12, <2>2, <2>3
<1>22. Backed(d)
  BY <1>20, <1>21 DEF Backed
<1> QED
  BY <1>15, <1>17, <1>18, <1>22 DEF Executed, d

\* With the same locks and as much in the locker, later: still backed.
LEMMA StaysBacked ==
  ASSUME NEW c, NEW d, Backed(c), c.locks \in Seq(LpLock), d.locks = c.locks,
         d.held = c.held, c.now \in Nat, d.now \in Nat, c.now <= d.now
  PROVE  Backed(d) /\ LocksGo(c, d)
<1>1. LockAmts(d) = LockAmts(c) /\ OpenLocks(d) = OpenLocks(c)
  BY DEF LockAmts, OpenLocks
<1>2. \A i \in DOMAIN d.locks : d.locks[i].withdrawn => d.locks[i].until <= d.now
  <2> SUFFICES ASSUME NEW i \in DOMAIN c.locks, c.locks[i].withdrawn
               PROVE  c.locks[i].until <= d.now
    OBVIOUS
  <2>1. c.locks[i].until <= c.now /\ c.locks[i].until \in Nat
    BY LocksFinite DEF Backed
  <2> QED
    BY <2>1
<1> QED
  BY <1>1, <1>2 DEF Backed, LocksGo

\* What a call leaves behind, whatever it is, when it does not revert and when
\* it does.
LEMMA CallKeeps ==
  ASSUME NEW c, Sound(c), Backed(c), NEW tx \in PageCalls, Known(tx, c)
  PROVE  LET d == Executed(c, tx) IN
         /\ Sound(d) /\ Backed(d) /\ LocksGo(c, d)
         /\ d.bal # c.bal => NoWorse(c, d, tx)
<1> DEFINE d == Executed(c, tx)
<1>0. c.locks \in Seq(LpLock) /\ c.now \in Nat /\ c.bal \in [Assets -> Nat]
  BY DEF Sound
<1>1. CASE ~Succeeds(c, tx)
  <2>1. d = c
    BY <1>1 DEF Executed
  <2> HIDE DEF d
  <2> QED
    BY <1>0, <2>1, StaysBacked DEF d
<1>2. CASE Succeeds(c, tx) /\ tx.kind \in {"wrap", "swap", "add", "remove"}
  <2>1. Sound(d) /\ NoWorse(c, d, tx) /\ d.locks = c.locks
    BY <1>2, WrapKeeps, SwapKeeps, AddKeeps, RemoveKeeps
  <2>2. d.held = c.held /\ d.now = c.now
    <3>1. DOMAIN c = ChainFields
      BY DEF Sound
    <3>2. CASE tx.kind = "wrap"
      BY <1>2, <3>1, <3>2 DEF Executed, Wrapped, ChainFields
    <3>3. CASE tx.kind = "swap"
      BY <1>2, <3>1, <3>3, ZenonT(60) DEF Executed, Swapped, Paid, ChainFields
    <3>4. CASE tx.kind = "add"
      BY <1>2, <3>1, <3>4, ZenonT(60) DEF Executed, Added, Paid, ChainFields
    <3>5. CASE tx.kind = "remove"
      BY <1>2, <3>1, <3>5 DEF Executed, Removed, Paid, ChainFields
    <3> QED
      BY <1>2, <3>2, <3>3, <3>4, <3>5
  <2> HIDE DEF d
  <2>3. Backed(d) /\ LocksGo(c, d)
    BY <1>0, <2>1, <2>2, StaysBacked
  <2> QED
    BY <2>1, <2>3 DEF d
<1>3. CASE Succeeds(c, tx) /\ tx.kind = "lock"
  BY <1>3, LockKeeps
<1>4. CASE Succeeds(c, tx) /\ tx.kind = "withdraw"
  BY <1>4, WithdrawKeeps
<1>5. CASE Succeeds(c, tx) /\ tx.kind = "approve"
  <2>1. d = [c EXCEPT !.allow[<<tx.asset, tx.spender>>] = tx.amt]
    BY <1>5 DEF Executed
  <2> HIDE DEF d
  <2>2. /\ DOMAIN d = ChainFields /\ d.bal = c.bal /\ d.pool = c.pool
        /\ d.locks = c.locks /\ d.held = c.held /\ d.now = c.now
    BY <2>1 DEF Sound, ChainFields
  <2>3. Sound(d)
    BY <2>2 DEF Sound
  <2>4. Backed(d) /\ LocksGo(c, d)
    BY <1>0, <2>2, StaysBacked
  <2> QED
    BY <2>2, <2>3, <2>4 DEF d
<1>6. tx.kind \in {"approve", "wrap", "swap", "add", "remove", "lock", "withdraw"}
  BY DEF PageCalls
<1> QED
  BY <1>1, <1>2, <1>3, <1>4, <1>5, <1>6

-----------------------------------------------------------------------------
(* GembaSwap: what the page offers                                         *)

PageFields ==
  {"tab", "mode", "give", "take", "amt", "entry", "until", "fot", "quote", "pool",
   "bal", "allow", "rows", "asking", "due", "hash"}

PageOK(p) ==
  /\ DOMAIN p = PageFields
  /\ p.tab \in Tabs /\ p.mode \in {"add", "remove"}
  /\ p.give \in Tokens /\ p.take \in Tokens
  /\ p.amt \in [Forms -> Nat] /\ p.entry \in [Forms -> Nat]
  /\ p.until \in Nat /\ p.quote \in Int /\ p.fot \in BOOLEAN
  /\ p.pool \in [tok: Nat, gmb: Nat, lp: Nat]
  /\ p.asking \in BOOLEAN

\* The rows are an earlier look at the locks.
RowsKnown(p, c) ==
  /\ DOMAIN p.rows \subseteq DOMAIN c.locks
  /\ \A i \in DOMAIN p.rows : p.rows[i].amt = c.locks[i].amt

\* The form a call was made from.
FormOf(kind) == IF kind \in {"wrap", "swap"} THEN "swap" ELSE kind

LEMMA LeastInt == ASSUME NEW tx \in PageCalls PROVE Least(tx) \in [Assets -> Int]
<1>1. /\ tx.kind \in {"approve", "wrap", "swap", "add", "remove", "lock", "withdraw"}
      /\ tx.amt \in Nat
      /\ tx.kind = "swap" => tx.min \in Int
      /\ tx.kind = "add" => tx.value \in Nat
      /\ tx.kind = "remove" => tx.minTok \in Int /\ tx.minGmb \in Int
  BY DEF PageCalls
<1>2. -tx.amt \in Int /\ tx.amt \in Int /\ (tx.kind = "add" => -tx.value \in Int)
  BY <1>1
<1>3. NoChange \in [Assets -> Int]
  BY DEF NoChange
<1>4. CASE tx.kind = "approve"
  BY <1>3, <1>4 DEF Least
<1>5. CASE tx.kind = "wrap"
  BY <1>2, <1>3, <1>5 DEF Least
<1>6. CASE tx.kind = "swap"
  BY <1>1, <1>2, <1>3, <1>6 DEF Least
<1>7. CASE tx.kind = "add"
  BY <1>2, <1>3, <1>7 DEF Least
<1>8. CASE tx.kind = "remove"
  BY <1>1, <1>2, <1>3, <1>8 DEF Least
<1>9. CASE tx.kind \in {"lock", "withdraw"}
  BY <1>2, <1>3, <1>9 DEF Least
<1> QED
  BY <1>1, <1>4, <1>5, <1>6, <1>7, <1>8, <1>9

\* What was shown of a call is what it does at least, as far as it promises.
Shows(floor, tx) ==
  /\ floor \in [Assets -> Int]
  /\ \A a \in Assets : Promised(tx, a) => floor[a] = Least(tx)[a]

LEMMA LeastShown == ASSUME NEW tx \in PageCalls PROVE Shows(Least(tx), tx)
  BY LeastInt DEF Shows

Offered(p, tx) ==
  /\ tx \in PageCalls /\ Shows(ShownFloor(p, tx), tx)
  /\ tx.kind # "withdraw" /\ p.amt[Focus(p)] > 0
  /\ tx.kind \in Spend => FormOf(tx.kind) = Focus(p)

LEMMA ApproveCall ==
  ASSUME NEW p, NEW a \in Assets, NEW s \in Spenders, NEW n \in Nat
  PROVE  /\ Approve(a, s, n) \in PageCalls /\ Approve(a, s, n).kind = "approve"
         /\ ShownFloor(p, Approve(a, s, n)) = Least(Approve(a, s, n))
  BY DEF Approve, PageCalls, ShownFloor, Least

LEMMA FocusForm == ASSUME NEW p, PageOK(p) PROVE Focus(p) \in Forms
  BY DEF PageOK, Focus, Tabs, Forms

LEMMA MinusInt == ASSUME NEW v \in Int PROVE Minus(v) \in Int
<1>1. SlipBps \in Nat
  BY FrontendAssumption
<1> QED
  BY <1>1 DEF Minus

LEMMA SwapOffers ==
  ASSUME NEW p, PageOK(p), NEW c, c.now \in Nat, Focus(p) = "swap",
         SwapOffer(p, c) # NoTx
  PROVE  Offered(p, SwapOffer(p, c))
<1> DEFINE n == p.amt["swap"]
           tx == SwapOffer(p, c)
<1>1. n \in Nat /\ p.give \in Tokens /\ p.take \in Tokens /\ p.quote \in Int
  BY DEF PageOK, Forms
<1>2. ~SamePair(p) /\ n # 0
  BY DEF SwapOffer
<1>3. CASE IsWrapUnwrap(p)
  <2>1. tx = [kind |-> "wrap", give |-> p.give, take |-> p.take, amt |-> n]
    BY <1>3 DEF SwapOffer
  <2>2. tx \in PageCalls
    BY <1>1, <1>3, <2>1 DEF PageCalls, IsWrapUnwrap
  <2>3. ShownFloor(p, tx) = Least(tx)
    BY <2>1 DEF ShownFloor, Least
  <2> QED
    BY <1>1, <1>2, <2>1, <2>2, <2>3, LeastShown DEF Offered, FormOf
<1>4. CASE ~IsWrapUnwrap(p) /\ tx = Approve(p.give, "router", n)
  <2>1. p.give \in Assets /\ "router" \in Spenders
    BY <1>1 DEF Tokens, Assets, Spenders
  <2> DEFINE a == Approve(p.give, "router", n)
  <2>2. a \in PageCalls /\ a.kind = "approve" /\ ShownFloor(p, a) = Least(a)
    BY <1>1, <2>1, ApproveCall, ZenonT(60)
  <2> HIDE DEF a
  <2>3. a = tx
    BY <1>4 DEF a
  <2> HIDE DEF tx
  <2> QED
    BY <1>1, <1>2, <2>2, <2>3, LeastShown DEF Offered, Spend, tx
<1>5. CASE ~IsWrapUnwrap(p)
           /\ tx = [kind |-> "swap", give |-> p.give, take |-> p.take, amt |-> n,
                    min |-> Minus(p.quote), deadline |-> c.now]
  <2>1. Minus(p.quote) \in Int
    BY <1>1, MinusInt
  <2>2. Trades(tx)
    BY <1>2, <1>5 DEF Trades, IsWrapUnwrap, SamePair
  <2>3. tx \in PageCalls
    BY <1>1, <1>5, <2>1, <2>2 DEF PageCalls
  <2>4. ShownFloor(p, tx) = Least(tx)
    BY <1>5 DEF ShownFloor, Least
  <2> QED
    BY <1>1, <1>2, <1>5, <2>3, <2>4, LeastShown DEF Offered, FormOf
<1> QED
  BY <1>2, <1>3, <1>4, <1>5 DEF SwapOffer

LEMMA AddOffers ==
  ASSUME NEW p, PageOK(p), NEW c, c.now \in Nat, Focus(p) = "add",
         AddOffer(p, c) # NoTx
  PROVE  Offered(p, AddOffer(p, c))
<1> DEFINE n == p.amt["add"]
           tx == AddOffer(p, c)
<1>1. n \in Nat /\ n # 0
  BY DEF PageOK, Forms, AddOffer
<1>2. Matching(p) \in Nat
  <2>1. p.pool.tok \in Nat /\ p.pool.gmb \in Nat
    BY DEF PageOK
  <2>2. n * p.pool.gmb \in Nat
    BY <1>1, <2>1
  <2>3. CASE p.pool.tok # 0
    BY <2>1, <2>2, <2>3, DivNat DEF Matching
  <2> QED
    BY <2>3 DEF Matching
<1>3. CASE tx = Approve("tok", "router", n)
  <2>1. tx \in PageCalls /\ tx.kind = "approve" /\ ShownFloor(p, tx) = Least(tx)
    BY <1>1, <1>3, ApproveCall DEF Assets, Spenders
  <2> QED
    BY <1>1, <2>1, LeastShown DEF Offered, Spend
<1>4. CASE tx = [kind |-> "add", amt |-> n, value |-> Matching(p),
                 minTok |-> AtLeast(p, n), minGmb |-> AtLeast(p, Matching(p)),
                 deadline |-> c.now]
  <2>1. AtLeast(p, n) \in Int /\ AtLeast(p, Matching(p)) \in Int
    BY <1>1, <1>2, MinusInt DEF AtLeast
  <2>2. tx \in PageCalls
    BY <1>1, <1>2, <1>4, <2>1 DEF PageCalls
  <2>3. ShownFloor(p, tx) = Least(tx)
    BY <1>4 DEF ShownFloor, Least
  <2> QED
    BY <1>1, <1>4, <2>2, <2>3, LeastShown DEF Offered, FormOf
<1> QED
  BY <1>3, <1>4 DEF AddOffer

LEMMA RemoveOffers ==
  ASSUME NEW p, PageOK(p), NEW c, c.now \in Nat, Focus(p) = "remove",
         RemoveOffer(p, c) # NoTx
  PROVE  Offered(p, RemoveOffer(p, c))
<1> DEFINE n == p.amt["remove"]
           tx == RemoveOffer(p, c)
<1>1. n \in Nat /\ n # 0
  BY DEF PageOK, Forms, RemoveOffer
<1>2. Share(p).tok \in Nat /\ Share(p).gmb \in Nat
  <2>1. p.pool.tok \in Nat /\ p.pool.gmb \in Nat /\ p.pool.lp \in Nat
    BY DEF PageOK
  <2>2. n * p.pool.tok \in Nat /\ n * p.pool.gmb \in Nat
    BY <1>1, <2>1
  <2>3. CASE p.pool.lp # 0
    <3>1. (n * p.pool.tok) \div p.pool.lp \in Nat
          /\ (n * p.pool.gmb) \div p.pool.lp \in Nat
      BY <2>1, <2>2, <2>3, DivNat
    <3> QED
      BY <2>3, <3>1 DEF Share, Redeemed
  <2> QED
    BY <2>3 DEF Share
<1>3. CASE tx = Approve("lp", "router", n)
  <2>1. tx \in PageCalls /\ tx.kind = "approve" /\ ShownFloor(p, tx) = Least(tx)
    BY <1>1, <1>3, ApproveCall DEF Assets, Spenders
  <2> QED
    BY <1>1, <2>1, LeastShown DEF Offered, Spend
<1>4. CASE tx = [kind |-> "remove", amt |-> n, fot |-> p.fot,
                 minTok |-> AtLeast(p, Share(p).tok),
                 minGmb |-> AtLeast(p, Share(p).gmb), deadline |-> c.now]
  <2>1. AtLeast(p, Share(p).tok) \in Int /\ AtLeast(p, Share(p).gmb) \in Int
    BY <1>2, MinusInt DEF AtLeast
  <2>2. p.fot \in BOOLEAN
    BY DEF PageOK
  <2>3. tx \in PageCalls
    BY <1>1, <1>4, <2>1, <2>2 DEF PageCalls
  <2>4. Shows(ShownFloor(p, tx), tx)
    <3>1. CASE ~p.fot
      <4>1. ShownFloor(p, tx) = Least(tx)
        BY <1>4, <3>1 DEF ShownFloor, Least, ShownShare, AtLeast
      <4> QED
        BY <2>3, <4>1, LeastShown
    <3>2. CASE p.fot
      <4> DEFINE o == [NoChange EXCEPT !["lp"] = -n, !["tok"] = Share(p).tok,
                                       !["gmb"] = Share(p).gmb]
      <4>1. ShownFloor(p, tx) = o
        BY <1>4, <3>2 DEF ShownFloor, ShownShare
      <4>2. o \in [Assets -> Int] /\ o["lp"] = -n
        BY <1>1, <1>2 DEF NoChange, Assets
      <4> HIDE DEF o
      <4>3. tx.kind = "remove" /\ tx.fot /\ Least(tx)["lp"] = -n
        BY <1>4, <3>2 DEF Least, NoChange, Assets
      <4> HIDE DEF tx
      <4> QED
        BY <4>1, <4>2, <4>3 DEF Shows, Promised
    <3> QED
      BY <2>2, <3>1, <3>2
  <2> QED
    BY <1>1, <1>4, <2>3, <2>4 DEF Offered, FormOf
<1> QED
  BY <1>3, <1>4 DEF RemoveOffer

LEMMA LockOffers ==
  ASSUME NEW p, PageOK(p), NEW c, Focus(p) = "lock", LockOffer(p, c) # NoTx
  PROVE  Offered(p, LockOffer(p, c))
<1> DEFINE n == p.amt["lock"]
           tx == LockOffer(p, c)
<1>1. n \in Nat /\ n # 0 /\ p.until \in Nat
  BY DEF PageOK, Forms, LockOffer
<1>2. CASE tx = Approve("lp", "locker", n)
  <2>1. tx \in PageCalls /\ tx.kind = "approve" /\ ShownFloor(p, tx) = Least(tx)
    BY <1>1, <1>2, ApproveCall DEF Assets, Spenders
  <2> QED
    BY <1>1, <2>1, LeastShown DEF Offered, Spend
<1>3. CASE tx = [kind |-> "lock", amt |-> n, until |-> p.until]
  <2>1. tx \in PageCalls
    BY <1>1, <1>3 DEF PageCalls
  <2>2. ShownFloor(p, tx) = Least(tx)
    BY <1>3 DEF ShownFloor, Least
  <2> QED
    BY <1>1, <1>3, <2>1, <2>2, LeastShown DEF Offered, FormOf
<1> QED
  BY <1>2, <1>3 DEF LockOffer

LEMMA OffersKept ==
  ASSUME NEW p, PageOK(p), NEW c, c.now \in Nat, Offer(p, c) # NoTx
  PROVE  Offered(p, Offer(p, c))
<1>1. CASE Focus(p) = "swap"
  BY <1>1, SwapOffers DEF Offer
<1>2. CASE Focus(p) = "add"
  BY <1>2, AddOffers DEF Offer
<1>3. CASE Focus(p) = "remove"
  BY <1>3, RemoveOffers DEF Offer
<1>4. CASE Focus(p) = "lock"
  BY <1>4, LockOffers DEF Offer
<1> QED
  BY <1>1, <1>2, <1>3, <1>4, FocusForm DEF Forms

LEMMA RowsKept ==
  ASSUME NEW p, NEW c, c.locks \in Seq(LpLock), RowsKnown(p, c),
         NEW tx \in RowOffers(p, c)
  PROVE  /\ tx \in PageCalls /\ tx.kind = "withdraw" /\ Known(tx, c)
         /\ Shows(ShownFloor(p, tx), tx)
<1>1. PICK i \in DOMAIN p.rows : tx = [kind |-> "withdraw", id |-> i, amt |-> p.rows[i].amt]
  BY DEF RowOffers
<1>2. i \in DOMAIN c.locks /\ p.rows[i].amt = c.locks[i].amt
  BY DEF RowsKnown
<1>3. i \in Nat /\ c.locks[i].amt \in Nat
  BY <1>2, LocksFinite
<1>4. ShownFloor(p, tx) = Least(tx) /\ tx \in PageCalls /\ Known(tx, c)
  BY <1>1, <1>2, <1>3 DEF PageCalls, Known, ShownFloor, Least
<1> QED
  BY <1>1, <1>4, LeastShown

-----------------------------------------------------------------------------
(* GembaSwap: calls under way                                              *)

\* A call as it was fixed when its button was pressed, with what was shown.
Asked ==
  {pr \in [tx: PageCalls, floor: [Assets -> Int], entry: Nat, mine: BOOLEAN] :
     Shows(pr.floor, pr.tx)}

UnderWay(q, c) == q \in Seq(Asked) /\ \A i \in DOMAIN q : Known(q[i].tx, c)

CallInv ==
  /\ Sound(chain) /\ Backed(chain)
  /\ PageOK(page) /\ RowsKnown(page, chain) /\ typed \in Nat
  /\ UnderWay(prompts, chain) /\ UnderWay(mempool, chain)

LEMMA OrphanedIs ==
  ASSUME NEW q \in Seq(Asked)
  PROVE  /\ Orphaned(q) \in Seq(Asked) /\ DOMAIN Orphaned(q) = DOMAIN q
         /\ \A i \in DOMAIN q :
              /\ Orphaned(q)[i].tx = q[i].tx /\ Orphaned(q)[i].entry = q[i].entry
              /\ ~Orphaned(q)[i].mine
<1>1. DOMAIN q = 1 .. Len(q) /\ Len(q) \in Nat /\ \A i \in DOMAIN q : q[i] \in Asked
  OBVIOUS
<1>2. \A pr \in Asked : LET o == [pr EXCEPT !.mine = FALSE] IN
        o \in Asked /\ o.tx = pr.tx /\ o.entry = pr.entry /\ ~o.mine
  BY DEF Asked
<1>3. /\ DOMAIN Orphaned(q) = DOMAIN q
      /\ \A i \in DOMAIN q : Orphaned(q)[i] = [q[i] EXCEPT !.mine = FALSE]
      /\ Orphaned(q) = [i \in 1 .. Len(q) |-> Orphaned(q)[i]]
  BY <1>1 DEF Orphaned
<1>4. \A i \in 1 .. Len(q) : Orphaned(q)[i] \in Asked
  BY <1>1, <1>2, <1>3
<1>5. Orphaned(q) \in [1 .. Len(q) -> Asked]
  BY <1>3, <1>4
<1>6. Orphaned(q) \in Seq(Asked)
  BY <1>1, <1>5
<1> QED
  BY <1>1, <1>2, <1>3, <1>6, ZenonT(60)

LEMMA TailUnderWay ==
  ASSUME NEW q, NEW c, UnderWay(q, c), q # <<>>
  PROVE  /\ UnderWay(Tail(q), c) /\ Head(q) \in Asked /\ Known(Head(q).tx, c)
         /\ Head(q).tx \in PageCalls /\ Head(q).entry \in Nat /\ Head(q).mine \in BOOLEAN
         /\ Head(q) = q[1] /\ 1 \in DOMAIN q
<1>1. q \in Seq(Asked)
  BY DEF UnderWay
<1>2. Head(q) = q[1] /\ 1 \in DOMAIN q /\ DOMAIN q = 1 .. Len(q)
  BY <1>1
<1>3. /\ Head(q) \in Asked /\ Tail(q) \in Seq(Asked) /\ Len(Tail(q)) = Len(q) - 1
      /\ \A i \in 1 .. Len(Tail(q)) : Tail(q)[i] = q[i + 1] /\ i + 1 \in DOMAIN q
  BY <1>1, <1>2, HeadTailProperties
<1>4. \A i \in DOMAIN Tail(q) : Known(Tail(q)[i].tx, c)
  BY <1>3 DEF UnderWay
<1> QED
  BY <1>2, <1>3, <1>4 DEF UnderWay, Asked

LEMMA AppendUnderWay ==
  ASSUME NEW q, NEW c, UnderWay(q, c), NEW pr \in Asked, Known(pr.tx, c)
  PROVE  UnderWay(Append(q, pr), c)
<1>1. q \in Seq(Asked)
  BY DEF UnderWay
<1>2. /\ Append(q, pr) \in Seq(Asked)
      /\ \A i \in DOMAIN Append(q, pr) : Append(q, pr)[i] = pr
           \/ (i \in DOMAIN q /\ Append(q, pr)[i] = q[i])
  BY <1>1, AppendProperties
<1> QED
  BY <1>2 DEF UnderWay

LEMMA OrphanedUnderWay ==
  ASSUME NEW q, NEW c, UnderWay(q, c)
  PROVE  UnderWay(Orphaned(q), c)
<1>1. q \in Seq(Asked)
  BY DEF UnderWay
<1> QED
  BY <1>1, OrphanedIs DEF UnderWay, Known

\* When locks only go on, what refers to them stays right.
LEMMA StillKnown ==
  ASSUME NEW c, NEW d, LocksGo(c, d)
  PROVE  /\ \A q : UnderWay(q, c) => UnderWay(q, d)
         /\ \A p : RowsKnown(p, c) => RowsKnown(p, d)
<1>1. \A tx : Known(tx, c) => Known(tx, d)
  BY DEF LocksGo, Known
<1>2. ASSUME NEW q, UnderWay(q, c) PROVE UnderWay(q, d)
  BY <1>1, <1>2 DEF UnderWay
<1>3. ASSUME NEW p, RowsKnown(p, c) PROVE RowsKnown(p, d)
  BY <1>3 DEF RowsKnown, LocksGo
<1> QED
  BY <1>2, <1>3

LEMMA FreshKeeps ==
  ASSUME NEW p, PageOK(p), NEW c, Sound(c), RowsKnown(p, c), NEW q \in Queries,
         Enabled(p, q)
  PROVE  /\ PageOK(Fresh(p, c, q)) /\ RowsKnown(Fresh(p, c, q), c)
         /\ Fresh(p, c, q).amt = p.amt /\ Fresh(p, c, q).entry = p.entry
         /\ Fresh(p, c, q).tab = p.tab /\ Fresh(p, c, q).mode = p.mode
         /\ Fresh(p, c, q).asking = p.asking
<1> DEFINE o == Fresh(p, c, q)
<1>1. CASE q = "quote"
  <2> DEFINE v == AmountOut(p.amt["swap"], c.pool[Side(p.give)], c.pool[Side(p.take)])
  <2>1. p.amt["swap"] \in Nat
    BY DEF PageOK, Forms
  <2>2. c.pool[Side(p.give)] \in Positive /\ c.pool[Side(p.take)] \in Positive
    BY DEF Sound, PoolStates, Side
  <2>3. v \in Int
    BY <2>1, <2>2, PaysOutLess
  <2>4. o = [p EXCEPT !.quote = v]
    BY <1>1 DEF Fresh
  <2> HIDE DEF v, o
  <2>5. PageOK(o) /\ RowsKnown(o, c) /\ o.amt = p.amt /\ o.entry = p.entry
        /\ o.tab = p.tab /\ o.mode = p.mode /\ o.asking = p.asking
    BY <2>3, <2>4 DEF PageOK, PageFields, RowsKnown
  <2> QED
    BY <2>5 DEF o
<1>2. CASE q = "pair"
  <2>1. c.pool \in [tok: Nat, gmb: Nat, lp: Nat]
    BY DEF Sound, PoolStates, Positive
  <2>2. o = [p EXCEPT !.pool = c.pool,
               !.allow[<<"lp", "router">>] = c.allow[<<"lp", "router">>]]
    BY <1>2 DEF Fresh
  <2> HIDE DEF o
  <2>3. /\ DOMAIN o = PageFields /\ o.pool = c.pool
        /\ \A f \in PageFields \ {"pool", "allow"} : o[f] = p[f]
    BY <2>2 DEF PageOK, PageFields
  <2>4. PageOK(o) /\ RowsKnown(o, c) /\ o.amt = p.amt /\ o.entry = p.entry
        /\ o.tab = p.tab /\ o.mode = p.mode /\ o.asking = p.asking
    BY <2>1, <2>3 DEF PageOK, PageFields, RowsKnown
  <2> QED
    BY <2>4 DEF o
<1>3. CASE q = "rows"
  <2>1. o = [p EXCEPT !.rows = c.locks]
    BY <1>3 DEF Fresh
  <2> HIDE DEF o
  <2>2. PageOK(o) /\ RowsKnown(o, c) /\ o.amt = p.amt /\ o.entry = p.entry
        /\ o.tab = p.tab /\ o.mode = p.mode /\ o.asking = p.asking
    BY <2>1 DEF PageOK, PageFields, RowsKnown
  <2> QED
    BY <2>2 DEF o
<1>4. CASE q \in {"balance", "allowance", "meta", "lockMeta"}
  <2>1. /\ DOMAIN o = PageFields
        /\ \A f \in PageFields \ {"bal", "allow"} : o[f] = p[f]
    BY <1>4 DEF Fresh, PageOK, PageFields
  <2> HIDE DEF o
  <2>2. PageOK(o) /\ RowsKnown(o, c) /\ o.amt = p.amt /\ o.entry = p.entry
        /\ o.tab = p.tab /\ o.mode = p.mode /\ o.asking = p.asking
    BY <2>1 DEF PageOK, PageFields, RowsKnown
  <2> QED
    BY <2>2 DEF o
<1> QED
  BY <1>1, <1>2, <1>3, <1>4 DEF Queries

\* A page whose cached pool, quote and rows are not touched but forgotten.
LEMMA EditKeeps ==
  ASSUME CallInv, Edit
  PROVE  /\ PageOK(page') /\ RowsKnown(page', chain) /\ typed' \in Nat
         /\ chain' = chain
         /\ UnderWay(prompts', chain) /\ UnderWay(mempool', chain)
<1> USE DEF CallInv
<1>0. PageOK(page) /\ RowsKnown(page, chain) /\ typed \in Nat
  OBVIOUS
<1>1. CASE \E t \in Tabs : OpenTab(t)
  <2>1. PICK t \in Tabs : OpenTab(t)
    BY <1>1
  <2>2. UnderWay(prompts', chain) /\ UnderWay(mempool', chain)
    BY <2>1, OrphanedUnderWay DEF OpenTab
  <2> DEFINE d == IF t = "swap" THEN {"balance"} ELSE {}
  <2>0. page' = [page EXCEPT !.tab = t, !.mode = "add", !.give = "gmb",
                    !.take = "wgmb", !.amt = [f \in Forms |-> 0], !.until = 0,
                    !.fot = FALSE, !.quote = NoQuote, !.asking = FALSE,
                    !.hash = "none", !.due = d]
    BY <2>1 DEF OpenTab, Mounted
  <2> HIDE DEF d
  <2>3. /\ DOMAIN page' = PageFields /\ page'.tab = t /\ page'.mode = "add"
        /\ page'.give = "gmb" /\ page'.take = "wgmb" /\ page'.until = 0
        /\ page'.quote = NoQuote /\ page'.amt = [f \in Forms |-> 0]
        /\ page'.entry = page.entry /\ page'.pool = page.pool
        /\ page'.rows = page.rows /\ page'.asking = FALSE /\ page'.fot = FALSE
    BY <1>0, <2>0 DEF PageOK, PageFields
  <2>4. PageOK(page') /\ RowsKnown(page', chain)
    <3>1. NoQuote \in Int /\ page'.amt \in [Forms -> Nat]
          /\ page'.give \in Tokens /\ page'.take \in Tokens
      BY <2>3 DEF NoQuote, Tokens
    <3>2. PageOK(page')
      <4>1. page'.asking \in BOOLEAN /\ page'.tab \in Tabs /\ page'.until \in Nat
            /\ page'.quote \in Int /\ page'.mode \in {"add", "remove"}
            /\ page'.fot \in BOOLEAN
        <5>1. page'.asking \in BOOLEAN /\ page'.fot \in BOOLEAN
          BY <2>3
        <5>2. page'.tab \in Tabs
          BY <2>1, <2>3
        <5>3. page'.until \in Nat
          BY <2>3
        <5>4. page'.quote \in Int /\ page'.mode \in {"add", "remove"}
          BY <2>3, <3>1
        <5> QED
          BY <5>1, <5>2, <5>3, <5>4
      <4>2. page'.entry \in [Forms -> Nat] /\ page'.pool \in [tok: Nat, gmb: Nat, lp: Nat]
        BY <1>0, <2>3 DEF PageOK
      <4>3. DOMAIN page' = PageFields
        BY <2>3
      <4> QED
        BY <3>1, <4>1, <4>2, <4>3 DEF PageOK
    <3>3. RowsKnown(page', chain)
      BY <1>0, <2>3 DEF RowsKnown
    <3> QED
      BY <3>2, <3>3
  <2> QED
    BY <1>0, <2>1, <2>2, <2>4 DEF OpenTab
<1>2. CASE Fill
  <2>1. /\ chain' = chain /\ prompts' = prompts /\ mempool' = mempool
        /\ typed' = typed + 1 /\ typed' \in Nat
    BY <1>0, <1>2 DEF Fill, Fields
  <2>2. PICK n \in Amounts :
          \/ \E k \in Picks : FillSwap(n, k.give, k.take)
          \/ \E mode \in {"add", "remove"}, fot \in BOOLEAN :
               FillLiquidity(n, mode, fot)
          \/ \E until \in 1..MaxClock : FillLock(n, until)
    BY <1>2 DEF Fill
  <2>3. n \in Nat
    BY FrontendAssumption
  <2>4. PageOK(page') /\ page'.rows = page.rows
    <3>1. CASE \E k \in Picks : FillSwap(n, k.give, k.take)
      <4>1. PICK k \in Picks : FillSwap(n, k.give, k.take)
        BY <3>1
      <4>2. k.give \in Tokens /\ k.take \in Tokens
        BY FrontendAssumption DEF Tokens
      <4>3. /\ DOMAIN page' = PageFields /\ page'.give = k.give /\ page'.take = k.take
            /\ page'.amt = [page.amt EXCEPT !["swap"] = n]
            /\ page'.entry = [page.entry EXCEPT !["swap"] = typed']
            /\ page'.quote = NoQuote
            /\ \A f \in {"tab", "mode", "until", "fot", "pool", "rows", "asking"} :
                 page'[f] = page[f]
        BY <1>0, <4>1 DEF FillSwap, PageOK, PageFields
      <4> QED
        BY <1>0, <2>1, <2>3, <4>2, <4>3 DEF PageOK, PageFields, Forms, NoQuote
    <3>2. CASE \E mode \in {"add", "remove"}, fot \in BOOLEAN :
                 FillLiquidity(n, mode, fot)
      <4>1. PICK mode \in {"add", "remove"}, fot \in BOOLEAN :
               FillLiquidity(n, mode, fot)
        BY <3>2
      <4>2. /\ DOMAIN page' = PageFields /\ page'.mode = mode /\ page'.fot = fot
            /\ page'.amt = [page.amt EXCEPT ![mode] = n]
            /\ page'.entry = [page.entry EXCEPT ![mode] = typed']
            /\ \A f \in {"tab", "give", "take", "quote", "until", "pool", "rows",
                         "asking"} : page'[f] = page[f]
        BY <1>0, <4>1 DEF FillLiquidity, PageOK, PageFields
      <4> QED
        BY <1>0, <2>1, <2>3, <4>2 DEF PageOK, PageFields, Forms
    <3>3. CASE \E until \in 1..MaxClock : FillLock(n, until)
      <4>1. PICK until \in 1..MaxClock : FillLock(n, until)
        BY <3>3
      <4>2. until \in Nat
        BY FrontendAssumption
      <4>3. /\ DOMAIN page' = PageFields /\ page'.until = until
            /\ page'.amt = [page.amt EXCEPT !["lock"] = n]
            /\ page'.entry = [page.entry EXCEPT !["lock"] = typed']
            /\ \A f \in {"tab", "mode", "give", "take", "fot", "quote", "pool",
                         "rows", "asking"} : page'[f] = page[f]
        BY <1>0, <4>1 DEF FillLock, PageOK, PageFields
      <4> QED
        BY <1>0, <2>1, <2>3, <4>2, <4>3 DEF PageOK, PageFields, Forms
    <3> QED
      BY <2>2, <3>1, <3>2, <3>3
  <2> QED
    BY <1>0, <2>1, <2>4 DEF RowsKnown
<1>3. CASE Flip
  <2>1. /\ chain' = chain /\ prompts' = prompts /\ mempool' = mempool
        /\ typed' = typed
    BY <1>3 DEF Flip, Fields
  <2>2. /\ DOMAIN page' = PageFields /\ page'.give = page.take /\ page'.take = page.give
        /\ page'.amt = [page.amt EXCEPT !["swap"] = 0] /\ page'.quote = NoQuote
        /\ \A f \in {"tab", "mode", "entry", "until", "fot", "pool", "rows",
                     "asking"} : page'[f] = page[f]
    BY <1>0, <1>3 DEF Flip, PageOK, PageFields
  <2>3. PageOK(page') /\ RowsKnown(page', chain)
    BY <1>0, <2>2 DEF PageOK, PageFields, Forms, NoQuote, RowsKnown
  <2> QED
    BY <1>0, <2>1, <2>3
<1>4. CASE \E m \in {"add", "remove"} : SetMode(m)
  <2>1. PICK m \in {"add", "remove"} : SetMode(m)
    BY <1>4
  <2>2. /\ chain' = chain /\ prompts' = prompts /\ mempool' = mempool
        /\ typed' = typed
    BY <2>1 DEF SetMode, Fields
  <2>3. PageOK(page') /\ RowsKnown(page', chain)
    BY <1>0, <2>1 DEF SetMode, PageOK, PageFields, RowsKnown
  <2> QED
    BY <1>0, <2>2, <2>3
<1> QED
  BY <1>1, <1>2, <1>3, <1>4 DEF Edit

LEMMA PressKeeps ==
  ASSUME CallInv, NEW tx \in PageCalls, Press(tx), Known(tx, chain),
         Shows(ShownFloor(page, tx), tx)
  PROVE  /\ PageOK(page') /\ RowsKnown(page', chain) /\ typed' = typed
         /\ chain' = chain
         /\ UnderWay(prompts', chain) /\ UnderWay(mempool', chain)
<1> DEFINE pr == [tx |-> tx, floor |-> ShownFloor(page, tx),
                  entry |-> page.entry[Focus(page)], mine |-> TRUE]
<1>1. PageOK(page) /\ RowsKnown(page, chain) /\ UnderWay(prompts, chain)
      /\ UnderWay(mempool, chain)
  BY DEF CallInv
<1>2. pr.entry \in Nat
  BY <1>1, FocusForm DEF PageOK
<1>3. pr \in Asked /\ pr.tx = tx
  BY <1>2 DEF Asked, Shows
<1>4. prompts' = Append(prompts, pr) /\ mempool' = mempool /\ chain' = chain
      /\ typed' = typed
  BY DEF Press
<1> HIDE DEF pr
<1>5. UnderWay(prompts', chain)
  BY <1>1, <1>3, <1>4, AppendUnderWay
<1>6. PageOK(page') /\ RowsKnown(page', chain)
  BY <1>1 DEF Press, PageOK, PageFields, RowsKnown
<1> QED
  BY <1>1, <1>4, <1>5, <1>6

LEMMA AnsweredKeeps ==
  ASSUME NEW p, PageOK(p), NEW c, RowsKnown(p, c), NEW a \in Asked, NEW h
  PROVE  /\ LET o == [p EXCEPT !.asking = FALSE] IN PageOK(o) /\ RowsKnown(o, c)
         /\ LET o == [p EXCEPT !.hash = h] IN PageOK(o) /\ RowsKnown(o, c)
         /\ LET o == [p EXCEPT !.due = h] IN PageOK(o) /\ RowsKnown(o, c)
         /\ LET o == ClearsAmount(p, a.tx) IN PageOK(o) /\ RowsKnown(o, c)
<1>1. ASSUME NEW o, DOMAIN o = PageFields, o.asking \in BOOLEAN,
             \A f \in PageFields \ {"asking", "hash", "due"} : o[f] = p[f]
      PROVE  PageOK(o) /\ RowsKnown(o, c)
  BY <1>1 DEF PageOK, PageFields, RowsKnown
<1> DEFINE o1 == [p EXCEPT !.asking = FALSE]
           o2 == [p EXCEPT !.hash = h]
           o3 == [p EXCEPT !.due = h]
           o4 == ClearsAmount(p, a.tx)
<1>2. PageOK(o1) /\ RowsKnown(o1, c)
  <2>1. /\ DOMAIN o1 = PageFields /\ o1.asking \in BOOLEAN
        /\ \A f \in PageFields \ {"asking", "hash", "due"} : o1[f] = p[f]
    BY DEF PageOK, PageFields
  <2> HIDE DEF o1
  <2> QED
    BY <1>1, <2>1
<1>3. PageOK(o2) /\ RowsKnown(o2, c)
  <2>1. /\ DOMAIN o2 = PageFields /\ o2.asking \in BOOLEAN
        /\ \A f \in PageFields \ {"asking", "hash", "due"} : o2[f] = p[f]
    BY DEF PageOK, PageFields
  <2> HIDE DEF o2
  <2> QED
    BY <1>1, <2>1
<1>4. PageOK(o3) /\ RowsKnown(o3, c)
  <2>1. /\ DOMAIN o3 = PageFields /\ o3.asking \in BOOLEAN
        /\ \A f \in PageFields \ {"asking", "hash", "due"} : o3[f] = p[f]
    BY DEF PageOK, PageFields
  <2> HIDE DEF o3
  <2> QED
    BY <1>1, <2>1
<1>5. PageOK(o4) /\ RowsKnown(o4, c)
  <2>1. \/ o4 = p
        \/ \E f \in Forms : o4 = [p EXCEPT !.amt[f] = 0]
        \/ o4 = [p EXCEPT !.amt["swap"] = 0, !.quote = NoQuote]
    BY DEF ClearsAmount, Forms
  <2> HIDE DEF o4
  <2>2. ASSUME NEW f \in Forms, o4 = [p EXCEPT !.amt[f] = 0]
        PROVE  PageOK(o4) /\ RowsKnown(o4, c)
    <3>1. /\ DOMAIN o4 = PageFields /\ o4.amt = [p.amt EXCEPT ![f] = 0]
          /\ \A g \in PageFields \ {"amt"} : o4[g] = p[g]
      BY <2>2 DEF PageOK, PageFields
    <3> QED
      BY <3>1 DEF PageOK, PageFields, RowsKnown
  <2>3. ASSUME o4 = [p EXCEPT !.amt["swap"] = 0, !.quote = NoQuote]
        PROVE  PageOK(o4) /\ RowsKnown(o4, c)
    <3>1. /\ DOMAIN o4 = PageFields /\ o4.amt = [p.amt EXCEPT !["swap"] = 0]
          /\ o4.quote = NoQuote
          /\ \A g \in PageFields \ {"amt", "quote"} : o4[g] = p[g]
      BY <2>3 DEF PageOK, PageFields
    <3>2. NoQuote \in Int
      BY DEF NoQuote
    <3>3. o4.amt \in [Forms -> Nat]
      <4>1. p.amt \in [Forms -> Nat]
        BY DEF PageOK
      <4> QED
        BY <3>1, <4>1 DEF Forms
    <3>4. \A g \in PageFields \ {"amt", "quote"} : o4[g] = p[g]
      BY <3>1
    <3>5. PageOK(o4)
      BY <3>1, <3>2, <3>3, <3>4 DEF PageOK, PageFields
    <3>6. o4.rows = p.rows
      BY <3>4 DEF PageFields
    <3> QED
      BY <3>5, <3>6 DEF RowsKnown
  <2> QED
    BY <2>1, <2>2, <2>3
<1> QED
  BY <1>2, <1>3, <1>4, <1>5

\* The wallet answers, or the page hears: the chain is as it was.
LEMMA AnswerKeeps ==
  ASSUME CallInv, Confirm \/ Refuse \/ AnswerLost \/ Receipt \/ ReceiptLost
  PROVE  /\ PageOK(page') /\ RowsKnown(page', chain) /\ typed' = typed
         /\ chain' = chain
         /\ UnderWay(prompts', chain) /\ UnderWay(mempool', chain)
<1>0. /\ PageOK(page) /\ RowsKnown(page, chain) /\ UnderWay(prompts, chain)
      /\ UnderWay(mempool, chain)
  BY DEF CallInv
<1>1. CASE Confirm
  <2> DEFINE pr == Head(prompts)
             o == ClearsAmount(page, pr.tx)
             o2 == [[o EXCEPT !.asking = FALSE] EXCEPT !.hash = "mining"]
             d == IF AsksAgain(page, pr.tx) THEN o.due \cup {"allowance"} ELSE o.due
             o3 == [o2 EXCEPT !.due = d]
  <2>1. /\ prompts # <<>> /\ prompts' = Tail(prompts) /\ chain' = chain
        /\ typed' = typed
        /\ mempool' = Append(mempool, [pr EXCEPT !.tx = Terms(pr)])
        /\ page' = IF ~pr.mine THEN page
                   ELSE [o EXCEPT !.asking = FALSE, !.hash = "mining",
                                  !.due = IF AsksAgain(page, pr.tx)
                                          THEN @ \cup {"allowance"} ELSE @]
    BY <1>1 DEF Confirm, Submitted
  <2>2. UnderWay(prompts', chain) /\ pr \in Asked /\ Known(pr.tx, chain)
    BY <1>0, <2>1, TailUnderWay
  <2>3. [pr EXCEPT !.tx = Terms(pr)] = pr
    BY <2>2 DEF Terms, Asked
  <2>4. UnderWay(mempool', chain)
    BY <1>0, <2>1, <2>2, <2>3, AppendUnderWay
  <2>5. PageOK(o) /\ RowsKnown(o, chain)
    BY <1>0, <2>2, AnsweredKeeps
  <2>6. [o EXCEPT !.asking = FALSE, !.hash = "mining",
                  !.due = IF AsksAgain(page, pr.tx)
                          THEN @ \cup {"allowance"} ELSE @] = o3
    BY <2>5 DEF PageOK, PageFields
  <2> HIDE DEF o, pr, d
  <2>7. PageOK(o2) /\ RowsKnown(o2, chain)
    <3>1. PageOK([o EXCEPT !.asking = FALSE])
          /\ RowsKnown([o EXCEPT !.asking = FALSE], chain)
      BY <2>2, <2>5, AnsweredKeeps
    <3> QED
      BY <2>2, <3>1, AnsweredKeeps
  <2> HIDE DEF o2
  <2>8. PageOK(o3) /\ RowsKnown(o3, chain)
    BY <2>2, <2>7, AnsweredKeeps
  <2> HIDE DEF o3
  <2>9. PageOK(page') /\ RowsKnown(page', chain)
    BY <1>0, <2>1, <2>6, <2>8 DEF pr
  <2> QED
    BY <2>1, <2>2, <2>4, <2>9
<1>2. CASE Refuse
  <2>1. /\ prompts # <<>> /\ prompts' = Tail(prompts) /\ chain' = chain
        /\ typed' = typed /\ mempool' = mempool
        /\ page' = page \/ page' = [page EXCEPT !.asking = FALSE]
    BY <1>2 DEF Refuse, Answered
  <2>2. UnderWay(prompts', chain) /\ Head(prompts) \in Asked
    BY <1>0, <2>1, TailUnderWay
  <2> QED
    BY <1>0, <2>1, <2>2, AnsweredKeeps, ZenonT(60)
<1>3. CASE AnswerLost
  <2> DEFINE pr == Head(prompts)
  <2>1. /\ prompts # <<>> /\ prompts' = Tail(prompts) /\ chain' = chain
        /\ typed' = typed
        /\ mempool' = Append(mempool, [pr EXCEPT !.mine = FALSE])
        /\ page' = page \/ page' = [page EXCEPT !.asking = FALSE]
    BY <1>3 DEF AnswerLost, Answered, Submitted
  <2>2. UnderWay(prompts', chain) /\ pr \in Asked /\ Known(pr.tx, chain)
    BY <1>0, <2>1, TailUnderWay
  <2> HIDE DEF pr
  <2>3. [pr EXCEPT !.mine = FALSE] \in Asked /\ [pr EXCEPT !.mine = FALSE].tx = pr.tx
    BY <2>2 DEF Asked
  <2>4. UnderWay(mempool', chain)
    BY <1>0, <2>1, <2>2, <2>3, AppendUnderWay
  <2>5. PageOK(page') /\ RowsKnown(page', chain)
    BY <1>0, <2>1, <2>2, AnsweredKeeps, ZenonT(60)
  <2> QED
    BY <2>1, <2>2, <2>4, <2>5
<1>4. CASE Receipt \/ ReceiptLost
  <2>1. /\ chain' = chain /\ typed' = typed /\ prompts' = prompts
        /\ mempool' \in {mempool, Orphaned(mempool)}
        /\ \E h : page' = [page EXCEPT !.hash = h]
    BY <1>4 DEF Receipt, ReceiptLost, Fields
  <2>2. UnderWay(mempool', chain)
    BY <1>0, <2>1, OrphanedUnderWay
  <2>3. \A h : PageOK([page EXCEPT !.hash = h])
               /\ RowsKnown([page EXCEPT !.hash = h], chain)
    <3> TAKE h
    <3> DEFINE o == [page EXCEPT !.hash = h]
    <3>1. DOMAIN o = PageFields /\ \A f \in PageFields \ {"hash"} : o[f] = page[f]
      BY <1>0 DEF PageOK, PageFields
    <3> HIDE DEF o
    <3>2. PageOK(o) /\ RowsKnown(o, chain)
      BY <1>0, <3>1 DEF PageOK, PageFields, RowsKnown
    <3> QED
      BY <3>2 DEF o
  <2> QED
    BY <1>0, <2>1, <2>2, <2>3
<1> QED
  BY <1>1, <1>2, <1>3, <1>4

LEMMA ReadKeeps ==
  ASSUME CallInv, \E q \in Queries : Read(q)
  PROVE  /\ PageOK(page') /\ RowsKnown(page', chain) /\ typed' = typed
         /\ chain' = chain /\ prompts' = prompts /\ mempool' = mempool
         /\ page'.amt = page.amt /\ page'.entry = page.entry
         /\ page'.tab = page.tab /\ page'.mode = page.mode
         /\ page'.asking = page.asking
<1>1. PICK q \in Queries : Read(q)
  OBVIOUS
<1> DEFINE o == Fresh(page, chain, q)
<1>2. /\ chain' = chain /\ typed' = typed /\ prompts' = prompts
      /\ mempool' = mempool /\ page' = [o EXCEPT !.due = @ \ {q}]
  BY <1>1 DEF Read, Fields
<1>3. /\ PageOK(o) /\ RowsKnown(o, chain) /\ o.amt = page.amt
      /\ o.entry = page.entry /\ o.tab = page.tab /\ o.mode = page.mode
      /\ o.asking = page.asking
  BY <1>1, FreshKeeps DEF CallInv, Read
<1> HIDE DEF o
<1>4. /\ DOMAIN page' = PageFields
      /\ \A f \in PageFields \ {"due"} : page'[f] = o[f]
  BY <1>2, <1>3 DEF PageOK, PageFields
<1>5. PageOK(page') /\ RowsKnown(page', chain)
  BY <1>3, <1>4 DEF PageOK, PageFields, RowsKnown
<1> QED
  BY <1>2, <1>3, <1>4, <1>5 DEF PageFields

\* What others do to the chain.
LEMMA OthersKeep ==
  ASSUME Sound(chain), Backed(chain),
         \/ \E r \in Pools : Trade(r)
         \/ \E id \in DOMAIN chain.locks, until \in 1 .. MaxClock + 1 : Extend(id, until)
         \/ ClockTicks
  PROVE  /\ Sound(chain') /\ Backed(chain') /\ LocksGo(chain, chain')
         /\ chain'.bal = chain.bal
         /\ page' = page /\ prompts' = prompts /\ mempool' = mempool
         /\ typed' = typed
<1>0. /\ DOMAIN chain = ChainFields /\ chain.bal \in [Assets -> Nat]
      /\ chain.pool \in PoolStates /\ chain.locks \in Seq(LpLock)
      /\ chain.held \in Nat /\ chain.now \in Nat
      /\ chain.bal["lp"] + chain.held < chain.pool.lp
  BY DEF Sound
<1>1. CASE \E r \in Pools : Trade(r)
  <2>1. PICK r \in Pools : Trade(r)
    BY <1>1
  <2>2. r.tok \in Positive /\ r.gmb \in Positive
    BY FrontendAssumption DEF Positive
  <2> DEFINE p == [chain.pool EXCEPT !.tok = r.tok, !.gmb = r.gmb]
  <2>3. /\ DOMAIN chain' = ChainFields /\ chain'.pool = p
        /\ \A f \in ChainFields \ {"pool"} : chain'[f] = chain[f]
    BY <1>0, <2>1 DEF Trade, ChainFields
  <2>4. p \in PoolStates /\ p.lp = chain.pool.lp
    BY <1>0, <2>2 DEF PoolStates
  <2> HIDE DEF p
  <2>5. /\ chain'.bal = chain.bal /\ chain'.locks = chain.locks
        /\ chain'.held = chain.held /\ chain'.now = chain.now
    BY <2>3 DEF ChainFields
  <2>6. Sound(chain')
    BY <1>0, <2>3, <2>4, <2>5 DEF Sound
  <2>7. Backed(chain') /\ LocksGo(chain, chain')
    BY <1>0, <2>5, StaysBacked
  <2> QED
    BY <2>1, <2>5, <2>6, <2>7 DEF Trade
<1>2. CASE ClockTicks
  <2>1. /\ DOMAIN chain' = ChainFields /\ chain'.now = chain.now + 1
        /\ chain'.bal = chain.bal /\ chain'.locks = chain.locks
        /\ chain'.held = chain.held /\ chain'.pool = chain.pool
    BY <1>0, <1>2 DEF ClockTicks, ChainFields
  <2>2. Sound(chain')
    BY <1>0, <2>1 DEF Sound
  <2>3. Backed(chain') /\ LocksGo(chain, chain')
    <3>1. chain.now <= chain'.now /\ chain'.now \in Nat
      BY <1>0, <2>1
    <3> QED
      BY <1>0, <2>1, <3>1, StaysBacked
  <2> QED
    BY <1>2, <2>1, <2>2, <2>3 DEF ClockTicks
<1>3. CASE \E id \in DOMAIN chain.locks, until \in 1 .. MaxClock + 1 : Extend(id, until)
  <2>1. PICK id \in DOMAIN chain.locks, until \in 1 .. MaxClock + 1 : Extend(id, until)
    BY <1>3
  <2> DEFINE ls == [chain.locks EXCEPT ![id].until = until]
             k == Len(chain.locks)
  <2>2. /\ DOMAIN chain' = ChainFields /\ chain'.locks = ls
        /\ chain'.bal = chain.bal /\ chain'.now = chain.now
        /\ chain'.held = chain.held /\ chain'.pool = chain.pool
        /\ ~chain.locks[id].withdrawn
    BY <1>0, <2>1 DEF Extend, Extends, Extended, ChainFields
  <2>3. until \in Nat
    BY FrontendAssumption
  <2>4. /\ DOMAIN chain.locks = 1 .. k /\ k \in Nat
        /\ \A i \in DOMAIN chain.locks : chain.locks[i] \in LpLock
    BY <1>0
  <2>5. /\ DOMAIN ls = DOMAIN chain.locks
        /\ \A i \in DOMAIN chain.locks \ {id} : ls[i] = chain.locks[i]
        /\ ls[id] = [chain.locks[id] EXCEPT !.until = until]
    OBVIOUS
  <2>6. /\ ls[id] \in LpLock /\ ls[id].amt = chain.locks[id].amt
        /\ ~ls[id].withdrawn
    BY <2>2, <2>3, <2>4, <2>5, ZenonT(60) DEF LpLock
  <2>7. ls \in Seq(LpLock)
    <3>1. ls = [i \in 1 .. k |-> ls[i]]
      BY <2>4
    <3>2. \A i \in 1 .. k : ls[i] \in LpLock
      BY <2>4, <2>5, <2>6
    <3> HIDE DEF ls
    <3>3. ls \in [1 .. k -> LpLock]
      BY <3>1, <3>2
    <3> QED
      BY <2>4, <3>3
  <2> HIDE DEF ls
  <2>8. Sound(chain')
    BY <1>0, <2>2, <2>7 DEF Sound
  <2>9. LocksGo(chain, chain')
    BY <2>2, <2>5, <2>6 DEF LocksGo
  <2>10. LockAmts(chain') = LockAmts(chain)
    <3>1. \A i \in DOMAIN chain.locks : ls[i].amt = chain.locks[i].amt
      BY <2>5, <2>6
    <3> QED
      BY <2>2, <2>5, <3>1 DEF LockAmts
  <2>11. OpenLocks(chain') = OpenLocks(chain)
    <3>1. \A i \in DOMAIN chain.locks : ls[i].withdrawn <=> chain.locks[i].withdrawn
      BY <2>2, <2>5, <2>6
    <3>2. \A i : i \in OpenLocks(chain') <=> i \in OpenLocks(chain)
      BY <2>2, <2>5, <3>1 DEF OpenLocks
    <3> QED
      BY <3>2
  <2>12. \A i \in DOMAIN chain'.locks :
           chain'.locks[i].withdrawn => chain'.locks[i].until <= chain'.now
    BY <2>2, <2>5, <2>6 DEF Backed
  <2>13. Backed(chain')
    BY <2>2, <2>10, <2>11, <2>12 DEF Backed
  <2> QED
    BY <2>1, <2>2, <2>8, <2>9, <2>13 DEF Extend
<1> QED
  BY <1>1, <1>2, <1>3

LEMMA MineKeeps ==
  ASSUME CallInv, Mine
  PROVE  /\ Sound(chain') /\ Backed(chain') /\ LocksGo(chain, chain')
         /\ PageOK(page') /\ RowsKnown(page', chain) /\ typed' = typed
         /\ prompts' = prompts /\ UnderWay(mempool', chain)
         /\ mempool # <<>> /\ Shows(Head(mempool).floor, Head(mempool).tx)
         /\ chain'.bal # chain.bal => NoWorse(chain, chain', Head(mempool).tx)
<1> DEFINE m == Head(mempool)
<1>1. /\ mempool # <<>> /\ chain' = Executed(chain, m.tx) /\ mempool' = Tail(mempool)
      /\ prompts' = prompts /\ typed' = typed
      /\ page' = IF ~m.mine THEN page
                 ELSE [page EXCEPT !.hash = "mined"]
  BY DEF Mine
<1>2. /\ UnderWay(mempool', chain) /\ m \in Asked /\ Known(m.tx, chain)
      /\ m.tx \in PageCalls
  BY <1>1, TailUnderWay DEF CallInv
<1>3. Shows(m.floor, m.tx)
  BY <1>2 DEF Asked
<1> HIDE DEF m
<1>4. PageOK(page') /\ RowsKnown(page', chain)
  BY <1>1, <1>2, AnsweredKeeps DEF CallInv
<1>5. /\ Sound(chain') /\ Backed(chain') /\ LocksGo(chain, chain')
      /\ chain'.bal # chain.bal => NoWorse(chain, chain', m.tx)
  BY <1>1, <1>2, CallKeeps DEF CallInv
<1> QED
  BY <1>1, <1>2, <1>3, <1>4, <1>5 DEF m

LEMMA CallInit == PageInit => CallInv
<1> SUFFICES ASSUME PageInit PROVE CallInv
  OBVIOUS
<1>1. /\ chain \in [bal: [Assets -> Nat], allow: [Assets \X Spenders -> Nat],
                    pool: [tok: Nat \ {0}, gmb: Nat \ {0}, lp: Nat \ {0}],
                    locks: {<<>>}, held: {0}, now: Nat]
      /\ chain.bal["lp"] < chain.pool.lp
  BY GenesisAssumption DEF PageInit
<1>2. /\ DOMAIN chain = ChainFields /\ chain.bal \in [Assets -> Nat]
      /\ chain.pool \in PoolStates /\ chain.locks = <<>> /\ chain.held = 0
      /\ chain.now \in Nat
  BY <1>1 DEF ChainFields, PoolStates, Positive
<1>3. Sound(chain)
  <2>1. chain.bal["lp"] \in Nat
    BY <1>2 DEF Assets
  <2>2. chain.locks \in Seq(LpLock)
    BY <1>2
  <2> QED
    BY <1>1, <1>2, <2>1, <2>2 DEF Sound
<1>4. Backed(chain)
  <2>1. OpenLocks(chain) = {} /\ DOMAIN chain.locks = {}
    BY <1>2 DEF OpenLocks
  <2> QED
    BY <1>2, <2>1, SumEmpty DEF Backed
<1>5. PageOK(page) /\ RowsKnown(page, chain)
  <2>1. DOMAIN page = PageFields
    BY DEF PageInit, PageFields
  <2>2. /\ page.tab \in Tabs /\ page.mode \in {"add", "remove"}
        /\ page.give \in Tokens /\ page.take \in Tokens
    BY DEF PageInit, Tabs, Tokens
  <2>3. /\ page.amt \in [Forms -> Nat] /\ page.entry \in [Forms -> Nat]
        /\ page.until \in Nat /\ page.quote \in Int
    BY DEF PageInit, NoQuote
  <2>4. page.pool \in [tok: Nat, gmb: Nat, lp: Nat]
    BY DEF PageInit, NoPool
  <2>5. page.asking \in BOOLEAN /\ page.fot \in BOOLEAN
    BY DEF PageInit
  <2>6. page.rows = <<>>
    BY DEF PageInit
  <2> QED
    BY <2>1, <2>2, <2>3, <2>4, <2>5, <2>6 DEF PageOK, RowsKnown
<1>6. UnderWay(prompts, chain) /\ UnderWay(mempool, chain) /\ typed \in Nat
  BY DEF PageInit, UnderWay
<1> QED
  BY <1>3, <1>4, <1>5, <1>6 DEF CallInv

LEMMA CallStep == CallInv /\ [PageNext]_pageVars => CallInv'
<1> SUFFICES ASSUME CallInv, [PageNext]_pageVars PROVE CallInv'
  OBVIOUS
<1>0. /\ Sound(chain) /\ Backed(chain) /\ PageOK(page) /\ RowsKnown(page, chain)
      /\ typed \in Nat /\ UnderWay(prompts, chain) /\ UnderWay(mempool, chain)
      /\ chain.now \in Nat /\ chain.locks \in Seq(LpLock)
  BY DEF CallInv, Sound
<1>1. ASSUME chain' = chain, PageOK(page'), RowsKnown(page', chain), typed' \in Nat,
             UnderWay(prompts', chain), UnderWay(mempool', chain)
      PROVE  CallInv'
  BY <1>0, <1>1 DEF CallInv
<1>2. CASE Edit
  BY <1>1, <1>2, EditKeeps
<1>3. CASE PressButton
  <2> DEFINE tx == Offer(page, chain)
  <2>1. tx # NoTx /\ Press(tx)
    BY <1>3 DEF PressButton, Press
  <2>2. tx \in PageCalls /\ Shows(ShownFloor(page, tx), tx) /\ Known(tx, chain)
    BY <1>0, <2>1, OffersKept DEF Offered, Known
  <2> QED
    BY <1>0, <1>1, <2>1, <2>2, PressKeeps
<1>4. CASE PressRow
  <2>1. PICK tx \in RowOffers(page, chain) : Press(tx)
    BY <1>4 DEF PressRow
  <2>2. tx \in PageCalls /\ Shows(ShownFloor(page, tx), tx) /\ Known(tx, chain)
    BY <1>0, RowsKept
  <2> QED
    BY <1>0, <1>1, <2>1, <2>2, PressKeeps
<1>5. CASE \E q \in Queries : Read(q)
  BY <1>0, <1>1, <1>5, ReadKeeps
<1>6. CASE Confirm \/ Refuse \/ AnswerLost \/ Receipt \/ ReceiptLost
  BY <1>0, <1>1, <1>6, AnswerKeeps
<1>7. CASE Mine
  <2>1. /\ Sound(chain') /\ Backed(chain') /\ LocksGo(chain, chain')
        /\ PageOK(page') /\ RowsKnown(page', chain) /\ typed' = typed
        /\ prompts' = prompts /\ UnderWay(mempool', chain)
    BY <1>7, MineKeeps
  <2>2. UnderWay(mempool', chain') /\ RowsKnown(page', chain')
        /\ UnderWay(prompts', chain')
    BY <1>0, <2>1, StillKnown
  <2> QED
    BY <1>0, <2>1, <2>2 DEF CallInv
<1>8. CASE \/ \E r \in Pools : Trade(r)
           \/ \E id \in DOMAIN chain.locks, until \in 1 .. MaxClock + 1 : Extend(id, until)
           \/ ClockTicks
  <2>1. /\ Sound(chain') /\ Backed(chain') /\ LocksGo(chain, chain')
        /\ page' = page /\ prompts' = prompts /\ mempool' = mempool
        /\ typed' = typed
    BY <1>0, <1>8, OthersKeep
  <2>2. UnderWay(mempool', chain') /\ RowsKnown(page', chain')
        /\ UnderWay(prompts', chain')
    BY <1>0, <2>1, StillKnown
  <2> QED
    BY <1>0, <2>1, <2>2 DEF CallInv
<1>9. CASE UNCHANGED pageVars
  BY <1>9 DEF CallInv, pageVars
<1> QED
  BY <1>2, <1>3, <1>4, <1>5, <1>6, <1>7, <1>8, <1>9 DEF PageNext

LEMMA CallsKept == PageSpec => []CallInv
  BY CallInit, CallStep, PTL DEF PageSpec

\* The locker holds what its open locks record, and none opens early
\* (LiquidityLocker.lock, withdraw, extend), for any amounts, dates and
\* numbers of locks, with calls of the page signed late, twice or never.
THEOREM LockerHoldsItsLocks == PageSpec => []LocksKept
<1>1. CallInv => LocksKept
  BY DEF CallInv, Backed, LockAmts, OpenLocks, LocksKept
<1> QED
  BY <1>1, CallsKept, PTL

\* No call that is mined leaves a balance worse than the form showed when its
\* button was pressed (SwapForm, LiquidityForm, LockForm), for any pool, amounts, slippage and
\* trades of others in between.
THEOREM CostsNoMoreThanShown == PageSpec => NoWorseThanShown
<1> DEFINE Keeps == mempool # <<>> /\ chain'.bal # chain.bal =>
              \A a \in Assets :
                Promised(Head(mempool).tx, a) =>
                  chain'.bal[a] - chain.bal[a] >= Head(mempool).floor[a]
<1>1. CallInv /\ [PageNext]_pageVars => [Keeps]_pageVars
  <2> SUFFICES ASSUME CallInv, PageNext, chain'.bal # chain.bal
               PROVE  Keeps
    BY DEF pageVars
  <2>0. Sound(chain) /\ Backed(chain) /\ PageOK(page) /\ RowsKnown(page, chain)
    BY DEF CallInv
  <2>1. chain' # chain
    OBVIOUS
  <2>2. CASE Mine
    BY <2>2, MineKeeps DEF NoWorse, Shows
  <2>3. CASE \/ \E r \in Pools : Trade(r)
             \/ \E id \in DOMAIN chain.locks, until \in 1 .. MaxClock + 1 :
                  Extend(id, until)
             \/ ClockTicks
    BY <2>0, <2>3, OthersKeep
  <2>4. CASE Edit
    BY <2>1, <2>4, EditKeeps
  <2>5. CASE PressButton \/ PressRow
    BY <2>1, <2>5 DEF PressButton, PressRow, Press
  <2>6. CASE \E q \in Queries : Read(q)
    BY <2>1, <2>6, ReadKeeps
  <2>7. CASE Confirm \/ Refuse \/ AnswerLost \/ Receipt \/ ReceiptLost
    BY <2>1, <2>7, AnswerKeeps
  <2> QED
    BY <2>2, <2>3, <2>4, <2>5, <2>6, <2>7 DEF PageNext
<1>2. PageSpec => [][Keeps]_pageVars
  BY <1>1, CallsKept, PTL DEF PageSpec
<1> QED
  BY <1>2 DEF NoWorseThanShown

-----------------------------------------------------------------------------
(* GembaSwap: an entry is spent once                                       *)

\* No form holds an amount typed with entry e any more.
Gone(p, e) == \A f \in Forms : p.entry[f] = e => p.amt[f] = 0

Spending(pr, e) == pr.tx.kind \in Spend /\ pr.entry = e

\* Of one entry: a call for it waits in the wallet at most once, and then none
\* went out; the form it came from still holds it, or nothing does.
OnceFor(e, p, q, s, t) ==
  /\ s[e] <= 1 /\ (s[e] # 0 => e <= t /\ Gone(p, e))
  /\ \A i \in DOMAIN q : Spending(q[i], e) =>
       /\ s[e] = 0
       /\ \A j \in DOMAIN q : Spending(q[j], e) => j = i
       /\ q[i].mine => \A f \in Forms : p.entry[f] = e => f = FormOf(q[i].tx.kind)
       /\ ~q[i].mine => Gone(p, e)

\* Page p, wallet q, calls s submitted for each entry, t entries, l lost.
Once(p, q, s, t, l) ==
  /\ s \in [1 .. MaxEvents -> Nat]
  /\ \A f \in Forms : p.entry[f] <= t
  /\ \A f, g \in Forms : p.entry[f] = p.entry[g] /\ p.entry[f] # 0 => f = g
  /\ \A i \in DOMAIN q : q[i].entry <= t /\ (q[i].mine => p.asking)
  /\ \A i, j \in DOMAIN q : q[i].mine /\ q[j].mine => i = j
  /\ \A e \in (1 .. MaxEvents) \ l : OnceFor(e, p, q, s, t)

OnceInv == Once(page, prompts, spends, typed, lost)

\* What the step lemmas are about.
Typing(p, q, t) == PageOK(p) /\ q \in Seq(Asked) /\ t \in Nat

\* Fields are emptied, nothing else.
LEMMA OnceLess ==
  ASSUME NEW p, NEW q, NEW s, NEW t, NEW l, Once(p, q, s, t, l),
         NEW o, o.entry = p.entry, p.asking => o.asking,
         \A f \in Forms : o.amt[f] \in {p.amt[f], 0}
  PROVE  Once(o, q, s, t, l)
<1>1. \A e : Gone(p, e) => Gone(o, e)
  BY DEF Gone
<1>2. \A e : OnceFor(e, p, q, s, t) => OnceFor(e, o, q, s, t)
  BY <1>1 DEF OnceFor
<1> QED
  BY <1>2 DEF Once

\* The tab is left.
LEMMA OnceLeft ==
  ASSUME NEW p, NEW q, NEW s, NEW t, NEW l, Once(p, q, s, t, l), Typing(p, q, t),
         NEW o, o.entry = p.entry, \A f \in Forms : o.amt[f] = 0
  PROVE  Once(o, Orphaned(q), s, t, l)
<1> DEFINE r == Orphaned(q)
<1>1. /\ DOMAIN r = DOMAIN q
      /\ \A i \in DOMAIN q : r[i].tx = q[i].tx /\ r[i].entry = q[i].entry /\ ~r[i].mine
  BY OrphanedIs DEF Typing
<1> HIDE DEF r
<1>2. \A e : Gone(o, e)
  BY DEF Gone
<1>3. ASSUME NEW e, OnceFor(e, p, q, s, t) PROVE OnceFor(e, o, r, s, t)
  <2>1. \A i \in DOMAIN q : Spending(r[i], e) <=> Spending(q[i], e)
    BY <1>1 DEF Spending
  <2> QED
    BY <1>1, <1>2, <1>3, <2>1 DEF OnceFor
<1>4. Once(o, r, s, t, l)
  BY <1>1, <1>3 DEF Once
<1> QED
  BY <1>4 DEF r

\* An amount is typed into a form.
LEMMA OnceFilled ==
  ASSUME NEW p, NEW q, NEW s, NEW t, NEW l, Once(p, q, s, t, l), Typing(p, q, t),
         NEW o, NEW g \in Forms, o.entry = [p.entry EXCEPT ![g] = t + 1],
         \A f \in Forms \ {g} : o.amt[f] = p.amt[f], o.asking = p.asking
  PROVE  Once(o, q, s, t + 1, l)
<1>1. /\ \A f \in Forms : p.entry[f] \in Nat /\ p.entry[f] <= t
      /\ o.entry[g] = t + 1 /\ \A f \in Forms \ {g} : o.entry[f] = p.entry[f]
      /\ t \in Nat
  BY DEF Typing, PageOK, Once
<1>2. /\ \A i \in DOMAIN q : q[i].entry <= t /\ q[i].entry \in Nat
      /\ \A i \in DOMAIN q : q[i].entry <= t + 1 /\ q[i].entry # t + 1
  <2>1. \A i \in DOMAIN q : q[i] \in Asked
    BY DEF Typing
  <2>2. \A i \in DOMAIN q : q[i].entry \in Nat /\ q[i].entry <= t
    BY <2>1 DEF Asked, Once
  <2> QED
    BY <1>1, <2>2
<1>3. ASSUME NEW e \in (1 .. MaxEvents) \ l, OnceFor(e, p, q, s, t)
      PROVE  OnceFor(e, o, q, s, t + 1)
  <2>1. CASE e <= t
    <3>1. \A f \in Forms : o.entry[f] = e => f # g /\ p.entry[f] = e
                                               /\ o.amt[f] = p.amt[f]
      BY <1>1, <2>1
    <3>2. Gone(p, e) => Gone(o, e)
      BY <3>1 DEF Gone
    <3>3. e <= t + 1
      BY <1>1, <2>1
    <3> QED
      BY <1>3, <3>1, <3>2, <3>3 DEF OnceFor
  <2>2. CASE ~(e <= t)
    <3>1. \A i \in DOMAIN q : ~Spending(q[i], e)
      BY <1>1, <1>2, <2>2 DEF Spending
    <3>2. s[e] = 0
      BY <1>3, <2>2 DEF OnceFor
    <3> QED
      BY <3>1, <3>2 DEF OnceFor
  <2> QED
    BY <2>1, <2>2
<1>4. \A f \in Forms : o.entry[f] <= t + 1
  BY <1>1
<1>5. \A f, h \in Forms : o.entry[f] = o.entry[h] /\ o.entry[f] # 0 => f = h
  <2> SUFFICES ASSUME NEW f \in Forms, NEW h \in Forms, o.entry[f] = o.entry[h],
                      o.entry[f] # 0
               PROVE  f = h
    OBVIOUS
  <2>1. CASE f # g /\ h # g
    BY <1>1, <2>1 DEF Once
  <2>2. CASE f = g /\ h # g
    BY <1>1, <2>2
  <2>3. CASE f # g /\ h = g
    BY <1>1, <2>3
  <2> QED
    BY <2>1, <2>2, <2>3
<1> QED
  BY <1>2, <1>3, <1>4, <1>5 DEF Once

\* A button is pressed.
LEMMA OnceAsked ==
  ASSUME NEW p, NEW q, NEW s, NEW t, NEW l, Once(p, q, s, t, l), Typing(p, q, t),
         ~p.asking, NEW pr \in Asked, pr.mine, pr.entry = p.entry[Focus(p)],
         pr.tx.kind \in Spend
           => FormOf(pr.tx.kind) = Focus(p) /\ p.amt[Focus(p)] > 0,
         NEW o, o.entry = p.entry, o.amt = p.amt, o.asking
  PROVE  Once(o, Append(q, pr), s, t, l)
<1> DEFINE r == Append(q, pr)
           k == Len(q)
           g == Focus(p)
<1>1. /\ DOMAIN r = 1 .. k + 1 /\ DOMAIN q = 1 .. k /\ k \in Nat
      /\ r[k + 1] = pr /\ \A i \in 1 .. k : r[i] = q[i]
  BY DEF Typing
<1>2. g \in Forms /\ p.amt \in [Forms -> Nat] /\ p.entry \in [Forms -> Nat]
  BY FocusForm DEF Typing, PageOK
<1> HIDE DEF r, k, g
<1>3. \A i \in 1 .. k : ~q[i].mine
  BY <1>1 DEF Once
<1>4. \A e : Gone(p, e) <=> Gone(o, e)
  BY DEF Gone
<1>5. ASSUME NEW e \in (1 .. MaxEvents) \ l, OnceFor(e, p, q, s, t)
      PROVE  OnceFor(e, o, r, s, t)
  <2>1. CASE Spending(pr, e)
    <3>1. g = FormOf(pr.tx.kind) /\ p.amt[g] > 0 /\ p.entry[g] = e
      BY <2>1 DEF Spending, g
    <3>2. ~Gone(p, e)
      BY <1>2, <3>1 DEF Gone
    <3>3. s[e] = 0 /\ \A i \in 1 .. k : ~Spending(q[i], e)
      BY <1>1, <1>3, <1>5, <3>2 DEF OnceFor
    <3>4. \A f \in Forms : o.entry[f] = e => f = g
      BY <1>2, <3>1 DEF Once
    <3>5. \A i \in DOMAIN r : Spending(r[i], e) => i = k + 1
      BY <1>1, <3>3
    <3> QED
      BY <1>1, <3>1, <3>3, <3>4, <3>5 DEF OnceFor
  <2>2. CASE ~Spending(pr, e)
    <3>1. \A i \in DOMAIN r : Spending(r[i], e) => i \in DOMAIN q /\ r[i] = q[i]
      BY <1>1, <2>2
    <3> QED
      BY <1>1, <1>4, <1>5, <3>1 DEF OnceFor
  <2> QED
    BY <2>1, <2>2
<1>6. \A i, j \in DOMAIN r : r[i].mine /\ r[j].mine => i = j
  BY <1>1, <1>3
<1>7. \A i \in DOMAIN r : r[i].entry <= t
  BY <1>1, <1>2 DEF Once, g
<1> QED
  BY <1>5, <1>6, <1>7 DEF Once, r

\* The wallet answers, with a call submitted (out) or not; what was submitted
\* and not lost has left the form.
LEMMA OnceAnswered ==
  ASSUME NEW p, NEW q, NEW s, NEW t, NEW l, Once(p, q, s, t, l), Typing(p, q, t),
         q # <<>>, NEW o, o.entry = p.entry,
         \A f \in Forms : o.amt[f] \in {p.amt[f], 0},
         o.asking = (p.asking /\ ~Head(q).mine),
         NEW out \in BOOLEAN, NEW m,
         LET pr == Head(q) IN
         /\ out => pr.entry \in m
                   \/ ~pr.mine \/ pr.tx.kind \notin Spend
                   \/ o.amt[FormOf(pr.tx.kind)] = 0,
         l \subseteq m
  PROVE  LET pr == Head(q)
             u == IF out /\ pr.tx.kind \in Spend
                  THEN [s EXCEPT ![pr.entry] = @ + 1] ELSE s
         IN Once(o, Tail(q), u, t, m)
<1> DEFINE pr == Head(q)
           r == Tail(q)
           u == IF out /\ pr.tx.kind \in Spend
                THEN [s EXCEPT ![pr.entry] = @ + 1] ELSE s
<1>1. /\ q \in Seq(Asked) /\ pr = q[1] /\ 1 \in DOMAIN q /\ pr \in Asked
      /\ DOMAIN q = 1 .. Len(q) /\ Len(q) \in Nat
  BY DEF Typing
<1>2. \A i \in DOMAIN r : i + 1 \in DOMAIN q /\ r[i] = q[i + 1] /\ i + 1 # 1
                          /\ i \in Nat
  BY <1>1, HeadTailProperties
<1>3. s \in [1 .. MaxEvents -> Nat] /\ u \in [1 .. MaxEvents -> Nat]
  <2>1. s \in [1 .. MaxEvents -> Nat]
    BY DEF Once
  <2>2. \A x : [s EXCEPT ![x] = @ + 1] \in [1 .. MaxEvents -> Nat]
    <3> TAKE x
    <3>1. CASE x \in 1 .. MaxEvents
      <4>1. s[x] + 1 \in Nat
        BY <2>1, <3>1
      <4> QED
        BY <2>1, <4>1
    <3>2. CASE x \notin 1 .. MaxEvents
      BY <2>1, <3>2
    <3> QED
      BY <3>1, <3>2
  <2> QED
    BY <2>1, <2>2
<1>4. /\ pr.mine \in BOOLEAN /\ pr.tx.kind \in Spend => FormOf(pr.tx.kind) \in Forms
  BY <1>1 DEF Asked, Spend, Forms, FormOf
<1> HIDE DEF r
<1>5. \A e : Gone(p, e) => Gone(o, e)
  BY DEF Gone
<1>6. ASSUME NEW e \in (1 .. MaxEvents) \ m, OnceFor(e, p, q, s, t)
      PROVE  OnceFor(e, o, r, u, t)
  <2>1. CASE Spending(pr, e) /\ out
    <3>1. pr.tx.kind \in Spend /\ pr.entry = e
      BY <2>1 DEF Spending
    <3>2. /\ s[e] = 0 /\ \A j \in DOMAIN q : Spending(q[j], e) => j = 1
          /\ pr.mine => \A f \in Forms : p.entry[f] = e => f = FormOf(pr.tx.kind)
          /\ ~pr.mine => Gone(p, e)
      BY <1>1, <1>6, <2>1 DEF OnceFor
    <3>3. u[e] = 1
      BY <1>3, <2>1, <3>1, <3>2
    <3>4. \A i \in DOMAIN r : ~Spending(r[i], e)
      BY <1>2, <3>2
    <3>5. Gone(o, e)
      <4>1. CASE pr.mine
        <5>1. o.amt[FormOf(pr.tx.kind)] = 0
          BY <2>1, <3>1, <4>1
        <5> QED
          BY <3>2, <4>1, <5>1 DEF Gone
      <4>2. CASE ~pr.mine
        BY <1>5, <3>2, <4>2
      <4> QED
        BY <4>1, <4>2
    <3>6. e <= t
      BY <1>1, <3>1 DEF Once
    <3> HIDE DEF u
    <3> QED
      BY <3>3, <3>4, <3>5, <3>6 DEF OnceFor
  <2>2. CASE ~(Spending(pr, e) /\ out)
    <3>1. u[e] = s[e]
      BY <1>3, <2>2 DEF Spending
    <3> HIDE DEF u
    <3>2. ASSUME NEW i \in DOMAIN r, Spending(r[i], e)
          PROVE  /\ u[e] = 0
                 /\ \A j \in DOMAIN r : Spending(r[j], e) => j = i
                 /\ r[i].mine => \A f \in Forms : o.entry[f] = e => f = FormOf(r[i].tx.kind)
                 /\ ~r[i].mine => Gone(o, e)
      <4>1. i + 1 \in DOMAIN q /\ r[i] = q[i + 1]
        BY <1>2
      <4>2. /\ s[e] = 0
            /\ \A j \in DOMAIN q : Spending(q[j], e) => j = i + 1
            /\ r[i].mine => \A f \in Forms : p.entry[f] = e => f = FormOf(r[i].tx.kind)
            /\ ~r[i].mine => Gone(p, e)
        BY <1>6, <3>2, <4>1 DEF OnceFor
      <4>3. \A j \in DOMAIN r : Spending(r[j], e) => j = i
        <5> SUFFICES ASSUME NEW j \in DOMAIN r, Spending(r[j], e) PROVE j = i
          OBVIOUS
        <5>1. j + 1 = i + 1
          BY <1>2, <4>2
        <5> QED
          BY <1>2, <5>1
      <4> QED
        BY <1>5, <3>1, <4>2, <4>3
    <3>3. u[e] <= 1 /\ (u[e] # 0 => e <= t /\ Gone(o, e))
      BY <1>5, <1>6, <3>1 DEF OnceFor
    <3> QED
      BY <3>2, <3>3 DEF OnceFor
  <2> QED
    BY <2>1, <2>2
<1>7. \A i, j \in DOMAIN r : r[i].mine /\ r[j].mine => i = j
  <2> SUFFICES ASSUME NEW i \in DOMAIN r, NEW j \in DOMAIN r, r[i].mine, r[j].mine
               PROVE  i = j
    OBVIOUS
  <2>1. i + 1 = j + 1
    BY <1>2 DEF Once
  <2> QED
    BY <1>2, <2>1
<1>8. \A i \in DOMAIN r : r[i].entry <= t /\ (r[i].mine => o.asking)
  <2> TAKE i \in DOMAIN r
  <2>1. i + 1 \in DOMAIN q /\ r[i] = q[i + 1] /\ i + 1 # 1
    BY <1>2
  <2>2. r[i].entry <= t /\ (r[i].mine => p.asking)
    BY <2>1 DEF Once
  <2>3. r[i].mine => ~pr.mine
    BY <1>1, <2>1 DEF Once
  <2> QED
    BY <2>2, <2>3
<1> HIDE DEF u
<1>9. \A e \in (1 .. MaxEvents) \ m : OnceFor(e, o, r, u, t)
  BY <1>6 DEF Once
<1>10. Once(o, r, u, t, m)
  BY <1>3, <1>7, <1>8, <1>9 DEF Once
<1> QED
  BY <1>10 DEF r, u, pr

LEMMA OnceInit == PageInit => OnceInv
<1> SUFFICES ASSUME PageInit PROVE OnceInv
  OBVIOUS
<1>1. /\ spends = [e \in 1 .. MaxEvents |-> 0] /\ typed = 0 /\ prompts = <<>>
      /\ page.entry = [f \in Forms |-> 0] /\ page.amt = [f \in Forms |-> 0]
  BY DEF PageInit
<1>2. \A e : Gone(page, e)
  BY <1>1 DEF Gone
<1> QED
  BY <1>1, <1>2 DEF OnceInv, Once, OnceFor

LEMMA OnceEdited == ASSUME CallInv, OnceInv, Edit PROVE OnceInv'
<1>0. /\ PageOK(page) /\ DOMAIN page = PageFields /\ page.amt \in [Forms -> Nat]
      /\ page.entry \in [Forms -> Nat] /\ typed \in Nat
      /\ Typing(page, prompts, typed)
      /\ Once(page, prompts, spends, typed, lost)
  BY DEF CallInv, UnderWay, Typing, PageOK, OnceInv
<1>1. CASE \E t \in Tabs : OpenTab(t)
  <2>1. PICK t \in Tabs : OpenTab(t)
    BY <1>1
  <2>2. /\ page'.entry = page.entry /\ page'.amt = [f \in Forms |-> 0]
        /\ prompts' = Orphaned(prompts) /\ spends' = spends /\ typed' = typed
        /\ lost' = lost
    BY <1>0, <2>1 DEF OpenTab, Mounted, PageFields
  <2> QED
    BY <1>0, <2>2, OnceLeft DEF OnceInv
<1>2. CASE Fill
  <2>1. /\ prompts' = prompts /\ spends' = spends /\ lost' = lost /\ typed' = typed + 1
    BY <1>2 DEF Fill, Fields
  <2>2. \E g \in Forms, n \in Amounts :
          /\ page'.entry = [page.entry EXCEPT ![g] = typed']
          /\ page'.amt = [page.amt EXCEPT ![g] = n]
          /\ page'.asking = page.asking
    <3>1. PICK n \in Amounts :
            \/ \E k \in Picks : FillSwap(n, k.give, k.take)
            \/ \E mode \in {"add", "remove"}, fot \in BOOLEAN :
                 FillLiquidity(n, mode, fot)
            \/ \E until \in 1..MaxClock : FillLock(n, until)
      BY <1>2 DEF Fill
    <3>2. CASE \E k \in Picks : FillSwap(n, k.give, k.take)
      <4>1. /\ page'.entry = [page.entry EXCEPT !["swap"] = typed']
            /\ page'.amt = [page.amt EXCEPT !["swap"] = n]
            /\ page'.asking = page.asking
        BY <1>0, <3>2 DEF FillSwap, PageFields
      <4> QED
        BY <4>1 DEF Forms
    <3>3. CASE \E mode \in {"add", "remove"}, fot \in BOOLEAN :
                 FillLiquidity(n, mode, fot)
      <4>1. PICK mode \in {"add", "remove"}, fot \in BOOLEAN :
               FillLiquidity(n, mode, fot)
        BY <3>3
      <4>2. /\ page'.entry = [page.entry EXCEPT ![mode] = typed']
            /\ page'.amt = [page.amt EXCEPT ![mode] = n]
            /\ page'.asking = page.asking
        BY <1>0, <4>1 DEF FillLiquidity, PageFields
      <4> QED
        BY <4>2 DEF Forms
    <3>4. CASE \E until \in 1..MaxClock : FillLock(n, until)
      <4>1. /\ page'.entry = [page.entry EXCEPT !["lock"] = typed']
            /\ page'.amt = [page.amt EXCEPT !["lock"] = n]
            /\ page'.asking = page.asking
        BY <1>0, <3>4 DEF FillLock, PageFields
      <4> QED
        BY <4>1 DEF Forms
    <3> QED
      BY <3>1, <3>2, <3>3, <3>4
  <2>3. PICK g \in Forms, n \in Amounts :
          /\ page'.entry = [page.entry EXCEPT ![g] = typed']
          /\ page'.amt = [page.amt EXCEPT ![g] = n]
          /\ page'.asking = page.asking
    BY <2>2
  <2>4. \A f \in Forms \ {g} : page'.amt[f] = page.amt[f]
    BY <1>0, <2>3
  <2>5. Once(page', prompts, spends, typed + 1, lost)
    BY <1>0, <2>1, <2>3, <2>4, OnceFilled
  <2> QED
    BY <2>1, <2>5 DEF OnceInv
<1>3. CASE Flip \/ \E m \in {"add", "remove"} : SetMode(m)
  <2>1. /\ prompts' = prompts /\ spends' = spends /\ lost' = lost /\ typed' = typed
        /\ page'.entry = page.entry /\ page'.asking = page.asking
        /\ page'.amt = page.amt \/ page'.amt = [page.amt EXCEPT !["swap"] = 0]
    BY <1>0, <1>3 DEF Flip, SetMode, Fields, PageFields
  <2>2. \A f \in Forms : page'.amt[f] \in {page.amt[f], 0}
    BY <1>0, <2>1
  <2>3. Once(page', prompts, spends, typed, lost)
    BY <1>0, <2>1, <2>2, OnceLess
  <2> QED
    BY <2>1, <2>3 DEF OnceInv
<1> QED
  BY <1>1, <1>2, <1>3 DEF Edit

LEMMA OncePressed ==
  ASSUME CallInv, OnceInv, NEW tx \in PageCalls, Press(tx),
         Shows(ShownFloor(page, tx), tx),
         tx.kind \in Spend => FormOf(tx.kind) = Focus(page) /\ page.amt[Focus(page)] > 0
  PROVE  OnceInv'
<1> DEFINE pr == [tx |-> tx, floor |-> ShownFloor(page, tx),
                  entry |-> page.entry[Focus(page)], mine |-> TRUE]
<1>0. /\ PageOK(page) /\ DOMAIN page = PageFields
      /\ page.entry \in [Forms -> Nat] /\ typed \in Nat
      /\ Typing(page, prompts, typed)
      /\ Once(page, prompts, spends, typed, lost)
  BY DEF CallInv, UnderWay, Typing, PageOK, OnceInv
<1>1. pr.entry \in Nat
  BY <1>0, FocusForm
<1>2. pr \in Asked
  BY <1>1 DEF Asked, Shows
<1>3. pr.tx = tx /\ pr.mine /\ pr.entry = page.entry[Focus(page)]
  OBVIOUS
<1>4. /\ prompts' = Append(prompts, pr) /\ spends' = spends /\ lost' = lost
      /\ typed' = typed /\ ~page.asking
  BY DEF Press
<1>5. page'.entry = page.entry /\ page'.amt = page.amt /\ page'.asking
  BY <1>0 DEF Press, PageFields
<1> HIDE DEF pr
<1>6. Once(page', Append(prompts, pr), spends, typed, lost)
  BY <1>0, <1>2, <1>3, <1>4, <1>5, OnceAsked
<1> QED
  BY <1>4, <1>6 DEF OnceInv

LEMMA OnceWallet ==
  ASSUME CallInv, OnceInv, Confirm \/ Refuse \/ AnswerLost
  PROVE  OnceInv'
<1> DEFINE pr == Head(prompts)
           u == [spends EXCEPT ![pr.entry] = @ + 1]
<1>0. /\ PageOK(page) /\ DOMAIN page = PageFields /\ page.amt \in [Forms -> Nat]
      /\ page.asking \in BOOLEAN /\ Typing(page, prompts, typed)
      /\ Once(page, prompts, spends, typed, lost)
  BY DEF CallInv, UnderWay, Typing, PageOK, OnceInv
<1>1. prompts # <<>> /\ prompts' = Tail(prompts) /\ typed' = typed
  BY DEF Confirm, Refuse, AnswerLost, Submitted
<1>2. pr \in Asked /\ pr.mine \in BOOLEAN
  BY <1>1, TailUnderWay DEF CallInv
<1>3. CASE Refuse
  <2>1. /\ spends' = spends /\ lost' = lost
        /\ page' = IF pr.mine THEN [page EXCEPT !.asking = FALSE] ELSE page
    BY <1>3 DEF Refuse, Answered
  <2> HIDE DEF pr
  <2>2. /\ page'.entry = page.entry /\ page'.amt = page.amt
        /\ page'.asking = (page.asking /\ ~pr.mine)
    BY <1>0, <1>2, <2>1 DEF PageFields
  <2>3. Once(page', Tail(prompts), spends, typed, lost)
    BY <1>0, <1>1, <2>2, OnceAnswered, ZenonT(60) DEF pr
  <2> QED
    BY <1>1, <2>1, <2>3 DEF OnceInv
<1>4. CASE AnswerLost
  <2>1. /\ spends' = IF pr.tx.kind \in Spend THEN u ELSE spends
        /\ lost' = lost \cup {pr.entry}
        /\ page' = IF pr.mine THEN [page EXCEPT !.asking = FALSE] ELSE page
    BY <1>4 DEF AnswerLost, Answered, Submitted
  <2> HIDE DEF pr
  <2>2. /\ page'.entry = page.entry /\ page'.amt = page.amt
        /\ page'.asking = (page.asking /\ ~pr.mine)
    BY <1>0, <1>2, <2>1 DEF PageFields
  <2>3. Once(page', Tail(prompts), IF TRUE /\ pr.tx.kind \in Spend THEN u ELSE spends,
             typed, lost \cup {pr.entry})
    BY <1>0, <1>1, <2>2, OnceAnswered, ZenonT(60) DEF pr
  <2> QED
    BY <1>1, <2>1, <2>3 DEF OnceInv
<1>5. CASE Confirm
  <2> DEFINE o == ClearsAmount(page, pr.tx)
  <2>1. /\ spends' = IF pr.tx.kind \in Spend THEN u ELSE spends
        /\ lost' = lost
        /\ page' = IF ~pr.mine THEN page
                   ELSE [o EXCEPT !.asking = FALSE, !.hash = "mining",
                                  !.due = IF AsksAgain(page, pr.tx)
                                          THEN @ \cup {"allowance"} ELSE @]
    BY <1>5 DEF Confirm, Submitted
  <2> HIDE DEF pr
  <2>2. /\ DOMAIN o = PageFields /\ o.entry = page.entry
        /\ \A f \in Forms : o.amt[f] \in {page.amt[f], 0}
        /\ pr.tx.kind \in Spend => o.amt[FormOf(pr.tx.kind)] = 0
    BY <1>0 DEF ClearsAmount, PageFields, Forms, FormOf, Spend
  <2> HIDE DEF o
  <2>3. CASE pr.mine
    <3>1. page'.entry = page.entry /\ page'.amt = o.amt /\ ~page'.asking
      BY <2>1, <2>2, <2>3 DEF PageFields
    <3>2. page'.asking = (page.asking /\ ~pr.mine)
      BY <2>1, <2>2, <2>3, <3>1 DEF PageFields
    <3>3. /\ page'.entry = page.entry
          /\ \A f \in Forms : page'.amt[f] \in {page.amt[f], 0}
          /\ pr.tx.kind \notin Spend \/ page'.amt[FormOf(pr.tx.kind)] = 0
      BY <2>2, <3>1
    <3>4. Once(page', Tail(prompts), IF TRUE /\ pr.tx.kind \in Spend THEN u ELSE spends,
               typed, lost)
      BY <1>0, <1>1, <3>2, <3>3, OnceAnswered, ZenonT(60) DEF pr
    <3> QED
      BY <1>1, <2>1, <3>4 DEF OnceInv
  <2>4. CASE ~pr.mine
    <3>1. page' = page /\ page.asking = (page.asking /\ ~pr.mine)
      BY <1>0, <2>1, <2>4
    <3>2. Once(page, Tail(prompts), IF TRUE /\ pr.tx.kind \in Spend THEN u ELSE spends,
               typed, lost)
      BY <1>0, <1>1, <2>4, <3>1, OnceAnswered, ZenonT(60) DEF pr
    <3> QED
      BY <1>1, <2>1, <3>1, <3>2 DEF OnceInv
  <2> QED
    BY <1>2, <2>3, <2>4
<1> QED
  BY <1>3, <1>4, <1>5

LEMMA OnceStep == CallInv /\ OnceInv /\ [PageNext]_pageVars => OnceInv'
<1> SUFFICES ASSUME CallInv, OnceInv, [PageNext]_pageVars PROVE OnceInv'
  OBVIOUS
<1>0. /\ PageOK(page) /\ DOMAIN page = PageFields /\ page.amt \in [Forms -> Nat]
      /\ chain.now \in Nat /\ chain.locks \in Seq(LpLock) /\ RowsKnown(page, chain)
      /\ Sound(chain) /\ Backed(chain)
      /\ Once(page, prompts, spends, typed, lost)
  BY DEF CallInv, PageOK, Sound, OnceInv
<1>1. ASSUME page'.entry = page.entry, page'.amt = page.amt,
             page'.asking = page.asking, prompts' = prompts, spends' = spends,
             typed' = typed, lost' = lost
      PROVE  OnceInv'
  <2>1. Once(page', prompts, spends, typed, lost)
    BY <1>0, <1>1, OnceLess
  <2> QED
    BY <1>1, <2>1 DEF OnceInv
<1>2. CASE Edit
  BY <1>2, OnceEdited
<1>3. CASE PressButton
  <2> DEFINE tx == Offer(page, chain)
  <2>1. tx # NoTx /\ Press(tx)
    BY <1>3 DEF PressButton, Press
  <2>2. Offered(page, tx)
    BY <1>0, <2>1, OffersKept
  <2> HIDE DEF tx
  <2> QED
    BY <2>1, <2>2, OncePressed DEF Offered
<1>4. CASE PressRow
  <2>1. PICK tx \in RowOffers(page, chain) : Press(tx)
    BY <1>4 DEF PressRow
  <2>2. tx \in PageCalls /\ Shows(ShownFloor(page, tx), tx) /\ tx.kind \notin Spend
    BY <1>0, RowsKept DEF Spend
  <2> QED
    BY <2>1, <2>2, OncePressed
<1>5. CASE \E q \in Queries : Read(q)
  <2>1. spends' = spends /\ lost' = lost
    BY <1>5 DEF Read, Fields
  <2> QED
    BY <1>1, <1>5, <2>1, ReadKeeps
<1>6. CASE Confirm \/ Refuse \/ AnswerLost
  BY <1>6, OnceWallet
<1>7. CASE Mine \/ Receipt \/ ReceiptLost
  BY <1>0, <1>1, <1>7 DEF Mine, Receipt, ReceiptLost, Fields, PageFields
<1>8. CASE \/ \E r \in Pools : Trade(r)
           \/ \E id \in DOMAIN chain.locks, until \in 1 .. MaxClock + 1 : Extend(id, until)
           \/ ClockTicks
  BY <1>1, <1>8 DEF Trade, Extend, ClockTicks
<1>9. CASE UNCHANGED pageVars
  BY <1>1, <1>9 DEF pageVars
<1> QED
  BY <1>2, <1>3, <1>4, <1>5, <1>6, <1>7, <1>8, <1>9 DEF PageNext

\* What was typed once is spent at most once (SwapForm.doSwap, doApprove,
\* LiquidityForm.doAdd, doRemove, LockForm.doLock), through slow and lost
\* receipts, refusals, edits under way and remounted forms, for any numbers of
\* them; but for an entry whose answer the wallet lost.
THEOREM EachEntrySpentOnce == PageSpec => []OncePerEntry
<1>1. CallInv /\ OnceInv => OncePerEntry
  BY DEF OnceInv, Once, OnceFor, OncePerEntry
<1>2. PageSpec => []OnceInv
  BY OnceInit, OnceStep, CallsKept, PTL DEF PageSpec
<1> QED
  BY <1>1, <1>2, CallsKept, PTL

-----------------------------------------------------------------------------
(* The notifier: lists                                                     *)

\* SetToSeq lists a finite set.
LEMMA ListsSet ==
  ASSUME NEW S, IsFiniteSet(S)
  PROVE  Cardinality(S) \in Nat /\ SetToSeq(S) \in [1 .. Cardinality(S) -> S]
<1>1. Cardinality(S) \in Nat /\ Bijection(1 .. Cardinality(S), S) # {}
  BY FS_CardinalityType DEF ExistsBijection
<1>2. PICK f \in [1 .. Cardinality(S) -> S] : IsInjective(f)
  BY <1>1 DEF Bijection, Injection
<1> QED
  BY <1>1, <1>2 DEF SetToSeq

\* g concatenates the first n parts.
Flattens(g, p, n) ==
  g = [i \in 1 .. n |-> IF i = 1 THEN p[i] ELSE g[i-1] \o p[i]]

\* The concatenations of the first parts are a function.
LEMMA FlattensSome ==
  ASSUME NEW S, NEW p \in Seq(Seq(S))
  PROVE  \A n \in Nat : n <= Len(p) =>
           \E g \in [1 .. n -> Seq(S)] : Flattens(g, p, n)
<1> DEFINE Goal(n) == \E g \in [1 .. n -> Seq(S)] : Flattens(g, p, n)
           T == {n \in Nat : n <= Len(p) => Goal(n)}
<1>0. Len(p) \in Nat /\ \A i \in 1 .. Len(p) : p[i] \in Seq(S)
  OBVIOUS
<1>1. 0 \in T
  <2> DEFINE g == [i \in 1 .. 0 |-> <<>>]
  <2>1. g \in [1 .. 0 -> Seq(S)]
    OBVIOUS
  <2>2. Flattens(g, p, 0)
    BY DEF Flattens
  <2> QED
    BY <2>1, <2>2
<1>2. ASSUME NEW n \in Nat, n \in T
      PROVE  n + 1 \in T
  <2> SUFFICES ASSUME n + 1 <= Len(p) PROVE Goal(n + 1)
    BY <1>2
  <2>1. PICK g \in [1 .. n -> Seq(S)] : Flattens(g, p, n)
    BY <1>0, <1>2
  <2> DEFINE h == [i \in 1 .. n + 1 |-> IF i <= n THEN g[i]
                                       ELSE IF i = 1 THEN p[i] ELSE g[n] \o p[i]]
  <2>2. ASSUME NEW i \in 1 .. n + 1
        PROVE  h[i] \in Seq(S) /\ h[i] = IF i = 1 THEN p[i] ELSE h[i-1] \o p[i]
    <3>1. p[i] \in Seq(S)
      BY <1>0
    <3>2. CASE i <= n
      <4>0. i \in 1 .. n
        BY <3>2
      <4>1. g[i] = IF i = 1 THEN p[i] ELSE g[i-1] \o p[i]
        BY <2>1, <4>0 DEF Flattens
      <4>2. i # 1 => i - 1 \in 1 .. n /\ i - 1 \in 1 .. n + 1 /\ i - 1 <= n
        BY <4>0
      <4>3. h[i] = g[i] /\ (i # 1 => h[i-1] = g[i-1])
        BY <3>2, <4>2
      <4>4. g[i] \in Seq(S)
        BY <4>0
      <4> HIDE DEF h
      <4> QED
        BY <4>1, <4>3, <4>4
    <3>3. CASE i = n + 1 /\ i = 1
      BY <3>1, <3>3
    <3>4. CASE i = n + 1 /\ i # 1
      <4>1. n \in 1 .. n /\ g[n] \in Seq(S)
        BY <3>4
      <4>2. g[n] \o p[i] \in Seq(S)
        BY <3>1, <4>1, ConcatProperties
      <4>3. h[i] = g[n] \o p[i] /\ h[i-1] = g[n]
        BY <3>4, <4>1
      <4> QED
        BY <3>4, <4>2, <4>3
    <3> QED
      BY <3>2, <3>3, <3>4
  <2>3. h \in [1 .. n + 1 -> Seq(S)] /\ Flattens(h, p, n + 1)
    <3>1. h = [i \in 1 .. n + 1 |-> h[i]]
      OBVIOUS
    <3> HIDE DEF h
    <3> QED
      BY <2>2, <3>1 DEF Flattens
  <2> QED
    BY <2>3
<1>3. Nat \subseteq T
  <2> HIDE DEF T
  <2> QED
    BY <1>1, <1>2, NatSetInduction
<1> QED
  BY <1>3

\* Each of the first k parts is in the concatenation s.
Holds(s, p, k) ==
  \A i \in 1 .. k : \A m \in DOMAIN p[i] : \E j \in DOMAIN s : s[j] = p[i][m]

\* FlattenSeq loses nothing of its parts and adds nothing.
LEMMA FlattenKeeps ==
  ASSUME NEW S, NEW p \in Seq(Seq(S)), Len(p) # 0
  PROVE  /\ FlattenSeq(p) \in Seq(S)
         /\ Holds(FlattenSeq(p), p, Len(p))
<1> DEFINE N == Len(p)
           f == CHOOSE g : Flattens(g, p, N)
           T == {n \in Nat : n + 1 <= N => f[n + 1] \in Seq(S) /\ Holds(f[n + 1], p, n + 1)}
<1>0. N \in Nat /\ N # 0 /\ \A i \in 1 .. N : p[i] \in Seq(S)
  OBVIOUS
<1>1. Flattens(f, p, N)
  BY <1>0, FlattensSome
<1>2. FlattenSeq(p) = f[N]
  BY DEF FlattenSeq, Flattens
<1> HIDE DEF f
<1>3. \A i \in 1 .. N : f[i] = IF i = 1 THEN p[i] ELSE f[i-1] \o p[i]
  BY <1>1 DEF Flattens
<1>4. 0 \in T
  <2>1. 1 \in 1 .. N /\ f[1] = p[1] /\ p[1] \in Seq(S)
    BY <1>0, <1>3
  <2>2. Holds(p[1], p, 1)
    BY DEF Holds
  <2> QED
    BY <2>1, <2>2
<1>5. ASSUME NEW n \in Nat, n \in T
      PROVE  n + 1 \in T
  <2> DEFINE k == n + 2
             s == f[n + 1]
             t == p[k]
  <2> SUFFICES ASSUME k <= N PROVE f[k] \in Seq(S) /\ Holds(f[k], p, k)
    <3>1. (n + 1) + 1 = k
      OBVIOUS
    <3> QED
      BY <3>1
  <2>1. k \in 1 .. N /\ k # 1 /\ k - 1 = n + 1 /\ t \in Seq(S)
    BY <1>0
  <2>2. s \in Seq(S) /\ Holds(s, p, n + 1) /\ f[k] = s \o t
    <3>1. n + 1 <= N
      BY <1>0
    <3>2. s \in Seq(S) /\ Holds(s, p, n + 1)
      BY <1>5, <3>1
    <3>3. f[k] = f[k - 1] \o p[k]
      BY <1>3, <2>1
    <3> QED
      BY <2>1, <3>2, <3>3
  <2> HIDE DEF s
  <2>3. /\ s \o t \in Seq(S) /\ Len(s \o t) = Len(s) + Len(t)
        /\ Len(s) \in Nat /\ Len(t) \in Nat
        /\ DOMAIN s = 1 .. Len(s) /\ DOMAIN t = 1 .. Len(t)
        /\ DOMAIN (s \o t) = 1 .. Len(s) + Len(t)
        /\ \A i \in 1 .. Len(s) + Len(t) : (s \o t)[i] =
             IF i <= Len(s) THEN s[i] ELSE t[i - Len(s)]
    BY <2>1, <2>2, ConcatProperties, LenProperties
  <2>4. ASSUME NEW i \in 1 .. k, NEW m \in DOMAIN p[i]
        PROVE  \E j \in DOMAIN (s \o t) : (s \o t)[j] = p[i][m]
    <3>1. CASE i <= n + 1
      <4>1. PICK j \in DOMAIN s : s[j] = p[i][m]
        BY <2>2, <3>1 DEF Holds
      <4>2. j \in 1 .. Len(s) + Len(t) /\ j <= Len(s)
        BY <2>3, <4>1
      <4> QED
        BY <2>3, <4>1, <4>2
    <3>2. CASE i = k
      <4>1. m \in 1 .. Len(t)
        BY <2>3, <3>2
      <4> DEFINE j == Len(s) + m
      <4> HIDE DEF t
      <4>2. j \in 1 .. Len(s) + Len(t) /\ ~(j <= Len(s)) /\ j - Len(s) = m
        BY <2>3, <4>1
      <4> USE DEF t
      <4> HIDE DEF j
      <4>3. (s \o t)[j] = t[m]
        BY <2>3, <4>2
      <4> QED
        BY <2>3, <3>2, <4>2, <4>3
    <3> QED
      BY <3>1, <3>2
  <2>5. Holds(s \o t, p, k)
    BY <2>4 DEF Holds
  <2>6. s \o t \in Seq(S)
    BY <2>3
  <2> HIDE DEF k
  <2> QED
    BY <2>2, <2>5, <2>6
<1>6. Nat \subseteq T
  <2> HIDE DEF T
  <2> QED
    BY <1>4, <1>5, NatSetInduction
<1>7. N - 1 \in Nat /\ (N - 1) + 1 = N
  <2> HIDE DEF N
  <2> QED
    BY <1>0
<1>8. f[N] \in Seq(S) /\ Holds(f[N], p, N)
  <2>1. N - 1 \in T
    BY <1>6, <1>7
  <2> HIDE DEF N
  <2>2. N <= N
    BY <1>0
  <2> QED
    BY <1>7, <2>1, <2>2
<1> QED
  BY <1>2, <1>8

\* What a watcher lists: a sale is a block.
Kinds == {"val", "risk", "url", "sale", "sale-large"}
Things == Validators \cup Risks["validators"] \cup Risks["bondedRatio"]
            \cup Urls \cup (1 .. MaxBlock)
Items == {i \in [kind: Kinds, of: Things, is: BOOLEAN] :
            i.kind \in {"sale", "sale-large"} => i.of \in 1 .. MaxBlock}

IsSale(i, b) == i.kind = "sale" /\ i.of = b
Has(s, b) == \E n \in DOMAIN s : IsSale(s[n], b)

\* The sale of a list is its first item or in the rest, and stays when another
\* item takes the first one's place.
LEMMA FirstOrRest ==
  ASSUME NEW s \in Seq(Items), s # <<>>, NEW i \in Items
  PROVE  /\ Head(s) \in Items /\ Tail(s) \in Seq(Items)
         /\ <<i>> \o Tail(s) \in Seq(Items) /\ <<i>> \o Tail(s) # <<>>
         /\ Head(<<i>> \o Tail(s)) = i
         /\ \A b : Has(s, b) => IsSale(Head(s), b) \/ Has(Tail(s), b)
         /\ \A b : Has(Tail(s), b) \/ IsSale(i, b) => Has(<<i>> \o Tail(s), b)
<1> DEFINE t == Tail(s)
           u == <<i>> \o t
<1>1. /\ Head(s) \in Items /\ t \in Seq(Items) /\ Len(s) \in Nat \ {0}
      /\ Len(t) \in Nat /\ Len(t) = Len(s) - 1 /\ \A n \in 1 .. Len(t) : t[n] = s[n+1]
      /\ DOMAIN s = 1 .. Len(s) /\ DOMAIN t = 1 .. Len(t) /\ Head(s) = s[1]
  BY HeadTailProperties, EmptySeq, LenProperties
<1> HIDE DEF t
<1>2. /\ u \in Seq(Items) /\ Len(u) = 1 + Len(t)
      /\ \A n \in 1 .. 1 + Len(t) : u[n] = IF n <= 1 THEN i ELSE t[n - 1]
      /\ DOMAIN u = 1 .. Len(u)
  <2>1. <<i>> \in Seq(Items) /\ Len(<<i>>) = 1 /\ <<i>>[1] = i
    OBVIOUS
  <2>2. /\ <<i>> \o t \in Seq(Items) /\ Len(<<i>> \o t) = 1 + Len(t)
        /\ \A n \in 1 .. 1 + Len(t) :
             (<<i>> \o t)[n] = IF n <= 1 THEN <<i>>[n] ELSE t[n - 1]
    BY <1>1, <2>1, ConcatProperties
  <2>3. \A n \in 1 .. 1 + Len(t) : n <= 1 => n = 1
    BY <1>1
  <2> QED
    BY <2>1, <2>2, <2>3, LenProperties
<1> HIDE DEF u
<1>3. u # <<>> /\ Head(u) = i
  BY <1>1, <1>2
<1>4. ASSUME NEW b, Has(s, b)
      PROVE  IsSale(Head(s), b) \/ Has(t, b)
  <2>1. PICK n \in 1 .. Len(s) : IsSale(s[n], b)
    BY <1>1, <1>4 DEF Has
  <2>2. CASE n = 1
    BY <1>1, <2>1, <2>2
  <2>3. CASE n # 1
    <3>1. n - 1 \in 1 .. Len(t) /\ (n - 1) + 1 = n
      BY <1>1, <2>3
    <3>2. t[n - 1] = s[n]
      BY <1>1, <3>1
    <3> QED
      BY <1>1, <2>1, <3>1, <3>2 DEF Has
  <2> QED
    BY <2>2, <2>3
<1>5. ASSUME NEW b, Has(t, b) \/ IsSale(i, b)
      PROVE  Has(u, b)
  <2>1. CASE IsSale(i, b)
    <3>1. 1 \in 1 .. 1 + Len(t) /\ u[1] = i
      BY <1>1, <1>2
    <3> QED
      BY <1>2, <2>1, <3>1 DEF Has
  <2>2. CASE Has(t, b)
    <3>1. PICK n \in 1 .. Len(t) : IsSale(t[n], b)
      BY <1>1, <2>2 DEF Has
    <3>2. n + 1 \in 1 .. 1 + Len(t) /\ u[n + 1] = t[n]
      BY <1>1, <1>2, SMTT(60)
    <3> QED
      BY <1>2, <3>1, <3>2 DEF Has
  <2> QED
    BY <1>5, <2>1, <2>2
<1> QED
  BY <1>1, <1>2, <1>3, <1>4, <1>5 DEF t, u

LEMMA ListedItems ==
  ASSUME NEW kind \in {"val", "risk", "url"}, NEW S \in SUBSET Things, IsFiniteSet(S),
         NEW yes
  PROVE  Listed(kind, S, yes) \in Seq(Items)
<1>1. Cardinality(S) \in Nat /\ SetToSeq(S) \in [1 .. Cardinality(S) -> S]
  BY ListsSet
<1>2. \A n \in 1 .. Cardinality(S) :
        Item(kind, SetToSeq(S)[n], SetToSeq(S)[n] \in yes) \in Items
  <2> TAKE n \in 1 .. Cardinality(S)
  <2> DEFINE x == SetToSeq(S)[n]
  <2>1. x \in Things
    BY <1>1
  <2>2. (x \in yes) \in BOOLEAN
    OBVIOUS
  <2> HIDE DEF x
  <2>3. [kind |-> kind, of |-> x, is |-> (x \in yes)]
          \in [kind: Kinds, of: Things, is: BOOLEAN]
    BY <2>1, <2>2 DEF Kinds
  <2>4. kind \notin {"sale", "sale-large"}
    OBVIOUS
  <2>5. Item(kind, x, x \in yes) \in Items
    BY <2>3, <2>4 DEF Item, Items
  <2> QED
    BY <2>5 DEF x
<1>3. Listed(kind, S, yes) \in [1 .. Cardinality(S) -> Items]
  BY <1>2 DEF Listed
<1> QED
  BY <1>1, <1>3, SeqDef

LEMMA WatcherItems ==
  /\ ValidatorItems \in Seq(Items) /\ ConcentrationItems \in Seq(Items)
  /\ RatioItems \in Seq(Items) /\ UptimeItems \in Seq(Items) /\ UptimeItems # <<>>
  /\ ValidatorItems \o ConcentrationItems \in Seq(Items)
<1>1. /\ IsFiniteSet(Validators) /\ IsFiniteSet(Risks["validators"])
      /\ IsFiniteSet(Risks["bondedRatio"]) /\ IsFiniteSet(Urls) /\ Urls # {}
  BY NotifierAssumption
<1>2. /\ Validators \in SUBSET Things /\ Risks["validators"] \in SUBSET Things
      /\ Risks["bondedRatio"] \in SUBSET Things /\ Urls \in SUBSET Things
  BY DEF Things
<1>3. /\ ValidatorItems \in Seq(Items) /\ ConcentrationItems \in Seq(Items)
      /\ RatioItems \in Seq(Items)
  BY <1>1, <1>2, ListedItems DEF ValidatorItems, ConcentrationItems, RatioItems
<1>4. UptimeItems \in Seq(Items) /\ UptimeItems # <<>>
  <2>1. Cardinality(Urls) \in Nat /\ SetToSeq(Urls) \in [1 .. Cardinality(Urls) -> Urls]
    BY <1>1, ListsSet
  <2>2. Cardinality(Urls) # 0
    BY <1>1, FS_EmptySet
  <2>3. \A n \in 1 .. Cardinality(Urls) :
          [kind |-> "url", of |-> SetToSeq(Urls)[n], is |-> TRUE] \in Items
    BY <1>2, <2>1 DEF Items, Kinds
  <2>4. UptimeItems \in [1 .. Cardinality(Urls) -> Items]
    BY <2>3 DEF UptimeItems
  <2>5. UptimeItems \in Seq(Items)
    BY <2>1, <2>4, SeqDef
  <2>6. 1 \in DOMAIN UptimeItems
    BY <2>1, <2>2, <2>4
  <2> QED
    BY <2>5, <2>6
<1> QED
  BY <1>3, <1>4, ConcatProperties

\* Every sale of the range is in the list of the range.
LEMMA SalesListed ==
  ASSUME sales \subseteq 1 .. MaxBlock, NEW from \in Nat, NEW to \in Nat, from <= to
  PROVE  /\ SaleItems(from, to) \in Seq(Items)
         /\ \A b \in sales \cap (from .. to) : Has(SaleItems(from, to), b)
<1> DEFINE Of(b) == IF b \notin sales THEN <<>>
                    ELSE IF b \in LargeSales
                         THEN <<Item("sale", b, TRUE), Item("sale-large", b, TRUE)>>
                         ELSE <<Item("sale", b, TRUE)>>
           N == to - from + 1
           p == [n \in 1 .. N |-> Of(from + n - 1)]
<1>1. N \in Nat /\ N # 0
  OBVIOUS
<1>2. ASSUME NEW b
      PROVE  /\ Of(b) \in Seq(Items)
             /\ b \in sales => 1 \in DOMAIN Of(b) /\ IsSale(Of(b)[1], b)
  <2>1. CASE b \notin sales
    BY <2>1
  <2>2. CASE b \in sales
    <3>1. b \in 1 .. MaxBlock
      BY <2>2
    <3>2. Item("sale", b, TRUE) \in Items /\ Item("sale-large", b, TRUE) \in Items
      BY <3>1 DEF Item, Items, Kinds, Things
    <3>3. IsSale(Item("sale", b, TRUE), b)
      BY DEF Item, IsSale
    <3> DEFINE i == Item("sale", b, TRUE)
               j == Item("sale-large", b, TRUE)
    <3>4. Of(b) = IF b \in LargeSales THEN <<i, j>> ELSE <<i>>
      BY <2>2
    <3>5. i \in Items /\ j \in Items /\ IsSale(i, b)
      BY <3>2, <3>3
    <3> HIDE DEF i, j, Of
    <3>6. <<i, j>> \in Seq(Items) /\ 1 \in DOMAIN <<i, j>> /\ <<i, j>>[1] = i
      BY <3>5
    <3>7. <<i>> \in Seq(Items) /\ 1 \in DOMAIN <<i>> /\ <<i>>[1] = i
      BY <3>5
    <3> QED
      BY <2>2, <3>4, <3>6, <3>7, <3>5
  <2> QED
    BY <2>1, <2>2
<1>3. SaleItems(from, to) = FlattenSeq(p)
  BY DEF SaleItems
<1> HIDE DEF Of
<1>4. p \in Seq(Seq(Items)) /\ Len(p) = N
  <2>1. p \in [1 .. N -> Seq(Items)]
    BY <1>2
  <2> HIDE DEF N, p
  <2> QED
    BY <1>1, <2>1, SeqDef
<1>5. FlattenSeq(p) \in Seq(Items) /\ Holds(FlattenSeq(p), p, N)
  <2> HIDE DEF N, p
  <2> QED
    BY <1>1, <1>4, FlattenKeeps
<1>6. ASSUME NEW b \in sales \cap (from .. to)
      PROVE  Has(FlattenSeq(p), b)
  <2> DEFINE n == b - from + 1
  <2>1. n \in 1 .. N /\ from + n - 1 = b
    OBVIOUS
  <2>2. p[n] = Of(b)
    BY <2>1
  <2> HIDE DEF n, p
  <2>3. 1 \in DOMAIN p[n] /\ IsSale(p[n][1], b)
    BY <1>2, <2>2
  <2>4. PICK j \in DOMAIN FlattenSeq(p) : FlattenSeq(p)[j] = p[n][1]
    BY <1>5, <2>1, <2>3 DEF Holds
  <2> QED
    BY <2>3, <2>4 DEF Has
<1> QED
  BY <1>3, <1>5, <1>6

-----------------------------------------------------------------------------
(* The notifier: what a step does to the cycles                            *)

Waits(x) == x.at \in {"fetch", "save"}
Busy(x, h) ==
  /\ x.at \in {"loop", "mail"}
  /\ DOMAIN x = {"at", "stage", "todo", "latest", "key", "since"}
  /\ x.todo \in Seq(Items) /\ x.todo # <<>>
  /\ x.latest \in Nat /\ x.latest <= h /\ x.since \in Nat

\* The state of the notifier: lists are of items, no cursor is past the chain.
NoteOK ==
  /\ now \in Nat \ {0} /\ head \in 1 .. MaxBlock /\ sales \subseteq 1 .. head
  /\ lastSent \in [Keys -> Nat]
  /\ mailed \in [1 .. MaxBlock -> [times: Seq(Nat), ever: BOOLEAN]]
  /\ lastDispenserBlock \in 0 .. head /\ file.block \in 0 .. head
  /\ DOMAIN cycle = Cycles
  /\ \A c \in Cycles : Waits(cycle[c]) \/ Busy(cycle[c], head)

Stamp(b) == lastSent[<<"sale", b>>]
Mails(c, b) == At(c, "mail") /\ IsSale(Item1(c), b)
Lone(c) == DOMAIN cycle' = Cycles /\ \A d \in Cycles \ {c} : cycle'[d] = cycle[d]

\* No other item takes the key of a sale, and a sale always has one.
LEMMA SaleKeys ==
  ASSUME NEW i
  PROVE  /\ \A b : KeyOf(i) = <<"sale", b>> <=> IsSale(i, b)
         /\ i.kind = "sale" => KeyOf(i) = <<"sale", i.of>> /\ KeyOf(i) # Nothing
<1>1. CASE i.kind = "val"
  <2>1. KeyOf(i) \in {<<"val-new", i.of>>, <<"nothing">>, <<"dated">>}
    BY <1>1 DEF KeyOf, Nothing, Dated
  <2>2. \A b : <<"val-new", i.of>> # <<"sale", b>>
    OBVIOUS
  <2>3. \A b : <<"nothing">> # <<"sale", b>> /\ <<"dated">> # <<"sale", b>>
    OBVIOUS
  <2>4. KeyOf(i) = <<"val-new", i.of>> \/ KeyOf(i) = <<"nothing">> \/ KeyOf(i) = <<"dated">>
    BY <2>1
  <2>5. \A b : KeyOf(i) # <<"sale", b>>
    BY <2>2, <2>3, <2>4
  <2> QED
    BY <1>1, <2>5 DEF IsSale
<1>2. CASE i.kind = "risk"
  <2>1. KeyOf(i) = <<"risk", i.of>> \/ KeyOf(i) = <<"nothing">>
    BY <1>2 DEF KeyOf, Nothing
  <2>2. \A b : <<"risk", i.of>> # <<"sale", b>> /\ <<"nothing">> # <<"sale", b>>
    OBVIOUS
  <2> QED
    BY <1>2, <2>1, <2>2 DEF IsSale
<1>3. CASE i.kind = "url"
  <2>1. \/ KeyOf(i) = <<"nothing">>
        \/ KeyOf(i) = <<"down", i.of>> \/ KeyOf(i) = <<"up", i.of>>
    BY <1>3 DEF KeyOf, Nothing
  <2>2. \A b : /\ <<"nothing">> # <<"sale", b>>
               /\ <<"down", i.of>> # <<"sale", b>> /\ <<"up", i.of>> # <<"sale", b>>
    OBVIOUS
  <2> QED
    BY <1>3, <2>1, <2>2 DEF IsSale
<1>4. CASE i.kind \notin {"val", "risk", "url"}
  <2>1. KeyOf(i) = <<i.kind, i.of>>
    BY <1>4 DEF KeyOf
  <2>2. <<i.kind, i.of>> # <<"nothing">>
    OBVIOUS
  <2>3. \A b : <<i.kind, i.of>> = <<"sale", b>> <=> i.kind = "sale" /\ i.of = b
    OBVIOUS
  <2> QED
    BY <2>1, <2>2, <2>3 DEF IsSale, Nothing
<1> QED
  BY <1>1, <1>2, <1>3, <1>4

\* resetKey resets no sale's key.
LEMMA ClearedKeeps ==
  ASSUME NEW i, lastSent \in [Keys -> Nat]
  PROVE  /\ Cleared(i) \in [Keys -> Nat]
         /\ \A b \in 1 .. MaxBlock : Cleared(i)[<<"sale", b>>] = Stamp(b)
<1>1. \A b \in 1 .. MaxBlock : <<"sale", b>> \in Keys
  BY DEF Keys
<1>2. \/ Cleared(i) = [lastSent EXCEPT ![<<"risk", i.of>>] = Never]
      \/ Cleared(i) = [lastSent EXCEPT ![<<"down", i.of>>] = Never]
      \/ Cleared(i) = lastSent
  BY DEF Cleared
<1>3. \A b : <<"risk", i.of>> # <<"sale", b>> /\ <<"down", i.of>> # <<"sale", b>>
  OBVIOUS
<1>4. ASSUME NEW k, \A b : k # <<"sale", b>>
      PROVE  /\ [lastSent EXCEPT ![k] = Never] \in [Keys -> Nat]
             /\ \A b \in 1 .. MaxBlock :
                  [lastSent EXCEPT ![k] = Never][<<"sale", b>>] = Stamp(b)
  BY <1>1, <1>4 DEF Never, Stamp
<1> QED
  BY <1>1, <1>2, <1>3, <1>4 DEF Stamp

\* On with the loop, or out of it with the cursor at the end of its range.
LEMMA OnwardTo ==
  ASSUME NEW c \in Cycles, DOMAIN cycle = Cycles, NEW h \in Nat,
         NEW items \in Seq(Items), NEW latest \in Nat, latest <= h,
         Onward(c, items, latest)
  PROVE  LET y == cycle'[c] IN
         /\ Lone(c) /\ y.at # "mail"
         /\ items # <<>> => /\ Busy(y, h) /\ y.stage = cycle[c].stage
                            /\ y.todo = items /\ y.latest = latest
                            /\ lastDispenserBlock' = lastDispenserBlock
         /\ items = <<>> => /\ Waits(y)
                            /\ lastDispenserBlock' = IF cycle[c].stage = "gmbSales"
                                 THEN latest ELSE lastDispenserBlock
<1>1. CASE items # <<>>
  <2> DEFINE w == [at |-> "loop", stage |-> cycle[c].stage, todo |-> items,
                   latest |-> latest, key |-> <<>>, since |-> Never]
  <2>1. cycle' = [cycle EXCEPT ![c] = w] /\ lastDispenserBlock' = lastDispenserBlock
    BY <1>1 DEF Onward, Goto
  <2>2. /\ w.at = "loop" /\ w.stage = cycle[c].stage /\ w.todo = items
        /\ w.latest = latest /\ w.since = 0
        /\ DOMAIN w = {"at", "stage", "todo", "latest", "key", "since"}
    BY DEF Never
  <2> HIDE DEF w
  <2>3. cycle'[c] = w /\ Lone(c)
    BY <2>1 DEF Lone
  <2> QED
    BY <1>1, <2>1, <2>2, <2>3 DEF Busy
<1>2. CASE items = <<>>
  <2> DEFINE w == NextStage(cycle[c].stage)
  <2>1. /\ cycle' = [cycle EXCEPT ![c] = w]
        /\ lastDispenserBlock' = IF cycle[c].stage = "gmbSales" THEN latest
                                 ELSE lastDispenserBlock
    BY <1>2 DEF Onward, Goto
  <2>2. Waits(w)
    BY DEF NextStage, Waits
  <2> HIDE DEF w
  <2>3. cycle'[c] = w /\ Lone(c)
    BY <2>1 DEF Lone
  <2> QED
    BY <1>2, <2>1, <2>2, <2>3 DEF Waits
<1> QED
  BY <1>1, <1>2

\* A cycle leaves its list.
LEMMA LeavesOff ==
  ASSUME NEW c \in Cycles, DOMAIN cycle = Cycles, NEW stage, Goto(c, NextStage(stage))
  PROVE  Lone(c) /\ Waits(cycle'[c])
<1>1. Waits(NextStage(stage))
  BY DEF NextStage, Waits
<1> QED
  BY <1>1 DEF Goto, Lone

\* What a cycle is busy with.
LEMMA BusyWith ==
  ASSUME NoteOK, NEW c \in Cycles, ~Waits(cycle[c])
  PROVE  LET x == cycle[c] IN
         /\ Busy(x, head) /\ head \in Nat
         /\ Head(x.todo) \in Items /\ Tail(x.todo) \in Seq(Items)
         /\ \A b : Has(x.todo, b) => IsSale(Head(x.todo), b) \/ Has(Tail(x.todo), b)
         /\ Head(x.todo).kind = "sale" => Head(x.todo).of \in 1 .. MaxBlock
<1>1. Busy(cycle[c], head) /\ head \in Nat
  BY NotifierAssumption DEF NoteOK
<1>2. cycle[c].todo \in Seq(Items) /\ cycle[c].todo # <<>>
  BY <1>1 DEF Busy
<1>3. Head(cycle[c].todo) \in Items
  BY <1>2, HeadTailProperties
<1> QED
  BY <1>1, <1>2, <1>3, FirstOrRest DEF Items

\* A watcher begins: with another list than the sales, or with nothing, ...
LooksElsewhere(c) ==
  /\ Lone(c) /\ cycle'[c].at # "mail"
  /\ lookedFrom' = lookedFrom /\ lastDispenserBlock' = lastDispenserBlock
  /\ \/ Waits(cycle'[c])
     \/ Busy(cycle'[c], head) /\ cycle'[c].stage # "gmbSales"

\* ... or with the sales from the cursor to the head of the chain.
LooksForSales(c) ==
  LET y == cycle'[c] IN
  /\ Lone(c) /\ y.at # "mail" /\ From <= head
  /\ lookedFrom' = IF lastDispenserBlock = 0 THEN From ELSE lookedFrom
  /\ \/ /\ Busy(y, head) /\ y.todo = SaleItems(From, head) /\ y.latest = head
        /\ lastDispenserBlock' = lastDispenserBlock
     \/ /\ Waits(y) /\ SaleItems(From, head) = <<>>
        /\ lastDispenserBlock' = head

LEMMA FetchDoes ==
  ASSUME NoteOK, NEW c \in Cycles, Fetch(c)
  PROVE  /\ cycle[c].at = "fetch" /\ From \in Nat \ {0}
         /\ LooksElsewhere(c) \/ LooksForSales(c)
<1>1. /\ head \in Nat \ {0} /\ DOMAIN cycle = Cycles /\ lastDispenserBlock \in Nat
      /\ sales \subseteq 1 .. MaxBlock /\ head <= head
  BY NotifierAssumption DEF NoteOK
<1>2. From \in Nat \ {0}
  BY <1>1, NotifierAssumption DEF From
<1>3. cycle[c].at = "fetch"
  BY DEF Fetch, At
<1>4. ASSUME NEW items \in Seq(Items), Onward(c, items, 0), UNCHANGED lookedFrom,
             cycle[c].stage # "gmbSales"
      PROVE  LooksElsewhere(c)
  <2>1. 0 \in Nat /\ 0 <= head /\ head \in Nat
    BY <1>1
  <2> QED
    BY <1>1, <1>4, <2>1, OnwardTo DEF LooksElsewhere
<1>5. CASE cycle[c].stage = "validators" /\ Onward(c, ValidatorItems \o ConcentrationItems, 0)
           /\ UNCHANGED lookedFrom
  <2>1. cycle[c].stage # "gmbSales"
    BY <1>5
  <2> QED
    BY <1>2, <1>3, <1>4, <1>5, <2>1, WatcherItems
<1>6. CASE cycle[c].stage = "bondedRatio" /\ Onward(c, RatioItems, 0) /\ UNCHANGED lookedFrom
  <2>1. cycle[c].stage # "gmbSales"
    BY <1>6
  <2> QED
    BY <1>2, <1>3, <1>4, <1>6, <2>1, WatcherItems
<1>7. CASE /\ cycle[c].stage = "gmbSales" /\ From <= head
           /\ Onward(c, SaleItems(From, head), head)
           /\ lookedFrom' = IF lastDispenserBlock = 0 THEN From ELSE lookedFrom
  <2>1. SaleItems(From, head) \in Seq(Items)
    BY <1>1, <1>2, <1>7, SalesListed
  <2> DEFINE items == SaleItems(From, head)
  <2> HIDE DEF items
  <2>2. items \in Seq(Items) /\ Onward(c, items, head)
    BY <1>7, <2>1 DEF items
  <2>3. /\ Lone(c) /\ cycle'[c].at # "mail"
        /\ items # <<>> => /\ Busy(cycle'[c], head)
                           /\ cycle'[c].todo = items /\ cycle'[c].latest = head
                           /\ lastDispenserBlock' = lastDispenserBlock
        /\ items = <<>> => Waits(cycle'[c]) /\ lastDispenserBlock' = head
    BY <1>1, <1>7, <2>2, OnwardTo
  <2>4. LooksForSales(c)
    BY <1>7, <2>3 DEF LooksForSales, items
  <2> QED
    BY <1>2, <1>3, <2>4
<1>8. CASE /\ cycle[c].stage = "gmbSales" /\ From > head /\ Goto(c, NextStage("gmbSales"))
           /\ UNCHANGED <<lookedFrom, lastDispenserBlock>>
  <2>1. Lone(c) /\ Waits(cycle'[c])
    BY <1>1, <1>8, LeavesOff
  <2>2. cycle'[c].at # "mail"
    BY <2>1 DEF Waits
  <2> QED
    BY <1>2, <1>3, <1>8, <2>1, <2>2 DEF LooksElsewhere
<1> QED
  BY <1>5, <1>6, <1>7, <1>8 DEF Fetch

\* An item with nothing new to tell: the list goes on, and a sale was told.
Passes(c) ==
  /\ Onward(c, Tail(cycle[c].todo), cycle[c].latest)
  /\ \A b \in 1 .. MaxBlock : Stamp(b)' = Stamp(b)
  /\ \A b \in 1 .. MaxBlock : IsSale(Item1(c), b) => Stamp(b) # Never

\* An item on its way: its key is taken, which was free or is old enough.
Tells(c) ==
  LET x == cycle[c]
      y == cycle'[c] IN
  /\ Lone(c) /\ Busy(y, head) /\ y.at = "mail"
  /\ y.stage = x.stage /\ y.latest = x.latest /\ y.since = now
  /\ lastDispenserBlock' = lastDispenserBlock
  /\ \A b : IsSale(Head(y.todo), b) <=> IsSale(Head(x.todo), b)
  /\ \A b : Has(x.todo, b) => Has(y.todo, b)
  /\ \A b \in 1 .. MaxBlock :
       IF IsSale(Head(x.todo), b)
       THEN Stamp(b)' = now /\ (Stamp(b) = Never \/ now - Stamp(b) >= COOLDOWN_MS)
       ELSE Stamp(b)' = Stamp(b)

\* The probe changes no sale.
LEMMA ProbeKeeps ==
  ASSUME NEW i \in Items
  PROVE  Probed(i) \in Items /\ \A b : IsSale(Probed(i), b) <=> IsSale(i, b)
<1>1. CASE i.kind = "url"
  <2>1. (i.of \notin down) \in BOOLEAN
    OBVIOUS
  <2>2. [i EXCEPT !.is = i.of \notin down] \in Items
    BY <1>1, <2>1 DEF Items
  <2>3. [i EXCEPT !.is = i.of \notin down].kind = "url"
    BY <1>1 DEF Items
  <2> QED
    BY <1>1, <2>2, <2>3 DEF Probed, IsSale
<1>2. CASE i.kind # "url"
  BY <1>2 DEF Probed
<1> QED
  BY <1>1, <1>2

LEMMA StepDoes ==
  ASSUME NoteOK, NEW c \in Cycles, Step(c)
  PROVE  /\ cycle[c].at = "loop" /\ lastSent' \in [Keys -> Nat]
         /\ Passes(c) \/ Tells(c)
<1> DEFINE x == cycle[c]
           j == Item1(c)
           i == Probed(j)
           key == KeyOf(i)
<1>0. x.at = "loop" /\ j = Head(x.todo)
  BY DEF Step, At, Item1
<1>1. /\ Busy(x, head) /\ head \in Nat /\ j \in Items /\ Tail(x.todo) \in Seq(Items)
      /\ j.kind = "sale" => j.of \in 1 .. MaxBlock
  <2>1. ~Waits(x)
    BY <1>0 DEF Waits
  <2> QED
    BY <1>0, <2>1, BusyWith
<1>2. i \in Items /\ \A b : IsSale(i, b) <=> IsSale(j, b)
  BY <1>1, ProbeKeeps
<1>3. /\ \A b : key = <<"sale", b>> <=> IsSale(i, b)
      /\ \A b : IsSale(i, b) => key # Nothing
  BY SaleKeys DEF IsSale
<1>4. /\ lastSent \in [Keys -> Nat] /\ now \in Nat \ {0} /\ DOMAIN cycle = Cycles
      /\ \A b \in 1 .. MaxBlock : <<"sale", b>> \in Keys
  BY DEF NoteOK, Keys
<1>5. /\ Cleared(i) \in [Keys -> Nat]
      /\ \A b \in 1 .. MaxBlock : Cleared(i)[<<"sale", b>>] = Stamp(b)
  BY <1>4, ClearedKeeps
<1>6. CASE /\ key = Nothing \/ Suppressed(key)
           /\ lastSent' = Cleared(i)
           /\ Onward(c, Tail(x.todo), x.latest)
  <2>1. \A b \in 1 .. MaxBlock : Stamp(b)' = Stamp(b)
    BY <1>5, <1>6 DEF Stamp
  <2>2. ASSUME NEW b \in 1 .. MaxBlock, IsSale(j, b)
        PROVE  Stamp(b) # Never
    <3>1. key = <<"sale", b>> /\ key # Nothing
      BY <1>2, <1>3, <2>2
    <3>2. Suppressed(key)
      BY <1>6, <3>1
    <3> HIDE DEF key
    <3> QED
      BY <3>1, <3>2 DEF Suppressed, Stamp
  <2>3. Passes(c)
    BY <1>6, <2>1, <2>2 DEF Passes
  <2> QED
    BY <1>0, <1>5, <1>6, <2>3
<1>7. CASE /\ ~(key = Nothing \/ Suppressed(key))
           /\ lastSent' = Taken(Cleared(i), key)
           /\ cycle' = [cycle EXCEPT ![c].at = "mail", ![c].key = key,
                                     ![c].since = now,
                                     ![c].todo = <<i>> \o Tail(@)]
           /\ UNCHANGED state
  <2> DEFINE y == cycle'[c]
  <2>1. lastSent' \in [Keys -> Nat]
    <3> HIDE DEF key, i
    <3> QED
      BY <1>4, <1>5, <1>7 DEF Taken
  <2>2. ASSUME NEW b \in 1 .. MaxBlock
        PROVE  IF IsSale(j, b)
               THEN Stamp(b)' = now
                    /\ (Stamp(b) = Never \/ now - Stamp(b) >= COOLDOWN_MS)
               ELSE Stamp(b)' = Stamp(b)
    <3>1. CASE IsSale(j, b)
      <4>1. key = <<"sale", b>> /\ key \in Keys
        BY <1>2, <1>3, <1>4, <3>1
      <4>2. ~Suppressed(key)
        BY <1>7
      <4> HIDE DEF key, i
      <4>3. Stamp(b) = Never \/ ~(now - Stamp(b) < COOLDOWN_MS)
        BY <4>1, <4>2 DEF Suppressed, Stamp
      <4>4. Stamp(b)' = now
        BY <1>4, <1>5, <1>7, <4>1 DEF Taken, Stamp
      <4>5. Stamp(b) \in Nat /\ COOLDOWN_MS \in Nat
        BY <1>4, NotifierAssumption DEF Stamp
      <4> QED
        BY <1>4, <3>1, <4>3, <4>4, <4>5
    <3>2. CASE ~IsSale(j, b)
      <4>1. key # <<"sale", b>>
        BY <1>2, <1>3, <3>2
      <4> HIDE DEF key, i
      <4> QED
        BY <1>4, <1>5, <1>7, <3>2, <4>1 DEF Taken, Stamp
    <3> QED
      BY <3>1, <3>2
  <2>3. /\ Lone(c) /\ y.at = "mail" /\ y.stage = x.stage /\ y.latest = x.latest
        /\ y.since = now /\ y.todo = <<i>> \o Tail(x.todo)
        /\ DOMAIN y = {"at", "stage", "todo", "latest", "key", "since"}
    <3> HIDE DEF key, i
    <3>1. DOMAIN x = {"at", "stage", "todo", "latest", "key", "since"}
      BY <1>1 DEF Busy
    <3> QED
      BY <1>4, <1>7, <3>1 DEF Lone
  <2>4. /\ y.todo \in Seq(Items) /\ y.todo # <<>> /\ Head(y.todo) = i
        /\ \A b : Has(x.todo, b) => IsSale(j, b) \/ Has(Tail(x.todo), b)
        /\ \A b : Has(Tail(x.todo), b) \/ IsSale(i, b) => Has(y.todo, b)
    <3>1. x.todo \in Seq(Items) /\ x.todo # <<>>
      BY <1>1 DEF Busy
    <3> HIDE DEF i, j
    <3> QED
      BY <1>0, <1>2, <2>3, <3>1, FirstOrRest
  <2>5. Busy(y, head)
    <3>1. x.latest \in Nat /\ x.latest <= head
      BY <1>1 DEF Busy
    <3> QED
      BY <1>4, <2>3, <2>4, <3>1 DEF Busy
  <2>6. lastDispenserBlock' = lastDispenserBlock
    BY <1>7 DEF state
  <2> HIDE DEF i, key
  <2>7. Tells(c)
    BY <1>0, <1>2, <2>2, <2>3, <2>4, <2>5, <2>6 DEF Tells
  <2> QED
    BY <1>0, <2>1, <2>7
<1> QED
  BY <1>6, <1>7 DEF Step

\* The mail is out: the list goes on, and a sale's time is on record.
LEMMA SentDoes ==
  ASSUME NoteOK, NEW c \in Cycles, Sent(c)
  PROVE  /\ cycle[c].at = "mail" /\ cycle[c].since \in Nat
         /\ Onward(c, Tail(cycle[c].todo), cycle[c].latest)
         /\ mailed' \in [1 .. MaxBlock -> [times: Seq(Nat), ever: BOOLEAN]]
         /\ \A b \in 1 .. MaxBlock :
              IF IsSale(Item1(c), b)
              THEN /\ mailed'[b].times = Append(mailed[b].times, cycle[c].since)
                   /\ mailed'[b].ever
              ELSE mailed'[b] = mailed[b]
<1> DEFINE j == Item1(c)
           t == cycle[c].since
<1>1. cycle[c].at = "mail" /\ Onward(c, Tail(cycle[c].todo), cycle[c].latest)
  BY DEF Sent, At
<1>2. t \in Nat /\ (j.kind = "sale" => j.of \in 1 .. MaxBlock)
  <2>1. ~Waits(cycle[c])
    BY <1>1 DEF Waits
  <2> QED
    BY <2>1, BusyWith DEF Busy, Item1
<1>3. mailed \in [1 .. MaxBlock -> [times: Seq(Nat), ever: BOOLEAN]]
  BY DEF NoteOK
<1>4. mailed' = IF j.kind # "sale" THEN mailed
                ELSE [mailed EXCEPT ![j.of] = [times |-> Append(mailed[j.of].times, t),
                                               ever |-> TRUE]]
  BY DEF Sent
<1> HIDE DEF j, t
<1>5. CASE j.kind # "sale"
  BY <1>1, <1>2, <1>3, <1>4, <1>5 DEF IsSale, j, t
<1>6. CASE j.kind = "sale"
  <2>1. Append(mailed[j.of].times, t) \in Seq(Nat)
    BY <1>2, <1>3, <1>6, AppendProperties
  <2> DEFINE r == [times |-> Append(mailed[j.of].times, t), ever |-> TRUE]
  <2>2. /\ r \in [times: Seq(Nat), ever: BOOLEAN] /\ r.ever
        /\ r.times = Append(mailed[j.of].times, t)
    BY <2>1
  <2>3. mailed' = [mailed EXCEPT ![j.of] = r]
    BY <1>4, <1>6
  <2> HIDE DEF r
  <2>4. mailed' \in [1 .. MaxBlock -> [times: Seq(Nat), ever: BOOLEAN]]
    BY <1>2, <1>3, <1>6, <2>2, <2>3
  <2>5. \A b \in 1 .. MaxBlock :
          IF IsSale(j, b)
          THEN mailed'[b].times = Append(mailed[b].times, t) /\ mailed'[b].ever
          ELSE mailed'[b] = mailed[b]
    BY <1>2, <1>3, <1>6, <2>2, <2>3 DEF IsSale
  <2> QED
    BY <1>1, <1>2, <2>4, <2>5 DEF j, t
<1> QED
  BY <1>5, <1>6

\* A timer's cycle begins without a mail and without a sale.
LEMMA StartedOK ==
  ASSUME NEW c \in Cycles, NEW h \in Nat
  PROVE  /\ Started(c).at # "mail"
         /\ \/ Waits(Started(c))
            \/ Busy(Started(c), h) /\ Started(c).stage # "gmbSales"
<1>1. CASE c \in ChainCycles
  BY <1>1 DEF Started, Waits
<1>2. CASE c \notin ChainCycles
  <2> DEFINE w == [at |-> "loop", stage |-> "uptime", todo |-> UptimeItems,
                   latest |-> 0, key |-> <<>>, since |-> Never]
  <2>1. Started(c) = w
    BY <1>2 DEF Started
  <2>2. Busy(w, h)
    BY WatcherItems DEF Busy, Never
  <2> QED
    BY <2>1, <2>2
<1> QED
  BY <1>1, <1>2

\* What holds of the list when it goes on.
LEMMA ListGoesOn ==
  ASSUME NoteOK, NEW c \in Cycles, ~Waits(cycle[c]),
         Onward(c, Tail(cycle[c].todo), cycle[c].latest)
  PROVE  LET x == cycle[c]
             y == cycle'[c] IN
         /\ Lone(c) /\ y.at # "mail" /\ lastDispenserBlock' \in 0 .. head
         /\ \/ /\ Busy(y, head) /\ y.stage = x.stage /\ y.todo = Tail(x.todo)
               /\ y.latest = x.latest /\ lastDispenserBlock' = lastDispenserBlock
            \/ /\ Waits(y) /\ Tail(x.todo) = <<>>
               /\ lastDispenserBlock' = IF x.stage = "gmbSales" THEN x.latest
                                        ELSE lastDispenserBlock
<1>1. /\ Tail(cycle[c].todo) \in Seq(Items) /\ head \in Nat
      /\ cycle[c].latest \in Nat /\ cycle[c].latest <= head
  BY BusyWith DEF Busy
<1>2. DOMAIN cycle = Cycles /\ lastDispenserBlock \in 0 .. head
  BY DEF NoteOK
<1> DEFINE items == Tail(cycle[c].todo)
           latest == cycle[c].latest
<1> HIDE DEF items, latest
<1>3. /\ Lone(c) /\ cycle'[c].at # "mail"
      /\ items # <<>> => /\ Busy(cycle'[c], head) /\ cycle'[c].stage = cycle[c].stage
                         /\ cycle'[c].todo = items /\ cycle'[c].latest = latest
                         /\ lastDispenserBlock' = lastDispenserBlock
      /\ items = <<>> => /\ Waits(cycle'[c])
                         /\ lastDispenserBlock' = IF cycle[c].stage = "gmbSales"
                              THEN latest ELSE lastDispenserBlock
  <2>1. /\ items \in Seq(Items) /\ latest \in Nat /\ latest <= head
        /\ Onward(c, items, latest)
    BY <1>1 DEF items, latest
  <2> QED
    BY <1>1, <1>2, <2>1, OnwardTo
<1>4. lastDispenserBlock' \in 0 .. head
  BY <1>1, <1>2, <1>3 DEF latest
<1> QED
  BY <1>3, <1>4 DEF items, latest

LEMMA NoteSame ==
  ASSUME NoteOK, UNCHANGED <<now, head, sales>>, lastSent' \in [Keys -> Nat],
         mailed' \in [1 .. MaxBlock -> [times: Seq(Nat), ever: BOOLEAN]],
         lastDispenserBlock' \in 0 .. head, file'.block \in 0 .. head,
         NEW c \in Cycles, Lone(c), Waits(cycle'[c]) \/ Busy(cycle'[c], head)
  PROVE  NoteOK'
<1>1. ASSUME NEW d \in Cycles
      PROVE  Waits(cycle'[d]) \/ Busy(cycle'[d], head')
  BY DEF NoteOK, Lone
<1>2. (\A d \in Cycles : Waits(cycle[d]) \/ Busy(cycle[d], head))'
  BY <1>1 DEF Waits, Busy
<1> QED
  BY <1>2 DEF NoteOK, Lone

LEMMA NoteInit == Init => NoteOK
<1> SUFFICES ASSUME Init PROVE NoteOK
  OBVIOUS
<1>1. /\ now = 1 /\ head = 1 /\ sales = {1} /\ 1 \in 1 .. MaxBlock
      /\ lastDispenserBlock = 0 /\ file.block = 0 /\ cycle = [c \in Cycles |-> Started(c)]
  BY NotifierAssumption DEF Init, EmptyState
<1>2. lastSent \in [Keys -> Nat]
  BY DEF Init, Never
<1>3. mailed \in [1 .. MaxBlock -> [times: Seq(Nat), ever: BOOLEAN]]
  <2>1. <<>> \in Seq(Nat)
    BY EmptySeq
  <2>2. [times |-> <<>>, ever |-> FALSE] \in [times: Seq(Nat), ever: BOOLEAN]
    BY <2>1
  <2>3. mailed = [b \in 1 .. MaxBlock |-> [times |-> <<>>, ever |-> FALSE]]
    BY DEF Init
  <2> QED
    BY <2>2, <2>3
<1>4. \A c \in Cycles : Waits(cycle[c]) \/ Busy(cycle[c], head)
  BY <1>1, StartedOK
<1> QED
  BY <1>1, <1>2, <1>3, <1>4 DEF NoteOK

\* What restarting does to the memory.
LEMMA RestartDoes ==
  ASSUME NoteOK, Restart
  PROVE  /\ UNCHANGED <<now, head, sales, lookedFrom>>
         /\ lastDispenserBlock' = file'.block /\ file'.block \in {file.block, 0}
         /\ lastSent' = [k \in Keys |-> Never]
         /\ cycle' = [c \in Cycles |-> Started(c)]
         /\ mailed' \in [1 .. MaxBlock -> [times: Seq(Nat), ever: BOOLEAN]]
         /\ \A b \in 1 .. MaxBlock : mailed'[b].times = <<>>
                                     /\ mailed'[b].ever = mailed[b].ever
         /\ failed \subseteq failed'
         /\ \A b : BeingMailed(b) => b \in failed'
<1>1. /\ UNCHANGED <<now, head, sales, lookedFrom>>
      /\ lastDispenserBlock' = file'.block /\ lastSent' = [k \in Keys |-> Never]
      /\ cycle' = [c \in Cycles |-> Started(c)]
  BY DEF Restart, world
<1>2. file'.block \in {file.block, 0}
  <2>1. file' = file \/ file' = EmptyState
    BY DEF Restart
  <2> QED
    BY <2>1 DEF EmptyState
<1>3. mailed \in [1 .. MaxBlock -> [times: Seq(Nat), ever: BOOLEAN]]
  BY DEF NoteOK
<1>4. mailed' = [b \in 1 .. MaxBlock |-> [mailed[b] EXCEPT !.times = <<>>]]
  BY <1>3 DEF Restart
<1>5. ASSUME NEW b \in 1 .. MaxBlock
      PROVE  LET r == [mailed[b] EXCEPT !.times = <<>>] IN
             /\ r \in [times: Seq(Nat), ever: BOOLEAN]
             /\ r.times = <<>> /\ r.ever = mailed[b].ever
  <2>1. mailed[b] \in [times: Seq(Nat), ever: BOOLEAN] /\ <<>> \in Seq(Nat)
    BY <1>3, EmptySeq
  <2> QED
    BY <2>1
<1>6. mailed' \in [1 .. MaxBlock -> [times: Seq(Nat), ever: BOOLEAN]]
  BY <1>4, <1>5
<1>7. failed' = failed \cup
        {Item1(c).of : c \in {d \in Cycles : At(d, "mail") /\ Item1(d).kind = "sale"}}
  BY DEF Restart
<1>8. \A b : BeingMailed(b) => b \in failed'
  BY <1>7 DEF BeingMailed
<1>9. \A b \in 1 .. MaxBlock : mailed'[b].times = <<>>
                               /\ mailed'[b].ever = mailed[b].ever
  BY <1>4, <1>5
<1> QED
  BY <1>1, <1>2, <1>6, <1>7, <1>8, <1>9

\* Every step keeps the state well-formed.
LEMMA NoteStep == NoteOK /\ [Next]_vars => NoteOK'
<1> SUFFICES ASSUME NoteOK, [Next]_vars PROVE NoteOK'
  OBVIOUS
<1>0. /\ head \in Nat \ {0} /\ lastSent \in [Keys -> Nat]
      /\ mailed \in [1 .. MaxBlock -> [times: Seq(Nat), ever: BOOLEAN]]
      /\ lastDispenserBlock \in 0 .. head /\ file.block \in 0 .. head
      /\ DOMAIN cycle = Cycles
  BY NotifierAssumption DEF NoteOK
<1>1. ASSUME head' \in head .. MaxBlock, sales' \subseteq 1 .. head',
             now' \in Nat \ {0}, UNCHANGED <<lastSent, mailed, lastDispenserBlock, file, cycle>>
      PROVE  NoteOK'
  <2>1. ASSUME NEW d \in Cycles
        PROVE  (Waits(cycle[d]) \/ Busy(cycle[d], head))'
    <3>1. CASE Waits(cycle[d])
      BY <1>1, <3>1 DEF Waits
    <3>2. CASE Busy(cycle[d], head)
      <4>1. cycle[d].latest \in Nat /\ cycle[d].latest <= head
        BY <3>2 DEF Busy
      <4>2. cycle[d].latest <= head'
        BY <1>0, <1>1, <4>1
      <4> QED
        BY <1>1, <3>2, <4>2 DEF Busy
    <3> QED
      BY <3>1, <3>2 DEF NoteOK
  <2>2. head' \in 1 .. MaxBlock /\ 0 .. head \subseteq 0 .. head'
    BY <1>0, <1>1, NotifierAssumption
  <2> QED
    BY <1>0, <1>1, <2>1, <2>2 DEF NoteOK
<1>2. CASE NewBlock
  <2>1. head < MaxBlock /\ head' = head + 1 /\ sales' \in {sales, sales \cup {head + 1}}
    BY <1>2 DEF NewBlock
  <2>2. head' \in head .. MaxBlock /\ sales' \subseteq 1 .. head'
    BY <1>0, <2>1, NotifierAssumption, SMTT(60) DEF NoteOK
  <2> QED
    BY <1>1, <1>2, <2>2 DEF NewBlock, state, history, NoteOK
<1>3. CASE WorldMoves \/ Tick \/ UNCHANGED vars
  <2>1. /\ UNCHANGED <<head, sales, lastSent, mailed, lastDispenserBlock, file, cycle>>
        /\ now' = now \/ now' = now + 1
    BY <1>3 DEF WorldMoves, Tick, vars, world, state, history
  <2>2. head' \in head .. MaxBlock /\ sales' \subseteq 1 .. head' /\ now' \in Nat \ {0}
    BY <1>0, <2>1, NotifierAssumption, SMTT(60) DEF NoteOK
  <2> QED
    BY <1>1, <2>1, <2>2
<1>4. ASSUME NEW c \in Cycles, Fetch(c)
      PROVE  NoteOK'
  <2>1. UNCHANGED <<now, head, sales, lastSent, mailed, file>>
    BY <1>4 DEF Fetch, world
  <2>2. /\ Lone(c) /\ (Waits(cycle'[c]) \/ Busy(cycle'[c], head))
        /\ lastDispenserBlock' = lastDispenserBlock \/ lastDispenserBlock' = head
    BY <1>4, FetchDoes DEF LooksElsewhere, LooksForSales
  <2> QED
    BY <1>0, <2>1, <2>2, NoteSame
<1>5. ASSUME NEW c \in Cycles, Step(c)
      PROVE  NoteOK'
  <2>1. UNCHANGED <<now, head, sales, mailed, file>>
    BY <1>5 DEF Step, world, history
  <2>2. cycle[c].at = "loop" /\ lastSent' \in [Keys -> Nat] /\ (Passes(c) \/ Tells(c))
    BY <1>5, StepDoes
  <2>3. /\ Lone(c) /\ (Waits(cycle'[c]) \/ Busy(cycle'[c], head))
        /\ lastDispenserBlock' \in 0 .. head
    <3>1. CASE Passes(c)
      BY <2>2, <3>1, ListGoesOn DEF Passes, Waits
    <3>2. CASE Tells(c)
      BY <1>0, <3>2 DEF Tells
    <3> QED
      BY <2>2, <3>1, <3>2
  <2> QED
    BY <1>0, <2>1, <2>2, <2>3, NoteSame
<1>6. ASSUME NEW c \in Cycles, Sent(c)
      PROVE  NoteOK'
  <2>1. UNCHANGED <<now, head, sales, lastSent, file>>
    BY <1>6 DEF Sent, world
  <2>2. /\ cycle[c].at = "mail" /\ Onward(c, Tail(cycle[c].todo), cycle[c].latest)
        /\ mailed' \in [1 .. MaxBlock -> [times: Seq(Nat), ever: BOOLEAN]]
    BY <1>6, SentDoes
  <2>3. ~Waits(cycle[c])
    BY <2>2 DEF Waits
  <2>4. /\ Lone(c) /\ (Waits(cycle'[c]) \/ Busy(cycle'[c], head))
        /\ lastDispenserBlock' \in 0 .. head
    BY <2>2, <2>3, ListGoesOn
  <2> QED
    BY <1>0, <2>1, <2>2, <2>4, NoteSame
<1>7. ASSUME NEW c \in Cycles, FetchFails(c) \/ NotSent(c)
      PROVE  NoteOK'
  <2>1. UNCHANGED <<now, head, sales, lastSent, lastDispenserBlock, file, mailed>>
    BY <1>7 DEF FetchFails, NotSent, world, state, history
  <2>2. Lone(c) /\ Waits(cycle'[c])
    BY <1>0, <1>7, LeavesOff DEF FetchFails, NotSent, Leaves
  <2> QED
    BY <1>0, <2>1, <2>2, NoteSame
<1>8. ASSUME NEW c \in Cycles, saveState(c)
      PROVE  NoteOK'
  <2>1. /\ UNCHANGED <<now, head, sales, lastSent, lastDispenserBlock, mailed>>
        /\ file' = InMemory /\ cycle' = [cycle EXCEPT ![c] = Started(c)]
    BY <1>8 DEF saveState, world, state, history, Goto
  <2>2. file'.block \in 0 .. head
    BY <1>0, <2>1 DEF InMemory
  <2>3. Lone(c) /\ cycle'[c] = Started(c)
    BY <1>0, <2>1 DEF Lone
  <2>4. Waits(cycle'[c]) \/ Busy(cycle'[c], head)
    BY <1>0, <2>3, StartedOK
  <2> QED
    BY <1>0, <2>1, <2>2, <2>3, <2>4, NoteSame
<1>9. CASE Restart
  <2>1. /\ UNCHANGED <<now, head, sales>> /\ file'.block \in 0 .. head
        /\ lastDispenserBlock' = file'.block /\ lastSent' \in [Keys -> Nat]
        /\ cycle' = [c \in Cycles |-> Started(c)]
        /\ mailed' \in [1 .. MaxBlock -> [times: Seq(Nat), ever: BOOLEAN]]
    BY <1>0, <1>9, RestartDoes DEF Never
  <2>2. \A c \in Cycles : Waits(cycle'[c]) \/ Busy(cycle'[c], head')
    BY <1>0, <2>1, StartedOK
  <2>3. (\A c \in Cycles : Waits(cycle[c]) \/ Busy(cycle[c], head))'
    BY <2>2 DEF Waits, Busy
  <2> QED
    BY <1>0, <2>1, <2>3 DEF NoteOK
<1> QED
  BY <1>2, <1>3, <1>4, <1>5, <1>6, <1>7, <1>8, <1>9 DEF Next, Goes

LEMMA NoteKept == Spec => []NoteOK
  BY NoteInit, NoteStep, PTL DEF Spec

-----------------------------------------------------------------------------
(* The notifier: no sale is told twice within a cooldown                   *)

Apart(m, n) == m - n >= COOLDOWN_MS \/ n - m >= COOLDOWN_MS

\* The times a sale was told, and is being told, are apart and not after the
\* time its key was last taken; a taken key is what forbids the next mail.
ToldOf(b) ==
  LET times == mailed[b].times IN
  /\ \A n \in DOMAIN times : Stamp(b) # Never /\ times[n] <= Stamp(b)
  /\ \A m, n \in DOMAIN times : m # n => Apart(times[m], times[n])
  /\ \A c \in Cycles : Mails(c, b) =>
       /\ Stamp(b) # Never /\ cycle[c].since <= Stamp(b)
       /\ \A n \in DOMAIN times : Apart(cycle[c].since, times[n])
  /\ \A c, d \in Cycles : c # d /\ Mails(c, b) /\ Mails(d, b)
       => Apart(cycle[c].since, cycle[d].since)

ToldInv == \A b \in 1 .. MaxBlock : ToldOf(b)

\* A step that sends nothing new and takes no key of the sale.
LEMMA ToldSame ==
  ASSUME NEW b, ToldOf(b), mailed'[b].times = mailed[b].times, Stamp(b)' = Stamp(b),
         \A c \in Cycles : Mails(c, b)' => Mails(c, b) /\ cycle'[c].since = cycle[c].since
  PROVE  ToldOf(b)'
  BY DEF ToldOf, Apart

\* No other cycle starts or ends a mail.
LEMMA MailsKept ==
  ASSUME NEW c \in Cycles, Lone(c), NEW d \in Cycles \ {c}, NEW b
  PROVE  (Mails(d, b)' <=> Mails(d, b)) /\ cycle'[d] = cycle[d]
  BY DEF Lone, Mails, At, Item1

\* The same, when the one cycle that moved is not at a mail.
LEMMA ToldQuiet ==
  ASSUME NEW b, ToldOf(b), mailed'[b].times = mailed[b].times, Stamp(b)' = Stamp(b),
         NEW c \in Cycles, Lone(c), cycle'[c].at # "mail"
  PROVE  ToldOf(b)'
<1>1. ~Mails(c, b)'
  BY DEF Mails, At
<1>2. \A d \in Cycles : Mails(d, b)' => Mails(d, b) /\ cycle'[d].since = cycle[d].since
  BY <1>1, MailsKept
<1> QED
  BY <1>2, ToldSame

\* A sale on its way: told long ago, if ever, and now the latest time.
LEMMA ToldTells ==
  ASSUME NoteOK, NEW c \in Cycles, cycle[c].at = "loop", Tells(c),
         NEW b \in 1 .. MaxBlock, IsSale(Head(cycle[c].todo), b),
         ToldOf(b), mailed'[b].times = mailed[b].times
  PROVE  ToldOf(b)'
<1> DEFINE times == mailed[b].times
<1>1. /\ Stamp(b) \in Nat /\ now \in Nat \ {0} /\ COOLDOWN_MS \in Nat \ {0}
      /\ times \in Seq(Nat)
  BY NotifierAssumption DEF NoteOK, Stamp, Keys
<1>2. /\ Stamp(b)' = now /\ (Stamp(b) = Never \/ now - Stamp(b) >= COOLDOWN_MS)
      /\ cycle'[c].since = now /\ Lone(c)
  BY DEF Tells
<1>3. \A n \in DOMAIN times : times[n] \in Nat /\ times[n] <= now /\ Apart(now, times[n])
  <2> TAKE n \in DOMAIN times
  <2>1. times[n] \in Nat /\ times[n] <= Stamp(b) /\ Stamp(b) # Never
    BY <1>1 DEF ToldOf
  <2> QED
    BY <1>1, <1>2, <2>1, SMTT(60) DEF Apart
<1>4. ASSUME NEW d \in Cycles \ {c}, Mails(d, b)'
      PROVE  /\ Mails(d, b) /\ cycle'[d].since = cycle[d].since
             /\ cycle[d].since <= now
             /\ Apart(cycle[d].since, now) /\ Apart(now, cycle[d].since)
  <2>1. Mails(d, b) /\ cycle'[d].since = cycle[d].since
    BY <1>2, <1>4, MailsKept
  <2>2. cycle[d].since \in Nat
    BY <2>1 DEF NoteOK, Mails, At, Waits, Busy
  <2>3. cycle[d].since <= Stamp(b) /\ Stamp(b) # Never
    BY <2>1 DEF ToldOf
  <2> QED
    BY <1>1, <1>2, <2>1, <2>2, <2>3 DEF Apart
<1>5. now # Never
  BY <1>1 DEF Never
<1>6. \A n \in DOMAIN times : Stamp(b)' # Never /\ times[n] <= Stamp(b)'
  BY <1>2, <1>3, <1>5
<1>7. \A m, n \in DOMAIN times : m # n => Apart(times[m], times[n])
  BY DEF ToldOf
<1>8. ASSUME NEW d \in Cycles, Mails(d, b)'
      PROVE  /\ Stamp(b)' # Never /\ cycle'[d].since <= Stamp(b)'
             /\ \A n \in DOMAIN times : Apart(cycle'[d].since, times[n])
  <2>1. CASE d = c
    BY <1>1, <1>2, <1>3, <1>5, <2>1
  <2>2. CASE d # c
    <3>1. /\ Mails(d, b) /\ cycle'[d].since = cycle[d].since
          /\ cycle[d].since <= now
      BY <1>4, <1>8, <2>2
    <3> QED
      BY <1>2, <1>5, <3>1 DEF ToldOf
  <2> QED
    BY <2>1, <2>2
<1>9. ASSUME NEW d \in Cycles, NEW e \in Cycles, d # e, Mails(d, b)', Mails(e, b)'
      PROVE  Apart(cycle'[d].since, cycle'[e].since)
  <2>1. CASE d = c
    BY <1>2, <1>4, <1>9, <2>1
  <2>2. CASE e = c
    BY <1>2, <1>4, <1>9, <2>2
  <2>3. CASE d # c /\ e # c
    <3>1. /\ Mails(d, b) /\ cycle'[d].since = cycle[d].since
          /\ Mails(e, b) /\ cycle'[e].since = cycle[e].since
      BY <1>4, <1>9, <2>3
    <3> QED
      BY <1>9, <3>1 DEF ToldOf
  <2> QED
    BY <2>1, <2>2, <2>3
<1> QED
  BY <1>6, <1>7, <1>8, <1>9 DEF ToldOf, Apart

\* A sale told: the time it was taken up is apart from the others.
LEMMA ToldSent ==
  ASSUME NoteOK, NEW c \in Cycles, cycle[c].at = "mail", Lone(c), cycle'[c].at # "mail",
         NEW b \in 1 .. MaxBlock, IsSale(Item1(c), b), Stamp(b)' = Stamp(b),
         ToldOf(b), mailed'[b].times = Append(mailed[b].times, cycle[c].since)
  PROVE  ToldOf(b)'
<1> DEFINE times == mailed[b].times
           t == cycle[c].since
           new == Append(times, t)
<1>1. times \in Seq(Nat) /\ t \in Nat /\ COOLDOWN_MS \in Nat
  BY NotifierAssumption DEF NoteOK, Waits, Busy
<1>2. /\ Mails(c, b) /\ Stamp(b) # Never /\ t <= Stamp(b)
      /\ \A n \in DOMAIN times : Apart(t, times[n])
  BY DEF Mails, At, ToldOf
<1>3. \A n \in DOMAIN new : \/ new[n] = t /\ n = Len(times) + 1
                            \/ n \in DOMAIN times /\ new[n] = times[n]
  <2> HIDE DEF times, t
  <2>1. /\ new \in Seq(Nat) /\ Len(new) = Len(times) + 1 /\ Len(times) \in Nat
        /\ \A n \in 1 .. Len(new) : new[n] = IF n <= Len(times) THEN times[n] ELSE t
    BY <1>1, AppendProperties, LenProperties
  <2> HIDE DEF new
  <2>2. DOMAIN new = 1 .. Len(times) + 1 /\ DOMAIN times = 1 .. Len(times)
    BY <1>1, <2>1, LenProperties
  <2>3. \A n \in 1 .. Len(times) + 1 : n \in 1 .. Len(times) \/ n = Len(times) + 1
    BY <2>1
  <2>4. ~(Len(times) + 1 <= Len(times)) /\ Len(times) + 1 \in 1 .. Len(new)
    BY <2>1
  <2>5. \A n \in 1 .. Len(times) : n <= Len(times) /\ n \in 1 .. Len(new)
    BY <2>1
  <2> QED
    BY <2>1, <2>2, <2>3, <2>4, <2>5
<1> HIDE DEF new
<1>4. \A n \in DOMAIN times : times[n] \in Nat /\ times[n] <= Stamp(b)
  BY <1>1 DEF ToldOf
<1>5. \A n \in DOMAIN times : Apart(times[n], t)
  BY <1>1, <1>2 DEF Apart
<1>6. \A n \in DOMAIN new : Stamp(b) # Never /\ new[n] <= Stamp(b)
  BY <1>2, <1>3, <1>4
<1>7. ASSUME NEW m \in DOMAIN new, NEW n \in DOMAIN new, m # n
      PROVE  Apart(new[m], new[n])
  <2>1. CASE m \in DOMAIN times /\ new[m] = times[m] /\ n \in DOMAIN times /\ new[n] = times[n]
    BY <1>7, <2>1 DEF ToldOf
  <2>2. CASE m \in DOMAIN times /\ new[m] = times[m] /\ new[n] = t
    BY <1>5, <2>2
  <2>3. CASE new[m] = t /\ n \in DOMAIN times /\ new[n] = times[n]
    BY <1>2, <2>3
  <2>4. CASE m = Len(times) + 1 /\ n = Len(times) + 1
    BY <1>7, <2>4
  <2> QED
    BY <1>3, <2>1, <2>2, <2>3, <2>4
<1>8. ASSUME NEW d \in Cycles, Mails(d, b)'
      PROVE  d # c /\ Mails(d, b) /\ cycle'[d].since = cycle[d].since
  <2>1. d # c
    BY <1>8 DEF Mails, At
  <2> QED
    BY <1>8, <2>1, MailsKept
<1>9. ASSUME NEW d \in Cycles, Mails(d, b)'
      PROVE  /\ Stamp(b) # Never /\ cycle'[d].since <= Stamp(b)
             /\ \A n \in DOMAIN new : Apart(cycle'[d].since, new[n])
  <2>1. d # c /\ Mails(d, b) /\ cycle'[d].since = cycle[d].since
    BY <1>8, <1>9
  <2>2. /\ cycle[d].since <= Stamp(b) /\ Apart(cycle[d].since, t)
        /\ \A n \in DOMAIN times : Apart(cycle[d].since, times[n])
    BY <1>2, <2>1 DEF ToldOf
  <2>3. \A n \in DOMAIN new : Apart(cycle[d].since, new[n])
    <3> HIDE DEF times, t
    <3> QED
      BY <1>3, <2>2
  <2> QED
    BY <1>2, <2>1, <2>2, <2>3
<1>10. \A d, e \in Cycles : d # e /\ Mails(d, b)' /\ Mails(e, b)'
         => Apart(cycle'[d].since, cycle'[e].since)
  BY <1>8 DEF ToldOf
<1>11. mailed'[b].times = new
  BY DEF new
<1> QED
  BY <1>6, <1>7, <1>9, <1>10, <1>11 DEF ToldOf, Apart

LEMMA ToldInit == Init => ToldInv
<1> SUFFICES ASSUME Init, NEW b \in 1 .. MaxBlock PROVE ToldOf(b)
  BY DEF ToldInv
<1>1. mailed[b].times = <<>> /\ \A c \in Cycles : ~Mails(c, b)
  BY StartedOK DEF Init, Mails, At
<1> QED
  BY <1>1 DEF ToldOf

LEMMA ToldStep == NoteOK /\ ToldInv /\ [Next]_vars => ToldInv'
<1> SUFFICES ASSUME NoteOK, ToldInv, [Next]_vars, NEW b \in 1 .. MaxBlock
             PROVE  ToldOf(b)'
  BY DEF ToldInv
<1>0. ToldOf(b)
  BY DEF ToldInv
<1>1. CASE NewBlock \/ WorldMoves \/ Tick \/ UNCHANGED vars
  <2>1. UNCHANGED <<mailed, lastSent, cycle>>
    BY <1>1 DEF NewBlock, WorldMoves, Tick, vars, state, history
  <2> QED
    BY <1>0, <2>1, ToldSame DEF Stamp, Mails, At, Item1
<1>2. ASSUME NEW c \in Cycles, Fetch(c) \/ FetchFails(c) \/ NotSent(c) \/ saveState(c)
      PROVE  ToldOf(b)'
  <2>1. UNCHANGED <<mailed, lastSent>>
    BY <1>2 DEF Fetch, FetchFails, NotSent, saveState, history
  <2>2. Lone(c) /\ cycle'[c].at # "mail"
    <3>1. CASE Fetch(c)
      BY <3>1, FetchDoes DEF LooksElsewhere, LooksForSales
    <3>2. CASE FetchFails(c) \/ NotSent(c)
      BY <3>2, LeavesOff DEF FetchFails, NotSent, Leaves, NoteOK, Waits
    <3>3. CASE saveState(c)
      <4>1. cycle' = [cycle EXCEPT ![c] = Started(c)] /\ DOMAIN cycle = Cycles
        BY <3>3 DEF saveState, Goto, NoteOK
      <4> QED
        BY <4>1, StartedOK DEF Lone
    <3> QED
      BY <1>2, <3>1, <3>2, <3>3
  <2> QED
    BY <1>0, <2>1, <2>2, ToldQuiet DEF Stamp
<1>3. ASSUME NEW c \in Cycles, Step(c)
      PROVE  ToldOf(b)'
  <2>1. mailed' = mailed
    BY <1>3 DEF Step, history
  <2>2. cycle[c].at = "loop" /\ (Passes(c) \/ Tells(c))
    BY <1>3, StepDoes
  <2>3. CASE Passes(c)
    <3>1. Lone(c) /\ cycle'[c].at # "mail"
      BY <2>2, <2>3, ListGoesOn DEF Passes, Waits
    <3> QED
      BY <1>0, <2>1, <2>3, <3>1, ToldQuiet DEF Passes
  <2>4. CASE Tells(c) /\ IsSale(Head(cycle[c].todo), b)
    BY <1>0, <2>1, <2>2, <2>4, ToldTells
  <2>5. CASE Tells(c) /\ ~IsSale(Head(cycle[c].todo), b)
    <3>1. Lone(c) /\ ~Mails(c, b)' /\ Stamp(b)' = Stamp(b)
      BY <2>5 DEF Tells, Mails, Item1
    <3>2. \A d \in Cycles :
            Mails(d, b)' => Mails(d, b) /\ cycle'[d].since = cycle[d].since
      BY <3>1, MailsKept
    <3> QED
      BY <1>0, <2>1, <3>1, <3>2, ToldSame
  <2> QED
    BY <2>2, <2>3, <2>4, <2>5
<1>4. ASSUME NEW c \in Cycles, Sent(c)
      PROVE  ToldOf(b)'
  <2>1. /\ cycle[c].at = "mail" /\ Onward(c, Tail(cycle[c].todo), cycle[c].latest)
        /\ IF IsSale(Item1(c), b)
           THEN mailed'[b].times = Append(mailed[b].times, cycle[c].since)
           ELSE mailed'[b] = mailed[b]
    BY <1>4, SentDoes
  <2>2. lastSent' = lastSent
    BY <1>4 DEF Sent
  <2>3. Lone(c) /\ cycle'[c].at # "mail"
    BY <2>1, ListGoesOn DEF Waits
  <2>4. CASE IsSale(Item1(c), b)
    BY <1>0, <2>1, <2>2, <2>3, <2>4, ToldSent DEF Stamp
  <2>5. CASE ~IsSale(Item1(c), b)
    BY <1>0, <2>1, <2>2, <2>3, <2>5, ToldQuiet DEF Stamp
  <2> QED
    BY <2>4, <2>5
<1>5. CASE Restart
  <2>1. mailed'[b].times = <<>> /\ cycle' = [c \in Cycles |-> Started(c)]
    BY <1>5, RestartDoes
  <2>2. \A c \in Cycles : ~Mails(c, b)'
    BY <2>1, StartedOK DEF Mails, At
  <2> QED
    BY <2>1, <2>2 DEF ToldOf
<1> QED
  BY <1>1, <1>2, <1>3, <1>4, <1>5 DEF Next, Goes

\* mailer.js 21-33: no sale is told twice within a cooldown by one life of the
\* process, for any number of cycles that overlap, any lists and any chain.
THEOREM NoSaleToldTwice == Spec => []ToldOnce
<1>1. ToldInv => ToldOnce
  BY DEF ToldInv, ToldOf, ToldOnce, Apart
<1>2. Spec => []ToldInv
  BY ToldInit, ToldStep, NoteKept, PTL DEF Spec
<1> QED
  BY <1>1, <1>2, PTL

-----------------------------------------------------------------------------
(* The notifier: the cursor passes no sale untold                          *)

\* Where a search without a cursor begins.
Back == IF head > Window THEN head - Window ELSE 1
Done(b) == mailed[b].ever \/ BeingMailed(b) \/ b \in failed

\* Up to `to` every sale is dealt with, or is in the list.
CoveredBut(to, list) ==
  \A b \in sales : b \in lookedFrom .. to => Done(b) \/ Has(list, b)
Covered(to) == \A b \in sales : b \in lookedFrom .. to => Done(b)

\* The cursors in memory and in the file are past no sale that is not dealt
\* with, and what lies before the end of the range of a cycle is dealt with or
\* still in its list; a key is taken by a mail only.
SkipInv ==
  /\ lookedFrom \in Nat /\ lookedFrom <= Back
  /\ \A b \in 1 .. MaxBlock : Stamp(b) # Never => Done(b)
  /\ Covered(lastDispenserBlock) /\ Covered(file.block)
  /\ \A c \in Cycles : ~Waits(cycle[c]) /\ cycle[c].stage = "gmbSales"
       => CoveredBut(cycle[c].latest, cycle[c].todo)

\* A sale dealt with stays dealt with, and the search never begins earlier.
Keeps ==
  /\ \A b \in 1 .. MaxBlock : Done(b) => Done(b)'
  /\ sales' = sales /\ lookedFrom' \in Nat /\ lookedFrom <= lookedFrom'

\* A cursor that stays, or is set back to another one or to none.
LEMMA CursorsKept ==
  ASSUME NoteOK, SkipInv, Keeps
  PROVE  /\ lastDispenserBlock' \in {lastDispenserBlock, file.block, 0}
              => Covered(lastDispenserBlock)'
         /\ file'.block \in {lastDispenserBlock, file.block, 0}
              => Covered(file.block)'
<1>1. /\ sales \subseteq 1 .. MaxBlock /\ sales' = sales /\ lookedFrom \in Nat
      /\ lookedFrom' \in Nat /\ lookedFrom <= lookedFrom'
      /\ lastDispenserBlock \in Nat /\ file.block \in Nat
  BY NotifierAssumption DEF NoteOK, Keeps, SkipInv
<1>2. ASSUME NEW b \in sales,
             \/ b \in lookedFrom' .. lastDispenserBlock
             \/ b \in lookedFrom' .. file.block
             \/ b \in lookedFrom' .. 0
      PROVE  Done(b)'
  <2>1. b \in 1 .. MaxBlock /\ b \in Nat
    BY <1>1, NotifierAssumption
  <2>2. ~(b \in lookedFrom' .. 0)
    BY <1>1, <2>1
  <2>3. b \in lookedFrom .. lastDispenserBlock \/ b \in lookedFrom .. file.block
    BY <1>1, <1>2, <2>2
  <2>4. Done(b)
    BY <2>3 DEF SkipInv, Covered
  <2> QED
    BY <2>1, <2>4 DEF Keeps
<1>3. ASSUME lastDispenserBlock' \in {lastDispenserBlock, file.block, 0}
      PROVE  \A b \in sales' : b \in lookedFrom' .. lastDispenserBlock' => Done(b)'
  BY <1>1, <1>2, <1>3
<1>4. ASSUME file'.block \in {lastDispenserBlock, file.block, 0}
      PROVE  \A b \in sales' : b \in lookedFrom' .. file'.block => Done(b)'
  BY <1>1, <1>2, <1>4
<1> QED
  BY <1>3, <1>4 DEF Covered

\* A step of one cycle, or of none, keeps the claims of the others.
LEMMA KeepsOthers ==
  ASSUME NoteOK, SkipInv, Keeps, NEW d \in Cycles, cycle'[d] = cycle[d]
  PROVE  (~Waits(cycle[d]) /\ cycle[d].stage = "gmbSales"
            => CoveredBut(cycle[d].latest, cycle[d].todo))'
<1> SUFFICES ASSUME (~Waits(cycle[d]) /\ cycle[d].stage = "gmbSales")'
             PROVE  CoveredBut(cycle[d].latest, cycle[d].todo)'
  OBVIOUS
<1>1. ~Waits(cycle[d]) /\ cycle[d].stage = "gmbSales"
  BY DEF Waits
<1>2. cycle[d].latest \in Nat
  BY <1>1 DEF NoteOK, Busy
<1> DEFINE to == cycle[d].latest
           list == cycle[d].todo
<1>3. CoveredBut(to, list)
  BY <1>1 DEF SkipInv
<1> HIDE DEF to, list
<1>4. to \in Nat /\ lookedFrom \in Nat
  BY <1>2 DEF SkipInv, to
<1>5. \A b \in sales' : b \in lookedFrom' .. to => Done(b)' \/ Has(list, b)
  <2>1. CoveredBut(to, list)' <=> \A b \in sales' : b \in lookedFrom' .. to' => Done(b)' \/ Has(list', b)
    BY DEF CoveredBut, Has
  <2>2. sales \subseteq Nat /\ sales' = sales /\ sales \subseteq 1 .. MaxBlock
    BY NotifierAssumption DEF NoteOK, Keeps
  <2>3. \A b \in sales : b \in lookedFrom' .. to => b \in lookedFrom .. to
    BY <1>4, <2>2 DEF Keeps
  <2> QED
    BY <1>3, <2>2, <2>3 DEF CoveredBut, Keeps
<1> QED
  BY <1>5 DEF CoveredBut, Has, to, list

\* Mails end as mails told or mails failed, in the one cycle that moves.
LEMMA KeepsDone ==
  ASSUME NEW c \in Cycles, Lone(c), NEW b, Done(b),
         mailed[b].ever => mailed'[b].ever, failed \subseteq failed',
         Mails(c, b) => mailed'[b].ever \/ b \in failed'
  PROVE  Done(b)'
<1>1. CASE BeingMailed(b)
  <2>1. PICK d \in Cycles : Mails(d, b)
    BY <1>1 DEF BeingMailed, Mails, IsSale
  <2>2. CASE d = c
    BY <2>1, <2>2 DEF Done
  <2>3. CASE d # c
    <3>1. Mails(d, b)'
      BY <2>1, <2>3, MailsKept
    <3> QED
      BY <3>1 DEF Done, BeingMailed, Mails, IsSale
  <2> QED
    BY <2>2, <2>3
<1>2. CASE mailed[b].ever \/ b \in failed
  BY <1>2 DEF Done
<1> QED
  BY <1>1, <1>2 DEF Done

\* The list goes on past an item dealt with: the invariant holds again.
LEMMA SkipGoesOn ==
  ASSUME NoteOK, SkipInv, Keeps, NEW c \in Cycles, ~Waits(cycle[c]),
         Onward(c, Tail(cycle[c].todo), cycle[c].latest),
         \A b \in 1 .. MaxBlock : IsSale(Item1(c), b) => Done(b)',
         \A b \in 1 .. MaxBlock : Stamp(b)' = Stamp(b),
         UNCHANGED <<head, lookedFrom>>, file'.block = file.block
  PROVE  SkipInv'
<1> DEFINE x == cycle[c]
           y == cycle'[c]
<1>1. /\ Busy(x, head) /\ head \in Nat
      /\ \A b : Has(x.todo, b) => IsSale(Item1(c), b) \/ Has(Tail(x.todo), b)
  BY BusyWith DEF Item1
<1>2. x.latest \in Nat /\ lastDispenserBlock \in Nat /\ file.block \in Nat
      /\ lookedFrom \in Nat /\ sales \subseteq 1 .. MaxBlock
  BY <1>1, NotifierAssumption DEF Busy, NoteOK, SkipInv
<1>3. /\ Lone(c)
      /\ \/ /\ y.stage = x.stage /\ y.todo = Tail(x.todo)
            /\ y.latest = x.latest /\ lastDispenserBlock' = lastDispenserBlock
         \/ /\ Waits(y) /\ Tail(x.todo) = <<>>
            /\ lastDispenserBlock' = IF x.stage = "gmbSales" THEN x.latest
                                     ELSE lastDispenserBlock
  BY ListGoesOn
<1>4. x.stage = "gmbSales" =>
        \A b \in sales : b \in lookedFrom .. x.latest
          => Done(b)' \/ Has(Tail(x.todo), b)
  <2> SUFFICES ASSUME x.stage = "gmbSales", NEW b \in sales, b \in lookedFrom .. x.latest
               PROVE  Done(b)' \/ Has(Tail(x.todo), b)
    OBVIOUS
  <2>1. Done(b) \/ Has(x.todo, b)
    BY DEF SkipInv, CoveredBut
  <2> QED
    BY <1>1, <1>2, <2>1 DEF Keeps
<1>5. Covered(lastDispenserBlock)' /\ Covered(file.block)'
  <2>1. CASE lastDispenserBlock' = lastDispenserBlock
    BY <2>1, CursorsKept
  <2>2. CASE lastDispenserBlock' # lastDispenserBlock
    <3>1. /\ Tail(x.todo) = <<>> /\ x.stage = "gmbSales"
          /\ lastDispenserBlock' = x.latest
      BY <1>3, <2>2
    <3>2. \A b : ~Has(<<>>, b)
      BY DEF Has
    <3>3. \A b \in sales' : b \in lookedFrom' .. lastDispenserBlock' => Done(b)'
      BY <1>4, <3>1, <3>2 DEF Keeps
    <3> QED
      BY <3>3, CursorsKept DEF Covered
  <2> QED
    BY <2>1, <2>2
<1>6. (~Waits(cycle[c]) /\ cycle[c].stage = "gmbSales"
         => CoveredBut(cycle[c].latest, cycle[c].todo))'
  <2> SUFFICES ASSUME ~Waits(y), y.stage = "gmbSales"
               PROVE  CoveredBut(cycle[c].latest, cycle[c].todo)'
    BY DEF Waits
  <2>1. /\ x.stage = "gmbSales" /\ y.todo = Tail(x.todo) /\ y.latest = x.latest
    BY <1>3
  <2>2. \A b \in sales' : b \in lookedFrom' .. y.latest => Done(b)' \/ Has(y.todo, b)
    BY <1>4, <2>1 DEF Keeps
  <2> QED
    BY <2>2 DEF CoveredBut, Has
<1>7. \A d \in Cycles : (~Waits(cycle[d]) /\ cycle[d].stage = "gmbSales"
         => CoveredBut(cycle[d].latest, cycle[d].todo))'
  BY <1>3, <1>6, KeepsOthers DEF Lone
<1>8. lookedFrom' \in Nat /\ lookedFrom' <= Back'
  BY DEF SkipInv, Back
<1>9. \A b \in 1 .. MaxBlock : Stamp(b)' # Never => Done(b)'
  BY DEF SkipInv, Keeps
<1> QED
  BY <1>5, <1>7, <1>8, <1>9 DEF SkipInv

\* The one cycle that moves is at no range of sales, or covers its range; the
\* cursors move to each other at most, or one moves to where all is dealt with.
LEMMA SkipMoves ==
  ASSUME NoteOK, SkipInv, Keeps, NEW c \in Cycles, Lone(c),
         (~Waits(cycle[c]) /\ cycle[c].stage = "gmbSales"
            => CoveredBut(cycle[c].latest, cycle[c].todo))',
         \/ lastDispenserBlock' \in {lastDispenserBlock, file.block, 0}
         \/ Covered(lastDispenserBlock)',
         file'.block \in {lastDispenserBlock, file.block, 0},
         \A b \in 1 .. MaxBlock : Stamp(b)' # Never => Done(b)',
         lookedFrom' <= Back'
  PROVE  SkipInv'
<1>1. Covered(lastDispenserBlock)' /\ Covered(file.block)'
  BY CursorsKept
<1>2. \A d \in Cycles : (~Waits(cycle[d]) /\ cycle[d].stage = "gmbSales"
         => CoveredBut(cycle[d].latest, cycle[d].todo))'
  BY KeepsOthers DEF Lone
<1>3. lookedFrom' \in Nat
  BY DEF Keeps
<1> QED
  BY <1>1, <1>2, <1>3 DEF SkipInv

\* A watcher looks for sales: from the cursor on, all of them are in its list.
LEMMA SkipLooks ==
  ASSUME NoteOK, SkipInv, Keeps, NEW c \in Cycles, From \in Nat \ {0}, LooksForSales(c),
         file' = file, head' = head, \A b \in 1 .. MaxBlock : Stamp(b)' = Stamp(b)
  PROVE  SkipInv'
<1> DEFINE y == cycle'[c]
           items == SaleItems(From, head)
<1>1. /\ Lone(c) /\ From <= head
      /\ lookedFrom' = IF lastDispenserBlock = 0 THEN From ELSE lookedFrom
      /\ \/ /\ y.todo = items /\ y.latest = head
            /\ lastDispenserBlock' = lastDispenserBlock
         \/ /\ Waits(y) /\ items = <<>> /\ lastDispenserBlock' = head
  BY DEF LooksForSales
<1>2. /\ head \in Nat /\ lastDispenserBlock \in Nat /\ lookedFrom \in Nat
      /\ sales \subseteq 1 .. MaxBlock /\ sales \subseteq Nat
  BY NotifierAssumption DEF NoteOK, SkipInv
<1>3. \A b \in sales \cap (From .. head) : Has(items, b)
  BY <1>1, <1>2, SalesListed
<1> HIDE DEF items
<1>4. ASSUME NEW b \in sales, b \in lookedFrom' .. head
      PROVE  Done(b)' \/ Has(items, b)
  <2>1. CASE b >= From
    BY <1>2, <1>3, <1>4, <2>1
  <2>2. CASE ~(b >= From)
    <3>1. lastDispenserBlock # 0
      BY <1>1, <1>2, <1>4, <2>2
    <3>2. From = lastDispenserBlock + 1 /\ lookedFrom' = lookedFrom
      BY <1>1, <1>2, <3>1 DEF From
    <3>3. b \in lookedFrom .. lastDispenserBlock
      BY <1>2, <1>4, <2>2, <3>2
    <3> QED
      BY <1>2, <3>3 DEF SkipInv, Covered, Keeps
  <2> QED
    BY <2>1, <2>2
<1>5. (~Waits(cycle[c]) /\ cycle[c].stage = "gmbSales"
         => CoveredBut(cycle[c].latest, cycle[c].todo))'
  <2> SUFFICES ASSUME ~Waits(y)
               PROVE  CoveredBut(cycle[c].latest, cycle[c].todo)'
    BY DEF Waits
  <2>1. y.todo = items /\ y.latest = head
    BY <1>1
  <2>2. \A b \in sales' : b \in lookedFrom' .. y.latest => Done(b)' \/ Has(y.todo, b)
    BY <1>4, <2>1 DEF Keeps
  <2> QED
    BY <2>2 DEF CoveredBut, Has
<1>6. \/ lastDispenserBlock' \in {lastDispenserBlock, file.block, 0}
      \/ Covered(lastDispenserBlock)'
  <2>1. CASE items = <<>> /\ lastDispenserBlock' = head
    <3>1. \A b : ~Has(<<>>, b)
      BY DEF Has
    <3>2. \A b \in sales' : b \in lookedFrom' .. lastDispenserBlock' => Done(b)'
      BY <1>4, <2>1, <3>1 DEF Keeps
    <3> QED
      BY <3>2 DEF Covered
  <2> QED
    BY <1>1, <2>1
<1>7. lookedFrom' <= Back'
  BY <1>1, <1>2 DEF SkipInv, Back, From
<1>8. \A b \in 1 .. MaxBlock : Stamp(b)' # Never => Done(b)'
  BY DEF SkipInv, Keeps
<1> QED
  BY <1>1, <1>5, <1>6, <1>7, <1>8, SkipMoves

\* A sale on its way is being mailed.
LEMMA SkipTells ==
  ASSUME NoteOK, SkipInv, Keeps, NEW c \in Cycles, ~Waits(cycle[c]), Tells(c),
         UNCHANGED <<head, file, lookedFrom>>
  PROVE  SkipInv'
<1> DEFINE x == cycle[c]
           y == cycle'[c]
<1>1. /\ Lone(c) /\ y.at = "mail" /\ y.stage = x.stage /\ y.latest = x.latest
      /\ lastDispenserBlock' = lastDispenserBlock
      /\ \A b : IsSale(Head(y.todo), b) <=> IsSale(Head(x.todo), b)
      /\ \A b : Has(x.todo, b) => Has(y.todo, b)
  BY DEF Tells
<1>2. \A b \in 1 .. MaxBlock : Stamp(b)' # Never => Done(b)'
  <2> TAKE b \in 1 .. MaxBlock
  <2>1. CASE IsSale(Head(x.todo), b)
    <3>1. BeingMailed(b)'
      BY <1>1, <2>1 DEF BeingMailed, At, Item1, IsSale
    <3> QED
      BY <3>1 DEF Done
  <2>2. CASE ~IsSale(Head(x.todo), b)
    BY <2>2 DEF Tells, SkipInv, Keeps
  <2> QED
    BY <2>1, <2>2
<1>3. (~Waits(cycle[c]) /\ cycle[c].stage = "gmbSales"
         => CoveredBut(cycle[c].latest, cycle[c].todo))'
  <2> SUFFICES ASSUME y.stage = "gmbSales"
               PROVE  CoveredBut(cycle[c].latest, cycle[c].todo)'
    OBVIOUS
  <2>1. CoveredBut(x.latest, x.todo)
    BY <1>1 DEF SkipInv
  <2>2. \A b \in sales' : b \in lookedFrom' .. y.latest => Done(b)' \/ Has(y.todo, b)
    <3>1. sales' = sales /\ sales \subseteq 1 .. MaxBlock /\ lookedFrom' = lookedFrom
      BY NotifierAssumption DEF NoteOK, Keeps
    <3> QED
      BY <1>1, <2>1, <3>1 DEF CoveredBut, Keeps
  <2> QED
    BY <2>2 DEF CoveredBut, Has
<1>4. lookedFrom' <= Back'
  BY DEF SkipInv, Back
<1> QED
  BY <1>1, <1>2, <1>3, <1>4, SkipMoves

\* A new block is past every cursor and every range.
LEMMA SkipNewBlock ==
  ASSUME NoteOK, SkipInv, NewBlock
  PROVE  SkipInv'
<1>1. /\ head \in Nat /\ head' = head + 1 /\ sales' \subseteq sales \cup {head + 1}
      /\ sales \subseteq 1 .. head
      /\ UNCHANGED <<lastSent, lastDispenserBlock, file, cycle, mailed, failed, lookedFrom>>
  BY NotifierAssumption DEF NewBlock, NoteOK, state, history
<1>2. \A b : Done(b)' <=> Done(b)
  BY <1>1 DEF Done, BeingMailed, At, Item1
<1>3. \A to \in 0 .. head : \A b \in sales' : b \in lookedFrom .. to => b \in sales
  BY <1>1
<1>4. lastDispenserBlock \in 0 .. head /\ file.block \in 0 .. head
  BY DEF NoteOK
<1>5. Covered(lastDispenserBlock)' /\ Covered(file.block)'
  BY <1>1, <1>2, <1>3, <1>4 DEF Covered, SkipInv
<1>6. ASSUME NEW d \in Cycles
      PROVE  (~Waits(cycle[d]) /\ cycle[d].stage = "gmbSales"
                => CoveredBut(cycle[d].latest, cycle[d].todo))'
  <2> SUFFICES ASSUME ~Waits(cycle[d]), cycle[d].stage = "gmbSales"
               PROVE  CoveredBut(cycle[d].latest, cycle[d].todo)'
    BY <1>1 DEF Waits
  <2>1. CoveredBut(cycle[d].latest, cycle[d].todo)
    BY DEF SkipInv
  <2>2. cycle[d].latest \in 0 .. head
    BY <1>1 DEF NoteOK, Busy
  <2>3. \A b \in sales' : b \in lookedFrom .. cycle[d].latest => Done(b) \/ Has(cycle[d].todo, b)
    BY <1>3, <2>1, <2>2 DEF CoveredBut
  <2> QED
    BY <1>1, <1>2, <2>3 DEF CoveredBut, Has
<1>7. lookedFrom' \in Nat /\ lookedFrom' <= Back'
  BY <1>1, NotifierAssumption DEF SkipInv, Back
<1>8. \A b \in 1 .. MaxBlock : Stamp(b)' # Never => Done(b)'
  BY <1>1, <1>2 DEF SkipInv, Stamp
<1> QED
  BY <1>5, <1>6, <1>7, <1>8 DEF SkipInv

LEMMA SkipInit == Init => SkipInv
<1> SUFFICES ASSUME Init PROVE SkipInv
  OBVIOUS
<1>1. /\ head = 1 /\ sales = {1} /\ lastDispenserBlock = 0 /\ file.block = 0
      /\ lookedFrom = 0 /\ cycle = [c \in Cycles |-> Started(c)]
  BY DEF Init, EmptyState
<1>2. \A c \in Cycles : ~Waits(cycle[c]) => cycle[c].stage # "gmbSales"
  BY <1>1, StartedOK
<1>3. \A b \in 1 .. MaxBlock : Stamp(b) = Never
  BY DEF Init, Stamp, Keys
<1>4. lookedFrom <= Back
  BY <1>1, NotifierAssumption DEF Back
<1> QED
  BY <1>1, <1>2, <1>3, <1>4 DEF SkipInv, Covered

\* What is dealt with in a step that moves one cycle.
LEMMA KeepsIn ==
  ASSUME NoteOK, SkipInv, NEW c \in Cycles, Lone(c), sales' = sales,
         lookedFrom' \in Nat, lookedFrom <= lookedFrom',
         \A b \in 1 .. MaxBlock : mailed[b].ever => mailed'[b].ever,
         failed \subseteq failed',
         \A b \in 1 .. MaxBlock : Mails(c, b) => mailed'[b].ever \/ b \in failed'
  PROVE  Keeps
<1>1. \A b \in 1 .. MaxBlock : Done(b) => Done(b)'
  BY KeepsDone
<1> QED
  BY <1>1 DEF Keeps

LEMMA SkipStep == NoteOK /\ SkipInv /\ [Next]_vars => SkipInv'
<1> SUFFICES ASSUME NoteOK, SkipInv, [Next]_vars PROVE SkipInv'
  OBVIOUS
<1>0. /\ lookedFrom \in Nat /\ lookedFrom <= Back /\ lookedFrom <= lookedFrom
      /\ DOMAIN cycle = Cycles /\ head \in Nat
  BY NotifierAssumption DEF SkipInv, NoteOK
<1>1. CASE NewBlock
  BY <1>1, SkipNewBlock
<1>2. CASE WorldMoves \/ Tick \/ UNCHANGED vars
  <2>1. UNCHANGED <<head, sales, lastSent, lastDispenserBlock, file, cycle, mailed,
                    failed, lookedFrom>>
    BY <1>2 DEF WorldMoves, Tick, vars, world, state, history
  <2>2. \A b : Done(b)' <=> Done(b)
    BY <2>1 DEF Done, BeingMailed, At, Item1
  <2>3. Keeps
    BY <1>0, <2>1, <2>2 DEF Keeps
  <2>4. \A d \in Cycles : (~Waits(cycle[d]) /\ cycle[d].stage = "gmbSales"
           => CoveredBut(cycle[d].latest, cycle[d].todo))'
    BY <2>1, <2>3, KeepsOthers
  <2>5. Covered(lastDispenserBlock)' /\ Covered(file.block)'
    BY <2>1, <2>3, CursorsKept
  <2>6. lookedFrom' \in Nat /\ lookedFrom' <= Back'
    BY <1>0, <2>1 DEF Back
  <2>7. \A b \in 1 .. MaxBlock : Stamp(b)' # Never => Done(b)'
    BY <2>1, <2>2 DEF SkipInv, Stamp
  <2> QED
    BY <2>4, <2>5, <2>6, <2>7 DEF SkipInv
<1>3. ASSUME NEW c \in Cycles, Fetch(c)
      PROVE  SkipInv'
  <2>1. UNCHANGED <<now, head, sales, lastSent, mailed, failed, file>>
    BY <1>3 DEF Fetch, world
  <2>2. /\ cycle[c].at = "fetch" /\ From \in Nat \ {0}
        /\ LooksElsewhere(c) \/ LooksForSales(c)
    BY <1>3, FetchDoes
  <2>3. \A b : ~Mails(c, b)
    BY <2>2 DEF Mails, At
  <2>4. \A b \in 1 .. MaxBlock : Stamp(b)' = Stamp(b)
    BY <2>1 DEF Stamp
  <2>5. Lone(c) /\ lookedFrom' \in Nat /\ lookedFrom <= lookedFrom'
    BY <1>0, <2>2 DEF LooksElsewhere, LooksForSales, From, Back
  <2>6. Keeps
    BY <2>1, <2>3, <2>5, KeepsIn
  <2>7. CASE LooksForSales(c)
    BY <2>1, <2>2, <2>4, <2>6, <2>7, SkipLooks
  <2>8. CASE LooksElsewhere(c)
    <3>1. (~Waits(cycle[c]) /\ cycle[c].stage = "gmbSales"
             => CoveredBut(cycle[c].latest, cycle[c].todo))'
      BY <2>8 DEF LooksElsewhere, Waits
    <3>2. lookedFrom' = lookedFrom /\ lastDispenserBlock' = lastDispenserBlock
      BY <2>8 DEF LooksElsewhere
    <3>3. lookedFrom' <= Back'
      BY <1>0, <2>1, <3>2 DEF Back
    <3>4. \A b \in 1 .. MaxBlock : Stamp(b)' # Never => Done(b)'
      BY <2>4, <2>6 DEF SkipInv, Keeps
    <3> QED
      BY <2>1, <2>5, <2>6, <3>1, <3>2, <3>3, <3>4, SkipMoves
  <2> QED
    BY <2>2, <2>7, <2>8
<1>4. ASSUME NEW c \in Cycles, Step(c)
      PROVE  SkipInv'
  <2>1. UNCHANGED <<head, sales, file, mailed, failed, lookedFrom>>
    BY <1>4 DEF Step, world, history
  <2>2. cycle[c].at = "loop" /\ (Passes(c) \/ Tells(c))
    BY <1>4, StepDoes
  <2>3. ~Waits(cycle[c]) /\ \A b : ~Mails(c, b)
    BY <2>2 DEF Mails, At, Waits
  <2>4. Lone(c)
    BY <2>2, <2>3, ListGoesOn DEF Passes, Tells
  <2>5. Keeps
    BY <1>0, <2>1, <2>3, <2>4, KeepsIn
  <2>6. CASE Passes(c)
    <3>1. /\ Onward(c, Tail(cycle[c].todo), cycle[c].latest)
          /\ \A b \in 1 .. MaxBlock : Stamp(b)' = Stamp(b)
          /\ \A b \in 1 .. MaxBlock : IsSale(Item1(c), b) => Done(b)'
      BY <2>5, <2>6 DEF Passes, SkipInv, Keeps
    <3> QED
      BY <2>1, <2>3, <2>5, <3>1, SkipGoesOn
  <2>7. CASE Tells(c)
    BY <2>1, <2>3, <2>5, <2>7, SkipTells
  <2> QED
    BY <2>2, <2>6, <2>7
<1>5. ASSUME NEW c \in Cycles, Sent(c)
      PROVE  SkipInv'
  <2>1. UNCHANGED <<head, sales, file, lastSent, failed, lookedFrom>>
    BY <1>5 DEF Sent, world
  <2>2. /\ cycle[c].at = "mail" /\ Onward(c, Tail(cycle[c].todo), cycle[c].latest)
        /\ \A b \in 1 .. MaxBlock :
             IF IsSale(Item1(c), b) THEN mailed'[b].ever ELSE mailed'[b] = mailed[b]
    BY <1>5, SentDoes
  <2>3. ~Waits(cycle[c]) /\ \A b : Mails(c, b) => IsSale(Item1(c), b)
    BY <2>2 DEF Mails, Waits
  <2>4. Lone(c)
    BY <2>2, <2>3, ListGoesOn
  <2>5. Keeps
    BY <1>0, <2>1, <2>2, <2>3, <2>4, KeepsIn
  <2>6. \A b \in 1 .. MaxBlock : IsSale(Item1(c), b) => Done(b)'
    BY <2>2 DEF Done
  <2>7. \A b \in 1 .. MaxBlock : Stamp(b)' = Stamp(b)
    BY <2>1 DEF Stamp
  <2> QED
    BY <2>1, <2>2, <2>3, <2>5, <2>6, <2>7, SkipGoesOn
<1>6. ASSUME NEW c \in Cycles, FetchFails(c) \/ NotSent(c)
      PROVE  SkipInv'
  <2>1. UNCHANGED <<head, sales, file, lastSent, lastDispenserBlock, mailed, lookedFrom>>
    BY <1>6 DEF FetchFails, NotSent, world, state, history
  <2>2. Lone(c) /\ Waits(cycle'[c])
    BY <1>0, <1>6, LeavesOff DEF FetchFails, NotSent, Leaves
  <2>3. failed \subseteq failed' /\ \A b : Mails(c, b) => b \in failed'
    <3>1. CASE FetchFails(c)
      BY <3>1 DEF FetchFails, history, Mails, At
    <3>2. CASE NotSent(c)
      BY <3>2 DEF NotSent, Mails, IsSale
    <3> QED
      BY <1>6, <3>1, <3>2
  <2>4. Keeps
    BY <1>0, <2>1, <2>2, <2>3, KeepsIn
  <2>5. (~Waits(cycle[c]) /\ cycle[c].stage = "gmbSales"
           => CoveredBut(cycle[c].latest, cycle[c].todo))'
    BY <2>2 DEF Waits
  <2>6. lookedFrom' <= Back'
    BY <1>0, <2>1 DEF Back
  <2>7. \A b \in 1 .. MaxBlock : Stamp(b)' # Never => Done(b)'
    BY <2>1, <2>4 DEF SkipInv, Keeps, Stamp
  <2> QED
    BY <2>1, <2>2, <2>4, <2>5, <2>6, <2>7, SkipMoves
<1>7. ASSUME NEW c \in Cycles, saveState(c)
      PROVE  SkipInv'
  <2>1. /\ UNCHANGED <<head, sales, lastSent, lastDispenserBlock, mailed, failed, lookedFrom>>
        /\ file' = InMemory /\ cycle' = [cycle EXCEPT ![c] = Started(c)]
        /\ \A b : ~Mails(c, b)
    BY <1>7 DEF saveState, world, state, history, Goto, Mails, At
  <2>2. Lone(c) /\ cycle'[c] = Started(c)
    BY <1>0, <2>1 DEF Lone
  <2>3. Keeps
    BY <1>0, <2>1, <2>2, KeepsIn
  <2>4. (~Waits(cycle[c]) /\ cycle[c].stage = "gmbSales"
           => CoveredBut(cycle[c].latest, cycle[c].todo))'
    BY <1>0, <2>2, StartedOK DEF Waits
  <2>5. file'.block = lastDispenserBlock
    BY <2>1 DEF InMemory
  <2>6. lookedFrom' <= Back'
    BY <1>0, <2>1 DEF Back
  <2>7. \A b \in 1 .. MaxBlock : Stamp(b)' # Never => Done(b)'
    BY <2>1, <2>3 DEF SkipInv, Keeps, Stamp
  <2> QED
    BY <2>1, <2>2, <2>3, <2>4, <2>5, <2>6, <2>7, SkipMoves
<1>8. CASE Restart
  <2>1. /\ UNCHANGED <<head, sales, lookedFrom>>
        /\ lastDispenserBlock' = file'.block /\ file'.block \in {file.block, 0}
        /\ lastSent' = [k \in Keys |-> Never] /\ cycle' = [c \in Cycles |-> Started(c)]
        /\ \A b \in 1 .. MaxBlock : mailed'[b].ever = mailed[b].ever
        /\ failed \subseteq failed' /\ \A b : BeingMailed(b) => b \in failed'
    BY <1>8, RestartDoes
  <2>2. Keeps
    BY <1>0, <2>1 DEF Keeps, Done
  <2>3. Covered(lastDispenserBlock)' /\ Covered(file.block)'
    BY <2>1, <2>2, CursorsKept
  <2>4. \A d \in Cycles : (~Waits(cycle[d]) /\ cycle[d].stage = "gmbSales"
           => CoveredBut(cycle[d].latest, cycle[d].todo))'
    BY <1>0, <2>1, StartedOK DEF Waits
  <2>5. lookedFrom' \in Nat /\ lookedFrom' <= Back'
    BY <1>0, <2>1 DEF Back
  <2>6. \A b \in 1 .. MaxBlock : Stamp(b)' = Never
    BY <2>1 DEF Stamp, Keys
  <2> QED
    BY <2>3, <2>4, <2>5, <2>6 DEF SkipInv
<1> QED
  BY <1>1, <1>2, <1>3, <1>4, <1>5, <1>6, <1>7, <1>8 DEF Next, Goes

\* index.js 139-164, mailer.js 29-50: the cursor passes no sale that was not
\* mailed, is not being mailed and whose mail has not failed, for any number of
\* cycles that overlap and wherever the process dies.
THEOREM CursorPassesNoSale == Spec => []CursorSkipsNothing
<1>1. SkipInv => CursorSkipsNothing
  BY DEF SkipInv, Covered, Done, CursorSkipsNothing
<1>2. Spec => []SkipInv
  BY SkipInit, SkipStep, NoteKept, PTL DEF Spec
<1> QED
  BY <1>1, <1>2, PTL
===============================================================================
