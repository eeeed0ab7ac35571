-------------------------------- MODULE Dex --------------------------------
(* The chain as the GembaSwap page uses it: one wallet, one token paired    *)
(* with GMB in a Uniswap V2 pool behind the router, the wrapped coin, and   *)
(* the LiquidityLocker. A state of it is a record `c`; a transaction is a   *)
(* record whose `kind` names the contract call.                             *)
EXTENDS Integers, Sequences, SequencesExt, FiniteSetsExt

Assets == {"gmb", "wgmb", "tok", "lp"}
Spenders == {"router", "locker"}

\* The lower bound of what a transaction changes in the wallet.
NoChange == [a \in Assets |-> 0]

\* The pool holds GMB in its wrapped form.
Side(a) == IF a = "tok" THEN "tok" ELSE "gmb"

AmountOut(amt, rIn, rOut) ==
  IF amt = 0 \/ rIn = 0 THEN 0
  ELSE (amt * 997 * rOut) \div (rIn * 1000 + amt * 997)

\* What the router takes of a deposit of at most tok and gmb.
Deposited(pool, tok, gmb) ==
  LET matching == (tok * pool.gmb) \div pool.tok IN
  IF matching <= gmb
  THEN [tok |-> tok, gmb |-> matching]
  ELSE [tok |-> (gmb * pool.tok) \div pool.gmb, gmb |-> gmb]

Minted(pool, t) == Min({(t.tok * pool.lp) \div pool.tok,
                        (t.gmb * pool.lp) \div pool.gmb})

Redeemed(pool, n) == [tok |-> (n * pool.tok) \div pool.lp,
                      gmb |-> (n * pool.gmb) \div pool.lp]

Allows(c, a, s, n) == c.bal[a] >= n /\ c.allow[<<a, s>>] >= n

Paid(c, a, s, n) == [c EXCEPT !.bal[a] = @ - n, !.allow[<<a, s>>] = @ - n]

-----------------------------------------------------------------------------
(* Each call: when it does not revert, and what it leaves behind.          *)

Swaps(c, tx) ==
  /\ c.now <= tx.deadline
  /\ IF tx.give = "gmb" THEN c.bal["gmb"] >= tx.amt
                        ELSE Allows(c, tx.give, "router", tx.amt)
  /\ LET out == AmountOut(tx.amt, c.pool[Side(tx.give)], c.pool[Side(tx.take)])
     IN out > 0 /\ out >= tx.min

Swapped(c, tx) ==
  LET out  == AmountOut(tx.amt, c.pool[Side(tx.give)], c.pool[Side(tx.take)])
      paid == IF tx.give = "gmb" THEN [c EXCEPT !.bal["gmb"] = @ - tx.amt]
                                 ELSE Paid(c, tx.give, "router", tx.amt)
  IN [paid EXCEPT !.bal[tx.take] = @ + out,
                  !.pool[Side(tx.give)] = @ + tx.amt,
                  !.pool[Side(tx.take)] = @ - out]

Wrapped(c, tx) == [c EXCEPT !.bal[tx.give] = @ - tx.amt,
                            !.bal[tx.take] = @ + tx.amt]

Adds(c, tx) ==
  LET t == Deposited(c.pool, tx.amt, tx.value) IN
  /\ c.now <= tx.deadline
  /\ t.tok >= tx.minTok /\ t.gmb >= tx.minGmb
  /\ Allows(c, "tok", "router", t.tok) /\ c.bal["gmb"] >= tx.value
  /\ Minted(c.pool, t) > 0

Added(c, tx) ==
  LET t == Deposited(c.pool, tx.amt, tx.value)
      n == Minted(c.pool, t)
  IN [Paid(c, "tok", "router", t.tok) EXCEPT
        !.bal["gmb"] = @ - t.gmb, !.bal["lp"] = @ + n,
        !.pool = [tok |-> @.tok + t.tok, gmb |-> @.gmb + t.gmb,
                  lp |-> @.lp + n]]

Removes(c, tx) ==
  LET t == Redeemed(c.pool, tx.amt) IN
  /\ c.now <= tx.deadline
  /\ Allows(c, "lp", "router", tx.amt)
  /\ t.tok > 0 /\ t.gmb > 0
  /\ t.tok >= tx.minTok /\ t.gmb >= tx.minGmb

Removed(c, tx) ==
  LET t == Redeemed(c.pool, tx.amt)
  IN [Paid(c, "lp", "router", tx.amt) EXCEPT
        !.bal["tok"] = @ + t.tok, !.bal["gmb"] = @ + t.gmb,
        !.pool = [tok |-> @.tok - t.tok, gmb |-> @.gmb - t.gmb,
                  lp |-> @.lp - tx.amt]]

Locks(c, tx) == tx.until > c.now /\ Allows(c, "lp", "locker", tx.amt)

Locked(c, tx) ==
  [Paid(c, "lp", "locker", tx.amt) EXCEPT
     !.held = @ + tx.amt,
     !.locks = Append(@, [amt |-> tx.amt, until |-> tx.until,
                          withdrawn |-> FALSE])]

\* Changed: the end of a lock is left to the page.
WithdrawsEarly(c, tx) == tx.id \in DOMAIN c.locks /\ ~c.locks[tx.id].withdrawn

Withdraws(c, tx) == /\ tx.id \in DOMAIN c.locks
                    /\ ~c.locks[tx.id].withdrawn
                    /\ c.now >= c.locks[tx.id].until

Withdrawn(c, tx) ==
  LET n == c.locks[tx.id].amt IN
  [c EXCEPT !.locks[tx.id].withdrawn = TRUE, !.held = @ - n,
            !.bal["lp"] = @ + n]

\* The owner may push a lock further out; the page has no button for it.
Extends(c, id, until) ==
  id \in DOMAIN c.locks /\ ~c.locks[id].withdrawn /\ until > c.locks[id].until

Extended(c, id, until) == [c EXCEPT !.locks[id].until = until]

-----------------------------------------------------------------------------

Succeeds(c, tx) ==
  CASE tx.kind = "approve"  -> TRUE
    [] tx.kind = "wrap"     -> c.bal[tx.give] >= tx.amt
    [] tx.kind = "swap"     -> Swaps(c, tx)
    [] tx.kind = "add"      -> Adds(c, tx)
    [] tx.kind = "remove"   -> Removes(c, tx)
    [] tx.kind = "lock"     -> Locks(c, tx)
    [] tx.kind = "withdraw" -> Withdraws(c, tx)

\* The chain after a transaction: a reverted one changes nothing.
Executed(c, tx) ==
  IF ~Succeeds(c, tx) THEN c
  ELSE CASE tx.kind = "approve" ->
              [c EXCEPT !.allow[<<tx.asset, tx.spender>>] = tx.amt]
         [] tx.kind = "wrap"     -> Wrapped(c, tx)
         [] tx.kind = "swap"     -> Swapped(c, tx)
         [] tx.kind = "add"      -> Added(c, tx)
         [] tx.kind = "remove"   -> Removed(c, tx)
         [] tx.kind = "lock"     -> Locked(c, tx)
         [] tx.kind = "withdraw" -> Withdrawn(c, tx)
=============================================================================
