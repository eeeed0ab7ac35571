------------------------- MODULE LoadGenerator_proofs -------------------------
(***************************************************************************)
(* Two promises of the load generators, for any wallets, mixes, caps and   *)
(* bounds.                                                                 *)
(*                                                                         *)
(* No wallet signs a nonce twice.  What makes it inductive: nothing at or  *)
(* above a wallet's next nonce has been signed, and no step takes it back. *)
(*                                                                         *)
(* What spends is never refused in the endurance run.  What makes it       *)
(* inductive: a wallet has on the chain at least the stock counted for it, *)
(* what is signed and not mined will take of it and what is mined and not  *)
(* counted has brought it (Covered).  An operation that needs what it does *)
(* not use up finds it even after everything its wallet signed before it   *)
(* (Reserved), for the chain takes a wallet's transactions in order.       *)
(***************************************************************************)
EXTENDS LoadGenerator, SetSums_proofs

States == {"none", "sending", "nonce", "tracked", "again", "resync", "receipt", "over"}

Signed == [op : Mix \cup {"none"}, st : States, of : Wallets \cup {"none"},
           permit : Int, block : Nat, good : BOOLEAN, since : Nat, low : Nat]

Typed ==
  /\ next \in [Wallets -> Nat]
  /\ tx \in [Wallets -> [Nonces -> Signed]]
  /\ permitNonce \in [Wallets -> Int] /\ permitRead \in [Wallets -> Int]
  /\ lastBlock \in Nat /\ head \in Nat
  /\ mined \in [Wallets -> Nat] /\ permits \in [Wallets -> Nat]
  /\ pool \subseteq Txs

NothingAhead ==
  \A w \in Wallets : \A n \in Nonces : n >= next[w] => tx[w][n].st = "none"

LInv == Typed /\ NothingAhead /\ NonceOnce

\* What every step but Fires does with nonces.
NoNewNonce ==
  /\ \A w \in Wallets : next'[w] >= next[w]
  /\ \A w \in Wallets : \A n \in Nonces :
       tx[w][n].st = "none" => tx'[w][n].st = "none"
  /\ reused' = reused

\* Such a step keeps the invariant if it keeps the types.
LEMMA NoNewNonceKeeps == LInv /\ Typed' /\ NoNewNonce => LInv'
  <1> SUFFICES ASSUME LInv, Typed', NoNewNonce PROVE LInv'
    OBVIOUS
  <1>1. NothingAhead'
    <2> SUFFICES ASSUME NEW w \in Wallets, NEW n \in Nonces, n >= next'[w]
                 PROVE  tx'[w][n].st = "none"
      BY DEF NothingAhead
    <2>1. n >= next[w]
      BY LoadAssumption DEF LInv, Typed, NoNewNonce, Nonces
    <2> QED
      BY <2>1 DEF LInv, NothingAhead, NoNewNonce
  <1>2. NonceOnce'
    BY DEF LInv, NonceOnce, NoNewNonce
  <1> QED
    BY <1>1, <1>2 DEF LInv

\* nonceManager.js resync: the next nonce never goes back.
LEMMA ForwardOnly ==
  ASSUME next \in [Wallets -> Nat], NEW w \in Wallets, NEW n \in Int
  PROVE  Forward(w, n) \in Nat /\ Forward(w, n) >= next[w]
  BY DEF Forward

\* A signed transaction changes, and nonces go forward or stay.
Changes(t, x) ==
  /\ UNCHANGED <<profile, permitNonce, lastBlock, head, mined, permits, reused>>
  /\ Put(t, x)
  /\ next' \in [Wallets -> Nat] /\ \A w \in Wallets : next'[w] >= next[w]
  /\ permitRead' \in [Wallets -> Int]
  /\ pool' \subseteq Txs

LEMMA ChangeKeeps ==
  ASSUME LInv, NEW t \in Txs, NEW x \in Signed, TheTx(t).st # "none",
         Changes(t, x)
  PROVE  LInv'
  <1>1. t[1] \in Wallets /\ t[2] \in Nonces
    BY DEF Txs
  <1>2. Signed' = Signed
    BY DEF Signed, Mix, Changes
  <1>3. Typed'
    <2>1. tx' \in [Wallets -> [Nonces -> Signed]]
      BY <1>1 DEF LInv, Typed, Changes, Put
    <2> QED
      BY <1>2, <2>1 DEF LInv, Typed, Changes, Txs, Nonces
  <1>4. NoNewNonce
    BY <1>1 DEF LInv, Typed, Changes, NoNewNonce, TheTx, Put
  <1> QED
    BY <1>3, <1>4, NoNewNonceKeeps

\* What a transaction may become keeps its type.
LEMMA SignedUpdates ==
  ASSUME LInv, NEW t \in Txs, NEW st \in States, NEW n \in Nat
  PROVE  /\ TheTx(t) \in Signed /\ tx[t[1]][t[2]] = TheTx(t)
         /\ [TheTx(t) EXCEPT !.st = st] \in Signed
         /\ [TheTx(t) EXCEPT !.st = st, !.since = n] \in Signed
         /\ [TheTx(t) EXCEPT !.st = st, !.low = n] \in Signed
  <1>1. t[1] \in Wallets /\ t[2] \in Nonces
    BY DEF Txs
  <1>2. TheTx(t) \in Signed
    BY <1>1 DEF LInv, Typed, TheTx
  <1> QED
    BY <1>2 DEF TheTx, Signed

\* Init: nothing is signed.
LEMMA InitLInv == Init => LInv
  BY LoadAssumption
  DEF Init, NoncesRead, Nothing, LInv, Typed, NothingAhead, NonceOnce, Signed, States, Unsigned,
      First, Unread, Txs, Nonces

\* Steps that leave transactions, nonces and types alone.
frame == <<profile, next, tx, permitNonce, permitRead, lastBlock, head, mined,
           permits, pool, reused>>

LEMMA FrameKeeps == LInv /\ UNCHANGED frame => LInv'
  BY DEF frame, LInv, Typed, NothingAhead, NonceOnce, Signed, Mix, Txs

\* fireOne: the nonce signed is next itself, so it was not signed before.
LEMMA FiresKeeps ==
  ASSUME LInv, NEW w \in Wallets, NEW op \in Mix, NEW owner \in Wallets,
         Fires(w, op, owner)
  PROVE  LInv'
  <1> DEFINE n == next[w]
             x == [Unsigned EXCEPT !.op = op, !.st = "sending", !.of = owner,
                                   !.permit = permitNonce[w]]
  <1>1. n \in Nonces /\ tx[w][n].st = "none"
    BY LoadAssumption, SMTT(60) DEF LInv, Typed, NothingAhead, Fires, Nonces
  <1>2. x \in Signed
    BY DEF LInv, Typed, Unsigned, Signed, States
  <1>3. /\ tx' = [tx EXCEPT ![w][n] = x] /\ next' = [next EXCEPT ![w] = n + 1]
        /\ reused' = (reused \/ tx[w][n].st # "none")
        /\ UNCHANGED <<profile, permitRead, lastBlock, head, mined, permits, pool>>
        /\ permitNonce' = permitNonce \/ permitNonce' = [permitNonce EXCEPT ![w] = @ + 1]
    BY DEF Fires, chain
  <1>4. Typed'
    <2>1. Signed' = Signed
      BY <1>3 DEF Signed, Mix
    <2>2. tx' \in [Wallets -> [Nonces -> Signed]]
      BY <1>1, <1>2, <1>3 DEF LInv, Typed
    <2>3. next' \in [Wallets -> Nat] /\ permitNonce' \in [Wallets -> Int]
      BY <1>3 DEF LInv, Typed
    <2> QED
      BY <1>3, <2>1, <2>2, <2>3 DEF LInv, Typed, Txs, Nonces
  <1>5. NothingAhead'
    <2> SUFFICES ASSUME NEW v \in Wallets, NEW m \in Nonces, m >= next'[v]
                 PROVE  tx'[v][m].st = "none"
      BY DEF NothingAhead
    <2>1. m >= next[v] /\ (v = w => m # n)
      <3>1. next[v] \in Nat /\ m \in Int
        BY LoadAssumption DEF LInv, Typed, Nonces
      <3>2. next'[v] = IF v = w THEN next[v] + 1 ELSE next[v]
        BY <1>3 DEF LInv, Typed
      <3> QED
        BY <3>1, <3>2
    <2>2. tx'[v][m] = tx[v][m]
      BY <1>1, <1>3, <2>1 DEF LInv, Typed
    <2> QED
      BY <2>1, <2>2 DEF LInv, NothingAhead
  <1>6. NonceOnce'
    BY <1>1, <1>3 DEF LInv, NonceOnce
  <1> QED
    BY <1>4, <1>5, <1>6 DEF LInv

\* What FreesPermit asks for has its type.
LEMMA FreesTyped ==
  ASSUME LInv, NEW t \in Txs, FreesPermit(t)
  PROVE  permitRead' \in [Wallets -> Int]
  BY DEF LInv, Typed, FreesPermit, Txs

\* fireOne, receiptCollector: the steps of one transaction, but Fires.
LEMMA SubmitKeeps ==
  ASSUME LInv, NEW t \in Txs, Submits(t) \/ Throws(t) PROVE LInv'
  <1> USE DEF States
  <1>1. CASE Answered(t)
    <2>1. Changes(t, [TheTx(t) EXCEPT !.st = "tracked", !.since = lastBlock])
      BY <1>1 DEF Answered, Changes, LInv, Typed, chain
    <2> QED
      BY <1>1, <2>1, ChangeKeeps, SignedUpdates, ZenonT(60) DEF Answered, At, LInv, Typed
  <1>2. CASE NonceError(t)
    <2>1. mined[t[1]] \in Nat
      BY DEF LInv, Typed, Txs
    <2>2. Changes(t, [TheTx(t) EXCEPT !.st = "nonce", !.low = mined[t[1]]])
      BY <1>2 DEF NonceError, Changes, LInv, Typed, chain
    <2> QED
      BY <1>2, <2>1, <2>2, ChangeKeeps, SignedUpdates, ZenonT(60) DEF NonceError, At
  <1>3. CASE Dropped(t)
    <2>1. next' \in [Wallets -> Nat] /\ \A w \in Wallets : next'[w] >= next[w]
      <3>1. CASE UNCHANGED next
        BY <3>1 DEF LInv, Typed
      <3>2. CASE \E n \in TheTx(t).low .. mined[t[1]] :
                   next' = [next EXCEPT ![t[1]] = Forward(t[1], n)]
        <4>1. PICK n \in TheTx(t).low .. mined[t[1]] :
                     next' = [next EXCEPT ![t[1]] = Forward(t[1], n)]
          BY <3>2
        <4>2. n \in Int /\ t[1] \in Wallets
          BY DEF LInv, Typed, TheTx, Txs, Signed
        <4>3. Forward(t[1], n) \in Nat /\ Forward(t[1], n) >= next[t[1]]
          BY <4>2, ForwardOnly DEF LInv, Typed
        <4> QED
          BY <4>1, <4>2, <4>3 DEF LInv, Typed
      <3> QED
        BY <1>3, <3>1, <3>2 DEF Dropped
    <2>2. Changes(t, [TheTx(t) EXCEPT !.st = "over"])
      BY <1>3, <2>1, FreesTyped DEF Dropped, Changes, LInv, Typed, chain, Becomes
    <2> QED
      BY <1>3, <2>2, ChangeKeeps, SignedUpdates, ZenonT(60) DEF Dropped, At
  <1>4. CASE Lands(t)
    <2>1. pool' \subseteq Txs
      BY <1>4 DEF Lands, LInv, Typed
    <2> QED
      BY <1>4, <2>1 DEF Lands, LInv, Typed, NothingAhead, NonceOnce, client, Signed, Mix, Txs
  <1>5. CASE Throws(t)
    <2>1. Changes(t, [TheTx(t) EXCEPT !.st = "over"])
      BY <1>5, FreesTyped DEF Throws, Changes, LInv, Typed, chain, Becomes
    <2> QED
      BY <1>5, <2>1, ChangeKeeps, SignedUpdates, ZenonT(60) DEF Throws, At
  <1> QED
    BY <1>1, <1>2, <1>3, <1>4, <1>5 DEF Submits

\* receiptCollector: the sweep, the read after it, and the receipts.
LEMMA CollectKeeps ==
  ASSUME LInv, NEW t \in Txs, Sweeps(t) \/ Resynced(t) \/ Receipt(t)
  PROVE  LInv'
  <1> USE DEF States
  <1>1. CASE Rebroadcast(t)
    <2>1. Changes(t, [TheTx(t) EXCEPT !.st = "again"])
      BY <1>1 DEF Rebroadcast, Changes, LInv, Typed, Becomes, Once
    <2> QED
      BY <1>1, <2>1, ChangeKeeps, SignedUpdates, ZenonT(60) DEF Rebroadcast, At
  <1>2. CASE TimesOut(t)
    <2>1. mined[t[1]] \in Nat
      BY DEF LInv, Typed, Txs
    <2>2. Changes(t, [TheTx(t) EXCEPT !.st = "resync", !.low = mined[t[1]]])
      BY <1>2, FreesTyped DEF TimesOut, Changes, LInv, Typed, chain
    <2> QED
      BY <1>2, <2>1, <2>2, ChangeKeeps, SignedUpdates, ZenonT(60) DEF TimesOut, Overdue, At
  <1>3. CASE Resynced(t)
    <2>1. next' \in [Wallets -> Nat] /\ \A w \in Wallets : next'[w] >= next[w]
      <3>1. CASE UNCHANGED next
        BY <3>1 DEF LInv, Typed
      <3>2. CASE \E n \in TheTx(t).low .. mined[t[1]] : resync(t[1], n)
        <4>1. PICK n \in TheTx(t).low .. mined[t[1]] :
                     next' = [next EXCEPT ![t[1]] = Forward(t[1], n)]
          BY <3>2 DEF resync
        <4>2. n \in Int /\ t[1] \in Wallets
          BY DEF LInv, Typed, TheTx, Txs, Signed
        <4>3. Forward(t[1], n) \in Nat /\ Forward(t[1], n) >= next[t[1]]
          BY <4>2, ForwardOnly DEF LInv, Typed
        <4> QED
          BY <4>1, <4>2, <4>3 DEF LInv, Typed
      <3> QED
        BY <1>3, <3>1, <3>2 DEF Resynced
    <2>2. Changes(t, [TheTx(t) EXCEPT !.st = "over"])
      BY <1>3, <2>1 DEF Resynced, Changes, LInv, Typed, chain, Becomes
    <2> QED
      BY <1>3, <2>2, ChangeKeeps, SignedUpdates, ZenonT(60) DEF Resynced, At
  <1>4. CASE Receipt(t)
    <2>1. permitRead' \in [Wallets -> Int]
      BY <1>4, FreesTyped DEF Receipt, LInv, Typed
    <2>2. Changes(t, [TheTx(t) EXCEPT !.st = "over"])
      BY <1>4, <2>1 DEF Receipt, Changes, LInv, Typed, chain, Becomes
    <2> QED
      BY <1>4, <2>2, ChangeKeeps, SignedUpdates, ZenonT(60) DEF Receipt, At
  <1> QED
    BY <1>1, <1>2, <1>3, <1>4 DEF Sweeps

\* A block: the transaction it takes keeps its state.
LEMMA NewBlockKeeps == LInv /\ NewBlock => LInv'
  <1> SUFFICES ASSUME LInv, NewBlock PROVE LInv'
    OBVIOUS
  <1>1. PICK t \in pool, good \in BOOLEAN :
          /\ Put(t, [TheTx(t) EXCEPT !.block = head + 1, !.good = good])
          /\ mined' = [mined EXCEPT ![t[1]] = @ + 1]
          /\ pool' = pool \ {t}
          /\ permits' = permits \/ permits' = [permits EXCEPT ![t[1]] = @ + 1]
    BY DEF NewBlock
  <1>2. /\ UNCHANGED <<profile, next, permitNonce, permitRead, lastBlock, reused>>
        /\ head' = head + 1
    BY DEF NewBlock
  <1>3. t \in Txs /\ t[1] \in Wallets /\ t[2] \in Nonces
    BY DEF LInv, Typed, Txs
  <1>4. \A w \in Wallets : \A n \in Nonces :
          tx'[w][n] \in Signed /\ tx'[w][n].st = tx[w][n].st
    <2> DEFINE x == [TheTx(t) EXCEPT !.block = head + 1, !.good = good]
    <2>1. TheTx(t) \in Signed
      BY <1>3 DEF LInv, Typed, TheTx
    <2>2. x \in Signed /\ x.st = tx[t[1]][t[2]].st
      <3>1. head + 1 \in Nat /\ good \in BOOLEAN
        BY DEF LInv, Typed
      <3>2. x.st = TheTx(t).st
        BY <2>1 DEF Signed
      <3> QED
        BY <2>1, <3>1, <3>2 DEF Signed, TheTx
    <2> HIDE DEF x
    <2>3. tx' = [tx EXCEPT ![t[1]][t[2]] = x]
      BY <1>1 DEF Put, x
    <2> QED
      BY <1>3, <2>2, <2>3 DEF LInv, Typed
  <1>5. tx' \in [Wallets -> [Nonces -> Signed]]
    BY <1>1, <1>3, <1>4 DEF LInv, Typed, Put
  <1>6. Typed'
    <2>1. Signed' = Signed
      BY <1>2 DEF Signed, Mix
    <2>2. mined' \in [Wallets -> Nat]
      BY <1>1, <1>3 DEF LInv, Typed
    <2>3. permits' \in [Wallets -> Nat]
      BY <1>1, <1>3 DEF LInv, Typed
    <2>4. pool' \subseteq Txs'
      BY <1>1 DEF LInv, Typed, Txs, Nonces
    <2>5. head' \in Nat
      BY <1>2 DEF LInv, Typed
    <2> QED
      BY <1>2, <1>5, <2>1, <2>2, <2>3, <2>4, <2>5 DEF LInv, Typed, Nonces
  <1>7. NoNewNonce
    BY <1>2, <1>4 DEF NoNewNonce, LInv, Typed
  <1> QED
    BY <1>6, <1>7, NoNewNonceKeeps

\* receiptCollector.js _block: what is found in a block keeps its nonce.
LEMMA ScansKeeps == LInv /\ (Scans \/ ScanFails) => LInv'
  <1> SUFFICES ASSUME LInv, Scans \/ ScanFails PROVE LInv'
    OBVIOUS
  <1>1. /\ UNCHANGED <<profile, next, permitNonce, permitRead, head, mined,
                       permits, pool, reused>>
        /\ lastBlock' \in Nat
    BY DEF Scans, ScanFails, AfterFailure, chain, LInv, Typed
  <1>2. \A w \in Wallets : \A n \in Nonces :
          /\ tx'[w][n] \in Signed
          /\ tx[w][n].st = "none" => tx'[w][n].st = "none"
    <2>1. CASE Scans
      <3> SUFFICES ASSUME NEW w \in Wallets, NEW n \in Nonces
                   PROVE  /\ tx'[w][n] \in Signed
                          /\ tx[w][n].st = "none" => tx'[w][n].st = "none"
        OBVIOUS
      <3>1. tx[w][n] \in Signed
        BY DEF LInv, Typed
      <3>2. CASE <<w, n>> \in FoundIn(lastBlock + 1)
        <4>1. tx'[w][n] = [tx[w][n] EXCEPT !.st = "receipt"]
          BY <2>1, <3>2 DEF Scans
        <4>2. tx[w][n].st # "none"
          BY <3>2 DEF FoundIn, Tracked, At, TheTx
        <4> QED
          BY <3>1, <4>1, <4>2 DEF Signed, States
      <3>3. CASE <<w, n>> \notin FoundIn(lastBlock + 1)
        BY <2>1, <3>1, <3>3 DEF Scans
      <3> QED
        BY <3>2, <3>3
    <2>2. CASE ScanFails
      BY <2>2 DEF ScanFails, LInv, Typed
    <2> QED
      BY <2>1, <2>2
  <1>3. tx' \in [Wallets -> [Nonces -> Signed]]
    <2>1. CASE Scans
      BY <1>2, <2>1 DEF Scans
    <2>2. CASE ScanFails
      BY <2>2 DEF ScanFails, LInv, Typed
    <2> QED
      BY <2>1, <2>2
  <1>4. Typed'
    <2>1. Signed' = Signed
      BY <1>1 DEF Signed, Mix
    <2> QED
      BY <1>1, <1>3, <2>1 DEF LInv, Typed, Txs, Nonces
  <1>5. NoNewNonce
    BY <1>1, <1>2 DEF NoNewNonce, LInv, Typed
  <1> QED
    BY <1>4, <1>5, NoNewNonceKeeps

\* run.js resyncPermitNonce: the wallet's permit nonce alone.
LEMMA PermitKeeps ==
  ASSUME LInv, NEW w \in Wallets, resyncPermitNonce(w) PROVE LInv'
  <1>1. permitNonce' \in [Wallets -> Int]
    <2>1. permitRead[w] \in Int /\ permits[w] \in Int
      BY DEF LInv, Typed
    <2> QED
      BY <2>1 DEF resyncPermitNonce, LInv, Typed
  <1>2. permitRead' \in [Wallets -> Int]
    BY DEF resyncPermitNonce, LInv, Typed, Unread
  <1> QED
    BY <1>1, <1>2
    DEF resyncPermitNonce, LInv, Typed, NothingAhead, NonceOnce, chain, Signed,
        Mix, Txs

\* Every step keeps the invariant.
LEMMA NextKeeps == LInv /\ [Next]_vars => LInv'
  <1> SUFFICES ASSUME LInv, [Next]_vars PROVE LInv'
    OBVIOUS
  <1>1. CASE \E w \in Wallets : Waits(w)
    BY <1>1, FrameKeeps DEF Waits, frame, chain
  <1>2. CASE \E w \in Wallets : resyncPermitNonce(w)
    BY <1>2, PermitKeeps
  <1>3. CASE \E w \in Wallets, op \in Mix, owner \in Wallets : Fires(w, op, owner)
    BY <1>3, FiresKeeps
  <1>4. CASE \E t \in Txs : Submits(t) \/ Throws(t)
    BY <1>4, SubmitKeeps
  <1>5. CASE \E t \in Txs : Sweeps(t) \/ Resynced(t) \/ Receipt(t)
    BY <1>5, CollectKeeps
  <1>6. CASE \E t \in Txs : Evicted(t)
    BY <1>6
    DEF Evicted, client, LInv, Typed, NothingAhead, NonceOnce, Signed, Mix, Txs
  <1>7. CASE NewBlock
    BY <1>7, NewBlockKeeps
  <1>8. CASE Scans \/ ScanFails
    BY <1>8, ScansKeeps
  <1>10. CASE Stop
    BY <1>10, FrameKeeps DEF Stop, chain, frame
  <1>9. CASE UNCHANGED vars
    BY <1>9, FrameKeeps DEF vars, client, chain, frame
  <1> QED
    BY <1>1, <1>2, <1>3, <1>4, <1>5, <1>6, <1>7, <1>8, <1>9, <1>10 DEF Next

\* nonceManager.js 21-23: whatever is lost, late, refused or sent again, and
\* however reads of the chain are answered, no wallet signs a nonce twice.
THEOREM NoncesAreOnce == Spec => []NonceOnce
  <1>1. LInv => NonceOnce
    BY DEF LInv
  <1> QED
    BY InitLInv, NextKeeps, <1>1, PTL DEF Spec

-----------------------------------------------------------------------------
(* What the operations of the workload spend                               *)

\* Kinds that are needed and not used up.
Lasting == {"rwd", "has1155", "eoaChildren", "factoryChildren", "clones", "permits"}

OpOK(d) ==
  /\ d.takes \in Nat /\ d.adds \in Nat
  /\ d.takes = 0 => d.needs \subseteq Lasting
  /\ d.needs \cap Lasting # {} => d.whose = "own"

LEMMA FormsOK ==
  /\ \A k : \A n \in Nat : OpOK(Makes(k, n))
  /\ \A k : \A n \in Nat \ {0} : OpOK(Uses(k, n))
  /\ \A k \in Lasting : OpOK(Calls(k))
  /\ \A k, i : OpOK(Turns(k, i))
  /\ \A k : k \notin Lasting => OpOK(UsesOthers(k))
  /\ OpOK(Plain)
  BY DEF OpOK, Makes, Uses, Calls, Turns, UsesOthers, Plain, Op

LEMMA CreditOK == \A op \in DOMAIN creditOps : OpOK(creditOps[op])
<1>1. DOMAIN creditOps =
        {"wrapGMB", "unwrapGMB", "dexAddLiq", "dexRemoveLiq", "nativeAddLiq",
         "nativeRemoveLiq", "ecoDeposit", "ecoWithdraw", "vaultDeposit", "vaultMint",
         "vaultWithdraw", "stakeDeposit", "stakeWithdraw", "rwdStake", "rwdUnstake",
         "rwdClaim"}
  BY DEF creditOps
<1> QED
  BY <1>1, FormsOK DEF creditOps, Lasting

LEMMA QueueOK == \A op \in DOMAIN queueOps : OpOK(queueOps[op])
<1>1. DOMAIN queueOps =
        {"nftMint", "nftTransfer", "erc1155Mint", "erc1155Transfer", "deployChild",
         "callDeployedChild", "factoryDeploy", "factoryCallChild", "cloneDeterministic",
         "cloneInit", "cloneCall", "batchMint", "nftStakeStake", "nftStakeUnstake"}
  BY DEF queueOps
<1>2. OpOK(Op({}, 0, "own", {"clones", "uninited"}, 1))
  BY DEF OpOK, Op
<1> QED
  BY <1>1, <1>2, FormsOK DEF queueOps, Lasting

LEMMA SharedOK == \A op \in DOMAIN sharedOps : OpOK(sharedOps[op])
<1>1. DOMAIN sharedOps =
        {"mktMint", "mktList", "mktBuy", "royaltyMint", "royaltyList", "royaltyBuy",
         "royaltyCancel", "auctionMint", "createEnglish", "bidEnglish", "settleEnglish",
         "createDutch", "buyDutch"}
  BY DEF sharedOps
<1>2. OpOK(Op({"aucOwned"}, 1, "own", {"english", "unsettled"}, 1))
  BY DEF OpOK, Op
<1>3. OpOK(Op({"unsettled"}, 1, "any", {}, 0))
  BY DEF OpOK, Op, Lasting
<1> QED
  BY <1>1, <1>2, <1>3, FormsOK DEF sharedOps, Lasting

\* workloads.js: what an operation needs and does not use up is used up by its
\* own wallet alone.
LEMMA WorkloadOK == \A op : OpOK(defs(op))
<1>1. OpOK(Calls("permits")) /\ OpOK(Plain)
  BY FormsOK DEF Lasting
<1>2. OpOK(permitOp)
  BY DEF OpOK, permitOp, Op
<1> QED
  BY <1>1, <1>2, CreditOK, QueueOK, SharedOK DEF defs

-----------------------------------------------------------------------------
(* What is owed                                                            *)

\* What a transaction that is signed and in no block will take of w, and what
\* one that has succeeded will bring to the stock of w, when v has sent it.
Takes(x, w, k) ==
  IF x.st # "none" /\ x.block = 0 /\ x.of = w /\ k \in defs(x.op).needs
  THEN defs(x.op).takes ELSE 0

Brings(x, v, w, k) ==
  IF /\ x.st \notin {"none", "over"} /\ x.block > 0 /\ x.good
     /\ Receiver(x, v) = w /\ k \in defs(x.op).gives
  THEN defs(x.op).adds ELSE 0

Weight(w, k) ==
  [t \in Txs |-> Takes(TheTx(t), w, k) + Brings(TheTx(t), t[1], w, k)]

Claims(w, k) == SumFunctionOnSet(Weight(w, k), Txs)

\* What the transactions of a wallet before t will take of it.
Before(t, k) ==
  [u \in Txs |-> IF u[1] = t[1] /\ u[2] < t[2] THEN Takes(TheTx(u), t[1], k) ELSE 0]

Ahead(t, k) == SumFunctionOnSet(Before(t, k), Txs)

TxOK(x, t) ==
  /\ x.st # "none" => /\ x.op \in Mix /\ x.of \in Wallets
                      /\ defs(x.op).whose = "own" => x.of = t[1]
  /\ x.block > 0 => /\ x.st # "none" /\ t[2] < mined[t[1]]
                    /\ defs(x.op).needs # {} /\ x.op \notin Timed => x.good
  /\ x.block = 0 => ~x.good
  /\ t \in pool => x.st # "none"

TxsOK == \A t \in Txs : TxOK(TheTx(t), t)

StocksOK ==
  stock \in [Wallets -> [Kinds -> Nat]] /\ held \in [Wallets -> [Kinds -> Int]]

\* The stock is what a wallet has on the chain less what is owed.
Covered ==
  \A w \in Wallets : \A k \in Kinds : held[w][k] >= stock[w][k] + Claims(w, k)

\* One that needs what it does not use up finds it, after those before it.
Due(x, t) == x.st # "none" /\ x.block = 0 /\ t[2] >= mined[t[1]]

Reserved ==
  \A t \in Txs : \A k \in defs(TheTx(t).op).needs :
    Due(TheTx(t), t) /\ defs(TheTx(t).op).takes = 0
      => held[t[1]][k] >= 1 + Ahead(t, k)

EInv == TxsOK /\ StocksOK /\ Covered /\ Reserved

LEMMA TxsFinite == IsFiniteSet(Txs)
<1>1. IsFiniteSet(Nonces)
  BY LoadAssumption, FS_Interval DEF Nonces
<1> QED
  BY <1>1, LoadAssumption, FS_Product DEF Txs

LEMMA OwedNat ==
  \A x, v, w, k : Takes(x, w, k) \in Nat /\ Brings(x, v, w, k) \in Nat
<1>1. \A op : defs(op).takes \in Nat /\ defs(op).adds \in Nat
  BY WorkloadOK DEF OpOK
<1> QED
  BY <1>1 DEF Takes, Brings

LEMMA SumsNat ==
  /\ \A w, k : Claims(w, k) \in Nat /\ \A t \in Txs : Weight(w, k)[t] \in Nat
  /\ \A t, k : Ahead(t, k) \in Nat /\ \A u \in Txs : Before(t, k)[u] \in Nat
<1>1. \A w, k : \A t \in Txs : Weight(w, k)[t] \in Nat
  BY OwedNat DEF Weight
<1>2. \A t, k : \A u \in Txs : Before(t, k)[u] \in Nat
  BY OwedNat DEF Before
<1> QED
  BY <1>1, <1>2, TxsFinite, SumNat DEF Claims, Ahead

\* One of the claims is at most all of them.
LEMMA ClaimsAtLeast ==
  ASSUME NEW w, NEW k, NEW t \in Txs
  PROVE  Claims(w, k) >= Weight(w, k)[t]
<1> DEFINE f == Weight(w, k)
<1>1. \A u \in Txs : f[u] \in Nat
  BY SumsNat
<1>2. IsFiniteSet(Txs \ {t})
  BY TxsFinite, FS_Subset
<1>3. (Txs \ {t}) \cup {t} = Txs /\ t \notin Txs \ {t}
  OBVIOUS
<1> HIDE DEF f
<1>4. SumFunctionOnSet(f, Txs \ {t}) \in Nat
  BY <1>1, <1>2, SumNat
<1>5. SumFunctionOnSet(f, (Txs \ {t}) \cup {t}) = f[t] + SumFunctionOnSet(f, Txs \ {t})
  BY <1>1, <1>2, SumAdd
<1>6. SumFunctionOnSet(f, Txs) = f[t] + SumFunctionOnSet(f, Txs \ {t})
  BY <1>3, <1>5
<1>7. f[t] \in Nat
  BY <1>1
<1> QED
  BY <1>4, <1>6, <1>7 DEF Claims, f

\* The sums one step later.
LEMMA ClaimsNext ==
  ASSUME NEW w, NEW k
  PROVE  /\ Claims(w, k)' = SumFunctionOnSet(Weight(w, k)', Txs)
         /\ \A t \in Txs :
              /\ Weight(w, k)'[t] = Takes(TheTx(t)', w, k) + Brings(TheTx(t)', t[1], w, k)
              /\ Weight(w, k)'[t] \in Nat
<1>1. Txs' = Txs
  BY DEF Txs, Nonces
<1> QED
  BY <1>1, OwedNat DEF Claims, Weight

LEMMA AheadNext ==
  ASSUME NEW t, NEW k
  PROVE  /\ Ahead(t, k)' = SumFunctionOnSet(Before(t, k)', Txs)
         /\ \A u \in Txs :
              /\ Before(t, k)'[u] = IF u[1] = t[1] /\ u[2] < t[2]
                                    THEN Takes(TheTx(u)', t[1], k) ELSE 0
              /\ Before(t, k)'[u] \in Nat
<1>1. Txs' = Txs
  BY DEF Txs, Nonces
<1> QED
  BY <1>1, OwedNat DEF Ahead, Before

LEMMA AheadSame ==
  ASSUME NEW t, NEW k, \A u \in Txs : Before(t, k)'[u] = Before(t, k)[u]
  PROVE  Ahead(t, k)' = Ahead(t, k)
<1> DEFINE f == Before(t, k)
           g == Before(t, k)'
<1>1. Ahead(t, k)' = SumFunctionOnSet(g, Txs) /\ Ahead(t, k) = SumFunctionOnSet(f, Txs)
  BY AheadNext DEF Ahead
<1>2. \A u \in Txs : f[u] \in Nat /\ g[u] = f[u]
  BY SumsNat
<1> HIDE DEF f, g
<1> QED
  BY <1>1, <1>2, TxsFinite, SumSame

\* Claims that fall one by one fall together.
LEMMA ClaimsFall ==
  ASSUME NEW w, NEW k, \A t \in Txs : Weight(w, k)'[t] <= Weight(w, k)[t]
  PROVE  Claims(w, k)' <= Claims(w, k)
<1> DEFINE f == Weight(w, k)
           g == Weight(w, k)'
<1>1. \A t \in Txs : f[t] \in Nat
  BY SumsNat
<1>2. \A t \in Txs : g[t] \in Nat
  BY ClaimsNext
<1>3. Claims(w, k) = SumFunctionOnSet(f, Txs) /\ Claims(w, k)' = SumFunctionOnSet(g, Txs)
  BY ClaimsNext DEF Claims
<1>4. \A t \in Txs : f[t] \in Int /\ g[t] \in Int /\ g[t] <= f[t]
  BY <1>1, <1>2
<1> HIDE DEF f, g
<1>5. SumFunctionOnSet(g, Txs) <= SumFunctionOnSet(f, Txs)
  BY <1>4, TxsFinite, SumLe
<1> QED
  BY <1>3, <1>5

\* In the endurance run a kind that an operation needs or makes is one of Kinds.
LEMMA KindsOf ==
  ASSUME Endurance, NEW op \in Mix
  PROVE  Def(op) = defs(op) /\ defs(op).needs \subseteq Kinds /\ defs(op).gives \subseteq Kinds
  BY DEF Def, Kinds

\* A transaction that changes in its state only.
Alike(y, x) ==
  /\ y.op = x.op /\ y.of = x.of /\ y.block = x.block /\ y.good = x.good
  /\ y.st = "none" <=> x.st = "none"
  /\ x.st = "over" => y.st = "over"

LEMMA AlikeOwes ==
  ASSUME NEW x, NEW y, Alike(y, x)
  PROVE  \A v, w, k : Takes(y, w, k) = Takes(x, w, k) /\ Brings(y, v, w, k) <= Brings(x, v, w, k)
  BY OwedNat DEF Alike, Takes, Brings, Receiver

\* Steps in which nothing is signed, mined or counted.
Quiet ==
  /\ UNCHANGED <<profile, stock, held, mined>>
  /\ \A t \in Txs : Alike(TheTx(t)', TheTx(t))
  /\ \A t \in pool' : t \in pool \/ TheTx(t).st # "none"

\* They keep who signed what, and what is left for those that do not use up.
LEMMA AlikeKeeps ==
  ASSUME EInv, UNCHANGED <<profile, held, mined>>,
         \A t \in Txs : Alike(TheTx(t)', TheTx(t)),
         \A t \in pool' : t \in pool \/ TheTx(t).st # "none"
  PROVE  TxsOK' /\ Reserved'
<1>0. Txs' = Txs /\ Mix' = Mix
  BY DEF Txs, Nonces, Mix
<1>1. TxsOK'
  <2> SUFFICES ASSUME NEW t \in Txs PROVE TxOK(TheTx(t), t)'
    BY <1>0 DEF TxsOK
  <2>1. TxOK(TheTx(t), t) /\ Alike(TheTx(t)', TheTx(t))
    BY DEF EInv, TxsOK
  <2> QED
    BY <1>0, <2>1 DEF TxOK, Alike
<1>2. Reserved'
  <2> SUFFICES ASSUME NEW t \in Txs, NEW k \in defs(TheTx(t)'.op).needs,
                      Due(TheTx(t), t)', defs(TheTx(t)'.op).takes = 0
               PROVE  held'[t[1]][k] >= 1 + Ahead(t, k)'
    BY <1>0 DEF Reserved
  <2>1. Alike(TheTx(t)', TheTx(t)) /\ mined' = mined /\ held' = held
    OBVIOUS
  <2>2. Due(TheTx(t), t) /\ k \in defs(TheTx(t).op).needs /\ defs(TheTx(t).op).takes = 0
    BY <2>1 DEF Alike, Due
  <2>3. held[t[1]][k] >= 1 + Ahead(t, k)
    BY <2>2 DEF EInv, Reserved
  <2>4. \A u \in Txs : Before(t, k)'[u] = Before(t, k)[u]
    <3> SUFFICES ASSUME NEW u \in Txs PROVE Before(t, k)'[u] = Before(t, k)[u]
      OBVIOUS
    <3>1. Takes(TheTx(u)', t[1], k) = Takes(TheTx(u), t[1], k)
      BY AlikeOwes
    <3> QED
      BY <3>1, AheadNext DEF Before
  <2>5. Ahead(t, k)' = Ahead(t, k)
    BY <2>4, AheadSame
  <2> QED
    BY <2>1, <2>3, <2>5
<1> QED
  BY <1>1, <1>2

LEMMA QuietKeeps ==
  ASSUME EInv, Quiet
  PROVE  EInv'
<1>0. Kinds' = Kinds
  BY DEF Quiet, Mix, Kinds, Def, Endurance
<1>1. TxsOK' /\ Reserved'
  BY AlikeKeeps DEF Quiet
<1>2. StocksOK'
  BY <1>0 DEF EInv, StocksOK, Quiet
<1>3. Covered'
  <2> SUFFICES ASSUME NEW w \in Wallets, NEW k \in Kinds
               PROVE  held'[w][k] >= stock'[w][k] + Claims(w, k)'
    BY <1>0 DEF Covered
  <2>1. \A t \in Txs : Weight(w, k)'[t] <= Weight(w, k)[t]
    <3> SUFFICES ASSUME NEW t \in Txs PROVE Weight(w, k)'[t] <= Weight(w, k)[t]
      OBVIOUS
    <3>1. /\ Takes(TheTx(t)', w, k) = Takes(TheTx(t), w, k)
          /\ Brings(TheTx(t)', t[1], w, k) <= Brings(TheTx(t), t[1], w, k)
      BY AlikeOwes DEF Quiet
    <3>2. Weight(w, k)'[t] = Takes(TheTx(t)', w, k) + Brings(TheTx(t)', t[1], w, k)
      BY ClaimsNext
    <3>3. Weight(w, k)[t] = Takes(TheTx(t), w, k) + Brings(TheTx(t), t[1], w, k)
      BY DEF Weight
    <3> QED
      BY <3>1, <3>2, <3>3, OwedNat
  <2>2. Claims(w, k)' <= Claims(w, k)
    BY <2>1, ClaimsFall
  <2>3. Claims(w, k)' \in Nat
    BY ClaimsNext, TxsFinite, SumNat
  <2>4. held[w][k] \in Int /\ stock[w][k] \in Nat /\ held[w][k] >= stock[w][k] + Claims(w, k)
    BY DEF EInv, StocksOK, Covered
  <2> QED
    BY <2>2, <2>3, <2>4, SumsNat DEF Quiet
<1> QED
  BY <1>1, <1>2, <1>3 DEF EInv

LEMMA TxsTyped ==
  ASSUME LInv, NEW t \in Txs
  PROVE  t[1] \in Wallets /\ t[2] \in Nonces /\ TheTx(t) \in Signed /\ t = <<t[1], t[2]>>
  BY DEF LInv, Typed, TheTx, Txs

LEMMA StateAlike ==
  ASSUME NEW x \in Signed, x.st \notin {"none", "over"}, NEW st, st # "none", NEW n
  PROVE  /\ Alike([x EXCEPT !.st = st], x)
         /\ Alike([x EXCEPT !.st = st, !.since = n], x)
         /\ Alike([x EXCEPT !.st = st, !.low = n], x)
  BY DEF Alike, Signed

\* One signed transaction changes.
LEMMA PutTx ==
  ASSUME LInv, NEW t \in Txs, NEW x, Put(t, x)
  PROVE  TheTx(t)' = x /\ \A u \in Txs \ {t} : TheTx(u)' = TheTx(u)
<1>1. tx \in [Wallets -> [Nonces -> Signed]]
  BY DEF LInv, Typed
<1>2. tx' = [tx EXCEPT ![t[1]][t[2]] = x] /\ t[1] \in Wallets /\ t[2] \in Nonces
  BY TxsTyped DEF Put
<1>3. TheTx(t)' = x
  BY <1>1, <1>2 DEF TheTx
<1>4. ASSUME NEW u \in Txs, u # t PROVE TheTx(u)' = TheTx(u)
  <2>1. u[1] \in Wallets /\ u[2] \in Nonces /\ (u[1] # t[1] \/ u[2] # t[2])
    BY <1>4, TxsTyped
  <2> QED
    BY <1>1, <1>2, <2>1 DEF TheTx
<1> QED
  BY <1>3, <1>4

LEMMA PutQuiet ==
  ASSUME LInv, NEW t \in Txs, NEW x, Put(t, x), Alike(x, TheTx(t)),
         UNCHANGED <<profile, stock, held, mined>>,
         pool' \subseteq pool \cup {t}, TheTx(t).st # "none"
  PROVE  Quiet
<1>1. TheTx(t)' = x /\ \A u \in Txs \ {t} : TheTx(u)' = TheTx(u)
  BY PutTx
<1>2. \A u \in Txs : Alike(TheTx(u), TheTx(u))
  BY DEF Alike
<1> QED
  BY <1>1, <1>2 DEF Quiet

\* Steps that leave transactions alone.
LEMMA RestQuiet ==
  ASSUME LInv, UNCHANGED <<profile, stock, held, mined, tx>>,
         \A t \in pool' : t \in pool \/ TheTx(t).st # "none"
  PROVE  Quiet
<1>1. \A u \in Txs : TheTx(u)' = TheTx(u)
  BY DEF TheTx
<1> QED
  BY <1>1 DEF Quiet, Alike

LEMMA SubmitsQuiet ==
  ASSUME LInv, NEW t \in Txs, Submits(t) \/ Throws(t) \/ Sweeps(t) \/ Resynced(t)
  PROVE  Quiet
<1>0. TheTx(t) \in Signed
  BY TxsTyped
<1>1. CASE Answered(t)
  <2>1. Alike([TheTx(t) EXCEPT !.st = "tracked", !.since = lastBlock], TheTx(t))
    BY <1>0, <1>1, StateAlike, ZenonT(60) DEF Answered, At
  <2> QED
    BY <1>1, <2>1, PutQuiet DEF Answered, At, chain
<1>2. CASE NonceError(t)
  <2>1. Alike([TheTx(t) EXCEPT !.st = "nonce", !.low = mined[t[1]]], TheTx(t))
    BY <1>0, <1>2, StateAlike, ZenonT(60) DEF NonceError, At
  <2> QED
    BY <1>2, <2>1, PutQuiet DEF NonceError, At, chain
<1>3. CASE Lands(t)
  BY <1>3, RestQuiet DEF Lands, At, client
<1>4. CASE Dropped(t) \/ Throws(t) \/ Resynced(t)
  <2>1. Alike([TheTx(t) EXCEPT !.st = "over"], TheTx(t)) /\ TheTx(t).st # "none"
    BY <1>0, <1>4, StateAlike, ZenonT(60) DEF Dropped, Throws, Resynced, At
  <2> QED
    BY <1>4, <2>1, PutQuiet DEF Dropped, Throws, Resynced, Becomes, chain
<1>5. CASE Rebroadcast(t)
  <2>1. Alike([TheTx(t) EXCEPT !.st = Once], TheTx(t)) /\ TheTx(t).st # "none"
    BY <1>0, <1>5, StateAlike, ZenonT(60) DEF Rebroadcast, At, Once
  <2>2. pool' \subseteq pool \cup {t}
    BY <1>5 DEF Rebroadcast
  <2> QED
    BY <1>5, <2>1, <2>2, PutQuiet DEF Rebroadcast, Becomes
<1>6. CASE TimesOut(t)
  <2>1. /\ Alike([TheTx(t) EXCEPT !.st = "resync", !.low = mined[t[1]]], TheTx(t))
        /\ TheTx(t).st # "none"
    BY <1>0, <1>6, StateAlike, ZenonT(60) DEF TimesOut, Overdue, At
  <2> QED
    BY <1>6, <2>1, PutQuiet DEF TimesOut, chain
<1> QED
  BY <1>1, <1>2, <1>3, <1>4, <1>5, <1>6 DEF Submits, Sweeps

LEMMA ScansQuiet ==
  ASSUME LInv, Scans
  PROVE  Quiet
<1>1. ASSUME NEW t \in Txs PROVE Alike(TheTx(t)', TheTx(t))
  <2>1. t[1] \in Wallets /\ t[2] \in Nonces /\ TheTx(t) \in Signed /\ t = <<t[1], t[2]>>
    BY TxsTyped
  <2>2. TheTx(t)' = IF t \in FoundIn(lastBlock + 1)
                    THEN [TheTx(t) EXCEPT !.st = "receipt"] ELSE TheTx(t)
    BY <2>1 DEF Scans, TheTx
  <2>3. CASE t \in FoundIn(lastBlock + 1)
    <3>1. TheTx(t).st \notin {"none", "over"}
      BY <2>3 DEF FoundIn, Tracked, At
    <3> QED
      BY <2>1, <2>2, <2>3, <3>1, StateAlike, ZenonT(60)
  <2>4. CASE t \notin FoundIn(lastBlock + 1)
    BY <2>2, <2>4 DEF Alike
  <2> QED
    BY <2>3, <2>4
<1> QED
  BY <1>1 DEF Scans, Quiet, chain

LEMMA OthersQuiet ==
  ASSUME LInv,
         \/ \E w \in Wallets : Waits(w) \/ resyncPermitNonce(w)
         \/ \E t \in Txs : Evicted(t)
         \/ ScanFails \/ Stop \/ UNCHANGED vars
  PROVE  Quiet
<1>1. UNCHANGED <<profile, stock, held, mined, tx>> /\ pool' \subseteq pool
  BY DEF Waits, resyncPermitNonce, Evicted, ScanFails, Stop, vars, client, chain
<1> QED
  BY <1>1, RestQuiet

\* How the claims change with one transaction.
Owes(x, t, w, k) == Takes(x, w, k) + Brings(x, t[1], w, k)

LEMMA ClaimsChange ==
  ASSUME NEW t \in Txs, \A u \in Txs \ {t} : TheTx(u)' = TheTx(u), NEW w, NEW k
  PROVE  /\ Claims(w, k)' = Claims(w, k) - Owes(TheTx(t), t, w, k) + Owes(TheTx(t)', t, w, k)
         /\ Claims(w, k)' \in Nat
<1> DEFINE f == Weight(w, k)
           g == Weight(w, k)'
<1>1. Claims(w, k) = SumFunctionOnSet(f, Txs) /\ Claims(w, k)' = SumFunctionOnSet(g, Txs)
  BY ClaimsNext DEF Claims
<1>2. \A u \in Txs : f[u] \in Nat /\ g[u] \in Nat
  BY SumsNat, ClaimsNext
<1>3. \A u \in Txs \ {t} : g[u] = f[u]
  <2> SUFFICES ASSUME NEW u \in Txs \ {t} PROVE g[u] = f[u]
    OBVIOUS
  <2>1. TheTx(u)' = TheTx(u)
    OBVIOUS
  <2> QED
    BY <2>1, ClaimsNext DEF Weight
<1>4. f[t] = Owes(TheTx(t), t, w, k) /\ g[t] = Owes(TheTx(t)', t, w, k)
  BY ClaimsNext DEF Weight, Owes
<1> HIDE DEF f, g
<1>5. SumFunctionOnSet(g, Txs) = SumFunctionOnSet(f, Txs) - f[t] + g[t]
  BY <1>2, <1>3, TxsFinite, SumChange
<1>6. SumFunctionOnSet(g, Txs) \in Nat
  BY <1>2, TxsFinite, SumNat
<1> QED
  BY <1>1, <1>4, <1>5, <1>6

\* receiptCollector.js, endurance: what counts when the receipt is there has been
\* on the chain since its block.
LEMMA ReceiptKeepsStock ==
  ASSUME LInv, Endurance, EInv, NEW t \in Txs, Receipt(t)
  PROVE  EInv'
<1> DEFINE x == TheTx(t)
           y == [x EXCEPT !.st = "over"]
<1>1. /\ x \in Signed /\ x.st = "receipt" /\ TxOK(x, t) /\ t[1] \in Wallets
      /\ Alike(y, x) /\ y.st = "over" /\ y.block = x.block /\ y.op = x.op /\ y.of = x.of
  <2>1. x \in Signed /\ x.st = "receipt" /\ TxOK(x, t) /\ t[1] \in Wallets
    BY TxsTyped DEF Receipt, At, EInv, TxsOK
  <2>2. Alike(y, x) /\ y.st = "over"
    BY <2>1, StateAlike, ZenonT(60) DEF Signed
  <2> QED
    BY <2>1, <2>2 DEF Alike
<1>2. /\ UNCHANGED <<profile, held, mined, pool>> /\ Put(t, y)
      /\ \E ok \in {x.good, FALSE} : stock' = Applied(t, ok)
  BY DEF Receipt, Becomes, StockAfter, chain
<1> HIDE DEF y
<1>3. CASE stock' = stock
  <2>1. Quiet
    BY <1>1, <1>2, <1>3, PutQuiet
  <2> QED
    BY <2>1, QuietKeeps
<1>4. CASE x.good /\ stock' = Applied(t, TRUE)
  <2>0. Txs' = Txs /\ Mix' = Mix /\ Kinds' = Kinds
    BY <1>2 DEF Txs, Nonces, Mix, Kinds, Def, Endurance
  <2> DEFINE d == defs(x.op)
             to == Receiver(x, t[1])
             more(w, k) == IF w = to /\ k \in d.gives THEN d.adds ELSE 0
  <2>1. x.op \in Mix /\ x.block > 0 /\ d.adds \in Nat /\ to \in Wallets
    BY <1>1, <1>4, WorkloadOK DEF TxOK, Signed, OpOK, Receiver
  <2>2. stock \in [Wallets -> [Kinds -> Nat]]
    BY DEF EInv, StocksOK
  <2>3. stock' = [stock EXCEPT ![to] =
                    [k \in Kinds |-> IF k \in d.gives THEN @[k] + d.adds ELSE @[k]]]
    BY <1>4, <2>1, KindsOf DEF Applied
  <2>4. \A w \in Wallets : \A k \in Kinds : stock'[w][k] = stock[w][k] + more(w, k)
    BY <1>1, <2>1, <2>2, <2>3
  <2>5. stock' \in [Wallets -> [Kinds -> Nat]]
    BY <1>1, <2>1, <2>2, <2>3
  <2>6. TheTx(t)' = y /\ \A u \in Txs \ {t} : TheTx(u)' = TheTx(u)
    BY <1>2, PutTx
  <2>7. ASSUME NEW w \in Wallets, NEW k \in Kinds
        PROVE  Claims(w, k)' = Claims(w, k) - more(w, k) /\ Claims(w, k)' \in Nat
    <3>1. Owes(x, t, w, k) = more(w, k) /\ Owes(y, t, w, k) = 0
      BY <1>1, <1>4, <2>1 DEF Owes, Takes, Brings
    <3>2. Claims(w, k)' = Claims(w, k) - Owes(x, t, w, k) + Owes(y, t, w, k)
          /\ Claims(w, k)' \in Nat
      BY <2>6, ClaimsChange
    <3>3. more(w, k) \in Nat
      BY <2>1
    <3> HIDE DEF more
    <3> QED
      BY <3>1, <3>2, <3>3, SumsNat
  <2>8. Covered'
    <3> SUFFICES ASSUME NEW w \in Wallets, NEW k \in Kinds
                 PROVE  held'[w][k] >= stock'[w][k] + Claims(w, k)'
      BY <2>0 DEF Covered
    <3>1. held'[w][k] = held[w][k] /\ held[w][k] \in Int /\ stock[w][k] \in Nat
          /\ held[w][k] >= stock[w][k] + Claims(w, k)
      BY <1>2, <2>2 DEF EInv, StocksOK, Covered
    <3>2. more(w, k) \in Nat
      BY <2>1
    <3>3. stock'[w][k] = stock[w][k] + more(w, k) /\ Claims(w, k)' = Claims(w, k) - more(w, k)
      BY <2>4, <2>7
    <3> HIDE DEF more
    <3> QED
      BY <3>1, <3>2, <3>3, SumsNat
  <2>9. TxsOK' /\ Reserved'
    <3>1. \A u \in Txs : Alike(TheTx(u)', TheTx(u))
      BY <1>1, <2>6 DEF Alike
    <3>2. UNCHANGED <<profile, held, mined, pool>>
      BY <1>2
    <3> QED
      BY <3>1, <3>2, AlikeKeeps
  <2>10. StocksOK'
    BY <1>2, <2>0, <2>5 DEF EInv, StocksOK
  <2> QED
    BY <2>8, <2>9, <2>10 DEF EInv
<1> QED
  BY <1>2, <1>3, <1>4 DEF Applied

LEMMA AheadChange ==
  ASSUME NEW s \in Txs, \A u \in Txs \ {s} : TheTx(u)' = TheTx(u), NEW t, NEW k
  PROVE  Ahead(t, k)' = Ahead(t, k) - Before(t, k)[s] + Before(t, k)'[s]
<1> DEFINE f == Before(t, k)
           g == Before(t, k)'
<1>1. Ahead(t, k) = SumFunctionOnSet(f, Txs) /\ Ahead(t, k)' = SumFunctionOnSet(g, Txs)
  BY AheadNext DEF Ahead
<1>2. \A u \in Txs : f[u] \in Nat /\ g[u] \in Nat
  BY SumsNat, AheadNext
<1>3. \A u \in Txs \ {s} : g[u] = f[u]
  <2> SUFFICES ASSUME NEW u \in Txs \ {s} PROVE g[u] = f[u]
    OBVIOUS
  <2>1. TheTx(u)' = TheTx(u)
    OBVIOUS
  <2> QED
    BY <2>1, AheadNext DEF Before
<1> HIDE DEF f, g
<1>4. SumFunctionOnSet(g, Txs) = SumFunctionOnSet(f, Txs) - f[s] + g[s]
  BY <1>2, <1>3, TxsFinite, SumChange
<1> QED
  BY <1>1, <1>4 DEF f, g

\* workloads.js, endurance: an operation is built when the stock has what it
\* needs, and takes from the stock what it will use up.
LEMMA FiresKeepsStock ==
  ASSUME LInv, Endurance, EInv, NEW w \in Wallets, NEW op \in Mix, NEW owner \in Wallets,
         Fires(w, op, owner)
  PROVE  EInv'
<1>w. next[w] \in Nonces
  BY LoadAssumption DEF LInv, Typed, Fires, Nonces
<1>t. PICK t \in Txs : t = <<w, next[w]>>
  BY <1>w DEF Txs
<1> DEFINE x == TheTx(t)
           y == [Unsigned EXCEPT !.op = op, !.st = "sending", !.of = owner,
                                 !.permit = permitNonce[w]]
           d == defs(op)
           less(v, k) == IF v = owner /\ k \in d.needs THEN d.takes ELSE 0
<1>0. Txs' = Txs /\ Mix' = Mix /\ Kinds' = Kinds
  BY DEF Fires, Txs, Nonces, Mix, Kinds, Def, Endurance
<1>1. t \in Txs /\ t[1] = w /\ t[2] = next[w] /\ x.st = "none" /\ x.block \in Nat
  BY <1>w, <1>t, TxsTyped DEF LInv, NothingAhead, Txs, TheTx, Signed, Typed
<1>2. /\ y.op = op /\ y.st = "sending" /\ y.of = owner /\ y.block = 0 /\ y.good = FALSE
  BY DEF Unsigned
<1>3. Put(t, y) /\ UNCHANGED <<profile, held, mined, pool>>
  BY <1>1 DEF Fires, Put, chain
<1> HIDE DEF y
<1>4. d.takes \in Nat /\ d.needs \subseteq Kinds
      /\ (d.whose = "own" => owner = w)
      /\ \A k \in d.needs : stock[owner][k] >= d.takes /\ stock[owner][k] >= 1
  <2>1. Def(op) = d /\ d.needs \subseteq Kinds /\ d.takes \in Nat
    BY KindsOf, WorkloadOK DEF OpOK
  <2>2. owner \in Owners(w, op) /\ \A k \in d.needs : stock[owner][k] >= Needed(op)
    BY <2>1 DEF Fires, Ready, Least
  <2>3. d.whose = "own" => owner = w
    BY <2>1, <2>2 DEF Owners
  <2>4. Needed(op) \in Nat /\ Needed(op) >= d.takes /\ Needed(op) >= 1
    BY <2>1 DEF Needed
  <2>5. \A k \in d.needs : stock[owner][k] \in Nat
    BY <2>1 DEF EInv, StocksOK
  <2> QED
    BY <2>1, <2>2, <2>3, <2>4, <2>5
<1>5. stock \in [Wallets -> [Kinds -> Nat]] /\ held \in [Wallets -> [Kinds -> Int]]
  BY DEF EInv, StocksOK
<1>6. stock' = [stock EXCEPT ![owner] =
                  [k \in Kinds |-> IF k \in d.needs THEN @[k] - d.takes ELSE @[k]]]
  BY KindsOf DEF Fires, Built
<1> HIDE DEF d
<1>7. /\ \A v \in Wallets : \A k \in Kinds : stock'[v][k] = stock[v][k] - less(v, k)
      /\ stock' \in [Wallets -> [Kinds -> Nat]]
  <2>1. [k \in Kinds |-> IF k \in d.needs THEN stock[owner][k] - d.takes ELSE stock[owner][k]]
          \in [Kinds -> Nat]
    BY <1>4, <1>5
  <2>2. stock' \in [Wallets -> [Kinds -> Nat]]
    BY <1>5, <1>6, <2>1
  <2>3. ASSUME NEW v \in Wallets, NEW k \in Kinds
        PROVE  stock'[v][k] = stock[v][k] - less(v, k)
    <3>1. CASE v = owner
      BY <1>4, <1>5, <1>6, <3>1
    <3>2. CASE v # owner
      BY <1>4, <1>5, <1>6, <3>2
    <3> QED
      BY <3>1, <3>2
  <2> QED
    BY <2>2, <2>3
<1>8. TheTx(t)' = y /\ \A u \in Txs \ {t} : TheTx(u)' = TheTx(u)
  BY <1>1, <1>3, PutTx
<1>9. Covered'
  <2> SUFFICES ASSUME NEW v \in Wallets, NEW k \in Kinds
               PROVE  held'[v][k] >= stock'[v][k] + Claims(v, k)'
    BY <1>0 DEF Covered
  <2>1. Owes(x, t, v, k) = 0 /\ Owes(y, t, v, k) = less(v, k)
    BY <1>1, <1>2, <1>4 DEF Owes, Takes, Brings, d
  <2>2. Claims(v, k)' = Claims(v, k) - Owes(x, t, v, k) + Owes(y, t, v, k)
    BY <1>1, <1>8, ClaimsChange
  <2>3. less(v, k) \in Nat /\ held[v][k] \in Int /\ stock[v][k] \in Nat
    BY <1>4, <1>5
  <2>4. held[v][k] >= stock[v][k] + Claims(v, k)
    BY DEF EInv, Covered
  <2> HIDE DEF less
  <2> QED
    BY <1>3, <1>7, <2>1, <2>2, <2>3, <2>4, SumsNat
<1>10. TxsOK'
  <2> SUFFICES ASSUME NEW u \in Txs PROVE TxOK(TheTx(u), u)'
    BY <1>0 DEF TxsOK
  <2>1. TxOK(TheTx(u), u)
    BY DEF EInv, TxsOK
  <2>2. CASE u = t
    BY <1>0, <1>1, <1>2, <1>4, <1>8, <2>2 DEF TxOK, d
  <2>3. CASE u # t
    BY <1>0, <1>3, <1>8, <2>1, <2>3 DEF TxOK
  <2> QED
    BY <2>2, <2>3
<1>11. Reserved'
  <2> SUFFICES ASSUME NEW u \in Txs, NEW k \in defs(TheTx(u)'.op).needs,
                      Due(TheTx(u), u)', defs(TheTx(u)'.op).takes = 0
               PROVE  held'[u[1]][k] >= 1 + Ahead(u, k)'
    BY <1>0 DEF Reserved
  <2>1. CASE u # t
    <3>1. TheTx(u)' = TheTx(u) /\ TheTx(u).st # "none"
      BY <1>8, <2>1 DEF Due
    <3>2. held[u[1]][k] >= 1 + Ahead(u, k)
      BY <1>3, <3>1 DEF EInv, Reserved, Due
    <3>3. ~(t[1] = u[1] /\ t[2] < u[2])
      <4>1. u[1] \in Wallets /\ u[2] \in Nonces /\ TheTx(u) = tx[u[1]][u[2]]
        BY TxsTyped DEF TheTx
      <4>2. ~(u[2] >= next[u[1]])
        BY <3>1, <4>1 DEF LInv, NothingAhead
      <4>3. next[u[1]] \in Nat /\ u[2] \in Int
        BY <4>1, LoadAssumption, SMTT(60) DEF LInv, Typed, Nonces
      <4> QED
        BY <1>1, <4>2, <4>3
    <3>4. Before(u, k)[t] = 0 /\ Before(u, k)'[t] = 0
      BY <1>1, <3>3, AheadNext DEF Before
    <3>5. Ahead(u, k)' = Ahead(u, k)
      BY <1>1, <1>8, <3>4, AheadChange, SumsNat
    <3> QED
      BY <1>3, <3>2, <3>5
  <2>2. CASE u = t
    <3>1. k \in d.needs /\ d.takes = 0 /\ u[1] = w
      BY <1>1, <1>2, <1>8, <2>2 DEF d
    <3>2. owner = w
      BY <1>4, <3>1, WorkloadOK DEF OpOK, d
    <3>3. Ahead(u, k)' <= Claims(w, k)
      <4> DEFINE f == Before(u, k)'
                 g == Weight(w, k)
      <4>1. \A s \in Txs : f[s] \in Nat /\ g[s] \in Nat
        BY AheadNext, SumsNat
      <4>2. ASSUME NEW s \in Txs PROVE f[s] <= g[s]
        <5>1. f[s] = IF s[1] = w /\ s[2] < u[2] THEN Takes(TheTx(s)', w, k) ELSE 0
          BY <3>1, AheadNext
        <5>2. g[s] = Takes(TheTx(s), w, k) + Brings(TheTx(s), s[1], w, k)
          BY DEF Weight
        <5>3. CASE s = t
          <6>1. ~(s[2] < u[2])
            BY <1>1, <2>2, <5>3 DEF LInv, Typed
          <6> QED
            BY <4>1, <5>1, <6>1
        <5>4. CASE s # t
          <6>1. TheTx(s)' = TheTx(s)
            BY <1>8, <5>4
          <6> QED
            BY <5>1, <5>2, <6>1, OwedNat
        <5> QED
          BY <5>3, <5>4
      <4>3. Ahead(u, k)' = SumFunctionOnSet(f, Txs) /\ Claims(w, k) = SumFunctionOnSet(g, Txs)
        BY AheadNext DEF Claims
      <4> HIDE DEF f, g
      <4> QED
        BY <4>1, <4>2, <4>3, TxsFinite, SumLe
    <3>4. Ahead(u, k)' \in Nat
      BY AheadNext, TxsFinite, SumNat
    <3>5. /\ held[w][k] \in Int /\ stock[w][k] \in Nat /\ stock[w][k] >= 1
          /\ held[w][k] >= stock[w][k] + Claims(w, k)
      BY <1>4, <1>5, <3>1, <3>2 DEF EInv, Covered
    <3> QED
      BY <1>3, <3>1, <3>3, <3>4, <3>5, SumsNat
  <2> QED
    BY <2>1, <2>2
<1>12. StocksOK'
  BY <1>0, <1>3, <1>5, <1>7 DEF StocksOK
<1> QED
  BY <1>9, <1>10, <1>11, <1>12 DEF EInv

\* A block: an operation that spends finds what it needs, since nobody has taken
\* what its wallet was promised.
LEMMA SpenderSucceeds ==
  ASSUME LInv, Endurance, EInv, NEW t \in Txs, t \in pool, t[2] = mined[t[1]],
         defs(TheTx(t).op).needs # {}
  PROVE  Succeeds(t)
<1> DEFINE x == TheTx(t)
           d == defs(x.op)
<1>1. /\ x.st # "none" /\ x.op \in Mix /\ x.of \in Wallets /\ t[1] \in Wallets
      /\ d.whose = "own" => x.of = t[1]
      /\ x.block = 0
  <2>1. TxOK(x, t) /\ x \in Signed /\ t[1] \in Wallets
    BY TxsTyped DEF EInv, TxsOK
  <2>2. x.block \in Nat /\ ~(x.block > 0)
    <3>1. mined[t[1]] \in Nat
      BY <2>1 DEF LInv, Typed
    <3> QED
      BY <2>1, <3>1 DEF TxOK, Signed
  <2> QED
    BY <2>1, <2>2 DEF TxOK
<1>2. OpOK(d) /\ Def(x.op) = d /\ d.needs \subseteq Kinds
  BY <1>1, WorkloadOK, KindsOf
<1>3. x.op # "permit"
  <2>1. /\ "permit" \notin DOMAIN creditOps
        /\ "permit" \notin DOMAIN queueOps
        /\ "permit" \notin DOMAIN sharedOps
    <3>1. "permit" \notin DOMAIN creditOps
      BY SMTT(60) DEF creditOps
    <3>2. "permit" \notin DOMAIN queueOps
      BY SMTT(60) DEF queueOps
    <3>3. "permit" \notin DOMAIN sharedOps
      BY SMTT(60) DEF sharedOps
    <3> QED
      BY <3>1, <3>2, <3>3
  <2>2. defs("permit") = permitOp
    BY <2>1 DEF defs
  <2>3. permitOp.needs = {}
    BY DEF permitOp, Op
  <2> QED
    BY <2>2, <2>3
<1>4. ASSUME NEW k \in d.needs PROVE held[x.of][k] >= Needed(x.op)
  <2>1. k \in Kinds
    BY <1>2
  <2>2. /\ held[x.of][k] \in Int /\ stock[x.of][k] \in Nat
        /\ held[x.of][k] >= stock[x.of][k] + Claims(x.of, k)
    BY <1>1, <2>1 DEF EInv, StocksOK, Covered
  <2>3. CASE d.takes = 0
    <3>1. x.of = t[1]
      BY <1>1, <1>2, <2>3 DEF OpOK
    <3>2. Due(x, t)
      <4>1. mined[t[1]] \in Nat
        BY <1>1 DEF LInv, Typed
      <4> QED
        BY <1>1, <4>1 DEF Due
    <3>3. held[t[1]][k] >= 1 + Ahead(t, k)
      BY <2>3, <3>2 DEF EInv, Reserved
    <3>4. Needed(x.op) = 1
      BY <1>2, <2>3 DEF Needed
    <3> QED
      BY <2>2, <3>1, <3>3, <3>4, SumsNat
  <2>4. CASE d.takes # 0
    <3>1. d.takes \in Nat
      BY <1>2 DEF OpOK
    <3>2. Weight(x.of, k)[t] >= d.takes
      <4>1. Takes(x, x.of, k) = d.takes
        BY <1>1 DEF Takes
      <4>2. Weight(x.of, k)[t] = Takes(x, x.of, k) + Brings(x, t[1], x.of, k)
        BY DEF Weight
      <4>3. Brings(x, t[1], x.of, k) \in Nat
        BY OwedNat
      <4> HIDE DEF x, d
      <4> QED
        BY <3>1, <4>1, <4>2, <4>3
    <3>3. Claims(x.of, k) >= Weight(x.of, k)[t]
      BY ClaimsAtLeast
    <3>4. Needed(x.op) = d.takes
      BY <1>2, <2>4, <3>1 DEF Needed
    <3>5. Claims(x.of, k) \in Nat /\ Weight(x.of, k)[t] \in Nat
      BY SumsNat
    <3> HIDE DEF x, d
    <3> QED
      BY <2>2, <3>1, <3>2, <3>3, <3>4, <3>5
  <2> QED
    BY <2>3, <2>4
<1> QED
  BY <1>2, <1>3, <1>4 DEF Succeeds

\* What is on the chain after a block that has t.
LEMMA BlockHolds ==
  ASSUME LInv, Endurance, EInv, NEW t \in Txs, TheTx(t).op \in Mix, TheTx(t).of \in Wallets,
         NEW w \in Wallets, NEW k \in Kinds
  PROVE  LET d == defs(TheTx(t).op)
             out == IF w = TheTx(t).of /\ k \in d.needs THEN d.takes ELSE 0
             in == IF w = Receiver(TheTx(t), t[1]) /\ k \in d.gives THEN d.adds ELSE 0
         IN  /\ Held(t) \in [Wallets -> [Kinds -> Int]]
             /\ Held(t)[w][k] = held[w][k] - out + in
<1> DEFINE x == TheTx(t)
           d == defs(x.op)
           o == x.of
           row == [j \in Kinds |-> IF j \in d.needs THEN held[o][j] - d.takes ELSE held[o][j]]
           taken == [held EXCEPT ![o] = row]
           to == Receiver(x, t[1])
           last == [j \in Kinds |-> IF j \in d.gives THEN taken[to][j] + d.adds
                                    ELSE taken[to][j]]
           out == IF w = o /\ k \in d.needs THEN d.takes ELSE 0
           in == IF w = to /\ k \in d.gives THEN d.adds ELSE 0
<1>1. held \in [Wallets -> [Kinds -> Int]] /\ to \in Wallets /\ o \in Wallets
  BY TxsTyped DEF EInv, StocksOK, Receiver
<1>2. d.takes \in Nat /\ d.adds \in Nat /\ Def(x.op) = d
  BY WorkloadOK, KindsOf DEF OpOK
<1>3. Held(t) = [taken EXCEPT ![to] = last]
  BY <1>1, <1>2 DEF Held
<1> HIDE DEF x, d, to
<1>4. row \in [Kinds -> Int] /\ row[k] = held[o][k] - (IF k \in d.needs THEN d.takes ELSE 0)
  BY <1>1, <1>2
<1> HIDE DEF row
<1>5. taken \in [Wallets -> [Kinds -> Int]] /\ taken[w][k] = held[w][k] - out
  BY <1>1, <1>2, <1>4
<1> HIDE DEF taken
<1>6. last \in [Kinds -> Int]
      /\ last[k] = taken[to][k] + (IF k \in d.gives THEN d.adds ELSE 0)
  BY <1>1, <1>2, <1>5
<1> HIDE DEF last
<1>7. Held(t) \in [Wallets -> [Kinds -> Int]] /\ Held(t)[w][k] = taken[w][k] + in
  BY <1>1, <1>2, <1>3, <1>5, <1>6
<1> QED
  BY <1>5, <1>7 DEF x, d, to

\* With nothing to own, a block changes nothing of it.
LEMMA HeldEmpty ==
  ASSUME LInv, EInv, NEW t \in Txs, Kinds = {}, TheTx(t).of \in Wallets
  PROVE  Held(t) \in [Wallets -> [Kinds -> Int]]
<1>1. held \in [Wallets -> [Kinds -> Int]] /\ Receiver(TheTx(t), t[1]) \in Wallets
  BY TxsTyped DEF EInv, StocksOK, Receiver
<1> QED
  BY <1>1 DEF Held

LEMMA NewBlockKeepsStock ==
  ASSUME LInv, Endurance, EInv, NewBlock
  PROVE  EInv'
<1>0. /\ Txs' = Txs /\ Mix' = Mix /\ Kinds' = Kinds
      /\ UNCHANGED <<profile, stock>>
  BY DEF NewBlock, Txs, Nonces, Mix, Kinds, Def, Endurance
<1>1. PICK t \in pool, good \in BOOLEAN :
        /\ t[2] = mined[t[1]]
        /\ \/ good = Succeeds(t)
           \/ ~good /\ (Def(TheTx(t).op).needs = {} \/ TheTx(t).op \in Timed)
        /\ Put(t, [TheTx(t) EXCEPT !.block = head + 1, !.good = good])
        /\ mined' = [mined EXCEPT ![t[1]] = @ + 1]
        /\ pool' = pool \ {t}
        /\ held' = IF good THEN Held(t) ELSE held
  BY DEF NewBlock
<1> DEFINE x == TheTx(t)
           y == [x EXCEPT !.block = head + 1, !.good = good]
           d == defs(x.op)
           out(w, k) == IF w = x.of /\ k \in d.needs THEN d.takes ELSE 0
           to == Receiver(x, t[1])
           in(w, k) == IF w = to /\ k \in d.gives THEN d.adds ELSE 0
<1>2. t \in Txs /\ x \in Signed /\ t[1] \in Wallets /\ t[2] \in Nat /\ mined[t[1]] = t[2]
  <2>1. t \in Txs
    BY DEF LInv, Typed
  <2> QED
    BY <1>1, <2>1, TxsTyped DEF LInv, Typed
<1>3. /\ x.st # "none" /\ x.op \in Mix /\ x.of \in Wallets /\ x.block = 0
      /\ d.whose = "own" => x.of = t[1]
  <2>1. TxOK(x, t)
    BY <1>2 DEF EInv, TxsOK
  <2> QED
    BY <1>2, <2>1 DEF TxOK, Signed
<1>4. d.takes \in Nat /\ d.adds \in Nat /\ OpOK(d) /\ Def(x.op) = d
  BY <1>3, WorkloadOK, KindsOf DEF OpOK
<1>5. d.needs # {} /\ x.op \notin Timed => good
  BY <1>1, <1>2, <1>4, SpenderSucceeds
<1>6. /\ y.op = x.op /\ y.of = x.of /\ y.st = x.st /\ y.block > 0 /\ y.block # 0
      /\ y.good = good
  BY <1>2 DEF Signed, LInv, Typed
<1>7. TheTx(t)' = y /\ \A u \in Txs \ {t} : TheTx(u)' = TheTx(u)
  BY <1>1, <1>2, PutTx
<1> HIDE DEF y, x, d
<1>8. /\ mined' = [mined EXCEPT ![t[1]] = t[2] + 1] /\ mined \in [Wallets -> Nat]
  BY <1>1, <1>2 DEF LInv, Typed
<1>9. held \in [Wallets -> [Kinds -> Int]] /\ stock \in [Wallets -> [Kinds -> Nat]]
  BY DEF EInv, StocksOK
<1>10. ASSUME NEW w \in Wallets, NEW k \in Kinds
       PROVE  /\ held'[w][k] \in Int /\ out(w, k) \in Nat
              /\ held'[w][k] >= held[w][k] - out(w, k) + (IF good THEN in(w, k) ELSE 0)
  <2>1. out(w, k) \in Nat /\ in(w, k) \in Nat /\ held[w][k] \in Int
    BY <1>4, <1>9
  <2>2. CASE good
    <3>1. held' = Held(t)
      BY <1>1, <2>2
    <3>2. Held(t) \in [Wallets -> [Kinds -> Int]] /\ Held(t)[w][k] = held[w][k] - out(w, k) + in(w, k)
      BY <1>2, <1>3, BlockHolds DEF x, d
    <3>3. held'[w][k] \in Int /\ held'[w][k] = held[w][k] - out(w, k) + in(w, k)
      BY <3>1, <3>2
    <3> HIDE DEF out, in
    <3> QED
      BY <2>1, <2>2, <3>3
  <2>3. CASE ~good
    <3>1. held' = held
      BY <1>1, <2>3
    <3> HIDE DEF out, in
    <3> QED
      BY <2>1, <2>3, <3>1
  <2> QED
    BY <2>2, <2>3
<1>11. StocksOK'
  <2>1. held' \in [Wallets -> [Kinds -> Int]]
    <3>1. CASE good /\ Wallets # {} /\ Kinds # {}
      BY <1>1, <1>2, <1>3, <3>1, BlockHolds DEF x
    <3>2. CASE good /\ Kinds = {}
      BY <1>1, <1>2, <1>3, <1>4, <1>9, <3>2, HeldEmpty DEF x
    <3>3. CASE ~good
      BY <1>1, <1>9, <3>3
    <3> QED
      BY <1>2, <3>1, <3>2, <3>3
  <2> QED
    BY <1>0, <1>9, <2>1 DEF StocksOK
<1>12. Covered'
  <2> SUFFICES ASSUME NEW w \in Wallets, NEW k \in Kinds
               PROVE  held'[w][k] >= stock'[w][k] + Claims(w, k)'
    BY <1>0 DEF Covered
  <2>1. Owes(x, t, w, k) = out(w, k)
    BY <1>3, <1>4 DEF Owes, Takes, Brings, d
  <2>2. Owes(y, t, w, k) <= (IF good THEN in(w, k) ELSE 0) /\ Owes(y, t, w, k) \in Nat
    <3>1. Receiver(y, t[1]) = to
      BY <1>6 DEF Receiver
    <3> QED
      BY <1>4, <1>6, <3>1 DEF Owes, Takes, Brings, d
  <2>3. Claims(w, k)' = Claims(w, k) - Owes(x, t, w, k) + Owes(y, t, w, k)
    BY <1>2, <1>7, ClaimsChange DEF x
  <2>4. /\ held[w][k] >= stock[w][k] + Claims(w, k) /\ held[w][k] \in Int
        /\ stock[w][k] \in Nat /\ stock' = stock /\ in(w, k) \in Nat
    BY <1>0, <1>4, <1>9 DEF EInv, Covered
  <2>5. /\ held'[w][k] \in Int /\ out(w, k) \in Nat
        /\ held'[w][k] >= held[w][k] - out(w, k) + (IF good THEN in(w, k) ELSE 0)
    BY <1>10
  <2> HIDE DEF out, in
  <2> QED
    BY <2>1, <2>2, <2>3, <2>4, <2>5, SumsNat
<1>13. TxsOK'
  <2> SUFFICES ASSUME NEW u \in Txs PROVE TxOK(TheTx(u), u)'
    BY <1>0 DEF TxsOK
  <2>1. TxOK(TheTx(u), u) /\ u[1] \in Wallets /\ u[2] \in Int
    BY TxsTyped, LoadAssumption DEF EInv, TxsOK, Nonces
  <2>2. CASE u = t
    <3>1. t[2] < mined'[t[1]]
      BY <1>2, <1>8
    <3> QED
      BY <1>0, <1>1, <1>3, <1>5, <1>6, <1>7, <2>2, <3>1 DEF TxOK, d
  <2>3. CASE u # t
    <3>1. TheTx(u)' = TheTx(u) /\ (u[2] < mined[u[1]] => u[2] < mined'[u[1]])
      BY <1>2, <1>7, <1>8, <2>1, <2>3
    <3> QED
      BY <1>0, <1>1, <2>1, <3>1 DEF TxOK
  <2> QED
    BY <2>2, <2>3
<1>14. Reserved'
  <2> SUFFICES ASSUME NEW u \in Txs, NEW k \in defs(TheTx(u)'.op).needs,
                      Due(TheTx(u), u)', defs(TheTx(u)'.op).takes = 0
               PROVE  held'[u[1]][k] >= 1 + Ahead(u, k)'
    BY <1>0 DEF Reserved
  <2>1. u # t
    BY <1>6, <1>7 DEF Due
  <2>2. TheTx(u)' = TheTx(u) /\ TheTx(u).st # "none" /\ u[1] \in Wallets /\ u[2] \in Nat
    BY <1>7, <2>1, TxsTyped, LoadAssumption DEF Due, Nonces
  <2>3. u[2] >= mined[u[1]] /\ (u[1] = t[1] => t[2] < u[2])
    <3>1. u[2] >= mined'[u[1]]
      BY DEF Due
    <3> QED
      BY <1>2, <1>8, <2>2, <3>1
  <2>4. held[u[1]][k] >= 1 + Ahead(u, k)
    BY <2>2, <2>3 DEF EInv, Reserved, Due
  <2>5. k \in Kinds /\ k \in Lasting
    <3>1. TxOK(TheTx(u), u)
      BY DEF EInv, TxsOK
    <3> QED
      BY <2>2, <3>1, KindsOf, WorkloadOK DEF TxOK, OpOK
  <2>6. Ahead(u, k)' = Ahead(u, k) - out(u[1], k)
    <3>1. Before(u, k)[t] = out(u[1], k)
      <4>1. k \in d.needs => x.of = t[1]
        BY <1>3, <1>4, <2>5 DEF OpOK
      <4>2. Before(u, k)[t] = IF t[1] = u[1] /\ t[2] < u[2] THEN Takes(x, u[1], k) ELSE 0
        BY <1>2 DEF Before, x
      <4>3. Takes(x, u[1], k) = out(u[1], k)
        BY <1>3 DEF Takes, d
      <4>4. t[1] # u[1] => out(u[1], k) = 0
        BY <4>1
      <4> QED
        BY <2>3, <4>2, <4>3, <4>4
    <3>2. Before(u, k)'[t] = 0
      <4>1. Takes(y, u[1], k) = 0
        BY <1>6 DEF Takes
      <4> QED
        BY <1>2, <1>7, <4>1, AheadNext
    <3>3. Ahead(u, k)' = Ahead(u, k) - Before(u, k)[t] + Before(u, k)'[t]
      BY <1>2, <1>7, AheadChange
    <3>4. out(u[1], k) \in Nat
      BY <1>4
    <3> HIDE DEF out
    <3> QED
      BY <3>1, <3>2, <3>3, <3>4, SumsNat
  <2>7. /\ held'[u[1]][k] \in Int /\ out(u[1], k) \in Nat
        /\ held'[u[1]][k] >= held[u[1]][k] - out(u[1], k)
    <3>1. /\ held'[u[1]][k] \in Int /\ out(u[1], k) \in Nat
          /\ held'[u[1]][k] >= held[u[1]][k] - out(u[1], k)
                                 + (IF good THEN in(u[1], k) ELSE 0)
      BY <1>10, <2>2, <2>5
    <3>2. in(u[1], k) \in Nat /\ held[u[1]][k] \in Int
      BY <1>4, <1>9, <2>2, <2>5
    <3> HIDE DEF out, in
    <3> QED
      BY <3>1, <3>2
  <2>8. held[u[1]][k] \in Int
    BY <1>9, <2>2, <2>5
  <2> HIDE DEF out
  <2> QED
    BY <2>4, <2>6, <2>7, <2>8, SumsNat
<1> QED
  BY <1>11, <1>12, <1>13, <1>14 DEF EInv

-----------------------------------------------------------------------------
(* What spends is never refused                                            *)

\* Init: nothing is signed, nothing is owned.
LEMMA InitHolds ==
  ASSUME Init
  PROVE  EInv
<1>1. ASSUME NEW t \in Txs PROVE TheTx(t) = Unsigned
  BY DEF Init, TheTx, Txs
<1>2. TxsOK
  <2> SUFFICES ASSUME NEW t \in Txs PROVE TxOK(TheTx(t), t)
    BY DEF TxsOK
  <2> QED
    BY <1>1 DEF Init, TxOK, Unsigned
<1>3. StocksOK
  BY DEF Init, StocksOK, Nothing
<1>4. Covered
  <2> SUFFICES ASSUME NEW w \in Wallets, NEW k \in Kinds
               PROVE  held[w][k] >= stock[w][k] + Claims(w, k)
    BY DEF Covered
  <2>1. \A t \in Txs : Weight(w, k)[t] = 0
    <3> SUFFICES ASSUME NEW t \in Txs PROVE Weight(w, k)[t] = 0
      OBVIOUS
    <3> QED
      BY <1>1 DEF Weight, Takes, Brings, Unsigned
  <2>2. Claims(w, k) = 0
    BY <2>1, SumZero, TxsFinite DEF Claims
  <2> QED
    BY <2>2 DEF Init, Nothing
<1>5. Reserved
  BY <1>1 DEF Reserved, Due, Unsigned
<1> QED
  BY <1>2, <1>3, <1>4, <1>5 DEF EInv

\* Every step keeps what is owed covered.
LEMMA NextHolds ==
  LInv /\ (Endurance => EInv) /\ [Next]_vars => (Endurance => EInv)'
<1> SUFFICES ASSUME LInv, Endurance => EInv, [Next]_vars, Endurance' PROVE EInv'
  OBVIOUS
<1>0. profile' = profile
  BY ZenonT(60)
  DEF Next, vars, client, Waits, resyncPermitNonce, Fires, Submits, Answered, NonceError,
      Dropped, Lands, Throws, Sweeps, Rebroadcast, TimesOut, Resynced, Receipt, Evicted,
      NewBlock, Scans, ScanFails, Stop
<1>1. Endurance /\ EInv
  BY <1>0 DEF Endurance
<1>2. CASE \E w \in Wallets, op \in Mix, owner \in Wallets : Fires(w, op, owner)
  BY <1>1, <1>2, FiresKeepsStock
<1>3. CASE \E t \in Txs : Submits(t) \/ Throws(t) \/ Sweeps(t) \/ Resynced(t)
  BY <1>1, <1>3, SubmitsQuiet, QuietKeeps
<1>4. CASE \E t \in Txs : Receipt(t)
  BY <1>1, <1>4, ReceiptKeepsStock
<1>5. CASE NewBlock
  BY <1>1, <1>5, NewBlockKeepsStock
<1>6. CASE Scans
  BY <1>1, <1>6, ScansQuiet, QuietKeeps
<1>7. CASE \/ \E w \in Wallets : Waits(w) \/ resyncPermitNonce(w)
           \/ \E t \in Txs : Evicted(t)
           \/ ScanFails \/ Stop \/ UNCHANGED vars
  BY <1>1, <1>7, OthersQuiet, QuietKeeps
<1> QED
  BY <1>2, <1>3, <1>4, <1>5, <1>6, <1>7 DEF Next

\* workloads.js 1-9: in the endurance run an operation that spends what another
\* has made, of its own wallet or of another's, succeeds when it is mined, in
\* whatever order transactions are made and mined, and whatever of them is lost,
\* late, sent again or given up; but for a bid, which may come too late.
THEOREM SpendersSucceed == Spec => []ConsumersSucceed
<1>1. Init => LInv /\ (Endurance => EInv)
  BY InitLInv, InitHolds
<1>2. LInv /\ (Endurance => EInv) /\ [Next]_vars => (LInv /\ (Endurance => EInv))'
  BY NextKeeps, NextHolds
<1>3. LInv /\ (Endurance => EInv) => ConsumersSucceed
  <2> SUFFICES ASSUME Endurance, EInv, NEW t \in Txs, TheTx(t).block > 0,
                      Def(TheTx(t).op).needs # {}, TheTx(t).op \notin Timed
               PROVE  TheTx(t).good
    BY DEF ConsumersSucceed
  <2> QED
    BY DEF EInv, TxsOK, TxOK, Def
<1> QED
  BY <1>1, <1>2, <1>3, PTL DEF Spec
===============================================================================
