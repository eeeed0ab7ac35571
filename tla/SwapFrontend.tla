---------------------------- MODULE SwapFrontend ----------------------------
(* The GembaSwap page: three forms of which one is mounted, the reads they   *)
(* cache, the wallet that is asked to sign, and the chain (Dex), on which    *)
(* others trade. What a form offers is computed from its fields and from     *)
(* cached reads; what is signed was fixed when the button was pressed; what  *)
(* it does is decided by the chain when it is mined.                         *)
EXTENDS Dex

CONSTANTS Amounts,     \* what the user types
          Picks,       \* pairs of tokens the user picks, [give, take]
          SlipBps,     \* the slippage field, in basis points
          Pools,       \* reserves [tok, gmb] other traders leave behind
          GenesisChain,
          MaxEvents,   \* bound on entries, refusals and lost answers together
          MaxClock,    \* bound on the clock, whose step is longer than a deadline
          MaxQueue     \* bound on calls not yet mined

ASSUME FrontendAssumption ==
  /\ Amounts \subseteq Nat \ {0} /\ SlipBps \in 0..10000
  /\ MaxEvents \in Nat /\ MaxClock \in Nat /\ MaxQueue \in Nat
  /\ LET tokens == {"gmb", "wgmb", "tok"} IN
     Picks \subseteq [give: tokens, take: tokens]
  /\ Pools \subseteq [tok: Nat \ {0}, gmb: Nat \ {0}]

\* A pool holds something, and no wallet owns all of it: the first liquidity
\* minted (MINIMUM_LIQUIDITY) is locked for good.
ASSUME GenesisAssumption ==
  /\ GenesisChain \in
       [bal: [Assets -> Nat], allow: [Assets \X Spenders -> Nat],
        pool: [tok: Nat \ {0}, gmb: Nat \ {0}, lp: Nat \ {0}],
        locks: {<<>>}, held: {0}, now: Nat]
  /\ GenesisChain.bal["lp"] < GenesisChain.pool.lp

VARIABLES chain,    \* see Dex
          page,     \* the mounted form and the cached reads
          prompts,  \* what the wallet shows to be confirmed
          mempool,  \* submitted, not mined
          typed,    \* how many entries were typed
          spends,   \* history: for each entry, the calls submitted for it
          lost,     \* history: entries for which the wallet's answer was lost
          mishaps

pageVars == <<chain, page, prompts, mempool, typed, spends, lost, mishaps>>

NoTx == [kind |-> "none"]
NoQuote == -1
NoPool == [tok |-> 0, gmb |-> 0, lp |-> 0]

Forms == {"swap", "add", "remove", "lock"}
Tabs == {"swap", "liquidity", "lock"}

\* A form as it is mounted: empty fields, no transaction of its own.
Mounted(p, tab) ==
  [p EXCEPT !.tab = tab, !.mode = "add", !.give = "gmb", !.take = "wgmb",
            !.amt = [f \in Forms |-> 0], !.until = 0, !.fot = FALSE,
            !.quote = NoQuote, !.asking = FALSE, !.hash = "none",
            !.due = IF tab = "swap" THEN {"balance"} ELSE {}]

PageInit ==
  /\ chain = GenesisChain
  /\ page = [tab |-> "swap", mode |-> "add", give |-> "gmb", take |-> "wgmb",
             amt |-> [f \in Forms |-> 0], entry |-> [f \in Forms |-> 0],
             until |-> 0, fot |-> FALSE, quote |-> NoQuote, pool |-> NoPool,
             bal |-> [a \in Assets |-> 0],
             allow |-> [x \in Assets \X Spenders |-> 0], rows |-> <<>>,
             asking |-> FALSE, due |-> {"balance"}, hash |-> "none"]
  /\ prompts = <<>> /\ mempool = <<>>
  /\ typed = 0 /\ spends = [e \in 1..MaxEvents |-> 0]
  /\ lost = {} /\ mishaps = 0

\* The form the button belongs to.
Focus(p) == IF p.tab = "liquidity" THEN p.mode ELSE p.tab

-----------------------------------------------------------------------------
(* What the button offers                                                  *)

Minus(v) == v - (v * SlipBps) \div 10000

IsWrapUnwrap(p) == {p.give, p.take} = {"gmb", "wgmb"}
SamePair(p) == p.give = p.take

NeedApprove(p, a, s, n) == p.allow[<<a, s>>] < n

Approve(a, s, n) == [kind |-> "approve", asset |-> a, spender |-> s, amt |-> n]

SwapOffer(p, c) ==
  LET n == p.amt["swap"] IN
  IF SamePair(p) \/ n > p.bal[p.give] \/ n = 0 THEN NoTx
  ELSE IF IsWrapUnwrap(p)
  THEN [kind |-> "wrap", give |-> p.give, take |-> p.take, amt |-> n]
  ELSE IF p.quote <= 0 THEN NoTx
  ELSE IF p.give # "gmb" /\ NeedApprove(p, p.give, "router", n)
  THEN Approve(p.give, "router", n)
  ELSE [kind |-> "swap", give |-> p.give, take |-> p.take, amt |-> n,
        min |-> Minus(p.quote), deadline |-> c.now]

\* The GMB that goes with the tokens, at the ratio of the cached reserves.
Matching(p) == IF p.pool.tok = 0 THEN 0
               ELSE (p.amt["add"] * p.pool.gmb) \div p.pool.tok

AtLeast(p, v) == IF p.fot THEN 0 ELSE Minus(v)

AddOffer(p, c) ==
  LET n == p.amt["add"] IN
  IF n = 0 \/ Matching(p) = 0 THEN NoTx
  ELSE IF NeedApprove(p, "tok", "router", n) THEN Approve("tok", "router", n)
  ELSE [kind |-> "add", amt |-> n, value |-> Matching(p),
        minTok |-> AtLeast(p, n), minGmb |-> AtLeast(p, Matching(p)),
        deadline |-> c.now]

Share(p) == IF p.pool.lp = 0 THEN [tok |-> 0, gmb |-> 0]
            ELSE Redeemed(p.pool, p.amt["remove"])

RemoveOffer(p, c) ==
  LET n == p.amt["remove"] IN
  IF n = 0 \/ p.pool = NoPool THEN NoTx
  ELSE IF NeedApprove(p, "lp", "router", n) THEN Approve("lp", "router", n)
  ELSE [kind |-> "remove", amt |-> n, fot |-> p.fot,
        minTok |-> AtLeast(p, Share(p).tok), minGmb |-> AtLeast(p, Share(p).gmb),
        deadline |-> c.now]

LockOffer(p, c) ==
  LET n == p.amt["lock"] IN
  IF n = 0 \/ ~(p.until > c.now) THEN NoTx
  ELSE IF NeedApprove(p, "lp", "locker", n) THEN Approve("lp", "locker", n)
  ELSE [kind |-> "lock", amt |-> n, until |-> p.until]

Offer(p, c) == CASE Focus(p) = "swap"   -> SwapOffer(p, c)
                 [] Focus(p) = "add"    -> AddOffer(p, c)
                 [] Focus(p) = "remove" -> RemoveOffer(p, c)
                 [] Focus(p) = "lock"   -> LockOffer(p, c)

\* The rows under the lock form, each with its own button.
RowOffers(p, c) ==
  IF p.tab # "lock" THEN {}
  ELSE {[kind |-> "withdraw", id |-> i, amt |-> p.rows[i].amt] :
          i \in {j \in DOMAIN p.rows : /\ ~p.rows[j].withdrawn
                                       /\ p.rows[j].until <= c.now}}

\* A removal shows the share; the line with the slippage is hidden for a token
\* that takes a fee.
ShownShare(p, v) == IF p.fot THEN v ELSE Minus(v)

\* What the form shows beside the button: the least every balance changes.
ShownFloor(p, tx) ==
  CASE tx.kind = "approve" -> NoChange
    [] tx.kind = "wrap" -> [NoChange EXCEPT ![tx.give] = -tx.amt,
                                            ![tx.take] = tx.amt]
    [] tx.kind = "swap" -> [NoChange EXCEPT ![p.give] = -p.amt["swap"],
                                            ![p.take] = Minus(p.quote)]
    [] tx.kind = "add" -> [NoChange EXCEPT !["tok"] = -p.amt["add"],
                                           !["gmb"] = -Matching(p)]
    [] tx.kind = "remove" -> [NoChange EXCEPT !["lp"] = -p.amt["remove"],
                                 !["tok"] = ShownShare(p, Share(p).tok),
                                 !["gmb"] = ShownShare(p, Share(p).gmb)]
    [] tx.kind = "lock" -> [NoChange EXCEPT !["lp"] = -p.amt["lock"]]
    [] tx.kind = "withdraw" -> [NoChange EXCEPT !["lp"] = tx.amt]

-----------------------------------------------------------------------------
(* The user at the page                                                    *)

Orphaned(q) == [i \in DOMAIN q |-> [q[i] EXCEPT !.mine = FALSE]]

\* Leaving a tab unmounts its form; what is in the wallet or submitted goes on.
OpenTab(t) ==
  /\ t # page.tab
  /\ page' = Mounted(page, t)
  /\ prompts' = Orphaned(prompts) /\ mempool' = Orphaned(mempool)
  /\ UNCHANGED <<chain, typed, spends, lost, mishaps>>

Fields == UNCHANGED <<chain, prompts, mempool, spends, lost, mishaps>>

\* The user fills in the form. A quote is kept under its arguments: with other
\* arguments there is none yet; another token to give has its balance and its
\* allowance read. The typing of one entry is one step.
DueFor(give) ==
  IF give = page.give THEN page.due
  ELSE IF give = "gmb" THEN {"balance"} ELSE {"balance", "allowance"}

FillSwap(n, give, take) ==
  /\ page.tab = "swap"
  /\ page' = [page EXCEPT !.give = give, !.take = take, !.amt["swap"] = n,
                          !.entry["swap"] = typed', !.quote = NoQuote,
                          !.due = DueFor(give)]

FillLiquidity(n, mode, fot) ==
  /\ page.tab = "liquidity"
  /\ page' = [page EXCEPT !.mode = mode, !.fot = fot, !.amt[mode] = n,
                          !.entry[mode] = typed']

FillLock(n, until) ==
  /\ page.tab = "lock"
  /\ page' = [page EXCEPT !.until = until, !.amt["lock"] = n,
                          !.entry["lock"] = typed']

Fill ==
  /\ typed + mishaps < MaxEvents /\ typed' = typed + 1
  /\ \E n \in Amounts :
       \/ \E k \in Picks : FillSwap(n, k.give, k.take)
       \/ \E mode \in {"add", "remove"}, fot \in BOOLEAN :
            FillLiquidity(n, mode, fot)
       \/ \E until \in 1..MaxClock : FillLock(n, until)
  /\ Fields

\* The arrow between the two tokens, and the choice between adding and removing.
Flip ==
  /\ page.tab = "swap" /\ page.amt["swap"] > 0
  /\ page' = [page EXCEPT !.give = page.take, !.take = page.give,
                          !.amt["swap"] = 0, !.quote = NoQuote,
                          !.due = DueFor(page.take)]
  /\ Fields /\ UNCHANGED typed

SetMode(m) ==
  /\ page.tab = "liquidity" /\ page.mode # m
  /\ page' = [page EXCEPT !.mode = m]
  /\ Fields /\ UNCHANGED typed

Edit == \/ \E t \in Tabs : OpenTab(t)
        \/ Fill \/ Flip
        \/ \E m \in {"add", "remove"} : SetMode(m)

\* The form waits for a receipt.
Waiting(p) == p.hash # "none"

\* The handlers fix the arguments of the call when the button is pressed.
Press(tx) ==
  /\ tx # NoTx /\ ~page.asking /\ ~Waiting(page)
  /\ Len(prompts) + Len(mempool) < MaxQueue
  /\ prompts' = Append(prompts, [tx |-> tx, floor |-> ShownFloor(page, tx),
                                 entry |-> page.entry[Focus(page)],
                                 mine |-> TRUE])
  /\ page' = [page EXCEPT !.asking = TRUE]
  /\ UNCHANGED <<chain, mempool, typed, spends, lost, mishaps>>

PressButton == Press(Offer(page, chain))
PressRow == \E tx \in RowOffers(page, chain) : Press(tx)

-----------------------------------------------------------------------------
(* Cached reads. The quote, the pair and what the liquidity and lock forms    *)
(* read beside it are polled. The swap form reads the balance and the         *)
(* allowance of the token to give when it is mounted and when the token       *)
(* changes, and the allowance once more for an approval (due); otherwise only *)
(* when the user comes back to the window, as the rows of the lock form.      *)

Queries == {"quote", "balance", "allowance", "meta", "pair", "lockMeta", "rows"}
Polled == {"quote", "meta", "pair", "lockMeta"}
OnChange == {"balance", "allowance"}

Enabled(p, q) ==
  CASE q = "quote" -> /\ p.tab = "swap" /\ p.amt["swap"] > 0
                      /\ ~SamePair(p) /\ ~IsWrapUnwrap(p)
    [] q = "balance" -> p.tab = "swap"
    [] q = "allowance" -> p.tab = "swap" /\ p.give # "gmb"
    [] q \in {"meta", "pair"} -> p.tab = "liquidity"
    [] q \in {"lockMeta", "rows"} -> p.tab = "lock"

Fresh(p, c, q) ==
  CASE q = "quote" ->
         [p EXCEPT !.quote = AmountOut(p.amt["swap"], c.pool[Side(p.give)],
                                       c.pool[Side(p.take)])]
    [] q = "balance" -> [p EXCEPT !.bal[p.give] = c.bal[p.give]]
    [] q = "allowance" -> [p EXCEPT !.allow[<<p.give, "router">>] =
                                       c.allow[<<p.give, "router">>]]
    [] q = "meta" -> [p EXCEPT !.allow[<<"tok", "router">>] =
                                  c.allow[<<"tok", "router">>]]
    [] q = "pair" -> [p EXCEPT !.pool = c.pool,
                               !.allow[<<"lp", "router">>] =
                                  c.allow[<<"lp", "router">>]]
    [] q = "lockMeta" -> [p EXCEPT !.allow[<<"lp", "locker">>] =
                                      c.allow[<<"lp", "locker">>]]
    [] q = "rows" -> [p EXCEPT !.rows = c.locks]

Read(q) ==
  /\ Enabled(page, q)
  /\ page' = [Fresh(page, chain, q) EXCEPT !.due = @ \ {q}]
  /\ Fields /\ UNCHANGED typed

DueRead(q) == q \in page.due /\ Read(q)

-----------------------------------------------------------------------------
(* The wallet, the chain, and everybody else                               *)

Spend == {"wrap", "swap", "add", "remove", "lock"}

\* Changed: the amount stays in the form.
KeepsAmount(p, tx) == p

\* After the call is out the form forgets the amount, so that it is not sent
\* again; an approval keeps it for the call that follows.
ClearsAmount(p, tx) ==
  CASE tx.kind \in {"wrap", "swap"} -> [p EXCEPT !.amt["swap"] = 0,
                                               !.quote = NoQuote]
    [] tx.kind = "add"    -> [p EXCEPT !.amt["add"] = 0]
    [] tx.kind = "remove" -> [p EXCEPT !.amt["remove"] = 0]
    [] tx.kind = "lock"   -> [p EXCEPT !.amt["lock"] = 0]
    [] OTHER -> p

\* Changed: the allowance is not read again.
NeverAsksAgain(p, tx) == FALSE

\* doApprove asks for the allowance as soon as the transaction is out.
AsksAgain(p, tx) == tx.kind = "approve" /\ Enabled(p, "allowance")

\* Changed: the arguments are taken from the fields when the wallet signs.
TermsOfNow(pr) == LET o == Offer(page, chain) IN
                  IF pr.mine /\ o.kind = pr.tx.kind THEN o ELSE pr.tx

Terms(pr) == pr.tx

Submitted(pr) ==
  /\ prompts' = Tail(prompts)
  /\ spends' = IF pr.tx.kind \in Spend THEN [spends EXCEPT ![pr.entry] = @ + 1]
               ELSE spends

\* The wallet signs and hands the hash back to the handler that waits for it.
Confirm ==
  /\ prompts # <<>>
  /\ LET pr == Head(prompts) IN
     /\ Submitted(pr)
     /\ mempool' = Append(mempool, [pr EXCEPT !.tx = Terms(pr)])
     /\ page' = IF ~pr.mine THEN page
                ELSE [ClearsAmount(page, pr.tx) EXCEPT
                        !.asking = FALSE, !.hash = "mining",
                        !.due = IF AsksAgain(page, pr.tx)
                                THEN @ \cup {"allowance"} ELSE @]
  /\ UNCHANGED <<chain, typed, lost, mishaps>>

Answered(pr) == page' = IF pr.mine THEN [page EXCEPT !.asking = FALSE] ELSE page

\* The user refuses, and the handler reports a failure.
Refuse ==
  /\ prompts # <<>> /\ typed + mishaps < MaxEvents
  /\ mishaps' = mishaps + 1
  /\ prompts' = Tail(prompts)
  /\ Answered(Head(prompts))
  /\ UNCHANGED <<chain, mempool, typed, spends, lost>>

\* The wallet signs and submits, but its answer does not arrive: the handler
\* reports a failure of a call that is under way.
AnswerLost ==
  /\ prompts # <<>> /\ typed + mishaps < MaxEvents
  /\ mishaps' = mishaps + 1
  /\ LET pr == Head(prompts) IN
     /\ Submitted(pr) /\ Answered(pr)
     /\ mempool' = Append(mempool, [pr EXCEPT !.mine = FALSE])
     /\ lost' = lost \cup {pr.entry}
  /\ UNCHANGED <<chain, typed>>

Mine ==
  /\ mempool # <<>>
  /\ LET m == Head(mempool) IN
     /\ chain' = Executed(chain, m.tx)
     /\ page' = IF m.mine THEN [page EXCEPT !.hash = "mined"] ELSE page
  /\ mempool' = Tail(mempool)
  /\ UNCHANGED <<prompts, typed, spends, lost, mishaps>>

\* The page hears of the receipt, which frees the form whether or not the call
\* reverted.
Receipt ==
  /\ page.hash = "mined"
  /\ page' = [page EXCEPT !.hash = "none"]
  /\ Fields /\ UNCHANGED typed

\* The receipt cannot be read: the form is free although the call is pending.
ReceiptLost ==
  /\ Waiting(page) /\ typed + mishaps < MaxEvents
  /\ mishaps' = mishaps + 1
  /\ page' = [page EXCEPT !.hash = "none"]
  /\ mempool' = Orphaned(mempool)
  /\ UNCHANGED <<chain, prompts, typed, spends, lost>>

Trade(r) ==
  /\ chain' = [chain EXCEPT !.pool.tok = r.tok, !.pool.gmb = r.gmb]
  /\ chain' # chain
  /\ UNCHANGED <<page, prompts, mempool, typed, spends, lost, mishaps>>

Extend(id, until) ==
  /\ Extends(chain, id, until)
  /\ chain' = Extended(chain, id, until)
  /\ UNCHANGED <<page, prompts, mempool, typed, spends, lost, mishaps>>

ClockTicks ==
  /\ chain.now < MaxClock
  /\ chain' = [chain EXCEPT !.now = @ + 1]
  /\ UNCHANGED <<page, prompts, mempool, typed, spends, lost, mishaps>>

PageNext ==
  \/ Edit
  \/ PressButton \/ PressRow
  \/ \E q \in Queries : Read(q)
  \/ Confirm \/ Refuse \/ AnswerLost
  \/ Mine \/ Receipt \/ ReceiptLost
  \/ \E r \in Pools : Trade(r)
  \/ \E id \in DOMAIN chain.locks, until \in 1..(MaxClock + 1) :
       Extend(id, until)
  \/ ClockTicks

PageSpec == PageInit /\ [][PageNext]_pageVars

\* Reads that are polled or under way come, the wallet answers, the chain mines,
\* and receipts arrive; nothing makes the user come back to the window.
\* The strong fairness is the user of GetsThrough, who keeps pressing what the
\* form offers for the amount that was typed.
PageFairSpec ==
  /\ PageSpec
  /\ \A q \in Polled : WF_pageVars(Read(q))
  /\ \A q \in OnChange : WF_pageVars(DueRead(q))
  /\ WF_pageVars(Confirm) /\ WF_pageVars(Mine) /\ WF_pageVars(Receipt)
  /\ SF_pageVars(PressButton)

-----------------------------------------------------------------------------
(* Properties                                                              *)

\* A removal for a token that takes a fee promises nothing of what comes back.
Promised(tx, a) == a = "lp" \/ ~(tx.kind = "remove" /\ tx.fot)

\* No call that is mined leaves any balance worse than the form showed when its
\* button was pressed, however the pool moved and whatever was typed since; but
\* for what a removal for a fee-on-transfer token brings back, which is shown
\* and has no minimum (LiquidityForm.jsx 116-117, 163-172).
NoWorseThanShown ==
  [][mempool # <<>> /\ chain'.bal # chain.bal =>
       \A a \in Assets :
         Promised(Head(mempool).tx, a) =>
           chain'.bal[a] - chain.bal[a] >= Head(mempool).floor[a]
    ]_pageVars

\* One typed amount is spent at most once, through slow receipts, lost ones,
\* refusals and remounted forms; the exception is an entry whose answer the
\* wallet lost, which the form keeps and offers again.
OncePerEntry ==
  \A e \in DOMAIN spends : spends[e] <= 1 \/ e \in lost

\* The locker holds what its open locks record, and none opened early.
LocksKept ==
  /\ chain.held = SumFunctionOnSet(
                    [i \in DOMAIN chain.locks |-> chain.locks[i].amt],
                    {i \in DOMAIN chain.locks : ~chain.locks[i].withdrawn})
  /\ \A i \in DOMAIN chain.locks :
       chain.locks[i].withdrawn => chain.locks[i].until <= chain.now

\* The page with the reads that come without the user.
Fresher(p, c) ==
  FoldSet(LAMBDA q, x : IF Enabled(x, q) THEN Fresh(x, c, q) ELSE x,
          p, Polled \cup p.due)

\* The allowance the swap form knows may have been used up since: the form then
\* offers a call that reverts.
UsedUp(p, c) ==
  p.tab = "swap" /\ p.allow[<<p.give, "router">>] > c.allow[<<p.give, "router">>]

\* An amount is in the form that was not spent yet, and the form, which may not
\* see a balance or an allowance that has changed, offers something for it.
Wanted ==
  LET f == Focus(page) IN
  /\ page.amt[f] > 0 /\ spends[page.entry[f]] = 0
  /\ LET p == Fresher(page, chain) IN
     Offer(p, chain) # NoTx /\ ~UsedUp(p, chain)

\* A user who keeps pressing the button the form offers gets the call out: no
\* approval is asked for without end. The swap form reads the allowance only
\* when it approves, so an approval it has not seen yet costs a second one.
GetsThrough == Wanted ~> ~Wanted
=============================================================================
