------------------------- MODULE FaucetService_proofs -------------------------
(***************************************************************************)
(* What a requester of the faucet can get, for any recipients, clients,    *)
(* requests, limits, clock and faults.  The entry of a key tells of every  *)
(* drip granted for it that it is no newer, or that a cooldown has passed, *)
(* or that a roll-back gave its entry away; and that can only have begun   *)
(* with a request that outstayed its own cooldown (Kept).                  *)
(***************************************************************************)
EXTENDS FaucetService, FiniteSetTheorems, TLAPS

Steps == {"balance", "queued", "wait", "ok", "failed", "burnt", "lost"}

TakenUp == [at: Steps, to: Addresses, ip: Ips, time: Nat, life: Nat, back: Nat]

\* A request that was taken up was taken up in the past, and one that is under
\* way in this life of the process.
ReqOK(x, t, l) ==
  \/ x = New
  \/ x = [at |-> "refused"]
  \/ /\ x \in TakenUp /\ x.time <= t /\ x.life <= l
     /\ x.at \in {"balance", "queued", "wait"} => x.life = l

Entries(Keys) == [Keys -> Nat \cup {Free}]

Typed ==
  /\ now \in Nat /\ life \in Nat
  /\ byAddress \in Entries(Addresses) /\ byIp \in Entries(Ips)
  /\ dripDay \in Nat /\ dripCountToday \in Nat
  /\ DOMAIN req = Requests /\ \A r \in Requests : ReqOK(req[r], now, life)

-----------------------------------------------------------------------------
(* What steps do to requests                                               *)

\* Only r moves, from one step to another, in the same life and at the same
\* time; one that is answered stays so.
Moves(r, step) ==
  /\ DOMAIN req' = Requests /\ \A s \in Requests \ {r} : req'[s] = req[s]
  /\ InFlight(r) /\ req'[r] = [req[r] EXCEPT !.at = step]

RollsBack(r) ==
  /\ DOMAIN req' = Requests /\ \A s \in Requests \ {r} : req'[s] = req[s]
  /\ InFlight(r) /\ req'[r] = [req[r] EXCEPT !.at = "failed", !.back = now]
  /\ GiveBack(r)

LEMMA RollBackRolls ==
  ASSUME Typed, NEW r \in Requests, RollBack(r), InFlight(r)
  PROVE  RollsBack(r)
<1>1. req' = [req EXCEPT ![r] = [req[r] EXCEPT !.at = "failed", !.back = now]]
  BY DEF RollBack
<1> QED
  BY <1>1 DEF RollBack, RollsBack, Typed

LEMMA MoveMoves ==
  ASSUME Typed, NEW r \in Requests, NEW step, Move(r, step), InFlight(r)
  PROVE  Moves(r, step)
BY DEF Move, Moves, Typed

LEMMA InFlightTakenUp ==
  ASSUME Typed, NEW r \in Requests, InFlight(r)
  PROVE  req[r] \in TakenUp /\ req[r].time <= now /\ req[r].life = life
<1>1. ReqOK(req[r], now, life)
  BY DEF Typed
<1> QED
  BY <1>1 DEF ReqOK, InFlight, New

\* Steps that neither take up nor answer a request.
Still == UNCHANGED <<now, life, memory, req>>

\* A step is one of these as far as requests and the memory go.
LEMMA StepKinds ==
  ASSUME Typed, [Next]_vars
  PROVE  \/ \E r \in Requests, ask \in Asks : Accept(r, ask[1], ask[2])
         \/ \E r \in Requests, ask \in Asks : Refuse(r, ask[1], ask[2])
         \/ \E r \in Requests, step \in {"queued", "wait", "ok", "burnt"} :
              Moves(r, step) /\ UNCHANGED <<now, life, memory>>
         \/ \E r \in Requests : RollsBack(r) /\ UNCHANGED <<now, life>>
         \/ Still \/ Tick \/ Restart
<1>1. CASE \E a \in Accounts : Claim(a)
  BY <1>1 DEF Claim, Still, memory
<1>2. CASE UNCHANGED vars
  BY <1>2 DEF vars, Still
<1>3. ASSUME NEW r \in Requests, BalanceLow(r) \/ SendFails(r) \/ WaitFails(r)
      PROVE  RollsBack(r) /\ UNCHANGED <<now, life>>
  <2>1. InFlight(r) /\ RollBack(r) /\ UNCHANGED <<now, life>>
    BY <1>3 DEF BalanceLow, SendFails, WaitFails, InFlight, At
  <2> QED
    BY <2>1, RollBackRolls
<1>4. ASSUME NEW r \in Requests,
             BalanceGood(r) \/ BalanceFails(r) \/ Send(r) \/ Receipt(r)
      PROVE  \E step \in {"queued", "wait", "ok", "burnt"} :
               Moves(r, step) /\ UNCHANGED <<now, life, memory>>
  <2>1. InFlight(r) /\ UNCHANGED <<now, life, memory>>
    BY <1>4 DEF BalanceGood, BalanceFails, Send, Receipt, InFlight, At
  <2>2. \E step \in {"queued", "wait", "ok", "burnt"} : Move(r, step)
    BY <1>4 DEF BalanceGood, BalanceFails, Send, Receipt
  <2> QED
    BY <2>1, <2>2, MoveMoves
<1>5. ASSUME NEW r \in Requests, Mined(r) \/ Dropped(r)
      PROVE  Still
  BY <1>5 DEF Mined, Dropped, Still
<1> QED
  BY <1>1, <1>2, <1>3, <1>4, <1>5 DEF Next, Serve

-----------------------------------------------------------------------------
(* The limiters                                                            *)

LEMMA CanAcquireIs ==
  ASSUME NEW Keys, NEW last \in Entries(Keys), NEW k \in Keys, NEW t \in Nat
  PROVE  CanAcquire(last, k, t) <=> last[k] = Free \/ t - last[k] >= Cooldown
BY LimiterAssumption DEF Entries, CanAcquire, remaining

LEMMA AcquiredIs ==
  ASSUME NEW Keys, NEW last \in Entries(Keys), NEW k \in Keys, NEW t \in Nat
  PROVE  /\ Acquired(last, k, t) \in Entries(Keys) /\ Acquired(last, k, t)[k] = t
         /\ \A j \in Keys \ {k} :
              \/ Acquired(last, k, t)[j] = last[j]
              \/ last[j] # Free /\ t - last[j] >= Cooldown
<1>1. \A j \in Keys : Swept(last, t)[j] = last[j]
                        \/ (Swept(last, t)[j] = Free /\ last[j] # Free
                              /\ t - last[j] >= Cooldown)
  BY LimiterAssumption DEF Entries, Swept, remaining
<1>2. Swept(last, t) \in Entries(Keys)
  <2>1. DOMAIN Swept(last, t) = Keys
    BY DEF Entries, Swept
  <2>2. Swept(last, t) = [j \in Keys |-> Swept(last, t)[j]]
    BY <2>1 DEF Swept
  <2>3. \A j \in Keys : Swept(last, t)[j] \in Nat \cup {Free}
    BY <1>1 DEF Entries
  <2> QED
    BY <2>2, <2>3 DEF Entries
<1> QED
  BY <1>1, <1>2 DEF Acquired, Entries

LEMMA ReleasedIs ==
  ASSUME NEW Keys, NEW last \in Entries(Keys), NEW k \in Keys
  PROVE  /\ Released(last, k) \in Entries(Keys) /\ Released(last, k)[k] = Free
         /\ \A j \in Keys \ {k} : Released(last, k)[j] = last[j]
BY DEF Released, Entries

LEMMA AsksTyped ==
  ASSUME NEW ask \in Asks
  PROVE  ask[1] \in Addresses /\ ask[2] \in Ips
BY FaucetAssumption

LEMMA TodayNat ==
  ASSUME NEW t \in Nat
  PROVE  Today(t) \in Nat
BY FaucetAssumption DEF Today

LEMMA InitTyped == Init => Typed
<1>1. \A Keys : NoEntries(Keys) \in Entries(Keys)
  BY DEF NoEntries, Entries
<1> QED
  BY <1>1 DEF Init, Typed, ReqOK

\* Every step keeps the types.
LEMMA NextTyped == Typed /\ [Next]_vars => Typed'
<1> SUFFICES ASSUME Typed, [Next]_vars PROVE Typed'
  OBVIOUS
<1>0. /\ now \in Nat /\ life \in Nat /\ dripDay \in Nat /\ dripCountToday \in Nat
      /\ byAddress \in Entries(Addresses) /\ byIp \in Entries(Ips)
      /\ DOMAIN req = Requests /\ \A r \in Requests : ReqOK(req[r], now, life)
      /\ Today(now) \in Nat /\ Requests' = Requests
  BY TodayNat DEF Typed
<1>1. ASSUME NEW r \in Requests, NEW ask \in Asks, Accept(r, ask[1], ask[2])
      PROVE  Typed'
  <2>1. /\ byAddress' \in Entries(Addresses) /\ byIp' \in Entries(Ips)
    BY <1>0, <1>1, AsksTyped, AcquiredIs, ZenonT(60) DEF Accept
  <2>2. dripDay' \in Nat /\ dripCountToday' \in Nat
    BY <1>0, <1>1 DEF Accept, CountOf
  <2>3. /\ DOMAIN req' = Requests /\ \A s \in Requests \ {r} : req'[s] = req[s]
        /\ req'[r] = [at |-> "balance", to |-> ask[1], ip |-> ask[2],
                      time |-> now, life |-> life, back |-> 0]
        /\ UNCHANGED <<now, life>>
    BY <1>0, <1>1 DEF Accept
  <2>4. ReqOK(req'[r], now, life)
    BY <1>0, <2>3, AsksTyped DEF ReqOK, TakenUp, Steps
  <2> QED
    BY <1>0, <2>1, <2>2, <2>3, <2>4 DEF Typed
<1>2. ASSUME NEW r \in Requests, NEW ask \in Asks, Refuse(r, ask[1], ask[2])
      PROVE  Typed'
  <2>0. ask[1] \in Addresses /\ ask[2] \in Ips
    BY AsksTyped
  <2>a. /\ Acquired(byAddress, ask[1], now) \in Entries(Addresses)
        /\ Acquired(byIp, ask[2], now) \in Entries(Ips)
    BY <1>0, <2>0, AcquiredIs
  <2>b. /\ Released(Acquired(byAddress, ask[1], now), ask[1]) \in Entries(Addresses)
        /\ Released(Acquired(byIp, ask[2], now), ask[2]) \in Entries(Ips)
    BY <2>0, <2>a, ReleasedIs
  <2>1. /\ byAddress' \in Entries(Addresses) /\ byIp' \in Entries(Ips)
    BY <1>0, <1>2, <2>b DEF Refuse, memory
  <2>2. dripDay' \in Nat /\ dripCountToday' \in Nat
    BY <1>0, <1>2 DEF Refuse, CountOf, memory
  <2>3. /\ DOMAIN req' = Requests /\ \A s \in Requests \ {r} : req'[s] = req[s]
        /\ req'[r] = [at |-> "refused"] /\ UNCHANGED <<now, life>>
    BY <1>0, <1>2 DEF Refuse
  <2> QED
    BY <1>0, <2>1, <2>2, <2>3 DEF Typed, ReqOK
<1>3. ASSUME NEW r \in Requests, NEW step \in {"queued", "wait", "ok", "burnt"},
             Moves(r, step), UNCHANGED <<now, life, memory>>
      PROVE  Typed'
  <2>1. req[r] \in TakenUp /\ req[r].time <= now /\ req[r].life = life
    BY <1>3, InFlightTakenUp DEF Moves
  <2>2. ReqOK(req'[r], now, life)
    BY <1>3, <2>1 DEF Moves, ReqOK, TakenUp, Steps
  <2> QED
    BY <1>0, <1>3, <2>2 DEF Moves, Typed, memory
<1>4. ASSUME NEW r \in Requests, RollsBack(r), UNCHANGED <<now, life>>
      PROVE  Typed'
  <2>1. req[r] \in TakenUp /\ req[r].time <= now /\ req[r].life = life
    BY <1>4, InFlightTakenUp DEF RollsBack
  <2>2. ReqOK(req'[r], now, life)
    <3>1. req'[r] = [req[r] EXCEPT !.at = "failed", !.back = now]
      BY <1>4 DEF RollsBack
    <3>2. /\ req'[r] \in TakenUp /\ req'[r].at = "failed"
          /\ req'[r].time = req[r].time /\ req'[r].life = req[r].life
      BY <1>0, <2>1, <3>1 DEF TakenUp, Steps
    <3> QED
      BY <1>0, <2>1, <3>2 DEF ReqOK
  <2>3. req[r].to \in Addresses /\ req[r].ip \in Ips
    BY <2>1 DEF TakenUp
  <2>4. /\ byAddress' \in Entries(Addresses) /\ byIp' \in Entries(Ips)
        /\ dripDay' \in Nat /\ dripCountToday' \in Nat
    BY <1>0, <1>4, <2>3, ReleasedIs DEF RollsBack, GiveBack
  <2> QED
    BY <1>0, <1>4, <2>2, <2>4 DEF RollsBack, Typed
<1>5. CASE Still
  BY <1>0, <1>5 DEF Still, Typed, memory
<1>6. CASE Tick
  <2>1. now' = now + 1 /\ UNCHANGED <<memory, req, life>>
    BY <1>6 DEF Tick
  <2>2. \A r \in Requests : ReqOK(req[r], now + 1, life)
    BY <1>0 DEF ReqOK, TakenUp
  <2> QED
    BY <1>0, <2>1, <2>2 DEF Typed, memory
<1>7. CASE Restart
  <2>1. /\ byAddress' \in Entries(Addresses) /\ byIp' \in Entries(Ips)
        /\ dripDay' \in Nat /\ dripCountToday' \in Nat
    BY <1>7 DEF Restart, FreshMemory, NoEntries, Entries
  <2>2. ASSUME NEW r \in Requests PROVE ReqOK(req'[r], now, life + 1)
    <3>1. req'[r] = IF InFlight(r) THEN [req[r] EXCEPT !.at = "lost"] ELSE req[r]
      BY <1>7 DEF Restart
    <3>2. CASE InFlight(r)
      <4>1. req[r] \in TakenUp /\ req[r].time <= now /\ req[r].life = life
        BY <3>2, InFlightTakenUp
      <4> QED
        BY <1>0, <3>1, <3>2, <4>1 DEF ReqOK, TakenUp, Steps
    <3>3. CASE ~InFlight(r)
      <4>1. ReqOK(req[r], now, life) /\ req[r].at \notin {"balance", "queued", "wait"}
        BY <1>0, <3>3 DEF InFlight
      <4> QED
        BY <1>0, <3>1, <3>3, <4>1 DEF ReqOK, TakenUp
    <3> QED
      BY <3>2, <3>3
  <2>3. DOMAIN req' = Requests /\ now' = now /\ life' = life + 1
    BY <1>7 DEF Restart
  <2> QED
    BY <1>0, <2>1, <2>2, <2>3 DEF Typed
<1> QED
  BY <1>1, <1>2, <1>3, <1>4, <1>5, <1>6, <1>7, StepKinds

-----------------------------------------------------------------------------
(* One drip per cooldown                                                   *)

\* A request has two keys, each with a limiter of its own.
Kinds == {"to", "ip"}
KeyOf(f, x) == IF f = "to" THEN x.to ELSE x.ip
KeysOf(f) == IF f = "to" THEN Addresses ELSE Ips
Last(f) == IF f = "to" THEN byAddress ELSE byIp

\* What Given says of two requests that were rolled back in life l and the
\* time t at which a request with key k was taken up.
Gives(x, y, f, k, t, l) ==
  /\ x.at = "failed" /\ x.life = l /\ KeyOf(f, x) = k
  /\ y.at = "failed" /\ y.life = l /\ KeyOf(f, y) = k
  /\ x.time <= t /\ t <= x.back
  /\ y.time + Cooldown <= y.back /\ y.time + Cooldown <= t

\* The entry of the key was given away, in the end because of one that
\* outstayed its cooldown.
Given(f, k, t) == \E q, p \in Requests : Gives(req[q], req[p], f, k, t, life)

\* What the entry of a key says of a drip granted for it at time t.
Kept(f, k, t) ==
  \/ Last(f)[k] # Free /\ Last(f)[k] >= t
  \/ now - t >= Cooldown
  \/ Given(f, k, t)

Counts(x) == x.at \in {"balance", "queued", "wait", "ok"} /\ x.life = life

AllKept(f) ==
  \A r \in Requests : Counts(req[r]) => Kept(f, KeyOf(f, req[r]), req[r].time)

Spaced(f) ==
  \A r, s \in Requests :
    /\ r # s /\ Counts(req[r]) /\ Counts(req[s])
    /\ KeyOf(f, req[r]) = KeyOf(f, req[s])
    /\ req[s].time - req[r].time \in 0 .. Cooldown - 1
    => Given(f, KeyOf(f, req[r]), req[r].time)

CooldownInv == \A f \in Kinds : AllKept(f) /\ Spaced(f)

LEMMA CountsTyped ==
  ASSUME Typed, NEW r \in Requests, Counts(req[r])
  PROVE  req[r] \in TakenUp /\ req[r].time \in Nat /\ req[r].time <= now
<1>1. ReqOK(req[r], now, life)
  BY DEF Typed
<1> QED
  BY <1>1 DEF ReqOK, Counts, New, TakenUp

LEMMA KeyTyped ==
  ASSUME NEW f \in Kinds, NEW x \in TakenUp
  PROVE  KeyOf(f, x) \in KeysOf(f)
BY DEF KeyOf, KeysOf, TakenUp

LEMMA LastTyped ==
  ASSUME Typed, NEW f \in Kinds
  PROVE  Last(f) \in Entries(KeysOf(f))
BY DEF Typed, Last, KeysOf

\* Nothing of a request that was rolled back changes in its life.
GivenStays == life' = life /\ \A q \in Requests : req[q].at = "failed" => req'[q] = req[q]

LEMMA GivenKept ==
  ASSUME GivenStays, NEW f, NEW k, NEW t, Given(f, k, t)
  PROVE  Given(f, k, t)'
<1>1. PICK q \in Requests, p \in Requests : Gives(req[q], req[p], f, k, t, life)
  BY DEF Given
<1>2. Requests' = Requests /\ req'[q] = req[q] /\ req'[p] = req[p] /\ life' = life
  BY <1>1 DEF Gives, GivenStays, Requests
<1>3. Gives(req'[q], req'[p], f, k, t, life')
  BY <1>1, <1>2
<1> QED
  BY <1>2, <1>3 DEF Given

\* A step that grants nothing, gives nothing back, and takes away no entry that
\* is not a cooldown old.
Harmless ==
  /\ GivenStays /\ now' >= now /\ now' \in Nat
  /\ \A r \in Requests : Counts(req[r])' =>
       /\ Counts(req[r]) /\ req'[r].time = req[r].time
       /\ req'[r].to = req[r].to /\ req'[r].ip = req[r].ip
  /\ \A f \in Kinds : \A k \in KeysOf(f) :
       \/ Last(f)'[k] = Last(f)[k]
       \/ Last(f)[k] = Free
       \/ Last(f)[k] # Free /\ now - Last(f)[k] >= Cooldown

LEMMA HarmlessKeeps ==
  ASSUME Typed, CooldownInv, Harmless
  PROVE  CooldownInv'
<1>0. Requests' = Requests /\ now \in Nat /\ Cooldown \in Nat
  BY LimiterAssumption DEF Requests, Typed
<1>1. ASSUME NEW f \in Kinds, NEW r \in Requests, Counts(req[r])'
      PROVE  /\ Counts(req[r]) /\ req'[r].time = req[r].time
             /\ KeyOf(f, req'[r]) = KeyOf(f, req[r])
             /\ KeyOf(f, req[r]) \in KeysOf(f)
             /\ req[r].time \in Nat
  <2>1. /\ Counts(req[r]) /\ req'[r].time = req[r].time
        /\ req'[r].to = req[r].to /\ req'[r].ip = req[r].ip
    BY <1>1 DEF Harmless
  <2>2. req[r] \in TakenUp /\ req[r].time \in Nat
    BY <2>1, CountsTyped
  <2> QED
    BY <2>1, <2>2, KeyTyped DEF KeyOf
<1>2. ASSUME NEW f \in Kinds, NEW r \in Requests, Counts(req[r])'
      PROVE  Kept(f, KeyOf(f, req[r]), req[r].time)'
  <2>1. PICK k \in KeysOf(f) : k = KeyOf(f, req[r]) /\ k = KeyOf(f, req'[r])
    BY <1>1, <1>2
  <2>2. PICK t \in Nat : t = req[r].time /\ t = req'[r].time
    BY <1>1, <1>2
  <2>3. Kept(f, k, t)
    BY <1>1, <1>2, <2>1, <2>2 DEF CooldownInv, AllKept
  <2>4. Kept(f, k, t)'
    <3>1. CASE Given(f, k, t)
      BY <3>1, GivenKept DEF Harmless, Kept
    <3>2. CASE now - t >= Cooldown
      <4>1. now' - t >= Cooldown
        BY <1>0, <3>2 DEF Harmless
      <4> QED
        BY <4>1 DEF Kept
    <3>3. CASE Last(f)[k] # Free /\ Last(f)[k] >= t
      <4>1. Last(f)[k] \in Nat
        BY <3>3, LastTyped DEF Entries
      <4>2. CASE Last(f)'[k] = Last(f)[k]
        BY <3>3, <4>2 DEF Kept
      <4>3. CASE now - Last(f)[k] >= Cooldown
        <5>1. now' - t >= Cooldown
          BY <1>0, <3>3, <4>1, <4>3 DEF Harmless
        <5> QED
          BY <5>1 DEF Kept
      <4> QED
        BY <3>3, <4>2, <4>3 DEF Harmless
    <3> QED
      BY <2>3, <3>1, <3>2, <3>3 DEF Kept
  <2> QED
    BY <2>1, <2>2, <2>4
<1>3. ASSUME NEW f \in Kinds PROVE Spaced(f)'
  <2> SUFFICES ASSUME NEW r \in Requests, NEW s \in Requests,
                      r # s, Counts(req[r])', Counts(req[s])',
                      KeyOf(f, req'[r]) = KeyOf(f, req'[s]),
                      req'[s].time - req'[r].time \in 0 .. Cooldown - 1
               PROVE  Given(f, KeyOf(f, req[r]), req[r].time)'
    BY <1>0 DEF Spaced
  <2>1. Given(f, KeyOf(f, req[r]), req[r].time)
    BY <1>1 DEF CooldownInv, Spaced
  <2>2. PICK k, t : k = KeyOf(f, req[r]) /\ t = req[r].time
    OBVIOUS
  <2>3. k = KeyOf(f, req'[r]) /\ t = req'[r].time
    BY <1>1, <2>2
  <2>4. Given(f, k, t)'
    BY <2>1, <2>2, GivenKept DEF Harmless
  <2> QED
    BY <2>3, <2>4
<1> QED
  BY <1>0, <1>2, <1>3 DEF CooldownInv, AllKept

LEMMA StillHarmless ==
  ASSUME Typed, Still \/ Tick
  PROVE  Harmless
<1>1. UNCHANGED <<life, memory, req>> /\ now \in Nat /\ (now' = now \/ now' = now + 1)
  BY DEF Still, Tick, Typed
<1> QED
  BY <1>1 DEF Harmless, GivenStays, Counts, Last, memory

LEMMA MoveHarmless ==
  ASSUME Typed, NEW r \in Requests, NEW step \in {"queued", "wait", "ok", "burnt"},
         Moves(r, step), UNCHANGED <<now, life, memory>>
  PROVE  Harmless
<1>1. /\ req[r] \in TakenUp /\ Counts(req[r]) /\ req[r].at # "failed"
      /\ req'[r] = [req[r] EXCEPT !.at = step]
  BY InFlightTakenUp DEF Moves, Counts, InFlight
<1>2. /\ req'[r].time = req[r].time /\ req'[r].to = req[r].to
      /\ req'[r].ip = req[r].ip
  BY <1>1 DEF TakenUp
<1>3. \A s \in Requests \ {r} : req'[s] = req[s]
  BY DEF Moves
<1>4. ASSUME NEW s \in Requests, Counts(req[s])'
      PROVE  /\ Counts(req[s]) /\ req'[s].time = req[s].time
             /\ req'[s].to = req[s].to /\ req'[s].ip = req[s].ip
  <2>1. CASE s = r
    BY <1>1, <1>2, <2>1
  <2>2. CASE s # r
    BY <1>3, <1>4, <2>2 DEF Counts
  <2> QED
    BY <2>1, <2>2
<1>5. now \in Nat /\ UNCHANGED <<byAddress, byIp>>
  BY DEF Typed, memory
<1> QED
  BY <1>1, <1>3, <1>4, <1>5 DEF Harmless, GivenStays, Last

\* A refused request leaves no entry that it took, and takes none away but one
\* that is a cooldown old.
LEMMA TryLeaves ==
  ASSUME NEW Keys, NEW last \in Entries(Keys), NEW k \in Keys, NEW t \in Nat,
         CanAcquire(last, k, t), NEW j \in Keys
  PROVE  \/ Released(Acquired(last, k, t), k)[j] = last[j]
         \/ last[j] = Free
         \/ last[j] # Free /\ t - last[j] >= Cooldown
<1>1. Acquired(last, k, t) \in Entries(Keys)
  BY AcquiredIs
<1>2. CASE j = k
  <2>1. last[k] = Free \/ t - last[k] >= Cooldown
    BY CanAcquireIs
  <2> QED
    BY <1>2, <2>1
<1>3. CASE j # k
  <2>1. \/ Acquired(last, k, t)[j] = last[j]
        \/ last[j] # Free /\ t - last[j] >= Cooldown
    BY <1>3, AcquiredIs
  <2>2. Released(Acquired(last, k, t), k)[j] = Acquired(last, k, t)[j]
    BY <1>1, <1>3, ReleasedIs
  <2> QED
    BY <2>1, <2>2
<1> QED
  BY <1>2, <1>3

LEMMA RefuseHarmless ==
  ASSUME Typed, NEW r \in Requests, NEW ask \in Asks, Refuse(r, ask[1], ask[2])
  PROVE  Harmless
<1>1. /\ byAddress \in Entries(Addresses) /\ byIp \in Entries(Ips) /\ now \in Nat
      /\ DOMAIN req = Requests /\ ask[1] \in Addresses /\ ask[2] \in Ips
  BY AsksTyped DEF Typed
<1>2. /\ \A s \in Requests \ {r} : req'[s] = req[s]
      /\ req'[r] = [at |-> "refused"] /\ UNCHANGED <<now, life>>
      /\ req[r].at # "failed"
  BY <1>1 DEF Refuse, Arrives, At
<1>3. ASSUME NEW j \in Addresses
      PROVE  \/ byAddress'[j] = byAddress[j]
             \/ byAddress[j] = Free
             \/ byAddress[j] # Free /\ now - byAddress[j] >= Cooldown
  <2>1. \/ byAddress' = byAddress
        \/ /\ CanAcquire(byAddress, ask[1], now)
           /\ byAddress' = Released(Acquired(byAddress, ask[1], now), ask[1])
    BY DEF Refuse, memory
  <2> QED
    BY <1>1, <2>1, TryLeaves
<1>4. ASSUME NEW j \in Ips
      PROVE  \/ byIp'[j] = byIp[j]
             \/ byIp[j] = Free
             \/ byIp[j] # Free /\ now - byIp[j] >= Cooldown
  <2>1. \/ byIp' = byIp
        \/ /\ CanAcquire(byIp, ask[2], now)
           /\ byIp' = Released(Acquired(byIp, ask[2], now), ask[2])
    BY DEF Refuse, memory
  <2> QED
    BY <1>1, <2>1, TryLeaves
<1>5. \A s \in Requests : Counts(req[s])' => s # r
  BY <1>2 DEF Counts
<1>6. \A s \in Requests : Counts(req[s])' => Counts(req[s]) /\ req'[s] = req[s]
  BY <1>2, <1>5 DEF Counts
<1>7. \A f \in Kinds : \A k \in KeysOf(f) :
        \/ Last(f)'[k] = Last(f)[k]
        \/ Last(f)[k] = Free
        \/ Last(f)[k] # Free /\ now - Last(f)[k] >= Cooldown
  BY <1>3, <1>4 DEF Kinds, KeysOf, Last
<1>8. GivenStays
  BY <1>2 DEF GivenStays
<1> QED
  BY <1>1, <1>2, <1>6, <1>7, <1>8 DEF Harmless

\* What is kept of a drip outlasts every step that keeps roll-backs, unless its
\* entry goes.
LEMMA KeptOn ==
  ASSUME Typed, GivenStays, now' \in Nat, now' >= now,
         NEW f \in Kinds, NEW k \in KeysOf(f), NEW t \in Nat, Kept(f, k, t),
         \/ Last(f)'[k] = Last(f)[k]
         \/ Last(f)'[k] # Free /\ Last(f)'[k] >= t
         \/ Last(f)[k] = Free
         \/ Last(f)[k] # Free /\ now - Last(f)[k] >= Cooldown
  PROVE  Kept(f, k, t)'
<1>0. now \in Nat /\ Cooldown \in Nat
  BY LimiterAssumption DEF Typed
<1>1. CASE Given(f, k, t)
  BY <1>1, GivenKept DEF Kept
<1>2. CASE now - t >= Cooldown
  <2>1. now' - t >= Cooldown
    BY <1>0, <1>2
  <2> QED
    BY <2>1 DEF Kept
<1>3. CASE Last(f)[k] # Free /\ Last(f)[k] >= t
  <2>1. Last(f)[k] \in Nat
    BY <1>3, LastTyped DEF Entries
  <2>2. CASE Last(f)'[k] = Last(f)[k]
    BY <1>3, <2>2 DEF Kept
  <2>3. CASE now - Last(f)[k] >= Cooldown
    <3>1. now' - t >= Cooldown
      BY <1>0, <1>3, <2>1, <2>3
    <3> QED
      BY <3>1 DEF Kept
  <2>4. CASE Last(f)'[k] # Free /\ Last(f)'[k] >= t
    BY <2>4 DEF Kept
  <2> QED
    BY <1>3, <2>2, <2>3, <2>4
<1> QED
  BY <1>1, <1>2, <1>3 DEF Kept

\* A new drip: the entry of its key was free or a cooldown old, so each drip
\* within the cooldown before it has been given away.
LEMMA AcceptKeeps ==
  ASSUME Typed, CooldownInv,
         NEW r \in Requests, NEW ask \in Asks, Accept(r, ask[1], ask[2])
  PROVE  CooldownInv'
<1>1. /\ byAddress \in Entries(Addresses) /\ byIp \in Entries(Ips) /\ now \in Nat
      /\ DOMAIN req = Requests /\ ask[1] \in Addresses /\ ask[2] \in Ips
      /\ Cooldown \in Nat /\ Requests' = Requests
  BY AsksTyped, LimiterAssumption DEF Typed, Requests
<1>2. /\ \A s \in Requests \ {r} : req'[s] = req[s]
      /\ req'[r].to = ask[1] /\ req'[r].ip = ask[2] /\ req'[r].time = now
      /\ UNCHANGED <<now, life>> /\ req[r].at = "new"
  BY <1>1 DEF Accept, Arrives, At
<1>3. GivenStays
  BY <1>2 DEF GivenStays
<1>4. ASSUME NEW f \in Kinds
      PROVE  \E k \in KeysOf(f) :
               /\ KeyOf(f, req'[r]) = k
               /\ Last(f)'[k] = now
               /\ Last(f)[k] = Free \/ now - Last(f)[k] >= Cooldown
               /\ \A j \in KeysOf(f) \ {k} :
                    \/ Last(f)'[j] = Last(f)[j]
                    \/ Last(f)[j] # Free /\ now - Last(f)[j] >= Cooldown
  <2>1. CASE f = "to"
    <3>1. byAddress' = Acquired(byAddress, ask[1], now)
      BY DEF Accept
    <3>2. CanAcquire(byAddress, ask[1], now)
      BY DEF Accept
    <3>3. byAddress[ask[1]] = Free \/ now - byAddress[ask[1]] >= Cooldown
      BY <1>1, <3>2, CanAcquireIs
    <3>4. byAddress \in Entries(Addresses) /\ ask[1] \in Addresses /\ now \in Nat
      BY <1>1
    <3>5. /\ byAddress'[ask[1]] = now
          /\ \A j \in Addresses \ {ask[1]} :
               \/ byAddress'[j] = byAddress[j]
               \/ byAddress[j] # Free /\ now - byAddress[j] >= Cooldown
      <4>1. PICK k \in Addresses : k = ask[1]
        BY <3>4
      <4>2. /\ Acquired(byAddress, k, now)[k] = now
            /\ \A j \in Addresses \ {k} :
                 \/ Acquired(byAddress, k, now)[j] = byAddress[j]
                 \/ byAddress[j] # Free /\ now - byAddress[j] >= Cooldown
        BY ONLY <3>4, <4>1, AcquiredIs
      <4> QED
        BY <3>1, <4>1, <4>2
    <3> QED
      BY <1>1, <1>2, <2>1, <3>3, <3>5 DEF KeysOf, KeyOf, Last
  <2>2. CASE f = "ip"
    <3>1. byIp' = Acquired(byIp, ask[2], now)
      BY DEF Accept
    <3>2. CanAcquire(byIp, ask[2], now)
      BY DEF Accept
    <3>3. byIp[ask[2]] = Free \/ now - byIp[ask[2]] >= Cooldown
      BY <1>1, <3>2, CanAcquireIs
    <3>4. byIp \in Entries(Ips) /\ ask[2] \in Ips /\ now \in Nat
      BY <1>1
    <3>5. /\ byIp'[ask[2]] = now
          /\ \A j \in Ips \ {ask[2]} :
               \/ byIp'[j] = byIp[j]
               \/ byIp[j] # Free /\ now - byIp[j] >= Cooldown
      <4>1. PICK k \in Ips : k = ask[2]
        BY <3>4
      <4>2. /\ Acquired(byIp, k, now)[k] = now
            /\ \A j \in Ips \ {k} :
                 \/ Acquired(byIp, k, now)[j] = byIp[j]
                 \/ byIp[j] # Free /\ now - byIp[j] >= Cooldown
        BY ONLY <3>4, <4>1, AcquiredIs
      <4> QED
        BY <3>1, <4>1, <4>2
    <3> QED
      BY <1>1, <1>2, <2>2, <3>3, <3>5 DEF KeysOf, KeyOf, Last
  <2> QED
    BY <2>1, <2>2 DEF Kinds
<1>5. ASSUME NEW f \in Kinds, NEW s \in Requests \ {r}, Counts(req[s])'
      PROVE  /\ req'[s] = req[s] /\ Counts(req[s]) /\ req[s].time \in Nat
             /\ req[s].time <= now /\ KeyOf(f, req[s]) \in KeysOf(f)
             /\ Kept(f, KeyOf(f, req[s]), req[s].time)
  <2>1. req'[s] = req[s] /\ Counts(req[s])
    BY <1>2, <1>5 DEF Counts
  <2>2. req[s] \in TakenUp /\ req[s].time \in Nat /\ req[s].time <= now
    BY <2>1, CountsTyped
  <2> QED
    BY <2>1, <2>2, KeyTyped DEF CooldownInv, AllKept
<1>6. ASSUME NEW f \in Kinds, NEW s \in Requests, Counts(req[s])'
      PROVE  Kept(f, KeyOf(f, req[s]), req[s].time)'
  <2>1. PICK k \in KeysOf(f) :
          /\ KeyOf(f, req'[r]) = k /\ Last(f)'[k] = now
          /\ \A j \in KeysOf(f) \ {k} :
               \/ Last(f)'[j] = Last(f)[j]
               \/ Last(f)[j] # Free /\ now - Last(f)[j] >= Cooldown
    BY <1>4
  <2>2. CASE s = r
    <3>1. now # Free /\ now >= now
      BY <1>1, LimiterAssumption
    <3>2. Kept(f, k, now)'
      BY <1>2, <2>1, <3>1 DEF Kept
    <3>3. KeyOf(f, req[s])' = k /\ (req[s].time)' = now'
      BY <1>2, <2>1, <2>2 DEF KeyOf
    <3> QED
      BY <1>1, <1>2, <2>1, <2>2, <3>1 DEF Kept
  <2>3. CASE s # r
    <3>1. PICK j \in KeysOf(f), t \in Nat :
            /\ j = KeyOf(f, req[s]) /\ j = KeyOf(f, req'[s])
            /\ t = req[s].time /\ t = req'[s].time /\ t <= now
            /\ Kept(f, j, t)
      BY <1>5, <1>6, <2>3
    <3>2. \/ Last(f)'[j] = Last(f)[j]
          \/ Last(f)'[j] # Free /\ Last(f)'[j] >= t
          \/ Last(f)[j] # Free /\ now - Last(f)[j] >= Cooldown
      <4>1. now # Free
        BY <1>1, LimiterAssumption
      <4> QED
        BY <2>1, <3>1, <4>1
    <3>3. Kept(f, j, t)'
      BY <1>1, <1>2, <1>3, <3>1, <3>2, KeptOn
    <3> QED
      BY <3>1, <3>3
  <2> QED
    BY <2>2, <2>3
<1>7. ASSUME NEW f \in Kinds, NEW k \in KeysOf(f), KeyOf(f, req'[r]) = k,
             NEW s \in Requests \ {r}, Counts(req[s])', KeyOf(f, req'[s]) = k,
             now - req[s].time < Cooldown
      PROVE  Given(f, k, req[s].time)'
  <2>1. Last(f)[k] = Free \/ now - Last(f)[k] >= Cooldown
    BY <1>4, <1>7
  <2>2. PICK t \in Nat : t = req[s].time /\ Kept(f, k, t) /\ now - t < Cooldown
    BY <1>5, <1>7
  <2>3. Last(f)[k] \in Nat \cup {Free}
    BY LastTyped DEF Entries
  <2>4. ~(Last(f)[k] # Free /\ Last(f)[k] >= t)
    BY <1>1, <2>1, <2>2, <2>3
  <2>5. Given(f, k, t)
    BY <1>1, <2>2, <2>4 DEF Kept
  <2>6. Given(f, k, t)'
    BY <1>3, <2>5, GivenKept
  <2>7. (req[s].time)' = t
    BY <1>2, <2>2
  <2> QED
    BY <2>6, <2>7
<1>8. ASSUME NEW f \in Kinds PROVE Spaced(f)'
  <2> SUFFICES ASSUME NEW x \in Requests, NEW y \in Requests,
                      x # y, Counts(req[x])', Counts(req[y])',
                      KeyOf(f, req'[x]) = KeyOf(f, req'[y]),
                      req'[y].time - req'[x].time \in 0 .. Cooldown - 1
               PROVE  Given(f, KeyOf(f, req[x]), req[x].time)'
    BY <1>1 DEF Spaced
  <2>1. PICK k \in KeysOf(f) : KeyOf(f, req'[r]) = k
    BY <1>4
  <2>2. CASE x # r /\ y # r
    <3>1. Given(f, KeyOf(f, req[x]), req[x].time)
      BY <1>5, <2>2 DEF CooldownInv, Spaced
    <3>2. PICK j, t : j = KeyOf(f, req[x]) /\ t = req[x].time
      OBVIOUS
    <3>3. j = KeyOf(f, req'[x]) /\ t = req'[x].time
      BY <1>5, <2>2, <3>2
    <3>4. Given(f, j, t)'
      BY <1>3, <3>1, <3>2, GivenKept
    <3> QED
      BY <3>3, <3>4
  <2>3. CASE y = r
    <3>1. now - req[x].time < Cooldown /\ x # r
      BY <1>1, <1>2, <1>5, <2>3
    <3>2. KeyOf(f, req'[x]) = k
      BY <2>1, <2>3
    <3>3. Given(f, k, req[x].time)'
      BY <1>7, <2>1, <3>1, <3>2
    <3> QED
      BY <3>2, <3>3
  <2>4. CASE x = r
    <3>1. y # r /\ req[y].time = now /\ now - req[y].time < Cooldown
      BY <1>1, <1>2, <1>5, <2>4
    <3>2. KeyOf(f, req'[y]) = k /\ KeyOf(f, req'[x]) = k
      BY <2>1, <2>4
    <3>3. Given(f, k, req[y].time)'
      BY <1>7, <2>1, <3>1, <3>2
    <3>4. req'[y].time = req'[x].time
      BY <1>2, <2>4, <3>1
    <3> QED
      BY <3>2, <3>3, <3>4
  <2> QED
    BY <2>2, <2>3, <2>4
<1> QED
  BY <1>1, <1>6, <1>8 DEF CooldownInv, AllKept

\* A roll-back: the drips whose entry it gives away are those that came while
\* it was under way; it outstayed the cooldown of the one, or was itself
\* within the cooldown of the other, and then had been let past another.
LEMMA RollBackKeeps ==
  ASSUME Typed, CooldownInv, NEW q \in Requests, RollsBack(q), UNCHANGED <<now, life>>
  PROVE  CooldownInv'
<1>1. /\ byAddress \in Entries(Addresses) /\ byIp \in Entries(Ips) /\ now \in Nat
      /\ Cooldown \in Nat /\ Requests' = Requests
  BY LimiterAssumption DEF Typed, Requests
<1>2. /\ req[q] \in TakenUp /\ Counts(req[q]) /\ req[q].at # "failed"
      /\ req[q].time \in Nat /\ req[q].time <= now /\ req[q].life = life
  BY InFlightTakenUp DEF RollsBack, Counts, InFlight, TakenUp
<1>3. /\ req'[q].at = "failed" /\ req'[q].back = now /\ req'[q].time = req[q].time
      /\ req'[q].to = req[q].to /\ req'[q].ip = req[q].ip /\ req'[q].life = life'
  <2>1. req'[q] = [req[q] EXCEPT !.at = "failed", !.back = now]
    BY DEF RollsBack
  <2> QED
    BY <1>2, <2>1 DEF TakenUp
<1>4. \A s \in Requests \ {q} : req'[s] = req[s]
  BY DEF RollsBack
<1>5. GivenStays
  BY <1>2, <1>4 DEF GivenStays
<1>6. ASSUME NEW f \in Kinds
      PROVE  \A j \in KeysOf(f) \ {KeyOf(f, req[q])} : Last(f)'[j] = Last(f)[j]
  <2>1. req[q].to \in Addresses /\ req[q].ip \in Ips
    BY <1>2 DEF TakenUp
  <2>2. /\ byAddress' = Released(byAddress, req[q].to)
        /\ byIp' = Released(byIp, req[q].ip)
    BY DEF RollsBack, GiveBack
  <2>3. /\ \A j \in Addresses \ {req[q].to} : byAddress'[j] = byAddress[j]
        /\ \A j \in Ips \ {req[q].ip} : byIp'[j] = byIp[j]
    BY <1>1, <2>1, <2>2, ReleasedIs
  <2> QED
    BY <2>3 DEF Kinds, KeysOf, KeyOf, Last
<1>7. ASSUME NEW f \in Kinds, NEW s \in Requests, Counts(req[s])'
      PROVE  /\ s # q /\ req'[s] = req[s] /\ Counts(req[s])
             /\ req[s].time \in Nat /\ req[s].time <= now
             /\ KeyOf(f, req[s]) \in KeysOf(f)
             /\ Kept(f, KeyOf(f, req[s]), req[s].time)
  <2>1. s # q
    BY <1>3, <1>7 DEF Counts
  <2>2. req'[s] = req[s] /\ Counts(req[s])
    BY <1>4, <1>7, <2>1 DEF Counts
  <2>3. req[s] \in TakenUp /\ req[s].time \in Nat /\ req[s].time <= now
    BY <2>2, CountsTyped
  <2> QED
    BY <2>1, <2>2, <2>3, KeyTyped DEF CooldownInv, AllKept
<1>8. ASSUME NEW f \in Kinds, NEW s \in Requests, Counts(req[s])',
             KeyOf(f, req[s]) = KeyOf(f, req[q]), now - req[s].time < Cooldown
      PROVE  Given(f, KeyOf(f, req[s]), req[s].time)'
  <2>1. PICK k \in KeysOf(f), t \in Nat :
          /\ k = KeyOf(f, req[s]) /\ k = KeyOf(f, req'[s]) /\ k = KeyOf(f, req[q])
          /\ t = req[s].time /\ t = req'[s].time /\ t <= now /\ now - t < Cooldown
    BY <1>7, <1>8
  <2>2. KeyOf(f, req'[q]) = k
    BY <1>3, <2>1 DEF KeyOf
  <2>3. s # q /\ Counts(req[s])
    BY <1>7, <1>8
  <2>4. Given(f, k, t)'
    <3>1. CASE t < req[q].time
      <4>1. req[q].time - req[s].time \in 0 .. Cooldown - 1
        BY <1>1, <1>2, <2>1, <3>1
      <4>2. Given(f, k, t)
        BY <1>2, <2>1, <2>3, <4>1 DEF CooldownInv, Spaced
      <4> QED
        BY <1>5, <4>2, GivenKept
    <3>2. CASE t >= req[q].time + Cooldown
      <4>1. Gives(req'[q], req'[q], f, k, t, life')
        BY <1>1, <1>2, <1>3, <2>1, <2>2, <3>2 DEF Gives
      <4> QED
        BY <1>1, <4>1 DEF Given
    <3>3. CASE t >= req[q].time /\ t < req[q].time + Cooldown
      <4>1. req[s].time - req[q].time \in 0 .. Cooldown - 1
        BY <1>1, <1>2, <2>1, <3>3
      <4>2. Given(f, k, req[q].time)
        BY <1>2, <2>1, <2>3, <4>1 DEF CooldownInv, Spaced
      <4>3. PICK g \in Requests, p \in Requests :
              Gives(req[g], req[p], f, k, req[q].time, life)
        BY <4>2 DEF Given
      <4>4. req'[p] = req[p] /\ life' = life
        BY <1>5, <4>3 DEF Gives, GivenStays
      <4>5. req[p].time + Cooldown <= t
        <5>1. req[p].time \in Nat
          <6>1. ReqOK(req[p], now, life) /\ req[p].at = "failed"
            BY <4>3 DEF Typed, Gives
          <6> QED
            BY <6>1 DEF ReqOK, New, TakenUp
        <5> QED
          BY <1>1, <1>2, <3>3, <4>3, <5>1 DEF Gives
      <4>6. Gives(req'[q], req'[p], f, k, t, life')
        BY <1>1, <1>3, <2>1, <2>2, <3>3, <4>3, <4>4, <4>5 DEF Gives
      <4> QED
        BY <1>1, <4>6 DEF Given
    <3> QED
      BY <1>1, <1>2, <2>1, <3>1, <3>2, <3>3
  <2> QED
    BY <2>1, <2>4
<1>9. ASSUME NEW f \in Kinds, NEW s \in Requests, Counts(req[s])'
      PROVE  Kept(f, KeyOf(f, req[s]), req[s].time)'
  <2>1. PICK j \in KeysOf(f), t \in Nat :
          /\ j = KeyOf(f, req[s]) /\ j = KeyOf(f, req'[s])
          /\ t = req[s].time /\ t = req'[s].time /\ t <= now
          /\ Kept(f, j, t)
    BY <1>7, <1>9
  <2>2. CASE j # KeyOf(f, req[q])
    <3>1. Last(f)'[j] = Last(f)[j]
      BY <1>6, <2>1, <2>2
    <3>2. Kept(f, j, t)'
      BY <1>1, <1>5, <2>1, <3>1, KeptOn
    <3> QED
      BY <2>1, <3>2
  <2>3. CASE j = KeyOf(f, req[q]) /\ now - t < Cooldown
    BY <1>8, <1>9, <2>1, <2>3 DEF Kept
  <2>4. CASE now - t >= Cooldown
    <3>1. Kept(f, j, t)'
      BY <2>4 DEF Kept
    <3> QED
      BY <2>1, <3>1
  <2> QED
    BY <1>1, <2>1, <2>2, <2>3, <2>4
<1>10. ASSUME NEW f \in Kinds PROVE Spaced(f)'
  <2> SUFFICES ASSUME NEW x \in Requests, NEW y \in Requests,
                      x # y, Counts(req[x])', Counts(req[y])',
                      KeyOf(f, req'[x]) = KeyOf(f, req'[y]),
                      req'[y].time - req'[x].time \in 0 .. Cooldown - 1
               PROVE  Given(f, KeyOf(f, req[x]), req[x].time)'
    BY <1>1 DEF Spaced
  <2>1. Given(f, KeyOf(f, req[x]), req[x].time)
    BY <1>7 DEF CooldownInv, Spaced
  <2>2. PICK j, t : j = KeyOf(f, req[x]) /\ t = req[x].time
    OBVIOUS
  <2>3. j = KeyOf(f, req'[x]) /\ t = req'[x].time
    BY <1>7, <2>2
  <2>4. Given(f, j, t)'
    BY <1>5, <2>1, <2>2, GivenKept
  <2> QED
    BY <2>3, <2>4
<1> QED
  BY <1>1, <1>9, <1>10 DEF CooldownInv, AllKept

\* No request counts in the life of the process that begins.
LEMMA RestartClears ==
  ASSUME Typed, Restart, NEW r \in Requests
  PROVE  ~Counts(req[r])'
<1>1. req'[r] = IF InFlight(r) THEN [req[r] EXCEPT !.at = "lost"] ELSE req[r]
  BY DEF Restart
<1>2. CASE InFlight(r)
  <2>1. req[r] \in TakenUp
    BY <1>2, InFlightTakenUp
  <2>2. req'[r].at = "lost"
    BY <1>1, <1>2, <2>1 DEF TakenUp
  <2> QED
    BY <2>2 DEF Counts
<1>3. CASE ~InFlight(r)
  <2>1. ReqOK(req[r], now, life) /\ life \in Nat /\ life' = life + 1
    BY DEF Typed, Restart
  <2>2. CASE req[r] \in TakenUp
    BY <1>1, <1>3, <2>1, <2>2 DEF Counts, ReqOK, TakenUp, New
  <2>3. CASE req[r] = New \/ req[r] = [at |-> "refused"]
    BY <1>1, <1>3, <2>3 DEF Counts, New
  <2> QED
    BY <2>1, <2>2, <2>3 DEF ReqOK
<1> QED
  BY <1>2, <1>3

\* A restart forgets the drips with the limiters.
LEMMA RestartKeeps ==
  ASSUME Typed, Restart
  PROVE  CooldownInv'
<1>1. \A r \in Requests : ~Counts(req[r])'
  BY RestartClears
<1>2. Requests' = Requests
  BY DEF Requests
<1> QED
  BY <1>1, <1>2 DEF CooldownInv, AllKept, Spaced

LEMMA InitCooldown == Init => CooldownInv
BY DEF Init, CooldownInv, AllKept, Spaced, Counts, New

LEMMA NextCooldown == Typed /\ CooldownInv /\ [Next]_vars => CooldownInv'
<1> SUFFICES ASSUME Typed, CooldownInv, [Next]_vars PROVE CooldownInv'
  OBVIOUS
<1>1. ASSUME NEW r \in Requests, NEW ask \in Asks, Refuse(r, ask[1], ask[2])
      PROVE  CooldownInv'
  BY <1>1, RefuseHarmless, HarmlessKeeps
<1>2. ASSUME NEW r \in Requests, NEW step \in {"queued", "wait", "ok", "burnt"},
             Moves(r, step), UNCHANGED <<now, life, memory>>
      PROVE  CooldownInv'
  BY <1>2, MoveHarmless, HarmlessKeeps
<1>3. CASE Still \/ Tick
  BY <1>3, StillHarmless, HarmlessKeeps
<1> QED
  BY <1>1, <1>2, <1>3, AcceptKeeps, RollBackKeeps, RestartKeeps, StepKinds

LEMMA CooldownSuffices ==
  ASSUME Typed, CooldownInv
  PROVE  OncePerCooldown
<1> SUFFICES ASSUME NEW r \in Requests, NEW s \in Requests,
                    r # s, Granted(r), Granted(s), SameKey(r, s),
                    req[s].time - req[r].time \in 0 .. Cooldown - 1
             PROVE  \E q, p \in Requests \ {r, s} :
                      GaveAway(q, r) /\ SameKey(q, r) /\ Outstayed(p, r) /\ SameKey(p, r)
  BY DEF OncePerCooldown
<1>1. Counts(req[r]) /\ Counts(req[s])
  BY DEF Granted, Counts, InFlight, At
<1>2. PICK f \in Kinds : KeyOf(f, req[r]) = KeyOf(f, req[s])
  BY DEF SameKey, Kinds, KeyOf
<1>3. Given(f, KeyOf(f, req[r]), req[r].time)
  BY <1>1, <1>2 DEF CooldownInv, Spaced
<1>4. PICK q \in Requests, p \in Requests :
        Gives(req[q], req[p], f, KeyOf(f, req[r]), req[r].time, life)
  BY <1>3 DEF Given
<1>5. {q, p} \cap {r, s} = {}
  BY <1>1, <1>4 DEF Gives, Counts
<1>6. SameKey(q, r) /\ SameKey(p, r)
  BY <1>4 DEF Gives, KeyOf, SameKey
<1> QED
  BY <1>4, <1>5, <1>6 DEF Gives, GaveAway, Outstayed, GivenBack, At

\* ratelimit.js 15-31, server.js 70-79: however many requests overlap, fail and
\* are tried again, the drips of an address and of a client are a cooldown
\* apart, unless entries were given away by roll-backs that began with a
\* request that had outstayed its own cooldown.
THEOREM DripsStaySpaced == Spec => []OncePerCooldown
<1>1. Init => Typed /\ CooldownInv
  BY InitTyped, InitCooldown
<1>2. Typed /\ CooldownInv /\ [Next]_vars => (Typed /\ CooldownInv)'
  BY NextTyped, NextCooldown
<1>3. Typed /\ CooldownInv => OncePerCooldown
  BY CooldownSuffices
<1> QED
  BY <1>1, <1>2, <1>3, PTL DEF Spec

-----------------------------------------------------------------------------
(* The budget of a day                                                     *)

LEMMA TodayGrows ==
  ASSUME NEW t \in Nat, NEW u \in Nat, t <= u
  PROVE  Today(t) <= Today(u)
BY FaucetAssumption DEF Today

LEMMA RequestsFinite == IsFiniteSet(Requests)
BY FaucetAssumption, FS_Interval DEF Requests

LEMMA SubsetCard ==
  ASSUME NEW T \in SUBSET Requests, NEW S \in SUBSET T
  PROVE  Cardinality(S) \in Nat /\ Cardinality(T) \in Nat
         /\ Cardinality(S) <= Cardinality(T)
<1>1. IsFiniteSet(T)
  BY RequestsFinite, FS_Subset
<1> QED
  BY <1>1, FS_Subset, FS_CardinalityType

LEMMA AddCard ==
  ASSUME NEW S \in SUBSET Requests, NEW x \in Requests \ S
  PROVE  Cardinality(S \cup {x}) = Cardinality(S) + 1
<1>1. IsFiniteSet(S)
  BY RequestsFinite, FS_Subset
<1> QED
  BY <1>1, FS_AddElement

LEMMA DropCard ==
  ASSUME NEW S \in SUBSET Requests, NEW x \in S
  PROVE  Cardinality(S \ {x}) = Cardinality(S) - 1
<1>1. IsFiniteSet(S)
  BY RequestsFinite, FS_Subset
<1> QED
  BY <1>1, FS_RemoveElement

\* What the count of the day may count: drips granted, and requests lost to a
\* failed query.
Bills(x, l) == x.at \in {"balance", "queued", "wait", "ok", "burnt"} /\ x.life = l
Billed(day) == {r \in Requests : Bills(req[r], life) /\ Today(req[r].time) = day}

LEMMA BudgetIs ==
  BudgetHolds <=>
    /\ Cardinality(GrantedOn(dripDay))
         <= dripCountToday + Cardinality(LateReturns(dripDay))
    /\ dripCountToday <= DAILY_GLOBAL_MAX
    /\ dripCountToday <= Cardinality(Billed(dripDay))
<1>1. Billed(dripDay) =
        GrantedOn(dripDay) \cup {r \in Requests : At(r, "burnt") /\ req[r].life = life
                                                  /\ Today(req[r].time) = dripDay}
  BY DEF Billed, Bills, GrantedOn, Granted, InFlight, At
<1> QED
  BY <1>1 DEF BudgetHolds

LEMMA BudgetNext ==
  BudgetHolds' <=>
    /\ Cardinality(GrantedOn(dripDay)')
         <= dripCountToday' + Cardinality(LateReturns(dripDay)')
    /\ dripCountToday' <= DAILY_GLOBAL_MAX
    /\ dripCountToday' <= Cardinality(Billed(dripDay)')
<1>1. Billed(dripDay)' =
        (GrantedOn(dripDay) \cup {r \in Requests : At(r, "burnt") /\ req[r].life = life
                                                  /\ Today(req[r].time) = dripDay})'
  BY DEF Billed, Bills, GrantedOn, Granted, InFlight, At
<1> QED
  BY <1>1 DEF BudgetHolds

LEMMA GrantedOnIs ==
  ASSUME NEW day
  PROVE  GrantedOn(day) = {r \in Requests : Counts(req[r]) /\ Today(req[r].time) = day}
BY DEF GrantedOn, Granted, Counts, InFlight, At

\* The day of the count is past or present, and no drip is of a later one.
DayInv ==
  /\ dripDay <= Today(now)
  /\ \A r \in Requests : Counts(req[r]) => Today(req[r].time) <= dripDay

\* A step that grants nothing, gives nothing back and loses nothing but to a
\* failed query.
Quiet ==
  /\ life' = life /\ now' \in Nat /\ now' >= now
  /\ \A s \in Requests :
       /\ Counts(req[s])' => Counts(req[s]) /\ req'[s].time = req[s].time
       /\ Bills(req'[s], life) <=> Bills(req[s], life)
       /\ Bills(req[s], life) => req'[s].time = req[s].time
       /\ req'[s].at = "failed" <=> req[s].at = "failed"
       /\ req[s].at = "failed" => req'[s] = req[s]

LEMMA QuietSets ==
  ASSUME Quiet, NEW day
  PROVE  /\ {r \in Requests : Counts(req[r])' /\ Today(req'[r].time) = day}
              \subseteq GrantedOn(day)
         /\ {r \in Requests : Bills(req'[r], life') /\ Today(req'[r].time) = day}
              = Billed(day)
         /\ {r \in Requests : /\ req'[r].at = "failed" /\ req'[r].life = life'
                              /\ Today(req'[r].back) >= day
                              /\ Today(req'[r].time) < day} = LateReturns(day)
<1>1. {r \in Requests : Counts(req[r])' /\ Today(req'[r].time) = day}
        \subseteq GrantedOn(day)
  BY GrantedOnIs DEF Quiet
<1>2. {r \in Requests : Bills(req'[r], life') /\ Today(req'[r].time) = day}
        = Billed(day)
  BY DEF Quiet, Billed
<1>3. {r \in Requests : /\ req'[r].at = "failed" /\ req'[r].life = life'
                        /\ Today(req'[r].back) >= day
                        /\ Today(req'[r].time) < day} = LateReturns(day)
  BY DEF Quiet, LateReturns, GivenBack, At
<1> QED
  BY <1>1, <1>2, <1>3

\* The three sets after a step, of the day of the count after it.
LEMMA SetsNext ==
  /\ GrantedOn(dripDay)' =
       {r \in Requests : Counts(req[r])' /\ Today(req'[r].time) = dripDay'}
  /\ Billed(dripDay)' =
       {r \in Requests : Bills(req'[r], life') /\ Today(req'[r].time) = dripDay'}
  /\ LateReturns(dripDay)' =
       {r \in Requests : /\ req'[r].at = "failed" /\ req'[r].life = life'
                         /\ Today(req'[r].back) >= dripDay'
                         /\ Today(req'[r].time) < dripDay'}
<1>1. Requests' = Requests
  BY DEF Requests
<1> QED
  BY <1>1 DEF GrantedOn, Granted, Counts, InFlight, At, Billed, Bills, LateReturns,
              GivenBack, Today

LEMMA QuietBudget ==
  ASSUME Typed, DayInv, BudgetHolds, Quiet, UNCHANGED <<dripDay, dripCountToday>>
  PROVE  DayInv' /\ BudgetHolds'
<1>1. /\ GrantedOn(dripDay)' \subseteq GrantedOn(dripDay)
      /\ Billed(dripDay)' = Billed(dripDay)
      /\ LateReturns(dripDay)' = LateReturns(dripDay)
  BY QuietSets, SetsNext
<1>2. GrantedOn(dripDay) \subseteq Requests /\ LateReturns(dripDay) \subseteq Requests
  BY DEF GrantedOn, LateReturns
<1>3. /\ Cardinality(GrantedOn(dripDay)') <= Cardinality(GrantedOn(dripDay))
      /\ Cardinality(GrantedOn(dripDay)') \in Nat
      /\ Cardinality(GrantedOn(dripDay)) \in Nat
      /\ Cardinality(LateReturns(dripDay)) \in Nat
  BY <1>1, <1>2, SubsetCard
<1>4. BudgetHolds'
  BY <1>1, <1>3, BudgetIs, BudgetNext DEF Typed
<1>5. DayInv'
  <2>1. now \in Nat /\ dripDay \in Nat /\ Requests' = Requests
    BY DEF Typed, Requests
  <2>2. Today(now) <= Today(now') /\ Today(now) \in Nat /\ Today(now') \in Nat
    BY <2>1, TodayGrows, TodayNat DEF Quiet
  <2>3. dripDay' <= Today(now')
    BY <2>1, <2>2 DEF DayInv
  <2>4. \A r \in Requests : Counts(req[r])' => Today(req'[r].time) <= dripDay'
    BY DEF DayInv, Quiet
  <2> QED
    BY <2>1, <2>3, <2>4 DEF DayInv, Today
<1> QED
  BY <1>4, <1>5

LEMMA StillQuiet ==
  ASSUME Typed, Still \/ Tick
  PROVE  Quiet /\ UNCHANGED <<dripDay, dripCountToday>>
<1>1. UNCHANGED <<life, memory, req>> /\ now \in Nat /\ (now' = now \/ now' = now + 1)
  BY DEF Still, Tick, Typed
<1> QED
  BY <1>1 DEF Quiet, Counts, memory

LEMMA MoveQuiet ==
  ASSUME Typed, NEW r \in Requests, NEW step \in {"queued", "wait", "ok", "burnt"},
         Moves(r, step), UNCHANGED <<now, life, memory>>
  PROVE  Quiet /\ UNCHANGED <<dripDay, dripCountToday>>
<1>1. /\ req[r] \in TakenUp /\ Counts(req[r]) /\ req[r].at # "failed"
      /\ req'[r] = [req[r] EXCEPT !.at = step]
      /\ Bills(req[r], life)
  BY InFlightTakenUp DEF Moves, Counts, InFlight, Bills
<1>2. /\ req'[r].time = req[r].time /\ req'[r].life = req[r].life
      /\ req'[r].at = step
  BY <1>1 DEF TakenUp
<1>3. \A s \in Requests \ {r} : req'[s] = req[s]
  BY DEF Moves
<1>4. Bills(req'[r], life) /\ req'[r].at # "failed"
  BY <1>1, <1>2 DEF Bills
<1>5. now \in Nat /\ now' = now /\ life' = life
  BY DEF Typed
<1>6. ASSUME NEW s \in Requests
      PROVE  /\ Counts(req[s])' => Counts(req[s]) /\ req'[s].time = req[s].time
             /\ Bills(req'[s], life) <=> Bills(req[s], life)
             /\ Bills(req[s], life) => req'[s].time = req[s].time
             /\ req'[s].at = "failed" <=> req[s].at = "failed"
             /\ req[s].at = "failed" => req'[s] = req[s]
  <2>1. CASE s = r
    BY <1>1, <1>2, <1>4, <2>1
  <2>2. CASE s # r
    BY <1>3, <1>5, <2>2 DEF Counts
  <2> QED
    BY <2>1, <2>2
<1> QED
  BY <1>5, <1>6 DEF Quiet, memory

LEMMA RefuseQuiet ==
  ASSUME Typed, NEW r \in Requests, NEW ask \in Asks, Refuse(r, ask[1], ask[2])
  PROVE  Quiet
<1>1. /\ \A s \in Requests \ {r} : req'[s] = req[s]
      /\ req'[r] = [at |-> "refused"] /\ UNCHANGED <<now, life>>
      /\ req[r].at = "new" /\ now \in Nat
  BY DEF Refuse, Arrives, At, Typed
<1>2. /\ ~Counts(req[r])' /\ ~Bills(req'[r], life) /\ ~Bills(req[r], life)
      /\ req'[r].at # "failed" /\ req[r].at # "failed"
  BY <1>1 DEF Counts, Bills
<1>3. \A s \in Requests \ {r} : Counts(req[s])' => Counts(req[s])
  BY <1>1 DEF Counts
<1> QED
  BY <1>1, <1>2, <1>3 DEF Quiet

\* A refused request may still have opened the day: nothing was granted on it
\* yet.
LEMMA RefuseBudget ==
  ASSUME Typed, DayInv, BudgetHolds,
         NEW r \in Requests, NEW ask \in Asks, Refuse(r, ask[1], ask[2])
  PROVE  DayInv' /\ BudgetHolds'
<1>1. Quiet
  BY RefuseQuiet
<1>2. CASE UNCHANGED <<dripDay, dripCountToday>>
  BY <1>1, <1>2, QuietBudget
<1>3. CASE dripDay' = Today(now) /\ dripCountToday' = CountOf(now)
  <2>1. CASE Today(now) = dripDay
    <3>1. UNCHANGED <<dripDay, dripCountToday>>
      BY <1>3, <2>1 DEF CountOf
    <3> QED
      BY <1>1, <3>1, QuietBudget
  <2>2. CASE Today(now) # dripDay
    <3>1. /\ dripDay' = Today(now) /\ dripCountToday' = 0 /\ now' = now
          /\ dripDay < Today(now) /\ Today(now) \in Nat /\ dripDay \in Nat
      BY <1>3, <2>2, TodayNat DEF CountOf, DayInv, Typed, Refuse
    <3>2. ASSUME NEW s \in Requests, Counts(req[s])'
          PROVE  Today(req'[s].time) \in Nat /\ Today(req'[s].time) < Today(now)
      <4>1. Counts(req[s]) /\ req'[s].time = req[s].time
        BY <1>1, <3>2 DEF Quiet
      <4>2. Today(req[s].time) <= dripDay /\ req[s].time \in Nat
        BY <4>1, CountsTyped DEF DayInv
      <4> QED
        BY <3>1, <4>1, <4>2, TodayNat
    <3>3. GrantedOn(dripDay)' = {}
      BY <3>1, <3>2, SetsNext
    <3>4. LateReturns(dripDay)' \subseteq Requests /\ Billed(dripDay)' \subseteq Requests
      BY SetsNext
    <3>5. /\ Cardinality(LateReturns(dripDay)') \in Nat
          /\ Cardinality(Billed(dripDay)') \in Nat
      BY <3>4, SubsetCard
    <3>6. BudgetHolds'
      BY <3>1, <3>3, <3>5, FS_EmptySet, FaucetAssumption, BudgetNext
    <3>7. dripDay' <= Today(now')
      BY <3>1
    <3>8. \A s \in Requests : Counts(req[s])' => Today(req'[s].time) <= dripDay'
      BY <3>1, <3>2
    <3>9. Requests' = Requests
      BY DEF Requests
    <3> QED
      BY <3>6, <3>7, <3>8, <3>9 DEF DayInv, Today
  <2> QED
    BY <2>1, <2>2
<1> QED
  BY <1>2, <1>3 DEF Refuse, memory

\* A new drip is counted where it is granted.
LEMMA AcceptBudget ==
  ASSUME Typed, DayInv, BudgetHolds,
         NEW r \in Requests, NEW ask \in Asks, Accept(r, ask[1], ask[2])
  PROVE  DayInv' /\ BudgetHolds'
<1>1. /\ \A s \in Requests \ {r} : req'[s] = req[s]
      /\ req'[r].at = "balance" /\ req'[r].time = now /\ req'[r].life = life
      /\ UNCHANGED <<now, life>> /\ req[r].at = "new"
      /\ dripDay' = Today(now) /\ dripCountToday' = CountOf(now) + 1
      /\ CountOf(now) < DAILY_GLOBAL_MAX
  BY DEF Accept, Arrives, At, Typed, BudgetLeft
<1>2. /\ now \in Nat /\ dripDay \in Nat /\ dripCountToday \in Nat
      /\ Today(now) \in Nat /\ DAILY_GLOBAL_MAX \in Nat /\ dripDay <= Today(now)
  BY TodayNat, FaucetAssumption DEF Typed, DayInv
<1>3. Counts(req[r])' /\ Bills(req'[r], life') /\ Today(req'[r].time) = dripDay'
  BY <1>1 DEF Counts, Bills
<1>4. \A s \in Requests \ {r} : Counts(req[s])' <=> Counts(req[s])
  BY <1>1 DEF Counts
<1>5. r \notin GrantedOn(dripDay) /\ r \notin Billed(dripDay)
  BY <1>1 DEF GrantedOn, Granted, InFlight, At, Billed, Bills
<1>6. /\ GrantedOn(dripDay) \subseteq Requests /\ Billed(dripDay) \subseteq Requests
      /\ LateReturns(dripDay) \subseteq Requests
      /\ LateReturns(dripDay)' \subseteq Requests
      /\ GrantedOn(dripDay)' \subseteq Requests /\ Billed(dripDay)' \subseteq Requests
  BY SetsNext DEF GrantedOn, Billed, LateReturns
<1>7. DayInv'
  <2>1. \A s \in Requests : Counts(req[s])' => Today(req'[s].time) <= dripDay'
    <3> SUFFICES ASSUME NEW s \in Requests, Counts(req[s])'
                 PROVE  Today(req'[s].time) <= dripDay'
      OBVIOUS
    <3>1. CASE s = r
      BY <1>1, <1>2, <3>1
    <3>2. CASE s # r
      <4>1. Counts(req[s]) /\ req'[s] = req[s]
        BY <1>1, <1>4, <3>2
      <4>2. Today(req[s].time) <= dripDay /\ Today(req[s].time) \in Nat
        BY <4>1, CountsTyped, TodayNat DEF DayInv
      <4> QED
        BY <1>1, <1>2, <4>1, <4>2
    <3> QED
      BY <3>1, <3>2
  <2>2. dripDay' <= Today(now') /\ Requests' = Requests
    BY <1>1, <1>2 DEF Requests
  <2> QED
    BY <2>1, <2>2 DEF DayInv, Today
<1>8. CASE Today(now) = dripDay
  <2>1. GrantedOn(dripDay)' = GrantedOn(dripDay) \cup {r}
    BY <1>1, <1>3, <1>4, <1>8, SetsNext, GrantedOnIs
  <2>2. Billed(dripDay)' = Billed(dripDay) \cup {r}
    BY <1>1, <1>3, <1>8, SetsNext DEF Billed
  <2>3. LateReturns(dripDay)' = LateReturns(dripDay)
    BY <1>1, <1>8, SetsNext DEF LateReturns, GivenBack, At
  <2>4. /\ Cardinality(GrantedOn(dripDay)') = Cardinality(GrantedOn(dripDay)) + 1
        /\ Cardinality(Billed(dripDay)') = Cardinality(Billed(dripDay)) + 1
    BY <1>5, <1>6, <2>1, <2>2, AddCard
  <2>5. /\ Cardinality(GrantedOn(dripDay)) \in Nat /\ Cardinality(Billed(dripDay)) \in Nat
        /\ Cardinality(LateReturns(dripDay)) \in Nat
    BY <1>6, SubsetCard
  <2>6. dripCountToday' = dripCountToday + 1 /\ dripCountToday < DAILY_GLOBAL_MAX
    BY <1>1, <1>8 DEF CountOf
  <2>7. BudgetHolds'
    BY <1>2, <2>3, <2>4, <2>5, <2>6, BudgetIs, BudgetNext
  <2> QED
    BY <1>7, <2>7
<1>9. CASE Today(now) # dripDay
  <2>1. GrantedOn(dripDay)' = {r}
    <3>1. ASSUME NEW s \in Requests \ {r}, Counts(req[s])'
          PROVE  Today(req'[s].time) # dripDay'
      <4>1. Counts(req[s]) /\ req'[s] = req[s]
        BY <1>1, <1>4, <3>1
      <4>2. Today(req[s].time) <= dripDay /\ Today(req[s].time) \in Nat
        BY <4>1, CountsTyped, TodayNat DEF DayInv
      <4> QED
        BY <1>1, <1>2, <1>9, <4>1, <4>2
    <3> QED
      BY <1>3, <3>1, SetsNext
  <2>2. r \in Billed(dripDay)'
    BY <1>3, SetsNext
  <2>3. Cardinality(GrantedOn(dripDay)') = 1
    BY <2>1, FS_Singleton
  <2>4. /\ Cardinality(Billed(dripDay)') >= 1 /\ Cardinality(Billed(dripDay)') \in Nat
        /\ Cardinality(LateReturns(dripDay)') \in Nat
    <3>1. {r} \in SUBSET Billed(dripDay)'
      BY <2>2
    <3>2. Cardinality({r}) = 1
      BY FS_Singleton
    <3>3. /\ Cardinality({r}) <= Cardinality(Billed(dripDay)')
          /\ Cardinality(Billed(dripDay)') \in Nat
      BY <1>6, <3>1, SubsetCard
    <3> QED
      BY <1>6, <3>2, <3>3, SubsetCard
  <2>5. dripCountToday' = 1 /\ 0 < DAILY_GLOBAL_MAX
    BY <1>1, <1>9 DEF CountOf
  <2>6. BudgetHolds'
    BY <1>2, <2>3, <2>4, <2>5, BudgetNext
  <2> QED
    BY <1>7, <2>6
<1> QED
  BY <1>8, <1>9

\* A roll-back takes its own drip back from the count of its day; after
\* midnight it takes one from the count of another, and is a late return.
LEMMA RollBackBudget ==
  ASSUME Typed, DayInv, BudgetHolds,
         NEW q \in Requests, RollsBack(q), UNCHANGED <<now, life>>
  PROVE  DayInv' /\ BudgetHolds'
<1>1. /\ req[q] \in TakenUp /\ Counts(req[q]) /\ req[q].at # "failed"
      /\ Bills(req[q], life) /\ req[q].time \in Nat /\ req[q].life = life
  BY InFlightTakenUp DEF RollsBack, Counts, InFlight, Bills, TakenUp
<1>2. /\ req'[q].at = "failed" /\ req'[q].back = now /\ req'[q].time = req[q].time
      /\ req'[q].life = life'
  <2>1. req'[q] = [req[q] EXCEPT !.at = "failed", !.back = now]
    BY DEF RollsBack
  <2> QED
    BY <1>1, <2>1 DEF TakenUp
<1>3. /\ \A s \in Requests \ {q} : req'[s] = req[s]
      /\ UNCHANGED <<now, life, dripDay>> /\ Requests' = Requests
      /\ dripCountToday' = IF dripCountToday > 0 THEN dripCountToday - 1 ELSE 0
  BY DEF RollsBack, GiveBack, Requests
<1>4. /\ now \in Nat /\ dripDay \in Nat /\ dripCountToday \in Nat
      /\ Today(now) \in Nat /\ DAILY_GLOBAL_MAX \in Nat /\ dripDay <= Today(now)
      /\ Today(req[q].time) \in Nat /\ Today(req[q].time) <= dripDay
  BY <1>1, TodayNat, FaucetAssumption DEF Typed, DayInv
<1>5. ~Counts(req[q])' /\ ~Bills(req'[q], life')
  BY <1>2 DEF Counts, Bills
<1>6. \A s \in Requests \ {q} : Counts(req[s])' <=> Counts(req[s])
  BY <1>3 DEF Counts
<1>7. /\ GrantedOn(dripDay) \subseteq Requests /\ Billed(dripDay) \subseteq Requests
      /\ LateReturns(dripDay) \subseteq Requests
  BY DEF GrantedOn, Billed, LateReturns
<1>8. /\ Cardinality(GrantedOn(dripDay)) \in Nat /\ Cardinality(Billed(dripDay)) \in Nat
      /\ Cardinality(LateReturns(dripDay)) \in Nat
  BY <1>7, SubsetCard
<1>9. DayInv'
  <2>1. \A s \in Requests : Counts(req[s])' => Today(req'[s].time) <= dripDay'
    BY <1>3, <1>5, <1>6 DEF DayInv
  <2> QED
    BY <1>3, <1>4, <2>1 DEF DayInv, Today
<1>10. CASE Today(req[q].time) = dripDay
  <2>1. GrantedOn(dripDay)' = GrantedOn(dripDay) \ {q}
    BY <1>3, <1>5, <1>6, SetsNext, GrantedOnIs
  <2>2. Billed(dripDay)' = Billed(dripDay) \ {q}
    BY <1>3, <1>5, SetsNext DEF Billed
  <2>3. LateReturns(dripDay)' = LateReturns(dripDay)
    <3>1. q \notin LateReturns(dripDay) /\ q \notin LateReturns(dripDay)'
      BY <1>1, <1>2, <1>3, <1>4, <1>10, SetsNext DEF LateReturns, GivenBack, At
    <3> QED
      BY <1>3, <3>1, SetsNext DEF LateReturns, GivenBack, At
  <2>4. q \in GrantedOn(dripDay) /\ q \in Billed(dripDay)
    BY <1>1, <1>10, GrantedOnIs DEF Billed
  <2>5. /\ Cardinality(GrantedOn(dripDay)') = Cardinality(GrantedOn(dripDay)) - 1
        /\ Cardinality(Billed(dripDay)') = Cardinality(Billed(dripDay)) - 1
    BY <1>7, <2>1, <2>2, <2>4, DropCard
  <2>6. Cardinality(Billed(dripDay)') \in Nat
    <3>1. Billed(dripDay)' \subseteq Requests
      BY SetsNext
    <3> QED
      BY <3>1, SubsetCard
  <2>7. BudgetHolds'
    BY <1>3, <1>4, <1>8, <2>3, <2>5, <2>6, BudgetIs, BudgetNext
  <2> QED
    BY <1>9, <2>7
<1>11. CASE Today(req[q].time) < dripDay
  <2>1. GrantedOn(dripDay)' = GrantedOn(dripDay)
    <3>1. q \notin GrantedOn(dripDay) /\ q \notin GrantedOn(dripDay)'
      BY <1>4, <1>5, <1>11, SetsNext, GrantedOnIs
    <3> QED
      BY <1>3, <1>6, <3>1, SetsNext, GrantedOnIs
  <2>2. Billed(dripDay)' = Billed(dripDay)
    <3>1. q \notin Billed(dripDay) /\ q \notin Billed(dripDay)'
      BY <1>4, <1>5, <1>11, SetsNext DEF Billed
    <3> QED
      BY <1>3, <3>1, SetsNext DEF Billed
  <2>3. LateReturns(dripDay)' = LateReturns(dripDay) \cup {q}
    <3>1. q \in LateReturns(dripDay)'
      BY <1>2, <1>3, <1>4, <1>11, SetsNext
    <3> QED
      BY <1>3, <3>1, SetsNext DEF LateReturns, GivenBack, At
  <2>4. q \notin LateReturns(dripDay)
    BY <1>1 DEF LateReturns, GivenBack, At
  <2>5. Cardinality(LateReturns(dripDay)') = Cardinality(LateReturns(dripDay)) + 1
    BY <1>7, <2>3, <2>4, AddCard
  <2>6. BudgetHolds'
    BY <1>3, <1>4, <1>8, <2>1, <2>2, <2>5, BudgetIs, BudgetNext
  <2> QED
    BY <1>9, <2>6
<1> QED
  BY <1>4, <1>10, <1>11

LEMMA RestartBudget ==
  ASSUME Typed, Restart
  PROVE  DayInv' /\ BudgetHolds'
<1>1. /\ dripDay' = 0 /\ dripCountToday' = 0 /\ now' = now /\ Requests' = Requests
      /\ Today(now) \in Nat
  BY TodayNat DEF Restart, FreshMemory, Requests, Typed
<1>2. \A r \in Requests : ~Counts(req[r])'
  BY RestartClears
<1>3. GrantedOn(dripDay)' = {}
  BY <1>2, SetsNext
<1>4. LateReturns(dripDay)' \subseteq Requests /\ Billed(dripDay)' \subseteq Requests
  BY SetsNext
<1>5. Cardinality(LateReturns(dripDay)') \in Nat /\ Cardinality(Billed(dripDay)') \in Nat
  BY <1>4, SubsetCard
<1>6. BudgetHolds'
  BY <1>1, <1>3, <1>5, FS_EmptySet, FaucetAssumption, BudgetNext, SMTT(60)
<1> QED
  BY <1>1, <1>2, <1>6 DEF DayInv, Today

LEMMA InitBudget == Init => DayInv /\ BudgetHolds
<1> SUFFICES ASSUME Init PROVE DayInv /\ BudgetHolds
  OBVIOUS
<1>1. /\ dripDay = 0 /\ dripCountToday = 0 /\ now = 1 /\ Today(1) \in Nat
      /\ \A r \in Requests : ~Counts(req[r])
  BY TodayNat DEF Init, Counts, New
<1>2. GrantedOn(dripDay) = {}
  BY <1>1, GrantedOnIs
<1>3. LateReturns(dripDay) \subseteq Requests /\ Billed(dripDay) \subseteq Requests
  BY DEF LateReturns, Billed
<1>4. Cardinality(LateReturns(dripDay)) \in Nat /\ Cardinality(Billed(dripDay)) \in Nat
  BY <1>3, SubsetCard
<1>5. BudgetHolds
  BY <1>1, <1>2, <1>4, FS_EmptySet, FaucetAssumption, BudgetIs
<1> QED
  BY <1>1, <1>5 DEF DayInv

LEMMA NextBudget ==
  Typed /\ DayInv /\ BudgetHolds /\ [Next]_vars => DayInv' /\ BudgetHolds'
<1> SUFFICES ASSUME Typed, DayInv, BudgetHolds, [Next]_vars
             PROVE  DayInv' /\ BudgetHolds'
  OBVIOUS
<1>1. ASSUME NEW r \in Requests, NEW step \in {"queued", "wait", "ok", "burnt"},
             Moves(r, step), UNCHANGED <<now, life, memory>>
      PROVE  DayInv' /\ BudgetHolds'
  BY <1>1, MoveQuiet, QuietBudget
<1>2. CASE Still \/ Tick
  BY <1>2, StillQuiet, QuietBudget
<1> QED
  BY <1>1, <1>2, AcceptBudget, RefuseBudget, RollBackBudget, RestartBudget, StepKinds

\* server.js 26-43: whatever fails, before midnight or after it, the count of
\* the day never passes the maximum, no drip of the day is missing in it but
\* for those given back to it by requests of an earlier day, and it counts
\* nothing that was neither granted nor lost to a failed query.
THEOREM BudgetIsKept == Spec => []BudgetHolds
<1>1. Init => Typed /\ DayInv /\ BudgetHolds
  BY InitTyped, InitBudget
<1>2. Typed /\ DayInv /\ BudgetHolds /\ [Next]_vars => (Typed /\ DayInv /\ BudgetHolds)'
  BY NextTyped, NextBudget
<1> QED
  BY <1>1, <1>2, PTL DEF Spec

-----------------------------------------------------------------------------
(* The contract's cooldown on the main network                             *)

\* A transaction is of a request that was taken up, and on the main network it
\* is a call of the contract.
TxInv ==
  /\ lastDrip \in [Accounts -> Nat] /\ pot \in Nat
  /\ DOMAIN tx = Requests
  /\ \A r \in Requests : tx[r] # "none" => req[r] \in TakenUp
  /\ mainnet => contractMode /\ \A r \in Requests : tx[r] # "send"

LEMMA TakenUpStays ==
  ASSUME Typed, [Next]_vars, NEW r \in Requests, req[r] \in TakenUp
  PROVE  req'[r] \in TakenUp
<1>1. req[r].at \in Steps /\ req[r].at # "new" /\ now \in Nat
  BY DEF TakenUp, Steps, Typed
<1>2. ASSUME NEW s \in Requests, NEW ask \in Asks,
             Accept(s, ask[1], ask[2]) \/ Refuse(s, ask[1], ask[2])
      PROVE  req'[r] \in TakenUp
  <2>1. s # r /\ DOMAIN req = Requests
    BY <1>1, <1>2 DEF Accept, Refuse, Arrives, At, Typed
  <2>2. req'[r] = req[r]
    BY <1>2, <2>1 DEF Accept, Refuse
  <2> QED
    BY <2>2
<1>3. ASSUME NEW s \in Requests, NEW step \in {"queued", "wait", "ok", "burnt"},
             Moves(s, step)
      PROVE  req'[r] \in TakenUp
  <2>1. req'[r] = req[r] \/ req'[r] = [req[r] EXCEPT !.at = step]
    BY <1>3 DEF Moves
  <2> QED
    BY <2>1 DEF TakenUp, Steps
<1>4. ASSUME NEW s \in Requests, RollsBack(s)
      PROVE  req'[r] \in TakenUp
  <2>1. \/ req'[r] = req[r]
        \/ req'[r] = [req[r] EXCEPT !.at = "failed", !.back = now]
    BY <1>4 DEF RollsBack
  <2>2. [req[r] EXCEPT !.at = "failed", !.back = now] \in TakenUp
    BY <1>1 DEF TakenUp, Steps
  <2> QED
    BY <2>1, <2>2
<1>5. CASE Still \/ Tick
  BY <1>5 DEF Still, Tick
<1>6. CASE Restart
  <2>1. req'[r] = req[r] \/ req'[r] = [req[r] EXCEPT !.at = "lost"]
    BY <1>6 DEF Restart
  <2> QED
    BY <2>1 DEF TakenUp, Steps
<1> QED
  BY <1>2, <1>3, <1>4, <1>5, <1>6, StepKinds

\* What a step does to the transactions, the contract and the configuration.
TxStill == UNCHANGED <<mainnet, contractMode, tx, wallet, pot, lastDrip>>

TxSent(r) ==
  /\ InFlight(r) /\ tx' \in {tx, [tx EXCEPT ![r] = OutAs]}
  /\ UNCHANGED <<mainnet, contractMode, wallet, pot, lastDrip>>

LEMMA TxSteps ==
  ASSUME [Next]_vars
  PROVE  \/ TxStill
         \/ \E r \in Requests : TxSent(r) \/ Mined(r) \/ Dropped(r)
         \/ \E a \in Accounts : Claim(a)
         \/ Restart
<1>1. ASSUME NEW r \in Requests, Serve(r)
      PROVE  TxStill \/ TxSent(r) \/ Mined(r) \/ Dropped(r)
  <2>1. ASSUME Send(r) \/ SendFails(r)
        PROVE  TxSent(r)
    BY <2>1 DEF Send, SendFails, TxSent, InFlight, At, config
  <2>2. ASSUME BalanceLow(r) \/ BalanceGood(r) \/ BalanceFails(r) \/ Receipt(r)
                 \/ WaitFails(r)
        PROVE  TxStill
    BY <2>2 DEF BalanceLow, BalanceGood, BalanceFails, Receipt, WaitFails, TxStill,
                chain, config
  <2>3. ASSUME NEW ask \in Asks, Accept(r, ask[1], ask[2]) \/ Refuse(r, ask[1], ask[2])
        PROVE  TxStill
    BY <2>3 DEF Accept, Refuse, TxStill, chain, config
  <2> QED
    BY <1>1, <2>1, <2>2, <2>3 DEF Serve
<1>2. CASE Tick
  BY <1>2 DEF Tick, TxStill, chain, config
<1>3. CASE UNCHANGED vars
  BY <1>3 DEF vars, TxStill, chain, config
<1> QED
  BY <1>1, <1>2, <1>3 DEF Next

LEMMA InitTx == Init => TxInv
<1> SUFFICES ASSUME Init PROVE TxInv
  OBVIOUS
<1>1. pot \in Nat
  BY FaucetAssumption DEF Init
<1> QED
  BY <1>1 DEF Init, TxInv, MayStart

LEMMA NextTx == Typed /\ TxInv /\ [Next]_vars => TxInv'
<1> SUFFICES ASSUME Typed, TxInv, [Next]_vars PROVE TxInv'
  OBVIOUS
<1>1. /\ now \in Nat /\ DOMAIN tx = Requests /\ Requests' = Requests
      /\ \A r \in Requests : tx[r] # "none" => req'[r] \in TakenUp
      /\ lastDrip \in [Accounts -> Nat] /\ pot \in Nat
      /\ mainnet => contractMode /\ \A r \in Requests : tx[r] # "send"
      /\ TakenUp' = TakenUp
  BY TakenUpStays DEF TxInv, Typed, Requests, TakenUp, Steps
<1>2. CASE TxStill
  BY <1>1, <1>2 DEF TxStill, TxInv
<1>3. ASSUME NEW r \in Requests, TxSent(r) PROVE TxInv'
  <2>1. req'[r] \in TakenUp
    BY <1>3, InFlightTakenUp, TakenUpStays DEF TxSent
  <2>2. contractMode => OutAs = "drip"
    BY DEF OutAs
  <2> QED
    BY <1>1, <1>3, <2>1, <2>2 DEF TxSent, TxInv
<1>4. ASSUME NEW a \in Accounts, ContractDrips(a)
      PROVE  lastDrip' \in [Accounts -> Nat] /\ pot' \in Nat
  BY <1>1, <1>4, FaucetAssumption DEF ContractDrips, Drips
<1>5. ASSUME NEW r \in Requests, Mined(r) PROVE TxInv'
  <2>1. tx[r] # "none"
    BY <1>5 DEF Mined
  <2>2. AccountOf[req[r].to] \in Accounts
    <3>1. req[r].to \in Addresses
      BY <2>1 DEF TxInv, TakenUp
    <3> QED
      BY <3>1, FaucetAssumption
  <2>3. lastDrip' \in [Accounts -> Nat] /\ pot' \in Nat
    BY <1>1, <1>4, <1>5, <2>2 DEF Mined
  <2>4. UNCHANGED <<mainnet, contractMode>>
    BY <1>5 DEF Mined, config
  <2>5. tx' = [tx EXCEPT ![r] = "landed"] \/ tx' = [tx EXCEPT ![r] = "reverted"]
    BY <1>5 DEF Mined
  <2> QED
    BY <1>1, <2>1, <2>3, <2>4, <2>5 DEF TxInv
<1>6. ASSUME NEW r \in Requests, Dropped(r) PROVE TxInv'
  BY <1>1, <1>6 DEF Dropped, TxInv, config
<1>7. ASSUME NEW a \in Accounts, Claim(a) PROVE TxInv'
  BY <1>1, <1>4, <1>7 DEF Claim, TxInv, config
<1>8. CASE Restart
  BY <1>1, <1>8 DEF Restart, MayStart, TxInv, chain
<1> QED
  BY <1>2, <1>3, <1>5, <1>6, <1>7, <1>8, TxSteps

\* The step that MainnetCooldown speaks of.
LEMMA MainnetStep ==
  ASSUME Typed, TxInv, [Next]_vars, mainnet
  PROVE  /\ wallet' = wallet
         /\ pot' < pot =>
              \E a \in Accounts :
                /\ lastDrip'[a] = now
                /\ lastDrip[a] = 0 \/ now - lastDrip[a] >= ChainCooldown
<1>1. now \in Nat /\ pot \in Nat /\ lastDrip \in [Accounts -> Nat]
  BY DEF Typed, TxInv
<1>2. ASSUME NEW a \in Accounts, ContractDrips(a)
      PROVE  /\ wallet' = wallet /\ lastDrip'[a] = now
             /\ lastDrip[a] = 0 \/ now - lastDrip[a] >= ChainCooldown
  BY <1>1, <1>2, FaucetAssumption DEF ContractDrips, Drips
<1>3. ASSUME NEW r \in Requests, Mined(r)
      PROVE  \/ UNCHANGED <<wallet, pot>>
             \/ \E a \in Accounts : ContractDrips(a)
  <2>1. tx[r] # "none" /\ tx[r] # "send"
    BY <1>3 DEF Mined, TxInv
  <2>2. AccountOf[req[r].to] \in Accounts
    <3>1. req[r].to \in Addresses
      BY <2>1 DEF TxInv, TakenUp
    <3> QED
      BY <3>1, FaucetAssumption
  <2> QED
    BY <1>3, <2>1, <2>2 DEF Mined
<1>4. \/ UNCHANGED <<wallet, pot>>
      \/ \E a \in Accounts : ContractDrips(a)
  <2>1. ASSUME NEW r \in Requests, TxSent(r) \/ Dropped(r)
        PROVE  UNCHANGED <<wallet, pot>>
    BY <2>1 DEF TxSent, Dropped
  <2>2. CASE TxStill \/ Restart
    BY <2>2 DEF TxStill, Restart, chain
  <2> QED
    BY <1>3, <2>1, <2>2, TxSteps DEF Claim
<1> QED
  BY <1>1, <1>2, <1>4

\* faucet.js 9-12, server.js 124-127: on the main network coins leave only
\* through the contract, and no account is paid twice within its cooldown,
\* however the service is restarted, set up anew or misled about its sends.
THEOREM ContractPaces == Spec => MainnetCooldown
<1>1. Init => Typed /\ TxInv
  BY InitTyped, InitTx
<1>2. Typed /\ TxInv /\ [Next]_vars => (Typed /\ TxInv)'
  BY NextTyped, NextTx
<1>3. Typed /\ TxInv /\ [Next]_vars =>
        [mainnet =>
           /\ wallet' = wallet
           /\ pot' < pot =>
                \E a \in Accounts :
                  /\ lastDrip'[a] = now
                  /\ lastDrip[a] = 0 \/ now - lastDrip[a] >= ChainCooldown]_vars
  BY MainnetStep
<1> QED
  BY <1>1, <1>2, <1>3, PTL DEF Spec, MainnetCooldown
===============================================================================
