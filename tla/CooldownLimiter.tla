--------------------------- MODULE CooldownLimiter ---------------------------
(***************************************************************************)
(* The limiter of the faucet service (ratelimit.js): a map from a key to   *)
(* the time of its last acquisition.  Free stands for a key the map does   *)
(* not hold.                                                               *)
(***************************************************************************)
EXTENDS Integers

CONSTANTS Cooldown, Free

ASSUME LimiterAssumption == Cooldown \in Nat \ {0} /\ Free \notin Nat

NoEntries(Keys) == [k \in Keys |-> Free]

remaining(last, key, now) ==
  IF last[key] = Free \/ now - last[key] >= Cooldown
  THEN 0
  ELSE Cooldown - (now - last[key])

\* Changed: entries go a tick too early.
SweptEarly(last, now) ==
  [k \in DOMAIN last |->
     IF last[k] # Free /\ now - last[k] >= Cooldown - 1 THEN Free ELSE last[k]]

\* _sweep: the keys whose cooldown has elapsed leave the map.
Swept(last, now) ==
  [k \in DOMAIN last |-> IF remaining(last, k, now) = 0 THEN Free ELSE last[k]]

CanAcquire(last, key, now) == remaining(last, key, now) = 0

\* tryAcquire, when it returns true.
Acquired(last, key, now) == [Swept(last, now) EXCEPT ![key] = now]

\* release: whosever acquisition it was.
Released(last, key) == [last EXCEPT ![key] = Free]
=============================================================================
