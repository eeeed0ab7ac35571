------------------------------- MODULE Notifier -------------------------------
(***************************************************************************)
(* The notifier (services/blockchain-notifier): two timers, one for the    *)
(* chain and one for the services, each of which walks through lists of    *)
(* things to tell and mails what is new.  A mail is an await, a failing    *)
(* mail ends the watcher it is in, and the timers ask neither each other   *)
(* nor themselves whether the last cycle has ended.                        *)
(*                                                                         *)
(* What was told is remembered twice: in memory, by key and for a          *)
(* cooldown, so that nothing is repeated; and in a state file, written at  *)
(* the end of every cycle, which holds the last block looked at, the       *)
(* validators and the services as they were seen.                          *)
(***************************************************************************)
EXTENDS Naturals, Sequences, FiniteSets, SequencesExt

CONSTANTS
  Validators, Urls,
  Risks,        \* "validators" and "bondedRatio" |-> alarm keys of the watcher
  ResetRisks,   \* the alarms whose key is cleared with the condition
  LargeSales,   \* blocks whose sale is large against the bonded stake
  ChainCycles, UptimeCycles,  \* cycles that may overlap
  COOLDOWN_MS, Window,        \* Window: blocks looked back without a state
  MaxBlock, MaxTime,          \* bounds: chain and clock
  MaxMoves,     \* bound: changes of validators, services and risks
  MaxFaults     \* bound: failures of mail, node and process

ASSUME NotifierAssumption ==
  /\ COOLDOWN_MS \in Nat \ {0} /\ Window \in Nat
  /\ MaxBlock \in Nat \ {0}
  /\ MaxTime \in Nat /\ MaxMoves \in Nat /\ MaxFaults \in Nat
  /\ ChainCycles \cap UptimeCycles = {}
  /\ DOMAIN Risks = {"validators", "bondedRatio"}
  /\ IsFiniteSet(Validators)
  /\ \A watcher \in DOMAIN Risks : IsFiniteSet(Risks[watcher])
  /\ IsFiniteSet(Urls) /\ Urls # {}  \* a service to probe

VARIABLES
  now, head, sales,         \* clock; blocks; those with a Dispensed event
  jailed, down, risky,      \* validators, services and alarms as they are
  lastDispenserBlock, validators, uptime,  \* state, in memory
  file,                     \* and in the file
  lastSent,                 \* the mailer: when a key was last taken up
  cycle,                    \* the cycles
  moves, faults,
  mailed, failed,           \* history: sales mailed in this life and ever,
                            \*   and those whose mail did not go out
  told,                     \* history: validators whose jailing was mailed
  lookedFrom                \* history: the block the search last began at

world == <<head, sales, jailed, down, risky>>
state == <<lastDispenserBlock, validators, uptime>>
history == <<mailed, failed, told, lookedFrom>>
vars == <<now, world, state, file, lastSent, cycle, moves, faults, history>>

Cycles == ChainCycles \cup UptimeCycles
Never == 0

Keys ==
  ({"sale", "sale-large"} \X (1 .. MaxBlock)) \cup ({"val-new"} \X Validators)
  \cup ({"down", "up"} \X Urls)
  \cup ({"risk"} \X (Risks["validators"] \cup Risks["bondedRatio"]))

EmptyState == [block |-> 0, validators |-> [v \in Validators |-> "unseen"],
               uptime |-> [u \in Urls |-> TRUE]]
UptimeItems == [n \in 1 .. Cardinality(Urls) |->
  [kind |-> "url", of |-> SetToSeq(Urls)[n], is |-> TRUE]]

\* setInterval: a cycle waits for its timer, and then for the first answer.
Started(c) ==
  IF c \in ChainCycles THEN [at |-> "fetch", stage |-> "validators"]
  ELSE [at |-> "loop", stage |-> "uptime", todo |-> UptimeItems, latest |-> 0,
        key |-> <<>>, since |-> Never]

InMemory == [block |-> lastDispenserBlock, validators |-> validators,
             uptime |-> uptime]

\* The first block looked at holds a sale.
Init ==
  /\ now = 1 /\ head = 1 /\ sales = {1}
  /\ jailed = {} /\ down = {} /\ risky = {}
  /\ lastDispenserBlock = 0
  /\ validators = EmptyState.validators /\ uptime = EmptyState.uptime
  /\ file = EmptyState
  /\ lastSent = [k \in Keys |-> Never]
  /\ cycle = [c \in Cycles |-> Started(c)]
  /\ moves = 0 /\ faults = 0
  /\ mailed = [b \in 1 .. MaxBlock |-> [times |-> <<>>, ever |-> FALSE]]
  /\ failed = {} /\ told = {} /\ lookedFrom = 0

Fault == faults < MaxFaults /\ faults' = faults + 1
At(c, step) == cycle[c].at = step
Item1(c) == Head(cycle[c].todo)

\* Between two awaits the event loop runs one cycle and nothing else; before
\* a probe, and before the bonded stake a large sale is held against, the
\* loop awaits.
Runs(c) ==
  \/ At(c, "save")
  \/ At(c, "loop") /\ Item1(c).kind \notin {"url", "sale-large"}
EventLoopFree == \A c \in Cycles : ~Runs(c)

-----------------------------------------------------------------------------
(* What happens outside                                                    *)

\* External: a block, with or without a sale.
NewBlock ==
  /\ head < MaxBlock /\ EventLoopFree
  /\ head' = head + 1
  /\ sales' \in {sales, sales \cup {head + 1}}
  /\ UNCHANGED <<now, jailed, down, risky, state, file, lastSent, cycle, moves,
                 faults, history>>

Toggled(S, x) == (S \cup {x}) \ (S \cap {x})

\* External: a validator, a service or an alarm condition changes.
WorldMoves ==
  /\ moves < MaxMoves /\ moves' = moves + 1 /\ EventLoopFree
  /\ \/ /\ \E v \in Validators : jailed' = Toggled(jailed, v)
        /\ UNCHANGED <<down, risky>>
     \/ /\ \E u \in Urls : down' = Toggled(down, u)
        /\ UNCHANGED <<jailed, risky>>
     \/ /\ \E k \in Risks["validators"] \cup Risks["bondedRatio"] :
             risky' = Toggled(risky, k)
        /\ UNCHANGED <<jailed, down>>
  /\ UNCHANGED <<now, head, sales, state, file, lastSent, cycle, faults, history>>

Tick ==
  /\ now < MaxTime /\ now' = now + 1 /\ EventLoopFree
  /\ UNCHANGED <<world, state, file, lastSent, cycle, moves, faults, history>>

-----------------------------------------------------------------------------
(* The watchers: each turns what it fetched into a list of items           *)

Item(kind, of, is) == [kind |-> kind, of |-> of, is |-> is]
Listed(kind, S, yes) ==
  [n \in 1 .. Cardinality(S) |-> LET x == SetToSeq(S)[n] IN Item(kind, x, x \in yes)]

\* The active count, the shares, the Nakamoto coefficient and their rise.
ConcentrationItems == Listed("risk", Risks["validators"], risky)
RatioItems == Listed("risk", Risks["bondedRatio"], risky)
ValidatorItems == Listed("val", Validators, jailed)

SaleItems(from, to) ==
  LET Of(b) == IF b \notin sales THEN <<>>
               ELSE IF b \in LargeSales
                    THEN <<Item("sale", b, TRUE), Item("sale-large", b, TRUE)>>
                    ELSE <<Item("sale", b, TRUE)>>
  IN FlattenSeq([n \in 1 .. to - from + 1 |-> Of(from + n - 1)])

\* The block after the cursor, or a window back without one.
From == IF lastDispenserBlock > 0 THEN lastDispenserBlock + 1
        ELSE IF head > Window THEN head - Window ELSE 1

NextStage(stage) ==
  CASE stage = "validators" -> [at |-> "fetch", stage |-> "bondedRatio"]
    [] stage = "bondedRatio" -> [at |-> "fetch", stage |-> "gmbSales"]
    [] OTHER -> [at |-> "save"]

Goto(c, where) == cycle' = [cycle EXCEPT ![c] = where]

\* Changed: the cursor moves to the head of the chain as it is by then.
OnwardToHead(c, items, latest) ==
  IF items # <<>>
  THEN /\ Goto(c, [at |-> "loop", stage |-> cycle[c].stage, todo |-> items,
                   latest |-> latest, key |-> <<>>, since |-> Never])
       /\ UNCHANGED lastDispenserBlock
  ELSE /\ Goto(c, NextStage(cycle[c].stage))
       /\ lastDispenserBlock' = IF cycle[c].stage = "gmbSales" THEN head
                                ELSE lastDispenserBlock

\* On with the loop, or past its end: the cursor moves when every sale of the
\* range is through.
Onward(c, items, latest) ==
  IF items # <<>>
  THEN /\ Goto(c, [at |-> "loop", stage |-> cycle[c].stage, todo |-> items,
                   latest |-> latest, key |-> <<>>, since |-> Never])
       /\ UNCHANGED lastDispenserBlock
  ELSE /\ Goto(c, NextStage(cycle[c].stage))
       /\ lastDispenserBlock' = IF cycle[c].stage = "gmbSales" THEN latest
                                ELSE lastDispenserBlock

Fetch(c) ==
  /\ At(c, "fetch") /\ EventLoopFree
  /\ \/ /\ cycle[c].stage = "validators"
        /\ Onward(c, ValidatorItems \o ConcentrationItems, 0)
        /\ UNCHANGED lookedFrom
     \/ /\ cycle[c].stage = "bondedRatio"
        /\ Onward(c, RatioItems, 0)
        /\ UNCHANGED lookedFrom
     \/ /\ cycle[c].stage = "gmbSales" /\ From <= head
        /\ Onward(c, SaleItems(From, head), head)
        /\ lookedFrom' = IF lastDispenserBlock = 0 THEN From ELSE lookedFrom
     \/ /\ cycle[c].stage = "gmbSales" /\ From > head
        /\ Goto(c, NextStage("gmbSales"))
        /\ UNCHANGED <<lookedFrom, lastDispenserBlock>>
  /\ UNCHANGED <<now, world, validators, uptime, file, lastSent, moves, faults,
                 mailed, failed, told>>

FetchFails(c) ==
  /\ At(c, "fetch") /\ EventLoopFree /\ Fault
  /\ Goto(c, NextStage(cycle[c].stage))
  /\ UNCHANGED <<now, world, state, file, lastSent, moves, history>>

-----------------------------------------------------------------------------
(* notify                                                                  *)

Nothing == <<"nothing">>

\* The keys of jailings carry the time and are never taken twice.
Dated == <<"dated">>

\* Changed: one key per validator, without the time.
KeyPerValidator(item) ==
  CASE item.kind = "val" ->
         IF validators[item.of] = (IF item.is THEN "jailed" ELSE "active")
         THEN Nothing ELSE <<"val-new", item.of>>
    [] item.kind = "risk" -> IF item.is THEN <<"risk", item.of>> ELSE Nothing
    [] item.kind = "url" ->
         IF (item.of \in down) # uptime[item.of] THEN Nothing
         ELSE IF item.of \in down THEN <<"down", item.of>> ELSE <<"up", item.of>>
    [] OTHER -> <<item.kind, item.of>>

\* A validator against the last one seen; a service, probed now, against the
\* last probe.
KeyOf(item) ==
  CASE item.kind = "val" /\ validators[item.of] = "unseen" -> <<"val-new", item.of>>
    [] item.kind = "val" /\ validators[item.of] # "unseen" ->
         IF item.is = (validators[item.of] = "jailed") THEN Nothing ELSE Dated
    [] item.kind = "risk" -> IF item.is THEN <<"risk", item.of>> ELSE Nothing
    [] item.kind = "url" ->
         IF (item.of \in down) # uptime[item.of] THEN Nothing
         ELSE IF item.of \in down THEN <<"down", item.of>> ELSE <<"up", item.of>>
    [] OTHER -> <<item.kind, item.of>>

Suppressed(key) ==
  key \in Keys /\ lastSent[key] # Never /\ now - lastSent[key] < COOLDOWN_MS

\* resetKey: the alarm that is over, the outage that is over.
Cleared(item) ==
  IF item.kind = "risk" /\ ~item.is /\ item.of \in ResetRisks
  THEN [lastSent EXCEPT ![<<"risk", item.of>>] = Never]
  ELSE IF KeyOf(item)[1] = "up" THEN [lastSent EXCEPT ![<<"down", item.of>>] = Never]
       ELSE lastSent

\* Changed: the key is taken only when the mail has gone out.
TakenLate(sent, key) == sent

\* The key is taken before the mail is sent.
Taken(sent, key) == IF key \in Keys THEN [sent EXCEPT ![key] = now] ELSE sent

\* What the loop records of an item it is through with.
Record(item) ==
  /\ validators' = IF item.kind # "val" THEN validators
                   ELSE [validators EXCEPT ![item.of] =
                           IF item.is THEN "jailed" ELSE "active"]
  /\ uptime' = IF item.kind # "url" THEN uptime
               ELSE [uptime EXCEPT ![item.of] = item.is]

\* A probe answers what is true now.
Probed(item) == IF item.kind = "url" THEN [item EXCEPT !.is = item.of \notin down]
                ELSE item

\* An item up to its mail, or through when there is nothing to tell.
Step(c) ==
  /\ At(c, "loop") /\ (Runs(c) \/ EventLoopFree)
  /\ LET item == Probed(Item1(c))
         key == KeyOf(item) IN
     IF key = Nothing \/ Suppressed(key)
     THEN /\ Record(item)
          /\ lastSent' = Cleared(item)
          /\ Onward(c, Tail(cycle[c].todo), cycle[c].latest)
     ELSE /\ lastSent' = Taken(Cleared(item), key)
          /\ cycle' = [cycle EXCEPT ![c].at = "mail", ![c].key = key,
                                    ![c].since = now,
                                    ![c].todo = <<item>> \o Tail(@)]
          /\ UNCHANGED state
  /\ UNCHANGED <<now, world, file, moves, faults, history>>

\* The mail server has taken the mail.
Sent(c) ==
  LET item == Item1(c) IN
  /\ At(c, "mail") /\ EventLoopFree
  /\ Record(item)
  /\ Onward(c, Tail(cycle[c].todo), cycle[c].latest)
  /\ mailed' = IF item.kind # "sale" THEN mailed
               ELSE [mailed EXCEPT ![item.of] =
                       [times |-> Append(@.times, cycle[c].since), ever |-> TRUE]]
  /\ told' = IF item.kind # "val" THEN told
             ELSE IF item.is THEN told \cup {item.of} ELSE told \ {item.of}
  /\ UNCHANGED <<now, world, file, lastSent, moves, faults, failed, lookedFrom>>

\* The error leaves the watcher: the rest of its list waits for the next
\* cycle.
Leaves(c) == Goto(c, NextStage(cycle[c].stage))

NotSent(c) ==
  LET item == Item1(c) IN
  /\ At(c, "mail") /\ EventLoopFree /\ Fault
  /\ Leaves(c)
  /\ failed' = IF item.kind = "sale" THEN failed \cup {item.of} ELSE failed
  /\ UNCHANGED <<now, world, state, file, lastSent, moves, mailed, told,
                 lookedFrom>>

-----------------------------------------------------------------------------
(* The state file                                                          *)

saveState(c) ==
  /\ At(c, "save")
  /\ file' = InMemory
  /\ Goto(c, Started(c))
  /\ UNCHANGED <<now, world, state, lastSent, moves, faults, history>>

\* The process dies, perhaps while it writes the file, and is started again:
\* an unreadable file loads as an empty state.
Restart ==
  /\ Fault
  /\ file' \in {file} \cup (IF \E c \in Cycles : At(c, "save") THEN {EmptyState} ELSE {})
  /\ lastDispenserBlock' = file'.block
  /\ validators' = file'.validators /\ uptime' = file'.uptime
  /\ lastSent' = [k \in Keys |-> Never]
  /\ cycle' = [c \in Cycles |-> Started(c)]
  /\ mailed' = [b \in DOMAIN mailed |-> [mailed[b] EXCEPT !.times = <<>>]]
  /\ failed' = failed \cup
       {Item1(c).of : c \in {d \in Cycles : At(d, "mail") /\ Item1(d).kind = "sale"}}
  /\ UNCHANGED <<now, world, moves, told, lookedFrom>>

Goes(c) ==
  Fetch(c) \/ Step(c) \/ Sent(c) \/ saveState(c)

Next ==
  \/ NewBlock \/ WorldMoves \/ Tick
  \/ \E c \in Cycles : Goes(c) \/ FetchFails(c) \/ NotSent(c)
  \/ Restart

Spec == Init /\ [][Next]_vars

\* Timers fire, the node answers, the mail server takes what it does not
\* refuse, and the event loop gets to every callback in turn.
FairSpec == Spec /\ \A c \in Cycles : SF_vars(Goes(c))
-----------------------------------------------------------------------------
(* Properties                                                              *)

BeingMailed(b) ==
  \E c \in Cycles : At(c, "mail") /\ Item1(c).kind = "sale" /\ Item1(c).of = b

\* index.js 139-164, mailer.js 29-50: the cursor passes no sale untold, whatever
\* cycles overlap and wherever the process dies: it was mailed, is being
\* mailed, or its own mail has failed.
CursorSkipsNothing ==
  \A b \in sales : b \in lookedFrom .. lastDispenserBlock
    => mailed[b].ever \/ BeingMailed(b) \/ b \in failed

\* mailer.js 21-33: no sale is told twice within a cooldown by one life of the
\* process, though two cycles may be at the same block.
ToldOnce ==
  \A b \in 1 .. MaxBlock :
    LET times == mailed[b].times IN
    \A m, n \in DOMAIN times :
      m # n => times[m] - times[n] >= COOLDOWN_MS
               \/ times[n] - times[m] >= COOLDOWN_MS

\* index.js 34-54: a validator recorded as active, in memory and in the file, that
\* is jailed is told in the end, as a jailing or as a new validator that is jailed, although mails fail,
\* the node fails, cycles overlap or the process dies; unless the jailing is
\* over or the state was lost.
JailTold ==
  \A v \in Validators :
    (validators[v] = "active" /\ file.validators[v] = "active" /\ v \in jailed)
      ~> (v \in told \/ v \notin jailed \/ validators[v] = "unseen")
=============================================================================
