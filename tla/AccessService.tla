---------------------------- MODULE AccessService ----------------------------
(***************************************************************************)
(* Workplace access: the service that keeps employees and their            *)
(* capabilities in PostgreSQL (services/access-control), the soulbound     *)
(* tokens of AccessControlNFT that open the doors, and the outbox of       *)
(* revocations that failed, which a worker tries again.                    *)
(*                                                                         *)
(* A request holds no database transaction while it waits for the chain:   *)
(* each query commits on its own, and another request may run between any  *)
(* two of them.  All transactions to the chain go through one queue.  A    *)
(* crash loses the requests, the queue and the worker's runs, and keeps    *)
(* the database and whatever transaction is out.                           *)
(*                                                                         *)
(* One institution: row-level security keeps the rows of others apart.     *)
(***************************************************************************)
EXTENDS Naturals, Sequences, FiniteSets

CONSTANTS
  Employees,   \* ids; an erased one never comes back
  WalletOf,    \* the wallet each is registered with
  Zones,
  NRequests,   \* the requests of a behaviour, numbered as they arrive
  Workers,     \* runs of the outbox worker that may overlap
  Limit,       \* rows the worker reads in one run
  MaxFaults    \* bound: failures of database and node, and crashes

Requests == 1 .. NRequests

ASSUME AccessAssumption ==
  /\ WalletOf \in [Employees -> STRING]
  /\ NRequests \in Nat /\ Requests \cap Workers = {}
  /\ Limit \in Nat \ {0} /\ MaxFaults \in Nat

VARIABLES
  employees,     \* rows: the employees there are
  erased,        \* history: those that were there and are not
  capabilities,  \* rows: which request granted which zone to whom
  logs,          \* rows: the employees access logs refer to
  outbox,        \* rows in the order they were created, never removed
  token,         \* the chain: who holds which zone
  stray,         \* transactions that are out and nobody waits for
  queue,         \* whose transaction is due, in order
  req, run,      \* the requests, and the worker's runs
  faults

database == <<employees, erased, capabilities, logs, outbox>>
chain == <<token, stray>>
vars == <<database, chain, queue, req, run, faults>>

Key(w, z) == <<w, z>>
Idle == [at |-> "idle"]
At(r, step) == req[r].at = step
Ends(r, how) == req' = [req EXCEPT ![r].at = how]

Init ==
  /\ employees = {} /\ erased = {} /\ capabilities = {} /\ logs = {}
  /\ outbox = <<>>
  /\ token = {} /\ stray = {}
  /\ queue = <<>>
  /\ req = [r \in Requests |-> Idle]
  /\ run = [w \in Workers |-> Idle]
  /\ faults = 0

Fault == faults < MaxFaults /\ faults' = faults + 1

Arrives(r) == At(r, "idle") /\ (r > 1 => ~At(r - 1, "idle"))

-----------------------------------------------------------------------------
(* The contract and the queue of transactions                              *)

\* What a process has in the queue.
JobOf(p) ==
  IF p \in Workers
  THEN [do |-> "revoke", key |-> Key(outbox[Head(run[p].page)].wallet,
                                     outbox[Head(run[p].page)].zone)]
  ELSE IF req[p].kind = "grant"
       THEN [do |-> "grant", key |-> Key(WalletOf[req[p].emp], req[p].zone)]
       ELSE [do |-> "revoke", key |-> Key(WalletOf[req[p].emp], req[p].cap.zone)]

\* AlreadyGranted and NotGranted.
Accepts(job) == IF job.do = "grant" THEN job.key \notin token
                                    ELSE job.key \in token

Effect(job) == IF job.do = "grant" THEN token \cup {job.key}
                                   ELSE token \ {job.key}

First(p) == queue # <<>> /\ Head(queue) = p

\* The transaction of p has landed and its receipt is in.
Lands(p) ==
  /\ First(p) /\ Accepts(JobOf(p))
  /\ token' = Effect(JobOf(p))
  /\ queue' = Tail(queue)
  /\ UNCHANGED <<stray, faults>>

\* It reverts, or the node fails: then it may be out all the same.
Throws(p) ==
  /\ First(p)
  /\ queue' = Tail(queue)
  /\ \/ ~Accepts(JobOf(p)) /\ UNCHANGED <<chain, faults>>
     \/ /\ Accepts(JobOf(p)) /\ Fault
        /\ stray' \in {stray, stray \cup {JobOf(p)}}
        /\ UNCHANGED token

\* A block takes a transaction nobody waits for, which may revert.
StrayLands ==
  \E job \in stray :
    /\ token' = IF Accepts(job) THEN Effect(job) ELSE token
    /\ stray' = stray \ {job}
    /\ UNCHANGED <<database, queue, req, run, faults>>

-----------------------------------------------------------------------------
(* Employees, logs and capabilities                                        *)

\* POST /employees: a wallet is registered once at a time.
CreateEmployee(e) ==
  /\ e \notin employees \cup erased
  /\ \A f \in employees : WalletOf[f] # WalletOf[e]
  /\ employees' = employees \cup {e}
  /\ UNCHANGED <<erased, capabilities, logs, outbox, chain, queue, req, run,
                 faults>>

\* Changed: rows may refer to an employee that is gone.
RefersFreely(e) == TRUE

\* The foreign keys of capabilities and access_logs.
Refers(e) == e \in employees

\* POST /access-logs, up to the insert.
LogRequest(r, e) ==
  /\ Arrives(r) /\ e \in employees
  /\ req' = [req EXCEPT ![r] = [at |-> "log", kind |-> "log", emp |-> e]]
  /\ UNCHANGED <<database, chain, queue, run, faults>>

LogAccess(r) ==
  /\ At(r, "log")
  /\ \/ Refers(req[r].emp) /\ logs' = logs \cup {req[r].emp} /\ UNCHANGED faults
     \/ ~Refers(req[r].emp) /\ UNCHANGED <<logs, faults>>
     \/ Fault /\ UNCHANGED logs
  /\ Ends(r, "done")
  /\ UNCHANGED <<employees, erased, capabilities, outbox, chain, queue, run>>

\* POST /capabilities: the wallet is read, the grant takes its turn.
GrantRequest(r, e, z) ==
  /\ Arrives(r) /\ e \in employees
  /\ req' = [req EXCEPT ![r] = [at |-> "grant", kind |-> "grant", emp |-> e,
                                zone |-> z]]
  /\ queue' = Append(queue, r)
  /\ UNCHANGED <<database, chain, run, faults>>

Granted(r) ==
  /\ At(r, "grant") /\ Lands(r)
  /\ Ends(r, "row")
  /\ UNCHANGED <<database, run>>

\* Changed: the capability is recorded although the grant failed.
RecordsAnyhow(r) ==
  /\ At(r, "grant") /\ Throws(r)
  /\ Ends(r, "row")
  /\ UNCHANGED <<database, run>>

\* Nothing is recorded, whether the transaction is out or not.
GrantThrows(r) ==
  /\ At(r, "grant") /\ Throws(r)
  /\ Ends(r, IF Accepts(JobOf(r)) THEN "unsure" ELSE "done")
  /\ UNCHANGED <<database, run>>

CreateCapability(r) ==
  /\ At(r, "row") /\ Refers(req[r].emp)
  /\ capabilities' = capabilities \cup
       {[emp |-> req[r].emp, zone |-> req[r].zone, by |-> r]}
  /\ Ends(r, "done")
  /\ UNCHANGED <<employees, erased, logs, outbox, chain, queue, run, faults>>

\* The employee was erased meanwhile, or the database fails.
CapabilityFails(r) ==
  /\ At(r, "row")
  /\ (~Refers(req[r].emp) /\ UNCHANGED faults) \/ Fault
  /\ Ends(r, "norow")
  /\ UNCHANGED <<database, chain, queue, run>>

-----------------------------------------------------------------------------
(* DELETE /employees/:id                                                   *)

\* getEmployeeCapabilities: what is to be revoked later.  An id that is
\* unknown, or is being erased already, is not refused.
EraseRequest(r, e) ==
  /\ Arrives(r) /\ e \in employees \cup erased
  /\ req' = [req EXCEPT ![r] =
       [at |-> "delete", kind |-> "erase", emp |-> e, missed |-> {},
        cap |-> Idle, left |-> {c \in capabilities : c.emp = e}]]
  /\ UNCHANGED <<database, chain, queue, run, faults>>

\* deleteEmployee: capabilities cascade, logs are set to NULL.  A capability
\* recorded since the list was read goes with its employee, unrevoked.
DeleteEmployee(r) ==
  LET e == req[r].emp IN
  /\ At(r, "delete")
  /\ employees' = employees \ {e}
  /\ erased' = erased \cup {e}
  /\ capabilities' = {c \in capabilities : c.emp # e}
  /\ logs' = logs \ {e}
  /\ req' = [req EXCEPT ![r].at = "next", ![r].missed =
       {c.zone : c \in {d \in capabilities : d.emp = e} \ req[r].left}]
  /\ UNCHANGED <<outbox, chain, queue, run, faults>>

DeleteFails(r) ==
  /\ At(r, "delete") /\ Fault
  /\ Ends(r, "done")
  /\ UNCHANGED <<database, chain, queue, run>>

\* The loop over what was captured, in the order the database gave it.
RevokeNext(r) ==
  /\ At(r, "next")
  /\ \/ /\ req[r].left = {}
        /\ Ends(r, "done")
        /\ UNCHANGED queue
     \/ \E c \in req[r].left :
          /\ req' = [req EXCEPT ![r].at = "revoke", ![r].cap = c,
                                ![r].left = @ \ {c}]
          /\ queue' = Append(queue, r)
  /\ UNCHANGED <<database, chain, run, faults>>

Revoked(r) ==
  /\ At(r, "revoke") /\ Lands(r)
  /\ req' = [req EXCEPT ![r].at = "next", ![r].cap = Idle]
  /\ UNCHANGED <<database, run>>

\* Changed: the failure is only reported.
OnlyReports(r) ==
  /\ At(r, "revoke") /\ Throws(r)
  /\ req' = [req EXCEPT ![r].at = "next", ![r].cap = Idle]
  /\ UNCHANGED <<database, run>>

RevokeThrows(r) ==
  /\ At(r, "revoke") /\ Throws(r)
  /\ Ends(r, "record")
  /\ UNCHANGED <<database, run>>

\* recordFailedRevocation; when that fails too, nothing remembers the token.
Record(r) ==
  /\ At(r, "record")
  /\ outbox' = Append(outbox, [wallet |-> WalletOf[req[r].emp],
                               zone |-> req[r].cap.zone, retried |-> FALSE])
  /\ req' = [req EXCEPT ![r].at = "next", ![r].cap = Idle]
  /\ UNCHANGED <<employees, erased, capabilities, logs, chain, queue, run,
                 faults>>

RecordFails(r) ==
  /\ At(r, "record") /\ Fault
  /\ req' = [req EXCEPT ![r].at = "next", ![r].cap = Idle,
                        ![r].missed = @ \cup {req[r].cap.zone}]
  /\ UNCHANGED <<database, chain, queue, run>>

-----------------------------------------------------------------------------
(* The outbox worker                                                       *)

Pending(i) == i \in DOMAIN outbox /\ ~outbox[i].retried

\* listPendingRevocations: the oldest rows that are not retried.
Page ==
  {i \in DOMAIN outbox :
     Pending(i) /\ Cardinality({j \in DOMAIN outbox : Pending(j) /\ j < i}) < Limit}

InOrder(S) == [n \in 1 .. Cardinality(S) |->
                 CHOOSE i \in S : Cardinality({j \in S : j < i}) = n - 1]

\* The timer does not ask whether the last run has ended.
StartRun(w) ==
  /\ run[w] = Idle /\ Page # {}
  /\ run' = [run EXCEPT ![w] = [at |-> "revoke", page |-> InOrder(Page)]]
  /\ queue' = Append(queue, w)
  /\ UNCHANGED <<database, chain, req, faults>>

\* On to the next row: its revocation takes its turn.
NextRow(w) ==
  LET rest == Tail(run[w].page) IN
  IF rest = <<>>
  THEN run' = [run EXCEPT ![w] = Idle] /\ UNCHANGED queue
  ELSE /\ run' = [run EXCEPT ![w] = [at |-> "revoke", page |-> rest]]
       /\ queue' = Append(queue, w)

RetryLands(w) ==
  /\ run[w].at = "revoke" /\ Lands(w)
  /\ run' = [run EXCEPT ![w].at = "mark"]
  /\ UNCHANGED <<database, req>>

\* Changed: the row is done with, whatever became of it.
MarkedAnyhow(i) == [outbox EXCEPT ![i].retried = TRUE]

\* A row whose revocation failed stays for the next run.
LeftPending(i) == outbox

\* The loop goes on with the next row.
RetryThrows(w) ==
  LET rest == Tail(run[w].page) IN
  /\ run[w].at = "revoke" /\ First(w)
  /\ \/ ~Accepts(JobOf(w)) /\ UNCHANGED <<stray, faults>>
     \/ /\ Accepts(JobOf(w)) /\ Fault
        /\ stray' \in {stray, stray \cup {JobOf(w)}}
  /\ IF rest = <<>>
     THEN run' = [run EXCEPT ![w] = Idle] /\ queue' = Tail(queue)
     ELSE /\ run' = [run EXCEPT ![w] = [at |-> "revoke", page |-> rest]]
          /\ queue' = Append(Tail(queue), w)
  /\ outbox' = LeftPending(Head(run[w].page))
  /\ UNCHANGED <<employees, erased, capabilities, logs, token, req>>

MarkRetried(w) ==
  /\ run[w].at = "mark"
  /\ outbox' = [outbox EXCEPT ![Head(run[w].page)].retried = TRUE]
  /\ NextRow(w)
  /\ UNCHANGED <<employees, erased, capabilities, logs, chain, req, faults>>

\* Revoked on the chain, pending in the table.
MarkFails(w) ==
  /\ run[w].at = "mark" /\ Fault
  /\ NextRow(w)
  /\ UNCHANGED <<database, chain, req>>

-----------------------------------------------------------------------------
(* The process and the specification                                       *)

Final == {"idle", "done", "norow", "unsure", "died"}

\* The process dies and is started again; the transaction at the head of the
\* queue may be out.
Restart ==
  /\ Fault
  /\ stray' \in {stray} \cup (IF queue = <<>> THEN {}
                              ELSE {stray \cup {JobOf(Head(queue))}})
  /\ queue' = <<>>
  /\ req' = [r \in Requests |-> IF req[r].at \in Final THEN req[r]
                                ELSE [req[r] EXCEPT !.at = "died"]]
  /\ run' = [w \in Workers |-> Idle]
  /\ UNCHANGED <<database, token>>

Serve(r) ==
  \/ \E e \in Employees :
       \/ LogRequest(r, e) \/ EraseRequest(r, e)
       \/ \E z \in Zones : GrantRequest(r, e, z)
  \/ LogAccess(r)
  \/ Granted(r) \/ GrantThrows(r) \/ CreateCapability(r) \/ CapabilityFails(r)
  \/ DeleteEmployee(r) \/ DeleteFails(r) \/ RevokeNext(r)
  \/ Revoked(r) \/ RevokeThrows(r) \/ Record(r) \/ RecordFails(r)

Retry(w) ==
  \/ StartRun(w) \/ RetryLands(w) \/ RetryThrows(w)
  \/ MarkRetried(w) \/ MarkFails(w)

Next ==
  \/ \E e \in Employees : CreateEmployee(e)
  \/ \E r \in Requests : Serve(r)
  \/ \E w \in Workers : Retry(w)
  \/ StrayLands
  \/ Restart

Spec == Init /\ [][Next]_vars

\* The timer fires, the node answers, the database commits: what is due in the
\* process goes on.  And the chain takes what was sent: the wait for a receipt has
\* no deadline (chain.js 33, 40), so one transaction that no block takes would hold
\* the queue until a restart; Drained is stated where none does.
Goes(r) ==
  \/ Granted(r) \/ GrantThrows(r) \/ CreateCapability(r) \/ CapabilityFails(r)
  \/ LogAccess(r) \/ DeleteEmployee(r) \/ RevokeNext(r)
  \/ Revoked(r) \/ RevokeThrows(r) \/ Record(r)

FairSpec ==
  /\ Spec
  /\ \A r \in Requests : WF_vars(Goes(r))
  /\ \A w \in Workers : WF_vars(Retry(w))
-----------------------------------------------------------------------------
(* Properties                                                              *)

\* gdpr.js 26-33, schema.sql: once an employee is erased no row leads to them,
\* whatever was between two queries of another request when it happened.
Forgotten ==
  \A e \in erased : /\ e \notin employees \cup logs
                    /\ \A c \in capabilities : c.emp # e

Recorded(key) ==
  \E c \in capabilities : key = Key(WalletOf[c.emp], c.zone)

\* A request still has it in hand.
InHand(key) ==
  \E r \in Requests :
    \/ /\ req[r].at = "row"
       /\ key = Key(WalletOf[req[r].emp], req[r].zone)
    \/ /\ req[r].at \in {"delete", "next", "revoke", "record"}
       /\ \E c \in req[r].left \cup ({req[r].cap} \ {Idle}) :
            key = Key(WalletOf[c.emp], c.zone)

InOutbox(key) ==
  \E i \in DOMAIN outbox : Pending(i) /\ key = Key(outbox[i].wallet, outbox[i].zone)

\* The request lost track of the token, and its answer said so (or it died).
LostTrack(key) ==
  \E r \in Requests :
    \/ /\ req[r].at \in {"norow", "unsure", "died"}
       /\ key[1] = WalletOf[req[r].emp]
    \/ /\ req[r].at # "idle" /\ req[r].kind = "erase"
       /\ key[1] = WalletOf[req[r].emp] /\ key[2] \in req[r].missed

\* app.js 41-54, gdpr.js 34-55: a token on the chain is in a row of its holder, in
\* the hands of a request, or in the outbox, or a request that lost track of
\* it has failed.
TokensAccounted ==
  \A key \in token : Recorded(key) \/ InHand(key) \/ InOutbox(key) \/ LostTrack(key)

\* A recorded capability opens its door, unless its wallet belonged before to
\* an employee who was erased: a late revocation of that one takes the token.
RowsHaveTokens ==
  \A c \in capabilities :
    \/ Key(WalletOf[c.emp], c.zone) \in token
    \/ \E e \in erased : WalletOf[e] = WalletOf[c.emp]

\* Nothing but the outbox row answers for the token.
LeftToOutbox(i) ==
  LET key == Key(outbox[i].wallet, outbox[i].zone)
  IN key \in token /\ ~Recorded(key) /\ ~InHand(key) /\ ~LostTrack(key)

\* outbox.js 1-3: a token whose revocation failed is revoked in the end, from the
\* moment its row is among the Limit oldest that are pending (it moves up only
\* when one before it succeeds), unless it is granted again.
Drained ==
  \A i \in 1 .. NRequests :
    (i \in Page /\ LeftToOutbox(i)) ~> ~(i \in DOMAIN outbox /\ LeftToOutbox(i))
=============================================================================
