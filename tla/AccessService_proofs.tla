------------------------- MODULE AccessService_proofs -------------------------
(***************************************************************************)
(* What is left of an erased employee, which rows open their doors, and    *)
(* who answers for a token, for any employees, wallets, zones, requests,   *)
(* workers and faults.  The argument: the queue holds each process at most *)
(* once and only while its transaction is due (QueueOK), the worker's page *)
(* points into the outbox (RunsOK), and whatever may still revoke a token, *)
(* in the queue, in the outbox or out on the chain, is about a wallet of   *)
(* an employee who was erased (LateOK); what is out and would grant one is *)
(* known to a request that failed (HeldOK).                                *)
(***************************************************************************)
EXTENDS AccessService, SequenceTheorems, SetSums_proofs

-----------------------------------------------------------------------------
(* Sequences of anything                                                   *)

IsSeq(s) == \E S : s \in Seq(S)

LEMMA SeqLen ==
  ASSUME NEW s, IsSeq(s)
  PROVE  Len(s) \in Nat /\ DOMAIN s = 1 .. Len(s) /\ (s # <<>> => Len(s) >= 1)
<1>1. PICK S : s \in Seq(S)
  BY DEF IsSeq
<1> QED
  BY <1>1, LenProperties, EmptySeq

LEMMA SeqAppend ==
  ASSUME NEW s, IsSeq(s), NEW x
  PROVE  /\ IsSeq(Append(s, x)) /\ Len(Append(s, x)) = Len(s) + 1
         /\ \A k \in DOMAIN s : Append(s, x)[k] = s[k]
         /\ Append(s, x)[Len(s) + 1] = x
<1>1. PICK S : s \in Seq(S)
  BY DEF IsSeq
<1>2. s \in Seq(S \cup {x})
  BY <1>1, ElementOfSeq, SeqDef
<1>3. DOMAIN s = 1 .. Len(s)
  BY SeqLen
<1> QED
  BY <1>2, <1>3, AppendProperties DEF IsSeq

LEMMA SeqTail ==
  ASSUME NEW s, IsSeq(s), s # <<>>
  PROVE  /\ IsSeq(Tail(s)) /\ Len(Tail(s)) = Len(s) - 1 /\ Head(s) = s[1]
         /\ \A k \in DOMAIN Tail(s) : k + 1 \in DOMAIN s /\ Tail(s)[k] = s[k + 1]
<1>1. PICK S : s \in Seq(S)
  BY DEF IsSeq
<1>2. /\ Tail(s) \in Seq(S) /\ Len(Tail(s)) = Len(s) - 1 /\ Head(s) = s[1]
      /\ \A k \in 1 .. Len(s) - 1 : Tail(s)[k] = s[k + 1]
  BY <1>1, HeadTailProperties
<1>3. Len(s) \in Nat /\ DOMAIN s = 1 .. Len(s)
  BY SeqLen
<1>4. IsSeq(Tail(s)) /\ DOMAIN Tail(s) = 1 .. Len(s) - 1
  BY <1>2, SeqLen DEF IsSeq
<1> QED
  BY <1>2, <1>3, <1>4

LEMMA SeqEmpty == IsSeq(<<>>) /\ DOMAIN <<>> = {}
<1>1. <<>> \in Seq({})
  BY EmptySeq
<1> QED
  BY <1>1 DEF IsSeq

LEMMA SeqExcept ==
  ASSUME NEW s, IsSeq(s), NEW i \in DOMAIN s, NEW x
  PROVE  /\ IsSeq([s EXCEPT ![i] = x]) /\ Len([s EXCEPT ![i] = x]) = Len(s)
<1>1. PICK S : s \in Seq(S)
  BY DEF IsSeq
<1>2. s \in Seq(S \cup {x}) /\ i \in 1 .. Len(s)
  BY <1>1, ElementOfSeq, SeqDef, SeqLen
<1> QED
  BY <1>2, ExceptSeq DEF IsSeq

-----------------------------------------------------------------------------
(* The page of the worker                                                  *)

\* Of a set of positions, every number of elements is below one of them.
LEMMA EveryRank ==
  ASSUME NEW N \in Nat, NEW S \in SUBSET (1 .. N), NEW m \in Nat, m < Cardinality(S)
  PROVE  \E i \in S : Cardinality({j \in S : j < i}) = m
<1> DEFINE Below(k) == {j \in S : j < k}
           T == {k \in Nat : \A n \in Nat : n < Cardinality(Below(k + 1))
                               => \E i \in S : Cardinality(Below(i)) = n}
<1>0. \A j \in S : j \in Nat /\ j >= 1 /\ j <= N
  OBVIOUS
<1>1. IsFiniteSet(S)
  <2>1. IsFiniteSet(1 .. N)
    BY FS_Interval
  <2> QED
    BY <2>1, FS_Subset
<1>2. ASSUME NEW k PROVE IsFiniteSet(Below(k)) /\ Cardinality(Below(k)) \in Nat
  <2>1. Below(k) \in SUBSET S
    OBVIOUS
  <2> HIDE DEF Below
  <2> QED
    BY <1>1, <2>1, FS_Subset, FS_CardinalityType
<1>3. 0 \in T
  <2>0. \A j \in S : ~(j < 0 + 1)
    BY <1>0
  <2>1. Below(0 + 1) = {}
    BY <2>0
  <2>2. Cardinality(Below(0 + 1)) = 0
    BY <2>1, FS_EmptySet
  <2> HIDE DEF Below
  <2> QED
    BY <2>2
<1>4. ASSUME NEW k \in Nat, k \in T PROVE k + 1 \in T
  <2> SUFFICES ASSUME NEW n \in Nat, n < Cardinality(Below((k + 1) + 1))
               PROVE  \E i \in S : Cardinality(Below(i)) = n
    OBVIOUS
  <2>0. \A p \in Nat : p < Cardinality(Below(k + 1)) => \E i \in S : Cardinality(Below(i)) = p
    BY <1>4
  <2>3. /\ \A j \in S : j < (k + 1) + 1 <=> (j < k + 1 \/ j = k + 1)
        /\ ~(k + 1 < k + 1)
    BY <1>0
  <2>1. CASE k + 1 \in S
    <3>1. Below((k + 1) + 1) = Below(k + 1) \cup {k + 1} /\ k + 1 \notin Below(k + 1)
      BY <2>1, <2>3
    <3>2. Cardinality(Below((k + 1) + 1)) = Cardinality(Below(k + 1)) + 1
      BY <1>2, <3>1, FS_AddElement, SMTT(60)
    <3> HIDE DEF Below
    <3>3. n < Cardinality(Below(k + 1)) \/ n = Cardinality(Below(k + 1))
      BY <1>2, <3>2
    <3> QED
      BY <2>0, <2>1, <3>3
  <2>2. CASE k + 1 \notin S
    <3>1. Below((k + 1) + 1) = Below(k + 1)
      BY <2>2, <2>3
    <3> HIDE DEF Below
    <3> QED
      BY <2>0, <3>1
  <2> QED
    BY <2>1, <2>2
<1>5. Below(N + 1) = S
  <2>1. \A j \in S : j < N + 1
    BY <1>0
  <2> QED
    BY <2>1
<1> HIDE DEF T
<1>6. N \in T
  BY <1>3, <1>4, NatSetInduction
<1> QED
  BY <1>5, <1>6 DEF T

\* listPendingRevocations: a page is rows of the outbox, and is not empty when
\* it was read to be worked on.
LEMMA PageInOutbox ==
  ASSUME IsSeq(outbox), Page # {}
  PROVE  /\ IsSeq(InOrder(Page)) /\ InOrder(Page) # <<>>
         /\ \A k \in DOMAIN InOrder(Page) : InOrder(Page)[k] \in DOMAIN outbox
<1> DEFINE c == Cardinality(Page)
<1>1. Len(outbox) \in Nat /\ DOMAIN outbox = 1 .. Len(outbox)
  BY SeqLen
<1>2. Page \in SUBSET (1 .. Len(outbox)) /\ IsFiniteSet(Page)
  <2>1. Page \in SUBSET (1 .. Len(outbox))
    BY <1>1 DEF Page
  <2>2. IsFiniteSet(1 .. Len(outbox))
    BY <1>1, FS_Interval
  <2> QED
    BY <2>1, <2>2, FS_Subset
<1>3. c \in Nat /\ c # 0
  BY <1>2, FS_CardinalityType, FS_EmptySet
<1>4. ASSUME NEW n \in 1 .. c PROVE InOrder(Page)[n] \in Page
  <2>1. n - 1 \in Nat /\ n - 1 < c
    BY <1>3
  <2>2. \E i \in Page : Cardinality({j \in Page : j < i}) = n - 1
    BY <1>1, <1>2, <2>1, EveryRank, ZenonT(60)
  <2>3. InOrder(Page)[n] = CHOOSE i \in Page : Cardinality({j \in Page : j < i}) = n - 1
    BY <1>4 DEF InOrder
  <2> QED
    BY <2>2, <2>3
<1>5. InOrder(Page) \in [1 .. c -> Page]
  BY <1>4 DEF InOrder
<1>6. InOrder(Page) \in Seq(Page)
  BY <1>3, <1>5, SeqDef
<1>7. InOrder(Page) # <<>>
  <2>1. 1 \in DOMAIN InOrder(Page)
    BY <1>3, <1>5
  <2> QED
    BY <2>1, SeqEmpty
<1> QED
  BY <1>1, <1>2, <1>4, <1>5, <1>6, <1>7 DEF IsSeq

-----------------------------------------------------------------------------
(* The queue                                                               *)

\* A queue of some of the processes of D, each at most once.
QueueFit(q, D) ==
  /\ IsSeq(q)
  /\ \A k \in DOMAIN q : q[k] \in D
  /\ \A k, l \in DOMAIN q : q[k] = q[l] => k = l

LEMMA SameFit ==
  ASSUME NEW q, NEW D, NEW E, QueueFit(q, D), D \subseteq E
  PROVE  QueueFit(q, E)
  BY DEF QueueFit

LEMMA PushFit ==
  ASSUME NEW q, NEW D, NEW E, NEW p, QueueFit(q, D), p \notin D, D \cup {p} \subseteq E
  PROVE  QueueFit(Append(q, p), E)
<1>1. /\ IsSeq(Append(q, p)) /\ Len(Append(q, p)) = Len(q) + 1
      /\ \A k \in DOMAIN q : Append(q, p)[k] = q[k]
      /\ Append(q, p)[Len(q) + 1] = p
      /\ Len(q) \in Nat /\ DOMAIN q = 1 .. Len(q)
  BY SeqAppend, SeqLen DEF QueueFit
<1>2. DOMAIN Append(q, p) = DOMAIN q \cup {Len(q) + 1}
  BY <1>1, SeqLen
<1>3. \A k \in DOMAIN q : q[k] \in D /\ q[k] # p
  BY DEF QueueFit
<1> QED
  BY <1>1, <1>2, <1>3 DEF QueueFit

LEMMA PopFit ==
  ASSUME NEW q, NEW D, NEW E, QueueFit(q, D), q # <<>>, D \ {Head(q)} \subseteq E
  PROVE  QueueFit(Tail(q), E)
<1>1. /\ IsSeq(Tail(q)) /\ Head(q) = q[1]
      /\ \A k \in DOMAIN Tail(q) : k + 1 \in DOMAIN q /\ Tail(q)[k] = q[k + 1]
      /\ Len(Tail(q)) \in Nat /\ DOMAIN Tail(q) = 1 .. Len(Tail(q))
      /\ 1 \in DOMAIN q
  BY SeqTail, SeqLen DEF QueueFit
<1>2. ASSUME NEW k \in DOMAIN Tail(q) PROVE Tail(q)[k] \in D /\ Tail(q)[k] # Head(q)
  <2>1. k + 1 # 1
    BY <1>1
  <2> QED
    BY <1>1, <1>2, <2>1 DEF QueueFit
<1>3. ASSUME NEW k \in DOMAIN Tail(q), NEW l \in DOMAIN Tail(q), Tail(q)[k] = Tail(q)[l]
      PROVE  k = l
  <2>1. k + 1 = l + 1 /\ k \in Int /\ l \in Int
    BY <1>1, <1>3 DEF QueueFit
  <2> QED
    BY <2>1
<1> QED
  BY <1>1, <1>2, <1>3 DEF QueueFit

-----------------------------------------------------------------------------
(* The invariant                                                           *)

\* A request by what it has been through.
Fields(kind) ==
  {"at", "kind", "emp"} \cup (IF kind = "grant" THEN {"zone"} ELSE {})
                        \cup (IF kind = "erase" THEN {"missed", "cap", "left"} ELSE {})

Erasing == {"delete", "next", "revoke", "record"}

ReqOK(q) ==
  q.at # "idle" =>
    /\ DOMAIN q = Fields(q.kind)
    /\ q.at \in {"grant", "row"} => q.kind = "grant"
    /\ q.at \in Erasing => q.kind = "erase"
    /\ q.kind = "erase" => /\ \A c \in q.left : c.emp = q.emp /\ c # Idle
                           /\ q.cap # Idle => q.cap.emp = q.emp
    /\ q.at \in {"revoke", "record"} => q.cap # Idle
    /\ q.at = "delete" => q.missed = {} /\ q.cap = Idle

ReqsOK == DOMAIN req = Requests /\ \A r \in Requests : ReqOK(req[r])

\* The tables refer to employees there are.
RowsOK ==
  /\ employees \cap erased = {} /\ logs \subseteq employees
  /\ \A c \in capabilities : c.emp \in employees /\ c # Idle

RunOK(x, rows) ==
  x.at \in {"revoke", "mark"} =>
    /\ DOMAIN x = {"at", "page"} /\ IsSeq(x.page) /\ x.page # <<>>
    /\ \A k \in DOMAIN x.page : x.page[k] \in rows

RunsOK == DOMAIN run = Workers /\ \A w \in Workers : RunOK(run[w], DOMAIN outbox)

\* Who waits for a transaction.
Waiting ==
  {r \in Requests : req[r].at \in {"grant", "revoke"}}
    \cup {w \in Workers : run[w].at = "revoke"}

QueueOK == QueueFit(queue, Waiting)

\* Whatever may still revoke a token is about the wallet of an erased employee.
OfErased(wallet, E) == \E e \in E : WalletOf[e] = wallet

RowLate(x, E) == DOMAIN x = {"wallet", "zone", "retried"} /\ OfErased(x.wallet, E)
JobLate(j, E) == j.do \in {"grant", "revoke"} /\ (j.do = "revoke" => OfErased(j.key[1], E))

LateOK ==
  /\ IsSeq(outbox) /\ \A i \in DOMAIN outbox : RowLate(outbox[i], erased)
  /\ \A r \in Requests : req[r].at \in {"next", "revoke", "record"} => req[r].emp \in erased
  /\ \A j \in stray : JobLate(j, erased)

\* A grant that has landed opens its door, as its row will.
Opens(q, T, E) ==
  q.at = "row" => Key(WalletOf[q.emp], q.zone) \in T \/ OfErased(WalletOf[q.emp], E)

OpensOK == (\A r \in Requests : Opens(req[r], token, erased)) /\ RowsHaveTokens

\* What LostTrack and InHand say of one request; a request that has only
\* listed what it will revoke answers for nothing yet.
Lost(q, key) ==
  \/ q.at \in {"norow", "unsure", "died"} /\ key[1] = WalletOf[q.emp]
  \/ /\ q.at # "idle" /\ q.kind = "erase"
     /\ key[1] = WalletOf[q.emp] /\ key[2] \in q.missed

Holds(q, key) ==
  \/ q.at = "row" /\ key = Key(WalletOf[q.emp], q.zone)
  \/ /\ q.at \in {"next", "revoke", "record"}
     /\ \E c \in q.left : key = Key(WalletOf[c.emp], c.zone)
  \/ q.at \in {"revoke", "record"} /\ key = Key(WalletOf[q.cap.emp], q.cap.zone)

\* A pending row of the outbox that no run has come through with.
Marked(i) == \E w \in Workers : run[w].at = "mark" /\ Head(run[w].page) = i
InTurn(key) ==
  \E i \in DOMAIN outbox :
    ~outbox[i].retried /\ ~Marked(i) /\ key = Key(outbox[i].wallet, outbox[i].zone)

Answered(key) ==
  \/ Recorded(key) \/ InTurn(key)
  \/ \E r \in Requests : Holds(req[r], key) \/ Lost(req[r], key)

HeldOK ==
  /\ \A key \in token : Answered(key)
  /\ \A j \in stray : j.do = "grant" => \E r \in Requests : Lost(req[r], j.key)

AInv == ReqsOK /\ RowsOK /\ RunsOK /\ QueueOK /\ LateOK /\ OpensOK /\ HeldOK

-----------------------------------------------------------------------------
(* Requests                                                                *)

\* r moves, and its record stays one of its kind.
Moves(r) ==
  /\ DOMAIN req' = Requests /\ \A s \in Requests \ {r} : req'[s] = req[s]
  /\ ReqOK(req'[r]) /\ req'[r].at # "idle"
  /\ req[r].at # "idle" => req'[r].kind = req[r].kind /\ req'[r].emp = req[r].emp
  /\ \A key : Lost(req[r], key) => Lost(req'[r], key)

\* What goes on in req alone, from a step in the middle of the request.
LEMMA EndsMoves ==
  ASSUME ReqsOK, NEW r \in Requests, NEW how, Ends(r, how),
         req[r].at \notin {"idle", "norow", "unsure", "died"},
         how \notin {"idle", "grant", "delete", "revoke"},
         how = "row" => req[r].kind = "grant",
         how \in {"next", "record"} => req[r].kind = "erase",
         how = "record" => req[r].cap # Idle
  PROVE  Moves(r) /\ req'[r].at = how
                  /\ \A f \in DOMAIN req[r] \ {"at"} : req'[r][f] = req[r][f]
<1> DEFINE q == req[r]
           p == [q EXCEPT !.at = how]
<1>1. DOMAIN req = Requests /\ ReqOK(q) /\ q.at # "idle"
  BY DEF ReqsOK
<1>2. req' = [req EXCEPT ![r] = p]
  BY DEF Ends
<1>3. DOMAIN q = Fields(q.kind) /\ "at" \in DOMAIN q
  BY <1>1 DEF ReqOK, Fields
<1>4. DOMAIN p = DOMAIN q /\ p.at = how /\ \A f \in DOMAIN q \ {"at"} : p[f] = q[f]
  BY <1>3
<1>5. /\ p.kind = q.kind /\ p.emp = q.emp
      /\ q.kind = "erase" => p.missed = q.missed /\ p.cap = q.cap /\ p.left = q.left
  BY <1>3, <1>4 DEF Fields
<1> HIDE DEF p
<1>6. DOMAIN req' = Requests /\ req'[r] = p /\ \A s \in Requests \ {r} : req'[s] = req[s]
  BY <1>1, <1>2
<1>7. ReqOK(p)
  BY <1>1, <1>3, <1>4, <1>5 DEF ReqOK, Erasing
<1>8. \A key : Lost(q, key) => Lost(p, key)
  BY <1>1, <1>4, <1>5 DEF Lost
<1> HIDE DEF q
<1>9. Moves(r)
  BY <1>1, <1>4, <1>5, <1>6, <1>7, <1>8 DEF Moves, q
<1> QED
  BY <1>4, <1>6, <1>9 DEF q

\* A request arrives.
LEMMA ArrivesMoves ==
  ASSUME ReqsOK, NEW r \in Requests, NEW q, At(r, "idle"), req' = [req EXCEPT ![r] = q],
         ReqOK(q), q.at # "idle"
  PROVE  Moves(r) /\ req'[r] = q
<1>1. DOMAIN req = Requests /\ req[r].at = "idle"
  BY DEF ReqsOK, At
<1>2. DOMAIN req' = Requests /\ req'[r] = q /\ \A s \in Requests \ {r} : req'[s] = req[s]
  BY <1>1
<1>3. \A key : ~Lost(req[r], key)
  BY <1>1 DEF Lost
<1> QED
  BY <1>1, <1>2, <1>3 DEF Moves

\* An erasure goes from one step to another.
LEMMA ErasureMoves ==
  ASSUME ReqsOK, NEW r \in Requests, NEW q, req' = [req EXCEPT ![r] = q],
         req[r].at \in Erasing, DOMAIN q = DOMAIN req[r], q.at \in {"next", "revoke"},
         q.kind = req[r].kind, q.emp = req[r].emp, req[r].missed \subseteq q.missed,
         q.left \subseteq req[r].left,
         q.cap = Idle \/ q.cap \in req[r].left, q.at = "revoke" => q.cap \in req[r].left
  PROVE  Moves(r) /\ req'[r] = q
<1>1. DOMAIN req = Requests /\ ReqOK(req[r]) /\ req[r].at # "idle"
  BY DEF ReqsOK, Erasing
<1>2. DOMAIN req' = Requests /\ req'[r] = q /\ \A s \in Requests \ {r} : req'[s] = req[s]
  BY <1>1
<1>3. /\ DOMAIN req[r] = Fields(req[r].kind) /\ req[r].kind = "erase"
      /\ \A c \in req[r].left : c.emp = req[r].emp /\ c # Idle
  BY <1>1 DEF ReqOK
<1>4. ReqOK(q)
  BY <1>3 DEF ReqOK, Erasing
<1>5. \A key : Lost(req[r], key) => Lost(q, key)
  BY <1>3 DEF Lost, Erasing
<1> QED
  BY <1>1, <1>2, <1>4, <1>5 DEF Moves

LEMMA ArriveSteps ==
  ASSUME ReqsOK, RowsOK, NEW r \in Requests, NEW e \in Employees
  PROVE  /\ LogRequest(r, e) => Moves(r) /\ At(r, "idle") /\ req'[r].at = "log"
         /\ EraseRequest(r, e) => Moves(r) /\ At(r, "idle") /\ req'[r].at = "delete"
         /\ \A z \in Zones : GrantRequest(r, e, z) =>
              Moves(r) /\ At(r, "idle") /\ req'[r].at = "grant"
<1>1. ASSUME LogRequest(r, e)
      PROVE  Moves(r) /\ At(r, "idle") /\ req'[r].at = "log"
  <2> DEFINE q == [at |-> "log", kind |-> "log", emp |-> e]
  <2>1. req' = [req EXCEPT ![r] = q] /\ At(r, "idle")
    BY <1>1 DEF LogRequest, Arrives
  <2>2. ReqOK(q) /\ q.at # "idle" /\ q.at = "log"
    BY DEF ReqOK, Fields, Erasing
  <2> HIDE DEF q
  <2> QED
    BY <2>1, <2>2, ArrivesMoves
<1>2. ASSUME EraseRequest(r, e)
      PROVE  Moves(r) /\ At(r, "idle") /\ req'[r].at = "delete"
  <2> DEFINE q == [at |-> "delete", kind |-> "erase", emp |-> e, missed |-> {},
                   cap |-> Idle, left |-> {c \in capabilities : c.emp = e}]
  <2>1. req' = [req EXCEPT ![r] = q] /\ At(r, "idle")
    BY <1>2 DEF EraseRequest, Arrives
  <2>2. ReqOK(q) /\ q.at # "idle" /\ q.at = "delete"
    BY DEF ReqOK, Fields, Erasing, RowsOK
  <2> HIDE DEF q
  <2> QED
    BY <2>1, <2>2, ArrivesMoves
<1>3. ASSUME NEW z \in Zones, GrantRequest(r, e, z)
      PROVE  Moves(r) /\ At(r, "idle") /\ req'[r].at = "grant"
  <2> DEFINE q == [at |-> "grant", kind |-> "grant", emp |-> e, zone |-> z]
  <2>1. req' = [req EXCEPT ![r] = q] /\ At(r, "idle")
    BY <1>3 DEF GrantRequest, Arrives
  <2>2. ReqOK(q) /\ q.at # "idle" /\ q.at = "grant"
    BY DEF ReqOK, Fields, Erasing
  <2> HIDE DEF q
  <2> QED
    BY <2>1, <2>2, ArrivesMoves
<1> QED
  BY <1>1, <1>2, <1>3

\* r goes on to the step how, and nothing else of it changes.
GoesTo(r, how) ==
  /\ Moves(r) /\ req'[r].at = how
  /\ \A f \in DOMAIN req[r] \ {"at"} : req'[r][f] = req[r][f]

LEMMA EndSteps ==
  ASSUME ReqsOK, NEW r \in Requests
  PROVE  /\ LogAccess(r) => At(r, "log") /\ GoesTo(r, "done")
         /\ Granted(r) => At(r, "grant") /\ GoesTo(r, "row")
         /\ GrantThrows(r) => /\ At(r, "grant")
                              /\ IF Accepts(JobOf(r)) THEN GoesTo(r, "unsure")
                                 ELSE GoesTo(r, "done")
         /\ CreateCapability(r) => At(r, "row") /\ GoesTo(r, "done")
         /\ CapabilityFails(r) => At(r, "row") /\ GoesTo(r, "norow")
         /\ DeleteFails(r) => At(r, "delete") /\ GoesTo(r, "done")
         /\ RevokeThrows(r) => At(r, "revoke") /\ GoesTo(r, "record")
<1>0. /\ At(r, "grant") => req[r].kind = "grant"
      /\ At(r, "revoke") => req[r].kind = "erase" /\ req[r].cap # Idle
  BY DEF ReqsOK, ReqOK, At, Erasing
<1>1. LogAccess(r) => At(r, "log") /\ GoesTo(r, "done")
  BY EndsMoves DEF LogAccess, At, GoesTo
<1>2. Granted(r) => At(r, "grant") /\ GoesTo(r, "row")
  BY <1>0, EndsMoves DEF Granted, At, GoesTo
<1>3. ASSUME GrantThrows(r)
      PROVE  /\ At(r, "grant")
             /\ IF Accepts(JobOf(r)) THEN GoesTo(r, "unsure") ELSE GoesTo(r, "done")
  <2>1. At(r, "grant") /\ Ends(r, IF Accepts(JobOf(r)) THEN "unsure" ELSE "done")
    BY <1>3 DEF GrantThrows
  <2>2. CASE Accepts(JobOf(r))
    <3>1. Ends(r, "unsure")
      BY <2>1, <2>2
    <3> QED
      BY <2>1, <2>2, <3>1, EndsMoves DEF At, GoesTo
  <2>3. CASE ~Accepts(JobOf(r))
    <3>1. Ends(r, "done")
      BY <2>1, <2>3
    <3> QED
      BY <2>1, <2>3, <3>1, EndsMoves DEF At, GoesTo
  <2> QED
    BY <2>2, <2>3
<1>4. CreateCapability(r) => At(r, "row") /\ GoesTo(r, "done")
  BY EndsMoves DEF CreateCapability, At, GoesTo
<1>5. CapabilityFails(r) => At(r, "row") /\ GoesTo(r, "norow")
  BY EndsMoves DEF CapabilityFails, At, GoesTo
<1>6. DeleteFails(r) => At(r, "delete") /\ GoesTo(r, "done")
  BY EndsMoves DEF DeleteFails, At, GoesTo
<1>7. RevokeThrows(r) => At(r, "revoke") /\ GoesTo(r, "record")
  BY <1>0, EndsMoves DEF RevokeThrows, At, GoesTo
<1> QED
  BY <1>1, <1>2, <1>3, <1>4, <1>5, <1>6, <1>7

\* r, which is erasing, goes on to the step how with these fields.
Erases(r, how, missed, cap, left) ==
  /\ Moves(r) /\ req'[r].at = how /\ req'[r].emp = req[r].emp
  /\ req'[r].missed = missed /\ req'[r].cap = cap /\ req'[r].left = left

LEMMA EraseSteps ==
  ASSUME ReqsOK, NEW r \in Requests
  PROVE  /\ DeleteEmployee(r) => At(r, "delete") /\ Erases(r, "next",
              {c.zone : c \in {d \in capabilities : d.emp = req[r].emp} \ req[r].left},
              Idle, req[r].left)
         /\ RevokeNext(r) =>
              /\ At(r, "next")
              /\ \/ req[r].left = {} /\ GoesTo(r, "done") /\ queue' = queue
                 \/ \E c \in req[r].left :
                      /\ Erases(r, "revoke", req[r].missed, c, req[r].left \ {c})
                      /\ queue' = Append(queue, r)
         /\ Revoked(r) => /\ At(r, "revoke")
                          /\ Erases(r, "next", req[r].missed, Idle, req[r].left)
         /\ Record(r) => /\ At(r, "record")
                         /\ Erases(r, "next", req[r].missed, Idle, req[r].left)
         /\ RecordFails(r) => /\ At(r, "record")
                              /\ Erases(r, "next", req[r].missed \cup {req[r].cap.zone},
                                        Idle, req[r].left)
<1> DEFINE x == req[r]
<1>1. ASSUME x.at \in Erasing
      PROVE  /\ DOMAIN x = {"at", "kind", "emp", "missed", "cap", "left"} /\ x.kind = "erase"
             /\ x.at = "delete" => x.missed = {} /\ x.cap = Idle
  <2>1. ReqOK(x) /\ x.at # "idle"
    BY <1>1 DEF ReqsOK, Erasing
  <2> HIDE DEF x
  <2> QED
    BY <1>1, <2>1 DEF ReqOK, Fields
<1>2. DeleteEmployee(r) => At(r, "delete") /\ Erases(r, "next",
        {c.zone : c \in {d \in capabilities : d.emp = x.emp} \ x.left}, Idle, x.left)
  <2> SUFFICES ASSUME DeleteEmployee(r)
               PROVE  At(r, "delete") /\ Erases(r, "next",
        {c.zone : c \in {d \in capabilities : d.emp = x.emp} \ x.left}, Idle, x.left)
    OBVIOUS
  <2> DEFINE M == {c.zone : c \in {d \in capabilities : d.emp = x.emp} \ x.left}
             q == [x EXCEPT !.at = "next", !.missed = M]
  <2>1. At(r, "delete") /\ req' = [req EXCEPT ![r] = q]
    BY DEF DeleteEmployee, ReqsOK
  <2> HIDE DEF M
  <2>2. /\ x.at \in Erasing /\ x.missed = {} /\ x.cap = Idle
        /\ DOMAIN q = DOMAIN x /\ q.at = "next" /\ q.kind = x.kind /\ q.emp = x.emp
        /\ q.missed = M /\ q.left = x.left /\ q.cap = Idle
    BY <1>1, <2>1 DEF At, Erasing
  <2> HIDE DEF q
  <2>3. Moves(r) /\ req'[r] = q
    BY <2>1, <2>2, ErasureMoves
  <2> QED
    BY <2>1, <2>2, <2>3 DEF Erases, M
<1>3. ASSUME RevokeNext(r)
      PROVE  /\ At(r, "next")
             /\ \/ x.left = {} /\ GoesTo(r, "done") /\ queue' = queue
                \/ \E c \in x.left : /\ Erases(r, "revoke", x.missed, c, x.left \ {c})
                                     /\ queue' = Append(queue, r)
  <2>1. At(r, "next")
    BY <1>3 DEF RevokeNext
  <2>2. CASE x.left = {} /\ Ends(r, "done") /\ UNCHANGED queue
    BY <2>1, <2>2, EndsMoves DEF At, GoesTo
  <2>3. CASE \E c \in x.left :
               /\ req' = [req EXCEPT ![r].at = "revoke", ![r].cap = c, ![r].left = @ \ {c}]
               /\ queue' = Append(queue, r)
    <3>1. PICK c \in x.left :
               /\ req' = [req EXCEPT ![r].at = "revoke", ![r].cap = c, ![r].left = @ \ {c}]
               /\ queue' = Append(queue, r)
      BY <2>3
    <3> DEFINE q == [x EXCEPT !.at = "revoke", !.cap = c, !.left = x.left \ {c}]
    <3>2. x.at \in Erasing
      BY <2>1 DEF At, Erasing
    <3>3. req' = [req EXCEPT ![r] = q]
      BY <1>1, <3>1, <3>2 DEF ReqsOK
    <3>4. /\ DOMAIN q = DOMAIN x /\ q.at = "revoke" /\ q.kind = x.kind /\ q.emp = x.emp
          /\ q.missed = x.missed /\ q.left = x.left \ {c} /\ q.cap = c
      BY <1>1, <3>2
    <3> HIDE DEF q
    <3>5. Moves(r) /\ req'[r] = q
      BY <3>1, <3>2, <3>3, <3>4, ErasureMoves
    <3> QED
      BY <2>1, <3>1, <3>4, <3>5 DEF Erases
  <2> QED
    BY <1>3, <2>2, <2>3 DEF RevokeNext
<1>4. ASSUME x.at \in Erasing, NEW M, x.missed \subseteq M,
             req' = [req EXCEPT ![r] = [x EXCEPT !.at = "next", !.cap = Idle, !.missed = M]]
      PROVE  Erases(r, "next", M, Idle, x.left)
  <2> DEFINE q == [x EXCEPT !.at = "next", !.cap = Idle, !.missed = M]
  <2>1. /\ DOMAIN q = DOMAIN x /\ q.at = "next" /\ q.kind = x.kind /\ q.emp = x.emp
        /\ q.missed = M /\ q.left = x.left /\ q.cap = Idle
    BY <1>1, <1>4
  <2>2. req' = [req EXCEPT ![r] = q]
    BY <1>4
  <2> HIDE DEF q
  <2>3. Moves(r) /\ req'[r] = q
    BY <1>4, <2>1, <2>2, ErasureMoves
  <2> QED
    BY <2>1, <2>3 DEF Erases
<1>5. ASSUME x.at \in Erasing, req' = [req EXCEPT ![r].at = "next", ![r].cap = Idle]
      PROVE  Erases(r, "next", x.missed, Idle, x.left)
  <2> DEFINE q == [x EXCEPT !.at = "next", !.cap = Idle]
  <2>1. /\ DOMAIN q = DOMAIN x /\ q.at = "next" /\ q.kind = x.kind /\ q.emp = x.emp
        /\ q.missed = x.missed /\ q.left = x.left /\ q.cap = Idle
    BY <1>1, <1>5
  <2>2. req' = [req EXCEPT ![r] = q]
    BY <1>5 DEF ReqsOK
  <2> HIDE DEF q
  <2>3. Moves(r) /\ req'[r] = q
    BY <1>5, <2>1, <2>2, ErasureMoves
  <2> QED
    BY <2>1, <2>3 DEF Erases
<1>6. Revoked(r) => At(r, "revoke") /\ Erases(r, "next", x.missed, Idle, x.left)
  BY <1>5 DEF Revoked, At, Erasing
<1>7. Record(r) => At(r, "record") /\ Erases(r, "next", x.missed, Idle, x.left)
  BY <1>5 DEF Record, At, Erasing
<1>8. RecordFails(r) => /\ At(r, "record")
                        /\ Erases(r, "next", x.missed \cup {x.cap.zone}, Idle, x.left)
  <2> SUFFICES ASSUME RecordFails(r)
               PROVE  /\ At(r, "record")
                      /\ Erases(r, "next", x.missed \cup {x.cap.zone}, Idle, x.left)
    OBVIOUS
  <2>1. At(r, "record") /\ x.at \in Erasing
    BY DEF RecordFails, At, Erasing
  <2>2. req' = [req EXCEPT ![r] =
                  [x EXCEPT !.at = "next", !.cap = Idle, !.missed = x.missed \cup {x.cap.zone}]]
    BY <1>1, <2>1 DEF RecordFails, ReqsOK
  <2> QED
    BY <1>4, <2>1, <2>2
<1> QED
  BY <1>2, <1>3, <1>6, <1>7, <1>8

-----------------------------------------------------------------------------
(* Runs of the worker                                                      *)

RunMoves(w) ==
  /\ DOMAIN run' = Workers /\ \A v \in Workers \ {w} : run'[v] = run[v]
  /\ RunOK(run'[w], DOMAIN outbox)

LEMMA IdleAt == Idle.at = "idle"
  BY DEF Idle

LEMMA RunsOn ==
  ASSUME RunsOK, NEW w \in Workers, NEW x, run' = [run EXCEPT ![w] = x],
         RunOK(x, DOMAIN outbox)
  PROVE  RunMoves(w) /\ run'[w] = x
  BY DEF RunsOK, RunMoves

\* The next row of a page.
LEMMA NextRowMoves ==
  ASSUME RunsOK, NEW w \in Workers, run[w].at \in {"revoke", "mark"}
  PROVE  LET rest == Tail(run[w].page)
             x == [at |-> "revoke", page |-> rest]
         IN  /\ rest = <<>> /\ run' = [run EXCEPT ![w] = Idle]
                  => RunMoves(w) /\ run'[w].at = "idle"
             /\ rest # <<>> /\ run' = [run EXCEPT ![w] = x]
                  => RunMoves(w) /\ run'[w].at = "revoke"
<1> DEFINE rest == Tail(run[w].page)
           x == [at |-> "revoke", page |-> rest]
<1>1. /\ IsSeq(run[w].page) /\ run[w].page # <<>>
      /\ \A k \in DOMAIN run[w].page : run[w].page[k] \in DOMAIN outbox
  BY DEF RunsOK, RunOK
<1>2. IsSeq(rest) /\ \A k \in DOMAIN rest : rest[k] \in DOMAIN outbox
  BY <1>1, SeqTail
<1>3. RunOK(Idle, DOMAIN outbox)
  BY IdleAt DEF RunOK
<1> HIDE DEF rest
<1>4. rest # <<>> => RunOK(x, DOMAIN outbox) /\ x.at = "revoke"
  BY <1>2 DEF RunOK
<1> HIDE DEF x
<1>5. rest = <<>> /\ run' = [run EXCEPT ![w] = Idle] => RunMoves(w) /\ run'[w].at = "idle"
  BY <1>3, RunsOn, IdleAt
<1>6. rest # <<>> /\ run' = [run EXCEPT ![w] = x] => RunMoves(w) /\ run'[w].at = "revoke"
  BY <1>4, RunsOn
<1> QED
  BY <1>5, <1>6 DEF x, rest

\* What the row at hand of a run is.
LEMMA RowAtHand ==
  ASSUME RunsOK, NEW w \in Workers, run[w].at \in {"revoke", "mark"}
  PROVE  Head(run[w].page) \in DOMAIN outbox
<1>1. /\ IsSeq(run[w].page) /\ run[w].page # <<>>
      /\ \A k \in DOMAIN run[w].page : run[w].page[k] \in DOMAIN outbox
  BY DEF RunsOK, RunOK
<1>2. Head(run[w].page) = run[w].page[1] /\ 1 \in DOMAIN run[w].page
  BY <1>1, SeqTail, SeqLen
<1> QED
  BY <1>1, <1>2

\* With or without another row in the page, w takes its turn at the end of q.
GoesOn(w, q) ==
  /\ RunMoves(w)
  /\ \/ run'[w].at = "idle" /\ queue' = q
     \/ run'[w].at = "revoke" /\ queue' = Append(q, w)

LEMMA RetrySteps ==
  ASSUME RunsOK, IsSeq(outbox), NEW w \in Workers
  PROVE  /\ StartRun(w) => /\ run[w].at = "idle" /\ RunMoves(w) /\ run'[w].at = "revoke"
                           /\ queue' = Append(queue, w)
         /\ RetryLands(w) => /\ run[w].at = "revoke" /\ RunMoves(w) /\ run'[w].at = "mark"
                             /\ run'[w].page = run[w].page
         /\ RetryThrows(w) => run[w].at = "revoke" /\ GoesOn(w, Tail(queue))
         /\ MarkRetried(w) \/ MarkFails(w) => run[w].at = "mark" /\ GoesOn(w, queue)
<1>1. ASSUME StartRun(w)
      PROVE  /\ run[w].at = "idle" /\ RunMoves(w) /\ run'[w].at = "revoke"
             /\ queue' = Append(queue, w)
  <2> DEFINE x == [at |-> "revoke", page |-> InOrder(Page)]
  <2>1. run[w] = Idle /\ Page # {} /\ run' = [run EXCEPT ![w] = x] /\ queue' = Append(queue, w)
    BY <1>1 DEF StartRun
  <2>2. RunOK(x, DOMAIN outbox) /\ x.at = "revoke"
    BY <2>1, PageInOutbox DEF RunOK
  <2> HIDE DEF x
  <2> QED
    BY <2>1, <2>2, RunsOn, IdleAt
<1>2. ASSUME RetryLands(w)
      PROVE  /\ run[w].at = "revoke" /\ RunMoves(w) /\ run'[w].at = "mark"
             /\ run'[w].page = run[w].page
  <2> DEFINE x == [run[w] EXCEPT !.at = "mark"]
  <2>1. run[w].at = "revoke" /\ run' = [run EXCEPT ![w] = x]
    BY <1>2 DEF RetryLands, RunsOK
  <2>2. RunOK(run[w], DOMAIN outbox) /\ DOMAIN run[w] = {"at", "page"}
    BY <2>1 DEF RunsOK, RunOK
  <2>3. DOMAIN x = {"at", "page"} /\ x.at = "mark" /\ x.page = run[w].page
    BY <2>2
  <2> HIDE DEF x
  <2>4. RunOK(x, DOMAIN outbox)
    BY <2>1, <2>2, <2>3 DEF RunOK
  <2> QED
    BY <2>1, <2>3, <2>4, RunsOn
<1>3. ASSUME RetryThrows(w)
      PROVE  run[w].at = "revoke" /\ GoesOn(w, Tail(queue))
  BY <1>3, NextRowMoves DEF RetryThrows, GoesOn
<1>4. ASSUME MarkRetried(w) \/ MarkFails(w)
      PROVE  run[w].at = "mark" /\ GoesOn(w, queue)
  BY <1>4, NextRowMoves DEF MarkRetried, MarkFails, NextRow, GoesOn
<1> QED
  BY <1>1, <1>2, <1>3, <1>4

-----------------------------------------------------------------------------
(* Tables and types                                                        *)

rows == <<employees, erased, capabilities, logs>>

LEMMA RowsSteps ==
  ASSUME RowsOK, Next
  PROVE  RowsOK' /\ erased \subseteq erased'
<1>1. CASE \E e \in Employees : CreateEmployee(e)
  BY <1>1 DEF CreateEmployee, RowsOK
<1>2. CASE \E r \in Requests : Serve(r)
  <2>1. PICK r \in Requests : Serve(r)
    BY <1>2
  <2>2. CASE LogAccess(r)
    BY <2>2 DEF LogAccess, Refers, RowsOK
  <2>3. CASE CreateCapability(r)
    <3> DEFINE c == [emp |-> req[r].emp, zone |-> req[r].zone, by |-> r]
    <3>1. c.emp = req[r].emp /\ c # Idle
      <4>1. DOMAIN c = {"emp", "zone", "by"} /\ DOMAIN Idle = {"at"}
        BY DEF Idle
      <4> QED
        BY <4>1
    <3>2. capabilities' = capabilities \cup {c} /\ UNCHANGED <<employees, erased, logs>>
      BY <2>3 DEF CreateCapability
    <3>3. req[r].emp \in employees
      BY <2>3 DEF CreateCapability, Refers
    <3> HIDE DEF c
    <3> QED
      BY <3>1, <3>2, <3>3 DEF RowsOK
  <2>4. CASE DeleteEmployee(r)
    BY <2>4 DEF DeleteEmployee, RowsOK
  <2>5. CASE UNCHANGED rows
    BY <2>5 DEF rows, RowsOK
  <2> QED
    BY <2>1, <2>2, <2>3, <2>4, <2>5
    DEF Serve, rows, database, LogRequest, EraseRequest, GrantRequest, Granted, GrantThrows,
        CapabilityFails, DeleteFails, RevokeNext, Revoked, RevokeThrows, Record, RecordFails
<1>3. CASE (\E w \in Workers : Retry(w)) \/ StrayLands \/ Restart
  <2>1. UNCHANGED rows
    BY <1>3 DEF rows, database, Retry, StartRun, RetryLands, RetryThrows, MarkRetried,
                MarkFails, StrayLands, Restart
  <2> QED
    BY <2>1 DEF rows, RowsOK
<1> QED
  BY <1>1, <1>2, <1>3 DEF Next

LEMMA ServeMoves ==
  ASSUME ReqsOK, RowsOK, NEW r \in Requests, Serve(r)
  PROVE  Moves(r) /\ run' = run
<1>1. Moves(r)
  BY ArriveSteps, EndSteps, EraseSteps DEF Serve, GoesTo, Erases
<1>2. run' = run
  BY DEF Serve, database, LogRequest, EraseRequest, GrantRequest, LogAccess, Granted,
         GrantThrows, CreateCapability, CapabilityFails, DeleteEmployee, DeleteFails,
         RevokeNext, Revoked, RevokeThrows, Record, RecordFails
<1> QED
  BY <1>1, <1>2

LEMMA RetryMoves ==
  ASSUME RunsOK, IsSeq(outbox), NEW w \in Workers, Retry(w)
  PROVE  RunMoves(w) /\ req' = req
<1>1. RunMoves(w)
  BY RetrySteps DEF Retry, GoesOn
<1>2. req' = req
  BY DEF Retry, StartRun, RetryLands, RetryThrows, MarkRetried, MarkFails
<1> QED
  BY <1>1, <1>2

\* What a restart does to a request.
LEMMA RestartMoves ==
  ASSUME ReqsOK, Restart
  PROVE  /\ DOMAIN req' = Requests
         /\ \A r \in Requests :
              /\ req[r].at \in Final => req'[r] = req[r]
              /\ req[r].at \notin Final =>
                   /\ req'[r].at = "died" /\ req'[r].emp = req[r].emp
              /\ ReqOK(req'[r])
              /\ \A key : Lost(req[r], key) => Lost(req'[r], key)
<1>1. req' = [r \in Requests |-> IF req[r].at \in Final THEN req[r]
                                ELSE [req[r] EXCEPT !.at = "died"]]
  BY DEF Restart
<1>2. ASSUME NEW r \in Requests, req[r].at \notin Final
      PROVE  /\ req'[r].at = "died" /\ req'[r].emp = req[r].emp /\ ReqOK(req'[r])
             /\ \A key : Lost(req[r], key) => Lost(req'[r], key)
  <2> DEFINE q == req[r]
             p == [q EXCEPT !.at = "died"]
  <2>1. ReqOK(q) /\ q.at # "idle" /\ req'[r] = p
    BY <1>1, <1>2 DEF ReqsOK, Final
  <2>2. DOMAIN q = Fields(q.kind)
    BY <2>1 DEF ReqOK
  <2>3. /\ DOMAIN p = DOMAIN q /\ p.at = "died" /\ p.emp = q.emp /\ p.kind = q.kind
        /\ q.kind = "erase" => p.missed = q.missed /\ p.cap = q.cap /\ p.left = q.left
    BY <2>2 DEF Fields
  <2> HIDE DEF p
  <2>4. ReqOK(p)
    BY <2>1, <2>2, <2>3 DEF ReqOK, Erasing
  <2>5. \A key : Lost(q, key) => Lost(p, key)
    BY <2>1, <2>3 DEF Lost
  <2> QED
    BY <2>1, <2>3, <2>4, <2>5
<1> QED
  BY <1>1, <1>2 DEF ReqsOK

LEMMA OutboxSteps ==
  ASSUME IsSeq(outbox), RunsOK, Next
  PROVE  /\ IsSeq(outbox')
         /\ \/ outbox' = outbox
            \/ \E r \in Requests : Record(r) /\ DOMAIN outbox \subseteq DOMAIN outbox'
            \/ \E w \in Workers : MarkRetried(w) /\ DOMAIN outbox' = DOMAIN outbox
<1>1. CASE outbox' = outbox
  BY <1>1
<1>2. CASE \E r \in Requests : Record(r)
  <2>1. PICK r \in Requests : Record(r)
    BY <1>2
  <2>2. \E x : outbox' = Append(outbox, x)
    BY <2>1 DEF Record
  <2>3. IsSeq(outbox') /\ Len(outbox') = Len(outbox) + 1
    BY <2>2, SeqAppend
  <2>4. DOMAIN outbox \subseteq DOMAIN outbox'
    BY <2>3, SeqLen
  <2> QED
    BY <2>1, <2>3, <2>4
<1>3. CASE \E w \in Workers : MarkRetried(w)
  <2>1. PICK w \in Workers : MarkRetried(w)
    BY <1>3
  <2>2. Head(run[w].page) \in DOMAIN outbox
    BY <2>1, RowAtHand DEF MarkRetried
  <2>3. PICK x : outbox' = [outbox EXCEPT ![Head(run[w].page)] = x]
    BY <2>1, <2>2, SeqLen DEF MarkRetried
  <2>4. IsSeq(outbox')
    BY <2>2, <2>3, SeqExcept
  <2>5. DOMAIN outbox' = DOMAIN outbox
    BY <2>3
  <2> QED
    BY <2>1, <2>4, <2>5
<1> QED
  BY <1>1, <1>2, <1>3, ZenonT(60)
  DEF Next, database, CreateEmployee, Serve, LogRequest, EraseRequest, GrantRequest, LogAccess,
      Granted, GrantThrows, CreateCapability, CapabilityFails, DeleteEmployee, DeleteFails,
      RevokeNext, Revoked, RevokeThrows, RecordFails, Retry, StartRun, RetryLands,
      RetryThrows, LeftPending, MarkFails, StrayLands, Restart

LEMMA TypesStep ==
  ASSUME ReqsOK, RowsOK, RunsOK, IsSeq(outbox), Next
  PROVE  ReqsOK' /\ RunsOK'
<1>1. DOMAIN outbox \subseteq DOMAIN outbox'
  BY OutboxSteps
<1>2. \A x : RunOK(x, DOMAIN outbox) => RunOK(x, DOMAIN outbox')
  BY <1>1 DEF RunOK
<1>3. CASE \E r \in Requests : Serve(r)
  <2>1. PICK r \in Requests : Moves(r) /\ run' = run
    BY <1>3, ServeMoves
  <2> QED
    BY <1>2, <2>1 DEF Moves, ReqsOK, RunsOK
<1>4. CASE \E w \in Workers : Retry(w)
  <2>1. PICK w \in Workers : RunMoves(w) /\ req' = req
    BY <1>4, RetryMoves
  <2> QED
    BY <1>2, <2>1 DEF RunMoves, ReqsOK, RunsOK
<1>5. CASE Restart
  <2>1. run' = [w \in Workers |-> Idle]
    BY <1>5 DEF Restart
  <2>2. \A w \in Workers : run'[w].at = "idle"
    BY <2>1, IdleAt
  <2>3. RunsOK'
    BY <2>1, <2>2 DEF RunsOK, RunOK
  <2> QED
    BY <1>5, <2>3, RestartMoves DEF ReqsOK
<1>6. CASE StrayLands \/ \E e \in Employees : CreateEmployee(e)
  <2>1. req' = req /\ run' = run
    BY <1>6 DEF StrayLands, CreateEmployee
  <2> QED
    BY <1>2, <2>1 DEF ReqsOK, RunsOK
<1> QED
  BY <1>3, <1>4, <1>5, <1>6 DEF Next

-----------------------------------------------------------------------------
(* Everyone has one place in the queue                                     *)

LEMMA QueueStep ==
  ASSUME AInv, Next
  PROVE  QueueOK'
<1>0. /\ ReqsOK /\ RowsOK /\ RunsOK /\ IsSeq(outbox) /\ QueueFit(queue, Waiting)
      /\ Requests \cap Workers = {}
  BY AccessAssumption DEF AInv, LateOK, QueueOK
<1>1. ASSUME NEW r \in Requests, Moves(r), run' = run
      PROVE  /\ Waiting \ {r} \subseteq Waiting'
             /\ req[r].at \notin {"grant", "revoke"} => r \notin Waiting
             /\ req'[r].at \in {"grant", "revoke"} => r \in Waiting'
  BY <1>0, <1>1 DEF Waiting, Moves
<1>2. ASSUME NEW w \in Workers, RunMoves(w), req' = req
      PROVE  /\ Waiting \ {w} \subseteq Waiting'
             /\ run[w].at # "revoke" => w \notin Waiting
             /\ run'[w].at = "revoke" => w \in Waiting'
  BY <1>0, <1>2 DEF Waiting, RunMoves
<1>3. CASE \E r \in Requests : Serve(r)
  <2>1. PICK r \in Requests : Serve(r) /\ Moves(r) /\ run' = run
    BY <1>0, <1>3, ServeMoves
  <2>2. CASE queue' = queue /\ r \notin Waiting
    <3>1. Waiting \subseteq Waiting'
      BY <1>1, <2>1, <2>2
    <3> QED
      BY <1>0, <2>2, <3>1, SameFit DEF QueueOK
  <2>3. CASE queue' = Append(queue, r) /\ r \notin Waiting /\ r \in Waiting'
    <3>1. Waiting \cup {r} \subseteq Waiting'
      BY <1>1, <2>1, <2>3
    <3> QED
      BY <1>0, <2>3, <3>1, PushFit DEF QueueOK
  <2>4. CASE queue' = Tail(queue) /\ queue # <<>> /\ Head(queue) = r
    <3>1. Waiting \ {r} \subseteq Waiting'
      BY <1>1, <2>1
    <3> QED
      BY <1>0, <2>4, <3>1, PopFit DEF QueueOK
  <2>5. \/ queue' = queue /\ req[r].at \notin {"grant", "revoke"}
        \/ /\ queue' = Append(queue, r) /\ req[r].at \notin {"grant", "revoke"}
           /\ req'[r].at \in {"grant", "revoke"}
        \/ queue' = Tail(queue) /\ queue # <<>> /\ Head(queue) = r
    <3>1. CASE Granted(r) \/ GrantThrows(r) \/ Revoked(r) \/ RevokeThrows(r)
      BY <3>1 DEF Granted, GrantThrows, Revoked, RevokeThrows, Lands, Throws, First
    <3>2. CASE RevokeNext(r)
      BY <1>0, <3>2, EraseSteps DEF At, Erases
    <3>3. CASE \E e \in Employees, z \in Zones : GrantRequest(r, e, z)
      BY <1>0, <3>3, ArriveSteps DEF At, GrantRequest
    <3>4. CASE \/ LogAccess(r) \/ CreateCapability(r) \/ CapabilityFails(r)
               \/ DeleteEmployee(r) \/ DeleteFails(r) \/ Record(r) \/ RecordFails(r)
               \/ \E e \in Employees : LogRequest(r, e) \/ EraseRequest(r, e)
      BY <3>4 DEF At, LogAccess, CreateCapability, CapabilityFails, DeleteEmployee, DeleteFails,
                  Record, RecordFails, LogRequest, EraseRequest, Arrives
    <3> QED
      BY <2>1, <3>1, <3>2, <3>3, <3>4 DEF Serve
  <2> QED
    BY <1>1, <2>1, <2>2, <2>3, <2>4, <2>5
<1>4. CASE \E w \in Workers : Retry(w)
  <2>1. PICK w \in Workers : Retry(w) /\ RunMoves(w) /\ req' = req
    BY <1>0, <1>4, RetryMoves
  <2>2. Waiting \ {w} \subseteq Waiting' /\ (run'[w].at = "revoke" => w \in Waiting')
    BY <1>2, <2>1
  <2>3. CASE StartRun(w)
    <3>1. queue' = Append(queue, w) /\ w \notin Waiting /\ Waiting \cup {w} \subseteq Waiting'
      BY <1>0, <1>2, <2>1, <2>2, <2>3, RetrySteps
    <3> QED
      BY <1>0, <3>1, PushFit DEF QueueOK
  <2>4. CASE RetryLands(w)
    <3>1. queue' = Tail(queue) /\ queue # <<>> /\ Head(queue) = w
      BY <2>4 DEF RetryLands, Lands, First
    <3> QED
      BY <1>0, <2>2, <3>1, PopFit DEF QueueOK
  <2>5. CASE RetryThrows(w)
    <3>1. queue # <<>> /\ Head(queue) = w /\ GoesOn(w, Tail(queue))
      BY <1>0, <2>5, RetrySteps DEF RetryThrows, First
    <3>2. QueueFit(Tail(queue), Waiting \ {w})
      BY <1>0, <3>1, PopFit
    <3>3. CASE queue' = Tail(queue)
      BY <2>2, <3>2, <3>3, SameFit DEF QueueOK
    <3>4. CASE run'[w].at = "revoke" /\ queue' = Append(Tail(queue), w)
      <4>1. w \notin Waiting \ {w} /\ (Waiting \ {w}) \cup {w} \subseteq Waiting'
        BY <2>2, <3>4
      <4> QED
        BY <3>2, <3>4, <4>1, PushFit DEF QueueOK
    <3> QED
      BY <3>1, <3>3, <3>4 DEF GoesOn
  <2>6. CASE MarkRetried(w) \/ MarkFails(w)
    <3>1. run[w].at = "mark" /\ GoesOn(w, queue)
      BY <1>0, <2>6, RetrySteps
    <3>2. w \notin Waiting /\ Waiting \subseteq Waiting'
      BY <1>2, <2>1, <2>2, <3>1
    <3>3. CASE queue' = queue
      BY <1>0, <3>2, <3>3, SameFit DEF QueueOK
    <3>4. CASE run'[w].at = "revoke" /\ queue' = Append(queue, w)
      <4>1. Waiting \cup {w} \subseteq Waiting'
        BY <2>2, <3>2, <3>4
      <4> QED
        BY <1>0, <3>2, <3>4, <4>1, PushFit DEF QueueOK
    <3> QED
      BY <3>1, <3>3, <3>4 DEF GoesOn
  <2> QED
    BY <2>1, <2>3, <2>4, <2>5, <2>6 DEF Retry
<1>5. CASE Restart
  <2>1. queue' = <<>>
    BY <1>5 DEF Restart
  <2>2. QueueFit(queue', Waiting')
    BY <2>1, SeqEmpty DEF QueueFit
  <2> QED
    BY <2>2 DEF QueueOK
<1>6. CASE StrayLands \/ \E e \in Employees : CreateEmployee(e)
  <2>1. req' = req /\ run' = run /\ queue' = queue
    BY <1>6 DEF StrayLands, CreateEmployee
  <2>2. Waiting' = Waiting
    BY <2>1 DEF Waiting
  <2> QED
    BY <1>0, <2>1, <2>2 DEF QueueOK
<1> QED
  BY <1>3, <1>4, <1>5, <1>6 DEF Next

-----------------------------------------------------------------------------
(* Transactions of an erased employee, and of no other, revoke             *)

LEMMA MoreErased ==
  ASSUME NEW D, NEW E, D \subseteq E
  PROVE  /\ \A w : OfErased(w, D) => OfErased(w, E)
         /\ \A x : RowLate(x, D) => RowLate(x, E)
         /\ \A j : JobLate(j, D) => JobLate(j, E)
  BY DEF OfErased, RowLate, JobLate

LEMMA JobsLate ==
  ASSUME ReqsOK, RunsOK, LateOK, NEW p \in Waiting
  PROVE  /\ JobLate(JobOf(p), erased)
         /\ JobOf(p).do = "grant" =>
              /\ p \in Requests /\ req[p].at = "grant"
              /\ JobOf(p).key = Key(WalletOf[req[p].emp], req[p].zone)
<1>1. CASE p \in Workers
  <2>1. run[p].at = "revoke" /\ p \notin Requests
    BY <1>1, AccessAssumption DEF Waiting
  <2>2. Head(run[p].page) \in DOMAIN outbox
    BY <1>1, <2>1, RowAtHand
  <2>3. OfErased(outbox[Head(run[p].page)].wallet, erased)
    BY <2>2 DEF LateOK, RowLate
  <2>4. JobOf(p).do = "revoke" /\ JobOf(p).key[1] = outbox[Head(run[p].page)].wallet
    BY <1>1 DEF JobOf, Key
  <2> QED
    BY <2>3, <2>4 DEF JobLate
<1>2. CASE p \notin Workers
  <2>1. p \in Requests /\ req[p].at \in {"grant", "revoke"} /\ ReqOK(req[p])
    BY <1>2 DEF Waiting, ReqsOK
  <2>2. CASE req[p].at = "grant"
    <3>1. req[p].kind = "grant"
      BY <2>1, <2>2 DEF ReqOK
    <3> QED
      BY <1>2, <2>1, <2>2, <3>1 DEF JobOf, JobLate
  <2>3. CASE req[p].at = "revoke"
    <3>1. req[p].kind = "erase" /\ req[p].emp \in erased
      BY <2>1, <2>3 DEF ReqOK, Erasing, LateOK
    <3>2. JobOf(p).do = "revoke" /\ JobOf(p).key[1] = WalletOf[req[p].emp]
      BY <1>2, <3>1 DEF JobOf, Key
    <3> QED
      BY <3>1, <3>2 DEF JobLate, OfErased
  <2> QED
    BY <2>1, <2>2, <2>3
<1> QED
  BY <1>1, <1>2

\* A transaction that is out with nobody waiting was someone's turn before.
LEMMA StraySteps ==
  ASSUME AInv, Next
  PROVE  \A j \in stray' : \/ j \in stray
                           \/ \E p \in Waiting : j = JobOf(p)
<1>1. QueueFit(queue, Waiting)
  BY DEF AInv, QueueOK
<1>2. queue # <<>> => Head(queue) \in Waiting
  <2>1. queue # <<>> => Head(queue) = queue[1] /\ 1 \in DOMAIN queue
    BY <1>1, SeqTail, SeqLen DEF QueueFit
  <2> QED
    BY <1>1, <2>1 DEF QueueFit
<1>3. ASSUME NEW p, Throws(p) PROVE \A j \in stray' : j \in stray \/ (p \in Waiting /\ j = JobOf(p))
  <2>1. p \in Waiting
    BY <1>2, <1>3 DEF Throws, First
  <2> QED
    BY <1>3, <2>1 DEF Throws, chain
<1>4. CASE \E r \in Requests : Serve(r)
  <2>1. PICK r \in Requests : Serve(r)
    BY <1>4
  <2>2. CASE stray' = stray
    BY <2>2
  <2>3. CASE Throws(r)
    BY <1>3, <2>3
  <2> QED
    BY <2>1, <2>2, <2>3
    DEF Serve, chain, LogRequest, EraseRequest, GrantRequest, LogAccess, Granted, Lands,
        GrantThrows, CreateCapability, CapabilityFails, DeleteEmployee, DeleteFails, RevokeNext,
        Revoked, RevokeThrows, Record, RecordFails
<1>5. CASE \E w \in Workers : Retry(w)
  <2>1. PICK w \in Workers : Retry(w)
    BY <1>5
  <2>2. CASE stray' = stray
    BY <2>2
  <2>3. CASE RetryThrows(w)
    <3>1. w \in Waiting /\ stray' \in {stray, stray \cup {JobOf(w)}}
      BY <1>2, <2>3 DEF RetryThrows, First
    <3> QED
      BY <3>1
  <2> QED
    BY <2>1, <2>2, <2>3 DEF Retry, chain, StartRun, RetryLands, Lands, MarkRetried, MarkFails
<1>6. CASE Restart
  <2>1. stray' \in {stray} \cup (IF queue = <<>> THEN {}
                                 ELSE {stray \cup {JobOf(Head(queue))}})
    BY <1>6 DEF Restart
  <2>2. CASE queue = <<>>
    BY <2>1, <2>2
  <2>3. CASE queue # <<>>
    BY <1>2, <2>1, <2>3
  <2> QED
    BY <2>2, <2>3
<1>7. CASE StrayLands \/ \E e \in Employees : CreateEmployee(e)
  BY <1>7 DEF StrayLands, CreateEmployee, chain
<1> QED
  BY <1>4, <1>5, <1>6, <1>7 DEF Next

\* A request that is past the deletion is about an employee who is erased.
LEMMA ErasedSteps ==
  ASSUME AInv, Next
  PROVE  \A r \in Requests : req'[r].at \in {"next", "revoke", "record"} => req'[r].emp \in erased'
<1>0. /\ ReqsOK /\ RowsOK /\ RunsOK /\ IsSeq(outbox) /\ erased \subseteq erased'
      /\ \A r \in Requests : req[r].at \in {"next", "revoke", "record"} => req[r].emp \in erased
  BY RowsSteps DEF AInv, LateOK
<1>1. CASE \E r \in Requests : Serve(r)
  <2>1. PICK r \in Requests : Serve(r) /\ Moves(r)
    BY <1>0, <1>1, ServeMoves
  <2>2. CASE req[r].at = "idle"
    <3>1. req'[r].at \in {"log", "delete", "grant"}
      BY <1>0, <2>1, <2>2, ArriveSteps
      DEF Serve, At, LogAccess, Granted, GrantThrows, CreateCapability, CapabilityFails,
          DeleteEmployee, DeleteFails, RevokeNext, Revoked, RevokeThrows, Record, RecordFails
    <3> QED
      BY <1>0, <2>1, <3>1 DEF Moves
  <2>3. CASE req[r].at \in {"next", "revoke", "record"}
    BY <1>0, <2>1, <2>3 DEF Moves
  <2>4. CASE DeleteEmployee(r)
    <3>1. req'[r].emp = req[r].emp /\ req[r].emp \in erased'
      BY <1>0, <2>4, EraseSteps DEF DeleteEmployee, Erases
    <3> QED
      BY <1>0, <2>1, <3>1 DEF Moves
  <2>5. CASE req[r].at \notin {"idle", "next", "revoke", "record"} /\ ~DeleteEmployee(r)
    <3>1. req'[r].at \in {"done", "row", "unsure", "norow"}
      BY <1>0, <2>1, <2>5, EndSteps, ZenonT(60)
      DEF Serve, At, GoesTo, LogRequest, EraseRequest, GrantRequest, Arrives, RevokeNext, Revoked,
          RevokeThrows, Record, RecordFails
    <3> QED
      BY <1>0, <2>1, <3>1 DEF Moves
  <2> QED
    BY <2>2, <2>3, <2>4, <2>5
<1>2. CASE Restart
  <2>1. ASSUME NEW r \in Requests, req'[r].at \in {"next", "revoke", "record"}
        PROVE  req'[r] = req[r]
    BY <1>0, <1>2, <2>1, RestartMoves
  <2> QED
    BY <1>0, <2>1
<1>3. CASE (\E w \in Workers : Retry(w)) \/ StrayLands \/ \E e \in Employees : CreateEmployee(e)
  <2>1. req' = req
    BY <1>0, <1>3, RetryMoves DEF StrayLands, CreateEmployee
  <2> QED
    BY <1>0, <2>1
<1> QED
  BY <1>1, <1>2, <1>3 DEF Next

LEMMA LateStep ==
  ASSUME AInv, Next
  PROVE  LateOK'
<1>0. /\ ReqsOK /\ RowsOK /\ RunsOK /\ IsSeq(outbox) /\ LateOK /\ erased \subseteq erased'
  BY RowsSteps DEF AInv, LateOK
<1>1. \A j \in stray' : JobLate(j, erased')
  <2>1. \A j \in stray' : JobLate(j, erased)
    BY <1>0, StraySteps, JobsLate DEF LateOK
  <2> QED
    BY <1>0, <2>1, MoreErased
<1>2. ASSUME NEW i \in DOMAIN outbox PROVE RowLate(outbox[i], erased')
  BY <1>0, MoreErased DEF LateOK
<1>3. \A i \in DOMAIN outbox' : RowLate(outbox'[i], erased')
  <2>1. CASE outbox' = outbox
    BY <1>2, <2>1
  <2>2. CASE \E r \in Requests : Record(r)
    <3>1. PICK r \in Requests : Record(r)
      BY <2>2
    <3> DEFINE x == [wallet |-> WalletOf[req[r].emp], zone |-> req[r].cap.zone,
                     retried |-> FALSE]
    <3>2. outbox' = Append(outbox, x) /\ req[r].emp \in erased
      BY <1>0, <3>1 DEF Record, At, LateOK
    <3>3. RowLate(x, erased')
      BY <1>0, <3>2 DEF RowLate, OfErased
    <3> HIDE DEF x
    <3>4. /\ IsSeq(outbox') /\ Len(outbox') = Len(outbox) + 1
          /\ \A k \in DOMAIN outbox : outbox'[k] = outbox[k]
          /\ outbox'[Len(outbox) + 1] = x
      BY <1>0, <3>2, SeqAppend
    <3>5. /\ Len(outbox) \in Nat /\ DOMAIN outbox = 1 .. Len(outbox)
          /\ DOMAIN outbox' = 1 .. Len(outbox')
      BY <1>0, <3>4, SeqLen
    <3>6. \A k \in DOMAIN outbox' : k \in DOMAIN outbox \/ k = Len(outbox) + 1
      BY <3>4, <3>5
    <3> QED
      BY <1>2, <3>3, <3>4, <3>6
  <2>3. CASE \E w \in Workers : MarkRetried(w)
    <3>1. PICK w \in Workers : MarkRetried(w)
      BY <2>3
    <3> DEFINE h == Head(run[w].page)
               x == [outbox[h] EXCEPT !.retried = TRUE]
    <3>2. h \in DOMAIN outbox
      BY <1>0, <3>1, RowAtHand DEF MarkRetried
    <3> HIDE DEF h
    <3>3. outbox' = [outbox EXCEPT ![h] = x]
      BY <3>1, <3>2 DEF MarkRetried, h
    <3>4. RowLate(x, erased')
      BY <1>2, <3>2 DEF RowLate
    <3> HIDE DEF x
    <3> QED
      BY <1>2, <3>3, <3>4
  <2> QED
    BY <1>0, <2>1, <2>2, <2>3, OutboxSteps
<1>4. IsSeq(outbox')
  BY <1>0, OutboxSteps
<1> QED
  BY <1>1, <1>3, <1>4, ErasedSteps DEF LateOK

-----------------------------------------------------------------------------
(* Rows open their doors                                                   *)

LEMMA KeyParts ==
  ASSUME NEW w, NEW z
  PROVE  Key(w, z)[1] = w /\ Key(w, z)[2] = z
  BY DEF Key

\* What lands was someone's turn.
LEMMA LandsInTurn ==
  ASSUME AInv, NEW p, First(p)
  PROVE  p \in Waiting
<1>1. QueueFit(queue, Waiting)
  BY DEF AInv, QueueOK
<1>2. queue # <<>> /\ Head(queue) = queue[1] /\ 1 \in DOMAIN queue
  BY <1>1, SeqTail, SeqLen DEF QueueFit, First
<1> QED
  BY <1>1, <1>2 DEF QueueFit, First

\* A transaction takes at most its own token, and only that of someone erased;
\* it gives at most its own.
LEMMA EffectLate ==
  ASSUME NEW j, JobLate(j, erased)
  PROVE  /\ \A key \in token \ Effect(j) : j.do = "revoke" /\ key = j.key
                                           /\ OfErased(key[1], erased)
         /\ \A key \in Effect(j) \ token : j.do = "grant" /\ key = j.key
         /\ j.do = "grant" => j.key \in Effect(j)
         /\ j.do = "revoke" => j.key \notin Effect(j)
  BY DEF JobLate, Effect

\* Whose transaction changes the chain.
LEMMA TokenSteps ==
  ASSUME AInv, Next
  PROVE  \/ token' = token
         \/ \E r \in Requests : /\ Granted(r) \/ Revoked(r)
                                /\ r \in Waiting /\ token' = Effect(JobOf(r))
         \/ \E w \in Workers : RetryLands(w) /\ w \in Waiting /\ token' = Effect(JobOf(w))
         \/ /\ \E j \in stray : token' = Effect(j) /\ stray' = stray \ {j}
            /\ UNCHANGED <<database, queue, req, run>>
<1>1. CASE \E r \in Requests : Serve(r)
  <2>1. PICK r \in Requests : Serve(r)
    BY <1>1
  <2>2. CASE Granted(r) \/ Revoked(r)
    BY <2>2, LandsInTurn DEF Granted, Revoked, Lands
  <2>3. CASE token' = token
    BY <2>3
  <2> QED
    BY <2>1, <2>2, <2>3
    DEF Serve, chain, LogRequest, EraseRequest, GrantRequest, LogAccess, Throws,
        GrantThrows, CreateCapability, CapabilityFails, DeleteEmployee, DeleteFails, RevokeNext,
        RevokeThrows, Record, RecordFails
<1>2. CASE \E w \in Workers : Retry(w)
  <2>1. PICK w \in Workers : Retry(w)
    BY <1>2
  <2>2. CASE RetryLands(w)
    BY <2>2, LandsInTurn DEF RetryLands, Lands
  <2>3. CASE token' = token
    BY <2>3
  <2> QED
    BY <2>1, <2>2, <2>3 DEF Retry, chain, StartRun, RetryThrows, MarkRetried, MarkFails
<1>3. CASE StrayLands
  BY <1>3 DEF StrayLands
<1>4. CASE Restart \/ \E e \in Employees : CreateEmployee(e)
  BY <1>4 DEF Restart, CreateEmployee, chain
<1> QED
  BY <1>1, <1>2, <1>3, <1>4 DEF Next

LEMMA TokensLost ==
  ASSUME AInv, Next
  PROVE  \A key \in token \ token' : OfErased(key[1], erased)
<1>1. \A p \in Waiting : JobLate(JobOf(p), erased)
  BY JobsLate DEF AInv
<1>2. \A j \in stray : JobLate(j, erased)
  BY DEF AInv, LateOK
<1> QED
  BY <1>1, <1>2, TokenSteps, EffectLate

\* Who is about to record a capability was so before, or has just been granted it.
LEMMA RowsToCome ==
  ASSUME AInv, Next, NEW r \in Requests, req'[r].at = "row"
  PROVE  \/ req'[r] = req[r]
         \/ Key(WalletOf[req'[r].emp], req'[r].zone) \in token'
<1>0. ReqsOK /\ RowsOK /\ RunsOK /\ IsSeq(outbox) /\ LateOK
  BY DEF AInv, LateOK
<1>1. CASE \E s \in Requests : Serve(s)
  <2>1. PICK s \in Requests : Serve(s) /\ Moves(s)
    BY <1>0, <1>1, ServeMoves
  <2>2. CASE r # s
    BY <2>1, <2>2 DEF Moves
  <2>3. CASE r = s
    <3>1. Granted(r)
      BY <1>0, <2>1, <2>3, ArriveSteps, EndSteps, EraseSteps DEF Serve, GoesTo, Erases
    <3>2. GoesTo(r, "row") /\ req[r].at = "grant"
      BY <1>0, <3>1, EndSteps DEF At
    <3>3. req[r].kind = "grant" /\ DOMAIN req[r] = {"at", "kind", "emp", "zone"}
      BY <1>0, <3>2 DEF ReqsOK, ReqOK, Fields
    <3>4. req'[r].emp = req[r].emp /\ req'[r].zone = req[r].zone
      BY <3>2, <3>3 DEF GoesTo
    <3>5. r \in Waiting /\ token' = Effect(JobOf(r)) /\ r \notin Workers
      BY <3>1, LandsInTurn, AccessAssumption DEF Granted, Lands
    <3>6. JobOf(r).do = "grant" /\ JobOf(r).key = Key(WalletOf[req[r].emp], req[r].zone)
      BY <3>3, <3>5 DEF JobOf
    <3>7. JobOf(r).key \in token'
      BY <3>5, <3>6 DEF Effect
    <3> QED
      BY <3>4, <3>6, <3>7
  <2> QED
    BY <2>2, <2>3
<1>2. CASE Restart
  BY <1>0, <1>2, RestartMoves DEF Final
<1>3. CASE (\E w \in Workers : Retry(w)) \/ StrayLands \/ \E e \in Employees : CreateEmployee(e)
  BY <1>0, <1>3, RetryMoves DEF StrayLands, CreateEmployee
<1> QED
  BY <1>1, <1>2, <1>3 DEF Next

LEMMA CapabilitySteps ==
  ASSUME AInv, Next
  PROVE  \/ capabilities' \subseteq capabilities
         \/ /\ token' = token
            /\ \E r \in Requests : /\ At(r, "row")
                 /\ capabilities' = capabilities \cup
                      {[emp |-> req[r].emp, zone |-> req[r].zone, by |-> r]}
<1>1. CASE \E r \in Requests : Serve(r)
  BY <1>1, ZenonT(60)
  DEF Serve, database, chain, LogRequest, EraseRequest, GrantRequest, LogAccess, Granted,
      GrantThrows, CreateCapability, CapabilityFails, DeleteEmployee, DeleteFails, RevokeNext,
      Revoked, RevokeThrows, Record, RecordFails
<1>2. CASE \/ \E w \in Workers : Retry(w)
           \/ StrayLands \/ Restart \/ \E e \in Employees : CreateEmployee(e)
  BY <1>2 DEF Retry, database, StartRun, RetryLands, RetryThrows, MarkRetried, MarkFails,
              StrayLands, Restart, CreateEmployee
<1> QED
  BY <1>1, <1>2 DEF Next

LEMMA OpensStep ==
  ASSUME AInv, Next
  PROVE  OpensOK'
<1> DEFINE Good(w, z, T, E) == Key(w, z) \in T \/ OfErased(w, E)
<1>1. ASSUME NEW w, NEW z, Good(w, z, token, erased) PROVE Good(w, z, token', erased')
  <2>1. erased \subseteq erased'
    BY RowsSteps DEF AInv
  <2>2. Key(w, z) \in token \ token' => OfErased(w, erased)
    BY TokensLost, KeyParts
  <2> QED
    BY <1>1, <2>1, <2>2, MoreErased
<1>2. \A r \in Requests : req[r].at = "row" => Good(WalletOf[req[r].emp], req[r].zone, token, erased)
  BY DEF AInv, OpensOK, Opens
<1>3. \A c \in capabilities : Good(WalletOf[c.emp], c.zone, token, erased)
  BY DEF AInv, OpensOK, RowsHaveTokens, OfErased
<1>4. \A r \in Requests :
        req'[r].at = "row" => Good(WalletOf[req'[r].emp], req'[r].zone, token', erased')
  <2> SUFFICES ASSUME NEW r \in Requests, req'[r].at = "row"
               PROVE  Good(WalletOf[req'[r].emp], req'[r].zone, token', erased')
    OBVIOUS
  <2>1. CASE req'[r] = req[r]
    BY <1>1, <1>2, <2>1
  <2>2. CASE Key(WalletOf[req'[r].emp], req'[r].zone) \in token'
    BY <2>2
  <2> QED
    BY <2>1, <2>2, RowsToCome
<1>5. \A c \in capabilities' : Good(WalletOf[c.emp], c.zone, token', erased')
  <2>1. CASE capabilities' \subseteq capabilities
    BY <1>1, <1>3, <2>1
  <2>2. ASSUME NEW r \in Requests, At(r, "row"), 
               capabilities' = capabilities \cup
                 {[emp |-> req[r].emp, zone |-> req[r].zone, by |-> r]}
        PROVE  \A c \in capabilities' : Good(WalletOf[c.emp], c.zone, token', erased')
    <3>1. Good(WalletOf[req[r].emp], req[r].zone, token', erased')
      BY <1>1, <1>2, <2>2 DEF At
    <3>2. \A c \in capabilities : Good(WalletOf[c.emp], c.zone, token', erased')
      BY <1>1, <1>3
    <3> HIDE DEF Good
    <3> QED
      BY <2>2, <3>1, <3>2
  <2> QED
    BY <2>1, <2>2, CapabilitySteps
<1> QED
  BY <1>4, <1>5 DEF OpensOK, Opens, RowsHaveTokens, OfErased

-----------------------------------------------------------------------------
(* Who answers for a token                                                 *)

\* No request forgets what it has lost track of.
LEMMA LostKept ==
  ASSUME AInv, Next
  PROVE  \A r \in Requests : \A key : Lost(req[r], key) => Lost(req'[r], key)
<1>0. ReqsOK /\ RowsOK /\ RunsOK /\ IsSeq(outbox)
  BY DEF AInv, LateOK
<1>1. CASE \E s \in Requests : Serve(s)
  <2>1. PICK s \in Requests : Moves(s)
    BY <1>0, <1>1, ServeMoves
  <2> QED
    BY <2>1 DEF Moves
<1>2. CASE Restart
  BY <1>0, <1>2, RestartMoves
<1>3. CASE (\E w \in Workers : Retry(w)) \/ StrayLands \/ \E e \in Employees : CreateEmployee(e)
  <2>1. req' = req
    BY <1>0, <1>3, RetryMoves DEF StrayLands, CreateEmployee
  <2> QED
    BY <2>1
<1> QED
  BY <1>1, <1>2, <1>3 DEF Next

\* A grant that is out with nobody waiting for it belongs to a request that failed.
LEMMA StrayGrants ==
  ASSUME AInv, Next
  PROVE  \A j \in stray' : j.do = "grant" => \E r \in Requests : Lost(req'[r], j.key)
<1>0. ReqsOK /\ RowsOK /\ RunsOK /\ IsSeq(outbox) /\ LateOK /\ Requests \cap Workers = {}
  BY AccessAssumption DEF AInv, LateOK
<1>1. \A j \in stray : j.do = "grant" => \E r \in Requests : Lost(req'[r], j.key)
  BY LostKept DEF AInv, HeldOK
<1>2. CASE \E r \in Requests : Serve(r)
  <2>1. PICK r \in Requests : Serve(r) /\ Moves(r)
    BY <1>0, <1>2, ServeMoves
  <2>2. CASE stray' \subseteq stray
    BY <1>1, <2>2
  <2>3. CASE GrantThrows(r) /\ stray' = stray \cup {JobOf(r)} /\ Accepts(JobOf(r))
    <3>1. GoesTo(r, "unsure") /\ req[r].at = "grant"
      BY <1>0, <2>3, EndSteps DEF At
    <3>2. req'[r].emp = req[r].emp /\ req'[r].at = "unsure"
      BY <3>1 DEF GoesTo, Moves
    <3>3. r \in Waiting
      BY <3>1 DEF Waiting
    <3>4. JobOf(r).do = "grant" => JobOf(r).key[1] = WalletOf[req[r].emp]
      BY <1>0, <3>3, JobsLate, KeyParts
    <3>5. JobOf(r).do = "grant" => Lost(req'[r], JobOf(r).key)
      BY <3>2, <3>4 DEF Lost
    <3> QED
      BY <1>1, <2>3, <3>5
  <2>4. CASE RevokeThrows(r) /\ stray' = stray \cup {JobOf(r)}
    <3>1. req[r].at = "revoke" /\ r \notin Workers
      BY <1>0, <2>4 DEF RevokeThrows, At
    <3>2. req[r].kind = "erase"
      BY <1>0, <3>1 DEF ReqsOK, ReqOK, Erasing
    <3>3. JobOf(r).do = "revoke"
      BY <3>1, <3>2 DEF JobOf
    <3> QED
      BY <1>1, <2>4, <3>3
  <2>5. \/ stray' \subseteq stray
        \/ /\ GrantThrows(r) \/ RevokeThrows(r)
           /\ stray' = stray \cup {JobOf(r)} /\ Accepts(JobOf(r))
    BY <2>1
    DEF Serve, chain, LogRequest, EraseRequest, GrantRequest, LogAccess, Granted, Lands, Throws,
        GrantThrows, CreateCapability, CapabilityFails, DeleteEmployee, DeleteFails, RevokeNext,
        Revoked, RevokeThrows, Record, RecordFails
  <2> QED
    BY <2>2, <2>3, <2>4, <2>5
<1>3. CASE \E w \in Workers : Retry(w)
  <2>1. PICK w \in Workers : Retry(w)
    BY <1>3
  <2>2. JobOf(w).do = "revoke"
    BY DEF JobOf
  <2>3. stray' \subseteq stray \cup {JobOf(w)}
    BY <2>1 DEF Retry, chain, StartRun, RetryLands, Lands, RetryThrows, MarkRetried, MarkFails
  <2> QED
    BY <1>1, <2>2, <2>3
<1>4. CASE Restart
  <2>1. \A j \in stray' : j \in stray \/ (queue # <<>> /\ j = JobOf(Head(queue)))
    <3>1. stray' \in {stray} \cup (IF queue = <<>> THEN {}
                                   ELSE {stray \cup {JobOf(Head(queue))}})
      BY <1>4 DEF Restart
    <3>2. CASE queue = <<>>
      BY <3>1, <3>2
    <3>3. CASE queue # <<>>
      BY <3>1, <3>3
    <3> QED
      BY <3>2, <3>3
  <2> DEFINE p == Head(queue)
  <2>2. ASSUME queue # <<>>, JobOf(p).do = "grant"
        PROVE  \E r \in Requests : Lost(req'[r], JobOf(p).key)
    <3>1. p \in Waiting
      BY <2>2, LandsInTurn DEF First
    <3> HIDE DEF p
    <3>2. /\ p \in Requests /\ req[p].at = "grant"
          /\ JobOf(p).key = Key(WalletOf[req[p].emp], req[p].zone)
      BY <1>0, <2>2, <3>1, JobsLate
    <3>3. req'[p].at = "died" /\ req'[p].emp = req[p].emp
      BY <1>0, <1>4, <3>2, RestartMoves DEF Final
    <3>4. Lost(req'[p], JobOf(p).key)
      BY <3>2, <3>3, KeyParts DEF Lost
    <3> QED
      BY <3>2, <3>4
  <2> HIDE DEF p
  <2> QED
    BY <1>1, <2>1, <2>2 DEF p
<1>5. CASE StrayLands \/ \E e \in Employees : CreateEmployee(e)
  BY <1>1, <1>5 DEF StrayLands, CreateEmployee, chain
<1> QED
  BY <1>2, <1>3, <1>4, <1>5 DEF Next

\* The request r or a table answers for the token.
Answers(r, key) ==
  Recorded(key) \/ InTurn(key) \/ Holds(req[r], key) \/ Lost(req[r], key)

\* They still do after a step, and they do for a token that is new.
Keeps(r) ==
  \A key \in token' : (key \in token => Answers(r, key)) => Answers(r, key)'

LEMMA KeepsAnswered ==
  ASSUME HeldOK, NEW r \in Requests, Moves(r), Keeps(r)
  PROVE  \A key \in token' : Answered(key)'
<1> SUFFICES ASSUME NEW key \in token' PROVE Answered(key)'
  OBVIOUS
<1>1. CASE key \in token => Answers(r, key)
  BY <1>1 DEF Keeps, Answers, Answered
<1>2. CASE key \in token /\ ~Answers(r, key)
  <2>1. PICK s \in Requests : Holds(req[s], key) \/ Lost(req[s], key)
    BY <1>2 DEF HeldOK, Answered, Answers
  <2>2. s # r
    BY <1>2, <2>1 DEF Answers
  <2>3. req'[s] = req[s]
    BY <2>1, <2>2 DEF Moves
  <2> QED
    BY <2>1, <2>3 DEF Answered
<1> QED
  BY <1>1, <1>2

LEMMA InTurnKept ==
  ASSUME outbox' = outbox, \A i : Marked(i)' => Marked(i)
  PROVE  \A key : InTurn(key) => InTurn(key)'
  BY DEF InTurn

\* A step that only moves the request and adds rows.
LEMMA PlainKeeps ==
  ASSUME NEW r \in Requests, Moves(r), run' = run, outbox' = outbox,
         capabilities \subseteq capabilities',
         \A key \in token' : Holds(req[r], key) /\ key \in token
           => Recorded(key)' \/ Holds(req'[r], key) \/ Lost(req'[r], key),
         \A key \in token' \ token : Holds(req'[r], key)
  PROVE  Keeps(r)
<1>1. \A key : Recorded(key) => Recorded(key)'
  BY DEF Recorded
<1>2. \A i : Marked(i)' => Marked(i)
  BY DEF Marked
<1>3. \A key : InTurn(key) => InTurn(key)'
  BY <1>2, InTurnKept
<1>4. \A key : Lost(req[r], key) => Lost(req'[r], key)
  BY DEF Moves
<1> QED
  BY <1>1, <1>3, <1>4 DEF Keeps, Answers

LEMMA GrantKeeps ==
  ASSUME AInv, NEW r \in Requests, Moves(r),
         \/ \E e \in Employees :
              \/ LogRequest(r, e) \/ EraseRequest(r, e)
              \/ \E z \in Zones : GrantRequest(r, e, z)
         \/ LogAccess(r) \/ Granted(r) \/ GrantThrows(r) \/ CreateCapability(r)
         \/ CapabilityFails(r) \/ DeleteFails(r)
  PROVE  Keeps(r)
<1>0. ReqsOK /\ RowsOK /\ RunsOK /\ IsSeq(outbox) /\ LateOK
  BY DEF AInv, LateOK
<1>1. run' = run /\ outbox' = outbox /\ capabilities \subseteq capabilities'
  BY DEF database, LogRequest, EraseRequest, GrantRequest, LogAccess, Granted, GrantThrows,
         CreateCapability, CapabilityFails, DeleteFails
<1>2. CASE Granted(r)
  <2>1. GoesTo(r, "row") /\ req[r].at = "grant"
    BY <1>0, <1>2, EndSteps DEF At
  <2>2. req[r].kind = "grant" /\ DOMAIN req[r] = {"at", "kind", "emp", "zone"}
    BY <1>0, <2>1 DEF ReqsOK, ReqOK, Fields
  <2>3. req'[r].emp = req[r].emp /\ req'[r].zone = req[r].zone /\ req'[r].at = "row"
    BY <2>1, <2>2 DEF GoesTo
  <2>4. r \notin Workers
    BY AccessAssumption
  <2>5. token' = token \cup {Key(WalletOf[req[r].emp], req[r].zone)}
    BY <1>2, <2>2, <2>4 DEF Granted, Lands, JobOf, Effect
  <2>6. \A key \in token' \ token : Holds(req'[r], key)
    BY <2>3, <2>5 DEF Holds
  <2>7. \A key : ~Holds(req[r], key)
    BY <2>1 DEF Holds
  <2> QED
    BY <1>1, <2>6, <2>7, PlainKeeps
<1>3. CASE CreateCapability(r)
  <2> DEFINE c == [emp |-> req[r].emp, zone |-> req[r].zone, by |-> r]
  <2>1. req[r].at = "row" /\ token' = token /\ c \in capabilities'
    BY <1>3 DEF CreateCapability, At, chain
  <2>2. c.emp = req[r].emp /\ c.zone = req[r].zone
    OBVIOUS
  <2> HIDE DEF c
  <2>3. \A key : Holds(req[r], key) => Recorded(key)'
    BY <2>1, <2>2 DEF Holds, Recorded
  <2> QED
    BY <1>1, <2>1, <2>3, PlainKeeps
<1>4. CASE CapabilityFails(r)
  <2>1. GoesTo(r, "norow") /\ req[r].at = "row" /\ token' = token
    BY <1>0, <1>4, EndSteps DEF At, CapabilityFails, chain
  <2>2. req'[r].emp = req[r].emp /\ req'[r].at = "norow"
    BY <2>1 DEF GoesTo, Moves
  <2>3. \A key : Holds(req[r], key) => Lost(req'[r], key)
    BY <2>1, <2>2, KeyParts DEF Holds, Lost
  <2> QED
    BY <1>1, <2>1, <2>3, PlainKeeps
<1>5. CASE \/ \E e \in Employees :
                \/ LogRequest(r, e) \/ EraseRequest(r, e)
                \/ \E z \in Zones : GrantRequest(r, e, z)
           \/ LogAccess(r) \/ GrantThrows(r) \/ DeleteFails(r)
  <2>1. req[r].at \in {"idle", "log", "grant", "delete"} /\ token' = token
    BY <1>5 DEF LogRequest, EraseRequest, GrantRequest, Arrives, LogAccess, GrantThrows, Throws,
                DeleteFails, At, chain
  <2>2. \A key : ~Holds(req[r], key)
    BY <2>1 DEF Holds
  <2> QED
    BY <1>1, <2>1, <2>2, PlainKeeps
<1> QED
  BY <1>2, <1>3, <1>4, <1>5

LEMMA DeletionKeeps ==
  ASSUME AInv, NEW r \in Requests, DeleteEmployee(r)
  PROVE  Keeps(r)
<1> DEFINE q == req[r]
           e == q.emp
           M == {c.zone : c \in {d \in capabilities : d.emp = q.emp} \ q.left}
<1>1. At(r, "delete") /\ Erases(r, "next", M, Idle, q.left) /\ ReqOK(q)
  BY EraseSteps DEF AInv, ReqsOK
<1>2. /\ q.at = "delete" /\ q.kind = "erase"
      /\ req'[r].at = "next" /\ req'[r].kind = "erase" /\ req'[r].emp = e
      /\ req'[r].missed = M /\ req'[r].left = q.left
      /\ \A key : Lost(q, key) => Lost(req'[r], key)
  BY <1>1 DEF At, Erases, Moves, ReqOK, Erasing
<1>3. /\ capabilities' = {c \in capabilities : c.emp # e}
      /\ run' = run /\ outbox' = outbox /\ token' = token
  BY DEF DeleteEmployee, chain
<1>4. ASSUME NEW c \in capabilities, NEW key, key = Key(WalletOf[c.emp], c.zone)
      PROVE  Answers(r, key)'
  <2>1. CASE c.emp # e
    <3>1. Recorded(key)'
      BY <1>3, <1>4, <2>1 DEF Recorded
    <3> QED
      BY <3>1 DEF Answers
  <2>2. CASE c.emp = e /\ c \in q.left
    <3>1. Holds(req'[r], key)
      BY <1>2, <1>4, <2>2 DEF Holds
    <3> QED
      BY <3>1 DEF Answers
  <2>3. CASE c.emp = e /\ c \notin q.left
    <3>1. c.zone \in M
      BY <2>3
    <3>2. key[1] = WalletOf[e] /\ key[2] = c.zone
      BY <1>4, <2>3, KeyParts
    <3> HIDE DEF M
    <3>3. Lost(req'[r], key)
      BY <1>2, <3>1, <3>2 DEF Lost
    <3> QED
      BY <3>3 DEF Answers
  <2> QED
    BY <2>1, <2>2, <2>3
<1>5. \A i : Marked(i)' => Marked(i)
  BY <1>3 DEF Marked
<1>6. \A key : InTurn(key) => InTurn(key)'
  BY <1>3, <1>5, InTurnKept
<1>7. \A key : ~Holds(q, key)
  BY <1>2 DEF Holds
<1>8. \A key : Recorded(key) => Answers(r, key)'
  BY <1>4 DEF Recorded
<1> HIDE DEF M
<1> QED
  BY <1>2, <1>3, <1>6, <1>7, <1>8 DEF Keeps, Answers

LEMMA RevocationKeeps ==
  ASSUME AInv, NEW r \in Requests, Moves(r),
         RevokeNext(r) \/ Revoked(r) \/ RevokeThrows(r) \/ RecordFails(r)
  PROVE  Keeps(r)
<1> DEFINE q == req[r]
<1>0. ReqsOK /\ ReqOK(q) /\ r \notin Workers
  BY AccessAssumption DEF AInv, ReqsOK
<1>1. run' = run /\ outbox' = outbox /\ capabilities' = capabilities
  BY DEF database, RevokeNext, Revoked, RevokeThrows, RecordFails
<1>2. CASE RevokeNext(r)
  <2>1. q.at = "next" /\ token' = token
    BY <1>2 DEF RevokeNext, At, chain
  <2>2. CASE q.left = {}
    <3>1. \A key : ~Holds(q, key)
      BY <2>1, <2>2 DEF Holds
    <3> QED
      BY <1>1, <2>1, <3>1, PlainKeeps
  <2>3. CASE \E c \in q.left : Erases(r, "revoke", q.missed, c, q.left \ {c})
    <3>1. PICK c \in q.left : Erases(r, "revoke", q.missed, c, q.left \ {c})
      BY <2>3
    <3>2. req'[r].at = "revoke" /\ req'[r].cap = c /\ req'[r].left = q.left \ {c}
      BY <3>1 DEF Erases
    <3>3. \A key : Holds(q, key) => Holds(req'[r], key)
      BY <2>1, <3>2 DEF Holds
    <3> QED
      BY <1>1, <2>1, <3>3, PlainKeeps
  <2> QED
    BY <1>0, <1>2, <2>2, <2>3, EraseSteps
<1>3. ASSUME q.at \in {"revoke", "record"}
      PROVE  q.kind = "erase" /\ q.cap # Idle /\ q.cap.emp = q.emp
  BY <1>0, <1>3 DEF ReqOK, Erasing
<1>4. CASE Revoked(r)
  <2>1. q.at = "revoke" /\ Erases(r, "next", q.missed, Idle, q.left)
    BY <1>0, <1>4, EraseSteps DEF At
  <2>2. req'[r].at = "next" /\ req'[r].left = q.left
    BY <2>1 DEF Erases
  <2>3. token' = token \ {Key(WalletOf[q.cap.emp], q.cap.zone)}
    BY <1>0, <1>3, <1>4, <2>1 DEF Revoked, Lands, JobOf, Effect
  <2>4. \A key \in token' : Holds(q, key) => Holds(req'[r], key)
    BY <2>1, <2>2, <2>3 DEF Holds
  <2> QED
    BY <1>1, <2>3, <2>4, PlainKeeps
<1>5. CASE RevokeThrows(r)
  <2>1. q.at = "revoke" /\ GoesTo(r, "record") /\ token' = token
    BY <1>0, <1>5, EndSteps DEF At, RevokeThrows, Throws, chain
  <2>2. DOMAIN q = {"at", "kind", "emp", "missed", "cap", "left"}
    BY <1>0, <1>3, <2>1 DEF ReqOK, Fields
  <2>3. req'[r].at = "record" /\ req'[r].left = q.left /\ req'[r].cap = q.cap
    BY <2>1, <2>2 DEF GoesTo
  <2>4. \A key : Holds(q, key) => Holds(req'[r], key)
    BY <2>1, <2>3 DEF Holds
  <2> QED
    BY <1>1, <2>1, <2>4, PlainKeeps
<1>6. CASE RecordFails(r)
  <2>1. /\ q.at = "record" /\ token' = token
        /\ Erases(r, "next", q.missed \cup {q.cap.zone}, Idle, q.left)
    BY <1>0, <1>6, EraseSteps DEF At, RecordFails, chain
  <2>2. /\ req'[r].at = "next" /\ req'[r].left = q.left /\ req'[r].emp = q.emp
        /\ req'[r].missed = q.missed \cup {q.cap.zone} /\ req'[r].kind = "erase"
    BY <1>3, <2>1 DEF Erases, Moves
  <2>3. Lost(req'[r], Key(WalletOf[q.cap.emp], q.cap.zone))
    BY <1>3, <2>1, <2>2, KeyParts DEF Lost
  <2>4. \A key : Holds(q, key) => Holds(req'[r], key) \/ Lost(req'[r], key)
    BY <2>1, <2>2, <2>3 DEF Holds
  <2> QED
    BY <1>1, <2>1, <2>4, PlainKeeps
<1> QED
  BY <1>2, <1>4, <1>5, <1>6

LEMMA RecordKeeps ==
  ASSUME AInv, NEW r \in Requests, Record(r)
  PROVE  Keeps(r)
<1> DEFINE q == req[r]
           x == [wallet |-> WalletOf[q.emp], zone |-> q.cap.zone, retried |-> FALSE]
           n == Len(outbox) + 1
<1>0. /\ ReqsOK /\ RunsOK /\ IsSeq(outbox)
  BY DEF AInv, LateOK
<1>1. q.at = "record" /\ Erases(r, "next", q.missed, Idle, q.left) /\ ReqOK(q)
  BY <1>0, EraseSteps DEF At, ReqsOK
<1>2. /\ q.cap.emp = q.emp
      /\ req'[r].at = "next" /\ req'[r].left = q.left
      /\ \A key : Lost(q, key) => Lost(req'[r], key)
  BY <1>1 DEF Erases, Moves, ReqOK, Erasing
<1>3. /\ outbox' = Append(outbox, x) /\ run' = run /\ capabilities' = capabilities
      /\ token' = token
  BY DEF Record, chain
<1>4. /\ x.wallet = WalletOf[q.cap.emp] /\ x.zone = q.cap.zone /\ x.retried = FALSE
  BY <1>2
<1> HIDE DEF x
<1>5. /\ IsSeq(outbox') /\ Len(outbox') = n /\ outbox'[n] = x
      /\ \A k \in DOMAIN outbox : outbox'[k] = outbox[k]
  BY <1>0, <1>3, SeqAppend
<1>6. /\ Len(outbox) \in Nat /\ DOMAIN outbox = 1 .. Len(outbox) /\ DOMAIN outbox' = 1 .. n
  BY <1>0, <1>5, SeqLen
<1>7. n \notin DOMAIN outbox /\ n \in DOMAIN outbox' /\ DOMAIN outbox \subseteq DOMAIN outbox'
  BY <1>6
<1> HIDE DEF n
<1>8. \A i : Marked(i)' <=> Marked(i)
  BY <1>3 DEF Marked
<1>9. ~Marked(n)
  BY <1>0, <1>7, RowAtHand DEF Marked
<1>10. \A key : InTurn(key) => InTurn(key)'
  BY <1>5, <1>7, <1>8 DEF InTurn
<1>11. \A key : key = Key(WalletOf[q.cap.emp], q.cap.zone) => InTurn(key)'
  BY <1>4, <1>5, <1>7, <1>8, <1>9 DEF InTurn
<1>12. \A key : Holds(q, key) => Holds(req'[r], key) \/ InTurn(key)'
  BY <1>1, <1>2, <1>11 DEF Holds
<1>13. \A key : Recorded(key) => Recorded(key)'
  BY <1>3 DEF Recorded
<1> QED
  BY <1>2, <1>3, <1>10, <1>12, <1>13 DEF Keeps, Answers

LEMMA HeldStep ==
  ASSUME AInv, Next
  PROVE  HeldOK'
<1>0. ReqsOK /\ RowsOK /\ RunsOK /\ IsSeq(outbox) /\ LateOK /\ HeldOK
  BY DEF AInv, LateOK
<1>1. CASE \E r \in Requests : Serve(r)
  <2>1. PICK r \in Requests : Serve(r) /\ Moves(r)
    BY <1>0, <1>1, ServeMoves
  <2>2. Keeps(r)
    BY <2>1, GrantKeeps, DeletionKeeps, RevocationKeeps, RecordKeeps DEF Serve
  <2> QED
    BY <1>0, <2>1, <2>2, KeepsAnswered, StrayGrants DEF HeldOK
<1>2. ASSUME req' = req, capabilities' = capabilities,
             \A key \in token' : (key \in token /\ InTurn(key)) => InTurn(key)',
             \A key \in token' \ token : \E r \in Requests : Lost(req[r], key)
      PROVE  HeldOK'
  <2>1. ASSUME NEW key \in token' PROVE Answered(key)'
    <3>1. CASE key \in token
      <4>1. Answered(key)
        BY <1>0, <3>1 DEF HeldOK
      <4>2. Recorded(key) => Recorded(key)'
        BY <1>2 DEF Recorded
      <4> QED
        BY <1>2, <2>1, <3>1, <4>1, <4>2 DEF Answered
    <3>2. CASE key \notin token
      BY <1>2, <2>1, <3>2 DEF Answered
    <3> QED
      BY <3>1, <3>2
  <2> QED
    BY <2>1, StrayGrants DEF HeldOK
<1>3. CASE \E w \in Workers : Retry(w)
  <2>1. PICK w \in Workers : Retry(w) /\ RunMoves(w)
    BY <1>0, <1>3, RetryMoves
  <2>2. req' = req /\ capabilities' = capabilities
    BY <2>1 DEF Retry, database, StartRun, RetryLands, RetryThrows, MarkRetried, MarkFails
  <2>3. \A v \in Workers \ {w} : run'[v] = run[v]
    BY <2>1 DEF RunMoves
  <2>4. run'[w].at # "mark" => \A i : Marked(i)' => Marked(i)
    BY <2>3 DEF Marked
  <2>5. CASE StartRun(w) \/ RetryThrows(w) \/ MarkFails(w)
    <3>1. run'[w].at # "mark"
      BY <1>0, <2>5, RetrySteps DEF GoesOn
    <3>2. outbox' = outbox /\ token' = token
      BY <2>5 DEF StartRun, RetryThrows, MarkFails, LeftPending, database, chain
    <3>3. \A key : InTurn(key) => InTurn(key)'
      BY <2>4, <3>1, <3>2, InTurnKept
    <3> QED
      BY <1>2, <2>2, <3>2, <3>3
  <2>6. CASE RetryLands(w)
    <3> DEFINE h == Head(run[w].page)
               k == Key(outbox[h].wallet, outbox[h].zone)
    <3>1. outbox' = outbox /\ token' = token \ {k}
      BY <2>6 DEF RetryLands, Lands, JobOf, Effect, database
    <3>2. run'[w].at = "mark" /\ run'[w].page = run[w].page
      BY <1>0, <2>6, RetrySteps
    <3>3. \A i : Marked(i)' => Marked(i) \/ i = h
      BY <2>3, <3>2 DEF Marked
    <3> HIDE DEF h
    <3>4. \A key \in token' : InTurn(key) => InTurn(key)'
      BY <3>1, <3>3 DEF InTurn
    <3> QED
      BY <1>2, <2>2, <3>1, <3>4
  <2>7. CASE MarkRetried(w)
    <3> DEFINE h == Head(run[w].page)
    <3>1. run[w].at = "mark" /\ h \in DOMAIN outbox /\ run'[w].at # "mark"
      BY <1>0, <2>7, RetrySteps, RowAtHand DEF GoesOn
    <3>2. outbox' = [outbox EXCEPT ![h].retried = TRUE] /\ token' = token
      BY <2>7 DEF MarkRetried, chain
    <3>3. Marked(h)
      BY <3>1 DEF Marked
    <3> HIDE DEF h
    <3>4. /\ DOMAIN outbox' = DOMAIN outbox
          /\ \A i \in DOMAIN outbox : i # h => outbox'[i] = outbox[i]
      BY <3>1, <3>2
    <3>5. \A key : InTurn(key) => InTurn(key)'
      BY <2>4, <3>1, <3>3, <3>4 DEF InTurn
    <3> QED
      BY <1>2, <2>2, <3>2, <3>5
  <2> QED
    BY <2>1, <2>5, <2>6, <2>7 DEF Retry
<1>4. CASE StrayLands
  <2>1. PICK j \in stray : token' = IF Accepts(j) THEN Effect(j) ELSE token
    BY <1>4 DEF StrayLands
  <2>2. req' = req /\ capabilities' = capabilities /\ outbox' = outbox /\ run' = run
    BY <1>4 DEF StrayLands, database
  <2>3. \A key \in token' \ token : j.do = "grant" /\ key = j.key
    <3>1. \A key \in Effect(j) \ token : j.do = "grant" /\ key = j.key
      BY <1>0, EffectLate DEF LateOK
    <3> QED
      BY <2>1, <3>1
  <2>4. \A key \in token' \ token : \E r \in Requests : Lost(req[r], key)
    BY <1>0, <2>3 DEF HeldOK
  <2>5. \A key : InTurn(key) => InTurn(key)'
    <3>1. \A i : Marked(i)' => Marked(i)
      BY <2>2 DEF Marked
    <3> QED
      BY <2>2, <3>1, InTurnKept
  <2> QED
    BY <1>2, <2>2, <2>4, <2>5
<1>5. CASE Restart
  <2>1. /\ capabilities' = capabilities /\ outbox' = outbox /\ token' = token
        /\ run' = [w \in Workers |-> Idle]
    BY <1>5 DEF Restart, database
  <2>2. \A w \in Workers : run'[w].at = "idle"
    BY <2>1, IdleAt
  <2>3. \A i : ~Marked(i)'
    BY <2>2 DEF Marked
  <2>4. \A key : InTurn(key) => InTurn(key)'
    BY <2>1, <2>3, InTurnKept
  <2>5. ASSUME NEW r \in Requests, NEW key, Holds(req[r], key) PROVE Lost(req'[r], key)
    <3>1. req[r].at \in {"row", "next", "revoke", "record"} /\ ReqOK(req[r])
      BY <1>0, <2>5 DEF Holds, ReqsOK
    <3>2. req'[r].at = "died" /\ req'[r].emp = req[r].emp
      BY <1>0, <1>5, <3>1, RestartMoves DEF Final
    <3>3. key[1] = WalletOf[req[r].emp]
      BY <2>5, <3>1, KeyParts DEF Holds, ReqOK, Erasing
    <3> QED
      BY <3>2, <3>3 DEF Lost
  <2>6. ASSUME NEW key \in token' PROVE Answered(key)'
    <3>1. Answered(key)
      BY <1>0, <2>1 DEF HeldOK
    <3>2. Recorded(key) => Recorded(key)'
      BY <2>1 DEF Recorded
    <3>3. \A r \in Requests : Lost(req[r], key) => Lost(req'[r], key)
      BY LostKept
    <3> QED
      BY <2>4, <2>5, <3>1, <3>2, <3>3 DEF Answered
  <2> QED
    BY <2>6, StrayGrants DEF HeldOK
<1>6. CASE \E e \in Employees : CreateEmployee(e)
  <2>1. /\ req' = req /\ capabilities' = capabilities /\ outbox' = outbox /\ run' = run
        /\ token' = token
    BY <1>6 DEF CreateEmployee, chain
  <2>2. \A i : Marked(i)' => Marked(i)
    BY <2>1 DEF Marked
  <2>3. \A key : InTurn(key) => InTurn(key)'
    BY <2>1, <2>2, InTurnKept
  <2> QED
    BY <1>2, <2>1, <2>3
<1> QED
  BY <1>1, <1>3, <1>4, <1>5, <1>6 DEF Next

-----------------------------------------------------------------------------
(* The theorems                                                            *)

LEMMA AccessInit ==
  ASSUME Init
  PROVE  AInv
<1>1. \A r \in Requests : req[r].at = "idle"
  BY IdleAt DEF Init
<1>2. \A w \in Workers : run[w].at = "idle"
  BY IdleAt DEF Init
<1>3. ReqsOK
  BY <1>1 DEF Init, ReqsOK, ReqOK
<1>4. RunsOK
  BY <1>2 DEF Init, RunsOK, RunOK
<1>5. QueueOK
  BY SeqEmpty DEF Init, QueueOK, QueueFit
<1>6. LateOK
  BY <1>1, SeqEmpty DEF Init, LateOK
<1>7. RowsOK /\ OpensOK /\ HeldOK
  BY <1>1 DEF Init, RowsOK, OpensOK, Opens, RowsHaveTokens, HeldOK
<1> QED
  BY <1>3, <1>4, <1>5, <1>6, <1>7 DEF AInv

LEMMA AccessInductive == Spec => []AInv
<1>1. Init => AInv
  BY AccessInit
<1>2. AInv /\ [Next]_vars => AInv'
  <2>1. CASE Next
    <3> SUFFICES ASSUME AInv PROVE AInv'
      BY <2>1
    <3>1. ReqsOK' /\ RunsOK'
      BY <2>1, TypesStep DEF AInv, LateOK
    <3>2. RowsOK'
      BY <2>1, RowsSteps DEF AInv
    <3> QED
      BY <2>1, <3>1, <3>2, QueueStep, LateStep, OpensStep, HeldStep DEF AInv
  <2>2. CASE UNCHANGED vars
    <3>1. /\ UNCHANGED <<employees, erased, capabilities, logs, outbox, token, stray, queue>>
          /\ UNCHANGED <<req, run>>
      BY <2>2 DEF vars, database, chain
    <3>2. ReqsOK' = ReqsOK /\ RowsOK' = RowsOK /\ RunsOK' = RunsOK
      BY <3>1 DEF ReqsOK, RowsOK, RunsOK
    <3>3. QueueOK' = QueueOK /\ LateOK' = LateOK
      BY <3>1 DEF QueueOK, Waiting, LateOK
    <3>4. OpensOK' = OpensOK
      BY <3>1 DEF OpensOK, RowsHaveTokens
    <3>5. HeldOK' = HeldOK
      BY <3>1 DEF HeldOK, Answered, Recorded, InTurn, Marked
    <3> QED
      BY <3>2, <3>3, <3>4, <3>5 DEF AInv
  <2> QED
    BY <2>1, <2>2
<1> QED
  BY <1>1, <1>2, PTL DEF Spec

\* gdpr.js 26-33, schema.sql: in no interleaving of the queries of overlapping
\* requests does a row of any table lead to an employee who was erased.
THEOREM ErasedStayForgotten == Spec => []Forgotten
<1>1. AInv => Forgotten
  BY DEF AInv, RowsOK, Forgotten
<1> QED
  BY <1>1, AccessInductive, PTL

\* app.js 41-54, gdpr.js 13-33, outbox.js: however grants, erasures, retries and
\* crashes overlap, a capability in the table has its token, save where the
\* wallet belonged before to an employee who was erased.
THEOREM RowsKeepTokens == Spec => []RowsHaveTokens
<1>1. AInv => RowsHaveTokens
  BY DEF AInv, OpensOK
<1> QED
  BY <1>1, AccessInductive, PTL

\* app.js 41-54, gdpr.js 34-55: no token on the chain is nobody's business: a row,
\* a request that is at it or the outbox has it, or a request that failed did.
THEOREM TokensStayAccounted == Spec => []TokensAccounted
<1>1. ASSUME AInv PROVE TokensAccounted
  <2>1. ASSUME NEW key, Answered(key)
        PROVE  Recorded(key) \/ InHand(key) \/ InOutbox(key) \/ LostTrack(key)
    <3>1. InTurn(key) => InOutbox(key)
      BY DEF InTurn, InOutbox, Pending
    <3>2. ASSUME NEW r \in Requests, Lost(req[r], key) PROVE LostTrack(key)
      BY <3>2 DEF Lost, LostTrack
    <3>3. ASSUME NEW r \in Requests, Holds(req[r], key) PROVE InHand(key)
      <4>1. req[r].at \in {"revoke", "record"} => req[r].cap # Idle
        BY <1>1 DEF AInv, ReqsOK, ReqOK
      <4> QED
        BY <3>3, <4>1 DEF Holds, InHand
    <3> QED
      BY <2>1, <3>1, <3>2, <3>3 DEF Answered
  <2> QED
    BY <1>1, <2>1 DEF AInv, HeldOK, TokensAccounted
<1> QED
  BY <1>1, AccessInductive, PTL
===============================================================================
