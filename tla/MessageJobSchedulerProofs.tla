---------------------- MODULE MessageJobSchedulerProofs ----------------------
(***************************************************************************)
(* Proofs about the scheduler of durable message jobs, for any number of    *)
(* messages, requests, tasks and slots, and any number of failures, panics  *)
(* and crashes.                                                             *)
(***************************************************************************)
EXTENDS MessageJobScheduler, FiniteSetTheorems, SequenceTheorems, TLAPS

(***************************************************************************)
(* The inductive invariant, by the variables its parts are about.           *)
(***************************************************************************)

\* The spool has a message at most once.
SpoolInv == \A i, j \in DOMAIN spool : spool[i] = spool[j] => i = j

\* A request that is under way has a message, and its permit as long as its body is
\* read or its worker runs.
HandlerInv ==
    /\ \A h \in Handlers : handler[h].pc # "idle" => handler[h].msg \in Messages
    /\ IsFiniteSet(Ingesting)
    /\ ingestFree = MaxSlots - Cardinality(Ingesting)

\* A task scans after it has dropped its guard.
ScanInv ==
    /\ \A s \in Scanners : scan[s].pc = "claim" => scan[s].todo # <<>>
    /\ \A t \in Tasks : scan[t].pc # "idle" => task[t].pc = "tail"

\* The active set has one message for each guard.
GuardInv ==
    /\ \A t \in Guarding : task[t].msg \in Messages
    /\ ActiveMatchesTasks
    /\ Cardinality(active) = Cardinality(Guarding)

PermitInv == workFree = MaxSlots - Cardinality(Working)

\* The job of a task is pending until the task itself has removed it.  Without faults a
\* job that has succeeded is pending only until then.
RunInv ==
    /\ \A t \in Tasks : task[t].pc \in {"process", "remove"} => task[t].msg \in Pending
    /\ \A t \in Tasks : task[t].pc = "remove" => task[t].msg \in succeeded
    /\ faults = 0 /\ crashes = 0 =>
         \A m \in succeeded \cap Pending : \E t \in Tasks : task[t].pc = "remove" /\ task[t].msg = m
    /\ NoRerunOfCompleted

SchedulerIInv ==
    TypeOK /\ SpoolInv /\ HandlerInv /\ ScanInv /\ GuardInv /\ PermitInv /\ RunInv

USE DEF shared, permits, observers

-----------------------------------------------------------------------------
(***************************************************************************)
(* Cardinalities, and sequences with one element less.                      *)
(***************************************************************************)

\* A set with one more, and with one less element.
LEMMA OneMoreOrLess ==
  ASSUME NEW S, IsFiniteSet(S), NEW x
  PROVE  /\ Cardinality(S) \in Nat
         /\ IsFiniteSet(S \cup {x}) /\ IsFiniteSet(S \ {x})
         /\ x \notin S => Cardinality(S \cup {x}) = Cardinality(S) + 1
         /\ x \in S => Cardinality(S \ {x}) = Cardinality(S) - 1
  BY FS_CardinalityType, FS_AddElement, FS_RemoveElement

\* remove_sync takes out its own message and no other.
LEMMA WithoutOne ==
  ASSUME spool \in Seq(Messages), SpoolInv, NEW m
  PROVE  /\ Without(m) \in Seq(Messages) /\ Len(Without(m)) <= Len(spool)
         /\ {Without(m)[i] : i \in DOMAIN Without(m)} = Pending \ {m}
         /\ \A i, j \in DOMAIN Without(m) : Without(m)[i] = Without(m)[j] => i = j
<1>1. CASE m \notin Pending
  BY <1>1 DEF Without, SpoolInv, Pending
<1>2. CASE m \in Pending
  <2> DEFINE p == Position(m)
  <2>1. p \in 1 .. Len(spool) /\ spool[p] = m
    BY <1>2 DEF Pending, Position
  <2> DEFINE w == SubSeq(spool, 1, p - 1) \o SubSeq(spool, p + 1, Len(spool))
  <2>2. Without(m) = w
    BY <1>2 DEF Without
  <2> HIDE DEF p
  <2>3. /\ SubSeq(spool, 1, p - 1) \in Seq(Messages) /\ Len(SubSeq(spool, 1, p - 1)) = p - 1
        /\ SubSeq(spool, p + 1, Len(spool)) \in Seq(Messages)
        /\ Len(SubSeq(spool, p + 1, Len(spool))) = Len(spool) - p
        /\ \A i \in 1 .. p - 1 : SubSeq(spool, 1, p - 1)[i] = spool[i]
        /\ \A i \in 1 .. Len(spool) - p : SubSeq(spool, p + 1, Len(spool))[i] = spool[p + i]
    <3>1. /\ 1 \in Int /\ p - 1 \in Int /\ p + 1 \in Int /\ Len(spool) \in Int
          /\ \A i \in 1 .. p - 1 : spool[i] \in Messages
          /\ \A i \in p + 1 .. Len(spool) : spool[i] \in Messages
      BY <2>1
    <3>2. /\ SubSeq(spool, 1, p - 1) \in Seq(Messages)
          /\ Len(SubSeq(spool, 1, p - 1)) = (IF 1 <= p - 1 THEN p - 1 - 1 + 1 ELSE 0)
          /\ \A i \in 1 .. p - 1 - 1 + 1 : SubSeq(spool, 1, p - 1)[i] = spool[1 + i - 1]
      BY <3>1, SubSeqProperties
    <3>3. /\ SubSeq(spool, p + 1, Len(spool)) \in Seq(Messages)
          /\ Len(SubSeq(spool, p + 1, Len(spool)))
               = (IF p + 1 <= Len(spool) THEN Len(spool) - (p + 1) + 1 ELSE 0)
          /\ \A i \in 1 .. Len(spool) - (p + 1) + 1 :
               SubSeq(spool, p + 1, Len(spool))[i] = spool[p + 1 + i - 1]
      BY <3>1, SubSeqProperties
    <3> QED
      BY <2>1, <3>2, <3>3
  <2>4. /\ w \in Seq(Messages) /\ Len(w) = Len(spool) - 1
        /\ \A i \in 1 .. Len(spool) - 1 : w[i] = IF i < p THEN spool[i] ELSE spool[i + 1]
    <3> DEFINE a == SubSeq(spool, 1, p - 1)
               b == SubSeq(spool, p + 1, Len(spool))
    <3>1. /\ w \in Seq(Messages) /\ Len(w) = Len(a) + Len(b)
          /\ \A i \in 1 .. Len(a) + Len(b) : w[i] = IF i <= Len(a) THEN a[i] ELSE b[i - Len(a)]
      BY <2>3, ConcatProperties
    <3>2. /\ Len(a) = p - 1 /\ Len(b) = Len(spool) - p
          /\ \A i \in 1 .. p - 1 : a[i] = spool[i]
          /\ \A i \in 1 .. Len(spool) - p : b[i] = spool[p + i]
      BY <2>3
    <3> HIDE DEF a, b, w
    <3>3. Len(w) = Len(spool) - 1 /\ Len(a) + Len(b) = Len(spool) - 1
      BY <2>1, <3>1, <3>2
    <3>4. ASSUME NEW i \in 1 .. Len(spool) - 1
          PROVE  w[i] = IF i < p THEN spool[i] ELSE spool[i + 1]
      <4>1. w[i] = IF i <= p - 1 THEN a[i] ELSE b[i - (p - 1)]
        BY <3>1, <3>2, <3>3
      <4>2. CASE i < p
        BY <2>1, <3>2, <4>1, <4>2
      <4>3. CASE ~(i < p)
        <5>1. i - (p - 1) \in 1 .. Len(spool) - p /\ p + (i - (p - 1)) = i + 1
          BY <2>1, <4>3
        <5> QED
          BY <2>1, <3>2, <4>1, <4>3, <5>1
      <4> QED
        BY <4>2, <4>3
    <3> QED
      BY <3>1, <3>3, <3>4
  <2> HIDE DEF w
  <2>5. DOMAIN w = 1 .. Len(spool) - 1 /\ DOMAIN spool = 1 .. Len(spool)
    BY <2>4
  <2>6. ASSUME NEW i \in DOMAIN w, NEW j \in DOMAIN w, w[i] = w[j] PROVE i = j
    <3> DEFINE k == IF i < p THEN i ELSE i + 1
               l == IF j < p THEN j ELSE j + 1
    <3>1. k \in 1 .. Len(spool) /\ l \in 1 .. Len(spool) /\ (k = l => i = j)
      BY <2>1, <2>5
    <3>2. w[i] = spool[k] /\ w[j] = spool[l]
      BY <2>4, <2>5
    <3> QED
      BY <2>5, <2>6, <3>1, <3>2 DEF SpoolInv
  <2>7. ASSUME NEW i \in DOMAIN w PROVE w[i] \in Pending \ {m}
    BY <2>1, <2>4, <2>5 DEF SpoolInv, Pending
  <2>8. ASSUME NEW n \in Pending \ {m} PROVE \E i \in DOMAIN w : w[i] = n
    <3>1. PICK k \in 1 .. Len(spool) : spool[k] = n
      BY <2>5 DEF Pending
    <3>2. CASE k < p
      BY <2>1, <2>4, <2>5, <3>1, <3>2
    <3>3. CASE k > p
      <4>1. k - 1 \in DOMAIN w /\ w[k - 1] = spool[k]
        BY <2>1, <2>4, <2>5, <3>3
      <4> QED
        BY <4>1, <3>1
    <3> QED
      BY <2>1, <3>1, <3>2, <3>3
  <2> QED
    BY <2>2, <2>4, <2>6, <2>7, <2>8
<1> QED
  BY <1>1, <1>2

-----------------------------------------------------------------------------
(***************************************************************************)
(* The spool.                                                               *)
(***************************************************************************)

\* A worker of a request stores its message, whether or not it then fails.
Stores(h) == handler[h].pc \in {"persisting", "orphaned"} /\ Enqueue(handler[h].msg)

\* How a step changes the spool: a request appends, a task removes its own message.
LEMMA SpoolChange ==
  ASSUME [Next]_vars
  PROVE  \/ UNCHANGED spool
         \/ \E h \in Handlers : Stores(h)
         \/ \E t \in Tasks : TaskRemove(t) \/ (TaskRemoveFault(t) /\ spool' = Without(task[t].msg))
<1>1. ASSUME NEW h \in Handlers,
             \/ \E m \in Messages : Receive(h, m)
             \/ HandlerStep(h) \/ EndReading(h) \/ Cancel(h) \/ PersistFault(h)
      PROVE  UNCHANGED spool \/ Stores(h)
  BY <1>1 DEF HandlerStep, Receive, StartPersist, EndReading, Cancel, Persist, PersistFull, PersistFault,
     Stores, OfferDeferred, OfferClaim
<1>2. ASSUME NEW s \in Scanners, ScanStep(s) \/ ScanFault(s) PROVE UNCHANGED spool
  BY <1>2 DEF ScanStep, ScanActive, ScanDeferred, ScanList, ScanFault, ScanOffer, ScanClaim, ScanEnd
<1>3. ASSUME NEW t \in Tasks, TaskStep(t) \/ TaskLoadFault(t) \/ TaskPanics(t) \/ TaskRemoveFault(t)
      PROVE  \/ UNCHANGED spool \/ TaskRemove(t)
             \/ TaskRemoveFault(t) /\ spool' = Without(task[t].msg)
  BY <1>3 DEF TaskStep, ProcessStep, TaskPermit, TaskLoad, TaskLoadFault, TaskSucceeds, TaskFails,
     TaskPanics, TaskRemoveFault, TaskRecord, TaskDrop
<1> QED
  BY <1>1, <1>2, <1>3 DEF Next, vars, StartRescan, Elapse, Crash

\* The spool keeps its type, its bound and each message once.
LEMMA SpoolStep ==
  ASSUME SchedulerIInv, [Next]_vars
  PROVE  /\ SpoolInv' /\ spool' \in Seq(Messages) /\ max_pending' = max_pending
         /\ Len(spool') <= max_pending
<1>0. spool \in Seq(Messages) /\ Len(spool) <= max_pending /\ max_pending \in Nat /\ SpoolInv
  BY SchedulerAssumption DEF SchedulerIInv, TypeOK
<1>1. max_pending' = max_pending
  <2>1. ASSUME NEW h \in Handlers,
               \/ \E m \in Messages : Receive(h, m)
               \/ HandlerStep(h) \/ EndReading(h) \/ Cancel(h) \/ PersistFault(h)
        PROVE  UNCHANGED max_pending
    BY <2>1 DEF HandlerStep, Receive, StartPersist, EndReading, Cancel, Persist, PersistFull,
       PersistFault, OfferDeferred, OfferClaim
  <2>2. ASSUME NEW s \in Scanners, ScanStep(s) \/ ScanFault(s) PROVE UNCHANGED max_pending
    BY <2>2 DEF ScanStep, ScanActive, ScanDeferred, ScanList, ScanFault, ScanOffer, ScanClaim, ScanEnd
  <2>3. ASSUME NEW t \in Tasks, TaskStep(t) \/ TaskLoadFault(t) \/ TaskPanics(t) \/ TaskRemoveFault(t)
        PROVE  UNCHANGED max_pending
    BY <2>3 DEF TaskStep, ProcessStep, TaskPermit, TaskLoad, TaskLoadFault, TaskSucceeds, TaskFails,
       TaskPanics, TaskRemove, TaskRemoveFault, TaskRecord, TaskDrop
  <2> QED
    BY <2>1, <2>2, <2>3 DEF Next, vars, StartRescan, Elapse, Crash
<1>2. CASE UNCHANGED spool
  BY <1>0, <1>1, <1>2 DEF SpoolInv
<1>3. ASSUME NEW h \in Handlers, Stores(h)
      PROVE  SpoolInv' /\ spool' \in Seq(Messages) /\ Len(spool') <= max_pending
  <2> DEFINE m == handler[h].msg
  <2>1. m \in Messages
    BY <1>3 DEF Stores, SchedulerIInv, HandlerInv
  <2>2. CASE m \in Pending
    BY <1>0, <1>3, <2>2 DEF Stores, Enqueue, SpoolInv
  <2>3. CASE m \notin Pending
    <3>1. spool' = Append(spool, m) /\ Len(spool) < max_pending
      BY <1>3, <2>3 DEF Stores, Enqueue
    <3>2. /\ spool' \in Seq(Messages) /\ Len(spool') = Len(spool) + 1
          /\ \A i \in 1 .. Len(spool) : spool'[i] = spool[i]
          /\ spool'[Len(spool) + 1] = m
      BY <1>0, <2>1, <3>1, AppendProperties
    <3>3. \A i \in 1 .. Len(spool) : spool[i] # m
      BY <1>0, <2>3 DEF Pending
    <3> HIDE DEF m
    <3> QED
      BY <1>0, <3>1, <3>2, <3>3 DEF SpoolInv
  <2> QED
    BY <2>2, <2>3
<1>4. ASSUME NEW t \in Tasks, spool' = Without(task[t].msg)
      PROVE  SpoolInv' /\ spool' \in Seq(Messages) /\ Len(spool') <= max_pending
  BY <1>0, <1>4, WithoutOne DEF SpoolInv
<1> QED
  BY <1>1, <1>2, <1>3, <1>4, SpoolChange DEF TaskRemove

-----------------------------------------------------------------------------
(***************************************************************************)
(* The requests.                                                            *)
(***************************************************************************)
IngestSteps == {"reading", "persisting", "orphaned"}

HandlerTypes ==
  handler \in [Handlers -> HandlerStates] /\ ingestFree \in 0 .. MaxSlots /\ HandlerInv

\* A request moves on; it takes or returns its permit, or leaves it.
LEMMA HandlerMove ==
  ASSUME HandlerTypes, NEW h \in Handlers,
         NEW pc \in {"idle", "reading", "persisting", "orphaned", "offer", "claim"},
         NEW m \in Messages \cup {NoMessage}, pc # "idle" => m \in Messages,
         SetHandler(h, pc, m),
         \/ pc \in IngestSteps /\ handler[h].pc \notin IngestSteps
              /\ ingestFree > 0 /\ ingestFree' = ingestFree - 1
         \/ pc \notin IngestSteps /\ handler[h].pc \in IngestSteps
              /\ ingestFree' = ingestFree + 1
         \/ (pc \in IngestSteps <=> handler[h].pc \in IngestSteps) /\ ingestFree' = ingestFree
  PROVE  HandlerTypes'
<1>0. /\ handler \in [Handlers -> HandlerStates] /\ IsFiniteSet(Ingesting)
      /\ ingestFree = MaxSlots - Cardinality(Ingesting) /\ ingestFree \in 0 .. MaxSlots
      /\ MaxSlots \in Nat
  BY SchedulerAssumption DEF HandlerTypes, HandlerInv
<1>1. /\ handler' \in [Handlers -> HandlerStates] /\ handler'[h].pc = pc /\ handler'[h].msg = m
      /\ \A g \in Handlers \ {h} : handler'[g] = handler[g]
  BY <1>0 DEF SetHandler, HandlerStates
<1>2. \A g \in Handlers : handler'[g].pc # "idle" => handler'[g].msg \in Messages
  BY <1>1 DEF HandlerTypes, HandlerInv
<1>3. Ingesting' = IF pc \in IngestSteps THEN Ingesting \cup {h} ELSE Ingesting \ {h}
  BY <1>1 DEF Ingesting, IngestSteps
<1>4. h \in Ingesting <=> handler[h].pc \in IngestSteps
  BY DEF Ingesting, IngestSteps
<1>5. /\ IsFiniteSet(Ingesting') /\ ingestFree' = MaxSlots - Cardinality(Ingesting')
      /\ ingestFree' \in 0 .. MaxSlots
  <2>1. /\ Cardinality(Ingesting) \in Nat
        /\ IsFiniteSet(Ingesting \cup {h}) /\ IsFiniteSet(Ingesting \ {h})
        /\ h \notin Ingesting => Cardinality(Ingesting \cup {h}) = Cardinality(Ingesting) + 1
        /\ h \in Ingesting => Cardinality(Ingesting \ {h}) = Cardinality(Ingesting) - 1
    BY <1>0, OneMoreOrLess
  <2>2. IsFiniteSet(Ingesting') /\ Cardinality(Ingesting') \in Nat
    BY <1>3, <2>1, FS_CardinalityType
  <2>3. CASE pc \in IngestSteps /\ handler[h].pc \notin IngestSteps
    BY <1>0, <1>3, <1>4, <2>1, <2>2, <2>3
  <2>4. CASE pc \notin IngestSteps /\ handler[h].pc \in IngestSteps
    BY <1>0, <1>3, <1>4, <2>1, <2>2, <2>4
  <2>5. CASE pc \in IngestSteps <=> handler[h].pc \in IngestSteps
    <3>1. Ingesting' = Ingesting /\ ingestFree' = ingestFree
      BY <1>3, <1>4, <2>5
    <3> QED
      BY <1>0, <3>1
  <2> QED
    BY <2>3, <2>4, <2>5
<1> QED
  BY <1>1, <1>2, <1>5 DEF HandlerTypes, HandlerInv

\* Every step keeps the permits of ingest_slots with the requests that have one.
LEMMA HandlerKept ==
  ASSUME SchedulerIInv, [Next]_vars
  PROVE  HandlerTypes'
<1>0. HandlerTypes
  BY DEF SchedulerIInv, TypeOK, HandlerTypes
<1>u. ASSUME UNCHANGED <<handler, ingestFree>> PROVE HandlerTypes'
  BY <1>0, <1>u DEF HandlerTypes, HandlerInv, Ingesting
<1>1. ASSUME NEW h \in Handlers, \E m \in Messages : Receive(h, m) PROVE HandlerTypes'
  BY <1>0, <1>1, HandlerMove DEF Receive, IngestSteps
<1>2. ASSUME NEW h \in Handlers,
             HandlerStep(h) \/ EndReading(h) \/ Cancel(h) \/ PersistFault(h)
      PROVE  HandlerTypes'
  <2>1. handler[h].pc # "idle" => handler[h].msg \in Messages
    BY <1>0 DEF HandlerTypes, HandlerInv
  <2>2. CASE StartPersist(h) \/ Cancel(h)
    BY <1>0, <2>1, <2>2, HandlerMove DEF StartPersist, Cancel, IngestSteps
  <2>3. CASE EndReading(h) \/ PersistFull(h) \/ PersistFault(h)
    BY <1>0, <2>3, HandlerMove DEF EndReading, PersistFull, PersistFault, IngestSteps
  <2>4. CASE Persist(h)
    BY <1>0, <2>1, <2>4, HandlerMove DEF Persist, AfterPersist, IngestSteps
  <2>5. CASE OfferDeferred(h) \/ OfferClaim(h)
    BY <1>0, <2>1, <2>5, HandlerMove DEF OfferDeferred, OfferClaim, IngestSteps
  <2> QED
    BY <1>2, <2>2, <2>3, <2>4, <2>5 DEF HandlerStep
<1>3. ASSUME NEW s \in Scanners, ScanStep(s) \/ ScanFault(s) PROVE UNCHANGED <<handler, ingestFree>>
  BY <1>3 DEF ScanStep, ScanActive, ScanDeferred, ScanList, ScanFault, ScanOffer, ScanClaim, ScanEnd
<1>4. ASSUME NEW t \in Tasks, TaskStep(t) \/ TaskLoadFault(t) \/ TaskPanics(t) \/ TaskRemoveFault(t)
      PROVE  UNCHANGED <<handler, ingestFree>>
  BY <1>4 DEF TaskStep, ProcessStep, TaskPermit, TaskLoad, TaskLoadFault, TaskSucceeds, TaskFails,
     TaskPanics, TaskRemove, TaskRemoveFault, TaskRecord, TaskDrop
<1>5. ASSUME handler' = [h \in Handlers |-> IdleHandler], ingestFree' = MaxSlots PROVE HandlerTypes'
  <2>1. Ingesting' = {} /\ handler' \in [Handlers -> HandlerStates]
    BY <1>5 DEF Ingesting, IdleHandler, HandlerStates
  <2>2. \A h \in Handlers : handler'[h].pc = "idle"
    BY <1>5 DEF IdleHandler
  <2> QED
    BY <1>5, <2>1, <2>2, FS_EmptySet, SchedulerAssumption DEF HandlerTypes, HandlerInv
<1> QED
  BY <1>u, <1>1, <1>2, <1>3, <1>4, <1>5 DEF Next, vars, StartRescan, Elapse, Crash

-----------------------------------------------------------------------------
(***************************************************************************)
(* The scans.                                                               *)
(***************************************************************************)
ScanTypes == scan \in [Scanners -> ScanStates]

\* What a scan selects is a sequence of messages.
LEMMA SelectionType ==
  ASSUME spool \in Seq(Messages), NEW excluded, NEW limit \in Nat,
         NEW todo \in Selections(excluded, limit)
  PROVE  todo \in Seq(Messages)
<1>1. PICK n \in 0 .. limit : todo \in [1 .. n -> Pending \ excluded]
  BY DEF Selections
<1>2. Pending \subseteq Messages
  BY DEF Pending
<1> QED
  BY <1>1, <1>2

\* Every step keeps a scan within its types, and a message in hand while it claims.
LEMMA ScanKept ==
  ASSUME SchedulerIInv, [Next]_vars
  PROVE  ScanTypes' /\ \A s \in Scanners : scan'[s].pc = "claim" => scan'[s].todo # <<>>
<1> DEFINE Goal == ScanTypes' /\ \A s \in Scanners : scan'[s].pc = "claim" => scan'[s].todo # <<>>
<1>0. /\ ScanTypes /\ (\A s \in Scanners : scan[s].pc = "claim" => scan[s].todo # <<>>)
      /\ spool \in Seq(Messages) /\ active \subseteq Messages /\ deferred \subseteq Messages
      /\ Rescan \in Scanners /\ MaxSlots \in Nat \ {0}
  BY SchedulerAssumption DEF SchedulerIInv, TypeOK, ScanTypes, ScanInv, Scanners
<1>u. ASSUME UNCHANGED scan PROVE Goal
  BY <1>0, <1>u DEF ScanTypes
<1>m. ASSUME NEW s \in Scanners, NEW r \in ScanStates, scan' = [scan EXCEPT ![s] = r],
             r.pc = "claim" => r.todo # <<>>
      PROVE  Goal
  BY <1>0, <1>m DEF ScanTypes
<1>n. NoScan \in ScanStates /\ NoScan.pc = "idle"
  BY <1>0 DEF NoScan, ScanStates
<1>1. ASSUME NEW h \in Handlers,
             \/ \E m \in Messages : Receive(h, m)
             \/ HandlerStep(h) \/ EndReading(h) \/ Cancel(h) \/ PersistFault(h)
      PROVE  UNCHANGED scan
  BY <1>1 DEF HandlerStep, Receive, StartPersist, EndReading, Cancel, Persist, PersistFull,
     PersistFault, OfferDeferred, OfferClaim
<1>2. ASSUME NEW t \in Tasks, TaskStep(t) \/ TaskLoadFault(t) \/ TaskPanics(t) \/ TaskRemoveFault(t)
      PROVE  Goal
  <2>1. CASE TaskDrop(t)
    <3>1. scan' = [scan EXCEPT ![t].pc = "active"] /\ t \in Scanners
      BY <2>1 DEF TaskDrop, Scanners
    <3> QED
      BY <1>0, <3>1 DEF ScanTypes, ScanStates
  <2> QED
    BY <1>2, <1>u, <2>1 DEF TaskStep, ProcessStep, TaskPermit, TaskLoad, TaskLoadFault, TaskSucceeds,
       TaskFails, TaskPanics, TaskRemove, TaskRemoveFault, TaskRecord
<1>3. ASSUME NEW s \in Scanners, ScanStep(s) \/ ScanFault(s) PROVE Goal
  <2>e. ASSUME scan' = [scan EXCEPT ![s] = NoScan] PROVE Goal
    BY <1>m, <1>n, <2>e
  <2>1. CASE ScanActive(s)
    <3>1. CASE Cardinality(active) < MaxSlots
      <4> DEFINE r == [pc |-> "deferred", excluded |-> active,
                       room |-> MaxSlots - Cardinality(active), todo |-> <<>>]
      <4>1. Cardinality(active) \in Nat
        <5>1. IsFiniteSet(active)
          BY <1>0, SchedulerAssumption, FS_Subset
        <5> QED
          BY <5>1, FS_CardinalityType
      <4>2. r \in ScanStates
        BY <1>0, <3>1, <4>1, EmptySeq DEF ScanStates
      <4>3. scan' = [scan EXCEPT ![s] = r]
        BY <2>1, <3>1 DEF ScanActive
      <4> QED
        BY <1>m, <4>2, <4>3
    <3>2. CASE ~(Cardinality(active) < MaxSlots)
      BY <2>1, <2>e, <3>2 DEF ScanActive, EndScan
    <3> QED
      BY <3>1, <3>2
  <2>2. CASE ScanDeferred(s)
    BY <1>0, <2>2 DEF ScanDeferred, ScanTypes, ScanStates
  <2>3. CASE ScanList(s)
    <3>1. PICK todo \in Selections(scan[s].excluded, scan[s].room) :
            scan' = [scan EXCEPT ![s] = [@ EXCEPT !.pc = "offer", !.room = 0, !.todo = todo]]
      BY <2>3 DEF ScanList
    <3>2. todo \in Seq(Messages)
      BY <1>0, SelectionType DEF ScanTypes, ScanStates
    <3> DEFINE r == [scan[s] EXCEPT !.pc = "offer", !.room = 0, !.todo = todo]
    <3>3. 0 \in 0 .. MaxSlots
      BY <1>0
    <3>4. r \in ScanStates /\ r.pc = "offer"
      BY <1>0, <3>2, <3>3 DEF ScanTypes, ScanStates
    <3>5. scan' = [scan EXCEPT ![s] = r]
      BY <1>0, <3>1 DEF ScanTypes, ScanStates
    <3> QED
      BY <1>m, <3>4, <3>5
  <2>4. CASE ScanFault(s)
    BY <2>4, <2>e DEF ScanFault, EndScan
  <2>5. CASE ScanOffer(s)
    <3>1. Tail(scan[s].todo) \in Seq(Messages)
      BY <1>0, <2>5, HeadTailProperties DEF ScanOffer, ScanTypes, ScanStates
    <3>2. CASE scan' = [scan EXCEPT ![s].todo = Tail(@)]
      BY <1>0, <2>5, <3>1, <3>2 DEF ScanOffer, ScanTypes, ScanStates
    <3>3. CASE scan' = [scan EXCEPT ![s].pc = "claim"]
      <4>1. scan[s].todo # <<>>
        BY <2>5 DEF ScanOffer
      <4> QED
        BY <1>0, <3>3, <4>1 DEF ScanTypes, ScanStates
    <3> QED
      BY <2>5, <3>2, <3>3 DEF ScanOffer
  <2>6. CASE ScanClaim(s)
    <3>1. Tail(scan[s].todo) \in Seq(Messages)
      BY <1>0, <2>6, HeadTailProperties DEF ScanClaim, ScanTypes, ScanStates
    <3> QED
      BY <1>0, <2>6, <3>1 DEF ScanClaim, ScanTypes, ScanStates
  <2>7. CASE ScanEnd(s)
    BY <2>7, <2>e DEF ScanEnd, EndScan
  <2> QED
    BY <1>3, <2>1, <2>2, <2>3, <2>4, <2>5, <2>6, <2>7 DEF ScanStep
<1>4. ASSUME StartRescan PROVE Goal
  BY <1>0, <1>4 DEF StartRescan, ScanTypes, ScanStates
<1>5. ASSUME Crash PROVE Goal
  BY <1>5, <1>n DEF Crash, ScanTypes
<1> QED
  BY <1>u, <1>1, <1>2, <1>3, <1>4, <1>5 DEF Next, vars, Elapse

-----------------------------------------------------------------------------
(***************************************************************************)
(* The tasks, their guards and their permits.                               *)
(***************************************************************************)
GuardSteps == {"permit", "load", "process", "remove", "record", "drop"}
WorkSteps  == {"load", "process"}

TaskTypes ==
  /\ task \in [Tasks -> TaskStates] /\ active \subseteq Messages
  /\ workFree \in 0 .. MaxSlots /\ GuardInv /\ PermitInv

\* One task changes; it takes or returns its permit, or leaves it.
LEMMA TaskMove ==
  ASSUME TaskTypes, NEW t \in Tasks, NEW r \in TaskStates, task' = [task EXCEPT ![t] = r],
         \/ r.pc \in WorkSteps /\ task[t].pc \notin WorkSteps
              /\ workFree > 0 /\ workFree' = workFree - 1
         \/ r.pc \notin WorkSteps /\ task[t].pc \in WorkSteps /\ workFree' = workFree + 1
         \/ (r.pc \in WorkSteps <=> task[t].pc \in WorkSteps) /\ workFree' = workFree
  PROVE  /\ task' \in [Tasks -> TaskStates] /\ task'[t] = r
         /\ \A u \in Tasks \ {t} : task'[u] = task[u]
         /\ IsFiniteSet(Guarding) /\ IsFiniteSet(Guarding')
         /\ Guarding' = (IF r.pc \in GuardSteps THEN Guarding \cup {t} ELSE Guarding \ {t})
         /\ t \in Guarding <=> task[t].pc \in GuardSteps
         /\ workFree' \in 0 .. MaxSlots /\ PermitInv'
<1>0. /\ task \in [Tasks -> TaskStates] /\ workFree = MaxSlots - Cardinality(Working)
      /\ workFree \in 0 .. MaxSlots /\ MaxSlots \in Nat
  BY SchedulerAssumption DEF TaskTypes, PermitInv
<1>1. /\ task' \in [Tasks -> TaskStates] /\ task'[t] = r
      /\ \A u \in Tasks \ {t} : task'[u] = task[u]
  BY <1>0
<1>2. /\ Guarding' = (IF r.pc \in GuardSteps THEN Guarding \cup {t} ELSE Guarding \ {t})
      /\ t \in Guarding <=> task[t].pc \in GuardSteps
  BY <1>1 DEF Guarding, GuardSteps
<1>3. /\ Working' = (IF r.pc \in WorkSteps THEN Working \cup {t} ELSE Working \ {t})
      /\ t \in Working <=> task[t].pc \in WorkSteps
  BY <1>1 DEF Working, WorkSteps
<1>4. IsFiniteSet(Guarding) /\ IsFiniteSet(Guarding') /\ IsFiniteSet(Working) /\ IsFiniteSet(Working')
  <2>1. /\ Guarding \subseteq Tasks /\ Guarding' \subseteq Tasks
        /\ Working \subseteq Tasks /\ Working' \subseteq Tasks
    BY DEF Guarding, Working
  <2> QED
    BY <2>1, FS_Subset, SchedulerAssumption
<1>5. workFree' = MaxSlots - Cardinality(Working') /\ workFree' \in 0 .. MaxSlots
  <2>1. /\ Cardinality(Working) \in Nat /\ Cardinality(Working') \in Nat
        /\ t \notin Working => Cardinality(Working \cup {t}) = Cardinality(Working) + 1
        /\ t \in Working => Cardinality(Working \ {t}) = Cardinality(Working) - 1
    BY <1>4, OneMoreOrLess
  <2>3. CASE r.pc \in WorkSteps /\ task[t].pc \notin WorkSteps
    BY <1>0, <1>3, <2>1, <2>3
  <2>4. CASE r.pc \notin WorkSteps /\ task[t].pc \in WorkSteps
    BY <1>0, <1>3, <2>1, <2>4
  <2>5. CASE r.pc \in WorkSteps <=> task[t].pc \in WorkSteps
    <3>1. Working' = Working /\ workFree' = workFree
      BY <1>3, <2>5
    <3> QED
      BY <1>0, <3>1
  <2> QED
    BY <2>3, <2>4, <2>5
<1> QED
  BY <1>1, <1>2, <1>4, <1>5 DEF PermitInv

\* A task that keeps its guard, or has none, leaves the active set as it is.
LEMMA GuardStays ==
  ASSUME TaskTypes, NEW t \in Tasks, NEW r \in TaskStates, task' = [task EXCEPT ![t] = r],
         \/ r.pc \in WorkSteps /\ task[t].pc \notin WorkSteps
              /\ workFree > 0 /\ workFree' = workFree - 1
         \/ r.pc \notin WorkSteps /\ task[t].pc \in WorkSteps /\ workFree' = workFree + 1
         \/ (r.pc \in WorkSteps <=> task[t].pc \in WorkSteps) /\ workFree' = workFree,
         \/ r.pc \in GuardSteps /\ task[t].pc \in GuardSteps /\ r.msg = task[t].msg
         \/ r.pc \notin GuardSteps /\ task[t].pc \notin GuardSteps,
         active' = active
  PROVE  TaskTypes'
<1>1. /\ task' \in [Tasks -> TaskStates] /\ task'[t] = r
      /\ \A u \in Tasks \ {t} : task'[u] = task[u]
      /\ Guarding' = (IF r.pc \in GuardSteps THEN Guarding \cup {t} ELSE Guarding \ {t})
      /\ t \in Guarding <=> task[t].pc \in GuardSteps
      /\ workFree' \in 0 .. MaxSlots /\ PermitInv'
  BY TaskMove
<1>2. /\ Guarding' = Guarding /\ Guarding \subseteq Tasks
      /\ \A u \in Guarding : task'[u].msg = task[u].msg
  BY <1>1 DEF Guarding
<1>3. GuardInv'
  BY <1>2 DEF TaskTypes, GuardInv, ActiveMatchesTasks
<1> QED
  BY <1>1, <1>3 DEF TaskTypes

\* A task drops its guard: its message leaves the active set, and no other does.
LEMMA GuardDropped ==
  ASSUME TaskTypes, NEW t \in Tasks, NEW r \in TaskStates, task' = [task EXCEPT ![t] = r],
         r.pc \notin GuardSteps, task[t].pc \in GuardSteps, active' = active \ {task[t].msg},
         \/ task[t].pc \in WorkSteps /\ workFree' = workFree + 1
         \/ task[t].pc \notin WorkSteps /\ workFree' = workFree
  PROVE  TaskTypes'
<1>0. r.pc \notin WorkSteps
  BY DEF GuardSteps, WorkSteps
<1>1. /\ task' \in [Tasks -> TaskStates] /\ task'[t] = r
      /\ \A u \in Tasks \ {t} : task'[u] = task[u]
      /\ Guarding' = Guarding \ {t} /\ t \in Guarding /\ IsFiniteSet(Guarding)
      /\ workFree' \in 0 .. MaxSlots /\ PermitInv'
  BY <1>0, TaskMove
<1> DEFINE m == task[t].msg
<1>2. /\ \A u, v \in Guarding : task[u].msg = task[v].msg => u = v
      /\ active = {task[u].msg : u \in Guarding} /\ Cardinality(active) = Cardinality(Guarding)
      /\ Cardinality(Guarding) <= MaxSlots /\ \A u \in Guarding : task[u].msg \in Messages
      /\ active \subseteq Messages
  BY DEF TaskTypes, GuardInv, ActiveMatchesTasks
<1>3. \A u \in Guarding' : u \in Guarding /\ task'[u].msg = task[u].msg /\ task[u].msg # m
  BY <1>1, <1>2 DEF Guarding
<1>4. active' = {task'[u].msg : u \in Guarding'}
  BY <1>1, <1>2, <1>3
<1>5. /\ Cardinality(active') = Cardinality(Guarding') /\ Cardinality(Guarding') <= MaxSlots
  <2>1. IsFiniteSet(active) /\ m \in active
    <3>1. IsFiniteSet(active)
      BY <1>2, SchedulerAssumption, FS_Subset
    <3> QED
      BY <1>1, <1>2, <3>1
  <2>2. Cardinality(active \ {m}) = Cardinality(active) - 1
    BY <2>1, OneMoreOrLess
  <2>3. Cardinality(Guarding \ {t}) = Cardinality(Guarding) - 1 /\ Cardinality(Guarding) \in Nat
    BY <1>1, OneMoreOrLess
  <2> HIDE DEF m
  <2>4. MaxSlots \in Nat
    BY SchedulerAssumption
  <2> QED
    BY <1>1, <1>2, <2>2, <2>3, <2>4 DEF m
<1>6. GuardInv'
  <2>1. \A u, v \in Guarding' : task'[u].msg = task'[v].msg => u = v
    BY <1>2, <1>3
  <2> QED
    BY <1>2, <1>3, <1>4, <1>5, <2>1 DEF GuardInv, ActiveMatchesTasks
<1> QED
  BY <1>1, <1>2, <1>6 DEF TaskTypes

\* schedule_message_job claims a message that no task has, while there is a free slot.
LEMMA GuardClaimed ==
  ASSUME TaskTypes, NEW m \in Messages, Claim(m), UNCHANGED workFree
  PROVE  TaskTypes'
<1>1. CASE MayClaim(m)
  <2>1. PICK t \in Tasks :
          /\ task[t].pc = "none" /\ active' = active \cup {m}
          /\ task' = [task EXCEPT ![t] = [pc |-> "permit", msg |-> m, out |-> "complete"]]
    BY <1>1 DEF Claim
  <2> DEFINE r == [pc |-> "permit", msg |-> m, out |-> "complete"]
  <2>2. r \in TaskStates /\ r.pc = "permit" /\ r.msg = m
    BY DEF TaskStates
  <2> HIDE DEF r
  <2>3. /\ task' \in [Tasks -> TaskStates] /\ task'[t] = r
        /\ \A u \in Tasks \ {t} : task'[u] = task[u]
        /\ Guarding' = Guarding \cup {t} /\ t \notin Guarding /\ IsFiniteSet(Guarding)
        /\ workFree' \in 0 .. MaxSlots /\ PermitInv'
    <3>1. task' = [task EXCEPT ![t] = r]
      BY <2>1 DEF r
    <3> QED
      BY <2>1, <2>2, <3>1, TaskMove DEF GuardSteps, WorkSteps
  <2>4. /\ \A u, v \in Guarding : task[u].msg = task[v].msg => u = v
        /\ active = {task[u].msg : u \in Guarding} /\ Cardinality(active) = Cardinality(Guarding)
        /\ \A u \in Guarding : task[u].msg \in Messages
        /\ active \subseteq Messages /\ m \notin active /\ Cardinality(active) < MaxSlots
    BY <1>1 DEF TaskTypes, GuardInv, ActiveMatchesTasks, MayClaim
  <2>5. \A u \in Guarding : u \in Tasks \ {t} /\ task'[u].msg = task[u].msg /\ task[u].msg # m
    BY <2>3, <2>4 DEF Guarding
  <2>6. active' = {task'[u].msg : u \in Guarding'}
    BY <2>1, <2>2, <2>3, <2>4, <2>5
  <2>7. Cardinality(active') = Cardinality(Guarding') /\ Cardinality(Guarding') <= MaxSlots
    <3>1. IsFiniteSet(active)
      BY <2>4, SchedulerAssumption, FS_Subset
    <3>2. Cardinality(active \cup {m}) = Cardinality(active) + 1
      BY <2>4, <3>1, OneMoreOrLess
    <3>3. Cardinality(Guarding \cup {t}) = Cardinality(Guarding) + 1 /\ Cardinality(Guarding) \in Nat
      BY <2>3, OneMoreOrLess
    <3>4. MaxSlots \in Nat
      BY SchedulerAssumption
    <3> QED
      BY <2>1, <2>3, <2>4, <3>2, <3>3, <3>4
  <2>8. GuardInv'
    <3>1. \A u, v \in Guarding' : task'[u].msg = task'[v].msg => u = v
      BY <2>2, <2>3, <2>4, <2>5
    <3>2. \A u \in Guarding' : task'[u].msg \in Messages
      BY <2>2, <2>3, <2>4, <2>5
    <3> QED
      BY <2>6, <2>7, <3>1, <3>2 DEF GuardInv, ActiveMatchesTasks
  <2> QED
    BY <2>1, <2>3, <2>4, <2>8 DEF TaskTypes
<1>2. CASE ~MayClaim(m)
  <2>1. UNCHANGED <<task, active, workFree>>
    BY <1>2 DEF Claim
  <2> QED
    BY <2>1 DEF TaskTypes, GuardInv, PermitInv, ActiveMatchesTasks, Guarding, Working
<1> QED
  BY <1>1, <1>2


\* Every step keeps the active set equal to what the tasks hold, and the permits of
\* request_slots with the tasks that have one.
LEMMA TaskKept ==
  ASSUME SchedulerIInv, [Next]_vars
  PROVE  TaskTypes'
<1>0. TaskTypes /\ ScanInv /\ task \in [Tasks -> TaskStates] /\ HandlerInv /\ ScanTypes
  BY DEF SchedulerIInv, TypeOK, TaskTypes, ScanTypes
<1>u. ASSUME UNCHANGED <<task, active, workFree>> PROVE TaskTypes'
  BY <1>0, <1>u DEF TaskTypes, GuardInv, PermitInv, ActiveMatchesTasks, Guarding, Working
<1>n. NoTask \in TaskStates /\ NoTask.pc = "none"
  BY DEF NoTask, TaskStates
<1>1. ASSUME NEW h \in Handlers,
             \/ \E m \in Messages : Receive(h, m)
             \/ HandlerStep(h) \/ EndReading(h) \/ Cancel(h) \/ PersistFault(h)
      PROVE  TaskTypes'
  <2>1. CASE OfferClaim(h)
    <3>1. handler[h].msg \in Messages /\ Claim(handler[h].msg) /\ UNCHANGED workFree
      BY <1>0, <2>1 DEF OfferClaim, HandlerInv
    <3> QED
      BY <1>0, <3>1, GuardClaimed
  <2>2. CASE ~OfferClaim(h)
    <3>1. UNCHANGED <<task, active, workFree>>
      BY <1>1, <2>2 DEF HandlerStep, Receive, StartPersist, EndReading, Cancel, Persist, PersistFull,
         PersistFault, OfferDeferred
    <3> QED
      BY <1>u, <3>1
  <2> QED
    BY <2>1, <2>2
<1>2. ASSUME NEW s \in Scanners, ScanStep(s) \/ ScanFault(s) PROVE TaskTypes'
  <2>e. ASSUME scan[s].pc # "idle", EndScan(s), UNCHANGED <<active, workFree>> PROVE TaskTypes'
    <3>1. CASE s = Rescan
      BY <1>u, <2>e, <3>1 DEF EndScan
    <3>2. CASE s # Rescan
      <4>1. s \in Tasks /\ task[s].pc = "tail" /\ task' = [task EXCEPT ![s] = NoTask]
        BY <1>0, <2>e, <3>2 DEF EndScan, Scanners, ScanInv
      <4> QED
        BY <1>0, <1>n, <2>e, <4>1, GuardStays DEF GuardSteps, WorkSteps
    <3> QED
      BY <3>1, <3>2
  <2>1. CASE ScanClaim(s)
    <3>1. scan[s].todo \in Seq(Messages) /\ scan[s].todo # <<>>
      BY <1>0, <2>1 DEF ScanClaim, ScanInv, ScanTypes, ScanStates
    <3>2. Head(scan[s].todo) \in Messages
      BY <3>1, HeadTailProperties
    <3>3. Claim(Head(scan[s].todo)) /\ UNCHANGED workFree
      BY <2>1 DEF ScanClaim
    <3> QED
      BY <1>0, <3>2, <3>3, GuardClaimed
  <2>2. CASE ScanActive(s) \/ ScanFault(s) \/ ScanEnd(s)
    BY <1>u, <2>2, <2>e DEF ScanActive, ScanFault, ScanEnd
  <2>3. CASE ScanDeferred(s) \/ ScanList(s) \/ ScanOffer(s)
    BY <1>u, <2>3 DEF ScanDeferred, ScanList, ScanOffer
  <2> QED
    BY <1>2, <2>1, <2>2, <2>3 DEF ScanStep
<1>3. ASSUME NEW t \in Tasks, TaskStep(t) \/ TaskLoadFault(t) \/ TaskPanics(t) \/ TaskRemoveFault(t)
      PROVE  TaskTypes'
  <2>s. ASSUME NEW pc \in GuardSteps, NEW out \in {"complete", "retry"}, SetTask(t, pc, out),
               task[t].pc \in GuardSteps, active' = active,
               \/ pc \in WorkSteps /\ task[t].pc \notin WorkSteps
                    /\ workFree > 0 /\ workFree' = workFree - 1
               \/ pc \notin WorkSteps /\ task[t].pc \in WorkSteps /\ workFree' = workFree + 1
               \/ (pc \in WorkSteps <=> task[t].pc \in WorkSteps) /\ workFree' = workFree
        PROVE  TaskTypes'
    <3> DEFINE r == [task[t] EXCEPT !.pc = pc, !.out = out]
    <3>1. r \in TaskStates /\ r.pc = pc /\ r.msg = task[t].msg
      BY <1>0 DEF TaskStates, GuardSteps
    <3>2. task' = [task EXCEPT ![t] = r]
      BY <1>0, <2>s DEF SetTask
    <3> HIDE DEF r
    <3> QED
      BY <1>0, <2>s, <3>1, <3>2, GuardStays
  <2>1. CASE TaskPermit(t)
    BY <2>1, <2>s DEF TaskPermit, GuardSteps, WorkSteps
  <2>2. CASE TaskLoad(t)
    BY <2>2, <2>s DEF TaskLoad, GuardSteps, WorkSteps
  <2>3. CASE TaskLoadFault(t) \/ TaskSucceeds(t) \/ TaskFails(t)
    BY <2>3, <2>s DEF TaskLoadFault, TaskSucceeds, TaskFails, GuardSteps, WorkSteps
  <2>4. CASE TaskRemove(t) \/ TaskRemoveFault(t)
    BY <2>4, <2>s DEF TaskRemove, TaskRemoveFault, GuardSteps, WorkSteps
  <2>5. CASE TaskRecord(t)
    <3>1. task[t].out \in {"complete", "retry"}
      BY <1>0 DEF TaskStates
    <3> QED
      BY <2>5, <2>s, <3>1 DEF TaskRecord, GuardSteps, WorkSteps
  <2>6. CASE TaskPanics(t)
    BY <1>0, <1>n, <2>6, GuardDropped DEF TaskPanics, GuardSteps, WorkSteps
  <2>7. CASE TaskDrop(t)
    <3> DEFINE r == [NoTask EXCEPT !.pc = "tail"]
    <3>1. r \in TaskStates /\ r.pc = "tail"
      BY DEF NoTask, TaskStates
    <3>2. /\ task' = [task EXCEPT ![t] = r] /\ task[t].pc = "drop"
          /\ active' = active \ {task[t].msg} /\ workFree' = workFree
      BY <2>7 DEF TaskDrop
    <3> HIDE DEF r
    <3> QED
      BY <1>0, <3>1, <3>2, GuardDropped DEF GuardSteps, WorkSteps
  <2> QED
    BY <1>3, <2>1, <2>2, <2>3, <2>4, <2>5, <2>6, <2>7 DEF TaskStep, ProcessStep
<1>4. ASSUME Crash PROVE TaskTypes'
  <2>1. /\ task' = [t \in Tasks |-> NoTask] /\ active' = {} /\ workFree' = MaxSlots
        /\ MaxSlots \in Nat
    BY <1>4, SchedulerAssumption DEF Crash
  <2>2. task' \in [Tasks -> TaskStates] /\ \A t \in Tasks : task'[t].pc = "none"
    BY <1>n, <2>1
  <2>3. Guarding' = {} /\ Working' = {}
    BY <2>2 DEF Guarding, Working
  <2>4. Cardinality({}) = 0
    BY FS_EmptySet
  <2>5. GuardInv'
    BY <2>1, <2>3, <2>4 DEF GuardInv, ActiveMatchesTasks
  <2> QED
    BY <2>1, <2>2, <2>3, <2>4, <2>5 DEF TaskTypes, PermitInv
<1> QED
  BY <1>u, <1>1, <1>2, <1>3, <1>4 DEF Next, vars, StartRescan, Elapse

\* A task scans only after its guard is dropped, and ends with its scan.
LEMMA TailKept ==
  ASSUME SchedulerIInv, [Next]_vars
  PROVE  \A t \in Tasks : scan'[t].pc # "idle" => task'[t].pc = "tail"
<1> DEFINE Goal == \A t \in Tasks : scan'[t].pc # "idle" => task'[t].pc = "tail"
<1>0. /\ \A t \in Tasks : scan[t].pc # "idle" => task[t].pc = "tail"
      /\ task \in [Tasks -> TaskStates] /\ scan \in [Scanners -> ScanStates]
      /\ Tasks \subseteq Scanners /\ Rescan \notin Tasks
  BY SchedulerAssumption DEF SchedulerIInv, ScanInv, TypeOK, Scanners
<1>t. ASSUME NEW t \in Tasks, NEW r, task[t].pc # "tail", task' = [task EXCEPT ![t] = r],
             UNCHANGED scan
      PROVE  Goal
  BY <1>0, <1>t
<1>c. ASSUME NEW m, Claim(m) PROVE \A t \in Tasks : task[t].pc = "tail" => task'[t].pc = "tail"
  BY <1>0, <1>c DEF Claim
<1>1. ASSUME NEW h \in Handlers,
             \/ \E m \in Messages : Receive(h, m)
             \/ HandlerStep(h) \/ EndReading(h) \/ Cancel(h) \/ PersistFault(h)
      PROVE  Goal
  <2>1. CASE OfferClaim(h)
    BY <1>0, <1>c, <2>1 DEF OfferClaim
  <2> QED
    BY <1>0, <1>1, <2>1 DEF HandlerStep, Receive, StartPersist, EndReading, Cancel, Persist,
       PersistFull, PersistFault, OfferDeferred
<1>2. ASSUME NEW s \in Scanners, ScanStep(s) \/ ScanFault(s) PROVE Goal
  <2>1. scan[s].pc # "idle"
    BY <1>2 DEF ScanStep, ScanFault, ScanActive, ScanDeferred, ScanList, ScanOffer, ScanClaim, ScanEnd
  <2>e. ASSUME EndScan(s) PROVE Goal
    <3>1. scan'[s].pc = "idle" /\ \A t \in Tasks \ {s} : scan'[t] = scan[t] /\ task'[t] = task[t]
      BY <1>0, <2>e DEF EndScan, NoScan
    <3> QED
      BY <1>0, <3>1
  <2>k. ASSUME \A t \in Tasks \ {s} : scan'[t] = scan[t],
               \A t \in Tasks : task[t].pc = "tail" => task'[t].pc = "tail"
        PROVE  Goal
    BY <1>0, <2>1, <2>k
  <2>2. CASE ScanClaim(s)
    <3>1. \A t \in Tasks \ {s} : scan'[t] = scan[t]
      BY <1>0, <2>2 DEF ScanClaim
    <3> QED
      BY <1>c, <2>2, <2>k, <3>1 DEF ScanClaim
  <2>3. CASE ScanDeferred(s) \/ ScanList(s) \/ ScanOffer(s)
    <3>1. UNCHANGED task /\ \A t \in Tasks \ {s} : scan'[t] = scan[t]
      BY <1>0, <2>3 DEF ScanDeferred, ScanList, ScanOffer
    <3> QED
      BY <2>k, <3>1
  <2>4. CASE ScanActive(s)
    <3>1. CASE Cardinality(active) < MaxSlots
      <4>1. UNCHANGED task /\ \A t \in Tasks \ {s} : scan'[t] = scan[t]
        BY <1>0, <2>4, <3>1 DEF ScanActive
      <4> QED
        BY <2>k, <4>1
    <3> QED
      BY <2>4, <2>e, <3>1 DEF ScanActive
  <2>5. CASE ScanFault(s)
    <3>1. CASE s = Rescan /\ ~serving
      <4>1. UNCHANGED task /\ \A t \in Tasks \ {s} : scan'[t] = scan[t]
        BY <1>0, <2>5, <3>1 DEF ScanFault
      <4> QED
        BY <2>k, <4>1
    <3> QED
      BY <2>5, <2>e, <3>1 DEF ScanFault
  <2>6. CASE ScanEnd(s)
    BY <2>6, <2>e DEF ScanEnd
  <2> QED
    BY <1>2, <2>2, <2>3, <2>4, <2>5, <2>6 DEF ScanStep
<1>3. ASSUME NEW t \in Tasks, TaskStep(t) \/ TaskLoadFault(t) \/ TaskPanics(t) \/ TaskRemoveFault(t)
      PROVE  Goal
  <2>1. CASE TaskDrop(t)
    <3>1. /\ task'[t].pc = "tail"
          /\ \A u \in Tasks \ {t} : task'[u] = task[u] /\ scan'[u] = scan[u]
      BY <1>0, <2>1 DEF TaskDrop, NoTask
    <3> QED
      BY <1>0, <3>1
  <2>2. CASE ~TaskDrop(t)
    <3>1. task[t].pc # "tail" /\ UNCHANGED scan /\ \E r : task' = [task EXCEPT ![t] = r]
      BY <1>3, <2>2 DEF TaskStep, ProcessStep, TaskPermit, TaskLoad, TaskLoadFault, TaskSucceeds,
         TaskFails, TaskPanics, TaskRemove, TaskRemoveFault, TaskRecord, SetTask
    <3> QED
      BY <1>t, <3>1
  <2> QED
    BY <2>1, <2>2
<1>4. ASSUME StartRescan PROVE Goal
  <2>1. UNCHANGED task /\ \A t \in Tasks : scan'[t] = scan[t]
    BY <1>0, <1>4 DEF StartRescan
  <2> QED
    BY <1>0, <2>1
<1>5. ASSUME Crash PROVE Goal
  BY <1>0, <1>5 DEF Crash, NoScan
<1> QED
  BY <1>0, <1>1, <1>2, <1>3, <1>4, <1>5 DEF Next, vars, Elapse


-----------------------------------------------------------------------------
(***************************************************************************)
(* What a task processes and removes.                                       *)
(***************************************************************************)

\* A step of a task that neither begins to process nor is removing its job.
LEMMA RunQuiet ==
  ASSUME RunInv, NEW t \in Tasks, UNCHANGED <<spool, succeeded, crashes>>,
         faults' = faults \/ faults' # 0,
         \A u \in Tasks \ {t} : task'[u] = task[u],
         task[t].pc # "remove", task'[t].pc \notin {"process", "remove"}
  PROVE  RunInv'
<1>1. Pending' = Pending
  BY DEF Pending
<1>2. \A u \in Tasks : task'[u].pc \in {"process", "remove"} => task'[u] = task[u]
  OBVIOUS
<1>3. \A u \in Tasks : task[u].pc = "remove" => task'[u] = task[u]
  OBVIOUS
<1>4. \A u \in Tasks : task'[u].pc \in {"process", "remove"} => task'[u].msg \in Pending'
  BY <1>1, <1>2 DEF RunInv
<1>5. \A u \in Tasks : task'[u].pc = "remove" => task'[u].msg \in succeeded'
  BY <1>2 DEF RunInv
<1>6. ASSUME faults' = 0, crashes' = 0, NEW m \in succeeded' \cap Pending'
      PROVE  \E u \in Tasks : task'[u].pc = "remove" /\ task'[u].msg = m
  BY <1>1, <1>3, <1>6 DEF RunInv
<1>7. NoRerunOfCompleted'
  BY <1>2 DEF RunInv, NoRerunOfCompleted
<1> QED
  BY <1>4, <1>5, <1>6, <1>7 DEF RunInv

\* Every step keeps a job pending while its task has it, and a completed one from
\* running again.
LEMMA RunKept ==
  ASSUME SchedulerIInv, [Next]_vars
  PROVE  RunInv'
<1>0. /\ RunInv /\ task \in [Tasks -> TaskStates] /\ spool \in Seq(Messages) /\ SpoolInv
      /\ \A t, u \in Guarding : task[t].msg = task[u].msg => t = u
      /\ HandlerInv /\ ScanInv /\ faults \in Nat /\ crashes \in Nat
  BY SchedulerAssumption
  DEF SchedulerIInv, TypeOK, GuardInv, ActiveMatchesTasks
<1>u. ASSUME UNCHANGED <<task, spool, succeeded, crashes>>, faults' = faults \/ faults' # 0
      PROVE  RunInv'
  BY <1>0, <1>u DEF RunInv, NoRerunOfCompleted, Pending
<1>c. ASSUME NEW m, Claim(m), UNCHANGED <<spool, succeeded, crashes, faults>> PROVE RunInv'
  <2>1. CASE MayClaim(m)
    <3>1. PICK t \in Tasks : /\ task[t].pc = "none" /\ task'[t].pc = "permit"
                             /\ \A u \in Tasks \ {t} : task'[u] = task[u]
      BY <1>0, <1>c, <2>1 DEF Claim
    <3> QED
      BY <1>0, <1>c, <3>1, RunQuiet
  <2> QED
    BY <1>u, <1>c, <2>1 DEF Claim
<1>1. ASSUME NEW h \in Handlers,
             \/ \E m \in Messages : Receive(h, m)
             \/ HandlerStep(h) \/ EndReading(h) \/ Cancel(h) \/ PersistFault(h)
      PROVE  RunInv'
  <2>1. CASE OfferClaim(h)
    BY <1>c, <2>1 DEF OfferClaim
  <2>2. ASSUME Stores(h), UNCHANGED <<task, crashes>>, faults' = faults \/ faults' # 0 PROVE RunInv'
    <3> DEFINE m == handler[h].msg
    <3>1. m \in Messages
      BY <1>0, <2>2 DEF Stores, HandlerInv
    <3>2. CASE m \in Pending
      BY <1>u, <2>2, <3>2 DEF Stores, Enqueue
    <3>3. CASE m \notin Pending
      <4>1. succeeded' = succeeded \ {m} /\ spool' = Append(spool, m)
        BY <2>2, <3>3 DEF Stores, Enqueue
      <4>2. /\ spool' \in Seq(Messages) /\ Len(spool') = Len(spool) + 1
            /\ \A i \in 1 .. Len(spool) : spool'[i] = spool[i]
            /\ spool'[Len(spool) + 1] = m
        BY <1>0, <3>1, <4>1, AppendProperties
      <4>3. Pending' = Pending \cup {m}
        <5>1. DOMAIN spool = 1 .. Len(spool) /\ DOMAIN spool' = 1 .. Len(spool) + 1 /\ Len(spool) \in Nat
          BY <1>0, <4>2
        <5> HIDE DEF m
        <5> QED
          BY <4>2, <5>1 DEF Pending
      <4> HIDE DEF m
      <4> QED
        BY <1>0, <2>2, <3>1, <3>3, <4>1, <4>3 DEF RunInv, NoRerunOfCompleted
    <3> QED
      BY <3>2, <3>3
  <2>3. CASE Persist(h) \/ PersistFault(h)
    BY <1>0, <1>u, <2>2, <2>3 DEF Persist, PersistFault, Stores
  <2> QED
    BY <1>u, <1>1, <2>1, <2>3 DEF HandlerStep, Receive, StartPersist, EndReading, Cancel,
       PersistFull, OfferDeferred
<1>2. ASSUME NEW s \in Scanners, ScanStep(s) \/ ScanFault(s) PROVE RunInv'
  <2>e. ASSUME EndScan(s), scan[s].pc # "idle", UNCHANGED <<spool, succeeded, crashes>>,
               faults' = faults \/ faults' # 0
        PROVE  RunInv'
    <3>1. CASE s = Rescan
      BY <1>u, <2>e, <3>1 DEF EndScan
    <3>2. CASE s # Rescan
      <4>1. s \in Tasks /\ task[s].pc = "tail"
        BY <1>0, <2>e, <3>2 DEF Scanners, ScanInv
      <4>2. task'[s].pc = "none" /\ \A u \in Tasks \ {s} : task'[u] = task[u]
        BY <1>0, <2>e, <3>2, <4>1 DEF EndScan, NoTask
      <4> QED
        BY <1>0, <2>e, <4>1, <4>2, RunQuiet
    <3> QED
      BY <3>1, <3>2
  <2>1. CASE ScanClaim(s)
    BY <1>c, <2>1 DEF ScanClaim
  <2>2. CASE ScanActive(s) \/ ScanEnd(s)
    BY <1>u, <2>2, <2>e DEF ScanActive, ScanEnd
  <2>3. CASE ScanFault(s)
    <3>1. faults' # 0 /\ UNCHANGED <<spool, succeeded, crashes>> /\ scan[s].pc # "idle"
      BY <1>0, <2>3 DEF ScanFault
    <3>2. UNCHANGED task \/ EndScan(s)
      BY <2>3 DEF ScanFault
    <3> QED
      BY <1>u, <2>e, <3>1, <3>2
  <2> QED
    BY <1>2, <1>u, <2>1, <2>2, <2>3 DEF ScanStep, ScanDeferred, ScanList, ScanOffer
<1>3. ASSUME NEW t \in Tasks, TaskStep(t) \/ TaskLoadFault(t) \/ TaskPanics(t) \/ TaskRemoveFault(t)
      PROVE  RunInv'
  <2>s. ASSUME NEW pc, NEW out, SetTask(t, pc, out)
        PROVE  /\ task'[t].pc = pc /\ task'[t].msg = task[t].msg
               /\ \A u \in Tasks \ {t} : task'[u] = task[u]
    BY <1>0, <2>s DEF SetTask, TaskStates
  <2>q. ASSUME NEW pc, NEW out, SetTask(t, pc, out), UNCHANGED <<spool, succeeded, crashes>>,
               faults' = faults \/ faults' # 0, task[t].pc # "remove",
               pc \notin {"process", "remove"}
        PROVE  RunInv'
    BY <1>0, <2>q, <2>s, RunQuiet
  <2>g. ASSUME NEW u \in Tasks \ {t}, task[t].pc \in {"load", "process", "remove"},
               task[u].pc \in {"process", "remove"}
        PROVE  task[u].msg # task[t].msg
    <3>1. t \in Guarding /\ u \in Guarding
      BY <2>g DEF Guarding
    <3> QED
      BY <1>0, <3>1
  <2>1. CASE TaskPermit(t) \/ TaskRecord(t)
    BY <2>1, <2>q DEF TaskPermit, TaskRecord
  <2>2. CASE TaskLoad(t)
    <3>1. CASE task[t].msg \in Pending
      <4>1. /\ task[t].pc = "load" /\ task'[t].pc = "process" /\ task'[t].msg = task[t].msg
            /\ \A u \in Tasks \ {t} : task'[u] = task[u]
            /\ UNCHANGED <<spool, succeeded, faults, crashes>>
        BY <2>2, <2>s, <3>1 DEF TaskLoad
      <4>2. faults = 0 /\ crashes = 0 => task[t].msg \notin succeeded
        BY <1>0, <2>g, <3>1, <4>1 DEF RunInv
      <4>3. Pending' = Pending
        BY <4>1 DEF Pending
      <4>4. \A u \in Tasks : task[u].pc = "remove" => task'[u] = task[u]
        BY <4>1
      <4> QED
        BY <1>0, <3>1, <4>1, <4>2, <4>3, <4>4 DEF RunInv, NoRerunOfCompleted
    <3>2. CASE task[t].msg \notin Pending
      BY <2>2, <2>q, <3>2 DEF TaskLoad
    <3> QED
      BY <3>1, <3>2
  <2>3. CASE TaskLoadFault(t)
    <3>1. faults' # 0
      BY <1>0, <2>3 DEF TaskLoadFault
    <3> QED
      BY <2>3, <2>q, <3>1 DEF TaskLoadFault
  <2>4. CASE TaskSucceeds(t)
    <3>1. /\ task[t].pc = "process" /\ task'[t].pc = "remove" /\ task'[t].msg = task[t].msg
          /\ \A u \in Tasks \ {t} : task'[u] = task[u]
          /\ UNCHANGED <<spool, faults, crashes>> /\ succeeded' = succeeded \cup {task[t].msg}
      BY <2>4, <2>s DEF TaskSucceeds
    <3>2. Pending' = Pending
      BY <3>1 DEF Pending
    <3>3. \A u \in Tasks \ {t} : task[u].pc = "process" => task[u].msg # task[t].msg
      BY <2>g, <3>1
    <3>4. /\ \A u \in Tasks : task'[u].pc \in {"process", "remove"} => task'[u].msg \in Pending'
          /\ \A u \in Tasks : task'[u].pc = "remove" => task'[u].msg \in succeeded'
      BY <1>0, <3>1, <3>2 DEF RunInv
    <3>5. ASSUME faults' = 0, crashes' = 0, NEW m \in succeeded' \cap Pending'
          PROVE  \E u \in Tasks : task'[u].pc = "remove" /\ task'[u].msg = m
      <4>1. CASE m = task[t].msg
        BY <3>1, <4>1
      <4>2. CASE m # task[t].msg
        <5>1. PICK u \in Tasks : task[u].pc = "remove" /\ task[u].msg = m
          BY <1>0, <3>1, <3>2, <3>5, <4>2 DEF RunInv
        <5>2. u # t
          BY <3>1, <5>1
        <5> QED
          BY <3>1, <5>1, <5>2
      <4> QED
        BY <4>1, <4>2
    <3>6. NoRerunOfCompleted'
      BY <1>0, <3>1, <3>3 DEF RunInv, NoRerunOfCompleted
    <3> QED
      BY <3>4, <3>5, <3>6 DEF RunInv
  <2>5. CASE TaskFails(t)
    BY <2>5, <2>q DEF TaskFails
  <2>6. CASE TaskPanics(t)
    <3>1. /\ faults' # 0 /\ UNCHANGED <<spool, succeeded, crashes>> /\ task[t].pc # "remove"
          /\ task'[t].pc = "none" /\ \A u \in Tasks \ {t} : task'[u] = task[u]
      BY <1>0, <2>6 DEF TaskPanics, NoTask
    <3> QED
      BY <1>0, <3>1, RunQuiet
  <2>7. ASSUME task[t].pc = "remove", spool' = Without(task[t].msg), UNCHANGED <<succeeded, crashes>>,
               task'[t].pc = "record", \A u \in Tasks \ {t} : task'[u] = task[u],
               faults' = faults \/ faults' # 0
        PROVE  RunInv'
    <3>1. Pending' = Pending \ {task[t].msg}
      <4>1. {spool'[i] : i \in DOMAIN spool'} = Pending \ {task[t].msg}
        BY <1>0, <2>7, WithoutOne
      <4>2. Pending' = {spool'[i] : i \in DOMAIN spool'}
        BY DEF Pending
      <4> QED
        BY <4>1, <4>2
    <3>2. \A u \in Tasks \ {t} : task[u].pc \in {"process", "remove"} => task[u].msg # task[t].msg
      BY <2>7, <2>g
    <3>3. /\ \A u \in Tasks : task'[u].pc \in {"process", "remove"} => task'[u].msg \in Pending'
          /\ \A u \in Tasks : task'[u].pc = "remove" => task'[u].msg \in succeeded'
      BY <1>0, <2>7, <3>1, <3>2 DEF RunInv
    <3>4. ASSUME faults' = 0, crashes' = 0, NEW m \in succeeded' \cap Pending'
          PROVE  \E u \in Tasks : task'[u].pc = "remove" /\ task'[u].msg = m
      <4>1. PICK u \in Tasks : task[u].pc = "remove" /\ task[u].msg = m
        BY <1>0, <2>7, <3>1, <3>4 DEF RunInv
      <4>2. u # t
        BY <3>1, <3>4, <4>1
      <4> QED
        BY <2>7, <4>1, <4>2
    <3>5. NoRerunOfCompleted'
      BY <1>0, <2>7 DEF RunInv, NoRerunOfCompleted
    <3> QED
      BY <3>3, <3>4, <3>5 DEF RunInv
  <2>8. CASE TaskRemove(t)
    <3>1. task'[t].pc = "record" /\ \A u \in Tasks \ {t} : task'[u] = task[u]
      BY <2>8, <2>s DEF TaskRemove
    <3> QED
      BY <2>7, <2>8, <3>1 DEF TaskRemove
  <2>9. CASE TaskRemoveFault(t)
    <3>1. /\ task'[t].pc = "record" /\ task[t].pc = "remove"
          /\ \A u \in Tasks \ {t} : task'[u] = task[u]
          /\ faults' # 0 /\ UNCHANGED <<succeeded, crashes>>
      BY <1>0, <2>9, <2>s DEF TaskRemoveFault
    <3>2. CASE spool' = spool
      <4>1. Pending' = Pending
        BY <3>2 DEF Pending
      <4> QED
        BY <1>0, <3>1, <4>1 DEF RunInv, NoRerunOfCompleted
    <3>3. CASE spool' = Without(task[t].msg)
      BY <2>7, <3>1, <3>3
    <3> QED
      BY <2>9, <3>2, <3>3 DEF TaskRemoveFault
  <2>10. CASE TaskDrop(t)
    <3>1. /\ UNCHANGED <<spool, succeeded, crashes, faults>> /\ task[t].pc = "drop"
          /\ task'[t].pc = "tail" /\ \A u \in Tasks \ {t} : task'[u] = task[u]
      BY <1>0, <2>10 DEF TaskDrop, NoTask
    <3> QED
      BY <1>0, <3>1, RunQuiet
  <2> QED
    BY <1>3, <2>1, <2>2, <2>3, <2>4, <2>5, <2>6, <2>8, <2>9, <2>10 DEF TaskStep, ProcessStep
<1>4. ASSUME Crash PROVE RunInv'
  <2>1. crashes' # 0 /\ \A t \in Tasks : task'[t].pc = "none"
    BY <1>0, <1>4 DEF Crash, NoTask
  <2> QED
    BY <2>1 DEF RunInv, NoRerunOfCompleted
<1> QED
  BY <1>u, <1>1, <1>2, <1>3, <1>4 DEF Next, vars, StartRescan, Elapse

-----------------------------------------------------------------------------
(***************************************************************************)
(* The whole invariant.                                                     *)
(***************************************************************************)

\* The process before its startup scan satisfies the inductive invariant.
LEMMA InitScheduler == Init => SchedulerIInv
<1> SUFFICES ASSUME Init PROVE SchedulerIInv
  OBVIOUS
<1> USE SchedulerAssumption
<1>1. NoTask \in TaskStates /\ NoScan \in ScanStates /\ IdleHandler \in HandlerStates
  BY EmptySeq DEF NoTask, NoScan, IdleHandler, TaskStates, ScanStates, HandlerStates
<1>2. /\ \A t \in Tasks : task[t].pc = "none"
      /\ \A s \in Scanners : scan[s].pc = "idle"
      /\ \A h \in Handlers : handler[h].pc = "idle"
  BY DEF Init, NoTask, NoScan, IdleHandler
<1>3. Guarding = {} /\ Working = {} /\ Ingesting = {}
  BY <1>2 DEF Guarding, Working, Ingesting
<1>4. IsFiniteSet({}) /\ Cardinality({}) = 0
  BY FS_EmptySet
<1>5. TypeOK
  <2>1. 0 \in 0 .. MaxDeliveries /\ 0 \in 0 .. MaxFaults /\ 0 \in 0 .. MaxCrashes
        /\ MaxSlots \in 0 .. MaxSlots
    OBVIOUS
  <2>2. spool \in Seq(Messages) /\ Len(spool) = 0 /\ max_pending \in 1 .. MaxPending
    BY EmptySeq DEF Init
  <2>3. Len(spool) <= max_pending
    BY <2>2
  <2>4. /\ handler \in [Handlers -> HandlerStates] /\ task \in [Tasks -> TaskStates]
        /\ scan \in [Scanners -> ScanStates]
    BY <1>1 DEF Init
  <2> QED
    BY <2>1, <2>2, <2>3, <2>4 DEF Init, TypeOK
<1>6. SpoolInv
  BY DEF Init, SpoolInv
<1>7. HandlerInv /\ GuardInv /\ PermitInv
  <2>1. active = {} /\ workFree = MaxSlots /\ ingestFree = MaxSlots
    BY DEF Init
  <2>2. HandlerInv
    BY <1>2, <1>3, <1>4, <2>1 DEF HandlerInv
  <2>3. ActiveMatchesTasks
    BY <1>3, <1>4, <2>1 DEF ActiveMatchesTasks
  <2> QED
    BY <1>3, <1>4, <2>1, <2>2, <2>3 DEF GuardInv, PermitInv
<1>8. ScanInv
  BY <1>2 DEF ScanInv, Scanners
<1>9. RunInv
  BY <1>2 DEF Init, RunInv, NoRerunOfCompleted
<1> QED
  BY <1>5, <1>6, <1>7, <1>8, <1>9 DEF SchedulerIInv

\* The variables that no other part is about keep their types.
LEMMA OtherTypes ==
  ASSUME SchedulerIInv, [Next]_vars
  PROVE  /\ deferred' \subseteq Messages /\ succeeded' \subseteq Messages
         /\ healthy' \in BOOLEAN /\ serving' \in BOOLEAN
         /\ deliveries' \in 0 .. MaxDeliveries /\ faults' \in 0 .. MaxFaults
         /\ crashes' \in 0 .. MaxCrashes
<1>0. /\ deferred \subseteq Messages /\ succeeded \subseteq Messages
      /\ healthy \in BOOLEAN /\ serving \in BOOLEAN
      /\ deliveries \in 0 .. MaxDeliveries /\ faults \in 0 .. MaxFaults
      /\ crashes \in 0 .. MaxCrashes
      /\ MaxDeliveries \in Nat /\ MaxFaults \in Nat /\ MaxCrashes \in Nat
  BY SchedulerAssumption DEF SchedulerIInv, TypeOK
<1>1. /\ deliveries' = deliveries \/ (deliveries < MaxDeliveries /\ deliveries' = deliveries + 1)
      /\ faults' = faults \/ (faults < MaxFaults /\ faults' = faults + 1)
      /\ crashes' = crashes \/ (crashes < MaxCrashes /\ crashes' = crashes + 1)
  BY DEF Next, vars, HandlerStep, ScanStep, TaskStep, ProcessStep, Receive, StartPersist, EndReading,
     Cancel, Persist, PersistFull, PersistFault, OfferDeferred, OfferClaim, StartRescan, ScanActive,
     ScanDeferred, ScanList, ScanFault, ScanOffer, ScanClaim, ScanEnd, TaskPermit, TaskLoad,
     TaskLoadFault, TaskSucceeds, TaskFails, TaskPanics, TaskRemove, TaskRemoveFault, TaskRecord,
     TaskDrop, Elapse, Crash
<1>2. healthy' \in BOOLEAN /\ serving' \in BOOLEAN
  <2>1. ASSUME NEW h \in Handlers,
               \/ \E m \in Messages : Receive(h, m)
               \/ HandlerStep(h) \/ EndReading(h) \/ Cancel(h) \/ PersistFault(h)
        PROVE  (UNCHANGED healthy \/ healthy' = FALSE) /\ UNCHANGED serving
    BY <2>1 DEF HandlerStep, Receive, StartPersist, EndReading, Cancel, Persist, PersistFull,
       PersistFault, OfferDeferred, OfferClaim
  <2>2. ASSUME NEW s \in Scanners, ScanStep(s) \/ ScanFault(s)
        PROVE  healthy' \in BOOLEAN /\ serving' \in BOOLEAN
    BY <1>0, <2>2, Zenon DEF ScanStep, ScanActive, ScanDeferred, ScanList, ScanFault, ScanOffer,
       ScanClaim, ScanEnd, EndScan
  <2>3. ASSUME NEW t \in Tasks, TaskStep(t) \/ TaskLoadFault(t) \/ TaskPanics(t) \/ TaskRemoveFault(t)
        PROVE  healthy' \in BOOLEAN /\ UNCHANGED serving
    <3>1. CASE TaskRemove(t)
      BY <3>1, Zenon DEF TaskRemove
    <3> QED
      BY <1>0, <2>3, <3>1 DEF TaskStep, ProcessStep, TaskPermit, TaskLoad, TaskLoadFault,
         TaskSucceeds, TaskFails, TaskPanics, TaskRemoveFault, TaskRecord, TaskDrop
  <2> QED
    BY <1>0, <2>1, <2>2, <2>3 DEF Next, vars, StartRescan, Elapse, Crash
<1>3. deferred' \subseteq Messages /\ succeeded' \subseteq Messages
  <2>1. ASSUME NEW h \in Handlers,
               \/ \E m \in Messages : Receive(h, m)
               \/ HandlerStep(h) \/ EndReading(h) \/ Cancel(h) \/ PersistFault(h)
        PROVE  succeeded' \subseteq succeeded /\ UNCHANGED deferred
    BY <2>1 DEF HandlerStep, Receive, StartPersist, EndReading, Cancel, Persist, PersistFull,
       PersistFault, Enqueue, OfferDeferred, OfferClaim
  <2>2. ASSUME NEW s \in Scanners, ScanStep(s) \/ ScanFault(s) PROVE UNCHANGED <<succeeded, deferred>>
    BY <2>2 DEF ScanStep, ScanActive, ScanDeferred, ScanList, ScanFault, ScanOffer, ScanClaim, ScanEnd
  <2>3. ASSUME NEW t \in Tasks, TaskStep(t) \/ TaskLoadFault(t) \/ TaskPanics(t) \/ TaskRemoveFault(t)
        PROVE  deferred' \subseteq Messages /\ succeeded' \subseteq Messages
    <3>1. task[t].pc \in {"process", "record"} => task[t].msg \in Messages
      BY DEF SchedulerIInv, GuardInv, Guarding
    <3>2. CASE TaskSucceeds(t)
      BY <1>0, <3>1, <3>2 DEF TaskSucceeds
    <3>3. CASE TaskRecord(t)
      BY <1>0, <3>1, <3>3 DEF TaskRecord
    <3> QED
      BY <1>0, <2>3, <3>2, <3>3 DEF TaskStep, ProcessStep, TaskPermit, TaskLoad, TaskLoadFault,
         TaskFails, TaskPanics, TaskRemove, TaskRemoveFault, TaskDrop
  <2> QED
    BY <1>0, <2>1, <2>2, <2>3 DEF Next, vars, StartRescan, Elapse, Crash
<1>4. deliveries' \in 0 .. MaxDeliveries /\ faults' \in 0 .. MaxFaults /\ crashes' \in 0 .. MaxCrashes
  BY <1>0, <1>1
<1> QED
  BY <1>2, <1>3, <1>4

\* Every step of the specification preserves the inductive invariant.
LEMMA NextScheduler == SchedulerIInv /\ [Next]_vars => SchedulerIInv'
<1> SUFFICES ASSUME SchedulerIInv, [Next]_vars PROVE SchedulerIInv'
  OBVIOUS
<1>1. max_pending \in 1 .. MaxPending
  BY DEF SchedulerIInv, TypeOK
<1>2. HandlerTypes' /\ TaskTypes' /\ RunInv'
  BY HandlerKept, TaskKept, RunKept
<1>3. ScanTypes' /\ ScanInv'
  BY ScanKept, TailKept DEF ScanInv
<1>4. /\ SpoolInv' /\ spool' \in Seq(Messages) /\ max_pending' = max_pending
      /\ Len(spool') <= max_pending
  BY SpoolStep
<1>5. TypeOK'
  BY <1>1, <1>2, <1>3, <1>4, OtherTypes DEF TypeOK, HandlerTypes, TaskTypes, ScanTypes
<1> QED
  BY <1>2, <1>3, <1>4, <1>5 DEF SchedulerIInv, HandlerTypes, TaskTypes

(***************************************************************************)
(* The theorems.                                                            *)
(***************************************************************************)

\* The inductive invariant holds in every state that requests, scans, tasks, retry
\* delays and crashes can reach.
THEOREM SchedulerInvariant == Spec => []SchedulerIInv
  BY InitScheduler, NextScheduler, PTL DEF Spec

\* The active set is exactly what the tasks with a guard hold, no two hold the same
\* message, no more than max_concurrent_requests tasks hold one, and every permit of
\* request_slots and ingest_slots is with its task or request, whatever is cancelled,
\* fails or panics.
THEOREM BookkeepingIsExact == Spec => []SchedulerInv
<1>1. SchedulerIInv => SchedulerInv
  BY DEF SchedulerIInv, SchedulerInv, GuardInv, PermitInv, HandlerInv, PermitsAccounted
<1> QED
  BY SchedulerInvariant, <1>1, PTL

\* Without faults and crashes no stale snapshot of a scan, and no second offer, makes
\* a task process a message that was already processed.
THEOREM CompletedJobsStayDone == Spec => []NoRerunOfCompleted
<1>1. SchedulerIInv => NoRerunOfCompleted
  BY DEF SchedulerIInv, RunInv
<1> QED
  BY SchedulerInvariant, <1>1, PTL

\* An accepted message leaves the spool only after its processing has succeeded: not by
\* a failure, a panic, a cancelled request or a crash.
THEOREM AcceptedJobsAreKept == Spec => OnlySuccessRemoves
<1>1. ASSUME SchedulerIInv, [Next]_vars
      PROVE  [\A m \in Pending : m \notin Pending' => m \in succeeded]_vars
  <2> SUFFICES ASSUME NEW m \in Pending, m \notin Pending' PROVE m \in succeeded
    OBVIOUS
  <2>0. spool \in Seq(Messages) /\ SpoolInv /\ RunInv /\ HandlerInv
    BY <1>1 DEF SchedulerIInv, TypeOK
  <2>1. CASE UNCHANGED spool
    BY <2>1 DEF Pending
  <2>2. ASSUME NEW h \in Handlers, Stores(h) PROVE FALSE
    <3>1. handler[h].msg \in Messages
      BY <2>0, <2>2 DEF Stores, HandlerInv
    <3>2. spool' = spool \/ spool' = Append(spool, handler[h].msg)
      BY <2>2 DEF Stores, Enqueue
    <3>3. CASE spool' = spool
      BY <3>3 DEF Pending
    <3>4. CASE spool' = Append(spool, handler[h].msg)
      <4>1. /\ spool' \in Seq(Messages) /\ Len(spool') = Len(spool) + 1
            /\ \A i \in 1 .. Len(spool) : spool'[i] = spool[i]
        BY <2>0, <3>1, <3>4, AppendProperties
      <4>2. /\ DOMAIN spool = 1 .. Len(spool) /\ DOMAIN spool' = 1 .. Len(spool) + 1
            /\ Len(spool) \in Nat
        BY <2>0, <4>1
      <4> QED
        BY <4>1, <4>2 DEF Pending
    <3> QED
      BY <3>2, <3>3, <3>4
  <2>3. ASSUME NEW t \in Tasks, task[t].pc = "remove", spool' = Without(task[t].msg)
        PROVE  m \in succeeded
    <3>1. Pending' = Pending \ {task[t].msg}
      <4>1. {spool'[i] : i \in DOMAIN spool'} = Pending \ {task[t].msg}
        BY <2>0, <2>3, WithoutOne
      <4>2. Pending' = {spool'[i] : i \in DOMAIN spool'}
        BY DEF Pending
      <4> QED
        BY <4>1, <4>2
    <3> QED
      BY <2>0, <2>3, <3>1 DEF RunInv
  <2> QED
    BY <1>1, <2>1, <2>2, <2>3, SpoolChange DEF TaskRemove, TaskRemoveFault
<1> QED
  BY SchedulerInvariant, <1>1, PTL DEF Spec, OnlySuccessRemoves
=============================================================================
