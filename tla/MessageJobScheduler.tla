------------------------- MODULE MessageJobScheduler -------------------------
(***************************************************************************)
(* The scheduler of durable message jobs in src/main.rs: the HTTP handler   *)
(* that accepts events, the tasks that run persisted jobs, the scans that   *)
(* hand free worker slots to pending jobs, and the three pieces of shared   *)
(* state they meet in: the active set, the deferred map and the spool.      *)
(*                                                                          *)
(* Each lock is taken and released within one action; the code holds no two *)
(* of them together, so everything between two locks may interleave.        *)
(*                                                                          *)
(* Abstractions.                                                            *)
(*  - The spool (MessageJobs) is the sequence of pending messages, oldest   *)
(*    enqueued_at first; its operations are atomic (one mutex).             *)
(*  - deferred holds the messages whose retry_at is still in the future.    *)
(*    The code drops an elapsed entry wherever it looks at one, which is    *)
(*    the same as the entry going when its time comes (Elapse).             *)
(*  - process_event is one await that succeeds, fails or panics; its own    *)
(*    behaviour is another module's.                                        *)
(*  - request_slots and ingest_slots are never closed, so                   *)
(*    MessageJobRunOutcome::Stopped does not occur.                         *)
(***************************************************************************)
EXTENDS Naturals, Sequences, FiniteSets

CONSTANTS
    Messages,      \* Webex message IDs
    NoMessage,
    Handlers,      \* HTTP requests to the event endpoint under way at one time
    Tasks,         \* tokio tasks of schedule_message_job alive at one time
    Rescan,        \* the rescan_message_jobs task
    MaxSlots,      \* server.max_concurrent_requests
    MaxPending,    \* bound: the largest backlog limit
    MaxDeliveries, \* bound: events delivered by the sidecar
    MaxFaults,     \* bound: spool operations that fail, tasks that panic
    MaxCrashes,    \* bound: process crashes
    SlowScans      \* TRUE: a scan may outlast the shortest retry delay

ASSUME SchedulerAssumption ==
    /\ IsFiniteSet(Messages) /\ NoMessage \notin Messages
    /\ IsFiniteSet(Tasks) /\ Rescan \notin Tasks
    /\ MaxSlots \in Nat \ {0} /\ MaxPending \in Nat \ {0}
    /\ Cardinality(Tasks) > MaxSlots
    /\ MaxDeliveries \in Nat /\ MaxFaults \in Nat /\ MaxCrashes \in Nat
    /\ SlowScans \in BOOLEAN

Scanners == Tasks \cup {Rescan}
MaxTails == Cardinality(Tasks) - MaxSlots  \* bound: tasks scanning at one time

VARIABLES
    spool,      \* pending message IDs, oldest first (durable)
    max_pending, \* the backlog limit the spool was opened with
    active,     \* active_message_jobs
    deferred,   \* deferred_message_jobs, entries not yet elapsed
    workFree,   \* permits left in request_slots
    ingestFree, \* permits left in ingest_slots
    healthy,    \* ~runtime_unhealthy
    serving,    \* the listener is bound: the startup scan has returned
    handler,    \* handler[h]: one call of handle_event
    task,       \* task[t]: one spawned task
    scan,       \* scan[s]: one call of schedule_pending_message_jobs
    succeeded,  \* observer: processed successfully since they were queued
    deliveries, faults, crashes  \* observers

shared == <<spool, active, deferred>>
permits == <<workFree, ingestFree>>
\* max_pending never changes; it is listed here for the steps' sake.
observers == <<deliveries, faults, crashes, max_pending>>
vars == <<shared, permits, healthy, serving, handler, task, scan, succeeded,
          observers>>

IdleHandler == [pc |-> "idle", msg |-> NoMessage]
NoTask == [pc |-> "none", msg |-> NoMessage, out |-> "complete"]
NoScan == [pc |-> "idle", excluded |-> {}, room |-> 0, todo |-> <<>>]

Pending == {spool[i] : i \in DOMAIN spool}
Position(m) == CHOOSE i \in DOMAIN spool : spool[i] = m
Without(m) ==
    IF m \notin Pending THEN spool
    ELSE SubSeq(spool, 1, Position(m) - 1) \o SubSeq(spool, Position(m) + 1, Len(spool))

\* The tasks that own an ActiveMessageJobGuard.
Guarding == {t \in Tasks : task[t].pc \in
               {"permit", "load", "process", "remove", "record", "drop"}}
\* The tasks with a permit of request_slots, and the requests with one of ingest_slots.
Working   == {t \in Tasks : task[t].pc \in {"load", "process"}}
Ingesting == {h \in Handlers : handler[h].pc \in {"reading", "persisting", "orphaned"}}

Init ==
    /\ spool = <<>> /\ max_pending \in 1 .. MaxPending /\ active = {} /\ deferred = {}
    /\ workFree = MaxSlots /\ ingestFree = MaxSlots
    /\ healthy = TRUE /\ serving = FALSE
    /\ handler = [h \in Handlers |-> IdleHandler]
    /\ task = [t \in Tasks |-> NoTask]
    /\ scan = [s \in Scanners |-> NoScan]
    /\ succeeded = {} /\ deliveries = 0 /\ faults = 0 /\ crashes = 0

-----------------------------------------------------------------------------
(***************************************************************************)
(* schedule_message_job, called by handle_event and by every scan: the      *)
(* deferred map is looked at under its lock, then the active set under its. *)
(***************************************************************************)
MayClaim(m) == m \notin active /\ Cardinality(active) < MaxSlots

\* The guard is created and the task spawned, or nothing happens.
Claim(m) ==
    IF MayClaim(m)
    THEN \E t \in Tasks :
           /\ task[t].pc = "none"
           /\ task' = [task EXCEPT ![t] =
                        [pc |-> "permit", msg |-> m, out |-> "complete"]]
           /\ active' = active \cup {m}
    ELSE UNCHANGED <<task, active>>

(***************************************************************************)
(* handle_event.  The permit is taken before the body is read and moves     *)
(* into the blocking worker; a request may be cancelled at each await.      *)
(***************************************************************************)
SetHandler(h, pc, m) ==
    handler' = [handler EXCEPT ![h] = [pc |-> pc, msg |-> m]]

Receive(h, m) ==
    /\ serving /\ handler[h].pc = "idle" /\ deliveries < MaxDeliveries
    /\ ingestFree > 0
    /\ ingestFree' = ingestFree - 1
    /\ deliveries' = deliveries + 1
    /\ SetHandler(h, "reading", m)
    /\ UNCHANGED <<shared, workFree, healthy, serving, task, scan, succeeded,
                   faults, crashes, max_pending>>

\* The body is admitted and the persistence worker started with the permit.
StartPersist(h) ==
    /\ handler[h].pc = "reading"
    /\ SetHandler(h, "persisting", handler[h].msg)
    /\ UNCHANGED <<shared, permits, healthy, serving, task, scan, succeeded,
                   observers>>

\* A bad or ignored event, or a client that went away while its body was read.
EndReading(h) ==
    /\ handler[h].pc = "reading"
    /\ ingestFree' = ingestFree + 1
    /\ SetHandler(h, "idle", NoMessage)
    /\ UNCHANGED <<shared, workFree, healthy, serving, task, scan, succeeded,
                   observers>>

\* The client goes away while the worker runs: the worker keeps the permit.
Cancel(h) ==
    /\ handler[h].pc = "persisting"
    /\ SetHandler(h, "orphaned", handler[h].msg)
    /\ UNCHANGED <<shared, permits, healthy, serving, task, scan, succeeded,
                   observers>>

\* Only a request that is still there goes on to schedule the job.
AfterPersist(h) ==
    IF handler[h].pc = "persisting" THEN SetHandler(h, "offer", handler[h].msg)
    ELSE SetHandler(h, "idle", NoMessage)

\* The job of message m in the spool: a new one, or the one that is there.
Enqueue(m) ==
    /\ m \in Pending \/ Len(spool) < max_pending
    /\ spool' = IF m \in Pending THEN spool ELSE Append(spool, m)
    /\ succeeded' = IF m \in Pending THEN succeeded ELSE succeeded \ {m}

\* enqueue_with_permit: Queued or Existing.
Persist(h) ==
    /\ handler[h].pc \in {"persisting", "orphaned"}
    /\ Enqueue(handler[h].msg)
    /\ ingestFree' = ingestFree + 1
    /\ AfterPersist(h)
    /\ UNCHANGED <<active, deferred, workFree, healthy, serving, task, scan,
                   observers>>

\* MessageJobBacklogFull: 503, and the health flag is left alone.
PersistFull(h) ==
    /\ handler[h].pc \in {"persisting", "orphaned"}
    /\ handler[h].msg \notin Pending /\ Len(spool) >= max_pending
    /\ ingestFree' = ingestFree + 1
    /\ SetHandler(h, "idle", NoMessage)
    /\ UNCHANGED <<shared, workFree, healthy, serving, task, scan, succeeded,
                   observers>>

\* The enqueue fails, before or after the job has got its name in the spool.
PersistFault(h) ==
    /\ handler[h].pc \in {"persisting", "orphaned"} /\ faults < MaxFaults
    /\ faults' = faults + 1 /\ healthy' = FALSE
    /\ UNCHANGED <<spool, succeeded>> \/ Enqueue(handler[h].msg)
    /\ ingestFree' = ingestFree + 1
    /\ SetHandler(h, "idle", NoMessage)
    /\ UNCHANGED <<active, deferred, workFree, serving, task, scan,
                   deliveries, crashes, max_pending>>

OfferDeferred(h) ==
    /\ handler[h].pc = "offer"
    /\ IF handler[h].msg \in deferred THEN SetHandler(h, "idle", NoMessage)
       ELSE SetHandler(h, "claim", handler[h].msg)
    /\ UNCHANGED <<shared, permits, healthy, serving, task, scan, succeeded,
                   observers>>

OfferClaim(h) ==
    /\ handler[h].pc = "claim"
    /\ Claim(handler[h].msg)
    /\ SetHandler(h, "idle", NoMessage)
    /\ UNCHANGED <<spool, deferred, permits, healthy, serving, scan, succeeded,
                   observers>>

(***************************************************************************)
(* schedule_pending_message_jobs, run by the rescan loop (its first run is  *)
(* the startup scan) and by every task after it has dropped its guard.      *)
(***************************************************************************)
StartRescan ==
    /\ scan[Rescan].pc = "idle"
    /\ scan' = [scan EXCEPT ![Rescan].pc = "active"]
    /\ UNCHANGED <<shared, permits, healthy, serving, handler, task, succeeded,
                   observers>>

\* The scan returns: the listener is bound, or the task is over.
EndScan(s) ==
    /\ scan' = [scan EXCEPT ![s] = NoScan]
    /\ serving' = (serving \/ s = Rescan)
    /\ task' = IF s = Rescan THEN task ELSE [task EXCEPT ![s] = NoTask]

ScanActive(s) ==
    /\ scan[s].pc = "active"
    /\ IF Cardinality(active) < MaxSlots
       THEN /\ scan' = [scan EXCEPT ![s] =
                         [pc |-> "deferred", excluded |-> active,
                          room |-> MaxSlots - Cardinality(active), todo |-> <<>>]]
            /\ UNCHANGED <<serving, task>>
       ELSE EndScan(s)
    /\ UNCHANGED <<shared, permits, healthy, handler, succeeded, observers>>

ScanDeferred(s) ==
    /\ scan[s].pc = "deferred"
    /\ scan' = [scan EXCEPT ![s].pc = "list", ![s].excluded = @ \cup deferred]
    /\ UNCHANGED <<shared, permits, healthy, serving, handler, task, succeeded,
                   observers>>

\* pending_message_ids: the oldest `limit` jobs that are not excluded, oldest first
\* (the one sequence of its kind).
Selections(excluded, limit) ==
    {todo \in UNION {[1 .. n -> Pending \ excluded] : n \in 0 .. limit} :
       /\ \A i, j \in DOMAIN todo : i < j => Position(todo[i]) < Position(todo[j])
       /\ \A m \in Pending \ excluded :
            \/ \E i \in DOMAIN todo : todo[i] = m
            \/ Len(todo) = limit /\ \A i \in DOMAIN todo : Position(todo[i]) < Position(m)}

ScanList(s) ==
    /\ scan[s].pc = "list"
    /\ \E todo \in Selections(scan[s].excluded, scan[s].room) :
         scan' = [scan EXCEPT ![s] = [@ EXCEPT !.pc = "offer", !.room = 0, !.todo = todo]]
    /\ UNCHANGED <<shared, permits, healthy, serving, handler, task, succeeded,
                   observers>>

\* The listing fails: health is latched.  A failing startup scan ends the process
\* instead, before it has offered anything, and systemd starts it again.
ScanFault(s) ==
    /\ scan[s].pc = "list" /\ faults < MaxFaults
    /\ faults' = faults + 1
    /\ LET startup == s = Rescan /\ ~serving
       IN  /\ healthy' = startup
           /\ IF startup
              THEN scan' = [scan EXCEPT ![s] = NoScan] /\ UNCHANGED <<serving, task>>
              ELSE EndScan(s)
    /\ UNCHANGED <<shared, permits, handler, succeeded, deliveries, crashes, max_pending>>

ScanOffer(s) ==
    /\ scan[s].pc = "offer" /\ scan[s].todo # <<>>
    /\ scan' = IF Head(scan[s].todo) \in deferred
               THEN [scan EXCEPT ![s].todo = Tail(@)]
               ELSE [scan EXCEPT ![s].pc = "claim"]
    /\ UNCHANGED <<shared, permits, healthy, serving, handler, task, succeeded,
                   observers>>

ScanClaim(s) ==
    /\ scan[s].pc = "claim"
    /\ Claim(Head(scan[s].todo))
    /\ scan' = [scan EXCEPT ![s].pc = "offer", ![s].todo = Tail(@)]
    /\ UNCHANGED <<spool, deferred, permits, healthy, serving, handler,
                   succeeded, observers>>

ScanEnd(s) ==
    /\ scan[s].pc = "offer" /\ scan[s].todo = <<>>
    /\ EndScan(s)
    /\ UNCHANGED <<shared, permits, healthy, handler, succeeded, observers>>

(***************************************************************************)
(* The spawned task: run_persisted_message_job, record_message_job_outcome, *)
(* drop(guard), then a scan of its own.                                     *)
(***************************************************************************)
SetTask(t, pc, out) == task' = [task EXCEPT ![t] = [@ EXCEPT !.pc = pc, !.out = out]]

TaskPermit(t) ==
    /\ task[t].pc = "permit" /\ workFree > 0
    /\ workFree' = workFree - 1
    /\ SetTask(t, "load", "complete")
    /\ UNCHANGED <<shared, ingestFree, healthy, serving, handler, scan,
                   succeeded, observers>>

\* Mutant: the scan's snapshot is trusted.
TaskLoadMutantTrusting(t) ==
    /\ task[t].pc = "load"
    /\ SetTask(t, "process", "complete")
    /\ UNCHANGED <<shared, permits, healthy, serving, handler, scan, succeeded,
                   observers>>

\* A stale reservation, whose job was completed meanwhile, is skipped.
TaskLoad(t) ==
    /\ task[t].pc = "load"
    /\ IF task[t].msg \in Pending
       THEN SetTask(t, "process", "complete") /\ UNCHANGED workFree
       ELSE SetTask(t, "record", "complete") /\ workFree' = workFree + 1
    /\ UNCHANGED <<shared, ingestFree, healthy, serving, handler, scan,
                   succeeded, observers>>

TaskLoadFault(t) ==
    /\ task[t].pc = "load" /\ faults < MaxFaults
    /\ faults' = faults + 1 /\ healthy' = FALSE
    /\ workFree' = workFree + 1
    /\ SetTask(t, "record", "retry")
    /\ UNCHANGED <<shared, ingestFree, serving, handler, scan, succeeded,
                   deliveries, crashes, max_pending>>

\* process_event returns Ok or Err; the permit is dropped either way.
TaskSucceeds(t) ==
    /\ task[t].pc = "process"
    /\ workFree' = workFree + 1
    /\ succeeded' = succeeded \cup {task[t].msg}
    /\ SetTask(t, "remove", "complete")
    /\ UNCHANGED <<shared, ingestFree, healthy, serving, handler, scan, observers>>

\* Mutant: a failed job is completed as well.
TaskFailsMutantCompletes(t) ==
    /\ task[t].pc = "process"
    /\ workFree' = workFree + 1
    /\ SetTask(t, "remove", "complete")
    /\ UNCHANGED <<shared, ingestFree, healthy, serving, handler, scan,
                   succeeded, observers>>

TaskFails(t) ==
    /\ task[t].pc = "process"
    /\ workFree' = workFree + 1
    /\ SetTask(t, "record", "retry")
    /\ UNCHANGED <<shared, ingestFree, healthy, serving, handler, scan,
                   succeeded, observers>>

\* Mutant: the active set has no guard with a destructor.
TaskPanicsMutantLeak(t) ==
    /\ task[t].pc = "process" /\ faults < MaxFaults
    /\ faults' = faults + 1
    /\ workFree' = workFree + 1
    /\ task' = [task EXCEPT ![t] = NoTask]
    /\ UNCHANGED <<shared, ingestFree, healthy, serving, handler, scan,
                   succeeded, deliveries, crashes, max_pending>>

\* process_event panics: the guard's destructor runs, nothing else does.
TaskPanics(t) ==
    /\ task[t].pc = "process" /\ faults < MaxFaults
    /\ faults' = faults + 1
    /\ workFree' = workFree + 1
    /\ active' = active \ {task[t].msg}
    /\ task' = [task EXCEPT ![t] = NoTask]
    /\ UNCHANGED <<spool, deferred, ingestFree, healthy, serving, handler, scan,
                   succeeded, deliveries, crashes, max_pending>>

\* remove(): a job that is no longer there latches the health flag.
TaskRemove(t) ==
    /\ task[t].pc = "remove"
    /\ spool' = Without(task[t].msg)
    /\ healthy' = (healthy /\ task[t].msg \in Pending)
    /\ SetTask(t, "record", "complete")
    /\ UNCHANGED <<active, deferred, permits, serving, handler, scan, succeeded,
                   observers>>

\* remove() fails before or after it has unlinked the file.
TaskRemoveFault(t) ==
    /\ task[t].pc = "remove" /\ faults < MaxFaults
    /\ faults' = faults + 1 /\ healthy' = FALSE
    /\ spool' \in {spool, Without(task[t].msg)}
    /\ SetTask(t, "record", "retry")
    /\ UNCHANGED <<active, deferred, permits, serving, handler, scan, succeeded,
                   deliveries, crashes, max_pending>>

\* Mutant: a failed job is not deferred.
TaskRecordMutantEager(t) ==
    /\ task[t].pc = "record"
    /\ SetTask(t, "drop", task[t].out)
    /\ UNCHANGED <<shared, permits, healthy, serving, handler, scan, succeeded,
                   observers>>

\* record_message_job_outcome
TaskRecord(t) ==
    /\ task[t].pc = "record"
    /\ deferred' = IF task[t].out = "retry" THEN deferred \cup {task[t].msg}
                   ELSE deferred \ {task[t].msg}
    /\ SetTask(t, "drop", task[t].out)
    /\ UNCHANGED <<spool, active, permits, healthy, serving, handler, scan,
                   succeeded, observers>>

\* drop(guard); the task goes on with a scan.  The bound on scanning tasks
\* keeps a task slot for every worker slot.
TaskDrop(t) ==
    /\ task[t].pc = "drop"
    /\ Cardinality({u \in Tasks : task[u].pc = "tail"}) < MaxTails
    /\ active' = active \ {task[t].msg}
    /\ task' = [task EXCEPT ![t] = [NoTask EXCEPT !.pc = "tail"]]
    /\ scan' = [scan EXCEPT ![t].pc = "active"]
    /\ UNCHANGED <<spool, deferred, permits, healthy, serving, handler,
                   succeeded, observers>>

(***************************************************************************)
(* Time and crashes.                                                        *)
(***************************************************************************)

\* The scans that took m for deferred, or are about to look.
Watching(m) ==
    \/ \E s \in Scanners : \/ scan[s].pc \in {"active", "deferred"}
                           \/ scan[s].pc # "idle" /\ m \in scan[s].excluded
    \/ \E t \in Tasks : task[t].pc = "drop" /\ task[t].msg = m

\* The retry delay of m is over.  Unless SlowScans, it outlasts every scan
\* that excluded m: the shortest delay is 10 ms, the usual one 30 s.
Elapse(m) ==
    /\ m \in deferred
    /\ SlowScans \/ ~Watching(m)
    /\ deferred' = deferred \ {m}
    /\ UNCHANGED <<spool, active, permits, healthy, serving, handler, task,
                   scan, succeeded, observers>>

\* The process dies and is started again; only the spool is left.
Crash ==
    /\ crashes < MaxCrashes
    /\ crashes' = crashes + 1
    /\ active' = {} /\ deferred' = {}
    /\ workFree' = MaxSlots /\ ingestFree' = MaxSlots
    /\ healthy' = TRUE /\ serving' = FALSE
    /\ handler' = [h \in Handlers |-> IdleHandler]
    /\ task' = [t \in Tasks |-> NoTask]
    /\ scan' = [s \in Scanners |-> NoScan]
    /\ UNCHANGED <<spool, succeeded, deliveries, faults, max_pending>>

-----------------------------------------------------------------------------
HandlerStep(h) ==
    \/ StartPersist(h) \/ Persist(h) \/ PersistFull(h)
    \/ OfferDeferred(h) \/ OfferClaim(h)

ScanStep(s) ==
    ScanActive(s) \/ ScanDeferred(s) \/ ScanList(s) \/ ScanOffer(s)
      \/ ScanClaim(s) \/ ScanEnd(s)

ProcessStep(t) == TaskSucceeds(t) \/ TaskFails(t)

TaskStep(t) ==
    TaskPermit(t) \/ TaskLoad(t) \/ ProcessStep(t) \/ TaskRemove(t)
      \/ TaskRecord(t) \/ TaskDrop(t)

Next ==
    \/ \E h \in Handlers :
         \/ \E m \in Messages : Receive(h, m)
         \/ HandlerStep(h) \/ EndReading(h) \/ Cancel(h) \/ PersistFault(h)
    \/ StartRescan
    \/ \E s \in Scanners : ScanStep(s) \/ ScanFault(s)
    \/ \E t \in Tasks : \/ TaskStep(t) \/ TaskLoadFault(t) \/ TaskPanics(t)
                        \/ TaskRemoveFault(t)
    \/ \E m \in Messages : Elapse(m)
    \/ Crash

Spec == Init /\ [][Next]_vars

\* Every thread that can run gets to run, the rescan timer fires, awaits on
\* Webex return (each has a timeout) and retry delays end: the rescan loop
\* sleeps between scans, so an end that waits for a scan gets its chance again
\* and again.  Which way a job's processing ends is left open, and no event or
\* fault has to happen.
Fairness ==
    /\ \A h \in Handlers : WF_vars(HandlerStep(h))
    /\ \A s \in Scanners : WF_vars(ScanStep(s))
    /\ \A t \in Tasks : WF_vars(TaskStep(t))
    /\ WF_vars(StartRescan)
    /\ \A m \in Messages : SF_vars(Elapse(m))

FairSpec == Spec /\ Fairness

-----------------------------------------------------------------------------
(***************************************************************************)
(* Properties.                                                              *)
(***************************************************************************)
HandlerStates ==
    [pc  : {"idle", "reading", "persisting", "orphaned", "offer", "claim"},
     msg : Messages \cup {NoMessage}]
TaskStates ==
    [pc  : {"none", "permit", "load", "process", "remove", "record", "drop", "tail"},
     msg : Messages \cup {NoMessage}, out : {"complete", "retry"}]
ScanStates ==
    [pc : {"idle", "active", "deferred", "list", "offer", "claim"},
     excluded : SUBSET Messages, room : 0 .. MaxSlots, todo : Seq(Messages)]

TypeOK ==
    /\ spool \in Seq(Messages) /\ Len(spool) <= max_pending
    /\ max_pending \in 1 .. MaxPending
    /\ active \subseteq Messages /\ deferred \subseteq Messages
    /\ workFree \in 0 .. MaxSlots /\ ingestFree \in 0 .. MaxSlots
    /\ healthy \in BOOLEAN /\ serving \in BOOLEAN
    /\ handler \in [Handlers -> HandlerStates]
    /\ task \in [Tasks -> TaskStates]
    /\ scan \in [Scanners -> ScanStates]
    /\ succeeded \subseteq Messages
    /\ deliveries \in 0 .. MaxDeliveries /\ faults \in 0 .. MaxFaults
    /\ crashes \in 0 .. MaxCrashes

(***************************************************************************)
(* However many scans and handlers offer a job at the same time, no two     *)
(* tasks hold the same message, and no more than max_concurrent_requests    *)
(* tasks hold one; the active set is exactly what they hold, so that a slot *)
(* is never lost, not even to a panic.                                      *)
(***************************************************************************)
ActiveMatchesTasks ==
    /\ \A t, u \in Guarding : task[t].msg = task[u].msg => t = u
    /\ Cardinality(Guarding) <= MaxSlots
    /\ active = {task[t].msg : t \in Guarding}

(***************************************************************************)
(* request_slots never makes a task wait behind anything but the tasks that *)
(* hold a guard: each permit in use is held by one of them.                 *)
(***************************************************************************)
PermitsAccounted ==
    /\ workFree = MaxSlots - Cardinality(Working)
    /\ ingestFree = MaxSlots - Cardinality(Ingesting)

(***************************************************************************)
(* The scheduler's bookkeeping: types, active set and permits agree with    *)
(* the tasks and requests there are, whatever is cancelled, fails or panics.*)
(* In particular "a disconnected or cancelled request cannot release        *)
(* capacity while its worker still retains the event".                      *)
(***************************************************************************)
SchedulerInv == TypeOK /\ ActiveMatchesTasks /\ PermitsAccounted

(***************************************************************************)
(* A stale snapshot never makes a completed job run again: a task processes *)
(* a message that already succeeded only if its removal failed or the       *)
(* process crashed.                                                         *)
(***************************************************************************)
NoRerunOfCompleted ==
    faults = 0 /\ crashes = 0 =>
      \A t \in Tasks : task[t].pc = "process" => task[t].msg \notin succeeded

(***************************************************************************)
(* A pending job leaves the spool only after its processing succeeded:      *)
(* failures, panics and cancelled requests never drop an accepted message.  *)
(***************************************************************************)
OnlySuccessRemoves ==
    [][\A m \in Pending : m \notin Pending' => m \in succeeded]_vars

(***************************************************************************)
(* Retryable failures "honour the existing retry delay": no task starts for *)
(* a message whose retry time is still to come.                             *)
(***************************************************************************)
RetryDelayHonoured ==
    \A t \in Tasks : task[t].pc = "permit" => task[t].msg \notin deferred

(***************************************************************************)
(* Every pending job is eventually attempted, even if another job fails     *)
(* again and again and there is one worker slot: deferring the failed job   *)
(* releases the slot to the others.                                         *)
(***************************************************************************)
Attempted(m) == \E t \in Tasks : task[t].pc = "process" /\ task[t].msg = m
EveryJobAttempted ==
    \A m \in Messages : m \in Pending ~> Attempted(m) \/ m \notin Pending
=============================================================================
