----------------------------- MODULE MessageJobs -----------------------------
(***************************************************************************)
(* The durable message-job spool of src/message_jobs.rs: one directory      *)
(* that holds one file per accepted Webex message, the in-memory index of   *)
(* that directory, and the latched runtime health flag.                     *)
(*                                                                          *)
(* Every step at which a file or the directory changes or is synced is an   *)
(* action of its own, in the code's order, so that a crash, a power loss or *)
(* a failing file-system call can fall between any two of them.  Each       *)
(* operation holds the operation_state mutex from its first line to its     *)
(* last, so at most one operation is under way.                             *)
(*                                                                          *)
(* Abstractions.                                                            *)
(*  - A file is its inode.  ".pending-<pid>-<n>" names the one inode that   *)
(*    was created under it, and "<sha256>.json" is the final name of one    *)
(*    message (the digest is taken to be injective).                        *)
(*  - onDisk is the set of directories that may be found after a power      *)
(*    loss: every value the directory had since its last successful fsync.  *)
(*  - File content is "empty", "written" (not yet synced: a power loss may  *)
(*    tear it), "whole" (synced) or "bad" (whatever read_job_file rejects). *)
(*  - The index maps a message to enqueued_at_unix_nanos, NoEntry if it has *)
(*    none.  The wall clock may return any value of Clock at any time.      *)
(*  - The directory is private to the one running process (mode 0700), so   *)
(*    hard_link never meets a name that try_exists has just not found.      *)
(***************************************************************************)
EXTENDS Naturals, FiniteSets

CONSTANTS
    Messages,       \* Webex message IDs
    NoMessage,      \* no message: the operation under way has none
    MaxInodes,      \* inodes in use at one time
    MaxPending,     \* MAX_PENDING_MESSAGE_JOBS
    MaxClock,       \* distinct wall-clock readings
    MaxIoFaults,    \* bound: file-system calls that fail
    MaxCrashes,     \* bound: process crashes
    MaxPowerLosses, \* bound: power losses
    MaxDamages      \* bound: published files damaged from outside

ASSUME MessagesAssumption == IsFiniteSet(Messages) /\ NoMessage \notin Messages
ASSUME BoundsAssumption ==
    /\ MaxInodes \in Nat /\ MaxPending \in Nat /\ MaxClock \in Nat
    /\ MaxIoFaults \in Nat /\ MaxCrashes \in Nat
    /\ MaxPowerLosses \in Nat /\ MaxDamages \in Nat

Inodes == 1 .. MaxInodes
NoInode == 0
Clock == 1 .. MaxClock
NoEntry == 0

Requests == {"enqueue", "load", "remove", "list"}
Steps == {"idle", "recover", "body", "created", "written", "synced",
          "linked", "registered", "unlinked", "removed"}
Contents == {"empty", "written", "whole", "bad"}
Directories ==
    [final : [Messages -> Inodes \cup {NoInode}], cand : SUBSET Inodes]

VARIABLES
    dir,         \* the live directory
    onDisk,      \* the directories a power loss may leave
    fileAt,      \* fileAt[i]: enqueued_at_unix_nanos in the record of inode i
    content,     \* content[i]: state of the bytes of inode i
    up,          \* TRUE once open() has returned, until the process dies
    index,       \* MessageJobIndex.entries
    healthy,     \* ~runtime_unhealthy
    op,          \* operation holding the mutex, "open" during startup
    msg,         \* its message_id
    pc,          \* its next step
    new,         \* the candidate it created
    published,   \* recover_candidates: `published`, as index entries
    cleaned,     \* recover_candidates: `removed`
    acked,       \* observer: enqueue returned Ok, not since removed or damaged
    interrupted, \* observer: a recovery ended after it had unlinked the
                 \* candidate of a published job and before its sync
    ioFaults, crashes, powerLosses, damages  \* observers: faults so far

diskVars == <<dir, onDisk>>
fileVars == <<fileAt, content>>
procVars == <<up, index, healthy>>
opVars == <<op, msg, pc, new, published, cleaned>>
faultVars == <<ioFaults, crashes, powerLosses, damages>>
vars == <<diskVars, fileVars, procVars, opVars, acked, interrupted, faultVars>>

EmptyDir == [final |-> [m \in Messages |-> NoInode], cand |-> {}]
EmptyIndex == [m \in Messages |-> NoEntry]

Init ==
    /\ dir = EmptyDir
    /\ onDisk = {EmptyDir}
    /\ fileAt = [i \in Inodes |-> NoEntry]
    /\ content = [i \in Inodes |-> "empty"]
    /\ up = FALSE
    /\ index = EmptyIndex
    /\ healthy = TRUE
    /\ op = "open" /\ msg = NoMessage /\ pc = "idle"
    /\ new = NoInode /\ published = EmptyIndex /\ cleaned = FALSE
    /\ acked = {} /\ interrupted = FALSE
    /\ ioFaults = 0 /\ crashes = 0 /\ powerLosses = 0 /\ damages = 0

-----------------------------------------------------------------------------
(***************************************************************************)
(* The file system.                                                         *)
(***************************************************************************)

Published(d) == {m \in Messages : d.final[m] # NoInode}

\* A candidate with nlink = 2: its record has its final name too.
Linked(d, i) == \E m \in Messages : d.final[m] = i

Referenced ==
    {i \in Inodes : \E d \in onDisk \cup {dir} : i \in d.cand \/ Linked(d, i)}

\* A directory change that has not been synced: the disk may hold it or not.
ChangeDir(d) ==
    /\ dir' = d
    /\ onDisk' = onDisk \cup {d}

\* sync_directory: File::sync_all on the directory.
SyncDir ==
    /\ onDisk' = {dir}
    /\ UNCHANGED dir

WithFinal(m, i) == [dir EXCEPT !.final[m] = i]
WithoutCandidate(i) == [dir EXCEPT !.cand = @ \ {i}]

\* read_job_file and read_candidate_file accept these bytes.
Readable(i) == content[i] \in {"written", "whole"}

(***************************************************************************)
(* The in-memory index.                                                     *)
(***************************************************************************)

\* Mutant: the entry identifies the file instead of carrying its timestamp.
RecordMutantInode(m, i) == [EmptyIndex EXCEPT ![m] = i]

\* The record of message m in inode i, as an index with that one entry.
Record(m, i) == [EmptyIndex EXCEPT ![m] = fileAt[i]]

\* register_index_record for every entry of `records`; its Err is a different
\* record under the same message ID.
Registered(records) ==
    [m \in Messages |->
        IF records[m] # NoEntry THEN records[m] ELSE index[m]]
Conflicting(records) ==
    \E m \in Messages : /\ records[m] # NoEntry
                        /\ index[m] \notin {NoEntry, records[m]}

\* checked_job_files_sync: the directory lists exactly the indexed jobs.
DirectoryMatchesIndex ==
    Published(dir) = {m \in Messages : index[m] # NoEntry}

(***************************************************************************)
(* Control: an operation ends, with or without an error.                    *)
(***************************************************************************)
Goto(step) ==
    /\ pc' = step
    /\ UNCHANGED <<op, msg, new, published, cleaned>>

EndOperation ==
    /\ pc' = "idle" /\ msg' = NoMessage /\ new' = NoInode
    /\ published' = EmptyIndex /\ cleaned' = FALSE
    /\ UNCHANGED op

\* The error exit of run_blocking_operation: the health flag is latched.  An
\* error of open() ends the process, which has no health flag yet.
Fail ==
    /\ EndOperation
    /\ healthy' = (healthy /\ ~up)
    /\ UNCHANGED <<up, index>>

\* Recovery has unlinked a published job's candidate but not synced.
InUnsyncedRecovery == pc = "recover" /\ published # EmptyIndex

-----------------------------------------------------------------------------
(***************************************************************************)
(* prepare_root_sync: every operation, and open(), first recovers the       *)
(* candidates it finds.                                                     *)
(***************************************************************************)
Begin(kind, m) ==
    /\ up /\ pc = "idle"
    /\ op' = kind /\ msg' = m /\ pc' = "recover"
    /\ UNCHANGED <<new, published, cleaned, diskVars, fileVars, procVars,
                   acked, interrupted, faultVars>>

StartOperation ==
    \/ \E kind \in Requests \ {"list"}, m \in Messages : Begin(kind, m)
    \/ Begin("list", NoMessage)

\* Mutant: every candidate is read, the unfinished ones too.
RecoverableMutantReadsAll(i) == Readable(i)

\* The candidate passes recover_candidates' checks: one with a single link is
\* never read, one with two must hold a readable record.
Recoverable(i) == Linked(dir, i) => Readable(i)

\* One round of the loop: a second link is noted, the candidate unlinked.
RecoverCandidate(i) ==
    /\ pc = "recover" /\ i \in dir.cand /\ Recoverable(i)
    /\ ChangeDir(WithoutCandidate(i))
    /\ published' = [m \in Messages |->
                       IF dir.final[m] = i THEN fileAt[i] ELSE published[m]]
    /\ cleaned' = TRUE
    /\ UNCHANGED <<op, msg, pc, new, fileVars, procVars, acked, interrupted,
                   faultVars>>

\* Mutant: the directory is not synced after the candidates were unlinked.
FinishRecoveryMutantUnsynced ==
    /\ pc = "recover" /\ dir.cand = {}
    /\ op # "open" => ~Conflicting(published)
    /\ index' = IF op = "open" THEN index ELSE Registered(published)
    /\ Goto("body")
    /\ UNCHANGED <<diskVars, fileVars, up, healthy, acked, interrupted, faultVars>>

\* Mutant: the recovered records are not registered.
FinishRecoveryMutantUnregistered ==
    /\ pc = "recover" /\ dir.cand = {}
    /\ IF cleaned THEN SyncDir ELSE UNCHANGED diskVars
    /\ Goto("body")
    /\ UNCHANGED <<fileVars, procVars, acked, interrupted, faultVars>>

\* The directory is synced only if a candidate was unlinked; the operations
\* then register the recovered records (open() rebuilds the whole index).
FinishRecovery ==
    /\ pc = "recover" /\ dir.cand = {}
    /\ op # "open" => ~Conflicting(published)
    /\ IF cleaned THEN SyncDir ELSE UNCHANGED diskVars
    /\ index' = IF op = "open" THEN index ELSE Registered(published)
    /\ Goto("body")
    /\ UNCHANGED <<fileVars, up, healthy, acked, interrupted, faultVars>>

(***************************************************************************)
(* open_with_limit, on a process start.                                     *)
(***************************************************************************)
OpenStart ==
    /\ ~up /\ pc = "idle"
    /\ op' = "open" /\ pc' = "recover"
    /\ UNCHANGED <<msg, new, published, cleaned, diskVars, fileVars, procVars,
                   acked, interrupted, faultVars>>

\* load_message_job_index accepts the directory.
Loadable ==
    /\ Cardinality(Published(dir)) <= MaxPending
    /\ \A m \in Published(dir) : Readable(dir.final[m])

OpenLoad ==
    /\ op = "open" /\ pc = "body" /\ Loadable
    /\ index' = [m \in Messages |->
                   IF m \in Published(dir) THEN fileAt[dir.final[m]]
                   ELSE NoEntry]
    /\ up' = TRUE /\ healthy' = TRUE
    /\ EndOperation
    /\ UNCHANGED <<diskVars, fileVars, acked, interrupted, faultVars>>

(***************************************************************************)
(* enqueue_sync.                                                            *)
(***************************************************************************)
Exists(m) == dir.final[m] # NoInode

EnqueueExisting ==
    /\ op = "enqueue" /\ pc = "body" /\ Exists(msg)
    /\ Readable(dir.final[msg]) /\ ~Conflicting(Record(msg, dir.final[msg]))
    /\ index' = Registered(Record(msg, dir.final[msg]))
    /\ acked' = acked \cup {msg}
    /\ EndOperation
    /\ UNCHANGED <<diskVars, fileVars, up, healthy, interrupted, faultVars>>

\* Mutant: off by one.
BacklogFullMutantOffByOne == Cardinality(Published(dir)) > MaxPending

BacklogFull == Cardinality(Published(dir)) >= MaxPending

\* MessageJobBacklogFull is the one error that leaves the health flag alone.
EnqueueFull ==
    /\ op = "enqueue" /\ pc = "body" /\ ~Exists(msg)
    /\ DirectoryMatchesIndex /\ BacklogFull
    /\ EndOperation
    /\ UNCHANGED <<diskVars, fileVars, procVars, acked, interrupted, faultVars>>

MayCreate == ~Exists(msg) /\ DirectoryMatchesIndex /\ ~BacklogFull

\* create_private_file under a fresh name; the record's timestamp is taken.
CreateCandidate ==
    /\ op = "enqueue" /\ pc = "body" /\ MayCreate
    /\ Inodes \ Referenced # {}
    /\ LET i == CHOOSE j \in Inodes \ Referenced : TRUE IN
         /\ ChangeDir([dir EXCEPT !.cand = @ \cup {i}])
         /\ new' = i
         /\ content' = [content EXCEPT ![i] = "empty"]
         /\ \E now \in Clock : fileAt' = [fileAt EXCEPT ![i] = now]
    /\ pc' = "created"
    /\ UNCHANGED <<op, msg, published, cleaned, procVars, acked, interrupted,
                   faultVars>>

WriteCandidate ==
    /\ pc = "created"
    /\ content' = [content EXCEPT ![new] = "written"]
    /\ Goto("written")
    /\ UNCHANGED <<diskVars, fileAt, procVars, acked, interrupted, faultVars>>

\* Mutant: the record is linked without having been synced.
SyncCandidateMutantSkipped ==
    /\ pc = "written"
    /\ Goto("synced")
    /\ UNCHANGED <<diskVars, fileVars, procVars, acked, interrupted, faultVars>>

\* candidate.sync_all()
SyncCandidate ==
    /\ pc = "written"
    /\ content' = [content EXCEPT ![new] = "whole"]
    /\ Goto("synced")
    /\ UNCHANGED <<diskVars, fileAt, procVars, acked, interrupted, faultVars>>

\* fs::hard_link(candidate, final)
LinkCandidate ==
    /\ pc = "synced"
    /\ ChangeDir(WithFinal(msg, new))
    /\ Goto("linked")
    /\ UNCHANGED <<fileVars, procVars, acked, interrupted, faultVars>>

\* sync_directory, then register_index_record
SyncLinked ==
    /\ pc = "linked" /\ ~Conflicting(Record(msg, new))
    /\ SyncDir
    /\ index' = Registered(Record(msg, new))
    /\ Goto("registered")
    /\ UNCHANGED <<fileVars, up, healthy, acked, interrupted, faultVars>>

UnlinkCandidate ==
    /\ pc = "registered"
    /\ ChangeDir(WithoutCandidate(new))
    /\ Goto("unlinked")
    /\ UNCHANGED <<fileVars, procVars, acked, interrupted, faultVars>>

\* Mutant: the published file is not read back.
ReadBackMutantSkipped == TRUE

\* read_job_file(final_path) gives back the record that was linked there.
ReadBack == dir.final[msg] = new /\ Readable(new)

\* sync_directory, then the published file is read back: Queued
Verify ==
    /\ pc = "unlinked" /\ ReadBack
    /\ SyncDir
    /\ acked' = acked \cup {msg}
    /\ EndOperation
    /\ UNCHANGED <<fileVars, procVars, interrupted, faultVars>>

(***************************************************************************)
(* load_sync, pending_message_ids_sync and pending_count_sync change        *)
(* nothing; remove_sync unlinks the job, forgets it and syncs.              *)
(***************************************************************************)

\* read_job_file's record, or no file and (for load) no index entry either.
Loads(m) == IF Exists(m) THEN Readable(dir.final[m]) ELSE index[m] = NoEntry

\* checked_job_files_sync succeeds; the message IDs are then the index.
Lists == DirectoryMatchesIndex /\ Cardinality(Published(dir)) <= MaxPending

Read ==
    /\ pc = "body"
    /\ \/ op = "load" /\ Loads(msg)
       \/ op = "list" /\ Lists
       \/ op = "remove" /\ ~Exists(msg)
    /\ EndOperation
    /\ UNCHANGED <<diskVars, fileVars, procVars, acked, interrupted, faultVars>>

RemoveJob ==
    /\ op = "remove" /\ pc = "body" /\ Exists(msg)
    /\ Readable(dir.final[msg])
    /\ ChangeDir(WithFinal(msg, NoInode))
    /\ index' = [index EXCEPT ![msg] = NoEntry]
    /\ acked' = acked \ {msg}
    /\ Goto("removed")
    /\ UNCHANGED <<fileVars, up, healthy, interrupted, faultVars>>

SyncRemoved ==
    /\ pc = "removed"
    /\ SyncDir
    /\ EndOperation
    /\ UNCHANGED <<fileVars, procVars, acked, interrupted, faultVars>>

(***************************************************************************)
(* The checks that return Err: a damaged record, a directory that is not    *)
(* the indexed one, conflicting records.                                    *)
(***************************************************************************)
RecoveryRejected ==
    \/ \E i \in dir.cand : ~Recoverable(i)
    \/ dir.cand = {} /\ op # "open" /\ Conflicting(published)

BodyRejected ==
    CASE op = "open"    -> ~Loadable
      [] op = "load"    -> ~Loads(msg)
      [] op = "list"    -> ~Lists
      [] op = "remove"  -> Exists(msg) /\ ~Readable(dir.final[msg])
      [] op = "enqueue" ->
           IF Exists(msg)
           THEN \/ ~Readable(dir.final[msg])
                \/ Conflicting(Record(msg, dir.final[msg]))
           ELSE ~DirectoryMatchesIndex

Rejected ==
    \/ pc = "recover" /\ RecoveryRejected
    \/ pc = "body" /\ BodyRejected
    \/ pc = "linked" /\ Conflicting(Record(msg, new))
    \/ pc = "unlinked" /\ ~ReadBack

Reject ==
    /\ Rejected
    /\ Fail
    /\ interrupted' = (interrupted \/ InUnsyncedRecovery)
    /\ UNCHANGED <<diskVars, fileVars, acked, faultVars>>

(***************************************************************************)
(* Faults.                                                                  *)
(***************************************************************************)

\* The file-system call of the current step fails.
IoFault ==
    /\ pc # "idle" /\ ioFaults < MaxIoFaults
    /\ Fail
    /\ ioFaults' = ioFaults + 1
    /\ interrupted' = (interrupted \/ InUnsyncedRecovery)
    /\ UNCHANGED <<diskVars, fileVars, acked, crashes, powerLosses, damages>>

\* hard_link fails and remove_candidate cleans up; its sync may fail as well.
\* (When the unlink fails, the candidate stays: that is IoFault at this step.)
LinkFault ==
    /\ pc = "synced" /\ ioFaults < MaxIoFaults
    /\ dir' = WithoutCandidate(new)
    /\ onDisk' \in {{dir'}, onDisk \cup {dir'}}
    /\ Fail
    /\ ioFaults' = ioFaults + 1
    /\ UNCHANGED <<fileVars, acked, interrupted, crashes, powerLosses, damages>>

\* The process dies; the directory keeps what it has.
Die ==
    /\ up' = FALSE /\ index' = EmptyIndex /\ healthy' = TRUE
    /\ op' = "open" /\ msg' = NoMessage /\ pc' = "idle" /\ new' = NoInode
    /\ published' = EmptyIndex /\ cleaned' = FALSE

Crash ==
    /\ up \/ pc # "idle"
    /\ crashes < MaxCrashes
    /\ Die
    /\ crashes' = crashes + 1
    /\ interrupted' = (interrupted \/ InUnsyncedRecovery)
    /\ UNCHANGED <<diskVars, fileVars, acked, ioFaults, powerLosses, damages>>

\* The host loses power: any directory since the last sync may be found, and
\* bytes that were not synced may be torn.
PowerLoss ==
    /\ powerLosses < MaxPowerLosses
    /\ Die
    /\ \E d \in onDisk : dir' = d /\ onDisk' = {d}
    /\ \E torn \in SUBSET {i \in Inodes : content[i] = "written"} :
         content' = [i \in Inodes |->
            IF i \in torn THEN "bad"
            ELSE IF content[i] = "written" THEN "whole" ELSE content[i]]
    /\ powerLosses' = powerLosses + 1
    /\ UNCHANGED <<fileAt, acked, interrupted, ioFaults, crashes, damages>>

\* Somebody else overwrites or deletes the file of a published job.
Damaged(m) ==
    /\ Exists(m) /\ damages < MaxDamages
    /\ acked' = acked \ {m}
    /\ damages' = damages + 1
    /\ UNCHANGED <<fileAt, procVars, opVars, interrupted, ioFaults, crashes,
                   powerLosses>>

Overwrite(m) ==
    /\ Damaged(m)
    /\ content' = [content EXCEPT ![dir.final[m]] = "bad"]
    /\ UNCHANGED diskVars

Delete(m) ==
    /\ Damaged(m)
    /\ ChangeDir(WithFinal(m, NoInode))
    /\ UNCHANGED content

-----------------------------------------------------------------------------
Next ==
    \/ StartOperation
    \/ \E i \in Inodes : RecoverCandidate(i)
    \/ FinishRecovery
    \/ OpenStart \/ OpenLoad
    \/ EnqueueExisting \/ EnqueueFull
    \/ CreateCandidate \/ WriteCandidate \/ SyncCandidate \/ LinkCandidate
    \/ SyncLinked \/ UnlinkCandidate \/ Verify
    \/ Read \/ RemoveJob \/ SyncRemoved
    \/ Reject
    \/ IoFault \/ LinkFault \/ Crash \/ PowerLoss
    \/ \E m \in Messages : Overwrite(m) \/ Delete(m)

\* The running operation goes on, and a dead process is started again
\* (Restart= of the service unit).  Requests and faults carry no fairness.
Progress ==
    \/ \E i \in Inodes : RecoverCandidate(i)
    \/ FinishRecovery \/ OpenStart \/ OpenLoad
    \/ EnqueueExisting \/ EnqueueFull
    \/ CreateCandidate \/ WriteCandidate \/ SyncCandidate \/ LinkCandidate
    \/ SyncLinked \/ UnlinkCandidate \/ Verify
    \/ Read \/ RemoveJob \/ SyncRemoved \/ Reject

Spec == Init /\ [][Next]_vars
FairSpec == Spec /\ WF_vars(Progress)

-----------------------------------------------------------------------------
(***************************************************************************)
(* Properties.                                                              *)
(***************************************************************************)

TypeOK ==
    /\ dir \in Directories
    /\ onDisk \subseteq Directories
    /\ dir \in onDisk
    /\ fileAt \in [Inodes -> Clock \cup {NoEntry}]
    /\ content \in [Inodes -> Contents]
    /\ up \in BOOLEAN /\ healthy \in BOOLEAN
    /\ index \in [Messages -> Clock \cup {NoEntry}]
    /\ op \in Requests \cup {"open"}
    /\ msg \in Messages \cup {NoMessage}
    /\ pc \in Steps
    /\ new \in Inodes \cup {NoInode}
    /\ published \in [Messages -> Clock \cup {NoEntry}]
    /\ cleaned \in BOOLEAN /\ interrupted \in BOOLEAN
    /\ acked \subseteq Messages
    /\ ioFaults \in 0 .. MaxIoFaults /\ crashes \in 0 .. MaxCrashes
    /\ powerLosses \in 0 .. MaxPowerLosses /\ damages \in 0 .. MaxDamages

\* Whatever directory a power loss leaves, it holds the job of message m.
Durable(m) == \A d \in onDisk : /\ d.final[m] # NoInode
                                /\ content[d.final[m]] = "whole"

(***************************************************************************)
(* The README's promise: enqueue reports success (and the HTTP handler      *)
(* answers 202) "only after its job file and containing directory have been *)
(* synced".                                                                 *)
(***************************************************************************)
AckedDurable == \A m \in acked : Durable(m)

(***************************************************************************)
(* The same promise as the code keeps it: every acknowledged job survives   *)
(* any power loss, unless an earlier recovery was cut short between         *)
(* unlinking a published job's candidate and syncing the directory.         *)
(***************************************************************************)
AckedDurableUnlessInterrupted == ~interrupted => AckedDurable

(***************************************************************************)
(* A final name only ever refers to a completely written and synced record, *)
(* now and in every directory a power loss may leave, so open() is never    *)
(* refused by a torn file: enqueue syncs the candidate before it links it.  *)
(***************************************************************************)
PublishedIsWhole ==
    damages = 0 =>
      \A d \in onDisk, m \in Messages :
        d.final[m] # NoInode => content[d.final[m]] = "whole"

(***************************************************************************)
(* The backlog never exceeds the limit and candidates never accumulate, in  *)
(* the live directory or in any a power loss may leave: otherwise           *)
(* recover_candidates and list_job_files would refuse every later start.    *)
(***************************************************************************)
BacklogBounded ==
    \A d \in onDisk : /\ Cardinality(Published(d)) <= MaxPending
                      /\ Cardinality(d.cand) <= 1

(***************************************************************************)
(* Between operations the index is the directory, so that listing and       *)
(* enqueueing (checked_job_files_sync) work for every other message even    *)
(* after an operation failed.  A candidate that is still there will be      *)
(* recovered, and its record registered, by the next operation.             *)
(***************************************************************************)
Unrecovered == {m \in Messages : dir.final[m] \in dir.cand}
NotWedged ==
    up /\ pc = "idle" /\ damages = 0 =>
      \A m \in Messages \ Unrecovered :
        index[m] = IF Exists(m) THEN fileAt[dir.final[m]] ELSE NoEntry

(***************************************************************************)
(* NotWedged as the code keeps it: unless a recovery was cut short.         *)
(***************************************************************************)
NotWedgedUnlessInterrupted == ~interrupted => NotWedged

(***************************************************************************)
(* "A file missing while its index entry still exists remains an integrity  *)
(* failure": while the process runs, a job whose file was deleted stays in  *)
(* the index and is never acknowledged, not even by the enqueue that was    *)
(* just publishing it.                                                      *)
(***************************************************************************)
MissingFileNotMasked ==
    [][\A m \in Messages :
         up /\ up' /\ index[m] # NoEntry /\ ~Exists(m)
           => index'[m] # NoEntry /\ m \notin acked']_vars

(***************************************************************************)
(* A process that died comes up again: no crash, power loss or transient    *)
(* fault leaves a directory that open() refuses (files nobody damaged).     *)
(***************************************************************************)
StartupSucceeds == ~up ~> up

-----------------------------------------------------------------------------
\* The abstract inbox this spool implements.
Inbox == INSTANCE JobInbox
           WITH pending <- Published(dir), accepted <- acked,
                Limit <- MaxPending

(***************************************************************************)
(* The spool implements the at-least-once inbox of JobInbox, with the names *)
(* in the directory as its pending jobs.                                    *)
(***************************************************************************)
ImplementsInbox == Inbox!Spec

=============================================================================
