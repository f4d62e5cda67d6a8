-------------------------- MODULE MessageJobsProofs --------------------------
(***************************************************************************)
(* Proofs about the message-job spool, for every set of messages, every     *)
(* backlog limit and any number of faults.                                  *)
(***************************************************************************)
EXTENDS MessageJobs, FiniteSetTheorems, TLAPS

(***************************************************************************)
(* The inductive invariant.                                                 *)
(***************************************************************************)

\* While an enqueue is between creating and linking its candidate, no
\* directory that may be found has a final name for that inode.
CandidatePrivate ==
    pc \in {"created", "written", "synced"} =>
      /\ msg \in Messages /\ new \in Inodes /\ new \in dir.cand
      /\ dir.final[msg] = NoInode
      /\ fileAt[new] \in Clock
      /\ \A d \in onDisk, m \in Messages : d.final[m] # new

\* What hard_link publishes has been synced.
CandidateSynced == pc = "synced" => content[new] = "whole"

\* The operations that name a message have one until they end.
OperationNamed ==
    /\ pc \in {"linked", "registered", "unlinked"} =>
         msg \in Messages /\ new \in Inodes
    /\ pc \in {"recover", "body"} /\ op \in {"enqueue", "load", "remove"} =>
         msg \in Messages

\* A final name refers to a record that was written and synced, and whose
\* bytes have not changed unless somebody damaged them.
FinalSynced ==
    \A d \in onDisk, m \in Messages :
      d.final[m] # NoInode =>
        /\ fileAt[d.final[m]] \in Clock
        /\ content[d.final[m]] \in {"whole", "bad"}
        /\ damages = 0 => content[d.final[m]] = "whole"

\* An inode is the record of one message only.
FinalInjective ==
    \A d, e \in onDisk, m, n \in Messages :
      d.final[m] # NoInode /\ d.final[m] = e.final[n] => m = n

\* The job of m has the same file in every directory that may be found.
Stable(m) == \A d \in onDisk : d.final[m] = dir.final[m]

\* A published job is stable, or its candidate still has to be recovered, or
\* the recovery under way has noted it and will sync.
PublishedStable ==
    ~interrupted =>
      \A m \in Messages :
        dir.final[m] # NoInode =>
          \/ Stable(m)
          \/ pc \in {"idle", "recover", "linked"} /\ dir.final[m] \in dir.cand
          \/ pc = "recover" /\ published[m] # NoEntry /\ cleaned

AckedStable ==
    ~interrupted =>
      \A m \in acked : /\ dir.final[m] # NoInode
                       /\ content[dir.final[m]] = "whole"
                       /\ Stable(m)

IInv ==
    /\ TypeOK
    /\ CandidatePrivate
    /\ CandidateSynced
    /\ OperationNamed
    /\ FinalSynced
    /\ FinalInjective
    /\ PublishedStable
    /\ AckedStable

-----------------------------------------------------------------------------
(***************************************************************************)
(* The directory values the actions build.                                  *)
(***************************************************************************)

\* fs::hard_link and fs::remove_file change one name and leave the others.
LEMMA DirectoryUpdates ==
  ASSUME dir \in Directories
  PROVE  /\ \A m \in Messages, i \in Inodes \cup {NoInode} :
              /\ WithFinal(m, i) \in Directories
              /\ WithFinal(m, i).cand = dir.cand
              /\ WithFinal(m, i).final[m] = i
              /\ \A n \in Messages \ {m} :
                   WithFinal(m, i).final[n] = dir.final[n]
         /\ \A i \in Inodes :
              /\ WithoutCandidate(i) \in Directories
              /\ WithoutCandidate(i).cand = dir.cand \ {i}
              /\ WithoutCandidate(i).final = dir.final
              /\ [dir EXCEPT !.cand = @ \cup {i}] \in Directories
              /\ [dir EXCEPT !.cand = @ \cup {i}].cand = dir.cand \cup {i}
              /\ [dir EXCEPT !.cand = @ \cup {i}].final = dir.final
  BY DEF Directories, WithFinal, WithoutCandidate

\* The empty spool satisfies the inductive invariant.
LEMMA InitIInv == Init => IInv
<1> SUFFICES ASSUME Init PROVE IInv
  OBVIOUS
<1>1. EmptyDir \in Directories /\ EmptyIndex \in [Messages -> Clock \cup {NoEntry}]
  BY DEF EmptyDir, Directories, EmptyIndex, NoInode, NoEntry
<1>2. TypeOK
  <2>1. /\ fileAt \in [Inodes -> Clock \cup {NoEntry}]
        /\ content \in [Inodes -> Contents]
    BY DEF Init, Contents
  <2>2. /\ ioFaults \in 0 .. MaxIoFaults /\ crashes \in 0 .. MaxCrashes
        /\ powerLosses \in 0 .. MaxPowerLosses /\ damages \in 0 .. MaxDamages
    BY BoundsAssumption DEF Init
  <2>3. up \in BOOLEAN /\ healthy \in BOOLEAN /\ cleaned \in BOOLEAN /\ interrupted \in BOOLEAN
    BY DEF Init
  <2>4. op \in Requests \cup {"open"} /\ pc \in Steps /\ msg \in Messages \cup {NoMessage}
    BY DEF Init, Steps
  <2> QED
  BY <1>1, <2>1, <2>2, <2>3, <2>4
  DEF Init, TypeOK
<1>3. \A m \in Messages : EmptyDir.final[m] = NoInode
  BY DEF EmptyDir
<1>4. FinalSynced /\ FinalInjective
  BY <1>3 DEF Init, FinalSynced, FinalInjective
<1>5. PublishedStable /\ AckedStable
  BY <1>3 DEF Init, PublishedStable, AckedStable
<1> QED
  BY <1>2, <1>4, <1>5
  DEF Init, IInv, CandidatePrivate, CandidateSynced, OperationNamed

-----------------------------------------------------------------------------
(***************************************************************************)
(* Type correctness.  The faults only count, so the bounds on them matter   *)
(* to TLC alone.                                                            *)
(***************************************************************************)
USE DEF diskVars, fileVars, procVars, opVars, faultVars

\* Every step of the specification preserves the type invariant.
LEMMA TypeStep == IInv /\ [Next]_vars => TypeOK'
<1> SUFFICES ASSUME IInv, [Next]_vars PROVE TypeOK'
  OBVIOUS
<1> USE DEF IInv, TypeOK
<1>1. CASE StartOperation
  <2>1. op' \in Requests /\ msg' \in Messages \cup {NoMessage}
    BY <1>1 DEF StartOperation, Begin, Requests
  <2> QED
    BY <1>1, <2>1 DEF StartOperation, Begin, Steps
<1>2. ASSUME NEW i \in Inodes, RecoverCandidate(i) PROVE TypeOK'
  <2>1. dir' \in Directories /\ onDisk' \subseteq Directories /\ dir' \in onDisk'
    BY <1>2, DirectoryUpdates DEF RecoverCandidate, ChangeDir
  <2>2. published' \in [Messages -> Clock \cup {NoEntry}]
    BY <1>2 DEF RecoverCandidate
  <2> QED
    BY <1>2, <2>1, <2>2 DEF RecoverCandidate
<1>3. CASE FinishRecovery
  <2>1. dir' \in Directories /\ onDisk' \subseteq Directories /\ dir' \in onDisk'
    BY <1>3 DEF FinishRecovery, SyncDir
  <2>2. index' \in [Messages -> Clock \cup {NoEntry}]
    BY <1>3 DEF FinishRecovery, Registered
  <2> QED
    BY <1>3, <2>1, <2>2 DEF FinishRecovery, Goto, Steps
<1>4. CASE OpenStart
  BY <1>4 DEF OpenStart, Steps
<1>5. CASE OpenLoad
  <2>1. index' \in [Messages -> Clock \cup {NoEntry}]
    BY <1>5 DEF OpenLoad, Published, Directories
  <2> QED
    BY <1>5, <2>1 DEF OpenLoad, EndOperation, Steps, EmptyIndex
<1>6. CASE EnqueueExisting
  <2>1. msg \in Messages /\ dir.final[msg] \in Inodes
    BY <1>6 DEF EnqueueExisting, Exists, OperationNamed, Directories
  <2>2. index' \in [Messages -> Clock \cup {NoEntry}]
    BY <1>6, <2>1 DEF EnqueueExisting, Registered, Record, EmptyIndex
  <2> QED
    BY <1>6, <2>1, <2>2 DEF EnqueueExisting, EndOperation, Steps, EmptyIndex
<1>7. CASE EnqueueFull
  BY <1>7 DEF EnqueueFull, EndOperation, Steps, EmptyIndex
<1>8. CASE CreateCandidate
  <2>1. PICK i \in Inodes :
          /\ ChangeDir([dir EXCEPT !.cand = @ \cup {i}])
          /\ new' = i
          /\ content' = [content EXCEPT ![i] = "empty"]
          /\ \E now \in Clock : fileAt' = [fileAt EXCEPT ![i] = now]
    BY <1>8 DEF CreateCandidate
  <2>2. dir' \in Directories /\ onDisk' \subseteq Directories /\ dir' \in onDisk'
    BY <2>1, DirectoryUpdates DEF ChangeDir
  <2>3. fileAt' \in [Inodes -> Clock \cup {NoEntry}] /\ content' \in [Inodes -> Contents]
    BY <2>1 DEF Contents
  <2> QED
    BY <1>8, <2>1, <2>2, <2>3 DEF CreateCandidate, Steps
<1>9. CASE WriteCandidate
  BY <1>9 DEF WriteCandidate, Goto, Steps, Contents
<1>10. CASE SyncCandidate
  BY <1>10 DEF SyncCandidate, Goto, Steps, Contents
<1>11. CASE LinkCandidate
  <2>1. dir' \in Directories /\ onDisk' \subseteq Directories /\ dir' \in onDisk'
    BY <1>11, DirectoryUpdates DEF LinkCandidate, ChangeDir, CandidatePrivate
  <2> QED
    BY <1>11, <2>1 DEF LinkCandidate, Goto, Steps
<1>12. CASE SyncLinked
  <2>1. index' \in [Messages -> Clock \cup {NoEntry}]
    BY <1>12 DEF SyncLinked, Registered, Record, EmptyIndex, OperationNamed
  <2> QED
    BY <1>12, <2>1 DEF SyncLinked, SyncDir, Goto, Steps
<1>13. CASE UnlinkCandidate
  <2>1. dir' \in Directories /\ onDisk' \subseteq Directories /\ dir' \in onDisk'
    BY <1>13, DirectoryUpdates DEF UnlinkCandidate, ChangeDir, OperationNamed
  <2> QED
    BY <1>13, <2>1 DEF UnlinkCandidate, Goto, Steps
<1>14. CASE Verify
  BY <1>14 DEF Verify, SyncDir, EndOperation, OperationNamed, Steps, EmptyIndex
<1>15. CASE Read
  BY <1>15 DEF Read, EndOperation, Steps, EmptyIndex
<1>16. CASE RemoveJob
  <2>1. dir' \in Directories /\ onDisk' \subseteq Directories /\ dir' \in onDisk'
    BY <1>16, DirectoryUpdates DEF RemoveJob, ChangeDir, OperationNamed
  <2> QED
    BY <1>16, <2>1 DEF RemoveJob, Goto, Steps
<1>17. CASE SyncRemoved
  BY <1>17 DEF SyncRemoved, SyncDir, EndOperation, Steps, EmptyIndex
<1>18. CASE Reject
  BY <1>18 DEF Reject, Fail, EndOperation, Steps, EmptyIndex
<1>19. CASE IoFault
  <2>1. ioFaults' \in 0 .. MaxIoFaults
    BY <1>19, BoundsAssumption DEF IoFault
  <2> QED
    BY <1>19, <2>1 DEF IoFault, Fail, EndOperation, Steps, EmptyIndex
<1>20. CASE LinkFault
  <2>1. dir' \in Directories /\ onDisk' \subseteq Directories /\ dir' \in onDisk'
    BY <1>20, DirectoryUpdates DEF LinkFault, CandidatePrivate
  <2>2. ioFaults' \in 0 .. MaxIoFaults
    BY <1>20, BoundsAssumption DEF LinkFault
  <2> QED
    BY <1>20, <2>1, <2>2 DEF LinkFault, Fail, EndOperation, Steps, EmptyIndex
<1>21. CASE Crash
  <2>1. crashes' \in 0 .. MaxCrashes
    BY <1>21, BoundsAssumption DEF Crash
  <2> QED
    BY <1>21, <2>1 DEF Crash, Die, Steps, EmptyIndex
<1>22. CASE PowerLoss
  <2>1. content' \in [Inodes -> Contents]
    BY <1>22 DEF PowerLoss, Contents
  <2>2. dir' \in Directories /\ onDisk' \subseteq Directories /\ dir' \in onDisk'
    BY <1>22 DEF PowerLoss
  <2>3. powerLosses' \in 0 .. MaxPowerLosses
    BY <1>22, BoundsAssumption DEF PowerLoss
  <2> QED
    BY <1>22, <2>1, <2>2, <2>3 DEF PowerLoss, Die, Steps, EmptyIndex
<1>23. ASSUME NEW m \in Messages, Overwrite(m) PROVE TypeOK'
  <2>1. damages' \in 0 .. MaxDamages
    BY <1>23, BoundsAssumption DEF Overwrite, Damaged
  <2> QED
    BY <1>23, <2>1 DEF Overwrite, Damaged, Contents
<1>24. ASSUME NEW m \in Messages, Delete(m) PROVE TypeOK'
  <2>1. dir' \in Directories /\ onDisk' \subseteq Directories /\ dir' \in onDisk'
    BY <1>24, DirectoryUpdates DEF Delete, ChangeDir
  <2>2. damages' \in 0 .. MaxDamages
    BY <1>24, BoundsAssumption DEF Delete, Damaged
  <2> QED
    BY <1>24, <2>1, <2>2 DEF Delete, Damaged
<1>25. CASE UNCHANGED vars
  BY <1>25 DEF vars
<1> QED
  BY <1>1, <1>2, <1>3, <1>4, <1>5, <1>6, <1>7, <1>8, <1>9, <1>10, <1>11, <1>12,
     <1>13, <1>14, <1>15, <1>16, <1>17, <1>18, <1>19, <1>20, <1>21, <1>22,
     <1>23, <1>24, <1>25
  DEF Next

-----------------------------------------------------------------------------
(***************************************************************************)
(* What the three kinds of step do to the directory.                        *)
(***************************************************************************)

\* An operation ends, or the process dies, and leaves every file alone.  The
\* one thing that may be lost is the note of a recovery that has not synced.
LEMMA QuietEnd ==
  ASSUME IInv, TypeOK', pc' = "idle",
         UNCHANGED <<dir, onDisk, fileAt, content, acked, damages>>,
         ~interrupted' => ~interrupted /\ ~InUnsyncedRecovery
  PROVE  IInv'
<1>1. CandidatePrivate' /\ CandidateSynced' /\ OperationNamed'
  BY DEF CandidatePrivate, CandidateSynced, OperationNamed
<1>2. FinalSynced' /\ FinalInjective'
  BY DEF IInv, FinalSynced, FinalInjective
<1>3. AckedStable'
  BY DEF IInv, AckedStable, Stable
<1>4. PublishedStable'
  BY DEF IInv, PublishedStable, Stable, InUnsyncedRecovery, EmptyIndex
<1> QED
  BY <1>1, <1>2, <1>3, <1>4 DEF IInv

\* The directory is synced: what it lists is then the same everywhere.
LEMMA SyncedFiles ==
  ASSUME IInv, SyncDir, UNCHANGED <<fileAt, content, damages>>
  PROVE  /\ FinalSynced' /\ FinalInjective'
         /\ \A m \in Messages : Stable(m)'
<1> USE DEF SyncDir, IInv, TypeOK
<1>1. FinalSynced'
  BY DEF FinalSynced
<1>2. FinalInjective'
  BY DEF FinalInjective
<1> QED
  BY <1>1, <1>2 DEF Stable

\* A directory change that adds no final name.
LEMMA ChangedFiles ==
  ASSUME IInv, NEW d, ChangeDir(d), UNCHANGED <<fileAt, content, damages>>,
         \A m \in Messages : d.final[m] \in {dir.final[m], NoInode}
  PROVE  /\ FinalSynced' /\ FinalInjective'
         /\ \A m \in Messages :
              Stable(m) /\ d.final[m] = dir.final[m] => Stable(m)'
<1> USE DEF ChangeDir, IInv, TypeOK
<1>1. FinalSynced'
  BY DEF FinalSynced
<1>2. FinalInjective'
  BY DEF FinalInjective
<1> QED
  BY <1>1, <1>2 DEF Stable

\* The inductive step.
LEMMA NextIInv == IInv /\ [Next]_vars => IInv'
<1> SUFFICES ASSUME IInv, [Next]_vars PROVE IInv'
  OBVIOUS
<1>0. TypeOK /\ TypeOK'
  BY TypeStep DEF IInv
<1>1. CASE StartOperation
  <2>1. /\ UNCHANGED <<dir, onDisk, fileAt, content, acked, damages, interrupted>>
        /\ pc = "idle" /\ pc' = "recover"
        /\ op' # "list" => msg' \in Messages
    BY <1>1 DEF StartOperation, Begin, Requests
  <2>2. OperationNamed' /\ CandidatePrivate' /\ CandidateSynced'
    BY <2>1 DEF OperationNamed, CandidatePrivate, CandidateSynced
  <2>3. FinalSynced' /\ FinalInjective' /\ AckedStable'
    BY <2>1 DEF IInv, FinalSynced, FinalInjective, AckedStable, Stable
  <2>4. PublishedStable'
    BY <2>1 DEF IInv, PublishedStable, Stable
  <2> QED
    BY <1>0, <2>2, <2>3, <2>4 DEF IInv
<1>2. ASSUME NEW i \in Inodes, RecoverCandidate(i) PROVE IInv'
  <2>1. /\ ChangeDir(WithoutCandidate(i)) /\ dir \in Directories
        /\ WithoutCandidate(i).final = dir.final
        /\ WithoutCandidate(i).cand = dir.cand \ {i}
    BY <1>0, <1>2, DirectoryUpdates DEF RecoverCandidate, TypeOK
  <2>2. /\ FinalSynced' /\ FinalInjective'
        /\ \A m \in Messages : Stable(m) => Stable(m)'
    BY <1>2, <2>1, ChangedFiles DEF RecoverCandidate
  <2>3. OperationNamed' /\ CandidatePrivate' /\ CandidateSynced'
    BY <1>2 DEF RecoverCandidate, IInv, OperationNamed, CandidatePrivate, CandidateSynced
  <2>4. AckedStable'
    BY <1>0, <1>2, <2>1, <2>2 DEF RecoverCandidate, IInv, TypeOK, AckedStable, ChangeDir
  <2>5. PublishedStable'
    <3> SUFFICES ASSUME ~interrupted, NEW m \in Messages, dir.final[m] # NoInode
                 PROVE  \/ Stable(m)'
                        \/ dir.final[m] \in dir.cand \ {i}
                        \/ published'[m] # NoEntry
      BY <1>2, <2>1 DEF RecoverCandidate, PublishedStable, ChangeDir
    <3>1. dir \in onDisk /\ fileAt[dir.final[m]] \in Clock
      BY <1>0 DEF IInv, TypeOK, FinalSynced
    <3>2. published'[m] = IF dir.final[m] = i THEN fileAt[i] ELSE published[m]
      BY <1>2 DEF RecoverCandidate
    <3> QED
      BY <1>2, <2>2, <3>1, <3>2
      DEF RecoverCandidate, IInv, PublishedStable, Clock, NoEntry
  <2> QED
    BY <1>0, <2>2, <2>3, <2>4, <2>5 DEF IInv
<1>3. CASE FinishRecovery
  <2>1. OperationNamed' /\ CandidatePrivate' /\ CandidateSynced'
    BY <1>3 DEF FinishRecovery, Goto, IInv, OperationNamed, CandidatePrivate, CandidateSynced
  <2>2. CASE cleaned
    <3>1. FinalSynced' /\ FinalInjective' /\ \A m \in Messages : Stable(m)'
      BY <1>3, <2>2, SyncedFiles DEF FinishRecovery
    <3>2. PublishedStable' /\ AckedStable'
      BY <1>0, <1>3, <2>2, <3>1
      DEF FinishRecovery, SyncDir, IInv, TypeOK, PublishedStable, AckedStable
    <3> QED
      BY <1>0, <2>1, <3>1, <3>2 DEF IInv
  <2>3. CASE ~cleaned
    <3>1. UNCHANGED <<dir, onDisk, fileAt, content, acked, damages, interrupted>>
      BY <1>3, <2>3 DEF FinishRecovery
    <3>2. FinalSynced' /\ FinalInjective' /\ AckedStable'
      BY <3>1 DEF IInv, FinalSynced, FinalInjective, AckedStable, Stable
    <3>3. PublishedStable'
      BY <1>3, <2>3, <3>1 DEF FinishRecovery, IInv, PublishedStable, Stable
    <3> QED
      BY <1>0, <2>1, <3>2, <3>3 DEF IInv
  <2> QED
    BY <2>2, <2>3
<1>4. CASE OpenStart
  <2>1. /\ UNCHANGED <<dir, onDisk, fileAt, content, acked, damages, interrupted>>
        /\ pc = "idle" /\ pc' = "recover" /\ op' = "open"
    BY <1>4 DEF OpenStart
  <2>2. OperationNamed' /\ CandidatePrivate' /\ CandidateSynced'
    BY <2>1 DEF OperationNamed, CandidatePrivate, CandidateSynced
  <2>3. FinalSynced' /\ FinalInjective' /\ AckedStable'
    BY <2>1 DEF IInv, FinalSynced, FinalInjective, AckedStable, Stable
  <2>4. PublishedStable'
    BY <2>1 DEF IInv, PublishedStable, Stable
  <2> QED
    BY <1>0, <2>2, <2>3, <2>4 DEF IInv
<1>5. CASE OpenLoad
  BY <1>0, <1>5, QuietEnd DEF OpenLoad, EndOperation, InUnsyncedRecovery
<1>7. CASE EnqueueFull
  BY <1>0, <1>7, QuietEnd DEF EnqueueFull, EndOperation, InUnsyncedRecovery
<1>15. CASE Read
  BY <1>0, <1>15, QuietEnd DEF Read, EndOperation, InUnsyncedRecovery
<1>18. CASE Reject
  BY <1>0, <1>18, QuietEnd DEF Reject, Fail, EndOperation
<1>19. CASE IoFault
  BY <1>0, <1>19, QuietEnd DEF IoFault, Fail, EndOperation
<1>21. CASE Crash
  BY <1>0, <1>21, QuietEnd DEF Crash, Die
<1>6. CASE EnqueueExisting
  <2>1. /\ msg \in Messages /\ pc = "body" /\ dir \in onDisk
        /\ dir.final[msg] # NoInode /\ Readable(dir.final[msg])
    BY <1>0, <1>6 DEF EnqueueExisting, Exists, IInv, TypeOK, OperationNamed
  <2>2. content[dir.final[msg]] = "whole"
    BY <2>1 DEF IInv, FinalSynced, Readable
  <2>3. ~interrupted => Stable(msg)
    BY <2>1 DEF IInv, PublishedStable
  <2>4. OperationNamed' /\ CandidatePrivate' /\ CandidateSynced'
    BY <1>6 DEF EnqueueExisting, EndOperation, OperationNamed, CandidatePrivate, CandidateSynced
  <2>5. FinalSynced' /\ FinalInjective'
    BY <1>6 DEF EnqueueExisting, IInv, FinalSynced, FinalInjective
  <2>6. PublishedStable'
    BY <1>6, <2>1 DEF EnqueueExisting, EndOperation, IInv, PublishedStable, Stable
  <2>7. AckedStable'
    BY <1>6, <2>1, <2>2, <2>3 DEF EnqueueExisting, IInv, AckedStable, Stable
  <2> QED
    BY <1>0, <2>4, <2>5, <2>6, <2>7 DEF IInv
<1>8. CASE CreateCandidate
  <2>1. PICK i \in Inodes \ Referenced :
          /\ ChangeDir([dir EXCEPT !.cand = @ \cup {i}])
          /\ new' = i
          /\ content' = [content EXCEPT ![i] = "empty"]
          /\ \E now \in Clock : fileAt' = [fileAt EXCEPT ![i] = now]
    BY <1>8 DEF CreateCandidate
  <2>2. PICK now \in Clock : fileAt' = [fileAt EXCEPT ![i] = now]
    BY <2>1
  <2>3. /\ dir \in onDisk /\ dir'.final = dir.final /\ i \in dir'.cand
        /\ onDisk' = onDisk \cup {dir'}
        /\ \A j \in Inodes : j # i => content'[j] = content[j] /\ fileAt'[j] = fileAt[j]
        /\ fileAt'[i] = now
    BY <1>0, <2>1, <2>2, DirectoryUpdates DEF ChangeDir, TypeOK
  <2>4. \A d \in onDisk', m \in Messages :
          d.final[m] # i /\ d.final[m] \in Inodes \cup {NoInode}
    BY <1>0, <2>1, <2>3 DEF Referenced, Linked, TypeOK, Directories
  <2>5. msg \in Messages /\ dir.final[msg] = NoInode /\ msg' = msg /\ pc' = "created"
    BY <1>8 DEF CreateCandidate, MayCreate, Exists, IInv, OperationNamed
  <2>6. CandidatePrivate' /\ CandidateSynced' /\ OperationNamed'
    BY <2>1, <2>3, <2>4, <2>5
    DEF CandidatePrivate, CandidateSynced, OperationNamed
  <2>7. FinalSynced'
    BY <1>8, <2>3, <2>4 DEF CreateCandidate, IInv, FinalSynced
  <2>8. FinalInjective'
    BY <2>3 DEF IInv, FinalInjective
  <2>9. \A m \in Messages : Stable(m) => Stable(m)'
    BY <2>3 DEF Stable
  <2>10. PublishedStable'
    BY <1>8, <2>3, <2>9 DEF CreateCandidate, IInv, PublishedStable
  <2>11. AckedStable'
    BY <1>0, <1>8, <2>3, <2>4, <2>9 DEF CreateCandidate, IInv, AckedStable, TypeOK
  <2> QED
    BY <1>0, <2>6, <2>7, <2>8, <2>10, <2>11 DEF IInv
<1>9. CASE WriteCandidate \/ SyncCandidate
  <2>1. /\ pc \in {"created", "written"} /\ pc' \in {"written", "synced"}
        /\ UNCHANGED <<dir, onDisk, fileAt, op, msg, new, acked, interrupted, damages>>
        /\ \A j \in Inodes : j # new => content'[j] = content[j]
        /\ pc' = "synced" => content'[new] = "whole"
    BY <1>0, <1>9 DEF WriteCandidate, SyncCandidate, Goto, TypeOK, IInv, CandidatePrivate
  <2>2. \A d \in onDisk, m \in Messages :
          d.final[m] # new /\ d.final[m] \in Inodes \cup {NoInode}
    BY <1>0, <2>1 DEF IInv, CandidatePrivate, TypeOK, Directories
  <2>3. CandidatePrivate' /\ CandidateSynced' /\ OperationNamed'
    BY <2>1 DEF IInv, CandidatePrivate, CandidateSynced, OperationNamed
  <2>4. FinalSynced' /\ FinalInjective'
    BY <2>1, <2>2 DEF IInv, FinalSynced, FinalInjective
  <2>5. PublishedStable'
    BY <2>1 DEF IInv, PublishedStable, Stable
  <2>6. AckedStable'
    BY <1>0, <2>1, <2>2 DEF IInv, AckedStable, Stable, TypeOK
  <2> QED
    BY <1>0, <2>3, <2>4, <2>5, <2>6 DEF IInv
<1>11. CASE LinkCandidate
  <2>1. /\ msg \in Messages /\ new \in Inodes /\ new \in dir.cand
        /\ fileAt[new] \in Clock /\ content[new] = "whole"
        /\ \A d \in onDisk, m \in Messages : d.final[m] # new
        /\ dir.final[msg] = NoInode
    BY <1>11 DEF LinkCandidate, IInv, CandidatePrivate, CandidateSynced
  <2>2. /\ dir \in onDisk /\ onDisk' = onDisk \cup {dir'}
        /\ dir'.cand = dir.cand /\ dir'.final[msg] = new
        /\ \A n \in Messages \ {msg} : dir'.final[n] = dir.final[n]
    BY <1>0, <1>11, <2>1, DirectoryUpdates DEF LinkCandidate, ChangeDir, TypeOK
  <2>3. /\ pc' = "linked"
        /\ UNCHANGED <<op, msg, new, fileAt, content, acked, interrupted, damages>>
    BY <1>11 DEF LinkCandidate, Goto
  <2>4. CandidatePrivate' /\ CandidateSynced' /\ OperationNamed'
    BY <2>1, <2>3 DEF CandidatePrivate, CandidateSynced, OperationNamed
  <2>5. FinalSynced'
    BY <2>1, <2>2, <2>3 DEF IInv, FinalSynced
  <2>6. FinalInjective'
    BY <2>1, <2>2 DEF IInv, FinalInjective
  <2>7. \A m \in Messages \ {msg} : Stable(m) => Stable(m)'
    BY <2>2 DEF Stable
  <2>8. PublishedStable'
    BY <1>11, <2>1, <2>2, <2>3, <2>7 DEF LinkCandidate, IInv, PublishedStable
  <2>9. AckedStable'
    BY <1>0, <2>1, <2>2, <2>3, <2>7 DEF IInv, AckedStable, TypeOK
  <2> QED
    BY <1>0, <2>4, <2>5, <2>6, <2>8, <2>9 DEF IInv
<1>12. CASE SyncLinked
  <2>1. FinalSynced' /\ FinalInjective' /\ \A m \in Messages : Stable(m)'
    BY <1>12, SyncedFiles DEF SyncLinked
  <2>2. CandidatePrivate' /\ CandidateSynced' /\ OperationNamed'
    BY <1>12 DEF SyncLinked, Goto, IInv, CandidatePrivate, CandidateSynced, OperationNamed
  <2>3. PublishedStable' /\ AckedStable'
    BY <1>0, <1>12, <2>1 DEF SyncLinked, SyncDir, IInv, TypeOK, PublishedStable, AckedStable
  <2> QED
    BY <1>0, <2>1, <2>2, <2>3 DEF IInv
<1>13. CASE UnlinkCandidate
  <2>1. /\ ChangeDir(WithoutCandidate(new)) /\ pc = "registered"
        /\ WithoutCandidate(new).final = dir.final
    BY <1>0, <1>13, DirectoryUpdates DEF UnlinkCandidate, IInv, TypeOK, OperationNamed
  <2>2. /\ FinalSynced' /\ FinalInjective'
        /\ \A m \in Messages : Stable(m) => Stable(m)'
    BY <1>13, <2>1, ChangedFiles DEF UnlinkCandidate
  <2>3. OperationNamed' /\ CandidatePrivate' /\ CandidateSynced'
    BY <1>13 DEF UnlinkCandidate, Goto, IInv, OperationNamed, CandidatePrivate, CandidateSynced
  <2>4. PublishedStable' /\ AckedStable'
    BY <1>0, <1>13, <2>1, <2>2
    DEF UnlinkCandidate, IInv, TypeOK, AckedStable, PublishedStable, ChangeDir
  <2> QED
    BY <1>0, <2>2, <2>3, <2>4 DEF IInv
<1>14. CASE Verify
  <2>1. FinalSynced' /\ FinalInjective' /\ \A m \in Messages : Stable(m)'
    BY <1>14, SyncedFiles DEF Verify
  <2>2. CandidatePrivate' /\ CandidateSynced' /\ OperationNamed'
    BY <1>14 DEF Verify, EndOperation, CandidatePrivate, CandidateSynced, OperationNamed
  <2>3. PublishedStable'
    BY <2>1 DEF PublishedStable
  <2>4. /\ msg \in Messages /\ dir.final[msg] = new /\ new # NoInode
        /\ content[new] = "whole"
    BY <1>0, <1>14
    DEF Verify, ReadBack, Readable, IInv, TypeOK, OperationNamed, FinalSynced, Inodes, NoInode
  <2>5. AckedStable'
    BY <1>0, <1>14, <2>1, <2>4 DEF Verify, SyncDir, IInv, TypeOK, AckedStable
  <2> QED
    BY <1>0, <2>1, <2>2, <2>3, <2>5 DEF IInv
<1>16. CASE RemoveJob
  <2>1. /\ ChangeDir(WithFinal(msg, NoInode)) /\ pc = "body" /\ msg \in Messages
        /\ WithFinal(msg, NoInode).final[msg] = NoInode
        /\ \A n \in Messages \ {msg} : WithFinal(msg, NoInode).final[n] = dir.final[n]
    BY <1>0, <1>16, DirectoryUpdates DEF RemoveJob, IInv, TypeOK, OperationNamed
  <2>2. /\ FinalSynced' /\ FinalInjective'
        /\ \A m \in Messages \ {msg} : Stable(m) => Stable(m)'
    BY <1>16, <2>1, ChangedFiles DEF RemoveJob
  <2>3. OperationNamed' /\ CandidatePrivate' /\ CandidateSynced'
    BY <1>16 DEF RemoveJob, Goto, OperationNamed, CandidatePrivate, CandidateSynced
  <2>4. PublishedStable' /\ AckedStable'
    BY <1>0, <1>16, <2>1, <2>2
    DEF RemoveJob, IInv, TypeOK, AckedStable, PublishedStable, ChangeDir
  <2> QED
    BY <1>0, <2>2, <2>3, <2>4 DEF IInv
<1>17. CASE SyncRemoved
  <2>1. FinalSynced' /\ FinalInjective' /\ \A m \in Messages : Stable(m)'
    BY <1>17, SyncedFiles DEF SyncRemoved
  <2>2. CandidatePrivate' /\ CandidateSynced' /\ OperationNamed'
    BY <1>17 DEF SyncRemoved, EndOperation, CandidatePrivate, CandidateSynced, OperationNamed
  <2>3. PublishedStable' /\ AckedStable'
    BY <1>0, <1>17, <2>1 DEF SyncRemoved, SyncDir, IInv, TypeOK, PublishedStable, AckedStable
  <2> QED
    BY <1>0, <2>1, <2>2, <2>3 DEF IInv
<1>20. CASE LinkFault
  <2>1. /\ dir'.final = dir.final /\ dir \in onDisk
        /\ \A d \in onDisk' : d = dir' \/ d \in onDisk
        /\ pc = "synced" /\ pc' = "idle"
        /\ UNCHANGED <<fileAt, content, acked, interrupted, damages>>
    BY <1>0, <1>20, DirectoryUpdates
    DEF LinkFault, Fail, EndOperation, IInv, TypeOK, CandidatePrivate
  <2>2. CandidatePrivate' /\ CandidateSynced' /\ OperationNamed'
    BY <2>1 DEF CandidatePrivate, CandidateSynced, OperationNamed
  <2>3. FinalSynced' /\ FinalInjective'
    BY <2>1 DEF IInv, FinalSynced, FinalInjective
  <2>4. PublishedStable' /\ AckedStable'
    BY <2>1 DEF IInv, PublishedStable, AckedStable, Stable
  <2> QED
    BY <1>0, <2>2, <2>3, <2>4 DEF IInv
<1>22. CASE PowerLoss
  <2>1. /\ dir' \in onDisk /\ onDisk' = {dir'} /\ pc' = "idle"
        /\ UNCHANGED <<fileAt, acked, interrupted, damages>>
        /\ \A j \in Inodes : content[j] # "written" => content'[j] = content[j]
    BY <1>22 DEF PowerLoss, Die
  <2>2. \A d \in onDisk, m \in Messages : d.final[m] \in Inodes \cup {NoInode}
    BY <1>0 DEF TypeOK, Directories
  <2>3. CandidatePrivate' /\ CandidateSynced' /\ OperationNamed'
    BY <2>1 DEF CandidatePrivate, CandidateSynced, OperationNamed
  <2>4. FinalSynced' /\ FinalInjective'
    BY <2>1, <2>2 DEF IInv, FinalSynced, FinalInjective
  <2>5. PublishedStable'
    BY <2>1 DEF PublishedStable, Stable
  <2>6. AckedStable'
    BY <1>0, <2>1, <2>2 DEF IInv, AckedStable, Stable, TypeOK
  <2> QED
    BY <1>0, <2>3, <2>4, <2>5, <2>6 DEF IInv
<1>23. ASSUME NEW m \in Messages, Overwrite(m) PROVE IInv'
  <2>1. /\ UNCHANGED <<dir, onDisk, fileAt, op, msg, pc, new, published, cleaned, interrupted>>
        /\ dir.final[m] \in Inodes /\ dir \in onDisk
        /\ content'[dir.final[m]] = "bad"
        /\ \A j \in Inodes : j # dir.final[m] => content'[j] = content[j]
        /\ acked' = acked \ {m} /\ damages' = damages + 1 /\ damages \in Nat
    BY <1>0, <1>23 DEF Overwrite, Damaged, Exists, TypeOK, Directories
  <2>2. \A d \in onDisk, n \in Messages : d.final[n] \in Inodes \cup {NoInode}
    BY <1>0 DEF TypeOK, Directories
  <2>3. CandidatePrivate' /\ CandidateSynced' /\ OperationNamed'
    BY <2>1 DEF IInv, CandidatePrivate, CandidateSynced, OperationNamed
  <2>4. FinalSynced' /\ FinalInjective'
    BY <2>1, <2>2 DEF IInv, FinalSynced, FinalInjective
  <2>5. PublishedStable'
    BY <2>1 DEF IInv, PublishedStable, Stable
  <2>6. \A n \in acked' : dir.final[n] # NoInode => dir.final[n] # dir.final[m]
    BY <1>0, <2>1 DEF IInv, TypeOK, FinalInjective
  <2>7. AckedStable'
    BY <1>0, <2>1, <2>2, <2>6 DEF IInv, AckedStable, Stable, TypeOK
  <2> QED
    BY <1>0, <2>3, <2>4, <2>5, <2>7 DEF IInv
<1>24. ASSUME NEW m \in Messages, Delete(m) PROVE IInv'
  <2>1. /\ dir \in onDisk /\ onDisk' = onDisk \cup {dir'}
        /\ dir'.cand = dir.cand /\ dir'.final[m] = NoInode
        /\ \A n \in Messages \ {m} : dir'.final[n] = dir.final[n]
    BY <1>0, <1>24, DirectoryUpdates DEF Delete, ChangeDir, TypeOK
  <2>2. /\ UNCHANGED <<fileAt, content, op, msg, pc, new, published, cleaned, interrupted>>
        /\ acked' = acked \ {m} /\ damages' = damages + 1 /\ damages \in Nat
    BY <1>0, <1>24 DEF Delete, Damaged, TypeOK
  <2>3. CandidatePrivate' /\ CandidateSynced' /\ OperationNamed'
    <3>1. CandidatePrivate'
      <4> SUFFICES ASSUME pc \in {"created", "written", "synced"}
                   PROVE  CandidatePrivate'
        BY <2>2 DEF CandidatePrivate
      <4>1. /\ msg \in Messages /\ new \in Inodes /\ new \in dir.cand
            /\ dir.final[msg] = NoInode /\ fileAt[new] \in Clock
            /\ \A d \in onDisk, n \in Messages : d.final[n] # new
        BY DEF IInv, CandidatePrivate
      <4>2. dir'.final[msg] = NoInode /\ new # NoInode
        BY <2>1, <4>1 DEF Inodes, NoInode
      <4> QED
        BY <2>1, <2>2, <4>1, <4>2 DEF CandidatePrivate
    <3> QED
      BY <2>2, <3>1 DEF IInv, CandidateSynced, OperationNamed
  <2>4. FinalSynced'
    BY <2>1, <2>2 DEF IInv, FinalSynced
  <2>5. FinalInjective'
    BY <2>1 DEF IInv, FinalInjective
  <2>6. \A n \in Messages \ {m} : Stable(n) => Stable(n)'
    BY <2>1 DEF Stable
  <2>7. PublishedStable'
    BY <2>1, <2>2, <2>6 DEF IInv, PublishedStable
  <2>8. AckedStable'
    BY <1>0, <2>1, <2>2, <2>6 DEF IInv, AckedStable, TypeOK
  <2> QED
    BY <1>0, <2>3, <2>4, <2>5, <2>7, <2>8 DEF IInv
<1>25. CASE UNCHANGED vars
  BY <1>25
  DEF vars, IInv, TypeOK, CandidatePrivate, CandidateSynced, OperationNamed,
      FinalSynced, FinalInjective, PublishedStable, AckedStable, Stable
<1> QED
  BY <1>1, <1>2, <1>3, <1>4, <1>5, <1>6, <1>7, <1>8, <1>9, <1>11, <1>12,
     <1>13, <1>14, <1>15, <1>16, <1>17, <1>18, <1>19, <1>20, <1>21, <1>22,
     <1>23, <1>24, <1>25
  DEF Next

-----------------------------------------------------------------------------
(***************************************************************************)
(* The bound on what a directory may hold.                                  *)
(***************************************************************************)

\* No directory that may be found has more jobs than the limit or a second candidate:
\* an enqueue creates its candidate when recovery has left none, and from its check of
\* the backlog until it links it only other processes' damage changes the jobs.
BoundIInv ==
    /\ \A d \in onDisk : Cardinality(Published(d)) <= MaxPending
    /\ \A d \in onDisk : \A i, j \in d.cand : i = j
    /\ pc \in {"body", "removed"} => dir.cand = {}
    /\ pc \in {"created", "written", "synced", "linked", "registered"} => dir.cand = {new}
    /\ pc \in {"created", "written", "synced"} => Cardinality(Published(dir)) < MaxPending

(***************************************************************************)
(* The index and the files it stands for.                                   *)
(***************************************************************************)

\* The entry that belongs to the file of m.
Entry(m) == IF Exists(m) THEN fileAt[dir.final[m]] ELSE NoEntry

\* Only an operation of a process that is up has a request's kind, and what a recovery
\* notes is forgotten when its operation ends.
OperationState ==
    /\ op = "open" /\ pc # "idle" => ~up
    /\ pc = "idle" => published = EmptyIndex
    /\ op # "open" /\ pc # "idle" => up

\* An acknowledged job that the index knows, or that is about to be registered, has its
\* file: deleting the file takes the acknowledgement with it.
AckedHasFile ==
    \A m \in acked :
      \/ Exists(m)
      \/ /\ index[m] = NoEntry
         /\ pc = "recover" => published[m] = NoEntry
         /\ pc = "linked" => m # msg

\* As long as nothing was damaged or cut short, every job is indexed, or its candidate
\* still tells that it was published, or the recovery under way has noted it.
IndexCurrent ==
    up /\ damages = 0 /\ ~interrupted =>
      /\ pc \in {"linked", "registered", "unlinked"} => dir.final[msg] = new
      /\ \A m \in Messages :
           /\ \/ index[m] = Entry(m)
              \/ pc \in {"idle", "recover"} /\ dir.final[m] \in dir.cand
              \/ pc = "linked" /\ m = msg
              \/ pc = "recover" /\ published[m] # NoEntry
           /\ pc = "recover" => published[m] \in {NoEntry, Entry(m)}

IndexIInv == OperationState /\ AckedHasFile /\ IndexCurrent

-----------------------------------------------------------------------------
\* Fewer jobs and fewer candidates stay within the bounds.
LEMMA FewerJobs ==
  ASSUME IInv, BoundIInv, onDisk' \subseteq onDisk \cup {dir'},
         dir'.cand \subseteq dir.cand, Published(dir') \subseteq Published(dir)
  PROVE  /\ \A d \in onDisk' : Cardinality(Published(d)) <= MaxPending
         /\ \A d \in onDisk' : \A i, j \in d.cand : i = j
         /\ Cardinality(Published(dir')) <= Cardinality(Published(dir))
         /\ Cardinality(Published(dir')) \in Nat /\ Cardinality(Published(dir)) \in Nat
<1>1. dir \in onDisk
  BY DEF IInv, TypeOK
<1>2. IsFiniteSet(Published(dir)) /\ IsFiniteSet(Published(dir'))
  <2>1. Published(dir) \subseteq Messages /\ Published(dir') \subseteq Messages
    BY DEF Published
  <2> QED
    BY <2>1, FS_Subset, MessagesAssumption
<1>3. /\ Cardinality(Published(dir')) \in Nat /\ Cardinality(Published(dir)) \in Nat
      /\ Cardinality(Published(dir')) <= Cardinality(Published(dir))
  BY <1>2, FS_Subset, FS_CardinalityType
<1>4. Cardinality(Published(dir)) <= MaxPending /\ \A i, j \in dir.cand : i = j
  BY <1>1 DEF BoundIInv
<1>5. Cardinality(Published(dir')) <= MaxPending
  BY <1>3, <1>4, BoundsAssumption
<1> QED
  BY <1>3, <1>4, <1>5 DEF BoundIInv

\* The number of jobs is a number.
LEMMA BacklogIsNat == \A d : IsFiniteSet(Published(d)) /\ Cardinality(Published(d)) \in Nat
<1>1. ASSUME NEW d PROVE IsFiniteSet(Published(d)) /\ Cardinality(Published(d)) \in Nat
  <2>1. Published(d) \subseteq Messages
    BY DEF Published
  <2>2. IsFiniteSet(Published(d))
    BY <2>1, FS_Subset, MessagesAssumption
  <2> QED
    BY <2>2, FS_CardinalityType
<1> QED
  BY <1>1

\* Every step keeps the directory, and every one that may be found, within the bounds.
LEMMA NextBound == IInv /\ BoundIInv /\ [Next]_vars => BoundIInv'
<1> SUFFICES ASSUME IInv, BoundIInv, [Next]_vars PROVE BoundIInv'
  OBVIOUS
<1>0. TypeOK /\ dir \in Directories /\ dir \in onDisk
  BY DEF IInv, TypeOK
<1>q. ASSUME UNCHANGED <<dir, onDisk>>,
             pc' \in {"idle", "recover"} \/ (pc' \in {"written", "synced"} /\ new' = new
                                              /\ pc \in {"created", "written"})
      PROVE  BoundIInv'
  BY <1>q DEF BoundIInv, Published
<1>1. CASE StartOperation \/ OpenStart
  BY <1>1, <1>q DEF StartOperation, Begin, OpenStart
<1>2. ASSUME NEW i \in Inodes, RecoverCandidate(i) PROVE BoundIInv'
  <2>1. dir'.cand = dir.cand \ {i} /\ dir'.final = dir.final /\ onDisk' = onDisk \cup {dir'}
    BY <1>0, <1>2, DirectoryUpdates DEF RecoverCandidate, ChangeDir
  <2>2. Published(dir') = Published(dir)
    BY <2>1 DEF Published
  <2>3. pc' = "recover"
    BY <1>2 DEF RecoverCandidate
  <2> QED
    BY <2>1, <2>2, <2>3, FewerJobs DEF BoundIInv
<1>3. CASE FinishRecovery
  <2>1. dir' = dir /\ onDisk' \subseteq onDisk /\ dir.cand = {} /\ pc' = "body"
    BY <1>0, <1>3 DEF FinishRecovery, SyncDir, Goto
  <2> QED
    BY <2>1 DEF BoundIInv
<1>4. CASE OpenLoad \/ EnqueueExisting \/ EnqueueFull \/ Read \/ Reject \/ IoFault \/ Crash
  BY <1>4, <1>q DEF OpenLoad, EnqueueExisting, EnqueueFull, Read, Reject, IoFault, Crash, Fail,
     EndOperation, Die
<1>5. CASE CreateCandidate
  <2>1. PICK i \in Inodes : ChangeDir([dir EXCEPT !.cand = @ \cup {i}]) /\ new' = i
    BY <1>5 DEF CreateCandidate
  <2>2. /\ dir'.cand = dir.cand \cup {i} /\ dir'.final = dir.final /\ onDisk' = onDisk \cup {dir'}
        /\ dir.cand = {} /\ pc' = "created" /\ ~BacklogFull
    BY <1>0, <1>5, <2>1, DirectoryUpdates DEF CreateCandidate, ChangeDir, BoundIInv, MayCreate
  <2>3. Published(dir') = Published(dir)
    BY <2>2 DEF Published
  <2>4. Cardinality(Published(dir)) < MaxPending
    BY <2>2, BacklogIsNat, BoundsAssumption DEF BacklogFull
  <2>5. \A d \in onDisk' : Cardinality(Published(d)) <= MaxPending
    BY <1>0, <2>2, <2>3 DEF BoundIInv
  <2> QED
    BY <2>1, <2>2, <2>3, <2>4, <2>5 DEF BoundIInv
<1>6. CASE WriteCandidate \/ SyncCandidate
  BY <1>6, <1>q DEF WriteCandidate, SyncCandidate, Goto
<1>7. CASE LinkCandidate
  <2>1. /\ msg \in Messages /\ new \in Inodes /\ pc = "synced" /\ pc' = "linked" /\ new' = new
        /\ ChangeDir(WithFinal(msg, new)) /\ dir.final[msg] = NoInode
    BY <1>7 DEF LinkCandidate, Goto, IInv, CandidatePrivate
  <2>2. /\ dir'.cand = dir.cand /\ dir'.final[msg] = new /\ onDisk' = onDisk \cup {dir'}
        /\ \A n \in Messages \ {msg} : dir'.final[n] = dir.final[n]
    BY <1>0, <2>1, DirectoryUpdates DEF ChangeDir
  <2>3. Published(dir') = Published(dir) \cup {msg} /\ msg \notin Published(dir)
    BY <2>1, <2>2 DEF Published, Inodes, NoInode
  <2>4. Cardinality(Published(dir) \cup {msg}) = Cardinality(Published(dir)) + 1
    BY <2>3, BacklogIsNat, FS_AddElement
  <2>5. Cardinality(Published(dir)) < MaxPending /\ dir.cand = {new}
    BY <2>1 DEF BoundIInv
  <2>6. Cardinality(Published(dir')) <= MaxPending
    BY <2>3, <2>4, <2>5, BacklogIsNat, BoundsAssumption
  <2> QED
    BY <1>0, <2>1, <2>2, <2>5, <2>6 DEF BoundIInv
<1>8. CASE SyncLinked
  <2>1. dir' = dir /\ onDisk' \subseteq onDisk /\ pc = "linked" /\ pc' = "registered" /\ new' = new
    BY <1>0, <1>8 DEF SyncLinked, SyncDir, Goto
  <2> QED
    BY <2>1 DEF BoundIInv
<1>9. CASE UnlinkCandidate
  <2>1. new \in Inodes /\ pc' = "unlinked"
    BY <1>9 DEF UnlinkCandidate, Goto, IInv, OperationNamed
  <2>2. dir'.cand = dir.cand \ {new} /\ dir'.final = dir.final /\ onDisk' = onDisk \cup {dir'}
    BY <1>0, <1>9, <2>1, DirectoryUpdates DEF UnlinkCandidate, ChangeDir
  <2>3. Published(dir') = Published(dir)
    BY <2>2 DEF Published
  <2> QED
    BY <2>1, <2>2, <2>3, FewerJobs DEF BoundIInv
<1>10. CASE Verify \/ SyncRemoved
  <2>1. dir' = dir /\ onDisk' \subseteq onDisk /\ pc' = "idle"
    BY <1>0, <1>10 DEF Verify, SyncRemoved, SyncDir, EndOperation
  <2> QED
    BY <2>1 DEF BoundIInv
<1>11. CASE RemoveJob
  <2>1. msg \in Messages /\ pc = "body" /\ pc' = "removed"
    BY <1>11 DEF RemoveJob, Goto, IInv, OperationNamed
  <2>2. /\ dir'.cand = dir.cand /\ dir'.final[msg] = NoInode /\ onDisk' = onDisk \cup {dir'}
        /\ \A n \in Messages \ {msg} : dir'.final[n] = dir.final[n]
    BY <1>0, <1>11, <2>1, DirectoryUpdates DEF RemoveJob, ChangeDir
  <2>3. Published(dir') \subseteq Published(dir)
    BY <2>1, <2>2 DEF Published
  <2> QED
    BY <2>1, <2>2, <2>3, FewerJobs DEF BoundIInv
<1>12. CASE LinkFault
  <2>1. new \in Inodes /\ pc' = "idle"
    BY <1>12 DEF LinkFault, Fail, EndOperation, IInv, CandidatePrivate
  <2>2. /\ dir'.cand = dir.cand \ {new} /\ dir'.final = dir.final
        /\ onDisk' \subseteq onDisk \cup {dir'}
    BY <1>0, <1>12, <2>1, DirectoryUpdates DEF LinkFault
  <2>3. Published(dir') = Published(dir)
    BY <2>2 DEF Published
  <2> QED
    BY <2>1, <2>2, <2>3, FewerJobs DEF BoundIInv
<1>13. CASE PowerLoss
  <2>1. dir' \in onDisk /\ onDisk' = {dir'} /\ pc' = "idle"
    BY <1>13 DEF PowerLoss, Die
  <2> QED
    BY <2>1 DEF BoundIInv
<1>14. ASSUME NEW m \in Messages, Overwrite(m) PROVE BoundIInv'
  <2>1. UNCHANGED <<dir, onDisk, pc, new>>
    BY <1>14 DEF Overwrite, Damaged
  <2> QED
    BY <2>1 DEF BoundIInv, Published
<1>15. ASSUME NEW m \in Messages, Delete(m) PROVE BoundIInv'
  <2>1. /\ dir'.cand = dir.cand /\ dir'.final[m] = NoInode /\ onDisk' = onDisk \cup {dir'}
        /\ \A n \in Messages \ {m} : dir'.final[n] = dir.final[n]
        /\ UNCHANGED <<pc, new>>
    BY <1>0, <1>15, DirectoryUpdates DEF Delete, ChangeDir, Damaged
  <2>2. Published(dir') \subseteq Published(dir)
    BY <2>1 DEF Published
  <2>3. /\ \A d \in onDisk' : Cardinality(Published(d)) <= MaxPending
        /\ \A d \in onDisk' : \A i, j \in d.cand : i = j
        /\ Cardinality(Published(dir')) <= Cardinality(Published(dir))
        /\ Cardinality(Published(dir')) \in Nat /\ Cardinality(Published(dir)) \in Nat
    BY <2>1, <2>2, FewerJobs
  <2>4. pc \in {"created", "written", "synced"} => Cardinality(Published(dir')) < MaxPending
    BY <2>3, BoundsAssumption DEF BoundIInv
  <2> QED
    BY <2>1, <2>3, <2>4 DEF BoundIInv
<1>16. CASE UNCHANGED vars
  BY <1>16 DEF vars, BoundIInv, Published
<1> QED
  BY <1>1, <1>2, <1>3, <1>4, <1>5, <1>6, <1>7, <1>8, <1>9, <1>10, <1>11, <1>12, <1>13, <1>14,
     <1>15, <1>16 DEF Next

-----------------------------------------------------------------------------
(***************************************************************************)
(* The index.                                                               *)
(***************************************************************************)

\* Every step keeps the operation under way in line with the process it belongs to.
LEMMA OperationKept == IInv /\ OperationState /\ [Next]_vars => OperationState'
  BY DEF OperationState, Next, vars, StartOperation, Begin, Requests, RecoverCandidate,
     FinishRecovery, Goto, OpenStart, OpenLoad, EndOperation, EnqueueExisting, EnqueueFull,
     CreateCandidate, WriteCandidate, SyncCandidate, LinkCandidate, SyncLinked, UnlinkCandidate,
     Verify, Read, RemoveJob, SyncRemoved, Reject, Fail, IoFault, LinkFault, Crash, Die, PowerLoss,
     Overwrite, Delete, Damaged, IInv, TypeOK

\* A registered record takes the place of a missing entry, and no entry is lost.
LEMMA RegisteredEntries ==
  ASSUME NEW records
  PROVE  \A m \in Messages :
           /\ records[m] # NoEntry => Registered(records)[m] = records[m]
           /\ records[m] = NoEntry => Registered(records)[m] = index[m]
           /\ index[m] # NoEntry => Registered(records)[m] # NoEntry
  BY DEF Registered

\* The index with the one record of m.
LEMMA OneRecord ==
  ASSUME NEW m \in Messages, NEW i
  PROVE  /\ Record(m, i)[m] = fileAt[i]
         /\ \A n \in Messages \ {m} : Record(m, i)[n] = NoEntry
  BY DEF Record, EmptyIndex

\* Every step keeps the file of an acknowledged job that the index has or will have.
LEMMA AckedFileKept == IInv /\ OperationState /\ AckedHasFile /\ [Next]_vars => AckedHasFile'
<1> SUFFICES ASSUME IInv, OperationState, AckedHasFile, [Next]_vars PROVE AckedHasFile'
  OBVIOUS
<1>0. /\ TypeOK /\ dir \in Directories /\ acked \subseteq Messages
      /\ \A m \in Messages : EmptyIndex[m] = NoEntry
  BY DEF IInv, TypeOK, EmptyIndex
<1>q. ASSUME UNCHANGED <<dir, index>>, acked' \subseteq acked,
             pc' \notin {"recover", "linked"} \/ (pc' = "recover" /\ UNCHANGED published /\ pc = "idle")
      PROVE  AckedHasFile'
  BY <1>0, <1>q DEF AckedHasFile, Exists, OperationState
<1>i. ASSUME index' = EmptyIndex, pc' = "idle", acked' = acked PROVE AckedHasFile'
  BY <1>0, <1>i DEF AckedHasFile
<1>1. CASE StartOperation \/ OpenStart
  BY <1>1, <1>q DEF StartOperation, Begin, OpenStart
<1>2. ASSUME NEW i \in Inodes, RecoverCandidate(i) PROVE AckedHasFile'
  <2>1. dir'.final = dir.final /\ UNCHANGED <<index, acked, pc>> /\ pc = "recover"
    BY <1>0, <1>2, DirectoryUpdates DEF RecoverCandidate, ChangeDir
  <2>2. \A m \in Messages : dir.final[m] = NoInode => published'[m] = published[m]
    BY <1>2 DEF RecoverCandidate, Inodes, NoInode
  <2> QED
    BY <1>0, <2>1, <2>2 DEF AckedHasFile, Exists
<1>3. CASE FinishRecovery
  <2>1. dir' = dir /\ UNCHANGED acked /\ pc = "recover" /\ pc' = "body"
    BY <1>3 DEF FinishRecovery, SyncDir, Goto
  <2>2. \A m \in Messages : published[m] = NoEntry => index'[m] = index[m]
    BY <1>3, RegisteredEntries DEF FinishRecovery
  <2> QED
    BY <1>0, <2>1, <2>2 DEF AckedHasFile, Exists
<1>4. CASE OpenLoad
  <2>1. /\ UNCHANGED <<dir, acked>> /\ pc' = "idle"
        /\ \A m \in Messages : ~Exists(m) => index'[m] = NoEntry
    BY <1>4 DEF OpenLoad, EndOperation, Published, Exists
  <2> QED
    BY <1>0, <2>1 DEF AckedHasFile, Exists
<1>5. CASE EnqueueExisting
  <2>1. /\ msg \in Messages /\ Exists(msg) /\ acked' = acked \cup {msg} /\ UNCHANGED dir
        /\ pc' = "idle" /\ index' = Registered(Record(msg, dir.final[msg]))
    BY <1>5 DEF EnqueueExisting, EndOperation, IInv, OperationNamed
  <2>2. \A n \in Messages \ {msg} : index'[n] = index[n]
    BY <2>1, OneRecord, RegisteredEntries
  <2> QED
    BY <1>0, <2>1, <2>2 DEF AckedHasFile, Exists
<1>6. CASE EnqueueFull \/ Read \/ Reject \/ IoFault \/ SyncRemoved
  BY <1>6, <1>q DEF EnqueueFull, Read, Reject, IoFault, SyncRemoved, Fail, EndOperation, SyncDir
<1>7. CASE CreateCandidate
  <2>1. PICK i \in Inodes : ChangeDir([dir EXCEPT !.cand = @ \cup {i}])
    BY <1>7 DEF CreateCandidate
  <2>2. dir'.final = dir.final /\ UNCHANGED <<index, acked>> /\ pc' = "created"
    BY <1>0, <1>7, <2>1, DirectoryUpdates DEF CreateCandidate, ChangeDir
  <2> QED
    BY <1>0, <2>2 DEF AckedHasFile, Exists
<1>8. CASE WriteCandidate \/ SyncCandidate
  BY <1>8, <1>q DEF WriteCandidate, SyncCandidate, Goto
<1>9. CASE LinkCandidate
  <2>1. msg \in Messages /\ new \in Inodes /\ msg' = msg
    BY <1>9 DEF LinkCandidate, Goto, IInv, CandidatePrivate
  <2>2. /\ dir'.final[msg] = new /\ \A n \in Messages \ {msg} : dir'.final[n] = dir.final[n]
        /\ UNCHANGED <<index, acked>> /\ pc' = "linked"
    BY <1>0, <1>9, <2>1, DirectoryUpdates DEF LinkCandidate, ChangeDir, Goto
  <2>3. new # NoInode
    BY <2>1 DEF Inodes, NoInode
  <2> QED
    BY <1>0, <2>1, <2>2, <2>3 DEF AckedHasFile, Exists
<1>10. CASE SyncLinked
  <2>1. /\ msg \in Messages /\ pc = "linked" /\ pc' = "registered" /\ UNCHANGED <<dir, acked>>
        /\ index' = Registered(Record(msg, new))
    BY <1>10 DEF SyncLinked, SyncDir, Goto, IInv, OperationNamed
  <2>2. \A n \in Messages \ {msg} : index'[n] = index[n]
    BY <2>1, OneRecord, RegisteredEntries
  <2> QED
    BY <1>0, <2>1, <2>2 DEF AckedHasFile, Exists
<1>11. CASE UnlinkCandidate
  <2>1. new \in Inodes
    BY <1>11 DEF UnlinkCandidate, IInv, OperationNamed
  <2>2. dir'.final = dir.final /\ UNCHANGED <<index, acked>> /\ pc' = "unlinked"
    BY <1>0, <1>11, <2>1, DirectoryUpdates DEF UnlinkCandidate, ChangeDir, Goto
  <2> QED
    BY <1>0, <2>2 DEF AckedHasFile, Exists
<1>12. CASE Verify
  <2>1. /\ UNCHANGED <<dir, index>> /\ acked' = acked \cup {msg} /\ pc' = "idle"
        /\ dir.final[msg] = new /\ new \in Inodes
    BY <1>12 DEF Verify, SyncDir, EndOperation, ReadBack, IInv, OperationNamed
  <2>2. dir.final[msg] # NoInode
    BY <2>1 DEF Inodes, NoInode
  <2> QED
    BY <1>0, <2>1, <2>2 DEF AckedHasFile, Exists
<1>13. CASE RemoveJob
  <2>1. msg \in Messages
    BY <1>13 DEF RemoveJob, IInv, OperationNamed
  <2>2. /\ \A n \in Messages \ {msg} : dir'.final[n] = dir.final[n] /\ index'[n] = index[n]
        /\ acked' = acked \ {msg} /\ pc' = "removed"
    BY <1>0, <1>13, <2>1, DirectoryUpdates DEF RemoveJob, ChangeDir, Goto, TypeOK
  <2> QED
    BY <1>0, <2>1, <2>2 DEF AckedHasFile, Exists
<1>14. CASE LinkFault
  <2>1. new \in Inodes
    BY <1>14 DEF LinkFault, IInv, CandidatePrivate
  <2>2. dir'.final = dir.final /\ UNCHANGED <<index, acked>> /\ pc' = "idle"
    BY <1>0, <1>14, <2>1, DirectoryUpdates DEF LinkFault, Fail, EndOperation
  <2> QED
    BY <1>0, <2>2 DEF AckedHasFile, Exists
<1>15. CASE Crash \/ PowerLoss
  BY <1>15, <1>i DEF Crash, PowerLoss, Die
<1>16. ASSUME NEW m \in Messages, Overwrite(m) PROVE AckedHasFile'
  BY <1>0, <1>16 DEF Overwrite, Damaged, AckedHasFile, Exists
<1>17. ASSUME NEW m \in Messages, Delete(m) PROVE AckedHasFile'
  <2>1. /\ \A n \in Messages \ {m} : dir'.final[n] = dir.final[n]
        /\ acked' = acked \ {m} /\ UNCHANGED <<index, pc, msg, published>>
    BY <1>0, <1>17, DirectoryUpdates DEF Delete, ChangeDir, Damaged
  <2> QED
    BY <1>0, <2>1 DEF AckedHasFile, Exists
<1>18. CASE UNCHANGED vars
  BY <1>18 DEF vars, AckedHasFile, Exists
<1> QED
  BY <1>1, <1>2, <1>3, <1>4, <1>5, <1>6, <1>7, <1>8, <1>9, <1>10, <1>11, <1>12, <1>13, <1>14,
     <1>15, <1>16, <1>17, <1>18 DEF Next

\* Every step keeps the index current, as long as nothing is damaged or cut short.
LEMMA IndexKept ==
  IInv /\ BoundIInv /\ OperationState /\ OperationState' /\ IndexCurrent /\ [Next]_vars => IndexCurrent'
<1> SUFFICES ASSUME IInv, BoundIInv, OperationState, OperationState', IndexCurrent, [Next]_vars,
                    up', damages' = 0, ~interrupted'
             PROVE  IndexCurrent'
  BY DEF IndexCurrent
<1>0. /\ TypeOK /\ dir \in Directories /\ dir \in onDisk
      /\ \A m \in Messages : EmptyIndex[m] = NoEntry
      /\ \A m \in Messages : dir.final[m] \in Inodes \cup {NoInode}
  BY DEF IInv, TypeOK, EmptyIndex, Directories
<1>f. \A m \in Messages : Exists(m) => Entry(m) = fileAt[dir.final[m]] /\ Entry(m) # NoEntry
  BY <1>0 DEF IInv, FinalSynced, Exists, Entry, Clock, NoEntry
<1>n. \A m \in Messages : ~Exists(m) => Entry(m) = NoEntry
  BY DEF Entry
\* Steps that leave the files and the index.
<1>e. ASSUME dir'.final = dir.final, fileAt' = fileAt PROVE \A m \in Messages : Entry(m)' = Entry(m)
  BY <1>e DEF Entry, Exists
<1>q. ASSUME up, damages = 0, ~interrupted, dir'.final = dir.final, UNCHANGED <<fileAt, index>>,
             pc' \in {"idle", "body", "created", "written", "synced", "unlinked", "removed"},
             pc \notin {"idle", "recover", "linked"},
             pc' = "unlinked" => pc = "registered" /\ UNCHANGED <<msg, new>>
      PROVE  IndexCurrent'
  BY <1>q, <1>e DEF IndexCurrent
<1>1. CASE StartOperation
  <2>1. /\ UNCHANGED <<dir, fileAt, index, published, up, damages, interrupted>>
        /\ pc = "idle" /\ pc' = "recover"
    BY <1>1 DEF StartOperation, Begin
  <2>2. \A m \in Messages : published[m] = NoEntry
    BY <1>0, <2>1 DEF OperationState
  <2> QED
    BY <1>e, <2>1, <2>2 DEF IndexCurrent
<1>2. ASSUME NEW i \in Inodes, RecoverCandidate(i) PROVE IndexCurrent'
  <2>1. /\ dir'.final = dir.final /\ dir'.cand = dir.cand \ {i} /\ pc = "recover" /\ pc' = "recover"
        /\ UNCHANGED <<fileAt, index, up, damages, interrupted>>
    BY <1>0, <1>2, DirectoryUpdates DEF RecoverCandidate, ChangeDir
  <2>2. \A m \in Messages : published'[m] = IF dir.final[m] = i THEN fileAt[i] ELSE published[m]
    BY <1>2 DEF RecoverCandidate
  <2>3. i # NoInode
    BY DEF Inodes, NoInode
  <2>4. ASSUME NEW m \in Messages
        PROVE  /\ \/ index'[m] = Entry(m)' \/ dir'.final[m] \in dir'.cand \/ published'[m] # NoEntry
               /\ published'[m] \in {NoEntry, Entry(m)'}
    <3>1. CASE dir.final[m] = i
      <4>1. published'[m] = Entry(m) /\ Entry(m) # NoEntry
        BY <1>f, <2>2, <2>3, <3>1 DEF Exists
      <4> QED
        BY <1>e, <2>1, <4>1
    <3>2. CASE dir.final[m] # i
      BY <1>e, <2>1, <2>2, <3>2 DEF IndexCurrent
    <3> QED
      BY <3>1, <3>2
  <2> QED
    BY <2>1, <2>4 DEF IndexCurrent
<1>3. CASE FinishRecovery
  <2>1. /\ dir' = dir /\ dir.cand = {} /\ pc = "recover" /\ pc' = "body"
        /\ UNCHANGED <<fileAt, up, damages, interrupted, op>>
    BY <1>3 DEF FinishRecovery, SyncDir, Goto
  <2>2. index' = Registered(published)
    BY <1>3, <2>1 DEF FinishRecovery, OperationState
  <2>3. ASSUME NEW m \in Messages PROVE index'[m] = Entry(m)'
    <3>1. index[m] = Entry(m) \/ published[m] # NoEntry
      BY <2>1 DEF IndexCurrent
    <3>2. published[m] \in {NoEntry, Entry(m)}
      BY <2>1 DEF IndexCurrent
    <3> QED
      BY <1>e, <2>1, <2>2, <3>1, <3>2, RegisteredEntries
  <2> QED
    BY <2>1, <2>3 DEF IndexCurrent
<1>4. CASE OpenStart
  BY <1>4 DEF OpenStart
<1>5. CASE OpenLoad
  <2>1. /\ UNCHANGED <<dir, fileAt>> /\ pc' = "idle"
        /\ \A m \in Messages : index'[m] = IF Exists(m) THEN fileAt[dir.final[m]] ELSE NoEntry
    BY <1>5 DEF OpenLoad, EndOperation, Published, Exists
  <2> QED
    BY <1>e, <2>1 DEF IndexCurrent, Entry
<1>6. CASE EnqueueExisting
  <2>1. /\ msg \in Messages /\ Exists(msg) /\ UNCHANGED <<dir, fileAt, up, damages, interrupted>>
        /\ pc = "body" /\ pc' = "idle" /\ index' = Registered(Record(msg, dir.final[msg]))
    BY <1>6 DEF EnqueueExisting, EndOperation, IInv, OperationNamed
  <2>2. /\ \A n \in Messages \ {msg} : index'[n] = index[n]
        /\ index'[msg] = Entry(msg)
    BY <1>f, <2>1, OneRecord, RegisteredEntries
  <2> QED
    BY <1>e, <2>1, <2>2 DEF IndexCurrent
<1>7. CASE EnqueueFull \/ Read
  <2>1. pc = "body" /\ pc' = "idle" /\ UNCHANGED <<dir, fileAt, index, up, damages, interrupted>>
    BY <1>7 DEF EnqueueFull, Read, EndOperation
  <2> QED
    BY <1>q, <2>1
<1>8. CASE Reject \/ IoFault
  <2>1. /\ UNCHANGED <<dir, fileAt, index, up, damages>> /\ pc' = "idle"
        /\ ~interrupted /\ ~InUnsyncedRecovery
    BY <1>8 DEF Reject, IoFault, Fail, EndOperation
  <2>2. ASSUME NEW m \in Messages, index[m] # Entry(m) PROVE dir.final[m] \in dir.cand
    <3>1. pc = "recover" => published[m] = NoEntry
      BY <1>0, <2>1 DEF InUnsyncedRecovery
    <3>2. CASE pc = "linked" /\ m = msg
      BY <2>1, <3>2 DEF IndexCurrent, BoundIInv
    <3> QED
      BY <2>1, <2>2, <3>1, <3>2 DEF IndexCurrent
  <2>3. \A m \in Messages : index'[m] = Entry(m)' \/ dir'.final[m] \in dir'.cand
    BY <1>e, <2>1, <2>2
  <2> QED
    BY <2>1, <2>3 DEF IndexCurrent
<1>9. CASE CreateCandidate
  <2>1. PICK i \in Inodes \ Referenced :
          /\ ChangeDir([dir EXCEPT !.cand = @ \cup {i}])
          /\ \E now \in Clock : fileAt' = [fileAt EXCEPT ![i] = now]
    BY <1>9 DEF CreateCandidate
  <2>a. dir'.final = dir.final
    BY <1>0, <2>1, DirectoryUpdates DEF ChangeDir
  <2>b. UNCHANGED <<index, up, damages, interrupted>> /\ pc = "body" /\ pc' = "created"
    BY <1>9 DEF CreateCandidate, procVars, faultVars
  <2>c. \A j \in Inodes \ {i} : fileAt'[j] = fileAt[j]
    BY <1>0, <2>1 DEF TypeOK
  <2>2. /\ dir'.final = dir.final /\ UNCHANGED <<index, up, damages, interrupted>>
        /\ pc = "body" /\ pc' = "created"
        /\ \A j \in Inodes \ {i} : fileAt'[j] = fileAt[j]
    BY <2>a, <2>b, <2>c
  <2>3. \A m \in Messages : dir.final[m] # i
    BY <1>0, <2>1 DEF Referenced, Linked
  <2>4. \A m \in Messages : Entry(m)' = Entry(m)
    BY <1>0, <2>2, <2>3 DEF Entry, Exists
  <2> QED
    BY <2>2, <2>4 DEF IndexCurrent
<1>10. CASE WriteCandidate \/ SyncCandidate
  <2>1. /\ pc \in {"created", "written"} /\ pc' \in {"written", "synced"}
        /\ UNCHANGED <<dir, fileAt, index, up, damages, interrupted>>
    BY <1>10 DEF WriteCandidate, SyncCandidate, Goto
  <2> QED
    BY <1>q, <2>1
<1>11. CASE LinkCandidate
  <2>1. msg \in Messages /\ new \in Inodes /\ UNCHANGED <<msg, new>> /\ pc = "synced"
    BY <1>11 DEF LinkCandidate, Goto, IInv, CandidatePrivate
  <2>a. dir'.final[msg] = new /\ \A n \in Messages \ {msg} : dir'.final[n] = dir.final[n]
    BY <1>0, <1>11, <2>1, DirectoryUpdates DEF LinkCandidate, ChangeDir
  <2>b. UNCHANGED <<fileAt, index, up, damages, interrupted>> /\ pc' = "linked"
    BY <1>11 DEF LinkCandidate, Goto, fileVars, procVars, faultVars
  <2>2. /\ dir'.final[msg] = new /\ \A n \in Messages \ {msg} : dir'.final[n] = dir.final[n]
        /\ UNCHANGED <<fileAt, index, up, damages, interrupted>> /\ pc' = "linked"
    BY <2>a, <2>b
  <2>3. \A n \in Messages \ {msg} : Entry(n)' = Entry(n)
    BY <2>2 DEF Entry, Exists
  <2> QED
    BY <2>1, <2>2, <2>3 DEF IndexCurrent
<1>12. CASE SyncLinked
  <2>1. /\ msg \in Messages /\ pc = "linked" /\ pc' = "registered"
        /\ UNCHANGED <<dir, fileAt, msg, new, up, damages, interrupted>>
        /\ index' = Registered(Record(msg, new)) /\ new \in Inodes
    BY <1>12 DEF SyncLinked, SyncDir, Goto, IInv, OperationNamed
  <2>2. dir.final[msg] = new /\ new # NoInode
    BY <2>1 DEF IndexCurrent, Inodes, NoInode
  <2>3. \A n \in Messages \ {msg} : index'[n] = index[n]
    BY <2>1, OneRecord, RegisteredEntries
  <2>4. index'[msg] = Entry(msg)
    BY <1>f, <2>1, <2>2, OneRecord, RegisteredEntries DEF Exists
  <2> QED
    BY <1>e, <2>1, <2>2, <2>3, <2>4 DEF IndexCurrent
<1>13. CASE UnlinkCandidate
  <2>1. new \in Inodes
    BY <1>13 DEF UnlinkCandidate, IInv, OperationNamed
  <2>2. /\ dir'.final = dir.final /\ UNCHANGED <<fileAt, index, msg, new, up, damages, interrupted>>
        /\ pc = "registered" /\ pc' = "unlinked"
    BY <1>0, <1>13, <2>1, DirectoryUpdates DEF UnlinkCandidate, ChangeDir, Goto
  <2> QED
    BY <1>q, <2>2
<1>14. CASE Verify \/ SyncRemoved
  <2>1. /\ UNCHANGED <<dir, fileAt, index, up, damages, interrupted>> /\ pc' = "idle"
        /\ pc \in {"unlinked", "removed"}
    BY <1>14 DEF Verify, SyncRemoved, SyncDir, EndOperation
  <2> QED
    BY <1>q, <2>1
<1>15. CASE RemoveJob
  <2>1. msg \in Messages
    BY <1>15 DEF RemoveJob, IInv, OperationNamed
  <2>2. /\ dir'.final[msg] = NoInode /\ index'[msg] = NoEntry
        /\ \A n \in Messages \ {msg} : dir'.final[n] = dir.final[n] /\ index'[n] = index[n]
        /\ UNCHANGED <<fileAt, msg, up, damages, interrupted>> /\ pc = "body" /\ pc' = "removed"
    <3>1. UNCHANGED <<fileAt, msg, up, damages, interrupted>> /\ pc = "body" /\ pc' = "removed"
      BY <1>15 DEF RemoveJob, Goto, fileVars, faultVars
    <3>2. dir'.final[msg] = NoInode /\ \A n \in Messages \ {msg} : dir'.final[n] = dir.final[n]
      BY <1>0, <1>15, <2>1, DirectoryUpdates DEF RemoveJob, ChangeDir
    <3>3. index'[msg] = NoEntry /\ \A n \in Messages \ {msg} : index'[n] = index[n]
      BY <1>0, <1>15, <2>1 DEF RemoveJob, TypeOK
    <3> QED
      BY <3>1, <3>2, <3>3
  <2>3. Entry(msg)' = NoEntry
    BY <2>1, <2>2 DEF Entry, Exists
  <2>4. \A n \in Messages \ {msg} : Entry(n)' = Entry(n)
    BY <2>2 DEF Entry, Exists
  <2>5. \A n \in Messages : index'[n] = Entry(n)'
    BY <2>1, <2>2, <2>3, <2>4 DEF IndexCurrent
  <2> QED
    BY <2>2, <2>5 DEF IndexCurrent
<1>16. CASE LinkFault
  <2>1. new \in Inodes /\ pc = "synced"
    BY <1>16 DEF LinkFault, IInv, CandidatePrivate
  <2>2. /\ dir'.final = dir.final /\ UNCHANGED <<fileAt, index, up, damages, interrupted>>
        /\ pc' = "idle"
    BY <1>0, <1>16, <2>1, DirectoryUpdates DEF LinkFault, Fail, EndOperation
  <2> QED
    BY <1>q, <2>1, <2>2
<1>17. CASE Crash \/ PowerLoss
  BY <1>17 DEF Crash, PowerLoss, Die
<1>18. ASSUME NEW m \in Messages, Overwrite(m) \/ Delete(m) PROVE FALSE
  <2>1. damages \in Nat
    BY <1>0 DEF TypeOK
  <2>2. damages' = damages + 1
    BY <1>18 DEF Overwrite, Delete, Damaged
  <2> QED
    BY <2>1, <2>2
<1>19. CASE UNCHANGED vars
  BY <1>19 DEF vars, IndexCurrent, Entry, Exists
<1> QED
  BY <1>1, <1>2, <1>3, <1>4, <1>5, <1>6, <1>7, <1>8, <1>9, <1>10, <1>11, <1>12, <1>13, <1>14,
     <1>15, <1>16, <1>17, <1>18, <1>19 DEF Next

-----------------------------------------------------------------------------
\* The inductive invariant holds in every reachable state.
THEOREM SpecIInv == Spec => []IInv
  BY InitIInv, NextIInv, PTL DEF Spec

\* The spool's variables keep their types, whatever fails and in whatever order.
THEOREM SpecTypeOK == Spec => []TypeOK
<1>1. IInv => TypeOK
  BY DEF IInv
<1> QED
  BY <1>1, SpecIInv, PTL

(***************************************************************************)
(* No acknowledged job is lost: after any number of crashes, power losses,  *)
(* failing file-system calls and damaged files, a job for which enqueue     *)
(* returned Ok is in every directory that may be found, complete, unless a  *)
(* recovery was cut short before its sync or the job itself was damaged.    *)
(***************************************************************************)
THEOREM AcknowledgedJobsSurvive == Spec => []AckedDurableUnlessInterrupted
<1>1. IInv => AckedDurableUnlessInterrupted
  BY DEF IInv, AckedStable, Stable, AckedDurableUnlessInterrupted, AckedDurable, Durable
<1> QED
  BY <1>1, SpecIInv, PTL

(***************************************************************************)
(* A final name never refers to a torn or unfinished record.                *)
(***************************************************************************)
THEOREM PublishedFilesAreWhole == Spec => []PublishedIsWhole
<1>1. IInv => PublishedIsWhole
  BY DEF IInv, FinalSynced, PublishedIsWhole
<1> QED
  BY <1>1, SpecIInv, PTL


\* The empty spool is within the bounds and its index is current.
LEMMA InitBoundIndex == Init => BoundIInv /\ IndexIInv
<1> SUFFICES ASSUME Init PROVE BoundIInv /\ IndexIInv
  OBVIOUS
<1>1. Published(EmptyDir) = {} /\ EmptyDir.cand = {}
  BY DEF Published, EmptyDir
<1>2. Cardinality(Published(EmptyDir)) = 0
  BY <1>1, FS_EmptySet
<1>3. BoundIInv
  BY <1>1, <1>2, BoundsAssumption DEF Init, BoundIInv
<1>4. IndexIInv
  BY DEF Init, IndexIInv, OperationState, AckedHasFile, IndexCurrent
<1> QED
  BY <1>3, <1>4

\* The bounds and the index are kept in every reachable state.
THEOREM SpecIndexIInv == Spec => [](IInv /\ BoundIInv /\ IndexIInv)
<1>1. IInv /\ BoundIInv /\ IndexIInv /\ [Next]_vars => (IInv /\ BoundIInv /\ IndexIInv)'
  <2> SUFFICES ASSUME IInv, BoundIInv, IndexIInv, [Next]_vars
               PROVE  IInv' /\ BoundIInv' /\ IndexIInv'
    OBVIOUS
  <2>1. IInv' /\ BoundIInv'
    BY NextIInv, NextBound
  <2>2. OperationState'
    BY OperationKept DEF IndexIInv
  <2>3. AckedHasFile' /\ IndexCurrent'
    BY <2>2, AckedFileKept, IndexKept DEF IndexIInv
  <2> QED
    BY <2>1, <2>2, <2>3 DEF IndexIInv
<1> QED
  BY <1>1, InitIInv, InitBoundIndex, PTL DEF Spec

(***************************************************************************)
(* No directory that may be found is refused for its size: it has at most   *)
(* MAX_PENDING_MESSAGE_JOBS jobs and at most one candidate, whatever order  *)
(* of faults and recoveries led to it.                                      *)
(***************************************************************************)
THEOREM DirectoriesAreBounded == Spec => []BacklogBounded
<1>1. IInv /\ BoundIInv => BacklogBounded
  <2> SUFFICES ASSUME BoundIInv, NEW d \in onDisk PROVE Cardinality(d.cand) <= 1
    BY DEF BoundIInv, BacklogBounded
  <2>1. CASE d.cand = {}
    <3>1. Cardinality(d.cand) = 0
      BY <2>1, FS_EmptySet
    <3> QED
      BY <3>1
  <2>2. CASE d.cand # {}
    <3>1. PICK i : i \in d.cand
      BY <2>2
    <3>2. d.cand = {i}
      BY <3>1 DEF BoundIInv
    <3>3. Cardinality({i}) = 1
      BY FS_Singleton
    <3> QED
      BY <3>2, <3>3
  <2> QED
    BY <2>1, <2>2
<1> QED
  BY <1>1, SpecIndexIInv, PTL

(***************************************************************************)
(* A failed operation does not wedge the spool: between operations every    *)
(* job without a candidate is indexed with its own timestamp, so            *)
(* checked_job_files_sync accepts the directory, unless a recovery was cut  *)
(* short or a file was damaged.                                             *)
(***************************************************************************)
THEOREM IndexIsTheDirectory == Spec => []NotWedgedUnlessInterrupted
<1>1. IndexIInv => NotWedgedUnlessInterrupted
  BY DEF IndexIInv, IndexCurrent, Entry, NotWedgedUnlessInterrupted, NotWedged, Unrecovered
<1> QED
  BY <1>1, SpecIndexIInv, PTL

(***************************************************************************)
(* A job whose file disappeared under the running process stays an          *)
(* integrity failure: no operation drops its entry or acknowledges it.      *)
(***************************************************************************)
THEOREM MissingFilesAreReported == Spec => MissingFileNotMasked
<1>1. ASSUME IInv, IndexIInv, [Next]_vars,
             NEW m \in Messages, up, up', index[m] # NoEntry, ~Exists(m)
      PROVE  index'[m] # NoEntry /\ m \notin acked'
  <2>0. m \notin acked /\ index \in [Messages -> Clock \cup {NoEntry}]
    BY <1>1 DEF IndexIInv, AckedHasFile, IInv, TypeOK
  <2>1. CASE UNCHANGED index /\ acked' \subseteq acked
    BY <1>1, <2>0, <2>1
  <2>2. CASE FinishRecovery
    <3>1. acked' = acked /\ index' \in {index, Registered(published)}
      BY <2>2 DEF FinishRecovery
    <3> QED
      BY <1>1, <2>0, <3>1, RegisteredEntries
  <2>3. CASE OpenLoad
    BY <1>1, <2>3 DEF OpenLoad, IndexIInv, OperationState
  <2>4. CASE EnqueueExisting
    <3>1. /\ Exists(msg) /\ acked' = acked \cup {msg}
          /\ index' = Registered(Record(msg, dir.final[msg]))
      BY <2>4 DEF EnqueueExisting
    <3> QED
      BY <1>1, <2>0, <3>1, RegisteredEntries
  <2>5. CASE SyncLinked
    <3>1. acked' = acked /\ index' = Registered(Record(msg, new))
      BY <2>5 DEF SyncLinked
    <3> QED
      BY <1>1, <2>0, <3>1, RegisteredEntries
  <2>6. CASE Verify
    <3>1. acked' = acked \cup {msg} /\ UNCHANGED index /\ dir.final[msg] = new /\ new \in Inodes
      BY <1>1, <2>6 DEF Verify, ReadBack, IInv, OperationNamed
    <3>2. Exists(msg)
      BY <3>1 DEF Exists, Inodes, NoInode
    <3> QED
      BY <1>1, <2>0, <3>1, <3>2
  <2>7. CASE RemoveJob
    <3>1. /\ Exists(msg) /\ acked' = acked \ {msg} /\ index' = [index EXCEPT ![msg] = NoEntry]
      BY <2>7 DEF RemoveJob
    <3> QED
      BY <1>1, <2>0, <3>1
  <2>8. CASE Crash \/ PowerLoss
    BY <1>1, <2>8 DEF Crash, PowerLoss, Die
  <2>9. CASE StartOperation \/ (\E i \in Inodes : RecoverCandidate(i)) \/ OpenStart \/ EnqueueFull
    BY <2>1, <2>9 DEF StartOperation, Begin, RecoverCandidate, OpenStart, EnqueueFull
  <2>10. CASE CreateCandidate \/ WriteCandidate \/ SyncCandidate \/ LinkCandidate \/ UnlinkCandidate
    BY <2>1, <2>10 DEF CreateCandidate, WriteCandidate, SyncCandidate, LinkCandidate, UnlinkCandidate
  <2>11. CASE Read \/ SyncRemoved \/ Reject \/ IoFault \/ LinkFault
    BY <2>1, <2>11 DEF Read, SyncRemoved, Reject, IoFault, LinkFault, Fail
  <2>12. CASE \E n \in Messages : Overwrite(n) \/ Delete(n)
    BY <2>1, <2>12 DEF Overwrite, Delete, Damaged
  <2>13. CASE UNCHANGED vars
    BY <2>1, <2>13 DEF vars
  <2> QED
    BY <1>1, <2>2, <2>3, <2>4, <2>5, <2>6, <2>7, <2>8, <2>9, <2>10, <2>11, <2>12, <2>13 DEF Next
<1>2. IInv /\ IndexIInv /\ [Next]_vars =>
        [\A m \in Messages : up /\ up' /\ index[m] # NoEntry /\ ~Exists(m)
            => index'[m] # NoEntry /\ m \notin acked']_vars
  BY <1>1
<1> QED
  BY <1>2, SpecIndexIInv, PTL DEF Spec, MissingFileNotMasked


-----------------------------------------------------------------------------
(***************************************************************************)
(* The spool implements the inbox.                                          *)
(***************************************************************************)

\* The assumption of the refinement: no recovery was cut short before its
\* sync, and nobody but the spool wrote to the directory.
Undisturbed == ~interrupted /\ damages = 0

\* The names in the directory are jobs of the inbox, and every accepted one is
\* in whatever directory may be found.
LEMMA AcceptedStayPublished ==
  ASSUME IInv, ~interrupted
  PROVE  \A d \in onDisk : Published(d) \in SUBSET Messages /\ acked \subseteq Published(d)
  BY DEF IInv, TypeOK, AckedStable, Stable, Published

\* JobInbox counts its jobs as the spool does.
LEMMA SameCount == \A S : Inbox!Cardinality(S) = Cardinality(S)
  BY DEF Inbox!Cardinality, Inbox!IsFiniteSet, Cardinality, IsFiniteSet

\* Every step of the spool is a step of the inbox or leaves the inbox alone.
LEMMA InboxStep ==
  IInv /\ BoundIInv /\ BoundIInv' /\ Undisturbed /\ Undisturbed' /\ [Next]_vars
    => [Inbox!Next]_(Inbox!inboxVars)
<1> SUFFICES ASSUME IInv, BoundIInv, BoundIInv', Undisturbed, Undisturbed', [Next]_vars
             PROVE  [Inbox!Next]_(Inbox!inboxVars)
  OBVIOUS
<1>0. TypeOK /\ dir \in Directories /\ dir \in onDisk
  BY DEF IInv, TypeOK
<1>s. ASSUME dir'.final = dir.final, acked' = acked PROVE [Inbox!Next]_(Inbox!inboxVars)
  BY <1>s DEF Inbox!inboxVars, Published
<1>1. CASE LinkCandidate
  <2>1. /\ msg \in Messages /\ new \in Inodes /\ dir.final[msg] = NoInode /\ acked' = acked
        /\ Cardinality(Published(dir)) < MaxPending
    BY <1>1 DEF LinkCandidate, IInv, CandidatePrivate, BoundIInv
  <2>2. dir'.final[msg] = new /\ \A n \in Messages \ {msg} : dir'.final[n] = dir.final[n]
    BY <1>0, <1>1, <2>1, DirectoryUpdates DEF LinkCandidate, ChangeDir
  <2>3. Published(dir') = Published(dir) \cup {msg} /\ msg \notin Published(dir)
    BY <2>1, <2>2 DEF Published, Inodes, NoInode
  <2>4. Inbox!Publish(msg)
    BY <2>1, <2>3, SameCount DEF Inbox!Publish
  <2> QED
    BY <2>1, <2>4 DEF Inbox!Next
<1>2. CASE EnqueueExisting
  <2>1. msg \in Messages /\ dir' = dir /\ acked' = acked \cup {msg} /\ msg \in Published(dir)
    BY <1>2 DEF EnqueueExisting, IInv, OperationNamed, Exists, Published
  <2>2. Inbox!Accept(msg)
    BY <2>1 DEF Inbox!Accept
  <2> QED
    BY <2>1, <2>2 DEF Inbox!Next
<1>3. CASE Verify
  <2>1. /\ msg \in Messages /\ new \in Inodes /\ dir' = dir /\ acked' = acked \cup {msg}
        /\ dir.final[msg] = new
    BY <1>3 DEF Verify, SyncDir, ReadBack, IInv, OperationNamed
  <2>2. msg \in Published(dir)
    BY <2>1 DEF Published, Inodes, NoInode
  <2>3. Inbox!Accept(msg)
    BY <2>1, <2>2 DEF Inbox!Accept
  <2> QED
    BY <2>1, <2>3 DEF Inbox!Next
<1>4. CASE RemoveJob
  <2>1. msg \in Messages /\ acked' = acked \ {msg} /\ msg \in Published(dir)
    BY <1>4 DEF RemoveJob, IInv, OperationNamed, Exists, Published
  <2>2. dir'.final[msg] = NoInode /\ \A n \in Messages \ {msg} : dir'.final[n] = dir.final[n]
    BY <1>0, <1>4, <2>1, DirectoryUpdates DEF RemoveJob, ChangeDir
  <2>3. Published(dir') = Published(dir) \ {msg}
    BY <2>1, <2>2 DEF Published
  <2>4. Inbox!Complete(msg)
    BY <2>1, <2>3 DEF Inbox!Complete
  <2> QED
    BY <2>1, <2>4 DEF Inbox!Next
<1>5. CASE PowerLoss
  <2>1. dir' \in onDisk /\ dir' \in onDisk' /\ acked' = acked
    BY <1>5 DEF PowerLoss
  <2>2. Published(dir') \in SUBSET Messages /\ acked \subseteq Published(dir')
    BY <2>1, AcceptedStayPublished DEF Undisturbed
  <2>3. Cardinality(Published(dir')) <= MaxPending
    BY <2>1 DEF BoundIInv
  <2>4. Inbox!Restart
    BY <2>1, <2>2, <2>3, SameCount DEF Inbox!Restart
  <2> QED
    BY <2>4 DEF Inbox!Next
<1>6. CASE StartOperation \/ OpenStart \/ OpenLoad \/ EnqueueFull \/ WriteCandidate \/ SyncCandidate
           \/ Read \/ Reject \/ IoFault \/ Crash
  BY <1>6, <1>s DEF StartOperation, Begin, OpenStart, OpenLoad, EnqueueFull, WriteCandidate,
     SyncCandidate, Read, Reject, IoFault, Crash
<1>7. CASE FinishRecovery \/ SyncLinked \/ SyncRemoved
  BY <1>7, <1>s DEF FinishRecovery, SyncLinked, SyncRemoved, SyncDir
<1>8. ASSUME NEW i \in Inodes, RecoverCandidate(i) PROVE [Inbox!Next]_(Inbox!inboxVars)
  <2>1. dir'.final = dir.final /\ acked' = acked
    BY <1>0, <1>8, DirectoryUpdates DEF RecoverCandidate, ChangeDir
  <2> QED
    BY <1>s, <2>1
<1>9. CASE CreateCandidate
  <2>1. PICK i \in Inodes : ChangeDir([dir EXCEPT !.cand = @ \cup {i}])
    BY <1>9 DEF CreateCandidate
  <2>2. dir'.final = dir.final /\ acked' = acked
    BY <1>0, <1>9, <2>1, DirectoryUpdates DEF CreateCandidate, ChangeDir
  <2> QED
    BY <1>s, <2>2
<1>10. CASE UnlinkCandidate \/ LinkFault
  <2>1. new \in Inodes
    BY <1>10 DEF UnlinkCandidate, LinkFault, IInv, OperationNamed, CandidatePrivate
  <2>2. dir' = WithoutCandidate(new) /\ acked' = acked
    BY <1>10 DEF UnlinkCandidate, LinkFault, ChangeDir
  <2>3. dir'.final = dir.final
    BY <1>0, <2>1, <2>2, DirectoryUpdates
  <2> QED
    BY <1>s, <2>2, <2>3
<1>11. ASSUME NEW m \in Messages, Overwrite(m) \/ Delete(m) PROVE FALSE
  <2>1. damages = 0 /\ damages' = 0
    BY DEF Undisturbed
  <2>2. damages' = damages + 1
    BY <1>11 DEF Overwrite, Delete, Damaged
  <2> QED
    BY <2>1, <2>2
<1>12. CASE UNCHANGED vars
  BY <1>12, <1>s DEF vars
<1> QED
  BY <1>1, <1>2, <1>3, <1>4, <1>5, <1>6, <1>7, <1>8, <1>9, <1>10, <1>11, <1>12 DEF Next

(***************************************************************************)
(* The spool is an at-least-once inbox: any interleaving of enqueue, remove *)
(* and recovery, with any number of failing calls, crashes and power losses *)
(* in between, is a behaviour of JobInbox, as long as no recovery is cut    *)
(* short before its sync and nobody else writes to the directory.           *)
(***************************************************************************)
THEOREM SpoolIsAnInbox == Spec /\ []Undisturbed => ImplementsInbox
<1>1. Init => Inbox!Init
  BY DEF Init, EmptyDir, Published, Inbox!Init
<1> QED
  BY <1>1, InboxStep, SpecIndexIInv, PTL DEF Spec, ImplementsInbox, Inbox!Spec
=============================================================================
