------------------------ MODULE JenkinsPrefetchProofs ------------------------
(***************************************************************************)
(* Proofs about the Jenkins evidence directories, for any number of         *)
(* attempts, processes, URLs and crashes.                                   *)
(***************************************************************************)
EXTENDS JenkinsPrefetch, FiniteSetTheorems, SequenceTheorems, TLAPS

(***************************************************************************)
(* The inductive invariant.                                                 *)
(***************************************************************************)

\* One log for each URL that was fetched, and none for the URL being fetched.
LogsCounted ==
  \A a \in Attempts :
    /\ Len(att[a].logs) <= att[a].urls
    /\ At(a, {"lock", "prune", "create", "fetch", "helper"}) =>
         Len(att[a].logs) < att[a].urls
    /\ At(a, {"load"}) => Len(att[a].logs) # 0

\* The setup lock excludes all other attempts from pruning and creating.
SetupExclusive == \A a \in Attempts : At(a, {"prune", "create"}) => lock = a

\* Nothing that the holder of the lock is about to remove is registered.
DoomedFree == doomed \cap active = {}

\* An attempt has no directory before its creation, and the removal of a dropped
\* guard belongs to an attempt that has ended.
DirectoryLife ==
  /\ \A a \in Attempts : At(a, {"idle", "lock", "prune", "create"}) => dir[a] = NoPid
  /\ \A a \in dropped : At(a, {"done"})

\* There is no excerpt before Codex answers.
QuoteLife == \A a \in Attempts : ~At(a, {"verify", "clean"}) => att[a].quote = NoQuote

PrefetchIInv ==
  /\ TypeOK
  /\ LogsCounted
  /\ SetupExclusive
  /\ DoomedFree
  /\ DirectoryLife
  /\ QuoteLife
  /\ EvidenceKept
  /\ QuotedFromFetched
  /\ DirectoriesAccounted

\* The scheduler's permits.
SlotsKept == Cardinality({a \in Attempts : At(a, Running)}) <= Slots

\* Once the holder of the lock has pruned the current root, there is room for its own
\* directory, whatever happens to the directories of the others until it is made.
RoomMade ==
  \A a \in Attempts :
    At(a, {"create"}) \/ (At(a, {"prune"}) /\ pid \notin unseen) =>
      Cardinality(Under(pid) \ doomed) < Retention + Slots

\* Nothing is doomed any more when the directory is made.
DoomedDone == \A a \in Attempts : At(a, {"create"}) => doomed = {}

BoundInv == SlotsKept /\ RoomMade /\ DoomedDone /\ RootBounded
-----------------------------------------------------------------------------
\* Before the first attempt there is no directory, and nothing to account for.
LEMMA InitPrefetch == Init => PrefetchIInv /\ BoundInv
<1> SUFFICES ASSUME Init PROVE PrefetchIInv /\ BoundInv
  OBVIOUS
<1> USE PrefetchAssumption
<1>1. Idle \in AttemptStates /\ Idle.pc = "idle" /\ Idle.quote = NoQuote
      /\ Idle.urls = 0 /\ Idle.logs = <<>>
  BY EmptySeq DEF Idle, Fresh, AttemptStates, NoQuote, Lines, Invented
<1>2. att \in [Attempts -> AttemptStates] /\ \A a \in Attempts : att[a] = Idle
  BY <1>1 DEF Init
<1>3. TypeOK /\ LogsCounted
  BY <1>1, <1>2 DEF Init, TypeOK, LogsCounted, At
<1>4. /\ SetupExclusive /\ DoomedFree /\ DirectoryLife /\ QuoteLife /\ EvidenceKept
      /\ QuotedFromFetched /\ DirectoriesAccounted
  BY <1>1, <1>2 DEF Init, SetupExclusive, DoomedFree, DirectoryLife, QuoteLife, EvidenceKept,
     QuotedFromFetched, DirectoriesAccounted, At, Guarded
<1>5. {a \in Attempts : At(a, Running)} = {} /\ \A p \in Pids : Under(p) = {}
  BY <1>1, <1>2 DEF Init, At, Running, Guarded, Under
<1>6. SlotsKept /\ RootBounded
  BY <1>5, FS_EmptySet DEF SlotsKept, RootBounded
<1>7. RoomMade /\ DoomedDone
  BY <1>1, <1>2 DEF RoomMade, DoomedDone, At
<1> QED
  BY <1>3, <1>4, <1>6, <1>7 DEF PrefetchIInv, BoundInv

-----------------------------------------------------------------------------
USE DEF hostVars, diskVars, setupVars, AttemptOnly

\* The values an attempt's record takes.
LEMMA FreshValue ==
  ASSUME NEW required \in BOOLEAN, NEW urls \in 0 .. MaxUrls,
         NEW pc \in {"idle", "done"} \cup Running
  PROVE  /\ Fresh(required, urls, pc) \in AttemptStates
         /\ Fresh(required, urls, pc).pc = pc
         /\ Fresh(required, urls, pc).urls = urls
         /\ Len(Fresh(required, urls, pc).logs) = 0
         /\ Fresh(required, urls, pc).quote = NoQuote
  BY PrefetchAssumption, EmptySeq DEF Fresh, AttemptStates, NoQuote, Lines, Invented

\* The record of an attempt that has ended.
LEMMA DoneValue ==
  Done \in AttemptStates /\ Done.pc = "done" /\ Len(Done.logs) = 0 /\ Done.urls = 0
  /\ Done.quote = NoQuote
  BY PrefetchAssumption, EmptySeq DEF Done, Fresh, AttemptStates, NoQuote, Lines, Invented

\* A step of an attempt changes the record of that attempt only.
LEMMA OwnRecord ==
  ASSUME TypeOK, NEW a \in Attempts, Step(a)
  PROVE  /\ att' = [att EXCEPT ![a] = att'[a]]
         /\ \A b \in Attempts \ {a} : att'[b] = att[b]
  BY DEF TypeOK, Step, Begin, EnsureBaseRoot, PruneDone, SetupFails, PruneRoot, PruneDir,
     CreateAttemptRoot, CreateFails, StartHelper, HelperEnds, LoadEvidence, HandOver,
     HelperTimesOut, PrefetchFails, CodexWrites, CodexAnswers, CodexFails, VerifyExcerpt,
     ReadFails, Clean, Panic, DropRemoves, Goto, Finish, GiveUp, WithoutQuote

\* Type correctness.
RecordInv(r) ==
  /\ r \in AttemptStates
  /\ Len(r.logs) <= r.urls
  /\ r.pc \in {"lock", "prune", "create", "fetch", "helper"} => Len(r.logs) < r.urls
  /\ r.pc = "load" => Len(r.logs) # 0

\* A step of an attempt changes its own record only, and keeps its type.
LEMMA RecordStep ==
  ASSUME PrefetchIInv, NEW a \in Attempts, Step(a)
  PROVE  RecordInv(att'[a])
<1>0. RecordInv(att[a])
  BY DEF PrefetchIInv, TypeOK, LogsCounted, RecordInv, At
<1> DEFINE r == att[a]
<1>f. att \in [Attempts -> AttemptStates]
  BY DEF PrefetchIInv, TypeOK
<1>g. ASSUME NEW pc \in Running,
             pc \in {"lock", "prune", "create", "fetch", "helper"} => Len(r.logs) < r.urls,
             pc = "load" => Len(r.logs) # 0,
             Goto(a, pc)
      PROVE  RecordInv(att'[a])
  <2>1. att'[a] = [r EXCEPT !.pc = pc]
    BY <1>f, <1>g DEF Goto
  <2> QED
    BY <2>1, <1>0, <1>g DEF RecordInv, AttemptStates
<1> USE PrefetchAssumption
<1>1. CASE Begin(a)
  <2>1. PICK required \in BOOLEAN, urls \in Indices :
          att' = [att EXCEPT ![a] = Fresh(required, urls, "lock")]
    BY <1>1 DEF Begin
  <2>2. att'[a] = Fresh(required, urls, "lock") /\ urls \in 0 .. MaxUrls /\ urls > 0
    BY <2>1, <1>f DEF Indices
  <2> QED
    BY <2>2, FreshValue DEF RecordInv, Running
<1>2. ASSUME Finish(a) PROVE RecordInv(att'[a])
  BY <1>2, <1>f, DoneValue DEF Finish, RecordInv
<1>3. ASSUME GiveUp(a) PROVE RecordInv(att'[a])
  <2>1. att'[a] = Fresh(r.required, 0, "clean")
    BY <1>3, <1>f DEF GiveUp
  <2>2. r.required \in BOOLEAN
    BY <1>f DEF AttemptStates
  <2> QED
    BY <2>1, <2>2, FreshValue DEF RecordInv, Running, Guarded
<1>4. ASSUME WithoutQuote(a) PROVE RecordInv(att'[a])
  <2>1. att'[a] = [r EXCEPT !.pc = "clean", !.quote = NoQuote]
    BY <1>4, <1>f DEF WithoutQuote
  <2>2. NoQuote \in [console : Consoles \cup {Nobody}, line : Lines]
    BY DEF NoQuote, Lines, Invented
  <2>3. att'[a] \in AttemptStates
    BY <2>1, <2>2, <1>0 DEF RecordInv, AttemptStates, Running, Guarded
  <2>4. att'[a].pc = "clean" /\ att'[a].logs = r.logs /\ att'[a].urls = r.urls
    BY <2>1, <1>0 DEF RecordInv, AttemptStates
  <2> QED
    BY <2>3, <2>4, <1>0 DEF RecordInv
<1>5. CASE UNCHANGED att
  BY <1>5, <1>0
<1>6. CASE EnsureBaseRoot(a) \/ PruneDone(a) \/ CreateAttemptRoot(a) \/ StartHelper(a)
  <2>1. \E pc \in {"prune", "create", "fetch", "helper"} : Goto(a, pc)
    BY <1>6 DEF EnsureBaseRoot, PruneDone, CreateAttemptRoot, StartHelper
  <2>2. r.pc \in {"lock", "prune", "create", "fetch", "helper"}
    BY <1>6 DEF EnsureBaseRoot, PruneDone, CreateAttemptRoot, StartHelper, At
  <2> QED
    BY <2>1, <2>2, <1>0, <1>g DEF RecordInv, Running, Guarded
<1>7. CASE HandOver(a) \/ CodexFails(a)
  BY <1>7, <1>g DEF HandOver, CodexFails, Running, Guarded
<1>8. CASE HelperEnds(a)
  <2>1. PICK log \in Logs :
          att' = [att EXCEPT ![a].logs = Append(@, log), ![a].pc = "load"]
    BY <1>8 DEF HelperEnds, Logs
  <2>2. att'[a] = [r EXCEPT !.logs = Append(@, log), !.pc = "load"]
    BY <2>1, <1>f
  <2>3. r.logs \in Seq(Logs) /\ r.urls \in 0 .. MaxUrls /\ Len(r.logs) < r.urls
    BY <1>8, <1>0 DEF HelperEnds, At, RecordInv, AttemptStates
  <2>4. Append(r.logs, log) \in Seq(Logs) /\ Len(Append(r.logs, log)) = Len(r.logs) + 1
        /\ Len(r.logs) \in Nat
    BY <2>3, AppendProperties, LenProperties
  <2>5. att'[a] \in AttemptStates
    BY <2>2, <2>4, <1>0 DEF RecordInv, AttemptStates, Running, Guarded
  <2>6. att'[a].pc = "load" /\ att'[a].logs = Append(r.logs, log) /\ att'[a].urls = r.urls
    BY <2>2, <1>0 DEF RecordInv, AttemptStates
  <2> QED
    BY <2>3, <2>4, <2>5, <2>6 DEF RecordInv
<1>9. CASE LoadEvidence(a)
  <2> DEFINE i == Len(r.logs)
             next == IF i < r.urls THEN "fetch" ELSE "ready"
  <2>1. PICK c \in Consoles :
          att' = [att EXCEPT ![a].pc = next,
                    ![a].evid = IF r.required /\ r.logs[i] = "log"
                                THEN Loaded(@, c, i) ELSE @]
    BY <1>9 DEF LoadEvidence
  <2>2. att'[a] = [r EXCEPT !.pc = next, !.evid = IF r.required /\ r.logs[i] = "log"
                                                  THEN Loaded(@, c, i) ELSE @]
    BY <2>1, <1>f
  <2>3. i \in 0 .. MaxUrls /\ r.evid \in [Consoles -> 0 .. MaxUrls]
    BY <1>0, LenProperties DEF RecordInv, AttemptStates
  <2>4. Loaded(r.evid, c, i) \in [Consoles -> 0 .. MaxUrls]
    BY <2>3 DEF Loaded
  <2> HIDE DEF i
  <2> QED
    BY <2>2, <2>3, <2>4, <1>0 DEF i, RecordInv, AttemptStates, Running, Guarded
<1>10. CASE \E i \in Indices : CodexWrites(a, i)
  <2>1. PICK i \in Indices : CodexWrites(a, i)
    BY <1>10
  <2>2. att'[a] = [r EXCEPT !.logs = [@ EXCEPT ![i] = "altered"]] /\ r.pc = "run"
    BY <2>1, <1>f DEF CodexWrites, At
  <2>3. r.logs \in Seq(Logs) /\ "altered" \in Logs
    BY <1>0 DEF RecordInv, AttemptStates, Logs
  <2>4. [r.logs EXCEPT ![i] = "altered"] \in Seq(Logs)
        /\ Len([r.logs EXCEPT ![i] = "altered"]) = Len(r.logs)
    <3>1. CASE i \in 1 .. Len(r.logs)
      BY <3>1, <2>3, ExceptSeq
    <3>2. CASE i \notin 1 .. Len(r.logs)
      <4>1. r.logs \in [1 .. Len(r.logs) -> Logs]
        BY <2>3, LenProperties
      <4>2. [r.logs EXCEPT ![i] = "altered"] = r.logs
        BY <3>2, <4>1
      <4> QED
        BY <4>2, <2>3
    <3> QED
      BY <3>1, <3>2
  <2> QED
    BY <2>2, <2>4, <1>0 DEF RecordInv, AttemptStates
<1>11. CASE CodexAnswers(a)
  <2>1. PICK c \in Consoles, line \in Lines :
         att' = [att EXCEPT ![a].pc = "verify", ![a].quote = [console |-> c, line |-> line]]
    BY <1>11 DEF CodexAnswers
  <2> DEFINE q == [console |-> c, line |-> line]
  <2>2. att'[a] = [r EXCEPT !.pc = "verify", !.quote = q]
    BY <2>1, <1>f
  <2>q. q \in [console : Consoles \cup {Nobody}, line : Lines]
    OBVIOUS
  <2> HIDE DEF q
  <2>3. att'[a] \in AttemptStates
    BY <2>2, <2>q, <1>0 DEF RecordInv, AttemptStates, Running, Guarded
  <2>4. att'[a].pc = "verify" /\ att'[a].logs = r.logs /\ att'[a].urls = r.urls
    BY <2>2, <1>0 DEF RecordInv, AttemptStates
  <2> QED
    BY <2>3, <2>4, <1>0 DEF RecordInv
<1>12. CASE VerifyExcerpt(a)
  BY <1>12, <1>4, <1>g DEF VerifyExcerpt, Running, Guarded
<1> QED
  BY <1>1, <1>2, <1>3, <1>4, <1>5, <1>6, <1>7, <1>8, <1>9, <1>10, <1>11, <1>12
  DEF Step, SetupFails, PruneRoot, PruneDir, CreateFails, HelperTimesOut, PrefetchFails,
      ReadFails, Clean, Panic, DropRemoves
\* Every step keeps the types, and the number of logs within the number of URLs.
LEMMA TypeStep == PrefetchIInv /\ [Next]_vars => TypeOK' /\ LogsCounted'
<1> SUFFICES ASSUME PrefetchIInv, [Next]_vars PROVE TypeOK' /\ LogsCounted'
  OBVIOUS
<1>0. TypeOK /\ LogsCounted /\ \A a \in Attempts : RecordInv(att[a])
  BY DEF PrefetchIInv, TypeOK, LogsCounted, RecordInv, At
<1>r. ASSUME att' \in [Attempts -> AttemptStates], \A a \in Attempts : RecordInv(att'[a])
      PROVE  (\A a \in Attempts : Len(att'[a].logs) <= MaxUrls) /\ LogsCounted'
  <2>1. ASSUME NEW a \in Attempts PROVE Len(att'[a].logs) <= MaxUrls
    BY <1>r, LenProperties, PrefetchAssumption DEF RecordInv, AttemptStates
  <2> QED
    BY <2>1, <1>r DEF LogsCounted, RecordInv, At
<1>1. CASE \E a \in Attempts : Step(a)
  <2>1. PICK a \in Attempts : Step(a)
    BY <1>1
  <2>2. att' = [att EXCEPT ![a] = att'[a]] /\ \A b \in Attempts \ {a} : att'[b] = att[b]
    BY <1>0, <2>1, OwnRecord
  <2>3. RecordInv(att'[a])
    BY <2>1, RecordStep
  <2>4. att' \in [Attempts -> AttemptStates] /\ \A b \in Attempts : RecordInv(att'[b])
    BY <1>0, <2>2, <2>3 DEF RecordInv, TypeOK
  <2>5. /\ pid' \in Pids /\ others' \subseteq Pids \ {pid'} /\ roots' \subseteq Pids
        /\ unseen' \subseteq Pids /\ crashes' \in 0 .. MaxCrashes
    BY <1>0, <2>1 DEF TypeOK, Step, Begin, EnsureBaseRoot, PruneDone, SetupFails, PruneRoot,
       PruneDir, CreateAttemptRoot, CreateFails, StartHelper, HelperEnds, LoadEvidence,
       HandOver, HelperTimesOut, PrefetchFails, CodexWrites, CodexAnswers, CodexFails,
       VerifyExcerpt, ReadFails, Clean, Panic, DropRemoves, GiveUp, Release
  <2>6. dir' \in [Attempts -> Pids \cup {NoPid}]
    BY <1>0, <2>1 DEF TypeOK, Step, Begin, EnsureBaseRoot, PruneDone, SetupFails, PruneRoot,
       PruneDir, CreateAttemptRoot, CreateFails, StartHelper, HelperEnds, LoadEvidence,
       HandOver, HelperTimesOut, PrefetchFails, CodexWrites, CodexAnswers, CodexFails,
       VerifyExcerpt, ReadFails, Clean, Panic, DropRemoves, GiveUp, Release
  <2>7. /\ active' \subseteq Attempts /\ lock' \in Attempts \cup {Nobody}
        /\ doomed' \subseteq Attempts /\ dropped' \subseteq Attempts /\ left' \subseteq Attempts
    BY <1>0, <2>1 DEF TypeOK, Step, Begin, EnsureBaseRoot, PruneDone, SetupFails, PruneRoot,
       PruneDir, CreateAttemptRoot, CreateFails, StartHelper, HelperEnds, LoadEvidence,
       HandOver, HelperTimesOut, PrefetchFails, CodexWrites, CodexAnswers, CodexFails,
       VerifyExcerpt, ReadFails, Clean, Panic, DropRemoves, GiveUp, Release, PrunableSets, Under
  <2> QED
    BY <1>r, <2>4, <2>5, <2>6, <2>7 DEF TypeOK
<1>2. CASE Crash
  <2>1. att' \in [Attempts -> AttemptStates] /\ \A b \in Attempts : RecordInv(att'[b])
    BY <1>0, <1>2, DoneValue DEF Crash, TypeOK, RecordInv
  <2> QED
    BY <1>0, <1>2, <1>r, <2>1, PrefetchAssumption DEF Crash, TypeOK, Release
<1>3. CASE \E p \in Pids : OtherProcess(p)
  BY <1>0, <1>3 DEF OtherProcess, TypeOK, LogsCounted, At
<1>4. CASE UNCHANGED vars
  BY <1>0, <1>4 DEF vars, TypeOK, LogsCounted, At
<1> QED
  BY <1>1, <1>2, <1>3, <1>4 DEF Next

-----------------------------------------------------------------------------
\* Which attempts hold a guard, what the holder of the lock may remove, and the excerpt.
LifeInv ==
  /\ SetupExclusive /\ DoomedFree /\ DirectoryLife /\ QuoteLife
  /\ EvidenceKept /\ QuotedFromFetched /\ DirectoriesAccounted

\* A step of an attempt keeps what relates its guard, its directory and its quote.
LEMMA AttemptLife ==
  ASSUME PrefetchIInv, NEW a \in Attempts, Step(a)
  PROVE  LifeInv'
<1>0. TypeOK /\ LifeInv /\ dropped \subseteq Attempts
  BY DEF PrefetchIInv, LifeInv, TypeOK
<1>f. att \in [Attempts -> AttemptStates] /\ dir \in [Attempts -> Pids \cup {NoPid}]
      /\ active \subseteq Attempts
  BY <1>0 DEF TypeOK
<1>o. \A b \in Attempts \ {a} : att'[b] = att[b]
  BY <1>0, OwnRecord
<1> USE PrefetchAssumption
    DEF LifeInv, SetupExclusive, DoomedFree, DirectoryLife, QuoteLife,
        EvidenceKept, QuotedFromFetched, DirectoriesAccounted, At, Guarded
<1>g. ASSUME NEW pc, Goto(a, pc)
      PROVE  att'[a].pc = pc /\ att'[a].quote = att[a].quote
             /\ att'[a].required = att[a].required /\ att'[a].evid = att[a].evid
  BY <1>f, <1>g DEF Goto, AttemptStates
<1>d. ASSUME Finish(a) PROVE att'[a] = Done /\ Done.pc = "done" /\ Done.quote = NoQuote
  BY <1>f, <1>d, DoneValue DEF Finish
<1>q. ASSUME att'[a].pc \notin {"verify", "clean"} => att'[a].quote = NoQuote,
             att'[a].pc = "clean" /\ att'[a].quote # NoQuote =>
               /\ att'[a].required /\ att'[a].quote.line # Invented
               /\ att'[a].quote.line = att'[a].evid[att'[a].quote.console]
      PROVE  QuoteLife' /\ QuotedFromFetched'
  BY <1>0, <1>o, <1>q
<1>1. CASE Begin(a)
  <2>1. att'[a].pc = "lock" /\ att'[a].quote = NoQuote
    BY <1>1, <1>f DEF Begin, Fresh
  <2> QED
    BY <1>0, <1>1, <1>o, <2>1 DEF Begin
<1>2. CASE EnsureBaseRoot(a)
  BY <1>0, <1>2, <1>o, <1>g DEF EnsureBaseRoot, TypeOK
<1>3. CASE PruneDone(a)
  <2>1. att[a].pc = "prune" /\ att'[a].pc = "create" /\ att'[a].quote = att[a].quote
    BY <1>3, <1>g DEF PruneDone
  <2>2. UNCHANGED <<pid, dir, left, lock, doomed, active, dropped>>
    BY <1>3 DEF PruneDone
  <2>p. QuoteLife' /\ QuotedFromFetched'
    BY <1>0, <2>1, <1>q
  <2> QED
    BY <2>p, <1>0, <1>o, <2>1, <2>2
<1>4. CASE SetupFails(a)
  <2>1. lock' = Nobody /\ \A b \in Attempts : ~(att'[b].pc \in {"prune", "create"})
    BY <1>0, <1>4, <1>o, <1>d DEF SetupFails, Release, TypeOK
  <2>2. a \notin active /\ att'[a].pc = "done" /\ dir[a] = NoPid /\ att'[a].quote = NoQuote
    BY <1>0, <1>4, <1>d DEF SetupFails
  <2>3. doomed' = {} /\ UNCHANGED <<active, dir, dropped, left, pid>>
    BY <1>4 DEF SetupFails, Release
  <2>p. QuoteLife' /\ QuotedFromFetched'
    BY <2>2, <1>q
  <2> QED
    BY <2>p, <1>0, <1>o, <2>1, <2>2, <2>3
<1>5. CASE \E p \in Pids : PruneRoot(a, p)
  <2>1. PICK p \in Pids : PruneRoot(a, p)
    BY <1>5
  <2>2. UNCHANGED <<att, active, lock, dropped, left, pid>>
    BY <2>1 DEF PruneRoot
  <2>3. \A b \in Attempts : dir'[b] = dir[b] \/ (dir[b] # pid /\ dir'[b] = NoPid)
    BY <2>1, <1>f DEF PruneRoot, ProcessMayBeRunning
  <2>4. DoomedFree'
    BY <1>0, <2>1, <2>2 DEF PruneRoot, PrunableSets
  <2> QED
    BY <1>0, <2>2, <2>3, <2>4 DEF TypeOK
<1>6. CASE \E b \in Attempts : PruneDir(a, b)
  <2>1. PICK b \in Attempts : PruneDir(a, b)
    BY <1>6
  <2>2. UNCHANGED <<att, active, lock, dropped, left, pid>>
    BY <2>1 DEF PruneDir
  <2>3. b \notin active /\ doomed' = doomed \ {b} /\ dir'[b] = NoPid
        /\ \A c \in Attempts \ {b} : dir'[c] = dir[c]
    BY <1>0, <2>1, <1>f DEF PruneDir
  <2> QED
    BY <1>0, <2>2, <2>3
<1>7. CASE CreateAttemptRoot(a)
  <2>1. att'[a].pc = "fetch" /\ att'[a].quote = NoQuote
    BY <1>0, <1>7, <1>g DEF CreateAttemptRoot
  <2>2. active' = active \cup {a} /\ dir'[a] = pid /\ doomed' = {} /\ lock = a
        /\ \A b \in Attempts \ {a} : dir'[b] = dir[b]
    BY <1>0, <1>7, <1>f DEF CreateAttemptRoot, Release
  <2>3. UNCHANGED <<dropped, left, pid>> /\ a \notin dropped
    BY <1>0, <1>7 DEF CreateAttemptRoot
  <2>p. QuoteLife' /\ QuotedFromFetched'
    BY <1>0, <2>1, <1>q
  <2> QED
    BY <2>p, <1>0, <1>o, <2>1, <2>2, <2>3
<1>8. CASE CreateFails(a)
  <2>1. att'[a].pc = "done" /\ att'[a].quote = NoQuote
    BY <1>8, <1>d DEF CreateFails
  <2>2. dropped' = dropped \cup {a} /\ doomed' = {} /\ lock = a
        /\ \A b \in Attempts \ {a} : dir'[b] = dir[b]
    BY <1>0, <1>8, <1>f DEF CreateFails, Release
  <2>3. UNCHANGED <<active, left, pid>> /\ a \notin active
    BY <1>0, <1>8 DEF CreateFails
  <2>p. QuoteLife' /\ QuotedFromFetched'
    BY <1>0, <2>1, <1>q
  <2> QED
    BY <2>p, <1>0, <1>o, <2>1, <2>2, <2>3
<1>a. ASSUME AttemptOnly, att[a].pc \in Guarded, att'[a].pc \in Guarded,
             att'[a].pc \notin {"verify", "clean"} => att'[a].quote = NoQuote,
             att'[a].pc = "clean" /\ att'[a].quote # NoQuote =>
               /\ att'[a].required /\ att'[a].quote.line # Invented
               /\ att'[a].quote.line = att'[a].evid[att'[a].quote.console]
      PROVE  LifeInv'
  <2>p. QuoteLife' /\ QuotedFromFetched'
    BY <1>a, <1>q
  <2> QED
    BY <2>p, <1>0, <1>o, <1>a
<1>9. CASE StartHelper(a)
  BY <1>0, <1>9, <1>a, <1>g DEF StartHelper
<1>10. CASE HelperEnds(a)
  <2>1. att[a].pc = "helper" /\ att'[a].pc = "load" /\ att'[a].quote = att[a].quote
    BY <1>10, <1>f DEF HelperEnds, AttemptStates
  <2> QED
    BY <1>0, <1>10, <1>a, <2>1 DEF HelperEnds
<1>11. CASE LoadEvidence(a)
  <2>1. att[a].pc = "load" /\ att'[a].pc \in {"fetch", "ready"}
        /\ att'[a].quote = att[a].quote
    BY <1>11, <1>f DEF LoadEvidence, AttemptStates
  <2> QED
    BY <1>0, <1>11, <1>a, <2>1 DEF LoadEvidence
<1>12. CASE HandOver(a)
  <2>1. att[a].pc = "ready" /\ att'[a].pc \in {"clean", "run"} /\ att'[a].quote = NoQuote
    BY <1>0, <1>12, <1>g DEF HandOver
  <2>2. active' = active /\ UNCHANGED <<dir, dropped, left, pid, lock, doomed>>
    BY <1>0, <1>12 DEF HandOver
  <2>p. QuoteLife' /\ QuotedFromFetched'
    BY <1>0, <2>1, <1>q
  <2> QED
    BY <2>p, <1>0, <1>o, <2>1, <2>2
<1>13. CASE HelperTimesOut(a) \/ PrefetchFails(a)
  <2>1. att[a].pc \in {"helper", "fetch", "load"} /\ GiveUp(a)
    BY <1>13 DEF HelperTimesOut, PrefetchFails
  <2>2. att'[a].pc = "clean" /\ att'[a].quote = NoQuote /\ AttemptOnly
    BY <1>f, <2>1 DEF GiveUp, Fresh
  <2> QED
    BY <1>a, <2>1, <2>2
<1>14. CASE \E i \in Indices : CodexWrites(a, i)
  <2>1. att[a].pc = "run" /\ att'[a].pc = "run" /\ att'[a].quote = att[a].quote
        /\ AttemptOnly
    BY <1>14, <1>f DEF CodexWrites, AttemptStates
  <2> QED
    BY <1>0, <1>a, <2>1
<1>15. CASE CodexAnswers(a)
  <2>1. att[a].pc = "run" /\ att'[a].pc = "verify" /\ AttemptOnly
    BY <1>15, <1>f DEF CodexAnswers, AttemptStates
  <2> QED
    BY <1>a, <2>1
<1>16. CASE CodexFails(a)
  BY <1>0, <1>16, <1>a, <1>g DEF CodexFails
<1>w. ASSUME att[a].pc = "verify", WithoutQuote(a), AttemptOnly PROVE LifeInv'
  <2>1. att'[a].pc = "clean" /\ att'[a].quote = NoQuote
    BY <1>w, <1>f DEF WithoutQuote, AttemptStates
  <2> QED
    BY <1>a, <1>w, <2>1
\* What is verified is the line of an unaltered log.
<1>v. ASSUME Verified(a)
      PROVE  /\ att[a].required /\ att[a].quote.line # Invented
             /\ att[a].quote.line = att[a].evid[att[a].quote.console]
  BY <1>v DEF Verified, HasLine, Invented
<1>17. CASE VerifyExcerpt(a)
  <2>1. CASE Verified(a)
    BY <1>0, <1>17, <2>1, <1>v, <1>g, <1>a DEF VerifyExcerpt
  <2>2. CASE ~Verified(a)
    BY <1>17, <2>2, <1>w DEF VerifyExcerpt
  <2> QED
    BY <2>1, <2>2
<1>18. CASE ReadFails(a)
  BY <1>18, <1>w DEF ReadFails
<1>19. CASE Clean(a)
  <2>1. att[a].pc = "clean" /\ att'[a].pc = "done" /\ att'[a].quote = NoQuote
    BY <1>19, <1>d DEF Clean
  <2>2. active' = active \ {a} /\ (dir'[a] = NoPid \/ a \in left') /\ left \subseteq left'
        /\ \A b \in Attempts \ {a} : dir'[b] = dir[b]
    BY <1>19, <1>f DEF Clean
  <2>3. UNCHANGED <<dropped, doomed, lock, pid>>
    BY <1>19 DEF Clean
  <2>p. QuoteLife' /\ QuotedFromFetched'
    BY <1>0, <2>1, <1>q
  <2> QED
    BY <2>p, <1>0, <1>o, <2>1, <2>2, <2>3
<1>20. CASE Panic(a)
  <2>1. att[a].pc \in Guarded /\ att'[a].pc = "done" /\ att'[a].quote = NoQuote
    BY <1>20, <1>d DEF Panic
  <2>2. active' = active \ {a} /\ dropped' = dropped \cup {a}
        /\ UNCHANGED <<dir, left, doomed, lock, pid>>
    BY <1>20 DEF Panic
  <2>p. QuoteLife' /\ QuotedFromFetched'
    BY <1>0, <2>1, <1>q
  <2> QED
    BY <2>p, <1>0, <1>o, <2>1, <2>2
<1>21. CASE DropRemoves(a)
  <2>1. att[a].pc = "done" /\ dropped' = dropped \ {a} /\ left \subseteq left'
        /\ (dir'[a] = NoPid \/ a \in left') /\ \A b \in Attempts \ {a} : dir'[b] = dir[b]
    BY <1>0, <1>21, <1>f DEF DropRemoves
  <2>2. UNCHANGED <<active, att, doomed, lock, pid>>
    BY <1>21 DEF DropRemoves
  <2> QED
    BY <1>0, <2>1, <2>2
<1> QED
  BY <1>1, <1>2, <1>3, <1>4, <1>5, <1>6, <1>7, <1>8, <1>9, <1>10, <1>11, <1>12, <1>13, <1>14,
     <1>15, <1>16, <1>17, <1>18, <1>19, <1>20, <1>21 DEF Step

\* Every step of the specification preserves the inductive invariant.
LEMMA NextPrefetch == PrefetchIInv /\ [Next]_vars => PrefetchIInv'
<1> SUFFICES ASSUME PrefetchIInv, [Next]_vars PROVE LifeInv'
  BY TypeStep DEF PrefetchIInv, LifeInv
<1>0. TypeOK /\ LifeInv
  BY DEF PrefetchIInv, LifeInv
<1>1. ASSUME NEW a \in Attempts, Step(a) PROVE LifeInv'
  BY <1>1, AttemptLife
<1>2. CASE Crash
  <2>1. \A a \in Attempts : att'[a] = Done \/ (att'[a] = att[a] /\ att[a].pc \in {"idle", "done"})
    <3>1. \A a \in Attempts : att[a].pc \in {"idle", "done"} \cup Running
      BY <1>0 DEF TypeOK, AttemptStates
    <3> QED
      BY <1>2, <3>1 DEF Crash, At
  <2>2. \A a \in Attempts : ~(att'[a].pc \in Running)
    BY <2>1, DoneValue DEF Running, Guarded
  <2>3. \A a \in Attempts : att'[a].quote = NoQuote
    BY <1>0, <2>1, DoneValue DEF LifeInv, QuoteLife, At
  <2>4. active' = {} /\ dropped' = {} /\ doomed' = {} /\ dir' = dir
        /\ left' = left \cup {a \in Attempts : dir[a] # NoPid}
    BY <1>2 DEF Crash, Release
  <2>5. SetupExclusive' /\ DoomedFree' /\ QuoteLife' /\ QuotedFromFetched' /\ EvidenceKept'
    BY <2>2, <2>3, <2>4 DEF SetupExclusive, DoomedFree, QuoteLife, QuotedFromFetched,
       EvidenceKept, At, Running
  <2>6. DirectoryLife'
    BY <1>0, <2>1, <2>4, DoneValue DEF LifeInv, DirectoryLife, At
  <2>7. DirectoriesAccounted'
    BY <2>2, <2>4 DEF DirectoriesAccounted, At, Running
  <2> QED
    BY <2>5, <2>6, <2>7 DEF LifeInv
<1>3. CASE \E p \in Pids : OtherProcess(p)
  BY <1>0, <1>3 DEF OtherProcess, LifeInv, SetupExclusive, DoomedFree, DirectoryLife, QuoteLife,
     EvidenceKept, QuotedFromFetched, DirectoriesAccounted, At
<1>4. CASE UNCHANGED vars
  BY <1>0, <1>4 DEF vars, LifeInv, SetupExclusive, DoomedFree, DirectoryLife, QuoteLife,
     EvidenceKept, QuotedFromFetched, DirectoriesAccounted, At
<1> QED
  BY <1>1, <1>2, <1>3, <1>4 DEF Next

-----------------------------------------------------------------------------
(***************************************************************************)
(* The number of directories.                                               *)
(***************************************************************************)

\* A subset of a finite set is no larger.
LEMMA CardinalityMonotone ==
  ASSUME NEW S, NEW T, IsFiniteSet(T), S \subseteq T
  PROVE  /\ IsFiniteSet(S) /\ Cardinality(S) \in Nat /\ Cardinality(T) \in Nat
         /\ Cardinality(S) <= Cardinality(T)
  BY FS_Subset, FS_CardinalityType

\* A union is no larger than its parts together.
LEMMA UnionBound ==
  ASSUME NEW S, NEW T, IsFiniteSet(S), IsFiniteSet(T)
  PROVE  IsFiniteSet(S \cup T) /\ Cardinality(S \cup T) <= Cardinality(S) + Cardinality(T)
<1>1. IsFiniteSet(S \cap T)
  BY FS_Intersection
<1>2. Cardinality(S) \in Nat /\ Cardinality(T) \in Nat /\ Cardinality(S \cap T) \in Nat
  BY <1>1, FS_CardinalityType
<1>3. /\ IsFiniteSet(S \cup T)
      /\ Cardinality(S \cup T) = Cardinality(S) + Cardinality(T) - Cardinality(S \cap T)
  BY FS_Union
<1> QED
  BY <1>2, <1>3

\* Adding one element adds at most one to the size.
LEMMA OneMore ==
  ASSUME NEW S, IsFiniteSet(S), NEW x, NEW T, T \subseteq S \cup {x}
  PROVE  /\ Cardinality(S) \in Nat /\ Cardinality(T) \in Nat
         /\ Cardinality(T) <= Cardinality(S) + 1
<1>1. /\ IsFiniteSet(S \cup {x})
      /\ Cardinality(S \cup {x}) = IF x \in S THEN Cardinality(S) ELSE Cardinality(S) + 1
  BY FS_AddElement
<1>2. /\ Cardinality(T) \in Nat /\ Cardinality(S \cup {x}) \in Nat
      /\ Cardinality(T) <= Cardinality(S \cup {x})
  BY <1>1, CardinalityMonotone
<1>3. Cardinality(S) \in Nat
  BY FS_CardinalityType
<1> QED
  BY <1>1, <1>2, <1>3

\* The pruning leaves at most the retained directories, and those in use.
LEMMA PruningMakesRoom ==
  ASSUME PrefetchIInv, SlotsKept, NEW a \in Attempts, At(a, {"prune"}),
         NEW d \in PrunableSets
  PROVE  Cardinality(Under(pid) \ d) < Retention + Slots
<1> DEFINE free == Under(pid) \ active
           R == {b \in Attempts : At(b, Running)}
<1>1. IsFiniteSet(Attempts) /\ Slots \in Nat /\ Slots > 0 /\ Retention \in Nat
  BY PrefetchAssumption
<1>2. IsFiniteSet(free) /\ IsFiniteSet(R) /\ IsFiniteSet(active) /\ IsFiniteSet(Under(pid))
  BY <1>1, CardinalityMonotone DEF PrefetchIInv, TypeOK, Under
<1>3. d \subseteq free /\ Cardinality(d) = Excess(free)
  BY DEF PrunableSets
<1>4. Cardinality(free) \in Nat /\ Cardinality(active) \in Nat /\ Cardinality(R) \in Nat
  BY <1>2, FS_CardinalityType
<1>5. IsFiniteSet(free \ d) /\ Cardinality(free \ d) = Cardinality(free) - Cardinality(d)
  <2>1. free \cap d = d
    BY <1>3
  <2> QED
    BY <1>2, <2>1, FS_Difference
<1>6. Cardinality(free \ d) <= Retention
  BY <1>1, <1>3, <1>4, <1>5 DEF Excess
<1>7. Cardinality(active) < Slots
  <2>1. active \subseteq R \ {a} /\ a \in R
    BY DEF PrefetchIInv, DirectoriesAccounted, At, Running, Guarded
  <2>2. Cardinality(R \ {a}) = Cardinality(R) - 1 /\ IsFiniteSet(R \ {a})
    BY <1>2, <2>1, FS_RemoveElement
  <2> QED
    BY <1>1, <1>4, <2>1, <2>2, CardinalityMonotone DEF SlotsKept
<1>10. Cardinality(free \ d) \in Nat
  BY <1>5, FS_CardinalityType
<1>8. /\ IsFiniteSet((free \ d) \cup active)
      /\ Cardinality((free \ d) \cup active) <= Cardinality(free \ d) + Cardinality(active)
  BY <1>2, <1>5, UnionBound
<1>9. Under(pid) \ d \subseteq (free \ d) \cup active
  OBVIOUS
<1> QED
  BY <1>1, <1>4, <1>6, <1>7, <1>8, <1>9, <1>10, CardinalityMonotone

\* Every step of the specification preserves the bounds.
LEMMA NextBound == PrefetchIInv /\ PrefetchIInv' /\ BoundInv /\ [Next]_vars => BoundInv'
<1> SUFFICES ASSUME PrefetchIInv, PrefetchIInv', BoundInv, [Next]_vars PROVE BoundInv'
  OBVIOUS
<1>a. IsFiniteSet(Attempts) /\ Slots \in Nat /\ Slots > 0 /\ Retention \in Nat
  BY PrefetchAssumption
<1>f. att \in [Attempts -> AttemptStates] /\ dir \in [Attempts -> Pids \cup {NoPid}]
      /\ pid \in Pids
  BY DEF PrefetchIInv, TypeOK
<1>u. \A p : /\ IsFiniteSet(Under(p)) /\ Cardinality(Under(p)) \in Nat
             /\ IsFiniteSet(Under(p) \ doomed) /\ Cardinality(Under(p) \ doomed) \in Nat
  <2>1. \A p : Under(p) \subseteq Attempts /\ Under(p) \ doomed \subseteq Attempts
    BY DEF Under
  <2> QED
    BY <1>a, <2>1, CardinalityMonotone
<1> DEFINE R == {b \in Attempts : At(b, Running)}
<1>r. IsFiniteSet(R) /\ Cardinality(R) \in Nat
  BY <1>a, CardinalityMonotone
\* A step that makes no directory and begins no attempt.
<1>k. ASSUME R' \subseteq R, \A p \in Pids : Under(p)' \subseteq Under(p) PROVE SlotsKept' /\ RootBounded'
  <2>1. Cardinality(R') <= Cardinality(R) /\ Cardinality(R') \in Nat
    BY <1>k, <1>r, CardinalityMonotone
  <2>2. \A p \in Pids : /\ Cardinality(Under(p)') <= Cardinality(Under(p))
                        /\ Cardinality(Under(p)') \in Nat
    BY <1>k, <1>u, CardinalityMonotone
  <2>3. Cardinality(R) <= Slots /\ \A p \in Pids : Cardinality(Under(p)) <= Retention + Slots
    BY DEF BoundInv, SlotsKept, RootBounded
  <2>4. Cardinality(R') <= Slots
    BY <1>a, <1>r, <2>1, <2>3
  <2>5. \A p \in Pids : Cardinality(Under(p)') <= Retention + Slots
    <3> TAKE p \in Pids
    <3>1. Cardinality(Under(p)) \in Nat /\ Cardinality(Under(p)) <= Retention + Slots
      BY <1>u, <2>3
    <3> QED
      BY <1>a, <2>2, <3>1
  <2> QED
    BY <2>4, <2>5 DEF SlotsKept, RootBounded
\* Nobody is past its pruning after a step that releases the lock.
<1>l. ASSUME lock' = Nobody PROVE RoomMade' /\ DoomedDone'
  <2>1. \A b \in Attempts : ~(att'[b].pc \in {"prune", "create"})
    BY <1>l, PrefetchAssumption DEF PrefetchIInv, SetupExclusive, At
  <2> QED
    BY <2>1 DEF RoomMade, DoomedDone, At
\* A step after which the holder of the lock has no less room than before.
<1>m. ASSUME (Under(pid) \ doomed)' \subseteq Under(pid) \ doomed,
             \A b \in Attempts :
               At(b, {"create"})' \/ (At(b, {"prune"})' /\ pid' \notin unseen') =>
                 \E c \in Attempts : At(c, {"create"}) \/ (At(c, {"prune"}) /\ pid \notin unseen)
      PROVE  RoomMade'
  <2>1. /\ Cardinality((Under(pid) \ doomed)') <= Cardinality(Under(pid) \ doomed)
        /\ Cardinality((Under(pid) \ doomed)') \in Nat
    BY <1>m, <1>u, CardinalityMonotone
  <2>2. ASSUME NEW c \in Attempts, At(c, {"create"}) \/ (At(c, {"prune"}) /\ pid \notin unseen)
        PROVE  Cardinality((Under(pid) \ doomed)') < Retention + Slots
    <3>1. Cardinality(Under(pid) \ doomed) < Retention + Slots
      BY <2>2 DEF BoundInv, RoomMade
    <3> QED
      BY <1>a, <1>u, <2>1, <3>1
  <2> QED
    BY <1>m, <2>2 DEF RoomMade
\* A step that neither lists, prunes nor makes directories.
<1>s. ASSUME UNCHANGED <<pid, unseen, doomed>>, Under(pid)' \subseteq Under(pid),
             \A b \in Attempts : att'[b].pc \in {"prune", "create"} => att'[b].pc = att[b].pc
      PROVE  RoomMade' /\ DoomedDone'
  <2>1. (Under(pid) \ doomed)' \subseteq Under(pid) \ doomed
    BY <1>s
  <2>2. RoomMade'
    BY <1>m, <1>s, <2>1 DEF At
  <2>3. DoomedDone'
    BY <1>s DEF At, BoundInv, DoomedDone
  <2> QED
    BY <2>2, <2>3
<1>1. CASE \E a \in Attempts : Step(a)
  <2>0. PICK a \in Attempts : Step(a)
    BY <1>1
  <2>o. \A b \in Attempts \ {a} : att'[b] = att[b]
    BY <2>0, OwnRecord DEF PrefetchIInv
  <2>p. \A pc : Goto(a, pc) => att'[a].pc = pc
    BY <1>f DEF Goto, AttemptStates
  <2>e. Finish(a) => att'[a].pc = "done"
    BY <1>f, DoneValue DEF Finish
  <2>1. CASE Begin(a)
    <3>1. att'[a].pc = "lock" /\ UNCHANGED <<dir, pid, unseen, doomed>> /\ Cardinality(R) < Slots
      BY <2>1, <1>f DEF Begin, Fresh
    <3>2. R' \subseteq R \cup {a}
      BY <2>o DEF At
    <3>3. Cardinality(R') <= Slots
      <4>1. Cardinality(R') \in Nat /\ Cardinality(R') <= Cardinality(R) + 1
        BY <1>r, <3>2, OneMore
      <4> QED
        BY <1>a, <1>r, <3>1, <4>1
    <3>4. RootBounded'
      BY <3>1 DEF BoundInv, RootBounded, Under
    <3>5. RoomMade' /\ DoomedDone'
      BY <1>s, <2>o, <3>1 DEF Under
    <3> QED
      BY <3>3, <3>4, <3>5 DEF BoundInv, SlotsKept
  \* All other steps leave the attempts under way, or fewer.
  <2>r. ASSUME att[a].pc \in Running PROVE R' \subseteq R
    BY <2>o, <2>r DEF At
  <2>2. CASE EnsureBaseRoot(a)
    <3>1. att[a].pc = "lock" /\ att'[a].pc = "prune" /\ UNCHANGED <<dir, pid>>
          /\ pid' \in unseen' /\ doomed' = {} /\ lock' = a
      BY <2>2, <2>p DEF EnsureBaseRoot, At
    <3>2. SlotsKept' /\ RootBounded'
      BY <1>k, <2>r, <3>1 DEF Under, Running
    <3>3. \A b \in Attempts : att'[b].pc \in {"prune", "create"} => b = a
      BY <3>1 DEF PrefetchIInv, SetupExclusive, At
    <3>4. RoomMade' /\ DoomedDone'
      BY <3>1, <3>3 DEF RoomMade, DoomedDone, At
    <3> QED
      BY <3>2, <3>4 DEF BoundInv
  <2>3. CASE PruneDone(a)
    <3>1. att[a].pc = "prune" /\ att'[a].pc = "create" /\ doomed = {} /\ unseen = {}
          /\ UNCHANGED <<dir, pid, unseen, doomed>>
      BY <2>3, <2>p DEF PruneDone, At
    <3>2. SlotsKept' /\ RootBounded'
      BY <1>k, <2>r, <3>1 DEF Under, Running
    <3>3. (Under(pid) \ doomed)' = Under(pid) \ doomed
      BY <3>1 DEF Under
    <3>4. RoomMade'
      BY <1>m, <3>1, <3>3 DEF At
    <3> QED
      BY <3>1, <3>2, <3>4 DEF BoundInv, DoomedDone
  <2>4. CASE \E p \in Pids : PruneRoot(a, p)
    <3>1. PICK p \in Pids : PruneRoot(a, p)
      BY <2>4
    <3>2. att[a].pc = "prune" /\ UNCHANGED <<att, pid, lock>> /\ lock = a
      BY <3>1 DEF PruneRoot, PrefetchIInv, SetupExclusive, At
    <3>3. \A q \in Pids : Under(q)' \subseteq Under(q)
      BY <1>f, <3>1, PrefetchAssumption DEF PruneRoot, Under
    <3>4. SlotsKept' /\ RootBounded'
      BY <1>k, <3>2, <3>3 DEF At
    <3>5. DoomedDone'
      BY <3>2 DEF DoomedDone, PrefetchIInv, SetupExclusive, At
    <3>6. CASE p = pid
      <4>1. doomed' \in PrunableSets /\ dir' = dir
        BY <3>1, <3>6 DEF PruneRoot, ProcessMayBeRunning
      <4>2. Cardinality(Under(pid) \ doomed') < Retention + Slots
        BY <3>2, <4>1, PruningMakesRoom DEF BoundInv, At
      <4>3. (Under(pid) \ doomed)' = Under(pid) \ doomed'
        BY <3>2, <4>1 DEF Under
      <4> QED
        BY <3>4, <3>5, <4>2, <4>3 DEF BoundInv, RoomMade
    <3>7. CASE p # pid
      <4>1. doomed' = doomed /\ unseen' = unseen \ {p}
        BY <3>1, <3>7 DEF PruneRoot
      <4>2. (Under(pid) \ doomed)' \subseteq Under(pid) \ doomed
        BY <1>f, <3>2, <3>3, <4>1
      <4>3. RoomMade'
        BY <1>m, <3>2, <3>7, <4>1, <4>2 DEF At
      <4> QED
        BY <3>4, <3>5, <4>3 DEF BoundInv
    <3> QED
      BY <3>6, <3>7
  <2>5. CASE \E b \in Attempts : PruneDir(a, b)
    <3>1. PICK b \in Attempts : PruneDir(a, b)
      BY <2>5
    <3>2. att[a].pc = "prune" /\ UNCHANGED <<att, pid, unseen, lock>> /\ lock = a
          /\ doomed' = doomed \ {b}
      BY <3>1 DEF PruneDir, PrefetchIInv, SetupExclusive, At
    <3>3. \A q \in Pids : Under(q)' \subseteq Under(q) \ {b}
      BY <1>f, <3>1, PrefetchAssumption DEF PruneDir, Under
    <3>4. SlotsKept' /\ RootBounded'
      BY <1>k, <3>2, <3>3 DEF At
    <3>5. DoomedDone'
      BY <3>2 DEF DoomedDone, PrefetchIInv, SetupExclusive, At
    <3>6. (Under(pid) \ doomed)' \subseteq Under(pid) \ doomed
      BY <1>f, <3>2, <3>3
    <3>7. RoomMade'
      BY <1>m, <3>2, <3>6 DEF At
    <3> QED
      BY <3>4, <3>5, <3>7 DEF BoundInv
  <2>6. CASE CreateAttemptRoot(a) \/ CreateFails(a)
    <3>1. att[a].pc = "create" /\ lock' = Nobody /\ UNCHANGED pid
      BY <2>6 DEF CreateAttemptRoot, CreateFails, Release, At
    <3>2. \A p \in Pids : Under(p)' \subseteq IF p = pid THEN Under(p) \cup {a} ELSE Under(p)
      BY <1>f, <2>6 DEF CreateAttemptRoot, CreateFails, Under
    <3>3. Cardinality(Under(pid)) < Retention + Slots
      <4>1. doomed = {} /\ Cardinality(Under(pid) \ doomed) < Retention + Slots
        BY <3>1 DEF BoundInv, RoomMade, DoomedDone, At
      <4>2. Under(pid) \ doomed = Under(pid)
        BY <4>1
      <4> QED
        BY <4>1, <4>2
    <3>4. ASSUME NEW p \in Pids PROVE Cardinality(Under(p)') <= Retention + Slots
      <4>1. CASE p = pid
        <5>1. Under(p)' \subseteq Under(p) \cup {a}
          BY <3>2, <4>1
        <5>2. Cardinality(Under(p)') \in Nat /\ Cardinality(Under(p)') <= Cardinality(Under(p)) + 1
          BY <1>u, <5>1, OneMore
        <5>3. Cardinality(Under(p)) < Retention + Slots /\ Cardinality(Under(p)) \in Nat
          BY <1>u, <3>3, <4>1
        <5> QED
          BY <1>a, <5>2, <5>3
      <4>2. CASE p # pid
        <5>1. Cardinality(Under(p)) <= Retention + Slots /\ Under(p)' \subseteq Under(p)
          BY <3>2, <4>2 DEF BoundInv, RootBounded
        <5>2. /\ Cardinality(Under(p)') <= Cardinality(Under(p))
              /\ Cardinality(Under(p)') \in Nat /\ Cardinality(Under(p)) \in Nat
          BY <1>u, <5>1, CardinalityMonotone
        <5> QED
          BY <1>a, <5>1, <5>2
      <4> QED
        BY <4>1, <4>2
    <3>5. Cardinality(R') <= Cardinality(R) /\ Cardinality(R') \in Nat
      BY <1>r, <2>r, <3>1, CardinalityMonotone DEF Running
    <3>6. SlotsKept'
      BY <1>a, <1>r, <3>5 DEF BoundInv, SlotsKept
    <3>7. RootBounded'
      BY <3>4 DEF RootBounded
    <3> QED
      BY <1>l, <3>1, <3>6, <3>7 DEF BoundInv
  <2>7. CASE SetupFails(a)
    <3>1. att[a].pc \in {"lock", "prune"} /\ lock' = Nobody /\ UNCHANGED dir
      BY <2>7 DEF SetupFails, Release, At
    <3> QED
      BY <1>k, <1>l, <2>r, <3>1 DEF Running, Under, BoundInv
  <2>8. CASE StartHelper(a) \/ HelperEnds(a) \/ LoadEvidence(a) \/ HandOver(a)
             \/ HelperTimesOut(a) \/ PrefetchFails(a) \/ (\E i \in Indices : CodexWrites(a, i))
             \/ CodexAnswers(a) \/ CodexFails(a) \/ VerifyExcerpt(a) \/ ReadFails(a)
             \/ Clean(a) \/ Panic(a)
    <3>1. att[a].pc \in Guarded /\ UNCHANGED <<pid, lock, unseen, doomed>>
      BY <2>8 DEF StartHelper, HelperEnds, LoadEvidence, HandOver, HelperTimesOut,
         PrefetchFails, CodexWrites, CodexAnswers, CodexFails, VerifyExcerpt, ReadFails, Clean,
         Panic, GiveUp, At, Guarded
    <3>2. \A p \in Pids : Under(p)' \subseteq Under(p)
      BY <2>8, <1>f, PrefetchAssumption DEF StartHelper, HelperEnds, LoadEvidence, HandOver,
         HelperTimesOut, PrefetchFails, CodexWrites, CodexAnswers, CodexFails, VerifyExcerpt,
         ReadFails, Clean, Panic, GiveUp, Under
    <3>3. att'[a].pc \in Guarded \cup {"done"}
      <4>1. CASE StartHelper(a) \/ HandOver(a) \/ CodexFails(a) \/ Clean(a) \/ Panic(a)
        BY <4>1, <2>p, <2>e DEF StartHelper, HandOver, CodexFails, Clean, Panic, Guarded
      <4>2. CASE HelperEnds(a)
        BY <4>2, <1>f DEF HelperEnds, AttemptStates, Guarded
      <4>6. CASE LoadEvidence(a)
        BY <4>6, <1>f DEF LoadEvidence, AttemptStates, Guarded
      <4>7. CASE CodexAnswers(a)
        BY <4>7, <1>f DEF CodexAnswers, AttemptStates, Guarded
      <4>3. CASE HelperTimesOut(a) \/ PrefetchFails(a)
        BY <4>3, <1>f DEF HelperTimesOut, PrefetchFails, GiveUp, Fresh, Guarded
      <4>4. CASE \E i \in Indices : CodexWrites(a, i)
        BY <4>4, <3>1, <1>f DEF CodexWrites, AttemptStates
      <4>5. CASE VerifyExcerpt(a) \/ ReadFails(a)
        BY <4>5, <2>p, <1>f DEF VerifyExcerpt, ReadFails, WithoutQuote, AttemptStates, Guarded
      <4> QED
        BY <2>8, <4>1, <4>2, <4>3, <4>4, <4>5, <4>6, <4>7
    <3> QED
      BY <1>k, <1>s, <2>o, <2>r, <1>f, <3>1, <3>2, <3>3 DEF Running, Guarded, BoundInv
  <2>9. CASE DropRemoves(a)
    <3>1. UNCHANGED <<att, pid, unseen, doomed>>
      BY <2>9 DEF DropRemoves
    <3>2. \A p \in Pids : Under(p)' \subseteq Under(p)
      BY <2>9, <1>f, PrefetchAssumption DEF DropRemoves, Under
    <3> QED
      BY <1>k, <1>s, <1>f, <3>1, <3>2 DEF BoundInv, At
  <2> QED
    BY <2>0, <2>1, <2>2, <2>3, <2>4, <2>5, <2>6, <2>7, <2>8, <2>9 DEF Step
<1>2. CASE Crash
  <2>1. R' \subseteq R /\ \A p \in Pids : Under(p)' \subseteq Under(p)
    BY <1>2, DoneValue DEF Crash, Under, At, Running, Guarded
  <2> QED
    BY <1>2, <1>k, <1>l, <2>1 DEF Crash, Release, BoundInv
<1>3. CASE \E p \in Pids : OtherProcess(p)
  <2>1. UNCHANGED <<pid, unseen, doomed, att, dir>>
    BY <1>3 DEF OtherProcess
  <2> QED
    BY <1>k, <1>s, <2>1 DEF Under, At, BoundInv
<1>4. CASE UNCHANGED vars
  BY <1>k, <1>s, <1>4 DEF vars, Under, At, BoundInv
<1> QED
  BY <1>1, <1>2, <1>3, <1>4 DEF Next

-----------------------------------------------------------------------------
(***************************************************************************)
(* The theorems.                                                            *)
(***************************************************************************)

\* The inductive invariant holds in every state of the prefetch, the pruning and the
\* removals of dropped guards, for any number of attempts and directories.
THEOREM PrefetchInvariant == Spec => [](PrefetchIInv /\ BoundInv)
<1>1. PrefetchIInv /\ BoundInv /\ [Next]_vars => (PrefetchIInv /\ BoundInv)'
  BY NextPrefetch, NextBound
<1> QED
  BY InitPrefetch, <1>1, PTL DEF Spec

\* ACTIVE_JENKINS_ARTIFACT_DIRS holds exactly the directories of the attempts with a
\* guard, and a directory that outlives its attempt is known to be left, whichever calls
\* fail and whenever the bot dies.
THEOREM DirectoriesStayAccounted == Spec => []PrefetchInv
<1>1. PrefetchIInv => PrefetchInv
  BY DEF PrefetchIInv, PrefetchInv
<1> QED
  BY PrefetchInvariant, <1>1, PTL

\* prune_jenkins_artifact_dirs and the removals of dropped guards never take the
\* directory of an attempt that still works in it.
THEOREM EvidenceIsKept == Spec => []EvidenceKept
<1>1. PrefetchIInv => EvidenceKept
  BY DEF PrefetchIInv
<1> QED
  BY PrefetchInvariant, <1>1, PTL

\* verified_jenkins_excerpt lets no excerpt through that is not a line of the log fetched
\* for its console URL.
THEOREM ExcerptsAreFetched == Spec => []QuotedFromFetched
<1>1. PrefetchIInv => QuotedFromFetched
  BY DEF PrefetchIInv
<1> QED
  BY PrefetchInvariant, <1>1, PTL

\* No process root ever holds more than the retention limit and one directory for each
\* worker permit.
THEOREM RootsAreBounded == Spec => []RootBounded
<1>1. BoundInv => RootBounded
  BY DEF BoundInv
<1> QED
  BY PrefetchInvariant, <1>1, PTL
=============================================================================
