--------------------------- MODULE ActivationProofs ---------------------------
(***************************************************************************)
(* Proofs about activation receipts and the reboot challenge, for any       *)
(* number of helpers, deployments, boots, kills and failed writes.          *)
(***************************************************************************)
EXTENDS ActivationRenewal, TLAPS

(***************************************************************************)
(* The inductive invariant.                                                 *)
(***************************************************************************)

Fields   == {"pc", "cmd", "exe", "cand", "got", "rec"}
Renewing == {"ensure", "renew"}

\* Every process has a record of its state.
Shape ==
  /\ proc = [p \in Procs |-> proc[p]]
  /\ \A p \in Procs : proc[p] = [f \in Fields |-> proc[p][f]]

\* Which command may be at which step, and which steps are taken under the lock.
Locked == {"begin", "marked", "invalidate", "abort"} \cup CanarySteps \cup CommitSteps

StepAllowed(p) ==
  LET pc == proc[p].pc  cmd == proc[p].cmd IN
  \/ pc \in {"idle", "exit"}
  \/ pc = "verified"  /\ cmd \in {"ensure", "service"}
  \/ pc \in VerifySteps /\ cmd = IF p = Service THEN "service" ELSE "ensure"
  \/ pc = "lock" /\ p # Service /\ cmd \in Renewing \cup {"prepare"}
  \/ pc = "preactivation" /\ p # Service /\ cmd \in {"prepare", "dry_run"}
  \/ pc \in {"cand", "cand_check", "challenge"} /\ p # Service
       /\ cmd \in Renewing \cup {"prepare", "dry_run"}
  \/ pc = "marked" /\ p # Service /\ cmd \in Renewing \cup {"prepare"}
  \/ pc \in Locked \ {"marked"} /\ p # Service /\ cmd \in Renewing

LockHeld(p) ==
  \/ proc[p].pc \in Locked
  \/ proc[p].pc \in {"preactivation", "cand", "cand_check", "challenge"} /\ proc[p].cmd # "dry_run"

\* The candidate is a binding of this boot, and so is what a receipt is written from.
CandidateOf(p) ==
  /\ proc[p].pc \in {"challenge", "marked"} \cup CanarySteps \cup CommitSteps =>
       proc[p].cand \in Bindings /\ proc[p].cand.boot = boot
  /\ proc[p].pc \in {"write", "rename"} => proc[p].rec \in Bindings

\* What a process that is about to write a challenge knows of the one it replaces.
MarkedOf(p) ==
  proc[p].pc = "marked" =>
    /\ proc[p].rec.marker \in markers
    /\ proc[p].rec.validated = (challenge # None)
    /\ challenge # None => /\ challenge.files = proc[p].cand.files /\ challenge.boot < boot
                           /\ proc[p].cmd \in Renewing

EarlierArmed(b) == \E a \in armed : a.boot < b.boot /\ a.files = b.files

\* The canaries run, and the receipt is written, for a candidate that crossed a reboot.
CanaryOf(p) ==
  /\ proc[p].pc \in CanarySteps => EarlierArmed(proc[p].cand)
  /\ proc[p].pc \in CommitSteps => proc[p].cand \in tested

TypedOf(p) ==
  /\ proc[p].cand \in Bindings \cup {None} /\ proc[p].got \in Bindings \cup {None}
  /\ proc[p].exe \in 0 .. MaxVersions

\* Only the holder of the lock is between taking it and its exit.
Local(p) ==
  /\ TypedOf(p) /\ StepAllowed(p) /\ (LockHeld(p) => lock = p)
  /\ CandidateOf(p) /\ MarkedOf(p) /\ CanaryOf(p)

GlobalTypes ==
  /\ boot \in 1 .. MaxBoots /\ files \in FileVersions /\ receipt \in Bindings \cup {None}
  /\ lock \in Helpers \cup {None} /\ (lock # None => proc[lock].pc # "idle")
  /\ faults \in 0 .. MaxFaults /\ tested \subseteq Bindings /\ armed \subseteq Bindings
  /\ exposed \in BOOLEAN /\ unmarked \in BOOLEAN

\* A challenge was written for a binding, and a validated one followed an earlier one.
ChallengeInv ==
  challenge # None =>
    /\ challenge.boot \in 1 .. boot /\ challenge.files \in FileVersions
    /\ challenge.validated \in BOOLEAN
    /\ [boot |-> challenge.boot, files |-> challenge.files] \in armed
    /\ challenge.validated => EarlierArmed(challenge)

ActivationIInv ==
  /\ GlobalTypes /\ Shape
  /\ \A p \in Procs : Local(p)
  /\ ChallengeInv
  /\ TestedAfterReboot
  /\ ChallengeHasMarker
  /\ UnearnedReceiptShortLived
  /\ NoReceiptDuringCanaries
  /\ AdmittedRunsReceiptExecutable

-----------------------------------------------------------------------------
(***************************************************************************)
(* How a step changes the record of a process.                              *)
(***************************************************************************)

\* The step of p leaves the other processes alone.
Alone(p) == Shape' /\ \A q \in Procs \ {p} : proc'[q] = proc[q]

\* Goto moves the process to another step and changes nothing else of it.
LEMMA GotoEffect ==
  ASSUME Shape, NEW p \in Procs, NEW pc, Goto(p, pc)
  PROVE  /\ Alone(p) /\ proc'[p].pc = pc /\ proc'[p].cmd = proc[p].cmd
         /\ proc'[p].exe = proc[p].exe /\ proc'[p].cand = proc[p].cand
         /\ proc'[p].got = proc[p].got /\ proc'[p].rec = proc[p].rec
  BY DEF Shape, Goto, Alone, Fields

\* Pass moves the process on and forgets what it has loaded.
LEMMA PassEffect ==
  ASSUME Shape, NEW p \in Procs, NEW pc, Pass(p, pc)
  PROVE  /\ Alone(p) /\ proc'[p].pc = pc /\ proc'[p].cmd = proc[p].cmd
         /\ proc'[p].exe = proc[p].exe /\ proc'[p].cand = proc[p].cand
         /\ proc'[p].got = None /\ proc'[p].rec = None
  BY DEF Shape, Pass, Alone, Fields

\* A load moves the process on and keeps what it has loaded.
LEMMA LoadEffect ==
  ASSUME Shape, NEW p \in Procs, NEW pc, NEW got,
         proc' = [proc EXCEPT ![p].pc = pc, ![p].got = got]
  PROVE  /\ Alone(p) /\ proc'[p].pc = pc /\ proc'[p].cmd = proc[p].cmd
         /\ proc'[p].exe = proc[p].exe /\ proc'[p].cand = proc[p].cand
         /\ proc'[p].got = got /\ proc'[p].rec = proc[p].rec
  BY DEF Shape, Alone, Fields

-----------------------------------------------------------------------------
\* The host before the first activation satisfies the inductive invariant.
LEMMA InitActivation == Init => ActivationIInv
<1> SUFFICES ASSUME Init PROVE ActivationIInv
  OBVIOUS
<1> USE ActivationAssumption
<1>1. Shape /\ \A p \in Procs : proc[p] = Idle
  BY DEF Init, Shape, Idle, Fields
<1>2. Idle.pc = "idle" /\ Idle.cand = None /\ Idle.got = None /\ Idle.exe = 0
  BY DEF Idle
<1>3. \A p \in Procs : Local(p)
  BY <1>1, <1>2 DEF Local, TypedOf, StepAllowed, LockHeld, CandidateOf, MarkedOf, CanaryOf,
     Locked, CanarySteps, CommitSteps
<1>4. GlobalTypes
  <2>1. 1 \in 1 .. MaxBoots /\ 1 \in 1 .. MaxVersions /\ 0 \in 0 .. MaxFaults
    OBVIOUS
  <2> QED
    BY <2>1 DEF Init, GlobalTypes, FileVersions
<1>5. /\ ChallengeInv /\ TestedAfterReboot /\ ChallengeHasMarker /\ UnearnedReceiptShortLived
      /\ NoReceiptDuringCanaries /\ AdmittedRunsReceiptExecutable
  BY <1>1, <1>2 DEF Init, ChallengeInv, TestedAfterReboot, ChallengeHasMarker, Procs,
     UnearnedReceiptShortLived, NoReceiptDuringCanaries, AdmittedRunsReceiptExecutable
<1> QED
  BY <1>1, <1>3, <1>4, <1>5 DEF ActivationIInv

-----------------------------------------------------------------------------
(***************************************************************************)
(* The steps of one process.                                                *)
(***************************************************************************)

\* What the other processes know stays true as long as the lock excludes them from
\* what the step changes.
LEMMA OthersLocal ==
  ASSUME ActivationIInv, NEW q \in Procs, proc'[q] = proc[q], boot' = boot,
         armed \subseteq armed', tested \subseteq tested', LockHeld(q) => lock' = q,
         proc[q].pc = "marked" => challenge' = challenge /\ markers \subseteq markers'
  PROVE  Local(q)'
<1>1. Local(q)
  BY DEF ActivationIInv
<1>2. TypedOf(q)' /\ StepAllowed(q)' /\ (LockHeld(q) => lock = q)'
  BY <1>1 DEF Local, TypedOf, StepAllowed, LockHeld
<1>3. CandidateOf(q)' /\ MarkedOf(q)' /\ CanaryOf(q)'
  BY <1>1 DEF Local, CandidateOf, MarkedOf, CanaryOf, EarlierArmed
<1> QED
  BY <1>2, <1>3 DEF Local

\* An error leads to an exit, or under the lock to the removal of the receipt.
LEMMA FailEffect ==
  ASSUME ActivationIInv, NEW p \in Procs, Fail(p), lock' = lock
  PROVE  /\ Alone(p) /\ Local(p)'
         /\ proc'[p].pc \in {"lock", "invalidate", "abort", "exit"}
         /\ proc[p].pc \in CommitSteps => proc'[p].pc = "invalidate"
<1>1. Shape /\ Local(p)
  BY DEF ActivationIInv
<1>2. /\ Alone(p) /\ proc'[p].pc = OnError(p) /\ proc'[p].cmd = proc[p].cmd
      /\ proc'[p].exe = proc[p].exe /\ proc'[p].cand = proc[p].cand /\ proc'[p].got = None
  BY <1>1, PassEffect DEF Fail
<1>3. /\ OnError(p) \in {"lock", "invalidate", "abort", "exit"}
      /\ proc[p].pc \in CommitSteps => OnError(p) = "invalidate"
  BY DEF OnError, VerifySteps, CommitSteps, RenewSteps, CanarySteps
<1>4. StepAllowed(p)' /\ (LockHeld(p) => lock = p)'
  BY <1>1, <1>2, <1>3 DEF Local, StepAllowed, LockHeld, OnError, VerifySteps, CommitSteps,
     CanarySteps, RenewSteps, Locked, Renewing
<1>5. TypedOf(p)' /\ CandidateOf(p)' /\ MarkedOf(p)' /\ CanaryOf(p)'
  BY <1>1, <1>2, <1>3 DEF Local, TypedOf, CandidateOf, MarkedOf, CanaryOf, CanarySteps, CommitSteps
<1> QED
  BY <1>2, <1>3, <1>4, <1>5 DEF Local

\* A step that changes only its own process keeps the invariant when it leaves an
\* unearned receipt only to its own removal, when it begins its canaries without a
\* receipt, and when it admits only the executable that the receipt names.
LEMMA QuietStep ==
  ASSUME ActivationIInv, NEW p \in Procs, Alone(p), Local(p)',
         UNCHANGED <<boot, files, receipt, challenge, markers, lock, faults, tested, armed,
                     exposed, unmarked>>,
         proc'[p].pc # "idle",
         lock = p /\ Unsettled(p) => Unsettled(p)' \/ receipt \in tested \cup {None},
         proc'[p].pc \in {"cand", "cand_check"} \cup RenewSteps /\ proc'[p].cmd \in Renewing =>
           receipt = None,
         p = Service /\ proc'[p].pc = "verified" => proc'[p].exe = proc'[p].rec.files["bot"]
  PROVE  ActivationIInv'
<1>1. \A q \in Procs : Local(q)'
  <2>1. ASSUME NEW q \in Procs \ {p} PROVE Local(q)'
    BY OthersLocal DEF Alone, ActivationIInv, Local
  <2> QED
    BY <2>1
<1>2. GlobalTypes'
  BY DEF GlobalTypes, ActivationIInv, Alone, Procs
<1>3. ChallengeInv' /\ TestedAfterReboot' /\ ChallengeHasMarker'
  BY DEF ActivationIInv, ChallengeInv, EarlierArmed, TestedAfterReboot, ChallengeHasMarker
<1>4. UnearnedReceiptShortLived'
  BY DEF ActivationIInv, UnearnedReceiptShortLived, Unsettled, Alone, Procs
<1>5. NoReceiptDuringCanaries'
  BY DEF ActivationIInv, NoReceiptDuringCanaries, Alone, Procs, Renewing
<1>6. AdmittedRunsReceiptExecutable'
  BY DEF ActivationIInv, AdmittedRunsReceiptExecutable, Alone, Procs
<1> QED
  BY <1>1, <1>2, <1>3, <1>4, <1>5, <1>6 DEF ActivationIInv, Alone

\* A failed step leaves everything but its own process as it was.
LEMMA QuietFail ==
  ASSUME ActivationIInv, NEW p \in Procs, Fail(p),
         UNCHANGED <<boot, files, receipt, challenge, markers, lock, faults, tested, armed,
                     exposed, unmarked>>,
         proc[p].pc \notin {"invalidate", "abort"}
  PROVE  ActivationIInv'
<1>1. /\ Alone(p) /\ Local(p)' /\ proc'[p].pc \in {"lock", "invalidate", "abort", "exit"}
      /\ proc[p].pc \in CommitSteps => proc'[p].pc = "invalidate"
  BY FailEffect
<1> QED
  BY <1>1, QuietStep DEF Unsettled, CommitSteps, RenewSteps, CanarySteps

\* What load_activation_binding returns is a binding of the running boot.
LEMMA CurrentBinding ==
  ActivationIInv => /\ Binding(files) \in Bindings /\ Binding(files).boot = boot
                    /\ [a \in Artifacts |-> files[a]] = files
  BY DEF ActivationIInv, GlobalTypes, Binding, Bindings, FileVersions

\* The steps that only read the files and the receipt.
LEMMA ReadingSteps ==
  ASSUME ActivationIInv, NEW p \in Procs,
         \/ load_activation_binding(p) \/ ReadReceipt(p) \/ VerifyActivation(p)
         \/ VerifyCandidate(p) \/ VerifyPreactivation(p) \/ CommitCandidate(p)
         \/ BuildReceipt(p) \/ CommitVerified(p)
  PROVE  ActivationIInv'
<1>t. Shape
  BY DEF ActivationIInv
<1>s. Local(p) /\ receipt \in Bindings \cup {None}
  BY DEF ActivationIInv, GlobalTypes
<1> USE DEF Local, TypedOf, StepAllowed, LockHeld, CandidateOf, MarkedOf, CanaryOf, Locked,
        VerifySteps, CommitSteps, CanarySteps, RenewSteps, Renewing, Unsettled
<1>1. CASE load_activation_binding(p)
  <2>1. /\ proc[p].pc \in {"cand", "verify_load", "commit", "build", "write", "reload"}
        /\ LoadNext[proc[p].pc] = CASE proc[p].pc = "cand"        -> "cand_check"
                                    [] proc[p].pc = "verify_load" -> "verify_check"
                                    [] proc[p].pc = "commit"      -> "commit_check"
                                    [] proc[p].pc = "build"       -> "build_check"
                                    [] proc[p].pc = "write"       -> "rename"
                                    [] proc[p].pc = "reload"      -> "recheck"
    BY <1>1 DEF load_activation_binding, LoadNext
  <2>2. CASE Fail(p)
    BY <1>1, <2>1, <2>2, QuietFail DEF load_activation_binding
  <2>3. CASE proc' = [proc EXCEPT ![p].pc = LoadNext[proc[p].pc], ![p].got = Binding(files)]
    <3>1. /\ Alone(p) /\ proc'[p].pc = LoadNext[proc[p].pc] /\ proc'[p].cmd = proc[p].cmd
          /\ proc'[p].exe = proc[p].exe /\ proc'[p].cand = proc[p].cand
          /\ proc'[p].got = Binding(files) /\ proc'[p].rec = proc[p].rec
      BY <1>t, <2>3, LoadEffect
    <3>2. Local(p)'
      BY <1>1, <1>s, <2>1, <3>1, CurrentBinding DEF load_activation_binding, EarlierArmed
    <3>3. proc[p].pc = "cand" /\ proc[p].cmd \in Renewing => receipt = None
      BY DEF ActivationIInv, NoReceiptDuringCanaries, Procs
    <3> QED
      BY <1>1, <2>1, <3>1, <3>2, <3>3, QuietStep DEF load_activation_binding
  <2> QED
    BY <1>1, <2>2, <2>3, CurrentBinding DEF load_activation_binding, hash_trusted_file
<1>2. CASE ReadReceipt(p)
  <2>1. proc[p].pc \in {"verify", "reread"}
    BY <1>2 DEF ReadReceipt
  <2>2. CASE receipt = None
    BY <1>2, <2>1, <2>2, QuietFail DEF ReadReceipt
  <2>3. CASE receipt # None
    <3> DEFINE pc == IF proc[p].pc = "verify" THEN "verify_load" ELSE "reload"
    <3>1. proc' = [proc EXCEPT ![p].rec = receipt, ![p].pc = pc]
      BY <1>2, <2>3 DEF ReadReceipt
    <3>2. /\ Alone(p) /\ proc'[p].pc = pc /\ proc'[p].cmd = proc[p].cmd
          /\ proc'[p].exe = proc[p].exe /\ proc'[p].cand = proc[p].cand
          /\ proc'[p].got = proc[p].got
      BY <1>t, <3>1 DEF Shape, Alone, Fields
    <3>3. Local(p)'
      BY <1>2, <1>s, <2>1, <3>2 DEF ReadReceipt, EarlierArmed
    <3> QED
      BY <1>2, <2>1, <3>2, <3>3, QuietStep DEF ReadReceipt
  <2> QED
    BY <2>2, <2>3
<1>3. CASE VerifyActivation(p)
  <2>1. proc[p].pc = "verify_check"
    BY <1>3 DEF VerifyActivation
  <2>2. CASE ~Verified(p)
    BY <1>3, <2>1, <2>2, QuietFail DEF VerifyActivation
  <2>3. CASE Verified(p)
    <3>1. /\ Alone(p) /\ proc'[p].pc = "verified" /\ proc'[p].cmd = proc[p].cmd
          /\ proc'[p].exe = proc[p].exe /\ proc'[p].cand = proc[p].cand
          /\ proc'[p].got = proc[p].got /\ proc'[p].rec = proc[p].rec
      BY <1>3, <1>t, <2>3, GotoEffect DEF VerifyActivation
    <3>2. Local(p)'
      BY <1>3, <1>s, <2>1, <3>1 DEF VerifyActivation
    <3>3. p = Service => proc[p].exe = proc[p].rec.files["bot"]
      BY <2>3 DEF Verified, verify_current_process_executable, validate_receipt
    <3> QED
      BY <1>3, <2>1, <3>1, <3>2, <3>3, QuietStep DEF VerifyActivation
  <2> QED
    BY <2>2, <2>3
<1>4. CASE VerifyCandidate(p)
  <2>1. proc[p].pc = "cand_check"
    BY <1>4 DEF VerifyCandidate
  <2>2. CASE ~ensure_path_identity(p)
    BY <1>4, <2>1, <2>2, QuietFail DEF VerifyCandidate
  <2>3. CASE ensure_path_identity(p)
    <3>1. /\ Alone(p) /\ proc'[p].pc = "challenge" /\ proc'[p].cmd = proc[p].cmd
          /\ proc'[p].exe = proc[p].exe /\ proc'[p].cand = Binding(files)
          /\ proc'[p].got = None
      <4> HIDE DEF Local, TypedOf, StepAllowed, LockHeld, CandidateOf, MarkedOf, CanaryOf, Unsettled
      <4>1. proc' = [proc EXCEPT ![p].pc = "challenge", ![p].cand = Binding(files), ![p].got = None]
        BY <1>4, <2>3 DEF VerifyCandidate, ensure_path_identity
      <4> QED
        BY <1>t, <4>1 DEF Shape, Alone, Fields
    <3>2. Local(p)'
      BY <1>4, <1>s, <2>1, <3>1, CurrentBinding DEF VerifyCandidate
    <3>3. proc[p].cmd \in Renewing => receipt = None
      BY <1>s, <2>1 DEF ActivationIInv, NoReceiptDuringCanaries, Procs
    <3> QED
      BY <1>4, <2>1, <3>1, <3>2, <3>3, QuietStep DEF VerifyCandidate
  <2> QED
    BY <2>2, <2>3
<1>5. CASE VerifyPreactivation(p)
  <2>1. proc[p].pc = "preactivation" /\ Goto(p, IF receipt = None THEN "cand" ELSE "exit")
    BY <1>5 DEF VerifyPreactivation
  <2>2. /\ Alone(p) /\ proc'[p].pc \in {"cand", "exit"} /\ proc'[p].cmd = proc[p].cmd
        /\ proc'[p].exe = proc[p].exe /\ proc'[p].cand = proc[p].cand
        /\ proc'[p].got = proc[p].got
    BY <1>t, <2>1, GotoEffect
  <2>3. Local(p)' /\ proc[p].cmd \notin Renewing
    BY <1>5, <1>s, <2>1, <2>2 DEF VerifyPreactivation
  <2> QED
    BY <1>5, <2>1, <2>2, <2>3, QuietStep DEF VerifyPreactivation
<1>6. CASE CommitCandidate(p)
  <2>1. proc[p].pc = "commit_check" /\ (Pass(p, "build") \/ Fail(p))
    BY <1>6 DEF CommitCandidate
  <2>2. CASE Fail(p)
    BY <1>6, <2>1, <2>2, QuietFail DEF CommitCandidate
  <2>3. CASE Pass(p, "build")
    <3>1. /\ Alone(p) /\ proc'[p].pc = "build" /\ proc'[p].cmd = proc[p].cmd
          /\ proc'[p].exe = proc[p].exe /\ proc'[p].cand = proc[p].cand
          /\ proc'[p].got = None
      BY <1>t, <2>3, PassEffect
    <3>2. Local(p)'
      BY <1>6, <1>s, <2>1, <3>1 DEF CommitCandidate
    <3> QED
      BY <1>6, <2>1, <3>1, <3>2, QuietStep DEF CommitCandidate
  <2> QED
    BY <2>1, <2>2, <2>3
<1>7. CASE BuildReceipt(p)
  <2>1. proc[p].pc = "build_check"
    BY <1>7 DEF BuildReceipt
  <2>2. CASE ~ensure_path_identity(p)
    BY <1>7, <2>1, <2>2, QuietFail DEF BuildReceipt
  <2>3. CASE ensure_path_identity(p)
    <3>1. /\ Alone(p) /\ proc'[p].pc = "write" /\ proc'[p].cmd = proc[p].cmd
          /\ proc'[p].exe = proc[p].exe /\ proc'[p].cand = proc[p].cand
          /\ proc'[p].got = None /\ proc'[p].rec = Binding(files)
      <4>1. proc' = [proc EXCEPT ![p].pc = "write", ![p].rec = Binding(files), ![p].got = None]
        BY <1>7, <2>3 DEF BuildReceipt, ensure_path_identity
      <4> QED
        BY <1>t, <4>1 DEF Shape, Alone, Fields
    <3>2. Local(p)'
      BY <1>7, <1>s, <2>1, <3>1, CurrentBinding DEF BuildReceipt
    <3> QED
      BY <1>7, <2>1, <3>1, <3>2, QuietStep DEF BuildReceipt
  <2> QED
    BY <2>2, <2>3
\* The last check: the receipt is the candidate that the canaries have passed for.
<1>8. CASE CommitVerified(p)
  <2>1. proc[p].pc = "recheck"
    BY <1>8 DEF CommitVerified
  <2>2. CASE Fail(p)
    BY <1>8, <2>1, <2>2, QuietFail DEF CommitVerified
  <2>3. CASE Pass(p, "exit") /\ Verified(p)
             /\ ensure_same_activation_binding(proc[p].cand, proc[p].got)
    <3>1. /\ Alone(p) /\ proc'[p].pc = "exit" /\ proc'[p].cmd = proc[p].cmd
          /\ proc'[p].exe = proc[p].exe /\ proc'[p].cand = proc[p].cand
          /\ proc'[p].got = None
      BY <1>t, <2>3, PassEffect
    <3>2. Local(p)'
      BY <1>8, <1>s, <2>1, <3>1 DEF CommitVerified
    <3>3. receipt \in tested
      BY <1>s, <2>1, <2>3 DEF Verified, validate_receipt, ensure_same_activation_binding
    <3> QED
      BY <1>8, <2>1, <3>1, <3>2, <3>3, QuietStep DEF CommitVerified
  <2> QED
    BY <1>8, <2>2, <2>3 DEF CommitVerified
<1> QED
  BY <1>1, <1>2, <1>3, <1>4, <1>5, <1>6, <1>7, <1>8

\* The steps with which a process begins.
LEMMA StartSteps ==
  ASSUME ActivationIInv,
         StartService \/ \E h \in Helpers : StartHelper(h)
  PROVE  ActivationIInv'
<1>t. Shape
  BY DEF ActivationIInv
<1>s. \A p \in Procs : Local(p)
  BY DEF ActivationIInv
<1> USE ActivationAssumption
    DEF Local, TypedOf, StepAllowed, LockHeld, CandidateOf, MarkedOf, CanaryOf, Locked,
        VerifySteps, CommitSteps, CanarySteps, RenewSteps, Renewing, Unsettled
<1>1. CASE StartService
  <2>1. PICK exe \in {files["bot"], proc[Service].exe} :
          proc' = [proc EXCEPT ![Service] = [Idle EXCEPT !.pc = "verify", !.cmd = "service", !.exe = exe]]
    BY <1>1 DEF StartService
  <2>2. /\ Alone(Service) /\ proc'[Service].pc = "verify" /\ proc'[Service].cmd = "service"
        /\ proc'[Service].exe = exe /\ proc'[Service].cand = None /\ proc'[Service].got = None
    BY <1>t, <2>1 DEF Shape, Alone, Fields, Idle, Procs
  <2>3. exe \in 0 .. MaxVersions
    BY <1>s DEF ActivationIInv, GlobalTypes, FileVersions, Artifacts, Procs
  <2>4. Local(Service)' /\ proc[Service].pc = "idle"
    BY <1>1, <2>2, <2>3 DEF StartService
  <2> QED
    BY <1>1, <2>2, <2>4, QuietStep DEF StartService, Procs
<1>2. CASE \E h \in Helpers : StartHelper(h)
  <2>1. PICK h \in Helpers : StartHelper(h)
    BY <1>2
  <2>2. PICK cmd \in {"ensure", "renew", "prepare", "dry_run"} :
          proc' = [proc EXCEPT ![h] = [Idle EXCEPT !.pc = FirstStep[cmd], !.cmd = cmd]]
    BY <2>1 DEF StartHelper, FirstStep
  <2>4. /\ Alone(h) /\ proc'[h].pc = FirstStep[cmd] /\ proc'[h].cmd = cmd
        /\ proc'[h].exe = 0 /\ proc'[h].cand = None /\ proc'[h].got = None
    BY <1>t, <2>2 DEF Shape, Alone, Fields, Idle, Procs
  <2>5. /\ cmd = "ensure" => FirstStep[cmd] = "verify"
        /\ cmd \in {"renew", "prepare"} => FirstStep[cmd] = "lock"
        /\ cmd = "dry_run" => FirstStep[cmd] = "preactivation"
    BY DEF FirstStep
  <2>6. proc[h].pc = "idle" /\ proc'[h].pc \in {"verify", "lock", "preactivation"}
        /\ h # Service /\ 0 \in 0 .. MaxVersions
    <3>1. proc[h].pc = "idle"
      BY <2>1 DEF StartHelper
    <3>2. h # Service /\ 0 \in 0 .. MaxVersions
      OBVIOUS
    <3>3. FirstStep[cmd] \in {"verify", "lock", "preactivation"}
      BY <2>5
    <3> QED
      BY <2>4, <3>1, <3>2, <3>3
  <2>7. StepAllowed(h)'
    BY <2>4, <2>5, <2>6
  <2>9. ~LockHeld(h)'
    BY <2>4, <2>5, <2>6
  <2>8. Local(h)'
    BY <2>4, <2>6, <2>7, <2>9
  <2> QED
    BY <2>1, <2>4, <2>6, <2>8, QuietStep DEF StartHelper, Procs
<1> QED
  BY <1>1, <1>2


\* The steps that remove or write the receipt, under the lock.
LEMMA ReceiptSteps ==
  ASSUME ActivationIInv, NEW p \in Procs, invalidate_activation_receipt(p) \/ WriteReceipt(p)
  PROVE  ActivationIInv'
<1>t. Shape /\ GlobalTypes
  BY DEF ActivationIInv
<1>s. Local(p)
  BY DEF ActivationIInv
<1>1. /\ proc[p].pc \in {"begin", "invalidate", "abort", "rename"}
      /\ UNCHANGED <<boot, files, challenge, markers, lock, tested, armed, unmarked>>
  BY DEF invalidate_activation_receipt, InvalidateNext, WriteReceipt
<1>2. p \in Helpers /\ lock = p /\ proc[p].cmd \in Renewing
  BY <1>s, <1>1 DEF Local, StepAllowed, LockHeld, Locked, CanarySteps, CommitSteps, VerifySteps,
     Procs
<1>3. faults' \in 0 .. MaxFaults
  BY <1>t, ActivationAssumption
  DEF GlobalTypes, invalidate_activation_receipt, WriteReceipt, Fault, NoFault
\* The process goes on without a receipt, or leaves one only where it is reported or
\* still to be removed.
<1>4. /\ Alone(p) /\ Local(p)' /\ proc'[p].pc # "idle" /\ exposed' \in BOOLEAN
      /\ receipt' \in Bindings \cup {None}
      /\ receipt' = None \/ exposed' \/ Unsettled(p)'
      /\ proc'[p].pc \notin RenewSteps \cup {"cand", "cand_check"} \/ receipt' = None
  <2>1. CASE invalidate_activation_receipt(p) /\ receipt' = None
    <3>1. PICK pc \in {"cand", "abort", "exit"} :
            /\ Goto(p, pc) /\ proc[p].pc \in {"begin", "invalidate", "abort"}
            /\ pc = "cand" => proc[p].pc = "begin"
      BY <2>1 DEF invalidate_activation_receipt, InvalidateNext
    <3>2. /\ Alone(p) /\ proc'[p].pc = pc /\ proc'[p].cmd = proc[p].cmd
          /\ proc'[p].exe = proc[p].exe /\ proc'[p].cand = proc[p].cand
          /\ proc'[p].got = proc[p].got
      BY <1>t, <3>1, GotoEffect
    <3>3. Local(p)'
      BY <1>s, <1>1, <1>2, <3>2, ActivationAssumption DEF Local, TypedOf, StepAllowed, LockHeld,
         CandidateOf, MarkedOf, CanaryOf, Locked, CanarySteps, CommitSteps, VerifySteps, Renewing
    <3> QED
      BY <1>t, <2>1, <3>2, <3>3 DEF invalidate_activation_receipt, GlobalTypes
  <2>2. CASE invalidate_activation_receipt(p) /\ receipt' # None
    <3>1. PICK pc \in {"abort", "exit"} :
            Goto(p, pc) /\ proc[p].pc \in {"begin", "invalidate", "abort"}
      BY <2>2 DEF invalidate_activation_receipt, InvalidateNext
    <3>2. /\ Alone(p) /\ proc'[p].pc = pc /\ proc'[p].cmd = proc[p].cmd
          /\ proc'[p].exe = proc[p].exe /\ proc'[p].cand = proc[p].cand
          /\ proc'[p].got = proc[p].got
      BY <1>t, <3>1, GotoEffect
    <3>3. Local(p)'
      BY <1>s, <1>1, <1>2, <3>2, ActivationAssumption DEF Local, TypedOf, StepAllowed, LockHeld,
         CandidateOf, MarkedOf, CanaryOf, Locked, CanarySteps, CommitSteps, VerifySteps, Renewing
    <3>4. receipt' = receipt /\ exposed'
      BY <2>2 DEF invalidate_activation_receipt
    <3> QED
      BY <1>t, <2>2, <3>2, <3>3, <3>4 DEF invalidate_activation_receipt, GlobalTypes,
         RenewSteps, CanarySteps
  <2>3. CASE WriteReceipt(p)
    <3>1. proc[p].pc = "rename" /\ proc[p].rec \in Bindings /\ UNCHANGED exposed
          /\ receipt' \in Bindings \cup {None}
      BY <1>t, <1>s, <2>3 DEF WriteReceipt, Local, CandidateOf, GlobalTypes
    <3>2. CASE Fail(p)
      BY <1>t, <1>1, <3>1, <3>2, FailEffect DEF CommitSteps, Unsettled, RenewSteps, CanarySteps,
         GlobalTypes
    <3>3. CASE Pass(p, "reread")
      <4>1. /\ Alone(p) /\ proc'[p].pc = "reread" /\ proc'[p].cmd = proc[p].cmd
            /\ proc'[p].exe = proc[p].exe /\ proc'[p].cand = proc[p].cand
            /\ proc'[p].got = None
        BY <1>t, <3>3, PassEffect
      <4>2. Local(p)'
        BY <1>s, <1>1, <1>2, <3>1, <4>1 DEF Local, TypedOf, StepAllowed, LockHeld,
           CandidateOf, MarkedOf, CanaryOf, Locked, CanarySteps, CommitSteps, Renewing
      <4> QED
        BY <1>t, <3>1, <4>1, <4>2 DEF Unsettled, RenewSteps, CanarySteps, GlobalTypes
    <3> QED
      BY <2>3, <3>2, <3>3 DEF WriteReceipt
  <2> QED
    BY <2>1, <2>2, <2>3
<1>5. \A q \in Procs \ {p} : ~LockHeld(q) /\ Local(q)'
  <2>1. \A q \in Procs \ {p} : ~LockHeld(q)
    BY <1>2 DEF ActivationIInv, Local
  <2>2. ASSUME NEW q \in Procs \ {p} PROVE Local(q)'
    BY <1>1, <1>4, <2>1, OthersLocal DEF Alone, LockHeld, Locked
  <2> QED
    BY <2>1, <2>2
<1>6. GlobalTypes'
  BY <1>t, <1>1, <1>2, <1>3, <1>4 DEF GlobalTypes
<1>7. ChallengeInv' /\ TestedAfterReboot' /\ ChallengeHasMarker'
  BY <1>1 DEF ActivationIInv, ChallengeInv, EarlierArmed, TestedAfterReboot, ChallengeHasMarker
<1>8. UnearnedReceiptShortLived'
  BY <1>1, <1>2, <1>4 DEF UnearnedReceiptShortLived
<1>9. NoReceiptDuringCanaries'
  <2>1. ASSUME NEW h \in Helpers \ {p}, proc[h].cmd \in Renewing
        PROVE  proc[h].pc \notin {"cand", "cand_check"} \cup RenewSteps
    BY <1>5, <2>1 DEF LockHeld, Locked, RenewSteps, Renewing, Procs
  <2> QED
    BY <1>4, <2>1 DEF NoReceiptDuringCanaries, Alone, Procs, Renewing
<1>10. AdmittedRunsReceiptExecutable'
  BY <1>2, <1>4, ActivationAssumption
  DEF ActivationIInv, AdmittedRunsReceiptExecutable, Alone, Procs
<1> QED
  BY <1>4, <1>5, <1>6, <1>7, <1>8, <1>9, <1>10 DEF ActivationIInv, Alone


\* The challenge is read and, where one is due, its marker is made.
LEMMA VerifyChallengeStep ==
  ASSUME ActivationIInv, NEW h \in Helpers, VerifyChallenge(h)
  PROVE  ActivationIInv'
<1>t. Shape /\ GlobalTypes /\ ChallengeInv /\ h \in Procs /\ h # Service
  BY ActivationAssumption DEF ActivationIInv, Procs
<1>s. Local(h)
  BY <1>t DEF ActivationIInv
<1>1. /\ proc[h].pc = "challenge" /\ proc[h].cand \in Bindings /\ proc[h].cand.boot = boot
      /\ UNCHANGED <<boot, files, receipt, challenge, lock, faults, tested, armed, exposed, unmarked>>
  BY <1>s DEF VerifyChallenge, Local, CandidateOf
<1>n. proc[h].cmd \in Renewing => receipt = None
  BY <1>1 DEF ActivationIInv, NoReceiptDuringCanaries, RenewSteps, Renewing
<1>2. CASE UNCHANGED markers /\ Fail(h)
  BY <1>t, <1>1, <1>2, QuietFail
\* A challenge that was validated in this boot followed one of an earlier boot.
<1>3. CASE UNCHANGED markers /\ Goto(h, "runtime") /\ proc[h].cmd \in Renewing
           /\ ChallengePassed(proc[h].cand)
  <2>1. /\ Alone(h) /\ proc'[h].pc = "runtime" /\ proc'[h].cmd = proc[h].cmd
        /\ proc'[h].exe = proc[h].exe /\ proc'[h].cand = proc[h].cand
        /\ proc'[h].got = proc[h].got /\ proc'[h].rec = proc[h].rec
    BY <1>t, <1>3, GotoEffect
  <2>2. /\ challenge # None /\ challenge.files = proc[h].cand.files
        /\ challenge.boot = boot /\ challenge.validated
    BY <1>3 DEF ChallengePassed, ChallengeState
  <2>3. EarlierArmed(proc[h].cand)
    BY <1>t, <1>1, <2>2 DEF ChallengeInv, EarlierArmed
  <2>4. Local(h)'
    BY <1>t, <1>s, <1>1, <1>3, <2>1, <2>3 DEF Local, TypedOf, StepAllowed, LockHeld, CandidateOf,
       MarkedOf, CanaryOf, Locked, CanarySteps, CommitSteps, Renewing, EarlierArmed
  <2> QED
    BY <1>t, <1>1, <1>3, <1>n, <2>1, <2>4, QuietStep DEF Unsettled
<1>4. CASE /\ ChallengeDue(h) /\ proc[h].cmd # "dry_run" /\ CreateMarker(h)
           /\ proc' = [proc EXCEPT ![h].pc = "marked",
                                   ![h].rec = [marker |-> FreshNonce, validated |-> challenge # None]]
  <2> DEFINE rec == [marker |-> FreshNonce, validated |-> challenge # None]
  <2>r. rec.marker = FreshNonce /\ rec.validated = (challenge # None)
    OBVIOUS
  <2>p. proc' = [proc EXCEPT ![h].pc = "marked", ![h].rec = rec]
    BY <1>4
  <2> HIDE DEF rec
  <2>1. /\ Alone(h) /\ proc'[h].pc = "marked" /\ proc'[h].cmd = proc[h].cmd
        /\ proc'[h].exe = proc[h].exe /\ proc'[h].cand = proc[h].cand
        /\ proc'[h].got = proc[h].got /\ proc'[h].rec = rec
    BY <1>t, <2>p DEF Shape, Alone, Fields
  <2>2. challenge # None =>
          /\ challenge.files = proc[h].cand.files /\ challenge.boot < boot
          /\ proc[h].cmd # "prepare"
    <3>1. challenge # None => /\ challenge.files = proc[h].cand.files /\ challenge.boot # boot
                              /\ proc[h].cmd # "prepare"
      BY <1>4 DEF ChallengeDue, ChallengeState
    <3> QED
      BY <1>t, <3>1 DEF ChallengeInv, GlobalTypes
  <2>3. markers \subseteq markers' /\ rec.marker \in markers'
    BY <1>4, <2>r DEF CreateMarker
  <2>4. lock = h /\ proc[h].cmd \in Renewing \cup {"prepare"}
    BY <1>s, <1>1, <1>4 DEF Local, LockHeld, StepAllowed, Locked, VerifySteps, CommitSteps, CanarySteps
  <2>5. Local(h)'
    BY <1>t, <1>s, <1>1, <2>r, <2>1, <2>2, <2>3, <2>4 DEF Local, TypedOf, StepAllowed, LockHeld,
       CandidateOf, MarkedOf, CanaryOf, Locked, CanarySteps, CommitSteps, Renewing
  <2>6. \A q \in Procs : Local(q)'
    <3>1. ASSUME NEW q \in Procs \ {h} PROVE Local(q)'
      BY <1>1, <2>1, <2>3, OthersLocal DEF Alone, ActivationIInv, Local
    <3> QED
      BY <2>5, <3>1
  <2>7. GlobalTypes'
    BY <1>t, <1>1, <2>1, <2>4 DEF GlobalTypes
  <2>8. ChallengeInv' /\ TestedAfterReboot' /\ ChallengeHasMarker'
    BY <1>1, <2>3
    DEF ActivationIInv, ChallengeInv, EarlierArmed, TestedAfterReboot, ChallengeHasMarker
  <2>9. UnearnedReceiptShortLived'
    BY <1>1, <2>1, <2>4 DEF ActivationIInv, UnearnedReceiptShortLived, Unsettled, Alone, Procs
  <2>10. NoReceiptDuringCanaries'
    BY <1>1, <1>n, <2>1 DEF ActivationIInv, NoReceiptDuringCanaries, Alone, Procs, Renewing
  <2>11. AdmittedRunsReceiptExecutable'
    BY <1>t, <2>1 DEF ActivationIInv, AdmittedRunsReceiptExecutable, Alone, Procs
  <2> QED
    BY <2>1, <2>6, <2>7, <2>8, <2>9, <2>10, <2>11 DEF ActivationIInv, Alone
<1> QED
  BY <1>2, <1>3, <1>4 DEF VerifyChallenge, Renewing

\* The challenge is written: the second one of the same artifacts, in a later boot, is
\* the one that counts.
LEMMA WriteChallengeStep ==
  ASSUME ActivationIInv, NEW h \in Helpers, WriteChallenge(h)
  PROVE  ActivationIInv'
<1>t. Shape /\ GlobalTypes /\ ChallengeInv /\ h \in Procs /\ h # Service
  BY ActivationAssumption DEF ActivationIInv, Procs
<1>s. Local(h)
  BY <1>t DEF ActivationIInv
<1> DEFINE c == proc[h].cand
           rec == proc[h].rec
<1>1. /\ proc[h].pc = "marked" /\ lock = h /\ c \in Bindings /\ c.boot = boot
      /\ rec.marker \in markers /\ rec.validated = (challenge # None)
      /\ challenge # None => /\ challenge.files = c.files /\ challenge.boot < boot
                             /\ proc[h].cmd \in Renewing
      /\ proc[h].cmd \in Renewing \cup {"prepare"}
      /\ UNCHANGED <<boot, files, receipt, lock, tested, exposed>>
  BY <1>s DEF WriteChallenge, Local, LockHeld, StepAllowed, Locked, VerifySteps, CommitSteps,
     CanarySteps, CandidateOf, MarkedOf
<1>n. proc[h].cmd \in Renewing => receipt = None
  BY <1>1 DEF ActivationIInv, NoReceiptDuringCanaries, RenewSteps, Renewing
<1>2. /\ NewChallenge(h).boot = boot /\ NewChallenge(h).files = c.files
      /\ NewChallenge(h).marker = rec.marker /\ NewChallenge(h).validated = rec.validated
      /\ c = [boot |-> c.boot, files |-> c.files] /\ c.files \in FileVersions
  BY <1>1 DEF NewChallenge, Bindings
<1>3. \/ challenge' = challenge /\ armed' = armed
      \/ challenge' = NewChallenge(h) /\ armed' = armed \cup {c}
  BY DEF WriteChallenge
<1>4. challenge # None => EarlierArmed(c)
  <2>1. challenge # None => [boot |-> challenge.boot, files |-> challenge.files] \in armed
    BY <1>t DEF ChallengeInv
  <2> QED
    BY <1>1, <2>1 DEF EarlierArmed
<1>5. armed \subseteq armed' /\ armed' \subseteq Bindings /\ faults' \in 0 .. MaxFaults
      /\ unmarked' \in BOOLEAN
  <2>1. faults' \in 0 .. MaxFaults
    BY <1>t, ActivationAssumption DEF GlobalTypes, WriteChallenge, Fault, NoFault
  <2>2. unmarked' \in BOOLEAN
    BY <1>t DEF GlobalTypes, WriteChallenge
  <2>3. armed \subseteq Bindings
    BY <1>t DEF GlobalTypes
  <2> QED
    BY <1>1, <1>3, <2>1, <2>2, <2>3
<1>6. /\ Alone(h) /\ Local(h)' /\ proc'[h].cmd = proc[h].cmd
      /\ proc'[h].pc \in {"runtime", "lock", "invalidate", "abort", "exit"}
      /\ proc'[h].pc = "runtime" => proc[h].cmd \in Renewing
  <2>1. CASE Fail(h)
    <3>1. proc'[h].cmd = proc[h].cmd
      BY <1>t, <2>1, PassEffect DEF Fail
    <3> QED
      BY <1>t, <1>1, <2>1, <3>1, FailEffect
  <2>2. CASE Pass(h, "runtime") /\ rec.validated
    <3>1. /\ Alone(h) /\ proc'[h].pc = "runtime" /\ proc'[h].cmd = proc[h].cmd
          /\ proc'[h].exe = proc[h].exe /\ proc'[h].cand = c /\ proc'[h].got = None
      BY <1>t, <2>2, PassEffect
    <3>2. (\E a \in armed' : a.boot < c.boot /\ a.files = c.files) /\ proc[h].cmd \in Renewing
      BY <1>1, <1>4, <1>5, <2>2 DEF EarlierArmed
    <3>3. Local(h)'
      BY <1>t, <1>s, <1>1, <3>1, <3>2 DEF Local, TypedOf, StepAllowed, LockHeld, CandidateOf,
         MarkedOf, CanaryOf, Locked, CanarySteps, CommitSteps, Renewing, EarlierArmed
    <3> QED
      BY <3>1, <3>2, <3>3
  <2> QED
    BY <2>1, <2>2 DEF WriteChallenge
<1>7. \A q \in Procs : Local(q)'
  <2>1. ASSUME NEW q \in Procs \ {h} PROVE Local(q)'
    <3>1. ~LockHeld(q)
      BY <1>1 DEF ActivationIInv, Local
    <3> QED
      BY <1>1, <1>5, <1>6, <3>1, OthersLocal DEF Alone, LockHeld, Locked
  <2> QED
    BY <1>6, <2>1
<1>8. GlobalTypes'
  BY <1>t, <1>1, <1>5, <1>6 DEF GlobalTypes
<1>9. ChallengeInv'
  <2>1. CASE challenge' = challenge /\ armed' = armed
    BY <1>t, <1>1, <2>1 DEF ChallengeInv, EarlierArmed
  <2>2. CASE challenge' = NewChallenge(h) /\ armed' = armed \cup {c}
    <3>1. boot' \in 1 .. boot' /\ rec.validated \in BOOLEAN
      BY <1>t, <1>1, ActivationAssumption DEF GlobalTypes
    <3>2. rec.validated => EarlierArmed(challenge)'
      BY <1>1, <1>2, <1>4, <1>5, <2>2 DEF EarlierArmed
    <3> QED
      BY <1>1, <1>2, <2>2, <3>1, <3>2 DEF ChallengeInv
  <2> QED
    BY <1>3, <2>1, <2>2
<1>10. TestedAfterReboot'
  BY <1>1, <1>5 DEF ActivationIInv, TestedAfterReboot
<1>11. ChallengeHasMarker'
  <2>1. CASE challenge' = challenge
    BY <1>t, <1>1, <2>1 DEF ChallengeHasMarker, ChallengeInv, GlobalTypes
  <2>2. CASE challenge' = NewChallenge(h) /\ challenge' # challenge
    BY <1>1, <1>2, <2>2 DEF ChallengeHasMarker, WriteChallenge
  <2> QED
    BY <1>3, <2>1, <2>2
<1>12. UnearnedReceiptShortLived'
  BY <1>1, <1>6 DEF ActivationIInv, UnearnedReceiptShortLived, Unsettled, Alone, Procs
<1>13. NoReceiptDuringCanaries'
  BY <1>1, <1>n, <1>6
  DEF ActivationIInv, NoReceiptDuringCanaries, Alone, Procs, Renewing, RenewSteps, CanarySteps
<1>14. AdmittedRunsReceiptExecutable'
  BY <1>t, <1>6 DEF ActivationIInv, AdmittedRunsReceiptExecutable, Alone, Procs
<1> QED
  BY <1>6, <1>7, <1>8, <1>9, <1>10, <1>11, <1>12, <1>13, <1>14 DEF ActivationIInv, Alone

\* The lock is tried, a canary runs, and a process ends or is killed.
LEMMA LockSteps ==
  ASSUME ActivationIInv, NEW h \in Helpers, AcquireLock(h)
  PROVE  ActivationIInv'
<1>t. Shape /\ GlobalTypes /\ h \in Procs /\ h # Service
  BY ActivationAssumption DEF ActivationIInv, Procs
<1>s. Local(h)
  BY <1>t DEF ActivationIInv
<1>1. /\ proc[h].pc = "lock" /\ proc[h].cmd \in Renewing \cup {"prepare"}
      /\ UNCHANGED <<boot, files, receipt, challenge, markers, faults, tested, armed, exposed, unmarked>>
  BY <1>s DEF AcquireLock, Local, StepAllowed, VerifySteps, Locked, CommitSteps, CanarySteps
<1>2. /\ Alone(h) /\ proc'[h].pc \in {"preactivation", "begin", "exit"}
      /\ proc'[h].pc = "preactivation" => proc[h].cmd = "prepare"
      /\ proc'[h].pc = "begin" => proc[h].cmd # "prepare"
      /\ proc'[h].pc # "exit" => lock' = h
      /\ proc'[h].cmd = proc[h].cmd /\ proc'[h].exe = proc[h].exe
      /\ proc'[h].cand = proc[h].cand /\ proc'[h].got = proc[h].got
  <2>1. PICK pc \in {"preactivation", "begin", "exit"} :
          /\ Goto(h, pc)
          /\ pc # "exit" => lock' = h
          /\ pc = "preactivation" => proc[h].cmd = "prepare"
          /\ pc = "begin" => proc[h].cmd # "prepare"
    BY DEF AcquireLock
  <2> QED
    BY <1>t, <2>1, GotoEffect
<1>3. Local(h)'
  BY <1>t, <1>s, <1>1, <1>2 DEF Local, TypedOf, StepAllowed, LockHeld, CandidateOf,
     MarkedOf, CanaryOf, Locked, CanarySteps, CommitSteps, VerifySteps, Renewing
<1>4. lock' = lock \/ (lock = None /\ lock' = h)
  BY DEF AcquireLock
<1>5. \A q \in Procs : Local(q)'
  <2>1. ASSUME NEW q \in Procs \ {h} PROVE Local(q)'
    <3>1. LockHeld(q) => lock = q /\ lock # None
      BY ActivationAssumption DEF ActivationIInv, Local, Procs
    <3> QED
      BY <1>1, <1>2, <1>4, <3>1, OthersLocal DEF Alone
  <2> QED
    BY <1>3, <2>1
<1>6. GlobalTypes'
  BY <1>t, <1>1, <1>2, <1>4 DEF GlobalTypes, Alone, Procs
<1>7. ChallengeInv' /\ TestedAfterReboot' /\ ChallengeHasMarker'
  BY <1>1 DEF ActivationIInv, ChallengeInv, EarlierArmed, TestedAfterReboot, ChallengeHasMarker
<1>8. UnearnedReceiptShortLived'
  BY <1>1, <1>2, <1>4, ActivationAssumption
  DEF ActivationIInv, UnearnedReceiptShortLived, Unsettled, Alone, Procs
<1>9. NoReceiptDuringCanaries'
  BY <1>1, <1>2
  DEF ActivationIInv, NoReceiptDuringCanaries, Alone, Procs, RenewSteps, CanarySteps
<1>10. AdmittedRunsReceiptExecutable'
  BY <1>t, <1>2 DEF ActivationIInv, AdmittedRunsReceiptExecutable, Alone, Procs
<1> QED
  BY <1>2, <1>5, <1>6, <1>7, <1>8, <1>9, <1>10 DEF ActivationIInv, Alone


\* A canary runs for the candidate; the last one has it tested.
LEMMA CanaryStep ==
  ASSUME ActivationIInv, NEW h \in Helpers, RunCanary(h)
  PROVE  ActivationIInv'
<1>t. Shape /\ GlobalTypes /\ h \in Procs /\ h # Service
  BY ActivationAssumption DEF ActivationIInv, Procs
<1>s. Local(h)
  BY <1>t DEF ActivationIInv
<1>1. /\ proc[h].pc \in CanarySteps /\ lock = h /\ proc[h].cmd \in Renewing
      /\ proc[h].cand \in Bindings /\ EarlierArmed(proc[h].cand)
      /\ UNCHANGED <<boot, files, receipt, challenge, markers, lock, faults, armed, exposed, unmarked>>
  BY <1>s DEF RunCanary, Local, LockHeld, StepAllowed, CandidateOf, CanaryOf, Locked,
     CanarySteps, CommitSteps, VerifySteps
<1>n. receipt = None
  BY <1>1 DEF ActivationIInv, NoReceiptDuringCanaries, RenewSteps, Renewing
<1>2. CASE Fail(h) /\ UNCHANGED tested
  BY <1>t, <1>1, <1>2, QuietFail DEF CanarySteps
<1>3. CASE /\ Goto(h, NextCanary[proc[h].pc])
           /\ tested' = IF proc[h].pc = "peer" THEN tested \cup {proc[h].cand} ELSE tested
  <2>1. /\ Alone(h) /\ proc'[h].pc = NextCanary[proc[h].pc] /\ proc'[h].cmd = proc[h].cmd
        /\ proc'[h].exe = proc[h].exe /\ proc'[h].cand = proc[h].cand
        /\ proc'[h].got = proc[h].got
    BY <1>t, <1>3, GotoEffect
  <2>2. /\ NextCanary[proc[h].pc] \in {"timeout", "owner", "peer", "commit"}
        /\ NextCanary[proc[h].pc] = "commit" => proc[h].pc = "peer"
    BY <1>1 DEF NextCanary, CanarySteps
  <2>3. /\ tested \subseteq tested' /\ tested' \subseteq Bindings
        /\ proc'[h].pc = "commit" => proc[h].cand \in tested'
    <3>1. tested \subseteq Bindings
      BY <1>t DEF GlobalTypes
    <3> QED
      BY <1>1, <1>3, <2>1, <2>2, <3>1
  <2>4. Local(h)'
    BY <1>t, <1>s, <1>1, <2>1, <2>2, <2>3 DEF Local, TypedOf, StepAllowed, LockHeld, CandidateOf,
       MarkedOf, CanaryOf, Locked, CanarySteps, CommitSteps, Renewing, EarlierArmed
  <2>5. \A q \in Procs : Local(q)'
    <3>1. ASSUME NEW q \in Procs \ {h} PROVE Local(q)'
      <4>1. LockHeld(q) => lock' = q
        BY <1>1 DEF ActivationIInv, Local
      <4>2. proc'[q] = proc[q]
        BY <2>1 DEF Alone
      <4> QED
        BY <1>1, <2>3, <4>1, <4>2, OthersLocal
    <3> QED
      BY <2>4, <3>1
  <2>6. GlobalTypes'
    <3>1. lock' # None => proc'[lock'].pc # "idle"
      BY <1>1, <2>1, <2>2
    <3> QED
      BY <1>t, <1>1, <2>3, <3>1 DEF GlobalTypes
  <2>7. ChallengeInv' /\ ChallengeHasMarker'
    BY <1>1 DEF ActivationIInv, ChallengeInv, EarlierArmed, ChallengeHasMarker
  <2>8. TestedAfterReboot'
    BY <1>1, <1>3 DEF ActivationIInv, TestedAfterReboot, EarlierArmed
  <2>9. UnearnedReceiptShortLived' /\ NoReceiptDuringCanaries'
    BY <1>1, <1>n DEF UnearnedReceiptShortLived, NoReceiptDuringCanaries
  <2>10. AdmittedRunsReceiptExecutable'
    BY <1>t, <2>1 DEF ActivationIInv, AdmittedRunsReceiptExecutable, Alone, Procs
  <2> QED
    BY <2>1, <2>5, <2>6, <2>7, <2>8, <2>9, <2>10 DEF ActivationIInv, Alone
<1> QED
  BY <1>2, <1>3 DEF RunCanary

\* A process ends or is killed; a receipt it leaves unsettled is exposed.
LEMMA EndSteps ==
  ASSUME ActivationIInv, NEW p \in Procs,
         EndProcess(p) \/ (p \in Helpers /\ KillHelper(p))
  PROVE  ActivationIInv'
<1>t. Shape /\ GlobalTypes
  BY DEF ActivationIInv
<1>s. Local(p)
  BY DEF ActivationIInv
<1>1. /\ UNCHANGED <<boot, files, receipt, challenge, markers, tested, armed, unmarked>>
      /\ lock' = (IF lock = p THEN None ELSE lock)
      /\ faults' \in 0 .. MaxFaults /\ exposed' \in BOOLEAN
  <2>1. faults \in 0 .. MaxFaults /\ exposed \in BOOLEAN /\ MaxFaults \in Nat
    BY <1>t, ActivationAssumption DEF GlobalTypes
  <2>2. CASE EndProcess(p)
    BY <2>1, <2>2 DEF EndProcess
  <2>3. CASE KillHelper(p)
    <3>1. faults' \in 0 .. MaxFaults
      BY <2>1, <2>3 DEF KillHelper, Fault
    <3>2. exposed' \in BOOLEAN
      BY <2>3, Zenon DEF KillHelper
    <3> QED
      BY <2>3, <3>1, <3>2 DEF KillHelper
  <2> QED
    BY <2>2, <2>3
<1>2. exposed => exposed'
  BY DEF EndProcess, KillHelper
<1>3. p \in Helpers /\ Unsettled(p) /\ receipt # None => exposed'
  BY DEF EndProcess, KillHelper, Unsettled
<1>4. /\ Alone(p) /\ proc'[p].pc = "idle" /\ proc'[p].cand = None /\ proc'[p].got = None
      /\ proc'[p].exe \in 0 .. MaxVersions
  <2>1. CASE EndProcess(p)
    BY <1>t, <1>s, <2>1 DEF EndProcess, Shape, Alone, Fields, Idle, Local, TypedOf
  <2>2. CASE KillHelper(p)
    BY <1>t, <2>2, ActivationAssumption DEF KillHelper, Shape, Alone, Fields, Idle
  <2> QED
    BY <2>1, <2>2
<1>5. Local(p)'
  BY <1>4 DEF Local, TypedOf, StepAllowed, LockHeld, CandidateOf,
     MarkedOf, CanaryOf, Locked, CanarySteps, CommitSteps
<1>6. \A q \in Procs : Local(q)'
  <2>1. ASSUME NEW q \in Procs \ {p} PROVE Local(q)'
    <3>1. LockHeld(q) => lock' = q
      BY <1>1 DEF ActivationIInv, Local
    <3> QED
      BY <1>1, <1>4, <3>1, OthersLocal DEF Alone
  <2> QED
    BY <1>5, <2>1
<1>7. GlobalTypes'
  BY <1>t, <1>1, <1>4 DEF GlobalTypes, Alone, Procs
<1>8. ChallengeInv' /\ TestedAfterReboot' /\ ChallengeHasMarker'
  BY <1>1 DEF ActivationIInv, ChallengeInv, EarlierArmed, TestedAfterReboot, ChallengeHasMarker
<1>9. UnearnedReceiptShortLived'
  BY <1>1, <1>2, <1>3, <1>4 DEF ActivationIInv, UnearnedReceiptShortLived, Unsettled, Alone, Procs
<1>10. NoReceiptDuringCanaries'
  BY <1>1, <1>4
  DEF ActivationIInv, NoReceiptDuringCanaries, Alone, Procs, RenewSteps, CanarySteps
<1>11. AdmittedRunsReceiptExecutable'
  BY <1>4 DEF ActivationIInv, AdmittedRunsReceiptExecutable, Alone, Procs
<1> QED
  BY <1>4, <1>6, <1>7, <1>8, <1>9, <1>10, <1>11 DEF ActivationIInv, Alone

\* A deployment, and a reboot.
LEMMA HostSteps ==
  ASSUME ActivationIInv, Reboot \/ \E a \in Artifacts : Deploy(a)
  PROVE  ActivationIInv'
<1>t. Shape /\ GlobalTypes /\ ChallengeInv
  BY DEF ActivationIInv
<1>1. CASE \E a \in Artifacts : Deploy(a)
  <2>1. PICK a \in Artifacts : Deploy(a)
    BY <1>1
  <2>2. UNCHANGED <<boot, receipt, challenge, markers, lock, proc, faults, tested, armed, exposed, unmarked>>
    BY <2>1 DEF Deploy
  <2>3. files' \in FileVersions
    BY <1>t, <2>1, ActivationAssumption DEF Deploy, GlobalTypes, FileVersions
  <2>4. \A q \in Procs : Local(q)'
    <3>1. ASSUME NEW q \in Procs PROVE Local(q)'
      BY <2>2, OthersLocal DEF ActivationIInv, Local
    <3> QED
      BY <3>1
  <2>5. GlobalTypes' /\ Shape'
    BY <1>t, <2>2, <2>3 DEF GlobalTypes, Shape
  <2>6. ChallengeInv' /\ TestedAfterReboot' /\ ChallengeHasMarker'
    BY <2>2 DEF ActivationIInv, ChallengeInv, EarlierArmed, TestedAfterReboot, ChallengeHasMarker
  <2>7. UnearnedReceiptShortLived' /\ NoReceiptDuringCanaries' /\ AdmittedRunsReceiptExecutable'
    BY <2>2 DEF ActivationIInv, UnearnedReceiptShortLived, NoReceiptDuringCanaries,
       AdmittedRunsReceiptExecutable, Unsettled
  <2> QED
    BY <2>4, <2>5, <2>6, <2>7 DEF ActivationIInv
<1>2. CASE Reboot
  <2>1. /\ boot' = boot + 1 /\ boot' \in 1 .. MaxBoots /\ receipt' = None /\ lock' = None
        /\ UNCHANGED <<files, challenge, faults, tested, armed>>
        /\ exposed' = FALSE /\ unmarked' = FALSE
    BY <1>2, <1>t, ActivationAssumption DEF Reboot, GlobalTypes
  <2>2. Shape' /\ \A p \in Procs : proc'[p] = Idle
    BY <1>2 DEF Reboot, Shape, Idle, Fields
  <2>3. Idle.pc = "idle" /\ Idle.cand = None /\ Idle.got = None /\ Idle.exe = 0
    BY DEF Idle
  <2>4. \A p \in Procs : Local(p)'
    BY <2>2, <2>3, ActivationAssumption DEF Local, TypedOf, StepAllowed, LockHeld, CandidateOf,
       MarkedOf, CanaryOf, Locked, CanarySteps, CommitSteps
  <2>5. GlobalTypes'
    BY <1>t, <2>1 DEF GlobalTypes
  <2>6. ChallengeInv' /\ ChallengeHasMarker'
    BY <1>t, <2>1 DEF GlobalTypes, ChallengeInv, EarlierArmed, ChallengeHasMarker
  <2>7. TestedAfterReboot'
    BY <2>1 DEF ActivationIInv, TestedAfterReboot
  <2>8. UnearnedReceiptShortLived' /\ NoReceiptDuringCanaries' /\ AdmittedRunsReceiptExecutable'
    BY <2>1, <2>2, <2>3 DEF UnearnedReceiptShortLived, NoReceiptDuringCanaries,
       AdmittedRunsReceiptExecutable, Procs
  <2> QED
    BY <2>2, <2>4, <2>5, <2>6, <2>7, <2>8 DEF ActivationIInv
<1> QED
  BY <1>1, <1>2

\* Every step of the specification preserves the inductive invariant.
LEMMA NextActivation == ActivationIInv /\ [Next]_actVars => ActivationIInv'
<1> SUFFICES ASSUME ActivationIInv, [Next]_actVars PROVE ActivationIInv'
  OBVIOUS
<1>1. CASE UNCHANGED actVars
  <2>1. UNCHANGED <<boot, files, receipt, challenge, markers, lock, proc, faults, tested, armed,
                    exposed, unmarked>>
    BY <1>1 DEF actVars
  <2>2. \A q \in Procs : Local(q)'
    <3>1. ASSUME NEW q \in Procs PROVE Local(q)'
      BY <2>1, OthersLocal DEF ActivationIInv, Local
    <3> QED
      BY <3>1
  <2>3. GlobalTypes' /\ Shape'
    BY <2>1 DEF ActivationIInv, GlobalTypes, Shape
  <2>4. ChallengeInv' /\ TestedAfterReboot' /\ ChallengeHasMarker'
    BY <2>1 DEF ActivationIInv, ChallengeInv, EarlierArmed, TestedAfterReboot, ChallengeHasMarker
  <2>5. UnearnedReceiptShortLived' /\ NoReceiptDuringCanaries' /\ AdmittedRunsReceiptExecutable'
    BY <2>1 DEF ActivationIInv, UnearnedReceiptShortLived, NoReceiptDuringCanaries,
       AdmittedRunsReceiptExecutable, Unsettled
  <2> QED
    BY <2>2, <2>3, <2>4, <2>5 DEF ActivationIInv
<1>2. ASSUME NEW p \in Procs, ActivationNext(p) PROVE ActivationIInv'
  BY <1>2, ReadingSteps, ReceiptSteps DEF ActivationNext
<1>3. ASSUME NEW p \in Procs, EndProcess(p) PROVE ActivationIInv'
  BY <1>3, EndSteps
<1>4. ASSUME NEW h \in Helpers, KillHelper(h) PROVE ActivationIInv'
  BY <1>4, EndSteps DEF Procs
<1>5. ASSUME NEW h \in Helpers, RebootChallengeNext(h) PROVE ActivationIInv'
  BY <1>5, VerifyChallengeStep, WriteChallengeStep DEF RebootChallengeNext
<1> QED
  BY <1>1, <1>2, <1>3, <1>4, <1>5, StartSteps, LockSteps, CanaryStep, HostSteps DEF Next

-----------------------------------------------------------------------------
(***************************************************************************)
(* The theorems.                                                            *)
(***************************************************************************)

\* The inductive invariant holds in every state that the helpers, the services,
\* deployments, kills and reboots can reach.
THEOREM ActivationInvariant == Spec => []ActivationIInv
  BY InitActivation, NextActivation, PTL DEF Spec

\* invalidate_activation_receipt, the lock and the last comparison of
\* commit_activation_receipt: a receipt that no canary has passed for does not outlive its
\* writer, and there is none while canaries run.
THEOREM ReceiptsAreEarned == Spec => []ReceiptEarned
<1>1. ActivationIInv => ReceiptEarned
  BY DEF ActivationIInv, ReceiptEarned
<1> QED
  BY ActivationInvariant, <1>1, PTL

\* verify_or_prepare_reboot_challenge: the canaries run only for artifacts whose challenge
\* was written in an earlier boot.
THEOREM CanariesFollowReboot == Spec => []TestedAfterReboot
<1>1. ActivationIInv => TestedAfterReboot
  BY DEF ActivationIInv
<1> QED
  BY ActivationInvariant, <1>1, PTL

\* The lock is held only by a helper at work, and the marker of a challenge is made before
\* the challenge.
THEOREM RenewalStateSound == Spec => []RenewalInv
<1>1. ActivationIInv => RenewalInv
  BY DEF ActivationIInv, RenewalInv, TypeOK, GlobalTypes, ChallengeInv, Local, TypedOf
<1> QED
  BY ActivationInvariant, <1>1, PTL

\* verify_current_process_executable: a service that is admitted runs the executable of
\* the receipt, not merely one that has since been installed.
THEOREM AdmittedExecutable == Spec => []AdmittedRunsReceiptExecutable
<1>1. ActivationIInv => AdmittedRunsReceiptExecutable
  BY DEF ActivationIInv
<1> QED
  BY ActivationInvariant, <1>1, PTL
=============================================================================
