-------------------------- MODULE ActivationRenewal --------------------------
(***************************************************************************)
(* The activation helper (bin/webex-codex-activation.rs and                *)
(* activation_canary.rs): ensure, renew and prepare-reboot-challenge, run  *)
(* by the renewal unit and by operators at the same time, with the         *)
(* services that verify receipts, deployments, kills and reboots.  A       *)
(* canary is one step here; RuntimeCanary has their detail.                *)
(***************************************************************************)
EXTENDS RebootChallenge

Init ==
  /\ boot = 1
  /\ files = [a \in Artifacts |-> 1]
  /\ receipt = None /\ challenge = None /\ markers = {} /\ lock = None
  /\ proc = [p \in Procs |-> Idle]
  /\ faults = 0
  /\ tested = {} /\ armed = {} /\ exposed = FALSE /\ unmarked = FALSE

-----------------------------------------------------------------------------
\* The commands of the helper: a dry run takes no lock.
FirstStep == [ensure |-> "verify", renew |-> "lock", prepare |-> "lock", dry_run |-> "preactivation"]

StartHelper(h) ==
  /\ proc[h].pc = "idle"
  /\ \E cmd \in DOMAIN FirstStep : proc' = [proc EXCEPT ![h] = [Idle EXCEPT !.pc = FirstStep[cmd], !.cmd = cmd]]
  /\ UNCHANGED <<boot, files, receipt, challenge, markers, lock, faults, tested, armed, exposed, unmarked>>

\* The bot verifies the receipt when it starts and the launcher for each run.
StartService ==
  /\ proc[Service].pc = "idle"
  /\ \E exe \in (IF proc[Service].exe = 0 THEN {files["bot"]} ELSE {proc[Service].exe, files["bot"]}) :
       proc' = [proc EXCEPT ![Service] = [Idle EXCEPT !.pc = "verify", !.cmd = "service", !.exe = exe]]
  /\ UNCHANGED <<boot, files, receipt, challenge, markers, lock, faults, tested, armed, exposed, unmarked>>

\* The lock is tried once: a renewal that finds it taken ends and touches nothing.
AcquireLock(h) ==
  /\ proc[h].pc = "lock"
  /\ IF lock = None
       THEN lock' = h /\ Goto(h, IF proc[h].cmd = "prepare" THEN "preactivation" ELSE "begin")
       ELSE UNCHANGED lock /\ Goto(h, "exit")
  /\ UNCHANGED <<boot, files, receipt, challenge, markers, faults, tested, armed, exposed, unmarked>>

\* The canaries in their order.  The runtime canary verifies the installed runtime
\* against the candidate before it starts it; each canary may fail.
NextCanary == [runtime |-> "timeout", timeout |-> "owner", owner |-> "peer", peer |-> "commit"]

RunCanary(h) ==
  /\ proc[h].pc \in CanarySteps
  /\ \/ /\ proc[h].pc = "runtime" => \A a \in {"manifest", "runtime"} : files[a] = proc[h].cand.files[a]
        /\ Goto(h, NextCanary[proc[h].pc])
        /\ tested' = IF proc[h].pc = "peer" THEN tested \cup {proc[h].cand} ELSE tested
     \/ Fail(h) /\ UNCHANGED tested
  /\ UNCHANGED <<boot, files, receipt, challenge, markers, lock, faults, armed, exposed, unmarked>>

\* A process ends, and its lock is released.  A service keeps running.
EndProcess(p) ==
  /\ proc[p].pc \in {"exit", "verified"}
  /\ lock' = IF lock = p THEN None ELSE lock
  /\ proc' = [proc EXCEPT ![p] = [Idle EXCEPT !.exe = proc[p].exe]]
  /\ UNCHANGED <<boot, files, receipt, challenge, markers, faults, tested, armed, exposed, unmarked>>

\* A process is killed (a stop, a timeout of its unit): the kernel drops its lock.
Unsettled(h) == proc[h].pc \in {"reread", "reload", "recheck", "invalidate", "abort"}

KillHelper(h) ==
  /\ proc[h].pc \notin {"idle", "exit", "verified"} /\ Fault
  /\ lock' = IF lock = h THEN None ELSE lock
  /\ proc' = [proc EXCEPT ![h] = Idle]
  /\ exposed' = (exposed \/ (Unsettled(h) /\ receipt # None))
  /\ UNCHANGED <<boot, files, receipt, challenge, markers, tested, armed, unmarked>>

\* A deployment replaces one file, by a rename and without the helper's lock.
Deploy(a) ==
  /\ files[a] < MaxVersions
  /\ files' = [files EXCEPT ![a] = @ + 1]
  /\ UNCHANGED <<boot, receipt, challenge, markers, lock, proc, faults, tested, armed, exposed, unmarked>>

\* A reboot: /run is empty and no process survives.
Reboot ==
  /\ boot < MaxBoots
  /\ boot' = boot + 1
  /\ receipt' = None /\ markers' = {} /\ lock' = None
  /\ proc' = [p \in Procs |-> Idle]
  /\ exposed' = FALSE /\ unmarked' = FALSE
  /\ UNCHANGED <<files, challenge, faults, tested, armed>>

Next ==
  \/ \E p \in Procs : ActivationNext(p) \/ EndProcess(p)
  \/ \E h \in Helpers : RebootChallengeNext(h) \/ StartHelper(h) \/ AcquireLock(h) \/ RunCanary(h) \/ KillHelper(h)
  \/ StartService \/ Reboot
  \/ \E a \in Artifacts : Deploy(a)

Spec == Init /\ [][Next]_actVars

-----------------------------------------------------------------------------
FileVersions == [Artifacts -> 1 .. MaxVersions]
Bindings     == [boot : 1 .. MaxBoots, files : FileVersions]

\* Every variable has its type, and the lock is held by a helper that is at work.
TypeOK ==
  /\ boot \in 1 .. MaxBoots /\ files \in FileVersions /\ receipt \in Bindings \cup {None}
  /\ \/ challenge = None
     \/ /\ challenge.boot \in 1 .. boot /\ challenge.files \in FileVersions /\ challenge.validated \in BOOLEAN
  /\ lock \in Helpers \cup {None} /\ (lock # None => proc[lock].pc # "idle")
  /\ \A p \in Procs : /\ proc[p].cand \in Bindings \cup {None} /\ proc[p].got \in Bindings \cup {None}
                      /\ proc[p].exe \in 0 .. MaxVersions
  /\ faults \in 0 .. MaxFaults /\ tested \subseteq Bindings /\ armed \subseteq Bindings
  /\ exposed \in BOOLEAN /\ unmarked \in BOOLEAN

\* A receipt for artifacts that no canary has run on (a deployment came between the
\* comparison in the commit and the load the receipt is built from) does not
\* outlive its writer's last check: it is there only while the writer is still to
\* verify or remove it, or was killed or failed to remove it.
UnearnedReceiptShortLived ==
  (receipt # None /\ receipt \notin tested) =>
    exposed \/ \E h \in Helpers : lock = h /\ Unsettled(h)

\* While a renewal runs its canaries there is no receipt, so that nobody is admitted
\* on the strength of an older one: the lock keeps a second renewal from writing.
NoReceiptDuringCanaries ==
  (\E h \in Helpers : proc[h].pc \in {"cand", "cand_check"} \cup RenewSteps /\ proc[h].cmd \in {"ensure", "renew"})
    => receipt = None

\* A receipt stands for canaries that have passed on what it names: one that does not
\* is about to be removed, and there is none while the canaries run.
ReceiptEarned == UnearnedReceiptShortLived /\ NoReceiptDuringCanaries

\* Canaries pass only for artifacts for which a challenge was written in an earlier
\* boot: neither a restart of the service nor a kill and a retry counts as a reboot.
TestedAfterReboot ==
  \A t \in tested : \E a \in armed : a.boot < t.boot /\ a.files = t.files

\* A challenge of the current boot has its marker, so that whoever finds it can tell
\* the boots apart, whenever its writer was killed; only a write that failed after
\* the rename leaves one without.
ChallengeHasMarker ==
  (challenge # None /\ challenge.boot = boot) => challenge.marker \in markers \/ unmarked

\* The state of the renewal: types, a lock only in a helper at work, and a marker for
\* the challenge of this boot.
RenewalInv == TypeOK /\ ChallengeHasMarker

\* A service that is admitted runs the very executable that the receipt names, also
\* when it was started before a deployment and a renewal.
AdmittedRunsReceiptExecutable ==
  proc[Service].pc = "verified" => proc[Service].exe = proc[Service].rec.files["bot"]

=============================================================================
