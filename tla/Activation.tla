------------------------------ MODULE Activation ------------------------------
(***************************************************************************)
(* Activation receipts (activation.rs).  A receipt in /run names the boot  *)
(* and the digests of the installed artifacts; the bot and the launcher    *)
(* verify it before they use the isolated runtime, and only the renewal    *)
(* helper makes a new one.  (deploy-config.mjs, once it has stopped the    *)
(* renewal unit, removes the receipt or puts a saved one back when it      *)
(* rolls back; it does not take the helper's lock.  This is not modelled.) *)
(* Every operation works by loading the binding from the files and         *)
(* re-checking their identities, while a deployment may replace the files  *)
(* one at a time.                                                          *)
(*                                                                         *)
(* A file is its version: a replacement is a new inode with other          *)
(* contents, so a version stands for the digest and for the identity.  A   *)
(* load reads all files in one step: a load that saw two deployments fails *)
(* its identity check whatever the order of its reads.                     *)
(***************************************************************************)
EXTENDS Naturals, FiniteSets

CONSTANTS Helpers,      \* processes that may run the activation helper
          Service,      \* the bot (or launcher) process that verifies the receipt
          None,
          MaxBoots,     \* bound: boots of the host
          MaxVersions,  \* bound: versions of each file
          MaxFaults     \* bound: killed processes and failed writes or removals

ASSUME ActivationAssumption ==
  /\ Service \notin Helpers /\ None \notin Helpers \cup {Service}
  /\ MaxBoots \in Nat \ {0} /\ MaxVersions \in Nat \ {0} /\ MaxFaults \in Nat

\* The active manifest with the image it names, the runtime wrapper with its probe,
\* and the bot's executable (the launcher's is treated in the same way).
Artifacts == {"manifest", "runtime", "bot"}
Procs     == Helpers \cup {Service}

VARIABLES
  boot,       \* the kernel's boot id
  files,      \* artifact -> version installed
  receipt,    \* the receipt in /run: a binding, or None
  challenge,  \* the reboot challenge in /var/lib, or None
  markers,    \* the reboot markers in /run
  lock,       \* the holder of the renewal lock, or None
  proc,       \* process -> [pc, cmd, exe, cand, got, rec]
  faults,     \* faults so far
  tested,     \* history: candidates for which every canary has passed
  armed,      \* history: bindings a challenge was written for
  exposed,    \* history: a receipt's writer was killed before its last check or failed to remove it
  unmarked    \* history: the write of a challenge failed after it had replaced the old one

actVars == <<boot, files, receipt, challenge, markers, lock, proc, faults,
             tested, armed, exposed, unmarked>>

\* What reading and hashing every file finds.  A file is opened without following a
\* link, must be root's with the mode of its kind, without ACL or capability, below
\* directories that only root can write, and must not change while it is read.
hash_trusted_file(a) == files[a]

Binding(f) == [boot |-> boot, files |-> f]
Idle       == [pc |-> "idle", cmd |-> None, exe |-> 0, cand |-> None, got |-> None, rec |-> None]

Fault   == faults < MaxFaults /\ faults' = faults + 1
NoFault == UNCHANGED faults

\* The steps of each part of an operation, for where its errors lead.
VerifySteps == {"verify", "verify_load", "verify_check"}
CommitSteps == {"commit", "commit_check", "build", "build_check", "write", "rename",
                "reread", "reload", "recheck"}
CanarySteps == {"runtime", "timeout", "owner", "peer"}
RenewSteps  == CanarySteps \cup {"challenge", "marked"}

\* Errors: an ensure goes on to renew, a commit removes what it may have written, a
\* renewal that has begun preserves the invalid state, anything else ends.
OnError(p) ==
  LET s == proc[p] IN
  CASE s.pc \in VerifySteps /\ s.cmd = "ensure"  -> "lock"
    [] s.pc \in CommitSteps                      -> "invalidate"
    [] s.pc \in RenewSteps /\ s.cmd \in {"ensure", "renew"} -> "abort"
    [] OTHER                                     -> "exit"

Goto(p, pc) == proc' = [proc EXCEPT ![p].pc = pc]
\* What was loaded is dropped when a check has passed or failed.
Pass(p, pc) == proc' = [proc EXCEPT ![p].pc = pc, ![p].got = None, ![p].rec = None]
Fail(p)     == Pass(p, OnError(p))

-----------------------------------------------------------------------------
\* The source manifest inside the image binds the runtime wrapper and the probe.
validate_runtime_source_binding(f) == f["manifest"] = f["runtime"]

\* A receipt fits the binding that was loaded: same boot, same digests.
validate_receipt(rec, got) == rec = got

\* The binding of the candidate is the one the canaries were run for.
ensure_same_activation_binding(expected, actual) == expected = actual

\* Every file still is the one that was read.
ensure_path_identity(p) == proc[p].got = Binding(files)

\* Loads: where each step goes on to when the files form a valid binding.
LoadNext == [cand |-> "cand_check", verify_load |-> "verify_check", commit |-> "commit_check",
             build |-> "build_check", write |-> "rename", reload |-> "recheck"]

load_activation_binding(p) ==
  /\ proc[p].pc \in DOMAIN LoadNext
  /\ LET read == [a \in Artifacts |-> hash_trusted_file(a)] IN
     IF /\ validate_runtime_source_binding(read)
        /\ proc[p].pc = "write" => validate_receipt(proc[p].rec, Binding(read))
       THEN proc' = [proc EXCEPT ![p].pc = LoadNext[proc[p].pc], ![p].got = Binding(read)]
       ELSE Fail(p)
  /\ UNCHANGED <<boot, files, receipt, challenge, markers, lock, faults, tested, armed, exposed, unmarked>>

-----------------------------------------------------------------------------
\* verify_activation: read the receipt, load the binding, compare the two, check
\* the executable of the current process, and check every identity again.
ReadReceipt(p) ==
  /\ proc[p].pc \in {"verify", "reread"}
  /\ IF receipt = None
       THEN Fail(p)
       ELSE proc' = [proc EXCEPT ![p].rec = receipt,
                                 ![p].pc = IF @ = "verify" THEN "verify_load" ELSE "reload"]
  /\ UNCHANGED <<boot, files, receipt, challenge, markers, lock, faults, tested, armed, exposed, unmarked>>

\* Mutant: the installed executable is compared instead of the running one.
verify_current_process_executableMutant(p) == TRUE

\* Only the services have an executable to check, the one they were started from.
verify_current_process_executable(p) == p = Service => proc[p].exe = proc[p].got.files["bot"]

Verified(p) ==
  /\ validate_receipt(proc[p].rec, proc[p].got)
  /\ verify_current_process_executable(p)
  /\ receipt = proc[p].rec
  /\ ensure_path_identity(p)

VerifyActivation(p) ==
  /\ proc[p].pc = "verify_check"
  /\ IF Verified(p)
       THEN Goto(p, "verified") ELSE Fail(p)
  /\ UNCHANGED <<boot, files, receipt, challenge, markers, lock, faults, tested, armed, exposed, unmarked>>

-----------------------------------------------------------------------------
\* Removes the receipt: at the start of a renewal, when a commit fails and when a
\* renewal is aborted.  A removal that fails is reported and leaves the receipt.
InvalidateNext == [begin |-> "cand", invalidate |-> "abort", abort |-> "exit"]

invalidate_activation_receipt(p) ==
  /\ proc[p].pc \in DOMAIN InvalidateNext
  /\ \/ receipt' = None /\ exposed' = FALSE /\ Goto(p, InvalidateNext[proc[p].pc]) /\ NoFault
     \/ /\ Fault /\ UNCHANGED receipt
        /\ Goto(p, IF proc[p].pc = "invalidate" THEN "abort" ELSE "exit")
        /\ exposed' = (exposed \/ receipt # None)
  /\ UNCHANGED <<boot, files, challenge, markers, lock, tested, armed, unmarked>>

\* The candidate of a renewal or of a challenge: a binding whose files are unchanged.
VerifyCandidate(p) ==
  /\ proc[p].pc = "cand_check"
  /\ IF ensure_path_identity(p)
       THEN proc' = [proc EXCEPT ![p].pc = "challenge", ![p].cand = proc[p].got, ![p].got = None]
       ELSE Fail(p)
  /\ UNCHANGED <<boot, files, receipt, challenge, markers, lock, faults, tested, armed, exposed, unmarked>>

\* Before the first activation there is no receipt.
VerifyPreactivation(p) ==
  /\ proc[p].pc = "preactivation"
  /\ Goto(p, IF receipt = None THEN "cand" ELSE "exit")
  /\ UNCHANGED <<boot, files, receipt, challenge, markers, lock, faults, tested, armed, exposed, unmarked>>

\* commit_activation_receipt: the candidate is verified again and compared with the
\* one the canaries ran for; then the receipt is built from a fresh load, written
\* after another, verified from a third, and compared with the candidate once more.
CommitCandidate(p) ==
  /\ proc[p].pc = "commit_check"
  /\ IF ensure_path_identity(p) /\ ensure_same_activation_binding(proc[p].cand, proc[p].got)
       THEN Pass(p, "build") ELSE Fail(p)
  /\ UNCHANGED <<boot, files, receipt, challenge, markers, lock, faults, tested, armed, exposed, unmarked>>

BuildReceipt(p) ==
  /\ proc[p].pc = "build_check"
  /\ IF ensure_path_identity(p)
       THEN proc' = [proc EXCEPT ![p].pc = "write", ![p].rec = proc[p].got, ![p].got = None]
       ELSE Fail(p)
  /\ UNCHANGED <<boot, files, receipt, challenge, markers, lock, faults, tested, armed, exposed, unmarked>>

\* The temporary file is renamed over the receipt; an error before or after the
\* rename (a full disk, a failed sync) fails the commit.
WriteReceipt(p) ==
  /\ proc[p].pc = "rename"
  /\ \/ receipt' = proc[p].rec /\ Pass(p, "reread") /\ NoFault
     \/ receipt' \in {receipt, proc[p].rec} /\ Fail(p) /\ Fault
  /\ UNCHANGED <<boot, files, challenge, markers, lock, tested, armed, exposed, unmarked>>

\* Mutant: the written receipt is verified, but not compared with the candidate.
CommitVerifiedMutant(p) ==
  /\ proc[p].pc = "recheck"
  /\ IF Verified(p) THEN Pass(p, "exit") ELSE Fail(p)
  /\ UNCHANGED <<boot, files, receipt, challenge, markers, lock, faults, tested, armed, exposed, unmarked>>

CommitVerified(p) ==
  /\ proc[p].pc = "recheck"
  /\ IF Verified(p) /\ ensure_same_activation_binding(proc[p].cand, proc[p].got)
       THEN Pass(p, "exit") ELSE Fail(p)
  /\ UNCHANGED <<boot, files, receipt, challenge, markers, lock, faults, tested, armed, exposed, unmarked>>

ActivationNext(p) ==
  \/ load_activation_binding(p) \/ ReadReceipt(p) \/ VerifyActivation(p)
  \/ invalidate_activation_receipt(p) \/ VerifyCandidate(p) \/ VerifyPreactivation(p)
  \/ CommitCandidate(p) \/ BuildReceipt(p) \/ WriteReceipt(p) \/ CommitVerified(p)
=============================================================================
