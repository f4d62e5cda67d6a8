----------------------------- MODULE RuntimeUnit -----------------------------
(***************************************************************************)
(* The transient unit in which Codex runs: the fixed wrapper               *)
(* webex-codex-runtime.rs, the systemd-run process that stands for the     *)
(* unit on the launcher's side, and systemd itself (external), which stops *)
(* the unit when the launcher it is bound to has gone.                     *)
(***************************************************************************)
EXTENDS RunState

UnitUnchanged == UNCHANGED botVars /\ UNCHANGED socketVars /\ UNCHANGED launcherVars
                 /\ UNCHANGED <<evidence, source, left, loose>>

\* The wrapper creates its private directories, installs the credential, hardens
\* itself and closes what it inherited; any failure ends it before Codex starts.
BootRuntime(r) ==
  /\ unit[r] = "boot"
  /\ \E next \in {"codex", "dead"} : unit' = [unit EXCEPT ![r] = next]
  /\ NoFault /\ UnitUnchanged /\ UNCHANGED sysrun

\* run_codex: success needs Codex to succeed and a final message of its own that is
\* private, bounded, not empty and unchanged while it is read.  Codex may also
\* never end: no fairness is asked of this step.
RunCodex(r) ==
  /\ unit[r] = "codex"
  /\ \E next \in {"ok", "dead"} : unit' = [unit EXCEPT ![r] = next]
  /\ NoFault /\ UnitUnchanged /\ UNCHANGED sysrun

\* systemd-run --wait exits with the status of its unit.
SystemdRunExit(r) ==
  /\ sysrun[r] = "running"
  /\ unit[r] \in {"ok", "dead"}
  /\ sysrun' = [sysrun EXCEPT ![r] = IF unit[r] = "ok" THEN "ok" ELSE "failed"]
  /\ NoFault /\ UnitUnchanged /\ UNCHANGED unit

\* systemd-run is lost while its unit runs on.
SystemdRunLost(r) ==
  /\ sysrun[r] = "running" /\ unit[r] \in {"boot", "codex"}
  /\ Fault
  /\ sysrun' = [sysrun EXCEPT ![r] = "failed"]
  /\ loose' = loose \cup {r}
  /\ UNCHANGED botVars /\ UNCHANGED socketVars /\ UNCHANGED launcherVars
  /\ UNCHANGED <<evidence, source, left, unit>>

BindsToMutant(r) ==
  /\ unit[r] \in {"boot", "codex"}
  /\ lch[<<r, "execute">>].pc = "exited" /\ r \notin loose
  /\ unit' = [unit EXCEPT ![r] = "dead"]
  /\ NoFault /\ UnitUnchanged /\ UNCHANGED sysrun

\* BindsTo=: the unit is stopped when the launcher's own unit has ended.
BindsTo(r) ==
  /\ unit[r] \in {"boot", "codex"}
  /\ lch[<<r, "execute">>].pc = "exited"
  /\ unit' = [unit EXCEPT ![r] = "dead"]
  /\ NoFault /\ UnitUnchanged /\ UNCHANGED sysrun

RuntimeUnitNext(r) ==
  \/ BootRuntime(r) \/ RunCodex(r) \/ SystemdRunExit(r) \/ SystemdRunLost(r) \/ BindsTo(r)
=============================================================================
