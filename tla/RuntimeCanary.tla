---------------------------- MODULE RuntimeCanary ----------------------------
(***************************************************************************)
(* The canaries of one renewal (activation_canary.rs): the runtime canary  *)
(* with its fixtures, its sandbox and its evidence, then the lifecycle     *)
(* canaries.  The helper may be killed at any point.                       *)
(***************************************************************************)
EXTENDS CanaryStream, LifecycleCanaries

CONSTANTS Sandboxes  \* [leaks, honest, broken]: the hosts to be told apart

ASSUME SandboxAssumption ==
  Sandboxes \subseteq [leaks : SUBSET Leaks, honest : BOOLEAN, broken : SUBSET Breaks]

Init ==
  /\ hp = [pc |-> "sockets", k |-> 0, err |-> FALSE]
  /\ disk = {} /\ lst = [l \in Listeners |-> NoListener]
  /\ \E s \in Sandboxes : leaks = s.leaks /\ honest = s.honest /\ broken = s.broken
  /\ unit = [u \in Units |-> "none"] /\ codex = NoCodex /\ peer = "none" /\ sup = "none"
  /\ faults = 0 /\ cmds = <<>> /\ conns = {} /\ late = {} /\ tampered = {}
  /\ replaced = {} /\ lost = {} /\ misread = {}

\* wait_for_unix_listener_live for the launcher and the config worker: they come up
\* or the deadline passes.
WaitSockets ==
  /\ hp.pc = "sockets"
  /\ \/ Goto("create") /\ NoFault
     \/ Goto("failed") /\ Fault
  /\ UNCHANGED hostVars /\ UNCHANGED sandboxVars /\ UNCHANGED unitVars

\* The canary workspace is staged, sealed and verified as any other (RunnerInput,
\* InputSealer, IsolatedExecution); the installed runtime must be the candidate's.
StageCanary ==
  /\ hp.pc = "stage"
  /\ \/ /\ Goto("unit") /\ NoFault /\ unit' = [unit EXCEPT !["runtime"] = "active"]
        /\ codex' = [codex EXCEPT !.pc = "boot"]
     \/ FailRuntime /\ Fault /\ UNCHANGED <<unit, codex>>
  /\ UNCHANGED hostVars /\ UNCHANGED <<leaks, honest, broken, cmds, conns, tampered, replaced, peer, sup, misread>>

\* Mutant: the unit is awaited without a deadline.
RunRuntimeCanaryMutant ==
  /\ hp.pc = "unit" /\ ~Active("runtime")
  /\ IF unit["runtime"] = "ok" THEN Goto("evidence") ELSE FailRuntime
  /\ NoFault /\ UNCHANGED unit
  /\ UNCHANGED hostVars /\ UNCHANGED sandboxVars /\ UNCHANGED <<peer, sup, misread>>

\* run_runtime_canary_transient: the unit ends, or the deadline passes and the unit
\* is stopped (or the stop fails).  The workspace is removed either way.
RunRuntimeCanary ==
  /\ hp.pc = "unit"
  /\ \/ ~Active("runtime") /\ UNCHANGED unit /\ NoFault
        /\ IF unit["runtime"] = "ok" THEN Goto("evidence") ELSE FailRuntime
     \/ Active("runtime") /\ FailRuntime /\ NoFault /\ unit' = [unit EXCEPT !["runtime"] = "stopped"]
     \/ Active("runtime") /\ FailRuntime /\ Fault /\ UNCHANGED unit
  /\ UNCHANGED hostVars /\ UNCHANGED sandboxVars /\ UNCHANGED <<peer, sup, misread>>

\* RuntimeCanaryHostEvidence::validate and the checks before it: files unchanged,
\* listeners live and not connected to, dependency sockets still live.
HostEvidenceValid ==
  /\ \A f \in Files : verify_path_identity_unchanged(f) /\ verify_contents_unchanged(f)
  /\ \A l \in Listeners : is_live(l) /\ lst[l].accepts = 0

CheckEvidence ==
  /\ hp.pc = "evidence"
  /\ \/ HostEvidenceValid /\ Goto("shutdown") /\ NoFault
     \/ ~HostEvidenceValid /\ FailRuntime /\ NoFault
     \/ FailRuntime /\ Fault
  /\ UNCHANGED hostVars /\ UNCHANGED sandboxVars /\ UNCHANGED unitVars

\* A kill ends the monitors too and leaves the files.
KillCanary ==
  /\ ~HelperEnded /\ Fault
  /\ Goto("killed") /\ lst' = NoListeners
  /\ peer' = IF peer = "alive" THEN "dead" ELSE peer
  /\ UNCHANGED <<disk, late, lost, unit, sup, misread>> /\ UNCHANGED sandboxVars

CanarySteps == WaitSockets \/ StageCanary \/ RunRuntimeCanary \/ CheckEvidence

Next ==
  \/ CanarySteps \/ KillCanary
  \/ CanaryHostNext \/ CanaryStreamNext \/ LifecycleNext

Spec == Init /\ [][Next]_canaryVars

\* The helper runs on by itself, its deadlines pass, and its threads are scheduled.
\* Codex may hang, and systemd may do nothing.
HelperSteps ==
  \/ CanarySteps \/ CreateFixture \/ CreateDone \/ Rollback \/ RemoveFixtures \/ DropFixtures
  \/ ShutdownListeners \/ DropListeners \/ LifecycleSteps
  \/ \E l \in Listeners : StopListener(l)

FairSpec ==
  /\ Spec /\ WF_canaryVars(HelperSteps)
  /\ \A l \in Listeners : WF_canaryVars(MonitorAccept(l) \/ MonitorCheck(l))

-----------------------------------------------------------------------------
RuntimePassed == hp.pc \in DOMAIN CleanOf \cup DOMAIN CleanStep \cup {"passed"}

\* Every variable has its type; a command id is known once the command has started.
TypeOK ==
  /\ hp.k \in 0 .. Len(FixtureOrder) /\ hp.err \in BOOLEAN
  /\ disk \subseteq Paths /\ lost \subseteq Paths /\ replaced \subseteq tampered /\ misread \subseteq Units
  /\ lst \in [Listeners -> [pc : {"none", "accept", "check", "done", "failed"}, backlog : 0 .. 1,
                            accepts : 0 .. 1, stop : BOOLEAN]]
  /\ unit \in [Units -> {"none", "active", "ok", "ended", "timeout", "bound", "stopped"}]
  /\ codex.ids \subseteq ItemIds
  /\ codex.es \in {"CommandCompleted", "AgentMessage", "TurnCompleted", "Finished"} => codex.cmd \in codex.ids
  /\ peer \in {"none", "alive", "dead"} /\ sup \in {"none", "start", "watch", "seen", "missed"}
  /\ faults \in 0 .. MaxFaults /\ late \subseteq conns

\* The runtime canary passes only for a sandbox that let nothing through that the
\* host can see, whatever the probe reports, and nothing at all if the probe is
\* honest.  A connection goes unseen only if it fell between the monitor's last
\* empty accept and its reading of the stop flag.
NoPassWithLeak ==
  RuntimePassed => conns \subseteq late /\ tampered = {} /\ (honest => leaks = {})

\* A stream is accepted only if Codex ran the fixed command, once, and nothing else.
AcceptedStream == unit["runtime"] = "ok" => cmds = <<"probe">>

\* The state of the canaries: types, command ids known once started, and no stream
\* accepted but the expected one.
CanaryInv == TypeOK /\ AcceptedStream

\* The lifecycle canaries pass only on a host that stops units after RuntimeMaxSec, for
\* a supervisor that noticed its peer's exit, and with every unit stopped.  They pass
\* only on a host that stops a unit with its owner too, with two exceptions: a child that
\* slept through the canary, and one whose `is-active` failed and was taken for inactive.
LifecycleProven ==
  hp.pc = "passed" =>
    /\ "runtime_max" \notin broken
    /\ "binds_to" \in broken => unit["child"] = "ended" \/ "child" \in misread
    /\ sup = "seen" /\ \A u \in Units : ~Active(u)

\* The canaries pass only on a host that does what they test.
PassIsEarned == NoPassWithLeak /\ LifecycleProven

\* cleanup_files stopped at a failed removal, or at a protected file not its own.
CleanupStopped == hp.k = Len(FixtureOrder) /\ (lost \cap CleanupPaths # {} \/ "protected" \in replaced)

\* When the canaries have passed no fixture is left.  When the helper has failed, each
\* path that is left has its own reason: it could not be tracked, inspected or removed
\* itself, or it is the directory of a file that is left, or it comes after the one at
\* which the clean-up of a complete set stopped.  One failure costs no other path.
FixturesRemoved ==
  /\ hp.pc = "passed" => disk = {}
  /\ hp.pc = "failed" =>
       \A f \in disk :
         \/ f \in lost
         \/ f = "workspace_root" /\ "workspace" \in disk
         \/ f \in CleanupPaths /\ CleanupStopped

\* Every renewal ends, whatever Codex and systemd do.
CanariesEnd == <>HelperEnded
=============================================================================
