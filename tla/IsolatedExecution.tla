-------------------------- MODULE IsolatedExecution --------------------------
(***************************************************************************)
(* The launcher's execution of a request (isolated_execution.rs): verify   *)
(* the activation and the runtime image, seal the workspace (InputSealer), *)
(* consume it, start the transient unit, feed it the prompt, wait for it   *)
(* while polling for cancellation, the death of the bot and the deadline,  *)
(* and remove the workspace whatever happened.                             *)
(***************************************************************************)
EXTENDS InputSealer

ExecutionUnchanged == UNCHANGED botVars /\ UNCHANGED socketVars /\ UNCHANGED evidence

PeerAlive(c) == c \notin gone

\* The receipt is verified again for each run (Activation).
ensure_activation_enabled == "receipt" \in host

\* The manifest must be the one the receipt binds, the image that of the manifest,
\* the credential a JSON object.
RuntimeImageBound == "image" \in host

\* Both groups exist once, with distinct ids that are nobody's primary group.
resolve_codex_group_ids == "groups" \in host

verify_runtime == RuntimeImageBound /\ resolve_codex_group_ids /\ InputRootsTrusted

\* What a preflight looks at; an execution looks at the same things again, in two
\* places.
preflight == ensure_activation_enabled /\ SealerPreflight /\ verify_runtime

\* The name of the launcher's own unit cannot be read or is not one of a launcher.
current_launcher_unit_fails(c) == Fault /\ Fails(c, "finish", "error")

\* prepare_execution up to the sealing: the receipt, then the runtime, then the
\* launcher's unit, which no preflight looks at.
PrepareExecution(c) ==
  /\ At(c, "prepare")
  /\ IF lch[c].cancelled THEN Fails(c, "finish", "cancelled") /\ NoFault
     ELSE IF ensure_activation_enabled /\ verify_runtime
     THEN (Step(c, "quarantine") /\ NoFault) \/ current_launcher_unit_fails(c)
     ELSE Fails(c, "finish", "unavailable") /\ NoFault
  /\ ExecutionUnchanged /\ UNCHANGED unitVars
  /\ UNCHANGED <<source, sealed, left, seen>>

\* verify_workspace up to the rename: the published tree must be the private one
\* that was sealed; it leaves the public input root under the unit's name.  A
\* failure drops the published tree.
ConsumeWorkspace(c) ==
  /\ At(c, "consume")
  /\ LET t == sealed[Run(c)].ents IN
     IF ~lch[c].cancelled /\ WorkspaceTreeValid(t, "private") /\ ControlFileFree(t)
     THEN sealed' = [sealed EXCEPT ![Run(c)].at = "consumed"] /\ Step(c, "grant") /\ NoFault /\ UNCHANGED left
     ELSE DropSealed(Run(c)) /\ Fails(c, "finish", BudgetError(c))
  /\ ExecutionUnchanged /\ UNCHANGED unitVars /\ UNCHANGED <<source, seen>>

\* The rest of verify_workspace: only now is the tree made readable to the group
\* of the unit, and checked again; a failure removes it.
GrantAccess(c) ==
  /\ At(c, "grant")
  /\ LET t == GrantGroupRead(sealed[Run(c)].ents) IN
     IF ~lch[c].cancelled /\ WorkspaceTreeValid(t, "group")
     THEN sealed' = [sealed EXCEPT ![Run(c)].ents = t] /\ Step(c, "start") /\ NoFault /\ UNCHANGED left
     ELSE DropSealed(Run(c)) /\ Fails(c, "finish", BudgetError(c))
  /\ ExecutionUnchanged /\ UNCHANGED unitVars /\ UNCHANGED <<source, seen>>

\* A step of verify_workspace fails; what it holds is removed.
VerifyFail(c) ==
  /\ \E pc \in {"consume", "grant"} : At(c, pc)
  /\ Fault
  /\ sealed' = [sealed EXCEPT ![Run(c)] = NoSealed]
  /\ Fails(c, "finish", "error")
  /\ ExecutionUnchanged /\ UNCHANGED unitVars /\ UNCHANGED <<source, left, seen>>

\* run_transient_with_peer up to the spawn of systemd-run.
StartUnit(c) ==
  /\ At(c, "start")
  /\ LET r == Run(c) IN
     \/ /\ lch[c].cancelled \/ ~PeerAlive(c)
        /\ Fails(c, "cleanup", BudgetError(c))
        /\ NoFault /\ UNCHANGED <<unit, sysrun, seen>>
     \/ /\ ~lch[c].cancelled /\ PeerAlive(c)
        /\ unit' = [unit EXCEPT ![r] = "boot"]
        /\ sysrun' = [sysrun EXCEPT ![r] = "running"]
        /\ seen' = [seen EXCEPT ![r] = sealed[r].ents]
        /\ Step(c, "prompt")
        /\ NoFault
     \/ Fault /\ Fails(c, "cleanup", "error") /\ UNCHANGED <<unit, sysrun, seen>>
  /\ ExecutionUnchanged /\ UNCHANGED <<source, sealed, left, loose>>

\* The prompt is written to the unit: all of it, or the pipe breaks.
WritePrompt(c) ==
  /\ At(c, "prompt")
  /\ \/ Step(c, "wait")
     \/ unit[Run(c)] \in {"ok", "dead"} /\ Fails(c, "stop", "error")
  /\ NoFault /\ ExecutionUnchanged /\ UNCHANGED unitVars
  /\ UNCHANGED <<source, sealed, left, seen>>

PollMutant(c) ==
  /\ At(c, "prompt") \/ At(c, "wait")
  /\ \/ lch[c].cancelled /\ Fails(c, "stop", "cancelled")
     \/ ~lch[c].cancelled /\ ~PeerAlive(c) /\ Fails(c, "stop", "error")
  /\ NoFault /\ ExecutionUnchanged /\ UNCHANGED unitVars
  /\ UNCHANGED <<source, sealed, left, seen>>

\* The poll of both select loops, in its order: cancellation, the bot process,
\* the deadline.  Each of them ends in the stop of the unit.
Poll(c) ==
  /\ At(c, "prompt") \/ At(c, "wait")
  /\ \/ lch[c].cancelled /\ Fails(c, "stop", "cancelled")
     \/ ~lch[c].cancelled /\ ~PeerAlive(c) /\ Fails(c, "stop", "error")
     \/ ~lch[c].cancelled /\ PeerAlive(c) /\ Fails(c, "stop", "timed_out")
  /\ NoFault /\ ExecutionUnchanged /\ UNCHANGED unitVars
  /\ UNCHANGED <<source, sealed, left, seen>>

\* child.wait() returns: systemd-run has exited.  Past the deadline the run has
\* timed out whatever its status; otherwise the captures are collected, a status
\* other than success or an empty output is a failure.
UnitDone(c) ==
  /\ At(c, "wait")
  /\ sysrun[Run(c)] \in {"ok", "failed"}
  /\ \/ Fails(c, "cleanup", "timed_out")
     \/ Fails(c, "cleanup", "failed")
     \/ sysrun[Run(c)] = "ok" /\ Fails(c, "cleanup", "completed")
     \/ Fails(c, "cleanup", "error")
  /\ NoFault /\ ExecutionUnchanged /\ UNCHANGED unitVars
  /\ UNCHANGED <<source, sealed, left, seen>>

StopUnitMutant(c) ==
  /\ At(c, "stop")
  /\ sysrun' = [sysrun EXCEPT ![Run(c)] = IF @ = "running" THEN "failed" ELSE @]
  /\ Step(c, "cleanup")
  /\ NoFault /\ ExecutionUnchanged /\ UNCHANGED <<source, sealed, left, seen, unit, loose>>

\* terminate_and_discard_captures: systemctl stop, then systemd-run is killed.  If
\* the stop fails the run has failed and the unit is left to BindsTo.
StopUnit(c) ==
  /\ At(c, "stop")
  /\ LET r == Run(c) IN
     /\ sysrun' = [sysrun EXCEPT ![r] = IF @ = "running" THEN "failed" ELSE @]
     /\ \/ /\ unit' = [unit EXCEPT ![r] = IF @ = "ok" THEN "ok" ELSE "dead"]
           /\ Step(c, "cleanup")
           /\ NoFault /\ UNCHANGED loose
        \/ /\ Fault
           /\ Fails(c, "cleanup", "error")
           /\ loose' = loose \cup {r}
           /\ UNCHANGED unit
  /\ ExecutionUnchanged /\ UNCHANGED <<source, sealed, left, seen>>

\* execute: the consumed workspace is removed, and a failure to remove it fails the
\* run (finalise_execution).
CleanWorkspace(c) ==
  /\ At(c, "cleanup")
  /\ DropSealed(Run(c))
  /\ IF sealed' = sealed THEN Fails(c, "finish", "error") ELSE Step(c, "finish")
  /\ ExecutionUnchanged /\ UNCHANGED unitVars /\ UNCHANGED <<source, seen>>

IsolatedExecutionNext(c) ==
  \/ PrepareExecution(c) \/ ConsumeWorkspace(c) \/ GrantAccess(c) \/ VerifyFail(c)
  \/ StartUnit(c) \/ WritePrompt(c) \/ Poll(c) \/ UnitDone(c) \/ StopUnit(c)
  \/ CleanWorkspace(c)
=============================================================================
