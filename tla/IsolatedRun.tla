----------------------------- MODULE IsolatedRun -----------------------------
(***************************************************************************)
(* The composition of the processes of a Codex run: the bot, one launcher  *)
(* process for each of its connections, and the transient unit.  They      *)
(* share the two copies of the workspace, the sockets and the unit.        *)
(***************************************************************************)
EXTENDS CodexLauncher, RuntimeUnit, CodexRunner

ExecuteConns == {c \in Conns : c[2] = "execute"}

\* A part of the host goes out of order: a reboot ends the receipt, a deployment
\* replaces the image, an operator edits a group or a directory.
HostChanges ==
  /\ Fault
  /\ \E part \in host : host' = host \ {part}
  /\ UNCHANGED <<settings, evidence, run, bot, source, sealed, lch, sock, sent, resp,
                 unit, sysrun, child, outcome, gone, seen, left, loose>>

Next ==
  \/ CodexRunnerNext
  \/ RunnerInputNext
  \/ \E c \in Conns : CodexLauncherNext(c)
  \/ \E c \in ExecuteConns : InputSealerNext(c) \/ IsolatedExecutionNext(c)
  \/ \E r \in Runs : RuntimeUnitNext(r)
  \/ HostChanges

Spec == Init /\ [][Next]_vars

\* The steps that the programs take when they can: each process runs on by itself,
\* its timers expire and systemd acts on what it sees.  Codex and the descendants
\* of a child may run for ever, and no fault has to happen.
BotSteps ==
  \/ StageBegin \/ StageOpen \/ StageCopy \/ StageVerify \/ StagePublish \/ StageAbort
  \/ CleanPending \/ RemovePendingEntry \/ RemovePendingDirectory
  \/ CallPreflight \/ CallExecute \/ SpawnChild \/ CollectChild
  \/ \E c \in Conns : ReceiveResponse(c) \/ ReceiveEof(c)

LauncherSteps(c) ==
  \/ Authorise(c) \/ ConfirmPeer(c) \/ ReceiveRequest(c) \/ AnswerPreflight(c) \/ FinishExecution(c)
  \/ SealQuarantine(c) \/ SealStage(c) \/ SealOpen(c) \/ SealCopy(c) \/ SealPublish(c)
  \/ SealCleanSource(c) \/ SealRollback(c)
  \/ PrepareExecution(c) \/ ConsumeWorkspace(c) \/ GrantAccess(c) \/ StartUnit(c)
  \/ WritePrompt(c) \/ Poll(c) \/ UnitDone(c) \/ StopUnit(c) \/ CleanWorkspace(c)

FairSpec ==
  /\ Spec
  /\ WF_vars(BotSteps) /\ WF_vars(TerminateChild)
  /\ \A c \in Conns : WF_vars(LauncherSteps(c))
  /\ \A r \in Runs : WF_vars(BootRuntime(r)) /\ WF_vars(SystemdRunExit(r)) /\ WF_vars(BindsTo(r))

-----------------------------------------------------------------------------
\* Every variable has its type, and each copy of the workspace the owner and mode
\* of its place.
TypeOK ==
  /\ settings \in Settings /\ host \subseteq HostParts /\ IsTree(evidence, {"evidence"}) /\ run \in {NoRun} \cup Runs
  /\ bot.pc \in {"idle", "preflight", "await_preflight", "stage", "copy", "verify", "abort",
                 "call", "await_execute", "clean", "removing", "spawn", "child"}
  /\ IsTree(bot.todo \cup bot.listed, {"evidence"}) /\ bot.got \in BOOLEAN
  /\ \A r \in Runs :
       /\ source[r].at \in {"none", "pending", "quarantine"}
       /\ source[r].mode \in {"private", "source"} /\ IsTree(source[r].ents, {"source"})
       /\ sealed[r].at \in {"none", "staging", "ready", "consumed"} /\ IsTree(sealed[r].ents, {"private", "group"})
       /\ unit[r] \in {"none", "boot", "codex", "ok", "dead"}
       /\ sysrun[r] \in {"none", "running", "ok", "failed"}
       /\ outcome[r] \in {"none", "ok", "error"} /\ IsTree(seen[r], {"group"})
  /\ \A c \in Conns :
       /\ lch[c].pc \in Executing \cup {"none", "auth", "confirm", "receive", "preflight", "finish", "exited"}
       /\ sock[c] \in {"none", "open", "closed"}
  /\ faults \in 0 .. MaxFaults

RunningUnit(r) == unit[r] \in {"boot", "codex"}

\* An answer of an isolated run comes from Codex having been started on a complete,
\* untorn copy of the evidence that was listed for it: neither a file written
\* during the staging, nor the bot's own cleanup racing the sealing copy, nor a
\* timed-out earlier connection lets a run on a partial workspace be answered.
ReplyFromFullEvidence ==
  (settings.isolated /\ bot.got) =>
    /\ Names(seen[run]) = Names(bot.listed)
    /\ \A e \in seen[run] : e.body # Torn

\* A workspace the launcher may take holds only plain files and directories with
\* allowed names, each a copy of one version of its source, within the limits.
PublishedIsClean ==
  \A r \in Runs : source[r].mode = "source" =>
    /\ WithinLimits(source[r].ents)
    /\ \A e \in source[r].ents : /\ e.kind = "dir" \/ (e.kind = "file" /\ e.links = 1)
                               /\ BaseName(e) \notin ForbiddenNames /\ e.body # Torn

\* What the bot publishes the launcher can run: as long as the client waits and no
\* fault is met, no run fails before its unit is started, neither in the quarantine
\* and the sealing copy nor in the two verifications of the sealed tree (the three
\* keep limits and checks of their own, and may meet the bot's removal).
NoLateRejection ==
  \A c \in ExecuteConns :
    sock[c] = "open" /\ faults = 0 => ~(lch[c].result = "error" /\ unit[Run(c)] = "none")

\* A run whose preflight found the host in order is not refused for the host, unless
\* the host has changed in between: preflight and execution keep separate lists of
\* what they look at, and a refused run has already staged its workspace.
PreflightPredictsExecution ==
  \A c \in ExecuteConns : lch[c].result = "unavailable" => faults > 0

\* What one stage has accepted the next does not refuse: neither the sealer what the
\* bot has staged nor the execution what the preflight has admitted.
ChecksAgree == NoLateRejection /\ PreflightPredictsExecution

\* A tree that Codex can be started on is a whole copy of what was published,
\* unless the client has left by then: the bot empties its directory only after
\* the exchange has ended.
SealedNeverPartial ==
  \A r \in Runs :
    (sealed[r].at \in {"ready", "consumed"} /\ sock[<<r, "execute">>] = "open") =>
      Names(sealed[r].ents) = Names(bot.listed)

\* The workspaces are what their places say: types, owners and modes, and whole.
WorkspaceInv == TypeOK /\ SealedNeverPartial

\* When the bot is idle and every launcher has exited, no copy of a workspace is
\* left on disk, in none of the four places it passes through, except for runs
\* where a crash, a kill or a failed removal kept someone from removing it.
NoResidue ==
  (bot.pc = "idle" /\ \A c \in Conns : lch[c].pc \in {"none", "exited"}) =>
    \A r \in Runs \ left : source[r].at = "none" /\ sealed[r].at = "none"

\* The workspace of a running unit is not removed under it, except when systemd has
\* failed to stop the unit or systemd-run was lost.
WorkspaceOutlivesUnit ==
  \A r \in Runs \ loose : RunningUnit(r) => sealed[r].at = "consumed"

\* Every attempt ends, whatever Codex does, except one of the current-user backend
\* whose child has ended and left a descendant with its pipes.
AttemptSettles ==
  (bot.pc # "idle") ~> (bot.pc = "idle" \/ (child.pc \in {"ok", "failed"} /\ child.pipe))

\* Every transient unit ends, also one whose launcher was killed, whose systemd-run
\* was lost or whose stop failed.
UnitsStop == \A r \in Runs : RunningUnit(r) ~> ~RunningUnit(r)
=============================================================================
