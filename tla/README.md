# TLA+ specifications of the Webex generic-account bot

This directory specifies and checks the parts of the bot where accepted work can
be lost, repeated or stuck, and where untrusted work is let in: the durable
message-job spool, the scheduler that runs its jobs, the attempt that turns one
job into a Webex reply, the Jenkins evidence it collects, the isolated Codex run
with its launcher, sealer and transient unit, and the activation receipts and
canaries that admit that run. The reference is the code; every definition that
models code is listed with its source lines in `PROJECT.json` ("map"). Paths
below are relative to the repository root, so `src/main.rs` is `src/src/main.rs`
in `PROJECT.json`.

## 1. Inventory of the system

| Component | State it keeps | Operations | Where |
|---|---|---|---|
| Durable message-job spool | directory `<state_file>.jobs`, in-memory index, latched health flag | open, enqueue, load, remove, list, count; candidate recovery before each of them | `src/message_jobs.rs` |
| Scheduler and HTTP ingest | active set, deferred map, two semaphores, health flag | `handle_event`, `schedule_message_job`, `schedule_pending_message_jobs`, `rescan_message_jobs`, one task per running job | `src/main.rs` |
| Message attempt | `JsonlStateStore` lease, messages in Webex | `process_event`: lease, hydrate, route, mirror, run, reply, reconcile | `src/main.rs`, `src/policy.rs`, `src/config_commands.rs` |
| Webex client wrapper | token cache | hydrate, search by marker, create; classification of failures | `src/main.rs`, `src/webex.rs` |
| Config-action client | none | idempotent submit and status over a local socket | `src/config_actions.rs` |
| Configuration | none after start | validation, attempt-lease budget | `src/config.rs` |
| Health endpoint | a single-slot gate | spool scan | `src/main.rs` |
| Jenkins prefetch | artifact directories and their registry | fetch, register, prune | `src/main.rs`, `scripts/jenkins-readonly.mjs` |
| Codex runner, work budget | child process, output buffers | run with deadline | `src/runner.rs`, `src/work_budget.rs` |
| Launcher client, protocol, launcher | one request per connection, unit name | framed exchange, cancel, clean up | `src/launcher_client.rs`, `src/launcher_protocol.rs`, `src/codex_launcher.rs`, `src/bin/webex-codex-launcher.rs` |
| Input staging and sealing | staged and sealed workspaces | stage, seal, release | `src/runner_input.rs`, `src/input_sealer.rs` |
| Isolated execution | transient unit, output | start, supervise, collect, clean up | `src/isolated_execution.rs`, `src/bin/webex-codex-runtime.rs` |
| Activation | receipts, reboot challenge | renew, challenge, verify | `src/activation.rs`, `src/activation_canary.rs`, `src/canary_*.rs` |
| Config-pull worker | durable action queue, public status | accept, prepare, hand over, recover | `scripts/config-pull-worker.mjs` |
| Config deployment | journal, backups, installed files | apply, verify, roll back, recover | `scripts/deploy-config.mjs` |
| Provisioning, release install | journal, installed release | plan, apply, undo | `scripts/provision-host.mjs`, `scripts/install-host-release.mjs` |
| Config status | none | read-only projection | `src/config_status.rs` |
| Build, CI and policy scripts | none | archive and text work | `scripts/` |

How they interact. The sidecar posts an event to `handle_event`, which persists
the job (spool), answers 202 and offers it to the scheduler. A task of the
scheduler loads the job, runs `process_event`, and on success removes the job.
`process_event` takes a lease in the attempt store, reads and writes Webex, and
for `/config pull` submits an action to the config-pull worker. The Codex run in
the middle goes through the runner, and in isolated mode through the launcher,
sealer and isolated execution. The worker drives config deployment, which
restarts the bot; activation and provisioning guard the isolated mode.

What is hard about it: the spool must survive a crash, a power loss or a failing
call at every file-system step; handlers, scans and tasks share three locks that
are never held together; a Webex create may time out and land later; a job may be
run again after any crash; the store and Webex cannot be updated atomically.
`PROJECT.json` ("hazards") lists these at the lines where they bite.

In the isolated mode three processes and a systemd unit share directories: the
bot publishes a workspace, the launcher renames and copies it, either may give up
at any moment, and neither may leave a copy behind or take one away from the
other. A receipt is read by one process while another replaces it, the artifacts
it names are replaced by deployments, and its evidence comes from canaries that
have to tell what they test from everything else that ends a unit.

What makes each part correct:

- spool: an acknowledged job is on disk whatever happens next; a published file
  is whole; the backlog is bounded; index and directory agree; a start succeeds;
- scheduler: no message runs twice at a time; slots and permits are never lost;
  a job leaves only after success; every job gets its turn;
- attempt: at most one mirror and one reply per message; no write to a read-only
  source; the reply is in the right thread under the right policy; every job is
  settled.
- Jenkins evidence: an attempt keeps its directory while it uses it, leftovers are
  bounded, and an excerpt in a reply was really in the fetched log;
- isolated run: Codex sees a whole copy of clean evidence or nothing; the answer is
  for this run; workspaces and units do not outlive their use, and every attempt ends;
- activation: a receipt stands for canaries that passed, after a reboot, on exactly
  the artifacts it names; an admitted service runs the executable it names;
- canaries: they pass only on a host that has what they test; they end and clean up.

## 2. Modules

| Module | Models | Composed with |
|---|---|---|
| `JobInbox` | what the spool promises: a bounded at-least-once inbox | abstract specification of `MessageJobs` |
| `MessageJobs` | `src/message_jobs.rs` step by step | instantiates `JobInbox` |
| `MessageJobScheduler` | ingest and scheduling in `src/main.rs` | uses the spool as an atomic sequence, as `MessageJobs` justifies |
| `MessageAttempt` | `process_event` in `src/main.rs` | assumes one attempt per message at a time, as the scheduler guarantees |
| `JenkinsPrefetch` | evidence directories, helper runs and excerpts in `src/main.rs` | its attempts are the scheduler's tasks; its directory is the evidence of `IsolatedRun` |
| `WorkspaceTree` | entries, paths and the three lists of limits of staged, sealed and verified trees | used by the two copying modules and `IsolatedExecution` |
| `LauncherProtocol` | requests, responses and their validation | used by client and launcher |
| `RunState` | the variables the processes of a run share | extended by the five modules below |
| `CodexRunner` | `src/runner.rs`, `src/launcher_client.rs` | `IsolatedRun` |
| `RunnerInput` | `src/runner_input.rs`: staging by the bot | `IsolatedRun` |
| `CodexLauncher` | `src/codex_launcher.rs`, `src/bin/webex-codex-launcher.rs`, `src/work_budget.rs` | `IsolatedRun` |
| `InputSealer` | `src/input_sealer.rs`: quarantine, sealing, roll-back | `IsolatedRun` |
| `IsolatedExecution` | `src/isolated_execution.rs` | `IsolatedRun` |
| `RuntimeUnit` | the transient unit and `src/bin/webex-codex-runtime.rs` | `IsolatedRun` |
| `IsolatedRun` | composition of the six, with its properties | |
| `Activation` | receipts in `src/activation.rs` | `ActivationRenewal` |
| `RebootChallenge` | challenge and marker in `src/activation_canary.rs` | `ActivationRenewal` |
| `ActivationRenewal` | two helpers (`src/bin/webex-codex-activation.rs`), a service, deployments, reboots | composition |
| `CanaryHost` | fixtures, listeners and monitors (`src/canary_host.rs`, `src/activation_canary.rs`) | `RuntimeCanary` |
| `CanaryStream` | Codex's event stream (`src/canary_exec.rs`, `src/canary_protocol.rs`) and the probe's verdict | `RuntimeCanary` |
| `LifecycleCanaries` | time-out, owner-crash and peer canaries | `RuntimeCanary` |
| `RuntimeCanary` | the order of the canaries and their properties | composition |
| `*Proofs` | inductive invariants and theorems (section 5) | each extends the module it is named after (`ActivationProofs`: `ActivationRenewal`) |
| `MC*` | constants and symmetries for TLC | extend the modules above |

Definitions whose name contains `Mutant` are faulty variants of the definition
that follows them. They are not part of any specification; each shows that some
property would notice the fault.

### MessageJobs

| Variable | Code |
|---|---|
| `dir` | the spool directory: `final[m]` is the inode under `<sha256>.json`, `cand` the inodes under `.pending-*` |
| `onDisk` | every directory a power loss may leave: all values since the last successful directory sync |
| `content`, `fileAt` | bytes of an inode (`empty`, `written`, `whole`, `bad`), and its `enqueued_at_unix_nanos` |
| `index`, `healthy`, `up` | `MessageJobIndex.entries`, the negated `runtime_unhealthy`, open() has returned |
| `op`, `msg`, `pc`, `new`, `published`, `cleaned` | the operation that holds the mutex and its locals |
| `acked`, `interrupted`, `ioFaults`, ... | observers |

Every operation holds the `operation_state` mutex throughout, so one operation
runs at a time. Its steps are actions because a crash, power loss or failing
call can fall between any two: candidate recovery (`RecoverCandidate`,
`FinishRecovery`), open (`OpenStart`, `OpenLoad`), enqueue (`EnqueueExisting`,
`EnqueueFull`, `CreateCandidate`, `WriteCandidate`, `SyncCandidate`,
`LinkCandidate`, `SyncLinked`, `UnlinkCandidate`, `Verify`), load, listing and
counting (`Read`), remove (`RemoveJob`, `SyncRemoved`). `Reject` is every check
that returns an error, `IoFault` and `LinkFault` every failing call. `Overwrite`
and `Delete` are damage from outside the process.

`interrupted` records the one window in which the code's promise is weaker than
its documentation: a recovery that ends, by a crash or an error, after it has
unlinked the candidate of a published job and before its directory sync.

### MessageJobScheduler

`spool`, `active`, `deferred`, `workFree`, `ingestFree` are the shared state;
`handler[h]` is one call of `handle_event`, `task[t]` one spawned job task,
`scan[s]` one call of `schedule_pending_message_jobs` (by the rescan loop or at
the end of a task). Each lock is taken and released inside one action; what lies
between two locks interleaves. `ScanActive`, `ScanDeferred` and `ScanList` take
the three snapshots one after the other; `ScanOffer` / `ScanClaim` and
`OfferDeferred` / `OfferClaim` are the two locks of `schedule_message_job`.
`max_pending` is the limit the spool was opened with. `Cancel` is a request dropped
while its blocking worker continues. A retry time
that has come is `Elapse`. `Crash` keeps only the spool.

### MessageAttempt

`store` is the attempt store, `att[m]` the attempt under way, `posts` what Webex
shows, `inflight` the create requests sent and not settled, `actions` the
config-pull worker's queue. A create is sent (`CreateForward`, `CreateReply`),
settles (`Land`, `Lose`, `CreateRefused`) and is answered (`ForwardCreated`,
`ReplyCreated`) or times out (`CreateTimedOut`) in separate steps. `Recheck` is
the second marker search of the two create-failure handlers. `FollowupThreads` is
`resolve_followup`. Configurations are
constants: `SharedPolicies` is two sources that share an output room, a room whose
output room is a read-only source, an ordinary room and the admin room;
`RelayPolicies` an output room with a policy of its own. Both satisfy
`ConfigValid`, which is what configuration validation accepts.

### JenkinsPrefetch

`dir` says in which process root the directory of an attempt is, `active` is the
static registry, `lock` the set-up lock, `dropped` the removals that dropped guards
have spawned. An attempt takes the lock, looks at every process root (`PruneRoot`),
removes what is left of dead processes and all but the newest unregistered
directories of its own (`PruneDir`), registers and makes its directory
(`CreateAttemptRoot`), and releases the lock. For each URL it runs the helper and
loads the evidence, hands the directory to the guard of `run_codex_reply`
(`HandOver`, with no moment in which it is not registered), runs Codex, verifies the
excerpt against the digest taken at the fetch (`Verified`) and cleans up. `Clean`
removes and then unregisters; the drop of a guard (`Panic`, `CreateFails`) does it
the other way round, so a pruning may meet the removal. A log is its URL's number,
and an excerpt a line of one log or an invented one. The bot is the only process
that works in its codex directory: two bots that share one, one of them starting
under a pid that the other has just found dead, are not modelled.

### IsolatedRun

`source[r]` is the bot's copy of the evidence of run `r` (`at`: the pending
directory, the quarantine or nowhere), `sealed[r]` the launcher's, `sock`, `sent` and
`resp` the two one-packet connections (preflight, execute), `lch` the launcher
process of each, `unit` and `sysrun` the transient unit and its `systemd-run`
client, `child` the child of the current-user back end. Copies are made one entry
at a time while `evidence` may change; the copied version is re-verified per file,
so there is no snapshot of the tree, only of each file. The size of a tree is that of
its files (`BytesOf`: the size of a directory is not counted, as in the code). Each of
the three files that look at a tree has constants of its own for the limits
(`RunnerMax`, `SealerMax`, `ExecutionMax`), so that a change of one of them shows in
`ChecksAgree`. A path is the sequence of the names that lead to an entry; both copies
check the last name of every entry for the forbidden ones, which is to check every
component. The staging lists a directory when it opens it (`Inside`) and looks each name
up again before it copies it (`StageOpen`); at the end every listing must be what it was,
except that a change below the root may come after the last look at its directory
(`StagePublish`). `EvidenceWrite` adds a file
under a path of `Paths` that is not in use and whose directory is there, or gives a file a
body it never had before: a file replaced by one that is the same in everything the code
compares is the same file. Behaviours the model has because the code has them:

- the bot's clean-up removes entries through a directory it holds open, so it also
  empties a workspace the launcher has already renamed (`runner_input.rs:46`); when
  both remove, one may fail on a missing entry and leave the rest (`left`);
- a failed stop, or a lost `systemd-run`, leaves the unit to `BindsTo` and
  `RuntimeMaxSec` (`loose`);
- the current-user back end joins its output readers without a limit
  (`runner.rs:190`) and leaves its output file behind when the spawn fails;
- preflight and execution keep separate lists of host checks
  (`isolated_execution.rs:407` and `591`); only the execution reads the launcher's own
  unit name (`current_launcher_unit`), which does not depend on the host's
  configuration, so that its failure is a fault and not a disagreement of the checks.

Two exceptions of its properties are the code's own: `AttemptSettles` excepts the
attempt whose child has left a descendant with its pipes, for the bot then waits as
long as the descendant lives; `NoResidue` the runs in `left`.

Time is order only. What the code's constants order is kept as order: staging and
preparation end before their clients give up (540 s, 570 s, 600 s), two stop
sequences of 50 s fit into the drain of 105 s and that into the grace of 110 s, and
the client waits for the Codex time-out plus 715 s.

### Activation and ActivationRenewal

`files` are the installed artifacts, `receipt` the receipt (a binding of artifacts
and boot), `challenge` and `markers` the reboot challenge, `lock` the renewal lock.
A helper invalidates the receipt, loads the candidate, verifies the challenge, runs
the canaries, compares, commits and checks again (`CommitVerified`). Loading the
artifacts is one step, because a mixed reading fails the identity recheck of the
code. A service checks the receipt and then its own executable. Deployments,
reboots and kills may fall between any two steps. What the code leaves behind:

- a write of the challenge that fails after its rename removes the marker of a
  challenge that is in place (`unmarked`), and the renewals of this boot then fail until
  a reboot; `RenewalInv` excepts exactly that case, the only way in which a challenge
  of this boot loses its marker. A kill between the two leaves a marker without a
  challenge, which is harmless;
- artifacts that differ from those of the challenge block a renewal until an
  operator starts a new challenge;
- a receipt may be written for artifacts that no canary has run on (see section 4). It is
  there until the writer's last check; if the writer is killed before that, or its
  removal fails (`exposed`), until the next renewal or reboot.

`Deploy` is the replacement of one artifact by a rename. A deployment that rolls back
also removes the receipt or puts a saved one back, after it has stopped the renewal
unit and without the helper's lock (`scripts/deploy-config.mjs:3639`); this is left to
the model of the deployment.

### RuntimeCanary

`hp` is the helper that runs the canaries one after the other; `disk`, `lst` and
`unit` its fixtures, listeners and units; `codex` the state machine over the event
stream; `leaks`, `honest` and `broken` the host it runs on: what the sandbox lets
through, whether the probe tells the truth, and which systemd properties do not
work. How the probe looks for each leak is not translated: it is a report that is true
(`honest`) or may not be.

Six fixtures are made in order (`FixtureOrder`): the protected file, the workspace
directory and its file, and the listeners on the Unix socket, on the forbidden address
and on the loopback address. A path is made first and tracked second, so a fixture that
fails is not there, or there and tracked, or there and unknown to the guard (a failing
`symlink_metadata`, or a socket that was bound before the error). The roll-back goes
through the tracked ones in reverse order whatever fails; `cleanup_files` of a complete
set stops at the first failure. `lost` are the paths that could not be tracked,
inspected or removed. A file that a command has changed is `tampered`; only one that is
another file than before (`replaced`) keeps `cleanup_files` from removing it.

The canaries must not pass on a host that fails them. Limits of the code that are
visible in the properties:

- a connection between a monitor's last empty accept and its look at the stop flag goes
  unseen (`late`, `canary_host.rs:259`);
- the owner-crash canary cannot tell a stopped child from one that slept to its end, and
  takes one whose `systemctl is-active` failed for inactive (`misread`,
  `activation_canary.rs:1073`, see section 4); the time-out canary, which also reads the
  unit's result, and the peer canary, which asks the supervisor, are not fooled by it;
- a path whose tracking or removal fails stays on disk, and a failed removal by
  `cleanup_files` makes the second attempt, in the destructor, remove nothing.

## 3. Runs

| Run | Shows | States |
|---|---|---|
| `spool_faults` | durability, whole files, bounded backlog, index and health under two failing calls, a crash, a power loss and a damaged file | 607,000 |
| `spool_refines` | the spool implements `JobInbox`, and a dead process opens its spool again | 29,000 |
| `spool_ack_crash` | counterexample: see finding 1 | |
| `sched_safety` | active set, permits, stale snapshots, duplicate offers, cancellation, panics, removal only after success | 1,452,000 |
| `sched_live` | every pending job is attempted, also after a crash | 258,000 |
| `sched_retry_race` | counterexample: see finding 2 | |
| `attempt_faults` | one mirror and one reply through redelivery, time-outs, store faults and a crash, in rooms that share mirrors; config commands; every job settles | 489,000 |
| `attempt_reroute` | counterexample: see finding 3 | |
| `prefetch` | evidence directories are kept, bounded and accounted for; excerpts are genuine | 757,000 |
| `isolated_run` | evidence to workspace to unit to answer, clean-up and termination | 257,000 |
| `activation` | receipts against deployments, reboots, kills and a second helper | 2,126,000 |
| `canaries` | canaries on sound and broken hosts | 814,000 |

The properties are stated in the modules, each with the promise it comes from.

### Bounds

- Spool: two messages and a backlog limit of one make the limit bite and let a
  redelivered message meet another; `spool_refines` has a limit of two, so that
  two jobs are pending together. Four inodes are enough for two final files, a
  candidate, and one inode that only a directory on disk still names. Two failing
  calls are needed for a failure during the repair of a failure. Two clock
  readings tell records of one message apart.
- Scheduler: two slots with three tasks let one task scan while the others hold
  guards; both limits of the backlog, one and two, are explored. Two messages are
  enough for one to starve the other. `sched_live` has one slot and a crash.
- Attempt: any two of seven messages meet, or one with its redelivery, which is
  where routing can go wrong; two failing calls cover a time-out and a failing
  recheck.
- Prefetch: two attempts at a time and a retention limit of one; four attempts are
  one more than a root may hold. Two URLs let a second log meet the console URL of
  the first. Two pids cover a restart under the same and under another pid, with or
  without another process under the old one. Failing calls need no bound.
- Isolated run: two runs, so that a late answer or a leftover of the first can meet
  the second; trees of two entries, one level deep, with every kind of entry that is
  refused, a forbidden name below a directory among them, exactly at the limits and one
  entry or one byte over them; one fault at any step.
- Activation: two helpers, one service, two boots and two versions of each
  artifact; one fault.
- Canaries: two faults, so that the removal that follows a failure can fail too, and
  five hosts: each broken property, a hole that only the probe sees, with an honest
  probe, and a connection and a write that the host can see, with a lying one (whose
  behaviours include those of a sound host).

Deadlock is checked for the spool and the scheduler, which always have a next
step (a request, a rescan). The other runs do not check it: a bot to which no event
is delivered, a helper that has ended and an attempt that is over may stop.

Symmetry is used for messages, tasks, handlers, attempts, pids and helpers where a
run checks safety only.

### Fairness

- Spool: weak fairness of `Progress`, the running operation and the start of a
  dead process (the service unit restarts it). No request and no fault is fair.
- Scheduler: weak fairness of each handler, scan and task, and of the rescan
  timer. `TaskSucceeds` and `TaskFails` are one fair step, so a job may fail for
  ever. `Elapse` is strongly fair. With `SlowScans = FALSE` a retry delay does not
  end while a scan that has seen it is under way: a failing job waits 30 s unless
  the failure names another delay (`record_message_job_outcome` admits 10 ms as
  the shortest), and a scan is a few locks and a directory listing. Without that
  assumption a scan that always lasts longer than the delay could pass a job over
  for ever; the safety run does not make it.
- Attempt: weak fairness of one action, `Progress`: an attempt's own step (every
  await has a time-out, and the scheduler runs every pending job again), the end of a
  lease or the settling of a request. Faults are finite because their counters are.
- Isolated run: weak fairness of the bot's steps and of its time-out for a child, of
  the steps of each launcher, and of systemd's part: a unit that was asked for
  starts, `systemd-run` ends with it, and `BindsTo` stops it with its launcher. Every
  wait of the bot and of a launcher has a deadline. Codex itself need not end, and
  disconnects, kills and changes of the host need not happen.
- Canaries: weak fairness of the helper, whose waits all have deadlines, and of the
  monitor threads. Codex may hang and systemd may do nothing.

`Expire` carries an assumption about Webex: a create request is settled before
the lease of its attempt ends. The lease is at least the sum of the attempt's
time-outs (`src/config.rs`, lines 254-310); after a create that timed out it is
set to a whole lease again. If Webex carried out a request later than that, no
search could find its marker in time. The same assumption covers an error answer
with a `Retry-After` shorter than the lease: the code waits only that long, which
is safe as long as a server that answers with an error does not carry out the
request after the delay it names.

## 4. Findings

1. `spool_ack_crash`: an acknowledged job may be lost. `enqueue_sync` answers for
   an existing file without a directory sync. The process dies between
   `hard_link` and the sync; the next start's recovery unlinks the candidate and
   dies before its sync; the start after that finds no candidate and syncs
   nothing; the redelivered event is acknowledged, and a power loss undoes the
   link. README.md:42 promises that the directory has been synced.
   `AckedDurableUnlessInterrupted` is the promise the code keeps, and it is proved.
   The same window, closed by an error and not by a crash, leaves a published file
   without an index entry, and every later listing fails until a restart; this is why
   `NotWedgedUnlessInterrupted` has its exception.
2. `sched_retry_race`: `schedule_message_job` looks at the deferred map and claims
   in the active set under separate locks. A task that fails and leaves in between
   is started again at once. README.md:58 says the retry delay is honoured.
3. `attempt_reroute`: the reply marker is looked for only in the thread the
   current attempt was routed to. Where an output room has a policy with an output
   room of its own, a retry can be routed to another thread than the attempt whose
   create timed out, and answers twice. README.md:28 says ambiguous creates are
   reconciled before retrying.

Three observations that no run of their own is about. The first two are exceptions that a
property names, so that the passing run shows that there is no other:

- Any exit status of `systemctl is-active` but zero counts as inactive, also that of a
  command that failed (`activation_canary.rs:1073`). On a host that does not stop a unit
  with its owner, one such failure lets the owner-crash canary succeed while the child is
  active; its clean-up then stops the child. README.md:1804-1805 says that the canaries
  must converge to inactive units. `PassIsEarned` excepts the child in `misread`.
- A receipt can be written for artifacts on which no canary has run, when a deployment
  falls between the comparison in the commit and the load the receipt is built from
  (`activation.rs:525`). README.md:1791-1792 says that a receipt is written only when the
  tested artifacts are still current. The writer's last check removes it; a writer that
  is killed before, or fails to remove it, leaves it until the next renewal or reboot.
  `UnearnedReceiptShortLived`, a part of `ReceiptEarned`, is what the code keeps.
- One leftover Jenkins root that cannot be removed fails the set-up of every later
  attempt (`main.rs:1117`), which then answers without evidence.

## 5. Proofs

TLC checks the runs above; the theorems below hold for every value of the constants
(any number of messages, attempts, runs, inodes, faults, ...). Each proof module
states an inductive invariant, shows that `Init` implies it and that every action
keeps it (one lemma or step per action), and derives the properties from it. The
inductive invariants were checked by TLC on the instances of section 3 before they
were proved.

The assumptions are the named `ASSUME`s of the modules and nothing else: types and
finiteness of the constants (`MessagesAssumption`, `BoundsAssumption`,
`SchedulerAssumption`, `AttemptAssumption`, `PrefetchAssumption`, `LimitsAssumption`,
`PathsAssumption`, `RunAssumption`, `ActivationAssumption`, `CanaryAssumption`, `SandboxAssumption`), a
configuration that validation accepts (`ConfigAssumption`), and that Webex gives every
message a room and no two messages one ID (`WebexAssumption`). TLC evaluates them in
every run. Where a theorem needs more, it says so in its statement.

### Spool (`MessageJobsProofs`)

- `SpecTypeOK`; `AcknowledgedJobsSurvive` (`AckedDurableUnlessInterrupted`): every
  acknowledged job is whole in every directory a power loss may leave, unless a
  recovery was interrupted; `PublishedFilesAreWhole` (`PublishedIsWhole`);
- `DirectoriesAreBounded` (`BacklogBounded`), `IndexIsTheDirectory`
  (`NotWedgedUnlessInterrupted`), `MissingFilesAreReported` (the action property
  `MissingFileNotMasked`);
- `SpoolIsAnInbox`: `Spec /\ []Undisturbed => ImplementsInbox`, the refinement of
  `JobInbox`. `Undisturbed` (no recovery was interrupted, nobody else wrote to the
  directory) is what `JobInbox` is about: in the window of finding 1 the spool does
  lose an accepted job.

The properties are not inductive: they say nothing about the candidate that is
about to be linked or about a job that is published and not yet acknowledged. The
inductive invariant `IInv` adds

- `CandidatePrivate`: until it is linked, the new inode has no final name in any
  directory that may be found, so writing it changes no published record;
- `CandidateSynced`: what `hard_link` publishes has been synced;
- `OperationNamed`: the operation's message and inode are there when it needs them;
- `FinalSynced`, `FinalInjective`: a final name refers to a synced record, and an
  inode is the record of one message only, so that damage or removal of one job
  does not touch another;
- `PublishedStable`: a published job has the same file in every directory that
  may be found, or its candidate is still there to be recovered, or the recovery
  under way has noted it and will sync. This is why acknowledging an *existing*
  job is safe: the operation has gone through recovery first;
- `AckedStable`: an acknowledged job has the same whole file in all of them.

Two more build on it. `BoundIInv`: no directory that may be found has more than
`MaxPending` jobs or two candidates, and there is room for the one that is being
written. `IndexIInv`: which operations a process can be in (`OperationState`); every
job is indexed, or its candidate still tells that it was published, or the recovery
under way has noted it (`IndexCurrent`); an acknowledged job without a file is not in
the index either (`AckedHasFile`).

### Scheduler (`MessageJobSchedulerProofs`)

`BookkeepingIsExact` (`SchedulerInv`), `CompletedJobsStayDone` (`NoRerunOfCompleted`)
and `AcceptedJobsAreKept` (`OnlySuccessRemoves`). `SchedulerIInv` says, for every
handler, scan and task at each of its steps, which guard, permit and slot it holds
(`HandlerInv`, `ScanInv`, `GuardInv`, `PermitInv`), that its job is pending until the
task itself removes it (`RunInv`), and that the spool has a message at most once
(`SpoolInv`). Slots and permits are
counted by cardinalities, so that none is lost whatever the number of tasks. Each
snapshot a scan holds may be stale; the proof rests on what the claim under the lock
checks, never on the snapshot.

### Attempt (`MessageAttemptProofs`)

For every configuration that validation accepts (`BaseIInv`): `ReadOnlyRoomsStayClean`
(`ReadOnlyNeverWritten`), `ProcessedMessagesAreAnswered` (`ProcessedIsAnswered`),
`RemovedJobsAreSettled` (`RemovedIsSettled`), and, where a room is configured for
commands, `PullsAreSubmittedFirst` (`PullAcknowledgedAfterSubmit`). `BaseIInv` follows
an attempt from step to step (`AttemptSound`): its lease, its policy, where it may
post, and that a reply in flight belongs to an action already submitted.

- Under `NoRelay` (`PlaceIInv`): `MarkersPreventDuplicates` (`AtMostOnePost`) and
  `AttemptsAreSound` (`AttemptInv`). `NoRelay`: no room that is mirrored elsewhere is
  itself an output room, unless it is read-only. Validation does not enforce this, and
  `attempt_reroute` (finding 3) shows that it is needed. `PlaceIInv` says that a message
  has one place to be answered in, whichever policy a later attempt finds
  (`PostsPlaced`, `AttemptPlaced`); only then does a search in that place see every
  earlier post.
- Under `OutputRoomsApart` (`PolicyIInv`): `AnswersStayWithTheirSource`
  (`AnsweredForOwnSource`). A thread of an output room is traced to the policy of the
  mirror it hangs under (`PolicyOfMirror`).

`SharedPolicies`, the configuration that the run `attempt_faults` checks, satisfies both.

### Jenkins evidence (`JenkinsPrefetchProofs`)

`EvidenceIsKept` (`EvidenceKept`), `RootsAreBounded` (`RootBounded`),
`ExcerptsAreFetched` (`QuotedFromFetched`) and `DirectoriesStayAccounted`
(`PrefetchInv`). `PrefetchIInv`: one attempt at a time is in the set-up
(`SetupExclusive`); what a pruning has marked belongs to no attempt at work
(`DoomedFree`); an attempt has no directory before its creation, and a dropped guard's
removal belongs to an attempt that has ended (`DirectoryLife`); there is a log for each
URL fetched, and no excerpt before Codex answers (`LogsCounted`, `QuoteLife`). The bound needs `BoundInv` besides: there are at most `Slots` attempts
at work (`SlotsKept`), and a pruning leaves room for the directory that its attempt is
going to make, even when dropped guards remove theirs meanwhile (`RoomMade`,
`DoomedDone`).

### Isolated run (`IsolatedRunProofs`)

`RepliesAreFromFullEvidence` (`ReplyFromFullEvidence`), `WorkspacesAreSound`
(`WorkspaceInv`), `NothingIsLeftBehind` (`NoResidue`), `UnitsKeepTheirWorkspace`
(`WorkspaceOutlivesUnit`) and `PreflightSuffices` (`PreflightPredictsExecution`, one
half of `ChecksAgree`). The invariant is a conjunction of

- `LinkInv`: what either end of a connection may believe of the other, given the
  packets sent, answered or lost;
- `PlaceInv`: where source and sealed workspace can be at each step of bot and
  launcher, and who is going to remove them;
- `StageInv`, `SealInv`: how much of the evidence a copy holds while it is being made,
  and that a copy that was verified is whole;
- `HostInv`: what has been looked at of the host, and what that says as long as
  nothing has changed.

### Checks of the workspace (`WorkspaceChecksProofs`)

`PublishedWorkspacesAreClean` (`PublishedIsClean`) and `ChecksAlwaysAgree`
(`ChecksAgree`), for any evidence and any limits. The invariant above says what the
copies hold, not how large they are, and the names of a copy do not tell that its
entries are acceptable to the next stage. Two conjuncts are added:

- `LimitInv`: a published tree is within the limits, and so is what the staging has
  copied together with the entry it has counted and not copied yet. The staging counts
  an entry before it copies it, so this is what makes the count good for the tree it
  publishes, one entry at a time;
- `AgreeInv`: while the client waits and no fault was met, the launcher is not
  cancelled, finds the source pending, and what it has sealed is, entry by entry, its
  copy of what it has taken from the listing; a sealed tree passes both verifications;
  and the launcher has neither an error nor a place after the start without a unit.

Sizes are cardinalities of sets (of entries, and of the bytes of files), so no sum has
to be reasoned about by induction: `FittingTree` says that a tree whose entries go one
to one, with their kinds, depths and sizes, into a tree within the limits is within
them. The staged copy goes into what was counted, the sealed one into the staged one
(`SealedPart`), the readable one into the sealed one (`GrantedPart`). No
finiteness of the evidence is assumed: what has been copied is finite at every step
(`Countable`), because it is copied entry by entry. That the three lists of limits are
the same is one lemma (`SameLimits`), cited wherever one stage relies on another's.

### Activation (`ActivationProofs`)

`ReceiptsAreEarned` (`ReceiptEarned`), `CanariesFollowReboot` (`TestedAfterReboot`),
`RenewalStateSound` (`RenewalInv`) and `AdmittedExecutable`
(`AdmittedRunsReceiptExecutable`). `ActivationIInv` says of each helper which step it
may be in and whether it holds the lock, and that its candidate, challenge, marker and
canary results are what it will commit (`Local`); and of the challenge that it was
written for the binding it holds, and that a validated one followed an earlier boot's
(`ChallengeInv`).

### Canaries (`RuntimeCanaryProofs`)

`PassesAreEarned` (`PassIsEarned`), `StreamsAreExact` (`CanaryInv`) and
`FixturesAreRemoved` (`FixturesRemoved`), for every set of hosts. `StreamInv` ties the
commands that Codex has run to the parser's state, and a successful unit to a sound
report; `ListenerInv` says where a connection can be: queued, counted, or in the unseen
moment before a monitor ends; `PassInv` what the runtime canary has found when the helper
goes on; `LifeInv` what each lifecycle canary that is over has shown, and that its error
is kept until its clean-up, with the two exceptions for a child that slept to its end or
was misread; `FixtureInv` which fixtures can be on disk at each point, and the reason of
each that is left: it counts the fixtures up while they are made and down in a roll-back,
and says of a complete set that both files are there until `cleanup_files` has stopped.

### Only model-checked

- Liveness (`StartupSucceeds`, `EveryJobAttempted`, `EveryJobSettles`,
  `AttemptSettles`, `UnitsStop`, `CanariesEnd`): fairness and `ENABLED` are outside the
  prover's reach.
- The three runs that end in a counterexample.

## 6. What is left out

- Spool: the record format, the digest (taken to be injective), file modes and
  ownership; a final name that appears between `try_exists` and `hard_link` (the
  directory is private to the one process).
- Scheduler: closed semaphores (`MessageJobRunOutcome::Stopped`), which never
  occur; the length of delays; the health endpoint, which only reads.
- Attempt: text (triggers, prompts, markers), page budgets of the marker searches
  (a search that exhausts its budget answers that there is no marker; the model's
  searches reach it), reply markers on thread roots, a hydrated message with another
  id.
- Jenkins prefetch: what the helper fetches, modification times (any choice of the
  newest is explored), links and paths outside the private root (refused by
  `create_private_subdirectory`), processes that survive their group's signals.
- Isolated run: byte layouts, capture limits, the sandbox options of the unit, exact
  times, and hosts on which somebody else writes to the private roots.
- Activation and canaries: how artifacts are read and hashed, how a probe looks, the
  receipt removed or restored by a deployment that rolls back.
- Not modelled at all: the lease arithmetic and other validation in
  `src/config.rs`, `src/config_status.rs` (a read-only projection), the host
  identity lock, and the scripts: config-pull worker, config deployment,
  provisioning, release build and install, deployment preparation, policy checks.

## 7. Plan

In this order, most important behaviour first:

1. `ConfigPullWorker`: the durable action queue, staged preparation, public
   status and restart recovery; with the config-action client, a lost answer
   must not run an action twice or lose it.
2. `DeployConfig`: the journalled apply, verification, rollback and recovery, as
   an implementation of an abstract "old or new configuration, never a mixture".
3. `BotPipeline`: spool, scheduler and attempt composed, to state end-to-end that
   an acknowledged message is answered once; the health gate.
4. `HostProvisioning` and release install: journal, apply and undo.
5. Lease and page budgets as operators, against the worst-case attempt.

Theorems next: with the modules above, that an action of the worker runs at most once,
that an installed configuration is the old or the new one, and the composition of the
three components that are proved separately.
