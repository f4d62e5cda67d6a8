------------------------------ MODULE CanaryHost ------------------------------
(***************************************************************************)
(* The host's side of the runtime canary: the fixtures that the sandbox    *)
(* must not reach (HostFixtureSet in activation_canary.rs) and the         *)
(* instrumented listeners with their monitor threads (canary_host.rs).     *)
(* Also the state that the modules of the canaries share.                  *)
(***************************************************************************)
EXTENDS Naturals, Sequences, FiniteSets

CONSTANTS MaxFaults,  \* bound: failed I/O and commands, kills
          ItemIds     \* the ids Codex gives to the items of its event stream

ASSUME CanaryAssumption == MaxFaults \in Nat /\ ItemIds \subseteq Nat

\* In the order in which they are created: files, a directory (of the three nested ones)
\* and listeners.  Those of Paths leave something on disk.
FixtureOrder == <<"protected", "workspace_root", "workspace", "host_unix", "forbidden_tcp", "bot_tcp">>
Paths        == {"protected", "workspace_root", "workspace", "host_unix"}
Listeners    == {"host_unix", "forbidden_tcp", "bot_tcp"}
\* What a sandbox may fail to deny: a connection; a write of the protected file or of
\* one of the wrapper's own; or what only the probe can see, such as reading the
\* credential, gaining a privilege, inspecting the main process or its descriptors.
Writes       == {"protected", "runtime"}
Leaks        == Listeners \cup Writes \cup {"inner"}
\* What a host may fail to do: stop a unit after RuntimeMaxSec, or with its owner.
Breaks       == {"runtime_max", "binds_to"}
Units        == {"runtime", "timeout", "anchor", "child", "peer"}

VARIABLES
  hp,         \* the helper: [pc, k, err]
  disk,       \* fixtures that exist
  lst,        \* listener -> [pc, backlog, accepts, stop]
  leaks,      \* what this sandbox leaks
  honest,     \* the probe's report is true
  broken,     \* what this host's systemd does not do
  unit,       \* unit -> "none", "active", "ok", "ended", "timeout", "bound" or "stopped"
  codex,      \* in the runtime unit: [pc, es, ids, cmd, report, msg]
  peer,       \* the controlled peer: "none", "alive" or "dead"
  sup,        \* its supervisor: "none", "watch", "seen" or "missed"
  faults,     \* faults so far
  cmds,       \* history: commands Codex has run
  conns,      \* history: listeners that were connected to
  late,       \* history: of these, between the last empty accept and the read of the stop flag
  tampered,   \* the files of Writes that were changed
  replaced,   \* of these, the ones that are no longer the same file: another inode, mode or size
  lost,       \* history: paths that could not be tracked, inspected or removed when it was due
  misread     \* history: units that were taken to be inactive while active

canaryVars == <<hp, disk, lst, leaks, honest, broken, unit, codex, peer, sup, faults,
                cmds, conns, late, tampered, replaced, lost, misread>>

NoListener == [pc |-> "none", backlog |-> 0, accepts |-> 0, stop |-> FALSE]
NoCodex    == [pc |-> "none", es |-> "ThreadStarted", ids |-> {}, cmd |-> 0, report |-> FALSE, msg |-> FALSE]

Fault   == faults < MaxFaults /\ faults' = faults + 1
NoFault == UNCHANGED faults

\* The groups of variables a step of another part leaves alone.
hostVars    == <<disk, lst, late, lost>>
sandboxVars == <<leaks, honest, broken, codex, cmds, conns, tampered, replaced>>
unitVars    == <<unit, peer, sup, misread>>

Goto(pc)    == hp' = [hp EXCEPT !.pc = pc]
\* An error in the runtime canary drops the fixtures, if they exist.
FailRuntime == Goto("drop")

-----------------------------------------------------------------------------
NoListeners == [l \in Listeners |-> NoListener]

\* A fixture is there, and a listener accepts.
Create(f) ==
  /\ hp' = [hp EXCEPT !.k = @ + 1]
  /\ disk' = disk \cup ({f} \cap Paths)
  /\ lst' = IF f \in Listeners THEN [lst EXCEPT ![f].pc = "accept"] ELSE lst
  /\ NoFault /\ UNCHANGED lost

\* A path that was made, but its metadata could not be read, or could not be removed by
\* its own error path: the setup guard does not know of it.
Untracked(f)  == f \in Paths /\ disk' = disk \cup {f} /\ lost' = lost \cup {f}
\* A path that the guard tracks, and whose snapshot failed.
Uncaptured(f) == f \in Paths \ {"host_unix"} /\ disk' = disk \cup {f} /\ UNCHANGED lost

\* HostFixtureSet::create: one fixture after the other.  One that fails was not made, or
\* has removed itself, or is left in one of the two ways above.  The listeners made so
\* far are dropped, which ends their threads.
CreateFixture ==
  /\ hp.pc = "create" /\ hp.k < Len(FixtureOrder)
  /\ LET f == FixtureOrder[hp.k + 1] IN
     \/ Create(f)
     \/ /\ Fault /\ hp' = [hp EXCEPT !.pc = "rollback", !.k = @ + 1]
        /\ UNCHANGED <<disk, lost>> \/ Untracked(f) \/ Uncaptured(f)
        /\ lst' = NoListeners
  /\ UNCHANGED late /\ UNCHANGED sandboxVars /\ UNCHANGED unitVars

\* Mutant: the rollback ends with the first removal that fails.
RollbackMutant ==
  /\ hp.pc = "rollback"
  /\ \/ hp.k = 0 /\ Goto("failed") /\ NoFault /\ UNCHANGED <<disk, lost>>
     \/ /\ hp.k > 0 /\ hp' = [hp EXCEPT !.k = @ - 1]
        /\ disk' = disk \ ({FixtureOrder[hp.k]} \ lost) /\ NoFault /\ UNCHANGED lost
     \/ /\ hp.k > 0 /\ FixtureOrder[hp.k] \in disk \ lost
        /\ Goto("failed") /\ Fault /\ lost' = lost \cup {FixtureOrder[hp.k]} /\ UNCHANGED disk
  /\ UNCHANGED <<lst, late>> /\ UNCHANGED sandboxVars /\ UNCHANGED unitVars

\* The end of a failed setup: the listener's destructor removes its socket, then the
\* guard's (FixtureSetupGuard::cleanup) what it tracks, in reverse order and whatever
\* fails.  A directory goes only when it is empty.
Rollback ==
  /\ hp.pc = "rollback"
  /\ \/ hp.k = 0 /\ Goto("failed") /\ NoFault /\ UNCHANGED <<disk, lost>>
     \/ /\ hp.k > 0 /\ hp' = [hp EXCEPT !.k = @ - 1]
        /\ LET f == FixtureOrder[hp.k] IN
           \/ /\ disk' = IF f = "workspace_root" /\ "workspace" \in disk THEN disk ELSE disk \ ({f} \ lost)
              /\ NoFault /\ UNCHANGED lost
           \/ f \in disk \ lost /\ Fault /\ lost' = lost \cup {f} /\ UNCHANGED disk
  /\ UNCHANGED <<lst, late>> /\ UNCHANGED sandboxVars /\ UNCHANGED unitVars

CreateDone ==
  /\ hp.pc = "create" /\ hp.k = Len(FixtureOrder)
  /\ Goto("stage")
  /\ NoFault /\ UNCHANGED hostVars /\ UNCHANGED sandboxVars /\ UNCHANGED unitVars

\* A snapshot's two questions: the same file, and the same contents.
verify_path_identity_unchanged(f) == f \in disk /\ f \notin replaced
verify_contents_unchanged(f)      == f \notin tampered

Files        == {"protected", "workspace"}
CleanupOrder == <<"protected", "workspace", "workspace_root">>
CleanupPaths == {"protected", "workspace", "workspace_root"}

\* cleanup_files: both files must be the ones that were made, whatever they hold; then
\* one removal after the other until one fails.  The second attempt, by the destructor,
\* removes nothing if the first removed a file.
CleanupFiles(next, onError) ==
  \/ /\ \A f \in Files : verify_path_identity_unchanged(f)
     /\ disk' = disk \ CleanupPaths /\ Goto(next) /\ NoFault /\ UNCHANGED lost
  \/ /\ \A f \in Files : verify_path_identity_unchanged(f)
     /\ \E i \in DOMAIN CleanupOrder :
          /\ disk' = disk \ {CleanupOrder[j] : j \in 1 .. i - 1}
          /\ lost' = lost \cup {CleanupOrder[i]}
     /\ Fault /\ Goto(onError)
  \/ /\ \E f \in Files : ~verify_path_identity_unchanged(f)
     /\ UNCHANGED <<disk, lost>> /\ Goto(onError) /\ NoFault

RemoveFixtures ==
  /\ hp.pc = "files"
  /\ CleanupFiles("t_start", "drop")
  /\ UNCHANGED <<lst, late>> /\ UNCHANGED sandboxVars /\ UNCHANGED unitVars

\* The destructor: files first, then the listeners, each stopped and joined.
DropFixtures ==
  /\ hp.pc = "drop"
  /\ CleanupFiles("drop_listeners", "drop_listeners")
  /\ UNCHANGED <<lst, late>> /\ UNCHANGED sandboxVars /\ UNCHANGED unitVars

-----------------------------------------------------------------------------
\* Mutant: the stop flag is read before the queue has been emptied.
MonitorAcceptMutant(l) ==
  /\ lst[l].pc = "accept"
  /\ lst' = [lst EXCEPT ![l] = IF @.stop \/ @.backlog = 0 THEN [@ EXCEPT !.pc = "check"]
                               ELSE [@ EXCEPT !.backlog = lst[l].backlog - 1, !.accepts = lst[l].accepts + 1]]
  /\ NoFault /\ UNCHANGED <<hp, disk, late, lost>> /\ UNCHANGED sandboxVars /\ UNCHANGED unitVars

\* The monitor thread accepts until the queue is empty.
MonitorAccept(l) ==
  /\ lst[l].pc = "accept"
  /\ lst' = [lst EXCEPT ![l] = IF @.backlog = 0 THEN [@ EXCEPT !.pc = "check"]
                               ELSE [@ EXCEPT !.backlog = lst[l].backlog - 1, !.accepts = lst[l].accepts + 1]]
  /\ NoFault /\ UNCHANGED <<hp, disk, late, lost>> /\ UNCHANGED sandboxVars /\ UNCHANGED unitVars

\* ... then reads the stop flag, and parks for a poll interval when it is not set.
MonitorCheck(l) ==
  /\ lst[l].pc = "check"
  /\ lst' = [lst EXCEPT ![l].pc = IF lst[l].stop THEN "done" ELSE "accept"]
  /\ NoFault /\ UNCHANGED <<hp, disk, late, lost>> /\ UNCHANGED sandboxVars /\ UNCHANGED unitVars

\* accept fails: the thread ends and the listener is no longer live.
MonitorFails(l) ==
  /\ lst[l].pc = "accept" /\ Fault
  /\ lst' = [lst EXCEPT ![l].pc = "failed"]
  /\ UNCHANGED <<hp, disk, late, lost>> /\ UNCHANGED sandboxVars /\ UNCHANGED unitVars

is_live(l)   == lst[l].pc \in {"accept", "check"}
Stopped(l)   == lst[l].pc \in {"none", "done", "failed"}

\* The listeners are shut down one after the other: the flag is set and the thread joined
\* before the next one.
ShutBefore == [host_unix |-> {}, forbidden_tcp |-> {"host_unix"}, bot_tcp |-> {"host_unix", "forbidden_tcp"}]

StopListener(l) ==
  /\ hp.pc \in {"shutdown", "drop_listeners"} /\ ~lst[l].stop
  /\ \A m \in ShutBefore[l] : lst[m].stop /\ Stopped(m)
  /\ lst' = [lst EXCEPT ![l].stop = TRUE]
  /\ NoFault /\ UNCHANGED <<hp, disk, late, lost>> /\ UNCHANGED sandboxVars /\ UNCHANGED unitVars

AllStopped == \A l \in Listeners : lst[l].stop /\ Stopped(l)

verify_zero_accepts == \A l \in Listeners : lst[l].pc = "done" /\ lst[l].accepts = 0

\* cleanup_path: the path of the socket is removed, or not, and never tried again.  (The
\* code does so right after it has joined that listener's thread.)
SocketRemoved    == disk' = disk \ ({"host_unix"} \ lost) /\ NoFault /\ UNCHANGED lost
SocketNotRemoved ==
  /\ "host_unix" \in disk \ lost /\ Fault
  /\ lost' = lost \cup {"host_unix"} /\ UNCHANGED disk

\* shutdown_and_verify_zero_accepts on every listener.
ShutdownListeners ==
  /\ hp.pc = "shutdown" /\ AllStopped
  /\ \/ SocketRemoved /\ IF verify_zero_accepts THEN Goto("files") ELSE FailRuntime
     \/ SocketNotRemoved /\ FailRuntime
  /\ UNCHANGED <<lst, late>> /\ UNCHANGED sandboxVars /\ UNCHANGED unitVars

\* The listeners' destructors, whose errors are dropped.
DropListeners ==
  /\ hp.pc = "drop_listeners" /\ AllStopped
  /\ SocketRemoved \/ SocketNotRemoved
  /\ Goto("failed")
  /\ UNCHANGED <<lst, late>> /\ UNCHANGED sandboxVars /\ UNCHANGED unitVars

CanaryHostNext ==
  \/ CreateFixture \/ CreateDone \/ Rollback \/ RemoveFixtures \/ DropFixtures
  \/ ShutdownListeners \/ DropListeners
  \/ \E l \in Listeners : MonitorAccept(l) \/ MonitorCheck(l) \/ MonitorFails(l) \/ StopListener(l)
=============================================================================
