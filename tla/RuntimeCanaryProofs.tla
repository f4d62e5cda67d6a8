------------------------- MODULE RuntimeCanaryProofs -------------------------
(***************************************************************************)
(* The canaries, for any number of faults, any item ids and any set of     *)
(* hosts: they pass only on a host that does what they test, accept only   *)
(* the expected event stream, and leave no fixture behind without a        *)
(* reason of its own.                                                      *)
(*                                                                         *)
(* The properties speak about the end of the canaries; the invariant IInv  *)
(* says what each stage has established so far.  StreamInv is about the    *)
(* event stream and its acceptance, ListenerInv about what a listener has  *)
(* counted, PassInv about what the runtime canary has found when it goes   *)
(* on, LifeInv about the lifecycle canaries and FixtureInv about the       *)
(* fixtures that are still to be removed.                                  *)
(***************************************************************************)
EXTENDS RuntimeCanary, TLAPS

TimeoutPcs   == {"t_start", "t_active", "t_inactive", "t_result"}
OwnerPcs     == {"o_start", "o_child", "o_active", "o_stop", "o_inactive"}
PeerPcs      == {"p_spawn", "p_run", "p_inactive"}
LifecyclePcs == TimeoutPcs \cup OwnerPcs \cup PeerPcs \cup {"t_clean", "o_clean", "p_clean"}
\* Before there is a sandbox.
Preparing    == {"sockets", "create", "stage"}
HelperPcs    == Preparing \cup {"rollback", "unit", "evidence", "shutdown", "files", "drop", "drop_listeners"}
                \cup LifecyclePcs \cup {"passed", "failed", "killed"}
Passed       == LifecyclePcs \cup {"passed"}

Helpers        == [pc : HelperPcs, k : 0 .. 6, err : BOOLEAN]
ListenerStates == [pc : {"none", "accept", "check", "done", "failed"}, backlog : 0 .. 1,
                   accepts : 0 .. 1, stop : BOOLEAN]
UnitStates     == {"none", "active", "ok", "ended", "timeout", "bound", "stopped"}
\* The states of the parser before the command has started, and after.
BeforeCommand  == {"ThreadStarted", "TurnStarted", "CommandStarted"}
SinceCommand   == {"CommandCompleted", "AgentMessage", "TurnCompleted", "Finished"}
CodexStates    == [pc : {"none", "boot", "run", "exit"}, es : BeforeCommand \cup SinceCommand \cup {"Rejected"},
                   ids : SUBSET ItemIds, cmd : ItemIds \cup {0}, report : BOOLEAN, msg : BOOLEAN]

HelperTypes ==
  /\ hp \in Helpers
  /\ disk \subseteq Paths /\ lost \subseteq Paths /\ misread \subseteq Units
  /\ faults \in 0 .. MaxFaults
  /\ peer \in {"none", "alive", "dead"} /\ sup \in {"none", "start", "watch", "seen", "missed"}

UnitTypes == unit \in [Units -> UnitStates]

SandboxTypes ==
  /\ leaks \subseteq Leaks /\ honest \in BOOLEAN /\ broken \subseteq Breaks
  /\ codex \in CodexStates /\ tampered \subseteq Writes /\ replaced \subseteq tampered
  /\ cmds \in Seq({"probe", "other"})

ListenerTypes ==
  /\ lst \in [Listeners -> ListenerStates]
  /\ conns \subseteq Listeners /\ late \subseteq conns

Types == HelperTypes /\ UnitTypes /\ SandboxTypes /\ ListenerTypes

\* Until there is a sandbox nothing has happened in it.  The parser's state tells which
\* commands have run; a good report of an honest probe is of a sound sandbox; and the
\* unit succeeded only with all of this.
StreamInv ==
  /\ hp.pc \in Preparing =>
       /\ codex = NoCodex /\ cmds = <<>> /\ conns = {} /\ tampered = {}
       /\ unit["runtime"] = "none"
  /\ codex.es \in SinceCommand => codex.cmd \in codex.ids
  /\ codex.pc # "exit" /\ codex.es \in BeforeCommand => cmds = <<>>
  /\ codex.pc # "exit" /\ codex.es \in SinceCommand => cmds = <<"probe">>
  /\ codex.report /\ honest => leaks = {}
  /\ unit["runtime"] = "ok" => cmds = <<"probe">> /\ "runtime" \notin tampered
  /\ unit["runtime"] = "ok" /\ honest => leaks = {}

\* A connection is queued or counted; one that is not late is not left in the queue by a
\* monitor that has gone past its accept.
ListenerInv ==
  \A l \in Listeners :
    /\ lst[l].backlog + lst[l].accepts <= 1
    /\ l \notin conns => lst[l].backlog = 0 /\ lst[l].accepts = 0
    /\ l \in conns \ late =>
         \/ lst[l].accepts = 1
         \/ lst[l].pc = "accept" /\ lst[l].backlog = 1
         \/ lst[l].pc \in {"failed", "none"}

PassInv ==
  /\ hp.pc \in {"evidence", "shutdown", "files"} \cup Passed => unit["runtime"] = "ok"
  /\ hp.pc \in {"shutdown", "files"} \cup Passed => tampered = {}
  /\ hp.pc \in {"files"} \cup Passed => conns \subseteq late

\* After the first and the second lifecycle canary.
PastOwner   == PeerPcs \cup {"p_clean", "passed"}
PastTimeout == OwnerPcs \cup {"o_clean"} \cup PastOwner
\* The child ended, by itself or with its owner, or was taken to have.
ChildSeen   == unit["child"] \in {"ended", "bound"} \/ "child" \in misread
\* With the whole set of fixtures, and before any is removed.
Intact      == {"stage", "unit", "evidence", "shutdown", "files"}
Complete    == Intact \cup {"drop", "drop_listeners"}
\* A path with a reason to be left.
Excused(f)  ==
  \/ f \in lost
  \/ f = "workspace_root" /\ "workspace" \in disk
  \/ f \in CleanupPaths /\ CleanupStopped

\* An error of a lifecycle canary is kept until its clean-up ends the renewal, so
\* whatever comes after a clean-up comes after a canary that passed.
LifeInv ==
  /\ hp.err => hp.pc \in {"t_clean", "o_clean", "p_clean", "p_run", "failed", "killed"}
  /\ unit["timeout"] = "timeout" => "runtime_max" \notin broken
  /\ unit["child"] = "bound" => "binds_to" \notin broken
  /\ sup = "seen" => unit["peer"] # "active"
  /\ hp.pc \in PastTimeout => "runtime_max" \notin broken /\ unit["timeout"] # "active"
  /\ hp.pc = "t_clean" /\ ~hp.err => "runtime_max" \notin broken
  /\ hp.pc \in {"o_stop", "o_inactive"} => unit["child"] \in {"active", "ended", "bound"}
  /\ hp.pc = "o_clean" /\ ~hp.err => ChildSeen
  /\ hp.pc \in PastOwner => ChildSeen /\ unit["child"] # "active" /\ unit["anchor"] # "active"
  /\ hp.pc = "p_clean" /\ ~hp.err => sup = "seen"
  /\ hp.pc \in {"p_inactive", "passed"} => sup = "seen"

\* While the fixtures are made each is there as soon as it is counted; in a rollback what
\* is still to be removed is what is still counted; then both files are there until the
\* clean-up has stopped at one of its steps.
FixtureInv ==
  /\ hp.pc = "sockets" => disk = {} /\ hp.k = 0
  /\ hp.pc \in {"sockets", "create"} \cup Intact => lost = {}
  /\ hp.pc = "create" =>
       /\ "protected" \in disk <=> hp.k >= 1
       /\ "workspace_root" \in disk <=> hp.k >= 2
       /\ "workspace" \in disk <=> hp.k >= 3
       /\ "host_unix" \in disk <=> hp.k >= 4
  /\ hp.pc = "rollback" =>
       /\ "protected" \in disk \ lost => hp.k >= 1
       /\ "workspace_root" \in disk \ lost => hp.k >= 2 \/ "workspace" \in disk
       /\ "workspace" \in disk \ lost => hp.k >= 3
       /\ "host_unix" \in disk \ lost => hp.k >= 4
  /\ hp.pc \in Complete => hp.k = 6
  /\ hp.pc \in Intact => Files \subseteq disk
  /\ hp.pc = "drop" => Files \subseteq disk \/ lost \cap CleanupPaths # {}
  /\ hp.pc = "files" => "host_unix" \notin disk
  /\ hp.pc = "drop_listeners" =>
       disk \cap CleanupPaths = {} \/ lost \cap CleanupPaths # {} \/ "protected" \in replaced
  /\ hp.pc \in Passed => disk = {}
  /\ hp.pc = "failed" => \A f \in disk : Excused(f)

IInv == Types /\ StreamInv /\ ListenerInv /\ PassInv /\ LifeInv /\ FixtureInv


-----------------------------------------------------------------------------
\* The fixtures in the order of their creation, and those that leave a path.
LEMMA Fixtures ==
  /\ Len(FixtureOrder) = 6
  /\ FixtureOrder[1] = "protected" /\ FixtureOrder[2] = "workspace_root" /\ FixtureOrder[3] = "workspace"
  /\ FixtureOrder[4] = "host_unix" /\ FixtureOrder[5] = "forbidden_tcp" /\ FixtureOrder[6] = "bot_tcp"
  BY DEF FixtureOrder

\* The order in which a complete set is removed.
LEMMA Cleanups ==
  /\ DOMAIN CleanupOrder = 1 .. 3
  /\ CleanupOrder[1] = "protected" /\ CleanupOrder[2] = "workspace" /\ CleanupOrder[3] = "workspace_root"
  BY DEF CleanupOrder

\* The tables of the lifecycle canaries, entry by entry.
LEMMA Starts ==
  /\ DOMAIN StartStep = {"t_start", "o_start", "o_child"}
  /\ StartStep["t_start"] = <<"timeout", "t_active">>
  /\ StartStep["o_start"] = <<"anchor", "o_child">>
  /\ StartStep["o_child"] = <<"child", "o_active">>
  BY DEF StartStep

\* The units that are awaited.
LEMMA Waits ==
  /\ DOMAIN ActiveStep = {"t_active", "o_active"}
  /\ ActiveStep["t_active"] = <<"timeout", "t_inactive">>
  /\ ActiveStep["o_active"] = <<"child", "o_stop">>
  /\ DOMAIN InactiveStep = {"t_inactive", "o_inactive", "p_inactive"}
  /\ InactiveStep["t_inactive"] = <<"timeout", "t_result">>
  /\ InactiveStep["o_inactive"] = <<"child", "o_clean">>
  /\ InactiveStep["p_inactive"] = <<"peer", "p_clean">>
  BY DEF ActiveStep, InactiveStep

\* The clean-ups: where an error leads, and what a clean-up stops.
LEMMA Cleans ==
  /\ DOMAIN CleanOf = TimeoutPcs \cup OwnerPcs \cup PeerPcs
  /\ \A pc \in TimeoutPcs : CleanOf[pc] = "t_clean"
  /\ \A pc \in OwnerPcs : CleanOf[pc] = "o_clean"
  /\ \A pc \in PeerPcs : CleanOf[pc] = "p_clean"
  /\ DOMAIN CleanStep = {"t_clean", "o_clean", "p_clean"}
  /\ CleanStep["t_clean"] = <<{"timeout"}, "o_start">>
  /\ CleanStep["o_clean"] = <<{"child", "anchor"}, "p_spawn">>
  /\ CleanStep["p_clean"] = <<{"peer"}, "passed">>
  BY DEF CleanOf, CleanStep, TimeoutPcs, OwnerPcs, PeerPcs

\* The helper moves on.
LEMMA GotoUpdates ==
  ASSUME hp \in Helpers, NEW pc \in HelperPcs, Goto(pc)
  PROVE  hp' \in Helpers /\ hp'.pc = pc /\ hp'.k = hp.k /\ hp'.err = hp.err
  BY DEF Goto, Helpers

\* A lifecycle canary fails: its clean-up is next, and the error is noted.
LEMMA FailUpdates ==
  ASSUME hp \in Helpers, hp.pc \in TimeoutPcs \cup OwnerPcs \cup PeerPcs, FailLifecycle
  PROVE  /\ hp' \in Helpers /\ hp'.k = hp.k /\ hp'.err = TRUE
         /\ hp.pc \in TimeoutPcs => hp'.pc = "t_clean"
         /\ hp.pc \in OwnerPcs => hp'.pc = "o_clean"
         /\ hp.pc \in PeerPcs => hp'.pc = "p_clean"
<1> DEFINE next == CleanOf[hp.pc]
<1>1. /\ next \in {"t_clean", "o_clean", "p_clean"}
      /\ hp.pc \in TimeoutPcs => next = "t_clean"
      /\ hp.pc \in OwnerPcs => next = "o_clean"
      /\ hp.pc \in PeerPcs => next = "p_clean"
  BY Cleans
<1>2. hp' = [hp EXCEPT !.pc = next, !.err = TRUE]
  BY DEF FailLifecycle
<1> HIDE DEF next
<1> QED
  BY <1>1, <1>2 DEF Helpers, HelperPcs, LifecyclePcs

\* One unit changes, or some of the active ones are stopped.
LEMMA UnitUpdates ==
  ASSUME UnitTypes, NEW u \in Units, NEW s \in UnitStates, unit' = [unit EXCEPT ![u] = s]
  PROVE  UnitTypes' /\ unit'[u] = s /\ \A v \in Units \ {u} : unit'[v] = unit[v]
  BY DEF UnitTypes

\* Stopping units changes active ones only.
LEMMA StopUpdates ==
  ASSUME UnitTypes, NEW us, unit' = StopUnits(us)
  PROVE  /\ UnitTypes'
         /\ \A v \in Units : unit'[v] = IF v \in us /\ unit[v] = "active" THEN "stopped" ELSE unit[v]
  BY DEF UnitTypes, UnitStates, StopUnits, Active


-----------------------------------------------------------------------------
\* The three groups of steps, and what each leaves alone.

\* The steps of the lifecycle canaries are about units, and about the helper while it
\* is at one of these canaries.
LEMMA LifecycleFrame ==
  ASSUME HelperTypes, UnitTypes, LifecycleNext
  PROVE  /\ UNCHANGED hostVars /\ UNCHANGED sandboxVars
         /\ HelperTypes' /\ UnitTypes'
         /\ hp' = hp \/ (hp.pc \in LifecyclePcs /\ hp'.pc \in Passed \cup {"failed"})
         /\ \/ unit'["runtime"] = unit["runtime"]
            \/ unit["runtime"] = "active" /\ unit'["runtime"] = "bound"
<1>1. UNCHANGED hostVars /\ UNCHANGED sandboxVars
  BY DEF LifecycleNext, LifecycleSteps, StartUnit, WaitForUnit, wait_for_unit_active, wait_for_unit_inactive,
         verify_timeout_unit_result, StopAnchor, CleanupUnits, SpawnPeer, SuperviseStart, KillPeer,
         SuperviseSees, SuperviseEnd, JoinPeer, RuntimeMaxExpires, SleepEnds, BoundStop, HostUnchanged, unitVars
<1>0. /\ hp \in Helpers /\ faults \in 0 .. MaxFaults /\ MaxFaults \in Nat
      /\ "timeout" \in Units /\ "anchor" \in Units /\ "child" \in Units /\ "peer" \in Units /\ "runtime" \in Units
      /\ "active" \in UnitStates /\ "stopped" \in UnitStates /\ "ended" \in UnitStates
      /\ "bound" \in UnitStates /\ "timeout" \in UnitStates
  BY CanaryAssumption DEF HelperTypes, Units, UnitStates
<1> DEFINE Good == /\ hp' \in Helpers /\ hp'.k = hp.k /\ UnitTypes'
                   /\ hp' = hp \/ (hp.pc \in LifecyclePcs /\ hp'.pc \in Passed \cup {"failed"})
                   /\ \/ unit'["runtime"] = unit["runtime"]
                      \/ unit["runtime"] = "active" /\ unit'["runtime"] = "bound"
                   /\ faults' \in 0 .. MaxFaults /\ peer' \in {"none", "alive", "dead"}
                   /\ misread' \subseteq Units
                   /\ sup' \in {"none", "start", "watch", "seen", "missed"}
<1> SUFFICES Good
  BY <1>1 DEF HelperTypes, hostVars
<1>a. ASSUME FailLifecycle, hp.pc \in TimeoutPcs \cup OwnerPcs \cup PeerPcs
      PROVE  hp' \in Helpers /\ hp'.k = hp.k /\ hp.pc \in LifecyclePcs /\ hp'.pc \in Passed \cup {"failed"}
  BY <1>a, <1>0, FailUpdates DEF LifecyclePcs, Passed
<1>b. ASSUME NEW pc \in Passed \cup {"failed"}, Goto(pc), hp.pc \in LifecyclePcs
      PROVE  hp' \in Helpers /\ hp'.k = hp.k /\ hp.pc \in LifecyclePcs /\ hp'.pc \in Passed \cup {"failed"}
  <2>1. pc \in HelperPcs
    BY DEF Passed, HelperPcs
  <2> QED
    BY <1>b, <1>0, <2>1, GotoUpdates
<1>c. UNCHANGED faults \/ Fault => faults' \in 0 .. MaxFaults
  BY <1>0 DEF Fault
<1>2. CASE StartUnit
  <2> DEFINE u == StartStep[hp.pc][1]
             next == StartStep[hp.pc][2]
  <2>1. /\ hp.pc \in TimeoutPcs \cup OwnerPcs \cup PeerPcs /\ hp.pc \in LifecyclePcs
        /\ u \in Units \ {"runtime"} /\ next \in Passed
    BY <1>2, Starts DEF StartUnit, TimeoutPcs, OwnerPcs, LifecyclePcs, Passed, Units
  <2>2. \/ Goto(next) /\ unit' = [unit EXCEPT ![u] = "active"] /\ NoFault
        \/ FailLifecycle /\ unit' \in {unit, [unit EXCEPT ![u] = "active"]} /\ Fault
    BY <1>2 DEF StartUnit
  <2>3. UNCHANGED <<peer, sup, misread>>
    BY <1>2 DEF StartUnit
  <2> HIDE DEF u, next
  <2>4. /\ hp' \in Helpers /\ hp'.k = hp.k /\ hp.pc \in LifecyclePcs /\ hp'.pc \in Passed \cup {"failed"}
    BY <2>1, <2>2, <1>a, <1>b
  <2>5. UnitTypes' /\ unit'["runtime"] = unit["runtime"]
    BY <2>1, <2>2, <1>0 DEF UnitTypes
  <2> QED
    BY <2>2, <2>3, <2>4, <2>5, <1>c DEF NoFault, HelperTypes
<1>3. CASE wait_for_unit_active
  <2>1. /\ hp.pc \in TimeoutPcs \cup OwnerPcs \cup PeerPcs /\ hp.pc \in LifecyclePcs
        /\ ActiveStep[hp.pc][2] \in Passed
    BY <1>3, Waits DEF wait_for_unit_active, TimeoutPcs, OwnerPcs, LifecyclePcs, Passed
  <2>2. /\ Goto(ActiveStep[hp.pc][2]) \/ FailLifecycle
        /\ UNCHANGED <<unit, peer, sup, misread>> /\ (UNCHANGED faults \/ Fault)
    BY <1>3 DEF wait_for_unit_active, WaitForUnit, NoFault
  <2> QED
    BY <2>1, <2>2, <1>a, <1>b, <1>c DEF HelperTypes, UnitTypes
<1>4. CASE wait_for_unit_inactive
  <2>1. /\ hp.pc \in TimeoutPcs \cup OwnerPcs \cup PeerPcs /\ hp.pc \in LifecyclePcs
        /\ InactiveStep[hp.pc][2] \in Passed /\ InactiveStep[hp.pc][1] \in Units
    BY <1>0, <1>4, Waits DEF wait_for_unit_inactive, TimeoutPcs, OwnerPcs, PeerPcs, LifecyclePcs, Passed
  <2>2. /\ Goto(InactiveStep[hp.pc][2]) \/ FailLifecycle
        /\ UNCHANGED <<unit, peer, sup>> /\ (UNCHANGED faults \/ Fault)
        /\ misread' = misread \/ misread' = misread \cup {InactiveStep[hp.pc][1]}
    BY <1>4 DEF wait_for_unit_inactive, WaitForUnit, NoFault
  <2> QED
    BY <2>1, <2>2, <1>a, <1>b, <1>c DEF HelperTypes, UnitTypes
<1>5. CASE verify_timeout_unit_result
  <2>1. hp.pc \in TimeoutPcs /\ hp.pc \in LifecyclePcs /\ "t_clean" \in Passed
    BY <1>5 DEF verify_timeout_unit_result, TimeoutPcs, LifecyclePcs, Passed
  <2>2. /\ Goto("t_clean") \/ FailLifecycle
        /\ UNCHANGED <<unit, peer, sup, misread>> /\ (UNCHANGED faults \/ Fault)
    BY <1>5 DEF verify_timeout_unit_result, NoFault, unitVars
  <2> QED
    BY <2>1, <2>2, <1>a, <1>b, <1>c DEF HelperTypes, UnitTypes
<1>6. CASE StopAnchor
  <2>1. hp.pc \in OwnerPcs /\ hp.pc \in LifecyclePcs /\ "o_inactive" \in Passed
    BY <1>6 DEF StopAnchor, OwnerPcs, LifecyclePcs, Passed
  <2>2. /\ Goto("o_inactive") \/ FailLifecycle
        /\ UNCHANGED <<peer, sup, misread>> /\ (UNCHANGED faults \/ Fault)
        /\ UNCHANGED unit \/ unit' = [unit EXCEPT !["anchor"] = "stopped"] \/ unit' = [unit EXCEPT !["anchor"] = @]
    BY <1>6 DEF StopAnchor, NoFault, Active
  <2>3. UnitTypes' /\ unit'["runtime"] = unit["runtime"]
    BY <2>2, <1>0 DEF UnitTypes
  <2> QED
    BY <2>1, <2>2, <2>3, <1>a, <1>b, <1>c DEF HelperTypes
<1>7. CASE CleanupUnits
  <2>1. /\ hp.pc \in LifecyclePcs /\ CleanStep[hp.pc][2] \in Passed /\ "runtime" \notin CleanStep[hp.pc][1]
    BY <1>7, Cleans DEF CleanupUnits, LifecyclePcs, Passed, PeerPcs, OwnerPcs
  <2>2. /\ Goto(CleanStep[hp.pc][2]) \/ Goto("failed")
        /\ UNCHANGED <<peer, sup, misread>> /\ (UNCHANGED faults \/ Fault)
        /\ UNCHANGED unit \/ \E us \in SUBSET CleanStep[hp.pc][1] : unit' = StopUnits(us)
    BY <1>7 DEF CleanupUnits, NoFault
  <2>3. UnitTypes' /\ unit'["runtime"] = unit["runtime"]
    <3>1. CASE UNCHANGED unit
      BY <3>1 DEF UnitTypes
    <3>2. CASE \E us \in SUBSET CleanStep[hp.pc][1] : unit' = StopUnits(us)
      <4>1. PICK us \in SUBSET CleanStep[hp.pc][1] : unit' = StopUnits(us)
        BY <3>2
      <4> QED
        BY <4>1, <2>1, <1>0, StopUpdates
    <3> QED
      BY <2>2, <3>1, <3>2
  <2> QED
    BY <2>1, <2>2, <2>3, <1>b, <1>c DEF HelperTypes
<1>8. CASE SpawnPeer
  <2>1. hp.pc \in LifecyclePcs /\ "p_run" \in Passed
    BY <1>8 DEF SpawnPeer, PeerPcs, LifecyclePcs, Passed
  <2>2. /\ Goto("p_run") \/ Goto("failed")
        /\ UNCHANGED <<unit, misread>> /\ (UNCHANGED faults \/ Fault)
        /\ peer' \in {peer, "alive"} /\ sup' \in {sup, "start"}
    BY <1>8 DEF SpawnPeer, NoFault
  <2> QED
    BY <2>1, <2>2, <1>b, <1>c DEF HelperTypes, UnitTypes
<1>9. CASE SuperviseStart \/ SuperviseSees \/ SuperviseEnd
  <2>1. /\ UNCHANGED <<hp, peer, misread>> /\ (UNCHANGED faults \/ Fault) /\ sup' \in {"watch", "missed", "seen"}
        /\ UNCHANGED unit \/ unit' = [unit EXCEPT !["peer"] = "active"] \/ unit' = StopUnits({"peer"})
    BY <1>9 DEF SuperviseStart, SuperviseSees, SuperviseEnd, NoFault
  <2>2. UnitTypes' /\ unit'["runtime"] = unit["runtime"]
    <3>1. CASE unit' = StopUnits({"peer"})
      BY <3>1, <1>0, StopUpdates
    <3>2. CASE UNCHANGED unit \/ unit' = [unit EXCEPT !["peer"] = "active"]
      BY <3>2, <1>0 DEF UnitTypes
    <3> QED
      BY <2>1, <3>1, <3>2
  <2> QED
    BY <2>1, <2>2, <1>0, <1>c DEF HelperTypes
<1>10. CASE KillPeer
  <2>1. /\ hp' = [hp EXCEPT !.err = ~Active("peer")] \/ hp' = [hp EXCEPT !.err = TRUE]
        /\ hp.pc = "p_run" /\ (UNCHANGED faults \/ Fault)
        /\ peer' = "dead" /\ UNCHANGED <<unit, sup, misread>>
    BY <1>10 DEF KillPeer, NoFault
  <2>2. hp' \in Helpers /\ hp'.k = hp.k /\ hp'.pc = "p_run"
    BY <2>1, <1>0 DEF Helpers
  <2> QED
    BY <2>1, <2>2, <1>c DEF HelperTypes, UnitTypes, Passed, LifecyclePcs, PeerPcs
<1>11. CASE JoinPeer
  <2>1. /\ Goto("p_inactive") \/ FailLifecycle
        /\ hp.pc = "p_run" /\ UNCHANGED <<faults, unit, peer, sup, misread>>
    BY <1>11 DEF JoinPeer, NoFault, unitVars
  <2>2. hp.pc \in LifecyclePcs /\ hp.pc \in PeerPcs /\ "p_inactive" \in Passed
    BY <2>1 DEF PeerPcs, LifecyclePcs, Passed
  <2> QED
    BY <2>1, <2>2, <1>a, <1>b DEF HelperTypes, UnitTypes
<1>12. CASE RuntimeMaxExpires
  <2>1. unit' = [unit EXCEPT !["timeout"] = "timeout"] /\ UNCHANGED <<hp, faults, peer, sup, misread>>
    BY <1>12 DEF RuntimeMaxExpires, NoFault
  <2> QED
    BY <2>1, <1>0 DEF HelperTypes, UnitTypes
<1>13. ASSUME NEW u \in Units, SleepEnds(u) \/ BoundStop(u)
       PROVE  Good
  <2>1. /\ UNCHANGED <<hp, faults, peer, sup, misread>> /\ unit[u] = "active"
        /\ (unit' = [unit EXCEPT ![u] = "ended"] /\ u # "runtime") \/ unit' = [unit EXCEPT ![u] = "bound"]
    BY <1>13 DEF SleepEnds, BoundStop, NoFault, Active
  <2>2. UnitTypes' /\ (unit'["runtime"] = unit["runtime"] \/ (u = "runtime" /\ unit'["runtime"] = "bound"))
    BY <2>1, <1>0 DEF UnitTypes
  <2> QED
    BY <2>1, <2>2, <1>0 DEF HelperTypes
<1> QED
  BY <1>2, <1>3, <1>4, <1>5, <1>6, <1>7, <1>8, <1>9, <1>10, <1>11, <1>12, <1>13 DEF LifecycleNext, LifecycleSteps


\* The steps inside the sandbox need an active unit, and change neither the helper nor
\* the other units.
LEMMA StreamFrame ==
  ASSUME HelperTypes, UnitTypes, SandboxTypes, CanaryStreamNext
  PROVE  /\ UNCHANGED <<hp, disk, lost, leaks, honest, broken, peer, sup, misread>>
         /\ HelperTypes' /\ UnitTypes' /\ SandboxTypes'
         /\ unit["runtime"] = "active" /\ codex.pc \in {"boot", "run"}
         /\ \A u \in Units \ {"runtime"} : unit'[u] = unit[u]
         /\ replaced \subseteq replaced'
<1>0. /\ unit \in [Units -> UnitStates] /\ "runtime" \in Units
      /\ "ok" \in UnitStates /\ "ended" \in UnitStates /\ faults \in 0 .. MaxFaults /\ MaxFaults \in Nat
  BY CanaryAssumption DEF UnitTypes, Units, UnitStates, HelperTypes
<1>1. /\ UNCHANGED <<hp, disk, lost, leaks, honest, broken, peer, sup, misread>>
      /\ unit["runtime"] = "active" /\ codex.pc \in {"boot", "run"} /\ (UNCHANGED faults \/ Fault)
      /\ \/ UNCHANGED unit
         \/ \E s \in {"ok", "ended"} : unit' = [unit EXCEPT !["runtime"] = s]
  <2>1. CASE EndCodex
    BY <2>1 DEF EndCodex, CodexRuns, StreamUnchanged, NoFault
  <2>2. CASE ~EndCodex
    BY <2>2 DEF CanaryStreamNext, BootCanary, CodexEvent, StartCommand, CompleteCommand, Tamper, Connect,
           CodexRuns, StreamUnchanged, NoFault
  <2> QED
    BY <2>1, <2>2
<1>2. HelperTypes'
  BY <1>0, <1>1 DEF HelperTypes, Fault
<1>3. UnitTypes' /\ \A u \in Units \ {"runtime"} : unit'[u] = unit[u]
  BY <1>0, <1>1 DEF UnitTypes
<1>4. codex' \in CodexStates
  <2>0. codex \in CodexStates
    BY DEF SandboxTypes
  <2>1. Reject \in CodexStates
    BY DEF Reject, NoCodex, CodexStates
  <2>2. OnThreadStarted \in CodexStates /\ OnTurnStarted \in CodexStates /\ OnTurnCompleted \in CodexStates
    BY <2>0, <2>1 DEF OnThreadStarted, OnTurnStarted, OnTurnCompleted, Accept, CodexStates, BeforeCommand, SinceCommand
  <2>3. \A id \in ItemIds : OnReasoning(id) \in CodexStates
    BY <2>0, <2>1 DEF OnReasoning, Seen, CodexStates
  <2>4. \A id \in ItemIds, matches \in BOOLEAN : [OnAgentMessage(id, matches) EXCEPT !.msg = matches] \in CodexStates
    <3>1. \A id \in ItemIds, matches \in BOOLEAN : OnAgentMessage(id, matches) \in CodexStates
      BY <2>0, <2>1 DEF OnAgentMessage, Seen, Accept, CodexStates, SinceCommand
    <3> QED
      BY <3>1 DEF CodexStates
  <2>5. \A c : \A id \in ItemIds : OnItemStarted(c, id) \in CodexStates
    BY <2>0, <2>1 DEF OnItemStarted, Seen, Accept, CodexStates, SinceCommand
  <2>6. \A c, id : \A report \in BOOLEAN : OnCommandCompleted(c, id, report) \in CodexStates
    BY <2>0, <2>1 DEF OnCommandCompleted, Accept, CodexStates, SinceCommand
  <2>7. collect_checks \subseteq BOOLEAN
    BY DEF collect_checks
  <2>8. CASE BootCanary
    BY <2>8, <2>0 DEF BootCanary, CodexStates
  <2>9. CASE CodexEvent
    BY <2>9, <2>1, <2>2, <2>3, <2>4 DEF CodexEvent
  <2>10. CASE StartCommand
    BY <2>10, <2>5 DEF StartCommand
  <2>11. CASE CompleteCommand
    BY <2>11, <2>6, <2>7 DEF CompleteCommand
  <2>12. CASE EndCodex
    BY <2>12 DEF EndCodex, NoCodex, CodexStates, BeforeCommand
  <2>13. CASE \E f \in Writes : Tamper(f)
    BY <2>13, <2>0 DEF Tamper
  <2>14. CASE \E l \in Listeners : Connect(l)
    BY <2>14, <2>0 DEF Connect
  <2> QED
    BY <2>8, <2>9, <2>10, <2>11, <2>12, <2>13, <2>14 DEF CanaryStreamNext
<1>5. tampered' \subseteq Writes /\ replaced' \subseteq tampered' /\ replaced \subseteq replaced'
  BY DEF SandboxTypes, CanaryStreamNext, BootCanary, CodexEvent, StartCommand, CompleteCommand, EndCodex, Tamper, Connect
<1>6. cmds' \in Seq({"probe", "other"})
  <2>1. CASE StartCommand
    BY <2>1 DEF StartCommand, SandboxTypes
  <2>2. CASE UNCHANGED cmds
    BY <2>2 DEF SandboxTypes
  <2> QED
    BY <2>1, <2>2 DEF CanaryStreamNext, BootCanary, CodexEvent, CompleteCommand, EndCodex, Tamper, Connect
<1> QED
  BY <1>1, <1>2, <1>3, <1>4, <1>5, <1>6 DEF SandboxTypes

\* The threads of the listeners.
MonitorStep(l) == MonitorAccept(l) \/ MonitorCheck(l) \/ MonitorFails(l) \/ StopListener(l)

\* The threads change their listeners only.
LEMMA MonitorFrame ==
  ASSUME HelperTypes, NEW l \in Listeners, MonitorStep(l)
  PROVE  /\ UNCHANGED <<hp, disk, late, lost>> /\ UNCHANGED sandboxVars /\ UNCHANGED unitVars
         /\ HelperTypes'
<1>1. /\ UNCHANGED <<hp, disk, late, lost>> /\ UNCHANGED sandboxVars /\ UNCHANGED unitVars
      /\ UNCHANGED faults \/ Fault
  BY DEF MonitorStep, MonitorAccept, MonitorCheck, MonitorFails, StopListener, NoFault
<1>2. faults' \in 0 .. MaxFaults
  BY <1>1, CanaryAssumption DEF HelperTypes, Fault
<1> QED
  BY <1>1, <1>2 DEF HelperTypes, unitVars

\* The steps of the helper in the runtime canary.
RuntimeStep ==
  \/ CanarySteps \/ CreateFixture \/ CreateDone \/ Rollback \/ RemoveFixtures \/ DropFixtures
  \/ ShutdownListeners \/ DropListeners

\* The helper's steps in the runtime canary, by the point it is at: where they lead, and
\* what they need to go on.
LEMMA RuntimeMoves ==
  ASSUME HelperTypes, RuntimeStep
  PROVE  /\ HelperTypes' /\ hp'.err = hp.err
         /\ UNCHANGED <<leaks, honest, broken, cmds, conns, late, tampered, replaced, peer, sup, misread>>
         /\ \/ hp.pc = "sockets" /\ hp'.pc \in {"create", "failed"} /\ UNCHANGED <<lst, unit, codex>>
            \/ /\ hp.pc = "create" /\ hp'.pc \in {"create", "stage"}
               /\ UNCHANGED <<unit, codex>>
               /\ UNCHANGED lst \/ \E f \in Listeners : lst' = [lst EXCEPT ![f].pc = "accept"]
            \/ /\ hp.pc = "create" /\ hp'.pc = "rollback" /\ UNCHANGED <<unit, codex>>
               /\ lst' = [l \in Listeners |-> NoListener]
            \/ hp.pc = "rollback" /\ hp'.pc \in {"rollback", "failed"} /\ UNCHANGED <<lst, unit, codex>>
            \/ /\ hp.pc = "stage" /\ hp'.pc = "unit" /\ UNCHANGED lst
               /\ unit' = [unit EXCEPT !["runtime"] = "active"] /\ codex' = [codex EXCEPT !.pc = "boot"]
            \/ /\ hp.pc = "unit" /\ hp'.pc = "evidence" /\ unit["runtime"] = "ok"
               /\ UNCHANGED <<lst, unit, codex>>
            \/ /\ hp.pc = "unit" /\ hp'.pc = "drop" /\ UNCHANGED <<lst, codex>>
               /\ \/ UNCHANGED unit
                  \/ unit["runtime"] = "active" /\ unit' = [unit EXCEPT !["runtime"] = "stopped"]
            \/ /\ hp.pc = "evidence" /\ hp'.pc = "shutdown" /\ "protected" \notin tampered
               /\ UNCHANGED <<lst, unit, codex>>
            \/ hp.pc \in {"stage", "evidence"} /\ hp'.pc = "drop" /\ UNCHANGED <<lst, unit, codex>>
            \/ /\ hp.pc = "shutdown" /\ hp'.pc = "files" /\ verify_zero_accepts
               /\ UNCHANGED <<lst, unit, codex>>
            \/ hp.pc = "shutdown" /\ hp'.pc = "drop" /\ UNCHANGED <<lst, unit, codex>>
            \/ hp.pc = "files" /\ hp'.pc \in {"t_start", "drop"} /\ UNCHANGED <<lst, unit, codex>>
            \/ hp.pc = "drop" /\ hp'.pc = "drop_listeners" /\ UNCHANGED <<lst, unit, codex>>
            \/ hp.pc = "drop_listeners" /\ hp'.pc = "failed" /\ UNCHANGED <<lst, unit, codex>>
<1>0. hp \in Helpers /\ faults \in 0 .. MaxFaults /\ MaxFaults \in Nat
  BY CanaryAssumption DEF HelperTypes
<1>a. \A pc \in HelperPcs : Goto(pc) => hp' \in Helpers /\ hp'.pc = pc /\ hp'.k = hp.k /\ hp'.err = hp.err
  BY <1>0, GotoUpdates
<1>b. /\ "create" \in HelperPcs /\ "failed" \in HelperPcs /\ "stage" \in HelperPcs /\ "unit" \in HelperPcs
      /\ "evidence" \in HelperPcs /\ "shutdown" \in HelperPcs /\ "files" \in HelperPcs /\ "rollback" \in HelperPcs
      /\ "drop" \in HelperPcs /\ "drop_listeners" \in HelperPcs /\ "t_start" \in HelperPcs
  BY DEF HelperPcs, Preparing, LifecyclePcs, TimeoutPcs
<1>c. UNCHANGED faults \/ Fault => faults' \in 0 .. MaxFaults
  BY <1>0 DEF Fault
<1>d. ASSUME hp' \in Helpers, UNCHANGED faults \/ Fault, disk' \subseteq Paths, lost' \subseteq Paths,
             UNCHANGED <<peer, sup, misread>>
      PROVE  HelperTypes'
  BY <1>d, <1>c DEF HelperTypes
<1>e. disk \subseteq Paths /\ lost \subseteq Paths /\ "host_unix" \in Paths
  BY DEF HelperTypes, Paths
<1>1. CASE WaitSockets
  BY <1>1, <1>a, <1>b, <1>d, <1>e DEF WaitSockets, NoFault, hostVars, sandboxVars, unitVars
<1>2. CASE StageCanary
  BY <1>2, <1>a, <1>b, <1>d, <1>e DEF StageCanary, FailRuntime, NoFault, hostVars
<1>3. CASE RunRuntimeCanary
  BY <1>3, <1>a, <1>b, <1>d, <1>e DEF RunRuntimeCanary, FailRuntime, NoFault, hostVars, sandboxVars, Active
<1>4. CASE CheckEvidence
  BY <1>4, <1>a, <1>b, <1>d, <1>e DEF CheckEvidence, HostEvidenceValid, verify_contents_unchanged, Files,
     FailRuntime, NoFault, hostVars, sandboxVars, unitVars
<1>5. CASE CreateDone
  BY <1>5, <1>a, <1>b, <1>d, <1>e DEF CreateDone, NoFault, hostVars, sandboxVars, unitVars
<1>6. CASE RemoveFixtures \/ DropFixtures
  <2>1. /\ disk' \subseteq disk /\ (UNCHANGED faults \/ Fault)
        /\ UNCHANGED lost \/ \E i \in DOMAIN CleanupOrder : lost' = lost \cup {CleanupOrder[i]}
    BY <1>6 DEF RemoveFixtures, DropFixtures, CleanupFiles, NoFault
  <2>2. \A i \in DOMAIN CleanupOrder : CleanupOrder[i] \in Paths
    <3>1. \A i \in 1 .. 3 : i = 1 \/ i = 2 \/ i = 3
      OBVIOUS
    <3> QED
      BY <3>1, Cleanups DEF Paths
  <2>3. lost' \subseteq Paths
    BY <2>1, <2>2, <1>e
  <2>4. /\ UNCHANGED <<lst, late>> /\ UNCHANGED sandboxVars /\ UNCHANGED unitVars
        /\ \/ hp.pc = "files" /\ (Goto("t_start") \/ Goto("drop"))
           \/ hp.pc = "drop" /\ Goto("drop_listeners")
    BY <1>6 DEF RemoveFixtures, DropFixtures, CleanupFiles
  <2> QED
    BY <2>1, <2>3, <2>4, <1>a, <1>b, <1>d, <1>e DEF sandboxVars, unitVars
<1>8. CASE ShutdownListeners
  BY <1>8, <1>a, <1>b, <1>d, <1>e DEF ShutdownListeners, SocketRemoved, SocketNotRemoved, FailRuntime, NoFault,
     sandboxVars, unitVars
<1>9. CASE DropListeners
  BY <1>9, <1>a, <1>b, <1>d, <1>e DEF DropListeners, SocketRemoved, SocketNotRemoved, NoFault, sandboxVars, unitVars
<1>10. CASE CreateFixture
  <2> DEFINE f == FixtureOrder[hp.k + 1]
  <2>1. /\ hp.pc = "create" /\ hp.k \in 0 .. 5
        /\ UNCHANGED late /\ UNCHANGED sandboxVars /\ UNCHANGED unitVars
    BY <1>10, <1>0, Fixtures DEF CreateFixture, Helpers
  <2>2. CASE /\ Fault /\ hp' = [hp EXCEPT !.pc = "rollback", !.k = @ + 1]
             /\ \/ UNCHANGED <<disk, lost>>
                \/ f \in Paths /\ disk' = disk \cup {f} /\ lost' = lost \cup {f}
                \/ f \in Paths /\ disk' = disk \cup {f} /\ UNCHANGED lost
             /\ lst' = NoListeners
    <3> HIDE DEF f
    <3>0. hp' = [hp EXCEPT !.pc = "rollback", !.k = @ + 1] /\ hp.k + 1 \in 0 .. 6
      BY <2>1, <2>2
    <3>1. hp' \in Helpers /\ hp'.pc = "rollback" /\ hp'.err = hp.err
      BY <3>0, <1>0, <1>b DEF Helpers
    <3>2. disk' \subseteq Paths /\ lost' \subseteq Paths
      BY <2>2, <1>e
    <3> QED
      BY <2>1, <2>2, <3>1, <3>2, <1>d DEF sandboxVars, unitVars, NoListeners
  <2>3. CASE Create(f)
    <3> HIDE DEF f
    <3>1. hp' \in Helpers /\ hp'.pc = "create" /\ hp'.err = hp.err
      BY <2>1, <2>3, <1>0 DEF Create, Helpers
    <3>2. disk' \subseteq Paths /\ lost' \subseteq Paths /\ UNCHANGED faults
      BY <2>3, <1>e DEF Create, NoFault
    <3>4. UNCHANGED lst \/ \E l \in Listeners : lst' = [lst EXCEPT ![l].pc = "accept"]
      BY <2>3 DEF Create
    <3> QED
      BY <2>1, <3>1, <3>2, <3>4, <1>d DEF sandboxVars, unitVars
  <2> QED
    BY <1>10, <2>2, <2>3 DEF CreateFixture, Untracked, Uncaptured
<1>11. CASE Rollback
  <2>1. /\ hp.pc = "rollback" /\ UNCHANGED <<lst, late>> /\ UNCHANGED sandboxVars /\ UNCHANGED unitVars
        /\ Goto("failed") \/ (hp.k > 0 /\ hp' = [hp EXCEPT !.k = @ - 1])
        /\ UNCHANGED faults \/ Fault
        /\ disk' \subseteq disk /\ lost' \subseteq lost \cup disk
    BY <1>11 DEF Rollback, NoFault
  <2>2. hp' \in Helpers /\ hp'.pc \in {"rollback", "failed"} /\ hp'.err = hp.err
    BY <2>1, <1>0, <1>a, <1>b DEF Helpers
  <2> QED
    BY <2>1, <2>2, <1>d, <1>e DEF sandboxVars, unitVars
<1> QED
  BY <1>1, <1>2, <1>3, <1>4, <1>5, <1>6, <1>8, <1>9, <1>10, <1>11 DEF RuntimeStep, CanarySteps


\* A kill: the threads go with the helper.
LEMMA KillFrame ==
  ASSUME HelperTypes, KillCanary
  PROVE  /\ HelperTypes' /\ hp'.pc = "killed"
         /\ lst' = [l \in Listeners |-> NoListener]
         /\ UNCHANGED <<disk, late, lost, unit, sup, misread>> /\ UNCHANGED sandboxVars
<1>1. hp \in Helpers /\ "killed" \in HelperPcs /\ faults \in 0 .. MaxFaults /\ MaxFaults \in Nat
  BY CanaryAssumption DEF HelperTypes, HelperPcs
<1>2. hp' \in Helpers /\ hp'.pc = "killed" /\ hp'.k = hp.k
  BY <1>1, GotoUpdates DEF KillCanary
<1>3. faults' \in 0 .. MaxFaults
  BY <1>1 DEF KillCanary, Fault
<1> QED
  BY <1>2, <1>3 DEF KillCanary, HelperTypes, NoListeners

\* The steps of the specification, by group.
LEMMA NextGroups ==
  ASSUME Next
  PROVE  \/ RuntimeStep \/ KillCanary \/ CanaryStreamNext \/ LifecycleNext
         \/ \E l \in Listeners : MonitorStep(l)
  BY DEF Next, CanaryHostNext, RuntimeStep, MonitorStep

-----------------------------------------------------------------------------
\* Every step keeps the types of helper, units and sandbox.
LEMMA TypeStep == Types /\ [Next]_canaryVars => HelperTypes' /\ UnitTypes' /\ SandboxTypes'
<1> SUFFICES ASSUME Types, [Next]_canaryVars
             PROVE  HelperTypes' /\ UnitTypes' /\ SandboxTypes'
  OBVIOUS
<1>0. HelperTypes /\ UnitTypes /\ SandboxTypes /\ "runtime" \in Units
  BY DEF Types, Units
<1>1. CASE RuntimeStep
  <2>1. HelperTypes' /\ UNCHANGED <<leaks, honest, broken, cmds, tampered, replaced>>
    BY <1>0, <1>1, RuntimeMoves
  <2>2. /\ UNCHANGED codex \/ codex' = [codex EXCEPT !.pc = "boot"]
        /\ UNCHANGED unit \/ \E s \in {"active", "stopped"} : unit' = [unit EXCEPT !["runtime"] = s]
    BY <1>0, <1>1, RuntimeMoves
  <2>3. UnitTypes'
    BY <2>2, <1>0 DEF UnitTypes, UnitStates
  <2>4. codex' \in CodexStates
    BY <2>2, <1>0 DEF SandboxTypes, CodexStates
  <2> QED
    BY <2>1, <2>3, <2>4, <1>0 DEF SandboxTypes
<1>2. CASE KillCanary
  BY <1>0, <1>2, KillFrame DEF UnitTypes, SandboxTypes, sandboxVars
<1>3. CASE CanaryStreamNext
  BY <1>0, <1>3, StreamFrame
<1>4. CASE LifecycleNext
  BY <1>0, <1>4, LifecycleFrame DEF SandboxTypes, sandboxVars
<1>5. CASE \E l \in Listeners : MonitorStep(l)
  BY <1>0, <1>5, MonitorFrame DEF UnitTypes, SandboxTypes, sandboxVars, unitVars
<1>6. CASE UNCHANGED canaryVars
  BY <1>0, <1>6 DEF canaryVars, HelperTypes, UnitTypes, SandboxTypes
<1> QED
  BY <1>1, <1>2, <1>3, <1>4, <1>5, <1>6, NextGroups

\* A listener counts every connection that is not late.
LEMMA ListenerStep ==
  Types /\ StreamInv /\ ListenerInv /\ [Next]_canaryVars => ListenerTypes' /\ ListenerInv'
<1> SUFFICES ASSUME Types, StreamInv, ListenerInv, [Next]_canaryVars
             PROVE  ListenerTypes' /\ ListenerInv'
  OBVIOUS
<1>0. HelperTypes /\ UnitTypes /\ SandboxTypes /\ ListenerTypes /\ lst \in [Listeners -> ListenerStates]
  BY DEF Types, ListenerTypes
<1>a. ASSUME UNCHANGED <<lst, conns, late>>
      PROVE  ListenerTypes' /\ ListenerInv'
  BY <1>a, <1>0 DEF ListenerTypes, ListenerInv
<1>b. ASSUME UNCHANGED <<conns, late>>, lst' = [l \in Listeners |-> NoListener]
      PROVE  ListenerTypes' /\ ListenerInv'
  BY <1>b, <1>0 DEF ListenerTypes, ListenerInv, ListenerStates, NoListener
<1>1. CASE RuntimeStep
  <2>1. CASE \E f \in Listeners : lst' = [lst EXCEPT ![f].pc = "accept"] /\ hp.pc = "create"
    <3>1. PICK f \in Listeners : lst' = [lst EXCEPT ![f].pc = "accept"]
      BY <2>1
    <3>2. conns = {} /\ UNCHANGED <<conns, late>>
      BY <1>0, <1>1, <2>1, RuntimeMoves DEF StreamInv, Preparing
    <3>3. /\ lst' \in [Listeners -> ListenerStates]
          /\ \A l \in Listeners : lst'[l].backlog = lst[l].backlog /\ lst'[l].accepts = lst[l].accepts
      BY <3>1, <1>0 DEF ListenerStates
    <3> QED
      BY <3>2, <3>3, <1>0 DEF ListenerTypes, ListenerInv
  <2>2. CASE UNCHANGED <<lst, conns, late>>
    BY <2>2, <1>a
  <2>3. CASE UNCHANGED <<conns, late>> /\ lst' = [l \in Listeners |-> NoListener]
    BY <2>3, <1>b
  <2> QED
    BY <1>0, <1>1, <2>1, <2>2, <2>3, RuntimeMoves
<1>2. CASE KillCanary
  BY <1>0, <1>2, <1>b, KillFrame DEF sandboxVars
<1>3. CASE CanaryStreamNext
  <2>1. CASE UNCHANGED <<lst, conns, late>>
    BY <2>1, <1>a
  <2>2. CASE \E l \in Listeners : Connect(l)
    <3>1. PICK l \in Listeners : Connect(l)
      BY <2>2
    <3>2. /\ l \notin conns /\ lst[l].pc \in {"accept", "check"} /\ conns' = conns \cup {l}
          /\ late' = IF lst[l].pc = "check" THEN late \cup {l} ELSE late
          /\ lst' = [lst EXCEPT ![l].backlog = @ + 1]
      BY <3>1 DEF Connect, is_live
    <3>3. lst[l].backlog = 0 /\ lst[l].accepts = 0 /\ lst[l] \in ListenerStates
      BY <3>2, <1>0 DEF ListenerInv
    <3>4. /\ lst' \in [Listeners -> ListenerStates] /\ lst'[l].backlog = 1 /\ lst'[l].accepts = 0
          /\ lst'[l].pc = lst[l].pc
          /\ \A m \in Listeners \ {l} : lst'[m] = lst[m]
      BY <3>2, <3>3, <1>0 DEF ListenerStates
    <3>5. ListenerTypes'
      BY <3>2, <3>4, <1>0 DEF ListenerTypes
    <3>6. l \notin late' => lst'[l].pc = "accept"
      BY <3>2, <3>4
    <3>7. \A m \in Listeners \ {l} : (m \in conns' <=> m \in conns) /\ (m \in late' <=> m \in late)
      BY <3>2
    <3> QED
      BY <3>2, <3>4, <3>5, <3>6, <3>7 DEF ListenerInv
  <2> QED
    BY <1>3, <2>1, <2>2 DEF CanaryStreamNext, BootCanary, CodexEvent, StartCommand, CompleteCommand, EndCodex, Tamper
<1>4. CASE LifecycleNext
  BY <1>0, <1>4, <1>a, LifecycleFrame DEF hostVars, sandboxVars
<1>5. CASE \E l \in Listeners : MonitorStep(l)
  <2>1. PICK l \in Listeners : MonitorStep(l)
    BY <1>5
  <2>2. UNCHANGED <<conns, late>>
    BY <1>0, <2>1, MonitorFrame DEF sandboxVars
  <2>3. lst[l] \in ListenerStates
    BY <1>0
  <2>4. /\ lst'[l] \in ListenerStates /\ lst' = [lst EXCEPT ![l] = lst'[l]]
        /\ \/ lst'[l].backlog = lst[l].backlog /\ lst'[l].accepts = lst[l].accepts
              /\ \/ lst'[l].pc \in {lst[l].pc, "failed"}
                 \/ lst[l].pc = "accept" /\ lst[l].backlog = 0
                 \/ lst[l].pc = "check"
           \/ lst[l].backlog = 1 /\ lst'[l].backlog = 0 /\ lst'[l].accepts = lst[l].accepts + 1
    <3>1. CASE MonitorAccept(l)
      <4>0. lst[l].backlog + lst[l].accepts <= 1
        BY DEF ListenerInv
      <4>1. CASE lst[l].backlog = 0
        <5> DEFINE r == [lst[l] EXCEPT !.pc = "check"]
        <5>1. /\ r \in ListenerStates /\ r.backlog = lst[l].backlog /\ r.accepts = lst[l].accepts
          BY <2>3 DEF ListenerStates
        <5>2. lst' = [lst EXCEPT ![l] = r]
          BY <3>1, <4>1 DEF MonitorAccept
        <5> HIDE DEF r
        <5> QED
          BY <5>1, <5>2, <1>0, <3>1, <4>1 DEF MonitorAccept
      <4>2. CASE lst[l].backlog # 0
        <5>0. /\ lst[l].backlog = 1 /\ lst[l].accepts = 0 /\ lst[l].backlog - 1 = 0 /\ lst[l].accepts + 1 = 1
              /\ 0 \in 0 .. 1 /\ 1 \in 0 .. 1
          BY <2>3, <4>0, <4>2 DEF ListenerStates
        <5> DEFINE r == [lst[l] EXCEPT !.backlog = 0, !.accepts = 1]
        <5>1. r \in ListenerStates /\ r.backlog = 0 /\ r.accepts = 1
          BY <2>3, <5>0 DEF ListenerStates
        <5>2. lst' = [lst EXCEPT ![l] = r]
          <6>1. lst' = [lst EXCEPT ![l] = [lst[l] EXCEPT !.backlog = lst[l].backlog - 1, !.accepts = lst[l].accepts + 1]]
            BY <3>1, <4>2 DEF MonitorAccept
          <6> QED
            BY <6>1, <5>0
        <5> HIDE DEF r
        <5> QED
          BY <5>0, <5>1, <5>2, <1>0
      <4> QED
        BY <4>1, <4>2
    <3>2. CASE MonitorCheck(l)
      BY <3>2, <1>0, <2>3 DEF MonitorCheck, ListenerStates
    <3>3. CASE MonitorFails(l)
      BY <3>3, <1>0, <2>3 DEF MonitorFails, ListenerStates
    <3>4. CASE StopListener(l)
      BY <3>4, <1>0, <2>3 DEF StopListener, ListenerStates
    <3> QED
      BY <2>1, <3>1, <3>2, <3>3, <3>4 DEF MonitorStep
  <2>5. \A m \in Listeners \ {l} : lst'[m] = lst[m]
    BY <2>4, <1>0
  <2>6. ListenerTypes'
    BY <2>2, <2>4, <1>0 DEF ListenerTypes
  <2>7. lst[l].backlog \in 0 .. 1 /\ lst[l].accepts \in 0 .. 1
    BY <2>3 DEF ListenerStates
  <2> QED
    BY <2>2, <2>4, <2>5, <2>6, <2>7 DEF ListenerInv
<1>6. CASE UNCHANGED canaryVars
  BY <1>6, <1>a DEF canaryVars
<1> QED
  BY <1>1, <1>2, <1>3, <1>4, <1>5, <1>6, NextGroups


\* The event stream: what the parser's state and the unit's success stand for.
LEMMA StreamStep == Types /\ StreamInv /\ [Next]_canaryVars => StreamInv'
<1> SUFFICES ASSUME Types, StreamInv, [Next]_canaryVars
             PROVE  StreamInv'
  OBVIOUS
<1>0. HelperTypes /\ UnitTypes /\ SandboxTypes /\ codex \in CodexStates /\ hp \in Helpers
  BY DEF Types, SandboxTypes, HelperTypes
<1>a. ASSUME UNCHANGED sandboxVars, hp'.pc \in Preparing => hp.pc \in Preparing /\ UNCHANGED unit,
             unit'["runtime"] = "ok" => unit["runtime"] = "ok"
      PROVE  StreamInv'
  BY <1>a DEF StreamInv, sandboxVars
<1>1. CASE RuntimeStep
  <2>0. /\ UNCHANGED <<leaks, honest, broken, cmds, conns, late, tampered, replaced, peer, sup>>
        /\ "runtime" \in Units /\ unit \in [Units -> UnitStates]
    BY <1>0, <1>1, RuntimeMoves DEF Units, UnitTypes
  <2>1. CASE hp.pc = "stage" /\ hp'.pc = "unit"
    <3>1. /\ codex = NoCodex /\ cmds = <<>>
          /\ unit' = [unit EXCEPT !["runtime"] = "active"] /\ codex' = [codex EXCEPT !.pc = "boot"]
      BY <1>0, <1>1, <2>1, RuntimeMoves DEF StreamInv, Preparing
    <3>2. unit'["runtime"] = "active" /\ codex'.es = "ThreadStarted" /\ codex'.report = FALSE
      BY <3>1, <2>0 DEF NoCodex
    <3> QED
      BY <2>0, <2>1, <3>1, <3>2 DEF StreamInv, Preparing, SinceCommand
  <2>2. CASE /\ UNCHANGED codex
             /\ hp'.pc \in Preparing => hp.pc \in Preparing /\ UNCHANGED unit
             /\ UNCHANGED unit \/ unit' = [unit EXCEPT !["runtime"] = "stopped"]
    BY <2>0, <2>2, <1>a DEF sandboxVars
  <2> QED
    BY <1>0, <1>1, <2>1, <2>2, RuntimeMoves DEF Preparing
<1>2. CASE KillCanary
  BY <1>0, <1>2, <1>a, KillFrame DEF Preparing
<1>4. CASE LifecycleNext
  <2>1. hp.pc \in LifecyclePcs => hp'.pc \notin Preparing \/ hp' = hp
    BY <1>0, <1>4, LifecycleFrame DEF Preparing, Passed, LifecyclePcs, TimeoutPcs, OwnerPcs, PeerPcs
  <2>2. hp.pc \in Preparing => unit["runtime"] = "none"
    BY DEF StreamInv
  <2>3. hp.pc \in Preparing /\ hp' = hp => unit'["runtime"] = "none"
    BY <1>0, <1>4, <2>2, LifecycleFrame
  <2> QED
    BY <1>0, <1>4, <2>1, <2>3, LifecycleFrame DEF StreamInv, sandboxVars
<1>5. CASE \E l \in Listeners : MonitorStep(l)
  BY <1>0, <1>5, <1>a, MonitorFrame DEF unitVars
<1>6. CASE UNCHANGED canaryVars
  BY <1>6, <1>a DEF canaryVars, sandboxVars
<1>3. CASE CanaryStreamNext
  <2>0. /\ UNCHANGED <<hp, leaks, honest>> /\ unit["runtime"] = "active" /\ codex.pc \in {"boot", "run"}
        /\ hp.pc \notin Preparing
    BY <1>0, <1>3, StreamFrame DEF StreamInv
  <2>a. ASSUME UNCHANGED <<unit, cmds>>, codex'.pc # "exit",
               codex'.es \in SinceCommand => codex.es \in SinceCommand /\ codex'.cmd = codex.cmd /\ codex.ids \subseteq codex'.ids,
               codex'.es \in BeforeCommand => codex.es \in BeforeCommand,
               codex'.report /\ honest => leaks = {}
        PROVE  StreamInv'
    BY <2>a, <2>0 DEF StreamInv
  <2>b. /\ Reject.es = "Rejected" /\ Reject.report = FALSE /\ Reject.pc = "run"
        /\ "Rejected" \notin SinceCommand /\ "Rejected" \notin BeforeCommand
    BY DEF Reject, NoCodex, SinceCommand, BeforeCommand
  <2>1. CASE BootCanary
    <3>1. CASE codex' = [codex EXCEPT !.pc = "run"] /\ UNCHANGED <<unit, cmds>>
      <4>1. /\ codex'.pc = "run" /\ codex'.es = codex.es /\ codex'.cmd = codex.cmd /\ codex'.ids = codex.ids
            /\ codex'.report = codex.report
        BY <3>1, <1>0 DEF CodexStates
      <4> QED
        BY <3>1, <4>1, <2>a, <2>0 DEF StreamInv
    <3>2. CASE codex' = [codex EXCEPT !.pc = "exit"] /\ unit' = [unit EXCEPT !["runtime"] = "ended"] /\ UNCHANGED cmds
      <4>1. /\ codex'.pc = "exit" /\ codex'.es = codex.es /\ codex'.cmd = codex.cmd /\ codex'.ids = codex.ids
            /\ codex'.report = codex.report
        BY <3>2, <1>0 DEF CodexStates
      <4>2. unit'["runtime"] = "ended"
        BY <3>2, <1>0 DEF UnitTypes, Units
      <4> QED
        BY <4>1, <4>2, <2>0 DEF StreamInv
    <3> QED
      BY <2>1, <3>1, <3>2 DEF BootCanary
  <2>2. CASE CodexEvent
    <3>0. UNCHANGED <<unit, cmds>> /\ codex.pc = "run" /\ codex.es # "Rejected"
      BY <2>2 DEF CodexEvent, CodexRuns
    <3>1. CASE codex' = Reject
      BY <3>0, <3>1, <2>a, <2>b, <2>0 DEF StreamInv
    <3>2. CASE codex' # Reject
      <4>1. CASE codex' \in {OnThreadStarted, OnTurnStarted, OnTurnCompleted, Reject}
        <5>1. \E e : /\ codex' = [codex EXCEPT !.es = e]
                     /\ e \in {"TurnStarted", "CommandStarted"} => codex.es \in BeforeCommand
                     /\ e = "Finished" => codex.es \in SinceCommand
                     /\ e \in {"TurnStarted", "CommandStarted", "Finished"}
          BY <3>2, <4>1 DEF OnThreadStarted, OnTurnStarted, OnTurnCompleted, Accept, InState, BeforeCommand, SinceCommand
        <5>2. PICK e : /\ codex' = [codex EXCEPT !.es = e]
                       /\ e \in {"TurnStarted", "CommandStarted"} => codex.es \in BeforeCommand
                       /\ e = "Finished" => codex.es \in SinceCommand
                       /\ e \in {"TurnStarted", "CommandStarted", "Finished"}
          BY <5>1
        <5>3. /\ codex'.pc = "run" /\ codex'.es = e /\ codex'.cmd = codex.cmd /\ codex'.ids = codex.ids
              /\ codex'.report = codex.report
          BY <5>2, <3>0, <1>0 DEF CodexStates
        <5>4. (e \in SinceCommand => e = "Finished") /\ (e \in BeforeCommand => e \in {"TurnStarted", "CommandStarted"})
          BY <5>2 DEF SinceCommand, BeforeCommand
        <5> QED
          BY <5>2, <5>3, <5>4, <3>0, <2>a, <2>0 DEF StreamInv
      <4>2. CASE \E id \in ItemIds : codex' = OnReasoning(id)
        <5>1. PICK id \in ItemIds : codex' = [codex EXCEPT !.ids = @ \cup {id}]
          BY <3>2, <4>2 DEF OnReasoning, Seen
        <5>2. /\ codex'.pc = "run" /\ codex'.es = codex.es /\ codex'.cmd = codex.cmd /\ codex.ids \subseteq codex'.ids
              /\ codex'.report = codex.report
          BY <5>1, <3>0, <1>0 DEF CodexStates
        <5> QED
          BY <5>2, <3>0, <2>a, <2>0 DEF StreamInv
      <4>3. CASE \E id \in ItemIds, matches \in BOOLEAN : codex' = [OnAgentMessage(id, matches) EXCEPT !.msg = matches]
        <5>1. PICK id \in ItemIds, matches \in BOOLEAN : codex' = [OnAgentMessage(id, matches) EXCEPT !.msg = matches]
          BY <4>3
        <5>2. CASE OnAgentMessage(id, matches) = Reject
          <6>1. codex'.es = "Rejected" /\ codex'.report = FALSE /\ codex'.pc = "run"
            BY <5>1, <5>2 DEF Reject, NoCodex
          <6> QED
            BY <6>1, <3>0, <2>a, <2>b, <2>0 DEF StreamInv
        <5>3. CASE /\ OnAgentMessage(id, matches) = [[codex EXCEPT !.es = "TurnCompleted"] EXCEPT !.ids = @ \cup {id}]
                   /\ codex.es = "AgentMessage"
          <6>1. /\ codex'.pc = "run" /\ codex'.es = "TurnCompleted" /\ codex'.cmd = codex.cmd
                /\ codex.ids \subseteq codex'.ids /\ codex'.report = codex.report
            BY <5>1, <5>3, <3>0, <1>0 DEF CodexStates
          <6> QED
            BY <5>3, <6>1, <3>0, <2>a, <2>0 DEF StreamInv, SinceCommand, BeforeCommand
        <5> QED
          BY <5>2, <5>3 DEF OnAgentMessage, Seen, Accept, InState
      <4> QED
        BY <2>2, <4>1, <4>2, <4>3 DEF CodexEvent
    <3> QED
      BY <3>1, <3>2
  <2>3. CASE StartCommand
    <3>1. PICK c \in {"probe", "other"}, id \in ItemIds : codex' = OnItemStarted(c, id) /\ cmds' = Append(cmds, c)
      BY <2>3 DEF StartCommand
    <3>2. UNCHANGED <<unit, conns, tampered, replaced>> /\ codex.pc = "run"
      BY <2>3 DEF StartCommand, CodexRuns
    <3>3. CASE codex' = Reject
      BY <3>2, <3>3, <2>b, <2>0 DEF StreamInv
    <3>4. CASE /\ codex.es = "CommandStarted" /\ c = "probe"
               /\ codex' = [[[codex EXCEPT !.es = "CommandCompleted"] EXCEPT !.ids = @ \cup {id}] EXCEPT !.cmd = id]
      <4>1. /\ codex'.pc = "run" /\ codex'.es = "CommandCompleted" /\ codex'.cmd = id
            /\ codex'.ids = codex.ids \cup {id} /\ codex'.report = codex.report
        BY <3>2, <3>4, <1>0 DEF CodexStates
      <4>2. cmds = <<>>
        BY <3>2, <3>4 DEF StreamInv, BeforeCommand
      <4>3. cmds' = <<"probe">>
        BY <4>2, <3>1, <3>4
      <4> QED
        BY <3>2, <4>1, <4>3, <2>0 DEF StreamInv, BeforeCommand
    <3> QED
      BY <3>1, <3>3, <3>4 DEF OnItemStarted, Seen, Accept, InState
  <2>4. CASE CompleteCommand
    <3>1. PICK id \in ItemIds, report \in collect_checks : codex' = OnCommandCompleted(cmds[Len(cmds)], id, report)
      BY <2>4 DEF CompleteCommand
    <3>2. UNCHANGED <<unit, cmds, conns, tampered>> /\ codex.pc = "run" /\ codex.es = "CommandCompleted"
      BY <2>4 DEF CompleteCommand, CodexRuns
    <3>3. CASE codex' = Reject
      BY <3>2, <3>3, <2>a, <2>b, <2>0 DEF StreamInv
    <3>4. CASE codex' = [[codex EXCEPT !.es = "AgentMessage"] EXCEPT !.report = report]
      <4>1. /\ codex'.pc = "run" /\ codex'.es = "AgentMessage" /\ codex'.cmd = codex.cmd
            /\ codex'.ids = codex.ids /\ codex'.report = report
        BY <3>2, <3>4, <1>0 DEF CodexStates
      <4>2. report /\ honest => leaks = {}
        BY <3>1 DEF collect_checks
      <4> QED
        BY <3>2, <4>1, <4>2, <2>a DEF SinceCommand, BeforeCommand
    <3> QED
      BY <3>1, <3>3, <3>4 DEF OnCommandCompleted, Accept
  <2>5. CASE EndCodex
    <3>1. /\ codex' = [NoCodex EXCEPT !.pc = "exit"] /\ UNCHANGED <<cmds, conns, tampered>> /\ codex.pc = "run"
          /\ unit'["runtime"] = "ok" => codex.es = "Finished" /\ codex.report /\ "runtime" \notin tampered
      BY <2>5, <1>0 DEF EndCodex, CodexRuns, RuntimeEvidenceValid, verify_after, UnitTypes, Units
    <3>2. codex'.pc = "exit" /\ codex'.es = "ThreadStarted" /\ codex'.report = FALSE
      BY <3>1 DEF NoCodex
    <3>3. unit'["runtime"] = "ok" => cmds = <<"probe">> /\ (honest => leaks = {})
      BY <3>1 DEF StreamInv, SinceCommand
    <3> QED
      BY <3>1, <3>2, <3>3, <2>0 DEF StreamInv, SinceCommand
  <2>6. CASE (\E f \in Writes : Tamper(f)) \/ (\E l \in Listeners : Connect(l))
    <3>1. UNCHANGED <<unit, codex, cmds>>
      BY <2>6 DEF Tamper, Connect
    <3> QED
      BY <3>1, <2>0 DEF StreamInv
  <2> QED
    BY <1>3, <2>1, <2>2, <2>3, <2>4, <2>5, <2>6 DEF CanaryStreamNext
<1> QED
  BY <1>1, <1>2, <1>3, <1>4, <1>5, <1>6, NextGroups


\* What the runtime canary has found by the time it goes on.
LEMMA PassStep == IInv /\ [Next]_canaryVars => PassInv'
<1> SUFFICES ASSUME IInv, [Next]_canaryVars
             PROVE  PassInv'
  OBVIOUS
<1>0. HelperTypes /\ UnitTypes /\ SandboxTypes /\ ListenerTypes /\ PassInv /\ StreamInv
  BY DEF IInv, Types
<1> DEFINE Settled == {"evidence", "shutdown", "files"} \cup Passed
<1>p. /\ Preparing \cap Settled = {}
      /\ \A pc \in {"rollback", "unit", "drop", "drop_listeners", "failed", "killed"} : pc \notin Settled
      /\ "t_start" \in Passed
      /\ \A pc \in {"evidence", "shutdown", "files"} : pc \notin Passed
  BY DEF Preparing, Passed, LifecyclePcs, TimeoutPcs, OwnerPcs, PeerPcs
<1>a. ASSUME UNCHANGED <<conns, late, tampered>>, unit["runtime"] = "ok" => unit'["runtime"] = "ok",
             hp'.pc = hp.pc \/ hp'.pc \notin Settled \/ (hp.pc \in Passed /\ hp'.pc \in Passed)
      PROVE  PassInv'
  BY <1>a, <1>0 DEF PassInv
<1>1. CASE RuntimeStep
  <2>0. UNCHANGED <<conns, late, tampered>>
    BY <1>0, <1>1, RuntimeMoves
  <2>1. CASE hp.pc = "unit" /\ hp'.pc = "evidence"
    <3>1. unit["runtime"] = "ok" /\ UNCHANGED unit
      BY <1>0, <1>1, <2>1, RuntimeMoves
    <3> QED
      BY <2>1, <3>1, <1>p DEF PassInv
  <2>2. CASE hp.pc = "evidence" /\ hp'.pc = "shutdown"
    <3>1. "protected" \notin tampered /\ UNCHANGED unit
      BY <1>0, <1>1, <2>2, RuntimeMoves
    <3>2. unit["runtime"] = "ok" /\ "runtime" \notin tampered
      BY <2>2, <1>0 DEF PassInv, StreamInv
    <3>3. tampered = {}
      BY <3>1, <3>2, <1>0 DEF SandboxTypes, Writes
    <3> QED
      BY <2>0, <2>2, <3>1, <3>2, <3>3, <1>p DEF PassInv
  <2>3. CASE hp.pc = "shutdown" /\ hp'.pc = "files"
    <3>1. verify_zero_accepts /\ UNCHANGED unit
      BY <1>0, <1>1, <2>3, RuntimeMoves
    <3>2. conns \subseteq late
      BY <3>1, <1>0 DEF IInv, ListenerInv, ListenerTypes, verify_zero_accepts
    <3> QED
      BY <2>0, <2>3, <3>1, <3>2, <1>0, <1>p DEF PassInv
  <2>4. CASE hp.pc = "files" /\ hp'.pc = "t_start"
    <3>1. UNCHANGED unit
      BY <1>0, <1>1, <2>4, RuntimeMoves
    <3> QED
      BY <2>0, <2>4, <3>1, <1>0, <1>p DEF PassInv
  <2>5. CASE hp'.pc \notin Settled
    BY <2>5, <1>p DEF PassInv
  <2> QED
    BY <1>0, <1>1, <2>1, <2>2, <2>3, <2>4, <2>5, <1>p, RuntimeMoves DEF Preparing
<1>2. CASE KillCanary
  BY <1>0, <1>2, <1>p, KillFrame DEF PassInv
<1>3. CASE CanaryStreamNext
  <2>1. UNCHANGED hp /\ unit["runtime"] = "active"
    BY <1>0, <1>3, StreamFrame
  <2>2. hp.pc \notin Settled
    BY <2>1, <1>0 DEF PassInv
  <2> QED
    BY <2>1, <2>2 DEF PassInv
<1>4. CASE LifecycleNext
  <2>1. /\ UNCHANGED <<conns, late, tampered>>
        /\ hp' = hp \/ (hp.pc \in LifecyclePcs /\ hp'.pc \in Passed \cup {"failed"})
        /\ unit["runtime"] = "ok" => unit'["runtime"] = "ok"
    BY <1>0, <1>4, LifecycleFrame DEF hostVars, sandboxVars
  <2> QED
    BY <2>1, <1>a, <1>p DEF Passed
<1>5. CASE \E l \in Listeners : MonitorStep(l)
  BY <1>0, <1>5, <1>a, MonitorFrame DEF sandboxVars, unitVars
<1>6. CASE UNCHANGED canaryVars
  BY <1>6, <1>a DEF canaryVars
<1> QED
  BY <1>1, <1>2, <1>3, <1>4, <1>5, <1>6, NextGroups

\* One step of a rollback: the path it is at goes, or is lost, or is a directory that
\* still holds its file; no other path changes.
LEMMA RollbackStep ==
  ASSUME HelperTypes, FixtureInv, Rollback
  PROVE  FixtureInv'
<1>0. hp \in Helpers /\ hp.k \in 0 .. 6 /\ hp.pc = "rollback" /\ disk \subseteq Paths
  BY DEF HelperTypes, Helpers, Rollback
<1>p. "rollback" \notin Passed /\ "failed" \notin Passed
  BY DEF Passed, LifecyclePcs, TimeoutPcs, OwnerPcs, PeerPcs
<1>1. CASE hp.k = 0
  <2>1. hp'.pc = "failed" /\ UNCHANGED <<disk, lost>>
    <3>1. Goto("failed") /\ UNCHANGED <<disk, lost>>
      BY <1>1 DEF Rollback
    <3> QED
      BY <3>1, <1>0, GotoUpdates DEF HelperPcs
  <2>2. \A f \in disk : f \in lost \/ (f = "workspace_root" /\ "workspace" \in disk)
    BY <1>0, <1>1 DEF FixtureInv, Paths
  <2> QED
    BY <2>1, <2>2, <1>p DEF FixtureInv, Excused, Complete, Intact
<1>2. CASE hp.k > 0
  <2> DEFINE f == FixtureOrder[hp.k]
  <2>1. /\ hp' = [hp EXCEPT !.k = @ - 1]
        /\ \/ /\ disk' = IF f = "workspace_root" /\ "workspace" \in disk THEN disk ELSE disk \ ({f} \ lost)
              /\ UNCHANGED lost
           \/ lost' = lost \cup {f} /\ UNCHANGED disk
    BY <1>2 DEF Rollback
  <2>2. hp'.pc = "rollback" /\ hp'.k = hp.k - 1
    BY <2>1, <1>0 DEF Helpers
  <2>3. /\ hp.k = 1 <=> f = "protected"
        /\ hp.k = 2 <=> f = "workspace_root"
        /\ hp.k = 3 <=> f = "workspace"
        /\ hp.k = 4 <=> f = "host_unix"
    <3>1. hp.k = 1 \/ hp.k = 2 \/ hp.k = 3 \/ hp.k = 4 \/ hp.k = 5 \/ hp.k = 6
      BY <1>0, <1>2
    <3> QED
      BY <3>1, Fixtures
  <2> HIDE DEF f
  <2>4. /\ "protected" \in disk' \ lost' => hp'.k >= 1
        /\ "workspace" \in disk' \ lost' => hp'.k >= 3
        /\ "host_unix" \in disk' \ lost' => hp'.k >= 4
    BY <1>0, <1>2, <2>1, <2>2, <2>3 DEF FixtureInv
  <2>5. "workspace_root" \in disk' \ lost' => hp'.k >= 2 \/ "workspace" \in disk'
    BY <1>0, <1>2, <2>1, <2>2, <2>3 DEF FixtureInv
  <2> QED
    BY <2>2, <2>4, <2>5, <1>p DEF FixtureInv, Complete, Intact
<1> QED
  BY <1>0, <1>1, <1>2

\* The set-up: each fixture is counted as it is made; one that fails is either not there,
\* or lost, or still counted.
LEMMA CreateStep ==
  ASSUME HelperTypes, FixtureInv, CreateFixture
  PROVE  FixtureInv'
<1>0. hp \in Helpers /\ hp.k \in 0 .. 5 /\ hp.pc = "create"
  BY Fixtures DEF HelperTypes, Helpers, CreateFixture
<1>p. "rollback" \notin Passed /\ "create" \notin Passed
  BY DEF Passed, LifecyclePcs, TimeoutPcs, OwnerPcs, PeerPcs
<1> DEFINE f == FixtureOrder[hp.k + 1]
<1>1. /\ hp.k = 0 <=> f = "protected"
      /\ hp.k = 1 <=> f = "workspace_root"
      /\ hp.k = 2 <=> f = "workspace"
      /\ hp.k = 3 <=> f = "host_unix"
  <2>1. hp.k = 0 \/ hp.k = 1 \/ hp.k = 2 \/ hp.k = 3 \/ hp.k = 4 \/ hp.k = 5
    BY <1>0
  <2> QED
    BY <2>1, Fixtures
<1>2. \/ Create(f)
      \/ /\ hp' = [hp EXCEPT !.pc = "rollback", !.k = @ + 1]
         /\ \/ UNCHANGED <<disk, lost>>
            \/ disk' = disk \cup {f} /\ lost' = lost \cup {f}
            \/ f # "host_unix" /\ disk' = disk \cup {f} /\ UNCHANGED lost
  BY DEF CreateFixture, Untracked, Uncaptured
<1> HIDE DEF f
<1>3. CASE Create(f)
  <2>1. hp' = [hp EXCEPT !.k = @ + 1] /\ disk' = disk \cup ({f} \cap Paths) /\ lost' = {}
    BY <1>0, <1>3 DEF Create, FixtureInv
  <2>2. hp'.pc = "create" /\ hp'.k = hp.k + 1
    BY <2>1, <1>0 DEF Helpers
  <2>3. /\ "protected" \in disk' <=> hp'.k >= 1
        /\ "workspace_root" \in disk' <=> hp'.k >= 2
        /\ "workspace" \in disk' <=> hp'.k >= 3
        /\ "host_unix" \in disk' <=> hp'.k >= 4
    <3>1. \A g \in Paths : g \in disk' <=> g \in disk \/ g = f
      BY <2>1
    <3>2. /\ "protected" \in disk <=> hp.k >= 1
          /\ "workspace_root" \in disk <=> hp.k >= 2
          /\ "workspace" \in disk <=> hp.k >= 3
          /\ "host_unix" \in disk <=> hp.k >= 4
      BY <1>0 DEF FixtureInv
    <3> QED
      BY <3>1, <3>2, <1>0, <1>1, <2>2 DEF Paths
  <2> QED
    BY <2>1, <2>2, <2>3, <1>p DEF FixtureInv, Complete, Intact
<1>4. CASE /\ hp' = [hp EXCEPT !.pc = "rollback", !.k = @ + 1]
           /\ \/ UNCHANGED <<disk, lost>>
              \/ disk' = disk \cup {f} /\ lost' = lost \cup {f}
              \/ f # "host_unix" /\ disk' = disk \cup {f} /\ UNCHANGED lost
  <2>1. hp'.pc = "rollback" /\ hp'.k = hp.k + 1
    BY <1>0, <1>4 DEF Helpers
  <2>2. /\ "protected" \in disk' \ lost' => hp'.k >= 1
        /\ "workspace_root" \in disk' \ lost' => hp'.k >= 2
        /\ "workspace" \in disk' \ lost' => hp'.k >= 3
        /\ "host_unix" \in disk' \ lost' => hp'.k >= 4
    BY <1>0, <1>1, <1>4, <2>1 DEF FixtureInv
  <2> QED
    BY <2>1, <2>2, <1>p DEF FixtureInv, Complete, Intact
<1> QED
  BY <1>2, <1>3, <1>4

\* What cleanup_files leaves when it stops, and why it stopped.
LEMMA CleanupStops ==
  ASSUME SandboxTypes, NEW next, NEW onError, CleanupFiles(next, onError)
  PROVE  \/ disk' = disk \ CleanupPaths /\ UNCHANGED lost /\ Goto(next)
         \/ lost' \cap CleanupPaths # {} /\ disk' \subseteq disk /\ Goto(onError)
         \/ /\ "protected" \in replaced \/ ~(Files \subseteq disk)
            /\ UNCHANGED <<disk, lost>> /\ Goto(onError)
<1>1. CASE \E f \in Files : ~verify_path_identity_unchanged(f)
  <2>1. UNCHANGED <<disk, lost>> /\ Goto(onError)
    BY <1>1 DEF CleanupFiles
  <2>2. replaced \subseteq {"protected", "runtime"}
    BY DEF SandboxTypes, Writes
  <2> QED
    BY <1>1, <2>1, <2>2 DEF Files, verify_path_identity_unchanged
<1>2. ASSUME NEW i \in DOMAIN CleanupOrder, lost' = lost \cup {CleanupOrder[i]}
      PROVE  lost' \cap CleanupPaths # {}
  <2>1. i = 1 \/ i = 2 \/ i = 3
    BY Cleanups
  <2>2. CleanupOrder[i] \in CleanupPaths
    BY <2>1, Cleanups DEF CleanupPaths
  <2> QED
    BY <1>2, <2>2
<1> QED
  BY <1>1, <1>2 DEF CleanupFiles

\* The fixtures at each point, and the reason for each that is left.
LEMMA FixtureStep == IInv /\ [Next]_canaryVars => FixtureInv'
<1> SUFFICES ASSUME IInv, [Next]_canaryVars
             PROVE  FixtureInv'
  OBVIOUS
<1>0. /\ HelperTypes /\ UnitTypes /\ SandboxTypes /\ FixtureInv /\ hp \in Helpers
      /\ disk \subseteq Paths /\ hp.k \in 0 .. 6
  BY DEF IInv, Types, HelperTypes, Helpers
<1>p. /\ \A pc \in {"files", "drop_listeners", "failed", "killed", "sockets", "rollback"} : pc \notin Passed
      /\ \A pc \in {"create", "stage", "unit", "evidence", "shutdown", "drop"} : pc \notin Passed
      /\ "t_start" \in Passed
      /\ \A pc \in Passed : pc \notin Complete /\ pc \notin Intact /\ pc \notin {"sockets", "create", "rollback", "failed"}
  BY DEF Passed, LifecyclePcs, TimeoutPcs, OwnerPcs, PeerPcs, Complete, Intact
<1>g. \A pc \in HelperPcs : Goto(pc) => hp'.pc = pc /\ hp'.k = hp.k
  BY <1>0, GotoUpdates
<1>h. /\ {"create", "failed", "stage", "unit", "evidence", "shutdown", "files"} \subseteq HelperPcs
      /\ {"drop", "drop_listeners", "t_start"} \subseteq HelperPcs
  BY DEF HelperPcs, Preparing, LifecyclePcs, TimeoutPcs
<1>a. ASSUME UNCHANGED <<hp, disk, lost>>, replaced \subseteq replaced'
      PROVE  FixtureInv'
  BY <1>a, <1>0 DEF FixtureInv, Excused, CleanupStopped
<1>b. ASSUME hp.pc \in Intact, hp'.pc \in (Intact \ {"files"}) \cup {"drop"}, hp'.k = hp.k, UNCHANGED <<disk, lost>>
      PROVE  FixtureInv'
  BY <1>b, <1>0, <1>p DEF FixtureInv, Complete, Intact
<1>1. CASE WaitSockets
  <2>1. hp.pc = "sockets" /\ hp'.pc \in {"create", "failed"} /\ hp'.k = hp.k /\ UNCHANGED <<disk, lost>>
    BY <1>1, <1>g, <1>h DEF WaitSockets, hostVars
  <2> QED
    BY <2>1, <1>0, <1>p DEF FixtureInv, Complete, Intact
<1>2. CASE CreateFixture
  BY <1>0, <1>2, CreateStep
<1>3. CASE CreateDone
  <2>1. hp.pc = "create" /\ hp.k = 6 /\ hp'.pc = "stage" /\ hp'.k = 6 /\ UNCHANGED <<disk, lost>>
    BY <1>3, <1>g, <1>h, Fixtures DEF CreateDone, hostVars
  <2>2. Files \subseteq disk /\ lost = {}
    BY <2>1, <1>0 DEF FixtureInv, Files
  <2> QED
    BY <2>1, <2>2, <1>p DEF FixtureInv, Complete, Intact
<1>4. CASE Rollback
  BY <1>0, <1>4, RollbackStep
<1>5. CASE StageCanary \/ RunRuntimeCanary \/ CheckEvidence
  <2>1. /\ hp.pc \in {"stage", "unit", "evidence"} /\ UNCHANGED <<disk, lost>>
        /\ Goto("unit") \/ Goto("evidence") \/ Goto("shutdown") \/ Goto("drop")
    BY <1>5 DEF StageCanary, RunRuntimeCanary, CheckEvidence, FailRuntime, hostVars
  <2>2. hp'.pc \in {"unit", "evidence", "shutdown", "drop"} /\ hp'.k = hp.k
    BY <2>1, <1>g, <1>h
  <2> QED
    BY <2>1, <2>2, <1>b DEF Intact
<1>6. CASE ShutdownListeners
  <2>1. /\ hp.pc = "shutdown" /\ (SocketRemoved \/ SocketNotRemoved)
        /\ (Goto("files") /\ SocketRemoved) \/ Goto("drop")
    BY <1>6 DEF ShutdownListeners, FailRuntime
  <2>2. hp.k = 6 /\ Files \subseteq disk
    BY <2>1, <1>0 DEF FixtureInv, Complete, Intact
  <2>3. Files \subseteq disk'
    BY <2>1, <2>2 DEF SocketRemoved, SocketNotRemoved, Files
  <2>4. /\ hp'.k = 6 /\ hp'.pc \in {"files", "drop"}
        /\ hp'.pc = "files" => SocketRemoved
    BY <2>1, <2>2, <1>g, <1>h
  <2>5. hp'.pc = "files" => "host_unix" \notin disk' /\ lost' = {}
    <3>1. lost = {}
      BY <2>1, <1>0 DEF FixtureInv, Intact
    <3> QED
      BY <3>1, <2>4 DEF SocketRemoved
  <2> QED
    BY <2>3, <2>4, <2>5, <1>p DEF FixtureInv, Complete, Intact
<1>7. CASE RemoveFixtures
  <2>1. hp.pc = "files" /\ CleanupFiles("t_start", "drop")
    BY <1>7 DEF RemoveFixtures
  <2>2. hp.k = 6 /\ Files \subseteq disk /\ "host_unix" \notin disk
    BY <2>1, <1>0 DEF FixtureInv, Complete, Intact
  <2>3. \/ disk' = disk \ CleanupPaths /\ Goto("t_start")
        \/ lost' \cap CleanupPaths # {} /\ Goto("drop")
        \/ UNCHANGED <<disk, lost>> /\ Goto("drop")
    BY <2>1, <1>0, CleanupStops
  <2>4. disk \ CleanupPaths = {}
    BY <2>2, <1>0 DEF Paths, CleanupPaths
  <2>5. \/ hp'.pc = "t_start" /\ disk' = {}
        \/ hp'.pc = "drop" /\ hp'.k = 6 /\ (Files \subseteq disk' \/ lost' \cap CleanupPaths # {})
    BY <2>2, <2>3, <2>4, <1>g, <1>h
  <2> QED
    BY <2>5, <1>p DEF FixtureInv, Complete, Intact
<1>8. CASE DropFixtures
  <2>1. hp.pc = "drop" /\ CleanupFiles("drop_listeners", "drop_listeners") /\ UNCHANGED replaced
    BY <1>8 DEF DropFixtures, sandboxVars
  <2>2. hp.k = 6 /\ (Files \subseteq disk \/ lost \cap CleanupPaths # {})
    BY <2>1, <1>0 DEF FixtureInv, Complete, Intact
  <2>3. /\ Goto("drop_listeners")
        /\ \/ disk' = disk \ CleanupPaths
           \/ lost' \cap CleanupPaths # {}
           \/ ("protected" \in replaced \/ ~(Files \subseteq disk)) /\ UNCHANGED lost
    BY <2>1, <1>0, CleanupStops
  <2>4. disk' \cap CleanupPaths = {} \/ lost' \cap CleanupPaths # {} \/ "protected" \in replaced'
    BY <2>1, <2>2, <2>3
  <2>5. hp'.pc = "drop_listeners" /\ hp'.k = 6
    BY <2>2, <2>3, <1>g, <1>h
  <2> QED
    BY <2>4, <2>5, <1>p DEF FixtureInv, Complete, Intact
<1>9. CASE DropListeners
  <2>1. /\ hp.pc = "drop_listeners" /\ (SocketRemoved \/ SocketNotRemoved) /\ Goto("failed") /\ UNCHANGED replaced
    BY <1>9 DEF DropListeners, sandboxVars
  <2>2. hp'.pc = "failed" /\ hp'.k = 6 /\ hp.k = 6
    BY <2>1, <1>0, <1>g, <1>h DEF FixtureInv, Complete
  <2>3. /\ disk \cap CleanupPaths = {} \/ lost \cap CleanupPaths # {} \/ "protected" \in replaced
    BY <2>1, <1>0 DEF FixtureInv
  <2>4. /\ "host_unix" \in disk' => "host_unix" \in lost'
        /\ disk' \subseteq disk /\ lost \subseteq lost'
    BY <2>1 DEF SocketRemoved, SocketNotRemoved
  <2>5. \A f \in disk' : f = "host_unix" \/ f \in CleanupPaths
    BY <2>4, <1>0 DEF Paths, CleanupPaths
  <2>6. (\E f \in disk' : f \in CleanupPaths) => lost' \cap CleanupPaths # {} \/ "protected" \in replaced'
    BY <2>1, <2>3, <2>4
  <2>7. \A f \in disk' : f \in lost' \/ (f \in CleanupPaths /\ CleanupStopped')
    BY <2>2, <2>4, <2>5, <2>6, Fixtures DEF CleanupStopped
  <2> QED
    BY <2>2, <2>7, <1>p DEF FixtureInv, Excused, Complete, Intact
<1>10. CASE KillCanary
  <2>1. hp'.pc = "killed"
    BY <1>0, <1>10, KillFrame
  <2> QED
    BY <2>1, <1>p DEF FixtureInv, Complete, Intact
<1>11. CASE CanaryStreamNext
  BY <1>0, <1>11, <1>a, StreamFrame
<1>12. CASE LifecycleNext
  <2>1. /\ UNCHANGED <<disk, lost, replaced>>
        /\ hp' = hp \/ (hp.pc \in LifecyclePcs /\ hp'.pc \in Passed \cup {"failed"})
    BY <1>0, <1>12, LifecycleFrame DEF hostVars, sandboxVars
  <2>2. CASE hp.pc \in LifecyclePcs /\ hp'.pc \in Passed \cup {"failed"}
    <3>1. disk' = {}
      BY <2>1, <2>2, <1>0 DEF FixtureInv, Passed
    <3> QED
      BY <2>2, <3>1, <1>p DEF FixtureInv, Complete, Intact
  <2> QED
    BY <2>1, <2>2, <1>a
<1>13. CASE \E l \in Listeners : MonitorStep(l)
  BY <1>0, <1>13, <1>a, MonitorFrame DEF sandboxVars
<1>14. CASE UNCHANGED canaryVars
  BY <1>14, <1>a DEF canaryVars
<1> QED
  BY <1>1, <1>2, <1>3, <1>4, <1>5, <1>6, <1>7, <1>8, <1>9, <1>10, <1>11, <1>12, <1>13, <1>14, NextGroups
     DEF RuntimeStep, CanarySteps


\* The lifecycle canaries: what each has shown by the time the next one starts.
LEMMA LifeStep == IInv /\ [Next]_canaryVars => LifeInv'
<1> SUFFICES ASSUME IInv, [Next]_canaryVars
             PROVE  LifeInv'
  OBVIOUS
<1>0. /\ HelperTypes /\ UnitTypes /\ SandboxTypes /\ LifeInv /\ hp \in Helpers /\ unit \in [Units -> UnitStates]
      /\ "timeout" \in Units /\ "anchor" \in Units /\ "child" \in Units /\ "peer" \in Units /\ "runtime" \in Units
  BY DEF IInv, Types, HelperTypes, UnitTypes, Units
<1> DEFINE Proven == PastTimeout \cup {"t_clean"}
<1>p. /\ \A pc \in {"sockets", "create", "stage", "unit", "evidence", "shutdown", "files"} : pc \notin Proven
      /\ \A pc \in {"rollback", "drop", "drop_listeners", "failed", "killed", "t_start"} : pc \notin Proven
      /\ {"p_run", "p_inactive", "o_stop", "o_inactive"} \subseteq Proven
      /\ PastOwner \subseteq Proven /\ PastTimeout \subseteq Proven
      /\ {"t_clean", "o_clean", "p_clean", "passed"} \subseteq Proven
  BY DEF OwnerPcs, PeerPcs, PastTimeout, PastOwner
<1>a. ASSUME UNCHANGED <<broken, sup, misread>>, \A u \in Units \ {"runtime"} : unit'[u] = unit[u],
             hp' = hp \/ (hp'.pc \notin Proven /\ (hp'.err => hp'.pc \in {"failed", "killed"}))
      PROVE  LifeInv'
  <2>1. /\ unit'["timeout"] = unit["timeout"] /\ unit'["child"] = unit["child"]
        /\ unit'["peer"] = unit["peer"] /\ unit'["anchor"] = unit["anchor"]
    BY <1>a DEF Units
  <2>2. CASE hp' = hp
    BY <1>a, <2>1, <2>2, <1>0 DEF LifeInv, ChildSeen
  <2>3. CASE hp'.pc \notin Proven /\ (hp'.err => hp'.pc \in {"failed", "killed"})
    <3>1. /\ hp'.pc \notin PastTimeout /\ hp'.pc \notin PastOwner
          /\ hp'.pc \notin {"t_clean", "o_clean", "p_clean", "passed", "o_stop", "o_inactive", "p_inactive"}
      BY <2>3, <1>p
    <3> HIDE DEF Proven
    <3> QED
      BY <1>a, <2>1, <2>3, <3>1, <1>0 DEF LifeInv
  <2> QED
    BY <1>a, <2>2, <2>3
<1>1. CASE RuntimeStep
  <2>1. hp'.pc \notin Proven /\ hp'.err = hp.err /\ hp.pc \notin {"t_clean", "o_clean", "p_clean", "p_run", "failed", "killed"}
    BY <1>0, <1>1, <1>p, RuntimeMoves
  <2>2. UNCHANGED <<broken, sup, misread>> /\ \A u \in Units \ {"runtime"} : unit'[u] = unit[u]
    BY <1>0, <1>1, RuntimeMoves
  <2> QED
    BY <2>1, <2>2, <1>a, <1>0 DEF LifeInv
<1>2. CASE KillCanary
  BY <1>0, <1>2, <1>a, <1>p, KillFrame DEF sandboxVars
<1>3. CASE CanaryStreamNext
  BY <1>0, <1>3, <1>a, StreamFrame
<1>5. CASE \E l \in Listeners : MonitorStep(l)
  BY <1>0, <1>5, <1>a, MonitorFrame DEF sandboxVars, unitVars
<1>6. CASE UNCHANGED canaryVars
  BY <1>6, <1>a DEF canaryVars
<1>4. CASE LifecycleNext
  <2>0. UNCHANGED broken /\ hp' \in Helpers
    BY <1>0, <1>4, LifecycleFrame DEF sandboxVars, HelperTypes
  <2>m. misread \subseteq misread'
    BY <1>4 DEF LifecycleNext, LifecycleSteps, StartUnit, WaitForUnit, wait_for_unit_active, wait_for_unit_inactive,
       verify_timeout_unit_result, StopAnchor, CleanupUnits, SpawnPeer, SuperviseStart, KillPeer,
       SuperviseSees, SuperviseEnd, JoinPeer, RuntimeMaxExpires, SleepEnds, BoundStop, unitVars
  <2>p. /\ PastTimeout = OwnerPcs \cup {"o_clean"} \cup PastOwner
        /\ PastOwner = PeerPcs \cup {"p_clean", "passed"}
        /\ OwnerPcs = {"o_start", "o_child", "o_active", "o_stop", "o_inactive"}
        /\ PeerPcs = {"p_spawn", "p_run", "p_inactive"}
    BY DEF PastTimeout, PastOwner, OwnerPcs, PeerPcs
  \* A canary fails; of its units and those before it only its own may have changed.
  <2>f. ASSUME FailLifecycle, hp.pc \in TimeoutPcs \cup OwnerPcs \cup PeerPcs, UNCHANGED sup,
               unit'["timeout"] = "timeout" => "runtime_max" \notin broken,
               unit'["child"] = "bound" => "binds_to" \notin broken,
               unit'["peer"] = unit["peer"],
               hp.pc \notin TimeoutPcs => unit'["timeout"] = unit["timeout"],
               hp.pc \in PeerPcs => unit'["child"] = unit["child"] /\ unit'["anchor"] = unit["anchor"]
        PROVE  LifeInv'
    <3>1. /\ hp'.err = TRUE
          /\ hp.pc \in TimeoutPcs => hp'.pc = "t_clean"
          /\ hp.pc \in OwnerPcs => hp'.pc = "o_clean"
          /\ hp.pc \in PeerPcs => hp'.pc = "p_clean"
      BY <2>f, <1>0, FailUpdates
    <3>q. TimeoutPcs \cap OwnerPcs = {} /\ TimeoutPcs \cap PeerPcs = {}
      BY DEF TimeoutPcs, OwnerPcs, PeerPcs
    <3>2. CASE hp.pc \in TimeoutPcs
      BY <3>1, <3>2, <2>0, <2>f, <2>p, <1>0 DEF LifeInv
    <3>3. CASE hp.pc \in OwnerPcs
      <4>1. "runtime_max" \notin broken /\ unit["timeout"] # "active"
        BY <3>3, <2>p, <1>0 DEF LifeInv
      <4> QED
        BY <3>1, <3>3, <3>q, <4>1, <2>0, <2>f, <2>p, <1>0 DEF LifeInv
    <3>4. CASE hp.pc \in PeerPcs
      <4>1. /\ "runtime_max" \notin broken /\ unit["timeout"] # "active"
            /\ ChildSeen /\ unit["child"] # "active" /\ unit["anchor"] # "active"
        BY <3>4, <2>p, <1>0 DEF LifeInv
      <4>2. ChildSeen'
        BY <4>1, <3>4, <2>f, <2>m DEF ChildSeen
      <4> QED
        BY <3>1, <3>4, <3>q, <4>1, <4>2, <2>0, <2>f, <2>p, <1>0 DEF LifeInv
    <3> QED
      BY <2>f, <3>2, <3>3, <3>4
  <2>1. CASE StartUnit
    <3>0. UNCHANGED sup /\ hp.pc \in {"t_start", "o_start", "o_child"}
      BY <2>1, Starts DEF StartUnit
    <3>1. PICK u \in {"timeout", "anchor", "child"}, next \in {"t_active", "o_child", "o_active"} :
            /\ StartStep[hp.pc] = <<u, next>>
            /\ hp.pc = "t_start" <=> next = "t_active"
            /\ u = "child" => hp.pc = "o_child"
            /\ u = "timeout" <=> hp.pc = "t_start"
      BY <3>0, Starts
    <3>2. /\ unit' = unit \/ unit' = [unit EXCEPT ![u] = "active"]
          /\ Goto(next) \/ FailLifecycle
      BY <2>1, <3>1 DEF StartUnit
    <3>3. /\ \A v \in Units \ {u} : unit'[v] = unit[v]
          /\ unit'[u] \in {unit[u], "active"}
      BY <3>1, <3>2, <1>0
    <3>4. /\ unit'["timeout"] = "timeout" => "runtime_max" \notin broken
          /\ unit'["child"] = "bound" => "binds_to" \notin broken
          /\ unit'["peer"] = unit["peer"]
      BY <3>1, <3>3, <1>0 DEF LifeInv
    <3>5. /\ hp.pc \in TimeoutPcs \cup OwnerPcs \cup PeerPcs /\ hp.pc \notin PeerPcs
          /\ hp.pc \in TimeoutPcs <=> hp.pc = "t_start"
      BY <3>0 DEF TimeoutPcs, OwnerPcs, PeerPcs
    <3>t. hp.pc # "t_start" => unit'["timeout"] = unit["timeout"]
      BY <3>1, <3>3, <1>0
    <3>6. CASE FailLifecycle
      BY <3>0, <3>4, <3>5, <3>6, <3>t, <2>f
    <3>7. CASE Goto(next)
      <4>1. next \in HelperPcs
        BY <3>1 DEF HelperPcs, LifecyclePcs, TimeoutPcs, OwnerPcs
      <4>2. hp'.pc = next /\ hp'.err = hp.err /\ hp.err = FALSE
        BY <3>0, <3>7, <4>1, <1>0, GotoUpdates DEF LifeInv, Helpers
      <4>3. next # "t_active" => "runtime_max" \notin broken /\ unit'["timeout"] # "active"
        BY <3>0, <3>1, <3>t, <2>p, <1>0 DEF LifeInv
      <4>4. next \notin PastOwner /\ (next = "t_active" => next \notin PastTimeout)
        BY <3>1, <2>p
      <4> QED
        BY <3>0, <3>1, <3>4, <4>2, <4>3, <4>4, <2>0, <1>0 DEF LifeInv
    <3> QED
      BY <3>2, <3>6, <3>7
  <2>2. CASE wait_for_unit_active \/ wait_for_unit_inactive
    <3>0. UNCHANGED <<unit, sup>>
      BY <2>2 DEF wait_for_unit_active, wait_for_unit_inactive, WaitForUnit, unitVars
    <3>1. \/ FailLifecycle /\ hp.pc \in {"t_active", "o_active", "t_inactive", "o_inactive", "p_inactive"}
          \/ hp.pc = "t_active" /\ Goto("t_inactive")
          \/ hp.pc = "o_active" /\ Goto("o_stop") /\ unit["child"] = "active"
          \/ hp.pc = "t_inactive" /\ Goto("t_result")
          \/ hp.pc = "o_inactive" /\ Goto("o_clean") /\ (unit["child"] # "active" \/ "child" \in misread')
          \/ hp.pc = "p_inactive" /\ Goto("p_clean")
      BY <2>2, Waits DEF wait_for_unit_active, wait_for_unit_inactive, WaitForUnit, Active
    <3>2. CASE FailLifecycle /\ hp.pc \in {"t_active", "o_active", "t_inactive", "o_inactive", "p_inactive"}
      BY <3>0, <3>2, <2>f, <1>0 DEF LifeInv, TimeoutPcs, OwnerPcs, PeerPcs
    <3>3. CASE (hp.pc = "t_active" /\ Goto("t_inactive")) \/ (hp.pc = "t_inactive" /\ Goto("t_result"))
      <4>1. hp'.pc \in {"t_inactive", "t_result"} /\ hp'.err = hp.err
        BY <3>3, <1>0, GotoUpdates DEF HelperPcs, LifecyclePcs, TimeoutPcs
      <4> QED
        BY <3>0, <3>3, <4>1, <2>0, <2>m, <2>p, <1>0 DEF LifeInv, ChildSeen
    <3>4. CASE hp.pc = "o_active" /\ Goto("o_stop") /\ unit["child"] = "active"
      <4>1. hp'.pc = "o_stop" /\ hp'.err = hp.err
        BY <3>4, <1>0, GotoUpdates DEF HelperPcs, LifecyclePcs, OwnerPcs
      <4> QED
        BY <3>0, <3>4, <4>1, <2>0, <2>m, <2>p, <1>0 DEF LifeInv, ChildSeen
    <3>5. CASE hp.pc = "o_inactive" /\ Goto("o_clean") /\ (unit["child"] # "active" \/ "child" \in misread')
      <4>1. hp'.pc = "o_clean" /\ hp'.err = hp.err
        BY <3>5, <1>0, GotoUpdates DEF HelperPcs, LifecyclePcs
      <4>2. ChildSeen'
        BY <3>0, <3>5, <1>0 DEF LifeInv, ChildSeen
      <4> QED
        BY <3>0, <3>5, <4>1, <4>2, <2>0, <2>p, <1>0 DEF LifeInv
    <3>6. CASE hp.pc = "p_inactive" /\ Goto("p_clean")
      <4>1. hp'.pc = "p_clean" /\ hp'.err = hp.err
        BY <3>6, <1>0, GotoUpdates DEF HelperPcs, LifecyclePcs
      <4> QED
        BY <3>0, <3>6, <4>1, <2>0, <2>m, <2>p, <1>0 DEF LifeInv, ChildSeen
    <3> QED
      BY <3>1, <3>2, <3>3, <3>4, <3>5, <3>6
  <2>3. CASE verify_timeout_unit_result
    <3>0. UNCHANGED <<unit, sup>> /\ hp.pc = "t_result"
      BY <2>3 DEF verify_timeout_unit_result, unitVars
    <3>1. CASE FailLifecycle
      BY <3>0, <3>1, <2>f, <1>0 DEF LifeInv, TimeoutPcs, OwnerPcs, PeerPcs
    <3>2. CASE unit["timeout"] = "timeout" /\ Goto("t_clean")
      <4>1. hp'.pc = "t_clean" /\ hp'.err = hp.err
        BY <3>2, <1>0, GotoUpdates DEF HelperPcs, LifecyclePcs
      <4> QED
        BY <3>0, <3>2, <4>1, <2>0, <2>m, <2>p, <1>0 DEF LifeInv, ChildSeen
    <3> QED
      BY <2>3, <3>1, <3>2 DEF verify_timeout_unit_result
  <2>4. CASE StopAnchor
    <3>0. UNCHANGED sup /\ hp.pc = "o_stop"
      BY <2>4 DEF StopAnchor
    <3>1. \A v \in Units \ {"anchor"} : unit'[v] = unit[v]
      BY <2>4, <1>0 DEF StopAnchor
    <3>2. unit'["timeout"] = unit["timeout"] /\ unit'["child"] = unit["child"] /\ unit'["peer"] = unit["peer"]
      BY <3>1 DEF Units
    <3>3. CASE FailLifecycle
      BY <3>0, <3>2, <3>3, <2>f, <1>0 DEF LifeInv, TimeoutPcs, OwnerPcs, PeerPcs
    <3>4. CASE Goto("o_inactive")
      <4>1. hp'.pc = "o_inactive" /\ hp'.err = hp.err
        BY <3>4, <1>0, GotoUpdates DEF HelperPcs, LifecyclePcs, OwnerPcs
      <4> QED
        BY <3>0, <3>2, <4>1, <2>0, <2>m, <2>p, <1>0 DEF LifeInv, ChildSeen
    <3> QED
      BY <2>4, <3>3, <3>4 DEF StopAnchor
  <2>5. CASE CleanupUnits
    <3>0. UNCHANGED sup /\ hp.pc \in {"t_clean", "o_clean", "p_clean"}
      BY <2>5, Cleans DEF CleanupUnits
    <3>1. UNCHANGED unit \/ \E us : unit' = StopUnits(us)
      BY <2>5 DEF CleanupUnits
    <3>2. /\ unit'["timeout"] \in {unit["timeout"], "stopped"}
          /\ unit'["anchor"] \in {unit["anchor"], "stopped"}
          /\ unit'["child"] = unit["child"] \/ unit["child"] = "active"
          /\ unit'["child"] \in {unit["child"], "stopped"}
          /\ unit'["peer"] = unit["peer"] \/ unit["peer"] = "active"
      BY <3>1, <1>0, StopUpdates
    <3>3. CASE Goto("failed")
      <4>1. hp'.pc = "failed"
        BY <3>3, <1>0, GotoUpdates DEF HelperPcs
      <4> QED
        BY <3>0, <3>2, <4>1, <2>0, <2>m, <2>p, <1>0 DEF LifeInv, ChildSeen
    <3>4. CASE Goto(CleanStep[hp.pc][2]) /\ ~hp.err
      <4>1. \/ hp.pc = "t_clean" /\ Goto("o_start")
            \/ hp.pc = "o_clean" /\ Goto("p_spawn")
            \/ hp.pc = "p_clean" /\ Goto("passed")
        BY <3>0, <3>4, Cleans
      <4>2. /\ hp.pc = "t_clean" => hp'.pc = "o_start"
            /\ hp.pc = "o_clean" => hp'.pc = "p_spawn"
            /\ hp.pc = "p_clean" => hp'.pc = "passed"
            /\ hp'.err = hp.err
        BY <4>1, <1>0, GotoUpdates DEF HelperPcs, LifecyclePcs, OwnerPcs, PeerPcs
      <4>3. unit' = StopUnits(CleanStep[hp.pc][1])
        BY <2>5, <3>4, <4>2, <3>0, <1>0, GotoUpdates DEF CleanupUnits, HelperPcs
      <4>4. /\ hp.pc = "t_clean" => unit'["timeout"] # "active"
            /\ hp.pc = "o_clean" => unit'["child"] # "active" /\ unit'["anchor"] # "active"
        BY <3>0, <4>3, <1>0, Cleans, StopUpdates
      <4>5. hp.pc \in {"o_clean", "p_clean"} => ChildSeen /\ unit["timeout"] # "active" /\ "runtime_max" \notin broken
        BY <3>4, <2>p, <1>0 DEF LifeInv
      <4>6. ChildSeen => ChildSeen'
        BY <3>2, <2>m DEF ChildSeen
      <4>7. CASE hp.pc = "t_clean"
        BY <4>7, <3>2, <3>4, <4>2, <4>4, <3>0, <2>0, <2>p, <1>0 DEF LifeInv
      <4>8. CASE hp.pc = "o_clean"
        BY <4>8, <3>2, <3>4, <4>2, <4>4, <4>5, <4>6, <3>0, <2>0, <2>p, <1>0 DEF LifeInv
      <4>9. CASE hp.pc = "p_clean"
        BY <4>9, <3>2, <3>4, <4>2, <4>5, <4>6, <3>0, <2>0, <2>p, <1>0 DEF LifeInv
      <4> QED
        BY <3>0, <4>7, <4>8, <4>9
    <3> QED
      BY <2>5, <3>3, <3>4 DEF CleanupUnits
  <2>6. CASE SpawnPeer
    <3>0. hp.pc = "p_spawn" /\ UNCHANGED unit /\ sup' \in {"start", sup}
      BY <2>6 DEF SpawnPeer
    <3>1. hp'.pc \in {"p_run", "failed"} /\ hp'.err = hp.err
      BY <2>6, <1>0, GotoUpdates DEF SpawnPeer, HelperPcs, LifecyclePcs, PeerPcs
    <3>2. ChildSeen'
      BY <3>0, <2>m, <2>p, <1>0 DEF LifeInv, ChildSeen
    <3> QED
      BY <3>0, <3>1, <3>2, <2>0, <2>p, <1>0 DEF LifeInv
  <2>7. CASE SuperviseStart \/ SuperviseSees \/ SuperviseEnd
    <3>0. hp.pc = "p_run" /\ UNCHANGED hp /\ sup' \in {"watch", "missed", "seen"}
      BY <2>7 DEF SuperviseStart, SuperviseSees, SuperviseEnd
    <3>s. ASSUME unit' = StopUnits({"peer"})
          PROVE  unit'["peer"] # "active" /\ \A v \in Units \ {"peer"} : unit'[v] = unit[v]
      BY <3>s, <1>0, StopUpdates
    <3>1. \A v \in Units \ {"peer"} : unit'[v] = unit[v]
      <4>1. CASE SuperviseEnd \/ SuperviseSees
        BY <4>1, <3>s DEF SuperviseEnd, SuperviseSees
      <4>2. CASE SuperviseStart
        BY <4>2, <1>0 DEF SuperviseStart
      <4> QED
        BY <2>7, <4>1, <4>2
    <3>2. sup' = "seen" => unit'["peer"] # "active"
      BY <2>7, <3>s DEF SuperviseStart, SuperviseSees, SuperviseEnd
    <3>3. unit'["timeout"] = unit["timeout"] /\ unit'["child"] = unit["child"] /\ unit'["anchor"] = unit["anchor"]
      BY <3>1 DEF Units
    <3>4. ChildSeen'
      BY <3>0, <3>3, <2>m, <2>p, <1>0 DEF LifeInv, ChildSeen
    <3> QED
      BY <3>0, <3>2, <3>3, <3>4, <2>0, <2>p, <1>0 DEF LifeInv
  <2>8. CASE KillPeer
    <3>1. hp.pc = "p_run" /\ UNCHANGED <<unit, sup>> /\ \E e \in BOOLEAN : hp' = [hp EXCEPT !.err = e]
      BY <2>8 DEF KillPeer
    <3>2. hp'.pc = "p_run"
      BY <3>1, <1>0 DEF Helpers
    <3>3. ChildSeen'
      BY <3>1, <2>m, <2>p, <1>0 DEF LifeInv, ChildSeen
    <3> QED
      BY <3>1, <3>2, <3>3, <2>0, <2>p, <1>0 DEF LifeInv
  <2>9. CASE JoinPeer
    <3>0. UNCHANGED <<unit, sup>> /\ hp.pc = "p_run"
      BY <2>9 DEF JoinPeer, unitVars
    <3>1. CASE FailLifecycle
      BY <3>0, <3>1, <2>f, <1>0 DEF LifeInv, TimeoutPcs, OwnerPcs, PeerPcs
    <3>2. CASE sup = "seen" /\ ~hp.err /\ Goto("p_inactive")
      <4>1. hp'.pc = "p_inactive" /\ hp'.err = hp.err
        BY <3>2, <1>0, GotoUpdates DEF HelperPcs, LifecyclePcs, PeerPcs
      <4>2. ChildSeen'
        BY <3>0, <2>m, <2>p, <1>0 DEF LifeInv, ChildSeen
      <4> QED
        BY <3>0, <3>2, <4>1, <4>2, <2>0, <2>p, <1>0 DEF LifeInv
    <3> QED
      BY <2>9, <3>1, <3>2 DEF JoinPeer
  <2>10. CASE RuntimeMaxExpires
    <3>1. /\ unit' = [unit EXCEPT !["timeout"] = "timeout"] /\ UNCHANGED <<hp, sup>>
          /\ unit["timeout"] = "active" /\ "runtime_max" \notin broken
      BY <2>10 DEF RuntimeMaxExpires, Active
    <3>2. /\ unit'["timeout"] = "timeout" /\ unit'["child"] = unit["child"]
          /\ unit'["peer"] = unit["peer"] /\ unit'["anchor"] = unit["anchor"]
      BY <3>1, <1>0
    <3>3. ChildSeen => ChildSeen'
      BY <3>2, <2>m DEF ChildSeen
    <3> QED
      BY <3>1, <3>2, <3>3, <2>0, <1>0 DEF LifeInv
  <2>11. ASSUME NEW u \in Units, SleepEnds(u) \/ BoundStop(u)
         PROVE  LifeInv'
    <3>1. /\ UNCHANGED <<hp, sup>> /\ unit[u] = "active"
          /\ \/ unit' = [unit EXCEPT ![u] = "ended"]
             \/ unit' = [unit EXCEPT ![u] = "bound"] /\ "binds_to" \notin broken
      BY <2>11 DEF SleepEnds, BoundStop, Active
    <3>2. /\ \A v \in Units \ {u} : unit'[v] = unit[v]
          /\ unit'[u] \in {"ended", "bound"} /\ (unit'[u] = "bound" => "binds_to" \notin broken)
      BY <3>1, <1>0
    <3>3. /\ unit'["timeout"] = "timeout" => unit["timeout"] = "timeout"
          /\ unit'["child"] = unit["child"] \/ (unit["child"] = "active" /\ unit'["child"] \in {"ended", "bound"})
          /\ unit'["child"] = "bound" => unit["child"] = "bound" \/ "binds_to" \notin broken
          /\ \A v \in {"timeout", "anchor", "child", "peer"} : unit'[v] = unit[v] \/ unit'[v] # "active"
      BY <3>1, <3>2, <1>0
    <3>4. ChildSeen => ChildSeen'
      BY <3>3, <2>m DEF ChildSeen
    <3> QED
      BY <3>1, <3>3, <3>4, <2>0, <1>0 DEF LifeInv
  <2> QED
    BY <1>4, <2>1, <2>2, <2>3, <2>4, <2>5, <2>6, <2>7, <2>8, <2>9, <2>10, <2>11 DEF LifecycleNext, LifecycleSteps
<1> QED
  BY <1>1, <1>2, <1>3, <1>4, <1>5, <1>6, NextGroups


-----------------------------------------------------------------------------
\* The helper starts with nothing on disk, no unit and no sandbox.
LEMMA InitIInv == Init => IInv
<1> SUFFICES ASSUME Init PROVE IInv
  OBVIOUS
<1>1. hp \in Helpers /\ hp.pc = "sockets" /\ hp.k = 0 /\ hp.err = FALSE
  BY DEF Init, Helpers, HelperPcs, Preparing
<1>2. HelperTypes
  <2>1. faults \in 0 .. MaxFaults
    BY CanaryAssumption DEF Init
  <2>2. /\ disk = {} /\ lost = {} /\ misread = {} /\ peer \in {"none", "alive", "dead"}
        /\ sup \in {"none", "start", "watch", "seen", "missed"}
    BY DEF Init
  <2> QED
    BY <1>1, <2>1, <2>2 DEF HelperTypes
<1>3. UnitTypes /\ \A u \in Units : unit[u] = "none"
  BY DEF Init, UnitTypes, UnitStates
<1>4. codex \in CodexStates /\ codex.es = "ThreadStarted" /\ codex.report = FALSE
  BY DEF Init, NoCodex, CodexStates, BeforeCommand
<1>5. leaks \subseteq Leaks /\ honest \in BOOLEAN /\ broken \subseteq Breaks
  BY SandboxAssumption DEF Init
<1>6. SandboxTypes
  BY <1>4, <1>5 DEF Init, SandboxTypes
<1>7. ListenerTypes /\ ListenerInv
  BY DEF Init, ListenerTypes, ListenerInv, ListenerStates, NoListener
<1>8. "runtime" \in Units /\ "timeout" \in Units /\ "child" \in Units /\ "peer" \in Units
  BY DEF Units
<1>9. StreamInv
  BY <1>3, <1>4, <1>8 DEF Init, StreamInv, SinceCommand
<1>10. PassInv /\ FixtureInv
  BY <1>1 DEF Init, PassInv, FixtureInv, Passed, LifecyclePcs, TimeoutPcs, OwnerPcs, PeerPcs, Complete, Intact
<1>11. LifeInv
  BY <1>1, <1>3, <1>8 DEF Init, LifeInv, OwnerPcs, PeerPcs, PastOwner, PastTimeout
<1> QED
  BY <1>2, <1>3, <1>6, <1>7, <1>9, <1>10, <1>11 DEF IInv, Types

\* The invariant of the canaries: what each stage has established, on every host and
\* whatever Codex, the probe, systemd and the faults do.
THEOREM CanaryInvariant == Spec => []IInv
<1>1. IInv /\ [Next]_canaryVars => IInv'
  <2> SUFFICES ASSUME IInv, [Next]_canaryVars PROVE IInv'
    OBVIOUS
  <2>1. HelperTypes' /\ UnitTypes' /\ SandboxTypes'
    BY TypeStep DEF IInv
  <2>2. ListenerTypes' /\ ListenerInv'
    BY ListenerStep DEF IInv
  <2>3. StreamInv'
    BY StreamStep DEF IInv
  <2> QED
    BY <2>1, <2>2, <2>3, PassStep, LifeStep, FixtureStep DEF IInv, Types
<1> QED
  BY <1>1, InitIInv, PTL DEF Spec

\* The canaries pass only on a host that does what they test (activation_canary.rs,
\* run_runtime_boundary_canary and the lifecycle canaries): nothing was let through that the
\* host can see, but for a connection in a monitor's blind moment, nothing at all if the
\* probe is honest; units were stopped by their time limit and none is left active; and a
\* child was stopped with its owner, unless it slept through or `is-active` failed for it.
THEOREM PassesAreEarned == Spec => []PassIsEarned
<1>1. IInv => PassIsEarned
  <2> SUFFICES ASSUME IInv PROVE PassIsEarned
    OBVIOUS
  <2>1. RuntimePassed => hp.pc \in Passed
    BY Cleans DEF RuntimePassed, Passed, LifecyclePcs
  <2>2. hp.pc \in Passed => unit["runtime"] = "ok" /\ tampered = {} /\ conns \subseteq late
    BY DEF IInv, PassInv
  <2>3. NoPassWithLeak
    BY <2>1, <2>2 DEF NoPassWithLeak, IInv, StreamInv
  <2>4. LifecycleProven
    <3> SUFFICES ASSUME hp.pc = "passed"
                 PROVE  LifecycleProven
      BY DEF LifecycleProven
    <3>1. hp.pc \in PastTimeout /\ hp.pc \in PastOwner /\ hp.pc \in Passed
      BY DEF PastTimeout, PastOwner, Passed
    <3>2. /\ "runtime_max" \notin broken /\ sup = "seen" /\ ChildSeen
          /\ unit["child"] = "bound" => "binds_to" \notin broken
          /\ unit["timeout"] # "active" /\ unit["child"] # "active" /\ unit["anchor"] # "active"
          /\ unit["peer"] # "active"
      BY <3>1 DEF IInv, LifeInv
    <3>3. \A u \in Units : ~Active(u)
      BY <2>2, <3>1, <3>2 DEF Units, Active
    <3> QED
      BY <3>2, <3>3 DEF LifecycleProven, ChildSeen
  <2> QED
    BY <2>3, <2>4 DEF PassIsEarned
<1> QED
  BY <1>1, CanaryInvariant, PTL

\* A unit succeeded only if Codex ran the fixed command, once, and nothing else
\* (canary_exec.rs), whatever it emitted and in which order.
THEOREM StreamsAreExact == Spec => []CanaryInv
<1>1. IInv => CanaryInv
  <2> SUFFICES ASSUME IInv PROVE CanaryInv
    OBVIOUS
  <2>1. hp.k \in 0 .. Len(FixtureOrder) /\ hp.err \in BOOLEAN /\ codex.ids \subseteq ItemIds
    BY Fixtures DEF IInv, Types, HelperTypes, Helpers, SandboxTypes, CodexStates
  <2>2. codex.es \in {"CommandCompleted", "AgentMessage", "TurnCompleted", "Finished"} => codex.cmd \in codex.ids
    BY DEF IInv, StreamInv, SinceCommand
  <2>3. TypeOK
    BY <2>1, <2>2 DEF TypeOK, IInv, Types, HelperTypes, UnitTypes, UnitStates, ListenerTypes, ListenerStates, SandboxTypes
  <2>4. AcceptedStream
    BY DEF AcceptedStream, IInv, StreamInv
  <2> QED
    BY <2>3, <2>4 DEF CanaryInv
<1> QED
  BY <1>1, CanaryInvariant, PTL

\* A helper that has ended has removed its fixtures, whichever step failed
\* (HostFixtureSet): what is left after a failure could not itself be tracked, inspected
\* or removed, holds such a path, or comes after it in the clean-up of a complete set.
THEOREM FixturesAreRemoved == Spec => []FixturesRemoved
<1>1. IInv => FixturesRemoved
  BY DEF IInv, FixtureInv, FixturesRemoved, Passed, Excused
<1> QED
  BY <1>1, CanaryInvariant, PTL
=============================================================================
