-------------------------- MODULE LifecycleCanaries --------------------------
(***************************************************************************)
(* The lifecycle canaries (activation_canary.rs): a unit that must end by  *)
(* its RuntimeMaxSec, a child that must end with the unit it is bound to,  *)
(* and a unit that the production supervisor must stop because its peer    *)
(* has exited.  Each unit sleeps for 30 seconds and then ends by itself.   *)
(* systemd is external, and need not do what the canary is there to show.  *)
(***************************************************************************)
EXTENDS CanaryHost

HelperEnded == hp.pc \in {"passed", "failed", "killed"}
Active(u)   == unit[u] = "active"
\* What each unit is bound to: the renewal unit, and for the child its anchor.
OwnerGone(u) == IF u = "child" THEN ~Active("anchor") ELSE HelperEnded

\* Where each step of the helper leads, and to which cleanup an error does.
StartStep    == [t_start |-> <<"timeout", "t_active">>, o_start |-> <<"anchor", "o_child">>,
                 o_child |-> <<"child", "o_active">>]
ActiveStep   == [t_active |-> <<"timeout", "t_inactive">>, o_active |-> <<"child", "o_stop">>]
InactiveStep == [t_inactive |-> <<"timeout", "t_result">>, o_inactive |-> <<"child", "o_clean">>,
                 p_inactive |-> <<"peer", "p_clean">>]
CleanOf      == [t_start |-> "t_clean", t_active |-> "t_clean", t_inactive |-> "t_clean", t_result |-> "t_clean",
                 o_start |-> "o_clean", o_child |-> "o_clean", o_active |-> "o_clean", o_stop |-> "o_clean",
                 o_inactive |-> "o_clean", p_spawn |-> "p_clean", p_run |-> "p_clean", p_inactive |-> "p_clean"]
CleanStep    == [t_clean |-> <<{"timeout"}, "o_start">>, o_clean |-> <<{"child", "anchor"}, "p_spawn">>,
                 p_clean |-> <<{"peer"}, "passed">>]

FailLifecycle == hp' = [hp EXCEPT !.pc = CleanOf[hp.pc], !.err = TRUE]
HostUnchanged == UNCHANGED hostVars /\ UNCHANGED sandboxVars

\* systemd-run starts a unit, or fails or times out, and the unit may exist or not.
StartUnit ==
  /\ hp.pc \in DOMAIN StartStep
  /\ LET u == StartStep[hp.pc][1] IN
     \/ Goto(StartStep[hp.pc][2]) /\ unit' = [unit EXCEPT ![u] = "active"] /\ NoFault
     \/ FailLifecycle /\ unit' \in {unit, [unit EXCEPT ![u] = "active"]} /\ Fault
  /\ HostUnchanged /\ UNCHANGED <<peer, sup, misread>>

\* Mutant: a unit that did not get there before the deadline is taken as if it had.
WaitForUnitMutant(u, wanted, next) ==
  /\ Goto(next) /\ NoFault /\ UNCHANGED unitVars /\ HostUnchanged

\* wait_for_unit_state: `systemctl is-active` is run until its exit status is the wanted
\* one or UNIT_STATE_TIMEOUT has passed.  It may not run or time out, and a status that
\* is not zero counts as inactive whatever its reason.
WaitForUnit(u, wanted, next) ==
  /\ \/ (Active(u) <=> wanted) /\ Goto(next) /\ NoFault /\ UNCHANGED misread
     \/ (Active(u) <=> ~wanted) /\ FailLifecycle /\ NoFault /\ UNCHANGED misread
     \/ FailLifecycle /\ Fault /\ UNCHANGED misread
     \/ Active(u) /\ ~wanted /\ Goto(next) /\ Fault /\ misread' = misread \cup {u}
  /\ HostUnchanged /\ UNCHANGED <<unit, peer, sup>>

wait_for_unit_active ==
  /\ hp.pc \in DOMAIN ActiveStep
  /\ WaitForUnit(ActiveStep[hp.pc][1], TRUE, ActiveStep[hp.pc][2])

wait_for_unit_inactive ==
  /\ hp.pc \in DOMAIN InactiveStep
  /\ WaitForUnit(InactiveStep[hp.pc][1], FALSE, InactiveStep[hp.pc][2])

\* The unit's Result must be timeout.
verify_timeout_unit_result ==
  /\ hp.pc = "t_result"
  /\ \/ unit["timeout"] = "timeout" /\ Goto("t_clean") /\ NoFault
     \/ unit["timeout"] # "timeout" /\ FailLifecycle /\ NoFault
     \/ FailLifecycle /\ Fault
  /\ HostUnchanged /\ UNCHANGED unitVars

StopAnchor ==
  /\ hp.pc = "o_stop"
  /\ \/ Goto("o_inactive") /\ NoFault
        /\ unit' = [unit EXCEPT !["anchor"] = IF Active("anchor") THEN "stopped" ELSE @]
     \/ FailLifecycle /\ Fault /\ UNCHANGED unit
  /\ HostUnchanged /\ UNCHANGED <<peer, sup, misread>>

\* cleanup_lifecycle_unit: stop and reset every unit of the canary, whether it passed
\* or not; an error of the canary or of the cleanup fails the renewal.
StopUnits(us) == [u \in Units |-> IF u \in us /\ Active(u) THEN "stopped" ELSE unit[u]]

CleanupUnits ==
  /\ hp.pc \in DOMAIN CleanStep
  /\ \/ /\ unit' = StopUnits(CleanStep[hp.pc][1]) /\ NoFault
        /\ Goto(IF hp.err THEN "failed" ELSE CleanStep[hp.pc][2])
     \/ /\ Fault /\ Goto("failed")
        /\ unit' \in {unit} \cup {StopUnits(us) : us \in SUBSET CleanStep[hp.pc][1]}
  /\ HostUnchanged /\ UNCHANGED <<peer, sup, misread>>

-----------------------------------------------------------------------------
\* The peer process and the unit's supervisor run side by side.
SpawnPeer ==
  /\ hp.pc = "p_spawn"
  /\ \/ Goto("p_run") /\ peer' = "alive" /\ sup' = "start" /\ NoFault
     \/ Goto("failed") /\ Fault /\ UNCHANGED <<peer, sup>>
  /\ HostUnchanged /\ UNCHANGED <<unit, misread>>

SuperviseStart ==
  /\ hp.pc = "p_run" /\ sup = "start"
  /\ \/ unit' = [unit EXCEPT !["peer"] = "active"] /\ sup' = "watch" /\ NoFault
     \/ unit' \in {unit, [unit EXCEPT !["peer"] = "active"]} /\ sup' = "missed" /\ Fault
  /\ UNCHANGED hp /\ HostUnchanged /\ UNCHANGED <<peer, misread>>

\* The peer is killed once the unit is active, after the deadline or when the wait could
\* not be made; the error of the wait is kept.
KillPeer ==
  /\ hp.pc = "p_run" /\ peer = "alive"
  /\ peer' = "dead"
  /\ \/ hp' = [hp EXCEPT !.err = ~Active("peer")] /\ NoFault
     \/ hp' = [hp EXCEPT !.err = TRUE] /\ Fault
  /\ HostUnchanged /\ UNCHANGED <<unit, sup, misread>>

\* The supervisor sees the exit of the peer and stops the unit, whether it still runs or
\* not; only this is success, and only if the stop succeeded.
SuperviseSees ==
  /\ hp.pc = "p_run" /\ sup = "watch" /\ peer = "dead"
  /\ \/ unit' = StopUnits({"peer"}) /\ sup' = "seen" /\ NoFault
     \/ unit' \in {unit, StopUnits({"peer"})} /\ sup' = "missed" /\ Fault
  /\ UNCHANGED hp /\ HostUnchanged /\ UNCHANGED <<peer, misread>>

\* The unit ends first, or the supervisor's deadline passes and it stops the unit.
SuperviseEnd ==
  /\ hp.pc = "p_run" /\ sup = "watch"
  /\ sup' = "missed" /\ unit' = StopUnits({"peer"})
  /\ NoFault /\ UNCHANGED hp /\ HostUnchanged /\ UNCHANGED <<peer, misread>>

\* Both are awaited before their results are looked at.
JoinPeer ==
  /\ hp.pc = "p_run" /\ peer = "dead" /\ sup \in {"seen", "missed"}
  /\ IF sup = "seen" /\ ~hp.err THEN Goto("p_inactive") ELSE FailLifecycle
  /\ NoFault /\ HostUnchanged /\ UNCHANGED unitVars

-----------------------------------------------------------------------------
\* systemd and the units themselves.
SleepEnds(u) ==
  /\ u # "runtime" /\ Active(u)
  /\ unit' = [unit EXCEPT ![u] = "ended"]
  /\ NoFault /\ UNCHANGED hp /\ HostUnchanged /\ UNCHANGED <<peer, sup, misread>>

RuntimeMaxExpires ==
  /\ Active("timeout") /\ "runtime_max" \notin broken
  /\ unit' = [unit EXCEPT !["timeout"] = "timeout"]
  /\ NoFault /\ UNCHANGED hp /\ HostUnchanged /\ UNCHANGED <<peer, sup, misread>>

BoundStop(u) ==
  /\ Active(u) /\ OwnerGone(u) /\ "binds_to" \notin broken
  /\ unit' = [unit EXCEPT ![u] = "bound"]
  /\ NoFault /\ UNCHANGED hp /\ HostUnchanged /\ UNCHANGED <<peer, sup, misread>>

LifecycleSteps ==
  \/ StartUnit \/ wait_for_unit_active \/ wait_for_unit_inactive \/ verify_timeout_unit_result
  \/ StopAnchor \/ CleanupUnits \/ SpawnPeer \/ SuperviseStart \/ KillPeer \/ SuperviseSees
  \/ SuperviseEnd \/ JoinPeer

LifecycleNext ==
  \/ LifecycleSteps \/ RuntimeMaxExpires
  \/ \E u \in Units : SleepEnds(u) \/ BoundStop(u)
=============================================================================
