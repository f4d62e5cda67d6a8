----------------------------- MODULE CanaryStream -----------------------------
(***************************************************************************)
(* Inside the runtime unit of the canary: the wrapper in its canary mode   *)
(* (webex-codex-runtime.rs), Codex with its JSON event stream, the probe   *)
(* it is told to run (webex-codex-canary-probe.rs), and the parser that    *)
(* accepts the stream (canary_exec.rs, canary_protocol.rs).                *)
(*                                                                         *)
(* The wrapper reads the whole stream and then parses it; here each event  *)
(* is parsed as it is emitted, with the same result.  Codex is external:   *)
(* it may emit anything, but it reports every command that it runs.        *)
(***************************************************************************)
EXTENDS CanaryHost

StreamUnchanged == UNCHANGED <<hp, disk, lost, leaks, honest, broken, peer, sup, misread>>
CodexRuns       == unit["runtime"] = "active" /\ codex.pc = "run"

\* The wrapper prepares its directories, the credential, the descriptor secret, the
\* fixtures of its own and their snapshots; any failure ends the unit.
BootCanary ==
  /\ unit["runtime"] = "active" /\ codex.pc = "boot"
  /\ \/ codex' = [codex EXCEPT !.pc = "run"] /\ UNCHANGED unit /\ NoFault
     \/ Fault /\ codex' = [codex EXCEPT !.pc = "exit"] /\ unit' = [unit EXCEPT !["runtime"] = "ended"]
  /\ StreamUnchanged /\ UNCHANGED <<lst, late, cmds, conns, tampered, replaced>>

-----------------------------------------------------------------------------
\* An event is accepted in one state only and leads to the next; an error discards what
\* the parser knows.
Reject         == [NoCodex EXCEPT !.pc = "run", !.es = "Rejected"]
Accept(s, e)   == [s EXCEPT !.es = e]
InState(e)     == codex.es = e
FreshId(id)    == id \notin codex.ids
Seen(s, id)    == [s EXCEPT !.ids = @ \cup {id}]

\* Mutant: a command may start in any state.
OnItemStartedMutant(c, id) ==
  IF c = "probe" /\ FreshId(id)
    THEN [Seen(Accept(codex, "CommandCompleted"), id) EXCEPT !.cmd = id]
    ELSE Reject

OnThreadStarted == IF InState("ThreadStarted") THEN Accept(codex, "TurnStarted") ELSE Reject
OnTurnStarted   == IF InState("TurnStarted") THEN Accept(codex, "CommandStarted") ELSE Reject

OnItemStarted(c, id) ==
  IF InState("CommandStarted") /\ c = "probe" /\ FreshId(id)
    THEN [Seen(Accept(codex, "CommandCompleted"), id) EXCEPT !.cmd = id]
    ELSE Reject

\* The completion is of the command that was started, and successful; its output is
\* the report, whose shape is fixed.
OnCommandCompleted(c, id, report) ==
  IF InState("CommandCompleted") /\ c = "probe" /\ id = codex.cmd
    THEN [Accept(codex, "AgentMessage") EXCEPT !.report = report]
    ELSE Reject

OnReasoning(id) ==
  IF codex.es \in {"CommandStarted", "AgentMessage"} /\ FreshId(id) THEN Seen(codex, id) ELSE Reject

OnAgentMessage(id, matches) ==
  IF InState("AgentMessage") /\ FreshId(id) /\ matches THEN Seen(Accept(codex, "TurnCompleted"), id) ELSE Reject

OnTurnCompleted == IF InState("TurnCompleted") THEN Accept(codex, "Finished") ELSE Reject

-----------------------------------------------------------------------------
\* Codex emits an event that is not about a command.
CodexEvent ==
  /\ CodexRuns /\ codex.es # "Rejected"
  /\ \/ codex' \in {OnThreadStarted, OnTurnStarted, OnTurnCompleted, Reject}
     \/ \E id \in ItemIds : codex' = OnReasoning(id)
     \/ \E id \in ItemIds, matches \in BOOLEAN : codex' = [OnAgentMessage(id, matches) EXCEPT !.msg = matches]
  /\ NoFault /\ StreamUnchanged /\ UNCHANGED <<lst, late, unit, cmds, conns, tampered, replaced>>

\* Codex runs a command: the one of the prompt or, the model being free to, another.
StartCommand ==
  /\ CodexRuns /\ Len(cmds) < 2
  /\ \E c \in {"probe", "other"}, id \in ItemIds :
       codex' = OnItemStarted(c, id) /\ cmds' = Append(cmds, c)
  /\ NoFault /\ StreamUnchanged /\ UNCHANGED <<lst, late, unit, conns, tampered, replaced>>

\* A command reaches what the sandbox leaks.
Connect(l) ==
  /\ CodexRuns /\ cmds # <<>> /\ l \in leaks /\ l \notin conns /\ is_live(l)
  /\ lst' = [lst EXCEPT ![l].backlog = @ + 1]
  /\ conns' = conns \cup {l}
  /\ late' = IF lst[l].pc = "check" THEN late \cup {l} ELSE late
  /\ NoFault /\ StreamUnchanged /\ UNCHANGED <<unit, codex, cmds, tampered, replaced>>

Tamper(f) ==
  /\ CodexRuns /\ cmds # <<>> /\ f \in leaks \ tampered
  /\ tampered' = tampered \cup {f} /\ replaced' \in {replaced, replaced \cup {f}}
  /\ NoFault /\ StreamUnchanged /\ UNCHANGED <<lst, late, unit, codex, cmds, conns>>

\* Each check of the probe tries what must be denied; a true report says that all was
\* denied, and a false one may say so too.
collect_checks == {leaks = {}} \cup (IF honest THEN {} ELSE {TRUE})

CompleteCommand ==
  /\ CodexRuns /\ cmds # <<>>
  /\ \E id \in ItemIds, report \in collect_checks : codex' = OnCommandCompleted(cmds[Len(cmds)], id, report)
  /\ codex.es = "CommandCompleted"
  /\ NoFault /\ StreamUnchanged /\ UNCHANGED <<lst, late, unit, cmds, conns, tampered, replaced>>

\* RuntimeCanarySnapshots::verify_after: the wrapper's own fixtures, the credential and
\* the final output are the files they were, with the contents they had.
verify_after == "runtime" \notin tampered

\* RuntimeCanaryRuntimeEvidence::validate: every check of the report passed, and the
\* wrapper's own fixtures are unchanged.
RuntimeEvidenceValid == codex.report /\ verify_after

\* Codex ends.  The wrapper succeeds if Codex did, the whole stream was accepted, the
\* final output is the bound message and the evidence is valid.
EndCodex ==
  /\ CodexRuns
  /\ \E success \in BOOLEAN :
       unit' = [unit EXCEPT !["runtime"] =
                  IF success /\ codex.es = "Finished" /\ codex.msg /\ RuntimeEvidenceValid THEN "ok" ELSE "ended"]
  /\ codex' = [NoCodex EXCEPT !.pc = "exit"]
  /\ NoFault /\ StreamUnchanged /\ UNCHANGED <<lst, late, cmds, conns, tampered, replaced>>

CanaryStreamNext ==
  \/ BootCanary \/ CodexEvent \/ StartCommand \/ CompleteCommand \/ EndCodex
  \/ \E f \in Writes : Tamper(f)
  \/ \E l \in Listeners : Connect(l)
=============================================================================
