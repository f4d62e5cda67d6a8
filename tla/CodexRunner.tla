----------------------------- MODULE CodexRunner -----------------------------
(***************************************************************************)
(* The bot's execution of one attempt (runner.rs): with the isolated       *)
(* backend a preflight, the staging (RunnerInput), the execution through   *)
(* the launcher client (launcher_client.rs) and the cleanup; with the      *)
(* current-user backend a codex child of its own.                          *)
(***************************************************************************)
EXTENDS RunnerInput

RunnerUnchanged == UNCHANGED launcherVars /\ UNCHANGED unitVars /\ UNCHANGED <<evidence, left>>

StartAttempt ==
  /\ bot.pc = "idle" /\ run < MaxRuns
  /\ run' = run + 1
  /\ bot' = [IdleBot EXCEPT !.pc = IF settings.isolated THEN "preflight" ELSE "spawn"]
  /\ NoFault /\ UNCHANGED <<settings, host, child, outcome, source>>
  /\ RunnerUnchanged /\ UNCHANGED socketVars

\* exchange: a connection of its own for each request, which starts a launcher; the
\* whole request is one packet.
Exchange(c, request) ==
  /\ sock' = [sock EXCEPT ![c] = "open"]
  /\ sent' = [sent EXCEPT ![c] = request]
  /\ lch'  = [lch EXCEPT ![c].pc = "auth"]

Connect(c, request, next, failed) ==
  \/ /\ Exchange(c, request)
     /\ Continue([bot EXCEPT !.pc = next])
     /\ NoFault
  \/ /\ Fault
     /\ failed
     /\ UNCHANGED <<sock, sent, lch>>

CallPreflight ==
  /\ bot.pc = "preflight"
  /\ Connect(<<run, "preflight">>, PreflightRequest, "await_preflight", EndAttempt(FALSE))
  /\ UNCHANGED <<settings, host, run, child, resp, gone, source, sealed, seen, evidence, left>>
  /\ UNCHANGED unitVars

\* ephemeral_execute_request and execute: settings that make no valid request fail
\* here, with the workspace already staged.
CallExecute ==
  /\ bot.pc = "call"
  /\ LET giveUp == Continue([bot EXCEPT !.pc = "clean"]) IN
     IF settings.valid
     THEN Connect(<<run, "execute">>, ExecuteRequest(run, settings), "await_execute", giveUp)
     ELSE giveUp /\ NoFault /\ UNCHANGED <<sock, sent, lch>>
  /\ UNCHANGED <<settings, host, run, child, resp, gone, source, sealed, seen, evidence, left>>
  /\ UNCHANGED unitVars

Awaiting(c) ==
  \/ c = <<run, "preflight">> /\ bot.pc = "await_preflight"
  \/ c = <<run, "execute">>   /\ bot.pc = "await_execute"

\* The socket is dropped with the exchange, whatever its result.
CloseWith(c, ok) ==
  /\ sock' = [sock EXCEPT ![c] = "closed"]
  /\ IF c[2] = "preflight"
     THEN IF ok THEN Continue([bot EXCEPT !.pc = "stage"]) ELSE EndAttempt(FALSE)
     ELSE Continue([bot EXCEPT !.pc = "clean", !.got = ok])
  /\ UNCHANGED <<settings, host, run, child, sent, resp, gone, source>>
  /\ RunnerUnchanged

ReceiveResponse(c) ==
  /\ Awaiting(c) /\ resp[c] # NoPacket
  /\ CloseWith(c, IF c[2] = "preflight" THEN ValidPreflightResponse(resp[c])
                                        ELSE ValidExecuteResponse(resp[c], run))
  /\ NoFault

\* The launcher has closed the connection without a response.
ReceiveEof(c) ==
  /\ Awaiting(c) /\ resp[c] = NoPacket /\ lch[c].pc = "exited"
  /\ CloseWith(c, FALSE)
  /\ NoFault

\* The response timeout passes, or the packet received is not a valid response.
ReceiveTimeout(c) ==
  /\ Awaiting(c)
  /\ Fault
  /\ CloseWith(c, FALSE)

\* The bot process ends at any point and is started again: its sockets close and
\* its children go with its control group.
BotCrash ==
  /\ bot.pc # "idle"
  /\ Fault
  /\ EndAttempt(FALSE)
  /\ gone' = gone \cup {c \in Conns : sock[c] # "none"}
  /\ sock' = [c \in Conns |-> IF sock[c] = "open" THEN "closed" ELSE sock[c]]
  /\ left' = left \cup {run}
  /\ child' = NoChild
  /\ UNCHANGED <<settings, host, run, sent, resp, source, evidence>>
  /\ UNCHANGED launcherVars /\ UNCHANGED unitVars

-----------------------------------------------------------------------------
\* CurrentUserExecBackend: the codex child, the process group it may fill with
\* descendants, the pipes they hold open and the output file.

ChildUnchanged == UNCHANGED <<settings, host, run, source>> /\ UNCHANGED socketVars
                  /\ UNCHANGED launcherVars /\ UNCHANGED unitVars /\ UNCHANGED evidence

\* The output file is created first and stays behind when the spawn fails.
SpawnChild ==
  /\ bot.pc = "spawn"
  /\ \/ /\ child' = [pc |-> "running", group |-> TRUE, pipe |-> TRUE, out |-> TRUE]
        /\ Continue([bot EXCEPT !.pc = "child"])
        /\ NoFault /\ UNCHANGED left
     \/ /\ Fault /\ EndAttempt(FALSE)
        /\ left' = left \cup {run} /\ UNCHANGED child
  /\ ChildUnchanged

\* The child ends by itself; a descendant may keep its pipes open.
ChildExit ==
  /\ child.pc = "running"
  /\ \E status \in {"ok", "failed"}, p \in BOOLEAN :
       child' = [child EXCEPT !.pc = status, !.group = p, !.pipe = p]
  /\ NoFault /\ ChildUnchanged /\ UNCHANGED <<bot, outcome, left>>

\* The timeout, or a failed write of the prompt: SIGTERM to the group, and SIGKILL
\* to the group when the child itself has not ended within 250 ms.
TerminateChild ==
  /\ bot.pc = "child" /\ child.pc = "running"
  /\ \E p \in BOOLEAN : child' = [child EXCEPT !.pc = "failed", !.group = p, !.pipe = p]
  /\ NoFault /\ ChildUnchanged /\ UNCHANGED <<bot, outcome, left>>

\* The readers are joined, without a limit, then the output file is read and removed.
CollectChild ==
  /\ bot.pc = "child" /\ child.pc \in {"ok", "failed"} /\ ~child.pipe
  /\ \/ child.pc = "ok" /\ EndAttempt(TRUE)
     \/ EndAttempt(FALSE)
  /\ child' = NoChild
  /\ NoFault /\ ChildUnchanged /\ UNCHANGED left

\* The last descendant ends.
GroupExit ==
  /\ child.pc \in {"ok", "failed"} /\ child.group
  /\ child' = [child EXCEPT !.group = FALSE, !.pipe = FALSE]
  /\ NoFault /\ ChildUnchanged /\ UNCHANGED <<bot, outcome, left>>

CodexRunnerNext ==
  \/ StartAttempt \/ CallPreflight \/ CallExecute \/ BotCrash
  \/ \E c \in Conns : ReceiveResponse(c) \/ ReceiveEof(c) \/ ReceiveTimeout(c)
  \/ SpawnChild \/ ChildExit \/ TerminateChild \/ CollectChild \/ GroupExit
=============================================================================
