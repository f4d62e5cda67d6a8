---------------------------- MODULE CodexLauncher ----------------------------
(***************************************************************************)
(* The launcher process that systemd starts for each connection            *)
(* (codex_launcher.rs and bin/webex-codex-launcher.rs): authorise the      *)
(* caller, read one request, answer a preflight or carry out an execution  *)
(* while watching for the client to leave, and write one response.         *)
(***************************************************************************)
EXTENDS IsolatedExecution

Exit(c) == Go(c, [lch[c] EXCEPT !.pc = "exited", !.todo = {}, !.held = None, !.listed = {}])

LauncherUnchanged == UNCHANGED botVars /\ UNCHANGED unitVars
                     /\ UNCHANGED <<evidence, source, sealed, left, seen, sock, sent, gone>>

\* The caller is the main process of the bot's service, with its executable and in
\* its control group.  A pidfd holds on to the process that connected: one that was
\* given its number later is not taken for it.
PeerIsBot(c) == PeerAlive(c)

\* A look at the caller that may also fail for reasons of its own.
LookAtPeer(c, next) ==
  /\ \/ PeerIsBot(c) /\ Step(c, next) /\ NoFault
     \/ ~PeerIsBot(c) /\ Exit(c) /\ NoFault
     \/ Fault /\ Exit(c)
  /\ LauncherUnchanged /\ UNCHANGED resp

\* main: the process and its socket are checked, then the caller.
Authorise(c) == At(c, "auth") /\ LookAtPeer(c, "confirm")

\* The caller must still be the same process and alive; the capability that looking
\* at it took is dropped.
ConfirmPeer(c) == At(c, "confirm") /\ LookAtPeer(c, "receive")

\* The request is read, its writer and the caller compared, the frame decoded and
\* the socket checked to be open with nothing more on it.
ReceiveRequest(c) ==
  /\ At(c, "receive")
  /\ LET q == sent[c] IN
     IF ~PeerAlive(c) \/ sock[c] = "closed"
     THEN Exit(c) /\ UNCHANGED resp
     ELSE \/ /\ ~decode_request_frame(q)
             /\ resp' = [resp EXCEPT ![c] = Rejected(NoRun, "malformed_request")]
             /\ Exit(c)
          \/ /\ decode_request_frame(q) /\ ~q.policy
             /\ resp' = [resp EXCEPT ![c] = Rejected(q.run, "invalid_model")]
             /\ Exit(c)
          \/ /\ decode_request_frame(q) /\ q.policy
             /\ Step(c, IF q.kind = "preflight" THEN "preflight" ELSE "prepare")
             /\ UNCHANGED resp
  /\ NoFault /\ LauncherUnchanged

\* preflight_available: the same checks an execution makes before it seals, under
\* a budget that is cancelled when the client leaves.
AnswerPreflight(c) ==
  /\ At(c, "preflight")
  /\ \/ /\ sock[c] = "open" /\ PeerAlive(c)
        /\ resp' = [resp EXCEPT ![c] = Ready(preflight)]
     \/ (sock[c] = "closed" \/ ~PeerAlive(c)) /\ UNCHANGED resp
  /\ Exit(c)
  /\ NoFault /\ LauncherUnchanged

Executing == {"prepare", "quarantine", "staging", "seal", "sealed", "rollback", "consume",
              "grant", "start", "prompt", "wait", "stop", "cleanup"}

\* wait_for_client_disconnect: the execution is cancelled and drained.
NoticeDisconnect(c) ==
  /\ lch[c].pc \in Executing
  /\ sock[c] = "closed" /\ ~lch[c].cancelled
  /\ Go(c, [lch[c] EXCEPT !.cancelled = TRUE])
  /\ NoFault /\ LauncherUnchanged /\ UNCHANGED resp

\* The execution is over.  A client that is still there gets the response; one
\* that left gets none.
FinishExecution(c) ==
  /\ At(c, "finish")
  /\ resp' = IF sock[c] = "open" /\ ~lch[c].cancelled /\ PeerAlive(c)
             THEN [resp EXCEPT ![c] = ExecutionResponse(Run(c), lch[c].result)]
             ELSE resp
  /\ Exit(c)
  /\ NoFault /\ LauncherUnchanged

\* The launcher is killed with its systemd-run: a watchdog or the drain limit ends
\* the process (exit 70), or systemd does.  Nothing it held is cleaned up.
LauncherKilled(c) ==
  /\ lch[c].pc \notin {"none", "exited"}
  /\ Fault
  /\ Exit(c)
  /\ sysrun' = [sysrun EXCEPT ![Run(c)] = IF @ = "running" THEN "failed" ELSE @]
  /\ left' = left \cup (IF lch[c].pc \in Executing THEN {Run(c)} ELSE {})
  /\ UNCHANGED botVars /\ UNCHANGED socketVars
  /\ UNCHANGED <<evidence, source, sealed, seen, unit, loose>>

CodexLauncherNext(c) ==
  \/ Authorise(c) \/ ConfirmPeer(c) \/ ReceiveRequest(c) \/ AnswerPreflight(c) \/ NoticeDisconnect(c)
  \/ FinishExecution(c) \/ LauncherKilled(c)
=============================================================================
