--------------------------- MODULE LauncherProtocol ---------------------------
(***************************************************************************)
(* The one-packet protocol between the bot and the Codex launcher          *)
(* (launcher_protocol.rs): one request and at most one response on each    *)
(* connection, every frame encoded, bounded and validated at both ends.    *)
(* A request carries the run identifier and two facts about the settings   *)
(* it was built from: `valid`, it passes ExecuteRequest::validate, and     *)
(* `policy`, it also passes the launcher's own execution policy.           *)
(***************************************************************************)
EXTENDS Naturals

NoRun == 0

PreflightRequest == [kind |-> "preflight", run |-> NoRun, valid |-> TRUE, policy |-> TRUE]
ExecuteRequest(r, settings) ==
  [kind |-> "execute", run |-> r, valid |-> settings.valid, policy |-> settings.policy]

\* A frame of the right length, version and shape, with every field within its bounds.
decode_request_frame(request) == request.valid

Ready(available)   == [kind |-> "ready", run |-> NoRun, code |-> IF available THEN "available" ELSE "unavailable"]
Completed(r)       == [kind |-> "completed", run |-> r, code |-> "ok"]
Rejected(r, code)  == [kind |-> "rejected", run |-> r, code |-> code]

\* The response to a run that ended while its client was still connected.
ExecutionResponse(r, result) ==
  IF result = "completed" THEN Completed(r)
  ELSE Rejected(r, IF result = "timed_out" THEN "execution_timed_out"
                   ELSE IF result = "failed" THEN "execution_failed"
                   ELSE IF result = "unavailable" THEN "execution_unavailable"
                   ELSE "internal_error")

\* What the bot's client accepts as a successful answer.
ValidPreflightResponse(resp) == resp.kind = "ready" /\ resp.code = "available"

ValidExecuteResponse(resp, r) == resp.kind = "completed" /\ resp.run = r
=============================================================================
