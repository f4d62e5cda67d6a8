--------------------------- MODULE MessageAttempt ---------------------------
(***************************************************************************)
(* process_event of src/main.rs: what one run of a persisted message job    *)
(* does with the attempt store, with Webex and with the config-pull worker, *)
(* from begin_attempt to the reply, through retries, crashes and            *)
(* redelivered events.                                                      *)
(*                                                                          *)
(* Every await on Webex, on the store or on the worker is a step of its     *)
(* own.  A create request is sent, lands (or not) and is answered in        *)
(* separate steps, so a time-out or a crash leaves it in flight.            *)
(*                                                                          *)
(* Abstractions.                                                            *)
(*  - About[m] is what hydration returns for message m: its room, thread    *)
(*    root, whether the bot sent it, whether it triggers the room's policy  *)
(*    (addressed) or a follow-up (candidate), and its config command.       *)
(*  - A post of the bot is named by its marker: <<kind, of, n>> is the n-th *)
(*    one that carries the kind's marker for message `of`.                  *)
(*  - A marker search reads the rooms as they are and its page budget       *)
(*    reaches the marker.                                                   *)
(*  - The store keeps "free", "leased" or "processed" for a message.        *)
(*    Deferring only sets how long the lease lasts.                         *)
(*  - Jenkins prefetch and the Codex run always end in some reply text.     *)
(*  - MessageJobScheduler runs one attempt of a message at a time.          *)
(***************************************************************************)
EXTENDS Naturals, Sequences, FiniteSets

CONSTANTS
    Messages,       \* messages people (or the bot) wrote in Webex
    NoMessage, NoRoom,
    About,          \* About[m]: the hydrated message
    Policies,       \* BotConfig.rooms
    AdminRoom,      \* config_commands.room_id, or NoRoom
    MaxDeliveries,  \* bound: events delivered by the sidecar
    MaxCallFaults,  \* bound: calls to Webex or the worker that fail
    MaxStateFaults, \* bound: store operations that fail
    MaxCrashes      \* bound: process crashes

ASSUME AttemptAssumption ==
    /\ IsFiniteSet(Messages) /\ NoMessage \notin Messages
    /\ MaxDeliveries \in Nat /\ MaxCallFaults \in Nat
    /\ MaxStateFaults \in Nat /\ MaxCrashes \in Nat

\* What RoomPolicy::validate, validate_room_ids and
\* validate_config_commands_room accept.
ConfigValid ==
    \A i \in DOMAIN Policies : LET p == Policies[i] IN
      /\ p.out # p.room
      /\ p.readOnly => p.out # NoRoom
      /\ AdminRoom \notin {p.room, p.out} \ {NoRoom}
      /\ \A j \in DOMAIN Policies : Policies[j].room = p.room => i = j

ASSUME ConfigAssumption == ConfigValid

Kinds == {"forward", "reply"}
Ids == Kinds \X Messages \X Nat

\* Webex gives every message a room, and no two messages one ID.
ASSUME WebexAssumption ==
    /\ \A m \in Messages : m \notin Ids /\ About[m].room # NoRoom
    /\ NoMessage \notin Ids

VARIABLES
    queued,    \* jobs in the spool
    store,     \* JsonlStateStore
    att,       \* att[m]: the attempt of m under way
    posts,     \* the bot's posts in Webex, oldest first
    inflight,  \* create requests sent and not yet settled
    actions,   \* pull actions in the worker's durable queue
    rejected,  \* observer: messages a call was refused for, for good
    deliveries, callFaults, stateFaults, crashes  \* observers

world == <<posts, inflight, actions>>
faults == <<callFaults, stateFaults, crashes>>
vars == <<queued, store, att, world, rejected, deliveries, faults>>

\* The attempt's next step; the thread it replies to (or the room it forwards
\* to); the follow-up policies still to try; the room of the policy it runs
\* under; the create request it waits for.
NoAttempt == [pc |-> "idle", room |-> NoRoom, parent |-> NoMessage,
              todo |-> {}, policy |-> NoRoom, request |-> NoMessage]

Init ==
    /\ queued = {} /\ store = [m \in Messages |-> "free"]
    /\ att = [m \in Messages |-> NoAttempt]
    /\ posts = <<>> /\ inflight = {} /\ actions = {} /\ rejected = {}
    /\ deliveries = 0 /\ callFaults = 0 /\ stateFaults = 0 /\ crashes = 0

-----------------------------------------------------------------------------
(***************************************************************************)
(* Configuration and markers.                                               *)
(***************************************************************************)
PolicyOf(room) == {i \in DOMAIN Policies : Policies[i].room = room}

FollowupPolicies(room) ==
    {i \in DOMAIN Policies : /\ Policies[i].followup
                             /\ room \in {Policies[i].room, Policies[i].out}}

ReadOnlySource(room) == \E i \in PolicyOf(room) : Policies[i].readOnly

Landed == {posts[i] : i \in DOMAIN posts}
PostsOf(kind, m) == {p \in Landed : p.kind = kind /\ p.of = m}

\* Mutant: any source marker is taken for the message's own.
FindForwardMutantAny(m, room) ==
    {p \in Landed : p.kind = "forward" /\ p.room = room}

\* find_existing_message_by_marker, for a source marker in a whole room ...
FindForward(m, room) == {p \in PostsOf("forward", m) : p.room = room}

\* Mutant: the marker is not looked for.
FindReplyMutantNever(m, room, parent) == {}

\* ... and for a reply marker in one thread.
FindReplies(room, parent) ==
    {p \in Landed : p.kind = "reply" /\ p.room = room /\ p.parent = parent}
FindReply(m, room, parent) == {p \in FindReplies(room, parent) : p.of = m}

(***************************************************************************)
(* resolve_followup.                                                        *)
(***************************************************************************)
\* In a read-only source the thread root is the source message; elsewhere
\* it is the message of the first reply marker in the thread.
FollowupSource(m, p) ==
    LET a == About[m]
        marked == {i \in DOMAIN posts : posts[i] \in FindReplies(a.room, a.parent)}
    IN  IF a.room = p.room /\ p.readOnly THEN {a.parent}
        ELSE {posts[i].of : i \in {j \in marked : \A k \in marked : j <= k}}

\* The thread to answer in, or nothing.
FollowupThreads(m, p) ==
    LET a == About[m] IN
    IF ~a.candidate \/ a.parent = NoMessage THEN {}
    ELSE UNION {IF a.room = p.room /\ p.readOnly
                THEN {[room |-> p.out, parent |-> f.id] : f \in FindForward(s, p.out)}
                ELSE {[room |-> a.room, parent |-> a.parent]} :
                s \in {r \in FollowupSource(m, p) : About[r].room = p.room}}

(***************************************************************************)
(* Control.                                                                 *)
(***************************************************************************)
At(m, pcs) == att[m].pc \in pcs
Go(m, pc) == att' = [att EXCEPT ![m].pc = pc]
Stop(m) == att' = [att EXCEPT ![m] = NoAttempt]
ReplyIn(m, room, parent, policy) ==
    att' = [att EXCEPT ![m] = [NoAttempt EXCEPT !.pc = "searchReply",
              !.room = room, !.parent = parent, !.policy = policy]]

\* A call of the attempt fails.
CallFault == callFaults < MaxCallFaults /\ callFaults' = callFaults + 1
StateFault == stateFaults < MaxStateFaults /\ stateFaults' = stateFaults + 1

-----------------------------------------------------------------------------
(***************************************************************************)
(* The job and its attempt lease.                                           *)
(***************************************************************************)
\* The posts in a room that a message there may be in the thread of.
ThreadRoots(room) == {p.id : p \in {q \in Landed : q.room = room}}

\* An event for m is delivered and its job queued (MessageJobs).
Deliver(m) ==
    /\ deliveries < MaxDeliveries /\ m \notin queued
    /\ About[m].parent \in Messages \cup {NoMessage} \cup ThreadRoots(About[m].room)
    /\ deliveries' = deliveries + 1
    /\ queued' = queued \cup {m}
    /\ UNCHANGED <<store, att, world, rejected, faults>>

\* Mutant: a lease left by an earlier attempt is taken over.
BeginAttemptMutantTakesOver(m) ==
    /\ m \in queued /\ At(m, {"idle"}) /\ store[m] # "processed"
    /\ store' = [store EXCEPT ![m] = "leased"]
    /\ Go(m, "hydrate")
    /\ UNCHANGED <<queued, world, rejected, deliveries, faults>>

\* begin_attempt: Started.  (Leased and a store error change nothing.)
BeginAttempt(m) ==
    /\ m \in queued /\ At(m, {"idle"}) /\ store[m] = "free"
    /\ store' = [store EXCEPT ![m] = "leased"]
    /\ Go(m, "hydrate")
    /\ UNCHANGED <<queued, world, rejected, deliveries, faults>>

\* Mutant: a message that is already processed is an error to retry.
BeginProcessedMutantRetries(m) ==
    /\ m \in queued /\ At(m, {"idle"}) /\ store[m] = "processed"
    /\ UNCHANGED vars

\* begin_attempt: Processed, "duplicate_message"
BeginProcessed(m) ==
    /\ m \in queued /\ At(m, {"idle"}) /\ store[m] = "processed"
    /\ Go(m, "done")
    /\ UNCHANGED <<queued, store, world, rejected, deliveries, faults>>

\* mark_processed, then Ok
Mark(m) ==
    /\ At(m, {"mark", "sent"})
    /\ store' = [store EXCEPT ![m] = "processed"]
    /\ Go(m, "done")
    /\ UNCHANGED <<queued, world, rejected, deliveries, faults>>

\* Mutant: a failed mark_processed is always only logged.
MarkFailsMutantLogged(m) ==
    /\ At(m, {"mark", "sent"}) /\ StateFault
    /\ Go(m, "done")
    /\ UNCHANGED <<queued, store, world, rejected, deliveries, callFaults, crashes>>

\* mark_processed fails: a retry, unless the reply was accepted just before.
MarkFails(m) ==
    /\ At(m, {"mark", "sent"}) /\ StateFault
    /\ IF At(m, {"sent"}) THEN Go(m, "done") ELSE Stop(m)
    /\ UNCHANGED <<queued, store, world, rejected, deliveries, callFaults, crashes>>

\* run_persisted_message_job removes the job of an attempt that returned Ok.
RemoveJob(m) ==
    /\ At(m, {"done"})
    /\ queued' = queued \ {m}
    /\ Stop(m)
    /\ UNCHANGED <<store, world, rejected, deliveries, faults>>

(***************************************************************************)
(* Hydration and routing.                                                   *)
(***************************************************************************)
\* process_config_command, up to its first call
CommandStep(m) ==
    IF About[m].parent # NoMessage \/ ~About[m].addressed THEN "mark"
    ELSE IF About[m].command = "pull"   THEN "enqueue"
    ELSE IF About[m].command = "status" THEN "searchReply"
    ELSE "mark"

IgnoredRoom(m) ==
    LET a == About[m] IN
    \/ AdminRoom # NoRoom /\ a.command # "none" /\ a.room # AdminRoom
    \/ PolicyOf(a.room) = {} /\ FollowupPolicies(a.room) = {} /\ a.room # AdminRoom
    \/ a.self

\* get_event_message_with_not_found_retry returns the message.
Hydrate(m) ==
    LET a == About[m] IN
    /\ At(m, {"hydrate"})
    /\ att' = [att EXCEPT ![m] =
         IF IgnoredRoom(m) THEN [@ EXCEPT !.pc = "mark"]
         ELSE IF a.room = AdminRoom
         THEN [@ EXCEPT !.pc = CommandStep(m), !.room = a.room, !.parent = m,
                        !.policy = AdminRoom]
         ELSE [@ EXCEPT !.pc = "followup", !.todo = FollowupPolicies(a.room)]]
    /\ UNCHANGED <<queued, store, world, rejected, deliveries, faults>>

\* The follow-up policies are tried in the order of the configuration.
NextPolicies(m) == {i \in att[m].todo : \A j \in att[m].todo : i <= j}

\* One round of the loop over the follow-up policies.
TryFollowup(m) ==
    /\ At(m, {"followup"})
    /\ \E i \in NextPolicies(m) : LET p == Policies[i] IN
         \/ FollowupThreads(m, p) = {} /\ att' = [att EXCEPT ![m].todo = @ \ {i}]
         \/ \E t \in FollowupThreads(m, p) : ReplyIn(m, t.room, t.parent, p.room)
    /\ UNCHANGED <<queued, store, world, rejected, deliveries, faults>>

\* The thread root or the source message is gone (404): the next policy.
FollowupGone(m) ==
    /\ At(m, {"followup"}) /\ About[m].candidate /\ CallFault
    /\ \E i \in NextPolicies(m) : att' = [att EXCEPT ![m].todo = @ \ {i}]
    /\ rejected' = rejected \cup {m}
    /\ UNCHANGED <<queued, store, world, deliveries, stateFaults, crashes>>

\* The message reaches the direct policy of its room.
TriggersDirectly(m) ==
    /\ PolicyOf(About[m].room) # {} /\ About[m].addressed
    /\ ~(About[m].parent # NoMessage /\ ReadOnlySource(About[m].room))

\* No follow-up: the trigger, and prepare_reply_thread up to its first call.
RouteDirect(m) ==
    LET a == About[m] IN
    /\ At(m, {"followup"}) /\ att[m].todo = {}
    /\ IF ~TriggersDirectly(m) THEN Go(m, "mark")
       ELSE \E i \in PolicyOf(a.room) :
              IF Policies[i].out = NoRoom
              THEN ReplyIn(m, a.room, IF a.parent = NoMessage THEN m ELSE a.parent,
                           a.room)
              ELSE att' = [att EXCEPT ![m] = [NoAttempt EXCEPT
                     !.pc = "searchForward", !.room = Policies[i].out]]
    /\ UNCHANGED <<queued, store, world, rejected, deliveries, faults>>

(***************************************************************************)
(* config_actions.enqueue: idempotent in the message ID.                    *)
(***************************************************************************)
\* Mutant: the command is acknowledged before it is submitted.
EnqueuePullMutantLate(m) ==
    /\ At(m, {"enqueue"})
    /\ Go(m, "searchReply")
    /\ UNCHANGED <<queued, store, world, rejected, deliveries, faults>>

EnqueuePull(m) ==
    /\ At(m, {"enqueue"})
    /\ actions' = actions \cup {m}
    /\ Go(m, "searchReply")
    /\ UNCHANGED <<queued, store, posts, inflight, rejected, deliveries, faults>>

\* The worker is away, or took the action and its answer was lost: deferred.
EnqueuePullFails(m) ==
    /\ At(m, {"enqueue"}) /\ CallFault
    /\ actions' \in {actions, actions \cup {m}}
    /\ Stop(m)
    /\ UNCHANGED <<queued, store, posts, inflight, rejected, deliveries,
                   stateFaults, crashes>>

(***************************************************************************)
(* The mirror in the output room: prepare_reply_thread.                     *)
(***************************************************************************)
\* Under which policy's room the mirror's thread is answered.
ReplyUnder(m, p) == ReplyIn(m, p.room, p.id, About[m].room)

SearchForward(m) ==
    /\ At(m, {"searchForward"})
    /\ \/ FindForward(m, att[m].room) = {} /\ Go(m, "createForward")
       \/ \E p \in FindForward(m, att[m].room) : ReplyUnder(m, p)
    /\ UNCHANGED <<queued, store, world, rejected, deliveries, faults>>

\* create_message: a request is sent, unless the room is a read-only source.
Send(m, kind, parent) ==
    LET copies == {p \in Landed \cup inflight : p.kind = kind /\ p.of = m}
        id == <<kind, m, Cardinality(copies) + 1>>
    IN  /\ inflight' = inflight \cup
             {[id |-> id, kind |-> kind, of |-> m, room |-> att[m].room,
               parent |-> parent]}
        /\ att' = [att EXCEPT ![m] = [@ EXCEPT !.pc = kind, !.request = id]]

\* Mutant: the guard on read-only rooms is missing.
WriteBlockedMutantNever(m) == FALSE

WriteBlocked(m) == ReadOnlySource(att[m].room)

CreateForward(m) ==
    /\ At(m, {"createForward"}) /\ ~WriteBlocked(m)
    /\ Send(m, "forward", NoMessage)
    /\ UNCHANGED <<queued, store, posts, actions, rejected, deliveries, faults>>

\* WebexCallError::WriteBlocked is a permanent failure.
CreateBlocked(m) ==
    /\ At(m, {"createForward", "createReply"}) /\ WriteBlocked(m)
    /\ rejected' = rejected \cup {m}
    /\ Go(m, "mark")
    /\ UNCHANGED <<queued, store, world, deliveries, faults>>

ForwardCreated(m) ==
    /\ At(m, {"forward"})
    /\ \E p \in Landed : p.id = att[m].request /\ ReplyUnder(m, p)
    /\ UNCHANGED <<queued, store, world, rejected, deliveries, faults>>

\* The response carries no message id: deferred.
ForwardWithoutId(m) ==
    /\ At(m, {"forward"}) /\ CallFault
    /\ \E p \in Landed : p.id = att[m].request
    /\ Stop(m)
    /\ UNCHANGED <<queued, store, world, rejected, deliveries, stateFaults, crashes>>

(***************************************************************************)
(* run_codex_reply and send_fixed_reply.                                    *)
(***************************************************************************)
\* The reply is there already, or Codex runs (a command has a fixed reply).
SearchReply(m) ==
    /\ At(m, {"searchReply"})
    /\ IF FindReply(m, att[m].room, att[m].parent) # {} THEN Go(m, "mark")
       ELSE Go(m, IF att[m].policy = AdminRoom THEN "createReply" ELSE "run")
    /\ UNCHANGED <<queued, store, world, rejected, deliveries, faults>>

RunCodex(m) ==
    /\ At(m, {"run"})
    /\ Go(m, "createReply")
    /\ UNCHANGED <<queued, store, world, rejected, deliveries, faults>>

CreateReply(m) ==
    /\ At(m, {"createReply"}) /\ ~WriteBlocked(m)
    /\ Send(m, "reply", att[m].parent)
    /\ UNCHANGED <<queued, store, posts, actions, rejected, deliveries, faults>>

ReplyCreated(m) ==
    /\ At(m, {"reply"})
    /\ \E p \in Landed : p.id = att[m].request
    /\ Go(m, "sent")
    /\ UNCHANGED <<queued, store, world, rejected, deliveries, faults>>

(***************************************************************************)
(* Failing calls: classify_webex_failure tells a permanent one (Stop) from  *)
(* one to retry.                                                            *)
(***************************************************************************)
Calling == {"hydrate", "searchForward", "searchReply"}
MayFail(m) ==
    \/ At(m, Calling)
    \/ At(m, {"followup"}) /\ att[m].todo # {} /\ About[m].candidate

\* handle_get_message_failure, handle_reconciliation_failure and
\* handle_forward_reconciliation_failure: Stop ...
CallRefused(m) ==
    /\ MayFail(m) /\ CallFault
    /\ rejected' = rejected \cup {m}
    /\ Go(m, "mark")
    /\ UNCHANGED <<queued, store, world, deliveries, stateFaults, crashes>>

\* Mutant: a failure to retry is taken for a permanent one.
CallRetriedMutantStops(m) ==
    /\ MayFail(m) /\ CallFault
    /\ Go(m, "mark")
    /\ UNCHANGED <<queued, store, world, rejected, deliveries, stateFaults, crashes>>

\* ... and Retry: the attempt is deferred.
CallRetried(m) ==
    /\ MayFail(m) /\ CallFault
    /\ Stop(m)
    /\ UNCHANGED <<queued, store, world, rejected, deliveries, stateFaults, crashes>>

\* Webex answers the create request with an error: it is not carried out.
CreateRefused(m) ==
    /\ At(m, {"forward", "reply"}) /\ CallFault
    /\ \E p \in inflight : p.id = att[m].request /\ inflight' = inflight \ {p}
    /\ \/ Go(m, "mark") /\ rejected' = rejected \cup {m}
       \/ Go(m, "recheck") /\ UNCHANGED rejected
    /\ UNCHANGED <<queued, store, posts, actions, deliveries, stateFaults, crashes>>

\* The request times out or the connection breaks, whatever Webex does with
\* it.
CreateTimedOut(m) ==
    /\ At(m, {"forward", "reply"}) /\ CallFault
    /\ Go(m, "recheck")
    /\ UNCHANGED <<queued, store, world, rejected, deliveries, stateFaults, crashes>>

\* handle_forward_create_failure and handle_create_message_failure look for
\* the marker once more; without it the attempt is deferred.
Recheck(m) ==
    LET kind == att[m].request[1] IN
    /\ At(m, {"recheck"})
    /\ \/ kind = "forward" /\ \E p \in FindForward(m, att[m].room) : ReplyUnder(m, p)
       \/ kind = "forward" /\ FindForward(m, att[m].room) = {} /\ Stop(m)
       \/ kind = "reply" /\ IF FindReply(m, att[m].room, att[m].parent) # {}
                            THEN Go(m, "mark") ELSE Stop(m)
    /\ UNCHANGED <<queued, store, world, rejected, deliveries, faults>>

\* The second search fails: deferred as well.
RecheckFails(m) ==
    /\ At(m, {"recheck"}) /\ CallFault
    /\ Stop(m)
    /\ UNCHANGED <<queued, store, world, rejected, deliveries, stateFaults, crashes>>

(***************************************************************************)
(* Webex, time and crashes.                                                 *)
(***************************************************************************)
Land(p) ==
    /\ p \in inflight
    /\ inflight' = inflight \ {p} /\ posts' = Append(posts, p)
    /\ UNCHANGED <<queued, store, att, actions, rejected, deliveries, faults>>

\* A request nobody waits for any more is lost.
Lose(p) ==
    /\ p \in inflight /\ \A m \in Messages : att[m].request # p.id \/ At(m, {"recheck"})
    /\ inflight' = inflight \ {p}
    /\ UNCHANGED <<queued, store, att, posts, actions, rejected, deliveries, faults>>

\* The lease of an attempt that is over runs out.  It was taken for the whole
\* attempt, or set to the lease after a time-out, and by then Webex has
\* settled the requests the attempt left behind.
Expire(m) ==
    /\ store[m] = "leased" /\ At(m, {"idle"})
    /\ \A p \in inflight : p.of # m
    /\ store' = [store EXCEPT ![m] = "free"]
    /\ UNCHANGED <<queued, att, world, rejected, deliveries, faults>>

Crash ==
    /\ crashes < MaxCrashes /\ \E m \in Messages : ~At(m, {"idle"})
    /\ crashes' = crashes + 1
    /\ att' = [m \in Messages |-> NoAttempt]
    /\ UNCHANGED <<queued, store, world, rejected, deliveries, callFaults,
                   stateFaults>>

-----------------------------------------------------------------------------
AttemptStep(m) ==
    \/ BeginAttempt(m) \/ BeginProcessed(m) \/ Mark(m) \/ RemoveJob(m)
    \/ Hydrate(m) \/ TryFollowup(m) \/ RouteDirect(m) \/ EnqueuePull(m)
    \/ SearchForward(m) \/ CreateForward(m) \/ CreateBlocked(m)
    \/ ForwardCreated(m) \/ SearchReply(m) \/ RunCodex(m) \/ CreateReply(m)
    \/ ReplyCreated(m) \/ Recheck(m)

FaultStep(m) ==
    \/ MarkFails(m) \/ FollowupGone(m) \/ EnqueuePullFails(m)
    \/ ForwardWithoutId(m) \/ CallRefused(m) \/ CallRetried(m)
    \/ CreateRefused(m) \/ CreateTimedOut(m) \/ RecheckFails(m)

Settle == \E p \in inflight : Land(p) \/ Lose(p)

Next ==
    \/ \E m \in Messages : Deliver(m) \/ AttemptStep(m) \/ FaultStep(m) \/ Expire(m)
    \/ Settle \/ Crash

Spec == Init /\ [][Next]_vars

\* The scheduler runs every queued job again (MessageJobScheduler!EveryJobAttempted),
\* calls return, requests settle and leases end: whatever of this can happen, some
\* of it does.
Progress == Settle \/ \E m \in Messages : AttemptStep(m) \/ Expire(m)
FairSpec == Spec /\ WF_vars(Progress)

-----------------------------------------------------------------------------
(***************************************************************************)
(* Properties.                                                              *)
(***************************************************************************)
Steps == {"idle", "hydrate", "followup", "enqueue", "searchForward",
          "createForward", "forward", "searchReply", "run", "createReply",
          "reply", "recheck", "mark", "sent", "done"}

TypeOK ==
    /\ queued \subseteq Messages /\ actions \subseteq Messages
    /\ rejected \subseteq Messages
    /\ store \in [Messages -> {"free", "leased", "processed"}]
    /\ \A m \in Messages :
         /\ att[m].pc \in Steps
         /\ att[m].pc # "idle" => m \in queued /\ store[m] # "free"
         /\ At(m, {"searchReply", "run", "createReply", "reply", "sent"}) =>
              att[m].room # NoRoom /\ att[m].parent # NoMessage
    /\ \A p \in Landed \cup inflight :
         p.kind \in Kinds /\ p.of \in Messages

(***************************************************************************)
(* "Hidden reply/source markers reconcile any Webex write accepted          *)
(* immediately before a crash": however often a message is delivered, its   *)
(* attempt fails, times out or is cut short, it is mirrored at most once    *)
(* and answered at most once.                                               *)
(***************************************************************************)
AtMostOnePost ==
    \A m \in Messages, kind \in Kinds :
      Cardinality(PostsOf(kind, m)) <= 1

(***************************************************************************)
(* Codex never runs for a message whose reply is already in Webex.          *)
(***************************************************************************)
NoRunAfterReply ==
    \A m \in Messages : At(m, {"run", "createReply"}) => PostsOf("reply", m) = {}

(***************************************************************************)
(* The bookkeeping of an attempt: types, a lease for every attempt, a       *)
(* thread for every reply, and no run after a reply.                        *)
(***************************************************************************)
AttemptInv == TypeOK /\ NoRunAfterReply

(***************************************************************************)
(* A message that triggers its room's policy is marked processed only when  *)
(* it has its reply, or when Webex refused a call for good.                 *)
(***************************************************************************)
ProcessedIsAnswered ==
    \A m \in Messages :
      /\ store[m] = "processed"
      /\ TriggersDirectly(m) /\ ~IgnoredRoom(m) /\ About[m].room # AdminRoom
      => PostsOf("reply", m) # {} \/ m \in rejected

(***************************************************************************)
(* "Runtime write guards reject any attempt to create a Webex message in a  *)
(* configured read-only source room."                                       *)
(***************************************************************************)
ReadOnlyNeverWritten == \A p \in Landed \cup inflight : ~ReadOnlySource(p.room)

(***************************************************************************)
(* "It mirrors the original message into output_room_id as a top-level      *)
(* staging message and replies under that mirror": the reply to a message   *)
(* of a read-only source, or to a follow-up in its thread, is in the output *)
(* room under the mirror of that thread's own root.                         *)
(***************************************************************************)
RootOf(m) == IF About[m].parent \in Messages THEN About[m].parent ELSE m
RepliedUnderOwnMirror ==
    \A p \in Landed : p.kind = "reply" /\ ReadOnlySource(About[p.of].room) =>
      \E f \in PostsOf("forward", RootOf(p.of)) :
        /\ p.parent = f.id /\ p.room = f.room /\ f.parent = NoMessage
        /\ \E i \in PolicyOf(About[p.of].room) : p.room = Policies[i].out

(***************************************************************************)
(* A follow-up under a mirror runs under the policy of the room the         *)
(* mirrored message came from, though several policies share the output     *)
(* room.                                                                    *)
(***************************************************************************)
FollowupUnderOwnPolicy ==
    \A m \in Messages : At(m, {"run"}) =>
      \A p \in Landed : p.kind = "forward" /\ p.id = att[m].parent =>
        att[m].policy = About[p.of].room

(***************************************************************************)
(* A message is answered where its own source says: under its own mirror    *)
(* and, in a follow-up, under the policy of its own source.                 *)
(***************************************************************************)
AnsweredForOwnSource == RepliedUnderOwnMirror /\ FollowupUnderOwnPolicy

(***************************************************************************)
(* `/config pull` "durably submits a fixed action to a separate worker      *)
(* before acknowledgement".                                                 *)
(***************************************************************************)
PullAcknowledgedAfterSubmit ==
    \A p \in Landed \cup inflight :
      p.kind = "reply" /\ About[p.of].command = "pull" => p.of \in actions

(***************************************************************************)
(* A job is removed only when its message is settled for good: marked       *)
(* processed, or answered.                                                  *)
(***************************************************************************)
RemovedIsSettled ==
    [][\A m \in queued \ queued' :
         store[m] = "processed" \/ PostsOf("reply", m) # {}]_vars

(***************************************************************************)
(* Every job is settled in the end, whatever finite number of calls, store  *)
(* operations or processes fail on the way: after the last delivery the     *)
(* queue becomes and stays empty.                                           *)
(***************************************************************************)
EveryJobSettles == <>[](queued = {})
=============================================================================
