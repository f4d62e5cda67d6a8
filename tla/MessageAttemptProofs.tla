------------------------ MODULE MessageAttemptProofs ------------------------
(***************************************************************************)
(* Proofs about the attempts of a message, for every configuration, every   *)
(* set of messages and any number of deliveries, failing calls and crashes. *)
(***************************************************************************)
EXTENDS MessageAttempt, FiniteSetTheorems, SequenceTheorems, TLAPS

(***************************************************************************)
(* The types the actions rely on.                                           *)
(***************************************************************************)
Rooms == {About[m].room : m \in Messages} \cup {NoRoom, AdminRoom}
         \cup {Policies[i].room : i \in DOMAIN Policies}
         \cup {Policies[i].out : i \in DOMAIN Policies}
Threads == Messages \cup {NoMessage} \cup Ids \cup {About[m].parent : m \in Messages}
Attempts == [pc : Steps, room : Rooms, parent : Threads, todo : SUBSET DOMAIN Policies,
             policy : Rooms, request : Ids \cup {NoMessage}]
Posts == [id : Ids, kind : Kinds, of : Messages, room : Rooms, parent : Threads]

Sent == Landed \cup inflight

Types ==
    /\ queued \subseteq Messages /\ actions \subseteq Messages /\ rejected \subseteq Messages
    /\ store \in [Messages -> {"free", "leased", "processed"}]
    /\ att \in [Messages -> Attempts]
    /\ posts \in Seq(Posts) /\ inflight \subseteq Posts
    /\ IsFiniteSet(Sent)

(***************************************************************************)
(* What holds for every configuration.                                      *)
(***************************************************************************)

\* A post is named by its marker.
PostsNamed == \A p \in Sent : p.id[1] = p.kind /\ p.id[2] = p.of

\* A message that reaches its room's policy has its reply or was refused.
Settles(m) ==
    TriggersDirectly(m) /\ ~IgnoredRoom(m) /\ About[m].room # AdminRoom
      => PostsOf("reply", m) # {} \/ m \in rejected

Answering == {"followup", "searchForward", "createForward", "forward", "searchReply", "run",
              "createReply", "reply", "recheck"}

\* Where commands are on, one that is being answered has been submitted.
Submitted(m) == AdminRoom # NoRoom /\ About[m].command = "pull" => m \in actions

\* The attempt holds a lease, waits for its own request, has submitted its
\* command, and ends only when the message is settled.
AttemptSound(m) ==
    /\ att[m].pc # "idle" => m \in queued /\ store[m] # "free"
    /\ att[m].pc \in {"forward", "reply"} =>
         att[m].request[1] = att[m].pc /\ att[m].request[2] = m
    /\ att[m].pc \in Answering => Submitted(m)
    /\ att[m].pc = "mark" => Settles(m)
    /\ att[m].pc = "sent" => PostsOf("reply", m) # {}
    /\ att[m].pc = "done" => store[m] = "processed" \/ PostsOf("reply", m) # {}
    /\ store[m] = "processed" => Settles(m)

BaseIInv ==
    /\ Types
    /\ PostsNamed
    /\ ReadOnlyNeverWritten
    /\ \A p \in Sent : p.kind = "reply" => Submitted(p.of)
    /\ \A m \in Messages : AttemptSound(m)

(***************************************************************************)
(* What holds when a message has one place to be answered in.               *)
(***************************************************************************)

\* No room that is mirrored elsewhere is itself another policy's output room,
\* unless it is read-only (nothing is posted there).
NoRelay ==
    \A i, j \in DOMAIN Policies :
      Policies[i].room = Policies[j].out =>
        Policies[i].readOnly \/ Policies[i].out = NoRoom

\* The messages of m's room are mirrored in `room`.
MirroredIn(m, room) ==
    room # NoRoom /\ \E i \in PolicyOf(About[m].room) : Policies[i].out = room

\* The message whose mirror m is answered under.
MirrorRoot(m) ==
    IF About[m].parent # NoMessage /\ ReadOnlySource(About[m].room)
    THEN About[m].parent ELSE m

\* m is answered in this room and thread.
Place(m, room, parent) ==
    \/ /\ About[m].room = AdminRoom
       /\ room = AdminRoom /\ parent = m
    \/ /\ About[m].room # AdminRoom /\ MirroredIn(m, room)
       /\ About[MirrorRoot(m)].room = About[m].room
       /\ \E f \in PostsOf("forward", MirrorRoot(m)) : f.room = room /\ f.id = parent
    \/ /\ About[m].room # AdminRoom
       /\ \A i \in PolicyOf(About[m].room) : Policies[i].out = NoRoom
       /\ room = About[m].room
       /\ parent = IF About[m].parent = NoMessage THEN m ELSE About[m].parent

\* There is one post of a kind for a message, landed or under way.
OnePost == \A p, q \in Sent : p.kind = q.kind /\ p.of = q.of => p = q
NotBoth == Landed \cap inflight = {}

PostsPlaced ==
    \A p \in Sent :
      /\ p.kind = "forward" => p.parent = NoMessage /\ MirroredIn(p.of, p.room)
      /\ p.kind = "reply" => Place(p.of, p.room, p.parent)

Forwarding(m) ==
    \/ att[m].pc \in {"searchForward", "createForward", "forward"}
    \/ att[m].pc = "recheck" /\ att[m].request[1] = "forward"
Replying(m) ==
    \/ att[m].pc \in {"enqueue", "searchReply", "run", "createReply", "reply", "sent"}
    \/ att[m].pc = "recheck" /\ att[m].request[1] = "reply"

UnderWay(m) == {p \in inflight : p.of = m}
NeverSent(kind, m) == \A p \in Sent : ~(p.kind = kind /\ p.of = m)

\* An attempt knows the place of its message, has nothing under way but the
\* request it waits for, and creates only what was never created.
AttemptPlaced(m) ==
    /\ store[m] = "free" => UnderWay(m) = {}
    /\ att[m].pc \in {"hydrate", "followup", "enqueue", "searchForward", "createForward",
                      "searchReply", "run", "createReply"} => UnderWay(m) = {}
    /\ att[m].pc \in {"forward", "reply"} => \A p \in UnderWay(m) : p.kind = att[m].pc
    /\ att[m].pc = "recheck" => \A p \in UnderWay(m) : p.kind = att[m].request[1]
    /\ att[m].pc \in {"followup"} => About[m].room # AdminRoom
    /\ Forwarding(m) => /\ About[m].room # AdminRoom /\ MirrorRoot(m) = m
                        /\ MirroredIn(m, att[m].room)
    /\ Replying(m) => Place(m, att[m].room, att[m].parent)
    /\ att[m].pc = "createForward" => NeverSent("forward", m)
    /\ att[m].pc \in {"run", "createReply"} => NeverSent("reply", m)

PlaceIInv ==
    /\ OnePost /\ NotBoth /\ PostsPlaced
    /\ \A m \in Messages : AttemptPlaced(m)

(***************************************************************************)
(* What holds when, besides, no room with a policy of its own is an output  *)
(* room (but a read-only one).                                              *)
(***************************************************************************)
OutputRoomsApart ==
    \A i, j \in DOMAIN Policies : Policies[i].room = Policies[j].out => Policies[i].readOnly

\* The thread of a queued message exists, in its own room.
ThreadsKnown ==
    \A m \in queued :
      About[m].parent \in Messages \cup {NoMessage} \cup ThreadRoots(About[m].room)

\* The attempt has a thread, and the policy to answer in it under.
Threaded == {"enqueue", "searchReply", "run"}

\* An answer in the thread of a mirror is given under the mirrored message's policy.
PolicyOfMirror(m) ==
    \A p \in Landed : p.kind = "forward" /\ p.id = att[m].parent => att[m].policy = About[p.of].room

PolicyIInv ==
    /\ ThreadsKnown
    /\ \A m \in Messages : att[m].pc \in Threaded => PolicyOfMirror(m)


-----------------------------------------------------------------------------
(***************************************************************************)
(* What the control operators do to the attempts.                           *)
(***************************************************************************)

\* One attempt changes, the others do not.
LEMMA AttemptUpdates ==
  ASSUME Types, NEW m \in Messages, NEW r \in Attempts, att' = [att EXCEPT ![m] = r]
  PROVE  /\ att' \in [Messages -> Attempts] /\ att'[m] = r
         /\ \A n \in Messages \ {m} : att'[n] = att[n]
  BY DEF Types

\* Go moves an attempt to its next step and changes nothing else of it.
LEMMA GoUpdates ==
  ASSUME Types, NEW m \in Messages, NEW pc \in Steps, Go(m, pc)
  PROVE  /\ att' \in [Messages -> Attempts]
         /\ att'[m].pc = pc /\ att'[m].room = att[m].room /\ att'[m].parent = att[m].parent
         /\ att'[m].todo = att[m].todo /\ att'[m].policy = att[m].policy
         /\ att'[m].request = att[m].request
         /\ \A n \in Messages \ {m} : att'[n] = att[n]
<1> DEFINE r == [att[m] EXCEPT !.pc = pc]
<1>1. att[m] \in Attempts
  BY DEF Types
<1>2. /\ r \in Attempts
      /\ r.pc = pc /\ r.room = att[m].room /\ r.parent = att[m].parent
      /\ r.todo = att[m].todo /\ r.policy = att[m].policy /\ r.request = att[m].request
  BY <1>1 DEF Attempts
<1>3. att' = [att EXCEPT ![m] = r]
  BY DEF Go, Types
<1> HIDE DEF r
<1> QED
  BY <1>2, <1>3, AttemptUpdates

\* No attempt.
LEMMA NoAttemptType == NoAttempt \in Attempts /\ NoAttempt.pc = "idle" /\ NoAttempt.request = NoMessage
  BY DEF NoAttempt, Attempts, Rooms, Threads, Steps

\* Stop ends an attempt.
LEMMA StopUpdates ==
  ASSUME Types, NEW m \in Messages, Stop(m)
  PROVE  /\ att' \in [Messages -> Attempts] /\ att'[m] = NoAttempt /\ att'[m].pc = "idle"
         /\ \A n \in Messages \ {m} : att'[n] = att[n]
  BY NoAttemptType, AttemptUpdates DEF Stop

\* ReplyIn starts the search for the reply in a room and thread.
LEMMA ReplyInUpdates ==
  ASSUME Types, NEW m \in Messages, NEW room \in Rooms, NEW parent \in Threads,
         NEW policy \in Rooms, ReplyIn(m, room, parent, policy)
  PROVE  /\ att' \in [Messages -> Attempts]
         /\ att'[m].pc = "searchReply" /\ att'[m].room = room /\ att'[m].parent = parent
         /\ att'[m].policy = policy
         /\ \A n \in Messages \ {m} : att'[n] = att[n]
<1> DEFINE r == [NoAttempt EXCEPT !.pc = "searchReply", !.room = room, !.parent = parent,
                                  !.policy = policy]
<1>1. /\ r \in Attempts /\ r.pc = "searchReply" /\ r.room = room /\ r.parent = parent
      /\ r.policy = policy
  BY DEF NoAttempt, Attempts, Steps
<1>2. att' = [att EXCEPT ![m] = r]
  BY DEF ReplyIn
<1> HIDE DEF r
<1> QED
  BY <1>1, <1>2, AttemptUpdates

\* The posts that are in Webex.
LEMMA LandedPosts ==
  ASSUME Types
  PROVE  /\ Landed \subseteq Posts /\ Sent \subseteq Posts
         /\ \A S \in SUBSET Sent : Cardinality(S) \in Nat
<1>1. DOMAIN posts = 1 .. Len(posts) /\ \A i \in DOMAIN posts : posts[i] \in Posts
  <2>1. posts \in Seq(Posts)
    BY DEF Types
  <2>2. posts \in [1 .. Len(posts) -> Posts] /\ DOMAIN posts = 1 .. Len(posts)
    BY <2>1, LenProperties
  <2> QED
    BY <2>2
<1>2. Landed \subseteq Posts /\ Sent \subseteq Posts
  BY <1>1 DEF Landed, Sent, Types
<1>3. \A S \in SUBSET Sent : Cardinality(S) \in Nat
  BY FS_Subset, FS_CardinalityType DEF Types
<1> QED
  BY <1>2, <1>3

\* A request that lands becomes the last post.
LEMMA Landing ==
  ASSUME Types, NEW p \in inflight, Land(p)
  PROVE  /\ posts' \in Seq(Posts) /\ Landed' = Landed \cup {p} /\ inflight' = inflight \ {p}
         /\ Sent' = Sent
<1>1. p \in Posts /\ posts \in Seq(Posts) /\ posts' = Append(posts, p) /\ inflight' = inflight \ {p}
  BY DEF Types, Land
<1>2. /\ posts' \in Seq(Posts) /\ Len(posts') = Len(posts) + 1 /\ Len(posts) \in Nat
      /\ \A i \in 1 .. Len(posts) : posts'[i] = posts[i]
      /\ posts'[Len(posts) + 1] = p
  BY <1>1, AppendProperties, LenProperties
<1>3. DOMAIN posts = 1 .. Len(posts) /\ DOMAIN posts' = 1 .. Len(posts')
  BY <1>1, <1>2, LenProperties
<1>4. DOMAIN posts' = DOMAIN posts \cup {Len(posts) + 1}
  BY <1>2, <1>3
<1>5. Landed' = Landed \cup {p}
  BY <1>2, <1>3, <1>4 DEF Landed
<1> QED
  BY <1>1, <1>2, <1>5 DEF Sent

\* A create request is one more message under way; it carries its own marker.
LEMMA Sending ==
  ASSUME Types, NEW m \in Messages, NEW kind \in Kinds, NEW parent \in Threads,
         Send(m, kind, parent), UNCHANGED posts
  PROVE  \E p \in Posts :
           /\ p.kind = kind /\ p.of = m /\ p.room = att[m].room /\ p.parent = parent
           /\ p.id[1] = kind /\ p.id[2] = m
           /\ Landed' = Landed /\ inflight' = inflight \cup {p} /\ Sent' = Sent \cup {p}
           /\ IsFiniteSet(Sent') /\ att' \in [Messages -> Attempts]
           /\ att'[m].pc = kind /\ att'[m].request = p.id
           /\ att'[m].room = att[m].room /\ att'[m].parent = att[m].parent
           /\ \A n \in Messages \ {m} : att'[n] = att[n]
<1> DEFINE copies == {p \in Landed \cup inflight : p.kind = kind /\ p.of = m}
           id == <<kind, m, Cardinality(copies) + 1>>
           p == [id |-> id, kind |-> kind, of |-> m, room |-> att[m].room, parent |-> parent]
<1>1. Cardinality(copies) \in Nat
  BY LandedPosts DEF Sent
<1>2. id \in Ids /\ id[1] = kind /\ id[2] = m
  BY <1>1 DEF Ids
<1>3. att[m] \in Attempts /\ att[m].room \in Rooms
  BY DEF Types, Attempts
<1>4. p \in Posts /\ p.id = id
  BY <1>2, <1>3 DEF Posts
<1>5. inflight' = inflight \cup {p} /\ att' = [att EXCEPT ![m] = [att[m] EXCEPT !.pc = kind, !.request = id]]
  BY DEF Send, Types
<1>6. Landed' = Landed /\ Sent' = Sent \cup {p}
  BY <1>5 DEF Landed, Sent
<1>7. IsFiniteSet(Sent')
  BY <1>6, FS_AddElement DEF Types
<1>8. kind \in Steps
  BY DEF Kinds, Steps
<1> DEFINE r == [att[m] EXCEPT !.pc = kind, !.request = id]
<1>9. /\ r \in Attempts /\ r.pc = kind /\ r.request = id
      /\ r.room = att[m].room /\ r.parent = att[m].parent
  BY <1>2, <1>3, <1>8 DEF Attempts
<1>10. att' \in [Messages -> Attempts] /\ att'[m] = r /\ \A n \in Messages \ {m} : att'[n] = att[n]
  BY <1>5, <1>9, AttemptUpdates
<1>11. p.kind = kind /\ p.of = m /\ p.room = att[m].room /\ p.parent = parent
  OBVIOUS
<1> HIDE DEF p, id, copies, r
<1> QED
  BY <1>2, <1>4, <1>5, <1>6, <1>7, <1>9, <1>10, <1>11


\* resolve_followup: the mirror of a read-only room's thread, or the thread the
\* message is in, when a reply there says whose policy it belongs to.
LEMMA FollowupPlaces ==
  ASSUME Types, NEW m \in Messages, NEW i \in DOMAIN Policies,
         NEW t \in FollowupThreads(m, Policies[i])
  PROVE  /\ About[m].parent # NoMessage
         /\ t.room \in Rooms /\ t.parent \in Threads /\ Policies[i].room \in Rooms
         /\ \/ /\ About[m].room = Policies[i].room /\ Policies[i].readOnly
               /\ About[About[m].parent].room = Policies[i].room
               /\ \E f \in PostsOf("forward", About[m].parent) :
                    f.room = Policies[i].out /\ t.room = f.room /\ t.parent = f.id
            \/ /\ t.room = About[m].room /\ t.parent = About[m].parent
               /\ \E q \in Landed : /\ q.kind = "reply" /\ q.room = t.room /\ q.parent = t.parent
                                    /\ About[q.of].room = Policies[i].room
<1> DEFINE a == About[m]
           p == Policies[i]
<1>1. a.parent # NoMessage
  BY DEF FollowupThreads
<1>2. PICK s \in FollowupSource(m, p) :
        /\ About[s].room = p.room
        /\ t \in IF a.room = p.room /\ p.readOnly
                 THEN {[room |-> p.out, parent |-> f.id] : f \in FindForward(s, p.out)}
                 ELSE {[room |-> a.room, parent |-> a.parent]}
  BY DEF FollowupThreads
<1>3. CASE a.room = p.room /\ p.readOnly
  <2>1. s = a.parent
    BY <1>2, <1>3 DEF FollowupSource
  <2>2. PICK f \in FindForward(s, p.out) : t = [room |-> p.out, parent |-> f.id]
    BY <1>2, <1>3
  <2>3. f \in PostsOf("forward", a.parent) /\ f.room = p.out /\ f \in Landed
    BY <2>1, <2>2 DEF FindForward, PostsOf
  <2>4. f.id \in Threads /\ p.out \in Rooms /\ p.room \in Rooms
    BY <2>3, LandedPosts DEF Posts, Threads, Rooms
  <2>5. t.room = p.out /\ t.parent = f.id
    BY <2>2
  <2> QED
    BY <1>1, <1>2, <1>3, <2>1, <2>3, <2>4, <2>5
<1>4. CASE ~(a.room = p.room /\ p.readOnly)
  <2>1. PICK j \in DOMAIN posts : posts[j] \in FindReplies(a.room, a.parent) /\ s = posts[j].of
    BY <1>2, <1>4 DEF FollowupSource
  <2>2. t.room = a.room /\ t.parent = a.parent
    BY <1>2, <1>4
  <2>3. a.room \in Rooms /\ a.parent \in Threads /\ p.room \in Rooms
    BY DEF Rooms, Threads
  <2>4. /\ posts[j] \in Landed /\ posts[j].kind = "reply" /\ posts[j].room = a.room
        /\ posts[j].parent = a.parent
    BY <2>1 DEF FindReplies, Landed
  <2> QED
    BY <1>1, <1>2, <2>1, <2>2, <2>3, <2>4
<1> QED
  BY <1>3, <1>4

\* A mirror's thread, for an attempt that continues under it.
LEMMA MirrorTypes ==
  ASSUME Types, NEW m \in Messages, NEW p \in Landed
  PROVE  p.room \in Rooms /\ p.id \in Threads /\ About[m].room \in Rooms
  BY LandedPosts DEF Posts, Threads, Rooms

-----------------------------------------------------------------------------
\* Every step keeps the types.
LEMMA TypesStep == Types /\ [Next]_vars => Types'
<1> SUFFICES ASSUME Types, [Next]_vars PROVE Types'
  OBVIOUS
<1>s. /\ \A m \in Messages : att[m] \in Attempts /\ att[m].room \in Rooms /\ att[m].parent \in Threads
      /\ "hydrate" \in Steps /\ "done" \in Steps /\ "mark" \in Steps /\ "searchReply" \in Steps
      /\ "createForward" \in Steps /\ "createReply" \in Steps /\ "run" \in Steps
      /\ "sent" \in Steps /\ "recheck" \in Steps /\ "enqueue" \in Steps /\ "followup" \in Steps
      /\ "searchForward" \in Steps /\ "forward" \in Kinds /\ "reply" \in Kinds
  BY DEF Types, Attempts, Steps, Kinds
\* Steps of one attempt that send and land nothing.
<1>a. ASSUME att' \in [Messages -> Attempts], UNCHANGED <<posts, inflight>>,
             queued' \subseteq Messages, actions' \subseteq Messages, rejected' \subseteq Messages,
             store' \in [Messages -> {"free", "leased", "processed"}]
      PROVE  Types'
  BY <1>a DEF Types, Sent, Landed
<1>g. ASSUME NEW m \in Messages, NEW pc \in Steps, Go(m, pc), UNCHANGED <<queued, posts, inflight>>,
             actions' \subseteq Messages, rejected' \subseteq Messages,
             store' \in [Messages -> {"free", "leased", "processed"}]
      PROVE  Types'
  BY <1>a, <1>g, GoUpdates DEF Types
<1>p. ASSUME NEW m \in Messages, Stop(m), UNCHANGED <<store, posts, inflight, rejected>>,
             queued' \subseteq Messages, actions' \subseteq Messages
      PROVE  Types'
  BY <1>a, <1>p, StopUpdates DEF Types
<1>u. ASSUME NEW m \in Messages, NEW p \in Landed, ReplyUnder(m, p),
             UNCHANGED <<queued, store, posts, inflight, actions, rejected>>
      PROVE  Types'
  BY <1>a, <1>u, MirrorTypes, ReplyInUpdates DEF Types, ReplyUnder
<1>t. queued \subseteq Messages /\ actions \subseteq Messages /\ rejected \subseteq Messages
      /\ store \in [Messages -> {"free", "leased", "processed"}]
  BY DEF Types
<1>1. ASSUME NEW m \in Messages, Deliver(m) \/ Expire(m) PROVE Types'
  BY <1>1, <1>a, <1>t DEF Deliver, Expire, world, Types
<1>2. ASSUME NEW m \in Messages, BeginAttempt(m) PROVE Types'
  BY <1>2, <1>g, <1>s, <1>t DEF BeginAttempt, world
<1>3. ASSUME NEW m \in Messages, BeginProcessed(m) \/ Mark(m) PROVE Types'
  BY <1>3, <1>g, <1>s, <1>t DEF BeginProcessed, Mark, world
<1>4. ASSUME NEW m \in Messages, RemoveJob(m) PROVE Types'
  BY <1>4, <1>p, <1>t DEF RemoveJob, world
<1>5. ASSUME NEW m \in Messages, Hydrate(m) PROVE Types'
  <2> DEFINE r == IF IgnoredRoom(m) THEN [att[m] EXCEPT !.pc = "mark"]
                  ELSE IF About[m].room = AdminRoom
                  THEN [att[m] EXCEPT !.pc = CommandStep(m), !.room = About[m].room, !.parent = m,
                                      !.policy = AdminRoom]
                  ELSE [att[m] EXCEPT !.pc = "followup", !.todo = FollowupPolicies(About[m].room)]
  <2>1. CommandStep(m) \in Steps
    BY <1>s DEF CommandStep
  <2>2. /\ About[m].room \in Rooms /\ m \in Threads /\ AdminRoom \in Rooms
        /\ FollowupPolicies(About[m].room) \in SUBSET DOMAIN Policies
    BY DEF Rooms, Threads, FollowupPolicies
  <2>3. r \in Attempts
    BY <1>s, <2>1, <2>2 DEF Attempts
  <2>4. att' = [att EXCEPT ![m] = r]
    BY <1>5 DEF Hydrate, Types
  <2> HIDE DEF r
  <2>5. att' \in [Messages -> Attempts]
    BY <2>3, <2>4, AttemptUpdates
  <2> QED
    BY <1>5, <1>a, <1>t, <2>5 DEF Hydrate, world
<1>d. ASSUME NEW m \in Messages, NEW i, att' = [att EXCEPT ![m].todo = @ \ {i}] PROVE att' \in [Messages -> Attempts]
  <2>1. [att[m] EXCEPT !.todo = @ \ {i}] \in Attempts
    BY <1>s DEF Attempts
  <2>2. att' = [att EXCEPT ![m] = [att[m] EXCEPT !.todo = @ \ {i}]]
    BY <1>d DEF Types
  <2> QED
    BY <2>1, <2>2, AttemptUpdates
<1>6. ASSUME NEW m \in Messages, TryFollowup(m) PROVE Types'
  <2>1. PICK i \in att[m].todo :
          \/ att' = [att EXCEPT ![m].todo = @ \ {i}]
          \/ \E t \in FollowupThreads(m, Policies[i]) : ReplyIn(m, t.room, t.parent, Policies[i].room)
    BY <1>6 DEF TryFollowup, NextPolicies
  <2>2. i \in DOMAIN Policies
    BY <1>s, <2>1 DEF Attempts
  <2>3. att' \in [Messages -> Attempts]
    BY <1>d, <2>1, <2>2, FollowupPlaces, ReplyInUpdates
  <2> QED
    BY <1>6, <1>a, <1>t, <2>3 DEF TryFollowup, world
<1>7. ASSUME NEW m \in Messages, FollowupGone(m) PROVE Types'
  <2>1. att' \in [Messages -> Attempts]
    BY <1>7, <1>d DEF FollowupGone
  <2> QED
    BY <1>7, <1>a, <1>t, <2>1 DEF FollowupGone, world
<1>8. ASSUME NEW m \in Messages, RouteDirect(m) PROVE Types'
  <2>0. UNCHANGED <<queued, store, posts, inflight, actions, rejected>>
    BY <1>8 DEF RouteDirect, world
  <2>1. CASE Go(m, "mark")
    BY <1>g, <1>s, <1>t, <2>0, <2>1
  <2>2. CASE ReplyIn(m, About[m].room, IF About[m].parent = NoMessage THEN m ELSE About[m].parent,
                     About[m].room)
    <3>1. /\ About[m].room \in Rooms
          /\ (IF About[m].parent = NoMessage THEN m ELSE About[m].parent) \in Threads
      BY DEF Rooms, Threads
    <3>2. att' \in [Messages -> Attempts]
      BY <2>2, <3>1, ReplyInUpdates
    <3> QED
      BY <1>a, <1>t, <2>0, <3>2
  <2>3. ASSUME NEW i \in DOMAIN Policies,
               att' = [att EXCEPT ![m] = [NoAttempt EXCEPT !.pc = "searchForward", !.room = Policies[i].out]]
        PROVE  Types'
    <3>1. [NoAttempt EXCEPT !.pc = "searchForward", !.room = Policies[i].out] \in Attempts
      BY <1>s, NoAttemptType DEF Attempts, Rooms
    <3>2. att' \in [Messages -> Attempts]
      BY <2>3, <3>1, AttemptUpdates
    <3> QED
      BY <1>a, <1>t, <2>0, <3>2
  <2> QED
    BY <1>8, <2>1, <2>2, <2>3 DEF RouteDirect, PolicyOf
<1>9. ASSUME NEW m \in Messages, EnqueuePull(m) \/ SearchReply(m) \/ RunCodex(m) \/ ReplyCreated(m)
      PROVE  Types'
  BY <1>9, <1>g, <1>s, <1>t DEF EnqueuePull, SearchReply, RunCodex, ReplyCreated, world
<1>10. ASSUME NEW m \in Messages, EnqueuePullFails(m) PROVE Types'
  BY <1>10, <1>p, <1>t DEF EnqueuePullFails
<1>11. ASSUME NEW m \in Messages, SearchForward(m) PROVE Types'
  <2>1. FindForward(m, att[m].room) \subseteq Landed
    BY DEF FindForward, PostsOf
  <2>2. /\ UNCHANGED <<queued, store, posts, inflight, actions, rejected>>
        /\ \/ Go(m, "createForward") \/ \E p \in FindForward(m, att[m].room) : ReplyUnder(m, p)
    BY <1>11 DEF SearchForward, world
  <2> QED
    BY <1>g, <1>u, <1>s, <1>t, <2>1, <2>2
<1>12. ASSUME NEW m \in Messages, CreateForward(m) \/ CreateReply(m) PROVE Types'
  <2>1. PICK kind \in Kinds, parent \in Threads : Send(m, kind, parent)
    <3>1. NoMessage \in Threads
      BY DEF Threads
    <3> QED
      BY <1>12, <1>s, <3>1 DEF CreateForward, CreateReply
  <2>2. UNCHANGED <<queued, store, posts, actions, rejected>>
    BY <1>12 DEF CreateForward, CreateReply
  <2>3. PICK p \in Posts : /\ inflight' = inflight \cup {p} /\ IsFiniteSet(Sent')
                           /\ att' \in [Messages -> Attempts]
    BY <2>1, <2>2, Sending
  <2> QED
    BY <2>2, <2>3 DEF Types
<1>13. ASSUME NEW m \in Messages, CreateBlocked(m) \/ CallRefused(m) PROVE Types'
  BY <1>13, <1>g, <1>s, <1>t DEF CreateBlocked, CallRefused, world
<1>14. ASSUME NEW m \in Messages, ForwardCreated(m) PROVE Types'
  BY <1>14, <1>u DEF ForwardCreated, world
<1>15. ASSUME NEW m \in Messages, ForwardWithoutId(m) \/ CallRetried(m) \/ RecheckFails(m) PROVE Types'
  BY <1>15, <1>p, <1>t DEF ForwardWithoutId, CallRetried, RecheckFails, world
<1>16. ASSUME NEW m \in Messages, Recheck(m) PROVE Types'
  <2>1. FindForward(m, att[m].room) \subseteq Landed
    BY DEF FindForward, PostsOf
  <2>2. /\ UNCHANGED <<queued, store, posts, inflight, actions, rejected>>
        /\ \/ Go(m, "mark") \/ Stop(m) \/ \E p \in FindForward(m, att[m].room) : ReplyUnder(m, p)
    BY <1>16 DEF Recheck, world
  <2> QED
    BY <1>g, <1>u, <1>p, <1>s, <1>t, <2>1, <2>2
<1>17. ASSUME NEW m \in Messages, MarkFails(m) \/ CreateTimedOut(m) PROVE Types'
  BY <1>17, <1>g, <1>p, <1>s, <1>t DEF MarkFails, CreateTimedOut, world
<1>18. ASSUME NEW m \in Messages, CreateRefused(m) PROVE Types'
  <2>1. /\ UNCHANGED <<queued, store, posts, actions>> /\ inflight' \subseteq inflight
        /\ rejected' \subseteq rejected \cup {m} /\ (Go(m, "mark") \/ Go(m, "recheck"))
    BY <1>18 DEF CreateRefused
  <2>2. att' \in [Messages -> Attempts]
    BY <1>s, <2>1, GoUpdates
  <2>3. Sent' \subseteq Sent
    BY <2>1 DEF Sent, Landed
  <2>4. IsFiniteSet(Sent')
    BY <2>3, FS_Subset DEF Types
  <2> QED
    BY <1>t, <2>1, <2>2, <2>4 DEF Types
<1>19. ASSUME NEW p \in inflight, Land(p) PROVE Types'
  BY <1>19, Landing DEF Land, Types
<1>20. ASSUME NEW p \in inflight, Lose(p) PROVE Types'
  <2>1. UNCHANGED <<queued, store, att, posts, actions, rejected>> /\ inflight' \subseteq inflight
    BY <1>20 DEF Lose
  <2>2. Sent' \subseteq Sent
    BY <2>1 DEF Sent, Landed
  <2>3. IsFiniteSet(Sent')
    BY <2>2, FS_Subset DEF Types
  <2> QED
    BY <2>1, <2>3 DEF Types
<1>21. CASE Crash
  BY <1>21, <1>a, <1>t, NoAttemptType DEF Crash, world
<1>22. CASE UNCHANGED vars
  BY <1>22, <1>a, <1>t DEF vars, world, Types
<1> QED
  BY <1>1, <1>2, <1>3, <1>4, <1>5, <1>6, <1>7, <1>8, <1>9, <1>10, <1>11, <1>12, <1>13, <1>14, <1>15,
     <1>16, <1>17, <1>18, <1>19, <1>20, <1>21, <1>22 DEF Next, AttemptStep, FaultStep, Settle


-----------------------------------------------------------------------------
(***************************************************************************)
(* What holds for every configuration.                                      *)
(***************************************************************************)

\* A settled message stays settled: replies and refusals are never undone.
LEMMA SettlesGrows ==
  ASSUME NEW m \in Messages, Settles(m), Landed \subseteq Landed', rejected \subseteq rejected'
  PROVE  Settles(m)'
  BY DEF Settles, PostsOf, TriggersDirectly, IgnoredRoom, PolicyOf, ReadOnlySource, FollowupPolicies

\* What the other attempts, Webex and the worker do leaves an attempt sound.
LEMMA SoundGrows ==
  ASSUME NEW m \in Messages, AttemptSound(m), att'[m] = att[m], store'[m] = store[m],
         m \in queued => m \in queued',
         Landed \subseteq Landed', rejected \subseteq rejected', actions \subseteq actions'
  PROVE  AttemptSound(m)'
<1>1. Settles(m) => Settles(m)'
  BY SettlesGrows
<1>2. PostsOf("reply", m) # {} => PostsOf("reply", m)' # {}
  BY DEF PostsOf
<1>3. Submitted(m) => Submitted(m)'
  BY DEF Submitted
<1> QED
  BY <1>1, <1>2, <1>3 DEF AttemptSound

\* The empty store satisfies the invariant.
LEMMA InitBase == Init => BaseIInv
<1> SUFFICES ASSUME Init PROVE BaseIInv
  OBVIOUS
<1>1. Landed = {} /\ Sent = {} /\ posts \in Seq(Posts)
  BY DEF Init, Landed, Sent
<1>2. Types
  BY <1>1, NoAttemptType, FS_EmptySet DEF Init, Types
<1>3. \A m \in Messages : att[m].pc = "idle" /\ store[m] = "free"
  BY NoAttemptType DEF Init
<1>4. \A m \in Messages : AttemptSound(m)
  BY <1>3 DEF AttemptSound, Answering
<1> QED
  BY <1>1, <1>2, <1>4 DEF BaseIInv, PostsNamed, ReadOnlyNeverWritten, Sent

\* Every step keeps the invariant.
LEMMA NextBase == BaseIInv /\ [Next]_vars => BaseIInv'
<1> SUFFICES ASSUME BaseIInv, [Next]_vars PROVE BaseIInv'
  OBVIOUS
<1>0. Types /\ Types' /\ \A m \in Messages : AttemptSound(m) /\ att[m] \in Attempts
  BY TypesStep DEF BaseIInv, Types
<1>s. /\ "hydrate" \in Steps /\ "done" \in Steps /\ "mark" \in Steps /\ "searchReply" \in Steps
      /\ "createForward" \in Steps /\ "createReply" \in Steps /\ "run" \in Steps
      /\ "sent" \in Steps /\ "recheck" \in Steps /\ "enqueue" \in Steps /\ "followup" \in Steps
      /\ "searchForward" \in Steps /\ "forward" \in Kinds /\ "reply" \in Kinds
  BY DEF Steps, Kinds
\* Nothing is sent: only the attempt of m has to be looked at.
<1>m. ASSUME NEW m \in Messages, UNCHANGED posts, inflight' \subseteq inflight,
             actions \subseteq actions', rejected \subseteq rejected',
             \A n \in Messages \ {m} : /\ att'[n] = att[n] /\ store'[n] = store[n]
                                       /\ n \in queued => n \in queued',
             AttemptSound(m)'
      PROVE  BaseIInv'
  <2>1. Landed' = Landed /\ Sent' \subseteq Sent
    BY <1>m DEF Landed, Sent
  <2>2. \A n \in Messages : AttemptSound(n)'
    BY <1>0, <1>m, <2>1, SoundGrows
  <2>3. PostsNamed' /\ ReadOnlyNeverWritten'
    BY <2>1 DEF BaseIInv, PostsNamed, ReadOnlyNeverWritten, ReadOnlySource, PolicyOf, Sent
  <2>4. \A p \in Sent' : p.kind = "reply" => Submitted(p.of)'
    BY <1>m, <2>1 DEF BaseIInv, Submitted
  <2> QED
    BY <1>0, <2>2, <2>3, <2>4 DEF BaseIInv
\* The attempt of m goes on to a step that promises nothing new.
<1>g. ASSUME NEW m \in Messages, att[m].pc # "idle", UNCHANGED <<queued, store, posts>>,
             rejected \subseteq rejected', actions \subseteq actions',
             att'[m].pc \notin {"forward", "reply", "mark", "sent", "done"},
             att'[m].pc \in Answering => Submitted(m)'
      PROVE  AttemptSound(m)'
  <2>1. Settles(m) => Settles(m)'
    BY <1>g, SettlesGrows DEF Landed
  <2> QED
    BY <1>0, <1>g, <2>1 DEF AttemptSound
\* The attempt of m ends without having settled it.
<1>p. ASSUME NEW m \in Messages, Stop(m), UNCHANGED <<store, posts>>,
             inflight' \subseteq inflight, queued \ {m} \subseteq queued',
             rejected' = rejected, actions \subseteq actions'
      PROVE  BaseIInv'
  <2>1. att'[m].pc = "idle" /\ \A n \in Messages \ {m} : att'[n] = att[n]
    BY <1>0, <1>p, StopUpdates
  <2>2. Settles(m) => Settles(m)'
    BY <1>p, SettlesGrows DEF Landed
  <2>3. AttemptSound(m)'
    BY <1>0, <1>p, <2>1, <2>2 DEF AttemptSound, Answering
  <2> QED
    BY <1>m, <1>p, <2>1, <2>3
\* The attempt of m goes on to mark it processed.
<1>k. ASSUME NEW m \in Messages, Go(m, "mark"), att[m].pc # "idle", UNCHANGED <<queued, store, posts>>,
             inflight' \subseteq inflight, rejected \subseteq rejected', actions' = actions, Settles(m)'
      PROVE  BaseIInv'
  <2>1. att'[m].pc = "mark" /\ \A n \in Messages \ {m} : att'[n] = att[n]
    BY <1>0, <1>k, <1>s, GoUpdates
  <2>2. AttemptSound(m)'
    BY <1>0, <1>k, <2>1 DEF AttemptSound, Answering
  <2> QED
    BY <1>k, <1>m, <2>1, <2>2
\* The attempt of m goes on under a mirror.
<1>u. ASSUME NEW m \in Messages, NEW p \in Landed, ReplyUnder(m, p), att[m].pc \in Answering,
             UNCHANGED <<queued, store, posts, inflight, actions, rejected>>
      PROVE  BaseIInv'
  <2>1. att'[m].pc = "searchReply" /\ \A n \in Messages \ {m} : att'[n] = att[n]
    BY <1>0, <1>u, MirrorTypes, ReplyInUpdates DEF ReplyUnder
  <2>2. Submitted(m)'
    BY <1>0, <1>u DEF AttemptSound, Submitted
  <2>3. AttemptSound(m)'
    BY <1>g, <1>u, <2>1, <2>2 DEF Answering
  <2> QED
    BY <1>m, <1>u, <2>1, <2>3
\* The attempt of m goes on to another step on its way to the answer.
<1>w. ASSUME NEW m \in Messages, NEW pc \in Steps \ {"forward", "reply", "mark", "sent", "done"},
             Go(m, pc), att[m].pc \in Answering, UNCHANGED <<queued, store, posts, actions, rejected>>,
             inflight' \subseteq inflight
      PROVE  BaseIInv'
  <2>1. att'[m].pc = pc /\ \A n \in Messages \ {m} : att'[n] = att[n]
    BY <1>0, <1>w, GoUpdates
  <2>2. Submitted(m)'
    BY <1>0, <1>w DEF AttemptSound, Submitted
  <2>3. AttemptSound(m)'
    BY <1>g, <1>w, <2>1, <2>2 DEF Answering
  <2> QED
    BY <1>m, <1>w, <2>1, <2>3
<1>1. ASSUME NEW m \in Messages, Deliver(m) PROVE BaseIInv'
  <2>1. /\ UNCHANGED <<store, att, posts, inflight, actions, rejected>> /\ queued \subseteq queued'
    BY <1>1 DEF Deliver, world
  <2>2. AttemptSound(m)'
    BY <1>0, <2>1, SoundGrows DEF Landed
  <2> QED
    BY <1>m, <2>1, <2>2
<1>2. ASSUME NEW m \in Messages, BeginAttempt(m) PROVE BaseIInv'
  <2>1. /\ UNCHANGED <<queued, posts, inflight, actions, rejected>> /\ m \in queued
        /\ Go(m, "hydrate") /\ store' = [store EXCEPT ![m] = "leased"]
    BY <1>2 DEF BeginAttempt, world
  <2>2. att'[m].pc = "hydrate" /\ \A n \in Messages \ {m} : att'[n] = att[n]
    BY <1>0, <1>s, <2>1, GoUpdates
  <2>3. store'[m] = "leased" /\ \A n \in Messages \ {m} : store'[n] = store[n]
    BY <1>0, <2>1 DEF Types
  <2>4. AttemptSound(m)'
    BY <2>1, <2>2, <2>3 DEF AttemptSound, Answering
  <2> QED
    BY <1>m, <2>1, <2>2, <2>3, <2>4
<1>3. ASSUME NEW m \in Messages, BeginProcessed(m) PROVE BaseIInv'
  <2>1. /\ UNCHANGED <<queued, store, posts, inflight, actions, rejected>> /\ m \in queued
        /\ Go(m, "done") /\ store[m] = "processed"
    BY <1>3 DEF BeginProcessed, world
  <2>2. att'[m].pc = "done" /\ \A n \in Messages \ {m} : att'[n] = att[n]
    BY <1>0, <1>s, <2>1, GoUpdates
  <2>3. Settles(m)'
    BY <1>0, <2>1, SettlesGrows DEF Landed, AttemptSound
  <2>4. AttemptSound(m)'
    BY <2>1, <2>2, <2>3 DEF AttemptSound, Answering
  <2> QED
    BY <1>m, <2>1, <2>2, <2>4
<1>4. ASSUME NEW m \in Messages, Mark(m) PROVE BaseIInv'
  <2>1. /\ UNCHANGED <<queued, posts, inflight, actions, rejected>> /\ att[m].pc \in {"mark", "sent"}
        /\ Go(m, "done") /\ store' = [store EXCEPT ![m] = "processed"]
    BY <1>4 DEF Mark, At, world
  <2>2. att'[m].pc = "done" /\ \A n \in Messages \ {m} : att'[n] = att[n]
    BY <1>0, <1>s, <2>1, GoUpdates
  <2>3. store'[m] = "processed" /\ \A n \in Messages \ {m} : store'[n] = store[n]
    BY <1>0, <2>1 DEF Types
  <2>4. Settles(m)
    BY <1>0, <2>1 DEF AttemptSound, Settles
  <2>5. Settles(m)' /\ m \in queued
    BY <1>0, <2>1, <2>4, SettlesGrows DEF Landed, AttemptSound
  <2>6. AttemptSound(m)'
    BY <2>1, <2>2, <2>3, <2>5 DEF AttemptSound, Answering
  <2> QED
    BY <1>m, <2>1, <2>2, <2>3, <2>6
<1>5. ASSUME NEW m \in Messages, MarkFails(m) PROVE BaseIInv'
  <2>1. /\ UNCHANGED <<queued, store, posts, inflight, actions, rejected>>
        /\ att[m].pc \in {"mark", "sent"}
        /\ IF att[m].pc = "sent" THEN Go(m, "done") ELSE Stop(m)
    BY <1>5 DEF MarkFails, At, world
  <2>2. CASE att[m].pc # "sent"
    BY <1>p, <2>1, <2>2
  <2>3. CASE att[m].pc = "sent"
    <3>1. att'[m].pc = "done" /\ \A n \in Messages \ {m} : att'[n] = att[n]
      BY <1>0, <1>s, <2>1, <2>3, GoUpdates
    <3>2. PostsOf("reply", m)' # {} /\ m \in queued /\ store[m] # "free"
      BY <1>0, <2>1, <2>3 DEF AttemptSound, PostsOf, Landed
    <3>3. Settles(m) => Settles(m)'
      BY <2>1, SettlesGrows DEF Landed
    <3>4. AttemptSound(m)'
      BY <1>0, <2>1, <3>1, <3>2, <3>3 DEF AttemptSound, Answering
    <3> QED
      BY <1>m, <2>1, <3>1, <3>4
  <2> QED
    BY <2>2, <2>3
<1>6. ASSUME NEW m \in Messages, RemoveJob(m) PROVE BaseIInv'
  BY <1>6, <1>p DEF RemoveJob, world
<1>7. ASSUME NEW m \in Messages, Hydrate(m) PROVE BaseIInv'
  <2>1. /\ UNCHANGED <<queued, store, posts, inflight, actions, rejected>> /\ att[m].pc = "hydrate"
    BY <1>7 DEF Hydrate, At, world
  <2>2. CASE IgnoredRoom(m)
    <3>1. Go(m, "mark")
      BY <1>0, <1>7, <2>2 DEF Hydrate, Go, Types
    <3>2. Settles(m)
      BY <2>2 DEF Settles
    <3>3. Settles(m)'
      BY <2>1, <3>2, SettlesGrows DEF Landed
    <3> QED
      BY <1>k, <2>1, <3>1, <3>3
  <2>3. CASE ~IgnoredRoom(m) /\ About[m].room = AdminRoom
    <3> DEFINE r == [att[m] EXCEPT !.pc = CommandStep(m), !.room = About[m].room, !.parent = m,
                                   !.policy = AdminRoom]
    <3>1. att' = [att EXCEPT ![m] = r]
      BY <1>0, <1>7, <2>3 DEF Hydrate, Types
    <3>2. /\ CommandStep(m) \in {"mark", "enqueue", "searchReply"}
          /\ CommandStep(m) = "searchReply" => About[m].command # "pull"
      BY DEF CommandStep
    <3>3. About[m].room \in Rooms /\ m \in Threads /\ AdminRoom \in Rooms /\ CommandStep(m) \in Steps
      BY <3>2 DEF Rooms, Threads, Steps
    <3>4. r \in Attempts /\ r.pc = CommandStep(m)
      BY <1>0, <3>3 DEF Attempts
    <3> HIDE DEF r
    <3>5. att'[m].pc = CommandStep(m) /\ \A n \in Messages \ {m} : att'[n] = att[n]
      BY <1>0, <3>1, <3>4, AttemptUpdates
    <3>6. Settles(m)
      BY <2>3 DEF Settles
    <3>7. Settles(m)'
      BY <2>1, <3>6, SettlesGrows DEF Landed
    <3>8. Submitted(m)' \/ CommandStep(m) # "searchReply"
      BY <3>2 DEF Submitted
    <3>9. AttemptSound(m)'
      BY <1>0, <2>1, <3>2, <3>5, <3>7, <3>8 DEF AttemptSound, Answering
    <3> QED
      BY <1>m, <2>1, <3>5, <3>9
  <2>4. CASE ~IgnoredRoom(m) /\ About[m].room # AdminRoom
    <3> DEFINE r == [att[m] EXCEPT !.pc = "followup", !.todo = FollowupPolicies(About[m].room)]
    <3>1. att' = [att EXCEPT ![m] = r]
      BY <1>0, <1>7, <2>4 DEF Hydrate, Types
    <3>2. r \in Attempts /\ r.pc = "followup"
      BY <1>0, <1>s DEF Attempts, FollowupPolicies
    <3> HIDE DEF r
    <3>3. att'[m].pc = "followup" /\ \A n \in Messages \ {m} : att'[n] = att[n]
      BY <1>0, <3>1, <3>2, AttemptUpdates
    <3>4. Submitted(m)'
      BY <2>4 DEF Submitted, IgnoredRoom
    <3>5. AttemptSound(m)'
      BY <1>g, <2>1, <3>3, <3>4 DEF Answering
    <3> QED
      BY <1>m, <2>1, <3>3, <3>5
  <2> QED
    BY <2>2, <2>3, <2>4
<1>d. ASSUME NEW m \in Messages, NEW i, att[m].pc = "followup", att' = [att EXCEPT ![m].todo = @ \ {i}],
             UNCHANGED <<queued, store, posts, inflight, actions>>, rejected \subseteq rejected'
      PROVE  BaseIInv'
  <2> DEFINE r == [att[m] EXCEPT !.todo = @ \ {i}]
  <2>1. r \in Attempts /\ r.pc = "followup"
    BY <1>0, <1>d DEF Attempts
  <2>2. att' = [att EXCEPT ![m] = r]
    BY <1>0, <1>d DEF Types
  <2> HIDE DEF r
  <2>3. att'[m].pc = "followup" /\ \A n \in Messages \ {m} : att'[n] = att[n]
    BY <1>0, <2>1, <2>2, AttemptUpdates
  <2>4. Submitted(m)'
    BY <1>0, <1>d DEF AttemptSound, Answering, Submitted
  <2>5. AttemptSound(m)'
    BY <1>d, <1>g, <2>3, <2>4 DEF Answering
  <2> QED
    BY <1>d, <1>m, <2>3, <2>5
<1>8. ASSUME NEW m \in Messages, TryFollowup(m) PROVE BaseIInv'
  <2>1. /\ UNCHANGED <<queued, store, posts, inflight, actions, rejected>> /\ att[m].pc = "followup"
    BY <1>8 DEF TryFollowup, At, world
  <2>2. PICK i \in att[m].todo :
          \/ att' = [att EXCEPT ![m].todo = @ \ {i}]
          \/ \E t \in FollowupThreads(m, Policies[i]) : ReplyIn(m, t.room, t.parent, Policies[i].room)
    BY <1>8 DEF TryFollowup, NextPolicies
  <2>3. i \in DOMAIN Policies
    BY <1>0, <2>2 DEF Attempts
  <2>4. ASSUME NEW t \in FollowupThreads(m, Policies[i]), ReplyIn(m, t.room, t.parent, Policies[i].room)
        PROVE  BaseIInv'
    <3>1. att'[m].pc = "searchReply" /\ \A n \in Messages \ {m} : att'[n] = att[n]
      BY <1>0, <2>3, <2>4, FollowupPlaces, ReplyInUpdates
    <3>2. Submitted(m)'
      BY <1>0, <2>1 DEF AttemptSound, Answering, Submitted
    <3>3. AttemptSound(m)'
      BY <1>g, <2>1, <3>1, <3>2 DEF Answering
    <3> QED
      BY <1>m, <2>1, <3>1, <3>3
  <2> QED
    BY <1>d, <2>1, <2>2, <2>4
<1>9. ASSUME NEW m \in Messages, FollowupGone(m) PROVE BaseIInv'
  BY <1>9, <1>d DEF FollowupGone, At, world
<1>10. ASSUME NEW m \in Messages, RouteDirect(m) PROVE BaseIInv'
  <2>1. /\ UNCHANGED <<queued, store, posts, inflight, actions, rejected>> /\ att[m].pc = "followup"
    BY <1>10 DEF RouteDirect, At, world
  <2>2. Submitted(m)'
    BY <1>0, <2>1 DEF AttemptSound, Answering, Submitted
  <2>3. CASE ~TriggersDirectly(m)
    <3>1. Settles(m)
      BY <2>3 DEF Settles
    <3>2. Settles(m)' /\ Go(m, "mark")
      BY <1>10, <2>1, <2>3, <3>1, SettlesGrows DEF Landed, RouteDirect
    <3> QED
      BY <1>k, <2>1, <3>2
  <2>4. CASE ReplyIn(m, About[m].room, IF About[m].parent = NoMessage THEN m ELSE About[m].parent,
                     About[m].room)
    <3>1. /\ About[m].room \in Rooms
          /\ (IF About[m].parent = NoMessage THEN m ELSE About[m].parent) \in Threads
      BY DEF Rooms, Threads
    <3>2. att'[m].pc = "searchReply" /\ \A n \in Messages \ {m} : att'[n] = att[n]
      BY <1>0, <2>4, <3>1, ReplyInUpdates
    <3>3. AttemptSound(m)'
      BY <1>g, <2>1, <2>2, <3>2 DEF Answering
    <3> QED
      BY <1>m, <2>1, <3>2, <3>3
  <2>5. ASSUME NEW i \in DOMAIN Policies,
               att' = [att EXCEPT ![m] = [NoAttempt EXCEPT !.pc = "searchForward", !.room = Policies[i].out]]
        PROVE  BaseIInv'
    <3> DEFINE r == [NoAttempt EXCEPT !.pc = "searchForward", !.room = Policies[i].out]
    <3>1. r \in Attempts /\ r.pc = "searchForward"
      BY <1>s, NoAttemptType DEF Attempts, Rooms
    <3> HIDE DEF r
    <3>2. att'[m].pc = "searchForward" /\ \A n \in Messages \ {m} : att'[n] = att[n]
      BY <1>0, <2>5, <3>1, AttemptUpdates DEF r
    <3>3. AttemptSound(m)'
      BY <1>g, <2>1, <2>2, <3>2 DEF Answering
    <3> QED
      BY <1>m, <2>1, <3>2, <3>3
  <2> QED
    BY <1>10, <2>3, <2>4, <2>5 DEF RouteDirect, PolicyOf
<1>11. ASSUME NEW m \in Messages, EnqueuePull(m) PROVE BaseIInv'
  <2>1. /\ UNCHANGED <<queued, store, posts, inflight, rejected>> /\ att[m].pc = "enqueue"
        /\ actions' = actions \cup {m} /\ Go(m, "searchReply")
    BY <1>11 DEF EnqueuePull, At
  <2>2. att'[m].pc = "searchReply" /\ \A n \in Messages \ {m} : att'[n] = att[n]
    BY <1>0, <1>s, <2>1, GoUpdates
  <2>3. Submitted(m)'
    BY <2>1 DEF Submitted
  <2>4. AttemptSound(m)'
    BY <1>g, <2>1, <2>2, <2>3 DEF Answering
  <2> QED
    BY <1>m, <2>1, <2>2, <2>4
<1>12. ASSUME NEW m \in Messages, EnqueuePullFails(m) PROVE BaseIInv'
  BY <1>12, <1>p DEF EnqueuePullFails
<1>13. ASSUME NEW m \in Messages, SearchForward(m) PROVE BaseIInv'
  <2>1. FindForward(m, att[m].room) \subseteq Landed
    BY DEF FindForward, PostsOf
  <2>2. /\ UNCHANGED <<queued, store, posts, inflight, actions, rejected>> /\ att[m].pc \in Answering
        /\ \/ Go(m, "createForward") \/ \E p \in FindForward(m, att[m].room) : ReplyUnder(m, p)
    BY <1>13 DEF SearchForward, At, Answering, world
  <2> QED
    BY <1>s, <1>u, <1>w, <2>1, <2>2
<1>14. ASSUME NEW m \in Messages, CreateForward(m) \/ CreateReply(m) PROVE BaseIInv'
  <2>1. PICK kind \in Kinds, parent \in Threads : Send(m, kind, parent)
    <3>1. NoMessage \in Threads /\ att[m].parent \in Threads
      BY <1>0 DEF Threads, Attempts
    <3> QED
      BY <1>14, <1>s, <3>1 DEF CreateForward, CreateReply
  <2>2. /\ UNCHANGED <<queued, store, posts, actions, rejected>> /\ ~WriteBlocked(m)
        /\ att[m].pc \in Answering
    BY <1>14 DEF CreateForward, CreateReply, At, Answering
  <2>3. PICK p \in Posts :
          /\ p.kind = kind /\ p.of = m /\ p.room = att[m].room /\ p.id[1] = kind /\ p.id[2] = m
          /\ Landed' = Landed /\ Sent' = Sent \cup {p}
          /\ att'[m].pc = kind /\ att'[m].request = p.id
          /\ \A n \in Messages \ {m} : att'[n] = att[n]
    BY <1>0, <2>1, <2>2, Sending
  <2>4. Submitted(m) /\ m \in queued /\ store[m] # "free"
    BY <1>0, <2>2 DEF AttemptSound, Answering
  <2>5. PostsNamed'
    BY <2>3 DEF BaseIInv, PostsNamed
  <2>6. ReadOnlyNeverWritten'
    BY <2>2, <2>3 DEF BaseIInv, ReadOnlyNeverWritten, WriteBlocked, ReadOnlySource, PolicyOf, Sent
  <2>7. \A q \in Sent' : q.kind = "reply" => Submitted(q.of)'
    BY <2>2, <2>3, <2>4 DEF BaseIInv, Submitted
  <2>8. AttemptSound(m)'
    <3>1. Settles(m) => Settles(m)'
      BY <2>2, <2>3, SettlesGrows
    <3>2. kind \notin {"idle", "mark", "sent", "done"}
      BY DEF Kinds
    <3>3. Submitted(m)'
      BY <2>2, <2>4 DEF Submitted
    <3> QED
      BY <1>0, <2>2, <2>3, <2>4, <3>1, <3>2, <3>3 DEF AttemptSound
  <2>9. \A n \in Messages : AttemptSound(n)'
    BY <1>0, <2>2, <2>3, <2>8, SoundGrows
  <2> QED
    BY <1>0, <2>5, <2>6, <2>7, <2>9 DEF BaseIInv
<1>r. ASSUME NEW m \in Messages, m \in rejected' PROVE Settles(m)'
  BY <1>r DEF Settles
<1>15. ASSUME NEW m \in Messages, CreateBlocked(m) \/ CallRefused(m) PROVE BaseIInv'
  <2>1. /\ UNCHANGED <<queued, store, posts, inflight, actions>> /\ rejected' = rejected \cup {m}
        /\ Go(m, "mark") /\ att[m].pc # "idle"
    BY <1>15 DEF CreateBlocked, CallRefused, MayFail, Calling, At, world
  <2> QED
    BY <1>k, <1>r, <2>1
<1>16. ASSUME NEW m \in Messages, ForwardCreated(m) PROVE BaseIInv'
  BY <1>16, <1>u DEF ForwardCreated, At, Answering, world
<1>17. ASSUME NEW m \in Messages, ForwardWithoutId(m) \/ CallRetried(m) \/ RecheckFails(m) PROVE BaseIInv'
  BY <1>17, <1>p DEF ForwardWithoutId, CallRetried, RecheckFails, world
<1>f. ASSUME NEW m \in Messages, NEW room, NEW parent, FindReply(m, room, parent) # {},
             UNCHANGED <<posts, rejected>>
      PROVE  Settles(m)'
  <2>1. Settles(m)
    BY <1>f DEF Settles, FindReply, FindReplies, PostsOf
  <2> QED
    BY <1>f, <2>1, SettlesGrows DEF Landed
<1>18. ASSUME NEW m \in Messages, SearchReply(m) PROVE BaseIInv'
  <2>1. /\ UNCHANGED <<queued, store, posts, inflight, actions, rejected>> /\ att[m].pc \in Answering
        /\ att[m].pc # "idle"
    BY <1>18 DEF SearchReply, At, Answering, world
  <2>2. CASE FindReply(m, att[m].room, att[m].parent) # {}
    <3>1. Go(m, "mark")
      BY <1>18, <2>2 DEF SearchReply
    <3> QED
      BY <1>f, <1>k, <2>1, <2>2, <3>1
  <2>3. CASE FindReply(m, att[m].room, att[m].parent) = {}
    <3>1. Go(m, "createReply") \/ Go(m, "run")
      BY <1>18, <2>3 DEF SearchReply
    <3> QED
      BY <1>s, <1>w, <2>1, <3>1
  <2> QED
    BY <2>2, <2>3
<1>19. ASSUME NEW m \in Messages, RunCodex(m) PROVE BaseIInv'
  BY <1>19, <1>s, <1>w DEF RunCodex, At, Answering, world
<1>20. ASSUME NEW m \in Messages, ReplyCreated(m) PROVE BaseIInv'
  <2>1. /\ UNCHANGED <<queued, store, posts, inflight, actions, rejected>> /\ att[m].pc = "reply"
        /\ Go(m, "sent")
    BY <1>20 DEF ReplyCreated, At, world
  <2>2. PICK p \in Landed : p.id = att[m].request
    BY <1>20 DEF ReplyCreated
  <2>3. att[m].request[1] = "reply" /\ att[m].request[2] = m
    BY <1>0, <2>1 DEF AttemptSound
  <2>4. p.kind = "reply" /\ p.of = m
    BY <2>2, <2>3 DEF BaseIInv, PostsNamed, Sent
  <2>5. PostsOf("reply", m)' # {}
    BY <2>1, <2>2, <2>4 DEF PostsOf, Landed
  <2>6. att'[m].pc = "sent" /\ \A n \in Messages \ {m} : att'[n] = att[n]
    BY <1>0, <1>s, <2>1, GoUpdates
  <2>7. Settles(m) => Settles(m)'
    BY <2>1, SettlesGrows DEF Landed
  <2>8. AttemptSound(m)'
    BY <1>0, <2>1, <2>5, <2>6, <2>7 DEF AttemptSound, Answering
  <2> QED
    BY <1>m, <2>1, <2>6, <2>8
<1>21. ASSUME NEW m \in Messages, Recheck(m) PROVE BaseIInv'
  <2>1. FindForward(m, att[m].room) \subseteq Landed
    BY DEF FindForward, PostsOf
  <2>2. /\ UNCHANGED <<queued, store, posts, inflight, actions, rejected>> /\ att[m].pc \in Answering
        /\ att[m].pc # "idle"
        /\ \/ Go(m, "mark") /\ FindReply(m, att[m].room, att[m].parent) # {}
           \/ Stop(m)
           \/ \E p \in FindForward(m, att[m].room) : ReplyUnder(m, p)
    BY <1>21 DEF Recheck, At, Answering, world
  <2> QED
    BY <1>f, <1>k, <1>p, <1>u, <2>1, <2>2
<1>22. ASSUME NEW m \in Messages, CreateTimedOut(m) PROVE BaseIInv'
  BY <1>22, <1>s, <1>w DEF CreateTimedOut, At, Answering, world
<1>23. ASSUME NEW m \in Messages, CreateRefused(m) PROVE BaseIInv'
  <2>1. /\ UNCHANGED <<queued, store, posts, actions>> /\ inflight' \subseteq inflight
        /\ att[m].pc \in Answering /\ att[m].pc # "idle"
        /\ \/ Go(m, "mark") /\ rejected' = rejected \cup {m}
           \/ Go(m, "recheck") /\ rejected' = rejected
    BY <1>23 DEF CreateRefused, At, Answering
  <2> QED
    BY <1>k, <1>r, <1>s, <1>w, <2>1
<1>24. ASSUME NEW m \in Messages, Expire(m) PROVE BaseIInv'
  <2>1. /\ UNCHANGED <<queued, att, posts, inflight, actions, rejected>> /\ att[m].pc = "idle"
        /\ store' = [store EXCEPT ![m] = "free"]
    BY <1>24 DEF Expire, At, world
  <2>2. store'[m] = "free" /\ \A n \in Messages \ {m} : store'[n] = store[n]
    BY <1>0, <2>1 DEF Types
  <2>3. AttemptSound(m)'
    BY <2>1, <2>2 DEF AttemptSound, Answering
  <2> QED
    BY <1>m, <2>1, <2>2, <2>3
<1>25. ASSUME NEW p \in inflight, Land(p) PROVE BaseIInv'
  <2>1. /\ UNCHANGED <<queued, store, att, actions, rejected>> /\ Landed' = Landed \cup {p} /\ Sent' = Sent
    BY <1>0, <1>25, Landing DEF Land
  <2>2. \A n \in Messages : AttemptSound(n)'
    BY <1>0, <2>1, SoundGrows
  <2>3. PostsNamed' /\ \A q \in Sent' : q.kind = "reply" => Submitted(q.of)'
    BY <2>1 DEF BaseIInv, PostsNamed, Submitted
  <2>4. ReadOnlyNeverWritten'
    BY <2>1 DEF BaseIInv, ReadOnlyNeverWritten, ReadOnlySource, PolicyOf, Sent
  <2> QED
    BY <1>0, <2>2, <2>3, <2>4 DEF BaseIInv
<1>q. ASSUME UNCHANGED <<queued, store, posts, actions, rejected>>, inflight' \subseteq inflight,
             \A n \in Messages : AttemptSound(n)'
      PROVE  BaseIInv'
  <2>1. Landed' = Landed /\ Sent' \subseteq Sent
    BY <1>q DEF Landed, Sent
  <2>2. PostsNamed' /\ \A q \in Sent' : q.kind = "reply" => Submitted(q.of)'
    BY <1>q, <2>1 DEF BaseIInv, PostsNamed, Submitted
  <2>3. ReadOnlyNeverWritten'
    BY <2>1 DEF BaseIInv, ReadOnlyNeverWritten, ReadOnlySource, PolicyOf, Sent
  <2> QED
    BY <1>0, <1>q, <2>2, <2>3 DEF BaseIInv
<1>26. ASSUME NEW p \in inflight, Lose(p) PROVE BaseIInv'
  <2>1. /\ UNCHANGED <<queued, store, att, posts, actions, rejected>> /\ inflight' \subseteq inflight
    BY <1>26 DEF Lose
  <2>2. \A n \in Messages : AttemptSound(n)'
    BY <1>0, <2>1, SoundGrows DEF Landed
  <2> QED
    BY <1>q, <2>1, <2>2
<1>27. CASE Crash
  <2>1. /\ UNCHANGED <<queued, store, posts, inflight, actions, rejected>>
        /\ \A n \in Messages : att'[n].pc = "idle"
    BY <1>27, NoAttemptType DEF Crash, world
  <2>2. \A n \in Messages : Settles(n) => Settles(n)'
    BY <2>1, SettlesGrows DEF Landed
  <2>3. \A n \in Messages : AttemptSound(n)'
    BY <1>0, <2>1, <2>2 DEF AttemptSound, Answering
  <2> QED
    BY <1>q, <2>1, <2>3
<1>28. CASE UNCHANGED vars
  <2>1. UNCHANGED <<queued, store, att, posts, inflight, actions, rejected>>
    BY <1>28 DEF vars, world
  <2>2. \A n \in Messages : AttemptSound(n)'
    BY <1>0, <2>1, SoundGrows DEF Landed
  <2> QED
    BY <1>q, <2>1, <2>2
<1> QED
  BY <1>1, <1>2, <1>3, <1>4, <1>5, <1>6, <1>7, <1>8, <1>9, <1>10, <1>11, <1>12, <1>13, <1>14, <1>15,
     <1>16, <1>17, <1>18, <1>19, <1>20, <1>21, <1>22, <1>23, <1>24, <1>25, <1>26, <1>27, <1>28
  DEF Next, AttemptStep, FaultStep, Settle


\* The invariant of every configuration holds in every reachable state.
THEOREM BaseInvariant == Spec => []BaseIInv
  BY InitBase, NextBase, PTL DEF Spec

(***************************************************************************)
(* create_message's guard holds for every configuration: nothing the bot    *)
(* sends, a mirror included, ever lands in a read-only source room.         *)
(***************************************************************************)
THEOREM ReadOnlyRoomsStayClean == Spec => []ReadOnlyNeverWritten
<1>1. BaseIInv => ReadOnlyNeverWritten
  BY DEF BaseIInv
<1> QED
  BY <1>1, BaseInvariant, PTL

(***************************************************************************)
(* Where config commands are on, `/config pull` is acknowledged only after  *)
(* the worker took it, whatever is retried, redelivered or cut short.       *)
(***************************************************************************)
THEOREM PullsAreSubmittedFirst == AdminRoom # NoRoom /\ Spec => []PullAcknowledgedAfterSubmit
<1>1. AdminRoom # NoRoom /\ BaseIInv => PullAcknowledgedAfterSubmit
  BY DEF BaseIInv, Submitted, PullAcknowledgedAfterSubmit, Sent
<1>2. CASE AdminRoom # NoRoom
  <2>1. BaseIInv => PullAcknowledgedAfterSubmit
    BY <1>1, <1>2
  <2> QED
    BY <2>1, BaseInvariant, PTL
<1> QED
  BY <1>2

(***************************************************************************)
(* A message that triggers its room's policy is never marked processed      *)
(* without its reply, unless Webex refused a call of its for good.          *)
(***************************************************************************)
THEOREM ProcessedMessagesAreAnswered == Spec => []ProcessedIsAnswered
<1>1. BaseIInv => ProcessedIsAnswered
  BY DEF BaseIInv, AttemptSound, Settles, ProcessedIsAnswered
<1> QED
  BY <1>1, BaseInvariant, PTL

(***************************************************************************)
(* run_persisted_message_job removes a job only when its message is marked  *)
(* processed, or its reply landed and only the marking failed.              *)
(***************************************************************************)
THEOREM RemovedJobsAreSettled == Spec => RemovedIsSettled
<1>1. ASSUME BaseIInv, [Next]_vars, NEW m \in queued \ queued'
      PROVE  store[m] = "processed" \/ PostsOf("reply", m) # {}
  <2>0. m \in Messages
    BY <1>1 DEF BaseIInv, Types
  <2>1. CASE RemoveJob(m)
    BY <1>1, <2>0, <2>1 DEF BaseIInv, AttemptSound, RemoveJob, At
  <2>2. ASSUME NEW n \in Messages, n # m, RemoveJob(n) PROVE FALSE
    BY <1>1, <2>2 DEF RemoveJob
  <2>3. ASSUME NEW n \in Messages, Deliver(n) PROVE FALSE
    BY <1>1, <2>3 DEF Deliver
  <2>4. ASSUME queued' = queued PROVE FALSE
    BY <1>1, <2>4
  <2>5. ASSUME NEW n \in Messages, AttemptStep(n), ~RemoveJob(n) PROVE queued' = queued
    BY <2>5 DEF AttemptStep, BeginAttempt, BeginProcessed, Mark, Hydrate, TryFollowup, RouteDirect,
       EnqueuePull, SearchForward, CreateForward, CreateBlocked, ForwardCreated, SearchReply, RunCodex,
       CreateReply, ReplyCreated, Recheck
  <2>6. ASSUME NEW n \in Messages, FaultStep(n) \/ Expire(n) PROVE queued' = queued
    BY <2>6 DEF FaultStep, MarkFails, FollowupGone, EnqueuePullFails, ForwardWithoutId, CallRefused,
       CallRetried, CreateRefused, CreateTimedOut, RecheckFails, Expire
  <2>7. CASE Settle \/ Crash \/ UNCHANGED vars
    BY <2>4, <2>7 DEF Settle, Land, Lose, Crash, vars
  <2> QED
    BY <1>1, <2>1, <2>2, <2>3, <2>4, <2>5, <2>6, <2>7 DEF Next
<1>2. BaseIInv /\ [Next]_vars =>
        [\A m \in queued \ queued' : store[m] = "processed" \/ PostsOf("reply", m) # {}]_vars
  BY <1>1
<1> QED
  BY <1>2, BaseInvariant, PTL DEF Spec, RemovedIsSettled

-----------------------------------------------------------------------------
(***************************************************************************)
(* What holds when a message has one place to be answered in.               *)
(***************************************************************************)

\* A room has one policy.
LEMMA OnePolicy == \A room : \A i, j \in PolicyOf(room) : i = j
  BY ConfigAssumption DEF ConfigValid, PolicyOf

\* A place stays one: posts are never taken back.
LEMMA PlaceGrows ==
  ASSUME NEW m \in Messages, NEW room, NEW parent, Place(m, room, parent), Landed \subseteq Landed'
  PROVE  Place(m, room, parent)'
<1>1. ASSUME NEW s PROVE PostsOf("forward", s) \subseteq PostsOf("forward", s)'
  BY DEF PostsOf
<1> QED
  BY <1>1 DEF Place, MirroredIn, MirrorRoot, PolicyOf, ReadOnlySource

\* There is only one.
LEMMA OnePlace ==
  ASSUME OnePost, NEW m \in Messages, NEW r1, NEW p1, NEW r2, NEW p2,
         Place(m, r1, p1), Place(m, r2, p2)
  PROVE  r1 = r2 /\ p1 = p2
<1>1. \A f, g \in PostsOf("forward", MirrorRoot(m)) : f = g
  BY DEF OnePost, PostsOf, Sent
<1> QED
  BY <1>1 DEF Place, MirroredIn

\* It is a room and a thread.
LEMMA PlaceIsReal ==
  ASSUME Types, NEW m \in Messages, NEW room, NEW parent, Place(m, room, parent)
  PROVE  room # NoRoom /\ parent # NoMessage
<1>1. \A f \in Landed : f.id # NoMessage
  BY LandedPosts, WebexAssumption DEF Posts
<1>2. m # NoMessage /\ About[m].room # NoRoom
  BY AttemptAssumption, WebexAssumption
<1> QED
  BY <1>1, <1>2 DEF Place, MirroredIn, PostsOf

\* Where resolve_followup finds a thread, it is the place of the message.
LEMMA FollowupPlaced ==
  ASSUME NoRelay, BaseIInv, PostsPlaced, NEW m \in Messages, About[m].room # AdminRoom,
         NEW i \in DOMAIN Policies, NEW t \in FollowupThreads(m, Policies[i])
  PROVE  Place(m, t.room, t.parent)
<1>0. Types /\ About[m].parent # NoMessage
  BY FollowupPlaces DEF BaseIInv
<1>1. CASE /\ About[m].room = Policies[i].room /\ Policies[i].readOnly
           /\ About[About[m].parent].room = Policies[i].room
           /\ \E f \in PostsOf("forward", About[m].parent) :
                f.room = Policies[i].out /\ t.room = f.room /\ t.parent = f.id
  <2>1. i \in PolicyOf(About[m].room) /\ ReadOnlySource(About[m].room)
    BY <1>1 DEF PolicyOf, ReadOnlySource
  <2>2. MirrorRoot(m) = About[m].parent
    BY <1>0, <2>1 DEF MirrorRoot
  <2>3. Policies[i].out # NoRoom
    BY <1>1, ConfigAssumption DEF ConfigValid
  <2>4. MirroredIn(m, t.room)
    BY <1>1, <2>1, <2>3 DEF MirroredIn
  <2> QED
    BY <1>1, <2>2, <2>4 DEF Place
<1>2. CASE /\ t.room = About[m].room /\ t.parent = About[m].parent
           /\ \E q \in Landed : /\ q.kind = "reply" /\ q.room = t.room /\ q.parent = t.parent
                                /\ About[q.of].room = Policies[i].room
  <2>1. PICK q \in Landed : q.kind = "reply" /\ q.room = About[m].room
    BY <1>2
  <2>2. ~ReadOnlySource(About[m].room) /\ Place(q.of, About[m].room, q.parent)
    BY <2>1 DEF BaseIInv, ReadOnlyNeverWritten, PostsPlaced, Sent
  <2>3. ASSUME NEW j \in PolicyOf(About[m].room), Policies[j].out # NoRoom PROVE FALSE
    <3>1. ~Policies[j].readOnly /\ j \in DOMAIN Policies /\ Policies[j].room = About[m].room
      BY <2>2, <2>3 DEF ReadOnlySource, PolicyOf
    <3>2. CASE MirroredIn(q.of, About[m].room)
      BY <2>3, <3>1, <3>2 DEF MirroredIn, NoRelay, PolicyOf
    <3>3. CASE /\ \A k \in PolicyOf(About[q.of].room) : Policies[k].out = NoRoom
               /\ About[m].room = About[q.of].room
      BY <2>3, <3>3
    <3> QED
      BY <2>2, <3>2, <3>3 DEF Place
  <2> QED
    BY <1>0, <1>2, <2>3 DEF Place
<1> QED
  BY <1>0, <1>1, <1>2, FollowupPlaces

\* What the other attempts do leaves an attempt in its place.
LEMMA PlacedGrows ==
  ASSUME NEW m \in Messages, AttemptPlaced(m), att'[m] = att[m], store'[m] = store[m],
         Landed \subseteq Landed', UnderWay(m)' \subseteq UnderWay(m),
         \A p \in Sent' : p.of = m => p \in Sent
  PROVE  AttemptPlaced(m)'
<1>1. Place(m, att[m].room, att[m].parent) => Place(m, att[m].room, att[m].parent)'
  <2>1. ASSUME NEW s PROVE PostsOf("forward", s) \subseteq PostsOf("forward", s)'
    BY DEF PostsOf
  <2> QED
    BY <2>1 DEF Place, MirroredIn, MirrorRoot, PolicyOf, ReadOnlySource
<1>2. Replying(m)' => Replying(m)
  BY DEF Replying
<1>3. /\ Forwarding(m)' => Forwarding(m)
      /\ MirrorRoot(m) = m => MirrorRoot(m)' = m
      /\ MirroredIn(m, att[m].room) => MirroredIn(m, att[m].room)'
  BY DEF Forwarding, MirrorRoot, MirroredIn, PolicyOf, ReadOnlySource
<1>4. \A kind : NeverSent(kind, m) => NeverSent(kind, m)'
  BY DEF NeverSent
<1>5. \A p \in UnderWay(m)' : p \in UnderWay(m)
  OBVIOUS
<1>6. /\ UnderWay(m) = {} => UnderWay(m)' = {}
      /\ \A k : (\A p \in UnderWay(m) : p.kind = k) => (\A p \in UnderWay(m)' : p.kind = k)
  BY <1>5
<1> QED
  BY <1>1, <1>2, <1>3, <1>4, <1>6 DEF AttemptPlaced


\* An attempt that was sent to a place is in it.
LEMMA PlaceTaken ==
  ASSUME NEW m \in Messages, NEW room, NEW parent, Place(m, room, parent), Landed \subseteq Landed',
         att'[m].room = room, att'[m].parent = parent
  PROVE  Place(m, att[m].room, att[m].parent)'
<1>1. ASSUME NEW s PROVE PostsOf("forward", s) \subseteq PostsOf("forward", s)'
  BY DEF PostsOf
<1> QED
  BY <1>1 DEF Place, MirroredIn, MirrorRoot, PolicyOf, ReadOnlySource

\* The mirror of a message that is being forwarded is the only one, it is not under way any
\* more, and the message is answered under it.
LEMMA MirrorFound ==
  ASSUME BaseIInv, PlaceIInv, NEW m \in Messages, Forwarding(m), NEW p \in Landed,
         p.kind = "forward", p.of = m
  PROVE  Place(m, p.room, p.id) /\ UnderWay(m) = {}
<1>0. AttemptPlaced(m) /\ AttemptSound(m)
  BY DEF PlaceIInv, BaseIInv
<1>1. MirroredIn(m, p.room) /\ MirrorRoot(m) = m /\ About[m].room # AdminRoom
  BY <1>0 DEF PlaceIInv, PostsPlaced, AttemptPlaced, Sent
<1>2. p \in PostsOf("forward", m)
  BY DEF PostsOf
<1>3. Place(m, p.room, p.id)
  BY <1>1, <1>2 DEF Place
<1>4. \A q \in UnderWay(m) : q.kind = "forward"
  BY <1>0 DEF AttemptPlaced, Forwarding
<1>5. \A q \in UnderWay(m) : q = p
  BY <1>4 DEF PlaceIInv, OnePost, UnderWay, Sent
<1>6. UnderWay(m) = {}
  BY <1>5 DEF PlaceIInv, NotBoth, UnderWay
<1> QED
  BY <1>3, <1>6

\* The empty store.
LEMMA InitPlace == Init => PlaceIInv
<1> SUFFICES ASSUME Init PROVE PlaceIInv
  OBVIOUS
<1>1. Landed = {} /\ Sent = {} /\ inflight = {}
  BY DEF Init, Landed, Sent
<1>2. \A m \in Messages : att[m].pc = "idle" /\ UnderWay(m) = {}
  BY <1>1, NoAttemptType DEF Init, UnderWay
<1>3. \A m \in Messages : AttemptPlaced(m)
  BY <1>2 DEF AttemptPlaced, Forwarding, Replying
<1> QED
  BY <1>1, <1>3 DEF PlaceIInv, OnePost, NotBoth, PostsPlaced

\* Every step keeps posts and attempts in their places.
LEMMA NextPlace ==
  NoRelay /\ BaseIInv /\ BaseIInv' /\ PlaceIInv /\ [Next]_vars => PlaceIInv'
<1> SUFFICES ASSUME NoRelay, BaseIInv, BaseIInv', PlaceIInv, [Next]_vars PROVE PlaceIInv'
  OBVIOUS
<1>0. /\ Types /\ Types'
      /\ \A m \in Messages : AttemptSound(m) /\ AttemptPlaced(m) /\ att[m] \in Attempts
  BY DEF BaseIInv, PlaceIInv, Types
<1>s. /\ "hydrate" \in Steps /\ "done" \in Steps /\ "mark" \in Steps /\ "searchReply" \in Steps
      /\ "createForward" \in Steps /\ "createReply" \in Steps /\ "run" \in Steps
      /\ "sent" \in Steps /\ "recheck" \in Steps /\ "enqueue" \in Steps /\ "followup" \in Steps
      /\ "searchForward" \in Steps /\ "forward" \in Kinds /\ "reply" \in Kinds
  BY DEF Steps, Kinds
\* Nothing is sent: the posts stay where they are.
<1>n. ASSUME UNCHANGED posts, inflight' \subseteq inflight, \A m \in Messages : AttemptPlaced(m)'
      PROVE  PlaceIInv'
  <2>1. Landed' = Landed /\ Sent' \subseteq Sent
    BY <1>n DEF Landed, Sent
  <2>2. OnePost' /\ NotBoth'
    BY <1>n, <2>1 DEF PlaceIInv, OnePost, NotBoth
  <2>3. ASSUME NEW p \in Sent' PROVE /\ p.kind = "forward" => p.parent = NoMessage /\ MirroredIn(p.of, p.room)'
                                     /\ p.kind = "reply" => Place(p.of, p.room, p.parent)'
    <3>1. p \in Sent /\ p.of \in Messages
      BY <1>0, <2>1, LandedPosts DEF Posts
    <3>2. p.kind = "reply" => Place(p.of, p.room, p.parent)'
      BY <2>1, <3>1, PlaceGrows DEF PlaceIInv, PostsPlaced
    <3> QED
      BY <3>1, <3>2 DEF PlaceIInv, PostsPlaced, MirroredIn, PolicyOf
  <2> QED
    BY <1>n, <2>2, <2>3 DEF PlaceIInv, PostsPlaced
\* Only the attempt of m has to be looked at.
<1>m. ASSUME NEW m \in Messages, UNCHANGED posts, inflight' \subseteq inflight,
             \A n \in Messages \ {m} : att'[n] = att[n] /\ store'[n] = store[n],
             AttemptPlaced(m)'
      PROVE  PlaceIInv'
  <2>1. Landed' = Landed /\ Sent' \subseteq Sent /\ \A n \in Messages : UnderWay(n)' \subseteq UnderWay(n)
    BY <1>m DEF Landed, Sent, UnderWay
  <2>2. \A n \in Messages : AttemptPlaced(n)'
    BY <1>0, <1>m, <2>1, PlacedGrows
  <2> QED
    BY <1>m, <1>n, <2>2
\* The attempt of m is at a step that is about no place.
<1>e. ASSUME NEW m \in Messages, att'[m].pc \in {"idle", "mark", "done"},
             store'[m] = store[m], UNCHANGED posts, inflight' \subseteq inflight,
             \A n \in Messages \ {m} : att'[n] = att[n] /\ store'[n] = store[n]
      PROVE  PlaceIInv'
  <2>1. UnderWay(m)' \subseteq UnderWay(m)
    BY <1>e DEF UnderWay
  <2>2. AttemptPlaced(m)'
    BY <1>0, <1>e, <2>1 DEF AttemptPlaced, Forwarding, Replying
  <2> QED
    BY <1>e, <1>m, <2>2
<1>p. ASSUME NEW m \in Messages, Stop(m) \/ Go(m, "mark") \/ Go(m, "done"), UNCHANGED <<store, posts>>,
             inflight' \subseteq inflight
      PROVE  PlaceIInv'
  <2>1. att'[m].pc \in {"idle", "mark", "done"} /\ \A n \in Messages \ {m} : att'[n] = att[n]
    BY <1>0, <1>p, <1>s, StopUpdates, GoUpdates
  <2> QED
    BY <1>e, <1>p, <2>1
\* The attempt of m goes on to look for its reply in the place of m.
<1>r. ASSUME NEW m \in Messages, NEW room \in Rooms, NEW parent \in Threads, NEW policy \in Rooms,
             ReplyIn(m, room, parent, policy), Place(m, room, parent), UnderWay(m) = {},
             UNCHANGED <<store, posts, inflight>>, store[m] # "free"
      PROVE  PlaceIInv'
  <2>1. /\ att'[m].pc = "searchReply" /\ att'[m].room = room /\ att'[m].parent = parent
        /\ \A n \in Messages \ {m} : att'[n] = att[n]
    BY <1>0, <1>r, ReplyInUpdates
  <2>2. Place(m, att[m].room, att[m].parent)'
    BY <1>r, <2>1, PlaceTaken DEF Landed
  <2>3. UnderWay(m)' = {}
    BY <1>r DEF UnderWay
  <2>4. AttemptPlaced(m)'
    BY <1>r, <2>1, <2>2, <2>3 DEF AttemptPlaced, Forwarding
  <2> QED
    BY <1>m, <1>r, <2>1, <2>4
\* The attempt of m goes on under its mirror.
<1>u. ASSUME NEW m \in Messages, NEW p \in Landed, ReplyUnder(m, p), p.kind = "forward", p.of = m,
             Forwarding(m), UNCHANGED <<store, posts, inflight>>
      PROVE  PlaceIInv'
  <2>1. Place(m, p.room, p.id) /\ UnderWay(m) = {}
    BY <1>u, MirrorFound
  <2>2. store[m] # "free"
    BY <1>0, <1>u DEF AttemptSound, Forwarding
  <2>3. p.room \in Rooms /\ p.id \in Threads /\ About[m].room \in Rooms
    BY <1>0, MirrorTypes
  <2> QED
    BY <1>r, <1>u, <2>1, <2>2, <2>3 DEF ReplyUnder
\* The attempt of m goes on with the place it has.
<1>w. ASSUME NEW m \in Messages, NEW pc \in Steps, Go(m, pc), UNCHANGED <<store, posts>>,
             inflight' \subseteq inflight, store[m] # "free"
      PROVE  /\ Replying(m) => Place(m, att[m].room, att[m].parent)'
             /\ MirrorRoot(m) = m => MirrorRoot(m)' = m
             /\ MirroredIn(m, att[m].room) => MirroredIn(m, att[m].room)'
             /\ UnderWay(m)' \subseteq UnderWay(m) /\ store'[m] # "free"
             /\ Sent' \subseteq Sent
             /\ att'[m].pc = pc /\ att'[m].request = att[m].request /\ att'[m].room = att[m].room
             /\ \A n \in Messages \ {m} : att'[n] = att[n]
  <2>1. /\ att'[m].pc = pc /\ att'[m].request = att[m].request /\ att'[m].room = att[m].room
        /\ att'[m].parent = att[m].parent /\ \A n \in Messages \ {m} : att'[n] = att[n]
    BY <1>0, <1>w, GoUpdates
  <2>2. Landed' = Landed /\ Sent' \subseteq Sent /\ UnderWay(m)' \subseteq UnderWay(m)
    BY <1>w DEF Landed, Sent, UnderWay
  <2>3. Replying(m) => Place(m, att[m].room, att[m].parent)'
    BY <1>0, <2>1, <2>2, PlaceTaken DEF AttemptPlaced
  <2>4. /\ MirrorRoot(m) = m => MirrorRoot(m)' = m
        /\ MirroredIn(m, att[m].room) => MirroredIn(m, att[m].room)'
    BY <2>1 DEF MirrorRoot, MirroredIn, PolicyOf, ReadOnlySource
  <2> QED
    BY <1>w, <2>1, <2>2, <2>3, <2>4
<1>1. ASSUME NEW m \in Messages, Deliver(m) PROVE PlaceIInv'
  <2>1. UNCHANGED <<store, att, posts, inflight>>
    BY <1>1 DEF Deliver, world
  <2>2. AttemptPlaced(m)'
    BY <1>0, <2>1, PlacedGrows DEF Landed, Sent, UnderWay
  <2> QED
    BY <1>m, <2>1, <2>2
<1>2. ASSUME NEW m \in Messages, BeginAttempt(m) PROVE PlaceIInv'
  <2>1. /\ UNCHANGED <<posts, inflight>> /\ store[m] = "free"
        /\ Go(m, "hydrate") /\ store' = [store EXCEPT ![m] = "leased"]
    BY <1>2 DEF BeginAttempt, world
  <2>2. att'[m].pc = "hydrate" /\ \A n \in Messages \ {m} : att'[n] = att[n]
    BY <1>0, <1>s, <2>1, GoUpdates
  <2>3. store'[m] = "leased" /\ \A n \in Messages \ {m} : store'[n] = store[n]
    BY <1>0, <2>1 DEF Types
  <2>4. UnderWay(m) = {} /\ UnderWay(m)' = UnderWay(m)
    BY <1>0, <2>1 DEF AttemptPlaced, UnderWay
  <2>5. AttemptPlaced(m)'
    BY <2>2, <2>3, <2>4 DEF AttemptPlaced, Forwarding, Replying
  <2> QED
    BY <1>m, <2>1, <2>2, <2>3, <2>5
<1>3. ASSUME NEW m \in Messages, BeginProcessed(m) \/ MarkFails(m) \/ RemoveJob(m) PROVE PlaceIInv'
  BY <1>3, <1>p DEF BeginProcessed, MarkFails, RemoveJob, world
<1>4. ASSUME NEW m \in Messages, Mark(m) PROVE PlaceIInv'
  <2>1. UNCHANGED <<posts, inflight>> /\ Go(m, "done") /\ store' = [store EXCEPT ![m] = "processed"]
    BY <1>4 DEF Mark, world
  <2>2. att'[m].pc = "done" /\ \A n \in Messages \ {m} : att'[n] = att[n]
    BY <1>0, <1>s, <2>1, GoUpdates
  <2>3. store'[m] = "processed" /\ \A n \in Messages \ {m} : store'[n] = store[n]
    BY <1>0, <2>1 DEF Types
  <2>4. AttemptPlaced(m)'
    BY <2>2, <2>3 DEF AttemptPlaced, Forwarding, Replying
  <2> QED
    BY <1>m, <2>1, <2>2, <2>3, <2>4
<1>5. ASSUME NEW m \in Messages, Hydrate(m) PROVE PlaceIInv'
  <2>1. /\ UNCHANGED <<store, posts, inflight>> /\ att[m].pc = "hydrate"
    BY <1>5 DEF Hydrate, At, world
  <2>2. UnderWay(m)' = {} /\ store'[m] # "free"
    BY <1>0, <2>1 DEF AttemptPlaced, AttemptSound, UnderWay
  <2>3. CASE IgnoredRoom(m)
    <3>1. Go(m, "mark")
      BY <1>0, <1>5, <2>3 DEF Hydrate, Go, Types
    <3> QED
      BY <1>p, <2>1, <3>1
  <2>4. CASE ~IgnoredRoom(m) /\ About[m].room = AdminRoom
    <3> DEFINE r == [att[m] EXCEPT !.pc = CommandStep(m), !.room = About[m].room, !.parent = m,
                                   !.policy = AdminRoom]
    <3>1. att' = [att EXCEPT ![m] = r]
      BY <1>0, <1>5, <2>4 DEF Hydrate, Types
    <3>2. CommandStep(m) \in {"mark", "enqueue", "searchReply"}
      BY DEF CommandStep
    <3>3. About[m].room \in Rooms /\ m \in Threads /\ AdminRoom \in Rooms /\ CommandStep(m) \in Steps
      BY <3>2 DEF Rooms, Threads, Steps
    <3>4. r \in Attempts /\ r.pc = CommandStep(m) /\ r.room = AdminRoom /\ r.parent = m
      BY <1>0, <2>4, <3>3 DEF Attempts
    <3> HIDE DEF r
    <3>5. /\ att'[m].pc \in {"mark", "enqueue", "searchReply"} /\ att'[m].room = AdminRoom
          /\ att'[m].parent = m /\ \A n \in Messages \ {m} : att'[n] = att[n]
      BY <1>0, <3>1, <3>2, <3>4, AttemptUpdates
    <3>6. Place(m, AdminRoom, m)
      BY <2>4 DEF Place
    <3>7. Place(m, att[m].room, att[m].parent)'
      BY <2>1, <3>5, <3>6, PlaceTaken DEF Landed
    <3>8. AttemptPlaced(m)'
      BY <2>2, <3>5, <3>7 DEF AttemptPlaced, Forwarding
    <3> QED
      BY <1>m, <2>1, <3>5, <3>8
  <2>5. CASE ~IgnoredRoom(m) /\ About[m].room # AdminRoom
    <3> DEFINE r == [att[m] EXCEPT !.pc = "followup", !.todo = FollowupPolicies(About[m].room)]
    <3>1. att' = [att EXCEPT ![m] = r]
      BY <1>0, <1>5, <2>5 DEF Hydrate, Types
    <3>2. r \in Attempts /\ r.pc = "followup"
      BY <1>0, <1>s DEF Attempts, FollowupPolicies
    <3> HIDE DEF r
    <3>3. att'[m].pc = "followup" /\ \A n \in Messages \ {m} : att'[n] = att[n]
      BY <1>0, <3>1, <3>2, AttemptUpdates
    <3>4. AttemptPlaced(m)'
      BY <2>2, <2>5, <3>3 DEF AttemptPlaced, Forwarding, Replying
    <3> QED
      BY <1>m, <2>1, <3>3, <3>4
  <2> QED
    BY <2>3, <2>4, <2>5
<1>d. ASSUME NEW m \in Messages, NEW i, att[m].pc = "followup", att' = [att EXCEPT ![m].todo = @ \ {i}],
             UNCHANGED <<store, posts, inflight>>
      PROVE  PlaceIInv'
  <2> DEFINE r == [att[m] EXCEPT !.todo = @ \ {i}]
  <2>1. r \in Attempts /\ r.pc = "followup"
    BY <1>0, <1>d DEF Attempts
  <2>2. att' = [att EXCEPT ![m] = r]
    BY <1>0, <1>d DEF Types
  <2> HIDE DEF r
  <2>3. att'[m].pc = "followup" /\ \A n \in Messages \ {m} : att'[n] = att[n]
    BY <1>0, <2>1, <2>2, AttemptUpdates
  <2>4. UnderWay(m)' = {} /\ store'[m] # "free" /\ About[m].room # AdminRoom
    BY <1>0, <1>d DEF AttemptPlaced, AttemptSound, UnderWay
  <2>5. AttemptPlaced(m)'
    BY <2>3, <2>4 DEF AttemptPlaced, Forwarding, Replying
  <2> QED
    BY <1>d, <1>m, <2>3, <2>5
<1>6. ASSUME NEW m \in Messages, TryFollowup(m) PROVE PlaceIInv'
  <2>1. /\ UNCHANGED <<store, posts, inflight>> /\ att[m].pc = "followup"
    BY <1>6 DEF TryFollowup, At, world
  <2>2. PICK i \in att[m].todo :
          \/ att' = [att EXCEPT ![m].todo = @ \ {i}]
          \/ \E t \in FollowupThreads(m, Policies[i]) : ReplyIn(m, t.room, t.parent, Policies[i].room)
    BY <1>6 DEF TryFollowup, NextPolicies
  <2>3. i \in DOMAIN Policies
    BY <1>0, <2>2 DEF Attempts
  <2>4. UnderWay(m) = {} /\ store[m] # "free" /\ About[m].room # AdminRoom /\ PostsPlaced
    BY <1>0, <2>1 DEF AttemptPlaced, AttemptSound, PlaceIInv
  <2>5. ASSUME NEW t \in FollowupThreads(m, Policies[i]), ReplyIn(m, t.room, t.parent, Policies[i].room)
        PROVE  PlaceIInv'
    <3>1. t.room \in Rooms /\ t.parent \in Threads /\ Policies[i].room \in Rooms
      BY <1>0, <2>3, FollowupPlaces
    <3>2. Place(m, t.room, t.parent)
      BY <2>3, <2>4, FollowupPlaced
    <3> QED
      BY <1>r, <2>1, <2>4, <2>5, <3>1, <3>2
  <2> QED
    BY <1>d, <2>1, <2>2, <2>5
<1>7. ASSUME NEW m \in Messages, FollowupGone(m) PROVE PlaceIInv'
  BY <1>7, <1>d DEF FollowupGone, At, world
<1>8. ASSUME NEW m \in Messages, RouteDirect(m) PROVE PlaceIInv'
  <2>1. /\ UNCHANGED <<store, posts, inflight>> /\ att[m].pc = "followup"
    BY <1>8 DEF RouteDirect, At, world
  <2>2. UnderWay(m) = {} /\ store[m] # "free" /\ About[m].room # AdminRoom
    BY <1>0, <2>1 DEF AttemptPlaced, AttemptSound
  <2>3. CASE ~TriggersDirectly(m)
    <3>1. Go(m, "mark")
      BY <1>8, <2>3 DEF RouteDirect
    <3> QED
      BY <1>p, <2>1, <3>1
  <2> DEFINE parent == IF About[m].parent = NoMessage THEN m ELSE About[m].parent
  <2>4. ASSUME NEW i \in PolicyOf(About[m].room), Policies[i].out = NoRoom,
               ReplyIn(m, About[m].room, parent, About[m].room)
        PROVE  PlaceIInv'
    <3>1. About[m].room \in Rooms /\ parent \in Threads
      BY DEF Rooms, Threads
    <3>2. \A j \in PolicyOf(About[m].room) : Policies[j].out = NoRoom
      BY <2>4, OnePolicy
    <3>3. Place(m, About[m].room, parent)
      BY <2>2, <3>2 DEF Place
    <3> QED
      BY <1>r, <2>1, <2>2, <2>4, <3>1, <3>3
  <2>5. ASSUME NEW i \in PolicyOf(About[m].room), Policies[i].out # NoRoom, TriggersDirectly(m),
               att' = [att EXCEPT ![m] = [NoAttempt EXCEPT !.pc = "searchForward", !.room = Policies[i].out]]
        PROVE  PlaceIInv'
    <3> DEFINE r == [NoAttempt EXCEPT !.pc = "searchForward", !.room = Policies[i].out]
    <3>1. r \in Attempts /\ r.pc = "searchForward" /\ r.room = Policies[i].out
      BY <1>s, NoAttemptType DEF Attempts, Rooms, PolicyOf
    <3> HIDE DEF r
    <3>2. /\ att'[m].pc = "searchForward" /\ att'[m].room = Policies[i].out
          /\ \A n \in Messages \ {m} : att'[n] = att[n]
      BY <1>0, <2>5, <3>1, AttemptUpdates DEF r
    <3>3. MirrorRoot(m)' = m
      BY <2>5 DEF MirrorRoot, TriggersDirectly, ReadOnlySource, PolicyOf
    <3>4. MirroredIn(m, att[m].room)'
      BY <2>5, <3>2 DEF MirroredIn, PolicyOf
    <3>5. UnderWay(m)' = {} /\ store'[m] # "free"
      BY <2>1, <2>2 DEF UnderWay
    <3>6. AttemptPlaced(m)'
      BY <2>2, <3>2, <3>3, <3>4, <3>5 DEF AttemptPlaced, Replying
    <3> QED
      BY <1>m, <2>1, <3>2, <3>6
  <2> QED
    BY <1>8, <2>3, <2>4, <2>5 DEF RouteDirect
<1>9. ASSUME NEW m \in Messages, EnqueuePull(m) PROVE PlaceIInv'
  <2>1. UNCHANGED <<store, posts, inflight>> /\ att[m].pc = "enqueue" /\ Go(m, "searchReply")
    BY <1>9 DEF EnqueuePull, At
  <2>2. UnderWay(m) = {} /\ store[m] # "free" /\ Replying(m)
    BY <1>0, <2>1 DEF AttemptPlaced, AttemptSound, Replying
  <2>3. AttemptPlaced(m)'
    BY <1>s, <1>w, <2>1, <2>2 DEF AttemptPlaced, Forwarding
  <2> QED
    BY <1>m, <1>s, <1>w, <2>1, <2>2, <2>3
<1>10. ASSUME NEW m \in Messages, EnqueuePullFails(m) \/ ForwardWithoutId(m) \/ CallRetried(m) \/ RecheckFails(m)
       PROVE  PlaceIInv'
  BY <1>10, <1>p DEF EnqueuePullFails, ForwardWithoutId, CallRetried, RecheckFails, world
<1>11. ASSUME NEW m \in Messages, SearchForward(m) PROVE PlaceIInv'
  <2>1. UNCHANGED <<store, posts, inflight>> /\ att[m].pc = "searchForward" /\ Forwarding(m)
    BY <1>11 DEF SearchForward, At, world, Forwarding
  <2>2. ASSUME NEW p \in FindForward(m, att[m].room), ReplyUnder(m, p) PROVE PlaceIInv'
    BY <1>u, <2>1, <2>2 DEF FindForward, PostsOf
  <2>3. CASE FindForward(m, att[m].room) = {} /\ Go(m, "createForward")
    <3>1. /\ UnderWay(m) = {} /\ store[m] # "free" /\ About[m].room # AdminRoom /\ MirrorRoot(m) = m
          /\ MirroredIn(m, att[m].room)
      BY <1>0, <2>1 DEF AttemptPlaced, AttemptSound
    <3>2. ASSUME NEW p \in Sent, p.kind = "forward", p.of = m PROVE FALSE
      <4>1. p \in Landed
        BY <3>1, <3>2 DEF UnderWay, Sent
      <4>2. MirroredIn(m, p.room)
        BY <3>2 DEF PlaceIInv, PostsPlaced
      <4>3. p.room = att[m].room
        BY <3>1, <4>2, OnePolicy DEF MirroredIn
      <4> QED
        BY <2>3, <3>2, <4>1, <4>3 DEF FindForward, PostsOf
    <3>3. NeverSent("forward", m)'
      BY <2>1, <3>2 DEF NeverSent, Sent, Landed
    <3>4. AttemptPlaced(m)'
      BY <1>s, <1>w, <2>1, <2>3, <3>1, <3>3 DEF AttemptPlaced, Replying
    <3> QED
      BY <1>m, <1>s, <1>w, <2>1, <2>3, <3>1, <3>4
  <2> QED
    BY <1>11, <2>2, <2>3 DEF SearchForward
\* What is sent was never sent before, and goes to its place.
<1>c. ASSUME NEW m \in Messages, NEW kind \in Kinds, NEW parent \in Threads, Send(m, kind, parent),
             NeverSent(kind, m), UnderWay(m) = {}, store[m] # "free", UNCHANGED <<store, posts>>,
             kind = "forward" => /\ parent = NoMessage /\ About[m].room # AdminRoom
                                 /\ MirrorRoot(m) = m /\ MirroredIn(m, att[m].room),
             kind = "reply" => parent = att[m].parent /\ Place(m, att[m].room, att[m].parent)
      PROVE  PlaceIInv'
  <2>1. PICK p \in Posts :
          /\ p.kind = kind /\ p.of = m /\ p.room = att[m].room /\ p.parent = parent
          /\ Landed' = Landed /\ inflight' = inflight \cup {p} /\ Sent' = Sent \cup {p}
          /\ att'[m].pc = kind /\ att'[m].room = att[m].room /\ att'[m].parent = att[m].parent
          /\ \A n \in Messages \ {m} : att'[n] = att[n]
    BY <1>0, <1>c, Sending
  <2>2. p \notin Sent
    BY <1>c, <2>1 DEF NeverSent
  <2>3. OnePost'
    BY <1>c, <2>1 DEF PlaceIInv, OnePost, NeverSent
  <2>4. NotBoth'
    BY <2>1, <2>2 DEF PlaceIInv, NotBoth, Sent
  <2>5. kind = "reply" => Place(m, att[m].room, att[m].parent)'
    BY <1>c, <2>1, PlaceTaken
  <2>6. kind = "reply" => Place(p.of, p.room, p.parent)'
    BY <1>c, <2>1, PlaceGrows
  <2>7. kind = "forward" => MirroredIn(m, att[m].room)' /\ MirrorRoot(m)' = m
    BY <1>c, <2>1 DEF MirroredIn, MirrorRoot, PolicyOf, ReadOnlySource
  <2>8. ASSUME NEW q \in Sent' PROVE /\ q.kind = "forward" => q.parent = NoMessage /\ MirroredIn(q.of, q.room)'
                                     /\ q.kind = "reply" => Place(q.of, q.room, q.parent)'
    <3>1. CASE q = p
      BY <1>c, <2>1, <2>6, <2>7, <3>1 DEF MirroredIn
    <3>2. CASE q \in Sent
      <4>1. q.of \in Messages
        BY <1>0, <3>2, LandedPosts DEF Posts
      <4>2. q.kind = "reply" => Place(q.of, q.room, q.parent)'
        BY <2>1, <3>2, <4>1, PlaceGrows DEF PlaceIInv, PostsPlaced
      <4> QED
        BY <3>2, <4>2 DEF PlaceIInv, PostsPlaced, MirroredIn, PolicyOf
    <3> QED
      BY <2>1, <3>1, <3>2
  <2>9. \A q \in UnderWay(m)' : q.kind = kind
    BY <1>c, <2>1 DEF UnderWay
  <2>10. AttemptPlaced(m)'
    BY <1>c, <2>1, <2>5, <2>7, <2>9 DEF AttemptPlaced, Forwarding, Replying, Kinds
  <2>11. \A n \in Messages \ {m} : UnderWay(n)' \subseteq UnderWay(n) /\ \A q \in Sent' : q.of = n => q \in Sent
    BY <2>1 DEF UnderWay
  <2>12. \A n \in Messages : AttemptPlaced(n)'
    BY <1>0, <1>c, <2>1, <2>10, <2>11, PlacedGrows
  <2> QED
    BY <2>3, <2>4, <2>8, <2>12 DEF PlaceIInv, PostsPlaced
<1>12. ASSUME NEW m \in Messages, CreateForward(m) PROVE PlaceIInv'
  <2>1. /\ UNCHANGED <<store, posts>> /\ att[m].pc = "createForward" /\ Send(m, "forward", NoMessage)
        /\ NoMessage \in Threads
    BY <1>12 DEF CreateForward, At, Threads
  <2>2. /\ NeverSent("forward", m) /\ UnderWay(m) = {} /\ store[m] # "free"
        /\ About[m].room # AdminRoom /\ MirrorRoot(m) = m /\ MirroredIn(m, att[m].room)
    BY <1>0, <2>1 DEF AttemptPlaced, AttemptSound, Forwarding
  <2> QED
    BY <1>c, <1>s, <2>1, <2>2
<1>13. ASSUME NEW m \in Messages, CreateReply(m) PROVE PlaceIInv'
  <2>1. UNCHANGED <<store, posts>> /\ att[m].pc = "createReply" /\ Send(m, "reply", att[m].parent)
    BY <1>13 DEF CreateReply, At
  <2>2. /\ NeverSent("reply", m) /\ UnderWay(m) = {} /\ store[m] # "free"
        /\ Place(m, att[m].room, att[m].parent) /\ att[m].parent \in Threads
    BY <1>0, <2>1 DEF AttemptPlaced, AttemptSound, Replying, Attempts
  <2> QED
    BY <1>c, <1>s, <2>1, <2>2
<1>14. ASSUME NEW m \in Messages, CreateBlocked(m) \/ CallRefused(m) PROVE PlaceIInv'
  BY <1>14, <1>p DEF CreateBlocked, CallRefused, world
<1>15. ASSUME NEW m \in Messages, ForwardCreated(m) PROVE PlaceIInv'
  <2>1. UNCHANGED <<store, posts, inflight>> /\ att[m].pc = "forward" /\ Forwarding(m)
    BY <1>15 DEF ForwardCreated, At, world, Forwarding
  <2>2. PICK p \in Landed : p.id = att[m].request /\ ReplyUnder(m, p)
    BY <1>15 DEF ForwardCreated
  <2>3. p.kind = "forward" /\ p.of = m
    BY <1>0, <2>1, <2>2 DEF AttemptSound, BaseIInv, PostsNamed, Sent
  <2> QED
    BY <1>u, <2>1, <2>2, <2>3
<1>16. ASSUME NEW m \in Messages, SearchReply(m) PROVE PlaceIInv'
  <2>1. UNCHANGED <<store, posts, inflight>> /\ att[m].pc = "searchReply" /\ Replying(m)
    BY <1>16 DEF SearchReply, At, world, Replying
  <2>2. CASE FindReply(m, att[m].room, att[m].parent) # {}
    <3>1. Go(m, "mark")
      BY <1>16, <2>2 DEF SearchReply
    <3> QED
      BY <1>p, <2>1, <3>1
  <2>3. CASE FindReply(m, att[m].room, att[m].parent) = {}
    <3>1. UnderWay(m) = {} /\ store[m] # "free" /\ Place(m, att[m].room, att[m].parent)
      BY <1>0, <2>1 DEF AttemptPlaced, AttemptSound
    <3>2. ASSUME NEW p \in Sent, p.kind = "reply", p.of = m PROVE FALSE
      <4>1. p \in Landed
        BY <3>1, <3>2 DEF UnderWay, Sent
      <4>2. Place(m, p.room, p.parent)
        BY <3>2 DEF PlaceIInv, PostsPlaced
      <4>3. p.room = att[m].room /\ p.parent = att[m].parent
        BY <3>1, <4>2, OnePlace DEF PlaceIInv
      <4> QED
        BY <2>3, <3>2, <4>1, <4>3 DEF FindReply, FindReplies
    <3>3. NeverSent("reply", m)'
      BY <2>1, <3>2 DEF NeverSent, Sent, Landed
    <3>4. PICK pc \in {"run", "createReply"} : Go(m, pc)
      BY <1>16, <2>3 DEF SearchReply
    <3>5. AttemptPlaced(m)'
      BY <1>s, <1>w, <2>1, <3>1, <3>3, <3>4 DEF AttemptPlaced, Forwarding
    <3> QED
      BY <1>m, <1>s, <1>w, <2>1, <3>1, <3>4, <3>5
  <2> QED
    BY <2>2, <2>3
<1>17. ASSUME NEW m \in Messages, RunCodex(m) PROVE PlaceIInv'
  <2>1. UNCHANGED <<store, posts, inflight>> /\ att[m].pc = "run" /\ Replying(m) /\ Go(m, "createReply")
    BY <1>17 DEF RunCodex, At, world, Replying
  <2>2. UnderWay(m) = {} /\ store[m] # "free" /\ NeverSent("reply", m)
    BY <1>0, <2>1 DEF AttemptPlaced, AttemptSound
  <2>3. NeverSent("reply", m)'
    BY <2>1, <2>2 DEF NeverSent, Sent, Landed
  <2>4. AttemptPlaced(m)'
    BY <1>s, <1>w, <2>1, <2>2, <2>3 DEF AttemptPlaced, Forwarding
  <2> QED
    BY <1>m, <1>s, <1>w, <2>1, <2>2, <2>4
<1>18. ASSUME NEW m \in Messages, ReplyCreated(m) PROVE PlaceIInv'
  <2>1. UNCHANGED <<store, posts, inflight>> /\ att[m].pc = "reply" /\ Replying(m) /\ Go(m, "sent")
    BY <1>18 DEF ReplyCreated, At, world, Replying
  <2>2. store[m] # "free"
    BY <1>0, <2>1 DEF AttemptSound
  <2>3. AttemptPlaced(m)'
    BY <1>s, <1>w, <2>1, <2>2 DEF AttemptPlaced, Forwarding
  <2> QED
    BY <1>m, <1>s, <1>w, <2>1, <2>2, <2>3
<1>19. ASSUME NEW m \in Messages, Recheck(m) PROVE PlaceIInv'
  <2>1. UNCHANGED <<store, posts, inflight>> /\ att[m].pc = "recheck"
    BY <1>19 DEF Recheck, At, world
  <2>2. ASSUME NEW p \in FindForward(m, att[m].room), att[m].request[1] = "forward", ReplyUnder(m, p)
        PROVE  PlaceIInv'
    BY <1>u, <2>1, <2>2 DEF FindForward, PostsOf, Forwarding
  <2>3. CASE Stop(m) \/ Go(m, "mark")
    BY <1>p, <2>1, <2>3
  <2> QED
    BY <1>19, <2>2, <2>3 DEF Recheck
\* The attempt of m gives up waiting for the answer to its request.
<1>v. ASSUME NEW m \in Messages, att[m].pc \in {"forward", "reply"}, Go(m, "recheck"),
             UNCHANGED <<store, posts>>, inflight' \subseteq inflight
      PROVE  PlaceIInv'
  <2>1. store[m] # "free" /\ att[m].request[1] = att[m].pc
    BY <1>0, <1>v DEF AttemptSound
  <2>2. /\ \A p \in UnderWay(m) : p.kind = att[m].request[1]
        /\ Forwarding(m) => /\ About[m].room # AdminRoom /\ MirrorRoot(m) = m
                            /\ MirroredIn(m, att[m].room)
    BY <1>0, <1>v, <2>1 DEF AttemptPlaced
  <2>3. /\ att'[m].pc = "recheck" /\ att'[m].request = att[m].request
        /\ UnderWay(m)' \subseteq UnderWay(m) /\ store'[m] # "free"
        /\ Replying(m) => Place(m, att[m].room, att[m].parent)'
        /\ MirrorRoot(m) = m => MirrorRoot(m)' = m
        /\ MirroredIn(m, att[m].room) => MirroredIn(m, att[m].room)'
        /\ \A n \in Messages \ {m} : att'[n] = att[n]
    BY <1>s, <1>v, <1>w, <2>1
  <2>4. (Replying(m)' => Replying(m)) /\ (Forwarding(m)' => Forwarding(m))
    BY <1>v, <2>1, <2>3 DEF Replying, Forwarding
  <2>5. AttemptPlaced(m)'
    BY <2>2, <2>3, <2>4 DEF AttemptPlaced
  <2> QED
    BY <1>m, <1>v, <2>3, <2>5
<1>20. ASSUME NEW m \in Messages, CreateTimedOut(m) PROVE PlaceIInv'
  BY <1>20, <1>v DEF CreateTimedOut, At, world
<1>21. ASSUME NEW m \in Messages, CreateRefused(m) PROVE PlaceIInv'
  <2>1. /\ UNCHANGED <<store, posts>> /\ inflight' \subseteq inflight
        /\ att[m].pc \in {"forward", "reply"} /\ (Go(m, "mark") \/ Go(m, "recheck"))
    BY <1>21 DEF CreateRefused, At
  <2> QED
    BY <1>p, <1>v, <2>1
<1>22. ASSUME NEW m \in Messages, Expire(m) PROVE PlaceIInv'
  <2>1. /\ UNCHANGED <<att, posts, inflight>> /\ att[m].pc = "idle" /\ UnderWay(m) = {}
        /\ store' = [store EXCEPT ![m] = "free"]
    BY <1>22 DEF Expire, At, world, UnderWay
  <2>2. \A n \in Messages \ {m} : store'[n] = store[n]
    BY <1>0, <2>1 DEF Types
  <2>3. UnderWay(m)' = {}
    BY <2>1 DEF UnderWay
  <2>4. AttemptPlaced(m)'
    BY <2>1, <2>3 DEF AttemptPlaced, Forwarding, Replying
  <2> QED
    BY <1>m, <2>1, <2>2, <2>4
<1>23. ASSUME NEW p \in inflight, Land(p) PROVE PlaceIInv'
  <2>1. /\ UNCHANGED <<store, att>> /\ Landed' = Landed \cup {p} /\ Sent' = Sent
        /\ inflight' = inflight \ {p}
    BY <1>0, <1>23, Landing DEF Land
  <2>2. \A n \in Messages : UnderWay(n)' \subseteq UnderWay(n)
    BY <2>1 DEF UnderWay
  <2>3. \A n \in Messages : AttemptPlaced(n)'
    BY <1>0, <2>1, <2>2, PlacedGrows
  <2>4. OnePost' /\ NotBoth'
    BY <2>1 DEF PlaceIInv, OnePost, NotBoth
  <2>5. ASSUME NEW q \in Sent' PROVE /\ q.kind = "forward" => q.parent = NoMessage /\ MirroredIn(q.of, q.room)'
                                     /\ q.kind = "reply" => Place(q.of, q.room, q.parent)'
    <3>1. q \in Sent /\ q.of \in Messages
      BY <1>0, <2>1, LandedPosts DEF Posts
    <3>2. q.kind = "reply" => Place(q.of, q.room, q.parent)'
      BY <2>1, <3>1, PlaceGrows DEF PlaceIInv, PostsPlaced
    <3> QED
      BY <3>1, <3>2 DEF PlaceIInv, PostsPlaced, MirroredIn, PolicyOf
  <2> QED
    BY <2>3, <2>4, <2>5 DEF PlaceIInv, PostsPlaced
<1>24. ASSUME NEW p \in inflight, Lose(p) PROVE PlaceIInv'
  <2>1. UNCHANGED <<store, att, posts>> /\ inflight' \subseteq inflight
    BY <1>24 DEF Lose
  <2>2. \A n \in Messages : AttemptPlaced(n)'
    BY <1>0, <2>1, PlacedGrows DEF Landed, Sent, UnderWay
  <2> QED
    BY <1>n, <2>1, <2>2
<1>25. CASE Crash
  <2>1. UNCHANGED <<store, posts, inflight>> /\ \A n \in Messages : att'[n].pc = "idle"
    BY <1>25, NoAttemptType DEF Crash, world
  <2>2. \A n \in Messages : UnderWay(n)' = UnderWay(n)
    BY <2>1 DEF UnderWay
  <2>3. \A n \in Messages : AttemptPlaced(n)'
    BY <1>0, <2>1, <2>2 DEF AttemptPlaced, Forwarding, Replying
  <2> QED
    BY <1>n, <2>1, <2>3
<1>26. CASE UNCHANGED vars
  <2>1. UNCHANGED <<store, att, posts, inflight>>
    BY <1>26 DEF vars, world
  <2>2. \A n \in Messages : AttemptPlaced(n)'
    BY <1>0, <2>1, PlacedGrows DEF Landed, Sent, UnderWay
  <2> QED
    BY <1>n, <2>1, <2>2
<1> QED
  BY <1>1, <1>2, <1>3, <1>4, <1>5, <1>6, <1>7, <1>8, <1>9, <1>10, <1>11, <1>12, <1>13, <1>14, <1>15,
     <1>16, <1>17, <1>18, <1>19, <1>20, <1>21, <1>22, <1>23, <1>24, <1>25, <1>26
  DEF Next, AttemptStep, FaultStep, Settle


-----------------------------------------------------------------------------
\* Posts and attempts are in their places in every reachable state.
THEOREM PlaceInvariant == NoRelay /\ Spec => [](BaseIInv /\ PlaceIInv)
<1>1. CASE NoRelay
  <2>1. BaseIInv /\ BaseIInv' /\ PlaceIInv /\ [Next]_vars => PlaceIInv'
    BY <1>1, NextPlace
  <2> QED
    BY <2>1, InitPlace, BaseInvariant, PTL DEF Spec
<1> QED
  BY <1>1

(***************************************************************************)
(* Where no mirrored room relays another one's mirrors, a message is        *)
(* mirrored at most once and answered at most once, however often it is     *)
(* delivered and its attempts time out, fail or are cut short by a crash.   *)
(***************************************************************************)
THEOREM MarkersPreventDuplicates == NoRelay /\ Spec => []AtMostOnePost
<1>1. BaseIInv /\ PlaceIInv => AtMostOnePost
  <2> SUFFICES ASSUME PlaceIInv, NEW m \in Messages, NEW kind \in Kinds
               PROVE  Cardinality(PostsOf(kind, m)) <= 1
    BY DEF AtMostOnePost
  <2>1. \A p, q \in PostsOf(kind, m) : p = q
    BY DEF PlaceIInv, OnePost, PostsOf, Sent
  <2>2. CASE PostsOf(kind, m) = {}
    <3>1. Cardinality({}) = 0
      BY FS_EmptySet
    <3> QED
      BY <2>2, <3>1
  <2>3. ASSUME NEW p \in PostsOf(kind, m) PROVE Cardinality(PostsOf(kind, m)) <= 1
    <3>1. PostsOf(kind, m) = {p}
      BY <2>1, <2>3
    <3>2. Cardinality({p}) = 1
      BY FS_Singleton
    <3> QED
      BY <3>1, <3>2
  <2> QED
    BY <2>2, <2>3
<1> QED
  BY <1>1, PlaceInvariant, PTL

(***************************************************************************)
(* And every attempt holds a lease, knows the thread it replies in, and     *)
(* runs Codex only for a message that has no reply yet.                     *)
(***************************************************************************)
THEOREM AttemptsAreSound == NoRelay /\ Spec => []AttemptInv
<1>1. BaseIInv /\ PlaceIInv => TypeOK
  <2> SUFFICES ASSUME BaseIInv, PlaceIInv PROVE TypeOK
    OBVIOUS
  <2>1. Types
    BY DEF BaseIInv
  <2>2. \A p \in Landed \cup inflight : p.kind \in Kinds /\ p.of \in Messages
    BY <2>1, LandedPosts DEF Sent, Posts
  <2>3. ASSUME NEW m \in Messages
        PROVE  /\ att[m].pc \in Steps
               /\ att[m].pc # "idle" => m \in queued /\ store[m] # "free"
    BY <2>1, <2>3 DEF BaseIInv, AttemptSound, Types, Attempts
  <2>4. ASSUME NEW m \in Messages, At(m, {"searchReply", "run", "createReply", "reply", "sent"})
        PROVE  att[m].room # NoRoom /\ att[m].parent # NoMessage
    <3>1. Place(m, att[m].room, att[m].parent)
      BY <2>4 DEF PlaceIInv, AttemptPlaced, Replying, At
    <3> QED
      BY <2>1, <3>1, PlaceIsReal
  <2> QED
    BY <2>1, <2>2, <2>3, <2>4 DEF TypeOK, Types
<1>2. PlaceIInv => NoRunAfterReply
  BY DEF PlaceIInv, AttemptPlaced, NeverSent, NoRunAfterReply, PostsOf, Sent, At
<1> QED
  BY <1>1, <1>2, PlaceInvariant, PTL DEF AttemptInv

\* The reply to a message of a read-only room is under the mirror of its own thread's root.
LEMMA MirrorIsOwn == BaseIInv /\ PlaceIInv => RepliedUnderOwnMirror
<1> SUFFICES ASSUME BaseIInv, PlaceIInv, NEW p \in Landed, p.kind = "reply",
                    ReadOnlySource(About[p.of].room)
             PROVE  \E f \in PostsOf("forward", RootOf(p.of)) :
                      /\ p.parent = f.id /\ p.room = f.room /\ f.parent = NoMessage
                      /\ \E i \in PolicyOf(About[p.of].room) : p.room = Policies[i].out
  BY DEF RepliedUnderOwnMirror
<1>1. Landed \subseteq Posts /\ Landed \subseteq Sent
  BY LandedPosts DEF BaseIInv, Sent
<1>2. p.of \in Messages /\ Place(p.of, p.room, p.parent)
  BY <1>1 DEF PlaceIInv, PostsPlaced, Posts
<1>3. PICK i \in PolicyOf(About[p.of].room) : Policies[i].readOnly
  BY DEF ReadOnlySource
<1>4. About[p.of].room # AdminRoom /\ Policies[i].out # NoRoom
  BY <1>2, <1>3, ConfigAssumption, WebexAssumption DEF ConfigValid, PolicyOf
<1>5. MirroredIn(p.of, p.room)
  BY <1>2, <1>3, <1>4 DEF Place
<1>6. PICK f \in PostsOf("forward", MirrorRoot(p.of)) : f.room = p.room /\ f.id = p.parent
  BY <1>2, <1>3, <1>4 DEF Place
<1>7. f \in Landed /\ f.kind = "forward" /\ f.of = MirrorRoot(p.of) /\ f.of \in Messages
  BY <1>1, <1>6 DEF PostsOf, Posts
<1>8. f.parent = NoMessage
  BY <1>1, <1>7 DEF PlaceIInv, PostsPlaced
<1>9. MirrorRoot(p.of) = RootOf(p.of)
  BY <1>7, AttemptAssumption DEF MirrorRoot, RootOf
<1> QED
  BY <1>5, <1>6, <1>8, <1>9 DEF MirroredIn


-----------------------------------------------------------------------------
(***************************************************************************)
(* What holds when output rooms have no policy of their own.                *)
(***************************************************************************)

\* A post is known by its ID.
LEMMA OneId ==
  ASSUME BaseIInv, PlaceIInv, NEW p \in Sent, NEW q \in Sent, p.id = q.id
  PROVE  p = q
  BY DEF BaseIInv, PostsNamed, PlaceIInv, OnePost

\* A message with a policy of its own room is not in the thread of a mirror.
LEMMA NoMirrorAbove ==
  ASSUME OutputRoomsApart, BaseIInv, PlaceIInv, ThreadsKnown, NEW m \in queued, m \in Messages,
         NEW i \in PolicyOf(About[m].room), NEW p \in Landed, p.kind = "forward",
         p.id = About[m].parent
  PROVE  FALSE
<1>1. p \in Posts /\ Landed \subseteq Sent
  BY LandedPosts DEF BaseIInv, Sent
<1>2. p.id \notin Messages \cup {NoMessage}
  BY <1>1, WebexAssumption DEF Posts
<1>3. PICK q \in Landed : q.id = About[m].parent /\ q.room = About[m].room
  BY <1>2 DEF ThreadsKnown, ThreadRoots
<1>4. p.room = About[m].room
  BY <1>1, <1>3, OneId
<1>5. PICK j \in DOMAIN Policies : Policies[j].out = About[m].room
  BY <1>1, <1>4 DEF PlaceIInv, PostsPlaced, MirroredIn, PolicyOf
<1>6. i \in DOMAIN Policies /\ Policies[i].room = About[m].room
  BY DEF PolicyOf
<1>7. Policies[i].readOnly
  BY <1>5, <1>6 DEF OutputRoomsApart
<1> QED
  BY <1>1, <1>4, <1>7 DEF BaseIInv, ReadOnlyNeverWritten, ReadOnlySource, Sent

\* A follow-up in the thread of a mirror is resolved to the policy of the mirrored message.
LEMMA FollowupPolicy ==
  ASSUME OutputRoomsApart, BaseIInv, PlaceIInv, ThreadsKnown, NEW m \in queued, m \in Messages,
         NEW i \in DOMAIN Policies, NEW t \in FollowupThreads(m, Policies[i]),
         NEW p \in Landed, p.kind = "forward", p.id = t.parent
  PROVE  Policies[i].room = About[p.of].room
<1>0. /\ Types /\ PostsNamed /\ Landed \subseteq Sent /\ Landed \subseteq Posts
      /\ About[m].parent # NoMessage
  BY LandedPosts, FollowupPlaces DEF BaseIInv, Sent
<1>1. ASSUME NEW f \in PostsOf("forward", About[m].parent), t.parent = f.id,
             About[About[m].parent].room = Policies[i].room
      PROVE  Policies[i].room = About[p.of].room
  BY <1>0, <1>1 DEF PostsNamed, PostsOf
<1>2. ASSUME t.room = About[m].room, t.parent = About[m].parent,
             NEW q \in Landed, q.kind = "reply", q.room = t.room, q.parent = t.parent,
             About[q.of].room = Policies[i].room
      PROVE  Policies[i].room = About[p.of].room
  <2>1. Place(q.of, t.room, t.parent) /\ q.of \in Messages
    BY <1>0, <1>2 DEF PlaceIInv, PostsPlaced, Posts
  <2>2. t.parent # q.of
    BY <1>0, <2>1, WebexAssumption DEF Posts
  <2>3. ASSUME NEW f \in PostsOf("forward", MirrorRoot(q.of)), f.id = t.parent,
               About[MirrorRoot(q.of)].room = About[q.of].room
        PROVE  Policies[i].room = About[p.of].room
    BY <1>0, <1>2, <2>3 DEF PostsNamed, PostsOf
  <2>4. ASSUME t.room = About[q.of].room PROVE FALSE
    <3>1. i \in PolicyOf(About[m].room)
      BY <1>2, <2>4 DEF PolicyOf
    <3> QED
      BY <1>2, <3>1, NoMirrorAbove
  <2> QED
    BY <2>1, <2>2, <2>3, <2>4 DEF Place
<1> QED
  BY <1>0, <1>1, <1>2, FollowupPlaces

\* The thread a message is answered in is there before it is.
LEMMA PlaceKnown ==
  ASSUME BaseIInv, ThreadsKnown, NEW m \in queued, m \in Messages, NEW room, NEW parent,
         Place(m, room, parent)
  PROVE  parent \notin Ids \/ \E p \in Landed : p.id = parent
  BY WebexAssumption DEF Place, PostsOf, ThreadsKnown, ThreadRoots

\* Nothing is queued and no attempt runs.
LEMMA InitPolicy == Init => PolicyIInv
  BY NoAttemptType DEF Init, PolicyIInv, ThreadsKnown, Threaded


\* Every step keeps the threads known and the policies those of the mirrors.
LEMMA NextPolicy ==
  OutputRoomsApart /\ BaseIInv /\ PlaceIInv /\ PolicyIInv /\ [Next]_vars => PolicyIInv'
<1> SUFFICES ASSUME OutputRoomsApart, BaseIInv, PlaceIInv, PolicyIInv, [Next]_vars PROVE PolicyIInv'
  OBVIOUS
<1>0. /\ Types /\ PostsNamed /\ ThreadsKnown /\ queued \subseteq Messages
      /\ Landed \subseteq Posts /\ Sent \subseteq Posts /\ Landed \subseteq Sent
      /\ \A m \in Messages : AttemptSound(m) /\ AttemptPlaced(m) /\ att[m] \in Attempts
  BY LandedPosts DEF BaseIInv, PlaceIInv, PolicyIInv, Types, Sent
<1>s. /\ "hydrate" \in Steps /\ "done" \in Steps /\ "mark" \in Steps /\ "searchReply" \in Steps
      /\ "createForward" \in Steps /\ "createReply" \in Steps /\ "run" \in Steps
      /\ "sent" \in Steps /\ "recheck" \in Steps /\ "forward" \in Kinds /\ "reply" \in Kinds
  BY DEF Steps, Kinds
\* Threads stay known while nothing is queued.
<1>t. ASSUME queued' \subseteq queued, Landed \subseteq Landed' PROVE ThreadsKnown'
  BY <1>0, <1>t DEF ThreadsKnown, ThreadRoots
\* What lands is not the mirror an attempt is already in the thread of.
<1>k. ASSUME NEW m \in Messages, att[m].pc \in Threaded, Landed' \subseteq Sent,
             att'[m].parent = att[m].parent, att'[m].policy = att[m].policy
      PROVE  PolicyOfMirror(m)'
  <2>1. m \in queued /\ Place(m, att[m].room, att[m].parent) /\ PolicyOfMirror(m)
    BY <1>0, <1>k DEF AttemptSound, AttemptPlaced, Replying, Threaded, PolicyIInv
  <2>2. ASSUME NEW p \in Landed', p.kind = "forward", p.id = att[m].parent
        PROVE  att[m].policy = About[p.of].room
    <3>1. p \in Sent /\ p.id \in Ids
      BY <1>0, <1>k, <2>2 DEF Posts
    <3>2. PICK q \in Landed : q.id = att[m].parent
      BY <1>0, <2>1, <2>2, <3>1, PlaceKnown
    <3>3. p = q
      BY <1>0, <2>2, <3>1, <3>2, OneId
    <3> QED
      BY <2>1, <2>2, <3>2, <3>3 DEF PolicyOfMirror
  <2> QED
    BY <1>k, <2>2 DEF PolicyOfMirror
\* Only the attempt of m changes.
<1>m. ASSUME NEW m \in Messages, UNCHANGED posts, queued' \subseteq queued,
             \A n \in Messages \ {m} : att'[n] = att[n],
             att'[m].pc \in Threaded => PolicyOfMirror(m)'
      PROVE  PolicyIInv'
  <2>1. Landed' = Landed
    BY <1>m DEF Landed
  <2>2. ASSUME NEW n \in Messages \ {m}, att'[n].pc \in Threaded PROVE PolicyOfMirror(n)'
    BY <1>0, <1>k, <1>m, <2>1, <2>2
  <2> QED
    BY <1>m, <1>t, <2>1, <2>2 DEF PolicyIInv
<1>g. ASSUME NEW m \in Messages, NEW pc \in Steps, Go(m, pc), UNCHANGED posts, queued' \subseteq queued,
             pc \in Threaded => att[m].pc \in Threaded
      PROVE  PolicyIInv'
  <2>1. /\ att'[m].pc = pc /\ att'[m].parent = att[m].parent /\ att'[m].policy = att[m].policy
        /\ \A n \in Messages \ {m} : att'[n] = att[n]
    BY <1>0, <1>g, GoUpdates
  <2>2. att'[m].pc \in Threaded => PolicyOfMirror(m)'
    BY <1>0, <1>g, <1>k, <2>1 DEF Landed
  <2> QED
    BY <1>g, <1>m, <2>1, <2>2
<1>p. ASSUME NEW m \in Messages, Stop(m), UNCHANGED posts, queued' \subseteq queued PROVE PolicyIInv'
  <2>1. att'[m].pc = "idle" /\ \A n \in Messages \ {m} : att'[n] = att[n]
    BY <1>0, <1>p, StopUpdates
  <2> QED
    BY <1>m, <1>p, <2>1 DEF Threaded
\* The attempt of m takes up a thread, and the policy of the mirror there.
<1>r. ASSUME NEW m \in Messages, NEW room \in Rooms, NEW parent \in Threads, NEW policy \in Rooms,
             ReplyIn(m, room, parent, policy), UNCHANGED <<queued, posts>>,
             \A p \in Landed : p.kind = "forward" /\ p.id = parent => policy = About[p.of].room
      PROVE  PolicyIInv'
  <2>1. /\ att'[m].parent = parent /\ att'[m].policy = policy
        /\ \A n \in Messages \ {m} : att'[n] = att[n]
    BY <1>0, <1>r, ReplyInUpdates
  <2>2. PolicyOfMirror(m)'
    BY <1>r, <2>1 DEF PolicyOfMirror, Landed
  <2> QED
    BY <1>m, <1>r, <2>1, <2>2
<1>u. ASSUME NEW m \in Messages, NEW p \in Landed, ReplyUnder(m, p), p.of = m, UNCHANGED <<queued, posts>>
      PROVE  PolicyIInv'
  <2>1. p.room \in Rooms /\ p.id \in Threads /\ About[m].room \in Rooms
    BY <1>0, MirrorTypes
  <2>2. \A q \in Landed : q.id = p.id => q.of = m
    BY <1>0, <1>u DEF PostsNamed
  <2> QED
    BY <1>r, <1>u, <2>1, <2>2 DEF ReplyUnder
<1>1. ASSUME NEW m \in Messages, Deliver(m) PROVE PolicyIInv'
  <2>1. /\ UNCHANGED <<att, posts>> /\ queued' = queued \cup {m}
        /\ About[m].parent \in Messages \cup {NoMessage} \cup ThreadRoots(About[m].room)
    BY <1>1 DEF Deliver, world
  <2>2. Landed' = Landed
    BY <2>1 DEF Landed
  <2>3. ThreadsKnown'
    BY <1>0, <2>1, <2>2 DEF ThreadsKnown, ThreadRoots
  <2>4. \A n \in Messages : att'[n].pc \in Threaded => PolicyOfMirror(n)'
    BY <1>0, <1>k, <2>1, <2>2
  <2> QED
    BY <2>3, <2>4 DEF PolicyIInv
<1>2. ASSUME NEW m \in Messages, BeginAttempt(m) \/ BeginProcessed(m) \/ Mark(m) \/ RunCodex(m)
                                 \/ ReplyCreated(m) \/ CreateBlocked(m) \/ CallRefused(m) \/ CreateTimedOut(m)
      PROVE PolicyIInv'
  BY <1>2, <1>g, <1>s DEF BeginAttempt, BeginProcessed, Mark, RunCodex, ReplyCreated, CreateBlocked,
     CallRefused, CreateTimedOut, world, Threaded
<1>3. ASSUME NEW m \in Messages, MarkFails(m) \/ RemoveJob(m) \/ EnqueuePullFails(m) \/ ForwardWithoutId(m)
                                 \/ CallRetried(m) \/ RecheckFails(m)
      PROVE PolicyIInv'
  BY <1>3, <1>g, <1>p, <1>s DEF MarkFails, RemoveJob, EnqueuePullFails, ForwardWithoutId, CallRetried,
     RecheckFails, world, Threaded
<1>4. ASSUME NEW m \in Messages, EnqueuePull(m) \/ SearchReply(m) \/ CreateRefused(m) PROVE PolicyIInv'
  BY <1>4, <1>g, <1>s DEF EnqueuePull, SearchReply, CreateRefused, world, At, Threaded
<1>5. ASSUME NEW m \in Messages, Hydrate(m) PROVE PolicyIInv'
  <2>1. UNCHANGED <<queued, posts>> /\ att[m].pc = "hydrate"
    BY <1>5 DEF Hydrate, At, world
  <2>2. CASE IgnoredRoom(m)
    <3>1. Go(m, "mark")
      BY <1>0, <1>5, <2>2 DEF Hydrate, Go, Types
    <3> QED
      BY <1>g, <1>s, <2>1, <3>1 DEF Threaded
  <2>3. CASE ~IgnoredRoom(m) /\ About[m].room = AdminRoom
    <3> DEFINE r == [att[m] EXCEPT !.pc = CommandStep(m), !.room = About[m].room, !.parent = m,
                                   !.policy = AdminRoom]
    <3>1. att' = [att EXCEPT ![m] = r]
      BY <1>0, <1>5, <2>3 DEF Hydrate, Types
    <3>2. About[m].room \in Rooms /\ m \in Threads /\ AdminRoom \in Rooms /\ CommandStep(m) \in Steps
      BY DEF Rooms, Threads, Steps, CommandStep
    <3>3. r \in Attempts /\ r.parent = m
      BY <1>0, <3>2 DEF Attempts
    <3> HIDE DEF r
    <3>4. att'[m].parent = m /\ \A n \in Messages \ {m} : att'[n] = att[n]
      BY <1>0, <3>1, <3>3, AttemptUpdates
    <3>5. \A p \in Landed : p.id # m
      BY <1>0, WebexAssumption DEF Posts
    <3>6. PolicyOfMirror(m)'
      BY <2>1, <3>4, <3>5 DEF PolicyOfMirror, Landed
    <3> QED
      BY <1>m, <2>1, <3>4, <3>6
  <2>4. CASE ~IgnoredRoom(m) /\ About[m].room # AdminRoom
    <3> DEFINE r == [att[m] EXCEPT !.pc = "followup", !.todo = FollowupPolicies(About[m].room)]
    <3>1. att' = [att EXCEPT ![m] = r]
      BY <1>0, <1>5, <2>4 DEF Hydrate, Types
    <3>2. r \in Attempts /\ r.pc = "followup"
      BY <1>0 DEF Attempts, FollowupPolicies, Steps
    <3> HIDE DEF r
    <3>3. att'[m].pc = "followup" /\ \A n \in Messages \ {m} : att'[n] = att[n]
      BY <1>0, <3>1, <3>2, AttemptUpdates
    <3> QED
      BY <1>m, <2>1, <3>3 DEF Threaded
  <2> QED
    BY <2>2, <2>3, <2>4
<1>d. ASSUME NEW m \in Messages, NEW i, att[m].pc = "followup", att' = [att EXCEPT ![m].todo = @ \ {i}],
             UNCHANGED <<queued, posts>>
      PROVE  PolicyIInv'
  <2> DEFINE r == [att[m] EXCEPT !.todo = @ \ {i}]
  <2>1. r \in Attempts /\ r.pc = "followup"
    BY <1>0, <1>d DEF Attempts
  <2>2. att' = [att EXCEPT ![m] = r]
    BY <1>0, <1>d DEF Types
  <2> HIDE DEF r
  <2>3. att'[m].pc = "followup" /\ \A n \in Messages \ {m} : att'[n] = att[n]
    BY <1>0, <2>1, <2>2, AttemptUpdates
  <2> QED
    BY <1>d, <1>m, <2>3 DEF Threaded
<1>6. ASSUME NEW m \in Messages, TryFollowup(m) PROVE PolicyIInv'
  <2>1. UNCHANGED <<queued, posts>> /\ att[m].pc = "followup" /\ m \in queued
    BY <1>0, <1>6 DEF TryFollowup, At, world, AttemptSound
  <2>2. PICK i \in att[m].todo :
          \/ att' = [att EXCEPT ![m].todo = @ \ {i}]
          \/ \E t \in FollowupThreads(m, Policies[i]) : ReplyIn(m, t.room, t.parent, Policies[i].room)
    BY <1>6 DEF TryFollowup, NextPolicies
  <2>3. i \in DOMAIN Policies
    BY <1>0, <2>2 DEF Attempts
  <2>4. ASSUME NEW t \in FollowupThreads(m, Policies[i]), ReplyIn(m, t.room, t.parent, Policies[i].room)
        PROVE  PolicyIInv'
    <3>1. t.room \in Rooms /\ t.parent \in Threads /\ Policies[i].room \in Rooms
      BY <1>0, <2>3, FollowupPlaces
    <3>2. \A p \in Landed : p.kind = "forward" /\ p.id = t.parent => Policies[i].room = About[p.of].room
      BY <1>0, <2>1, <2>3, FollowupPolicy
    <3> QED
      BY <1>r, <2>1, <2>4, <3>1, <3>2
  <2> QED
    BY <1>d, <2>1, <2>2, <2>4
<1>7. ASSUME NEW m \in Messages, FollowupGone(m) PROVE PolicyIInv'
  BY <1>7, <1>d DEF FollowupGone, At, world
<1>8. ASSUME NEW m \in Messages, RouteDirect(m) PROVE PolicyIInv'
  <2>1. UNCHANGED <<queued, posts>> /\ att[m].pc = "followup" /\ m \in queued
    BY <1>0, <1>8 DEF RouteDirect, At, world, AttemptSound
  <2>2. CASE Go(m, "mark")
    BY <1>g, <1>s, <2>1, <2>2 DEF Threaded
  <2>3. ASSUME NEW i \in PolicyOf(About[m].room),
               ReplyIn(m, About[m].room, IF About[m].parent = NoMessage THEN m ELSE About[m].parent,
                       About[m].room)
        PROVE  PolicyIInv'
    <3> DEFINE parent == IF About[m].parent = NoMessage THEN m ELSE About[m].parent
    <3>1. About[m].room \in Rooms /\ parent \in Threads
      BY DEF Rooms, Threads
    <3>2. \A p \in Landed : p.id # m
      BY <1>0, WebexAssumption DEF Posts
    <3>3. \A p \in Landed : p.kind = "forward" => p.id # parent
      BY <1>0, <2>1, <2>3, <3>2, NoMirrorAbove
    <3> QED
      BY <1>r, <2>1, <2>3, <3>1, <3>3
  <2>4. ASSUME NEW i \in PolicyOf(About[m].room),
               att' = [att EXCEPT ![m] = [NoAttempt EXCEPT !.pc = "searchForward", !.room = Policies[i].out]]
        PROVE  PolicyIInv'
    <3> DEFINE r == [NoAttempt EXCEPT !.pc = "searchForward", !.room = Policies[i].out]
    <3>1. r \in Attempts /\ r.pc = "searchForward"
      BY DEF NoAttempt, Attempts, Rooms, Threads, Steps, PolicyOf
    <3>2. att' = [att EXCEPT ![m] = r]
      BY <2>4
    <3> HIDE DEF r
    <3>3. att'[m].pc = "searchForward" /\ \A n \in Messages \ {m} : att'[n] = att[n]
      BY <1>0, <3>1, <3>2, AttemptUpdates
    <3> QED
      BY <1>m, <2>1, <3>3 DEF Threaded
  <2> QED
    BY <1>8, <2>2, <2>3, <2>4 DEF RouteDirect
<1>9. ASSUME NEW m \in Messages, SearchForward(m) \/ Recheck(m) PROVE PolicyIInv'
  BY <1>9, <1>g, <1>p, <1>s, <1>u DEF SearchForward, Recheck, FindForward, PostsOf, world, Threaded
<1>10. ASSUME NEW m \in Messages, CreateForward(m) \/ CreateReply(m) PROVE PolicyIInv'
  <2>1. att[m].parent \in Threads /\ NoMessage \in Threads
    BY <1>0 DEF Attempts, Threads
  <2>2. /\ \E kind \in Kinds, parent \in Threads : Send(m, kind, parent)
        /\ UNCHANGED <<queued, posts>>
    BY <1>10, <1>s, <2>1 DEF CreateForward, CreateReply
  <2>3. att'[m].pc \in Kinds /\ \A n \in Messages \ {m} : att'[n] = att[n]
    BY <1>0, <2>2, Sending
  <2> QED
    BY <1>m, <2>2, <2>3 DEF Kinds, Threaded
<1>11. ASSUME NEW m \in Messages, ForwardCreated(m) PROVE PolicyIInv'
  <2>1. UNCHANGED <<queued, posts>> /\ att[m].pc = "forward"
    BY <1>11 DEF ForwardCreated, At, world
  <2>2. PICK p \in Landed : p.id = att[m].request /\ ReplyUnder(m, p)
    BY <1>11 DEF ForwardCreated
  <2>3. p.of = m
    BY <1>0, <2>1, <2>2 DEF AttemptSound, PostsNamed
  <2> QED
    BY <1>u, <2>1, <2>2, <2>3
<1>12. ASSUME NEW m \in Messages, Expire(m) PROVE PolicyIInv'
  BY <1>12, <1>m, <1>k, <1>0 DEF Expire, world, Landed
<1>13. ASSUME NEW p \in inflight, Land(p) \/ Lose(p) PROVE PolicyIInv'
  <2>1. UNCHANGED <<queued, att>> /\ Landed \subseteq Landed' /\ Landed' \subseteq Sent
    BY <1>0, <1>13, Landing DEF Land, Lose, Landed, Sent
  <2>2. \A n \in Messages : att'[n].pc \in Threaded => PolicyOfMirror(n)'
    BY <1>k, <2>1
  <2> QED
    BY <1>t, <2>1, <2>2 DEF PolicyIInv
<1>14. CASE Crash
  <2>1. UNCHANGED <<queued, posts>> /\ \A n \in Messages : att'[n].pc = "idle"
    BY <1>14, NoAttemptType DEF Crash, world
  <2> QED
    BY <1>t, <2>1 DEF PolicyIInv, Threaded, Landed
<1>15. CASE UNCHANGED vars
  <2>1. UNCHANGED <<queued, att, posts>>
    BY <1>15 DEF vars, world
  <2>2. \A n \in Messages : att'[n].pc \in Threaded => PolicyOfMirror(n)'
    BY <1>0, <1>k, <2>1 DEF Landed
  <2> QED
    BY <1>t, <2>1, <2>2 DEF PolicyIInv, Landed
<1> QED
  BY <1>1, <1>2, <1>3, <1>4, <1>5, <1>6, <1>7, <1>8, <1>9, <1>10, <1>11, <1>12, <1>13, <1>14, <1>15
  DEF Next, AttemptStep, FaultStep, Settle

(***************************************************************************)
(* Where no output room has a policy of its own (but a read-only room), a   *)
(* message of a read-only room is answered under its own thread's mirror,   *)
(* and a follow-up under a mirror runs under the policy of the room the     *)
(* mirrored message came from, though several policies share an output.     *)
(***************************************************************************)
THEOREM AnswersStayWithTheirSource == OutputRoomsApart /\ Spec => []AnsweredForOwnSource
<1>1. CASE OutputRoomsApart
  <2>1. NoRelay
    BY <1>1 DEF OutputRoomsApart, NoRelay
  <2>2. BaseIInv /\ PlaceIInv /\ PolicyIInv /\ [Next]_vars => PolicyIInv'
    BY <1>1, NextPolicy
  <2>3. BaseIInv /\ PlaceIInv /\ PolicyIInv => AnsweredForOwnSource
    <3>1. PolicyIInv => FollowupUnderOwnPolicy
      BY DEF PolicyIInv, FollowupUnderOwnPolicy, PolicyOfMirror, At, Threaded
    <3> QED
      BY <3>1, MirrorIsOwn DEF AnsweredForOwnSource
  <2>4. Spec => [](BaseIInv /\ PlaceIInv)
    BY <2>1, PlaceInvariant
  <2> QED
    BY <2>2, <2>3, <2>4, InitPolicy, PTL DEF Spec
<1> QED
  BY <1>1
=============================================================================
