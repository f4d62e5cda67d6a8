------------------------------ MODULE JobInbox ------------------------------
(***************************************************************************)
(* What the message-job spool promises to the HTTP handler and to the       *)
(* scheduler: a bounded inbox that delivers at least once.                  *)
(*                                                                          *)
(* A job that was accepted (the sidecar got its 202) stays pending until it *)
(* is completed.  A restart may lose a job that was never accepted, and may *)
(* bring a completed one back; it never loses an accepted one.              *)
(***************************************************************************)
EXTENDS Naturals, FiniteSets

CONSTANTS
    Messages,  \* message IDs
    Limit      \* jobs that may be pending at one time

VARIABLES
    pending,   \* jobs the inbox holds
    accepted   \* jobs acknowledged to the sender and not yet completed

inboxVars == <<pending, accepted>>

Init == pending = {} /\ accepted = {}

\* The job becomes visible; its sender does not know yet.
Publish(m) ==
    /\ m \notin pending
    /\ Cardinality(pending) < Limit
    /\ pending' = pending \cup {m}
    /\ UNCHANGED accepted

Accept(m) ==
    /\ m \in pending
    /\ accepted' = accepted \cup {m}
    /\ UNCHANGED pending

Complete(m) ==
    /\ m \in pending
    /\ pending' = pending \ {m}
    /\ accepted' = accepted \ {m}

Restart ==
    /\ pending' \in SUBSET Messages
    /\ Cardinality(pending') <= Limit
    /\ accepted \subseteq pending'
    /\ UNCHANGED accepted

Next ==
    \/ \E m \in Messages : Publish(m) \/ Accept(m) \/ Complete(m)
    \/ Restart

Spec == Init /\ [][Next]_inboxVars

\* Every accepted job is pending.
AcceptedPending == accepted \subseteq pending
=============================================================================
