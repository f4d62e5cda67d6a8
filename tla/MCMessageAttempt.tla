-------------------------- MODULE MCMessageAttempt --------------------------
(* Small instances of MessageAttempt for TLC: the rooms, policies and       *)
(* messages of two bot configurations.                                    *)
EXTENDS MessageAttempt, TLC

CONSTANTS m1, m2, f1, g2, b1, r1, pull, status, late,
          source1, source2, output, chained, plain, admin, archive

Policy(room, out, readOnly, followup) ==
    [room |-> room, out |-> out, readOnly |-> readOnly, followup |-> followup]

Message(room, parent, command) ==
    [room |-> room, parent |-> parent, self |-> FALSE, addressed |-> TRUE,
     candidate |-> TRUE, command |-> command]

AllMessages ==
    (m1     :> Message(source1, NoMessage, "none")) @@
    (f1     :> Message(source1, m1, "none")) @@
    (m2     :> Message(source2, NoMessage, "none")) @@
    (g2     :> Message(output, <<"forward", m2, 1>>, "none")) @@
    (late   :> Message(output, <<"forward", m1, 1>>, "none")) @@
    (b1     :> Message(chained, NoMessage, "none")) @@
    (r1     :> Message(plain, NoMessage, "none")) @@
    (pull   :> Message(admin, NoMessage, "pull")) @@
    (status :> Message(admin, NoMessage, "status"))

MCAbout == [m \in Messages |-> AllMessages[m]]

\* Two sources that share an output room, an ordinary room, and a room whose
\* output room is a read-only source.
SharedPolicies ==
    <<Policy(source1, output, TRUE, TRUE), Policy(source2, output, TRUE, TRUE),
      Policy(chained, source1, FALSE, FALSE), Policy(plain, NoRoom, FALSE, TRUE)>>

\* The output room has a policy, with an output room of its own.
RelayPolicies ==
    <<Policy(source1, output, TRUE, TRUE), Policy(output, archive, FALSE, FALSE)>>
=============================================================================
