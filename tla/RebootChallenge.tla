--------------------------- MODULE RebootChallenge ---------------------------
(***************************************************************************)
(* The reboot challenge (activation_canary.rs): a record in /var/lib with  *)
(* the boot it was written in, bound to the artifacts, and a marker in     *)
(* /run that a reboot removes.  The first renewal writes it and fails; one *)
(* after a reboot finds the marker gone and marks the boot as validated.   *)
(***************************************************************************)
EXTENDS Activation

\* A marker's nonce is fresh: the boot and the number of challenges written so far.
FreshNonce == <<boot, Cardinality(armed), Cardinality(markers)>>

\* Classification of the challenge for a candidate.
ChallengeState(c) ==
  IF challenge = None THEN "absent"
  ELSE IF challenge.files # c.files THEN "mismatch"
  ELSE IF challenge.boot # boot THEN "crossed"
  ELSE IF challenge.validated THEN "validated" ELSE "pending"

validate_reboot_marker == challenge.marker \in markers

\* Mutant: a challenge written in this boot counts as crossed by a restart.
ChallengePassedMutant(c) ==
  ChallengeState(c) \in {"validated", "pending"} /\ validate_reboot_marker

ChallengePassed(c) == ChallengeState(c) = "validated" /\ validate_reboot_marker

\* A challenge is to be written: by an apply or a renewal that finds none, and by a
\* renewal that finds one from an earlier boot whose marker is gone.
ChallengeDue(p) ==
  \/ ChallengeState(proc[p].cand) = "absent"
  \/ ChallengeState(proc[p].cand) = "crossed" /\ proc[p].cmd # "prepare" /\ challenge.marker \notin markers

\* Mutant: the marker is created only after the challenge has been written.
CreateMarkerMutant(p) == markers' = markers

CreateMarker(p) == markers' = markers \cup {FreshNonce}

\* The challenge is read; a marker is created first when one is to be written.
\* A dry run only reports, an apply that finds its own challenge repeats its answer.
VerifyChallenge(p) ==
  /\ proc[p].pc = "challenge"
  /\ \/ /\ ChallengeDue(p) /\ proc[p].cmd # "dry_run"
        /\ CreateMarker(p)
        /\ proc' = [proc EXCEPT ![p].pc = "marked", ![p].rec = [marker |-> FreshNonce, validated |-> challenge # None]]
     \/ /\ ~ChallengeDue(p) \/ proc[p].cmd = "dry_run"
        /\ IF proc[p].cmd \in {"ensure", "renew"} /\ ChallengePassed(proc[p].cand)
             THEN Goto(p, "runtime") ELSE Fail(p)
        /\ UNCHANGED markers
  /\ UNCHANGED <<boot, files, receipt, challenge, lock, faults, tested, armed, exposed, unmarked>>

NewChallenge(p) == [boot |-> boot, files |-> proc[p].cand.files, marker |-> proc[p].rec.marker,
                    validated |-> proc[p].rec.validated]

\* write_new_reboot_challenge: the record replaces the old one atomically; when that
\* fails the marker is removed again, also when the failure came after the rename.
\* A first challenge fails the renewal.
WriteChallenge(p) ==
  /\ proc[p].pc = "marked"
  /\ \/ /\ challenge' = NewChallenge(p)
        /\ armed' = armed \cup {proc[p].cand}
        /\ IF proc[p].rec.validated THEN Pass(p, "runtime") ELSE Fail(p)
        /\ NoFault /\ UNCHANGED <<markers, unmarked>>
     \/ /\ Fault /\ markers' = markers \ {proc[p].rec.marker} /\ Fail(p)
        /\ \/ UNCHANGED <<challenge, armed, unmarked>>
           \/ /\ challenge' = NewChallenge(p) /\ armed' = armed \cup {proc[p].cand}
              /\ unmarked' = TRUE
  /\ UNCHANGED <<boot, files, receipt, lock, tested, exposed>>

RebootChallengeNext(p) == VerifyChallenge(p) \/ WriteChallenge(p)
=============================================================================
