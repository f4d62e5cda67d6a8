--------------------------- MODULE MCMessageJobs ---------------------------
(* Small instances of MessageJobs for TLC. *)
EXTENDS MessageJobs, TLC

CONSTANTS m1, m2

MessageSymmetry == Permutations(Messages)
=============================================================================
