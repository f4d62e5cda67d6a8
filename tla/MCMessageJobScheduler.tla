----------------------- MODULE MCMessageJobScheduler -----------------------
(* Small instances of MessageJobScheduler for TLC. *)
EXTENDS MessageJobScheduler, TLC

CONSTANTS m1, m2, m3, h1, h2, t1, t2, t3

Symmetric == Permutations(Handlers) \cup Permutations(Tasks) \cup Permutations(Messages)
=============================================================================
