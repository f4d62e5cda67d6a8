-------------------------- MODULE MCJenkinsPrefetch --------------------------
(***************************************************************************)
(* Instances of JenkinsPrefetch for TLC.                                   *)
(***************************************************************************)
EXTENDS JenkinsPrefetch, TLC

Symmetry == Permutations(Attempts) \cup Permutations(Pids)
=============================================================================
