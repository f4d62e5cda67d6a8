--------------------------- MODULE MCRuntimeCanary ---------------------------
(***************************************************************************)
(* Instances of RuntimeCanary for TLC.                                     *)
(***************************************************************************)
EXTENDS RuntimeCanary

Host(l, h, b) == [leaks |-> l, honest |-> h, broken |-> b]

\* Each break; each kind of leak, with a probe that may lie (what it does includes what
\* a sound host and an honest probe do); and a leak that only an honest probe reports.
MCSandboxes ==
  {Host({}, TRUE, {"runtime_max"}), Host({}, TRUE, {"binds_to"}), Host({"inner"}, TRUE, {})}
  \cup {Host(l, FALSE, {}) : l \in {{"host_unix"}, {"protected", "runtime"}}}
=============================================================================
