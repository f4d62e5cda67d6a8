---------------------------- MODULE MCIsolatedRun ----------------------------
(***************************************************************************)
(* Instances of IsolatedRun for TLC.                                       *)
(***************************************************************************)
EXTENDS IsolatedRun

Entry(name, kind, links, bytes) ==
  [name |-> name, kind |-> kind, links |-> links, depth |-> Len(name) - 1, bytes |-> bytes,
   body |-> 0, access |-> "evidence"]

\* Nothing; exactly at the limits (a directory counts as an entry, its size does not);
\* each way not to be copied; one byte and one entry over the limits.
MCEvidences ==
  {{},
   {Entry(<<"log">>, "dir", 2, 1), Entry(<<"log", "a">>, "file", 1, 2)},
   {Entry(<<"log">>, "dir", 2, 1)},
   {Entry(<<"a">>, "symlink", 1, 1), Entry(<<"b">>, "file", 2, 1)},
   {Entry(<<"log">>, "dir", 2, 1), Entry(<<"log", "AGENTS.md">>, "file", 1, 1)},
   {Entry(<<"a">>, "file", 1, 2), Entry(<<"b">>, "file", 1, 1)},
   {Entry(<<"a">>, "file", 1, 0), Entry(<<"b">>, "file", 1, 0), Entry(<<"c">>, "file", 1, 0)}}

MCPaths == {<<"log">>, <<"log", "a">>, <<"log", "AGENTS.md">>, <<"a">>, <<"b">>, <<"c">>}

\* A host in order, and one for each thing that is not.
MCHosts == {HostParts} \cup {HostParts \ {part} : part \in HostParts}

MCSettings ==
  {[isolated |-> TRUE,  valid |-> TRUE,  policy |-> TRUE],
   [isolated |-> TRUE,  valid |-> TRUE,  policy |-> FALSE],
   [isolated |-> TRUE,  valid |-> FALSE, policy |-> FALSE],
   [isolated |-> FALSE, valid |-> TRUE,  policy |-> TRUE]}
=============================================================================
