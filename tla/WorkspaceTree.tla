---------------------------- MODULE WorkspaceTree ----------------------------
(***************************************************************************)
(* The directory tree that carries the evidence of a message to Codex, and *)
(* the checks and copies that three components make of it: the bot stages  *)
(* it (runner_input.rs), the launcher seals it (input_sealer.rs) and       *)
(* verifies it before the run (isolated_execution.rs).                     *)
(*                                                                         *)
(* A tree is a set of entries.  An entry is a record with the fields       *)
(*   name     its path, the sequence of the names that lead to it,         *)
(*   kind     "dir", "file", "symlink" or "special",                       *)
(*   links    the number of its hard links,                                *)
(*   depth    the depth of the directory that holds it (0: the root),      *)
(*   bytes    its size,                                                    *)
(*   body     the version of its contents (Torn: parts of two versions),   *)
(*   access   who owns it and its mode: "evidence" (as prefetched),        *)
(*            "source" (bot, launch group, 2770/640), "private" (root,     *)
(*            input group, 500/400), "group" (root, input group, 550/440). *)
(* Owner, group and mode are always set together, so they are one field.   *)
(* POSIX ACLs are looked for everywhere and set nowhere: finding one is an *)
(* input or output error of the step that looks.                           *)
(***************************************************************************)
EXTENDS Integers, FiniteSets, Sequences

CONSTANTS MaxEntries,   \* WORKSPACE_ENTRY_MAX
          MaxDepth,     \* WORKSPACE_DEPTH_MAX
          MaxBytes,     \* WORKSPACE_TOTAL_BYTES_MAX
          Paths         \* the paths an entry may have, relative to the root

ASSUME LimitsAssumption == {MaxEntries, MaxDepth, MaxBytes} \subseteq Nat
ASSUME PathsAssumption  == \A p \in Paths : Len(p) \in Nat \ {0}

Torn == -1

EntryType(access) ==
  [name : Paths, kind : {"dir", "file", "symlink", "special"}, links : Nat, depth : Nat,
   bytes : Nat, body : {Torn} \cup Nat, access : access]

IsTree(tree, access) == \A e \in tree : e \in EntryType(access)
Names(tree) == {e.name : e \in tree}

\* A tree as it is on disk: every path leads to one entry, which is of one version.
OnDisk(tree) ==
  /\ \A e \in tree : e.body # Torn
  /\ \A e, x \in tree : e.name = x.name => e = x

\* The name of an entry in its directory, and the path of that directory.
BaseName(e)   == e.name[Len(e.name)]
ParentPath(p) == SubSeq(p, 1, Len(p) - 1)

\* What listing the directory at path p shows.
Listing(tree, p) == {e \in tree : ParentPath(e.name) = p}

ForbiddenNames == {".git", ".codex", ".agents", "AGENTS.md", "hooks.json"}

\* A copy visits a directory before what it holds.
FirstIn(tree, e) == e \in tree /\ \A x \in tree : e.depth <= x.depth

\* A removal empties a directory before it removes it.
LastIn(tree, e) == e \in tree /\ \A x \in tree : e.depth >= x.depth

\* The bytes of the files of a tree, each by its file and its place in it.  Only files
\* count: the size of a directory is not looked at.
BytesOf(tree) == UNION {{e} \X (1 .. e.bytes) : e \in {x \in tree : x.kind = "file"}}

TotalBytes(tree) == Cardinality(BytesOf(tree))

\* The three files that look at a tree each keep a list of limits of their own.
RunnerMax == [entries |-> MaxEntries, depth |-> MaxDepth, bytes |-> MaxBytes]

SealerMaxMutant == [entries |-> MaxEntries - 1, depth |-> MaxDepth, bytes |-> MaxBytes]

SealerMax == [entries |-> MaxEntries, depth |-> MaxDepth, bytes |-> MaxBytes]
ExecutionMax == [entries |-> MaxEntries, depth |-> MaxDepth, bytes |-> MaxBytes]

\* An entry nested too deep, and a directory whose own listing would be, are
\* refused; a tree exactly at a limit is accepted.
Within(tree, max) ==
  /\ Cardinality(tree) <= max.entries
  /\ TotalBytes(tree) <= max.bytes
  /\ \A e \in tree : e.depth + (IF e.kind = "dir" THEN 1 ELSE 0) <= max.depth

\* What the staging, and what the sealing copy counts against its limits.
WithinLimits(tree) == Within(tree, RunnerMax)
SealerLimits(tree) == Within(tree, SealerMax)

\* What the staging copy accepts of an evidence entry.
StageableEntry(e) ==
  /\ BaseName(e) \notin ForbiddenNames
  /\ e.kind \in {"dir", "file"}
  /\ e.kind = "file" => e.links = 1

\* The fresh entry the bot creates for evidence entry e.
StagedEntry(e, body) == [e EXCEPT !.access = "source", !.body = body]

\* What the sealing copy accepts of a quarantined entry.
SealableEntry(e) ==
  /\ StageableEntry(e)
  /\ e.access = "source"

\* The fresh inode the sealer creates for quarantined entry e.
SealedEntry(e) == [e EXCEPT !.access = "private"]

\* validate_workspace_tree: every entry a plain file or directory of root with
\* exactly the mode of the given access, the tree within the limits.
WorkspaceTreeValid(tree, access) ==
  /\ Within(tree, ExecutionMax)
  /\ \A e \in tree : /\ e.kind \in {"dir", "file"}
                     /\ e.kind = "file" => e.links = 1
                     /\ e.access = access

\* No control file at the root of the workspace.
ControlFileFree(tree) == \A e \in tree : e.depth = 0 => BaseName(e) \notin ForbiddenNames

\* The entry made readable to the input group.
GrantedEntry(e) == [e EXCEPT !.access = "group"]

GrantGroupRead(tree) == {GrantedEntry(e) : e \in tree}
=============================================================================
