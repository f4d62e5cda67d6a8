--------------------------- MODULE JenkinsPrefetch ---------------------------
(***************************************************************************)
(* The Jenkins evidence of an attempt (src/main.rs): a private directory    *)
(* for each attempt under the root of the bot process, filled by a helper   *)
(* for one URL after the other, read by Codex, quoted in the reply and      *)
(* removed.  Attempts run concurrently; the first thing each of them does   *)
(* is to prune what earlier attempts and earlier processes have left.       *)
(*                                                                          *)
(* The directory of an attempt is named after the pid, the time and a       *)
(* counter, so it stands for the attempt itself.  A failing call ends its   *)
(* attempt, and attempts are finitely many: faults need no bound.           *)
(***************************************************************************)
EXTENDS Naturals, FiniteSets, Sequences

CONSTANTS
  Attempts,    \* bound: the attempts that have URLs to fetch
  Pids,        \* bound: process ids
  Consoles,    \* console URLs a log index may name
  Slots,       \* attempts at a time: the worker permits of the scheduler
  Retention,   \* JENKINS_ARTIFACT_RETENTION_LIMIT
  MaxUrls,     \* jenkins_context.max_urls
  MaxCrashes,  \* bound: deaths of the bot
  Nobody, NoPid

ASSUME PrefetchAssumption ==
  /\ IsFiniteSet(Attempts) /\ IsFiniteSet(Pids)
  /\ Slots \in Nat \ {0} /\ Retention \in Nat /\ MaxUrls \in Nat \ {0} /\ MaxCrashes \in Nat
  /\ Nobody \notin Attempts /\ NoPid \notin Pids

VARIABLES
  pid,      \* the pid of the bot process
  others,   \* pids of other processes on the host
  roots,    \* pids p with a directory process-<p>
  dir,      \* attempt -> the process root its directory is in, or NoPid
  active,   \* ACTIVE_JENKINS_ARTIFACT_DIRS
  lock,     \* the holder of JENKINS_ARTIFACT_SETUP_LOCK
  unseen,   \* the process roots the holder has still to look at
  doomed,   \* the directories the holder is about to remove
  dropped,  \* removals spawned by the drop of a cleanup guard
  att,      \* attempt -> [pc, required, urls, logs, evid, quote]
  left,     \* history: directories whose removal failed or was cut short
  crashes

vars == <<pid, others, roots, dir, active, lock, unseen, doomed, dropped, att, left, crashes>>

Indices == 1 .. MaxUrls
\* What the helper leaves for a URL: no usable index, an index without a log, or a log;
\* and a log that was written to since.
Logs     == {"bad", "empty", "log", "altered"}
\* What an excerpt may repeat: a line of the log of one URL, or something in none of them.
Invented == 0
Lines    == Indices \cup {Invented}
NoQuote  == [console |-> Nobody, line |-> Invented]

Fresh(required, urls, pc) ==
  [pc |-> pc, required |-> required, urls |-> urls, logs |-> <<>>,
   evid |-> [c \in Consoles |-> 0], quote |-> NoQuote]
Idle == Fresh(FALSE, 0, "idle")
Done == Fresh(FALSE, 0, "done")

\* The attempt has returned from prepare_jenkins_artifact_root and holds a cleanup
\* guard, or is about to hand its directory from one guard to the next.
Guarded == {"fetch", "helper", "load", "ready", "run", "verify", "clean"}
Running == Guarded \cup {"lock", "prune", "create"}

At(a, pcs)  == att[a].pc \in pcs
Goto(a, pc) == att' = [att EXCEPT ![a].pc = pc]
Finish(a)   == att' = [att EXCEPT ![a] = Done]
Under(p)    == {a \in Attempts : dir[a] = p}

AttemptStates ==
  [pc : {"idle", "done"} \cup Running, required : BOOLEAN, urls : 0 .. MaxUrls,
   logs : Seq(Logs), evid : [Consoles -> 0 .. MaxUrls],
   quote : [console : Consoles \cup {Nobody}, line : Lines]]

TypeOK ==
  /\ pid \in Pids /\ others \subseteq Pids \ {pid} /\ roots \subseteq Pids
  /\ dir \in [Attempts -> Pids \cup {NoPid}]
  /\ active \subseteq Attempts /\ lock \in Attempts \cup {Nobody}
  /\ unseen \subseteq Pids /\ doomed \subseteq Attempts
  /\ dropped \subseteq Attempts /\ left \subseteq Attempts /\ crashes \in 0 .. MaxCrashes
  /\ att \in [Attempts -> AttemptStates]
  /\ \A a \in Attempts : Len(att[a].logs) <= MaxUrls

Init ==
  /\ pid \in Pids /\ others = {} /\ roots = {}
  /\ dir = [a \in Attempts |-> NoPid]
  /\ active = {} /\ lock = Nobody /\ unseen = {} /\ doomed = {} /\ dropped = {}
  /\ att = [a \in Attempts |-> Idle]
  /\ left = {} /\ crashes = 0

hostVars  == <<pid, others, crashes>>
diskVars  == <<roots, dir, left>>
setupVars == <<lock, unseen, doomed>>

-----------------------------------------------------------------------------
\* prepare_jenkins_artifact_root, under the setup lock.

\* An attempt of a policy with an enabled jenkins_context whose message has URLs.
\* required: its reply format is one of the Jenkins formats.
Begin(a) ==
  /\ At(a, {"idle"}) /\ Cardinality({b \in Attempts : At(b, Running)}) < Slots
  /\ \E required \in BOOLEAN, urls \in Indices :
       att' = [att EXCEPT ![a] = Fresh(required, urls, "lock")]
  /\ UNCHANGED hostVars /\ UNCHANGED diskVars /\ UNCHANGED setupVars
  /\ UNCHANGED <<active, dropped>>

\* The process root is made, and the process roots are listed.
EnsureBaseRoot(a) ==
  /\ At(a, {"lock"}) /\ lock = Nobody
  /\ lock' = a /\ roots' = roots \cup {pid} /\ unseen' = roots' /\ doomed' = {}
  /\ Goto(a, "prune")
  /\ UNCHANGED hostVars /\ UNCHANGED <<dir, left, active, dropped>>

ProcessMayBeRunning(p) == p = pid \/ p \in others

Excess(free) == IF Cardinality(free) > Retention THEN Cardinality(free) - Retention ELSE 0

\* Mutant: a directory in use counts like any other.
PrunableSetsMutant ==
  LET free == Under(pid)
  IN  {d \in SUBSET free : Cardinality(d) = Excess(free)}

\* prune_jenkins_artifact_dirs_in: all but the newest directories that nobody has
\* registered.  Which ones are newest depends on their times of modification.
PrunableSets ==
  LET free == Under(pid) \ active
  IN  {d \in SUBSET free : Cardinality(d) = Excess(free)}

\* The current process root is pruned, the root of a dead process removed whole, and
\* that of a pid in use left alone.
PruneRoot(a, p) ==
  /\ At(a, {"prune"}) /\ doomed = {} /\ p \in unseen
  /\ unseen' = unseen \ {p}
  /\ \/ /\ p = pid /\ doomed' \in PrunableSets
        /\ UNCHANGED <<roots, dir>>
     \/ /\ ~ProcessMayBeRunning(p)
        /\ roots' = roots \ {p}
        /\ dir' = [b \in Attempts |-> IF dir[b] = p THEN NoPid ELSE dir[b]]
        /\ UNCHANGED doomed
     \/ /\ p # pid /\ ProcessMayBeRunning(p)
        /\ UNCHANGED <<roots, dir, doomed>>
  /\ UNCHANGED hostVars /\ UNCHANGED <<left, active, lock, dropped, att>>

\* A directory that is no longer there is passed over.
PruneDir(a, b) ==
  /\ At(a, {"prune"}) /\ b \in doomed
  /\ doomed' = doomed \ {b} /\ dir' = [dir EXCEPT ![b] = NoPid]
  /\ UNCHANGED hostVars /\ UNCHANGED <<roots, left, active, lock, unseen, dropped, att>>

PruneDone(a) ==
  /\ At(a, {"prune"}) /\ doomed = {} /\ unseen = {}
  /\ Goto(a, "create")
  /\ UNCHANGED hostVars /\ UNCHANGED diskVars /\ UNCHANGED setupVars
  /\ UNCHANGED <<active, dropped>>

Release == lock' = Nobody /\ unseen' = {} /\ doomed' = {}

\* Mutant: an error of the pruning is only logged.
SetupFailsMutant(a) ==
  /\ At(a, {"prune"})
  /\ Goto(a, "create")
  /\ UNCHANGED hostVars /\ UNCHANGED diskVars /\ UNCHANGED setupVars
  /\ UNCHANGED <<active, dropped>>

\* A call fails before the directory is registered: the attempt goes on without evidence.
SetupFails(a) ==
  /\ At(a, {"prune"}) \/ (At(a, {"lock"}) /\ lock = Nobody)
  /\ Release /\ Finish(a)
  /\ UNCHANGED hostVars /\ UNCHANGED diskVars /\ UNCHANGED <<active, dropped>>

\* The guard registers the directory, and the directory is made.
CreateAttemptRoot(a) ==
  /\ At(a, {"create"})
  /\ active' = active \cup {a} /\ dir' = [dir EXCEPT ![a] = pid]
  /\ Release /\ Goto(a, "fetch")
  /\ UNCHANGED hostVars /\ UNCHANGED <<roots, left, dropped>>

\* It cannot be made, or not where it should be: the guard is dropped, which
\* unregisters the directory and spawns its removal.
CreateFails(a) ==
  /\ At(a, {"create"})
  /\ \E made \in BOOLEAN : dir' = IF made THEN [dir EXCEPT ![a] = pid] ELSE dir
  /\ dropped' = dropped \cup {a}
  /\ Release /\ Finish(a)
  /\ UNCHANGED hostVars /\ UNCHANGED <<roots, left, active>>

-----------------------------------------------------------------------------
\* jenkins_context_prompt: for each URL a directory, a run of the helper and, where
\* the reply format needs it, the evidence.

AttemptOnly == UNCHANGED hostVars /\ UNCHANGED diskVars /\ UNCHANGED setupVars
               /\ UNCHANGED <<active, dropped>>

\* reset_jenkins_artifact_dir, and the helper is spawned.
StartHelper(a) == At(a, {"fetch"}) /\ Goto(a, "helper") /\ AttemptOnly

\* The helper ends before the deadline and its pipes close, whatever its exit status.
\* What it has left matters only where load_jenkins_log_evidence will look at it.
HelperEnds(a) ==
  /\ At(a, {"helper"})
  /\ \E log \in IF att[a].required THEN Logs \ {"altered"} ELSE {"log"} :
       att' = [att EXCEPT ![a].logs = Append(@, log), ![a].pc = "load"]
  /\ AttemptOnly

\* load_jenkins_log_evidence: the console URL of a log that is there and not empty; of
\* two logs for one console URL the first is kept.  The digest is that of the log now.
Loaded(e, c, i) == IF e[c] = 0 THEN [e EXCEPT ![c] = i] ELSE e
LoadEvidence(a) ==
  LET i == Len(att[a].logs)
      next == IF i < att[a].urls THEN "fetch" ELSE "ready"
  IN  /\ At(a, {"load"})
      /\ att[a].required => att[a].logs[i] # "bad"
      /\ \E c \in Consoles :
           att' = [att EXCEPT ![a].pc = next,
                     ![a].evid = IF att[a].required /\ att[a].logs[i] = "log"
                                 THEN Loaded(@, c, i) ELSE @]
      /\ AttemptOnly

\* The guard cleans up, and the attempt goes on without evidence.
GiveUp(a) == att' = [att EXCEPT ![a] = Fresh(@.required, 0, "clean")] /\ AttemptOnly

\* The helper is killed with its process group, or its pipes do not close in time.
HelperTimesOut(a) == At(a, {"helper"}) /\ GiveUp(a)

\* A directory cannot be reset, the helper cannot be started, or the index or a log is
\* not usable.
PrefetchFails(a) == At(a, {"fetch", "load"}) /\ GiveUp(a)

\* into_artifact_root and the guard of run_codex_reply: the directory stays registered
\* in between.  A Jenkins reply format without a console URL is answered without Codex.
HandOver(a) ==
  /\ At(a, {"ready"})
  /\ active' = active \cup {a}
  /\ Goto(a, IF att[a].required /\ \A c \in Consoles : att[a].evid[c] = 0
             THEN "clean" ELSE "run")
  /\ UNCHANGED hostVars /\ UNCHANGED diskVars /\ UNCHANGED setupVars
  /\ UNCHANGED dropped

-----------------------------------------------------------------------------
\* run_codex_reply: Codex with the directory as its workspace, then the excerpt.

\* Codex under the bot's own user may write to its workspace.  Of interest are the logs
\* that are evidence: the others are not read again.
CodexWrites(a, i) ==
  /\ At(a, {"run"}) /\ \E c \in Consoles : att[a].evid[c] = i
  /\ att' = [att EXCEPT ![a].logs[i] = "altered"]
  /\ AttemptOnly

\* The answer, with the excerpt it claims to have found in the log of a console URL.
CodexAnswers(a) ==
  /\ At(a, {"run"})
  /\ \E c \in Consoles, line \in Lines :
       att' = [att EXCEPT ![a].pc = "verify", ![a].quote = [console |-> c, line |-> line]]
  /\ AttemptOnly

\* No answer: the run failed.
CodexFails(a) ==
  /\ At(a, {"run"})
  /\ Goto(a, "clean")
  /\ AttemptOnly

HasLine(i, log, line) == IF log = "altered" THEN TRUE ELSE log = "log" /\ line = i

\* Mutant: the log is taken as it is now.
VerifiedMutant(a) ==
  LET q == att[a].quote
      i == IF q.console \in Consoles THEN att[a].evid[q.console] ELSE 0
  IN  att[a].required /\ i # 0 /\ HasLine(i, att[a].logs[i], q.line)

\* verified_jenkins_excerpt: the log is read again and must have the digest it had when
\* it was fetched.
Verified(a) ==
  LET q == att[a].quote
      i == IF q.console \in Consoles THEN att[a].evid[q.console] ELSE 0
  IN  /\ att[a].required /\ i # 0
      /\ att[a].logs[i] # "altered" /\ HasLine(i, att[a].logs[i], q.line)

WithoutQuote(a) == att' = [att EXCEPT ![a].pc = "clean", ![a].quote = NoQuote]

\* The reply has the excerpt only if it was verified.
VerifyExcerpt(a) ==
  /\ At(a, {"verify"})
  /\ IF Verified(a) THEN Goto(a, "clean") ELSE WithoutQuote(a)
  /\ AttemptOnly

\* The log cannot be opened or read in time.
ReadFails(a) == At(a, {"verify"}) /\ WithoutQuote(a) /\ AttemptOnly

\* Mutant: a directory that cannot be removed stays registered.
CleanMutant(a) ==
  /\ At(a, {"clean"})
  /\ \/ dir' = [dir EXCEPT ![a] = NoPid] /\ active' = active \ {a} /\ UNCHANGED left
     \/ left' = left \cup {a} /\ UNCHANGED <<dir, active>>
  /\ Finish(a)
  /\ UNCHANGED hostVars /\ UNCHANGED setupVars /\ UNCHANGED <<roots, dropped>>

\* cleanup: the directory is removed, then unregistered, whether it could be removed or not.
Clean(a) ==
  /\ At(a, {"clean"})
  /\ \/ dir' = [dir EXCEPT ![a] = NoPid] /\ UNCHANGED left
     \/ left' = left \cup {a} /\ UNCHANGED dir
  /\ active' = active \ {a}
  /\ Finish(a)
  /\ UNCHANGED hostVars /\ UNCHANGED setupVars /\ UNCHANGED <<roots, dropped>>

\* The attempt panics while it holds a guard.
Panic(a) ==
  /\ At(a, {"fetch", "helper", "load", "run", "verify"})
  /\ active' = active \ {a} /\ dropped' = dropped \cup {a}
  /\ Finish(a)
  /\ UNCHANGED hostVars /\ UNCHANGED diskVars /\ UNCHANGED setupVars

\* The removal that a dropped guard has spawned.
DropRemoves(a) ==
  /\ a \in dropped /\ dropped' = dropped \ {a}
  /\ \/ dir' = [dir EXCEPT ![a] = NoPid] /\ UNCHANGED left
     \/ left' = left \cup {a} /\ UNCHANGED dir
  /\ UNCHANGED hostVars /\ UNCHANGED setupVars /\ UNCHANGED <<roots, active, att>>

-----------------------------------------------------------------------------
\* The process dies, with its helpers, and is started again under any free pid.
Crash ==
  /\ crashes < MaxCrashes /\ crashes' = crashes + 1
  /\ pid' \in Pids \ others
  /\ active' = {} /\ dropped' = {} /\ Release
  /\ left' = left \cup {a \in Attempts : dir[a] # NoPid}
  /\ att' = [a \in Attempts |-> IF At(a, Running) THEN Done ELSE att[a]]
  /\ UNCHANGED <<others, roots, dir>>

\* Another process starts under a pid that is free, or ends.
OtherProcess(p) ==
  /\ p # pid
  /\ others' = IF p \in others THEN others \ {p} ELSE others \cup {p}
  /\ UNCHANGED <<pid, crashes, active, dropped, att>>
  /\ UNCHANGED diskVars /\ UNCHANGED setupVars

Step(a) ==
  \/ Begin(a) \/ EnsureBaseRoot(a) \/ PruneDone(a) \/ SetupFails(a)
  \/ \E p \in Pids : PruneRoot(a, p)
  \/ \E b \in Attempts : PruneDir(a, b)
  \/ CreateAttemptRoot(a) \/ CreateFails(a)
  \/ StartHelper(a) \/ HelperEnds(a) \/ LoadEvidence(a) \/ HandOver(a)
  \/ HelperTimesOut(a) \/ PrefetchFails(a)
  \/ \E i \in Indices : CodexWrites(a, i)
  \/ CodexAnswers(a) \/ CodexFails(a) \/ VerifyExcerpt(a) \/ ReadFails(a) \/ Clean(a)
  \/ Panic(a) \/ DropRemoves(a)

Next == (\E a \in Attempts : Step(a)) \/ Crash \/ (\E p \in Pids : OtherProcess(p))

Spec == Init /\ [][Next]_vars

-----------------------------------------------------------------------------
\* An attempt keeps its directory from its creation until its own clean-up: the pruning
\* of another attempt, or of an earlier process under the same pid, does not take it.
EvidenceKept == \A a \in Attempts : At(a, Guarded) => dir[a] = pid

\* No process root holds more than the retained directories and those of the attempts
\* under way, though removals fail, guards are dropped and processes die: an attempt
\* makes a directory only after it has pruned.
RootBounded == \A p \in Pids : Cardinality(Under(p)) <= Retention + Slots

\* An excerpt in a reply is a line of a log that the helper fetched in this attempt for
\* that console URL, whatever Codex claims and whatever has become of the log since.
QuotedFromFetched ==
  \A a \in Attempts : At(a, {"clean"}) /\ att[a].quote # NoQuote =>
    /\ att[a].required /\ att[a].quote.line # Invented
    /\ att[a].quote.line = att[a].evid[att[a].quote.console]

\* Exactly the directories of attempts with a guard are registered, and the directory
\* of an attempt that has ended is gone, unless its removal is on its way, has failed
\* or was cut short: an entry that stayed would be exempt from pruning for ever.
DirectoriesAccounted ==
  /\ active = {a \in Attempts : At(a, Guarded)}
  /\ \A a \in Attempts : At(a, {"done"}) /\ dir[a] # NoPid => a \in dropped \cup left

\* The state of the directories.
PrefetchInv == TypeOK /\ DirectoriesAccounted
=============================================================================
