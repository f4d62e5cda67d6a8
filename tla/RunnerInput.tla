----------------------------- MODULE RunnerInput -----------------------------
(***************************************************************************)
(* The bot's side of the workspace (runner_input.rs): a fresh directory    *)
(* under the pending root, the evidence copied into it entry by entry, its *)
(* publication to the launcher, and its removal after the attempt unless   *)
(* the launcher has taken it away.                                         *)
(***************************************************************************)
EXTENDS RunState

\* The attempt is over, with its answer or with an error.
EndAttempt(ok) ==
  /\ bot' = IdleBot
  /\ outcome' = [outcome EXCEPT ![run] = IF ok THEN "ok" ELSE "error"]

Continue(b) == bot' = b /\ UNCHANGED outcome

StagingUnchanged == UNCHANGED <<settings, host, evidence, run, child, loose>>
                    /\ UNCHANGED launcherVars /\ UNCHANGED socketVars
                    /\ UNCHANGED <<unit, sysrun>>

\* create_run_directory: a name no earlier run used, mode 2700.  The identifier
\* is drawn from 240 random bits and a name that exists is drawn again.
CreateRunDirectory(r) ==
  source' = [source EXCEPT ![r] = [at |-> "pending", mode |-> "private", ents |-> {}]]

\* stage_workspace_at up to the copy.  The roots and the groups are checked and
\* the evidence root is opened before the directory exists: an error there
\* leaves nothing behind.
StageBegin ==
  /\ bot.pc = "stage"
  /\ \/ /\ CreateRunDirectory(run)
        /\ Continue([bot EXCEPT !.pc = "copy", !.listed = Listing(evidence, <<>>), !.todo = Listing(evidence, <<>>)])
        /\ NoFault
     \/ /\ Fault
        /\ EndAttempt(FALSE)
        /\ UNCHANGED source
  /\ StagingUnchanged /\ UNCHANGED left

\* What opening entry x adds to the names to be copied.
Inside(x) == IF x.kind = "dir" THEN Listing(evidence, x.name) ELSE {}

\* copy_directory and the first half of copy_file: the next name of a listing is
\* looked up as it is now, checked, counted against the limits and opened; a
\* directory is listed when it is opened.
StageOpen ==
  /\ bot.pc = "copy" /\ bot.held = None
  /\ \E e \in bot.todo, x \in evidence :
       /\ FirstIn(bot.todo, e) /\ x.name = e.name
       /\ IF StageableEntry(x) /\ WithinLimits(source[run].ents \cup {x})
          THEN Continue([bot EXCEPT !.held = x, !.todo = (@ \ {e}) \cup Inside(x), !.listed = @ \cup Inside(x)])
          ELSE Continue([bot EXCEPT !.pc = "abort"])
  /\ NoFault /\ StagingUnchanged /\ UNCHANGED <<source, left>>

\* copy_exact_with_digest: what is read is one version, unless the file is
\* written while it is read.
StageCopy ==
  /\ bot.pc = "copy" /\ bot.held # None
  /\ source' = [source EXCEPT ![run].ents =
                  @ \cup {StagedEntry(bot.held, IF bot.held \in evidence THEN bot.held.body ELSE Torn)}]
  /\ Continue([bot EXCEPT !.pc = "verify"])
  /\ NoFault /\ StagingUnchanged /\ UNCHANGED left

StageVerifyMutant ==
  /\ bot.pc = "verify"
  /\ Continue([bot EXCEPT !.pc = "copy", !.held = None])
  /\ NoFault /\ StagingUnchanged /\ UNCHANGED <<source, left>>

\* The second half of copy_file: the source is hashed again, and its metadata
\* and those of its name must be what they were when it was opened.
StageVerify ==
  /\ bot.pc = "verify"
  /\ Continue(IF bot.held \in evidence
              THEN [bot EXCEPT !.pc = "copy", !.held = None]
              ELSE [bot EXCEPT !.pc = "abort"])
  /\ NoFault /\ StagingUnchanged /\ UNCHANGED <<source, left>>

\* The end of stage_workspace_at: every directory was looked at again when all it
\* holds was copied, and must be as it was when it was listed.  The root is the last;
\* a change deeper down is found unless it was made after the look.  The copy gets
\* mode 2770 and is now the launcher's to take.
StagePublish ==
  /\ bot.pc = "copy" /\ bot.held = None /\ bot.todo = {}
  /\ \/ /\ Names(Listing(evidence, <<>>)) = Names(Listing(bot.listed, <<>>))
        /\ source' = [source EXCEPT ![run].mode = "source"]
        /\ Continue([bot EXCEPT !.pc = "call"])
     \/ /\ Names(evidence) # Names(bot.listed)
        /\ Continue([bot EXCEPT !.pc = "abort"])
        /\ UNCHANGED source
  /\ NoFault /\ StagingUnchanged /\ UNCHANGED left

\* A read, write or sync fails, or the work budget of the staging runs out.
StageFail ==
  /\ bot.pc \in {"copy", "verify"}
  /\ Fault
  /\ Continue([bot EXCEPT !.pc = "abort"])
  /\ StagingUnchanged /\ UNCHANGED <<source, left>>

\* A failed staging removes its partial directory; the launcher was never told of
\* it, so nobody else is in it.
StageAbort ==
  /\ bot.pc = "abort"
  /\ \/ source' = [source EXCEPT ![run] = NoSource] /\ NoFault /\ UNCHANGED left
     \/ Fault /\ left' = left \cup {run} /\ UNCHANGED source
  /\ EndAttempt(FALSE)
  /\ StagingUnchanged

CleanPendingMutant ==
  /\ bot.pc \in {"clean", "await_execute"}
  /\ IF source[run].at = "pending"
     THEN Continue([bot EXCEPT !.pc = "removing"])
     ELSE EndAttempt(bot.got)
  /\ NoFault /\ StagingUnchanged /\ UNCHANGED <<source, left>>

\* PendingWorkspace::cleanup: nothing to do when the launcher has renamed the
\* directory away; otherwise the held directory is emptied and removed.
CleanPending ==
  /\ bot.pc = "clean"
  /\ IF source[run].at = "pending"
     THEN Continue([bot EXCEPT !.pc = "removing"])
     ELSE EndAttempt(bot.got)
  /\ NoFault /\ StagingUnchanged /\ UNCHANGED <<source, left>>

\* remove_tree_at unlinks through the directory it holds open, so an entry goes
\* even when the launcher has meanwhile renamed the directory; an entry already
\* gone is an error that ends the cleanup.
RemovePendingEntry ==
  /\ bot.pc = "removing" /\ source[run].at # "none"
  /\ \E e \in source[run].ents :
       /\ LastIn(source[run].ents, e)
       /\ source' = [source EXCEPT ![run].ents = @ \ {e}]
  /\ NoFault /\ StagingUnchanged /\ UNCHANGED <<bot, outcome, left>>

\* The directory itself is removed by name, and only from the pending root.
RemovePendingDirectory ==
  /\ bot.pc = "removing"
  /\ source[run].ents = {} \/ source[run].at = "none"
  /\ source' = [source EXCEPT ![run] = IF @.at = "pending" THEN NoSource ELSE @]
  /\ EndAttempt(bot.got /\ source[run].at = "pending")
  /\ NoFault /\ StagingUnchanged /\ UNCHANGED left

\* The removal fails, or its work budget runs out: the rest is left to tmpfiles.
CleanPendingFail ==
  /\ bot.pc = "removing"
  /\ Fault
  /\ left' = left \cup {run}
  /\ EndAttempt(FALSE)
  /\ StagingUnchanged /\ UNCHANGED source

\* Someone else writes a file of the evidence, or adds one to it, while it is copied.
EvidenceWrite ==
  /\ bot.pc \in {"copy", "verify"}
  /\ Fault
  /\ \/ \E e \in evidence : evidence' = (evidence \ {e}) \cup {[e EXCEPT !.body = @ + 1]}
     \/ \E e \in evidence, name \in Paths \ Names(evidence) :
          /\ ParentPath(name) = <<>> \/ \E d \in evidence : d.kind = "dir" /\ d.name = ParentPath(name)
          /\ evidence' = evidence \cup
               {[e EXCEPT !.name = name, !.depth = Len(name) - 1, !.kind = "file", !.links = 1]}
  /\ UNCHANGED botVars /\ UNCHANGED <<source, left>>
  /\ UNCHANGED launcherVars /\ UNCHANGED socketVars /\ UNCHANGED unitVars

RunnerInputNext ==
  \/ StageBegin \/ StageOpen \/ StageCopy \/ StageVerify \/ StagePublish
  \/ StageFail \/ StageAbort
  \/ CleanPending \/ RemovePendingEntry \/ RemovePendingDirectory \/ CleanPendingFail
  \/ EvidenceWrite
=============================================================================
