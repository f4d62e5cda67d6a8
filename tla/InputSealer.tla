----------------------------- MODULE InputSealer -----------------------------
(***************************************************************************)
(* The launcher's copy of the workspace into fresh inodes of its own       *)
(* (input_sealer.rs): the pending directory is renamed out of the bot's    *)
(* reach, copied entry by entry into a staging directory, published under  *)
(* the run's name, and the quarantined source removed.  A failure undoes   *)
(* what was done, target first.                                            *)
(***************************************************************************)
EXTENDS RunState

Run(c) == c[1]

At(c, pc) == lch[c].pc = pc
Go(c, p)  == lch' = [lch EXCEPT ![c] = p]
Step(c, pc) == Go(c, [lch[c] EXCEPT !.pc = pc])

\* The launcher's next step when an operation of execute() ends with `result`.
Fails(c, pc, result) == Go(c, [lch[c] EXCEPT !.pc = pc, !.result = result])

\* The work budget (work_budget.rs) of the preparation: a cancelled run stops at
\* the next check, and so does one whose deadline has passed.
BudgetError(c) == IF lch[c].cancelled THEN "cancelled" ELSE "error"

SealerUnchanged == UNCHANGED botVars /\ UNCHANGED socketVars /\ UNCHANGED unitVars
                   /\ UNCHANGED <<evidence, seen>>

\* The roots are directories of root with the expected group and mode, three
\* different ones, and their paths still lead to them.
InputRootsTrusted == "roots" \in host

SealerPreflight == InputRootsTrusted

\* stat and renameat2(RENAME_NOREPLACE) from the pending root to the quarantine.
\* The bot may have removed the directory by then, or be removing what it holds.
SealQuarantine(c) ==
  /\ At(c, "quarantine")
  /\ IF lch[c].cancelled \/ ~InputRootsTrusted \/ source[Run(c)].at # "pending"
     THEN Fails(c, "finish", BudgetError(c)) /\ UNCHANGED source
     ELSE /\ source' = [source EXCEPT ![Run(c)].at = "quarantine"]
          /\ Step(c, "staging")
  /\ NoFault /\ SealerUnchanged /\ UNCHANGED <<sealed, left>>

\* The quarantined directory must be the one that was pending, with the bot as
\* owner and mode 2770; the staging directory is created and the source listed.
SealStage(c) ==
  /\ At(c, "staging")
  /\ LET r == Run(c) IN
     IF lch[c].cancelled \/ source[r].mode # "source"
     THEN Fails(c, "rollback", BudgetError(c)) /\ UNCHANGED sealed
     ELSE /\ sealed' = [sealed EXCEPT ![r] = [at |-> "staging", ents |-> {}]]
          /\ Go(c, [lch[c] EXCEPT !.pc = "seal", !.listed = source[r].ents, !.todo = source[r].ents])
  /\ NoFault /\ SealerUnchanged /\ UNCHANGED <<source, left>>

\* copy_directory and the first half of copy_file: an entry of the listing that
\* has disappeared, or that fails a check, ends the copy.
SealOpen(c) ==
  /\ At(c, "seal") /\ lch[c].held = None
  /\ \E e \in lch[c].todo :
       /\ FirstIn(lch[c].todo, e)
       /\ IF /\ ~lch[c].cancelled
             /\ e \in source[Run(c)].ents
             /\ SealableEntry(e)
             /\ SealerLimits(sealed[Run(c)].ents \cup {e})
          THEN Go(c, [lch[c] EXCEPT !.held = e, !.todo = @ \ {e}])
          ELSE Fails(c, "rollback", BudgetError(c))
  /\ NoFault /\ SealerUnchanged /\ UNCHANGED <<source, sealed, left>>

\* The second half of copy_file: the copy is made through the descriptor held
\* open, and kept only if the name still leads to the same unchanged file.
SealCopy(c) ==
  /\ At(c, "seal") /\ lch[c].held # None
  /\ LET e == lch[c].held
         r == Run(c) IN
     IF e \in source[r].ents /\ ~lch[c].cancelled
     THEN /\ sealed' = [sealed EXCEPT ![r].ents = @ \cup {SealedEntry(e)}]
          /\ Go(c, [lch[c] EXCEPT !.held = None])
     ELSE Fails(c, "rollback", BudgetError(c)) /\ UNCHANGED sealed
  /\ NoFault /\ SealerUnchanged /\ UNCHANGED <<source, left>>

SealPublishMutant(c) ==
  /\ At(c, "seal") /\ lch[c].held = None
  /\ sealed' = [sealed EXCEPT ![Run(c)].at = "ready"]
  /\ Step(c, "sealed")
  /\ NoFault /\ SealerUnchanged /\ UNCHANGED <<source, left>>

\* The source must not have changed since it was listed; the staging directory
\* gets mode 500 and is renamed to the run's name in the input root.
SealPublish(c) ==
  /\ At(c, "seal") /\ lch[c].held = None /\ lch[c].todo = {}
  /\ IF lch[c].cancelled \/ source[Run(c)].ents # lch[c].listed
     THEN Fails(c, "rollback", BudgetError(c)) /\ UNCHANGED sealed
     ELSE sealed' = [sealed EXCEPT ![Run(c)].at = "ready"] /\ Step(c, "sealed")
  /\ NoFault /\ SealerUnchanged /\ UNCHANGED <<source, left>>

\* remove_owned_tree_at on the quarantined source.  It fails when an entry
\* disappears under it, which the bot's own cleanup can make happen.
RemoveSource(r, pass, fail) ==
  \/ source' = [source EXCEPT ![r] = NoSource] /\ NoFault /\ UNCHANGED left /\ pass
  \/ /\ \/ Fault
        \/ bot.pc = "removing" /\ run = r /\ NoFault
     /\ left' = left \cup {r}
     /\ UNCHANGED source
     /\ fail

\* The launcher's own copy is removed, or it cannot be.
DropSealed(r) ==
  \/ sealed' = [sealed EXCEPT ![r] = NoSealed] /\ NoFault /\ UNCHANGED left
  \/ Fault /\ left' = left \cup {r} /\ UNCHANGED sealed

\* The source has served; if it cannot be removed the published tree is undone.
SealCleanSource(c) ==
  /\ At(c, "sealed")
  /\ RemoveSource(Run(c),
       Step(c, "consume") /\ UNCHANGED sealed,
       Fails(c, "finish", "error") /\ sealed' = [sealed EXCEPT ![Run(c)] = NoSealed])
  /\ SealerUnchanged

\* A read, write or sync fails, or the deadline of the preparation passes.
SealFail(c) ==
  /\ \E pc \in {"staging", "seal"} : At(c, pc)
  /\ Fault
  /\ Fails(c, "rollback", "error")
  /\ SealerUnchanged /\ UNCHANGED <<source, sealed, left>>

SealRollbackMutant(c) ==
  /\ At(c, "rollback")
  /\ sealed' = [sealed EXCEPT ![Run(c)] = NoSealed]
  /\ Step(c, "finish")
  /\ NoFault /\ SealerUnchanged /\ UNCHANGED <<source, left>>

\* cleanup_target and then cleanup_source, neither of which looks at the budget.
SealRollback(c) ==
  /\ At(c, "rollback")
  /\ \/ /\ sealed' = [sealed EXCEPT ![Run(c)] = NoSealed]
        /\ RemoveSource(Run(c), Step(c, "finish"), Fails(c, "finish", "error"))
     \/ /\ Fault /\ left' = left \cup {Run(c)}
        /\ source' = [source EXCEPT ![Run(c)] = NoSource]
        /\ Fails(c, "finish", "error") /\ UNCHANGED sealed
  /\ SealerUnchanged

InputSealerNext(c) ==
  \/ SealQuarantine(c) \/ SealStage(c) \/ SealOpen(c) \/ SealCopy(c) \/ SealPublish(c)
  \/ SealCleanSource(c) \/ SealFail(c) \/ SealRollback(c)
=============================================================================
