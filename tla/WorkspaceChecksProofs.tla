----------------------- MODULE WorkspaceChecksProofs -----------------------
(***************************************************************************)
(* Proofs that the checks a workspace passes on its way to Codex agree:    *)
(* what the bot publishes is within the limits (PublishedIsClean), and     *)
(* what one stage accepts the next does not refuse (ChecksAgree).  They    *)
(* rest on the inductive invariant of IsolatedRunProofs and add what it    *)
(* does not say: how large the trees are, and that the launcher's copy,    *)
(* while its client waits, is made entry by entry of the bot's.            *)
(*                                                                         *)
(* Sizes need no induction: a tree is compared with another one through a  *)
(* function that takes its entries, and so its bytes, one to one into the  *)
(* other's (FittingTree).                                                  *)
(***************************************************************************)
EXTENDS IsolatedRunProofs, FiniteSetTheorems

(***************************************************************************)
(* The size of a tree.                                                     *)
(***************************************************************************)

\* A tree whose entries and bytes can be counted.
Countable(tree) == IsFiniteSet(tree) /\ IsFiniteSet(BytesOf(tree))

\* The bytes of a tree are those of its files.
LEMMA BytesOfFiles ==
  ASSUME NEW tree, NEW b
  PROVE  b \in BytesOf(tree) <=> \E e \in tree : e.kind = "file" /\ \E i \in 1 .. e.bytes : b = <<e, i>>
<1>1. b \in BytesOf(tree) <=> \E e \in {x \in tree : x.kind = "file"} : b \in {e} \X (1 .. e.bytes)
  BY DEF BytesOf
<1>2. \A e : b \in {e} \X (1 .. e.bytes) <=> \E i \in 1 .. e.bytes : b = <<e, i>>
  OBVIOUS
<1> QED
  BY <1>1, <1>2

\* A tree that fits into one within the limits, entry by entry, is within them.
LEMMA FittingTree ==
  ASSUME NEW S, NEW T, Countable(T), WithinLimits(T), NEW f \in [S -> T],
         \A x, y \in S : f[x] = f[y] => x = y,
         \A x \in S : f[x].kind = x.kind /\ f[x].depth = x.depth /\ f[x].bytes = x.bytes
  PROVE  Countable(S) /\ WithinLimits(S)
<1>1. f \in Injection(S, T)
  BY DEF Injection, IsInjective
<1>2. IsFiniteSet(S) /\ Cardinality(S) <= Cardinality(T)
  BY <1>1, FS_Injection DEF Countable
<1> DEFINE g == [b \in BytesOf(S) |-> <<f[b[1]], b[2]>>]
<1>3. ASSUME NEW b \in BytesOf(S) PROVE b = <<b[1], b[2]>> /\ b[1] \in S /\ g[b] = <<f[b[1]], b[2]>> /\ g[b] \in BytesOf(T)
  <2>1. PICK e \in S : e.kind = "file" /\ \E i \in 1 .. e.bytes : b = <<e, i>>
    BY BytesOfFiles
  <2>2. PICK i \in 1 .. e.bytes : b = <<e, i>>
    BY <2>1
  <2>3. b[1] = e /\ b[2] = i /\ g[b] = <<f[e], i>>
    BY <2>2
  <2>4. f[e] \in T /\ f[e].kind = "file" /\ i \in 1 .. f[e].bytes
    BY <2>1, <2>2
  <2>5. g[b] \in BytesOf(T)
    BY <2>3, <2>4, BytesOfFiles
  <2> QED
    BY <2>2, <2>3, <2>5
<1>4. ASSUME NEW b \in BytesOf(S), NEW d \in BytesOf(S), g[b] = g[d] PROVE b = d
  <2>1. b = <<b[1], b[2]>> /\ d = <<d[1], d[2]>> /\ b[1] \in S /\ d[1] \in S
    BY <1>3
  <2>2. <<f[b[1]], b[2]>> = <<f[d[1]], d[2]>>
    BY <1>3, <1>4
  <2>3. f[b[1]] = f[d[1]] /\ b[2] = d[2]
    BY <2>2
  <2>4. b[1] = d[1]
    BY <2>1, <2>3
  <2> QED
    BY <2>1, <2>3, <2>4, Zenon
<1>5. g \in Injection(BytesOf(S), BytesOf(T))
  <2>1. g \in [BytesOf(S) -> BytesOf(T)]
    BY <1>3
  <2> HIDE DEF g
  <2> QED
    BY <1>4, <2>1 DEF Injection, IsInjective
<1>6. IsFiniteSet(BytesOf(S)) /\ Cardinality(BytesOf(S)) <= Cardinality(BytesOf(T))
  <2> HIDE DEF g
  <2> QED
    BY <1>5, FS_Injection DEF Countable
<1>7. /\ Cardinality(S) \in Nat /\ Cardinality(T) \in Nat
      /\ Cardinality(BytesOf(S)) \in Nat /\ Cardinality(BytesOf(T)) \in Nat
  BY <1>2, <1>6, FS_CardinalityType DEF Countable
<1>8. Cardinality(S) <= MaxEntries /\ TotalBytes(S) <= MaxBytes
  BY <1>2, <1>6, <1>7, LimitsAssumption DEF WithinLimits, Within, RunnerMax, TotalBytes
<1>9. ASSUME NEW e \in S PROVE e.depth + (IF e.kind = "dir" THEN 1 ELSE 0) <= MaxDepth
  BY DEF WithinLimits, Within, RunnerMax
<1> QED
  BY <1>2, <1>6, <1>8, <1>9 DEF WithinLimits, Within, RunnerMax, Countable

\* The three lists of limits are the same.
LEMMA SameLimits ==
  ASSUME NEW T
  PROVE  (WithinLimits(T) <=> SealerLimits(T)) /\ (WithinLimits(T) <=> Within(T, ExecutionMax))
BY DEF WithinLimits, SealerLimits, RunnerMax, SealerMax, ExecutionMax

\* So is a part of a tree within the limits.
LEMMA PartOfTree ==
  ASSUME NEW T, NEW S \in SUBSET T, Countable(T), WithinLimits(T)
  PROVE  Countable(S) /\ WithinLimits(S)
<1> DEFINE f == [x \in S |-> x]
<1>1. f \in [S -> T] /\ \A x \in S : f[x] = x
  OBVIOUS
<1> HIDE DEF f
<1> QED
  BY <1>1, FittingTree

\* There is nothing to count in an empty tree.
LEMMA EmptyTree == Countable({}) /\ WithinLimits({})
<1>1. BytesOf({}) = {}
  BY DEF BytesOf
<1>2. IsFiniteSet({}) /\ Cardinality({}) = 0 /\ TotalBytes({}) = 0
  BY <1>1, FS_EmptySet DEF TotalBytes
<1>3. 0 <= MaxEntries /\ 0 <= MaxBytes
  BY LimitsAssumption
<1>4. Cardinality({}) <= MaxEntries /\ TotalBytes({}) <= MaxBytes
  BY <1>2, <1>3
<1>5. WithinLimits({})
  BY <1>4 DEF WithinLimits, Within, RunnerMax
<1>6. IsFiniteSet(BytesOf({}))
  BY <1>1, <1>2
<1> QED
  BY <1>2, <1>5, <1>6, Zenon DEF Countable

\* A tree with one more entry can still be counted.
LEMMA OneMoreEntry ==
  ASSUME NEW T, NEW e, e.bytes \in Nat, Countable(T)
  PROVE  Countable(T \cup {e})
<1>0. IsFiniteSet({e}) /\ IsFiniteSet(1 .. e.bytes)
  <2>1. IsFiniteSet({e})
    BY FS_Singleton
  <2> QED
    BY <2>1, FS_Interval
<1>1. IsFiniteSet({e} \X (1 .. e.bytes))
  BY <1>0, FS_Product
<1>2. IsFiniteSet(BytesOf(T) \cup ({e} \X (1 .. e.bytes)))
  BY <1>1, FS_Union DEF Countable
<1>3. BytesOf(T \cup {e}) \subseteq BytesOf(T) \cup ({e} \X (1 .. e.bytes))
  BY DEF BytesOf
<1>4. IsFiniteSet(BytesOf(T \cup {e}))
  BY <1>2, <1>3, FS_Subset
<1> QED
  BY <1>4, FS_AddElement DEF Countable

-----------------------------------------------------------------------------
(***************************************************************************)
(* The limits of what is staged.                                           *)
(***************************************************************************)

\* A published tree is within the limits, and so is what a staging has copied together with
\* the entry that it has counted and not copied yet.
Counted == IF bot.pc = "copy" THEN HeldBy(bot) ELSE {}
LimitInv ==
  /\ \A r \in Runs : /\ Countable(source[r].ents)
                     /\ source[r].mode = "source" => WithinLimits(source[r].ents)
  /\ bot.pc \in {"copy", "verify"} =>
       Countable(source[run].ents \cup Counted) /\ WithinLimits(source[run].ents \cup Counted)

\* The steps of a launcher never add to a source.
LEMMA LauncherKeepsLimits ==
  ASSUME Types, LinkInv, LimitInv, NEW c \in Conns, LauncherStep(c)
  PROVE  LimitInv'
<1>0. /\ run \in {NoRun} \cup Runs /\ (bot.pc # "idle" => run \in Runs) /\ ConnTypes
      /\ \A s \in Runs : Countable(source[s].ents) /\ (source[s].mode = "source" => WithinLimits(source[s].ents))
  BY DEF Types, BotTypes, LimitInv
<1>1. UNCHANGED <<run, bot>>
  BY <1>0, LauncherFrame
<1>2. ASSUME NEW s \in Runs
      PROVE Countable(source'[s].ents) /\ (source'[s].mode = "source" => WithinLimits(source'[s].ents))
  <2>1. CASE source'[s].ents = source[s].ents /\ source'[s].mode = source[s].mode
    BY <1>0, <2>1
  <2>2. CASE source'[s] = NoSource
    BY <2>2, EmptyTree DEF NoSource
  <2> QED
    BY <2>1, <2>2, LauncherSource
<1>3. bot.pc \in {"copy", "verify"} => source'[run] = source[run]
  BY LauncherSource DEF Staging
<1>4. bot'.pc \in {"copy", "verify"} => Countable(source'[run'].ents \cup Counted') /\ WithinLimits(source'[run'].ents \cup Counted')
  BY <1>1, <1>3 DEF LimitInv, Counted, HeldBy
<1> QED
  BY <1>2, <1>4 DEF LimitInv

\* Nor do the steps of the bot, except for the staging copy, which counts first.
LEMMA LimitStep == Types /\ LinkInv /\ StageInv /\ LimitInv /\ [Next]_vars => LimitInv'
<1> SUFFICES ASSUME Types, LinkInv, StageInv, LimitInv, [Next]_vars PROVE LimitInv'
  OBVIOUS
<1>0. /\ BotTypes /\ bot \in Bots /\ run \in {NoRun} \cup Runs /\ (bot.pc # "idle" => run \in Runs)
      /\ source \in [Runs -> Sources] /\ evidence \subseteq EvidenceEntries
      /\ \A s \in Runs : Countable(source[s].ents) /\ (source[s].mode = "source" => WithinLimits(source[s].ents))
      /\ bot.pc \in {"copy", "verify"} =>
           Countable(source[run].ents \cup Counted) /\ WithinLimits(source[run].ents \cup Counted)
  BY DEF Types, BotTypes, DiskTypes, LimitInv
\* Steps that leave the sources alone and do not enter the staging.
<1>a. ASSUME UNCHANGED source, bot'.pc \notin {"copy", "verify"} \/ UNCHANGED <<bot, run>> PROVE LimitInv'
  BY <1>0, <1>a DEF LimitInv, Counted, HeldBy
\* Steps that change the source of the run at hand, or leave the staging.
<1>b. ASSUME NEW src, src \in Sources, source' = [source EXCEPT ![run] = src], UNCHANGED run, bot.pc # "idle",
             Countable(src.ents), src.mode = "source" => WithinLimits(src.ents),
             bot'.pc \in {"copy", "verify"} => Countable(src.ents \cup Counted') /\ WithinLimits(src.ents \cup Counted')
      PROVE  LimitInv'
  <2>1. source'[run] = src /\ \A s \in Runs \ {run} : source'[s] = source[s]
    BY <1>0, <1>b
  <2> QED
    BY <1>0, <1>b, <2>1 DEF LimitInv
<1>1. CASE StartAttempt
  BY <1>1, <1>a DEF StartAttempt, IdleBot
<1>2. CASE CallPreflight \/ CallExecute
  <2>1. UNCHANGED source /\ bot'.pc \notin {"copy", "verify"}
    BY <1>0, <1>2, Ended DEF CallPreflight, CallExecute, Connect, Continue, Bots
  <2> QED
    BY <2>1, <1>a
<1>3. CASE BotCrash
  BY <1>3, <1>a, Ended DEF BotCrash
<1>4. ASSUME NEW c \in Conns, ReceiveResponse(c) \/ ReceiveEof(c) \/ ReceiveTimeout(c) PROVE LimitInv'
  <2>1. UNCHANGED source /\ bot'.pc \notin {"copy", "verify"}
    BY <1>0, <1>4, Ended DEF ReceiveResponse, ReceiveEof, ReceiveTimeout, CloseWith, Continue, Bots
  <2> QED
    BY <2>1, <1>a
<1>5. CASE SpawnChild \/ ChildExit \/ TerminateChild \/ CollectChild \/ GroupExit
  <2>1. UNCHANGED <<source, run>> /\ (bot'.pc \notin {"copy", "verify"} \/ UNCHANGED bot)
    BY <1>0, <1>5, Ended DEF SpawnChild, ChildExit, TerminateChild, CollectChild, GroupExit, ChildUnchanged, Continue, Bots
  <2> QED
    BY <2>1, <1>a
<1>6. CASE StageBegin
  <2>1. CASE CreateRunDirectory(run) /\ Continue([bot EXCEPT !.pc = "copy", !.listed = Listing(evidence, <<>>), !.todo = Listing(evidence, <<>>)])
    <3> DEFINE src == [at |-> "pending", mode |-> "private", ents |-> {}]
    <3>1. src \in Sources /\ src.ents = {} /\ src.mode = "private"
      BY DEF Sources
    <3>2. bot'.pc = "copy" /\ bot'.held = bot.held /\ bot.held = None
      BY <1>0, <1>6, <2>1 DEF StageBegin, StageInv, Continue, Bots
    <3>3. Counted' = {} /\ src.ents \cup Counted' = {}
      BY <3>1, <3>2 DEF Counted, HeldBy
    <3>4. source' = [source EXCEPT ![run] = src] /\ UNCHANGED run /\ bot.pc # "idle"
      BY <1>6, <2>1 DEF StageBegin, CreateRunDirectory, StagingUnchanged
    <3> HIDE DEF src
    <3> QED
      BY <1>b, <3>1, <3>3, <3>4, EmptyTree
  <2>2. CASE EndAttempt(FALSE) /\ UNCHANGED source
    BY <2>2, <1>a, Ended
  <2> QED
    BY <1>6, <2>1, <2>2 DEF StageBegin
<1>7. CASE StageOpen
  <2>1. UNCHANGED <<source, run>> /\ bot.pc = "copy" /\ bot.held = None /\ run \in Runs
    BY <1>0, <1>7 DEF StageOpen, StagingUnchanged
  <2>2. PICK e \in bot.todo, x \in evidence :
          \/ /\ WithinLimits(source[run].ents \cup {x})
             /\ Continue([bot EXCEPT !.held = x, !.todo = (@ \ {e}) \cup Inside(x), !.listed = @ \cup Inside(x)])
          \/ Continue([bot EXCEPT !.pc = "abort"])
    BY <1>7 DEF StageOpen
  <2>3. CASE Continue([bot EXCEPT !.pc = "abort"])
    BY <1>0, <1>a, <2>1, <2>3 DEF Continue, Bots
  <2>4. CASE /\ WithinLimits(source[run].ents \cup {x})
             /\ Continue([bot EXCEPT !.held = x, !.todo = (@ \ {e}) \cup Inside(x), !.listed = @ \cup Inside(x)])
    <3>1. x \in EvidenceEntries
      BY <1>0, <2>2
    <3>2. bot'.pc = "copy" /\ bot'.held = x
      BY <1>0, <2>1, <2>4 DEF Continue, Bots
    <3>3. x # None /\ x.bytes \in Nat
      BY <3>1, NoneIsNoEntry DEF EvidenceEntries, EntryType
    <3>4. Counted' = {x}
      BY <3>2, <3>3 DEF Counted, HeldBy
    <3>5. Countable(source[run].ents \cup {x})
      BY <1>0, <2>1, <3>3, OneMoreEntry
    <3> QED
      BY <1>0, <2>1, <2>4, <3>4, <3>5 DEF LimitInv
  <2> QED
    BY <2>2, <2>3, <2>4
<1>8. CASE StageCopy
  <2> DEFINE body == IF bot.held \in evidence THEN bot.held.body ELSE Torn
             new == StagedEntry(bot.held, body)
             src == [source[run] EXCEPT !.ents = @ \cup {new}]
  <2>1. /\ bot.pc = "copy" /\ bot.held # None /\ run \in Runs /\ UNCHANGED run /\ bot.held \in EvidenceEntries
        /\ source[run] \in Sources
    BY <1>0, <1>8 DEF StageCopy, StagingUnchanged, Bots
  <2>2. body \in {Torn} \cup Nat
    BY <2>1 DEF EvidenceEntries, EntryType
  <2>3. /\ new \in SourceEntries /\ new.bytes = bot.held.bytes /\ new.kind = bot.held.kind /\ new.depth = bot.held.depth
        /\ bot.held.bytes \in Nat
    <3> HIDE DEF body
    <3> QED
      BY <2>1, <2>2, StagedEntryType DEF StagedEntry, EvidenceEntries, EntryType
  <2>4. source' = [source EXCEPT ![run] = src] /\ src \in Sources /\ src.ents = source[run].ents \cup {new}
        /\ src.mode = source[run].mode
    <3>1. source' = [source EXCEPT ![run].ents = @ \cup {new}]
      BY <1>8 DEF StageCopy
    <3> HIDE DEF new
    <3> QED
      BY <1>0, <2>1, <2>3, <3>1 DEF Sources
  <2>5. bot'.pc = "verify" /\ Counted' = {}
    BY <1>0, <1>8, <2>1 DEF StageCopy, Continue, Counted, Bots
  <2>6. source[run].mode = "private"
    BY <2>1 DEF StageInv, StagingSound
  <2> DEFINE old == source[run].ents \cup {bot.held}
  <2>7. Countable(old) /\ WithinLimits(old)
    BY <1>0, <2>1 DEF Counted, HeldBy
  <2> HIDE DEF new, src
  \* The new entry takes the place of the one it is a copy of.
  <2>8. Countable(src.ents) /\ WithinLimits(src.ents)
    <3> DEFINE f == [x \in src.ents |-> IF x \in source[run].ents THEN x ELSE bot.held]
    <3>1. f \in [src.ents -> old]
      BY <2>4
    <3>2. bot.held \notin source[run].ents
      BY <2>1 DEF EvidenceEntries, Sources, SourceEntries, EntryType
    <3>3. \A x, y \in src.ents : f[x] = f[y] => x = y
      BY <2>4, <3>2
    <3>4. \A x \in src.ents : f[x].kind = x.kind /\ f[x].depth = x.depth /\ f[x].bytes = x.bytes
      BY <2>3, <2>4
    <3> HIDE DEF f, old
    <3> QED
      BY <2>7, <3>1, <3>3, <3>4, FittingTree
  <2>9. src.ents \cup Counted' = src.ents
    BY <2>5
  <2> QED
    BY <1>b, <2>1, <2>4, <2>5, <2>6, <2>8, <2>9
<1>9. CASE StageVerify
  <2>1. UNCHANGED <<source, run>> /\ bot.pc = "verify"
    BY <1>9 DEF StageVerify, StagingUnchanged
  <2>2. bot'.pc = "abort" \/ (bot'.pc = "copy" /\ bot'.held = None)
    BY <1>0, <1>9 DEF StageVerify, Continue, Bots
  <2>3. bot'.pc = "copy" => Counted' = {} /\ Counted = {}
    BY <2>1, <2>2 DEF Counted, HeldBy
  <2> QED
    BY <1>0, <2>1, <2>2, <2>3 DEF LimitInv
<1>10. CASE StagePublish
  <2>1. bot.pc = "copy" /\ bot.held = None /\ run \in Runs /\ UNCHANGED run /\ source[run] \in Sources
    BY <1>0, <1>10 DEF StagePublish, StagingUnchanged
  <2>2. WithinLimits(source[run].ents) /\ Countable(source[run].ents)
    <3>1. source[run].ents \cup Counted = source[run].ents
      BY <2>1 DEF Counted, HeldBy
    <3> QED
      BY <1>0, <2>1, <3>1
  <2>3. CASE Continue([bot EXCEPT !.pc = "abort"]) /\ UNCHANGED source
    BY <1>0, <1>a, <2>3 DEF Continue, Bots
  <2>4. CASE source' = [source EXCEPT ![run].mode = "source"] /\ Continue([bot EXCEPT !.pc = "call"])
    <3> DEFINE src == [source[run] EXCEPT !.mode = "source"]
    <3>1. src \in Sources /\ src.ents = source[run].ents /\ source' = [source EXCEPT ![run] = src]
      BY <1>0, <2>1, <2>4 DEF Sources
    <3>2. bot'.pc = "call"
      BY <1>0, <2>4 DEF Continue, Bots
    <3> HIDE DEF src
    <3> QED
      BY <1>b, <2>1, <2>2, <3>1, <3>2
  <2> QED
    BY <1>10, <2>3, <2>4 DEF StagePublish
<1>11. CASE StageFail \/ CleanPending \/ CleanPendingFail
  <2>1. UNCHANGED source /\ bot'.pc \notin {"copy", "verify"}
    BY <1>0, <1>11, Ended DEF StageFail, CleanPending, CleanPendingFail, Continue, Bots
  <2> QED
    BY <2>1, <1>a
<1>12. CASE StageAbort \/ RemovePendingDirectory
  <2>1. bot'.pc = "idle" /\ bot.pc # "idle" /\ UNCHANGED run /\ run \in Runs
    BY <1>0, <1>12, Ended DEF StageAbort, RemovePendingDirectory, StagingUnchanged
  <2>2. UNCHANGED source \/ source' = [source EXCEPT ![run] = NoSource]
    BY <1>0, <1>12, <2>1 DEF StageAbort, RemovePendingDirectory
  <2>3. NoSource \in Sources /\ NoSource.ents = {} /\ NoSource.mode = "private"
    BY DEF NoSource, Sources
  <2> QED
    BY <1>a, <1>b, <2>1, <2>2, <2>3, EmptyTree
<1>13. CASE RemovePendingEntry
  <2>1. bot.pc = "removing" /\ UNCHANGED <<run, bot>> /\ run \in Runs /\ source[run] \in Sources
    BY <1>0, <1>13 DEF RemovePendingEntry, StagingUnchanged
  <2>2. PICK e \in source[run].ents : source' = [source EXCEPT ![run].ents = @ \ {e}]
    BY <1>13 DEF RemovePendingEntry
  <2> DEFINE src == [source[run] EXCEPT !.ents = @ \ {e}]
  <2>3. /\ src \in Sources /\ src.ents = source[run].ents \ {e} /\ src.mode = source[run].mode
        /\ source' = [source EXCEPT ![run] = src]
    BY <1>0, <2>1, <2>2 DEF Sources
  <2>4. Countable(src.ents)
    <3>1. BytesOf(src.ents) \subseteq BytesOf(source[run].ents)
      BY <2>3 DEF BytesOf
    <3>2. IsFiniteSet(source[run].ents) /\ IsFiniteSet(BytesOf(source[run].ents))
      BY <1>0, <2>1 DEF Countable
    <3>3. IsFiniteSet(src.ents)
      BY <2>3, <3>2, FS_RemoveElement
    <3>4. IsFiniteSet(BytesOf(src.ents))
      <4> HIDE DEF src
      <4> QED
        BY <3>1, <3>2, FS_Subset
    <3> QED
      BY <3>3, <3>4 DEF Countable
  <2> HIDE DEF src
  <2>5. src.mode = "source" => WithinLimits(src.ents)
    BY <1>0, <2>1, <2>3, PartOfTree
  <2> QED
    BY <1>b, <2>1, <2>3, <2>4, <2>5
<1>14. CASE EvidenceWrite
  BY <1>14, <1>a DEF EvidenceWrite, botVars
<1>15. ASSUME NEW c \in Conns, LauncherStep(c) PROVE LimitInv'
  BY <1>15, LauncherKeepsLimits
<1>16. CASE (\E r \in Runs : RuntimeUnitNext(r)) \/ HostChanges \/ UNCHANGED vars
  <2>1. UNCHANGED <<source, run, bot>>
    BY <1>16, OuterFrame
  <2> QED
    BY <2>1, <1>a
<1>17. CASE BotInner
  BY <1>17, <1>5, <1>6, <1>7, <1>8, <1>9, <1>10, <1>11, <1>12, <1>13, <1>14 DEF BotInner, RunnerInputNext
<1> QED
  BY <1>1, <1>2, <1>3, <1>4, <1>15, <1>16, <1>17, NextSteps

-----------------------------------------------------------------------------
(***************************************************************************)
(* What the launcher meets while its client waits and nothing goes wrong.  *)
(***************************************************************************)

\* The launcher of a waiting client is not cancelled and does not roll back; it finds the
\* source where the bot has put it; what it has sealed is its copy of what it has taken from
\* the listing, and a tree that the verifications accept; and it does not get past the start
\* of the unit, nor to an error, without one.
Agrees(p, src, copy, u) ==
  /\ ~p.cancelled /\ p.pc # "rollback"
  /\ p.pc \in BeforeSeal \ {"staging"} => src.at = "pending"
  /\ p.pc = "seal" =>
       /\ p.listed = src.ents /\ p.todo \cup HeldBy(p) \subseteq src.ents /\ p.todo \cap HeldBy(p) = {}
       /\ copy.ents = {SealedEntry(e) : e \in src.ents \ (p.todo \cup HeldBy(p))}
  /\ p.pc \in {"sealed", "consume", "grant"} => Countable(copy.ents) /\ WorkspaceTreeValid(copy.ents, "private")
  /\ p.pc \in {"sealed", "consume"} => ControlFileFree(copy.ents)
  /\ p.pc \in {"prompt", "wait", "stop", "cleanup"} \/ p.result = "error" => u # "none"

AgreeOf(r) == faults = 0 /\ sock[E(r)] = "open" => Agrees(lch[E(r)], source[r], sealed[r], unit[r])

AgreeInv == (faults = 0 => gone = {}) /\ \A r \in Runs : AgreeOf(r)

\* What is sealed of a staged tree passes the first verification, and together with one more
\* entry of that tree it passes the sealer's limits.
LEMMA SealedPart ==
  ASSUME NEW T \in SUBSET SourceEntries, NEW D \in SUBSET T, Countable(T), WithinLimits(T),
         \A e \in T : StageableEntry(e)
  PROVE  LET S == {SealedEntry(e) : e \in D} IN
         /\ Countable(S) /\ WorkspaceTreeValid(S, "private") /\ ControlFileFree(S)
         /\ \A e \in T \ D : SealerLimits(S \cup {e})
<1> DEFINE S == {SealedEntry(e) : e \in D}
           Source(x) == [x EXCEPT !.access = "source"]
<1>1. ASSUME NEW e \in SourceEntries
      PROVE  /\ Source(SealedEntry(e)) = e /\ Source(e) = e
             /\ SealedEntry(e).kind = e.kind /\ SealedEntry(e).depth = e.depth /\ SealedEntry(e).bytes = e.bytes
             /\ SealedEntry(e).links = e.links /\ SealedEntry(e).access = "private" /\ SealedEntry(e).name = e.name
  BY DEF SourceEntries, EntryType, SealedEntry
<1>2. \A x \in S : Source(x) \in D /\ x = SealedEntry(Source(x))
  BY <1>1
<1>3. ASSUME NEW A \in SUBSET (T \ D) PROVE Countable(S \cup A) /\ WithinLimits(S \cup A)
  <2> DEFINE f == [x \in S \cup A |-> Source(x)]
  <2>1. \A x \in A : x \in SourceEntries /\ x \in T /\ x \notin D /\ Source(x) = x
    BY <1>1
  <2> HIDE DEF Source, S
  <2>2. f \in [S \cup A -> T]
    BY <1>2, <2>1
  <2>3. ASSUME NEW x \in S \cup A, NEW y \in S \cup A, f[x] = f[y] PROVE x = y
    <3>1. Source(x) = Source(y)
      BY <2>3
    <3>2. CASE x \in S /\ y \in S
      BY <1>2, <3>1, <3>2
    <3>3. CASE x \in A /\ y \in A
      BY <2>1, <3>1, <3>3
    <3>4. CASE (x \in S /\ y \in A) \/ (x \in A /\ y \in S)
      BY <1>2, <2>1, <3>1, <3>4
    <3> QED
      BY <3>2, <3>3, <3>4
  <2>4. ASSUME NEW x \in S \cup A PROVE f[x].kind = x.kind /\ f[x].depth = x.depth /\ f[x].bytes = x.bytes
    <3>1. CASE x \in A
      BY <2>1, <3>1
    <3>2. CASE x \in S
      <4>1. PICK e \in D : x = SealedEntry(e)
        BY <3>2 DEF S
      <4>2. e \in SourceEntries /\ f[x] = e
        BY <1>1, <4>1
      <4> QED
        BY <1>1, <4>1, <4>2
    <3> QED
      BY <3>1, <3>2
  <2> HIDE DEF f
  <2> QED
    BY <2>2, <2>3, <2>4, FittingTree
<1>4. Countable(S) /\ WithinLimits(S)
  <2>1. S \cup {} = S
    OBVIOUS
  <2> HIDE DEF S
  <2> QED
    BY <1>3, <2>1
<1>5. ASSUME NEW e \in T \ D PROVE SealerLimits(S \cup {e})
  <2> HIDE DEF S
  <2> QED
    BY <1>3, SameLimits
<1>6. ASSUME NEW x \in S
      PROVE  /\ x.kind \in {"dir", "file"} /\ (x.kind = "file" => x.links = 1)
             /\ x.access = "private" /\ BaseName(x) \notin ForbiddenNames
  <2>1. PICK e \in D : x = SealedEntry(e)
    OBVIOUS
  <2> QED
    BY <1>1, <2>1 DEF StageableEntry, BaseName
<1> HIDE DEF S
<1>7. WorkspaceTreeValid(S, "private") /\ ControlFileFree(S)
  BY <1>4, <1>6, SameLimits DEF WorkspaceTreeValid, ControlFileFree
<1> QED
  BY <1>4, <1>5, <1>7 DEF S

\* A tree that has passed the first verification passes the second.
LEMMA GrantedPart ==
  ASSUME NEW S \in SUBSET SealedEntries, Countable(S), WorkspaceTreeValid(S, "private")
  PROVE  WorkspaceTreeValid(GrantGroupRead(S), "group")
<1> DEFINE G == GrantGroupRead(S)
           f == [x \in G |-> SealedEntry(x)]
<1>1. ASSUME NEW e \in S
      PROVE  /\ SealedEntry(GrantedEntry(e)) = e /\ GrantedEntry(e).access = "group"
             /\ GrantedEntry(e).kind = e.kind /\ GrantedEntry(e).depth = e.depth /\ GrantedEntry(e).bytes = e.bytes
             /\ GrantedEntry(e).links = e.links
             /\ e.kind \in {"dir", "file"} /\ (e.kind = "file" => e.links = 1)
  BY DEF SealedEntries, EntryType, SealedEntry, GrantedEntry, WorkspaceTreeValid
<1>2. \A x \in G : \E e \in S : x = GrantedEntry(e) /\ f[x] = e
  BY <1>1 DEF GrantGroupRead
<1>3. f \in [G -> S]
  BY <1>1 DEF GrantGroupRead
<1> HIDE DEF f, G
<1>4. \A x, y \in G : f[x] = f[y] => x = y
  BY <1>2
<1>5. \A x \in G : f[x].kind = x.kind /\ f[x].depth = x.depth /\ f[x].bytes = x.bytes
  BY <1>1, <1>2
<1>6. WithinLimits(G)
  BY <1>3, <1>4, <1>5, FittingTree, SameLimits DEF WorkspaceTreeValid
<1>7. \A x \in G : x.kind \in {"dir", "file"} /\ (x.kind = "file" => x.links = 1) /\ x.access = "group"
  BY <1>1, <1>2
<1>8. WorkspaceTreeValid(G, "group")
  BY <1>6, <1>7, SameLimits DEF WorkspaceTreeValid
<1> QED
  BY <1>8 DEF G

\* The launcher of a waiting client goes on where nothing goes wrong: none of its checks fails.
LEMMA LauncherAgrees ==
  ASSUME IInv, LimitInv, AgreeInv, [Next]_vars, faults' = 0, NEW r \in Runs, LauncherStep(E(r)), sock[E(r)] = "open"
  PROVE  Agrees(lch'[E(r)], source'[r], sealed'[r], unit'[r])
<1> DEFINE c == E(r)
           p == lch[c]
<1>0. /\ c \in Conns /\ c \in ExecuteConns /\ Run(c) = r /\ ConnTypes /\ p \in Processes /\ lch \in [Conns -> Processes]
      /\ source \in [Runs -> Sources] /\ sealed \in [Runs -> Copies]
      /\ unit \in [Runs -> {"none", "boot", "codex", "ok", "dead"}]
      /\ SealSound(r) /\ PlaceOf(r) /\ BotSound(r) /\ EntriesSound(r)
  BY RunConns DEF IInv, Types, DiskTypes, ConnTypes, UnitTypes, LinkInv, PlaceInv, SealInv, StageInv
<1>z. faults = 0 /\ ~Fault
  BY Faultless DEF IInv
<1>a. Agrees(p, source[r], sealed[r], unit[r]) /\ gone = {}
  BY <1>z DEF AgreeInv, AgreeOf
<1>c. ~p.cancelled /\ p.pc # "rollback" /\ PeerAlive(c) /\ (p.result = "error" => unit[r] # "none")
  BY <1>a DEF Agrees, PeerAlive
<1>w. bot.pc = "await_execute" /\ run = r /\ (source[r].at # "none" => source[r].mode = "source")
  BY <1>0 DEF BotSound, IInv, StageInv, PublishedSound
<1>h. ensure_activation_enabled /\ verify_runtime /\ InputRootsTrusted
  <2>1. preflight
    BY <1>z DEF IInv, HostInv
  <2> QED
    BY <2>1 DEF preflight, verify_runtime
\* The staged tree, once it is in quarantine.
<1>q. p.pc \in {"staging", "seal"} =>
        /\ source[r].mode = "source" /\ source[r].ents \in SUBSET SourceEntries
        /\ Countable(source[r].ents) /\ WithinLimits(source[r].ents) /\ \A e \in source[r].ents : StageableEntry(e)
  <2>1. p.pc \in {"staging", "seal"} => source[r].mode = "source"
    BY <1>0, <1>w DEF PlaceOf, Quarantined
  <2>2. source[r].ents \in SUBSET SourceEntries
    BY <1>0 DEF Sources
  <2> QED
    BY <1>0, <2>1, <2>2 DEF LimitInv, EntriesSound
<1>l. p.pc = "seal" =>
        /\ p.listed = source[r].ents /\ p.todo \cup HeldBy(p) \subseteq source[r].ents /\ p.todo \cap HeldBy(p) = {}
        /\ sealed[r].ents = {SealedEntry(e) : e \in source[r].ents \ (p.todo \cup HeldBy(p))}
  BY <1>a DEF Agrees
<1>p. /\ \A x \in ProcessPcs : Step(c, x) => /\ lch'[c].pc = x /\ lch'[c].result = p.result
                                            /\ lch'[c].cancelled = p.cancelled
      /\ \A x \in ProcessPcs, y \in Results : Fails(c, x, y) => /\ lch'[c].pc = x /\ lch'[c].result = y
                                                             /\ lch'[c].cancelled = p.cancelled
      /\ Exit(c) => lch'[c].pc = "exited" /\ lch'[c].result = p.result /\ lch'[c].cancelled = p.cancelled
  BY <1>0, StepUpdates, FailsUpdates, ExitUpdates
<1>t. /\ {"cancelled", "error", "timed_out", "failed", "completed"} \subseteq Results
      /\ Executing \cup {"confirm", "receive", "preflight", "finish"} \subseteq ProcessPcs
  BY DEF Results, ProcessPcs
<1> HIDE DEF c
\* The caller and its request.
<1>1. CASE Authorise(c) \/ ConfirmPeer(c)
  <2>1. /\ p.pc \in {"auth", "confirm"} /\ UNCHANGED <<source, sealed, unit>>
        /\ Step(c, "confirm") \/ Step(c, "receive")
    BY <1>1, <1>c, <1>z DEF Authorise, ConfirmPeer, LookAtPeer, PeerIsBot, LauncherUnchanged, unitVars, At
  <2>2. source[r].at = "pending"
    BY <1>a, <2>1 DEF Agrees, BeforeSeal
  <2> QED
    BY <1>c, <1>p, <1>t, <2>1, <2>2 DEF Agrees, c
<1>2. CASE ReceiveRequest(c)
  <2>1. /\ p.pc = "receive" /\ UNCHANGED <<source, sealed, unit>>
        /\ Step(c, "preflight") \/ Step(c, "prepare") \/ Exit(c)
    BY <1>2 DEF ReceiveRequest, LauncherUnchanged, unitVars, At
  <2>2. source[r].at = "pending"
    BY <1>a, <2>1 DEF Agrees, BeforeSeal
  <2>3. lch'[c].pc \in {"preflight", "prepare", "exited"} /\ lch'[c].result = p.result /\ ~lch'[c].cancelled
    BY <1>c, <1>p, <1>t, <2>1 DEF Executing
  <2> QED
    BY <1>c, <2>1, <2>2, <2>3 DEF Agrees, c
<1>3. CASE AnswerPreflight(c) \/ FinishExecution(c)
  <2>1. UNCHANGED <<source, sealed, unit>> /\ Exit(c)
    BY <1>3 DEF AnswerPreflight, FinishExecution, LauncherUnchanged, unitVars
  <2> QED
    BY <1>c, <1>p, <2>1 DEF Agrees, BeforeSeal, c
<1>4. CASE NoticeDisconnect(c) \/ LauncherKilled(c) \/ SealFail(c) \/ SealRollback(c) \/ VerifyFail(c)
  BY <1>4, <1>c, <1>z DEF NoticeDisconnect, LauncherKilled, SealFail, SealRollback, VerifyFail, At, c
\* The preparation and the sealing.
<1>5. CASE PrepareExecution(c)
  <2>1. p.pc = "prepare" /\ UNCHANGED <<source, sealed, unit>> /\ Step(c, "quarantine")
    BY <1>5, <1>c, <1>h, <1>z DEF PrepareExecution, current_launcher_unit_fails, unitVars, At
  <2>2. source[r].at = "pending"
    BY <1>a, <2>1 DEF Agrees, BeforeSeal
  <2>3. lch'[c].pc = "quarantine" /\ lch'[c].result = p.result /\ ~lch'[c].cancelled
    BY <1>c, <1>p, <1>t, <2>1 DEF Executing
  <2> QED
    BY <1>c, <2>1, <2>2, <2>3 DEF Agrees, c
<1>6. CASE SealQuarantine(c)
  <2>1. p.pc = "quarantine"
    BY <1>6 DEF SealQuarantine, At
  <2>2. source[r].at = "pending"
    BY <1>a, <2>1 DEF Agrees, BeforeSeal
  <2>3. UNCHANGED <<sealed, unit>> /\ Step(c, "staging")
    BY <1>0, <1>6, <1>c, <1>h, <2>2 DEF SealQuarantine, SealerUnchanged, unitVars
  <2>4. lch'[c].pc = "staging" /\ lch'[c].result = p.result /\ ~lch'[c].cancelled
    BY <1>c, <1>p, <1>t, <2>3 DEF Executing
  <2> QED
    BY <1>c, <2>3, <2>4 DEF Agrees, c
<1>7. CASE SealStage(c)
  <2>1. p.pc = "staging" /\ p.held = None
    BY <1>0, <1>7 DEF SealStage, At, SealSound, BeforeSeal, c
  <2>2. /\ sealed' = [sealed EXCEPT ![r] = [at |-> "staging", ents |-> {}]] /\ UNCHANGED <<source, unit>>
        /\ Go(c, [p EXCEPT !.pc = "seal", !.listed = source[r].ents, !.todo = source[r].ents])
    BY <1>0, <1>7, <1>c, <1>q, <2>1 DEF SealStage, SealerUnchanged, unitVars
  <2>3. /\ lch'[c].pc = "seal" /\ lch'[c].listed = source[r].ents /\ lch'[c].todo = source[r].ents
        /\ lch'[c].held = None /\ lch'[c].result = p.result /\ ~lch'[c].cancelled
    BY <1>0, <1>c, <2>1, <2>2 DEF Go, Processes
  <2>4. sealed'[r].ents = {}
    BY <1>0, <2>2
  <2>5. HeldBy(lch'[c]) = {}
    BY <2>3 DEF HeldBy
  <2> QED
    BY <1>c, <2>2, <2>3, <2>4, <2>5 DEF Agrees, BeforeSeal, c
<1>8. CASE SealOpen(c)
  <2>1. p.pc = "seal" /\ p.held = None /\ HeldBy(p) = {} /\ UNCHANGED <<source, sealed, unit>>
    BY <1>8 DEF SealOpen, SealerUnchanged, unitVars, At, HeldBy
  <2>2. PICK e \in p.todo :
          IF ~p.cancelled /\ e \in source[r].ents /\ SealableEntry(e) /\ SealerLimits(sealed[r].ents \cup {e})
          THEN Go(c, [p EXCEPT !.held = e, !.todo = @ \ {e}])
          ELSE Fails(c, "rollback", BudgetError(c))
    BY <1>0, <1>8 DEF SealOpen
  <2>3. e \in source[r].ents /\ e \in SourceEntries /\ StageableEntry(e)
    BY <1>l, <1>q, <2>1
  <2>4. SealableEntry(e) /\ e # None
    BY <2>3, NoneIsNoEntry DEF SealableEntry, SourceEntries, EntryType
  <2>5. SealerLimits(sealed[r].ents \cup {e})
    <3> DEFINE T == source[r].ents
               D == T \ p.todo
    <3>1. sealed[r].ents = {SealedEntry(x) : x \in D} /\ e \in T \ D
      BY <1>l, <2>1, <2>3
    <3>2. T \in SUBSET SourceEntries /\ Countable(T) /\ WithinLimits(T) /\ D \in SUBSET T
          /\ \A x \in T : StageableEntry(x)
      BY <1>q, <2>1
    <3> HIDE DEF T, D
    <3> QED
      BY <3>1, <3>2, SealedPart
  <2>6. Go(c, [p EXCEPT !.held = e, !.todo = @ \ {e}])
    BY <1>c, <2>2, <2>3, <2>4, <2>5
  <2>7. /\ lch'[c].pc = "seal" /\ lch'[c].listed = p.listed /\ lch'[c].todo = p.todo \ {e}
        /\ lch'[c].held = e /\ lch'[c].result = p.result /\ ~lch'[c].cancelled
    BY <1>0, <1>c, <2>1, <2>6 DEF Go, Processes
  <2>8. HeldBy(lch'[c]) = {e} /\ lch'[c].todo \cup {e} = p.todo \cup HeldBy(p)
    BY <2>1, <2>2, <2>4, <2>7 DEF HeldBy
  <2>9. /\ lch'[c].listed = source[r].ents /\ lch'[c].todo \cup HeldBy(lch'[c]) \subseteq source[r].ents
        /\ lch'[c].todo \cap HeldBy(lch'[c]) = {}
        /\ sealed[r].ents = {SealedEntry(x) : x \in source[r].ents \ (lch'[c].todo \cup HeldBy(lch'[c]))}
    BY <1>l, <2>1, <2>7, <2>8
  <2> QED
    BY <1>c, <2>1, <2>7, <2>9 DEF Agrees, BeforeSeal, c
<1>9. CASE SealCopy(c)
  <2> DEFINE e == p.held
  <2>1. p.pc = "seal" /\ e # None /\ HeldBy(p) = {e} /\ UNCHANGED <<source, unit>>
    BY <1>9 DEF SealCopy, SealerUnchanged, unitVars, At, HeldBy
  <2>2. e \in source[r].ents /\ e \notin p.todo
    BY <1>l, <2>1
  <2>3. sealed' = [sealed EXCEPT ![r].ents = @ \cup {SealedEntry(e)}] /\ Go(c, [p EXCEPT !.held = None])
    BY <1>0, <1>9, <1>c, <2>2 DEF SealCopy
  <2>4. /\ lch'[c].pc = "seal" /\ lch'[c].listed = p.listed /\ lch'[c].todo = p.todo
        /\ lch'[c].held = None /\ lch'[c].result = p.result /\ ~lch'[c].cancelled
    BY <1>0, <1>c, <2>1, <2>3 DEF Go, Processes
  <2>5. sealed'[r].ents = sealed[r].ents \cup {SealedEntry(e)}
    BY <1>0, <2>3 DEF Copies
  <2>6. HeldBy(lch'[c]) = {}
    BY <2>4 DEF HeldBy
  <2> HIDE DEF e
  <2>7. sealed'[r].ents = {SealedEntry(x) : x \in source[r].ents \ p.todo}
    <3>1. source[r].ents \ p.todo = (source[r].ents \ (p.todo \cup {e})) \cup {e}
      BY <2>2
    <3>2. sealed[r].ents = {SealedEntry(x) : x \in source[r].ents \ (p.todo \cup {e})}
      BY <1>l, <2>1
    <3> QED
      BY <2>5, <3>1, <3>2
  <2>8. /\ lch'[c].listed = source[r].ents /\ lch'[c].todo \cup HeldBy(lch'[c]) \subseteq source[r].ents
        /\ lch'[c].todo \cap HeldBy(lch'[c]) = {}
        /\ sealed'[r].ents = {SealedEntry(x) : x \in source[r].ents \ (lch'[c].todo \cup HeldBy(lch'[c]))}
    BY <1>l, <2>1, <2>4, <2>6, <2>7
  <2> QED
    BY <1>c, <2>1, <2>4, <2>8 DEF Agrees, BeforeSeal, c
<1>10. CASE SealPublish(c)
  <2>1. p.pc = "seal" /\ p.todo = {} /\ HeldBy(p) = {}
    BY <1>10 DEF SealPublish, At, HeldBy
  <2>2. sealed' = [sealed EXCEPT ![r].at = "ready"] /\ Step(c, "sealed") /\ UNCHANGED <<source, unit>>
    BY <1>0, <1>10, <1>c, <1>l, <2>1 DEF SealPublish, SealerUnchanged, unitVars
  <2>3. lch'[c].pc = "sealed" /\ lch'[c].result = p.result /\ ~lch'[c].cancelled
    BY <1>c, <1>p, <1>t, <2>2 DEF Executing
  <2>4. sealed'[r].ents = {SealedEntry(x) : x \in source[r].ents}
    <3>1. sealed'[r].ents = sealed[r].ents
      BY <1>0, <2>2 DEF Copies
    <3>2. source[r].ents \ (p.todo \cup HeldBy(p)) = source[r].ents
      BY <2>1
    <3> QED
      BY <1>l, <2>1, <3>1, <3>2
  <2>5. Countable(sealed'[r].ents) /\ WorkspaceTreeValid(sealed'[r].ents, "private") /\ ControlFileFree(sealed'[r].ents)
    <3> DEFINE T == source[r].ents
    <3>1. T \in SUBSET SourceEntries /\ Countable(T) /\ WithinLimits(T) /\ \A x \in T : StageableEntry(x)
      BY <1>q, <2>1
    <3>2. sealed'[r].ents = {SealedEntry(x) : x \in T} /\ T \in SUBSET T
      BY <2>4
    <3> HIDE DEF T
    <3> QED
      BY <3>1, <3>2, SealedPart
  <2> QED
    BY <1>c, <2>2, <2>3, <2>5 DEF Agrees, BeforeSeal, c
<1>11. CASE SealCleanSource(c)
  <2>1. p.pc = "sealed" /\ UNCHANGED <<sealed, unit>> /\ Step(c, "consume")
    BY <1>0, <1>11, <1>w, <1>z DEF SealCleanSource, RemoveSource, SealerUnchanged, unitVars, At
  <2>2. lch'[c].pc = "consume" /\ lch'[c].result = p.result /\ ~lch'[c].cancelled
    BY <1>c, <1>p, <1>t, <2>1 DEF Executing
  <2> QED
    BY <1>a, <1>c, <2>1, <2>2 DEF Agrees, BeforeSeal, c
\* The verifications of the sealed tree.
<1>12. CASE ConsumeWorkspace(c)
  <2>1. /\ p.pc = "consume" /\ UNCHANGED <<source, unit>>
        /\ Countable(sealed[r].ents) /\ WorkspaceTreeValid(sealed[r].ents, "private") /\ ControlFileFree(sealed[r].ents)
    BY <1>12, <1>a DEF ConsumeWorkspace, unitVars, At, Agrees
  <2>2. sealed' = [sealed EXCEPT ![r].at = "consumed"] /\ Step(c, "grant")
    BY <1>0, <1>12, <1>c, <2>1 DEF ConsumeWorkspace
  <2>3. sealed'[r].ents = sealed[r].ents
    BY <1>0, <2>2 DEF Copies
  <2>4. lch'[c].pc = "grant" /\ lch'[c].result = p.result /\ ~lch'[c].cancelled
    BY <1>c, <1>p, <1>t, <2>2 DEF Executing
  <2> QED
    BY <1>c, <2>1, <2>3, <2>4 DEF Agrees, BeforeSeal, c
<1>13. CASE GrantAccess(c)
  <2>1. /\ p.pc = "grant" /\ UNCHANGED <<source, unit>>
        /\ Countable(sealed[r].ents) /\ WorkspaceTreeValid(sealed[r].ents, "private")
    BY <1>13, <1>a DEF GrantAccess, unitVars, At, Agrees
  <2>2. WorkspaceTreeValid(GrantGroupRead(sealed[r].ents), "group")
    <3>1. sealed[r].ents \in SUBSET SealedEntries
      BY <1>0 DEF Copies
    <3> QED
      BY <2>1, <3>1, GrantedPart
  <2>3. Step(c, "start")
    BY <1>0, <1>13, <1>c, <2>2 DEF GrantAccess
  <2>4. lch'[c].pc = "start" /\ lch'[c].result = p.result /\ ~lch'[c].cancelled
    BY <1>c, <1>p, <1>t, <2>3 DEF Executing
  <2> QED
    BY <1>c, <2>1, <2>4 DEF Agrees, BeforeSeal, c
\* The unit.
<1>14. CASE StartUnit(c)
  <2>1. unit' = [unit EXCEPT ![r] = "boot"] /\ Step(c, "prompt")
    BY <1>0, <1>14, <1>c, <1>z DEF StartUnit
  <2>2. unit'[r] = "boot"
    BY <1>0, <2>1
  <2>3. lch'[c].pc = "prompt" /\ ~lch'[c].cancelled
    BY <1>c, <1>p, <1>t, <2>1 DEF Executing
  <2> QED
    BY <2>2, <2>3 DEF Agrees, BeforeSeal, c
<1>15. CASE WritePrompt(c) \/ Poll(c) \/ UnitDone(c)
  <2>1. /\ p.pc \in {"prompt", "wait"} /\ UNCHANGED unit
        /\ \/ Step(c, "wait")
           \/ \E x \in {"stop", "cleanup"}, y \in {"error", "cancelled", "timed_out", "failed", "completed"} : Fails(c, x, y)
    BY <1>15 DEF WritePrompt, Poll, UnitDone, unitVars, At
  <2>2. unit'[r] # "none"
    BY <1>a, <2>1 DEF Agrees
  <2>3. lch'[c].pc \in {"wait", "stop", "cleanup"} /\ ~lch'[c].cancelled
    BY <1>c, <1>p, <1>t, <2>1 DEF Executing
  <2> QED
    BY <2>2, <2>3 DEF Agrees, BeforeSeal, c
<1>16. CASE StopUnit(c)
  <2>1. unit' = [unit EXCEPT ![r] = IF @ = "ok" THEN "ok" ELSE "dead"] /\ Step(c, "cleanup")
    BY <1>0, <1>16, <1>z DEF StopUnit
  <2>2. unit'[r] # "none"
    BY <1>0, <2>1
  <2>3. lch'[c].pc = "cleanup" /\ ~lch'[c].cancelled
    BY <1>c, <1>p, <1>t, <2>1 DEF Executing
  <2> QED
    BY <2>2, <2>3 DEF Agrees, BeforeSeal, c
<1>17. CASE CleanWorkspace(c)
  <2>1. p.pc = "cleanup" /\ UNCHANGED unit /\ (Step(c, "finish") \/ Fails(c, "finish", "error"))
    BY <1>17 DEF CleanWorkspace, unitVars, At
  <2>2. unit'[r] # "none"
    BY <1>a, <2>1 DEF Agrees
  <2>3. lch'[c].pc = "finish" /\ ~lch'[c].cancelled
    BY <1>c, <1>p, <1>t, <2>1
  <2> QED
    BY <2>2, <2>3 DEF Agrees, BeforeSeal, c
<1> QED
  BY <1>1, <1>2, <1>3, <1>4, <1>5, <1>6, <1>7, <1>8, <1>9, <1>10, <1>11, <1>12, <1>13, <1>14, <1>15, <1>16, <1>17
  DEF c, LauncherStep, CodexLauncherNext, InputSealerNext, IsolatedExecutionNext

\* Nobody else gets in the way of a launcher whose client waits.
LEMMA AgreeStep == IInv /\ LimitInv /\ AgreeInv /\ [Next]_vars => AgreeInv'
<1> SUFFICES ASSUME IInv, LimitInv, AgreeInv, [Next]_vars, faults' = 0 PROVE AgreeInv'
  BY DEF AgreeInv, AgreeOf
<1>0. /\ Types /\ LinkInv /\ BotTypes /\ ConnTypes /\ bot \in Bots /\ (bot.pc # "idle" => run \in Runs)
      /\ sock \in [Conns -> {"none", "open", "closed"}]
      /\ unit \in [Runs -> {"none", "boot", "codex", "ok", "dead"}]
      /\ \A r \in Runs : E(r) \in Conns /\ P(r) \in Conns /\ BotSound(r)
  BY RunConns DEF IInv, Types, BotTypes, ConnTypes, UnitTypes, LinkInv
<1>z. faults = 0 /\ ~Fault /\ gone = {}
  BY <1>0, Faultless DEF AgreeInv
<1>a. \A r \in Runs : sock[E(r)] = "open" => Agrees(lch[E(r)], source[r], sealed[r], unit[r])
  BY <1>z DEF AgreeInv, AgreeOf
\* It is enough to look at the runs whose client waits after the step.
<1>b. ASSUME UNCHANGED gone,
             \A r \in Runs : sock'[E(r)] = "open" => Agrees(lch'[E(r)], source'[r], sealed'[r], unit'[r])
      PROVE  AgreeInv'
  BY <1>b, <1>z DEF AgreeInv, AgreeOf, E
\* What a step leaves alone for a client that was waiting before it.
<1>c. ASSUME NEW r \in Runs, sock[E(r)] = "open", lch'[E(r)] = lch[E(r)], source'[r] = source[r],
             sealed'[r] = sealed[r], unit'[r] # "none" \/ unit'[r] = unit[r]
      PROVE  Agrees(lch'[E(r)], source'[r], sealed'[r], unit'[r])
  <2>1. Agrees(lch[E(r)], source[r], sealed[r], unit[r])
    BY <1>a, <1>c
  <2> QED
    BY <1>c, <2>1 DEF Agrees
<1>1. CASE StartAttempt
  <2>1. UNCHANGED <<sock, gone, lch, source, sealed, unit>>
    BY <1>1 DEF StartAttempt, RunnerUnchanged, launcherVars, unitVars, socketVars
  <2> QED
    BY <1>b, <1>c, <2>1 DEF E
<1>2. CASE CallPreflight
  <2>0. run \in Runs /\ UNCHANGED <<gone, source, sealed, unit>> /\ bot.pc = "preflight"
    BY <1>0, <1>2 DEF CallPreflight, unitVars
  <2>1. Exchange(P(run), PreflightRequest)
    BY <1>2, <1>z DEF CallPreflight, Connect, P
  <2>2. sock[P(run)] = "none"
    BY <1>0, <2>0 DEF BotSound
  <2>3. \A d \in Conns \ {P(run)} : sock'[d] = sock[d] /\ lch'[d] = lch[d]
    BY <1>0, <2>0, <2>1, <2>2, Opened
  <2>4. \A r \in Runs : sock'[E(r)] = sock[E(r)] /\ lch'[E(r)] = lch[E(r)]
    BY <1>0, <2>0, <2>3, RunConns
  <2> QED
    BY <1>b, <1>c, <2>0, <2>4
<1>3. CASE CallExecute
  <2>0. run \in Runs /\ UNCHANGED <<gone, source, sealed, unit>> /\ bot.pc = "call"
    BY <1>0, <1>3 DEF CallExecute, unitVars
  <2>1. CASE Exchange(E(run), ExecuteRequest(run, settings))
    <3>1. sock[E(run)] = "none"
      BY <1>0, <2>0 DEF BotSound, Early, Staging
    <3>2. /\ lch'[E(run)].pc = "auth" /\ lch'[E(run)].result = "none" /\ lch'[E(run)].cancelled = FALSE
          /\ \A d \in Conns \ {E(run)} : sock'[d] = sock[d] /\ lch'[d] = lch[d]
      BY <1>0, <2>0, <2>1, <3>1, Opened
    <3>3. source[run].at = "pending"
      BY <2>0 DEF IInv, PlaceInv, Staging
    <3>4. Agrees(lch'[E(run)], source'[run], sealed'[run], unit'[run])
      BY <2>0, <3>2, <3>3 DEF Agrees
    <3>5. \A r \in Runs \ {run} : sock'[E(r)] = sock[E(r)] /\ lch'[E(r)] = lch[E(r)]
      BY <1>0, <2>0, <3>2, RunConns
    <3> QED
      BY <1>b, <1>c, <2>0, <3>4, <3>5
  <2>2. CASE UNCHANGED <<sock, sent, lch>>
    BY <1>b, <1>c, <2>0, <2>2 DEF E
  <2> QED
    BY <1>3, <1>z, <2>1, <2>2 DEF CallExecute, Connect, E
<1>4. ASSUME NEW c \in Conns, ReceiveResponse(c) \/ ReceiveEof(c) \/ ReceiveTimeout(c) PROVE AgreeInv'
  <2>1. sock' = [sock EXCEPT ![c] = "closed"] /\ UNCHANGED <<gone, lch, source, sealed, unit>>
    BY <1>4 DEF ReceiveResponse, ReceiveEof, ReceiveTimeout, CloseWith, RunnerUnchanged, launcherVars, unitVars
  <2>2. \A r \in Runs : sock'[E(r)] = "open" => sock[E(r)] = "open"
    BY <1>0, <2>1
  <2> QED
    BY <1>b, <1>c, <2>1, <2>2
<1>5. CASE BotCrash \/ HostChanges
  BY <1>5, <1>z DEF BotCrash, HostChanges
<1>6. CASE BotInner
  <2>1. UNCHANGED <<sock, lch, gone, sealed, unit>> /\ (bot.pc = "await_execute" => UNCHANGED source)
    BY <1>0, <1>6, BotInnerFrame
  <2>2. \A r \in Runs : sock[E(r)] = "open" => bot.pc = "await_execute"
    BY <1>0 DEF BotSound
  <2> QED
    BY <1>b, <1>c, <2>1, <2>2 DEF E
<1>7. ASSUME NEW c \in Conns, LauncherStep(c) PROVE AgreeInv'
  <2>1. UNCHANGED <<sock, gone>> /\ \A d \in Conns \ {c} : lch'[d] = lch[d]
    BY <1>0, <1>7, LauncherFrame
  <2>2. ASSUME NEW r \in Runs, sock'[E(r)] = "open" PROVE Agrees(lch'[E(r)], source'[r], sealed'[r], unit'[r])
    <3>1. CASE c = E(r)
      BY <1>7, <2>1, <2>2, <3>1, LauncherAgrees
    <3>2. CASE c = P(r)
      <4>1. UNCHANGED <<source, sealed, unit>>
        <5>1. c \notin ExecuteConns /\ CodexLauncherNext(c)
          BY <1>7, <3>2, RunConns DEF LauncherStep, ExecuteConns, P
        <5> QED
          BY <5>1 DEF CodexLauncherNext, Authorise, ConfirmPeer, LookAtPeer, ReceiveRequest, AnswerPreflight,
             NoticeDisconnect, FinishExecution, LauncherKilled, LauncherUnchanged, unitVars
      <4>2. lch'[E(r)] = lch[E(r)]
        BY <1>0, <2>1, <3>2, RunConns
      <4> QED
        BY <1>c, <2>1, <2>2, <4>1, <4>2
    <3>3. CASE Run(c) # r
      <4>1. source'[r] = source[r] /\ sealed'[r] = sealed[r] /\ unit'[r] = unit[r]
        BY <1>0, <1>7, <3>3, LauncherDisk
      <4>2. lch'[E(r)] = lch[E(r)]
        BY <1>0, <2>1, <3>3, RunConns
      <4> QED
        BY <1>c, <2>1, <2>2, <4>1, <4>2
    <3> QED
      BY <3>1, <3>2, <3>3, RunConns
  <2> QED
    BY <1>b, <2>1, <2>2
<1>8. CASE (\E r \in Runs : RuntimeUnitNext(r)) \/ UNCHANGED vars
  <2>1. UNCHANGED <<sock, gone, lch, source, sealed>>
    BY <1>8, OuterFrame
  <2>2. UNCHANGED unit \/ \E s \in Runs, u \in {"codex", "ok", "dead"} : unit' = [unit EXCEPT ![s] = u]
    BY <1>8 DEF RuntimeUnitNext, BootRuntime, RunCodex, SystemdRunExit, SystemdRunLost, BindsTo, vars
  <2>3. \A r \in Runs : unit'[r] # "none" \/ unit'[r] = unit[r]
    BY <1>0, <2>2
  <2> QED
    BY <1>b, <1>c, <2>1, <2>3 DEF E
<1> QED
  BY <1>1, <1>2, <1>3, <1>4, <1>5, <1>6, <1>7, <1>8, NextSteps

\* The inductive invariant with the limits: what is staged can be counted and is within them,
\* and while the client waits and nothing goes wrong every check of the launcher is passed.
THEOREM LimitsInvariant == Spec => [](IInv /\ LimitInv /\ AgreeInv)
<1>1. Init => LimitInv /\ AgreeInv
  <2> SUFFICES ASSUME Init PROVE LimitInv /\ AgreeInv
    OBVIOUS
  <2>1. bot.pc = "idle" /\ gone = {} /\ \A r \in Runs : source[r].ents = {} /\ sock[E(r)] = "none"
    BY RunConns DEF Init, IdleBot, NoSource
  <2> QED
    BY <2>1, EmptyTree DEF LimitInv, AgreeInv, AgreeOf
<1>2. IInv /\ LimitInv /\ AgreeInv /\ [Next]_vars => LimitInv' /\ AgreeInv'
  BY LimitStep, AgreeStep DEF IInv
<1>3. IInv /\ [Next]_vars => IInv'
  BY TypesStep, LinkStep, PlaceStep, StageStep, SealStep, HostStep DEF IInv
<1> QED
  BY <1>1, <1>2, <1>3, InitIInv, PTL DEF Spec

\* A workspace the launcher may take holds only plain files and directories with allowed names,
\* each a copy of one version of its source, and is within the limits: nothing else gets past
\* the staging, whatever is written to the evidence meanwhile, and it stays so while bot and
\* launcher empty and move the directory.
THEOREM PublishedWorkspacesAreClean == Spec => []PublishedIsClean
<1>1. IInv /\ LimitInv => PublishedIsClean
  BY DEF IInv, StageInv, EntriesSound, Untorn, StageableEntry, LimitInv, PublishedIsClean
<1> QED
  BY <1>1, LimitsInvariant, PTL

\* What one stage has accepted the next does not refuse, as long as the client waits and no
\* fault is met: neither the quarantine and the sealing copy nor the two verifications what the
\* bot has staged, with limits, names, kinds and modes of their own; nor the execution, for the
\* host, what the preflight has admitted.
THEOREM ChecksAlwaysAgree == Spec => []ChecksAgree
<1>1. IInv /\ AgreeInv => NoLateRejection
  <2> SUFFICES ASSUME IInv, AgreeInv, NEW c \in ExecuteConns, sock[c] = "open", faults = 0, lch[c].result = "error"
               PROVE  unit[Run(c)] # "none"
    BY DEF NoLateRejection
  <2>1. c = E(Run(c)) /\ Run(c) \in Runs
    BY RunConns
  <2>2. AgreeOf(Run(c))
    BY <2>1 DEF AgreeInv
  <2>3. Agrees(lch[c], source[Run(c)], sealed[Run(c)], unit[Run(c)])
    BY <2>1, <2>2 DEF AgreeOf
  <2> QED
    BY <2>3 DEF Agrees
<1> QED
  BY <1>1, LimitsInvariant, PreflightSuffices, PTL DEF ChecksAgree
=============================================================================
