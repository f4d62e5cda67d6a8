-------------------------- MODULE IsolatedRunProofs --------------------------
(***************************************************************************)
(* Proofs about the isolated runs of Codex, for any number of runs and     *)
(* faults, any evidence, settings and limits.                              *)
(***************************************************************************)
EXTENDS IsolatedRun, TLAPS

(***************************************************************************)
(* The types the actions rely on.                                          *)
(***************************************************************************)
EvidenceEntries == EntryType({"evidence"})
SourceEntries   == EntryType({"source"})
SealedEntries   == EntryType({"private", "group"})

BotPcs == {"idle", "preflight", "await_preflight", "stage", "copy", "verify", "abort",
           "call", "await_execute", "clean", "removing", "spawn", "child"}
Bots == [pc : BotPcs, todo : SUBSET EvidenceEntries, held : {None} \cup EvidenceEntries,
         listed : SUBSET EvidenceEntries, got : BOOLEAN]

Sources == [at : {"none", "pending", "quarantine"}, mode : {"private", "source"},
            ents : SUBSET SourceEntries]
Copies == [at : {"none", "staging", "ready", "consumed"}, ents : SUBSET SealedEntries]

ProcessPcs == Executing \cup {"none", "auth", "confirm", "receive", "preflight", "finish", "exited"}
Results == {"none", "completed", "timed_out", "failed", "unavailable", "error", "cancelled"}
Processes == [pc : ProcessPcs, cancelled : BOOLEAN, todo : SUBSET SourceEntries,
              held : {None} \cup SourceEntries, listed : SUBSET SourceEntries, result : Results]

BotTypes ==
  /\ settings \in Settings /\ host \subseteq HostParts
  /\ evidence \subseteq EvidenceEntries /\ OnDisk(evidence)
  /\ run \in {NoRun} \cup Runs
  /\ bot \in Bots /\ (bot.pc # "idle" => run \in Runs)
  /\ outcome \in [Runs -> {"none", "ok", "error"}]
DiskTypes ==
  /\ source \in [Runs -> Sources] /\ sealed \in [Runs -> Copies]
  /\ seen \in [Runs -> SUBSET SealedEntries]
ConnTypes ==
  /\ lch \in [Conns -> Processes]
  /\ sock \in [Conns -> {"none", "open", "closed"}]
  /\ DOMAIN sent = Conns /\ DOMAIN resp = Conns
UnitTypes ==
  /\ unit \in [Runs -> {"none", "boot", "codex", "ok", "dead"}]
  /\ sysrun \in [Runs -> {"none", "running", "ok", "failed"}]

Types == BotTypes /\ DiskTypes /\ ConnTypes /\ UnitTypes /\ faults \in 0 .. MaxFaults

(***************************************************************************)
(* The bot, its connections and the launchers.                             *)
(***************************************************************************)
E(r) == <<r, "execute">>
P(r) == <<r, "preflight">>

Staging == {"stage", "copy", "verify", "abort", "call"}
Early   == Staging \cup {"preflight", "await_preflight", "spawn", "child"}

\* A connection that was not opened has no launcher and no answer, and a launcher that
\* has answered is gone.
ConnSound(c) ==
  /\ sock[c] = "none" => lch[c] = NoProcess /\ resp[c] = NoPacket
  /\ resp[c] # NoPacket => lch[c].pc = "exited"

\* The bot opens each connection of its run once and waits while it is open; the
\* preflight's launcher is gone before the workspace is staged.
BotSound(r) ==
  /\ sock[E(r)] = "open" <=> run = r /\ bot.pc = "await_execute"
  /\ r > run \/ (r = run /\ bot.pc \in Early) => sock[E(r)] = "none"
  /\ r > run \/ (r = run /\ bot.pc = "preflight") => sock[P(r)] = "none"
  /\ (r = run /\ bot.pc \in Staging) \/ sock[E(r)] # "none" => lch[P(r)].pc = "exited"

LinkInv ==
  /\ \A c \in Conns : ConnSound(c)
  /\ \A r \in Runs : BotSound(r)
  /\ bot.got => bot.pc \in {"clean", "removing"} /\ lch[E(run)].pc = "exited"

(***************************************************************************)
(* Where the copies of a workspace are, and who has to remove them.        *)
(***************************************************************************)
Holding == {"copy", "verify", "abort", "call", "await_execute", "clean", "removing"}
Quarantined == {"staging", "seal", "sealed", "rollback"}
Consumed == {"grant", "start", "prompt", "wait", "stop", "cleanup"}

PlaceOf(r) ==
  /\ lch[E(r)].pc \in Quarantined => source[r].at = "quarantine"
  /\ lch[E(r)].pc = "seal" => sealed[r].at = "staging"
  /\ lch[E(r)].pc \in {"sealed", "consume"} => sealed[r].at = "ready"
  /\ lch[E(r)].pc \in Consumed => sealed[r].at = "consumed"
  /\ lch[E(r)].pc = "start" => sealed[r].ents \subseteq EntryType({"group"})
  /\ seen[r] \subseteq EntryType({"group"})

\* Everything on disk has somebody who will remove it, or a fault that stopped them.
OwnerOf(r) ==
  r \notin left =>
    /\ source[r].at = "pending" => run = r /\ bot.pc \in Holding
    /\ source[r].at = "quarantine" => lch[E(r)].pc \in Quarantined
    /\ sealed[r].at # "none" =>
         lch[E(r)].pc \in {"seal", "sealed", "rollback", "consume"} \cup Consumed

\* A unit that was not let go runs under its launcher, or after a launcher that was killed.
UnitOf(r) ==
  r \notin loose /\ RunningUnit(r) =>
    /\ sealed[r].at = "consumed"
    /\ \/ lch[E(r)].pc \in {"prompt", "wait", "stop"} /\ sysrun[r] = "running"
       \/ lch[E(r)].pc = "exited"

PlaceInv ==
  /\ bot.pc \in Staging \ {"stage"} => source[run].at = "pending"
  /\ \A r \in Runs : PlaceOf(r) /\ OwnerOf(r) /\ UnitOf(r)

(***************************************************************************)
(* What the bot's copy holds.                                              *)
(***************************************************************************)
HeldBy(p) == IF p.held = None THEN {} ELSE {p.held}
Untorn(tree) == \A e \in tree : e.body # Torn

\* The entries still to be copied, the one held open and those copied are the listing,
\* and only the one that is to be verified may be torn, when it has been written since.
StagingSound ==
  bot.pc \in {"copy", "verify"} =>
    /\ Names(source[run].ents \cup bot.todo \cup HeldBy(bot)) = Names(bot.listed)
    /\ source[run].mode = "private"
    /\ bot.pc = "copy" => Untorn(source[run].ents)
    /\ bot.pc = "verify" => bot.held # None /\ bot.held.name \in Names(source[run].ents)
    /\ bot.held # None =>
         /\ StageableEntry(bot.held)
         /\ bot.held \in evidence /\ bot.pc = "verify" => Untorn(source[run].ents)
         /\ \E e \in evidence : e.name = bot.held.name /\ e.body >= bot.held.body

\* A published copy is whole until the bot gives up waiting.
PublishedSound ==
  bot.pc \in {"call", "await_execute"} /\ source[run].at # "none" =>
    Names(source[run].ents) = Names(bot.listed) /\ source[run].mode = "source"

EntriesSound(r) ==
  /\ \A e \in source[r].ents : StageableEntry(e)
  /\ source[r].mode = "source" => Untorn(source[r].ents)

StageInv ==
  /\ StagingSound /\ PublishedSound
  /\ bot.pc = "abort" => source[run].mode = "private"
  /\ bot.pc \notin {"copy", "verify", "abort"} => bot.held = None
  /\ \A r \in Runs : EntriesSound(r)

(***************************************************************************)
(* What the launcher's copy holds.                                         *)
(***************************************************************************)
BeforeSeal == {"auth", "confirm", "receive", "prepare", "quarantine", "staging"}

\* There is no copy before there is a launcher, and while it is made the entries still to
\* be copied, the one held open and those copied are the listing.
SealSound(r) ==
  /\ sock[E(r)] = "none" => sealed[r].at = "none"
  /\ lch[E(r)].pc \in BeforeSeal => lch[E(r)].held = None
  /\ lch[E(r)].pc = "seal" =>
       /\ Names(sealed[r].ents \cup lch[E(r)].todo \cup HeldBy(lch[E(r)])) = Names(lch[E(r)].listed)
       /\ Untorn(lch[E(r)].todo \cup HeldBy(lch[E(r)]))

\* While the client waits, what Codex can be started on, and what it was started on, is
\* the whole listing.
WholeWhileOpen(r) ==
  sock[E(r)] = "open" =>
    /\ sealed[r].at \in {"ready", "consumed"} => Names(sealed[r].ents) = Names(bot.listed)
    /\ lch[E(r)].pc \in {"prompt", "wait"} \/ lch[E(r)].result = "completed" \/ resp[E(r)].kind = "completed"
         => Names(seen[r]) = Names(bot.listed)

SealInv ==
  /\ \A r \in Runs : SealSound(r) /\ WholeWhileOpen(r) /\ Untorn(sealed[r].ents) /\ Untorn(seen[r])
  /\ bot.got => Names(seen[run]) = Names(bot.listed)

(***************************************************************************)
(* What the preflight found, holds as long as nothing goes wrong.          *)
(***************************************************************************)
HostInv ==
  faults = 0 =>
    /\ \A r \in Runs :
         \/ ValidPreflightResponse(resp[P(r)]) /\ resp[P(r)] # NoPacket
         \/ r = run /\ bot.pc \in Staging
         \/ sock[E(r)] # "none"
         => preflight
    /\ \A c \in ExecuteConns : lch[c].result # "unavailable"

IInv == Types /\ LinkInv /\ PlaceInv /\ StageInv /\ SealInv /\ HostInv


-----------------------------------------------------------------------------
(***************************************************************************)
(* Runs, connections and entries.                                          *)
(***************************************************************************)

\* A run has two connections.
LEMMA RunConns ==
  /\ \A r \in Runs : E(r) \in Conns /\ P(r) \in Conns /\ E(r) \in ExecuteConns /\ Run(E(r)) = r
  /\ \A c \in Conns : Run(c) \in Runs /\ (c = E(Run(c)) \/ c = P(Run(c)))
  /\ \A c \in ExecuteConns : c \in Conns /\ Run(c) \in Runs /\ c = E(Run(c))
  /\ \A r, s \in Runs : E(r) # P(s) /\ (E(r) = E(s) => r = s) /\ (P(r) = P(s) => r = s)
  BY DEF Conns, ExecuteConns, E, P, Run

\* Runs are numbered from 1.
LEMMA RunNumbers == Runs \subseteq Nat /\ NoRun \notin Runs /\ MaxRuns \in Nat
                    /\ \A r \in {NoRun} \cup Runs : r < MaxRuns => r + 1 \in Runs
  BY RunAssumption DEF Runs, NoRun

\* No entry is taken for none.
LEMMA NoneIsNoEntry == \A access : None \notin EntryType(access)
<1> SUFFICES ASSUME NEW access, None \in EntryType(access) PROVE FALSE
  OBVIOUS
<1>1. DOMAIN None = {"name"}
  BY DEF None
<1>2. "kind" \in DOMAIN None
  BY DEF EntryType
<1> QED
  BY <1>1, <1>2

\* The copies of an entry.
LEMMA StagedEntryType ==
  ASSUME NEW e \in EvidenceEntries, NEW body \in {Torn} \cup Nat
  PROVE  /\ StagedEntry(e, body) \in SourceEntries
         /\ StagedEntry(e, body).name = e.name /\ StagedEntry(e, body).body = body
         /\ StageableEntry(e) => StageableEntry(StagedEntry(e, body))
  BY DEF EvidenceEntries, SourceEntries, EntryType, StagedEntry, StageableEntry, BaseName

\* The launcher's copy of a staged entry keeps its name and its contents.
LEMMA SealedEntryType ==
  ASSUME NEW e \in SourceEntries
  PROVE  /\ SealedEntry(e) \in SealedEntries
         /\ SealedEntry(e).name = e.name /\ SealedEntry(e).body = e.body
  BY DEF SourceEntries, SealedEntries, EntryType, SealedEntry

\* So does an entry made readable to the group, which stays a sealed entry.
LEMMA GrantedEntryType ==
  ASSUME NEW e \in SealedEntries
  PROVE  /\ GrantedEntry(e) \in SealedEntries /\ GrantedEntry(e) \in EntryType({"group"})
         /\ GrantedEntry(e).name = e.name /\ GrantedEntry(e).body = e.body
  BY DEF SealedEntries, EntryType, GrantedEntry

\* Making a copy readable to the group changes neither names nor contents.
LEMMA GrantedTree ==
  ASSUME NEW tree \in SUBSET SealedEntries
  PROVE  /\ GrantGroupRead(tree) \subseteq SealedEntries /\ GrantGroupRead(tree) \subseteq EntryType({"group"})
         /\ Names(GrantGroupRead(tree)) = Names(tree)
         /\ Untorn(tree) => Untorn(GrantGroupRead(tree))
  BY GrantedEntryType DEF GrantGroupRead, Names, Untorn

(***************************************************************************)
(* What the control operators do.                                          *)
(***************************************************************************)

\* One launcher moves, the others do not.
LEMMA GoUpdates ==
  ASSUME ConnTypes, NEW c \in Conns, NEW p \in Processes, Go(c, p)
  PROVE  /\ lch' \in [Conns -> Processes] /\ lch'[c] = p
         /\ \A d \in Conns \ {c} : lch'[d] = lch[d]
  BY DEF ConnTypes, Go

\* A step of a launcher process to another point changes that process only.
LEMMA StepUpdates ==
  ASSUME ConnTypes, NEW c \in Conns, NEW pc \in ProcessPcs, Step(c, pc)
  PROVE  /\ lch' \in [Conns -> Processes] /\ lch'[c].pc = pc
         /\ lch'[c].todo = lch[c].todo /\ lch'[c].held = lch[c].held /\ lch'[c].listed = lch[c].listed
         /\ lch'[c].result = lch[c].result /\ lch'[c].cancelled = lch[c].cancelled
         /\ \A d \in Conns \ {c} : lch'[d] = lch[d]
<1> DEFINE p == [lch[c] EXCEPT !.pc = pc]
<1>1. /\ p \in Processes /\ p.pc = pc /\ p.todo = lch[c].todo /\ p.held = lch[c].held
      /\ p.listed = lch[c].listed /\ p.result = lch[c].result /\ p.cancelled = lch[c].cancelled
  BY DEF ConnTypes, Processes
<1>2. Go(c, p)
  BY DEF Step
<1> HIDE DEF p
<1> QED
  BY <1>1, <1>2, GoUpdates

\* A failing step records its result, and changes that process only.
LEMMA FailsUpdates ==
  ASSUME ConnTypes, NEW c \in Conns, NEW pc \in ProcessPcs, NEW result \in Results, Fails(c, pc, result)
  PROVE  /\ lch' \in [Conns -> Processes] /\ lch'[c].pc = pc /\ lch'[c].result = result
         /\ lch'[c].cancelled = lch[c].cancelled
         /\ \A d \in Conns \ {c} : lch'[d] = lch[d]
<1> DEFINE p == [lch[c] EXCEPT !.pc = pc, !.result = result]
<1>1. p \in Processes /\ p.pc = pc /\ p.result = result /\ p.cancelled = lch[c].cancelled
  BY DEF ConnTypes, Processes
<1>2. Go(c, p)
  BY DEF Fails
<1> HIDE DEF p
<1> QED
  BY <1>1, <1>2, GoUpdates

\* An exit keeps the result of the process, and changes that process only.
LEMMA ExitUpdates ==
  ASSUME ConnTypes, NEW c \in Conns, Exit(c)
  PROVE  /\ lch' \in [Conns -> Processes] /\ lch'[c].pc = "exited" /\ lch'[c].result = lch[c].result
         /\ lch'[c].cancelled = lch[c].cancelled
         /\ \A d \in Conns \ {c} : lch'[d] = lch[d]
<1> DEFINE p == [lch[c] EXCEPT !.pc = "exited", !.todo = {}, !.held = None, !.listed = {}]
<1>1. p \in Processes /\ p.pc = "exited" /\ p.result = lch[c].result /\ p.cancelled = lch[c].cancelled
  BY DEF ConnTypes, Processes, ProcessPcs
<1>2. Go(c, p)
  BY DEF Exit
<1> HIDE DEF p
<1> QED
  BY <1>1, <1>2, GoUpdates

\* The results an operation can end with.
LEMMA BudgetErrors == \A c : BudgetError(c) \in Results
  BY DEF BudgetError, Results


-----------------------------------------------------------------------------
\* Every variable keeps its type.
LEMMA TypesStep == Types /\ [Next]_vars => Types'
<1> SUFFICES ASSUME Types, [Next]_vars PROVE Types'
  OBVIOUS
<1>0. BotTypes /\ DiskTypes /\ ConnTypes /\ UnitTypes /\ faults \in 0 .. MaxFaults /\ bot \in Bots
  BY DEF Types, BotTypes
<1>f. Fault \/ NoFault => faults' \in 0 .. MaxFaults
  BY <1>0, RunAssumption DEF Fault, NoFault
\* What a step leaves alone keeps its type.
<1>b. UNCHANGED <<botVars, evidence>> => BotTypes'
  BY <1>0 DEF BotTypes, botVars, OnDisk
<1>d. UNCHANGED <<source, sealed, seen>> => DiskTypes'
  BY <1>0 DEF DiskTypes
<1>u. UNCHANGED <<unit, sysrun>> => UnitTypes'
  BY <1>0 DEF UnitTypes
\* The bot's own steps.
<1>c. ASSUME NEW b \in Bots, Continue(b), UNCHANGED <<settings, host, evidence, run>>, run \in Runs
      PROVE  BotTypes'
  BY <1>0, <1>c DEF BotTypes, Continue, OnDisk
<1>e. ASSUME NEW ok \in BOOLEAN, EndAttempt(ok), UNCHANGED <<settings, host, evidence, run>>
      PROVE  BotTypes'
  <2>1. IdleBot \in Bots /\ IdleBot.pc = "idle"
    BY DEF IdleBot, Bots, BotPcs
  <2> QED
    BY <1>0, <1>e, <2>1 DEF BotTypes, EndAttempt, OnDisk
<1>1. CASE StartAttempt
  <2>1. bot' \in Bots
    BY <1>0, <1>1 DEF StartAttempt, IdleBot, Bots, BotPcs
  <2>2. run' \in Runs
    BY <1>0, <1>1, RunNumbers DEF StartAttempt, BotTypes
  <2>3. BotTypes'
    BY <1>0, <1>1, <2>1, <2>2 DEF StartAttempt, BotTypes, OnDisk, RunnerUnchanged
  <2> QED
    BY <1>0, <1>1, <1>d, <1>f, <1>u, <2>3
    DEF Types, StartAttempt, RunnerUnchanged, launcherVars, unitVars, socketVars, ConnTypes

<1>2. ASSUME NEW c \in Conns, NEW request, Exchange(c, request), UNCHANGED resp PROVE ConnTypes'
  <2>1. lch' \in [Conns -> Processes]
    BY <1>0, <1>2 DEF ConnTypes, Exchange, Processes, ProcessPcs
  <2> QED
    BY <1>0, <1>2, <2>1 DEF ConnTypes, Exchange
<1>k. UNCHANGED <<lch, sock, sent, resp>> => ConnTypes'
  BY <1>0 DEF ConnTypes
<1>3. CASE CallPreflight
  <2>1. run \in Runs /\ P(run) \in Conns /\ UNCHANGED <<settings, host, run, evidence, resp>>
    BY <1>0, <1>3, RunConns DEF CallPreflight, BotTypes
  <2>2. BotTypes'
    <3>1. [bot EXCEPT !.pc = "await_preflight"] \in Bots
      BY <1>0 DEF Bots, BotPcs
    <3> QED
      BY <1>3, <1>c, <1>e, <2>1, <3>1 DEF CallPreflight, Connect
  <2>3. ConnTypes'
    BY <1>2, <1>3, <1>k, <2>1 DEF CallPreflight, Connect, P
  <2> QED
    BY <1>3, <1>d, <1>f, <1>u, <2>2, <2>3 DEF Types, CallPreflight, Connect, unitVars
<1>4. CASE CallExecute
  <2>1. run \in Runs /\ E(run) \in Conns /\ UNCHANGED <<settings, host, run, evidence, resp>>
    BY <1>0, <1>4, RunConns DEF CallExecute, BotTypes
  <2>2. BotTypes'
    <3>1. [bot EXCEPT !.pc = "await_execute"] \in Bots /\ [bot EXCEPT !.pc = "clean"] \in Bots
      BY <1>0 DEF Bots, BotPcs
    <3> QED
      BY <1>4, <1>c, <1>e, <2>1, <3>1 DEF CallExecute, Connect
  <2>3. ConnTypes'
    BY <1>2, <1>4, <1>k, <2>1 DEF CallExecute, Connect, E
  <2> QED
    BY <1>4, <1>d, <1>f, <1>u, <2>2, <2>3 DEF Types, CallExecute, Connect, unitVars
<1>5. ASSUME NEW c \in Conns, NEW ok \in BOOLEAN, Awaiting(c), CloseWith(c, ok), Fault \/ NoFault
      PROVE  Types'
  <2>1. run \in Runs
    BY <1>0, <1>5 DEF Awaiting, BotTypes
  <2>2. [bot EXCEPT !.pc = "stage"] \in Bots /\ [bot EXCEPT !.pc = "clean", !.got = ok] \in Bots
    BY <1>0 DEF Bots, BotPcs
  <2>3. BotTypes'
    BY <1>5, <1>c, <1>e, <2>1, <2>2 DEF CloseWith, RunnerUnchanged
  <2>4. ConnTypes'
    BY <1>0, <1>5 DEF CloseWith, RunnerUnchanged, launcherVars, ConnTypes
  <2> QED
    BY <1>5, <1>d, <1>f, <1>u, <2>3, <2>4 DEF Types, CloseWith, RunnerUnchanged, launcherVars, unitVars
<1>6. ASSUME NEW c \in Conns, ReceiveResponse(c) \/ ReceiveEof(c) \/ ReceiveTimeout(c) PROVE Types'
  BY <1>5, <1>6 DEF ReceiveResponse, ReceiveEof, ReceiveTimeout, ValidPreflightResponse, ValidExecuteResponse
<1>7. CASE BotCrash
  <2>1. BotTypes'
    BY <1>7, <1>e DEF BotCrash
  <2>2. ConnTypes'
    BY <1>0, <1>7 DEF BotCrash, ConnTypes, launcherVars
  <2> QED
    BY <1>7, <1>d, <1>f, <1>u, <2>1, <2>2 DEF Types, BotCrash, launcherVars, unitVars
<1>8. CASE SpawnChild
  <2>1. [bot EXCEPT !.pc = "child"] \in Bots /\ run \in Runs
    BY <1>0, <1>8 DEF Bots, BotPcs, SpawnChild, BotTypes
  <2>2. BotTypes'
    BY <1>8, <1>c, <1>e, <2>1 DEF SpawnChild, ChildUnchanged
  <2> QED
    BY <1>8, <1>d, <1>f, <1>k, <1>u, <2>2
    DEF Types, SpawnChild, ChildUnchanged, launcherVars, unitVars, socketVars
<1>9. CASE ChildExit \/ TerminateChild \/ GroupExit
  <2>1. UNCHANGED <<settings, host, evidence, run, bot, outcome>>
    BY <1>9 DEF ChildExit, TerminateChild, GroupExit, ChildUnchanged
  <2>2. BotTypes'
    BY <1>0, <2>1 DEF BotTypes, OnDisk
  <2> QED
    BY <1>9, <1>d, <1>f, <1>k, <1>u, <2>2
    DEF Types, ChildExit, TerminateChild, GroupExit, ChildUnchanged, launcherVars, unitVars, socketVars
<1>10. CASE CollectChild
  <2>1. BotTypes'
    BY <1>10, <1>e DEF CollectChild, ChildUnchanged
  <2> QED
    BY <1>10, <1>d, <1>f, <1>k, <1>u, <2>1
    DEF Types, CollectChild, ChildUnchanged, launcherVars, unitVars, socketVars
\* The staging.
<1>s. ASSUME StagingUnchanged, BotTypes', source' \in [Runs -> Sources], Fault \/ NoFault PROVE Types'
  <2>1. ConnTypes' /\ UnitTypes'
    BY <1>k, <1>s, <1>u DEF StagingUnchanged, launcherVars, socketVars
  <2>2. DiskTypes'
    BY <1>0, <1>s DEF StagingUnchanged, launcherVars, DiskTypes
  <2> QED
    BY <1>f, <1>s, <2>1, <2>2 DEF Types
<1>h. source \in [Runs -> Sources] /\ (StagingUnchanged => UNCHANGED <<settings, host, evidence, run>>)
  BY <1>0 DEF DiskTypes, StagingUnchanged
<1>11. CASE StageBegin
  <2>1. run \in Runs /\ evidence \subseteq EvidenceEntries
    BY <1>0, <1>11 DEF StageBegin, BotTypes
  <2>2. [bot EXCEPT !.pc = "copy", !.listed = Listing(evidence, <<>>), !.todo = Listing(evidence, <<>>)] \in Bots
    <3>1. Listing(evidence, <<>>) \subseteq EvidenceEntries
      BY <2>1 DEF Listing
    <3> QED
      BY <1>0, <3>1 DEF Bots, BotPcs
  <2>3. BotTypes'
    BY <1>11, <1>c, <1>e, <1>h, <2>1, <2>2 DEF StageBegin
  <2>4. [at |-> "pending", mode |-> "private", ents |-> {}] \in Sources
    BY DEF Sources
  <2>5. source' \in [Runs -> Sources]
    BY <1>11, <1>h, <2>4 DEF StageBegin, CreateRunDirectory
  <2> QED
    BY <1>11, <1>s, <2>3, <2>5 DEF StageBegin
<1>12. CASE StageOpen
  <2>0. evidence \subseteq EvidenceEntries /\ \A x \in evidence : Inside(x) \subseteq EvidenceEntries
    BY <1>0 DEF BotTypes, Inside, Listing
  <2>1. /\ run \in Runs /\ [bot EXCEPT !.pc = "abort"] \in Bots
        /\ \A e \in bot.todo, x \in evidence : [bot EXCEPT !.held = x, !.todo = (@ \ {e}) \cup Inside(x), !.listed = @ \cup Inside(x)] \in Bots
    BY <1>0, <1>12, <2>0 DEF StageOpen, Bots, BotPcs, BotTypes
  <2>2. BotTypes'
    BY <1>12, <1>c, <1>h, <2>1 DEF StageOpen
  <2> QED
    BY <1>12, <1>h, <1>s, <2>2 DEF StageOpen
<1>13. CASE StageCopy
  <2>1. /\ run \in Runs /\ [bot EXCEPT !.pc = "verify"] \in Bots
        /\ bot.held \in EvidenceEntries
    BY <1>0, <1>13 DEF StageCopy, Bots, BotPcs, BotTypes
  <2>2. BotTypes'
    BY <1>13, <1>c, <1>h, <2>1 DEF StageCopy
  <2> DEFINE e == StagedEntry(bot.held, IF bot.held \in evidence THEN bot.held.body ELSE Torn)
  <2>3. bot.held.body \in {Torn} \cup Nat
    BY <2>1 DEF EvidenceEntries, EntryType
  <2>4. e \in SourceEntries
    BY <2>1, <2>3, StagedEntryType
  <2>5. source' = [source EXCEPT ![run].ents = @ \cup {e}]
    BY <1>13 DEF StageCopy
  <2> HIDE DEF e
  <2>6. source' \in [Runs -> Sources]
    BY <1>h, <2>1, <2>4, <2>5 DEF Sources
  <2> QED
    BY <1>13, <1>s, <2>2, <2>6 DEF StageCopy
<1>14. CASE StageVerify \/ StageFail
  <2>1. /\ run \in Runs /\ [bot EXCEPT !.pc = "copy", !.held = None] \in Bots
        /\ [bot EXCEPT !.pc = "abort"] \in Bots
    BY <1>0, <1>14 DEF StageVerify, StageFail, Bots, BotPcs, BotTypes
  <2>2. BotTypes'
    BY <1>14, <1>c, <1>h, <2>1 DEF StageVerify, StageFail
  <2> QED
    BY <1>14, <1>h, <1>s, <2>2 DEF StageVerify, StageFail
<1>15. CASE StagePublish
  <2>1. /\ run \in Runs /\ [bot EXCEPT !.pc = "call"] \in Bots /\ [bot EXCEPT !.pc = "abort"] \in Bots
    BY <1>0, <1>15 DEF StagePublish, Bots, BotPcs, BotTypes
  <2>2. BotTypes'
    BY <1>15, <1>c, <1>h, <2>1 DEF StagePublish
  <2>3. source' \in [Runs -> Sources]
    BY <1>15, <1>h, <2>1 DEF StagePublish, Sources
  <2> QED
    BY <1>15, <1>s, <2>2, <2>3 DEF StagePublish
<1>n. NoSource \in Sources /\ NoSealed \in Copies
  BY DEF NoSource, NoSealed, Sources, Copies
<1>16. CASE StageAbort \/ CleanPendingFail
  <2>1. BotTypes'
    BY <1>16, <1>e, <1>h DEF StageAbort, CleanPendingFail
  <2>2. source' \in [Runs -> Sources]
    BY <1>16, <1>h, <1>n DEF StageAbort, CleanPendingFail
  <2> QED
    BY <1>16, <1>s, <2>1, <2>2 DEF StageAbort, CleanPendingFail
<1>17. CASE CleanPending
  <2>1. run \in Runs /\ [bot EXCEPT !.pc = "removing"] \in Bots /\ bot.got \in BOOLEAN
    BY <1>0, <1>17 DEF CleanPending, Bots, BotPcs, BotTypes
  <2>2. BotTypes'
    BY <1>17, <1>c, <1>e, <1>h, <2>1 DEF CleanPending
  <2> QED
    BY <1>17, <1>h, <1>s, <2>2 DEF CleanPending
<1>18. CASE RemovePendingEntry
  <2>1. BotTypes'
    BY <1>0, <1>18 DEF RemovePendingEntry, StagingUnchanged, BotTypes, OnDisk
  <2>2. run \in Runs
    BY <1>0, <1>18 DEF RemovePendingEntry, BotTypes
  <2>3. source' \in [Runs -> Sources]
    BY <1>18, <1>h, <2>2 DEF RemovePendingEntry, Sources
  <2> QED
    BY <1>18, <1>s, <2>1, <2>3 DEF RemovePendingEntry
<1>19. CASE RemovePendingDirectory
  <2>1. run \in Runs /\ (bot.got /\ source[run].at = "pending") \in BOOLEAN
    BY <1>0, <1>19 DEF RemovePendingDirectory, BotTypes
  <2>2. BotTypes'
    BY <1>19, <1>e, <1>h, <2>1 DEF RemovePendingDirectory
  <2>3. source' \in [Runs -> Sources]
    BY <1>19, <1>h, <1>n, <2>1 DEF RemovePendingDirectory
  <2> QED
    BY <1>19, <1>s, <2>2, <2>3 DEF RemovePendingDirectory
<1>20. CASE EvidenceWrite
  <2>1. evidence' \subseteq EvidenceEntries /\ OnDisk(evidence')
    <3>0. evidence \subseteq EvidenceEntries /\ OnDisk(evidence)
      BY <1>0 DEF BotTypes
    <3>1. ASSUME NEW e \in evidence, evidence' = (evidence \ {e}) \cup {[e EXCEPT !.body = @ + 1]}
          PROVE  evidence' \subseteq EvidenceEntries /\ OnDisk(evidence')
      <4> DEFINE x == [e EXCEPT !.body = @ + 1]
      <4>1. e \in EvidenceEntries /\ e.body \in Nat
        BY <3>0 DEF OnDisk, EvidenceEntries, EntryType
      <4>2. x \in EvidenceEntries /\ x.body # Torn /\ x.name = e.name
        BY <4>1 DEF EvidenceEntries, EntryType, Torn
      <4>3. evidence' = (evidence \ {e}) \cup {x}
        BY <3>1
      <4> HIDE DEF x
      <4> QED
        BY <3>0, <4>2, <4>3 DEF OnDisk
    <3>2. ASSUME NEW e \in evidence, NEW name \in Paths \ Names(evidence),
                 evidence' = evidence \cup
                   {[e EXCEPT !.name = name, !.depth = Len(name) - 1, !.kind = "file", !.links = 1]}
          PROVE  evidence' \subseteq EvidenceEntries /\ OnDisk(evidence')
      <4> DEFINE x == [e EXCEPT !.name = name, !.depth = Len(name) - 1, !.kind = "file", !.links = 1]
      <4>0. Len(name) - 1 \in Nat
        BY PathsAssumption
      <4>1. e \in EvidenceEntries /\ e.body # Torn
        BY <3>0 DEF OnDisk
      <4>2. x \in EvidenceEntries /\ x.body # Torn /\ x.name = name
        BY <4>0, <4>1 DEF EvidenceEntries, EntryType
      <4>3. evidence' = evidence \cup {x}
        BY <3>2
      <4> HIDE DEF x
      <4> QED
        BY <3>0, <3>2, <4>2, <4>3 DEF OnDisk, Names
    <3> QED
      BY <1>20, <3>1, <3>2 DEF EvidenceWrite
  <2>2. BotTypes'
    BY <1>0, <1>20, <2>1 DEF BotTypes, EvidenceWrite, botVars, OnDisk
  <2> QED
    BY <1>20, <1>d, <1>f, <1>k, <1>u, <2>2 DEF Types, EvidenceWrite, launcherVars, unitVars, socketVars

\* The launcher.
<1>l. ASSUME NEW c \in Conns,
             \/ \E pc \in ProcessPcs : Step(c, pc)
             \/ \E pc \in ProcessPcs, result \in Results : Fails(c, pc, result)
             \/ Exit(c)
             \/ \E p \in Processes : Go(c, p)
      PROVE  lch' \in [Conns -> Processes]
  BY <1>0, <1>l, StepUpdates, FailsUpdates, ExitUpdates, GoUpdates
<1>p. /\ \A c : BudgetError(c) \in Results
      /\ {"none", "completed", "timed_out", "failed", "unavailable", "error", "cancelled"} \subseteq Results
      /\ {"prepare", "quarantine", "staging", "seal", "sealed", "rollback", "consume", "grant", "start",
          "prompt", "wait", "stop", "cleanup", "confirm", "receive", "preflight", "finish"} \subseteq ProcessPcs
  BY BudgetErrors DEF Results, ProcessPcs, Executing
<1>v. ASSUME lch' \in [Conns -> Processes], UNCHANGED <<botVars, evidence, sock, sent, source, sealed, seen>>,
             UnitTypes', DOMAIN resp' = Conns, Fault \/ NoFault
      PROVE  Types'
  <2>1. ConnTypes'
    BY <1>0, <1>v DEF ConnTypes
  <2> QED
    BY <1>b, <1>d, <1>f, <1>v, <2>1 DEF Types
<1>r. DOMAIN resp = Conns /\ \A c, v : DOMAIN [resp EXCEPT ![c] = v] = Conns
  BY <1>0 DEF ConnTypes
<1>21. ASSUME NEW c \in Conns, NEW next \in ProcessPcs, LookAtPeer(c, next) PROVE Types'
  <2>1. lch' \in [Conns -> Processes]
    BY <1>21, <1>l DEF LookAtPeer
  <2> QED
    BY <1>21, <1>r, <1>u, <1>v, <2>1 DEF LookAtPeer, LauncherUnchanged, unitVars
<1>22. ASSUME NEW c \in Conns, Authorise(c) \/ ConfirmPeer(c) PROVE Types'
  BY <1>21, <1>22, <1>p DEF Authorise, ConfirmPeer
<1>23. ASSUME NEW c \in Conns, ReceiveRequest(c) \/ AnswerPreflight(c) \/ FinishExecution(c) PROVE Types'
  <2>1. lch' \in [Conns -> Processes]
    BY <1>23, <1>l, <1>p DEF ReceiveRequest, AnswerPreflight, FinishExecution
  <2>2. DOMAIN resp' = Conns
    BY <1>23, <1>r DEF ReceiveRequest, AnswerPreflight, FinishExecution
  <2> QED
    BY <1>23, <1>u, <1>v, <2>1, <2>2
    DEF ReceiveRequest, AnswerPreflight, FinishExecution, LauncherUnchanged, unitVars
<1>24. ASSUME NEW c \in Conns, NoticeDisconnect(c) PROVE Types'
  <2>1. [lch[c] EXCEPT !.cancelled = TRUE] \in Processes
    BY <1>0 DEF ConnTypes, Processes
  <2>2. lch' \in [Conns -> Processes]
    BY <1>24, <1>l, <2>1 DEF NoticeDisconnect
  <2> QED
    BY <1>24, <1>r, <1>u, <1>v, <2>2 DEF NoticeDisconnect, LauncherUnchanged, unitVars
<1>25. ASSUME NEW c \in Conns, LauncherKilled(c) PROVE Types'
  <2>1. lch' \in [Conns -> Processes] /\ Run(c) \in Runs
    BY <1>25, <1>l, RunConns DEF LauncherKilled
  <2>2. UnitTypes'
    BY <1>0, <1>25, <2>1 DEF LauncherKilled, UnitTypes
  <2> QED
    BY <1>25, <1>r, <1>v, <2>1, <2>2 DEF LauncherKilled, socketVars
\* The sealing and the execution.
<1>w. ASSUME lch' \in [Conns -> Processes], UNCHANGED <<botVars, evidence>>, UNCHANGED socketVars,
             DiskTypes', UnitTypes', Fault \/ NoFault
      PROVE  Types'
  <2>1. ConnTypes'
    BY <1>0, <1>w DEF ConnTypes, socketVars
  <2> QED
    BY <1>b, <1>f, <1>w, <2>1 DEF Types
<1>x. ASSUME NEW c \in ExecuteConns
      PROVE  c \in Conns /\ Run(c) \in Runs /\ lch[c] \in Processes
  BY <1>0, RunConns DEF ConnTypes
<1>26. ASSUME NEW c \in ExecuteConns, SealQuarantine(c) \/ SealStage(c) \/ SealOpen(c) \/ SealCopy(c)
                                      \/ SealPublish(c) \/ SealFail(c)
       PROVE Types'
  <2>1. lch' \in [Conns -> Processes]
    <3>1. CASE SealQuarantine(c) \/ SealPublish(c) \/ SealFail(c)
      BY <1>l, <1>p, <1>x, <3>1 DEF SealQuarantine, SealPublish, SealFail
    <3>2. CASE SealStage(c)
      <4>1. source[Run(c)].ents \subseteq SourceEntries
        BY <1>h, <1>x DEF Sources
      <4>2. [lch[c] EXCEPT !.pc = "seal", !.listed = source[Run(c)].ents, !.todo = source[Run(c)].ents] \in Processes
        BY <1>p, <1>x, <4>1 DEF Processes
      <4> QED
        BY <1>l, <1>p, <1>x, <3>2, <4>2 DEF SealStage
    <3>3. CASE SealOpen(c)
      <4>1. \A e \in lch[c].todo : [lch[c] EXCEPT !.held = e, !.todo = @ \ {e}] \in Processes
        BY <1>x DEF Processes
      <4> QED
        BY <1>l, <1>p, <1>x, <3>3, <4>1 DEF SealOpen
    <3>4. CASE SealCopy(c)
      <4>1. [lch[c] EXCEPT !.held = None] \in Processes
        BY <1>x DEF Processes
      <4> QED
        BY <1>l, <1>p, <1>x, <3>4, <4>1 DEF SealCopy
    <3> QED
      BY <1>26, <3>1, <3>2, <3>3, <3>4
  <2>2. source' \in [Runs -> Sources]
    BY <1>26, <1>h, <1>x DEF SealQuarantine, SealStage, SealOpen, SealCopy, SealPublish, SealFail, Sources
  <2>3. sealed' \in [Runs -> Copies]
    <3>0. sealed \in [Runs -> Copies]
      BY <1>0 DEF DiskTypes
    <3>1. CASE SealCopy(c)
      <4>1. lch[c].held \in SourceEntries
        BY <1>x, <3>1 DEF SealCopy, Processes
      <4>2. SealedEntry(lch[c].held) \in SealedEntries
        BY <4>1, SealedEntryType
      <4> QED
        BY <1>x, <3>0, <3>1, <4>2 DEF SealCopy, Copies
    <3>2. CASE SealStage(c)
      <4>1. [at |-> "staging", ents |-> {}] \in Copies
        BY DEF Copies
      <4> QED
        BY <1>x, <3>0, <3>2, <4>1 DEF SealStage
    <3>3. CASE SealPublish(c)
      BY <1>x, <3>0, <3>3 DEF SealPublish, Copies
    <3>4. CASE SealQuarantine(c) \/ SealOpen(c) \/ SealFail(c)
      BY <3>0, <3>4 DEF SealQuarantine, SealOpen, SealFail
    <3> QED
      BY <1>26, <3>1, <3>2, <3>3, <3>4
  <2>4. UNCHANGED seen /\ UNCHANGED <<botVars, evidence>> /\ UNCHANGED socketVars /\ UNCHANGED unitVars
        /\ (Fault \/ NoFault)
    BY <1>26 DEF SealQuarantine, SealStage, SealOpen, SealCopy, SealPublish, SealFail, SealerUnchanged
  <2>5. DiskTypes'
    BY <1>0, <2>2, <2>3, <2>4 DEF DiskTypes
  <2> QED
    BY <1>u, <1>w, <2>1, <2>4, <2>5 DEF unitVars
<1>27. ASSUME NEW c \in ExecuteConns, SealCleanSource(c) \/ SealRollback(c) PROVE Types'
  <2>1. lch' \in [Conns -> Processes]
    BY <1>27, <1>l, <1>p, <1>x DEF SealCleanSource, SealRollback, RemoveSource
  <2>2. UNCHANGED seen /\ UNCHANGED <<botVars, evidence>> /\ UNCHANGED socketVars /\ UNCHANGED unitVars
        /\ (Fault \/ NoFault)
    BY <1>27 DEF SealCleanSource, SealRollback, RemoveSource, SealerUnchanged
  <2>3. DiskTypes'
    BY <1>0, <1>27, <1>n, <1>x, <2>2 DEF SealCleanSource, SealRollback, RemoveSource, DiskTypes
  <2> QED
    BY <1>u, <1>w, <2>1, <2>2, <2>3 DEF unitVars
<1>28. ASSUME NEW c \in ExecuteConns, PrepareExecution(c) \/ WritePrompt(c) \/ Poll(c) \/ UnitDone(c) PROVE Types'
  <2>1. lch' \in [Conns -> Processes]
    BY <1>28, <1>l, <1>p, <1>x DEF PrepareExecution, current_launcher_unit_fails, WritePrompt, Poll, UnitDone
  <2>2. UNCHANGED <<source, sealed, seen>> /\ UNCHANGED <<botVars, evidence>> /\ UNCHANGED socketVars
        /\ UNCHANGED unitVars /\ (Fault \/ NoFault)
    BY <1>28 DEF PrepareExecution, current_launcher_unit_fails, WritePrompt, Poll, UnitDone, ExecutionUnchanged
  <2> QED
    BY <1>d, <1>u, <1>w, <2>1, <2>2 DEF unitVars
<1>29. ASSUME NEW c \in ExecuteConns, ConsumeWorkspace(c) \/ GrantAccess(c) \/ VerifyFail(c) \/ CleanWorkspace(c)
       PROVE Types'
  <2>1. lch' \in [Conns -> Processes]
    BY <1>29, <1>l, <1>p, <1>x DEF ConsumeWorkspace, GrantAccess, VerifyFail, CleanWorkspace
  <2>2. UNCHANGED <<source, seen>> /\ UNCHANGED <<botVars, evidence>> /\ UNCHANGED socketVars
        /\ UNCHANGED unitVars /\ (Fault \/ NoFault)
    BY <1>29 DEF ConsumeWorkspace, GrantAccess, VerifyFail, CleanWorkspace, ExecutionUnchanged, DropSealed
  <2>3. sealed' \in [Runs -> Copies]
    <3>0. sealed \in [Runs -> Copies] /\ sealed[Run(c)].ents \in SUBSET SealedEntries
      BY <1>0, <1>x DEF DiskTypes, Copies
    <3>1. GrantGroupRead(sealed[Run(c)].ents) \in SUBSET SealedEntries
      BY <3>0, GrantedTree
    <3> QED
      BY <1>29, <1>n, <1>x, <3>0, <3>1 DEF ConsumeWorkspace, GrantAccess, VerifyFail, CleanWorkspace, DropSealed, Copies
  <2>4. DiskTypes'
    BY <1>0, <2>2, <2>3 DEF DiskTypes
  <2> QED
    BY <1>u, <1>w, <2>1, <2>2, <2>4 DEF unitVars
<1>30. ASSUME NEW c \in ExecuteConns, StartUnit(c) \/ StopUnit(c) PROVE Types'
  <2>1. lch' \in [Conns -> Processes]
    BY <1>30, <1>l, <1>p, <1>x DEF StartUnit, StopUnit
  <2>2. UNCHANGED <<source, sealed>> /\ UNCHANGED <<botVars, evidence>> /\ UNCHANGED socketVars
        /\ (Fault \/ NoFault)
    BY <1>30 DEF StartUnit, StopUnit, ExecutionUnchanged
  <2>3. UnitTypes'
    BY <1>0, <1>30, <1>x DEF StartUnit, StopUnit, UnitTypes
  <2>4. sealed[Run(c)].ents \in SUBSET SealedEntries
    BY <1>0, <1>x DEF DiskTypes, Copies
  <2>5. DiskTypes'
    BY <1>0, <1>30, <1>x, <2>2, <2>4 DEF StartUnit, StopUnit, DiskTypes
  <2> QED
    BY <1>w, <2>1, <2>2, <2>3, <2>5
\* The unit and the host.
<1>31. ASSUME NEW r \in Runs, RuntimeUnitNext(r) PROVE Types'
  <2>1. UnitTypes'
    BY <1>0, <1>31 DEF RuntimeUnitNext, BootRuntime, RunCodex, SystemdRunExit, SystemdRunLost, BindsTo, UnitTypes
  <2>2. UNCHANGED <<source, sealed, seen, lch>> /\ UNCHANGED <<botVars, evidence>> /\ UNCHANGED socketVars
        /\ (Fault \/ NoFault)
    BY <1>31 DEF RuntimeUnitNext, BootRuntime, RunCodex, SystemdRunExit, SystemdRunLost, BindsTo, UnitUnchanged,
       launcherVars
  <2> QED
    BY <1>b, <1>d, <1>f, <1>k, <2>1, <2>2 DEF Types, socketVars
<1>32. CASE HostChanges
  <2>1. BotTypes'
    BY <1>0, <1>32 DEF HostChanges, BotTypes, OnDisk
  <2> QED
    BY <1>32, <1>d, <1>f, <1>k, <1>u, <2>1 DEF Types, HostChanges
<1>33. CASE UNCHANGED vars
  BY <1>b, <1>d, <1>f, <1>k, <1>u, <1>33 DEF Types, vars, botVars, NoFault
<1> QED
  BY <1>1, <1>3, <1>4, <1>6, <1>7, <1>8, <1>9, <1>10, <1>11, <1>12, <1>13, <1>14, <1>15, <1>16, <1>17, <1>18,
     <1>19, <1>20, <1>22, <1>23, <1>24, <1>25, <1>26, <1>27, <1>28, <1>29, <1>30, <1>31, <1>32, <1>33
  DEF Next, CodexRunnerNext, RunnerInputNext, CodexLauncherNext, InputSealerNext, IsolatedExecutionNext


\* An attempt that is over.
LEMMA Ended ==
  ASSUME NEW ok, EndAttempt(ok)
  PROVE  bot'.pc = "idle" /\ bot'.got = FALSE /\ bot'.listed = {} /\ bot'.held = None
  BY DEF EndAttempt, IdleBot

\* The steps of the bot that are about neither a connection nor the start of an attempt, and
\* the launchers': what they leave alone, and where they lead.
BotInner == SpawnChild \/ ChildExit \/ TerminateChild \/ CollectChild \/ GroupExit \/ RunnerInputNext

\* Those steps of the bot leave the launchers, the sockets and the units alone.
LEMMA BotInnerFrame ==
  ASSUME BotTypes, BotInner
  PROVE  /\ UNCHANGED <<sock, lch, resp, gone, run, sealed, seen, unit, sysrun, loose, settings, host>>
         /\ bot.pc = "await_execute" => UNCHANGED source
         /\ bot.pc \notin {"await_execute", "await_preflight", "preflight"} \/ UNCHANGED bot
         /\ bot'.pc \notin {"await_execute", "await_preflight", "preflight", "spawn", "stage"} \/ UNCHANGED bot
         /\ bot'.pc \in Early => bot.pc \in Early
         /\ bot'.pc \in Staging => bot.pc \in Staging
         /\ bot'.got => bot.got /\ (bot.pc \in {"clean", "removing"} => bot'.pc \in {"clean", "removing"})
<1>0. bot \in Bots
  BY DEF BotTypes
<1>1. CASE SpawnChild
  BY <1>0, <1>1, Ended DEF SpawnChild, Continue, ChildUnchanged, launcherVars, unitVars, socketVars, Bots, Early,
     Staging
<1>2. CASE ChildExit \/ TerminateChild \/ GroupExit
  BY <1>2 DEF ChildExit, TerminateChild, GroupExit, ChildUnchanged, launcherVars, unitVars, socketVars
<1>3. CASE CollectChild
  BY <1>3, Ended DEF CollectChild, ChildUnchanged, launcherVars, unitVars, socketVars, Early, Staging
<1>4. CASE StageBegin \/ StageAbort
  BY <1>0, <1>4, Ended DEF StageBegin, StageAbort, Continue, StagingUnchanged, launcherVars, socketVars, Bots,
     Early, Staging
<1>5. CASE StageOpen
  BY <1>0, <1>5 DEF StageOpen, Continue, StagingUnchanged, launcherVars, socketVars, Bots, Early, Staging
<1>6. CASE StageCopy \/ StageVerify \/ StagePublish \/ StageFail
  BY <1>0, <1>6 DEF StageCopy, StageVerify, StagePublish, StageFail, Continue, StagingUnchanged, launcherVars,
     socketVars, Bots, Early, Staging
<1>7. CASE CleanPending \/ RemovePendingDirectory \/ CleanPendingFail
  BY <1>0, <1>7, Ended DEF CleanPending, RemovePendingDirectory, CleanPendingFail, Continue, StagingUnchanged,
     launcherVars, socketVars, Bots, Early, Staging
<1>8. CASE RemovePendingEntry
  BY <1>8 DEF RemovePendingEntry, StagingUnchanged, launcherVars, socketVars
<1>9. CASE EvidenceWrite
  BY <1>9 DEF EvidenceWrite, botVars, launcherVars, unitVars, socketVars
<1> QED
  BY <1>1, <1>2, <1>3, <1>4, <1>5, <1>6, <1>7, <1>8, <1>9 DEF BotInner, RunnerInputNext

\* A step of the launcher on connection c.
LauncherStep(c) ==
  \/ CodexLauncherNext(c)
  \/ c \in ExecuteConns /\ (InputSealerNext(c) \/ IsolatedExecutionNext(c))

\* A launcher's step leaves the bot and the other launchers alone; it answers as it exits.
LEMMA LauncherFrame ==
  ASSUME ConnTypes, NEW c \in Conns, LauncherStep(c)
  PROVE  /\ UNCHANGED <<sock, sent, gone, run, bot, settings, host, evidence>>
         /\ lch[c].pc \notin {"none", "exited"}
         /\ \A d \in Conns \ {c} : lch'[d] = lch[d] /\ resp'[d] = resp[d]
         /\ resp'[c] = resp[c] \/ lch'[c].pc = "exited"
<1>0. lch \in [Conns -> Processes] /\ DOMAIN resp = Conns
  BY DEF ConnTypes
<1>1. UNCHANGED <<sock, sent, gone, run, bot, settings, host, evidence>>
  <2>1. CASE CodexLauncherNext(c)
    BY <2>1 DEF CodexLauncherNext, Authorise, ConfirmPeer, LookAtPeer, ReceiveRequest, AnswerPreflight,
       NoticeDisconnect, FinishExecution, LauncherKilled, LauncherUnchanged, botVars, socketVars
  <2>2. CASE InputSealerNext(c)
    BY <2>2 DEF InputSealerNext, SealQuarantine, SealStage, SealOpen, SealCopy, SealPublish, SealCleanSource,
       SealFail, SealRollback, SealerUnchanged, botVars, socketVars
  <2>3. CASE IsolatedExecutionNext(c)
    BY <2>3 DEF IsolatedExecutionNext, PrepareExecution, current_launcher_unit_fails,
       ConsumeWorkspace, GrantAccess, VerifyFail, StartUnit,
       WritePrompt, Poll, UnitDone, StopUnit, CleanWorkspace, ExecutionUnchanged, botVars, socketVars
  <2> QED
    BY <2>1, <2>2, <2>3 DEF LauncherStep
<1>2. lch[c].pc \notin {"none", "exited"}
  <2>1. CASE CodexLauncherNext(c)
    BY <2>1 DEF CodexLauncherNext, Authorise, ConfirmPeer, ReceiveRequest, AnswerPreflight,
       NoticeDisconnect, FinishExecution, LauncherKilled, At, Executing
  <2>2. CASE InputSealerNext(c)
    BY <2>2 DEF InputSealerNext, SealQuarantine, SealStage, SealOpen, SealCopy, SealPublish, SealCleanSource,
       SealFail, SealRollback, At
  <2>3. CASE IsolatedExecutionNext(c)
    BY <2>3 DEF IsolatedExecutionNext, PrepareExecution, current_launcher_unit_fails,
       ConsumeWorkspace, GrantAccess, VerifyFail, StartUnit,
       WritePrompt, Poll, UnitDone, StopUnit, CleanWorkspace, At
  <2> QED
    BY <2>1, <2>2, <2>3 DEF LauncherStep
<1>3. \E p : Go(c, p)
  <2>1. CASE CodexLauncherNext(c)
    BY <2>1 DEF CodexLauncherNext, Authorise, ConfirmPeer, LookAtPeer, ReceiveRequest, AnswerPreflight,
       NoticeDisconnect, FinishExecution, LauncherKilled, Exit, Step
  <2>2. CASE InputSealerNext(c)
    BY <2>2 DEF InputSealerNext, SealQuarantine, SealStage, SealOpen, SealCopy, SealPublish, SealCleanSource,
       SealFail, SealRollback, RemoveSource, Step, Fails
  <2>3. CASE IsolatedExecutionNext(c)
    BY <2>3 DEF IsolatedExecutionNext, PrepareExecution, current_launcher_unit_fails,
       ConsumeWorkspace, GrantAccess, VerifyFail, StartUnit,
       WritePrompt, Poll, UnitDone, StopUnit, CleanWorkspace, Step, Fails
  <2> QED
    BY <2>1, <2>2, <2>3 DEF LauncherStep
<1>4. \A d \in Conns \ {c} : lch'[d] = lch[d]
  BY <1>0, <1>3 DEF Go
<1>5. (\A d \in Conns \ {c} : resp'[d] = resp[d]) /\ (resp'[c] = resp[c] \/ lch'[c].pc = "exited")
  <2>1. CASE CodexLauncherNext(c)
    <3>1. UNCHANGED resp \/ (Exit(c) /\ \E v : resp' = [resp EXCEPT ![c] = v])
      BY <2>1 DEF CodexLauncherNext, Authorise, ConfirmPeer, LookAtPeer, ReceiveRequest, AnswerPreflight,
         NoticeDisconnect, FinishExecution, LauncherKilled, LauncherUnchanged, socketVars
    <3> QED
      BY <1>0, <3>1, ExitUpdates
  <2>2. CASE InputSealerNext(c)
    BY <2>2 DEF InputSealerNext, SealQuarantine, SealStage, SealOpen, SealCopy, SealPublish, SealCleanSource,
       SealFail, SealRollback, SealerUnchanged, socketVars
  <2>3. CASE IsolatedExecutionNext(c)
    BY <2>3 DEF IsolatedExecutionNext, PrepareExecution, current_launcher_unit_fails,
       ConsumeWorkspace, GrantAccess, VerifyFail, StartUnit,
       WritePrompt, Poll, UnitDone, StopUnit, CleanWorkspace, ExecutionUnchanged, socketVars
  <2> QED
    BY <2>1, <2>2, <2>3 DEF LauncherStep
<1> QED
  BY <1>1, <1>2, <1>4, <1>5


\* The steps of the system, by who takes them.
LEMMA NextSteps ==
  ASSUME [Next]_vars
  PROVE  \/ StartAttempt \/ CallPreflight \/ CallExecute \/ BotCrash \/ BotInner
         \/ \E c \in Conns : ReceiveResponse(c) \/ ReceiveEof(c) \/ ReceiveTimeout(c)
         \/ \E c \in Conns : LauncherStep(c)
         \/ \E r \in Runs : RuntimeUnitNext(r)
         \/ HostChanges \/ UNCHANGED vars
  BY RunConns DEF Next, CodexRunnerNext, BotInner, LauncherStep

\* The unit and the host leave everybody else alone.
LEMMA OuterFrame ==
  ASSUME (\E r \in Runs : RuntimeUnitNext(r)) \/ HostChanges \/ UNCHANGED vars
  PROVE  UNCHANGED <<settings, evidence, run, bot, source, sealed, lch, sock, sent, resp, outcome, gone, seen, left>>
  BY DEF RuntimeUnitNext, BootRuntime, RunCodex, SystemdRunExit, SystemdRunLost, BindsTo, UnitUnchanged,
     HostChanges, vars, botVars, socketVars, launcherVars

\* The bot opens a connection.
LEMMA Opened ==
  ASSUME Types, LinkInv, NEW c \in Conns, NEW request, Exchange(c, request), sock[c] = "none"
  PROVE  /\ sock'[c] = "open" /\ lch'[c].pc = "auth" /\ lch'[c].result = "none" /\ lch'[c].held = None
         /\ lch'[c].todo = {} /\ lch'[c].cancelled = FALSE /\ resp[c] = NoPacket
         /\ \A d \in Conns \ {c} : sock'[d] = sock[d] /\ lch'[d] = lch[d]
<1>1. lch \in [Conns -> Processes] /\ sock \in [Conns -> {"none", "open", "closed"}]
  BY DEF Types, ConnTypes
<1>2. lch[c] = NoProcess /\ resp[c] = NoPacket
  BY DEF LinkInv, ConnSound
<1>3. lch' = [lch EXCEPT ![c] = [NoProcess EXCEPT !.pc = "auth"]]
  BY <1>1, <1>2 DEF Exchange
<1> QED
  BY <1>1, <1>2, <1>3 DEF Exchange, NoProcess

\* Connections, bot and launchers stay in step.
LEMMA LinkStep == Types /\ LinkInv /\ [Next]_vars => LinkInv'
<1> SUFFICES ASSUME Types, LinkInv, [Next]_vars PROVE LinkInv'
  OBVIOUS
<1>0. /\ BotTypes /\ ConnTypes /\ bot \in Bots /\ run \in {NoRun} \cup Runs /\ (bot.pc # "idle" => run \in Runs)
      /\ lch \in [Conns -> Processes] /\ sock \in [Conns -> {"none", "open", "closed"}]
      /\ DOMAIN resp = Conns
      /\ \A c \in Conns : ConnSound(c)
      /\ \A r \in Runs : BotSound(r) /\ E(r) \in Conns /\ P(r) \in Conns /\ r \in Nat
  BY RunConns, RunNumbers DEF Types, BotTypes, ConnTypes, LinkInv
<1>n. NoProcess.pc = "none"
  BY DEF NoProcess
<1>1. CASE StartAttempt
  <2>1. /\ UNCHANGED <<sock, lch, resp>> /\ run' = run + 1 /\ bot'.pc \in {"preflight", "spawn"}
        /\ bot'.got = FALSE /\ bot.pc = "idle"
    BY <1>1 DEF StartAttempt, RunnerUnchanged, launcherVars, socketVars, IdleBot
  <2>2. ASSUME NEW r \in Runs PROVE BotSound(r)'
    <3>1. BotSound(r) /\ (r >= run + 1 => r > run) /\ run \in Nat
      BY <1>0, RunNumbers DEF NoRun
    <3> QED
      BY <1>0, <2>1, <3>1 DEF BotSound, E, P, Staging
  <2>3. \A c \in Conns : ConnSound(c)'
    BY <1>0, <2>1 DEF ConnSound
  <2> QED
    BY <2>1, <2>2, <2>3 DEF LinkInv
\* A step of the bot that opens or closes nothing.
<1>b. ASSUME UNCHANGED <<sock, lch, resp, run>>, bot.pc # "await_execute", bot'.pc # "await_execute",
             bot'.pc # "preflight", bot'.pc \in Early => bot.pc \in Early,
             bot'.pc \in Staging => bot.pc \in Staging,
             bot'.got => bot.got /\ bot'.pc \in {"clean", "removing"}
      PROVE  LinkInv'
  <2>1. ASSUME NEW r \in Runs PROVE BotSound(r)'
    BY <1>0, <1>b DEF BotSound, E, P
  <2>2. \A c \in Conns : ConnSound(c)'
    BY <1>0, <1>b DEF ConnSound
  <2> QED
    BY <1>b, <2>1, <2>2 DEF LinkInv, E
<1>i. UNCHANGED <<sock, lch, resp, run, bot>> => LinkInv'
  BY <1>0 DEF LinkInv, ConnSound, BotSound, E, P
<1>2. CASE CallPreflight
  <2>0. run \in Runs /\ bot.pc = "preflight" /\ UNCHANGED <<run, resp>>
    BY <1>0, <1>2 DEF CallPreflight
  <2>1. CASE Exchange(P(run), PreflightRequest) /\ Continue([bot EXCEPT !.pc = "await_preflight"])
    <3>1. sock[P(run)] = "none" /\ sock[E(run)] = "none"
      BY <1>0, <2>0 DEF BotSound, Early
    <3>2. /\ sock'[P(run)] = "open" /\ lch'[P(run)].pc = "auth" /\ resp[P(run)] = NoPacket
          /\ \A d \in Conns \ {P(run)} : sock'[d] = sock[d] /\ lch'[d] = lch[d]
      BY <1>0, <2>0, <2>1, <3>1, Opened
    <3>3. bot'.pc = "await_preflight" /\ bot'.got = bot.got
      BY <1>0, <2>1 DEF Continue, Bots
    <3>4. \A c \in Conns : ConnSound(c)'
      BY <1>0, <2>0, <3>2 DEF ConnSound
    <3>5. ASSUME NEW r \in Runs PROVE BotSound(r)'
      <4>1. E(r) # P(run) /\ (r # run => P(r) # P(run))
        BY <2>0, RunConns
      <4>2. sock'[E(r)] = sock[E(r)] /\ (r # run => sock'[P(r)] = sock[P(r)] /\ lch'[P(r)] = lch[P(r)])
        BY <1>0, <3>2, <4>1
      <4>3. run' = run /\ BotSound(r)
        BY <1>0, <2>0
      <4>4. r > run => r # run
        BY <1>0, <2>0
      <4> QED
        BY <2>0, <3>1, <3>3, <4>2, <4>3, <4>4 DEF BotSound, Staging, Early, E, P
    <3> QED
      BY <2>0, <3>3, <3>4, <3>5 DEF LinkInv
  <2>2. CASE EndAttempt(FALSE) /\ UNCHANGED <<sock, sent, lch>>
    BY <1>b, <2>0, <2>2, Ended DEF Early, Staging
  <2> QED
    BY <1>2, <2>1, <2>2 DEF CallPreflight, Connect, P
<1>3. CASE CallExecute
  <2>0. run \in Runs /\ bot.pc = "call" /\ UNCHANGED <<run, resp>>
    BY <1>0, <1>3 DEF CallExecute
  <2>1. CASE Exchange(E(run), ExecuteRequest(run, settings)) /\ Continue([bot EXCEPT !.pc = "await_execute"])
    <3>1. sock[E(run)] = "none" /\ lch[P(run)].pc = "exited"
      BY <1>0, <2>0 DEF BotSound, Early, Staging
    <3>2. /\ sock'[E(run)] = "open" /\ lch'[E(run)].pc = "auth" /\ resp[E(run)] = NoPacket
          /\ \A d \in Conns \ {E(run)} : sock'[d] = sock[d] /\ lch'[d] = lch[d]
      BY <1>0, <2>0, <2>1, <3>1, Opened
    <3>3. bot'.pc = "await_execute" /\ bot'.got = bot.got
      BY <1>0, <2>1 DEF Continue, Bots
    <3>4. \A c \in Conns : ConnSound(c)'
      BY <1>0, <2>0, <3>2 DEF ConnSound
    <3>5. ASSUME NEW r \in Runs PROVE BotSound(r)'
      <4>1. P(r) # E(run) /\ (r # run => E(r) # E(run))
        BY <2>0, RunConns
      <4>2. /\ sock'[P(r)] = sock[P(r)] /\ lch'[P(r)] = lch[P(r)]
            /\ r # run => sock'[E(r)] = sock[E(r)]
        BY <1>0, <3>2, <4>1
      <4>3. run' = run /\ BotSound(r)
        BY <1>0, <2>0
      <4>4. r > run => r # run
        BY <1>0, <2>0
      <4> QED
        BY <2>0, <3>1, <3>2, <3>3, <4>2, <4>3, <4>4 DEF BotSound, Staging, Early, E, P
    <3> QED
      BY <2>0, <3>3, <3>4, <3>5 DEF LinkInv
  <2>2. CASE Continue([bot EXCEPT !.pc = "clean"]) /\ UNCHANGED <<sock, sent, lch>>
    <3>1. bot'.pc = "clean" /\ bot'.got = bot.got
      BY <1>0, <2>2 DEF Continue, Bots
    <3> QED
      BY <1>b, <2>0, <2>2, <3>1 DEF Early, Staging
  <2> QED
    BY <1>3, <2>1, <2>2 DEF CallExecute, Connect, E
<1>4. ASSUME NEW c \in Conns, NEW ok \in BOOLEAN, Awaiting(c), CloseWith(c, ok), ok => resp[c] # NoPacket
      PROVE  LinkInv'
  <2>0. /\ run \in Runs /\ UNCHANGED <<run, resp, lch>> /\ sock' = [sock EXCEPT ![c] = "closed"]
    BY <1>0, <1>4 DEF Awaiting, CloseWith, RunnerUnchanged, launcherVars
  <2>1. sock'[c] = "closed" /\ \A d \in Conns \ {c} : sock'[d] = sock[d]
    BY <1>0, <2>0
  <2>2. ok => lch[c].pc = "exited"
    BY <1>0, <1>4 DEF ConnSound
  <2>3. \A d \in Conns : ConnSound(d)'
    BY <1>0, <2>0, <2>1 DEF ConnSound
  <2>4. CASE c = P(run) /\ bot.pc = "await_preflight"
    <3>1. \/ ok /\ bot'.pc = "stage" /\ bot'.got = bot.got
          \/ bot'.pc = "idle" /\ bot'.got = FALSE
      BY <1>0, <1>4, <2>4, Ended DEF CloseWith, P, Continue, Bots
    <3>2. ASSUME NEW r \in Runs PROVE BotSound(r)'
      <4>1. E(r) # P(run) /\ (r # run => P(r) # P(run))
        BY <2>0, RunConns
      <4>2. sock'[E(r)] = sock[E(r)] /\ (r # run => sock'[P(r)] = sock[P(r)])
        BY <1>0, <2>1, <2>4, <4>1
      <4>3. BotSound(r) /\ (r > run => r # run)
        BY <1>0, <2>0
      <4> QED
        BY <2>0, <2>2, <2>4, <3>1, <4>2, <4>3 DEF BotSound, Staging, Early, E, P
    <3>3. ~bot.got
      BY <2>4 DEF LinkInv
    <3> QED
      BY <2>3, <3>1, <3>2, <3>3 DEF LinkInv
  <2>5. CASE c = E(run) /\ bot.pc = "await_execute"
    <3>1. bot'.pc = "clean" /\ bot'.got = ok
      BY <1>0, <1>4, <2>5 DEF CloseWith, E, Continue, Bots
    <3>2. ASSUME NEW r \in Runs PROVE BotSound(r)'
      <4>1. P(r) # E(run) /\ (r # run => E(r) # E(run))
        BY <2>0, RunConns
      <4>2. sock'[P(r)] = sock[P(r)] /\ (r # run => sock'[E(r)] = sock[E(r)])
        BY <1>0, <2>1, <2>5, <4>1
      <4>3. BotSound(r) /\ (r > run => r # run)
        BY <1>0, <2>0
      <4> QED
        BY <2>0, <2>1, <2>5, <3>1, <4>2, <4>3 DEF BotSound, Staging, Early, E, P
    <3> QED
      BY <2>0, <2>2, <2>3, <2>5, <3>1, <3>2 DEF LinkInv, E
  <2> QED
    BY <1>4, <2>4, <2>5 DEF Awaiting, E, P
<1>5. ASSUME NEW c \in Conns, ReceiveResponse(c) \/ ReceiveEof(c) \/ ReceiveTimeout(c) PROVE LinkInv'
  BY <1>4, <1>5 DEF ReceiveResponse, ReceiveEof, ReceiveTimeout, ValidPreflightResponse, ValidExecuteResponse
<1>6. CASE BotCrash
  <2>1. /\ UNCHANGED <<run, resp, lch>> /\ bot'.pc = "idle" /\ bot'.got = FALSE
        /\ \A c \in Conns : sock'[c] = IF sock[c] = "open" THEN "closed" ELSE sock[c]
    BY <1>6, Ended DEF BotCrash, launcherVars
  <2>2. \A c \in Conns : ConnSound(c)'
    BY <1>0, <2>1 DEF ConnSound
  <2>3. ASSUME NEW r \in Runs PROVE BotSound(r)'
    BY <1>0, <2>1 DEF BotSound, E, P, Early, Staging
  <2> QED
    BY <2>1, <2>2, <2>3 DEF LinkInv
<1>7. CASE BotInner
  <2>1. CASE UNCHANGED bot
    BY <1>0, <1>7, <1>i, <2>1, BotInnerFrame
  <2>2. CASE ~UNCHANGED bot
    BY <1>0, <1>7, <1>b, <2>2, BotInnerFrame DEF LinkInv
  <2> QED
    BY <2>1, <2>2
<1>8. ASSUME NEW c \in Conns, LauncherStep(c) PROVE LinkInv'
  <2>1. /\ UNCHANGED <<sock, run, bot>> /\ lch[c].pc \notin {"none", "exited"}
        /\ \A d \in Conns \ {c} : lch'[d] = lch[d] /\ resp'[d] = resp[d]
        /\ resp'[c] = resp[c] \/ lch'[c].pc = "exited"
    BY <1>0, <1>8, LauncherFrame
  <2>2. sock[c] # "none" /\ resp[c] = NoPacket
    BY <1>0, <1>n, <2>1 DEF ConnSound
  <2>3. ASSUME NEW d \in Conns PROVE ConnSound(d)'
    BY <1>0, <2>1, <2>2, <2>3 DEF ConnSound
  <2>4. ASSUME NEW d \in Conns, lch[d].pc = "exited" PROVE lch'[d] = lch[d]
    BY <2>1, <2>4
  <2>5. ASSUME NEW r \in Runs PROVE BotSound(r)'
    <3>1. BotSound(r) /\ (lch[P(r)].pc = "exited" => lch'[P(r)].pc = "exited")
      BY <1>0, <2>4
    <3> QED
      BY <2>1, <3>1 DEF BotSound, E, P
  <2>6. bot.got => run \in Runs /\ E(run) \in Conns /\ lch[E(run)].pc = "exited"
    BY <1>0 DEF LinkInv
  <2>7. bot'.got => bot'.pc \in {"clean", "removing"} /\ lch'[E(run)].pc = "exited"
    BY <2>1, <2>4, <2>6 DEF LinkInv
  <2> QED
    BY <2>1, <2>3, <2>5, <2>7 DEF LinkInv, E
<1>9. CASE (\E r \in Runs : RuntimeUnitNext(r)) \/ HostChanges \/ UNCHANGED vars
  BY <1>9, <1>i, OuterFrame
<1> QED
  BY <1>1, <1>2, <1>3, <1>5, <1>6, <1>7, <1>8, <1>9, NextSteps


-----------------------------------------------------------------------------
\* The bot's own steps keep everything in its place.
LEMMA BotPlaceStep ==
  ASSUME Types, LinkInv, PlaceInv,
         StartAttempt \/ CallPreflight \/ CallExecute \/ BotCrash \/ BotInner
         \/ \E c \in Conns : ReceiveResponse(c) \/ ReceiveEof(c) \/ ReceiveTimeout(c)
  PROVE  PlaceInv'
<1>0. /\ BotTypes /\ bot \in Bots /\ run \in {NoRun} \cup Runs /\ (bot.pc # "idle" => run \in Runs)
      /\ lch \in [Conns -> Processes] /\ source \in [Runs -> Sources]
      /\ \A r \in Runs : PlaceOf(r) /\ OwnerOf(r) /\ UnitOf(r) /\ BotSound(r) /\ E(r) \in Conns
      /\ \A c \in Conns : ConnSound(c)
  BY RunConns DEF Types, BotTypes, ConnTypes, DiskTypes, PlaceInv, LinkInv
<1>n. NoProcess.pc = "none" /\ NoSource.at = "none"
  BY DEF NoProcess, NoSource
<1>b. ASSUME UNCHANGED <<sealed, seen, unit, sysrun, loose>>, left \subseteq left',
             \A r \in Runs : \/ lch'[E(r)] = lch[E(r)]
                             \/ lch[E(r)].pc = "none" /\ lch'[E(r)].pc = "auth",
             \A r \in Runs : \/ source'[r].at = source[r].at
                             \/ lch[E(r)].pc \notin Quarantined /\ source'[r].at # "quarantine",
             \A r \in Runs \ left' : source'[r].at = "pending" => run' = r /\ bot'.pc \in Holding,
             bot'.pc \in Staging \ {"stage"} => source'[run'].at = "pending"
      PROVE  PlaceInv'
  <2>1. ASSUME NEW r \in Runs PROVE PlaceOf(r)' /\ OwnerOf(r)' /\ UnitOf(r)'
    <3>1. \/ lch'[E(r)].pc = lch[E(r)].pc
          \/ lch[E(r)].pc = "none" /\ lch'[E(r)].pc = "auth"
      BY <1>b
    <3>2. PlaceOf(r) /\ OwnerOf(r) /\ UnitOf(r)
      BY <1>0
    <3>3. PlaceOf(r)'
      BY <1>b, <3>1, <3>2 DEF PlaceOf, Quarantined, Consumed, E
    <3>4. OwnerOf(r)'
      BY <1>b, <3>1, <3>2 DEF OwnerOf, Quarantined, Consumed, E
    <3>5. UnitOf(r)'
      BY <1>b, <3>1, <3>2 DEF UnitOf, RunningUnit, E
    <3> QED
      BY <3>3, <3>4, <3>5
  <2> QED
    BY <1>b, <2>1 DEF PlaceInv
\* The bot moves on with the directory it has, or has none.
<1>k. ASSUME UNCHANGED <<sealed, seen, unit, sysrun, loose, source, run>>, left \subseteq left',
             \A r \in Runs : \/ lch'[E(r)] = lch[E(r)]
                             \/ lch[E(r)].pc = "none" /\ lch'[E(r)].pc = "auth",
             bot.pc \in Holding => bot'.pc \in Holding \/ run \in left',
             bot'.pc \in Staging \ {"stage"} => bot.pc \in Staging \ {"stage"}
      PROVE  PlaceInv'
  <2>1. \A r \in Runs \ left' : source[r].at = "pending" => run = r /\ bot'.pc \in Holding
    BY <1>0, <1>k DEF OwnerOf
  <2>2. bot'.pc \in Staging \ {"stage"} => source[run].at = "pending"
    BY <1>k DEF PlaceInv
  <2> QED
    BY <1>b, <1>k, <2>1, <2>2
<1>1. CASE StartAttempt
  <2>1. /\ UNCHANGED <<sealed, seen, unit, sysrun, loose, source, lch, left>>
        /\ bot.pc = "idle" /\ bot'.pc \in {"preflight", "spawn"}
    BY <1>1 DEF StartAttempt, RunnerUnchanged, launcherVars, unitVars, IdleBot
  <2>2. \A r \in Runs \ left' : source[r].at # "pending"
    BY <1>0, <2>1 DEF OwnerOf, Holding
  <2> QED
    BY <1>b, <2>1, <2>2 DEF Staging
<1>2. CASE CallPreflight
  <2>0. /\ run \in Runs /\ bot.pc = "preflight" /\ sock[P(run)] = "none" /\ P(run) \in Conns
        /\ UNCHANGED <<sealed, seen, unit, sysrun, loose, source, run, left>>
    BY <1>0, <1>2, RunConns DEF CallPreflight, unitVars, BotSound
  <2>1. CASE Exchange(P(run), PreflightRequest) /\ Continue([bot EXCEPT !.pc = "await_preflight"])
    <3>1. \A d \in Conns \ {P(run)} : lch'[d] = lch[d]
      BY <2>0, <2>1, Opened
    <3>2. \A r \in Runs : lch'[E(r)] = lch[E(r)]
      BY <1>0, <2>0, <3>1, RunConns
    <3>3. bot'.pc = "await_preflight"
      BY <1>0, <2>1 DEF Continue, Bots
    <3> QED
      BY <1>k, <2>0, <3>2, <3>3 DEF Holding, Staging
  <2>2. CASE EndAttempt(FALSE) /\ UNCHANGED <<sock, sent, lch>>
    BY <1>k, <2>0, <2>2, Ended DEF Holding, Staging
  <2> QED
    BY <1>2, <2>1, <2>2 DEF CallPreflight, Connect, P
<1>3. CASE CallExecute
  <2>0. /\ run \in Runs /\ bot.pc = "call" /\ sock[E(run)] = "none" /\ E(run) \in Conns
        /\ UNCHANGED <<sealed, seen, unit, sysrun, loose, source, run, left>>
    BY <1>0, <1>3 DEF CallExecute, unitVars, BotSound, Early, Staging
  <2>1. CASE Exchange(E(run), ExecuteRequest(run, settings)) /\ Continue([bot EXCEPT !.pc = "await_execute"])
    <3>1. lch'[E(run)].pc = "auth" /\ \A d \in Conns \ {E(run)} : lch'[d] = lch[d]
      BY <2>0, <2>1, Opened
    <3>2. lch[E(run)].pc = "none"
      BY <1>0, <1>n, <2>0 DEF ConnSound
    <3>3. \A r \in Runs : lch'[E(r)] = lch[E(r)] \/ (lch[E(r)].pc = "none" /\ lch'[E(r)].pc = "auth")
      BY <1>0, <2>0, <3>1, <3>2
    <3>4. bot'.pc = "await_execute"
      BY <1>0, <2>1 DEF Continue, Bots
    <3> QED
      BY <1>k, <2>0, <3>3, <3>4 DEF Holding, Staging
  <2>2. CASE Continue([bot EXCEPT !.pc = "clean"]) /\ UNCHANGED <<sock, sent, lch>>
    <3>1. bot'.pc = "clean"
      BY <1>0, <2>2 DEF Continue, Bots
    <3> QED
      BY <1>k, <2>0, <2>2, <3>1 DEF Holding, Staging
  <2> QED
    BY <1>3, <2>1, <2>2 DEF CallExecute, Connect, E
<1>4. ASSUME NEW c \in Conns, NEW ok, Awaiting(c), CloseWith(c, ok) PROVE PlaceInv'
  <2>1. UNCHANGED <<sealed, seen, unit, sysrun, loose, source, run, lch, left>>
    BY <1>4 DEF CloseWith, RunnerUnchanged, launcherVars, unitVars
  <2>2. \/ bot.pc = "await_preflight" /\ bot'.pc \in {"stage", "idle"}
        \/ bot.pc = "await_execute" /\ bot'.pc = "clean"
    <3>1. CASE c = P(run) /\ bot.pc = "await_preflight"
      <4>1. Continue([bot EXCEPT !.pc = "stage"]) \/ EndAttempt(FALSE)
        BY <1>4, <3>1 DEF CloseWith, P
      <4> QED
        BY <1>0, <3>1, <4>1, Ended DEF Continue, Bots
    <3>2. CASE c = E(run) /\ bot.pc = "await_execute"
      <4>1. Continue([bot EXCEPT !.pc = "clean", !.got = ok])
        BY <1>4, <3>2 DEF CloseWith, E
      <4> QED
        BY <1>0, <3>2, <4>1 DEF Continue, Bots
    <3> QED
      BY <1>4, <3>1, <3>2 DEF Awaiting, E, P
  <2> QED
    BY <1>k, <2>1, <2>2 DEF Holding, Staging
<1>5. ASSUME NEW c \in Conns, ReceiveResponse(c) \/ ReceiveEof(c) \/ ReceiveTimeout(c) PROVE PlaceInv'
  BY <1>4, <1>5 DEF ReceiveResponse, ReceiveEof, ReceiveTimeout
<1>6. CASE BotCrash
  <2>1. UNCHANGED <<sealed, seen, unit, sysrun, loose, source, run, lch>> /\ bot'.pc = "idle"
        /\ left' = left \cup {run}
    BY <1>6, Ended DEF BotCrash, launcherVars, unitVars
  <2> QED
    BY <1>k, <2>1 DEF Staging
\* The staging and the removal.
<1>f. BotInner => UNCHANGED <<lch, run, sealed, seen, unit, sysrun, loose>>
  BY <1>0, BotInnerFrame
<1>7. CASE SpawnChild \/ ChildExit \/ TerminateChild \/ CollectChild \/ GroupExit
  <2>1. UNCHANGED source /\ left \subseteq left'
    BY <1>7 DEF SpawnChild, ChildExit, TerminateChild, CollectChild, GroupExit, ChildUnchanged
  <2>2. UNCHANGED bot \/ (bot.pc \notin Holding /\ bot'.pc \notin Staging)
    BY <1>0, <1>7, Ended DEF SpawnChild, ChildExit, TerminateChild, CollectChild, GroupExit, Continue, Bots, Holding,
       Staging
  <2> QED
    BY <1>7, <1>f, <1>k, <2>1, <2>2 DEF BotInner
<1>8. CASE StageBegin
  <2>0. run \in Runs /\ bot.pc = "stage" /\ UNCHANGED left
    BY <1>0, <1>8 DEF StageBegin
  <2> DEFINE top == Listing(evidence, <<>>)
  <2>1. CASE CreateRunDirectory(run) /\ Continue([bot EXCEPT !.pc = "copy", !.listed = top, !.todo = top])
    <3>1. lch[E(run)].pc = "none"
      BY <1>0, <1>n, <2>0 DEF BotSound, ConnSound, Early, Staging
    <3>2. source'[run].at = "pending" /\ \A r \in Runs \ {run} : source'[r] = source[r]
      BY <1>0, <2>0, <2>1 DEF CreateRunDirectory
    <3>3. bot'.pc = "copy"
      BY <1>0, <2>1 DEF Continue, Bots
    <3>4. \A r \in Runs \ left' : source'[r].at = "pending" => run = r
      BY <1>0, <2>0, <3>2 DEF OwnerOf, Holding
    <3> QED
      BY <1>8, <1>b, <1>f, <2>0, <3>1, <3>2, <3>3, <3>4 DEF BotInner, RunnerInputNext, Holding, Quarantined
  <2>2. CASE EndAttempt(FALSE) /\ UNCHANGED source
    BY <1>8, <1>f, <1>k, <2>0, <2>2, Ended DEF BotInner, RunnerInputNext, Holding, Staging
  <2> QED
    BY <1>8, <2>1, <2>2 DEF StageBegin
<1>9. CASE StageOpen \/ StageVerify \/ StageFail
  <2>1. UNCHANGED <<source, left>> /\ bot.pc \in {"copy", "verify"} /\ bot'.pc \in {"copy", "verify", "abort"}
    BY <1>0, <1>9 DEF StageOpen, StageVerify, StageFail, Continue, Bots
  <2> QED
    BY <1>9, <1>f, <1>k, <2>1 DEF BotInner, RunnerInputNext, Holding, Staging
\* The contents or the mode of a directory change.
<1>m. ASSUME BotInner, UNCHANGED left, bot.pc \in Holding, bot'.pc \in Holding,
             bot'.pc \in Staging \ {"stage"} => bot.pc \in Staging \ {"stage"},
             \A r \in Runs : source'[r].at = source[r].at
      PROVE  PlaceInv'
  <2>0. run \in Runs
    BY <1>0, <1>m DEF Holding
  <2>1. \A r \in Runs \ left' : source'[r].at = "pending" => run = r
    BY <1>0, <1>m DEF OwnerOf
  <2>2. bot'.pc \in Staging \ {"stage"} => source'[run].at = "pending"
    BY <1>m, <2>0 DEF PlaceInv
  <2> QED
    BY <1>b, <1>f, <1>m, <2>1, <2>2
<1>10. CASE StageCopy \/ StagePublish
  <2>1. /\ UNCHANGED left /\ bot.pc = "copy" /\ bot'.pc \in {"verify", "call", "abort"} /\ run \in Runs
    BY <1>0, <1>10 DEF StageCopy, StagePublish, Continue, Bots
  <2>2. \A r \in Runs : source'[r].at = source[r].at
    BY <1>0, <1>10, <2>1 DEF StageCopy, StagePublish, Sources
  <2> QED
    BY <1>10, <1>m, <2>1, <2>2 DEF BotInner, RunnerInputNext, Holding, Staging
<1>11. CASE RemovePendingEntry
  <2>1. UNCHANGED <<left, bot>> /\ bot.pc = "removing" /\ run \in Runs
    BY <1>0, <1>11 DEF RemovePendingEntry
  <2>2. \A r \in Runs : source'[r].at = source[r].at
    BY <1>0, <1>11, <2>1 DEF RemovePendingEntry, Sources
  <2> QED
    BY <1>11, <1>m, <2>1, <2>2 DEF BotInner, RunnerInputNext, Holding, Staging
<1>12. CASE StageAbort
  <2>0. run \in Runs /\ bot.pc = "abort" /\ bot'.pc = "idle"
    BY <1>0, <1>12, Ended DEF StageAbort
  <2>1. CASE source' = [source EXCEPT ![run] = NoSource] /\ UNCHANGED left
    <3>1. lch[E(run)].pc = "none"
      BY <1>0, <1>n, <2>0 DEF BotSound, ConnSound, Early, Staging
    <3>2. source'[run].at = "none" /\ \A r \in Runs \ {run} : source'[r] = source[r]
      BY <1>0, <1>n, <2>0, <2>1
    <3>3. \A r \in Runs \ left' : source'[r].at # "pending"
      BY <1>0, <2>1, <3>2 DEF OwnerOf
    <3> QED
      BY <1>12, <1>b, <1>f, <2>0, <2>1, <3>1, <3>2, <3>3 DEF BotInner, RunnerInputNext, Quarantined, Staging
  <2>2. CASE left' = left \cup {run} /\ UNCHANGED source
    BY <1>12, <1>f, <1>k, <2>0, <2>2 DEF BotInner, RunnerInputNext, Staging
  <2> QED
    BY <1>12, <2>1, <2>2 DEF StageAbort
<1>13. CASE CleanPendingFail
  <2>1. UNCHANGED source /\ left' = left \cup {run} /\ bot'.pc = "idle"
    BY <1>13, Ended DEF CleanPendingFail
  <2> QED
    BY <1>13, <1>f, <1>k, <2>1 DEF BotInner, RunnerInputNext, Staging
<1>14. CASE CleanPending
  <2>1. /\ UNCHANGED <<source, left>> /\ bot.pc = "clean" /\ run \in Runs
        /\ \/ bot'.pc = "removing"
           \/ bot'.pc = "idle" /\ source[run].at # "pending"
    BY <1>0, <1>14, Ended DEF CleanPending, Continue, Bots
  <2>2. \A r \in Runs \ left' : source[r].at = "pending" => run = r /\ bot'.pc \in Holding
    BY <1>0, <2>1 DEF OwnerOf, Holding
  <2> QED
    BY <1>14, <1>b, <1>f, <2>1, <2>2 DEF BotInner, RunnerInputNext, Staging
<1>15. CASE RemovePendingDirectory
  <2>1. /\ UNCHANGED left /\ bot.pc = "removing" /\ run \in Runs /\ bot'.pc = "idle"
        /\ \A r \in Runs \ {run} : source'[r] = source[r]
        /\ IF source[run].at = "pending" THEN source'[run].at = "none" ELSE source'[run] = source[run]
    BY <1>0, <1>15, <1>n, Ended DEF RemovePendingDirectory
  <2>2. \A r \in Runs \ left' : source'[r].at # "pending"
    BY <1>0, <2>1 DEF OwnerOf
  <2>3. source[run].at = "pending" => lch[E(run)].pc \notin Quarantined
    BY <1>0, <2>1 DEF PlaceOf
  <2> QED
    BY <1>15, <1>b, <1>f, <2>1, <2>2, <2>3 DEF BotInner, RunnerInputNext, Staging
<1>16. CASE EvidenceWrite
  <2>1. UNCHANGED <<source, left, bot>>
    BY <1>16 DEF EvidenceWrite, botVars
  <2> QED
    BY <1>16, <1>f, <1>k, <2>1 DEF BotInner, RunnerInputNext
<1> QED
  BY <1>1, <1>2, <1>3, <1>5, <1>6, <1>7, <1>8, <1>9, <1>10, <1>11, <1>12, <1>13, <1>14, <1>15, <1>16
  DEF BotInner, RunnerInputNext


\* A launcher touches the copies and the unit of its own run only, and lets nothing off.
LEMMA LauncherDisk ==
  ASSUME Types, NEW c \in Conns, LauncherStep(c)
  PROVE  /\ \A s \in Runs \ {Run(c)} : /\ source'[s] = source[s] /\ sealed'[s] = sealed[s] /\ seen'[s] = seen[s]
                                       /\ unit'[s] = unit[s] /\ sysrun'[s] = sysrun[s]
         /\ left \subseteq left' /\ loose \subseteq loose'
<1>0. /\ Run(c) \in Runs /\ source \in [Runs -> Sources] /\ sealed \in [Runs -> Copies]
      /\ seen \in [Runs -> SUBSET SealedEntries]
      /\ unit \in [Runs -> {"none", "boot", "codex", "ok", "dead"}]
      /\ sysrun \in [Runs -> {"none", "running", "ok", "failed"}]
  BY RunConns DEF Types, DiskTypes, UnitTypes
<1>1. CASE CodexLauncherNext(c)
  BY <1>0, <1>1 DEF CodexLauncherNext, Authorise, ConfirmPeer, LookAtPeer, ReceiveRequest, AnswerPreflight,
     NoticeDisconnect, FinishExecution, LauncherKilled, LauncherUnchanged, unitVars
<1>2. CASE SealQuarantine(c) \/ SealStage(c) \/ SealOpen(c) \/ SealCopy(c) \/ SealPublish(c) \/ SealFail(c)
  BY <1>0, <1>2 DEF SealQuarantine, SealStage, SealOpen, SealCopy, SealPublish, SealFail, SealerUnchanged, unitVars
<1>3. CASE SealCleanSource(c) \/ SealRollback(c)
  BY <1>0, <1>3 DEF SealCleanSource, SealRollback, RemoveSource, SealerUnchanged, unitVars
<1>4. CASE PrepareExecution(c) \/ ConsumeWorkspace(c) \/ GrantAccess(c) \/ VerifyFail(c) \/ CleanWorkspace(c)
  BY <1>0, <1>4 DEF PrepareExecution, ConsumeWorkspace, GrantAccess, VerifyFail, CleanWorkspace, DropSealed, unitVars
<1>5. CASE StartUnit(c) \/ StopUnit(c)
  BY <1>0, <1>5 DEF StartUnit, StopUnit
<1>6. CASE WritePrompt(c) \/ Poll(c) \/ UnitDone(c)
  BY <1>6 DEF WritePrompt, Poll, UnitDone, unitVars
<1> QED
  BY <1>1, <1>2, <1>3, <1>4, <1>5, <1>6 DEF LauncherStep, InputSealerNext, IsolatedExecutionNext

\* The launcher's steps keep everything in its place.
LEMMA LauncherPlaceStep ==
  ASSUME Types, LinkInv, PlaceInv, NEW c \in Conns, LauncherStep(c)
  PROVE  PlaceInv'
<1> DEFINE r == Run(c)
<1>0. /\ r \in Runs /\ ConnTypes /\ bot \in Bots /\ run \in {NoRun} \cup Runs /\ (bot.pc # "idle" => run \in Runs)
      /\ lch \in [Conns -> Processes] /\ source \in [Runs -> Sources] /\ sealed \in [Runs -> Copies]
      /\ seen \in [Runs -> SUBSET SealedEntries]
      /\ unit \in [Runs -> {"none", "boot", "codex", "ok", "dead"}]
      /\ sysrun \in [Runs -> {"none", "running", "ok", "failed"}]
      /\ PlaceOf(r) /\ OwnerOf(r) /\ UnitOf(r)
      /\ \A s \in Runs : PlaceOf(s) /\ OwnerOf(s) /\ UnitOf(s) /\ BotSound(s) /\ E(s) \in Conns
      /\ \A d \in Conns : ConnSound(d)
  BY RunConns DEF Types, BotTypes, ConnTypes, DiskTypes, UnitTypes, PlaceInv, LinkInv
<1>n. NoProcess.pc = "none" /\ NoSource.at = "none" /\ NoSealed.at = "none"
  BY DEF NoProcess, NoSource, NoSealed
<1>f. /\ UNCHANGED <<sock, run, bot>> /\ lch[c].pc \notin {"none", "exited"}
      /\ \A d \in Conns \ {c} : lch'[d] = lch[d]
  BY <1>0, LauncherFrame
<1>d. /\ \A s \in Runs \ {r} : /\ source'[s] = source[s] /\ sealed'[s] = sealed[s] /\ seen'[s] = seen[s]
                               /\ unit'[s] = unit[s] /\ sysrun'[s] = sysrun[s]
      /\ left \subseteq left' /\ loose \subseteq loose'
  BY LauncherDisk
<1>s. ASSUME NEW s \in Runs \ {r} PROVE PlaceOf(s)' /\ OwnerOf(s)' /\ UnitOf(s)'
  <2>1. E(s) \in Conns \ {c}
    BY RunConns
  <2>2. lch'[E(s)] = lch[E(s)] /\ source'[s] = source[s] /\ sealed'[s] = sealed[s] /\ seen'[s] = seen[s]
        /\ unit'[s] = unit[s] /\ sysrun'[s] = sysrun[s]
    BY <1>d, <1>f, <2>1
  <2>3. PlaceOf(s) /\ OwnerOf(s) /\ UnitOf(s)
    BY <1>0
  <2> HIDE DEF r
  <2> QED
    BY <1>d, <1>f, <2>2, <2>3 DEF PlaceOf, OwnerOf, UnitOf, RunningUnit, E
<1>p. CASE c = P(r)
  <2>1. CodexLauncherNext(c)
    BY <1>p, RunConns DEF LauncherStep
  <2>2. /\ UNCHANGED <<source, sealed, seen, unit, loose>>
        /\ sysrun'[r] = sysrun[r] \/ lch[c].pc \notin {"none", "exited"}
    BY <2>1 DEF CodexLauncherNext, Authorise, ConfirmPeer, LookAtPeer, ReceiveRequest, AnswerPreflight,
       NoticeDisconnect, FinishExecution, LauncherKilled, LauncherUnchanged, unitVars
  <2>3. sock[E(r)] = "none"
    BY <1>0, <1>f, <1>p DEF BotSound
  <2>4. lch[E(r)].pc = "none" /\ lch'[E(r)] = lch[E(r)]
    BY <1>0, <1>f, <1>n, <1>p, <2>3, RunConns DEF ConnSound
  <2>5. PlaceOf(r)' /\ OwnerOf(r)' /\ UnitOf(r)'
    BY <1>0, <1>d, <1>f, <2>2, <2>4 DEF PlaceOf, OwnerOf, UnitOf, RunningUnit, E
  <2>6. bot'.pc \in Staging \ {"stage"} => source'[run'].at = "pending"
    BY <1>f, <2>2 DEF PlaceInv
  <2> QED
    BY <1>s, <2>5, <2>6 DEF PlaceInv
<1>g. ASSUME c = E(r), PlaceOf(r)', OwnerOf(r)', UnitOf(r)' PROVE PlaceInv'
  <2>1. bot.pc \in Staging => run \in Runs /\ run # r
    BY <1>0, <1>f, <1>g, <1>n DEF BotSound, ConnSound, Staging, Early
  <2>2. bot'.pc \in Staging \ {"stage"} => source'[run'].at = "pending"
    BY <1>d, <1>f, <2>1 DEF PlaceInv
  <2> QED
    BY <1>g, <1>s, <2>2 DEF PlaceInv
<1> HIDE DEF r
<1> DEFINE pc == lch[c].pc
           Active == {"staging", "seal", "sealed", "rollback", "consume"} \cup Consumed
<1>e. ASSUME c = E(r) PROVE PlaceInv'
  <2>0. /\ Step(c, "finish") => lch'[c].pc = "finish"
        /\ \A x \in Results : Fails(c, "finish", x) => lch'[c].pc = "finish"
    BY <1>0, StepUpdates, FailsUpdates DEF ProcessPcs
  <2>p. /\ \A x \in ProcessPcs : Step(c, x) => lch'[c].pc = x
        /\ \A x \in ProcessPcs, y \in Results : Fails(c, x, y) => lch'[c].pc = x
        /\ Exit(c) => lch'[c].pc = "exited"
    BY <1>0, StepUpdates, FailsUpdates, ExitUpdates
  <2>t. /\ {"cancelled", "error", "unavailable", "timed_out", "failed", "completed"} \subseteq Results
        /\ BudgetError(c) \in Results
        /\ Executing \cup {"confirm", "receive", "preflight", "finish"} \subseteq ProcessPcs
    BY BudgetErrors DEF Results, ProcessPcs
  \* A launcher that holds nothing.
  <2>q. ASSUME pc \notin Active, lch'[c].pc \notin Active, UNCHANGED <<source, sealed, seen, unit, loose>>
        PROVE  PlaceInv'
    <3>1. PlaceOf(r)' /\ OwnerOf(r)'
      BY <1>0, <1>d, <1>e, <1>f, <2>q DEF PlaceOf, OwnerOf, E, Quarantined, Consumed
    <3>2. r \notin loose => ~RunningUnit(r)
      BY <1>0, <1>e, <1>f, <2>q DEF UnitOf, E, Consumed
    <3>3. UnitOf(r)'
      BY <2>q, <3>2 DEF UnitOf, RunningUnit
    <3> QED
      BY <1>e, <1>g, <3>1, <3>3
  <2>1. CASE Authorise(c) \/ ConfirmPeer(c) \/ ReceiveRequest(c) \/ AnswerPreflight(c) \/ FinishExecution(c)
    <3>1. pc \in {"auth", "confirm", "receive", "preflight", "finish"}
          /\ UNCHANGED <<source, sealed, seen, unit, loose>>
      BY <2>1 DEF Authorise, ConfirmPeer, LookAtPeer, ReceiveRequest, AnswerPreflight, FinishExecution,
         LauncherUnchanged, unitVars, At
    <3>2. \/ Exit(c)
          \/ \E x \in {"confirm", "receive", "preflight", "prepare"} : Step(c, x)
      BY <2>1 DEF Authorise, ConfirmPeer, LookAtPeer, ReceiveRequest, AnswerPreflight, FinishExecution
    <3>3. lch'[c].pc \in {"exited", "confirm", "receive", "preflight", "prepare"}
      BY <2>p, <2>t, <3>2 DEF Executing
    <3> QED
      BY <2>q, <3>1, <3>3 DEF Consumed
  <2>2. CASE NoticeDisconnect(c)
    <3>1. UNCHANGED <<source, sealed, seen, unit, sysrun, left, loose>>
      BY <2>2 DEF NoticeDisconnect, LauncherUnchanged, unitVars
    <3>2. lch'[c].pc = pc
      BY <1>0, <2>2 DEF NoticeDisconnect, Go, Processes
    <3> QED
      BY <1>0, <1>e, <1>f, <1>g, <3>1, <3>2 DEF PlaceOf, OwnerOf, UnitOf, RunningUnit, E
  <2>3. CASE LauncherKilled(c)
    <3>1. UNCHANGED <<source, sealed, seen, unit, loose>> /\ lch'[c].pc = "exited"
          /\ (pc \in Executing => r \in left')
      BY <2>3, <2>p DEF LauncherKilled, r
    <3>2. PlaceOf(r)'
      BY <1>0, <1>e, <3>1 DEF PlaceOf, E, Quarantined, Consumed
    <3>3. OwnerOf(r)'
      BY <1>0, <1>d, <1>e, <1>f, <3>1 DEF OwnerOf, E, Quarantined, Consumed, Executing
    <3>4. UnitOf(r)'
      BY <1>0, <1>e, <3>1 DEF UnitOf, RunningUnit, E
    <3> QED
      BY <1>e, <1>g, <3>2, <3>3, <3>4
  \* The unit is not there yet, or no longer.
  <2>u. ASSUME pc \notin {"prompt", "wait", "stop"}, UNCHANGED <<unit, loose>> PROVE UnitOf(r)'
    BY <1>0, <1>e, <1>f, <2>u DEF UnitOf, RunningUnit, E
  <2> USE DEF r
  <2>4. CASE SealQuarantine(c)
    <3>1. /\ pc = "quarantine" /\ UNCHANGED <<sealed, seen, unit, sysrun, loose, left>>
          /\ \/ UNCHANGED source /\ lch'[c].pc = "finish"
             \/ source'[r].at = "quarantine" /\ lch'[c].pc = "staging"
      BY <1>0, <2>4, <2>p, <2>t DEF SealQuarantine, SealerUnchanged, unitVars, At, Executing, Sources
    <3>2. PlaceOf(r)' /\ OwnerOf(r)'
      BY <1>0, <1>e, <1>f, <3>1 DEF PlaceOf, OwnerOf, E, Quarantined, Consumed
    <3> QED
      BY <1>e, <1>g, <2>u, <3>1, <3>2
  <2>5. CASE SealStage(c) \/ SealOpen(c) \/ SealCopy(c) \/ SealPublish(c) \/ SealFail(c)
    <3>1. /\ pc \in {"staging", "seal"} /\ UNCHANGED <<source, seen, unit, sysrun, loose, left>>
          /\ \/ sealed'[r].at = sealed[r].at /\ lch'[c].pc = "rollback"
             \/ sealed'[r].at = "staging" /\ lch'[c].pc = "seal"
             \/ sealed'[r].at = "ready" /\ lch'[c].pc = "sealed"
      <4>1. CASE SealStage(c)
        <5>1. CASE Fails(c, "rollback", BudgetError(c)) /\ UNCHANGED sealed
          BY <4>1, <5>1, <2>p, <2>t DEF SealStage, SealerUnchanged, unitVars, At, Executing
        <5>2. CASE /\ sealed' = [sealed EXCEPT ![r] = [at |-> "staging", ents |-> {}]]
                   /\ Go(c, [lch[c] EXCEPT !.pc = "seal", !.listed = source[r].ents, !.todo = source[r].ents])
          BY <1>0, <4>1, <5>2 DEF SealStage, SealerUnchanged, unitVars, At, Go, Processes
        <5> QED
          BY <4>1, <5>1, <5>2 DEF SealStage
      <4>2. CASE SealOpen(c)
        <5>1. \/ \E e : Go(c, [lch[c] EXCEPT !.held = e, !.todo = @ \ {e}])
              \/ Fails(c, "rollback", BudgetError(c))
          BY <4>2 DEF SealOpen
        <5>2. lch'[c].pc \in {"seal", "rollback"}
          BY <1>0, <4>2, <5>1, <2>p, <2>t DEF Go, Processes, Executing, SealOpen, At
        <5> QED
          BY <1>0, <1>e, <4>2, <5>2 DEF SealOpen, SealerUnchanged, unitVars, At, PlaceOf, E
      <4>3. CASE SealCopy(c)
        <5>1. CASE Fails(c, "rollback", BudgetError(c)) /\ UNCHANGED sealed
          BY <4>3, <5>1, <2>p, <2>t DEF SealCopy, SealerUnchanged, unitVars, At, Executing
        <5>2. CASE /\ sealed' = [sealed EXCEPT ![r].ents = @ \cup {SealedEntry(lch[c].held)}]
                   /\ Go(c, [lch[c] EXCEPT !.held = None])
          <6>1. lch'[c].pc = "seal"
            BY <1>0, <4>3, <5>2 DEF SealCopy, At, Go, Processes
          <6>2. sealed'[r].at = sealed[r].at
            BY <1>0, <5>2 DEF Copies
          <6> QED
            BY <1>0, <1>e, <4>3, <6>1, <6>2 DEF SealCopy, SealerUnchanged, unitVars, At, PlaceOf, E
        <5> QED
          BY <4>3, <5>1, <5>2 DEF SealCopy
      <4>4. CASE SealPublish(c)
        BY <1>0, <4>4, <2>p, <2>t DEF SealPublish, SealerUnchanged, unitVars, At, Executing, Copies
      <4>5. CASE SealFail(c)
        BY <4>5, <2>p, <2>t DEF SealFail, SealerUnchanged, unitVars, At, Executing
      <4> QED
        BY <2>5, <4>1, <4>2, <4>3, <4>4, <4>5
    <3>2. PlaceOf(r)'
      BY <1>0, <1>e, <3>1 DEF PlaceOf, E, Quarantined, Consumed
    <3>3. OwnerOf(r)'
      BY <1>0, <1>e, <1>f, <3>1 DEF OwnerOf, E, Quarantined, Consumed
    <3> QED
      BY <1>e, <1>g, <2>u, <3>1, <3>2, <3>3
  <2>6. CASE SealCleanSource(c) \/ SealRollback(c)
    <3>1. /\ pc \in {"sealed", "rollback"} /\ UNCHANGED <<seen, unit, sysrun, loose>>
          /\ \/ source'[r].at = "none" /\ UNCHANGED <<sealed, left>> /\ pc = "sealed" /\ lch'[c].pc = "consume"
             \/ source'[r].at = "none" /\ sealed'[r].at = "none" /\ lch'[c].pc = "finish"
             \/ r \in left' /\ lch'[c].pc = "finish"
      <4>1. CASE SealCleanSource(c)
        BY <1>0, <1>n, <2>p, <2>t, <4>1 DEF SealCleanSource, RemoveSource, SealerUnchanged, unitVars, At, Executing
      <4>2. CASE SealRollback(c)
        BY <1>0, <1>n, <2>p, <2>t, <4>2 DEF SealRollback, RemoveSource, SealerUnchanged, unitVars, At, Executing
      <4> QED
        BY <2>6, <4>1, <4>2
    <3>2. PlaceOf(r)'
      BY <1>0, <1>e, <3>1 DEF PlaceOf, E, Quarantined, Consumed
    <3>3. OwnerOf(r)'
      BY <1>0, <1>e, <3>1 DEF OwnerOf, E, Quarantined, Consumed
    <3> QED
      BY <1>e, <1>g, <2>u, <3>1, <3>2, <3>3
  <2>7. CASE PrepareExecution(c)
    <3>1. pc = "prepare" /\ UNCHANGED <<source, sealed, seen, unit, loose>>
      BY <2>7 DEF PrepareExecution, unitVars, At
    <3>2. lch'[c].pc \in {"finish", "quarantine"}
      BY <2>7, <2>p, <2>t DEF PrepareExecution, current_launcher_unit_fails, Executing
    <3> QED
      BY <2>q, <3>1, <3>2 DEF Consumed
  \* The copy is consumed and made readable, or dropped.
  <2>8. CASE ConsumeWorkspace(c) \/ GrantAccess(c) \/ VerifyFail(c)
    <3>g. GrantGroupRead(sealed[r].ents) \subseteq EntryType({"group"})
      BY <1>0, GrantedTree DEF Copies
    <3>1. /\ pc \in {"consume", "grant"} /\ UNCHANGED <<source, seen, unit, sysrun, loose>>
          /\ \/ sealed'[r].at = "consumed" /\ lch'[c].pc = "grant"
             \/ sealed'[r].at = sealed[r].at /\ pc = "grant" /\ lch'[c].pc = "start"
                /\ sealed'[r].ents \subseteq EntryType({"group"})
             \/ sealed'[r].at = "none" /\ lch'[c].pc = "finish"
             \/ r \in left' /\ lch'[c].pc = "finish"
      <4>1. CASE ConsumeWorkspace(c)
        BY <1>0, <1>n, <2>p, <2>t, <4>1 DEF ConsumeWorkspace, DropSealed, unitVars, At, Executing, Copies
      <4>2. CASE GrantAccess(c)
        BY <1>0, <1>n, <2>p, <2>t, <3>g, <4>2 DEF GrantAccess, DropSealed, unitVars, At, Executing, Copies
      <4>3. CASE VerifyFail(c)
        BY <1>0, <1>n, <2>p, <2>t, <4>3 DEF VerifyFail, unitVars, At, Executing
      <4> QED
        BY <2>8, <4>1, <4>2, <4>3
    <3>2. PlaceOf(r)'
      BY <1>0, <1>e, <3>1 DEF PlaceOf, E, Quarantined, Consumed
    <3>3. OwnerOf(r)'
      BY <1>0, <1>d, <1>e, <1>f, <3>1 DEF OwnerOf, E, Quarantined, Consumed
    <3> QED
      BY <1>e, <1>g, <2>u, <3>1, <3>2, <3>3
  <2>9. CASE StartUnit(c)
    <3>1. /\ pc = "start" /\ UNCHANGED <<source, sealed, left, loose>>
          /\ \/ UNCHANGED <<unit, sysrun, seen>> /\ lch'[c].pc = "cleanup"
             \/ /\ sysrun'[r] = "running" /\ seen'[r] = sealed[r].ents /\ lch'[c].pc = "prompt"
      BY <1>0, <2>9, <2>p, <2>t DEF StartUnit, At, Executing
    <3>2. PlaceOf(r)' /\ OwnerOf(r)'
      BY <1>0, <1>e, <1>f, <3>1 DEF PlaceOf, OwnerOf, E, Quarantined, Consumed
    <3>3. UnitOf(r)'
      BY <1>0, <1>e, <1>f, <2>u, <3>1 DEF UnitOf, PlaceOf, RunningUnit, E, Consumed
    <3> QED
      BY <1>e, <1>g, <3>2, <3>3
  <2>10. CASE WritePrompt(c) \/ Poll(c) \/ UnitDone(c)
    <3>1. /\ pc \in {"prompt", "wait"} /\ UNCHANGED <<source, sealed, seen, unit, sysrun, left, loose>>
          /\ \/ lch'[c].pc \in {"wait", "stop"}
             \/ lch'[c].pc = "cleanup" /\ sysrun[r] # "running"
      <4>1. CASE WritePrompt(c)
        BY <2>p, <2>t, <4>1 DEF WritePrompt, unitVars, At, Executing
      <4>2. CASE Poll(c)
        BY <2>p, <2>t, <4>2 DEF Poll, unitVars, At, Executing
      <4>3. CASE UnitDone(c)
        BY <2>p, <2>t, <4>3 DEF UnitDone, unitVars, At, Executing
      <4> QED
        BY <2>10, <4>1, <4>2, <4>3
    <3>2. PlaceOf(r)' /\ OwnerOf(r)'
      BY <1>0, <1>e, <1>f, <3>1 DEF PlaceOf, OwnerOf, E, Quarantined, Consumed
    <3>3. UnitOf(r)'
      BY <1>0, <1>e, <3>1 DEF UnitOf, RunningUnit, E
    <3> QED
      BY <1>e, <1>g, <3>2, <3>3
  <2>11. CASE StopUnit(c)
    <3>1. /\ pc = "stop" /\ UNCHANGED <<source, sealed, seen, left>> /\ lch'[c].pc = "cleanup"
          /\ unit'[r] \in {"ok", "dead"} \/ r \in loose'
      BY <1>0, <2>11, <2>p, <2>t DEF StopUnit, At, Executing
    <3>2. PlaceOf(r)' /\ OwnerOf(r)'
      BY <1>0, <1>e, <1>f, <3>1 DEF PlaceOf, OwnerOf, E, Quarantined, Consumed
    <3>3. UnitOf(r)'
      BY <3>1 DEF UnitOf, RunningUnit
    <3> QED
      BY <1>e, <1>g, <3>2, <3>3
  <2>12. CASE CleanWorkspace(c)
    <3>1. /\ pc = "cleanup" /\ UNCHANGED <<source, seen, unit, sysrun, loose>> /\ lch'[c].pc = "finish"
          /\ sealed'[r].at = "none" \/ r \in left'
      BY <1>0, <1>n, <2>12, <2>p, <2>t DEF CleanWorkspace, DropSealed, unitVars, At, Executing
    <3>2. PlaceOf(r)'
      BY <1>0, <1>e, <3>1 DEF PlaceOf, E, Quarantined, Consumed
    <3>3. OwnerOf(r)'
      BY <1>0, <1>d, <1>e, <1>f, <3>1 DEF OwnerOf, E, Quarantined, Consumed
    <3> QED
      BY <1>e, <1>g, <2>u, <3>1, <3>2, <3>3
  <2> QED
    BY <2>1, <2>2, <2>3, <2>4, <2>5, <2>6, <2>7, <2>8, <2>9, <2>10, <2>11, <2>12
    DEF LauncherStep, CodexLauncherNext, InputSealerNext, IsolatedExecutionNext
<1> QED
  BY <1>e, <1>p, RunConns DEF r

\* Everything stays in its place.
LEMMA PlaceStep == Types /\ LinkInv /\ PlaceInv /\ [Next]_vars => PlaceInv'
<1> SUFFICES ASSUME Types, LinkInv, PlaceInv, [Next]_vars PROVE PlaceInv'
  OBVIOUS
<1>1. ASSUME NEW r \in Runs, RuntimeUnitNext(r) PROVE PlaceInv'
  <2>1. UNCHANGED <<run, bot, source, sealed, lch, seen, left>>
    BY <1>1, OuterFrame
  <2>2. /\ unit \in [Runs -> {"none", "boot", "codex", "ok", "dead"}]
        /\ sysrun \in [Runs -> {"none", "running", "ok", "failed"}]
        /\ \A s \in Runs : PlaceOf(s) /\ OwnerOf(s) /\ UnitOf(s)
    BY DEF Types, UnitTypes, PlaceInv
  <2>3. /\ loose \subseteq loose'
        /\ \A s \in Runs : /\ RunningUnit(s)' => RunningUnit(s)
                           /\ RunningUnit(s)' => s \in loose' \/ sysrun'[s] = sysrun[s]
    BY <1>1, <2>2 DEF RuntimeUnitNext, BootRuntime, RunCodex, SystemdRunExit, SystemdRunLost, BindsTo, UnitUnchanged,
       RunningUnit
  <2>4. \A s \in Runs : PlaceOf(s)' /\ OwnerOf(s)'
    BY <2>1, <2>2 DEF PlaceOf, OwnerOf, E
  <2>5. ASSUME NEW s \in Runs PROVE UnitOf(s)'
    BY <2>1, <2>2, <2>3 DEF UnitOf, E
  <2> QED
    BY <2>1, <2>4, <2>5 DEF PlaceInv
<1>2. CASE HostChanges \/ UNCHANGED vars
  <2>1. UNCHANGED <<run, bot, source, sealed, lch, seen, left, unit, sysrun, loose>>
    BY <1>2 DEF HostChanges, vars
  <2> QED
    BY <2>1 DEF PlaceInv, PlaceOf, OwnerOf, UnitOf, RunningUnit, E
<1> QED
  BY <1>1, <1>2, BotPlaceStep, LauncherPlaceStep, NextSteps


-----------------------------------------------------------------------------
\* What a launcher can do to the bot's copy: take it, leaving it as it is, or remove it.  It
\* does neither to a copy the bot is still making.
LEMMA LauncherSource ==
  ASSUME Types, LinkInv, NEW c \in Conns, LauncherStep(c)
  PROVE  /\ bot.pc \in Staging => source'[run] = source[run]
         /\ \A s \in Runs : \/ source'[s] = source[s] \/ source'[s] = NoSource
                            \/ /\ source[s].at = "pending" /\ source'[s].at = "quarantine"
                               /\ source'[s].ents = source[s].ents /\ source'[s].mode = source[s].mode
<1>0. /\ Run(c) \in Runs /\ ConnTypes /\ source \in [Runs -> Sources] /\ (bot.pc # "idle" => run \in Runs)
      /\ \A s \in Runs : BotSound(s) /\ E(s) \in Conns
      /\ \A d \in Conns : ConnSound(d)
  BY RunConns DEF Types, BotTypes, DiskTypes, LinkInv
<1>n. NoProcess.pc = "none"
  BY DEF NoProcess
<1>1. UNCHANGED source \/ c = E(Run(c))
  BY RunConns DEF LauncherStep, CodexLauncherNext, Authorise, ConfirmPeer, LookAtPeer, ReceiveRequest,
     AnswerPreflight, NoticeDisconnect, FinishExecution, LauncherKilled, LauncherUnchanged
<1>2. bot.pc \in Staging => source'[run] = source[run]
  <2>1. lch[c].pc # "none"
    BY <1>0, LauncherFrame
  <2>2. bot.pc \in Staging => run \in Runs /\ lch[E(run)].pc = "none"
    BY <1>0, <1>n DEF BotSound, ConnSound, Staging, Early
  <2> QED
    BY <1>1, <2>1, <2>2, LauncherDisk
<1>3. \/ source' = source
      \/ source' = [source EXCEPT ![Run(c)] = NoSource]
      \/ source[Run(c)].at = "pending" /\ source' = [source EXCEPT ![Run(c)].at = "quarantine"]
  <2>1. CASE CodexLauncherNext(c)
    BY <2>1 DEF CodexLauncherNext, Authorise, ConfirmPeer, LookAtPeer, ReceiveRequest, AnswerPreflight,
       NoticeDisconnect, FinishExecution, LauncherKilled, LauncherUnchanged
  <2>2. CASE InputSealerNext(c)
    BY <2>2 DEF InputSealerNext, SealQuarantine, SealStage, SealOpen, SealCopy, SealPublish, SealCleanSource,
       SealFail, SealRollback, RemoveSource
  <2>3. CASE IsolatedExecutionNext(c)
    BY <2>3 DEF IsolatedExecutionNext, PrepareExecution, current_launcher_unit_fails,
       ConsumeWorkspace, GrantAccess, VerifyFail, StartUnit,
       WritePrompt, Poll, UnitDone, StopUnit, CleanWorkspace
  <2> QED
    BY <2>1, <2>2, <2>3 DEF LauncherStep
<1>4. ASSUME NEW s \in Runs
      PROVE  \/ source'[s] = source[s] \/ source'[s] = NoSource
             \/ /\ source[s].at = "pending" /\ source'[s].at = "quarantine"
                /\ source'[s].ents = source[s].ents /\ source'[s].mode = source[s].mode
  BY <1>0, <1>3 DEF Sources
<1> QED
  BY <1>2, <1>4

\* What is staged, and what is published, stays as it should be.
LEMMA StageStep == Types /\ LinkInv /\ StageInv /\ [Next]_vars => StageInv'
<1> SUFFICES ASSUME Types, LinkInv, StageInv, [Next]_vars PROVE StageInv'
  OBVIOUS
<1>0. /\ BotTypes /\ bot \in Bots /\ run \in {NoRun} \cup Runs /\ (bot.pc # "idle" => run \in Runs)
      /\ evidence \subseteq EvidenceEntries /\ OnDisk(evidence)
      /\ lch \in [Conns -> Processes] /\ source \in [Runs -> Sources]
      /\ StagingSound /\ PublishedSound /\ (bot.pc = "abort" => source[run].mode = "private")
      /\ (bot.pc \notin {"copy", "verify", "abort"} => bot.held = None)
      /\ \A r \in Runs : EntriesSound(r)
  BY DEF Types, BotTypes, ConnTypes, DiskTypes, StageInv
<1>n. NoSource.at = "none" /\ NoSource.mode = "private" /\ NoSource.ents = {}
  BY DEF NoSource
\* Neither staging nor waiting.
<1>v. ASSUME \A r \in Runs : EntriesSound(r)', bot'.held = None,
             bot'.pc \notin {"copy", "verify", "abort", "call", "await_execute"}
      PROVE  StageInv'
  BY <1>v DEF StageInv, StagingSound, PublishedSound
<1>w. UNCHANGED source => \A r \in Runs : EntriesSound(r)'
  BY <1>0 DEF EntriesSound
<1>i. UNCHANGED <<bot, run, source, evidence>> => StageInv'
  BY <1>0, <1>w DEF StageInv, StagingSound, PublishedSound
<1>1. CASE StartAttempt
  <2>1. UNCHANGED source /\ bot'.held = None /\ bot'.pc \in {"preflight", "spawn"}
    BY <1>1 DEF StartAttempt, IdleBot
  <2> QED
    BY <1>v, <1>w, <2>1
<1>2. CASE CallPreflight
  <2>1. UNCHANGED source /\ bot.pc = "preflight"
        /\ (EndAttempt(FALSE) \/ Continue([bot EXCEPT !.pc = "await_preflight"]))
    BY <1>2 DEF CallPreflight, Connect
  <2>2. bot'.held = None /\ bot'.pc \in {"idle", "await_preflight"}
    BY <1>0, <2>1, Ended DEF Continue, Bots
  <2> QED
    BY <1>v, <1>w, <2>1, <2>2
<1>3. CASE CallExecute
  <2>1. UNCHANGED <<source, run, evidence>> /\ bot.pc = "call"
        /\ (Continue([bot EXCEPT !.pc = "clean"]) \/ Continue([bot EXCEPT !.pc = "await_execute"]))
    BY <1>3 DEF CallExecute, Connect
  <2>2. bot'.held = None /\ bot'.listed = bot.listed /\ bot'.pc \in {"clean", "await_execute"}
    BY <1>0, <2>1 DEF Continue, Bots
  <2> QED
    BY <1>0, <1>w, <2>1, <2>2 DEF StageInv, StagingSound, PublishedSound
<1>4. ASSUME NEW c \in Conns, NEW ok, Awaiting(c), CloseWith(c, ok) PROVE StageInv'
  <2>1. UNCHANGED source /\ bot.pc \in {"await_preflight", "await_execute"}
    BY <1>4 DEF CloseWith, Awaiting
  <2>2. \/ Continue([bot EXCEPT !.pc = "stage"]) \/ EndAttempt(FALSE)
        \/ Continue([bot EXCEPT !.pc = "clean", !.got = ok])
    BY <1>4 DEF CloseWith
  <2>3. bot'.held = None /\ bot'.pc \in {"stage", "idle", "clean"}
    BY <1>0, <2>1, <2>2, Ended DEF Continue, Bots
  <2> QED
    BY <1>v, <1>w, <2>1, <2>3
<1>5. ASSUME NEW c \in Conns, ReceiveResponse(c) \/ ReceiveEof(c) \/ ReceiveTimeout(c) PROVE StageInv'
  BY <1>4, <1>5 DEF ReceiveResponse, ReceiveEof, ReceiveTimeout
<1>6. CASE BotCrash
  <2>1. UNCHANGED source /\ EndAttempt(FALSE)
    BY <1>6 DEF BotCrash
  <2> QED
    BY <1>v, <1>w, <2>1, Ended
<1>7. CASE SpawnChild \/ ChildExit \/ TerminateChild \/ CollectChild \/ GroupExit
  <2>1. UNCHANGED <<source, run, evidence>>
    BY <1>7 DEF SpawnChild, ChildExit, TerminateChild, CollectChild, GroupExit, ChildUnchanged
  <2>2. \/ UNCHANGED bot
        \/ bot.pc = "spawn" /\ Continue([bot EXCEPT !.pc = "child"])
        \/ EndAttempt(FALSE) \/ EndAttempt(TRUE)
    BY <1>7 DEF SpawnChild, ChildExit, TerminateChild, CollectChild, GroupExit
  <2>3. UNCHANGED bot \/ (bot'.held = None /\ bot'.pc \in {"child", "idle"})
    BY <1>0, <2>2, Ended DEF Continue, Bots
  <2> QED
    BY <1>i, <1>v, <1>w, <2>1, <2>3
\* The staging.
<1>8. CASE StageBegin
  <2>0. run \in Runs /\ bot.pc = "stage" /\ UNCHANGED <<run, evidence>>
    BY <1>0, <1>8 DEF StageBegin, StagingUnchanged
  <2> DEFINE top == Listing(evidence, <<>>)
  <2>1. CASE CreateRunDirectory(run) /\ Continue([bot EXCEPT !.pc = "copy", !.listed = top, !.todo = top])
    <3>1. bot'.pc = "copy" /\ bot'.listed = top /\ bot'.todo = top /\ bot'.held = None
      BY <1>0, <2>0, <2>1 DEF Continue, Bots
    <3>2. /\ source'[run].ents = {} /\ source'[run].mode = "private"
          /\ \A r \in Runs \ {run} : source'[r] = source[r]
      BY <1>0, <2>0, <2>1 DEF CreateRunDirectory
    <3>3. \A r \in Runs : EntriesSound(r)'
      BY <1>0, <2>0, <3>2 DEF EntriesSound, Untorn
    <3>4. StagingSound'
      BY <2>0, <3>1, <3>2 DEF StagingSound, HeldBy, Untorn
    <3> QED
      BY <3>1, <3>3, <3>4 DEF StageInv, PublishedSound
  <2>2. CASE EndAttempt(FALSE) /\ UNCHANGED source
    BY <1>v, <1>w, <2>2, Ended
  <2> QED
    BY <1>8, <2>1, <2>2 DEF StageBegin
\* A staging that is given up.
<1>a. ASSUME bot.pc \in {"copy", "verify"}, UNCHANGED <<source, run>>, Continue([bot EXCEPT !.pc = "abort"])
      PROVE  StageInv'
  <2>1. bot'.pc = "abort"
    BY <1>0, <1>a DEF Continue, Bots
  <2>2. source[run].mode = "private"
    BY <1>0, <1>a DEF StagingSound
  <2> QED
    BY <1>a, <1>w, <2>1, <2>2 DEF StageInv, StagingSound, PublishedSound
<1>9. CASE StageOpen
  <2>0. run \in Runs /\ bot.pc = "copy" /\ bot.held = None /\ UNCHANGED <<source, run, evidence>>
    BY <1>0, <1>9 DEF StageOpen, StagingUnchanged
  <2>1. ASSUME NEW e \in bot.todo, NEW x \in evidence, x.name = e.name, StageableEntry(x),
               Continue([bot EXCEPT !.held = x, !.todo = (@ \ {e}) \cup Inside(x), !.listed = @ \cup Inside(x)])
        PROVE  StageInv'
    <3>1. /\ bot'.pc = "copy" /\ bot'.held = x
          /\ bot'.todo = (bot.todo \ {e}) \cup Inside(x) /\ bot'.listed = bot.listed \cup Inside(x)
      BY <1>0, <2>0, <2>1 DEF Continue, Bots
    <3>2. x # None /\ x.body \in {Torn} \cup Nat
      BY <1>0, <2>1, NoneIsNoEntry DEF EvidenceEntries, EntryType
    <3>3. HeldBy(bot) = {} /\ HeldBy(bot') = {x}
      BY <2>0, <3>1, <3>2 DEF HeldBy
    <3>4. Names(source[run].ents \cup bot.todo) = Names(bot.listed)
      <4>1. source[run].ents \cup bot.todo \cup HeldBy(bot) = source[run].ents \cup bot.todo
        BY <3>3
      <4> QED
        BY <1>0, <2>0, <4>1 DEF StagingSound
    <3>5. Names(source'[run'].ents \cup bot'.todo \cup HeldBy(bot')) = Names(bot'.listed)
      <4>1. source'[run'].ents \cup bot'.todo \cup HeldBy(bot')
              = source[run].ents \cup ((bot.todo \ {e}) \cup Inside(x)) \cup {x}
        BY <2>0, <3>1, <3>3
      <4>2. Names(source[run].ents \cup ((bot.todo \ {e}) \cup Inside(x)) \cup {x})
              = Names(source[run].ents \cup bot.todo) \cup Names(Inside(x))
        BY <2>1 DEF Names
      <4>3. Names(bot.listed \cup Inside(x)) = Names(bot.listed) \cup Names(Inside(x))
        BY DEF Names
      <4> QED
        BY <3>1, <3>4, <4>1, <4>2, <4>3
    <3>6. x.body >= x.body
      BY <3>2 DEF Torn
    <3>7. StagingSound'
      BY <1>0, <2>0, <2>1, <3>1, <3>5, <3>6 DEF StagingSound
    <3> QED
      BY <1>w, <2>0, <3>1, <3>7 DEF StageInv, PublishedSound
  <2> QED
    BY <1>9, <1>a, <2>0, <2>1 DEF StageOpen
<1>10. CASE StageCopy
  <2> DEFINE e == bot.held
             body == IF e \in evidence THEN e.body ELSE Torn
             copy == StagedEntry(e, body)
  <2>0. run \in Runs /\ bot.pc = "copy" /\ e # None /\ UNCHANGED <<run, evidence>>
    BY <1>0, <1>10 DEF StageCopy, StagingUnchanged
  <2>1. e \in EvidenceEntries /\ e.body \in {Torn} \cup Nat /\ StageableEntry(e)
    BY <1>0, <2>0 DEF Bots, EvidenceEntries, EntryType, StagingSound
  <2>2. copy.name = e.name /\ copy.body = body /\ StageableEntry(copy)
    BY <2>1, StagedEntryType
  <2>3. e \in evidence => body # Torn
    BY <1>0 DEF OnDisk
  <2>4. source' = [source EXCEPT ![run].ents = @ \cup {copy}] /\ Continue([bot EXCEPT !.pc = "verify"])
    BY <1>10 DEF StageCopy
  <2> HIDE DEF copy, body
  <2>5. bot'.pc = "verify" /\ bot'.held = e /\ bot'.todo = bot.todo /\ bot'.listed = bot.listed
    BY <1>0, <2>4 DEF Continue, Bots
  <2>6. /\ source'[run].ents = source[run].ents \cup {copy} /\ source'[run].mode = source[run].mode
        /\ \A r \in Runs \ {run} : source'[r] = source[r]
    BY <1>0, <2>0, <2>4 DEF Sources
  <2>7. source[run].mode = "private" /\ Untorn(source[run].ents)
        /\ Names(source[run].ents \cup bot.todo \cup HeldBy(bot)) = Names(bot.listed)
    BY <1>0, <2>0 DEF StagingSound
  <2>8. HeldBy(bot) = {e} /\ HeldBy(bot') = {e}
    BY <2>0, <2>5 DEF HeldBy
  <2>9. Names(source'[run].ents \cup bot'.todo \cup HeldBy(bot')) = Names(bot'.listed)
    <3>1. Names(source[run].ents \cup {copy} \cup bot.todo \cup {e}) = Names(source[run].ents \cup bot.todo \cup {e})
      BY <2>2 DEF Names
    <3> QED
      BY <2>5, <2>6, <2>7, <2>8, <3>1
  <2>10. e.name \in Names(source'[run].ents)
    BY <2>2, <2>6 DEF Names
  <2>11. e \in evidence => Untorn(source'[run].ents)
    BY <2>2, <2>3, <2>6, <2>7 DEF Untorn
  <2>12. \E x \in evidence : x.name = e.name /\ x.body >= e.body
    BY <1>0, <2>0 DEF StagingSound
  <2>13. StagingSound'
    BY <2>0, <2>1, <2>5, <2>6, <2>7, <2>9, <2>10, <2>11, <2>12 DEF StagingSound
  <2>14. \A r \in Runs : EntriesSound(r)'
    BY <1>0, <2>0, <2>2, <2>6, <2>7 DEF EntriesSound
  <2> QED
    BY <2>5, <2>13, <2>14 DEF StageInv, PublishedSound
<1>11. CASE StageVerify
  <2>0. run \in Runs /\ bot.pc = "verify" /\ UNCHANGED <<source, run, evidence>>
    BY <1>0, <1>11 DEF StageVerify, StagingUnchanged
  <2>1. CASE bot.held \in evidence /\ Continue([bot EXCEPT !.pc = "copy", !.held = None])
    <3>1. bot'.pc = "copy" /\ bot'.held = None /\ bot'.todo = bot.todo /\ bot'.listed = bot.listed
      BY <1>0, <2>1 DEF Continue, Bots
    <3>2. bot.held # None /\ bot.held.name \in Names(source[run].ents) /\ Untorn(source[run].ents)
          /\ source[run].mode = "private"
          /\ Names(source[run].ents \cup bot.todo \cup HeldBy(bot)) = Names(bot.listed)
      BY <1>0, <2>0, <2>1 DEF StagingSound
    <3>3. Names(source[run].ents \cup bot.todo \cup {bot.held}) = Names(source[run].ents \cup bot.todo)
      BY <3>2 DEF Names
    <3>4. HeldBy(bot) = {bot.held} /\ HeldBy(bot') = {}
      BY <3>1, <3>2 DEF HeldBy
    <3>5. Names(source'[run'].ents \cup bot'.todo \cup HeldBy(bot')) = Names(bot'.listed)
      <4>1. source'[run'].ents \cup bot'.todo \cup HeldBy(bot') = source[run].ents \cup bot.todo
        BY <2>0, <3>1, <3>4
      <4> QED
        BY <3>1, <3>2, <3>3, <3>4, <4>1
    <3>6. StagingSound'
      BY <2>0, <3>1, <3>2, <3>5 DEF StagingSound
    <3> QED
      BY <1>w, <2>0, <3>1, <3>6 DEF StageInv, PublishedSound
  <2>2. CASE Continue([bot EXCEPT !.pc = "abort"])
    BY <1>a, <2>0, <2>2
  <2> QED
    BY <1>11, <2>1, <2>2 DEF StageVerify
<1>12. CASE StagePublish
  <2>0. run \in Runs /\ bot.pc = "copy" /\ bot.held = None /\ bot.todo = {} /\ UNCHANGED <<run, evidence>>
    BY <1>0, <1>12 DEF StagePublish, StagingUnchanged
  <2>1. CASE source' = [source EXCEPT ![run].mode = "source"] /\ Continue([bot EXCEPT !.pc = "call"])
    <3>1. bot'.pc = "call" /\ bot'.held = None /\ bot'.listed = bot.listed
      BY <1>0, <2>0, <2>1 DEF Continue, Bots
    <3>2. /\ source'[run].ents = source[run].ents /\ source'[run].mode = "source"
          /\ \A r \in Runs \ {run} : source'[r] = source[r]
      BY <1>0, <2>0, <2>1 DEF Sources
    <3>3. Untorn(source[run].ents) /\ Names(source[run].ents \cup bot.todo \cup HeldBy(bot)) = Names(bot.listed)
      BY <1>0, <2>0 DEF StagingSound
    <3>4. source[run].ents \cup bot.todo \cup HeldBy(bot) = source[run].ents
      BY <2>0 DEF HeldBy
    <3>5. PublishedSound'
      BY <2>0, <3>1, <3>2, <3>3, <3>4 DEF PublishedSound
    <3>6. \A r \in Runs : EntriesSound(r)'
      BY <1>0, <2>0, <3>2, <3>3 DEF EntriesSound
    <3> QED
      BY <3>1, <3>5, <3>6 DEF StageInv, StagingSound
  <2>2. CASE Continue([bot EXCEPT !.pc = "abort"]) /\ UNCHANGED source
    BY <1>a, <2>0, <2>2
  <2> QED
    BY <1>12, <2>1, <2>2 DEF StagePublish
<1>13. CASE StageFail
  BY <1>13, <1>a DEF StageFail, StagingUnchanged
\* A copy that is removed, or emptied.
<1>r. ASSUME run \in Runs, \A r \in Runs \ {run} : source'[r] = source[r],
             source'[run] = source[run] \/ source'[run] = NoSource
             \/ (source'[run].ents \subseteq source[run].ents /\ source'[run].mode = source[run].mode)
      PROVE  \A r \in Runs : EntriesSound(r)'
  BY <1>0, <1>n, <1>r DEF EntriesSound, Untorn
<1>14. CASE StageAbort \/ RemovePendingDirectory
  <2>0. run \in Runs /\ bot'.held = None /\ bot'.pc = "idle"
    BY <1>0, <1>14, Ended DEF StageAbort, RemovePendingDirectory
  <2>1. (\A r \in Runs \ {run} : source'[r] = source[r]) /\ (source'[run] = source[run] \/ source'[run] = NoSource)
    BY <1>0, <1>14, <2>0 DEF StageAbort, RemovePendingDirectory
  <2> QED
    BY <1>r, <1>v, <2>0, <2>1
<1>15. CASE RemovePendingEntry
  <2>0. run \in Runs /\ UNCHANGED bot /\ bot.pc = "removing"
    BY <1>0, <1>15 DEF RemovePendingEntry
  <2>1. /\ \A r \in Runs \ {run} : source'[r] = source[r]
        /\ source'[run].ents \subseteq source[run].ents /\ source'[run].mode = source[run].mode
    BY <1>0, <1>15, <2>0 DEF RemovePendingEntry, Sources
  <2> QED
    BY <1>0, <1>r, <1>v, <2>0, <2>1
<1>16. CASE CleanPending \/ CleanPendingFail
  <2>1. UNCHANGED source /\ bot.pc \in {"clean", "removing"}
        /\ (Continue([bot EXCEPT !.pc = "removing"]) \/ \E ok : EndAttempt(ok))
    BY <1>16 DEF CleanPending, CleanPendingFail
  <2>2. bot'.held = None /\ bot'.pc \in {"removing", "idle"}
    BY <1>0, <2>1, Ended DEF Continue, Bots
  <2> QED
    BY <1>v, <1>w, <2>1, <2>2
\* A file written since it was opened is not taken for the one that was opened.
<1>17. CASE EvidenceWrite
  <2>0. bot.pc \in {"copy", "verify"} /\ UNCHANGED <<bot, run, source>>
    BY <1>17 DEF EvidenceWrite, botVars
  <2>1. /\ bot.held \in evidence' => bot.held \in evidence \/ bot.held = None
        /\ bot.held # None => \E x \in evidence' : x.name = bot.held.name /\ x.body >= bot.held.body
    <3>1. CASE bot.held = None
      BY <3>1
    <3>2. CASE bot.held # None
      <4>1. bot.held \in EvidenceEntries /\ bot.held.body \in Int
        BY <1>0, <3>2 DEF Bots, EvidenceEntries, EntryType, Torn
      <4>2. PICK x \in evidence : x.name = bot.held.name /\ x.body >= bot.held.body
        BY <1>0, <2>0, <3>2 DEF StagingSound
      <4>3. x.body \in Int
        BY <1>0 DEF EvidenceEntries, EntryType, Torn
      <4>4. ASSUME NEW e \in evidence, evidence' = (evidence \ {e}) \cup {[e EXCEPT !.body = @ + 1]}
            PROVE  /\ bot.held \in evidence' => bot.held \in evidence
                   /\ \E y \in evidence' : y.name = bot.held.name /\ y.body >= bot.held.body
        <5> DEFINE f == [e EXCEPT !.body = @ + 1]
        <5>1. f.name = e.name /\ f.body = e.body + 1 /\ e.body \in Int
          BY <1>0 DEF EvidenceEntries, EntryType, Torn
        <5>2. f \in evidence' /\ \A y \in evidence' : y = f \/ y \in evidence
          BY <4>4
        <5>3. x = e \/ x \in evidence'
          BY <4>4
        <5> HIDE DEF f
        <5>4. bot.held = f => x = e
          BY <1>0, <4>2, <5>1 DEF OnDisk
        <5>5. bot.held # f
          BY <4>2, <4>3, <5>1, <5>4
        <5>6. x = e => f.name = bot.held.name /\ f.body >= bot.held.body
          BY <4>1, <4>2, <5>1
        <5> QED
          BY <4>2, <5>2, <5>3, <5>5, <5>6
      <4>5. ASSUME NEW e \in evidence, NEW name \in Paths \ Names(evidence),
                   evidence' = evidence \cup
                     {[e EXCEPT !.name = name, !.depth = Len(name) - 1, !.kind = "file", !.links = 1]}
            PROVE  /\ bot.held \in evidence' => bot.held \in evidence
                   /\ \E y \in evidence' : y.name = bot.held.name /\ y.body >= bot.held.body
        <5> DEFINE f == [e EXCEPT !.name = name, !.depth = Len(name) - 1, !.kind = "file", !.links = 1]
        <5>1. f.name = name
          BY <1>0 DEF EvidenceEntries, EntryType
        <5>2. \A y \in evidence' : y = f \/ y \in evidence
          BY <4>5
        <5>3. x \in evidence'
          BY <4>5
        <5> HIDE DEF f
        <5>4. bot.held # f
          BY <4>2, <5>1 DEF Names
        <5> QED
          BY <4>2, <5>2, <5>3, <5>4
      <4> QED
        BY <1>17, <4>4, <4>5 DEF EvidenceWrite
    <3> QED
      BY <3>1, <3>2
  <2>2. StagingSound'
    BY <1>0, <2>0, <2>1 DEF StagingSound
  <2> QED
    BY <1>0, <1>w, <2>0, <2>2 DEF StageInv, PublishedSound
\* The others.
<1>18. ASSUME NEW c \in Conns, LauncherStep(c) PROVE StageInv'
  <2>1. UNCHANGED <<bot, run, evidence>>
    BY <1>18, LauncherFrame DEF Types
  <2>2. /\ bot.pc \in Staging => source'[run] = source[run]
        /\ \A s \in Runs : \/ source'[s] = source[s] \/ source'[s] = NoSource
                           \/ /\ source[s].at = "pending" /\ source'[s].at = "quarantine"
                              /\ source'[s].ents = source[s].ents /\ source'[s].mode = source[s].mode
    BY <1>18, LauncherSource
  <2>3. \A r \in Runs : EntriesSound(r)'
    BY <1>0, <1>n, <2>2 DEF EntriesSound, Untorn
  <2>4. StagingSound' /\ (bot'.pc = "abort" => source'[run'].mode = "private")
    BY <1>0, <2>1, <2>2 DEF StagingSound, Staging
  <2>5. PublishedSound'
    BY <1>0, <1>n, <2>1, <2>2 DEF PublishedSound
  <2> QED
    BY <1>0, <2>1, <2>3, <2>4, <2>5 DEF StageInv
<1>19. CASE (\E r \in Runs : RuntimeUnitNext(r)) \/ HostChanges \/ UNCHANGED vars
  BY <1>19, <1>i, OuterFrame
<1> QED
  BY <1>1, <1>2, <1>3, <1>5, <1>6, <1>7, <1>8, <1>9, <1>10, <1>11, <1>12, <1>13, <1>14, <1>15, <1>16, <1>17, <1>18,
     <1>19, NextSteps DEF BotInner, RunnerInputNext


-----------------------------------------------------------------------------
\* What a launcher comes to, what it answers, and what it starts Codex on.
LEMMA LauncherResult ==
  ASSUME Types, NEW c \in Conns, LauncherStep(c)
  PROVE  /\ \/ lch'[c].result = lch[c].result
            \/ lch'[c].result \in {"cancelled", "error", "timed_out", "failed"}
            \/ lch'[c].result = "completed" /\ lch[c].pc = "wait"
            \/ lch'[c].result = "unavailable" /\ c \in ExecuteConns /\ ~(ensure_activation_enabled /\ verify_runtime)
         /\ \/ resp'[c] = resp[c] \/ resp'[c].kind = "rejected" \/ resp'[c] = Ready(preflight)
            \/ resp'[c].kind = "completed" /\ lch[c].result = "completed"
         /\ \/ UNCHANGED seen /\ (lch'[c].pc \in {"prompt", "wait"} => lch[c].pc \in {"prompt", "wait"})
            \/ lch[c].pc = "start" /\ c \in ExecuteConns /\ seen' = [seen EXCEPT ![Run(c)] = sealed[Run(c)].ents]
<1>0. ConnTypes /\ lch \in [Conns -> Processes] /\ DOMAIN resp = Conns
  BY DEF Types, ConnTypes
<1>t. /\ {"cancelled", "error", "unavailable", "timed_out", "failed", "completed"} \subseteq Results
      /\ BudgetError(c) \in {"cancelled", "error"}
      /\ Executing \cup {"confirm", "receive", "preflight", "finish"} \subseteq ProcessPcs
  BY DEF Results, ProcessPcs, BudgetError
<1>p. /\ \A x \in ProcessPcs : Step(c, x) => lch'[c].pc = x /\ lch'[c].result = lch[c].result
      /\ \A x \in ProcessPcs, y \in Results : Fails(c, x, y) => lch'[c].pc = x /\ lch'[c].result = y
      /\ Exit(c) => lch'[c].pc = "exited" /\ lch'[c].result = lch[c].result
  BY <1>0, StepUpdates, FailsUpdates, ExitUpdates
<1>g. /\ Go(c, [lch[c] EXCEPT !.cancelled = TRUE]) => lch'[c].pc = lch[c].pc /\ lch'[c].result = lch[c].result
      /\ \A e : Go(c, [lch[c] EXCEPT !.held = e, !.todo = @ \ {e}]) =>
                  lch'[c].pc = lch[c].pc /\ lch'[c].result = lch[c].result
      /\ Go(c, [lch[c] EXCEPT !.held = None]) => lch'[c].pc = lch[c].pc /\ lch'[c].result = lch[c].result
      /\ \A l : Go(c, [lch[c] EXCEPT !.pc = "seal", !.listed = l, !.todo = l]) =>
                  lch'[c].pc = "seal" /\ lch'[c].result = lch[c].result
  BY <1>0 DEF Go, Processes
<1>r. /\ \A x, y : Rejected(x, y).kind = "rejected"
      /\ \A x, y : ExecutionResponse(x, y).kind = "rejected"
                   \/ (ExecutionResponse(x, y).kind = "completed" /\ y = "completed")
  BY DEF Rejected, ExecutionResponse, Completed
\* The answers.
<1>1. CASE Authorise(c) \/ ConfirmPeer(c)
  <2>1. (Exit(c) \/ Step(c, "confirm") \/ Step(c, "receive")) /\ UNCHANGED <<resp, seen>>
    BY <1>1 DEF Authorise, ConfirmPeer, LookAtPeer, LauncherUnchanged
  <2> QED
    BY <1>p, <1>t, <2>1
<1>2. CASE ReceiveRequest(c)
  <2>1. /\ UNCHANGED seen
        /\ \/ Exit(c) /\ (UNCHANGED resp \/ \E x, y : resp' = [resp EXCEPT ![c] = Rejected(x, y)])
           \/ (Step(c, "preflight") \/ Step(c, "prepare")) /\ UNCHANGED resp
    BY <1>2 DEF ReceiveRequest, LauncherUnchanged
  <2>2. lch'[c].result = lch[c].result /\ lch'[c].pc \in {"exited", "preflight", "prepare"}
    BY <1>p, <1>t, <2>1 DEF Executing
  <2>3. resp'[c] = resp[c] \/ resp'[c].kind = "rejected"
    BY <1>0, <1>r, <2>1
  <2> QED
    BY <2>1, <2>2, <2>3
<1>3. CASE AnswerPreflight(c)
  <2>1. Exit(c) /\ UNCHANGED seen /\ (UNCHANGED resp \/ resp' = [resp EXCEPT ![c] = Ready(preflight)])
    BY <1>3 DEF AnswerPreflight, LauncherUnchanged
  <2>2. resp'[c] = resp[c] \/ resp'[c] = Ready(preflight)
    BY <1>0, <2>1
  <2> QED
    BY <1>p, <2>1, <2>2
<1>4. CASE FinishExecution(c)
  <2>1. /\ Exit(c) /\ UNCHANGED seen
        /\ UNCHANGED resp \/ resp' = [resp EXCEPT ![c] = ExecutionResponse(Run(c), lch[c].result)]
    BY <1>4 DEF FinishExecution, LauncherUnchanged
  <2>2. resp'[c] = resp[c] \/ resp'[c] = ExecutionResponse(Run(c), lch[c].result)
    BY <1>0, <2>1
  <2> QED
    BY <1>p, <1>r, <2>1, <2>2
<1>5. CASE NoticeDisconnect(c) \/ LauncherKilled(c)
  BY <1>5, <1>g, <1>p DEF NoticeDisconnect, LauncherKilled, LauncherUnchanged, socketVars
\* The sealing.
<1>6. CASE SealQuarantine(c)
  <2>1. (Fails(c, "finish", BudgetError(c)) \/ Step(c, "staging")) /\ UNCHANGED <<resp, seen>>
    BY <1>6 DEF SealQuarantine, SealerUnchanged, socketVars
  <2> QED
    BY <1>p, <1>t, <2>1 DEF Executing
<1>7. CASE SealStage(c) \/ SealOpen(c) \/ SealCopy(c) \/ SealFail(c)
  <2>1. /\ UNCHANGED <<resp, seen>> /\ lch[c].pc \in {"staging", "seal"}
        /\ \/ Fails(c, "rollback", BudgetError(c)) \/ Fails(c, "rollback", "error")
           \/ \E l : Go(c, [lch[c] EXCEPT !.pc = "seal", !.listed = l, !.todo = l])
           \/ \E e : Go(c, [lch[c] EXCEPT !.held = e, !.todo = @ \ {e}])
           \/ Go(c, [lch[c] EXCEPT !.held = None])
    BY <1>7 DEF SealStage, SealOpen, SealCopy, SealFail, SealerUnchanged, socketVars, At
  <2> QED
    BY <1>g, <1>p, <1>t, <2>1 DEF Executing
<1>8. CASE SealPublish(c)
  <2>1. (Fails(c, "rollback", BudgetError(c)) \/ Step(c, "sealed")) /\ UNCHANGED <<resp, seen>>
    BY <1>8 DEF SealPublish, SealerUnchanged, socketVars
  <2> QED
    BY <1>p, <1>t, <2>1 DEF Executing
<1>9. CASE SealCleanSource(c) \/ SealRollback(c)
  <2>1. (Fails(c, "finish", "error") \/ Step(c, "consume") \/ Step(c, "finish")) /\ UNCHANGED <<resp, seen>>
    BY <1>9 DEF SealCleanSource, SealRollback, RemoveSource, SealerUnchanged, socketVars
  <2> QED
    BY <1>p, <1>t, <2>1 DEF Executing
\* The execution.
<1>10. CASE c \in ExecuteConns /\ PrepareExecution(c)
  <2>1. /\ UNCHANGED <<resp, seen>>
        /\ \/ Fails(c, "finish", "cancelled") \/ Step(c, "quarantine") \/ Fails(c, "finish", "error")
           \/ Fails(c, "finish", "unavailable") /\ ~(ensure_activation_enabled /\ verify_runtime)
    BY <1>10 DEF PrepareExecution, current_launcher_unit_fails, ExecutionUnchanged, socketVars
  <2> QED
    BY <1>10, <1>p, <1>t, <2>1 DEF Executing
<1>11. CASE ConsumeWorkspace(c) \/ GrantAccess(c) \/ VerifyFail(c)
  <2>1. /\ UNCHANGED <<resp, seen>>
        /\ \/ Step(c, "grant") \/ Step(c, "start") \/ Fails(c, "finish", BudgetError(c)) \/ Fails(c, "finish", "error")
    BY <1>11 DEF ConsumeWorkspace, GrantAccess, VerifyFail, ExecutionUnchanged, socketVars
  <2> QED
    BY <1>p, <1>t, <2>1 DEF Executing
<1>12. CASE c \in ExecuteConns /\ StartUnit(c)
  <2>1. /\ UNCHANGED resp /\ lch[c].pc = "start"
        /\ \/ (Fails(c, "cleanup", BudgetError(c)) \/ Fails(c, "cleanup", "error")) /\ UNCHANGED seen
           \/ Step(c, "prompt") /\ seen' = [seen EXCEPT ![Run(c)] = sealed[Run(c)].ents]
    BY <1>12 DEF StartUnit, ExecutionUnchanged, socketVars, At
  <2> QED
    BY <1>12, <1>p, <1>t, <2>1 DEF Executing
<1>13. CASE WritePrompt(c) \/ Poll(c)
  <2>1. /\ UNCHANGED <<resp, seen>> /\ lch[c].pc \in {"prompt", "wait"}
        /\ \/ Step(c, "wait") \/ Fails(c, "stop", "error") \/ Fails(c, "stop", "cancelled")
           \/ Fails(c, "stop", "timed_out")
    BY <1>13 DEF WritePrompt, Poll, ExecutionUnchanged, socketVars, At
  <2> QED
    BY <1>p, <1>t, <2>1 DEF Executing
<1>14. CASE UnitDone(c)
  <2>1. /\ UNCHANGED <<resp, seen>> /\ lch[c].pc = "wait"
        /\ \E y \in {"timed_out", "failed", "completed", "error"} : Fails(c, "cleanup", y)
    BY <1>14 DEF UnitDone, ExecutionUnchanged, socketVars, At
  <2> QED
    BY <1>p, <1>t, <2>1 DEF Executing
<1>15. CASE StopUnit(c) \/ CleanWorkspace(c)
  <2>1. /\ UNCHANGED <<resp, seen>>
        /\ \/ Step(c, "cleanup") \/ Fails(c, "cleanup", "error") \/ Step(c, "finish") \/ Fails(c, "finish", "error")
    BY <1>15 DEF StopUnit, CleanWorkspace, ExecutionUnchanged, socketVars
  <2> QED
    BY <1>p, <1>t, <2>1 DEF Executing
<1> QED
  BY <1>1, <1>2, <1>3, <1>4, <1>5, <1>6, <1>7, <1>8, <1>9, <1>10, <1>11, <1>12, <1>13, <1>14, <1>15
  DEF LauncherStep, CodexLauncherNext, InputSealerNext, IsolatedExecutionNext

\* Where nothing has gone wrong, nothing had before the step.
LEMMA Faultless ==
  ASSUME Types, [Next]_vars, faults' = 0
  PROVE  faults = 0 /\ ~Fault
<1>0. faults \in Nat
  BY RunAssumption DEF Types
<1>f. ~Fault
  BY <1>0 DEF Fault
<1>1. Fault \/ NoFault \/ UNCHANGED faults
  <2>1. CodexRunnerNext => Fault \/ NoFault
    BY DEF CodexRunnerNext, StartAttempt, CallPreflight, CallExecute, Connect, BotCrash, ReceiveResponse, ReceiveEof,
       ReceiveTimeout, SpawnChild, ChildExit, TerminateChild, CollectChild, GroupExit
  <2>2. RunnerInputNext => Fault \/ NoFault
    BY DEF RunnerInputNext, StageBegin, StageOpen, StageCopy, StageVerify, StagePublish, StageFail, StageAbort,
       CleanPending, RemovePendingEntry, RemovePendingDirectory, CleanPendingFail, EvidenceWrite
  <2>3. \A c \in Conns : CodexLauncherNext(c) => Fault \/ NoFault
    BY DEF CodexLauncherNext, Authorise, ConfirmPeer, LookAtPeer, ReceiveRequest, AnswerPreflight, NoticeDisconnect,
       FinishExecution, LauncherKilled
  <2>4. \A c \in ExecuteConns : InputSealerNext(c) => Fault \/ NoFault
    BY DEF InputSealerNext, SealQuarantine, SealStage, SealOpen, SealCopy, SealPublish, SealCleanSource, SealFail,
       SealRollback, RemoveSource
  <2>5. \A c \in ExecuteConns : IsolatedExecutionNext(c) => Fault \/ NoFault
    BY DEF IsolatedExecutionNext, PrepareExecution, current_launcher_unit_fails,
       ConsumeWorkspace, GrantAccess, VerifyFail, StartUnit,
       WritePrompt, Poll, UnitDone, StopUnit, CleanWorkspace, DropSealed
  <2>6. \A r \in Runs : RuntimeUnitNext(r) => Fault \/ NoFault
    BY DEF RuntimeUnitNext, BootRuntime, RunCodex, SystemdRunExit, SystemdRunLost, BindsTo
  <2> QED
    BY <2>1, <2>2, <2>3, <2>4, <2>5, <2>6 DEF Next, HostChanges, vars
<1> QED
  BY <1>f, <1>1 DEF NoFault

\* What the preflight found holds as long as nothing goes wrong.
LEMMA HostStep == Types /\ LinkInv /\ HostInv /\ [Next]_vars => HostInv'
<1> SUFFICES ASSUME Types, LinkInv, HostInv, [Next]_vars, faults' = 0 PROVE HostInv'
  BY DEF HostInv
<1>0. /\ BotTypes /\ ConnTypes /\ bot \in Bots /\ run \in {NoRun} \cup Runs /\ (bot.pc # "idle" => run \in Runs)
      /\ lch \in [Conns -> Processes] /\ sock \in [Conns -> {"none", "open", "closed"}] /\ DOMAIN resp = Conns
      /\ faults \in Nat
      /\ \A c \in Conns : ConnSound(c)
      /\ \A r \in Runs : E(r) \in Conns /\ P(r) \in Conns /\ BotSound(r)
  BY RunConns, RunAssumption DEF Types, BotTypes, ConnTypes, LinkInv
<1>f. ~Fault
  BY <1>0 DEF Fault
<1>z. faults = 0
  BY Faultless
<1> DEFINE Found(r) == \/ ValidPreflightResponse(resp[P(r)]) /\ resp[P(r)] # NoPacket
                       \/ r = run /\ bot.pc \in Staging
                       \/ sock[E(r)] # "none"
<1>h. /\ \A r \in Runs : Found(r) => preflight
      /\ \A c \in ExecuteConns : lch[c].result # "unavailable"
  BY <1>z DEF HostInv
<1>g. ASSUME UNCHANGED host, \A r \in Runs : Found(r)' => preflight, \A c \in ExecuteConns : lch'[c].result # "unavailable"
      PROVE  HostInv'
  <2>1. preflight' <=> preflight
    BY <1>g DEF preflight, ensure_activation_enabled, SealerPreflight, verify_runtime, RuntimeImageBound,
       resolve_codex_group_ids, InputRootsTrusted
  <2> QED
    BY <1>g, <2>1 DEF HostInv
\* The bot moves on.
<1>b. ASSUME UNCHANGED <<resp, host>>, \A r \in Runs : sock[E(r)] = "none" => sock'[E(r)] = "none" \/ Found(r),
             bot'.pc \in Staging => run' = run /\ (bot.pc \in Staging \/ Found(run)),
             \A c \in ExecuteConns : lch'[c].result \in {lch[c].result, "none"}
      PROVE  HostInv'
  <2>1. \A c \in ExecuteConns : lch'[c].result # "unavailable"
    BY <1>b, <1>h
  <2>2. ASSUME NEW r \in Runs, Found(r)' PROVE Found(r)
    BY <1>b, <2>2 DEF P, E
  <2>3. \A r \in Runs : Found(r)' => preflight
    BY <1>h, <2>2
  <2> QED
    BY <1>b, <1>g, <2>1, <2>3
<1>1. CASE StartAttempt
  <2>1. UNCHANGED <<resp, host, sock, lch>> /\ bot'.pc \in {"preflight", "spawn"}
    BY <1>1 DEF StartAttempt, RunnerUnchanged, launcherVars, socketVars, IdleBot
  <2> QED
    BY <1>b, <2>1 DEF Staging
<1>2. CASE CallPreflight
  <2>0. run \in Runs /\ bot.pc = "preflight" /\ UNCHANGED <<resp, host, run>>
    BY <1>0, <1>2 DEF CallPreflight
  <2>1. CASE Exchange(P(run), PreflightRequest) /\ Continue([bot EXCEPT !.pc = "await_preflight"])
    <3>1. sock[P(run)] = "none"
      BY <1>0, <2>0 DEF BotSound
    <3>2. \A d \in Conns \ {P(run)} : sock'[d] = sock[d] /\ lch'[d] = lch[d]
      BY <1>0, <2>0, <2>1, <3>1, Opened
    <3>3. bot'.pc = "await_preflight"
      BY <1>0, <2>1 DEF Continue, Bots
    <3>4. \A r \in Runs : sock'[E(r)] = sock[E(r)]
      BY <1>0, <2>0, <3>2, RunConns
    <3>5. \A c \in ExecuteConns : lch'[c] = lch[c]
      BY <2>0, <3>2, RunConns
    <3> QED
      BY <1>b, <2>0, <3>3, <3>4, <3>5 DEF Staging
  <2>2. CASE EndAttempt(FALSE) /\ UNCHANGED <<sock, sent, lch>>
    BY <1>b, <2>0, <2>2, Ended DEF Staging
  <2> QED
    BY <1>2, <2>1, <2>2 DEF CallPreflight, Connect, P
<1>3. CASE CallExecute
  <2>0. run \in Runs /\ bot.pc = "call" /\ UNCHANGED <<resp, host, run>>
    BY <1>0, <1>3 DEF CallExecute
  <2>1. CASE Exchange(E(run), ExecuteRequest(run, settings)) /\ Continue([bot EXCEPT !.pc = "await_execute"])
    <3>1. sock[E(run)] = "none"
      BY <1>0, <2>0 DEF BotSound, Staging, Early
    <3>2. lch'[E(run)].result = "none" /\ \A d \in Conns \ {E(run)} : sock'[d] = sock[d] /\ lch'[d] = lch[d]
      BY <1>0, <2>0, <2>1, <3>1, Opened
    <3>3. bot'.pc = "await_execute"
      BY <1>0, <2>1 DEF Continue, Bots
    <3>4. \A r \in Runs : sock'[E(r)] = sock[E(r)] \/ Found(r)
      BY <1>0, <2>0, <3>2, RunConns DEF Staging
    <3>5. \A c \in ExecuteConns : lch'[c].result \in {lch[c].result, "none"}
      BY <2>0, <3>2, RunConns
    <3> HIDE DEF Found
    <3> QED
      BY <1>b, <2>0, <3>3, <3>4, <3>5 DEF Staging
  <2>2. CASE Continue([bot EXCEPT !.pc = "clean"]) /\ UNCHANGED <<sock, sent, lch>>
    <3>1. bot'.pc = "clean"
      BY <1>0, <2>2 DEF Continue, Bots
    <3> QED
      BY <1>b, <2>0, <2>2, <3>1 DEF Staging
  <2> QED
    BY <1>3, <2>1, <2>2 DEF CallExecute, Connect, E
<1>4. ASSUME NEW c \in Conns, NEW ok, Awaiting(c), CloseWith(c, ok),
             ok /\ c[2] = "preflight" => ValidPreflightResponse(resp[c]) /\ resp[c] # NoPacket
      PROVE  HostInv'
  <2>0. /\ run \in Runs /\ UNCHANGED <<resp, host, run, lch>> /\ sock' = [sock EXCEPT ![c] = "closed"]
    BY <1>0, <1>4 DEF Awaiting, CloseWith, RunnerUnchanged, launcherVars
  <2>1. CASE c = P(run) /\ bot.pc = "await_preflight"
    <3>1. \A r \in Runs : sock'[E(r)] = sock[E(r)]
      BY <1>0, <2>0, <2>1, RunConns
    <3>2. (Continue([bot EXCEPT !.pc = "stage"]) /\ ok) \/ EndAttempt(FALSE)
      BY <1>4, <2>1 DEF CloseWith, P
    <3>3. bot'.pc = "idle" \/ Found(run)
      BY <1>4, <2>1, <3>2, Ended DEF P
    <3> QED
      BY <1>b, <2>0, <3>1, <3>3 DEF Staging
  <2>2. CASE c = E(run) /\ bot.pc = "await_execute"
    <3>1. sock[E(run)] # "none"
      BY <1>0, <2>0, <2>2 DEF BotSound
    <3>2. \A r \in Runs : sock[E(r)] = "none" => sock'[E(r)] = "none"
      BY <1>0, <2>0, <2>2, <3>1, RunConns
    <3>3. Continue([bot EXCEPT !.pc = "clean", !.got = ok])
      BY <1>4, <2>2 DEF CloseWith, E
    <3>4. bot'.pc = "clean"
      BY <1>0, <3>3 DEF Continue, Bots
    <3> QED
      BY <1>b, <2>0, <3>2, <3>4 DEF Staging
  <2> QED
    BY <1>4, <2>1, <2>2 DEF Awaiting, E, P
<1>5. ASSUME NEW c \in Conns, ReceiveResponse(c) \/ ReceiveEof(c) \/ ReceiveTimeout(c) PROVE HostInv'
  <2>1. \E ok : Awaiting(c) /\ CloseWith(c, ok)
                /\ (ok /\ c[2] = "preflight" => ValidPreflightResponse(resp[c]) /\ resp[c] # NoPacket)
    <3>1. CASE ReceiveResponse(c)
      <4>1. CASE c[2] = "preflight"
        BY <3>1, <4>1 DEF ReceiveResponse
      <4>2. CASE c[2] # "preflight"
        BY <3>1, <4>2 DEF ReceiveResponse
      <4> QED
        BY <4>1, <4>2
    <3>2. CASE ReceiveEof(c) \/ ReceiveTimeout(c)
      BY <3>2 DEF ReceiveEof, ReceiveTimeout
    <3> QED
      BY <1>5, <3>1, <3>2
  <2> QED
    BY <1>4, <2>1
<1>6. CASE BotInner
  BY <1>0, <1>6, <1>b, BotInnerFrame
<1>7. CASE BotCrash \/ HostChanges
  BY <1>7, <1>f DEF BotCrash, HostChanges
\* A launcher answers and ends.
<1>8. ASSUME NEW c \in Conns, LauncherStep(c) PROVE HostInv'
  <2>1. /\ UNCHANGED <<sock, run, bot, host>> /\ lch[c].pc \notin {"none", "exited"}
        /\ \A d \in Conns \ {c} : lch'[d] = lch[d] /\ resp'[d] = resp[d]
    BY <1>0, <1>8, LauncherFrame
  <2>2. sock[c] # "none"
    BY <1>0, <2>1 DEF ConnSound, NoProcess
  <2>3. resp'[c] = resp[c] \/ ~ValidPreflightResponse(resp'[c]) \/ preflight
    BY <1>8, LauncherResult DEF ValidPreflightResponse, Ready
  <2>4. ASSUME NEW r \in Runs, Found(r)' PROVE preflight
    BY <1>0, <1>h, <2>1, <2>3, <2>4 DEF P, E
  <2>5. c \in ExecuteConns => preflight
    <3>1. c \in ExecuteConns => Found(Run(c)) /\ Run(c) \in Runs
      BY <2>2, RunConns
    <3> HIDE DEF Found
    <3> QED
      BY <1>h, <3>1
  <2>6. c \in ExecuteConns => lch'[c].result # "unavailable"
    <3>1. c \in ExecuteConns => ensure_activation_enabled /\ verify_runtime
      BY <2>5 DEF preflight
    <3> QED
      BY <1>8, <1>h, <3>1, LauncherResult
  <2>7. \A d \in ExecuteConns : lch'[d].result # "unavailable"
    BY <1>h, <2>1, <2>6, RunConns
  <2> QED
    BY <1>g, <2>1, <2>4, <2>7
<1>9. ASSUME (\E r \in Runs : RuntimeUnitNext(r)) \/ UNCHANGED vars PROVE HostInv'
  <2>1. UNCHANGED <<run, bot, lch, sock, resp>>
    BY <1>9, OuterFrame
  <2>2. UNCHANGED host
    BY <1>9 DEF RuntimeUnitNext, BootRuntime, RunCodex, SystemdRunExit, SystemdRunLost, BindsTo, UnitUnchanged,
       vars, botVars
  <2> QED
    BY <1>b, <2>1, <2>2
<1> QED
  BY <1>1, <1>2, <1>3, <1>5, <1>6, <1>7, <1>8, <1>9, NextSteps


-----------------------------------------------------------------------------
\* The entries still to be copied, the one held open and those copied stay the listing.
LEMMA SealSoundStep ==
  ASSUME Types, LinkInv, PlaceInv, StageInv, SealInv, NEW r \in Runs, LauncherStep(E(r))
  PROVE  SealSound(r)' /\ Untorn(sealed'[r].ents)
<1> DEFINE c == E(r)
           p == lch[c]
<1>0. /\ c \in Conns /\ Run(c) = r /\ ConnTypes /\ p \in Processes /\ lch \in [Conns -> Processes]
      /\ source \in [Runs -> Sources] /\ sealed \in [Runs -> Copies]
      /\ source[r].ents \subseteq SourceEntries /\ sealed[r].ents \subseteq SealedEntries
      /\ SealSound(r) /\ Untorn(sealed[r].ents) /\ PlaceOf(r) /\ EntriesSound(r) /\ ConnSound(c)
  BY RunConns DEF Types, DiskTypes, ConnTypes, LinkInv, PlaceInv, StageInv, SealInv, Sources, Copies
<1>f. UNCHANGED sock /\ p.pc \notin {"none", "exited"}
  BY <1>0, LauncherFrame
<1>n. NoSealed.at = "none" /\ NoSealed.ents = {} /\ NoProcess.pc = "none"
  BY DEF NoSealed, NoProcess
<1>o. sock[c] # "none" /\ sock'[E(r)] # "none"
  BY <1>0, <1>f, <1>n DEF ConnSound
<1>t. /\ {"cancelled", "error", "unavailable", "timed_out", "failed", "completed"} \subseteq Results
      /\ BudgetError(c) \in Results
      /\ Executing \cup {"confirm", "receive", "preflight", "finish"} \subseteq ProcessPcs
  BY BudgetErrors DEF Results, ProcessPcs
<1>p. /\ \A x \in ProcessPcs : Step(c, x) => lch'[c].pc = x /\ lch'[c].held = p.held
      /\ \A x \in ProcessPcs, y \in Results : Fails(c, x, y) => lch'[c].pc = x
      /\ Exit(c) => lch'[c].pc = "exited"
  BY <1>0, StepUpdates, FailsUpdates, ExitUpdates
<1> HIDE DEF c
\* The launcher is at no copy.
<1>a. ASSUME lch'[c].pc \notin BeforeSeal \cup {"seal"},
             sealed'[r].ents = sealed[r].ents \/ sealed'[r].ents = {}
      PROVE  SealSound(r)' /\ Untorn(sealed'[r].ents)
  <2>1. Untorn(sealed'[r].ents)
    BY <1>0, <1>a DEF Untorn
  <2> QED
    BY <1>a, <1>o, <2>1 DEF SealSound, c
<1>b. ASSUME p.pc \in BeforeSeal, lch'[c].held = p.held, lch'[c].pc # "seal", UNCHANGED sealed
      PROVE  SealSound(r)' /\ Untorn(sealed'[r].ents)
  BY <1>0, <1>b, <1>o DEF SealSound, c
\* Authorisation, request and answer.
<1>1. CASE Authorise(c) \/ ConfirmPeer(c) \/ ReceiveRequest(c) \/ PrepareExecution(c)
  <2>1. p.pc \in BeforeSeal /\ UNCHANGED sealed
    BY <1>1 DEF Authorise, ConfirmPeer, LookAtPeer, ReceiveRequest, PrepareExecution, LauncherUnchanged, At, BeforeSeal
  <2>2. \/ Exit(c) \/ \E x \in {"confirm", "receive", "preflight", "prepare", "quarantine"} : Step(c, x)
        \/ \E y \in {"cancelled", "unavailable", "error"} : Fails(c, "finish", y)
    BY <1>1 DEF Authorise, ConfirmPeer, LookAtPeer, ReceiveRequest, PrepareExecution, current_launcher_unit_fails
  <2>3. \/ lch'[c].pc \in {"exited", "finish"}
        \/ lch'[c].held = p.held /\ lch'[c].pc \in {"confirm", "receive", "preflight", "prepare", "quarantine"}
    BY <1>p, <1>t, <2>2 DEF Executing
  <2> QED
    BY <1>a, <1>b, <2>1, <2>3 DEF BeforeSeal
<1>2. CASE AnswerPreflight(c) \/ FinishExecution(c) \/ LauncherKilled(c)
  <2>1. UNCHANGED sealed /\ lch'[c].pc = "exited"
    BY <1>2, <1>p DEF AnswerPreflight, FinishExecution, LauncherKilled, LauncherUnchanged
  <2> QED
    BY <1>a, <2>1 DEF BeforeSeal
<1>3. CASE NoticeDisconnect(c)
  <2>1. /\ UNCHANGED sealed /\ lch'[c].pc = p.pc /\ lch'[c].held = p.held /\ lch'[c].todo = p.todo
        /\ lch'[c].listed = p.listed
    BY <1>0, <1>3 DEF NoticeDisconnect, LauncherUnchanged, Go, Processes
  <2>2. HeldBy(lch'[c]) = HeldBy(p)
    BY <2>1 DEF HeldBy
  <2> HIDE DEF p
  <2> QED
    BY <1>0, <1>o, <2>1, <2>2 DEF SealSound, c, p
\* The sealing.
<1>4. CASE SealQuarantine(c)
  <2>1. p.pc \in BeforeSeal /\ UNCHANGED sealed /\ (Fails(c, "finish", BudgetError(c)) \/ Step(c, "staging"))
    BY <1>4 DEF SealQuarantine, At, BeforeSeal
  <2>2. lch'[c].pc = "finish" \/ (lch'[c].pc = "staging" /\ lch'[c].held = p.held)
    BY <1>p, <1>t, <2>1 DEF Executing
  <2> QED
    BY <1>a, <1>b, <2>1, <2>2 DEF BeforeSeal
<1>r. ASSUME \E y \in Results : Fails(c, "rollback", y), UNCHANGED sealed PROVE SealSound(r)' /\ Untorn(sealed'[r].ents)
  <2>1. lch'[c].pc = "rollback"
    BY <1>p, <1>r, <1>t DEF Executing
  <2> QED
    BY <1>a, <1>r, <2>1 DEF BeforeSeal
<1>5. CASE SealStage(c)
  <2>1. CASE Fails(c, "rollback", BudgetError(c)) /\ UNCHANGED sealed
    BY <1>r, <1>t, <2>1
  <2>2. CASE /\ sealed' = [sealed EXCEPT ![r] = [at |-> "staging", ents |-> {}]] /\ source[r].mode = "source"
             /\ Go(c, [p EXCEPT !.pc = "seal", !.listed = source[r].ents, !.todo = source[r].ents])
    <3>1. lch'[c].pc = "seal" /\ lch'[c].listed = source[r].ents /\ lch'[c].todo = source[r].ents
          /\ lch'[c].held = p.held
      BY <1>0, <2>2 DEF Go, Processes
    <3>2. p.held = None
      BY <1>0, <1>5 DEF SealStage, At, SealSound, BeforeSeal, c
    <3>3. sealed'[r].ents = {}
      BY <1>0, <2>2
    <3>4. Untorn(source[r].ents)
      BY <1>0, <2>2 DEF EntriesSound
    <3>5. HeldBy(lch'[c]) = {}
      BY <3>1, <3>2 DEF HeldBy
    <3>6. sealed'[r].ents \cup lch'[c].todo \cup HeldBy(lch'[c]) = lch'[c].listed
          /\ lch'[c].todo \cup HeldBy(lch'[c]) = source[r].ents
      BY <3>1, <3>3, <3>5
    <3>7. Untorn(sealed'[r].ents)
      BY <3>3 DEF Untorn
    <3> QED
      BY <1>o, <3>1, <3>4, <3>6, <3>7 DEF SealSound, BeforeSeal, c
  <2> QED
    BY <1>0, <1>5, <2>1, <2>2 DEF SealStage
<1>s. p.pc = "seal" => /\ Names(sealed[r].ents \cup p.todo \cup HeldBy(p)) = Names(p.listed)
                       /\ Untorn(p.todo \cup HeldBy(p))
  BY <1>0 DEF SealSound, c
<1>6. CASE SealOpen(c)
  <2>0. p.pc = "seal" /\ p.held = None /\ UNCHANGED sealed
    BY <1>6 DEF SealOpen, At
  <2>1. ASSUME NEW e \in p.todo, Go(c, [p EXCEPT !.held = e, !.todo = @ \ {e}])
        PROVE  SealSound(r)' /\ Untorn(sealed'[r].ents)
    <3>1. lch'[c].pc = "seal" /\ lch'[c].listed = p.listed /\ lch'[c].todo = p.todo \ {e} /\ lch'[c].held = e
      BY <1>0, <2>0, <2>1 DEF Go, Processes
    <3>2. e # None
      BY <1>0, <2>1, NoneIsNoEntry DEF Processes, SourceEntries
    <3>3. lch'[c].todo \cup HeldBy(lch'[c]) = p.todo \cup HeldBy(p)
      BY <2>0, <2>1, <3>1, <3>2 DEF HeldBy
    <3>4. sealed'[r].ents \cup lch'[c].todo \cup HeldBy(lch'[c]) = sealed[r].ents \cup p.todo \cup HeldBy(p)
      BY <2>0, <3>3
    <3> HIDE DEF p
    <3> QED
      BY <1>0, <1>o, <1>s, <2>0, <3>1, <3>3, <3>4 DEF SealSound, BeforeSeal, c
  <2> QED
    BY <1>6, <1>r, <1>t, <2>0, <2>1 DEF SealOpen
<1>7. CASE SealCopy(c)
  <2>0. p.pc = "seal" /\ p.held # None
    BY <1>7 DEF SealCopy, At
  <2>1. CASE Fails(c, "rollback", BudgetError(c)) /\ UNCHANGED sealed
    BY <1>r, <1>t, <2>1
  <2>2. CASE sealed' = [sealed EXCEPT ![r].ents = @ \cup {SealedEntry(p.held)}] /\ Go(c, [p EXCEPT !.held = None])
    <3> DEFINE e == p.held
               copy == SealedEntry(e)
    <3>1. lch'[c].pc = "seal" /\ lch'[c].listed = p.listed /\ lch'[c].todo = p.todo /\ lch'[c].held = None
      BY <1>0, <2>0, <2>2 DEF Go, Processes
    <3>2. e \in SourceEntries
      BY <1>0, <2>0 DEF Processes
    <3>3. copy.name = e.name /\ copy.body = e.body
      BY <3>2, SealedEntryType
    <3>4. HeldBy(p) = {e} /\ HeldBy(lch'[c]) = {}
      BY <2>0, <3>1 DEF HeldBy
    <3>5. sealed'[r].ents = sealed[r].ents \cup {copy}
      BY <1>0, <2>2 DEF Copies
    <3> HIDE DEF copy, e, p
    <3>6. Names(sealed[r].ents \cup {copy} \cup p.todo) = Names(sealed[r].ents \cup p.todo \cup {e})
      BY <3>3 DEF Names
    <3>7. sealed'[r].ents \cup lch'[c].todo \cup HeldBy(lch'[c]) = sealed[r].ents \cup {copy} \cup p.todo
          /\ lch'[c].todo \cup HeldBy(lch'[c]) = p.todo
      BY <3>1, <3>4, <3>5
    <3>8. Untorn(p.todo) /\ Untorn(sealed'[r].ents)
      BY <1>0, <1>s, <2>0, <3>3, <3>4, <3>5 DEF Untorn
    <3> QED
      BY <1>o, <1>s, <2>0, <3>1, <3>4, <3>6, <3>7, <3>8 DEF SealSound, BeforeSeal, c
  <2> QED
    BY <1>0, <1>7, <2>1, <2>2 DEF SealCopy
<1>8. CASE SealPublish(c)
  <2>1. CASE Fails(c, "rollback", BudgetError(c)) /\ UNCHANGED sealed
    BY <1>r, <1>t, <2>1
  <2>2. CASE sealed' = [sealed EXCEPT ![r].at = "ready"] /\ Step(c, "sealed")
    <3>1. sealed'[r].ents = sealed[r].ents /\ lch'[c].pc = "sealed"
      BY <1>0, <1>p, <1>t, <2>2 DEF Copies, Executing
    <3> QED
      BY <1>a, <3>1 DEF BeforeSeal
  <2> QED
    BY <1>0, <1>8, <2>1, <2>2 DEF SealPublish
<1>9. CASE SealFail(c)
  BY <1>9, <1>r, <1>t DEF SealFail
<1>10. CASE SealCleanSource(c) \/ SealRollback(c)
  <2>1. /\ UNCHANGED sealed \/ sealed' = [sealed EXCEPT ![r] = NoSealed]
        /\ Step(c, "consume") \/ Step(c, "finish") \/ Fails(c, "finish", "error")
    BY <1>0, <1>10 DEF SealCleanSource, SealRollback, RemoveSource
  <2>2. sealed'[r].ents = sealed[r].ents \/ sealed'[r].ents = {}
    BY <1>0, <1>n, <2>1
  <2>3. lch'[c].pc \in {"consume", "finish"}
    BY <1>p, <1>t, <2>1 DEF Executing
  <2> QED
    BY <1>a, <2>2, <2>3 DEF BeforeSeal
\* The execution.
<1>11. CASE ConsumeWorkspace(c) \/ VerifyFail(c) \/ CleanWorkspace(c)
  <2>1. /\ \/ UNCHANGED sealed \/ sealed' = [sealed EXCEPT ![r] = NoSealed]
           \/ sealed' = [sealed EXCEPT ![r].at = "consumed"]
        /\ \/ Step(c, "grant") \/ Step(c, "finish") \/ Fails(c, "finish", "error") \/ Fails(c, "finish", BudgetError(c))
    BY <1>0, <1>11 DEF ConsumeWorkspace, VerifyFail, CleanWorkspace, DropSealed
  <2>2. sealed'[r].ents = sealed[r].ents \/ sealed'[r].ents = {}
    BY <1>0, <1>n, <2>1 DEF Copies
  <2>3. lch'[c].pc \in {"grant", "finish"}
    BY <1>p, <1>t, <2>1 DEF Executing
  <2> QED
    BY <1>a, <2>2, <2>3 DEF BeforeSeal
<1>12. CASE GrantAccess(c)
  <2>1. CASE DropSealed(r) /\ Fails(c, "finish", BudgetError(c))
    <3>1. sealed'[r].ents = sealed[r].ents \/ sealed'[r].ents = {}
      BY <1>0, <1>n, <2>1 DEF DropSealed
    <3>2. lch'[c].pc = "finish"
      BY <1>p, <1>t, <2>1
    <3> QED
      BY <1>a, <3>1, <3>2 DEF BeforeSeal
  <2>2. CASE sealed' = [sealed EXCEPT ![r].ents = GrantGroupRead(sealed[r].ents)] /\ Step(c, "start")
    <3>1. sealed'[r].ents = GrantGroupRead(sealed[r].ents)
      BY <1>0, <2>2 DEF Copies
    <3>2. Untorn(sealed'[r].ents)
      BY <1>0, <3>1, GrantedTree
    <3>3. lch'[c].pc = "start"
      BY <1>p, <1>t, <2>2 DEF Executing
    <3> QED
      BY <1>o, <3>2, <3>3 DEF SealSound, BeforeSeal, c
  <2> QED
    BY <1>0, <1>12, <2>1, <2>2 DEF GrantAccess
<1>13. CASE StartUnit(c) \/ WritePrompt(c) \/ Poll(c) \/ UnitDone(c) \/ StopUnit(c)
  <2>1. /\ UNCHANGED sealed
        /\ \/ Step(c, "prompt") \/ Step(c, "wait") \/ Step(c, "cleanup")
           \/ \E x \in {"stop", "cleanup"}, y \in Results : Fails(c, x, y)
    BY <1>13, <1>t DEF StartUnit, WritePrompt, Poll, UnitDone, StopUnit
  <2>2. lch'[c].pc \in {"prompt", "wait", "cleanup", "stop"}
    BY <1>p, <1>t, <2>1 DEF Executing
  <2> QED
    BY <1>a, <2>1, <2>2 DEF BeforeSeal
<1> QED
  BY <1>1, <1>2, <1>3, <1>4, <1>5, <1>6, <1>7, <1>8, <1>9, <1>10, <1>11, <1>12, <1>13
  DEF c, LauncherStep, CodexLauncherNext, InputSealerNext, IsolatedExecutionNext


\* While the client waits, the launcher's copy becomes ready only whole, and stays so.
LEMMA WholeStep ==
  ASSUME Types, LinkInv, PlaceInv, StageInv, SealInv, NEW r \in Runs, LauncherStep(E(r))
  PROVE  WholeWhileOpen(r)' /\ Untorn(seen'[r])
<1> DEFINE c == E(r)
           p == lch[c]
<1>0. /\ c \in Conns /\ Run(c) = r /\ ConnTypes /\ p \in Processes
      /\ source \in [Runs -> Sources] /\ sealed \in [Runs -> Copies] /\ seen \in [Runs -> SUBSET SealedEntries]
      /\ sealed[r].ents \in SUBSET SealedEntries
      /\ SealSound(r) /\ WholeWhileOpen(r) /\ Untorn(sealed[r].ents) /\ Untorn(seen[r]) /\ PlaceOf(r) /\ BotSound(r)
  BY RunConns DEF Types, DiskTypes, ConnTypes, LinkInv, PlaceInv, SealInv, Copies
<1>f. UNCHANGED <<sock, bot, run>>
  BY <1>0, LauncherFrame
<1>n. NoSealed.at = "none"
  BY DEF NoSealed
<1>w. sock[c] = "open" => bot.pc = "await_execute" /\ run = r
  BY <1>0 DEF BotSound
<1>s. sealed[r].at \in {"ready", "consumed"} /\ sock[c] = "open" => Names(sealed[r].ents) = Names(bot.listed)
  BY <1>0 DEF WholeWhileOpen
<1> HIDE DEF c
<1>1. ASSUME sock[c] = "open", sealed'[r].at \in {"ready", "consumed"} PROVE Names(sealed'[r].ents) = Names(bot.listed)
  <2>1. CASE UNCHANGED sealed
    BY <1>1, <1>s, <2>1
  <2>2. CASE SealStage(c) \/ SealCopy(c)
    <3>1. \/ UNCHANGED sealed
          \/ sealed' = [sealed EXCEPT ![r] = [at |-> "staging", ents |-> {}]]
          \/ p.pc = "seal" /\ sealed' = [sealed EXCEPT ![r].ents = @ \cup {SealedEntry(p.held)}]
      BY <1>0, <2>2 DEF SealStage, SealCopy, At
    <3>2. p.pc = "seal" => sealed[r].at = "staging"
      BY <1>0 DEF PlaceOf, c
    <3>3. UNCHANGED sealed \/ sealed'[r].at = "staging"
      BY <1>0, <3>1, <3>2 DEF Copies
    <3> QED
      BY <1>1, <2>1, <3>3
  <2>3. CASE SealPublish(c)
    <3>0. p.pc = "seal" /\ p.held = None /\ p.todo = {}
      BY <2>3 DEF SealPublish, At
    <3>1. UNCHANGED sealed \/ (source[r].ents = p.listed /\ sealed' = [sealed EXCEPT ![r].at = "ready"])
      BY <1>0, <2>3 DEF SealPublish
    <3>2. UNCHANGED sealed \/ (source[r].ents = p.listed /\ sealed'[r].ents = sealed[r].ents)
      BY <1>0, <3>1 DEF Copies
    <3>3. Names(sealed[r].ents \cup p.todo \cup HeldBy(p)) = Names(p.listed)
      BY <1>0, <3>0 DEF SealSound, c
    <3>4. sealed[r].ents \cup p.todo \cup HeldBy(p) = sealed[r].ents
      BY <3>0 DEF HeldBy
    <3>5. source[r].at = "quarantine"
      BY <1>0, <3>0 DEF PlaceOf, Quarantined, c
    <3>6. Names(source[r].ents) = Names(bot.listed)
      BY <1>1, <1>w, <3>5 DEF StageInv, PublishedSound
    <3> QED
      BY <2>1, <3>2, <3>3, <3>4, <3>6
  <2>4. CASE SealCleanSource(c) \/ SealRollback(c) \/ VerifyFail(c) \/ CleanWorkspace(c)
    <3>1. UNCHANGED sealed \/ sealed' = [sealed EXCEPT ![r] = NoSealed]
      BY <1>0, <2>4 DEF SealCleanSource, SealRollback, RemoveSource, VerifyFail, CleanWorkspace, DropSealed
    <3>2. UNCHANGED sealed \/ sealed'[r].at = "none"
      BY <1>0, <1>n, <3>1
    <3> QED
      BY <1>1, <2>1, <3>2
  <2>5. CASE ConsumeWorkspace(c)
    <3>1. \/ UNCHANGED sealed \/ sealed' = [sealed EXCEPT ![r] = NoSealed]
          \/ sealed' = [sealed EXCEPT ![r].at = "consumed"]
      BY <1>0, <2>5 DEF ConsumeWorkspace, DropSealed
    <3>2. UNCHANGED sealed \/ sealed'[r].at = "none" \/ sealed'[r].ents = sealed[r].ents
      BY <1>0, <1>n, <3>1 DEF Copies
    <3>3. sealed[r].at = "ready"
      BY <1>0, <2>5 DEF ConsumeWorkspace, At, PlaceOf, c
    <3> QED
      BY <1>1, <1>s, <2>1, <3>2, <3>3
  <2>6. CASE GrantAccess(c)
    <3>1. \/ UNCHANGED sealed \/ sealed' = [sealed EXCEPT ![r] = NoSealed]
          \/ sealed' = [sealed EXCEPT ![r].ents = GrantGroupRead(sealed[r].ents)]
      BY <1>0, <2>6 DEF GrantAccess, DropSealed
    <3>2. UNCHANGED sealed \/ sealed'[r].at = "none" \/ sealed'[r].ents = GrantGroupRead(sealed[r].ents)
      BY <1>0, <1>n, <3>1 DEF Copies
    <3>3. sealed[r].at = "consumed"
      BY <1>0, <2>6 DEF GrantAccess, At, PlaceOf, Consumed, c
    <3>4. Names(GrantGroupRead(sealed[r].ents)) = Names(sealed[r].ents)
      BY <1>0, GrantedTree
    <3> QED
      BY <1>1, <1>s, <2>1, <3>2, <3>3, <3>4
  <2>7. \/ UNCHANGED sealed \/ SealStage(c) \/ SealCopy(c) \/ SealPublish(c) \/ SealCleanSource(c) \/ SealRollback(c)
        \/ VerifyFail(c) \/ CleanWorkspace(c) \/ ConsumeWorkspace(c) \/ GrantAccess(c)
    BY DEF c, LauncherStep, CodexLauncherNext, Authorise, ConfirmPeer, LookAtPeer, ReceiveRequest, AnswerPreflight,
       NoticeDisconnect, FinishExecution, LauncherKilled, LauncherUnchanged, InputSealerNext, SealQuarantine, SealOpen,
       SealFail, IsolatedExecutionNext, PrepareExecution, current_launcher_unit_fails,
       StartUnit, WritePrompt, Poll, UnitDone, StopUnit
  <2> QED
    BY <2>1, <2>2, <2>3, <2>4, <2>5, <2>6, <2>7
<1> DEFINE Done == p.pc \in {"prompt", "wait"} \/ p.result = "completed" \/ resp[c].kind = "completed"
<1>2. sock[c] = "open" /\ Done => Names(seen[r]) = Names(bot.listed)
  BY <1>0 DEF WholeWhileOpen, c
<1>3. \/ UNCHANGED seen /\ (Done' => Done)
      \/ p.pc = "start" /\ seen'[r] = sealed[r].ents
  <2>1. LauncherStep(c)
    BY DEF c
  <2>2. \/ UNCHANGED seen /\ (lch'[c].pc \in {"prompt", "wait"} => p.pc \in {"prompt", "wait"})
        \/ p.pc = "start" /\ seen' = [seen EXCEPT ![r] = sealed[r].ents]
    BY <1>0, <2>1, LauncherResult
  <2>3. lch'[c].result = "completed" => p.result = "completed" \/ p.pc = "wait"
    BY <1>0, <2>1, LauncherResult
  <2>4. resp'[c].kind = "completed" => resp[c].kind = "completed" \/ p.result = "completed"
    BY <1>0, <2>1, LauncherResult DEF Ready
  <2>5. c' = c
    BY DEF c, E
  <2> QED
    BY <1>0, <2>2, <2>3, <2>4, <2>5
<1>4. p.pc = "start" => sealed[r].at = "consumed"
  BY <1>0 DEF PlaceOf, Consumed, c
<1>5. sock[c] = "open" /\ Done' => Names(seen'[r]) = Names(bot.listed)
  BY <1>2, <1>3, <1>4, <1>s
<1>6. Untorn(seen'[r])
  BY <1>0, <1>3
<1>7. c' = c
  BY DEF c, E
<1> QED
  BY <1>1, <1>5, <1>6, <1>7, <1>f DEF WholeWhileOpen, c

\* What the launcher's copies hold, and what Codex is started on.
LEMMA SealStep == IInv /\ LinkInv' /\ [Next]_vars => SealInv'
<1> SUFFICES ASSUME Types, LinkInv, PlaceInv, StageInv, SealInv, LinkInv', [Next]_vars PROVE SealInv'
  BY DEF IInv
<1>0. /\ BotTypes /\ ConnTypes /\ bot \in Bots /\ run \in {NoRun} \cup Runs /\ (bot.pc # "idle" => run \in Runs)
      /\ lch \in [Conns -> Processes] /\ sock \in [Conns -> {"none", "open", "closed"}] /\ DOMAIN resp = Conns
      /\ \A c \in Conns : ConnSound(c)
      /\ \A r \in Runs : /\ E(r) \in Conns /\ P(r) \in Conns /\ BotSound(r) /\ BotSound(r)'
                         /\ SealSound(r) /\ WholeWhileOpen(r) /\ Untorn(sealed[r].ents) /\ Untorn(seen[r])
      /\ bot.got => Names(seen[run]) = Names(bot.listed) /\ bot.pc \in {"clean", "removing"}
  BY RunConns DEF Types, BotTypes, ConnTypes, LinkInv, SealInv
<1>n. NoProcess.pc = "none" /\ NoProcess.result = "none" /\ NoProcess.held = None /\ NoPacket.kind = "none"
  BY DEF NoProcess, NoPacket
\* The bot moves on without an answer, or keeps the one it has.
<1>b. ASSUME UNCHANGED <<sealed, seen, resp>>,
             \A r \in Runs : sock[E(r)] # "none" => sock'[E(r)] # "none",
             \A r \in Runs : \/ lch'[E(r)] = lch[E(r)]
                             \/ sock[E(r)] = "none" /\ lch'[E(r)].pc = "auth" /\ lch'[E(r)].held = None
                                /\ lch'[E(r)].result = "none",
             bot'.pc = "await_execute" => bot'.listed = bot.listed /\ run' = run
                                          /\ (bot.pc = "await_execute" \/ bot.pc = "call"),
             bot'.got => Names(seen[run']) = Names(bot'.listed)
      PROVE  SealInv'
  <2>1. ASSUME NEW r \in Runs PROVE SealSound(r)' /\ WholeWhileOpen(r)'
    <3>1. \/ lch'[E(r)] = lch[E(r)]
          \/ sock[E(r)] = "none" /\ lch'[E(r)].pc = "auth" /\ lch'[E(r)].held = None
             /\ lch'[E(r)].result = "none"
      BY <1>b
    <3>2. SealSound(r)'
      <4>1. SealSound(r) /\ UNCHANGED sealed /\ (sock'[E(r)] = "none" => sock[E(r)] = "none")
        BY <1>0, <1>b
      <4> QED
        BY <3>1, <4>1 DEF SealSound, BeforeSeal, E
    <3>3. ASSUME sock'[E(r)] = "open" PROVE WholeWhileOpen(r)'
      <4>1. bot'.pc = "await_execute" /\ run' = r
        BY <1>0, <3>3 DEF BotSound, E
      <4>2. bot'.listed = bot.listed /\ run = r
        BY <1>b, <4>1
      <4>3. CASE sock[E(r)] = "open"
        <5>1. lch'[E(r)] = lch[E(r)]
          BY <3>1, <4>3
        <5>2. WholeWhileOpen(r) /\ UNCHANGED <<sealed, seen, resp>>
          BY <1>0, <1>b
        <5> QED
          BY <4>2, <4>3, <5>1, <5>2 DEF WholeWhileOpen, E
      <4>4. CASE sock[E(r)] # "open"
        <5>1. bot.pc = "call" /\ sock[E(r)] = "none"
          BY <1>0, <1>b, <4>1, <4>2, <4>4 DEF BotSound, Early, Staging
        <5>2. sealed[r].at = "none" /\ resp[E(r)].kind = "none" /\ lch[E(r)].pc = "none" /\ lch[E(r)].result = "none"
          BY <1>0, <1>n, <5>1 DEF SealSound, ConnSound
        <5>3. sealed'[r].at = "none" /\ resp'[E(r)].kind = "none" /\ lch'[E(r)].pc \in {"none", "auth"}
              /\ lch'[E(r)].result = "none"
          BY <1>b, <3>1, <5>2
        <5> QED
          BY <5>3 DEF WholeWhileOpen, E
      <4> QED
        BY <4>3, <4>4
    <3>4. ASSUME sock'[E(r)] # "open" PROVE WholeWhileOpen(r)'
      BY <3>4 DEF WholeWhileOpen, E
    <3> QED
      BY <3>2, <3>3, <3>4
  <2>2. \A r \in Runs : Untorn(sealed'[r].ents) /\ Untorn(seen'[r])
    BY <1>0, <1>b
  <2> QED
    BY <1>b, <2>1, <2>2 DEF SealInv
<1>1. CASE StartAttempt
  <2>1. UNCHANGED <<sealed, seen, resp, sock, lch>> /\ bot'.pc \in {"preflight", "spawn"} /\ bot'.got = FALSE
    BY <1>1 DEF StartAttempt, RunnerUnchanged, launcherVars, socketVars, IdleBot
  <2> QED
    BY <1>b, <2>1
<1>2. CASE CallPreflight
  <2>0. run \in Runs /\ bot.pc = "preflight" /\ ~bot.got /\ UNCHANGED <<sealed, seen, resp>>
    BY <1>0, <1>2 DEF CallPreflight
  <2>1. CASE Exchange(P(run), PreflightRequest) /\ Continue([bot EXCEPT !.pc = "await_preflight"])
    <3>1. sock[P(run)] = "none"
      BY <1>0, <2>0 DEF BotSound
    <3>2. \A d \in Conns \ {P(run)} : sock'[d] = sock[d] /\ lch'[d] = lch[d]
      BY <1>0, <2>0, <2>1, <3>1, Opened
    <3>3. bot'.pc = "await_preflight" /\ bot'.got = bot.got
      BY <1>0, <2>1 DEF Continue, Bots
    <3>4. \A r \in Runs : sock'[E(r)] = sock[E(r)] /\ lch'[E(r)] = lch[E(r)]
      BY <1>0, <2>0, <3>2, RunConns
    <3> QED
      BY <1>b, <2>0, <3>3, <3>4
  <2>2. CASE EndAttempt(FALSE) /\ UNCHANGED <<sock, sent, lch>>
    BY <1>b, <2>0, <2>2, Ended
  <2> QED
    BY <1>2, <2>1, <2>2 DEF CallPreflight, Connect, P
<1>3. CASE CallExecute
  <2>0. run \in Runs /\ bot.pc = "call" /\ ~bot.got /\ UNCHANGED <<sealed, seen, resp, run>>
    BY <1>0, <1>3 DEF CallExecute
  <2>1. CASE Exchange(E(run), ExecuteRequest(run, settings)) /\ Continue([bot EXCEPT !.pc = "await_execute"])
    <3>1. sock[E(run)] = "none"
      BY <1>0, <2>0 DEF BotSound, Staging, Early
    <3>2. /\ lch'[E(run)].result = "none" /\ lch'[E(run)].pc = "auth" /\ lch'[E(run)].held = None
          /\ sock'[E(run)] = "open"
          /\ \A d \in Conns \ {E(run)} : sock'[d] = sock[d] /\ lch'[d] = lch[d]
      BY <1>0, <2>0, <2>1, <3>1, Opened
    <3>3. bot'.pc = "await_execute" /\ bot'.got = bot.got /\ bot'.listed = bot.listed
      BY <1>0, <2>1 DEF Continue, Bots
    <3>4. \A r \in Runs : sock[E(r)] # "none" => sock'[E(r)] # "none"
      BY <1>0, <2>0, <3>2, RunConns
    <3>5. \A r \in Runs : \/ lch'[E(r)] = lch[E(r)]
                          \/ sock[E(r)] = "none" /\ lch'[E(r)].pc = "auth" /\ lch'[E(r)].held = None
                             /\ lch'[E(r)].result = "none"
      BY <1>0, <2>0, <3>1, <3>2, RunConns
    <3> QED
      BY <1>b, <2>0, <3>3, <3>4, <3>5
  <2>2. CASE Continue([bot EXCEPT !.pc = "clean"]) /\ UNCHANGED <<sock, sent, lch>>
    <3>1. bot'.pc = "clean" /\ bot'.got = bot.got
      BY <1>0, <2>2 DEF Continue, Bots
    <3> QED
      BY <1>b, <2>0, <2>2, <3>1
  <2> QED
    BY <1>3, <2>1, <2>2 DEF CallExecute, Connect, E
\* An answer is taken from the launcher while the client waits.
<1>4. ASSUME NEW c \in Conns, NEW ok, Awaiting(c), CloseWith(c, ok),
             ok /\ c[2] # "preflight" => resp[c].kind = "completed"
      PROVE  SealInv'
  <2>0. /\ run \in Runs /\ ~bot.got /\ UNCHANGED <<resp, run, lch, sealed, seen>>
        /\ sock' = [sock EXCEPT ![c] = "closed"]
    BY <1>0, <1>4 DEF Awaiting, CloseWith, RunnerUnchanged, launcherVars
  <2>1. \A r \in Runs : sock[E(r)] # "none" => sock'[E(r)] # "none"
    BY <1>0, <2>0
  <2>2. CASE c = P(run) /\ bot.pc = "await_preflight"
    <3>1. Continue([bot EXCEPT !.pc = "stage"]) \/ EndAttempt(FALSE)
      BY <1>4, <2>2 DEF CloseWith, P
    <3>2. bot'.pc \in {"stage", "idle"} /\ ~bot'.got
      BY <1>0, <2>0, <3>1, Ended DEF Continue, Bots
    <3> QED
      BY <1>b, <2>0, <2>1, <3>2
  <2>3. CASE c = E(run) /\ bot.pc = "await_execute"
    <3>1. Continue([bot EXCEPT !.pc = "clean", !.got = ok])
      BY <1>4, <2>3 DEF CloseWith, E
    <3>2. bot'.pc = "clean" /\ bot'.got = ok /\ bot'.listed = bot.listed
      BY <1>0, <3>1 DEF Continue, Bots
    <3>3. sock[E(run)] = "open" /\ (ok => resp[E(run)].kind = "completed")
      BY <1>0, <1>4, <2>0, <2>3 DEF BotSound, E
    <3>4. ok => Names(seen[run]) = Names(bot.listed)
      BY <1>0, <2>0, <3>3 DEF WholeWhileOpen
    <3> QED
      BY <1>b, <2>0, <2>1, <3>2, <3>4
  <2> QED
    BY <1>4, <2>2, <2>3 DEF Awaiting, E, P
<1>5. ASSUME NEW c \in Conns, ReceiveResponse(c) \/ ReceiveEof(c) \/ ReceiveTimeout(c) PROVE SealInv'
  <2>1. \E ok : Awaiting(c) /\ CloseWith(c, ok) /\ (ok /\ c[2] # "preflight" => resp[c].kind = "completed")
    <3>1. CASE ReceiveResponse(c)
      <4>1. CASE c[2] = "preflight"
        BY <3>1, <4>1 DEF ReceiveResponse
      <4>2. CASE c[2] # "preflight"
        BY <3>1, <4>2 DEF ReceiveResponse, ValidExecuteResponse
      <4> QED
        BY <4>1, <4>2
    <3>2. CASE ReceiveEof(c) \/ ReceiveTimeout(c)
      BY <3>2 DEF ReceiveEof, ReceiveTimeout
    <3> QED
      BY <1>5, <3>1, <3>2
  <2> QED
    BY <1>4, <2>1
<1>6. CASE BotInner
  <2>1. /\ UNCHANGED <<sock, lch, resp, run, sealed, seen>>
        /\ bot'.pc # "await_execute" \/ UNCHANGED bot
        /\ bot'.got => bot.got
    BY <1>0, <1>6, BotInnerFrame
  <2>2. ASSUME bot.got, bot'.got PROVE bot'.listed = bot.listed
    <3>1. bot.pc \in {"clean", "removing"}
      BY <1>0, <2>2
    <3>2. UNCHANGED bot \/ Continue([bot EXCEPT !.pc = "removing"]) \/ \E ok : EndAttempt(ok)
      BY <1>6, <3>1 DEF BotInner, RunnerInputNext, SpawnChild, ChildExit, TerminateChild, CollectChild, GroupExit,
         StageBegin, StageOpen, StageCopy, StageVerify, StagePublish, StageFail, StageAbort, CleanPending,
         RemovePendingEntry, RemovePendingDirectory, CleanPendingFail, EvidenceWrite
    <3> QED
      BY <1>0, <2>2, <3>2, Ended DEF Continue, Bots
  <2>3. bot'.got => Names(seen[run']) = Names(bot'.listed)
    BY <1>0, <2>1, <2>2
  <2> QED
    BY <1>b, <2>1, <2>3
<1>7. CASE BotCrash
  <2>1. UNCHANGED <<sealed, seen, resp, lch>> /\ bot'.pc = "idle" /\ bot'.got = FALSE
    BY <1>7, Ended DEF BotCrash, launcherVars
  <2>2. \A r \in Runs : sock[E(r)] # "none" => sock'[E(r)] # "none"
    BY <1>0, <1>7 DEF BotCrash
  <2> QED
    BY <1>b, <2>1, <2>2
<1>8. ASSUME NEW c \in Conns, LauncherStep(c) PROVE SealInv'
  <2>1. /\ UNCHANGED <<sock, run, bot>> /\ lch[c].pc \notin {"none", "exited"}
        /\ \A d \in Conns \ {c} : lch'[d] = lch[d] /\ resp'[d] = resp[d]
    BY <1>0, <1>8, LauncherFrame
  <2>2. Run(c) \in Runs /\ (c = E(Run(c)) \/ c = P(Run(c)))
    BY RunConns
  <2>3. c = P(Run(c)) => UNCHANGED <<sealed, seen>>
    BY <1>8, <2>2, RunConns DEF LauncherStep, CodexLauncherNext, Authorise, ConfirmPeer, LookAtPeer, ReceiveRequest,
       AnswerPreflight, NoticeDisconnect, FinishExecution, LauncherKilled, LauncherUnchanged
  <2>4. ASSUME NEW r \in Runs, c # E(r)
        PROVE  SealSound(r)' /\ WholeWhileOpen(r)' /\ Untorn(sealed'[r].ents) /\ Untorn(seen'[r]) /\ seen'[r] = seen[r]
    <3>1. sealed'[r] = sealed[r] /\ seen'[r] = seen[r]
      BY <1>8, <2>2, <2>3, <2>4, LauncherDisk
    <3>2. lch'[E(r)] = lch[E(r)] /\ resp'[E(r)] = resp[E(r)]
      BY <1>0, <2>1, <2>4
    <3>3. SealSound(r) /\ WholeWhileOpen(r) /\ Untorn(sealed[r].ents) /\ Untorn(seen[r])
      BY <1>0
    <3> QED
      BY <2>1, <3>1, <3>2, <3>3 DEF SealSound, WholeWhileOpen, E
  <2>5. ASSUME NEW r \in Runs, c = E(r)
        PROVE  SealSound(r)' /\ WholeWhileOpen(r)' /\ Untorn(sealed'[r].ents) /\ Untorn(seen'[r])
    BY <1>8, <2>5, SealSoundStep, WholeStep
  \* An answered run's launcher is gone.
  <2>6. bot.got => run \in Runs /\ c # E(run)
    BY <1>0, <2>1 DEF LinkInv
  <2>7. bot'.got => Names(seen'[run']) = Names(bot'.listed)
    BY <1>0, <2>1, <2>4, <2>6
  <2> QED
    BY <2>4, <2>5, <2>7 DEF SealInv
<1>9. CASE (\E r \in Runs : RuntimeUnitNext(r)) \/ HostChanges \/ UNCHANGED vars
  <2>1. UNCHANGED <<run, bot, sealed, lch, sock, resp, seen>>
    BY <1>9, OuterFrame
  <2> QED
    BY <1>0, <2>1 DEF SealInv, SealSound, WholeWhileOpen, E
<1> QED
  BY <1>1, <1>2, <1>3, <1>5, <1>6, <1>7, <1>8, <1>9, NextSteps

-----------------------------------------------------------------------------
\* The first state.
LEMMA InitIInv == Init => IInv
<1> SUFFICES ASSUME Init PROVE IInv
  OBVIOUS
<1>1. /\ bot.pc = "idle" /\ bot.got = FALSE /\ bot.held = None /\ bot \in Bots /\ run = NoRun
  BY DEF Init, IdleBot, Bots, BotPcs
<1>2. \A r \in Runs : source[r] = NoSource /\ sealed[r] = NoSealed /\ seen[r] = {} /\ unit[r] = "none"
  BY DEF Init, NoTree
<1>3. \A c \in Conns : lch[c] = NoProcess /\ sock[c] = "none" /\ resp[c] = NoPacket
  BY DEF Init
<1>4. /\ NoSource \in Sources /\ NoSource.at = "none" /\ NoSource.mode = "private" /\ NoSource.ents = {}
      /\ NoSealed \in Copies /\ NoSealed.at = "none" /\ NoSealed.ents = {}
  BY DEF NoSource, NoSealed, Sources, Copies
<1>5. /\ NoProcess \in Processes /\ NoProcess.pc = "none" /\ NoProcess.result = "none" /\ NoProcess.held = None
      /\ NoPacket.kind = "none"
  BY DEF NoProcess, NoPacket, Processes, ProcessPcs, Results
<1>r. \A r \in Runs : E(r) \in Conns /\ P(r) \in Conns /\ r # NoRun
  BY RunConns, RunNumbers
<1>6. Types
  <2>1. evidence \subseteq EvidenceEntries /\ OnDisk(evidence) /\ host \subseteq HostParts
    BY RunAssumption DEF Init, IsTree, EvidenceEntries
  <2>2. BotTypes
    BY <1>1, <2>1 DEF Init, BotTypes
  <2>3. DiskTypes
    BY <1>4 DEF Init, DiskTypes, NoTree
  <2>4. ConnTypes
    BY <1>5 DEF Init, ConnTypes
  <2>5. UnitTypes /\ faults \in 0 .. MaxFaults
    BY RunAssumption DEF Init, UnitTypes
  <2> QED
    BY <2>2, <2>3, <2>4, <2>5 DEF Types
<1>7. LinkInv
  BY <1>1, <1>3, <1>5, <1>r DEF LinkInv, ConnSound, BotSound, Early, Staging
<1>8. PlaceInv
  <2>1. ASSUME NEW r \in Runs PROVE PlaceOf(r) /\ OwnerOf(r) /\ UnitOf(r)
    BY <1>2, <1>3, <1>4, <1>5, <1>r DEF PlaceOf, OwnerOf, UnitOf, RunningUnit, Quarantined, Consumed
  <2> QED
    BY <1>1, <2>1 DEF PlaceInv, Staging
<1>9. StageInv
  BY <1>1, <1>2, <1>4 DEF StageInv, StagingSound, PublishedSound, EntriesSound, Untorn
<1>10. SealInv
  BY <1>1, <1>2, <1>3, <1>4, <1>5, <1>r DEF SealInv, SealSound, WholeWhileOpen, Untorn, BeforeSeal
<1>11. HostInv
  BY <1>1, <1>3, <1>5, <1>r, RunConns DEF HostInv, Staging
<1> QED
  BY <1>6, <1>7, <1>8, <1>9, <1>10, <1>11 DEF IInv

\* The inductive invariant of the isolated runs: types, connections, places, and what the
\* copies of the workspace hold, in every interleaving of bot, launchers and units.
THEOREM IsolatedRunInvariant == Spec => []IInv
<1>1. IInv /\ [Next]_vars => IInv'
  BY TypesStep, LinkStep, PlaceStep, StageStep, SealStep, HostStep DEF IInv
<1> QED
  BY <1>1, InitIInv, PTL DEF Spec


\* An answer of an isolated run comes from Codex having been started on a complete, untorn
\* copy of the evidence that was listed for it, whatever is written to the evidence while it
\* is staged, and however the bot's removal and the launcher's copy of its directory race.
THEOREM RepliesAreFromFullEvidence == Spec => []ReplyFromFullEvidence
<1>1. IInv => ReplyFromFullEvidence
  <2> SUFFICES ASSUME IInv, bot.got PROVE Names(seen[run]) = Names(bot.listed) /\ \A e \in seen[run] : e.body # Torn
    BY DEF ReplyFromFullEvidence
  <2>1. bot.pc # "idle" /\ Names(seen[run]) = Names(bot.listed)
    BY DEF IInv, LinkInv, SealInv
  <2>2. run \in Runs
    BY <2>1 DEF IInv, Types, BotTypes
  <2> QED
    BY <2>1, <2>2 DEF IInv, SealInv, Untorn
<1> QED
  BY <1>1, IsolatedRunInvariant, PTL

\* Each copy of a workspace has the owner and mode of its place, and a tree that Codex can be
\* started on while the client waits is a whole copy of what was published.
THEOREM WorkspacesAreSound == Spec => []WorkspaceInv
<1>1. IInv => WorkspaceInv
  <2> SUFFICES ASSUME IInv PROVE TypeOK /\ SealedNeverPartial
    BY DEF WorkspaceInv
  <2>0. Types /\ BotTypes /\ DiskTypes /\ ConnTypes /\ UnitTypes /\ faults \in 0 .. MaxFaults
        /\ (\A r \in Runs : PlaceOf(r) /\ WholeWhileOpen(r))
    BY DEF IInv, Types, PlaceInv, SealInv
  <2>1. settings \in Settings /\ host \subseteq HostParts /\ IsTree(evidence, {"evidence"}) /\ run \in {NoRun} \cup Runs
    BY <2>0 DEF BotTypes, IsTree, EvidenceEntries
  <2>2. bot.pc \in BotPcs /\ IsTree(bot.todo \cup bot.listed, {"evidence"}) /\ bot.got \in BOOLEAN
    BY <2>0 DEF BotTypes, Bots, IsTree, EvidenceEntries
  <2>3. ASSUME NEW r \in Runs
        PROVE  /\ source[r].at \in {"none", "pending", "quarantine"}
               /\ source[r].mode \in {"private", "source"} /\ IsTree(source[r].ents, {"source"})
               /\ sealed[r].at \in {"none", "staging", "ready", "consumed"}
               /\ IsTree(sealed[r].ents, {"private", "group"})
    BY <2>0 DEF DiskTypes, Sources, Copies, IsTree, SourceEntries, SealedEntries
  <2>4. ASSUME NEW r \in Runs
        PROVE  /\ unit[r] \in {"none", "boot", "codex", "ok", "dead"}
               /\ sysrun[r] \in {"none", "running", "ok", "failed"}
               /\ outcome[r] \in {"none", "ok", "error"} /\ IsTree(seen[r], {"group"})
    BY <2>0 DEF BotTypes, UnitTypes, PlaceOf, IsTree
  <2>5. ASSUME NEW c \in Conns PROVE lch[c].pc \in ProcessPcs /\ sock[c] \in {"none", "open", "closed"}
    BY <2>0 DEF ConnTypes, Processes
  <2>6. TypeOK
    BY <2>0, <2>1, <2>2, <2>3, <2>4, <2>5 DEF TypeOK, BotPcs, ProcessPcs
  <2>7. SealedNeverPartial
    BY <2>0 DEF SealedNeverPartial, WholeWhileOpen, E
  <2> QED
    BY <2>6, <2>7
<1> QED
  BY <1>1, IsolatedRunInvariant, PTL

\* When the bot is idle and every launcher has exited, neither copy of a workspace is left in
\* any of the places it passes through, except where a fault kept someone from removing it.
THEOREM NothingIsLeftBehind == Spec => []NoResidue
<1>1. IInv => NoResidue
  <2> SUFFICES ASSUME IInv, bot.pc = "idle", \A c \in Conns : lch[c].pc \in {"none", "exited"}, NEW r \in Runs \ left
               PROVE  source[r].at = "none" /\ sealed[r].at = "none"
    BY DEF NoResidue
  <2>1. OwnerOf(r) /\ source[r].at \in {"none", "pending", "quarantine"} /\ lch[E(r)].pc \in {"none", "exited"}
    BY RunConns DEF IInv, PlaceInv, Types, DiskTypes, Sources
  <2> QED
    BY <2>1 DEF OwnerOf, Holding, Quarantined, Consumed
<1> QED
  BY <1>1, IsolatedRunInvariant, PTL

\* The workspace of a running unit is not removed under it, except when systemd has failed to
\* stop the unit or systemd-run was lost.
THEOREM UnitsKeepTheirWorkspace == Spec => []WorkspaceOutlivesUnit
<1>1. IInv => WorkspaceOutlivesUnit
  BY DEF IInv, PlaceInv, UnitOf, WorkspaceOutlivesUnit
<1> QED
  BY <1>1, IsolatedRunInvariant, PTL

\* A run whose preflight found the host in order is not refused for the host, unless something
\* has gone wrong in between: the list of checks before the staging covers those after it.
THEOREM PreflightSuffices == Spec => []PreflightPredictsExecution
<1>1. IInv => PreflightPredictsExecution
  <2> SUFFICES ASSUME IInv, NEW c \in ExecuteConns, lch[c].result = "unavailable" PROVE faults > 0
    BY DEF PreflightPredictsExecution
  <2>1. faults # 0
    BY DEF IInv, HostInv
  <2>2. faults \in Nat
    BY RunAssumption DEF IInv, Types
  <2> QED
    BY <2>1, <2>2
<1> QED
  BY <1>1, IsolatedRunInvariant, PTL
=============================================================================
