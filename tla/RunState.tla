------------------------------- MODULE RunState -------------------------------
(***************************************************************************)
(* The state shared by the processes of an isolated Codex run: the bot     *)
(* (CodexRunner, RunnerInput), one launcher process for each connection    *)
(* (CodexLauncher, IsolatedExecution, InputSealer) and the transient       *)
(* systemd unit in which Codex runs (RuntimeUnit).  IsolatedRun composes   *)
(* them.                                                                   *)
(***************************************************************************)
EXTENDS WorkspaceTree, LauncherProtocol

CONSTANTS MaxRuns,    \* bound: attempts of the bot, each with a run id of its own
          MaxFaults,  \* bound: crashes, kills, I/O errors, timeouts and lost processes
          Evidences,  \* the evidence trees a message may come with
          Settings,   \* the codex settings: [isolated, valid, policy] records
          Hosts       \* what is in order on the host: subsets of HostParts

\* What a run needs of the host: a current activation receipt, the runtime image with
\* its manifest and credential, the groups, and the input roots.
HostParts == {"receipt", "image", "groups", "roots"}

ASSUME RunAssumption ==
  /\ MaxRuns \in Nat \ {0} /\ MaxFaults \in Nat
  /\ Settings \subseteq [isolated : BOOLEAN, valid : BOOLEAN, policy : BOOLEAN]
  /\ Hosts \subseteq SUBSET HostParts
  /\ \A tree \in Evidences : IsTree(tree, {"evidence"}) /\ OnDisk(tree)

Runs  == 1 .. MaxRuns
\* One connection for the preflight and one for the execution of each run.
Conns == Runs \X {"preflight", "execute"}

VARIABLES
  settings,  \* CodexConfig, fixed while the bot runs
  host,      \* the parts of the host that are in order
  evidence,  \* the evidence tree on disk, which others may still write
  run,       \* the attempt the bot is at
  bot,       \* the bot's execution of that attempt: [pc, todo, held, listed, got]
  source,    \* run -> the bot's copy: [at, mode, ents]
  sealed,    \* run -> the launcher's copy: [at, ents]
  lch,       \* connection -> launcher process: [pc, cancelled, todo, held, listed, result]
  sock,      \* connection -> the client's end: "none", "open" or "closed"
  sent,      \* connection -> the request packet, or NoPacket
  resp,      \* connection -> the response packet, or NoPacket
  unit,      \* run -> transient unit: "none", "boot", "codex", "ok" or "dead"
  sysrun,    \* run -> the systemd-run process: "none", "running", "ok" or "failed"
  child,     \* the codex child of the current-user backend: [pc, group, pipe, out]
  outcome,   \* run -> what the attempt returned: "none", "ok" or "error"
  faults,    \* faults so far
  gone,      \* history: connections whose bot process has exited
  seen,      \* history: run -> the tree Codex was started on
  left,      \* history: runs with a tree that a fault stopped someone from removing
  loose      \* history: runs whose unit was let go without being stopped

vars == <<settings, host, evidence, run, bot, source, sealed, lch, sock, sent, resp,
          unit, sysrun, child, outcome, faults, gone, seen, left, loose>>

NoPacket == [kind |-> "none", run |-> NoRun]
NoTree   == {}
None     == [name |-> "none"]

IdleBot   == [pc |-> "idle", todo |-> {}, held |-> None, listed |-> {}, got |-> FALSE]
NoSource  == [at |-> "none", mode |-> "private", ents |-> {}]
NoSealed  == [at |-> "none", ents |-> {}]
NoProcess == [pc |-> "none", cancelled |-> FALSE, todo |-> {}, held |-> None,
              listed |-> {}, result |-> "none"]
NoChild   == [pc |-> "none", group |-> FALSE, pipe |-> FALSE, out |-> FALSE]

Init ==
  /\ settings \in Settings
  /\ host \in Hosts
  /\ evidence \in Evidences
  /\ run = NoRun
  /\ bot = IdleBot
  /\ source = [r \in Runs |-> NoSource]
  /\ sealed = [r \in Runs |-> NoSealed]
  /\ lch = [c \in Conns |-> NoProcess]
  /\ sock = [c \in Conns |-> "none"]
  /\ sent = [c \in Conns |-> NoPacket]
  /\ resp = [c \in Conns |-> NoPacket]
  /\ unit = [r \in Runs |-> "none"]
  /\ sysrun = [r \in Runs |-> "none"]
  /\ child = NoChild
  /\ outcome = [r \in Runs |-> "none"]
  /\ faults = 0
  /\ gone = {}
  /\ seen = [r \in Runs |-> NoTree]
  /\ left = {}
  /\ loose = {}

\* A fault is taken from the bound; an ordinary step takes none.
Fault   == faults < MaxFaults /\ faults' = faults + 1
NoFault == UNCHANGED faults

\* The groups of variables a step leaves alone.
botVars      == <<settings, host, run, bot, child, outcome>>
launcherVars == <<sealed, lch, seen>>
unitVars     == <<unit, sysrun, loose>>
socketVars   == <<sock, sent, resp, gone>>
=============================================================================
