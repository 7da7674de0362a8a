---------------------------- MODULE DevLifecycle ----------------------------
(***************************************************************************)
(* The life cycle of the shop's dev servers (scripts/dev-app-server.sh)    *)
(* and the two watchdogs that revive it.                                   *)
(*                                                                         *)
(* Each start, stop (sleep) or wake (restart) is a process of its own.     *)
(* They serialise on a file lock held through descriptor 9, and share the  *)
(* pid file, the status file and the marker of the desired state.  start   *)
(* closes descriptor 9 before it spawns the servers, so its last steps run *)
(* outside the lock.  The host watchdog (systemd timer) and the cron job   *)
(* in the container look at the files and the health probe, and run an     *)
(* operation of their own some time later.                                 *)
(*                                                                         *)
(* A stack is one process group of servers.  The shop's two ports are one  *)
(* resource here: a stack holds both or dies at boot.                      *)
(***************************************************************************)
EXTENDS Naturals

CONSTANTS
    Op,           \* processes of the script that may run at the same time
    Stack,        \* stacks that may be known at the same time
    MaxCommands,  \* bound: operations the operator asks for
    MaxFaults,    \* bound: faults that happen
    Faults,       \* which of AllFaults may happen
    None          \* no op, no stack, free ports

AllFaults == {"crash", "wedge", "leader", "foreign", "database", "kill",
              "memory", "reboot"}
Foreign == "foreign"

ASSUME FaultsAssumption == Faults \subseteq AllFaults
ASSUME BoundsAssumption == MaxCommands \in Nat /\ MaxFaults \in Nat
ASSUME NoneAssumption ==
    /\ None \notin Op \cup Stack \cup {Foreign}
    /\ Foreign \notin Stack

VARIABLES
    op,        \* op[o]: where process o is, what it does and for whom
    lock,      \* who holds the lock on dev.lock
    pidFile,   \* the stack whose leader dev.pid names
    status,    \* "state" of status.json
    young,     \* was status.json written less than STALE_AFTER_SECONDS ago
    desired,   \* the desired-state file
    stack,     \* stack[s]: "none", or how far the stack has come
    port,      \* who listens on the shop's ports
    plan,      \* plan[w]: what watchdog w has read, or decided to run
    intent,    \* history: the operator's last operation that ended well
    disturbed, \* history: what makes two operations get into each other's way
    commands, faults \* how many operations and faults there have been

fileVars    == <<pidFile, status, young, desired>>
stackVars   == <<stack, port>>
historyVars == <<intent, disturbed>>
boundVars   == <<commands, faults>>
vars == <<op, lock, fileVars, stackVars, plan, historyVars, boundVars>>

Command  == {"start", "stop", "wake"}
Watchdog == {"host", "cron"}
Who      == Watchdog \cup {"operator"}

Locked == {"check", "kill", "report", "ports", "mark"}
Open   == {"spawn", "pid", "running"}
Point  == {"idle", "lock", "ready", "heal"} \cup Locked \cup Open

\* "then": where the stop under way returns to; "made": the stack it spawned;
\* "again": is this the retry of a wedged boot.
OpRecord == [pc : Point, cmd : Command, by : Who, then : {"idle", "check", "ports"},
             made : Stack \cup {None}, again : BOOLEAN]
Idle == [pc |-> "idle", cmd |-> "stop", by |-> "operator", then |-> "idle",
         made |-> None, again |-> FALSE]

\* The leader named by a pid file answers kill -0.
Leads(s) == stack[s] \in {"booting", "serving", "wedged"}
Alive(s) == stack[s] # "none"

\* /health answers.
Healthy == port \in Stack /\ stack[port] = "serving"

TypeOK ==
    /\ op \in [Op -> OpRecord]
    /\ lock \in Op \cup {None}
    /\ pidFile \in Stack \cup {None}
    /\ status \in {"none", "starting", "running", "stopped", "degraded"}
    /\ young \in BOOLEAN
    /\ desired \in {"unknown", "running", "stopped"}
    /\ stack \in [Stack -> {"none", "booting", "serving", "wedged", "orphan"}]
    /\ port \in Stack \cup {None, Foreign}
    /\ plan \in [Watchdog -> {"none", "up", "any", "probe"} \cup {"start", "wake", "restart"}]
    /\ intent \in {"none", "running", "stopped"}
    /\ disturbed \subseteq {"overlap", "killed", "raced"}
    /\ commands \in 0 .. MaxCommands
    /\ faults \in 0 .. MaxFaults

Init ==
    /\ op = [o \in Op |-> Idle]
    /\ lock = None
    /\ pidFile = None
    /\ status = "none"
    /\ young = FALSE
    /\ desired = "unknown"
    /\ stack = [s \in Stack |-> "none"]
    /\ port = None
    /\ plan = [w \in Watchdog |-> "none"]
    /\ intent = "none"
    /\ disturbed = {}
    /\ commands = 0
    /\ faults = 0

-----------------------------------------------------------------------------
(***************************************************************************)
(* The steps of an operation.                                              *)
(***************************************************************************)
Goto(o, point) == op' = [op EXCEPT ![o].pc = point]

\* The process ends, and the kernel releases its lock.
End(o) ==
    /\ op' = [op EXCEPT ![o] = Idle]
    /\ lock' = IF lock = o THEN None ELSE lock

Fails(o) == End(o) /\ UNCHANGED historyVars

\* Exit status 0.  An operator's stop is "raced" when somebody else is already
\* at work, or about to be, as it ends.
Succeeds(o) ==
    /\ End(o)
    /\ IF op[o].by = "operator"
       THEN /\ intent' = IF op[o].cmd = "stop" THEN "stopped" ELSE "running"
            /\ disturbed' =
                 IF \/ \E p \in Op \ {o} : op[p].pc # "idle"
                    \/ \E w \in Watchdog : plan[w] # "none"
                 THEN disturbed \cup {"raced"} ELSE disturbed
       ELSE UNCHANGED historyVars

Begin(o, cmd, by) ==
    /\ op[o].pc = "idle"
    /\ op' = [op EXCEPT ![o] = [Idle EXCEPT !.pc = "lock", !.cmd = cmd, !.by = by]]

\* write_status keeps the desired-state marker in step.
WriteStatus(state) ==
    /\ status' = state
    /\ young' = TRUE
    /\ desired' = IF state = "stopped" THEN "stopped" ELSE "running"

\* stop_workspace_dev_procs: every server of this workspace, tracked or not.
Sweep ==
    /\ stack' = [s \in Stack |-> "none"]
    /\ port' = IF port \in Stack THEN None ELSE port

\* flock -n on descriptor 9: fails when another process holds the lock, and
\* when start has closed the descriptor, which it does nowhere but in Mark.
CanLock(o) == lock = o \/ (lock = None /\ op[o].pc = "lock")

\* lock_dev, the first step of start and of stop.
TakeLock(o) ==
    /\ op[o].pc = "lock" /\ CanLock(o)
    /\ lock' = o
    /\ IF op[o].cmd = "start"
       THEN Goto(o, "check")
       ELSE op' = [op EXCEPT ![o].pc = "kill",
                             ![o].then = IF op[o].cmd = "wake" THEN "check" ELSE "idle"]
    /\ intent' = IF op[o].by = "operator" THEN "none" ELSE intent
    /\ disturbed' = IF \E p \in Op : op[p].pc \in Open
                    THEN disturbed \cup {"overlap"} ELSE disturbed
    /\ UNCHANGED <<fileVars, stackVars, plan, boundVars>>

\* "another dev lifecycle op is in progress", in the first stop or start of the
\* operation or in the stop of a start whose boot wedged.
LockFails(o) ==
    /\ op[o].pc \in {"lock", "heal"} /\ ~CanLock(o)
    /\ Fails(o)
    /\ UNCHANGED <<fileVars, stackVars, plan, boundVars>>

\* The stop of a wedged boot finds the lock in its own hands only if its start
\* had nothing to do and so did not close the descriptor.
Heal(o) ==
    /\ op[o].pc = "heal" /\ CanLock(o)
    /\ op' = [op EXCEPT ![o].pc = "kill", ![o].then = "check", ![o].again = TRUE]
    /\ UNCHANGED <<lock, fileVars, stackVars, plan, historyVars, boundVars>>

\* start: "Already running", or a pid file to be cleaned up, or nothing.
Check(o) ==
    /\ op[o].pc = "check"
    /\ IF pidFile # None /\ Leads(pidFile) /\ Healthy
       THEN Goto(o, "ready")
       ELSE IF pidFile # None
            THEN op' = [op EXCEPT ![o].pc = "kill", ![o].then = "ports"]
            ELSE Goto(o, "ports")
    /\ UNCHANGED <<lock, fileVars, stackVars, plan, historyVars, boundVars>>

\* Mutant: only the tracked process group is killed, and its ports freed.
KillLeaderOnly(o) ==
    /\ op[o].pc = "kill"
    /\ pidFile' = None
    /\ stack' = [s \in Stack |-> IF s = pidFile /\ Leads(s) THEN "none" ELSE stack[s]]
    /\ port' = IF port \in Stack /\ stack'[port] = "none" THEN None ELSE port
    /\ Goto(o, "report")
    /\ UNCHANGED <<lock, status, young, desired, plan, historyVars, boundVars>>

Kill(o) ==
    /\ op[o].pc = "kill"
    /\ pidFile' = None
    /\ Sweep
    /\ Goto(o, "report")
    /\ UNCHANGED <<lock, status, young, desired, plan, historyVars, boundVars>>

\* Mutant: the marker of the desired state is not kept in step.
ReportKeepingDesired(o) ==
    /\ op[o].pc = "report"
    /\ status' = "stopped" /\ young' = TRUE
    /\ IF op[o].then = "idle"
       THEN Succeeds(o)
       ELSE Goto(o, op[o].then) /\ UNCHANGED <<lock, historyVars>>
    /\ UNCHANGED <<pidFile, desired, stackVars, plan, boundVars>>

\* The end of stop, which is the end of the operation or the start of a start.
Report(o) ==
    /\ op[o].pc = "report"
    /\ WriteStatus("stopped")
    /\ IF op[o].then = "idle"
       THEN Succeeds(o)
       ELSE Goto(o, op[o].then) /\ UNCHANGED <<lock, historyVars>>
    /\ UNCHANGED <<pidFile, stackVars, plan, boundVars>>

\* The port-squat guard.
Ports(o) ==
    /\ op[o].pc = "ports"
    /\ IF port = None THEN UNCHANGED stackVars ELSE Sweep
    /\ IF port = Foreign
       THEN Fails(o)
       ELSE Goto(o, "mark") /\ UNCHANGED <<lock, historyVars>>
    /\ UNCHANGED <<fileVars, plan, boundVars>>

\* Mutant: the status is written only once the servers are there.
MarkSilently(o) ==
    /\ op[o].pc = "mark"
    /\ lock' = None
    /\ Goto(o, "spawn")
    /\ UNCHANGED <<fileVars, stackVars, plan, historyVars, boundVars>>

\* write_status starting, then the lock is released and descriptor 9 closed.
Mark(o) ==
    /\ op[o].pc = "mark"
    /\ WriteStatus("starting")
    /\ lock' = None
    /\ Goto(o, "spawn")
    /\ UNCHANGED <<pidFile, stackVars, plan, historyVars, boundVars>>

Spawn(o) ==
    /\ op[o].pc = "spawn"
    /\ \E s \in Stack :
         /\ ~Alive(s) /\ s # pidFile
         /\ \A p \in Op : op[p].made # s
         /\ stack' = [stack EXCEPT ![s] = "booting"]
         /\ op' = [op EXCEPT ![o].pc = "pid", ![o].made = s]
    /\ UNCHANGED <<lock, fileVars, port, plan, historyVars, boundVars>>

WritePid(o) ==
    /\ op[o].pc = "pid"
    /\ pidFile' = op[o].made
    /\ op' = [op EXCEPT ![o].pc = "running", ![o].made = None]
    /\ UNCHANGED <<lock, status, young, desired, stackVars, plan, historyVars,
                   boundVars>>

\* Mutant: a state the readers of status.json do not know.
Started(o) ==
    /\ op[o].pc = "running"
    /\ WriteStatus("started")
    /\ Goto(o, "ready")
    /\ UNCHANGED <<lock, pidFile, stackVars, plan, historyVars, boundVars>>

Running(o) ==
    /\ op[o].pc = "running"
    /\ WriteStatus("running")
    /\ Goto(o, "ready")
    /\ UNCHANGED <<lock, pidFile, stackVars, plan, historyVars, boundVars>>

\* wait_for_storefront_ready: /health answers, or 75 s pass without.
Ready(o) ==
    /\ op[o].pc = "ready"
    /\ IF Healthy
       THEN Succeeds(o)
       ELSE ~op[o].again /\ Goto(o, "heal") /\ UNCHANGED <<lock, historyVars>>
    /\ UNCHANGED <<fileVars, stackVars, plan, boundVars>>

\* The retry has not come up either.
Degrade(o) ==
    /\ op[o].pc = "ready" /\ op[o].again /\ ~Healthy
    /\ WriteStatus("degraded")
    /\ Fails(o)
    /\ UNCHANGED <<pidFile, stackVars, plan, boundVars>>

-----------------------------------------------------------------------------
(***************************************************************************)
(* The operator and the watchdogs.                                         *)
(***************************************************************************)
Operate(o, cmd) ==
    /\ commands < MaxCommands
    /\ Begin(o, cmd, "operator")
    /\ commands' = commands + 1
    /\ UNCHANGED <<lock, fileVars, stackVars, plan, historyVars, faults>>

\* A watchdog goes on reading or deciding while nothing of its own runs.
Sees(w, from, to) ==
    /\ plan[w] = from
    /\ \A o \in Op : op[o].pc = "idle" \/ op[o].by # w
    /\ plan' = [plan EXCEPT ![w] = to]
    /\ UNCHANGED <<op, lock, fileVars, stackVars, historyVars, commands>>

Fault(kind) == kind \in Faults /\ faults < MaxFaults /\ faults' = faults + 1

\* dev-watchdog-host.sh reads the desired state first.
ReadDesired ==
    /\ Sees("host", "none", IF desired = "running" THEN "up" ELSE "any")
    /\ UNCHANGED faults

\* Mutant: a shop that is not running is taken for one that was stopped.
ReadStatusPatiently ==
    \E read \in {"up", "any"} :
      \/ status # "running" /\ Sees("host", read, "none") /\ UNCHANGED faults
      \/ status = "running" /\ Sees("host", read, IF young THEN "none" ELSE "probe")
         /\ UNCHANGED faults

\* Then the status file: a shop that should be up and is not running is started;
\* one that should have booted by now is probed, or restarted if its server is
\* over its memory limit.
ReadStatus ==
    \E read \in {"up", "any"} :
      IF status # "running"
      THEN /\ Sees("host", read, IF read = "up" THEN "start" ELSE "none")
           /\ UNCHANGED faults
      ELSE \/ young  /\ Sees("host", read, "none")  /\ UNCHANGED faults
           \/ ~young /\ Sees("host", read, "probe") /\ UNCHANGED faults
           \/ ~young /\ Sees("host", read, "restart") /\ Fault("memory")

Probe(w) ==
    /\ Sees(w, "probe", IF Healthy THEN "none" ELSE "wake")
    /\ UNCHANGED faults

\* dev-watchdog-cron.sh: a status file older than STALE_AFTER_SECONDS is none
\* of its business.
LookCron ==
    /\ status = "running" /\ young
    /\ Sees("cron", "none", "probe")
    /\ UNCHANGED faults

\* The memory guard's restart is followed by the probe, with what was read
\* before it.
Act(w, o) ==
    /\ plan[w] \in {"start", "wake", "restart"}
    /\ Begin(o, IF plan[w] = "start" THEN "start" ELSE "wake", w)
    /\ plan' = [plan EXCEPT ![w] = IF plan[w] = "restart" THEN "probe" ELSE "none"]
    /\ UNCHANGED <<lock, fileVars, stackVars, historyVars, boundVars>>

-----------------------------------------------------------------------------
(***************************************************************************)
(* The servers and the world around them.                                  *)
(***************************************************************************)
StackFrame == UNCHANGED <<op, lock, fileVars, plan, historyVars, commands>>

\* A stack that finds its ports taken dies with EADDRINUSE.
Boot(s) ==
    /\ stack[s] = "booting"
    /\ IF port = None
       THEN port' = s /\ stack' = [stack EXCEPT ![s] = "serving"]
       ELSE stack' = [stack EXCEPT ![s] = "none"] /\ UNCHANGED port
    /\ UNCHANGED faults /\ StackFrame

\* "Compiling middleware": the ports listen and nothing is answered.
Wedge(s) ==
    /\ stack[s] = "booting" /\ port = None
    /\ Fault("wedge")
    /\ port' = s /\ stack' = [stack EXCEPT ![s] = "wedged"]
    /\ StackFrame

StackDies(s) ==
    /\ Alive(s)
    /\ Fault("crash")
    /\ stack' = [stack EXCEPT ![s] = "none"]
    /\ port' = IF port = s THEN None ELSE port
    /\ StackFrame

\* The leader dies, its tasks keep the ports.
LeaderDies(s) ==
    /\ stack[s] \in {"serving", "wedged"}
    /\ Fault("leader")
    /\ stack' = [stack EXCEPT ![s] = "orphan"]
    /\ UNCHANGED port /\ StackFrame

ForeignTakes == port = None /\ Fault("foreign") /\ port' = Foreign /\ UNCHANGED stack /\ StackFrame
ForeignLeaves == port = Foreign /\ port' = None /\ UNCHANGED <<stack, faults>> /\ StackFrame

StatusAges ==
    /\ young
    /\ young' = FALSE
    /\ UNCHANGED <<op, lock, pidFile, status, desired, stackVars, plan, historyVars,
                   boundVars>>

\* wait_for_postgres gives up, or node_modules is missing.
CannotStart(o) ==
    /\ op[o].pc = "mark"
    /\ Fault("database")
    /\ Fails(o)
    /\ UNCHANGED <<fileVars, stackVars, plan, commands>>

\* The script is killed: both the watchdog and the command daemon give it
\* 300 s.
KillScript(o) ==
    /\ op[o].pc # "idle"
    /\ Fault("kill")
    /\ End(o)
    /\ disturbed' = disturbed \cup {"killed"}
    /\ UNCHANGED <<fileVars, stackVars, plan, intent, commands>>

\* The host restarts: processes are gone, files stay.
Reboot ==
    /\ Fault("reboot")
    /\ op' = [o \in Op |-> Idle]
    /\ lock' = None
    /\ stack' = [s \in Stack |-> "none"]
    /\ port' = None
    /\ plan' = [w \in Watchdog |-> "none"]
    /\ UNCHANGED <<fileVars, historyVars, commands>>

-----------------------------------------------------------------------------
OpStep(o) ==
    \/ TakeLock(o) \/ LockFails(o) \/ Check(o) \/ Kill(o) \/ Report(o)
    \/ Ports(o) \/ Mark(o) \/ Spawn(o) \/ WritePid(o) \/ Running(o) \/ Ready(o)
    \/ Heal(o) \/ Degrade(o)

HostStep == ReadDesired \/ ReadStatus \/ Probe("host") \/ \E o \in Op : Act("host", o)
CronStep == LookCron \/ Probe("cron") \/ \E o \in Op : Act("cron", o)

StackStep(s) == Boot(s) \/ Wedge(s) \/ StackDies(s) \/ LeaderDies(s)

WorldStep ==
    \/ ForeignTakes \/ ForeignLeaves \/ StatusAges \/ Reboot
    \/ \E o \in Op : CannotStart(o) \/ KillScript(o)

Next ==
    \/ \E o \in Op, cmd \in Command : Operate(o, cmd)
    \/ \E o \in Op : OpStep(o)
    \/ HostStep \/ CronStep
    \/ \E s \in Stack : StackStep(s)
    \/ WorldStep

Spec == Init /\ [][Next]_vars

\* Scripts run to their end, the timer fires, files age, and a boot takes far
\* less time than passes between two runs of the watchdogs.
Fairness ==
    /\ \A o \in Op : WF_vars(OpStep(o))
    /\ SF_vars(HostStep)
    /\ WF_vars(StatusAges)
    /\ WF_vars(ForeignLeaves)
    /\ \A s \in Stack : SF_vars(Boot(s))

-----------------------------------------------------------------------------
(***************************************************************************)
(* What the scripts promise.                                               *)
(***************************************************************************)

\* No operation began while another was between releasing the lock and writing
\* its status, and no script was killed.
Serialised == "overlap" \notin disturbed /\ "killed" \notin disturbed

Tracked(s) == pidFile = s \/ \E o \in Op : op[o].pc = "pid" /\ op[o].made = s

\* As long as operations were serialised, dev.pid names every live stack: there
\* is one at most, and status and stop can see it (dev-app-server.sh).
StacksTracked == Serialised => \A s \in Stack : Alive(s) => Tracked(s)

\* Under the same proviso, "stopped" in status.json is true: no server of this
\* workspace is left, not even one whose leader died (stop_workspace_dev_procs).
StoppedMeansDown == Serialised /\ status = "stopped" => \A s \in Stack : ~Alive(s)

\* "don't fight the operator": after an operator's stop that ended while nobody
\* else was at work, no watchdog brings the shop up again (desired-state).
OperatorStopSticks ==
    intent = "stopped" /\ disturbed = {} =>
        /\ \A s \in Stack : ~Alive(s)
        /\ \A o \in Op : op[o].by \in Watchdog => op[o].pc = "idle"

\* "flock -n fails fast if another dev lifecycle op is in progress": an
\* operation is refused only then.
RefusedOnlyIfBusy == [][\A o \in Op : LockFails(o) => lock \notin {None, o}]_vars

\* "Desired state: what SHOULD be running, from the operator's last explicit
\* lifecycle action": while no operation is under way, and none has disturbed
\* another, the marker says what the operator's last successful operation was for.
DesiredFollowsOperator ==
    disturbed = {} /\ intent # "none" /\ (\A o \in Op : op[o].pc = "idle") =>
        desired = intent
=============================================================================
