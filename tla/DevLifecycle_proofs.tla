------------------------ MODULE DevLifecycle_proofs ------------------------
(***************************************************************************)
(* Proofs about the life cycle of the dev servers, for any number of       *)
(* operations, stacks, commands and faults.                                *)
(*                                                                         *)
(* The lock alone keeps two operations out of check .. mark.  It does not  *)
(* cover spawn .. running; that nobody else is between taking the lock and *)
(* writing the status then is what Serialised assumes, and from it follows *)
(* that an operation about to spawn finds nothing alive, hence that at     *)
(* most one stack lives and dev.pid names it.                              *)
(***************************************************************************)
EXTENDS DevLifecycle, TLAPS

\* From the first look at the pid file to write_status the lock is held.
LockInv == \A o \in Op : op[o].pc \in Locked => lock = o

\* A stop ends after its report; only the others go on.  Nobody owns a slot at rest.
CommandInv ==
    \A o \in Op :
        /\ op[o].pc = "idle" => op[o].by = "operator"
        /\ op[o].pc \in {"check", "ports", "mark", "ready", "heal"} \cup Open =>
              op[o].cmd # "stop"
        /\ op[o].pc \in {"kill", "report"} => (op[o].then = "idle" <=> op[o].cmd = "stop")

\* Serialised, an operation that spawns is alone and has said so.
OpenInv ==
    Serialised => \A o \in Op : op[o].pc \in Open =>
        /\ lock = None
        /\ status # "stopped"
        /\ op[o].pc = "pid" => pidFile = None
        /\ \A p \in Op : op[p].pc \in Open => p = o

\* Serialised, nothing lives between a stop and the next spawn.
EmptyInv ==
    Serialised => \A o \in Op : op[o].pc \in {"report", "ports", "mark", "spawn"} =>
        /\ pidFile = None
        /\ \A s \in Stack : ~Alive(s)

\* After an undisturbed stop everybody is at rest until the operator returns.
QuietInv ==
    intent = "stopped" /\ disturbed = {} =>
        /\ \A o \in Op : op[o].pc \in {"idle", "lock"} /\ op[o].by = "operator"
        /\ plan["host"] \in {"none", "any"} /\ plan["cron"] = "none"
        /\ status = "stopped" /\ desired = "stopped"
        /\ \A s \in Stack : ~Alive(s)

SafeInv == OpenInv /\ EmptyInv /\ StacksTracked /\ StoppedMeansDown

IInv == TypeOK /\ LockInv /\ CommandInv /\ SafeInv /\ QuietInv

-----------------------------------------------------------------------------
(***************************************************************************)
(* Type correctness.                                                       *)
(***************************************************************************)
LEMMA TypeInit == Init => TypeOK
  <1>1. Idle \in OpRecord
    BY DEF OpRecord, Idle, Point, Command, Who
  <1>2. 0 \in 0 .. MaxCommands /\ 0 \in 0 .. MaxFaults
    BY BoundsAssumption
  <1>3. QED BY <1>1, <1>2 DEF Init, TypeOK

\* Where a step of an operation leads keeps the types.
LEMMA GotoType ==
    ASSUME TypeOK, NEW o \in Op, NEW point \in Point, Goto(o, point)
    PROVE  op' \in [Op -> OpRecord]
  BY DEF TypeOK, Goto, OpRecord

LEMMA EndType ==
    ASSUME TypeOK, NEW o \in Op, End(o)
    PROVE  op' \in [Op -> OpRecord] /\ lock' \in Op \cup {None}
  BY DEF TypeOK, End, OpRecord, Idle, Point, Locked, Open, Command, Who, Watchdog

LEMMA SucceedsType ==
    ASSUME TypeOK, NEW o \in Op, Succeeds(o)
    PROVE  /\ op' \in [Op -> OpRecord] /\ lock' \in Op \cup {None}
           /\ intent' \in {"none", "running", "stopped"}
           /\ disturbed' \subseteq {"overlap", "killed", "raced"}
  BY EndType DEF TypeOK, Succeeds, historyVars

LEMMA BeginType ==
    ASSUME TypeOK, NEW o \in Op, NEW cmd \in Command, NEW by \in Who, Begin(o, cmd, by)
    PROVE  op' \in [Op -> OpRecord]
  BY DEF TypeOK, Begin, OpRecord, Idle, Point, Locked, Open

LEMMA TypeOp ==
    ASSUME TypeOK, NEW o \in Op, OpStep(o)
    PROVE  TypeOK'
  <1> USE DEF fileVars, stackVars, historyVars, boundVars
  <1>p. /\ {"check", "ports", "report", "mark", "spawn", "ready", "heal", "idle"} \subseteq Point
        /\ op[o].then \in Point
        /\ op[o] \in OpRecord
    BY DEF TypeOK, OpRecord, Point, Locked, Open
  <1>1. CASE TakeLock(o)
    <2>1. op' \in [Op -> OpRecord]
      BY <1>1, <1>p, GotoType DEF TakeLock, TypeOK, OpRecord, Point, Locked
    <2>2. QED BY <1>1, <2>1 DEF TakeLock, TypeOK
  <1>2. CASE LockFails(o) BY <1>2, EndType DEF LockFails, Fails, TypeOK
  <1>3. CASE Check(o)
    <2>1. op' \in [Op -> OpRecord]
      BY <1>3, <1>p, GotoType DEF Check, TypeOK, OpRecord, Point, Locked
    <2>2. QED BY <1>3, <2>1 DEF Check, TypeOK
  <1>4. CASE Kill(o)
    <2>1. op' \in [Op -> OpRecord] BY <1>4, <1>p, GotoType DEF Kill
    <2>2. QED BY <1>4, <2>1 DEF Kill, Sweep, TypeOK
  <1>5. CASE Report(o)
    <2>1. /\ op' \in [Op -> OpRecord] /\ lock' \in Op \cup {None}
          /\ intent' \in {"none", "running", "stopped"}
          /\ disturbed' \subseteq {"overlap", "killed", "raced"}
      BY <1>5, <1>p, GotoType, SucceedsType DEF Report, TypeOK
    <2>2. QED BY <1>5, <2>1 DEF Report, WriteStatus, TypeOK
  <1>6. CASE Ports(o)
    <2>1. op' \in [Op -> OpRecord] /\ lock' \in Op \cup {None} /\ UNCHANGED historyVars
      BY <1>6, <1>p, GotoType, EndType DEF Ports, Fails, TypeOK
    <2>2. QED BY <1>6, <2>1 DEF Ports, Sweep, TypeOK
  <1>7. CASE Mark(o)
    <2>1. op' \in [Op -> OpRecord] BY <1>7, <1>p, GotoType DEF Mark
    <2>2. QED BY <1>7, <2>1 DEF Mark, WriteStatus, TypeOK
  <1>8. CASE Spawn(o)
    <2>1. PICK s \in Stack :
            /\ stack' = [stack EXCEPT ![s] = "booting"]
            /\ op' = [op EXCEPT ![o].pc = "pid", ![o].made = s]
      BY <1>8 DEF Spawn
    <2>2. op' \in [Op -> OpRecord] BY <1>p, <2>1 DEF TypeOK, OpRecord, Point, Open
    <2>3. QED BY <1>8, <2>1, <2>2 DEF Spawn, TypeOK
  <1>9. CASE WritePid(o)
    <2>1. op' \in [Op -> OpRecord]
      BY <1>9, <1>p DEF WritePid, TypeOK, OpRecord, Point, Open
    <2>2. pidFile' \in Stack \cup {None} BY <1>9, <1>p DEF WritePid, OpRecord
    <2>3. QED BY <1>9, <2>1, <2>2 DEF WritePid, TypeOK
  <1>10. CASE Running(o)
    <2>1. op' \in [Op -> OpRecord] BY <1>10, <1>p, GotoType DEF Running
    <2>2. QED BY <1>10, <2>1 DEF Running, WriteStatus, TypeOK
  <1>11. CASE Ready(o)
    <2>1. /\ op' \in [Op -> OpRecord] /\ lock' \in Op \cup {None}
          /\ intent' \in {"none", "running", "stopped"}
          /\ disturbed' \subseteq {"overlap", "killed", "raced"}
      BY <1>11, <1>p, GotoType, SucceedsType DEF Ready, TypeOK
    <2>2. QED BY <1>11, <2>1 DEF Ready, TypeOK
  <1>12. CASE Heal(o)
    <2>1. op' \in [Op -> OpRecord]
      BY <1>12, <1>p DEF Heal, TypeOK, OpRecord, Point, Locked
    <2>2. QED BY <1>12, <2>1 DEF Heal, TypeOK
  <1>13. CASE Degrade(o) BY <1>13, EndType DEF Degrade, Fails, WriteStatus, TypeOK
  <1>14. QED
    BY <1>1, <1>2, <1>3, <1>4, <1>5, <1>6, <1>7, <1>8, <1>9, <1>10, <1>11, <1>12, <1>13
       DEF OpStep

LEMMA SeesType ==
    ASSUME TypeOK, NEW w \in Watchdog, NEW from,
           NEW to \in {"none", "up", "any", "probe", "start", "wake", "restart"},
           Sees(w, from, to), faults' \in 0 .. MaxFaults
    PROVE  TypeOK'
  BY DEF TypeOK, Sees, fileVars, stackVars, historyVars

LEMMA TypeWatch ==
    ASSUME TypeOK, HostStep \/ CronStep
    PROVE  TypeOK'
  <1> USE DEF fileVars, stackVars, historyVars, boundVars
  <1>f. faults' = faults \/ Fault("memory") => faults' \in 0 .. MaxFaults
    BY BoundsAssumption DEF TypeOK, Fault
  <1>w. "host" \in Watchdog /\ "cron" \in Watchdog
    BY DEF Watchdog
  <1>1. CASE ReadDesired BY <1>1, <1>f, <1>w, SeesType DEF ReadDesired
  <1>2. CASE ReadStatus
    <2>1. PICK to \in {"start", "none", "probe", "restart"}, read \in {"up", "any"} :
            Sees("host", read, to) /\ faults' \in 0 .. MaxFaults
      BY <1>2, <1>f DEF ReadStatus
    <2>2. QED BY <1>w, <2>1, SeesType
  <1>3. ASSUME NEW w \in Watchdog, Probe(w) PROVE TypeOK'
    BY <1>3, <1>f, SeesType DEF Probe
  <1>4. CASE LookCron BY <1>4, <1>f, <1>w, SeesType DEF LookCron
  <1>5. ASSUME NEW w \in Watchdog, NEW o \in Op, Act(w, o) PROVE TypeOK'
    <2>1. op' \in [Op -> OpRecord]
      BY <1>5, BeginType DEF Act, Command, Who
    <2>2. QED BY <1>5, <2>1 DEF Act, TypeOK
  <1>6. QED BY <1>1, <1>2, <1>3, <1>4, <1>5, <1>w DEF HostStep, CronStep

LEMMA TypeWorld ==
    ASSUME TypeOK,
           \/ \E s \in Stack : StackStep(s)
           \/ WorldStep
           \/ \E o \in Op, cmd \in Command : Operate(o, cmd)
    PROVE  TypeOK'
  <1> USE DEF fileVars, stackVars, historyVars, boundVars
  <1>f. ASSUME NEW kind, Fault(kind) PROVE faults' \in 0 .. MaxFaults
    BY <1>f, BoundsAssumption DEF TypeOK, Fault
  <1>1. ASSUME NEW s \in Stack, StackStep(s) PROVE TypeOK'
    BY <1>1, <1>f DEF StackStep, Boot, Wedge, StackDies, LeaderDies, StackFrame, TypeOK
  <1>2. CASE ForeignTakes \/ ForeignLeaves
    BY <1>2, <1>f DEF ForeignTakes, ForeignLeaves, StackFrame, TypeOK
  <1>3. CASE StatusAges BY <1>3 DEF StatusAges, TypeOK
  <1>4. CASE Reboot
    BY <1>4, <1>f DEF Reboot, TypeOK, OpRecord, Idle, Point, Locked, Open, Command, Who, Watchdog
  <1>5. ASSUME NEW o \in Op, CannotStart(o) \/ KillScript(o) PROVE TypeOK'
    BY <1>5, <1>f, EndType DEF CannotStart, KillScript, Fails, TypeOK
  <1>6. ASSUME NEW o \in Op, NEW cmd \in Command, Operate(o, cmd) PROVE TypeOK'
    <2>1. op' \in [Op -> OpRecord] BY <1>6, BeginType DEF Operate, Who
    <2>2. commands' \in 0 .. MaxCommands BY <1>6, BoundsAssumption DEF Operate, TypeOK
    <2>3. QED BY <1>6, <2>1, <2>2 DEF Operate, TypeOK
  <1>7. QED BY <1>1, <1>2, <1>3, <1>4, <1>5, <1>6 DEF WorldStep

LEMMA TypeNext == TypeOK /\ [Next]_vars => TypeOK'
  <1> SUFFICES ASSUME TypeOK, [Next]_vars PROVE TypeOK'
    OBVIOUS
  <1>1. CASE UNCHANGED vars
    BY <1>1 DEF vars, fileVars, stackVars, historyVars, boundVars, TypeOK
  <1>2. CASE Next BY <1>2, TypeOp, TypeWatch, TypeWorld DEF Next
  <1>3. QED BY <1>1, <1>2

-----------------------------------------------------------------------------
(***************************************************************************)
(* The inductive invariant, one conjunct that a step can disturb at a time. *)
(***************************************************************************)
LEMMA InvInit == Init => IInv
  BY TypeInit, NoneAssumption
     DEF Init, IInv, LockInv, CommandInv, SafeInv, Serialised, OpenInv, EmptyInv, StacksTracked,
         StoppedMeansDown, QuietInv, Idle, Locked, Open, Alive

\* What the watchdogs do is to begin an operation, or nothing the others see.
LEMMA WatchFrame ==
    ASSUME HostStep \/ CronStep
    PROVE  /\ UNCHANGED <<lock, pidFile, status, desired, stack, intent, disturbed>>
           /\ \/ op' = op
              \/ \E o \in Op, cmd \in {"start", "wake"}, w \in Watchdog :
                    /\ Begin(o, cmd, w)
                    /\ plan[w] \in {"start", "wake", "restart"}
  <1> USE DEF fileVars, stackVars, historyVars, boundVars
  <1>1. ASSUME NEW w, NEW from, NEW to, Sees(w, from, to)
        PROVE  UNCHANGED <<op, lock, pidFile, status, desired, stack, intent, disturbed>>
    BY <1>1 DEF Sees
  <1>2. CASE ReadDesired \/ ReadStatus \/ LookCron \/ \E w \in Watchdog : Probe(w)
    BY <1>1, <1>2 DEF ReadDesired, ReadStatus, LookCron, Probe
  <1>3. ASSUME NEW w \in Watchdog, NEW o \in Op, Act(w, o)
        PROVE  /\ UNCHANGED <<lock, pidFile, status, desired, stack, intent, disturbed>>
               /\ \E cmd \in {"start", "wake"} : Begin(o, cmd, w)
               /\ plan[w] \in {"start", "wake", "restart"}
    BY <1>3 DEF Act
  <1>4. "host" \in Watchdog /\ "cron" \in Watchdog
    BY DEF Watchdog
  <1>5. QED BY <1>2, <1>3, <1>4 DEF HostStep, CronStep

\* A new operation is at its first point, an ended one at rest; nobody else moves.
LEMMA BeginFacts ==
    ASSUME TypeOK, NEW o \in Op, NEW cmd, NEW by, Begin(o, cmd, by)
    PROVE  /\ op[o].pc = "idle" /\ op'[o].pc = "lock"
           /\ op'[o].cmd = cmd /\ op'[o].by = by
           /\ \A p \in Op \ {o} : op'[p] = op[p]
  BY DEF TypeOK, Begin, Idle

LEMMA EndFacts ==
    ASSUME TypeOK, NEW o \in Op, End(o)
    PROVE  /\ op'[o] = Idle
           /\ \A p \in Op \ {o} : op'[p] = op[p]
           /\ lock' = IF lock = o THEN None ELSE lock
  BY DEF TypeOK, End

\* A step within an operation moves that operation.
LEMMA GotoFacts ==
    ASSUME TypeOK, NEW o \in Op, NEW point, Goto(o, point)
    PROVE  /\ op'[o].pc = point /\ op'[o].cmd = op[o].cmd /\ op'[o].by = op[o].by
           /\ op'[o].then = op[o].then /\ op'[o].made = op[o].made
           /\ \A p \in Op \ {o} : op'[p] = op[p]
  BY DEF TypeOK, Goto, OpRecord

LEMMA LockStep == IInv /\ [Next]_vars => LockInv'
  <1> SUFFICES ASSUME IInv, [Next]_vars PROVE LockInv'
    OBVIOUS
  <1> USE DEF IInv, TypeOK, LockInv, Locked, Open, fileVars, stackVars, historyVars, boundVars,
          Goto, OpRecord
  <1>1. ASSUME NEW o \in Op, TakeLock(o) \/ LockFails(o) \/ Check(o) \/ Heal(o) PROVE LockInv'
    <2>1. CASE TakeLock(o)
      <3>1. /\ lock \in {o, None} /\ lock' = o
            /\ \A p \in Op \ {o} : op'[p] = op[p]
        BY <1>1, <2>1 DEF TakeLock, CanLock
      <3>2. QED BY <3>1, NoneAssumption
    <2>2. CASE LockFails(o) BY <2>2 DEF LockFails, Fails, End, Idle
    <2>3. CASE Check(o) BY <2>3 DEF Check
    <2>4. CASE Heal(o) BY <2>4, NoneAssumption DEF Heal, CanLock
    <2>5. QED BY <1>1, <2>1, <2>2, <2>3, <2>4
  <1>2. ASSUME NEW o \in Op, Kill(o) \/ Report(o) \/ Ports(o) \/ Mark(o) PROVE LockInv'
    BY <1>2 DEF Kill, Report, Ports, Mark, Succeeds, Fails, End, Idle
  <1>3. ASSUME NEW o \in Op, Spawn(o) \/ WritePid(o) \/ Running(o) PROVE LockInv'
    BY <1>3 DEF Spawn, WritePid, Running
  <1>4. ASSUME NEW o \in Op, Ready(o) \/ Degrade(o) \/ CannotStart(o) \/ KillScript(o)
        PROVE  LockInv'
    BY <1>4 DEF Ready, Degrade, CannotStart, KillScript, Succeeds, Fails, End, Idle
  <1>5. CASE HostStep \/ CronStep
    BY <1>5, WatchFrame, BeginFacts
  <1>6. ASSUME NEW o \in Op, NEW cmd \in Command, Operate(o, cmd) PROVE LockInv'
    BY <1>6, BeginFacts DEF Operate
  <1>7. ASSUME NEW s \in Stack, StackStep(s) PROVE LockInv'
    BY <1>7 DEF StackStep, Boot, Wedge, StackDies, LeaderDies, StackFrame
  <1>8. CASE ForeignTakes \/ ForeignLeaves \/ StatusAges \/ Reboot
    BY <1>8 DEF ForeignTakes, ForeignLeaves, StatusAges, Reboot, StackFrame, Idle
  <1>9. CASE UNCHANGED vars BY <1>9 DEF vars
  <1>10. QED
    BY <1>1, <1>2, <1>3, <1>4, <1>5, <1>6, <1>7, <1>8, <1>9 DEF Next, OpStep, WorldStep

LEMMA CommandStep == IInv /\ [Next]_vars => CommandInv'
  <1> SUFFICES ASSUME IInv, [Next]_vars PROVE CommandInv'
    OBVIOUS
  <1> USE DEF IInv, TypeOK, CommandInv, Locked, Open, fileVars, stackVars, historyVars, boundVars,
          OpRecord, Command
  <1>0. \A o \in Op : op[o] \in OpRecord
    OBVIOUS
  <1>1. ASSUME NEW o \in Op, TakeLock(o) PROVE CommandInv'
    BY <1>0, <1>1 DEF TakeLock, Goto
  <1>2. ASSUME NEW o \in Op, Check(o) PROVE CommandInv'
    BY <1>0, <1>2 DEF Check, Goto
  <1>3. ASSUME NEW o \in Op, Heal(o) PROVE CommandInv'
    BY <1>3 DEF Heal
  <1>4. ASSUME NEW o \in Op, Kill(o) \/ Mark(o) \/ Running(o) PROVE CommandInv'
    BY <1>4, GotoFacts DEF Kill, Mark, Running
  <1>5. ASSUME NEW o \in Op, Report(o) \/ Ports(o) \/ Ready(o) PROVE CommandInv'
    BY <1>5, GotoFacts, EndFacts DEF Report, Ports, Ready, Succeeds, Fails, Idle
  <1>6. ASSUME NEW o \in Op, Spawn(o) \/ WritePid(o) PROVE CommandInv'
    BY <1>6 DEF Spawn, WritePid
  <1>7. ASSUME NEW o \in Op, LockFails(o) \/ Degrade(o) \/ CannotStart(o) \/ KillScript(o)
        PROVE  CommandInv'
    BY <1>7, EndFacts DEF LockFails, Degrade, CannotStart, KillScript, Fails, Idle
  <1>8. CASE HostStep \/ CronStep
    BY <1>8, WatchFrame, BeginFacts
  <1>9. ASSUME NEW o \in Op, NEW cmd \in Command, Operate(o, cmd) PROVE CommandInv'
    BY <1>9, BeginFacts DEF Operate
  <1>10. ASSUME NEW s \in Stack, StackStep(s) PROVE CommandInv'
    BY <1>10 DEF StackStep, Boot, Wedge, StackDies, LeaderDies, StackFrame
  <1>11. CASE ForeignTakes \/ ForeignLeaves \/ StatusAges \/ Reboot
    BY <1>11 DEF ForeignTakes, ForeignLeaves, StatusAges, Reboot, StackFrame, Idle
  <1>12. CASE UNCHANGED vars BY <1>12 DEF vars
  <1>13. QED
    BY <1>1, <1>2, <1>3, <1>4, <1>5, <1>6, <1>7, <1>8, <1>9, <1>10, <1>11, <1>12
       DEF Next, OpStep, WorldStep

-----------------------------------------------------------------------------
(***************************************************************************)
(* One stack at most, and dev.pid names it.                                *)
(***************************************************************************)

\* An end, and any step that only moves one operation to a point that the
\* invariants ask nothing of, keeps them.
LEMMA SafeMove ==
    ASSUME IInv, NEW o \in Op,
           \A p \in Op \ {o} : op'[p] = op[p],
           op'[o].pc \in {"idle", "lock", "check", "kill", "ready", "heal"},
           op[o].pc # "pid",
           lock' \in {lock, None},
           disturbed \subseteq disturbed',
           UNCHANGED <<pidFile, stack>>,
           status' = status \/ status' \in {"running", "degraded"}
    PROVE  SafeInv'
  <1> SUFFICES ASSUME Serialised' PROVE SafeInv'
    BY DEF SafeInv, OpenInv, EmptyInv, StacksTracked, StoppedMeansDown
  <1>s. Serialised
    BY DEF Serialised
  <1>1. OpenInv'
    BY <1>s DEF IInv, SafeInv, OpenInv, Open
  <1>2. EmptyInv'
    BY <1>s DEF IInv, SafeInv, EmptyInv, Alive
  <1>3. StacksTracked'
    BY <1>s DEF IInv, SafeInv, StacksTracked, Tracked, Alive
  <1>4. StoppedMeansDown'
    BY <1>s DEF IInv, SafeInv, StoppedMeansDown, Alive
  <1>5. QED BY <1>1, <1>2, <1>3, <1>4 DEF SafeInv

\* Whoever takes the lock is alone, or the operations are no longer serialised.
LEMMA SafeTakeLock ==
    ASSUME IInv, NEW o \in Op, TakeLock(o)
    PROVE  SafeInv'
  <1> SUFFICES ASSUME Serialised' PROVE SafeInv'
    BY DEF SafeInv, OpenInv, EmptyInv, StacksTracked, StoppedMeansDown
  <1> USE DEF TakeLock, fileVars, stackVars
  <1>1. Serialised /\ \A p \in Op : op[p].pc \notin Open
    BY DEF Serialised
  <1>2. /\ op'[o].pc \in {"check", "kill"}
        /\ \A p \in Op \ {o} : op'[p] = op[p]
    BY DEF IInv, TypeOK, Goto, OpRecord
  <1>3. OpenInv'
    BY <1>1, <1>2 DEF OpenInv, Open
  <1>4. EmptyInv'
    BY <1>1, <1>2 DEF IInv, SafeInv, EmptyInv, Alive
  <1>5. StacksTracked'
    BY <1>1, <1>2 DEF IInv, SafeInv, StacksTracked, Tracked, Alive, Open
  <1>6. StoppedMeansDown'
    BY <1>1 DEF IInv, SafeInv, StoppedMeansDown, Alive
  <1>7. QED BY <1>3, <1>4, <1>5, <1>6 DEF SafeInv

\* The holder of the lock meets nobody who spawns.
LEMMA AloneLocked ==
    ASSUME IInv, Serialised, NEW o \in Op, op[o].pc \in Locked
    PROVE  /\ \A p \in Op : op[p].pc \notin Open
           /\ \A p \in Op : op[p].pc \in Locked => p = o
  BY NoneAssumption DEF IInv, LockInv, SafeInv, OpenInv

\* Check finds no pid file only when nothing lives.
LEMMA SafeCheck ==
    ASSUME IInv, NEW o \in Op, Check(o)
    PROVE  SafeInv'
  <1> SUFFICES ASSUME Serialised' PROVE SafeInv'
    BY DEF SafeInv, OpenInv, EmptyInv, StacksTracked, StoppedMeansDown
  <1> USE DEF Check, fileVars, stackVars, historyVars
  <1>1. Serialised /\ op[o].pc = "check"
    BY DEF Serialised
  <1>2. \A p \in Op : op[p].pc \notin Open
    BY <1>1, AloneLocked DEF Locked
  <1>3. /\ op'[o].pc \in {"ready", "kill", "ports"}
        /\ op'[o].pc = "ports" => pidFile = None
        /\ \A p \in Op \ {o} : op'[p] = op[p]
    BY DEF IInv, TypeOK, Goto, OpRecord
  <1>4. pidFile = None => \A s \in Stack : ~Alive(s)
    BY <1>1, <1>2, NoneAssumption DEF IInv, SafeInv, StacksTracked, Tracked, Open
  <1>5. OpenInv'
    BY <1>2, <1>3 DEF OpenInv, Open
  <1>6. EmptyInv'
    BY <1>1, <1>3, <1>4 DEF IInv, SafeInv, EmptyInv, Alive
  <1>7. StacksTracked'
    BY <1>1, <1>2, <1>3 DEF IInv, SafeInv, StacksTracked, Tracked, Alive, Open
  <1>8. StoppedMeansDown'
    BY <1>1 DEF IInv, SafeInv, StoppedMeansDown, Alive
  <1>9. QED BY <1>5, <1>6, <1>7, <1>8 DEF SafeInv

\* From the kill on nothing lives, and the pid file is gone.
LEMMA SafeKill ==
    ASSUME IInv, NEW o \in Op, Kill(o)
    PROVE  SafeInv'
  <1> SUFFICES ASSUME Serialised' PROVE SafeInv'
    BY DEF SafeInv, OpenInv, EmptyInv, StacksTracked, StoppedMeansDown
  <1> USE DEF Kill, Sweep, historyVars
  <1>1. Serialised /\ op[o].pc = "kill"
    BY DEF Serialised
  <1>2. \A p \in Op : op[p].pc \notin Open
    BY <1>1, AloneLocked DEF Locked
  <1>3. op'[o].pc = "report" /\ \A p \in Op \ {o} : op'[p] = op[p]
    BY DEF IInv, TypeOK, Goto, OpRecord
  <1>4. pidFile' = None /\ \A s \in Stack : ~Alive(s)'
    BY DEF Alive
  <1>5. OpenInv' BY <1>2, <1>3 DEF OpenInv, Open
  <1>6. EmptyInv' BY <1>4 DEF EmptyInv
  <1>7. StacksTracked' BY <1>4 DEF StacksTracked
  <1>8. StoppedMeansDown' BY <1>4 DEF StoppedMeansDown
  <1>9. QED BY <1>5, <1>6, <1>7, <1>8 DEF SafeInv

\* The report is true, the ports hold nothing of ours, the mark says "starting".
LEMMA SafeEmpty ==
    ASSUME IInv, NEW o \in Op, Report(o) \/ Ports(o) \/ Mark(o)
    PROVE  SafeInv'
  <1> SUFFICES ASSUME Serialised' PROVE SafeInv'
    BY DEF SafeInv, OpenInv, EmptyInv, StacksTracked, StoppedMeansDown
  <1> USE DEF Report, Ports, Mark, Sweep, WriteStatus, stackVars, historyVars
  <1>1. Serialised /\ op[o].pc \in {"report", "ports", "mark"}
    BY DEF Serialised, Succeeds, Fails
  <1>2. \A p \in Op : op[p].pc \notin Open
    BY <1>1, AloneLocked DEF Locked
  <1>3. pidFile = None /\ \A s \in Stack : ~Alive(s)
    BY <1>1 DEF IInv, SafeInv, EmptyInv
  <1>4. pidFile' = None /\ \A s \in Stack : ~Alive(s)'
    BY <1>3 DEF Alive, fileVars
  <1>5. /\ \A p \in Op \ {o} : op'[p] = op[p]
        /\ op'[o].pc \in Open => Mark(o)
    BY GotoFacts, EndFacts DEF IInv, TypeOK, OpRecord, Succeeds, Fails, Idle, Open
  <1>6. OpenInv'
    BY <1>2, <1>4, <1>5 DEF OpenInv
  <1>7. EmptyInv' BY <1>4 DEF EmptyInv
  <1>8. StacksTracked' BY <1>4 DEF StacksTracked
  <1>9. StoppedMeansDown' BY <1>4 DEF StoppedMeansDown
  <1>10. QED BY <1>6, <1>7, <1>8, <1>9 DEF SafeInv

\* The new stack is the only one, and its maker is about to write its pid.
LEMMA SafeSpawn ==
    ASSUME IInv, NEW o \in Op, Spawn(o)
    PROVE  SafeInv'
  <1> SUFFICES ASSUME Serialised' PROVE SafeInv'
    BY DEF SafeInv, OpenInv, EmptyInv, StacksTracked, StoppedMeansDown
  <1>1. PICK n \in Stack : /\ stack' = [stack EXCEPT ![n] = "booting"]
                          /\ op' = [op EXCEPT ![o].pc = "pid", ![o].made = n]
    BY DEF Spawn
  <1>2. /\ op[o].pc = "spawn" /\ Serialised
        /\ UNCHANGED <<lock, pidFile, status>>
    BY DEF Spawn, Serialised, fileVars, historyVars
  <1>3. /\ op'[o].pc = "pid" /\ op'[o].made = n
        /\ \A p \in Op \ {o} : op'[p] = op[p]
    BY <1>1 DEF IInv, TypeOK, OpRecord
  <1>4. /\ pidFile = None /\ lock = None /\ status # "stopped"
        /\ \A p \in Op \ {o} : op[p].pc \notin Open
        /\ \A s \in Stack : ~Alive(s)
    BY <1>2 DEF IInv, SafeInv, OpenInv, EmptyInv, Open
  <1>5. \A p \in Op : op[p].pc \notin Locked
    BY <1>4, NoneAssumption DEF IInv, LockInv
  <1>6. \A s \in Stack : Alive(s)' => s = n
    BY <1>1, <1>4 DEF IInv, TypeOK, Alive
  <1>7. OpenInv'
    BY <1>2, <1>3, <1>4 DEF OpenInv, Open
  <1>8. EmptyInv'
    BY <1>3, <1>4, <1>5 DEF EmptyInv, Open, Locked
  <1>9. StacksTracked'
    BY <1>3, <1>6 DEF StacksTracked, Tracked
  <1>10. StoppedMeansDown'
    BY <1>2, <1>4 DEF StoppedMeansDown
  <1>11. QED BY <1>7, <1>8, <1>9, <1>10 DEF SafeInv

\* The pid file takes over what its writer knew.
LEMMA SafeWritePid ==
    ASSUME IInv, NEW o \in Op, WritePid(o)
    PROVE  SafeInv'
  <1> SUFFICES ASSUME Serialised' PROVE SafeInv'
    BY DEF SafeInv, OpenInv, EmptyInv, StacksTracked, StoppedMeansDown
  <1>1. /\ op[o].pc = "pid" /\ Serialised /\ pidFile' = op[o].made
        /\ UNCHANGED <<lock, stack, status>>
    BY DEF WritePid, Serialised, stackVars, historyVars
  <1>2. /\ op'[o].pc = "running"
        /\ \A p \in Op \ {o} : op'[p] = op[p]
    BY DEF WritePid, IInv, TypeOK, OpRecord
  <1>3. /\ pidFile = None /\ lock = None /\ status # "stopped"
        /\ \A p \in Op \ {o} : op[p].pc \notin Open
    BY <1>1 DEF IInv, SafeInv, OpenInv, Open
  <1>4. \A p \in Op : op[p].pc \notin Locked
    BY <1>3, NoneAssumption DEF IInv, LockInv
  <1>5. \A s \in Stack : Alive(s) => s = op[o].made
    BY <1>1, <1>3, NoneAssumption DEF IInv, SafeInv, StacksTracked, Tracked, Open
  <1>6. OpenInv'
    BY <1>1, <1>2, <1>3 DEF OpenInv, Open
  <1>7. EmptyInv'
    BY <1>2, <1>3, <1>4 DEF EmptyInv, Open, Locked
  <1>8. StacksTracked'
    BY <1>1, <1>5 DEF StacksTracked, Tracked, Alive
  <1>9. StoppedMeansDown'
    BY <1>1, <1>3 DEF StoppedMeansDown
  <1>10. QED BY <1>6, <1>7, <1>8, <1>9 DEF SafeInv

\* Stacks boot, wedge and die, but none comes to life by itself.
LEMMA SafeStacks ==
    ASSUME IInv, UNCHANGED <<op, lock, pidFile, status, disturbed>>,
           \A s \in Stack : Alive(s)' => Alive(s)
    PROVE  SafeInv'
  BY DEF IInv, SafeInv, Serialised, OpenInv, EmptyInv, StacksTracked, StoppedMeansDown, Tracked

LEMMA SafeStep == IInv /\ [Next]_vars => SafeInv'
  <1> SUFFICES ASSUME IInv, [Next]_vars PROVE SafeInv'
    OBVIOUS
  <1> USE DEF fileVars, stackVars, historyVars, boundVars
  <1>t. TypeOK
    BY DEF IInv
  <1>1. ASSUME NEW o \in Op, LockFails(o) \/ Degrade(o) \/ CannotStart(o) PROVE SafeInv'
    BY <1>1, <1>t, EndFacts, SafeMove DEF LockFails, Degrade, CannotStart, Fails, WriteStatus, Idle
  <1>2. ASSUME NEW o \in Op, Ready(o) \/ Running(o) PROVE SafeInv'
    BY <1>2, <1>t, EndFacts, GotoFacts, SafeMove DEF Ready, Running, Succeeds, WriteStatus, Idle
  <1>3. ASSUME NEW o \in Op, Heal(o) PROVE SafeInv'
    <2>1. op'[o].pc = "kill" /\ \A p \in Op \ {o} : op'[p] = op[p]
      BY <1>3, <1>t DEF Heal, TypeOK, OpRecord
    <2>2. QED BY <1>3, <2>1, SafeMove DEF Heal
  <1>4. ASSUME NEW o \in Op, KillScript(o) PROVE SafeInv'
    <2>1. ~Serialised'
      BY <1>4 DEF KillScript, Serialised
    <2>2. QED BY <2>1 DEF SafeInv, OpenInv, EmptyInv, StacksTracked, StoppedMeansDown
  <1>5. ASSUME NEW o \in Op, NEW cmd, NEW by, Begin(o, cmd, by),
               UNCHANGED <<lock, pidFile, status, stack, disturbed>>
        PROVE  SafeInv'
    BY <1>5, <1>t, BeginFacts, SafeMove
  <1>6. CASE HostStep \/ CronStep
    <2>1. CASE op' = op BY <1>6, <2>1, WatchFrame, SafeStacks DEF Alive
    <2>2. CASE op' # op BY <1>5, <1>6, <2>2, WatchFrame
    <2>3. QED BY <2>1, <2>2
  <1>7. ASSUME NEW o \in Op, NEW cmd \in Command, Operate(o, cmd) PROVE SafeInv'
    BY <1>5, <1>7 DEF Operate
  <1>8. ASSUME NEW s \in Stack, StackStep(s) PROVE SafeInv'
    BY <1>8, <1>t, SafeStacks
       DEF StackStep, Boot, Wedge, StackDies, LeaderDies, StackFrame, Alive, TypeOK
  <1>9. CASE ForeignTakes \/ ForeignLeaves \/ StatusAges \/ UNCHANGED vars
    BY <1>9, SafeStacks DEF ForeignTakes, ForeignLeaves, StatusAges, StackFrame, Alive, vars
  <1>10. CASE Reboot
    BY <1>10 DEF Reboot, SafeInv, OpenInv, EmptyInv, StacksTracked, StoppedMeansDown, Open,
                Idle, Alive
  <1>11. QED
    BY <1>1, <1>2, <1>3, <1>4, <1>6, <1>7, <1>8, <1>9, <1>10, SafeTakeLock, SafeCheck, SafeKill,
       SafeEmpty, SafeSpawn, SafeWritePid
       DEF Next, OpStep, WorldStep

-----------------------------------------------------------------------------
(***************************************************************************)
(* What the operator stopped stays down.                                   *)
(***************************************************************************)

\* At rest, only the operator and the watchdogs' looking can take a step.
LEMMA QuietOps ==
    ASSUME IInv, intent = "stopped", disturbed = {}, intent' = "stopped", disturbed' = {},
           NEW o \in Op, OpStep(o) \/ CannotStart(o) \/ KillScript(o)
    PROVE  QuietInv'
  <1>1. op[o].pc \in {"idle", "lock"} /\ op[o].by = "operator"
    BY DEF IInv, QuietInv
  <1>2. LockFails(o)
    BY <1>1 DEF OpStep, TakeLock, Check, Kill, Report, Ports, Mark, Spawn, WritePid, Running,
                Ready, Heal, Degrade, CannotStart, KillScript
  <1>3. \A p \in Op : op'[p] \in {op[p], Idle}
    BY <1>2, EndFacts DEF IInv, LockFails, Fails
  <1>4. UNCHANGED <<fileVars, stackVars, plan>>
    BY <1>2 DEF LockFails
  <1>5. QED BY <1>3, <1>4 DEF IInv, QuietInv, Idle, fileVars, stackVars, Alive

\* A watchdog that looks at a stopped shop goes away again.
LEMMA QuietWatch ==
    ASSUME IInv, intent = "stopped", disturbed = {}, HostStep \/ CronStep
    PROVE  QuietInv'
  <1> USE DEF fileVars, stackVars, historyVars, boundVars
  <1>1. /\ plan["host"] \in {"none", "any"} /\ plan["cron"] = "none"
        /\ status = "stopped" /\ desired = "stopped"
        /\ plan \in [Watchdog -> {"none", "up", "any", "probe", "start", "wake", "restart"}]
    BY DEF IInv, TypeOK, QuietInv
  <1>2. ~LookCron /\ ~Probe("host") /\ ~Probe("cron")
        /\ \A o \in Op : ~Act("host", o) /\ ~Act("cron", o)
    BY <1>1 DEF LookCron, Probe, Sees, Act
  <1>3. ASSUME ReadDesired \/ ReadStatus
        PROVE  /\ plan'["host"] \in {"none", "any"} /\ plan'["cron"] = "none"
               /\ UNCHANGED <<op, status, desired, stack>>
    BY <1>1, <1>3 DEF ReadDesired, ReadStatus, Sees, Watchdog
  <1>4. QED BY <1>2, <1>3 DEF HostStep, CronStep, IInv, QuietInv, Alive

\* The operator's stop leaves everything at rest, unless it was disturbed.
LEMMA QuietStop ==
    ASSUME IInv, NEW o \in Op, Succeeds(o), op[o].by = "operator",
           Report(o), intent' = "stopped", disturbed' = {}
    PROVE  QuietInv'
  <1>1. /\ \A p \in Op \ {o} : op[p].pc = "idle" /\ op'[p] = op[p]
        /\ \A w \in Watchdog : plan[w] = "none"
        /\ op'[o] = Idle
        /\ disturbed = {}
    BY EndFacts DEF IInv, Succeeds
  <1>2. \A p \in Op : op'[p].pc = "idle" /\ op'[p].by = "operator"
    BY <1>1 DEF IInv, CommandInv, Idle
  <1>3. plan'["host"] = "none" /\ plan'["cron"] = "none"
    BY <1>1 DEF Report, Watchdog
  <1>4. \A s \in Stack : ~Alive(s)
    BY <1>1 DEF IInv, SafeInv, EmptyInv, Serialised, Report
  <1>5. status' = "stopped" /\ desired' = "stopped" /\ stack' = stack
    BY DEF Report, WriteStatus, stackVars
  <1>6. QED BY <1>2, <1>3, <1>4, <1>5 DEF QuietInv, Alive

LEMMA QuietStep == IInv /\ [Next]_vars => QuietInv'
  <1> SUFFICES ASSUME IInv, [Next]_vars, intent' = "stopped", disturbed' = {}
               PROVE  QuietInv'
    BY DEF QuietInv
  <1> USE DEF fileVars, stackVars, historyVars, boundVars
  <1>1. CASE intent = "stopped" /\ disturbed = {}
    <2>1. ASSUME NEW o \in Op, NEW cmd \in Command, Operate(o, cmd) PROVE QuietInv'
      BY <1>1, <2>1, BeginFacts DEF Operate, IInv, QuietInv, Alive
    <2>2. ASSUME NEW s \in Stack, StackStep(s) PROVE QuietInv'
      BY <1>1, <2>2 DEF IInv, QuietInv, StackStep, Boot, Wedge, StackDies, LeaderDies, Alive
    <2>3. CASE ForeignTakes \/ ForeignLeaves \/ StatusAges \/ UNCHANGED vars
      BY <1>1, <2>3
         DEF IInv, QuietInv, ForeignTakes, ForeignLeaves, StatusAges, StackFrame, Alive, vars
    <2>4. CASE Reboot
      BY <1>1, <2>4 DEF IInv, QuietInv, Reboot, Idle, Alive, Watchdog
    <2>5. QED BY <1>1, <2>1, <2>2, <2>3, <2>4, QuietOps, QuietWatch DEF Next, WorldStep
  <1>2. CASE ~(intent = "stopped" /\ disturbed = {})
    <2>1. PICK o \in Op : OpStep(o) /\ <<intent, disturbed>>' # <<intent, disturbed>>
      BY <1>2, WatchFrame
         DEF Next, WorldStep, Operate, StackStep, Boot, Wedge, StackDies, LeaderDies, StackFrame,
             ForeignTakes, ForeignLeaves, StatusAges, Reboot, CannotStart, KillScript, Fails, vars
    <2>2. TakeLock(o) \/ (Succeeds(o) /\ (Report(o) \/ Ready(o)))
      BY <2>1 DEF OpStep, LockFails, Check, Kill, Report, Ports, Mark, Spawn, WritePid, Running,
                  Ready, Heal, Degrade, Fails
    <2>3. ~TakeLock(o)
      BY <1>2, <2>1 DEF TakeLock
    <2>4. op[o].by = "operator" /\ op[o].cmd = "stop"
      BY <1>2, <2>1, <2>2, <2>3 DEF Succeeds
    <2>5. ~Ready(o)
      BY <2>4 DEF Ready, IInv, CommandInv
    <2>6. QED BY <2>2, <2>3, <2>4, <2>5, QuietStop
  <1>3. QED BY <1>1, <1>2

-----------------------------------------------------------------------------
(***************************************************************************)
(* The theorems.                                                           *)
(***************************************************************************)
LEMMA InvNext == IInv /\ [Next]_vars => IInv'
  BY TypeNext, LockStep, CommandStep, SafeStep, QuietStep DEF IInv

\* The inductive invariant of the life cycle holds in every reachable state.
THEOREM Invariance == Spec => []IInv
  BY InvInit, InvNext, PTL DEF Spec

\* Files, stacks, ports, operations and watchdogs keep to their types.
THEOREM TypeCorrect == Spec => []TypeOK
  <1>1. IInv => TypeOK BY DEF IInv
  <1>2. QED BY <1>1, Invariance, PTL

\* Serialised operations leave one live stack at most, and dev.pid names it.
THEOREM Tracking == Spec => []StacksTracked
  <1>1. IInv => StacksTracked BY DEF IInv, SafeInv
  <1>2. QED BY <1>1, Invariance, PTL

\* Serialised, "stopped" in status.json means that no server is left.
THEOREM StoppedIsTrue == Spec => []StoppedMeansDown
  <1>1. IInv => StoppedMeansDown BY DEF IInv, SafeInv
  <1>2. QED BY <1>1, Invariance, PTL

\* No watchdog brings up what an operator's undisturbed stop took down.
THEOREM StopSticks == Spec => []OperatorStopSticks
  <1>1. IInv => OperatorStopSticks
    BY DEF IInv, QuietInv, OperatorStopSticks, Watchdog
  <1>2. QED BY <1>1, Invariance, PTL

=============================================================================
