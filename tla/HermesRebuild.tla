--------------------------- MODULE HermesRebuild ---------------------------
(***************************************************************************)
(* Rebuilding the container Fox lives in: the guarded, detached launch     *)
(* (hermes-rebuild-bridge.sh) and the rebuild with its rollback            *)
(* (vulpy-hermes-rebuild.sh).                                              *)
(*                                                                         *)
(* Everything here is a process of its own that shares the image name, the *)
(* container and the process table with the others: a guard is one look,   *)
(* and what it found may be gone at the next line.  A step is one command  *)
(* that other processes can see.  Processes have numbers, given in turn.   *)
(*                                                                         *)
(* A container that docker does not list as running is no container: the   *)
(* health check does not find it and the clean-up removes it.  Companion   *)
(* containers count as far as "compose up" fails with them.                *)
(***************************************************************************)
EXTENDS Integers

CONSTANTS
    Bridge,     \* processes of hermes-rebuild-bridge.sh, queued waiters included
    Rebuild,    \* processes of vulpy-hermes-rebuild.sh
    None,       \* no image, no container, no builder
    MaxFaults   \* bound: commands that fail, signals

ASSUME ProcessAssumption == Bridge \subseteq Nat /\ Rebuild \subseteq Nat
ASSUME NoneAssumption == None \notin Rebuild
ASSUME FaultsAssumption == MaxFaults \in Nat

VARIABLES
    tag,        \* the image IMAGE_NAME names
    container,  \* the image the running hermes container was created from, or None
    active,     \* was a file of the WebUI's sessions touched in the last 15 minutes
    bridge,     \* bridge[b]: the point it has come to
    rebuild,    \* rebuild[r]: the point it has come to and its shell variables
    faults,     \* faults so far
    harmed,     \* history: a fault the rollback does not survive has happened
    overlapped, \* history: two rebuilds have run at a time
    raced,      \* history: two bridges have been between guard 2 and the launch
    lateChat    \* history: the chat that is active began after a bridge had looked

stackVars == <<tag, container>>
elsewhere == <<stackVars, active, faults, harmed, lateChat>>  \* what no bridge changes
vars == <<tag, container, active, bridge, rebuild, faults, harmed, overlapped, raced, lateChat>>

\* A poison image cannot create a container; a sick one creates it and never
\* passes the health check.
Quality == {"good", "sick", "poison"}
Image == [by : Rebuild \cup {None}, quality : Quality]
FirstImage == [by |-> None, quality |-> "good"]

ASSUME NoImageAssumption == None \notin Image

WaiterPoint == {"poll", "look", "recheck"}
BridgePoint == WaiterPoint \cup {"idle", "ask", "dup", "queue", "guard", "check", "launch", "ended"}

\* "wait": --wait is in its arguments; "waiter": it is the queued one; "late": its
\* deadline has passed.
BridgeRecord == [pc : BridgePoint, wait : BOOLEAN, waiter : BOOLEAN, late : BOOLEAN]
NoBridge == [pc |-> "idle", wait |-> FALSE, waiter |-> FALSE, late |-> FALSE]

Deploying == {"sums", "backup", "build", "smoke", "down", "mark", "up", "health"}
RollingBack == {"restore", "redown", "reup"}
Finished == {"succeeded", "failed", "gone"}
RebuildPoint == Deploying \cup RollingBack \cup Finished \cup {"idle"}

\* "backup": what the backup tag names, None while BACKUP_TAGGED=0; "stopped":
\* STACK_STOPPED; "byHand": no bridge launched it; "failed": history, which of its
\* commands that stop and start the stack failed.
RebuildRecord == [pc : RebuildPoint, backup : Image \cup {None}, stopped : BOOLEAN,
                  byHand : BOOLEAN, failed : SUBSET {"down", "up"}]
NoRebuild == [pc |-> "idle", backup |-> None, stopped |-> FALSE, byHand |-> FALSE, failed |-> {}]

NextBridge(b)  == bridge[b].pc = "idle" /\ \A c \in Bridge : c < b => bridge[c].pc # "idle"
NextRebuild(r) == rebuild[r].pc = "idle" /\ \A q \in Rebuild : q < r => rebuild[q].pc # "idle"

Running == {r \in Rebuild : rebuild[r].pc \in Deploying \cup RollingBack}

TypeOK ==
    /\ tag \in Image
    /\ container \in Image \cup {None}
    /\ active \in BOOLEAN
    /\ bridge \in [Bridge -> BridgeRecord]
    /\ rebuild \in [Rebuild -> RebuildRecord]
    /\ faults \in 0 .. MaxFaults
    /\ harmed \in BOOLEAN
    /\ overlapped \in BOOLEAN
    /\ raced \in BOOLEAN
    /\ lateChat \in BOOLEAN

Init ==
    /\ tag = FirstImage
    /\ container = FirstImage
    /\ active \in BOOLEAN
    /\ bridge = [b \in Bridge |-> NoBridge]
    /\ rebuild = [r \in Rebuild |-> NoRebuild]
    /\ faults = 0
    /\ harmed = FALSE
    /\ overlapped = FALSE
    /\ raced = FALSE
    /\ lateChat = FALSE

Fault == faults < MaxFaults /\ faults' = faults + 1

-----------------------------------------------------------------------------
(***************************************************************************)
(* The bridge: two guards, then a detached launch or a queued waiter       *)
(***************************************************************************)
Move(b, point) == bridge' = [bridge EXCEPT ![b].pc = point]

\* The processes that pgrep -f 'hermes-rebuild-bridge\.sh --wait' finds.
Waiting == {b \in Bridge : bridge[b].wait /\ bridge[b].pc \notin {"idle", "ended"}}

Call(b, wait) ==
    /\ NextBridge(b)
    /\ bridge' = [bridge EXCEPT ![b].pc = IF wait THEN "ask" ELSE "guard", ![b].wait = wait]
    /\ UNCHANGED rebuild

\* [ "${WAIT_MODE}" = "1" ] && session_active
Ask(b) ==
    /\ bridge[b].pc = "ask"
    /\ Move(b, IF active THEN "dup" ELSE "guard")
    /\ UNCHANGED rebuild

\* Mutant: only waiters already queued count.
DupOfWaiter(b) ==
    /\ bridge[b].pc = "dup"
    /\ Move(b, IF \E c \in Waiting : bridge[c].waiter THEN "ended" ELSE "queue")
    /\ UNCHANGED rebuild

\* The guard against a second waiter excludes only the caller itself: two calls
\* that wait refuse each other.
Dup(b) ==
    /\ bridge[b].pc = "dup"
    /\ Move(b, IF Waiting \ {b} # {} THEN "ended" ELSE "queue")
    /\ UNCHANGED rebuild

Queue(b) ==
    /\ bridge[b].pc = "queue"
    /\ \E c \in Bridge :
          /\ NextBridge(c)
          /\ bridge' = [bridge EXCEPT ![b].pc = "ended",
                                      ![c] = [NoBridge EXCEPT !.pc = "poll", !.wait = TRUE, !.waiter = TRUE]]
    /\ UNCHANGED rebuild

\* Mutant: find -mmin 15, which matches an age of exactly 15 minutes.
GuardBlind(b) ==
    /\ bridge[b].pc = "guard"
    /\ Move(b, "check")
    /\ UNCHANGED rebuild

\* Guard 1 of the immediate path: a second look, also after --wait.
Guard(b) ==
    /\ bridge[b].pc = "guard"
    /\ Move(b, IF active THEN "ended" ELSE "check")
    /\ UNCHANGED rebuild

\* The waiter's loop: the deadline, the session, guard 2.
Poll(b) ==
    /\ bridge[b].pc = "poll"
    /\ Move(b, IF bridge[b].late THEN "ended" ELSE "look")
    /\ UNCHANGED rebuild

\* Mutant: while the session is active the deadline is not looked at.
LookAgain(b) ==
    /\ bridge[b].pc = "look"
    /\ Move(b, IF active THEN "look" ELSE "recheck")
    /\ UNCHANGED rebuild

Look(b) ==
    /\ bridge[b].pc = "look"
    /\ Move(b, IF active THEN "poll" ELSE "recheck")
    /\ UNCHANGED rebuild

Recheck(b) ==
    /\ bridge[b].pc = "recheck"
    /\ Move(b, IF Running # {} THEN "ended" ELSE "check")
    /\ UNCHANGED rebuild

\* Mutant: launch_rebuild relies on the guards before it.
CheckNothing(b) ==
    /\ bridge[b].pc = "check"
    /\ Move(b, "launch")
    /\ UNCHANGED rebuild

\* launch_rebuild: guard 2 ...
Check(b) ==
    /\ bridge[b].pc = "check"
    /\ Move(b, IF Running # {} THEN "ended" ELSE "launch")
    /\ UNCHANGED rebuild

\* ... and, later, the launch.
Launch(b) ==
    /\ bridge[b].pc = "launch"
    /\ Move(b, "ended")
    /\ \E r \in Rebuild :
          /\ NextRebuild(r)
          /\ rebuild' = [rebuild EXCEPT ![r].pc = "sums"]

Expire(b) ==
    /\ bridge[b].pc \in WaiterPoint
    /\ ~bridge[b].late
    /\ bridge' = [bridge EXCEPT ![b].late = TRUE]
    /\ UNCHANGED rebuild

Waiter(b) == Poll(b) \/ Look(b) \/ Recheck(b) \/ Check(b) \/ Launch(b)

BridgeStep(b) ==
    /\ \/ \E wait \in BOOLEAN : Call(b, wait)
       \/ Ask(b) \/ Dup(b) \/ Queue(b) \/ Guard(b) \/ Waiter(b) \/ Expire(b)
    /\ UNCHANGED elsewhere

-----------------------------------------------------------------------------
(***************************************************************************)
(* The rebuild                                                             *)
(***************************************************************************)
Go(r, point) == rebuild' = [rebuild EXCEPT ![r].pc = point]

\* pnpm vulpy hermes up with a stale image, or the operator: no guard.
RunByHand(r) ==
    /\ NextRebuild(r)
    /\ rebuild' = [rebuild EXCEPT ![r].pc = "sums", ![r].byHand = TRUE]
    /\ UNCHANGED <<stackVars, faults, harmed>>

Checksums(r) ==
    /\ rebuild[r].pc = "sums"
    /\ \/ Go(r, "backup") /\ UNCHANGED faults
       \/ Go(r, "restore") /\ Fault
    /\ UNCHANGED <<stackVars, harmed>>

\* The image of the container that runs gets the backup tag; without one, or if
\* the tagging fails, the rebuild goes on and will not be able to roll back.
Backup(r) ==
    /\ rebuild[r].pc = "backup"
    /\ \/ /\ rebuild' = [rebuild EXCEPT ![r].pc = "build", ![r].backup = container]
          /\ UNCHANGED <<faults, harmed>>
       \/ Go(r, "build") /\ Fault /\ harmed' = TRUE
    /\ UNCHANGED stackVars

\* compose build moves the name to the image it made, or fails and leaves it.
Build(r) ==
    /\ rebuild[r].pc = "build"
    /\ \/ /\ \E quality \in Quality : tag' = [by |-> r, quality |-> quality]
          /\ Go(r, "smoke")
       \/ Go(r, "restore") /\ UNCHANGED tag
    /\ UNCHANGED <<container, faults, harmed>>

\* Mutant: the outcome of docker create is lost in the pipe.
SmokeUnseen(r) ==
    /\ rebuild[r].pc = "smoke"
    /\ Go(r, "down")
    /\ UNCHANGED <<stackVars, faults, harmed>>

\* docker create of whatever the name names by now.
Smoke(r) ==
    /\ rebuild[r].pc = "smoke"
    /\ \/ tag.quality # "poison" /\ Go(r, "down") /\ UNCHANGED faults
       \/ tag.quality = "poison" /\ Go(r, "restore") /\ UNCHANGED faults
       \/ tag.quality # "poison" /\ Go(r, "restore") /\ Fault
    /\ UNCHANGED <<stackVars, harmed>>

\* compose down ... || true
Down(r) ==
    /\ rebuild[r].pc = "down"
    /\ \/ container' = None /\ Go(r, "mark") /\ UNCHANGED faults
       \/ /\ UNCHANGED container /\ Fault
          /\ rebuild' = [rebuild EXCEPT ![r].pc = "mark", ![r].failed = @ \cup {"down"}]
    /\ UNCHANGED <<tag, harmed>>

\* STACK_STOPPED=1, then the clean-up of containers that do not run.
Mark(r) ==
    /\ rebuild[r].pc = "mark"
    /\ rebuild' = [rebuild EXCEPT ![r].pc = "up", ![r].stopped = TRUE]
    /\ UNCHANGED <<stackVars, faults, harmed>>

\* compose up -d: the container is created, or replaced by one of the named image.
UpWorks == tag.quality # "poison" /\ container' = tag /\ UNCHANGED faults

\* Both tries failed: on a poison image, before hermes was started, or after it.
UpFails ==
    \/ tag.quality = "poison" /\ UNCHANGED <<container, faults>>
    \/ tag.quality # "poison" /\ container' \in {container, tag} /\ Fault

\* Mutant: a container that runs is left alone.
UpIfDown(r) ==
    /\ rebuild[r].pc = "up"
    /\ container' = (IF container = None /\ tag.quality # "poison" THEN tag ELSE container)
    /\ Go(r, "health")
    /\ UNCHANGED <<tag, faults, harmed>>

\* A failure is only reported: the health check decides.
Up(r) ==
    /\ rebuild[r].pc = "up"
    /\ \/ UpWorks /\ Go(r, "health")
       \/ UpFails /\ rebuild' = [rebuild EXCEPT ![r].pc = "health", ![r].failed = @ \cup {"up"}]
    /\ UNCHANGED <<tag, harmed>>

\* Mutant: a container that runs is healthy.
HealthyIfRunning(r) ==
    /\ rebuild[r].pc = "health"
    /\ Go(r, IF container # None THEN "succeeded" ELSE "restore")
    /\ UNCHANGED <<stackVars, faults, harmed>>

\* The log of the container that runs, whichever it is.  A fault: 300 s were not
\* enough, or grep -q closed the pipe on docker logs and pipefail made it a miss.
Health(r) ==
    /\ rebuild[r].pc = "health"
    /\ IF container # None /\ container.quality = "good"
       THEN \/ Go(r, "succeeded") /\ UNCHANGED faults
            \/ Go(r, "restore") /\ Fault
       ELSE Go(r, "restore") /\ UNCHANGED faults
    /\ UNCHANGED <<stackVars, harmed>>

\* Mutant: the name is put back only when the stack has been stopped.
RestoreIfStopped(r) ==
    /\ rebuild[r].pc = "restore"
    /\ tag' = IF rebuild[r].stopped /\ rebuild[r].backup # None THEN rebuild[r].backup ELSE tag
    /\ Go(r, IF rebuild[r].stopped /\ rebuild[r].backup # None THEN "redown" ELSE "failed")
    /\ UNCHANGED <<container, faults, harmed>>

\* Mutant: the backup is put back whether there is one or not.
RestoreBlindly(r) ==
    /\ rebuild[r].pc = "restore"
    /\ tag' = rebuild[r].backup
    /\ Go(r, IF rebuild[r].stopped THEN "redown" ELSE "failed")
    /\ UNCHANGED <<container, faults, harmed>>

\* rollback, from the EXIT trap: docker tag ... || true.
Restore(r) ==
    LET q == rebuild[r] IN
    /\ q.pc = "restore"
    /\ \/ q.backup = None /\ Go(r, "failed") /\ UNCHANGED <<tag, faults, harmed>>
       \/ /\ q.backup # None
          /\ Go(r, IF q.stopped THEN "redown" ELSE "failed")
          /\ \/ tag' = q.backup /\ UNCHANGED <<faults, harmed>>
             \/ UNCHANGED tag /\ Fault /\ harmed' = TRUE
    /\ UNCHANGED container

Redown(r) ==
    /\ rebuild[r].pc = "redown"
    /\ \/ container' = None /\ UNCHANGED faults
       \/ UNCHANGED container /\ Fault
    /\ Go(r, "reup")
    /\ UNCHANGED <<tag, harmed>>

Reup(r) ==
    /\ rebuild[r].pc = "reup"
    /\ \/ UpWorks /\ UNCHANGED harmed
       \/ UpFails /\ harmed' = TRUE
    /\ Go(r, "failed")
    /\ UNCHANGED tag

\* SIGINT, SIGTERM: the EXIT trap runs.  After "compose down" and before
\* STACK_STOPPED=1 it will leave the stack as it is.
Terminate(r) ==
    /\ rebuild[r].pc \in Deploying
    /\ Go(r, "restore")
    /\ Fault
    /\ harmed' = (harmed \/ rebuild[r].pc = "mark")
    /\ UNCHANGED stackVars

\* SIGKILL, a signal in the trap: nothing runs any more.
Kill(r) ==
    /\ r \in Running
    /\ Go(r, "gone")
    /\ Fault
    /\ harmed' = (harmed \/ rebuild[r].pc \notin {"sums", "backup", "build"})
    /\ UNCHANGED stackVars

RebuildStep(r) ==
    /\ \/ RunByHand(r) \/ Checksums(r) \/ Backup(r) \/ Build(r) \/ Smoke(r) \/ Down(r) \/ Mark(r)
       \/ Up(r) \/ Health(r) \/ Restore(r) \/ Redown(r) \/ Reup(r) \/ Terminate(r) \/ Kill(r)
    /\ UNCHANGED <<active, bridge, lateChat>>

-----------------------------------------------------------------------------
(***************************************************************************)
(* Chats, and the specification                                            *)
(***************************************************************************)
\* Has a bridge had its last look at the sessions, or is a rebuild under way?
Decided == Running # {} \/ \E b \in Bridge : bridge[b].pc \in {"recheck", "check", "launch"}

\* A chat in the WebUI writes its session; 15 minutes without one.
Chat ==
    /\ ~active
    /\ container # None /\ container.quality = "good"
    /\ active' = TRUE
    /\ lateChat' = Decided
    /\ UNCHANGED <<stackVars, bridge, rebuild, faults, harmed>>

ChatAges ==
    /\ active
    /\ active' = FALSE
    /\ lateChat' = FALSE
    /\ UNCHANGED <<stackVars, bridge, rebuild, faults, harmed>>

\* The histories, kept up with where a step has brought the processes.
Observe ==
    /\ overlapped' = (overlapped \/ \E r, q \in Rebuild :
           /\ r # q
           /\ rebuild'[r].pc \in Deploying \cup RollingBack
           /\ rebuild'[q].pc \in Deploying \cup RollingBack)
    /\ raced' = (raced \/ \E b, c \in Bridge :
           b # c /\ bridge'[b].pc = "launch" /\ bridge'[c].pc = "launch")

Next ==
    /\ \/ \E b \in Bridge : BridgeStep(b)
       \/ \E r \in Rebuild : RebuildStep(r)
       \/ Chat
       \/ ChatAges
    /\ Observe

\* A queued waiter runs on and time passes; nobody has to call, no chat has to end.
Fairness == \A b \in Bridge :
    /\ WF_vars(Waiter(b) /\ UNCHANGED elsewhere /\ Observe)
    /\ WF_vars(Expire(b) /\ UNCHANGED elsewhere /\ Observe)

Spec == Init /\ [][Next]_vars /\ Fairness

-----------------------------------------------------------------------------
(***************************************************************************)
(* What Fox, its users and the operator may rely on                        *)
(***************************************************************************)
Good(image) == image # None /\ image.quality = "good"

\* The safety model: whatever fails, when no rebuild runs the stack serves.  Not
\* covered: rebuilds that overlap, a backup that could not be tagged or put
\* back, a stack that does not start again, SIGKILL, and a signal between
\* "compose down" and STACK_STOPPED=1.
ServesAfterwards == Running = {} /\ ~harmed /\ ~overlapped => Good(container)

\* And what runs is what the name names, so that the next "up" changes nothing,
\* unless a rebuild succeeded whose "down" and "up" had both failed.
NameIsWhatRuns ==
    Running = {} /\ ~harmed /\ ~overlapped =>
        \/ tag = container
        \/ \E r \in Rebuild : rebuild[r].pc = "succeeded" /\ rebuild[r].failed = {"down", "up"}

\* While a poison image has the name, the stack is up: the smoke test comes first.
PoisonNeverStopsStack == ~harmed /\ ~overlapped /\ tag.quality = "poison" => container # None

\* Two rebuilds at a time: only two bridges between guard 2 and the launch, or
\* one that was started by hand.
OneRebuildUnlessRaced ==
    ~raced /\ (\A r \in Rebuild : ~rebuild[r].byHand) =>
        \A r, q \in Running : r = q

\* The queue has one place, without a lock.
OneWaiter ==
    \A b, c \in Bridge :
        /\ bridge[b].waiter /\ bridge[b].pc # "ended"
        /\ bridge[c].waiter /\ bridge[c].pc # "ended"
        => b = c

\* A rebuild that reports success has put its own image into service, unless it
\* could neither stop nor start the stack, or another rebuild came between.
SuccessIsNew ==
    [][\A r \in Rebuild :
          rebuild[r].pc = "health" /\ rebuild'[r].pc = "succeeded" =>
              container.by = r \/ rebuild[r].failed = {"down", "up"} \/ overlapped]_vars

\* A chat that was there before any bridge had its last look is not torn down.
ChatsKept ==
    [][active /\ container # None /\ container' # container =>
          lateChat \/ \E r \in Rebuild : rebuild[r].byHand]_vars

\* A queued rebuild ends: it launches, refuses or gives up.
WaiterEnds == \A b \in Bridge : bridge[b].waiter ~> bridge[b].pc = "ended"
=============================================================================
