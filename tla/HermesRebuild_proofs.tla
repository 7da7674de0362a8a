----------------------- MODULE HermesRebuild_proofs -----------------------
(***************************************************************************)
(* Proofs about the rebuild of the Hermes container, for any number of     *)
(* bridges, rebuilds and faults.                                           *)
(*                                                                         *)
(* The guards look at the process table; what makes them exclude anything  *)
(* is who counts as running while others are between guard and launch.     *)
(* The rollback works from shell variables; what makes it sufficient is    *)
(* that, alone and unharmed, a rebuild always holds an image that serves:  *)
(* in the container, in its backup tag, or in both.                        *)
(***************************************************************************)
EXTENDS HermesRebuild, TLAPS

ByHand == \E r \in Rebuild : rebuild[r].byHand

\* The place in the queue: taken by a caller past the guard, then by the waiter.
Queued(b) == bridge[b].pc = "queue" \/ (bridge[b].waiter /\ bridge[b].pc # "ended")

QueueInv ==
    /\ \A b \in Bridge :
          /\ bridge[b].pc \in {"ask", "dup", "queue"} => bridge[b].wait /\ ~bridge[b].waiter
          /\ bridge[b].pc = "idle" => ~bridge[b].waiter
          /\ bridge[b].waiter => bridge[b].wait
    /\ \A b, c \in Bridge : Queued(b) /\ Queued(c) => b = c

\* Unraced, who is past guard 2 is alone there and nothing runs.
LaunchInv ==
    ~raced =>
        /\ \A b, c \in Bridge : bridge[b].pc = "launch" /\ bridge[c].pc = "launch" => b = c
        /\ ~ByHand => /\ \A r, q \in Running : r = q
                      /\ \A b \in Bridge : bridge[b].pc = "launch" => Running = {}

\* A chat nobody has overlooked.
ChatInv == active /\ ~lateChat => ~Decided \/ ByHand

\* A rebuild alone finds under the name what it has built.
Placed(r) ==
    LET q == rebuild[r] IN
    /\ q.pc \in {"sums", "backup", "build", "smoke", "down"} => q.failed = {}
    /\ q.pc \in {"smoke", "down", "mark", "up", "health"} => tag.by = r
    /\ q.pc \in {"mark", "up"} => container = None \/ "down" \in q.failed
    /\ q.pc = "health" =>
          container = None \/ container.by = r \/ q.failed = {"down", "up"}

OwnInv ==
    /\ \A r \in Rebuild : rebuild[r].pc = "idle" => rebuild[r] = NoRebuild
    /\ ~overlapped => /\ \A r, q \in Running : r = q
                      /\ \A r \in Running : Placed(r)

\* A rebuild succeeded that could neither stop nor start the stack.
Unmoved == \E r \in Rebuild : rebuild[r].pc = "succeeded" /\ rebuild[r].failed = {"down", "up"}

\* The stack as no rebuild, or one that has changed nothing, leaves it.
AtRest == Good(container) /\ tag.quality # "poison" /\ (tag = container \/ Unmoved)

\* What the one rebuild that runs can fall back on.
Fallback(r) ==
    LET q == rebuild[r] IN
    /\ q.backup = None =>
          q.pc \in {"sums", "backup", "restore"} /\ ~q.stopped /\ AtRest
    /\ q.backup # None => Good(q.backup)
    /\ q.pc \in {"sums", "backup"} => q.backup = None
    /\ q.pc \in {"sums", "backup", "build"} => AtRest
    /\ q.pc \in {"build", "smoke", "down"} \/ (q.pc = "restore" /\ ~q.stopped /\ q.backup # None) =>
          container = q.backup
    /\ q.pc \in {"down", "mark", "up", "health", "redown", "reup"} \/ q.stopped => tag.quality # "poison"
    /\ q.pc \in {"sums", "backup", "build", "smoke", "down", "mark"} => ~q.stopped
    /\ q.pc \in {"up", "health", "redown", "reup"} => q.stopped
    /\ q.pc \in {"redown", "reup"} => tag = q.backup
    /\ q.pc \in {"mark", "up"} => container \in {None, q.backup}
    /\ q.pc = "health" =>
          container \in {None, tag} \/ (container = q.backup /\ q.failed = {"down", "up"})

SoloInv ==
    ~harmed /\ ~overlapped =>
        /\ Running = {} => AtRest
        /\ \A r \in Running : Fallback(r)

IInv == TypeOK /\ QueueInv /\ LaunchInv /\ ChatInv /\ OwnInv /\ SoloInv

-----------------------------------------------------------------------------
(***************************************************************************)
(* Type correctness.                                                       *)
(***************************************************************************)
LEMMA TypeInit == Init => TypeOK
  <1>1. FirstImage \in Image BY DEF FirstImage, Image, Quality
  <1>2. NoBridge \in BridgeRecord BY DEF NoBridge, BridgeRecord, BridgePoint
  <1>3. NoRebuild \in RebuildRecord BY DEF NoRebuild, RebuildRecord, RebuildPoint
  <1>4. 0 \in 0 .. MaxFaults BY FaultsAssumption
  <1>5. QED BY <1>1, <1>2, <1>3, <1>4 DEF Init, TypeOK

LEMMA MoveType ==
    ASSUME TypeOK, NEW b \in Bridge, NEW point \in BridgePoint, Move(b, point)
    PROVE  bridge' \in [Bridge -> BridgeRecord]
  BY DEF TypeOK, Move, BridgeRecord

LEMMA GoType ==
    ASSUME TypeOK, NEW r \in Rebuild, NEW point \in RebuildPoint, Go(r, point)
    PROVE  rebuild' \in [Rebuild -> RebuildRecord]
  BY DEF TypeOK, Go, RebuildRecord

\* Each step of a bridge moves it, or does one of three other things.
LEMMA BridgeMoves ==
    ASSUME NEW b \in Bridge, BridgeStep(b)
    PROVE  \/ \E wait \in BOOLEAN : Call(b, wait)
           \/ Queue(b)
           \/ Launch(b)
           \/ Expire(b)
           \/ /\ \E point \in BridgePoint : Move(b, point)
              /\ UNCHANGED rebuild
  BY DEF BridgeStep, Waiter, Ask, Dup, Guard, Poll, Look, Recheck, Check, BridgePoint, WaiterPoint

LEMMA TypeBridge ==
    ASSUME TypeOK, NEW b \in Bridge, BridgeStep(b)
    PROVE  /\ bridge' \in [Bridge -> BridgeRecord] /\ rebuild' \in [Rebuild -> RebuildRecord]
           /\ UNCHANGED elsewhere
  <1>u. UNCHANGED elsewhere BY DEF BridgeStep
  <1>p. {"ask", "guard", "ended", "poll"} \subseteq BridgePoint /\ "sums" \in RebuildPoint
    BY DEF BridgePoint, WaiterPoint, RebuildPoint, Deploying
  <1>1. ASSUME NEW wait \in BOOLEAN, Call(b, wait)
        PROVE  bridge' \in [Bridge -> BridgeRecord] /\ rebuild' = rebuild
    BY <1>1, <1>p DEF Call, TypeOK, BridgeRecord
  <1>2. ASSUME Queue(b)
        PROVE  bridge' \in [Bridge -> BridgeRecord] /\ rebuild' = rebuild
    <2> DEFINE w == [NoBridge EXCEPT !.pc = "poll", !.wait = TRUE, !.waiter = TRUE]
    <2>1. w \in BridgeRecord BY <1>p DEF NoBridge, BridgeRecord
    <2>2. PICK c \in Bridge : bridge' = [bridge EXCEPT ![b].pc = "ended", ![c] = w]
      BY <1>2 DEF Queue
    <2> HIDE DEF w
    <2>3. QED BY <1>2, <1>p, <2>1, <2>2 DEF Queue, TypeOK, BridgeRecord
  <1>3. ASSUME Launch(b)
        PROVE  /\ bridge' \in [Bridge -> BridgeRecord]
               /\ rebuild' \in [Rebuild -> RebuildRecord]
    <2>1. bridge' \in [Bridge -> BridgeRecord] BY <1>3, <1>p, MoveType DEF Launch
    <2>2. PICK r \in Rebuild : rebuild' = [rebuild EXCEPT ![r].pc = "sums"] BY <1>3 DEF Launch
    <2>3. QED BY <2>1, <2>2, <1>p DEF TypeOK, RebuildRecord
  <1>4. ASSUME Expire(b)
        PROVE  bridge' \in [Bridge -> BridgeRecord] /\ rebuild' = rebuild
    BY <1>4 DEF Expire, TypeOK, BridgeRecord
  <1>5. ASSUME NEW point \in BridgePoint, Move(b, point)
        PROVE  bridge' \in [Bridge -> BridgeRecord]
    BY <1>5, MoveType
  <1>6. QED BY <1>u, <1>1, <1>2, <1>3, <1>4, <1>5, BridgeMoves DEF TypeOK

LEMMA TypeUp ==
    ASSUME TypeOK, UpWorks \/ UpFails
    PROVE  container' \in Image \cup {None} /\ faults' \in 0 .. MaxFaults
  BY FaultsAssumption DEF TypeOK, UpWorks, UpFails, Fault

LEMMA TypeRebuild ==
    ASSUME TypeOK, NEW r \in Rebuild, RebuildStep(r)
    PROVE  /\ tag' \in Image /\ container' \in Image \cup {None}
           /\ rebuild' \in [Rebuild -> RebuildRecord] /\ faults' \in 0 .. MaxFaults
           /\ harmed' \in BOOLEAN
           /\ UNCHANGED <<active, bridge, lateChat>>
  <1> USE FaultsAssumption DEF stackVars, Fault
  <1>p. Deploying \cup RollingBack \cup {"failed", "succeeded", "gone"} \subseteq RebuildPoint
    BY DEF RebuildPoint, Finished
  <1>d. /\ {"sums", "backup", "build", "smoke", "down", "mark", "up", "health", "restore",
            "redown", "reup", "failed", "succeeded", "gone"} \subseteq RebuildPoint
        /\ UNCHANGED <<active, bridge, lateChat>>
    BY <1>p DEF Deploying, RollingBack, RebuildStep
  <1>1. CASE RunByHand(r) BY <1>1, <1>d DEF RunByHand, TypeOK, RebuildRecord
  <1>2. CASE Checksums(r)
    <2>1. rebuild' \in [Rebuild -> RebuildRecord] BY <1>2, <1>d, GoType DEF Checksums
    <2>2. QED BY <1>2, <1>d, <2>1 DEF Checksums, TypeOK
  <1>3. CASE Backup(r)
    <2>1. rebuild' \in [Rebuild -> RebuildRecord]
      <3>1. CASE rebuild' = [rebuild EXCEPT ![r].pc = "build", ![r].backup = container]
        BY <3>1, <1>d DEF TypeOK, RebuildRecord
      <3>2. CASE Go(r, "build") BY <3>2, <1>d, GoType
      <3>3. QED BY <1>3, <3>1, <3>2 DEF Backup
    <2>2. harmed' \in BOOLEAN BY <1>3, Zenon DEF Backup, TypeOK
    <2>3. faults' \in 0 .. MaxFaults BY <1>3 DEF Backup, TypeOK
    <2>4. QED BY <1>3, <1>d, <2>1, <2>2, <2>3 DEF Backup, TypeOK
  <1>4. CASE Build(r)
    <2>1. rebuild' \in [Rebuild -> RebuildRecord] BY <1>4, <1>d, GoType DEF Build
    <2>2. tag' \in Image BY <1>4 DEF Build, TypeOK, Image
    <2>3. QED BY <1>4, <1>d, <2>1, <2>2 DEF Build, TypeOK
  <1>5. CASE Smoke(r)
    <2>1. rebuild' \in [Rebuild -> RebuildRecord] BY <1>5, <1>d, GoType DEF Smoke
    <2>2. QED BY <1>5, <1>d, <2>1 DEF Smoke, TypeOK
  <1>6. CASE Down(r)
    <2>1. rebuild' \in [Rebuild -> RebuildRecord]
      BY <1>6, <1>d, GoType DEF Down, TypeOK, RebuildRecord
    <2>2. QED BY <1>6, <1>d, <2>1 DEF Down, TypeOK
  <1>7. CASE Mark(r)
    <2> DEFINE q == [rebuild[r] EXCEPT !.pc = "up", !.stopped = TRUE]
    <2>q. rebuild' = [rebuild EXCEPT ![r] = q] BY <1>7 DEF Mark
    <2>t. q \in RebuildRecord BY <1>d DEF TypeOK, RebuildRecord
    <2> HIDE DEF q
    <2>1. rebuild' \in [Rebuild -> RebuildRecord] BY <2>q, <2>t DEF TypeOK
    <2>2. QED BY <1>7, <1>d, <2>1 DEF Mark, TypeOK
  <1>8. CASE Up(r)
    <2>1. rebuild' \in [Rebuild -> RebuildRecord]
      BY <1>8, <1>d, GoType DEF Up, TypeOK, RebuildRecord
    <2>2. container' \in Image \cup {None} /\ faults' \in 0 .. MaxFaults
      BY <1>8, TypeUp DEF Up
    <2>3. QED BY <1>8, <1>d, <2>1, <2>2 DEF Up, TypeOK
  <1>9. CASE Health(r)
    <2>1. rebuild' \in [Rebuild -> RebuildRecord] BY <1>9, <1>d, GoType DEF Health
    <2>2. QED BY <1>9, <1>d, <2>1 DEF Health, TypeOK
  <1>10. CASE Restore(r)
    <2>1. \/ Go(r, "failed") /\ UNCHANGED <<tag, faults, harmed>>
          \/ /\ Go(r, "redown") \/ Go(r, "failed")
             /\ \/ tag' = rebuild[r].backup /\ rebuild[r].backup # None /\ UNCHANGED <<faults, harmed>>
                \/ UNCHANGED tag /\ Fault /\ harmed' = TRUE
      BY <1>10 DEF Restore
    <2>2. rebuild' \in [Rebuild -> RebuildRecord] BY <2>1, <1>d, GoType
    <2>3. tag' \in Image BY <2>1 DEF TypeOK, RebuildRecord
    <2>4. harmed' \in BOOLEAN BY <2>1, Zenon DEF TypeOK
    <2>5. faults' \in 0 .. MaxFaults BY <2>1 DEF TypeOK
    <2>6. QED BY <1>10, <1>d, <2>2, <2>3, <2>4, <2>5 DEF Restore, TypeOK
  <1>11. CASE Redown(r)
    <2>1. rebuild' \in [Rebuild -> RebuildRecord] BY <1>11, <1>d, GoType DEF Redown
    <2>2. QED BY <1>11, <1>d, <2>1 DEF Redown, TypeOK
  <1>12. CASE Reup(r)
    <2>1. rebuild' \in [Rebuild -> RebuildRecord] BY <1>12, <1>d, GoType DEF Reup
    <2>2. container' \in Image \cup {None} /\ faults' \in 0 .. MaxFaults
      BY <1>12, TypeUp DEF Reup
    <2>3. QED BY <1>12, <1>d, <2>1, <2>2 DEF Reup, TypeOK
  <1>13. CASE Terminate(r)
    <2>1. rebuild' \in [Rebuild -> RebuildRecord] BY <1>13, <1>d, GoType DEF Terminate
    <2>2. QED BY <1>13, <1>d, <2>1 DEF Terminate, TypeOK
  <1>14. CASE Kill(r)
    <2>1. rebuild' \in [Rebuild -> RebuildRecord] BY <1>14, <1>d, GoType DEF Kill
    <2>2. QED BY <1>14, <1>d, <2>1 DEF Kill, TypeOK
  <1>15. QED
    BY <1>1, <1>2, <1>3, <1>4, <1>5, <1>6, <1>7, <1>8, <1>9, <1>10, <1>11, <1>12, <1>13, <1>14
       DEF RebuildStep

LEMMA TypeStep ==
    ASSUME TypeOK, [Next]_vars
    PROVE  TypeOK'
  <1>o. ASSUME Observe PROVE overlapped' \in BOOLEAN /\ raced' \in BOOLEAN
    BY <1>o DEF Observe
  <1>1. CASE UNCHANGED vars BY <1>1 DEF vars, TypeOK
  <1>2. ASSUME Observe, NEW b \in Bridge, BridgeStep(b) PROVE TypeOK'
    BY <1>o, <1>2, TypeBridge DEF TypeOK, elsewhere, stackVars
  <1>3. ASSUME Observe, NEW r \in Rebuild, RebuildStep(r) PROVE TypeOK'
    BY <1>o, <1>3, TypeRebuild DEF TypeOK
  <1>4. ASSUME Observe, Chat PROVE TypeOK'
    <2>1. lateChat' \in BOOLEAN BY <1>4 DEF Chat, Decided
    <2>2. QED BY <1>o, <1>4, <2>1 DEF TypeOK, Chat, stackVars
  <1>5. ASSUME Observe, ChatAges PROVE TypeOK'
    BY <1>o, <1>5 DEF TypeOK, ChatAges, stackVars
  <1>6. QED BY <1>1, <1>2, <1>3, <1>4, <1>5 DEF Next

-----------------------------------------------------------------------------
(***************************************************************************)
(* What a step changes.                                                    *)
(***************************************************************************)
LEMMA Moved ==
    ASSUME TypeOK, NEW b \in Bridge, NEW point, Move(b, point)
    PROVE  /\ bridge'[b].pc = point /\ bridge'[b].wait = bridge[b].wait
           /\ bridge'[b].waiter = bridge[b].waiter
           /\ \A c \in Bridge : c # b => bridge'[c] = bridge[c]
  BY DEF TypeOK, Move, BridgeRecord

LEMMA Went ==
    ASSUME TypeOK, NEW r \in Rebuild, NEW point, Go(r, point)
    PROVE  /\ rebuild'[r].pc = point /\ rebuild'[r].backup = rebuild[r].backup
           /\ rebuild'[r].stopped = rebuild[r].stopped
           /\ rebuild'[r].byHand = rebuild[r].byHand
           /\ rebuild'[r].failed = rebuild[r].failed
           /\ \A q \in Rebuild : q # r => rebuild'[q] = rebuild[q]
  BY DEF TypeOK, Go, RebuildRecord

\* Only a start by hand makes a rebuild of what was none; no step of a rebuild
\* touches another one.
LEMMA RebuildMoves ==
    ASSUME TypeOK, NEW r \in Rebuild, RebuildStep(r)
    PROVE  /\ \A q \in Rebuild : q # r => rebuild'[q] = rebuild[q]
           /\ \/ r \in Running /\ rebuild'[r].byHand = rebuild[r].byHand
              \/ /\ rebuild[r].pc = "idle" /\ rebuild'[r].byHand /\ r \in Running'
                 /\ RunByHand(r)
           /\ rebuild'[r].pc # "idle"
  <1> DEFINE Effect ==
        /\ \A q \in Rebuild : q # r => rebuild'[q] = rebuild[q]
        /\ r \in Running /\ rebuild'[r].byHand = rebuild[r].byHand
        /\ rebuild'[r].pc # "idle"
  <1>g. ASSUME NEW point, point # "idle", Go(r, point), r \in Running PROVE Effect
    BY <1>g, Went
  <1>1. CASE RunByHand(r)
    BY <1>1 DEF RunByHand, NextRebuild, Running, TypeOK, RebuildRecord, Deploying
  <1>2. ASSUME Checksums(r) PROVE Effect
    BY <1>2, <1>g DEF Checksums, Running, Deploying
  <1>3. ASSUME Backup(r) PROVE Effect
    <2>1. CASE rebuild' = [rebuild EXCEPT ![r].pc = "build", ![r].backup = container]
      BY <1>3, <2>1 DEF Backup, TypeOK, RebuildRecord, Running, Deploying
    <2>2. CASE Go(r, "build") BY <1>3, <2>2, <1>g DEF Backup, Running, Deploying
    <2>3. QED BY <1>3, <2>1, <2>2 DEF Backup
  <1>4. ASSUME Build(r) PROVE Effect BY <1>4, <1>g DEF Build, Running, Deploying
  <1>5. ASSUME Smoke(r) PROVE Effect BY <1>5, <1>g DEF Smoke, Running, Deploying
  <1>6. ASSUME Down(r) PROVE Effect
    <2>1. CASE Go(r, "mark") BY <1>6, <2>1, <1>g DEF Down, Running, Deploying
    <2>2. CASE rebuild' = [rebuild EXCEPT ![r].pc = "mark", ![r].failed = @ \cup {"down"}]
      BY <1>6, <2>2 DEF Down, TypeOK, RebuildRecord, Running, Deploying
    <2>3. QED BY <1>6, <2>1, <2>2 DEF Down
  <1>7. ASSUME Mark(r) PROVE Effect
    BY <1>7 DEF Mark, TypeOK, RebuildRecord, Running, Deploying
  <1>8. ASSUME Up(r) PROVE Effect
    <2>1. CASE Go(r, "health") BY <1>8, <2>1, <1>g DEF Up, Running, Deploying
    <2>2. CASE rebuild' = [rebuild EXCEPT ![r].pc = "health", ![r].failed = @ \cup {"up"}]
      BY <1>8, <2>2 DEF Up, TypeOK, RebuildRecord, Running, Deploying
    <2>3. QED BY <1>8, <2>1, <2>2 DEF Up
  <1>9. ASSUME Health(r) PROVE Effect BY <1>9, <1>g DEF Health, Running, Deploying
  <1>10. ASSUME Restore(r) PROVE Effect
    BY <1>10, <1>g DEF Restore, Running, RollingBack
  <1>11. ASSUME Redown(r) PROVE Effect BY <1>11, <1>g DEF Redown, Running, RollingBack
  <1>12. ASSUME Reup(r) PROVE Effect BY <1>12, <1>g DEF Reup, Running, RollingBack
  <1>13. ASSUME Terminate(r) PROVE Effect BY <1>13, <1>g DEF Terminate, Running
  <1>14. ASSUME Kill(r) PROVE Effect BY <1>14, <1>g DEF Kill
  <1>15. QED
    BY <1>1, <1>2, <1>3, <1>4, <1>5, <1>6, <1>7, <1>8, <1>9, <1>10, <1>11, <1>12, <1>13, <1>14
       DEF RebuildStep

\* A launch starts a rebuild that had not run.
LEMMA Launches ==
    ASSUME TypeOK, NEW b \in Bridge, Launch(b)
    PROVE  /\ bridge[b].pc = "launch" /\ Move(b, "ended")
           /\ \E r \in Rebuild : rebuild[r].pc = "idle" /\ Go(r, "sums")
  BY DEF Launch, NextRebuild, Go

-----------------------------------------------------------------------------
(***************************************************************************)
(* The place in the queue.                                                 *)
(***************************************************************************)
LEMMA QueueBridge ==
    ASSUME TypeOK, QueueInv, NEW b \in Bridge, BridgeStep(b)
    PROVE  QueueInv'
  <1>m. ASSUME NEW point, Move(b, point), point \notin {"idle", "ask", "dup", "queue"},
               bridge[b].pc # "idle", bridge[b].pc # "ended"
        PROVE  QueueInv'
    BY <1>m, Moved DEF QueueInv, Queued
  <1>1. ASSUME NEW wait \in BOOLEAN, Call(b, wait) PROVE QueueInv'
    <2>1. /\ bridge'[b].pc \in {"ask", "guard"} /\ bridge'[b].wait = wait
          /\ bridge'[b].pc = "ask" => wait
          /\ bridge'[b].waiter = bridge[b].waiter
          /\ \A c \in Bridge : c # b => bridge'[c] = bridge[c]
      BY <1>1 DEF Call, TypeOK, BridgeRecord
    <2>2. bridge[b].pc = "idle" BY <1>1 DEF Call, NextBridge
    <2>3. QED BY <2>1, <2>2 DEF QueueInv, Queued
  <1>2. ASSUME Ask(b) PROVE QueueInv'
    <2>1. CASE Move(b, "dup") BY <1>2, <2>1, Moved DEF Ask, QueueInv, Queued
    <2>2. CASE Move(b, "guard") BY <1>2, <2>2, <1>m DEF Ask
    <2>3. QED BY <1>2, <2>1, <2>2 DEF Ask
  <1>3. ASSUME Dup(b) PROVE QueueInv'
    <2>1. CASE Move(b, "queue") /\ Waiting \ {b} = {}
      <3>1. bridge[b].wait /\ ~bridge[b].waiter BY <1>3 DEF Dup, QueueInv
      <3>2. \A c \in Bridge : c # b => ~Queued(c)
        BY <2>1 DEF Waiting, QueueInv, Queued
      <3>3. \A c \in Bridge : c # b => bridge'[c] = bridge[c] BY <2>1, Moved
      <3>4. bridge'[b].pc = "queue" /\ bridge'[b].wait /\ ~bridge'[b].waiter
        BY <2>1, <3>1, Moved
      <3>5. QED BY <3>2, <3>3, <3>4 DEF QueueInv, Queued
    <2>2. CASE Move(b, "ended") BY <1>3, <2>2, <1>m DEF Dup
    <2>3. QED BY <1>3, <2>1, <2>2 DEF Dup
  <1>4. ASSUME Queue(b) PROVE QueueInv'
    <2> DEFINE w == [NoBridge EXCEPT !.pc = "poll", !.wait = TRUE, !.waiter = TRUE]
    <2>1. w.pc = "poll" /\ w.wait /\ w.waiter BY DEF NoBridge
    <2>2. PICK c \in Bridge : /\ bridge[c].pc = "idle"
                              /\ bridge' = [bridge EXCEPT ![b].pc = "ended", ![c] = w]
      BY <1>4 DEF Queue, NextBridge
    <2> HIDE DEF w
    <2>3. bridge[b].pc = "queue" /\ c # b BY <1>4, <2>2 DEF Queue
    <2>4. /\ bridge'[c] = w /\ bridge'[b].pc = "ended"
          /\ bridge'[b].waiter = bridge[b].waiter /\ bridge'[b].wait = bridge[b].wait
          /\ \A x \in Bridge : x # b /\ x # c => bridge'[x] = bridge[x]
      BY <2>2, <2>3 DEF TypeOK, BridgeRecord
    <2>5. \A x \in Bridge : Queued(x) => x = b BY <2>3 DEF QueueInv, Queued
    <2>6. QED BY <2>1, <2>3, <2>4, <2>5 DEF QueueInv, Queued
  <1>5. ASSUME Expire(b) PROVE QueueInv'
    <2>1. /\ bridge'[b].pc = bridge[b].pc /\ bridge'[b].wait = bridge[b].wait
          /\ bridge'[b].waiter = bridge[b].waiter
          /\ \A c \in Bridge : c # b => bridge'[c] = bridge[c]
      BY <1>5 DEF Expire, TypeOK, BridgeRecord
    <2>2. QED BY <2>1 DEF QueueInv, Queued
  <1>6. ASSUME Guard(b) PROVE QueueInv' BY <1>6, <1>m DEF Guard
  <1>7. ASSUME Poll(b) PROVE QueueInv' BY <1>7, <1>m DEF Poll
  <1>8. ASSUME Look(b) PROVE QueueInv' BY <1>8, <1>m DEF Look
  <1>9. ASSUME Recheck(b) PROVE QueueInv' BY <1>9, <1>m DEF Recheck
  <1>10. ASSUME Check(b) PROVE QueueInv' BY <1>10, <1>m DEF Check
  <1>11. ASSUME Launch(b) PROVE QueueInv' BY <1>11, <1>m, Launches
  <1>12. QED
    BY <1>1, <1>2, <1>3, <1>4, <1>5, <1>6, <1>7, <1>8, <1>9, <1>10, <1>11 DEF BridgeStep, Waiter

-----------------------------------------------------------------------------
(***************************************************************************)
(* Guard 2.                                                                *)
(***************************************************************************)
LEMMA LaunchBridge ==
    ASSUME TypeOK, LaunchInv, NEW b \in Bridge, BridgeStep(b), Observe
    PROVE  LaunchInv'
  <1>o. /\ ~raced' => ~raced
        /\ ~raced' => \A x, y \in Bridge :
              bridge'[x].pc = "launch" /\ bridge'[y].pc = "launch" => x = y
    BY DEF Observe
  <1>r. ASSUME UNCHANGED rebuild PROVE Running' = Running /\ ByHand' = ByHand
    BY <1>r DEF Running, ByHand
  \* A step after which nobody is newly past the guard.
  <1>m. ASSUME UNCHANGED rebuild,
               \A c \in Bridge : bridge'[c].pc = "launch" => bridge[c].pc = "launch"
        PROVE  LaunchInv'
    BY <1>m, <1>o, <1>r DEF LaunchInv
  <1>g. ASSUME NEW point, point # "launch", Move(b, point), UNCHANGED rebuild PROVE LaunchInv'
    BY <1>g, <1>m, Moved
  <1>1. ASSUME NEW wait \in BOOLEAN, Call(b, wait) PROVE LaunchInv'
    <2>1. /\ bridge'[b].pc # "launch" /\ UNCHANGED rebuild
          /\ \A c \in Bridge : c # b => bridge'[c] = bridge[c]
      BY <1>1 DEF Call, TypeOK, BridgeRecord
    <2>2. QED BY <2>1, <1>m
  <1>2. ASSUME Queue(b) PROVE LaunchInv'
    <2> DEFINE w == [NoBridge EXCEPT !.pc = "poll", !.wait = TRUE, !.waiter = TRUE]
    <2>1. w.pc = "poll" BY DEF NoBridge
    <2>2. PICK c \in Bridge : bridge' = [bridge EXCEPT ![b].pc = "ended", ![c] = w]
      BY <1>2 DEF Queue
    <2> HIDE DEF w
    <2>3. \A x \in Bridge : bridge'[x].pc = "launch" => bridge[x].pc = "launch"
      BY <2>1, <2>2 DEF TypeOK, BridgeRecord
    <2>4. QED BY <1>2, <2>3, <1>m DEF Queue
  <1>3. ASSUME Expire(b) PROVE LaunchInv'
    <2>1. \A c \in Bridge : bridge'[c].pc = bridge[c].pc
      BY <1>3 DEF Expire, TypeOK, BridgeRecord
    <2>2. QED BY <1>3, <2>1, <1>m DEF Expire
  <1>4. ASSUME Check(b) PROVE LaunchInv'
    <2>1. CASE Move(b, "ended") BY <1>4, <2>1, <1>g DEF Check
    <2>2. CASE Move(b, "launch") /\ Running = {}
      BY <1>4, <2>2, <1>o, <1>r DEF Check, LaunchInv
    <2>3. QED BY <1>4, <2>1, <2>2 DEF Check
  <1>5. ASSUME Launch(b) PROVE LaunchInv'
    <2>1. bridge[b].pc = "launch" /\ Move(b, "ended") BY <1>5, Launches
    <2>2. PICK r \in Rebuild : rebuild[r].pc = "idle" /\ Go(r, "sums") BY <1>5, Launches
    <2>3. Running' = Running \cup {r} /\ ByHand' = ByHand
      BY <2>2, Went DEF Running, ByHand, Deploying
    <2>4. \A c \in Bridge : bridge'[c].pc = "launch" => bridge[c].pc = "launch" /\ c # b
      BY <2>1, Moved
    <2>5. QED BY <2>1, <2>3, <2>4, <1>o DEF LaunchInv
  <1>6. ASSUME Ask(b) PROVE LaunchInv' BY <1>6, <1>g DEF Ask
  <1>7. ASSUME Dup(b) PROVE LaunchInv' BY <1>7, <1>g DEF Dup
  <1>8. ASSUME Guard(b) PROVE LaunchInv' BY <1>8, <1>g DEF Guard
  <1>9. ASSUME Poll(b) PROVE LaunchInv' BY <1>9, <1>g DEF Poll
  <1>10. ASSUME Look(b) PROVE LaunchInv' BY <1>10, <1>g DEF Look
  <1>11. ASSUME Recheck(b) PROVE LaunchInv' BY <1>11, <1>g DEF Recheck
  <1>12. QED
    BY <1>1, <1>2, <1>3, <1>4, <1>5, <1>6, <1>7, <1>8, <1>9, <1>10, <1>11 DEF BridgeStep, Waiter

\* What is true of every step of a rebuild, as far as guard 2 is concerned.
LEMMA RebuildShrinks ==
    ASSUME TypeOK, NEW r \in Rebuild, RebuildStep(r)
    PROVE  /\ ByHand => ByHand'
           /\ ~ByHand' => ~ByHand /\ Running' \subseteq Running /\ r \in Running
           /\ Unmoved => Unmoved'
  <1> USE RebuildMoves
  <1>1. rebuild[r].byHand => rebuild'[r].byHand
    BY DEF RunByHand
  <1>2. ByHand => ByHand' BY <1>1 DEF ByHand
  <1>3. ASSUME ~ByHand' PROVE ~ByHand /\ Running' \subseteq Running /\ r \in Running
    <2>1. ~rebuild'[r].byHand BY <1>3 DEF ByHand
    <2>2. r \in Running BY <2>1
    <2>3. QED BY <1>2, <1>3, <2>2 DEF Running
  <1>4. Unmoved => Unmoved' BY DEF Unmoved, Running, Deploying, RollingBack
  <1>5. QED BY <1>2, <1>3, <1>4

LEMMA LaunchRebuild ==
    ASSUME TypeOK, LaunchInv, NEW r \in Rebuild, RebuildStep(r), Observe
    PROVE  LaunchInv'
  <1>1. (~raced' => ~raced) /\ bridge' = bridge BY DEF Observe, RebuildStep
  <1>2. QED BY <1>1, RebuildShrinks DEF LaunchInv

-----------------------------------------------------------------------------
(***************************************************************************)
(* Guard 1.                                                                *)
(***************************************************************************)
LEMMA ChatBridge ==
    ASSUME TypeOK, ChatInv, NEW b \in Bridge, BridgeStep(b)
    PROVE  ChatInv'
  <1>u. active' = active /\ lateChat' = lateChat BY DEF BridgeStep, elsewhere
  <1>r. ASSUME UNCHANGED rebuild PROVE Running' = Running /\ ByHand' = ByHand
    BY <1>r DEF Running, ByHand
  \* A step that decides nothing that was not decided.
  <1>m. ASSUME UNCHANGED rebuild, Decided' => Decided PROVE ChatInv'
    BY <1>u, <1>r, <1>m DEF ChatInv
  <1>g. ASSUME NEW point, Move(b, point), UNCHANGED rebuild,
               point \notin {"recheck", "check", "launch"} \/ Decided
        PROVE  ChatInv'
    <2>1. Decided' => Decided BY <1>g, <1>r, Moved DEF Decided
    <2>2. QED BY <1>g, <1>m, <2>1
  <1>a. ASSUME ~active PROVE ChatInv' BY <1>a, <1>u DEF ChatInv
  <1>1. ASSUME NEW wait \in BOOLEAN, Call(b, wait) PROVE ChatInv'
    <2>1. /\ bridge'[b].pc \in {"ask", "guard"} /\ UNCHANGED rebuild
          /\ \A c \in Bridge : c # b => bridge'[c] = bridge[c]
      BY <1>1 DEF Call, TypeOK, BridgeRecord
    <2>2. QED BY <2>1, <1>m, <1>r DEF Decided
  <1>2. ASSUME Queue(b) PROVE ChatInv'
    <2> DEFINE w == [NoBridge EXCEPT !.pc = "poll", !.wait = TRUE, !.waiter = TRUE]
    <2>1. w.pc = "poll" BY DEF NoBridge
    <2>2. PICK c \in Bridge : bridge' = [bridge EXCEPT ![b].pc = "ended", ![c] = w]
      BY <1>2 DEF Queue
    <2> HIDE DEF w
    <2>3. \A x \in Bridge : bridge'[x].pc \in {"ended", "poll"} \/ bridge'[x].pc = bridge[x].pc
      BY <2>1, <2>2 DEF TypeOK, BridgeRecord
    <2>4. QED BY <1>2, <2>3, <1>m, <1>r DEF Queue, Decided
  <1>3. ASSUME Expire(b) PROVE ChatInv'
    <2>1. \A c \in Bridge : bridge'[c].pc = bridge[c].pc
      BY <1>3 DEF Expire, TypeOK, BridgeRecord
    <2>2. QED BY <1>3, <2>1, <1>m, <1>r DEF Expire, Decided
  <1>4. ASSUME Launch(b) PROVE ChatInv'
    <2>1. Decided BY <1>4 DEF Launch, Decided
    <2>2. ByHand => ByHand'
      <3>1. PICK r \in Rebuild : Go(r, "sums") BY <1>4, Launches
      <3>2. QED BY <3>1, Went DEF ByHand
    <2>3. QED BY <2>1, <2>2, <1>u DEF ChatInv
  <1>5. ASSUME Recheck(b) \/ Check(b) PROVE ChatInv'
    <2>1. Decided BY <1>5 DEF Recheck, Check, Decided
    <2>2. QED BY <1>5, <2>1, <1>g DEF Recheck, Check
  <1>6. ASSUME Ask(b) PROVE ChatInv' BY <1>6, <1>g DEF Ask
  <1>7. ASSUME Dup(b) PROVE ChatInv' BY <1>7, <1>g DEF Dup
  <1>8. ASSUME Guard(b) PROVE ChatInv' BY <1>8, <1>g, <1>a DEF Guard
  <1>9. ASSUME Poll(b) PROVE ChatInv' BY <1>9, <1>g DEF Poll
  <1>10. ASSUME Look(b) PROVE ChatInv' BY <1>10, <1>g, <1>a DEF Look
  <1>11. QED
    BY <1>1, <1>2, <1>3, <1>4, <1>5, <1>6, <1>7, <1>8, <1>9, <1>10 DEF BridgeStep, Waiter

LEMMA ChatRebuild ==
    ASSUME TypeOK, ChatInv, NEW r \in Rebuild, RebuildStep(r)
    PROVE  ChatInv'
  <1>1. active' = active /\ lateChat' = lateChat /\ bridge' = bridge BY DEF RebuildStep
  <1>2. ~ByHand' => ~ByHand /\ Decided BY RebuildShrinks DEF Decided
  <1>3. QED BY <1>1, <1>2 DEF ChatInv

-----------------------------------------------------------------------------
(***************************************************************************)
(* A rebuild alone: what it has placed, and what it can fall back on.      *)
(***************************************************************************)
\* The steps that change more of a rebuild than its point.
LEMMA RecordFailed ==
    ASSUME TypeOK, NEW r \in Rebuild, NEW point, NEW x,
           rebuild' = [rebuild EXCEPT ![r].pc = point, ![r].failed = @ \cup {x}]
    PROVE  /\ rebuild'[r].pc = point /\ rebuild'[r].failed = rebuild[r].failed \cup {x}
           /\ rebuild'[r].backup = rebuild[r].backup
           /\ rebuild'[r].stopped = rebuild[r].stopped
  BY DEF TypeOK, RebuildRecord

LEMMA RecordBackup ==
    ASSUME TypeOK, NEW r \in Rebuild,
           rebuild' = [rebuild EXCEPT ![r].pc = "build", ![r].backup = container]
    PROVE  /\ rebuild'[r].pc = "build" /\ rebuild'[r].failed = rebuild[r].failed
           /\ rebuild'[r].backup = container
           /\ rebuild'[r].stopped = rebuild[r].stopped
  BY DEF TypeOK, RebuildRecord

LEMMA RecordStopped ==
    ASSUME TypeOK, NEW r \in Rebuild,
           rebuild' = [rebuild EXCEPT ![r].pc = "up", ![r].stopped = TRUE]
    PROVE  /\ rebuild'[r].pc = "up" /\ rebuild'[r].failed = rebuild[r].failed
           /\ rebuild'[r].backup = rebuild[r].backup
           /\ rebuild'[r].stopped
  BY DEF TypeOK, RebuildRecord

LEMMA RecordStart ==
    ASSUME TypeOK, NEW r \in Rebuild, rebuild[r] = NoRebuild, RunByHand(r)
    PROVE  /\ rebuild'[r].pc = "sums" /\ rebuild'[r].failed = {}
           /\ rebuild'[r].backup = None
           /\ rebuild'[r].stopped = FALSE
  BY DEF TypeOK, RebuildRecord, RunByHand, NoRebuild

LEMMA OwnStep ==
    ASSUME TypeOK, NEW r \in Rebuild, RebuildStep(r),
           rebuild[r].pc = "idle" => rebuild[r] = NoRebuild,
           r \in Running => Placed(r)
    PROVE  r \in Running' => Placed(r)'
  <1> USE DEF stackVars
  \* Points at which nothing need be placed.
  <1>g. ASSUME NEW point, Go(r, point), point \in RollingBack \cup Finished
        PROVE  r \in Running' => Placed(r)'
    BY <1>g, Went DEF Placed, RollingBack, Finished
  <1>1. CASE RunByHand(r)
    <2>1. rebuild'[r].pc = "sums" /\ rebuild'[r].failed = {}
      BY <1>1, RecordStart DEF RunByHand, NextRebuild
    <2>2. QED BY <2>1 DEF Placed
  <1>2. CASE Checksums(r)
    BY <1>2, <1>g, Went DEF Checksums, Placed, Running, Deploying, RollingBack
  <1>3. CASE Backup(r)
    <2>1. rebuild[r].failed = {} BY <1>3 DEF Backup, Placed, Running, Deploying
    <2>2. rebuild'[r].pc = "build" /\ rebuild'[r].failed = rebuild[r].failed
      BY <1>3, Went, RecordBackup DEF Backup
    <2>3. QED BY <2>1, <2>2 DEF Placed
  <1>4. CASE Build(r)
    BY <1>4, <1>g, Went DEF Build, Placed, Running, Deploying, RollingBack
  <1>5. CASE Smoke(r)
    BY <1>5, <1>g, Went DEF Smoke, Placed, Running, Deploying, RollingBack
  <1>6. CASE Down(r)
    <2>1. tag.by = r /\ tag' = tag BY <1>6 DEF Down, Placed, Running, Deploying
    <2>2. /\ rebuild'[r].pc = "mark"
          /\ container' = None \/ "down" \in rebuild'[r].failed
      <3>1. CASE container' = None /\ Go(r, "mark") BY <3>1, Went
      <3>2. CASE rebuild' = [rebuild EXCEPT ![r].pc = "mark", ![r].failed = @ \cup {"down"}]
        <4>1. rebuild'[r].pc = "mark" /\ rebuild'[r].failed = rebuild[r].failed \cup {"down"}
          BY <3>2, RecordFailed
        <4>2. QED BY <4>1
      <3>3. QED BY <1>6, <3>1, <3>2 DEF Down
    <2>3. QED BY <2>1, <2>2 DEF Placed
  <1>7. CASE Mark(r)
    BY <1>7, RecordStopped DEF Mark, Placed, Running, Deploying
  <1>8. CASE Up(r)
    <2>1. r \in Running /\ Placed(r) BY <1>8 DEF Up, Running, Deploying
    <2>2. /\ tag.by = r
          /\ container = None \/ "down" \in rebuild[r].failed
      BY <1>8, <2>1 DEF Up, Placed
    <2>3. CASE UpWorks /\ Go(r, "health")
      BY <1>8, <2>2, <2>3, Went DEF Up, UpWorks, Placed
    <2>4. CASE UpFails /\ rebuild' = [rebuild EXCEPT ![r].pc = "health", ![r].failed = @ \cup {"up"}]
      <3>1. rebuild'[r].pc = "health" /\ rebuild'[r].failed = rebuild[r].failed \cup {"up"}
        BY <2>4, RecordFailed
      <3>2. rebuild[r].failed \subseteq {"down", "up"} BY DEF TypeOK, RebuildRecord
      <3>3. container' \in {container, tag} /\ tag' = tag BY <1>8, <2>4 DEF Up, UpFails
      <3>4. container' = None \/ container'.by = r \/ rebuild'[r].failed = {"down", "up"}
        BY <2>2, <3>1, <3>2, <3>3
      <3>5. QED BY <2>2, <3>1, <3>3, <3>4 DEF Placed
    <2>5. QED BY <1>8, <2>3, <2>4 DEF Up
  <1>9. CASE Health(r) BY <1>9, <1>g DEF Health, RollingBack, Finished
  <1>10. CASE Restore(r) BY <1>10, <1>g DEF Restore, RollingBack, Finished
  <1>11. CASE Redown(r) BY <1>11, <1>g DEF Redown, RollingBack
  <1>12. CASE Reup(r) BY <1>12, <1>g DEF Reup, Finished
  <1>13. CASE Terminate(r) BY <1>13, <1>g DEF Terminate, RollingBack
  <1>14. CASE Kill(r) BY <1>14, <1>g DEF Kill, Finished
  <1>15. QED
    BY <1>1, <1>2, <1>3, <1>4, <1>5, <1>6, <1>7, <1>8, <1>9, <1>10, <1>11, <1>12, <1>13, <1>14
       DEF RebuildStep

\* Not overlapped so far: whoever runs is alone.
LEMMA Alone ==
    ASSUME Observe, ~overlapped'
    PROVE  ~overlapped /\ \A p, q \in Running' : p = q
  BY DEF Observe, Running

LEMMA OwnRebuild ==
    ASSUME TypeOK, OwnInv, NEW r \in Rebuild, RebuildStep(r), Observe
    PROVE  OwnInv'
  <1>1. \A q \in Rebuild : rebuild'[q].pc = "idle" => rebuild'[q] = NoRebuild
    BY RebuildMoves DEF OwnInv
  <1>2. ASSUME ~overlapped', NEW p \in Running' PROVE p = r
    <2>1. CASE r \in Running'  BY <1>2, <2>1, Alone
    <2>2. CASE r \notin Running'
      <3>1. r \in Running BY <2>2, RebuildMoves
      <3>2. p # r => p \in Running BY <1>2, RebuildMoves DEF Running
      <3>3. QED BY <1>2, <3>1, <3>2, Alone DEF OwnInv
    <2>3. QED BY <2>1, <2>2
  <1>3. ASSUME ~overlapped', r \in Running' PROVE Placed(r)'
    <2>1. r \in Running => Placed(r) BY <1>3, Alone DEF OwnInv
    <2>2. rebuild[r].pc = "idle" => rebuild[r] = NoRebuild BY DEF OwnInv
    <2>3. QED BY <1>3, <2>1, <2>2, OwnStep
  <1>4. QED BY <1>1, <1>2, <1>3, Alone DEF OwnInv

\* Alone and unharmed, a rebuild can still fall back, or leaves the stack at rest.
LEMMA SoloStep ==
    ASSUME TypeOK, NEW r \in Rebuild, RebuildStep(r), ~harmed', ~harmed,
           Unmoved => Unmoved',
           rebuild[r].pc = "idle" => rebuild[r] = NoRebuild /\ AtRest,
           r \in Running => Fallback(r) /\ Placed(r)
    PROVE  /\ r \in Running' => Fallback(r)'
           /\ r \notin Running' => AtRest'
  <1> USE DEF stackVars
  <1> DEFINE Safe == /\ r \in Running' => Fallback(r)'
                     /\ r \notin Running' => AtRest'
  <1>n. None \notin Image BY NoImageAssumption
  <1>r. ASSUME UNCHANGED stackVars, AtRest PROVE AtRest'
    BY <1>r DEF AtRest, Good
  <1>f. \A point \in Finished : Go(r, point) => r \notin Running'
    BY Went DEF Running, Finished, Deploying, RollingBack
  <1>1. ASSUME RunByHand(r) PROVE Safe
    <2>1. rebuild[r] = NoRebuild /\ AtRest BY <1>1 DEF RunByHand, NextRebuild
    <2>2. /\ rebuild'[r].pc = "sums" /\ rebuild'[r].backup = None /\ ~rebuild'[r].stopped
      BY <1>1, <2>1, RecordStart
    <2>3. AtRest' BY <1>1, <1>r, <2>1 DEF RunByHand
    <2>4. QED BY <2>2, <2>3 DEF Fallback, AtRest, Running, Deploying
  <1>2. ASSUME Checksums(r) PROVE Safe
    <2>1. Fallback(r) /\ rebuild[r].pc = "sums" BY <1>2 DEF Checksums, Running, Deploying
    <2>2. AtRest' BY <1>2, <2>1, <1>r DEF Checksums, Fallback
    <2>3. /\ rebuild'[r].pc \in {"backup", "restore"}
          /\ rebuild'[r].backup = rebuild[r].backup
          /\ rebuild'[r].stopped = rebuild[r].stopped
      BY <1>2, Went DEF Checksums
    <2>4. QED BY <1>2, <2>1, <2>2, <2>3 DEF Fallback, AtRest, Checksums
  \* The trap, from a point at which the stack has not been stopped, or has been.
  <1>t. ASSUME Go(r, "restore"), UNCHANGED stackVars,
               r \in Running, rebuild[r].pc \in Deploying \ {"mark"}
        PROVE  Safe
    <2>1. Fallback(r) BY <1>t
    <2>2. AtRest => AtRest' BY <1>t, <1>r
    <2>3. /\ rebuild'[r].pc = "restore" /\ rebuild'[r].backup = rebuild[r].backup
          /\ rebuild'[r].stopped = rebuild[r].stopped
      BY <1>t, Went
    <2>4. r \in Running' BY <2>3 DEF Running, RollingBack
    <2>5. rebuild[r].backup # None /\ ~rebuild[r].stopped => container = rebuild[r].backup
      BY <1>t, <2>1 DEF Fallback, Deploying
    <2>6. rebuild[r].stopped => tag.quality # "poison" BY <2>1 DEF Fallback
    <2>7. QED BY <1>t, <2>1, <2>2, <2>3, <2>4, <2>5, <2>6 DEF Fallback, Good, AtRest
  <1>3. ASSUME Backup(r) PROVE Safe
    <2>1. Fallback(r) /\ rebuild[r].pc = "backup" BY <1>3 DEF Backup, Running, Deploying
    <2>2. /\ rebuild' = [rebuild EXCEPT ![r].pc = "build", ![r].backup = container]
          /\ UNCHANGED <<stackVars, harmed>>
      BY <1>3 DEF Backup
    <2>3. /\ rebuild'[r].pc = "build" /\ rebuild'[r].backup = container
          /\ rebuild'[r].stopped = rebuild[r].stopped
      BY <2>2, RecordBackup
    <2>4. AtRest /\ Good(container) BY <2>1 DEF Fallback, AtRest
    <2>5. AtRest' BY <2>2, <2>4, <1>r
    <2>6. ~rebuild[r].stopped /\ r \in Running' BY <2>1, <2>3 DEF Fallback, Running, Deploying
    <2>7. QED BY <2>2, <2>3, <2>4, <2>5, <2>6 DEF Fallback, Good
  <1>4. ASSUME Build(r) PROVE Safe
    <2>1. Fallback(r) /\ rebuild[r].pc = "build" /\ r \in Running
      BY <1>4 DEF Build, Running, Deploying
    <2>2. CASE Go(r, "restore") /\ UNCHANGED tag BY <1>4, <2>1, <2>2, <1>t DEF Build, Deploying
    <2>3. CASE Go(r, "smoke")
      <3>1. /\ rebuild'[r].pc = "smoke" /\ rebuild'[r].backup = rebuild[r].backup
            /\ rebuild'[r].stopped = rebuild[r].stopped
        BY <2>3, Went
      <3>2. rebuild[r].backup # None /\ ~rebuild[r].stopped /\ container = rebuild[r].backup
        BY <2>1 DEF Fallback
      <3>3. Good(rebuild[r].backup) BY <2>1, <3>2 DEF Fallback
      <3>4. r \in Running' /\ container' = container BY <1>4, <3>1 DEF Build, Running, Deploying
      <3>5. QED BY <3>1, <3>2, <3>3, <3>4 DEF Fallback, Good
    <2>4. QED BY <1>4, <2>2, <2>3 DEF Build
  <1>5. ASSUME Smoke(r) PROVE Safe
    <2>1. Fallback(r) /\ rebuild[r].pc = "smoke" /\ r \in Running
      BY <1>5 DEF Smoke, Running, Deploying
    <2>2. CASE Go(r, "restore") BY <1>5, <2>1, <2>2, <1>t DEF Smoke, Deploying
    <2>3. CASE Go(r, "down") /\ tag.quality # "poison"
      <3>1. /\ rebuild'[r].pc = "down" /\ rebuild'[r].backup = rebuild[r].backup
            /\ rebuild'[r].stopped = rebuild[r].stopped
        BY <2>3, Went
      <3>2. rebuild[r].backup # None /\ ~rebuild[r].stopped /\ container = rebuild[r].backup
        BY <2>1 DEF Fallback
      <3>3. Good(rebuild[r].backup) BY <2>1, <3>2 DEF Fallback
      <3>4. r \in Running' /\ container' = container /\ tag' = tag
        BY <1>5, <3>1 DEF Smoke, Running, Deploying
      <3>5. QED BY <2>3, <3>1, <3>2, <3>3, <3>4 DEF Fallback, Good
    <2>4. QED BY <1>5, <2>2, <2>3 DEF Smoke
  <1>6. ASSUME Down(r) PROVE Safe
    <2>1. Fallback(r) /\ rebuild[r].pc = "down" BY <1>6 DEF Down, Running, Deploying
    <2>2. /\ rebuild'[r].pc = "mark" /\ rebuild'[r].backup = rebuild[r].backup
          /\ rebuild'[r].stopped = rebuild[r].stopped
      <3>1. CASE Go(r, "mark") BY <3>1, Went
      <3>2. CASE rebuild' = [rebuild EXCEPT ![r].pc = "mark", ![r].failed = @ \cup {"down"}]
        BY <3>2, RecordFailed
      <3>3. QED BY <1>6, <3>1, <3>2 DEF Down
    <2>3. rebuild[r].backup # None /\ ~rebuild[r].stopped /\ container = rebuild[r].backup
      BY <2>1 DEF Fallback
    <2>4. Good(rebuild[r].backup) /\ tag.quality # "poison" BY <2>1, <2>3 DEF Fallback
    <2>5. r \in Running' /\ container' \in {None, container} /\ tag' = tag
      BY <1>6, <2>2 DEF Down, Running, Deploying
    <2>6. QED BY <2>2, <2>3, <2>4, <2>5 DEF Fallback, Good
  <1>7. ASSUME Mark(r) PROVE Safe
    <2>1. Fallback(r) /\ rebuild[r].pc = "mark" BY <1>7 DEF Mark, Running, Deploying
    <2>2. /\ rebuild'[r].pc = "up" /\ rebuild'[r].backup = rebuild[r].backup
          /\ rebuild'[r].stopped
      BY <1>7, RecordStopped DEF Mark
    <2>3. /\ rebuild[r].backup # None /\ Good(rebuild[r].backup) /\ tag.quality # "poison"
          /\ container \in {None, rebuild[r].backup}
      BY <2>1 DEF Fallback
    <2>4. r \in Running' /\ container' = container /\ tag' = tag
      BY <1>7, <2>2 DEF Mark, Running, Deploying
    <2>5. QED BY <2>2, <2>3, <2>4 DEF Fallback, Good
  <1>8. ASSUME Up(r) PROVE Safe
    <2>1. Fallback(r) /\ Placed(r) /\ rebuild[r].pc = "up" BY <1>8 DEF Up, Running, Deploying
    <2>2. /\ rebuild'[r].pc = "health" /\ rebuild'[r].backup = rebuild[r].backup
          /\ rebuild'[r].stopped = rebuild[r].stopped
      <3>1. CASE Go(r, "health") BY <3>1, Went
      <3>2. CASE rebuild' = [rebuild EXCEPT ![r].pc = "health", ![r].failed = @ \cup {"up"}]
        BY <3>2, RecordFailed
      <3>3. QED BY <1>8, <3>1, <3>2 DEF Up
    <2>3. /\ rebuild[r].backup # None /\ Good(rebuild[r].backup) /\ tag.quality # "poison"
          /\ container \in {None, rebuild[r].backup} /\ rebuild[r].stopped
      BY <2>1 DEF Fallback
    <2>4. r \in Running' /\ tag' = tag
      BY <1>8, <2>2 DEF Up, Running, Deploying
    <2>5. container' \in {None, tag} \/ (container' = rebuild[r].backup /\ rebuild'[r].failed = {"down", "up"})
      <3>1. CASE UpWorks BY <3>1 DEF UpWorks
      <3>2. CASE UpFails /\ rebuild' = [rebuild EXCEPT ![r].pc = "health", ![r].failed = @ \cup {"up"}]
        <4>1. rebuild'[r].failed = rebuild[r].failed \cup {"up"} BY <3>2, RecordFailed
        <4>2. rebuild[r].failed \subseteq {"down", "up"} BY DEF TypeOK, RebuildRecord
        <4>3. container = None \/ "down" \in rebuild[r].failed BY <2>1 DEF Placed
        <4>4. container' \in {container, tag} BY <3>2 DEF UpFails
        <4>5. container = None \/ rebuild'[r].failed = {"down", "up"} BY <4>1, <4>2, <4>3
        <4>6. QED BY <2>3, <4>4, <4>5
      <3>3. QED BY <1>8, <3>1, <3>2 DEF Up
    <2>6. QED BY <2>2, <2>3, <2>4, <2>5 DEF Fallback, Good
  <1>9. ASSUME Health(r) PROVE Safe
    <2>1. Fallback(r) /\ rebuild[r].pc = "health" /\ r \in Running
      BY <1>9 DEF Health, Running, Deploying
    <2>2. CASE Go(r, "restore") BY <1>9, <2>1, <2>2, <1>t DEF Health, Deploying
    <2>3. CASE Go(r, "succeeded") /\ container # None /\ container.quality = "good"
      <3>1. rebuild'[r].pc = "succeeded" /\ rebuild'[r].failed = rebuild[r].failed BY <2>3, Went
      <3>2. tag.quality # "poison" /\ (container = tag \/ rebuild[r].failed = {"down", "up"})
        BY <2>1, <2>3 DEF Fallback
      <3>3. container = tag \/ Unmoved' BY <3>1, <3>2 DEF Unmoved
      <3>4. UNCHANGED stackVars BY <1>9 DEF Health
      <3>5. AtRest' BY <2>3, <3>2, <3>3, <3>4 DEF AtRest, Good
      <3>6. QED BY <2>3, <3>5, <1>f DEF Finished
    <2>4. QED BY <1>9, <2>2, <2>3 DEF Health
  <1>10. ASSUME Restore(r) PROVE Safe
    <2>1. Fallback(r) /\ rebuild[r].pc = "restore" BY <1>10 DEF Restore, Running, RollingBack
    <2>2. CASE rebuild[r].backup = None /\ Go(r, "failed") /\ UNCHANGED tag
      <3>1. AtRest /\ UNCHANGED stackVars BY <1>10, <2>1, <2>2 DEF Fallback, Restore
      <3>2. QED BY <2>2, <3>1, <1>r, <1>f DEF Finished
    <2>3. CASE rebuild[r].backup # None
      <3>1. /\ Go(r, IF rebuild[r].stopped THEN "redown" ELSE "failed")
            /\ tag' = rebuild[r].backup /\ container' = container
        BY <1>10, <2>3 DEF Restore
      <3>2. Good(rebuild[r].backup) BY <2>1, <2>3 DEF Fallback
      <3>3. CASE rebuild[r].stopped
        <4>1. /\ rebuild'[r].pc = "redown" /\ rebuild'[r].backup = rebuild[r].backup
              /\ rebuild'[r].stopped = rebuild[r].stopped
          BY <3>1, <3>3, Went
        <4>2. r \in Running' BY <4>1 DEF Running, RollingBack
        <4>3. QED BY <2>3, <3>1, <3>2, <3>3, <4>1, <4>2 DEF Fallback, Good
      <3>4. CASE ~rebuild[r].stopped
        <4>1. container = rebuild[r].backup BY <2>1, <2>3, <3>4 DEF Fallback
        <4>2. AtRest' BY <3>1, <3>2, <4>1 DEF AtRest, Good
        <4>3. QED BY <3>1, <3>4, <4>2, <1>f DEF Finished
      <3>5. QED BY <3>3, <3>4
    <2>4. QED BY <1>10, <2>2, <2>3 DEF Restore
  <1>11. ASSUME Redown(r) PROVE Safe
    <2>1. Fallback(r) /\ rebuild[r].pc = "redown" BY <1>11 DEF Redown, Running, RollingBack
    <2>2. /\ rebuild'[r].pc = "reup" /\ rebuild'[r].backup = rebuild[r].backup
          /\ rebuild'[r].stopped = rebuild[r].stopped /\ tag' = tag
      BY <1>11, Went DEF Redown
    <2>3. /\ rebuild[r].backup # None /\ Good(rebuild[r].backup) /\ tag.quality # "poison"
          /\ tag = rebuild[r].backup /\ rebuild[r].stopped
      BY <2>1 DEF Fallback
    <2>4. r \in Running' BY <2>2 DEF Running, RollingBack
    <2>5. QED BY <2>2, <2>3, <2>4 DEF Fallback, Good
  <1>12. ASSUME Reup(r) PROVE Safe
    <2>1. Fallback(r) /\ rebuild[r].pc = "reup" BY <1>12 DEF Reup, Running, RollingBack
    <2>2. tag' = tag /\ container' = tag /\ Go(r, "failed") BY <1>12 DEF Reup, UpWorks
    <2>3. Good(tag) BY <2>1 DEF Fallback
    <2>4. AtRest' BY <2>2, <2>3 DEF AtRest, Good
    <2>5. QED BY <2>2, <2>4, <1>f DEF Finished
  <1>13. ASSUME Terminate(r) PROVE Safe
    <2>1. rebuild[r].pc # "mark" BY <1>13 DEF Terminate
    <2>2. QED BY <1>13, <2>1, <1>t DEF Terminate, Running
  <1>14. ASSUME Kill(r) PROVE Safe
    <2>1. rebuild[r].pc \in {"sums", "backup", "build"} /\ Fallback(r) BY <1>14 DEF Kill
    <2>2. AtRest BY <2>1 DEF Fallback
    <2>3. AtRest' BY <1>14, <2>2, <1>r DEF Kill
    <2>4. QED BY <1>14, <2>3, <1>f DEF Kill, Finished
  <1>15. QED
    BY <1>1, <1>2, <1>3, <1>4, <1>5, <1>6, <1>7, <1>8, <1>9, <1>10, <1>11, <1>12, <1>13, <1>14
       DEF RebuildStep

LEMMA SoloRebuild ==
    ASSUME TypeOK, OwnInv, SoloInv, NEW r \in Rebuild, RebuildStep(r), Observe
    PROVE  SoloInv'
  <1> SUFFICES ASSUME ~harmed', ~overlapped'
               PROVE  /\ Running' = {} => AtRest'
                      /\ \A p \in Running' : Fallback(p)'
    BY DEF SoloInv
  <1>1. ~harmed /\ ~overlapped
    <2>1. harmed => harmed'
      BY Zenon DEF RebuildStep, RunByHand, Checksums, Backup, Build, Smoke, Down, Mark, Up, Health,
                   Restore, Redown, Reup, Terminate, Kill
    <2>2. QED BY <2>1, Alone
  <1>2. \A p \in Running' : p = r
    <2> SUFFICES ASSUME NEW p \in Running' PROVE p = r OBVIOUS
    <2>1. CASE r \in Running' BY <2>1, Alone
    <2>2. CASE r \notin Running'
      <3>1. r \in Running BY <2>2, RebuildMoves
      <3>2. p # r => p \in Running BY RebuildMoves DEF Running
      <3>3. QED BY <1>1, <3>1, <3>2 DEF OwnInv
    <2>3. QED BY <2>1, <2>2
  <1>3. r \in Running => Fallback(r) /\ Placed(r) BY <1>1 DEF SoloInv, OwnInv
  <1>4. ASSUME rebuild[r].pc = "idle" PROVE rebuild[r] = NoRebuild /\ AtRest
    <2>1. r \notin Running BY <1>4 DEF Running, Deploying, RollingBack
    <2>2. r \in Running' BY <2>1, RebuildMoves
    <2>3. \A p \in Running : p # r => p \in Running' BY RebuildMoves DEF Running
    <2>4. Running = {} BY <2>1, <2>3, <1>2
    <2>5. QED BY <1>1, <1>4, <2>4 DEF OwnInv, SoloInv
  <1>5. /\ r \in Running' => Fallback(r)'
        /\ r \notin Running' => AtRest'
    BY <1>1, <1>3, <1>4, RebuildShrinks, SoloStep
  <1>6. QED BY <1>2, <1>5

\* A bridge touches the stack and the rebuilds only by launching one.
LEMMA SoloBridge ==
    ASSUME TypeOK, OwnInv, SoloInv, NEW b \in Bridge, BridgeStep(b), Observe
    PROVE  OwnInv' /\ SoloInv'
  <1>u. UNCHANGED <<tag, container, harmed>> BY DEF BridgeStep, elsewhere, stackVars
  <1>1. CASE UNCHANGED rebuild
    <2>1. /\ Running' = Running /\ (Unmoved' <=> Unmoved) /\ (AtRest' <=> AtRest)
          /\ \A r \in Rebuild : (Placed(r)' <=> Placed(r)) /\ (Fallback(r)' <=> Fallback(r))
      BY <1>1, <1>u DEF Running, Unmoved, AtRest, Good, Placed, Fallback
    <2>2. Running \subseteq Rebuild BY DEF Running
    <2>3. ~overlapped' => ~overlapped BY Alone
    <2>4. OwnInv' BY <1>1, <2>1, <2>2, <2>3 DEF OwnInv
    <2>5. SoloInv' BY <1>u, <2>1, <2>2, <2>3 DEF SoloInv
    <2>6. QED BY <2>4, <2>5
  <1>2. CASE Launch(b)
    <2>1. PICK r \in Rebuild : rebuild[r].pc = "idle" /\ Go(r, "sums") BY <1>2, Launches
    <2>2. rebuild[r] = NoRebuild BY <2>1 DEF OwnInv
    <2>3. /\ rebuild'[r].pc = "sums" /\ rebuild'[r].backup = None /\ rebuild'[r].stopped = FALSE
          /\ rebuild'[r].failed = {}
          /\ \A q \in Rebuild : q # r => rebuild'[q] = rebuild[q]
      BY <2>1, <2>2, Went DEF NoRebuild
    <2>4. r \in Running' BY <2>3 DEF Running, Deploying
    <2>5. ~overlapped' => \A p \in Running' : p = r BY <2>4, Alone
    <2>6. Placed(r)' BY <2>3 DEF Placed
    <2>7. \A q \in Rebuild : rebuild'[q].pc = "idle" => rebuild'[q] = NoRebuild
      BY <2>3 DEF OwnInv
    <2>8. OwnInv' BY <2>5, <2>6, <2>7 DEF OwnInv
    <2>9. ASSUME ~harmed', ~overlapped' PROVE Fallback(r)'
      <3>1. Running = {}
        <4>1. r \notin Running BY <2>1 DEF Running, Deploying, RollingBack
        <4>2. \A p \in Running : p # r => p \in Running' BY <2>3 DEF Running
        <4>3. QED BY <4>1, <4>2, <2>5, <2>9
      <3>2. AtRest BY <3>1, <1>u, <2>9, Alone DEF SoloInv
      <3>3. Unmoved => Unmoved' BY <2>1, <2>3 DEF Unmoved
      <3>4. AtRest' BY <1>u, <3>2, <3>3 DEF AtRest, Good
      <3>5. QED BY <2>3, <3>4 DEF Fallback, AtRest
    <2>10. SoloInv' BY <2>4, <2>5, <2>9 DEF SoloInv
    <2>11. QED BY <2>8, <2>10
  <1>3. UNCHANGED rebuild \/ Launch(b)
    BY BridgeMoves DEF Call, Queue, Expire
  <1>4. QED BY <1>1, <1>2, <1>3

-----------------------------------------------------------------------------
(***************************************************************************)
(* The invariant and the theorems.                                         *)
(***************************************************************************)
\* The steps of a chat touch nothing but the session and what was seen of it.
LEMMA ChatStep ==
    ASSUME IInv, Chat \/ ChatAges, Observe
    PROVE  QueueInv' /\ LaunchInv' /\ ChatInv' /\ OwnInv' /\ SoloInv'
  <1>1. UNCHANGED <<tag, container, bridge, rebuild, harmed>> BY DEF Chat, ChatAges, stackVars
  <1>2. /\ Running' = Running /\ (ByHand' <=> ByHand) /\ (Unmoved' <=> Unmoved)
        /\ (Decided' <=> Decided) /\ (AtRest' <=> AtRest)
        /\ \A r \in Rebuild : (Placed(r)' <=> Placed(r)) /\ (Fallback(r)' <=> Fallback(r))
    BY <1>1 DEF Running, ByHand, Unmoved, Decided, AtRest, Good, Placed, Fallback
  <1>3. Running \subseteq Rebuild BY DEF Running
  <1>4. (~raced' => ~raced) /\ (~overlapped' => ~overlapped) BY DEF Observe
  <1>5. QueueInv' BY <1>1 DEF IInv, QueueInv, Queued
  <1>6. LaunchInv' BY <1>1, <1>2, <1>4 DEF IInv, LaunchInv
  <1>7. ChatInv' BY <1>2 DEF ChatInv, Chat, ChatAges
  <1>8. OwnInv' BY <1>1, <1>2, <1>3, <1>4 DEF IInv, OwnInv
  <1>9. SoloInv' BY <1>1, <1>2, <1>3, <1>4 DEF IInv, SoloInv
  <1>10. QED BY <1>5, <1>6, <1>7, <1>8, <1>9

LEMMA Inductive ==
    ASSUME IInv, [Next]_vars
    PROVE  IInv'
  <1>t. TypeOK' BY TypeStep DEF IInv
  <1>1. CASE UNCHANGED vars
    BY <1>1, <1>t DEF vars, IInv, QueueInv, Queued, LaunchInv, ChatInv, OwnInv, SoloInv, Running, ByHand,
                Unmoved, Decided, AtRest, Good, Placed, Fallback
  <1>2. ASSUME Observe, NEW b \in Bridge, BridgeStep(b) PROVE IInv'
    BY <1>2, <1>t, QueueBridge, LaunchBridge, ChatBridge, SoloBridge DEF IInv
  <1>3. ASSUME Observe, NEW r \in Rebuild, RebuildStep(r) PROVE IInv'
    <2>1. QueueInv' BY <1>3 DEF IInv, QueueInv, Queued, RebuildStep
    <2>2. QED BY <1>3, <1>t, <2>1, LaunchRebuild, ChatRebuild, OwnRebuild, SoloRebuild DEF IInv
  <1>4. ASSUME Observe, Chat \/ ChatAges PROVE IInv'
    BY <1>4, <1>t, ChatStep DEF IInv
  <1>5. QED BY <1>1, <1>2, <1>3, <1>4 DEF Next

LEMMA InvInit == Init => IInv
  <1> SUFFICES ASSUME Init PROVE IInv OBVIOUS
  <1>1. Running = {} BY DEF Init, Running, NoRebuild, Deploying, RollingBack
  <1>2. \A b \in Bridge : bridge[b].pc = "idle" /\ ~bridge[b].waiter BY DEF Init, NoBridge
  <1>3. QueueInv BY <1>2 DEF QueueInv, Queued
  <1>4. LaunchInv BY <1>1, <1>2 DEF LaunchInv
  <1>5. ChatInv BY <1>1, <1>2 DEF ChatInv, Decided
  <1>6. OwnInv BY <1>1 DEF Init, OwnInv
  <1>7. SoloInv
    <2>1. AtRest BY NoImageAssumption, TypeInit DEF Init, AtRest, Good, FirstImage, TypeOK
    <2>2. QED BY <1>1, <2>1 DEF SoloInv
  <1>8. QED BY <1>3, <1>4, <1>5, <1>6, <1>7, TypeInit DEF IInv

LEMMA Invariance == Spec => []IInv
  BY InvInit, Inductive, PTL DEF Spec

\* Every variable keeps to its values.
THEOREM TypeCorrect == Spec => []TypeOK
  <1>1. IInv => TypeOK BY DEF IInv
  <1>2. QED BY <1>1, Invariance, PTL

\* Whatever command fails or signal comes, except those named in the property, a
\* rebuild that ends leaves a stack that serves (vulpy-hermes-rebuild.sh).
THEOREM RollbackServes == Spec => []ServesAfterwards
  <1>1. IInv => ServesAfterwards BY DEF IInv, SoloInv, AtRest, ServesAfterwards
  <1>2. QED BY <1>1, Invariance, PTL

\* And the name then names what runs.
THEOREM RollbackRenames == Spec => []NameIsWhatRuns
  <1>1. IInv => NameIsWhatRuns BY DEF IInv, SoloInv, AtRest, Unmoved, NameIsWhatRuns
  <1>2. QED BY <1>1, Invariance, PTL

\* A rebuild stops the stack only with an image that can start it.
THEOREM SmokeProtects == Spec => []PoisonNeverStopsStack
  <1>1. ASSUME IInv PROVE PoisonNeverStopsStack
    <2> SUFFICES ASSUME ~harmed, ~overlapped, tag.quality = "poison" PROVE container # None
      BY DEF PoisonNeverStopsStack
    <2>1. Running # {} BY <1>1 DEF IInv, SoloInv, AtRest
    <2>2. PICK r \in Running : Fallback(r) BY <1>1, <2>1 DEF IInv, SoloInv
    <2>3. rebuild[r].pc \in {"sums", "backup", "build", "smoke", "restore"} /\ ~rebuild[r].stopped
      BY <2>2 DEF Fallback, Running, Deploying, RollingBack
    <2>4. rebuild[r].backup # None
      BY <2>2 DEF Fallback, AtRest
    <2>5. container = rebuild[r].backup \/ AtRest BY <2>2, <2>3, <2>4 DEF Fallback
    <2>6. QED BY <2>4, <2>5 DEF AtRest, Good
  <1>2. QED BY <1>1, Invariance, PTL

\* Guard 2 keeps rebuilds apart unless two launches pass it at a time.
THEOREM RebuildsExclude == Spec => []OneRebuildUnlessRaced
  <1>1. IInv => OneRebuildUnlessRaced BY DEF IInv, LaunchInv, ByHand, OneRebuildUnlessRaced
  <1>2. QED BY <1>1, Invariance, PTL

\* The queue never holds two waiters, whoever calls when.
THEOREM QueueHasOnePlace == Spec => []OneWaiter
  <1>1. IInv => OneWaiter BY DEF IInv, QueueInv, Queued, OneWaiter
  <1>2. QED BY <1>1, Invariance, PTL

\* Only a health check that has found the stack serving reports success.
LEMMA OnlyHealth ==
    ASSUME TypeOK, Next, NEW r \in Rebuild, rebuild[r].pc = "health",
           rebuild'[r].pc = "succeeded"
    PROVE  container # None
  <1>1. ASSUME RebuildStep(r) PROVE container # None
    <2>1. ~Terminate(r) /\ ~Kill(r) BY Went DEF Terminate, Kill
    <2>2. Health(r)
      BY <1>1, <2>1 DEF RebuildStep, RunByHand, NextRebuild, Checksums, Backup, Build, Smoke, Down,
                        Mark, Up, Restore, Redown, Reup
    <2>3. QED BY <2>2, Went DEF Health
  <1>2. ASSUME NEW q \in Rebuild, RebuildStep(q) PROVE q = r
    BY <1>2, RebuildMoves
  <1>3. ASSUME NEW b \in Bridge, BridgeStep(b) PROVE FALSE
    <2>1. UNCHANGED rebuild \/ Launch(b) BY <1>3, BridgeMoves DEF Call, Queue, Expire
    <2>2. CASE Launch(b) BY <2>2, Launches, Went
    <2>3. QED BY <2>1, <2>2
  <1>4. ASSUME Chat \/ ChatAges PROVE FALSE BY <1>4 DEF Chat, ChatAges
  <1>5. QED BY <1>1, <1>2, <1>3, <1>4 DEF Next

\* Success means that the image just built serves, with the exceptions named.
THEOREM SuccessTold == Spec => SuccessIsNew
  <1>1. ASSUME IInv, [Next]_vars
        PROVE  [\A r \in Rebuild : rebuild[r].pc = "health" /\ rebuild'[r].pc = "succeeded" =>
                   container.by = r \/ rebuild[r].failed = {"down", "up"} \/ overlapped]_vars
    <2> SUFFICES ASSUME Next, NEW r \in Rebuild, rebuild[r].pc = "health",
                        rebuild'[r].pc = "succeeded", ~overlapped
                 PROVE  container.by = r \/ rebuild[r].failed = {"down", "up"}
      BY <1>1
    <2>1. r \in Running BY DEF Running, Deploying
    <2>2. Placed(r) BY <1>1, <2>1 DEF IInv, OwnInv
    <2>3. container # None BY <1>1, OnlyHealth DEF IInv
    <2>4. QED BY <2>2, <2>3 DEF Placed
  <1>2. QED BY <1>1, Invariance, PTL DEF Spec, SuccessIsNew

\* No chat that the guards could have seen is torn down.
THEOREM ChatsSurvive == Spec => ChatsKept
  <1>1. ASSUME IInv, [Next]_vars
        PROVE  [active /\ container # None /\ container' # container =>
                   lateChat \/ \E r \in Rebuild : rebuild[r].byHand]_vars
    <2> SUFFICES ASSUME Next, active, container' # container, ~lateChat PROVE ByHand
      BY <1>1 DEF ByHand
    <2>1. ~Decided \/ ByHand BY <1>1 DEF IInv, ChatInv
    <2>2. ASSUME NEW r \in Rebuild, RebuildStep(r) PROVE Decided
      <3>1. ~RunByHand(r) BY DEF RunByHand, stackVars
      <3>2. r \in Running BY <1>1, <2>2, <3>1, RebuildMoves DEF IInv
      <3>3. QED BY <3>2 DEF Decided
    <2>3. \E r \in Rebuild : RebuildStep(r)
      BY DEF Next, BridgeStep, elsewhere, stackVars, Chat, ChatAges
    <2>4. QED BY <2>1, <2>2, <2>3
  <1>2. QED BY <1>1, Invariance, PTL DEF Spec, ChatsKept
=============================================================================
