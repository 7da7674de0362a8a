-------------------------- MODULE AgentCmd_proofs --------------------------
(***************************************************************************)
(* Proofs about the agent command bridge, for any number of daemons,       *)
(* requests, kinds of request and faults.                                  *)
(*                                                                         *)
(* The lock argument: as long as no lock outlived its TTL and no response  *)
(* write failed, nobody steals; so the lock belongs to the one daemon that *)
(* is between creating and releasing it, or to a daemon that died there,   *)
(* and a live push was started by the owner of the lock.                   *)
(*                                                                         *)
(* The argument about answers: a daemon that has dropped no id and lost no *)
(* response write finds whatever it has run or declined in its cache.      *)
(***************************************************************************)
EXTENDS AgentCmd, FiniteSetTheorems, TLAPS

Holding == {"launch", "run", "drain", "settle"}
Locking == {"create", "stat", "unlink", "recreate"}

\* d is past creating the lock and before releasing it.
Holder(d) == pc[d] \in Holding /\ kind[cur[d]] = "push"

\* The loop points of d agree with its process and its current request.
LoopInv ==
    \A d \in Daemon :
        /\ pc[d] = "off" <=> ~Alive(d)
        /\ pc[d] \in Holding \cup Locking => cur[d] \in Req
        /\ pc[d] \in Locking => kind[cur[d]] = "push"

\* Whatever happens, a lock was created by a daemon that is dead or holding.
OwnerInv ==
    Locked => \/ up[lock.owner] = "dead"
              \/ Alive(lock.owner) /\ Holder(lock.owner)

\* Undisrupted, holders own the lock and pushes belong to the owner.
ExclusionInv ==
    disrupted = {} =>
        /\ Locked => ~lock.old
        /\ \A d \in Daemon : pc[d] \notin {"unlink", "recreate"}
        /\ \A d \in Daemon : Holder(d) => Locked /\ lock.owner = d
        /\ \A c \in PushChild :
             /\ Locked /\ lock.owner = c[1]
             /\ \/ up[c[1]] = "dead"
                \/ pc[c[1]] = "run" /\ cur[c[1]] = c[2]
        /\ \A c1, c2 \in PushChild : c1 = c2

IInv == TypeOK /\ LoopInv /\ OwnerInv /\ ExclusionInv

-----------------------------------------------------------------------------
(***************************************************************************)
(* Type correctness.                                                       *)
(***************************************************************************)
LEMMA FamilyType == \A k : Family(k) \in Families
  BY DEF Family, Families

\* A request file is gone or as it was, whether it could be unlinked or not.
LEMMA UnlinkType ==
    ASSUME TypeOK, NEW r \in Req, TryUnlink(r)
    PROVE  reqFile' \in [Req -> {"none", "fresh", "stale"}]
  <1>1. PICK f \in {"none", reqFile[r]} : reqFile' = [reqFile EXCEPT ![r] = f]
    BY DEF TryUnlink
  <1>2. QED BY <1>1 DEF TypeOK

\* The processed cache stays a sequence of requests.
LEMMA MarkType ==
    ASSUME TypeOK, NEW d \in Daemon, NEW r \in Req, MarkProcessed(d, r)
    PROVE  /\ processed' \in [Daemon -> Seq(Req)]
           /\ evicted' \in [Daemon -> BOOLEAN]
  <1> DEFINE longer == IF r \in Seen(d) THEN processed[d] ELSE Append(processed[d], r)
  <1>1. longer \in Seq(Req)
    BY DEF TypeOK
  <1>2. Len(longer) > MaxProcessed => longer # <<>>
    BY CacheAssumption
  <1>3. Len(longer) > MaxProcessed => Tail(longer) \in Seq(Req)
    BY <1>1, <1>2
  <1> HIDE DEF longer
  <1>4. CASE Len(longer) > MaxProcessed
    <2>1. /\ processed' = [processed EXCEPT ![d] = Tail(longer)]
          /\ evicted' = [evicted EXCEPT ![d] = TRUE]
      BY <1>4 DEF MarkProcessed, longer
    <2>2. QED BY <1>3, <1>4, <2>1 DEF TypeOK
  <1>5. CASE ~(Len(longer) > MaxProcessed)
    <2>1. /\ processed' = [processed EXCEPT ![d] = longer]
          /\ evicted' = evicted
      BY <1>5 DEF MarkProcessed, longer
    <2>2. QED BY <1>1, <2>1 DEF TypeOK
  <1>6. QED BY <1>4, <1>5

LEMMA TypeInit == Init => TypeOK
  BY RateAssumption DEF Init, TypeOK, Verdict, LoopPoint, Families

\* The steps of the clients keep the types.
LEMMA TypeClient ==
    ASSUME TypeOK, NEW r \in Req, ClientStep(r)
    PROVE  TypeOK'
  <1> USE DEF TypeOK, clientVars, serverVars, loopVars, cacheVars, historyVars, Verdict
  <1>1. CASE Submit(r) BY <1>1 DEF Submit
  <1>2. CASE Leave(r)
    <2>1. PICK f \in {"none", reqFile[r]} : reqFile' = [reqFile EXCEPT ![r] = f]
      BY <1>2 DEF Leave
    <2>2. QED BY <1>2, <2>1 DEF Leave
  <1>3. CASE ReadResponse(r) \/ GiveUp(r) BY <1>2, <1>3 DEF ReadResponse, GiveUp
  <1>4. CASE RequestAges(r) BY <1>4 DEF RequestAges
  <1>5. QED BY <1>1, <1>2, <1>3, <1>4 DEF ClientStep

\* So does a daemon that is started, ends or is killed.
LEMMA TypeLife ==
    ASSUME TypeOK, NEW d \in Daemon, StartServer(d) \/ Shutdown(d) \/ Crash(d)
    PROVE  TypeOK'
  <1> USE RateAssumption DEF TypeOK, clientVars, serverVars, loopVars, cacheVars,
          historyVars, LoopPoint
  <1>1. CASE StartServer(d) BY <1>1 DEF StartServer
  <1>2. CASE Shutdown(d) BY <1>2 DEF Shutdown, Dies, Families
  <1>3. CASE Crash(d) BY <1>3 DEF Crash, Dies, Families
  <1>4. QED BY <1>1, <1>2, <1>3

LEMMA TypeStop ==
    ASSUME TypeOK, NEW wipe \in BOOLEAN, StopServer(wipe)
    PROVE  TypeOK'
  BY DEF StopServer, TypeOK, loopVars, cacheVars, historyVars

\* So does the ageing of the lock.
LEMMA TypeAges ==
    ASSUME TypeOK, LockAges
    PROVE  TypeOK'
  <1>1. lock \in [owner : Daemon, old : BOOLEAN]
    BY DEF LockAges, Locked, TypeOK
  <1>2. lock' \in [owner : Daemon, old : BOOLEAN]
    BY <1>1 DEF LockAges
  <1>3. disrupted' \subseteq {"expired", "broken"}
    BY DEF LockAges, TypeOK
  <1>4. UNCHANGED <<clientVars, serverVars, loopVars, cacheVars, spent, child, ran,
                    succeeded>>
    BY DEF LockAges
  <1> HIDE DEF LockAges
  <1>5. QED BY <1>2, <1>3, <1>4 DEF TypeOK, clientVars, serverVars, loopVars, cacheVars

\* So do the steps of the request loop.
LEMMA TypeScan ==
    ASSUME TypeOK, NEW d \in Daemon, NEW f \in Families,
           ScanStep(d) \/ WindowSlides(d, f)
    PROVE  TypeOK'
  <1> USE DEF clientVars, serverVars, loopVars, cacheVars, historyVars
  <1>1. CASE Tick(d) BY <1>1 DEF Tick, TypeOK
  <1>2. ASSUME NEW r \in Req, Skip(d, r) PROVE TypeOK'
    <2>1. reqFile' \in [Req -> {"none", "fresh", "stale"}]
      BY <1>2, UnlinkType DEF Skip, TypeOK
    <2>2. QED BY <1>2, <2>1 DEF Skip, TypeOK
  <1>3. ASSUME NEW r \in Req, AbandonTick(d, r) PROVE TypeOK'
    BY <1>3 DEF AbandonTick, TypeOK
  <1>4. ASSUME NEW r \in Req, Reject(d, r) PROVE TypeOK'
    <2>1. MarkProcessed(d, r) /\ TryUnlink(r)
      BY <1>4 DEF Reject, Answer
    <2>2. PICK v \in Verdict : Publish(r, v)
      BY <1>4 DEF Reject, Answer, Verdict
    <2>3. /\ queue' = [queue EXCEPT ![d] = @ \ {r}]
          /\ UNCHANGED <<kind, client, serverVars, pc, cur, exit, spent, lock,
                         child, historyVars>>
      BY <1>4 DEF Reject
    <2>4. QED BY <2>1, <2>2, <2>3, MarkType, UnlinkType DEF Publish, TypeOK, Verdict
  <1>5. ASSUME NEW r \in Req, Admit(d, r) PROVE TypeOK'
    <2>1. kind[r] \in Mutating =>
            /\ Family(kind[r]) \in Families
            /\ spent[d][Family(kind[r])] \in 0 .. MaxRate
            /\ spent[d][Family(kind[r])] + 1 \in 0 .. MaxRate
      BY <1>5, FamilyType, RateAssumption DEF Admit, WithinRate, TypeOK
    <2>2. spent' \in [Daemon -> [Families -> 0 .. MaxRate]]
      BY <1>5, <2>1 DEF Admit, TypeOK
    <2>3. QED BY <1>5, <2>2 DEF Admit, TypeOK, LoopPoint
  <1>6. CASE WindowSlides(d, f)
    <2>1. spent[d][f] - 1 \in 0 .. MaxRate
      BY <1>6, RateAssumption DEF WindowSlides, TypeOK
    <2>2. QED BY <1>6, <2>1 DEF WindowSlides, TypeOK
  <1>7. QED BY <1>1, <1>2, <1>3, <1>4, <1>5, <1>6 DEF ScanStep

\* So do the steps on the lock file; they need a current request.
LEMMA TypeLock ==
    ASSUME TypeOK, LoopInv, NEW d \in Daemon, LockFileStep(d)
    PROVE  TypeOK'
  <1> USE DEF clientVars, serverVars, loopVars, cacheVars, historyVars,
          LockFrame, LockStep, Goto, OwnLock
  <1>1. ASSUME LockRefused(d), LockFrame, cur[d] \in Req PROVE TypeOK'
    <2>1. MarkProcessed(d, cur[d]) /\ TryUnlink(cur[d]) /\ Publish(cur[d], "refused")
      BY <1>1 DEF LockRefused, Answer
    <2>2. QED BY <1>1, <2>1, MarkType, UnlinkType
            DEF LockRefused, Publish, TypeOK, Verdict, LoopPoint
  <1>2. CASE CreateLock(d)
    <2>1. CASE OwnLock(d) /\ Goto(d, "launch")
      BY <1>2, <2>1 DEF CreateLock, TypeOK, LoopPoint
    <2>2. CASE Goto(d, "stat") /\ UNCHANGED lock
      BY <1>2, <2>2 DEF CreateLock, TypeOK, LoopPoint
    <2>3. QED BY <1>2, <2>1, <2>2 DEF CreateLock
  <1>3. CASE StatLock(d)
    <2>1. cur[d] \in Req BY <1>3 DEF StatLock, LoopInv, Locking
    <2>2. CASE Goto(d, "unlink") /\ LockStep /\ UNCHANGED lock
      BY <1>3, <2>2 DEF StatLock, TypeOK, LoopPoint
    <2>3. QED BY <1>1, <1>3, <2>1, <2>2 DEF StatLock
  <1>4. CASE StealLock(d) BY <1>4 DEF StealLock, TypeOK, LoopPoint
  <1>5. CASE RecreateLock(d)
    <2>1. cur[d] \in Req BY <1>5 DEF RecreateLock, LoopInv, Locking
    <2>2. CASE OwnLock(d) /\ Goto(d, "launch") /\ LockStep
      BY <1>5, <2>2 DEF RecreateLock, TypeOK, LoopPoint
    <2>3. QED BY <1>1, <1>5, <2>1, <2>2 DEF RecreateLock
  <1>6. QED BY <1>2, <1>3, <1>4, <1>5 DEF LockFileStep

\* So do the steps that run a command.
LEMMA TypeRun ==
    ASSUME TypeOK, LoopInv, NEW d \in Daemon,
           RunStep(d) \/ SpawnFails(d) \/ StreamBreaks(d)
    PROVE  TypeOK'
  <1> USE DEF clientVars, serverVars, loopVars, cacheVars, historyVars, Goto
  <1>1. CASE Launch(d)
    <2>1. cur[d] \in Req BY <1>1 DEF Launch, LoopInv, Holding
    <2>2. resp' \in [Req -> {"none"} \cup Verdict]
      BY <1>1, <2>1 DEF Launch, Publish, TypeOK
    <2>3. ran' \in [Daemon -> SUBSET Req] /\ child' \subseteq Daemon \X Req
      BY <1>1, <2>1 DEF Launch, TypeOK
    <2>4. pc' \in [Daemon -> LoopPoint]
      BY <1>1 DEF Launch, TypeOK, LoopPoint
    <2>5. UNCHANGED <<kind, reqFile, client, serverVars, queue, cur, exit,
                      cacheVars, spent, lock, succeeded, disrupted>>
      BY <1>1 DEF Launch
    <2>6. QED BY <2>2, <2>3, <2>4, <2>5 DEF TypeOK
  <1>2. CASE Respond(d)
    <2>1. cur[d] \in Req BY <1>2 DEF Respond, LoopInv, Holding
    <2>2. QED BY <1>2, <2>1 DEF Respond, Publish, TypeOK, LoopPoint, Verdict
  <1>3. CASE Settle(d)
    <2>1. cur[d] \in Req BY <1>3 DEF Settle, LoopInv, Holding
    <2>2. QED BY <1>3, <2>1, MarkType, UnlinkType
            DEF Settle, ReleaseLock, TypeOK, LoopPoint
  <1>4. ASSUME NEW h \in {"ok", "failed"}, ChildExits(d, h) PROVE TypeOK'
    <2>1. cur[d] \in Req BY <1>4 DEF ChildExits, LoopInv, Holding
    <2>2. QED BY <1>4, <2>1 DEF ChildExits, TypeOK, LoopPoint
  <1>5. CASE SpawnFails(d)
    BY <1>5 DEF SpawnFails, Escape, ReleaseLock, TypeOK, LoopPoint
  <1>6. CASE StreamBreaks(d)
    <2>1. cur[d] \in Req BY <1>6 DEF StreamBreaks, LoopInv, Holding
    <2>2. CASE Escape(d) /\ UNCHANGED resp
      BY <1>6, <2>2 DEF StreamBreaks, Escape, ReleaseLock, TypeOK, LoopPoint
    <2>3. CASE Publish(cur[d], "failed") /\ Goto(d, "settle") /\ UNCHANGED <<queue, cur, lock>>
      BY <1>6, <2>1, <2>3 DEF StreamBreaks, Publish, TypeOK, LoopPoint, Verdict
    <2>4. QED BY <1>6, <2>2, <2>3 DEF StreamBreaks
  <1>7. QED BY <1>1, <1>2, <1>3, <1>4, <1>5, <1>6 DEF RunStep

LEMMA TypeOrphan ==
    ASSUME TypeOK, NEW d \in Daemon, NEW r \in Req, NEW how \in {"ok", "failed"},
           OrphanExits(d, r, how)
    PROVE  TypeOK'
  BY DEF OrphanExits, TypeOK, clientVars, serverVars, loopVars, cacheVars

-----------------------------------------------------------------------------
(***************************************************************************)
(* The invariant.                                                          *)
(***************************************************************************)
\* All the invariants look at.
core == <<kind, up, pc, cur, lock, child, disrupted>>

\* The steps that change it.
CoreStep(d) ==
    \/ StartServer(d) \/ Dies(d) \/ (\E wipe \in BOOLEAN : StopServer(wipe))
    \/ (\E r \in Req : Admit(d, r))
    \/ CreateLock(d) \/ StatLock(d) \/ StealLock(d) \/ RecreateLock(d) \/ LockAges
    \/ Launch(d) \/ Respond(d) \/ Settle(d) \/ SpawnFails(d) \/ StreamBreaks(d)
    \/ (\E how \in {"ok", "failed"} : ChildExits(d, how))
    \/ (\E r \in Req, how \in {"ok", "failed"} : OrphanExits(d, r, how))

LEMMA InvInit == Init => LoopInv /\ OwnerInv /\ ExclusionInv
  BY NoneAssumption DEF Init, LoopInv, OwnerInv, ExclusionInv, Holder, Holding, Locking, Locked,
     Alive, PushChild

LEMMA InvCore ==
    ASSUME LoopInv, OwnerInv, ExclusionInv, UNCHANGED core
    PROVE  LoopInv' /\ OwnerInv' /\ ExclusionInv'
  BY DEF LoopInv, OwnerInv, ExclusionInv, Holder, Locked, Alive, PushChild, core

LEMMA LoopInvStep ==
    ASSUME IInv, NEW d \in Daemon, CoreStep(d)
    PROVE  LoopInv'
  <1> USE NoneAssumption DEF IInv, TypeOK, LoopPoint, Goto, Holding, Locking, clientVars,
          serverVars, loopVars, cacheVars, historyVars, LoopInv,
          Alive
  <1>1. CASE StartServer(d) BY <1>1 DEF StartServer
  <1>2. ASSUME NEW wipe \in BOOLEAN, StopServer(wipe) PROVE LoopInv'
    BY <1>2 DEF StopServer
  <1>3. CASE Dies(d) BY <1>3 DEF Dies
  <1>4. ASSUME NEW r \in Req, Admit(d, r) PROVE LoopInv'
    BY <1>4 DEF Admit, Fresh, Next1, WithinRate
  <1>5. CASE CreateLock(d) BY <1>5 DEF CreateLock, OwnLock, LockStep, LockFrame
  <1>6. CASE StatLock(d) BY <1>6 DEF StatLock, LockRefused, LockStep, LockFrame
  <1>7. CASE StealLock(d) BY <1>7 DEF StealLock, LockStep, LockFrame
  <1>8. CASE RecreateLock(d)
    BY <1>8 DEF RecreateLock, OwnLock, LockRefused, LockStep, LockFrame
  <1>9. CASE LockAges BY <1>9 DEF LockAges
  <1>10. CASE Launch(d) BY <1>10 DEF Launch
  <1>11. CASE Respond(d) BY <1>11 DEF Respond
  <1>12. CASE Settle(d) BY <1>12 DEF Settle, ReleaseLock
  <1>13. ASSUME NEW how \in {"ok", "failed"}, ChildExits(d, how) PROVE LoopInv'
    BY <1>13 DEF ChildExits
  <1>14. ASSUME NEW r \in Req, NEW how \in {"ok", "failed"}, OrphanExits(d, r, how)
         PROVE  LoopInv'
    BY <1>14 DEF OrphanExits
  <1>15. CASE SpawnFails(d) BY <1>15 DEF SpawnFails, Escape, ReleaseLock
  <1>16. CASE StreamBreaks(d) BY <1>16 DEF StreamBreaks, Escape, ReleaseLock
  <1>17. QED BY <1>1, <1>2, <1>3, <1>4, <1>5, <1>6, <1>7, <1>8, <1>9, <1>10, <1>11,
               <1>12, <1>13, <1>14, <1>15, <1>16
            DEF CoreStep

LEMMA OwnerInvStep ==
    ASSUME IInv, NEW d \in Daemon, CoreStep(d)
    PROVE  OwnerInv'
  <1> USE NoneAssumption DEF IInv, TypeOK, LoopPoint, Goto, Holding, Locking, clientVars,
          serverVars, loopVars, cacheVars, historyVars, OwnerInv,
          LoopInv, Locked, Alive, Holder
  <1>1. CASE StartServer(d) BY <1>1 DEF StartServer
  <1>2. ASSUME NEW wipe \in BOOLEAN, StopServer(wipe) PROVE OwnerInv'
    BY <1>2 DEF StopServer
  <1>3. CASE Dies(d) BY <1>3 DEF Dies
  <1>4. ASSUME NEW r \in Req, Admit(d, r) PROVE OwnerInv'
    BY <1>4 DEF Admit, Fresh, Next1, WithinRate
  <1>5. CASE CreateLock(d) BY <1>5 DEF CreateLock, OwnLock, LockStep, LockFrame
  <1>6. CASE StatLock(d) BY <1>6 DEF StatLock, LockRefused, LockStep, LockFrame
  <1>7. CASE StealLock(d) BY <1>7 DEF StealLock, LockStep, LockFrame
  <1>8. CASE RecreateLock(d)
    BY <1>8 DEF RecreateLock, OwnLock, LockRefused, LockStep, LockFrame
  <1>9. CASE LockAges BY <1>9 DEF LockAges
  <1>10. CASE Launch(d) BY <1>10 DEF Launch
  <1>11. CASE Respond(d) BY <1>11 DEF Respond
  <1>12. CASE Settle(d) BY <1>12 DEF Settle, ReleaseLock
  <1>13. ASSUME NEW how \in {"ok", "failed"}, ChildExits(d, how) PROVE OwnerInv'
    BY <1>13 DEF ChildExits
  <1>14. ASSUME NEW r \in Req, NEW how \in {"ok", "failed"}, OrphanExits(d, r, how)
         PROVE  OwnerInv'
    BY <1>14 DEF OrphanExits
  <1>15. CASE SpawnFails(d) BY <1>15 DEF SpawnFails, Escape, ReleaseLock
  <1>16. CASE StreamBreaks(d) BY <1>16 DEF StreamBreaks, Escape, ReleaseLock
  <1>17. QED BY <1>1, <1>2, <1>3, <1>4, <1>5, <1>6, <1>7, <1>8, <1>9, <1>10, <1>11,
               <1>12, <1>13, <1>14, <1>15, <1>16
            DEF CoreStep

\* A fresh lock is a lock.
LEMMA OwnLockType ==
    ASSUME NEW d \in Daemon, OwnLock(d)
    PROVE  Locked' /\ lock'.owner = d /\ ~lock'.old
  <1>1. lock' = [owner |-> d, old |-> FALSE]
    BY DEF OwnLock
  <1>2. lock' \in [owner : Daemon, old : BOOLEAN]
    BY <1>1
  <1>3. lock' # None
    BY <1>2, NoneAssumption
  <1>4. lock'.owner = d /\ ~lock'.old
    BY <1>1
  <1>5. QED BY <1>3, <1>4 DEF Locked

LEMMA ExclusionInvStep ==
    ASSUME IInv, NEW d \in Daemon, CoreStep(d)
    PROVE  ExclusionInv'
  <1> USE NoneAssumption DEF IInv, TypeOK, LoopPoint, Goto, Holding, Locking, clientVars,
          serverVars, loopVars, cacheVars, historyVars, ExclusionInv,
          OwnerInv, LoopInv, Locked, Alive, Holder, PushChild
  <1>1. CASE StartServer(d) BY <1>1 DEF StartServer
  <1>2. ASSUME NEW wipe \in BOOLEAN, StopServer(wipe) PROVE ExclusionInv'
    BY <1>2 DEF StopServer
  <1>3. CASE Dies(d) BY <1>3 DEF Dies
  <1>4. ASSUME NEW r \in Req, Admit(d, r) PROVE ExclusionInv'
    BY <1>4 DEF Admit, Fresh, Next1, WithinRate
  <1>5. CASE CreateLock(d)
    <2>1. CASE ~Locked /\ OwnLock(d) /\ Goto(d, "launch")
      <3>1. disrupted = {} => PushChild = {} /\ \A e \in Daemon : ~Holder(e)
        BY <2>1
      <3>2. Locked' /\ lock'.owner = d /\ ~lock'.old
        BY <2>1, OwnLockType
      <3>3. UNCHANGED <<kind, up, cur, child, disrupted>> /\ pc' = [pc EXCEPT ![d] = "launch"]
        BY <1>5, <2>1 DEF CreateLock, LockStep, LockFrame
      <3>4. QED BY <3>1, <3>2, <3>3
    <2>2. CASE Locked /\ Goto(d, "stat") /\ UNCHANGED lock
      BY <1>5, <2>2 DEF CreateLock, LockStep, LockFrame
    <2>3. QED BY <1>5, <2>1, <2>2 DEF CreateLock
  <1>6. CASE StatLock(d)
    <2>1. CASE Locked /\ lock.old
      BY <1>6, <2>1 DEF StatLock, LockStep, LockFrame
    <2>2. CASE LockRefused(d)
      BY <1>6, <2>2 DEF StatLock, LockRefused, LockFrame
    <2>3. QED BY <1>6, <2>1, <2>2 DEF StatLock
  <1>7. CASE StealLock(d) BY <1>7 DEF StealLock, LockStep, LockFrame
  <1>8. CASE RecreateLock(d)
    BY <1>8 DEF RecreateLock, OwnLock, LockRefused, LockStep, LockFrame
  <1>9. CASE LockAges BY <1>9 DEF LockAges
  <1>10. CASE Launch(d)
    <2>1. cur[d] \in Req /\ Alive(d)
      BY <1>10 DEF Launch
    <2>2. disrupted = {} /\ kind[cur[d]] = "push" => PushChild = {}
      <3>1. SUFFICES ASSUME disrupted = {}, kind[cur[d]] = "push", NEW c \in PushChild
                     PROVE  FALSE
        OBVIOUS
      <3>2. pc[d] = "launch" /\ up[d] # "dead" /\ lock.owner = d
        BY <1>10, <2>1, <3>1 DEF Launch
      <3>3. c[1] = d
        BY <3>1, <3>2
      <3>4. up[c[1]] = "dead" \/ pc[c[1]] = "run"
        BY <3>1
      <3>5. QED BY <3>2, <3>3, <3>4
    <2>3. PushChild' = IF kind[cur[d]] = "push" THEN PushChild \cup {<<d, cur[d]>>}
                                               ELSE PushChild
      BY <1>10, <2>1 DEF Launch
    <2>4. /\ UNCHANGED <<kind, up, cur, lock, disrupted>>
          /\ pc' = [pc EXCEPT ![d] = "run"]
      BY <1>10 DEF Launch
    <2> HIDE DEF PushChild
    <2>5. CASE kind[cur[d]] = "push"
      <3>1. SUFFICES ASSUME disrupted = {} PROVE ExclusionInv'
        BY <2>4
      <3>2. Locked /\ lock.owner = d /\ ~lock.old
        BY <1>10, <2>1, <2>5, <3>1 DEF Launch
      <3>3. PushChild' = {<<d, cur[d]>>}
        BY <2>2, <2>3, <2>5, <3>1
      <3>4. pc'[d] = "run" /\ cur'[d] = cur[d]
        BY <2>4
      <3>5. \A e \in Daemon : Holder(e)' => e = d
        BY <2>4, <3>1, <3>2
      <3>6. \A c \in PushChild' :
              /\ (Locked /\ lock.owner = c[1])'
              /\ pc'[c[1]] = "run" /\ cur'[c[1]] = c[2]
        BY <2>4, <3>2, <3>3, <3>4
      <3>7. \A c1, c2 \in PushChild' : c1 = c2
        BY <3>3
      <3>8. \A e \in Daemon : pc'[e] \notin {"unlink", "recreate"}
        BY <2>4, <3>1
      <3>9. (Locked => ~lock.old)' /\ \A e \in Daemon : Holder(e)' => (Locked /\ lock.owner = e)'
        BY <2>4, <3>2, <3>5
      <3> HIDE DEF Holder, Locked
      <3>10. QED BY <3>6, <3>7, <3>8, <3>9
    <2>6. CASE kind[cur[d]] # "push"
      BY <2>1, <2>3, <2>4, <2>6, <1>10 DEF Launch
    <2>7. QED BY <2>5, <2>6
  <1>11. CASE Respond(d) BY <1>11 DEF Respond
  <1>12. CASE Settle(d) BY <1>12 DEF Settle, ReleaseLock
  <1>13. ASSUME NEW how \in {"ok", "failed"}, ChildExits(d, how) PROVE ExclusionInv'
    BY <1>13 DEF ChildExits
  <1>14. ASSUME NEW r \in Req, NEW how \in {"ok", "failed"}, OrphanExits(d, r, how)
         PROVE  ExclusionInv'
    BY <1>14 DEF OrphanExits
  <1>15. CASE SpawnFails(d) BY <1>15 DEF SpawnFails, Escape, ReleaseLock
  <1>16. CASE StreamBreaks(d) BY <1>16 DEF StreamBreaks, Escape, ReleaseLock
  <1>17. QED BY <1>1, <1>2, <1>3, <1>4, <1>5, <1>6, <1>7, <1>8, <1>9, <1>10, <1>11,
               <1>12, <1>13, <1>14, <1>15, <1>16
            DEF CoreStep

-----------------------------------------------------------------------------
(***************************************************************************)
(* Every step keeps the invariant.                                         *)
(***************************************************************************)
LEMMA CoreStepKeepsInv ==
    ASSUME IInv, NEW d \in Daemon, CoreStep(d), TypeOK'
    PROVE  IInv'
  BY LoopInvStep, OwnerInvStep, ExclusionInvStep DEF IInv

LEMMA CoreKeptKeepsInv ==
    ASSUME IInv, UNCHANGED core, TypeOK'
    PROVE  IInv'
  BY InvCore DEF IInv

LEMMA ClientKeepsInv ==
    ASSUME IInv, NEW r \in Req, ClientStep(r)
    PROVE  IInv'
  <1>1. TypeOK'
    BY TypeClient DEF IInv
  <1>2. UNCHANGED core
    BY DEF ClientStep, Submit, ReadResponse, GiveUp, Leave, RequestAges, core,
           serverVars, loopVars, historyVars
  <1>3. QED BY <1>1, <1>2, CoreKeptKeepsInv

LEMMA ScanKeepsInv ==
    ASSUME IInv, NEW d \in Daemon, ScanStep(d)
    PROVE  IInv'
  <1>1. TypeOK'
    BY TypeScan DEF IInv, Families
  <1>2. CASE \E r \in Req : Admit(d, r)
    BY <1>1, <1>2, CoreStepKeepsInv DEF CoreStep
  <1>3. CASE \/ Tick(d)
             \/ \E r \in Req : Skip(d, r) \/ AbandonTick(d, r) \/ Reject(d, r)
    <2>1. UNCHANGED core
      BY <1>3 DEF Tick, Skip, AbandonTick, Reject, core, clientVars, serverVars,
                  historyVars
    <2>2. QED BY <1>1, <2>1, CoreKeptKeepsInv
  <1>4. QED BY <1>2, <1>3 DEF ScanStep

LEMMA ServerKeepsInv ==
    ASSUME IInv, NEW d \in Daemon, ServerStep(d)
    PROVE  IInv'
  <1>1. CASE ScanStep(d)
    BY <1>1, ScanKeepsInv
  <1>2. CASE LockFileStep(d)
    <2>1. CoreStep(d) BY <1>2 DEF LockFileStep, CoreStep
    <2>2. QED BY <1>2, <2>1, TypeLock, CoreStepKeepsInv DEF IInv
  <1>3. CASE RunStep(d)
    <2>1. CoreStep(d) BY <1>3 DEF RunStep, CoreStep
    <2>2. QED BY <1>3, <2>1, TypeRun, CoreStepKeepsInv DEF IInv
  <1>4. CASE Shutdown(d)
    <2>1. CoreStep(d) BY <1>4 DEF Shutdown, CoreStep
    <2>2. QED BY <1>4, <2>1, TypeLife, CoreStepKeepsInv DEF IInv
  <1>5. QED BY <1>1, <1>2, <1>3, <1>4 DEF ServerStep

LEMMA DisturbanceKeepsInv ==
    ASSUME IInv, Disturbance
    PROVE  IInv'
  <1>1. ASSUME NEW d \in Daemon, StartServer(d) \/ Crash(d) PROVE IInv'
    <2>1. CoreStep(d) BY <1>1 DEF Crash, CoreStep
    <2>2. QED BY <1>1, <2>1, TypeLife, CoreStepKeepsInv DEF IInv
  <1>2. ASSUME NEW d \in Daemon, SpawnFails(d) \/ StreamBreaks(d) PROVE IInv'
    <2>1. CoreStep(d) BY <1>2 DEF CoreStep
    <2>2. QED BY <1>2, <2>1, TypeRun, CoreStepKeepsInv DEF IInv
  <1>3. ASSUME NEW wipe \in BOOLEAN, StopServer(wipe) PROVE IInv'
    <2>1. pidFile \in Daemon BY <1>3 DEF StopServer, IInv, TypeOK
    <2>2. CoreStep(pidFile) BY <1>3 DEF CoreStep
    <2>3. QED BY <1>3, <2>1, <2>2, TypeStop, CoreStepKeepsInv DEF IInv
  <1>4. CASE LockAges
    <2>1. lock.owner \in Daemon BY <1>4 DEF LockAges, Locked, IInv, TypeOK
    <2>2. CoreStep(lock.owner) BY <1>4 DEF CoreStep
    <2>3. QED BY <1>4, <2>1, <2>2, TypeAges, CoreStepKeepsInv DEF IInv
  <1>5. ASSUME NEW d \in Daemon, NEW f \in Families, WindowSlides(d, f) PROVE IInv'
    <2>1. UNCHANGED core
      BY <1>5 DEF WindowSlides, core, clientVars, serverVars, loopVars, historyVars
    <2>2. QED BY <1>5, <2>1, TypeScan, CoreKeptKeepsInv DEF IInv
  <1>6. ASSUME NEW d \in Daemon, NEW r \in Req, NEW how \in {"ok", "failed"},
               OrphanExits(d, r, how)
        PROVE  IInv'
    <2>1. CoreStep(d) BY <1>6 DEF CoreStep
    <2>2. QED BY <1>6, <2>1, TypeOrphan, CoreStepKeepsInv DEF IInv
  <1>7. QED BY <1>1, <1>2, <1>3, <1>4, <1>5, <1>6 DEF Disturbance

LEMMA StutterKeepsInv ==
    ASSUME IInv, UNCHANGED vars
    PROVE  IInv'
  <1>1. TypeOK'
    BY DEF IInv, TypeOK, vars, clientVars, serverVars, loopVars, cacheVars, historyVars
  <1>2. UNCHANGED core
    BY DEF core, vars, clientVars, serverVars, loopVars, historyVars
  <1>3. QED BY <1>1, <1>2, CoreKeptKeepsInv

-----------------------------------------------------------------------------
\* IInv, the strengthening of the three properties below, holds in every
\* reachable state of the bridge.
THEOREM InductiveInvariant == Spec => []IInv
  <1>1. Init => IInv
    BY TypeInit, InvInit DEF IInv
  <1>2. IInv /\ [Next]_vars => IInv'
    <2>1. ASSUME IInv, Next PROVE IInv'
      BY <2>1, ClientKeepsInv, ServerKeepsInv, DisturbanceKeepsInv DEF Next
    <2>2. QED BY <2>1, StutterKeepsInv
  <1>3. QED BY <1>1, <1>2, PTL DEF Spec

\* No state variable of the bridge leaves its type: in particular no rate
\* bucket grows beyond RATE_LIMIT_MAX (allow_rate).
THEOREM TypeCorrect == Spec => []TypeOK
  <1>1. IInv => TypeOK
    BY DEF IInv
  <1>2. QED BY <1>1, InductiveInvariant, PTL

\* For any number of daemons and requests, and whatever crashes, restarts and
\* failing spawns: while no lock outlived its TTL and no response write failed,
\* at most one env.push is running (acquire_env_lockfile).
THEOREM PushesExclude == Spec => []PushExclusive
  <1>1. IInv => PushExclusive
    BY DEF IInv, ExclusionInv, PushExclusive
  <1>2. QED BY <1>1, InductiveInvariant, PTL

\* The lock of a live daemon is the lock of the push that daemon is handling:
\* no path through handle_request leaves it behind (the finally clause).
THEOREM LocksAreOwned == Spec => []LockHasOwner
  <1>1. IInv => LockHasOwner
    BY DEF IInv, OwnerInv, LockHasOwner, Alive, Holder, Holding
  <1>2. QED BY <1>1, InductiveInvariant, PTL

-----------------------------------------------------------------------------
(***************************************************************************)
(* What answers mean.                                                      *)
(***************************************************************************)
Running == {"run", "drain", "settle"}
Starting == Locking \cup {"launch"}

\* An answer "ok", written or about to be, has a child that ended well.
ResultInv ==
    /\ \A r \in Req : resp[r] = "ok" => r \in succeeded
    /\ \A d \in Daemon : exit[d] = "ok" => pc[d] = "drain" /\ cur[d] \in succeeded

\* d remembers what it has done: no id was dropped, no response write failed.
Intact(d) == ~evicted[d] /\ "broken" \notin disrupted

\* Then what d has run is in its cache or is running, and what it is about to run is not.
Memory(d) ==
    /\ ~Alive(d) => ran[d] = {}
    /\ Intact(d) =>
         /\ \A r \in ran[d] : r \in Seen(d) \/ (pc[d] \in Running /\ r = cur[d])
         /\ pc[d] \in Starting => cur[d] \notin Seen(d)
MemoryInv == \A d \in Daemon : Memory(d)

Born == {d \in Daemon : up[d] # "unborn"}
Single == \A d, e \in Born : d = e
Declined(r) == resp[r] \in {"refused", "limited"}

\* The only daemon remembers what it has declined, and has not run it.
RefusalInv ==
    /\ IsFiniteSet(Born)
    /\ Born = {} => \A r \in Req : resp[r] = "none"
    /\ Single /\ (\A d \in Daemon : Intact(d)) =>
         \A r \in Req : Declined(r) =>
             \A d \in Daemon : Alive(d) => r \in Seen(d) /\ r \notin ran[d]

AnswerInv == ResultInv /\ MemoryInv /\ RefusalInv

LEMMA AnswerInit == Init => AnswerInv
  <1> SUFFICES ASSUME Init PROVE AnswerInv
    OBVIOUS
  <1>1. ResultInv
    BY DEF Init, ResultInv
  <1>2. MemoryInv
    BY DEF Init, MemoryInv, Memory, Alive, Starting, Locking
  <1>3. Born = {}
    BY DEF Init, Born
  <1>4. \A r \in Req : resp[r] = "none"
    BY DEF Init
  <1>5. IsFiniteSet(Born)
    BY <1>3, FS_EmptySet
  <1> QED
    BY <1>1, <1>2, <1>4, <1>5 DEF AnswerInv, RefusalInv, Declined

\* What marking a request does to the caches.
LEMMA Marked ==
    ASSUME TypeOK, NEW d \in Daemon, NEW r \in Req, MarkProcessed(d, r)
    PROVE  /\ ~evicted'[d] => ~evicted[d] /\ Seen(d)' = Seen(d) \cup {r}
           /\ \A e \in Daemon \ {d} : evicted'[e] = evicted[e] /\ Seen(e)' = Seen(e)
  <1> DEFINE longer == IF r \in Seen(d) THEN processed[d] ELSE Append(processed[d], r)
  <1>1. CASE Len(longer) > MaxProcessed
    <2>1. /\ processed' = [processed EXCEPT ![d] = Tail(longer)]
          /\ evicted' = [evicted EXCEPT ![d] = TRUE]
      BY <1>1 DEF MarkProcessed
    <2> HIDE DEF longer
    <2> QED
      BY <2>1 DEF TypeOK, Seen
  <1>2. CASE ~ (Len(longer) > MaxProcessed)
    <2>1. processed' = [processed EXCEPT ![d] = longer] /\ evicted' = evicted
      BY <1>2 DEF MarkProcessed
    <2>2. Seen(d)' = Seen(d) \cup {r}
      <3>1. processed'[d] = longer /\ processed[d] \in Seq(Req)
        BY <2>1 DEF TypeOK
      <3>2. CASE r \in Seen(d)
        BY <3>1, <3>2 DEF Seen
      <3>3. CASE r \notin Seen(d)
        <4>1. processed'[d] = Append(processed[d], r)
          BY <3>1, <3>3
        <4> QED
          BY <3>1, <4>1 DEF Seen
      <3> QED
        BY <3>2, <3>3
    <2>3. \A e \in Daemon \ {d} : processed'[e] = processed[e]
      BY <2>1 DEF TypeOK
    <2> QED
      BY <2>1, <2>2, <2>3 DEF Seen
  <1> QED
    BY <1>1, <1>2

-----------------------------------------------------------------------------
\* A step that marks nothing and starts no command.
LEMMA QuietMemory ==
    ASSUME MemoryInv, UNCHANGED <<processed, evicted, ran>>, disrupted \subseteq disrupted',
           \A e \in Daemon : Alive(e) => Alive(e)',
           \A e \in Daemon : "broken" \in disrupted' \/
               /\ pc[e] \in Running => pc'[e] \in Running /\ cur'[e] = cur[e]
               /\ pc'[e] \in Starting =>
                      (pc[e] \in Starting /\ cur'[e] = cur[e]) \/ cur'[e] \notin Seen(e)
    PROVE  MemoryInv'
  <1>1. \A e \in Daemon : Seen(e)' = Seen(e)
    BY DEF Seen
  <1> QED
    BY <1>1 DEF MemoryInv, Memory, Intact

LEMMA QuietRefusal ==
    ASSUME RefusalInv, UNCHANGED <<processed, evicted, ran>>, disrupted \subseteq disrupted', Born' = Born,
           \A e \in Daemon : Alive(e)' => Alive(e),
           \A r \in Req : resp'[r] = resp[r] \/ (~ Declined(r)' /\ (Born # {} \/ resp'[r] = "none"))
    PROVE  RefusalInv'
  <1>1. \A e \in Daemon : Seen(e)' = Seen(e)
    BY DEF Seen
  <1>2. Single' => Single
    BY DEF Single
  <1>3. (\A d \in Daemon : Intact(d))' => \A d \in Daemon : Intact(d)
    BY DEF Intact
  <1> QED
    BY <1>1, <1>2, <1>3 DEF RefusalInv, Declined

\* A step that marks the request at hand.
LEMMA MarkMemory ==
    ASSUME TypeOK, MemoryInv, NEW d \in Daemon, NEW r \in Req, MarkProcessed(d, r),
           UNCHANGED <<up, ran, disrupted>>,
           pc' = [pc EXCEPT ![d] = "scan"], pc[d] \in Running => r = cur[d],
           \A e \in Daemon \ {d} : cur'[e] = cur[e]
    PROVE  MemoryInv'
  <1>1. /\ ~evicted'[d] => ~evicted[d] /\ Seen(d)' = Seen(d) \cup {r}
        /\ \A e \in Daemon \ {d} : evicted'[e] = evicted[e] /\ Seen(e)' = Seen(e)
    BY Marked
  <1>2. \A e \in Daemon : pc'[e] = IF e = d THEN "scan" ELSE pc[e]
    BY DEF TypeOK
  <1>3. Memory(d)'
    BY <1>1, <1>2 DEF MemoryInv, Memory, Intact, Alive, Running, Starting, Locking
  <1>4. \A e \in Daemon \ {d} : Memory(e)'
    BY <1>1, <1>2 DEF MemoryInv, Memory, Intact, Alive
  <1> QED
    BY <1>3, <1>4 DEF MemoryInv

LEMMA MarkRefusal ==
    ASSUME TypeOK, RefusalInv, NEW d \in Daemon, NEW r \in Req, MarkProcessed(d, r),
           UNCHANGED <<up, ran, disrupted>>, Alive(d),
           \A q \in Req : \/ resp'[q] = resp[q] \/ ~ Declined(q)'
                          \/ q = r /\ (Intact(d) => r \notin ran[d])
    PROVE  RefusalInv'
  <1>1. /\ ~evicted'[d] => ~evicted[d] /\ Seen(d)' = Seen(d) \cup {r}
        /\ \A e \in Daemon \ {d} : evicted'[e] = evicted[e] /\ Seen(e)' = Seen(e)
    BY Marked
  <1>2. Born' = Born /\ d \in Born
    BY DEF Born, Alive
  <1>3. (\A e \in Daemon : Intact(e))' => \A e \in Daemon : Intact(e)
    BY <1>1 DEF Intact
  <1>4. ASSUME Single, \A e \in Daemon : Intact(e)', NEW q \in Req, Declined(q)', NEW e \in Daemon, Alive(e)'
        PROVE  q \in Seen(e)' /\ q \notin ran'[e]
    <2>1. e = d
      BY <1>2, <1>4 DEF Single, Born, Alive
    <2>2. Intact(d) /\ Intact(d)'
      BY <1>3, <1>4
    <2>3. Seen(d)' = Seen(d) \cup {r}
      BY <1>1, <2>2 DEF Intact
    <2>4. CASE resp'[q] = resp[q]
      <3>1. q \in Seen(d) /\ q \notin ran[d]
        BY <1>3, <1>4, <2>4 DEF RefusalInv, Declined
      <3> QED
        BY <2>1, <2>3, <3>1
    <2>5. CASE q = r /\ r \notin ran[d]
      BY <2>1, <2>3, <2>5
    <2> QED
      BY <1>4, <2>2, <2>4, <2>5
  <1>5. Single' => Single
    BY <1>2 DEF Single
  <1> QED
    BY <1>2, <1>4, <1>5 DEF RefusalInv

-----------------------------------------------------------------------------
\* What an answer "ok" rests on, step by step.
LEMMA ResultKept ==
    ASSUME ResultInv, succeeded \subseteq succeeded',
           \A r \in Req : resp'[r] = "ok" => resp[r] = "ok" \/ r \in succeeded',
           \A d \in Daemon : exit'[d] = "ok" =>
               \/ exit[d] = "ok" /\ pc'[d] = pc[d] /\ cur'[d] = cur[d]
               \/ pc'[d] = "drain" /\ cur'[d] \in succeeded'
    PROVE  ResultInv'
  BY DEF ResultInv

\* The steps of the clients, and of the operator who stops the daemon.
LEMMA ClientAnswers ==
    ASSUME IInv, AnswerInv, NEW r \in Req, ClientStep(r)
    PROVE  AnswerInv'
  <1>1. UNCHANGED <<up, pc, cur, exit, processed, evicted, ran, succeeded, disrupted>>
    BY DEF ClientStep, Submit, ReadResponse, GiveUp, Leave, RequestAges, serverVars, loopVars, cacheVars,
           historyVars
  <1>2. \A q \in Req : resp'[q] = resp[q] \/ resp'[q] = "none"
    BY DEF ClientStep, Submit, ReadResponse, GiveUp, Leave, RequestAges, IInv, TypeOK
  <1> QED
    BY <1>1, <1>2, ResultKept, QuietMemory, QuietRefusal DEF AnswerInv, Alive, Born, Declined

LEMMA StopAnswers ==
    ASSUME IInv, AnswerInv, NEW wipe \in BOOLEAN, StopServer(wipe)
    PROVE  AnswerInv'
  <1>1. UNCHANGED <<pc, cur, exit, processed, evicted, ran, succeeded, disrupted>>
    BY DEF StopServer, loopVars, cacheVars, historyVars
  <1>2. \A q \in Req : resp'[q] = resp[q] \/ resp'[q] = "none"
    BY DEF StopServer, IInv, TypeOK
  <1>3. \A e \in Daemon : (Alive(e)' <=> Alive(e)) /\ (up'[e] = "unborn" <=> up[e] = "unborn")
    BY DEF StopServer, IInv, TypeOK, Alive
  <1>4. Born' = Born
    BY <1>3 DEF Born
  <1> QED
    BY <1>1, <1>2, <1>3, <1>4, ResultKept, QuietMemory, QuietRefusal DEF AnswerInv, Declined

\* A daemon starts with an empty memory: before the first one nobody has been answered.
LEMMA StartAnswers ==
    ASSUME IInv, AnswerInv, NEW d \in Daemon, StartServer(d)
    PROVE  AnswerInv'
  <1>1. UNCHANGED <<resp, cur, exit, processed, evicted, ran, succeeded, disrupted>>
    BY DEF StartServer, clientVars, cacheVars, historyVars
  <1>2. /\ up[d] = "unborn" /\ pc[d] = "off"
        /\ \A e \in Daemon : /\ up'[e] = IF e = d THEN "up" ELSE up[e]
                             /\ pc'[e] = IF e = d THEN "scan" ELSE pc[e]
    <2>1. up[d] = "unborn" /\ up' = [up EXCEPT ![d] = "up"] /\ pc' = [pc EXCEPT ![d] = "scan"]
      BY DEF StartServer
    <2>2. pc[d] = "off"
      BY <2>1 DEF IInv, LoopInv, Alive
    <2> QED
      BY <2>1, <2>2 DEF IInv, TypeOK
  <1>3. ResultInv'
    BY <1>1, <1>2, ResultKept DEF AnswerInv, ResultInv
  <1>4. MemoryInv'
    BY <1>1, <1>2, QuietMemory DEF AnswerInv, Alive, Running, Starting, Locking
  <1>5. Born' = Born \cup {d} /\ d \notin Born
    BY <1>2 DEF Born
  <1>6. IsFiniteSet(Born')
    BY <1>5, FS_AddElement DEF AnswerInv, RefusalInv
  <1>7. Single' => Born = {}
    BY <1>5 DEF Single
  <1> QED
    BY <1>1, <1>3, <1>4, <1>5, <1>6, <1>7 DEF AnswerInv, RefusalInv, Declined

\* A daemon that ends forgets, and nobody is left to run what it has declined.
LEMMA EndAnswers ==
    ASSUME IInv, AnswerInv, NEW d \in Daemon, Dies(d), Alive(d)
    PROVE  AnswerInv'
  <1>1. UNCHANGED <<resp, succeeded, disrupted>>
    BY DEF Dies, clientVars
  <1>2. \A e \in Daemon : /\ up'[e] = IF e = d THEN "dead" ELSE up[e]
                          /\ pc'[e] = IF e = d THEN "off" ELSE pc[e]
                          /\ cur'[e] = IF e = d THEN None ELSE cur[e]
                          /\ exit'[e] = IF e = d THEN "failed" ELSE exit[e]
                          /\ ran'[e] = IF e = d THEN {} ELSE ran[e]
                          /\ evicted'[e] = IF e = d THEN FALSE ELSE evicted[e]
                          /\ e # d => processed'[e] = processed[e]
    BY DEF Dies, IInv, TypeOK
  <1>3. ResultInv'
    BY <1>1, <1>2, ResultKept DEF AnswerInv
  <1>4. ASSUME NEW e \in Daemon \ {d} PROVE Seen(e)' = Seen(e)
    <2>1. processed'[e] = processed[e]
      BY <1>2
    <2> QED
      BY <2>1 DEF Seen
  <1>5. MemoryInv'
    <2>1. Memory(d)'
      BY <1>2 DEF Memory, Starting, Locking
    <2>2. \A e \in Daemon \ {d} : Memory(e)'
      BY <1>1, <1>2, <1>4 DEF AnswerInv, MemoryInv, Memory, Intact, Alive
    <2> QED
      BY <2>1, <2>2 DEF MemoryInv
  <1>6. Born' = Born /\ d \in Born
    BY <1>2 DEF Born, Alive
  <1>7. Single' => \A e \in Daemon : ~ Alive(e)'
    BY <1>2, <1>6 DEF Single, Born, Alive
  <1> QED
    BY <1>1, <1>3, <1>5, <1>6, <1>7 DEF AnswerInv, RefusalInv

\* The request loop.
LEMMA DeclineAnswers ==
    ASSUME IInv, AnswerInv, NEW d \in Daemon, NEW r \in Req, NEW verdict \in {"refused", "limited"},
           Answer(d, r, verdict), r \notin Seen(d), Alive(d), pc[d] \notin Running,
           pc' = [pc EXCEPT ![d] = "scan"], pc[d] \in Starting => r = cur[d], exit[d] # "ok" \/ pc[d] # "drain",
           UNCHANGED <<up, exit, ran, succeeded, disrupted>>, \A e \in Daemon \ {d} : cur'[e] = cur[e]
    PROVE  AnswerInv'
  <1>1. MarkProcessed(d, r) /\ Publish(r, verdict)
    BY DEF Answer
  <1>2. \A q \in Req : resp'[q] = resp[q] \/ resp'[q] = "none" \/ (q = r /\ resp'[q] = verdict)
    BY <1>1 DEF Publish, IInv, TypeOK
  <1>3. exit[d] # "ok" /\ \A e \in Daemon \ {d} : pc'[e] = pc[e]
    BY DEF AnswerInv, ResultInv, IInv, TypeOK
  <1>4. ResultInv'
    BY <1>2, <1>3, ResultKept DEF AnswerInv
  <1>5. Intact(d) => r \notin ran[d]
    BY DEF AnswerInv, MemoryInv, Memory
  <1>6. MemoryInv'
    BY <1>1, MarkMemory DEF IInv, AnswerInv
  <1>7. RefusalInv'
    BY <1>1, <1>2, <1>5, MarkRefusal DEF IInv, AnswerInv, Declined
  <1> QED
    BY <1>4, <1>6, <1>7 DEF AnswerInv

LEMMA ScanAnswers ==
    ASSUME IInv, AnswerInv, NEW d \in Daemon, ScanStep(d)
    PROVE  AnswerInv'
  <1>1. ASSUME UNCHANGED <<resp, up, pc, cur, exit, processed, evicted, ran, succeeded, disrupted>>
        PROVE  AnswerInv'
    BY <1>1, ResultKept, QuietMemory, QuietRefusal DEF AnswerInv, Alive, Born
  <1>2. CASE Tick(d) \/ \E r \in Req : Skip(d, r) \/ AbandonTick(d, r)
    BY <1>1, <1>2 DEF Tick, Skip, AbandonTick, clientVars, serverVars, cacheVars, historyVars
  <1>3. ASSUME NEW r \in Req, Reject(d, r) PROVE AnswerInv'
    <2>1. PICK verdict \in {"refused", "limited"} : Answer(d, r, verdict)
      BY <1>3 DEF Reject
    <2>2. r \notin Seen(d) /\ Alive(d) /\ pc[d] = "scan"
      BY <1>3 DEF Reject, Fresh, Next1, Alive
    <2>3. UNCHANGED <<up, pc, cur, exit, ran, succeeded, disrupted>>
      BY <1>3 DEF Reject, serverVars, historyVars
    <2>4. pc' = [pc EXCEPT ![d] = "scan"]
      BY <2>2, <2>3 DEF IInv, TypeOK
    <2> QED
      BY <2>1, <2>2, <2>3, <2>4, DeclineAnswers DEF Running, Starting, Locking
  <1>4. ASSUME NEW r \in Req, Admit(d, r) PROVE AnswerInv'
    <2>1. r \notin Seen(d) /\ pc[d] = "scan"
      BY <1>4 DEF Admit, Fresh, Next1
    <2>2. UNCHANGED <<resp, up, exit, processed, evicted, ran, succeeded, disrupted>>
      BY <1>4 DEF Admit, clientVars, serverVars, cacheVars, historyVars
    <2>3. /\ \A e \in Daemon \ {d} : pc'[e] = pc[e] /\ cur'[e] = cur[e]
          /\ cur'[d] = r /\ pc'[d] \notin Running
      BY <1>4 DEF Admit, IInv, TypeOK, Running
    <2>4. exit[d] # "ok"
      BY <2>1 DEF AnswerInv, ResultInv
    <2>5. ResultInv'
      BY <2>2, <2>3, <2>4, ResultKept DEF AnswerInv
    <2>6. MemoryInv'
      BY <2>1, <2>2, <2>3, QuietMemory DEF AnswerInv, Alive, Running
    <2>7. RefusalInv'
      BY <2>2, QuietRefusal DEF AnswerInv, Alive, Born
    <2> QED
      BY <2>5, <2>6, <2>7 DEF AnswerInv
  <1> QED
    BY <1>2, <1>3, <1>4 DEF ScanStep

\* The lock file: its steps only matter by where they lead, and by the refusal.
LEMMA LockAnswers ==
    ASSUME IInv, AnswerInv, NEW d \in Daemon, LockFileStep(d)
    PROVE  AnswerInv'
  <1>1. /\ pc[d] \in Locking /\ Alive(d) /\ cur[d] \in Req
        /\ UNCHANGED <<up, exit, ran, succeeded, disrupted>>
    BY DEF LockFileStep, CreateLock, StatLock, StealLock, RecreateLock, LockFrame, Locking, IInv, LoopInv,
           serverVars, historyVars
  <1>2. ASSUME LockRefused(d) PROVE AnswerInv'
    <2>1. /\ Answer(d, cur[d], "refused") /\ pc' = [pc EXCEPT ![d] = "scan"]
          /\ \A e \in Daemon \ {d} : cur'[e] = cur[e]
      BY <1>2 DEF LockRefused, Goto, IInv, TypeOK
    <2>2. CASE Intact(d)
      <3>1. cur[d] \notin Seen(d)
        BY <1>1, <2>2 DEF AnswerInv, MemoryInv, Memory, Starting
      <3> QED
        BY <1>1, <2>1, <3>1, DeclineAnswers DEF Running, Locking
    <2>3. CASE ~ Intact(d)
      <3>1. MarkProcessed(d, cur[d]) /\ Publish(cur[d], "refused")
        BY <2>1 DEF Answer
      <3>2. \A q \in Req : resp'[q] = resp[q] \/ resp'[q] = "none" \/ (q = cur[d] /\ resp'[q] = "refused")
        BY <3>1 DEF Publish, IInv, TypeOK
      <3>3. exit[d] # "ok" /\ \A e \in Daemon \ {d} : pc'[e] = pc[e]
        BY <1>1, <2>1 DEF AnswerInv, ResultInv, IInv, TypeOK, Locking
      <3>4. ResultInv'
        BY <1>1, <2>1, <3>2, <3>3, ResultKept DEF AnswerInv
      <3>5. MemoryInv'
        BY <1>1, <2>1, <3>1, MarkMemory DEF IInv, AnswerInv
      <3>6. RefusalInv'
        BY <1>1, <2>3, <3>1, <3>2, MarkRefusal DEF IInv, AnswerInv, Declined
      <3> QED
        BY <3>4, <3>5, <3>6 DEF AnswerInv
    <2> QED
      BY <2>2, <2>3
  <1>3. ASSUME NEW point \in Locking \cup {"launch"}, Goto(d, point), LockStep PROVE AnswerInv'
    <2>1. UNCHANGED <<resp, cur, processed, evicted>>
      BY <1>3 DEF LockStep, cacheVars
    <2>2. \A e \in Daemon : pc'[e] = IF e = d THEN point ELSE pc[e]
      BY <1>3 DEF Goto, IInv, TypeOK
    <2>3. exit[d] # "ok"
      BY <1>1 DEF AnswerInv, ResultInv, Locking
    <2>4. ResultInv'
      BY <1>1, <2>1, <2>2, <2>3, ResultKept DEF AnswerInv
    <2>5. MemoryInv'
      BY <1>1, <1>3, <2>1, <2>2, QuietMemory DEF AnswerInv, Alive, Running, Starting, Locking
    <2>6. RefusalInv'
      BY <1>1, <2>1, QuietRefusal DEF AnswerInv, Alive, Born
    <2> QED
      BY <2>4, <2>5, <2>6 DEF AnswerInv
  <1> QED
    BY <1>2, <1>3 DEF LockFileStep, CreateLock, StatLock, StealLock, RecreateLock, Locking

-----------------------------------------------------------------------------
\* Starting a command: it was not in the cache, so nobody has been told that it was declined.
LEMMA LaunchAnswers ==
    ASSUME IInv, AnswerInv, NEW d \in Daemon, Launch(d)
    PROVE  AnswerInv'
  <1>1. /\ pc[d] = "launch" /\ cur[d] \in Req /\ Alive(d)
        /\ UNCHANGED <<up, cur, exit, processed, evicted, succeeded, disrupted>>
    BY DEF Launch, IInv, LoopInv, Holding, serverVars, cacheVars
  <1>2. \A e \in Daemon : /\ pc'[e] = IF e = d THEN "run" ELSE pc[e]
                          /\ ran'[e] = IF e = d THEN ran[e] \cup {cur[d]} ELSE ran[e]
    BY DEF Launch, Goto, IInv, TypeOK
  <1>3. \A q \in Req : resp'[q] = resp[q] \/ resp'[q] = "none"
    BY <1>1 DEF Launch, Publish, IInv, TypeOK
  <1>4. \A e \in Daemon : Seen(e)' = Seen(e)
    BY <1>1 DEF Seen
  <1>5. ResultInv'
    BY <1>1, <1>2, <1>3, ResultKept DEF AnswerInv, ResultInv
  <1>6. MemoryInv'
    <2>1. ASSUME NEW e \in Daemon PROVE Memory(e) /\ (Intact(e)' <=> Intact(e)) /\ (Alive(e)' <=> Alive(e))
      BY <1>1 DEF AnswerInv, MemoryInv, Intact, Alive
    <2>2. \A e \in Daemon \ {d} : Memory(e)'
      BY <1>1, <1>2, <1>4, <2>1 DEF Memory
    <2>3. pc'[d] = "run" /\ ran'[d] = ran[d] \cup {cur[d]} /\ Seen(d)' = Seen(d) /\ cur'[d] = cur[d]
      BY <1>1, <1>2, <1>4
    <2>4. Memory(d)'
      BY <1>1, <2>1, <2>3 DEF Memory, Running, Starting, Locking
    <2> QED
      BY <2>2, <2>4 DEF MemoryInv
  <1>7. Intact(d) => cur[d] \notin Seen(d)
    BY <1>1 DEF AnswerInv, MemoryInv, Memory, Starting
  <1>8. Born' = Born
    BY <1>1 DEF Born
  <1>9. d \in Born
    BY <1>1 DEF Born, Alive
  <1>10. ASSUME Single, \A e \in Daemon : Intact(e), NEW q \in Req, Declined(q)', NEW e \in Daemon, Alive(e)
         PROVE  q \in Seen(e)' /\ q \notin ran'[e]
    <2>1. Declined(q)
      BY <1>3, <1>10 DEF Declined
    <2>2. q \in Seen(e) /\ q \notin ran[e]
      BY <1>10, <2>1 DEF AnswerInv, RefusalInv
    <2>3. q # cur[d]
      BY <1>1, <1>7, <1>10, <2>1 DEF AnswerInv, RefusalInv
    <2> QED
      BY <1>2, <1>4, <2>2, <2>3
  <1>11. RefusalInv'
    <2>1. (Single' => Single) /\ \A e \in Daemon : (Intact(e)' <=> Intact(e)) /\ (Alive(e)' <=> Alive(e))
      BY <1>1, <1>8 DEF Single, Intact, Alive
    <2> QED
      BY <1>8, <1>9, <1>10, <2>1 DEF AnswerInv, RefusalInv
  <1> QED
    BY <1>5, <1>6, <1>11 DEF AnswerInv

\* The steps after it, but for the last, go on to another point or drop the request.
LEMMA RunAnswers ==
    ASSUME IInv, AnswerInv, NEW d \in Daemon,
           \/ Respond(d) \/ SpawnFails(d) \/ StreamBreaks(d)
           \/ \E how \in {"ok", "failed"} : ChildExits(d, how)
    PROVE  AnswerInv'
  <1>1. /\ pc[d] \in {"launch", "run", "drain"} /\ cur[d] \in Req /\ Alive(d)
        /\ UNCHANGED <<up, processed, evicted, ran>>
    BY DEF Respond, SpawnFails, StreamBreaks, ChildExits, IInv, LoopInv, Holding, serverVars, cacheVars,
           historyVars
  <1>2. /\ succeeded \subseteq succeeded' /\ disrupted \subseteq disrupted'
        /\ pc[d] # "drain" => exit[d] # "ok"
    BY DEF Respond, SpawnFails, StreamBreaks, ChildExits, historyVars, AnswerInv, ResultInv
  <1>3. \A e \in Daemon \ {d} : pc'[e] = pc[e] /\ cur'[e] = cur[e] /\ exit'[e] = exit[e]
    BY DEF Respond, SpawnFails, StreamBreaks, ChildExits, Goto, Escape, loopVars, IInv, TypeOK
  <1>4. \/ pc[d] = "launch" /\ pc'[d] = "scan" /\ exit'[d] = exit[d]
        \/ pc[d] = "run" /\ "broken" \in disrupted' /\ exit'[d] = exit[d] /\ pc'[d] \in {"scan", "settle"}
        \/ pc[d] = "run" /\ pc'[d] = "drain" /\ cur'[d] = cur[d] /\ (exit'[d] = "ok" => cur[d] \in succeeded')
        \/ pc[d] = "drain" /\ pc'[d] = "settle" /\ cur'[d] = cur[d] /\ exit'[d] = "failed"
    BY DEF Respond, SpawnFails, StreamBreaks, ChildExits, Goto, Escape, loopVars, IInv, TypeOK
  <1>5. \A q \in Req : \/ resp'[q] = resp[q] \/ resp'[q] = "none"
                       \/ resp'[q] = "failed"
                       \/ resp'[q] = "ok" /\ exit[d] = "ok" /\ q = cur[d]
    BY <1>1 DEF Respond, SpawnFails, StreamBreaks, ChildExits, Publish, clientVars, IInv, TypeOK
  <1>6. Born' = Born /\ d \in Born
    BY <1>1 DEF Born, Alive
  <1>7. ResultInv'
    BY <1>2, <1>3, <1>4, <1>5, ResultKept DEF AnswerInv, ResultInv
  <1>8. MemoryInv'
    BY <1>1, <1>2, <1>3, <1>4, QuietMemory DEF AnswerInv, Alive, Running, Starting, Locking
  <1>9. RefusalInv'
    BY <1>1, <1>2, <1>5, <1>6, QuietRefusal DEF AnswerInv, Alive, Declined
  <1> QED
    BY <1>7, <1>8, <1>9 DEF AnswerInv

\* The last one marks the request.
LEMMA SettleAnswers ==
    ASSUME IInv, AnswerInv, NEW d \in Daemon, Settle(d)
    PROVE  AnswerInv'
  <1>1. /\ pc[d] = "settle" /\ cur[d] \in Req /\ Alive(d) /\ MarkProcessed(d, cur[d])
        /\ UNCHANGED <<resp, up, exit, ran, succeeded, disrupted>>
    BY DEF Settle, IInv, LoopInv, Holding, serverVars, historyVars
  <1>2. /\ pc' = [pc EXCEPT ![d] = "scan"]
        /\ \A e \in Daemon \ {d} : cur'[e] = cur[e] /\ pc'[e] = pc[e]
    BY DEF Settle, Goto, IInv, TypeOK
  <1>3. exit[d] # "ok"
    BY <1>1 DEF AnswerInv, ResultInv
  <1>4. ResultInv'
    BY <1>1, <1>2, <1>3, ResultKept DEF AnswerInv
  <1>5. MemoryInv'
    BY <1>1, <1>2, MarkMemory DEF IInv, AnswerInv
  <1>6. RefusalInv'
    BY <1>1, MarkRefusal DEF IInv, AnswerInv
  <1> QED
    BY <1>4, <1>5, <1>6 DEF AnswerInv

\* What happens around the daemons.
LEMMA AsideAnswers ==
    ASSUME IInv, AnswerInv,
           \/ LockAges \/ UNCHANGED vars
           \/ \E d \in Daemon, f \in Families : WindowSlides(d, f)
           \/ \E d \in Daemon, r \in Req, how \in {"ok", "failed"} : OrphanExits(d, r, how)
    PROVE  AnswerInv'
  <1>1. /\ UNCHANGED <<resp, up, pc, cur, exit, processed, evicted, ran>>
        /\ succeeded \subseteq succeeded' /\ disrupted \subseteq disrupted'
    BY DEF LockAges, WindowSlides, OrphanExits, vars, clientVars, serverVars, loopVars, cacheVars, historyVars
  <1> QED
    BY <1>1, ResultKept, QuietMemory, QuietRefusal DEF AnswerInv, ResultInv, Alive, Born

\* What has been answered agrees with what has been run, in every reachable state.
THEOREM AnswersAgree == Spec => [](IInv /\ AnswerInv)
  <1>1. Init => AnswerInv
    BY AnswerInit
  <1>2. IInv /\ AnswerInv /\ [Next]_vars => AnswerInv'
    <2> SUFFICES ASSUME IInv, AnswerInv, [Next]_vars PROVE AnswerInv'
      OBVIOUS
    <2>1. CASE \E r \in Req : ClientStep(r)
      BY <2>1, ClientAnswers
    <2>2. ASSUME NEW d \in Daemon, ServerStep(d) PROVE AnswerInv'
      <3>1. CASE Shutdown(d)
        BY <3>1, EndAnswers DEF Shutdown, Alive
      <3> QED
        BY <2>2, <3>1, ScanAnswers, LockAnswers, LaunchAnswers, RunAnswers, SettleAnswers DEF ServerStep, RunStep
    <2>3. CASE Disturbance
      <3>1. ASSUME NEW d \in Daemon, Crash(d) PROVE AnswerInv'
        BY <3>1, EndAnswers DEF Crash
      <3> QED
        BY <2>3, <3>1, StartAnswers, StopAnswers, RunAnswers, AsideAnswers DEF Disturbance
    <2> QED
      BY <2>1, <2>2, <2>3, AsideAnswers DEF Next
  <1> QED
    BY <1>1, <1>2, InductiveInvariant, PTL DEF Spec

\* An answer "ok" means that a run of that very request ended well, whatever
\* daemons crash, restart or run beside it (handle_request).
THEOREM OkIsTrue == Spec => []OkMeansSucceeded
  <1>1. AnswerInv => OkMeansSucceeded
    BY DEF AnswerInv, ResultInv, OkMeansSucceeded
  <1> QED
    BY <1>1, AnswersAgree, PTL

\* A client that is told "refused" or "rate limit" by the only daemon there has
\* been, whose cache never overflowed, can retry: nothing has been started.
THEOREM RefusedIsTrue == Spec => []RefusedMeansNotStarted
  <1>1. ASSUME IInv, AnswerInv, Cardinality(Born) <= 1, \A d \in Daemon : ~ evicted[d], "broken" \notin disrupted,
               NEW r \in Req, Declined(r), NEW d \in Daemon
        PROVE  r \notin ran[d]
    <2>1. Single
      <3>1. SUFFICES ASSUME NEW e \in Born, NEW f \in Born, e # f PROVE FALSE
        BY DEF Single
      <3>2. IsFiniteSet(Born) /\ {e, f} \subseteq Born
        BY <1>1 DEF AnswerInv, RefusalInv
      <3>3. IsFiniteSet({e}) /\ Cardinality({e}) = 1
        BY FS_Singleton
      <3>4. {e} \cup {f} = {e, f} /\ f \notin {e}
        BY <3>1
      <3>5. Cardinality({e} \cup {f}) = Cardinality({e}) + 1
        BY <3>3, <3>4, FS_AddElement, Zenon
      <3>6. Cardinality({e, f}) = 2
        BY <3>3, <3>4, <3>5
      <3>7. Cardinality({e, f}) <= Cardinality(Born) /\ Cardinality(Born) \in Nat
        BY <3>2, FS_Subset, FS_CardinalityType
      <3> QED
        BY <1>1, <3>6, <3>7
    <2>2. CASE Alive(d)
      BY <1>1, <2>1, <2>2 DEF AnswerInv, RefusalInv, Intact
    <2>3. CASE ~ Alive(d)
      BY <1>1, <2>3 DEF AnswerInv, MemoryInv, Memory
    <2> QED
      BY <2>2, <2>3
  <1>2. IInv /\ AnswerInv => RefusedMeansNotStarted
    BY <1>1 DEF RefusedMeansNotStarted, Born, Declined
  <1> QED
    BY <1>2, AnswersAgree, PTL

\* The processed cache: no daemon runs a request twice unless the cache
\* overflowed or a response could not be written (_processed).
THEOREM RunsOnce == Spec => AtMostOncePerDaemon
  <1>1. ASSUME AnswerInv
        PROVE  [\A d \in Daemon : pc[d] = "launch" /\ pc'[d] = "run" /\ cur[d] \in ran[d] =>
                   evicted[d] \/ "broken" \in disrupted]_vars
    BY <1>1 DEF AnswerInv, MemoryInv, Memory, Intact, Running, Starting
  <1> QED
    BY <1>1, AnswersAgree, PTL DEF AtMostOncePerDaemon

-----------------------------------------------------------------------------
(***************************************************************************)
(* The bridge keeps what CommandService promises: initial states map to    *)
(* initial states, and each step to one of the service or to a stutter.    *)
(***************************************************************************)
\* Between two requests a daemon has none; what it has launched it has started, and
\* until it has seen the end there is a child.
WorkInv ==
    \A d \in Daemon :
        /\ pc[d] \in {"off", "scan"} => cur[d] = None
        /\ pc[d] \in Running => cur[d] \in ran[d]
        /\ pc[d] = "run" => <<d, cur[d]>> \in child

ServiceStep == [Service!Next]_(Service!vars)

\* What a step leaves alone of the bridge it leaves alone of the service.
LEMMA Frame ==
    /\ kind' = kind => UNCHANGED Service!rigid
    /\ reqFile' = reqFile => {r \in Req : reqFile[r] = "fresh"}' = {r \in Req : reqFile[r] = "fresh"}
    /\ evicted' = evicted => {d \in Daemon : evicted[d]}' = {d \in Daemon : evicted[d]}
    /\ disrupted' = disrupted => (disrupted = {})' = (disrupted = {})
  BY DEF Service!rigid

\* _try_unlink withdraws the request, or fails to.
LEMMA UnlinkCloses ==
    ASSUME TypeOK, NEW r \in Req, TryUnlink(r)
    PROVE  Service!MayClose(r)
  <1>1. PICK f \in {"none", reqFile[r]} : reqFile' = [reqFile EXCEPT ![r] = f]
    BY DEF TryUnlink
  <1>2. CASE f = reqFile[r]
    BY <1>1, <1>2 DEF TypeOK, Service!MayClose
  <1>3. CASE f = "none"
    BY <1>1, <1>3 DEF TypeOK, Service!MayClose
  <1> QED
    BY <1>1, <1>2, <1>3

\* The cache forgets an id of this daemon, or none.
LEMMA MarkForgets ==
    ASSUME TypeOK, NEW d \in Daemon, NEW r \in Req, MarkProcessed(d, r)
    PROVE  Service!MayForget(d)
  <1>1. evicted' = [evicted EXCEPT ![d] = TRUE] \/ evicted' = evicted
    BY DEF MarkProcessed
  <1> QED
    BY <1>1 DEF TypeOK, Service!MayForget

\* A daemon that remembers has not started what it is about to start or to decline.
LEMMA NotStarted ==
    ASSUME IInv, AnswerInv, NEW d \in Daemon, NEW r \in Req,
           \/ pc[d] \in Starting /\ r = cur[d]
           \/ pc[d] = "scan" /\ r \notin Seen(d)
    PROVE  Service!Untouched(d, r)
  <1>1. SUFFICES ASSUME disrupted = {}, ~evicted[d], r \in ran[d] PROVE FALSE
    BY DEF Service!Untouched, Service!Remembers
  <1>2. Intact(d)
    BY <1>1 DEF Intact
  <1>3. r \in Seen(d) \/ (pc[d] \in Running /\ r = cur[d])
    BY <1>1, <1>2 DEF AnswerInv, MemoryInv, Memory
  <1> QED
    BY <1>2, <1>3 DEF AnswerInv, MemoryInv, Memory, Running, Starting, Locking

\* Clients ask, leave, or let their request grow old.
LEMMA ClientServes ==
    ASSUME IInv, NEW r \in Req, ClientStep(r)
    PROVE  ServiceStep
  <1> USE DEF IInv, ServiceStep, Service!Next, Service!effects, Service!workers
  <1>1. CASE Submit(r)
    <2>1. {q \in Req : reqFile'[q] = "fresh"} = {q \in Req : reqFile[q] = "fresh"} \cup {r}
      BY <1>1 DEF Submit, TypeOK
    <2>2. Service!Ask(r)
      BY <1>1, <2>1, Frame DEF Submit, Service!Ask, cacheVars, loopVars, historyVars
    <2> QED
      BY <2>2
  <1>2. CASE Leave(r)
    <2>1. TryUnlink(r)
      BY <1>2 DEF Leave, TryUnlink
    <2>2. Service!Leave(r)
      BY <1>2, <2>1, UnlinkCloses, Frame DEF Leave, Service!Leave, cacheVars, loopVars, historyVars
    <2> QED
      BY <2>2
  <1>3. CASE RequestAges(r)
    <2>1. {q \in Req : reqFile'[q] = "fresh"} = {q \in Req : reqFile[q] = "fresh"} \ {r}
      BY <1>3 DEF RequestAges, TypeOK
    <2>2. Service!Expire(r)
      BY <1>3, <2>1, Frame DEF RequestAges, Service!Expire, cacheVars, loopVars, historyVars
    <2> QED
      BY <2>2
  <1> QED
    BY <1>1, <1>2, <1>3 DEF ClientStep, ReadResponse, GiveUp

\* Steps nobody outside can see.
LEMMA QuietServes ==
    ASSUME UNCHANGED <<kind, client, reqFile, resp, cur, ran, evicted, child, succeeded, disrupted>>
    PROVE  ServiceStep
  BY Frame DEF ServiceStep, Service!vars, Service!front, Service!workers, Service!effects

\* A daemon starts unseen; its end is the end of a worker.
LEMMA LifeServes ==
    ASSUME IInv, WorkInv, NEW d \in Daemon
    PROVE  /\ StartServer(d) => ServiceStep
           /\ Dies(d) => ServiceStep
  <1>1. CASE StartServer(d)
    BY <1>1, QuietServes DEF StartServer, clientVars, cacheVars, historyVars
  <1>2. CASE Dies(d)
    <2>1. {e \in Daemon : evicted'[e]} = {e \in Daemon : evicted[e]} \ {d}
      BY <1>2 DEF Dies, IInv, TypeOK
    <2>2. Service!Die(d)
      BY <1>2, <2>1, Frame DEF Dies, Service!Die, Service!front, Service!effects, clientVars
    <2> QED
      BY <2>2 DEF ServiceStep, Service!Next
  <1> QED
    BY <1>1, <1>2

\* An error response to a request that was not started is a refusal.
LEMMA RefusalServes ==
    ASSUME IInv, AnswerInv, NEW d \in Daemon, NEW r \in Req, NEW verdict \in {"refused", "limited"},
           Answer(d, r, verdict), cur' = [cur EXCEPT ![d] = None],
           \/ pc[d] \in Starting /\ r = cur[d]
           \/ pc[d] = "scan" /\ cur[d] = None /\ r \notin Seen(d) /\ Readable(r),
           UNCHANGED <<kind, client, ran, child, succeeded, disrupted>>
    PROVE  ServiceStep
  <1>1. Service!MayClose(r) /\ Service!MayForget(d)
    BY UnlinkCloses, MarkForgets DEF Answer, IInv
  <1>2. Service!Untouched(d, r)
    BY NotStarted
  <1>3. Service!Refuse(d, r)
    BY <1>1, <1>2, Frame DEF Service!Refuse, Service!Tell, Service!effects, Answer, Publish, Readable
  <1> QED
    BY <1>3 DEF ServiceStep, Service!Next

\* The listing takes requests, refuses them or lets them expire.
LEMMA ScanServes ==
    ASSUME IInv, AnswerInv, WorkInv, NEW d \in Daemon, ScanStep(d)
    PROVE  ServiceStep
  <1>1. CASE Tick(d)
    BY <1>1, QuietServes DEF Tick, clientVars, cacheVars, historyVars
  <1>2. ASSUME NEW r \in Req, Skip(d, r) PROVE ServiceStep
    <2>1. CASE UNCHANGED reqFile
      BY <1>2, <2>1, QuietServes DEF Skip, cacheVars, historyVars
    <2>2. CASE TryUnlink(r)
      <3>1. Service!MayClose(r)
        BY <2>2, UnlinkCloses DEF IInv
      <3>2. Service!Expire(r) \/ UNCHANGED Service!vars
        BY <1>2, <3>1, Frame DEF Skip, Service!MayClose, Service!Expire, Service!vars, Service!front, Service!workers,
           Service!effects, cacheVars, historyVars
      <3> QED
        BY <3>2 DEF ServiceStep, Service!Next
    <2> QED
      BY <1>2, <2>1, <2>2 DEF Skip
  <1>3. ASSUME NEW r \in Req, AbandonTick(d, r) PROVE ServiceStep
    BY <1>3, QuietServes DEF AbandonTick, clientVars, cacheVars, historyVars
  <1>4. ASSUME NEW r \in Req, Reject(d, r) PROVE ServiceStep
    <2>1. pc[d] = "scan" /\ cur[d] = None /\ r \notin Seen(d) /\ Readable(r)
      BY <1>4 DEF Reject, Fresh, Next1, WorkInv
    <2>2. cur' = [cur EXCEPT ![d] = None]
      BY <1>4, <2>1 DEF Reject, IInv, TypeOK
    <2>3. PICK verdict \in {"refused", "limited"} : Answer(d, r, verdict)
      BY <1>4 DEF Reject
    <2>4. UNCHANGED <<kind, client, ran, child, succeeded, disrupted>>
      BY <1>4 DEF Reject, historyVars
    <2> QED
      BY <2>1, <2>2, <2>3, <2>4, RefusalServes
  <1>5. ASSUME NEW r \in Req, Admit(d, r) PROVE ServiceStep
    <2>1. cur[d] = None /\ cur' = [cur EXCEPT ![d] = r]
      BY <1>5 DEF Admit, Fresh, Next1, WorkInv
    <2>2. Service!Take(d, r)
      BY <1>5, <2>1, Frame DEF Admit, Fresh, Readable, Service!Take, Service!front, Service!effects,
         clientVars, cacheVars, historyVars
    <2> QED
      BY <2>2 DEF ServiceStep, Service!Next
  <1> QED
    BY <1>1, <1>2, <1>3, <1>4, <1>5 DEF ScanStep

\* The lock file is invisible, but for the request refused over it.
LEMMA LockServes ==
    ASSUME IInv, AnswerInv, NEW d \in Daemon, LockFileStep(d)
    PROVE  ServiceStep
  <1>1. LockFrame
    BY DEF LockFileStep, CreateLock, StatLock, StealLock, RecreateLock
  <1>2. CASE LockStep
    BY <1>1, <1>2, QuietServes DEF LockFrame, LockStep, cacheVars, historyVars
  <1>3. CASE LockRefused(d) /\ pc[d] \in Locking
    <2>1. cur[d] \in Req
      BY <1>3 DEF IInv, LoopInv
    <2>2. UNCHANGED <<kind, client, ran, child, succeeded, disrupted>>
      BY <1>1 DEF LockFrame, historyVars
    <2> QED
      BY <1>3, <2>1, <2>2, RefusalServes DEF LockRefused, Starting
  <1> QED
    BY <1>2, <1>3 DEF LockFileStep, CreateLock, StatLock, StealLock, RecreateLock, Locking

\* A command starts that was not started before, a push while no other runs.
LEMMA LaunchServes ==
    ASSUME IInv, AnswerInv, NEW d \in Daemon, Launch(d)
    PROVE  ServiceStep
  <1>1. pc[d] = "launch" /\ cur[d] \in Req
    BY DEF Launch, IInv, LoopInv, Holding
  <1>2. Service!Untouched(d, cur[d])
    BY <1>1, NotStarted DEF Starting
  <1>3. ASSUME disrupted = {}, kind[cur[d]] = "push", NEW c \in child, kind[c[2]] = "push"
        PROVE  FALSE
    <2>1. Holder(d) /\ c \in PushChild
      BY <1>1, <1>3 DEF Holder, Holding, PushChild
    <2>2. lock.owner = d /\ lock.owner = c[1] /\ (up[c[1]] = "dead" \/ pc[c[1]] = "run")
      BY <1>3, <2>1 DEF IInv, ExclusionInv
    <2>3. Alive(d)
      BY <1>1 DEF IInv, LoopInv
    <2> QED
      BY <1>1, <2>2, <2>3 DEF Alive
  <1>4. resp' = resp \/ Service!Tell(cur[d], "none")
    BY DEF Launch, Publish, Service!Tell
  <1>5. Service!Start(d, cur[d])
    BY <1>2, <1>3, <1>4, Frame DEF Launch, Service!Start, cacheVars
  <1> QED
    BY <1>1, <1>5 DEF ServiceStep, Service!Next

\* A child is gone, seen or not.
LEMMA EndServes ==
    ASSUME NEW d \in Daemon, NEW r \in Req, NEW how \in {"ok", "failed"}, <<d, r>> \in child,
           child' = child \ {<<d, r>>},
           succeeded' = IF how = "ok" THEN succeeded \cup {r} ELSE succeeded,
           UNCHANGED <<kind, client, reqFile, resp, cur, ran, evicted, disrupted>>
    PROVE  ServiceStep
  <1>1. Service!End(d, r)
    BY Frame DEF Service!End, Service!front, Service!workers
  <1> QED
    BY <1>1 DEF ServiceStep, Service!Next

\* What follows the launch answers for the request, or gives it up.
LEMMA RunServes ==
    ASSUME IInv, AnswerInv, WorkInv, NEW d \in Daemon
    PROVE  /\ \A how \in {"ok", "failed"} : ChildExits(d, how) => ServiceStep
           /\ \A r \in Req, how \in {"ok", "failed"} : OrphanExits(d, r, how) => ServiceStep
           /\ Respond(d) => ServiceStep
           /\ Settle(d) => ServiceStep
           /\ SpawnFails(d) => ServiceStep
           /\ StreamBreaks(d) => ServiceStep
  <1>1. pc[d] \in Holding => cur[d] \in Req
    BY DEF IInv, LoopInv
  <1>2. ASSUME NEW how \in {"ok", "failed"}, ChildExits(d, how) PROVE ServiceStep
    <2>1. cur[d] \in Req /\ <<d, cur[d]>> \in child
      BY <1>1, <1>2 DEF ChildExits, Holding, WorkInv
    <2> QED
      BY <1>2, <2>1, EndServes DEF ChildExits, clientVars, cacheVars
  <1>3. ASSUME NEW r \in Req, NEW how \in {"ok", "failed"}, OrphanExits(d, r, how) PROVE ServiceStep
    BY <1>3, EndServes DEF OrphanExits, clientVars, loopVars, cacheVars
  <1>4. ASSUME cur[d] \in Req, cur[d] \in ran[d], NEW verdict \in {"ok", "failed"},
               Publish(cur[d], verdict), verdict = "ok" => cur[d] \in succeeded,
               disrupted' = disrupted \/ disrupted' # {},
               UNCHANGED <<kind, client, reqFile, cur, ran, evicted, child, succeeded>>
        PROVE  ServiceStep
    <2>1. Service!MayShake
      BY <1>4 DEF Service!MayShake
    <2>2. Service!Tell(cur[d], verdict)
      BY <1>4 DEF Publish, Service!Tell
    <2>3. Service!Answer(d, cur[d])
      BY <1>4, <2>1, <2>2, Frame DEF Service!Answer, Service!workers
    <2> QED
      BY <1>4, <2>3 DEF ServiceStep, Service!Next
  <1>5. ASSUME NEW r \in Req, r = cur[d], cur' = [cur EXCEPT ![d] = None],
               disrupted' = disrupted \/ disrupted' # {},
               Service!MayClose(r), Service!MayForget(d),
               UNCHANGED <<kind, client, resp, ran, child, succeeded>>
        PROVE  ServiceStep
    <2>1. Service!MayShake
      BY <1>5 DEF Service!MayShake
    <2>2. Service!Release(d, r)
      BY <1>5, <2>1, Frame DEF Service!Release
    <2> QED
      BY <2>2 DEF ServiceStep, Service!Next
  <1>6. CASE Respond(d)
    <2>1. cur[d] \in Req /\ cur[d] \in ran[d]
      BY <1>1, <1>6 DEF Respond, Holding, Running, WorkInv
    <2>2. exit[d] \in {"ok", "failed"} /\ (exit[d] = "ok" => cur[d] \in succeeded)
      BY DEF IInv, TypeOK, AnswerInv, ResultInv
    <2> QED
      BY <1>4, <1>6, <2>1, <2>2 DEF Respond, cacheVars, historyVars
  <1>7. CASE Settle(d)
    <2>1. PICK r \in Req : r = cur[d]
      BY <1>1, <1>7 DEF Settle, Holding
    <2>2. MarkProcessed(d, r) /\ TryUnlink(r)
      BY <1>7, <2>1 DEF Settle, MarkProcessed, TryUnlink
    <2>3. Service!MayClose(r) /\ Service!MayForget(d)
      BY <2>2, UnlinkCloses, MarkForgets DEF IInv
    <2> QED
      BY <1>5, <1>7, <2>1, <2>3 DEF Settle, historyVars
  <1>10. ASSUME NEW r \in Req, reqFile' = reqFile, evicted' = evicted
         PROVE  Service!MayClose(r) /\ Service!MayForget(d)
    BY <1>10, Frame DEF Service!MayClose, Service!MayForget
  <1>8. CASE SpawnFails(d)
    <2>1. PICK r \in Req : r = cur[d]
      BY <1>1, <1>8 DEF SpawnFails, Holding
    <2> QED
      BY <1>5, <1>8, <1>10, <2>1 DEF SpawnFails, Escape, clientVars, cacheVars, historyVars
  <1>9. CASE StreamBreaks(d)
    <2>1. pc[d] = "run" /\ cur[d] \in Req /\ cur[d] \in ran[d] /\ disrupted' # {}
      BY <1>1, <1>9 DEF StreamBreaks, Holding, Running, WorkInv
    <2>2. CASE Escape(d) /\ UNCHANGED resp
      BY <1>5, <1>9, <1>10, <2>1, <2>2 DEF StreamBreaks, Escape, cacheVars
    <2>3. CASE Publish(cur[d], "failed") /\ UNCHANGED cur
      BY <1>4, <1>9, <2>1, <2>3 DEF StreamBreaks, cacheVars
    <2> QED
      BY <1>9, <2>2, <2>3 DEF StreamBreaks
  <1> QED
    BY <1>2, <1>3, <1>6, <1>7, <1>8, <1>9

\* The wiped directory, an ageing lock and the rate window.
LEMMA AsideServes ==
    ASSUME IInv
    PROVE  /\ \A wipe \in BOOLEAN : StopServer(wipe) => ServiceStep
           /\ LockAges => ServiceStep
           /\ \A d \in Daemon, f \in Families : WindowSlides(d, f) => ServiceStep
           /\ UNCHANGED vars => ServiceStep
  <1>1. ASSUME NEW wipe \in BOOLEAN, StopServer(wipe) PROVE ServiceStep
    <2>1. UNCHANGED <<kind, client, reqFile, cur, ran, evicted, child, succeeded, disrupted>>
      BY <1>1 DEF StopServer, loopVars, cacheVars, historyVars
    <2>2. CASE wipe
      <3>1. Service!Wipe
        BY <1>1, <2>1, <2>2, Frame DEF StopServer, Service!Wipe, Service!workers, Service!effects
      <3> QED
        BY <3>1 DEF ServiceStep, Service!Next
    <2>3. CASE ~wipe
      BY <1>1, <2>1, <2>3, QuietServes DEF StopServer
    <2> QED
      BY <2>2, <2>3
  <1>2. CASE LockAges
    <2>1. disrupted' # {}
      BY <1>2 DEF LockAges
    <2>2. Service!Shake
      BY <1>2, <2>1, Frame DEF LockAges, Service!Shake, Service!front, Service!workers, clientVars, loopVars, cacheVars
    <2> QED
      BY <2>2 DEF ServiceStep, Service!Next
  <1>3. ASSUME NEW d \in Daemon, NEW f \in Families, WindowSlides(d, f) PROVE ServiceStep
    BY <1>3, QuietServes DEF WindowSlides, clientVars, loopVars, cacheVars, historyVars
  <1>4. CASE UNCHANGED vars
    BY <1>4, QuietServes DEF vars, clientVars, loopVars, cacheVars, historyVars
  <1> QED
    BY <1>1, <1>2, <1>3, <1>4

\* The loop points of a daemon agree with what it has taken, started and left running.
LEMMA WorkNext ==
    ASSUME IInv, WorkInv, [Next]_vars
    PROVE  WorkInv'
  <1> USE DEF IInv, TypeOK, LoopInv, WorkInv, Running, Holding, Locking, Goto
  <1>1. ASSUME NEW r \in Req, ClientStep(r) PROVE WorkInv'
    BY <1>1 DEF ClientStep, Submit, ReadResponse, GiveUp, Leave, RequestAges, loopVars, historyVars
  <1>2. ASSUME NEW d \in Daemon, Dies(d) PROVE WorkInv'
    BY <1>2 DEF Dies
  <1>3. ASSUME NEW d \in Daemon, ScanStep(d) PROVE WorkInv'
    <2>1. CASE UNCHANGED <<pc, cur, ran, child>>
      BY <2>1
    <2>2. ASSUME NEW r \in Req, Admit(d, r) PROVE WorkInv'
      BY <2>2 DEF Admit, Fresh, Next1, historyVars
    <2> QED
      BY <1>3, <2>1, <2>2 DEF ScanStep, Tick, Skip, AbandonTick, Reject, historyVars
  <1>4. ASSUME NEW d \in Daemon, LockFileStep(d) PROVE WorkInv'
    BY <1>4 DEF LockFileStep, CreateLock, StatLock, StealLock, RecreateLock, LockRefused, LockStep, LockFrame, historyVars
  <1>5. ASSUME NEW d \in Daemon, RunStep(d) PROVE WorkInv'
    <2>1. CASE Launch(d)
      BY <1>5, <2>1 DEF Launch
    <2>2. CASE Respond(d) \/ Settle(d)
      BY <1>5, <2>2 DEF Respond, Settle, historyVars
    <2>3. ASSUME NEW how \in {"ok", "failed"}, ChildExits(d, how) PROVE WorkInv'
      BY <2>3 DEF ChildExits
    <2> HIDE DEF WorkInv, IInv, TypeOK, LoopInv
    <2> QED
      BY <1>5, <2>1, <2>2, <2>3 DEF RunStep
  <1>6. ASSUME NEW d \in Daemon, Escape(d), UNCHANGED <<ran, child>> PROVE WorkInv'
    BY <1>6 DEF Escape
  <1>7. ASSUME NEW d \in Daemon, StreamBreaks(d) PROVE WorkInv'
    <2>1. UNCHANGED <<ran, child>> /\ pc[d] = "run"
      BY <1>7 DEF StreamBreaks
    <2>2. CASE Goto(d, "settle") /\ cur' = cur
      BY <2>1, <2>2
    <2> QED
      BY <1>6, <1>7, <2>1, <2>2 DEF StreamBreaks
  <1>8. ASSUME NEW d \in Daemon, NEW r \in Req, NEW how \in {"ok", "failed"}, OrphanExits(d, r, how) PROVE WorkInv'
    <2>1. /\ UNCHANGED <<pc, cur, ran>> /\ child' = child \ {<<d, r>>}
          /\ ~(pc[d] = "run" /\ cur[d] = r)
      BY <1>8 DEF OrphanExits, loopVars
    <2>2. ASSUME NEW e \in Daemon, pc[e] = "run" PROVE <<e, cur[e]>> \in child'
      <3>1. <<e, cur[e]>> # <<d, r>>
        BY <2>1, <2>2
      <3> QED
        BY <2>1, <2>2, <3>1
    <2> QED
      BY <2>1, <2>2
  <1>10. ASSUME NEW d \in Daemon, StartServer(d) \/ SpawnFails(d) PROVE WorkInv'
    <2>1. CASE StartServer(d)
      <3>1. up[d] = "unborn" /\ pc' = [pc EXCEPT ![d] = "scan"] /\ UNCHANGED <<cur, ran, child>>
        BY <2>1 DEF StartServer, historyVars
      <3>2. cur[d] = None
        BY <3>1 DEF Alive
      <3> QED
        BY <3>1, <3>2
    <2>2. CASE SpawnFails(d)
      BY <1>6, <2>2 DEF SpawnFails, historyVars
    <2> QED
      BY <1>10, <2>1, <2>2
  <1>9. CASE \/ \E wipe \in BOOLEAN : StopServer(wipe)
             \/ LockAges \/ UNCHANGED vars
             \/ \E d \in Daemon, f \in Families : WindowSlides(d, f)
    BY <1>9 DEF StopServer, LockAges, WindowSlides, vars, loopVars, historyVars
  <1>11. ASSUME NEW d \in Daemon, ServerStep(d) PROVE WorkInv'
    BY <1>2, <1>3, <1>4, <1>5, <1>11 DEF ServerStep, Shutdown
  <1> HIDE DEF WorkInv, IInv, TypeOK, LoopInv
  <1>12. CASE Disturbance
    BY <1>2, <1>7, <1>8, <1>9, <1>10, <1>12 DEF Disturbance, Crash
  <1> QED
    BY <1>1, <1>9, <1>11, <1>12 DEF Next

\* The bridge implements CommandService, for any number of daemons, requests and
\* faults: what lies in files, a lock and several memories serves as one worker's pool.
THEOREM Serves == Spec => ServesCommands
  <1>1. Init => WorkInv /\ Service!Init
    <2> SUFFICES ASSUME Init PROVE WorkInv /\ Service!Init
      OBVIOUS
    <2>1. /\ {r \in Req : reqFile[r] = "fresh"} = {}
          /\ {d \in Daemon : evicted[d]} = {}
          /\ {r \in Req : kind[r] = "push"} \subseteq {r \in Req : kind[r] \notin {"invalid", "garbage", "notdict"}}
      BY DEF Init
    <2> QED
      BY <2>1 DEF Init, WorkInv, Running, Service!Init
  <1>2. IInv /\ WorkInv /\ [Next]_vars => WorkInv'
    BY WorkNext
  <1>3. ASSUME IInv, AnswerInv, WorkInv, [Next]_vars
        PROVE  [Service!Next]_(Service!vars)
    <2> SUFFICES ServiceStep
      BY DEF ServiceStep
    <2>1. ASSUME NEW r \in Req, ClientStep(r) PROVE ServiceStep
      BY <1>3, <2>1, ClientServes
    <2>2. ASSUME NEW d \in Daemon, ServerStep(d) PROVE ServiceStep
      BY <1>3, <2>2, ScanServes, LockServes, LaunchServes, RunServes, LifeServes DEF ServerStep, RunStep, Shutdown
    <2>3. CASE Disturbance
      <3>1. ASSUME NEW d \in Daemon, StartServer(d) \/ Crash(d) \/ SpawnFails(d) \/ StreamBreaks(d)
            PROVE  ServiceStep
        BY <1>3, <3>1, RunServes, LifeServes DEF Crash
      <3>2. ASSUME NEW d \in Daemon, NEW r \in Req, NEW how \in {"ok", "failed"}, OrphanExits(d, r, how)
            PROVE  ServiceStep
        BY <1>3, <3>2, RunServes
      <3>3. CASE \/ \E wipe \in BOOLEAN : StopServer(wipe)
                 \/ LockAges
                 \/ \E d \in Daemon, f \in Families : WindowSlides(d, f)
        BY <1>3, <3>3, AsideServes
      <3> QED
        BY <2>3, <3>1, <3>2, <3>3 DEF Disturbance
    <2>4. CASE UNCHANGED vars
      BY <1>3, <2>4, AsideServes
    <2> QED
      BY <1>3, <2>1, <2>2, <2>3, <2>4 DEF Next
  <1>4. Service!Spec <=> Service!Init /\ [][Service!Next]_(Service!vars)
    BY DEF Service!Spec
  <1> QED
    BY <1>1, <1>2, <1>3, <1>4, InductiveInvariant, AnswersAgree, PTL DEF Spec, ServesCommands
=============================================================================
