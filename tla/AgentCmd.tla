------------------------------ MODULE AgentCmd ------------------------------
(***************************************************************************)
(* The agent command bridge: clients drop request files into               *)
(* agent-cmds/req, a host daemon (scripts/vulpy-agent-cmd-server.py) polls *)
(* that directory, runs the named command as a child process and drops the *)
(* answer into agent-cmds/resp, where the client polls for it.             *)
(*                                                                         *)
(* The module composes the clients (the command-line client and the        *)
(* operator panel of the WebUI), the daemon's request loop, the lock file  *)
(* that guards env.push, the child processes, and the scripts that start   *)
(* and stop the daemon.  Several daemon processes may be alive at once:    *)
(* agent_server_stop sends SIGTERM, waits one second and forgets the       *)
(* process, which finishes the command it is running first.                *)
(*                                                                         *)
(* Time is abstract: a file is "stale" or a lock "old" once its age passed *)
(* the limit of the code, and the guards of the ageing actions keep the    *)
(* limits' order (a waiting client leaves after 320 s, before its request  *)
(* is 600 s old; a command is killed after 310 s, before its lock is 600 s *)
(* old).  Lock files of different push targets are different files, so one *)
(* target is modelled.                                                     *)
(***************************************************************************)
EXTENDS Naturals, FiniteSets, Sequences

CONSTANTS
    Daemon,        \* daemon processes that may ever be started
    Req,           \* request ids; the daemon's sorted() order is their order
    Kinds,         \* the kinds of request the clients may drop
    MaxProcessed,  \* MAX_PROCESSED_CACHE
    MaxRate,       \* RATE_LIMIT_MAX
    Faults,        \* which of AllFaults may happen
    None           \* no daemon, no request, no lock

(***************************************************************************)
(* What a request file can hold, as far as the daemon tells them apart:    *)
(*   query    a read-only whitelisted command (dev.status, status, ...)    *)
(*   inspect  hermes.ps, hermes.logs                                       *)
(*   rebuild  hermes.rebuild, hermes.rebuild.wait                          *)
(*   mutate   dev.up, dev.down, dev.restart, dev.wake, dev.sleep           *)
(*   push     env.push with valid arguments and approval                   *)
(*   pull     env.pull_data with valid arguments and approval              *)
(*   invalid  an unknown command, refused arguments or a forged approval   *)
(*   garbage  a file that is not JSON                                      *)
(*   notdict  JSON that is not an object: req.get raises                   *)
(***************************************************************************)
AllKinds == {"query", "inspect", "rebuild", "mutate", "push", "pull",
             "invalid", "garbage", "notdict"}

\* A daemon that is killed, a program that cannot be started, a response that
\* cannot be rewritten, a lock file that outlives its TTL.
AllFaults == {"crash", "spawn", "stream", "ttl"}

ASSUME ReqAssumption     == Req \subseteq Nat
ASSUME KindsAssumption   == Kinds \subseteq AllKinds
ASSUME FaultsAssumption  == Faults \subseteq AllFaults
ASSUME CacheAssumption   == MaxProcessed \in Nat \ {0}
ASSUME RateAssumption    == MaxRate \in Nat
ASSUME NoneAssumption    ==
    None \notin Daemon \cup Req \cup [owner : Daemon, old : BOOLEAN]

VARIABLES
    kind,       \* kind[r]: what the request file r holds
    reqFile,    \* reqFile[r]: the file in agent-cmds/req and its age
    resp,       \* resp[r]: the final answer its client can read in
                \* agent-cmds/resp ("none": no file, or one with "done": false)
    client,     \* client[r]: the client of r
    up,         \* up[d]: is daemon process d alive
    pidFile,    \* the daemon named by agent-cmd-server.pid
    pc,         \* pc[d]: where d's loop is
    queue,      \* queue[d]: what is left of the directory listing of this tick
    cur,        \* cur[d]: the request d is handling
    exit,       \* exit[d]: how d's last child ended
    processed,  \* processed[d]: _processed, oldest first
    spent,      \* spent[d][f]: length of d's rate bucket of family f
    lock,       \* the env-push lock file
    child,      \* <<d, r>>: a live child process that d started for r
    ran,        \* history, ran[d]: requests d has started a child for
    evicted,    \* history, evicted[d]: has d's cache ever dropped an id
    succeeded,  \* history: requests one of whose children exited with 0
    disrupted   \* history: "expired" a lock outlived its TTL, "broken" a response
                \* could not be rewritten while its command ran

clientVars  == <<kind, reqFile, resp, client>>
serverVars  == <<up, pidFile>>
loopVars    == <<pc, queue, cur, exit>>
cacheVars   == <<processed, evicted>>
historyVars == <<ran, succeeded, disrupted>>
vars == <<clientVars, serverVars, loopVars, cacheVars, spent, lock, child,
          historyVars>>

Verdict  == {"ok", "failed", "refused", "limited"}
Families == {"dev", "env", "hermes"}
LoopPoint == {"off", "scan", "create", "stat", "unlink", "recreate",
              "launch", "run", "drain", "settle"}

\* MUTATING_CMDS and the family a command is charged to, cmd.split(".")[0].
Mutating == {"inspect", "rebuild", "mutate", "push", "pull"}
Family(k) == CASE k \in {"inspect", "rebuild"} -> "hermes"
               [] k \in {"push", "pull"}       -> "env"
               [] OTHER                        -> "dev"
\* STREAMING_CMDS: the response is rewritten while the command runs.
Streaming == {"push", "pull"}

Seen(d) == {processed[d][i] : i \in 1 .. Len(processed[d])}
Alive(d) == up[d] \in {"up", "stopping"}
Locked == lock # None

TypeOK ==
    /\ kind \in [Req -> Kinds]
    /\ reqFile \in [Req -> {"none", "fresh", "stale"}]
    /\ resp \in [Req -> {"none"} \cup Verdict]
    /\ client \in [Req -> {"new", "waiting", "gone"}]
    /\ up \in [Daemon -> {"unborn", "up", "stopping", "dead"}]
    /\ pidFile \in Daemon \cup {None}
    /\ pc \in [Daemon -> LoopPoint]
    /\ queue \in [Daemon -> SUBSET Req]
    /\ cur \in [Daemon -> Req \cup {None}]
    /\ exit \in [Daemon -> {"ok", "failed"}]
    /\ processed \in [Daemon -> Seq(Req)]
    /\ spent \in [Daemon -> [Families -> 0 .. MaxRate]]
    /\ lock \in [owner : Daemon, old : BOOLEAN] \cup {None}
    /\ child \subseteq Daemon \X Req
    /\ ran \in [Daemon -> SUBSET Req]
    /\ evicted \in [Daemon -> BOOLEAN]
    /\ succeeded \subseteq Req
    /\ disrupted \subseteq {"expired", "broken"}

Init ==
    /\ kind \in [Req -> Kinds]
    /\ reqFile = [r \in Req |-> "none"]
    /\ resp = [r \in Req |-> "none"]
    /\ client = [r \in Req |-> "new"]
    /\ up = [d \in Daemon |-> "unborn"]
    /\ pidFile = None
    /\ pc = [d \in Daemon |-> "off"]
    /\ queue = [d \in Daemon |-> {}]
    /\ cur = [d \in Daemon |-> None]
    /\ exit = [d \in Daemon |-> "failed"]
    /\ processed = [d \in Daemon |-> <<>>]
    /\ spent = [d \in Daemon |-> [f \in Families |-> 0]]
    /\ lock = None
    /\ child = {}
    /\ ran = [d \in Daemon |-> {}]
    /\ evicted = [d \in Daemon |-> FALSE]
    /\ succeeded = {}
    /\ disrupted = {}

-----------------------------------------------------------------------------
(***************************************************************************)
(* The clients.  Both write the request under a fresh uuid, poll for the   *)
(* response, stop at the first one that is not "done": false, and delete   *)
(* both files on the way out; deleting is best effort.  A response nobody  *)
(* waits for has no reader and is removed by prune_stale: it is not        *)
(* tracked.                                                                *)
(***************************************************************************)
Publish(r, answer) ==
    resp' = [resp EXCEPT ![r] = IF client[r] = "waiting" THEN answer ELSE "none"]

Submit(r) ==
    /\ client[r] = "new"
    /\ client' = [client EXCEPT ![r] = "waiting"]
    /\ reqFile' = [reqFile EXCEPT ![r] = "fresh"]
    /\ UNCHANGED <<kind, resp, serverVars, loopVars, cacheVars, spent, lock,
                   child, historyVars>>

Leave(r) ==
    /\ client[r] = "waiting"
    /\ client' = [client EXCEPT ![r] = "gone"]
    /\ \E f \in {"none", reqFile[r]} : reqFile' = [reqFile EXCEPT ![r] = f]
    /\ resp' = [resp EXCEPT ![r] = "none"]
    /\ UNCHANGED <<kind, serverVars, loopVars, cacheVars, spent, lock, child,
                   historyVars>>

ReadResponse(r) == resp[r] \in Verdict /\ Leave(r)

\* A timeout, an aborted run, an unreadable response, or a client that dies.
GiveUp(r) == resp[r] \notin Verdict /\ Leave(r)

\* A request left behind passes STALE_REQ_MAX_AGE; a waiting client leaves
\* before that.
RequestAges(r) ==
    /\ reqFile[r] = "fresh"
    /\ client[r] # "waiting"
    /\ reqFile' = [reqFile EXCEPT ![r] = "stale"]
    /\ UNCHANGED <<kind, resp, client, serverVars, loopVars, cacheVars, spent,
                   lock, child, historyVars>>

-----------------------------------------------------------------------------
(***************************************************************************)
(* Starting and stopping the daemon.                                       *)
(***************************************************************************)
StartServer(d) ==
    /\ up[d] = "unborn"
    /\ pidFile # None => ~Alive(pidFile)
    /\ up' = [up EXCEPT ![d] = "up"]
    /\ pidFile' = d
    /\ pc' = [pc EXCEPT ![d] = "scan"]
    /\ UNCHANGED <<clientVars, queue, cur, exit, cacheVars, spent, lock, child,
                   historyVars>>

\* vulpy-hermes.sh also empties agent-cmds/resp, dev-app-server.sh does not.
StopServer(wipe) ==
    /\ pidFile # None
    /\ up' = IF up[pidFile] = "up" THEN [up EXCEPT ![pidFile] = "stopping"]
                                   ELSE up
    /\ pidFile' = None
    /\ resp' = IF wipe THEN [r \in Req |-> "none"] ELSE resp
    /\ UNCHANGED <<kind, reqFile, client, loopVars, cacheVars, spent, lock,
                   child, historyVars>>

\* The process ends: its memory is lost, with what the histories say of it.
\* Its children run in sessions of their own and outlive it, and so does its
\* lock file.
Dies(d) ==
    /\ up' = [up EXCEPT ![d] = "dead"]
    /\ pc' = [pc EXCEPT ![d] = "off"]
    /\ queue' = [queue EXCEPT ![d] = {}]
    /\ cur' = [cur EXCEPT ![d] = None]
    /\ exit' = [exit EXCEPT ![d] = "failed"]
    /\ processed' = [processed EXCEPT ![d] = <<>>]
    /\ spent' = [spent EXCEPT ![d] = [f \in Families |-> 0]]
    /\ evicted' = [evicted EXCEPT ![d] = FALSE]
    /\ ran' = [ran EXCEPT ![d] = {}]
    /\ UNCHANGED <<clientVars, lock, child, succeeded, disrupted>>

\* SIGTERM only clears _running; the loop looks at it between requests.  On
\* the way out main() unlinks the pid file, whoever it names by then.
Shutdown(d) ==
    /\ up[d] = "stopping"
    /\ pc[d] = "scan"
    /\ pidFile' = None
    /\ Dies(d)

Crash(d) ==
    /\ "crash" \in Faults
    /\ Alive(d)
    /\ Dies(d)
    /\ UNCHANGED pidFile

-----------------------------------------------------------------------------
(***************************************************************************)
(* The daemon's loop.                                                      *)
(***************************************************************************)
\* Between ticks the listing is used up; a tick takes a new one.
Tick(d) ==
    /\ up[d] = "up" /\ pc[d] = "scan" /\ queue[d] = {}
    /\ queue' = [queue EXCEPT ![d] = {r \in Req : reqFile[r] # "none"}]
    /\ queue'[d] # {}
    /\ UNCHANGED <<clientVars, serverVars, pc, cur, exit, cacheVars, spent, lock,
                   child, historyVars>>

\* Mutant: the listing is not sorted.
Next1Unsorted(d, r) ==
    /\ up[d] = "up" /\ pc[d] = "scan"
    /\ r \in queue[d]

\* d's loop reaches r, the first request left of its listing.
Next1(d, r) ==
    /\ up[d] = "up" /\ pc[d] = "scan"
    /\ r \in queue[d]
    /\ \A q \in queue[d] : r <= q

\* Mutant: a file that cannot be statted counts as just written.
ReadableUnlessStale(r) == reqFile[r] # "stale"

\* handle_request looks at the file again: the listing may be old by now.
Readable(r) == reqFile[r] = "fresh"

\* _try_unlink: req/ belongs to the Fox user, so the daemon may be refused.
TryUnlink(r) ==
    \E f \in {"none", reqFile[r]} : reqFile' = [reqFile EXCEPT ![r] = f]

\* mark_processed: an id already there keeps its place, the oldest goes first.
MarkProcessed(d, r) ==
    LET longer == IF r \in Seen(d) THEN processed[d]
                                   ELSE Append(processed[d], r)
    IN  IF Len(longer) > MaxProcessed
        THEN /\ processed' = [processed EXCEPT ![d] = Tail(longer)]
             /\ evicted' = [evicted EXCEPT ![d] = TRUE]
        ELSE /\ processed' = [processed EXCEPT ![d] = longer]
             /\ UNCHANGED evicted

\* Stale or vanished requests, and those in the processed cache, are skipped;
\* a file that is not JSON is dropped without an answer.
Skip(d, r) ==
    /\ Next1(d, r)
    /\ \/ ~Readable(r) /\ UNCHANGED reqFile
       \/ Readable(r) /\ kind[r] = "garbage" /\ TryUnlink(r)
       \/ /\ Readable(r) /\ kind[r] \notin {"garbage", "notdict"}
          /\ r \in Seen(d)
          /\ UNCHANGED reqFile
    /\ queue' = [queue EXCEPT ![d] = @ \ {r}]
    /\ UNCHANGED <<kind, resp, client, serverVars, pc, cur, exit, cacheVars,
                   spent, lock, child, historyVars>>

\* req.get raises on JSON that is not an object; main() catches it outside the
\* for loop, so the rest of the listing waits for the next tick.
AbandonTick(d, r) ==
    /\ Next1(d, r)
    /\ Readable(r) /\ kind[r] = "notdict"
    /\ queue' = [queue EXCEPT ![d] = {}]
    /\ UNCHANGED <<clientVars, serverVars, pc, cur, exit, cacheVars, spent, lock,
                   child, historyVars>>

\* Mutant: the processed cache is not consulted.
FreshUnchecked(d, r) ==
    /\ Next1(d, r)
    /\ Readable(r) /\ kind[r] \notin {"garbage", "notdict"}

Fresh(d, r) ==
    /\ Next1(d, r)
    /\ Readable(r) /\ kind[r] \notin {"garbage", "notdict"}
    /\ r \notin Seen(d)

\* Mutant: off by one.
WithinRateInclusive(d, k) == k \in Mutating => spent[d][Family(k)] <= MaxRate

WithinRate(d, k) == k \in Mutating => spent[d][Family(k)] < MaxRate

\* Write the answer without running anything, then mark and unlink.
Answer(d, r, verdict) ==
    /\ Publish(r, verdict)
    /\ MarkProcessed(d, r)
    /\ TryUnlink(r)

\* The approval of a push or a pull is 120 s old at most; a request that waited
\* for its turn, or is tried again, may be refused although its kind is valid.
MayBeRefused(k) == k \in {"invalid", "push", "pull"}

Reject(d, r) ==
    /\ Fresh(d, r)
    /\ \/ MayBeRefused(kind[r]) /\ Answer(d, r, "refused")
       \/ kind[r] # "invalid" /\ ~WithinRate(d, kind[r]) /\ Answer(d, r, "limited")
    /\ queue' = [queue EXCEPT ![d] = @ \ {r}]
    /\ UNCHANGED <<kind, client, serverVars, pc, cur, exit, spent, lock, child,
                   historyVars>>

\* The request passed every check and is charged to its rate bucket.
Admit(d, r) ==
    /\ Fresh(d, r)
    /\ kind[r] # "invalid" /\ WithinRate(d, kind[r])
    /\ spent' = IF kind[r] \in Mutating
                THEN [spent EXCEPT ![d][Family(kind[r])] = @ + 1]
                ELSE spent
    /\ queue' = [queue EXCEPT ![d] = @ \ {r}]
    /\ cur' = [cur EXCEPT ![d] = r]
    /\ pc' = [pc EXCEPT ![d] = IF kind[r] = "push" THEN "create" ELSE "launch"]
    /\ UNCHANGED <<clientVars, serverVars, exit, cacheVars, lock, child,
                   historyVars>>

\* The oldest entry of a bucket leaves RATE_LIMIT_WINDOW.
WindowSlides(d, f) ==
    /\ Alive(d) /\ spent[d][f] > 0
    /\ spent' = [spent EXCEPT ![d][f] = @ - 1]
    /\ UNCHANGED <<clientVars, serverVars, loopVars, cacheVars, lock, child,
                   historyVars>>

-----------------------------------------------------------------------------
(***************************************************************************)
(* The lock file of env.push.                                              *)
(***************************************************************************)
OwnLock(d) == lock' = [owner |-> d, old |-> FALSE]

Goto(d, point) == pc' = [pc EXCEPT ![d] = point]

\* env.push is refused because the lock is taken.
LockRefused(d) ==
    /\ Answer(d, cur[d], "refused")
    /\ Goto(d, "scan")
    /\ cur' = [cur EXCEPT ![d] = None]
    /\ UNCHANGED lock

LockFrame == UNCHANGED <<kind, client, serverVars, queue, exit, spent, child,
                         historyVars>>
LockStep  == UNCHANGED <<resp, reqFile, cacheVars, cur>>

\* Mutant: O_CREAT without O_EXCL.
CreateLockShared(d) ==
    /\ pc[d] = "create"
    /\ OwnLock(d) /\ Goto(d, "launch")
    /\ LockStep /\ LockFrame

\* O_CREAT|O_EXCL
CreateLock(d) ==
    /\ pc[d] = "create"
    /\ \/ ~Locked /\ OwnLock(d) /\ Goto(d, "launch")
       \/ Locked /\ Goto(d, "stat") /\ UNCHANGED lock
    /\ LockStep /\ LockFrame

\* stat: the lock may be gone by now, live, or older than the TTL.
StatLock(d) ==
    /\ pc[d] = "stat"
    /\ \/ Locked /\ lock.old /\ Goto(d, "unlink") /\ LockStep /\ UNCHANGED lock
       \/ (Locked => ~lock.old) /\ LockRefused(d)
    /\ LockFrame

\* The steal removes whatever lock is there by now.
StealLock(d) ==
    /\ pc[d] = "unlink"
    /\ lock' = None
    /\ Goto(d, "recreate")
    /\ LockStep /\ LockFrame

RecreateLock(d) ==
    /\ pc[d] = "recreate"
    /\ \/ ~Locked /\ OwnLock(d) /\ Goto(d, "launch") /\ LockStep
       \/ Locked /\ LockRefused(d)
    /\ LockFrame

\* release_env_lockfile unlinks the lock without looking whose it is.
ReleaseLock(d) == lock' = IF kind[cur[d]] = "push" THEN None ELSE lock

\* The lock passes ENV_LOCK_TTL_SECONDS: its owner is gone, or still waits for
\* the pipes of a command that ended (the command itself is killed at 300 s).
LockAges ==
    /\ "ttl" \in Faults
    /\ Locked /\ ~lock.old
    /\ pc[lock.owner] \in {"off", "drain", "settle"}
    /\ lock' = [lock EXCEPT !.old = TRUE]
    /\ disrupted' = disrupted \cup {"expired"}
    /\ UNCHANGED <<clientVars, serverVars, loopVars, cacheVars, spent, child,
                   ran, succeeded>>

-----------------------------------------------------------------------------
(***************************************************************************)
(* Running the command.                                                    *)
(***************************************************************************)
Launch(d) ==
    /\ pc[d] = "launch"
    /\ child' = child \cup {<<d, cur[d]>>}
    /\ IF kind[cur[d]] \in Streaming THEN Publish(cur[d], "none") ELSE UNCHANGED resp
    /\ ran' = [ran EXCEPT ![d] = @ \cup {cur[d]}]
    /\ Goto(d, "run")
    /\ UNCHANGED <<kind, reqFile, client, serverVars, queue, cur, exit,
                   cacheVars, spent, lock, succeeded, disrupted>>

\* Mutant: the lock is released after the try block, not in finally.
EscapeKeepingLock(d) ==
    /\ UNCHANGED lock
    /\ Goto(d, "scan")
    /\ queue' = [queue EXCEPT ![d] = {}]
    /\ cur' = [cur EXCEPT ![d] = None]

\* An exception leaves handle_request: finally releases the lock, main() drops
\* the rest of the listing, and the request is neither marked nor answered.
Escape(d) ==
    /\ ReleaseLock(d)
    /\ Goto(d, "scan")
    /\ queue' = [queue EXCEPT ![d] = {}]
    /\ cur' = [cur EXCEPT ![d] = None]

\* Popen raises (the program of a whitelisted command is not on the PATH).
SpawnFails(d) ==
    /\ "spawn" \in Faults
    /\ pc[d] = "launch"
    /\ Escape(d)
    /\ UNCHANGED <<clientVars, serverVars, exit, cacheVars, spent, child,
                   historyVars>>

\* Mutant: the exit status is not looked at.
ChildExitsUnexamined(d, how) ==
    /\ pc[d] = "run"
    /\ child' = child \ {<<d, cur[d]>>}
    /\ exit' = [exit EXCEPT ![d] = "ok"]
    /\ succeeded' = IF how = "ok" THEN succeeded \cup {cur[d]} ELSE succeeded
    /\ Goto(d, "drain")
    /\ UNCHANGED <<clientVars, serverVars, queue, cur, cacheVars, spent, lock,
                   ran, disrupted>>

\* The child exits, or is killed at the 300 s timeout.
ChildExits(d, how) ==
    /\ pc[d] = "run"
    /\ child' = child \ {<<d, cur[d]>>}
    /\ exit' = [exit EXCEPT ![d] = how]
    /\ succeeded' = IF how = "ok" THEN succeeded \cup {cur[d]} ELSE succeeded
    /\ Goto(d, "drain")
    /\ UNCHANGED <<clientVars, serverVars, queue, cur, cacheVars, spent, lock,
                   ran, disrupted>>

\* A child that outlived its daemon, or that its daemon stopped watching.
OrphanExits(d, r, how) ==
    /\ <<d, r>> \in child
    /\ ~(pc[d] = "run" /\ cur[d] = r)
    /\ child' = child \ {<<d, r>>}
    /\ succeeded' = IF how = "ok" THEN succeeded \cup {r} ELSE succeeded
    /\ UNCHANGED <<clientVars, serverVars, loopVars, cacheVars, spent, lock,
                   ran, disrupted>>

\* Rewriting the response of a streaming command raises: the child is left
\* running.  The last word is written after all, or that write raises too.
StreamBreaks(d) ==
    /\ "stream" \in Faults
    /\ pc[d] = "run"
    /\ kind[cur[d]] \in Streaming
    /\ disrupted' = disrupted \cup {"broken"}
    /\ \/ /\ Escape(d)
          /\ UNCHANGED resp
       \/ /\ Publish(cur[d], "failed")
          /\ Goto(d, "settle")
          /\ UNCHANGED <<queue, cur, lock>>
    /\ UNCHANGED <<kind, reqFile, client, serverVars, exit, cacheVars, spent, child,
                   ran, succeeded>>

\* The pipes are drained and the final response replaces the partial one.
Respond(d) ==
    /\ pc[d] = "drain"
    /\ Publish(cur[d], exit[d])
    /\ exit' = [exit EXCEPT ![d] = "failed"]
    /\ Goto(d, "settle")
    /\ UNCHANGED <<kind, reqFile, client, serverVars, queue, cur,
                   cacheVars, spent, lock, child, historyVars>>

\* Mutant: a finished request is unlinked but not remembered.
SettleUnmarked(d) ==
    /\ pc[d] = "settle"
    /\ ReleaseLock(d)
    /\ TryUnlink(cur[d])
    /\ cur' = [cur EXCEPT ![d] = None]
    /\ Goto(d, "scan")
    /\ UNCHANGED <<kind, resp, client, serverVars, queue, exit, cacheVars, spent,
                   child, historyVars>>

\* finally releases the lock; then the request is marked and unlinked.
Settle(d) ==
    /\ pc[d] = "settle"
    /\ ReleaseLock(d)
    /\ MarkProcessed(d, cur[d])
    /\ TryUnlink(cur[d])
    /\ cur' = [cur EXCEPT ![d] = None]
    /\ Goto(d, "scan")
    /\ UNCHANGED <<kind, resp, client, serverVars, queue, exit, spent, child,
                   historyVars>>

-----------------------------------------------------------------------------
ClientStep(r) == Submit(r) \/ ReadResponse(r) \/ GiveUp(r) \/ RequestAges(r)

ScanStep(d) ==
    \/ Tick(d)
    \/ \E r \in Req : Skip(d, r) \/ AbandonTick(d, r) \/ Reject(d, r) \/ Admit(d, r)

LockFileStep(d) ==
    CreateLock(d) \/ StatLock(d) \/ StealLock(d) \/ RecreateLock(d)

RunStep(d) ==
    \/ Launch(d) \/ Respond(d) \/ Settle(d)
    \/ \E how \in {"ok", "failed"} : ChildExits(d, how)

ServerStep(d) == ScanStep(d) \/ LockFileStep(d) \/ RunStep(d) \/ Shutdown(d)

\* What goes wrong around the daemon, and the operator.
Disturbance ==
    \/ \E d \in Daemon : StartServer(d) \/ Crash(d) \/ SpawnFails(d) \/ StreamBreaks(d)
    \/ \E wipe \in BOOLEAN : StopServer(wipe)
    \/ LockAges
    \/ \E d \in Daemon, f \in Families : WindowSlides(d, f)
    \/ \E d \in Daemon, r \in Req, how \in {"ok", "failed"} : OrphanExits(d, r, how)

Next ==
    \/ \E r \in Req : ClientStep(r)
    \/ \E d \in Daemon : ServerStep(d)
    \/ Disturbance

Spec == Init /\ [][Next]_vars

\* The daemon's loop goes on through every exception, and a command is killed at its time
\* limit.  That the pipes of a command that ended are ever closed by all who hold them is
\* not assumed (_drain and communicate have no limit there), nor is anything of clients,
\* operators, locks or faults.
Fairness == \A d \in Daemon : WF_vars(pc[d] # "drain" /\ ServerStep(d))

FairSpec == Spec /\ Fairness

-----------------------------------------------------------------------------
(***************************************************************************)
(* What the bridge promises.                                               *)
(***************************************************************************)

\* The in-memory cache keeps a daemon from running a request file again that
\* it could not unlink: a second run by the same process needs a cache that
\* overflowed, or a run whose response could not be written (_processed).
AtMostOncePerDaemon ==
    [][\A d \in Daemon :
          pc[d] = "launch" /\ pc'[d] = "run" /\ cur[d] \in ran[d] =>
              evicted[d] \/ "broken" \in disrupted]_vars

PushChild == {c \in child : kind[c[2]] = "push"}

\* "two pushes to the same env cannot run concurrently", with any number of
\* daemons, across crashes, restarts and failing spawns, as long as no lock
\* outlives its TTL and no response write fails (acquire_env_lockfile).
PushExclusive ==
    disrupted = {} => \A c1, c2 \in PushChild : c1 = c2

\* The same without the proviso, as the daemon's docstring states it.
PushNeverConcurrent == \A c1, c2 \in PushChild : c1 = c2

\* No exit path of handle_request leaves the lock file behind: the lock of a
\* live daemon belongs to the push it is handling (the finally clause).
LockHasOwner ==
    Locked /\ Alive(lock.owner) =>
        /\ pc[lock.owner] \in {"launch", "run", "drain", "settle"}
        /\ kind[cur[lock.owner]] = "push"

\* An answer "ok" means that a run of that very request ended well, even if
\* daemons came and went in between (handle_request keeps one request's state).
OkMeansSucceeded == \A r \in Req : resp[r] = "ok" => r \in succeeded

\* With a single daemon whose cache never overflowed, a client that is told
\* "refused" or "rate limit" can retry: its command has not been started (the
\* processed check comes before the rate limit and the lock).
RefusedMeansNotStarted ==
    (/\ Cardinality({d \in Daemon : up[d] # "unborn"}) <= 1
     /\ \A d \in Daemon : ~evicted[d]
     /\ "broken" \notin disrupted)
    => \A r \in Req : resp[r] \in {"refused", "limited"} =>
          \A d \in Daemon : r \notin ran[d]

\* The bridge keeps what CommandService promises: a daemon admits only a command whose
\* file is there and not older than ten minutes, however old the directory listing is
\* that named it; starts only what it has admitted, pushes one at a time; reports only
\* what it has started and refuses only what it has not, to a client that waits.
Service == INSTANCE CommandService WITH
    Worker <- Daemon, Request <- Req,
    commands <- {r \in Req : kind[r] \notin {"invalid", "garbage", "notdict"}},
    exclusive <- {r \in Req : kind[r] = "push"},
    open <- {r \in Req : reqFile[r] = "fresh"}, told <- resp,
    work <- cur, started <- ran, lost <- {d \in Daemon : evicted[d]},
    runs <- child, done <- succeeded, sound <- (disrupted = {})
ServesCommands == Service!Spec

\* An exception leaves the handling of q, and the rest of the listing with it.
Raises(d, q) ==
    \/ AbandonTick(d, q)
    \/ cur[d] = q /\ cur'[d] = None /\ (SpawnFails(d) \/ StreamBreaks(d))

\* A well-formed request that lies in the directory while its client waits is answered
\* as long as a daemon runs: no taken lock, full rate bucket or failed attempt keeps it
\* waiting, and nothing that sorts after it.  What does is a request at or before it in
\* the listing that raises tick after tick (no object, no program), and a command whose
\* pipes are never closed (main, _drain).
EveryRequestAnswered ==
    \A r \in Req :
        \/ client[r] = "waiting" /\ reqFile[r] = "fresh" /\ kind[r] \notin {"garbage", "notdict"}
               ~> \/ client[r] # "waiting"
                  \/ resp[r] \in Verdict
                  \/ \A d \in Daemon : up[d] # "up"
        \/ \E d \in Daemon, q \in {q \in Req : q <= r} : []<><<Raises(d, q)>>_vars
        \/ \E d \in Daemon : <>[](pc[d] = "drain")
=============================================================================
