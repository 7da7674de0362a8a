--------------------------- MODULE CommandService ---------------------------
(***************************************************************************)
(* What the command bridge promises to those who drop requests, whatever   *)
(* becomes of files, locks, children and daemons: a worker takes a request *)
(* that lies open, runs it once as long as it remembers, and alone if it   *)
(* excludes others; what a client is told is true, and it is told only     *)
(* while it waits.                                                         *)
(***************************************************************************)
CONSTANTS Worker, Request, None

VARIABLES
    commands,   \* the requests that hold a command (for ever)
    exclusive,  \* those among them of which one may run at a time (for ever)
    client,     \* client[r]: the client of r
    open,       \* requests that may be taken
    told,       \* told[r]: what the client of r can read
    work,       \* work[w]: the request worker w has taken
    started,    \* started[w]: what it has started
    lost,       \* workers that have forgotten some of what they did
    runs,       \* <<w, r>>: a run of r by w
    done,       \* requests of which a run ended well
    sound       \* nothing has shaken the exclusion

rigid == <<commands, exclusive>>
front == <<client, open, told>>
workers == <<work, started, lost>>
effects == <<runs, done, sound>>
vars == <<rigid, front, workers, effects>>

Init ==
    /\ exclusive \subseteq commands /\ commands \subseteq Request
    /\ client = [r \in Request |-> "new"]
    /\ open = {}
    /\ told = [r \in Request |-> "none"]
    /\ work = [w \in Worker |-> None]
    /\ started = [w \in Worker |-> {}]
    /\ lost = {}
    /\ runs = {}
    /\ done = {}
    /\ sound = TRUE

-----------------------------------------------------------------------------
(* Clients. *)

Ask(r) ==
    /\ client[r] = "new"
    /\ client' = [client EXCEPT ![r] = "waiting"]
    /\ open' = open \cup {r}
    /\ UNCHANGED <<rigid, told, workers, effects>>

\* A client withdraws its request, as far as it can.
MayClose(r) == open' \in {open, open \ {r}}

Leave(r) ==
    /\ client[r] = "waiting"
    /\ client' = [client EXCEPT ![r] = "gone"]
    /\ told' = [told EXCEPT ![r] = "none"]
    /\ MayClose(r)
    /\ UNCHANGED <<rigid, workers, effects>>

\* A request is too old to be taken, or thrown away.
Expire(r) ==
    /\ open' = open \ {r}
    /\ UNCHANGED <<rigid, client, told, workers, effects>>

-----------------------------------------------------------------------------
(* Workers. *)

\* What worker w knows of r can be relied on.
Remembers(w) == sound /\ w \notin lost
Untouched(w, r) == Remembers(w) => r \notin started[w]

MayForget(w) == lost' \in {lost, lost \cup {w}}
MayShake == sound' \in {sound, FALSE}

Tell(r, verdict) ==
    told' = [told EXCEPT ![r] = IF client[r] = "waiting" THEN verdict ELSE "none"]

Take(w, r) ==
    /\ work[w] = None
    /\ r \in open \cap commands
    /\ work' = [work EXCEPT ![w] = r]
    /\ UNCHANGED <<rigid, front, started, lost, effects>>

\* An answer from before the run may be taken back.
Start(w, r) ==
    /\ work[w] = r
    /\ Untouched(w, r)
    /\ sound /\ r \in exclusive => \A run \in runs : run[2] \notin exclusive
    /\ runs' = runs \cup {<<w, r>>}
    /\ started' = [started EXCEPT ![w] = @ \cup {r}]
    /\ told' = told \/ Tell(r, "none")
    /\ UNCHANGED <<rigid, client, open, work, lost, done, sound>>

\* A run ends, well or not, with its worker or after it.
End(w, r) ==
    /\ <<w, r>> \in runs
    /\ runs' = runs \ {<<w, r>>}
    /\ done' \in {done, done \cup {r}}
    /\ UNCHANGED <<rigid, front, workers, sound>>

\* A worker reports of what it has started: "ok" only if a run ended well, "failed" also
\* if it could not watch the run to its end.
Answer(w, r) ==
    /\ work[w] = r
    /\ r \in started[w]
    /\ \E verdict \in {"ok", "failed"} : (verdict = "ok" => r \in done) /\ Tell(r, verdict)
    /\ MayShake
    /\ UNCHANGED <<rigid, client, open, workers, runs, done>>

\* A worker refuses what lies open or what it has taken, and not what it has run.
Refuse(w, r) ==
    /\ \/ work[w] = None /\ r \in open
       \/ work[w] = r
    /\ Untouched(w, r)
    /\ \E verdict \in {"refused", "limited"} : Tell(r, verdict)
    /\ work' = [work EXCEPT ![w] = None]
    /\ MayClose(r) /\ MayForget(w)
    /\ UNCHANGED <<rigid, client, started, effects>>

\* A worker is through with a request, or drops it.
Release(w, r) ==
    /\ work[w] = r
    /\ work' = [work EXCEPT ![w] = None]
    /\ MayClose(r) /\ MayForget(w) /\ MayShake
    /\ UNCHANGED <<rigid, client, told, started, runs, done>>

\* A worker ends; what it has started goes on.
Die(w) ==
    /\ work' = [work EXCEPT ![w] = None]
    /\ started' = [started EXCEPT ![w] = {}]
    /\ lost' = lost \ {w}
    /\ UNCHANGED <<rigid, front, effects>>

-----------------------------------------------------------------------------
\* All answers are thrown away.
Wipe ==
    /\ told' = [r \in Request |-> "none"]
    /\ UNCHANGED <<rigid, client, open, workers, effects>>

Shake ==
    /\ sound' = FALSE
    /\ UNCHANGED <<rigid, front, workers, runs, done>>

Next ==
    \/ \E r \in Request : Ask(r) \/ Leave(r) \/ Expire(r)
    \/ \E w \in Worker, r \in Request :
          \/ Take(w, r) \/ Start(w, r) \/ End(w, r)
          \/ Answer(w, r) \/ Refuse(w, r) \/ Release(w, r)
    \/ \E w \in Worker : Die(w)
    \/ Wipe \/ Shake

Spec == Init /\ [][Next]_vars
=============================================================================
