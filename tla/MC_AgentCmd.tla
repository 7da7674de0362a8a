---------------------------- MODULE MC_AgentCmd ----------------------------
(***************************************************************************)
(* Small instances of the agent command bridge for TLC.                    *)
(***************************************************************************)
EXTENDS AgentCmd, TLC

\* Daemon processes are interchangeable; requests are not (they are sorted).
DaemonSymmetry == Permutations(Daemon)

\* The bound of the safety run: one daemon process, whose locks nobody else is
\* there to find too old, with a command beside a request of any kind; or several
\* with one client's push, whose responses can be written, two of them alive at a
\* time, the third started once a lock is old.
OneOrTheOther ==
    LET started == Cardinality({d \in Daemon : up[d] # "unborn"})
        alive == Cardinality({d \in Daemon : Alive(d)})
    IN
    \/ /\ started <= 1
       /\ \E r \in Req : kind[r] \in {"push", "query"}
       /\ "expired" \notin disrupted
    \/ /\ alive <= 2 /\ (started <= 2 \/ "expired" \in disrupted)
       /\ \A r \in Req : kind[r] = "push"
       /\ \A r \in Req \ {1} : client[r] = "new"
       /\ "broken" \notin disrupted
=============================================================================
