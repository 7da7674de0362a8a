----------------------------- MODULE DevRevival -----------------------------
(***************************************************************************)
(* Does the shop come back?  DevLifecycle under fair scheduling, with a    *)
(* history of the one way in which a watchdog itself can end revival: its  *)
(* wake stops the shop, which marks it as meant to be stopped, and a fault *)
(* keeps the start that should follow from marking it as running again.    *)
(***************************************************************************)
EXTENDS DevLifecycle

VARIABLE broken  \* history: a watchdog's wake was broken off, and no operator came since

OperatorAtWork == \E o \in Op : op[o].pc # "idle" /\ op[o].by = "operator"

\* Between the stop of a watchdog's wake and the "starting" of its start the ports turn out
\* to be taken, the database not to answer, the script is killed, or the host goes down.
BrokenOff(o) ==
    /\ op[o].by \in Watchdog /\ op[o].pc \in Locked /\ desired = "stopped"
    /\ (Ports(o) /\ port = Foreign) \/ CannotStart(o) \/ KillScript(o) \/ Reboot

Observe == broken' = ((broken /\ ~OperatorAtWork) \/ \E o \in Op : BrokenOff(o))

RevivalSpec ==
    /\ Init /\ broken = FALSE
    /\ [][Next /\ Observe]_<<vars, broken>>
    /\ Fairness

-----------------------------------------------------------------------------
\* The shop is marked as meant to be down, and the host watchdog, having nothing in hand,
\* leaves it so.
GivenUp ==
    /\ desired = "stopped"
    /\ \A o \in Op : op[o].pc = "idle"
    /\ plan["host"] \in {"none", "any"}

\* A shop that is meant to run is healthy again some time, whatever crashed, wedged, was
\* taken by others or was killed, or else the operator takes it in hand: the layers leave
\* no state of files and servers for each other to act on, and a wake's own stop is no
\* way out.  The one exception is a wake that a fault breaks off after that stop: it is
\* DesiredFollowsOperator's finding that the shop then stays down (dev-watchdog-host.sh).
Revived == desired = "running" ~> Healthy \/ OperatorAtWork \/ (broken /\ GivenUp)
=============================================================================
