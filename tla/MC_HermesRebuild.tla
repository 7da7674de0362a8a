------------------------- MODULE MC_HermesRebuild -------------------------
(***************************************************************************)
(* A small instance of the rebuild for TLC.                                *)
(*                                                                         *)
(* Each behaviour has a load: how often the bridge is called, how many     *)
(* rebuilds are started by hand, how many faults there are.                *)
(***************************************************************************)
EXTENDS HermesRebuild, FiniteSets

VARIABLE load

\* Guards that race; a bridge and one rebuild by hand, or two, that fail.
MCLoads == {[calls |-> 2, byHand |-> 0, faults |-> 0],
            [calls |-> 1, byHand |-> 1, faults |-> 1],
            [calls |-> 0, byHand |-> 2, faults |-> 2]}

WithinLoad ==
    /\ faults' <= load.faults
    /\ Cardinality({b \in Bridge : bridge'[b].pc # "idle" /\ ~bridge'[b].waiter}) <= load.calls
    /\ Cardinality({r \in Rebuild : rebuild'[r].byHand}) <= load.byHand

MCInit == Init /\ load \in MCLoads
MCNext == Next /\ WithinLoad /\ UNCHANGED load
MCSpec == MCInit /\ [][MCNext]_<<vars, load>> /\ Fairness
=============================================================================
