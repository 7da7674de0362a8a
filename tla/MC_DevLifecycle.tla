-------------------------- MODULE MC_DevLifecycle --------------------------
(***************************************************************************)
(* Small instances of the dev servers' life cycle for TLC.                 *)
(***************************************************************************)
EXTENDS DevLifecycle, TLC

\* Processes of the script are interchangeable, and so are stacks.
Symmetry == Permutations(Op) \cup Permutations(Stack)

\* Disturbances accumulate, and each property but TypeOK is silent after an overlap or a
\* killed script: what a second disturbance of another kind leads to is not followed up.
OneDisturbance == \A x, y \in disturbed : x = y
=============================================================================
