--------------------------- MODULE MCDependabotMerge ---------------------------
(***************************************************************************)
(* Every kind of branch, through bumps that move or stale anything.        *)
(***************************************************************************)
EXTENDS DependabotMerge
================================================================================
