----------------------------- MODULE MCHanningWindow -----------------------------
(***************************************************************************)
(* The window at the source's sizes: every sample of a chunk, followed from*)
(* every chunk of the ring.                                                *)
(***************************************************************************)
EXTENDS HanningWindow
================================================================================
