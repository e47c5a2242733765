------------------------------- MODULE MCCiWorkflow -------------------------------
(***************************************************************************)
(* A check of most filters, two jobs that build what is published, and     *)
(* changes to any of four groups of paths.                                 *)
(***************************************************************************)
EXTENDS CiWorkflow
===============================================================================
