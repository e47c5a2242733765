------------------------------ MODULE MCRecognizer ------------------------------
(***************************************************************************)
(* Two calls against one blocking thread, a file rewritten from audio to a *)
(* content that panics the decoder, and setters that are given zero.       *)
(***************************************************************************)
EXTENDS Recognizer

MCWork(version) ==
  IF version = 0 THEN "signature" ELSE "panic"
===============================================================================
