------------------------------ MODULE MCResampling ------------------------------
(***************************************************************************)
(* Chunks of four frames at a ratio of 3 to 8, pieces of every size from   *)
(* none to more than two chunks, and a warm-up longer than the first call. *)
(***************************************************************************)
EXTENDS Resampling

MCOutputAfter(count) == (3 * CHUNK_FRAMES * count) \div 8
MCExpected(frames) == (3 * frames + 7) \div 8
===============================================================================
