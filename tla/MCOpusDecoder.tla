----------------------------- MODULE MCOpusDecoder -----------------------------
(***************************************************************************)
(* Packets of one to four frames.  The warm-up the header names and the    *)
(* one the container signals differ in both directions and span packets,   *)
(* and padding may reach into them; headers take every way out of the      *)
(* parser, their lengths around each offset it reads.                      *)
(***************************************************************************)
EXTENDS OpusDecoder

MCSound ==
  [length |-> 19, magic |-> TRUE, version |-> 1, channels |-> 2, family |-> 0]

MCSkipping(pre_skip) ==
  [field \in DOMAIN MCSound \cup {"pre_skip"} |->
     IF field = "pre_skip" THEN pre_skip ELSE MCSound[field]]

MCHeads == {head \in
  [length : {0, 18, 19, 20, 21, 22, 23, 28, 29, 275, 276}, magic : BOOLEAN,
   version : {0, 15, 16}, channels : {0, 1, 2, 3, 8, 9, 255},
   family : {0, 1, 2, 255}, pre_skip : {1}] :
  head.magic => head.length >= 8}

MCStreams ==
  [head : {MCSkipping(pre_skip) : pre_skip \in 0 .. 6},
   total : {0, 3, 5, 8, 9}, start : {0, 1, 5, 6}, end : {0, 2, 5, 6}]
    \cup [head : MCHeads, total : {1}, start : {0}, end : {0}]
================================================================================
