---------------------------- MODULE MCPipeline ----------------------------
(* Pipeline for model checking: two readers in stage 1, one in each word   *)
(* of the bitmap, and one in stage 2.                                      *)
EXTENDS Pipeline

MCInUse   == [k \in Stages |-> IF k = 1 THEN {0, 1} ELSE {0}]
MCLeavers == [k \in Stages |-> {0}]

(* A late AddReader in stage 1, or none. *)
MCLate    == [k \in Stages |-> IF k = 1 THEN 1 ELSE 0]
MCNotLate == [k \in Stages |-> 0]
=============================================================================
