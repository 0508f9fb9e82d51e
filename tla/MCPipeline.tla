----------------------------- MODULE MCPipeline ------------------------------
(* Files of one size for the composition of the two loops. *)
EXTENDS Pipeline

MCSize == [h \in Hash |-> 1]
=============================================================================
