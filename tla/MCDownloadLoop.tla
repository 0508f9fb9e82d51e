---------------------------- MODULE MCDownloadLoop ----------------------------
(* Files for the download loop: a large one, and small ones. *)
EXTENDS DownloadLoop

CONSTANTS large, small, odd

MCSize == [h \in Hash |-> IF h = large THEN 2 ELSE 1]
=============================================================================
