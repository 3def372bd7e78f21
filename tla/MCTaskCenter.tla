--------------------------- MODULE MCTaskCenter ---------------------------
(* TaskCenter with one room; its second row is a retry of the first, or a   *)
(* later task.                                                              *)
EXTENDS TaskCenter

CONSTANT a
=============================================================================
