--------------------------- MODULE MCProcessTable ---------------------------
(* Instances of the process table for TLC. *)
EXTENDS ProcessLines

BaselineCheck == Baseline
BlockableCheck == Baseline \cup {"blocked"}

=============================================================================
