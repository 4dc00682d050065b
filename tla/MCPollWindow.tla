---------------------------- MODULE MCPollWindow ----------------------------
(* Schedules for TLC. *)
EXTENDS PollWindow

UnevenFires == {0, 1, 4, 8, 9, 15}
=============================================================================
