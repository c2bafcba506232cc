---------------------------- MODULE MCTrackerSync ----------------------------
(* The columns of a new board: To Do, In Progress, Done.  The other hive     *)
(* statuses have none.                                                      *)
EXTENDS TrackerSync, TLC

UsualColumns == {"draft", "in_progress", "merged"}
=============================================================================
