---------------------------- MODULE MCProcessRun ----------------------------
(* One command with two children, on POSIX or on Windows. *)
EXTENDS ProcessRun, TLC

CONSTANTS command, child, worker
=============================================================================
