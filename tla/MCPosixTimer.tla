---------------------------- MODULE MCPosixTimer -----------------------------
(* Two software timers and one POSIX timer, for TLC. *)
EXTENDS PosixTimer

OnePosixTimer == {1}
=============================================================================
