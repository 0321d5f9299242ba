--------------------------- MODULE MCSeckillLaunch ---------------------------
(* Small instances of SeckillLaunch for TLC. *)
EXTENDS SeckillLaunch

CONSTANTS r1, r2, r3
=============================================================================
