----------------------------- MODULE MCService -----------------------------
(* A daemon that may be there, one to launch and a tool, for TLC;          *)
(* two intervals, with their periods of broadcasts.                        *)
EXTENDS Service, TLC

CONSTANTS normal, slow

MCPeriod == normal :> 4 @@ slow :> 2
=============================================================================
