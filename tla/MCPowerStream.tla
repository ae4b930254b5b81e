--------------------------- MODULE MCPowerStream ---------------------------
(* Batteries, sensors and the power supply for TLC.                        *)
EXTENDS PowerStream

CONSTANTS batteries, sensors

MCVisits    == <<sensors, power, batteries>>
MCShutdowns == <<batteries, sensors, power>>
=============================================================================
