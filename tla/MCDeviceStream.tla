--------------------------- MODULE MCDeviceStream ---------------------------
(* Instances of DeviceStream for TLC: a kind visited under a try lock and  *)
(* one visited without, two names each may use, and the device lists the   *)
(* system may report.                                                      *)
EXTENDS DeviceStream, TLC

CONSTANTS core, sensor, network, a, b

MCNoKind == "none"

SensorNet   == {sensor, network}
SensorFirst == <<sensor, network>>
CoreNet     == {core, network}
CoreFirst   == <<core, network>>

(* A sensor that comes and goes, and a network interface that another one  *)
(* may replace, or join.                                                   *)
PlugSamples ==
  (sensor :> {<<>>} \cup [{a} -> {0}]) @@
  (network :> [{a} -> {0}] \cup [{b} -> {0}])

(* A core whose load moves at every tick, and a network interface that     *)
(* comes, goes and counts.                                                 *)
ReadingSamples ==
  (core :> [{a} -> {0, 1}]) @@ (network :> {<<>>} \cup [{b} -> {0, 1}])
=============================================================================
