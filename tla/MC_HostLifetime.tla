--------------------------- MODULE MC_HostLifetime ---------------------------
(* A small host: two generations, two pieces of work, and a clock long      *)
(* enough for the startup deadline, two reconnect graces and saturation.    *)
EXTENDS HostLifetime
=============================================================================
