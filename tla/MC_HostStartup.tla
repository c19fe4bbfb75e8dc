--------------------------- MODULE MC_HostStartup ---------------------------
(* Two clients and one incarnation more than there are faults that can cost *)
(* a launch.                                                                *)
EXTENDS HostStartup
=============================================================================
