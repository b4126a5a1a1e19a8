--------------------------- MODULE MCDeviceRegistry ---------------------------
(* A small instance of DeviceRegistry for TLC. *)
EXTENDS DeviceRegistry

CONSTANTS s1, s2, t1, k1, k2, a1

=============================================================================
