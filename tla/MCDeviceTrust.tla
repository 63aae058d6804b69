---------------------------- MODULE MCDeviceTrust ----------------------------
(* Two devices of one user and two deliveries at a time.                       *)
EXTENDS DeviceTrust

CONSTANTS d1, d2, w1, w2

TwoDevices == {d1, d2}
TwoWorkers == {w1, w2}
==============================================================================
