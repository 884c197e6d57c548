------------------------- MODULE MCDeviceLifecycle -------------------------
(* TLC instances of DeviceLifecycle.                                        *)
EXTENDS DeviceLifecycle, TLC

ThreadSymmetry == Permutations(Threads)
=============================================================================
