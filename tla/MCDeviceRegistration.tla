------------------------ MODULE MCDeviceRegistration ------------------------
(***************************************************************************)
(* Instances of DeviceRegistration for TLC.  Devices, and names, are       *)
(* interchangeable; the runs with a liveness property use no symmetry.     *)
(***************************************************************************)
EXTENDS DeviceRegistration, TLC

Symmetry == Permutations(Devices) \cup Permutations(Names)
=============================================================================
