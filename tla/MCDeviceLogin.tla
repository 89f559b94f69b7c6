---------------------------- MODULE MCDeviceLogin ----------------------------
(* Instances of DeviceLogin for TLC. *)
EXTENDS DeviceLogin, TLC

LoginSymmetry == Permutations(Procs) \cup Permutations(Accounts)
=============================================================================
