--------------------------- MODULE MCDeviceStorage ---------------------------
(* A small instance of DeviceStorage for TLC: three launches of one install. *)
EXTENDS DeviceStorage

MCDeviceSpec == DeviceSpec /\ DeviceFairness
=============================================================================
