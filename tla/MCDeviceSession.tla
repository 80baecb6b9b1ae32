-------------------------- MODULE MCDeviceSession --------------------------
(* Any small numbers will do: the cfg files give the constants values.     *)
EXTENDS DeviceSession
=============================================================================
