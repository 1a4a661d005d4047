-------------------------- MODULE MCDeviceRegistry --------------------------
(* DeviceRegistry on small instances.                                      *)
EXTENDS DeviceRegistry
=============================================================================
