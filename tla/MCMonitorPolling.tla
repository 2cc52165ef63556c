--------------------------- MODULE MCMonitorPolling ---------------------------
(* An instance of MonitorPolling for TLC: an IOS-XR and a Junos device. *)
EXTENDS MonitorPolling

CONSTANTS xr, junos

MCDevices        == {xr, junos}
MCNetconfDevices == {junos}
MCMaxTicks       == [d \in MCDevices |-> IF d = xr THEN 2 ELSE 1]
=============================================================================
