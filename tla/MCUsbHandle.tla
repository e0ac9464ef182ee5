---------------------------- MODULE MCUsbHandle ----------------------------
(* Model checking of UsbHandle: two programs, a device with two            *)
(* configurations, and messages at the limits of each length, with values  *)
(* that fit into a packet and values that do not.                          *)
EXTENDS UsbHandle, TLC

MCConfigs == 1 :> (0 :> 2 @@ 1 :> 1) @@ 2 :> (0 :> 1)

Requests == StandardRequests \cup {"UNKNOWN"}
MCMessages ==
    [type : {"standard", "class", "vendor", "reserved"}, in : BOOLEAN, recipient : {0, 1, 3, 5},
     request : Requests, value : {0, 1, 65794}, index : {0, 1, 65537},
     length : {0, 1, 2, MaxReadWrite - RequestSize, MaxReadWrite}]
=============================================================================
