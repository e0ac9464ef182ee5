---------------------------- MODULE MCDeviceConfig ----------------------------
(* Model checking of DeviceConfig: a device with two configurations, whose *)
(* first one has an interface with two alternate settings.                 *)
EXTENDS DeviceConfig, TLC

Bulk(address) == [address |-> address, type |-> "bulk"]
Iso(address) == [address |-> address, type |-> "iso"]

MCConfigs == <<
    [value |-> 5, order |-> <<1, 0>>, interfaces |-> (0 :> << <<Bulk(129), Bulk(2)>>, <<Iso(129)>> >>)
                              @@ (1 :> << <<Iso(3)>> >>)],
    [value |-> 7, order |-> <<0>>, interfaces |-> (0 :> << <<Bulk(2)>> >>)] >>
=============================================================================
