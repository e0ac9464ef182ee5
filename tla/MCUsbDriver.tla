---------------------------- MODULE MCUsbDriver ----------------------------
(* Model checking of UsbDriver: a device the driver was installed for, one *)
(* that it filters, and a hub, which it leaves alone.                      *)
EXTENDS UsbDriver

Installed == [usb |-> TRUE, hub |-> FALSE, skipped |-> FALSE, wdf |-> FALSE,
              key |-> TRUE, surprise |-> TRUE, initial |-> TRUE]

MCDevices == { Installed, [Installed EXCEPT !.surprise = FALSE], [Installed EXCEPT !.hub = TRUE] }
=============================================================================
