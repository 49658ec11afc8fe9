--------------------------- MODULE MCDeviceRegistry ---------------------------
(***************************************************************************)
(* DeviceRegistry for TLC: one source at a time, the two watchers racing,   *)
(* and everything at once with fewer devices.                               *)
(***************************************************************************)
EXTENDS DeviceRegistry

Setup(from, ids, cap, twice, requests) ==
    [sources |-> from, ids |-> ids, busCap |-> cap, doubles |-> twice, adds |-> requests]

UsbOnly  == Setup({"usb"}, 2, 3, FALSE, 0)
MdnsOnly == Setup({"mdns"}, 3, 4, FALSE, 0)
Both     == Setup({"usb", "mdns"}, 3, 2, FALSE, 0)
All      == Setup({"usb", "mdns", "manual"}, 2, 2, TRUE, 1)
BothOnce == Setup({"usb", "mdns"}, 2, 4, FALSE, 0)

AllSetups == {UsbOnly, MdnsOnly, Both, All}
RaceSetups == {BothOnce}
=============================================================================
