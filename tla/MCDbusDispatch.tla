--------------------------- MODULE MCDbusDispatch ---------------------------
(* Instances of DbusDispatch for TLC.                                      *)
EXTENDS DbusDispatch

Call(path, interface, member, argument, memory) ==
  [type |-> "call", path |-> path, interface |-> interface, member |-> member,
   argument |-> argument, memory |-> memory]

GetUuid == Call("service", "Properties", "Get", "UUID", "enough")

(* One message for each way through the handlers; the last one is a signal *)
(* that looks like a call of a property.                                   *)
AllMessages ==
  {Call("device", "ObjectManager", "GetManagedObjects", NULL, "enough"),
   Call("device", "ObjectManager", "GetManagedObjects", NULL, "no_reply"),
   Call("device", "Properties", "GetAll", NULL, "enough"),
   GetUuid,
   Call("service", "Properties", "Get", NULL, "enough"),
   Call("service", "Properties", "Set", NULL, "enough"),
   Call("service", "Properties", "GetAll", NULL, "no_reply"),
   Call("service", NULL, "Get", NULL, "enough"),
   Call("characteristic", "GattCharacteristic1", "WriteValue", NULL, "enough"),
   Call("characteristic", "GattCharacteristic1", "ReadValue", NULL, "enough"),
   Call("characteristic", "GattCharacteristic1", "StopNotify", NULL, "no_queue"),
   Call("advertisement", "LEAdvertisement1", "Release", NULL, "enough"),
   [GetUuid EXCEPT !.type = "signal"]}

GetMessages == {GetUuid}
=============================================================================
