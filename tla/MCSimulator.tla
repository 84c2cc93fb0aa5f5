---------------------------- MODULE MCSimulator ----------------------------
(* Instances of Simulator for TLC.                                         *)
EXTENDS Simulator, MCDbusDispatch

(* The ways a message ends: an answer that depends on the script, none, a  *)
(* crash.  MCDbusDispatch has the others.                                  *)
SomeMessages ==
  {Call("device", "ObjectManager", "GetManagedObjects", NULL, "enough"),
   Call("device", "Properties", "Set", NULL, "enough"),
   Call("device", NULL, "Get", NULL, "enough")}
=============================================================================
