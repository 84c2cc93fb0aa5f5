----------------------------- MODULE MCGattTree -----------------------------
(***************************************************************************)
(* Instances of GattTree for TLC.  Objects of one kind, and uuids, are     *)
(* interchangeable: the specification never orders or names them.          *)
(***************************************************************************)
EXTENDS GattTree, TLC

Symmetry ==
  Permutations(Devices) \cup Permutations(Services) \cup
  Permutations(Characteristics) \cup Permutations(Descriptors) \cup
  Permutations(Uuids)
=============================================================================
