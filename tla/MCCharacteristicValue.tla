----------------------- MODULE MCCharacteristicValue -----------------------
(* Instances of CharacteristicValue for TLC.                               *)
EXTENDS CharacteristicValue
=============================================================================
