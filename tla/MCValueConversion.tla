-------------------------- MODULE MCValueConversion --------------------------
(***************************************************************************)
(* Arguments for ValueConversion: numbers at the edges of the 8, 16 and 32 *)
(* bit types, a fraction, booleans and strings, alone and in arrays.       *)
(***************************************************************************)
EXTENDS ValueConversion

MinusOne == Number(-1, <<0, 0, 128, 191>>, <<0, 0, 0, 0, 0, 0, 240, 191>>)
Edge8 == Number(128, <<0, 0, 0, 67>>, <<0, 0, 0, 0, 0, 0, 96, 64>>)
Above8 == Number(300, <<0, 0, 150, 67>>, <<0, 0, 0, 0, 0, 192, 114, 64>>)
Edge16 == Number(-32769, <<0, 1, 0, 199>>, <<0, 0, 0, 0, 32, 0, 224, 192>>)
Max32 == Number(2147483647, <<0, 0, 0, 79>>, <<0, 0, 192, 255, 255, 255, 223, 65>>)
OneAndAHalf == Number(0, <<0, 0, 192, 63>>, <<0, 0, 0, 0, 0, 0, 248, 63>>)

Scalars ==
  {Nil, String, Boolean(TRUE), Boolean(FALSE),
   MinusOne, Edge8, Above8, Edge16, Max32, OneAndAHalf}

ItemValues == {Nil, String, Boolean(TRUE), MinusOne, Above8, Table(<<>>)}

MaxItems == 3

Tables == {Table(s) : s \in UNION {[1..n -> ItemValues] : n \in 0..MaxItems}}

MCArguments == Scalars \cup Tables

(* Every type, one past the last, some that only their low byte hides, and *)
(* 2^32 + 5 and 2^32 + 261, of which the cast leaves BLE_INT32 and 261.    *)
MCTypeArguments ==
  [high : {0}, low : (0..12) \cup {256, 261}]
    \cup {[high |-> -1, low |-> -255], [high |-> 1, low |-> 5], [high |-> 1, low |-> 261]}

MCStraySizes == {0, 1, 2}

MCStringArguments == {String}
=============================================================================
