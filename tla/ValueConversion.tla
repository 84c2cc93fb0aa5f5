--------------------------- MODULE ValueConversion ---------------------------
(***************************************************************************)
(* characteristic:setValue(argument, type) of the script: how a Lua value, *)
(* or an array of them, becomes the bytes of a characteristic              *)
(* (luai_characteristic_set_value and its helpers in lua_interface.c).     *)
(*                                                                         *)
(* One behaviour is one call.  It ends with the boolean the script gets,   *)
(* or with a Lua error that unwinds the C stack past every free of the     *)
(* functions it leaves.                                                    *)
(***************************************************************************)
EXTENDS Integers, Sequences

CONSTANTS
  Arguments,      \* what a script passes as first argument
  TypeArguments,  \* ... and as second: 64 bit integers, Datatype.INT8 and the like
  StraySizes,     \* what lies behind the end of BLE_DATA_TYPE_SIZE
  MallocMayFail

Byte == 0..255

(* A Lua value; the items of a table are the "items" of its record.        *)
IsLuaValue(v) ==
  /\ v.kind \in {"nil", "string", "boolean", "number", "table"}
  /\ v.kind = "boolean" => v.truth \in BOOLEAN
  /\ v.kind = "number" => v.integer \in Int /\ v.float \in [1..4 -> Byte] /\ v.double \in [1..8 -> Byte]

ASSUME ArgumentsAreLuaValues ==
  \A v \in Arguments :
    /\ IsLuaValue(v)
    /\ v.kind = "table" =>
         /\ DOMAIN v.items = 1..Len(v.items) /\ Len(v.items) \in Nat
         /\ \A k \in DOMAIN v.items : IsLuaValue(v.items[k])

(* A lua_Integer by its upper and its lower 32 bits.                       *)
ASSUME TypeArgumentsAreIntegers == TypeArguments \subseteq [high : Int, low : Int]
ASSUME StraySizesAreSizes == StraySizes \subseteq Nat
ASSUME MallocMayFailIsBoolean == MallocMayFail \in BOOLEAN

(* ble_data_type_t                                                         *)
BLE_BOOL == 0
BLE_INT8 == 1
BLE_UINT8 == 2
BLE_INT16 == 3
BLE_UINT16 == 4
BLE_INT32 == 5
BLE_UINT32 == 6
BLE_INT64 == 7
BLE_UINT64 == 8
BLE_FLOAT == 9
BLE_DOUBLE == 10
BLE_STRING == 11

Types == 0..11
SignedTypes == {BLE_INT8, BLE_INT16, BLE_INT32, BLE_INT64}
UnsignedTypes == {BLE_UINT8, BLE_UINT16, BLE_UINT32, BLE_UINT64}
NumberTypes == SignedTypes \cup UnsignedTypes \cup {BLE_FLOAT, BLE_DOUBLE}

BLE_DATA_TYPE_SIZE == [t \in Types |-> <<1, 1, 1, 2, 2, 4, 4, 8, 8, 4, 8, 0>>[t + 1]]

-----------------------------------------------------------------------------
(* Lua values.  A number comes with what lua_tointeger makes of it (0 if   *)
(* it has a fraction) and with the bytes of the C float and double it is.  *)

Nil == [kind |-> "nil"]
String == [kind |-> "string"]
Boolean(b) == [kind |-> "boolean", truth |-> b]
Number(n, float, double) ==
  [kind |-> "number", integer |-> n, float |-> float, double |-> double]
Table(items) == [kind |-> "table", items |-> items]

(* lua_rawlen returns any border: an index followed by nil.                *)
Borders(items) ==
  {n \in 0..Len(items) : /\ n = 0 \/ items[n].kind # "nil"
                         /\ n = Len(items) \/ items[n + 1].kind = "nil"}

-----------------------------------------------------------------------------
(* Bytes, least significant first, of two's complement integers.           *)

Shifted(n) == LET s[k \in 0..8] == IF k = 0 THEN n ELSE s[k - 1] \div 256 IN s

(* Mutant: the bytes are those of a signed char.                           *)
Bytes_Signed(n, width) == [k \in 1..width |-> ((Shifted(n)[k - 1] + 128) % 256) - 128]

Bytes(n, width) == [k \in 1..width |-> Shifted(n)[k - 1] % 256]

(* Mutant: a 16 bit value goes through an int8_t.                          *)
Cast_Narrow(v, t) ==
  IF t = BLE_FLOAT THEN v.float
  ELSE IF t = BLE_DOUBLE THEN v.double
  ELSE IF t = BLE_INT16 THEN Bytes(((v.integer + 128) % 256) - 128, 2)
  ELSE Bytes(v.integer, BLE_DATA_TYPE_SIZE[t])

Cast(v, t) ==
  IF t = BLE_FLOAT THEN v.float
  ELSE IF t = BLE_DOUBLE THEN v.double
  ELSE Bytes(v.integer, BLE_DATA_TYPE_SIZE[t])

(* Mutant: the case of the uint32_t was copied with the mistake.           *)
Allocated_Copied(t) == IF t \in {BLE_INT32, BLE_UINT32} THEN 1 ELSE BLE_DATA_TYPE_SIZE[t]

(* The memory malloc is asked for; for an int32_t it is that of an int8_t. *)
Allocated(t) == IF t = BLE_INT32 THEN 1 ELSE BLE_DATA_TYPE_SIZE[t]

Done(bytes, block) ==
  [outcome |-> "true", bytes |-> bytes, leaks |-> 0, overruns |-> Len(bytes) > block]
Refused(leaks) == [outcome |-> "false", bytes |-> <<>>, leaks |-> leaks, overruns |-> FALSE]
LuaError == [outcome |-> "error", bytes |-> <<>>, leaks |-> 0, overruns |-> FALSE]

OutOfMemory == IF MallocMayFail THEN {Refused(0)} ELSE {}

(* Mutant: the conversion looks at the low byte of the type too.           *)
ConvertNumber_LowByte(v, t) ==
  IF t % 256 \in NumberTypes THEN {Done(Cast(v, t % 256), Allocated(t % 256))} \cup OutOfMemory
  ELSE {LuaError}

ConvertNumber(v, t) ==
  IF t \in NumberTypes THEN {Done(Cast(v, t), Allocated(t))} \cup OutOfMemory
  ELSE {LuaError}

(* What luai_lua_data_arg_to_ble_data_type may return.  The case of a      *)
(* string copies it and falls through to the default.                      *)
Convert(v, t) ==
  CASE v.kind = "boolean" ->
         IF t = BLE_BOOL THEN {Done(<<IF v.truth THEN 1 ELSE 0>>, 1)} \cup OutOfMemory
         ELSE {Refused(0)}
    [] v.kind = "number" -> ConvertNumber(v, t)
    [] v.kind = "string" -> {Refused(1)} \cup OutOfMemory
    [] v.kind \in {"nil", "table"} -> {Refused(0)}

-----------------------------------------------------------------------------
VARIABLES
  argument, type,
  pc,        \* "start", "items" in the loop of luai_get_array, "done"
  items, i, size, buf, \* the locals of luai_get_array
  outcome,   \* "none" yet, "true" or "false" to the script, "error" of Lua,
             \* "crashed" by a read past the end of BLE_DATA_TYPE_SIZE
  value,     \* what characteristic_update_value is given
  leaked,    \* blocks nobody will free
  overrun    \* a write went past the end of its block

locals == <<items, i, size, buf>>
vars == <<argument, type, pc, locals, outcome, value, leaked, overrun>>

(* The cast to ble_data_type_t keeps the lower 32 bits of the integer, the *)
(* lowest byte among them: the check and the enum can both be read off     *)
(* what is left.  2^32 + 5 is a BLE_INT32.                                 *)
AsEnum(n) == n.low

Init ==
  /\ argument \in Arguments
  /\ type \in {AsEnum(n) : n \in TypeArguments}
  /\ pc = "start"
  /\ items = 0 /\ i = 0 /\ size = 0 /\ buf = <<>>
  /\ outcome = "none"
  /\ value = <<>>
  /\ leaked = 0
  /\ overrun = FALSE

Return(result) ==
  /\ pc' = "done"
  /\ outcome' = result
  /\ UNCHANGED <<argument, type, locals>>

(* Only the low byte of the type is compared with the last of the enum.    *)
TypeAccepted == type % 256 <= BLE_STRING

WrongType ==
  /\ pc = "start"
  /\ ~TypeAccepted
  /\ Return("error")
  /\ UNCHANGED <<value, leaked, overrun>>

SetScalar ==
  /\ pc = "start"
  /\ TypeAccepted
  /\ argument.kind # "table"
  /\ \E r \in Convert(argument, type) :
       /\ Return(r.outcome)
       /\ value' = r.bytes
       /\ leaked' = leaked + r.leaks
       /\ overrun' = r.overruns

(* luai_get_array before its loop.  A type outside the enum indexes past   *)
(* the end of BLE_DATA_TYPE_SIZE: that ends the program, or reads a size   *)
(* that is none.                                                           *)
ReadPastSizes ==
  /\ pc = "start"
  /\ TypeAccepted /\ type \notin Types
  /\ argument.kind = "table" /\ Borders(argument.items) # {0}
  /\ Return("crashed")
  /\ UNCHANGED <<value, leaked, overrun>>

TypeSizes == IF type \in Types THEN {BLE_DATA_TYPE_SIZE[type]} ELSE StraySizes

NoArray ==
  /\ pc = "start"
  /\ TypeAccepted
  /\ argument.kind = "table"
  /\ \E n \in Borders(argument.items) :
       \/ n = 0 /\ Return("false")
       \/ n > 0 /\ type = BLE_STRING /\ Return("error")
       \/ n > 0 /\ type # BLE_STRING /\ MallocMayFail /\ Return("false")
  /\ UNCHANGED <<value, leaked, overrun>>

StartArray ==
  /\ pc = "start"
  /\ TypeAccepted /\ type # BLE_STRING
  /\ argument.kind = "table"
  /\ \E n \in Borders(argument.items) \ {0}, s \in TypeSizes :
       /\ items' = n
       /\ size' = s
       /\ buf' = [k \in 1..(n * s) |-> 0]
  /\ i' = 1
  /\ pc' = "items"
  /\ UNCHANGED <<argument, type, outcome, value, leaked, overrun>>

Item == argument.items[i]
AtItem == pc = "items" /\ i <= items

(* Mutant: the index of Lua is used as the index of C.                     *)
Offset_OneBased == i * size

Offset == (i - 1) * size

(* memcpy into the buffer; what goes past its end is lost.                 *)
Written(bytes) ==
  [k \in DOMAIN buf |-> IF k \in (Offset + 1)..(Offset + size) THEN bytes[k - Offset] ELSE buf[k]]

(* Mutant: the copy of the item is not freed.                              *)
ConvertItem_NotFreed ==
  /\ AtItem
  /\ Item.kind \notin {"nil", "table"}
  /\ \E r \in Convert(Item, type) :
       /\ r.outcome = "true" /\ Len(r.bytes) = size
       /\ buf' = Written(r.bytes)
       /\ overrun' = (overrun \/ r.overruns \/ Offset + size > Len(buf))
       /\ leaked' = leaked + 1
  /\ i' = i + 1
  /\ UNCHANGED <<argument, type, pc, items, size, outcome, value>>

ConvertItem ==
  /\ AtItem
  /\ Item.kind \notin {"nil", "table"}
  /\ \E r \in Convert(Item, type) :
       /\ r.outcome = "true" /\ Len(r.bytes) = size
       /\ buf' = Written(r.bytes)
       /\ overrun' = (overrun \/ r.overruns \/ Offset + size > Len(buf))
       /\ UNCHANGED leaked
  /\ i' = i + 1
  /\ UNCHANGED <<argument, type, pc, items, size, outcome, value>>

(* The buffer is freed, the converted item is not.                         *)
RefuseItem ==
  /\ AtItem
  /\ Item.kind \notin {"nil", "table"}
  /\ \E r \in Convert(Item, type) :
       /\ \/ r.outcome = "false" /\ leaked' = leaked + r.leaks
          \/ r.outcome = "true" /\ Len(r.bytes) # size /\ leaked' = leaked + 1
       /\ overrun' = (overrun \/ r.overruns)
  /\ Return("false")
  /\ UNCHANGED value

(* luaL_argerror does not return: the buffer is lost.                      *)
FailItem ==
  /\ AtItem
  /\ \/ Item.kind = "table"
     \/ Item.kind # "nil" /\ LuaError \in Convert(Item, type)
  /\ Return("error")
  /\ leaked' = leaked + 1
  /\ UNCHANGED <<value, overrun>>

(* Past the last item, or at a nil, the array ends.                        *)
FinishArray ==
  /\ pc = "items"
  /\ \/ i > items
     \/ i <= items /\ Item.kind = "nil"
  /\ Return("true")
  /\ value' = SubSeq(buf, 1, (i - 1) * size)
  /\ UNCHANGED <<leaked, overrun>>

Next ==
  \/ WrongType
  \/ SetScalar
  \/ NoArray
  \/ ReadPastSizes
  \/ StartArray
  \/ ConvertItem
  \/ RefuseItem
  \/ FailItem
  \/ FinishArray

Spec == Init /\ [][Next]_vars

-----------------------------------------------------------------------------
(* Every variable has its type.                                            *)
TypeOK ==
  /\ argument \in Arguments
  /\ type \in {AsEnum(n) : n \in TypeArguments}
  /\ pc \in {"start", "items", "done"}
  /\ items \in Nat /\ i \in Nat /\ size \in Nat
  /\ buf \in Seq(Byte)
  /\ outcome \in {"none", "true", "false", "error", "crashed"}
  /\ value \in Seq(Byte)
  /\ leaked \in Nat
  /\ overrun \in BOOLEAN

(* The values that count: the argument, or the items before the first nil. *)
Wanted ==
  IF argument.kind = "table"
  THEN LET n == CHOOSE n \in 0..Len(argument.items) :
                  /\ \A k \in 1..n : argument.items[k].kind # "nil"
                  /\ n = Len(argument.items) \/ argument.items[n + 1].kind = "nil"
       IN  [k \in 1..n |-> argument.items[k]]
  ELSE <<argument>>

Encoding(v) == IF v.kind = "boolean" THEN <<IF v.truth THEN 1 ELSE 0>> ELSE Cast(v, type)

(* A value is cut into as many bytes for each item as its type has.        *)
Width == IF type \in Types THEN BLE_DATA_TYPE_SIZE[type] ELSE 0
Slice(bytes, k, width) == [b \in 1..width |-> bytes[(k - 1) * width + b]]

(* The bytes of an accepted value are those of its items, one after the    *)
(* other, up to the first nil: whichever border of a table with holes Lua  *)
(* takes for its length, and with no item lost, doubled or shifted.        *)
AcceptedInFull ==
  outcome = "true" =>
    /\ Len(value) = Len(Wanted) * Width
    /\ \A k \in DOMAIN Wanted : Slice(value, k, Width) = Encoding(Wanted[k])

(* A number of the type's range comes out as it went in: reading the bytes *)
(* back as two's complement, or as unsigned, gives the number the script   *)
(* set.                                                                    *)
TopByte(n, t) == Shifted(n)[BLE_DATA_TYPE_SIZE[t] - 1]
Fits(n, t) ==
  \/ t \in SignedTypes /\ TopByte(n, t) \in -128..127
  \/ t \in UnsignedTypes /\ TopByte(n, t) \in Byte

(* The number of the k highest bytes, from the highest down.               *)
ReadBack(bytes, t) ==
  LET w == Len(bytes)
      sign == IF t \in SignedTypes /\ bytes[w] >= 128 THEN -1 ELSE 0
      high[k \in 0..w] == IF k = 0 THEN sign ELSE high[k - 1] * 256 + bytes[w - k + 1]
  IN  high[w]

FittingNumbersSurvive ==
  outcome = "true" /\ type \in SignedTypes \cup UnsignedTypes =>
    \A k \in DOMAIN Wanted :
      Fits(Wanted[k].integer, type) =>
        ReadBack(Slice(value, k, Width), type) = Wanted[k].integer

(* An enum value outside ble_data_type_t that passes the check, because    *)
(* only the low byte of the script's integer is looked at, sets nothing    *)
(* but an empty value, whatever the table of sizes is read to hold for it. *)
(* It says nothing of an integer whose lower 32 bits are a type: the cast  *)
(* takes 2^32 + 5 for BLE_INT32, and a full value is set.                  *)
StrayTypesSetNothing == outcome = "true" /\ type \notin Types => value = <<>>

(* Memory is lost only where a call is refused: a copied string, or what a *)
(* Lua error jumps over; never by a call that succeeds, however long its   *)
(* array.                                                                  *)
SuccessLeaksNothing ==
  /\ outcome \in {"none", "true"} => leaked = 0
  /\ leaked <= 1

(* Nothing is written past the end of a block, but for the int32_t that is *)
(* copied into a block of one byte: no other type, and no array.           *)
OnlyInt32Overruns == overrun => type = BLE_INT32

(* The enum lists the "Datatypes supported by the sim", BLE_STRING among   *)
(* them: a string is set as a string.                                      *)
StringsAreSet ==
  pc = "done" /\ argument.kind = "string" /\ type = BLE_STRING => outcome = "true"

-----------------------------------------------------------------------------
(* The inductive invariants behind the properties.                         *)

(* In the loop: the length is no more than the table's, the buffer has     *)
(* room for it, and a type outside the enum never gets past the first item. *)
LoopInv ==
  pc = "items" =>
    /\ argument.kind = "table"
    /\ items \in 1..Len(argument.items) /\ i \in 1..(items + 1) /\ size \in Nat
    /\ type \in Types => type # BLE_STRING /\ size = BLE_DATA_TYPE_SIZE[type]
    /\ type \notin Types => i = 1
    /\ DOMAIN buf = 1..(items * size) /\ Len(buf) = items * size

CallInv ==
  /\ argument \in Arguments /\ type \in {AsEnum(n) : n \in TypeArguments}
  /\ pc \in {"start", "items", "done"}
  /\ outcome \in {"none", "true", "false", "error", "crashed"}
  /\ pc # "done" => outcome = "none" /\ leaked = 0
  /\ leaked \in {0, 1}
  /\ LoopInv
  /\ StrayTypesSetNothing
  /\ SuccessLeaksNothing
  /\ OnlyInt32Overruns

(* What can be converted to the type at all.                               *)
Convertible(v) ==
  \/ v.kind = "boolean" /\ type = BLE_BOOL
  \/ v.kind = "number" /\ type \in NumberTypes

(* The items behind the loop were converted, and their bytes lie in the    *)
(* buffer; the length it runs to is a border.                              *)
ItemsBehind ==
  pc = "items" =>
    /\ items = Len(argument.items) \/ argument.items[items + 1].kind = "nil"
    /\ \A k \in 1..(i - 1) :
         /\ Convertible(argument.items[k])
         /\ Slice(buf, k, size) = Encoding(argument.items[k])

AcceptedAreConvertible ==
  outcome = "true" => \A k \in DOMAIN Wanted : IsLuaValue(Wanted[k]) /\ Convertible(Wanted[k])

BytesInv ==
  /\ CallInv
  /\ TypeOK
  /\ ItemsBehind
  /\ AcceptedAreConvertible
  /\ AcceptedInFull

=============================================================================
