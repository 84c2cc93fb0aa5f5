------------------------ MODULE ValueConversionProofs ------------------------
(***************************************************************************)
(* Theorems about ValueConversion, for arguments of any length and any     *)
(* type argument.                                                          *)
(***************************************************************************)
EXTENDS ValueConversion, SequenceTheorems, TLAPS

USE DEF BLE_BOOL, BLE_INT8, BLE_UINT8, BLE_INT16, BLE_UINT16, BLE_INT32, BLE_UINT32, BLE_INT64,
        BLE_UINT64, BLE_FLOAT, BLE_DOUBLE, BLE_STRING

-----------------------------------------------------------------------------
(* One conversion.                                                         *)

(* The table of sizes holds numbers.                                       *)
LEMMA SizesAreSizes == \A t \in Types : BLE_DATA_TYPE_SIZE[t] \in Nat
BY DEF Types, BLE_DATA_TYPE_SIZE

(* A number is as many bytes long as its type, and there is a block of     *)
(* that length for it, but for an int32_t.                                 *)
LEMMA CastLength ==
  ASSUME NEW v, IsLuaValue(v), v.kind = "number", NEW t \in NumberTypes
  PROVE  /\ Len(Cast(v, t)) = BLE_DATA_TYPE_SIZE[t]
         /\ Len(Cast(v, t)) > Allocated(t) => t = BLE_INT32
<1>0. t \in Types /\ t # BLE_STRING /\ BLE_DATA_TYPE_SIZE[t] \in Nat
  BY DEF NumberTypes, SignedTypes, UnsignedTypes, Types, BLE_DATA_TYPE_SIZE
<1>1. CASE t = BLE_FLOAT
  <2>1. Len(v.float) = 4
    <3>1. v.float \in [1..4 -> Byte]
      BY DEF IsLuaValue
    <3> QED
      BY <3>1
  <2>2. BLE_DATA_TYPE_SIZE[t] = 4 /\ Allocated(t) = 4
    BY <1>1 DEF BLE_DATA_TYPE_SIZE, Types, Allocated
  <2>3. Cast(v, t) = v.float
    BY <1>1 DEF Cast
  <2>4. Len(Cast(v, t)) = 4 /\ ~(4 > 4)
    BY <2>1, <2>3
  <2> QED
    BY <2>2, <2>4
<1>2. CASE t = BLE_DOUBLE
  <2>1. Len(v.double) = 8
    <3>1. v.double \in [1..8 -> Byte]
      BY DEF IsLuaValue
    <3> QED
      BY <3>1
  <2>2. BLE_DATA_TYPE_SIZE[t] = 8 /\ Allocated(t) = 8
    BY <1>2 DEF BLE_DATA_TYPE_SIZE, Types, Allocated
  <2>3. Cast(v, t) = v.double
    BY <1>2 DEF Cast
  <2>4. Len(Cast(v, t)) = 8 /\ ~(8 > 8)
    BY <2>1, <2>3
  <2> QED
    BY <2>2, <2>4
<1>3. CASE t # BLE_FLOAT /\ t # BLE_DOUBLE
  <2>1. Cast(v, t) = Bytes(v.integer, BLE_DATA_TYPE_SIZE[t])
    BY <1>3 DEF Cast
  <2>2. ASSUME NEW n, NEW w \in Nat PROVE Len(Bytes(n, w)) = w
    BY DEF Bytes
  <2> QED
    BY <1>0, <2>1, <2>2 DEF Allocated
<1> QED
  BY <1>1, <1>2, <1>3

(* What a conversion may come to.                                          *)
LEMMA ConvertResults ==
  ASSUME NEW v, IsLuaValue(v), NEW t \in Int, NEW r \in Convert(v, t)
  PROVE  /\ r.outcome \in {"true", "false", "error"}
         /\ r.leaks \in {0, 1}
         /\ r.outcome = "true" => r.leaks = 0 /\ t \in Types
         /\ r.overruns => t = BLE_INT32
<1> DEFINE Fine == /\ r.outcome \in {"true", "false", "error"}
                   /\ r.leaks \in {0, 1}
                   /\ r.outcome = "true" => r.leaks = 0 /\ t \in Types
                   /\ r.overruns => t = BLE_INT32
<1>1. CASE r \in OutOfMemory \/ r \in {Refused(0), Refused(1), LuaError}
  BY <1>1 DEF OutOfMemory, Refused, LuaError
<1>2. CASE v.kind = "boolean"
  <2>1. ASSUME NEW b, r = Done(<<b>>, 1), t = BLE_BOOL PROVE Fine
    <3>1. ~(Len(<<b>>) > 1)
      OBVIOUS
    <3>2. r.outcome = "true" /\ r.leaks = 0 /\ r.overruns = (Len(<<b>>) > 1)
      BY <2>1 DEF Done
    <3>3. t \in Types
      BY <2>1 DEF Types
    <3>4. ~r.overruns
      BY <3>1, <3>2, Zenon
    <3> QED
      BY <3>2, <3>3, <3>4
  <2> QED
    BY <1>1, <1>2, <2>1 DEF Convert
<1>3. CASE v.kind = "number"
  <2>1. ASSUME t \in NumberTypes, r = Done(Cast(v, t), Allocated(t)) PROVE Fine
    <3>1. t \in Types
      BY <2>1 DEF NumberTypes, SignedTypes, UnsignedTypes, Types
    <3> QED
      BY <1>3, <2>1, <3>1, CastLength DEF Done
  <2> QED
    BY <1>1, <1>3, <2>1 DEF Convert, ConvertNumber
<1>4. CASE v.kind \in {"nil", "string", "table"}
  BY <1>1, <1>4 DEF Convert
<1> QED
  BY <1>2, <1>3, <1>4 DEF IsLuaValue

-----------------------------------------------------------------------------
(* The call.                                                               *)

(* A call that has not begun has lost nothing.                             *)
LEMMA InitCall == Init => CallInv
BY DEF Init, CallInv, LoopInv, StrayTypesSetNothing, SuccessLeaksNothing, OnlyInt32Overruns

(* A return, with what it says of memory and value.                        *)
LEMMA ReturnCall ==
  ASSUME CallInv, pc # "done", NEW how \in {"true", "false", "error", "crashed"}, Return(how),
         leaked' \in {0, 1}, how = "true" => leaked' = 0 /\ (type \notin Types => value' = <<>>),
         overrun' => type = BLE_INT32
  PROVE  CallInv'
BY DEF CallInv, Return, locals, LoopInv, StrayTypesSetNothing, SuccessLeaksNothing, OnlyInt32Overruns

(* The item at hand, and where it goes: inside the buffer.                 *)
LEMMA AtAnItem ==
  ASSUME CallInv, AtItem
  PROVE  /\ IsLuaValue(Item)
         /\ type \in Types => ~(Offset + size > Len(buf))
<1>1. /\ argument \in Arguments /\ argument.kind = "table"
      /\ items \in 1..Len(argument.items) /\ i \in 1..items
  BY ArgumentsAreLuaValues DEF CallInv, LoopInv, AtItem
<1>2. IsLuaValue(Item)
  BY <1>1, ArgumentsAreLuaValues DEF Item
<1>3. ASSUME type \in Types PROVE ~(Offset + size > Len(buf))
  <2>1. size = BLE_DATA_TYPE_SIZE[type] /\ type \in 0..10 /\ Len(buf) = items * size
    BY <1>3 DEF CallInv, LoopInv, AtItem, Types
  <2>2. i \in Int /\ items \in Int /\ i <= items
    BY <1>1
  <2>3. size \in {1, 2, 4, 8}
    BY <2>1 DEF Types, BLE_DATA_TYPE_SIZE
  <2> QED
    BY <2>1, <2>2, <2>3 DEF Offset
<1> QED
  BY <1>2, <1>3

(* Each step of a call keeps the account of its memory.                    *)
LEMMA NextCall == CallInv /\ [Next]_vars => CallInv'
<1> SUFFICES ASSUME CallInv, [Next]_vars PROVE CallInv'
  OBVIOUS
<1> USE DEF locals
<1>0. /\ argument \in Arguments /\ type \in Int
      /\ overrun => type = BLE_INT32
      /\ pc # "done" => leaked = 0
  BY TypeArgumentsAreIntegers DEF AsEnum, CallInv, OnlyInt32Overruns
<1>1. CASE UNCHANGED vars
  BY <1>1 DEF vars, CallInv, LoopInv, StrayTypesSetNothing, SuccessLeaksNothing, OnlyInt32Overruns
<1>2. CASE WrongType
  BY <1>0, <1>2, ReturnCall DEF WrongType
<1>3. CASE SetScalar
  <2>1. PICK r \in Convert(argument, type) :
          /\ Return(r.outcome) /\ value' = r.bytes
          /\ leaked' = leaked + r.leaks /\ overrun' = r.overruns
    BY <1>3 DEF SetScalar
  <2>2. IsLuaValue(argument)
    BY <1>0, ArgumentsAreLuaValues
  <2> QED
    BY <1>0, <1>3, <2>1, <2>2, ReturnCall, ConvertResults DEF SetScalar
<1>4. CASE NoArray
  BY <1>0, <1>4, ReturnCall DEF NoArray
<1>4a. CASE ReadPastSizes
  BY <1>0, <1>4a, ReturnCall DEF ReadPastSizes
<1>5. CASE StartArray
  <2>1. PICK n \in Borders(argument.items) \ {0}, s \in TypeSizes :
          items' = n /\ size' = s /\ buf' = [k \in 1..(n * s) |-> 0]
    BY <1>5 DEF StartArray
  <2>2. n \in 1..Len(argument.items) /\ Len(argument.items) \in Nat
    BY <1>0, <1>5, ArgumentsAreLuaValues, <2>1 DEF StartArray, Borders
  <2>3. s \in Nat /\ (type \in Types => s = BLE_DATA_TYPE_SIZE[type])
    BY <2>1, SizesAreSizes, StraySizesAreSizes DEF TypeSizes
  <2>4. n * s \in Nat
    BY <2>2, <2>3
  <2>5. DOMAIN buf' = 1..(n * s) /\ Len(buf') = n * s
    BY <2>1, <2>4
  <2>6. LoopInv'
    BY <1>5, <2>1, <2>2, <2>3, <2>5 DEF StartArray, LoopInv
  <2> QED
    BY <1>5, <2>6 DEF StartArray, CallInv, StrayTypesSetNothing, SuccessLeaksNothing, OnlyInt32Overruns
<1>6. CASE ConvertItem
  <2>1. PICK r \in Convert(Item, type) :
          /\ r.outcome = "true" /\ Len(r.bytes) = size
          /\ buf' = Written(r.bytes)
          /\ overrun' = (overrun \/ r.overruns \/ Offset + size > Len(buf))
          /\ UNCHANGED leaked
    BY <1>6 DEF ConvertItem
  <2>2. AtItem /\ i' = i + 1 /\ UNCHANGED <<argument, type, pc, items, size, outcome, value>>
    BY <1>6 DEF ConvertItem
  <2>3. type \in Types /\ (r.overruns => type = BLE_INT32)
    BY <1>0, <2>1, <2>2, AtAnItem, ConvertResults
  <2>4. overrun' => type' = BLE_INT32
    BY <1>0, <2>1, <2>2, <2>3, AtAnItem
  <2>5. LoopInv'
    <3>1. DOMAIN buf = 1..(items * size) /\ Len(buf) = items * size /\ items * size \in Nat
      <4>1. items \in Nat /\ size \in Nat
        BY <2>2 DEF CallInv, LoopInv, AtItem
      <4> QED
        BY <2>2, <4>1 DEF CallInv, LoopInv, AtItem
    <3>2. DOMAIN buf' = 1..(items * size) /\ Len(buf') = items * size
      BY <2>1, <3>1 DEF Written
    <3> QED
      BY <2>2, <2>3, <3>2 DEF CallInv, LoopInv, AtItem
  <2> QED
    BY <2>1, <2>2, <2>4, <2>5 DEF CallInv, AtItem, StrayTypesSetNothing, SuccessLeaksNothing, OnlyInt32Overruns
<1>7. CASE RefuseItem
  <2>1. PICK r \in Convert(Item, type) :
          /\ \/ r.outcome = "false" /\ leaked' = leaked + r.leaks
             \/ r.outcome = "true" /\ Len(r.bytes) # size /\ leaked' = leaked + 1
          /\ overrun' = (overrun \/ r.overruns)
    BY <1>7 DEF RefuseItem
  <2>2. AtItem /\ Return("false") /\ pc = "items"
    BY <1>7 DEF RefuseItem, AtItem
  <2>3. r.leaks \in {0, 1} /\ (r.overruns => type = BLE_INT32)
    BY <1>0, <2>2, AtAnItem, ConvertResults
  <2>4. leaked' \in {0, 1}
    BY <1>0, <2>1, <2>2, <2>3
  <2>5. overrun' => type = BLE_INT32
    BY <1>0, <2>1, <2>3, Zenon
  <2> QED
    BY <2>2, <2>4, <2>5, ReturnCall
<1>8. CASE FailItem
  BY <1>0, <1>8, ReturnCall DEF FailItem, AtItem
<1>9. CASE FinishArray
  <2>1. ASSUME type \notin Types PROVE value' = <<>>
    <3>1. i = 1 /\ size \in Nat
      BY <1>9, <2>1 DEF FinishArray, CallInv, LoopInv
    <3>2. value' = SubSeq(buf, 1, 0)
      BY <1>9, <3>1 DEF FinishArray
    <3> QED
      BY <3>2
  <2> QED
    BY <1>0, <1>9, <2>1, ReturnCall DEF FinishArray
<1> QED
  BY <1>1, <1>2, <1>3, <1>4, <1>4a, <1>5, <1>6, <1>7, <1>8, <1>9 DEF Next

(* So the account is right in every state.                                 *)
LEMMA CallHolds == Spec => []CallInv
BY InitCall, NextCall, PTL DEF Spec

(* A type that is none of the enum after the cast, and passes because only *)
(* its low byte is looked at, sets nothing but an empty value, whatever    *)
(* size is read for it past the end of BLE_DATA_TYPE_SIZE.                 *)
THEOREM StrayTypesSetNoBytes == Spec => []StrayTypesSetNothing
<1>1. CallInv => StrayTypesSetNothing
  BY DEF CallInv
<1> QED
  BY <1>1, CallHolds, PTL

(* A call that succeeds loses no memory, and a refused one at most a block. *)
THEOREM LeaksAreRefusals == Spec => []SuccessLeaksNothing
<1>1. CallInv => SuccessLeaksNothing
  BY DEF CallInv
<1> QED
  BY <1>1, CallHolds, PTL

(* Only an int32_t is ever written past the end of its block: the buffer   *)
(* of an array has room for every item up to any border of its table.      *)
THEOREM OverrunsAreInt32 == Spec => []OnlyInt32Overruns
<1>1. CallInv => OnlyInt32Overruns
  BY DEF CallInv
<1> QED
  BY <1>1, CallHolds, PTL

-----------------------------------------------------------------------------
(* The bytes of an integer.                                                *)

(* The definition by recursion means what it says.                         *)
LEMMA ShiftedRecurs ==
  ASSUME NEW n \in Int
  PROVE  Shifted(n) = [k \in 0..8 |-> IF k = 0 THEN n ELSE Shifted(n)[k - 1] \div 256]
<1> DEFINE P(s) == s = [k \in 0..8 |-> IF k = 0 THEN n ELSE s[k - 1] \div 256]
           d1 == n \div 256
           d2 == d1 \div 256
           d3 == d2 \div 256
           d4 == d3 \div 256
           d5 == d4 \div 256
           d6 == d5 \div 256
           d7 == d6 \div 256
           g == [k \in 0..8 |-> CASE k = 0 -> n [] k = 1 -> d1 [] k = 2 -> d2 [] k = 3 -> d3
                                  [] k = 4 -> d4 [] k = 5 -> d5 [] k = 6 -> d6 [] k = 7 -> d7
                                  [] k = 8 -> d7 \div 256]
<1>1. P(g)
  <2> SUFFICES ASSUME NEW k \in 0..8 PROVE g[k] = IF k = 0 THEN n ELSE g[k - 1] \div 256
    OBVIOUS
  <2>1. g[0] = n /\ g[1] = d1 /\ g[2] = d2 /\ g[3] = d3 /\ g[4] = d4 /\ g[5] = d5 /\ g[6] = d6
        /\ g[7] = d7 /\ g[8] = d7 \div 256
    OBVIOUS
  <2> HIDE DEF g
  <2> QED
    BY <2>1
<1>2. \E s : P(s)
  BY <1>1
<1>3. Shifted(n) = CHOOSE s : P(s)
  BY DEF Shifted
<1> HIDE DEF P
<1>4. P(Shifted(n))
  BY <1>2, <1>3, Zenon
<1> QED
  BY <1>4 DEF P

(* Each is the one before it without its lowest byte.                      *)
LEMMA ShiftedSteps ==
  ASSUME NEW n \in Int
  PROVE  /\ Shifted(n)[0] = n
         /\ \A k \in 0..8 : Shifted(n)[k] \in Int
         /\ \A k \in 1..8 : Shifted(n)[k] = Shifted(n)[k - 1] \div 256
<1>1. Shifted(n)[0] = n /\ \A k \in 1..8 : Shifted(n)[k] = Shifted(n)[k - 1] \div 256
  BY ShiftedRecurs
<1>2. ASSUME NEW k \in 1..8, Shifted(n)[k - 1] \in Int PROVE Shifted(n)[k] \in Int
  BY <1>1, <1>2
<1>3. Shifted(n)[0] \in Int
  BY <1>1
<1>4. Shifted(n)[1] \in Int
  BY <1>2, <1>3
<1>5. Shifted(n)[2] \in Int
  BY <1>2, <1>4
<1>6. Shifted(n)[3] \in Int
  BY <1>2, <1>5
<1>7. Shifted(n)[4] \in Int
  BY <1>2, <1>6
<1>8. Shifted(n)[5] \in Int
  BY <1>2, <1>7
<1>9. Shifted(n)[6] \in Int
  BY <1>2, <1>8
<1>10. Shifted(n)[7] \in Int
  BY <1>2, <1>9
<1>11. Shifted(n)[8] \in Int
  BY <1>2, <1>10
<1> QED
  BY <1>1, <1>3, <1>4, <1>5, <1>6, <1>7, <1>8, <1>9, <1>10, <1>11

(* The bytes of an integer are bytes, also of a negative one.              *)
LEMMA BytesAreBytes ==
  ASSUME NEW n \in Int, NEW w \in 0..8
  PROVE  Bytes(n, w) \in [1..w -> Byte] /\ Len(Bytes(n, w)) = w
<1>1. \A k \in 1..w : Shifted(n)[k - 1] % 256 \in Byte
  <2> SUFFICES ASSUME NEW k \in 1..w PROVE Shifted(n)[k - 1] % 256 \in Byte
    OBVIOUS
  <2>1. k - 1 \in 0..8
    OBVIOUS
  <2>2. Shifted(n)[k - 1] \in Int
    BY <2>1, ShiftedSteps
  <2> QED
    BY <2>2 DEF Byte
<1>2. Len(Bytes(n, w)) = w
  BY DEF Bytes
<1> QED
  BY <1>1, <1>2 DEF Bytes

(* An integer type has one, two, four or eight bytes.                      *)
LEMMA IntegerSizes ==
  ASSUME NEW t \in SignedTypes \cup UnsignedTypes
  PROVE  BLE_DATA_TYPE_SIZE[t] \in {1, 2, 4, 8} /\ t \in Types /\ t # BLE_FLOAT /\ t # BLE_DOUBLE
BY DEF SignedTypes, UnsignedTypes, BLE_DATA_TYPE_SIZE, Types

(* Read from the top, the bytes of a number of the type's range come to    *)
(* the number: the sign is what is left above the top byte, and each byte  *)
(* takes back one division.                                                *)
LEMMA ReadBackInverts ==
  ASSUME NEW n \in Int, NEW t \in SignedTypes \cup UnsignedTypes, Fits(n, t)
  PROVE  ReadBack(Bytes(n, BLE_DATA_TYPE_SIZE[t]), t) = n
<1> DEFINE w == BLE_DATA_TYPE_SIZE[t]
           s == Shifted(n)
           bytes == Bytes(n, w)
           sign == IF t \in SignedTypes /\ bytes[w] >= 128 THEN -1 ELSE 0
<1>1. w \in {1, 2, 4, 8}
  BY IntegerSizes
<1>2. Len(bytes) = w /\ \A k \in 1..w : bytes[k] = s[k - 1] % 256
  BY <1>1, BytesAreBytes DEF Bytes
<1>3. /\ s[0] = n /\ \A k \in 0..8 : s[k] \in Int
      /\ \A k \in 1..8 : s[k] = s[k - 1] \div 256
  BY ShiftedSteps
<1>4. \/ t \in SignedTypes /\ s[w - 1] \in -128..127
      \/ t \notin SignedTypes /\ s[w - 1] \in 0..255
  <2>1. t \in UnsignedTypes => t \notin SignedTypes
    BY DEF SignedTypes, UnsignedTypes
  <2> QED
    BY <2>1 DEF Fits, TopByte, Byte
<1> HIDE DEF w, s, bytes
<1>5. sign = s[w]
  <2>1. bytes[w] = s[w - 1] % 256 /\ s[w] = s[w - 1] \div 256
    <3>1. w \in 1..w /\ w \in 1..8
      BY <1>1
    <3> QED
      BY <1>2, <1>3, <3>1
  <2>2. CASE t \in SignedTypes /\ s[w - 1] \in -128..127
    <3>1. s[w] = IF s[w - 1] < 0 THEN -1 ELSE 0
      BY <2>1, <2>2
    <3>2. bytes[w] >= 128 <=> s[w - 1] < 0
      BY <2>1, <2>2
    <3> QED
      BY <2>2, <3>1, <3>2
  <2>3. CASE t \notin SignedTypes /\ s[w - 1] \in 0..255
    BY <2>1, <2>3
  <2> QED
    BY <1>4, <2>2, <2>3
<1> HIDE DEF sign
<1> DEFINE P(h) == h = [k \in 0..w |-> IF k = 0 THEN sign ELSE h[k - 1] * 256 + bytes[w - k + 1]]
           high == CHOOSE h : P(h)
           g == [k \in 0..w |-> s[w - k]]
<1>6. ASSUME NEW k \in 1..w PROVE s[w - (k - 1)] * 256 + bytes[w - k + 1] = s[w - k]
  <2>1. /\ w - k + 1 \in 1..w /\ (w - k + 1) - 1 = w - k /\ w - (k - 1) = w - k + 1
        /\ w - k \in 0..8 /\ w - k + 1 \in 1..8
    BY <1>1
  <2>2. bytes[w - k + 1] = s[w - k] % 256 /\ s[w - k + 1] = s[w - k] \div 256 /\ s[w - k] \in Int
    <3>1. s[w - k + 1] = s[(w - k + 1) - 1] \div 256 /\ bytes[w - k + 1] = s[(w - k + 1) - 1] % 256
      BY <1>2, <1>3, <2>1
    <3>2. s[w - k] \in Int
      BY <1>3, <2>1
    <3> QED
      BY <2>1, <3>1, <3>2
  <2> QED
    BY <2>1, <2>2
<1>7. P(g)
  <2> SUFFICES ASSUME NEW k \in 0..w
               PROVE  g[k] = IF k = 0 THEN sign ELSE g[k - 1] * 256 + bytes[w - k + 1]
    OBVIOUS
  <2>1. CASE k = 0
    BY <1>1, <1>5, <2>1
  <2>2. CASE k # 0
    <3>1. k \in 1..w /\ k - 1 \in 0..w
      BY <1>1, <2>2
    <3> QED
      BY <1>6, <3>1
  <2> QED
    BY <2>1, <2>2
<1>8. P(high)
  <2> HIDE DEF P
  <2> QED
    BY <1>7, Zenon
<1>9. ReadBack(bytes, t) = high[w]
  BY <1>2 DEF ReadBack, sign
<1> HIDE DEF high
<1>10. /\ high[0] = s[w]
       /\ \A k \in 1..w : high[k] = high[k - 1] * 256 + bytes[w - k + 1]
  BY <1>1, <1>5, <1>8
<1>11. ASSUME NEW k \in 0..7, k <= w => high[k] = s[w - k]
       PROVE  k + 1 <= w => high[k + 1] = s[w - (k + 1)]
  <2> SUFFICES ASSUME k + 1 <= w PROVE high[k + 1] = s[w - (k + 1)]
    OBVIOUS
  <2>1. k + 1 \in 1..w /\ (k + 1) - 1 = k /\ k <= w
    BY <1>1
  <2>2. high[k + 1] = high[k] * 256 + bytes[w - (k + 1) + 1]
    BY <1>10, <2>1
  <2>3. s[w - k] * 256 + bytes[w - (k + 1) + 1] = s[w - (k + 1)]
    BY <1>6, <2>1
  <2> QED
    BY <1>11, <2>1, <2>2, <2>3
<1>12. high[w] = s[0]
  <2> DEFINE Right(k) == k <= w => high[k] = s[w - k]
  <2>1. Right(0)
    BY <1>1, <1>10
  <2>2. Right(1)
    BY <1>11, <2>1
  <2>3. Right(2)
    BY <1>11, <2>2
  <2>4. Right(3)
    BY <1>11, <2>3
  <2>5. Right(4)
    BY <1>11, <2>4
  <2>6. Right(5)
    BY <1>11, <2>5
  <2>7. Right(6)
    BY <1>11, <2>6
  <2>8. Right(7)
    BY <1>11, <2>7
  <2>9. Right(8)
    BY <1>11, <2>8
  <2> QED
    BY <1>1, <2>2, <2>3, <2>5, <2>9
<1> QED
  BY <1>3, <1>9, <1>12 DEF w, bytes

-----------------------------------------------------------------------------
(* What a conversion makes of a value.                                     *)

(* What can be converted has as many bytes as its type.                    *)
LEMMA EncodingType ==
  ASSUME NEW v, IsLuaValue(v), Convertible(v)
  PROVE  /\ type \in Types /\ type # BLE_STRING
         /\ Width \in {1, 2, 4, 8} /\ Width = BLE_DATA_TYPE_SIZE[type]
         /\ Encoding(v) \in [1..Width -> Byte] /\ Len(Encoding(v)) = Width
<1>1. type \in Types /\ type # BLE_STRING
  BY DEF Convertible, NumberTypes, SignedTypes, UnsignedTypes, Types
<1>2. Width \in {1, 2, 4, 8} /\ Width = BLE_DATA_TYPE_SIZE[type]
  BY <1>1 DEF Width, Types, BLE_DATA_TYPE_SIZE
<1>3. CASE v.kind = "boolean"
  <2>1. Width = 1
    BY <1>2, <1>3 DEF Convertible, BLE_DATA_TYPE_SIZE, Types
  <2>2. PICK b \in Byte : Encoding(v) = <<b>>
    BY <1>3 DEF Encoding, Byte
  <2>3. <<b>> \in [1..1 -> Byte] /\ Len(<<b>>) = 1
    BY <2>2
  <2> QED
    BY <1>1, <1>2, <2>1, <2>2, <2>3
<1>4. CASE v.kind = "number" /\ type \in NumberTypes
  <2>1. Encoding(v) = Cast(v, type)
    BY <1>4 DEF Encoding
  <2>2. Len(Cast(v, type)) = Width
    BY <1>2, <1>4, CastLength
  <2>3. Cast(v, type) \in [1..Width -> Byte]
    <3>1. CASE type = BLE_FLOAT
      <4>1. Width = 4
        BY <1>2, <3>1 DEF BLE_DATA_TYPE_SIZE, Types
      <4>2. Cast(v, type) = v.float /\ v.float \in [1..4 -> Byte]
        BY <1>4, <3>1 DEF Cast, IsLuaValue
      <4> QED
        BY <4>1, <4>2
    <3>2. CASE type = BLE_DOUBLE
      <4>1. Width = 8
        BY <1>2, <3>2 DEF BLE_DATA_TYPE_SIZE, Types
      <4>2. Cast(v, type) = v.double /\ v.double \in [1..8 -> Byte]
        BY <1>4, <3>2 DEF Cast, IsLuaValue
      <4> QED
        BY <4>1, <4>2
    <3>3. CASE type # BLE_FLOAT /\ type # BLE_DOUBLE
      <4>1. Cast(v, type) = Bytes(v.integer, Width) /\ v.integer \in Int /\ Width \in 0..8
        BY <1>2, <1>4, <3>3 DEF Cast, IsLuaValue
      <4> QED
        BY <4>1, BytesAreBytes
    <3> QED
      BY <3>1, <3>2, <3>3
  <2> QED
    BY <1>1, <1>2, <2>1, <2>2, <2>3
<1> QED
  BY <1>3, <1>4 DEF Convertible

(* A conversion that succeeds gives the bytes of the value.                *)
LEMMA ConvertEncodes ==
  ASSUME NEW v, IsLuaValue(v), NEW r \in Convert(v, type), r.outcome = "true"
  PROVE  Convertible(v) /\ r.bytes = Encoding(v)
<1>1. r \notin OutOfMemory /\ r \notin {Refused(0), Refused(1), LuaError}
  BY DEF OutOfMemory, Refused, LuaError
<1>2. CASE v.kind = "boolean"
  BY <1>1, <1>2 DEF Convert, Done, Convertible, Encoding
<1>3. CASE v.kind = "number"
  BY <1>1, <1>3 DEF Convert, ConvertNumber, Done, Convertible, Encoding
<1>4. CASE v.kind \in {"nil", "string", "table"}
  BY <1>1, <1>4 DEF Convert
<1> QED
  BY <1>2, <1>3, <1>4 DEF IsLuaValue

(* The wanted items of a table: those before the first nil, wherever a     *)
(* search for it is told to stop.                                          *)
LEMMA WantedItems ==
  ASSUME argument \in Arguments, argument.kind = "table",
         NEW n \in 0..Len(argument.items),
         \A k \in 1..n : argument.items[k].kind # "nil",
         n = Len(argument.items) \/ argument.items[n + 1].kind = "nil"
  PROVE  Wanted = [k \in 1..n |-> argument.items[k]] /\ DOMAIN Wanted = 1..n /\ Len(Wanted) = n
<1> DEFINE Before(m) == /\ \A k \in 1..m : argument.items[k].kind # "nil"
                        /\ m = Len(argument.items) \/ argument.items[m + 1].kind = "nil"
           m == CHOOSE m \in 0..Len(argument.items) : Before(m)
<1>0. Len(argument.items) \in Nat
  BY ArgumentsAreLuaValues
<1>1. m \in 0..Len(argument.items) /\ Before(m)
  <2>1. Before(n)
    OBVIOUS
  <2> HIDE DEF Before
  <2> QED
    BY <2>1, Zenon
<1>2. Wanted = [k \in 1..m |-> argument.items[k]]
  BY DEF Wanted
<1> HIDE DEF m
<1>3. m = n
  <2>1. CASE m < n
    BY <1>0, <1>1, <2>1
  <2>2. CASE m > n
    BY <1>0, <1>1, <2>2
  <2> QED
    BY <1>0, <1>1, <2>1, <2>2
<1> QED
  BY <1>0, <1>2, <1>3

(* A value that is not a table is the only one wanted.                     *)
LEMMA WantedScalar ==
  ASSUME argument.kind # "table"
  PROVE  Wanted = <<argument>> /\ DOMAIN Wanted = {1} /\ Len(Wanted) = 1 /\ Wanted[1] = argument
BY DEF Wanted

(* Whether a conversion overran is known.                                 *)
LEMMA ConvertOverruns ==
  ASSUME NEW v, IsLuaValue(v), NEW t, NEW r \in Convert(v, t)
  PROVE  r.overruns \in BOOLEAN
<1>1. ASSUME NEW bytes, NEW block, r = Done(bytes, block) PROVE r.overruns \in BOOLEAN
  <2>1. r.overruns = (Len(bytes) > block)
    BY <1>1 DEF Done
  <2> QED
    BY <2>1
<1>2. ASSUME r \in OutOfMemory \/ r \in {Refused(0), Refused(1), LuaError} PROVE r.overruns \in BOOLEAN
  <2>1. r \in {Refused(0), Refused(1), LuaError}
    BY <1>2 DEF OutOfMemory
  <2>2. Refused(0).overruns \in BOOLEAN /\ Refused(1).overruns \in BOOLEAN
    BY DEF Refused
  <2>3. LuaError.overruns \in BOOLEAN
    BY DEF LuaError
  <2> QED
    BY <2>1, <2>2, <2>3, Zenon
<1>3. CASE v.kind = "boolean"
  BY <1>1, <1>2, <1>3 DEF Convert
<1>4. CASE v.kind = "number"
  BY <1>1, <1>2, <1>4 DEF Convert, ConvertNumber
<1>5. CASE v.kind \in {"nil", "string", "table"}
  BY <1>2, <1>5 DEF Convert
<1> QED
  BY <1>3, <1>4, <1>5 DEF IsLuaValue

-----------------------------------------------------------------------------
(* The bytes of a value.                                                   *)

(* A call that has not begun has written nothing.                          *)
LEMMA InitBytes == Init => BytesInv
<1> SUFFICES ASSUME Init PROVE BytesInv
  OBVIOUS
<1>1. CallInv
  BY InitCall
<1>2. TypeOK /\ ItemsBehind
  <2>1. <<>> \in Seq(Byte)
    BY EmptySeq
  <2> QED
    BY <2>1 DEF Init, TypeOK, ItemsBehind
<1> QED
  BY <1>1, <1>2 DEF Init, BytesInv, AcceptedAreConvertible, AcceptedInFull

(* A return keeps it: of a refused call there is nothing to say.           *)
LEMMA ReturnBytes ==
  ASSUME BytesInv, CallInv', NEW how \in {"true", "false", "error", "crashed"}, Return(how),
         leaked' \in Nat, overrun' \in BOOLEAN, value' \in Seq(Byte),
         how = "true" => AcceptedInFull' /\ AcceptedAreConvertible'
  PROVE  BytesInv'
<1>1. TypeOK'
  BY DEF BytesInv, TypeOK, Return, locals
<1>2. ItemsBehind'
  BY DEF Return, ItemsBehind
<1>3. AcceptedInFull' /\ AcceptedAreConvertible'
  BY DEF Return, AcceptedInFull, AcceptedAreConvertible
<1> QED
  BY <1>1, <1>2, <1>3 DEF BytesInv

(* A scalar is a value of one item.                                        *)
LEMMA ScalarBytes ==
  ASSUME BytesInv, CallInv', SetScalar
  PROVE  BytesInv'
<1>1. PICK r \in Convert(argument, type) :
        /\ Return(r.outcome) /\ value' = r.bytes
        /\ leaked' = leaked + r.leaks /\ overrun' = r.overruns
  BY DEF SetScalar
<1>2. IsLuaValue(argument) /\ argument.kind # "table" /\ argument \in Arguments /\ type \in Int
  BY ArgumentsAreLuaValues, TypeArgumentsAreIntegers DEF AsEnum, BytesInv, TypeOK, SetScalar
<1>3. r.outcome \in {"true", "false", "error"} /\ r.leaks \in {0, 1}
  BY <1>2, ConvertResults
<1>4. leaked' \in Nat
  BY <1>1, <1>3 DEF BytesInv, TypeOK
<1>5. overrun' \in BOOLEAN
  BY <1>1, <1>2, ConvertOverruns
<1>6. CASE r.outcome = "true"
  <2>1. Convertible(argument) /\ value' = Encoding(argument)
    BY <1>1, <1>2, <1>6, ConvertEncodes
  <2>2. /\ Width \in {1, 2, 4, 8} /\ value' \in [1..Width -> Byte] /\ Len(value') = Width
    BY <1>2, <2>1, EncodingType
  <2>3. value' \in Seq(Byte)
    BY <2>2
  <2>4. argument' = argument /\ type' = type
    BY <1>1 DEF Return
  <2>5. /\ Wanted' = Wanted /\ Width' = Width /\ Encoding(argument)' = Encoding(argument)
        /\ Convertible(argument)' = Convertible(argument)
    BY <2>4 DEF Wanted, Width, Encoding, Convertible
  <2>6. Slice(value', 1, Width) = value'
    BY <2>2 DEF Slice
  <2>7. Len(value') = Len(Wanted) * Width
    <3>1. Len(Wanted) = 1 /\ 1 * Width = Width
      BY <1>2, <2>2, WantedScalar
    <3> QED
      BY <2>2, <3>1
  <2>8. AcceptedInFull' /\ AcceptedAreConvertible'
    <3>1. Wanted'[1] = argument /\ DOMAIN Wanted' = {1} /\ Len(Wanted') * Width' = Len(value')
      BY <1>2, <2>5, <2>7, WantedScalar
    <3>2. Slice(value', 1, Width') = Encoding(argument)' /\ Convertible(argument)'
      BY <2>1, <2>5, <2>6
    <3> QED
      BY <1>2, <2>4, <3>1, <3>2 DEF AcceptedInFull, AcceptedAreConvertible
  <2> QED
    BY <1>1, <1>3, <1>4, <1>5, <2>3, <2>8, ReturnBytes
<1>7. CASE r.outcome # "true"
  <2>1. value' = <<>>
    BY <1>1, <1>2, <1>7 DEF Convert, ConvertNumber, Done, Refused, LuaError, OutOfMemory, IsLuaValue
  <2>2. value' \in Seq(Byte)
    BY <2>1
  <2> QED
    BY <1>1, <1>3, <1>4, <1>5, <1>7, <2>2, ReturnBytes
<1> QED
  BY <1>6, <1>7

(* The places of different items do not overlap, and lie in the buffer.    *)
LEMMA Places ==
  ASSUME NEW w \in {1, 2, 4, 8}, NEW n \in Nat, NEW j \in 1..n, NEW k \in 1..n, NEW b \in 1..w
  PROVE  /\ (k - 1) * w + b \in 1..(n * w)
         /\ j # k => (k - 1) * w + b \notin ((j - 1) * w + 1)..((j - 1) * w + w)
         /\ (k - 1) * w + b \in ((k - 1) * w + 1)..((k - 1) * w + w)
         /\ (k - 1) * w + b - (k - 1) * w = b
         /\ n * w \in Nat
<1>1. CASE w = 1
  BY <1>1
<1>2. CASE w = 2
  BY <1>2
<1>3. CASE w = 4
  BY <1>3
<1>4. CASE w = 8
  BY <1>4
<1> QED
  BY <1>1, <1>2, <1>3, <1>4

(* In the loop, with a type of the enum, items have the type's size.       *)
LEMMA ItemSizes ==
  ASSUME CallInv, pc = "items", type \in Types
  PROVE  size = Width /\ size \in {1, 2, 4, 8}
<1>1. type # BLE_STRING /\ size = BLE_DATA_TYPE_SIZE[type]
  BY DEF CallInv, LoopInv
<1> QED
  BY <1>1 DEF Width, Types, BLE_DATA_TYPE_SIZE

(* An item of an array goes behind the items already written.              *)
LEMMA ConvertItemBytes ==
  ASSUME BytesInv, CallInv', ConvertItem
  PROVE  BytesInv'
<1>1. PICK r \in Convert(Item, type) :
        /\ r.outcome = "true" /\ Len(r.bytes) = size
        /\ buf' = Written(r.bytes)
        /\ overrun' = (overrun \/ r.overruns \/ Offset + size > Len(buf))
        /\ UNCHANGED leaked
  BY DEF ConvertItem
<1>2. AtItem /\ i' = i + 1 /\ UNCHANGED <<argument, type, pc, items, size, outcome, value, leaked>>
  BY <1>1 DEF ConvertItem
<1>3. CallInv /\ pc = "items" /\ outcome = "none"
  BY <1>2 DEF BytesInv, CallInv, AtItem
<1>4. /\ argument \in Arguments /\ argument.kind = "table" /\ Len(argument.items) \in Nat
      /\ items \in 1..Len(argument.items) /\ i \in 1..items /\ items \in Nat
      /\ DOMAIN buf = 1..(items * size) /\ Len(buf) = items * size
  BY <1>2, <1>3, ArgumentsAreLuaValues DEF CallInv, LoopInv, AtItem
<1>5. IsLuaValue(Item)
  BY <1>2, <1>3, AtAnItem
<1>6. Convertible(Item) /\ r.bytes = Encoding(Item)
  BY <1>1, <1>5, ConvertEncodes
<1>7. /\ type \in Types /\ Encoding(Item) \in [1..Width -> Byte]
  BY <1>5, <1>6, EncodingType
<1>8. size = Width /\ size \in {1, 2, 4, 8}
  BY <1>3, <1>7, ItemSizes
<1>9. r.bytes \in [1..size -> Byte]
  BY <1>6, <1>7, <1>8
<1>10. /\ DOMAIN buf' = 1..(items * size) /\ items * size \in Nat
       /\ \A k \in 1..(items * size) :
            buf'[k] = IF k \in (Offset + 1)..(Offset + size) THEN r.bytes[k - Offset] ELSE buf[k]
  BY <1>1, <1>4, <1>8 DEF Written
<1>11. buf' \in Seq(Byte)
  <2>1. buf \in [1..(items * size) -> Byte]
    <3>1. buf \in Seq(Byte)
      BY DEF BytesInv, TypeOK
    <3> QED
      BY <1>4, <3>1
  <2>2. Offset \in Nat
    BY <1>4, <1>8 DEF Offset
  <2>3. \A k \in (Offset + 1)..(Offset + size) : k - Offset \in 1..size
    BY <1>8, <2>2
  <2>4. buf' = [k \in 1..(items * size) |->
                  IF k \in (Offset + 1)..(Offset + size) THEN r.bytes[k - Offset] ELSE buf[k]]
    BY <1>1, <1>4 DEF Written
  <2>5. buf' \in [1..(items * size) -> Byte]
    BY <1>9, <2>1, <2>3, <2>4
  <2> QED
    BY <1>10, <2>5
<1>12. TypeOK'
  <2>1. overrun' \in BOOLEAN
    <3>1. r.overruns \in BOOLEAN
      BY <1>5, ConvertOverruns
    <3> QED
      BY <1>1
  <2> QED
    BY <1>2, <1>4, <1>11, <2>1 DEF BytesInv, TypeOK
<1>13. \A k \in 1..(i - 1) : Slice(buf', k, size) = Slice(buf, k, size)
  <2> SUFFICES ASSUME NEW k \in 1..(i - 1), NEW b \in 1..size
               PROVE  buf'[(k - 1) * size + b] = buf[(k - 1) * size + b]
    BY DEF Slice
  <2>1. k \in 1..items /\ k # i
    BY <1>4
  <2>2. /\ (k - 1) * size + b \in 1..(items * size)
        /\ (k - 1) * size + b \notin ((i - 1) * size + 1)..((i - 1) * size + size)
    BY <1>4, <1>8, <2>1, Places
  <2> QED
    BY <1>10, <2>2 DEF Offset
<1>14. Slice(buf', i, size) = r.bytes
  <2>1. ASSUME NEW b \in 1..size PROVE buf'[(i - 1) * size + b] = r.bytes[b]
    <3> DEFINE x == (i - 1) * size + b
    <3>1. /\ x \in 1..(items * size)
          /\ x \in (Offset + 1)..(Offset + size)
          /\ x - Offset = b
      BY <1>4, <1>8, Places DEF Offset
    <3> HIDE DEF x
    <3>2. buf'[x] = r.bytes[b]
      BY <1>10, <3>1
    <3> QED
      BY <3>2 DEF x
  <2> QED
    BY <1>9, <2>1 DEF Slice
<1>15. ItemsBehind'
  <2> SUFFICES ASSUME NEW k \in 1..i
               PROVE  /\ Convertible(argument.items[k])
                      /\ Slice(buf', k, size) = Encoding(argument.items[k])
    <3>1. items = Len(argument.items) \/ argument.items[items + 1].kind = "nil"
      BY <1>3 DEF BytesInv, ItemsBehind
    <3>2. i' - 1 = i
      BY <1>2, <1>4
    <3>3. \A v : Convertible(v)' = Convertible(v) /\ Encoding(v)' = Encoding(v)
      BY <1>2 DEF Convertible, Encoding
    <3> QED
      BY <1>2, <3>1, <3>2, <3>3 DEF ItemsBehind
  <2>1. CASE k = i
    BY <1>6, <1>14, <2>1 DEF Item
  <2>2. CASE k # i
    <3>1. k \in 1..(i - 1)
      BY <1>4, <2>2
    <3> QED
      BY <1>3, <1>13, <3>1 DEF BytesInv, ItemsBehind
  <2> QED
    BY <2>1, <2>2
<1>16. AcceptedInFull' /\ AcceptedAreConvertible'
  BY <1>2, <1>3 DEF AcceptedInFull, AcceptedAreConvertible
<1> QED
  BY <1>12, <1>15, <1>16 DEF BytesInv

(* The loop starts with nothing behind it, and runs to a border.           *)
LEMMA StartArrayBytes ==
  ASSUME BytesInv, CallInv', StartArray
  PROVE  BytesInv'
<1>1. PICK n \in Borders(argument.items) \ {0}, s \in TypeSizes :
        items' = n /\ size' = s /\ buf' = [k \in 1..(n * s) |-> 0]
  BY DEF StartArray
<1>2. /\ i' = 1 /\ pc' = "items"
      /\ UNCHANGED <<argument, type, outcome, value, leaked, overrun>>
      /\ outcome = "none"
  BY DEF StartArray, BytesInv, CallInv
<1>3. /\ n \in 0..Len(argument.items) /\ Len(argument.items) \in Nat
      /\ n = Len(argument.items) \/ argument.items[n + 1].kind = "nil"
  BY <1>1, ArgumentsAreLuaValues DEF StartArray, Borders, BytesInv, TypeOK
<1>4. s \in Nat /\ n \in Nat /\ n * s \in Nat
  <2>1. s \in Nat
    BY <1>1, SizesAreSizes, StraySizesAreSizes DEF TypeSizes
  <2> QED
    BY <1>3, <2>1
<1>5. buf' \in Seq(Byte)
  <2>1. buf' \in [1..(n * s) -> Byte]
    BY <1>1 DEF Byte
  <2> QED
    BY <1>4, <2>1
<1>6. TypeOK'
  BY <1>1, <1>2, <1>4, <1>5 DEF BytesInv, TypeOK
<1>7. ItemsBehind'
  BY <1>1, <1>2, <1>3 DEF ItemsBehind
<1> QED
  BY <1>2, <1>6, <1>7 DEF BytesInv, AcceptedInFull, AcceptedAreConvertible

(* What is behind the loop when it ends are the wanted items.              *)
LEMMA FinishArrayBytes ==
  ASSUME BytesInv, CallInv', FinishArray
  PROVE  BytesInv'
<1> DEFINE n == i - 1
<1>1. /\ pc = "items" /\ Return("true") /\ value' = SubSeq(buf, 1, n * size)
      /\ i > items \/ (i <= items /\ Item.kind = "nil")
      /\ UNCHANGED <<argument, type, leaked, overrun>>
  BY DEF FinishArray, Return
<1>2. /\ CallInv /\ ItemsBehind /\ TypeOK
  BY DEF BytesInv
<1>3. /\ argument \in Arguments /\ argument.kind = "table" /\ Len(argument.items) \in Nat
      /\ items \in 1..Len(argument.items) /\ i \in 1..(items + 1) /\ items \in Nat /\ size \in Nat
      /\ DOMAIN buf = 1..(items * size) /\ Len(buf) = items * size
      /\ n \in 0..items
  BY <1>1, <1>2, ArgumentsAreLuaValues DEF CallInv, LoopInv
<1>4. /\ \A k \in 1..n : argument.items[k].kind # "nil"
      /\ n = Len(argument.items) \/ argument.items[n + 1].kind = "nil"
  <2>1. \A k \in 1..n : Convertible(argument.items[k])
    BY <1>1, <1>2 DEF ItemsBehind
  <2>2. \A v : Convertible(v) => v.kind # "nil"
    BY DEF Convertible
  <2>3. CASE i > items
    <3>1. n = items
      BY <1>3, <2>3
    <3> QED
      BY <1>1, <1>2, <2>1, <2>2, <3>1 DEF ItemsBehind
  <2>4. CASE i <= items /\ Item.kind = "nil"
    <3>1. n + 1 = i
      BY <1>3
    <3> QED
      BY <2>1, <2>2, <2>4, <3>1 DEF Item
  <2> QED
    BY <1>1, <2>3, <2>4
<1>5. Wanted = [k \in 1..n |-> argument.items[k]] /\ DOMAIN Wanted = 1..n /\ Len(Wanted) = n
  <2>1. n \in 0..Len(argument.items)
    BY <1>3
  <2> HIDE DEF n
  <2> QED
    BY <1>3, <1>4, <2>1, WantedItems
<1>6. /\ Wanted' = Wanted /\ Width' = Width
      /\ \A v : Convertible(v)' = Convertible(v) /\ Encoding(v)' = Encoding(v)
  BY <1>1 DEF Wanted, Width, Convertible, Encoding
<1>7. \A k \in 1..n : /\ Convertible(argument.items[k])
                      /\ Slice(buf, k, size) = Encoding(argument.items[k])
  BY <1>1, <1>2 DEF ItemsBehind
<1>8. CASE type \in Types
  <2>1. size = Width /\ size \in {1, 2, 4, 8}
    BY <1>1, <1>2, <1>8, ItemSizes
  <2>2. n * size \in Nat /\ n * size <= items * size /\ items * size \in Nat
    BY <1>3, <2>1
  <2>3. value' \in Seq(Byte) /\ Len(value') = n * size
        /\ \A k \in 1..(n * size) : value'[k] = buf[k]
    <3>1. buf \in Seq(Byte)
      BY <1>2 DEF TypeOK
    <3> DEFINE m == n * size
    <3>2. m \in 0..Len(buf) /\ value' = SubSeq(buf, 1, m)
      BY <1>1, <1>3, <2>2
    <3> HIDE DEF m
    <3>3. value' \in Seq(Byte) /\ Len(value') = m /\ \A k \in 1..m : value'[k] = buf[k]
      BY <3>1, <3>2
    <3> QED
      BY <3>3 DEF m
  <2>4. \A k \in 1..n : Slice(value', k, size) = Slice(buf, k, size)
    <3> SUFFICES ASSUME NEW k \in 1..n, NEW b \in 1..size
                 PROVE  value'[(k - 1) * size + b] = buf[(k - 1) * size + b]
      BY DEF Slice
    <3>1. (k - 1) * size + b \in 1..(n * size)
      BY <1>3, <2>1, Places
    <3> QED
      BY <2>3, <3>1
  <2>5. AcceptedInFull'
    BY <1>5, <1>6, <1>7, <2>1, <2>3, <2>4 DEF AcceptedInFull
  <2>6. AcceptedAreConvertible'
    <3>1. \A k \in 1..n : IsLuaValue(argument.items[k])
      BY <1>3, ArgumentsAreLuaValues
    <3> QED
      BY <1>5, <1>6, <1>7, <3>1 DEF AcceptedAreConvertible
  <2> QED
    BY <1>1, <1>2, <2>3, <2>5, <2>6, ReturnBytes DEF TypeOK
<1>9. CASE type \notin Types
  <2>1. n = 0
    BY <1>1, <1>2, <1>9 DEF CallInv, LoopInv
  <2>2. value' = <<>>
    <3>1. value' = SubSeq(buf, 1, 0)
      BY <1>1, <1>3, <2>1
    <3> QED
      BY <3>1
  <2>3. value' \in Seq(Byte) /\ Len(value') = 0
    BY <2>2
  <2>4. AcceptedInFull'
    BY <1>5, <1>6, <1>9, <2>1, <2>3 DEF AcceptedInFull, Width
  <2>5. AcceptedAreConvertible'
    BY <1>5, <1>6, <2>1 DEF AcceptedAreConvertible
  <2> QED
    BY <1>1, <1>2, <2>3, <2>4, <2>5, ReturnBytes DEF TypeOK
<1> QED
  BY <1>8, <1>9

(* Every step keeps it.                                                    *)
LEMMA NextBytes == BytesInv /\ [Next]_vars => BytesInv'
<1> SUFFICES ASSUME BytesInv, [Next]_vars PROVE BytesInv'
  OBVIOUS
<1>1. CallInv' /\ CallInv
  BY NextCall DEF BytesInv
<1>2. value \in Seq(Byte) /\ leaked \in Nat /\ overrun \in BOOLEAN
  BY DEF BytesInv, TypeOK
<1>3. CASE UNCHANGED vars
  <2> USE <1>3 DEF vars, locals
  <2>1. TypeOK'
    BY DEF BytesInv, TypeOK
  <2>2. \A v : Convertible(v)' = Convertible(v) /\ Encoding(v)' = Encoding(v)
    BY DEF Convertible, Encoding
  <2>3. ItemsBehind'
    BY <2>2 DEF BytesInv, ItemsBehind
  <2>4. Wanted' = Wanted /\ Width' = Width
    BY DEF Wanted, Width
  <2>5. AcceptedInFull' /\ AcceptedAreConvertible'
    BY <2>2, <2>4 DEF BytesInv, AcceptedInFull, AcceptedAreConvertible
  <2> QED
    BY <1>1, <2>1, <2>3, <2>5 DEF BytesInv
<1>4. CASE WrongType
  BY <1>1, <1>2, <1>4, ReturnBytes DEF WrongType
<1>5. CASE NoArray
  BY <1>1, <1>2, <1>5, ReturnBytes DEF NoArray, Return, BytesInv
<1>5a. CASE ReadPastSizes
  BY <1>1, <1>2, <1>5a, ReturnBytes DEF ReadPastSizes
<1>6. CASE RefuseItem
  <2>1. PICK r \in Convert(Item, type) : overrun' = (overrun \/ r.overruns)
    BY <1>6 DEF RefuseItem
  <2>2. AtItem /\ Return("false") /\ value' = value
    BY <1>6 DEF RefuseItem
  <2>3. r.overruns \in BOOLEAN
    BY <1>1, <2>2, AtAnItem, ConvertOverruns
  <2>4. overrun' \in BOOLEAN /\ leaked' \in Nat
    BY <1>1, <2>1, <2>3 DEF CallInv
  <2> QED
    BY <1>1, <1>2, <2>2, <2>4, ReturnBytes
<1>7. CASE FailItem
  BY <1>1, <1>2, <1>7, ReturnBytes DEF FailItem
<1> QED
  BY <1>1, <1>3, <1>4, <1>5, <1>5a, <1>6, <1>7, ScalarBytes, StartArrayBytes, ConvertItemBytes,
     FinishArrayBytes DEF Next

(* So what is written so far is right in every state.                      *)
LEMMA BytesHold == Spec => []BytesInv
BY InitBytes, NextBytes, PTL DEF Spec

(* Every variable keeps its type: what the buffer and the value hold are   *)
(* bytes, also of negative numbers and of values cut to their type.        *)
THEOREM ConversionTypeCorrect == Spec => []TypeOK
<1>1. BytesInv => TypeOK
  BY DEF BytesInv
<1> QED
  BY <1>1, BytesHold, PTL

(* The value a characteristic gets is made of the bytes of the items       *)
(* before the first nil, each once and in order, for arrays of any length, *)
(* items of any type, and whichever border lua_rawlen returns.             *)
THEOREM AcceptedValuesAreWhole == Spec => []AcceptedInFull
<1>1. BytesInv => AcceptedInFull
  BY DEF BytesInv
<1> QED
  BY <1>1, BytesHold, PTL

(* A number that fits its type is read back as it was set, alone and at    *)
(* any place of an array, for each of the eight integer types.             *)
THEOREM NumbersSurvive == Spec => []FittingNumbersSurvive
<1>1. BytesInv => FittingNumbersSurvive
  <2> SUFFICES ASSUME BytesInv, outcome = "true", type \in SignedTypes \cup UnsignedTypes,
                      NEW k \in DOMAIN Wanted, Fits(Wanted[k].integer, type)
               PROVE  ReadBack(Slice(value, k, Width), type) = Wanted[k].integer
    BY DEF FittingNumbersSurvive
  <2>1. Slice(value, k, Width) = Encoding(Wanted[k]) /\ Convertible(Wanted[k])
    BY DEF BytesInv, AcceptedInFull, AcceptedAreConvertible
  <2>2. type # BLE_BOOL /\ type # BLE_FLOAT /\ type # BLE_DOUBLE
    BY DEF SignedTypes, UnsignedTypes
  <2>3. Encoding(Wanted[k]) = Bytes(Wanted[k].integer, BLE_DATA_TYPE_SIZE[type])
    BY <2>1, <2>2 DEF Convertible, Encoding, Cast
  <2>4. Wanted[k].kind = "number"
    BY <2>1, <2>2 DEF Convertible
  <2>5. Wanted[k].integer \in Int
    BY <2>4 DEF BytesInv, AcceptedAreConvertible, IsLuaValue
  <2> QED
    BY <2>1, <2>3, <2>5, ReadBackInverts
<1> QED
  BY <1>1, BytesHold, PTL

(* No string is ever set, whatever the type, and none becomes part of an   *)
(* array: what the set_string run shows of one call holds of every call.   *)
THEOREM StringsAreNeverSet ==
  Spec => [](outcome = "true" => /\ argument.kind # "string"
                                 /\ \A k \in DOMAIN Wanted : Wanted[k].kind # "string")
<1>1. BytesInv => (outcome = "true" => /\ argument.kind # "string"
                                       /\ \A k \in DOMAIN Wanted : Wanted[k].kind # "string")
  <2> SUFFICES ASSUME BytesInv, outcome = "true"
               PROVE  /\ argument.kind # "string"
                      /\ \A k \in DOMAIN Wanted : Wanted[k].kind # "string"
    OBVIOUS
  <2>1. \A k \in DOMAIN Wanted : Wanted[k].kind # "string"
    BY DEF BytesInv, AcceptedAreConvertible, Convertible
  <2> QED
    BY <2>1, WantedScalar
<1> QED
  BY <1>1, BytesHold, PTL
=============================================================================
