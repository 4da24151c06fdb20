------------------------------ MODULE FieldTable ------------------------------
(***************************************************************************)
(* Octets and field values: the macros of amqp_private.h that read and     *)
(* write numbers and strings within a limit, and what amqp_table.c writes  *)
(* for a field value of each kind and reads back.                          *)
(*                                                                         *)
(* Octets are numbers below 256.  A 64-bit number is a record of its two   *)
(* 32-bit halves.                                                          *)
(***************************************************************************)
EXTENDS Integers, Sequences

Octet == 0 .. 255

(* 256 to the power of i - 1.                                              *)
Power256 == <<1, 256, 65536, 16777216>>

(* Numbers that width octets hold, without a sign and with one.            *)
Fits(width, n) == n \in Nat /\ n \div Power256[width] < 256
FitsSigned(width, n) ==
  n \in Int /\ -128 <= n \div Power256[width] /\ n \div Power256[width] < 128

-----------------------------------------------------------------------------
(* Writing                                                                 *)

(* The octets of a number in network order, and, for a negative one, of    *)
(* its two's complement: \div rounds down.                                 *)
Octets(width, n) ==
  [i \in 1 .. width |-> (n \div Power256[width - i + 1]) % 256]

(* The halves of a 64-bit number.                                          *)
E_64(n) == Octets(4, n.hi) \o Octets(4, n.lo)

(* A length and as many octets: entry->key, value.bytes, and the strings   *)
(* of methods and properties.                                              *)
E_String(width, s) == Octets(width, Len(s)) \o s

-----------------------------------------------------------------------------
(* Reading.  What was read, with the offset after it; Failed stands for    *)
(* the return of ERROR_BAD_AMQP_DATA from the function around the macro.   *)

Read(value, offset) == [ok |-> TRUE, value |-> value, offset |-> offset]
Failed == [ok |-> FALSE, value |-> <<>>, offset |-> 0]

(* What comes next, unless the function has returned.                      *)
Then(r, Next(_)) == IF r.ok THEN Next(r) ELSE Failed

D_BYTES(in, offset, length) ==
  IF offset + length > Len(in) THEN Failed
  ELSE Read(SubSeq(in, offset + 1, offset + length), offset + length)

Number(octets) ==
  IF Len(octets) = 1 THEN octets[1]
  ELSE IF Len(octets) = 2 THEN 256 * octets[1] + octets[2]
  ELSE 16777216 * octets[1] + 65536 * octets[2] + 256 * octets[3] + octets[4]

(* The cast to a signed type of the same width.                            *)
Signed(octets) ==
  Number([octets EXCEPT ![1] = IF @ < 128 THEN @ ELSE @ - 256])

D_Number(in, offset, width) ==
  Then(D_BYTES(in, offset, width), LAMBDA r : Read(Number(r.value), r.offset))
D_Signed(in, offset, width) ==
  Then(D_BYTES(in, offset, width), LAMBDA r : Read(Signed(r.value), r.offset))

D_8(in, offset) == D_Number(in, offset, 1)
D_16(in, offset) == D_Number(in, offset, 2)
D_32(in, offset) == D_Number(in, offset, 4)

(* A bug: the halves of a number are read in the order of the machine.     *)
D_64_LowFirst(in, offset) ==
  Then(D_32(in, offset), LAMBDA lo :
  Then(D_32(in, lo.offset), LAMBDA hi :
    Read([hi |-> hi.value, lo |-> lo.value], hi.offset)))

D_64(in, offset) ==
  Then(D_32(in, offset), LAMBDA hi :
  Then(D_32(in, hi.offset), LAMBDA lo :
    Read([hi |-> hi.value, lo |-> lo.value], lo.offset)))

D_String(in, offset, width) ==
  Then(D_Number(in, offset, width), LAMBDA length :
    D_BYTES(in, length.offset, length.value))

-----------------------------------------------------------------------------
(* How a value is written: numbers and strings as above, with the width of *)
(* the number or of the length; an array or a table as the octets its      *)
(* elements take, and then the elements; flags as the bits of an octet.    *)

Format(coding, size) == [coding |-> coding, size |-> size, names |-> <<>>]

(* The kinds of field values, by the octets that name them.  An F32 is     *)
(* written and read as the u32 it shares its memory with, an F64 as the    *)
(* u64.                                                                    *)
KindOctet ==
  [BOOLEAN |-> 116, I8 |-> 98, U8 |-> 66, I16 |-> 115, U16 |-> 117,
   I32 |-> 73, U32 |-> 105, I64 |-> 108, F32 |-> 102, F64 |-> 100,
   DECIMAL |-> 68, UTF8 |-> 83, ARRAY |-> 65, TIMESTAMP |-> 84,
   TABLE |-> 70, VOID |-> 86, BYTES |-> 120]

Kinds == {KindOctet[name] : name \in DOMAIN KindOctet}

FormatOf(kind) ==
  LET Among(names) == \E name \in names : kind = KindOctet[name]
  IN CASE Among({"U8"}) -> Format("number", 1)
       [] Among({"U16"}) -> Format("number", 2)
       [] Among({"U32", "F32"}) -> Format("number", 4)
       [] Among({"I8"}) -> Format("signed", 1)
       [] Among({"I16"}) -> Format("signed", 2)
       [] Among({"I32"}) -> Format("signed", 4)
       [] Among({"I64", "F64", "TIMESTAMP"}) -> Format("halves", 8)
       [] Among({"BOOLEAN"}) -> Format("boolean", 1)
       [] Among({"DECIMAL"}) -> Format("decimal", 5)
       [] Among({"UTF8", "BYTES"}) -> Format("string", 4)
       [] Among({"ARRAY"}) -> Format("array", 4)
       [] Among({"TABLE"}) -> Format("table", 4)
       [] OTHER -> Format("void", 0)

(* Arrays and tables: their elements come after them.                      *)
Opens(format) == format.coding \in {"array", "table"}

(* The bits of bit_buffer: flag i is worth 2^(i-1).                        *)
Power2 == <<1, 2, 4, 8, 16, 32, 64, 128>>
Bit(flags, i) == IF i \in DOMAIN flags THEN (IF flags[i] THEN Power2[i] ELSE 0) ELSE 0
BitBuffer(flags) ==
  Bit(flags, 1) + Bit(flags, 2) + Bit(flags, 3) + Bit(flags, 4)
    + Bit(flags, 5) + Bit(flags, 6) + Bit(flags, 7) + Bit(flags, 8)

(* The octets of a value; of an array or a table, those before its size.   *)
E_Value(format, v) ==
  CASE format.coding \in {"number", "signed"} -> Octets(format.size, v)
    [] format.coding = "halves" -> E_64(v)
    [] format.coding = "boolean" -> <<IF v THEN 1 ELSE 0>>
    [] format.coding = "decimal" -> Octets(1, v.decimals) \o Octets(4, v.value)
    [] format.coding = "string" -> E_String(format.size, v)
    [] format.coding = "bits" -> <<BitBuffer(v)>>
    [] OTHER -> <<>>

D_Value(in, offset, format) ==
  CASE format.coding = "number" -> D_Number(in, offset, format.size)
    [] format.coding = "signed" -> D_Signed(in, offset, format.size)
    [] format.coding = "halves" -> D_64(in, offset)
    [] format.coding = "boolean" ->
         Then(D_8(in, offset), LAMBDA r : Read(r.value # 0, r.offset))
    [] format.coding = "decimal" ->
         Then(D_8(in, offset), LAMBDA decimals :
         Then(D_32(in, decimals.offset), LAMBDA r :
           Read([decimals |-> decimals.value, value |-> r.value], r.offset)))
    [] format.coding = "string" -> D_String(in, offset, format.size)
    [] format.coding = "bits" ->
         Then(D_8(in, offset), LAMBDA r :
           Read([i \in DOMAIN format.names |-> (r.value \div Power2[i]) % 2 = 1], r.offset))
    [] OTHER -> Read(<<>>, offset)

(* The values the program can have written in a format.                    *)
ValueOf(format, v) ==
  \/ format.coding = "number" /\ format.size \in {1, 2, 4} /\ Fits(format.size, v)
  \/ format.coding = "signed" /\ format.size \in {1, 2, 4} /\ FitsSigned(format.size, v)
  \/ /\ format.coding = "halves"
     /\ v \in [hi : Nat, lo : Nat] /\ Fits(4, v.hi) /\ Fits(4, v.lo)
  \/ format.coding = "boolean" /\ v \in BOOLEAN
  \/ /\ format.coding = "decimal"
     /\ v \in [decimals : Nat, value : Nat] /\ Fits(1, v.decimals) /\ Fits(4, v.value)
  \/ /\ format.coding = "string" /\ format.size \in {1, 4}
     /\ v \in Seq(Octet) /\ Fits(format.size, Len(v))
  \/ /\ format.coding = "bits" /\ format.names \in Seq(STRING) /\ Len(format.names) <= 8
     /\ v \in [DOMAIN format.names -> BOOLEAN]
  \/ format.coding \in {"void", "array", "table"} /\ v = <<>>

(* The octets a value takes, the four of the size of an array or a table   *)
(* included.                                                               *)
OctetsOf(format, v) ==
  CASE format.coding \in {"number", "signed"} -> format.size
    [] format.coding = "halves" -> 8
    [] format.coding \in {"boolean", "bits"} -> 1
    [] format.coding = "decimal" -> 5
    [] format.coding = "string" -> format.size + Len(v)
    [] format.coding \in {"array", "table"} -> 4
    [] OTHER -> 0
=============================================================================
