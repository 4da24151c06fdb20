-------------------------------- MODULE Codec --------------------------------
(***************************************************************************)
(* Methods and content headers as octets and back: amqp_encode_method,     *)
(* amqp_decode_method, amqp_encode_properties and amqp_decode_properties   *)
(* of amqp_framing.c, with the functions of amqp_table.c that they and     *)
(* each other call for nested tables and arrays.  One behaviour encodes    *)
(* one struct into a buffer of some size and, if that works, decodes the   *)
(* octets, or as many of them as the payload of the frame kept.            *)
(*                                                                         *)
(* A struct is listed item by item, in the order of its octets: a member,  *)
(* and after an array or a table its elements, each with what it is        *)
(* within.  An item is                                                     *)
(*   place, names   which field of the struct it is, or is part of         *)
(*   within         the arrays and tables it is an element of, from the    *)
(*                  outermost to the innermost; <<>> for a member          *)
(*   key            of an entry of a table; <<>> for others                *)
(*   kind           of an element; 0 for a member                          *)
(*   data           its value; <<>> for an array or a table                *)
(***************************************************************************)
EXTENDS MethodLayouts, FieldTable, FiniteSets

CONSTANTS
  Structs,   \* what a program encodes
  Near       \* bound: buffers and payloads are tried up to this far from both ends

VARIABLES
  struct,    \* the struct: what it is, the flags of its properties, its items
  step,      \* "given", "encoding", then "encoded" or "refused";
             \* "decoding", then "decoded" or "rejected"
  limit,     \* encoder: the size of the buffer
  octets,    \* encoder: the buffer up to the offset
  written,   \* encoder: how many items are done
  open,      \* encoder: the calls that are active, from the outermost to the
             \* innermost, as the offsets where their sizes go
  received,  \* decoder: how many octets it gets
  offset,    \* decoder: the offset
  flags,     \* decoder: the flags it has read
  decoded,   \* decoder: the items it has read
  inside     \* decoder: the calls that are active, with what each decodes and
             \* where that ends

encoder == <<limit, octets, written, open>>
decoder == <<received, offset, flags, decoded, inside>>
vars == <<struct, step, encoder, decoder>>

-----------------------------------------------------------------------------
(* The fields of a struct whose flags are set in a flag word.              *)
Flagged(fields, word) ==
  LET set == SelectSeq([i \in DOMAIN fields |-> i],
                       LAMBDA i : (word \div PropertyFlag(i)) % 2 = 1)
  IN [k \in DOMAIN set |-> fields[set[k]]]

EncodedFields(form, word) ==
  IF form.what = "method" THEN MethodEncoder[form.class][form.method]
  ELSE Flagged(PropertiesEncoder[form.class], word)

DecodedFields(form, word) ==
  IF form.what = "method" THEN MethodDecoder[form.class][form.method]
  ELSE Flagged(PropertiesDecoder[form.class], word)

Innermost(calls) == calls[Len(calls)]

(* The place of the last field that items have come to.                    *)
Place(items) == IF items = <<>> THEN 0 ELSE items[Len(items)].place

FormatIn(fields, item) ==
  IF item.within = <<>> THEN fields[item.place] ELSE FormatOf(item.kind)

(* What an item written or read next may be an element of.                 *)
Around(fields, item) ==
  IF Opens(FormatIn(fields, item))
    THEN Append(item.within, FormatIn(fields, item).coding)
    ELSE item.within

HasKey(within) == within # <<>> /\ Innermost(within) = "table"

-----------------------------------------------------------------------------
(* The structs a program can hand to the encoder.                          *)

LegalItem(fields, item) ==
  /\ item \in [place : 1 .. Len(fields), names : Seq(STRING),
               within : Seq({"array", "table"}), key : Seq(Octet),
               kind : Kinds \union {0}, data : {item.data}]
  /\ item.names = fields[item.place].names
  /\ item.within = <<>> <=> item.kind = 0
  /\ IF HasKey(item.within) THEN Fits(1, Len(item.key)) ELSE item.key = <<>>
  /\ ValueOf(FormatIn(fields, item), item.data)
  /\ FormatIn(fields, item).coding = "void" => item.within # <<>>

(* An item may be an element of what the item before it is an element of,  *)
(* or of that item itself; if it is neither, it is the next member.        *)
Follows(fields, items, i) ==
  LET around == IF i = 1 THEN <<>> ELSE Around(fields, items[i - 1])
      place == IF i = 1 THEN 0 ELSE items[i - 1].place
      within == items[i].within
  IN /\ Len(within) <= Len(around)
     /\ \A l \in DOMAIN within : within[l] = around[l]
     /\ items[i].place = IF within = <<>> THEN place + 1 ELSE place

(* Before the first member come the flags of a content header.             *)
Start(form) == IF form.what = "method" THEN 0 ELSE 2

(* The octets of an item: its key, if it has one, its kind, its value.     *)
ItemOctets(fields, item) ==
  (IF HasKey(item.within) THEN 1 + Len(item.key) ELSE 0)
    + (IF item.within = <<>> THEN 0 ELSE 1)
    + OctetsOf(FormatIn(fields, item), item.data)

(* Where the octets of the first n items end.                              *)
Size(s, n) ==
  Start(s.form) +
    Cardinality(UNION {{i} \X (1 .. ItemOctets(EncodedFields(s.form, s.flags), s.items[i])) :
                         i \in 1 .. n})

Total(s) == Size(s, Len(s.items))

(* Every member that is there is listed, and an int can hold the offset.   *)
Legal(s) ==
  LET fields == EncodedFields(s.form, s.flags)
  IN /\ Fits(2, s.flags) /\ s.flags % 2 = 0
     /\ s.form.what = "method" => s.flags = 0
     /\ s.items \in Seq({s.items[i] : i \in DOMAIN s.items})
     /\ \A i \in DOMAIN s.items : LegalItem(fields, s.items[i]) /\ Follows(fields, s.items, i)
     /\ Place(s.items) = Len(fields)
     /\ FitsSigned(4, Total(s))

ASSUME CodecAssumption ==
  /\ Near \in Nat
  /\ \A s \in Structs : Legal(s)

-----------------------------------------------------------------------------
(* Encoding                                                                *)

Fields == EncodedFields(struct.form, struct.flags)
Item == struct.items[written + 1]

Init ==
  /\ struct \in Structs
  /\ step = "given"
  /\ limit = 0
  /\ octets = <<>>
  /\ written = 0
  /\ open = <<>>
  /\ received = 0
  /\ offset = 0
  /\ flags = 0
  /\ decoded = <<>>
  /\ inside = <<>>

Nearly(n) == {c \in 0 .. n : c <= Near \/ n - c <= Near}

(* The struct is encoded into what is left of outbound_buffer.  The flag   *)
(* word of a content header comes first; the loop over flag words goes     *)
(* round once, since the flags of every class fit in one word.             *)
Encode(size) ==
  /\ step = "given"
  /\ limit' = size
  /\ \/ /\ Start(struct.form) <= size
        /\ step' = "encoding"
        /\ octets' = IF struct.form.what = "method" THEN <<>> ELSE Octets(2, struct.flags)
     \/ /\ Start(struct.form) > size
        /\ step' = "refused"
        /\ UNCHANGED octets
  /\ UNCHANGED <<struct, written, open, decoder>>

(* A bug: the last octet of the buffer is not used.                        *)
Write_ButLast(head, format) ==
  LET at == Len(octets) + Len(head)
  IN \/ /\ at < limit
        /\ octets' = octets \o head \o (IF Opens(format) THEN <<0, 0, 0, 0>> ELSE <<>>)
        /\ written' = written + 1
        /\ open' = IF Opens(format) THEN Append(open, at) ELSE open
        /\ UNCHANGED step
     \/ /\ at >= limit
        /\ step' = "refused"
        /\ UNCHANGED <<octets, written, open>>

(* The first macro whose octets would pass the end of the buffer returns   *)
(* from all the calls: an item is written in full or not at all.  The four *)
(* octets of the size of an array or a table are skipped, without a look   *)
(* at the limit.                                                           *)
Write(head, format) ==
  LET at == Len(octets) + Len(head)
  IN \/ /\ at <= limit
        /\ octets' = octets \o head \o (IF Opens(format) THEN <<0, 0, 0, 0>> ELSE <<>>)
        /\ written' = written + 1
        /\ open' = IF Opens(format) THEN Append(open, at) ELSE open
        /\ UNCHANGED step
     \/ /\ at > limit
        /\ step' = "refused"
        /\ UNCHANGED <<octets, written, open>>

(* The next statement of amqp_encode_method or amqp_encode_properties.     *)
EncodeMember ==
  /\ step = "encoding"
  /\ written < Len(struct.items)
  /\ open = <<>>
  /\ LET format == Fields[Item.place]
     IN Write(E_Value(format, Item.data), format)
  /\ UNCHANGED <<struct, limit, decoder>>

(* The next element in the loop of amqp_encode_array or amqp_encode_table, *)
(* which is amqp_encode_field_value up to the elements of the element.     *)
EncodeElement ==
  /\ step = "encoding"
  /\ written < Len(struct.items)
  /\ open # <<>>
  /\ Len(Item.within) = Len(open)
  /\ LET key == IF HasKey(Item.within) THEN E_String(1, Item.key) ELSE <<>>
         format == FormatOf(Item.kind)
     IN Write(key \o <<Item.kind>> \o E_Value(format, Item.data), format)
  /\ UNCHANGED <<struct, limit, decoder>>

(* A bug: the size of an array or a table counts its own four octets.      *)
SizeWritten_Inclusive(at) == Octets(4, Len(octets) - at)

SizeWritten(at) == Octets(4, Len(octets) - at - 4)

(* The loop is over: the size is written where it belongs, and the call    *)
(* returns.                                                                *)
EncodeClose ==
  /\ step = "encoding"
  /\ open # <<>>
  /\ written < Len(struct.items) => Len(Item.within) < Len(open)
  /\ LET at == Innermost(open)
     IN \/ /\ at + 4 <= limit
           /\ octets' = [i \in DOMAIN octets |->
                           IF i \in at + 1 .. at + 4 THEN SizeWritten(at)[i - at] ELSE octets[i]]
           /\ open' = SubSeq(open, 1, Len(open) - 1)
           /\ UNCHANGED step
        \/ /\ at + 4 > limit
           /\ step' = "refused"
           /\ UNCHANGED <<octets, open>>
  /\ UNCHANGED <<struct, limit, written, decoder>>

EncodeDone ==
  /\ step = "encoding"
  /\ open = <<>>
  /\ written = Len(struct.items)
  /\ step' = "encoded"
  /\ UNCHANGED <<struct, encoder, decoder>>

-----------------------------------------------------------------------------
(* Decoding                                                                *)

In == SubSeq(octets, 1, received)

(* The other side decodes the payload, or the first octets of it.          *)
Decode(length) ==
  /\ step = "encoded"
  /\ received' = length
  /\ LET in == SubSeq(octets, 1, length)
         r == IF struct.form.what = "method" THEN Read(0, 0) ELSE D_16(in, 0)
     IN \/ r.ok /\ step' = "decoding" /\ flags' = r.value /\ offset' = r.offset
        \/ ~r.ok /\ step' = "rejected" /\ UNCHANGED <<flags, offset>>
  /\ UNCHANGED <<struct, encoder, decoded, inside>>

(* A bug: what decoding a nested table or array returned is not looked at. *)
Take_Unchecked(item, format) ==
  LET size == Then(item, LAMBDA r : IF Opens(format) THEN D_32(In, r.offset) ELSE r)
  IN \/ /\ item.ok
        /\ decoded' = Append(decoded, item.value)
        /\ offset' = IF size.ok THEN size.offset ELSE item.offset
        /\ inside' = IF size.ok /\ Opens(format)
                       THEN Append(inside, [coding |-> format.coding,
                                            limit |-> size.offset + size.value])
                       ELSE inside
        /\ UNCHANGED step
     \/ /\ ~item.ok
        /\ step' = "rejected"
        /\ UNCHANGED <<offset, decoded, inside>>

(* What was read becomes an item; for an array or a table the size is read *)
(* as well, and the call to decode its elements begins.  Failures return   *)
(* from all the calls.                                                     *)
Take(item, format) ==
  LET size == Then(item, LAMBDA r : IF Opens(format) THEN D_32(In, r.offset) ELSE r)
  IN \/ /\ size.ok
        /\ decoded' = Append(decoded, item.value)
        /\ offset' = size.offset
        /\ inside' = IF Opens(format)
                       THEN Append(inside, [coding |-> format.coding,
                                            limit |-> size.offset + size.value])
                       ELSE inside
        /\ UNCHANGED step
     \/ /\ ~size.ok
        /\ step' = "rejected"
        /\ UNCHANGED <<offset, decoded, inside>>

Within == [l \in DOMAIN inside |-> inside[l].coding]

(* The next statement of amqp_decode_method or amqp_decode_properties.     *)
DecodeMember ==
  LET fields == DecodedFields(struct.form, flags)
      place == Place(decoded) + 1
      format == fields[place]
  IN /\ step = "decoding"
     /\ inside = <<>>
     /\ place <= Len(fields)
     /\ Take(Then(D_Value(In, offset, format), LAMBDA r :
               Read([place |-> place, names |-> format.names, within |-> <<>>,
                     key |-> <<>>, kind |-> 0, data |-> r.value], r.offset)),
             format)
     /\ UNCHANGED <<struct, encoder, received, flags>>

(* The key, in a table, and the octet that names the kind.                 *)
D_Key == IF HasKey(Within) THEN D_String(In, offset, 1) ELSE Read(<<>>, offset)
D_Kind == Then(D_Key, LAMBDA key :
          Then(D_8(In, key.offset), LAMBDA kind :
            IF kind.value \in Kinds THEN kind ELSE Failed))

(* The next element of the innermost array or table: the loop goes on      *)
(* until the offset has reached the end of it, where an element may end    *)
(* beyond that.                                                            *)
DecodeElement ==
  LET format == FormatOf(D_Kind.value)
      fields == DecodedFields(struct.form, flags)
  IN /\ step = "decoding"
     /\ inside # <<>>
     /\ offset < Innermost(inside).limit
     /\ Take(Then(D_Kind, LAMBDA kind :
             Then(D_Value(In, kind.offset, format), LAMBDA r :
               Read([place |-> Place(decoded), names |-> fields[Place(decoded)].names,
                     within |-> Within, key |-> D_Key.value, kind |-> kind.value,
                     data |-> r.value], r.offset))),
             format)
     /\ UNCHANGED <<struct, encoder, received, flags>>

DecodeClose ==
  /\ step = "decoding"
  /\ inside # <<>>
  /\ offset >= Innermost(inside).limit
  /\ inside' = SubSeq(inside, 1, Len(inside) - 1)
  /\ UNCHANGED <<struct, step, encoder, received, offset, flags, decoded>>

DecodeDone ==
  /\ step = "decoding"
  /\ inside = <<>>
  /\ Place(decoded) = Len(DecodedFields(struct.form, flags))
  /\ step' = "decoded"
  /\ UNCHANGED <<struct, encoder, decoder>>

Next ==
  \/ \E size \in Nearly(Total(struct) + 1) : Encode(size)
  \/ EncodeMember \/ EncodeElement \/ EncodeClose \/ EncodeDone
  \/ \E length \in Nearly(Len(octets)) : Decode(length)
  \/ DecodeMember \/ DecodeElement \/ DecodeClose \/ DecodeDone

Spec == Init /\ [][Next]_vars

-----------------------------------------------------------------------------
(* What was encoded decodes to the same struct, flags, signs, nested       *)
(* tables and both halves of long numbers included, and the decoder has    *)
(* then read every octet: the two generated functions of a method agree    *)
(* about its fields.  Nothing on the way is rejected.                      *)
RoundTrip ==
  /\ step = "rejected" => received < Len(octets)
  /\ step = "decoded" =>
       /\ decoded = struct.items
       /\ flags = struct.flags
       /\ offset = Len(octets)

(* A payload that was cut short is never taken for a whole struct, not     *)
(* even when the cut is between two fields or two entries of a table: some *)
(* CHECK_LIMIT on the way fails, and its failure reaches the caller.       *)
CutIsRejected ==
  step = "decoded" => received = Len(octets)

(* An encoder refuses exactly the buffers that are too small, though it    *)
(* skips the size of a table without a look at the limit, and never writes *)
(* past the limit; the octets are as many as the items take.               *)
EncodesWhatFits ==
  /\ step = "refused" => limit < Total(struct)
  /\ step \in {"encoded", "decoding", "decoded", "rejected"} =>
       Len(octets) = Total(struct) /\ Total(struct) <= limit
=============================================================================
