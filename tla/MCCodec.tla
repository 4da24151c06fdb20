------------------------------- MODULE MCCodec -------------------------------
(***************************************************************************)
(* The structs Codec is checked with: every method and every class of      *)
(* properties.  Every member has a value of its own, and one of them, or   *)
(* none, takes each of the other values of its type; of the properties all *)
(* are there, all but one, one, or none.                                   *)
(***************************************************************************)
EXTENDS Codec, SequencesExt

Long(hi, lo) == [hi |-> hi, lo |-> lo]
MaxLong == 2147483647
Letters(n) == [i \in 1 .. n |-> 65 + (i % 26)]
Value(kind, v) == [kind |-> KindOctet[kind], value |-> v]
Entry(key, field) == [key |-> key, kind |-> field.kind, value |-> field.value]

-----------------------------------------------------------------------------
(* A nested value as a list of items: itself, and then its elements.       *)

Nests(kind) == kind \in {KindOctet["ARRAY"], KindOctet["TABLE"]}
Listed(member, within, key, kind, v) ==
  [place |-> member.place, names |-> member.names, within |-> within,
   key |-> key, kind |-> kind, data |-> v]

RECURSIVE Listing(_, _, _)
Listing(member, within, elements) ==
  FlattenSeq([i \in DOMAIN elements |->
    LET e == elements[i]
        key == IF Innermost(within) = "table" THEN e.key ELSE <<>>
    IN IF Nests(e.kind)
         THEN <<Listed(member, within, key, e.kind, <<>>)>>
                \o Listing(member, Append(within, FormatOf(e.kind).coding), e.value)
         ELSE <<Listed(member, within, key, e.kind, e.value)>>])

(* The items of the member in some place.                                  *)
ListMember(place, field, v) ==
  LET member == [place |-> place, names |-> field.names]
  IN IF field.coding = "table"
       THEN <<Listed(member, <<>>, <<>>, 0, <<>>)>> \o Listing(member, <<"table">>, v)
       ELSE <<Listed(member, <<>>, <<>>, 0, v)>>

-----------------------------------------------------------------------------
FieldValues ==
  <<Value("BOOLEAN", TRUE), Value("BOOLEAN", FALSE), Value("I8", -128), Value("I8", -1),
    Value("U8", 255), Value("I16", -32768), Value("I16", 32767), Value("U16", 65535),
    Value("I32", -MaxLong - 1), Value("I32", -2), Value("U32", MaxLong),
    Value("I64", Long(1, 2)), Value("F32", 3), Value("F64", Long(MaxLong, 0)),
    Value("DECIMAL", [decimals |-> 2, value |-> 314]), Value("UTF8", Letters(3)),
    Value("BYTES", <<>>), Value("TIMESTAMP", Long(0, 7)), Value("VOID", <<>>),
    Value("ARRAY", <<>>), Value("TABLE", <<>>),
    Value("ARRAY", <<Value("VOID", <<>>), Value("ARRAY", <<Value("U8", 1)>>)>>),
    Value("TABLE", <<Entry(Letters(1), Value("ARRAY", <<Value("I8", 5)>>)),
                     Entry(<<>>, Value("TABLE", <<Entry(<<0>>, Value("VOID", <<>>))>>))>>)>>

TableValues ==
  <<<<Entry(Letters(1), Value("I8", 1))>>, <<>>,
    [i \in 1 .. 3 |-> Entry(Letters(i), FieldValues[i])],
    <<Entry(Letters(255), Value("VOID", <<>>))>>>>
  \o [i \in DOMAIN FieldValues |-> <<Entry(Letters(2), FieldValues[i])>>]

(* The values of the field in place i, its own first.                      *)
ValuesOf(field, i) ==
  CASE field.coding = "number" -> <<i, 0, IF field.size = 4 THEN MaxLong ELSE 256 ^ field.size - 1>>
    [] field.coding = "halves" -> <<Long(0, i), Long(i, 0), Long(MaxLong, MaxLong)>>
    [] field.coding = "string" -> <<Letters(i), <<>>, Letters(IF field.size = 1 THEN 255 ELSE 256)>>
    [] field.coding = "table" -> TableValues
    [] field.coding = "bits" ->
         LET n == Len(field.names)
         IN [k \in 1 .. n + 1 |-> [flag \in 1 .. n |-> k <= n /\ flag = (k % n) + 1]]

(* The items of a struct where the field in place at takes its k-th value. *)
ItemsOf(fields, at, k) ==
  FlattenSeq([i \in DOMAIN fields |->
    ListMember(i, fields[i], ValuesOf(fields[i], i)[IF i = at THEN k ELSE 1])])

Variants(fields) ==
  {ItemsOf(fields, 0, 1)} \union
  UNION {{ItemsOf(fields, at, k) : k \in 2 .. Len(ValuesOf(fields[at], at))} : at \in DOMAIN fields}

Methods ==
  UNION {UNION {{[form |-> [what |-> "method", class |-> class, method |-> method],
                  flags |-> 0, items |-> items] :
                   items \in Variants(MethodEncoder[class][method])} :
                  method \in DOMAIN MethodEncoder[class]} :
          class \in DOMAIN MethodEncoder}

(* The flag word of the fields in some places.                             *)
FlagWord(places) == FoldSet(LAMBDA i, word : word + PropertyFlag(i), 0, places)

Headers(class) ==
  LET fields == PropertiesEncoder[class]
      Only(places) == Flagged(fields, FlagWord(places))
      Header(places, items) ==
        [form |-> [what |-> "properties", class |-> class, method |-> "header"],
         flags |-> FlagWord(places), items |-> items]
      All == DOMAIN fields
  IN {Header(All, items) : items \in Variants(fields)}
     \union {Header({}, <<>>)}
     \union UNION {{Header({i}, items) : items \in Variants(Only({i}))} : i \in All}
     \union {Header(All \ {i}, ItemsOf(Only(All \ {i}), 0, 1)) : i \in All}

MCStructs == Methods \union UNION {Headers(class) : class \in DOMAIN PropertiesEncoder}
=============================================================================
