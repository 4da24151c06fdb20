----------------------------- MODULE CodecProofs -----------------------------
(***************************************************************************)
(* For any structs a program can encode, whatever their fields, nesting    *)
(* and lengths, any buffer and any cut of the payload: the decoder gives   *)
(* back what was encoded, rejects every payload that was cut, and the      *)
(* encoder keeps to the limit.                                             *)
(*                                                                         *)
(* First values: the octets of each are as many as its format says, and    *)
(* reading octets that were written gives the value (ValueWritten,         *)
(* ValueRead).  Then items: where each one begins and ends (SizeStep,      *)
(* SizeOrder), and what its octets are (HeadFacts).  Then what the buffer  *)
(* holds while the encoder works (Encoding), and the items the decoder has *)
(* come to (Decoding), each with a lemma for each kind of step.            *)
(***************************************************************************)
EXTENDS Codec, SequenceLemmas, FiniteSetTheorems, TLAPS

-----------------------------------------------------------------------------
(* The octets s are at offset o of a payload, as far as the payload goes.  *)
Holds(in, o, s) == \A i \in 1 .. Len(s) : o + i <= Len(in) => in[o + i] = s[i]

(* What a macro should make of octets s that stand for the value v.        *)
Reading(in, o, s, v) == IF o + Len(s) <= Len(in) THEN Read(v, o + Len(s)) ELSE Failed

(* The octets of a number are as many as its width.                        *)
LEMMA OctetsType ==
  ASSUME NEW n \in Int, NEW w \in {1, 2, 4}
  PROVE  Octets(w, n) \in Seq(Octet) /\ Len(Octets(w, n)) = w
<1>1. \A i \in 1 .. w : (n \div Power256[w - i + 1]) % 256 \in Octet
  <2>1. \A i \in 1 .. w : Power256[w - i + 1] \in {1, 256, 65536, 16777216}
    BY DEF Power256
  <2>2. \A d \in {1, 256, 65536, 16777216} : (n \div d) % 256 \in 0 .. 255
    OBVIOUS
  <2> QED BY <2>1, <2>2 DEF Octet
<1> QED BY <1>1 DEF Octets

(* A sequence of octets is one of numbers.                                 *)
LEMMA OctetsAreNumbers ==
  ASSUME NEW s \in Seq(Octet)
  PROVE  s \in Seq(Int) /\ DOMAIN s = 1 .. Len(s) /\ \A i \in 1 .. Len(s) : s[i] \in 0 .. 255
<1>1. DOMAIN s = 1 .. Len(s) /\ \A i \in 1 .. Len(s) : s[i] \in Octet
  OBVIOUS
<1>2. Octet \subseteq Int
  BY DEF Octet
<1>3. s \in Seq(Int)
  <2>1. s \in [1 .. Len(s) -> Int] /\ Len(s) \in Nat
    BY <1>1, <1>2, LenProperties
  <2>2. Seq(Int) = UNION {[1 .. n -> Int] : n \in Nat}
    BY SeqDef
  <2> QED BY <2>1, <2>2, Zenon
<1> QED BY <1>1, <1>3 DEF Octet

(* The octets of a number, one by one.                                     *)
LEMMA OctetsFacts ==
  ASSUME NEW n \in Int, NEW w \in {1, 2, 4}
  PROVE  /\ Octets(w, n) \in Seq(Octet) /\ Len(Octets(w, n)) = w
         /\ w = 1 => Octets(w, n)[1] = n % 256
         /\ w = 2 => /\ Octets(w, n)[1] = (n \div 256) % 256
                     /\ Octets(w, n)[2] = n % 256
         /\ w = 4 => /\ Octets(w, n)[1] = (n \div 16777216) % 256
                     /\ Octets(w, n)[2] = (n \div 65536) % 256
                     /\ Octets(w, n)[3] = (n \div 256) % 256
                     /\ Octets(w, n)[4] = n % 256
<1>0. n \div 1 = n
  OBVIOUS
<1>2. Octets(w, n) \in Seq(Octet) /\ Len(Octets(w, n)) = w
  BY OctetsType
<1>3. CASE w = 1
  BY <1>0, <1>2, <1>3 DEF Octets, Power256
<1>4. CASE w = 2
  BY <1>0, <1>2, <1>4 DEF Octets, Power256
<1>5. CASE w = 4
  BY <1>0, <1>2, <1>5 DEF Octets, Power256
<1> QED BY <1>2, <1>3, <1>4, <1>5

(* A number without a sign is what its octets say.                         *)
LEMMA NumberOctets ==
  ASSUME NEW w \in {1, 2, 4}, NEW n \in Int, Fits(w, n)
  PROVE  Number(Octets(w, n)) = n
<1> DEFINE s == Octets(w, n)
<1>0. n \in Nat
  BY SMT DEF Fits
<1>1. CASE w = 1
  <2>1. n % 256 = n
    BY <1>0, <1>1 DEF Fits, Power256
  <2>2. Len(s) = 1 /\ s[1] = n % 256
    BY <1>1, OctetsFacts
  <2> HIDE DEF s
  <2>3. Number(s) = s[1]
    BY <2>2 DEF Number
  <2> QED BY <2>1, <2>2, <2>3 DEF s
<1>2. CASE w = 2
  <2>1. 256 * ((n \div 256) % 256) + (n % 256) = n
    BY <1>0, <1>2 DEF Fits, Power256
  <2>2. Len(s) = 2 /\ s[1] = (n \div 256) % 256 /\ s[2] = n % 256
    BY <1>2, OctetsFacts
  <2> HIDE DEF s
  <2>3. Number(s) = 256 * s[1] + s[2]
    BY <2>2 DEF Number
  <2> QED BY <2>1, <2>2, <2>3 DEF s
<1>3. CASE w = 4
  <2>1. n \div 16777216 < 256
    BY <1>3 DEF Fits, Power256
  <2>2. 16777216 * ((n \div 16777216) % 256) + 65536 * ((n \div 65536) % 256)
          + 256 * ((n \div 256) % 256) + (n % 256) = n
    BY <1>0, <2>1
  <2>3. /\ Len(s) = 4 /\ s[1] = (n \div 16777216) % 256 /\ s[2] = (n \div 65536) % 256
        /\ s[3] = (n \div 256) % 256 /\ s[4] = n % 256
    BY <1>3, OctetsFacts
  <2> HIDE DEF s
  <2>4. Number(s) = 16777216 * s[1] + 65536 * s[2] + 256 * s[3] + s[4]
    BY <2>3 DEF Number
  <2> QED BY <2>2, <2>3, <2>4 DEF s
<1> QED BY <1>1, <1>2, <1>3

(* A number with another first octet.                                      *)
Joined(e, s) ==
  IF Len(s) = 1 THEN e
  ELSE IF Len(s) = 2 THEN 256 * e + s[2]
  ELSE 16777216 * e + 65536 * s[2] + 256 * s[3] + s[4]

(* The cast changes the first octet only.                                  *)
LEMMA SignedFacts ==
  ASSUME NEW w \in {1, 2, 4}, NEW s \in Seq(Octet), Len(s) = w,
         NEW e \in Int, e = IF s[1] < 128 THEN s[1] ELSE s[1] - 256
  PROVE  Signed(s) = Joined(e, s)
<1> DEFINE t == [s EXCEPT ![1] = e]
<1>1. Signed(s) = Number(t)
  BY DEF Signed
<1>2. DOMAIN s = 1 .. w /\ w \in Nat \ {0} /\ s \in Seq(Int)
  BY OctetsAreNumbers
<1>3. Len(t) = w /\ t[1] = e /\ \A i \in 2 .. w : t[i] = s[i]
  <2>1. t = [i \in 1 .. w |-> IF i = 1 THEN e ELSE s[i]]
    BY <1>2
  <2>2. t \in Seq(Int)
    BY <1>2
  <2> QED BY <1>2, <2>1, <2>2
<1> HIDE DEF t
<1>4. CASE w = 1
  BY <1>1, <1>3, <1>4 DEF Number, Joined
<1>5. CASE w = 2
  <2>1. Number(t) = 256 * t[1] + t[2]
    BY <1>3, <1>5 DEF Number
  <2> QED BY <1>1, <1>3, <1>5, <2>1 DEF Joined
<1>6. CASE w = 4
  <2>1. Number(t) = 16777216 * t[1] + 65536 * t[2] + 256 * t[3] + t[4]
    BY <1>3, <1>6 DEF Number
  <2>2. t[2] = s[2] /\ t[3] = s[3] /\ t[4] = s[4]
    BY <1>3, <1>6
  <2> QED BY <1>1, <1>3, <1>6, <2>1, <2>2 DEF Joined
<1> QED BY <1>4, <1>5, <1>6

(* A number with a sign is what the cast makes of its octets.              *)
LEMMA SignedOctets ==
  ASSUME NEW w \in {1, 2, 4}, NEW n \in Int, FitsSigned(w, n)
  PROVE  Signed(Octets(w, n)) = n
<1> DEFINE s == Octets(w, n)
           e == IF s[1] < 128 THEN s[1] ELSE s[1] - 256
<1>1. s \in Seq(Octet) /\ Len(s) = w
  BY OctetsType
<1>2. /\ w = 1 => s[1] = n % 256
      /\ w = 2 => s[1] = (n \div 256) % 256 /\ s[2] = n % 256
      /\ w = 4 => /\ s[1] = (n \div 16777216) % 256 /\ s[2] = (n \div 65536) % 256
                  /\ s[3] = (n \div 256) % 256 /\ s[4] = n % 256
  BY OctetsFacts
<1>3. /\ w = 1 => n \in -128 .. 127
      /\ w = 2 => n \div 256 \in -128 .. 127
      /\ w = 4 => n \div 16777216 \in -128 .. 127
  <2>1. n \div 1 = n
    OBVIOUS
  <2> QED BY <2>1 DEF FitsSigned, Power256
<1> HIDE DEF s
<1>4. s[1] \in 0 .. 255
  <2>1. 1 \in 1 .. Len(s)
    BY <1>1
  <2> QED BY <1>1, <2>1, OctetsAreNumbers, Zenon
<1>5. e \in Int /\ e = IF s[1] < 128 THEN s[1] ELSE s[1] - 256
  BY <1>4
<1> HIDE DEF e
<1>6. Signed(s) = Joined(e, s)
  BY <1>1, <1>5, SignedFacts, Zenon
<1>7. CASE w = 1
  <2>1. e = n
    BY <1>2, <1>3, <1>5, <1>7
  <2> QED BY <1>1, <1>6, <1>7, <2>1 DEF s, Joined
<1>8. CASE w = 2
  <2>1. e = n \div 256
    BY <1>2, <1>3, <1>5, <1>8
  <2>2. 256 * e + s[2] = n
    BY <1>2, <1>8, <2>1
  <2> QED BY <1>1, <1>6, <1>8, <2>2 DEF s, Joined
<1>9. CASE w = 4
  <2>1. e = n \div 16777216
    BY <1>2, <1>3, <1>5, <1>9
  <2>2. 16777216 * (n \div 16777216) + 65536 * ((n \div 65536) % 256)
          + 256 * ((n \div 256) % 256) + (n % 256) = n
    OBVIOUS
  <2>3. s[2] = (n \div 65536) % 256 /\ s[3] = (n \div 256) % 256 /\ s[4] = n % 256
    BY <1>2, <1>9
  <2>4. 16777216 * e + 65536 * s[2] + 256 * s[3] + s[4] = n
    BY <2>1, <2>2, <2>3
  <2>5. Joined(e, s) = 16777216 * e + 65536 * s[2] + 256 * s[3] + s[4]
    BY <1>1, <1>9 DEF Joined
  <2> QED BY <1>6, <2>4, <2>5 DEF s
<1> QED BY <1>7, <1>8, <1>9

-----------------------------------------------------------------------------
(* What was written is read.                                               *)

(* A reading succeeds exactly if the payload goes that far.                *)
LEMMA ReadingFacts ==
  ASSUME NEW in, NEW o, NEW s, NEW v
  PROVE  /\ Reading(in, o, s, v).ok <=> o + Len(s) <= Len(in)
         /\ Reading(in, o, s, v).ok =>
              Reading(in, o, s, v).value = v /\ Reading(in, o, s, v).offset = o + Len(s)
         /\ ~Reading(in, o, s, v).ok => Reading(in, o, s, v) = Failed
         /\ ~Failed.ok
<1>1. CASE o + Len(s) <= Len(in)
  BY <1>1, Zenon DEF Reading, Read, Failed
<1>2. CASE ~(o + Len(s) <= Len(in))
  BY <1>2, Zenon DEF Reading, Read, Failed
<1> QED BY <1>1, <1>2, Zenon

(* Octets after octets are octets.                                         *)
LEMMA OctetsConcat ==
  ASSUME NEW s \in Seq(Octet), NEW t \in Seq(Octet)
  PROVE  s \o t \in Seq(Octet) /\ Len(s \o t) = Len(s) + Len(t) /\ Len(s) \in Nat /\ Len(t) \in Nat
  BY ConcatProperties

(* A payload that holds two pieces in a row holds each in its place.       *)
LEMMA HoldsConcat ==
  ASSUME NEW in \in Seq(Octet), NEW o \in Nat, NEW s \in Seq(Octet), NEW t \in Seq(Octet),
         Holds(in, o, s \o t)
  PROVE  /\ Holds(in, o, s) /\ Holds(in, o + Len(s), t)
         /\ s \o t \in Seq(Octet) /\ Len(s \o t) = Len(s) + Len(t)
<1>1. /\ s \o t \in Seq(Octet)
      /\ Len(s \o t) = Len(s) + Len(t)
      /\ \A i \in 1 .. Len(s) + Len(t) :
           (s \o t)[i] = IF i <= Len(s) THEN s[i] ELSE t[i - Len(s)]
  BY ConcatProperties
<1>2. Len(s) \in Nat /\ Len(t) \in Nat /\ Len(in) \in Nat
  OBVIOUS
<1>3. \A i \in 1 .. Len(s) : i \in 1 .. Len(s) + Len(t) /\ i <= Len(s)
  BY <1>2
<1>4. Holds(in, o, s)
  BY <1>1, <1>3 DEF Holds
<1>5. ASSUME NEW i \in 1 .. Len(t), (o + Len(s)) + i <= Len(in)
      PROVE  in[(o + Len(s)) + i] = t[i]
  <2>1. Len(s) + i \in 1 .. Len(s) + Len(t) /\ ~(Len(s) + i <= Len(s)) /\ (Len(s) + i) - Len(s) = i
        /\ o + (Len(s) + i) = (o + Len(s)) + i
    BY <1>2
  <2>2. (s \o t)[Len(s) + i] = t[i]
    BY <1>1, <2>1
  <2> QED BY <1>1, <1>5, <2>1, <2>2 DEF Holds
<1> QED BY <1>1, <1>4, <1>5 DEF Holds

(* D_BYTES gives the octets that are there.                                *)
LEMMA BytesRead ==
  ASSUME NEW in \in Seq(Octet), NEW o \in Nat, NEW s \in Seq(Octet), Holds(in, o, s)
  PROVE  D_BYTES(in, o, Len(s)) = Reading(in, o, s, s)
<1>1. Len(s) \in Nat /\ Len(in) \in Nat
  OBVIOUS
<1>2. CASE o + Len(s) > Len(in)
  BY <1>1, <1>2 DEF D_BYTES, Reading
<1>3. CASE o + Len(s) <= Len(in)
  <2> DEFINE t == SubSeq(in, o + 1, o + Len(s))
  <2>1. t \in Seq(Octet) /\ Len(t) = Len(s) /\ \A i \in 1 .. Len(s) : t[i] = in[o + i]
    <3>1. t \in Seq(Octet)
      BY <1>1, <1>3
    <3>2. Len(t) = Len(s) /\ \A i \in 1 .. Len(s) : t[i] = in[o + i]
      BY <1>1, <1>3
    <3> QED BY <3>1, <3>2
  <2> HIDE DEF t
  <2>2. \A i \in 1 .. Len(s) : in[o + i] = s[i]
    BY <1>1, <1>3 DEF Holds
  <2>3. t = s
    BY <2>1, <2>2, SeqEqual
  <2>4. ~(o + Len(s) > Len(in))
    BY <1>1, <1>3
  <2> QED BY <1>3, <2>3, <2>4, Zenon DEF D_BYTES, Reading, t
<1> QED BY <1>1, <1>2, <1>3

(* D_8, D_16, D_32 and the casts give the number that was written.         *)
LEMMA NumberRead ==
  ASSUME NEW in \in Seq(Octet), NEW o \in Nat, NEW w \in {1, 2, 4}, NEW n \in Int,
         Holds(in, o, Octets(w, n))
  PROVE  /\ Fits(w, n) => D_Number(in, o, w) = Reading(in, o, Octets(w, n), n)
         /\ FitsSigned(w, n) => D_Signed(in, o, w) = Reading(in, o, Octets(w, n), n)
<1> DEFINE s == Octets(w, n)
<1>1. s \in Seq(Octet) /\ Len(s) = w
  BY OctetsType
<1>2. Fits(w, n) => Number(s) = n
  BY NumberOctets
<1>3. FitsSigned(w, n) => Signed(s) = n
  BY SignedOctets
<1>4. Holds(in, o, s)
  OBVIOUS
<1> HIDE DEF s
<1>5. D_BYTES(in, o, w) = Reading(in, o, s, s)
  BY <1>1, <1>4, BytesRead
<1>6. CASE o + Len(s) <= Len(in)
  <2>1. D_BYTES(in, o, w) = Read(s, o + Len(s))
    BY <1>5, <1>6, Zenon DEF Reading
  <2>2. D_Number(in, o, w) = Read(Number(s), o + Len(s))
    BY <2>1 DEF D_Number, Then, Read
  <2>3. D_Signed(in, o, w) = Read(Signed(s), o + Len(s))
    BY <2>1 DEF D_Signed, Then, Read
  <2>4. Reading(in, o, s, n) = Read(n, o + Len(s))
    BY <1>6, Zenon DEF Reading
  <2> QED BY <1>2, <1>3, <2>2, <2>3, <2>4, Zenon DEF s
<1>7. CASE ~(o + Len(s) <= Len(in))
  <2>1. D_BYTES(in, o, w) = Failed /\ Reading(in, o, s, n) = Failed
    BY <1>5, <1>7, Zenon DEF Reading
  <2>2. D_Number(in, o, w) = Failed /\ D_Signed(in, o, w) = Failed
    BY <2>1 DEF D_Number, D_Signed, Then, Failed
  <2> QED BY <2>1, <2>2, Zenon DEF s
<1> QED BY <1>6, <1>7, Zenon

(* What a reading that succeeded or failed looks like.                     *)
LEMMA ReadFacts ==
  /\ \A v, p : Read(v, p).ok /\ Read(v, p).value = v /\ Read(v, p).offset = p
  /\ ~Failed.ok
  BY DEF Read, Failed

(* Two readings in a row.                                                  *)
LEMMA TwoReadings ==
  ASSUME NEW in \in Seq(Octet), NEW o \in Nat, NEW s \in Seq(Octet), NEW t \in Seq(Octet), NEW v
  PROVE  /\ s \o t \in Seq(Octet) /\ o + Len(s) \in Nat
         /\ ~(o + Len(s) <= Len(in)) => Reading(in, o, s \o t, v) = Failed
         /\ ~((o + Len(s)) + Len(t) <= Len(in)) => Reading(in, o, s \o t, v) = Failed
         /\ (o + Len(s)) + Len(t) <= Len(in) =>
              Reading(in, o, s \o t, v) = Read(v, (o + Len(s)) + Len(t))
<1>1. s \o t \in Seq(Octet) /\ Len(s \o t) = Len(s) + Len(t)
  BY ConcatProperties
<1>2. Len(s) \in Nat /\ Len(t) \in Nat /\ Len(in) \in Nat
  OBVIOUS
<1>3. /\ o + Len(s \o t) = (o + Len(s)) + Len(t)
      /\ ~(o + Len(s) <= Len(in)) => ~((o + Len(s)) + Len(t) <= Len(in))
      /\ o + Len(s) \in Nat
  BY <1>1, <1>2
<1> QED BY <1>1, <1>3, Zenon DEF Reading

(* D_64 gives the halves of the number that was written.                   *)
LEMMA HalvesRead ==
  ASSUME NEW in \in Seq(Octet), NEW o \in Nat, NEW v \in [hi : Nat, lo : Nat],
         Fits(4, v.hi), Fits(4, v.lo), Holds(in, o, E_64(v))
  PROVE  D_64(in, o) = Reading(in, o, E_64(v), v)
<1>1. v.hi \in Int /\ v.lo \in Int /\ v = [hi |-> v.hi, lo |-> v.lo]
  OBVIOUS
<1> DEFINE s == Octets(4, v.hi)
           t == Octets(4, v.lo)
<1>2. s \in Seq(Octet) /\ t \in Seq(Octet)
  BY <1>1, OctetsType
<1>3. Holds(in, o, s) /\ Holds(in, o + Len(s), t) /\ o + Len(s) \in Nat
  BY <1>2, HoldsConcat DEF E_64
<1>4. D_32(in, o) = Reading(in, o, s, v.hi)
  BY <1>1, <1>3, NumberRead DEF D_32
<1>5. D_32(in, o + Len(s)) = Reading(in, o + Len(s), t, v.lo)
  BY <1>1, <1>3, NumberRead DEF D_32
<1>6. E_64(v) = s \o t
  BY DEF E_64
<1> HIDE DEF s, t
<1>7. CASE ~(o + Len(s) <= Len(in))
  <2>1. D_32(in, o) = Failed
    BY <1>4, <1>7, Zenon DEF Reading
  <2>2. D_64(in, o) = Failed
    BY <2>1 DEF D_64, Then, Failed
  <2> QED BY <1>2, <1>6, <1>7, <2>2, TwoReadings
<1>8. CASE o + Len(s) <= Len(in)
  <2>1. D_32(in, o) = Read(v.hi, o + Len(s))
    BY <1>4, <1>8, Zenon DEF Reading
  <2>2. CASE ~((o + Len(s)) + Len(t) <= Len(in))
    <3>1. D_32(in, o + Len(s)) = Failed
      BY <1>5, <2>2, Zenon DEF Reading
    <3>2. D_64(in, o) = Failed
      BY <2>1, <3>1 DEF D_64, Then, Failed, Read
    <3> QED BY <1>2, <1>6, <2>2, <3>2, TwoReadings
  <2>3. CASE (o + Len(s)) + Len(t) <= Len(in)
    <3>1. D_32(in, o + Len(s)) = Read(v.lo, (o + Len(s)) + Len(t))
      BY <1>5, <2>3, Zenon DEF Reading
    <3>2. /\ D_32(in, o).ok /\ D_32(in, o).value = v.hi /\ D_32(in, o).offset = o + Len(s)
          /\ D_32(in, o + Len(s)).ok /\ D_32(in, o + Len(s)).value = v.lo
          /\ D_32(in, o + Len(s)).offset = (o + Len(s)) + Len(t)
      BY <2>1, <3>1 DEF Read
    <3>3. D_64(in, o) = Read([hi |-> v.hi, lo |-> v.lo], (o + Len(s)) + Len(t))
      BY <3>2 DEF D_64, Then
    <3> QED BY <1>1, <1>2, <1>6, <2>3, <3>3, TwoReadings
  <2> QED BY <2>2, <2>3
<1> QED BY <1>7, <1>8

(* A decimal is read as it was written.                                    *)
LEMMA DecimalRead ==
  ASSUME NEW in \in Seq(Octet), NEW o \in Nat, NEW v \in [decimals : Nat, value : Nat],
         Fits(1, v.decimals), Fits(4, v.value),
         Holds(in, o, Octets(1, v.decimals) \o Octets(4, v.value))
  PROVE  Then(D_8(in, o), LAMBDA decimals :
           Then(D_32(in, decimals.offset), LAMBDA r :
             Read([decimals |-> decimals.value, value |-> r.value], r.offset)))
         = Reading(in, o, Octets(1, v.decimals) \o Octets(4, v.value), v)
<1>1. v.decimals \in Int /\ v.value \in Int /\ v = [decimals |-> v.decimals, value |-> v.value]
  OBVIOUS
<1> DEFINE s == Octets(1, v.decimals)
           t == Octets(4, v.value)
           d == Then(D_8(in, o), LAMBDA decimals :
                  Then(D_32(in, decimals.offset), LAMBDA r :
                    Read([decimals |-> decimals.value, value |-> r.value], r.offset)))
<1>2. s \in Seq(Octet) /\ t \in Seq(Octet)
  BY <1>1, OctetsType
<1>3. Holds(in, o, s) /\ Holds(in, o + Len(s), t) /\ o + Len(s) \in Nat
  BY <1>2, HoldsConcat
<1>4. D_8(in, o) = Reading(in, o, s, v.decimals)
  BY <1>1, <1>3, NumberRead DEF D_8
<1>5. D_32(in, o + Len(s)) = Reading(in, o + Len(s), t, v.value)
  BY <1>1, <1>3, NumberRead DEF D_32
<1> SUFFICES d = Reading(in, o, s \o t, v)
  OBVIOUS
<1> HIDE DEF s, t, d
<1>7. CASE ~(o + Len(s) <= Len(in))
  <2>1. D_8(in, o) = Failed
    BY <1>4, <1>7, Zenon DEF Reading
  <2>2. d = Failed
    BY <2>1 DEF d, Then, Failed
  <2> QED BY <1>2, <1>7, <2>2, TwoReadings
<1>8. CASE o + Len(s) <= Len(in)
  <2>1. D_8(in, o) = Read(v.decimals, o + Len(s))
    BY <1>4, <1>8, Zenon DEF Reading
  <2>2. CASE ~((o + Len(s)) + Len(t) <= Len(in))
    <3>1. D_32(in, o + Len(s)) = Failed
      BY <1>5, <2>2, Zenon DEF Reading
    <3>2. d = Failed
      BY <2>1, <3>1 DEF d, Then, Failed, Read
    <3> QED BY <1>2, <2>2, <3>2, TwoReadings
  <2>3. CASE (o + Len(s)) + Len(t) <= Len(in)
    <3>1. D_32(in, o + Len(s)) = Read(v.value, (o + Len(s)) + Len(t))
      BY <1>5, <2>3, Zenon DEF Reading
    <3>2. /\ D_8(in, o).ok /\ D_8(in, o).value = v.decimals /\ D_8(in, o).offset = o + Len(s)
          /\ D_32(in, o + Len(s)).ok /\ D_32(in, o + Len(s)).value = v.value
          /\ D_32(in, o + Len(s)).offset = (o + Len(s)) + Len(t)
      BY <2>1, <3>1 DEF Read
    <3>3. d = Read([decimals |-> v.decimals, value |-> v.value], (o + Len(s)) + Len(t))
      BY <3>2 DEF d, Then
    <3> QED BY <1>1, <1>2, <2>3, <3>3, TwoReadings
  <2> QED BY <2>2, <2>3
<1> QED BY <1>7, <1>8

(* A string is read as it was written, with a length of any width.         *)
LEMMA StringRead ==
  ASSUME NEW in \in Seq(Octet), NEW o \in Nat, NEW w \in {1, 4}, NEW v \in Seq(Octet),
         Fits(w, Len(v)), Holds(in, o, E_String(w, v))
  PROVE  D_String(in, o, w) = Reading(in, o, E_String(w, v), v)
<1> DEFINE s == Octets(w, Len(v))
<1>1. Len(v) \in Int /\ w \in {1, 2, 4}
  OBVIOUS
<1>2. s \in Seq(Octet)
  BY <1>1, OctetsType
<1>3. Holds(in, o, s) /\ Holds(in, o + Len(s), v) /\ o + Len(s) \in Nat
  BY <1>2, HoldsConcat DEF E_String
<1>4. D_Number(in, o, w) = Reading(in, o, s, Len(v))
  BY <1>1, <1>3, NumberRead
<1>5. D_BYTES(in, o + Len(s), Len(v)) = Reading(in, o + Len(s), v, v)
  BY <1>3, BytesRead
<1>6. E_String(w, v) = s \o v
  BY DEF E_String
<1> HIDE DEF s
<1>7. CASE ~(o + Len(s) <= Len(in))
  <2>1. D_Number(in, o, w) = Failed
    BY <1>4, <1>7, Zenon DEF Reading
  <2>2. D_String(in, o, w) = Failed
    BY <2>1 DEF D_String, Then, Failed
  <2> QED BY <1>2, <1>6, <1>7, <2>2, TwoReadings
<1>8. CASE o + Len(s) <= Len(in)
  <2>1. D_Number(in, o, w) = Read(Len(v), o + Len(s))
    BY <1>4, <1>8, Zenon DEF Reading
  <2>2. D_String(in, o, w) = D_BYTES(in, o + Len(s), Len(v))
    BY <2>1 DEF D_String, Then, Read
  <2>3. CASE ~((o + Len(s)) + Len(v) <= Len(in))
    <3>1. Reading(in, o + Len(s), v, v) = Failed
      BY <2>3, Zenon DEF Reading
    <3> QED BY <1>2, <1>5, <1>6, <2>2, <2>3, <3>1, TwoReadings
  <2>4. CASE (o + Len(s)) + Len(v) <= Len(in)
    <3>1. Reading(in, o + Len(s), v, v) = Read(v, (o + Len(s)) + Len(v))
      BY <2>4, Zenon DEF Reading
    <3> QED BY <1>2, <1>5, <1>6, <2>2, <2>4, <3>1, TwoReadings
  <2> QED BY <2>3, <2>4
<1> QED BY <1>7, <1>8

(* An octet is read as it is.                                              *)
LEMMA OctetRead ==
  ASSUME NEW in \in Seq(Octet), NEW o \in Nat, NEW n \in 0 .. 255, Holds(in, o, <<n>>)
  PROVE  D_8(in, o) = Reading(in, o, <<n>>, n)
<1>1. Octets(1, n) = <<n>> /\ Fits(1, n)
  <2>1. Octets(1, n) \in Seq(Octet) /\ Len(Octets(1, n)) = 1 /\ Octets(1, n)[1] = n % 256
    BY OctetsType, OctetsFacts
  <2>2. n % 256 = n
    OBVIOUS
  <2>3. n \div 1 = n
    OBVIOUS
  <2>4. Fits(1, n)
    BY <2>3 DEF Fits, Power256
  <2> QED BY <2>1, <2>2, <2>4
<1> QED BY <1>1, NumberRead DEF D_8

(* The bits of bit_buffer are the flags that were set.                     *)
LEMMA BitsOfBuffer ==
  ASSUME NEW v, NEW n \in 0 .. 8, v \in [1 .. n -> BOOLEAN]
  PROVE  /\ BitBuffer(v) \in 0 .. 255
         /\ \A i \in 1 .. n : (BitBuffer(v) \div Power2[i]) % 2 = 1 <=> v[i]
<1> DEFINE x(i) == IF i \in 1 .. n THEN (IF v[i] THEN 1 ELSE 0) ELSE 0
           buffer == x(1) + 2 * x(2) + 4 * x(3) + 8 * x(4)
                       + 16 * x(5) + 32 * x(6) + 64 * x(7) + 128 * x(8)
<1>1. \A i \in 1 .. 8 : x(i) \in 0 .. 1
  OBVIOUS
<1>2. \A i \in 1 .. n : x(i) = 1 <=> v[i]
  OBVIOUS
<1>3. DOMAIN v = 1 .. n
  OBVIOUS
<1>5. /\ Power2[1] = 1 /\ Power2[2] = 2 /\ Power2[3] = 4 /\ Power2[4] = 8
      /\ Power2[5] = 16 /\ Power2[6] = 32 /\ Power2[7] = 64 /\ Power2[8] = 128
  BY DEF Power2
<1>6. /\ Bit(v, 1) = x(1) /\ Bit(v, 2) = 2 * x(2) /\ Bit(v, 3) = 4 * x(3)
      /\ Bit(v, 4) = 8 * x(4) /\ Bit(v, 5) = 16 * x(5) /\ Bit(v, 6) = 32 * x(6)
      /\ Bit(v, 7) = 64 * x(7) /\ Bit(v, 8) = 128 * x(8)
  BY <1>3, <1>5 DEF Bit
<1> HIDE DEF x
<1>7. BitBuffer(v) = buffer
  BY <1>6, Zenon DEF BitBuffer
<1>8. /\ buffer \in 0 .. 255
      /\ (buffer \div 1) % 2 = x(1) /\ (buffer \div 2) % 2 = x(2)
      /\ (buffer \div 4) % 2 = x(3) /\ (buffer \div 8) % 2 = x(4)
      /\ (buffer \div 16) % 2 = x(5) /\ (buffer \div 32) % 2 = x(6)
      /\ (buffer \div 64) % 2 = x(7) /\ (buffer \div 128) % 2 = x(8)
  <2>1. /\ x(1) \in 0 .. 1 /\ x(2) \in 0 .. 1 /\ x(3) \in 0 .. 1 /\ x(4) \in 0 .. 1
        /\ x(5) \in 0 .. 1 /\ x(6) \in 0 .. 1 /\ x(7) \in 0 .. 1 /\ x(8) \in 0 .. 1
    BY <1>1
  <2>2. PICK a \in 0 .. 1 : a = x(1)
    BY <2>1
  <2>3. PICK b \in 0 .. 1 : b = x(2)
    BY <2>1
  <2>4. PICK c \in 0 .. 1 : c = x(3)
    BY <2>1
  <2>5. PICK d \in 0 .. 1 : d = x(4)
    BY <2>1
  <2>6. PICK e \in 0 .. 1 : e = x(5)
    BY <2>1
  <2>7. PICK f \in 0 .. 1 : f = x(6)
    BY <2>1
  <2>8. PICK g \in 0 .. 1 : g = x(7)
    BY <2>1
  <2>9. PICK h \in 0 .. 1 : h = x(8)
    BY <2>1
  <2>10. PICK sum : sum = a + 2 * b + 4 * c + 8 * d + 16 * e + 32 * f + 64 * g + 128 * h
    OBVIOUS
  <2>11. sum = buffer
    BY <2>2, <2>3, <2>4, <2>5, <2>6, <2>7, <2>8, <2>9, <2>10
  <2>12. /\ sum \in 0 .. 255
         /\ (sum \div 1) % 2 = a /\ (sum \div 2) % 2 = b /\ (sum \div 4) % 2 = c
         /\ (sum \div 8) % 2 = d /\ (sum \div 16) % 2 = e /\ (sum \div 32) % 2 = f
         /\ (sum \div 64) % 2 = g /\ (sum \div 128) % 2 = h
    <3>1. /\ a \in 0 .. 1 /\ b \in 0 .. 1 /\ c \in 0 .. 1 /\ d \in 0 .. 1
          /\ e \in 0 .. 1 /\ f \in 0 .. 1 /\ g \in 0 .. 1 /\ h \in 0 .. 1
      BY <2>2, <2>3, <2>4, <2>5, <2>6, <2>7, <2>8, <2>9
    <3> QED BY <2>10, <3>1, SMT
  <2> HIDE DEF buffer
  <2> QED BY <2>2, <2>3, <2>4, <2>5, <2>6, <2>7, <2>8, <2>9, <2>11, <2>12
<1> HIDE DEF buffer
<1>9. ASSUME NEW i \in 1 .. 8
      PROVE  (buffer \div Power2[i]) % 2 = x(i)
  <2>1. CASE i = 1
    BY <1>5, <1>8, <2>1
  <2>2. CASE i = 2
    BY <1>5, <1>8, <2>2
  <2>3. CASE i = 3
    BY <1>5, <1>8, <2>3
  <2>4. CASE i = 4
    BY <1>5, <1>8, <2>4
  <2>5. CASE i = 5
    BY <1>5, <1>8, <2>5
  <2>6. CASE i = 6
    BY <1>5, <1>8, <2>6
  <2>7. CASE i = 7
    BY <1>5, <1>8, <2>7
  <2>8. CASE i = 8
    BY <1>5, <1>8, <2>8
  <2> QED BY <2>1, <2>2, <2>3, <2>4, <2>5, <2>6, <2>7, <2>8
<1>10. \A i \in 1 .. n : i \in 1 .. 8
  OBVIOUS
<1>11. \A i \in 1 .. n : (buffer \div Power2[i]) % 2 = 1 <=> v[i]
  BY <1>2, <1>9, <1>10, Zenon
<1> QED BY <1>7, <1>8, <1>11, Zenon

(* The flags in a bit buffer are read as they were set.                    *)
LEMMA BitsRead ==
  ASSUME NEW in \in Seq(Octet), NEW o \in Nat, NEW names \in Seq(STRING), Len(names) <= 8,
         NEW v \in [DOMAIN names -> BOOLEAN], Holds(in, o, <<BitBuffer(v)>>)
  PROVE  /\ <<BitBuffer(v)>> \in Seq(Octet)
         /\ Then(D_8(in, o), LAMBDA r :
              Read([i \in DOMAIN names |-> (r.value \div Power2[i]) % 2 = 1], r.offset))
            = Reading(in, o, <<BitBuffer(v)>>, v)
<1> DEFINE n == Len(names)
           b == BitBuffer(v)
           d == Then(D_8(in, o), LAMBDA r :
                  Read([i \in DOMAIN names |-> (r.value \div Power2[i]) % 2 = 1], r.offset))
<1>1. n \in 0 .. 8 /\ DOMAIN names = 1 .. n
  <2>1. n \in Nat /\ DOMAIN names = 1 .. n
    BY LenProperties
  <2>2. n <= 8
    OBVIOUS
  <2> HIDE DEF n
  <2> QED BY <2>1, <2>2
<1>2. v \in [1 .. n -> BOOLEAN]
  BY <1>1
<1>3. b \in 0 .. 255 /\ \A i \in 1 .. n : (b \div Power2[i]) % 2 = 1 <=> v[i]
  BY <1>1, <1>2, BitsOfBuffer
<1>4. [i \in DOMAIN names |-> (b \div Power2[i]) % 2 = 1] = v
  BY <1>1, <1>2, <1>3, Zenon
<1>5. D_8(in, o) = Reading(in, o, <<b>>, b)
  BY <1>3, OctetRead
<1>6. <<b>> \in Seq(Octet)
  BY <1>3 DEF Octet
<1> SUFFICES d = Reading(in, o, <<b>>, v)
  BY <1>6
<1> HIDE DEF n, b, d
<1>7. CASE o + Len(<<b>>) <= Len(in)
  <2>1. D_8(in, o) = Read(b, o + Len(<<b>>)) /\ Reading(in, o, <<b>>, v) = Read(v, o + Len(<<b>>))
    BY <1>5, <1>7, Zenon DEF Reading
  <2>2. D_8(in, o).ok /\ D_8(in, o).value = b /\ D_8(in, o).offset = o + Len(<<b>>)
    BY <2>1, ReadFacts
  <2>3. d = Read([i \in DOMAIN names |-> (b \div Power2[i]) % 2 = 1], o + Len(<<b>>))
    BY <2>2, Zenon DEF d, Then
  <2> QED BY <1>4, <2>1, <2>3, Zenon
<1>8. CASE ~(o + Len(<<b>>) <= Len(in))
  <2>1. D_8(in, o) = Failed /\ Reading(in, o, <<b>>, v) = Failed
    BY <1>5, <1>8, Zenon DEF Reading
  <2>2. ~D_8(in, o).ok
    BY <2>1, ReadFacts, Zenon
  <2>3. d = Failed
    BY <2>2, Zenon DEF d, Then
  <2> QED BY <2>1, <2>3, Zenon
<1> QED BY <1>7, <1>8, Zenon

(* A boolean is read as it was written.                                    *)
LEMMA BooleanRead ==
  ASSUME NEW in \in Seq(Octet), NEW o \in Nat, NEW v \in BOOLEAN,
         Holds(in, o, <<IF v THEN 1 ELSE 0>>)
  PROVE  /\ <<IF v THEN 1 ELSE 0>> \in Seq(Octet)
         /\ Then(D_8(in, o), LAMBDA r : Read(r.value # 0, r.offset))
            = Reading(in, o, <<IF v THEN 1 ELSE 0>>, v)
<1> DEFINE b == IF v THEN 1 ELSE 0
           d == Then(D_8(in, o), LAMBDA r : Read(r.value # 0, r.offset))
<1>1. b \in 0 .. 255 /\ (b # 0) = v
  OBVIOUS
<1>2. D_8(in, o) = Reading(in, o, <<b>>, b)
  BY <1>1, OctetRead
<1>3. <<b>> \in Seq(Octet)
  BY <1>1 DEF Octet
<1> SUFFICES d = Reading(in, o, <<b>>, v)
  BY <1>3
<1> HIDE DEF b, d
<1>4. CASE o + Len(<<b>>) <= Len(in)
  <2>1. D_8(in, o) = Read(b, o + Len(<<b>>)) /\ Reading(in, o, <<b>>, v) = Read(v, o + Len(<<b>>))
    BY <1>2, <1>4, Zenon DEF Reading
  <2>2. D_8(in, o).ok /\ D_8(in, o).value = b /\ D_8(in, o).offset = o + Len(<<b>>)
    BY <2>1, ReadFacts
  <2>3. d = Read(b # 0, o + Len(<<b>>))
    BY <2>2, Zenon DEF d, Then
  <2> QED BY <1>1, <2>1, <2>3, Zenon
<1>5. CASE ~(o + Len(<<b>>) <= Len(in))
  <2>1. D_8(in, o) = Failed /\ Reading(in, o, <<b>>, v) = Failed
    BY <1>2, <1>5, Zenon DEF Reading
  <2>2. ~D_8(in, o).ok
    BY <2>1, ReadFacts, Zenon
  <2>3. d = Failed
    BY <2>2, Zenon DEF d, Then
  <2> QED BY <2>1, <2>3, Zenon
<1> QED BY <1>4, <1>5, Zenon

(* The octets of a value are as many as its format says.                   *)
LEMMA ValueWritten ==
  ASSUME NEW format, NEW v, ValueOf(format, v)
  PROVE  /\ E_Value(format, v) \in Seq(Octet)
         /\ OctetsOf(format, v) = Len(E_Value(format, v)) + (IF Opens(format) THEN 4 ELSE 0)
         /\ OctetsOf(format, v) \in Nat
         /\ format.coding # "void" => OctetsOf(format, v) >= 1
<1>1. CASE format.coding \in {"number", "signed"}
  <2>1. format.size \in {1, 2, 4} /\ v \in Int
    BY <1>1 DEF ValueOf, Fits, FitsSigned
  <2>2. Octets(format.size, v) \in Seq(Octet) /\ Len(Octets(format.size, v)) = format.size
    BY <2>1, OctetsType
  <2>3. E_Value(format, v) = Octets(format.size, v) /\ OctetsOf(format, v) = format.size
    BY <1>1 DEF E_Value, OctetsOf
  <2>4. ~Opens(format) /\ format.size \in Nat /\ format.size >= 1
    BY <1>1, <2>1 DEF Opens
  <2> QED BY <2>2, <2>3, <2>4
<1>2. CASE format.coding = "halves"
  <2> DEFINE s == Octets(4, v.hi)
             t == Octets(4, v.lo)
  <2>1. v.hi \in Int /\ v.lo \in Int
    BY <1>2 DEF ValueOf
  <2>2. s \in Seq(Octet) /\ Len(s) = 4 /\ t \in Seq(Octet) /\ Len(t) = 4
    BY <2>1, OctetsType
  <2>3. E_Value(format, v) = s \o t /\ OctetsOf(format, v) = 8 /\ ~Opens(format)
    BY <1>2 DEF E_Value, E_64, OctetsOf, Opens
  <2> HIDE DEF s, t
  <2>4. s \o t \in Seq(Octet) /\ Len(s \o t) = Len(s) + Len(t)
    BY <2>2, OctetsConcat
  <2>5. Len(s \o t) = 8
    BY <2>2, <2>4
  <2> QED BY <2>3, <2>4, <2>5
<1>3. CASE format.coding = "boolean"
  <2> DEFINE n == IF v THEN 1 ELSE 0
  <2>1. <<n>> \in Seq(Octet) /\ Len(<<n>>) = 1
    BY DEF Octet
  <2>2. E_Value(format, v) = <<n>> /\ OctetsOf(format, v) = 1 /\ ~Opens(format)
    BY <1>3 DEF E_Value, OctetsOf, Opens
  <2> QED BY <2>1, <2>2
<1>4. CASE format.coding = "bits"
  <2>1. format.names \in Seq(STRING) /\ Len(format.names) <= 8 /\ v \in [DOMAIN format.names -> BOOLEAN]
    BY <1>4 DEF ValueOf
  <2>2. BitBuffer(v) \in 0 .. 255
    <3> DEFINE n == Len(format.names)
    <3>1. n \in Nat /\ DOMAIN format.names = 1 .. n
      BY <2>1, LenProperties
    <3>2. n <= 8 /\ v \in [1 .. n -> BOOLEAN]
      BY <2>1, <3>1
    <3> HIDE DEF n
    <3>3. n \in 0 .. 8
      BY <3>1, <3>2
    <3> QED BY <3>2, <3>3, BitsOfBuffer
  <2>3. <<BitBuffer(v)>> \in Seq(Octet) /\ Len(<<BitBuffer(v)>>) = 1
    BY <2>2 DEF Octet
  <2>4. E_Value(format, v) = <<BitBuffer(v)>> /\ OctetsOf(format, v) = 1 /\ ~Opens(format)
    BY <1>4 DEF E_Value, OctetsOf, Opens
  <2> QED BY <2>3, <2>4
<1>5. CASE format.coding = "decimal"
  <2> DEFINE s == Octets(1, v.decimals)
             t == Octets(4, v.value)
  <2>1. v.decimals \in Int /\ v.value \in Int
    BY <1>5 DEF ValueOf
  <2>2. s \in Seq(Octet) /\ Len(s) = 1 /\ t \in Seq(Octet) /\ Len(t) = 4
    BY <2>1, OctetsType
  <2>3. E_Value(format, v) = s \o t /\ OctetsOf(format, v) = 5 /\ ~Opens(format)
    BY <1>5 DEF E_Value, OctetsOf, Opens
  <2> HIDE DEF s, t
  <2>4. s \o t \in Seq(Octet) /\ Len(s \o t) = Len(s) + Len(t)
    BY <2>2, OctetsConcat
  <2>5. Len(s \o t) = 5
    BY <2>2, <2>4
  <2> QED BY <2>3, <2>4, <2>5
<1>6. CASE format.coding = "string"
  <2> DEFINE s == Octets(format.size, Len(v))
  <2>1. format.size \in {1, 4} /\ v \in Seq(Octet) /\ Len(v) \in Nat
    BY <1>6 DEF ValueOf
  <2>2. s \in Seq(Octet) /\ Len(s) = format.size
    <3>1. format.size \in {1, 2, 4} /\ Len(v) \in Int
      BY <2>1
    <3> QED BY <3>1, OctetsType
  <2>3. E_Value(format, v) = s \o v /\ OctetsOf(format, v) = format.size + Len(v) /\ ~Opens(format)
    BY <1>6 DEF E_Value, E_String, OctetsOf, Opens
  <2> HIDE DEF s
  <2>4. s \o v \in Seq(Octet) /\ Len(s \o v) = format.size + Len(v)
    BY <2>1, <2>2, ConcatProperties
  <2> QED BY <2>1, <2>3, <2>4
<1>7. CASE format.coding \in {"void", "array", "table"}
  <2>1. /\ E_Value(format, v) = <<>>
        /\ OctetsOf(format, v) = IF format.coding = "void" THEN 0 ELSE 4
        /\ Opens(format) <=> format.coding # "void"
    BY <1>7 DEF E_Value, OctetsOf, Opens
  <2>2. <<>> \in Seq(Octet) /\ Len(<<>>) = 0
    OBVIOUS
  <2> QED BY <2>1, <2>2
<1> QED BY <1>1, <1>2, <1>3, <1>4, <1>5, <1>6, <1>7 DEF ValueOf

(* What the decoder makes of the octets of a value.                        *)
LEMMA ValueRead ==
  ASSUME NEW in \in Seq(Octet), NEW o \in Nat, o <= Len(in), NEW format, NEW v,
         ValueOf(format, v), Holds(in, o, E_Value(format, v))
  PROVE  D_Value(in, o, format) = Reading(in, o, E_Value(format, v), v)
<1>1. CASE format.coding = "number"
  <2>1. format.size \in {1, 2, 4} /\ v \in Int /\ Fits(format.size, v)
    BY <1>1 DEF ValueOf, Fits
  <2>2. E_Value(format, v) = Octets(format.size, v)
    BY <1>1 DEF E_Value
  <2>3. D_Value(in, o, format) = D_Number(in, o, format.size)
    BY <1>1 DEF D_Value
  <2> QED BY <2>1, <2>2, <2>3, NumberRead
<1>2. CASE format.coding = "signed"
  <2>1. format.size \in {1, 2, 4} /\ v \in Int /\ FitsSigned(format.size, v)
    BY <1>2 DEF ValueOf, FitsSigned
  <2>2. E_Value(format, v) = Octets(format.size, v)
    BY <1>2 DEF E_Value
  <2>3. D_Value(in, o, format) = D_Signed(in, o, format.size)
    BY <1>2 DEF D_Value
  <2> QED BY <2>1, <2>2, <2>3, NumberRead
<1>3. CASE format.coding = "halves"
  <2>1. v \in [hi : Nat, lo : Nat] /\ Fits(4, v.hi) /\ Fits(4, v.lo)
    BY <1>3 DEF ValueOf
  <2>2. E_Value(format, v) = E_64(v)
    BY <1>3 DEF E_Value
  <2>3. D_Value(in, o, format) = D_64(in, o)
    BY <1>3 DEF D_Value
  <2> QED BY <2>1, <2>2, <2>3, HalvesRead
<1>4. CASE format.coding = "boolean"
  <2>1. v \in BOOLEAN
    BY <1>4 DEF ValueOf
  <2>2. E_Value(format, v) = <<IF v THEN 1 ELSE 0>>
    BY <1>4 DEF E_Value
  <2>3. D_Value(in, o, format) = Then(D_8(in, o), LAMBDA r : Read(r.value # 0, r.offset))
    BY <1>4 DEF D_Value
  <2> QED BY <2>1, <2>2, <2>3, BooleanRead
<1>5. CASE format.coding = "bits"
  <2>1. format.names \in Seq(STRING) /\ Len(format.names) <= 8 /\ v \in [DOMAIN format.names -> BOOLEAN]
    BY <1>5 DEF ValueOf
  <2>2. E_Value(format, v) = <<BitBuffer(v)>>
    BY <1>5 DEF E_Value
  <2>3. D_Value(in, o, format) =
          Then(D_8(in, o), LAMBDA r :
            Read([i \in DOMAIN format.names |-> (r.value \div Power2[i]) % 2 = 1], r.offset))
    BY <1>5 DEF D_Value
  <2> QED BY <2>1, <2>2, <2>3, BitsRead
<1>6. CASE format.coding = "decimal"
  <2>1. v \in [decimals : Nat, value : Nat] /\ Fits(1, v.decimals) /\ Fits(4, v.value)
    BY <1>6 DEF ValueOf
  <2>2. E_Value(format, v) = Octets(1, v.decimals) \o Octets(4, v.value)
    BY <1>6 DEF E_Value
  <2>3. D_Value(in, o, format) =
          Then(D_8(in, o), LAMBDA decimals :
            Then(D_32(in, decimals.offset), LAMBDA r :
              Read([decimals |-> decimals.value, value |-> r.value], r.offset)))
    BY <1>6 DEF D_Value
  <2> QED BY <2>1, <2>2, <2>3, DecimalRead
<1>7. CASE format.coding = "string"
  <2>1. format.size \in {1, 4} /\ v \in Seq(Octet) /\ Fits(format.size, Len(v))
    BY <1>7 DEF ValueOf
  <2>2. E_Value(format, v) = E_String(format.size, v)
    BY <1>7 DEF E_Value
  <2>3. D_Value(in, o, format) = D_String(in, o, format.size)
    BY <1>7 DEF D_Value
  <2> QED BY <2>1, <2>2, <2>3, StringRead
<1>8. CASE format.coding \in {"void", "array", "table"}
  <2>1. E_Value(format, v) = <<>> /\ D_Value(in, o, format) = Read(<<>>, o) /\ v = <<>>
    BY <1>8 DEF E_Value, D_Value, ValueOf
  <2>2. Len(<<>>) = 0 /\ o + 0 = o
    OBVIOUS
  <2> QED BY <2>1, <2>2 DEF Reading
<1> QED BY <1>1, <1>2, <1>3, <1>4, <1>5, <1>6, <1>7, <1>8 DEF ValueOf

-----------------------------------------------------------------------------
(* Where items begin and end.                                              *)

(* The fields of a struct, and the octets each of its items takes.         *)
Layout(s) == EncodedFields(s.form, s.flags)
Octs(s, i) == ItemOctets(Layout(s), s.items[i])
(* One cell for each octet of the first n items: their size counts these.  *)
Cells(s, n) == UNION {{i} \X (1 .. Octs(s, i)) : i \in 1 .. n}

(* Every item takes an octet at least.                                     *)
Sized(s) ==
  /\ Len(s.items) \in Nat
  /\ Start(s.form) \in Nat
  /\ \A i \in 1 .. Len(s.items) : Octs(s, i) \in Nat \ {0}

(* How many numbers there are up to k.                                     *)
LEMMA UpTo ==
  ASSUME NEW k \in Nat
  PROVE  IsFiniteSet(1 .. k) /\ Cardinality(1 .. k) = k
<1>1. IsFiniteSet(1 .. k) /\ Cardinality(1 .. k) = IF 1 > k THEN 0 ELSE k - 1 + 1
  BY FS_Interval, k \in Int
<1> QED BY <1>1

(* A size counts a finite set.                                             *)
LEMMA CellsFinite ==
  ASSUME NEW s, Sized(s), NEW n \in 0 .. Len(s.items)
  PROVE  IsFiniteSet(Cells(s, n))
<1> DEFINE cells(i) == {i} \X (1 .. Octs(s, i))
           f == [i \in 1 .. n |-> cells(i)]
           all == {cells(i) : i \in 1 .. n}
<1>1. n \in Nat /\ \A i \in 1 .. n : Octs(s, i) \in Nat
  BY DEF Sized
<1>2. IsFiniteSet(1 .. n)
  BY <1>1, UpTo
<1>3. ASSUME NEW i \in 1 .. n
      PROVE  IsFiniteSet(cells(i))
  BY <1>1, UpTo, FS_Singleton, FS_Product
<1>4. f \in Surjection(1 .. n, all)
  <2>1. f \in [1 .. n -> all]
    <3> HIDE DEF cells
    <3> QED BY Zenon
  <2>2. \A c \in all : \E i \in 1 .. n : f[i] = c
    <3> HIDE DEF cells
    <3> QED OBVIOUS
  <2> HIDE DEF f, all
  <2> QED BY <2>1, <2>2, Zenon DEF Surjection
<1>5. IsFiniteSet(all)
  BY <1>2, <1>4, FS_Surjection
<1>6. \A T \in all : IsFiniteSet(T)
  BY <1>3
<1>7. Cells(s, n) = UNION all
  BY DEF Cells
<1> HIDE DEF all
<1> QED BY <1>5, <1>6, <1>7, FS_UNION

(* An item ends as many octets after the one before as it takes.           *)
LEMMA SizeStep ==
  ASSUME NEW s, Sized(s)
  PROVE  /\ Size(s, 0) = Start(s.form)
         /\ \A n \in 0 .. Len(s.items) : Size(s, n) \in Nat
         /\ \A n \in 1 .. Len(s.items) : Size(s, n) = Size(s, n - 1) + Octs(s, n)
<1>1. \A n : Size(s, n) = Start(s.form) + Cardinality(Cells(s, n))
  BY DEF Size, Cells, Octs, Layout
<1>2. \A n \in 0 .. Len(s.items) : IsFiniteSet(Cells(s, n)) /\ Cardinality(Cells(s, n)) \in Nat
  BY CellsFinite, FS_CardinalityType
<1>3. Size(s, 0) = Start(s.form)
  <2>1. Cells(s, 0) = {}
    BY DEF Cells
  <2>2. Cardinality(Cells(s, 0)) = 0
    BY <2>1, FS_EmptySet
  <2> QED BY <1>1, <2>2 DEF Sized
<1>4. ASSUME NEW n \in 1 .. Len(s.items)
      PROVE  Size(s, n) = Size(s, n - 1) + Octs(s, n)
  <2> DEFINE a == Cells(s, n - 1)
             b == {n} \X (1 .. Octs(s, n))
  <2>1. n - 1 \in 0 .. Len(s.items) /\ n \in Int /\ Octs(s, n) \in Nat /\ n - 1 \in Int
    BY DEF Sized
  <2>2. Cells(s, n) = a \union b
    <3>1. \A i : i \in 1 .. n <=> i \in 1 .. n - 1 \/ i = n
      BY <2>1
    <3>2. \A c : c \in Cells(s, n) <=> \E i \in 1 .. n : c \in {i} \X (1 .. Octs(s, i))
      BY Zenon DEF Cells
    <3>3. \A c : c \in a <=> \E i \in 1 .. n - 1 : c \in {i} \X (1 .. Octs(s, i))
      BY Zenon DEF Cells
    <3> HIDE DEF a
    <3>4. \A c : c \in Cells(s, n) <=> c \in a \/ c \in b
      BY <3>1, <3>2, <3>3, Zenon
    <3> HIDE DEF b
    <3>5. Cells(s, n) \subseteq a \union b /\ a \union b \subseteq Cells(s, n)
      BY <3>4, Zenon
    <3> QED BY <3>5, Zenon
  <2>3. a \intersect b = {}
    <3>1. \A i \in 1 .. n - 1 : i # n
      BY <2>1
    <3> QED BY <3>1 DEF Cells
  <2>4. IsFiniteSet(a) /\ Cardinality(a) \in Nat
    BY <1>2, <2>1
  <2>5. IsFiniteSet(b) /\ Cardinality(b) = Octs(s, n)
    <3>1. IsFiniteSet(1 .. Octs(s, n)) /\ Cardinality(1 .. Octs(s, n)) = Octs(s, n)
      BY <2>1, UpTo
    <3>2. IsFiniteSet({n}) /\ Cardinality({n}) = 1
      BY FS_Singleton
    <3>3. IsFiniteSet(b) /\ Cardinality(b) = Cardinality({n}) * Cardinality(1 .. Octs(s, n))
      BY <3>1, <3>2, FS_Product
    <3> QED BY <2>1, <3>1, <3>2, <3>3
  <2>6. Cardinality(Cells(s, n)) = Cardinality(a) + Octs(s, n)
    <3>1. Cardinality(a \union b) = Cardinality(a) + Cardinality(b) - Cardinality(a \intersect b)
      BY <2>4, <2>5, FS_Union
    <3>2. Cardinality(a \intersect b) = 0
      BY <2>3, FS_EmptySet
    <3>3. PICK x : x = Cardinality(a)
      OBVIOUS
    <3> HIDE DEF a, b
    <3>4. Cardinality(a \union b) = x + Octs(s, n) - 0
      BY <2>5, <3>1, <3>2, <3>3, Zenon
    <3>5. x + Octs(s, n) - 0 = x + Octs(s, n)
      BY <2>1, <2>4, <3>3
    <3> QED BY <2>2, <3>3, <3>4, <3>5, Zenon
  <2> HIDE DEF a, b
  <2>7. Size(s, n - 1) = Start(s.form) + Cardinality(a)
    BY <1>1 DEF a
  <2> QED BY <1>1, <2>1, <2>4, <2>6, <2>7 DEF Sized
<1>5. \A n \in 0 .. Len(s.items) : Size(s, n) \in Nat
  BY <1>1, <1>2 DEF Sized
<1> QED BY <1>3, <1>4, <1>5

(* An item ends where the next one begins, or before.                      *)
LEMMA SizeOrder ==
  ASSUME NEW s, Sized(s), NEW m \in 0 .. Len(s.items), NEW n \in 0 .. Len(s.items)
  PROVE  /\ m <= n => Size(s, m) <= Size(s, n)
         /\ m < n => Size(s, m) < Size(s, n) /\ Size(s, m) + Octs(s, n) <= Size(s, n)
<1>1. \A k : Size(s, k) = Start(s.form) + Cardinality(Cells(s, k))
  BY DEF Size, Cells, Octs, Layout
<1>2. ASSUME NEW a \in 0 .. Len(s.items), NEW b \in 0 .. Len(s.items), a <= b
      PROVE  Size(s, a) <= Size(s, b)
  <2>1. Cells(s, a) \subseteq Cells(s, b)
    <3>1. \A i \in 1 .. a : i \in 1 .. b
      BY <1>2
    <3> QED BY <3>1, Zenon DEF Cells
  <2>2. IsFiniteSet(Cells(s, a)) /\ IsFiniteSet(Cells(s, b))
    BY CellsFinite
  <2>3. /\ Cardinality(Cells(s, a)) <= Cardinality(Cells(s, b))
        /\ Cardinality(Cells(s, a)) \in Nat /\ Cardinality(Cells(s, b)) \in Nat
    BY <2>1, <2>2, FS_Subset, FS_CardinalityType
  <2> QED BY <1>1, <2>3 DEF Sized
<1>3. ASSUME m < n
      PROVE  Size(s, m) < Size(s, n) /\ Size(s, m) + Octs(s, n) <= Size(s, n)
  <2>1. n \in 1 .. Len(s.items) /\ n - 1 \in 0 .. Len(s.items) /\ m <= n - 1
    BY <1>3 DEF Sized
  <2>2. Size(s, m) <= Size(s, n - 1)
    BY <1>2, <2>1
  <2>3. Size(s, n) = Size(s, n - 1) + Octs(s, n)
    BY <2>1, SizeStep
  <2>4. Size(s, m) \in Nat /\ Size(s, n - 1) \in Nat
    BY <2>1, SizeStep
  <2>5. Octs(s, n) \in Nat \ {0}
    BY <2>1 DEF Sized
  <2> QED BY <2>2, <2>3, <2>4, <2>5
<1> QED BY <1>2, <1>3

-----------------------------------------------------------------------------
(* The items of a legal struct, and their octets.                          *)

(* Format and depth of an item, and what the next may be an element of.    *)
FormatAt(s, i) == FormatIn(Layout(s), s.items[i])
Depth(s, i) == Len(s.items[i].within)
AroundAt(s, i) == Around(Layout(s), s.items[i])

(* The octets of an item, up to the size of an array or a table.           *)
LeadOf(item) ==
  (IF HasKey(item.within) THEN E_String(1, item.key) ELSE <<>>)
    \o (IF item.within = <<>> THEN <<>> ELSE <<item.kind>>)
HeadAt(s, i) == LeadOf(s.items[i]) \o E_Value(FormatAt(s, i), s.items[i].data)

(* Every kind fits in an octet, and none is 0.                             *)
LEMMA KindsAreOctets == Kinds \subseteq 1 .. 255
  BY DEF Kinds, KindOctet

(* What Legal says of a struct, conjunct by conjunct.                      *)
LEMMA LegalParts ==
  ASSUME NEW s, Legal(s)
  PROVE  /\ Fits(2, s.flags) /\ (s.form.what = "method" => s.flags = 0)
         /\ s.items \in Seq({s.items[i] : i \in DOMAIN s.items})
         /\ Len(s.items) \in Nat /\ DOMAIN s.items = 1 .. Len(s.items)
         /\ \A i \in 1 .. Len(s.items) :
              LegalItem(Layout(s), s.items[i]) /\ Follows(Layout(s), s.items, i)
         /\ Place(s.items) = Len(Layout(s))
         /\ FitsSigned(4, Total(s))
<1>1. /\ Fits(2, s.flags) /\ (s.form.what = "method" => s.flags = 0)
      /\ s.items \in Seq({s.items[i] : i \in DOMAIN s.items})
      /\ \A i \in DOMAIN s.items :
           LegalItem(Layout(s), s.items[i]) /\ Follows(Layout(s), s.items, i)
      /\ Place(s.items) = Len(Layout(s))
      /\ FitsSigned(4, Total(s))
  BY Zenon DEF Legal, Layout
<1>2. Len(s.items) \in Nat /\ DOMAIN s.items = 1 .. Len(s.items)
  BY <1>1, LenProperties, Zenon
<1> QED BY <1>1, <1>2, Zenon

(* What an item of a legal struct is made of.                              *)
LEMMA ItemFacts ==
  ASSUME NEW s, Legal(s), NEW i \in 1 .. Len(s.items)
  PROVE  LET item == s.items[i]
         IN /\ item = [place |-> item.place, names |-> item.names, within |-> item.within,
                       key |-> item.key, kind |-> item.kind, data |-> item.data]
            /\ item.place \in 1 .. Len(Layout(s)) /\ item.names = Layout(s)[item.place].names
            /\ item.within \in Seq({"array", "table"}) /\ Depth(s, i) \in Nat
            /\ item.key \in Seq(Octet)
            /\ item.within = <<>> => item.kind = 0 /\ ~HasKey(item.within)
            /\ item.within # <<>> => item.kind \in Kinds
            /\ HasKey(item.within) => Fits(1, Len(item.key))
            /\ ~HasKey(item.within) => item.key = <<>>
            /\ ValueOf(FormatAt(s, i), item.data)
            /\ FormatAt(s, i).coding = "void" => item.within # <<>>
<1> DEFINE item == s.items[i]
           fields == Layout(s)
<1>3. LegalItem(fields, item)
  BY LegalParts
<1> HIDE DEF item, fields
<1>4. item \in [place : 1 .. Len(fields), names : Seq(STRING),
                within : Seq({"array", "table"}), key : Seq(Octet),
                kind : Kinds \union {0}, data : {item.data}]
  BY <1>3, Zenon DEF LegalItem
<1>5. /\ item = [place |-> item.place, names |-> item.names, within |-> item.within,
                 key |-> item.key, kind |-> item.kind, data |-> item.data]
      /\ item.place \in 1 .. Len(fields)
      /\ item.within \in Seq({"array", "table"})
      /\ item.key \in Seq(Octet)
      /\ item.kind \in Kinds \union {0}
  BY <1>4
<1>6. /\ item.names = fields[item.place].names
      /\ item.within = <<>> <=> item.kind = 0
      /\ IF HasKey(item.within) THEN Fits(1, Len(item.key)) ELSE item.key = <<>>
      /\ ValueOf(FormatIn(fields, item), item.data)
      /\ FormatIn(fields, item).coding = "void" => item.within # <<>>
  BY <1>3, Zenon DEF LegalItem
<1>7. item.within = <<>> => ~HasKey(item.within)
  BY Zenon DEF HasKey
<1>8. item.within # <<>> => item.kind \in Kinds
  BY <1>5, <1>6, Zenon
<1>9. Len(item.within) \in Nat
  BY <1>5
<1>10. FormatIn(fields, item) = FormatAt(s, i) /\ Depth(s, i) = Len(item.within)
  BY Zenon DEF FormatAt, Depth, item, fields
<1> QED BY <1>5, <1>6, <1>7, <1>8, <1>9, <1>10, Zenon DEF item, fields

(* A key and a kind take the octets ItemOctets counts for them.            *)
LEMMA LeadFacts ==
  ASSUME NEW item, item.key \in Seq(Octet), Fits(1, Len(item.key)) \/ ~HasKey(item.within),
         item.within = <<>> => ~HasKey(item.within), item.within # <<>> => item.kind \in Kinds
  PROVE  /\ LeadOf(item) \in Seq(Octet)
         /\ Len(LeadOf(item)) = (IF HasKey(item.within) THEN 1 + Len(item.key) ELSE 0)
                                  + (IF item.within = <<>> THEN 0 ELSE 1)
<1> DEFINE a == IF HasKey(item.within) THEN E_String(1, item.key) ELSE <<>>
           b == IF item.within = <<>> THEN <<>> ELSE <<item.kind>>
<1>1. Len(item.key) \in Nat
  OBVIOUS
<1>2. a \in Seq(Octet) /\ Len(a) = IF HasKey(item.within) THEN 1 + Len(item.key) ELSE 0
  <2>1. CASE HasKey(item.within)
    <3> DEFINE c == Octets(1, Len(item.key))
    <3>1. c \in Seq(Octet) /\ Len(c) = 1
      <4>1. Len(item.key) \in Int /\ 1 \in {1, 2, 4}
        BY <1>1
      <4> QED BY <4>1, OctetsType
    <3>2. a = c \o item.key
      BY <2>1, Zenon DEF E_String
    <3> HIDE DEF a, c
    <3>3. c \o item.key \in Seq(Octet) /\ Len(c \o item.key) = Len(c) + Len(item.key)
      BY <3>1, OctetsConcat
    <3>4. Len(c) + Len(item.key) = 1 + Len(item.key)
      BY <3>1
    <3> QED BY <2>1, <3>2, <3>3, <3>4, Zenon
  <2>2. CASE ~HasKey(item.within)
    <3>1. a = <<>>
      BY <2>2
    <3> QED BY <2>2, <3>1
  <2> QED BY <2>1, <2>2
<1>3. b \in Seq(Octet) /\ Len(b) = IF item.within = <<>> THEN 0 ELSE 1
  <2>1. CASE item.within = <<>>
    <3>1. b = <<>>
      BY <2>1
    <3> QED BY <2>1, <3>1
  <2>2. CASE item.within # <<>>
    <3>1. b = <<item.kind>>
      BY <2>2
    <3>2. item.kind \in 1 .. 255
      BY <2>2, KindsAreOctets, Zenon
    <3>3. item.kind \in Octet
      BY <3>2 DEF Octet
    <3> HIDE DEF b
    <3> QED BY <2>2, <3>1, <3>3
  <2> QED BY <2>1, <2>2
<1>4. LeadOf(item) = a \o b
  BY Zenon DEF LeadOf
<1> HIDE DEF a, b
<1> QED BY <1>2, <1>3, <1>4, OctetsConcat

(* The octets of an item are as many as it should take.                    *)
LEMMA HeadFacts ==
  ASSUME NEW s, Legal(s), NEW i \in 1 .. Len(s.items)
  PROVE  /\ LeadOf(s.items[i]) \in Seq(Octet)
         /\ E_Value(FormatAt(s, i), s.items[i].data) \in Seq(Octet)
         /\ HeadAt(s, i) \in Seq(Octet)
         /\ Octs(s, i) = Len(HeadAt(s, i)) + (IF Opens(FormatAt(s, i)) THEN 4 ELSE 0)
         /\ Octs(s, i) \in Nat \ {0} /\ Len(HeadAt(s, i)) \in Nat
<1> DEFINE item == s.items[i]
           lead == LeadOf(item)
           v == E_Value(FormatAt(s, i), item.data)
           four == IF Opens(FormatAt(s, i)) THEN 4 ELSE 0
           extra == (IF HasKey(item.within) THEN 1 + Len(item.key) ELSE 0)
                      + (IF item.within = <<>> THEN 0 ELSE 1)
           octs == OctetsOf(FormatAt(s, i), item.data)
<1>1. /\ item.key \in Seq(Octet)
      /\ item.within = <<>> => ~HasKey(item.within)
      /\ item.within # <<>> => item.kind \in Kinds
      /\ Fits(1, Len(item.key)) \/ ~HasKey(item.within)
      /\ ValueOf(FormatAt(s, i), item.data)
      /\ FormatAt(s, i).coding = "void" => item.within # <<>>
  BY ItemFacts, Zenon
<1>2. lead \in Seq(Octet) /\ Len(lead) = extra
  <2> HIDE DEF item
  <2> QED BY <1>1, LeadFacts, Zenon
<1>3. v \in Seq(Octet) /\ octs = Len(v) + four /\ octs \in Nat
      /\ (FormatAt(s, i).coding # "void" => octs >= 1)
  BY <1>1, ValueWritten, Zenon
<1>4. HeadAt(s, i) = lead \o v
  BY Zenon DEF HeadAt
<1>5. Octs(s, i) = extra + octs
  BY Zenon DEF Octs, ItemOctets, FormatAt
<1>6. item.within # <<>> => extra >= 1
  BY <1>1
<1>7. extra \in Nat /\ four \in Nat
  <2>1. Len(item.key) \in Nat
    BY <1>1
  <2> DEFINE x == IF HasKey(item.within) THEN 1 + Len(item.key) ELSE 0
             y == IF item.within = <<>> THEN 0 ELSE 1
  <2>2. x \in Nat
    BY <2>1
  <2>3. y \in Nat /\ four \in Nat
    OBVIOUS
  <2> HIDE DEF x, y, four
  <2>4. x + y \in Nat
    BY <2>2, <2>3
  <2> QED BY <2>3, <2>4 DEF x, y
<1> HIDE DEF lead, v, four, extra, octs
<1>8. lead \o v \in Seq(Octet) /\ Len(lead \o v) = Len(lead) + Len(v) /\ Len(v) \in Nat
  BY <1>2, <1>3, OctetsConcat
<1>9. Octs(s, i) = Len(HeadAt(s, i)) + four /\ Octs(s, i) \in Nat /\ Len(HeadAt(s, i)) \in Nat
  BY <1>2, <1>3, <1>4, <1>5, <1>7, <1>8
<1>10. Octs(s, i) # 0
  <2>1. octs >= 1 \/ extra >= 1
    BY <1>1, <1>3, <1>6
  <2> QED BY <1>3, <1>5, <1>7, <2>1
<1> QED BY <1>2, <1>3, <1>4, <1>8, <1>9, <1>10 DEF lead, v, four

(* Every item of a legal struct takes an octet at least.                   *)
LEMMA LegalSized ==
  ASSUME NEW s, Legal(s)
  PROVE  /\ Sized(s) /\ Start(s.form) \in {0, 2} /\ Total(s) = Size(s, Len(s.items))
         /\ DOMAIN s.items = 1 .. Len(s.items)
<1>1. Len(s.items) \in Nat /\ DOMAIN s.items = 1 .. Len(s.items)
  BY LegalParts
<1>2. Start(s.form) \in {0, 2}
  BY DEF Start
<1> QED BY <1>1, <1>2, HeadFacts DEF Sized, Total

-----------------------------------------------------------------------------
(* The two sides of every method, and of every class of properties, list   *)
(* the same fields in the same order.                                      *)
LEMMA SameFields ==
  ASSUME NEW form, NEW word
  PROVE  EncodedFields(form, word) = DecodedFields(form, word)
<1>1. MethodEncoder = MethodDecoder
  <2>1. ConnectionEncoder = ConnectionDecoder
    BY Zenon DEF ConnectionEncoder, ConnectionDecoder
  <2>2. ChannelEncoder = ChannelDecoder
    BY Zenon DEF ChannelEncoder, ChannelDecoder
  <2>3. AccessEncoder = AccessDecoder
    BY Zenon DEF AccessEncoder, AccessDecoder
  <2>4. ExchangeEncoder = ExchangeDecoder
    BY Zenon DEF ExchangeEncoder, ExchangeDecoder
  <2>5. QueueEncoder = QueueDecoder
    BY Zenon DEF QueueEncoder, QueueDecoder
  <2>6. BasicEncoder = BasicDecoder
    BY Zenon DEF BasicEncoder, BasicDecoder
  <2>7. FileEncoder = FileDecoder
    BY Zenon DEF FileEncoder, FileDecoder
  <2>8. StreamEncoder = StreamDecoder
    BY Zenon DEF StreamEncoder, StreamDecoder
  <2>9. TxEncoder = TxDecoder
    BY Zenon DEF TxEncoder, TxDecoder
  <2>10. DtxEncoder = DtxDecoder
    BY Zenon DEF DtxEncoder, DtxDecoder
  <2>11. TunnelEncoder = TunnelDecoder
    BY Zenon DEF TunnelEncoder, TunnelDecoder
  <2>12. TestEncoder = TestDecoder
    BY Zenon DEF TestEncoder, TestDecoder
  <2> QED BY <2>1, <2>2, <2>3, <2>4, <2>5, <2>6, <2>7, <2>8, <2>9, <2>10, <2>11, <2>12, Zenon
          DEF MethodEncoder, MethodDecoder
<1>2. PropertiesEncoder = PropertiesDecoder
  <2>1. BasicPropertiesEncoder = BasicPropertiesDecoder
    BY Zenon DEF BasicPropertiesEncoder, BasicPropertiesDecoder
  <2>2. FilePropertiesEncoder = FilePropertiesDecoder
    BY Zenon DEF FilePropertiesEncoder, FilePropertiesDecoder
  <2>3. StreamPropertiesEncoder = StreamPropertiesDecoder
    BY Zenon DEF StreamPropertiesEncoder, StreamPropertiesDecoder
  <2>4. TunnelPropertiesEncoder = TunnelPropertiesDecoder
    BY Zenon DEF TunnelPropertiesEncoder, TunnelPropertiesDecoder
  <2> QED BY <2>1, <2>2, <2>3, <2>4, Zenon DEF PropertiesEncoder, PropertiesDecoder
<1> QED BY <1>1, <1>2, Zenon DEF EncodedFields, DecodedFields

-----------------------------------------------------------------------------
(* Octets stay where they are when more follow, or others change.          *)

(* What a buffer holds stays where it is when octets are added.            *)
LEMMA HoldsMore ==
  ASSUME NEW in \in Seq(Octet), NEW more \in Seq(Octet)
  PROVE  /\ in \o more \in Seq(Octet) /\ Len(in \o more) = Len(in) + Len(more)
         /\ \A o \in Nat, s \in Seq(Octet) :
              Holds(in, o, s) /\ o + Len(s) <= Len(in) => Holds(in \o more, o, s)
         /\ Holds(in \o more, Len(in), more)
<1>1. /\ in \o more \in Seq(Octet)
      /\ Len(in \o more) = Len(in) + Len(more)
      /\ \A i \in 1 .. Len(in) + Len(more) :
           (in \o more)[i] = IF i <= Len(in) THEN in[i] ELSE more[i - Len(in)]
  BY ConcatProperties
<1>2. Len(in) \in Nat /\ Len(more) \in Nat
  OBVIOUS
<1>3. ASSUME NEW o \in Nat, NEW s \in Seq(Octet), Holds(in, o, s), o + Len(s) <= Len(in),
             NEW i \in 1 .. Len(s)
      PROVE  (in \o more)[o + i] = s[i]
  <2>1. Len(s) \in Nat /\ i \in Nat
    OBVIOUS
  <2>2. o + i \in 1 .. Len(in) + Len(more) /\ o + i <= Len(in)
    BY <1>2, <1>3, <2>1
  <2>3. in[o + i] = s[i]
    BY <1>3, <2>2 DEF Holds
  <2> QED BY <1>1, <2>2, <2>3
<1>4. ASSUME NEW i \in 1 .. Len(more)
      PROVE  (in \o more)[Len(in) + i] = more[i]
  <2>1. Len(in) + i \in 1 .. Len(in) + Len(more) /\ ~(Len(in) + i <= Len(in))
        /\ (Len(in) + i) - Len(in) = i
    BY <1>2
  <2> QED BY <1>1, <2>1
<1> QED BY <1>1, <1>3, <1>4, Zenon DEF Holds

(* It stays there when only other octets change.                           *)
LEMMA HoldsKept ==
  ASSUME NEW in \in Seq(Octet), NEW new \in Seq(Octet), Len(new) = Len(in),
         NEW o \in Nat, NEW s \in Seq(Octet), Holds(in, o, s),
         \A i \in 1 .. Len(s) : o + i <= Len(in) => new[o + i] = in[o + i]
  PROVE  Holds(new, o, s)
  BY DEF Holds

(* The octets from at + 1 on are replaced.                                 *)
Patched(in, at, s) ==
  [i \in DOMAIN in |-> IF i \in at + 1 .. at + 4 THEN s[i - at] ELSE in[i]]

(* Four octets are replaced, and no other.                                 *)
LEMMA PatchedFacts ==
  ASSUME NEW in \in Seq(Octet), NEW at \in Nat, NEW s \in Seq(Octet), Len(s) = 4
  PROVE  /\ Patched(in, at, s) \in Seq(Octet) /\ Len(Patched(in, at, s)) = Len(in)
         /\ Holds(Patched(in, at, s), at, s)
         /\ \A i \in 1 .. Len(in) : i <= at \/ at + 4 < i => Patched(in, at, s)[i] = in[i]
<1> DEFINE p == Patched(in, at, s)
<1>1. DOMAIN in = 1 .. Len(in) /\ Len(in) \in Nat
  BY LenProperties
<1>2. ASSUME NEW i \in 1 .. Len(in)
      PROVE  /\ p[i] \in Octet
             /\ i \in at + 1 .. at + 4 => p[i] = s[i - at]
             /\ i \notin at + 1 .. at + 4 => p[i] = in[i]
  <2>1. p[i] = IF i \in at + 1 .. at + 4 THEN s[i - at] ELSE in[i]
    BY <1>1, Zenon DEF Patched
  <2>2. in[i] \in Octet
    OBVIOUS
  <2>3. ASSUME i \in at + 1 .. at + 4 PROVE s[i - at] \in Octet
    <3>1. i - at \in 1 .. Len(s)
      BY <2>3
    <3>2. \A k \in 1 .. Len(s) : s[k] \in Octet
      BY ElementOfSeq, Zenon
    <3> QED BY <3>1, <3>2, Zenon
  <2> HIDE DEF p
  <2> QED BY <2>1, <2>2, <2>3, Zenon
<1>3. p \in [1 .. Len(in) -> Octet]
  <2>1. p = [i \in 1 .. Len(in) |-> p[i]]
    BY <1>1, Zenon DEF Patched
  <2> HIDE DEF p
  <2> QED BY <1>2, <2>1, Zenon
<1>4. p \in Seq(Octet) /\ Len(p) = Len(in)
  <2> HIDE DEF p
  <2>1. p \in Seq(Octet)
    <3>1. Seq(Octet) = UNION {[1 .. n -> Octet] : n \in Nat}
      BY SeqDef
    <3> QED BY <1>1, <1>3, <3>1, Zenon
  <2> QED BY <1>1, <1>3, <2>1
<1> HIDE DEF p
<1>5. Holds(p, at, s)
  <2>1. \A i \in 1 .. 4 : at + i \in at + 1 .. at + 4 /\ (at + i) - at = i /\ at + i >= 1
    OBVIOUS
  <2>2. \A i \in 1 .. 4 : at + i <= Len(in) => at + i \in 1 .. Len(in)
    BY <1>1
  <2> QED BY <1>2, <1>4, <2>1, <2>2 DEF Holds
<1>6. \A i \in 1 .. Len(in) : i <= at \/ at + 4 < i => i \notin at + 1 .. at + 4
  BY <1>1
<1> QED BY <1>2, <1>4, <1>5, <1>6 DEF p

-----------------------------------------------------------------------------
(* What the encoder has written.                                           *)

(* Item i is an array or a table.                                          *)
Opener(s, i) == Opens(FormatAt(s, i))

(* The elements of an array or a table at a depth end with item e: all the *)
(* items after k up to e are as deep, and the next one is not.             *)
Ends(s, k, depth, e) ==
  /\ e \in k .. Len(s.items)
  /\ \A j \in k + 1 .. e : Depth(s, j) >= depth
  /\ e < Len(s.items) => Depth(s, e + 1) < depth

(* The octets of item i but for those of its size, and those.              *)
HoldsHead(s, in, i) == Holds(in, Size(s, i - 1), HeadAt(s, i))
(* The size in front of the elements is what the elements take.            *)
HoldsSize(s, in, i) ==
  \E e \in i .. Len(s.items) :
     /\ Ends(s, i, Depth(s, i) + 1, e)
     /\ Holds(in, Size(s, i) - 4, Octets(4, Size(s, e) - Size(s, i)))

(* What comes before the first member.                                     *)
FlagOctets(s) == IF s.form.what = "method" THEN <<>> ELSE Octets(2, s.flags)

(* The call of level l was made for item i, and is not over.               *)
OpenFor(s, w, op, l, i) ==
  /\ Opener(s, i)
  /\ Depth(s, i) + 1 = l
  /\ op[l] = Size(s, i) - 4
  /\ \A j \in i + 1 .. w : Depth(s, j) >= l

(* After w items, with the calls op active.                                *)
Encoding(s, max, in, w, op) ==
  /\ w \in 0 .. Len(s.items)
  /\ in \in Seq(Octet) /\ Len(in) = Size(s, w)
  /\ op \in Seq(Nat)
  /\ Holds(in, 0, FlagOctets(s))
  /\ \A i \in 1 .. w : HoldsHead(s, in, i)
  /\ \A i \in 1 .. w :
       Opener(s, i) => HoldsSize(s, in, i) \/ \E l \in DOMAIN op : op[l] = Size(s, i) - 4
  /\ \A l \in DOMAIN op : \E i \in 1 .. w : OpenFor(s, w, op, l, i)
  /\ w < Len(s.items) => Depth(s, w + 1) <= Len(op)
  /\ Len(in) <= max \/ (op # <<>> /\ Innermost(op) = Len(in) - 4)

(* All is written: every item and every size.                              *)
Encoded(s, in) ==
  /\ in \in Seq(Octet) /\ Len(in) = Total(s)
  /\ Holds(in, 0, FlagOctets(s))
  /\ \A i \in 1 .. Len(s.items) : HoldsHead(s, in, i)
  /\ \A i \in 1 .. Len(s.items) : Opener(s, i) => HoldsSize(s, in, i)

(* They are the two octets of the flag word, or none.                      *)
LEMMA FlagOctetsType ==
  ASSUME NEW s, Legal(s)
  PROVE  FlagOctets(s) \in Seq(Octet) /\ Len(FlagOctets(s)) = Start(s.form)
<1>1. CASE s.form.what = "method"
  <2>1. FlagOctets(s) = <<>> /\ Start(s.form) = 0
    BY <1>1 DEF FlagOctets, Start
  <2> QED BY <2>1
<1>2. CASE s.form.what # "method"
  <2>1. FlagOctets(s) = Octets(2, s.flags) /\ Start(s.form) = 2
    BY <1>2 DEF FlagOctets, Start
  <2>2. s.flags \in Int
    <3>1. Fits(2, s.flags)
      BY LegalParts, Zenon
    <3> QED BY <3>1 DEF Fits
  <2> QED BY <2>1, <2>2, OctetsType
<1> QED BY <1>1, <1>2

(* How deep the next item may be.                                          *)
LEMMA NextDepth ==
  ASSUME NEW s, Legal(s), NEW i \in 1 .. Len(s.items)
  PROVE  /\ Depth(s, i) \in Nat
         /\ i = 1 => Depth(s, i) = 0
         /\ i < Len(s.items) =>
              Depth(s, i + 1) <= Depth(s, i) + (IF Opener(s, i) THEN 1 ELSE 0)
<1>1. \A j \in 1 .. Len(s.items) : Depth(s, j) \in Nat /\ s.items[j].within \in Seq({"array", "table"})
  BY ItemFacts
<1>2. \A j \in 1 .. Len(s.items) :
        Depth(s, j) <= Len(IF j = 1 THEN <<>> ELSE AroundAt(s, j - 1))
  BY LegalParts, Zenon DEF Follows, Depth, AroundAt
<1>3. i = 1 => Depth(s, i) = 0
  <2>1. Len(<<>>) = 0
    OBVIOUS
  <2> QED BY <1>1, <1>2, <2>1
<1>4. ASSUME i < Len(s.items)
      PROVE  Depth(s, i + 1) <= Depth(s, i) + (IF Opener(s, i) THEN 1 ELSE 0)
  <2>1. i + 1 \in 1 .. Len(s.items) /\ i + 1 # 1 /\ (i + 1) - 1 = i
    BY <1>4
  <2>2. Depth(s, i + 1) <= Len(AroundAt(s, i))
    <3>1. Depth(s, i + 1) <= Len(IF i + 1 = 1 THEN <<>> ELSE AroundAt(s, (i + 1) - 1))
      BY <1>2, <2>1, Zenon
    <3> QED BY <2>1, <3>1, Zenon
  <2>3. Len(AroundAt(s, i)) = Depth(s, i) + (IF Opener(s, i) THEN 1 ELSE 0)
    <3>1. CASE Opener(s, i)
      <4>1. AroundAt(s, i) = Append(s.items[i].within, FormatAt(s, i).coding)
        BY <3>1, Zenon DEF AroundAt, Around, Opener, FormatAt
      <4>2. FormatAt(s, i).coding \in {"array", "table"}
        BY <3>1, Zenon DEF Opener, Opens
      <4>3. Len(AroundAt(s, i)) = Len(s.items[i].within) + 1
        BY <1>1, <4>1, <4>2, AppendProperties
      <4> QED BY <3>1, <4>3 DEF Depth
    <3>2. CASE ~Opener(s, i)
      <4>1. AroundAt(s, i) = s.items[i].within
        BY <3>2, Zenon DEF AroundAt, Around, Opener, FormatAt
      <4> QED BY <1>1, <3>2, <4>1 DEF Depth
    <3> QED BY <3>1, <3>2
  <2> QED BY <2>2, <2>3
<1> QED BY <1>1, <1>3, <1>4

(* The encoder starts out with the flags.                                  *)
LEMMA EncodingBegins ==
  ASSUME NEW s, Legal(s), NEW max \in Nat, Start(s.form) <= max
  PROVE  Encoding(s, max, FlagOctets(s), 0, <<>>)
<1> DEFINE in == FlagOctets(s)
<1>1. in \in Seq(Octet) /\ Len(in) = Start(s.form)
  BY FlagOctetsType
<1>2. Sized(s) /\ Len(s.items) \in Nat
  BY LegalSized, LegalParts
<1>3. Size(s, 0) = Start(s.form)
  BY <1>2, SizeStep
<1>4. \A i \in 1 .. Len(in) : in[0 + i] = in[i]
  BY <1>1
<1>5. Holds(in, 0, in)
  BY <1>4 DEF Holds
<1>6. 0 < Len(s.items) => Depth(s, 0 + 1) <= Len(<<>>)
  <2>1. ASSUME 0 < Len(s.items) PROVE Depth(s, 1) = 0
    <3>1. 1 \in 1 .. Len(s.items)
      BY <1>2, <2>1
    <3> QED BY <3>1, NextDepth
  <2> QED BY <2>1
<1>7. 0 \in 0 .. Len(s.items) /\ 1 .. 0 = {} /\ <<>> \in Seq(Nat) /\ DOMAIN <<>> = {}
  BY <1>2
<1>8. Len(in) <= max
  BY <1>1
<1> HIDE DEF in
<1> QED BY <1>1, <1>3, <1>5, <1>6, <1>7, <1>8, Zenon DEF Encoding, in

(* When no call is active any more, everything is written.                 *)
LEMMA EncodingEnds ==
  ASSUME NEW s, Legal(s), NEW max \in Nat, NEW in, Encoding(s, max, in, Len(s.items), <<>>)
  PROVE  Encoded(s, in) /\ Len(in) <= max
<1>1. DOMAIN <<>> = {}
  OBVIOUS
<1>2. Len(in) = Total(s)
  BY Zenon DEF Encoding, Total
<1> QED BY <1>1, <1>2, Zenon DEF Encoding, Encoded

(* The octets that are skipped for a size.                                 *)
Skipped(s, i) == IF Opener(s, i) THEN <<0, 0, 0, 0>> ELSE <<>>
(* The active calls when item i is written, its size at offset at.         *)
OpenAfter(s, op, i, at) == IF Opener(s, i) THEN Append(op, at) ELSE op

(* Only a size is skipped, and it has four octets.                         *)
LEMMA SkippedFacts ==
  ASSUME NEW s, NEW i
  PROVE  Skipped(s, i) \in Seq(Octet) /\ Len(Skipped(s, i)) = IF Opener(s, i) THEN 4 ELSE 0
<1>1. <<0, 0, 0, 0>> \in Seq(Octet) /\ Len(<<0, 0, 0, 0>>) = 4
  BY DEF Octet
<1>2. CASE Opener(s, i)
  <2>1. Skipped(s, i) = <<0, 0, 0, 0>>
    BY <1>2, Zenon DEF Skipped
  <2> QED BY <1>1, <1>2, <2>1
<1>3. CASE ~Opener(s, i)
  <2>1. Skipped(s, i) = <<>>
    BY <1>3, Zenon DEF Skipped
  <2> QED BY <1>3, <2>1
<1> QED BY <1>2, <1>3

(* Where the octets of an item lie.                                        *)
LEMMA HeadPlace ==
  ASSUME NEW s, Legal(s), NEW i \in 1 .. Len(s.items)
  PROVE  /\ Size(s, i - 1) \in Nat /\ Size(s, i) \in Nat
         /\ Len(HeadAt(s, i)) \in Nat /\ HeadAt(s, i) \in Seq(Octet)
         /\ Opener(s, i) => Size(s, i - 1) + Len(HeadAt(s, i)) = Size(s, i) - 4
         /\ ~Opener(s, i) => Size(s, i - 1) + Len(HeadAt(s, i)) = Size(s, i)
         /\ Size(s, i) <= Total(s) /\ Size(s, i - 1) < Size(s, i)
<1>1. Sized(s) /\ Total(s) = Size(s, Len(s.items)) /\ Len(s.items) \in Nat
  BY LegalSized, LegalParts
<1>2. i - 1 \in 0 .. Len(s.items) /\ i \in 0 .. Len(s.items) /\ Len(s.items) \in 0 .. Len(s.items)
      /\ i - 1 < i /\ i <= Len(s.items)
  BY <1>1
<1>3. Size(s, i - 1) \in Nat /\ Size(s, i) \in Nat /\ Size(s, i) = Size(s, i - 1) + Octs(s, i)
  BY <1>1, <1>2, SizeStep
<1>4. /\ Octs(s, i) = Len(HeadAt(s, i)) + (IF Opener(s, i) THEN 4 ELSE 0)
      /\ Len(HeadAt(s, i)) \in Nat /\ HeadAt(s, i) \in Seq(Octet)
  BY HeadFacts, Zenon DEF Opener
<1>5. Size(s, i) <= Total(s) /\ Size(s, i - 1) < Size(s, i)
  BY <1>1, <1>2, SizeOrder
<1>6. CASE Opener(s, i)
  BY <1>3, <1>4, <1>5, <1>6
<1>7. CASE ~Opener(s, i)
  BY <1>3, <1>4, <1>5, <1>7
<1> QED BY <1>6, <1>7

(* Only an item that is an opener has a size, and it has four octets.      *)
LEMMA SizePlace ==
  ASSUME NEW s, Legal(s), NEW i \in 1 .. Len(s.items), NEW e \in i .. Len(s.items)
  PROVE  /\ Size(s, e) - Size(s, i) \in Nat
         /\ Octets(4, Size(s, e) - Size(s, i)) \in Seq(Octet)
         /\ Len(Octets(4, Size(s, e) - Size(s, i))) = 4
<1>1. Sized(s) /\ Len(s.items) \in Nat
  BY LegalSized, LegalParts
<1>2. i \in 0 .. Len(s.items) /\ e \in 0 .. Len(s.items) /\ i <= e
  BY <1>1
<1>3. Size(s, i) \in Nat /\ Size(s, e) \in Nat /\ Size(s, i) <= Size(s, e)
  BY <1>1, <1>2, SizeStep, SizeOrder
<1>4. Size(s, e) - Size(s, i) \in Nat
  BY <1>3
<1> QED BY <1>4, OctetsType

(* Writing the next item keeps what was written, and adds it.              *)
LEMMA EncodingWrites ==
  ASSUME NEW s, Legal(s), NEW max \in Nat, NEW in, NEW w, NEW op,
         Encoding(s, max, in, w, op), w < Len(s.items), Depth(s, w + 1) = Len(op),
         Len(in) + Len(HeadAt(s, w + 1)) <= max
  PROVE  Encoding(s, max, in \o HeadAt(s, w + 1) \o Skipped(s, w + 1), w + 1,
                  OpenAfter(s, op, w + 1, Len(in) + Len(HeadAt(s, w + 1))))
<1> DEFINE n == w + 1
           head == HeadAt(s, n)
           skip == Skipped(s, n)
           at == Len(in) + Len(head)
           mid == in \o head
           new == mid \o skip
           op2 == OpenAfter(s, op, n, at)
<1>1. /\ w \in Nat /\ n \in 1 .. Len(s.items) /\ n - 1 = w /\ w \in 0 .. Len(s.items)
      /\ \A i \in 1 .. n : i \in 1 .. w \/ i = n
      /\ \A i \in 1 .. w : i \in 1 .. Len(s.items) /\ i < n
      /\ Len(s.items) \in Nat
  <2>1. w \in 0 .. Len(s.items) /\ Len(s.items) \in Nat
    BY LegalParts, Zenon DEF Encoding
  <2> QED BY <2>1
<1>2. in \in Seq(Octet) /\ Len(in) = Size(s, w) /\ op \in Seq(Nat) /\ Len(in) \in Nat /\ Len(op) \in Nat
  <2>1. in \in Seq(Octet) /\ Len(in) = Size(s, w) /\ op \in Seq(Nat)
    BY Zenon DEF Encoding
  <2> QED BY <2>1
<1>3. /\ head \in Seq(Octet) /\ Len(head) \in Nat
      /\ Opener(s, n) => at = Size(s, n) - 4
      /\ ~Opener(s, n) => at = Size(s, n)
      /\ Size(s, n) \in Nat /\ at \in Nat
  <2>1. /\ head \in Seq(Octet) /\ Len(head) \in Nat /\ Size(s, n) \in Nat
        /\ Opener(s, n) => Size(s, w) + Len(head) = Size(s, n) - 4
        /\ ~Opener(s, n) => Size(s, w) + Len(head) = Size(s, n)
    BY <1>1, HeadPlace
  <2> QED BY <1>2, <2>1
<1>4. skip \in Seq(Octet) /\ Len(skip) = IF Opener(s, n) THEN 4 ELSE 0
  <2> HIDE DEF n
  <2> QED BY SkippedFacts
<1> HIDE DEF n, head, skip
<1>5. /\ mid \in Seq(Octet) /\ Len(mid) = at
      /\ \A o \in Nat, t \in Seq(Octet) : Holds(in, o, t) /\ o + Len(t) <= Len(in) => Holds(mid, o, t)
      /\ Holds(mid, Len(in), head)
  BY <1>2, <1>3, HoldsMore, Zenon
<1>6. /\ new \in Seq(Octet) /\ Len(new) = at + Len(skip)
      /\ \A o \in Nat, t \in Seq(Octet) : Holds(mid, o, t) /\ o + Len(t) <= at => Holds(new, o, t)
  <2> HIDE DEF mid, at
  <2> QED BY <1>4, <1>5, HoldsMore, Zenon
<1>7. \A o \in Nat, t \in Seq(Octet) : Holds(in, o, t) /\ o + Len(t) <= Len(in) => Holds(new, o, t)
  <2>1. \A o \in Nat, t \in Seq(Octet) : o + Len(t) <= Len(in) => o + Len(t) <= at
    BY <1>2, <1>3
  <2> QED BY <1>5, <1>6, <2>1, Zenon
<1>8. Holds(new, Size(s, n - 1), head)
  <2>1. Len(in) \in Nat /\ Len(in) + Len(head) <= at
    BY <1>2, <1>3
  <2>2. Holds(new, Len(in), head)
    BY <1>3, <1>5, <1>6, <2>1, Zenon
  <2> QED BY <1>1, <1>2, <2>2, Zenon DEF n
<1>9. Len(new) = Size(s, n)
  BY <1>3, <1>4, <1>6
<1> HIDE DEF mid, new, at
<1>10. Holds(new, 0, FlagOctets(s))
  <2>1. FlagOctets(s) \in Seq(Octet) /\ 0 + Len(FlagOctets(s)) <= Len(in)
    <3>1. FlagOctets(s) \in Seq(Octet) /\ Len(FlagOctets(s)) = Size(s, 0) /\ Size(s, 0) \in Nat
      <4>1. 0 \in 0 .. Len(s.items)
        BY <1>1
      <4> QED BY <4>1, FlagOctetsType, LegalSized, SizeStep
    <3>2. Size(s, 0) <= Size(s, w)
      <4>1. 0 \in 0 .. Len(s.items) /\ 0 <= w
        BY <1>1
      <4> QED BY <1>1, <4>1, LegalSized, SizeOrder
    <3> QED BY <1>2, <3>1, <3>2
  <2> QED BY <1>7, <2>1, Zenon DEF Encoding
<1>11. ASSUME NEW i \in 1 .. n PROVE HoldsHead(s, new, i)
  <2>1. CASE i = n
    BY <1>8, <2>1, Zenon DEF HoldsHead, head
  <2>2. CASE i # n
    <3>1. i \in 1 .. w /\ i \in 1 .. Len(s.items)
      BY <1>1, <2>2, Zenon
    <3>2. Holds(in, Size(s, i - 1), HeadAt(s, i))
      BY <3>1, Zenon DEF Encoding, HoldsHead
    <3>3. Size(s, i - 1) \in Nat /\ HeadAt(s, i) \in Seq(Octet) /\ Size(s, i - 1) + Len(HeadAt(s, i)) <= Len(in)
      <4>1. /\ Size(s, i - 1) \in Nat /\ HeadAt(s, i) \in Seq(Octet) /\ Size(s, i) \in Nat
            /\ Size(s, i - 1) + Len(HeadAt(s, i)) <= Size(s, i)
        BY <3>1, HeadPlace
      <4>2. Size(s, i) <= Size(s, w)
        <5>1. i \in 0 .. Len(s.items) /\ i <= w
          BY <1>1, <3>1
        <5> QED BY <1>1, <5>1, LegalSized, SizeOrder
      <4>3. Len(HeadAt(s, i)) \in Nat
        BY <4>1
      <4> QED BY <1>2, <4>1, <4>2, <4>3
    <3> QED BY <1>7, <3>2, <3>3, Zenon DEF HoldsHead
  <2> QED BY <2>1, <2>2
<1>12. /\ op2 \in Seq(Nat)
       /\ \A l \in DOMAIN op : l \in DOMAIN op2 /\ op2[l] = op[l] /\ l \in 1 .. Len(op)
       /\ Opener(s, n) => /\ Len(op) + 1 \in DOMAIN op2 /\ op2[Len(op) + 1] = at
                          /\ Len(op2) = Len(op) + 1 /\ op2 # <<>> /\ Innermost(op2) = at
       /\ ~Opener(s, n) => op2 = op
       /\ \A l \in DOMAIN op2 : l \in DOMAIN op \/ (Opener(s, n) /\ l = Len(op) + 1)
  <2>1. CASE Opener(s, n)
    <3>1. op2 = Append(op, at)
      BY <2>1, Zenon DEF OpenAfter
    <3> HIDE DEF op2
    <3>2. /\ op2 \in Seq(Nat) /\ Len(op2) = Len(op) + 1 /\ op2[Len(op) + 1] = at
          /\ \A l \in 1 .. Len(op) : op2[l] = op[l]
          /\ DOMAIN op2 = 1 .. Len(op) + 1 /\ DOMAIN op = 1 .. Len(op)
      BY <1>2, <1>3, <3>1, AppendProperties
    <3>3. op2 # <<>>
      BY <1>2, <3>2
    <3> QED BY <1>2, <2>1, <3>2, <3>3 DEF Innermost
  <2>2. CASE ~Opener(s, n)
    <3>1. op2 = op
      BY <2>2, Zenon DEF OpenAfter
    <3>2. DOMAIN op = 1 .. Len(op)
      BY <1>2
    <3> QED BY <1>2, <2>2, <3>1, <3>2
  <2> QED BY <2>1, <2>2
<1> HIDE DEF op2
<1>13. ASSUME NEW i \in 1 .. n, Opener(s, i)
       PROVE  HoldsSize(s, new, i) \/ \E l \in DOMAIN op2 : op2[l] = Size(s, i) - 4
  <2>1. CASE i = n
    BY <1>3, <1>12, <1>13, <2>1
  <2>2. CASE i # n
    <3>1. i \in 1 .. w /\ i \in 1 .. Len(s.items)
      BY <1>1, <2>2, Zenon
    <3>2. HoldsSize(s, in, i) \/ \E l \in DOMAIN op : op[l] = Size(s, i) - 4
      BY <1>13, <3>1, Zenon DEF Encoding
    <3>3. ASSUME HoldsSize(s, in, i) PROVE HoldsSize(s, new, i)
      <4>1. PICK e \in i .. Len(s.items) :
              /\ Ends(s, i, Depth(s, i) + 1, e)
              /\ Holds(in, Size(s, i) - 4, Octets(4, Size(s, e) - Size(s, i)))
        BY <3>3, Zenon DEF HoldsSize
      <4>2. /\ Octets(4, Size(s, e) - Size(s, i)) \in Seq(Octet)
            /\ Len(Octets(4, Size(s, e) - Size(s, i))) = 4
        BY <3>1, SizePlace
      <4>3. Size(s, i) - 4 \in Nat /\ (Size(s, i) - 4) + 4 <= Len(in)
        <5>1. /\ Size(s, i - 1) \in Nat /\ Size(s, i) \in Nat /\ Len(HeadAt(s, i)) \in Nat
              /\ Size(s, i - 1) + Len(HeadAt(s, i)) = Size(s, i) - 4
          BY <1>13, <3>1, HeadPlace
        <5>2. Size(s, i) <= Size(s, w)
          <6>1. i \in 0 .. Len(s.items) /\ i <= w
            BY <1>1, <3>1
          <6> QED BY <1>1, <6>1, LegalSized, SizeOrder
        <5> QED BY <1>2, <5>1, <5>2
      <4>4. Holds(new, Size(s, i) - 4, Octets(4, Size(s, e) - Size(s, i)))
        BY <1>7, <4>1, <4>2, <4>3, Zenon
      <4> QED BY <4>1, <4>4, Zenon DEF HoldsSize
    <3> QED BY <1>12, <3>2, <3>3, Zenon
  <2> QED BY <2>1, <2>2
<1>14. ASSUME NEW l \in DOMAIN op2 PROVE \E i \in 1 .. n : OpenFor(s, n, op2, l, i)
  <2>1. CASE l \in DOMAIN op
    <3>1. PICK i \in 1 .. w : OpenFor(s, w, op, l, i)
      BY <2>1, Zenon DEF Encoding
    <3>2. op2[l] = op[l] /\ l \in 1 .. Len(op)
      BY <1>12, <2>1, Zenon
    <3>3. i \in 1 .. n /\ \A j \in i + 1 .. n : j \in i + 1 .. w \/ j = n
      BY <1>1
    <3>4. Depth(s, n) >= l
      BY <1>2, <3>2 DEF n
    <3>5. OpenFor(s, n, op2, l, i)
      BY <3>1, <3>2, <3>3, <3>4, Zenon DEF OpenFor
    <3> QED BY <3>3, <3>5, Zenon
  <2>2. CASE l \notin DOMAIN op
    <3>1. Opener(s, n) /\ l = Len(op) + 1 /\ op2[l] = at
      BY <1>12, <2>2, Zenon
    <3>2. n \in 1 .. n /\ n + 1 .. n = {}
      BY <1>1
    <3>3. Depth(s, n) + 1 = l
      BY <3>1, Zenon DEF n
    <3>4. OpenFor(s, n, op2, l, n)
      BY <1>3, <3>1, <3>2, <3>3, Zenon DEF OpenFor
    <3> QED BY <3>2, <3>4, Zenon
  <2> QED BY <2>1, <2>2
<1>15. n < Len(s.items) => Depth(s, n + 1) <= Len(op2)
  <2>1. n < Len(s.items) => Depth(s, n + 1) <= Len(op) + (IF Opener(s, n) THEN 1 ELSE 0)
    <3>1. Depth(s, n) = Len(op)
      BY Zenon DEF n
    <3> QED BY <1>1, <3>1, NextDepth
  <2> QED BY <1>2, <1>12, <2>1
<1>16. Len(new) <= max \/ (op2 # <<>> /\ Innermost(op2) = Len(new) - 4)
  <2>1. CASE Opener(s, n)
    BY <1>3, <1>9, <1>12, <2>1
  <2>2. CASE ~Opener(s, n)
    <3>1. Len(new) = at /\ at <= max
      BY <1>3, <1>9, <2>2 DEF at, n, head
    <3> QED BY <3>1
  <2> QED BY <2>1, <2>2
<1>17. n \in 0 .. Len(s.items) /\ new \in Seq(Octet)
  BY <1>1, <1>6 DEF new
<1> QED
  <2>1. Encoding(s, max, new, n, op2)
    BY <1>9, <1>10, <1>11, <1>12, <1>13, <1>14, <1>15, <1>16, <1>17, Zenon DEF Encoding
  <2> QED BY <2>1 DEF new, mid, n, head, skip, op2, at

(* Writing the size of the innermost call keeps all but its place.         *)
LEMMA EncodingCloses ==
  ASSUME NEW s, Legal(s), NEW max \in Nat, NEW in, NEW w, NEW op,
         Encoding(s, max, in, w, op), op # <<>>,
         w < Len(s.items) => Depth(s, w + 1) < Len(op),
         NEW at, at = Innermost(op)
  PROVE  /\ at + 4 <= Total(s) /\ at \in Nat
         /\ at + 4 <= max =>
              Encoding(s, max, Patched(in, at, Octets(4, Len(in) - at - 4)), w,
                       SubSeq(op, 1, Len(op) - 1))
<1> DEFINE L == Len(op)
           op2 == SubSeq(op, 1, L - 1)
           octs == Octets(4, Len(in) - at - 4)
           new == Patched(in, at, octs)
<1>1. /\ w \in 0 .. Len(s.items) /\ Len(s.items) \in Nat
      /\ in \in Seq(Octet) /\ Len(in) = Size(s, w) /\ op \in Seq(Nat)
  BY LegalParts, Zenon DEF Encoding
<1>2. /\ L \in Nat \ {0} /\ DOMAIN op = 1 .. L /\ L \in DOMAIN op /\ at = op[L]
      /\ op2 \in Seq(Nat) /\ Len(op2) = L - 1 /\ DOMAIN op2 = 1 .. L - 1
      /\ \A l \in 1 .. L - 1 : op2[l] = op[l]
  <2>1. L \in Nat \ {0} /\ DOMAIN op = 1 .. L /\ L \in DOMAIN op
    BY <1>1
  <2>2. op2 \in Seq(Nat) /\ Len(op2) = L - 1 /\ DOMAIN op2 = 1 .. L - 1
    BY <1>1, <2>1
  <2>3. \A l \in 1 .. L - 1 : op2[l] = op[l]
    BY <1>1, <2>1
  <2> QED BY <2>1, <2>2, <2>3 DEF Innermost
<1> HIDE DEF L, op2
<1>3. PICK o \in 1 .. w : OpenFor(s, w, op, L, o)
  BY <1>2, Zenon DEF Encoding
<1>4. /\ o \in 1 .. Len(s.items) /\ w \in o .. Len(s.items) /\ Opener(s, o) /\ Depth(s, o) + 1 = L
      /\ at = Size(s, o) - 4
  <2>1. o \in 1 .. Len(s.items) /\ w \in o .. Len(s.items)
    BY <1>1
  <2> QED BY <1>2, <1>3, <2>1, Zenon DEF OpenFor
<1>5. /\ Size(s, o - 1) \in Nat /\ Size(s, o) \in Nat /\ Len(HeadAt(s, o)) \in Nat
      /\ Size(s, o - 1) + Len(HeadAt(s, o)) = Size(s, o) - 4 /\ Size(s, o) <= Total(s)
  BY <1>4, HeadPlace
<1>6. at \in Nat /\ at + 4 = Size(s, o) /\ at + 4 <= Total(s)
  BY <1>4, <1>5
<1>7. SUFFICES ASSUME at + 4 <= max
               PROVE  Encoding(s, max, new, w, op2)
  BY <1>6 DEF L, op2
<1>8. Size(s, o) <= Size(s, w) /\ Size(s, w) \in Nat
  <2>1. o \in 0 .. Len(s.items) /\ w \in 0 .. Len(s.items) /\ o <= w
    BY <1>1, <1>4
  <2> QED BY <2>1, LegalSized, SizeOrder, SizeStep
<1>9. octs = Octets(4, Size(s, w) - Size(s, o)) /\ octs \in Seq(Octet) /\ Len(octs) = 4
  <2>1. Len(in) - at - 4 = Size(s, w) - Size(s, o)
    BY <1>1, <1>4, <1>5, <1>8
  <2> QED BY <1>4, <2>1, SizePlace
<1> HIDE DEF octs
<1>10. /\ new \in Seq(Octet) /\ Len(new) = Len(in) /\ Holds(new, at, octs)
       /\ \A i \in 1 .. Len(in) : i <= at \/ at + 4 < i => new[i] = in[i]
  BY <1>1, <1>6, <1>9, PatchedFacts
<1> HIDE DEF new
(* What lies before the size, or after it, is as it was.                   *)
<1>11. ASSUME NEW p \in Nat, NEW t \in Seq(Octet), Holds(in, p, t),
              p + Len(t) <= at \/ Size(s, o) <= p
       PROVE  Holds(new, p, t)
  <2>1. ASSUME NEW i \in 1 .. Len(t), p + i <= Len(in) PROVE new[p + i] = in[p + i]
    <3>1. Len(t) \in Nat /\ Len(in) \in Nat
      BY <1>1
    <3>2. p + i \in 1 .. Len(in) /\ (p + i <= at \/ at + 4 < p + i)
      BY <1>6, <1>11, <2>1, <3>1
    <3> QED BY <1>10, <3>2
  <2> QED BY <1>1, <1>10, <1>11, <2>1, HoldsKept
<1>12. ASSUME NEW i \in 1 .. w, i # o
       PROVE  /\ i \in 1 .. Len(s.items) /\ Size(s, i - 1) \in Nat /\ Size(s, i) \in Nat
              /\ i < o => Size(s, i) <= at
              /\ o < i => Size(s, o) <= Size(s, i - 1)
              /\ i < o \/ o < i
              /\ Size(s, i) # Size(s, o)
  <2>1. i \in 1 .. Len(s.items) /\ (i < o \/ o < i)
    BY <1>1, <1>12
  <2>2. Size(s, i - 1) \in Nat /\ Size(s, i) \in Nat /\ Size(s, i - 1) < Size(s, i)
    BY <2>1, HeadPlace
  <2>3. CASE i < o
    <3>1. i \in 0 .. Len(s.items) /\ o - 1 \in 0 .. Len(s.items) /\ i <= o - 1
      BY <1>1, <1>4, <2>1, <2>3
    <3>2. Size(s, i) <= Size(s, o - 1)
      BY <3>1, LegalSized, SizeOrder
    <3>3. Size(s, i) <= at /\ Size(s, i) < Size(s, o)
      BY <1>4, <1>5, <2>2, <3>2
    <3> QED BY <2>1, <2>2, <2>3, <3>3
  <2>4. CASE o < i
    <3>1. o \in 0 .. Len(s.items) /\ i - 1 \in 0 .. Len(s.items) /\ o <= i - 1
      BY <1>1, <1>4, <2>1, <2>4
    <3>2. Size(s, o) <= Size(s, i - 1)
      BY <3>1, LegalSized, SizeOrder
    <3> QED BY <1>5, <2>1, <2>2, <2>4, <3>2
  <2> QED BY <2>1, <2>3, <2>4
<1>13. Holds(new, 0, FlagOctets(s))
  <2>1. FlagOctets(s) \in Seq(Octet) /\ 0 + Len(FlagOctets(s)) <= at
    <3>1. /\ FlagOctets(s) \in Seq(Octet) /\ Len(FlagOctets(s)) = Size(s, 0) /\ Size(s, 0) \in Nat
          /\ Size(s, 0) <= Size(s, o - 1)
      <4>1. 0 \in 0 .. Len(s.items) /\ o - 1 \in 0 .. Len(s.items) /\ 0 <= o - 1
        BY <1>1, <1>4
      <4> QED BY <4>1, FlagOctetsType, LegalSized, SizeStep, SizeOrder
    <3> QED BY <1>4, <1>5, <3>1
  <2>2. Holds(in, 0, FlagOctets(s))
    BY Zenon DEF Encoding
  <2> QED BY <1>11, <2>1, <2>2
<1>14. ASSUME NEW i \in 1 .. w PROVE HoldsHead(s, new, i)
  <2>1. Holds(in, Size(s, i - 1), HeadAt(s, i))
    BY Zenon DEF Encoding, HoldsHead
  <2>2. i \in 1 .. Len(s.items)
    BY <1>1
  <2>3. /\ Size(s, i - 1) \in Nat /\ HeadAt(s, i) \in Seq(Octet) /\ Len(HeadAt(s, i)) \in Nat
        /\ Size(s, i - 1) + Len(HeadAt(s, i)) <= Size(s, i) /\ Size(s, i) \in Nat
    BY <2>2, HeadPlace
  <2>4. Size(s, i - 1) + Len(HeadAt(s, i)) <= at \/ Size(s, o) <= Size(s, i - 1)
    <3>1. CASE i = o
      BY <1>4, <1>5, <3>1
    <3>2. CASE i # o
      BY <1>6, <1>12, <2>3, <3>2
    <3> QED BY <3>1, <3>2
  <2>5. Holds(new, Size(s, i - 1), HeadAt(s, i))
    BY <1>11, <2>1, <2>3, <2>4
  <2> QED BY <2>5, Zenon DEF HoldsHead
<1>15. ASSUME NEW i \in 1 .. w, Opener(s, i)
       PROVE  HoldsSize(s, new, i) \/ \E l \in DOMAIN op2 : op2[l] = Size(s, i) - 4
  <2>1. CASE i = o
    <3>1. Ends(s, o, Depth(s, o) + 1, w)
      BY <1>3, <1>4, Zenon DEF Ends, OpenFor, L
    <3>2. Holds(new, Size(s, o) - 4, Octets(4, Size(s, w) - Size(s, o)))
      BY <1>4, <1>9, <1>10
    <3> QED BY <1>4, <2>1, <3>1, <3>2, Zenon DEF HoldsSize
  <2>2. CASE i # o
    <3>1. /\ i \in 1 .. Len(s.items) /\ Size(s, i - 1) \in Nat /\ Size(s, i) \in Nat
          /\ i < o => Size(s, i) <= at
          /\ o < i => Size(s, o) <= Size(s, i - 1)
          /\ i < o \/ o < i
          /\ Size(s, i) # Size(s, o)
      BY <1>12, <2>2
    <3>2. Size(s, i - 1) <= Size(s, i) - 4 /\ Size(s, i) - 4 \in Nat
      <4>1. Len(HeadAt(s, i)) \in Nat /\ Size(s, i - 1) + Len(HeadAt(s, i)) = Size(s, i) - 4
        BY <1>15, <3>1, HeadPlace
      <4> QED BY <3>1, <4>1
    <3>3. HoldsSize(s, in, i) \/ \E l \in DOMAIN op : op[l] = Size(s, i) - 4
      BY <1>15, Zenon DEF Encoding
    <3>4. ASSUME HoldsSize(s, in, i) PROVE HoldsSize(s, new, i)
      <4>1. PICK e \in i .. Len(s.items) :
              /\ Ends(s, i, Depth(s, i) + 1, e)
              /\ Holds(in, Size(s, i) - 4, Octets(4, Size(s, e) - Size(s, i)))
        BY <3>4, Zenon DEF HoldsSize
      <4>2. /\ Octets(4, Size(s, e) - Size(s, i)) \in Seq(Octet)
            /\ Len(Octets(4, Size(s, e) - Size(s, i))) = 4
        BY <3>1, SizePlace
      <4>3. (Size(s, i) - 4) + 4 <= at \/ Size(s, o) <= Size(s, i) - 4
        <5>1. CASE i < o
          <6>1. Size(s, i) <= at /\ (Size(s, i) - 4) + 4 = Size(s, i)
            BY <3>1, <5>1
          <6> QED BY <6>1
        <5>2. CASE o < i
          <6>1. Size(s, o) <= Size(s, i - 1) /\ Size(s, i - 1) \in Nat
            BY <3>1, <5>2
          <6> QED BY <1>5, <3>2, <6>1
        <5> QED BY <3>1, <5>1, <5>2
      <4>4. Holds(new, Size(s, i) - 4, Octets(4, Size(s, e) - Size(s, i)))
        BY <1>11, <3>2, <4>1, <4>2, <4>3
      <4> QED BY <4>1, <4>4, Zenon DEF HoldsSize
    <3>5. ASSUME NEW l \in DOMAIN op, op[l] = Size(s, i) - 4
          PROVE  \E m \in DOMAIN op2 : op2[m] = Size(s, i) - 4
      <4>1. l # L
        <5>1. ASSUME l = L PROVE Size(s, i) - 4 = Size(s, o) - 4
          BY <1>2, <1>4, <3>5, <5>1, Zenon
        <5>2. Size(s, i) - 4 # Size(s, o) - 4
          BY <1>5, <3>1
        <5> QED BY <5>1, <5>2, Zenon
      <4>2. l \in 1 .. L - 1
        BY <1>2, <4>1
      <4> QED BY <1>2, <3>5, <4>2, Zenon
    <3> QED BY <3>3, <3>4, <3>5, Zenon
  <2> QED BY <2>1, <2>2
<1>16. ASSUME NEW l \in DOMAIN op2 PROVE \E i \in 1 .. w : OpenFor(s, w, op2, l, i)
  <2>1. l \in 1 .. L - 1 /\ l \in DOMAIN op
    BY <1>2
  <2>2. PICK i \in 1 .. w : OpenFor(s, w, op, l, i)
    BY <2>1, Zenon DEF Encoding
  <2>3. OpenFor(s, w, op2, l, i)
    BY <1>2, <2>1, <2>2, Zenon DEF OpenFor
  <2> QED BY <2>3, Zenon
<1>17. w < Len(s.items) => Depth(s, w + 1) <= Len(op2)
  <2>1. ASSUME w < Len(s.items) PROVE Depth(s, w + 1) <= L - 1
    <3>1. w + 1 \in 1 .. Len(s.items)
      BY <1>1, <2>1
    <3>2. Depth(s, w + 1) \in Nat /\ Depth(s, w + 1) < L
      BY <2>1, <3>1, NextDepth DEF L
    <3> QED BY <1>2, <3>2
  <2> QED BY <1>2, <2>1
<1>18. Len(new) <= max
  <2>1. Len(in) <= max \/ Innermost(op) = Len(in) - 4
    BY Zenon DEF Encoding
  <2>2. Len(in) \in Nat
    BY <1>1
  <2> QED BY <1>6, <1>7, <1>10, <2>1, <2>2
<1> QED
  <2>1. Len(new) = Size(s, w)
    BY <1>1, <1>10
  <2> QED BY <1>1, <1>2, <1>10, <1>13, <1>14, <1>15, <1>16, <1>17, <1>18, <2>1, Zenon DEF Encoding

-----------------------------------------------------------------------------
(* What the decoder has read.                                              *)

(* The place of the field that the first k items have come to.             *)
PlaceAt(s, k) == IF k = 0 THEN 0 ELSE s.items[k].place

(* A payload with the octets of a struct, or the first of them.            *)
Payload(s, in) ==
  /\ in \in Seq(Octet) /\ Len(in) <= Total(s)
  /\ Holds(in, 0, FlagOctets(s))
  /\ \A i \in 1 .. Len(s.items) : HoldsHead(s, in, i)
  /\ \A i \in 1 .. Len(s.items) : Opener(s, i) => HoldsSize(s, in, i)

(* After k items, with the calls ins active.                               *)
Decoding(s, in, k, off, dec, ins) ==
  /\ k \in 0 .. Len(s.items)
  /\ dec = SubSeq(s.items, 1, k)
  /\ off = Size(s, k) /\ off <= Len(in)
  /\ ins \in Seq([coding : {"array", "table"}, limit : Nat])
  /\ \A l \in DOMAIN ins : \E e \in k .. Len(s.items) :
       Ends(s, k, l, e) /\ ins[l].limit = Size(s, e)
  /\ \A l \in DOMAIN ins :
       k >= 1 /\ l \in 1 .. Len(AroundAt(s, k)) /\ ins[l].coding = AroundAt(s, k)[l]
  /\ k < Len(s.items) => Depth(s, k + 1) <= Len(ins)

(* What Follows says of an item and the one before it.                     *)
LEMMA FollowsFacts ==
  ASSUME NEW s, Legal(s), NEW i \in 1 .. Len(s.items)
  PROVE  /\ s.items[i].within = <<>> => s.items[i].place = PlaceAt(s, i - 1) + 1
         /\ s.items[i].within # <<>> => i # 1 /\ s.items[i].place = PlaceAt(s, i - 1)
         /\ \A l \in DOMAIN s.items[i].within :
              i # 1 /\ s.items[i].within[l] = AroundAt(s, i - 1)[l]
<1> DEFINE within == s.items[i].within
<1>1. Follows(Layout(s), s.items, i)
  BY LegalParts, Zenon
<1>2. within \in Seq({"array", "table"})
  BY ItemFacts, Zenon
<1>3. i # 1 => i - 1 # 0
  OBVIOUS
<1>4. i = 1 => i - 1 = 0
  OBVIOUS
<1>5. CASE i = 1
  <2>1. Len(within) <= Len(<<>>)
    BY <1>1, <1>5, Zenon DEF Follows
  <2>2. within = <<>>
    BY <1>2, <2>1
  <2>3. s.items[i].place = 0 + 1
    BY <1>1, <1>5, <2>2, Zenon DEF Follows
  <2>4. DOMAIN within = {}
    BY <2>2
  <2> HIDE DEF within
  <2>5. s.items[i].place = PlaceAt(s, i - 1) + 1
    BY <1>4, <1>5, <2>3, Zenon DEF PlaceAt
  <2> QED BY <2>2, <2>4, <2>5, Zenon DEF within
<1>6. CASE i # 1
  <2>1. /\ \A l \in DOMAIN within : within[l] = AroundAt(s, i - 1)[l]
        /\ s.items[i].place = IF within = <<>> THEN s.items[i - 1].place + 1 ELSE s.items[i - 1].place
    BY <1>1, <1>6, Zenon DEF Follows, AroundAt
  <2>2. PlaceAt(s, i - 1) = s.items[i - 1].place
    BY <1>3, <1>6, Zenon DEF PlaceAt
  <2> QED BY <1>6, <2>1, <2>2, Zenon
<1> QED BY <1>5, <1>6

(* What the decoder has read is a prefix of the items.                     *)
LEMMA Prefix ==
  ASSUME NEW s, Legal(s), NEW k \in 0 .. Len(s.items)
  PROVE  /\ Len(SubSeq(s.items, 1, k)) = k
         /\ Place(SubSeq(s.items, 1, k)) = PlaceAt(s, k)
         /\ k < Len(s.items) =>
              Append(SubSeq(s.items, 1, k), s.items[k + 1]) = SubSeq(s.items, 1, k + 1)
         /\ k = Len(s.items) => SubSeq(s.items, 1, k) = s.items
<1> DEFINE S == {s.items[i] : i \in DOMAIN s.items}
           t == s.items
           p == SubSeq(t, 1, k)
<1>1. t \in Seq(S) /\ k \in 0 .. Len(t) /\ Len(t) \in Nat
  BY LegalParts
<1> HIDE DEF S
<1>2. SUFFICES /\ Len(p) = k
               /\ Place(p) = IF k = 0 THEN 0 ELSE t[k].place
               /\ k < Len(t) => Append(p, t[k + 1]) = SubSeq(t, 1, k + 1)
               /\ k = Len(t) => p = t
  BY Zenon DEF PlaceAt
<1> HIDE DEF t
<1>3. p \in Seq(S) /\ Len(p) = k /\ \A i \in 1 .. k : p[i] = t[i]
  BY <1>1
<1> HIDE DEF p
<1>4. Place(p) = IF k = 0 THEN 0 ELSE t[k].place
  <2>1. CASE k = 0
    BY <1>3, <2>1 DEF Place
  <2>2. CASE k # 0
    <3>1. p # <<>> /\ p[Len(p)] = t[k]
      BY <1>1, <1>3, <2>2
    <3> QED BY <2>2, <3>1, Zenon DEF Place
  <2> QED BY <2>1, <2>2
<1>5. ASSUME k < Len(t) PROVE Append(p, t[k + 1]) = SubSeq(t, 1, k + 1)
  <2> DEFINE a == Append(p, t[k + 1])
             b == SubSeq(t, 1, k + 1)
  <2>1. t[k + 1] \in S /\ k + 1 \in 1 .. Len(t)
    BY <1>1, <1>5
  <2>2. /\ a \in Seq(S) /\ Len(a) = k + 1 /\ a[k + 1] = t[k + 1]
        /\ \A i \in 1 .. k : a[i] = t[i]
    BY <1>3, <2>1, AppendProperties
  <2>3. b \in Seq(S) /\ Len(b) = k + 1 /\ \A i \in 1 .. k + 1 : b[i] = t[i]
    BY <1>1, <2>1
  <2>4. \A i \in 1 .. k + 1 : i \in 1 .. k \/ i = k + 1
    BY <1>1
  <2> HIDE DEF a, b
  <2>5. \A i \in 1 .. Len(a) : a[i] = b[i]
    BY <2>2, <2>3, <2>4, Zenon
  <2>6. a = b
    BY <2>2, <2>3, <2>5, SeqEqual
  <2> QED BY <2>6 DEF a, b
<1>6. k = Len(t) => p = t
  BY <1>1, <1>3, SeqEqual
<1> QED BY <1>3, <1>4, <1>5, <1>6

(* The next item, and where it belongs.                                    *)
LEMMA NextMember ==
  ASSUME NEW s, Legal(s), NEW in, NEW k, NEW off, NEW dec,
         Decoding(s, in, k, off, dec, <<>>), Place(dec) + 1 <= Len(Layout(s))
  PROVE  /\ k < Len(s.items) /\ s.items[k + 1].within = <<>> /\ Depth(s, k + 1) = 0
         /\ s.items[k + 1].place = Place(dec) + 1
<1>1. k \in 0 .. Len(s.items) /\ Len(s.items) \in Nat /\ Place(dec) = PlaceAt(s, k)
  BY LegalParts, Prefix, Zenon DEF Decoding
<1>2. k # Len(s.items)
  <2>1. ASSUME k = Len(s.items) PROVE FALSE
    <3>1. Place(dec) = Len(Layout(s))
      BY <1>1, <2>1, LegalParts, Prefix, Zenon DEF Decoding
    <3>2. Place(dec) \in Int
      <4>1. CASE k = 0
        BY <1>1, <4>1 DEF PlaceAt
      <4>2. CASE k # 0
        <5>1. k \in 1 .. Len(s.items)
          BY <1>1, <4>2
        <5>2. s.items[k].place \in 1 .. Len(Layout(s))
          BY <5>1, ItemFacts, Zenon
        <5> QED BY <1>1, <4>2, <5>2 DEF PlaceAt
      <4> QED BY <4>1, <4>2
    <3> QED BY <3>1, <3>2
  <2> QED BY <2>1
<1>3. k + 1 \in 1 .. Len(s.items) /\ (k + 1) - 1 = k /\ k < Len(s.items)
  BY <1>1, <1>2
<1>4. Depth(s, k + 1) = 0
  <2>1. Depth(s, k + 1) <= Len(<<>>) /\ Depth(s, k + 1) \in Nat
    BY <1>3, NextDepth, Zenon DEF Decoding
  <2> QED BY <2>1
<1>5. s.items[k + 1].within = <<>>
  <2>1. s.items[k + 1].within \in Seq({"array", "table"})
    BY <1>3, ItemFacts, Zenon
  <2> QED BY <1>4, <2>1 DEF Depth
<1>6. s.items[k + 1].place = PlaceAt(s, (k + 1) - 1) + 1
  BY <1>3, <1>5, FollowsFacts, Zenon
<1> QED BY <1>1, <1>3, <1>4, <1>5, <1>6, Zenon

(* Before its limit, the innermost call finds an element of its own.       *)
LEMMA NextElement ==
  ASSUME NEW s, Legal(s), NEW in, NEW k, NEW off, NEW dec, NEW ins,
         Decoding(s, in, k, off, dec, ins), ins # <<>>, off < Innermost(ins).limit
  PROVE  /\ k < Len(s.items) /\ Depth(s, k + 1) = Len(ins) /\ s.items[k + 1].within # <<>>
         /\ s.items[k + 1].within = [l \in DOMAIN ins |-> ins[l].coding]
         /\ s.items[k + 1].place = Place(dec)
<1> DEFINE L == Len(ins)
<1>1. k \in 0 .. Len(s.items) /\ Len(s.items) \in Nat /\ Place(dec) = PlaceAt(s, k)
  BY LegalParts, Prefix, Zenon DEF Decoding
<1>2. L \in Nat \ {0} /\ L \in DOMAIN ins /\ DOMAIN ins = 1 .. L
  <2>1. ins \in Seq([coding : {"array", "table"}, limit : Nat])
    BY Zenon DEF Decoding
  <2> QED BY <2>1
<1>3. PICK e \in k .. Len(s.items) : Ends(s, k, L, e) /\ ins[L].limit = Size(s, e)
  BY <1>2, Zenon DEF Decoding
<1>4. k # e
  <2>1. ASSUME k = e PROVE Size(s, k) < Size(s, k)
    BY <1>3, <2>1, Zenon DEF Decoding, Innermost
  <2>2. Size(s, k) \in Nat
    BY <1>1, LegalSized, SizeStep
  <2> QED BY <2>1, <2>2
<1>5. /\ k + 1 \in k + 1 .. e /\ k + 1 \in 1 .. Len(s.items) /\ (k + 1) - 1 = k
      /\ k < Len(s.items)
  BY <1>1, <1>3, <1>4
<1>6. Depth(s, k + 1) = L
  <2>1. Depth(s, k + 1) >= L
    BY <1>3, <1>5, Zenon DEF Ends
  <2>2. Depth(s, k + 1) <= L /\ Depth(s, k + 1) \in Nat
    BY <1>5, NextDepth, Zenon DEF Decoding
  <2> QED BY <1>2, <2>1, <2>2
<1> DEFINE within == s.items[k + 1].within
<1>7. within \in Seq({"array", "table"}) /\ DOMAIN within = 1 .. L /\ within # <<>>
  <2>1. within \in Seq({"array", "table"}) /\ Len(within) = L
    BY <1>5, <1>6, ItemFacts, Zenon DEF Depth
  <2> QED BY <1>2, <2>1
<1>8. \A l \in 1 .. L : within[l] = ins[l].coding
  <2>1. \A l \in DOMAIN within : within[l] = AroundAt(s, (k + 1) - 1)[l]
    <3>1. PICK i \in 1 .. Len(s.items) : i = k + 1
      BY <1>5, Zenon
    <3>2. \A l \in DOMAIN s.items[i].within : s.items[i].within[l] = AroundAt(s, i - 1)[l]
      BY FollowsFacts
    <3> QED BY <3>1, <3>2, Zenon
  <2>2. \A l \in DOMAIN ins : ins[l].coding = AroundAt(s, k)[l]
    BY Zenon DEF Decoding
  <2> QED BY <1>2, <1>5, <1>7, <2>1, <2>2, Zenon
<1>9. s.items[k + 1].place = PlaceAt(s, (k + 1) - 1)
  BY <1>5, <1>7, FollowsFacts, Zenon
<1>10. within = [l \in DOMAIN ins |-> ins[l].coding]
  <2>1. within = [l \in 1 .. L |-> within[l]]
    <3> HIDE DEF within
    <3> QED BY <1>7
  <2> HIDE DEF within
  <2> QED BY <1>2, <1>8, <2>1, Zenon
<1> QED BY <1>1, <1>5, <1>6, <1>7, <1>9, <1>10, Zenon

(* At its limit, the innermost call has read all its elements.             *)
LEMMA DecodingCloses ==
  ASSUME NEW s, Legal(s), NEW in, NEW k, NEW off, NEW dec, NEW ins,
         Decoding(s, in, k, off, dec, ins), ins # <<>>, off >= Innermost(ins).limit
  PROVE  Decoding(s, in, k, off, dec, SubSeq(ins, 1, Len(ins) - 1))
<1> DEFINE L == Len(ins)
           ins2 == SubSeq(ins, 1, L - 1)
           C == [coding : {"array", "table"}, limit : Nat]
<1>1. k \in 0 .. Len(s.items) /\ Len(s.items) \in Nat
  BY LegalParts, Zenon DEF Decoding
<1>2. /\ L \in Nat \ {0} /\ L \in DOMAIN ins /\ DOMAIN ins = 1 .. L
      /\ ins2 \in Seq(C) /\ Len(ins2) = L - 1 /\ DOMAIN ins2 = 1 .. L - 1
      /\ \A l \in DOMAIN ins2 : ins2[l] = ins[l] /\ l \in DOMAIN ins
  <2>1. ins \in Seq(C)
    BY Zenon DEF Decoding
  <2> HIDE DEF C
  <2>2. L \in Nat \ {0} /\ L \in DOMAIN ins /\ DOMAIN ins = 1 .. L
    BY <2>1
  <2>3. ins2 \in Seq(C) /\ Len(ins2) = L - 1 /\ DOMAIN ins2 = 1 .. L - 1
    BY <2>1, <2>2
  <2>4. \A l \in 1 .. L - 1 : ins2[l] = ins[l] /\ l \in 1 .. L
    BY <2>1, <2>2
  <2> QED BY <2>2, <2>3, <2>4
<1> HIDE DEF ins2, C
<1>3. PICK e \in k .. Len(s.items) : Ends(s, k, L, e) /\ ins[L].limit = Size(s, e)
  BY <1>2, Zenon DEF Decoding
<1>4. k = e
  <2>1. Size(s, k) >= Size(s, e)
    BY <1>3, Zenon DEF Decoding, Innermost
  <2>2. k \in 0 .. Len(s.items) /\ e \in 0 .. Len(s.items) /\ (k < e \/ k = e)
    BY <1>1, <1>3
  <2>3. Size(s, k) \in Nat /\ Size(s, e) \in Nat /\ (k < e => Size(s, k) < Size(s, e))
    BY <2>2, LegalSized, SizeStep, SizeOrder
  <2> QED BY <2>1, <2>2, <2>3
<1>5. k < Len(s.items) => Depth(s, k + 1) <= Len(ins2)
  <2>1. ASSUME k < Len(s.items) PROVE Depth(s, k + 1) <= L - 1
    <3>1. k + 1 \in 1 .. Len(s.items)
      BY <1>1, <2>1
    <3>2. Depth(s, k + 1) \in Nat /\ Depth(s, k + 1) < L
      BY <1>3, <1>4, <2>1, <3>1, NextDepth DEF Ends
    <3> QED BY <1>2, <3>2
  <2> QED BY <1>2, <2>1
<1>6. Decoding(s, in, k, off, dec, ins2)
  BY <1>2, <1>5, Zenon DEF Decoding, C
<1> QED BY <1>6 DEF ins2

(* When no call is active and the last member is read, all is.             *)
LEMMA DecodingEnds ==
  ASSUME NEW s, Legal(s), NEW in, NEW k, NEW off, NEW dec,
         Decoding(s, in, k, off, dec, <<>>), Place(dec) = Len(Layout(s))
  PROVE  dec = s.items /\ off = Total(s) /\ Total(s) <= Len(in)
<1>1. k \in 0 .. Len(s.items) /\ Len(s.items) \in Nat /\ Place(dec) = PlaceAt(s, k)
  BY LegalParts, Prefix, Zenon DEF Decoding
<1>2. k = Len(s.items)
  <2>1. ASSUME k # Len(s.items) PROVE FALSE
    <3>1. PICK i \in 1 .. Len(s.items) : i = k + 1 /\ i - 1 = k /\ k < Len(s.items)
      BY <1>1, <2>1
    <3>2. Depth(s, i) <= Len(<<>>) /\ Depth(s, i) \in Nat
      BY <3>1, NextDepth, Zenon DEF Decoding
    <3>3. s.items[i].within = <<>>
      <4>1. s.items[i].within \in Seq({"array", "table"})
        BY ItemFacts, Zenon
      <4> QED BY <3>2, <4>1 DEF Depth
    <3>4. s.items[i].place = PlaceAt(s, i - 1) + 1 /\ s.items[i].place \in 1 .. Len(Layout(s))
      BY <3>3, FollowsFacts, ItemFacts, Zenon
    <3>5. PlaceAt(s, k) = Len(Layout(s)) /\ PlaceAt(s, k) \in Int
      <4>1. CASE k = 0
        BY <1>1, <4>1 DEF PlaceAt
      <4>2. CASE k # 0
        <5>1. k \in 1 .. Len(s.items)
          BY <1>1, <4>2
        <5>2. s.items[k].place \in 1 .. Len(Layout(s))
          BY <5>1, ItemFacts, Zenon
        <5> QED BY <1>1, <4>2, <5>2 DEF PlaceAt
      <4> QED BY <4>1, <4>2
    <3> QED BY <3>1, <3>4, <3>5
  <2> QED BY <2>1
<1> QED BY <1>1, <1>2, LegalSized, Prefix, Zenon DEF Decoding

(* Nothing in front of octets is nothing.                                  *)
LEMMA EmptyFirst ==
  ASSUME NEW s \in Seq(Octet)
  PROVE  <<>> \o s = s
  OBVIOUS

(* What the decoder makes of a member.                                     *)
MemberRead(in, o, format, place) ==
  Then(D_Value(in, o, format), LAMBDA r :
    Read([place |-> place, names |-> format.names, within |-> <<>>,
          key |-> <<>>, kind |-> 0, data |-> r.value], r.offset))

(* A member is read as it was written, unless the payload ends in it.      *)
LEMMA MemberIsRead ==
  ASSUME NEW s, Legal(s), NEW i \in 1 .. Len(s.items), s.items[i].within = <<>>,
         NEW in \in Seq(Octet), NEW o \in Nat, o <= Len(in), Holds(in, o, HeadAt(s, i)),
         NEW format, format = Layout(s)[s.items[i].place]
  PROVE  /\ format = FormatAt(s, i)
         /\ MemberRead(in, o, format, s.items[i].place) = Reading(in, o, HeadAt(s, i), s.items[i])
<1> DEFINE item == s.items[i]
           v == E_Value(format, item.data)
           d == Then(D_Value(in, o, format), LAMBDA r :
                  Read([place |-> item.place, names |-> format.names, within |-> <<>>,
                        key |-> <<>>, kind |-> 0, data |-> r.value], r.offset))
<1>1. format = FormatAt(s, i)
  BY Zenon DEF FormatAt, FormatIn
<1>2. /\ item = [place |-> item.place, names |-> item.names, within |-> item.within,
                 key |-> item.key, kind |-> item.kind, data |-> item.data]
      /\ item.names = format.names /\ item.key = <<>> /\ item.kind = 0 /\ ~HasKey(item.within)
      /\ ValueOf(format, item.data)
  BY <1>1, ItemFacts, Zenon
<1>3. item = [place |-> item.place, names |-> format.names, within |-> <<>>,
              key |-> <<>>, kind |-> 0, data |-> item.data]
  <2> HIDE DEF item
  <2> QED BY <1>2, Zenon DEF item
<1>4. HeadAt(s, i) = v
  <2>1. v \in Seq(Octet)
    BY <1>1, HeadFacts
  <2>2. <<>> \o <<>> = <<>>
    OBVIOUS
  <2>3. LeadOf(item) = <<>>
    BY <1>2, <2>2, Zenon DEF LeadOf
  <2> QED BY <1>1, <2>1, <2>3, EmptyFirst, Zenon DEF HeadAt
<1>5. D_Value(in, o, format) = Reading(in, o, v, item.data)
  <2>1. Holds(in, o, E_Value(format, item.data))
    BY <1>4, Zenon
  <2> HIDE DEF item
  <2> QED BY <1>2, <2>1, ValueRead
<1>6. d = Reading(in, o, v, item)
  <2> DEFINE r == D_Value(in, o, format)
  <2>1. CASE o + Len(v) <= Len(in)
    <3>1. r = Read(item.data, o + Len(v)) /\ Reading(in, o, v, item) = Read(item, o + Len(v))
      BY <1>5, <2>1, Zenon DEF Reading
    <3>2. r.ok /\ r.value = item.data /\ r.offset = o + Len(v)
      <4> HIDE DEF r, item, v
      <4> QED BY <3>1, ReadFacts
    <3>3. d = Read([place |-> item.place, names |-> format.names, within |-> <<>>,
                    key |-> <<>>, kind |-> 0, data |-> item.data], o + Len(v))
      <4> HIDE DEF item, v
      <4> QED BY <3>2, Zenon DEF Then
    <3> QED BY <1>3, <3>1, <3>3, Zenon
  <2>2. CASE ~(o + Len(v) <= Len(in))
    <3>1. r = Failed /\ Reading(in, o, v, item) = Failed
      BY <1>5, <2>2, Zenon DEF Reading
    <3>2. ~r.ok
      <4> HIDE DEF r
      <4> QED BY <3>1, ReadFacts
    <3>3. d = Failed
      <4> HIDE DEF item, v
      <4> QED BY <3>2, Zenon DEF Then
    <3> QED BY <3>1, <3>3, Zenon
  <2> QED BY <2>1, <2>2, Zenon
<1>7. MemberRead(in, o, format, item.place) = d
  <2> HIDE DEF item
  <2> QED BY Zenon DEF MemberRead
<1> QED BY <1>1, <1>4, <1>6, <1>7, Zenon

(* The key of an entry, and the octet of its kind.                         *)
KeyOf(item) == IF HasKey(item.within) THEN E_String(1, item.key) ELSE <<>>
(* What the decoder reads for a key, for a kind, and for an element.       *)
KeyRead(in, o, within) == IF HasKey(within) THEN D_String(in, o, 1) ELSE Read(<<>>, o)
KindRead(in, o, within) ==
  Then(KeyRead(in, o, within), LAMBDA key :
  Then(D_8(in, key.offset), LAMBDA kind :
    IF kind.value \in Kinds THEN kind ELSE Failed))
ElementRead(in, o, within, place, names) ==
  Then(KindRead(in, o, within), LAMBDA kind :
  Then(D_Value(in, kind.offset, FormatOf(KindRead(in, o, within).value)), LAMBDA r :
    Read([place |-> place, names |-> names, within |-> within,
          key |-> KeyRead(in, o, within).value, kind |-> kind.value,
          data |-> r.value], r.offset)))

(* A key is read as it was written, and skipped where there is none.       *)
LEMMA KeyIsRead ==
  ASSUME NEW item, item.key \in Seq(Octet),
         HasKey(item.within) => Fits(1, Len(item.key)),
         ~HasKey(item.within) => item.key = <<>>,
         NEW in \in Seq(Octet), NEW o \in Nat, o <= Len(in), Holds(in, o, KeyOf(item))
  PROVE  KeyRead(in, o, item.within) = Reading(in, o, KeyOf(item), item.key)
<1>1. CASE HasKey(item.within)
  <2>1. KeyOf(item) = E_String(1, item.key)
        /\ KeyRead(in, o, item.within) = D_String(in, o, 1)
    BY <1>1, Zenon DEF KeyOf, KeyRead
  <2>2. 1 \in {1, 4} /\ Fits(1, Len(item.key)) /\ Holds(in, o, E_String(1, item.key))
    BY <1>1, <2>1
  <2> QED BY <2>1, <2>2, StringRead
<1>2. CASE ~HasKey(item.within)
  <2>1. KeyOf(item) = <<>> /\ item.key = <<>> /\ KeyRead(in, o, item.within) = Read(<<>>, o)
    BY <1>2, Zenon DEF KeyOf, KeyRead
  <2>2. o + Len(<<>>) = o
    OBVIOUS
  <2>3. o + Len(<<>>) <= Len(in)
    BY <2>2
  <2>4. Reading(in, o, <<>>, <<>>) = Read(<<>>, o)
    BY <2>2, <2>3, Zenon DEF Reading
  <2> QED BY <2>1, <2>4, Zenon
<1> QED BY <1>1, <1>2

(* A kind is read as it was written, after the key.                        *)
LEMMA KindIsRead ==
  ASSUME NEW within, NEW in \in Seq(Octet), NEW o \in Nat, NEW k \in Seq(Octet), NEW key,
         NEW kind \in Kinds, Holds(in, o, k \o <<kind>>),
         KeyRead(in, o, within) = Reading(in, o, k, key)
  PROVE  KindRead(in, o, within) = Reading(in, o, k \o <<kind>>, kind)
<1>1. kind \in 0 .. 255 /\ <<kind>> \in Seq(Octet)
  <2>1. kind \in 1 .. 255
    BY KindsAreOctets, Zenon
  <2>2. kind \in Octet
    BY <2>1 DEF Octet
  <2> QED BY <2>1, <2>2
<1> DEFINE t == <<kind>>
<1>2. Holds(in, o + Len(k), t) /\ o + Len(k) \in Nat
  <2>1. Holds(in, o, k \o t) /\ t \in Seq(Octet)
    BY <1>1
  <2>2. o + Len(k) \in Nat
    OBVIOUS
  <2> HIDE DEF t
  <2> QED BY <2>1, <2>2, HoldsConcat
<1>3. D_8(in, o + Len(k)) = Reading(in, o + Len(k), t, kind)
  BY <1>1, <1>2, OctetRead
<1>4. t \in Seq(Octet)
  BY <1>1
<1> HIDE DEF t
<1>5. CASE ~(o + Len(k) <= Len(in))
  <2>1. KeyRead(in, o, within) = Failed
    BY <1>5, Zenon DEF Reading
  <2>2. KindRead(in, o, within) = Failed
    BY <2>1 DEF KindRead, Then, Failed
  <2>3. Reading(in, o, k \o t, kind) = Failed
    BY <1>4, <1>5, TwoReadings
  <2> QED BY <2>2, <2>3, Zenon DEF t
<1>6. CASE o + Len(k) <= Len(in)
  <2>1. KeyRead(in, o, within) = Read(key, o + Len(k))
    BY <1>6, Zenon DEF Reading
  <2>2. KeyRead(in, o, within).ok /\ KeyRead(in, o, within).offset = o + Len(k)
    BY <2>1 DEF Read
  <2>3. CASE ~((o + Len(k)) + Len(t) <= Len(in))
    <3>1. D_8(in, o + Len(k)) = Failed
      BY <1>3, <2>3, Zenon DEF Reading
    <3>2. KindRead(in, o, within) = Failed
      BY <2>2, <3>1 DEF KindRead, Then, Failed
    <3>3. Reading(in, o, k \o t, kind) = Failed
      BY <1>4, <2>3, TwoReadings
    <3> QED BY <3>2, <3>3, Zenon DEF t
  <2>4. CASE (o + Len(k)) + Len(t) <= Len(in)
    <3>1. D_8(in, o + Len(k)) = Read(kind, (o + Len(k)) + Len(t))
      BY <1>3, <2>4, Zenon DEF Reading
    <3>2. D_8(in, o + Len(k)).ok /\ D_8(in, o + Len(k)).value = kind
      BY <3>1 DEF Read
    <3>3. KindRead(in, o, within) = D_8(in, o + Len(k))
      BY <2>2, <3>2, Zenon DEF KindRead, Then
    <3>4. Reading(in, o, k \o t, kind) = Read(kind, (o + Len(k)) + Len(t))
      BY <1>4, <2>4, TwoReadings
    <3> QED BY <3>1, <3>3, <3>4, Zenon DEF t
  <2> QED BY <2>3, <2>4
<1> QED BY <1>5, <1>6

(* An element is read as it was written, unless the payload ends in it.    *)
LEMMA ElementIsRead ==
  ASSUME NEW s, Legal(s), NEW i \in 1 .. Len(s.items), s.items[i].within # <<>>,
         NEW in \in Seq(Octet), NEW o \in Nat, o <= Len(in), Holds(in, o, HeadAt(s, i))
  PROVE  /\ ElementRead(in, o, s.items[i].within, s.items[i].place, s.items[i].names)
              = Reading(in, o, HeadAt(s, i), s.items[i])
         /\ Reading(in, o, HeadAt(s, i), s.items[i]).ok =>
              FormatOf(KindRead(in, o, s.items[i].within).value) = FormatAt(s, i)
         /\ FormatAt(s, i) = FormatOf(s.items[i].kind)
<1> DEFINE item == s.items[i]
           k == KeyOf(item)
           l == k \o <<item.kind>>
           format == FormatAt(s, i)
           v == E_Value(format, item.data)
           kinds == KindRead(in, o, item.within)
           d == ElementRead(in, o, item.within, item.place, item.names)
<1>1. /\ item = [place |-> item.place, names |-> item.names, within |-> item.within,
                 key |-> item.key, kind |-> item.kind, data |-> item.data]
      /\ item.key \in Seq(Octet)
      /\ HasKey(item.within) => Fits(1, Len(item.key))
      /\ ~HasKey(item.within) => item.key = <<>>
      /\ item.kind \in Kinds /\ ValueOf(format, item.data)
  BY ItemFacts, Zenon
<1>2. LeadOf(item) = l /\ HeadAt(s, i) = l \o v /\ format = FormatOf(item.kind)
  BY Zenon DEF LeadOf, HeadAt, KeyOf, FormatAt, FormatIn
<1>3. l \in Seq(Octet) /\ v \in Seq(Octet)
  BY <1>2, HeadFacts, Zenon
<1>4. k \in Seq(Octet) /\ <<item.kind>> \in Seq(Octet)
  <2>1. CASE HasKey(item.within)
    <3>1. k = Octets(1, Len(item.key)) \o item.key
      BY <2>1, Zenon DEF KeyOf, E_String
    <3>2. 1 \in {1, 2, 4} /\ Len(item.key) \in Int
      BY <1>1
    <3>3. Octets(1, Len(item.key)) \in Seq(Octet)
      BY <3>2, OctetsType
    <3>4. Octets(1, Len(item.key)) \o item.key \in Seq(Octet)
      BY <1>1, <3>3, OctetsConcat, Zenon
    <3>5. k \in Seq(Octet)
      BY <3>1, <3>4, Zenon
    <3>6. item.kind \in Octet
      <4>1. item.kind \in 1 .. 255
        BY <1>1, KindsAreOctets, Zenon
      <4> QED BY <4>1 DEF Octet
    <3> HIDE DEF k
    <3> QED BY <3>5, <3>6
  <2>2. CASE ~HasKey(item.within)
    <3>1. k = <<>>
      BY <2>2, Zenon DEF KeyOf
    <3>2. item.kind \in Octet
      <4>1. item.kind \in 1 .. 255
        BY <1>1, KindsAreOctets, Zenon
      <4> QED BY <4>1 DEF Octet
    <3> HIDE DEF k
    <3> QED BY <3>1, <3>2
  <2> QED BY <2>1, <2>2
<1>5. Holds(in, o, l) /\ Holds(in, o + Len(l), v) /\ Holds(in, o, k) /\ o + Len(l) \in Nat
  <2> HIDE DEF v, k
  <2>1. Holds(in, o, l \o v)
    BY <1>2, Zenon
  <2>2. Holds(in, o, l) /\ Holds(in, o + Len(l), v) /\ o + Len(l) \in Nat
    <3> HIDE DEF l
    <3> QED BY <1>3, <2>1, HoldsConcat
  <2>3. Holds(in, o, k)
    BY <1>4, <2>2, HoldsConcat
  <2> QED BY <2>2, <2>3
<1>6. KeyRead(in, o, item.within) = Reading(in, o, k, item.key)
  <2> HIDE DEF item
  <2> QED BY <1>1, <1>5, KeyIsRead
<1>7. kinds = Reading(in, o, l, item.kind)
  <2> HIDE DEF item, k
  <2> QED BY <1>1, <1>4, <1>5, <1>6, KindIsRead
<1>8. CASE ~(o + Len(l) <= Len(in))
  <2>1. kinds = Failed
    <3> HIDE DEF kinds, l
    <3> QED BY <1>7, <1>8, Zenon DEF Reading
  <2>2. ~kinds.ok
    <3> HIDE DEF kinds
    <3> QED BY <2>1, ReadFacts
  <2>3. d = Failed
    BY <2>2, Zenon DEF ElementRead, Then
  <2>4. Reading(in, o, l \o v, item) = Failed
    <3> HIDE DEF l, v, item
    <3> QED BY <1>3, <1>8, TwoReadings
  <2> HIDE DEF d, l, v, item
  <2> QED BY <1>2, <2>3, <2>4, ReadFacts DEF d, item
<1>9. CASE o + Len(l) <= Len(in)
  <2>1. kinds = Read(item.kind, o + Len(l))
    <3> HIDE DEF kinds, l
    <3> QED BY <1>7, <1>9, Zenon DEF Reading
  <2>2. kinds.ok /\ kinds.value = item.kind /\ kinds.offset = o + Len(l)
    <3> HIDE DEF kinds, l, item
    <3> QED BY <2>1, ReadFacts
  <2> DEFINE w == D_Value(in, o + Len(l), format)
  <2>3. w = Reading(in, o + Len(l), v, item.data)
    <3> HIDE DEF l, item
    <3> QED BY <1>1, <1>5, <1>9, ValueRead
  <2>4. d = Then(w, LAMBDA r :
             Read([place |-> item.place, names |-> item.names, within |-> item.within,
                   key |-> KeyRead(in, o, item.within).value, kind |-> item.kind,
                   data |-> r.value], r.offset))
    <3> HIDE DEF item, l
    <3> QED BY <1>2, <2>2, Zenon DEF ElementRead, Then
  <2>5. FormatOf(kinds.value) = format
    BY <1>2, <2>2, Zenon
  <2>6. CASE ~((o + Len(l)) + Len(v) <= Len(in))
    <3>1. w = Failed
      <4> HIDE DEF w, l, v
      <4> QED BY <2>3, <2>6, Zenon DEF Reading
    <3>2. ~w.ok
      <4> HIDE DEF w
      <4> QED BY <3>1, ReadFacts
    <3>3. d = Failed
      <4> HIDE DEF d, w, item
      <4> QED BY <2>4, <3>2, Zenon DEF Then
    <3>4. Reading(in, o, l \o v, item) = Failed
      <4> HIDE DEF l, v, item
      <4> QED BY <1>3, <2>6, TwoReadings
    <3> QED BY <1>2, <2>5, <3>3, <3>4, Zenon
  <2>7. CASE (o + Len(l)) + Len(v) <= Len(in)
    <3>1. w = Read(item.data, (o + Len(l)) + Len(v))
      <4> HIDE DEF w, l, v
      <4> QED BY <2>3, <2>7, Zenon DEF Reading
    <3>2. w.ok /\ w.value = item.data /\ w.offset = (o + Len(l)) + Len(v)
      <4> HIDE DEF w, item, l, v
      <4> QED BY <3>1, ReadFacts
    <3>3. KeyRead(in, o, item.within).value = item.key
      <4>1. o + Len(k) <= Len(in)
        <5>1. Len(l) = Len(k) + Len(<<item.kind>>) /\ Len(k) \in Nat /\ Len(<<item.kind>>) = 1
          <6> HIDE DEF k, item
          <6> QED BY <1>4, OctetsConcat
        <5>2. Len(in) \in Int
          OBVIOUS
        <5> HIDE DEF l, k
        <5> QED BY <1>9, <5>1, <5>2
      <4>2. KeyRead(in, o, item.within) = Read(item.key, o + Len(k))
        <5> HIDE DEF item, k
        <5> QED BY <1>6, <4>1, Zenon DEF Reading
      <4> HIDE DEF item, k
      <4> QED BY <4>2, ReadFacts
    <3>4. d = Read(item, (o + Len(l)) + Len(v))
      <4> HIDE DEF d, w, item, l, v
      <4> QED BY <1>1, <2>4, <3>2, <3>3, Zenon DEF Then
    <3>5. Reading(in, o, l \o v, item) = Read(item, (o + Len(l)) + Len(v))
      <4> HIDE DEF l, v, item
      <4> QED BY <1>3, <2>7, TwoReadings
    <3> QED BY <1>2, <2>5, <3>4, <3>5, Zenon
  <2> QED BY <2>6, <2>7
<1> QED BY <1>8, <1>9

(* A size below that of a struct fits in the four octets of a size.        *)
LEMMA SmallFits ==
  ASSUME NEW n \in Nat, NEW m \in Nat, m <= n, FitsSigned(4, n)
  PROVE  Fits(4, m)
<1>1. n \div 16777216 < 128
  BY SMT DEF FitsSigned, Power256
<1>2. m \div 16777216 < 256
  BY <1>1, SMT
<1> QED BY <1>2, SMT DEF Fits, Power256

(* What a macro makes of an item, and of the size that follows it.         *)
SizeRead(s, in, o, n) ==
  Then(Reading(in, o, HeadAt(s, n), s.items[n]), LAMBDA r :
    IF Opener(s, n) THEN D_32(in, r.offset) ELSE r)

(* An item is read with the size after it, unless the payload ends.        *)
LEMMA SizeIsRead ==
  ASSUME NEW s, Legal(s), NEW in, Payload(s, in), NEW n \in 1 .. Len(s.items),
         Size(s, n - 1) <= Len(in)
  PROVE  LET size == SizeRead(s, in, Size(s, n - 1), n)
         IN /\ size.ok =>
                 /\ size.offset = Size(s, n) /\ Size(s, n) <= Len(in)
                 /\ Reading(in, Size(s, n - 1), HeadAt(s, n), s.items[n]).value = s.items[n]
                 /\ Opener(s, n) =>
                      \E e \in n .. Len(s.items) :
                        /\ Ends(s, n, Depth(s, n) + 1, e)
                        /\ size.offset + size.value = Size(s, e)
            /\ ~size.ok => Len(in) < Total(s)
<1> DEFINE size == SizeRead(s, in, Size(s, n - 1), n)
           o == Size(s, n - 1)
           h == HeadAt(s, n)
           item == s.items[n]
           r == Reading(in, o, h, item)
<1>1. /\ o \in Nat /\ Size(s, n) \in Nat /\ h \in Seq(Octet) /\ Len(h) \in Nat
      /\ Opener(s, n) => o + Len(h) = Size(s, n) - 4
      /\ ~Opener(s, n) => o + Len(h) = Size(s, n)
      /\ Size(s, n) <= Total(s)
  BY HeadPlace
<1>2. in \in Seq(Octet) /\ Len(in) \in Nat /\ Total(s) \in Nat
  <2>1. in \in Seq(Octet)
    BY Zenon DEF Payload
  <2>2. FitsSigned(4, Total(s))
    BY LegalParts, Zenon
  <2>3. Total(s) \in Int
    BY <2>2, SMT DEF FitsSigned
  <2> QED BY <1>1, <2>1, <2>3
<1>3. CASE ~(o + Len(h) <= Len(in))
  <2>1. r = Failed
    BY <1>3, Zenon DEF Reading
  <2>2. ~r.ok /\ ~Failed.ok
    <3> HIDE DEF r
    <3> QED BY <2>1, ReadFacts
  <2>3. size = Failed
    BY <2>2, Zenon DEF SizeRead, Then
  <2>4. ~size.ok
    <3> HIDE DEF size
    <3> QED BY <2>2, <2>3
  <2>5. Len(in) < Total(s)
    <3> HIDE DEF o, h
    <3> QED BY <1>1, <1>2, <1>3
  <2> QED BY <2>4, <2>5, Zenon
<1>4. CASE o + Len(h) <= Len(in)
  <2>1. r = Read(item, o + Len(h))
    BY <1>4, Zenon DEF Reading
  <2>2. r.ok /\ r.value = item /\ r.offset = o + Len(h)
    <3> HIDE DEF r, o, h, item
    <3> QED BY <2>1, ReadFacts
  <2>3. CASE ~Opener(s, n)
    <3>1. size = r
      BY <2>2, <2>3, Zenon DEF SizeRead, Then
    <3>2. size.ok /\ size.offset = Size(s, n) /\ Size(s, n) <= Len(in)
      <4> HIDE DEF o, h, r, size
      <4> QED BY <1>1, <1>4, <2>2, <2>3, <3>1
    <3> QED BY <2>2, <2>3, <3>2, Zenon
  <2>4. CASE Opener(s, n)
    <3>1. PICK e \in n .. Len(s.items) :
            /\ Ends(s, n, Depth(s, n) + 1, e)
            /\ Holds(in, Size(s, n) - 4, Octets(4, Size(s, e) - Size(s, n)))
      BY <2>4, Zenon DEF Payload, HoldsSize
    <3> DEFINE v == Size(s, e) - Size(s, n)
               z == Octets(4, v)
               at == Size(s, n) - 4
    <3>2. v \in Nat /\ z \in Seq(Octet) /\ Len(z) = 4
      BY SizePlace
    <3>3. at \in Nat
      BY <1>1, <2>4
    <3>4. Size(s, e) \in Nat /\ Size(s, e) <= Total(s)
      <4>1. e \in 1 .. Len(s.items)
        OBVIOUS
      <4> QED BY <4>1, HeadPlace
    <3>5. Fits(4, v)
      <4>1. v <= Total(s)
        BY <1>1, <1>2, <3>2, <3>4
      <4>2. FitsSigned(4, Total(s))
        BY LegalParts, Zenon
      <4> HIDE DEF v
      <4> QED BY <1>2, <3>2, <4>1, <4>2, SmallFits
    <3>6. Holds(in, at, z)
      BY <3>1
    <3>7. D_32(in, at) = Reading(in, at, z, v)
      <4>1. 4 \in {1, 2, 4} /\ v \in Int
        BY <3>2
      <4> HIDE DEF v, at
      <4> QED BY <1>2, <3>3, <3>5, <3>6, <4>1, NumberRead DEF D_32
    <3>8. size = Reading(in, at, z, v)
      <4>1. size = D_32(in, r.offset)
        <5> HIDE DEF r, o, h
        <5> QED BY <2>2, <2>4, Zenon DEF SizeRead, Then, r, o, h
      <4>2. r.offset = at
        <5> HIDE DEF r, o, h
        <5> QED BY <1>1, <2>2, <2>4
      <4> HIDE DEF size, r, z, v, at
      <4> QED BY <3>7, <4>1, <4>2, Zenon
    <3>9. at + Len(z) = Size(s, n) /\ Size(s, n) + v = Size(s, e)
      <4>1. at + 4 = Size(s, n) /\ Size(s, n) + v = Size(s, e)
        BY <1>1, <3>4
      <4> HIDE DEF z, at, v
      <4> QED BY <3>2, <4>1
    <3> HIDE DEF z, at, v, size
    <3>10. CASE ~(Size(s, n) <= Len(in))
      <4>1. size = Failed
        BY <3>8, <3>9, <3>10, Zenon DEF Reading
      <4>2. ~size.ok
        BY <4>1, ReadFacts
      <4>3. Len(in) < Total(s)
        BY <1>1, <1>2, <3>10
      <4> QED BY <4>2, <4>3, Zenon DEF size
    <3>11. CASE Size(s, n) <= Len(in)
      <4>1. size = Read(v, Size(s, n))
        BY <3>8, <3>9, <3>11, Zenon DEF Reading
      <4>2. size.ok /\ size.value = v /\ size.offset = Size(s, n)
        BY <4>1, ReadFacts
      <4>3. size.offset + size.value = Size(s, e)
        BY <3>9, <4>2
      <4> QED BY <2>2, <3>1, <3>11, <4>2, <4>3, Zenon DEF size
    <3> QED BY <3>10, <3>11
  <2> QED BY <2>3, <2>4
<1> QED BY <1>3, <1>4

(* The active calls when item n is read, its elements ending at end.       *)
InsideAfter(s, ins, n, end) ==
  IF Opener(s, n) THEN Append(ins, [coding |-> FormatAt(s, n).coding, limit |-> end]) ELSE ins

(* What the next item may be an element of: what item n is, or item n.     *)
LEMMA AroundFacts ==
  ASSUME NEW s, Legal(s), NEW n \in 1 .. Len(s.items)
  PROVE  /\ s.items[n].within \in Seq({"array", "table"})
         /\ AroundAt(s, n) = IF Opener(s, n) THEN Append(s.items[n].within, FormatAt(s, n).coding)
                             ELSE s.items[n].within
         /\ Opener(s, n) => FormatAt(s, n).coding \in {"array", "table"}
<1>1. s.items[n].within \in Seq({"array", "table"})
  BY ItemFacts, Zenon
<1> QED BY <1>1, Zenon DEF AroundAt, Around, Opener, FormatAt, Opens

(* An item has been read.                                                  *)
LEMMA DecodingTakes ==
  ASSUME NEW s, Legal(s), NEW in, Payload(s, in), NEW k, NEW off, NEW dec, NEW ins,
         Decoding(s, in, k, off, dec, ins), k < Len(s.items), Depth(s, k + 1) = Len(ins),
         NEW end,
         Size(s, k + 1) <= Len(in),
         Opener(s, k + 1) =>
           \E e \in k + 1 .. Len(s.items) :
             Ends(s, k + 1, Depth(s, k + 1) + 1, e) /\ end = Size(s, e)
  PROVE  Decoding(s, in, k + 1, Size(s, k + 1), Append(dec, s.items[k + 1]),
                  InsideAfter(s, ins, k + 1, end))
<1> DEFINE L == Len(ins)
           n == k + 1
           ins2 == InsideAfter(s, ins, n, end)
           call == [coding |-> FormatAt(s, n).coding, limit |-> end]
           C == [coding : {"array", "table"}, limit : Nat]
<1>1. /\ k \in 0 .. Len(s.items) /\ Len(s.items) \in Nat
      /\ n \in 1 .. Len(s.items) /\ n \in 0 .. Len(s.items) /\ n - 1 = k
  <2>1. k \in 0 .. Len(s.items) /\ Len(s.items) \in Nat
    BY LegalParts, Zenon DEF Decoding
  <2> QED BY <2>1
<1> HIDE DEF n
<1>2. ins \in Seq(C) /\ L \in Nat /\ DOMAIN ins = 1 .. L
  <2>1. ins \in Seq(C)
    BY Zenon DEF Decoding
  <2> HIDE DEF C
  <2> QED BY <2>1
<1>3. Depth(s, n) = L
  BY DEF n
<1>4. \A l \in 1 .. L : \E e \in n .. Len(s.items) : Ends(s, n, l, e) /\ ins[l].limit = Size(s, e)
  <2> SUFFICES ASSUME NEW l \in 1 .. L
               PROVE  \E e \in n .. Len(s.items) : Ends(s, n, l, e) /\ ins[l].limit = Size(s, e)
    OBVIOUS
  <2>1. PICK e \in k .. Len(s.items) : Ends(s, k, l, e) /\ ins[l].limit = Size(s, e)
    BY <1>2, Zenon DEF Decoding
  <2>2. e # k
    <3>1. ASSUME e = k PROVE FALSE
      <4>1. Depth(s, k + 1) < l
        BY <2>1, <3>1, Zenon DEF Ends
      <4> QED BY <1>2, <4>1
    <3> QED BY <3>1
  <2>3. e \in n .. Len(s.items) /\ \A j \in n + 1 .. e : j \in k + 1 .. e
    BY <1>1, <2>2 DEF n
  <2>4. Ends(s, n, l, e)
    BY <2>1, <2>3, Zenon DEF Ends
  <2> QED BY <2>1, <2>3, <2>4
<1> DEFINE within == s.items[n].within
<1>5. /\ within \in Seq({"array", "table"}) /\ Len(within) = L
      /\ \A l \in 1 .. L : within[l] = ins[l].coding
  <2>1. within \in Seq({"array", "table"}) /\ Len(within) = L
    BY <1>1, <1>3, AroundFacts, Zenon DEF Depth
  <2>2. DOMAIN within = 1 .. L
    BY <2>1
  <2>3. \A l \in DOMAIN within : within[l] = AroundAt(s, n - 1)[l]
    <3>1. PICK i \in 1 .. Len(s.items) : i = n
      BY <1>1
    <3>2. \A l \in DOMAIN s.items[i].within : s.items[i].within[l] = AroundAt(s, i - 1)[l]
      BY FollowsFacts
    <3> QED BY <3>1, <3>2, Zenon
  <2>4. \A l \in DOMAIN ins : ins[l].coding = AroundAt(s, k)[l]
    BY Zenon DEF Decoding
  <2> QED BY <1>1, <1>2, <2>1, <2>2, <2>3, <2>4, Zenon
<1>6. /\ AroundAt(s, n) = IF Opener(s, n) THEN Append(within, FormatAt(s, n).coding) ELSE within
      /\ Opener(s, n) => FormatAt(s, n).coding \in {"array", "table"}
  BY <1>1, AroundFacts, Zenon
<1>7. n < Len(s.items) => Depth(s, n + 1) <= L + (IF Opener(s, n) THEN 1 ELSE 0)
  BY <1>1, <1>3, NextDepth, Zenon
<1>8. n >= 1 /\ Size(s, n) <= Len(in) /\ Append(dec, s.items[n]) = SubSeq(s.items, 1, n)
  <2>1. Append(SubSeq(s.items, 1, k), s.items[k + 1]) = SubSeq(s.items, 1, k + 1)
    BY <1>1, Prefix, Zenon
  <2>2. dec = SubSeq(s.items, 1, k)
    BY Zenon DEF Decoding
  <2> QED BY <1>1, <2>1, <2>2 DEF n
<1>9. CASE ~Opener(s, n)
  <2>1. ins2 = ins /\ AroundAt(s, n) = within
    BY <1>6, <1>9, Zenon DEF InsideAfter
  <2>2. n < Len(s.items) => Depth(s, n + 1) <= L
    BY <1>2, <1>7, <1>9
  <2>3. \A l \in DOMAIN ins : n >= 1 /\ l \in 1 .. Len(AroundAt(s, n))
                               /\ ins[l].coding = AroundAt(s, n)[l]
    BY <1>2, <1>5, <1>8, <2>1, Zenon
  <2>4. Decoding(s, in, n, Size(s, n), Append(dec, s.items[n]), ins)
    BY <1>1, <1>2, <1>4, <1>8, <2>2, <2>3, Zenon DEF Decoding
  <2> QED BY <2>1, <2>4, Zenon DEF n
<1>10. CASE Opener(s, n)
  <2>1. ins2 = Append(ins, call)
    BY <1>10, Zenon DEF InsideAfter
  <2>2. PICK e \in n .. Len(s.items) : Ends(s, n, L + 1, e) /\ end = Size(s, e)
    BY <1>3, <1>10, Zenon DEF n
  <2>3. end \in Nat
    <3>1. e \in 1 .. Len(s.items)
      BY <1>1
    <3> QED BY <2>2, <3>1, HeadPlace
  <2>4. call \in C
    BY <1>6, <1>10, <2>3
  <2> HIDE DEF C, call
  <2>5. /\ Append(ins, call) \in Seq(C) /\ Len(Append(ins, call)) = L + 1
        /\ Append(ins, call)[L + 1] = call
        /\ \A l \in 1 .. L : Append(ins, call)[l] = ins[l]
    BY <1>2, <2>4, AppendProperties
  <2>6. ins2 \in Seq(C) /\ Len(ins2) = L + 1 /\ DOMAIN ins2 = 1 .. L + 1
        /\ ins2[L + 1] = call /\ \A l \in 1 .. L : ins2[l] = ins[l]
    BY <2>1, <2>5
  <2> HIDE DEF ins2
  <2>7. \A l \in 1 .. L + 1 : l \in 1 .. L \/ l = L + 1
    BY <1>2
  <2>8. call.coding = FormatAt(s, n).coding /\ call.limit = end
    BY DEF call
  <2>9. \A l \in DOMAIN ins2 : \E f \in n .. Len(s.items) :
          Ends(s, n, l, f) /\ ins2[l].limit = Size(s, f)
    BY <1>4, <2>2, <2>6, <2>7, <2>8, Zenon
  <2> DEFINE around == AroundAt(s, n)
  <2>10. /\ Len(around) = L + 1 /\ around[L + 1] = FormatAt(s, n).coding
         /\ \A l \in 1 .. L : around[l] = within[l]
    <3>1. around = Append(within, FormatAt(s, n).coding)
      BY <1>6, <1>10, Zenon
    <3>2. FormatAt(s, n).coding \in {"array", "table"}
      BY <1>6, <1>10
    <3> HIDE DEF within, around
    <3> QED BY <1>5, <3>1, <3>2, AppendProperties
  <2>11. \A l \in DOMAIN ins2 : n >= 1 /\ l \in 1 .. Len(around) /\ ins2[l].coding = around[l]
    <3> HIDE DEF around, within
    <3> QED BY <1>5, <1>8, <2>6, <2>7, <2>8, <2>10, Zenon
  <2>12. n < Len(s.items) => Depth(s, n + 1) <= Len(ins2)
    BY <1>7, <1>10, <2>6
  <2>13. Decoding(s, in, n, Size(s, n), Append(dec, s.items[n]), ins2)
    BY <1>1, <1>8, <2>6, <2>9, <2>11, <2>12, Zenon DEF Decoding, C
  <2> QED BY <2>13, Zenon DEF n, ins2
<1> QED BY <1>9, <1>10

(* The flags of a content header, and the beginning of the decoder.        *)
LEMMA PayloadOf ==
  ASSUME NEW s, Legal(s), NEW octs, Encoded(s, octs), NEW length \in 0 .. Len(octs)
  PROVE  /\ Payload(s, SubSeq(octs, 1, length)) /\ Len(SubSeq(octs, 1, length)) = length
         /\ Len(octs) = Total(s)
<1> DEFINE in == SubSeq(octs, 1, length)
<1>1. octs \in Seq(Octet) /\ Len(octs) = Total(s) /\ Len(octs) \in Nat
  <2>1. octs \in Seq(Octet) /\ Len(octs) = Total(s)
    BY Zenon DEF Encoded
  <2> QED BY <2>1
<1>2. in \in Seq(Octet) /\ Len(in) = length /\ \A i \in 1 .. length : in[i] = octs[i]
  BY <1>1
<1> HIDE DEF in
<1>3. ASSUME NEW o \in Nat, NEW t \in Seq(Octet), Holds(octs, o, t)
      PROVE  Holds(in, o, t)
  BY <1>1, <1>2, <1>3 DEF Holds
<1>4. Holds(in, 0, FlagOctets(s))
  <2>1. Holds(octs, 0, FlagOctets(s)) /\ FlagOctets(s) \in Seq(Octet)
    BY FlagOctetsType, Zenon DEF Encoded
  <2> QED BY <1>3, <2>1
<1>5. ASSUME NEW i \in 1 .. Len(s.items) PROVE HoldsHead(s, in, i)
  <2>1. Holds(octs, Size(s, i - 1), HeadAt(s, i))
    BY Zenon DEF Encoded, HoldsHead
  <2> QED BY <1>3, <2>1, HeadPlace DEF HoldsHead
<1>6. ASSUME NEW i \in 1 .. Len(s.items), Opener(s, i) PROVE HoldsSize(s, in, i)
  <2>1. PICK e \in i .. Len(s.items) :
          /\ Ends(s, i, Depth(s, i) + 1, e)
          /\ Holds(octs, Size(s, i) - 4, Octets(4, Size(s, e) - Size(s, i)))
    BY <1>6, Zenon DEF Encoded, HoldsSize
  <2>2. Octets(4, Size(s, e) - Size(s, i)) \in Seq(Octet)
    BY SizePlace
  <2>3. Size(s, i) - 4 \in Nat
    BY <1>6, HeadPlace
  <2>4. Holds(in, Size(s, i) - 4, Octets(4, Size(s, e) - Size(s, i)))
    BY <1>3, <2>1, <2>2, <2>3
  <2> QED BY <2>1, <2>4, Zenon DEF HoldsSize
<1>7. Payload(s, in)
  <2>1. Len(in) <= Total(s)
    BY <1>1, <1>2
  <2> QED BY <1>2, <1>4, <1>5, <1>6, <2>1, Zenon DEF Payload
<1> QED BY <1>1, <1>2, <1>7 DEF in

(* What the decoder makes of the first octets.                             *)
FlagsRead(s, in) == IF s.form.what = "method" THEN Read(0, 0) ELSE D_16(in, 0)

(* The decoder starts out with the flags the encoder wrote.                *)
LEMMA DecodingBegins ==
  ASSUME NEW s, Legal(s), NEW in, Payload(s, in)
  PROVE  /\ FlagsRead(s, in).ok =>
              /\ FlagsRead(s, in).value = s.flags
              /\ Decoding(s, in, 0, FlagsRead(s, in).offset, <<>>, <<>>)
         /\ ~FlagsRead(s, in).ok => Len(in) < Total(s)
<1> DEFINE r == FlagsRead(s, in)
           t == FlagOctets(s)
<1>1. in \in Seq(Octet) /\ Len(in) \in Nat /\ Holds(in, 0, t)
  <2>1. in \in Seq(Octet) /\ Holds(in, 0, t)
    BY Zenon DEF Payload
  <2> QED BY <2>1
<1>2. Start(s.form) \in {0, 2} /\ Size(s, 0) = Start(s.form) /\ Total(s) = Size(s, Len(s.items))
      /\ Len(s.items) \in Nat /\ Size(s, 0) <= Total(s) /\ Total(s) \in Nat
  <2>1. Start(s.form) \in {0, 2} /\ Total(s) = Size(s, Len(s.items)) /\ Len(s.items) \in Nat
        /\ Sized(s)
    BY LegalSized, LegalParts, Zenon
  <2>2. 0 \in 0 .. Len(s.items) /\ Len(s.items) \in 0 .. Len(s.items) /\ 0 <= Len(s.items)
    BY <2>1
  <2>3. Size(s, 0) = Start(s.form)
    BY <2>1, <2>2, SizeStep
  <2>4. Size(s, Len(s.items)) \in Nat
    BY <2>1, <2>2, SizeStep
  <2>5. Size(s, 0) <= Size(s, Len(s.items))
    BY <2>1, <2>2, SizeOrder, Zenon
  <2> QED BY <2>1, <2>3, <2>4, <2>5
<1>3. r.ok => r.value = s.flags /\ r.offset = Size(s, 0) /\ Size(s, 0) <= Len(in)
  <2>1. CASE s.form.what = "method"
    <3>1. s.flags = 0
      BY <2>1, LegalParts, Zenon
    <3>2. Size(s, 0) = 0
      BY <1>2, <2>1 DEF Start
    <3>3. r = Read(0, 0)
      BY <2>1, Zenon DEF FlagsRead
    <3> HIDE DEF r
    <3> QED BY <1>1, <3>1, <3>2, <3>3, ReadFacts
  <2>2. CASE s.form.what # "method"
    <3>1. t = Octets(2, s.flags) /\ r = D_16(in, 0)
      BY <2>2, Zenon DEF FlagOctets, FlagsRead
    <3>2. Len(t) = 2 /\ Size(s, 0) = 2
      <4>1. Start(s.form) = 2
        BY <2>2 DEF Start
      <4> QED BY <1>2, <4>1, FlagOctetsType
    <3>3. Fits(2, s.flags)
      BY LegalParts, Zenon
    <3>4. s.flags \in Int /\ 2 \in {1, 2, 4} /\ 0 \in Nat
      BY <3>3, SMT DEF Fits
    <3>5. r = Reading(in, 0, t, s.flags)
      <4> HIDE DEF r, t
      <4> QED BY <1>1, <3>1, <3>3, <3>4, NumberRead DEF D_16
    <3>6. r.ok => 0 + Len(t) <= Len(in) /\ r.value = s.flags /\ r.offset = 0 + Len(t)
      <4> HIDE DEF r, t
      <4> QED BY <3>5, ReadingFacts
    <3> HIDE DEF r, t
    <3> QED BY <3>2, <3>6
  <2> QED BY <2>1, <2>2
<1>4. ASSUME ~r.ok PROVE Len(in) < Total(s)
  <2>1. s.form.what # "method"
    <3>1. ASSUME s.form.what = "method" PROVE FALSE
      <4>1. r = Read(0, 0)
        BY <3>1, Zenon DEF FlagsRead
      <4> HIDE DEF r
      <4> QED BY <1>4, <4>1, ReadFacts
    <3> QED BY <3>1
  <2>2. t = Octets(2, s.flags) /\ r = D_16(in, 0)
    BY <2>1, Zenon DEF FlagOctets, FlagsRead
  <2>3. Len(t) = 2 /\ Size(s, 0) = 2
    <3>1. Start(s.form) = 2
      BY <2>1 DEF Start
    <3> QED BY <1>2, <3>1, FlagOctetsType
  <2>4. Fits(2, s.flags)
    BY LegalParts, Zenon
  <2>5. s.flags \in Int /\ 2 \in {1, 2, 4} /\ 0 \in Nat
    BY <2>4, SMT DEF Fits
  <2>6. r = Reading(in, 0, t, s.flags)
    <3> HIDE DEF r, t
    <3> QED BY <1>1, <2>2, <2>4, <2>5, NumberRead DEF D_16
  <2>7. ~(0 + Len(t) <= Len(in))
    <3> HIDE DEF r, t
    <3> QED BY <1>4, <2>6, ReadingFacts
  <2> HIDE DEF t
  <2> QED BY <1>1, <1>2, <2>3, <2>7
<1>5. ASSUME r.ok PROVE Decoding(s, in, 0, r.offset, <<>>, <<>>)
  <2>1. 0 \in 0 .. Len(s.items) /\ <<>> = SubSeq(s.items, 1, 0)
    <3>1. s.items \in Seq({s.items[i] : i \in DOMAIN s.items})
      BY LegalParts, Zenon
    <3> QED BY <1>2, <3>1
  <2>2. <<>> \in Seq([coding : {"array", "table"}, limit : Nat]) /\ DOMAIN <<>> = {}
        /\ Len(<<>>) = 0
    OBVIOUS
  <2>3. 0 < Len(s.items) => Depth(s, 0 + 1) <= Len(<<>>)
    <3>1. ASSUME 0 < Len(s.items) PROVE Depth(s, 0 + 1) <= Len(<<>>)
      <4>1. PICK i \in 1 .. Len(s.items) : i = 0 + 1
        BY <1>2, <3>1
      <4>2. Depth(s, i) = 0
        BY <4>1, NextDepth
      <4> QED BY <2>2, <4>1, <4>2
    <3> QED BY <3>1
  <2> QED BY <1>3, <1>5, <2>1, <2>2, <2>3, Zenon DEF Decoding
<1> QED BY <1>3, <1>4, <1>5

-----------------------------------------------------------------------------
(* The invariant, and that every step keeps it.                            *)

(* While a struct is encoded, Encoding; while it is decoded, Decoding.     *)
CodecInv ==
  /\ struct \in Structs /\ limit \in Nat
  /\ step \in {"given", "encoding", "refused", "encoded", "decoding", "decoded", "rejected"}
  /\ step = "given" => written = 0 /\ open = <<>>
  /\ step \in {"given", "encoding", "encoded"} => decoded = <<>> /\ inside = <<>>
  /\ step = "encoding" => Encoding(struct, limit, octets, written, open)
  /\ step = "refused" => limit < Total(struct)
  /\ step \in {"encoded", "decoding", "decoded", "rejected"} =>
       Encoded(struct, octets) /\ Total(struct) <= limit
  /\ step \in {"decoding", "decoded", "rejected"} => received \in 0 .. Len(octets)
  /\ step = "decoding" =>
       /\ flags = struct.flags
       /\ \E k \in 0 .. Len(struct.items) :
            Decoding(struct, SubSeq(octets, 1, received), k, offset, decoded, inside)
  /\ step = "decoded" =>
       /\ decoded = struct.items /\ flags = struct.flags
       /\ offset = Total(struct) /\ received = Len(octets)
  /\ step = "rejected" => received < Len(octets)

(* A struct of the program is legal.                                       *)
LEMMA StructFacts ==
  ASSUME struct \in Structs
  PROVE  /\ Legal(struct) /\ Total(struct) \in Nat /\ Start(struct.form) \in {0, 2}
         /\ Start(struct.form) <= Total(struct) /\ Fields = Layout(struct)
         /\ Len(struct.items) \in Nat
<1>1. Legal(struct)
  BY CodecAssumption
<1> DEFINE s == struct
<1>2. Start(s.form) \in {0, 2} /\ Total(s) = Size(s, Len(s.items)) /\ Len(s.items) \in Nat
      /\ Sized(s)
  BY <1>1, LegalSized, LegalParts, Zenon
<1>3. 0 \in 0 .. Len(s.items) /\ Len(s.items) \in 0 .. Len(s.items) /\ 0 <= Len(s.items)
  BY <1>2
<1>4. Size(s, 0) = Start(s.form) /\ Size(s, Len(s.items)) \in Nat
  BY <1>2, <1>3, SizeStep
<1>5. Size(s, 0) <= Size(s, Len(s.items))
  BY <1>2, <1>3, SizeOrder, Zenon
<1>6. Fields = Layout(s)
  BY Zenon DEF Fields, Layout
<1> QED BY <1>1, <1>2, <1>4, <1>5, <1>6

(* The invariant holds before anything is written.                         *)
LEMMA InitInv == Init => CodecInv
  BY SMT DEF Init, CodecInv

(* An encoder is called.                                                   *)
LEMMA EncodeInv ==
  ASSUME CodecInv, NEW size \in Nearly(Total(struct) + 1), Encode(size)
  PROVE  CodecInv'
<1>1. /\ Legal(struct) /\ Total(struct) \in Nat /\ Start(struct.form) \in {0, 2}
      /\ Start(struct.form) <= Total(struct)
  BY StructFacts, Zenon DEF CodecInv
<1>2. size \in Nat
  BY <1>1 DEF Nearly
<1>3. /\ step = "given" /\ limit' = size /\ struct' = struct /\ written' = 0 /\ open' = <<>>
      /\ decoded' = <<>> /\ inside' = <<>>
  BY Zenon DEF Encode, CodecInv, decoder
<1>4. CASE Start(struct.form) <= size
  <2>1. ~(Start(struct.form) > size)
    BY <1>1, <1>2, <1>4
  <2>2. step' = "encoding" /\ octets' = FlagOctets(struct)
    BY <2>1, Zenon DEF Encode, FlagOctets
  <2>3. Encoding(struct, size, FlagOctets(struct), 0, <<>>)
    BY <1>1, <1>2, <1>4, EncodingBegins
  <2>4. Encoding(struct', limit', octets', written', open')
    BY <1>3, <2>2, <2>3, Zenon
  <2> QED BY <1>2, <1>3, <2>2, <2>4 DEF CodecInv
<1>5. CASE ~(Start(struct.form) <= size)
  <2>1. step' = "refused"
    BY <1>5, Zenon DEF Encode
  <2>2. size < Total(struct)
    BY <1>1, <1>2, <1>5
  <2>3. limit' < Total(struct')
    BY <1>3, <2>2, Zenon
  <2> QED BY <1>2, <1>3, <2>1, <2>3 DEF CodecInv
<1> QED BY <1>4, <1>5

(* The next item is written, or its octets do not fit.                     *)
LEMMA WriteInv ==
  ASSUME CodecInv, step = "encoding", written < Len(struct.items),
         Depth(struct, written + 1) = Len(open),
         Write(HeadAt(struct, written + 1), FormatAt(struct, written + 1)),
         UNCHANGED <<struct, limit, decoder>>
  PROVE  CodecInv'
<1> DEFINE s == struct
           n == written + 1
           head == HeadAt(s, n)
           at == Len(octets) + Len(head)
<1>1. /\ Legal(s) /\ Total(s) \in Nat /\ Len(s.items) \in Nat /\ limit \in Nat
      /\ Encoding(s, limit, octets, written, open)
  BY StructFacts, Zenon DEF CodecInv
<1>2. /\ written \in 0 .. Len(s.items) /\ octets \in Seq(Octet) /\ Len(octets) = Size(s, written)
  BY <1>1, Zenon DEF Encoding
<1>3. n \in 1 .. Len(s.items) /\ n - 1 = written
  BY <1>1, <1>2
<1>4. UNCHANGED <<struct, limit, decoded, inside, received, offset, flags>>
  BY Zenon DEF decoder
<1>5. CASE at <= limit /\ ~(at > limit)
  <2>1. /\ octets' = octets \o head \o Skipped(s, n)
        /\ written' = n /\ open' = OpenAfter(s, open, n, at) /\ step' = step
    BY <1>5, Zenon DEF Write, Skipped, OpenAfter, Opener
  <2>2. Encoding(s, limit, octets \o head \o Skipped(s, n), n, OpenAfter(s, open, n, at))
    BY <1>1, <1>5, EncodingWrites
  <2>3. Encoding(struct', limit', octets', written', open')
    <3> HIDE DEF at, head, n
    <3> QED BY <1>4, <2>1, <2>2, Zenon
  <2>4. step' = "encoding"
    BY <2>1
  <2> QED BY <1>4, <2>3, <2>4 DEF CodecInv
<1>6. CASE ~(at <= limit) /\ at > limit
  <2>1. step' = "refused"
    BY <1>6, Zenon DEF Write
  <2>2. limit < Total(s)
    <3>1. PICK i \in 1 .. Len(s.items) : i = n
      BY <1>3
    <3>2. /\ Len(HeadAt(s, i)) \in Nat /\ Size(s, i) \in Nat /\ Size(s, i - 1) \in Nat
          /\ Size(s, i - 1) + Len(HeadAt(s, i)) <= Size(s, i) /\ Size(s, i) <= Total(s)
      <4>1. /\ Len(HeadAt(s, i)) \in Nat /\ Size(s, i) \in Nat /\ Size(s, i - 1) \in Nat
            /\ Size(s, i) <= Total(s)
            /\ Opener(s, i) => Size(s, i - 1) + Len(HeadAt(s, i)) = Size(s, i) - 4
            /\ ~Opener(s, i) => Size(s, i - 1) + Len(HeadAt(s, i)) = Size(s, i)
        BY <1>1, HeadPlace
      <4> QED BY <4>1
    <3>3. at = Size(s, i - 1) + Len(HeadAt(s, i))
      BY <1>2, <1>3, <3>1, Zenon
    <3> HIDE DEF at
    <3> QED BY <1>1, <1>6, <3>2, <3>3
  <2>3. limit' < Total(struct')
    BY <1>4, <2>2, Zenon
  <2> QED BY <1>4, <2>1, <2>3 DEF CodecInv
<1>7. (at <= limit /\ ~(at > limit)) \/ (~(at <= limit) /\ at > limit)
  <2>1. Len(octets) \in Nat /\ Len(head) \in Nat
    <3>1. PICK i \in 1 .. Len(s.items) : i = n
      BY <1>3
    <3>2. Len(HeadAt(s, i)) \in Nat
      BY <1>1, HeadPlace
    <3> QED BY <1>2, <3>1, <3>2
  <2>2. at \in Nat
    <3> HIDE DEF head
    <3> QED BY <2>1
  <2> HIDE DEF at
  <2> QED BY <1>1, <2>2
<1> QED BY <1>5, <1>6, <1>7

(* A member is written.                                                    *)
LEMMA EncodeMemberInv ==
  ASSUME CodecInv, EncodeMember
  PROVE  CodecInv'
<1> DEFINE s == struct
           n == written + 1
           item == s.items[n]
<1>1. /\ Legal(s) /\ Len(s.items) \in Nat /\ Fields = Layout(s)
      /\ step = "encoding" /\ written < Len(s.items) /\ open = <<>>
      /\ Encoding(s, limit, octets, written, open)
  BY StructFacts, Zenon DEF CodecInv, EncodeMember
<1>2. written \in 0 .. Len(s.items) /\ Depth(s, n) <= Len(open)
  BY <1>1, Zenon DEF Encoding
<1>3. n \in 1 .. Len(s.items)
  BY <1>1, <1>2
<1>4. item.within = <<>> /\ Depth(s, n) = Len(open)
  <2>1. PICK i \in 1 .. Len(s.items) : i = n
    BY <1>3
  <2>2. s.items[i].within \in Seq({"array", "table"})
    BY <1>1, ItemFacts
  <2>3. Len(s.items[i].within) <= Len(<<>>)
    BY <1>1, <1>2, <2>1, Zenon DEF Depth
  <2>4. s.items[i].within = <<>>
    BY <2>2, <2>3
  <2>5. item.within = <<>>
    BY <2>1, <2>4
  <2> QED BY <1>1, <2>5, Zenon DEF Depth
<1>5. FormatAt(s, n) = Fields[item.place]
  BY <1>1, <1>4, Zenon DEF FormatAt, FormatIn
<1>6. HeadAt(s, n) = E_Value(Fields[item.place], item.data)
  <2>1. E_Value(FormatAt(s, n), item.data) \in Seq(Octet)
    <3>1. PICK i \in 1 .. Len(s.items) : i = n
      BY <1>3
    <3>2. E_Value(FormatAt(s, i), s.items[i].data) \in Seq(Octet)
      BY <1>1, HeadFacts
    <3> QED BY <3>1, <3>2
  <2>2. ~HasKey(item.within)
    BY <1>4, Zenon DEF HasKey
  <2>3. <<>> \o <<>> = <<>>
    OBVIOUS
  <2>4. LeadOf(item) = <<>>
    BY <1>4, <2>2, <2>3, Zenon DEF LeadOf
  <2> QED BY <1>5, <2>1, <2>4, EmptyFirst, Zenon DEF HeadAt
<1>7. Write(HeadAt(s, n), FormatAt(s, n)) /\ UNCHANGED <<struct, limit, decoder>>
  BY <1>5, <1>6, Zenon DEF EncodeMember, Item
<1> QED BY <1>1, <1>4, <1>7, WriteInv

(* An element is written, with its key and kind.                           *)
LEMMA EncodeElementInv ==
  ASSUME CodecInv, EncodeElement
  PROVE  CodecInv'
<1> DEFINE s == struct
           n == written + 1
           item == s.items[n]
<1>1. /\ Legal(s) /\ Len(s.items) \in Nat
      /\ step = "encoding" /\ written < Len(s.items) /\ open # <<>>
      /\ Depth(s, n) = Len(open)
      /\ Encoding(s, limit, octets, written, open)
  BY StructFacts, Zenon DEF CodecInv, EncodeElement, Item, Depth
<1>2. item.within # <<>>
  <2>1. open \in Seq(Nat)
    BY <1>1, Zenon DEF Encoding
  <2>2. Len(open) # Len(<<>>)
    BY <1>1, <2>1
  <2> QED BY <1>1, <2>2, Zenon DEF Depth
<1>3. FormatAt(s, n) = FormatOf(item.kind)
  BY <1>2, Zenon DEF FormatAt, FormatIn
<1>4. HeadAt(s, n) =
        (IF HasKey(item.within) THEN E_String(1, item.key) ELSE <<>>)
          \o <<item.kind>> \o E_Value(FormatOf(item.kind), item.data)
  BY <1>2, <1>3, Zenon DEF HeadAt, LeadOf
<1>5. Write(HeadAt(s, n), FormatAt(s, n)) /\ UNCHANGED <<struct, limit, decoder>>
  BY <1>3, <1>4, Zenon DEF EncodeElement, Item
<1> QED BY <1>1, <1>5, WriteInv

(* The size of an array or a table is written.                             *)
LEMMA EncodeCloseInv ==
  ASSUME CodecInv, EncodeClose
  PROVE  CodecInv'
<1> DEFINE s == struct
           at == Innermost(open)
<1>1. /\ Legal(s) /\ Total(s) \in Nat /\ Len(s.items) \in Nat /\ limit \in Nat
      /\ step = "encoding" /\ open # <<>>
      /\ written < Len(s.items) => Depth(s, written + 1) < Len(open)
      /\ Encoding(s, limit, octets, written, open)
  BY StructFacts, Zenon DEF CodecInv, EncodeClose, Item, Depth
<1>2. UNCHANGED <<struct, limit, written, decoded, inside, received, offset, flags>>
  BY Zenon DEF EncodeClose, decoder
<1>3. /\ at + 4 <= Total(s) /\ at \in Nat
      /\ at + 4 <= limit =>
           Encoding(s, limit, Patched(octets, at, Octets(4, Len(octets) - at - 4)), written,
                    SubSeq(open, 1, Len(open) - 1))
  BY <1>1, EncodingCloses
<1>4. CASE at + 4 <= limit /\ ~(at + 4 > limit)
  <2>1. /\ octets' = Patched(octets, at, Octets(4, Len(octets) - at - 4))
        /\ open' = SubSeq(open, 1, Len(open) - 1) /\ step' = step
    BY <1>4, Zenon DEF EncodeClose, Patched, SizeWritten
  <2>2. Encoding(struct', limit', octets', written', open')
    BY <1>2, <1>3, <1>4, <2>1, Zenon
  <2>3. step' = "encoding"
    BY <1>1, <2>1
  <2> QED BY <1>1, <1>2, <2>2, <2>3 DEF CodecInv
<1>5. CASE ~(at + 4 <= limit) /\ at + 4 > limit
  <2>1. step' = "refused"
    BY <1>5, Zenon DEF EncodeClose
  <2>2. limit < Total(s)
    BY <1>1, <1>3, <1>5
  <2>3. limit' < Total(struct')
    BY <1>2, <2>2, Zenon
  <2> QED BY <1>1, <1>2, <2>1, <2>3 DEF CodecInv
<1>6. (at + 4 <= limit /\ ~(at + 4 > limit)) \/ (~(at + 4 <= limit) /\ at + 4 > limit)
  <2> HIDE DEF at
  <2> QED BY <1>1, <1>3
<1> QED BY <1>4, <1>5, <1>6

(* The encoder returns.                                                    *)
LEMMA EncodeDoneInv ==
  ASSUME CodecInv, EncodeDone
  PROVE  CodecInv'
<1>1. /\ Legal(struct) /\ limit \in Nat /\ step' = "encoded"
      /\ Encoding(struct, limit, octets, Len(struct.items), <<>>)
      /\ UNCHANGED <<struct, limit, octets, written, open, decoded, inside>>
      /\ decoded = <<>> /\ inside = <<>>
  BY StructFacts, Zenon DEF CodecInv, EncodeDone, encoder, decoder
<1>2. Encoded(struct, octets) /\ Len(octets) <= limit
  BY <1>1, EncodingEnds
<1>3. Total(struct) <= limit
  BY <1>2, Zenon DEF Encoded
<1>4. Encoded(struct', octets') /\ Total(struct') <= limit' /\ decoded' = <<>> /\ inside' = <<>>
      /\ struct' \in Structs /\ limit' \in Nat
  BY <1>1, <1>2, <1>3, Zenon DEF CodecInv
<1> QED BY <1>1, <1>4 DEF CodecInv

(* A decoder is called.                                                    *)
LEMMA DecodeInv ==
  ASSUME CodecInv, NEW length \in Nearly(Len(octets)), Decode(length)
  PROVE  CodecInv'
<1> DEFINE s == struct
           in == SubSeq(octets, 1, length)
           r == FlagsRead(s, in)
<1>1. /\ Legal(s) /\ step = "encoded" /\ Encoded(s, octets) /\ Total(s) <= limit
      /\ limit \in Nat /\ Len(s.items) \in Nat /\ decoded = <<>> /\ inside = <<>>
  BY StructFacts, Zenon DEF CodecInv, Decode
<1>2. octets \in Seq(Octet) /\ Len(octets) = Total(s)
  BY <1>1, Zenon DEF Encoded
<1>3. length \in 0 .. Len(octets)
  BY DEF Nearly
<1>4. Payload(s, in) /\ Len(in) = length
  BY <1>1, <1>3, PayloadOf
<1>5. UNCHANGED <<struct, limit, octets, written, open, decoded, inside>> /\ received' = length
  BY Zenon DEF Decode, encoder
<1>6. /\ r.ok => r.value = s.flags /\ Decoding(s, in, 0, r.offset, <<>>, <<>>)
      /\ ~r.ok => Len(in) < Total(s)
  BY <1>1, <1>4, DecodingBegins
<1>7. /\ struct' \in Structs /\ limit' \in Nat /\ Encoded(struct', octets')
      /\ Total(struct') <= limit' /\ received' \in 0 .. Len(octets')
  BY <1>1, <1>3, <1>5, Zenon DEF CodecInv
<1>8. CASE r.ok
  <2>1. step' = "decoding" /\ flags' = r.value /\ offset' = r.offset
    BY <1>8, Zenon DEF Decode, FlagsRead
  <2>2. flags' = struct'.flags
    BY <1>5, <1>6, <1>8, <2>1, Zenon
  <2>3. 0 \in 0 .. Len(struct'.items)
    BY <1>1, <1>5
  <2>4. Decoding(struct', SubSeq(octets', 1, received'), 0, offset', decoded', inside')
    <3> HIDE DEF r
    <3> QED BY <1>1, <1>5, <1>6, <1>8, <2>1, Zenon
  <2>5. \E k \in 0 .. Len(struct'.items) :
          Decoding(struct', SubSeq(octets', 1, received'), k, offset', decoded', inside')
    BY <2>3, <2>4, Zenon
  <2> HIDE DEF r, in, s
  <2> QED BY <1>7, <2>1, <2>2, <2>5 DEF CodecInv
<1>9. CASE ~r.ok
  <2>1. step' = "rejected"
    BY <1>9, Zenon DEF Decode, FlagsRead
  <2>2. length < Len(octets)
    BY <1>2, <1>4, <1>6, <1>9, Zenon
  <2>3. received' < Len(octets')
    BY <1>5, <2>2, Zenon
  <2> HIDE DEF r, in, s
  <2> QED BY <1>7, <2>1, <2>3 DEF CodecInv
<1> QED BY <1>8, <1>9

(* What is common to the steps of the decoder.                             *)
LEMMA DecodingFacts ==
  ASSUME CodecInv, step = "decoding"
  PROVE  /\ struct \in Structs /\ Legal(struct) /\ Len(struct.items) \in Nat /\ limit \in Nat
         /\ Encoded(struct, octets) /\ Total(struct) <= limit /\ received \in 0 .. Len(octets)
         /\ flags = struct.flags /\ Payload(struct, In) /\ Len(In) = received
         /\ Len(octets) = Total(struct) /\ Len(octets) \in Nat /\ In \in Seq(Octet)
         /\ DecodedFields(struct.form, flags) = Layout(struct)
         /\ \E k \in 0 .. Len(struct.items) :
              Decoding(struct, In, k, offset, decoded, inside)
<1>1. /\ struct \in Structs /\ Legal(struct) /\ Len(struct.items) \in Nat /\ limit \in Nat
      /\ Encoded(struct, octets) /\ Total(struct) <= limit /\ received \in 0 .. Len(octets)
      /\ flags = struct.flags
      /\ \E k \in 0 .. Len(struct.items) :
           Decoding(struct, In, k, offset, decoded, inside)
  BY StructFacts, Zenon DEF CodecInv, In
<1>2. Payload(struct, In) /\ Len(In) = received /\ Len(octets) = Total(struct)
  BY <1>1, PayloadOf DEF In
<1>3. Len(octets) \in Nat /\ In \in Seq(Octet)
  <2>1. octets \in Seq(Octet)
    BY <1>1, Zenon DEF Encoded
  <2>2. In \in Seq(Octet)
    BY <1>2, Zenon DEF Payload
  <2> QED BY <2>1, <2>2
<1>4. DecodedFields(struct.form, flags) = Layout(struct)
  BY <1>1, SameFields, Zenon DEF Layout
<1> QED BY <1>1, <1>2, <1>3, <1>4, Zenon

(* The next item is taken, or the payload ends within it.                  *)
LEMMA TakeInv ==
  ASSUME CodecInv, step = "decoding", NEW k \in 0 .. Len(struct.items),
         Decoding(struct, In, k, offset, decoded, inside),
         k < Len(struct.items), Depth(struct, k + 1) = Len(inside),
         NEW item, NEW format,
         item = Reading(In, offset, HeadAt(struct, k + 1), struct.items[k + 1]),
         item.ok => format = FormatAt(struct, k + 1),
         Take(item, format), UNCHANGED <<struct, encoder, received, flags>>
  PROVE  CodecInv'
<1> DEFINE s == struct
           n == k + 1
           size == SizeRead(s, In, Size(s, n - 1), n)
           end == size.offset + size.value
<1>1. /\ struct \in Structs /\ Legal(s) /\ Len(s.items) \in Nat /\ limit \in Nat
      /\ Encoded(s, octets) /\ Total(s) <= limit /\ received \in 0 .. Len(octets)
      /\ flags = s.flags /\ Payload(s, In) /\ Len(In) = received
      /\ Len(octets) = Total(s) /\ Len(octets) \in Nat
  BY DecodingFacts, Zenon
<1>2. /\ n \in 1 .. Len(s.items) /\ n - 1 = k /\ offset = Size(s, n - 1)
      /\ Size(s, n - 1) <= Len(In)
  <2>1. n \in 1 .. Len(s.items) /\ n - 1 = k
    BY <1>1
  <2>2. offset = Size(s, k) /\ offset <= Len(In)
    BY Zenon DEF Decoding
  <2> QED BY <2>1, <2>2, Zenon
<1>3. UNCHANGED <<struct, limit, octets, written, open, received, flags>>
  BY Zenon DEF encoder
<1>4. size = Then(item, LAMBDA r : IF Opens(format) THEN D_32(In, r.offset) ELSE r)
  <2>1. item = Reading(In, Size(s, n - 1), HeadAt(s, n), s.items[n])
    BY <1>2, Zenon
  <2>2. CASE item.ok
    <3>1. format = FormatAt(s, n)
      BY <2>2, Zenon
    <3> HIDE DEF n, s
    <3> QED BY <2>1, <3>1, Zenon DEF SizeRead, Opener, Then
  <2>3. CASE ~item.ok
    <3> HIDE DEF n, s
    <3> QED BY <2>1, <2>3, Zenon DEF SizeRead, Then
  <2> QED BY <2>2, <2>3
<1>5. /\ size.ok =>
           /\ size.offset = Size(s, n) /\ Size(s, n) <= Len(In)
           /\ Reading(In, Size(s, n - 1), HeadAt(s, n), s.items[n]).value = s.items[n]
           /\ Opener(s, n) => \E e \in n .. Len(s.items) :
                Ends(s, n, Depth(s, n) + 1, e) /\ end = Size(s, e)
      /\ ~size.ok => Len(In) < Total(s)
  <2>1. PICK i \in 1 .. Len(s.items) : i = n
    BY <1>2
  <2>2. Size(s, i - 1) <= Len(In)
    BY <1>2, <2>1, Zenon
  <2>3. LET z == SizeRead(s, In, Size(s, i - 1), i)
        IN /\ z.ok =>
                 /\ z.offset = Size(s, i) /\ Size(s, i) <= Len(In)
                 /\ Reading(In, Size(s, i - 1), HeadAt(s, i), s.items[i]).value = s.items[i]
                 /\ Opener(s, i) =>
                      \E e \in i .. Len(s.items) :
                        /\ Ends(s, i, Depth(s, i) + 1, e)
                        /\ z.offset + z.value = Size(s, e)
           /\ ~z.ok => Len(In) < Total(s)
    BY <1>1, <2>2, SizeIsRead
  <2> HIDE DEF n, s
  <2> QED BY <2>1, <2>3, Zenon
<1>6. /\ struct' \in Structs /\ limit' \in Nat /\ Encoded(struct', octets')
      /\ Total(struct') <= limit' /\ received' \in 0 .. Len(octets')
  BY <1>1, <1>3, Zenon
<1>7. CASE size.ok
  <2>1. /\ decoded' = Append(decoded, item.value) /\ offset' = size.offset /\ step' = step
        /\ inside' = IF Opens(format)
                       THEN Append(inside, [coding |-> format.coding, limit |-> end])
                       ELSE inside
    <3> HIDE DEF size
    <3> QED BY <1>4, <1>7, Zenon DEF Take, size
  <2>2. item.ok
    <3>1. ASSUME ~item.ok PROVE FALSE
      <4>1. size = Failed
        <5> HIDE DEF size
        <5> QED BY <1>4, <3>1, Zenon DEF Then
      <4> HIDE DEF size
      <4> QED BY <1>7, <4>1, ReadFacts
    <3> QED BY <3>1
  <2>3. item.value = s.items[n] /\ format = FormatAt(s, n)
    <3>1. item = Reading(In, Size(s, n - 1), HeadAt(s, n), s.items[n])
      BY <1>2, Zenon
    <3> HIDE DEF size
    <3> QED BY <1>5, <1>7, <2>2, <3>1, Zenon
  <2>4. /\ decoded' = Append(decoded, s.items[n]) /\ offset' = Size(s, n)
        /\ inside' = InsideAfter(s, inside, n, end)
    <3> HIDE DEF size, n, s
    <3> QED BY <1>5, <1>7, <2>1, <2>3, Zenon DEF InsideAfter, Opener
  <2>5. Decoding(s, In, n, Size(s, n), Append(decoded, s.items[n]),
                 InsideAfter(s, inside, n, end))
    <3>1. /\ Size(s, n) <= Len(In)
          /\ Opener(s, n) => \E e \in n .. Len(s.items) :
               Ends(s, n, Depth(s, n) + 1, e) /\ end = Size(s, e)
      <4> HIDE DEF size, n, s
      <4> QED BY <1>5, <1>7, Zenon
    <3> HIDE DEF end, s
    <3> QED BY <1>1, <3>1, DecodingTakes DEF s
  <2>6. Decoding(struct', SubSeq(octets', 1, received'), n, offset', decoded', inside')
    <3> HIDE DEF n, end
    <3> QED BY <1>3, <2>4, <2>5, Zenon DEF In
  <2>7. n \in 0 .. Len(struct'.items)
    BY <1>1, <1>2, <1>3
  <2>8. \E i \in 0 .. Len(struct'.items) :
          Decoding(struct', SubSeq(octets', 1, received'), i, offset', decoded', inside')
    BY <2>6, <2>7, Zenon
  <2>9. step' = "decoding" /\ flags' = struct'.flags
    BY <1>1, <1>3, <2>1, Zenon
  <2> HIDE DEF size, end, n, s
  <2> QED BY <1>6, <2>8, <2>9 DEF CodecInv
<1>8. CASE ~size.ok
  <2>1. step' = "rejected"
    <3> HIDE DEF size
    <3> QED BY <1>4, <1>8, Zenon DEF Take, size
  <2>2. received < Len(octets)
    BY <1>1, <1>5, <1>8, Zenon
  <2>3. received' < Len(octets')
    BY <1>3, <2>2, Zenon
  <2> HIDE DEF size, n, s
  <2> QED BY <1>6, <2>1, <2>3 DEF CodecInv
<1> QED BY <1>7, <1>8

(* The octets of the next item are where the decoder has come to.          *)
LEMMA NextHeld ==
  ASSUME NEW s, Legal(s), NEW in, Payload(s, in), NEW k, NEW off, NEW dec, NEW ins,
         Decoding(s, in, k, off, dec, ins), k < Len(s.items)
  PROVE  /\ k + 1 \in 1 .. Len(s.items) /\ in \in Seq(Octet) /\ off \in Nat /\ off <= Len(in)
         /\ Holds(in, off, HeadAt(s, k + 1))
<1>1. k \in 0 .. Len(s.items) /\ Len(s.items) \in Nat /\ off = Size(s, k) /\ off <= Len(in)
      /\ in \in Seq(Octet)
  BY LegalParts, Zenon DEF Decoding, Payload
<1>2. k + 1 \in 1 .. Len(s.items) /\ (k + 1) - 1 = k
  BY <1>1
<1>3. PICK i \in 1 .. Len(s.items) : i = k + 1
  BY <1>2
<1>4. Holds(in, Size(s, i - 1), HeadAt(s, i)) /\ Size(s, i - 1) \in Nat
  <2>1. Holds(in, Size(s, i - 1), HeadAt(s, i))
    BY Zenon DEF Payload, HoldsHead
  <2> QED BY <2>1, HeadPlace
<1> QED BY <1>1, <1>2, <1>3, <1>4, Zenon

(* A member is read.                                                       *)
LEMMA DecodeMemberInv ==
  ASSUME CodecInv, DecodeMember
  PROVE  CodecInv'
<1> DEFINE s == struct
           fields == DecodedFields(struct.form, flags)
           place == Place(decoded) + 1
           format == fields[place]
           item == Then(D_Value(In, offset, format), LAMBDA r :
                     Read([place |-> place, names |-> format.names, within |-> <<>>,
                           key |-> <<>>, kind |-> 0, data |-> r.value], r.offset))
<1>1. /\ step = "decoding" /\ inside = <<>> /\ place <= Len(fields) /\ Take(item, format)
      /\ UNCHANGED <<struct, encoder, received, flags>>
  BY Zenon DEF DecodeMember
<1>2. /\ Legal(s) /\ Payload(s, In) /\ fields = Layout(s)
      /\ \E k \in 0 .. Len(s.items) : Decoding(s, In, k, offset, decoded, inside)
  BY <1>1, DecodingFacts, Zenon
<1>3. PICK k \in 0 .. Len(s.items) : Decoding(s, In, k, offset, decoded, inside)
  BY <1>2, Zenon
<1>4. /\ k < Len(s.items) /\ s.items[k + 1].within = <<>> /\ Depth(s, k + 1) = 0
      /\ s.items[k + 1].place = place
  <2>1. Decoding(s, In, k, offset, decoded, <<>>) /\ Place(decoded) + 1 <= Len(Layout(s))
    BY <1>1, <1>2, <1>3, Zenon
  <2> HIDE DEF s
  <2> QED BY <1>2, <2>1, NextMember
<1>5. PICK i \in 1 .. Len(s.items) : i = k + 1
  BY <1>2, <1>3, <1>4, NextHeld, Zenon
<1>6. In \in Seq(Octet) /\ offset \in Nat /\ offset <= Len(In) /\ Holds(In, offset, HeadAt(s, i))
  BY <1>2, <1>3, <1>4, <1>5, NextHeld, Zenon
<1>7. format = Layout(s)[s.items[i].place] /\ s.items[i].place = place
  BY <1>2, <1>4, <1>5, Zenon
<1>8. /\ format = FormatAt(s, i)
      /\ MemberRead(In, offset, format, s.items[i].place)
           = Reading(In, offset, HeadAt(s, i), s.items[i])
  <2>1. s.items[i].within = <<>>
    BY <1>4, <1>5, Zenon
  <2> HIDE DEF format, s
  <2> QED BY <1>2, <1>6, <1>7, <2>1, MemberIsRead
<1>9. item = Reading(In, offset, HeadAt(s, i), s.items[i])
  <2>1. item = MemberRead(In, offset, format, place)
    <3> HIDE DEF place, format
    <3> QED BY Zenon DEF MemberRead
  <2> HIDE DEF place, format, item
  <2> QED BY <1>7, <1>8, <2>1, Zenon
<1>10. /\ item = Reading(In, offset, HeadAt(s, k + 1), s.items[k + 1])
       /\ format = FormatAt(s, k + 1)
  <2> HIDE DEF item, format
  <2> QED BY <1>5, <1>8, <1>9, Zenon
<1>11. Depth(s, k + 1) = Len(inside)
  <2>1. Len(<<>>) = 0
    OBVIOUS
  <2> QED BY <1>1, <1>4, <2>1, Zenon
<1>12. \A v, f : v = item /\ f = format => CodecInv'
  <2> SUFFICES ASSUME NEW v, NEW f, v = item, f = format PROVE CodecInv'
    BY Zenon
  <2> HIDE DEF item, format
  <2>1. v = Reading(In, offset, HeadAt(struct, k + 1), struct.items[k + 1])
        /\ (v.ok => f = FormatAt(struct, k + 1)) /\ Take(v, f)
    BY <1>1, <1>10, Zenon
  <2> QED BY <1>1, <1>3, <1>4, <1>11, <2>1, TakeInv, Zenon
<1> QED BY <1>12, Zenon

(* An element is read.                                                     *)
LEMMA DecodeElementInv ==
  ASSUME CodecInv, DecodeElement
  PROVE  CodecInv'
<1> DEFINE s == struct
           fields == DecodedFields(struct.form, flags)
           format == FormatOf(D_Kind.value)
           item == Then(D_Kind, LAMBDA kind :
                   Then(D_Value(In, kind.offset, format), LAMBDA r :
                     Read([place |-> Place(decoded), names |-> fields[Place(decoded)].names,
                           within |-> Within, key |-> D_Key.value, kind |-> kind.value,
                           data |-> r.value], r.offset)))
<1>1. /\ step = "decoding" /\ inside # <<>> /\ offset < Innermost(inside).limit
      /\ Take(item, format) /\ UNCHANGED <<struct, encoder, received, flags>>
  BY Zenon DEF DecodeElement
<1>2. /\ Legal(s) /\ Payload(s, In) /\ fields = Layout(s)
      /\ \E k \in 0 .. Len(s.items) : Decoding(s, In, k, offset, decoded, inside)
  BY <1>1, DecodingFacts, Zenon
<1>3. PICK k \in 0 .. Len(s.items) : Decoding(s, In, k, offset, decoded, inside)
  BY <1>2, Zenon
<1>4. /\ k < Len(s.items) /\ Depth(s, k + 1) = Len(inside) /\ s.items[k + 1].within # <<>>
      /\ s.items[k + 1].within = Within /\ s.items[k + 1].place = Place(decoded)
  <2>1. Within = [l \in DOMAIN inside |-> inside[l].coding]
    BY Zenon DEF Within
  <2> HIDE DEF s
  <2> QED BY <1>1, <1>2, <1>3, <2>1, NextElement
<1>5. PICK i \in 1 .. Len(s.items) : i = k + 1
  BY <1>2, <1>3, <1>4, NextHeld, Zenon
<1>6. In \in Seq(Octet) /\ offset \in Nat /\ offset <= Len(In) /\ Holds(In, offset, HeadAt(s, i))
  BY <1>2, <1>3, <1>4, <1>5, NextHeld, Zenon
<1>7. /\ s.items[i].within # <<>> /\ s.items[i].within = Within
      /\ s.items[i].place = Place(decoded) /\ s.items[i].names = fields[Place(decoded)].names
  <2>1. s.items[i].names = Layout(s)[s.items[i].place]
          .names
    BY <1>2, ItemFacts
  <2> QED BY <1>2, <1>4, <1>5, <2>1, Zenon
<1>8. D_Key = KeyRead(In, offset, Within) /\ D_Kind = KindRead(In, offset, Within)
  <2>1. D_Key = KeyRead(In, offset, Within)
    BY Zenon DEF D_Key, KeyRead
  <2> QED BY <2>1, Zenon DEF D_Kind, KindRead
<1>9. item = ElementRead(In, offset, Within, Place(decoded), fields[Place(decoded)].names)
  <2> HIDE DEF fields
  <2> QED BY <1>8, Zenon DEF ElementRead, Then
<1>10. /\ ElementRead(In, offset, s.items[i].within, s.items[i].place, s.items[i].names)
            = Reading(In, offset, HeadAt(s, i), s.items[i])
       /\ Reading(In, offset, HeadAt(s, i), s.items[i]).ok =>
            FormatOf(KindRead(In, offset, s.items[i].within).value) = FormatAt(s, i)
  <2> HIDE DEF s
  <2> QED BY <1>2, <1>6, <1>7, ElementIsRead
<1>11. /\ item = Reading(In, offset, HeadAt(s, k + 1), s.items[k + 1])
       /\ item.ok => format = FormatAt(s, k + 1)
  <2>1. item = Reading(In, offset, HeadAt(s, i), s.items[i])
    <3> HIDE DEF item, fields
    <3> QED BY <1>7, <1>9, <1>10, Zenon
  <2>2. item.ok => format = FormatAt(s, i)
    <3> HIDE DEF item
    <3> QED BY <1>7, <1>8, <1>10, <2>1, Zenon
  <2> HIDE DEF item, format
  <2> QED BY <1>5, <2>1, <2>2, Zenon
<1>12. \A v, f : v = item /\ f = format => CodecInv'
  <2> SUFFICES ASSUME NEW v, NEW f, v = item, f = format PROVE CodecInv'
    BY Zenon
  <2> HIDE DEF item, format
  <2>1. v = Reading(In, offset, HeadAt(struct, k + 1), struct.items[k + 1])
        /\ (v.ok => f = FormatAt(struct, k + 1)) /\ Take(v, f)
    BY <1>1, <1>11, Zenon
  <2> QED BY <1>1, <1>3, <1>4, <2>1, TakeInv, Zenon
<1> QED BY <1>12, Zenon

(* The end of an array or a table is reached.                              *)
LEMMA DecodeCloseInv ==
  ASSUME CodecInv, DecodeClose
  PROVE  CodecInv'
<1>1. /\ step = "decoding" /\ inside # <<>> /\ offset >= Innermost(inside).limit
      /\ inside' = SubSeq(inside, 1, Len(inside) - 1)
      /\ UNCHANGED <<struct, step, limit, octets, written, open, received, offset, flags, decoded>>
  BY Zenon DEF DecodeClose, encoder
<1>2. /\ struct \in Structs /\ Legal(struct) /\ limit \in Nat
      /\ Encoded(struct, octets) /\ Total(struct) <= limit /\ received \in 0 .. Len(octets)
      /\ flags = struct.flags
      /\ \E k \in 0 .. Len(struct.items) : Decoding(struct, In, k, offset, decoded, inside)
  BY <1>1, DecodingFacts, Zenon
<1>3. PICK k \in 0 .. Len(struct.items) : Decoding(struct, In, k, offset, decoded, inside)
  BY <1>2, Zenon
<1>4. Decoding(struct, In, k, offset, decoded, SubSeq(inside, 1, Len(inside) - 1))
  BY <1>1, <1>2, <1>3, DecodingCloses
<1>5. Decoding(struct', SubSeq(octets', 1, received'), k, offset', decoded', inside')
  BY <1>1, <1>4, Zenon DEF In
<1>6. \E i \in 0 .. Len(struct'.items) :
        Decoding(struct', SubSeq(octets', 1, received'), i, offset', decoded', inside')
  BY <1>1, <1>5, Zenon
<1>7. /\ struct' \in Structs /\ limit' \in Nat /\ Encoded(struct', octets')
      /\ Total(struct') <= limit' /\ received' \in 0 .. Len(octets')
      /\ flags' = struct'.flags /\ step' = "decoding"
  BY <1>1, <1>2, Zenon
<1> QED BY <1>6, <1>7 DEF CodecInv

(* The decoder returns.                                                    *)
LEMMA DecodeDoneInv ==
  ASSUME CodecInv, DecodeDone
  PROVE  CodecInv'
<1>1. /\ step = "decoding" /\ inside = <<>>
      /\ Place(decoded) = Len(DecodedFields(struct.form, flags)) /\ step' = "decoded"
      /\ UNCHANGED <<struct, limit, octets, written, open, received, offset, flags, decoded, inside>>
  BY Zenon DEF DecodeDone, encoder, decoder
<1>2. /\ struct \in Structs /\ Legal(struct) /\ limit \in Nat
      /\ Encoded(struct, octets) /\ Total(struct) <= limit /\ received \in 0 .. Len(octets)
      /\ flags = struct.flags /\ Len(In) = received /\ Len(octets) = Total(struct)
      /\ Len(octets) \in Nat /\ DecodedFields(struct.form, flags) = Layout(struct)
      /\ \E k \in 0 .. Len(struct.items) : Decoding(struct, In, k, offset, decoded, inside)
  BY <1>1, DecodingFacts, Zenon
<1>3. PICK k \in 0 .. Len(struct.items) : Decoding(struct, In, k, offset, decoded, <<>>)
  BY <1>1, <1>2, Zenon
<1>4. decoded = struct.items /\ offset = Total(struct) /\ Total(struct) <= Len(In)
  BY <1>1, <1>2, <1>3, DecodingEnds, Zenon
<1>5. received = Len(octets)
  BY <1>2, <1>4
<1>6. /\ struct' \in Structs /\ limit' \in Nat /\ Encoded(struct', octets')
      /\ Total(struct') <= limit' /\ received' \in 0 .. Len(octets')
      /\ decoded' = struct'.items /\ flags' = struct'.flags /\ offset' = Total(struct')
      /\ received' = Len(octets')
  BY <1>1, <1>2, <1>4, <1>5, Zenon
<1> QED BY <1>1, <1>6 DEF CodecInv

-----------------------------------------------------------------------------
(* What the encoder and the decoder promise.                               *)

(* The invariant that the three theorems below follow from: what the       *)
(* buffer holds and the calls that are active while a struct is encoded,   *)
(* and how far the decoder has come in the items of the struct.            *)
THEOREM CodecKeepsInvariant == Spec => []CodecInv
<1>1. Init => CodecInv
  BY InitInv
<1>2. CodecInv /\ [Next]_vars => CodecInv'
  <2> SUFFICES ASSUME CodecInv, [Next]_vars PROVE CodecInv'
    OBVIOUS
  <2>1. ASSUME NEW size \in Nearly(Total(struct) + 1), Encode(size) PROVE CodecInv'
    BY <2>1, EncodeInv
  <2>2. CASE EncodeMember
    BY <2>2, EncodeMemberInv
  <2>3. CASE EncodeElement
    BY <2>3, EncodeElementInv
  <2>4. CASE EncodeClose
    BY <2>4, EncodeCloseInv
  <2>5. CASE EncodeDone
    BY <2>5, EncodeDoneInv
  <2>6. ASSUME NEW length \in Nearly(Len(octets)), Decode(length) PROVE CodecInv'
    BY <2>6, DecodeInv
  <2>7. CASE DecodeMember
    BY <2>7, DecodeMemberInv
  <2>8. CASE DecodeElement
    BY <2>8, DecodeElementInv
  <2>9. CASE DecodeClose
    BY <2>9, DecodeCloseInv
  <2>10. CASE DecodeDone
    BY <2>10, DecodeDoneInv
  <2>11. CASE UNCHANGED vars
    <3>1. UNCHANGED <<struct, step, limit, octets, written, open,
                      received, offset, flags, decoded, inside>>
      BY <2>11, Zenon DEF vars, encoder, decoder
    <3> QED BY <3>1, Zenon DEF CodecInv
  <2> QED BY <2>1, <2>2, <2>3, <2>4, <2>5, <2>6, <2>7, <2>8, <2>9, <2>10, <2>11, Zenon DEF Next
<1> QED BY <1>1, <1>2, PTL DEF Spec

(* Whatever a program encodes, the decoder gives it back: every member and *)
(* every element of a nested table, in its place and with its key, kind    *)
(* and value, and the flags; it rejects nothing that came in full          *)
(* (amqp_encode_method and amqp_decode_method, amqp_encode_properties and  *)
(* amqp_decode_properties, and amqp_table.c).                              *)
THEOREM DecodesWhatWasEncoded == Spec => []RoundTrip
<1>1. CodecInv => RoundTrip
  <2> SUFFICES ASSUME CodecInv PROVE RoundTrip
    OBVIOUS
  <2>1. step = "rejected" => received < Len(octets)
    BY Zenon DEF CodecInv
  <2>2. step = "decoded" => decoded = struct.items /\ flags = struct.flags /\ offset = Len(octets)
    BY Zenon DEF CodecInv, Encoded
  <2> QED BY <2>1, <2>2, Zenon DEF RoundTrip
<1> QED BY <1>1, CodecKeepsInvariant, PTL

(* No prefix of the octets of a struct is taken for a struct, wherever it  *)
(* is cut: a CHECK_LIMIT of amqp_private.h fails and the failure reaches   *)
(* the caller.                                                             *)
THEOREM CutPayloadIsRejected == Spec => []CutIsRejected
<1>1. CodecInv => CutIsRejected
  BY Zenon DEF CodecInv, CutIsRejected
<1> QED BY <1>1, CodecKeepsInvariant, PTL

(* The encoder refuses only a buffer that is too small, and what it writes *)
(* ends where the items end and within the limit, though                   *)
(* amqp_encode_table and amqp_encode_array skip the size they fill in      *)
(* later without a look at the limit.                                      *)
THEOREM EncoderKeepsToTheLimit == Spec => []EncodesWhatFits
<1>1. CodecInv => EncodesWhatFits
  BY Zenon DEF CodecInv, EncodesWhatFits, Encoded
<1> QED BY <1>1, CodecKeepsInvariant, PTL
=============================================================================
