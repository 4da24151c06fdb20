--------------------------- MODULE SequenceLemmas ---------------------------
(***************************************************************************)
(* What the proofs need to know of sequences: elements that are appended,  *)
(* removed, or moved from one sequence to the next one.                    *)
(***************************************************************************)
EXTENDS Integers, Sequences, SequencesExt, SequenceTheorems, TLAPS

(* The tail of a sequence, element by element.                              *)
LEMMA TailFacts ==
  ASSUME NEW S, NEW s \in Seq(S), s # <<>>
  PROVE  /\ Head(s) \in S /\ Tail(s) \in Seq(S)
         /\ 1 \in DOMAIN s /\ Head(s) = s[1]
         /\ \A i \in DOMAIN Tail(s) : i \in Nat \ {0} /\ i + 1 \in DOMAIN s /\ Tail(s)[i] = s[i + 1]
  OBVIOUS

(* A sequence with one more element.                                       *)
LEMMA AppendFacts ==
  ASSUME NEW S, NEW s \in Seq(S), NEW e \in S
  PROVE  /\ Append(s, e) \in Seq(S)
         /\ Len(s) + 1 \notin DOMAIN s
         /\ \A i \in DOMAIN Append(s, e) :
              \/ i \in DOMAIN s /\ Append(s, e)[i] = s[i]
              \/ i = Len(s) + 1 /\ Append(s, e)[i] = e
  OBVIOUS

(* RemoveAt closes the gap it makes.                                       *)
LEMMA RemoveAtFacts ==
  ASSUME NEW S, NEW s \in Seq(S), NEW i \in 1 .. Len(s)
  PROVE  /\ RemoveAt(s, i) \in Seq(S)
         /\ Len(RemoveAt(s, i)) = Len(s) - 1
         /\ \A k \in 1 .. Len(s) - 1 :
              RemoveAt(s, i)[k] = IF k < i THEN s[k] ELSE s[k + 1]
<1> DEFINE a == SubSeq(s, 1, i - 1)
           b == SubSeq(s, i + 1, Len(s))
<1>1. a \in Seq(S) /\ Len(a) = i - 1 /\ \A k \in 1 .. i - 1 : a[k] = s[k]
  OBVIOUS
<1>2. b \in Seq(S) /\ Len(b) = Len(s) - i /\ \A k \in 1 .. Len(s) - i : b[k] = s[k + i]
  OBVIOUS
<1>3. RemoveAt(s, i) = a \o b
  BY DEF RemoveAt
<1> HIDE DEF a, b
<1>4. /\ a \o b \in Seq(S)
      /\ Len(a \o b) = Len(s) - 1
      /\ \A k \in 1 .. Len(s) - 1 : (a \o b)[k] = IF k <= i - 1 THEN a[k] ELSE b[k - (i - 1)]
  <2>1. /\ a \o b \in Seq(S)
        /\ Len(a \o b) = Len(a) + Len(b)
        /\ \A k \in 1 .. Len(a) + Len(b) :
             (a \o b)[k] = IF k <= Len(a) THEN a[k] ELSE b[k - Len(a)]
    BY <1>1, <1>2, ConcatProperties
  <2>2. Len(a) + Len(b) = Len(s) - 1
    BY <1>1, <1>2
  <2> QED BY <1>1, <2>1, <2>2
<1>5. ASSUME NEW k \in 1 .. Len(s) - 1
      PROVE  (a \o b)[k] = IF k < i THEN s[k] ELSE s[k + 1]
  <2>1. CASE k < i
    BY <1>1, <1>4, <2>1
  <2>2. CASE ~(k < i)
    <3>1. k - (i - 1) \in 1 .. Len(s) - i /\ k - (i - 1) + i = k + 1
      BY <2>2
    <3>2. (a \o b)[k] = b[k - (i - 1)]
      BY <1>4, <2>2
    <3> QED BY <1>2, <2>2, <3>1, <3>2
  <2> QED BY <2>1, <2>2
<1> QED BY <1>3, <1>4, <1>5

(* s \o t when t gets one more element.                                    *)
LEMMA AppendRight ==
  ASSUME NEW S, NEW s \in Seq(S), NEW t \in Seq(S), NEW e \in S
  PROVE  /\ s \o Append(t, e) = Append(s \o t, e)
         /\ s \o Append(t, e) = Append(s \o t, Last(s \o Append(t, e)))
         /\ Last(s \o Append(t, e)) = e
<1>1. s \o t \in Seq(S) /\ Append(t, e) = t \o <<e>> /\ <<e>> \in Seq(S)
  BY ConcatProperties, AppendIsConcat
<1>2. s \o Append(t, e) = Append(s \o t, e)
  <2>1. Append(s \o t, e) = (s \o t) \o <<e>>
    BY <1>1, AppendIsConcat
  <2>2. (s \o t) \o <<e>> = s \o (t \o <<e>>)
    BY <1>1, ConcatAssociative
  <2> QED BY <1>1, <2>1, <2>2
<1>3. Last(Append(s \o t, e)) = e
  BY <1>1, AppendProperties DEF Last
<1> QED BY <1>2, <1>3

(* s \o t when the first element of t moves to the end of s.              *)
LEMMA MoveAcross ==
  ASSUME NEW S, NEW s \in Seq(S), NEW t \in Seq(S), t # <<>>
  PROVE  Append(s, Head(t)) \o Tail(t) = s \o t
<1>1. Head(t) \in S /\ Tail(t) \in Seq(S) /\ <<Head(t)>> \in Seq(S)
  OBVIOUS
<1>2. Append(s, Head(t)) = s \o <<Head(t)>>
  BY <1>1, AppendIsConcat
<1>3. (s \o <<Head(t)>>) \o Tail(t) = s \o (<<Head(t)>> \o Tail(t))
  BY <1>1, ConcatAssociative
<1>4. <<Head(t)>> \o Tail(t) = t
  <2>1. /\ <<Head(t)>> \o Tail(t) \in Seq(S)
        /\ Len(<<Head(t)>> \o Tail(t)) = 1 + Len(Tail(t))
        /\ \A i \in 1 .. 1 + Len(Tail(t)) :
             (<<Head(t)>> \o Tail(t))[i] = IF i <= 1 THEN Head(t) ELSE Tail(t)[i - 1]
    <3> DEFINE a == <<Head(t)>>
    <3>1. a \in Seq(S) /\ Len(a) = 1 /\ a[1] = Head(t)
      BY <1>1
    <3> HIDE DEF a
    <3>2. /\ a \o Tail(t) \in Seq(S)
          /\ Len(a \o Tail(t)) = Len(a) + Len(Tail(t))
          /\ \A i \in 1 .. Len(a) + Len(Tail(t)) :
               (a \o Tail(t))[i] = IF i <= Len(a) THEN a[i] ELSE Tail(t)[i - Len(a)]
      BY <1>1, <3>1, ConcatProperties
    <3>3. \A i \in 1 .. 1 + Len(Tail(t)) : i <= 1 => i = 1
      OBVIOUS
    <3> QED BY <3>1, <3>2, <3>3 DEF a
  <2>2. Len(t) = 1 + Len(Tail(t))
    BY <1>1
  <2>3. \A i \in 1 .. Len(t) : t[i] = IF i <= 1 THEN Head(t) ELSE Tail(t)[i - 1]
    OBVIOUS
  <2> QED BY <2>1, <2>2, <2>3, SeqEqual
<1> QED BY <1>2, <1>3, <1>4

(* s \o t when t loses its first element.                                 *)
LEMMA RemoveMiddle ==
  ASSUME NEW S, NEW s \in Seq(S), NEW t \in Seq(S), t # <<>>
  PROVE  /\ Len(s) + 1 \in DOMAIN (s \o t)
         /\ (s \o t)[Len(s) + 1] = Head(t)
         /\ RemoveAt(s \o t, Len(s) + 1) = s \o Tail(t)
<1> DEFINE u == s \o t
           v == s \o Tail(t)
           k == Len(s) + 1
<1>1. /\ u \in Seq(S) /\ Len(u) = Len(s) + Len(t) /\ Len(s) \in Nat /\ Len(t) \in Nat \ {0}
      /\ \A i \in 1 .. Len(s) + Len(t) : u[i] = IF i <= Len(s) THEN s[i] ELSE t[i - Len(s)]
  BY ConcatProperties
<1>2. /\ Tail(t) \in Seq(S) /\ Len(Tail(t)) = Len(t) - 1 /\ Head(t) = t[1]
      /\ \A i \in 1 .. Len(t) - 1 : Tail(t)[i] = t[i + 1]
  OBVIOUS
<1>3. /\ v \in Seq(S) /\ Len(v) = Len(s) + (Len(t) - 1)
      /\ \A i \in 1 .. Len(s) + (Len(t) - 1) :
           v[i] = IF i <= Len(s) THEN s[i] ELSE Tail(t)[i - Len(s)]
  <2>1. /\ v \in Seq(S) /\ Len(v) = Len(s) + Len(Tail(t))
        /\ \A i \in 1 .. Len(s) + Len(Tail(t)) :
             v[i] = IF i <= Len(s) THEN s[i] ELSE Tail(t)[i - Len(s)]
    BY <1>2, ConcatProperties
  <2> QED BY <1>2, <2>1
<1> HIDE DEF u, v
<1>4. k \in 1 .. Len(u) /\ ~(k <= Len(s)) /\ k - Len(s) = 1 /\ k \in 1 .. Len(s) + Len(t)
  BY <1>1
<1>5. k \in DOMAIN u /\ u[k] = Head(t)
  <2>1. DOMAIN u = 1 .. Len(u)
    BY <1>1
  <2> QED BY <1>1, <1>2, <1>4, <2>1
<1>6. /\ RemoveAt(u, k) \in Seq(S) /\ Len(RemoveAt(u, k)) = Len(u) - 1
      /\ \A i \in 1 .. Len(u) - 1 : RemoveAt(u, k)[i] = IF i < k THEN u[i] ELSE u[i + 1]
  <2> HIDE DEF k
  <2> QED BY <1>1, <1>4, RemoveAtFacts
<1>7. Len(u) - 1 = Len(s) + (Len(t) - 1)
  BY <1>1
<1>8. ASSUME NEW i \in 1 .. Len(s) + (Len(t) - 1)
      PROVE  RemoveAt(u, k)[i] = v[i]
  <2>1. i \in 1 .. Len(u) - 1
    BY <1>1
  <2>2. CASE i <= Len(s)
    <3>1. i < k /\ i \in 1 .. Len(s) + Len(t)
      BY <1>1, <2>2
    <3> QED BY <1>1, <1>3, <1>6, <2>1, <2>2, <3>1
  <2>3. CASE ~(i <= Len(s))
    <3>1. /\ ~(i < k) /\ i + 1 \in 1 .. Len(s) + Len(t) /\ ~(i + 1 <= Len(s))
          /\ i - Len(s) \in 1 .. Len(t) - 1 /\ i + 1 - Len(s) = i - Len(s) + 1
      BY <1>1, <2>3
    <3>2. RemoveAt(u, k)[i] = u[i + 1]
      BY <1>6, <2>1, <3>1
    <3>3. u[i + 1] = t[i - Len(s) + 1]
      BY <1>1, <3>1
    <3>4. v[i] = Tail(t)[i - Len(s)]
      BY <1>3, <2>3
    <3> QED BY <1>2, <3>1, <3>2, <3>3, <3>4
  <2> QED BY <2>2, <2>3
<1>9. RemoveAt(u, k) = v
  <2> HIDE DEF k
  <2> QED BY <1>3, <1>6, <1>7, <1>8, SeqEqual
<1> QED BY <1>5, <1>9 DEF u, v

(* s \o t when s loses its first element.                                 *)
LEMMA TakeLeft ==
  ASSUME NEW S, NEW s \in Seq(S), NEW t \in Seq(S), s # <<>>
  PROVE  /\ s \o t # <<>>
         /\ Head(s \o t) = Head(s)
         /\ Tail(s \o t) = Tail(s) \o t
<1>1. /\ s \o t \in Seq(S) /\ Len(s \o t) = Len(s) + Len(t) /\ Len(t) \in Nat
      /\ \A i \in 1 .. Len(s) + Len(t) :
           (s \o t)[i] = IF i <= Len(s) THEN s[i] ELSE t[i - Len(s)]
  BY ConcatProperties
<1>2. /\ Len(s) \in Nat \ {0} /\ Tail(s) \in Seq(S) /\ Len(Tail(s)) = Len(s) - 1
      /\ Head(s) = s[1] /\ \A i \in 1 .. Len(s) - 1 : Tail(s)[i] = s[i + 1]
  OBVIOUS
<1>3. s \o t # <<>> /\ Head(s \o t) = Head(s)
  <2> DEFINE u == s \o t
  <2>1. u \in Seq(S) /\ Len(u) # 0 /\ u[1] = s[1]
    BY <1>1, <1>2
  <2> HIDE DEF u
  <2>2. u # <<>> /\ Head(u) = u[1]
    BY <2>1
  <2> QED BY <1>2, <2>1, <2>2 DEF u
<1>4. /\ Tail(s) \o t \in Seq(S) /\ Len(Tail(s) \o t) = Len(s) - 1 + Len(t)
      /\ \A i \in 1 .. Len(s) - 1 + Len(t) :
           (Tail(s) \o t)[i] = IF i <= Len(s) - 1 THEN Tail(s)[i] ELSE t[i - (Len(s) - 1)]
  <2>1. /\ Tail(s) \o t \in Seq(S) /\ Len(Tail(s) \o t) = Len(Tail(s)) + Len(t)
        /\ \A i \in 1 .. Len(Tail(s)) + Len(t) :
             (Tail(s) \o t)[i] = IF i <= Len(Tail(s)) THEN Tail(s)[i] ELSE t[i - Len(Tail(s))]
    BY <1>2, ConcatProperties
  <2> QED BY <1>2, <2>1
<1>5. /\ Tail(s \o t) \in Seq(S) /\ Len(Tail(s \o t)) = Len(s) + Len(t) - 1
      /\ \A i \in 1 .. Len(s) + Len(t) - 1 : Tail(s \o t)[i] = (s \o t)[i + 1]
  BY <1>1, <1>3, HeadTailProperties
<1>6. ASSUME NEW i \in 1 .. Len(s) + Len(t) - 1
      PROVE  Tail(s \o t)[i] = (Tail(s) \o t)[i]
  <2>1. Tail(s \o t)[i] = IF i + 1 <= Len(s) THEN s[i + 1] ELSE t[i + 1 - Len(s)]
    BY <1>1, <1>2, <1>5
  <2>2. i + 1 - Len(s) = i - (Len(s) - 1) /\ i \in 1 .. Len(s) - 1 + Len(t)
        /\ (i + 1 <= Len(s) <=> i <= Len(s) - 1)
    BY <1>1, <1>2
  <2>3. CASE i <= Len(s) - 1
    BY <1>2, <1>4, <2>1, <2>2, <2>3
  <2>4. CASE ~(i <= Len(s) - 1)
    BY <1>4, <2>1, <2>2, <2>4
  <2> QED BY <2>3, <2>4
<1>7. Len(s) + Len(t) - 1 = Len(s) - 1 + Len(t)
  BY <1>1, <1>2
<1>8. Tail(s \o t) = Tail(s) \o t
  BY <1>4, <1>5, <1>6, <1>7, SeqEqual
<1> QED BY <1>3, <1>8
=============================================================================
