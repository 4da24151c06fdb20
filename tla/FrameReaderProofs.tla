-------------------------- MODULE FrameReaderProofs --------------------------
(***************************************************************************)
(* The reader of the byte stream is right for every frame size, every size *)
(* of the socket buffer, every frame_max and every way TCP cuts the        *)
(* stream, for any number of frames.                                       *)
(***************************************************************************)
EXTENDS FrameReader, SequenceLemmas, FiniteSetTheorems, TLAPS

(* What the state of a reader says of its buffer.  A complete header is    *)
(* that of one frame, which then gives the target: one that is not behind  *)
(* the buffer unless the size wraps.  A frame that stays in the buffer     *)
(* complete is one that could not be decoded.                              *)
ReaderShape(r) ==
  /\ r.state = "IDLE" => r = Idle
  /\ r.state = "HEADER" => r.target = HEADER_SIZE /\ Len(r.inbound) < HEADER_SIZE /\ r.page \in Nat
  /\ r.state = "MISREAD" => r.target = HEADER_SIZE /\ Len(r.inbound) = HEADER_SIZE /\ r.page \in Nat
  /\ r.state \in {"BODY", "PROTOCOL"} =>
       /\ HEADER_SIZE <= Len(r.inbound) /\ Aligned(r)
       /\ r.target = TargetSize(FrameIn(r))
       /\ Len(r.inbound) <= r.target \/ Wraps(FrameIn(r))
       /\ Len(r.inbound) <= FrameMax
       /\ r.page \in Nat

KeptComplete(r) == Full(r) => ~FrameIn(r).good \/ FrameIn(r).kind = "method"

ReaderInv ==
  /\ TypeOK
  /\ ReaderShape(reader)
  /\ reader.state \in {"BODY", "PROTOCOL"} => KeptComplete(reader)
  /\ result.what \in {"partial", "ignored"} => result.used > 0
  /\ result.what = "aborted" =>
       reader.state \in {"BODY", "PROTOCOL"} /\ AbortCaused(FrameIn(reader))

(* Before the first error the reader, the socket buffer and the network    *)
(* hold a tail of the stream.                                              *)
TailHeld(n) ==
  /\ reader.inbound \o unread \o inflight = StreamOfFrom(n)
  /\ \A k \in LastRead + 1 .. n - 1 : wire[k].kind = "unknown"

StreamInv ==
  ~rejected /\ ~starved =>
    /\ \E n \in LastRead + 1 .. Len(wire) + 1 : TailHeld(n)
    /\ reader.state # "MISREAD"

(* After a rejection the reader stays where it is: the same bytes are      *)
(* rejected again, whatever else arrives.                                  *)
Stuck ==
  /\ unread # <<>> /\ reader.state \in {"BODY", "PROTOCOL"}
  /\ \/ Full(reader) /\ ~FrameIn(reader).good
     \/ Len(Filled(reader, unread).inbound) > FrameMax
     \/ result.what = "aborted"

RejectedInv ==
  ~starved =>
    /\ rejected => Stuck
    /\ \A i \in DOMAIN decoded : ~Unreadable(wire[decoded[i]])


-----------------------------------------------------------------------------
(* Sequences that are cut, and put together again.                         *)
LEMMA CutFacts ==
  ASSUME NEW S, NEW t \in Seq(S), NEW m \in 0 .. Len(t)
  PROVE  /\ SubSeq(t, 1, m) \in Seq(S) /\ SubSeq(t, m + 1, Len(t)) \in Seq(S)
         /\ Len(SubSeq(t, 1, m)) = m /\ Len(SubSeq(t, m + 1, Len(t))) = Len(t) - m
         /\ SubSeq(t, 1, m) \o SubSeq(t, m + 1, Len(t)) = t
<1>1. /\ SubSeq(t, 1, m) \in Seq(S) /\ SubSeq(t, m + 1, Len(t)) \in Seq(S)
      /\ Len(SubSeq(t, 1, m)) = m /\ Len(SubSeq(t, m + 1, Len(t))) = Len(t) - m
  OBVIOUS
<1>2. SubSeq(t, 1, m) \o SubSeq(t, m + 1, Len(t)) = SubSeq(t, 1, Len(t))
  <2>1. Len(t) \in Nat
    OBVIOUS
  <2>2. 1 \in 1 .. Len(t) + 1 /\ m \in 1 - 1 .. Len(t) /\ Len(t) \in m .. Len(t)
    BY <2>1
  <2> QED BY <2>2, ConcatAdjacentSubSeq
<1>3. SubSeq(t, 1, Len(t)) = t
  BY SubSeqFull
<1> QED BY <1>1, <1>2, <1>3

LEMMA SamePrefix ==
  ASSUME NEW S, NEW a \in Seq(S), NEW b \in Seq(S), NEW c \in Seq(S), NEW d \in Seq(S),
         a \o b = c \o d, Len(a) <= Len(c)
  PROVE  /\ \A i \in 1 .. Len(a) : a[i] = c[i]
         /\ Len(a) = Len(c) => a = c /\ b = d
<1>1. /\ Len(a) \in Nat /\ Len(b) \in Nat /\ Len(c) \in Nat /\ Len(d) \in Nat
      /\ Len(a) + Len(b) = Len(c) + Len(d)
  <2>0. /\ Len(a) \in Nat /\ Len(b) \in Nat /\ Len(c) \in Nat /\ Len(d) \in Nat
    OBVIOUS
  <2>1. Len(a \o b) = Len(a) + Len(b) /\ Len(c \o d) = Len(c) + Len(d)
    BY ConcatProperties
  <2> QED BY <2>0, <2>1
<1>2. ASSUME NEW i \in 1 .. Len(a) PROVE a[i] = c[i]
  <2>1. (a \o b)[i] = a[i] /\ (c \o d)[i] = c[i]
    BY <1>1, ConcatProperties
  <2> QED BY <2>1
<1>3. ASSUME Len(a) = Len(c) PROVE a = c /\ b = d
  <2>1. a = c
    BY <1>2, <1>3, SeqEqual
  <2>2. Len(b) = Len(d)
    BY <1>1, <1>3
  <2>3. ASSUME NEW i \in 1 .. Len(b) PROVE b[i] = d[i]
    <3>1. /\ Len(a) + i \in 1 .. Len(a) + Len(b) /\ ~(Len(a) + i <= Len(a))
          /\ Len(a) + i - Len(a) = i
      BY <1>1
    <3> DEFINE k == Len(a) + i
    <3>2. k \in 1 .. Len(a) + Len(b) /\ ~(k <= Len(a)) /\ k - Len(a) = i
      BY <3>1
    <3> HIDE DEF k
    <3>3. (a \o b)[k] = b[i]
      BY <3>2, ConcatProperties
    <3>4. (c \o d)[k] = d[i]
      BY <1>1, <1>3, <3>2, ConcatProperties
    <3> QED BY <3>3, <3>4
  <2>4. b = d
    BY <2>2, <2>3, SeqEqual
  <2> QED BY <2>1, <2>4
<1> QED BY <1>2, <1>3

-----------------------------------------------------------------------------
(* A reader as a record of the right shape, whatever its state.            *)
Readers == [state : {"IDLE", "HEADER", "BODY", "PROTOCOL", "MISREAD"},
            inbound : Seq(Byte), target : Nat, page : Nat \union {-1}]

(* One pass copies bytes until the target is reached or none are left, and *)
(* passes over exactly those.                                              *)
LEMMA FilledFacts ==
  ASSUME NEW r \in Readers, NEW data \in Seq(Byte)
  PROVE  /\ Filled(r, data) \in Readers
         /\ Filled(r, data) = [r EXCEPT !.inbound = Filled(r, data).inbound]
         /\ Len(r.inbound) <= Len(Filled(r, data).inbound)
         /\ Len(r.inbound) <= r.target => Len(Filled(r, data).inbound) <= r.target
         /\ Len(Filled(r, data).inbound) = Len(r.inbound) + Missing(r, data)
         /\ Missing(r, data) \in 0 .. Len(data)
         /\ Missing(r, data) = 0 => data = <<>> \/ Full(r)
         /\ \A i \in 1 .. Len(r.inbound) : Filled(r, data).inbound[i] = r.inbound[i]
         /\ Rest(r, data) \in Seq(Byte) /\ Len(Rest(r, data)) = Len(data) - Missing(r, data)
         /\ Filled(r, data).inbound \o Rest(r, data) = r.inbound \o data
         /\ ~Full(Filled(r, data)) => Rest(r, data) = <<>>
<1> DEFINE m == Missing(r, data)
           a == SubSeq(data, 1, m)
           f == Filled(r, data)
<1>1. r.inbound \in Seq(Byte) /\ r.target \in Nat /\ Len(r.inbound) \in Nat /\ Len(data) \in Nat
  BY DEF Readers
<1>2. /\ m \in 0 .. Len(data)
      /\ Len(r.inbound) <= r.target => m <= r.target - Len(r.inbound)
      /\ m = Len(data) \/ m = r.target - Len(r.inbound)
  BY <1>1 DEF Missing
<1> HIDE DEF m
<1>3. /\ a \in Seq(Byte) /\ Len(a) = m /\ Rest(r, data) \in Seq(Byte)
      /\ Len(Rest(r, data)) = Len(data) - m
      /\ a \o Rest(r, data) = data
  <2>1. Rest(r, data) = SubSeq(data, m + 1, Len(data))
    BY DEF Rest, m
  <2>2. m \in 0 .. Len(data)
    BY <1>2
  <2> QED BY <2>1, <2>2, CutFacts
<1>4. f = [r EXCEPT !.inbound = r.inbound \o a]
  BY DEF Filled, m
<1> HIDE DEF a, f
<1>5. /\ r.inbound \o a \in Seq(Byte) /\ Len(r.inbound \o a) = Len(r.inbound) + m
      /\ \A i \in 1 .. Len(r.inbound) : (r.inbound \o a)[i] = r.inbound[i]
  <2>1. /\ r.inbound \o a \in Seq(Byte) /\ Len(r.inbound \o a) = Len(r.inbound) + Len(a)
        /\ \A i \in 1 .. Len(r.inbound) + Len(a) :
             (r.inbound \o a)[i] = IF i <= Len(r.inbound) THEN r.inbound[i] ELSE a[i - Len(r.inbound)]
    BY <1>1, <1>3, ConcatProperties
  <2> QED BY <1>1, <1>3, <2>1
<1>6. f \in Readers /\ f.inbound = r.inbound \o a /\ f.target = r.target
      /\ f = [r EXCEPT !.inbound = f.inbound]
  <2>1. f.inbound = r.inbound \o a /\ f.target = r.target
    BY <1>4 DEF Readers
  <2>2. f \in Readers
    BY <1>4, <1>5 DEF Readers
  <2> QED BY <1>4, <2>1, <2>2
<1>7. f.inbound \o Rest(r, data) = r.inbound \o data
  <2>1. (r.inbound \o a) \o Rest(r, data) = r.inbound \o (a \o Rest(r, data))
    <3> DEFINE p == r.inbound
               q == Rest(r, data)
    <3>1. p \in Seq(Byte) /\ a \in Seq(Byte) /\ q \in Seq(Byte)
      BY <1>1, <1>3
    <3> HIDE DEF p, q
    <3>2. (p \o a) \o q = p \o (a \o q)
      BY <3>1, ConcatAssociative
    <3> QED BY <3>2 DEF p, q
  <2> QED BY <1>3, <1>6, <2>1
<1>8. ~Full(f) => Rest(r, data) = <<>>
  <2> SUFFICES ASSUME ~Full(f) PROVE Rest(r, data) = <<>>
    OBVIOUS
  <2>1. Len(r.inbound) + m # r.target
    BY <1>5, <1>6 DEF Full
  <2>2. Len(Rest(r, data)) = 0
    <3>1. m = Len(data) /\ m \in Nat
      BY <1>1, <1>2, <2>1
    <3> QED BY <1>3, <3>1
  <2> QED BY <1>3, <2>2
<1>9. m = 0 => data = <<>> \/ Full(r)
  BY <1>1, <1>2 DEF Full
<1>10. Len(r.inbound) <= Len(f.inbound) /\ (Len(r.inbound) <= r.target => Len(f.inbound) <= r.target)
  BY <1>1, <1>2, <1>5, <1>6
<1> QED BY <1>2, <1>3, <1>5, <1>6, <1>7, <1>8, <1>9, <1>10 DEF m, f

LEMMA FrameLens ==
  /\ HEADER_SIZE \in Nat \ {0} /\ FrameMax \in Nat /\ HEADER_SIZE < FrameMax
  /\ \A f \in Frame : FrameLen(f) \in Nat /\ FrameLen(f) > HEADER_SIZE
<1>1. HEADER_SIZE \in Nat \ {0} /\ FOOTER_SIZE = 1 /\ FrameMax \in Nat /\ HEADER_SIZE < FrameMax
  BY ReaderAssumption
<1>2. ASSUME NEW f \in Frame PROVE FrameLen(f) \in Nat /\ FrameLen(f) > HEADER_SIZE
  <2>1. CASE f.kind = "protocol"
    BY <1>1, <2>1 DEF FrameLen
  <2>2. CASE f.kind # "protocol"
    <3>1. f.size \in PayloadSize
      BY <2>2 DEF Frame
    <3>2. f.size \in 0 .. SizeModulus - 1
      BY <3>1, ReaderAssumption
    <3>3. f.size \in Nat
      BY <3>2
    <3> QED BY <1>1, <2>2, <3>3 DEF FrameLen
  <2> QED BY <2>1, <2>2
<1> QED BY <1>1, <1>2

(* A sum that wraps does so once, and leaves at most a header to wait for. *)
LEMMA Remainders ==
  ASSUME NEW m \in Nat \ {0}, NEW n \in Nat, n < m + m
  PROVE  n % m = IF n < m THEN n ELSE n - m
OBVIOUS

LEMMA TargetSizes ==
  \A f \in Frame :
    /\ TargetSize(f) \in Nat
    /\ ~Wraps(f) => TargetSize(f) = FrameLen(f) /\ TargetSize(f) > HEADER_SIZE
    /\ Wraps(f) => ~f.good /\ FrameLen(f) > FrameMax
<1> TAKE f \in Frame
<1>1. /\ FrameLen(f) \in Nat /\ FrameLen(f) > HEADER_SIZE /\ HEADER_SIZE \in Nat
      /\ FrameMax \in Nat /\ SizeModulus \in Nat /\ SizeModulus > FrameMax /\ FrameMax > HEADER_SIZE
  BY FrameLens, ReaderAssumption
<1>2. FrameLen(f) < SizeModulus + SizeModulus
  <2>1. CASE f.kind = "protocol"
    BY <1>1, <2>1 DEF FrameLen
  <2>2. CASE f.kind # "protocol"
    <3>1. f.size \in PayloadSize
      BY <2>2 DEF Frame
    <3>2. f.size \in 0 .. SizeModulus - 1 /\ FOOTER_SIZE = 1
      BY <3>1, ReaderAssumption
    <3> QED BY <1>1, <2>2, <3>2 DEF FrameLen
  <2> QED BY <2>1, <2>2
<1>3. TargetSize(f) = IF FrameLen(f) < SizeModulus THEN FrameLen(f) ELSE FrameLen(f) - SizeModulus
  <2>1. SizeModulus \in Nat \ {0}
    BY <1>1
  <2> QED BY <1>1, <1>2, <2>1, Remainders DEF TargetSize
<1>4. f.good => ~Wraps(f)
  <2>1. CASE f.kind = "protocol"
    BY <1>1, <2>1 DEF Wraps, FrameLen
  <2>2. CASE f.kind # "protocol"
    BY <2>2 DEF Frame
  <2> QED BY <2>1, <2>2
<1>5. TargetSize(f) \in Nat /\ (~Wraps(f) => TargetSize(f) = FrameLen(f))
  BY <1>1, <1>3 DEF Wraps
<1>6. Wraps(f) => FrameLen(f) > FrameMax
  BY <1>1 DEF Wraps
<1> QED BY <1>1, <1>4, <1>5, <1>6

(* The call up to a complete header: bytes move from the socket buffer to  *)
(* the frame buffer, none is lost, and a header that is complete is never  *)
(* the end of a good frame.                                                *)
LEMMA HeadedFacts ==
  ASSUME ReaderInv, CanRead
  PROVE  /\ Headed.r \in Readers /\ Headed.rest \in Seq(Byte)
         /\ ReaderShape(Headed.r) /\ Headed.r.state # "IDLE"
         /\ Headed.r.inbound \o Headed.rest = reader.inbound \o unread
         /\ Headed.r.page = IF reader.state = "IDLE" THEN next_page ELSE reader.page
         /\ Len(Headed.rest) <= Len(unread)
         /\ Headed.r.state = "MISREAD" => ~Aligned(Headed.r)
         /\ Headed.r.state = "HEADER" => Headed.rest = <<>>
         /\ Headed.r.state \in {"BODY", "PROTOCOL"} /\ reader.state \in {"IDLE", "HEADER"} =>
              Len(Headed.rest) < Len(unread) /\ (Full(Headed.r) => ~FrameIn(Headed.r).good)
         /\ reader.state \in {"BODY", "PROTOCOL"} => Headed.r = reader /\ Headed.rest = unread
<1> DEFINE r0 == IF reader.state = "IDLE"
                 THEN [reader EXCEPT !.state = "HEADER", !.page = next_page]
                 ELSE reader
           f == Filled(r0, unread)
<1>1. /\ reader \in Readers /\ ReaderShape(reader) /\ unread \in Seq(Byte) /\ unread # <<>>
      /\ next_page \in Nat /\ reader.state # "MISREAD" /\ Len(unread) \in Nat \ {0}
      /\ wire \in Seq(Frame)
  BY DEF ReaderInv, TypeOK, Readers, CanRead
<1>2. CASE reader.state \in {"BODY", "PROTOCOL"}
  <2>1. Headed = [r |-> reader, rest |-> unread]
    BY <1>2 DEF Headed
  <2> QED BY <1>1, <1>2, <2>1
<1>3. CASE reader.state \in {"IDLE", "HEADER"}
  <2>1. /\ r0 \in Readers /\ r0.state = "HEADER" /\ r0.target = HEADER_SIZE
        /\ Len(r0.inbound) < HEADER_SIZE /\ r0.page \in Nat /\ r0.inbound = reader.inbound
        /\ r0.page = IF reader.state = "IDLE" THEN next_page ELSE reader.page
    <3>1. CASE reader.state = "IDLE"
      <4>1. reader = Idle
        BY <1>1, <3>1 DEF ReaderShape
      <4>2. r0 = [state |-> "HEADER", inbound |-> <<>>, target |-> HEADER_SIZE, page |-> next_page]
        BY <3>1, <4>1 DEF Idle
      <4>3. <<>> \in Seq(Byte) /\ Len(<<>>) = 0 /\ HEADER_SIZE \in Nat /\ 0 < HEADER_SIZE
        BY FrameLens
      <4>4. r0 \in Readers /\ reader.inbound = <<>> /\ r0.inbound = <<>> /\ r0.state = "HEADER"
            /\ r0.target = HEADER_SIZE /\ r0.page = next_page
        BY <1>1, <4>1, <4>2, <4>3 DEF Readers, Idle
      <4> QED BY <1>1, <3>1, <4>3, <4>4
    <3>2. CASE reader.state = "HEADER"
      BY <1>1, <3>2 DEF ReaderShape, Readers
    <3> QED BY <1>3, <3>1, <3>2
  <2>2. Headed = [r |-> IF Full(f) THEN Parsed(f) ELSE f, rest |-> Rest(r0, unread)]
    BY <2>1 DEF Headed
  <2> HIDE DEF r0
  <2>3. Len(r0.inbound) <= r0.target /\ ~Full(r0) /\ Len(r0.inbound) \in Nat
    BY <2>1, FrameLens DEF Full, Readers
  <2>4. /\ f \in Readers /\ f = [r0 EXCEPT !.inbound = f.inbound]
        /\ Missing(r0, unread) \in 1 .. Len(unread)
        /\ Len(f.inbound) <= HEADER_SIZE
        /\ Rest(r0, unread) \in Seq(Byte) /\ Len(Rest(r0, unread)) = Len(unread) - Missing(r0, unread)
        /\ f.inbound \o Rest(r0, unread) = reader.inbound \o unread
        /\ ~Full(f) => Rest(r0, unread) = <<>>
    <3>1. /\ Filled(r0, unread) = [r0 EXCEPT !.inbound = Filled(r0, unread).inbound]
          /\ Missing(r0, unread) \in 0 .. Len(unread)
          /\ Missing(r0, unread) = 0 => unread = <<>> \/ Full(r0)
          /\ Len(Filled(r0, unread).inbound) <= r0.target
      BY <1>1, <2>1, <2>3, FilledFacts
    <3>2. Missing(r0, unread) # 0
      BY <1>1, <2>3, <3>1
    <3>3. /\ Filled(r0, unread) \in Readers
          /\ Rest(r0, unread) \in Seq(Byte)
          /\ Len(Rest(r0, unread)) = Len(unread) - Missing(r0, unread)
          /\ Filled(r0, unread).inbound \o Rest(r0, unread) = r0.inbound \o unread
          /\ ~Full(Filled(r0, unread)) => Rest(r0, unread) = <<>>
      BY <1>1, <2>1, <2>3, FilledFacts
    <3>4. Missing(r0, unread) \in 1 .. Len(unread)
      BY <1>1, <3>1, <3>2
    <3> HIDE DEF f
    <3>5. f = Filled(r0, unread)
      BY DEF f
    <3> QED BY <2>1, <3>1, <3>3, <3>4, <3>5
  <2>5. /\ Headed.rest = Rest(r0, unread) /\ Headed.rest \in Seq(Byte)
        /\ Len(Headed.rest) < Len(unread) /\ Len(Headed.rest) <= Len(unread)
    BY <1>1, <2>2, <2>4
  <2> HIDE DEF f
  <2>6. f.state = "HEADER" /\ f.target = HEADER_SIZE /\ f.page = r0.page
    BY <2>1, <2>4 DEF Readers
  <2>7. CASE ~Full(f)
    <3>1. Headed.r = f
      BY <2>2, <2>7
    <3>2. Len(f.inbound) < HEADER_SIZE
      BY <2>4, <2>6, <2>7, FrameLens DEF Full, Readers
    <3>3. ReaderShape(f)
      BY <2>1, <2>6, <3>2 DEF ReaderShape
    <3> QED BY <1>3, <2>1, <2>4, <2>5, <2>6, <2>7, <3>1, <3>3
  <2>8. CASE Full(f)
    <3>1. Headed.r = Parsed(f)
      BY <2>2, <2>8
    <3>2. Len(f.inbound) = HEADER_SIZE
      BY <2>6, <2>8 DEF Full
    <3>3. CASE ~Aligned(f)
      <4>1. Parsed(f) = [f EXCEPT !.state = "MISREAD"]
        BY <3>3 DEF Parsed
      <4> DEFINE p == Parsed(f)
      <4>2. /\ p \in Readers /\ p.state = "MISREAD" /\ p.inbound = f.inbound /\ p.target = f.target
            /\ p.page = f.page
        BY <2>4, <4>1 DEF Readers
      <4> HIDE DEF p
      <4>3. ~Aligned(p)
        BY <3>3, <4>2 DEF Aligned
      <4>4. ReaderShape(p)
        BY <2>1, <2>6, <3>2, <4>2 DEF ReaderShape
      <4>5. Headed.r = p
        BY <3>1 DEF p
      <4> QED BY <1>3, <2>1, <2>4, <2>5, <2>6, <4>2, <4>3, <4>4, <4>5
    <3>4. CASE Aligned(f)
      <4> DEFINE p == Parsed(f)
                 w == FrameIn(f)
      <4>1. p = [f EXCEPT !.state = IF w.kind = "protocol" THEN "PROTOCOL" ELSE "BODY",
                          !.target = TargetSize(w)]
        BY <3>4 DEF Parsed
      <4>2. w \in Frame
        <5>1. f.inbound \in Seq(Byte) /\ 1 \in 1 .. Len(f.inbound)
          BY <2>4, <3>2, FrameLens DEF Readers
        <5>2. f.inbound[1] \in Byte
          BY <5>1
        <5>3. f.inbound[1][1] \in 1 .. Len(wire)
          BY <5>2 DEF Byte
        <5> QED BY <1>1, <5>3 DEF FrameIn, Serial
      <4> HIDE DEF w
      <4>3. /\ TargetSize(w) \in Nat /\ (~Wraps(w) => TargetSize(w) > HEADER_SIZE)
            /\ Wraps(w) => ~w.good
        BY <4>2, TargetSizes
      <4>4. /\ p \in Readers /\ p.state \in {"BODY", "PROTOCOL"} /\ p.inbound = f.inbound
            /\ p.target = TargetSize(w) /\ p.page = f.page
        BY <2>4, <4>1, <4>3 DEF Readers
      <4> HIDE DEF p
      <4>5. Aligned(p) /\ FrameIn(p) = w
        BY <3>4, <4>4 DEF Aligned, FrameIn, Serial, w
      <4>6. /\ Len(p.inbound) = HEADER_SIZE /\ HEADER_SIZE <= HEADER_SIZE /\ HEADER_SIZE <= FrameMax
            /\ HEADER_SIZE <= TargetSize(w) \/ Wraps(w)
            /\ HEADER_SIZE = TargetSize(w) => Wraps(w)
        BY <3>2, <4>3, <4>4, FrameLens
      <4>7. ReaderShape(p) /\ (Full(p) => ~FrameIn(p).good)
        BY <2>1, <2>6, <4>3, <4>4, <4>5, <4>6 DEF ReaderShape, Full
      <4>8. Headed.r = p
        BY <3>1 DEF p
      <4> QED BY <1>3, <2>1, <2>4, <2>5, <2>6, <4>4, <4>7, <4>8
    <3> QED BY <3>3, <3>4
  <2> QED BY <2>7, <2>8
<1> QED BY <1>1, <1>2, <1>3 DEF Readers

(* ... and on to the body.                                                 *)
LEMMA BodiedFacts ==
  ASSUME ReaderInv, CanRead, InBody
  PROVE  /\ Bodied \in Readers /\ Rest(Headed.r, Headed.rest) \in Seq(Byte)
         /\ Bodied.state = Headed.r.state /\ Bodied.page = Headed.r.page /\ Bodied.page \in Nat
         /\ Aligned(Bodied) /\ FrameIn(Bodied) = FrameIn(Headed.r) /\ FrameIn(Bodied) \in Frame
         /\ Serial(Bodied) = Serial(Headed.r) /\ Serial(Bodied) \in 1 .. Len(wire)
         /\ Bodied.target = TargetSize(FrameIn(Bodied)) /\ Bodied.target = Headed.r.target
         /\ Len(Bodied.inbound) <= Bodied.target \/ Wraps(FrameIn(Bodied))
         /\ BodyFits => ReaderShape(Bodied)
         /\ Bodied.inbound \o Rest(Headed.r, Headed.rest) = reader.inbound \o unread
         /\ ~Full(Bodied) => Rest(Headed.r, Headed.rest) = <<>>
         /\ Len(Rest(Headed.r, Headed.rest)) <= Len(unread)
         /\ Len(Rest(Headed.r, Headed.rest)) = Len(unread) => Full(reader) /\ Headed.r = reader
<1> DEFINE r == Headed.r
           d == Headed.rest
<1>1. /\ r \in Readers /\ d \in Seq(Byte) /\ ReaderShape(r)
      /\ r.inbound \o d = reader.inbound \o unread
      /\ Len(d) <= Len(unread)
      /\ reader.state \in {"IDLE", "HEADER"} => Len(d) < Len(unread)
      /\ reader.state \in {"BODY", "PROTOCOL"} => r = reader /\ d = unread
  BY HeadedFacts DEF InBody
<1>2. r.state \in {"BODY", "PROTOCOL"} /\ d # <<>> /\ wire \in Seq(Frame) /\ unread \in Seq(Byte)
      /\ reader.state \in {"IDLE", "HEADER", "BODY", "PROTOCOL"}
  BY DEF InBody, ReaderInv, TypeOK, CanRead
<1> DEFINE m == Missing(r, d)
<1> HIDE DEF r, d, m
<1>3. /\ HEADER_SIZE <= Len(r.inbound) /\ Aligned(r)
      /\ r.target = TargetSize(FrameIn(r)) /\ (Len(r.inbound) <= r.target \/ Wraps(FrameIn(r)))
      /\ Len(r.inbound) <= FrameMax /\ r.page \in Nat
  BY <1>1, <1>2 DEF ReaderShape
<1> DEFINE f == Filled(r, d)
<1>4. /\ f \in Readers /\ f = [r EXCEPT !.inbound = f.inbound]
      /\ Len(r.inbound) <= Len(f.inbound)
      /\ Len(r.inbound) <= r.target => Len(f.inbound) <= r.target
      /\ m \in 0 .. Len(d) /\ (m = 0 => d = <<>> \/ Full(r))
      /\ \A i \in 1 .. Len(r.inbound) : f.inbound[i] = r.inbound[i]
      /\ Rest(r, d) \in Seq(Byte) /\ Len(Rest(r, d)) = Len(d) - m
      /\ f.inbound \o Rest(r, d) = r.inbound \o d
      /\ ~Full(f) => Rest(r, d) = <<>>
  <2>1. /\ Filled(r, d) = [r EXCEPT !.inbound = Filled(r, d).inbound]
        /\ Missing(r, d) \in 0 .. Len(d)
        /\ Missing(r, d) = 0 => d = <<>> \/ Full(r)
        /\ Len(Rest(r, d)) = Len(d) - Missing(r, d)
    BY <1>1, <1>3, FilledFacts
  <2> QED BY <1>1, <1>3, <2>1, FilledFacts DEF m
<1>5. Bodied = f
  BY DEF Bodied, r, d
<1> HIDE DEF f
<1>6. f.state = r.state /\ f.page = r.page /\ f.target = r.target
  BY <1>1, <1>4 DEF Readers
<1>7. r.inbound \in Seq(Byte) /\ Len(r.inbound) \in Nat /\ Len(f.inbound) \in Nat /\ r.target \in Nat
  BY <1>1, <1>4 DEF Readers
<1>8. \A i \in 1 .. HEADER_SIZE : i \in 1 .. Len(r.inbound) /\ f.inbound[i] = r.inbound[i]
  BY <1>3, <1>4, <1>7, FrameLens
<1>9. 1 \in 1 .. HEADER_SIZE
  BY FrameLens
<1>10. /\ Aligned(f) /\ Serial(f) = Serial(r) /\ FrameIn(f) = FrameIn(r)
  BY <1>3, <1>8, <1>9 DEF Aligned, Serial, FrameIn
<1>11. Serial(f) \in 1 .. Len(wire) /\ FrameIn(f) \in Frame
  <2>1. r.inbound[1] \in Byte
    BY <1>7, <1>8, <1>9
  <2>2. Serial(r) \in 1 .. Len(wire)
    BY <2>1 DEF Byte, Serial
  <2> QED BY <1>2, <1>10, <2>2 DEF FrameIn
<1>12. BodyFits => ReaderShape(f)
  <2>1. HEADER_SIZE <= Len(f.inbound)
    BY <1>3, <1>4, <1>7, FrameLens
  <2> QED BY <1>2, <1>3, <1>4, <1>5, <1>6, <1>10, <2>1 DEF ReaderShape, BodyFits
<1>13. /\ Len(Rest(r, d)) <= Len(unread)
       /\ Len(Rest(r, d)) = Len(unread) => Full(reader) /\ r = reader
  <2>1. Len(d) \in Nat /\ Len(unread) \in Nat
    BY <1>1, <1>2
  <2>2. Len(Rest(r, d)) <= Len(unread)
    BY <1>1, <1>4, <2>1
  <2>3. ASSUME Len(Rest(r, d)) = Len(unread) PROVE Full(reader) /\ r = reader
    <3>1. m = 0 /\ Len(d) = Len(unread)
      BY <1>1, <1>4, <2>1, <2>3
    <3> QED BY <1>1, <1>2, <1>4, <2>1, <3>1
  <2> QED BY <2>2, <2>3
<1>14. /\ Bodied.inbound \o Rest(Headed.r, Headed.rest) = reader.inbound \o unread
  BY <1>1, <1>4, <1>5 DEF r, d
<1> QED BY <1>3, <1>4, <1>5, <1>6, <1>10, <1>11, <1>12, <1>13, <1>14 DEF r, d

-----------------------------------------------------------------------------
(* While the broker sends nothing, a reader means what it meant.           *)
LEMMA SameWire ==
  ASSUME UNCHANGED wire
  PROVE  /\ Byte' = Byte /\ Readers' = Readers
         /\ \A r : reader' = r /\ ReaderShape(r) => ReaderShape(reader)'
         /\ \A r : reader' = r /\ KeptComplete(r) => KeptComplete(reader)'
<1>1. Byte' = Byte
  BY DEF Byte
<1>2. Readers' = Readers
  BY <1>1 DEF Readers
<1>3. ASSUME NEW r, reader' = r, ReaderShape(r) PROVE ReaderShape(reader)'
  <2>1. Aligned(reader)' = Aligned(r)
    BY <1>3 DEF Aligned
  <2>2. FrameIn(reader)' = FrameIn(r)
    BY <1>3 DEF FrameIn, Serial
  <2> QED BY <1>3, <2>1, <2>2 DEF ReaderShape
<1>4. ASSUME NEW r, reader' = r, KeptComplete(r) PROVE KeptComplete(reader)'
  <2>1. FrameIn(reader)' = FrameIn(r)
    BY <1>4 DEF FrameIn, Serial
  <2> QED BY <1>4, <2>1 DEF KeptComplete, Full
<1> QED BY <1>1, <1>2, <1>3, <1>4

LEMMA IdleReader == Idle \in Readers /\ ReaderShape(Idle)
<1>1. <<>> \in Seq(Byte) /\ HEADER_SIZE \in Nat
  BY FrameLens
<1> QED BY <1>1 DEF Idle, Readers, ReaderShape

LEMMA ShortNotFull ==
  \A r \in Readers : Short(r) => ~Full(r)
<1> SUFFICES ASSUME NEW r \in Readers PROVE Short(r) => ~Full(r)
  OBVIOUS
<1>1. Len(r.inbound) \in Nat /\ r.target \in Nat
  BY DEF Readers
<1> QED BY <1>1 DEF Short, Full

(* A complete header is that of a frame that was sent.                     *)
LEMMA HeaderSent ==
  ASSUME ReaderInv, reader.state \in {"BODY", "PROTOCOL"}
  PROVE  Serial(reader) \in 1 .. Len(wire) /\ FrameIn(reader) \in Frame
<1>1. reader.inbound \in Seq(Byte) /\ HEADER_SIZE <= Len(reader.inbound) /\ wire \in Seq(Frame)
  BY DEF ReaderInv, TypeOK, ReaderShape
<1>2. 1 \in 1 .. Len(reader.inbound)
  BY <1>1, FrameLens
<1>3. reader.inbound[1] \in Byte
  BY <1>1, <1>2
<1>4. Serial(reader) \in 1 .. Len(wire)
  BY <1>3 DEF Byte, Serial
<1> QED BY <1>1, <1>4 DEF FrameIn

(* Every call of amqp_handle_input leaves a reader of the right shape, and *)
(* one that makes the loop go on has used up input.                        *)
LEMMA InputSteps ==
  ASSUME ReaderInv, HandleInput
  PROVE  ReaderInv'
<1>1. /\ wire \in Seq(Frame) /\ inflight \in Seq(Byte) /\ unread \in Seq(Byte) /\ reader \in Readers
      /\ next_page \in Nat /\ queued \in Seq([n : 1 .. Len(wire), page : Nat])
      /\ decoded \in Seq(1 .. Len(wire)) /\ ReaderShape(reader)
      /\ result \in [what : {"none", "no_memory", "bad_data", "aborted", "partial", "ignored", "frame"}, used : Nat]
      /\ rejected \in BOOLEAN /\ starved \in BOOLEAN
      /\ reader.state \in {"BODY", "PROTOCOL"} => KeptComplete(reader)
  BY DEF ReaderInv, TypeOK, Readers
<1>2. CanRead
  BY DEF HandleInput, InputNoBuffer, InputWithBuffer, InputPartial, InputTooLarge, InputBad,
         InputAborts, InputNoMemory, InputIgnored, InputFrame
<1>3. UNCHANGED <<wire, inflight>>
  BY DEF HandleInput, InputNoBuffer, InputWithBuffer, InputPartial, InputTooLarge, InputBad,
         InputAborts, InputNoMemory, InputIgnored, InputFrame, Returns, Fails, socket
<1>4. next_page' \in Nat
  BY <1>1 DEF HandleInput, InputNoBuffer, InputWithBuffer, InputPartial, InputTooLarge, InputBad,
         InputAborts, InputNoMemory, InputIgnored, InputFrame, BufferTaken
<1>5. Len(unread) \in Nat \ {0}
  BY <1>1, <1>2 DEF CanRead
<1>6. /\ wire' \in Seq(Frame) /\ inflight' \in Seq(Byte') /\ Byte' = Byte /\ Readers' = Readers
  BY <1>1, <1>3, SameWire
<1>7. /\ Headed.r \in Readers /\ ReaderShape(Headed.r) /\ Headed.r.state # "IDLE"
      /\ ~InBody /\ Headed.r.state \in {"BODY", "PROTOCOL"} => KeptComplete(Headed.r)
      /\ InBody => KeptComplete(Headed.r)
  <2>1. ASSUME Headed.r.state \in {"BODY", "PROTOCOL"} PROVE KeptComplete(Headed.r)
    <3>1. CASE reader.state \in {"IDLE", "HEADER"}
      <4>1. Full(Headed.r) => ~FrameIn(Headed.r).good
        BY <1>2, <2>1, <3>1, HeadedFacts
      <4> QED BY <4>1 DEF KeptComplete
    <3>2. CASE reader.state \in {"BODY", "PROTOCOL"}
      <4>1. Headed.r = reader
        BY <1>2, <3>2, HeadedFacts
      <4> QED BY <1>1, <3>2, <4>1
    <3> QED BY <1>1, <1>2, <3>1, <3>2 DEF Readers, CanRead
  <2> QED BY <1>2, <2>1, HeadedFacts DEF InBody
<1> DEFINE Same == /\ unread' \in Seq(Byte) /\ queued' \in Seq([n : 1 .. Len(wire), page : Nat])
                   /\ decoded' \in Seq(1 .. Len(wire))
                   /\ result' \in [what : {"none", "no_memory", "bad_data", "aborted", "partial", "ignored", "frame"}, used : Nat]
                   /\ rejected' \in BOOLEAN /\ starved' \in BOOLEAN
                   /\ (result'.what \in {"partial", "ignored"} => result'.used > 0)
<1>8. ASSUME NEW r \in Readers, reader' = r, ReaderShape(r),
             r.state \in {"BODY", "PROTOCOL"} => KeptComplete(r), Same,
             result'.what = "aborted" => r.state \in {"BODY", "PROTOCOL"} /\ AbortCaused(FrameIn(r))
      PROVE  ReaderInv'
  <2>1. ReaderShape(reader)'
    BY <1>3, <1>8, SameWire
  <2>2. reader'.state \in {"BODY", "PROTOCOL"} => KeptComplete(reader)'
    BY <1>3, <1>8, SameWire
  <2>3. TypeOK'
    <3>1. reader' \in Readers'
      BY <1>6, <1>8
    <3>2. Len(wire)' = Len(wire)
      BY <1>3
    <3> QED BY <1>4, <1>6, <1>8, <3>1, <3>2 DEF TypeOK, Readers
  <2>4. FrameIn(reader)' = FrameIn(r)
    BY <1>3, <1>8 DEF FrameIn, Serial
  <2> QED BY <1>8, <2>1, <2>2, <2>3, <2>4 DEF ReaderInv
<1>9. ASSUME NEW what \in {"no_memory", "bad_data", "aborted"}, Fails(what),
             rejected' \in BOOLEAN, starved' \in BOOLEAN
      PROVE  Same /\ result'.what = what
  BY <1>1, <1>9 DEF Fails
<1>10. ASSUME NEW what \in {"partial", "ignored", "frame"}, NEW rest \in Seq(Byte), Returns(what, rest),
              Len(rest) <= Len(unread),
              what # "frame" => Len(rest) # Len(unread),
              queued' \in Seq([n : 1 .. Len(wire), page : Nat]),
              decoded' \in Seq(1 .. Len(wire))
       PROVE  Same /\ result'.what = what
  <2>1. Len(unread) - Len(rest) \in Nat /\ (what # "frame" => Len(unread) - Len(rest) > 0)
    BY <1>1, <1>5, <1>10
  <2> QED BY <1>1, <1>10, <2>1 DEF Returns
<1> HIDE DEF Same
<1>11. CASE InputNoBuffer
  <2>1. Same /\ result'.what = "no_memory"
    BY <1>1, <1>9, <1>11 DEF InputNoBuffer
  <2> QED BY <1>1, <1>8, <1>11, <2>1 DEF InputNoBuffer
<1>12. CASE InputPartial
  <2>1. Same /\ result'.what = "partial"
    <3>1. <<>> \in Seq(Byte) /\ Len(<<>>) = 0
      OBVIOUS
    <3>2. Returns("partial", <<>>) /\ UNCHANGED <<queued, decoded>>
      BY <1>12 DEF InputPartial
    <3>3. Len(<<>>) <= Len(unread) /\ Len(<<>>) # Len(unread)
      BY <1>5, <3>1
    <3>4. queued' \in Seq([n : 1 .. Len(wire), page : Nat]) /\ decoded' \in Seq(1 .. Len(wire))
      BY <1>1, <3>2
    <3> QED BY <1>10, <3>1, <3>2, <3>3, <3>4
  <2>2. CASE ~InBody /\ reader' = Headed.r
    BY <1>7, <1>8, <2>1, <2>2
  <2>3. CASE InBody /\ BodyFits /\ Short(Bodied) /\ reader' = Bodied
    <3>1. Bodied \in Readers /\ ReaderShape(Bodied) /\ ~Full(Bodied)
      BY <1>2, <2>3, BodiedFacts, ShortNotFull
    <3> QED BY <1>8, <2>1, <2>3, <3>1 DEF KeptComplete
  <2> QED BY <1>12, <2>2, <2>3 DEF InputPartial
<1>13. CASE InputTooLarge
  <2>1. Same /\ result'.what = "bad_data"
    BY <1>1, <1>9, <1>13 DEF InputTooLarge
  <2> QED BY <1>7, <1>8, <1>13, <2>1 DEF InputTooLarge
<1>14. CASE InputBad
  <2>1. Same /\ result'.what = "bad_data"
    BY <1>1, <1>9, <1>14 DEF InputBad
  <2>2. Bodied \in Readers /\ ReaderShape(Bodied)
    BY <1>2, <1>14, BodiedFacts DEF InputBad, Complete
  <2> QED BY <1>8, <1>14, <2>1, <2>2 DEF InputBad, KeptComplete
<1>15. CASE InputNoMemory
  <2>1. Same /\ result'.what = "no_memory"
    BY <1>1, <1>9, <1>15 DEF InputNoMemory
  <2>2. Bodied \in Readers /\ ReaderShape(Bodied)
    BY <1>2, <1>15, BodiedFacts DEF InputNoMemory, Complete
  <2> QED BY <1>8, <1>15, <2>1, <2>2 DEF InputNoMemory, KeptComplete
<1>16. CASE InputIgnored
  <2> DEFINE rest == Rest(Headed.r, Headed.rest)
  <2>1. InBody /\ BodyFits /\ FrameIn(Bodied).good /\ FrameIn(Bodied).kind = "unknown"
        /\ Returns("ignored", rest) /\ UNCHANGED <<queued, decoded>> /\ reader' = Idle
    BY <1>16 DEF InputIgnored, Complete
  <2>2. /\ rest \in Seq(Byte) /\ Len(rest) <= Len(unread)
        /\ FrameIn(Bodied) = FrameIn(Headed.r)
        /\ Len(rest) = Len(unread) => Full(reader) /\ Headed.r = reader
    BY <1>2, <2>1, BodiedFacts
  <2>3. Len(rest) # Len(unread)
    BY <1>7, <2>1, <2>2 DEF KeptComplete
  <2>4. Same /\ result'.what = "ignored"
    <3> HIDE DEF rest
    <3> QED BY <1>1, <1>10, <2>1, <2>2, <2>3
  <2> QED BY <1>8, <2>1, <2>4, IdleReader DEF Idle
<1>17. ASSUME NEW queueIt \in BOOLEAN, InputFrame(queueIt) PROVE ReaderInv'
  <2> DEFINE rest == Rest(Headed.r, Headed.rest)
  <2>1. InBody /\ Returns("frame", rest) /\ reader' = Idle
        /\ decoded' = Append(decoded, Serial(Bodied))
        /\ queued' = IF queueIt THEN Append(queued, [n |-> Serial(Bodied), page |-> Bodied.page])
                     ELSE queued
    BY <1>17 DEF InputFrame, Complete
  <2>2. /\ rest \in Seq(Byte) /\ Len(rest) <= Len(unread)
        /\ Serial(Bodied) \in 1 .. Len(wire) /\ Bodied.page \in Nat
    BY <1>2, <2>1, BodiedFacts
  <2>3. Same /\ result'.what = "frame"
    <3>1. decoded' \in Seq(1 .. Len(wire))
      BY <1>1, <2>1, <2>2, AppendProperties
    <3>2. queued' \in Seq([n : 1 .. Len(wire), page : Nat])
      <4> DEFINE e == [n |-> Serial(Bodied), page |-> Bodied.page]
      <4>1. e \in [n : 1 .. Len(wire), page : Nat]
        BY <2>2
      <4> HIDE DEF e
      <4>2. queued' = IF queueIt THEN Append(queued, e) ELSE queued
        BY <2>1 DEF e
      <4> QED BY <1>1, <4>1, <4>2, AppendProperties
    <3> HIDE DEF rest
    <3> QED BY <1>1, <1>10, <2>1, <2>2, <3>1, <3>2
  <2> QED BY <1>8, <2>1, <2>3, IdleReader DEF Idle
<1>18. CASE InputAborts
  <2>1. Same /\ result'.what = "aborted"
    BY <1>1, <1>9, <1>18 DEF InputAborts
  <2>2. /\ InBody /\ BodyFits /\ reader' = Bodied
        /\ \/ Len(Bodied.inbound) > Bodied.target
           \/ Full(Bodied) /\ ~FrameIn(Bodied).good /\ FrameIn(Bodied).kind = "protocol"
    BY <1>18 DEF InputAborts
  <2>3. /\ Bodied \in Readers /\ ReaderShape(Bodied)
        /\ FrameIn(Bodied) \in Frame
        /\ Len(Bodied.inbound) <= Bodied.target \/ Wraps(FrameIn(Bodied))
        /\ Bodied.state \in {"BODY", "PROTOCOL"}
    BY <1>2, <2>2, BodiedFacts DEF InBody
  <2>4. Len(Bodied.inbound) \in Nat /\ Bodied.target \in Nat
    BY <2>3 DEF Readers
  <2>5. AbortCaused(FrameIn(Bodied)) /\ KeptComplete(Bodied)
    <3>1. CASE Wraps(FrameIn(Bodied))
      BY <2>3, <3>1, TargetSizes DEF AbortCaused, KeptComplete
    <3>2. CASE Full(Bodied) /\ ~FrameIn(Bodied).good /\ FrameIn(Bodied).kind = "protocol"
      BY <3>2 DEF AbortCaused, KeptComplete
    <3> QED BY <2>2, <2>3, <2>4, <3>1, <3>2
  <2> QED BY <1>8, <2>1, <2>2, <2>3, <2>5
<1> QED BY <1>11, <1>12, <1>13, <1>14, <1>15, <1>16, <1>17, <1>18 DEF HandleInput, InputWithBuffer

(* What arrives, is served from the queue, is recycled, or is sent leaves  *)
(* the reader alone.                                                       *)
LEMMA ReaderSteps ==
  ReaderInv /\ [Next]_vars => ReaderInv'
<1> SUFFICES ASSUME ReaderInv, [Next]_vars PROVE ReaderInv'
  OBVIOUS
<1>1. /\ wire \in Seq(Frame) /\ inflight \in Seq(Byte) /\ unread \in Seq(Byte) /\ reader \in Readers
      /\ next_page \in Nat /\ queued \in Seq([n : 1 .. Len(wire), page : Nat])
      /\ decoded \in Seq(1 .. Len(wire)) /\ ReaderShape(reader)
      /\ result \in [what : {"none", "no_memory", "bad_data", "aborted", "partial", "ignored", "frame"}, used : Nat]
      /\ rejected \in BOOLEAN /\ starved \in BOOLEAN
      /\ reader.state \in {"BODY", "PROTOCOL"} => KeptComplete(reader)
      /\ result.what \in {"partial", "ignored"} => result.used > 0
      /\ result.what = "aborted" =>
           reader.state \in {"BODY", "PROTOCOL"} /\ AbortCaused(FrameIn(reader))
  BY DEF ReaderInv, TypeOK, Readers
<1>2. ASSUME UNCHANGED <<wire, reader, result, decoded, rejected, starved>>,
             inflight' \in Seq(Byte), unread' \in Seq(Byte), next_page' \in Nat,
             queued' \in Seq([n : 1 .. Len(wire), page : Nat])
      PROVE  ReaderInv'
  <2>1. Byte' = Byte /\ Readers' = Readers /\ ReaderShape(reader)'
        /\ (reader'.state \in {"BODY", "PROTOCOL"} => KeptComplete(reader)')
    BY <1>1, <1>2, SameWire
  <2>2. Len(wire)' = Len(wire) /\ FrameIn(reader)' = FrameIn(reader)
    BY <1>2 DEF FrameIn, Serial
  <2> QED BY <1>1, <1>2, <2>1, <2>2 DEF ReaderInv, TypeOK, Readers
<1>3. CASE HandleInput
  BY <1>3, InputSteps
<1>4. CASE Recv
  <2>1. PICK k \in 1 .. SockBuffer : /\ k <= Len(inflight)
                                     /\ unread' = SubSeq(inflight, 1, k)
                                     /\ inflight' = SubSeq(inflight, k + 1, Len(inflight))
    BY <1>4 DEF Recv
  <2>2. k \in 0 .. Len(inflight)
    BY <1>1, <2>1
  <2>3. inflight' \in Seq(Byte) /\ unread' \in Seq(Byte)
    BY <1>1, <2>1, <2>2, CutFacts
  <2> QED BY <1>1, <1>2, <1>4, <2>3 DEF Recv
<1>5. CASE WaitFromQueue
  BY <1>1, <1>2, <1>5 DEF WaitFromQueue, socket
<1>6. CASE MaybeReleaseBuffers
  BY <1>1, <1>2, <1>6 DEF MaybeReleaseBuffers, socket
<1>7. CASE BrokerSends
  <2>1. PICK f \in Frame : /\ wire' = Append(wire, f)
                           /\ inflight' = inflight \o BytesOf(Len(wire) + 1, f)
    BY <1>7 DEF BrokerSends
  <2>2. UNCHANGED <<unread, reader, next_page, queued, decoded, result, rejected, starved>>
    BY <1>7 DEF BrokerSends
  <2>3. /\ wire' \in Seq(Frame) /\ Len(wire') = Len(wire) + 1 /\ Len(wire) \in Nat
        /\ \A i \in 1 .. Len(wire) : wire'[i] = wire[i]
    BY <1>1, <2>1, AppendProperties
  <2>4. 1 .. Len(wire) \subseteq 1 .. Len(wire') /\ Byte \subseteq Byte'
    BY <2>3 DEF Byte
  <2>5. BytesOf(Len(wire) + 1, f) \in Seq(Byte')
    <3>1. FrameLen(f) \in Nat
      BY FrameLens
    <3>2. \A i \in 1 .. FrameLen(f) : <<Len(wire) + 1, i>> \in Byte'
      BY <2>3, <3>1 DEF Byte
    <3> DEFINE n == FrameLen(f)
               B == Byte'
    <3>3. n \in Nat /\ \A i \in 1 .. n : <<Len(wire) + 1, i>> \in B
      BY <3>1, <3>2
    <3> HIDE DEF n, B
    <3>4. [i \in 1 .. n |-> <<Len(wire) + 1, i>>] \in Seq(B)
      BY <3>3
    <3> QED BY <3>4 DEF BytesOf, n, B
  <2>6. inflight' \in Seq(Byte') /\ unread' \in Seq(Byte')
    <3>1. inflight \in Seq(Byte') /\ unread \in Seq(Byte')
      BY <1>1, <2>4, SeqMonotonic
    <3> QED BY <2>1, <2>2, <2>5, <3>1, ConcatProperties
  <2>7. reader' \in Readers'
    <3>1. reader.inbound \in Seq(Byte')
      BY <1>1, <2>4, SeqMonotonic DEF Readers
    <3> QED BY <1>1, <2>2, <3>1 DEF Readers
  <2>8. decoded' \in Seq(1 .. Len(wire'))
    BY <1>1, <2>2, <2>4, SeqMonotonic
  <2>9. queued' \in Seq([n : 1 .. Len(wire'), page : Nat])
    <3>1. [n : 1 .. Len(wire), page : Nat] \subseteq [n : 1 .. Len(wire'), page : Nat]
      BY <2>4
    <3> QED BY <1>1, <2>2, <3>1, SeqMonotonic
  <2>10. TypeOK'
    BY <1>1, <2>2, <2>3, <2>6, <2>7, <2>8, <2>9 DEF TypeOK, Readers
  <2>11. ASSUME reader.state \in {"BODY", "PROTOCOL"}
         PROVE  FrameIn(reader)' = FrameIn(reader) /\ Aligned(reader)' = Aligned(reader)
    <3>1. Serial(reader) \in 1 .. Len(wire)
      BY <2>11, HeaderSent
    <3> QED BY <2>2, <2>3, <3>1 DEF FrameIn, Serial, Aligned
  <2>12. ReaderShape(reader)'
    BY <1>1, <2>2, <2>11 DEF ReaderShape
  <2>13. reader'.state \in {"BODY", "PROTOCOL"} => KeptComplete(reader)'
    BY <1>1, <2>2, <2>11 DEF KeptComplete, Full
  <2> QED BY <1>1, <2>2, <2>10, <2>11, <2>12, <2>13 DEF ReaderInv
<1>8. CASE UNCHANGED vars
  BY <1>1, <1>2, <1>8 DEF vars, socket
<1> QED BY <1>3, <1>4, <1>5, <1>6, <1>7, <1>8 DEF Next

LEMMA ReaderInit == Init => ReaderInv
<1> SUFFICES ASSUME Init PROVE ReaderInv
  OBVIOUS
<1>1. \A S : <<>> \in Seq(S)
  OBVIOUS
<1>2. Idle \in Readers /\ ReaderShape(Idle) /\ Idle.state = "IDLE"
  BY IdleReader DEF Idle
<1> QED BY <1>1, <1>2 DEF Init, ReaderInv, TypeOK, Readers

(* The reader keeps to its types, whatever the broker sends and whether    *)
(* memory runs out.                                                        *)
THEOREM ReaderTyped == Spec => []TypeOK
<1>1. ReaderInv => TypeOK
  BY DEF ReaderInv
<1> QED BY <1>1, ReaderInit, ReaderSteps, PTL DEF Spec

(* For every header size, frame_max, modulus of the size and socket        *)
(* buffer, however the bytes are cut and also when memory runs out: an     *)
(* assertion of amqp_handle_input fails only on a header whose size wraps  *)
(* target_size (amqp_connection.c:189) or on a protocol header that is     *)
(* none (:274); only in the first case is inbound_offset beyond            *)
(* target_size (:175), and never beyond the frame buffer; and the loop of  *)
(* wait_frame_inner never spins on a call that used up no input (the       *)
(* assertion at amqp_socket.c:155).                                        *)
THEOREM AbortsOnlyOnHeaders == Spec => []AbortsOnHeaderOnly
<1>1. ReaderInv => AbortsOnHeaderOnly
  <2> SUFFICES ASSUME ReaderInv PROVE AbortsOnHeaderOnly
    OBVIOUS
  <2>1. reader.state \in {"IDLE", "HEADER", "BODY", "PROTOCOL", "MISREAD"} /\ ReaderShape(reader)
    BY DEF ReaderInv, TypeOK
  <2>2. Len(<<>>) = 0
    OBVIOUS
  <2>3. /\ Len(reader.inbound) > reader.target => Wraps(FrameIn(reader))
        /\ Len(reader.inbound) <= FrameMax
    <3>1. Len(reader.inbound) \in Nat /\ reader.target \in Nat
      BY DEF ReaderInv, TypeOK
    <3>2. CASE reader.state = "IDLE"
      <4>1. reader.inbound = <<>> /\ reader.target = HEADER_SIZE
        BY <2>1, <3>2 DEF ReaderShape, Idle
      <4> QED BY <2>2, <4>1, FrameLens
    <3>3. CASE reader.state = "HEADER"
      BY <2>1, <3>1, <3>3, FrameLens DEF ReaderShape
    <3>4. CASE reader.state \in {"BODY", "PROTOCOL"}
      BY <2>1, <3>1, <3>4 DEF ReaderShape
    <3>5. CASE reader.state = "MISREAD"
      BY <2>1, <3>1, <3>5, FrameLens DEF ReaderShape
    <3> QED BY <2>1, <3>2, <3>3, <3>4, <3>5
  <2> QED BY <2>3 DEF ReaderInv, AbortsOnHeaderOnly
<1> QED BY <1>1, ReaderInit, ReaderSteps, PTL DEF Spec

-----------------------------------------------------------------------------
(* Buffers.  A call takes the next page only for a reader that was idle;   *)
(* the pages handed out before belong to the queue and to the reader.      *)
LEMMA BufferSteps ==
  ReaderInv /\ BuffersDisjoint /\ [Next]_vars => BuffersDisjoint'
<1> SUFFICES ASSUME ReaderInv, BuffersDisjoint, [Next]_vars PROVE BuffersDisjoint'
  OBVIOUS
<1>1. /\ next_page \in Nat /\ queued \in Seq([n : 1 .. Len(wire), page : Nat])
      /\ reader \in Readers /\ ReaderShape(reader)
  BY DEF ReaderInv, TypeOK, Readers
<1>2. /\ \A i, j \in DOMAIN queued : i # j => queued[i].page # queued[j].page
      /\ \A i \in DOMAIN queued : /\ queued[i].page \in Nat /\ queued[i].page < next_page
                                  /\ queued[i].page # reader.page
      /\ reader.state # "IDLE" => reader.page < next_page
  <2>1. \A i \in DOMAIN queued : queued[i].page \in Nat
    <3>1. \A i \in DOMAIN queued : queued[i] \in [n : 1 .. Len(wire), page : Nat]
      BY <1>1, ElementOfSeq, LenProperties
    <3> QED BY <3>1
  <2>2. /\ \A i, j \in DOMAIN queued : i # j => queued[i].page # queued[j].page
        /\ \A i \in DOMAIN queued : queued[i].page < next_page /\ queued[i].page # reader.page
        /\ reader.state # "IDLE" => reader.page < next_page
    BY Zenon DEF BuffersDisjoint
  <2> QED BY <2>1, <2>2
<1>3. ASSUME CanRead, BufferTaken, UNCHANGED queued,
             \/ reader' = Headed.r \/ reader' = Idle
             \/ InBody /\ reader' = Bodied
      PROVE  BuffersDisjoint'
  <2> DEFINE page == IF reader.state = "IDLE" THEN next_page ELSE reader.page
  <2>1. /\ Headed.r.page = page
        /\ InBody => Bodied.page = page
    BY <1>3, HeadedFacts, BodiedFacts
  <2>2. Idle.page = -1 /\ Idle.state = "IDLE"
    BY DEF Idle
  <2>3. reader'.page \in {page, -1} /\ (reader'.state # "IDLE" => reader'.page = page)
    BY <1>3, <2>1, <2>2
  <2>4. /\ next_page' \in Nat /\ page < next_page' /\ next_page <= next_page'
        /\ \A i \in DOMAIN queued : queued[i].page # page
    BY <1>1, <1>2, <1>3 DEF BufferTaken, Readers, CanRead
  <2>5. \A i \in DOMAIN queued : queued[i].page # -1 /\ queued[i].page < next_page'
    <3>1. next_page \in Nat /\ next_page' \in Nat /\ next_page <= next_page'
      BY <1>1, <2>4
    <3> TAKE i \in DOMAIN queued
    <3>2. queued[i].page \in Nat /\ queued[i].page < next_page
      BY <1>2
    <3> HIDE DEF page
    <3> QED BY <3>1, <3>2
  <2> HIDE DEF page
  <2> QED BY <1>2, <1>3, <2>3, <2>4, <2>5 DEF BuffersDisjoint
<1>4. CASE InputNoBuffer
  BY <1>2, <1>4 DEF InputNoBuffer, Fails, BuffersDisjoint
<1>5. CASE InputPartial
  BY <1>3, <1>5 DEF InputPartial
<1>6. CASE InputTooLarge \/ InputBad \/ InputAborts \/ InputNoMemory
  BY <1>3, <1>6 DEF InputTooLarge, InputBad, InputAborts, InputNoMemory, Fails, Complete
<1>7. CASE InputIgnored
  <2>1. CanRead /\ BufferTaken /\ UNCHANGED queued /\ reader' = Idle /\ InBody
    BY <1>7 DEF InputIgnored, Complete
  <2> QED BY <1>3, <2>1
<1>8. ASSUME NEW queueIt \in BOOLEAN, InputFrame(queueIt) PROVE BuffersDisjoint'
  <2>1. CanRead /\ BufferTaken /\ reader' = Idle /\ InBody
    BY <1>8 DEF InputFrame, Complete
  <2>2. CASE ~queueIt
    <3>1. UNCHANGED queued
      BY <1>8, <2>2 DEF InputFrame
    <3> QED BY <1>3, <2>1, <3>1
  <2>3. CASE queueIt
    <3> DEFINE page == IF reader.state = "IDLE" THEN next_page ELSE reader.page
               e == [n |-> Serial(Bodied), page |-> Bodied.page]
    <3>1. e \in [n : 1 .. Len(wire), page : Nat] /\ e.page = page /\ page \in Nat
      BY <2>1, HeadedFacts, BodiedFacts
    <3>2. queued' = Append(queued, e)
      BY <1>8, <2>3 DEF InputFrame
    <3> HIDE DEF e
    <3>3. /\ Len(queued) + 1 \notin DOMAIN queued
          /\ \A i \in DOMAIN queued' :
               \/ i \in DOMAIN queued /\ queued'[i] = queued[i]
               \/ i = Len(queued) + 1 /\ queued'[i] = e
      BY <1>1, <3>1, <3>2, AppendFacts
    <3>4. /\ next_page' \in Nat /\ page < next_page' /\ next_page <= next_page'
          /\ \A i \in DOMAIN queued : queued[i].page # page
      BY <1>1, <1>2, <2>1, <3>1 DEF BufferTaken, Readers, CanRead
    <3> HIDE DEF page
    <3>5. \A i, j \in DOMAIN queued' : i # j => queued'[i].page # queued'[j].page
      BY <1>2, <3>1, <3>3, <3>4
    <3>6. \A i \in DOMAIN queued' : queued'[i].page < next_page' /\ queued'[i].page \in Nat
      BY <1>1, <1>2, <3>1, <3>3, <3>4
    <3> QED BY <2>1, <3>5, <3>6 DEF BuffersDisjoint, Idle
  <2> QED BY <2>2, <2>3
<1>9. CASE Recv \/ BrokerSends \/ UNCHANGED vars
  BY <1>9 DEF Recv, BrokerSends, vars, BuffersDisjoint
<1>10. CASE WaitFromQueue
  <2>1. /\ queued # <<>> /\ queued' = Tail(queued) /\ UNCHANGED <<reader, next_page>>
    BY <1>10 DEF WaitFromQueue
  <2>2. \A i \in DOMAIN queued' : /\ i \in Nat \ {0} /\ i + 1 \in DOMAIN queued
                                  /\ queued'[i] = queued[i + 1]
    BY <1>1, <2>1, TailFacts
  <2>3. \A i, j \in DOMAIN queued' : i # j => i + 1 # j + 1
    BY <2>2
  <2> QED BY <1>2, <2>1, <2>2, <2>3 DEF BuffersDisjoint
<1>11. CASE MaybeReleaseBuffers
  <2>1. queued' = <<>> /\ reader' = reader /\ reader.state = "IDLE"
    BY <1>11 DEF MaybeReleaseBuffers, ReleaseBuffersOk
  <2>2. DOMAIN queued' = {}
    BY <2>1
  <2> QED BY <2>1, <2>2 DEF BuffersDisjoint
<1> QED BY <1>4, <1>5, <1>6, <1>7, <1>8, <1>9, <1>10, <1>11 DEF Next, HandleInput, InputWithBuffer

(* The frames that wait in the queue and the frame being read never share  *)
(* a page of the frame pool, whatever amqp_maybe_release_buffers recycled  *)
(* before them.  (A frame the program was handed is not among them: the    *)
(* next pop recycles its buffer.)                                          *)
THEOREM BuffersNeverShared == Spec => []BuffersDisjoint
<1>1. Init => BuffersDisjoint
  BY DEF Init, BuffersDisjoint, Idle
<1> QED BY <1>1, ReaderInit, ReaderSteps, BufferSteps, PTL DEF Spec

-----------------------------------------------------------------------------
(* Induction, as a fact about a set: one that has 0 and the successor of   *)
(* each of its numbers has all of them.  A number m left out would make    *)
(* n |-> n + 1 an injection of the numbers of the set below m into those   *)
(* of them that are not 0.                                                 *)
LEMMA NatSetInduction ==
  ASSUME NEW T, 0 \in T, \A n \in Nat : n \in T => n + 1 \in T
  PROVE  \A n \in Nat : n \in T
<1> SUFFICES ASSUME NEW m \in Nat, m \notin T PROVE FALSE
  OBVIOUS
<1> DEFINE A == {n \in 0 .. m : n \in T}
           f == [n \in A |-> n + 1]
<1>1. IsFiniteSet(A)
  <2>1. IsFiniteSet(0 .. m)
    BY FS_Interval
  <2> QED BY <2>1, FS_Subset
<1>2. IsFiniteSet(A \ {0}) /\ Cardinality(A \ {0}) < Cardinality(A)
  <2>1. 0 \in A
    OBVIOUS
  <2> HIDE DEF A
  <2>2. Cardinality(A) \in Nat
    BY <1>1, FS_CardinalityType
  <2>3. IsFiniteSet(A \ {0}) /\ Cardinality(A \ {0}) = Cardinality(A) - 1
    BY <1>1, <2>1, FS_RemoveElement
  <2> QED BY <2>2, <2>3
<1>3. f \in [A -> A \ {0}]
  <2> SUFFICES ASSUME NEW n \in A PROVE n + 1 \in A \ {0}
    OBVIOUS
  <2>1. n \in Nat /\ n < m
    OBVIOUS
  <2> QED BY <2>1
<1>4. PICK x \in A, y \in A : x # y /\ f[x] = f[y]
  <2> HIDE DEF A, f
  <2> QED BY <1>1, <1>2, <1>3, FS_PigeonHole
<1> QED BY <1>4

(* The same from the top of an interval down.                              *)
LEMMA DownInduction ==
  ASSUME NEW L \in Nat, NEW T, L + 1 \in T, \A k \in 1 .. L : k + 1 \in T => k \in T
  PROVE  \A k \in 1 .. L + 1 : k \in T
<1> DEFINE U == {m \in Nat : m <= L => L + 1 - m \in T}
<1>1. 0 \in U
  OBVIOUS
<1>2. ASSUME NEW m \in Nat, m \in U PROVE m + 1 \in U
  <2> SUFFICES ASSUME m + 1 <= L PROVE L + 1 - (m + 1) \in T
    OBVIOUS
  <2>1. L + 1 - m \in T
    BY <1>2
  <2>2. L + 1 - (m + 1) \in 1 .. L /\ L + 1 - (m + 1) + 1 = L + 1 - m
    OBVIOUS
  <2> QED BY <2>1, <2>2
<1> HIDE DEF U
<1>3. \A m \in Nat : m \in U
  BY <1>1, <1>2, NatSetInduction
<1>4. ASSUME NEW k \in 1 .. L + 1 PROVE k \in T
  <2>1. CASE k = L + 1
    BY <2>1
  <2>2. CASE k # L + 1
    <3>1. L + 1 - k \in Nat /\ L + 1 - k <= L /\ L + 1 - (L + 1 - k) = k
      BY <2>2
    <3>2. L + 1 - k \in U
      BY <1>3, <3>1
    <3> QED BY <3>1, <3>2 DEF U
  <2> QED BY <2>1, <2>2
<1> QED BY <1>4

-----------------------------------------------------------------------------
(* The bytes of the frames n, n + 1, ... of a sequence of frames: what     *)
(* StreamOfFrom says of wire.                                              *)
Unrolled(w, g) ==
  g = [k \in 1 .. Len(w) + 1 |->
         IF k > Len(w) THEN <<>> ELSE BytesOf(k, w[k]) \o g[k + 1]]

FramesFrom(w, n) == (CHOOSE g : Unrolled(w, g))[n]

LEMMA StreamIs ==
  /\ \A n : StreamOfFrom(n) = FramesFrom(wire, n)
  /\ \A n : StreamOfFrom(n)' = FramesFrom(wire', n)
BY Zenon DEF StreamOfFrom, Unrolled, FramesFrom

LEMMA UnrolledExists ==
  ASSUME NEW w \in Seq(Frame)
  PROVE  \E g : Unrolled(w, g)
<1> DEFINE L == Len(w)
           R(g, k) == IF k > L THEN <<>> ELSE BytesOf(k, w[k]) \o g[k + 1]
           From(n, g) == \A k \in n .. L + 1 : g[k] = R(g, k)
           T == {n \in 1 .. L + 1 : \E g : From(n, g)}
<1>1. L \in Nat
  OBVIOUS
<1> HIDE DEF L
<1>2. L + 1 \in T
  <2>1. From(L + 1, [k \in 1 .. L + 1 |-> <<>>])
    BY <1>1
  <2> HIDE DEF From
  <2> QED BY <1>1, <2>1
<1>3. ASSUME NEW n \in 1 .. L, n + 1 \in T PROVE n \in T
  <2>1. PICK g : From(n + 1, g)
    BY <1>3
  <2> DEFINE h == [k \in 1 .. L + 1 |-> IF k = n THEN R(g, k) ELSE g[k]]
  <2>2. ASSUME NEW k \in n .. L + 1 PROVE h[k] = R(h, k)
    <3>1. k \in 1 .. L + 1 /\ (k = n \/ k \in n + 1 .. L + 1)
      BY <1>1
    <3>2. ~(k > L) => k + 1 \in 1 .. L + 1 /\ k + 1 # n /\ h[k + 1] = g[k + 1]
      BY <1>1
    <3>3. R(h, k) = R(g, k)
      <4> HIDE DEF h
      <4> QED BY <3>2
    <3>4. h[k] = R(g, k)
      BY <2>1, <3>1
    <3> QED BY <3>3, <3>4
  <2>3. From(n, h)
    BY <2>2
  <2> HIDE DEF From, h
  <2> QED BY <1>1, <2>3
<1>4. \A n \in 1 .. L + 1 : n \in T
  <2> HIDE DEF T
  <2> QED BY <1>1, <1>2, <1>3, DownInduction
<1>5. PICK g : From(1, g)
  BY <1>1, <1>4
<1> DEFINE h == [k \in 1 .. L + 1 |-> g[k]]
<1>6. ASSUME NEW k \in 1 .. L + 1 PROVE h[k] = R(h, k)
  <2>1. g[k] = R(g, k)
    BY <1>5
  <2>2. ~(k > L) => k + 1 \in 1 .. L + 1 /\ h[k + 1] = g[k + 1]
    BY <1>1
  <2>3. R(h, k) = R(g, k)
    <3> HIDE DEF h
    <3> QED BY <2>2
  <2> QED BY <2>1, <2>3
<1>7. h = [k \in 1 .. L + 1 |-> R(h, k)]
  BY <1>6
<1> HIDE DEF h
<1> QED BY <1>7 DEF Unrolled, L

AnyByte == Nat \X Nat

LEMMA BytesFacts ==
  ASSUME NEW n \in Nat, NEW f \in Frame
  PROVE  /\ BytesOf(n, f) \in Seq(AnyByte) /\ Len(BytesOf(n, f)) = FrameLen(f)
         /\ \A i \in 1 .. FrameLen(f) : BytesOf(n, f)[i] = <<n, i>>
<1> DEFINE l == FrameLen(f)
<1>1. l \in Nat
  BY FrameLens
<1>2. \A i \in 1 .. l : <<n, i>> \in AnyByte
  BY <1>1 DEF AnyByte
<1> HIDE DEF l
<1>3. /\ [i \in 1 .. l |-> <<n, i>>] \in Seq(AnyByte)
      /\ Len([i \in 1 .. l |-> <<n, i>>]) = l
  BY <1>1, <1>2
<1> QED BY <1>3 DEF BytesOf, l

(* The recursion, one frame at a time.                                     *)
LEMMA FramesUnroll ==
  ASSUME NEW w \in Seq(Frame)
  PROVE  /\ FramesFrom(w, Len(w) + 1) = <<>>
         /\ \A k \in 1 .. Len(w) : FramesFrom(w, k) = BytesOf(k, w[k]) \o FramesFrom(w, k + 1)
<1> DEFINE g == CHOOSE g : Unrolled(w, g)
<1>1. Unrolled(w, g)
  BY UnrolledExists
<1>2. \A n : FramesFrom(w, n) = g[n]
  BY DEF FramesFrom
<1> HIDE DEF g
<1>3. \A k \in 1 .. Len(w) + 1 :
        g[k] = IF k > Len(w) THEN <<>> ELSE BytesOf(k, w[k]) \o g[k + 1]
  BY <1>1 DEF Unrolled
<1>4. Len(w) \in Nat /\ \A k \in 1 .. Len(w) : k \in 1 .. Len(w) + 1 /\ ~(k > Len(w))
  OBVIOUS
<1>5. Len(w) + 1 \in 1 .. Len(w) + 1 /\ Len(w) + 1 > Len(w)
  BY <1>4
<1>6. g[Len(w) + 1] = <<>>
  BY <1>3, <1>5
<1>7. \A k \in 1 .. Len(w) : g[k] = BytesOf(k, w[k]) \o g[k + 1]
  BY <1>3, <1>4
<1> QED BY <1>2, <1>6, <1>7

LEMMA FramesTyped ==
  ASSUME NEW w \in Seq(Frame)
  PROVE  \A k \in 1 .. Len(w) + 1 : FramesFrom(w, k) \in Seq(AnyByte)
<1> DEFINE T == {k \in 1 .. Len(w) + 1 : FramesFrom(w, k) \in Seq(AnyByte)}
<1>1. Len(w) \in Nat /\ Len(w) + 1 \in T
  <2>1. Len(w) \in Nat /\ Len(w) + 1 \in 1 .. Len(w) + 1 /\ <<>> \in Seq(AnyByte)
    OBVIOUS
  <2>2. FramesFrom(w, Len(w) + 1) = <<>>
    BY FramesUnroll
  <2> QED BY <2>1, <2>2
<1>2. ASSUME NEW k \in 1 .. Len(w), k + 1 \in T PROVE k \in T
  <2>1. w[k] \in Frame /\ k \in Nat
    OBVIOUS
  <2>2. BytesOf(k, w[k]) \in Seq(AnyByte) /\ FramesFrom(w, k + 1) \in Seq(AnyByte)
    BY <1>2, <2>1, BytesFacts
  <2>3. FramesFrom(w, k) = BytesOf(k, w[k]) \o FramesFrom(w, k + 1)
    BY FramesUnroll
  <2>4. k \in 1 .. Len(w) + 1
    BY <1>1
  <2> QED BY <2>2, <2>3, <2>4, ConcatProperties
<1> HIDE DEF T
<1>3. \A k \in 1 .. Len(w) + 1 : k \in T
  BY <1>1, <1>2, DownInduction
<1> QED BY <1>3 DEF T

(* What the broker sends goes to the end of what is still to be read.      *)
LEMMA FramesAppend ==
  ASSUME NEW w \in Seq(Frame), NEW f \in Frame
  PROVE  \A k \in 1 .. Len(w) + 1 :
           FramesFrom(Append(w, f), k) = FramesFrom(w, k) \o BytesOf(Len(w) + 1, f)
<1> DEFINE v == Append(w, f)
           last == BytesOf(Len(w) + 1, f)
           T == {k \in 1 .. Len(w) + 1 : FramesFrom(v, k) = FramesFrom(w, k) \o last}
<1>1. /\ v \in Seq(Frame) /\ Len(v) = Len(w) + 1 /\ Len(w) \in Nat /\ v[Len(w) + 1] = f
      /\ \A k \in 1 .. Len(w) : v[k] = w[k]
  BY AppendProperties
<1>2. last \in Seq(AnyByte)
  BY <1>1, BytesFacts
<1> HIDE DEF v
<1>3. Len(w) + 1 \in T
  <2>1. FramesFrom(v, Len(w) + 2) = <<>>
    <3>1. FramesFrom(v, Len(v) + 1) = <<>>
      BY <1>1, FramesUnroll
    <3>2. Len(v) + 1 = Len(w) + 2
      BY <1>1
    <3> QED BY <3>1, <3>2
  <2>2. FramesFrom(v, Len(w) + 1) = last \o <<>>
    <3>1. Len(w) + 1 \in 1 .. Len(v) /\ Len(w) + 1 + 1 = Len(w) + 2
      BY <1>1
    <3> QED BY <1>1, <2>1, <3>1, FramesUnroll
  <2>3. FramesFrom(w, Len(w) + 1) = <<>>
    BY FramesUnroll
  <2> HIDE DEF last
  <2>4. last \o <<>> = <<>> \o last
    BY <1>2, ConcatEmptySeq
  <2>5. Len(w) + 1 \in 1 .. Len(w) + 1
    BY <1>1
  <2> QED BY <2>2, <2>3, <2>4, <2>5
<1> HIDE DEF last
<1>4. ASSUME NEW k \in 1 .. Len(w), k + 1 \in T PROVE k \in T
  <2> DEFINE b == BytesOf(k, w[k])
             t == FramesFrom(w, k + 1)
  <2>1. w[k] \in Frame /\ k \in Nat /\ k + 1 \in 1 .. Len(w) + 1 /\ k \in 1 .. Len(w) + 1
        /\ k \in 1 .. Len(v)
    BY <1>1
  <2>2. b \in Seq(AnyByte) /\ t \in Seq(AnyByte)
    BY <2>1, BytesFacts, FramesTyped
  <2>3. FramesFrom(w, k) = b \o t
    BY FramesUnroll
  <2>4. FramesFrom(v, k) = b \o FramesFrom(v, k + 1)
    BY <1>1, <2>1, FramesUnroll
  <2>5. FramesFrom(v, k + 1) = t \o last
    BY <1>4
  <2> HIDE DEF b, t
  <2>6. (b \o t) \o last = b \o (t \o last)
    BY <1>2, <2>2, ConcatAssociative
  <2> QED BY <2>1, <2>3, <2>4, <2>5, <2>6
<1>5. \A k \in 1 .. Len(w) + 1 : k \in T
  <2> HIDE DEF T
  <2> QED BY <1>1, <1>3, <1>4, DownInduction
<1> QED BY <1>5 DEF v, last

-----------------------------------------------------------------------------
(* What a piece of the stream from frame n on starts with.                 *)
LEMMA StreamHead ==
  ASSUME NEW w \in Seq(Frame), NEW n \in 1 .. Len(w) + 1,
         NEW p \in Seq(AnyByte), NEW q \in Seq(AnyByte), p # <<>>, p \o q = FramesFrom(w, n)
  PROVE  /\ n \in 1 .. Len(w) /\ w[n] \in Frame
         /\ \A i \in 1 .. Len(p) : i <= FrameLen(w[n]) => p[i] = <<n, i>>
         /\ Len(p) = FrameLen(w[n]) => q = FramesFrom(w, n + 1)
<1>1. Len(w) \in Nat /\ Len(p) \in Nat \ {0} /\ Len(q) \in Nat
  OBVIOUS
<1>2. n \in 1 .. Len(w)
  <2> SUFFICES ASSUME n = Len(w) + 1 PROVE FALSE
    BY <1>1
  <2>1. p \o q = <<>>
    BY FramesUnroll
  <2>2. Len(p \o q) = Len(p) + Len(q)
    BY ConcatProperties
  <2>3. Len(<<>>) = 0
    OBVIOUS
  <2> QED BY <1>1, <2>1, <2>2, <2>3
<1> DEFINE b == BytesOf(n, w[n])
           t == FramesFrom(w, n + 1)
           l == FrameLen(w[n])
<1>3. w[n] \in Frame /\ n + 1 \in 1 .. Len(w) + 1 /\ n \in Nat
  BY <1>1, <1>2
<1>4. /\ b \in Seq(AnyByte) /\ Len(b) = l /\ t \in Seq(AnyByte)
      /\ \A i \in 1 .. l : b[i] = <<n, i>>
      /\ l \in Nat
  BY <1>3, BytesFacts, FramesTyped, FrameLens
<1>5. p \o q = b \o t
  BY <1>2, FramesUnroll
<1> HIDE DEF b, t, l
<1>6. CASE Len(p) <= l
  <2>1. /\ \A i \in 1 .. Len(p) : p[i] = b[i]
        /\ Len(p) = l => q = t
    <3>1. Len(p) <= Len(b)
      BY <1>4, <1>6
    <3>2. /\ p \in Seq(AnyByte) /\ q \in Seq(AnyByte) /\ b \in Seq(AnyByte) /\ t \in Seq(AnyByte)
          /\ p \o q = b \o t /\ Len(p) <= Len(b)
      BY <1>4, <1>5, <3>1
    <3>3. Len(p) = Len(b) => q = t
      BY ONLY <3>2, SamePrefix
    <3>4. ASSUME NEW i \in 1 .. Len(p) PROVE p[i] = b[i]
      <4>1. /\ i \in 1 .. Len(p) + Len(q) /\ i <= Len(p)
            /\ i \in 1 .. Len(b) + Len(t) /\ i <= Len(b)
        BY <1>1, <1>4, <3>1
      <4>2. (p \o q)[i] = p[i] /\ (b \o t)[i] = b[i]
        BY <1>4, <4>1, ConcatProperties
      <4> QED BY <1>5, <4>2
    <3> QED BY <1>4, <3>3, <3>4
  <2>2. ASSUME NEW i \in 1 .. Len(p) PROVE p[i] = <<n, i>>
    <3>1. i \in 1 .. l
      BY <1>1, <1>4, <1>6
    <3> QED BY <1>4, <2>1, <3>1
  <2> QED BY <1>2, <1>3, <2>1, <2>2 DEF l, t
<1>7. CASE ~(Len(p) <= l)
  <2>1. Len(b) <= Len(p) /\ b \o t = p \o q
    BY <1>1, <1>4, <1>5, <1>7
  <2>2. \A i \in 1 .. Len(b) : b[i] = p[i]
    BY <1>4, <2>1, SamePrefix
  <2>3. ASSUME NEW i \in 1 .. Len(p), i <= l PROVE p[i] = <<n, i>>
    <3>1. i \in 1 .. Len(b) /\ i \in 1 .. l
      BY <1>1, <1>4, <2>3
    <3> QED BY <1>4, <2>2, <3>1
  <2>4. Len(p) # l
    BY <1>1, <1>4, <1>7
  <2> QED BY <1>2, <1>3, <2>3, <2>4 DEF l
<1> QED BY <1>6, <1>7

LEMMA ByteTypes ==
  ASSUME ReaderInv
  PROVE  /\ Byte \subseteq AnyByte /\ wire \in Seq(Frame) /\ Len(wire) \in Nat
         /\ \A s \in Seq(Byte) : s \in Seq(AnyByte)
         /\ reader.inbound \in Seq(AnyByte) /\ unread \in Seq(AnyByte) /\ inflight \in Seq(AnyByte)
<1>1. Byte \subseteq AnyByte /\ wire \in Seq(Frame) /\ Len(wire) \in Nat
  BY DEF ReaderInv, TypeOK, Byte, AnyByte
<1>2. \A s \in Seq(Byte) : s \in Seq(AnyByte)
  BY <1>1, SeqMonotonic
<1>3. reader.inbound \in Seq(Byte) /\ unread \in Seq(Byte) /\ inflight \in Seq(Byte)
  BY DEF ReaderInv, TypeOK
<1> QED BY <1>1, <1>2, <1>3

(* Where the stream is in order, a call reads the header of frame n, and a *)
(* frame that is complete is frame n; what it leaves starts with the next. *)
LEMMA StreamInput ==
  ASSUME ReaderInv, CanRead, NEW n \in 1 .. Len(wire) + 1,
         reader.inbound \o unread \o inflight = FramesFrom(wire, n)
  PROVE  /\ Headed.r.state # "MISREAD"
         /\ InBody => n \in 1 .. Len(wire) /\ Serial(Bodied) = n /\ FrameIn(Bodied) = wire[n]
         /\ Complete /\ FrameIn(Bodied).good =>
              Rest(Headed.r, Headed.rest) \o inflight = FramesFrom(wire, n + 1)
<1>1. /\ Headed.r \in Readers /\ Headed.rest \in Seq(Byte) /\ ReaderShape(Headed.r)
      /\ Headed.r.inbound \o Headed.rest = reader.inbound \o unread
      /\ Headed.r.state = "MISREAD" => ~Aligned(Headed.r)
  BY HeadedFacts
<1>2. wire \in Seq(Frame) /\ inflight \in Seq(AnyByte) /\ \A s \in Seq(Byte) : s \in Seq(AnyByte)
  BY ByteTypes
<1>3. ASSUME NEW p \in Seq(Byte), NEW q \in Seq(Byte), p \o q = reader.inbound \o unread,
             HEADER_SIZE <= Len(p)
      PROVE  /\ n \in 1 .. Len(wire) /\ wire[n] \in Frame
             /\ \A i \in 1 .. HEADER_SIZE : p[i] = <<n, i>>
             /\ Len(p) = FrameLen(wire[n]) => q \o inflight = FramesFrom(wire, n + 1)
  <2>1. p \in Seq(AnyByte) /\ q \in Seq(AnyByte) /\ Len(p) \in Nat
    BY <1>2
  <2>2. (p \o q) \o inflight = p \o (q \o inflight) /\ q \o inflight \in Seq(AnyByte)
    BY <1>2, <2>1, ConcatAssociative, ConcatProperties
  <2>3. p \o (q \o inflight) = FramesFrom(wire, n)
    BY <1>3, <2>2
  <2>4. p # <<>>
    BY <1>3, FrameLens
  <2>5. /\ n \in 1 .. Len(wire) /\ wire[n] \in Frame
        /\ \A i \in 1 .. Len(p) : i <= FrameLen(wire[n]) => p[i] = <<n, i>>
        /\ Len(p) = FrameLen(wire[n]) => q \o inflight = FramesFrom(wire, n + 1)
    BY <1>2, <2>1, <2>2, <2>3, <2>4, StreamHead
  <2>6. ASSUME NEW i \in 1 .. HEADER_SIZE PROVE p[i] = <<n, i>>
    <3>1. HEADER_SIZE \in Nat /\ FrameLen(wire[n]) \in Nat /\ FrameLen(wire[n]) > HEADER_SIZE
      BY <2>5, FrameLens
    <3>2. i \in 1 .. Len(p) /\ i <= FrameLen(wire[n])
      BY <1>3, <2>1, <3>1
    <3> QED BY <2>5, <3>2
  <2> QED BY <2>5, <2>6
<1>4. Headed.r.state # "MISREAD"
  <2> SUFFICES ASSUME Headed.r.state = "MISREAD" PROVE Aligned(Headed.r)
    BY <1>1
  <2> DEFINE r == Headed.r
  <2>1. r.inbound \in Seq(Byte) /\ HEADER_SIZE <= Len(r.inbound)
    BY <1>1, FrameLens DEF Readers, ReaderShape
  <2>2. \A i \in 1 .. HEADER_SIZE : r.inbound[i] = <<n, i>>
    BY <1>1, <1>3, <2>1
  <2> HIDE DEF r
  <2>3. 1 \in 1 .. HEADER_SIZE
    BY FrameLens
  <2>4. r.inbound[1][1] = n
    BY <2>2, <2>3
  <2> QED BY <2>2, <2>4 DEF Aligned, r
<1>5. ASSUME InBody
      PROVE  /\ n \in 1 .. Len(wire) /\ Serial(Bodied) = n /\ FrameIn(Bodied) = wire[n]
             /\ Full(Bodied) /\ FrameIn(Bodied).good =>
                  Rest(Headed.r, Headed.rest) \o inflight = FramesFrom(wire, n + 1)
  <2> DEFINE p == Bodied.inbound
             q == Rest(Headed.r, Headed.rest)
  <2>1. /\ p \in Seq(Byte) /\ q \in Seq(Byte) /\ p \o q = reader.inbound \o unread
        /\ FrameIn(Bodied).good => Bodied.target = FrameLen(FrameIn(Bodied))
        /\ Len(p) \in Nat
    <3>1. Bodied \in Readers
      BY <1>5, BodiedFacts
    <3>2. p \in Seq(Byte)
      BY <3>1 DEF Readers
    <3>3. /\ Rest(Headed.r, Headed.rest) \in Seq(Byte)
          /\ Bodied.inbound \o Rest(Headed.r, Headed.rest) = reader.inbound \o unread
          /\ Bodied.target = TargetSize(FrameIn(Bodied)) /\ FrameIn(Bodied) \in Frame
      BY <1>5, BodiedFacts
    <3>4. Len(p) \in Nat
      BY <3>2
    <3> HIDE DEF p, q
    <3>5. p = Bodied.inbound /\ q = Rest(Headed.r, Headed.rest)
      BY DEF p, q
    <3>6. FrameIn(Bodied).good => Bodied.target = FrameLen(FrameIn(Bodied))
      BY <3>3, TargetSizes
    <3> QED BY <3>2, <3>3, <3>4, <3>5, <3>6
  <2>2. HEADER_SIZE <= Len(p)
    <3>1. HEADER_SIZE <= Len(Headed.r.inbound)
      BY <1>1, <1>5 DEF InBody, ReaderShape
    <3>2. Len(Headed.r.inbound) <= Len(p)
      <4> QED BY <1>1, FilledFacts DEF Bodied
    <3>3. Len(Headed.r.inbound) \in Nat
      BY <1>1 DEF Readers
    <3> QED BY <2>1, <3>1, <3>2, <3>3, FrameLens
  <2> HIDE DEF p, q
  <2>3. /\ n \in 1 .. Len(wire)
        /\ \A i \in 1 .. HEADER_SIZE : p[i] = <<n, i>>
        /\ Len(p) = FrameLen(wire[n]) => q \o inflight = FramesFrom(wire, n + 1)
    BY <1>3, <2>1, <2>2
  <2>4. p[1] = <<n, 1>>
    BY <2>3, FrameLens
  <2>5. Serial(Bodied) = n /\ FrameIn(Bodied) = wire[n]
    BY <2>4 DEF Serial, FrameIn, p
  <2>6. Full(Bodied) /\ FrameIn(Bodied).good => Len(p) = FrameLen(wire[n])
    BY <2>1, <2>5 DEF Full, p
  <2> QED BY <2>3, <2>5, <2>6 DEF q
<1> QED BY <1>4, <1>5 DEF Complete

-----------------------------------------------------------------------------
LEMMA LastReadFacts ==
  ASSUME ReaderInv
  PROVE  /\ LastRead \in 0 .. Len(wire) /\ Len(wire) \in Nat
         /\ (\A i, j \in DOMAIN decoded : i < j => decoded[i] < decoded[j]) =>
              \A i \in DOMAIN decoded : decoded[i] <= LastRead
<1>1. decoded \in Seq(1 .. Len(wire)) /\ Len(wire) \in Nat /\ Len(decoded) \in Nat
  BY DEF ReaderInv, TypeOK
<1>2. CASE decoded = <<>>
  BY <1>1, <1>2 DEF LastRead
<1>3. CASE decoded # <<>>
  <2>1. Len(decoded) \in DOMAIN decoded /\ LastRead = decoded[Len(decoded)]
    BY <1>1, <1>3 DEF LastRead
  <2>2. \A i \in DOMAIN decoded : i \in 1 .. Len(decoded) /\ decoded[i] \in 1 .. Len(wire)
    BY <1>1
  <2>3. \A i \in DOMAIN decoded : i = Len(decoded) \/ i < Len(decoded)
    BY <1>1, <2>2
  <2>4. LastRead \in 0 .. Len(wire)
    BY <1>1, <2>1, <2>2
  <2>5. ASSUME \A i, j \in DOMAIN decoded : i < j => decoded[i] < decoded[j], NEW i \in DOMAIN decoded
        PROVE  decoded[i] <= LastRead
    BY <1>1, <2>1, <2>2, <2>3, <2>5
  <2> QED BY <1>1, <2>4, <2>5
<1> QED BY <1>2, <1>3

(* A reader that is stuck, in a process that was not aborted, fails again  *)
(* the way it failed.                                                      *)
LEMMA StuckCalls ==
  ASSUME ReaderInv, Stuck, CanRead
  PROVE  /\ InBody /\ Headed.r = reader /\ Headed.rest = unread
         /\ ~BodyFits \/ (Full(Bodied) /\ ~FrameIn(Bodied).good)
<1>1. CanRead /\ result.what # "aborted"
  BY DEF CanRead, Running
<1>2. Headed.r = reader /\ Headed.rest = unread /\ InBody
  BY <1>1, HeadedFacts DEF Stuck, InBody
<1>3. CASE Len(Filled(reader, unread).inbound) > FrameMax
  <2>1. Len(Bodied.inbound) > FrameMax /\ Bodied \in Readers
    BY <1>1, <1>2, <1>3, BodiedFacts DEF Bodied
  <2>2. Len(Bodied.inbound) \in Nat
    BY <2>1 DEF Readers
  <2> QED BY <1>1, <1>2, <2>1, <2>2, FrameLens DEF BodyFits
<1>4. CASE Full(reader) /\ ~FrameIn(reader).good
  <2>1. /\ reader \in Readers /\ unread \in Seq(Byte) /\ Len(reader.inbound) <= reader.target
        /\ Len(reader.inbound) \in Nat /\ reader.target \in Nat
    BY <1>4 DEF ReaderInv, TypeOK, Full, Readers
  <2>2. Len(reader.inbound) <= Len(Bodied.inbound) /\ Len(Bodied.inbound) <= reader.target
    BY <1>2, <2>1, FilledFacts DEF Bodied
  <2>3. Bodied \in Readers /\ Bodied.target = reader.target /\ FrameIn(Bodied) = FrameIn(reader)
    BY <1>1, <1>2, BodiedFacts
  <2>4. Len(Bodied.inbound) \in Nat
    BY <2>3 DEF Readers
  <2>5. Len(Bodied.inbound) = Bodied.target
    BY <1>4, <2>1, <2>2, <2>3, <2>4 DEF Full
  <2> QED BY <1>1, <1>2, <1>4, <2>3, <2>5 DEF Full
<1> QED BY <1>1, <1>2, <1>3, <1>4 DEF Stuck

(* The more bytes are there the fuller the buffer gets.                    *)
LEMMA FilledGrows ==
  ASSUME NEW r \in Readers,
         NEW d \in Seq(Byte), NEW e \in Seq(Byte), Len(d) <= Len(e)
  PROVE  Len(Filled(r, d).inbound) <= Len(Filled(r, e).inbound)
<1>1. Len(r.inbound) \in Nat /\ r.target \in Nat /\ Len(d) \in Nat /\ Len(e) \in Nat
  BY DEF Readers
<1>2. /\ Len(Filled(r, d).inbound) = Len(r.inbound) + Missing(r, d)
      /\ Len(Filled(r, e).inbound) = Len(r.inbound) + Missing(r, e)
  BY FilledFacts
<1>3. Missing(r, d) <= Missing(r, e) /\ Missing(r, d) \in Nat /\ Missing(r, e) \in Nat
  BY <1>1 DEF Missing
<1> QED BY <1>1, <1>2, <1>3

LEMMA RejectedSteps ==
  ReaderInv /\ RejectedInv /\ [Next]_vars => RejectedInv'
<1> SUFFICES ASSUME ReaderInv, RejectedInv, [Next]_vars, ~starved'
             PROVE  /\ rejected' => Stuck'
                    /\ \A i \in DOMAIN decoded' : ~Unreadable(wire[decoded[i]])'
  BY DEF RejectedInv
<1>1. ~starved
  BY DEF Next, HandleInput, InputWithBuffer, InputNoBuffer, InputPartial, InputTooLarge, InputBad,
         InputAborts, InputNoMemory, InputIgnored, InputFrame, Returns, Fails, Recv, WaitFromQueue,
         MaybeReleaseBuffers, BrokerSends, vars
<1>2. /\ rejected => Stuck
      /\ \A i \in DOMAIN decoded : ~Unreadable(wire[decoded[i]])
  BY <1>1 DEF RejectedInv
<1>3. /\ wire \in Seq(Frame) /\ decoded \in Seq(1 .. Len(wire)) /\ reader \in Readers
      /\ unread \in Seq(Byte) /\ Len(wire) \in Nat /\ ReaderShape(reader)
  BY DEF ReaderInv, TypeOK, Readers
<1>4. ASSUME UNCHANGED <<wire, decoded>> PROVE \A i \in DOMAIN decoded' : ~Unreadable(wire[decoded[i]])'
  BY <1>2, <1>4 DEF Unreadable
<1>5. ASSUME UNCHANGED <<wire, unread, reader, rejected>>,
             result' = result \/ (result.what # "aborted" /\ result'.what # "aborted")
      PROVE  rejected' => Stuck'
  <2>1. Stuck' <=> Stuck
    BY <1>5 DEF Stuck, Full, FrameIn, Serial, Filled, Missing
  <2> QED BY <1>2, <1>5, <2>1
<1>6. CASE InputNoBuffer
  BY <1>4, <1>5, <1>6 DEF InputNoBuffer, Fails, socket, CanRead, Running
<1>7. CASE InputPartial
  <2>1. CanRead /\ (~InBody \/ (InBody /\ BodyFits /\ ~Full(Bodied)))
        /\ UNCHANGED <<wire, decoded, rejected>>
    BY <1>7, BodiedFacts, ShortNotFull DEF InputPartial, Returns, socket
  <2>2. ~rejected
    BY <1>2, <2>1, StuckCalls
  <2> QED BY <1>4, <2>1, <2>2
<1>8. CASE InputTooLarge
  <2>1. /\ CanRead /\ InBody /\ ~BodyFits /\ reader' = Headed.r
        /\ UNCHANGED <<wire, unread, decoded>>
    BY <1>8 DEF InputTooLarge, Fails, socket
  <2> DEFINE r == Headed.r
             d == Headed.rest
  <2>2. /\ r \in Readers /\ d \in Seq(Byte) /\ Len(d) <= Len(unread)
        /\ r.state \in {"BODY", "PROTOCOL"}
    BY <2>1, HeadedFacts DEF ReaderShape, InBody
  <2>3. Bodied = Filled(r, d) /\ Bodied \in Readers
    BY <2>1, BodiedFacts DEF Bodied
  <2> HIDE DEF r, d
  <2>4. Len(Filled(r, d).inbound) <= Len(Filled(r, unread).inbound)
    BY <1>3, <2>2, FilledGrows
  <2>5. Filled(r, unread) \in Readers
    BY <1>3, <2>2, FilledFacts
  <2>6. Len(Bodied.inbound) \in Nat /\ Len(Filled(r, unread).inbound) \in Nat
    BY <2>3, <2>5 DEF Readers
  <2>7. Len(Filled(r, unread).inbound) > FrameMax
    BY <2>1, <2>3, <2>4, <2>6, FrameLens DEF BodyFits
  <2>8. reader' = r /\ unread' = unread /\ unread # <<>>
    BY <2>1 DEF r, CanRead
  <2>9. Len(Filled(reader, unread).inbound)' > FrameMax
    BY <2>7, <2>8 DEF Filled, Missing
  <2>10. Stuck'
    BY <2>2, <2>8, <2>9 DEF Stuck
  <2> QED BY <1>4, <2>1, <2>10
<1>9. CASE InputBad
  <2>1. /\ CanRead /\ InBody /\ BodyFits /\ Full(Bodied) /\ ~FrameIn(Bodied).good /\ reader' = Bodied
        /\ UNCHANGED <<wire, unread, decoded>>
    BY <1>9 DEF InputBad, Fails, socket, Complete
  <2>2. Bodied.state \in {"BODY", "PROTOCOL"}
    BY <2>1, BodiedFacts DEF InBody
  <2>3. Full(reader)' /\ ~FrameIn(reader)'.good
    BY <2>1 DEF Full, FrameIn, Serial
  <2>4. Stuck'
    BY <2>1, <2>2, <2>3 DEF Stuck, CanRead
  <2> QED BY <1>4, <2>1, <2>4
<1>10. CASE InputNoMemory
  BY <1>10 DEF InputNoMemory
<1>11. CASE InputIgnored
  <2>1. CanRead /\ InBody /\ BodyFits /\ FrameIn(Bodied).good /\ UNCHANGED <<wire, decoded, rejected>>
    BY <1>11 DEF InputIgnored, Returns, socket, Complete
  <2>2. ~rejected
    BY <1>2, <2>1, StuckCalls
  <2> QED BY <1>4, <2>1, <2>2
<1>12. ASSUME NEW queueIt \in BOOLEAN, InputFrame(queueIt)
       PROVE  (rejected' => Stuck') /\ \A i \in DOMAIN decoded' : ~Unreadable(wire[decoded[i]])'
  <2>1. /\ CanRead /\ InBody /\ BodyFits /\ Full(Bodied) /\ FrameIn(Bodied).good
        /\ UNCHANGED <<wire, rejected>> /\ decoded' = Append(decoded, Serial(Bodied))
    BY <1>12 DEF InputFrame, Returns, socket, Complete
  <2>2. ~rejected
    BY <1>2, <2>1, StuckCalls
  <2>3. /\ Serial(Bodied) \in 1 .. Len(wire) /\ Bodied.target = FrameLen(FrameIn(Bodied))
        /\ FrameIn(Bodied) \in Frame
    <3>1. /\ Serial(Bodied) \in 1 .. Len(wire) /\ FrameIn(Bodied) \in Frame
          /\ Bodied.target = TargetSize(FrameIn(Bodied))
      BY <2>1, BodiedFacts
    <3> QED BY <2>1, <3>1, TargetSizes
  <2>4. ~Unreadable(wire[Serial(Bodied)])
    <3>1. FrameLen(FrameIn(Bodied)) <= FrameMax /\ FrameLen(FrameIn(Bodied)) \in Nat
      BY <2>1, <2>3, FrameLens DEF Full, BodyFits
    <3> QED BY <2>1, <3>1, FrameLens DEF Unreadable, FrameIn
  <2>5. \A i \in DOMAIN decoded' : \/ i \in DOMAIN decoded /\ decoded'[i] = decoded[i]
                                   \/ decoded'[i] = Serial(Bodied)
    BY <1>3, <2>1, <2>3, AppendFacts
  <2> QED BY <1>2, <2>1, <2>2, <2>4, <2>5 DEF Unreadable
<1>13. CASE Recv
  <2>1. unread = <<>> /\ UNCHANGED <<wire, decoded, rejected>>
    BY <1>13 DEF Recv
  <2>2. ~rejected
    BY <1>2, <2>1 DEF Stuck
  <2> QED BY <1>4, <2>1, <2>2
<1>14. CASE WaitFromQueue \/ MaybeReleaseBuffers \/ UNCHANGED vars
  BY <1>4, <1>5, <1>14 DEF WaitFromQueue, MaybeReleaseBuffers, vars, socket
<1>15. CASE BrokerSends
  <2>1. PICK f \in Frame : wire' = Append(wire, f)
    BY <1>15 DEF BrokerSends
  <2>2. UNCHANGED <<unread, reader, decoded, rejected, result>>
    BY <1>15 DEF BrokerSends
  <2>3. \A i \in 1 .. Len(wire) : wire'[i] = wire[i]
    BY <1>3, <2>1, AppendProperties
  <2>4. \A i \in DOMAIN decoded : decoded[i] \in 1 .. Len(wire)
    BY <1>3
  <2>5. ASSUME Stuck PROVE Stuck'
    <3>1. Serial(reader) \in 1 .. Len(wire)
      BY <2>5, HeaderSent DEF Stuck
    <3>2. FrameIn(reader)' = FrameIn(reader)
      BY <2>2, <2>3, <3>1 DEF FrameIn, Serial
    <3> QED BY <2>2, <2>5, <3>2 DEF Stuck, Full, Filled, Missing
  <2> QED BY <1>2, <2>2, <2>3, <2>4, <2>5 DEF Unreadable
<1>16. CASE InputAborts
  <2>1. /\ CanRead /\ InBody /\ reader' = Bodied /\ result'.what = "aborted"
        /\ UNCHANGED <<wire, unread, decoded>>
    BY <1>16 DEF InputAborts, Fails, socket
  <2>2. Bodied.state \in {"BODY", "PROTOCOL"}
    BY <2>1, BodiedFacts DEF InBody
  <2>3. Stuck'
    BY <2>1, <2>2 DEF Stuck, CanRead
  <2> QED BY <1>4, <2>1, <2>3
<1> QED BY <1>6, <1>7, <1>8, <1>9, <1>10, <1>11, <1>12, <1>13, <1>14, <1>15, <1>16
        DEF Next, HandleInput, InputWithBuffer

(* Unless a decoder ran out of memory, an error means that the frame at    *)
(* hand is malformed or larger than frame_max, and no such frame is ever   *)
(* returned: amqp_handle_input rejects for cause, however the bytes come   *)
(* in pieces, and goes on rejecting (amqp_connection.c:171, 207, 223).     *)
THEOREM RejectsOnlyForCause == Spec => []RejectedForCause
<1>1. Init => RejectedInv
  BY DEF Init, RejectedInv
<1>2. ReaderInv /\ RejectedInv => RejectedForCause
  <2> SUFFICES ASSUME ReaderInv, RejectedInv, ~starved, rejected
               PROVE  Unreadable(wire[Serial(reader)])
    BY DEF RejectedInv, RejectedForCause
  <2>1. Stuck
    BY DEF RejectedInv
  <2>2. CASE ~FrameIn(reader).good
    BY <2>2 DEF Unreadable, FrameIn
  <2>3. FrameIn(reader) \in Frame /\ (Wraps(FrameIn(reader)) => Unreadable(FrameIn(reader)))
    BY <2>1, HeaderSent, TargetSizes DEF Stuck, Unreadable
  <2>4. CASE Wraps(FrameIn(reader))
    BY <2>3, <2>4 DEF FrameIn
  <2>5. CASE result.what = "aborted"
    <3>1. AbortCaused(FrameIn(reader))
      BY <2>5 DEF ReaderInv
    <3> QED BY <2>2, <2>4, <3>1 DEF AbortCaused
  <2>6. CASE ~Wraps(FrameIn(reader)) /\ Len(Filled(reader, unread).inbound) > FrameMax
    <3>1. /\ reader \in Readers /\ unread \in Seq(Byte) /\ Len(reader.inbound) <= reader.target
          /\ reader.target = FrameLen(FrameIn(reader)) /\ reader.target \in Nat
      BY <2>1, <2>3, <2>6, TargetSizes DEF ReaderInv, TypeOK, Stuck, ReaderShape, Readers
    <3>2. Len(Filled(reader, unread).inbound) <= reader.target /\ Filled(reader, unread) \in Readers
      BY <3>1, FilledFacts
    <3>3. Len(Filled(reader, unread).inbound) \in Nat
      BY <3>2 DEF Readers
    <3> QED BY <2>6, <3>1, <3>2, <3>3, FrameLens DEF Unreadable, FrameIn
  <2> QED BY <2>1, <2>2, <2>4, <2>5, <2>6 DEF Stuck
<1> QED BY <1>1, <1>2, ReaderInit, ReaderSteps, RejectedSteps, PTL DEF Spec

-----------------------------------------------------------------------------
(* The stream.                                                             *)
OrderInv == ReaderInv /\ RejectedInv /\ StreamInv /\ DecodedInOrder

LEMMA StreamSteps ==
  OrderInv /\ [Next]_vars => StreamInv'
<1> SUFFICES ASSUME ReaderInv, RejectedInv, StreamInv, [Next]_vars, ~rejected', ~starved'
             PROVE  /\ (\E n \in LastRead + 1 .. Len(wire) + 1 : TailHeld(n))'
                    /\ reader'.state # "MISREAD"
  BY DEF OrderInv, StreamInv
<1>1. ~rejected /\ ~starved
  BY DEF Next, HandleInput, InputWithBuffer, InputNoBuffer, InputPartial, InputTooLarge, InputBad,
         InputAborts, InputNoMemory, InputIgnored, InputFrame, Returns, Fails, Recv, WaitFromQueue,
         MaybeReleaseBuffers, BrokerSends, vars
<1>2. PICK n \in LastRead + 1 .. Len(wire) + 1 : TailHeld(n)
  BY <1>1 DEF StreamInv
<1>3. reader.state # "MISREAD"
  BY <1>1 DEF StreamInv
<1>4. /\ LastRead \in 0 .. Len(wire) /\ Len(wire) \in Nat /\ n \in 1 .. Len(wire) + 1
      /\ n - 1 \in 0 .. Len(wire)
  BY LastReadFacts
<1>5. /\ reader.inbound \o unread \o inflight = FramesFrom(wire, n)
      /\ \A k \in LastRead + 1 .. n - 1 : wire[k].kind = "unknown"
  BY <1>2, StreamIs DEF TailHeld
<1>6. /\ wire \in Seq(Frame) /\ reader.inbound \in Seq(AnyByte) /\ unread \in Seq(AnyByte)
      /\ inflight \in Seq(AnyByte) /\ \A s \in Seq(Byte) : s \in Seq(AnyByte)
  BY ByteTypes
<1>7. ASSUME UNCHANGED <<wire, decoded>>, reader'.inbound \o unread' \o inflight' = FramesFrom(wire, n)
      PROVE  (\E k \in LastRead + 1 .. Len(wire) + 1 : TailHeld(k))'
  <2>1. LastRead' = LastRead /\ Len(wire)' = Len(wire)
    BY <1>7 DEF LastRead
  <2>2. TailHeld(n)'
    <3>1. StreamOfFrom(n)' = FramesFrom(wire, n)
      BY <1>7, StreamIs
    <3> QED BY <1>5, <1>7, <2>1, <3>1 DEF TailHeld
  <2> QED BY <2>1, <2>2
<1>8. ASSUME UNCHANGED <<wire, decoded, reader, unread, inflight>>
      PROVE  /\ (\E k \in LastRead + 1 .. Len(wire) + 1 : TailHeld(k))'
             /\ reader'.state # "MISREAD"
  BY <1>3, <1>5, <1>7, <1>8
<1>9. CASE InputNoBuffer
  BY <1>8, <1>9 DEF InputNoBuffer, Fails, socket
<1>10. CASE InputPartial
  <2>1. CanRead /\ UNCHANGED <<wire, decoded, inflight>> /\ unread' = <<>>
    BY <1>10 DEF InputPartial, Returns, socket
  <2>2. ASSUME NEW r \in Readers, reader' = r, NEW rest, rest = <<>>,
               r.inbound \o rest = reader.inbound \o unread
        PROVE  (\E k \in LastRead + 1 .. Len(wire) + 1 : TailHeld(k))'
    BY <1>5, <1>7, <2>1, <2>2
  <2>3. CASE ~InBody /\ reader' = Headed.r
    <3>1. /\ Headed.r \in Readers /\ Headed.r.inbound \o Headed.rest = reader.inbound \o unread
          /\ Headed.r.state # "IDLE" /\ Headed.r.state # "MISREAD"
          /\ Headed.r.state = "HEADER" => Headed.rest = <<>>
      BY <1>4, <1>5, <2>1, HeadedFacts, StreamInput
    <3>2. Headed.rest = <<>>
      BY <2>3, <3>1 DEF InBody, Readers
    <3> QED BY <2>2, <2>3, <3>1, <3>2
  <2>4. CASE InBody /\ BodyFits /\ Short(Bodied) /\ reader' = Bodied
    <3>1. /\ Bodied \in Readers /\ Rest(Headed.r, Headed.rest) = <<>>
          /\ Bodied.inbound \o Rest(Headed.r, Headed.rest) = reader.inbound \o unread
          /\ Bodied.state \in {"BODY", "PROTOCOL"}
      BY <2>1, <2>4, BodiedFacts, ShortNotFull DEF InBody
    <3> QED BY <2>2, <2>4, <3>1
  <2> QED BY <1>10, <2>3, <2>4 DEF InputPartial
<1>11. CASE InputTooLarge \/ InputBad \/ InputAborts \/ InputNoMemory
  BY <1>11 DEF InputTooLarge, InputBad, InputAborts, InputNoMemory
<1>12. CASE InputIgnored
  <2> DEFINE rest == Rest(Headed.r, Headed.rest)
  <2>1. /\ CanRead /\ InBody /\ Complete /\ FrameIn(Bodied).good
        /\ FrameIn(Bodied).kind = "unknown" /\ reader' = Idle
        /\ UNCHANGED <<wire, decoded, inflight>> /\ unread' = rest
    BY <1>12 DEF InputIgnored, Returns, socket, Complete
  <2>2. /\ n \in 1 .. Len(wire) /\ FrameIn(Bodied) = wire[n]
        /\ rest \o inflight = FramesFrom(wire, n + 1)
    BY <1>4, <1>5, <2>1, StreamInput
  <2>3. rest \in Seq(AnyByte)
    BY <1>6, <2>1, BodiedFacts
  <2> HIDE DEF rest
  <2>4. <<>> \o rest = rest
    BY <2>3, ConcatEmptySeq
  <2>5. reader'.inbound \o unread' \o inflight' = FramesFrom(wire, n + 1)
    BY <2>1, <2>2, <2>4 DEF Idle
  <2>6. LastRead' = LastRead /\ Len(wire)' = Len(wire)
    BY <2>1 DEF LastRead
  <2>7. \A k \in LastRead + 1 .. n + 1 - 1 : wire[k].kind = "unknown"
    <3>1. \A k \in LastRead + 1 .. n + 1 - 1 : k = n \/ k \in LastRead + 1 .. n - 1
      BY <1>4
    <3> QED BY <1>5, <2>1, <2>2, <3>1
  <2>8. StreamOfFrom(n + 1)' = FramesFrom(wire, n + 1)
    BY <2>1, StreamIs
  <2>9. TailHeld(n + 1)'
    BY <2>1, <2>5, <2>6, <2>7, <2>8 DEF TailHeld
  <2>10. n + 1 \in LastRead' + 1 .. Len(wire)' + 1
    BY <1>4, <2>2, <2>6
  <2> QED BY <2>1, <2>9, <2>10 DEF Idle
<1>13. ASSUME NEW queueIt \in BOOLEAN, InputFrame(queueIt)
       PROVE  /\ (\E k \in LastRead + 1 .. Len(wire) + 1 : TailHeld(k))'
              /\ reader'.state # "MISREAD"
  <2> DEFINE rest == Rest(Headed.r, Headed.rest)
  <2>1. /\ CanRead /\ InBody /\ Complete /\ FrameIn(Bodied).good /\ reader' = Idle
        /\ UNCHANGED <<wire, inflight>> /\ unread' = rest
        /\ decoded' = Append(decoded, Serial(Bodied))
    BY <1>13 DEF InputFrame, Returns, socket, Complete
  <2>2. /\ n \in 1 .. Len(wire) /\ Serial(Bodied) = n
        /\ rest \o inflight = FramesFrom(wire, n + 1)
    BY <1>4, <1>5, <2>1, StreamInput
  <2>3. rest \in Seq(AnyByte)
    BY <1>6, <2>1, BodiedFacts
  <2> HIDE DEF rest
  <2>4. <<>> \o rest = rest
    BY <2>3, ConcatEmptySeq
  <2>5. reader'.inbound \o unread' \o inflight' = FramesFrom(wire, n + 1)
    BY <2>1, <2>2, <2>4 DEF Idle
  <2>6. LastRead' = n /\ Len(wire)' = Len(wire)
    <3>1. decoded \in Seq(1 .. Len(wire)) /\ decoded' = Append(decoded, n)
      BY <2>1, <2>2 DEF ReaderInv, TypeOK
    <3>2. decoded' # <<>> /\ decoded'[Len(decoded')] = n
      BY <2>2, <3>1, AppendProperties
    <3> QED BY <2>1, <3>2 DEF LastRead
  <2>7. \A k \in n + 1 .. n + 1 - 1 : wire[k].kind = "unknown"
    <3>1. n + 1 .. n + 1 - 1 = {}
      BY <1>4
    <3> QED BY <3>1
  <2>8. StreamOfFrom(n + 1)' = FramesFrom(wire, n + 1)
    BY <2>1, StreamIs
  <2>9. TailHeld(n + 1)'
    BY <2>1, <2>5, <2>6, <2>7, <2>8 DEF TailHeld
  <2>10. n + 1 \in LastRead' + 1 .. Len(wire)' + 1
    BY <1>4, <2>2, <2>6
  <2> QED BY <2>1, <2>9, <2>10 DEF Idle
<1>14. CASE Recv
  <2>1. PICK k \in 1 .. SockBuffer : /\ k <= Len(inflight)
                                     /\ unread' = SubSeq(inflight, 1, k)
                                     /\ inflight' = SubSeq(inflight, k + 1, Len(inflight))
    BY <1>14 DEF Recv
  <2>2. unread = <<>> /\ UNCHANGED <<wire, reader, decoded>>
    BY <1>14 DEF Recv
  <2>3. k \in 0 .. Len(inflight)
    BY <1>6, <2>1
  <2>4. unread' \in Seq(AnyByte) /\ inflight' \in Seq(AnyByte) /\ unread' \o inflight' = inflight
    BY <1>6, <2>1, <2>3, CutFacts
  <2> DEFINE held == reader.inbound
             got == unread'
             left == inflight'
  <2>5. held \in Seq(AnyByte) /\ got \in Seq(AnyByte) /\ left \in Seq(AnyByte) /\ got \o left = inflight
    BY <1>6, <2>4
  <2>6. (held \o <<>>) \o inflight = FramesFrom(wire, n)
    BY <1>5, <2>2
  <2> HIDE DEF held, got, left
  <2>7. (held \o got) \o left = held \o (got \o left) /\ held \o <<>> = held
    <3>0. held \in Seq(AnyByte) /\ got \in Seq(AnyByte) /\ left \in Seq(AnyByte)
      BY <2>5
    <3>1. (held \o got) \o left = held \o (got \o left)
      BY <3>0, ConcatAssociative
    <3>2. held \o <<>> = held
      BY <2>5, ConcatEmptySeq
    <3> QED BY <3>1, <3>2
  <2>8. (held \o got) \o left = FramesFrom(wire, n)
    BY <2>5, <2>6, <2>7
  <2>9. reader'.inbound \o unread' \o inflight' = FramesFrom(wire, n)
    BY <2>2, <2>8 DEF held, got, left
  <2> QED BY <1>3, <1>7, <2>2, <2>9
<1>15. CASE WaitFromQueue \/ MaybeReleaseBuffers \/ UNCHANGED vars
  BY <1>8, <1>15 DEF WaitFromQueue, MaybeReleaseBuffers, vars, socket
<1>16. CASE BrokerSends
  <2>1. PICK f \in Frame : /\ wire' = Append(wire, f)
                           /\ inflight' = inflight \o BytesOf(Len(wire) + 1, f)
    BY <1>16 DEF BrokerSends
  <2>2. UNCHANGED <<unread, reader, decoded>>
    BY <1>16 DEF BrokerSends
  <2>3. /\ Len(wire') = Len(wire) + 1 /\ \A i \in 1 .. Len(wire) : wire'[i] = wire[i]
    BY <1>6, <2>1, AppendProperties
  <2> DEFINE b == BytesOf(Len(wire) + 1, f)
             s == reader.inbound \o unread
             t == inflight
  <2>4. b \in Seq(AnyByte) /\ s \in Seq(AnyByte) /\ t \in Seq(AnyByte)
    <3>1. Len(wire) + 1 \in Nat
      BY <1>4
    <3>2. b \in Seq(AnyByte)
      BY <3>1, BytesFacts
    <3>3. s \in Seq(AnyByte)
      BY <1>6, ConcatProperties
    <3> QED BY <1>6, <3>2, <3>3
  <2>5. FramesFrom(wire', n) = FramesFrom(wire, n) \o b
    BY <1>4, <1>6, <2>1, FramesAppend
  <2>6. s \o t = FramesFrom(wire, n) /\ inflight' = t \o b
    BY <1>5, <2>1
  <2> HIDE DEF b, s, t
  <2>7. s \o (t \o b) = (s \o t) \o b
    BY <2>4, ConcatAssociative
  <2>8. s \o inflight' = FramesFrom(wire', n)
    BY <2>5, <2>6, <2>7
  <2>9. reader'.inbound \o unread' \o inflight' = FramesFrom(wire', n)
    BY <2>2, <2>8 DEF s
  <2>10. LastRead' = LastRead
    BY <2>2 DEF LastRead
  <2>11. \A k \in LastRead + 1 .. n - 1 : wire'[k].kind = "unknown"
    <3>1. \A k \in LastRead + 1 .. n - 1 : k \in 1 .. Len(wire)
      BY <1>4
    <3> QED BY <1>5, <2>3, <3>1
  <2>12. StreamOfFrom(n)' = FramesFrom(wire', n)
    BY StreamIs
  <2>13. TailHeld(n)'
    BY <2>9, <2>10, <2>11, <2>12 DEF TailHeld
  <2>14. n \in LastRead' + 1 .. Len(wire') + 1
    BY <1>4, <2>3, <2>10
  <2> QED BY <1>3, <2>2, <2>13, <2>14
<1> QED BY <1>9, <1>10, <1>11, <1>12, <1>13, <1>14, <1>15, <1>16 DEF Next, HandleInput, InputWithBuffer

(* Only a frame that is returned adds to the order.                        *)
LEMMA OrderSteps ==
  OrderInv /\ [Next]_vars => DecodedInOrder'
<1> SUFFICES ASSUME ReaderInv, RejectedInv, StreamInv, DecodedInOrder, [Next]_vars, ~starved'
             PROVE  /\ \A i, j \in DOMAIN decoded' : i < j => decoded'[i] < decoded'[j]
                    /\ {decoded'[i] : i \in DOMAIN decoded'} = Visible(LastRead)'
  BY DEF OrderInv, DecodedInOrder
<1>1. ~starved
  BY DEF Next, HandleInput, InputWithBuffer, InputNoBuffer, InputPartial, InputTooLarge, InputBad,
         InputAborts, InputNoMemory, InputIgnored, InputFrame, Returns, Fails, Recv, WaitFromQueue,
         MaybeReleaseBuffers, BrokerSends, vars
<1>2. /\ \A i, j \in DOMAIN decoded : i < j => decoded[i] < decoded[j]
      /\ {decoded[i] : i \in DOMAIN decoded} = Visible(LastRead)
  BY <1>1 DEF DecodedInOrder
<1>3. /\ LastRead \in 0 .. Len(wire) /\ Len(wire) \in Nat /\ wire \in Seq(Frame)
      /\ \A i \in DOMAIN decoded : decoded[i] <= LastRead
      /\ decoded \in Seq(1 .. Len(wire))
  BY <1>2, LastReadFacts DEF ReaderInv, TypeOK
<1>4. ASSUME UNCHANGED decoded, \A k \in 1 .. Len(wire) : wire'[k] = wire[k]
      PROVE  /\ \A i, j \in DOMAIN decoded' : i < j => decoded'[i] < decoded'[j]
             /\ {decoded'[i] : i \in DOMAIN decoded'} = Visible(LastRead)'
  <2>1. LastRead' = LastRead
    BY <1>4 DEF LastRead
  <2>2. \A k \in 1 .. LastRead : wire'[k] = wire[k]
    BY <1>3, <1>4
  <2>3. Visible(LastRead)' = Visible(LastRead)
    BY <2>1, <2>2 DEF Visible
  <2> QED BY <1>2, <1>4, <2>3
<1>5. CASE UNCHANGED <<wire, decoded>>
  BY <1>4, <1>5
<1>6. CASE BrokerSends
  <2>1. PICK f \in Frame : wire' = Append(wire, f)
    BY <1>6 DEF BrokerSends
  <2>2. UNCHANGED decoded /\ \A k \in 1 .. Len(wire) : wire'[k] = wire[k]
    BY <1>3, <1>6, <2>1, AppendProperties DEF BrokerSends
  <2> QED BY <1>4, <2>2
<1>7. ASSUME NEW queueIt \in BOOLEAN, InputFrame(queueIt)
      PROVE  /\ \A i, j \in DOMAIN decoded' : i < j => decoded'[i] < decoded'[j]
             /\ {decoded'[i] : i \in DOMAIN decoded'} = Visible(LastRead)'
  <2>1. /\ CanRead /\ InBody /\ BodyFits /\ FrameIn(Bodied).good /\ FrameIn(Bodied).kind # "unknown"
        /\ UNCHANGED wire /\ decoded' = Append(decoded, Serial(Bodied))
    BY <1>7 DEF InputFrame, Returns, socket, Complete
  <2>2. ~rejected
    BY <1>1, <2>1, StuckCalls DEF RejectedInv
  <2>3. PICK n \in LastRead + 1 .. Len(wire) + 1 : TailHeld(n)
    BY <1>1, <2>2 DEF StreamInv
  <2>4. /\ n \in 1 .. Len(wire) + 1 /\ n \in Nat /\ LastRead < n
        /\ reader.inbound \o unread \o inflight = FramesFrom(wire, n)
        /\ \A k \in LastRead + 1 .. n - 1 : wire[k].kind = "unknown"
    BY <1>3, <2>3, StreamIs DEF TailHeld
  <2>5. n \in 1 .. Len(wire) /\ Serial(Bodied) = n /\ wire[n].kind # "unknown"
    BY <2>1, <2>4, StreamInput
  <2>6. /\ Len(decoded) \in Nat /\ DOMAIN decoded = 1 .. Len(decoded)
        /\ DOMAIN decoded' = 1 .. Len(decoded) + 1
        /\ decoded'[Len(decoded) + 1] = n
        /\ \A i \in 1 .. Len(decoded) : decoded'[i] = decoded[i]
        /\ LastRead' = n
    <3>1. decoded' \in Seq(1 .. Len(wire)) /\ Len(decoded') = Len(decoded) + 1
          /\ decoded' # <<>> /\ decoded'[Len(decoded) + 1] = n
          /\ \A i \in 1 .. Len(decoded) : decoded'[i] = decoded[i]
      BY <1>3, <2>1, <2>5, AppendProperties
    <3>2. DOMAIN decoded' = 1 .. Len(decoded')
      BY <3>1, LenProperties
    <3> QED BY <1>3, <3>1, <3>2, LenProperties DEF LastRead
  <2>7. ASSUME NEW i \in DOMAIN decoded', NEW j \in DOMAIN decoded', i < j
        PROVE  decoded'[i] < decoded'[j]
    <3>1. i \in 1 .. Len(decoded) /\ decoded[i] \in Nat /\ decoded[i] < n
      <4>1. i \in 1 .. Len(decoded)
        BY <2>6, <2>7
      <4>2. decoded[i] \in 1 .. Len(wire) /\ decoded[i] <= LastRead
        BY <1>3, <2>6, <4>1
      <4> QED BY <1>3, <2>4, <4>1, <4>2
    <3>2. CASE j = Len(decoded) + 1
      BY <2>6, <3>1, <3>2
    <3>3. CASE j # Len(decoded) + 1
      <4>1. j \in 1 .. Len(decoded)
        BY <2>6, <3>3
      <4> QED BY <1>2, <2>6, <2>7, <3>1, <4>1
    <3> QED BY <3>2, <3>3
  <2>8. {decoded'[i] : i \in DOMAIN decoded'} = {decoded[i] : i \in DOMAIN decoded} \union {n}
    <3>1. \A i \in DOMAIN decoded' : i \in DOMAIN decoded \/ i = Len(decoded) + 1
      BY <2>6
    <3>2. Len(decoded) + 1 \in DOMAIN decoded' /\ \A i \in DOMAIN decoded : i \in DOMAIN decoded'
      BY <2>6
    <3> QED BY <2>6, <3>1, <3>2
  <2>9. Visible(n) = Visible(LastRead) \union {n}
    <3>1. \A k \in 1 .. n : k \in 1 .. LastRead \/ k \in LastRead + 1 .. n - 1 \/ k = n
      BY <1>3, <2>4
    <3>2. \A k \in 1 .. LastRead : k \in 1 .. n
      BY <1>3, <2>4
    <3>3. n \in 1 .. n
      BY <2>5
    <3> QED BY <2>4, <2>5, <3>1, <3>2, <3>3 DEF Visible
  <2>10. Visible(LastRead)' = Visible(n)
    BY <2>1, <2>6 DEF Visible
  <2> QED BY <1>2, <2>7, <2>8, <2>9, <2>10
<1> QED BY <1>5, <1>6, <1>7
        DEF Next, HandleInput, InputWithBuffer, InputNoBuffer, InputPartial, InputTooLarge, InputBad,
            InputAborts, InputNoMemory, InputIgnored, Returns, Fails, Recv, WaitFromQueue,
            MaybeReleaseBuffers, vars, socket

LEMMA OrderInit == Init => OrderInv
<1> SUFFICES ASSUME Init PROVE OrderInv
  OBVIOUS
<1>1. wire = <<>> /\ decoded = <<>> /\ LastRead = 0 /\ DOMAIN decoded = {} /\ Len(wire) = 0
  BY DEF Init, LastRead
<1>2. RejectedInv
  BY <1>1 DEF Init, RejectedInv
<1>3. Visible(0) = {}
  BY DEF Visible
<1>4. DecodedInOrder
  BY <1>1, <1>3 DEF DecodedInOrder
<1>5. TailHeld(1)
  <2>1. <<>> \in Seq(Frame) /\ Len(<<>>) + 1 = 1
    OBVIOUS
  <2>2. FramesFrom(<<>>, 1) = <<>>
    BY <2>1, FramesUnroll
  <2>3. StreamOfFrom(1) = <<>>
    BY <1>1, <2>2, StreamIs
  <2>4. reader.inbound \o unread \o inflight = <<>>
    BY DEF Init, Idle
  <2>5. LastRead + 1 .. 1 - 1 = {}
    BY <1>1
  <2> QED BY <2>3, <2>4, <2>5 DEF TailHeld
<1>6. StreamInv
  <2>1. 1 \in LastRead + 1 .. Len(wire) + 1
    BY <1>1
  <2>2. reader.state = "IDLE"
    BY DEF Init, Idle
  <2> QED BY <1>5, <2>1, <2>2 DEF StreamInv
<1> QED BY <1>2, <1>4, <1>6, ReaderInit DEF OrderInv

LEMMA OrderInvariant == Spec => []OrderInv
<1>1. OrderInv /\ [Next]_vars => OrderInv'
  BY ReaderSteps, RejectedSteps, StreamSteps, OrderSteps DEF OrderInv
<1> QED BY <1>1, OrderInit, PTL DEF Spec

(* However TCP cuts the stream, amqp_handle_input returns the frames once  *)
(* each and in the order the broker sent them, and skips only those of an  *)
(* unknown type; unless a decoder ran out of memory (the retry that the    *)
(* comment at amqp_socket.c:151 does not reckon with).                     *)
THEOREM FramesComeInOrder == Spec => []DecodedInOrder
<1>1. OrderInv => DecodedInOrder
  BY DEF OrderInv
<1> QED BY <1>1, OrderInvariant, PTL

(* Until the first error every byte is accounted for: the frame buffer,    *)
(* the socket buffer and the network hold, in order, exactly the bytes     *)
(* from the start of a frame on, and nothing between that frame and the    *)
(* last one returned but frames of an unknown type.                        *)
THEOREM BytesAccountedFor == Spec => []NoByteLostOrReread
<1>1. OrderInv => NoByteLostOrReread
  <2> SUFFICES ASSUME OrderInv, ~rejected, ~starved
               PROVE  \E n \in LastRead + 1 .. Len(wire) + 1 : TailHeld(n)
    BY DEF NoByteLostOrReread, TailHeld
  <2> QED BY DEF OrderInv, StreamInv
<1> QED BY <1>1, OrderInvariant, PTL
=============================================================================
