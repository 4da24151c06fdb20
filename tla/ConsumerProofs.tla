---------------------------- MODULE ConsumerProofs ----------------------------
(***************************************************************************)
(* The consumer puts messages together rightly for every message size,     *)
(* every frame_max and any number of deliveries and returns, as long as no *)
(* other channel of its connection carries any; and its thread keeps count *)
(* of what it loses.                                                       *)
(***************************************************************************)
EXTENDS ConsumerThread, SequenceLemmas, FiniteSetTheorems, TLAPS

FrameRecord == [kind : {"deliver", "return", "header", "body", "other"}, d : Nat, at : Nat, size : Nat]

(* A frame of a body of size bytes, and of the content d.                  *)
BodyOf(d, size, at0) == FrameOf("body", d, at0, Least(Fragment, size - at0))

PartOf(f, d, c) ==
  \/ f = FrameOf(c.kind, d, 0, 0)
  \/ f = FrameOf("header", d, 0, c.size)
  \/ f.at \in Nat /\ f.at < c.size /\ f = BodyOf(d, c.size, f.at)

ValidFrame(f) == f.d \in Content /\ PartOf(f, f.d, contents[f.d])

FramesTyped ==
  /\ box \in Seq(FrameRecord) /\ toSend \in [Channel -> Seq(FrameRecord)]
  /\ \A i \in DOMAIN box : box[i] = OtherFrame \/ ValidFrame(box[i])
  /\ \A ch \in Channel : \A i \in DOMAIN toSend[ch] : ValidFrame(toSend[ch][i])

LocalsTyped ==
  /\ at \in {"idle", "deliver"} => delivery = 0
  /\ at \in {"header", "body"} => delivery # 0
  /\ at = "body" => header # 0 /\ DOMAIN body = 1 .. bodySize
  /\ at # "body" => parts = {}

PopInv == TypeOK /\ FramesTyped /\ LocalsTyped

(* The frames of contents that are still to be popped.                     *)
InBox(f) == \E i \in DOMAIN box : box[i] = f
InSend(f) == \E ch \in Channel : \E i \in DOMAIN toSend[ch] : toSend[ch][i] = f
Pending == {f \in FrameRecord : f # OtherFrame /\ (InBox(f) \/ InSend(f))}

(* A delivery whose first frame is gone is being popped, or is settled.    *)
WasReturned(d) == \E k \in DOMAIN returned : returned[k].deliver = d
StartedInv ==
  \A d \in Delivery :
    FrameOf("deliver", d, 0, 0) \in Pending \/ delivery = d \/ d \in gaveUp \/ WasReturned(d)

-----------------------------------------------------------------------------
(* The order of the frames of one channel.                                 *)
Earlier(f, g) ==
  \/ f.d < g.d
  \/ /\ f.d = g.d
     /\ \/ f.kind \in Method /\ g.kind \notin Method
        \/ f.kind = "header" /\ g.kind = "body"
        \/ f.kind = "body" /\ g.kind = "body" /\ f.at + f.size <= g.at

Own == toSend[OwnChannel]

SortedInv ==
  /\ \A i, j \in DOMAIN box :
       i < j /\ box[i] # OtherFrame /\ box[j] # OtherFrame => Earlier(box[i], box[j])
  /\ \A i \in DOMAIN box : \A j \in DOMAIN Own : box[i] # OtherFrame => Earlier(box[i], Own[j])
  /\ \A i, j \in DOMAIN Own : i < j => Earlier(Own[i], Own[j])

(* After each frame the next one of its content is still to come.          *)
NextIn(f, size, frames) ==
  /\ f.kind \in Method => FrameOf("header", f.d, 0, size) \in frames
  /\ f.kind = "header" /\ size > 0 => BodyOf(f.d, size, 0) \in frames
  /\ f.kind = "body" /\ f.at + Fragment < size => BodyOf(f.d, size, f.at + Fragment) \in frames

ClosedInv == \A f \in Pending : NextIn(f, contents[f.d].size, Pending)

(* What the pop waits for is ahead of it, and what it had is behind.       *)
ExpectInv ==
  /\ at = "header" =>
       /\ FrameOf("header", delivery, 0, contents[delivery].size) \in Pending
       /\ \A f \in Pending : f.d > delivery \/ (f.d = delivery /\ f.kind \notin Method)
  /\ at = "body" =>
       /\ header = delivery /\ parts \subseteq {delivery} /\ bodySize = contents[delivery].size
       /\ BodyOf(delivery, bodySize, receivedBytes) \in Pending
       /\ \A f \in Pending :
            f.d > delivery \/ (f.d = delivery /\ f.kind = "body" /\ f.at >= receivedBytes)

(* What is returned or given up is behind.                                 *)
SettledInv ==
  /\ \A k \in DOMAIN returned :
       /\ delivery # 0 => returned[k].deliver < delivery
       /\ \A f \in Pending : returned[k].deliver < f.d
  /\ \A d \in gaveUp :
       d # delivery /\ ~WasReturned(d) /\ FrameOf("deliver", d, 0, 0) \notin Pending

AcksInv == \A a \in acks : a.ch = OwnChannel /\ WasReturned(a.d)

PopOrder == ExpectInv /\ SettledInv /\ AcksInv /\ OneDelivery /\ ReturnedInOrder

OneChannelInv == PopInv /\ SortedInv /\ ClosedInv /\ PopOrder

-----------------------------------------------------------------------------
(* How a body is cut.                                                      *)
LEMMA FragmentIsPositive == Fragment \in Nat /\ Fragment > 0
  BY PopAssumption

LEMMA TimesMonotone ==
  ASSUME NEW a \in Nat, NEW b \in Nat, a <= b
  PROVE  a * Fragment \in Nat /\ b * Fragment \in Nat /\ a * Fragment <= b * Fragment
<1>1. PICK c \in Nat : b = a + c
  <2>1. b - a \in Nat /\ b = a + (b - a)
    OBVIOUS
  <2> QED BY <2>1
<1>2. a * Fragment \in Nat /\ c * Fragment \in Nat
  BY FragmentIsPositive
<1>3. b * Fragment = a * Fragment + c * Fragment
  BY <1>1, FragmentIsPositive
<1> QED BY <1>2, <1>3

(* The k-th fragment starts within the body, and there is no other.        *)
LEMMA FragmentsCover ==
  ASSUME NEW size \in Nat
  PROVE  /\ Fragments(size) \in Nat
         /\ \A k \in Nat \ {0} :
              (k - 1) * Fragment \in Nat /\ (k <= Fragments(size) <=> (k - 1) * Fragment < size)
<1> DEFINE F == Fragment
           n == (size + F - 1) \div F
<1>1. n \in Nat /\ n * F <= size + F - 1 /\ size + F - 1 < n * F + F
  <2>1. F \in Nat /\ F > 0 /\ size + F - 1 \in Nat
    BY FragmentIsPositive
  <2>2. \A x \in Nat, y \in Nat \ {0} :
          x \div y \in Nat /\ (x \div y) * y <= x /\ x < (x \div y) * y + y
    OBVIOUS
  <2> QED BY <2>1, <2>2
<1>2. n = Fragments(size)
  BY DEF Fragments
<1> HIDE DEF n
<1>3. ASSUME NEW k \in Nat \ {0}
      PROVE  (k - 1) * F \in Nat /\ (k <= n <=> (k - 1) * F < size)
  <2>1. k - 1 \in Nat /\ (k - 1) * F \in Nat /\ (k - 1) * F + F = k * F /\ k * F \in Nat
    BY FragmentIsPositive
  <2>2. CASE k <= n
    <3>1. k * F <= n * F
      BY <1>1, <2>2, TimesMonotone
    <3> QED BY <1>1, <2>1, <2>2, <3>1, FragmentIsPositive
  <2>3. CASE ~(k <= n)
    <3>1. n <= k - 1
      BY <1>1, <2>3
    <3>2. n * F <= (k - 1) * F /\ n * F \in Nat
      BY <1>1, <2>1, <3>1, TimesMonotone
    <3> QED BY <1>1, <2>1, <2>3, <3>2, FragmentIsPositive
  <2> QED BY <2>2, <2>3
<1> QED BY <1>1, <1>2, <1>3

(* The frames of a content, by their place.                                *)
LEMMA FramesOfPlaces ==
  ASSUME NEW d \in Nat \ {0}, NEW c, NEW size \in Nat, size = c.size, c.kind \in Method
  PROVE  /\ FramesOf(d, c) \in Seq(FrameRecord)
         /\ DOMAIN FramesOf(d, c) = 1 .. Fragments(size) + 2
         /\ FramesOf(d, c)[1] = FrameOf(c.kind, d, 0, 0)
         /\ FramesOf(d, c)[2] = FrameOf("header", d, 0, size)
         /\ \A k \in 1 .. Fragments(size) :
              FramesOf(d, c)[k + 2] = BodyOf(d, size, (k - 1) * Fragment)
<1> DEFINE n == Fragments(size)
           a == <<FrameOf(c.kind, d, 0, 0), FrameOf("header", d, 0, size)>>
           b == [k \in 1 .. n |-> BodyOf(d, size, (k - 1) * Fragment)]
<1>1. n \in Nat /\ \A k \in 1 .. n : (k - 1) * Fragment \in Nat /\ (k - 1) * Fragment < size
  BY FragmentsCover
<1>2. FramesOf(d, c) = a \o b
  BY DEF FramesOf, BodyOf
<1> HIDE DEF n
<1>3. a \in Seq(FrameRecord) /\ Len(a) = 2 /\ a[1] = FrameOf(c.kind, d, 0, 0)
      /\ a[2] = FrameOf("header", d, 0, size)
  BY DEF FrameRecord, FrameOf, Method
<1>4. \A k \in 1 .. n : BodyOf(d, size, (k - 1) * Fragment) \in FrameRecord
  <2> SUFFICES ASSUME NEW k \in 1 .. n
               PROVE  BodyOf(d, size, (k - 1) * Fragment) \in FrameRecord
    OBVIOUS
  <2> DEFINE o == (k - 1) * Fragment
  <2>1. o \in Nat /\ o < size
    BY <1>1
  <2> HIDE DEF o
  <2>2. BodyOf(d, size, o) \in FrameRecord
    BY <2>1, FragmentIsPositive DEF BodyOf, FrameOf, FrameRecord, Least
  <2> QED BY <2>2 DEF o
<1>5. b \in Seq(FrameRecord) /\ Len(b) = n
  <2>1. b \in [1 .. n -> FrameRecord]
    BY <1>4
  <2> HIDE DEF b
  <2> QED BY <1>1, <2>1
<1>6. \A k \in 1 .. n : b[k] = BodyOf(d, size, (k - 1) * Fragment)
  OBVIOUS
<1> HIDE DEF a, b
<1>7. /\ a \o b \in Seq(FrameRecord)
      /\ Len(a \o b) = n + 2
      /\ \A i \in 1 .. n + 2 : (a \o b)[i] = IF i <= 2 THEN a[i] ELSE b[i - 2]
  <2>1. /\ a \o b \in Seq(FrameRecord)
        /\ Len(a \o b) = Len(a) + Len(b)
        /\ \A i \in 1 .. Len(a) + Len(b) : (a \o b)[i] = IF i <= Len(a) THEN a[i] ELSE b[i - Len(a)]
    BY <1>3, <1>5, ConcatProperties
  <2>2. Len(a) + Len(b) = n + 2
    BY <1>1, <1>3, <1>5
  <2> QED BY <1>3, <2>1, <2>2
<1>8. DOMAIN (a \o b) = 1 .. n + 2
  BY <1>7, LenProperties
<1>9. (a \o b)[1] = a[1] /\ (a \o b)[2] = a[2]
  BY <1>1, <1>7
<1>10. ASSUME NEW k \in 1 .. n
       PROVE  (a \o b)[k + 2] = b[k]
  <2>1. k + 2 \in 1 .. n + 2 /\ ~(k + 2 <= 2) /\ k + 2 - 2 = k
    BY <1>1
  <2> QED BY <1>7, <2>1
<1> QED BY <1>2, <1>3, <1>6, <1>7, <1>8, <1>9, <1>10 DEF n

LEMMA PlaceCases ==
  ASSUME NEW n \in Nat, NEW i \in 1 .. n + 2
  PROVE  i = 1 \/ i = 2 \/ (i - 2 \in 1 .. n /\ i = (i - 2) + 2)
  OBVIOUS

(* Each of them is part of the content, they are in order, and the next    *)
(* one of each is there.                                                   *)
LEMMA FramesOfAreParts ==
  ASSUME NEW d \in Nat \ {0}, NEW c, NEW size \in Nat, size = c.size, c.kind \in Method, NEW i \in DOMAIN FramesOf(d, c)
  PROVE  LET f == FramesOf(d, c)[i]
         IN  f \in FrameRecord /\ f.d = d /\ f # OtherFrame /\ PartOf(f, d, c)
<1> DEFINE fs == FramesOf(d, c)
           n == Fragments(size)
           o(k) == (k - 1) * Fragment
<1>1. /\ fs \in Seq(FrameRecord) /\ DOMAIN fs = 1 .. n + 2
      /\ fs[1] = FrameOf(c.kind, d, 0, 0) /\ fs[2] = FrameOf("header", d, 0, size)
      /\ \A k \in 1 .. n : fs[k + 2] = BodyOf(d, size, o(k))
  BY FramesOfPlaces
<1>2. n \in Nat /\ \A k \in 1 .. n : o(k) \in Nat /\ o(k) < size
  BY FragmentsCover
<1>3. i \in 1 .. n + 2
  BY <1>1
<1> HIDE DEF fs, n, o
<1>4. fs[i] \in FrameRecord
  <2>1. DOMAIN fs = 1 .. Len(fs)
    BY <1>1, LenProperties
  <2>2. i \in 1 .. Len(fs)
    BY <1>1, <1>3, <2>1
  <2> QED BY <1>1, <2>2, ElementOfSeq
<1>5. fs[i].d = d /\ fs[i] # OtherFrame /\ PartOf(fs[i], d, c)
  <2>1. CASE i = 1
    BY <1>1, <2>1 DEF PartOf, FrameOf, OtherFrame
  <2>2. CASE i = 2
    BY <1>1, <2>2 DEF PartOf, FrameOf, OtherFrame
  <2>3. CASE i - 2 \in 1 .. n /\ i = (i - 2) + 2
    <3>1. fs[i] = BodyOf(d, size, o(i - 2)) /\ o(i - 2) \in Nat /\ o(i - 2) < size
      BY <1>1, <1>2, <2>3
    <3>2. fs[i].at = o(i - 2) /\ fs[i].d = d /\ fs[i].kind = "body"
      BY <3>1 DEF BodyOf, FrameOf
    <3>3. fs[i] # OtherFrame
      BY <3>2 DEF OtherFrame, FrameOf
    <3> QED BY <3>1, <3>2, <3>3 DEF PartOf
  <2> QED BY <1>2, <1>3, <2>1, <2>2, <2>3, PlaceCases
<1> QED BY <1>4, <1>5 DEF fs

LEMMA FramesOfAreSorted ==
  ASSUME NEW d \in Nat \ {0}, NEW c, NEW size \in Nat, size = c.size, c.kind \in Method,
         NEW i \in DOMAIN FramesOf(d, c), NEW j \in DOMAIN FramesOf(d, c), i < j
  PROVE  Earlier(FramesOf(d, c)[i], FramesOf(d, c)[j])
<1> DEFINE fs == FramesOf(d, c)
           n == Fragments(size)
           o(k) == (k - 1) * Fragment
<1>1. /\ DOMAIN fs = 1 .. n + 2
      /\ fs[1] = FrameOf(c.kind, d, 0, 0) /\ fs[2] = FrameOf("header", d, 0, size)
      /\ \A k \in 1 .. n : fs[k + 2] = BodyOf(d, size, o(k))
  BY FramesOfPlaces
<1>2. n \in Nat /\ \A k \in 1 .. n : o(k) \in Nat /\ o(k) < size
  BY FragmentsCover
<1>3. i \in 1 .. n + 2 /\ j \in 1 .. n + 2
  BY <1>1
<1>4. ASSUME NEW k \in 1 .. n, NEW l \in 1 .. n, k < l
      PROVE  o(k) + Fragment <= o(l)
  <2>1. k * Fragment <= (l - 1) * Fragment
    BY <1>4, TimesMonotone
  <2>2. (k - 1) * Fragment + Fragment = k * Fragment
    BY FragmentIsPositive
  <2> QED BY <2>1, <2>2
<1> HIDE DEF fs, n, o
<1>5. j = 2 \/ (j - 2 \in 1 .. n /\ j = (j - 2) + 2)
  BY <1>2, <1>3, PlaceCases
<1>6. CASE i = 1
  <2>1. fs[i].d = d /\ fs[i].kind \in Method /\ fs[j].d = d /\ fs[j].kind \notin Method
    <3>1. fs[j] = FrameOf("header", d, 0, size) \/ fs[j] = BodyOf(d, size, o(j - 2))
      BY <1>1, <1>5
    <3> QED BY <1>1, <1>6, <3>1 DEF FrameOf, BodyOf, Method
  <2> QED BY <2>1 DEF Earlier, fs
<1>7. CASE i = 2
  <2>1. fs[j] = BodyOf(d, size, o(j - 2))
    BY <1>1, <1>5, <1>7
  <2>2. fs[i].d = d /\ fs[i].kind = "header" /\ fs[j].d = d /\ fs[j].kind = "body"
    BY <1>1, <1>7, <2>1 DEF FrameOf, BodyOf
  <2> QED BY <2>2 DEF Earlier, fs
<1>8. CASE i - 2 \in 1 .. n /\ i = (i - 2) + 2
  <2>1. j - 2 \in 1 .. n /\ j = (j - 2) + 2 /\ i - 2 < j - 2
    BY <1>2, <1>3, <1>5, <1>8
  <2>2. fs[i] = BodyOf(d, size, o(i - 2)) /\ fs[j] = BodyOf(d, size, o(j - 2))
    BY <1>1, <1>8, <2>1
  <2>3. o(i - 2) + Fragment <= o(j - 2) /\ o(i - 2) \in Nat /\ o(j - 2) \in Nat
    BY <1>2, <1>4, <1>8, <2>1
  <2>4. Least(Fragment, size - o(i - 2)) <= Fragment
    BY <1>2, <1>8, FragmentIsPositive DEF Least
  <2>5. /\ fs[i].d = d /\ fs[i].kind = "body" /\ fs[i].at = o(i - 2)
        /\ fs[i].size = Least(Fragment, size - o(i - 2))
        /\ fs[j].d = d /\ fs[j].kind = "body" /\ fs[j].at = o(j - 2)
    BY <2>2 DEF BodyOf, FrameOf
  <2>6. Least(Fragment, size - o(i - 2)) \in Int
    BY <1>2, <1>8, FragmentIsPositive DEF Least
  <2>7. fs[i].at + fs[i].size <= fs[j].at
    BY <2>3, <2>4, <2>5, <2>6, FragmentIsPositive
  <2> QED BY <2>5, <2>7 DEF Earlier, fs
<1> QED BY <1>2, <1>3, <1>6, <1>7, <1>8, PlaceCases

LEMMA FramesOfAreClosed ==
  ASSUME NEW d \in Nat \ {0}, NEW c, NEW size \in Nat, size = c.size, c.kind \in Method, NEW i \in DOMAIN FramesOf(d, c),
         NEW frames, \A j \in DOMAIN FramesOf(d, c) : FramesOf(d, c)[j] \in frames
  PROVE  NextIn(FramesOf(d, c)[i], size, frames)
<1> DEFINE fs == FramesOf(d, c)
           n == Fragments(size)
           o(k) == (k - 1) * Fragment
<1>1. /\ DOMAIN fs = 1 .. n + 2
      /\ fs[1] = FrameOf(c.kind, d, 0, 0) /\ fs[2] = FrameOf("header", d, 0, size)
      /\ \A k \in 1 .. n : fs[k + 2] = BodyOf(d, size, o(k))
  BY FramesOfPlaces
<1>2. n \in Nat /\ \A k \in Nat \ {0} : o(k) \in Nat /\ (k <= n <=> o(k) < size)
  BY FragmentsCover
<1>3. i \in 1 .. n + 2
  BY <1>1
<1>4. \A k \in 1 .. n : o(k + 1) = o(k) + Fragment
  <2> SUFFICES ASSUME NEW k \in 1 .. n PROVE (k + 1 - 1) * Fragment = (k - 1) * Fragment + Fragment
    OBVIOUS
  <2>1. k \in Nat
    BY <1>2
  <2> QED BY <2>1, FragmentIsPositive
<1>5. o(1) = 0
  BY FragmentIsPositive
<1>6. \A j \in 1 .. n + 2 : fs[j] \in frames
  BY <1>1
<1> HIDE DEF fs, n, o
<1>7. CASE i = 1
  <2>1. fs[2] \in frames
    BY <1>2, <1>6
  <2>2. fs[i].kind \in Method /\ fs[i].d = d
    BY <1>1, <1>7 DEF FrameOf
  <2> QED BY <1>1, <2>1, <2>2 DEF NextIn, Method, fs
<1>8. CASE i = 2
  <2>1. fs[i].kind = "header" /\ fs[i].d = d
    BY <1>1, <1>8 DEF FrameOf
  <2>2. ASSUME size > 0
        PROVE  BodyOf(d, size, 0) \in frames
    <3>1. 1 <= n
      BY <1>2, <1>5, <2>2
    <3>2. fs[1 + 2] = BodyOf(d, size, 0)
      BY <1>1, <1>2, <1>5, <3>1
    <3>3. 1 + 2 \in 1 .. n + 2
      BY <1>2, <3>1
    <3> QED BY <1>6, <3>2, <3>3
  <2> QED BY <2>1, <2>2 DEF NextIn, Method, fs
<1>9. CASE i - 2 \in 1 .. n /\ i = (i - 2) + 2
  <2> DEFINE k == i - 2
  <2>1. k \in 1 .. n /\ i = k + 2
    BY <1>9
  <2> HIDE DEF k
  <2>2. fs[i] = BodyOf(d, size, o(k))
    BY <1>1, <2>1
  <2>3. fs[i].kind = "body" /\ fs[i].d = d /\ fs[i].at = o(k)
    BY <2>2 DEF FrameOf, BodyOf
  <2>4. ASSUME o(k) + Fragment < size
        PROVE  BodyOf(d, size, o(k) + Fragment) \in frames
    <3>1. k + 1 \in Nat \ {0} /\ o(k + 1) = o(k) + Fragment
      BY <1>2, <1>4, <2>1
    <3>2. k + 1 <= n
      BY <1>2, <2>4, <3>1
    <3>3. k + 1 \in 1 .. n /\ k + 1 + 2 \in 1 .. n + 2
      BY <1>2, <3>1, <3>2
    <3>4. fs[k + 1 + 2] = BodyOf(d, size, o(k + 1))
      BY <1>1, <3>3
    <3> QED BY <1>6, <3>1, <3>3, <3>4
  <2> QED BY <2>3, <2>4 DEF NextIn, Method, fs
<1> QED BY <1>2, <1>3, <1>7, <1>8, <1>9, PlaceCases

-----------------------------------------------------------------------------
(* What a wait takes, and what it leaves.                                  *)
LEMMA WaitFacts ==
  ASSUME FramesTyped, NEW f, WaitFrame(f)
  PROVE  /\ f \in FrameRecord
         /\ f = OtherFrame \/ (ValidFrame(f) /\ f \in Pending)
         /\ FramesTyped'
         /\ Pending' \subseteq Pending
         /\ \A g \in Pending : g = f \/ g \in Pending'
<1>1. /\ box \in Seq(FrameRecord) /\ box # <<>> /\ f = Head(box) /\ box' = Tail(box)
      /\ contents' = contents /\ toSend' = toSend
  BY DEF FramesTyped, WaitFrame, broker
<1>2. /\ f \in FrameRecord /\ box' \in Seq(FrameRecord)
      /\ 1 \in DOMAIN box /\ f = box[1]
      /\ \A i \in DOMAIN box' : i + 1 \in DOMAIN box /\ box'[i] = box[i + 1]
  BY <1>1, TailFacts
<1>3. \A i \in DOMAIN box : i = 1 \/ (i - 1 \in DOMAIN box' /\ box'[i - 1] = box[i])
  BY <1>1
<1>4. f = OtherFrame \/ ValidFrame(f)
  BY <1>2 DEF FramesTyped
<1>5. FramesTyped'
  BY <1>1, <1>2 DEF FramesTyped, ValidFrame, Content, Delivery
<1>6. f = OtherFrame \/ f \in Pending
  BY <1>2 DEF Pending, InBox
<1>7. ASSUME NEW g \in Pending'
      PROVE  g \in Pending
  BY <1>1, <1>2 DEF Pending, InBox, InSend
<1>8. ASSUME NEW g \in Pending
      PROVE  g = f \/ g \in Pending'
  BY <1>1, <1>2, <1>3 DEF Pending, InBox, InSend
<1> QED BY <1>2, <1>4, <1>5, <1>6, <1>7, <1>8

LEMMA ValidFrameFacts ==
  ASSUME TypeOK, NEW f \in FrameRecord, ValidFrame(f)
  PROVE  /\ f.d \in Content /\ f.d \in Nat \ {0} /\ f.at \in Nat /\ f.size \in Nat
         /\ f.kind \in {"deliver", "return", "header", "body"}
         /\ contents[f.d].size \in BodySize /\ contents[f.d].size \in Nat
         /\ f.kind = "deliver" => f = FrameOf("deliver", f.d, 0, 0) /\ f.d \in Delivery
         /\ f.kind = "return" => f.d \notin Delivery
         /\ f.kind = "header" =>
              f = FrameOf("header", f.d, 0, contents[f.d].size) /\ f.size = contents[f.d].size
         /\ f.kind = "body" =>
              /\ f.at < contents[f.d].size /\ f = BodyOf(f.d, contents[f.d].size, f.at)
              /\ f.size = Least(Fragment, contents[f.d].size - f.at)
<1>1. f.d \in Content /\ contents \in Seq([kind : Method, ch : Channel, size : BodySize])
  BY DEF ValidFrame, TypeOK
<1>2. contents[f.d] \in [kind : Method, ch : Channel, size : BodySize]
  BY <1>1, ElementOfSeq DEF Content, Delivery
<1>3. f.d \in Nat \ {0}
  BY <1>1 DEF Content, Delivery
<1>4. PartOf(f, f.d, contents[f.d])
  BY DEF ValidFrame
<1>5. contents[f.d].size \in BodySize /\ contents[f.d].size \in Nat
  BY <1>2, PopAssumption
<1>6. f.at \in Nat /\ f.size \in Nat
  BY DEF FrameRecord
<1>7. contents[f.d].kind \in Method /\ (f.d \in Delivery <=> contents[f.d].kind = "deliver")
  BY <1>1, <1>2 DEF Delivery
<1> QED BY <1>1, <1>3, <1>4, <1>5, <1>6, <1>7 DEF PartOf, FrameOf, BodyOf, Method

LEMMA OtherFrameFacts == OtherFrame.kind = "other" /\ OtherFrame.d = 0 /\ OtherFrame \in FrameRecord
  BY DEF OtherFrame, FrameOf, FrameRecord

(* A frame that is waited for.                                             *)
LEMMA WaitedFrame ==
  ASSUME PopInv, NEW f, WaitFrame(f), f.kind # "other"
  PROVE  /\ f \in FrameRecord /\ ValidFrame(f) /\ f \in Pending /\ f # OtherFrame
         /\ f.d \in Content /\ f.d \in Nat \ {0} /\ f.at \in Nat /\ f.size \in Nat
         /\ f.kind = "deliver" => f = FrameOf("deliver", f.d, 0, 0) /\ f.d \in Delivery
         /\ f.kind = "header" =>
              /\ f = FrameOf("header", f.d, 0, contents[f.d].size)
              /\ f.size = contents[f.d].size /\ f.size \in BodySize
         /\ f.kind = "body" =>
              /\ f.at < contents[f.d].size /\ f = BodyOf(f.d, contents[f.d].size, f.at)
              /\ f.size = Least(Fragment, contents[f.d].size - f.at)
<1>1. f \in FrameRecord /\ ValidFrame(f) /\ f \in Pending /\ f # OtherFrame
  BY WaitFacts, OtherFrameFacts DEF PopInv
<1> QED BY <1>1, ValidFrameFacts DEF PopInv

LEMMA PopTypes ==
  ASSUME PopInv, popWithTimer
  PROVE  PopInv'
<1> USE DEF PopInv
<1>1. CASE StartPop
  BY <1>1 DEF StartPop, TypeOK, FramesTyped, LocalsTyped, ValidFrame, Content, Delivery, Byte, broker, locals
<1>2. CASE PopSkips
  <2>1. PICK f : WaitFrame(f)
    BY <1>2 DEF PopSkips
  <2>2. FramesTyped'
    BY <2>1, WaitFacts
  <2>3. UNCHANGED <<contents, others, at, delivery, header, bodySize, receivedBytes, body, parts,
                    returned, acks, gaveUp>>
    BY <1>2, <2>1 DEF PopSkips, WaitFrame, broker, locals
  <2> QED BY <2>2, <2>3 DEF TypeOK, LocalsTyped, Content, Delivery, Byte
<1>3. CASE PopMethod
  <2>1. PICK f : WaitFrame(f) /\ f.kind = "deliver" /\ delivery' = f.d
    BY <1>3 DEF PopMethod
  <2>2. FramesTyped' /\ f.d \in Delivery /\ f.d # 0
    BY <2>1, WaitFacts, WaitedFrame
  <2>3. /\ at = "deliver" /\ at' = "header"
        /\ UNCHANGED <<contents, others, header, bodySize, receivedBytes, body, parts,
                       returned, acks, gaveUp>>
    BY <1>3, <2>1 DEF PopMethod, WaitFrame, broker
  <2> QED BY <2>1, <2>2, <2>3 DEF TypeOK, LocalsTyped, Content, Delivery, Byte
<1>4. ASSUME NEW hdr \in Content, NEW buffer \in Seq(Byte), NEW from \in SUBSET Content,
             NEW f, WaitFrame(f), PopReturns(hdr, buffer, from), delivery \in Delivery
      PROVE  PopInv'
  <2>1. FramesTyped'
    BY <1>4, WaitFacts
  <2> DEFINE R == [deliver : Delivery, header : Content, parts : SUBSET Content, body : Seq(Byte)]
             r == [deliver |-> delivery, header |-> hdr, parts |-> from, body |-> buffer]
  <2>2. /\ UNCHANGED <<contents, others, gaveUp>>
        /\ returned' = Append(returned, r) /\ at' = "idle"
        /\ acks' \subseteq acks \union {[ch |-> OwnChannel, d |-> delivery]}
        /\ delivery' = 0 /\ header' = 0 /\ bodySize' = 0 /\ receivedBytes' = 0
        /\ body' = <<>> /\ parts' = {}
    BY <1>4 DEF PopReturns, WaitFrame, broker, NoLocals
  <2>3. r \in R /\ returned \in Seq(R)
    BY <1>4 DEF TypeOK
  <2> HIDE DEF R, r
  <2>4. returned' \in Seq(R)
    BY <2>2, <2>3, AppendFacts
  <2>5. acks' \subseteq [ch : Channel, d : Delivery]
    <3>1. [ch |-> OwnChannel, d |-> delivery] \in [ch : Channel, d : Delivery]
      BY <1>4 DEF Channel
    <3> QED BY <2>2, <3>1 DEF TypeOK
  <2>6. LocalsTyped'
    BY <2>2 DEF LocalsTyped
  <2> QED BY <2>1, <2>2, <2>4, <2>5, <2>6 DEF TypeOK, Content, Delivery, Byte, R
<1>5. CASE PopHeader
  <2>1. PICK f : /\ WaitFrame(f) /\ f.kind = "header"
                 /\ IF f.size = 0 THEN PopReturns(f.d, <<>>, {})
                    ELSE /\ header' = f.d /\ bodySize' = f.size
                         /\ receivedBytes' = 0
                         /\ body' = [i \in 1 .. f.size |-> <<0, 0>>]
                         /\ at' = "body"
                         /\ UNCHANGED <<delivery, parts, returned, acks, gaveUp>>
    BY <1>5 DEF PopHeader
  <2>2. f.d \in Content /\ f.d # 0 /\ f.size \in BodySize /\ f.size \in Nat
    BY <2>1, WaitedFrame
  <2>3. at = "header" /\ delivery # 0
    BY <1>5 DEF PopHeader, LocalsTyped
  <2>4. delivery \in Delivery
    BY <2>3 DEF TypeOK
  <2>5. CASE f.size = 0
    <3>1. <<>> \in Seq(Byte)
      OBVIOUS
    <3> QED BY <1>4, <2>1, <2>2, <2>4, <2>5, <3>1
  <2>6. CASE f.size # 0
    <3>1. FramesTyped'
      BY <2>1, WaitFacts
    <3>2. UNCHANGED <<contents, others>>
      BY <2>1 DEF WaitFrame, broker
    <3>3. body' \in Seq(Byte) /\ DOMAIN body' = 1 .. f.size
      <4>1. <<0, 0>> \in Byte
        BY DEF Byte, TypeOK
      <4>2. body' \in [1 .. f.size -> Byte]
        BY <2>1, <2>6, <4>1
      <4> QED BY <2>2, <4>2
    <3>4. /\ header' = f.d /\ bodySize' = f.size /\ receivedBytes' = 0 /\ at' = "body"
          /\ UNCHANGED <<delivery, parts, returned, acks, gaveUp>>
      BY <2>1, <2>6
    <3>5. receivedBytes' \in 0 .. bodySize' - 1
      BY <2>2, <2>6, <3>4
    <3>6. LocalsTyped'
      BY <2>2, <2>3, <3>3, <3>4 DEF LocalsTyped
    <3> QED BY <2>2, <3>1, <3>2, <3>3, <3>4, <3>5, <3>6 DEF TypeOK, Content, Delivery, Byte
  <2> QED BY <2>5, <2>6
<1>6. CASE PopBody
  <2>1. PICK f : /\ WaitFrame(f) /\ f.kind = "body"
                 /\ IF receivedBytes + f.size >= bodySize
                    THEN PopReturns(header, Copied(f), parts \union {f.d})
                    ELSE /\ receivedBytes' = receivedBytes + f.size
                         /\ body' = Copied(f)
                         /\ parts' = parts \union {f.d}
                         /\ UNCHANGED <<at, delivery, header, bodySize, returned, acks, gaveUp>>
    BY <1>6 DEF PopBody
  <2>2. f.d \in Content /\ f.d # 0 /\ f.size \in Nat /\ f.at \in Nat
    BY <2>1, WaitedFrame
  <2>3. at = "body" /\ delivery # 0 /\ header # 0 /\ DOMAIN body = 1 .. bodySize
    BY <1>6 DEF PopBody, LocalsTyped
  <2>4. delivery \in Delivery /\ header \in Content /\ parts \union {f.d} \subseteq Content
        /\ bodySize \in Nat /\ receivedBytes \in 0 .. bodySize - 1 /\ body \in Seq(Byte)
    BY <2>2, <2>3, PopAssumption DEF TypeOK
  <2>5. Copied(f) \in Seq(Byte) /\ DOMAIN Copied(f) = 1 .. bodySize
    <3>1. ASSUME NEW i \in 1 .. bodySize
          PROVE  (IF i <= f.size THEN <<f.d, f.at + i>> ELSE body[i]) \in Byte
      <4>1. body[i] \in Byte
        BY <2>3, <2>4, LenProperties, ElementOfSeq
      <4>2. f.at + i \in Nat /\ f.d \in 0 .. Len(contents)
        BY <2>2, <2>4 DEF Content, Delivery
      <4> QED BY <4>1, <4>2 DEF Byte
    <3>2. Copied(f) \in [1 .. bodySize -> Byte]
      BY <3>1 DEF Copied
    <3> QED BY <2>4, <3>2
  <2>6. CASE receivedBytes + f.size >= bodySize
    BY <1>4, <2>1, <2>4, <2>5, <2>6
  <2>7. CASE ~(receivedBytes + f.size >= bodySize)
    <3>1. FramesTyped'
      BY <2>1, WaitFacts
    <3>2. UNCHANGED <<contents, others>>
      BY <2>1 DEF WaitFrame, broker
    <3>3. receivedBytes' \in 0 .. bodySize - 1
      BY <2>1, <2>2, <2>4, <2>7
    <3>4. /\ UNCHANGED <<at, delivery, header, bodySize, returned, acks, gaveUp>>
          /\ body' = Copied(f) /\ parts' = parts \union {f.d}
      BY <2>1, <2>7
    <3> QED BY <2>3, <2>4, <2>5, <3>1, <3>2, <3>3, <3>4 DEF TypeOK, LocalsTyped, Content, Delivery, Byte
  <2> QED BY <2>6, <2>7
<1>7. ASSUME NEW lost0, FramesTyped', UNCHANGED <<contents, others>>,
             PopReturnsNil(lost0)
      PROVE  PopInv'
  <2>1. /\ at' = "idle" /\ gaveUp' \subseteq Delivery
        /\ delivery' = 0 /\ header' = 0 /\ bodySize' = 0 /\ receivedBytes' = 0
        /\ body' = <<>> /\ parts' = {} /\ UNCHANGED <<returned, acks>>
    BY <1>7 DEF PopReturnsNil, NoLocals, TypeOK
  <2> QED BY <1>7, <2>1 DEF TypeOK, LocalsTyped, Content, Delivery, Byte
<1>8. CASE PopGivesUp
  <2>1. PICK f : WaitFrame(f) /\ PopReturnsNil({delivery, f.d})
    BY <1>8 DEF PopGivesUp
  <2>2. FramesTyped' /\ UNCHANGED <<contents, others>>
    BY <2>1, WaitFacts DEF WaitFrame, broker
  <2> QED BY <1>7, <2>1, <2>2
<1>9. CASE PopWaitFails
  <2>1. PopReturnsNil({delivery}) /\ UNCHANGED <<contents, toSend, others, box>>
    BY <1>9 DEF PopWaitFails, broker
  <2>2. FramesTyped'
    BY <2>1 DEF FramesTyped, ValidFrame, Content, Delivery
  <2> QED BY <1>7, <2>1, <2>2
<1> QED BY <1>1, <1>2, <1>3, <1>5, <1>6, <1>8, <1>9 DEF popWithTimer

-----------------------------------------------------------------------------
(* What happens around the pops: the box loses a reply or gets a frame.    *)
LEMMA SameLocals ==
  ASSUME PopInv, FramesTyped',
         UNCHANGED <<contents, at, locals, returned, acks, gaveUp>>,
         others' \in 0 .. MaxOther
  PROVE  PopInv'
BY DEF PopInv, TypeOK, LocalsTyped, Content, Delivery, Byte, locals

LEMMA RpcSteps ==
  ASSUME PopInv, RpcTakesReply
  PROVE  PopInv' /\ Pending' = Pending
<1> USE DEF PopInv
<1>1. PICK k \in DOMAIN box : box[k] = OtherFrame /\ box' = RemoveAt(box, k)
  BY DEF RpcTakesReply
<1>2. UNCHANGED <<contents, toSend, others, at, locals, returned, acks, gaveUp>>
  BY DEF RpcTakesReply, broker
<1>3. box \in Seq(FrameRecord) /\ Len(box) \in Nat /\ DOMAIN box = 1 .. Len(box)
  BY LenProperties DEF FramesTyped
<1>4. k \in 1 .. Len(box)
  BY <1>3
<1>5. /\ box' \in Seq(FrameRecord) /\ Len(box') = Len(box) - 1
      /\ \A i \in 1 .. Len(box) - 1 : box'[i] = IF i < k THEN box[i] ELSE box[i + 1]
  BY <1>1, <1>3, <1>4, RemoveAtFacts
<1>6. DOMAIN box' = 1 .. Len(box) - 1
  BY <1>5, LenProperties
<1>7. ASSUME NEW i \in DOMAIN box'
      PROVE  \E j \in DOMAIN box : box'[i] = box[j]
  <2>1. i \in DOMAIN box /\ i + 1 \in DOMAIN box /\ i \in 1 .. Len(box) - 1
    BY <1>3, <1>4, <1>6
  <2> QED BY <1>5, <2>1
<1>8. ASSUME NEW j \in DOMAIN box, j # k
      PROVE  \E i \in DOMAIN box' : box'[i] = box[j]
  <2>1. CASE j < k
    <3>1. j \in 1 .. Len(box) - 1
      BY <1>3, <1>4, <2>1
    <3> QED BY <1>5, <1>6, <2>1, <3>1
  <2>2. CASE ~(j < k)
    <3>1. j - 1 \in 1 .. Len(box) - 1 /\ ~(j - 1 < k) /\ j - 1 + 1 = j
      BY <1>3, <1>4, <1>8, <2>2
    <3> QED BY <1>5, <1>6, <3>1
  <2> QED BY <2>1, <2>2
<1>9. FramesTyped'
  BY <1>2, <1>5, <1>7 DEF FramesTyped, ValidFrame, Content, Delivery
<1>10. ASSUME NEW g \in FrameRecord, g # OtherFrame
       PROVE  InBox(g)' <=> InBox(g)
  BY <1>1, <1>7, <1>8, <1>10 DEF InBox
<1>11. Pending' = Pending
  BY <1>2, <1>10 DEF Pending, InSend
<1>12. others' \in 0 .. MaxOther
  BY <1>2 DEF TypeOK
<1> QED BY <1>2, <1>9, <1>11, <1>12, SameLocals

LEMMA AppendsToBox ==
  ASSUME FramesTyped, NEW e \in FrameRecord, box' = Append(box, e)
  PROVE  /\ box' \in Seq(FrameRecord)
         /\ \A g : InBox(g)' <=> InBox(g) \/ g = e
         /\ \A i \in DOMAIN box' :
              \/ i \in DOMAIN box /\ box'[i] = box[i]
              \/ i \notin DOMAIN box /\ i = Len(box) + 1 /\ box'[i] = e
<1>1. box \in Seq(FrameRecord) /\ Len(box) \in Nat /\ DOMAIN box = 1 .. Len(box)
  BY LenProperties DEF FramesTyped
<1>2. /\ box' \in Seq(FrameRecord) /\ Len(box') = Len(box) + 1
      /\ \A i \in 1 .. Len(box) : box'[i] = box[i]
      /\ box'[Len(box) + 1] = e
  BY <1>1, AppendProperties
<1>3. DOMAIN box' = 1 .. Len(box) + 1
  BY <1>2, LenProperties
<1>4. \A i \in DOMAIN box' : i \in DOMAIN box \/ (i \notin DOMAIN box /\ i = Len(box) + 1)
  BY <1>1, <1>3
<1>5. Len(box) + 1 \in DOMAIN box' /\ DOMAIN box \subseteq DOMAIN box'
  BY <1>1, <1>3
<1>6. ASSUME NEW g
      PROVE  InBox(g)' <=> InBox(g) \/ g = e
  <2>1. ASSUME NEW i \in DOMAIN box', box'[i] = g
        PROVE  InBox(g) \/ g = e
    BY <1>1, <1>2, <1>4, <2>1 DEF InBox
  <2>2. ASSUME NEW i \in DOMAIN box, box[i] = g
        PROVE  box'[i] = g /\ i \in DOMAIN box'
    BY <1>1, <1>2, <1>5, <2>2
  <2>3. ASSUME InBox(g)'
        PROVE  InBox(g) \/ g = e
    <3>1. \E i \in DOMAIN box' : box'[i] = g
      BY <2>3 DEF InBox
    <3> QED BY <2>1, <3>1
  <2>4. ASSUME InBox(g)
        PROVE  \E i \in DOMAIN box' : box'[i] = g
    BY <2>2, <2>4 DEF InBox
  <2>5. \E i \in DOMAIN box' : box'[i] = e
    BY <1>2, <1>5
  <2>6. InBox(g)' <=> \E i \in DOMAIN box' : box'[i] = g
    BY DEF InBox
  <2> QED BY <2>3, <2>4, <2>5, <2>6
<1> QED BY <1>1, <1>2, <1>4, <1>6

LEMMA SendSteps ==
  ASSUME PopInv, NEW ch \in Channel, BrokerSends(ch)
  PROVE  PopInv' /\ Pending' = Pending
<1> USE DEF PopInv
<1>1. /\ toSend[ch] # <<>> /\ box' = Append(box, Head(toSend[ch]))
      /\ toSend' = [toSend EXCEPT ![ch] = Tail(@)]
      /\ UNCHANGED <<contents, others, at, locals, returned, acks, gaveUp>>
  BY DEF BrokerSends
<1> DEFINE f == Head(toSend[ch])
<1>2. toSend \in [Channel -> Seq(FrameRecord)] /\ toSend[ch] \in Seq(FrameRecord)
  BY DEF FramesTyped
<1>3. /\ f \in FrameRecord /\ Tail(toSend[ch]) \in Seq(FrameRecord)
      /\ 1 \in DOMAIN toSend[ch] /\ f = toSend[ch][1]
      /\ \A i \in DOMAIN Tail(toSend[ch]) :
           i + 1 \in DOMAIN toSend[ch] /\ Tail(toSend[ch])[i] = toSend[ch][i + 1]
  BY <1>1, <1>2, TailFacts
<1>4. \A i \in DOMAIN toSend[ch] :
        i = 1 \/ (i - 1 \in DOMAIN Tail(toSend[ch]) /\ Tail(toSend[ch])[i - 1] = toSend[ch][i])
  BY <1>1, <1>2
<1>5. ValidFrame(f)
  BY <1>3 DEF FramesTyped
<1> HIDE DEF f
<1>6. /\ box' \in Seq(FrameRecord)
      /\ \A g : InBox(g)' <=> InBox(g) \/ g = f
      /\ \A i \in DOMAIN box' : (i \in DOMAIN box /\ box'[i] = box[i]) \/ box'[i] = f
  <2>1. box' = Append(box, f)
    BY <1>1 DEF f
  <2> QED BY <1>3, <2>1, AppendsToBox
<1>7. /\ toSend'[ch] = Tail(toSend[ch])
      /\ \A c \in Channel : c # ch => toSend'[c] = toSend[c]
      /\ toSend' \in [Channel -> Seq(FrameRecord)]
  BY <1>1, <1>2, <1>3
<1>8. FramesTyped'
  <2>1. \A i \in DOMAIN box' : box'[i] = OtherFrame \/ ValidFrame(box'[i])
    BY <1>5, <1>6 DEF FramesTyped
  <2>2. \A c \in Channel : \A i \in DOMAIN toSend'[c] : ValidFrame(toSend'[c][i])
    <3> SUFFICES ASSUME NEW c \in Channel, NEW i \in DOMAIN toSend'[c]
                 PROVE  ValidFrame(toSend'[c][i])
      OBVIOUS
    <3>1. CASE c = ch
      BY <1>3, <1>7, <3>1 DEF FramesTyped
    <3>2. CASE c # ch
      BY <1>7, <3>2 DEF FramesTyped
    <3> QED BY <3>1, <3>2
  <2> QED BY <1>1, <1>6, <1>7, <2>1, <2>2 DEF FramesTyped, ValidFrame, Content, Delivery
<1>9. ASSUME NEW g
      PROVE  InSend(g) <=> InSend(g)' \/ g = f
  <2>1. ASSUME InSend(g)
        PROVE  InSend(g)' \/ g = f
    <3>1. PICK c \in Channel : \E i \in DOMAIN toSend[c] : toSend[c][i] = g
      BY <2>1 DEF InSend
    <3>2. CASE c = ch
      <4>1. PICK i \in DOMAIN toSend[ch] : toSend[ch][i] = g
        BY <3>1, <3>2
      <4>2. CASE i = 1
        BY <1>3, <4>1, <4>2
      <4>3. CASE i # 1
        <5>1. i - 1 \in DOMAIN toSend'[ch] /\ toSend'[ch][i - 1] = g
          BY <1>4, <1>7, <4>1, <4>3
        <5> QED BY <5>1 DEF InSend
      <4> QED BY <4>2, <4>3
    <3>3. CASE c # ch
      BY <1>7, <3>1, <3>3 DEF InSend
    <3> QED BY <3>2, <3>3
  <2>2. ASSUME InSend(g)'
        PROVE  InSend(g)
    <3>1. PICK c \in Channel : \E i \in DOMAIN toSend'[c] : toSend'[c][i] = g
      BY <2>2 DEF InSend
    <3>2. CASE c = ch
      BY <1>3, <1>7, <3>1, <3>2 DEF InSend
    <3>3. CASE c # ch
      BY <1>7, <3>1, <3>3 DEF InSend
    <3> QED BY <3>2, <3>3
  <2>3. InSend(f)
    BY <1>3 DEF InSend
  <2> QED BY <2>1, <2>2, <2>3
<1>10. Pending' = Pending
  BY <1>6, <1>9 DEF Pending
<1>11. others' \in 0 .. MaxOther
  BY <1>1 DEF TypeOK
<1> QED BY <1>1, <1>8, <1>10, <1>11, SameLocals

LEMMA SendOtherSteps ==
  ASSUME PopInv, BrokerSendsOther
  PROVE  PopInv' /\ Pending' = Pending
<1> USE DEF PopInv
<1>1. /\ others < MaxOther /\ others' = others + 1 /\ box' = Append(box, OtherFrame)
      /\ UNCHANGED <<contents, toSend, at, locals, returned, acks, gaveUp>>
  BY DEF BrokerSendsOther
<1>2. /\ box' \in Seq(FrameRecord)
      /\ \A g : InBox(g)' <=> InBox(g) \/ g = OtherFrame
      /\ \A i \in DOMAIN box' : (i \in DOMAIN box /\ box'[i] = box[i]) \/ box'[i] = OtherFrame
  BY <1>1, AppendsToBox, OtherFrameFacts
<1>3. FramesTyped'
  BY <1>1, <1>2 DEF FramesTyped, ValidFrame, Content, Delivery
<1>4. Pending' = Pending
  BY <1>1, <1>2 DEF Pending, InSend
<1>5. others' \in 0 .. MaxOther
  BY <1>1, PopAssumption DEF TypeOK
<1> QED BY <1>1, <1>3, <1>4, <1>5, SameLocals

(* A content starts: the pending frames and the new ones.                  *)
LEMMA DeliverSteps ==
  ASSUME PopInv, NEW ch \in Channel, BrokerDelivers(ch)
  PROVE  LET d == Len(contents) + 1
             c == contents'[d]
             fs == FramesOf(d, c)
         IN  /\ PopInv'
             /\ d \in Nat \ {0} /\ c.size \in Nat /\ c.kind \in Method
             /\ Content' = Content \union {d} /\ d \notin Content
             /\ Delivery \subseteq Delivery' /\ Delivery' \subseteq Delivery \union {d}
             /\ d \in Delivery' <=> c.kind = "deliver"
             /\ \A e \in Content : e < d /\ contents'[e] = contents[e]
             /\ toSend[ch] = <<>> /\ toSend' = [toSend EXCEPT ![ch] = fs]
             /\ UNCHANGED <<others, box, at, locals, returned, acks, gaveUp>>
             /\ Pending \subseteq Pending'
             /\ \A i \in DOMAIN fs : fs[i] \in Pending'
             /\ \A g \in Pending' : g \in Pending \/ \E i \in DOMAIN fs : g = fs[i]
<1> USE DEF PopInv
<1>1. PICK c \in [kind : Carried(ch), ch : {ch}, size : BodySize] :
        /\ contents' = Append(contents, c)
        /\ toSend' = [toSend EXCEPT ![ch] = FramesOf(Len(contents) + 1, c)]
  BY DEF BrokerDelivers
<1>2. toSend[ch] = <<>> /\ UNCHANGED <<others, box, at, locals, returned, acks, gaveUp>>
  BY DEF BrokerDelivers
<1>17. PICK d : d = Len(contents) + 1
  OBVIOUS
<1>18. PICK fs : fs = FramesOf(d, c)
  OBVIOUS
<1>21. PICK size : size = c.size
  OBVIOUS
<1> DEFINE D == [kind : Method, ch : Channel, size : BodySize]
<1>3. contents \in Seq(D) /\ Len(contents) \in Nat /\ size \in Nat /\ c \in D /\ c.kind \in Method
  <2>1. c \in D
    BY <1>1 DEF Carried
  <2> QED BY <1>21, <2>1, PopAssumption, LenProperties DEF TypeOK
<1>4. /\ contents' \in Seq(D) /\ Len(contents') = d
      /\ \A e \in 1 .. Len(contents) : contents'[e] = contents[e]
      /\ contents'[d] = c
  BY <1>1, <1>3, <1>17, AppendProperties
<1>5. d \in Nat \ {0} /\ contents'[d] = c /\ c.size = size
  BY <1>3, <1>4, <1>17, <1>21
<1> HIDE DEF D
<1>6. Content' = Content \union {d} /\ d \notin Content /\ \A e \in Content : e < d
  <2>1. PICK n \in Nat : n = Len(contents)
    BY <1>3
  <2>2. Content = 1 .. n /\ Content' = 1 .. n + 1 /\ d = n + 1
    BY <1>4, <1>17, <2>1 DEF Content
  <2> QED BY <2>2
<1>7. \A e \in Content : contents'[e] = contents[e]
  BY <1>4 DEF Content
<1>22. /\ Delivery \subseteq Delivery' /\ Delivery' \subseteq Delivery \union {d}
       /\ d \in Delivery' <=> c.kind = "deliver"
  BY <1>5, <1>6, <1>7 DEF Delivery
<1>8. /\ fs \in Seq(FrameRecord)
      /\ \A i \in DOMAIN fs : /\ fs[i] \in FrameRecord /\ fs[i].d = d /\ fs[i] # OtherFrame
                              /\ PartOf(fs[i], d, c)
  <2>1. FramesOf(d, c) \in Seq(FrameRecord)
    BY <1>3, <1>5, <1>21, FramesOfPlaces
  <2>2. ASSUME NEW i \in DOMAIN FramesOf(d, c)
        PROVE  LET f == FramesOf(d, c)[i]
               IN  f \in FrameRecord /\ f.d = d /\ f # OtherFrame /\ PartOf(f, d, c)
    BY <1>3, <1>5, <1>21, FramesOfAreParts
  <2> QED BY <1>18, <2>1, <2>2
<1>9. /\ toSend' = [toSend EXCEPT ![ch] = fs]
      /\ toSend'[ch] = fs /\ \A b \in Channel : b # ch => toSend'[b] = toSend[b]
      /\ toSend' \in [Channel -> Seq(FrameRecord)]
  <2>1. toSend \in [Channel -> Seq(FrameRecord)]
    BY DEF FramesTyped
  <2>2. toSend' = [toSend EXCEPT ![ch] = fs]
    BY <1>1, <1>17, <1>18
  <2> QED BY <1>8, <2>1, <2>2
<1>10. \A g : ValidFrame(g) => ValidFrame(g)'
  BY <1>6, <1>7 DEF ValidFrame
<1>11. \A i \in DOMAIN fs : ValidFrame(fs[i])'
  BY <1>5, <1>6, <1>8 DEF ValidFrame
<1>12. FramesTyped'
  <2>1. \A i \in DOMAIN box' : box'[i] = OtherFrame \/ ValidFrame(box[i])'
    BY <1>2, <1>10 DEF FramesTyped
  <2>2. ASSUME NEW b \in Channel, NEW i \in DOMAIN toSend'[b]
        PROVE  (ValidFrame(toSend[b][i]))'
    <3>1. CASE b = ch
      <4>1. ValidFrame(fs[i])'
        BY <1>9, <1>11, <2>2, <3>1
      <4> QED BY <1>9, <3>1, <4>1 DEF ValidFrame
    <3>2. CASE b # ch
      <4>1. toSend'[b] = toSend[b] /\ ValidFrame(toSend[b][i])
        BY <1>9, <2>2, <3>2 DEF FramesTyped
      <4> QED BY <1>10, <4>1 DEF ValidFrame
    <3> QED BY <3>1, <3>2
  <2> QED BY <1>2, <1>9, <2>1, <2>2 DEF FramesTyped, ValidFrame
<1>13. TypeOK' /\ LocalsTyped'
  <2>1. UNCHANGED <<others, at, delivery, header, bodySize, receivedBytes, body, parts,
                    returned, acks, gaveUp>>
    BY <1>2 DEF locals
  <2>2. Delivery \subseteq Delivery' /\ Content \subseteq Content' /\ Byte \subseteq Byte'
    BY <1>3, <1>4, <1>6, <1>17, <1>22 DEF Byte
  <2>3. body' \in Seq(Byte')
    BY <2>1, <2>2, SeqMonotonic DEF TypeOK
  <2>4. returned' \in Seq([deliver : Delivery', header : Content',
                           parts : SUBSET Content', body : Seq(Byte')])
    <3> DEFINE R == [deliver : Delivery, header : Content, parts : SUBSET Content, body : Seq(Byte)]
               Q == [deliver : Delivery', header : Content', parts : SUBSET Content', body : Seq(Byte')]
    <3>1. \A b \in Seq(Byte) : b \in Seq(Byte')
      BY <2>2, SeqMonotonic
    <3>2. R \subseteq Q
      BY <2>2, <3>1
    <3>3. returned \in Seq(R)
      BY DEF TypeOK
    <3> HIDE DEF R, Q
    <3>4. returned' \in Seq(Q)
      BY <2>1, <3>2, <3>3, SeqMonotonic
    <3> QED BY <3>4 DEF Q
  <2>5. acks' \subseteq [ch : Channel, d : Delivery'] /\ gaveUp' \subseteq Delivery' /\ parts' \subseteq Content'
    BY <2>1, <2>2 DEF TypeOK
  <2>6. contents' \in Seq([kind : Method, ch : Channel, size : BodySize])
    BY <1>4 DEF D
  <2>7. LocalsTyped'
    BY <2>1 DEF LocalsTyped
  <2> QED BY <2>1, <2>2, <2>3, <2>4, <2>5, <2>6, <2>7 DEF TypeOK
<1>14. ASSUME NEW g
       PROVE  InSend(g)' <=> InSend(g) \/ \E i \in DOMAIN fs : g = fs[i]
  <2>1. ASSUME InSend(g)'
        PROVE  InSend(g) \/ \E i \in DOMAIN fs : g = fs[i]
    <3>1. PICK b \in Channel : \E i \in DOMAIN toSend'[b] : toSend'[b][i] = g
      BY <2>1 DEF InSend
    <3> QED BY <1>9, <3>1 DEF InSend
  <2>2. ASSUME InSend(g)
        PROVE  InSend(g)'
    <3>1. PICK b \in Channel : \E i \in DOMAIN toSend[b] : toSend[b][i] = g
      BY <2>2 DEF InSend
    <3>2. b # ch
      BY <1>2, <3>1
    <3> QED BY <1>9, <3>1, <3>2 DEF InSend
  <2>3. ASSUME NEW i \in DOMAIN fs, g = fs[i]
        PROVE  InSend(g)'
    BY <1>9, <2>3 DEF InSend
  <2> QED BY <2>1, <2>2, <2>3
<1>15. \A g : InBox(g)' <=> InBox(g)
  BY <1>2 DEF InBox
<1>16. /\ Pending \subseteq Pending'
       /\ \A i \in DOMAIN fs : fs[i] \in Pending'
       /\ \A g \in Pending' : g \in Pending \/ \E i \in DOMAIN fs : g = fs[i]
  BY <1>8, <1>14, <1>15 DEF Pending
<1>19. fs = FramesOf(Len(contents) + 1, contents'[Len(contents) + 1])
  BY <1>5, <1>17, <1>18
<1>20. PopInv'
  BY <1>12, <1>13
<1> HIDE DEF PopInv
<1> QED BY <1>2, <1>3, <1>5, <1>6, <1>7, <1>9, <1>16, <1>17, <1>19, <1>20, <1>21, <1>22

-----------------------------------------------------------------------------
LEMMA PopInit == Init => PopInv /\ Pending = {} /\ Delivery = {}
<1> SUFFICES ASSUME Init PROVE PopInv /\ Pending = {} /\ Delivery = {}
  OBVIOUS
<1>1. \A ch \in Channel : toSend[ch] = <<>>
  BY DEF Init
<1>2. Delivery = {} /\ Pending = {}
  BY <1>1 DEF Init, Content, Delivery, Pending, InBox, InSend
<1>3. FramesTyped
  BY <1>1 DEF Init, FramesTyped
<1>4. TypeOK /\ LocalsTyped
  BY PopAssumption DEF Init, TypeOK, LocalsTyped
<1> QED BY <1>2, <1>3, <1>4 DEF PopInv

LEMMA PopSteps == PopInv /\ [Next]_vars => PopInv'
<1> SUFFICES ASSUME PopInv, [Next]_vars PROVE PopInv'
  OBVIOUS
<1>1. CASE popWithTimer
  BY <1>1, PopTypes
<1>2. CASE RpcTakesReply
  BY <1>2, RpcSteps
<1>3. ASSUME NEW ch \in Channel, BrokerDelivers(ch) \/ BrokerSends(ch)
      PROVE  PopInv'
  BY <1>3, DeliverSteps, SendSteps
<1>4. CASE BrokerSendsOther
  BY <1>4, SendOtherSteps
<1>5. CASE UNCHANGED vars
  BY <1>5 DEF vars, broker, locals, PopInv, TypeOK, FramesTyped, LocalsTyped, ValidFrame, Content, Delivery, Byte
<1> QED BY <1>1, <1>2, <1>3, <1>4, <1>5 DEF Next

(* Every step of the thread is a step of the pop and its surroundings.     *)
LEMMA ThreadStepsPop == ThreadNext \/ UNCHANGED threadVars => [Next]_vars
BY DEF ThreadNext, threadVars, vars, Next, popWithTimer, ThreadRuns, Starts, Pops, PopStep,
       LoopGetsMessage, LoopGetsNil, EndsCancelled, SingleShot, Cancel, ConnectionFails, Surroundings

(* The locals of a pop, and what it keeps of its messages, have the types  *)
(* declared for them, whatever frames the connection hands it.             *)
THEOREM PopTyped == Spec => []TypeOK
<1>1. PopInv => TypeOK
  BY DEF PopInv
<1>2. Init => PopInv
  BY PopInit
<1> QED BY <1>1, <1>2, PopSteps, PTL DEF Spec

-----------------------------------------------------------------------------
(* A delivery that has started is not forgotten.                           *)
LEMMA StartedSteps ==
  ASSUME PopInv, StartedInv, [Next]_vars
  PROVE  StartedInv'
<1> DEFINE first(d) == FrameOf("deliver", d, 0, 0)
           done(d) == d \in gaveUp \/ WasReturned(d)
<1>1. \A d : first(d).kind = "deliver" /\ first(d).d = d
  BY DEF FrameOf
<1>2. SUFFICES ASSUME NEW d \in Delivery'
               PROVE  first(d) \in Pending' \/ delivery' = d \/ done(d)'
  BY DEF StartedInv
<1> HIDE DEF first
<1>4. CASE d \in Delivery /\ first(d) \in Pending /\ first(d) \notin Pending'
  <2>1. ASSUME NEW f, WaitFrame(f)
        PROVE  f = first(d) /\ f.kind = "deliver" /\ f.d = d /\ d # 0
    <3>1. f = first(d)
      BY <1>4, <2>1, WaitFacts DEF PopInv
    <3>2. d # 0
      BY <1>4 DEF Content, Delivery
    <3> QED BY <1>1, <3>1, <3>2
  <2>2. CASE PopMethod
    BY <2>1, <2>2 DEF PopMethod
  <2>3. CASE PopGivesUp
    <3>1. PICK f : WaitFrame(f) /\ PopReturnsNil({delivery, f.d})
      BY <2>3 DEF PopGivesUp
    <3>2. f.d = d
      BY <2>1, <3>1
    <3> QED BY <1>4, <3>1, <3>2 DEF PopReturnsNil
  <2>4. CASE PopSkips \/ PopHeader \/ PopBody
    BY <2>1, <2>4 DEF PopSkips, PopHeader, PopBody
  <2>5. CASE StartPop \/ PopWaitFails \/ UNCHANGED vars
    BY <1>4, <2>5 DEF StartPop, PopWaitFails, vars, broker, Pending, InBox, InSend
  <2>6. CASE RpcTakesReply
    BY <1>4, <2>6, RpcSteps
  <2>7. CASE \E ch \in Channel : BrokerDelivers(ch) \/ BrokerSends(ch)
    <3>1. PICK ch \in Channel : BrokerDelivers(ch) \/ BrokerSends(ch)
      BY <2>7
    <3> QED BY <1>4, <3>1, DeliverSteps, SendSteps
  <2>8. CASE BrokerSendsOther
    BY <1>4, <2>8, SendOtherSteps
  <2> QED BY <2>2, <2>3, <2>4, <2>5, <2>6, <2>7, <2>8 DEF Next, popWithTimer
<1>5. ASSUME NEW hdr, NEW buffer, NEW from, PopReturns(hdr, buffer, from), delivery = d \/ done(d)
      PROVE  done(d)'
  <2> DEFINE R == [deliver : Delivery, header : Content, parts : SUBSET Content, body : Seq(Byte)]
             r == [deliver |-> delivery, header |-> hdr, parts |-> from, body |-> buffer]
  <2>1. returned \in Seq(R) /\ Len(returned) \in Nat /\ DOMAIN returned = 1 .. Len(returned)
    BY LenProperties DEF PopInv, TypeOK
  <2>2. returned' = Append(returned, r) /\ gaveUp' = gaveUp /\ r.deliver = delivery
    BY <1>5 DEF PopReturns
  <2> HIDE DEF R, r
  <2>3. /\ DOMAIN returned' = 1 .. Len(returned) + 1
        /\ returned'[Len(returned) + 1] = r
        /\ \A k \in 1 .. Len(returned) : returned'[k] = returned[k]
    BY <2>1, <2>2
  <2>4. CASE delivery = d
    <3>1. Len(returned) + 1 \in DOMAIN returned' /\ returned'[Len(returned) + 1].deliver = d
      BY <2>1, <2>2, <2>3, <2>4
    <3> QED BY <3>1 DEF WasReturned
  <2>5. CASE d \in gaveUp
    BY <2>2, <2>5
  <2>6. CASE WasReturned(d)
    <3>1. PICK k \in DOMAIN returned : returned[k].deliver = d
      BY <2>6 DEF WasReturned
    <3>2. k \in DOMAIN returned' /\ returned'[k] = returned[k]
      BY <2>1, <2>3
    <3> QED BY <3>1, <3>2 DEF WasReturned
  <2> QED BY <1>5, <2>4, <2>5, <2>6
<1>6. CASE d \in Delivery /\ (delivery = d \/ done(d))
  <2>1. d # 0
    BY <1>6 DEF Content, Delivery
  <2>2. CASE UNCHANGED <<delivery, returned, gaveUp>>
    BY <1>6, <2>2 DEF WasReturned
  <2>3. CASE PopMethod
    BY <1>6, <2>1, <2>3 DEF PopMethod, PopInv, LocalsTyped, WasReturned
  <2>4. CASE PopHeader
    BY <1>5, <1>6, <2>2, <2>4 DEF PopHeader
  <2>5. CASE PopBody
    BY <1>5, <1>6, <2>2, <2>5 DEF PopBody
  <2>6. CASE PopGivesUp \/ PopWaitFails
    BY <1>6, <2>1, <2>6 DEF PopGivesUp, PopWaitFails, PopReturnsNil, WasReturned
  <2> QED BY <2>2, <2>3, <2>4, <2>5, <2>6
          DEF Next, popWithTimer, StartPop, PopSkips, RpcTakesReply, BrokerDelivers, BrokerSends,
              BrokerSendsOther, vars, locals
<1>7. CASE d \notin Delivery
  <2>1. \E ch \in Channel : BrokerDelivers(ch)
    BY <1>7 DEF Next, popWithTimer, StartPop, PopSkips, PopMethod, PopHeader, PopBody, PopGivesUp,
                PopWaitFails, WaitFrame, RpcTakesReply, BrokerSends, BrokerSendsOther, vars, broker,
                Content, Delivery
  <2>2. PICK ch \in Channel : BrokerDelivers(ch)
    BY <2>1
  <2> DEFINE e == Len(contents) + 1
             c == contents'[e]
  <2>3. /\ e \in Nat \ {0} /\ c.size \in Nat /\ c.kind \in Method
        /\ Delivery' \subseteq Delivery \union {e}
        /\ e \in Delivery' <=> c.kind = "deliver"
        /\ \A i \in DOMAIN FramesOf(e, c) : FramesOf(e, c)[i] \in Pending'
    BY <2>2, DeliverSteps
  <2> HIDE DEF e, c
  <2>4. d = e /\ c.kind = "deliver"
    BY <1>7, <2>3
  <2>5. PICK size \in Nat : size = c.size
    BY <2>3
  <2>6. /\ DOMAIN FramesOf(e, c) = 1 .. Fragments(size) + 2 /\ Fragments(size) \in Nat
        /\ FramesOf(e, c)[1] = FrameOf(c.kind, e, 0, 0)
    BY <2>3, <2>5, FramesOfPlaces, FragmentsCover
  <2>7. 1 \in DOMAIN FramesOf(e, c) /\ FramesOf(e, c)[1] = first(e)
    BY <2>4, <2>6 DEF first
  <2> QED BY <2>3, <2>4, <2>7
<1>8. CASE d \in Delivery
  <2>1. first(d) \in Pending \/ delivery = d \/ done(d)
    BY <1>8 DEF StartedInv, first
  <2> QED BY <1>4, <1>6, <1>8, <2>1
<1> QED BY <1>7, <1>8

(* A delivery whose frames are all gone was returned as a message, unless  *)
(* a pop gave it up in the middle; whatever else uses the connection.      *)
THEOREM NoDeliveryForgotten == Spec => []ReturnedOrGivenUp
<1>1. Init => PopInv /\ StartedInv
  BY PopInit DEF StartedInv
<1>2. PopInv /\ StartedInv /\ [Next]_vars => (PopInv /\ StartedInv)'
  BY PopSteps, StartedSteps
<1>3. PopInv /\ StartedInv => ReturnedOrGivenUp
  <2> SUFFICES ASSUME StartedInv, NEW d \in Delivery
               PROVE  Outstanding(d) \/ d \in gaveUp \/ WasReturned(d)
    BY DEF ReturnedOrGivenUp, WasReturned
  <2>1. CASE FrameOf("deliver", d, 0, 0) \in Pending
    <3>1. FrameOf("deliver", d, 0, 0).d = d
      BY DEF FrameOf
    <3> QED BY <2>1, <3>1 DEF Pending, InBox, InSend, Outstanding
  <2> QED BY <2>1 DEF StartedInv, Outstanding
<1> QED BY <1>1, <1>2, <1>3, PTL DEF Spec

-----------------------------------------------------------------------------
(* No other channel of the connection carries deliveries or returns.       *)
LEMMA OnlyChannel ==
  ASSUME Channel = {OwnChannel}
  PROVE  Channel = {OwnChannel} /\ \A g : InSend(g) <=> \E i \in DOMAIN Own : Own[i] = g
BY DEF Channel, InSend, Own

LEMMA OnlyChannelNext ==
  ASSUME Channel = {OwnChannel}, NEW g
  PROVE  InSend(g)' <=> \E i \in DOMAIN Own' : Own'[i] = g
BY DEF Channel, InSend, Own

LEMMA BodySizeIsPositive ==
  ASSUME NEW d, NEW size \in Nat, NEW o \in Nat, o < size
  PROVE  LET b == BodyOf(d, size, o)
         IN  /\ b.kind = "body" /\ b.d = d /\ b.at = o /\ b.size \in Nat /\ b.size > 0
             /\ b.size <= Fragment /\ o + b.size <= size
             /\ b.size = Fragment \/ o + b.size = size
<1>1. Least(Fragment, size - o) \in Nat /\ Least(Fragment, size - o) > 0
      /\ Least(Fragment, size - o) <= Fragment /\ o + Least(Fragment, size - o) <= size
      /\ (Least(Fragment, size - o) = Fragment \/ o + Least(Fragment, size - o) = size)
  BY FragmentIsPositive DEF Least
<1> HIDE DEF Least
<1> QED BY <1>1 DEF BodyOf, FrameOf

(* The frame that a wait takes is the first of all that are pending.       *)
LEMMA TakesFirst ==
  ASSUME Channel = {OwnChannel}, PopInv, SortedInv, NEW f, WaitFrame(f)
  PROVE  SortedInv' /\ (f # OtherFrame => \A g \in Pending' : Earlier(f, g))
<1>1. /\ box \in Seq(FrameRecord) /\ box # <<>> /\ f = Head(box) /\ box' = Tail(box)
      /\ toSend' = toSend
  BY DEF PopInv, FramesTyped, WaitFrame, broker
<1>2. /\ 1 \in DOMAIN box /\ f = box[1]
      /\ \A i \in DOMAIN box' : i \in Nat \ {0} /\ i + 1 \in DOMAIN box /\ box'[i] = box[i + 1]
  BY <1>1, TailFacts
<1>3. Own' = Own
  BY <1>1 DEF Own
<1>4. SortedInv'
  <2>1. ASSUME NEW i \in DOMAIN box', NEW j \in DOMAIN box', i < j,
               box'[i] # OtherFrame, box'[j] # OtherFrame
        PROVE  Earlier(box'[i], box'[j])
    <3>1. i + 1 \in DOMAIN box /\ j + 1 \in DOMAIN box /\ i + 1 < j + 1
      BY <1>2, <2>1
    <3> QED BY <1>2, <2>1, <3>1 DEF SortedInv
  <2>2. ASSUME NEW i \in DOMAIN box', NEW j \in DOMAIN Own, box'[i] # OtherFrame
        PROVE  Earlier(box'[i], Own[j])
    BY <1>2, <2>2 DEF SortedInv
  <2>3. \A i, j \in DOMAIN Own : i < j => Earlier(Own[i], Own[j])
    BY DEF SortedInv
  <2> QED BY <1>3, <2>1, <2>2, <2>3 DEF SortedInv
<1>5. ASSUME f # OtherFrame, NEW g \in Pending'
      PROVE  Earlier(f, g)
  <2>1. g # OtherFrame /\ (InBox(g)' \/ InSend(g)')
    BY DEF Pending
  <2>2. CASE InBox(g)'
    <3>1. PICK i \in DOMAIN box' : box'[i] = g
      BY <2>2 DEF InBox
    <3>2. i + 1 \in DOMAIN box /\ box[i + 1] = g /\ 1 < i + 1
      BY <1>2, <3>1
    <3> QED BY <1>2, <1>5, <2>1, <3>2 DEF SortedInv
  <2>3. CASE InSend(g)'
    <3>1. PICK j \in DOMAIN Own : Own[j] = g
      BY <1>3, <2>3, OnlyChannelNext
    <3> QED BY <1>2, <1>5, <3>1 DEF SortedInv
  <2> QED BY <2>1, <2>2, <2>3
<1> QED BY <1>4, <1>5

LEMMA PendingFrame ==
  ASSUME PopInv, NEW g \in Pending
  PROVE  g \in FrameRecord /\ ValidFrame(g)
<1>1. g \in FrameRecord /\ g # OtherFrame /\ (InBox(g) \/ InSend(g))
  BY DEF Pending
<1> QED BY <1>1 DEF PopInv, FramesTyped, InBox, InSend

(* The next frame of a content is not the first of all.                    *)
LEMMA TakesNoNext ==
  ASSUME Channel = {OwnChannel}, PopInv, SortedInv, ClosedInv, NEW f, WaitFrame(f)
  PROVE  ClosedInv'
<1>1. contents' = contents
  BY DEF WaitFrame, broker
<1>2. SUFFICES ASSUME NEW g \in Pending'
               PROVE  NextIn(g, contents[g.d].size, Pending')
  BY <1>1 DEF ClosedInv
<1>3. g \in Pending /\ \A n \in Pending : n = f \/ n \in Pending'
  BY WaitFacts DEF PopInv
<1>4. f # OtherFrame => Earlier(f, g)
  BY TakesFirst
<1> DEFINE size == contents[g.d].size
<1>5. /\ g \in FrameRecord /\ g.d \in Nat /\ g.at \in Nat /\ size \in Nat
      /\ g.kind \in {"deliver", "return", "header", "body"}
  BY <1>3, PendingFrame, ValidFrameFacts DEF PopInv
<1>6. NextIn(g, size, Pending)
  BY <1>3 DEF ClosedInv
<1> HIDE DEF size
<1>7. ASSUME g.kind \in Method
      PROVE  FrameOf("header", g.d, 0, size) \in Pending'
  <2> DEFINE n == FrameOf("header", g.d, 0, size)
  <2>1. n \in Pending /\ n.kind = "header" /\ n.d = g.d
    BY <1>6, <1>7 DEF NextIn, FrameOf
  <2>2. n # OtherFrame
    BY <2>1, OtherFrameFacts
  <2> HIDE DEF n
  <2>3. ~Earlier(n, g)
    BY <1>5, <1>7, <2>1 DEF Earlier, Method
  <2> QED BY <1>3, <1>4, <2>1, <2>2, <2>3 DEF n
<1>8. ASSUME g.kind = "header", size > 0
      PROVE  BodyOf(g.d, size, 0) \in Pending'
  <2> DEFINE n == BodyOf(g.d, size, 0)
  <2>1. n \in Pending /\ n.kind = "body" /\ n.d = g.d
    BY <1>6, <1>8 DEF NextIn, FrameOf, BodyOf
  <2>2. n # OtherFrame
    BY <2>1, OtherFrameFacts
  <2> HIDE DEF n
  <2>3. ~Earlier(n, g)
    BY <1>5, <1>8, <2>1 DEF Earlier, Method
  <2> QED BY <1>3, <1>4, <2>1, <2>2, <2>3 DEF n
<1>9. ASSUME g.kind = "body", g.at + Fragment < size
      PROVE  BodyOf(g.d, size, g.at + Fragment) \in Pending'
  <2> DEFINE o == g.at + Fragment
             n == BodyOf(g.d, size, o)
  <2>1. o \in Nat /\ o > g.at /\ o < size
    BY <1>5, <1>9, FragmentIsPositive
  <2>2. n \in Pending
    BY <1>6, <1>9 DEF NextIn
  <2> HIDE DEF o
  <2>3. n.kind = "body" /\ n.d = g.d /\ n.at = o /\ n.size \in Nat
    BY <1>5, <2>1, BodySizeIsPositive
  <2>4. n # OtherFrame
    BY <2>3, OtherFrameFacts
  <2> HIDE DEF n
  <2>5. ~Earlier(n, g)
    BY <1>5, <1>9, <2>1, <2>3 DEF Earlier, Method
  <2> QED BY <1>3, <1>4, <2>2, <2>4, <2>5 DEF n, o
<1>10. NextIn(g, size, Pending')
  BY <1>7, <1>8, <1>9 DEF NextIn
<1> QED BY <1>10 DEF size

(* What the broker and the RPCs do keeps the frames in order.              *)
LEMMA RpcSorted ==
  ASSUME PopInv, SortedInv, RpcTakesReply
  PROVE  SortedInv'
<1>1. PICK k \in DOMAIN box : box[k] = OtherFrame /\ box' = RemoveAt(box, k)
  BY DEF RpcTakesReply
<1>2. Own' = Own
  BY DEF RpcTakesReply, broker, Own
<1>3. box \in Seq(FrameRecord) /\ Len(box) \in Nat /\ DOMAIN box = 1 .. Len(box)
  BY LenProperties DEF PopInv, FramesTyped
<1>4. k \in 1 .. Len(box)
  BY <1>3
<1>5. /\ box' \in Seq(FrameRecord) /\ Len(box') = Len(box) - 1
      /\ \A i \in 1 .. Len(box) - 1 : box'[i] = IF i < k THEN box[i] ELSE box[i + 1]
  BY <1>1, <1>3, <1>4, RemoveAtFacts
<1>6. DOMAIN box' = 1 .. Len(box) - 1
  BY <1>5, LenProperties
<1> DEFINE m(i) == IF i < k THEN i ELSE i + 1
<1>7. \A i \in DOMAIN box' : m(i) \in DOMAIN box /\ box'[i] = box[m(i)]
  BY <1>3, <1>4, <1>5, <1>6
<1>8. \A i, j \in DOMAIN box' : i < j => m(i) < m(j)
  BY <1>3, <1>4, <1>6
<1> HIDE DEF m
<1>9. ASSUME NEW i \in DOMAIN box', NEW j \in DOMAIN box', i < j,
             box'[i] # OtherFrame, box'[j] # OtherFrame
      PROVE  Earlier(box'[i], box'[j])
  BY <1>7, <1>8, <1>9 DEF SortedInv
<1>10. ASSUME NEW i \in DOMAIN box', NEW j \in DOMAIN Own, box'[i] # OtherFrame
       PROVE  Earlier(box'[i], Own[j])
  BY <1>7, <1>10 DEF SortedInv
<1>11. \A i, j \in DOMAIN Own : i < j => Earlier(Own[i], Own[j])
  BY DEF SortedInv
<1> QED BY <1>2, <1>9, <1>10, <1>11 DEF SortedInv

LEMMA SendSorted ==
  ASSUME PopInv, SortedInv, BrokerSends(OwnChannel)
  PROVE  SortedInv'
<1>1. /\ Own # <<>> /\ box' = Append(box, Head(Own)) /\ Own' = Tail(Own)
      /\ Own \in Seq(FrameRecord) /\ box \in Seq(FrameRecord)
  <2>1. OwnChannel \in Channel /\ toSend \in [Channel -> Seq(FrameRecord)]
    BY DEF Channel, PopInv, FramesTyped
  <2> QED BY <2>1 DEF BrokerSends, Own, PopInv, FramesTyped
<1>2. /\ Head(Own) \in FrameRecord /\ 1 \in DOMAIN Own /\ Head(Own) = Own[1]
      /\ \A i \in DOMAIN Own' : i \in Nat \ {0} /\ i + 1 \in DOMAIN Own /\ Own'[i] = Own[i + 1]
  BY <1>1, TailFacts
<1>3. /\ Len(box) \in Nat /\ DOMAIN box = 1 .. Len(box)
      /\ DOMAIN box' = 1 .. Len(box) + 1
      /\ \A i \in DOMAIN box : box'[i] = box[i]
      /\ box'[Len(box) + 1] = Own[1]
  BY <1>1, <1>2, LenProperties, AppendProperties
<1>4. \A i \in DOMAIN box' : i \in DOMAIN box \/ i = Len(box) + 1
  BY <1>3
<1>5. ASSUME NEW i \in DOMAIN box', NEW j \in DOMAIN box', i < j,
             box'[i] # OtherFrame, box'[j] # OtherFrame
      PROVE  Earlier(box'[i], box'[j])
  <2>1. i \in DOMAIN box
    BY <1>3, <1>5
  <2>2. CASE j \in DOMAIN box
    BY <1>3, <1>5, <2>1, <2>2 DEF SortedInv
  <2>3. CASE j = Len(box) + 1
    BY <1>2, <1>3, <1>5, <2>1, <2>3 DEF SortedInv
  <2> QED BY <1>4, <2>2, <2>3
<1>6. ASSUME NEW i \in DOMAIN box', NEW j \in DOMAIN Own', box'[i] # OtherFrame
      PROVE  Earlier(box'[i], Own'[j])
  <2>1. j + 1 \in DOMAIN Own /\ Own'[j] = Own[j + 1] /\ 1 < j + 1
    BY <1>2
  <2>2. CASE i \in DOMAIN box
    BY <1>3, <1>6, <2>1, <2>2 DEF SortedInv
  <2>3. CASE i = Len(box) + 1
    BY <1>2, <1>3, <2>1, <2>3 DEF SortedInv
  <2> QED BY <1>4, <2>2, <2>3
<1>7. ASSUME NEW i \in DOMAIN Own', NEW j \in DOMAIN Own', i < j
      PROVE  Earlier(Own'[i], Own'[j])
  <2>1. i + 1 \in DOMAIN Own /\ j + 1 \in DOMAIN Own /\ i + 1 < j + 1
    BY <1>2, <1>7
  <2> QED BY <1>2, <2>1 DEF SortedInv
<1> QED BY <1>5, <1>6, <1>7 DEF SortedInv

LEMMA SendOtherSorted ==
  ASSUME PopInv, SortedInv, BrokerSendsOther
  PROVE  SortedInv'
<1>1. box' = Append(box, OtherFrame) /\ Own' = Own
  BY DEF BrokerSendsOther, Own
<1>2. \A i \in DOMAIN box' : (i \in DOMAIN box /\ box'[i] = box[i]) \/ box'[i] = OtherFrame
  BY <1>1, AppendsToBox, OtherFrameFacts DEF PopInv
<1> QED BY <1>1, <1>2 DEF SortedInv

LEMMA DeliverOrder ==
  ASSUME Channel = {OwnChannel}, PopInv, SortedInv, ClosedInv, BrokerDelivers(OwnChannel)
  PROVE  SortedInv' /\ ClosedInv'
<1>1. PICK d : d = Len(contents) + 1
  OBVIOUS
<1>2. PICK c : c = contents'[d]
  OBVIOUS
<1>9. PICK size : size = c.size
  OBVIOUS
<1>3. OwnChannel \in Channel /\ toSend \in [Channel -> Seq(FrameRecord)]
  BY DEF Channel, PopInv, FramesTyped
<1>4. /\ d \in Nat \ {0} /\ size \in Nat /\ c.kind \in Method
      /\ \A e \in Content : e < d /\ contents'[e] = contents[e]
      /\ toSend[OwnChannel] = <<>> /\ toSend' = [toSend EXCEPT ![OwnChannel] = FramesOf(d, c)]
      /\ box' = box
      /\ Pending \subseteq Pending'
      /\ \A i \in DOMAIN FramesOf(d, c) : FramesOf(d, c)[i] \in Pending'
      /\ \A g \in Pending' : g \in Pending \/ \E i \in DOMAIN FramesOf(d, c) : g = FramesOf(d, c)[i]
  BY <1>1, <1>2, <1>3, <1>9, DeliverSteps
<1>5. Own' = FramesOf(d, c)
  BY <1>3, <1>4 DEF Own
<1>6. \A i \in DOMAIN FramesOf(d, c) : FramesOf(d, c)[i].d = d
  <2> SUFFICES ASSUME NEW i \in DOMAIN FramesOf(d, c) PROVE FramesOf(d, c)[i].d = d
    OBVIOUS
  <2> QED BY <1>4, <1>9, FramesOfAreParts
<1>7. SortedInv'
  <2>1. ASSUME NEW i \in DOMAIN box, NEW j \in DOMAIN Own', box[i] # OtherFrame
        PROVE  Earlier(box[i], Own'[j])
    <3>1. box[i].d \in Content
      BY <2>1 DEF PopInv, FramesTyped, ValidFrame
    <3> QED BY <1>4, <1>5, <1>6, <3>1 DEF Earlier
  <2>2. ASSUME NEW i \in DOMAIN Own', NEW j \in DOMAIN Own', i < j
        PROVE  Earlier(Own'[i], Own'[j])
    BY <1>4, <1>5, <1>9, <2>2, FramesOfAreSorted
  <2>3. \A i, j \in DOMAIN box' :
          i < j /\ box'[i] # OtherFrame /\ box'[j] # OtherFrame => Earlier(box'[i], box'[j])
    BY <1>4 DEF SortedInv
  <2> QED BY <1>4, <2>1, <2>2, <2>3 DEF SortedInv
<1>8. ASSUME NEW g \in Pending'
      PROVE  NextIn(g, contents'[g.d].size, Pending')
  <2>1. CASE g \in Pending
    <3>1. g.d \in Content
      BY <2>1, PendingFrame DEF ValidFrame
    <3>2. NextIn(g, contents[g.d].size, Pending) /\ contents'[g.d] = contents[g.d]
      BY <1>4, <2>1, <3>1 DEF ClosedInv
    <3> QED BY <1>4, <3>2 DEF NextIn
  <2>2. CASE \E i \in DOMAIN FramesOf(d, c) : g = FramesOf(d, c)[i]
    <3>1. PICK i \in DOMAIN FramesOf(d, c) : g = FramesOf(d, c)[i]
      BY <2>2
    <3>2. NextIn(g, size, Pending') /\ g.d = d
      BY <1>4, <1>6, <1>9, <3>1, FramesOfAreClosed
    <3> QED BY <1>2, <1>9, <3>2
  <2> QED BY <1>4, <2>1, <2>2
<1> QED BY <1>7, <1>8 DEF ClosedInv

LEMMA OrderSteps ==
  ASSUME Channel = {OwnChannel}, PopInv, SortedInv, ClosedInv, [Next]_vars
  PROVE  SortedInv' /\ ClosedInv'
<1>1. ASSUME NEW f, WaitFrame(f)
      PROVE  SortedInv' /\ ClosedInv'
  BY <1>1, TakesFirst, TakesNoNext
<1>2. CASE UNCHANGED <<box, toSend, contents>>
  BY <1>2 DEF SortedInv, ClosedInv, Pending, InBox, InSend, Own
<1>3. CASE popWithTimer
  <2>1. (\E f : WaitFrame(f)) \/ UNCHANGED <<box, toSend, contents>>
    BY <1>3 DEF popWithTimer, StartPop, PopSkips, PopMethod, PopHeader, PopBody, PopGivesUp,
                PopWaitFails, broker
  <2> QED BY <1>1, <1>2, <2>1
<1>4. CASE RpcTakesReply
  <2>1. UNCHANGED contents
    BY <1>4 DEF RpcTakesReply, broker
  <2> QED BY <1>4, <2>1, RpcSteps, RpcSorted DEF ClosedInv
<1>5. CASE \E ch \in Channel : BrokerDelivers(ch)
  BY <1>5, OnlyChannel, DeliverOrder
<1>6. CASE \E ch \in Channel : BrokerSends(ch)
  <2>1. BrokerSends(OwnChannel) /\ OwnChannel \in Channel
    BY <1>6, OnlyChannel
  <2>2. UNCHANGED contents
    BY <2>1 DEF BrokerSends
  <2> QED BY <2>1, <2>2, SendSteps, SendSorted DEF ClosedInv
<1>7. CASE BrokerSendsOther
  <2>1. UNCHANGED contents
    BY <1>7 DEF BrokerSendsOther
  <2> QED BY <1>7, <2>1, SendOtherSteps, SendOtherSorted DEF ClosedInv
<1> QED BY <1>2, <1>3, <1>4, <1>5, <1>6, <1>7 DEF Next, vars, broker

-----------------------------------------------------------------------------
(* The frame such a consumer takes in a delivery is the one it waits for,  *)
(* or part of no content.                                                  *)
LEMMA TakesWhatItExpects ==
  ASSUME Channel = {OwnChannel}, OneChannelInv, NEW f, WaitFrame(f), f # OtherFrame
  PROVE  /\ at = "header" => f = FrameOf("header", delivery, 0, contents[delivery].size)
         /\ at = "body" => f = BodyOf(delivery, bodySize, receivedBytes)
<1> USE DEF OneChannelInv, PopOrder
<1>1. /\ f \in Pending /\ ValidFrame(f) /\ f \in FrameRecord
      /\ \A g \in Pending : g = f \/ Earlier(f, g)
  BY WaitFacts, TakesFirst DEF PopInv
<1>2. f.d \in Nat /\ f.at \in Nat /\ f.size \in Nat
  BY <1>1, ValidFrameFacts DEF PopInv
<1>3. delivery \in Nat /\ receivedBytes \in Nat /\ bodySize \in Nat
  BY PopAssumption DEF PopInv, TypeOK, Content, Delivery
<1>4. CASE at = "header"
  <2> DEFINE h == FrameOf("header", delivery, 0, contents[delivery].size)
  <2>1. h \in Pending /\ h.kind = "header" /\ h.d = delivery
    BY <1>4 DEF ExpectInv, FrameOf
  <2>2. f.d > delivery \/ (f.d = delivery /\ f.kind \notin Method)
    BY <1>1, <1>4 DEF ExpectInv
  <2> HIDE DEF h
  <2>3. ~Earlier(f, h)
    BY <1>2, <1>3, <2>1, <2>2 DEF Earlier, Method
  <2> QED BY <1>1, <1>4, <2>1, <2>3 DEF h
<1>5. CASE at = "body"
  <2> DEFINE b == BodyOf(delivery, bodySize, receivedBytes)
  <2>1. b \in Pending /\ b.kind = "body" /\ b.d = delivery /\ b.at = receivedBytes
    BY <1>5 DEF ExpectInv, FrameOf, BodyOf
  <2>2. f.d > delivery \/ (f.d = delivery /\ f.kind = "body" /\ f.at >= receivedBytes)
    BY <1>1, <1>5 DEF ExpectInv
  <2>3. f.kind = "body" => f.size > 0
    <3>1. f.kind = "body" => f.at < contents[f.d].size /\ f = BodyOf(f.d, contents[f.d].size, f.at)
                             /\ contents[f.d].size \in Nat
      BY <1>1, ValidFrameFacts DEF PopInv
    <3> DEFINE size == contents[f.d].size
    <3> HIDE DEF size
    <3>2. f.kind = "body" => size \in Nat /\ f.at < size /\ f = BodyOf(f.d, size, f.at)
      BY <3>1 DEF size
    <3>3. ASSUME f.kind = "body"
          PROVE  BodyOf(f.d, size, f.at).size > 0
      BY <1>2, <3>2, <3>3, BodySizeIsPositive
    <3> QED BY <3>2, <3>3
  <2> HIDE DEF b
  <2>4. ~Earlier(f, b)
    BY <1>2, <1>3, <2>1, <2>2, <2>3 DEF Earlier, Method
  <2> QED BY <1>1, <1>5, <2>1, <2>4 DEF b
<1> QED BY <1>4, <1>5

LEMMA GivesUpItsOwn ==
  ASSUME Channel = {OwnChannel}, OneChannelInv, PopGivesUp \/ PopWaitFails
  PROVE  /\ at \in {"deliver", "header", "body"} /\ at' = "idle" /\ delivery' = 0
         /\ gaveUp' \subseteq gaveUp \union ({delivery} \ {0})
         /\ UNCHANGED <<returned, acks>>
         /\ Pending' \subseteq Pending /\ contents' = contents
<1> USE DEF OneChannelInv
<1>1. CASE PopGivesUp
  <2>1. PICK f : WaitFrame(f) /\ f.kind # at /\ PopReturnsNil({delivery, f.d})
    BY <1>1 DEF PopGivesUp
  <2>2. at \in {"header", "body"}
    BY <1>1 DEF PopGivesUp
  <2>3. f = OtherFrame
    BY <2>1, <2>2, TakesWhatItExpects DEF FrameOf, BodyOf
  <2>4. f.d = 0
    BY <2>3, OtherFrameFacts
  <2>5. Pending' \subseteq Pending /\ contents' = contents
    BY <2>1, WaitFacts DEF PopInv, WaitFrame, broker
  <2> QED BY <2>1, <2>2, <2>4, <2>5 DEF PopReturnsNil, NoLocals, Delivery, Content
<1>2. CASE PopWaitFails
  <2>1. /\ at # "idle" /\ PopReturnsNil({delivery}) /\ UNCHANGED <<contents, toSend, box>>
    BY <1>2 DEF PopWaitFails, broker
  <2>2. at \in {"deliver", "header", "body"}
    BY <2>1 DEF PopInv, TypeOK
  <2>3. Pending' = Pending
    BY <2>1 DEF Pending, InBox, InSend
  <2> QED BY <2>1, <2>2, <2>3 DEF PopReturnsNil, NoLocals, Delivery, Content
<1> QED BY <1>1, <1>2

(* A message is returned when nothing of its delivery is left.             *)
LEMMA ReturnsInOrder ==
  ASSUME PopInv, PopOrder, NEW hdr, NEW buffer, NEW from,
         PopReturns(hdr, buffer, from), hdr = delivery, from \subseteq {delivery}, delivery # 0,
         Pending' \subseteq Pending, \A g \in Pending' : g.d > delivery
  PROVE  PopOrder'
<1> USE DEF PopOrder
<1> DEFINE R == [deliver : Delivery, header : Content, parts : SUBSET Content, body : Seq(Byte)]
           r == [deliver |-> delivery, header |-> hdr, parts |-> from, body |-> buffer]
           n == Len(returned) + 1
<1>1. returned \in Seq(R) /\ Len(returned) \in Nat /\ DOMAIN returned = 1 .. Len(returned)
  BY LenProperties DEF PopInv, TypeOK
<1>2. /\ returned' = Append(returned, r) /\ gaveUp' = gaveUp /\ at' = "idle" /\ delivery' = 0
      /\ r.deliver = delivery /\ r.header = delivery /\ r.parts \subseteq {delivery}
  BY DEF PopReturns, NoLocals
<1>3. acks' \subseteq acks \union {[ch |-> OwnChannel, d |-> delivery]}
  BY DEF PopReturns
<1> HIDE DEF R, r
<1>4. /\ DOMAIN returned' = 1 .. n
      /\ returned'[n] = r
      /\ \A k \in DOMAIN returned : returned'[k] = returned[k]
  BY <1>1, <1>2
<1>5. \A k \in DOMAIN returned' : k \in DOMAIN returned \/ k = n
  BY <1>1, <1>4
<1>6. n \in DOMAIN returned' /\ DOMAIN returned \subseteq DOMAIN returned'
      /\ \A k \in DOMAIN returned : k \in Nat /\ k < n
  BY <1>1, <1>4
<1> HIDE DEF n
<1>7. \A k \in DOMAIN returned : returned[k].deliver < delivery
  BY DEF SettledInv
<1>8. ExpectInv'
  BY <1>2 DEF ExpectInv
<1>9. \A d : WasReturned(d)' <=> WasReturned(d) \/ d = delivery
  <2> SUFFICES ASSUME NEW d PROVE WasReturned(d)' <=> WasReturned(d) \/ d = delivery
    OBVIOUS
  <2>1. ASSUME WasReturned(d)'
        PROVE  WasReturned(d) \/ d = delivery
    BY <1>2, <1>4, <1>5, <2>1 DEF WasReturned
  <2>2. ASSUME WasReturned(d)
        PROVE  WasReturned(d)'
    BY <1>4, <1>6, <2>2 DEF WasReturned
  <2>3. ASSUME d = delivery
        PROVE  WasReturned(d)'
    BY <1>2, <1>4, <1>6, <2>3 DEF WasReturned
  <2> QED BY <2>1, <2>2, <2>3
<1>10. SettledInv'
  <2>1. \A k \in DOMAIN returned' : \A f \in Pending' : returned'[k].deliver < f.d
    <3> SUFFICES ASSUME NEW k \in DOMAIN returned', NEW f \in Pending'
                 PROVE  returned'[k].deliver < f.d
      OBVIOUS
    <3>1. CASE k \in DOMAIN returned
      BY <1>4, <3>1 DEF SettledInv
    <3>2. CASE k = n
      <4>1. f.d > delivery /\ f.d \in Nat /\ delivery \in Nat
        BY DEF Pending, FrameRecord, PopInv, TypeOK, Content, Delivery
      <4> QED BY <1>2, <1>4, <3>2, <4>1
    <3> QED BY <1>5, <3>1, <3>2
  <2>2. ASSUME NEW d \in gaveUp'
        PROVE  d # delivery' /\ ~WasReturned(d)' /\ FrameOf("deliver", d, 0, 0) \notin Pending'
    <3>1. d \in gaveUp /\ d # 0
      BY <1>2 DEF PopInv, TypeOK, Content, Delivery
    <3>2. d # delivery /\ ~WasReturned(d) /\ FrameOf("deliver", d, 0, 0) \notin Pending
      BY <3>1 DEF SettledInv
    <3> QED BY <1>2, <1>9, <3>1, <3>2
  <2> QED BY <1>2, <2>1, <2>2 DEF SettledInv
<1>11. AcksInv'
  BY <1>3, <1>9 DEF AcksInv
<1>12. OneDelivery'
  BY <1>2, <1>4, <1>5 DEF OneDelivery
<1>13. ReturnedInOrder'
  <2> SUFFICES ASSUME NEW j \in DOMAIN returned', NEW k \in DOMAIN returned', j < k
               PROVE  returned'[j].deliver < returned'[k].deliver
    BY DEF ReturnedInOrder
  <2>1. j \in DOMAIN returned
    <3>1. j \in 1 .. n /\ k \in 1 .. n
      BY <1>4
    <3>2. n = Len(returned) + 1
      BY DEF n
    <3> QED BY <1>1, <3>1, <3>2
  <2>2. CASE k \in DOMAIN returned
    BY <1>4, <2>1, <2>2 DEF ReturnedInOrder
  <2>3. CASE k = n
    BY <1>2, <1>4, <1>7, <2>1, <2>3
  <2> QED BY <1>5, <2>2, <2>3
<1> QED BY <1>8, <1>10, <1>11, <1>12, <1>13

LEMMA PopOrderSteps ==
  ASSUME Channel = {OwnChannel}, OneChannelInv, popWithTimer
  PROVE  PopOrder'
<1> USE DEF OneChannelInv, PopOrder
<1>1. delivery \in Nat /\ bodySize \in Nat /\ receivedBytes \in Nat
  BY PopAssumption DEF PopInv, TypeOK, Content, Delivery
<1>2. CASE StartPop
  BY <1>2 DEF StartPop, broker, locals, ExpectInv, SettledInv, AcksInv, OneDelivery, ReturnedInOrder,
              Pending, InBox, InSend, WasReturned
<1>3. CASE PopSkips
  <2>1. PICK f : WaitFrame(f)
    BY <1>3 DEF PopSkips
  <2>2. /\ Pending' \subseteq Pending /\ at = "deliver"
        /\ UNCHANGED <<at, locals, returned, acks, gaveUp>>
    BY <1>3, <2>1, WaitFacts DEF PopInv, PopSkips
  <2> QED BY <2>2 DEF locals, ExpectInv, SettledInv, AcksInv, OneDelivery, ReturnedInOrder, WasReturned
<1>4. CASE PopMethod
  <2>1. PICK f : WaitFrame(f) /\ f.kind = "deliver" /\ delivery' = f.d
    BY <1>4 DEF PopMethod
  <2>2. /\ at' = "header" /\ at = "deliver" /\ parts' = {}
        /\ UNCHANGED <<returned, acks, gaveUp, contents>>
    BY <1>4, <2>1 DEF PopMethod, WaitFrame, broker, PopInv, LocalsTyped
  <2>3. f \in Pending /\ f # OtherFrame /\ f = FrameOf("deliver", f.d, 0, 0) /\ f.d \in Nat \ {0}
    BY <2>1, WaitedFrame
  <2>4. Pending' \subseteq Pending /\ \A g \in Pending : g = f \/ g \in Pending'
    BY <2>1, WaitFacts DEF PopInv
  <2>5. \A g \in Pending' : Earlier(f, g)
    BY <2>1, <2>3, TakesFirst
  <2>6. \A g \in Pending' : g.d \in Nat
    BY <2>4 DEF Pending, FrameRecord
  <2>7. ExpectInv'
    <3> DEFINE h == FrameOf("header", f.d, 0, contents[f.d].size)
    <3>1. h \in Pending
      BY <2>1, <2>3 DEF ClosedInv, NextIn, Method
    <3>2. h # f
      BY <2>1 DEF FrameOf
    <3>3. h \in Pending'
      BY <2>4, <3>1, <3>2
    <3>4. FrameOf("header", delivery', 0, contents'[delivery'].size) \in Pending'
      BY <2>1, <2>2, <3>3
    <3>5. ASSUME NEW g \in Pending'
          PROVE  g.d > f.d \/ (g.d = f.d /\ g.kind \notin Method)
      BY <2>1, <2>3, <2>5, <2>6 DEF Earlier, Method
    <3> QED BY <2>1, <2>2, <3>4, <3>5 DEF ExpectInv
  <2>8. SettledInv'
    <3>1. \A k \in DOMAIN returned : returned[k].deliver < f.d
      BY <2>3 DEF SettledInv
    <3>2. \A d \in gaveUp : d # f.d
      BY <2>3 DEF SettledInv
    <3> QED BY <2>1, <2>2, <2>4, <3>1, <3>2 DEF SettledInv, WasReturned
  <2> QED BY <2>2, <2>7, <2>8 DEF AcksInv, OneDelivery, ReturnedInOrder, WasReturned
<1>5. CASE PopHeader
  <2>1. PICK f : /\ WaitFrame(f) /\ f.kind = "header"
                 /\ IF f.size = 0 THEN PopReturns(f.d, <<>>, {})
                    ELSE /\ header' = f.d /\ bodySize' = f.size
                         /\ receivedBytes' = 0
                         /\ at' = "body"
                         /\ UNCHANGED <<delivery, parts, returned, acks, gaveUp>>
    BY <1>5 DEF PopHeader
  <2>2. at = "header" /\ delivery # 0 /\ parts = {}
    BY <1>5 DEF PopHeader, PopInv, LocalsTyped
  <2>3. f \in Pending /\ f # OtherFrame /\ f.size = contents[f.d].size /\ f.size \in Nat
    BY <2>1, WaitedFrame
  <2>4. f.d = delivery
    BY <2>1, <2>2, <2>3, TakesWhatItExpects DEF FrameOf
  <2>5. Pending' \subseteq Pending /\ \A g \in Pending : g = f \/ g \in Pending'
    BY <2>1, WaitFacts DEF PopInv
  <2>6. \A g \in Pending' : Earlier(f, g)
    BY <2>1, <2>3, TakesFirst
  <2>7. ASSUME NEW g \in Pending'
        PROVE  /\ g.d \in Nat /\ g.at \in Nat
               /\ g.d > delivery \/ (g.d = delivery /\ g.kind = "body" /\ g.at < f.size)
    <3>1. g \in FrameRecord /\ ValidFrame(g)
      BY <2>5, PendingFrame
    <3>2. /\ g.d \in Nat /\ g.at \in Nat
          /\ g.kind = "body" => g.at < contents[g.d].size
      BY <3>1, ValidFrameFacts DEF PopInv
    <3> QED BY <1>1, <2>1, <2>3, <2>4, <2>6, <3>2 DEF Earlier, Method
  <2>8. CASE f.size = 0
    <3>1. \A g \in Pending' : g.d > delivery
      BY <2>7, <2>8
    <3>2. PopReturns(f.d, <<>>, {})
      BY <2>1, <2>8
    <3> QED BY <2>2, <2>4, <2>5, <3>1, <3>2, ReturnsInOrder
  <2>9. CASE f.size # 0
    <3>1. /\ header' = delivery /\ bodySize' = f.size /\ receivedBytes' = 0 /\ at' = "body"
          /\ UNCHANGED <<delivery, parts, returned, acks, gaveUp, contents>>
      BY <2>1, <2>4, <2>9 DEF WaitFrame, broker
    <3>2. BodyOf(delivery, f.size, 0) \in Pending'
      <4>1. BodyOf(delivery, f.size, 0) \in Pending
        BY <2>1, <2>3, <2>4, <2>9 DEF ClosedInv, NextIn
      <4>2. BodyOf(delivery, f.size, 0) # f
        BY <2>1 DEF BodyOf, FrameOf
      <4> QED BY <2>5, <4>1, <4>2
    <3>3. ExpectInv'
      <4>1. f.size = contents'[delivery'].size
        BY <2>3, <2>4, <3>1
      <4>2. \A g \in Pending' : g.d > delivery \/ (g.d = delivery /\ g.kind = "body" /\ g.at >= 0)
        BY <2>7
      <4> QED BY <2>2, <3>1, <3>2, <4>1, <4>2 DEF ExpectInv
    <3>4. SettledInv'
      BY <2>5, <3>1 DEF SettledInv, WasReturned
    <3> QED BY <3>1, <3>3, <3>4 DEF AcksInv, OneDelivery, ReturnedInOrder, WasReturned
  <2> QED BY <2>8, <2>9
<1>6. CASE PopBody
  <2>1. PICK f : /\ WaitFrame(f) /\ f.kind = "body"
                 /\ IF receivedBytes + f.size >= bodySize
                    THEN PopReturns(header, Copied(f), parts \union {f.d})
                    ELSE /\ receivedBytes' = receivedBytes + f.size
                         /\ parts' = parts \union {f.d}
                         /\ UNCHANGED <<at, delivery, header, bodySize, returned, acks, gaveUp>>
    BY <1>6 DEF PopBody
  <2>2. /\ at = "body" /\ delivery # 0 /\ receivedBytes < bodySize
        /\ header = delivery /\ parts \subseteq {delivery} /\ bodySize = contents[delivery].size
    <3>1. at = "body"
      BY <1>6 DEF PopBody
    <3>2. receivedBytes \in 0 .. bodySize - 1
      BY <3>1 DEF PopInv, TypeOK
    <3>3. receivedBytes < bodySize
      BY <1>1, <3>2
    <3> QED BY <3>1, <3>3 DEF PopInv, LocalsTyped, ExpectInv
  <2>3. f \in Pending /\ f # OtherFrame /\ f.size \in Nat
    BY <2>1, WaitedFrame
  <2>4. f = BodyOf(delivery, bodySize, receivedBytes)
    BY <2>1, <2>2, <2>3, TakesWhatItExpects
  <2>5. /\ f.d = delivery /\ f.at = receivedBytes
        /\ f.size = Fragment \/ receivedBytes + f.size = bodySize
    BY <1>1, <2>2, <2>4, BodySizeIsPositive
  <2>6. Pending' \subseteq Pending /\ \A g \in Pending : g = f \/ g \in Pending'
    BY <2>1, WaitFacts DEF PopInv
  <2>7. \A g \in Pending' : Earlier(f, g)
    BY <2>1, <2>3, TakesFirst
  <2>8. ASSUME NEW g \in Pending'
        PROVE  /\ g.d \in Nat /\ g.at \in Nat
               /\ \/ g.d > delivery
                  \/ /\ g.d = delivery /\ g.kind = "body"
                     /\ g.at >= receivedBytes + f.size /\ g.at < bodySize
    <3>1. g \in FrameRecord /\ ValidFrame(g)
      BY <2>6, PendingFrame
    <3>2. /\ g.d \in Nat /\ g.at \in Nat
          /\ g.kind = "body" => g.at < contents[g.d].size
      BY <3>1, ValidFrameFacts DEF PopInv
    <3> QED BY <1>1, <2>1, <2>2, <2>3, <2>5, <2>7, <3>2 DEF Earlier, Method
  <2>9. CASE receivedBytes + f.size >= bodySize
    <3>1. \A g \in Pending' : g.d > delivery
      BY <1>1, <2>3, <2>8, <2>9
    <3>2. PopReturns(header, Copied(f), parts \union {f.d}) /\ parts \union {f.d} \subseteq {delivery}
      BY <2>1, <2>2, <2>5, <2>9
    <3> QED BY <2>2, <2>6, <3>1, <3>2, ReturnsInOrder
  <2>10. CASE ~(receivedBytes + f.size >= bodySize)
    <3>1. /\ receivedBytes' = receivedBytes + Fragment /\ parts' \subseteq {delivery}
          /\ receivedBytes + Fragment < bodySize /\ f.size = Fragment
          /\ UNCHANGED <<at, delivery, header, bodySize, returned, acks, gaveUp, contents>>
      <4>1. /\ receivedBytes' = receivedBytes + f.size /\ parts' = parts \union {f.d}
            /\ UNCHANGED <<at, delivery, header, bodySize, returned, acks, gaveUp>>
        BY <2>1, <2>10
      <4>2. UNCHANGED contents
        BY <2>1 DEF WaitFrame, broker
      <4>3. f.size = Fragment /\ receivedBytes + f.size < bodySize
        BY <1>1, <2>3, <2>5, <2>10
      <4>4. parts' \subseteq {delivery}
        BY <2>2, <2>5, <4>1
      <4> QED BY <4>1, <4>2, <4>3, <4>4
    <3>2. BodyOf(delivery, bodySize, receivedBytes + Fragment) \in Pending'
      <4>1. BodyOf(delivery, bodySize, receivedBytes + Fragment) \in Pending
        BY <2>1, <2>2, <2>3, <2>5, <3>1 DEF ClosedInv, NextIn
      <4>2. BodyOf(delivery, bodySize, receivedBytes + Fragment).at = receivedBytes + Fragment
        BY DEF BodyOf, FrameOf
      <4>3. receivedBytes + Fragment # receivedBytes
        BY <1>1, FragmentIsPositive
      <4> QED BY <2>5, <2>6, <4>1, <4>2, <4>3
    <3>3. ExpectInv'
      <4>1. \A g \in Pending' :
              g.d > delivery \/ (g.d = delivery /\ g.kind = "body" /\ g.at >= receivedBytes + Fragment)
        BY <2>8, <3>1
      <4> QED BY <2>2, <3>1, <3>2, <4>1 DEF ExpectInv
    <3>4. SettledInv'
      BY <2>6, <3>1 DEF SettledInv, WasReturned
    <3> QED BY <3>1, <3>3, <3>4 DEF AcksInv, OneDelivery, ReturnedInOrder, WasReturned
  <2> QED BY <2>9, <2>10
<1>7. CASE PopGivesUp \/ PopWaitFails
  <2>1. at \in {"deliver", "header", "body"} /\ Pending' \subseteq Pending
    BY <1>7, GivesUpItsOwn
  <2>2. /\ at' = "idle" /\ delivery' = 0 /\ UNCHANGED <<returned, acks>>
        /\ gaveUp' \subseteq gaveUp \union ({delivery} \ {0})
    BY <1>7, GivesUpItsOwn
  <2>3. ASSUME delivery # 0
        PROVE  ~WasReturned(delivery) /\ FrameOf("deliver", delivery, 0, 0) \notin Pending
    <3>1. at \in {"header", "body"}
      BY <2>1, <2>3 DEF PopInv, LocalsTyped
    <3>2. ~WasReturned(delivery)
      <4>1. \A k \in DOMAIN returned : returned[k].deliver < delivery
        BY <2>3 DEF SettledInv
      <4>2. ~(delivery < delivery)
        BY <1>1
      <4> QED BY <4>1, <4>2 DEF WasReturned
    <3>3. \A g \in Pending : g.d > delivery \/ (g.d = delivery /\ g.kind # "deliver")
      BY <3>1 DEF ExpectInv, Method
    <3>4. FrameOf("deliver", delivery, 0, 0).d = delivery
          /\ FrameOf("deliver", delivery, 0, 0).kind = "deliver"
      BY DEF FrameOf
    <3> QED BY <1>1, <3>2, <3>3, <3>4
  <2>6. 0 \notin gaveUp
    BY DEF PopInv, TypeOK, Content, Delivery
  <2>4. SettledInv'
    <3>1. ASSUME NEW d \in gaveUp'
          PROVE  d # 0 /\ ~WasReturned(d) /\ FrameOf("deliver", d, 0, 0) \notin Pending
      <4>1. d \in gaveUp \/ (d = delivery /\ delivery # 0)
        BY <2>2
      <4> QED BY <2>3, <2>6, <4>1 DEF SettledInv
    <3> QED BY <2>1, <2>2, <3>1 DEF SettledInv, WasReturned
  <2>5. ExpectInv'
    BY <2>2 DEF ExpectInv
  <2> QED BY <2>2, <2>4, <2>5 DEF AcksInv, OneDelivery, ReturnedInOrder, WasReturned
<1> QED BY <1>2, <1>3, <1>4, <1>5, <1>6, <1>7 DEF popWithTimer

LEMMA PopOrderAround ==
  ASSUME Channel = {OwnChannel}, OneChannelInv, [Next]_vars, ~popWithTimer
  PROVE  PopOrder'
<1> USE DEF OneChannelInv, PopOrder
<1>1. CASE /\ Pending' = Pending
           /\ UNCHANGED <<contents, at, locals, returned, acks, gaveUp>>
  BY <1>1 DEF locals, ExpectInv, SettledInv, AcksInv, OneDelivery, ReturnedInOrder, WasReturned
<1>2. CASE RpcTakesReply
  BY <1>1, <1>2, RpcSteps DEF RpcTakesReply, broker
<1>3. CASE BrokerSendsOther
  BY <1>1, <1>3, SendOtherSteps DEF BrokerSendsOther
<1>4. ASSUME NEW ch \in Channel, BrokerSends(ch)
      PROVE  PopOrder'
  BY <1>1, <1>4, SendSteps DEF BrokerSends
<1>5. ASSUME NEW ch \in Channel, BrokerDelivers(ch)
      PROVE  PopOrder'
  <2>1. PICK d : d = Len(contents) + 1
    OBVIOUS
  <2>2. PICK c : c = contents'[d]
    OBVIOUS
  <2>9. PICK size : size = c.size
    OBVIOUS
  <2>3. /\ d \in Nat \ {0} /\ size \in Nat /\ c.kind \in Method /\ d \notin Content
        /\ \A e \in Content : e < d /\ contents'[e] = contents[e]
        /\ UNCHANGED <<at, locals, returned, acks, gaveUp>>
        /\ Pending \subseteq Pending'
        /\ \A g \in Pending' : g \in Pending \/ \E i \in DOMAIN FramesOf(d, c) : g = FramesOf(d, c)[i]
    BY <1>5, <2>1, <2>2, <2>9, DeliverSteps
  <2>4. ASSUME NEW g \in Pending'
        PROVE  g \in Pending \/ g.d = d
    <3>1. \A i \in DOMAIN FramesOf(d, c) : FramesOf(d, c)[i].d = d
      BY <2>3, <2>9, FramesOfAreParts
    <3> QED BY <2>3, <3>1
  <2>5. \A e \in Content : d > e
    BY <2>3 DEF Content
  <2>6. UNCHANGED <<delivery, header, bodySize, receivedBytes, parts>>
    BY <2>3 DEF locals
  <2>7. ExpectInv'
    <3>1. at \in {"header", "body"} => delivery \in Content
      BY DEF Delivery, PopInv, TypeOK, LocalsTyped
    <3> QED BY <2>3, <2>4, <2>5, <2>6, <3>1 DEF ExpectInv
  <2>8. SettledInv'
    <3>1. \A k \in DOMAIN returned : returned[k].deliver \in Content
      <4> DEFINE R == [deliver : Delivery, header : Content, parts : SUBSET Content, body : Seq(Byte)]
      <4>1. returned \in Seq(R)
        BY DEF PopInv, TypeOK
      <4>2. \A k \in DOMAIN returned : returned[k] \in R
        BY <4>1, LenProperties, ElementOfSeq
      <4> QED BY <4>2 DEF Delivery
    <3>2. \A k \in DOMAIN returned : \A f \in Pending' : returned[k].deliver < f.d
      BY <2>3, <2>4, <3>1 DEF SettledInv
    <3>3. ASSUME NEW e \in gaveUp
          PROVE  FrameOf("deliver", e, 0, 0) \notin Pending'
      <4>1. e \in Content /\ FrameOf("deliver", e, 0, 0) \notin Pending
        BY DEF Delivery, PopInv, TypeOK, SettledInv
      <4>2. FrameOf("deliver", e, 0, 0).d = e
        BY DEF FrameOf
      <4> QED BY <2>3, <2>4, <4>1, <4>2
    <3> QED BY <2>3, <2>6, <3>2, <3>3 DEF SettledInv, WasReturned
  <2> QED BY <2>3, <2>7, <2>8 DEF AcksInv, OneDelivery, ReturnedInOrder, WasReturned
<1>6. CASE UNCHANGED vars
  <2>1. Pending' = Pending
    BY <1>6 DEF vars, broker, Pending, InBox, InSend
  <2> QED BY <1>1, <1>6, <2>1 DEF vars, broker
<1> QED BY <1>2, <1>3, <1>4, <1>5, <1>6 DEF Next

LEMMA OneChannelInit == Init => OneChannelInv
<1> SUFFICES ASSUME Init PROVE OneChannelInv
  OBVIOUS
<1>1. PopInv /\ Pending = {}
  BY PopInit
<1>2. box = <<>> /\ Own = <<>> /\ returned = <<>> /\ gaveUp = {} /\ acks = {} /\ at = "idle"
  BY DEF Init, Own, Channel
<1>3. SortedInv /\ ClosedInv
  BY <1>1, <1>2 DEF SortedInv, ClosedInv
<1>4. PopOrder
  BY <1>1, <1>2 DEF PopOrder, ExpectInv, SettledInv, AcksInv, OneDelivery, ReturnedInOrder
<1> QED BY <1>1, <1>3, <1>4 DEF OneChannelInv

LEMMA OneChannelSteps ==
  ASSUME Channel = {OwnChannel}, OneChannelInv, [Next]_vars
  PROVE  OneChannelInv'
<1>1. PopInv'
  BY PopSteps DEF OneChannelInv
<1>2. SortedInv' /\ ClosedInv'
  BY OrderSteps DEF OneChannelInv
<1>3. PopOrder'
  BY PopOrderSteps, PopOrderAround
<1> QED BY <1>1, <1>2, <1>3 DEF OneChannelInv

LEMMA OneChannelInvariant ==
  ASSUME Channel = {OwnChannel}
  PROVE  Spec => []OneChannelInv
<1>1. Init => OneChannelInv
  BY OneChannelInit
<1>2. OneChannelInv /\ [Next]_vars => OneChannelInv'
  BY OneChannelSteps
<1> QED BY <1>1, <1>2, PTL DEF Spec

(* The method, the header and the body frames of a message belong to one   *)
(* delivery, as AMQPConsumer.m:100 has it, whenever no other channel of    *)
(* the connection carries deliveries or returned messages: for every       *)
(* frame_max and every size of body, with returns on the consumer's own    *)
(* channel and other frames in between, and after pops that gave up.       *)
THEOREM MessagesAreOneDelivery ==
  ASSUME Channel = {OwnChannel}
  PROVE  Spec => []OneDelivery
<1>1. OneChannelInv => OneDelivery
  BY DEF OneChannelInv, PopOrder
<1> QED BY <1>1, OneChannelInvariant, PTL

(* The messages of such a consumer come in the order of their deliveries,  *)
(* each one once.                                                          *)
THEOREM MessagesComeInOrder ==
  ASSUME Channel = {OwnChannel}
  PROVE  Spec => []ReturnedInOrder
<1>1. OneChannelInv => ReturnedInOrder
  BY DEF OneChannelInv, PopOrder
<1> QED BY <1>1, OneChannelInvariant, PTL

(* Such a consumer acknowledges what it returned, on the channel it was    *)
(* delivered on, and never what it gave up.                                *)
THEOREM AcksAreDeserved ==
  ASSUME Channel = {OwnChannel}
  PROVE  Spec => []AckedWasReturned
<1>1. OneChannelInv => AckedWasReturned
  <2> SUFFICES ASSUME OneChannelInv, NEW a \in acks
               PROVE  /\ contents[a.d].ch = a.ch
                      /\ a.d \notin gaveUp
                      /\ WasReturned(a.d)
    BY DEF AckedWasReturned, WasReturned
  <2>1. a.ch = OwnChannel /\ WasReturned(a.d) /\ a.d \in Delivery
    BY DEF OneChannelInv, PopOrder, AcksInv, PopInv, TypeOK
  <2>2. contents[a.d].ch \in Channel
    <3> DEFINE D == [kind : Method, ch : Channel, size : BodySize]
    <3>1. contents \in Seq(D)
      BY DEF OneChannelInv, PopInv, TypeOK
    <3>2. contents[a.d] \in D
      BY <2>1, <3>1, ElementOfSeq DEF Content, Delivery
    <3> QED BY <3>2
  <2>3. a.d \notin gaveUp
    BY <2>1 DEF OneChannelInv, PopOrder, SettledInv
  <2> QED BY <2>1, <2>2, <2>3, OnlyChannel
<1> QED BY <1>1, OneChannelInvariant, PTL

-----------------------------------------------------------------------------
(* The thread pops only while it runs, a looping thread that runs has      *)
(* tries left, and what it told its delegate after a cancellation ended    *)
(* the pop it was in.                                                      *)
ThreadTyped ==
  /\ isLoopMode \in BOOLEAN
  /\ up \in BOOLEAN /\ running \in BOOLEAN /\ cancelled \in BOOLEAN /\ lost \in BOOLEAN
  /\ countTry \in 0 .. Tries
  /\ told \in Seq(Delivery \union {0}) /\ toldAtCancel \in 0 .. Len(told)

LoopInv == isLoopMode /\ running => countTry > 0
SingleShotInv == ~isLoopMode => (running => told = <<>>) /\ Len(told) <= 1
CancelInv ==
  isLoopMode /\ cancelled => Len(told) <= toldAtCancel + (IF at = "idle" THEN 1 ELSE 0)

ThreadInv ==
  /\ PopInv /\ ThreadTyped
  /\ at # "idle" => running
  /\ LoopInv /\ SingleShotInv /\ CancelInv

LossInv == IsFiniteSet(gaveUp) /\ LossesCostTries

LEMMA ThreadInitial == ThreadInit => ThreadInv
<1> SUFFICES ASSUME ThreadInit PROVE ThreadInv
  OBVIOUS
<1>1. PopInv /\ at = "idle"
  BY PopInit DEF ThreadInit, Init
<1>2. told = <<>> /\ told \in Seq(Delivery \union {0}) /\ Len(told) = 0
  BY DEF ThreadInit
<1>3. toldAtCancel \in 0 .. Len(told) /\ countTry \in 0 .. Tries
  BY <1>2 DEF ThreadInit, Tries
<1>4. ThreadTyped
  BY <1>2, <1>3 DEF ThreadInit, ThreadTyped
<1>5. LoopInv /\ SingleShotInv /\ CancelInv
  BY <1>2 DEF ThreadInit, LoopInv, SingleShotInv, CancelInv, Tries
<1> QED BY <1>1, <1>4, <1>5 DEF ThreadInit, ThreadInv

LEMMA DeliveriesGrow ==
  ASSUME PopInv, [Next]_vars
  PROVE  Delivery \subseteq Delivery'
<1>1. CASE UNCHANGED contents
  BY <1>1 DEF Content, Delivery
<1>2. ASSUME NEW ch \in Channel, BrokerDelivers(ch)
      PROVE  Delivery \subseteq Delivery'
  <2> QED BY <1>2, DeliverSteps
<1> QED BY <1>1, <1>2
        DEF Next, popWithTimer, StartPop, PopSkips, PopMethod, PopHeader, PopBody, PopGivesUp,
            PopWaitFails, WaitFrame, RpcTakesReply, BrokerSends, BrokerSendsOther, vars, broker

LEMMA ToldGrows ==
  ASSUME PopInv, ThreadTyped, [Next]_vars, NEW d \in Delivery \union {0}
  PROVE  /\ told \in Seq((Delivery \union {0})')
         /\ Append(told, d) \in Seq((Delivery \union {0})')
         /\ Len(told) \in Nat /\ Len(Append(told, d)) = Len(told) + 1
<1>1. Delivery \union {0} \subseteq (Delivery \union {0})'
  BY DeliveriesGrow
<1>2. told \in Seq(Delivery \union {0})
  BY DEF ThreadTyped
<1> DEFINE A == Delivery \union {0}
           B == (Delivery \union {0})'
<1>3. A \subseteq B /\ told \in Seq(A) /\ d \in A
  BY <1>1, <1>2
<1> HIDE DEF A, B
<1>4. told \in Seq(B) /\ d \in B
  BY <1>3, SeqMonotonic
<1>5. Append(told, d) \in Seq(B) /\ Len(told) \in Nat /\ Len(Append(told, d)) = Len(told) + 1
  BY <1>4, AppendProperties, LenProperties
<1> QED BY <1>4, <1>5 DEF B

LEMMA PopStepIsBusy == PopStep => at # "idle"
BY DEF PopStep, PopSkips, PopMethod, PopHeader, PopBody, PopGivesUp, PopWaitFails

LEMMA ThreadSteps == ThreadInv /\ [ThreadNext]_threadVars => ThreadInv'
<1> SUFFICES ASSUME ThreadInv, [ThreadNext]_threadVars PROVE ThreadInv'
  OBVIOUS
<1> USE DEF ThreadInv
<1>1. [Next]_vars
  BY ThreadStepsPop
<1>2. PopInv'
  BY <1>1, PopSteps
<1>3. 0 \in Delivery \union {0} /\ delivery \in Delivery \union {0}
  BY DEF PopInv, TypeOK
<1>4. told \in Seq((Delivery \union {0})') /\ Len(told) \in Nat
  BY <1>1, <1>3, ToldGrows
<1>5. countTry \in Nat /\ toldAtCancel \in Nat
  BY <1>4 DEF ThreadTyped, Tries
<1>6. ASSUME UNCHANGED <<isLoopMode, running, countTry, told, lost, up, cancelled, toldAtCancel>>,
             at' = at \/ (at # "idle" /\ at' # "idle")
      PROVE  ThreadInv'
  BY <1>2, <1>4, <1>6 DEF ThreadTyped, LoopInv, SingleShotInv, CancelInv
<1>7. CASE Starts
  <2>1. /\ running /\ at = "idle" /\ (isLoopMode => ~cancelled)
        /\ UNCHANGED <<isLoopMode, running, countTry, told, lost, up, cancelled, toldAtCancel>>
    BY <1>7 DEF Starts, StartPop, thread
  <2> QED BY <1>2, <1>4, <2>1 DEF ThreadTyped, LoopInv, SingleShotInv, CancelInv
<1>8. CASE Pops
  <2>1. at # "idle" /\ at' # "idle"
    BY <1>8, PopStepIsBusy DEF Pops
  <2> QED BY <1>6, <1>8, <2>1 DEF Pops, thread
<1>9. CASE LoopGetsMessage
  <2>1. /\ isLoopMode /\ at # "idle" /\ at' = "idle" /\ told' = Append(told, delivery)
        /\ UNCHANGED <<up, isLoopMode, running, countTry, lost, cancelled, toldAtCancel>>
    BY <1>9, PopStepIsBusy DEF LoopGetsMessage
  <2>2. told' \in Seq((Delivery \union {0})') /\ Len(told') = Len(told) + 1
    BY <1>1, <1>3, <2>1, ToldGrows
  <2>3. toldAtCancel' \in 0 .. Len(told')
    BY <1>4, <2>1, <2>2 DEF ThreadTyped
  <2>4. CancelInv'
    BY <1>4, <1>5, <2>1, <2>2 DEF CancelInv
  <2> QED BY <1>2, <2>1, <2>2, <2>3, <2>4 DEF ThreadTyped, LoopInv, SingleShotInv
<1>10. CASE LoopGetsNil
  <2>1. /\ isLoopMode /\ at # "idle" /\ at' = "idle"
        /\ countTry' = countTry - 1 /\ lost' = (countTry' = 0) /\ running' = (countTry' # 0)
        /\ UNCHANGED <<up, isLoopMode, told, cancelled, toldAtCancel>>
    BY <1>10, PopStepIsBusy DEF LoopGetsNil
  <2>2. countTry > 0
    BY <2>1 DEF LoopInv
  <2>3. countTry' \in 0 .. Tries /\ (countTry' # 0 => countTry' > 0)
    BY <1>5, <2>1, <2>2 DEF ThreadTyped, Tries
  <2>4. CancelInv'
    BY <1>4, <1>5, <2>1 DEF CancelInv
  <2>5. lost' \in BOOLEAN /\ running' \in BOOLEAN /\ LoopInv'
    BY <2>1, <2>3 DEF LoopInv
  <2> QED BY <1>2, <1>4, <2>1, <2>3, <2>4, <2>5 DEF ThreadTyped, SingleShotInv
<1>11. CASE EndsCancelled
  <2>1. /\ at = "idle" /\ at' = at /\ running' = FALSE
        /\ UNCHANGED <<up, isLoopMode, countTry, told, lost, cancelled, toldAtCancel>>
    BY <1>11 DEF EndsCancelled, vars
  <2> QED BY <1>2, <1>4, <2>1 DEF ThreadTyped, LoopInv, SingleShotInv, CancelInv
<1>12. CASE SingleShot
  <2>1. PICK d \in Delivery \union {0} : told' = Append(told, d)
    BY <1>3, <1>12 DEF SingleShot
  <2>2. /\ ~isLoopMode /\ at # "idle" /\ at' = "idle" /\ running' = FALSE
        /\ UNCHANGED <<up, isLoopMode, countTry, lost, cancelled, toldAtCancel>>
    BY <1>12, PopStepIsBusy DEF SingleShot
  <2>3. told' \in Seq((Delivery \union {0})') /\ Len(told') = Len(told) + 1
    BY <1>1, <2>1, ToldGrows
  <2>4. told = <<>>
    BY <2>2 DEF SingleShotInv
  <2>5. Len(told') = 1
    BY <2>3, <2>4
  <2>6. toldAtCancel' \in 0 .. Len(told')
    BY <1>4, <2>2, <2>3 DEF ThreadTyped
  <2>7. ThreadTyped'
    BY <2>2, <2>3, <2>6 DEF ThreadTyped
  <2>8. (LoopInv /\ SingleShotInv /\ CancelInv)'
    BY <2>2, <2>5 DEF LoopInv, SingleShotInv, CancelInv
  <2> QED BY <1>2, <2>2, <2>7, <2>8
<1>13. CASE Cancel
  <2>1. /\ cancelled' = TRUE /\ toldAtCancel' = Len(told) /\ at' = at
        /\ UNCHANGED <<up, isLoopMode, running, countTry, told, lost>>
    BY <1>13 DEF Cancel, thread, vars
  <2>2. toldAtCancel' \in 0 .. Len(told')
    BY <1>4, <2>1
  <2>3. CancelInv'
    BY <1>4, <2>1 DEF CancelInv
  <2> QED BY <1>2, <1>4, <2>1, <2>2, <2>3 DEF ThreadTyped, LoopInv, SingleShotInv
<1>14. CASE ConnectionFails
  <2>1. /\ up' = FALSE /\ at' = at
        /\ UNCHANGED <<isLoopMode, running, countTry, told, lost, cancelled, toldAtCancel>>
    BY <1>14 DEF ConnectionFails, thread, vars
  <2> QED BY <1>2, <1>4, <2>1 DEF ThreadTyped, LoopInv, SingleShotInv, CancelInv
<1>15. CASE Surroundings
  <2>1. at' = at
    BY <1>15 DEF Surroundings, BrokerDelivers, BrokerSends, BrokerSendsOther, RpcTakesReply
  <2> QED BY <1>6, <1>15, <2>1 DEF Surroundings, thread
<1>16. CASE UNCHANGED threadVars
  BY <1>6, <1>16 DEF threadVars, vars, thread
<1> QED BY <1>7, <1>8, <1>9, <1>10, <1>11, <1>12, <1>13, <1>14, <1>15, <1>16 DEF ThreadNext, ThreadRuns

LEMMA ThreadInvariant == ThreadSpec => []ThreadInv
BY ThreadInitial, ThreadSteps, PTL DEF ThreadSpec

(* The thread and the pop it runs keep their variables in their types.     *)
THEOREM ThreadTypes == ThreadSpec => []ThreadTypeOK
<1>1. ThreadInv => ThreadTypeOK
  BY DEF ThreadInv, ThreadTyped, PopInv, ThreadTypeOK
<1> QED BY <1>1, ThreadInvariant, PTL

(* A thread that is cancelled hands over at most the message it was        *)
(* popping, in either mode and whatever frames arrive.                     *)
THEOREM CancelStopsTheThread == ThreadSpec => []AtMostOneAfterCancel
<1>1. ThreadInv => AtMostOneAfterCancel
  <2> SUFFICES ASSUME ThreadInv, cancelled PROVE Len(told) <= toldAtCancel + 1
    BY DEF AtMostOneAfterCancel
  <2>1. Len(told) \in Nat /\ toldAtCancel \in Nat
    BY LenProperties DEF ThreadInv, ThreadTyped
  <2> QED BY <2>1 DEF ThreadInv, ThreadTyped, SingleShotInv, CancelInv
<1> QED BY <1>1, ThreadInvariant, PTL

(* What the steps of a pop give up.                                        *)
LEMMA PopStepGivesUp ==
  ASSUME Channel = {OwnChannel}, OneChannelInv, PopStep
  PROVE  /\ gaveUp' \subseteq gaveUp \union {delivery}
         /\ gaveUp' # gaveUp => at' = "idle" /\ ~GotMessage
<1>1. CASE PopGivesUp \/ PopWaitFails
  <2>1. gaveUp' \subseteq gaveUp \union {delivery} /\ at' = "idle" /\ returned' = returned
    BY <1>1, GivesUpItsOwn
  <2>2. Len(returned) \in Nat
    BY LenProperties DEF OneChannelInv, PopInv, TypeOK
  <2> QED BY <2>1, <2>2 DEF GotMessage
<1>2. CASE PopSkips \/ PopMethod \/ PopHeader \/ PopBody
  BY <1>2 DEF PopSkips, PopMethod, PopHeader, PopBody, PopReturns
<1> QED BY <1>1, <1>2 DEF PopStep

LEMMA LossSteps ==
  ASSUME Channel = {OwnChannel}, OneChannelInv, ThreadInv, LossInv, [ThreadNext]_threadVars
  PROVE  LossInv'
<1> USE DEF LossInv
<1>1. CASE gaveUp' = gaveUp /\ isLoopMode' = isLoopMode /\ countTry' = countTry
  BY <1>1 DEF LossesCostTries
<1>2. CASE LoopGetsNil
  <2>1. isLoopMode' = isLoopMode /\ isLoopMode /\ countTry' = countTry - 1 /\ PopStep
    BY <1>2 DEF LoopGetsNil
  <2>2. gaveUp' \subseteq gaveUp \union {delivery}
    BY <2>1, PopStepGivesUp
  <2>3. /\ IsFiniteSet(gaveUp \union {delivery})
        /\ Cardinality(gaveUp) \in Nat
        /\ Cardinality(gaveUp \union {delivery}) <= Cardinality(gaveUp) + 1
        /\ Cardinality(gaveUp \union {delivery}) \in Nat
    BY FS_AddElement, FS_CardinalityType
  <2>4. IsFiniteSet(gaveUp') /\ Cardinality(gaveUp') <= Cardinality(gaveUp \union {delivery})
        /\ Cardinality(gaveUp') \in Nat
    BY <2>2, <2>3, FS_Subset, FS_CardinalityType
  <2>5. Cardinality(gaveUp) <= Tries - countTry /\ countTry \in Nat
    BY <2>1 DEF LossesCostTries, ThreadInv, ThreadTyped
  <2>6. Cardinality(gaveUp') <= Tries - countTry'
    BY <2>1, <2>3, <2>4, <2>5 DEF Tries
  <2> QED BY <2>1, <2>4, <2>6 DEF LossesCostTries
<1>3. CASE LoopGetsMessage \/ Pops
  <2>1. PopStep /\ (at' # "idle" \/ GotMessage) /\ isLoopMode' = isLoopMode /\ countTry' = countTry
    BY <1>3 DEF LoopGetsMessage, Pops, thread
  <2> QED BY <1>1, <2>1, PopStepGivesUp
<1>4. CASE SingleShot
  <2>1. PopStep /\ ~isLoopMode /\ isLoopMode' = isLoopMode
    BY <1>4 DEF SingleShot
  <2>2. gaveUp' \subseteq gaveUp \union {delivery}
    BY <2>1, PopStepGivesUp
  <2>3. IsFiniteSet(gaveUp')
    BY <2>2, FS_AddElement, FS_Subset
  <2> QED BY <2>1, <2>3 DEF LossesCostTries
<1>5. CASE Starts \/ EndsCancelled \/ Cancel \/ ConnectionFails \/ Surroundings \/ UNCHANGED threadVars
  BY <1>1, <1>5 DEF Starts, StartPop, EndsCancelled, Cancel, ConnectionFails, Surroundings, RpcTakesReply,
                    BrokerDelivers, BrokerSends, BrokerSendsOther, threadVars, vars, thread
<1> QED BY <1>2, <1>3, <1>4, <1>5 DEF ThreadNext, ThreadRuns

(* A looping thread, where no other channel of the connection carries      *)
(* contents, loses at most one message for each of its tries.              *)
THEOREM TriesBoundTheLosses ==
  ASSUME Channel = {OwnChannel}
  PROVE  ThreadSpec => []LossesCostTries
<1>1. ThreadInit => OneChannelInv /\ ThreadInv /\ LossInv
  <2> SUFFICES ASSUME ThreadInit PROVE LossInv
    BY ThreadInitial, OneChannelInit DEF ThreadInit
  <2>1. gaveUp = {} /\ countTry = Tries
    BY DEF ThreadInit, Init
  <2> QED BY <2>1, FS_EmptySet DEF LossInv, LossesCostTries, Tries
<1>2. OneChannelInv /\ ThreadInv /\ LossInv /\ [ThreadNext]_threadVars
        => (OneChannelInv /\ ThreadInv /\ LossInv)'
  BY ThreadSteps, OneChannelSteps, LossSteps, ThreadStepsPop
<1>3. LossInv => LossesCostTries
  BY DEF LossInv
<1> QED BY <1>1, <1>2, <1>3, PTL DEF ThreadSpec
=============================================================================
