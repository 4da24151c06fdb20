---------------------------- MODULE AmqpPoolProofs ----------------------------
(***************************************************************************)
(* The pool is sound for every page size, word size and request size, also *)
(* when the C heap runs out: allocations that are alive never overlap, lie *)
(* in blocks that were not freed, and no block is freed twice.             *)
(***************************************************************************)
EXTENDS AmqpPool, SequenceLemmas, TLAPS

(* Pages from next_page on wait to be used again: nothing alive is in      *)
(* them.  Those before it all hold something.                              *)
PagesInv ==
  /\ \A i \in DOMAIN pages : i > next_page => \A r \in live : r.block # pages[i]
  /\ \A i \in DOMAIN pages : i <= next_page => \E r \in live : r.block = pages[i]

(* The page being carved is nobody else's, and what is carved of it lies   *)
(* below alloc_used.                                                       *)
CarvedInv ==
  alloc_block # NULL =>
    /\ alloc_block \in heap
    /\ alloc_block \notin Blocks(large_blocks)
    /\ \A i \in DOMAIN pages : i > next_page => pages[i] # alloc_block
    /\ \A r \in live : r.block = alloc_block => r.to <= alloc_used

PoolInv ==
  TypeOK /\ NoOverlap /\ LiveInHeap /\ FreedOnce /\ PagesInv /\ CarvedInv

-----------------------------------------------------------------------------
(* Rounding keeps a size a size.                                           *)
LEMMA RoundUpIsNat == \A amount \in Amount : RoundUp(amount) \in Nat
<1> SUFFICES ASSUME NEW amount \in Amount PROVE RoundUp(amount) \in Nat
  OBVIOUS
<1> DEFINE q == (amount + Word - 1) \div Word
<1>1. amount + Word - 1 \in Nat /\ Word \in Nat \ {0}
  BY PoolAssumption
<1>2. \A a \in Nat, w \in Nat \ {0} : a \div w \in Nat
  OBVIOUS
<1>3. q \in Nat
  BY <1>1, <1>2
<1>4. \A a, b \in Nat : a * b \in Nat
  OBVIOUS
<1> QED BY <1>1, <1>3, <1>4 DEF RoundUp

(* A list of blocks with one more.                                         *)
LEMMA BlocksAppend ==
  ASSUME NEW list \in Seq(BlockId), NEW b \in BlockId
  PROVE  /\ Append(list, b) \in Seq(BlockId)
         /\ Blocks(Append(list, b)) = Blocks(list) \union {b}
         /\ DOMAIN Append(list, b) = 1 .. Len(list) + 1 /\ Len(Append(list, b)) = Len(list) + 1
         /\ Append(list, b)[Len(list) + 1] = b
         /\ \A i \in DOMAIN list : i \in DOMAIN Append(list, b) /\ Append(list, b)[i] = list[i]
<1>1. /\ Append(list, b) \in Seq(BlockId) /\ Len(list) \in Nat /\ DOMAIN list = 1 .. Len(list)
      /\ DOMAIN Append(list, b) = 1 .. Len(list) + 1 /\ Len(Append(list, b)) = Len(list) + 1
      /\ Append(list, b)[Len(list) + 1] = b
      /\ \A i \in 1 .. Len(list) : Append(list, b)[i] = list[i]
  OBVIOUS
<1>2. \A i \in DOMAIN Append(list, b) : i \in DOMAIN list \/ i = Len(list) + 1
  BY <1>1
<1>3. \A i \in DOMAIN list : i \in DOMAIN Append(list, b)
  BY <1>1
<1>4. Len(list) + 1 \in DOMAIN Append(list, b)
  BY <1>1
<1>5. Blocks(Append(list, b)) \subseteq Blocks(list) \union {b}
  BY <1>1, <1>2 DEF Blocks
<1>6. Blocks(list) \union {b} \subseteq Blocks(Append(list, b))
  BY <1>1, <1>3, <1>4 DEF Blocks
<1> QED BY <1>1, <1>3, <1>5, <1>6

(* An empty pool satisfies the invariant.                                  *)
LEMMA PoolInit == Init => PoolInv
<1> SUFFICES ASSUME Init PROVE PoolInv
  OBVIOUS
<1>1. Blocks(pages) = {} /\ Blocks(large_blocks) = {}
  BY DEF Init, Blocks
<1>2. TypeOK
  BY PoolAssumption DEF Init, TypeOK, BlockId, NULL
<1> QED BY <1>1, <1>2
        DEF Init, PoolInv, NoOverlap, LiveInHeap, FreedOnce, PagesInv, CarvedInv, NULL

(* A block that calloc just returned is in no list and holds nothing.      *)
LEMMA FreshBlock ==
  ASSUME PoolInv, Calloc
  PROVE  /\ fresh \in BlockId /\ fresh' = fresh + 1 /\ heap' = heap \union {fresh}
         /\ fresh' \in BlockId /\ heap' \subseteq 1 .. fresh' - 1
         /\ fresh \notin heap /\ fresh \notin Blocks(pages) /\ fresh \notin Blocks(large_blocks)
         /\ \A r \in live : r.block # fresh
<1>1. /\ fresh \in BlockId /\ heap \subseteq 1 .. fresh - 1 /\ fresh' = fresh + 1
      /\ heap' = heap \union {fresh}
  BY DEF PoolInv, TypeOK, Calloc
<1>2. fresh \notin heap /\ fresh' \in BlockId /\ heap' \subseteq 1 .. fresh' - 1
  BY <1>1 DEF BlockId
<1> QED BY <1>1, <1>2 DEF PoolInv, FreedOnce, LiveInHeap

(* A region handed out above everything alive in its block overlaps none.  *)
LEMMA HandOutDisjoint ==
  ASSUME PoolInv, NEW b \in BlockId, NEW from \in Nat, NEW size \in Nat,
         HandOut(b, from, size),
         \A r \in live : r.block = b => r.to <= from
  PROVE  /\ NoOverlap'
         /\ live' \subseteq [block : BlockId, from : Nat, to : Nat]
         /\ \E r \in live' : r.block = b
         /\ \A r \in live' : r \in live \/ (r.block = b /\ r.to = from + size)
<1> DEFINE new == [block |-> b, from |-> from, to |-> from + size]
<1>1. live' = live \union {new} /\ NoOverlap /\ live \subseteq [block : BlockId, from : Nat, to : Nat]
  BY DEF HandOut, Region, PoolInv, TypeOK
<1>2. new \in [block : BlockId, from : Nat, to : Nat] /\ new.block = b /\ new.to = from + size
      /\ new.from = from
  OBVIOUS
<1> HIDE DEF new
<1>3. NoOverlap'
  <2> SUFFICES ASSUME NEW r \in live', NEW t \in live', r # t, r.block = t.block
               PROVE  r.to <= t.from \/ t.to <= r.from
    BY DEF NoOverlap
  <2>1. CASE r \in live /\ t \in live
    BY <1>1, <2>1 DEF NoOverlap
  <2>2. CASE r = new /\ t \in live
    BY <1>2, <2>2
  <2>3. CASE r \in live /\ t = new
    BY <1>2, <2>3
  <2> QED BY <1>1, <2>1, <2>2, <2>3
<1> QED BY <1>1, <1>2, <1>3

(* What the invariant says, ready for use.                                 *)
LEMMA PoolFacts ==
  ASSUME PoolInv
  PROVE  /\ pages \in Seq(BlockId) /\ large_blocks \in Seq(BlockId)
         /\ Len(pages) \in Nat /\ DOMAIN pages = 1 .. Len(pages)
         /\ Len(large_blocks) \in Nat /\ DOMAIN large_blocks = 1 .. Len(large_blocks)
         /\ next_page \in Nat /\ next_page <= Len(pages)
         /\ alloc_used \in Nat /\ alloc_used <= pagesize /\ pagesize \in Nat
         /\ 0 <= pagesize
         /\ NULL \notin BlockId
         /\ alloc_block # NULL => alloc_block \in BlockId
  BY PoolAssumption DEF PoolInv, TypeOK, BlockId, NULL

(* A request larger than a page disturbs no page.                          *)
LEMMA LargeInv ==
  ASSUME PoolInv, NEW amount \in Amount, AllocLarge(amount)
  PROVE  PoolInv'
<1>0. /\ UNCHANGED <<pages, next_page, alloc_block, alloc_used>> /\ Calloc
  BY DEF AllocLarge
<1>1. /\ fresh \in BlockId /\ fresh' = fresh + 1 /\ heap' = heap \union {fresh}
      /\ fresh' \in BlockId /\ heap' \subseteq 1 .. fresh' - 1
      /\ fresh \notin heap /\ fresh \notin Blocks(pages) /\ fresh \notin Blocks(large_blocks)
      /\ \A r \in live : r.block # fresh
  BY <1>0, FreshBlock
<1>2. TypeOK /\ NoOverlap /\ LiveInHeap /\ FreedOnce /\ PagesInv /\ CarvedInv
  BY DEF PoolInv
<1>3. CASE UNCHANGED <<large_blocks, live>>
  <2>1. TypeOK'
    BY <1>0, <1>1, <1>2, <1>3 DEF TypeOK
  <2>2. FreedOnce' /\ LiveInHeap' /\ NoOverlap' /\ PagesInv' /\ CarvedInv'
    BY <1>0, <1>1, <1>2, <1>3 DEF FreedOnce, LiveInHeap, NoOverlap, PagesInv, CarvedInv, Blocks
  <2> QED BY <2>1, <2>2 DEF PoolInv
<1>4. CASE large_blocks' = Append(large_blocks, fresh) /\ HandOut(fresh, 0, RoundUp(amount))
  <2>1. /\ NoOverlap'
        /\ live' \subseteq [block : BlockId, from : Nat, to : Nat]
        /\ \A r \in live' : r \in live \/ r.block = fresh
    BY <1>1, <1>4, RoundUpIsNat, HandOutDisjoint
  <2>2. /\ large_blocks' \in Seq(BlockId)
        /\ Blocks(large_blocks') = Blocks(large_blocks) \union {fresh}
        /\ DOMAIN large_blocks' = 1 .. Len(large_blocks) + 1
        /\ large_blocks'[Len(large_blocks) + 1] = fresh
        /\ \A i \in DOMAIN large_blocks : large_blocks'[i] = large_blocks[i]
    BY <1>1, <1>4, PoolFacts, BlocksAppend
  <2>3. Blocks(pages') = Blocks(pages) /\ Blocks(large_blocks)' = Blocks(large_blocks')
    BY <1>0 DEF Blocks
  <2>4. TypeOK'
    BY <1>0, <1>1, <1>2, <2>1, <2>2 DEF TypeOK
  <2>5. live \subseteq live'
    BY <1>4 DEF HandOut
  <2>6. LiveInHeap'
    BY <1>0, <1>1, <1>2, <2>1, <2>2, <2>3 DEF LiveInHeap
  <2>7. FreedOnce'
    <3>1. \A i \in DOMAIN large_blocks' : i \in DOMAIN large_blocks \/ i = Len(large_blocks) + 1
      BY <2>2, PoolFacts
    <3>2. \A i \in DOMAIN large_blocks : large_blocks[i] # fresh
      BY <1>1 DEF Blocks
    <3>3. \A i, j \in DOMAIN large_blocks' : i # j => large_blocks'[i] # large_blocks'[j]
      BY <1>2, <2>2, <3>1, <3>2 DEF FreedOnce
    <3> QED BY <1>0, <1>1, <1>2, <2>2, <2>3, <3>3 DEF FreedOnce, Blocks
  <2>8. PagesInv'
    <3>1. \A i \in DOMAIN pages : pages[i] # fresh
      BY <1>1 DEF Blocks
    <3> QED BY <1>0, <1>2, <2>1, <2>5, <3>1 DEF PagesInv
  <2>9. CarvedInv'
    <3>1. alloc_block # NULL => alloc_block # fresh
      BY <1>1, <1>2 DEF CarvedInv
    <3> QED BY <1>0, <1>1, <1>2, <2>1, <2>2, <2>3, <3>1 DEF CarvedInv
  <2> QED BY <2>1, <2>4, <2>6, <2>7, <2>8, <2>9 DEF PoolInv
<1> QED BY <1>3, <1>4 DEF AllocLarge

(* Carving from the current page stays above what was carved of it before. *)
LEMMA InPageInv ==
  ASSUME PoolInv, NEW amount \in Amount, AllocInPage(amount)
  PROVE  PoolInv'
<1>0. /\ UNCHANGED <<pages, large_blocks, next_page, alloc_block, heap, fresh>>
      /\ alloc_block # NULL /\ alloc_used + RoundUp(amount) <= pagesize
      /\ HandOut(alloc_block, alloc_used, RoundUp(amount))
      /\ alloc_used' = alloc_used + RoundUp(amount)
      /\ RoundUp(amount) \in Nat
  BY RoundUpIsNat DEF AllocInPage, FitsInPage
<1>1. TypeOK /\ NoOverlap /\ LiveInHeap /\ FreedOnce /\ PagesInv /\ CarvedInv
  BY DEF PoolInv
<1>2. /\ NoOverlap'
      /\ live' \subseteq [block : BlockId, from : Nat, to : Nat]
      /\ \A r \in live' : r \in live \/ (r.block = alloc_block /\ r.to = alloc_used')
      /\ live \subseteq live'
  <2>1. \A r \in live : r.block = alloc_block => r.to <= alloc_used
    BY <1>0, <1>1 DEF CarvedInv
  <2>2. live \subseteq live'
    BY <1>0 DEF HandOut
  <2>3. alloc_block \in BlockId /\ alloc_used \in Nat
    BY <1>0, PoolFacts
  <2> QED BY <1>0, <2>1, <2>2, <2>3, HandOutDisjoint
<1>3. Blocks(pages)' = Blocks(pages) /\ Blocks(large_blocks)' = Blocks(large_blocks)
  BY <1>0 DEF Blocks
<1>4. TypeOK'
  <2>1. alloc_used' \in 0 .. pagesize
    BY <1>0, PoolFacts
  <2> QED BY <1>0, <1>1, <1>2, <2>1 DEF TypeOK
<1>5. LiveInHeap'
  BY <1>0, <1>1, <1>2, <1>3 DEF LiveInHeap, CarvedInv
<1>6. FreedOnce'
  BY <1>0, <1>1, <1>3 DEF FreedOnce
<1>7. PagesInv'
  BY <1>0, <1>1, <1>2 DEF PagesInv, CarvedInv
<1>8. CarvedInv'
  <2>1. \A r \in live' : r.block = alloc_block => r.to <= alloc_used'
    <3> SUFFICES ASSUME NEW r \in live', r.block = alloc_block PROVE r.to <= alloc_used'
      OBVIOUS
    <3>1. CASE r \in live
      <4>1. r.to <= alloc_used /\ r.to \in Nat
        BY <1>0, <1>1, <3>1 DEF CarvedInv, TypeOK
      <4> QED BY <1>0, <4>1, PoolFacts
    <3>2. CASE r.to = alloc_used'
      BY <1>0, <3>2, PoolFacts
    <3> QED BY <1>2, <3>1, <3>2
  <2> QED BY <1>0, <1>1, <1>3, <2>1 DEF CarvedInv
<1> QED BY <1>2, <1>4, <1>5, <1>6, <1>7, <1>8 DEF PoolInv

(* A new page is unknown to the lists and holds only what is asked for now.*)
LEMMA NewPageInv ==
  ASSUME PoolInv, NEW amount \in Amount, AllocNewPage(amount)
  PROVE  PoolInv'
<1>0. /\ Calloc /\ next_page >= Len(pages) /\ RoundUp(amount) <= pagesize
      /\ alloc_block' = fresh /\ pages' = Append(pages, fresh) /\ next_page' = Len(pages) + 1
      /\ HandOut(fresh, 0, RoundUp(amount)) /\ alloc_used' = RoundUp(amount)
      /\ UNCHANGED large_blocks /\ RoundUp(amount) \in Nat
  BY RoundUpIsNat DEF AllocNewPage, NeedsPage
<1>1. /\ fresh \in BlockId /\ fresh' = fresh + 1 /\ heap' = heap \union {fresh}
      /\ fresh' \in BlockId /\ heap' \subseteq 1 .. fresh' - 1
      /\ fresh \notin heap /\ fresh \notin Blocks(pages) /\ fresh \notin Blocks(large_blocks)
      /\ \A r \in live : r.block # fresh
  BY <1>0, FreshBlock
<1>2. TypeOK /\ NoOverlap /\ LiveInHeap /\ FreedOnce /\ PagesInv /\ CarvedInv
  BY DEF PoolInv
<1>3. /\ NoOverlap'
      /\ live' \subseteq [block : BlockId, from : Nat, to : Nat]
      /\ \E r \in live' : r.block = fresh
      /\ \A r \in live' : r \in live \/ (r.block = fresh /\ r.to = RoundUp(amount))
      /\ live \subseteq live'
  <2>1. live \subseteq live'
    BY <1>0 DEF HandOut
  <2>2. 0 + RoundUp(amount) = RoundUp(amount)
    BY <1>0
  <2> QED BY <1>0, <1>1, <2>1, <2>2, HandOutDisjoint
<1>4. /\ pages' \in Seq(BlockId)
      /\ Blocks(pages') = Blocks(pages) \union {fresh}
      /\ DOMAIN pages' = 1 .. Len(pages) + 1 /\ Len(pages') = Len(pages) + 1
      /\ pages'[Len(pages) + 1] = fresh
      /\ \A i \in DOMAIN pages : i \in DOMAIN pages' /\ pages'[i] = pages[i]
      /\ \A i \in DOMAIN pages' : i \in DOMAIN pages \/ i = Len(pages) + 1
  <2>1. /\ pages' \in Seq(BlockId)
        /\ Blocks(pages') = Blocks(pages) \union {fresh}
        /\ DOMAIN pages' = 1 .. Len(pages) + 1 /\ Len(pages') = Len(pages) + 1
        /\ pages'[Len(pages) + 1] = fresh
        /\ \A i \in DOMAIN pages : i \in DOMAIN pages' /\ pages'[i] = pages[i]
    BY <1>0, <1>1, PoolFacts, BlocksAppend
  <2> QED BY <2>1, PoolFacts
<1>5. Blocks(pages)' = Blocks(pages') /\ Blocks(large_blocks)' = Blocks(large_blocks)
  BY <1>0 DEF Blocks
<1>6. \A i \in DOMAIN pages : pages[i] # fresh
  BY <1>1 DEF Blocks
<1>7. TypeOK'
  <2>1. next_page' \in 0 .. Len(pages') /\ alloc_used' \in 0 .. pagesize
    BY <1>0, <1>4, PoolFacts
  <2> QED BY <1>0, <1>1, <1>2, <1>3, <1>4, <2>1 DEF TypeOK
<1>8. LiveInHeap'
  BY <1>0, <1>1, <1>2, <1>3, <1>5 DEF LiveInHeap
<1>9. FreedOnce'
  <2>1. \A i, j \in DOMAIN pages' : i # j => pages'[i] # pages'[j]
    BY <1>2, <1>4, <1>6 DEF FreedOnce
  <2> QED BY <1>0, <1>1, <1>2, <1>4, <1>5, <2>1 DEF FreedOnce
<1>10. PagesInv'
  <2>1. \A i \in DOMAIN pages' : ~(i > next_page')
    BY <1>0, <1>4, PoolFacts
  <2>2. \A i \in DOMAIN pages : i <= next_page
    BY <1>0, PoolFacts
  <2>3. \A i \in DOMAIN pages' : \E r \in live' : r.block = pages'[i]
    BY <1>2, <1>3, <1>4, <2>2 DEF PagesInv
  <2> QED BY <2>1, <2>3 DEF PagesInv
<1>11. CarvedInv'
  <2>1. \A i \in DOMAIN pages' : ~(i > next_page')
    BY <1>0, <1>4, PoolFacts
  <2>2. RoundUp(amount) <= RoundUp(amount)
    BY <1>0
  <2> QED BY <1>0, <1>1, <1>3, <1>5, <2>1, <2>2 DEF CarvedInv
<1> QED BY <1>3, <1>7, <1>8, <1>9, <1>10, <1>11 DEF PoolInv

(* When no page is to be had, no page is being carved.                     *)
LEMMA NoPageInv ==
  ASSUME PoolInv, NEW amount \in Amount, AllocNoPage(amount)
  PROVE  PoolInv'
<1>1. TypeOK /\ NoOverlap /\ LiveInHeap /\ FreedOnce /\ PagesInv
  BY DEF PoolInv
<1>2. /\ alloc_block' = NULL
      /\ UNCHANGED <<pages, large_blocks, next_page, alloc_used, heap, fresh, live>>
  BY DEF AllocNoPage
<1>3. TypeOK'
  BY <1>1, <1>2 DEF TypeOK
<1>4. NoOverlap' /\ LiveInHeap' /\ FreedOnce' /\ PagesInv' /\ CarvedInv'
  BY <1>1, <1>2 DEF NoOverlap, LiveInHeap, FreedOnce, PagesInv, CarvedInv, Blocks
<1> QED BY <1>3, <1>4 DEF PoolInv

(* A page that could not be recorded is carved all the same, above a stale alloc_used.*)
LEMMA NotRecordedInv ==
  ASSUME PoolInv, NEW amount \in Amount, AllocPageNotRecorded(amount)
  PROVE  PoolInv'
<1>0. /\ Calloc /\ alloc_block' = fresh
      /\ UNCHANGED <<pages, large_blocks, next_page, alloc_used, live>>
  BY DEF AllocPageNotRecorded
<1>1. /\ fresh \in BlockId /\ fresh' = fresh + 1 /\ heap' = heap \union {fresh}
      /\ fresh' \in BlockId /\ heap' \subseteq 1 .. fresh' - 1
      /\ fresh \notin heap /\ fresh \notin Blocks(pages) /\ fresh \notin Blocks(large_blocks)
      /\ \A r \in live : r.block # fresh
  BY <1>0, FreshBlock
<1>2. TypeOK /\ NoOverlap /\ LiveInHeap /\ FreedOnce /\ PagesInv
  BY DEF PoolInv
<1>3. TypeOK'
  BY <1>0, <1>1, <1>2 DEF TypeOK
<1>4. NoOverlap' /\ LiveInHeap' /\ FreedOnce' /\ PagesInv'
  BY <1>0, <1>1, <1>2 DEF NoOverlap, LiveInHeap, FreedOnce, PagesInv, Blocks
<1>5. CarvedInv'
  <2>1. \A i \in DOMAIN pages : pages[i] # fresh
    BY <1>1 DEF Blocks
  <2>2. Blocks(large_blocks)' = Blocks(large_blocks)
    BY <1>0 DEF Blocks
  <2> QED BY <1>0, <1>1, <2>1, <2>2 DEF CarvedInv
<1> QED BY <1>3, <1>4, <1>5 DEF PoolInv

(* A page kept by a recycling is free to be carved from its start.         *)
LEMMA OldPageInv ==
  ASSUME PoolInv, NEW amount \in Amount, AllocOldPage(amount)
  PROVE  PoolInv'
<1> DEFINE p == pages[next_page + 1]
<1>0. /\ next_page < Len(pages) /\ RoundUp(amount) <= pagesize
      /\ alloc_block' = p /\ next_page' = next_page + 1
      /\ HandOut(p, 0, RoundUp(amount)) /\ alloc_used' = RoundUp(amount)
      /\ UNCHANGED <<pages, large_blocks, heap, fresh>> /\ RoundUp(amount) \in Nat
  BY RoundUpIsNat DEF AllocOldPage, HandOut
<1>1. next_page + 1 \in DOMAIN pages /\ next_page + 1 > next_page /\ p \in BlockId
  BY <1>0, PoolFacts
<1>2. TypeOK /\ NoOverlap /\ LiveInHeap /\ FreedOnce /\ PagesInv
  BY DEF PoolInv
<1>3. p \in Blocks(pages)
  BY <1>1 DEF Blocks
<1> HIDE DEF p
<1>4. p \in heap /\ p \notin Blocks(large_blocks)
  BY <1>2, <1>3 DEF FreedOnce
<1>5. \A r \in live : r.block # p
  BY <1>1, <1>2 DEF PagesInv, p
<1>6. /\ NoOverlap'
      /\ live' \subseteq [block : BlockId, from : Nat, to : Nat]
      /\ \E r \in live' : r.block = p
      /\ \A r \in live' : r \in live \/ (r.block = p /\ r.to = RoundUp(amount))
      /\ live \subseteq live'
  <2>1. live \subseteq live'
    BY <1>0 DEF HandOut
  <2>2. 0 + RoundUp(amount) = RoundUp(amount)
    BY <1>0
  <2> QED BY <1>0, <1>1, <1>5, <2>1, <2>2, HandOutDisjoint
<1>7. Blocks(pages)' = Blocks(pages) /\ Blocks(large_blocks)' = Blocks(large_blocks)
  BY <1>0 DEF Blocks
<1>8. TypeOK'
  <2>1. next_page' \in 0 .. Len(pages') /\ alloc_used' \in 0 .. pagesize
    BY <1>0, PoolFacts
  <2> QED BY <1>0, <1>1, <1>2, <1>6, <2>1 DEF TypeOK
<1>9. LiveInHeap'
  BY <1>0, <1>2, <1>4, <1>6, <1>7 DEF LiveInHeap
<1>10. FreedOnce'
  BY <1>0, <1>2, <1>7 DEF FreedOnce
<1>11. \A i \in DOMAIN pages : i # next_page + 1 => pages[i] # p
  BY <1>1, <1>2 DEF FreedOnce, p
<1>12. \A i \in DOMAIN pages : i > next_page + 1 => i > next_page /\ i # next_page + 1
  BY PoolFacts
<1>13. \A i \in DOMAIN pages : i <= next_page + 1 => i <= next_page \/ i = next_page + 1
  BY PoolFacts
<1>14. PagesInv'
  <2>1. \A i \in DOMAIN pages : i > next_page + 1 => \A r \in live' : r.block # pages[i]
    BY <1>2, <1>6, <1>11, <1>12 DEF PagesInv
  <2>2. \A i \in DOMAIN pages : i <= next_page + 1 => \E r \in live' : r.block = pages[i]
    BY <1>2, <1>6, <1>13 DEF PagesInv, p
  <2> QED BY <1>0, <2>1, <2>2 DEF PagesInv
<1>15. CarvedInv'
  <2>1. RoundUp(amount) <= RoundUp(amount)
    BY <1>0
  <2> QED BY <1>0, <1>4, <1>5, <1>6, <1>7, <1>11, <1>12, <2>1 DEF CarvedInv
<1> QED BY <1>6, <1>8, <1>9, <1>10, <1>14, <1>15 DEF PoolInv

(* After recycling nothing is alive, so that any page may be used again.   *)
LEMMA RecycledInv ==
  ASSUME PoolInv, Recycled,
         \/ pages' = pages /\ heap' = heap \ Blocks(large_blocks)
         \/ pages' = <<>> /\ heap' = heap \ (Blocks(large_blocks) \union Blocks(pages))
  PROVE  PoolInv'
<1>1. /\ large_blocks' = <<>> /\ next_page' = 0 /\ alloc_block' = NULL /\ alloc_used' = 0
      /\ live' = {} /\ fresh' = fresh
  BY DEF Recycled
<1>2. TypeOK /\ FreedOnce
  BY DEF PoolInv
<1>3. Blocks(large_blocks)' = {}
  BY <1>1 DEF Blocks
<1>4. TypeOK'
  <2>1. 0 \in 0 .. pagesize /\ 0 \in 0 .. Len(pages) /\ 0 \in 0 .. Len(<<>>)
    BY PoolFacts
  <2>2. <<>> \in Seq(BlockId)
    OBVIOUS
  <2>3. heap' \subseteq heap
    OBVIOUS
  <2> QED BY <1>1, <1>2, <2>1, <2>2, <2>3 DEF TypeOK
<1>5. FreedOnce'
  <2>1. CASE pages' = pages /\ heap' = heap \ Blocks(large_blocks)
    BY <1>1, <1>2, <1>3, <2>1 DEF FreedOnce, Blocks
  <2>2. CASE pages' = <<>>
    BY <1>1, <1>3, <2>2 DEF FreedOnce, Blocks
  <2> QED BY <2>1, <2>2
<1>6. NoOverlap' /\ LiveInHeap' /\ CarvedInv'
  BY <1>1 DEF NoOverlap, LiveInHeap, CarvedInv
<1>7. PagesInv'
  <2>1. \A i \in DOMAIN pages' : ~(i <= 0)
    BY PoolFacts
  <2> QED BY <1>1, <2>1 DEF PagesInv
<1> QED BY <1>4, <1>5, <1>6, <1>7 DEF PoolInv

(* Every operation of the pool keeps the invariant.                        *)
LEMMA PoolStep == PoolInv /\ [Next]_vars => PoolInv'
<1> SUFFICES ASSUME PoolInv, [Next]_vars PROVE PoolInv'
  OBVIOUS
<1>1. CASE UNCHANGED vars
  <2>1. TypeOK'
    BY <1>1 DEF vars, PoolInv, TypeOK
  <2>2. NoOverlap' /\ LiveInHeap'
    BY <1>1 DEF vars, PoolInv, NoOverlap, LiveInHeap, Blocks
  <2>3. FreedOnce'
    BY <1>1 DEF vars, PoolInv, FreedOnce, Blocks
  <2>4. PagesInv'
    BY <1>1 DEF vars, PoolInv, PagesInv, Blocks
  <2>5. CarvedInv'
    BY <1>1 DEF vars, PoolInv, CarvedInv, Blocks
  <2> QED BY <2>1, <2>2, <2>3, <2>4, <2>5 DEF PoolInv
<1>2. ASSUME NEW amount \in Amount, amqp_pool_alloc(amount) PROVE PoolInv'
  BY <1>2, LargeInv, InPageInv, NewPageInv, NoPageInv, NotRecordedInv, OldPageInv
     DEF amqp_pool_alloc
<1>3. CASE recycle_amqp_pool
  BY <1>3, RecycledInv DEF recycle_amqp_pool
<1>4. CASE empty_amqp_pool
  BY <1>4, RecycledInv DEF empty_amqp_pool
<1> QED BY <1>1, <1>2, <1>3, <1>4 DEF Next

-----------------------------------------------------------------------------
(* The pool never uses more pages than it recorded, nor more of a page     *)
(* than there is (amqp_mem.c:80-123).                                      *)
THEOREM PoolTyped == Spec => []TypeOK
<1>1. PoolInv => TypeOK
  BY DEF PoolInv
<1> QED BY <1>1, PoolInit, PoolStep, PTL DEF Spec

(* Allocations that are alive lie in memory that was not freed, and never  *)
(* share any of it (amqp_mem.c:80-123).                                    *)
THEOREM PoolMemoryIsOwn == Spec => []MemoryIsOwn
<1>1. PoolInv => MemoryIsOwn
  BY DEF PoolInv, MemoryIsOwn
<1> QED BY <1>1, PoolInit, PoolStep, PTL DEF Spec

(* No block is in the pool's lists twice.                                  *)
THEOREM BlocksFreedOnce == Spec => []FreedOnce
<1>1. PoolInv => FreedOnce
  BY DEF PoolInv
<1> QED BY <1>1, PoolInit, PoolStep, PTL DEF Spec

(* A pool takes another page only when each of its pages is in use.        *)
THEOREM PoolGrowsOnlyWhenFull == Spec => GrowsOnlyWhenFull
<1> DEFINE Grows == Len(pages') > Len(pages)
           Full == \A p \in Blocks(pages) : \E r \in live : r.block = p
<1>1. PoolInv /\ [Next]_vars => [Grows => Full]_vars
  <2> SUFFICES ASSUME PoolInv, Next, Grows PROVE Full
    OBVIOUS
  <2>1. ASSUME pages' = pages PROVE FALSE
    BY <2>1, PoolFacts
  <2>2. ASSUME pages' = <<>> PROVE FALSE
    <3>1. Len(pages') = 0
      BY <2>2
    <3> QED BY <3>1, PoolFacts
  <2>3. PICK amount \in Amount : AllocNewPage(amount)
    BY <2>1, <2>2 DEF Next, amqp_pool_alloc, AllocLarge, AllocInPage, AllocNoPage,
                      AllocPageNotRecorded, AllocOldPage, recycle_amqp_pool, empty_amqp_pool
  <2>4. \A i \in DOMAIN pages : i <= next_page
    BY <2>3, PoolFacts DEF AllocNewPage, NeedsPage
  <2> QED BY <2>4 DEF PoolInv, PagesInv, Blocks
<1> QED BY <1>1, PoolInit, PoolStep, PTL DEF Spec, GrowsOnlyWhenFull
=============================================================================
