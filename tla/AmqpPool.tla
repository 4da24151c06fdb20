------------------------------ MODULE AmqpPool ------------------------------
(***************************************************************************)
(* The memory pools of amqp_mem.c: small requests are carved out of pages, *)
(* large ones get a block of their own, and nothing is given back one by   *)
(* one: recycle_amqp_pool takes every allocation back and keeps the pages, *)
(* empty_amqp_pool frees the pages too.                                    *)
(***************************************************************************)
EXTENDS Integers, Sequences

CONSTANTS
  Word,       \* 8 in the code: the boundary requests are rounded up to
  pagesize,   \* the pool's page size
  Amount,     \* the sizes asked for (a request of 0 returns NULL at once)
  MaxBlocks   \* bound: blocks taken from the C heap

ASSUME PoolAssumption ==
  /\ Word \in Nat \ {0}
  /\ pagesize \in Nat \ {0}
  /\ Amount \subseteq Nat \ {0}
  /\ MaxBlocks \in Nat

(* (amount + 7) & ~7                                                       *)
RoundUp(amount) == ((amount + Word - 1) \div Word) * Word

NULL == 0

VARIABLES
  pages,         \* pages.blocklist: the recorded pages
  large_blocks,  \* large_blocks.blocklist
  next_page,     \* how many of the recorded pages are in use
  alloc_block,   \* the page being carved, or NULL
  alloc_used,    \* how much of it is used
  heap,          \* the blocks that calloc returned and free did not get
  fresh,         \* the number of the next block calloc returns
  live           \* history: the regions handed out since the last recycling

vars == <<pages, large_blocks, next_page, alloc_block, alloc_used, heap, fresh, live>>

Init ==
  /\ pages = <<>> /\ large_blocks = <<>>
  /\ next_page = 0 /\ alloc_block = NULL /\ alloc_used = 0
  /\ heap = {} /\ fresh = 1 /\ live = {}

Blocks(list) == {list[i] : i \in DOMAIN list}

-----------------------------------------------------------------------------
Region(block, from, size) == [block |-> block, from |-> from, to |-> from + size]

HandOut(block, from, size) == live' = live \union {Region(block, from, size)}

(* calloc gives a block that is not in use.                                *)
Calloc == fresh <= MaxBlocks /\ heap' = heap \union {fresh} /\ fresh' = fresh + 1

(* A request larger than a page gets a block of its own; when the block    *)
(* cannot be recorded, it is returned to nobody.                           *)
AllocLarge(amount) ==
  /\ RoundUp(amount) > pagesize
  /\ Calloc
  /\ \/ /\ large_blocks' = Append(large_blocks, fresh)
        /\ HandOut(fresh, 0, RoundUp(amount))
     \/ UNCHANGED <<large_blocks, live>>
  /\ UNCHANGED <<pages, next_page, alloc_block, alloc_used>>

(* Mutant: what is left of the page is not looked at.                      *)
FitsAnyPage(amount) == alloc_block # NULL

FitsInPage(amount) ==
  alloc_block # NULL /\ alloc_used + RoundUp(amount) <= pagesize

AllocInPage(amount) ==
  /\ RoundUp(amount) <= pagesize /\ FitsInPage(amount)
  /\ HandOut(alloc_block, alloc_used, RoundUp(amount))
  /\ alloc_used' = alloc_used + RoundUp(amount)
  /\ UNCHANGED <<pages, large_blocks, next_page, alloc_block, heap, fresh>>

(* Mutant: recycled pages forgotten.                                       *)
NeedsPageAlways(amount) == RoundUp(amount) <= pagesize /\ ~FitsInPage(amount)

(* Every recorded page is in use: a new one, unless calloc fails...        *)
NeedsPage(amount) ==
  RoundUp(amount) <= pagesize /\ ~FitsInPage(amount) /\ next_page >= Len(pages)

AllocNewPage(amount) ==
  /\ NeedsPage(amount)
  /\ Calloc
  /\ alloc_block' = fresh
  /\ pages' = Append(pages, fresh)
  /\ next_page' = Len(pages) + 1
  /\ HandOut(fresh, 0, RoundUp(amount))
  /\ alloc_used' = RoundUp(amount)
  /\ UNCHANGED large_blocks

AllocNoPage(amount) ==
  /\ NeedsPage(amount)
  /\ alloc_block' = NULL
  /\ UNCHANGED <<pages, large_blocks, next_page, alloc_used, heap, fresh, live>>

(* ... or the new page cannot be recorded: the request fails, with the     *)
(* page already installed.                                                 *)
AllocPageNotRecorded(amount) ==
  /\ NeedsPage(amount)
  /\ Calloc
  /\ alloc_block' = fresh
  /\ UNCHANGED <<pages, large_blocks, next_page, alloc_used, live>>

(* A page kept by an earlier recycling.                                    *)
AllocOldPage(amount) ==
  /\ RoundUp(amount) <= pagesize /\ ~FitsInPage(amount)
  /\ next_page < Len(pages)
  /\ alloc_block' = pages[next_page + 1]
  /\ next_page' = next_page + 1
  /\ HandOut(alloc_block', 0, RoundUp(amount))
  /\ alloc_used' = RoundUp(amount)
  /\ UNCHANGED <<pages, large_blocks, heap, fresh>>

amqp_pool_alloc(amount) ==
  \/ AllocLarge(amount) \/ AllocInPage(amount) \/ AllocNewPage(amount)
  \/ AllocNoPage(amount) \/ AllocPageNotRecorded(amount) \/ AllocOldPage(amount)

(* Mutants: the page being carved, or the list of large blocks, is kept.   *)
RecycledButPage ==
  /\ large_blocks' = <<>>
  /\ next_page' = 0 /\ alloc_used' = 0
  /\ live' = {}
  /\ UNCHANGED <<alloc_block, fresh>>
RecycledButLarge ==
  /\ next_page' = 0 /\ alloc_block' = NULL /\ alloc_used' = 0
  /\ live' = {}
  /\ UNCHANGED <<large_blocks, fresh>>

Recycled ==
  /\ large_blocks' = <<>>
  /\ next_page' = 0 /\ alloc_block' = NULL /\ alloc_used' = 0
  /\ live' = {}
  /\ UNCHANGED fresh

recycle_amqp_pool ==
  /\ Recycled
  /\ heap' = heap \ Blocks(large_blocks)
  /\ UNCHANGED pages

empty_amqp_pool ==
  /\ Recycled
  /\ heap' = heap \ (Blocks(large_blocks) \union Blocks(pages))
  /\ pages' = <<>>

Next ==
  \/ \E amount \in Amount : amqp_pool_alloc(amount)
  \/ recycle_amqp_pool
  \/ empty_amqp_pool

Spec == Init /\ [][Next]_vars

-----------------------------------------------------------------------------
BlockId == Nat \ {0}

TypeOK ==
  /\ pages \in Seq(BlockId) /\ large_blocks \in Seq(BlockId)
  /\ next_page \in 0 .. Len(pages)
  /\ alloc_block \in BlockId \union {NULL}
  /\ alloc_used \in 0 .. pagesize
  /\ fresh \in BlockId /\ heap \subseteq 1 .. fresh - 1
  /\ live \subseteq [block : BlockId, from : Nat, to : Nat]

(* Two allocations that are both alive never share memory, whatever was    *)
(* recycled, and whatever allocation failed, in between.                   *)
NoOverlap ==
  \A r, s \in live : r # s /\ r.block = s.block => r.to <= s.from \/ s.to <= r.from

(* What is alive lies in a block that was not freed, and a region of a     *)
(* page lies within the page.                                              *)
LiveInHeap ==
  \A r \in live : /\ r.block \in heap
                  /\ r.block \notin Blocks(large_blocks) => r.to <= pagesize

(* What the program holds of a pool is its own: in memory that was not     *)
(* freed, and shared with no other allocation.                             *)
MemoryIsOwn == NoOverlap /\ LiveInHeap

(* No block is listed twice, so that emptying the pool frees each one      *)
(* once.                                                                   *)
FreedOnce ==
  /\ \A i, j \in DOMAIN pages : i # j => pages[i] # pages[j]
  /\ \A i, j \in DOMAIN large_blocks : i # j => large_blocks[i] # large_blocks[j]
  /\ Blocks(pages) \intersect Blocks(large_blocks) = {}
  /\ Blocks(pages) \union Blocks(large_blocks) \subseteq heap

(* The pool takes another page only when every page it has holds a live    *)
(* allocation: recycled pages are used up first.                           *)
GrowsOnlyWhenFull ==
  [][Len(pages') > Len(pages) =>
       \A p \in Blocks(pages) : \E r \in live : r.block = p]_vars
=============================================================================
