\* Pages of two words and a half; requests that share a page, fill one, and
\* need a block of their own.
SPECIFICATION Spec
CONSTANTS
  Word = 2
  pagesize = 5
  Amount = {2, 3, 6}
  MaxBlocks = 4
INVARIANTS
  TypeOK
  MemoryIsOwn
  FreedOnce
PROPERTIES
  GrowsOnlyWhenFull
