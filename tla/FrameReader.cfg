\* A header of two bytes instead of seven; frame_max is met exactly by a
\* one-byte payload and exceeded by one byte by a two-byte payload.
\* The size field and its sum wrap at 8: payloads of 6 and 7 bytes give a
\* target of one byte, less than the header, and of exactly the header.
\* The broker stops after MaxFrames, and a misread stream is not read on.
SPECIFICATION FairSpec
CONSTANTS
  HEADER_SIZE = 2
  FOOTER_SIZE = 1
  FrameMax = 4
  SizeModulus = 8
  SockBuffer = 4
  PayloadSize = {1, 2, 6, 7}
  AllocMayFail = TRUE
  MaxFrames = 2
INVARIANTS
  DecodedInOrder
  NoByteLostOrReread
  RejectedForCause
  AbortsOnHeaderOnly
  BuffersDisjoint
PROPERTIES
  EveryFrameRead
CHECK_DEADLOCK FALSE
