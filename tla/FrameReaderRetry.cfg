\* Frames without payload and with one byte of it; a decoder may run out of
\* memory once.
\* The broker stops after MaxFrames, and a misread stream is not read on.
SPECIFICATION Spec
CONSTANTS
  HEADER_SIZE = 2
  FOOTER_SIZE = 1
  FrameMax = 4
  SizeModulus = 8
  SockBuffer = 5
  PayloadSize = {0, 1}
  AllocMayFail = TRUE
  MaxFrames = 2
INVARIANTS
  FrameReadOnce
CHECK_DEADLOCK FALSE
