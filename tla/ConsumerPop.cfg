\* Bodies of no frame, one frame and two frames; heartbeats and late replies
\* may come anywhere.
SPECIFICATION Spec
CONSTANTS
  OwnChannel = 1
  OtherChannel = {}
  ReturnChannel = {1}
  BodySize = {0, 2, 3}
  Fragment = 2
  isAck = TRUE
  MaxContents = 3
  MaxOther = 2
INVARIANTS
  OneDelivery
  ReturnedInOrder
  AckedWasReturned
  ReturnedOrGivenUp
