\* Another consumer uses a second channel of the connection.
SPECIFICATION Spec
CONSTANTS
  OwnChannel = 1
  OtherChannel = {2}
  ReturnChannel = {}
  BodySize = {2}
  Fragment = 2
  isAck = TRUE
  MaxContents = 2
  MaxOther = 0
INVARIANTS
  OneDelivery
