\* One consumer channel, a thread of either mode whose messages have one body
\* frame each; the looping thread can lose as many messages as it has tries.
\* The thread ends for good, so that the system may stop.
SPECIFICATION ThreadSpec
CONSTANTS
  OwnChannel = 1
  OtherChannel = {}
  ReturnChannel = {1}
  BodySize = {2}
  Fragment = 2
  isAck = FALSE
  MaxContents = 3
  MaxOther = 2
INVARIANTS
  ThreadTypeOK
  LossesCostTries
  AtMostOneAfterCancel
PROPERTIES
  SentIsTold
  EndsWhenConnectionFails
  SingleShotEnds
CHECK_DEADLOCK FALSE
