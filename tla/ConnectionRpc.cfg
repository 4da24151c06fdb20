\* Two channels that the program goes on using after a failed call, and memory
\* that may run out.
\* The client may block in recv for ever, and the broker stops at its bound.
SPECIFICATION Spec
CONSTANTS
  c1 = c1
  c2 = c2
  Channel = {c1, c2}
  Rpc = {"queue.declare"}
  ConnectionCall = {"connection.close"}
  Replies <- MCReplies
  AllocMayFail = TRUE
  ReuseAfterFailure = TRUE
  MaxFrames = 3
  MaxCalls = 3
CHECK_DEADLOCK FALSE
SYMMETRY ChannelSymmetry
INVARIANTS
  TypeOK
  StaleReplyWasAbandoned
PROPERTIES
  MailboxSpec
