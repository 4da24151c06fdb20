\* A program that gives up a channel once a call on it failed; basic.get has
\* two replies.
\* The client may block in recv for ever, and the broker stops at its bound.
SPECIFICATION FairSpec
CONSTANTS
  c1 = c1
  c2 = c2
  Channel = {c1, c2}
  Rpc = {"queue.declare", "basic.get"}
  ConnectionCall = {"connection.close"}
  Replies <- MCReplies
  AllocMayFail = FALSE
  ReuseAfterFailure = FALSE
  MaxFrames = 3
  MaxCalls = 2
CHECK_DEADLOCK FALSE
INVARIANTS
  ReplyIsOurs
PROPERTIES
  RpcReturnsOrQueued
  AnswerReachesCaller
