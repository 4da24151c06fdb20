\* Opened channels are numbered 1, 2, 0 and 1 again, for at most MaxBegins
\* operations begun and MaxAsks calls of an AMQPRPCCall; a consumer's start is tried
\* twice; two calls by an AMQPRPCCall after one that may come back with nothing.
\* The program may be through, and no more channels are opened than the bound.
SPECIFICATION RpcCallSpec
CONSTANTS
  Numbers = 3
  Deep = 1
  MaxOpens = 4
  MaxLate = 1
  MaxBegins = 6
  MaxAsks = 3
INVARIANTS
  RpcTypeOK
  ReportsTrue
  MarkedOpenIsOpen
  AnswerIsOursOrLate
CHECK_DEADLOCK FALSE
