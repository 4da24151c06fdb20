--------------------------- MODULE MCConnectionRpc ---------------------------
(***************************************************************************)
(* Small instances of ConnectionRpc: two channels; queue.declare, and      *)
(* basic.get with its two replies; connection.close on channel 0.          *)
(***************************************************************************)
EXTENDS ConnectionRpc, TLC

CONSTANTS c1, c2  \* the channels

MCReplies ==
  [op \in Op |->
     CASE op = "queue.declare" -> {"queue.declare-ok"}
       [] op = "basic.get" -> {"basic.get-ok", "basic.get-empty"}
       [] op = "connection.close" -> {"connection.close-ok"}]

ChannelSymmetry == Permutations(Channel)
=============================================================================
