------------------------------- MODULE Publish -------------------------------
(***************************************************************************)
(* Publishing over a Session: amqp_basic_publish cuts a message into       *)
(* frames within the tuned frame_max, and amqp_send_frame writes them, or  *)
(* a part of one; the broker puts the contents together again.  The        *)
(* program publishes on one channel that is open at the broker.            *)
(***************************************************************************)
EXTENDS Session

CONSTANTS
  Messages,      \* the messages there are, each a body's and a content header's size
  MaxPublishes   \* bound: messages the program publishes

(* HEADER_SIZE and FOOTER_SIZE: what a frame adds to its payload.          *)
Overhead == 8

ASSUME PublishAssumption ==
  /\ Messages \subseteq [size : Nat, header : Nat]
  /\ MethodSize > Overhead
  /\ MaxPublishes \in Nat

VARIABLES
  published,    \* history: the messages, with what amqp_basic_publish returned
  next,         \* the kind of frame it sends next
  body_offset,
  content,      \* the message the broker is putting together
  stored,       \* history: the messages it has, with their pieces
  interrupted   \* history: messages whose content another one broke off

publisher == <<published, next, body_offset>>
contents == <<content, stored, interrupted>>
publishVars == <<sessionVars, publisher, contents>>

(* Of a message: the body's size from its header, how much of it is there, *)
(* and in which pieces it came.                                            *)
NoContent == [m |-> 0, size |-> 0, got |-> 0, pieces |-> <<>>]

PublishInit ==
  /\ SessionInit
  /\ published = <<>> /\ next = "none" /\ body_offset = 0
  /\ content = NoContent /\ stored = <<>> /\ interrupted = {}

-----------------------------------------------------------------------------
(* amqp_basic_publish.                                                     *)

Current == Len(published)
Body == published[Current].message.size

(* What a frame to the broker says: the message, and of a body fragment    *)
(* where it starts and ends.                                               *)
Part(from, to) == [m |-> Current, from |-> from, to |-> to]

(* The channel is still marked open when the connection it was opened on   *)
(* is closed; nothing else is asked before the frames go out.              *)
Stranded == at \in {"failed", "closed"} /\ ~freed /\ sockfd \notin open /\ published # <<>>

StartPublish ==
  /\ at = "ready" \/ Stranded
  /\ Len(published) < MaxPublishes
  /\ \E m \in Messages :
       published' = Append(published, [message |-> m, on |-> connects, result |-> "none"])
  /\ at' = IF at = "ready" THEN "publishing" ELSE "astray"
  /\ next' = "method"
  /\ UNCHANGED <<state, descriptors, connects, received, kernel, wire, line,
                 brokerVars, body_offset, contents>>

(* Mutant: only the last frame's result counts.                            *)
ContinuesUnchecked(f, more) ==
  \E ok \in BOOLEAN :
    /\ Sends(f, ok)
    /\ next' = more
    /\ at' = IF more # "none" THEN at ELSE IF at = "astray" THEN "closed" ELSE "ready"
    /\ published' = IF more # "none" THEN published
                    ELSE [published EXCEPT ![Current].result = IF ok THEN "ok" ELSE "error"]
    /\ body_offset' = IF more # "none" /\ f.kind = "body" THEN f.data.to ELSE 0

(* The frame goes out and the publish goes on, or returns.  The wrapper    *)
(* does not look at what it returns.                                       *)
Continues(f, more) ==
  \E ok \in BOOLEAN :
    /\ Sends(f, ok)
    /\ LET returns == ~ok \/ more = "none"
       IN /\ next' = IF returns THEN "none" ELSE more
          /\ at' = IF ~returns THEN at ELSE IF at = "astray" THEN "closed" ELSE "ready"
          /\ published' = IF ~returns THEN published
                          ELSE [published EXCEPT ![Current].result = IF ok THEN "ok" ELSE "error"]
          /\ body_offset' = IF returns THEN 0 ELSE IF f.kind = "body" THEN f.data.to ELSE 0

SendMethod ==
  /\ next = "method"
  /\ Continues(Method("publish", Part(0, 0)), "header")
  /\ UNCHANGED <<state, held, connects, received, kernel, line, brokerVars, contents>>

(* Mutant: a body follows every header.                                    *)
HeaderThenBody ==
  /\ next = "header"
  /\ Continues(ClientFrame("header frame", published[Current].message.header, Part(0, Body)), "body")
  /\ UNCHANGED <<state, held, connects, received, kernel, line, brokerVars, contents>>

SendHeaderFrame ==
  /\ next = "header"
  /\ Continues(ClientFrame("header frame", published[Current].message.header, Part(0, Body)),
               IF Body = 0 THEN "none" ELSE "body")
  /\ UNCHANGED <<state, held, connects, received, kernel, line, brokerVars, contents>>

(* Mutant: a whole fragment whatever remains.                              *)
FragmentWhole(remaining) == limits.frame_max - Overhead

(* Mutant: the whole frame_max for the payload.                            *)
FragmentOfFrameMax(remaining) == Least(remaining, limits.frame_max)

(* usable_body_payload_size, or what remains.                              *)
Fragment(remaining) == Least(remaining, limits.frame_max - Overhead)

SendBody ==
  /\ next = "body"
  /\ LET to == body_offset + Fragment(Body - body_offset)
     IN Continues(ClientFrame("body", to - body_offset + Overhead, Part(body_offset, to)),
                  IF to = Body THEN "none" ELSE "body")
  /\ UNCHANGED <<state, held, connects, received, kernel, line, brokerVars, contents>>

-----------------------------------------------------------------------------
(* The broker (external): a method, a header and the body it announces.    *)

BrokerTakesMethod ==
  /\ broker = "opened" /\ content = NoContent
  /\ BrokerReads("publish", "opened")
  /\ content' = [NoContent EXCEPT !.m = Head(wire).data.m]
  /\ UNCHANGED <<kernel, offered, told, publisher, stored, interrupted>>

(* A method in the middle of a content closes the connection.              *)
BrokerIsInterrupted ==
  /\ broker = "opened" /\ content # NoContent
  /\ BrokerReads("publish", "closed")
  /\ ToClient("close", NoLimits)
  /\ interrupted' = interrupted \union {content.m}
  /\ UNCHANGED <<offered, told, publisher, content, stored>>

(* The message is complete when its pieces are as long as its body.        *)
Takes(c) ==
  IF c.got = c.size
  THEN stored' = Append(stored, c) /\ content' = NoContent
  ELSE content' = c /\ UNCHANGED stored

BrokerTakesHeader ==
  /\ broker = "opened" /\ BrokerReads("header frame", "opened")
  /\ Takes([content EXCEPT !.size = Head(wire).data.to])
  /\ UNCHANGED <<kernel, offered, told, publisher, interrupted>>

BrokerTakesBody ==
  /\ broker = "opened" /\ BrokerReads("body", "opened")
  /\ LET piece == Head(wire).data
     IN Takes([content EXCEPT !.pieces = Append(@, piece), !.got = @ + piece.to - piece.from])
  /\ UNCHANGED <<kernel, offered, told, publisher, interrupted>>

(* A new connection starts without a content.                              *)
SessionStep ==
  /\ SessionNext
  /\ content' = IF connects' = connects THEN content ELSE NoContent
  /\ UNCHANGED <<publisher, stored, interrupted>>

amqp_basic_publish == StartPublish \/ SendMethod \/ SendHeaderFrame \/ SendBody

PublishNext ==
  \/ SessionStep
  \/ amqp_basic_publish
  \/ BrokerTakesMethod \/ BrokerIsInterrupted \/ BrokerTakesHeader \/ BrokerTakesBody

PublishSpec == PublishInit /\ [][PublishNext]_publishVars

-----------------------------------------------------------------------------
PublishTypeOK ==
  /\ SessionTypeOK
  /\ published \in Seq([message : Messages, on : 1 .. MaxConnects,
                        result : {"none", "ok", "error"}])
  /\ next \in {"none", "method", "header", "body"}
  /\ (at \in {"publishing", "astray"}) = (next # "none")
  /\ body_offset \in Nat /\ (next = "body" => body_offset < Body)
  /\ content.m \in 0 .. Len(published)
  /\ interrupted \subseteq DOMAIN published

(* Once the limits are tuned, no frame the client writes is longer than    *)
(* the broker's frame_max or its own, whichever connection the limits were *)
(* first tuned for.                                                        *)
FramesFitBothSides ==
  \A f \in ToSet(wire) :
    f.kind \in {"open", "publish", "header frame", "body"} =>
      f.size <= SmallerLimit(ClientLimits.frame_max, offered.frame_max)

(* What the broker has of a message is its body, cut without a gap or an   *)
(* overlap, and amqp_basic_publish returned no error for it.               *)
StoredIsWhole ==
  \A k \in DOMAIN stored :
    LET s == stored[k]
    IN /\ s.size = published[s.m].message.size
       /\ s.size = IF s.pieces = <<>> THEN 0 ELSE Last(s.pieces).to
       /\ published[s.m].result # "error"
       /\ \A i \in DOMAIN s.pieces :
            /\ s.pieces[i].m = s.m
            /\ s.pieces[i].from = IF i = 1 THEN 0 ELSE s.pieces[i - 1].to

(* A message whose publish returned 0 is at the broker, once it has read   *)
(* all that was written on an open connection.                             *)
PublishedIsStored ==
  \A m \in DOMAIN published :
    (/\ published[m].result = "ok" /\ published[m].on = connects
     /\ line = "up" /\ broker = "opened" /\ wire = <<>>) =>
      \E k \in DOMAIN stored : stored[k].m = m

(* The broker meets a method in the middle of a content, and closes the    *)
(* connection, only after a publish that returned an error midway, which   *)
(* the wrapper does not look at.                                           *)
InterruptedByError ==
  \A m \in interrupted : published[m].result = "error"

(* What the broker gets are the messages, whole, and what breaks the       *)
(* sequence of frames is a publish that failed.                            *)
MessagesArriveWhole == StoredIsWhole /\ PublishedIsStored /\ InterruptedByError

(* Whatever becomes of the connections, the program publishes to one       *)
(* queue: the broker gets a message at most once, in the order of the      *)
(* publishes, and only if its publish returned 0.                          *)
Results == [m \in DOMAIN published |-> published[m].result]
Stored == [k \in DOMAIN stored |-> stored[k].m]
Queue == INSTANCE MessageQueue WITH results <- Results, kept <- Stored
QueueSpec == Queue!Spec
=============================================================================
