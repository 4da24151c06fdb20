----------------------------- MODULE ConsumerPop -----------------------------
(***************************************************************************)
(* How frames become messages: popWithTimer of AMQPConsumer.m, which puts  *)
(* a message together from the frames amqp_simple_wait_frame hands it.     *)
(* The connection is seen through what FrameMailbox promises: box holds    *)
(* the frames that are kept, a pop gets the oldest one, and an RPC made    *)
(* between two pops takes its reply out of the middle.                     *)
(***************************************************************************)
EXTENDS Integers, Sequences, SequencesExt, FiniteSetsExt

CONSTANTS
  OwnChannel,      \* the consumer's channel
  OtherChannel,    \* the channels other consumers of the connection use
  ReturnChannel,   \* those the program publishes on, asking for the return of
                   \* what cannot be routed or delivered
  BodySize,        \* the sizes of the messages the broker delivers or returns
  Fragment,        \* the broker's largest body frame: frame_max less 8
  isAck,           \* useAcknowledgements of the consumer
  MaxContents,     \* bound: messages the broker delivers or returns
  MaxOther         \* bound: frames the broker sends that are part of neither

ASSUME PopAssumption ==
  /\ OwnChannel \notin OtherChannel
  /\ BodySize \subseteq Nat
  /\ Fragment \in Nat \ {0}
  /\ isAck \in BOOLEAN
  /\ MaxContents \in Nat /\ MaxOther \in Nat

Channel == {OwnChannel} \union OtherChannel \union ReturnChannel

(* What carries a content: basic.deliver, and basic.return for a message   *)
(* that was published as mandatory or immediate and comes back.            *)
Method == {"deliver", "return"}
Carried(ch) == {m \in Method : ch \in IF m = "return" THEN ReturnChannel
                                     ELSE {OwnChannel} \union OtherChannel}

(* d is the content a frame is part of, at the offset of a body frame's    *)
(* first byte; size is the size of the header's body or of the fragment.   *)
FrameOf(kind, d, at, size) == [kind |-> kind, d |-> d, at |-> at, size |-> size]

(* A heartbeat, a reply that no call waits for any more, a channel.close:  *)
(* a frame that is part of no content.                                     *)
OtherFrame == FrameOf("other", 0, 0, 0)

(* The frames of a content: the body is cut into fragments.                *)
Least(a, b) == IF a < b THEN a ELSE b
Fragments(size) == (size + Fragment - 1) \div Fragment
FramesOf(d, c) ==
  <<FrameOf(c.kind, d, 0, 0), FrameOf("header", d, 0, c.size)>>
    \o [k \in 1 .. Fragments(c.size) |->
          FrameOf("body", d, (k - 1) * Fragment, Least(Fragment, c.size - (k - 1) * Fragment))]

VARIABLES
  contents,    \* the contents the broker started: method, channel and size
  toSend,      \* toSend[ch]: the frames of the content in progress on ch
  others,      \* how many other frames it sent
  box,         \* the frames the connection keeps, oldest first
  at,          \* which frame the pop waits for, or "idle"
  delivery,    \* its local variables
  header,
  bodySize,
  receivedBytes,
  body,        \* body[i]: byte i of the buffer, as <<content, offset>>
  parts,       \* history: the contents its body frames were part of
  returned,    \* history: the messages returned
  acks,        \* the acknowledgements that were sent: channel and delivery
  gaveUp       \* history: the deliveries a pop dropped midway

(* The contents so far, and those among them that are deliveries.          *)
Content == 1 .. Len(contents)
Delivery == {d \in Content : contents[d].kind = "deliver"}

broker == <<contents, toSend, others>>
locals == <<delivery, header, bodySize, receivedBytes, body, parts>>
vars == <<broker, box, at, locals, returned, acks, gaveUp>>

Init ==
  /\ contents = <<>> /\ toSend = [ch \in Channel |-> <<>>] /\ others = 0
  /\ box = <<>> /\ at = "idle"
  /\ delivery = 0 /\ header = 0 /\ bodySize = 0 /\ receivedBytes = 0
  /\ body = <<>> /\ parts = {}
  /\ returned = <<>> /\ acks = {} /\ gaveUp = {}

-----------------------------------------------------------------------------
NoLocals ==
  /\ delivery' = 0 /\ header' = 0 /\ bodySize' = 0 /\ receivedBytes' = 0
  /\ body' = <<>> /\ parts' = {}

StartPop ==
  /\ at = "idle"
  /\ at' = "deliver"
  /\ UNCHANGED <<broker, box, locals, returned, acks, gaveUp>>

(* Mutant: the newest frame instead of the oldest.                         *)
WaitNewestFrame(f) ==
  /\ box # <<>> /\ f = Last(box)
  /\ box' = Front(box)
  /\ UNCHANGED broker

(* amqp_simple_wait_frame returns the oldest frame.                        *)
WaitFrame(f) ==
  /\ box # <<>> /\ f = Head(box)
  /\ box' = Tail(box)
  /\ UNCHANGED broker

(* Mutant: the method is not looked at.                                    *)
PopSkipsAny ==
  /\ at = "deliver"
  /\ \E f \in ToSet(box) : WaitFrame(f)
  /\ UNCHANGED <<at, locals, returned, acks, gaveUp>>

(* A frame that starts no delivery is skipped.                             *)
PopSkips ==
  /\ at = "deliver"
  /\ \E f \in ToSet(box) : WaitFrame(f) /\ f.kind # "deliver"
  /\ UNCHANGED <<at, locals, returned, acks, gaveUp>>

PopMethod ==
  /\ at = "deliver"
  /\ \E f \in ToSet(box) : WaitFrame(f) /\ f.kind = "deliver" /\ delivery' = f.d
  /\ at' = "header"
  /\ UNCHANGED <<header, bodySize, receivedBytes, body, parts, returned, acks, gaveUp>>

(* The message is made, and acknowledged on the consumer's own channel;    *)
(* nobody looks at what amqp_basic_ack returns.                            *)
PopReturns(hdr, buffer, from) ==
  /\ returned' = Append(returned, [deliver |-> delivery, header |-> hdr,
                                   parts |-> from, body |-> buffer])
  /\ acks' \in {acks} \union
              (IF isAck THEN {acks \union {[ch |-> OwnChannel, d |-> delivery]}} ELSE {})
  /\ at' = "idle"
  /\ NoLocals
  /\ UNCHANGED gaveUp

(* Mutant: the frame type is not looked at.                                *)
PopHeaderUnchecked ==
  /\ at = "header"
  /\ \E f \in ToSet(box) : WaitFrame(f) /\ PopReturns(f.d, <<>>, {})

PopHeader ==
  /\ at = "header"
  /\ \E f \in ToSet(box) :
       /\ WaitFrame(f) /\ f.kind = "header"
       /\ IF f.size = 0 THEN PopReturns(f.d, <<>>, {})
          ELSE /\ header' = f.d /\ bodySize' = f.size
               /\ receivedBytes' = 0
               /\ body' = [i \in 1 .. f.size |-> <<0, 0>>]
               /\ at' = "body"
               /\ UNCHANGED <<delivery, parts, returned, acks, gaveUp>>

(* memcpy to body.bytes: the start of the buffer, each time.               *)
Copied(f) ==
  [i \in 1 .. bodySize |-> IF i <= f.size THEN <<f.d, f.at + i>> ELSE body[i]]

PopBody ==
  /\ at = "body"
  /\ \E f \in ToSet(box) :
       /\ WaitFrame(f) /\ f.kind = "body"
       /\ IF receivedBytes + f.size >= bodySize
          THEN PopReturns(header, Copied(f), parts \union {f.d})
          ELSE /\ receivedBytes' = receivedBytes + f.size
               /\ body' = Copied(f)
               /\ parts' = parts \union {f.d}
               /\ UNCHANGED <<at, delivery, header, bodySize, returned, acks, gaveUp>>

(* Mutant: the delivery is acknowledged although it is not returned.       *)
PopReturnsNilAcked(lost) ==
  /\ gaveUp' = gaveUp \union (lost \intersect Delivery)
  /\ acks' = IF delivery = 0 THEN acks
             ELSE acks \union {[ch |-> OwnChannel, d |-> delivery]}
  /\ at' = "idle"
  /\ NoLocals
  /\ UNCHANGED returned

(* return nil: what the pop had of a message is forgotten.                 *)
PopReturnsNil(lost) ==
  /\ gaveUp' = gaveUp \union (lost \intersect Delivery)
  /\ at' = "idle"
  /\ NoLocals
  /\ UNCHANGED <<returned, acks>>

PopGivesUp ==
  /\ at \in {"header", "body"}
  /\ \E f \in ToSet(box) :
       WaitFrame(f) /\ f.kind # at /\ PopReturnsNil({delivery, f.d})

(* The timer went off, or the connection failed.                           *)
PopWaitFails ==
  /\ at # "idle" /\ box = <<>>
  /\ PopReturnsNil({delivery})
  /\ UNCHANGED <<broker, box>>

-----------------------------------------------------------------------------
(* Between two pops the program makes calls on the same connection; one of *)
(* them finds its reply (external: see ConnectionRpc).                     *)
RpcTakesReply ==
  /\ at = "idle"
  /\ \E i \in DOMAIN box : box[i] = OtherFrame /\ box' = RemoveAt(box, i)
  /\ UNCHANGED <<broker, at, locals, returned, acks, gaveUp>>

(* The broker (external) delivers or returns a message: the frames of one  *)
(* content follow each other on its channel; frames of other channels, and *)
(* heartbeats, come in between.                                            *)
BrokerDelivers(ch) ==
  /\ toSend[ch] = <<>> /\ Len(contents) < MaxContents
  /\ \E c \in [kind : Carried(ch), ch : {ch}, size : BodySize] :
       /\ contents' = Append(contents, c)
       /\ toSend' = [toSend EXCEPT ![ch] = FramesOf(Len(contents) + 1, c)]
  /\ UNCHANGED <<others, box, at, locals, returned, acks, gaveUp>>

BrokerSends(ch) ==
  /\ toSend[ch] # <<>>
  /\ box' = Append(box, Head(toSend[ch]))
  /\ toSend' = [toSend EXCEPT ![ch] = Tail(@)]
  /\ UNCHANGED <<contents, others, at, locals, returned, acks, gaveUp>>

BrokerSendsOther ==
  /\ others < MaxOther
  /\ others' = others + 1
  /\ box' = Append(box, OtherFrame)
  /\ UNCHANGED <<contents, toSend, at, locals, returned, acks, gaveUp>>

popWithTimer ==
  StartPop \/ PopSkips \/ PopMethod \/ PopHeader \/ PopBody \/ PopGivesUp \/ PopWaitFails

Next ==
  \/ popWithTimer
  \/ RpcTakesReply
  \/ \E ch \in Channel : BrokerDelivers(ch) \/ BrokerSends(ch)
  \/ BrokerSendsOther

Spec == Init /\ [][Next]_vars

-----------------------------------------------------------------------------
Byte == (0 .. Len(contents)) \X Nat

TypeOK ==
  /\ contents \in Seq([kind : Method, ch : Channel, size : BodySize])
  /\ at \in {"idle", "deliver", "header", "body"}
  /\ delivery \in Delivery \union {0} /\ header \in Content \union {0}
  /\ bodySize \in BodySize \union {0}
  /\ receivedBytes \in IF at = "body" THEN 0 .. bodySize - 1 ELSE {0}
  /\ body \in Seq(Byte) /\ parts \subseteq Content
  /\ returned \in Seq([deliver : Delivery, header : Content,
                       parts : SUBSET Content, body : Seq(Byte)])
  /\ acks \subseteq [ch : Channel, d : Delivery]
  /\ gaveUp \subseteq Delivery
  /\ others \in 0 .. MaxOther

(* "a complete message delivery consists of at least three frames"         *)
(* (AMQPConsumer.m:100): the method, the header and the body frames of a   *)
(* message belong to one delivery, even after pops that gave up midway and *)
(* left the rest of a delivery behind.                                     *)
OneDelivery ==
  \A k \in DOMAIN returned :
    /\ returned[k].header = returned[k].deliver
    /\ returned[k].parts \subseteq {returned[k].deliver}

(* Messages are returned in the order they were delivered, each one once.  *)
ReturnedInOrder ==
  \A j, k \in DOMAIN returned : j < k => returned[j].deliver < returned[k].deliver

(* Only a message that was returned is acknowledged, on its channel.       *)
AckedWasReturned ==
  \A a \in acks :
    /\ contents[a.d].ch = a.ch
    /\ a.d \notin gaveUp
    /\ \E k \in DOMAIN returned : returned[k].deliver = a.d

(* A delivery whose frames are all gone was returned as a message, unless  *)
(* a pop gave up in the middle of it.                                      *)
Outstanding(d) ==
  \/ delivery = d
  \/ \E i \in DOMAIN box : box[i].d = d
  \/ \E ch \in Channel : \E i \in DOMAIN toSend[ch] : toSend[ch][i].d = d
ReturnedOrGivenUp ==
  \A d \in Delivery :
    \/ Outstanding(d)
    \/ d \in gaveUp
    \/ \E k \in DOMAIN returned : returned[k].deliver = d

(* "Frame #3+: body frames" (AMQPConsumer.m:127): the body of a message is *)
(* what its body frames carry, one after the other.                        *)
BodyAssembled ==
  \A k \in DOMAIN returned :
    returned[k].body =
      [i \in 1 .. contents[returned[k].deliver].size |-> <<returned[k].deliver, i>>]
=============================================================================
