---------------------------- MODULE PublishProofs ----------------------------
(***************************************************************************)
(* An AMQPConnection, for any limits, brokers, messages and bounds.        *)
(* Another part of the program is reached only on behalf of a connection   *)
(* that the object closed itself; a login that succeeds leaves both sides  *)
(* with the same limits, one that aborts the program has a cause, every    *)
(* frame fits, what the broker has of a message is the whole of it, and    *)
(* the messages it has are those that were published, in their order.      *)
(***************************************************************************)
EXTENDS Publish, SequenceLemmas, TLAPS

(* Where the object has a connection that was logged in or is about to be. *)
Connected == {"connected", "start", "tune", "tuned", "open", "opening", "ready", "publishing"}
Underway == {"publishing", "astray"}

(* The number of the latest connection is the only one the object works    *)
(* with, and while the connection is up or logged in, it is open, and so   *)
(* in nobody else's hands.                                                 *)
DescriptorInv ==
  /\ connects \in Nat
  /\ taken \subseteq 1 .. connects /\ foreign \subseteq 1 .. connects
  /\ taken \intersect open = {}
  /\ sockfd \in {0, connects} /\ socketFD \in {0, sockfd}
  /\ at \in Connected \/ line = "up" => sockfd \in open
  /\ next # "none" => at \in Underway
  /\ at = "astray" => sockfd \notin open
  /\ ForeignOnlyOnceClosed

(* Steps that write at most to the object's own number.                    *)
Quiet ==
  /\ UNCHANGED <<sockfd, held, connects>>
  /\ foreign' = foreign \/ Touches(sockfd)
  /\ at' \in Connected => at \in Connected
  /\ at \in Underway => at' = at
  /\ at' = "astray" => at = "astray"
  /\ line' = "up" => line = "up"

LEMMA TouchesOwn ==
  ASSUME DescriptorInv, NEW d \in {0, connects}, Touches(d), UNCHANGED connects, open' \subseteq open
  PROVE  foreign' \subseteq 1 .. connects' /\ ForeignOnlyOnceClosed'
<1>1. d \in taken => d = connects /\ d \notin open /\ connects \in 1 .. connects
  BY DEF DescriptorInv
<1>2. foreign \subseteq 1 .. connects /\ foreign \intersect open = {}
  BY DEF DescriptorInv, ForeignOnlyOnceClosed
<1>3. foreign' = foreign \/ (connects \notin open /\ connects \in 1 .. connects /\ foreign' = foreign \union {connects})
  BY <1>1 DEF Touches
<1> QED BY <1>2, <1>3 DEF ForeignOnlyOnceClosed

LEMMA QuietSteps == DescriptorInv /\ Quiet /\ UNCHANGED next => DescriptorInv'
<1> SUFFICES ASSUME DescriptorInv, Quiet, UNCHANGED next PROVE DescriptorInv'
  OBVIOUS
<1>1. foreign' \subseteq 1 .. connects' /\ ForeignOnlyOnceClosed'
  <2>1. CASE foreign' = foreign
    BY <2>1 DEF DescriptorInv, Quiet, ForeignOnlyOnceClosed, held
  <2>2. CASE Touches(sockfd)
    BY <2>2, TouchesOwn DEF DescriptorInv, Quiet, held
  <2> QED BY <2>1, <2>2 DEF Quiet
<1> QED BY <1>1 DEF DescriptorInv, Quiet, held

LEMMA SendsTouches ==
  ASSUME NEW f, NEW ok \in BOOLEAN, Sends(f, ok)
  PROVE  foreign' = foreign \/ Touches(sockfd)
  BY DEF Sends

LEMMA LoginQuiet == Login /\ ~TuneNoMemory => Quiet
<1> SUFFICES ASSUME Login, ~TuneNoMemory PROVE Quiet
  OBVIOUS
<1> USE DEF Quiet, Connected, Underway, state, descriptors, SendHeader, StartOk, StartRefused,
            WaitMethodAborts, WaitMethodFails, Tune, SendTuneOk, SendOpen, LoginDone
<1>1. UNCHANGED <<sockfd, held, connects, line>>
  BY DEF Login
<1>2. foreign' = foreign \/ Touches(sockfd)
  <2>1. foreign' = foreign \/ \E ok \in BOOLEAN :
          \/ Sends(ClientFrame("header", 0, NoLimits), ok) \/ Sends(Method("start_ok", NoLimits), ok)
          \/ Sends(Method("tune_ok", limits), ok) \/ Sends(Method("open", NoLimits), ok)
    BY DEF Login
  <2> QED BY <2>1, SendsTouches
<1>3. /\ at \in {"connected", "start", "tune", "tuned", "open", "opening"}
      /\ at' \notin Underway
  BY DEF Login, Released, CallTakes, InCall
<1> QED BY <1>1, <1>2, <1>3

LEMMA CallQuiet == Call => Quiet
<1> SUFFICES ASSUME Call PROVE Quiet
  OBVIOUS
<1> USE DEF Quiet, Connected, Underway, state, descriptors, InCall, CallFails, CallTakes
<1>1. CASE CallRefused
  BY <1>1 DEF CallRefused
<1>2. CASE CallSetsAside
  BY <1>2 DEF CallSetsAside
<1>3. CASE CallNoMemory
  BY <1>3 DEF CallNoMemory
<1>4. CASE CallGetsNothing
  BY <1>4 DEF CallGetsNothing
<1> QED BY <1>1, <1>2, <1>3, <1>4 DEF Call

LEMMA BrokerQuiet == Broker \/ LineFails \/ Recv => Quiet
<1> SUFFICES ASSUME Broker \/ LineFails \/ Recv PROVE Quiet
  OBVIOUS
<1>1. UNCHANGED <<at, state, descriptors, connects>> /\ (line' = "up" => line = "up")
  BY DEF Broker, LineFails, Recv, BrokerReads, BrokerStarts, BrokerRefusesVersion, BrokerTunes, BrokerIsTuned,
         BrokerOpens, BrokerIsClosed, BrokerIgnores, BrokerRefuses, BrokerPushes
<1> QED BY <1>1 DEF Quiet, state, descriptors

(* A publish starts where a login ended or on a closed connection, and     *)
(* goes back there.                                                        *)
LEMMA PublishSteps == DescriptorInv /\ amqp_basic_publish => DescriptorInv'
<1> SUFFICES ASSUME DescriptorInv, amqp_basic_publish PROVE DescriptorInv'
  OBVIOUS
<1>1. /\ UNCHANGED <<sockfd, held, connects, line>>
      /\ foreign' = foreign \/ Touches(sockfd)
      /\ at' \in Connected => at \in Connected
      /\ at' = "astray" => sockfd \notin open
      /\ next' # "none" => at' \in Underway
  <2>1. CASE StartPublish
    BY <2>1 DEF StartPublish, Stranded, state, descriptors, Connected, Underway
  <2>2. ASSUME NEW f, NEW more, Continues(f, more), next # "none"
        PROVE  /\ foreign' = foreign \/ Touches(sockfd)
               /\ at' \in Connected => at \in Connected
               /\ at' = "astray" => at = "astray"
               /\ next' # "none" => at' \in Underway
    <3>1. at \in Underway
      BY <2>2 DEF DescriptorInv
    <3>2. PICK ok \in BOOLEAN :
            /\ Sends(f, ok)
            /\ next' = IF ~ok \/ more = "none" THEN "none" ELSE more
            /\ at' = IF ~(~ok \/ more = "none") THEN at ELSE IF at = "astray" THEN "closed" ELSE "ready"
      BY <2>2 DEF Continues
    <3>3. foreign' = foreign \/ Touches(sockfd)
      BY <3>2, SendsTouches
    <3> QED BY <3>1, <3>2, <3>3 DEF Underway, Connected
  <2>3. CASE SendMethod
    BY <2>2, <2>3 DEF SendMethod, state, DescriptorInv
  <2>4. CASE SendHeaderFrame
    BY <2>2, <2>4 DEF SendHeaderFrame, state, DescriptorInv
  <2>5. CASE SendBody
    BY <2>2, <2>5 DEF SendBody, state, DescriptorInv
  <2> QED BY <2>1, <2>3, <2>4, <2>5 DEF amqp_basic_publish
<1>2. foreign' \subseteq 1 .. connects' /\ ForeignOnlyOnceClosed'
  <2>1. CASE foreign' = foreign
    BY <1>1, <2>1 DEF DescriptorInv, ForeignOnlyOnceClosed, held
  <2>2. CASE Touches(sockfd)
    BY <1>1, <2>2, TouchesOwn DEF DescriptorInv, held
  <2> QED BY <1>1, <2>1, <2>2
<1> QED BY <1>1, <1>2 DEF DescriptorInv, held

(* A connect gets a number that is neither open nor taken.                 *)
LEMMA ConnectSteps ==
  DescriptorInv /\ (ConnectToHost \/ ConnectFails \/ OtherOpens) /\ UNCHANGED next => DescriptorInv'
<1> SUFFICES ASSUME DescriptorInv, UNCHANGED next, ConnectToHost \/ ConnectFails \/ OtherOpens
             PROVE  DescriptorInv'
  OBVIOUS
<1> USE DEF DescriptorInv, ForeignOnlyOnceClosed, Connected, Underway, Unconnected
<1>1. CASE ConnectToHost
  <2>1. /\ connects' = connects + 1 /\ taken' = taken /\ foreign' = foreign
        /\ sockfd' = connects' /\ socketFD' = connects' /\ open' = open \union {connects'}
        /\ at \in {"new", "failed", "closed"} /\ at' = "connected" /\ next' = next
    BY <1>1 DEF ConnectToHost
  <2>2. /\ connects' \in Nat /\ connects' \notin taken /\ connects' \notin foreign
        /\ taken' \subseteq 1 .. connects' /\ foreign' \subseteq 1 .. connects'
    BY <2>1
  <2> QED BY <2>1, <2>2
<1>2. CASE ConnectFails
  BY <1>2 DEF ConnectFails, state
<1>3. CASE OtherOpens
  BY <1>3 DEF OtherOpens, state
<1> QED BY <1>1, <1>2, <1>3

LEMMA EndSteps ==
  DescriptorInv /\ (Ends \/ TuneNoMemory) /\ UNCHANGED next => DescriptorInv'
<1> SUFFICES ASSUME DescriptorInv, UNCHANGED next, Ends \/ TuneNoMemory PROVE DescriptorInv'
  OBVIOUS
<1>1. ASSUME NEW n \in {"closing", "dying"}, Idle, SendClose(n) PROVE DescriptorInv'
  <2>1. PICK ok \in BOOLEAN : Sends(Method("close", NoLimits), ok) /\ at' \in {n, "leaked", "failed"}
    BY <1>1 DEF SendClose
  <2>2. Quiet
    BY <1>1, <2>1, SendsTouches DEF SendClose, Idle, Quiet, Connected, Underway, state
  <2> QED BY <2>2, QuietSteps
<1>2. ASSUME NEW d \in {socketFD, sockfd}, Closes(d), UNCHANGED <<sockfd, socketFD, taken, connects>>,
             at \in {"closing", "dying", "destroying"}, at' \notin Connected \union Underway
      PROVE  DescriptorInv'
  <2>1. /\ d \in {0, connects} /\ Touches(d) /\ open' \subseteq open
        /\ line' = "up" => line = "up" /\ d # sockfd /\ open' = open \ {d}
    BY <1>2 DEF Closes, DescriptorInv
  <2>2. foreign' \subseteq 1 .. connects' /\ ForeignOnlyOnceClosed'
    BY <1>2, <2>1, TouchesOwn
  <2>3. next' = "none"
    BY <1>2 DEF DescriptorInv, Underway
  <2> QED BY <1>2, <2>1, <2>2, <2>3 DEF DescriptorInv, Underway
<1>3. CASE Disconnect \/ Dealloc
  BY <1>1, <1>3 DEF Disconnect, Dealloc
<1>4. CASE DisconnectDone \/ Destroy
  BY <1>2, <1>4 DEF DisconnectDone, Destroy, state, Connected, Underway
<1>5. CASE UseAfterFree
  BY <1>5, QuietSteps DEF UseAfterFree, Idle, descriptors, state, Quiet, Connected, Underway
<1>6. CASE TuneNoMemory
  BY <1>6 DEF TuneNoMemory, DescriptorInv, ForeignOnlyOnceClosed, Connected, Underway
<1> QED BY <1>3, <1>4, <1>5, <1>6 DEF Ends

LEMMA DescriptorInit == PublishInit => DescriptorInv
  BY DEF PublishInit, SessionInit, DescriptorInv, ForeignOnlyOnceClosed, Connected

LEMMA DescriptorStep == DescriptorInv /\ [PublishNext]_publishVars => DescriptorInv'
<1> SUFFICES ASSUME DescriptorInv, [PublishNext]_publishVars PROVE DescriptorInv'
  OBVIOUS
<1>1. CASE SessionStep
  <2>1. UNCHANGED next
    BY <1>1 DEF SessionStep, publisher
  <2>2. CASE ConnectToHost \/ ConnectFails \/ OtherOpens
    BY <2>1, <2>2, ConnectSteps
  <2>3. CASE Ends \/ TuneNoMemory
    BY <2>1, <2>3, EndSteps
  <2>4. CASE Recv \/ Broker \/ LineFails \/ Call \/ (Login /\ ~TuneNoMemory)
    BY <2>1, <2>4, QuietSteps, BrokerQuiet, CallQuiet, LoginQuiet
  <2> QED BY <1>1, <2>2, <2>3, <2>4 DEF SessionStep, SessionNext
<1>2. CASE amqp_basic_publish
  BY <1>2, PublishSteps
<1>3. CASE BrokerTakesMethod \/ BrokerIsInterrupted \/ BrokerTakesHeader \/ BrokerTakesBody
  <2>1. UNCHANGED <<at, state, descriptors, connects, line, next>>
    BY <1>3 DEF BrokerTakesMethod, BrokerIsInterrupted, BrokerTakesHeader, BrokerTakesBody,
                BrokerReads, publisher
  <2> QED BY <2>1, QuietSteps DEF Quiet, state, descriptors
<1>4. CASE UNCHANGED publishVars
  BY <1>4, QuietSteps DEF Quiet, publishVars, sessionVars, publisher, state, descriptors
<1> QED BY <1>1, <1>2, <1>3, <1>4 DEF PublishNext

(* A write or a close reaches another part of the program only on behalf   *)
(* of a connection the object closed before (AMQPConnection.m:38-85,       *)
(* AMQPExchange.m:98): connecting again gives it a descriptor of its own.  *)
THEOREM DescriptorsAreOurs == PublishSpec => []ForeignOnlyOnceClosed
<1>1. PublishInit => DescriptorInv
  BY DescriptorInit
<1>2. DescriptorInv /\ [PublishNext]_publishVars => DescriptorInv'
  BY DescriptorStep
<1>3. DescriptorInv => ForeignOnlyOnceClosed
  BY DEF DescriptorInv
<1> QED BY <1>1, <1>2, <1>3, PTL DEF PublishSpec

-----------------------------------------------------------------------------
(* Frames of the client.                                                   *)
Parts == [m : Nat, from : Nat, to : Nat]
Handshake == {"header", "start_ok", "tune_ok", "open"}
Content == {"publish", "header frame", "body"}
Sent ==
  [kind : Handshake \union {"close", "cut"}, size : Nat, data : Limits]
    \union [kind : Content, size : Nat, data : Parts]

(* The program publishes what it has begun, with the limits it has.        *)
Publication == [message : Messages, on : 1 .. MaxConnects, result : {"none", "ok", "error"}]
PublisherInv ==
  /\ published \in Seq(Publication)
  /\ next \in {"none", "method", "header", "body"}
  /\ (at \in Underway) = (next # "none")
  /\ next # "none" => published # <<>>
  /\ published # <<>> => connects > 0
  /\ body_offset \in Nat /\ (next = "header" => body_offset = 0)
  /\ next = "body" => body_offset < Body
  /\ next \in {"header", "body"} => MethodSize <= limits.frame_max

TypedInv ==
  /\ SessionTypeOK /\ DescriptorInv
  /\ wire \in Seq(Sent)
  /\ line = "up" => broker # "gone" /\ connects > 0
  /\ PublisherInv

LEMMA LimitsFacts ==
  /\ NoLimits \in Limits
  /\ Cut \in Sent /\ Cut.kind = "cut"
  /\ \A l \in Limits : l.channel_max \in Nat /\ l.frame_max \in Nat /\ l.heartbeat \in Nat
  /\ \A k \in Handshake \union {"close"}, l \in Limits :
       Method(k, l) \in Sent /\ Method(k, l).kind = k /\ Method(k, l).size = MethodSize /\ Method(k, l).data = l
  /\ \A l \in Limits : ClientFrame("header", 0, l) \in Sent /\ ClientFrame("header", 0, l).kind = "header"
BY SessionAssumption DEF Limits, NoLimits, Cut, Sent, Method, ClientFrame, Handshake

LEMMA NegotiatedLimits ==
  ASSUME NEW l \in Limits, NEW s \in Limits, NEW g,
         g = [x \in DOMAIN l |-> Negotiated(ClientLimits[x], s[x])]
  PROVE  g \in Limits /\ g.frame_max = SmallerLimit(ClientLimits.frame_max, s.frame_max)
         /\ \A x \in DOMAIN g : g[x] = IF ClientLimits[x] = 0 THEN 0 ELSE SmallerLimit(ClientLimits[x], s[x])
<1> DEFINE n(x) == Negotiated(ClientLimits[x], s[x])
<1>1. /\ DOMAIN l = {"channel_max", "frame_max", "heartbeat"}
      /\ ClientLimits \in Limits /\ ClientLimits.frame_max # 0
  BY SessionAssumption DEF Limits
<1>2. \A x \in DOMAIN l : n(x) \in Nat
  BY <1>1 DEF Negotiated, Limits
<1>3. g = [channel_max |-> n("channel_max"), frame_max |-> n("frame_max"), heartbeat |-> n("heartbeat")]
  BY <1>1
<1>4. \A c, o \in Nat : Negotiated(c, o) = IF c = 0 THEN 0 ELSE SmallerLimit(c, o)
  BY DEF Negotiated, SmallerLimit, Least
<1>5. \A x \in DOMAIN l : /\ ClientLimits[x] \in Nat /\ s[x] \in Nat
                          /\ n(x) = IF ClientLimits[x] = 0 THEN 0 ELSE SmallerLimit(ClientLimits[x], s[x])
  BY <1>1, <1>4 DEF Limits
<1> HIDE DEF n
<1>6. /\ n("frame_max") = SmallerLimit(ClientLimits.frame_max, s.frame_max)
      /\ DOMAIN g = {"channel_max", "frame_max", "heartbeat"}
  BY <1>1, <1>3, <1>5
<1>7. \A x \in DOMAIN g : g[x] = IF ClientLimits[x] = 0 THEN 0 ELSE SmallerLimit(ClientLimits[x], s[x])
  BY <1>1, <1>3, <1>5, <1>6
<1> QED BY <1>1, <1>2, <1>3, <1>6, <1>7 DEF Limits

(* What a send leaves on the wire.                                         *)
LEMMA SendsFacts ==
  ASSUME NEW f \in Sent, NEW ok \in BOOLEAN, wire \in Seq(Sent), Sends(f, ok)
  PROVE  /\ wire' \in Seq(Sent)
         /\ ok => Fits(f)
         /\ wire' # wire => ok /\ line = "up" /\ Fits(f) /\ ~Broken /\ (wire' = Append(wire, f) \/ wire' = Append(wire, Cut))
         /\ \A i \in DOMAIN wire' :
              \/ i \in DOMAIN wire /\ wire'[i] = wire[i]
              \/ wire'[i] = f /\ ok /\ line = "up" /\ Fits(f)
              \/ wire'[i] = Cut
<1>1. /\ ok => Fits(f)
      /\ \/ wire' = wire
         \/ ok /\ line = "up" /\ Fits(f) /\ ~Broken /\ (wire' = Append(wire, f) \/ wire' = Append(wire, Cut))
  BY DEF Sends
<1>2. Append(wire, f) \in Seq(Sent) /\ Append(wire, Cut) \in Seq(Sent)
  BY LimitsFacts
<1>3. CASE wire' = wire
  BY <1>1, <1>3
<1>4. CASE wire' = Append(wire, f) /\ ok /\ line = "up" /\ Fits(f)
  BY <1>1, <1>2, <1>4, AppendFacts
<1>5. CASE wire' = Append(wire, Cut)
  BY <1>1, <1>2, <1>5, AppendFacts, LimitsFacts
<1> QED BY <1>1, <1>3, <1>4, <1>5

(* What a read of the login takes.                                         *)
LEMMA ReadsFacts ==
  ASSUME NEW f \in Readable, buffer \in Seq(BrokerFrame), queued \in Seq(BrokerFrame), Reads(f)
  PROVE  /\ f \in BrokerFrame /\ buffer' \in Seq(BrokerFrame) /\ queued' \in Seq(BrokerFrame)
         /\ \/ queued # <<>> /\ f = queued[1] /\ queued' = Tail(queued) /\ buffer' = buffer
            \/ queued = <<>> /\ queued' = <<>> /\ buffer # <<>> /\ f = buffer[1] /\ buffer' = Tail(buffer)
<1>1. CASE queued # <<>> /\ f = Head(queued) /\ queued' = Tail(queued) /\ buffer' = buffer
  BY <1>1, TailFacts
<1>2. CASE queued = <<>> /\ buffer # <<>> /\ f = Head(buffer) /\ buffer' = Tail(buffer) /\ queued' = queued
  BY <1>2, TailFacts
<1> QED BY <1>1, <1>2 DEF Reads

LEMMA CallTakesFacts ==
  ASSUME NEW f \in ToSet(buffer), buffer \in Seq(BrokerFrame), CallTakes(f)
  PROVE  /\ f \in BrokerFrame /\ buffer' \in Seq(BrokerFrame)
         /\ buffer # <<>> /\ f = buffer[1] /\ buffer' = Tail(buffer) /\ at \in {"opening", "closing", "dying"}
  BY TailFacts DEF CallTakes, InCall

(* Where the program is neither connecting nor connected.                  *)
Early == {"connected", "start", "tune", "tuned"}
Begun == {"open", "opening", "ready", "publishing"}
Elsewhere == Phase \ (Early \union Begun \union {"aborted"})

-----------------------------------------------------------------------------
(* Types.                                                                  *)

(* Of a step that leaves the descriptors and the counters alone.           *)
TypedFrames ==
  /\ buffer \in Seq(BrokerFrame) /\ queued \in Seq(BrokerFrame) /\ unexpected \in BrokerFrame \union {NoFrame}
  /\ kernel \in Seq(BrokerFrame)
  /\ wire \in Seq(Sent)

TypedLimits == limits \in Limits /\ offered \in Limits /\ told \in Limits

TypedRest ==
  /\ at \in Phase /\ freed \in BOOLEAN
  /\ connects \in 0 .. MaxConnects
  /\ sockfd \in 0 .. connects /\ socketFD \in {0, sockfd}
  /\ open \subseteq 1 .. connects /\ taken \subseteq (1 .. connects) \ open
  /\ line \in {"up", "down"}
  /\ broker \in {"gone", "header", "start_ok", "tune_ok", "open", "opened", "closed"}
  /\ pushes \in 0 .. MaxPushes
  /\ line = "up" => broker # "gone" /\ connects > 0

LEMMA TypedParts ==
  TypedInv <=> TypedFrames /\ TypedLimits /\ TypedRest /\ PublisherInv /\ DescriptorInv
  BY DEF TypedInv, SessionTypeOK, TypedFrames, TypedLimits, TypedRest, DescriptorInv

LEMMA TypedPartsAgain ==
  TypedInv' <=> TypedFrames' /\ TypedLimits' /\ TypedRest' /\ PublisherInv' /\ DescriptorInv'
  BY DEF TypedInv, SessionTypeOK, TypedFrames, TypedLimits, TypedRest, DescriptorInv

LEMMA ToClientFacts ==
  ASSUME NEW k \in BrokerKind, NEW l \in Limits, kernel \in Seq(BrokerFrame),
         connects \in Nat \ {0}, ToClient(k, l)
  PROVE  /\ [kind |-> k, limits |-> l, on |-> connects] \in BrokerFrame
         /\ kernel' = Append(kernel, [kind |-> k, limits |-> l, on |-> connects])
         /\ kernel' \in Seq(BrokerFrame)
  BY AppendFacts DEF ToClient, BrokerFrame

LEMMA BrokerFrames ==
  TypedInv /\ Broker => TypedFrames' /\ offered' \in Limits
<1> SUFFICES ASSUME TypedInv, Broker PROVE TypedFrames' /\ offered' \in Limits
  OBVIOUS
<1>1. TypedFrames /\ TypedLimits /\ connects \in Nat /\ (line = "up" => connects \in Nat \ {0}) /\ NoLimits \in Limits
  BY TypedParts, LimitsFacts DEF TypedRest
<1>2. wire' \in Seq(Sent)
  <2>1. wire' = wire \/ (wire # <<>> /\ wire' = Tail(wire))
    BY DEF Broker, BrokerReads, BrokerStarts, BrokerRefusesVersion, BrokerTunes, BrokerIsTuned,
           BrokerOpens, BrokerIsClosed, BrokerIgnores, BrokerRefuses, BrokerPushes
  <2>2. wire \in Seq(Sent) /\ (wire # <<>> => Tail(wire) \in Seq(Sent))
    BY <1>1, TailFacts DEF TypedFrames
  <2> QED BY <2>1, <2>2
<1>3. buffer' = buffer /\ queued' = queued /\ unexpected' = unexpected
  BY DEF Broker, BrokerReads, BrokerStarts, BrokerRefusesVersion, BrokerTunes, BrokerIsTuned,
         BrokerOpens, BrokerIsClosed, BrokerIgnores, BrokerRefuses, BrokerPushes, received
<1>4. offered' \in Limits
  BY <1>1, SessionAssumption DEF Broker, BrokerReads, BrokerStarts, BrokerRefusesVersion, BrokerTunes, BrokerIsTuned,
         BrokerOpens, BrokerIsClosed, BrokerIgnores, BrokerRefuses, BrokerPushes, TypedLimits
<1>5. kernel' \in Seq(BrokerFrame)
  <2>1. line = "up"
    BY DEF Broker, BrokerReads, BrokerStarts, BrokerRefusesVersion, BrokerTunes, BrokerIsTuned,
         BrokerOpens, BrokerIsClosed, BrokerIgnores, BrokerRefuses, BrokerPushes
  <2>2. kernel' = kernel \/ \E k \in BrokerKind, l \in Limits : ToClient(k, l)
    BY <1>1, <1>4 DEF Broker, BrokerStarts, BrokerRefusesVersion, BrokerTunes, BrokerIsTuned,
         BrokerOpens, BrokerIsClosed, BrokerIgnores, BrokerRefuses, BrokerPushes, BrokerKind, TypedLimits
  <2> QED BY <1>1, <2>1, <2>2, ToClientFacts DEF TypedFrames
<1> QED BY <1>2, <1>3, <1>4, <1>5, <1>1 DEF TypedFrames

LEMMA BrokerTyped == TypedInv /\ Broker => TypedFrames' /\ TypedLimits' /\ TypedRest'
<1> SUFFICES ASSUME TypedInv, Broker PROVE TypedFrames' /\ TypedLimits' /\ TypedRest'
  OBVIOUS
<1> USE DEF BrokerReads, BrokerStarts, BrokerRefusesVersion, BrokerTunes, BrokerIsTuned,
            BrokerOpens, BrokerIsClosed, BrokerIgnores, BrokerRefuses, BrokerPushes
<1>1. TypedFrames /\ TypedLimits /\ TypedRest /\ MaxPushes \in Nat
  BY TypedParts, SessionAssumption
<1>2. UNCHANGED <<at, state, descriptors, connects, line>> /\ line = "up"
  BY DEF Broker
<1>3. /\ broker' \in {"gone", "header", "start_ok", "tune_ok", "open", "opened", "closed"}
      /\ broker' = "gone" => broker = "gone"
      /\ pushes' \in 0 .. MaxPushes
  BY <1>1 DEF Broker, TypedRest
<1>4. told' \in Limits
  <2>1. told' = told \/ (broker = "tune_ok" /\ wire # <<>> /\ Head(wire).kind = "tune_ok" /\ told' = Head(wire).data)
    BY DEF Broker
  <2>2. ASSUME wire # <<>>, Head(wire).kind = "tune_ok" PROVE Head(wire).data \in Limits
    <3>1. Head(wire) \in Sent
      BY <1>1, <2>2, TailFacts DEF TypedFrames
    <3> QED BY <2>2, <3>1 DEF Sent, Handshake, Content
  <2> QED BY <1>1, <2>1, <2>2 DEF TypedLimits
<1>5. TypedRest'
  BY <1>1, <1>2, <1>3 DEF TypedRest, state, descriptors, held
<1> QED BY <1>1, <1>2, <1>4, <1>5, BrokerFrames DEF TypedLimits, state

(* Steps of the program on its connection.                                 *)
LEMMA LoginTyped == TypedInv /\ Login => TypedFrames' /\ TypedLimits' /\ TypedRest'
<1> SUFFICES ASSUME TypedInv, Login PROVE TypedFrames' /\ TypedLimits' /\ TypedRest'
  OBVIOUS
<1>1. TypedFrames /\ TypedLimits /\ TypedRest
  BY TypedParts
<1> USE DEF SendHeader, StartOk, StartRefused, WaitMethodAborts, WaitMethodFails,
            Tune, TuneNoMemory, SendTuneOk, SendOpen, LoginDone
<1>2. TypedFrames'
  <2>1. wire' = wire \/ \E f \in Sent, ok \in BOOLEAN : Sends(f, ok)
    BY LimitsFacts, <1>1 DEF Login, TypedLimits, Handshake
  <2>2. kernel' = kernel
    BY DEF Login
  <2>3. \/ UNCHANGED <<buffer, queued, unexpected>>
        \/ \E f \in Readable : Reads(f) /\ unexpected' \in {unexpected, f}
        \/ \E f \in ToSet(buffer) : CallTakes(f) /\ UNCHANGED <<queued, unexpected>>
    BY DEF Login, received
  <2>4. wire' \in Seq(Sent)
    BY <1>1, <2>1, SendsFacts DEF TypedFrames
  <2>5. buffer' \in Seq(BrokerFrame) /\ queued' \in Seq(BrokerFrame) /\ unexpected' \in BrokerFrame \union {NoFrame}
    BY <1>1, <2>3, ReadsFacts, CallTakesFacts DEF TypedFrames
  <2> QED BY <1>1, <2>2, <2>4, <2>5 DEF TypedFrames
<1>3. TypedLimits'
  <2>1. /\ UNCHANGED <<offered, told>>
        /\ \/ limits' = limits
           \/ \E f \in Readable : Reads(f) /\
                limits' = [x \in DOMAIN limits |-> Negotiated(ClientLimits[x], f.limits[x])]
    BY DEF Login, state, brokerVars
  <2>2. ASSUME NEW f \in Readable, Reads(f),
               limits' = [x \in DOMAIN limits |-> Negotiated(ClientLimits[x], f.limits[x])]
        PROVE  limits' \in Limits
    <3>1. f.limits \in Limits
      BY <1>1, <2>2, ReadsFacts DEF TypedFrames, BrokerFrame
    <3> QED BY <1>1, <2>2, <3>1, NegotiatedLimits DEF TypedLimits
  <2> QED BY <1>1, <2>1, <2>2 DEF TypedLimits
<1>4. TypedRest'
  <2>1. CASE TuneNoMemory
    BY <1>1, <2>1 DEF TypedRest, brokerVars, Phase
  <2>2. CASE ~TuneNoMemory
    <3>1. UNCHANGED <<freed, sockfd, held, connects, line, brokerVars>>
      BY <2>2 DEF Login, state, descriptors, held
    <3>2. at' \in Phase
      BY DEF Login, Phase, Released
    <3> QED BY <1>1, <3>1, <3>2 DEF TypedRest, held, brokerVars
  <2> QED BY <2>1, <2>2
<1> QED BY <1>2, <1>3, <1>4

LEMMA CallTyped == TypedInv /\ Call => TypedFrames' /\ TypedLimits' /\ TypedRest'
<1> SUFFICES ASSUME TypedInv, Call PROVE TypedFrames' /\ TypedLimits' /\ TypedRest'
  OBVIOUS
<1>1. TypedFrames /\ TypedLimits /\ TypedRest
  BY TypedParts
<1> USE DEF CallRefused, CallSetsAside, CallNoMemory, CallGetsNothing
<1>2. UNCHANGED <<state, descriptors, connects, kernel, wire, line, brokerVars, unexpected>>
  BY DEF Call, received
<1>3. at' \in Phase
  BY <1>1 DEF Call, CallFails, Phase, TypedRest
<1>4. /\ buffer' = buffer \/ \E f \in ToSet(buffer) : CallTakes(f)
      /\ queued' = queued \/ \E f \in ToSet(buffer) : CallTakes(f) /\ queued' = Append(queued, f)
  BY DEF Call, received
<1>5. buffer' \in Seq(BrokerFrame) /\ queued' \in Seq(BrokerFrame)
  <2>1. buffer' \in Seq(BrokerFrame)
    BY <1>1, <1>4, CallTakesFacts DEF TypedFrames
  <2>2. ASSUME NEW f \in ToSet(buffer), CallTakes(f), queued' = Append(queued, f)
        PROVE  queued' \in Seq(BrokerFrame)
    BY <1>1, <2>2, CallTakesFacts, AppendFacts DEF TypedFrames
  <2> QED BY <1>1, <1>4, <2>1, <2>2 DEF TypedFrames
<1> QED BY <1>1, <1>2, <1>3, <1>5
        DEF TypedFrames, TypedLimits, TypedRest, state, descriptors, held, brokerVars

(* Closing a descriptor of the object.                                     *)
LEMMA ClosesTyped ==
  ASSUME TypedRest, kernel \in Seq(BrokerFrame), NEW d \in {socketFD, sockfd}, Closes(d)
  PROVE  /\ open' \subseteq open /\ line' \in {line, "down"} /\ kernel' \in {kernel, <<>>}
         /\ kernel' \in Seq(BrokerFrame)
  BY EmptySeq DEF TypedRest, Closes

LEMMA EndsTyped == TypedInv /\ Ends => TypedFrames' /\ TypedLimits' /\ TypedRest'
<1> SUFFICES ASSUME TypedInv, Ends PROVE TypedFrames' /\ TypedLimits' /\ TypedRest'
  OBVIOUS
<1>1. TypedFrames /\ TypedLimits /\ TypedRest
  BY TypedParts
<1>2. UNCHANGED <<limits, sockfd, socketFD, taken, connects, queued, unexpected, brokerVars>>
  BY DEF Ends, Disconnect, Dealloc, SendClose, DisconnectDone, Destroy, UseAfterFree,
         state, received, descriptors, held
<1>3. freed' \in BOOLEAN /\ at' \in Phase
  BY <1>1 DEF Ends, Disconnect, Dealloc, SendClose, DisconnectDone, Destroy, UseAfterFree,
              state, Phase, TypedRest
<1>4. buffer' \in Seq(BrokerFrame)
  <2>1. buffer' = buffer \/ \E f \in ToSet(buffer) : CallTakes(f)
    BY DEF Ends, Disconnect, Dealloc, SendClose, DisconnectDone, Destroy, UseAfterFree, received
  <2> QED BY <1>1, <2>1, CallTakesFacts DEF TypedFrames
<1>5. wire' \in Seq(Sent)
  <2>1. wire' = wire \/ \E ok \in BOOLEAN : Sends(Method("close", NoLimits), ok)
    BY DEF Ends, Disconnect, Dealloc, SendClose, DisconnectDone, Destroy, UseAfterFree
  <2>2. Method("close", NoLimits) \in Sent /\ wire \in Seq(Sent)
    BY <1>1, LimitsFacts DEF TypedFrames
  <2> QED BY <2>1, <2>2, SendsFacts
<1>6. /\ open' \subseteq open /\ line' \in {line, "down"} /\ kernel' \in Seq(BrokerFrame)
  <2>1. CASE Disconnect \/ Dealloc
    BY <1>1, <2>1 DEF Disconnect, Dealloc, SendClose, held, TypedFrames, TypedRest
  <2>2. CASE UseAfterFree
    BY <1>1, <2>2 DEF UseAfterFree, descriptors, held, TypedFrames, TypedRest
  <2>3. CASE DisconnectDone
    BY <1>1, <2>3, ClosesTyped DEF DisconnectDone, TypedFrames
  <2>4. CASE Destroy
    BY <1>1, <2>4, ClosesTyped DEF Destroy, TypedFrames
  <2> QED BY <2>1, <2>2, <2>3, <2>4 DEF Ends
<1> QED BY <1>1, <1>2, <1>3, <1>4, <1>5, <1>6 DEF TypedFrames, TypedLimits, TypedRest, brokerVars

LEMMA SplitTyped ==
  ASSUME NEW s \in Seq(BrokerFrame), NEW n \in 1 .. Len(s)
  PROVE  /\ SubSeq(s, 1, n) \in Seq(BrokerFrame) /\ SubSeq(s, n + 1, Len(s)) \in Seq(BrokerFrame)
         /\ Len(SubSeq(s, 1, n)) = n /\ Len(SubSeq(s, n + 1, Len(s))) = Len(s) - n
         /\ \A i \in 1 .. n : SubSeq(s, 1, n)[i] = s[i]
         /\ \A i \in 1 .. Len(s) - n : SubSeq(s, n + 1, Len(s))[i] = s[n + i]
  OBVIOUS

LEMMA OthersTyped ==
  TypedInv /\ (ConnectToHost \/ ConnectFails \/ OtherOpens \/ Recv \/ LineFails)
    => TypedFrames' /\ TypedLimits' /\ TypedRest'
<1> SUFFICES ASSUME TypedInv, ConnectToHost \/ ConnectFails \/ OtherOpens \/ Recv \/ LineFails
             PROVE  TypedFrames' /\ TypedLimits' /\ TypedRest'
  OBVIOUS
<1>1. TypedFrames /\ TypedLimits /\ TypedRest /\ MaxConnects \in Nat /\ MaxPushes \in Nat /\ NoLimits \in Limits
  BY TypedParts, SessionAssumption, LimitsFacts
<1> USE DEF TypedFrames, TypedLimits, TypedRest, state, descriptors, held, received, brokerVars, Phase
<1>2. CASE ConnectToHost
  <2>1. connects' \in 1 .. MaxConnects /\ connects' = connects + 1
    BY <1>1, <1>2 DEF ConnectToHost
  <2>2. <<>> \in Seq(BrokerFrame) /\ <<>> \in Seq(Sent)
    BY EmptySeq
  <2> QED BY <1>1, <1>2, <2>1, <2>2 DEF ConnectToHost
<1>3. CASE ConnectFails
  BY <1>1, <1>3 DEF ConnectFails
<1>4. CASE OtherOpens
  BY <1>1, <1>4 DEF OtherOpens
<1>5. CASE Recv
  BY <1>1, <1>5, SplitTyped DEF Recv
<1>6. CASE LineFails
  BY <1>1, <1>6, EmptySeq DEF LineFails
<1> QED BY <1>2, <1>3, <1>4, <1>5, <1>6

(* The program publishes with what it was given.                            *)
LEMMA SessionPublisher ==
  TypedInv /\ SessionStep => PublisherInv'
<1> SUFFICES ASSUME TypedInv, SessionStep PROVE PublisherInv'
  OBVIOUS
<1>1. PublisherInv /\ UNCHANGED <<published, next, body_offset>> /\ SessionNext
  BY TypedParts DEF SessionStep, publisher
<1>2. (at' \in Underway) = (at \in Underway) /\ (at \in Underway => limits' = limits)
  <2> USE DEF Underway
  <2>1. CASE Login
    BY <2>1 DEF Login, SendHeader, StartOk, StartRefused, WaitMethodAborts, WaitMethodFails,
                Tune, TuneNoMemory, SendTuneOk, SendOpen, LoginDone, Released, CallTakes, InCall
  <2>2. CASE Call
    BY <2>2 DEF Call, CallRefused, CallSetsAside, CallNoMemory, CallGetsNothing, CallFails,
                CallTakes, InCall, state
  <2>3. CASE Ends
    BY <2>3 DEF Ends, Disconnect, Dealloc, SendClose, DisconnectDone, Destroy, UseAfterFree, Idle, state
  <2>4. CASE Broker
    BY <2>4 DEF Broker, BrokerReads, BrokerStarts, BrokerRefusesVersion, BrokerTunes, BrokerIsTuned,
                BrokerOpens, BrokerIsClosed, BrokerIgnores, BrokerRefuses, BrokerPushes, state
  <2>5. CASE ConnectToHost \/ ConnectFails \/ OtherOpens \/ Recv \/ LineFails
    BY <2>5 DEF ConnectToHost, ConnectFails, OtherOpens, Recv, LineFails, Unconnected, state
  <2> QED BY <1>1, <2>1, <2>2, <2>3, <2>4, <2>5 DEF SessionNext
<1>5. connects > 0 => connects' > 0
  <2>1. connects' = connects \/ (connects \in Nat /\ connects' = connects + 1)
    BY <1>1, TypedParts DEF SessionNext, Login, SendHeader, StartOk, StartRefused, WaitMethodAborts,
           WaitMethodFails, Tune, TuneNoMemory, SendTuneOk, SendOpen, LoginDone,
           Call, CallRefused, CallSetsAside, CallNoMemory, CallGetsNothing,
           Ends, Disconnect, Dealloc, SendClose, DisconnectDone, Destroy, UseAfterFree,
           Broker, BrokerReads, BrokerStarts, BrokerRefusesVersion, BrokerTunes, BrokerIsTuned,
           BrokerOpens, BrokerIsClosed, BrokerIgnores, BrokerRefuses, BrokerPushes,
           ConnectToHost, ConnectFails, OtherOpens, Recv, LineFails, DescriptorInv
  <2> QED BY <2>1
<1>3. CASE at \in Underway
  BY <1>1, <1>2, <1>3, <1>5 DEF PublisherInv, Body, Current
<1>4. CASE at \notin Underway
  BY <1>1, <1>2, <1>4, <1>5 DEF PublisherInv, Body, Current
<1> QED BY <1>3, <1>4

(* The message that is being published.                                    *)
LEMMA CurrentFacts ==
  ASSUME PublisherInv, published # <<>>
  PROVE  /\ Current \in DOMAIN published /\ Current \in Nat /\ Current > 0
         /\ published[Current] \in Publication
         /\ published[Current].message.header \in Nat /\ Body \in Nat
<1>1. published \in Seq(Publication) /\ Len(published) \in Nat \ {0} /\ DOMAIN published = 1 .. Len(published)
  BY LenProperties, EmptySeq DEF PublisherInv
<1>2. published[Len(published)] \in Publication
  BY <1>1, ElementOfSeq
<1>3. published[Len(published)].message \in [size : Nat, header : Nat]
  BY <1>2, PublishAssumption DEF Publication
<1> QED BY <1>1, <1>2, <1>3 DEF Current, Body

(* A frame of a publish: the method, the header, or a piece that brings    *)
(* the body closer to its end.                                             *)
MethodFrame == Method("publish", Part(0, 0))
HeaderFrame == ClientFrame("header frame", published[Current].message.header, Part(0, Body))
PieceEnd == body_offset + Fragment(Body - body_offset)
BodyFrame == ClientFrame("body", PieceEnd - body_offset + Overhead, Part(body_offset, PieceEnd))

LEMMA FrameFacts ==
  ASSUME PublisherInv, limits \in Limits, next # "none"
  PROVE  /\ MethodFrame \in Sent /\ MethodFrame.kind = "publish" /\ MethodFrame.size = MethodSize
         /\ MethodFrame.data = Part(0, 0)
         /\ HeaderFrame \in Sent /\ HeaderFrame.kind = "header frame" /\ HeaderFrame.data = Part(0, Body)
         /\ next = "body" =>
              /\ BodyFrame \in Sent /\ BodyFrame.kind = "body" /\ BodyFrame.data = Part(body_offset, PieceEnd)
              /\ BodyFrame.size <= limits.frame_max
              /\ PieceEnd \in Nat /\ body_offset < PieceEnd /\ PieceEnd <= Body
<1>1. Current \in Nat /\ Body \in Nat /\ published[Current].message.header \in Nat
      /\ MethodSize \in Nat /\ MethodSize > Overhead /\ limits.frame_max \in Nat /\ body_offset \in Nat
  BY CurrentFacts, SessionAssumption, PublishAssumption DEF PublisherInv, Limits
<1>2. ASSUME next = "body"
      PROVE  /\ PieceEnd \in Nat /\ body_offset < PieceEnd /\ PieceEnd <= Body
             /\ PieceEnd - body_offset + Overhead \in Nat /\ PieceEnd - body_offset + Overhead <= limits.frame_max
  <2>1. body_offset < Body /\ Overhead < limits.frame_max /\ Overhead = 8
    BY <1>1, <1>2 DEF PublisherInv, Overhead
  <2>2. PICK r \in Nat : r = Body - body_offset /\ r > 0
    BY <1>1, <2>1
  <2>3. PICK u \in Nat : u = limits.frame_max - Overhead /\ u > 0
    BY <1>1, <2>1
  <2>4. PieceEnd = body_offset + Least(r, u)
    BY <2>2, <2>3 DEF PieceEnd, Fragment
  <2> QED BY <1>1, <2>1, <2>2, <2>3, <2>4 DEF Least
<1>3. Part(0, 0) \in Parts /\ Part(0, Body) \in Parts /\ (next = "body" => Part(body_offset, PieceEnd) \in Parts)
  BY <1>1, <1>2 DEF Part, Parts
<1> HIDE DEF Overhead
<1> QED BY <1>1, <1>2, <1>3 DEF MethodFrame, HeaderFrame, BodyFrame, Method, ClientFrame, Sent, Content

LEMMA PieceFacts ==
  ASSUME PublisherInv, limits \in Limits, next = "body"
  PROVE  /\ BodyFrame \in Sent /\ BodyFrame.kind = "body" /\ BodyFrame.data = Part(body_offset, PieceEnd)
         /\ BodyFrame.data.to = PieceEnd /\ BodyFrame.size <= limits.frame_max
         /\ PieceEnd \in Nat /\ body_offset < PieceEnd /\ PieceEnd <= Body
<1>1. /\ BodyFrame \in Sent /\ BodyFrame.kind = "body" /\ BodyFrame.data = Part(body_offset, PieceEnd)
      /\ BodyFrame.size <= limits.frame_max
      /\ PieceEnd \in Nat /\ body_offset < PieceEnd /\ PieceEnd <= Body
  BY FrameFacts
<1> QED BY <1>1 DEF Part

(* A step of a publish sends one of them, and goes on or returns.          *)
SentFrame ==
  CASE next = "method" -> MethodFrame [] next = "header" -> HeaderFrame [] OTHER -> BodyFrame

PublishStep ==
  \E ok \in BOOLEAN :
    LET more == CASE next = "method" -> "header"
                  [] next = "header" -> IF Body = 0 THEN "none" ELSE "body"
                  [] OTHER -> IF PieceEnd = Body THEN "none" ELSE "body"
        returns == ~ok \/ more = "none"
    IN /\ next # "none"
       /\ Sends(SentFrame, ok)
       /\ next' = IF returns THEN "none" ELSE more
       /\ at' = IF ~returns THEN at ELSE IF at = "astray" THEN "closed" ELSE "ready"
       /\ published' = IF ~returns THEN published
                       ELSE [published EXCEPT ![Current].result = IF ok THEN "ok" ELSE "error"]
       /\ body_offset' = IF returns THEN 0 ELSE IF next = "body" THEN PieceEnd ELSE 0

LEMMA PublishStepFacts ==
  TypedInv /\ (SendMethod \/ SendHeaderFrame \/ SendBody)
    => PublishStep /\ UNCHANGED <<state, held, connects, received, kernel, line, brokerVars, contents>>
<1> SUFFICES ASSUME TypedInv, SendMethod \/ SendHeaderFrame \/ SendBody
             PROVE  PublishStep /\ UNCHANGED <<state, held, connects, received, kernel, line, brokerVars, contents>>
  OBVIOUS
<1>1. PublisherInv /\ limits \in Limits
  BY TypedParts DEF TypedLimits
<1>2. CASE SendMethod
  <2>1. next = "method" /\ Continues(MethodFrame, "header") /\ MethodFrame.kind # "body"
    BY <1>1, <1>2, FrameFacts DEF SendMethod, MethodFrame
  <2> QED BY <1>2, <2>1 DEF SendMethod, Continues, PublishStep, SentFrame
<1>3. CASE SendHeaderFrame
  <2>1. next = "header" /\ Continues(HeaderFrame, IF Body = 0 THEN "none" ELSE "body") /\ HeaderFrame.kind # "body"
    BY <1>1, <1>3, FrameFacts DEF SendHeaderFrame, HeaderFrame
  <2> QED BY <1>3, <2>1 DEF SendHeaderFrame, Continues, PublishStep, SentFrame
<1>4. CASE SendBody
  <2>1. next = "body" /\ Continues(BodyFrame, IF PieceEnd = Body THEN "none" ELSE "body")
    BY <1>4 DEF SendBody, BodyFrame, PieceEnd
  <2>2. BodyFrame.kind = "body" /\ BodyFrame.data.to = PieceEnd
    BY <1>1, <2>1, PieceFacts
  <2>3. SentFrame = BodyFrame
    BY <2>1 DEF SentFrame
  <2>4. PICK ok \in BOOLEAN :
          LET more == IF PieceEnd = Body THEN "none" ELSE "body"
              returns == ~ok \/ more = "none"
          IN /\ Sends(BodyFrame, ok)
             /\ next' = IF returns THEN "none" ELSE more
             /\ at' = IF ~returns THEN at ELSE IF at = "astray" THEN "closed" ELSE "ready"
             /\ published' = IF ~returns THEN published
                             ELSE [published EXCEPT ![Current].result = IF ok THEN "ok" ELSE "error"]
             /\ body_offset' = IF returns THEN 0 ELSE PieceEnd
    BY <2>1, <2>2 DEF Continues
  <2>5. PublishStep
    BY <2>1, <2>3, <2>4 DEF PublishStep
  <2> QED BY <1>4, <2>5 DEF SendBody
<1> QED BY <1>2, <1>3, <1>4

LEMMA PublishStepTyped ==
  TypedInv /\ PublishStep /\ UNCHANGED <<state, held, connects, received, kernel, line, brokerVars, contents>>
    => TypedFrames' /\ TypedLimits' /\ TypedRest' /\ PublisherInv'
<1> SUFFICES ASSUME TypedInv, PublishStep,
                    UNCHANGED <<state, held, connects, received, kernel, line, brokerVars, contents>>
             PROVE  TypedFrames' /\ TypedLimits' /\ TypedRest' /\ PublisherInv'
  OBVIOUS
<1>1. TypedFrames /\ TypedLimits /\ TypedRest /\ PublisherInv /\ limits \in Limits
  BY TypedParts DEF TypedLimits
<1>2. next # "none" /\ published # <<>> /\ SentFrame \in Sent
  <2>1. next # "none" /\ next \in {"none", "method", "header", "body"}
    BY <1>1 DEF PublishStep, PublisherInv
  <2>2. (SentFrame = MethodFrame \/ SentFrame = HeaderFrame) \/ (next = "body" /\ SentFrame = BodyFrame)
    BY <2>1 DEF SentFrame
  <2> QED BY <1>1, <2>1, <2>2, FrameFacts DEF PublisherInv
<1>3. wire' \in Seq(Sent) /\ at' \in {"ready", "closed"} \union Underway
  <2>0. at \in Underway
    BY <1>1, <1>2 DEF PublisherInv
  <2>1. \E ok \in BOOLEAN : Sends(SentFrame, ok) /\ at' \in {"ready", "closed"} \union Underway
    BY <2>0 DEF PublishStep
  <2> QED BY <1>1, <1>2, <2>1, SendsFacts DEF TypedFrames
<1>4. TypedFrames' /\ TypedLimits' /\ TypedRest'
  BY <1>1, <1>3 DEF TypedFrames, TypedLimits, TypedRest, Phase, Underway, state, held, received, brokerVars
<1>5. PICK ok \in BOOLEAN :
        LET more == CASE next = "method" -> "header"
                      [] next = "header" -> IF Body = 0 THEN "none" ELSE "body"
                      [] OTHER -> IF PieceEnd = Body THEN "none" ELSE "body"
            returns == ~ok \/ more = "none"
        IN /\ Sends(SentFrame, ok)
           /\ next' = IF returns THEN "none" ELSE more
           /\ at' = IF ~returns THEN at ELSE IF at = "astray" THEN "closed" ELSE "ready"
           /\ published' = IF ~returns THEN published
                           ELSE [published EXCEPT ![Current].result = IF ok THEN "ok" ELSE "error"]
           /\ body_offset' = IF returns THEN 0 ELSE IF next = "body" THEN PieceEnd ELSE 0
  BY DEF PublishStep
<1>6. CASE next' = "none"
  <2>1. at' \notin Underway /\ body_offset' = 0 /\ \E r \in {"ok", "error"} : published' = [published EXCEPT ![Current].result = r]
    BY <1>5, <1>6 DEF Underway
  <2>2. PICK r \in {"ok", "error"} : published' = [published EXCEPT ![Current].result = r]
    BY <2>1
  <2>3. published' \in Seq(Publication)
    <3>1. [published[Current] EXCEPT !.result = r] \in Publication
      BY <1>1, <1>2, CurrentFacts DEF Publication
    <3>2. published' = [published EXCEPT ![Current] = [published[Current] EXCEPT !.result = r]]
      BY <2>2
    <3>3. Current \in 1 .. Len(published) /\ published \in Seq(Publication)
      BY <1>1, <1>2, CurrentFacts, LenProperties DEF PublisherInv
    <3> HIDE DEF Current
    <3> QED BY <3>1, <3>2, <3>3, ExceptSeq
  <2>4. connects' > 0
    BY <1>1, <1>2 DEF PublisherInv
  <2> QED BY <1>4, <1>6, <2>1, <2>3, <2>4 DEF PublisherInv
<1>7. CASE next' # "none"
  <2>1. published' = published /\ at' = at /\ at \in Underway /\ next' \in {"header", "body"} /\ ok
    BY <1>1, <1>2, <1>5, <1>7 DEF PublisherInv
  <2>2. MethodSize <= limits'.frame_max
    <3>1. CASE next = "method"
      <4>1. SentFrame = MethodFrame /\ MethodFrame.size = MethodSize /\ MethodFrame.kind # "body"
        BY <1>1, <1>2, <3>1, FrameFacts DEF SentFrame
      <4>2. Fits(SentFrame)
        BY <1>1, <1>2, <1>5, <2>1, SendsFacts DEF TypedFrames
      <4> QED BY <4>1, <4>2 DEF Fits, state
    <3>2. CASE next # "method"
      BY <1>1, <1>2, <3>2 DEF PublisherInv, state
    <3> QED BY <3>1, <3>2
  <2>3. /\ body_offset' \in Nat /\ (next' = "header" => body_offset' = 0)
        /\ next' = "body" => body_offset' < Body
    <3>1. CASE next = "method"
      BY <1>5, <2>1, <3>1
    <3>2. CASE next = "header"
      <4>1. Body \in Nat /\ Body # 0 /\ next' = "body" /\ body_offset' = 0
        BY <1>1, <1>2, <1>5, <2>1, <3>2, CurrentFacts
      <4> QED BY <4>1
    <3>3. CASE next = "body"
      <4>1. next' = "body" /\ body_offset' = PieceEnd /\ PieceEnd # Body
        BY <1>5, <2>1, <3>3
      <4>2. PieceEnd \in Nat /\ PieceEnd <= Body /\ Body \in Nat
        BY <1>1, <1>2, <3>3, PieceFacts, CurrentFacts
      <4> QED BY <4>1, <4>2
    <3> QED BY <1>1, <1>2, <3>1, <3>2, <3>3 DEF PublisherInv
  <2>4. Body' = Body
    BY <2>1 DEF Body, Current
  <2> QED BY <1>1, <1>2, <1>4, <2>1, <2>2, <2>3, <2>4 DEF PublisherInv
<1> QED BY <1>4, <1>6, <1>7

LEMMA StartPublishTyped ==
  TypedInv /\ StartPublish => TypedFrames' /\ TypedLimits' /\ TypedRest' /\ PublisherInv'
<1> SUFFICES ASSUME TypedInv, StartPublish
             PROVE  TypedFrames' /\ TypedLimits' /\ TypedRest' /\ PublisherInv'
  OBVIOUS
<1>1. TypedFrames /\ TypedLimits /\ TypedRest /\ PublisherInv /\ DescriptorInv
  BY TypedParts
<1>2. TypedFrames' /\ TypedLimits' /\ TypedRest'
  BY <1>1 DEF StartPublish, Underway, TypedFrames, TypedLimits, TypedRest, Phase, state, descriptors, held, received, brokerVars
<1>3. connects \in 1 .. MaxConnects
  <2>1. open \subseteq 1 .. connects /\ connects \in 0 .. MaxConnects /\ MaxConnects \in Nat
    BY <1>1, SessionAssumption DEF TypedRest
  <2>2. CASE Stranded
    BY <1>1, <2>1, <2>2 DEF Stranded, PublisherInv
  <2>3. CASE at = "ready"
    BY <1>1, <2>1, <2>3 DEF DescriptorInv, Connected
  <2> QED BY <2>2, <2>3 DEF StartPublish
<1>4. PICK m \in Messages : published' = Append(published, [message |-> m, on |-> connects, result |-> "none"])
  BY DEF StartPublish
<1>5. [message |-> m, on |-> connects, result |-> "none"] \in Publication
  BY <1>3 DEF Publication
<1>6. published \in Seq(Publication) /\ next = "none"
  BY <1>1 DEF PublisherInv, StartPublish, Stranded, Underway
<1>7. published' \in Seq(Publication) /\ published' # <<>>
  BY <1>4, <1>5, <1>6
<1>8. body_offset' = body_offset /\ next' = "method" /\ at' \in Underway /\ connects' > 0
  BY <1>3 DEF StartPublish, Underway
<1> QED BY <1>1, <1>2, <1>7, <1>8 DEF PublisherInv

Takings == BrokerTakesMethod \/ BrokerIsInterrupted \/ BrokerTakesHeader \/ BrokerTakesBody

LEMMA TakingFacts ==
  Takings => /\ line = "up" /\ broker = "opened" /\ wire # <<>> /\ wire' = Tail(wire)
             /\ UNCHANGED <<at, state, descriptors, connects, received, line, pushes, offered, told, publisher>>
             /\ \/ kernel' = kernel /\ broker' = "opened"
                \/ ToClient("close", NoLimits) /\ broker' = "closed"
  BY DEF Takings, BrokerTakesMethod, BrokerIsInterrupted, BrokerTakesHeader, BrokerTakesBody, BrokerReads

LEMMA TakingTyped ==
  TypedInv /\ Takings => TypedFrames' /\ TypedLimits' /\ TypedRest' /\ PublisherInv'
<1> SUFFICES ASSUME TypedInv, Takings
             PROVE  TypedFrames' /\ TypedLimits' /\ TypedRest' /\ PublisherInv'
  OBVIOUS
<1>1. TypedFrames /\ TypedLimits /\ TypedRest /\ PublisherInv
  BY TypedParts
<1>2. wire' \in Seq(Sent)
  <2>1. wire \in Seq(Sent) /\ wire # <<>> /\ wire' = Tail(wire)
    BY <1>1, TakingFacts DEF TypedFrames
  <2> QED BY <2>1, TailFacts
<1>3. kernel' \in Seq(BrokerFrame)
  <2>1. connects \in Nat \ {0}
    BY <1>1, TakingFacts DEF TypedRest
  <2> QED BY <1>1, <2>1, TakingFacts, ToClientFacts, LimitsFacts DEF TypedFrames, BrokerKind
<1>4. /\ UNCHANGED <<at, state, descriptors, connects, received, line, pushes, offered, told, publisher>>
      /\ broker' \in {"opened", "closed"}
  BY TakingFacts
<1>5. TypedFrames' /\ TypedLimits'
  BY <1>1, <1>2, <1>3, <1>4 DEF TypedFrames, TypedLimits, state, received
<1>6. TypedRest'
  BY <1>1, <1>4 DEF TypedRest, state, descriptors, held
<1>7. PublisherInv'
  BY <1>1, <1>4 DEF PublisherInv, Body, Current, publisher, state
<1> QED BY <1>5, <1>6, <1>7

LEMMA TypedInit == PublishInit => TypedInv
<1> SUFFICES ASSUME PublishInit PROVE TypedInv
  OBVIOUS
<1> USE DEF PublishInit, SessionInit
<1>1. DescriptorInv
  BY DescriptorInit
<1>2. limits \in Limits /\ offered \in Limits /\ told \in Limits
  BY SessionAssumption DEF Limits, NoLimits
<1>3. <<>> \in Seq(BrokerFrame) /\ <<>> \in Seq(Sent) /\ <<>> \in Seq(Publication)
  BY EmptySeq
<1>4. TypedFrames
  BY <1>3 DEF TypedFrames
<1>5. TypedRest
  <2>1. MaxConnects \in Nat /\ MaxPushes \in Nat
    BY SessionAssumption
  <2>2. at \in Phase
    BY DEF Phase
  <2>3. connects = 0 /\ pushes = 0 /\ sockfd = 0 /\ socketFD = 0 /\ open = {} /\ taken = {} /\ foreign = {}
        /\ freed = FALSE /\ line = "down" /\ broker = "gone"
    OBVIOUS
  <2>4. connects \in 0 .. MaxConnects /\ pushes \in 0 .. MaxPushes /\ sockfd \in 0 .. connects
    BY <2>1, <2>3
  <2>5. /\ open \subseteq 1 .. connects /\ taken \subseteq (1 .. connects) \ open
    BY <2>3
  <2> HIDE DEF PublishInit, SessionInit
  <2> QED BY <2>2, <2>3, <2>4, <2>5 DEF TypedRest
<1>6. PublisherInv
  BY <1>3 DEF PublisherInv, Underway
<1> QED BY <1>1, <1>2, <1>4, <1>5, <1>6, TypedParts DEF TypedLimits

LEMMA TypedStep == TypedInv /\ [PublishNext]_publishVars => TypedInv'
<1> SUFFICES ASSUME TypedInv, [PublishNext]_publishVars PROVE TypedInv'
  OBVIOUS
<1>1. DescriptorInv'
  BY DescriptorStep, TypedParts
<1>2. CASE SessionStep
  <2>1. TypedFrames' /\ TypedLimits' /\ TypedRest'
    BY <1>2, LoginTyped, CallTyped, EndsTyped, BrokerTyped, OthersTyped DEF SessionStep, SessionNext
  <2> QED BY <1>1, <1>2, <2>1, SessionPublisher, TypedPartsAgain
<1>3. CASE amqp_basic_publish
  <2>1. TypedFrames' /\ TypedLimits' /\ TypedRest' /\ PublisherInv'
    BY <1>3, StartPublishTyped, PublishStepFacts, PublishStepTyped DEF amqp_basic_publish
  <2> QED BY <1>1, <2>1, TypedPartsAgain
<1>4. CASE Takings
  BY <1>1, <1>4, TakingTyped, TypedPartsAgain
<1>5. CASE UNCHANGED publishVars
  <2>1. TypedFrames /\ TypedLimits /\ TypedRest /\ PublisherInv
    BY TypedParts
  <2>2. TypedFrames' /\ TypedLimits' /\ TypedRest' /\ PublisherInv'
    BY <1>5, <2>1 DEF publishVars, sessionVars, publisher, TypedFrames, TypedLimits, TypedRest, PublisherInv,
                      Body, Current, state, descriptors, held, received, brokerVars
  <2> QED BY <1>1, <2>2, TypedPartsAgain
<1> QED BY <1>2, <1>3, <1>4, <1>5 DEF PublishNext, Takings

-----------------------------------------------------------------------------
(* The login.  What an earlier connection left behind is in the queue and, *)
(* as long as nothing was received, in the buffer; what is coming is from  *)
(* this connection.                                                        *)
Starts == {"start", "otherStart"}
IsStale == buffer # <<>> /\ buffer[1].on # connects
Coming == IF IsStale THEN kernel ELSE buffer \o kernel

AgeInv ==
  /\ \A i \in DOMAIN kernel : kernel[i].on = connects
  /\ \A i \in DOMAIN buffer : buffer[i].on <= connects /\ buffer[i].on = buffer[1].on
  /\ \A i \in DOMAIN queued : queued[i].on <= connects /\ queued[i].kind \notin Starts
  /\ IsStale => \A i \in DOMAIN buffer : buffer[i].kind \notin Starts

(* The login reads nothing old once it got its start.                      *)
LeftInv ==
  /\ at \in {"connected", "start"} => \A i \in DOMAIN queued : queued[i].on # connects
  /\ at \in {"tune", "tuned"} => queued = <<>>
  /\ at \in {"tune", "tuned"} \union Begun => ~IsStale

(* What the broker's frames mean.                                          *)
Opened == told = limits /\ broker \in {"opened", "closed"} /\ at \notin Early
Means(f) ==
  /\ f.kind \in Starts => at \in {"start", "aborted"}
  /\ f.kind = "tune" => f.limits = offered /\ broker \notin {"header", "start_ok"}
  /\ f.kind = "open_ok" => Opened
ComingInv == \A i \in DOMAIN Coming : Means(Coming[i])

(* The order in which they come.                                           *)
FirstInv ==
  /\ at = "connected" => Coming = <<>> /\ broker = "header" /\ wire = <<>>
  /\ at = "start" =>
       IF broker = "header" THEN Coming = <<>>
       ELSE /\ Coming # <<>> /\ Coming[1].kind \in Starts \union {"protocol"}
            /\ Coming[1].kind = "protocol" => broker = "closed"
            /\ \A i \in 2 .. Len(Coming) : Coming[i].kind \notin Starts
            /\ Coming[1].kind \in Starts =>
                 IF broker = "start_ok" THEN Len(Coming) = 1
                 ELSE Len(Coming) > 1 /\ Coming[2].kind \in {"tune", "close"}
  /\ at = "start" => \A i \in DOMAIN wire : wire[i].kind = "header" => i = 1
  /\ at = "tune" =>
       /\ broker # "header"
       /\ IF broker = "start_ok" THEN Coming = <<>>
          ELSE Coming # <<>> /\ Coming[1].kind \in {"tune", "close"}

(* What both sides know of the limits.                                     *)
BothMax == SmallerLimit(ClientLimits.frame_max, offered.frame_max)
Agreed ==
  \A x \in DOMAIN limits :
    limits[x] = IF ClientLimits[x] = 0 THEN 0 ELSE SmallerLimit(ClientLimits[x], offered[x])
TunedInv ==
  /\ at \in {"tuned"} \union Begun =>
       Agreed /\ limits.frame_max = BothMax /\ broker \notin {"header", "start_ok"}
  /\ broker \in {"open", "opened"} => told = limits /\ at \notin Early \union {"aborted"}
  /\ at \in {"ready", "publishing"} => Opened

(* What the client's frames mean.                                          *)
Says(f) ==
  /\ f.kind = "header" => at \in {"start", "aborted"} /\ broker = "header" /\ line = "up"
  /\ f.kind = "tune_ok" => f.data = limits /\ at \notin Early
  /\ f.kind = "close" => at \notin Early \union Begun \union {"aborted"}
  /\ f.kind \in Content \union {"open"} =>
       broker \notin {"header", "start_ok"} /\ at \notin Early /\ f.size <= BothMax
WireInv == \A i \in DOMAIN wire : Says(wire[i])

LoginInv ==
  TypedInv /\ AgeInv /\ LeftInv /\ ComingInv /\ FirstInv /\ TunedInv /\ WireInv /\ AbortsForCause

(* The frames to come, as a step changes them.                             *)
LEMMA ComingTyped ==
  ASSUME TypedFrames
  PROVE  /\ Coming \in Seq(BrokerFrame) /\ Len(Coming) \in Nat /\ DOMAIN Coming = 1 .. Len(Coming)
         /\ Coming # <<>> <=> Len(Coming) > 0
  BY ConcatProperties, LenProperties, EmptySeq DEF TypedFrames, Coming

LEMMA InBuffer ==
  ASSUME TypedFrames, ~IsStale, NEW i \in DOMAIN buffer
  PROVE  i \in DOMAIN Coming /\ Coming[i] = buffer[i]
<1>1. buffer \in Seq(BrokerFrame) /\ kernel \in Seq(BrokerFrame) /\ Coming = buffer \o kernel
  BY DEF TypedFrames, Coming
<1>2. Len(buffer) \in Nat /\ Len(kernel) \in Nat /\ i \in 1 .. Len(buffer)
  BY <1>1, LenProperties
<1> QED BY <1>1, <1>2, ConcatProperties

LEMMA KeepComing ==
  ASSUME UNCHANGED <<buffer, kernel, connects>>
  PROVE  Coming' = Coming /\ (IsStale' <=> IsStale) /\ (AgeInv /\ queued' = queued => AgeInv')
  BY DEF Coming, IsStale, AgeInv

LEMMA TakeComing ==
  ASSUME TypedFrames, AgeInv, UNCHANGED <<kernel, connects>>, buffer # <<>>, buffer' = Tail(buffer)
  PROVE  /\ IsStale => Coming' = Coming
         /\ ~IsStale => /\ Coming # <<>> /\ Coming[1] = buffer[1] /\ Coming' = Tail(Coming) /\ ~IsStale'
         /\ \A i \in DOMAIN buffer' : i + 1 \in DOMAIN buffer /\ buffer'[i] = buffer[i + 1]
         /\ IsStale' => IsStale
<1>1. buffer \in Seq(BrokerFrame) /\ kernel \in Seq(BrokerFrame)
  BY DEF TypedFrames
<1>2. \A i \in DOMAIN buffer' : i \in Nat \ {0} /\ i + 1 \in DOMAIN buffer /\ buffer'[i] = buffer[i + 1]
  BY <1>1, TailFacts
<1>3. buffer' # <<>> => buffer'[1] = buffer[2] /\ 2 \in DOMAIN buffer
  <2>1. ASSUME buffer' # <<>> PROVE 1 \in DOMAIN buffer'
    BY <1>1, <2>1, TailFacts
  <2> QED BY <1>2, <2>1
<1>4. buffer' # <<>> => (IsStale' <=> IsStale)
  BY <1>3 DEF IsStale, AgeInv
<1>5. buffer' = <<>> => ~IsStale' /\ Coming' = kernel
  BY <1>1, ConcatEmptySeq DEF IsStale, Coming
<1>6. CASE IsStale
  BY <1>2, <1>4, <1>5, <1>6 DEF Coming
<1>7. CASE ~IsStale
  <2>1. ~IsStale' /\ Coming' = Tail(buffer) \o kernel /\ Coming = buffer \o kernel
    BY <1>1, <1>4, <1>5, <1>7 DEF Coming, IsStale
  <2>2. Coming # <<>> /\ Head(Coming) = Head(buffer) /\ Tail(Coming) = Tail(buffer) \o kernel
    BY <1>1, <2>1, TakeLeft
  <2>3. Coming \in Seq(BrokerFrame)
    BY ComingTyped
  <2>4. Coming[1] = buffer[1]
    BY <1>1, <2>2, <2>3, TailFacts
  <2> QED BY <1>2, <1>7, <2>1, <2>2, <2>4
<1> QED BY <1>6, <1>7

LEMMA SendComing ==
  ASSUME TypedFrames, UNCHANGED <<buffer, connects>>, NEW f \in BrokerFrame, kernel' = Append(kernel, f)
  PROVE  /\ Coming' = Append(Coming, f) /\ (IsStale' <=> IsStale)
         /\ Len(Coming') = Len(Coming) + 1 /\ DOMAIN Coming' = 1 .. Len(Coming) + 1
         /\ Coming'[Len(Coming) + 1] = f /\ \A i \in DOMAIN Coming : i \in DOMAIN Coming' /\ Coming'[i] = Coming[i]
         /\ \A i \in DOMAIN Coming' : (i \in DOMAIN Coming /\ Coming'[i] = Coming[i]) \/ (i = Len(Coming) + 1 /\ Coming'[i] = f)
<1>1. buffer \in Seq(BrokerFrame) /\ kernel \in Seq(BrokerFrame) /\ Coming \in Seq(BrokerFrame)
  BY ComingTyped DEF TypedFrames
<1>2. IsStale' <=> IsStale
  BY DEF IsStale
<1>3. Coming' = Append(Coming, f)
  BY <1>1, <1>2, AppendRight DEF Coming
<1> QED BY <1>1, <1>2, <1>3, AppendFacts

LEMMA RecvComing ==
  ASSUME TypedFrames, AgeInv, Recv
  PROVE  /\ Coming' = Coming /\ ~IsStale' /\ ~IsStale
         /\ \A i \in DOMAIN buffer' : buffer'[i].on = connects
         /\ \A i \in DOMAIN kernel' : kernel'[i].on = connects
<1>1. kernel \in Seq(BrokerFrame) /\ buffer = <<>> /\ Len(kernel) \in Nat
  BY LenProperties DEF TypedFrames, Recv
<1>2. PICK n \in 1 .. Len(kernel) : buffer' = SubSeq(kernel, 1, n) /\ kernel' = SubSeq(kernel, n + 1, Len(kernel))
  BY DEF Recv
<1>3. \A i \in DOMAIN kernel : kernel[i].on = connects
  BY DEF AgeInv
<1>4. /\ buffer' \in Seq(BrokerFrame) /\ kernel' \in Seq(BrokerFrame)
      /\ Len(buffer') = n /\ Len(kernel') = Len(kernel) - n
      /\ \A i \in 1 .. n : buffer'[i] = kernel[i]
      /\ \A i \in 1 .. Len(kernel) - n : kernel'[i] = kernel[n + i]
  BY <1>1, <1>2, SplitTyped
<1>5. DOMAIN buffer' = 1 .. n /\ DOMAIN kernel' = 1 .. Len(kernel) - n /\ DOMAIN kernel = 1 .. Len(kernel)
  BY <1>1, <1>4, LenProperties
<1>6. \A i \in DOMAIN buffer' : buffer'[i].on = connects
  BY <1>1, <1>3, <1>4, <1>5
<1>7. \A i \in DOMAIN kernel' : kernel'[i].on = connects
  <2> TAKE i \in DOMAIN kernel'
  <2>1. i \in 1 .. Len(kernel) - n /\ n + i \in DOMAIN kernel
    BY <1>1, <1>5
  <2> QED BY <1>3, <1>4, <2>1
<1>8. connects' = connects /\ 1 \in DOMAIN buffer'
  BY <1>5 DEF Recv
<1>9. ~IsStale /\ ~IsStale'
  BY <1>1, <1>6, <1>8 DEF IsStale
<1>10. Coming = kernel
  BY <1>1, <1>9 DEF Coming
<1>11. buffer' \o kernel' = kernel
  <2>1. SubSeq(kernel, 1, n) \o SubSeq(kernel, n + 1, Len(kernel)) = SubSeq(kernel, 1, Len(kernel))
    <3>1. 1 \in 1 .. Len(kernel) + 1 /\ n \in 1 - 1 .. Len(kernel) /\ Len(kernel) \in n .. Len(kernel)
      BY <1>1
    <3> QED BY <1>1, <3>1, ConcatAdjacentSubSeq
  <2>2. SubSeq(kernel, 1, Len(kernel)) = kernel
    BY <1>1
  <2> QED BY <1>2, <2>1, <2>2
<1> QED BY <1>6, <1>7, <1>9, <1>10, <1>11 DEF Coming

(* A step that only takes frames away.                                     *)
Takes1(s, t) == t = s \/ (s # <<>> /\ t = Tail(s))
OnlyTakes ==
  /\ connects' = connects
  /\ Takes1(buffer, buffer') /\ Takes1(queued, queued')
  /\ kernel' = kernel \/ kernel' = <<>>

LEMMA TakesElements ==
  ASSUME NEW s \in Seq(BrokerFrame), NEW t, Takes1(s, t)
  PROVE  \A i \in DOMAIN t : \E j \in DOMAIN s : t[i] = s[j]
<1>1. CASE t = s
  BY <1>1
<1>2. CASE s # <<>> /\ t = Tail(s)
  <2>1. \A i \in DOMAIN Tail(s) : i + 1 \in DOMAIN s /\ Tail(s)[i] = s[i + 1]
    BY <1>2, TailFacts
  <2> QED BY <1>2, <2>1
<1> QED BY <1>1, <1>2 DEF Takes1

LEMMA AgeKept ==
  TypedFrames /\ AgeInv /\ OnlyTakes => AgeInv' /\ (IsStale' => IsStale)
<1> SUFFICES ASSUME TypedFrames, AgeInv, OnlyTakes PROVE AgeInv' /\ (IsStale' => IsStale)
  OBVIOUS
<1>1. buffer \in Seq(BrokerFrame) /\ queued \in Seq(BrokerFrame)
  BY DEF TypedFrames
<1>2. \A i \in DOMAIN buffer' : \E j \in DOMAIN buffer : buffer'[i] = buffer[j]
  BY <1>1, TakesElements DEF OnlyTakes
<1>3. \A i \in DOMAIN queued' : \E j \in DOMAIN queued : queued'[i] = queued[j]
  BY <1>1, TakesElements DEF OnlyTakes
<1>4. buffer' # <<>> => 1 \in DOMAIN buffer' /\ buffer # <<>>
  <2>1. buffer' \in Seq(BrokerFrame)
    BY <1>1, TailFacts DEF OnlyTakes, Takes1
  <2>2. \A s \in Seq(BrokerFrame) : s # <<>> => 1 \in DOMAIN s
    OBVIOUS
  <2> QED BY <1>2, <2>1, <2>2
<1>5. \A i \in DOMAIN buffer' : buffer'[i].on <= connects /\ buffer'[i].on = buffer[1].on
  BY <1>2 DEF AgeInv
<1>6. IsStale' => IsStale
  BY <1>4, <1>5 DEF IsStale, OnlyTakes
<1>7. \A i \in DOMAIN buffer' : 1 \in DOMAIN buffer' /\ buffer'[i].on = buffer'[1].on
  <2>1. \A i \in DOMAIN buffer' : buffer' # <<>>
    OBVIOUS
  <2> QED BY <1>4, <1>5, <2>1
<1>8. \A i \in DOMAIN kernel' : kernel'[i].on = connects'
  BY DEF AgeInv, OnlyTakes
<1>9. \A i \in DOMAIN queued' : queued'[i].on <= connects' /\ queued'[i].kind \notin Starts
  BY <1>3 DEF AgeInv, OnlyTakes
<1>10. IsStale' => \A i \in DOMAIN buffer' : buffer'[i].kind \notin Starts
  BY <1>2, <1>6 DEF AgeInv
<1>11. connects' = connects
  BY DEF OnlyTakes
<1> QED BY <1>5, <1>6, <1>7, <1>8, <1>9, <1>10, <1>11 DEF AgeInv

LEMMA ComingKept ==
  TypedFrames /\ AgeInv /\ OnlyTakes => \A i \in DOMAIN Coming' : \E j \in DOMAIN Coming : Coming'[i] = Coming[j]
<1> SUFFICES ASSUME TypedFrames, AgeInv, OnlyTakes
             PROVE  \A i \in DOMAIN Coming' : \E j \in DOMAIN Coming : Coming'[i] = Coming[j]
  OBVIOUS
<1>1. buffer \in Seq(BrokerFrame) /\ kernel \in Seq(BrokerFrame) /\ connects' = connects
  BY DEF TypedFrames, OnlyTakes
<1>0. buffer' \in Seq(BrokerFrame)
  <2>1. buffer' = buffer \/ (buffer # <<>> /\ buffer' = Tail(buffer))
    BY DEF OnlyTakes, Takes1
  <2>2. buffer # <<>> => Tail(buffer) \in Seq(BrokerFrame)
    BY <1>1, TailFacts
  <2> QED BY <1>1, <2>1, <2>2
<1>2. CASE kernel' = kernel
  <2>1. CASE buffer' = buffer
    BY <1>1, <1>2, <2>1, KeepComing
  <2>2. CASE buffer # <<>> /\ buffer' = Tail(buffer)
    <3>1. CASE IsStale
      BY <1>1, <1>2, <2>2, <3>1, TakeComing
    <3>2. CASE ~IsStale
      <4>1. Coming # <<>> /\ Coming' = Tail(Coming) /\ Coming \in Seq(BrokerFrame)
        BY <1>1, <1>2, <2>2, <3>2, TakeComing, ComingTyped
      <4>2. Takes1(Coming, Coming')
        BY <4>1 DEF Takes1
      <4> QED BY <4>1, <4>2, TakesElements
    <3> QED BY <3>1, <3>2
  <2> QED BY <2>1, <2>2 DEF OnlyTakes, Takes1
<1>3. CASE kernel' = <<>>
  <2>1. CASE IsStale' \/ buffer' = <<>>
    <3>1. <<>> \o <<>> = <<>>
      BY ConcatEmptySeq, EmptySeq
    <3>2. Coming' = <<>>
      <4>1. CASE IsStale'
        BY <1>3, <4>1 DEF Coming
      <4>2. CASE ~IsStale' /\ buffer' = <<>>
        BY <1>3, <3>1, <4>2 DEF Coming
      <4> QED BY <2>1, <4>1, <4>2
    <3> QED BY <3>2
  <2>2. CASE ~IsStale' /\ buffer' # <<>>
    <3>1. Coming' = buffer'
      BY <1>0, <1>3, <2>2, ConcatEmptySeq DEF Coming
    <3>2. \A i \in DOMAIN buffer' : \E j \in DOMAIN buffer : buffer'[i] = buffer[j]
      BY <1>1, TakesElements DEF OnlyTakes
    <3>3. ~IsStale
      <4>1. 1 \in DOMAIN buffer' /\ buffer'[1].on = connects
        <5>1. 1 \in DOMAIN buffer'
          BY <1>0, <2>2, TailFacts
        <5> QED BY <1>1, <2>2, <5>1 DEF IsStale
      <4>2. PICK j \in DOMAIN buffer : buffer'[1] = buffer[j]
        BY <3>2, <4>1
      <4> QED BY <4>1, <4>2 DEF AgeInv, IsStale
    <3>4. \A i \in DOMAIN buffer : i \in DOMAIN Coming /\ Coming[i] = buffer[i]
      BY <3>3, InBuffer
    <3> QED BY <3>1, <3>2, <3>4
  <2> QED BY <2>1, <2>2
<1> QED BY <1>2, <1>3 DEF OnlyTakes

(* Steps that end a connection, or that fail.                              *)
OldOrClose ==
  \A i \in DOMAIN wire' :
    (i \in DOMAIN wire /\ wire'[i] = wire[i]) \/ wire'[i].kind \in {"close", "cut"}
NothingOfTheStart ==
  /\ \A i \in DOMAIN wire' : wire'[i].kind # "header"
  /\ \A i \in DOMAIN Coming' : Coming'[i].kind \notin Starts

LEMMA ElsewhereStep ==
  ASSUME LoginInv, TypedInv', at' \in Elsewhere, OnlyTakes,
         UNCHANGED <<broker, offered, told>>, limits' = limits \/ at = "tune",
         OldOrClose, NothingOfTheStart
  PROVE  LoginInv'
<1>1. TypedFrames /\ AgeInv /\ ComingInv /\ WireInv
  BY TypedParts DEF LoginInv
<1>2. AgeInv' /\ LeftInv'
  BY <1>1, AgeKept DEF LeftInv, Elsewhere, Early, Begun
<1>3. ComingInv'
  <2> SUFFICES ASSUME NEW i \in DOMAIN Coming' PROVE Means(Coming[i])'
    BY DEF ComingInv
  <2>1. PICK j \in DOMAIN Coming : Coming'[i] = Coming[j]
    BY <1>1, ComingKept
  <2>2. Means(Coming[j])
    BY <1>1 DEF ComingInv
  <2>3. Coming'[i].kind \notin Starts /\ at' \notin Early
    BY DEF NothingOfTheStart, Elsewhere
  <2>4. Opened => Opened'
    BY <2>3 DEF Opened, Early
  <2> QED BY <2>1, <2>2, <2>3, <2>4 DEF Means
<1>4. FirstInv' /\ TunedInv'
  <2>1. at' \notin Early /\ at' \notin Begun /\ at' # "aborted"
    BY DEF Elsewhere
  <2>2. broker \in {"open", "opened"} => told = limits /\ at \notin Early
    BY DEF LoginInv, TunedInv
  <2> QED BY <2>1, <2>2 DEF FirstInv, TunedInv, Early, Begun
<1>5. WireInv'
  <2> SUFFICES ASSUME NEW i \in DOMAIN wire' PROVE Says(wire[i])'
    BY DEF WireInv
  <2>1. at' \notin Early /\ at' \notin Begun /\ at' # "aborted"
    BY DEF Elsewhere
  <2>2. CASE i \in DOMAIN wire /\ wire'[i] = wire[i]
    <3>1. Says(wire[i]) /\ wire'[i].kind # "header"
      BY <1>1, <2>2 DEF WireInv, NothingOfTheStart
    <3>2. BothMax' = BothMax
      BY DEF BothMax
    <3> QED BY <2>1, <2>2, <3>1, <3>2 DEF Says, Early
  <2>3. CASE wire'[i].kind \in {"close", "cut"}
    BY <2>1, <2>3 DEF Says, Content
  <2> QED BY <2>2, <2>3 DEF OldOrClose
<1>6. AbortsForCause'
  BY DEF AbortsForCause, Elsewhere
<1> QED BY <1>2, <1>3, <1>4, <1>5, <1>6 DEF LoginInv

LEMMA PastStart ==
  ASSUME LoginInv, at \notin {"start", "aborted"}, OnlyTakes, OldOrClose
  PROVE  NothingOfTheStart
<1>1. TypedFrames /\ AgeInv /\ ComingInv /\ WireInv
  BY TypedParts DEF LoginInv
<1>2. ASSUME NEW i \in DOMAIN wire' PROVE wire'[i].kind # "header"
  BY <1>1, <1>2 DEF WireInv, Says, OldOrClose
<1>3. ASSUME NEW i \in DOMAIN Coming' PROVE Coming'[i].kind \notin Starts
  <2>1. PICK j \in DOMAIN Coming : Coming'[i] = Coming[j]
    BY <1>1, ComingKept
  <2> QED BY <1>1, <2>1 DEF ComingInv, Means
<1> QED BY <1>2, <1>3 DEF NothingOfTheStart

(* The start is the first thing a connection says, and a tune or a close   *)
(* the second.                                                             *)
LEMMA StartRead ==
  ASSUME LoginInv, at = "start", NEW f \in Readable, Reads(f), f.kind \in Starts,
         UNCHANGED <<kernel, connects>>
  PROVE  /\ OnlyTakes /\ queued' = <<>> /\ ~IsStale' /\ broker # "header"
         /\ \A i \in DOMAIN Coming' : Coming'[i].kind \notin Starts
         /\ IF broker = "start_ok" THEN Coming' = <<>>
            ELSE Coming' # <<>> /\ Coming'[1].kind \in {"tune", "close"}
<1>1. TypedFrames /\ AgeInv /\ FirstInv
  BY TypedParts DEF LoginInv
<1>2. \/ queued # <<>> /\ f = queued[1] /\ queued' = Tail(queued) /\ buffer' = buffer
      \/ queued = <<>> /\ queued' = <<>> /\ buffer # <<>> /\ f = buffer[1] /\ buffer' = Tail(buffer)
  BY <1>1, ReadsFacts DEF TypedFrames
<1>3. queued # <<>> => queued[1].kind \notin Starts
  <2>1. queued # <<>> => 1 \in DOMAIN queued
    BY <1>1, TailFacts DEF TypedFrames
  <2> QED BY <1>1, <2>1 DEF AgeInv
<1>4. queued = <<>> /\ queued' = <<>> /\ buffer # <<>> /\ f = buffer[1] /\ buffer' = Tail(buffer)
  BY <1>2, <1>3
<1>5. ~IsStale
  <2>1. 1 \in DOMAIN buffer
    BY <1>1, <1>4, TailFacts DEF TypedFrames
  <2> QED BY <1>1, <1>4, <2>1 DEF AgeInv
<1>6. Coming # <<>> /\ Coming[1] = f /\ Coming' = Tail(Coming) /\ ~IsStale'
  BY <1>1, <1>4, <1>5, TakeComing
<1>7. /\ Coming \in Seq(BrokerFrame) /\ Len(Coming) \in Nat /\ DOMAIN Coming = 1 .. Len(Coming)
      /\ Len(Tail(Coming)) = Len(Coming) - 1 /\ Tail(Coming) \in Seq(BrokerFrame)
      /\ \A i \in DOMAIN Tail(Coming) : i \in Nat \ {0} /\ i + 1 \in DOMAIN Coming /\ Tail(Coming)[i] = Coming[i + 1]
  BY <1>1, <1>6, ComingTyped, TailFacts
<1>8. /\ broker # "header"
      /\ \A i \in 2 .. Len(Coming) : Coming[i].kind \notin Starts
      /\ IF broker = "start_ok" THEN Len(Coming) = 1
         ELSE Len(Coming) > 1 /\ Coming[2].kind \in {"tune", "close"}
  BY <1>1, <1>6 DEF FirstInv
<1>9. \A i \in DOMAIN Coming' : Coming'[i].kind \notin Starts
  <2> TAKE i \in DOMAIN Coming'
  <2>1. i + 1 \in 2 .. Len(Coming) /\ Coming'[i] = Coming[i + 1]
    BY <1>6, <1>7
  <2> QED BY <1>8, <2>1
<1>10. IF broker = "start_ok" THEN Coming' = <<>>
       ELSE Coming' # <<>> /\ Coming'[1].kind \in {"tune", "close"}
  <2>1. CASE broker = "start_ok"
    <3>1. Len(Coming') = 0 /\ Coming' \in Seq(BrokerFrame)
      BY <1>6, <1>7, <1>8, <2>1
    <3> QED BY <2>1, <3>1, EmptySeq
  <2>2. CASE broker # "start_ok"
    <3>1. Len(Coming') > 0 /\ Coming' \in Seq(BrokerFrame) /\ Coming' # <<>>
      BY <1>6, <1>7, <1>8, <2>2, EmptySeq
    <3>2. 1 \in DOMAIN Coming' /\ Coming'[1] = Coming[2]
      <4>1. 1 \in DOMAIN Coming'
        BY <3>1, TailFacts
      <4> QED BY <1>6, <1>7, <4>1
    <3> QED BY <1>8, <2>2, <3>1, <3>2
  <2> QED BY <2>1, <2>2
<1>11. OnlyTakes
  BY <1>4 DEF OnlyTakes, Takes1
<1> QED BY <1>4, <1>6, <1>8, <1>9, <1>10, <1>11

LEMMA TuneRead ==
  ASSUME LoginInv, at = "tune", NEW f \in Readable, Reads(f), UNCHANGED <<kernel, connects>>
  PROVE  /\ OnlyTakes /\ queued' = <<>> /\ ~IsStale' /\ f \in BrokerFrame
         /\ f.kind \in {"tune", "close"} /\ Means(f) /\ broker \notin {"header", "start_ok"}
<1>1. TypedFrames /\ AgeInv /\ FirstInv /\ ComingInv /\ queued = <<>> /\ ~IsStale
  BY TypedParts DEF LoginInv, LeftInv
<1>2. queued' = <<>> /\ buffer # <<>> /\ f = buffer[1] /\ buffer' = Tail(buffer) /\ f \in BrokerFrame
  BY <1>1, ReadsFacts DEF TypedFrames
<1>3. Coming # <<>> /\ Coming[1] = f /\ ~IsStale'
  BY <1>1, <1>2, TakeComing
<1>4. 1 \in DOMAIN Coming
  BY <1>1, <1>3, ComingTyped, TailFacts
<1>5. OnlyTakes
  BY <1>1, <1>2 DEF OnlyTakes, Takes1
<1> QED BY <1>1, <1>2, <1>3, <1>4, <1>5 DEF FirstInv, ComingInv

LEMMA SendFails ==
  ASSUME LoginInv, NEW k \in Handshake \union {"close"}, NEW l \in Limits, NEW ok \in BOOLEAN,
         Sends(Method(k, l), ok), ~ok \/ k = "close"
  PROVE  OldOrClose
<1>1. Method(k, l) \in Sent /\ Method(k, l).kind = k /\ wire \in Seq(Sent)
  BY TypedParts, LimitsFacts DEF LoginInv, TypedFrames
<1>2. \A i \in DOMAIN wire' :
        \/ i \in DOMAIN wire /\ wire'[i] = wire[i]
        \/ wire'[i] = Method(k, l) /\ ok
        \/ wire'[i] = Cut
  BY <1>1, SendsFacts
<1> QED BY <1>1, <1>2, LimitsFacts DEF OldOrClose

LEMMA SameIsOld == UNCHANGED wire => OldOrClose
  BY DEF OldOrClose

LEMMA CallTakesKeeps ==
  ASSUME LoginInv, NEW f \in ToSet(buffer), CallTakes(f), UNCHANGED <<queued, connects>>,
         kernel' = kernel \/ kernel' = <<>>
  PROVE  OnlyTakes
<1>1. buffer \in Seq(BrokerFrame)
  BY TypedParts DEF LoginInv, TypedFrames
<1> QED BY <1>1, CallTakesFacts DEF OnlyTakes, Takes1

LEMMA CallEndsInv ==
  ASSUME LoginInv, TypedInv', CallRefused \/ CallNoMemory \/ CallGetsNothing
  PROVE  LoginInv'
<1> USE DEF CallRefused, CallNoMemory, CallGetsNothing
<1>1. OnlyTakes
  <2>1. CASE CallRefused \/ CallNoMemory
    BY <2>1, CallTakesKeeps
  <2>2. CASE CallGetsNothing
    BY <2>2 DEF OnlyTakes, Takes1, received
  <2> QED BY <2>1, <2>2
<1>2. /\ UNCHANGED <<limits, wire, broker, offered, told>>
      /\ at \in {"opening", "closing", "dying"} /\ at' \in {"failed", "leaked"}
  BY DEF CallTakes, InCall, CallFails, state, brokerVars
<1>3. at' \in Elsewhere /\ at \notin {"start", "aborted"}
  BY <1>2 DEF Elsewhere, Phase, Early, Begun
<1>4. OldOrClose /\ NothingOfTheStart
  BY <1>1, <1>2, <1>3, SameIsOld, PastStart
<1> QED BY <1>1, <1>2, <1>3, <1>4, ElsewhereStep

LEMMA EndsInv ==
  ASSUME LoginInv, TypedInv', Ends
  PROVE  LoginInv'
<1>1. /\ UNCHANGED <<limits, broker, offered, told>>
      /\ at \notin {"start", "aborted"}
      /\ at' \in {"closing", "dying", "leaked", "failed", "destroying", "closed", "gone", "undefined"}
  BY DEF Ends, Disconnect, Dealloc, SendClose, DisconnectDone, Destroy, UseAfterFree, Idle, state, brokerVars
<1>2. at' \in Elsewhere
  BY <1>1 DEF Elsewhere, Phase, Early, Begun
<1>3. OldOrClose
  <2>1. wire' = wire \/ \E ok \in BOOLEAN : Sends(Method("close", NoLimits), ok)
    BY DEF Ends, Disconnect, Dealloc, SendClose, DisconnectDone, Destroy, UseAfterFree
  <2> QED BY <2>1, SameIsOld, SendFails, LimitsFacts
<1>4. OnlyTakes
  <2>1. CASE DisconnectDone
    <3>1. /\ UNCHANGED <<queued, connects>> /\ (kernel' = kernel \/ kernel' = <<>>)
          /\ \E f \in ToSet(buffer) : CallTakes(f)
      BY <2>1 DEF DisconnectDone, Closes
    <3> QED BY <3>1, CallTakesKeeps
  <2>2. CASE Disconnect \/ Dealloc \/ Destroy \/ UseAfterFree
    BY <2>2 DEF Disconnect, Dealloc, SendClose, Destroy, Closes, UseAfterFree, OnlyTakes, Takes1, received
  <2> QED BY <2>1, <2>2 DEF Ends
<1>5. NothingOfTheStart
  BY <1>1, <1>3, <1>4, PastStart
<1> QED BY <1>1, <1>2, <1>3, <1>4, <1>5, ElsewhereStep

(* The steps of the login that fail.                                       *)
LEMMA LoginFailsInv ==
  ASSUME LoginInv, TypedInv', Login, at' = "failed"
  PROVE  LoginInv'
<1>1. TypedFrames /\ at' \in Elsewhere /\ NoLimits \in Limits /\ limits \in Limits
  BY TypedParts, LimitsFacts DEF Elsewhere, Phase, Early, Begun, LoginInv, TypedLimits
<1>2. /\ UNCHANGED <<connects, broker, offered, told, kernel>>
      /\ limits' = limits \/ at = "tune"
  BY DEF Login, SendHeader, StartOk, StartRefused, WaitMethodAborts, WaitMethodFails,
         Tune, TuneNoMemory, SendTuneOk, SendOpen, LoginDone, state, brokerVars
<1>3. OldOrClose /\ (at = "start" => wire' = wire)
  <2>1. CASE wire' = wire
    BY <2>1, SameIsOld
  <2>2. CASE StartOk
    <3>1. \E ok \in BOOLEAN : Sends(Method("start_ok", NoLimits), ok) /\ ~ok
      BY <2>2 DEF StartOk, Released
    <3>2. wire' = wire
      BY <1>1, <3>1, SendsFacts, LimitsFacts DEF TypedFrames, Handshake
    <3> QED BY <3>2, SameIsOld
  <2>3. CASE SendTuneOk
    <3>1. at = "tuned" /\ \E ok \in BOOLEAN : Sends(Method("tune_ok", limits), ok) /\ ~ok
      BY <2>3 DEF SendTuneOk
    <3> QED BY <1>1, <3>1, SendFails DEF Handshake
  <2>4. CASE SendOpen
    <3>1. at = "open" /\ \E ok \in BOOLEAN : Sends(Method("open", NoLimits), ok) /\ ~ok
      BY <2>4 DEF SendOpen
    <3> QED BY <1>1, <3>1, SendFails DEF Handshake
  <2> QED BY <2>1, <2>2, <2>3, <2>4
          DEF Login, SendHeader, StartRefused, WaitMethodAborts, WaitMethodFails, Tune, TuneNoMemory, LoginDone
<1>4. CASE at = "start"
  <2>1. CASE StartOk \/ StartRefused
    <3>1. PICK f \in Readable : Reads(f) /\ f.kind \in Starts
      BY <2>1 DEF StartOk, StartRefused, Starts
    <3>2. OnlyTakes /\ broker # "header" /\ \A i \in DOMAIN Coming' : Coming'[i].kind \notin Starts
      BY <1>2, <1>4, <3>1, StartRead
    <3>3. \A i \in DOMAIN wire : wire[i].kind # "header"
      BY <3>2 DEF LoginInv, WireInv, Says
    <3>4. NothingOfTheStart
      BY <1>3, <1>4, <3>2, <3>3 DEF NothingOfTheStart
    <3> QED BY <1>1, <1>2, <1>3, <3>2, <3>4, ElsewhereStep
  <2>2. CASE WaitMethodFails
    <3>1. buffer = <<>> /\ kernel = <<>> /\ line = "down" /\ UNCHANGED <<buffer, kernel, queued>>
      BY <2>2 DEF WaitMethodFails, received
    <3>2. OnlyTakes
      BY <1>2, <3>1 DEF OnlyTakes, Takes1
    <3>3. \A i \in DOMAIN wire : wire[i].kind # "header"
      BY <3>1 DEF LoginInv, WireInv, Says
    <3>4. Coming' = <<>>
      BY <3>1, ConcatEmptySeq, EmptySeq DEF Coming, IsStale
    <3>5. NothingOfTheStart
      BY <1>3, <1>4, <3>3, <3>4 DEF NothingOfTheStart
    <3> QED BY <1>1, <1>2, <1>3, <3>2, <3>5, ElsewhereStep
  <2> QED BY <1>4, <2>1, <2>2 DEF Login, SendHeader, WaitMethodAborts,
               Tune, TuneNoMemory, SendTuneOk, SendOpen, LoginDone, CallTakes, InCall
<1>5. CASE at # "start"
  <2>1. at # "aborted"
    BY DEF Login, SendHeader, StartOk, StartRefused, WaitMethodAborts, WaitMethodFails,
           Tune, TuneNoMemory, SendTuneOk, SendOpen, LoginDone, CallTakes, InCall
  <2>2. OnlyTakes
    <3>1. \/ UNCHANGED <<buffer, queued>>
          \/ at = "tune" /\ \E f \in Readable : Reads(f)
      BY <1>5 DEF Login, SendHeader, StartOk, StartRefused, WaitMethodAborts, WaitMethodFails,
                  Tune, TuneNoMemory, SendTuneOk, SendOpen, LoginDone, received
    <3>2. CASE UNCHANGED <<buffer, queued>>
      BY <1>2, <3>2 DEF OnlyTakes, Takes1
    <3>3. CASE at = "tune" /\ \E f \in Readable : Reads(f)
      BY <1>2, <3>3, TuneRead
    <3> QED BY <3>1, <3>2, <3>3
  <2>3. NothingOfTheStart
    BY <1>3, <1>5, <2>1, <2>2, PastStart
  <2> QED BY <1>1, <1>2, <1>3, <2>2, <2>3, ElsewhereStep
<1> QED BY <1>4, <1>5

(* Until the limits are tuned, nothing but the start was said.             *)
LEMMA EarlyFacts ==
  ASSUME LoginInv, at \in Early
  PROVE  /\ \A i \in DOMAIN wire : wire[i].kind \in {"header", "start_ok", "cut"}
         /\ at # "start" => \A i \in DOMAIN wire : wire[i].kind # "header"
         /\ \A i \in DOMAIN Coming : Coming[i].kind # "open_ok" /\ (at # "start" => Coming[i].kind \notin Starts)
         /\ broker \notin {"open", "opened"}
<1>1. wire \in Seq(Sent) /\ WireInv /\ ComingInv /\ TunedInv
  BY TypedParts DEF LoginInv, TypedFrames
<1>2. ASSUME NEW i \in DOMAIN wire
      PROVE  wire[i].kind \in {"header", "start_ok", "cut"} /\ (at # "start" => wire[i].kind # "header")
  <2>1. wire[i] \in Sent /\ Says(wire[i])
    BY <1>1, <1>2, ElementOfSeq, LenProperties DEF WireInv
  <2>2. wire[i].kind \in Handshake \union Content \union {"close", "cut"}
    BY <2>1 DEF Sent
  <2> QED BY <2>1, <2>2 DEF Says, Handshake, Content, Early
<1>3. ASSUME NEW i \in DOMAIN Coming
      PROVE  Coming[i].kind # "open_ok" /\ (at # "start" => Coming[i].kind \notin Starts)
  BY <1>1, <1>3 DEF ComingInv, Means, Opened, Early
<1> QED BY <1>1, <1>2, <1>3 DEF TunedInv

(* A step on the way to a tuned connection, or to the abort.               *)
LEMMA AdvanceStep ==
  ASSUME LoginInv, TypedInv', at \in {"start", "tune", "tuned"}, at' \in {"tune", "tuned", "open", "aborted"},
         OnlyTakes, UNCHANGED <<broker, offered, told, line>>,
         at' # "aborted" => queued' = <<>> /\ ~IsStale' /\ NothingOfTheStart,
         \A i \in DOMAIN wire' :
           \/ i \in DOMAIN wire /\ wire'[i] = wire[i]
           \/ wire'[i].kind \in {"start_ok", "cut"}
           \/ wire'[i].kind = "tune_ok" /\ wire'[i].data = limits' /\ at' = "open",
         FirstInv', AbortsForCause',
         at' \in {"tuned", "open"} => Agreed' /\ limits'.frame_max = BothMax /\ broker \notin {"header", "start_ok"}
  PROVE  LoginInv'
<1>1. TypedFrames /\ AgeInv /\ ComingInv /\ at \in Early
  BY TypedParts DEF LoginInv, Early
<1>2. AgeInv' /\ LeftInv'
  BY <1>1, AgeKept DEF LeftInv, Begun
<1>3. ComingInv'
  <2> SUFFICES ASSUME NEW i \in DOMAIN Coming' PROVE Means(Coming[i])'
    BY DEF ComingInv
  <2>1. PICK j \in DOMAIN Coming : Coming'[i] = Coming[j]
    BY <1>1, ComingKept
  <2>2. Means(Coming[j]) /\ Coming[j].kind # "open_ok"
    BY <1>1, EarlyFacts DEF ComingInv
  <2>3. Coming'[i].kind \in Starts => at' = "aborted"
    BY DEF NothingOfTheStart
  <2> QED BY <2>1, <2>2, <2>3 DEF Means
<1>4. TunedInv'
  <2>1. broker \notin {"open", "opened"} /\ BothMax' = BothMax
    BY <1>1, EarlyFacts DEF BothMax
  <2> QED BY <2>1 DEF TunedInv, Begun
<1>5. WireInv'
  <2> SUFFICES ASSUME NEW i \in DOMAIN wire' PROVE Says(wire[i])'
    BY DEF WireInv
  <2>1. CASE i \in DOMAIN wire /\ wire'[i] = wire[i]
    <3>1. wire[i].kind \in {"header", "start_ok", "cut"} /\ Says(wire[i])
      BY <1>1, <2>1, EarlyFacts DEF LoginInv, WireInv
    <3>2. wire'[i].kind = "header" => at' = "aborted"
      BY DEF NothingOfTheStart
    <3> QED BY <2>1, <3>1, <3>2 DEF Says, Content
  <2>2. CASE wire'[i].kind \in {"start_ok", "cut"}
    BY <2>2 DEF Says, Content
  <2>3. CASE wire'[i].kind = "tune_ok" /\ wire'[i].data = limits' /\ at' = "open"
    BY <2>3 DEF Says, Content, Early
  <2> QED BY <2>1, <2>2, <2>3
<1> QED BY <1>2, <1>3, <1>4, <1>5 DEF LoginInv

LEMMA StartOkInv ==
  ASSUME LoginInv, TypedInv', StartOk, at' # "failed"
  PROVE  LoginInv'
<1>1. at = "start" /\ UNCHANGED <<limits, broker, offered, told, line, kernel, connects>>
  BY DEF StartOk, state, brokerVars
<1>2. PICK f \in Readable : Reads(f) /\ f.kind \in Starts
  BY DEF StartOk, Starts
<1>3. /\ OnlyTakes /\ queued' = <<>> /\ ~IsStale' /\ broker # "header"
      /\ \A i \in DOMAIN Coming' : Coming'[i].kind \notin Starts
      /\ IF broker = "start_ok" THEN Coming' = <<>>
         ELSE Coming' # <<>> /\ Coming'[1].kind \in {"tune", "close"}
  BY <1>1, <1>2, StartRead
<1>4. at' = "tune"
  BY <1>3 DEF StartOk, Released
<1>5. \A i \in DOMAIN wire' :
        (i \in DOMAIN wire /\ wire'[i] = wire[i]) \/ wire'[i].kind \in {"start_ok", "cut"}
  <2>1. \E ok \in BOOLEAN : Sends(Method("start_ok", NoLimits), ok)
    BY DEF StartOk
  <2>2. wire \in Seq(Sent)
    BY TypedParts DEF LoginInv, TypedFrames
  <2>3. Method("start_ok", NoLimits) \in Sent /\ Method("start_ok", NoLimits).kind = "start_ok" /\ Cut.kind = "cut"
    BY LimitsFacts DEF Handshake
  <2> QED BY <2>1, <2>2, <2>3, SendsFacts
<1>6. \A i \in DOMAIN wire' : wire'[i].kind # "header"
  BY <1>3, <1>5 DEF LoginInv, WireInv, Says
<1>7. FirstInv' /\ AbortsForCause'
  BY <1>1, <1>3, <1>4 DEF FirstInv, AbortsForCause
<1> QED BY <1>1, <1>3, <1>4, <1>5, <1>6, <1>7, AdvanceStep DEF NothingOfTheStart

LEMMA AbortsInv ==
  ASSUME LoginInv, TypedInv', WaitMethodAborts
  PROVE  LoginInv'
<1>1. /\ at \in {"start", "tune"} /\ at' = "aborted"
      /\ UNCHANGED <<limits, wire, broker, offered, told, line, kernel, connects>>
  BY DEF WaitMethodAborts, state, brokerVars
<1>2. PICK f \in Readable : Reads(f) /\ f.kind \notin Expected /\ unexpected' = f
  BY DEF WaitMethodAborts
<1>3. TypedFrames /\ AgeInv
  BY TypedParts DEF LoginInv
<1>4. /\ f \in BrokerFrame
      /\ \/ queued # <<>> /\ f = queued[1] /\ queued' = Tail(queued) /\ buffer' = buffer
         \/ queued = <<>> /\ queued' = <<>> /\ buffer # <<>> /\ f = buffer[1] /\ buffer' = Tail(buffer)
  BY <1>2, <1>3, ReadsFacts DEF TypedFrames
<1>5. OnlyTakes
  BY <1>1, <1>4 DEF OnlyTakes, Takes1
<1>6. f.kind \in {"protocol", "close"} \/ f.on # connects
  <2>1. CASE at = "tune"
    BY <1>1, <1>2, <2>1, TuneRead DEF Expected
  <2>2. CASE at = "start" /\ queued # <<>>
    <3>1. 1 \in DOMAIN queued
      BY <1>3, <2>2, TailFacts DEF TypedFrames
    <3> QED BY <1>4, <2>2, <3>1 DEF LoginInv, LeftInv
  <2>3. CASE at = "start" /\ queued = <<>> /\ IsStale
    BY <1>4, <2>3 DEF IsStale
  <2>4. CASE at = "start" /\ queued = <<>> /\ ~IsStale
    <3>1. Coming # <<>> /\ Coming[1] = f
      BY <1>1, <1>3, <1>4, <2>4, TakeComing
    <3>2. f.kind \in Starts \union {"protocol"}
      BY <2>4, <3>1 DEF LoginInv, FirstInv
    <3> QED BY <1>2, <2>4, <3>2 DEF Expected, Starts
  <2> QED BY <1>1, <2>1, <2>2, <2>3, <2>4
<1>7. f # NoFrame
  BY <1>4 DEF BrokerFrame, BrokerKind, NoFrame
<1>8. FirstInv' /\ AbortsForCause'
  BY <1>1, <1>2, <1>6, <1>7 DEF FirstInv, AbortsForCause
<1> QED BY <1>1, <1>5, <1>8, AdvanceStep

LEMMA TuneInv ==
  ASSUME LoginInv, TypedInv', Tune
  PROVE  LoginInv'
<1>1. /\ at = "tune" /\ at' = "tuned"
      /\ UNCHANGED <<wire, broker, offered, told, line, kernel, connects>>
  BY DEF Tune, brokerVars
<1>2. PICK f \in Readable : /\ Reads(f) /\ f.kind = "tune"
                            /\ limits' = [x \in DOMAIN limits |-> Negotiated(ClientLimits[x], f.limits[x])]
  BY DEF Tune
<1>3. /\ OnlyTakes /\ queued' = <<>> /\ ~IsStale' /\ f \in BrokerFrame
      /\ Means(f) /\ broker \notin {"header", "start_ok"}
  BY <1>1, <1>2, TuneRead
<1>4. limits \in Limits /\ f.limits \in Limits /\ f.limits = offered
  BY <1>2, <1>3, TypedParts DEF LoginInv, TypedLimits, BrokerFrame, Means
<1>5. limits'.frame_max = BothMax /\ Agreed'
  <2>1. /\ limits' \in Limits /\ limits'.frame_max = SmallerLimit(ClientLimits.frame_max, f.limits.frame_max)
        /\ \A x \in DOMAIN limits' :
             limits'[x] = IF ClientLimits[x] = 0 THEN 0 ELSE SmallerLimit(ClientLimits[x], f.limits[x])
    BY <1>2, <1>4, NegotiatedLimits
  <2> QED BY <1>1, <1>4, <2>1 DEF BothMax, Agreed
<1>6. NothingOfTheStart
  <2>1. OldOrClose /\ at \notin {"start", "aborted"}
    BY <1>1, SameIsOld
  <2> QED BY <1>3, <2>1, PastStart
<1>7. FirstInv' /\ AbortsForCause'
  BY <1>1 DEF FirstInv, AbortsForCause
<1> QED BY <1>1, <1>3, <1>5, <1>6, <1>7, AdvanceStep

LEMMA TuneOkInv ==
  ASSUME LoginInv, TypedInv', SendTuneOk, at' # "failed"
  PROVE  LoginInv'
<1>1. /\ at = "tuned" /\ UNCHANGED <<limits, broker, offered, told, line, kernel, connects, queued, buffer>>
  BY DEF SendTuneOk, state, brokerVars, received
<1>2. queued = <<>> /\ ~IsStale /\ Agreed' /\ limits.frame_max = BothMax /\ broker \notin {"header", "start_ok"}
  BY <1>1 DEF LoginInv, LeftInv, TunedInv, Agreed
<1>3. at' = "open"
  BY <1>2 DEF SendTuneOk
<1>4. OnlyTakes /\ ~IsStale' /\ Coming' = Coming
  BY <1>1, <1>2 DEF OnlyTakes, Takes1, IsStale, Coming
<1>5. \A i \in DOMAIN wire' :
        \/ i \in DOMAIN wire /\ wire'[i] = wire[i]
        \/ wire'[i].kind = "cut"
        \/ wire'[i].kind = "tune_ok" /\ wire'[i].data = limits
  <2>1. \E ok \in BOOLEAN : Sends(Method("tune_ok", limits), ok)
    BY DEF SendTuneOk
  <2>2. wire \in Seq(Sent) /\ limits \in Limits
    BY TypedParts DEF LoginInv, TypedFrames, TypedLimits
  <2>3. /\ Method("tune_ok", limits) \in Sent /\ Method("tune_ok", limits).kind = "tune_ok"
        /\ Method("tune_ok", limits).data = limits /\ Cut.kind = "cut"
    BY <2>2, LimitsFacts DEF Handshake
  <2> QED BY <2>1, <2>2, <2>3, SendsFacts
<1>6. NothingOfTheStart
  <2>1. \A i \in DOMAIN wire : wire[i].kind # "header"
    BY <1>1, EarlyFacts DEF Early
  <2>2. \A i \in DOMAIN Coming : Coming[i].kind \notin Starts
    BY <1>1, EarlyFacts DEF Early
  <2> QED BY <1>4, <1>5, <2>1, <2>2 DEF NothingOfTheStart
<1>7. FirstInv' /\ AbortsForCause'
  BY <1>3 DEF FirstInv, AbortsForCause
<1> QED BY <1>1, <1>2, <1>3, <1>4, <1>5, <1>6, <1>7, AdvanceStep

LEMMA SendHeaderInv ==
  ASSUME LoginInv, TypedInv', SendHeader
  PROVE  LoginInv'
<1>1. /\ at = "connected" /\ at' = "start"
      /\ UNCHANGED <<limits, broker, offered, told, line, kernel, connects, queued, buffer>>
  BY DEF SendHeader, state, brokerVars, received
<1>2. Coming = <<>> /\ broker = "header" /\ wire = <<>>
  BY <1>1 DEF LoginInv, FirstInv
<1>3. Coming' = Coming /\ (IsStale' <=> IsStale) /\ AgeInv'
  BY <1>1, KeepComing DEF LoginInv
<1>4. LeftInv' /\ ComingInv' /\ TunedInv' /\ AbortsForCause'
  BY <1>1, <1>2, <1>3 DEF LoginInv, LeftInv, Begun, ComingInv, TunedInv, AbortsForCause
<1>5. \A i \in DOMAIN wire' : wire'[i].kind = "cut" \/ (wire'[i].kind = "header" /\ line = "up")
  <2>1. \E ok \in BOOLEAN : Sends(ClientFrame("header", 0, NoLimits), ok)
    BY DEF SendHeader
  <2>2. wire \in Seq(Sent)
    BY TypedParts DEF LoginInv, TypedFrames
  <2>3. ClientFrame("header", 0, NoLimits) \in Sent /\ ClientFrame("header", 0, NoLimits).kind = "header" /\ Cut.kind = "cut"
    BY LimitsFacts
  <2>4. ~ \E i \in DOMAIN wire : TRUE
    BY <1>2
  <2> QED BY <2>1, <2>2, <2>3, <2>4, SendsFacts
<1>6. WireInv'
  BY <1>1, <1>2, <1>5 DEF WireInv, Says, Content
<1>7. \A i \in DOMAIN wire' : i = 1
  <2>1. wire' = <<>> \/ \E g \in Sent : wire' = Append(<<>>, g)
    BY <1>2, LimitsFacts DEF SendHeader, Sends
  <2> QED BY <2>1
<1>8. FirstInv'
  BY <1>1, <1>2, <1>3, <1>7 DEF FirstInv
<1> QED BY <1>3, <1>4, <1>6, <1>8 DEF LoginInv

(* A step on a tuned connection.                                           *)
LEMMA SteadyStep ==
  ASSUME LoginInv, TypedInv', at \in Begun, at' \in Begun,
         OnlyTakes, UNCHANGED <<limits, broker, offered, told, line>>,
         \A i \in DOMAIN wire' :
           \/ i \in DOMAIN wire /\ wire'[i] = wire[i]
           \/ wire'[i].kind = "cut"
           \/ wire'[i].kind \in Content \union {"open"} /\ wire'[i].size <= BothMax,
         at' \in {"ready", "publishing"} => Opened
  PROVE  LoginInv'
<1>1. /\ TypedFrames /\ AgeInv /\ ComingInv /\ BothMax' = BothMax /\ Agreed'
      /\ at \notin {"start", "aborted"} /\ at' \notin Early /\ at' # "aborted"
      /\ limits.frame_max = BothMax /\ broker \notin {"header", "start_ok"}
  BY TypedParts DEF LoginInv, Begun, Early, TunedInv, BothMax, Agreed
<1>2. AgeInv' /\ LeftInv'
  <2>1. AgeInv' /\ ~IsStale'
    BY <1>1, AgeKept DEF LoginInv, LeftInv
  <2> QED BY <1>1, <2>1 DEF LeftInv, Early
<1>3. ComingInv'
  <2> SUFFICES ASSUME NEW i \in DOMAIN Coming' PROVE Means(Coming[i])'
    BY DEF ComingInv
  <2>1. PICK j \in DOMAIN Coming : Coming'[i] = Coming[j]
    BY <1>1, ComingKept
  <2>2. Means(Coming[j]) /\ (Opened => Opened')
    BY <1>1 DEF ComingInv, Opened
  <2> QED BY <1>1, <2>1, <2>2 DEF Means
<1>4. TunedInv' /\ FirstInv' /\ AbortsForCause'
  <2>1. (Opened => Opened') /\ (broker \in {"open", "opened"} => told = limits)
    BY <1>1 DEF Opened, LoginInv, TunedInv
  <2> QED BY <1>1, <2>1 DEF TunedInv, FirstInv, AbortsForCause, Early
<1>5. WireInv'
  <2> SUFFICES ASSUME NEW i \in DOMAIN wire' PROVE Says(wire[i])'
    BY DEF WireInv
  <2>1. CASE i \in DOMAIN wire /\ wire'[i] = wire[i]
    <3>1. Says(wire[i])
      BY <2>1 DEF LoginInv, WireInv
    <3> QED BY <1>1, <2>1, <3>1 DEF Says
  <2>2. CASE wire'[i].kind = "cut"
    BY <2>2 DEF Says, Content
  <2>3. CASE wire'[i].kind \in Content \union {"open"} /\ wire'[i].size <= BothMax
    BY <1>1, <2>3 DEF Says, Content
  <2> QED BY <2>1, <2>2, <2>3
<1> QED BY <1>2, <1>3, <1>4, <1>5 DEF LoginInv

LEMMA OpensInv ==
  ASSUME LoginInv, TypedInv', SendOpen, at' # "failed"
  PROVE  LoginInv'
<1>1. /\ at = "open" /\ at' = "opening"
      /\ UNCHANGED <<limits, broker, offered, told, line, kernel, connects, queued, buffer>>
  BY DEF SendOpen, state, brokerVars, received
<1>2. OnlyTakes
  BY <1>1 DEF OnlyTakes, Takes1
<1>3. \A i \in DOMAIN wire' :
        \/ i \in DOMAIN wire /\ wire'[i] = wire[i]
        \/ wire'[i].kind = "cut"
        \/ wire'[i].kind = "open" /\ wire'[i].size <= BothMax
  <2>1. \E ok \in BOOLEAN : Sends(Method("open", NoLimits), ok)
    BY DEF SendOpen
  <2>2. wire \in Seq(Sent) /\ limits.frame_max = BothMax
    BY <1>1, TypedParts DEF LoginInv, TypedFrames, TunedInv, Begun
  <2>3. Method("open", NoLimits) \in Sent /\ Method("open", NoLimits).kind = "open" /\ Cut.kind = "cut"
    BY LimitsFacts DEF Handshake
  <2>4. Fits(Method("open", NoLimits)) => Method("open", NoLimits).size <= BothMax
    BY <2>2, <2>3 DEF Fits
  <2> QED BY <2>1, <2>2, <2>3, <2>4, SendsFacts
<1> QED BY <1>1, <1>2, <1>3, SteadyStep DEF Begun

LEMMA LoginDoneInv ==
  ASSUME LoginInv, TypedInv', LoginDone
  PROVE  LoginInv'
<1>1. /\ at = "opening" /\ at' = "ready"
      /\ UNCHANGED <<limits, wire, broker, offered, told, line, kernel, connects, queued>>
  BY DEF LoginDone, state, brokerVars
<1>2. PICK f \in ToSet(buffer) : CallTakes(f) /\ f.kind = "open_ok"
  BY DEF LoginDone
<1>3. OnlyTakes
  BY <1>1, <1>2, CallTakesKeeps
<1>4. TypedFrames /\ AgeInv /\ ComingInv /\ ~IsStale
  BY <1>1, TypedParts DEF LoginInv, LeftInv, Begun
<1>5. buffer # <<>> /\ f = buffer[1] /\ 1 \in DOMAIN buffer
  BY <1>2, <1>4, CallTakesFacts, TailFacts DEF TypedFrames
<1>6. Opened
  BY <1>2, <1>4, <1>5, InBuffer DEF ComingInv, Means
<1> QED BY <1>1, <1>3, <1>6, SteadyStep DEF Begun

(* What is published on a closed connection changes nothing there.         *)
LEMMA AstrayStep ==
  ASSUME LoginInv, TypedInv', at \in {"failed", "closed", "astray"}, at' \in {"astray", "closed"}, OnlyTakes,
         UNCHANGED <<limits, wire, broker, offered, told>>
  PROVE  LoginInv'
<1>1. at' \in Elsewhere /\ at \notin {"start", "aborted"}
  BY DEF Elsewhere, Phase, Early, Begun
<1>2. OldOrClose
  BY SameIsOld
<1>3. NothingOfTheStart
  BY <1>1, <1>2, PastStart
<1> QED BY <1>1, <1>2, <1>3, ElsewhereStep

LEMMA StartPublishInv ==
  ASSUME LoginInv, TypedInv', StartPublish
  PROVE  LoginInv'
<1>1. UNCHANGED <<limits, wire, broker, offered, told, line, kernel, connects, queued, buffer>>
  BY DEF StartPublish, state, brokerVars, received
<1>2. OnlyTakes
  BY <1>1 DEF OnlyTakes, Takes1
<1>3. CASE at = "ready"
  <2>1. at' = "publishing" /\ Opened
    BY <1>3 DEF StartPublish, LoginInv, TunedInv
  <2> QED BY <1>1, <1>2, <1>3, <2>1, SteadyStep DEF Begun
<1>4. CASE at \in {"failed", "closed"} /\ at' = "astray"
  BY <1>1, <1>2, <1>4, AstrayStep
<1> QED BY <1>3, <1>4 DEF StartPublish, Stranded

LEMMA PublishStepInv ==
  ASSUME LoginInv, TypedInv', PublishStep,
         UNCHANGED <<state, held, connects, received, kernel, line, brokerVars, contents>>
  PROVE  LoginInv'
<1>1. /\ PublisherInv /\ wire \in Seq(Sent) /\ limits \in Limits
  BY TypedParts DEF LoginInv, TypedFrames, TypedLimits
<1>2. /\ next # "none" /\ at \in Underway
      /\ at = "publishing" => at' \in {"ready", "publishing"}
      /\ at = "astray" => at' \in {"closed", "astray"}
      /\ \E ok \in BOOLEAN : Sends(SentFrame, ok)
  BY <1>1 DEF PublishStep, PublisherInv, Underway
<1>4. UNCHANGED <<limits, broker, offered, told, line, kernel, connects, queued, buffer>>
  BY DEF state, brokerVars, received
<1>5. OnlyTakes
  BY <1>4 DEF OnlyTakes, Takes1
<1>8. CASE at = "astray"
  <2>1. sockfd \notin open
    BY <1>8, TypedParts DEF LoginInv, DescriptorInv
  <2>2. wire' = wire
    BY <1>2, <2>1 DEF Sends
  <2> QED BY <1>2, <1>4, <1>5, <1>8, <2>2, AstrayStep
<1>3. at = "publishing" => Opened /\ limits.frame_max = BothMax
  BY DEF LoginInv, TunedInv, Begun
<1> SUFFICES ASSUME at = "publishing" PROVE LoginInv'
  BY <1>2, <1>8 DEF Underway
<1>6. SentFrame \in Sent /\ SentFrame.kind \in Content /\ (Fits(SentFrame) => SentFrame.size <= BothMax)
  <2>1. next \in {"method", "header", "body"}
    BY <1>1, <1>2 DEF PublisherInv
  <2>2. CASE next = "method"
    <3>1. SentFrame = MethodFrame
      BY <2>2 DEF SentFrame
    <3> QED BY <1>1, <1>2, <1>3, <3>1, FrameFacts DEF Fits, Content
  <2>3. CASE next = "header"
    <3>1. SentFrame = HeaderFrame
      BY <2>3 DEF SentFrame
    <3> QED BY <1>1, <1>2, <1>3, <3>1, FrameFacts DEF Fits, Content
  <2>4. CASE next = "body"
    <3>1. SentFrame = BodyFrame
      BY <2>4 DEF SentFrame
    <3> QED BY <1>1, <1>3, <2>4, <3>1, PieceFacts DEF Fits, Content
  <2> QED BY <2>1, <2>2, <2>3, <2>4
<1>7. \A i \in DOMAIN wire' :
        \/ i \in DOMAIN wire /\ wire'[i] = wire[i]
        \/ wire'[i].kind = "cut"
        \/ wire'[i].kind \in Content \union {"open"} /\ wire'[i].size <= BothMax
  BY <1>1, <1>2, <1>6, SendsFacts, LimitsFacts
<1> QED BY <1>2, <1>3, <1>4, <1>5, <1>7, SteadyStep DEF Begun

(* Steps that leave the program where it is.                               *)
LEMMA StayStep ==
  ASSUME LoginInv, TypedInv', UNCHANGED <<at, limits, broker, offered, told, connects, unexpected>>,
         AgeInv', LeftInv',
         \/ Coming' = Coming
         \/ at \in {"opening", "closing", "dying"} /\
              \A i \in DOMAIN Coming' : \E j \in DOMAIN Coming : Coming'[i] = Coming[j],
         UNCHANGED <<wire, line>> \/ wire' = <<>>
  PROVE  LoginInv'
<1>1. BothMax' = BothMax /\ (Agreed => Agreed') /\ (Opened => Opened')
  BY DEF BothMax, Agreed, Opened
<1>2. ComingInv'
  <2> SUFFICES ASSUME NEW i \in DOMAIN Coming' PROVE Means(Coming[i])'
    BY DEF ComingInv
  <2>1. PICK j \in DOMAIN Coming : Coming'[i] = Coming[j]
    OBVIOUS
  <2>2. Means(Coming[j])
    BY DEF LoginInv, ComingInv
  <2> QED BY <1>1, <2>1, <2>2 DEF Means
<1>3. FirstInv'
  BY DEF LoginInv, FirstInv
<1>4. TunedInv' /\ AbortsForCause'
  BY <1>1 DEF LoginInv, TunedInv, AbortsForCause
<1>5. WireInv'
  <2> SUFFICES ASSUME NEW i \in DOMAIN wire' PROVE Says(wire[i])'
    BY DEF WireInv
  <2>1. wire' = wire /\ line' = line
    OBVIOUS
  <2>2. Says(wire[i])
    BY <2>1 DEF LoginInv, WireInv
  <2> QED BY <1>1, <2>1, <2>2 DEF Says
<1> QED BY <1>2, <1>3, <1>4, <1>5 DEF LoginInv

LEMMA StillInv ==
  ASSUME LoginInv, TypedInv', UNCHANGED <<at, limits, broker, offered, told, connects, received, kernel>>,
         UNCHANGED <<wire, line>> \/ wire' = <<>>
  PROVE  LoginInv'
<1>1. UNCHANGED <<buffer, queued, unexpected>>
  BY DEF received
<1>2. Coming' = Coming /\ AgeInv' /\ (IsStale' <=> IsStale)
  BY <1>1, KeepComing DEF LoginInv
<1>3. LeftInv'
  BY <1>1, <1>2 DEF LoginInv, LeftInv
<1> QED BY <1>1, <1>2, <1>3, StayStep

LEMMA RecvInv ==
  ASSUME LoginInv, TypedInv', Recv
  PROVE  LoginInv'
<1>1. UNCHANGED <<at, limits, broker, offered, told, connects, unexpected, queued, wire, line>>
  BY DEF Recv, state, brokerVars
<1>2. TypedFrames /\ AgeInv
  BY TypedParts DEF LoginInv
<1>3. /\ Coming' = Coming /\ ~IsStale'
      /\ \A i \in DOMAIN buffer' : buffer'[i].on = connects
      /\ \A i \in DOMAIN kernel' : kernel'[i].on = connects
  BY <1>2, RecvComing
<1>4. AgeInv'
  <2>1. connects \in Nat
    BY TypedParts DEF LoginInv, DescriptorInv
  <2>2. \A i \in DOMAIN buffer' : buffer'[i].on = buffer'[1].on
    <3>1. \A i \in DOMAIN buffer' : 1 \in DOMAIN buffer'
      <4>1. buffer' \in Seq(BrokerFrame)
        BY TypedPartsAgain DEF TypedFrames
      <4> QED BY <4>1, LenProperties
    <3> QED BY <1>3, <3>1
  <2> QED BY <1>1, <1>2, <1>3, <2>1, <2>2 DEF AgeInv
<1>5. LeftInv'
  BY <1>1, <1>3 DEF LoginInv, LeftInv
<1> QED BY <1>1, <1>3, <1>4, <1>5, StayStep

LEMMA SetsAsideInv ==
  ASSUME LoginInv, TypedInv', CallSetsAside
  PROVE  LoginInv'
<1>1. UNCHANGED <<at, limits, broker, offered, told, connects, unexpected, wire, line, kernel>>
  BY DEF CallSetsAside, state, brokerVars
<1>2. PICK f \in ToSet(buffer) : CallTakes(f) /\ queued' = Append(queued, f)
  BY DEF CallSetsAside
<1>3. TypedFrames /\ AgeInv /\ ComingInv /\ buffer \in Seq(BrokerFrame) /\ queued \in Seq(BrokerFrame)
  BY TypedParts DEF LoginInv, TypedFrames
<1>4. /\ f \in BrokerFrame /\ buffer # <<>> /\ f = buffer[1] /\ buffer' = Tail(buffer)
      /\ 1 \in DOMAIN buffer /\ at \in {"opening", "closing", "dying"}
  BY <1>2, <1>3, CallTakesFacts, TailFacts
<1>5. f.kind \notin Starts /\ f.on <= connects
  <2>1. CASE IsStale
    BY <1>3, <1>4, <2>1 DEF AgeInv
  <2>2. CASE ~IsStale
    BY <1>3, <1>4, <2>2, InBuffer DEF ComingInv, Means, AgeInv
  <2> QED BY <2>1, <2>2
<1>6. /\ IsStale => Coming' = Coming
      /\ ~IsStale => Coming # <<>> /\ Coming' = Tail(Coming)
      /\ \A i \in DOMAIN buffer' : i + 1 \in DOMAIN buffer /\ buffer'[i] = buffer[i + 1]
      /\ IsStale' => IsStale
  BY <1>1, <1>3, <1>4, TakeComing
<1>7. \A i \in DOMAIN Coming' : \E j \in DOMAIN Coming : Coming'[i] = Coming[j]
  <2>1. CASE IsStale
    BY <1>6, <2>1
  <2>2. CASE ~IsStale
    <3>1. Coming \in Seq(BrokerFrame) /\ Takes1(Coming, Coming')
      BY <1>3, <1>6, <2>2, ComingTyped DEF Takes1
    <3> QED BY <3>1, TakesElements
  <2> QED BY <2>1, <2>2
<1>8. AgeInv'
  <2>1. \A i \in DOMAIN queued' : queued'[i].on <= connects /\ queued'[i].kind \notin Starts
    <3>1. \A i \in DOMAIN queued' : (i \in DOMAIN queued /\ queued'[i] = queued[i]) \/ queued'[i] = f
      BY <1>2, <1>3, <1>4, AppendFacts
    <3> QED BY <1>3, <1>5, <3>1 DEF AgeInv
  <2>2. \A i \in DOMAIN buffer' : buffer'[i].on <= connects /\ buffer'[i].on = buffer'[1].on
    <3>1. \A i \in DOMAIN buffer' : 1 \in DOMAIN buffer'
      <4>1. buffer' \in Seq(BrokerFrame)
        BY TypedPartsAgain DEF TypedFrames
      <4> QED BY <4>1, LenProperties
    <3> QED BY <1>3, <1>6, <3>1 DEF AgeInv
  <2>3. IsStale' => \A i \in DOMAIN buffer' : buffer'[i].kind \notin Starts
    BY <1>3, <1>6 DEF AgeInv
  <2>4. \A i \in DOMAIN kernel' : kernel'[i].on = connects'
    BY <1>1, <1>3 DEF AgeInv
  <2> QED BY <1>1, <2>1, <2>2, <2>3, <2>4 DEF AgeInv
<1>9. LeftInv'
  BY <1>1, <1>4, <1>6 DEF LoginInv, LeftInv, Begun
<1> QED BY <1>1, <1>4, <1>7, <1>8, <1>9, StayStep

LEMMA ConnectInv ==
  ASSUME LoginInv, TypedInv', ConnectToHost
  PROVE  LoginInv'
<1>1. /\ at \in {"new", "failed", "closed"} /\ at' = "connected" /\ connects' = connects + 1
      /\ kernel' = <<>> /\ wire' = <<>> /\ broker' = "header" /\ UNCHANGED <<buffer, queued, unexpected>>
  BY DEF ConnectToHost, Unconnected, received
<1>2. TypedFrames /\ AgeInv /\ ComingInv /\ connects \in Nat /\ buffer \in Seq(BrokerFrame) /\ queued \in Seq(BrokerFrame)
  BY TypedParts DEF LoginInv, TypedFrames, DescriptorInv
<1>3. \A i \in DOMAIN buffer : buffer[i].on \in Nat /\ buffer[i].kind \notin Starts
  <2> SUFFICES ASSUME NEW i \in DOMAIN buffer PROVE buffer[i].on \in Nat /\ buffer[i].kind \notin Starts
    OBVIOUS
  <2>1. buffer[i] \in BrokerFrame
    BY <1>2, ElementOfSeq, LenProperties
  <2>2. CASE IsStale
    BY <1>2, <2>1, <2>2 DEF AgeInv, BrokerFrame
  <2>3. CASE ~IsStale
    BY <1>1, <1>2, <2>1, <2>3, InBuffer DEF ComingInv, Means, BrokerFrame
  <2> QED BY <2>2, <2>3
<1>4. \A i \in DOMAIN queued : queued[i].on \in Nat
  <2>1. \A i \in DOMAIN queued : queued[i] \in BrokerFrame
    BY <1>2, ElementOfSeq, LenProperties
  <2> QED BY <2>1 DEF BrokerFrame
<1>5. buffer # <<>> => 1 \in DOMAIN buffer
  BY <1>2, TailFacts
<1>6. \A i \in DOMAIN buffer : buffer[i].on <= connects' /\ buffer[i].on # connects' /\ buffer[i].on = buffer[1].on
  BY <1>1, <1>2, <1>3 DEF AgeInv
<1>7. \A i \in DOMAIN queued : queued[i].on <= connects' /\ queued[i].on # connects' /\ queued[i].kind \notin Starts
  BY <1>1, <1>2, <1>4 DEF AgeInv
<1>8. AgeInv' /\ LeftInv'
  BY <1>1, <1>3, <1>6, <1>7 DEF AgeInv, LeftInv, Begun
<1>9. Coming' = <<>>
  <2>1. CASE buffer = <<>>
    <3>1. <<>> \o <<>> = <<>>
      BY EmptySeq, ConcatEmptySeq
    <3> QED BY <1>1, <2>1, <3>1 DEF Coming, IsStale
  <2>2. CASE buffer # <<>>
    BY <1>1, <1>5, <1>6, <2>2 DEF Coming, IsStale
  <2> QED BY <2>1, <2>2
<1>10. ComingInv' /\ FirstInv' /\ TunedInv' /\ WireInv' /\ AbortsForCause'
  BY <1>1, <1>9 DEF ComingInv, FirstInv, TunedInv, WireInv, AbortsForCause, Begun
<1> QED BY <1>8, <1>10 DEF LoginInv

(* What the broker says and reads.                                         *)
LEMMA WireRead ==
  ASSUME LoginInv, wire' = wire \/ (wire # <<>> /\ wire' = Tail(wire))
  PROVE  /\ \A i \in DOMAIN wire' : \E j \in DOMAIN wire : wire'[i] = wire[j]
         /\ wire' # wire => \A i \in DOMAIN wire' : i + 1 \in DOMAIN wire /\ i + 1 # 1 /\ wire'[i] = wire[i + 1]
<1>1. wire \in Seq(Sent)
  BY TypedParts DEF LoginInv, TypedFrames
<1>2. CASE wire' = wire
  BY <1>2
<1>3. CASE wire # <<>> /\ wire' = Tail(wire)
  <2>1. \A i \in DOMAIN wire' : i \in Nat \ {0} /\ i + 1 \in DOMAIN wire /\ wire'[i] = wire[i + 1]
    BY <1>1, <1>3, TailFacts
  <2> QED BY <2>1
<1> QED BY <1>2, <1>3

LEMMA WireHead ==
  ASSUME LoginInv, wire # <<>>
  PROVE  Head(wire) \in Sent /\ Says(Head(wire)) /\ 1 \in DOMAIN wire /\ Head(wire) = wire[1]
  BY TypedParts, TailFacts DEF LoginInv, TypedFrames, WireInv

LEMMA BrokerKeeps ==
  ASSUME LoginInv, UNCHANGED <<at, connects, buffer, queued, unexpected>>,
         \/ kernel' = kernel
         \/ \E f \in BrokerFrame : f.on = connects /\ kernel' = Append(kernel, f)
  PROVE  AgeInv' /\ LeftInv' /\ AbortsForCause'
<1>1. kernel \in Seq(BrokerFrame) /\ AgeInv
  BY TypedParts DEF LoginInv, TypedFrames
<1>2. \A i \in DOMAIN kernel' : kernel'[i].on = connects
  <2>1. CASE kernel' = kernel
    BY <1>1, <2>1 DEF AgeInv
  <2>2. ASSUME NEW f \in BrokerFrame, f.on = connects, kernel' = Append(kernel, f)
        PROVE  \A i \in DOMAIN kernel' : kernel'[i].on = connects
    <3>1. \A i \in DOMAIN kernel' : (i \in DOMAIN kernel /\ kernel'[i] = kernel[i]) \/ kernel'[i] = f
      BY <1>1, <2>2, AppendFacts
    <3> QED BY <1>1, <2>2, <3>1 DEF AgeInv
  <2> QED BY <2>1, <2>2
<1>3. IsStale' <=> IsStale
  BY DEF IsStale
<1>4. AgeInv'
  BY <1>1, <1>2, <1>3 DEF AgeInv
<1> QED BY <1>3, <1>4 DEF LoginInv, LeftInv, AbortsForCause

LEMMA BrokerStartsInv ==
  ASSUME LoginInv, TypedInv', BrokerStarts \/ BrokerRefusesVersion, at # "aborted"
  PROVE  LoginInv'
<1>1. /\ UNCHANGED <<at, limits, offered, told, connects, buffer, queued, unexpected, line>>
      /\ broker = "header" /\ broker' \in {"start_ok", "closed"} /\ wire # <<>> /\ wire' = Tail(wire)
      /\ Head(wire).kind = "header" /\ line = "up"
  BY DEF BrokerStarts, BrokerRefusesVersion, BrokerReads, state, received
<1>2. at = "start" /\ 1 \in DOMAIN wire
  BY <1>1, WireHead DEF Says
<1>3. TypedFrames /\ connects \in Nat \ {0}
  BY <1>1, TypedParts DEF LoginInv, TypedRest
<1>4. PICK f \in BrokerFrame :
        /\ (f.kind \in Starts /\ broker' = "start_ok") \/ (f.kind = "protocol" /\ broker' = "closed")
        /\ f.on = connects /\ kernel' = Append(kernel, f)
  <2>1. PICK k \in Starts \union {"protocol"} :
          /\ ToClient(k, NoLimits)
          /\ (k \in Starts /\ broker' = "start_ok") \/ (k = "protocol" /\ broker' = "closed")
    <3>1. CASE BrokerStarts
      <4>1. (\E s \in Starts : ToClient(s, NoLimits)) /\ broker' = "start_ok"
        BY <3>1 DEF BrokerStarts, BrokerReads, Starts
      <4> QED BY <4>1
    <3>2. CASE BrokerRefusesVersion
      BY <3>2 DEF BrokerRefusesVersion, BrokerReads
    <3> QED BY <3>1, <3>2
  <2>2. k \in BrokerKind /\ NoLimits \in Limits /\ kernel \in Seq(BrokerFrame)
    BY <1>3, LimitsFacts DEF TypedFrames, Starts, BrokerKind
  <2>3. /\ [kind |-> k, limits |-> NoLimits, on |-> connects] \in BrokerFrame
        /\ kernel' = Append(kernel, [kind |-> k, limits |-> NoLimits, on |-> connects])
    BY <1>3, <2>1, <2>2, ToClientFacts
  <2> QED BY <2>1, <2>3
<1>5. AgeInv' /\ LeftInv' /\ AbortsForCause'
  BY <1>1, <1>4, BrokerKeeps
<1>6. Coming = <<>>
  BY <1>1, <1>2 DEF LoginInv, FirstInv
<1>7. Len(Coming') = 1 /\ DOMAIN Coming' = 1 .. 1 /\ Coming'[1] = f
  BY <1>1, <1>3, <1>4, <1>6, SendComing
<1>8. ComingInv'
  BY <1>1, <1>2, <1>4, <1>7 DEF ComingInv, Means, Starts
<1>9. \A i \in DOMAIN wire' : wire'[i].kind \in {"start_ok", "cut"}
  <2> TAKE i \in DOMAIN wire'
  <2>1. i + 1 \in DOMAIN wire /\ i + 1 # 1 /\ wire'[i] = wire[i + 1]
    <3>1. wire \in Seq(Sent)
      BY <1>3 DEF TypedFrames
    <3>2. i \in Nat \ {0} /\ i + 1 \in DOMAIN wire /\ wire'[i] = wire[i + 1]
      BY <1>1, <3>1, TailFacts
    <3> QED BY <3>2
  <2>2. wire[i + 1].kind \in {"header", "start_ok", "cut"}
    BY <1>2, <2>1, EarlyFacts DEF Early
  <2>3. wire[i + 1].kind # "header"
    BY <1>2, <2>1 DEF LoginInv, FirstInv
  <2> QED BY <2>1, <2>2, <2>3
<1>10. WireInv'
  BY <1>9 DEF WireInv, Says, Content
<1>11. FirstInv'
  <2>1. Coming' # <<>> /\ \A i \in 2 .. Len(Coming') : Coming'[i].kind \notin Starts
    BY <1>7
  <2>2. \A i \in DOMAIN wire' : wire'[i].kind # "header"
    BY <1>9
  <2>3. /\ Coming'[1].kind \in Starts \union {"protocol"} /\ Len(Coming') = 1
        /\ Coming'[1].kind = "protocol" => broker' = "closed"
        /\ Coming'[1].kind \in Starts => broker' = "start_ok"
    BY <1>4, <1>7 DEF Starts
  <2> QED BY <1>1, <1>2, <2>1, <2>2, <2>3 DEF FirstInv
<1>12. TunedInv'
  BY <1>1, <1>2 DEF TunedInv, Begun
<1> QED BY <1>5, <1>8, <1>10, <1>11, <1>12 DEF LoginInv

LEMMA BrokerTunesInv ==
  ASSUME LoginInv, TypedInv', BrokerTunes, at # "aborted"
  PROVE  LoginInv'
<1>1. /\ UNCHANGED <<at, limits, told, connects, buffer, queued, unexpected, line>>
      /\ broker = "start_ok" /\ broker' = "tune_ok" /\ wire # <<>> /\ wire' = Tail(wire) /\ line = "up"
  BY DEF BrokerTunes, BrokerReads, state, received
<1>2. at \notin {"connected", "tuned"} \union Begun
  BY <1>1 DEF LoginInv, FirstInv, TunedInv
<1>3. TypedFrames /\ connects \in Nat \ {0} /\ offered' \in Limits
  BY <1>1, TypedParts, TypedPartsAgain DEF LoginInv, TypedRest, TypedLimits
<1>4. PICK f \in BrokerFrame : f.kind = "tune" /\ f.limits = offered' /\ f.on = connects /\ kernel' = Append(kernel, f)
  BY <1>3, ToClientFacts DEF BrokerTunes, TypedFrames, BrokerKind
<1>5. AgeInv' /\ LeftInv' /\ AbortsForCause'
  BY <1>1, <1>4, BrokerKeeps
<1>6. /\ Len(Coming') = Len(Coming) + 1 /\ Len(Coming) \in Nat /\ DOMAIN Coming' = 1 .. Len(Coming) + 1
      /\ Coming'[Len(Coming) + 1] = f
      /\ \A i \in DOMAIN Coming' : (i \in DOMAIN Coming /\ Coming'[i] = Coming[i]) \/ (i = Len(Coming) + 1 /\ Coming'[i] = f)
      /\ \A i \in DOMAIN Coming : Coming'[i] = Coming[i]
  BY <1>1, <1>3, <1>4, SendComing, ComingTyped
<1>7. ComingInv'
  <2> SUFFICES ASSUME NEW i \in DOMAIN Coming' PROVE Means(Coming[i])'
    BY DEF ComingInv
  <2>1. CASE i \in DOMAIN Coming /\ Coming'[i] = Coming[i]
    <3>1. Means(Coming[i]) /\ Coming[i].kind \notin {"tune", "open_ok"}
      BY <1>1, <2>1 DEF LoginInv, ComingInv, Means, Opened
    <3> QED BY <1>1, <2>1, <3>1 DEF Means
  <2>2. CASE Coming'[i] = f
    BY <1>1, <1>4, <2>2 DEF Means, Starts
  <2> QED BY <1>6, <2>1, <2>2
<1>8. \A i \in DOMAIN wire' : Says(wire'[i]) /\ wire'[i].kind \notin Content \union {"open", "header"}
  <2> TAKE i \in DOMAIN wire'
  <2>1. PICK j \in DOMAIN wire : wire'[i] = wire[j]
    BY <1>1, WireRead
  <2> QED BY <1>1, <2>1 DEF LoginInv, WireInv, Says
<1>9. WireInv'
  BY <1>1, <1>8 DEF WireInv, Says
<1>10. FirstInv'
  <2>1. CASE at = "start"
    <3>1. /\ Len(Coming) = 1 /\ Coming # <<>> /\ 1 \in DOMAIN Coming
          /\ Coming[1].kind \in Starts /\ Coming[1].kind # "protocol"
      BY <1>1, <1>3, <2>1, ComingTyped DEF LoginInv, FirstInv
    <3>2. /\ Len(Coming') = 2 /\ Coming'[1] = Coming[1] /\ Coming'[2] = f /\ Coming' # <<>>
      BY <1>6, <3>1
    <3>3. \A i \in 2 .. Len(Coming') : Coming'[i].kind \notin Starts
      BY <1>4, <3>2 DEF Starts
    <3> QED BY <1>1, <1>4, <1>8, <2>1, <3>1, <3>2, <3>3 DEF FirstInv
  <2>2. CASE at = "tune"
    <3>1. Coming = <<>>
      BY <1>1, <2>2 DEF LoginInv, FirstInv
    <3>2. Coming' # <<>> /\ Coming'[1] = f
      BY <1>6, <3>1
    <3> QED BY <1>1, <1>4, <2>2, <3>2 DEF FirstInv
  <2> QED BY <1>1, <1>2, <2>1, <2>2 DEF FirstInv
<1>11. TunedInv'
  BY <1>1, <1>2 DEF TunedInv, Begun
<1> QED BY <1>5, <1>7, <1>9, <1>10, <1>11 DEF LoginInv

LEMMA BrokerIsTunedInv ==
  ASSUME LoginInv, TypedInv', BrokerIsTuned, at # "aborted"
  PROVE  LoginInv'
<1>1. /\ UNCHANGED <<at, limits, offered, connects, buffer, queued, unexpected, line, kernel>>
      /\ broker = "tune_ok" /\ broker' = "open" /\ wire # <<>> /\ wire' = Tail(wire)
      /\ Head(wire).kind = "tune_ok" /\ told' = Head(wire).data
  BY DEF BrokerIsTuned, BrokerReads, state, received
<1>2. told' = limits /\ at \notin Early
  BY <1>1, WireHead DEF Says
<1>3. AgeInv' /\ LeftInv' /\ AbortsForCause'
  BY <1>1, BrokerKeeps
<1>4. Coming' = Coming /\ BothMax' = BothMax /\ (Agreed => Agreed')
  BY <1>1, KeepComing DEF BothMax, Agreed
<1>5. ComingInv'
  <2> SUFFICES ASSUME NEW i \in DOMAIN Coming' PROVE Means(Coming[i])'
    BY DEF ComingInv
  <2>1. Means(Coming[i]) /\ Coming[i].kind # "open_ok"
    BY <1>1, <1>4 DEF LoginInv, ComingInv, Means, Opened
  <2> QED BY <1>1, <1>4, <2>1 DEF Means
<1>6. FirstInv'
  BY <1>1, <1>2 DEF FirstInv, Early
<1>7. TunedInv'
  <2>1. at \notin {"ready", "publishing"}
    BY <1>1 DEF LoginInv, TunedInv, Opened
  <2> QED BY <1>1, <1>2, <1>4, <2>1 DEF LoginInv, TunedInv
<1>8. WireInv'
  <2> SUFFICES ASSUME NEW i \in DOMAIN wire' PROVE Says(wire[i])'
    BY DEF WireInv
  <2>1. PICK j \in DOMAIN wire : wire'[i] = wire[j]
    BY <1>1, WireRead
  <2>2. Says(wire[j])
    BY DEF LoginInv, WireInv
  <2> QED BY <1>1, <1>2, <1>4, <2>1, <2>2 DEF Says
<1> QED BY <1>3, <1>5, <1>6, <1>7, <1>8 DEF LoginInv

LEMMA BrokerOpensInv ==
  ASSUME LoginInv, TypedInv', BrokerOpens, at # "aborted"
  PROVE  LoginInv'
<1>1. /\ UNCHANGED <<at, limits, offered, told, connects, buffer, queued, unexpected, line>>
      /\ broker = "open" /\ broker' = "opened" /\ wire # <<>> /\ wire' = Tail(wire) /\ line = "up"
  BY DEF BrokerOpens, BrokerReads, state, received
<1>2. told' = limits /\ at \notin Early
  BY <1>1 DEF LoginInv, TunedInv
<1>3. TypedFrames /\ connects \in Nat \ {0}
  BY <1>1, TypedParts DEF LoginInv, TypedRest
<1>4. PICK f \in BrokerFrame : f.kind = "open_ok" /\ f.on = connects /\ kernel' = Append(kernel, f)
  BY <1>3, ToClientFacts, LimitsFacts DEF BrokerOpens, TypedFrames, BrokerKind
<1>5. AgeInv' /\ LeftInv' /\ AbortsForCause'
  BY <1>1, <1>4, BrokerKeeps
<1>6. BothMax' = BothMax /\ (Agreed => Agreed') /\ Opened'
  BY <1>1, <1>2 DEF BothMax, Agreed, Opened
<1>7. \A i \in DOMAIN Coming' : (i \in DOMAIN Coming /\ Coming'[i] = Coming[i]) \/ Coming'[i] = f
  BY <1>1, <1>3, <1>4, SendComing
<1>8. ComingInv'
  <2> SUFFICES ASSUME NEW i \in DOMAIN Coming' PROVE Means(Coming[i])'
    BY DEF ComingInv
  <2>1. CASE i \in DOMAIN Coming /\ Coming'[i] = Coming[i]
    <3>1. Means(Coming[i])
      BY <2>1 DEF LoginInv, ComingInv
    <3> QED BY <1>1, <1>6, <2>1, <3>1 DEF Means
  <2>2. CASE Coming'[i] = f
    BY <1>4, <1>6, <2>2 DEF Means, Starts
  <2> QED BY <1>7, <2>1, <2>2
<1>9. FirstInv'
  BY <1>1, <1>2 DEF FirstInv, Early
<1>10. TunedInv'
  BY <1>1, <1>2, <1>6 DEF LoginInv, TunedInv
<1>11. WireInv'
  <2> SUFFICES ASSUME NEW i \in DOMAIN wire' PROVE Says(wire[i])'
    BY DEF WireInv
  <2>1. PICK j \in DOMAIN wire : wire'[i] = wire[j]
    BY <1>1, WireRead
  <2>2. Says(wire[j])
    BY DEF LoginInv, WireInv
  <2> QED BY <1>1, <1>2, <1>6, <2>1, <2>2 DEF Says
<1> QED BY <1>5, <1>8, <1>9, <1>10, <1>11 DEF LoginInv

(* The broker closes, pushes, or reads what changes nothing of the above.  *)
LEMMA BrokerStep ==
  ASSUME LoginInv, TypedInv', at # "aborted", broker # "header",
         UNCHANGED <<at, limits, offered, told, connects, buffer, queued, unexpected, line>>,
         wire' = wire \/ (wire # <<>> /\ wire' = Tail(wire)),
         broker' \in {broker, "closed"},
         \/ kernel' = kernel /\ (broker' = broker \/ at \notin Early)
         \/ \E f \in BrokerFrame :
              /\ f.on = connects /\ f.kind \in {"close", "close_ok", "pushed"}
              /\ kernel' = Append(kernel, f)
              /\ \/ at \notin Early
                 \/ f.kind = "close" /\ broker' = "closed"
                 \/ broker' = broker /\ broker # "start_ok"
  PROVE  LoginInv'
<1>1. TypedFrames /\ ComingInv
  BY TypedParts DEF LoginInv
<1>2. AgeInv' /\ LeftInv' /\ AbortsForCause'
  BY BrokerKeeps
<1>3. BothMax' = BothMax /\ (Agreed => Agreed') /\ (Opened => Opened')
  BY DEF BothMax, Agreed, Opened
<1>4. TunedInv'
  BY <1>3 DEF LoginInv, TunedInv
<1>5. WireInv'
  <2> SUFFICES ASSUME NEW i \in DOMAIN wire' PROVE Says(wire[i])'
    BY DEF WireInv
  <2>1. PICK j \in DOMAIN wire : wire'[i] = wire[j]
    BY WireRead
  <2>2. Says(wire[j])
    BY DEF LoginInv, WireInv
  <2> QED BY <1>3, <2>1, <2>2 DEF Says
<1>6. \A i \in DOMAIN wire' : at = "start" /\ wire'[i].kind = "header" => i = 1
  <2> SUFFICES ASSUME NEW i \in DOMAIN wire', at = "start", wire'[i].kind = "header" PROVE i = 1
    OBVIOUS
  <2>1. PICK j \in DOMAIN wire : wire'[i] = wire[j]
    BY WireRead
  <2> QED BY <2>1 DEF LoginInv, WireInv, Says
<1>7. CASE kernel' = kernel /\ (broker' = broker \/ at \notin Early)
  <2>1. Coming' = Coming
    BY <1>7, KeepComing
  <2>2. ComingInv'
    <3> SUFFICES ASSUME NEW i \in DOMAIN Coming' PROVE Means(Coming[i])'
      BY DEF ComingInv
    <3>1. Means(Coming[i])
      BY <1>1, <2>1 DEF ComingInv
    <3> QED BY <1>3, <2>1, <3>1 DEF Means
  <2>3. FirstInv'
    <3>1. CASE at \notin Early
      BY <3>1 DEF FirstInv, Early
    <3>2. CASE broker' = broker
      <4>1. FirstInv /\ at # "connected"
        BY DEF LoginInv, FirstInv
      <4> QED BY <1>6, <2>1, <3>2, <4>1 DEF FirstInv
    <3> QED BY <1>7, <3>1, <3>2
  <2> QED BY <1>2, <1>4, <1>5, <2>2, <2>3 DEF LoginInv
<1>8. ASSUME NEW f \in BrokerFrame,
             f.on = connects, f.kind \in {"close", "close_ok", "pushed"}, kernel' = Append(kernel, f),
             \/ at \notin Early
             \/ f.kind = "close" /\ broker' = "closed"
             \/ broker' = broker /\ broker # "start_ok"
      PROVE  LoginInv'
  <2>1. /\ Len(Coming') = Len(Coming) + 1 /\ Len(Coming) \in Nat /\ DOMAIN Coming' = 1 .. Len(Coming) + 1
        /\ DOMAIN Coming = 1 .. Len(Coming) /\ (Coming # <<>> <=> Len(Coming) > 0)
        /\ Coming'[Len(Coming) + 1] = f
        /\ \A i \in DOMAIN Coming' : (i \in DOMAIN Coming /\ Coming'[i] = Coming[i]) \/ (i = Len(Coming) + 1 /\ Coming'[i] = f)
        /\ \A i \in DOMAIN Coming : Coming'[i] = Coming[i]
    BY <1>1, <1>8, SendComing, ComingTyped
  <2>2. ComingInv'
    <3> SUFFICES ASSUME NEW i \in DOMAIN Coming' PROVE Means(Coming[i])'
      BY DEF ComingInv
    <3>1. CASE i \in DOMAIN Coming /\ Coming'[i] = Coming[i]
      <4>1. Means(Coming[i])
        BY <1>1, <3>1 DEF ComingInv
      <4> QED BY <1>3, <3>1, <4>1 DEF Means
    <3>2. CASE Coming'[i] = f
      BY <1>8, <3>2 DEF Means, Starts
    <3> QED BY <2>1, <3>1, <3>2
  <2>3. FirstInv'
    <3>1. CASE at = "start"
      <4>1. /\ Coming # <<>> /\ Coming[1].kind \in Starts \union {"protocol"}
            /\ Coming[1].kind = "protocol" => broker = "closed"
            /\ \A i \in 2 .. Len(Coming) : Coming[i].kind \notin Starts
            /\ Coming[1].kind \in Starts =>
                 IF broker = "start_ok" THEN Len(Coming) = 1
                 ELSE Len(Coming) > 1 /\ Coming[2].kind \in {"tune", "close"}
        BY <3>1 DEF LoginInv, FirstInv
      <4>2. Coming' # <<>> /\ Coming'[1] = Coming[1] /\ broker' # "header" /\ broker' # "start_ok"
        BY <1>8, <2>1, <3>1, <4>1 DEF Early
      <4>3. \A i \in 2 .. Len(Coming') : Coming'[i].kind \notin Starts
        <5> TAKE i \in 2 .. Len(Coming')
        <5>1. CASE i = Len(Coming) + 1
          BY <1>8, <2>1, <5>1 DEF Starts
        <5>2. CASE i # Len(Coming) + 1
          <6>1. i \in 2 .. Len(Coming) /\ i \in DOMAIN Coming
            BY <2>1, <5>2
          <6> QED BY <2>1, <4>1, <6>1
        <5> QED BY <5>1, <5>2
      <4>4. Coming[1].kind \in Starts => Len(Coming') > 1 /\ Coming'[2].kind \in {"tune", "close"}
        <5> SUFFICES ASSUME Coming[1].kind \in Starts PROVE Len(Coming') > 1 /\ Coming'[2].kind \in {"tune", "close"}
          OBVIOUS
        <5>1. CASE broker = "start_ok"
          <6>1. Coming'[2] = f /\ Len(Coming') = 2
            <7>1. Len(Coming) = 1
              BY <4>1, <5>1
            <7> QED BY <2>1, <7>1
          <6> QED BY <1>8, <3>1, <5>1, <6>1 DEF Early
        <5>2. CASE broker # "start_ok"
          <6>1. 2 \in DOMAIN Coming
            BY <2>1, <4>1, <5>2
          <6> QED BY <2>1, <4>1, <5>2, <6>1
        <5> QED BY <5>1, <5>2
      <4>5. broker = "closed" => broker' = "closed"
        OBVIOUS
      <4> QED BY <1>6, <3>1, <4>1, <4>2, <4>3, <4>4, <4>5 DEF FirstInv
    <3>2. CASE at = "tune"
      <4>1. IF broker = "start_ok" THEN Coming = <<>>
            ELSE Coming # <<>> /\ Coming[1].kind \in {"tune", "close"}
        BY <3>2 DEF LoginInv, FirstInv
      <4>2. broker' # "header" /\ broker' # "start_ok"
        BY <1>8, <3>2 DEF Early
      <4>3. Coming' # <<>> /\ Coming'[1].kind \in {"tune", "close"}
        <5>1. CASE broker = "start_ok"
          <6>1. Coming'[1] = f /\ Coming' # <<>>
            BY <2>1, <4>1, <5>1
          <6> QED BY <1>8, <3>2, <5>1, <6>1 DEF Early
        <5>2. CASE broker # "start_ok"
          <6>1. 1 \in DOMAIN Coming /\ Coming' # <<>>
            BY <2>1, <4>1, <5>2
          <6> QED BY <2>1, <4>1, <5>2, <6>1
        <5> QED BY <5>1, <5>2
      <4> QED BY <3>2, <4>2, <4>3 DEF FirstInv
    <3>3. CASE at \notin {"start", "tune"}
      <4>1. at # "connected"
        BY DEF LoginInv, FirstInv
      <4> QED BY <3>3, <4>1 DEF FirstInv
    <3> QED BY <3>1, <3>2, <3>3
  <2> QED BY <1>2, <1>4, <1>5, <2>2, <2>3 DEF LoginInv
<1> QED BY <1>7, <1>8

LEMMA BrokerInv ==
  ASSUME LoginInv, TypedInv', Broker, at # "aborted"
  PROVE  LoginInv'
<1>1. TypedFrames /\ (line = "up" => connects \in Nat \ {0}) /\ NoLimits \in Limits
  BY TypedParts, LimitsFacts DEF LoginInv, TypedRest
<1>2. CASE BrokerIsClosed
  <2>1. /\ UNCHANGED <<at, limits, offered, told, connects, buffer, queued, unexpected, line>> /\ broker # "header"
        /\ broker' = "closed" /\ wire # <<>> /\ wire' = Tail(wire) /\ line = "up" /\ Head(wire).kind = "close"
    BY <1>2 DEF BrokerIsClosed, BrokerReads, state, received
  <2>2. at \notin Early
    BY <2>1, WireHead DEF Says
  <2>3. PICK f \in BrokerFrame : f.on = connects /\ f.kind = "close_ok" /\ kernel' = Append(kernel, f)
    BY <1>1, <1>2, <2>1, ToClientFacts DEF BrokerIsClosed, TypedFrames, BrokerKind
  <2> QED BY <2>1, <2>2, <2>3, BrokerStep
<1>3. CASE BrokerIgnores
  <2>1. /\ UNCHANGED <<at, limits, offered, told, connects, buffer, queued, unexpected, line, kernel>>
        /\ broker = "closed" /\ broker' = "closed" /\ wire # <<>> /\ wire' = Tail(wire)
    BY <1>3 DEF BrokerIgnores, BrokerReads, state, received
  <2> QED BY <2>1, BrokerStep
<1>4. CASE BrokerRefuses
  <2>1. /\ UNCHANGED <<at, limits, offered, told, connects, buffer, queued, unexpected, line, wire>>
        /\ broker # "header" /\ broker' = "closed" /\ line = "up"
    BY <1>4 DEF BrokerRefuses, state, received
  <2>2. PICK f \in BrokerFrame : f.on = connects /\ f.kind = "close" /\ kernel' = Append(kernel, f)
    BY <1>1, <1>4, <2>1, ToClientFacts DEF BrokerRefuses, TypedFrames, BrokerKind
  <2> QED BY <2>1, <2>2, BrokerStep
<1>5. CASE BrokerPushes
  <2>1. /\ UNCHANGED <<at, limits, offered, told, connects, buffer, queued, unexpected, line, wire, broker>>
        /\ broker \in {"tune_ok", "open", "opened"} /\ line = "up"
    BY <1>5 DEF BrokerPushes, state, received
  <2>2. PICK f \in BrokerFrame : f.on = connects /\ f.kind = "pushed" /\ kernel' = Append(kernel, f)
    BY <1>1, <1>5, <2>1, ToClientFacts DEF BrokerPushes, TypedFrames, BrokerKind
  <2> QED BY <2>1, <2>2, BrokerStep
<1> QED BY <1>2, <1>3, <1>4, <1>5, BrokerStartsInv, BrokerTunesInv, BrokerIsTunedInv, BrokerOpensInv DEF Broker

LEMMA TakingInv ==
  ASSUME LoginInv, TypedInv', Takings, at # "aborted"
  PROVE  LoginInv'
<1>1. /\ UNCHANGED <<at, limits, offered, told, connects, buffer, queued, unexpected, line>>
      /\ line = "up" /\ broker = "opened" /\ wire # <<>> /\ wire' = Tail(wire)
      /\ \/ kernel' = kernel /\ broker' = broker
         \/ ToClient("close", NoLimits) /\ broker' = "closed"
  BY TakingFacts DEF state, received
<1>2. TypedFrames /\ connects \in Nat \ {0} /\ NoLimits \in Limits
  BY <1>1, TypedParts, LimitsFacts DEF LoginInv, TypedRest
<1>3. CASE kernel' = kernel /\ broker' = broker
  BY <1>1, <1>3, BrokerStep
<1>4. CASE ToClient("close", NoLimits) /\ broker' = "closed"
  <2>1. PICK f \in BrokerFrame : f.on = connects /\ f.kind = "close" /\ kernel' = Append(kernel, f)
    BY <1>2, <1>4, ToClientFacts DEF TypedFrames, BrokerKind
  <2> QED BY <1>1, <1>4, <2>1, BrokerStep
<1> QED BY <1>1, <1>3, <1>4

LEMMA LoginInit == PublishInit => LoginInv
<1> SUFFICES ASSUME PublishInit PROVE LoginInv
  OBVIOUS
<1>1. TypedInv
  BY TypedInit
<1>2. /\ at = "new" /\ buffer = <<>> /\ queued = <<>> /\ kernel = <<>> /\ wire = <<>> /\ broker = "gone"
  BY DEF PublishInit, SessionInit
<1>3. Coming = <<>> /\ ~IsStale
  BY <1>2, EmptySeq, ConcatEmptySeq DEF Coming, IsStale
<1>4. AgeInv /\ LeftInv
  BY <1>2, <1>3 DEF AgeInv, LeftInv, Begun
<1>5. ComingInv /\ FirstInv /\ TunedInv /\ WireInv /\ AbortsForCause
  BY <1>2, <1>3 DEF ComingInv, FirstInv, TunedInv, WireInv, AbortsForCause, Begun
<1> QED BY <1>1, <1>4, <1>5 DEF LoginInv

LEMMA SessionLoginInv ==
  ASSUME LoginInv, TypedInv', SessionNext
  PROVE  LoginInv'
<1>1. at # "aborted"
  BY DEF SessionNext, Over
<1>2. CASE Login
  <2>1. CASE at' = "failed"
    BY <1>2, <2>1, LoginFailsInv
  <2>2. CASE at' # "failed"
    BY <1>2, <2>2, SendHeaderInv, StartOkInv, AbortsInv, TuneInv, TuneOkInv, OpensInv, LoginDoneInv
       DEF Login, StartRefused, WaitMethodFails, TuneNoMemory
  <2> QED BY <2>1, <2>2
<1>3. CASE Call
  BY <1>3, CallEndsInv, SetsAsideInv DEF Call
<1>4. CASE ConnectFails \/ OtherOpens \/ LineFails
  <2>1. /\ UNCHANGED <<at, limits, broker, offered, told, connects, received, kernel>>
        /\ UNCHANGED <<wire, line>> \/ wire' = <<>>
    BY <1>4 DEF ConnectFails, OtherOpens, LineFails, state, brokerVars
  <2> QED BY <2>1, StillInv
<1> QED BY <1>1, <1>2, <1>3, <1>4, ConnectInv, RecvInv, EndsInv, BrokerInv DEF SessionNext

LEMMA LoginStep == LoginInv /\ [PublishNext]_publishVars => LoginInv'
<1> SUFFICES ASSUME LoginInv, [PublishNext]_publishVars PROVE LoginInv'
  OBVIOUS
<1>1. TypedInv'
  BY TypedStep DEF LoginInv
<1>2. CASE SessionStep
  BY <1>1, <1>2, SessionLoginInv DEF SessionStep
<1>3. CASE StartPublish
  BY <1>1, <1>3, StartPublishInv
<1>4. CASE SendMethod \/ SendHeaderFrame \/ SendBody
  BY <1>1, <1>4, PublishStepFacts, PublishStepInv, TypedParts DEF LoginInv
<1>5. CASE Takings
  <2>1. at # "aborted"
    <3>1. broker = "opened"
      BY <1>5, TakingFacts
    <3> QED BY <3>1 DEF LoginInv, TunedInv
  <2> QED BY <1>1, <1>5, <2>1, TakingInv
<1>6. CASE UNCHANGED publishVars
  <2>1. /\ UNCHANGED <<at, limits, broker, offered, told, connects, received, kernel>>
        /\ UNCHANGED <<wire, line>>
    BY <1>6 DEF publishVars, sessionVars, state, brokerVars
  <2> QED BY <1>1, <2>1, StillInv
<1> QED BY <1>2, <1>3, <1>4, <1>5, <1>6 DEF PublishNext, amqp_basic_publish, Takings

(* Whatever the limits, the broker and the bounds, the login of a socket   *)
(* never takes what an earlier one left behind for an answer of its own.   *)
LEMMA LoginIsInvariant == PublishSpec => []LoginInv
<1>1. PublishInit => LoginInv
  BY LoginInit
<1>2. LoginInv /\ [PublishNext]_publishVars => LoginInv'
  BY LoginStep
<1> QED BY <1>1, <1>2, PTL DEF PublishSpec

(* loginAsUser: a login that succeeds leaves both sides with the same      *)
(* limits: each the smaller of the two wishes, where the server's 0 is     *)
(* none, and the client's 0 stays (amqp_socket.c:421-431).                 *)
THEOREM LoginLeavesAgreement == PublishSpec => []LoginAgrees
<1>1. LoginInv => LoginAgrees
  <2> SUFFICES ASSUME LoginInv, at = "ready"
               PROVE  /\ told = limits
                      /\ \A x \in DOMAIN limits :
                           limits[x] = IF ClientLimits[x] = 0 THEN 0 ELSE SmallerLimit(ClientLimits[x], offered[x])
                      /\ broker \in {"opened", "closed"}
    BY DEF LoginAgrees
  <2> QED BY DEF LoginInv, TunedInv, Opened, Begun, Agreed
<1> QED BY <1>1, LoginIsInvariant, PTL

(* amqp_simple_wait_method (amqp_socket.c:241) aborts the program only on  *)
(* a protocol header, a connection.close or a frame of an earlier          *)
(* connection.                                                             *)
THEOREM AbortsAreCaused == PublishSpec => []AbortsForCause
<1>1. LoginInv => AbortsForCause
  BY DEF LoginInv
<1> QED BY <1>1, LoginIsInvariant, PTL

(* amqp_send_frame: no frame after the tuning is longer than either side's *)
(* frame_max.                                                              *)
THEOREM FramesAlwaysFit == PublishSpec => []FramesFitBothSides
<1>1. LoginInv => FramesFitBothSides
  <2> SUFFICES ASSUME LoginInv, NEW f \in ToSet(wire),
                      f.kind \in {"open", "publish", "header frame", "body"}
               PROVE  f.size <= SmallerLimit(ClientLimits.frame_max, offered.frame_max)
    BY DEF FramesFitBothSides
  <2>1. PICK i \in DOMAIN wire : f = wire[i]
    BY DEF ToSet
  <2> QED BY <2>1 DEF LoginInv, WireInv, Says, Content, BothMax
<1> QED BY <1>1, LoginIsInvariant, PTL

-----------------------------------------------------------------------------
(* The frames on the way to the broker.  Those of the handshake are in     *)
(* their order, none the broker is past, and nothing follows a cut one.    *)
Rank(kind) ==
  IF kind = "header" THEN 1 ELSE IF kind = "start_ok" THEN 2 ELSE IF kind = "tune_ok" THEN 3 ELSE 4
Waits == IF broker \in {"gone", "closed"} THEN 0 ELSE IF broker = "opened" THEN 5 ELSE Rank(broker)
SaidAt(a) ==
  IF a = "connected" THEN 0 ELSE IF a = "start" THEN 1
  ELSE IF a \in {"tune", "tuned"} THEN 2 ELSE IF a = "open" THEN 3 ELSE 4
OrderInv ==
  /\ Waits <= SaidAt(at) + 1
  /\ \A i \in DOMAIN wire : wire[i].kind \in Handshake =>
       /\ Waits <= Rank(wire[i].kind) /\ Rank(wire[i].kind) <= SaidAt(at)
       /\ \A j \in DOMAIN wire : j < i /\ wire[j].kind \in Handshake => Rank(wire[j].kind) < Rank(wire[i].kind)
CutInv == \A i \in DOMAIN wire : wire[i].kind = "cut" => wire[i] = Cut /\ i = Len(wire)

LEMMA RankFacts ==
  /\ \A k : Rank(k) \in 1 .. 4
  /\ \A a : SaidAt(a) \in 0 .. 4
  /\ Waits \in 0 .. 5
  /\ Waits' \in 0 .. 5
  BY DEF Rank, SaidAt, Waits

LEMMA BrokenFacts ==
  ASSUME wire \in Seq(Sent), CutInv
  PROVE  Broken <=> \E i \in DOMAIN wire : wire[i].kind = "cut"
<1>1. wire # <<>> => Len(wire) \in DOMAIN wire /\ Last(wire) = wire[Len(wire)]
  BY EmptySeq, LenProperties DEF Last
<1>2. \A i \in DOMAIN wire : wire # <<>>
  OBVIOUS
<1> QED BY <1>1, <1>2, LimitsFacts DEF Broken, CutInv

(* The program sends f.                                                    *)
LEMMA SendOrder ==
  ASSUME OrderInv, CutInv, wire \in Seq(Sent), NEW f \in Sent, NEW ok \in BOOLEAN, Sends(f, ok),
         f.kind # "cut", broker' = broker, SaidAt(at) <= SaidAt(at'),
         ok /\ f.kind \in Handshake => Rank(f.kind) = SaidAt(at) + 1 /\ Rank(f.kind) <= SaidAt(at')
  PROVE  OrderInv' /\ CutInv'
<1>1. Waits' = Waits
  BY DEF Waits
<1>2. CASE wire' = wire
  <2>1. \A i \in DOMAIN wire : wire[i].kind \in Handshake => Rank(wire[i].kind) <= SaidAt(at')
    BY RankFacts DEF OrderInv
  <2> QED BY <1>1, <1>2, <2>1, RankFacts DEF OrderInv, CutInv
<1>3. ASSUME NEW g \in Sent, wire' = Append(wire, g), ~Broken, ok, g = f \/ g = Cut
      PROVE  OrderInv' /\ CutInv'
  <2>1. /\ Len(wire') = Len(wire) + 1 /\ DOMAIN wire' = 1 .. Len(wire) + 1 /\ DOMAIN wire = 1 .. Len(wire) /\ Len(wire) \in Nat
        /\ wire'[Len(wire) + 1] = g
        /\ \A i \in DOMAIN wire : wire'[i] = wire[i]
    BY <1>3, LenProperties
  <2>2. g.kind \in Handshake => Rank(g.kind) = SaidAt(at) + 1 /\ Rank(g.kind) <= SaidAt(at')
    BY <1>3, LimitsFacts DEF Handshake
  <2>3. OrderInv'
    <3> SUFFICES ASSUME NEW i \in DOMAIN wire', wire'[i].kind \in Handshake
                 PROVE  /\ Waits <= Rank(wire'[i].kind) /\ Rank(wire'[i].kind) <= SaidAt(at')
                        /\ \A j \in DOMAIN wire' :
                             j < i /\ wire'[j].kind \in Handshake => Rank(wire'[j].kind) < Rank(wire'[i].kind)
      BY <1>1, RankFacts DEF OrderInv
    <3>1. CASE i \in DOMAIN wire
      <4>1. \A j \in DOMAIN wire' : j < i => j \in DOMAIN wire
        BY <2>1, <3>1
      <4>2. wire'[i] = wire[i] /\ Waits <= Rank(wire[i].kind) /\ Rank(wire[i].kind) <= SaidAt(at)
        BY <2>1, <3>1 DEF OrderInv
      <4>3. Rank(wire[i].kind) <= SaidAt(at')
        BY <4>2, RankFacts
      <4> QED BY <2>1, <3>1, <4>1, <4>2, <4>3 DEF OrderInv
    <3>2. CASE i = Len(wire) + 1
      <4>1. wire'[i] = g /\ Rank(g.kind) = SaidAt(at) + 1 /\ Rank(g.kind) <= SaidAt(at')
        BY <2>1, <2>2, <3>2
      <4>2. Waits <= Rank(g.kind)
        BY <4>1 DEF OrderInv
      <4>3. ASSUME NEW j \in DOMAIN wire', j < i, wire'[j].kind \in Handshake
            PROVE  Rank(wire'[j].kind) < Rank(g.kind)
        <5>1. j \in DOMAIN wire /\ wire'[j] = wire[j]
          BY <2>1, <3>2, <4>3
        <5>2. Rank(wire[j].kind) <= SaidAt(at)
          BY <4>3, <5>1 DEF OrderInv
        <5> QED BY <4>1, <5>1, <5>2, RankFacts
      <4> QED BY <4>1, <4>2, <4>3
    <3> QED BY <2>1, <3>1, <3>2
  <2>4. CutInv'
    <3> SUFFICES ASSUME NEW i \in DOMAIN wire', wire'[i].kind = "cut"
                 PROVE  wire'[i] = Cut /\ i = Len(wire')
      BY DEF CutInv
    <3>1. i \notin DOMAIN wire
      BY <1>3, <2>1, BrokenFacts
    <3> QED BY <1>3, <2>1, <3>1
  <2> QED BY <2>3, <2>4
<1>4. wire' = wire \/ (ok /\ ~Broken /\ (wire' = Append(wire, f) \/ wire' = Append(wire, Cut)))
  BY SendsFacts
<1> QED BY <1>2, <1>3, <1>4, LimitsFacts

(* Nothing is sent.                                                        *)
LEMMA StillOrder ==
  ASSUME OrderInv, CutInv, wire' = wire \/ wire' = <<>>, broker' \in {broker, "closed"}, SaidAt(at) <= SaidAt(at')
  PROVE  OrderInv' /\ CutInv'
<1>1. Waits' = Waits \/ Waits' = 0
  BY DEF Waits
<1>2. CASE wire' = wire
  <2>1. \A i \in DOMAIN wire : wire[i].kind \in Handshake => Rank(wire[i].kind) <= SaidAt(at') /\ Waits' <= Rank(wire[i].kind)
    BY <1>1, RankFacts DEF OrderInv
  <2> QED BY <1>1, <1>2, <2>1, RankFacts DEF OrderInv, CutInv
<1>3. CASE wire' = <<>>
  BY <1>1, <1>3, RankFacts DEF OrderInv, CutInv
<1> QED BY <1>2, <1>3

(* The broker reads a frame.                                               *)
LEMMA ReadOrder ==
  ASSUME OrderInv, CutInv, wire \in Seq(Sent), wire # <<>>, wire' = Tail(wire), at' = at,
         \/ broker' \in {broker, "closed"}
         \/ Head(wire).kind \in Handshake /\ Rank(Head(wire).kind) = Waits /\ Waits' = Waits + 1
  PROVE  OrderInv' /\ CutInv'
<1>1. /\ 1 \in DOMAIN wire /\ Head(wire) = wire[1]
      /\ \A i \in DOMAIN wire' : i \in Nat \ {0} /\ i + 1 \in DOMAIN wire /\ wire'[i] = wire[i + 1]
      /\ Len(wire') = Len(wire) - 1 /\ Len(wire) \in Nat
  BY TailFacts, LenProperties
<1>2. CutInv'
  BY <1>1 DEF CutInv
<1>3. \/ Waits' = Waits \/ Waits' = 0
      \/ Head(wire).kind \in Handshake /\ Rank(Head(wire).kind) = Waits /\ Waits' = Waits + 1
  BY DEF Waits
<1>4. Waits' <= SaidAt(at) + 1
  BY <1>1, <1>3, RankFacts DEF OrderInv
<1>5. ASSUME NEW i \in DOMAIN wire', wire'[i].kind \in Handshake
      PROVE  /\ Waits' <= Rank(wire'[i].kind) /\ Rank(wire'[i].kind) <= SaidAt(at')
             /\ \A j \in DOMAIN wire' :
                  j < i /\ wire'[j].kind \in Handshake => Rank(wire'[j].kind) < Rank(wire'[i].kind)
  <2>1. /\ i + 1 \in DOMAIN wire /\ wire'[i] = wire[i + 1] /\ 1 < i + 1
        /\ Waits <= Rank(wire[i + 1].kind) /\ Rank(wire[i + 1].kind) <= SaidAt(at)
    BY <1>1, <1>5 DEF OrderInv
  <2>2. wire[1].kind \in Handshake => Rank(wire[1].kind) < Rank(wire[i + 1].kind)
    BY <1>1, <1>5, <2>1 DEF OrderInv
  <2>3. Waits' <= Rank(wire'[i].kind)
    BY <1>1, <1>3, <2>1, <2>2, RankFacts
  <2>4. ASSUME NEW j \in DOMAIN wire', j < i, wire'[j].kind \in Handshake
        PROVE  Rank(wire'[j].kind) < Rank(wire'[i].kind)
    <3>1. j + 1 \in DOMAIN wire /\ wire'[j] = wire[j + 1] /\ j + 1 < i + 1
      BY <1>1, <2>4
    <3> QED BY <1>5, <2>1, <2>4, <3>1 DEF OrderInv
  <2> QED BY <2>1, <2>3, <2>4
<1> QED BY <1>2, <1>4, <1>5 DEF OrderInv

LEMMA LoginOrder ==
  ASSUME TypedInv, OrderInv, CutInv, Login
  PROVE  OrderInv' /\ CutInv'
<1>1. wire \in Seq(Sent) /\ NoLimits \in Limits /\ limits \in Limits
  BY TypedParts, LimitsFacts DEF TypedFrames, TypedLimits
<1>2. broker' = broker
  BY DEF Login, SendHeader, StartOk, StartRefused, WaitMethodAborts, WaitMethodFails,
         Tune, TuneNoMemory, SendTuneOk, SendOpen, LoginDone, brokerVars
<1>3. CASE SendHeader
  <2>1. PICK ok \in BOOLEAN : Sends(ClientFrame("header", 0, NoLimits), ok)
    BY <1>3 DEF SendHeader
  <2>2. SaidAt(at) = 0 /\ SaidAt(at') = 1
    BY <1>3 DEF SendHeader, SaidAt
  <2>3. ClientFrame("header", 0, NoLimits) \in Sent /\ ClientFrame("header", 0, NoLimits).kind = "header"
    BY <1>1, LimitsFacts
  <2> QED BY <1>1, <1>2, <2>1, <2>2, <2>3, SendOrder DEF Rank
<1>4. CASE StartOk
  <2>1. PICK ok \in BOOLEAN : Sends(Method("start_ok", NoLimits), ok)
    BY <1>4 DEF StartOk
  <2>2. SaidAt(at) = 1 /\ SaidAt(at') \in {2, 4}
    BY <1>4 DEF StartOk, SaidAt, Released
  <2>3. Method("start_ok", NoLimits) \in Sent /\ Method("start_ok", NoLimits).kind = "start_ok"
    BY <1>1, LimitsFacts DEF Handshake
  <2> QED BY <1>1, <1>2, <2>1, <2>2, <2>3, SendOrder DEF Rank
<1>5. CASE SendTuneOk
  <2>1. PICK ok \in BOOLEAN : Sends(Method("tune_ok", limits), ok)
    BY <1>5 DEF SendTuneOk
  <2>2. SaidAt(at) = 2 /\ SaidAt(at') \in {3, 4}
    BY <1>5 DEF SendTuneOk, SaidAt
  <2>3. Method("tune_ok", limits) \in Sent /\ Method("tune_ok", limits).kind = "tune_ok"
    BY <1>1, LimitsFacts DEF Handshake
  <2> QED BY <1>1, <1>2, <2>1, <2>2, <2>3, SendOrder DEF Rank
<1>6. CASE SendOpen
  <2>1. PICK ok \in BOOLEAN : Sends(Method("open", NoLimits), ok)
    BY <1>6 DEF SendOpen
  <2>2. SaidAt(at) = 3 /\ SaidAt(at') = 4
    BY <1>6 DEF SendOpen, SaidAt
  <2>3. Method("open", NoLimits) \in Sent /\ Method("open", NoLimits).kind = "open"
    BY <1>1, LimitsFacts DEF Handshake
  <2> QED BY <1>1, <1>2, <2>1, <2>2, <2>3, SendOrder DEF Rank
<1>7. CASE StartRefused \/ WaitMethodAborts \/ WaitMethodFails \/ Tune \/ TuneNoMemory \/ LoginDone
  <2>1. wire' = wire
    BY <1>7 DEF StartRefused, WaitMethodAborts, WaitMethodFails, Tune, TuneNoMemory, LoginDone
  <2>2. SaidAt(at') = 4 \/ SaidAt(at') = SaidAt(at)
    BY <1>7 DEF StartRefused, WaitMethodAborts, WaitMethodFails, Tune, TuneNoMemory, LoginDone, SaidAt
  <2>3. SaidAt(at) <= SaidAt(at')
    BY <2>2, RankFacts
  <2> QED BY <1>2, <2>1, <2>3, StillOrder
<1> QED BY <1>3, <1>4, <1>5, <1>6, <1>7 DEF Login

LEMMA EndsOrder ==
  ASSUME TypedInv, OrderInv, CutInv, Ends
  PROVE  OrderInv' /\ CutInv'
<1>1. wire \in Seq(Sent) /\ Method("close", NoLimits) \in Sent /\ Method("close", NoLimits).kind = "close"
  BY TypedParts, LimitsFacts DEF TypedFrames
<1>2. broker' = broker
  BY DEF Ends, Disconnect, Dealloc, SendClose, DisconnectDone, Destroy, UseAfterFree, brokerVars
<1>3. SaidAt(at) <= SaidAt(at')
  <2>1. SaidAt(at') = 4
    BY DEF Ends, Disconnect, Dealloc, SendClose, DisconnectDone, Destroy, UseAfterFree, SaidAt
  <2> QED BY <2>1, RankFacts
<1>4. wire' = wire \/ \E ok \in BOOLEAN : Sends(Method("close", NoLimits), ok)
  BY DEF Ends, Disconnect, Dealloc, SendClose, DisconnectDone, Destroy, UseAfterFree
<1>5. CASE wire' = wire
  BY <1>2, <1>3, <1>5, StillOrder
<1>6. ASSUME NEW ok \in BOOLEAN, Sends(Method("close", NoLimits), ok) PROVE OrderInv' /\ CutInv'
  BY <1>1, <1>2, <1>3, <1>6, SendOrder DEF Handshake
<1> QED BY <1>4, <1>5, <1>6

LEMMA BrokerOrder ==
  ASSUME TypedInv, OrderInv, CutInv, Broker
  PROVE  OrderInv' /\ CutInv'
<1>1. wire \in Seq(Sent) /\ at' = at
  BY TypedParts DEF TypedFrames, Broker, BrokerReads, BrokerStarts, BrokerRefusesVersion, BrokerTunes, BrokerIsTuned,
         BrokerOpens, BrokerIsClosed, BrokerIgnores, BrokerRefuses, BrokerPushes
<1>2. CASE BrokerStarts \/ BrokerTunes \/ BrokerIsTuned \/ BrokerOpens
  <2>1. /\ wire # <<>> /\ wire' = Tail(wire)
        /\ \/ broker = "header" /\ Head(wire).kind = "header" /\ broker' = "start_ok"
           \/ broker = "start_ok" /\ Head(wire).kind = "start_ok" /\ broker' = "tune_ok"
           \/ broker = "tune_ok" /\ Head(wire).kind = "tune_ok" /\ broker' = "open"
           \/ broker = "open" /\ Head(wire).kind = "open" /\ broker' = "opened"
    BY <1>2 DEF BrokerStarts, BrokerTunes, BrokerIsTuned, BrokerOpens, BrokerReads
  <2>2. Head(wire).kind \in Handshake /\ Rank(Head(wire).kind) = Waits /\ Waits' = Waits + 1
    BY <2>1 DEF Handshake, Rank, Waits
  <2> QED BY <1>1, <2>1, <2>2, ReadOrder
<1>3. CASE BrokerRefusesVersion \/ BrokerIsClosed \/ BrokerIgnores
  <2>1. wire # <<>> /\ wire' = Tail(wire) /\ broker' = "closed"
    BY <1>3 DEF BrokerRefusesVersion, BrokerIsClosed, BrokerIgnores, BrokerReads
  <2> QED BY <1>1, <2>1, ReadOrder
<1>4. CASE BrokerRefuses \/ BrokerPushes
  <2>1. wire' = wire /\ broker' \in {broker, "closed"} /\ SaidAt(at) <= SaidAt(at')
    BY <1>1, <1>4, RankFacts DEF BrokerRefuses, BrokerPushes
  <2> QED BY <2>1, StillOrder
<1> QED BY <1>2, <1>3, <1>4 DEF Broker

LEMMA SessionOrder ==
  ASSUME TypedInv, OrderInv, CutInv, SessionNext
  PROVE  OrderInv' /\ CutInv'
<1>1. CASE ConnectToHost
  <2>1. Waits' = 1 /\ SaidAt(at') = 0 /\ wire' = <<>>
    BY <1>1 DEF ConnectToHost, Waits, Rank, SaidAt
  <2> QED BY <2>1 DEF OrderInv, CutInv
<1>2. CASE ConnectFails \/ OtherOpens \/ Recv \/ LineFails
  <2>1. (wire' = wire \/ wire' = <<>>) /\ broker' = broker /\ at' = at
    BY <1>2 DEF ConnectFails, OtherOpens, Recv, LineFails, brokerVars
  <2>2. SaidAt(at) <= SaidAt(at')
    BY <2>1, RankFacts
  <2> QED BY <2>1, <2>2, StillOrder
<1>3. CASE Call
  <2>1. wire' = wire /\ broker' = broker
    BY <1>3 DEF Call, CallRefused, CallSetsAside, CallNoMemory, CallGetsNothing, brokerVars
  <2>2. SaidAt(at') = 4 \/ SaidAt(at') = SaidAt(at)
    BY <1>3 DEF Call, CallRefused, CallSetsAside, CallNoMemory, CallGetsNothing, CallFails, SaidAt
  <2>3. SaidAt(at) <= SaidAt(at')
    BY <2>2, RankFacts
  <2> QED BY <2>1, <2>3, StillOrder
<1> QED BY <1>1, <1>2, <1>3, LoginOrder, EndsOrder, BrokerOrder DEF SessionNext

LEMMA OrderStep ==
  ASSUME TypedInv, OrderInv, CutInv, [PublishNext]_publishVars
  PROVE  OrderInv' /\ CutInv'
<1>1. CASE SessionStep
  BY <1>1, SessionOrder DEF SessionStep
<1>2. CASE StartPublish
  <2>1. wire' = wire /\ broker' = broker /\ SaidAt(at') = 4 /\ SaidAt(at) = 4
    BY <1>2 DEF StartPublish, Stranded, brokerVars, SaidAt
  <2> QED BY <2>1, StillOrder
<1>3. CASE SendMethod \/ SendHeaderFrame \/ SendBody
  <2>1. PublishStep /\ broker' = broker
    BY <1>3, PublishStepFacts DEF brokerVars
  <2>2. next # "none" /\ at' \in {at, "ready", "closed"} /\ \E ok \in BOOLEAN : Sends(SentFrame, ok)
    BY <2>1 DEF PublishStep
  <2>3. PublisherInv /\ wire \in Seq(Sent) /\ limits \in Limits
    BY TypedParts DEF TypedFrames, TypedLimits
  <2>4. SentFrame \in Sent /\ SentFrame.kind \in Content
    <3>1. CASE next = "method"
      BY <2>2, <2>3, <3>1, FrameFacts DEF SentFrame, Content
    <3>2. CASE next = "header"
      BY <2>2, <2>3, <3>2, FrameFacts DEF SentFrame, Content
    <3>3. CASE next = "body"
      BY <2>3, <3>3, PieceFacts DEF SentFrame, Content
    <3> QED BY <2>2, <2>3, <3>1, <3>2, <3>3 DEF PublisherInv
  <2>5. SaidAt(at) = 4 /\ SaidAt(at') = 4
    BY <2>2, <2>3 DEF SaidAt, PublisherInv, Underway
  <2>6. SentFrame.kind \notin Handshake /\ SentFrame.kind # "cut"
    BY <2>4 DEF Content, Handshake
  <2> QED BY <2>1, <2>2, <2>3, <2>4, <2>5, <2>6, SendOrder
<1>4. CASE Takings
  <2>1. wire # <<>> /\ wire' = Tail(wire) /\ at' = at /\ broker' \in {broker, "closed"} /\ wire \in Seq(Sent)
    BY <1>4, TakingFacts, TypedParts DEF TypedFrames
  <2> QED BY <2>1, ReadOrder
<1>5. CASE UNCHANGED publishVars
  <2>1. wire' = wire /\ broker' = broker /\ SaidAt(at') = SaidAt(at)
    BY <1>5 DEF publishVars, sessionVars, brokerVars
  <2> QED BY <2>1, RankFacts, StillOrder
<1> QED BY <1>1, <1>2, <1>3, <1>4, <1>5 DEF PublishNext, amqp_basic_publish, Takings

-----------------------------------------------------------------------------
(* The stream of contents, of the messages pub.  A place in it is between  *)
(* two messages, before the header of a message, or in its body.           *)
Place(stage, m, to) == [stage |-> stage, m |-> m, to |-> to]
Between == Place("between", 0, 0)
Size(pub, m) == pub[m].message.size
Errored(pub, m) == m \in DOMAIN pub /\ pub[m].result = "error"
Within(pub, m, to) == IF to = Size(pub, m) THEN Between ELSE Place("body", m, to)

(* Where a frame leads, and where it may come.                             *)
After(pub, f) ==
  IF f.kind = "publish" THEN Place("header", f.data.m, 0)
  ELSE Within(pub, f.data.m, IF f.kind = "body" THEN f.data.to ELSE 0)
Free(pub, p) == p.stage = "between" \/ Errored(pub, p.m)
Follows(pub, f, p) ==
  /\ f.kind = "publish" => Free(pub, p)
  /\ f.kind = "header frame" => p = Place("header", f.data.m, 0) /\ f.data.to = Size(pub, f.data.m)
  /\ f.kind = "body" => /\ p = Place("body", f.data.m, f.data.from)
                        /\ f.data.from < f.data.to /\ f.data.to <= Size(pub, f.data.m)
IsLast(pub, f) ==
  \/ f.kind = "header frame" /\ f.data.to = 0
  \/ f.kind = "body" /\ f.data.to = Size(pub, f.data.m)

(* Frames s that go on from the place b: the place before the i-th one.    *)
Before(pub, s, b, i) == IF i = 1 THEN b ELSE After(pub, s[i - 1])
End(pub, s, b) == Before(pub, s, b, Len(s) + 1)
Stream(pub, s, b) ==
  \A i \in DOMAIN s : s[i].kind \in Content =>
    Follows(pub, s[i], Before(pub, s, b, i)) /\ (i > 1 => s[i - 1].kind \in Content)

(* Where the broker is, and where it will be.                              *)
BrokerAt ==
  IF content = NoContent THEN Between
  ELSE IF content.size = 0 THEN Place("header", content.m, 0) ELSE Place("body", content.m, content.got)
WireEnd == End(published, wire, BrokerAt)
InStream == line = "up" /\ broker = "opened"
StreamInv ==
  InStream =>
    /\ Stream(published, wire, BrokerAt)
    /\ ~Broken =>
         /\ at = "ready" \/ next = "method" => Free(published, WireEnd)
         /\ next = "header" => WireEnd = Place("header", Current, 0)
         /\ next = "body" => WireEnd = Place("body", Current, body_offset)

(* Contents are on the way, and with the broker, only of messages the      *)
(* program published since the connection was opened.                      *)
Opening == Early \union {"open", "opening"}
Known(f) ==
  f.kind \in Content =>
    /\ f.data.m \in DOMAIN published
    /\ broker \in {"opened", "closed"} /\ at \notin Opening
    /\ IsLast(published, f) => published[f.data.m].result = "ok"
KnownInv ==
  /\ \A i \in DOMAIN wire : Known(wire[i])
  /\ at \in Opening => content = NoContent
  /\ line = "up" =>
       \A m \in DOMAIN published : published[m].on = connects => broker \in {"opened", "closed"}
NextInv ==
  /\ \A m \in DOMAIN published :
       /\ published[m].on <= connects
       /\ (published[m].result = "none") <=> (next # "none" /\ m = Len(published))
  /\ next # "none" => published[Current].on = connects

(* What the broker has of a message.                                       *)
Contents == [m : Nat, size : Nat, got : Nat, pieces : Seq(Parts)]
UpTo(s) == IF s = <<>> THEN 0 ELSE Last(s).to
Chain(s, m) ==
  \A i \in DOMAIN s : s[i].m = m /\ s[i].from = IF i = 1 THEN 0 ELSE s[i - 1].to
ContentInv ==
  /\ content \in Contents
  /\ content # NoContent =>
       /\ content.m \in DOMAIN published
       /\ content.got = UpTo(content.pieces) /\ Chain(content.pieces, content.m)
       /\ IF content.size = 0 THEN content.pieces = <<>>
          ELSE content.size = Size(published, content.m) /\ content.got < content.size
Whole(s) ==
  /\ s.m \in DOMAIN published /\ published[s.m].result = "ok" /\ s.size = Size(published, s.m)
  /\ s.size = UpTo(s.pieces) /\ Chain(s.pieces, s.m)
StoredInv == stored \in Seq(Contents) /\ \A k \in DOMAIN stored : Whole(stored[k])

(* A message whose publish returned 0 is at the broker or on the way.      *)
Arrives(m) ==
  \/ Broken
  \/ \E k \in DOMAIN stored : stored[k].m = m
  \/ \E i \in DOMAIN wire : wire[i].kind \in Content /\ IsLast(published, wire[i]) /\ wire[i].data.m = m
DoneInv ==
  InStream =>
    \A m \in DOMAIN published : published[m].on = connects /\ published[m].result = "ok" => Arrives(m)
InterruptedInv == \A m \in interrupted : Errored(published, m)

ArrivalInv ==
  /\ LoginInv /\ OrderInv /\ CutInv /\ KnownInv /\ NextInv
  /\ ContentInv /\ StoredInv /\ StreamInv /\ DoneInv /\ InterruptedInv

LEMMA ArrivalTyped ==
  ASSUME ArrivalInv
  PROVE  /\ TypedInv /\ wire \in Seq(Sent) /\ published \in Seq(Publication) /\ PublisherInv
         /\ DOMAIN published = 1 .. Len(published) /\ Len(published) \in Nat
         /\ DOMAIN wire = 1 .. Len(wire) /\ Len(wire) \in Nat
         /\ connects \in Nat /\ limits \in Limits
         /\ \A m \in DOMAIN published : Size(published, m) \in Nat
<1>1. TypedInv
  BY DEF ArrivalInv, LoginInv
<1>2. /\ wire \in Seq(Sent) /\ PublisherInv /\ connects \in Nat /\ limits \in Limits
      /\ published \in Seq(Publication)
  BY <1>1, TypedParts DEF TypedFrames, TypedLimits, DescriptorInv, PublisherInv
<1>3. \A m \in DOMAIN published : published[m] \in Publication
  BY <1>2, ElementOfSeq, LenProperties
<1>4. \A m \in DOMAIN published : Size(published, m) \in Nat
  BY <1>3, PublishAssumption DEF Publication, Size
<1> QED BY <1>1, <1>2, <1>4, LenProperties

LEMMA SentFacts ==
  ASSUME NEW f \in Sent
  PROVE  /\ f.kind \in Handshake \union Content \union {"close", "cut"}
         /\ f.kind \in Content => f.data \in Parts /\ f.data.m \in Nat /\ f.data.from \in Nat /\ f.data.to \in Nat
  BY DEF Sent, Handshake, Content, Parts

(* On a connection that is open on both sides only contents are on the way.*)
LEMMA OnlyContents ==
  ASSUME ArrivalInv, InStream, at \in Begun, ~Broken, NEW i \in DOMAIN wire
  PROVE  wire[i].kind \in Content
<1>1. wire[i] \in Sent
  BY ArrivalTyped, ElementOfSeq, LenProperties
<1>2. wire[i].kind # "cut"
  BY ArrivalTyped, BrokenFacts DEF ArrivalInv
<1>3. wire[i].kind # "close"
  BY DEF ArrivalInv, LoginInv, WireInv, Says
<1>4. wire[i].kind \notin Handshake
  <2>1. Waits = 5
    BY DEF InStream, Waits
  <2> QED BY <2>1, RankFacts DEF ArrivalInv, OrderInv
<1> QED BY <1>1, <1>2, <1>3, <1>4, SentFacts

(* Steps other than publishing and a new connection.                       *)
LEMMA SessionWire ==
  ASSUME TypedInv, SessionNext
  PROVE  \/ wire' = wire
         \/ wire' = <<>> /\ line' = "down"
         \/ ConnectToHost
         \/ Broker /\ wire # <<>> /\ wire' = Tail(wire) /\ Head(wire).kind \notin Content
         \/ broker = "closed" /\ BrokerIgnores /\ wire # <<>> /\ wire' = Tail(wire)
         \/ \E f \in Sent, ok \in BOOLEAN :
              f.kind \notin Content /\ Sends(f, ok) /\ at' \notin {"ready", "publishing"} /\ UNCHANGED <<broker, line>>
<1>1. NoLimits \in Limits /\ limits \in Limits
  BY TypedParts, LimitsFacts DEF TypedLimits
<1>2. CASE Login
  <2>1. CASE SendHeader \/ StartOk \/ SendTuneOk \/ SendOpen
    <3>1. \E k \in Handshake, l \in Limits, ok \in BOOLEAN :
            \/ Sends(Method(k, l), ok)
            \/ Sends(ClientFrame("header", 0, l), ok)
      BY <1>1, <2>1 DEF SendHeader, StartOk, SendTuneOk, SendOpen, Handshake
    <3>2. at' \notin {"ready", "publishing"} /\ UNCHANGED <<broker, line>>
      BY <2>1 DEF SendHeader, StartOk, SendTuneOk, SendOpen, Released, brokerVars
    <3>3. PICK k \in Handshake, l \in Limits, ok \in BOOLEAN :
            \/ Sends(Method(k, l), ok)
            \/ Sends(ClientFrame("header", 0, l), ok)
      BY <3>1
    <3>4. /\ Method(k, l) \in Sent /\ Method(k, l).kind = k
          /\ ClientFrame("header", 0, l) \in Sent /\ ClientFrame("header", 0, l).kind = "header"
          /\ k \notin Content /\ "header" \notin Content
      BY LimitsFacts DEF Handshake, Content
    <3> QED BY <3>2, <3>3, <3>4
  <2>2. CASE StartRefused \/ WaitMethodAborts \/ WaitMethodFails \/ Tune \/ TuneNoMemory \/ LoginDone
    BY <2>2 DEF StartRefused, WaitMethodAborts, WaitMethodFails, Tune, TuneNoMemory, LoginDone
  <2> QED BY <1>2, <2>1, <2>2 DEF Login
<1>3. CASE Call
  BY <1>3 DEF Call, CallRefused, CallSetsAside, CallNoMemory, CallGetsNothing
<1>4. CASE Ends
  <2>1. CASE Disconnect \/ Dealloc
    <3>1. /\ \E ok \in BOOLEAN : Sends(Method("close", NoLimits), ok)
          /\ at' \notin {"ready", "publishing"} /\ UNCHANGED <<broker, line>>
      BY <2>1 DEF Disconnect, Dealloc, SendClose, brokerVars
    <3>2. Method("close", NoLimits) \in Sent /\ Method("close", NoLimits).kind \notin Content
      <4>1. Method("close", NoLimits) \in Sent /\ Method("close", NoLimits).kind = "close"
        BY <1>1, LimitsFacts
      <4> QED BY <4>1 DEF Content
    <3> QED BY <3>1, <3>2
  <2>2. CASE DisconnectDone \/ Destroy \/ UseAfterFree
    BY <2>2 DEF DisconnectDone, Destroy, UseAfterFree
  <2> QED BY <1>4, <2>1, <2>2 DEF Ends
<1>5. CASE Broker
  BY <1>5 DEF Broker, BrokerReads, BrokerStarts, BrokerRefusesVersion, BrokerTunes, BrokerIsTuned,
         BrokerOpens, BrokerIsClosed, BrokerIgnores, BrokerRefuses, BrokerPushes, Content
<1>6. CASE ConnectFails \/ OtherOpens \/ Recv \/ LineFails
  BY <1>6 DEF ConnectFails, OtherOpens, Recv, LineFails
<1> QED BY <1>2, <1>3, <1>4, <1>5, <1>6 DEF SessionNext

LEMMA SessionFrames ==
  ASSUME ArrivalInv, SessionNext, ~ConnectToHost
  PROVE  \A i \in DOMAIN wire' : wire'[i].kind \notin Content \/ \E j \in DOMAIN wire : wire'[i] = wire[j]
<1>1. TypedInv /\ wire \in Seq(Sent)
  BY ArrivalTyped
<1>2. CASE wire' = wire \/ wire' = <<>>
  BY <1>2
<1>3. CASE wire # <<>> /\ wire' = Tail(wire)
  BY <1>1, <1>3, TailFacts
<1>4. ASSUME NEW f \in Sent, NEW ok \in BOOLEAN, f.kind \notin Content, Sends(f, ok)
      PROVE  \A i \in DOMAIN wire' : wire'[i].kind \notin Content \/ \E j \in DOMAIN wire : wire'[i] = wire[j]
  <2>1. Cut.kind \notin Content
    BY LimitsFacts DEF Content
  <2>2. \A i \in DOMAIN wire' :
          \/ i \in DOMAIN wire /\ wire'[i] = wire[i]
          \/ wire'[i] = f
          \/ wire'[i] = Cut
    BY <1>1, <1>4, SendsFacts
  <2> QED BY <1>4, <2>1, <2>2
<1> QED BY <1>1, <1>2, <1>3, <1>4, SessionWire

LEMMA SessionMoves ==
  ASSUME TypedInv, SessionNext, ~ConnectToHost
  PROVE  /\ connects' = connects
         /\ line' = "up" => line = "up"
         /\ at' \in Opening => at \in Opening
         /\ broker \in {"opened", "closed"} => broker' \in {"opened", "closed"}
         /\ at' = "ready" => at = "ready" \/ (LoginDone /\ at = "opening" /\ UNCHANGED <<wire, line, broker>>)
         /\ InStream' => line = "up" /\ (broker = "opened" \/ BrokerOpens)
<1> USE DEF Opening, Early, InStream
<1>1. CASE Login
  BY <1>1 DEF Login, SendHeader, StartOk, StartRefused, WaitMethodAborts, WaitMethodFails,
              Tune, TuneNoMemory, SendTuneOk, SendOpen, LoginDone, Released, brokerVars, CallTakes
<1>2. CASE Call
  BY <1>2 DEF Call, CallRefused, CallSetsAside, CallNoMemory, CallGetsNothing, CallFails, brokerVars
<1>3. CASE Ends
  BY <1>3 DEF Ends, Disconnect, Dealloc, SendClose, DisconnectDone, Destroy, UseAfterFree, Closes, brokerVars
<1>4. CASE Broker
  BY <1>4 DEF Broker, BrokerReads, BrokerStarts, BrokerRefusesVersion, BrokerTunes, BrokerIsTuned,
              BrokerOpens, BrokerIsClosed, BrokerIgnores, BrokerRefuses, BrokerPushes
<1>5. CASE ConnectFails \/ OtherOpens \/ Recv \/ LineFails
  BY <1>5 DEF ConnectFails, OtherOpens, Recv, LineFails, brokerVars
<1> QED BY <1>1, <1>2, <1>3, <1>4, <1>5 DEF SessionNext

(* What the program published and the broker has stays as it is.           *)
Unpublished == UNCHANGED <<published, next, body_offset, content, stored, interrupted>>

LEMMA KeptContents ==
  ASSUME ArrivalInv, Unpublished, connects' = connects
  PROVE  NextInv' /\ ContentInv' /\ StoredInv' /\ InterruptedInv' /\ BrokerAt' = BrokerAt
<1>1. NextInv'
  BY DEF ArrivalInv, NextInv, Unpublished, Current
<1>2. ContentInv'
  BY DEF ArrivalInv, ContentInv, Unpublished, Chain, UpTo, Size
<1>3. StoredInv'
  BY DEF ArrivalInv, StoredInv, Whole, Unpublished, Chain, UpTo, Size
<1>4. InterruptedInv'
  BY DEF ArrivalInv, InterruptedInv, Unpublished, Errored
<1> QED BY <1>1, <1>2, <1>3, <1>4 DEF BrokerAt, Unpublished

LEMMA SessionKnown ==
  ASSUME ArrivalInv, SessionNext, ~ConnectToHost, Unpublished
  PROVE  KnownInv'
<1>1. /\ connects' = connects /\ (at' \in Opening => at \in Opening) /\ (line' = "up" => line = "up")
      /\ (broker \in {"opened", "closed"} => broker' \in {"opened", "closed"})
  BY ArrivalTyped, SessionMoves
<1>2. ASSUME NEW i \in DOMAIN wire' PROVE Known(wire[i])'
  <2>1. CASE wire'[i].kind \notin Content
    BY <2>1 DEF Known
  <2>2. ASSUME NEW j \in DOMAIN wire, wire'[i] = wire[j] PROVE Known(wire[i])'
    <3>1. Known(wire[j])
      BY DEF ArrivalInv, KnownInv
    <3> QED BY <1>1, <2>2, <3>1 DEF Known, Unpublished, IsLast, Size
  <2> QED BY <2>1, <2>2, SessionFrames
<1> QED BY <1>1, <1>2 DEF ArrivalInv, KnownInv, Unpublished

(* A stream with one more frame, and without its first one.                *)
LEMMA StreamAppend ==
  ASSUME NEW pub, NEW s \in Seq(Sent), NEW b, NEW g \in Sent, Stream(pub, s, b),
         g.kind \in Content => Follows(pub, g, End(pub, s, b)) /\ (s # <<>> => s[Len(s)].kind \in Content)
  PROVE  Stream(pub, Append(s, g), b) /\ End(pub, Append(s, g), b) = After(pub, g)
<1> DEFINE t == Append(s, g)
<1>1. /\ DOMAIN s = 1 .. Len(s) /\ Len(s) \in Nat /\ DOMAIN t = 1 .. Len(s) + 1 /\ Len(t) = Len(s) + 1
      /\ t[Len(s) + 1] = g /\ \A i \in DOMAIN s : t[i] = s[i]
      /\ s # <<>> <=> Len(s) > 0
  BY LenProperties, EmptySeq
<1> HIDE DEF t
<1>2. \A i \in 1 .. Len(s) + 1 : i = 1 \/ (i - 1 \in DOMAIN s /\ t[i - 1] = s[i - 1])
  BY <1>1
<1>3. \A i \in 1 .. Len(s) + 1 : Before(pub, t, b, i) = Before(pub, s, b, i)
  BY <1>2 DEF Before
<1>4. ASSUME NEW i \in DOMAIN t, t[i].kind \in Content
      PROVE  Follows(pub, t[i], Before(pub, t, b, i)) /\ (i > 1 => t[i - 1].kind \in Content)
  <2>1. CASE i \in DOMAIN s
    <3>1. Follows(pub, s[i], Before(pub, s, b, i)) /\ (i > 1 => s[i - 1].kind \in Content)
      BY <1>1, <1>4, <2>1 DEF Stream
    <3> QED BY <1>1, <1>2, <1>3, <2>1, <3>1
  <2>2. CASE i = Len(s) + 1
    <3>1. t[i] = g /\ Before(pub, t, b, i) = End(pub, s, b)
      BY <1>1, <1>3, <2>2 DEF End
    <3>2. i > 1 => i - 1 = Len(s) /\ Len(s) \in DOMAIN s /\ s # <<>>
      BY <1>1, <2>2
    <3> QED BY <1>1, <1>4, <3>1, <3>2
  <2> QED BY <1>1, <2>1, <2>2
<1>5. End(pub, t, b) = After(pub, g)
  <2>1. Len(t) + 1 # 1 /\ (Len(t) + 1) - 1 = Len(s) + 1
    BY <1>1
  <2> QED BY <1>1, <2>1 DEF End, Before
<1> QED BY <1>4, <1>5 DEF Stream, t

LEMMA StreamTail ==
  ASSUME NEW pub, NEW s \in Seq(Sent), NEW b, s # <<>>, Stream(pub, s, b), Head(s).kind \in Content
  PROVE  /\ Head(s) \in Sent /\ Follows(pub, Head(s), b)
         /\ Stream(pub, Tail(s), After(pub, Head(s)))
         /\ End(pub, Tail(s), After(pub, Head(s))) = End(pub, s, b)
<1> DEFINE t == Tail(s)
           c == After(pub, Head(s))
<1>1. /\ DOMAIN s = 1 .. Len(s) /\ Len(s) \in Nat \ {0} /\ DOMAIN t = 1 .. Len(s) - 1 /\ Len(t) = Len(s) - 1
      /\ Head(s) = s[1] /\ Head(s) \in Sent
      /\ \A i \in DOMAIN t : i + 1 \in DOMAIN s /\ t[i] = s[i + 1]
  BY LenProperties, EmptySeq, TailFacts
<1> HIDE DEF t
<1>2. \A i \in 1 .. Len(s) :
        /\ i # 1 => i - 1 \in DOMAIN t /\ t[i - 1] = s[i]
        /\ i + 1 # 1 /\ (i + 1) - 1 = i
  <2> SUFFICES ASSUME NEW i \in 1 .. Len(s), i # 1
               PROVE  i - 1 \in DOMAIN t /\ t[i - 1] = s[i]
    OBVIOUS
  <2>1. i - 1 \in DOMAIN t /\ (i - 1) + 1 = i
    BY <1>1
  <2> QED BY <1>1, <2>1
<1>3. \A i \in 1 .. Len(s) : Before(pub, t, c, i) = Before(pub, s, b, i + 1)
  BY <1>1, <1>2 DEF Before
<1>4. ASSUME NEW i \in DOMAIN t, t[i].kind \in Content
      PROVE  Follows(pub, t[i], Before(pub, t, c, i)) /\ (i > 1 => t[i - 1].kind \in Content)
  <2>1. /\ i \in 1 .. Len(s) /\ i + 1 \in DOMAIN s /\ t[i] = s[i + 1] /\ i + 1 > 1 /\ (i + 1) - 1 = i
    BY <1>1
  <2>2. Follows(pub, s[i + 1], Before(pub, s, b, i + 1)) /\ s[i].kind \in Content
    BY <1>4, <2>1 DEF Stream
  <2> QED BY <1>2, <1>3, <2>1, <2>2
<1>5. End(pub, t, c) = End(pub, s, b)
  <2>1. Len(t) + 1 = Len(s) /\ Len(s) \in 1 .. Len(s)
    BY <1>1
  <2> QED BY <1>3, <2>1 DEF End
<1>6. Follows(pub, Head(s), b)
  <2>1. 1 \in DOMAIN s /\ Before(pub, s, b, 1) = b
    BY <1>1 DEF Before
  <2> QED BY <1>1, <2>1 DEF Stream
<1> QED BY <1>1, <1>4, <1>5, <1>6 DEF Stream, t

(* What was published does not change, but for the result that is due.     *)
Keeps(pub, now) ==
  /\ DOMAIN pub \subseteq DOMAIN now
  /\ \A m \in DOMAIN pub :
       now[m].message = pub[m].message /\ (pub[m].result # "none" => now[m].result = pub[m].result)

LEMMA StreamKept ==
  ASSUME NEW pub \in Seq(Publication), NEW now \in Seq(Publication), Keeps(pub, now),
         NEW s \in Seq(Sent), NEW b, Stream(pub, s, b),
         \A i \in DOMAIN s : s[i].kind \in Content => s[i].data.m \in DOMAIN pub
  PROVE  /\ Stream(now, s, b)
         /\ s = <<>> \/ s[Len(s)].kind \in Content => End(now, s, b) = End(pub, s, b)
         /\ \A p : Free(pub, p) => Free(now, p)
<1>1. DOMAIN s = 1 .. Len(s) /\ Len(s) \in Nat /\ (s = <<>> <=> Len(s) = 0)
  BY LenProperties, EmptySeq
<1>2. \A p : Free(pub, p) => Free(now, p)
  BY DEF Free, Errored, Keeps
<1>3. \A m \in DOMAIN pub : Size(now, m) = Size(pub, m)
  BY DEF Keeps, Size
<1>4. ASSUME NEW i \in 1 .. Len(s) + 1, i > 1 => s[i - 1].kind \in Content
      PROVE  Before(now, s, b, i) = Before(pub, s, b, i)
  <2>1. i # 1 => s[i - 1].data.m \in DOMAIN pub
    BY <1>1, <1>4
  <2> QED BY <1>3, <2>1 DEF Before, After, Within
<1>5. ASSUME NEW i \in DOMAIN s, s[i].kind \in Content
      PROVE  Follows(now, s[i], Before(now, s, b, i)) /\ (i > 1 => s[i - 1].kind \in Content)
  <2>1. Follows(pub, s[i], Before(pub, s, b, i)) /\ (i > 1 => s[i - 1].kind \in Content)
    BY <1>5 DEF Stream
  <2>2. Before(now, s, b, i) = Before(pub, s, b, i)
    BY <1>1, <1>4, <2>1
  <2>3. s[i].data.m \in DOMAIN pub
    BY <1>5
  <2> QED BY <1>2, <1>3, <2>1, <2>2, <2>3 DEF Follows
<1>6. ASSUME s = <<>> \/ s[Len(s)].kind \in Content PROVE End(now, s, b) = End(pub, s, b)
  <2>1. Len(s) + 1 \in 1 .. Len(s) + 1 /\ (Len(s) + 1 > 1 => s[(Len(s) + 1) - 1].kind \in Content)
    BY <1>1, <1>6
  <2> QED BY <1>4, <2>1 DEF End
<1> QED BY <1>2, <1>5, <1>6 DEF Stream

(* A message that arrives still does when frames are added.                *)
LEMMA StillArrives ==
  ASSUME wire \in Seq(Sent), NEW m, Arrives(m), Keeps(published, published'),
         \A i \in DOMAIN wire : wire[i].kind \in Content => wire[i].data.m \in DOMAIN published,
         \A i \in DOMAIN wire : i \in DOMAIN wire' /\ wire'[i] = wire[i],
         Broken => Broken', stored' = stored
  PROVE  Arrives(m)'
<1>1. CASE \E i \in DOMAIN wire : wire[i].kind \in Content /\ IsLast(published, wire[i]) /\ wire[i].data.m = m
  <2>1. PICK i \in DOMAIN wire : wire[i].kind \in Content /\ IsLast(published, wire[i]) /\ wire[i].data.m = m
    BY <1>1
  <2>2. Size(published', wire[i].data.m) = Size(published, wire[i].data.m)
    BY <2>1 DEF Keeps, Size
  <2>3. i \in DOMAIN wire' /\ wire'[i] = wire[i] /\ IsLast(published', wire[i])
    BY <2>1, <2>2 DEF IsLast
  <2> QED BY <2>1, <2>3 DEF Arrives
<1> QED BY <1>1 DEF Arrives

LEMMA KnownFrames ==
  ASSUME ArrivalInv, NEW i \in DOMAIN wire, wire[i].kind \in Content
  PROVE  /\ wire[i].data.m \in DOMAIN published
         /\ broker \in {"opened", "closed"} /\ at \notin Opening
         /\ IsLast(published, wire[i]) => published[wire[i].data.m].result = "ok"
  BY DEF ArrivalInv, KnownInv, Known

LEMMA SessionStream ==
  ASSUME ArrivalInv, TypedInv', SessionNext, ~ConnectToHost, Unpublished
  PROVE  StreamInv' /\ DoneInv'
<1>1. /\ TypedInv /\ wire \in Seq(Sent) /\ DOMAIN wire = 1 .. Len(wire) /\ Len(wire) \in Nat
      /\ published \in Seq(Publication)
  BY ArrivalTyped
<1> SUFFICES ASSUME InStream' PROVE StreamInv' /\ DoneInv'
  BY DEF StreamInv, DoneInv
<1>2. /\ connects' = connects /\ line = "up" /\ (broker = "opened" \/ BrokerOpens)
      /\ at' = "ready" => at = "ready" \/ (LoginDone /\ at = "opening" /\ UNCHANGED <<wire, line, broker>>)
  BY <1>1, SessionMoves
<1>3. BrokerAt' = BrokerAt /\ published' = published /\ next' = next /\ body_offset' = body_offset /\ stored' = stored
  BY <1>2, KeptContents DEF Unpublished
<1>4. (next # "none" => at = "publishing") /\ (next' # "none" => at' = "publishing")
  BY <1>1, <1>2 DEF TypedInv, DescriptorInv, Underway, InStream
<1>5. CASE BrokerOpens
  <2>1. broker = "open" /\ at' = at /\ wire # <<>> /\ wire' = Tail(wire)
    BY <1>5 DEF BrokerOpens, BrokerReads
  <2>2. \A i \in DOMAIN wire' : wire'[i].kind \notin Content
    BY <1>1, <2>1, TailFacts, KnownFrames
  <2>3. at \notin {"ready", "publishing"}
    BY <2>1 DEF ArrivalInv, LoginInv, TunedInv, Opened
  <2>4. StreamInv'
    BY <1>3, <1>4, <2>1, <2>2, <2>3 DEF StreamInv, Stream
  <2>5. DoneInv'
    BY <1>2, <1>3, <2>1 DEF DoneInv, ArrivalInv, KnownInv
  <2> QED BY <2>4, <2>5
<1>6. CASE broker = "opened" /\ wire' = wire
  <2>1. InStream /\ StreamInv /\ DoneInv
    BY <1>2, <1>6 DEF InStream, ArrivalInv
  <2>2. WireEnd' = WireEnd /\ (Broken' <=> Broken)
    BY <1>3, <1>6 DEF WireEnd, Broken
  <2>3. ASSUME at' = "ready", at # "ready", ~Broken PROVE Free(published, WireEnd)
    <3>1. at = "opening"
      BY <1>2, <2>3
    <3>2. content = NoContent /\ \A i \in DOMAIN wire : wire[i].kind \notin Content
      BY <3>1, KnownFrames DEF ArrivalInv, KnownInv, Opening
    <3>3. \A i \in DOMAIN wire : wire[i].kind \in Content
      BY <2>1, <2>3, <3>1, OnlyContents DEF Begun
    <3>4. Len(wire) + 1 = 1
      BY <1>1, <3>2, <3>3
    <3> QED BY <3>2, <3>4 DEF WireEnd, End, Before, BrokerAt, Free, Between, Place
  <2>4. StreamInv'
    <3>1. Stream(published', wire', BrokerAt')
      BY <1>3, <1>6, <2>1 DEF StreamInv
    <3>2. Current' = Current
      BY <1>3 DEF Current
    <3> QED BY <1>3, <2>1, <2>2, <2>3, <3>1, <3>2 DEF StreamInv
  <2>5. DoneInv'
    BY <1>2, <1>3, <1>6, <2>1, <2>2 DEF DoneInv, Arrives
  <2> QED BY <2>4, <2>5
<1>7. ASSUME broker = "opened", NEW f \in Sent, NEW ok \in BOOLEAN, f.kind \notin Content, Sends(f, ok),
             at' \notin {"ready", "publishing"}, wire' # wire
      PROVE  StreamInv' /\ DoneInv'
  <2>1. InStream /\ StreamInv /\ DoneInv
    BY <1>2, <1>7 DEF InStream, ArrivalInv
  <2>2. PICK g \in Sent : g.kind \notin Content /\ wire' = Append(wire, g) /\ ~Broken
    <3>1. Cut \in Sent /\ Cut.kind \notin Content
      BY LimitsFacts DEF Content
    <3> QED BY <1>1, <1>7, <3>1, SendsFacts
  <2>3. StreamInv'
    <3>1. Stream(published, wire', BrokerAt)
      BY <1>1, <2>1, <2>2, StreamAppend DEF StreamInv
    <3> QED BY <1>3, <1>4, <1>7, <3>1 DEF StreamInv
  <2>4. ASSUME NEW m, Arrives(m) PROVE Arrives(m)'
    <3>1. Keeps(published, published')
      BY <1>3 DEF Keeps
    <3>2. \A i \in DOMAIN wire : i \in DOMAIN wire' /\ wire'[i] = wire[i]
      BY <1>1, <2>2
    <3> QED BY <1>1, <1>3, <2>2, <2>4, <3>1, <3>2, KnownFrames, StillArrives
  <2>5. DoneInv'
    BY <1>2, <1>3, <2>1, <2>4 DEF DoneInv
  <2> QED BY <2>3, <2>5
<1>8. ~(broker = "closed") /\ line' = "up" /\ broker' = "opened"
  <2>1. BrokerOpens => broker = "open"
    BY DEF BrokerOpens
  <2> QED BY <1>2, <2>1 DEF InStream
<1>9. ~(Broker /\ wire # <<>> /\ wire' = Tail(wire) /\ Head(wire).kind \notin Content /\ ~BrokerOpens /\ wire' # wire)
  BY <1>2, <1>8 DEF Broker, BrokerReads, BrokerStarts, BrokerRefusesVersion, BrokerTunes, BrokerIsTuned,
         BrokerIsClosed, BrokerIgnores, BrokerRefuses, BrokerPushes
<1> QED BY <1>1, <1>2, <1>5, <1>6, <1>7, <1>8, <1>9, SessionWire

LEMMA ConnectArrival ==
  ASSUME ArrivalInv, ConnectToHost, SessionStep
  PROVE  KnownInv' /\ NextInv' /\ ContentInv' /\ StoredInv' /\ StreamInv' /\ DoneInv' /\ InterruptedInv'
<1>1. /\ connects' = connects + 1 /\ connects \in Nat /\ wire' = <<>> /\ broker' = "header" /\ at' = "connected"
      /\ at \notin Underway /\ UNCHANGED <<published, next, body_offset, stored, interrupted>>
  BY ArrivalTyped DEF ConnectToHost, SessionStep, publisher, Unconnected, Underway
<1>2. content' = NoContent
  BY <1>1 DEF SessionStep
<1>3. next = "none"
  BY <1>1 DEF ArrivalInv, LoginInv, TypedInv, PublisherInv
<1>4. \A m \in DOMAIN published : published[m].on \in Nat /\ published[m].on <= connects
  <2>1. \A m \in DOMAIN published : published[m].on \in Nat
    <3>1. \A m \in DOMAIN published : published[m] \in Publication
      BY ArrivalTyped, ElementOfSeq
    <3> QED BY <3>1, SessionAssumption DEF Publication
  <2> QED BY <2>1 DEF ArrivalInv, NextInv
<1>5. KnownInv'
  <2>1. \A m \in DOMAIN published : published[m].on # connects'
    BY <1>1, <1>4
  <2> QED BY <1>1, <1>2, <2>1 DEF KnownInv
<1>6. NextInv'
  <2>1. \A m \in DOMAIN published : published[m].on <= connects'
    BY <1>1, <1>4
  <2> QED BY <1>1, <1>3, <2>1 DEF NextInv, ArrivalInv
<1>7. ContentInv'
  <2>1. NoContent \in Contents
    BY EmptySeq DEF NoContent, Contents
  <2> QED BY <1>2, <2>1 DEF ContentInv
<1>8. StoredInv' /\ InterruptedInv'
  BY <1>1 DEF ArrivalInv, StoredInv, Whole, Chain, UpTo, Size, InterruptedInv, Errored
<1>9. StreamInv' /\ DoneInv'
  BY <1>1 DEF StreamInv, DoneInv, InStream
<1> QED BY <1>5, <1>6, <1>7, <1>8, <1>9

LEMMA PublishedKept ==
  ASSUME ArrivalInv, Keeps(published, published'), UNCHANGED contents
  PROVE  ContentInv' /\ StoredInv' /\ InterruptedInv' /\ BrokerAt' = BrokerAt
<1>1. \A m \in DOMAIN published : Size(published', m) = Size(published, m) /\ m \in DOMAIN published'
  BY DEF Keeps, Size
<1>2. ContentInv' /\ BrokerAt' = BrokerAt
  BY <1>1 DEF ArrivalInv, ContentInv, contents, Chain, UpTo, BrokerAt
<1>3. StoredInv'
  <2>1. stored' = stored /\ stored \in Seq(Contents)
    BY DEF ArrivalInv, StoredInv, contents
  <2>2. ASSUME NEW k \in DOMAIN stored PROVE Whole(stored[k])'
    <3>1. Whole(stored[k])
      BY DEF ArrivalInv, StoredInv
    <3>2. published'[stored[k].m].result = "ok"
      BY <3>1 DEF Whole, Keeps
    <3> QED BY <1>1, <2>1, <3>1, <3>2 DEF Whole, Chain, UpTo
  <2> QED BY <2>1, <2>2 DEF StoredInv
<1>4. InterruptedInv'
  BY DEF ArrivalInv, InterruptedInv, contents, Keeps, Errored
<1> QED BY <1>2, <1>3, <1>4

(* On a connection open on both sides, the place where the program is.     *)
LEMMA StreamMoves ==
  ASSUME ArrivalInv, InStream, published' \in Seq(Publication), Keeps(published, published'), UNCHANGED contents
  PROVE  /\ Stream(published', wire, BrokerAt')
         /\ \A p : Free(published, p) => Free(published', p)
         /\ at \in Begun /\ ~Broken =>
              /\ wire # <<>> => wire[Len(wire)].kind \in Content
              /\ End(published', wire, BrokerAt') = WireEnd
<1>1. /\ published \in Seq(Publication) /\ wire \in Seq(Sent) /\ BrokerAt' = BrokerAt
      /\ DOMAIN wire = 1 .. Len(wire) /\ Len(wire) \in Nat
  BY ArrivalTyped, PublishedKept
<1>2. Stream(published, wire, BrokerAt)
  BY DEF ArrivalInv, StreamInv
<1>3. \A i \in DOMAIN wire : wire[i].kind \in Content => wire[i].data.m \in DOMAIN published
  BY KnownFrames
<1>4. at \in Begun /\ ~Broken => (wire # <<>> => wire[Len(wire)].kind \in Content)
  <2>1. wire # <<>> => Len(wire) \in DOMAIN wire
    BY <1>1, EmptySeq
  <2> QED BY <2>1, OnlyContents
<1>5. /\ Stream(published', wire, BrokerAt)
      /\ wire = <<>> \/ wire[Len(wire)].kind \in Content =>
           End(published', wire, BrokerAt) = End(published, wire, BrokerAt)
      /\ \A p : Free(published, p) => Free(published', p)
  BY <1>1, <1>2, <1>3, StreamKept
<1> QED BY <1>1, <1>4, <1>5 DEF WireEnd

LEMMA StartPublishArrival ==
  ASSUME ArrivalInv, TypedInv', StartPublish
  PROVE  KnownInv' /\ NextInv' /\ ContentInv' /\ StoredInv' /\ StreamInv' /\ DoneInv' /\ InterruptedInv'
<1>1. /\ at \notin Underway /\ at' \in Underway /\ next' = "method"
      /\ UNCHANGED <<connects, wire, line, broker, content, stored, interrupted>>
      /\ line = "up" => at = "ready" /\ at' = "publishing"
  BY ArrivalTyped DEF StartPublish, Stranded, brokerVars, contents, Underway, TypedInv, DescriptorInv
<1>2. PICK e : e.on = connects /\ e.result = "none" /\ published' = Append(published, e)
  BY DEF StartPublish
<1>3. /\ published \in Seq(Publication) /\ published' \in Seq(Publication) /\ next = "none"
      /\ DOMAIN published = 1 .. Len(published) /\ Len(published) \in Nat /\ wire \in Seq(Sent)
      /\ at' \notin Opening
  BY <1>1, ArrivalTyped DEF PublisherInv, TypedInv, Underway, Opening, Early
<1>4. /\ DOMAIN published' = 1 .. Len(published) + 1 /\ Len(published') = Len(published) + 1
      /\ published'[Len(published) + 1] = e /\ \A m \in DOMAIN published : published'[m] = published[m]
  BY <1>2, <1>3
<1>5. Keeps(published, published') /\ UNCHANGED contents
  BY <1>1, <1>3, <1>4 DEF Keeps, contents
<1>6. ContentInv' /\ StoredInv' /\ InterruptedInv' /\ BrokerAt' = BrokerAt
  BY <1>5, PublishedKept
<1>7. KnownInv'
  <2>1. ASSUME NEW i \in DOMAIN wire' PROVE Known(wire[i])'
    <3>1. wire'[i] = wire[i] /\ i \in DOMAIN wire
      BY <1>1
    <3>2. wire[i].kind \in Content => Size(published', wire[i].data.m) = Size(published, wire[i].data.m)
      BY <1>4, <3>1, KnownFrames DEF Size
    <3>3. CASE wire[i].kind \in Content
      <4>1. /\ wire[i].data.m \in DOMAIN published /\ broker \in {"opened", "closed"}
            /\ IsLast(published, wire[i]) => published[wire[i].data.m].result = "ok"
        BY <3>1, <3>3, KnownFrames
      <4>2. IsLast(published', wire[i]) <=> IsLast(published, wire[i])
        BY <3>2, <3>3 DEF IsLast
      <4> QED BY <1>1, <1>3, <1>4, <3>1, <4>1, <4>2 DEF Known
    <3>4. CASE wire[i].kind \notin Content
      BY <3>1, <3>4 DEF Known
    <3> QED BY <3>3, <3>4
  <2>2. line = "up" => broker \in {"opened", "closed"}
    BY <1>1 DEF ArrivalInv, LoginInv, TunedInv, Opened
  <2> QED BY <1>1, <1>3, <2>1, <2>2 DEF KnownInv
<1>8. NextInv'
  <2>1. Current' = Len(published) + 1
    BY <1>4 DEF Current
  <2>2. connects \in Nat /\ \A m \in DOMAIN published : published[m].on <= connects /\ published[m].result # "none"
    BY <1>3, ArrivalTyped DEF ArrivalInv, NextInv
  <2> QED BY <1>1, <1>2, <1>3, <1>4, <2>1, <2>2 DEF NextInv
<1>9. StreamInv'
  <2> SUFFICES ASSUME InStream' PROVE StreamInv'
    BY DEF StreamInv
  <2>1. InStream /\ (Broken' <=> Broken) /\ at = "ready" /\ at' = "publishing"
    BY <1>1 DEF InStream, Broken
  <2>2. Stream(published', wire', BrokerAt')
    BY <1>1, <1>3, <1>5, <2>1, StreamMoves
  <2>3. ~Broken => Free(published', WireEnd')
    <3>1. ~Broken => Free(published, WireEnd)
      BY <1>1, <2>1 DEF ArrivalInv, StreamInv
    <3>2. ~Broken => WireEnd' = WireEnd
      BY <1>1, <1>3, <1>5, <2>1, StreamMoves DEF Begun, WireEnd
    <3> QED BY <1>3, <1>5, <2>1, <3>1, <3>2, StreamMoves
  <2> QED BY <1>1, <2>1, <2>2, <2>3 DEF StreamInv
<1>10. DoneInv'
  <2> SUFFICES ASSUME InStream', NEW m \in DOMAIN published', published'[m].on = connects', published'[m].result = "ok"
               PROVE  Arrives(m)'
    BY DEF DoneInv
  <2>1. InStream /\ (Broken' <=> Broken)
    BY <1>1 DEF InStream, Broken
  <2>2. m \in DOMAIN published /\ published'[m] = published[m]
    BY <1>2, <1>3, <1>4
  <2>3. Arrives(m)
    BY <1>1, <2>1, <2>2 DEF ArrivalInv, DoneInv
  <2> QED BY <1>1, <1>3, <1>5, <2>1, <2>3, KnownFrames, StillArrives
<1> QED BY <1>6, <1>7, <1>8, <1>9, <1>10

(* A step of a publish, from a frame to the next one or to its return.     *)
Quietly == UNCHANGED <<state, held, connects, received, kernel, line, brokerVars, contents>>
More ==
  CASE next = "method" -> "header"
    [] next = "header" -> IF Body = 0 THEN "none" ELSE "body"
    [] OTHER -> IF PieceEnd = Body THEN "none" ELSE "body"
GoesOn ==
  /\ ~IsLast(published, SentFrame) /\ More \in {"header", "body"}
  /\ next' = More /\ at' = at /\ published' = published
  /\ body_offset' = IF next = "body" THEN PieceEnd ELSE 0
Returns(ok) ==
  /\ ok => IsLast(published, SentFrame)
  /\ next' = "none" /\ at' \in {"ready", "closed"} /\ published'[Current].result = IF ok THEN "ok" ELSE "error"

LEMMA SentFrameFacts ==
  ASSUME ArrivalInv, next # "none"
  PROVE  /\ SentFrame \in Sent /\ SentFrame.kind \in Content /\ SentFrame.data.m = Current
         /\ Current \in DOMAIN published /\ Current \in Nat /\ Body \in Nat /\ Body = Size(published, Current)
         /\ next \in {"method", "header", "body"}
         /\ next = "method" => SentFrame.kind = "publish"
         /\ next = "header" => SentFrame.kind = "header frame" /\ SentFrame.data.to = Body /\ body_offset = 0
         /\ next = "body" =>
              /\ SentFrame.kind = "body" /\ SentFrame.data.from = body_offset /\ SentFrame.data.to = PieceEnd
              /\ body_offset < PieceEnd /\ PieceEnd <= Body /\ PieceEnd \in Nat
         /\ IsLast(published, SentFrame) <=> More = "none"
         /\ More \in {"none", "header", "body"}
<1>1. PublisherInv /\ limits \in Limits
  BY ArrivalTyped
<1>2. Current \in DOMAIN published /\ Current \in Nat /\ Body \in Nat /\ Body = Size(published, Current)
      /\ next \in {"method", "header", "body"} /\ (next = "header" => body_offset = 0)
  BY <1>1, CurrentFacts DEF PublisherInv, Body, Size, Current
<1>3. CASE next = "method"
  <2>1. SentFrame \in Sent /\ SentFrame.kind = "publish" /\ SentFrame.data = Part(0, 0)
    BY <1>1, <1>3, FrameFacts DEF SentFrame
  <2> QED BY <1>2, <1>3, <2>1 DEF Part, Content, IsLast, More
<1>4. CASE next = "header"
  <2>1. SentFrame \in Sent /\ SentFrame.kind = "header frame" /\ SentFrame.data = Part(0, Body)
    BY <1>1, <1>4, FrameFacts DEF SentFrame
  <2>2. SentFrame.data.m = Current /\ SentFrame.data.to = Body
    <3>1. Part(0, Body).m = Current /\ Part(0, Body).to = Body
      BY DEF Part
    <3> QED BY <2>1, <3>1
  <2>3. (IsLast(published, SentFrame) <=> Body = 0) /\ More = IF Body = 0 THEN "none" ELSE "body"
    BY <1>4, <2>1, <2>2 DEF IsLast, More
  <2> QED BY <1>2, <1>4, <2>1, <2>2, <2>3 DEF Content
<1>5. CASE next = "body"
  <2>1. /\ SentFrame \in Sent /\ SentFrame.kind = "body" /\ SentFrame.data = Part(body_offset, PieceEnd)
        /\ PieceEnd \in Nat /\ body_offset < PieceEnd /\ PieceEnd <= Body
    BY <1>1, <1>5, PieceFacts DEF SentFrame
  <2> QED BY <1>2, <1>5, <2>1 DEF Part, Content, IsLast, More
<1> QED BY <1>2, <1>3, <1>4, <1>5

LEMMA PublishMoves ==
  ASSUME ArrivalInv, TypedInv', PublishStep, Quietly
  PROVE  /\ next # "none" /\ at \in Underway /\ (line = "up" => at = "publishing")
         /\ published[Current].result = "none" /\ published[Current].on = connects
         /\ Keeps(published, published') /\ DOMAIN published' = DOMAIN published /\ Current' = Current
         /\ published' \in Seq(Publication)
         /\ \A m \in DOMAIN published :
              published'[m].on = published[m].on /\ (m # Current => published'[m] = published[m])
         /\ \E ok \in BOOLEAN :
              /\ (ok /\ GoesOn) \/ Returns(ok)
              /\ \/ wire' = wire /\ (line = "up" => Broken \/ ~ok)
                 \/ ok /\ line = "up" /\ ~Broken /\ (wire' = Append(wire, SentFrame) \/ wire' = Append(wire, Cut))
<1>1. PICK ok \in BOOLEAN :
        LET returns == ~ok \/ More = "none"
        IN /\ next # "none" /\ Sends(SentFrame, ok)
           /\ next' = IF returns THEN "none" ELSE More
           /\ at' = IF ~returns THEN at ELSE IF at = "astray" THEN "closed" ELSE "ready"
           /\ published' = IF ~returns THEN published
                           ELSE [published EXCEPT ![Current].result = IF ok THEN "ok" ELSE "error"]
           /\ body_offset' = IF returns THEN 0 ELSE IF next = "body" THEN PieceEnd ELSE 0
  BY DEF PublishStep, More
<1>2. /\ SentFrame \in Sent /\ Current \in DOMAIN published /\ Current \in Nat
      /\ IsLast(published, SentFrame) <=> More = "none"
      /\ More \in {"none", "header", "body"}
  BY <1>1, SentFrameFacts
<1>3. /\ published \in Seq(Publication) /\ published' \in Seq(Publication) /\ wire \in Seq(Sent)
      /\ at \in Underway /\ (line = "up" => at = "publishing" /\ sockfd \in open)
      /\ DOMAIN published = 1 .. Len(published) /\ Len(published) \in Nat
      /\ \A m \in DOMAIN published : published[m] \in Publication
  BY <1>1, ArrivalTyped, ElementOfSeq DEF TypedInv, PublisherInv, DescriptorInv, Underway
<1>4. published[Current].result = "none" /\ published[Current].on = connects
  BY <1>1, <1>2 DEF ArrivalInv, NextInv, Current
<1>5. \/ published' = published
      \/ published' = [published EXCEPT ![Current].result = IF ok THEN "ok" ELSE "error"]
  BY <1>1
<1>6. DOMAIN published' = DOMAIN published /\ Current' = Current
  <2>1. DOMAIN published' = DOMAIN published
    BY <1>5
  <2>2. DOMAIN published' = 1 .. Len(published') /\ Len(published') \in Nat
    BY <1>3, LenProperties
  <2>3. Len(published') = Len(published)
    BY <1>3, <2>1, <2>2
  <2> QED BY <2>1, <2>3 DEF Current
<1>7. \A m \in DOMAIN published :
        /\ published'[m].on = published[m].on /\ published'[m].message = published[m].message
        /\ m # Current => published'[m] = published[m]
  <2>1. ASSUME NEW m \in DOMAIN published, m # Current PROVE published'[m] = published[m]
    BY <1>5, <2>1
  <2>2. /\ published'[Current].on = published[Current].on
        /\ published'[Current].message = published[Current].message
    BY <1>2, <1>3, <1>5 DEF Publication
  <2> QED BY <2>1, <2>2
<1>8. Keeps(published, published')
  BY <1>4, <1>6, <1>7 DEF Keeps
<1>9. (ok /\ GoesOn) \/ Returns(ok)
  <2>1. CASE ~ok \/ More = "none"
    <3>1. published'[Current].result = IF ok THEN "ok" ELSE "error"
      BY <1>1, <1>2, <1>3, <2>1 DEF Publication
    <3> QED BY <1>1, <1>2, <2>1, <3>1 DEF Returns
  <2>2. CASE ok /\ More # "none"
    BY <1>1, <1>2, <2>2 DEF GoesOn
  <2> QED BY <2>1, <2>2
<1>10. \/ wire' = wire /\ (line = "up" => Broken \/ ~ok)
       \/ ok /\ line = "up" /\ ~Broken /\ (wire' = Append(wire, SentFrame) \/ wire' = Append(wire, Cut))
  <2>1. CASE wire' = wire
    <3>1. ASSUME line = "up", ok, ~Broken PROVE FALSE
      <4>1. \E g \in {SentFrame, Cut} : wire' = Append(wire, g)
        BY <1>1, <1>3, <3>1 DEF Sends
      <4> QED BY <1>2, <1>3, <2>1, <4>1, LimitsFacts
    <3> QED BY <2>1, <3>1
  <2>2. CASE wire' # wire
    BY <1>1, <1>2, <1>3, <2>2, SendsFacts
  <2> QED BY <2>1, <2>2
<1> QED BY <1>1, <1>3, <1>4, <1>6, <1>7, <1>8, <1>9, <1>10

(* What a step of a publish does to what was published and to the stream.  *)
LEMMA PublishKnown ==
  ASSUME ArrivalInv, TypedInv', PublishStep, Quietly
  PROVE  KnownInv' /\ NextInv'
<1>1. /\ next # "none" /\ at \in Underway /\ UNCHANGED <<connects, line, broker, content>>
      /\ published[Current].result = "none" /\ published[Current].on = connects
      /\ DOMAIN published' = DOMAIN published /\ Current' = Current /\ Keeps(published, published')
      /\ \A m \in DOMAIN published :
           published'[m].on = published[m].on /\ (m # Current => published'[m] = published[m])
  BY PublishMoves DEF Quietly, brokerVars, contents
<1>2. PICK ok \in BOOLEAN :
        /\ (ok /\ GoesOn) \/ Returns(ok)
        /\ \/ wire' = wire /\ (line = "up" => Broken \/ ~ok)
           \/ ok /\ line = "up" /\ ~Broken /\ (wire' = Append(wire, SentFrame) \/ wire' = Append(wire, Cut))
  BY PublishMoves
<1>3. /\ SentFrame \in Sent /\ SentFrame.kind \in Content /\ SentFrame.data.m = Current
      /\ Current \in DOMAIN published
  BY <1>1, SentFrameFacts
<1>4. at' \notin Opening
  BY <1>1, <1>2 DEF GoesOn, Returns, Opening, Early, Underway
<1>5. line = "up" => broker \in {"opened", "closed"}
  BY <1>1, <1>3 DEF ArrivalInv, KnownInv
<1>6. \A f : f.data.m \in DOMAIN published => (IsLast(published', f) <=> IsLast(published, f))
  BY <1>1 DEF IsLast, Size, Keeps
<1>7. ASSUME NEW i \in DOMAIN wire' PROVE Known(wire[i])'
  <2>1. CASE wire'[i].kind \notin Content
    BY <2>1 DEF Known
  <2>2. CASE i \in DOMAIN wire /\ wire'[i] = wire[i] /\ wire[i].kind \in Content
    <3>1. /\ wire[i].data.m \in DOMAIN published /\ broker \in {"opened", "closed"}
          /\ IsLast(published, wire[i]) => published[wire[i].data.m].result = "ok"
      BY <2>2, KnownFrames
    <3>2. IsLast(published, wire[i]) => published'[wire[i].data.m].result = "ok"
      BY <1>1, <3>1
    <3> QED BY <1>1, <1>4, <1>6, <2>2, <3>1, <3>2 DEF Known
  <2>3. CASE wire'[i] = SentFrame /\ ok /\ line = "up"
    <3>1. IsLast(published, SentFrame) => published'[Current].result = "ok"
      BY <1>2, <2>3 DEF GoesOn, Returns
    <3> QED BY <1>1, <1>3, <1>4, <1>5, <1>6, <2>3, <3>1 DEF Known
  <2>4. \/ wire'[i].kind \notin Content
        \/ i \in DOMAIN wire /\ wire'[i] = wire[i]
        \/ wire'[i] = SentFrame /\ ok /\ line = "up"
    <3>1. wire \in Seq(Sent) /\ Cut \in Sent /\ Cut.kind \notin Content
      BY ArrivalTyped, LimitsFacts DEF Content
    <3> QED BY <1>2, <1>3, <3>1, AppendFacts
  <2> QED BY <2>1, <2>2, <2>3, <2>4
<1>8. KnownInv'
  <2>1. line' = "up" =>
          \A m \in DOMAIN published' : published'[m].on = connects' => broker' \in {"opened", "closed"}
    BY <1>1, <1>5
  <2> QED BY <1>4, <1>7, <2>1 DEF KnownInv
<1>9. NextInv'
  <2>1. \A m \in DOMAIN published : published[m].on <= connects /\ (published[m].result = "none" <=> m = Current)
    BY <1>1 DEF ArrivalInv, NextInv, Current
  <2>2. Len(published') = Current /\ published'[Current].on = connects'
    BY <1>1, <1>3 DEF Current
  <2>3. CASE ok /\ GoesOn
    <3>1. next' # "none" /\ published' = published
      BY <2>3 DEF GoesOn
    <3> QED BY <1>1, <2>1, <2>2, <3>1 DEF NextInv
  <2>4. CASE Returns(ok)
    <3>1. next' = "none" /\ published'[Current].result # "none"
      BY <2>4 DEF Returns
    <3> QED BY <1>1, <2>1, <2>2, <3>1 DEF NextInv
  <2> QED BY <1>2, <2>3, <2>4
<1> QED BY <1>8, <1>9

LEMMA Longer ==
  ASSUME NEW S, NEW s \in Seq(S), NEW e \in S
  PROVE  Append(s, e) # s
<1>1. Len(Append(s, e)) = Len(s) + 1 /\ Len(s) \in Nat
  BY AppendProperties, LenProperties
<1>2. Len(Append(s, e)) # Len(s)
  BY <1>1
<1> QED BY <1>2

LEMMA PublishStream ==
  ASSUME ArrivalInv, TypedInv', PublishStep, Quietly, InStream'
  PROVE  StreamInv'
<1>1. /\ next # "none" /\ at = "publishing" /\ connects' = connects /\ line = "up" /\ UNCHANGED contents
      /\ DOMAIN published' = DOMAIN published /\ Current' = Current /\ Keeps(published, published')
      /\ published' \in Seq(Publication) /\ stored' = stored /\ InStream
      /\ \A m \in DOMAIN published :
           published'[m].on = published[m].on /\ (m # Current => published'[m] = published[m])
  BY PublishMoves DEF Quietly, brokerVars, contents, InStream
<1>2. PICK ok \in BOOLEAN :
        /\ (ok /\ GoesOn) \/ Returns(ok)
        /\ \/ wire' = wire /\ (line = "up" => Broken \/ ~ok)
           \/ ok /\ line = "up" /\ ~Broken /\ (wire' = Append(wire, SentFrame) \/ wire' = Append(wire, Cut))
  BY PublishMoves
<1>3. /\ SentFrame \in Sent /\ SentFrame.kind \in Content /\ SentFrame.data.m = Current
      /\ Current \in DOMAIN published /\ Cut \in Sent /\ Cut.kind \notin Content
      /\ Current \in Nat /\ Body \in Nat /\ Body = Size(published, Current)
      /\ next \in {"method", "header", "body"}
  BY <1>1, SentFrameFacts, LimitsFacts DEF Content
<1>4. /\ wire \in Seq(Sent) /\ DOMAIN wire = 1 .. Len(wire) /\ Len(wire) \in Nat
  BY ArrivalTyped
<1>5. /\ Stream(published', wire, BrokerAt')
      /\ \A p : Free(published, p) => Free(published', p)
      /\ ~Broken => /\ wire # <<>> => wire[Len(wire)].kind \in Content
                    /\ End(published', wire, BrokerAt') = WireEnd
  BY <1>1, StreamMoves DEF Begun
<1>6. Size(published', Current) = Body
  BY <1>1, <1>3 DEF Keeps, Size
<1>7. ~Broken => /\ next = "method" => Free(published, WireEnd)
                 /\ next = "header" => WireEnd = Place("header", Current, 0)
                 /\ next = "body" => WireEnd = Place("body", Current, body_offset)
  BY <1>1 DEF ArrivalInv, StreamInv
<1>8. CASE wire' = wire
  <2>1. Broken' <=> Broken
    BY <1>8 DEF Broken
  <2>2. ASSUME ~Broken PROVE next' = "none" /\ Free(published', WireEnd')
    <3>1. Returns(FALSE) /\ WireEnd' = WireEnd
      <4>1. WireEnd' = WireEnd
        BY <1>5, <1>8, <2>2 DEF WireEnd
      <4>2. ok = FALSE
        <5>1. Append(wire, SentFrame) # wire /\ Append(wire, Cut) # wire
          BY <1>3, <1>4, Longer
        <5> QED BY <1>1, <1>2, <1>8, <2>2, <5>1
      <4> QED BY <1>2, <4>1, <4>2
    <3>2. next' = "none" /\ Errored(published', Current)
      BY <1>1, <1>3, <3>1 DEF Returns, Errored
    <3> QED BY <1>3, <1>5, <1>7, <2>2, <3>1, <3>2 DEF Free, Place
  <2> QED BY <1>5, <1>8, <2>1, <2>2 DEF StreamInv
<1>9. CASE wire' = Append(wire, Cut)
  <2>1. Broken'
    BY <1>3, <1>4, <1>9, AppendProperties DEF Broken, Last
  <2>2. Stream(published', wire', BrokerAt')
    BY <1>3, <1>4, <1>5, <1>9, StreamAppend
  <2> QED BY <2>1, <2>2 DEF StreamInv
<1>10. CASE ok /\ ~Broken /\ wire' = Append(wire, SentFrame)
  <2>1. Follows(published', SentFrame, WireEnd)
    BY <1>1, <1>3, <1>5, <1>6, <1>7, <1>10, SentFrameFacts DEF Follows
  <2>2. Stream(published', wire', BrokerAt') /\ WireEnd' = After(published', SentFrame)
    <3>1. End(published', wire, BrokerAt') = WireEnd
      BY <1>5, <1>10
    <3> QED BY <1>3, <1>4, <1>5, <1>10, <2>1, <3>1, StreamAppend DEF WireEnd
  <2>3. CASE next = "method"
    <3>1. WireEnd' = Place("header", Current, 0)
      BY <1>1, <1>3, <2>2, <2>3, SentFrameFacts DEF After
    <3>2. next' = "header" /\ at' = "publishing"
      <4>1. ~IsLast(published, SentFrame)
        BY <1>1, <2>3, SentFrameFacts DEF IsLast
      <4> QED BY <1>1, <1>2, <1>10, <2>3, <4>1 DEF GoesOn, Returns, More
    <3> QED BY <1>1, <2>2, <3>1, <3>2 DEF StreamInv
  <2>4. CASE next \in {"header", "body"} /\ GoesOn
    <3>1. next' = "body" /\ at' = "publishing" /\ WireEnd' = Place("body", Current, body_offset')
      <4>1. CASE next = "header"
        <5>1. Body # 0 /\ next' = "body" /\ body_offset' = 0
          BY <2>4, <4>1 DEF GoesOn, More
        <5>2. After(published', SentFrame) = Within(published', Current, 0)
          BY <1>1, <1>3, <4>1, SentFrameFacts DEF After
        <5> QED BY <1>1, <1>6, <2>2, <2>4, <5>1, <5>2 DEF Within, GoesOn
      <4>2. CASE next = "body"
        <5>1. PieceEnd # Body /\ next' = "body" /\ body_offset' = PieceEnd
          BY <2>4, <4>2 DEF GoesOn, More
        <5>2. After(published', SentFrame) = Within(published', Current, PieceEnd)
          BY <1>1, <1>3, <4>2, SentFrameFacts DEF After
        <5> QED BY <1>1, <1>6, <2>2, <2>4, <5>1, <5>2 DEF Within, GoesOn
      <4> QED BY <2>4, <4>1, <4>2
    <3> QED BY <1>1, <2>2, <3>1 DEF StreamInv
  <2>5. CASE next \in {"header", "body"} /\ Returns(ok)
    <3>1. IsLast(published, SentFrame) /\ next' = "none"
      BY <1>10, <2>5 DEF Returns
    <3>2. WireEnd' = Between
      BY <1>1, <1>3, <1>6, <2>2, <3>1, SentFrameFacts DEF After, Within, IsLast
    <3> QED BY <2>2, <3>1, <3>2 DEF StreamInv, Free, Between, Place
  <2> QED BY <1>2, <1>3, <2>3, <2>4, <2>5
<1> QED BY <1>2, <1>8, <1>9, <1>10

LEMMA PublishDone ==
  ASSUME ArrivalInv, TypedInv', PublishStep, Quietly, InStream'
  PROVE  DoneInv'
<1>1. /\ next # "none" /\ connects' = connects /\ line = "up" /\ stored' = stored /\ InStream
      /\ DOMAIN published' = DOMAIN published /\ Keeps(published, published')
      /\ \A m \in DOMAIN published :
           published'[m].on = published[m].on /\ (m # Current => published'[m] = published[m])
  BY PublishMoves DEF Quietly, brokerVars, contents, InStream
<1>2. PICK ok \in BOOLEAN :
        /\ (ok /\ GoesOn) \/ Returns(ok)
        /\ \/ wire' = wire /\ (line = "up" => Broken \/ ~ok)
           \/ ok /\ line = "up" /\ ~Broken /\ (wire' = Append(wire, SentFrame) \/ wire' = Append(wire, Cut))
  BY PublishMoves
<1>3. /\ SentFrame \in Sent /\ SentFrame.kind \in Content /\ SentFrame.data.m = Current
      /\ Current \in DOMAIN published /\ Cut \in Sent
  BY <1>1, SentFrameFacts, LimitsFacts
<1>4. /\ wire \in Seq(Sent) /\ DOMAIN wire = 1 .. Len(wire) /\ Len(wire) \in Nat
  BY ArrivalTyped
<1>5. /\ \A i \in DOMAIN wire : i \in DOMAIN wire' /\ wire'[i] = wire[i]
      /\ wire' = Append(wire, Cut) => Broken'
      /\ wire' = Append(wire, SentFrame) => Len(wire) + 1 \in DOMAIN wire' /\ wire'[Len(wire) + 1] = SentFrame
  <2>1. CASE wire' = wire
    <3>1. Append(wire, SentFrame) # wire /\ Append(wire, Cut) # wire
      BY <1>3, <1>4, Longer
    <3> QED BY <2>1, <3>1
  <2>2. CASE wire' = Append(wire, SentFrame)
    BY <1>3, <1>4, <2>2, AppendProperties DEF Broken, Last
  <2>3. CASE wire' = Append(wire, Cut)
    BY <1>3, <1>4, <2>3, AppendProperties DEF Broken, Last
  <2> QED BY <1>2, <2>1, <2>2, <2>3
<1>6. ASSUME NEW m \in DOMAIN published, published[m].on = connects, published[m].result = "ok"
      PROVE  Arrives(m)'
  <2>1. Arrives(m)
    BY <1>1, <1>6 DEF ArrivalInv, DoneInv
  <2>2. Broken => Broken'
    BY <1>2 DEF Broken
  <2> QED BY <1>1, <1>4, <1>5, <2>1, <2>2, KnownFrames, StillArrives
<1>7. ASSUME NEW m \in DOMAIN published, m = Current, published'[m].result = "ok", published[m].result = "none"
      PROVE  Arrives(m)'
  <2>1. ok /\ IsLast(published, SentFrame)
    BY <1>2, <1>7 DEF GoesOn, Returns
  <2>2. CASE wire' = wire
    BY <1>1, <1>2, <2>1, <2>2 DEF Arrives, Broken
  <2>3. CASE wire' = Append(wire, Cut)
    BY <1>5, <2>3 DEF Arrives
  <2>4. CASE wire' = Append(wire, SentFrame)
    <3>1. IsLast(published', SentFrame)
      BY <1>1, <1>3, <2>1 DEF IsLast, Size, Keeps
    <3>2. /\ Len(wire) + 1 \in DOMAIN wire' /\ wire'[Len(wire) + 1].kind \in Content
          /\ IsLast(published', wire'[Len(wire) + 1]) /\ wire'[Len(wire) + 1].data.m = m
      BY <1>3, <1>5, <1>7, <2>4, <3>1
    <3> QED BY <3>2 DEF Arrives
  <2> QED BY <1>2, <2>2, <2>3, <2>4
<1>8. published[Current].result = "none"
  BY PublishMoves
<1>9. ASSUME NEW m \in DOMAIN published', published'[m].on = connects', published'[m].result = "ok"
      PROVE  Arrives(m)'
  <2>1. CASE m = Current
    BY <1>1, <1>7, <1>8, <1>9, <2>1
  <2>2. CASE m # Current
    BY <1>1, <1>6, <1>9, <2>2
  <2> QED BY <2>1, <2>2
<1> QED BY <1>9 DEF DoneInv

-----------------------------------------------------------------------------
(* The broker takes a frame of a content.                                  *)
LEMMA TakenFrame ==
  ASSUME ArrivalInv, Takings
  PROVE  /\ InStream /\ wire # <<>> /\ wire' = Tail(wire) /\ broker' \in {"opened", "closed"}
         /\ UNCHANGED <<at, connects, line, published, next, body_offset>>
         /\ Head(wire) \in Sent /\ Head(wire).kind \in Content /\ Head(wire).data \in Parts
         /\ Head(wire).data.m \in DOMAIN published /\ Head(wire).data.m # 0
         /\ Follows(published, Head(wire), BrokerAt)
         /\ at \notin Opening
         /\ IsLast(published, Head(wire)) => published[Head(wire).data.m].result = "ok"
<1>1. /\ InStream /\ wire # <<>> /\ wire' = Tail(wire) /\ broker' \in {"opened", "closed"}
      /\ UNCHANGED <<at, connects, line, published, next, body_offset>>
  BY TakingFacts DEF InStream, publisher
<1>2. Head(wire).kind \in Content
  BY DEF Takings, BrokerTakesMethod, BrokerIsInterrupted, BrokerTakesHeader, BrokerTakesBody, BrokerReads, Content
<1>3. wire \in Seq(Sent) /\ DOMAIN published = 1 .. Len(published)
  BY ArrivalTyped
<1>4. 1 \in DOMAIN wire /\ Head(wire) = wire[1] /\ Head(wire) \in Sent
  BY <1>1, <1>3, TailFacts
<1>5. Stream(published, wire, BrokerAt)
  BY <1>1 DEF ArrivalInv, StreamInv
<1>6. Follows(published, Head(wire), BrokerAt)
  BY <1>1, <1>2, <1>3, <1>5, StreamTail
<1>7. /\ Head(wire).data.m \in DOMAIN published /\ at \notin Opening
      /\ IsLast(published, Head(wire)) => published[Head(wire).data.m].result = "ok"
  BY <1>2, <1>4, KnownFrames
<1>8. Head(wire).data \in Parts
  BY <1>2, <1>4, SentFacts
<1>9. Head(wire).data.m # 0
  BY <1>3, <1>7
<1> QED BY <1>1, <1>2, <1>4, <1>6, <1>7, <1>8, <1>9

LEMMA TakenKnown ==
  ASSUME ArrivalInv, Takings
  PROVE  KnownInv' /\ NextInv' /\ (Broken' <=> Broken)
<1>1. /\ wire # <<>> /\ wire' = Tail(wire) /\ broker' \in {"opened", "closed"} /\ at \notin Opening
      /\ UNCHANGED <<at, connects, line, published, next, body_offset>> /\ Head(wire).kind \in Content
      /\ wire \in Seq(Sent) /\ InStream
  BY TakenFrame, ArrivalTyped
<1>2. ASSUME NEW i \in DOMAIN wire' PROVE Known(wire[i])'
  <2>1. i + 1 \in DOMAIN wire /\ wire'[i] = wire[i + 1]
    BY <1>1, TailFacts
  <2>2. Known(wire[i + 1])
    BY <2>1 DEF ArrivalInv, KnownInv
  <2> QED BY <1>1, <2>1, <2>2 DEF Known, IsLast, Size
<1>3. KnownInv'
  BY <1>1, <1>2 DEF KnownInv
<1>4. NextInv'
  BY <1>1 DEF ArrivalInv, NextInv, Current
<1>5. Broken' <=> Broken
  <2>1. Len(wire) \in Nat \ {0} /\ Head(wire) = wire[1] /\ Len(wire') = Len(wire) - 1
        /\ \A i \in DOMAIN wire' : wire'[i] = wire[i + 1]
        /\ DOMAIN wire' = 1 .. Len(wire')
    BY <1>1, TailFacts, EmptySeq, LenProperties
  <2>2. CASE wire' = <<>>
    <3>1. Len(wire') = 0
      BY <2>2
    <3>2. Len(wire) = 1
      BY <2>1, <3>1
    <3>3. Last(wire) = Head(wire) /\ Head(wire) # Cut
      BY <1>1, <2>1, <3>2, LimitsFacts DEF Last, Content
    <3> QED BY <2>2, <3>3 DEF Broken
  <2>3. CASE wire' # <<>>
    <3>1. wire' \in Seq(Sent)
      BY <1>1, TailFacts
    <3>2. Len(wire') # 0
      BY <2>3, <3>1, EmptySeq
    <3>3. Len(wire') \in DOMAIN wire' /\ Len(wire') + 1 = Len(wire)
      BY <2>1, <3>2
    <3>4. Last(wire') = Last(wire)
      BY <2>1, <3>3 DEF Last
    <3> QED BY <1>1, <2>3, <3>4 DEF Broken
  <2> QED BY <2>2, <2>3
<1> QED BY <1>3, <1>4, <1>5

LEMMA TakenStream ==
  ASSUME ArrivalInv, Takings, BrokerAt' = After(published, Head(wire)),
         \A k \in DOMAIN stored : k \in DOMAIN stored' /\ stored'[k] = stored[k],
         IsLast(published, Head(wire)) => \E k \in DOMAIN stored' : stored'[k].m = Head(wire).data.m
  PROVE  StreamInv' /\ DoneInv'
<1>1. /\ wire # <<>> /\ wire' = Tail(wire) /\ InStream
      /\ UNCHANGED <<at, connects, line, published, next, body_offset>> /\ Head(wire).kind \in Content
      /\ wire \in Seq(Sent) /\ (Broken' <=> Broken) /\ DOMAIN wire = 1 .. Len(wire) /\ Len(wire) \in Nat
  BY TakenFrame, TakenKnown, ArrivalTyped
<1>2. Stream(published, wire', BrokerAt') /\ WireEnd' = WireEnd
  <2>1. Stream(published, wire, BrokerAt)
    BY <1>1 DEF ArrivalInv, StreamInv
  <2> QED BY <1>1, <2>1, StreamTail DEF WireEnd
<1>3. StreamInv'
  BY <1>1, <1>2 DEF ArrivalInv, StreamInv, Current
<1>4. ASSUME NEW m \in DOMAIN published, Arrives(m) PROVE Arrives(m)'
  <2>1. CASE \E k \in DOMAIN stored : stored[k].m = m
    BY <2>1 DEF Arrives
  <2>2. CASE \E i \in DOMAIN wire : wire[i].kind \in Content /\ IsLast(published, wire[i]) /\ wire[i].data.m = m
    <3>1. PICK i \in DOMAIN wire : wire[i].kind \in Content /\ IsLast(published, wire[i]) /\ wire[i].data.m = m
      BY <2>2
    <3>2. CASE i = 1
      <4>1. wire[i] = Head(wire)
        BY <1>1, <3>2
      <4> QED BY <3>1, <4>1 DEF Arrives
    <3>3. CASE i # 1
      <4>1. i - 1 \in DOMAIN wire' /\ wire'[i - 1] = wire[i]
        <5>1. i - 1 \in 1 .. Len(wire) - 1 /\ (i - 1) + 1 = i
          BY <1>1, <3>3
        <5>2. Len(wire') = Len(wire) - 1 /\ DOMAIN wire' = 1 .. Len(wire')
          BY <1>1, TailFacts, LenProperties
        <5> QED BY <1>1, <5>1, <5>2, TailFacts
      <4> QED BY <1>1, <3>1, <4>1 DEF Arrives
    <3> QED BY <3>2, <3>3
  <2> QED BY <1>1, <1>4, <2>1, <2>2 DEF Arrives
<1>5. DoneInv'
  BY <1>1, <1>4 DEF ArrivalInv, DoneInv
<1> QED BY <1>3, <1>5

(* A message is stored with its last frame, and at no other step.          *)
Stores ==
  \/ stored' = stored
  \/ /\ IsLast(published, Head(wire))
     /\ \E c \in Contents : c.m = Head(wire).data.m /\ stored' = Append(stored, c)

(* The content c goes on, or is stored.                                    *)
LEMMA Assembled ==
  ASSUME ArrivalInv, Takings, NEW c \in Contents, Takes(c), interrupted' = interrupted,
         c.m = Head(wire).data.m, c.size = Size(published, c.m),
         c.got = UpTo(c.pieces), Chain(c.pieces, c.m), c.got <= c.size,
         c.got = c.size <=> IsLast(published, Head(wire)),
         After(published, Head(wire)) = Within(published, c.m, c.got)
  PROVE  ContentInv' /\ StoredInv' /\ InterruptedInv' /\ StreamInv' /\ DoneInv' /\ Stores
<1>1. /\ UNCHANGED <<connects, published>>
      /\ c.m \in DOMAIN published /\ c.m # 0
      /\ IsLast(published, Head(wire)) => published[c.m].result = "ok"
  BY TakenFrame
<1>2. c.got \in Nat /\ c.size \in Nat /\ c.m \in Nat
  BY DEF Contents
<1>3. /\ stored \in Seq(Contents) /\ \A k \in DOMAIN stored : Whole(stored[k])
      /\ DOMAIN stored = 1 .. Len(stored) /\ Len(stored) \in Nat
  BY LenProperties DEF ArrivalInv, StoredInv
<1>4. InterruptedInv'
  BY <1>1 DEF ArrivalInv, InterruptedInv, Errored
<1>5. CASE c.got = c.size
  <2>1. stored' = Append(stored, c) /\ content' = NoContent
    BY <1>5 DEF Takes
  <2>2. Whole(c)
    BY <1>1, <1>5 DEF Whole
  <2>3. /\ DOMAIN stored' = 1 .. Len(stored) + 1 /\ stored'[Len(stored) + 1] = c /\ stored' \in Seq(Contents)
        /\ \A k \in DOMAIN stored : k \in DOMAIN stored' /\ stored'[k] = stored[k]
    BY <1>3, <2>1
  <2>4. StoredInv'
    <3>1. \A k \in DOMAIN stored' : stored'[k] = c \/ k \in DOMAIN stored
      BY <1>3, <2>3
    <3>2. \A k \in DOMAIN stored' : Whole(stored'[k])
      BY <1>3, <2>2, <2>3, <3>1
    <3> QED BY <1>1, <2>3, <3>2 DEF StoredInv, Whole
  <2>5. ContentInv'
    <3>1. NoContent \in Contents
      BY EmptySeq DEF NoContent, Contents
    <3> QED BY <2>1, <3>1 DEF ContentInv
  <2>6. BrokerAt' = After(published, Head(wire))
    BY <1>5, <2>1 DEF BrokerAt, Within
  <2>7. \E k \in DOMAIN stored' : stored'[k].m = Head(wire).data.m
    <3>1. Len(stored) + 1 \in DOMAIN stored'
      BY <1>3, <2>3
    <3> QED BY <2>3, <3>1
  <2>8. Stores
    BY <1>5, <2>1 DEF Stores
  <2> QED BY <1>4, <2>3, <2>4, <2>5, <2>6, <2>7, <2>8, TakenStream
<1>6. CASE c.got # c.size
  <2>1. stored' = stored /\ content' = c
    BY <1>6 DEF Takes
  <2>2. StoredInv'
    BY <1>1, <1>3, <2>1 DEF StoredInv, Whole
  <2>3. c.size # 0 /\ c.got < c.size /\ c # NoContent
    BY <1>1, <1>2, <1>6 DEF NoContent
  <2>4. ContentInv'
    BY <1>1, <2>1, <2>3 DEF ContentInv
  <2>5. BrokerAt' = After(published, Head(wire))
    BY <1>6, <2>1, <2>3 DEF BrokerAt, Within
  <2>6. Stores
    BY <2>1 DEF Stores
  <2> QED BY <1>3, <1>4, <1>6, <2>1, <2>2, <2>4, <2>5, <2>6, TakenStream
<1> QED BY <1>5, <1>6

(* The content it goes on with is the one of the place where it is.        *)
LEMMA PlaceOfContent ==
  ASSUME ArrivalInv
  PROVE  /\ content \in Contents
         /\ BrokerAt.stage # "between" =>
              /\ content # NoContent /\ BrokerAt.m = content.m
              /\ content.m \in DOMAIN published
              /\ content.got = UpTo(content.pieces) /\ Chain(content.pieces, content.m)
         /\ BrokerAt.stage = "header" => content.size = 0 /\ content.pieces = <<>> /\ content.got = 0
         /\ BrokerAt.stage = "body" =>
              content.size = Size(published, content.m) /\ BrokerAt.to = content.got
<1>1. ContentInv
  BY DEF ArrivalInv
<1>2. CASE content = NoContent
  BY <1>1, <1>2 DEF ContentInv, BrokerAt, Between, Place
<1>3. CASE content # NoContent /\ content.size = 0
  <2>1. BrokerAt.stage = "header" /\ BrokerAt.m = content.m
    BY <1>3 DEF BrokerAt, Place
  <2> QED BY <1>1, <1>3, <2>1 DEF ContentInv, UpTo
<1>4. CASE content # NoContent /\ content.size # 0
  <2>1. BrokerAt.stage = "body" /\ BrokerAt.m = content.m /\ BrokerAt.to = content.got
    BY <1>4 DEF BrokerAt, Place
  <2> QED BY <1>1, <1>4, <2>1 DEF ContentInv
<1> QED BY <1>2, <1>3, <1>4

LEMMA TakesMethodArrival ==
  ASSUME ArrivalInv, BrokerTakesMethod
  PROVE  ContentInv' /\ StoredInv' /\ InterruptedInv' /\ StreamInv' /\ DoneInv' /\ Stores
<1>1. Takings /\ Head(wire).kind = "publish" /\ content' = [NoContent EXCEPT !.m = Head(wire).data.m]
      /\ UNCHANGED <<stored, interrupted>>
  BY DEF Takings, BrokerTakesMethod, BrokerReads
<1>2. PICK m : m = Head(wire).data.m /\ m \in DOMAIN published /\ m # 0 /\ m \in Nat
  BY <1>1, TakenFrame, ArrivalTyped
<1>3. content' = [m |-> m, size |-> 0, got |-> 0, pieces |-> <<>>]
  BY <1>1, <1>2 DEF NoContent
<1>4. published' = published
  BY <1>1, TakenFrame
<1>5. ContentInv'
  <2>1. content' \in Contents /\ content'.m = m /\ content'.size = 0 /\ content'.got = 0 /\ content'.pieces = <<>>
    BY <1>2, <1>3, EmptySeq DEF Contents
  <2>2. UpTo(<<>>) = 0 /\ Chain(<<>>, m)
    BY DEF UpTo, Chain
  <2> QED BY <1>2, <1>4, <2>1, <2>2 DEF ContentInv
<1>6. StoredInv' /\ InterruptedInv'
  BY <1>1, <1>4 DEF ArrivalInv, StoredInv, InterruptedInv, Whole, Errored
<1>7. BrokerAt' = After(published, Head(wire))
  <2>1. content' # NoContent /\ content'.size = 0 /\ content'.m = m
    BY <1>2, <1>3 DEF NoContent
  <2> QED BY <1>1, <1>2, <2>1 DEF BrokerAt, After
<1>8. ~IsLast(published, Head(wire))
  BY <1>1 DEF IsLast
<1> QED BY <1>1, <1>5, <1>6, <1>7, <1>8, TakenStream DEF Stores

LEMMA InterruptedArrival ==
  ASSUME ArrivalInv, BrokerIsInterrupted
  PROVE  ContentInv' /\ StoredInv' /\ InterruptedInv' /\ StreamInv' /\ DoneInv' /\ Stores
<1>1. Takings /\ Head(wire).kind = "publish" /\ content # NoContent /\ broker' = "closed"
      /\ interrupted' = interrupted \union {content.m} /\ UNCHANGED <<content, stored>>
  BY DEF Takings, BrokerIsInterrupted, BrokerReads
<1>2. published' = published
  BY <1>1, TakenFrame
<1>3. ContentInv' /\ StoredInv'
  BY <1>1, <1>2 DEF ArrivalInv, ContentInv, StoredInv, Whole
<1>4. Errored(published, content.m)
  <2>1. Free(published, BrokerAt)
    BY <1>1, TakenFrame DEF Follows
  <2>2. BrokerAt.stage # "between" /\ BrokerAt.m = content.m
    BY <1>1 DEF BrokerAt, Place
  <2> QED BY <2>1, <2>2 DEF Free
<1>5. InterruptedInv'
  BY <1>1, <1>2, <1>4 DEF ArrivalInv, InterruptedInv, Errored
<1> QED BY <1>1, <1>3, <1>5 DEF StreamInv, DoneInv, InStream, Stores

LEMMA TakesHeaderArrival ==
  ASSUME ArrivalInv, BrokerTakesHeader
  PROVE  ContentInv' /\ StoredInv' /\ InterruptedInv' /\ StreamInv' /\ DoneInv' /\ Stores
<1> DEFINE c == [content EXCEPT !.size = Head(wire).data.to]
<1>1. Takings /\ Head(wire).kind = "header frame" /\ Takes(c) /\ interrupted' = interrupted
  BY DEF Takings, BrokerTakesHeader, BrokerReads
<1>2. /\ BrokerAt = Place("header", Head(wire).data.m, 0)
      /\ Head(wire).data.to = Size(published, Head(wire).data.m)
      /\ Head(wire).data \in Parts
  BY <1>1, TakenFrame DEF Follows
<1>3. BrokerAt.stage = "header" /\ BrokerAt.m = Head(wire).data.m
  BY <1>2 DEF Place
<1>4. /\ content \in Contents /\ content.m = Head(wire).data.m
      /\ content.got = 0 /\ content.pieces = <<>>
      /\ content.got = UpTo(content.pieces) /\ Chain(content.pieces, content.m)
  BY <1>3, PlaceOfContent
<1>5. Head(wire).data.to \in Nat
  BY <1>2 DEF Parts
<1>6. /\ c \in Contents /\ c.m = content.m /\ c.got = 0 /\ c.pieces = content.pieces /\ c.size = Head(wire).data.to
  BY <1>4, <1>5 DEF Contents
<1> HIDE DEF c
<1>7. c.got = c.size <=> IsLast(published, Head(wire))
  BY <1>1, <1>6 DEF IsLast
<1>8. After(published, Head(wire)) = Within(published, c.m, c.got)
  BY <1>1, <1>4, <1>6 DEF After
<1>9. c.got = UpTo(c.pieces) /\ Chain(c.pieces, c.m) /\ c.got <= c.size
  BY <1>4, <1>5, <1>6
<1>10. c.m = Head(wire).data.m /\ c.size = Size(published, c.m)
  BY <1>2, <1>4, <1>6
<1> QED BY <1>1, <1>6, <1>7, <1>8, <1>9, <1>10, Assembled

LEMMA TakesBodyArrival ==
  ASSUME ArrivalInv, BrokerTakesBody
  PROVE  ContentInv' /\ StoredInv' /\ InterruptedInv' /\ StreamInv' /\ DoneInv' /\ Stores
<1> DEFINE p == Head(wire).data
           c == [content EXCEPT !.pieces = Append(@, p), !.got = @ + p.to - p.from]
<1>1. Takings /\ Head(wire).kind = "body" /\ Takes(c) /\ interrupted' = interrupted
  BY DEF Takings, BrokerTakesBody, BrokerReads
<1>2. /\ BrokerAt = Place("body", p.m, p.from) /\ p.from < p.to /\ p.to <= Size(published, p.m)
      /\ p \in Parts
  BY <1>1, TakenFrame DEF Follows
<1> HIDE DEF p
<1>3. BrokerAt.stage = "body" /\ BrokerAt.m = p.m /\ BrokerAt.to = p.from
  BY <1>2 DEF Place
<1>4. /\ content \in Contents /\ content.m = p.m /\ content.got = p.from
      /\ content.size = Size(published, p.m)
      /\ content.got = UpTo(content.pieces) /\ Chain(content.pieces, content.m)
  BY <1>3, PlaceOfContent
<1>5. p.to \in Nat /\ p.from \in Nat /\ p.m \in Nat /\ content.pieces \in Seq(Parts)
  BY <1>2, <1>4 DEF Parts, Contents
<1>6. content.got + p.to - p.from = p.to
  BY <1>4, <1>5
<1>7. PICK s \in Seq(Parts) : s = Append(content.pieces, p)
  <2>1. Append(content.pieces, p) \in Seq(Parts)
    BY <1>2, <1>5, AppendProperties
  <2> QED BY <2>1
<1>8. /\ c \in Contents /\ c.m = p.m /\ c.got = p.to /\ c.pieces = s /\ c.size = content.size
  <2>1. c = [content EXCEPT !.pieces = s, !.got = p.to]
    BY <1>6, <1>7
  <2> HIDE DEF c
  <2> QED BY <1>4, <1>5, <2>1 DEF Contents
<1> HIDE DEF c
<1>9. /\ Len(s) = Len(content.pieces) + 1 /\ DOMAIN s = 1 .. Len(s) /\ Len(content.pieces) \in Nat
      /\ DOMAIN content.pieces = 1 .. Len(content.pieces) /\ s # <<>>
      /\ s[Len(s)] = p /\ \A i \in DOMAIN content.pieces : s[i] = content.pieces[i]
      /\ content.pieces = <<>> <=> Len(content.pieces) = 0
  BY <1>2, <1>5, <1>7, AppendProperties, LenProperties, EmptySeq
<1>10. UpTo(s) = p.to
  BY <1>9 DEF UpTo, Last
<1>11. Chain(s, p.m)
  <2> SUFFICES ASSUME NEW i \in DOMAIN s
               PROVE  s[i].m = p.m /\ s[i].from = IF i = 1 THEN 0 ELSE s[i - 1].to
    BY DEF Chain
  <2>1. CASE i \in DOMAIN content.pieces
    <3>1. s[i] = content.pieces[i] /\ (i # 1 => i - 1 \in DOMAIN content.pieces /\ s[i - 1] = content.pieces[i - 1])
      BY <1>9, <2>1
    <3> QED BY <1>4, <2>1, <3>1 DEF Chain
  <2>2. CASE i = Len(s)
    <3>1. s[i] = p /\ p.from = UpTo(content.pieces)
      BY <1>4, <1>9, <2>2
    <3>2. CASE i = 1
      BY <1>9, <2>2, <3>1, <3>2 DEF UpTo
    <3>3. CASE i # 1
      <4>1. content.pieces # <<>> /\ i - 1 = Len(content.pieces) /\ i - 1 \in DOMAIN content.pieces
        BY <1>9, <2>2, <3>3
      <4>2. s[i - 1] = content.pieces[i - 1] /\ UpTo(content.pieces) = content.pieces[i - 1].to
        BY <1>9, <4>1 DEF UpTo, Last
      <4> QED BY <3>1, <3>3, <4>2
    <3> QED BY <3>2, <3>3
  <2> QED BY <1>9, <2>1, <2>2
<1>12. c.got = c.size <=> IsLast(published, Head(wire))
  BY <1>1, <1>4, <1>8 DEF IsLast, p
<1>13. After(published, Head(wire)) = Within(published, c.m, c.got)
  BY <1>1, <1>8 DEF After, p
<1>14. c.m = Head(wire).data.m /\ c.size = Size(published, c.m) /\ c.got <= c.size
  BY <1>2, <1>4, <1>8 DEF p
<1>15. c.got = UpTo(c.pieces) /\ Chain(c.pieces, c.m)
  BY <1>8, <1>10, <1>11
<1> QED BY <1>1, <1>8, <1>12, <1>13, <1>14, <1>15, Assembled

-----------------------------------------------------------------------------
(* The invariant holds at first, and every step keeps it.                  *)
LEMMA ArrivalInit == PublishInit => ArrivalInv
<1> SUFFICES ASSUME PublishInit PROVE ArrivalInv
  OBVIOUS
<1>1. /\ at = "new" /\ connects = 0 /\ wire = <<>> /\ line = "down" /\ broker = "gone"
      /\ published = <<>> /\ next = "none" /\ body_offset = 0
      /\ content = NoContent /\ stored = <<>> /\ interrupted = {}
  BY DEF PublishInit, SessionInit
<1>2. LoginInv
  BY LoginInit
<1>3. OrderInv /\ CutInv
  <2>1. Waits = 0 /\ SaidAt(at) = 4
    BY <1>1 DEF Waits, SaidAt
  <2> QED BY <1>1, <2>1 DEF OrderInv, CutInv
<1>4. KnownInv /\ NextInv /\ InterruptedInv
  BY <1>1 DEF KnownInv, NextInv, InterruptedInv
<1>5. ContentInv
  <2>1. NoContent \in Contents
    BY EmptySeq DEF NoContent, Contents
  <2> QED BY <1>1, <2>1 DEF ContentInv
<1>6. StoredInv
  BY <1>1, EmptySeq DEF StoredInv
<1>7. StreamInv /\ DoneInv
  BY <1>1 DEF StreamInv, DoneInv, InStream
<1> QED BY <1>2, <1>3, <1>4, <1>5, <1>6, <1>7 DEF ArrivalInv

LEMMA ArrivalStep == ArrivalInv /\ [PublishNext]_publishVars => ArrivalInv'
<1> SUFFICES ASSUME ArrivalInv, [PublishNext]_publishVars PROVE ArrivalInv'
  OBVIOUS
<1>1. LoginInv' /\ TypedInv'
  BY LoginStep DEF ArrivalInv, LoginInv
<1>2. OrderInv' /\ CutInv'
  BY ArrivalTyped, OrderStep DEF ArrivalInv
<1> SUFFICES KnownInv' /\ NextInv' /\ ContentInv' /\ StoredInv' /\ StreamInv' /\ DoneInv' /\ InterruptedInv'
  BY <1>1, <1>2 DEF ArrivalInv
<1>3. CASE SessionStep /\ ConnectToHost
  BY <1>3, ConnectArrival
<1>4. CASE SessionStep /\ ~ConnectToHost
  <2>1. SessionNext /\ connects' = connects
    BY <1>4, ArrivalTyped, SessionMoves DEF SessionStep
  <2>2. Unpublished
    BY <1>4, <2>1 DEF SessionStep, Unpublished, publisher
  <2> QED BY <1>1, <1>4, <2>1, <2>2, KeptContents, SessionKnown, SessionStream
<1>5. CASE StartPublish
  BY <1>1, <1>5, StartPublishArrival
<1>6. CASE SendMethod \/ SendHeaderFrame \/ SendBody
  <2>1. PublishStep /\ Quietly
    BY <1>6, ArrivalTyped, PublishStepFacts DEF Quietly
  <2>2. ContentInv' /\ StoredInv' /\ InterruptedInv'
    BY <1>1, <2>1, PublishMoves, PublishedKept DEF Quietly
  <2>3. StreamInv' /\ DoneInv'
    BY <1>1, <2>1, PublishStream, PublishDone DEF StreamInv, DoneInv
  <2> QED BY <1>1, <2>1, <2>2, <2>3, PublishKnown
<1>7. CASE Takings
  <2>1. KnownInv' /\ NextInv'
    BY <1>7, TakenKnown
  <2> QED BY <1>7, <2>1, TakesMethodArrival, InterruptedArrival, TakesHeaderArrival, TakesBodyArrival DEF Takings
<1>8. CASE UNCHANGED publishVars
  <2>1. UNCHANGED <<at, connects, wire, line, broker>> /\ Unpublished
    BY <1>8 DEF publishVars, sessionVars, publisher, contents, brokerVars, Unpublished
  <2>2. NextInv' /\ ContentInv' /\ StoredInv' /\ InterruptedInv' /\ BrokerAt' = BrokerAt
    BY <2>1, KeptContents
  <2>3. KnownInv'
    BY <2>1 DEF ArrivalInv, KnownInv, Known, IsLast, Size, Unpublished
  <2>4. StreamInv' /\ DoneInv'
    BY <2>1, <2>2 DEF ArrivalInv, StreamInv, DoneInv, InStream, WireEnd, Broken, Arrives, Current, Unpublished
  <2> QED BY <2>2, <2>3, <2>4
<1> QED BY <1>3, <1>4, <1>5, <1>6, <1>7, <1>8 DEF PublishNext, amqp_basic_publish, Takings

LEMMA ArrivalIsInvariant == PublishSpec => []ArrivalInv
<1> QED BY ArrivalInit, ArrivalStep, PTL DEF PublishSpec

(* The state has its type: the program is in a publish just when a frame   *)
(* is left to send, which starts before the end of the body, and the       *)
(* broker puts together, and breaks off, only what was published.          *)
THEOREM PublishIsTyped == PublishSpec => []PublishTypeOK
<1>1. ArrivalInv => PublishTypeOK
  <2> SUFFICES ASSUME ArrivalInv PROVE PublishTypeOK
    OBVIOUS
  <2>1. SessionTypeOK /\ PublisherInv
    BY ArrivalTyped DEF TypedInv
  <2>2. content.m \in 0 .. Len(published)
    <3>1. content = NoContent \/ content.m \in 1 .. Len(published)
      BY ArrivalTyped DEF ArrivalInv, ContentInv
    <3> QED BY <3>1, ArrivalTyped DEF NoContent
  <2>3. interrupted \subseteq DOMAIN published
    BY DEF ArrivalInv, InterruptedInv, Errored
  <2> QED BY <2>1, <2>2, <2>3 DEF PublishTypeOK, PublisherInv, Publication, Underway
<1> QED BY <1>1, ArrivalIsInvariant, PTL

(* What the broker stores is a message's whole body, in one chain of       *)
(* pieces, and a publish that returned 0 for; each such message of an open *)
(* connection is stored once everything sent was read; and a content is    *)
(* broken off only if its publish returned an error.                       *)
THEOREM ContentsArriveWhole == PublishSpec => []MessagesArriveWhole
<1>1. ArrivalInv => MessagesArriveWhole
  <2> SUFFICES ASSUME ArrivalInv PROVE MessagesArriveWhole
    OBVIOUS
  <2>1. StoredIsWhole
    <3> SUFFICES ASSUME NEW k \in DOMAIN stored
                 PROVE  /\ stored[k].size = published[stored[k].m].message.size
                        /\ stored[k].size = IF stored[k].pieces = <<>> THEN 0 ELSE Last(stored[k].pieces).to
                        /\ published[stored[k].m].result # "error"
                        /\ \A i \in DOMAIN stored[k].pieces :
                             /\ stored[k].pieces[i].m = stored[k].m
                             /\ stored[k].pieces[i].from = IF i = 1 THEN 0 ELSE stored[k].pieces[i - 1].to
      BY DEF StoredIsWhole
    <3>1. Whole(stored[k])
      BY DEF ArrivalInv, StoredInv
    <3> QED BY <3>1 DEF Whole, Size, UpTo, Chain
  <2>2. PublishedIsStored
    <3> SUFFICES ASSUME NEW m \in DOMAIN published, published[m].result = "ok", published[m].on = connects,
                        line = "up", broker = "opened", wire = <<>>
                 PROVE  \E k \in DOMAIN stored : stored[k].m = m
      BY DEF PublishedIsStored
    <3>1. Arrives(m)
      BY DEF ArrivalInv, DoneInv, InStream
    <3> QED BY <3>1 DEF Arrives, Broken
  <2>3. InterruptedByError
    BY DEF ArrivalInv, InterruptedInv, Errored, InterruptedByError
  <2> QED BY <2>1, <2>2, <2>3 DEF MessagesArriveWhole
<1> QED BY <1>1, ArrivalIsInvariant, PTL

-----------------------------------------------------------------------------
(***************************************************************************)
(* One queue                                                               *)
(*                                                                         *)
(* Messages come in the order of their publishes, whatever connections     *)
(* they go over: a content frame on the way is of a later message than     *)
(* those stored, than those whose last frame is ahead of it, and of no     *)
(* earlier one than any that is ahead of it.                               *)
(***************************************************************************)
Later(pub, f, g) == f.data.m <= g.data.m /\ (IsLast(pub, f) => f.data.m < g.data.m)
Successive(pub, w) ==
  \A i, j \in DOMAIN w : i < j /\ w[i].kind \in Content /\ w[j].kind \in Content => Later(pub, w[i], w[j])
Ahead(s, w) == \A k \in DOMAIN s, i \in DOMAIN w : w[i].kind \in Content => s[k].m < w[i].data.m
AheadInv == Successive(published, wire) /\ Ahead(stored, wire)

(* The frames that go on being on the way, d places further, stay so.      *)
LEMMA AheadKept ==
  ASSUME ArrivalInv, AheadInv, Keeps(published, published'), stored' = stored, NEW d \in {0, 1},
         \A i \in DOMAIN wire' :
           i \in Nat /\ (wire'[i].kind \in Content => i + d \in DOMAIN wire /\ wire'[i] = wire[i + d])
  PROVE  AheadInv'
<1>1. ASSUME NEW i \in DOMAIN wire', NEW j \in DOMAIN wire', i < j, wire'[i].kind \in Content, wire'[j].kind \in Content
      PROVE  Later(published', wire'[i], wire'[j])
  <2>1. /\ i + d \in DOMAIN wire /\ wire'[i] = wire[i + d] /\ j + d \in DOMAIN wire /\ wire'[j] = wire[j + d]
        /\ i + d < j + d
    BY <1>1
  <2>2. Later(published, wire[i + d], wire[j + d])
    BY <1>1, <2>1 DEF AheadInv, Successive
  <2>3. wire[i + d].data.m \in DOMAIN published
    BY <1>1, <2>1, KnownFrames
  <2>4. IsLast(published', wire[i + d]) <=> IsLast(published, wire[i + d])
    BY <2>3 DEF IsLast, Size, Keeps
  <2> QED BY <2>1, <2>2, <2>4 DEF Later
<1>2. ASSUME NEW k \in DOMAIN stored', NEW i \in DOMAIN wire', wire'[i].kind \in Content
      PROVE  stored'[k].m < wire'[i].data.m
  BY <1>2 DEF AheadInv, Ahead
<1> QED BY <1>1, <1>2 DEF AheadInv, Successive, Ahead

LEMMA SessionAhead ==
  ASSUME ArrivalInv, AheadInv, SessionStep
  PROVE  AheadInv'
<1>1. /\ UNCHANGED <<published, stored>> /\ SessionNext /\ TypedInv /\ wire \in Seq(Sent)
      /\ DOMAIN wire = 1 .. Len(wire) /\ Len(wire) \in Nat /\ Keeps(published, published')
  BY ArrivalTyped DEF SessionStep, publisher, Keeps
<1>2. CASE wire' = wire
  <2>1. \A i \in DOMAIN wire' : i \in Nat /\ i + 0 \in DOMAIN wire /\ wire'[i] = wire[i + 0]
    BY <1>1, <1>2
  <2> QED BY <1>1, <2>1, AheadKept
<1>3. CASE wire' = <<>>
  BY <1>3 DEF AheadInv, Successive, Ahead
<1>4. CASE wire # <<>> /\ wire' = Tail(wire)
  <2>1. \A i \in DOMAIN wire' : i \in Nat /\ i + 1 \in DOMAIN wire /\ wire'[i] = wire[i + 1]
    BY <1>1, <1>4, TailFacts
  <2> QED BY <1>1, <2>1, AheadKept
<1>5. ASSUME NEW f \in Sent, NEW ok \in BOOLEAN, f.kind \notin Content, Sends(f, ok)
      PROVE  AheadInv'
  <2>1. Cut.kind \notin Content
    BY LimitsFacts DEF Content
  <2>2. wire' \in Seq(Sent) /\ DOMAIN wire' = 1 .. Len(wire') /\ Len(wire') \in Nat
        /\ \A i \in DOMAIN wire' :
             \/ i \in DOMAIN wire /\ wire'[i] = wire[i]
             \/ wire'[i] = f
             \/ wire'[i] = Cut
    BY <1>1, <1>5, SendsFacts, LenProperties
  <2>3. \A i \in DOMAIN wire' :
          i \in Nat /\ (wire'[i].kind \in Content => i + 0 \in DOMAIN wire /\ wire'[i] = wire[i + 0])
    BY <1>1, <1>5, <2>1, <2>2
  <2> QED BY <1>1, <2>3, AheadKept
<1>6. CASE ConnectToHost
  BY <1>3, <1>6 DEF ConnectToHost
<1> QED BY <1>1, <1>2, <1>3, <1>4, <1>5, <1>6, SessionWire

(* The frame that a publish sends is of the last message, and those whose  *)
(* last frame is sent have returned.                                       *)
LEMMA PublishAhead ==
  ASSUME ArrivalInv, AheadInv, TypedInv', PublishStep, Quietly
  PROVE  AheadInv'
<1>1. /\ next # "none" /\ published[Current].result = "none" /\ Keeps(published, published')
      /\ \/ wire' = wire \/ wire' = Append(wire, SentFrame) \/ wire' = Append(wire, Cut)
      /\ stored' = stored
  BY PublishMoves DEF Quietly, contents
<1>2. /\ SentFrame \in Sent /\ SentFrame.kind \in Content /\ SentFrame.data.m = Current
      /\ Current \in DOMAIN published /\ Cut \in Sent /\ Cut.kind \notin Content
      /\ wire \in Seq(Sent) /\ DOMAIN wire = 1 .. Len(wire) /\ Len(wire) \in Nat
      /\ DOMAIN published = 1 .. Current /\ Current \in Nat
  BY <1>1, SentFrameFacts, ArrivalTyped, LimitsFacts DEF Content, Current
<1>3. CASE wire' = wire
  <2>1. \A i \in DOMAIN wire' : i \in Nat /\ i + 0 \in DOMAIN wire /\ wire'[i] = wire[i + 0]
    BY <1>2, <1>3
  <2> QED BY <1>1, <2>1, AheadKept
<1>4. CASE wire' = Append(wire, Cut)
  <2>1. \A i \in DOMAIN wire' :
          i \in Nat /\ (wire'[i].kind \in Content => i + 0 \in DOMAIN wire /\ wire'[i] = wire[i + 0])
    BY <1>2, <1>4
  <2> QED BY <1>1, <2>1, AheadKept
<1>5. CASE wire' = Append(wire, SentFrame)
  <2>1. /\ DOMAIN wire' = 1 .. Len(wire) + 1 /\ wire'[Len(wire) + 1] = SentFrame
        /\ \A i \in DOMAIN wire : wire'[i] = wire[i]
    BY <1>2, <1>5
  <2>2. ASSUME NEW i \in DOMAIN wire, wire[i].kind \in Content
        PROVE  Later(published', wire[i], SentFrame)
    <3>1. wire[i].data.m \in DOMAIN published /\ (IsLast(published, wire[i]) => published[wire[i].data.m].result = "ok")
      BY <2>2, KnownFrames
    <3>2. IsLast(published', wire[i]) <=> IsLast(published, wire[i])
      BY <1>1, <3>1 DEF IsLast, Size, Keeps
    <3>3. wire[i].data.m \in 1 .. Current /\ (IsLast(published, wire[i]) => wire[i].data.m # Current)
      BY <1>1, <1>2, <3>1
    <3> QED BY <1>2, <3>2, <3>3 DEF Later
  <2>3. ASSUME NEW i \in DOMAIN wire', NEW j \in DOMAIN wire', i < j, wire'[i].kind \in Content, wire'[j].kind \in Content
        PROVE  Later(published', wire'[i], wire'[j])
    <3>1. i \in DOMAIN wire /\ wire'[i] = wire[i]
      BY <1>2, <2>1, <2>3
    <3>2. CASE j = Len(wire) + 1
      BY <2>1, <2>2, <2>3, <3>1, <3>2
    <3>3. CASE j # Len(wire) + 1
      <4>1. j \in DOMAIN wire /\ wire'[j] = wire[j]
        BY <1>2, <2>1, <2>3, <3>3
      <4>2. Later(published, wire[i], wire[j])
        BY <2>3, <3>1, <4>1 DEF AheadInv, Successive
      <4>3. wire[i].data.m \in DOMAIN published
        BY <2>3, <3>1, KnownFrames
      <4>4. IsLast(published', wire[i]) <=> IsLast(published, wire[i])
        BY <1>1, <4>3 DEF IsLast, Size, Keeps
      <4> QED BY <3>1, <4>1, <4>2, <4>4 DEF Later
    <3> QED BY <3>2, <3>3
  <2>4. ASSUME NEW k \in DOMAIN stored, NEW i \in DOMAIN wire', wire'[i].kind \in Content
        PROVE  stored[k].m < wire'[i].data.m
    <3>1. CASE i = Len(wire) + 1
      <4>1. stored[k].m \in DOMAIN published /\ published[stored[k].m].result = "ok"
        BY DEF ArrivalInv, StoredInv, Whole
      <4>2. stored[k].m \in 1 .. Current /\ stored[k].m # Current
        BY <1>1, <1>2, <4>1
      <4> QED BY <1>2, <2>1, <3>1, <4>2
    <3>2. CASE i # Len(wire) + 1
      <4>1. i \in DOMAIN wire /\ wire'[i] = wire[i]
        BY <1>2, <2>1, <3>2
      <4> QED BY <2>4, <4>1 DEF AheadInv, Ahead
    <3> QED BY <3>1, <3>2
  <2> QED BY <1>1, <2>3, <2>4 DEF AheadInv, Successive, Ahead
<1> QED BY <1>1, <1>3, <1>4, <1>5

(* What the broker takes: a last frame is ahead of those of later messages.*)
LEMMA TakingStores ==
  ASSUME ArrivalInv, Takings
  PROVE  Stores
BY TakesMethodArrival, InterruptedArrival, TakesHeaderArrival, TakesBodyArrival DEF Takings

LEMMA TakingAhead ==
  ASSUME ArrivalInv, AheadInv, Takings
  PROVE  AheadInv'
<1>1. /\ wire # <<>> /\ wire' = Tail(wire) /\ published' = published /\ wire \in Seq(Sent)
      /\ DOMAIN wire = 1 .. Len(wire) /\ Len(wire) \in Nat /\ Head(wire).kind \in Content
      /\ Keeps(published, published')
  BY TakenFrame, ArrivalTyped DEF Keeps
<1>2. /\ 1 \in DOMAIN wire /\ Head(wire) = wire[1]
      /\ \A i \in DOMAIN wire' : i \in Nat /\ i + 1 \in DOMAIN wire /\ 1 < i + 1 /\ wire'[i] = wire[i + 1]
  <2>1. \A i \in DOMAIN wire' : i \in Nat \ {0} /\ i + 1 \in DOMAIN wire /\ wire'[i] = wire[i + 1]
    BY <1>1, TailFacts
  <2> QED BY <1>1, <2>1, TailFacts
<1>3. CASE stored' = stored
  BY <1>1, <1>2, <1>3, AheadKept
<1>4. ASSUME IsLast(published, Head(wire)), NEW c \in Contents, c.m = Head(wire).data.m, stored' = Append(stored, c)
      PROVE  AheadInv'
  <2>1. Successive(published, wire)'
    BY <1>1, <1>2 DEF AheadInv, Successive
  <2>2. stored \in Seq(Contents) /\ DOMAIN stored' = 1 .. Len(stored) + 1 /\ stored'[Len(stored) + 1] = c
        /\ DOMAIN stored = 1 .. Len(stored) /\ \A k \in DOMAIN stored : stored'[k] = stored[k]
    BY <1>4 DEF ArrivalInv, StoredInv
  <2>3. ASSUME NEW k \in DOMAIN stored', NEW i \in DOMAIN wire', wire'[i].kind \in Content
        PROVE  stored'[k].m < wire'[i].data.m
    <3>1. CASE k \in DOMAIN stored
      BY <1>2, <2>2, <2>3, <3>1 DEF AheadInv, Ahead
    <3>2. CASE k = Len(stored) + 1
      <4>1. Later(published, wire[1], wire[i + 1])
        BY <1>1, <1>2, <2>3 DEF AheadInv, Successive
      <4> QED BY <1>2, <1>4, <2>2, <3>2, <4>1 DEF Later
    <3> QED BY <2>2, <3>1, <3>2
  <2> QED BY <2>1, <2>3 DEF AheadInv, Ahead
<1> QED BY <1>3, <1>4, TakingStores DEF Stores

LEMMA AheadInit == PublishInit => AheadInv
BY DEF PublishInit, SessionInit, AheadInv, Successive, Ahead

LEMMA AheadStep == ArrivalInv /\ ArrivalInv' /\ AheadInv /\ [PublishNext]_publishVars => AheadInv'
<1> SUFFICES ASSUME ArrivalInv, ArrivalInv', AheadInv, [PublishNext]_publishVars PROVE AheadInv'
  OBVIOUS
<1>1. CASE SessionStep
  BY <1>1, SessionAhead
<1>2. CASE SendMethod \/ SendHeaderFrame \/ SendBody
  <2>1. TypedInv' /\ TypedInv
    BY ArrivalTyped DEF ArrivalInv, LoginInv
  <2>2. PublishStep /\ Quietly
    BY <1>2, <2>1, PublishStepFacts DEF Quietly
  <2> QED BY <2>1, <2>2, PublishAhead
<1>3. CASE Takings
  BY <1>3, TakingAhead
<1>4. CASE StartPublish \/ UNCHANGED publishVars
  <2>1. UNCHANGED <<wire, stored>>
    BY <1>4 DEF StartPublish, contents, publishVars, sessionVars
  <2>2. Keeps(published, published')
    <3>1. CASE StartPublish
      <4>1. \E e : published' = Append(published, e)
        BY <3>1 DEF StartPublish
      <4>2. DOMAIN published = 1 .. Len(published) /\ published \in Seq(Publication) /\ Len(published) \in Nat
        BY ArrivalTyped
      <4> QED BY <4>1, <4>2 DEF Keeps
    <3>2. CASE UNCHANGED publishVars
      BY <3>2 DEF Keeps, publishVars, publisher
    <3> QED BY <1>4, <3>1, <3>2
  <2>3. \A i \in DOMAIN wire' : i \in Nat /\ i + 0 \in DOMAIN wire /\ wire'[i] = wire[i + 0]
    BY <2>1, ArrivalTyped
  <2> QED BY <2>1, <2>2, <2>3, AheadKept
<1> QED BY <1>1, <1>2, <1>3, <1>4 DEF PublishNext, amqp_basic_publish, Takings

(* The results, and the messages stored, as the sequences of MessageQueue. *)
QueueTyped ==
  /\ Results \in Seq({"none", "ok", "error"}) /\ Len(Results) = Len(published)
  /\ DOMAIN Results = 1 .. Len(published) /\ DOMAIN published = 1 .. Len(published)
  /\ Len(published) \in Nat /\ published \in Seq(Publication)
  /\ \A m \in DOMAIN published : Results[m] = published[m].result
  /\ Stored \in Seq(Nat) /\ Len(Stored) = Len(stored) /\ DOMAIN stored = 1 .. Len(stored)
  /\ DOMAIN Stored = 1 .. Len(stored) /\ Len(stored) \in Nat /\ stored \in Seq(Contents)
  /\ \A k \in DOMAIN stored : Stored[k] = stored[k].m
  /\ (Results = <<>> <=> Len(published) = 0)

LEMMA QueueFacts == ArrivalInv => QueueTyped
<1> SUFFICES ASSUME ArrivalInv PROVE QueueTyped
  OBVIOUS
<1>1. DOMAIN published = 1 .. Len(published) /\ Len(published) \in Nat /\ published \in Seq(Publication)
  BY ArrivalTyped
<1>2. stored \in Seq(Contents) /\ DOMAIN stored = 1 .. Len(stored) /\ Len(stored) \in Nat
  BY LenProperties DEF ArrivalInv, StoredInv
<1>3. \A m \in 1 .. Len(published) : published[m].result \in {"none", "ok", "error"}
  <2>1. \A m \in 1 .. Len(published) : published[m] \in Publication
    BY <1>1, ElementOfSeq
  <2> QED BY <2>1 DEF Publication
<1>4. \A k \in 1 .. Len(stored) : stored[k].m \in Nat
  <2>1. \A k \in 1 .. Len(stored) : stored[k] \in Contents
    BY <1>2, ElementOfSeq
  <2> QED BY <2>1 DEF Contents
<1>5. Results = [m \in 1 .. Len(published) |-> published[m].result]
  BY <1>1 DEF Results
<1>6. Stored = [k \in 1 .. Len(stored) |-> stored[k].m]
  BY <1>2 DEF Stored
<1>7. Results \in Seq({"none", "ok", "error"}) /\ Len(Results) = Len(published)
  BY <1>1, <1>3, <1>5
<1>8. Stored \in Seq(Nat) /\ Len(Stored) = Len(stored)
  BY <1>2, <1>4, <1>6
<1>9. Results = <<>> <=> Len(Results) = 0
  BY <1>7, EmptySeq
<1> QED BY <1>1, <1>2, <1>5, <1>6, <1>7, <1>8, <1>9 DEF QueueTyped

LEMMA QueueFactsAgain == ArrivalInv' => QueueTyped'
BY QueueFacts, PTL

LEMMA SameQueue ==
  UNCHANGED <<published, stored>> => UNCHANGED Queue!vars
BY DEF Results, Stored, Queue!vars

LEMMA StartPublishQueues ==
  ASSUME ArrivalInv, ArrivalInv', StartPublish
  PROVE  Queue!Begin
<1>1. /\ at \notin Underway /\ UNCHANGED stored
      /\ \E e : e.result = "none" /\ published' = Append(published, e)
  BY DEF StartPublish, Stranded, contents, Underway
<1>2. PICK e : e.result = "none" /\ published' = Append(published, e)
  BY <1>1
<1> QueueTyped /\ QueueTyped'
  BY QueueFacts, QueueFactsAgain
<1>3. next = "none"
  BY <1>1, ArrivalTyped DEF PublisherInv
<1>4. ~Queue!Pending
  <2>1. \A m \in DOMAIN published : published[m].result # "none"
    BY <1>3 DEF ArrivalInv, NextInv
  <2>2. Results # <<>> => Len(published) \in DOMAIN published
    BY DEF QueueTyped
  <2> QED BY <2>1, <2>2 DEF QueueTyped, Queue!Pending
<1>5. /\ Len(published') = Len(published) + 1 /\ published'[Len(published) + 1] = e
      /\ \A m \in DOMAIN published : published'[m] = published[m]
  BY <1>2 DEF QueueTyped
<1>6. Results' = Append(Results, "none")
  <2>1. /\ Results' \in Seq({"none", "ok", "error"}) /\ Len(Results') = Len(published) + 1
        /\ Append(Results, "none") \in Seq({"none", "ok", "error"})
        /\ Len(Append(Results, "none")) = Len(published) + 1
    BY <1>5 DEF QueueTyped
  <2>2. ASSUME NEW m \in 1 .. Len(published) + 1 PROVE Results'[m] = Append(Results, "none")[m]
    <3>1. m \in DOMAIN published' /\ Results'[m] = published'[m].result
      <4>1. DOMAIN published' = 1 .. Len(published') /\ \A n \in DOMAIN published' : Results'[n] = published'[n].result
        BY DEF QueueTyped
      <4> QED BY <1>5, <4>1
    <3>2. CASE m = Len(published) + 1
      BY <1>2, <1>5, <3>1, <3>2 DEF QueueTyped
    <3>3. CASE m # Len(published) + 1
      <4>1. m \in 1 .. Len(published)
        <5>1. Len(published) \in Nat
          BY DEF QueueTyped
        <5> QED BY <3>3, <5>1
      <4>2. m \in DOMAIN published /\ Results[m] = published[m].result
        BY <4>1 DEF QueueTyped
      <4> QED BY <1>5, <3>1, <4>2 DEF QueueTyped
    <3> QED BY <3>2, <3>3
  <2> QED BY <2>1, <2>2, SeqEqual
<1>7. Stored' = Stored
  BY <1>1 DEF Stored
<1> QED BY <1>4, <1>6, <1>7 DEF Queue!Begin

LEMMA PublishStepQueues ==
  ASSUME ArrivalInv, ArrivalInv', PublishStep, Quietly
  PROVE  Queue!Return \/ UNCHANGED Queue!vars
<1> QueueTyped /\ QueueTyped'
  BY QueueFacts, QueueFactsAgain
<1>1. /\ published[Current].result = "none" /\ DOMAIN published' = DOMAIN published /\ stored' = stored
      /\ \A m \in DOMAIN published : m # Current => published'[m] = published[m]
      /\ \E ok \in BOOLEAN : GoesOn \/ Returns(ok)
      /\ Current \in DOMAIN published
  <2>1. TypedInv'
    BY DEF ArrivalInv, LoginInv
  <2>2. next # "none"
    BY DEF PublishStep
  <2> QED BY <2>1, <2>2, PublishMoves, SentFrameFacts DEF Quietly, contents
<1>2. CASE GoesOn
  BY <1>1, <1>2, SameQueue DEF GoesOn
<1>3. ASSUME NEW ok \in BOOLEAN, Returns(ok) PROVE Queue!Return
  <2>1. PICK r \in {"ok", "error"} : published'[Current].result = r
    BY <1>3 DEF Returns
  <2>2. /\ Len(Results) = Current /\ Current \in DOMAIN Results /\ Current \in Nat \ {0}
        /\ Results[Current] = "none" /\ Results # <<>>
    BY <1>1 DEF QueueTyped, Current
  <2>3. Len(published') = Len(published)
    <3>1. DOMAIN published' = 1 .. Len(published') /\ Len(published') \in Nat
      BY DEF QueueTyped
    <3>2. DOMAIN published = 1 .. Len(published) /\ Len(published) \in Nat
      BY DEF QueueTyped
    <3>3. ASSUME NEW a \in Nat, NEW b \in Nat, 1 .. a = 1 .. b PROVE a = b
      BY <3>3
    <3> QED BY <1>1, <3>1, <3>2, <3>3
  <2>4. Results' = [Results EXCEPT ![Len(Results)] = r]
    <3>1. /\ Results' \in Seq({"none", "ok", "error"}) /\ Len(Results') = Current
          /\ [Results EXCEPT ![Len(Results)] = r] \in Seq({"none", "ok", "error"})
          /\ Len([Results EXCEPT ![Len(Results)] = r]) = Current
      BY <2>2, <2>3 DEF QueueTyped, Current
    <3>2. ASSUME NEW m \in 1 .. Current PROVE Results'[m] = [Results EXCEPT ![Len(Results)] = r][m]
      <4>1. m \in DOMAIN published /\ m \in DOMAIN published' /\ Results[m] = published[m].result
        BY <1>1 DEF QueueTyped, Current
      <4>2. Results'[m] = published'[m].result
        BY <4>1 DEF QueueTyped
      <4>3. [Results EXCEPT ![Len(Results)] = r][m] = IF m = Current THEN r ELSE Results[m]
        BY <2>2, <4>1 DEF QueueTyped
      <4> QED BY <1>1, <2>1, <4>1, <4>2, <4>3
    <3> QED BY <3>1, <3>2, SeqEqual
  <2>5. Stored' = Stored
    BY <1>1 DEF Stored
  <2> QED BY <2>2, <2>4, <2>5 DEF Queue!Return, Queue!Pending
<1> QED BY <1>1, <1>2, <1>3

LEMMA TakingQueues ==
  ASSUME ArrivalInv, ArrivalInv', AheadInv, Takings
  PROVE  Queue!Keep \/ UNCHANGED Queue!vars
<1> QueueTyped /\ QueueTyped'
  BY QueueFacts, QueueFactsAgain
<1>1. /\ published' = published /\ wire \in Seq(Sent) /\ wire # <<>> /\ Head(wire).kind \in Content
      /\ Head(wire).data.m \in DOMAIN published
      /\ IsLast(published, Head(wire)) => published[Head(wire).data.m].result = "ok"
  BY TakenFrame, ArrivalTyped
<1>2. CASE stored' = stored
  BY <1>1, <1>2, SameQueue
<1>3. ASSUME IsLast(published, Head(wire)), NEW c \in Contents, c.m = Head(wire).data.m, stored' = Append(stored, c)
      PROVE  Queue!Keep
  <2>1. c.m \in DOMAIN Results /\ Results[c.m] = "ok" /\ c.m \in Nat
    BY <1>1, <1>3 DEF QueueTyped, Contents
  <2>2. ASSUME NEW k \in DOMAIN Stored PROVE Stored[k] < c.m
    <3>1. 1 \in DOMAIN wire /\ Head(wire) = wire[1]
      BY <1>1, TailFacts
    <3>2. k \in DOMAIN stored /\ Stored[k] = stored[k].m
      BY DEF QueueTyped
    <3> QED BY <1>1, <1>3, <3>1, <3>2 DEF AheadInv, Ahead
  <2>3. /\ Len(stored') = Len(stored) + 1 /\ stored'[Len(stored) + 1] = c
        /\ \A k \in DOMAIN stored : stored'[k] = stored[k]
    BY <1>3 DEF QueueTyped
  <2>4. Stored' = Append(Stored, c.m)
    <3>1. /\ Stored' \in Seq(Nat) /\ Len(Stored') = Len(stored) + 1
          /\ Append(Stored, c.m) \in Seq(Nat) /\ Len(Append(Stored, c.m)) = Len(stored) + 1
      BY <2>1, <2>3 DEF QueueTyped
    <3>2. ASSUME NEW k \in 1 .. Len(stored) + 1 PROVE Stored'[k] = Append(Stored, c.m)[k]
      <4>1. Stored'[k] = stored'[k].m
        <5>1. DOMAIN stored' = 1 .. Len(stored') /\ \A n \in DOMAIN stored' : Stored'[n] = stored'[n].m
          BY DEF QueueTyped
        <5> QED BY <2>3, <5>1
      <4>2. CASE k = Len(stored) + 1
        BY <2>1, <2>3, <4>1, <4>2 DEF QueueTyped
      <4>3. CASE k # Len(stored) + 1
        <5>1. k \in 1 .. Len(stored)
          <6>1. Len(stored) \in Nat
            BY DEF QueueTyped
          <6> QED BY <4>3, <6>1
        <5>2. k \in DOMAIN stored /\ Stored[k] = stored[k].m
          BY <5>1 DEF QueueTyped
        <5> QED BY <2>1, <2>3, <4>1, <5>2 DEF QueueTyped
      <4> QED BY <4>2, <4>3
    <3> QED BY <3>1, <3>2, SeqEqual
  <2>5. Results' = Results
    BY <1>1 DEF Results
  <2> QED BY <2>1, <2>2, <2>4, <2>5 DEF Queue!Keep
<1> QED BY <1>2, <1>3, TakingStores DEF Stores

LEMMA QueueStep ==
  ArrivalInv /\ ArrivalInv' /\ AheadInv /\ [PublishNext]_publishVars => [Queue!Next]_(Queue!vars)
<1> SUFFICES ASSUME ArrivalInv, ArrivalInv', AheadInv, [PublishNext]_publishVars
             PROVE  Queue!Next \/ UNCHANGED Queue!vars
  OBVIOUS
<1>1. CASE SessionStep \/ UNCHANGED publishVars
  <2>1. UNCHANGED <<published, stored>>
    BY <1>1 DEF SessionStep, publisher, publishVars, contents
  <2> QED BY <2>1, SameQueue
<1>2. CASE StartPublish
  BY <1>2, StartPublishQueues DEF Queue!Next
<1>3. CASE SendMethod \/ SendHeaderFrame \/ SendBody
  <2>1. PublishStep /\ Quietly
    BY <1>3, ArrivalTyped, PublishStepFacts DEF Quietly
  <2> QED BY <2>1, PublishStepQueues DEF Queue!Next
<1>4. CASE Takings
  BY <1>4, TakingQueues DEF Queue!Next
<1> QED BY <1>1, <1>2, <1>3, <1>4 DEF PublishNext, amqp_basic_publish, Takings

(* Publishing over connections that fail and are opened again is one       *)
(* queue: a message is at the broker at most once, after the ones that     *)
(* were published before it, and only if its publish returned 0.           *)
THEOREM PublishesToQueue == PublishSpec => QueueSpec
<1>1. PublishInit => Queue!Init
  <2>1. PublishInit => published = <<>> /\ stored = <<>>
    BY DEF PublishInit
  <2> QED BY <2>1, EmptySeq DEF Queue!Init, Results, Stored
<1> QED BY <1>1, AheadInit, AheadStep, QueueStep, ArrivalIsInvariant, PTL
        DEF PublishSpec, QueueSpec, Queue!Spec

(* MessageQueue's own invariant, and with it the order of what is stored.  *)
LEMMA QueueKeepsOrder == Queue!Spec => []Queue!QueueInv
<1> USE DEF Queue!QueueInv, Queue!TypeOK, Queue!OneAtATime, Queue!KeptInOrder
<1>1. Queue!Init => Queue!QueueInv
  BY EmptySeq DEF Queue!Init
<1>2. Queue!QueueInv /\ [Queue!Next]_(Queue!vars) => Queue!QueueInv'
  <2> SUFFICES ASSUME Queue!QueueInv, Queue!Next \/ UNCHANGED Queue!vars PROVE Queue!QueueInv'
    OBVIOUS
  <2>1. /\ Results \in Seq({"none", "ok", "error"}) /\ Stored \in Seq(DOMAIN Results)
        /\ DOMAIN Results = 1 .. Len(Results) /\ Len(Results) \in Nat
        /\ DOMAIN Stored = 1 .. Len(Stored) /\ Len(Stored) \in Nat
        /\ (Results = <<>> <=> Len(Results) = 0)
        /\ \A k \in DOMAIN Stored : Stored[k] \in DOMAIN Results
    BY EmptySeq, LenProperties, ElementOfSeq
  <2>2. CASE Queue!Begin
    BY <2>1, <2>2 DEF Queue!Begin, Queue!Pending
  <2>3. CASE Queue!Return
    BY <2>1, <2>3 DEF Queue!Return, Queue!Pending
  <2>4. CASE Queue!Keep
    BY <2>1, <2>4 DEF Queue!Keep
  <2>5. CASE UNCHANGED Queue!vars
    BY <2>5 DEF Queue!vars
  <2> QED BY <2>2, <2>3, <2>4, <2>5 DEF Queue!Next
<1> QED BY <1>1, <1>2, PTL DEF Queue!Spec

(* The program has one publish at a time, and what the broker stored over  *)
(* all connections are messages whose publish returned 0, each one once    *)
(* and in the order of the publishes.                                      *)
THEOREM StoredInOrder == PublishSpec => []Queue!QueueInv
BY PublishesToQueue, QueueKeepsOrder, PTL DEF QueueSpec
=============================================================================
